----------------------------- MODULE AgentPush ------------------------------
(***************************************************************************)
(* rsdb agent transfer.push: how the CLI strings push, fs.move, fs.rm and  *)
(* fs.stat requests together.  With --atomic or --if-changed each source   *)
(* is pushed to a hidden sibling of its destination, which fs.move then    *)
(* puts in place of what was there; any error is followed by an fs.rm of   *)
(* the sibling.  Every request is a connection of its own, so a handler    *)
(* whose client has lost its connection keeps running in the daemon next   *)
(* to the handler of the client's next request.                            *)
(*                                                                         *)
(* Several clients push to the same destination.  The content of a root is *)
(* abstracted to who wrote it and whether all of it is there.  A directory *)
(* is removed entry by entry, so a removal has a beginning and an end, and *)
(* every call of the filesystem may fail.                                  *)
(***************************************************************************)
EXTENDS Naturals

CONSTANTS
    Client,          \* the CLI processes
    R,               \* number of sources, each with its root at the destination
    IsDir,           \* IsDir[r]: root r is a (non-empty) directory
    Options,         \* the flags the commands may have, client by client
    MaxDisconnects,  \* bound: how many connections are lost
    MaxCrashes,      \* bound: how often the daemon dies
    Old, Nobody      \* owners that are no client

Root  == 1 .. R
Op    == {"push", "move", "rm"}
Flags == [atomic : BOOLEAN, ifChanged : BOOLEAN, verify : {"none", "size", "sha256"}]

ASSUME PushAssumption ==
    /\ R \in Nat \ {0}
    /\ IsDir \in [Root -> BOOLEAN]
    /\ Options \subseteq [Client -> Flags]
    /\ MaxDisconnects \in Nat /\ MaxCrashes \in Nat
    /\ Old \notin Client /\ Nobody \notin Client /\ Old # Nobody

(* What is at a path: nothing, all of an owner's content, the part of it    *)
(* that has been written, or what is left of a directory being removed.     *)
Node == [owner : Client \cup {Old, Nobody}, is : {"whole", "part", "rest"}]
Whole(o) == [owner |-> o, is |-> "whole"]
Part(o)  == [owner |-> o, is |-> "part"]
Mixed    == Part(Nobody)
Absent   == Whole(Nobody)
Rest     == [owner |-> Nobody, is |-> "rest"]
-----------------------------------------------------------------------------
VARIABLES
    opt,     \* opt[c]: the flags of c's command
    pc,      \* where each client is
    ridx,    \* the root it is at
    reply,   \* the daemon's answer to its current request
    hs,      \* hs[c][op]: where the handler of c's last request of that kind is
    final,   \* final[r]: what is at root r's destination
    staged,  \* staged[c]: what is at c's hidden sibling of root ridx[c]
    cuts,    \* connections lost so far
    crashes, \* deaths of the daemon so far
    ioFailed \* history: which filesystem calls have failed on their own

vars == <<opt, pc, ridx, reply, hs, final, staged, cuts, crashes, ioFailed>>

Staged(c) == opt[c].atomic \/ opt[c].ifChanged

Ended(c) == pc[c] \in {"ok", "failed"}
Requesting(c) == pc[c] \in {"push", "move", "cleanup"}

Init ==
    /\ opt \in Options
    /\ pc = [c \in Client |-> "resolve"]
    /\ ridx = [c \in Client |-> 1]
    /\ reply = [c \in Client |-> "none"]
    /\ hs = [c \in Client |-> [o \in Op |-> "none"]]
    /\ final = [r \in Root |-> Whole(Old)]
    /\ staged = [c \in Client |-> Absent]
    /\ cuts = 0 /\ crashes = 0 /\ ioFailed = {}

Goto(c, l) == pc' = [pc EXCEPT ![c] = l]

(* A request on a new connection. *)
Call(c, l, op, first) ==
    /\ Goto(c, l)
    /\ hs' = [hs EXCEPT ![c][op] = first]
    /\ reply' = [reply EXCEPT ![c] = "none"]
-----------------------------------------------------------------------------
(* The client.                                                              *)

(* collect_remote_transfer_state and transfer_states_match: every entry of  *)
(* the source is at the destination, with its size or with its hash.        *)
Matches(c, r, mode) ==
    IF final[r] = Whole(c) THEN {TRUE}
    ELSE IF mode = "size" /\ final[r] # Absent THEN BOOLEAN ELSE {FALSE}

(* build_local_batch_manifest and resolve_remote_batch_roots. *)
ResolveRoots(c) ==
    /\ pc[c] = "resolve"
    /\ \/ Staged(c) /\ Goto(c, "root") /\ UNCHANGED <<hs, reply>>
       \/ ~Staged(c) /\ Call(c, "push", "push", "start")
       \/ Goto(c, "failed") /\ UNCHANGED <<hs, reply>>
    /\ UNCHANGED <<ridx, final, staged, cuts, crashes, ioFailed, opt>>

(* The loop over the roots: compared first with --if-changed, then pushed   *)
(* to the staged path.  A request of the comparison may fail.               *)
NextRoot(c) ==
    /\ pc[c] = "root" /\ ridx[c] <= R
    /\ \/ /\ opt[c].ifChanged /\ TRUE \in Matches(c, ridx[c], "sha256")
          /\ ridx' = [ridx EXCEPT ![c] = @ + 1]
          /\ UNCHANGED <<pc, hs, reply>>
       \/ /\ opt[c].ifChanged => FALSE \in Matches(c, ridx[c], "sha256")
          /\ Call(c, "push", "push", "start")
          /\ UNCHANGED ridx
       \/ opt[c].ifChanged /\ Goto(c, "failed") /\ UNCHANGED <<ridx, hs, reply>>
    /\ UNCHANGED <<final, staged, cuts, crashes, ioFailed, opt>>

(* Mutant: a staged push that the daemon gave up is renamed into place all  *)
(* the same; only a lost connection counts as an error.                     *)
PushReturnedUnchecked(c) ==
    /\ pc[c] = "push" /\ reply[c] # "none"
    /\ \/ /\ Staged(c) /\ hs[c]["push"] = "none"
          /\ Call(c, "move", "move", "stat") /\ UNCHANGED ridx
       \/ /\ Staged(c) /\ hs[c]["push"] # "none"
          /\ Call(c, "cleanup", "rm", "stat") /\ UNCHANGED ridx
       \/ /\ reply[c] = "ok" /\ ~Staged(c) /\ Goto(c, "verify")
          /\ ridx' = [ridx EXCEPT ![c] = 1] /\ UNCHANGED <<hs, reply>>
       \/ reply[c] = "error" /\ ~Staged(c) /\ Goto(c, "failed") /\ UNCHANGED <<ridx, hs, reply>>
    /\ UNCHANGED <<final, staged, cuts, crashes, ioFailed, opt>>

(* Mutant: a failed push is tried again. *)
PushReturnedRetry(c) ==
    /\ pc[c] = "push" /\ reply[c] # "none"
    /\ \/ reply[c] = "ok" /\ Staged(c) /\ Call(c, "move", "move", "stat") /\ UNCHANGED ridx
       \/ /\ reply[c] = "ok" /\ ~Staged(c) /\ Goto(c, "verify")
          /\ ridx' = [ridx EXCEPT ![c] = 1] /\ UNCHANGED <<hs, reply>>
       \/ reply[c] = "error" /\ Call(c, "push", "push", "start") /\ UNCHANGED ridx
    /\ UNCHANGED <<final, staged, cuts, crashes, ioFailed, opt>>

(* execute_push_manifest returns. *)
PushReturned(c) ==
    /\ pc[c] = "push" /\ reply[c] # "none"
    /\ \/ reply[c] = "ok" /\ Staged(c) /\ Call(c, "move", "move", "stat") /\ UNCHANGED ridx
       \/ /\ reply[c] = "ok" /\ ~Staged(c) /\ Goto(c, "verify")
          /\ ridx' = [ridx EXCEPT ![c] = 1] /\ UNCHANGED <<hs, reply>>
       \/ reply[c] = "error" /\ Staged(c) /\ Call(c, "cleanup", "rm", "stat") /\ UNCHANGED ridx
       \/ reply[c] = "error" /\ ~Staged(c) /\ Goto(c, "failed") /\ UNCHANGED <<ridx, hs, reply>>
    /\ UNCHANGED <<final, staged, cuts, crashes, ioFailed, opt>>

(* Mutant: an error of fs.move is returned without a cleanup. *)
MoveReturnedNoCleanup(c) ==
    /\ pc[c] = "move" /\ reply[c] # "none"
    /\ Goto(c, IF reply[c] = "ok" THEN "root" ELSE "failed")
    /\ ridx' = IF reply[c] = "ok" THEN [ridx EXCEPT ![c] = @ + 1] ELSE ridx
    /\ UNCHANGED <<hs, reply, final, staged, cuts, crashes, ioFailed, opt>>

(* remote_fs_move_request returns. *)
MoveReturned(c) ==
    /\ pc[c] = "move" /\ reply[c] # "none"
    /\ \/ /\ reply[c] = "ok" /\ Goto(c, "root")
          /\ ridx' = [ridx EXCEPT ![c] = @ + 1]
          /\ UNCHANGED <<hs, reply>>
       \/ reply[c] = "error" /\ Call(c, "cleanup", "rm", "stat") /\ UNCHANGED ridx
    /\ UNCHANGED <<final, staged, cuts, crashes, ioFailed, opt>>

(* cleanup_remote_path returns; its result is ignored. *)
CleanupReturned(c) ==
    /\ pc[c] = "cleanup" /\ reply[c] # "none"
    /\ Goto(c, "failed")
    /\ UNCHANGED <<ridx, reply, hs, final, staged, cuts, crashes, ioFailed, opt>>

RootsDone(c) ==
    /\ pc[c] = "root" /\ ridx[c] = R + 1
    /\ Goto(c, "verify") /\ ridx' = [ridx EXCEPT ![c] = 1]
    /\ UNCHANGED <<reply, hs, final, staged, cuts, crashes, ioFailed, opt>>

(* --verify: every root is compared once more. *)
Verify(c) ==
    /\ pc[c] = "verify"
    /\ \/ /\ opt[c].verify = "none" \/ ridx[c] = R + 1
          /\ Goto(c, "ok") /\ UNCHANGED ridx
       \/ /\ opt[c].verify # "none" /\ ridx[c] <= R
          /\ \/ /\ TRUE \in Matches(c, ridx[c], opt[c].verify)
                /\ ridx' = [ridx EXCEPT ![c] = @ + 1] /\ UNCHANGED pc
             \/ Goto(c, "failed") /\ UNCHANGED ridx
    /\ UNCHANGED <<reply, hs, final, staged, cuts, crashes, ioFailed, opt>>
-----------------------------------------------------------------------------
(* The daemon's handlers.                                                   *)

At(c, op, l) == hs[c][op] = l

Step(c, op, l) == hs' = [hs EXCEPT ![c][op] = l] /\ UNCHANGED reply

(* The response, which nobody reads when the client has gone on. *)
Respond(c, op, r) ==
    /\ hs' = [hs EXCEPT ![c][op] = "none"]
    /\ reply' = IF reply[c] = "none" /\ pc[c] = (IF op = "rm" THEN "cleanup" ELSE op)
                THEN [reply EXCEPT ![c] = r] ELSE reply

(* Where c's push writes. *)
Dest(c) == IF Staged(c) THEN staged[c] ELSE final[ridx[c]]
SetDest(c, n) ==
    IF Staged(c) THEN staged' = [staged EXCEPT ![c] = n] /\ UNCHANGED final
    ELSE final' = [final EXCEPT ![ridx[c]] = n] /\ UNCHANGED staged

(* handle_push_batch: the root's first file is opened, or nothing is. *)
PushStart(c) ==
    /\ At(c, "push", "start")
    /\ \/ SetDest(c, Part(c)) /\ Step(c, "push", "writing")
       \/ UNCHANGED <<final, staged>> /\ Respond(c, "push", "error")
    /\ UNCHANGED <<pc, ridx, cuts, crashes, ioFailed, opt>>

(* What the push leaves at its root: all of it, unless somebody else wrote  *)
(* to it or removed it meanwhile.  A directory is then created again for    *)
(* the files still to come, and a file stays unlinked.                      *)
Finished(c) ==
    CASE Dest(c) = Part(c) -> Whole(c)
      [] Dest(c) \in {Absent, Rest} -> IF IsDir[ridx[c]] THEN Part(c) ELSE Absent
      [] OTHER -> Mixed

(* The root is complete and the next one follows, or the push fails         *)
(* half-way.                                                                *)
PushFinish(c) ==
    /\ At(c, "push", "writing")
    /\ \/ /\ SetDest(c, Finished(c))
          /\ IF ~Staged(c) /\ ridx[c] < R
             THEN ridx' = [ridx EXCEPT ![c] = @ + 1] /\ Step(c, "push", "start")
             ELSE UNCHANGED ridx /\ Respond(c, "push", "ok")
       \/ UNCHANGED <<final, staged, ridx>> /\ Respond(c, "push", "error")
    /\ UNCHANGED <<pc, cuts, crashes, ioFailed, opt>>

SetFinal(c, n) == final' = [final EXCEPT ![ridx[c]] = n]

(* handle_fs_move with overwrite: both stats, the removal, the rename.      *)
MoveStat(c) ==
    /\ At(c, "move", "stat")
    /\ \/ /\ staged[c] # Absent
          /\ Step(c, "move", IF final[ridx[c]] = Absent THEN "rename" ELSE "remove")
       \/ Respond(c, "move", "error")
    /\ UNCHANGED <<pc, ridx, final, staged, cuts, crashes, ioFailed, opt>>

(* remove_file takes the file away, remove_dir_all begins.  An error here   *)
(* has removed nothing.                                                     *)
MoveRemove(c) ==
    /\ At(c, "move", "remove")
    /\ \/ /\ final[ridx[c]] # Absent
          /\ SetFinal(c, IF IsDir[ridx[c]] THEN Rest ELSE Absent)
          /\ Step(c, "move", IF IsDir[ridx[c]] THEN "removing" ELSE "rename")
       \/ UNCHANGED final /\ Respond(c, "move", "error")
    /\ UNCHANGED <<pc, ridx, staged, cuts, crashes, ioFailed, opt>>

(* A push without --atomic writes into the directory that is there. *)
InPlace(n) == n = Mixed \/ \E d \in Client : ~Staged(d) /\ n \in {Part(d), Whole(d)}

(* remove_dir_all ends.  What somebody else has removed counts as removed,  *)
(* what was written there meanwhile is removed in whole, in part or not at  *)
(* all, a version renamed into place stays, and an entry that cannot be     *)
(* removed leaves the rest behind.                                          *)
MoveRemoving(c) ==
    LET there == final[ridx[c]] IN
    /\ At(c, "move", "removing")
    /\ \/ /\ there \in {Absent, Rest} \/ InPlace(there)
          /\ SetFinal(c, Absent) /\ Step(c, "move", "rename")
          /\ UNCHANGED ioFailed
       \/ /\ there # Absent
          /\ UNCHANGED final \/ (InPlace(there) /\ SetFinal(c, Mixed))
          /\ Respond(c, "move", "error")
          /\ ioFailed' = IF there = Rest THEN ioFailed \cup {"remove"} ELSE ioFailed
    /\ UNCHANGED <<pc, ridx, staged, cuts, crashes, opt>>

(* A directory may only be renamed onto nothing or onto an empty one. *)
Renamable(c) ==
    /\ staged[c] # Absent
    /\ IsDir[ridx[c]] => final[ridx[c]] \in {Absent, Rest}

MoveRename(c) ==
    /\ At(c, "move", "rename")
    /\ \/ /\ Renamable(c)
          /\ SetFinal(c, staged[c]) /\ staged' = [staged EXCEPT ![c] = Absent]
          /\ Respond(c, "move", "ok") /\ UNCHANGED ioFailed
       \/ /\ Respond(c, "move", "error") /\ UNCHANGED <<final, staged>>
          /\ ioFailed' = IF Renamable(c) /\ final[ridx[c]] # Rest
                         THEN ioFailed \cup {"rename"} ELSE ioFailed
    /\ UNCHANGED <<pc, ridx, cuts, crashes, opt>>

(* handle_fs_rm with recursive, force and if_exists. *)
RmStat(c) ==
    /\ At(c, "rm", "stat")
    /\ \/ staged[c] = Absent /\ Respond(c, "rm", "ok") /\ UNCHANGED ioFailed
       \/ staged[c] # Absent /\ Step(c, "rm", "remove") /\ UNCHANGED ioFailed
       \/ Respond(c, "rm", "error") /\ ioFailed' = ioFailed \cup {"rm"}
    /\ UNCHANGED <<pc, ridx, final, staged, cuts, crashes, opt>>

RmRemove(c) ==
    /\ At(c, "rm", "remove")
    /\ \/ /\ staged[c] # Absent
          /\ staged' = [staged EXCEPT ![c] = IF IsDir[ridx[c]] THEN Rest ELSE Absent]
          /\ IF IsDir[ridx[c]] THEN Step(c, "rm", "removing") ELSE Respond(c, "rm", "ok")
          /\ UNCHANGED ioFailed
       \/ /\ Respond(c, "rm", "error") /\ UNCHANGED staged
          /\ ioFailed' = IF staged[c] = Absent THEN ioFailed ELSE ioFailed \cup {"rm"}
    /\ UNCHANGED <<pc, ridx, final, cuts, crashes, opt>>

(* The end of remove_dir_all: the client's own push may still be writing    *)
(* there, or its fs.move have renamed the directory away.                   *)
RmRemoving(c) ==
    /\ At(c, "rm", "removing")
    /\ \/ /\ staged' = [staged EXCEPT ![c] = Absent]
          /\ Respond(c, "rm", "ok") /\ UNCHANGED ioFailed
       \/ /\ staged[c] # Absent /\ UNCHANGED staged
          /\ Respond(c, "rm", "error")
          /\ ioFailed' = IF staged[c] = Rest THEN ioFailed \cup {"rm"} ELSE ioFailed
    /\ UNCHANGED <<pc, ridx, final, cuts, crashes, opt>>
-----------------------------------------------------------------------------
(* A connection breaks: the client takes it for an error of the request,    *)
(* whose handler runs on.                                                   *)
Disconnect(c) ==
    /\ cuts < MaxDisconnects /\ cuts' = cuts + 1
    /\ Requesting(c) /\ reply[c] = "none"
    /\ reply' = [reply EXCEPT ![c] = "error"]
    /\ UNCHANGED <<pc, ridx, hs, final, staged, crashes, ioFailed, opt>>

(* The daemon dies with all its handlers and is started again. *)
Crash ==
    /\ crashes < MaxCrashes /\ crashes' = crashes + 1
    /\ \E c \in Client, o \in Op : hs[c][o] # "none"
    /\ hs' = [c \in Client |-> [o \in Op |-> "none"]]
    /\ reply' = [c \in Client |-> IF Requesting(c) /\ reply[c] = "none" THEN "error" ELSE reply[c]]
    /\ UNCHANGED <<pc, ridx, final, staged, cuts, ioFailed, opt>>

ClientStep(c) == \/ ResolveRoots(c) \/ NextRoot(c) \/ PushReturned(c) \/ MoveReturned(c)
                 \/ CleanupReturned(c) \/ RootsDone(c) \/ Verify(c)
HandlerStep(c) == \/ PushStart(c) \/ PushFinish(c) \/ MoveStat(c) \/ MoveRemove(c)
                  \/ MoveRemoving(c) \/ MoveRename(c) \/ RmStat(c) \/ RmRemove(c)
                  \/ RmRemoving(c)

Quiet == \A c \in Client : Ended(c) /\ \A o \in Op : hs[c][o] = "none"

Terminated == Quiet /\ UNCHANGED vars

Next == (\E c \in Client : ClientStep(c) \/ HandlerStep(c) \/ Disconnect(c)) \/ Crash \/ Terminated

(* Processes and tasks keep running. *)
Fairness == \A c \in Client : WF_vars(ClientStep(c)) /\ WF_vars(HandlerStep(c))

Spec == Init /\ [][Next]_vars /\ Fairness
-----------------------------------------------------------------------------
(* Type correctness; a staged path only ever holds its own client's content. *)
TypeOK ==
    /\ opt \in Options
    /\ pc \in [Client -> {"resolve", "root", "push", "move", "cleanup", "verify", "ok", "failed"}]
    /\ ridx \in [Client -> 1 .. R + 1]
    /\ reply \in [Client -> {"none", "ok", "error"}]
    /\ hs \in [Client -> [Op -> {"none", "start", "writing", "stat", "remove", "removing", "rename"}]]
    /\ final \in [Root -> Node]
    /\ \A c \in Client : staged[c] \in {Absent, Rest, Part(c), Whole(c)}
    /\ cuts \in 0 .. MaxDisconnects /\ crashes \in 0 .. MaxCrashes
    /\ ioFailed \subseteq {"remove", "rename", "rm"}

(* Some fs.move is taking away the directory at root r. *)
BeingRemoved(r) == \E c \in Client : hs[c]["move"] = "removing" /\ ridx[c] = r

(* transfer.push --atomic and --if-changed: a destination never holds a     *)
(* half-written version, whatever requests fail, are cut off or run side by *)
(* side.  handle_fs_move removes an old directory entry by entry, so what   *)
(* is left of one can be seen while that goes on, and stays only after a    *)
(* failed removal, a lost connection or a death of the daemon; a file is    *)
(* always a whole version or missing.                                       *)
DestinationIsWhole ==
    /\ TypeOK
    /\ (\A c \in Client : Staged(c)) =>
          \A r \in Root :
             /\ final[r].is # "part"
             /\ final[r] = Rest =>
                   /\ IsDir[r]
                   /\ \/ BeingRemoved(r) \/ "remove" \in ioFailed
                      \/ cuts > 0 \/ crashes > 0

Alone(c) == \A d \in Client \ {c} : pc[d] = "resolve"

(* run_agent_transfer_push: success means that the client's content is at   *)
(* every destination, when no other client has pushed there.                *)
SuccessIsDelivered ==
    \A c \in Client : pc[c] = "ok" /\ Alone(c) => \A r \in Root : final[r] = Whole(c)

(* fs.move removes the destination before it renames, and a failed root is  *)
(* cleaned up by a request of its own.  With no connection lost and no      *)
(* death of the daemon, once everybody is done a destination is missing     *)
(* only if the rename of some fs.move failed on its own, half removed only  *)
(* if a remove_dir_all did, and a staged copy is left only if its fs.rm     *)
(* did: no push, no stat and no race of two commands is enough.             *)
LossNeedsInterruption ==
    Quiet /\ cuts = 0 /\ crashes = 0 =>
        /\ \A r \in Root : /\ final[r] = Absent => "rename" \in ioFailed
                          /\ final[r] = Rest => "remove" \in ioFailed
        /\ \A c \in Client : staged[c] # Absent => "rm" \in ioFailed

(* Every command ends, and so does every handler it started. *)
EveryPushEnds == <>Quiet
=============================================================================
