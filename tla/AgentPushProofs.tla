-------------------------- MODULE AgentPushProofs ---------------------------
(***************************************************************************)
(* Proofs about AgentPush, for any number of clients, any number of files  *)
(* and directories, any flags, and any number of lost connections and of   *)
(* deaths of the daemon.                                                   *)
(***************************************************************************)
EXTENDS AgentPush, TLAPS

-----------------------------------------------------------------------------
(* The inductive invariant.                                                 *)

(* Which handlers may still be running for a client that is at pc[c]: a     *)
(* handler outlives its request only on the way to failure.                 *)
HandlersOK(c) ==
    /\ hs[c]["push"] \in {"none", "start", "writing"}
    /\ hs[c]["move"] \in {"none", "stat", "remove", "removing", "rename"}
    /\ hs[c]["rm"] \in {"none", "stat", "remove", "removing"}
    /\ hs[c]["push"] # "none" => pc[c] \in {"push", "cleanup", "failed"}
    /\ hs[c]["move"] # "none" =>
          pc[c] \in {"move", "cleanup", "failed"} /\ hs[c]["push"] = "none" /\ Staged(c)
    /\ hs[c]["rm"] # "none" => pc[c] \in {"cleanup", "failed"} /\ Staged(c)
    /\ pc[c] \in {"push", "move"} /\ reply[c] = "ok" => hs[c][pc[c]] = "none"
    /\ pc[c] \in {"root", "move", "cleanup"} => Staged(c)
    /\ Requesting(c) \/ (\E o \in Op : hs[c][o] # "none") => ridx[c] \in Root
    /\ pc[c] = "resolve" => ridx[c] = 1

(* What is at a client's hidden sibling.  Only the client's own push writes *)
(* there, and fs.move is only asked for when that push has finished.        *)
StagedOK(c) ==
    /\ staged[c] \in {Absent, Rest, Part(c), Whole(c)}
    /\ ~Staged(c) => staged[c] = Absent
    /\ staged[c] = Rest => pc[c] \in {"cleanup", "failed"} /\ IsDir[ridx[c]]
    /\ hs[c]["push"] = "writing" /\ Staged(c) =>
          /\ staged[c] \in {Absent, Rest, Part(c)}
          /\ pc[c] = "push" => staged[c] = Part(c)
    /\ pc[c] = "push" /\ reply[c] = "ok" /\ Staged(c) => staged[c] = Whole(c)
    /\ hs[c]["move"] # "none" =>
          /\ staged[c] \in {Absent, Rest, Whole(c)}
          /\ pc[c] = "move" => staged[c] = Whole(c)

(* How far a client is that nobody has interfered with. *)
ProgressOK(c) ==
    Alone(c) =>
        /\ pc[c] \in {"root", "push", "move"} =>
              \A r \in Root : r < ridx[c] => final[r] = Whole(c)
        /\ pc[c] = "push" /\ ~Staged(c) =>
              /\ hs[c]["push"] = "writing" => final[ridx[c]] = Part(c)
              /\ reply[c] = "ok" => ridx[c] = R /\ final[R] = Whole(c)
        /\ pc[c] = "move" /\ reply[c] = "ok" => final[ridx[c]] = Whole(c)
        /\ pc[c] \in {"verify", "ok"} => \A r \in Root : final[r] = Whole(c)

(* As long as nothing was interrupted, a handler runs only while its client *)
(* waits for it; a missing destination is about to be filled, and a staged  *)
(* copy about to be moved or removed.                                       *)
Calm == cuts = 0 /\ crashes = 0

CalmOK(c) ==
    /\ hs[c]["push"] # "none" => pc[c] = "push" /\ reply[c] = "none"
    /\ hs[c]["move"] # "none" => pc[c] = "move" /\ reply[c] = "none"
    /\ hs[c]["rm"] # "none" => pc[c] = "cleanup" /\ reply[c] = "none"
    /\ hs[c]["rm"] = "removing" => staged[c] \in {Absent, Rest}
    /\ staged[c] # Absent =>
          \/ pc[c] = "push"
          \/ pc[c] = "move" /\ reply[c] # "ok"
          \/ pc[c] = "cleanup" /\ hs[c]["rm"] # "none"
          \/ "rm" \in ioFailed

Filling(r) == \E c \in Client : hs[c]["move"] = "rename" /\ ridx[c] = r

TypesOK == TypeOK /\ staged \in [Client -> Node]

(* No destination holds a half-written version, and only a directory can be *)
(* half removed.                                                            *)
AllWhole ==
    /\ (\A c \in Client : Staged(c)) => \A r \in Root : final[r].is # "part"
    /\ \A r \in Root : final[r] = Rest => IsDir[r]

(* Somebody is about to complete what is missing or half removed, or has    *)
(* been kept from it by a failing call.                                     *)
Attended(r) ==
    /\ final[r] = Absent => Filling(r) \/ "rename" \in ioFailed
    /\ final[r] = Rest => BeingRemoved(r) \/ "remove" \in ioFailed

CalmInv ==
    Calm => /\ \A c \in Client : CalmOK(c)
            /\ \A r \in Root : Attended(r)

IInv ==
    /\ TypesOK
    /\ \A c \in Client : HandlersOK(c) /\ StagedOK(c) /\ ProgressOK(c)
    /\ AllWhole /\ CalmInv
-----------------------------------------------------------------------------
(* Type correctness.                                                        *)

(* A step of one client, or of one of its handlers. *)
StepOf(c) == ClientStep(c) \/ HandlerStep(c) \/ Disconnect(c)

(* No node of one kind is a node of another. *)
LEMMA Nodes ==
    ASSUME NEW c \in Client
    PROVE  /\ Absent \in Node /\ Mixed \in Node /\ Part(c) \in Node /\ Whole(c) \in Node
           /\ Whole(Old) \in Node /\ Whole(Old) # Absent
           /\ Absent # Part(c) /\ Absent # Whole(c) /\ Part(c) # Whole(c)
           /\ Rest \in Node /\ Rest # Absent /\ Rest # Part(c) /\ Rest # Whole(c) /\ Rest # Mixed
           /\ Absent # Mixed
           /\ Absent.is # "part" /\ Rest.is # "part" /\ Whole(c).is # "part"
BY PushAssumption DEF Absent, Mixed, Rest, Part, Whole, Node

(* The loop over the roots: one that is passed over holds the client's      *)
(* content, as its hash says.                                               *)
LEMMA NextRootCases ==
    ASSUME NEW c \in Client, NextRoot(c)
    PROVE  /\ pc[c] = "root" /\ ridx[c] <= R
           /\ UNCHANGED <<final, staged, cuts, crashes, ioFailed, opt>>
           /\ \/ /\ ridx' = [ridx EXCEPT ![c] = @ + 1] /\ UNCHANGED <<pc, hs, reply>>
                 /\ final[ridx[c]] = Whole(c)
              \/ Call(c, "push", "push", "start") /\ UNCHANGED ridx
              \/ Goto(c, "failed") /\ UNCHANGED <<ridx, hs, reply>>
<1>1. TRUE \in Matches(c, ridx[c], "sha256") => final[ridx[c]] = Whole(c)
  BY DEF Matches
<1>2. QED BY <1>1 DEF NextRoot

(* --verify walks through the roots and changes nothing. *)
LEMMA VerifyCases ==
    ASSUME NEW c \in Client, Verify(c)
    PROVE  /\ pc[c] = "verify"
           /\ UNCHANGED <<reply, hs, final, staged, cuts, crashes, ioFailed, opt>>
           /\ \/ Goto(c, "ok") /\ UNCHANGED ridx
              \/ ridx[c] <= R /\ ridx' = [ridx EXCEPT ![c] = @ + 1] /\ UNCHANGED pc
              \/ Goto(c, "failed") /\ UNCHANGED ridx
BY DEF Verify

(* A step keeps the state of every other client. *)
LEMMA Others ==
    ASSUME TypesOK, NEW c \in Client, StepOf(c), NEW d \in Client, d # c
    PROVE  /\ opt' = opt /\ pc'[d] = pc[d] /\ ridx'[d] = ridx[d] /\ reply'[d] = reply[d]
           /\ hs'[d] = hs[d] /\ staged'[d] = staged[d]
<1>1. TypesOK
  OBVIOUS
<1>2. CASE ResolveRoots(c)
  BY <1>1, <1>2 DEF ResolveRoots, Goto, Call, TypesOK, TypeOK
<1>3. CASE NextRoot(c)
  BY <1>1, <1>3 DEF NextRoot, Goto, Call, TypesOK, TypeOK
<1>4. CASE PushReturned(c)
  BY <1>1, <1>4 DEF PushReturned, Goto, Call, TypesOK, TypeOK
<1>5. CASE MoveReturned(c)
  BY <1>1, <1>5 DEF MoveReturned, Goto, Call, TypesOK, TypeOK
<1>6. CASE CleanupReturned(c)
  BY <1>1, <1>6 DEF CleanupReturned, Goto, TypesOK, TypeOK
<1>7. CASE RootsDone(c)
  BY <1>1, <1>7 DEF RootsDone, Goto, TypesOK, TypeOK
<1>8. CASE Verify(c)
  BY <1>1, <1>8 DEF Verify, Goto, TypesOK, TypeOK
<1>9. CASE PushStart(c)
  BY <1>1, <1>9 DEF PushStart, At, Step, Respond, SetDest, TypesOK, TypeOK
<1>10. CASE PushFinish(c)
  BY <1>1, <1>10 DEF PushFinish, Finished, At, Step, Respond, Dest, SetDest, TypesOK, TypeOK
<1>11. CASE MoveStat(c)
  BY <1>1, <1>11 DEF MoveStat, At, Step, Respond, TypesOK, TypeOK
<1>12. CASE MoveRemove(c)
  BY <1>1, <1>12 DEF MoveRemove, At, SetFinal, Step, Respond, TypesOK, TypeOK
<1>13. CASE MoveRemoving(c)
  BY <1>1, <1>13 DEF MoveRemoving, At, SetFinal, Step, Respond, TypesOK, TypeOK
<1>14. CASE MoveRename(c)
  BY <1>1, <1>14 DEF MoveRename, At, SetFinal, Step, Respond, TypesOK, TypeOK
<1>15. CASE RmStat(c)
  BY <1>1, <1>15 DEF RmStat, At, Step, Respond, TypesOK, TypeOK
<1>16. CASE RmRemove(c)
  BY <1>1, <1>16 DEF RmRemove, At, Step, Respond, TypesOK, TypeOK
<1>17. CASE RmRemoving(c)
  BY <1>1, <1>17 DEF RmRemoving, At, Step, Respond, TypesOK, TypeOK
<1>18. CASE Disconnect(c)
  BY <1>1, <1>18 DEF Disconnect, Requesting, TypesOK, TypeOK
<1>19. QED BY <1>2, <1>3, <1>4, <1>5, <1>6, <1>7, <1>8, <1>9, <1>10, <1>11, <1>12, <1>13, <1>14, <1>15, <1>16, <1>17, <1>18
            DEF StepOf, ClientStep, HandlerStep

(* A failed call of the filesystem is never forgotten. *)
LEMMA FailuresStay ==
    ASSUME TypesOK, NEW c \in Client, StepOf(c)
    PROVE  ioFailed \subseteq ioFailed' /\ ioFailed' \subseteq {"remove", "rename", "rm"}
<1>1. ioFailed \subseteq {"remove", "rename", "rm"}
  BY DEF TypesOK, TypeOK
<1>2. CASE UNCHANGED ioFailed
  BY <1>1, <1>2
<1>3. CASE MoveRemoving(c)
  BY <1>1, <1>3 DEF MoveRemoving
<1>4. CASE MoveRename(c)
  BY <1>1, <1>4 DEF MoveRename
<1>5. CASE RmStat(c) \/ RmRemove(c) \/ RmRemoving(c)
  BY <1>1, <1>5 DEF RmStat, RmRemove, RmRemoving
<1>6. QED BY <1>2, <1>3, <1>4, <1>5
         DEF StepOf, ClientStep, ResolveRoots, NextRoot, PushReturned, MoveReturned, CleanupReturned,
             RootsDone, Verify, HandlerStep, PushStart, PushFinish, MoveStat, MoveRemove, Disconnect

(* The labels of a client and of a handler. *)
PCs == {"resolve", "root", "push", "move", "cleanup", "verify", "ok", "failed"}
HSs == {"none", "start", "writing", "stat", "remove", "removing", "rename"}

LocalTypes ==
    /\ pc \in [Client -> PCs]
    /\ reply \in [Client -> {"none", "ok", "error"}]
    /\ hs \in [Client -> [Op -> HSs]]

(* The client goes on to another label. *)
LEMMA GotoType ==
    ASSUME TypesOK, NEW c \in Client, NEW l \in PCs, Goto(c, l), UNCHANGED <<hs, reply>>
    PROVE  LocalTypes'
BY DEF TypesOK, TypeOK, LocalTypes, PCs, HSs, Goto

(* The client sends a request, and the daemon starts a handler for it. *)
LEMMA CallType ==
    ASSUME TypesOK, NEW c \in Client, NEW l \in PCs, NEW op \in Op, NEW first \in HSs,
           Call(c, l, op, first)
    PROVE  LocalTypes'
<1>1. pc' \in [Client -> PCs] /\ reply' \in [Client -> {"none", "ok", "error"}]
  BY DEF TypesOK, TypeOK, PCs, Call, Goto
<1>2. hs' = [hs EXCEPT ![c][op] = first] /\ hs \in [Client -> [Op -> HSs]]
  BY DEF TypesOK, TypeOK, HSs, Call
<1>3. hs' \in [Client -> [Op -> HSs]]
  BY <1>2
<1>4. QED BY <1>1, <1>3 DEF LocalTypes

(* A handler goes on. *)
LEMMA StepType ==
    ASSUME TypesOK, NEW c \in Client, NEW op \in Op, NEW l \in HSs, Step(c, op, l), UNCHANGED pc
    PROVE  LocalTypes'
<1>1. pc' \in [Client -> PCs] /\ reply' \in [Client -> {"none", "ok", "error"}]
  BY DEF TypesOK, TypeOK, PCs, Step
<1>2. hs' = [hs EXCEPT ![c][op] = l] /\ hs \in [Client -> [Op -> HSs]]
  BY DEF TypesOK, TypeOK, HSs, Step
<1>3. hs' \in [Client -> [Op -> HSs]]
  BY <1>2
<1>4. QED BY <1>1, <1>3 DEF LocalTypes

(* A handler answers, whether or not its client still listens. *)
LEMMA RespondType ==
    ASSUME TypesOK, NEW c \in Client, NEW op \in Op, NEW r \in {"ok", "error"},
           Respond(c, op, r), UNCHANGED pc
    PROVE  LocalTypes'
<1>1. pc' \in [Client -> PCs] /\ reply' \in [Client -> {"none", "ok", "error"}]
  BY DEF TypesOK, TypeOK, PCs, Respond
<1>2. hs' = [hs EXCEPT ![c][op] = "none"] /\ hs \in [Client -> [Op -> HSs]] /\ "none" \in HSs
  BY DEF TypesOK, TypeOK, HSs, Respond
<1>3. hs' \in [Client -> [Op -> HSs]]
  BY <1>2
<1>4. QED BY <1>1, <1>3 DEF LocalTypes

(* A push, a rename or a removal puts a node of the client in its place. *)
LEMMA SetDestType ==
    ASSUME TypesOK, NEW c \in Client, NEW n \in Node, SetDest(c, n), ridx[c] \in Root,
           Staged(c) => n \in {Absent, Rest, Part(c), Whole(c)}
    PROVE  /\ final' \in [Root -> Node] /\ staged' \in [Client -> Node]
           /\ \A d \in Client : staged'[d] \in {Absent, Rest, Part(d), Whole(d)}
<1>1. CASE Staged(c)
  BY <1>1 DEF TypesOK, TypeOK, SetDest
<1>2. CASE ~Staged(c)
  BY <1>2 DEF TypesOK, TypeOK, SetDest
<1>3. QED BY <1>1, <1>2

(* A step keeps the state well typed. *)
LEMMA TypesStep ==
    ASSUME TypesOK, NEW c \in Client, HandlersOK(c), StagedOK(c), StepOf(c)
    PROVE  TypesOK'
<1> USE PushAssumption, Nodes
<1> DEFINE Tail == /\ ridx' \in [Client -> 1 .. R + 1]
                   /\ final' \in [Root -> Node] /\ staged' \in [Client -> Node]
                   /\ \A d \in Client : staged'[d] \in {Absent, Rest, Part(d), Whole(d)}
                   /\ opt' = opt /\ cuts' \in 0 .. MaxDisconnects /\ crashes' \in 0 .. MaxCrashes
                   /\ ioFailed' \subseteq {"remove", "rename", "rm"}
<1>1. ASSUME LocalTypes', Tail
      PROVE  TypesOK'
  BY <1>1 DEF LocalTypes, PCs, HSs, TypesOK, TypeOK
<1>2. ASSUME UNCHANGED <<final, staged, cuts, crashes, ioFailed, opt>>, ridx' \in [Client -> 1 .. R + 1]
      PROVE  Tail
  BY <1>2 DEF TypesOK, TypeOK
<1>3. ASSUME NEW k \in 1 .. R + 1, ridx' = [ridx EXCEPT ![c] = k] \/ ridx' = ridx
      PROVE  ridx' \in [Client -> 1 .. R + 1]
  BY <1>3 DEF TypesOK, TypeOK
<1>4. /\ {"push", "move", "rm"} \subseteq Op /\ {"start", "writing", "stat", "remove", "removing", "rename"} \subseteq HSs
      /\ {"root", "push", "move", "cleanup", "verify", "ok", "failed"} \subseteq PCs
  BY DEF Op, HSs, PCs
<1>5. 1 \in 1 .. R + 1 /\ (ridx[c] \in Root => ridx[c] + 1 \in 1 .. R + 1)
      /\ ridx[c] \in 1 .. R + 1
  BY DEF Root, TypesOK, TypeOK
<1> HIDE DEF Tail
<1>6. CASE ClientStep(c)
  <2>1. UNCHANGED <<final, staged, cuts, crashes, ioFailed, opt>>
    BY <1>6 DEF ClientStep, ResolveRoots, NextRoot, PushReturned, MoveReturned, CleanupReturned,
           RootsDone, Verify
  <2>2. LocalTypes'
    <3>1. CASE UNCHANGED <<hs, reply>> /\ \E l \in PCs : Goto(c, l)
      BY <3>1, GotoType
    <3>2. CASE \E l \in PCs, op \in Op, first \in HSs : Call(c, l, op, first)
      BY <3>2, CallType
    <3>3. CASE UNCHANGED <<hs, reply, pc>>
      BY <3>3 DEF LocalTypes, TypesOK, TypeOK, PCs, HSs
    <3>4. QED BY <1>4, <1>6, <3>1, <3>2, <3>3
             DEF ClientStep, ResolveRoots, NextRoot, PushReturned, MoveReturned, CleanupReturned,
                 RootsDone, Verify
  <2>3. \/ ridx' = ridx
        \/ ridx' = [ridx EXCEPT ![c] = 1]
        \/ ridx[c] \in Root /\ ridx' = [ridx EXCEPT ![c] = ridx[c] + 1]
    <3>1. CASE ResolveRoots(c) \/ PushReturned(c) \/ CleanupReturned(c) \/ RootsDone(c)
      BY <3>1 DEF ResolveRoots, PushReturned, CleanupReturned, RootsDone
    <3>2. CASE NextRoot(c)
      BY <1>5, <3>2, NextRootCases DEF Root
    <3>3. CASE MoveReturned(c)
      <4>1. ridx[c] \in Root
        BY <3>3 DEF MoveReturned, HandlersOK, Requesting
      <4>2. QED BY <3>3, <4>1 DEF MoveReturned
    <3>4. CASE Verify(c)
      <4>1. ridx' = ridx \/ (ridx[c] <= R /\ ridx' = [ridx EXCEPT ![c] = ridx[c] + 1])
        BY <3>4 DEF Verify
      <4>2. QED BY <1>5, <4>1 DEF Root
    <3>5. QED BY <1>6, <3>1, <3>2, <3>3, <3>4 DEF ClientStep
  <2>4. ridx' \in [Client -> 1 .. R + 1]
    BY <1>3, <1>5, <2>3
  <2>5. QED BY <1>1, <1>2, <2>1, <2>2, <2>4
<1>7. CASE HandlerStep(c)
  <2>1. UNCHANGED <<pc, cuts, crashes, opt>>
    BY <1>7
       DEF HandlerStep, PushStart, PushFinish, MoveStat, MoveRemove, MoveRemoving, MoveRename, RmStat,
           RmRemove, RmRemoving
  <2>2. ridx[c] \in Root
    BY <1>4, <1>7
       DEF HandlerStep, PushStart, PushFinish, MoveStat, MoveRemove, MoveRemoving, MoveRename, RmStat,
           RmRemove, RmRemoving, At, HandlersOK
  <2>3. LocalTypes'
    <3>1. CASE \E op \in Op, l \in HSs : Step(c, op, l)
      BY <2>1, <3>1, StepType
    <3>2. CASE \E op \in Op, r \in {"ok", "error"} : Respond(c, op, r)
      BY <2>1, <3>2, RespondType
    <3>3. QED BY <1>4, <1>7, <3>1, <3>2
             DEF HandlerStep, PushStart, PushFinish, MoveStat, MoveRemove, MoveRemoving, MoveRename, RmStat, RmRemove, RmRemoving
  <2>4. ridx' \in [Client -> 1 .. R + 1]
    <3>1. ridx' = ridx \/ ridx' = [ridx EXCEPT ![c] = ridx[c] + 1]
      BY <1>7
         DEF HandlerStep, PushStart, PushFinish, MoveStat, MoveRemove, MoveRemoving, MoveRename, RmStat,
             RmRemove, RmRemoving
    <3>2. QED BY <1>3, <1>5, <2>2, <3>1
  <2>5. /\ final' \in [Root -> Node] /\ staged' \in [Client -> Node]
        /\ \A d \in Client : staged'[d] \in {Absent, Rest, Part(d), Whole(d)}
    <3>1. CASE PushStart(c)
      <4>1. CASE SetDest(c, Part(c))
        BY <2>2, <4>1, SetDestType
      <4>2. CASE UNCHANGED <<final, staged>>
        BY <4>2 DEF TypesOK, TypeOK
      <4>3. QED BY <3>1, <4>1, <4>2 DEF PushStart
    <3>2. CASE PushFinish(c)
      <4>1. CASE SetDest(c, Finished(c))
        <5>1. Finished(c) \in Node
          BY DEF Finished
        <5>2. Staged(c) => Dest(c) \in {Absent, Rest, Part(c)}
          BY <3>2 DEF PushFinish, At, Dest, StagedOK
        <5>3. Staged(c) => Finished(c) \in {Absent, Rest, Part(c), Whole(c)}
          BY <5>2 DEF Finished
        <5>4. QED BY <2>2, <4>1, <5>1, <5>3, SetDestType
      <4>2. CASE UNCHANGED <<final, staged>>
        BY <4>2 DEF TypesOK, TypeOK
      <4>3. QED BY <3>2, <4>1, <4>2 DEF PushFinish
    <3>3. CASE MoveStat(c) \/ RmStat(c)
      BY <3>3 DEF MoveStat, RmStat, TypesOK, TypeOK
    <3>4. CASE MoveRemove(c) \/ MoveRemoving(c)
      <4>1. staged' = staged /\ (final' = final \/ \E n \in {Absent, Rest, Mixed} : SetFinal(c, n))
        BY <3>4 DEF MoveRemove, MoveRemoving
      <4>2. QED BY <4>1 DEF SetFinal, TypesOK, TypeOK
    <3>5. CASE MoveRename(c)
      <4>1. CASE UNCHANGED <<final, staged>>
        BY <4>1 DEF TypesOK, TypeOK
      <4>2. CASE SetFinal(c, staged[c]) /\ staged' = [staged EXCEPT ![c] = Absent]
        <5>1. staged[c] \in Node
          BY DEF TypesOK
        <5>2. QED BY <4>2, <5>1 DEF SetFinal, TypesOK, TypeOK
      <4>3. QED BY <3>5, <4>1, <4>2 DEF MoveRename
    <3>6. CASE RmRemove(c) \/ RmRemoving(c)
      <4>1. CASE UNCHANGED <<final, staged>>
        BY <4>1 DEF TypesOK, TypeOK
      <4>2. ASSUME NEW n \in {Absent, Rest}, final' = final, staged' = [staged EXCEPT ![c] = n]
            PROVE  /\ final' \in [Root -> Node] /\ staged' \in [Client -> Node]
                   /\ \A d \in Client : staged'[d] \in {Absent, Rest, Part(d), Whole(d)}
        BY <4>2 DEF TypesOK, TypeOK
      <4>3. QED BY <3>6, <4>1, <4>2 DEF RmRemove, RmRemoving
    <3>7. QED BY <1>7, <3>1, <3>2, <3>3, <3>4, <3>5, <3>6 DEF HandlerStep
  <2>6. cuts' \in 0 .. MaxDisconnects /\ crashes' \in 0 .. MaxCrashes
    BY <2>1 DEF TypesOK, TypeOK
  <2>7. ioFailed' \subseteq {"remove", "rename", "rm"}
    BY FailuresStay
  <2>8. QED BY <1>1, <2>1, <2>3, <2>4, <2>5, <2>6, <2>7 DEF Tail
<1>8. CASE Disconnect(c)
  BY <1>8 DEF Disconnect, TypesOK, TypeOK
<1>9. QED BY <1>6, <1>7, <1>8 DEF StepOf
-----------------------------------------------------------------------------
(* A client, its handlers and its staged copy.                              *)

(* A client starts its next request only after the last one was answered,   *)
(* except for the cleanup, which it also sends after a lost connection.     *)
LEMMA HandlersStep ==
    ASSUME TypesOK, NEW c \in Client, HandlersOK(c), StepOf(c)
    PROVE  HandlersOK(c)'
<1>1. TypesOK /\ HandlersOK(c)
  OBVIOUS
<1>2. CASE ResolveRoots(c)
  BY <1>1, PushAssumption, <1>2
     DEF ResolveRoots, Goto, Call, TypesOK, TypeOK, HandlersOK, Staged, Requesting, Op, Root
<1>3. CASE NextRoot(c)
  BY <1>1, PushAssumption, <1>3, NextRootCases
     DEF Goto, Call, TypesOK, TypeOK, HandlersOK, Staged, Requesting, Op, Root
<1>4. CASE PushReturned(c)
  BY <1>1, PushAssumption, <1>4
     DEF PushReturned, Goto, Call, TypesOK, TypeOK, HandlersOK, Staged, Requesting, Op, Root
<1>5. CASE MoveReturned(c)
  BY <1>1, PushAssumption, <1>5
     DEF MoveReturned, Goto, Call, TypesOK, TypeOK, HandlersOK, Staged, Requesting, Op, Root
<1>6. CASE CleanupReturned(c)
  BY <1>1, PushAssumption, <1>6
     DEF CleanupReturned, Goto, TypesOK, TypeOK, HandlersOK, Staged, Requesting, Op, Root
<1>7. CASE RootsDone(c)
  BY <1>1, PushAssumption, <1>7
     DEF RootsDone, Goto, TypesOK, TypeOK, HandlersOK, Staged, Requesting, Op, Root
<1>8. CASE Verify(c)
  BY <1>1, PushAssumption, <1>8, VerifyCases
     DEF Goto, TypesOK, TypeOK, HandlersOK, Staged, Requesting, Op, Root
<1>9. CASE PushStart(c)
  BY <1>1, PushAssumption, <1>9
     DEF PushStart, At, Step, Respond, SetDest, TypesOK, TypeOK, HandlersOK, Staged, Requesting,
         Op, Root
<1>10. CASE PushFinish(c)
  BY <1>1, PushAssumption, <1>10
     DEF PushFinish, Finished, At, Step, Respond, Dest, SetDest, TypesOK, TypeOK, HandlersOK, Staged,
         Requesting, Op, Root
<1>11. CASE MoveStat(c)
  BY <1>1, PushAssumption, <1>11
     DEF MoveStat, At, Step, Respond, TypesOK, TypeOK, HandlersOK, Staged, Requesting, Op, Root
<1>12. CASE MoveRemove(c)
  BY <1>1, PushAssumption, <1>12
     DEF MoveRemove, At, SetFinal, Step, Respond, TypesOK, TypeOK, HandlersOK, Staged, Requesting, Op,
         Root
<1>13. CASE MoveRemoving(c)
  BY <1>1, PushAssumption, <1>13
     DEF MoveRemoving, At, SetFinal, Step, Respond, TypesOK, TypeOK, HandlersOK, Staged, Requesting, Op,
         Root
<1>14. CASE MoveRename(c)
  BY <1>1, PushAssumption, <1>14
     DEF MoveRename, At, SetFinal, Step, Respond, TypesOK, TypeOK, HandlersOK, Staged, Requesting, Op,
         Root
<1>15. CASE RmStat(c)
  BY <1>1, PushAssumption, <1>15
     DEF RmStat, At, Step, Respond, TypesOK, TypeOK, HandlersOK, Staged, Requesting, Op, Root
<1>16. CASE RmRemove(c)
  BY <1>1, PushAssumption, <1>16
     DEF RmRemove, At, Step, Respond, TypesOK, TypeOK, HandlersOK, Staged, Requesting, Op, Root
<1>17. CASE RmRemoving(c)
  BY <1>1, PushAssumption, <1>17
     DEF RmRemoving, At, Step, Respond, TypesOK, TypeOK, HandlersOK, Staged, Requesting, Op, Root
<1>18. CASE Disconnect(c)
  BY <1>1, PushAssumption, <1>18
     DEF Disconnect, Requesting, TypesOK, TypeOK, HandlersOK, Staged, Requesting, Op, Root
<1>19. QED BY <1>2, <1>3, <1>4, <1>5, <1>6, <1>7, <1>8, <1>9, <1>10, <1>11, <1>12, <1>13, <1>14, <1>15, <1>16, <1>17, <1>18
            DEF StepOf, ClientStep, HandlerStep

(* run_agent_transfer_push: the staged copy is written by one push at a     *)
(* time, and is complete when fs.move is asked for.                         *)
LEMMA StagedStep ==
    ASSUME TypesOK, NEW c \in Client, HandlersOK(c), StagedOK(c), StepOf(c)
    PROVE  StagedOK(c)'
<1>1. TypesOK /\ HandlersOK(c) /\ StagedOK(c)
  OBVIOUS
<1>2. CASE ResolveRoots(c)
  BY <1>1, Nodes, <1>2
     DEF ResolveRoots, Goto, Call, TypesOK, TypeOK, HandlersOK, StagedOK, Staged, Op
<1>3. CASE NextRoot(c)
  BY <1>1, Nodes, <1>3, NextRootCases
     DEF Goto, Call, TypesOK, TypeOK, HandlersOK, StagedOK, Staged, Op
<1>4. CASE PushReturned(c)
  BY <1>1, Nodes, <1>4
     DEF PushReturned, Goto, Call, TypesOK, TypeOK, HandlersOK, StagedOK, Staged, Op
<1>5. CASE MoveReturned(c)
  BY <1>1, Nodes, <1>5
     DEF MoveReturned, Goto, Call, TypesOK, TypeOK, HandlersOK, StagedOK, Staged, Op
<1>6. CASE CleanupReturned(c)
  BY <1>1, Nodes, <1>6
     DEF CleanupReturned, Goto, TypesOK, TypeOK, HandlersOK, StagedOK, Staged, Op
<1>7. CASE RootsDone(c)
  BY <1>1, Nodes, <1>7 DEF RootsDone, Goto, TypesOK, TypeOK, HandlersOK, StagedOK, Staged, Op
<1>8. CASE Verify(c)
  BY <1>1, Nodes, <1>8 DEF Verify, Goto, TypesOK, TypeOK, HandlersOK, StagedOK, Staged, Op
<1>9. CASE PushStart(c)
  BY <1>1, Nodes, <1>9
     DEF PushStart, At, Step, Respond, SetDest, TypesOK, TypeOK, HandlersOK, StagedOK, Staged,
         Op
<1>10. CASE PushFinish(c)
  BY <1>1, Nodes, <1>10
     DEF PushFinish, Finished, At, Step, Respond, Dest, SetDest, TypesOK, TypeOK, HandlersOK, StagedOK,
         Staged, Op
<1>11. CASE MoveStat(c)
  BY <1>1, Nodes, <1>11
     DEF MoveStat, At, Step, Respond, TypesOK, TypeOK, HandlersOK, StagedOK, Staged, Op
<1>12. CASE MoveRemove(c)
  BY <1>1, Nodes, <1>12
     DEF MoveRemove, At, SetFinal, Step, Respond, TypesOK, TypeOK, HandlersOK, StagedOK, Staged, Op
<1>13. CASE MoveRemoving(c)
  BY <1>1, Nodes, <1>13
     DEF MoveRemoving, At, SetFinal, Step, Respond, TypesOK, TypeOK, HandlersOK, StagedOK, Staged, Op
<1>14. CASE MoveRename(c)
  BY <1>1, Nodes, <1>14
     DEF MoveRename, At, SetFinal, Step, Respond, TypesOK, TypeOK, HandlersOK, StagedOK, Staged, Op
<1>15. CASE RmStat(c)
  BY <1>1, Nodes, <1>15
     DEF RmStat, At, Step, Respond, TypesOK, TypeOK, HandlersOK, StagedOK, Staged, Op
<1>16. CASE RmRemove(c)
  BY <1>1, Nodes, <1>16
     DEF RmRemove, At, Step, Respond, TypesOK, TypeOK, HandlersOK, StagedOK, Staged, Op
<1>17. CASE RmRemoving(c)
  BY <1>1, Nodes, <1>17
     DEF RmRemoving, At, Step, Respond, TypesOK, TypeOK, HandlersOK, StagedOK, Staged, Op
<1>18. CASE Disconnect(c)
  BY <1>1, Nodes, <1>18
     DEF Disconnect, Requesting, TypesOK, TypeOK, HandlersOK, StagedOK, Staged, Op
<1>19. QED BY <1>2, <1>3, <1>4, <1>5, <1>6, <1>7, <1>8, <1>9, <1>10, <1>11, <1>12, <1>13, <1>14, <1>15, <1>16, <1>17, <1>18
            DEF StepOf, ClientStep, HandlerStep

(* A step of one client leaves the invariant of the others alone. *)
LEMMA OthersStep ==
    ASSUME TypesOK, NEW c \in Client, StepOf(c), NEW d \in Client, d # c,
           HandlersOK(d), StagedOK(d)
    PROVE  HandlersOK(d)' /\ StagedOK(d)'
BY Others DEF HandlersOK, StagedOK, Staged, Requesting, Op

-----------------------------------------------------------------------------
(* The destination.                                                         *)

(* With --atomic or --if-changed nothing but fs.move touches a destination, *)
(* and it puts a finished push there.                                       *)
LEMMA AllWholeStep ==
    ASSUME TypesOK, NEW c \in Client, HandlersOK(c), StagedOK(c), StepOf(c), AllWhole
    PROVE  AllWhole'
<1>1. opt' = opt /\ TypesOK
  BY DEF StepOf, ClientStep, ResolveRoots, NextRoot, PushReturned, MoveReturned, CleanupReturned,
         RootsDone, Verify, HandlerStep, PushStart, PushFinish, MoveStat, MoveRemove, MoveRemoving,
         MoveRename, RmStat, RmRemove, RmRemoving, Disconnect
<1> SUFFICES ASSUME NEW r \in Root
             PROVE  /\ (\A d \in Client : Staged(d)) => final'[r].is # "part"
                    /\ final'[r] = Rest => IsDir[r]
  BY <1>1 DEF AllWhole, Staged
<1>2. /\ (\A d \in Client : Staged(d)) => final[r].is # "part"
      /\ final[r] = Rest => IsDir[r]
  BY DEF AllWhole
<1>3. CASE UNCHANGED final
  BY <1>2, <1>3
<1>4. ASSUME NEW n, SetFinal(c, n), (\A d \in Client : Staged(d)) => n.is # "part",
             n = Rest => IsDir[ridx[c]]
      PROVE  /\ (\A d \in Client : Staged(d)) => final'[r].is # "part"
             /\ final'[r] = Rest => IsDir[r]
  BY <1>1, <1>2, <1>4 DEF SetFinal, TypesOK, TypeOK
<1>5. CASE MoveRemove(c)
  <2>1. CASE SetFinal(c, IF IsDir[ridx[c]] THEN Rest ELSE Absent)
    BY <1>4, <2>1, Nodes
  <2>2. QED BY <1>3, <1>5, <2>1 DEF MoveRemove
<1>6. CASE MoveRemoving(c)
  <2>1. CASE SetFinal(c, Absent)
    BY <1>4, <2>1, Nodes
  <2>2. CASE InPlace(final[ridx[c]]) /\ SetFinal(c, Mixed)
    <3>1. ridx[c] \in Root
      BY <1>6 DEF MoveRemoving, At, HandlersOK, Op
    <3>2. ASSUME \A d \in Client : Staged(d) PROVE FALSE
      <4>1. final[ridx[c]] = Mixed
        BY <2>2, <3>2 DEF InPlace
      <4>2. final[ridx[c]].is # "part"
        BY <3>1, <3>2 DEF AllWhole
      <4>3. QED BY <4>1, <4>2 DEF Mixed, Part
    <3>3. Mixed # Rest
      BY Nodes
    <3>4. QED BY <1>4, <2>2, <3>2, <3>3
  <2>3. QED BY <1>3, <1>6, <2>1, <2>2 DEF MoveRemoving
<1>7. CASE MoveRename(c)
  <2>1. staged[c].is # "part" /\ (staged[c] = Rest => IsDir[ridx[c]])
    BY <1>7, Nodes DEF MoveRename, At, StagedOK
  <2>2. CASE SetFinal(c, staged[c])
    BY <1>4, <2>1, <2>2
  <2>3. QED BY <1>3, <1>7, <2>2 DEF MoveRename
<1>8. CASE PushStart(c) \/ PushFinish(c)
  <2>1. CASE Staged(c)
    BY <1>3, <1>8, <2>1 DEF PushStart, PushFinish, SetDest
  <2>2. CASE ~Staged(c)
    <3>1. CASE UNCHANGED final
      BY <1>3, <3>1
    <3>2. PICK n \in {Part(c), Finished(c)} : SetDest(c, n) \/ UNCHANGED final
      BY <1>8 DEF PushStart, PushFinish
    <3>3. n # Rest
      BY <3>2, Nodes DEF Finished
    <3>4. QED BY <1>1, <1>2, <2>2, <3>1, <3>2, <3>3 DEF SetDest, TypesOK, TypeOK
  <2>3. QED BY <2>1, <2>2
<1>9. QED BY <1>3, <1>5, <1>6, <1>7, <1>8
         DEF StepOf, ClientStep, ResolveRoots, NextRoot, PushReturned, MoveReturned, CleanupReturned,
             RootsDone, Verify, HandlerStep, MoveStat, RmStat, RmRemove, RmRemoving, Disconnect

(* Whoever has sent a request is never alone with another client. *)
LEMMA AloneStep ==
    ASSUME TypesOK, NEW c \in Client, HandlersOK(c), StepOf(c), NEW d \in Client, d # c
    PROVE  ~Alone(d)'
<1>1. TypesOK /\ HandlersOK(c)
  OBVIOUS
<1> SUFFICES pc'[c] # "resolve"
  BY DEF Alone
<1>2. CASE ResolveRoots(c)
  BY <1>1, <1>2 DEF ResolveRoots, Goto, Call, TypesOK, TypeOK, HandlersOK, Op
<1>3. CASE NextRoot(c)
  BY <1>1, <1>3 DEF NextRoot, Goto, Call, TypesOK, TypeOK, HandlersOK, Op
<1>4. CASE PushReturned(c)
  BY <1>1, <1>4 DEF PushReturned, Goto, Call, TypesOK, TypeOK, HandlersOK, Op
<1>5. CASE MoveReturned(c)
  BY <1>1, <1>5 DEF MoveReturned, Goto, Call, TypesOK, TypeOK, HandlersOK, Op
<1>6. CASE CleanupReturned(c)
  BY <1>1, <1>6 DEF CleanupReturned, Goto, TypesOK, TypeOK, HandlersOK, Op
<1>7. CASE RootsDone(c)
  BY <1>1, <1>7 DEF RootsDone, Goto, TypesOK, TypeOK, HandlersOK, Op
<1>8. CASE Verify(c)
  BY <1>1, <1>8 DEF Verify, Goto, TypesOK, TypeOK, HandlersOK, Op
<1>9. CASE PushStart(c)
  BY <1>1, <1>9 DEF PushStart, At, Step, Respond, SetDest, TypesOK, TypeOK, HandlersOK, Op
<1>10. CASE PushFinish(c)
  BY <1>1, <1>10 DEF PushFinish, Finished, At, Step, Respond, Dest, SetDest, TypesOK, TypeOK, HandlersOK, Op
<1>11. CASE MoveStat(c)
  BY <1>1, <1>11 DEF MoveStat, At, Step, Respond, TypesOK, TypeOK, HandlersOK, Op
<1>12. CASE MoveRemove(c)
  BY <1>1, <1>12 DEF MoveRemove, At, SetFinal, Step, Respond, TypesOK, TypeOK, HandlersOK, Op
<1>13. CASE MoveRemoving(c)
  BY <1>1, <1>13 DEF MoveRemoving, At, SetFinal, Step, Respond, TypesOK, TypeOK, HandlersOK, Op
<1>14. CASE MoveRename(c)
  BY <1>1, <1>14 DEF MoveRename, At, SetFinal, Step, Respond, TypesOK, TypeOK, HandlersOK, Op
<1>15. CASE RmStat(c)
  BY <1>1, <1>15 DEF RmStat, At, Step, Respond, TypesOK, TypeOK, HandlersOK, Op
<1>16. CASE RmRemove(c)
  BY <1>1, <1>16 DEF RmRemove, At, Step, Respond, TypesOK, TypeOK, HandlersOK, Op
<1>17. CASE RmRemoving(c)
  BY <1>1, <1>17 DEF RmRemoving, At, Step, Respond, TypesOK, TypeOK, HandlersOK, Op
<1>18. CASE Disconnect(c)
  BY <1>1, <1>18 DEF Disconnect, Requesting, TypesOK, TypeOK, HandlersOK, Op
<1>19. QED BY <1>2, <1>3, <1>4, <1>5, <1>6, <1>7, <1>8, <1>9, <1>10, <1>11, <1>12, <1>13, <1>14, <1>15, <1>16, <1>17, <1>18
            DEF StepOf, ClientStep, HandlerStep

(* The content of a client that is alone arrives root by root. *)
LEMMA ProgressStep ==
    ASSUME TypesOK, NEW c \in Client, HandlersOK(c), StagedOK(c), ProgressOK(c), StepOf(c)
    PROVE  ProgressOK(c)'
<1>1. TypesOK /\ HandlersOK(c) /\ StagedOK(c) /\ ProgressOK(c)
  OBVIOUS
<1>2. CASE ResolveRoots(c)
  BY <1>1, Nodes, PushAssumption, <1>2
     DEF ResolveRoots, Goto, Call, TypesOK, TypeOK, HandlersOK, StagedOK, ProgressOK, Alone,
         Staged, Op, Root
<1>3. CASE NextRoot(c)
  <2>1. CASE final[ridx[c]] = Whole(c) /\ ridx' = [ridx EXCEPT ![c] = @ + 1] /\ UNCHANGED pc
    <3>1. /\ pc[c] = "root" /\ pc' = pc /\ final' = final /\ ridx'[c] = ridx[c] + 1
          /\ ridx[c] \in Nat
      BY <1>1, <1>3, <2>1, NextRootCases DEF TypesOK, TypeOK
    <3>2. QED BY <1>1, <2>1, <3>1 DEF ProgressOK, Alone, Root
  <2>2. CASE UNCHANGED ridx /\ pc'[c] = "failed"
    BY <2>2 DEF ProgressOK
  <2>3. CASE UNCHANGED ridx /\ Call(c, "push", "push", "start")
    <3>1. /\ pc[c] = "root" /\ pc'[c] = "push" /\ reply'[c] = "none" /\ hs'[c]["push"] = "start"
          /\ final' = final /\ opt' = opt /\ \A d \in Client \ {c} : pc'[d] = pc[d]
      <4>1. pc[c] = "root" /\ final' = final /\ opt' = opt
        BY <1>3, NextRootCases
      <4>2. pc'[c] = "push" /\ reply'[c] = "none" /\ \A d \in Client \ {c} : pc'[d] = pc[d]
        BY <1>1, <2>3 DEF Call, Goto, TypesOK, TypeOK
      <4>3. hs'[c]["push"] = "start"
        BY <1>1, <2>3 DEF Call, TypesOK, TypeOK, Op
      <4>4. QED BY <4>1, <4>2, <4>3
    <3>2. QED BY <1>1, <2>3, <3>1 DEF ProgressOK, Alone
  <2>4. QED BY <1>1, <1>3, <2>1, <2>2, <2>3, NextRootCases DEF Goto, TypesOK, TypeOK
<1>4. CASE PushReturned(c)
  BY <1>1, Nodes, PushAssumption, <1>4
     DEF PushReturned, Goto, Call, TypesOK, TypeOK, HandlersOK, StagedOK, ProgressOK, Alone,
         Staged, Op, Root
<1>5. CASE MoveReturned(c)
  BY <1>1, Nodes, PushAssumption, <1>5
     DEF MoveReturned, Goto, Call, TypesOK, TypeOK, HandlersOK, StagedOK, ProgressOK, Alone,
         Staged, Op, Root
<1>6. CASE CleanupReturned(c)
  BY <1>1, Nodes, PushAssumption, <1>6
     DEF CleanupReturned, Goto, TypesOK, TypeOK, HandlersOK, StagedOK, ProgressOK, Alone,
         Staged, Op, Root
<1>7. CASE RootsDone(c)
  BY <1>1, Nodes, PushAssumption, <1>7
     DEF RootsDone, Goto, TypesOK, TypeOK, HandlersOK, StagedOK, ProgressOK, Alone, Staged, Op,
         Root
<1>8. CASE Verify(c)
  BY <1>1, <1>8, VerifyCases DEF Goto, TypesOK, TypeOK, ProgressOK, Alone
<1>9. CASE PushStart(c)
  BY <1>1, Nodes, PushAssumption, <1>9
     DEF PushStart, At, Step, Respond, SetDest, TypesOK, TypeOK, HandlersOK, StagedOK,
         ProgressOK, Alone, Staged, Op, Root
<1>10. CASE PushFinish(c)
  BY <1>1, Nodes, PushAssumption, <1>10
     DEF PushFinish, Finished, At, Step, Respond, Dest, SetDest, TypesOK, TypeOK, HandlersOK, StagedOK,
         ProgressOK, Alone, Staged, Op, Root
<1>11. CASE MoveStat(c)
  BY <1>1, Nodes, PushAssumption, <1>11
     DEF MoveStat, At, Step, Respond, TypesOK, TypeOK, HandlersOK, StagedOK, ProgressOK, Alone,
         Staged, Op, Root
<1>12. CASE MoveRemove(c)
  BY <1>1, Nodes, PushAssumption, <1>12
     DEF MoveRemove, At, SetFinal, Step, Respond, TypesOK, TypeOK, HandlersOK, StagedOK, ProgressOK,
         Alone, Staged, Op, Root
<1>13. CASE MoveRemoving(c)
  BY <1>1, Nodes, PushAssumption, <1>13
     DEF MoveRemoving, At, SetFinal, Step, Respond, TypesOK, TypeOK, HandlersOK, StagedOK, ProgressOK,
         Alone, Staged, Op, Root
<1>14. CASE MoveRename(c)
  BY <1>1, Nodes, PushAssumption, <1>14
     DEF MoveRename, At, SetFinal, Step, Respond, TypesOK, TypeOK, HandlersOK, StagedOK, ProgressOK,
         Alone, Staged, Op, Root
<1>15. CASE RmStat(c)
  BY <1>1, Nodes, PushAssumption, <1>15
     DEF RmStat, At, Step, Respond, TypesOK, TypeOK, HandlersOK, StagedOK, ProgressOK, Alone,
         Staged, Op, Root
<1>16. CASE RmRemove(c)
  BY <1>1, Nodes, PushAssumption, <1>16
     DEF RmRemove, At, Step, Respond, TypesOK, TypeOK, HandlersOK, StagedOK, ProgressOK, Alone,
         Staged, Op, Root
<1>17. CASE RmRemoving(c)
  BY <1>1, Nodes, PushAssumption, <1>17
     DEF RmRemoving, At, Step, Respond, TypesOK, TypeOK, HandlersOK, StagedOK, ProgressOK, Alone,
         Staged, Op, Root
<1>18. CASE Disconnect(c)
  BY <1>1, Nodes, PushAssumption, <1>18
     DEF Disconnect, Requesting, TypesOK, TypeOK, HandlersOK, StagedOK, ProgressOK, Alone,
         Staged, Op, Root
<1>19. QED BY <1>2, <1>3, <1>4, <1>5, <1>6, <1>7, <1>8, <1>9, <1>10, <1>11, <1>12, <1>13, <1>14, <1>15, <1>16, <1>17, <1>18
            DEF StepOf, ClientStep, HandlerStep

-----------------------------------------------------------------------------
(* A push that nothing interrupts.                                          *)

(* A handler runs only while its client waits for it. *)
LEMMA CalmStep ==
    ASSUME TypesOK, NEW c \in Client, HandlersOK(c), StagedOK(c), CalmOK(c), StepOf(c), ~Disconnect(c)
    PROVE  CalmOK(c)'
<1>1. TypesOK /\ HandlersOK(c) /\ StagedOK(c) /\ CalmOK(c)
  OBVIOUS
<1>2. CASE ResolveRoots(c)
  BY <1>1, Nodes, <1>2
     DEF ResolveRoots, Goto, Call, TypesOK, TypeOK, HandlersOK, StagedOK, CalmOK, Staged, Op
<1>3. CASE NextRoot(c)
  BY <1>1, Nodes, <1>3, NextRootCases
     DEF Goto, Call, TypesOK, TypeOK, HandlersOK, StagedOK, CalmOK, Staged, Op
<1>4. CASE PushReturned(c)
  BY <1>1, Nodes, <1>4
     DEF PushReturned, Goto, Call, TypesOK, TypeOK, HandlersOK, StagedOK, CalmOK, Staged, Op
<1>5. CASE MoveReturned(c)
  BY <1>1, Nodes, <1>5
     DEF MoveReturned, Goto, Call, TypesOK, TypeOK, HandlersOK, StagedOK, CalmOK, Staged, Op
<1>6. CASE CleanupReturned(c)
  BY <1>1, Nodes, <1>6
     DEF CleanupReturned, Goto, TypesOK, TypeOK, HandlersOK, StagedOK, CalmOK, Staged, Op
<1>7. CASE RootsDone(c)
  BY <1>1, Nodes, <1>7
     DEF RootsDone, Goto, TypesOK, TypeOK, HandlersOK, StagedOK, CalmOK, Staged, Op
<1>8. CASE Verify(c)
  BY <1>1, Nodes, <1>8 DEF Verify, Goto, TypesOK, TypeOK, HandlersOK, StagedOK, CalmOK, Staged, Op
<1>9. CASE PushStart(c)
  BY <1>1, Nodes, <1>9
     DEF PushStart, At, Step, Respond, SetDest, TypesOK, TypeOK, HandlersOK, StagedOK, CalmOK,
         Staged, Op
<1>10. CASE PushFinish(c)
  BY <1>1, Nodes, <1>10
     DEF PushFinish, Finished, At, Step, Respond, Dest, SetDest, TypesOK, TypeOK, HandlersOK, StagedOK,
         CalmOK, Staged, Op
<1>11. CASE MoveStat(c)
  BY <1>1, Nodes, <1>11
     DEF MoveStat, At, Step, Respond, TypesOK, TypeOK, HandlersOK, StagedOK, CalmOK, Staged, Op
<1>12. CASE MoveRemove(c)
  BY <1>1, Nodes, <1>12
     DEF MoveRemove, At, SetFinal, Step, Respond, TypesOK, TypeOK, HandlersOK, StagedOK, CalmOK, Staged,
         Op
<1>13. CASE MoveRemoving(c)
  BY <1>1, Nodes, <1>13
     DEF MoveRemoving, At, SetFinal, Step, Respond, TypesOK, TypeOK, HandlersOK, StagedOK, CalmOK, Staged,
         Op
<1>14. CASE MoveRename(c)
  BY <1>1, Nodes, <1>14
     DEF MoveRename, At, SetFinal, Step, Respond, TypesOK, TypeOK, HandlersOK, StagedOK, CalmOK, Staged,
         Op
<1>15. CASE RmStat(c)
  BY <1>1, Nodes, <1>15
     DEF RmStat, At, Step, Respond, TypesOK, TypeOK, HandlersOK, StagedOK, CalmOK, Staged, Op
<1>16. CASE RmRemove(c)
  BY <1>1, Nodes, <1>16
     DEF RmRemove, At, Step, Respond, TypesOK, TypeOK, HandlersOK, StagedOK, CalmOK, Staged, Op
<1>17. CASE RmRemoving(c)
  BY <1>1, Nodes, <1>17
     DEF RmRemoving, At, Step, Respond, TypesOK, TypeOK, HandlersOK, StagedOK, CalmOK, Staged, Op
<1>18. QED BY <1>2, <1>3, <1>4, <1>5, <1>6, <1>7, <1>8, <1>9, <1>10, <1>11, <1>12, <1>13, <1>14, <1>15, <1>16, <1>17
            DEF StepOf, ClientStep, HandlerStep

(* A step of another client leaves a handler's place alone. *)
LEMMA PlacesStay ==
    ASSUME TypesOK, NEW c \in Client, StepOf(c), NEW e \in Client, e # c, NEW r \in Root,
           NEW l, hs[e]["move"] = l, ridx[e] = r
    PROVE  hs'[e]["move"] = l /\ ridx'[e] = r
BY Others

(* The only step of a client whose fs.move is at label l and whose other    *)
(* handlers are gone is that handler's.                                     *)
LEMMA MovesOnly ==
    ASSUME TypesOK, NEW c \in Client, HandlersOK(c), CalmOK(c), StepOf(c), ~Disconnect(c),
           hs[c]["move"] \in {"removing", "rename"}
    PROVE  /\ hs[c]["move"] = "rename" => MoveRename(c)
           /\ hs[c]["move"] = "removing" => MoveRemoving(c)
<1>1. pc[c] = "move" /\ reply[c] = "none" /\ hs[c]["push"] = "none" /\ hs[c]["rm"] = "none"
  BY DEF CalmOK, HandlersOK
<1>2. QED BY <1>1
         DEF StepOf, ClientStep, ResolveRoots, NextRoot, PushReturned, MoveReturned, CleanupReturned,
             RootsDone, Verify, HandlerStep, PushStart, PushFinish, MoveStat, MoveRemove, RmStat,
             RmRemove, RmRemoving, MoveRemoving, MoveRename, At

(* handle_fs_move: a destination it has removed it is going to fill, unless *)
(* another client's rename has filled it before or its own has failed.      *)
LEMMA FillingStep ==
    ASSUME TypesOK, NEW c \in Client, HandlersOK(c), StagedOK(c), CalmOK(c), StepOf(c),
           ~Disconnect(c), NEW r \in Root, Attended(r), AllWhole, final'[r] = Absent
    PROVE  Filling(r)' \/ "rename" \in ioFailed'
<1>1. TypesOK /\ HandlersOK(c) /\ StagedOK(c) /\ CalmOK(c)
  OBVIOUS
<1>2. CASE "rename" \in ioFailed
  BY <1>2, FailuresStay
<1>3. CASE final[r] = Absent /\ "rename" \notin ioFailed
  <2>1. PICK e \in Client : hs[e]["move"] = "rename" /\ ridx[e] = r
    BY <1>3 DEF Attended, Filling
  <2>2. CASE e # c
    BY <2>1, <2>2, PlacesStay DEF Filling
  <2>3. CASE e = c
    <3>1. pc[c] = "move" /\ staged[c] = Whole(c)
      BY <1>1, <2>1, <2>3 DEF CalmOK, StagedOK, HandlersOK
    <3>2. MoveRename(c)
      BY <2>1, <2>3, MovesOnly
    <3>3. Renamable(c) /\ final[ridx[c]] # Rest
      BY <1>3, <2>1, <2>3, <3>1, Nodes DEF Renamable
    <3>4. final' = [final EXCEPT ![r] = Whole(c)] \/ "rename" \in ioFailed'
      BY <2>1, <2>3, <3>1, <3>2, <3>3 DEF MoveRename, SetFinal
    <3>5. final' = [final EXCEPT ![r] = Whole(c)] => final'[r] = Whole(c)
      BY <1>1 DEF TypesOK, TypeOK
    <3>6. QED BY <3>4, <3>5, Nodes
  <2>4. QED BY <2>2, <2>3
<1>4. CASE final[r] # Absent
  <2>1. final' # final
    BY <1>4
  <2>2. CASE MoveRemove(c) \/ MoveRemoving(c)
    <3>1. PICK n \in {Absent, Rest, Mixed} : SetFinal(c, n) /\ (n = Absent => Step(c, "move", "rename"))
      BY <2>1, <2>2, Nodes DEF MoveRemove, MoveRemoving
    <3>2. ridx[c] = r /\ ridx' = ridx /\ n = Absent
      BY <1>1, <1>4, <2>2, <3>1 DEF MoveRemove, MoveRemoving, SetFinal, TypesOK, TypeOK
    <3>3. hs'[c]["move"] = "rename"
      BY <1>1, <3>1, <3>2 DEF Step, TypesOK, TypeOK, Op
    <3>4. QED BY <3>2, <3>3 DEF Filling
  <2>3. ~MoveRename(c)
    BY <1>1, <1>4, <2>1 DEF MoveRename, Renamable, SetFinal, TypesOK, TypeOK
  <2>4. ~PushStart(c)
    BY <1>1, <1>4, <2>1, Nodes DEF PushStart, SetDest, TypesOK, TypeOK
  <2>5. ~PushFinish(c)
    <3> SUFFICES ASSUME PushFinish(c) PROVE FALSE
      OBVIOUS
    <3>1. SetDest(c, Finished(c))
      BY <2>1 DEF PushFinish
    <3>2. Finished(c) = Absent => Dest(c) \in {Absent, Rest} /\ ~IsDir[ridx[c]]
      BY Nodes DEF Finished
    <3>3. final[r] = Rest => IsDir[r]
      BY DEF AllWhole
    <3>4. QED BY <1>1, <1>4, <2>1, <3>1, <3>2, <3>3 DEF Dest, SetDest, TypesOK, TypeOK
  <2>6. QED BY <2>1, <2>2, <2>3, <2>4, <2>5
           DEF StepOf, ClientStep, ResolveRoots, NextRoot, PushReturned, MoveReturned, CleanupReturned,
               RootsDone, Verify, HandlerStep, MoveStat, RmStat, RmRemove, RmRemoving
<1>5. QED BY <1>2, <1>3, <1>4

(* remove_dir_all: what is half removed is being removed, unless a removal  *)
(* has failed.                                                              *)
LEMMA RemovingStep ==
    ASSUME TypesOK, NEW c \in Client, HandlersOK(c), StagedOK(c), CalmOK(c), StepOf(c),
           ~Disconnect(c), NEW r \in Root, Attended(r), final'[r] = Rest
    PROVE  BeingRemoved(r)' \/ "remove" \in ioFailed'
<1>1. TypesOK /\ HandlersOK(c) /\ StagedOK(c) /\ CalmOK(c)
  OBVIOUS
<1>2. CASE "remove" \in ioFailed
  BY <1>2, FailuresStay
<1>3. CASE final[r] = Rest /\ "remove" \notin ioFailed
  <2>1. PICK e \in Client : hs[e]["move"] = "removing" /\ ridx[e] = r
    BY <1>3 DEF Attended, BeingRemoved
  <2>2. CASE e # c
    BY <2>1, <2>2, PlacesStay DEF BeingRemoved
  <2>3. CASE e = c
    <3>1. MoveRemoving(c)
      BY <2>1, <2>3, MovesOnly
    <3>2. final' = [final EXCEPT ![r] = Absent] \/ "remove" \in ioFailed'
      BY <1>3, <2>1, <2>3, <3>1 DEF MoveRemoving, SetFinal
    <3>3. final' = [final EXCEPT ![r] = Absent] => final'[r] = Absent
      BY <1>1 DEF TypesOK, TypeOK
    <3>4. QED BY <3>2, <3>3, Nodes
  <2>4. QED BY <2>2, <2>3
<1>4. CASE final[r] # Rest
  <2>1. final' # final
    BY <1>4
  <2>2. CASE MoveRemove(c)
    <3>1. /\ ridx[c] = r /\ ridx' = ridx /\ IsDir[ridx[c]]
          /\ Step(c, "move", "removing")
      BY <1>1, <1>4, <2>1, <2>2, Nodes DEF MoveRemove, SetFinal, TypesOK, TypeOK
    <3>2. hs'[c]["move"] = "removing"
      BY <1>1, <3>1 DEF Step, TypesOK, TypeOK, Op
    <3>3. QED BY <3>1, <3>2 DEF BeingRemoved
  <2>3. ~MoveRemoving(c)
    BY <1>1, <1>4, <2>1, Nodes DEF MoveRemoving, SetFinal, TypesOK, TypeOK
  <2>4. ~MoveRename(c)
    <3> SUFFICES ASSUME MoveRename(c) PROVE FALSE
      OBVIOUS
    <3>1. staged[c] # Rest
      BY <1>1, Nodes DEF MoveRename, At, CalmOK, StagedOK
    <3>2. SetFinal(c, staged[c])
      BY <2>1 DEF MoveRename
    <3>3. QED BY <1>1, <1>4, <3>1, <3>2 DEF SetFinal, TypesOK, TypeOK
  <2>5. ~PushStart(c)
    BY <1>1, <1>4, <2>1, Nodes DEF PushStart, SetDest, TypesOK, TypeOK
  <2>6. ~PushFinish(c)
    <3> SUFFICES ASSUME PushFinish(c) PROVE FALSE
      OBVIOUS
    <3>1. SetDest(c, Finished(c)) /\ Finished(c) # Rest
      BY <2>1, Nodes DEF PushFinish, Finished
    <3>2. QED BY <1>1, <1>4, <2>1, <3>1 DEF SetDest, TypesOK, TypeOK
  <2>7. QED BY <2>1, <2>2, <2>3, <2>4, <2>5, <2>6
           DEF StepOf, ClientStep, ResolveRoots, NextRoot, PushReturned, MoveReturned, CleanupReturned,
               RootsDone, Verify, HandlerStep, MoveStat, RmStat, RmRemove, RmRemoving
<1>5. QED BY <1>2, <1>3, <1>4

-----------------------------------------------------------------------------
(* The theorems.                                                            *)

(* The first state satisfies the invariant. *)
LEMMA InitIInv == Init => IInv
<1> SUFFICES ASSUME Init PROVE IInv
  OBVIOUS
<1>1. R \in Nat /\ 1 \in Root /\ 1 \in 1 .. R + 1
  BY PushAssumption DEF Root
<1>2. \A c \in Client : /\ pc[c] = "resolve" /\ ridx[c] = 1 /\ reply[c] = "none"
                        /\ staged[c] = Absent /\ \A o \in Op : hs[c][o] = "none"
  BY DEF Init
<1>3. \A r \in Root : final[r].is # "part" /\ final[r] # Absent /\ final[r] # Rest
  BY PushAssumption DEF Init, Whole, Absent, Rest
<1>4. TypesOK
  BY <1>1, PushAssumption DEF Init, TypesOK, TypeOK, Node, Whole, Absent, Op
<1>5. \A c \in Client : HandlersOK(c)
  BY <1>2 DEF HandlersOK, Requesting, Op
<1>6. \A c \in Client : StagedOK(c) /\ ProgressOK(c) /\ CalmOK(c)
  <2>1. Absent # Rest
    BY DEF Absent, Whole, Rest
  <2>2. QED BY <1>2, <2>1 DEF StagedOK, ProgressOK, CalmOK, Op
<1>7. AllWhole /\ CalmInv
  BY <1>3, <1>6 DEF AllWhole, CalmInv, Attended
<1>8. QED BY <1>4, <1>5, <1>6, <1>7 DEF IInv

(* The death of the daemon ends all handlers, in whatever state they are. *)
LEMMA CrashStep ==
    ASSUME IInv, Crash
    PROVE  IInv'
<1>1. TypesOK /\ AllWhole /\ \A c \in Client : HandlersOK(c) /\ StagedOK(c) /\ ProgressOK(c)
  BY DEF IInv
<1>2. TypesOK'
  BY <1>1, PushAssumption DEF Crash, TypesOK, TypeOK
<1>3. ASSUME NEW c \in Client
      PROVE  /\ \A o \in Op : hs'[c][o] = "none"
             /\ reply'[c] = "ok" => reply[c] = "ok"
             /\ UNCHANGED <<pc, ridx, final, staged, opt>>
  BY DEF Crash
<1>4. ASSUME NEW c \in Client
      PROVE  HandlersOK(c)' /\ StagedOK(c)' /\ ProgressOK(c)'
  BY <1>1, <1>3 DEF HandlersOK, StagedOK, ProgressOK, Alone, Staged, Requesting, Op
<1>5. AllWhole'
  BY <1>1 DEF Crash, AllWhole, Staged
<1>6. ~Calm'
  BY <1>1 DEF Crash, Calm, TypesOK, TypeOK
<1>7. QED BY <1>2, <1>4, <1>5, <1>6 DEF IInv, CalmInv

(* The inductive invariant holds of every behaviour. *)
THEOREM Invariance == Spec => []IInv
<1>1. ASSUME IInv, NEW c \in Client, StepOf(c) PROVE IInv'
  <2>1. TypesOK /\ AllWhole /\ CalmInv
        /\ \A d \in Client : HandlersOK(d) /\ StagedOK(d) /\ ProgressOK(d)
    BY <1>1 DEF IInv
  <2>2. TypesOK' /\ AllWhole'
    BY <1>1, <2>1, TypesStep, AllWholeStep
  <2>3. ASSUME NEW d \in Client PROVE HandlersOK(d)' /\ StagedOK(d)' /\ ProgressOK(d)'
    <3>1. CASE d = c
      BY <1>1, <2>1, <3>1, HandlersStep, StagedStep, ProgressStep
    <3>2. CASE d # c
      BY <1>1, <2>1, <3>2, OthersStep, AloneStep DEF ProgressOK
    <3>3. QED BY <3>1, <3>2
  <2>4. ASSUME Calm' PROVE Calm /\ ~Disconnect(c)
    <3>1. cuts \in Nat /\ crashes \in Nat
      BY <2>1 DEF TypesOK, TypeOK
    <3>2. ~Disconnect(c)
      BY <2>4, <3>1 DEF Disconnect, Calm
    <3>3. cuts' = cuts /\ crashes' = crashes
      BY <1>1, <3>2 DEF StepOf, ClientStep, ResolveRoots, NextRoot, PushReturned, MoveReturned,
             CleanupReturned, RootsDone, Verify, HandlerStep, PushStart, PushFinish, MoveStat,
             MoveRemove, MoveRemoving, MoveRename, RmStat, RmRemove, RmRemoving
    <3>4. QED BY <2>4, <3>2, <3>3 DEF Calm
  <2>5. CalmInv'
    <3> SUFFICES ASSUME Calm' PROVE (\A d \in Client : CalmOK(d))' /\ (\A r \in Root : Attended(r))'
      BY DEF CalmInv
    <3>1. (\A d \in Client : CalmOK(d)) /\ (\A r \in Root : Attended(r))
      BY <2>1, <2>4 DEF CalmInv
    <3>2. ASSUME NEW d \in Client PROVE CalmOK(d)'
      <4>1. CASE d = c
        BY <1>1, <2>1, <2>4, <3>1, <4>1, CalmStep
      <4>2. CASE d # c
        BY <1>1, <2>1, <3>1, <4>2, Others, FailuresStay DEF CalmOK
      <4>3. QED BY <4>1, <4>2
    <3>3. ASSUME NEW r \in Root PROVE Attended(r)'
      <4>1. final'[r] = Absent => Filling(r)' \/ "rename" \in ioFailed'
        BY <1>1, <2>1, <2>4, <3>1, FillingStep
      <4>2. final'[r] = Rest => BeingRemoved(r)' \/ "remove" \in ioFailed'
        BY <1>1, <2>1, <2>4, <3>1, RemovingStep
      <4>3. QED BY <4>1, <4>2 DEF Attended
    <3>4. QED BY <3>2, <3>3
  <2>6. QED BY <2>2, <2>3, <2>5 DEF IInv
<1>2. ASSUME IInv, UNCHANGED vars PROVE IInv'
  BY <1>2 DEF vars, IInv, TypesOK, TypeOK, HandlersOK, StagedOK, ProgressOK, AllWhole, CalmInv,
         Calm, CalmOK, Attended, Filling, BeingRemoved, Alone, Staged, Requesting
<1>3. IInv /\ [Next]_vars => IInv'
  BY <1>1, <1>2, CrashStep DEF Next, StepOf, Terminated
<1>4. QED BY <1>3, InitIInv, PTL DEF Spec

(* transfer.push --atomic and --if-changed: a destination never holds a     *)
(* half-written version, and what is left of an old directory only while    *)
(* handle_fs_move removes it or after something went wrong.                 *)
THEOREM DestinationStaysWhole == Spec => []DestinationIsWhole
<1>1. IInv => DestinationIsWhole
  <2> SUFFICES ASSUME IInv, NEW r \in Root, final[r] = Rest, cuts = 0, crashes = 0
               PROVE  BeingRemoved(r) \/ "remove" \in ioFailed
    <3>1. ASSUME TypeOK PROVE cuts > 0 \/ cuts = 0
      BY <3>1 DEF TypeOK
    <3>2. ASSUME TypeOK PROVE crashes > 0 \/ crashes = 0
      BY <3>2 DEF TypeOK
    <3>3. QED BY <3>1, <3>2 DEF IInv, TypesOK, AllWhole, DestinationIsWhole
  <2>1. QED BY DEF IInv, CalmInv, Calm, Attended
<1>2. QED BY <1>1, Invariance, PTL

(* run_agent_transfer_push: success of a client that nobody interfered with *)
(* means that its content is at every destination.                          *)
THEOREM SuccessMeansDelivered == Spec => []SuccessIsDelivered
<1>1. IInv => SuccessIsDelivered
  BY DEF IInv, ProgressOK, SuccessIsDelivered
<1>2. QED BY <1>1, Invariance, PTL

(* handle_fs_move and cleanup_remote_path: without a lost connection or a   *)
(* death of the daemon a destination is lost only by a rename that fails,   *)
(* half removed only by a removal that fails, and a staged copy left only   *)
(* by a failing fs.rm.                                                      *)
THEOREM OnlyInterruptionLoses == Spec => []LossNeedsInterruption
<1>1. IInv => LossNeedsInterruption
  <2> SUFFICES ASSUME IInv, Quiet, cuts = 0, crashes = 0
               PROVE  /\ \A r \in Root : /\ final[r] = Absent => "rename" \in ioFailed
                                        /\ final[r] = Rest => "remove" \in ioFailed
                      /\ \A c \in Client : staged[c] # Absent => "rm" \in ioFailed
    BY DEF LossNeedsInterruption
  <2>1. (\A c \in Client : CalmOK(c)) /\ (\A r \in Root : Attended(r))
    BY DEF IInv, CalmInv, Calm
  <2>2. \A c \in Client : hs[c]["move"] = "none" /\ pc[c] \in {"ok", "failed"}
    BY DEF Quiet, Ended, Op
  <2>3. QED BY <2>1, <2>2 DEF CalmOK, Attended, Filling, BeingRemoved
<1>2. QED BY <1>1, Invariance, PTL
=============================================================================
