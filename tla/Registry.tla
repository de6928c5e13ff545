------------------------------ MODULE Registry ------------------------------
(***************************************************************************)
(* The saved targets of the CLI, targets.json.  Every command is a process *)
(* of its own that reads the whole file, changes its copy and writes the   *)
(* whole file back; nothing locks the file.  fs::write truncates first and *)
(* then writes, so there is a moment in which the file is empty, and a     *)
(* second writer whose text is shorter leaves the first one's tail behind. *)
(*                                                                         *)
(* The text of the file is abstracted to the registry it parses to, or to  *)
(* Empty or Torn, which do not parse.                                      *)
(***************************************************************************)
EXTENDS Naturals, SequencesExt

CONSTANTS
    Proc,         \* the CLI processes, one command each
    SockAddr,     \* socket addresses, normalized
    Name,         \* names of targets
    DefaultName,  \* DefaultName[a]: default_name(a)
    DeviceName,   \* DeviceName[a]: the name the device at a answers with
    Commands,     \* the commands the processes may run
    InitFiles,    \* what targets.json may be when the first of them starts
    MaxKills,     \* bound: how many processes are killed
    None, Absent, Empty, Torn

StoredTarget == [name : Name, addr : SockAddr]

(* The struct Registry.  Names and addresses are both strings: a target can *)
(* have the address of another one as its name.                             *)
SavedRegistry == [targets : Seq(StoredTarget), current : SockAddr \cup Name \cup {None}]

Command == [op   : {"connect", "disconnect", "devices", "resolve"},
            addr : SockAddr \cup {None},
            name : Name \cup {None}]

Unreadable == {Empty, Torn}
NotAFile   == {Absent} \cup Unreadable

ASSUME RegistryAssumption ==
    /\ DefaultName \in [SockAddr -> Name] /\ DeviceName \in [SockAddr -> Name]
    /\ Commands \subseteq Command
    /\ \A c \in Commands : c.op = "connect" => c.addr # None
    /\ InitFiles \subseteq NotAFile \cup SavedRegistry
    /\ MaxKills \in Nat
    /\ None \notin SockAddr \cup Name
    /\ Absent \notin Unreadable /\ Empty # Torn
    /\ \A f \in NotAFile : f \notin SavedRegistry
-----------------------------------------------------------------------------
Default == [targets |-> << >>, current |-> None]

Addrs(ts) == {ts[i].addr : i \in DOMAIN ts}

(* primary_target_index: the current target by address, or else by name, or *)
(* else the last one; 0 when there is none.                                 *)
PrimaryIndex(r) ==
    LET ByAddr == {i \in DOMAIN r.targets : r.targets[i].addr = r.current}
        ByName == {i \in DOMAIN r.targets : r.targets[i].name = r.current}
    IN  IF ByAddr # {} THEN Min(ByAddr)
        ELSE IF ByName # {} THEN Min(ByName)
        ELSE Len(r.targets)

PrimaryAddr(r) == IF r.targets = << >> THEN None ELSE r.targets[PrimaryIndex(r)].addr

LastAddr(ts) == IF ts = << >> THEN None ELSE Last(ts).addr

Position(ts, a) == {i \in DOMAIN ts : ts[i].addr = a}

(* A target replaces an earlier one with its address and goes to the end.   *)
(* There is at most one: deduped has no duplicates, and neither has the     *)
(* loaded registry, in which connect_command drops all with the address.    *)
PushTarget(ts, t) ==
    LET same == Position(ts, t.addr)
    IN  Append(IF same = {} THEN ts ELSE RemoveAt(ts, Min(same)), t)

(* The loop of normalize_registry: deduped after each of the targets. *)
Deduped(ts) ==
    LET deduped[n \in 0 .. Len(ts)] ==
            IF n = 0 THEN << >> ELSE PushTarget(deduped[n - 1], ts[n])
    IN  deduped[Len(ts)]

(* Mutant: the current target is kept as it is if it is an address. *)
NormalizeByAddr(r) ==
    [targets |-> Deduped(r.targets),
     current |-> IF r.current \in Addrs(r.targets) THEN r.current ELSE LastAddr(r.targets)]

(* Mutant: duplicates are kept. *)
NormalizeKeepsAll(r) == [r EXCEPT !.current = PrimaryAddr(r)]

(* normalize_registry. *)
Normalize(r) ==
    LET deduped == Deduped(r.targets)
    IN  [targets |-> deduped,
         current |-> IF PrimaryAddr(r) \in Addrs(deduped) THEN PrimaryAddr(r) ELSE LastAddr(deduped)]
-----------------------------------------------------------------------------
VARIABLES
    file,     \* targets.json
    pc,       \* where each process is
    cmd,      \* its command
    reg,      \* its copy of the registry
    kills,    \* processes killed so far
    broken,   \* history: a process was killed or a write failed, now or before
    base,     \* history: base[p] is the registry that p's command read
    overlap   \* history: overlap[p], the file changed under p's command

registryVars == <<file, pc, cmd, reg, kills, broken, base, overlap>>

NoCommand == [op |-> "none", addr |-> None, name |-> None]
Ends == {"done", "failed", "dead"}
Labels == {"idle", "ping", "load", "retruncate", "rewrite", "apply", "truncate", "write"} \cup Ends

RegistryInit ==
    /\ file \in InitFiles
    /\ pc = [p \in Proc |-> "idle"]
    /\ cmd = [p \in Proc |-> NoCommand]
    /\ reg = [p \in Proc |-> Default]
    /\ kills = 0 /\ broken = (file \in Unreadable)
    /\ base = [p \in Proc |-> Default]
    /\ overlap = [p \in Proc |-> FALSE]

Goto(p, l) == pc' = [pc EXCEPT ![p] = l]

(* From the load to the last write of a command. *)
InWindow(p) == pc[p] \in {"retruncate", "rewrite", "apply", "truncate", "write"}

(* History: p changed the file under another process's command. *)
Changes(p) == overlap' = [q \in Proc |-> overlap[q] \/ (q # p /\ InWindow(q) /\ file' # file)]

Start(p) ==
    /\ pc[p] = "idle"
    /\ \E c \in Commands :
         /\ cmd' = [cmd EXCEPT ![p] = c]
         /\ Goto(p, IF c.op = "connect" THEN "ping" ELSE "load")
    /\ UNCHANGED <<file, reg, kills, broken, base, overlap>>

(* connect_command asks the device before it reads the registry. *)
Ping(p) ==
    /\ pc[p] = "ping"
    /\ Goto(p, "load") \/ Goto(p, "failed")
    /\ UNCHANGED <<file, cmd, reg, kills, broken, base, overlap>>

(* load_registry: a file that does not parse fails the command; one that is *)
(* not normalized is written back at once.                                  *)
Load(p) ==
    /\ pc[p] = "load"
    /\ \/ file \in Unreadable /\ Goto(p, "failed") /\ UNCHANGED <<reg, base>>
       \/ /\ file \notin Unreadable
          /\ LET r == IF file = Absent THEN Default ELSE file IN
             /\ base' = [base EXCEPT ![p] = r]
             /\ reg' = [reg EXCEPT ![p] = Normalize(r)]
             /\ Goto(p, IF Normalize(r) = r THEN "apply" ELSE "retruncate")
    /\ UNCHANGED <<file, cmd, kills, broken, overlap>>

(* Mutant: the file is opened without being truncated. *)
TruncateNot(p) ==
    /\ \/ pc[p] = "retruncate" /\ Goto(p, "rewrite")
       \/ pc[p] = "truncate" /\ Goto(p, "write")
       \/ pc[p] \in {"retruncate", "truncate"} /\ Goto(p, "failed")
    /\ UNCHANGED <<file, cmd, reg, kills, broken, base, overlap>>

(* write_registry up to the open with O_TRUNC, which may fail. *)
Truncate(p) ==
    /\ \/ pc[p] = "retruncate" /\ Goto(p, "rewrite") /\ file' = Empty
       \/ pc[p] = "truncate" /\ Goto(p, "write") /\ file' = Empty
       \/ pc[p] \in {"retruncate", "truncate"} /\ Goto(p, "failed") /\ UNCHANGED file
    /\ Changes(p)
    /\ UNCHANGED <<cmd, reg, kills, broken, base>>

(* What the file holds when r is written over it from the start. *)
Written(r) == IF file \in {Empty, r} THEN {r} ELSE {r, Torn}

(* write_registry from the open on. *)
Write(p) ==
    /\ \/ pc[p] = "rewrite" /\ Goto(p, "apply") /\ file' \in Written(reg[p])
       \/ pc[p] = "write" /\ Goto(p, "done") /\ file' \in Written(reg[p])
    /\ Changes(p)
    /\ UNCHANGED <<cmd, reg, kills, broken, base>>

(* The disk is full: nothing or a part of the text is written. *)
WriteFails(p) ==
    /\ pc[p] \in {"rewrite", "write"}
    /\ Goto(p, "failed") /\ broken' = TRUE
    /\ file' \in {file, Torn}
    /\ Changes(p)
    /\ UNCHANGED <<cmd, reg, kills, base>>
-----------------------------------------------------------------------------
(* The name of a target that is saved: the one asked for, the one it was    *)
(* given before unless that was made from the address, the one the device   *)
(* answered the discovery probe with, or the one made from the address.     *)
ConnectNames(c, ts) ==
    LET old == {ts[i].name : i \in Position(ts, c.addr)} \ {DefaultName[c.addr]}
    IN  IF c.name # None THEN {c.name}
        ELSE IF old # {} THEN old
        ELSE {DeviceName[c.addr], DefaultName[c.addr]}

(* save_registry normalizes what it is given. *)
Save(p, r) == reg' = [reg EXCEPT ![p] = Normalize(r)] /\ Goto(p, "truncate")

(* connect_command. *)
ConnectCommand(p) ==
    \E n \in ConnectNames(cmd[p], reg[p].targets) :
        Save(p, [targets |-> PushTarget(reg[p].targets, [name |-> n, addr |-> cmd[p].addr]),
                 current |-> cmd[p].addr])

Selected(p) ==
    LET r == reg[p]
    IN  IF cmd[p].addr = None THEN {PrimaryIndex(r)} \ {0} ELSE Position(r.targets, cmd[p].addr)

(* Mutant: the current target always moves to the last one. *)
DisconnectCommandResets(p) ==
    \/ Selected(p) = {} /\ Goto(p, "failed") /\ UNCHANGED reg
    \/ \E i \in Selected(p) :
         LET rest == RemoveAt(reg[p].targets, i)
         IN  Save(p, [targets |-> rest, current |-> LastAddr(rest)])

(* disconnect_command. *)
DisconnectCommand(p) ==
    \/ Selected(p) = {} /\ Goto(p, "failed") /\ UNCHANGED reg
    \/ \E i \in Selected(p) :
         LET gone == reg[p].targets[i]
             rest == RemoveAt(reg[p].targets, i)
         IN  Save(p, [targets |-> rest,
                      current |-> IF rest = << >> \/ reg[p].current \in {gone.addr, gone.name}
                                  THEN LastAddr(rest) ELSE reg[p].current])

(* devices_command and probe_saved_target: a name made from the address is  *)
(* replaced by the one the current target answers with.                     *)
DevicesCommand(p) ==
    LET i == PrimaryIndex(reg[p])
        t == reg[p].targets[i]
    IN  \/ Goto(p, "done") /\ UNCHANGED reg
        \/ /\ i # 0 /\ t.name = DefaultName[t.addr] /\ DeviceName[t.addr] # t.name
           /\ Save(p, [reg[p] EXCEPT !.targets[i].name = DeviceName[t.addr]])

(* resolve_target of every command without an explicit address. *)
ResolveTarget(p) == Goto(p, IF reg[p].targets = << >> THEN "failed" ELSE "done") /\ UNCHANGED reg

Apply(p) ==
    /\ pc[p] = "apply"
    /\ \/ cmd[p].op = "connect" /\ ConnectCommand(p)
       \/ cmd[p].op = "disconnect" /\ DisconnectCommand(p)
       \/ cmd[p].op = "devices" /\ DevicesCommand(p)
       \/ cmd[p].op = "resolve" /\ ResolveTarget(p)
    /\ UNCHANGED <<file, cmd, kills, broken, base, overlap>>

(* A command is interrupted. *)
Kill(p) ==
    /\ kills < MaxKills /\ kills' = kills + 1
    /\ pc[p] \notin Ends \cup {"idle"}
    /\ Goto(p, "dead") /\ broken' = TRUE
    /\ UNCHANGED <<file, cmd, reg, base, overlap>>

Step(p) == Ping(p) \/ Load(p) \/ Truncate(p) \/ Write(p) \/ WriteFails(p) \/ Apply(p)

AllEnded == (\A p \in Proc : pc[p] \in Ends) /\ UNCHANGED registryVars

RegistryNext == (\E p \in Proc : Start(p) \/ Step(p) \/ Kill(p)) \/ AllEnded

(* A command that runs goes on; its probes have timeouts. *)
RegistrySpec == RegistryInit /\ [][RegistryNext]_registryVars
-----------------------------------------------------------------------------
(* Type correctness of the file and of the processes. *)
RegistryTypeOK ==
    /\ file \in NotAFile \cup SavedRegistry
    /\ pc \in [Proc -> Labels] /\ cmd \in [Proc -> Commands \cup {NoCommand}]
    /\ reg \in [Proc -> SavedRegistry]
    /\ kills \in 0 .. MaxKills /\ broken \in BOOLEAN
    /\ base \in [Proc -> SavedRegistry]
    /\ overlap \in [Proc -> BOOLEAN]

(* Each address once, and the current target is the address of one. *)
Normal(r) ==
    /\ \A i, j \in DOMAIN r.targets : r.targets[i].addr = r.targets[j].addr => i = j
    /\ r.current = None <=> r.targets = << >>
    /\ r.targets # << >> => r.current \in Addrs(r.targets)

(* normalize_registry, at every load and save: what the program has written *)
(* has each address once, and its current target is one of them.            *)
SavedIsNormal ==
    RegistryTypeOK /\ (file \notin NotAFile \cup InitFiles => Normal(file))

(* load_registry rewrites a file that an older version left with duplicates *)
(* or with a name as its current target: the commands without an explicit   *)
(* address go to the same device as before.                                 *)
RewriteKeepsPrimary ==
    [][\A p \in Proc : pc[p] = "rewrite" /\ pc'[p] = "apply" /\ ~overlap[p] =>
            PrimaryAddr(file') = PrimaryAddr(base[p])]_registryVars

Latest(ts, a) == ts[Max(Position(ts, a))]

(* The address saved last but for a. *)
LatestBut(ts, a) ==
    LET others == {i \in DOMAIN ts : ts[i].addr # a}
    IN  IF others = {} THEN None ELSE ts[Max(others)].addr

(* The other targets of the registry r are as the command found them in o. *)
OthersKept(o, r, a) ==
    /\ Addrs(r.targets) \ {a} = Addrs(o.targets) \ {a}
    /\ \A b \in Addrs(r.targets) \ {a} : Latest(r.targets, b) = Latest(o.targets, b)

(* connect_command: r is o with the target saved and current. *)
Connected(c, o, r) == PrimaryAddr(r) = c.addr /\ OthersKept(o, r, c.addr)

(* disconnect_command: exactly the selected target goes.  The current       *)
(* target stays, or, if it is the one that went or has the name of that as  *)
(* its address, the most recent one of the rest takes its place.            *)
Disconnected(c, o, r) ==
    LET was  == PrimaryAddr(o)
        gone == IF c.addr = None THEN was ELSE c.addr
    IN  /\ gone \notin Addrs(r.targets)
        /\ OthersKept(o, r, gone)
        /\ PrimaryAddr(r) =
             IF was \in {gone, Latest(o.targets, gone).name} THEN LatestBut(o.targets, gone) ELSE was

(* devices_command: the current target gets the name it answered with. *)
Renamed(o, r) ==
    LET was == PrimaryAddr(o)
    IN  /\ PrimaryAddr(r) = was /\ OthersKept(o, r, was)
        /\ Latest(r.targets, was).name = DeviceName[was]

(* What the command c makes of the registry o that it read. *)
Effect(c, o, r) ==
    /\ c.op = "connect" => Connected(c, o, r)
    /\ c.op = "disconnect" => Disconnected(c, o, r)
    /\ c.op = "devices" => Renamed(o, r)

(* connect_command, disconnect_command and devices_command have their       *)
(* effect on the file and touch no other target, unless another command     *)
(* changed it meanwhile.                                                    *)
CommandsTakeEffect ==
    [][\A p \in Proc : pc[p] = "write" /\ pc'[p] = "done" /\ ~overlap[p] =>
            Effect(cmd[p], base[p], file')]_registryVars

(* write_registry: the file is unreadable only while somebody writes it, or *)
(* after a command was killed, could not write, or met another one.         *)
UnreadableHasACause ==
    file \in Unreadable =>
        broken \/ \E p \in Proc : pc[p] \in {"rewrite", "write"} \/ overlap[p]
=============================================================================
