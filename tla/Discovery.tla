------------------------------ MODULE Discovery -----------------------------
(***************************************************************************)
(* Discovery of daemons over UDP.  rsdb discover and rsdb agent discover   *)
(* start one task per destination (the broadcast address brings localhost  *)
(* with it); each task sends a probe from a socket of its own and reports  *)
(* the answers that arrive before its deadline over a channel to the       *)
(* collector.  rsdb connect and rsdb devices ask one address and take the  *)
(* first answer.  In the daemon one loop answers probes.                   *)
(*                                                                         *)
(* The network loses, delays, duplicates and reorders packets: a           *)
(* packet that was sent stays in net, and may arrive any number of times,  *)
(* at any later time, or never.                                            *)
(* Ports are used again by later rounds, so that answers to an earlier     *)
(* probe can reach a socket.  The nonce is the round: in the worst case    *)
(* the tasks of one round read the same time, those of two never.          *)
(***************************************************************************)
EXTENDS Naturals, FiniteSets, Sequences, Functions

CONSTANTS
    Dest,        \* destinations that are probed
    Daemon,
    Addr,        \* addresses daemons answer from
    Port,        \* local ports of the client's sockets
    Reach,       \* Reach[t]: <<daemon, address>> pairs a probe to t reaches
    NameOf,      \* device_name of a daemon
    MaxRounds,   \* bound: discoveries
    MaxRestarts, \* bound: restarts of daemons
    MaxStale     \* bound: packets of earlier rounds that are still on their way

ASSUME DiscoveryAssumption ==
    /\ IsFiniteSet(Dest) /\ IsFiniteSet(Daemon) /\ IsFiniteSet(Addr) /\ IsFiniteSet(Port)
    /\ Cardinality(Dest) <= Cardinality(Port)
    /\ Reach \in [Dest -> SUBSET (Daemon \X Addr)]
    /\ DOMAIN NameOf = Daemon
    /\ MaxRounds \in Nat /\ MaxRestarts \in Nat /\ MaxStale \in Nat

Server == {1, 2}     \* server ids a daemon is started with

Packet == [kind : {"probe", "reply"}, port : Port, nonce : 1 .. MaxRounds,
           dev : Daemon, addr : Addr, srv : Server \cup {0}]

(* A DiscoveredTarget, built from a reply and the address it came from. *)
Target(pkt) == [name |-> NameOf[pkt.dev], addr |-> pkt.addr, srv |-> pkt.srv]
Targets     == [name : {NameOf[d] : d \in Daemon}, addr : Addr, srv : Server]

(* What the collector and what a task know a target by. *)
Key(tg)     == <<tg.name, tg.addr>>
TaskKey(tg) == <<tg.srv, tg.addr>>
-----------------------------------------------------------------------------
VARIABLES
    round,     \* discoveries so far, and the nonce of the last
    phase,     \* "idle", "running", "ok" or "failed"
    single,    \* the round asks one address
    tpc,       \* tpc[t]: where the task for t is
    port,      \* port[t]: its socket
    seen,      \* seen[t]: keys it has reported
    chan,      \* the channel to the collector
    found,     \* the result: a target per key
    printed,   \* keys the callback was called with
    net,       \* packets that may still arrive
    dpc,       \* dpc[d]: the daemon's loop, "recv" or "stopped"
    srv,       \* srv[d]: its server id
    restarts,
    answered,  \* history: answers to this round's probes
    accepted   \* history: answers its tasks took

taskVars    == <<tpc, port, seen>>
resultVars  == <<found, printed>>
daemonVars  == <<dpc, srv, restarts>>
vars == <<round, phase, single, taskVars, chan, resultVars, net, daemonVars,
          answered, accepted>>

Init ==
    /\ round = 0 /\ phase = "idle" /\ single = FALSE
    /\ tpc = [t \in Dest |-> "off"]
    /\ port = CHOOSE f \in [Dest -> Port] : IsInjective(f)
    /\ seen = [t \in Dest |-> {}] /\ chan = << >> /\ found = {} /\ printed = << >>
    /\ net = {} /\ dpc = [d \in Daemon |-> "recv"] /\ srv = [d \in Daemon |-> 1]
    /\ restarts = 0 /\ answered = {} /\ accepted = {}
-----------------------------------------------------------------------------
(* A round starts: tasks for ts, with ports that are free.  Probes of the   *)
(* last round are forgotten: the answer to one would be an old answer that  *)
(* arrives late, like those already in net.                                 *)
Begin(ts, one) ==
    /\ phase # "running" /\ round < MaxRounds
    /\ round' = round + 1 /\ phase' = "running" /\ single' = one
    /\ tpc' = [t \in Dest |-> IF t \in ts THEN "start" ELSE "off"]
    /\ port' \in [Dest -> Port] /\ IsInjective(port')
    /\ seen' = [t \in Dest |-> {}] /\ chan' = << >> /\ found' = {} /\ printed' = << >>
    /\ net' \in {old \in SUBSET {pkt \in net : pkt.kind = "reply"} : Cardinality(old) <= MaxStale}
    /\ answered' = {} /\ accepted' = {}
    /\ UNCHANGED daemonVars

(* discover_targets_at_with_callback, discover_target_at. *)
Discover    == Begin(Dest, FALSE)
DiscoverOne == \E t \in Dest : Begin({t}, TRUE)

(* The task binds its socket and sends its probe. *)
SendProbe(t) ==
    /\ tpc[t] = "start"
    /\ tpc' = [tpc EXCEPT ![t] = "recv"]
    /\ net' = net \cup {[kind |-> "probe", port |-> port[t], nonce |-> round,
                         dev |-> r[1], addr |-> r[2], srv |-> 0] : r \in Reach[t]}
    /\ UNCHANGED <<round, phase, single, port, seen, chan, resultVars, daemonVars,
                   answered, accepted>>

(* bind, set_broadcast, send_to or recv_from fails. *)
SocketFails(t) ==
    /\ tpc[t] \in {"start", "recv"}
    /\ tpc' = [tpc EXCEPT ![t] = "error"]
    /\ UNCHANGED <<round, phase, single, port, seen, chan, resultVars, net, daemonVars,
                   answered, accepted>>

Arrives(t, pkt) ==
    tpc[t] = "recv" /\ pkt \in net /\ pkt.kind = "reply" /\ pkt.port = port[t]

(* Mutant: the nonce is not compared. *)
AcceptsAny(pkt) == TRUE

(* What answers another probe is skipped. *)
Accepts(pkt) == pkt.nonce = round

(* Something that does not decode arrives, and is skipped too. *)
ReceiveGarbage(t) == tpc[t] = "recv" /\ UNCHANGED vars

(* discover_targets_once receives a packet. *)
Receive(t, pkt) ==
    /\ ~single /\ Arrives(t, pkt)
    /\ IF Accepts(pkt) /\ TaskKey(Target(pkt)) \notin seen[t]
       THEN /\ seen' = [seen EXCEPT ![t] = @ \cup {TaskKey(Target(pkt))}]
            /\ chan' = Append(chan, Target(pkt))
            /\ accepted' = accepted \cup {Target(pkt)}
       ELSE UNCHANGED <<seen, chan, accepted>>
    /\ UNCHANGED <<round, phase, single, tpc, port, resultVars, net, daemonVars,
                   answered>>

(* discover_target_at receives a packet: the first answer is the result. *)
ReceiveOne(t, pkt) ==
    /\ single /\ Arrives(t, pkt)
    /\ IF Accepts(pkt)
       THEN /\ tpc' = [tpc EXCEPT ![t] = "ended"] /\ found' = {Target(pkt)}
            /\ accepted' = {Target(pkt)}
       ELSE UNCHANGED <<tpc, found, accepted>>
    /\ UNCHANGED <<round, phase, single, port, seen, chan, printed, net, daemonVars, answered>>

(* Mutant: the deadline is looked at between packets only. *)
DeadlineUnpolled(t) ==
    /\ tpc[t] = "recv" /\ \E pkt \in net : Arrives(t, pkt)
    /\ tpc' = [tpc EXCEPT ![t] = "ended"]
    /\ UNCHANGED <<round, phase, single, port, seen, chan, resultVars, net, daemonVars,
                   answered, accepted>>

(* The timeout around recv_from expires. *)
Deadline(t) ==
    /\ tpc[t] = "recv"
    /\ tpc' = [tpc EXCEPT ![t] = "ended"]
    /\ UNCHANGED <<round, phase, single, port, seen, chan, resultVars, net, daemonVars,
                   answered, accepted>>
-----------------------------------------------------------------------------
(* The collector.                                                           *)

(* Mutant: every target that arrives is printed. *)
TakeTargetPrints ==
    /\ phase = "running" /\ chan # << >>
    /\ LET tg == Head(chan) IN
         /\ found' = {f \in found : Key(f) # Key(tg)} \cup {tg}
         /\ printed' = Append(printed, Key(tg))
    /\ chan' = Tail(chan)
    /\ UNCHANGED <<round, phase, single, taskVars, net, daemonVars, answered, accepted>>

(* select: a target.  Its key decides whether it is new. *)
TakeTarget ==
    /\ phase = "running" /\ chan # << >>
    /\ LET tg == Head(chan) IN
         /\ found' = {f \in found : Key(f) # Key(tg)} \cup {tg}
         /\ printed' = IF \E f \in found : Key(f) = Key(tg) THEN printed
                       ELSE Append(printed, Key(tg))
    /\ chan' = Tail(chan)
    /\ UNCHANGED <<round, phase, single, taskVars, net, daemonVars, answered, accepted>>

(* select: a task has ended.  An error is returned at once; the other tasks *)
(* are aborted when the JoinSet is dropped.                                 *)
Join(t) ==
    /\ phase = "running" /\ ~single /\ tpc[t] \in {"ended", "error"}
    /\ IF tpc[t] = "error"
       THEN phase' = "failed" /\ tpc' = [u \in Dest |-> "off"]
       ELSE tpc' = [tpc EXCEPT ![t] = "joined"] /\ UNCHANGED phase
    /\ UNCHANGED <<round, single, port, seen, chan, resultVars, net, daemonVars,
                   answered, accepted>>

(* Mutant: the loop ends with the last task. *)
FinishAtJoin ==
    /\ phase = "running" /\ ~single /\ \A t \in Dest : tpc[t] = "joined"
    /\ phase' = "ok" /\ tpc' = [t \in Dest |-> "off"]
    /\ UNCHANGED <<round, single, port, seen, chan, resultVars, net, daemonVars,
                   answered, accepted>>

(* The channel is empty and closed, and all tasks are joined. *)
Finish ==
    /\ phase = "running" /\ ~single /\ chan = << >> /\ \A t \in Dest : tpc[t] = "joined"
    /\ phase' = "ok" /\ tpc' = [t \in Dest |-> "off"]
    /\ UNCHANGED <<round, single, port, seen, chan, resultVars, net, daemonVars,
                   answered, accepted>>

(* connect_command, probe_saved_target: no answer and an error are the same *)
(* to the callers of discover_target_at.                                    *)
FinishOne(t) ==
    /\ phase = "running" /\ single /\ tpc[t] \in {"ended", "error"}
    /\ phase' = "ok" /\ tpc' = [tpc EXCEPT ![t] = "off"]
    /\ UNCHANGED <<round, single, port, seen, chan, resultVars, net, daemonVars,
                   answered, accepted>>
-----------------------------------------------------------------------------
(* handle_discovery: a probe is answered to where it came from. *)
HandleDiscovery(d) ==
    \E pkt \in net :
      /\ dpc[d] = "recv" /\ pkt.kind = "probe" /\ pkt.dev = d
      /\ LET reply == [pkt EXCEPT !.kind = "reply", !.srv = srv[d]] IN
           /\ net' = net \cup {reply}
           /\ answered' = answered \cup {Target(reply)}
      /\ UNCHANGED <<round, phase, single, taskVars, chan, resultVars, daemonVars, accepted>>

(* An error of recv_from, of send_to or of the encoder ends the loop; the   *)
(* daemon goes on without discovery.                                        *)
DiscoveryStops(d) ==
    /\ dpc[d] = "recv"
    /\ dpc' = [dpc EXCEPT ![d] = "stopped"]
    /\ UNCHANGED <<round, phase, single, taskVars, chan, resultVars, net, srv, restarts,
                   answered, accepted>>

(* A daemon is started again, with another server id. *)
Restart(d) ==
    /\ restarts < MaxRestarts /\ restarts' = restarts + 1
    /\ dpc' = [dpc EXCEPT ![d] = "recv"]
    /\ srv' = [srv EXCEPT ![d] = 3 - @]
    /\ UNCHANGED <<round, phase, single, taskVars, chan, resultVars, net,
                   answered, accepted>>
-----------------------------------------------------------------------------
Task(t)   == \/ SendProbe(t) \/ SocketFails(t) \/ Deadline(t) \/ ReceiveGarbage(t)
             \/ \E pkt \in net : Receive(t, pkt) \/ ReceiveOne(t, pkt)
Collector == TakeTarget \/ Finish \/ \E t \in Dest : Join(t) \/ FinishOne(t)

Terminated == phase # "running" /\ round = MaxRounds /\ UNCHANGED vars

Next ==
    \/ Discover \/ DiscoverOne \/ Collector \/ Terminated
    \/ \E t \in Dest : Task(t)
    \/ \E d \in Daemon : HandleDiscovery(d) \/ DiscoveryStops(d) \/ Restart(d)

(* Tasks run and time passes; nothing is asked of network and daemons. *)
Fairness == /\ WF_vars(Collector)
            /\ \A t \in Dest : WF_vars(Deadline(t)) /\ WF_vars(SendProbe(t))

Spec == Init /\ [][Next]_vars /\ Fairness
-----------------------------------------------------------------------------
(* Type correctness; the result has one target per key. *)
TypeOK ==
    /\ round \in 0 .. MaxRounds /\ phase \in {"idle", "running", "ok", "failed"}
    /\ single \in BOOLEAN
    /\ tpc \in [Dest -> {"off", "start", "recv", "ended", "error", "joined"}]
    /\ port \in [Dest -> Port] /\ seen \in [Dest -> SUBSET (Server \X Addr)]
    /\ chan \in Seq(Targets) /\ found \subseteq Targets
    /\ \A f, g \in found : Key(f) = Key(g) => f = g
    /\ printed \in Seq({Key(tg) : tg \in Targets})
    /\ net \subseteq Packet
    /\ dpc \in [Daemon -> {"recv", "stopped"}] /\ srv \in [Daemon -> Server]
    /\ restarts \in 0 .. MaxRestarts
    /\ answered \subseteq Targets /\ accepted \subseteq Targets

(* No daemon is listed that did not answer during this discovery, although  *)
(* answers to earlier probes still arrive at a port that is used again.     *)
NoGhosts == found \subseteq answered

(* discover_targets_at_with_callback returns, under its key, every answer   *)
(* that a task received before its deadline: none is left in the channel    *)
(* when the last task is joined.                                            *)
NothingLost ==
    phase = "ok" => {Key(f) : f \in found} = {Key(a) : a \in accepted}

(* discover_command prints each name and address once, however often the    *)
(* answer comes, and prints exactly what is returned.  A daemon that        *)
(* answers from two addresses is printed once for each.                     *)
PrintedOnce ==
    /\ TypeOK
    /\ ~single => IsInjective(printed) /\ Range(printed) = {Key(f) : f \in found}

(* A discovery ends, whatever arrives or does not. *)
DiscoverEnds == phase = "running" ~> phase # "running"
=============================================================================
