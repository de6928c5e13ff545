---------------------------- MODULE TargetsProofs ---------------------------
(***************************************************************************)
(* Proofs about the two components through which the CLI knows its         *)
(* targets: Discovery, for any destinations, daemons, addresses and ports, *)
(* any topology and any number of rounds and restarts; and Registry, for   *)
(* any number of processes and kills, any commands, and any file, of any   *)
(* length, to start from.                                                  *)
(***************************************************************************)
EXTENDS Discovery, Registry, SequenceTheorems, FiniteSetTheorems, TLAPS

(***************************************************************************)
(* Discovery.                                                              *)
(***************************************************************************)
KeysOf(S) == {Key(f) : f \in S}

(* A packet on its way belongs to this round or to an earlier one, and an   *)
(* answer to this round's probe was given by a daemon in this round.        *)
NetOK ==
    \A pkt \in net :
        /\ pkt.nonce <= round
        /\ pkt.kind = "reply" => pkt.srv \in Server
        /\ pkt.kind = "reply" /\ pkt.nonce = round => Target(pkt) \in answered

(* An answer goes from the network to a task, the channel and the result. *)
TrailOK ==
    /\ accepted \subseteq answered
    /\ Range(chan) \subseteq accepted
    /\ found \subseteq accepted

(* Tasks exist while a discovery runs.  discover_target_at has no channel   *)
(* and no other result than the one answer it took.                         *)
TasksOK ==
    /\ \A t \in Dest : tpc[t] # "off" => round # 0
    /\ ~single /\ phase # "running" => \A t \in Dest : tpc[t] = "off"
    /\ single => chan = << >> /\ found = accepted

(* What was accepted is in the result or in the channel, under its key. *)
AccountOK ==
    /\ phase = "ok" => chan = << >>
    /\ ~single => KeysOf(accepted) = KeysOf(found) \cup KeysOf(Range(chan))

(* What was printed is what is in the result, once each. *)
PrintOK == ~single => IsInjective(printed) /\ Range(printed) = KeysOf(found)

(* The inductive invariant. *)
IInv == TypeOK /\ NetOK /\ TrailOK /\ TasksOK /\ AccountOK /\ PrintOK
-----------------------------------------------------------------------------
(* Replacing the entry of a key keeps the other keys. *)
LEMMA KeysReplaced ==
    ASSUME NEW F, NEW tg
    PROVE  KeysOf({f \in F : Key(f) # Key(tg)} \cup {tg}) = KeysOf(F) \cup {Key(tg)}
BY DEF KeysOf

(* There are enough ports for one socket per destination. *)
LEMMA PortsExist == \E f \in [Dest -> Port] : IsInjective(f)
<1>1. PICK m \in Nat : m = Cardinality(Dest) /\ ExistsBijection(1 .. m, Dest)
  BY DiscoveryAssumption, FS_CardinalityType
<1>2. PICK n \in Nat : n = Cardinality(Port) /\ ExistsBijection(1 .. n, Port)
  BY DiscoveryAssumption, FS_CardinalityType
<1>3. m <= n
  BY <1>1, <1>2, DiscoveryAssumption
<1>4. PICK g \in [1 .. m -> Dest] : \A t \in Dest : \E i \in 1 .. m : g[i] = t
  BY <1>1 DEF ExistsBijection, Bijection, Surjection
<1>5. PICK h \in [1 .. n -> Port] : IsInjective(h)
  BY <1>2 DEF ExistsBijection, Bijection, Injection
<1> DEFINE at(t) == CHOOSE i \in 1 .. m : g[i] = t
           f == [t \in Dest |-> h[at(t)]]
<1>6. \A t \in Dest : at(t) \in 1 .. m /\ g[at(t)] = t
  BY <1>4
<1>7. \A t \in Dest : at(t) \in 1 .. n
  BY <1>3, <1>6
<1>8. f \in [Dest -> Port]
  BY <1>7
<1>9. IsInjective(f)
  <2>1. SUFFICES ASSUME NEW a \in Dest, NEW b \in Dest, h[at(a)] = h[at(b)] PROVE a = b
    BY DEF IsInjective
  <2>2. at(a) = at(b)
    BY <1>5, <1>7, <2>1 DEF IsInjective
  <2>3. QED
    BY <1>6, <2>2
<1>10. QED
  BY <1>8, <1>9

(* The target made from an answer has its type. *)
LEMMA TargetType ==
    ASSUME NEW pkt \in Packet, pkt.srv \in Server
    PROVE  Target(pkt) \in Targets /\ TaskKey(Target(pkt)) \in Server \X Addr
BY DEF Packet, Target, Targets, TaskKey

(* What Append does to the range of a sequence and to its injectivity. *)
LEMMA RangeAppend ==
    ASSUME NEW S, NEW s \in Seq(S), NEW e \in S
    PROVE  /\ Append(s, e) \in Seq(S) /\ Range(Append(s, e)) = Range(s) \cup {e}
           /\ IsInjective(s) /\ e \notin Range(s) => IsInjective(Append(s, e))
<1>1. PICK u : u = Append(s, e)
  OBVIOUS
<1>2. PICK n \in Nat : n = Len(s)
  BY LenProperties
<1>3. /\ u \in Seq(S) /\ DOMAIN s = 1 .. n /\ DOMAIN u = 1 .. n + 1 /\ u[n + 1] = e
      /\ \A i \in 1 .. n : u[i] = s[i]
  BY <1>1, <1>2, AppendProperties, LenProperties
<1>4. \A i \in DOMAIN u : (i \in DOMAIN s /\ u[i] = s[i]) \/ (i = n + 1 /\ u[i] = e)
  BY <1>3
<1>5. (\A i \in DOMAIN s : i \in DOMAIN u /\ u[i] = s[i]) /\ n + 1 \in DOMAIN u
  BY <1>3
<1>6. Range(u) = Range(s) \cup {e}
  BY <1>3, <1>4, <1>5 DEF Range
<1>7. ASSUME IsInjective(s), e \notin Range(s) PROVE IsInjective(u)
  <2>1. SUFFICES ASSUME NEW a \in DOMAIN u, NEW b \in DOMAIN u, u[a] = u[b] PROVE a = b
    BY DEF IsInjective
  <2>2. \A i \in DOMAIN s : s[i] # e
    BY <1>7 DEF Range
  <2>3. QED
    BY <1>4, <1>7, <2>1, <2>2 DEF IsInjective
<1>8. QED
  BY <1>1, <1>3, <1>6, <1>7

(* What taking the head does to the range of a sequence. *)
LEMMA RangeTail ==
    ASSUME NEW S, NEW s \in Seq(S), s # << >>
    PROVE  /\ Head(s) \in S /\ Tail(s) \in Seq(S)
           /\ Range(s) = {Head(s)} \cup Range(Tail(s))
<1>1. PICK u : u = Tail(s)
  OBVIOUS
<1>2. PICK n \in Nat : n = Len(s) /\ n >= 1
  BY LenProperties, EmptySeq
<1>3. /\ u \in Seq(S) /\ DOMAIN s = 1 .. n /\ DOMAIN u = 1 .. n - 1 /\ Head(s) = s[1]
      /\ \A i \in 1 .. n - 1 : u[i] = s[i + 1]
  BY <1>1, <1>2, HeadTailProperties, LenProperties
<1>4. \A i \in DOMAIN s : i = 1 \/ (i - 1 \in DOMAIN u /\ u[i - 1] = s[i])
  BY <1>3
<1>5. (\A i \in DOMAIN u : i + 1 \in DOMAIN s /\ u[i] = s[i + 1]) /\ 1 \in DOMAIN s
  BY <1>2, <1>3
<1>6. Range(s) = {s[1]} \cup Range(u)
  BY <1>4, <1>5 DEF Range
<1>7. QED
  BY <1>1, <1>3, <1>6, HeadTailProperties

(* Nothing is in the empty sequence. *)
LEMMA RangeEmpty == Range(<< >>) = {} /\ KeysOf({}) = {} /\ IsInjective(<< >>)
BY EmptySeq DEF Range, KeysOf, IsInjective

(* Every step keeps the types. *)
LEMMA TypesStep ==
    ASSUME TypeOK, NetOK, TasksOK, [Next]_vars
    PROVE  TypeOK'
<1>1. ASSUME NEW ts \in SUBSET Dest, NEW one \in BOOLEAN, Begin(ts, one) PROVE TypeOK'
  <2>1. /\ round' \in 0 .. MaxRounds /\ phase' = "running" /\ single' \in BOOLEAN
        /\ port' \in [Dest -> Port] /\ net' \subseteq net
    BY <1>1, DiscoveryAssumption DEF Begin, TypeOK
  <2>2. /\ tpc' \in [Dest -> {"off", "start", "recv", "ended", "error", "joined"}]
        /\ seen' \in [Dest -> SUBSET (Server \X Addr)]
    BY <1>1 DEF Begin
  <2>3. chan' = << >> /\ printed' = << >> /\ found' = {} /\ answered' = {} /\ accepted' = {}
    BY <1>1 DEF Begin
  <2>4. UNCHANGED <<dpc, srv, restarts>>
    BY <1>1 DEF Begin, daemonVars
  <2>5. chan' \in Seq(Targets) /\ printed' \in Seq({Key(tg) : tg \in Targets})
    BY <2>3, EmptySeq
  <2>6. QED
    BY <2>1, <2>2, <2>3, <2>4, <2>5 DEF TypeOK
<1>2. ASSUME NEW t \in Dest, SendProbe(t) PROVE TypeOK'
  <2>1. tpc[t] = "start" /\ tpc' = [tpc EXCEPT ![t] = "recv"]
    BY <1>2 DEF SendProbe
  <2>2. round \in 1 .. MaxRounds
    BY <2>1, DiscoveryAssumption DEF TypeOK, TasksOK
  <2>3. net' \subseteq Packet
    <3>1. ASSUME NEW r \in Reach[t]
          PROVE  [kind |-> "probe", port |-> port[t], nonce |-> round,
                  dev |-> r[1], addr |-> r[2], srv |-> 0] \in Packet
      <4>1. r \in Daemon \X Addr
        BY <3>1, DiscoveryAssumption
      <4>2. port[t] \in Port
        BY DEF TypeOK
      <4>3. QED
        BY <2>2, <4>1, <4>2 DEF Packet
    <3>2. QED
      BY <1>2, <3>1 DEF SendProbe, TypeOK
  <2>4. tpc' \in [Dest -> {"off", "start", "recv", "ended", "error", "joined"}]
    BY <2>1 DEF TypeOK
  <2>5. UNCHANGED <<round, phase, single, port, seen, chan, found, printed, dpc, srv, restarts,
                    answered, accepted>>
    BY <1>2 DEF SendProbe, resultVars, daemonVars
  <2>6. QED
    BY <2>3, <2>4, <2>5 DEF TypeOK
<1>3. ASSUME NEW t \in Dest, SocketFails(t) PROVE TypeOK'
  BY <1>3 DEF SocketFails, resultVars, daemonVars, TypeOK
<1>4. ASSUME NEW t \in Dest, Deadline(t) PROVE TypeOK'
  BY <1>4 DEF Deadline, resultVars, daemonVars, TypeOK
<1>5. ASSUME NEW t \in Dest, NEW pkt \in net, Receive(t, pkt) PROVE TypeOK'
  <2>1. pkt \in Packet /\ pkt.srv \in Server
    BY <1>5 DEF Receive, Arrives, TypeOK, NetOK
  <2>2. Target(pkt) \in Targets /\ TaskKey(Target(pkt)) \in Server \X Addr
    BY <2>1, TargetType
  <2>3. seen' \in [Dest -> SUBSET (Server \X Addr)]
    BY <1>5, <2>2 DEF Receive, TypeOK
  <2>4. chan' \in Seq(Targets)
    <3>1. chan \in Seq(Targets)
      BY DEF TypeOK
    <3>2. Append(chan, Target(pkt)) \in Seq(Targets)
      BY <2>2, <3>1, RangeAppend
    <3>3. chan' = chan \/ chan' = Append(chan, Target(pkt))
      BY <1>5 DEF Receive
    <3>4. QED
      BY <3>1, <3>2, <3>3
  <2>5. accepted' \subseteq Targets
    BY <1>5, <2>2 DEF Receive, TypeOK
  <2>6. UNCHANGED <<round, phase, single, tpc, port, found, printed, net, dpc, srv, restarts,
                    answered>>
    BY <1>5 DEF Receive, resultVars, daemonVars
  <2>7. QED
    BY <2>3, <2>4, <2>5, <2>6 DEF TypeOK
<1>6. ASSUME NEW t \in Dest, NEW pkt \in net, ReceiveOne(t, pkt) PROVE TypeOK'
  <2>1. pkt \in Packet /\ pkt.srv \in Server
    BY <1>6 DEF ReceiveOne, Arrives, TypeOK, NetOK
  <2>2. Target(pkt) \in Targets
    BY <2>1, TargetType
  <2>3. tpc' \in [Dest -> {"off", "start", "recv", "ended", "error", "joined"}]
    BY <1>6 DEF ReceiveOne, TypeOK
  <2>4. /\ found' \subseteq Targets /\ accepted' \subseteq Targets
        /\ \A f, g \in found' : Key(f) = Key(g) => f = g
    BY <1>6, <2>2 DEF ReceiveOne, TypeOK
  <2>5. UNCHANGED <<round, phase, single, port, seen, chan, printed, net, dpc, srv, restarts,
                    answered>>
    BY <1>6 DEF ReceiveOne, daemonVars
  <2>6. QED
    BY <2>3, <2>4, <2>5 DEF TypeOK
<1>7. CASE TakeTarget
  BY <1>7 DEF TakeTarget, taskVars, daemonVars, TypeOK
<1>8. ASSUME NEW t \in Dest, Join(t) PROVE TypeOK'
  BY <1>8 DEF Join, resultVars, daemonVars, TypeOK
<1>9. CASE Finish
  BY <1>9 DEF Finish, resultVars, daemonVars, TypeOK
<1>10. ASSUME NEW t \in Dest, FinishOne(t) PROVE TypeOK'
  BY <1>10 DEF FinishOne, resultVars, daemonVars, TypeOK
<1>11. ASSUME NEW d \in Daemon, HandleDiscovery(d) PROVE TypeOK'
  <2>1. PICK pkt \in net :
            /\ net' = net \cup {[pkt EXCEPT !.kind = "reply", !.srv = srv[d]]}
            /\ answered' = answered \cup {Target([pkt EXCEPT !.kind = "reply", !.srv = srv[d]])}
    BY <1>11 DEF HandleDiscovery
  <2>2. pkt \in Packet /\ srv[d] \in Server
    BY DEF TypeOK
  <2>3. PICK reply : reply = [pkt EXCEPT !.kind = "reply", !.srv = srv[d]]
    OBVIOUS
  <2>4. reply \in Packet /\ reply.srv \in Server
    BY <2>2, <2>3 DEF Packet
  <2>5. Target(reply) \in Targets
    BY <2>4, TargetType
  <2>6. net' \subseteq Packet /\ answered' \subseteq Targets
    BY <2>1, <2>3, <2>4, <2>5 DEF TypeOK
  <2>7. UNCHANGED <<round, phase, single, tpc, port, seen, chan, found, printed, dpc, srv, restarts,
                    accepted>>
    BY <1>11 DEF HandleDiscovery, taskVars, resultVars, daemonVars
  <2>8. QED
    BY <2>6, <2>7 DEF TypeOK
<1>12. ASSUME NEW d \in Daemon, DiscoveryStops(d) PROVE TypeOK'
  BY <1>12 DEF DiscoveryStops, taskVars, resultVars, TypeOK
<1>13. ASSUME NEW d \in Daemon, Restart(d) PROVE TypeOK'
  <2>1. /\ restarts' \in 0 .. MaxRestarts /\ dpc' \in [Daemon -> {"recv", "stopped"}]
        /\ srv' \in [Daemon -> Server]
    <3>1. restarts' \in 0 .. MaxRestarts
      BY <1>13, DiscoveryAssumption DEF Restart, TypeOK
    <3>2. dpc' \in [Daemon -> {"recv", "stopped"}]
      BY <1>13 DEF Restart, TypeOK
    <3>3. 3 - srv[d] \in Server
      BY DEF TypeOK, Server
    <3>4. QED
      BY <1>13, <3>1, <3>2, <3>3 DEF Restart, TypeOK
  <2>2. UNCHANGED <<round, phase, single, tpc, port, seen, chan, found, printed, net, answered,
                    accepted>>
    BY <1>13 DEF Restart, taskVars, resultVars
  <2>3. QED
    BY <2>1, <2>2 DEF TypeOK
<1>14. CASE UNCHANGED vars
  BY <1>14 DEF vars, taskVars, resultVars, daemonVars, TypeOK
<1>15. QED
  BY <1>1, <1>2, <1>3, <1>4, <1>5, <1>6, <1>7, <1>8, <1>9, <1>10, <1>11, <1>12, <1>13, <1>14
     DEF Next, Discover, DiscoverOne, Task, Collector, ReceiveGarbage, Terminated

(* What is on its way. *)
LEMMA NetStep ==
    ASSUME TypeOK, NetOK, [Next]_vars
    PROVE  NetOK'
<1>1. ASSUME NEW ts \in SUBSET Dest, NEW one \in BOOLEAN, Begin(ts, one) PROVE NetOK'
  <2>1. net' \subseteq net /\ round' = round + 1
    BY <1>1 DEF Begin
  <2>2. \A p \in net : p.nonce \in Nat /\ round \in Nat
    BY DiscoveryAssumption DEF TypeOK, Packet
  <2>3. \A p \in net' : p.nonce <= round' /\ p.nonce # round'
    BY <2>1, <2>2 DEF NetOK
  <2>4. QED
    BY <2>1, <2>3 DEF NetOK
<1>2. ASSUME NEW t \in Dest, SendProbe(t) PROVE NetOK'
  <2>1. UNCHANGED <<round, answered>> /\ round \in Nat
    BY <1>2 DEF SendProbe, TypeOK
  <2>2. \A p \in net' : p \in net \/ (p.kind = "probe" /\ p.nonce = round)
    BY <1>2 DEF SendProbe
  <2>3. QED
    BY <2>1, <2>2 DEF NetOK
<1>3. ASSUME NEW t \in Dest, SocketFails(t) PROVE NetOK'
  BY <1>3 DEF SocketFails, resultVars, daemonVars, NetOK
<1>4. ASSUME NEW t \in Dest, Deadline(t) PROVE NetOK'
  BY <1>4 DEF Deadline, resultVars, daemonVars, NetOK
<1>5. ASSUME NEW t \in Dest, NEW pkt \in net, Receive(t, pkt) PROVE NetOK'
  BY <1>5 DEF Receive, resultVars, daemonVars, NetOK
<1>6. ASSUME NEW t \in Dest, NEW pkt \in net, ReceiveOne(t, pkt) PROVE NetOK'
  BY <1>6 DEF ReceiveOne, daemonVars, NetOK
<1>7. CASE TakeTarget
  BY <1>7 DEF TakeTarget, taskVars, daemonVars, NetOK
<1>8. ASSUME NEW t \in Dest, Join(t) PROVE NetOK'
  BY <1>8 DEF Join, resultVars, daemonVars, NetOK
<1>9. CASE Finish
  BY <1>9 DEF Finish, resultVars, daemonVars, NetOK
<1>10. ASSUME NEW t \in Dest, FinishOne(t) PROVE NetOK'
  BY <1>10 DEF FinishOne, resultVars, daemonVars, NetOK
<1>11. ASSUME NEW d \in Daemon, HandleDiscovery(d) PROVE NetOK'
  <2>1. PICK pkt \in net :
            /\ net' = net \cup {[pkt EXCEPT !.kind = "reply", !.srv = srv[d]]}
            /\ answered' = answered \cup {Target([pkt EXCEPT !.kind = "reply", !.srv = srv[d]])}
    BY <1>11 DEF HandleDiscovery
  <2>2. pkt \in Packet /\ srv[d] \in Server
    BY DEF TypeOK
  <2>3. PICK reply : reply = [pkt EXCEPT !.kind = "reply", !.srv = srv[d]]
    OBVIOUS
  <2>4. reply.srv \in Server /\ reply.nonce = pkt.nonce
    BY <2>2, <2>3 DEF Packet
  <2>5. round' = round
    BY <1>11 DEF HandleDiscovery
  <2>6. QED
    BY <2>1, <2>3, <2>4, <2>5 DEF NetOK
<1>12. ASSUME NEW d \in Daemon, DiscoveryStops(d) PROVE NetOK'
  BY <1>12 DEF DiscoveryStops, taskVars, resultVars, NetOK
<1>13. ASSUME NEW d \in Daemon, Restart(d) PROVE NetOK'
  BY <1>13 DEF Restart, taskVars, resultVars, NetOK
<1>14. CASE UNCHANGED vars
  BY <1>14 DEF vars, taskVars, resultVars, daemonVars, NetOK
<1>15. QED
  BY <1>1, <1>2, <1>3, <1>4, <1>5, <1>6, <1>7, <1>8, <1>9, <1>10, <1>11, <1>12, <1>13, <1>14
     DEF Next, Discover, DiscoverOne, Task, Collector, ReceiveGarbage, Terminated

(* Where answers have got to. *)
LEMMA TrailStep ==
    ASSUME TypeOK, NetOK, TasksOK, TrailOK, [Next]_vars
    PROVE  TrailOK'
<1>1. ASSUME NEW ts \in SUBSET Dest, NEW one \in BOOLEAN, Begin(ts, one) PROVE TrailOK'
  BY <1>1, RangeEmpty DEF Begin, TrailOK
<1>2. ASSUME NEW t \in Dest, SendProbe(t) PROVE TrailOK'
  BY <1>2 DEF SendProbe, resultVars, daemonVars, TrailOK
<1>3. ASSUME NEW t \in Dest, SocketFails(t) PROVE TrailOK'
  BY <1>3 DEF SocketFails, resultVars, daemonVars, TrailOK
<1>4. ASSUME NEW t \in Dest, Deadline(t) PROVE TrailOK'
  BY <1>4 DEF Deadline, resultVars, daemonVars, TrailOK
<1>5. ASSUME NEW t \in Dest, NEW pkt \in net, Receive(t, pkt) PROVE TrailOK'
  <2>1. UNCHANGED <<answered, found>>
    BY <1>5 DEF Receive, resultVars
  <2>2. CASE UNCHANGED <<chan, accepted>>
    BY <2>1, <2>2 DEF TrailOK
  <2>3. CASE /\ Accepts(pkt) /\ chan' = Append(chan, Target(pkt))
             /\ accepted' = accepted \cup {Target(pkt)}
    <3>1. pkt \in Packet /\ pkt.srv \in Server /\ Target(pkt) \in answered
      BY <1>5, <2>3 DEF Receive, Arrives, Accepts, TypeOK, NetOK
    <3>2. Target(pkt) \in Targets
      BY <3>1, TargetType
    <3>3. chan \in Seq(Targets)
      BY DEF TypeOK
    <3>4. Range(chan') = Range(chan) \cup {Target(pkt)}
      BY <2>3, <3>2, <3>3, RangeAppend
    <3>5. QED
      BY <2>1, <2>3, <3>1, <3>4 DEF TrailOK
  <2>4. QED
    BY <1>5, <2>2, <2>3 DEF Receive
<1>6. ASSUME NEW t \in Dest, NEW pkt \in net, ReceiveOne(t, pkt) PROVE TrailOK'
  <2>1. UNCHANGED <<answered, chan>> /\ single
    BY <1>6 DEF ReceiveOne
  <2>2. CASE UNCHANGED <<found, accepted>>
    BY <2>1, <2>2 DEF TrailOK
  <2>3. CASE Accepts(pkt) /\ found' = {Target(pkt)} /\ accepted' = {Target(pkt)}
    <3>1. Target(pkt) \in answered
      BY <1>6, <2>3 DEF ReceiveOne, Arrives, Accepts, NetOK
    <3>2. Range(chan') = {}
      BY <2>1, RangeEmpty DEF TasksOK
    <3>3. QED
      BY <2>1, <2>3, <3>1, <3>2 DEF TrailOK
  <2>4. QED
    BY <1>6, <2>2, <2>3 DEF ReceiveOne
<1>7. CASE TakeTarget
  <2>1. /\ chan # << >> /\ chan \in Seq(Targets) /\ chan' = Tail(chan)
        /\ found' = {f \in found : Key(f) # Key(Head(chan))} \cup {Head(chan)}
        /\ UNCHANGED <<answered, accepted>>
    BY <1>7 DEF TakeTarget, TypeOK
  <2>2. Range(chan) = {Head(chan)} \cup Range(chan')
    BY <2>1, RangeTail
  <2>3. QED
    BY <2>1, <2>2 DEF TrailOK
<1>8. ASSUME NEW t \in Dest, Join(t) PROVE TrailOK'
  BY <1>8 DEF Join, resultVars, daemonVars, TrailOK
<1>9. CASE Finish
  BY <1>9 DEF Finish, resultVars, daemonVars, TrailOK
<1>10. ASSUME NEW t \in Dest, FinishOne(t) PROVE TrailOK'
  BY <1>10 DEF FinishOne, resultVars, daemonVars, TrailOK
<1>11. ASSUME NEW d \in Daemon, HandleDiscovery(d) PROVE TrailOK'
  BY <1>11 DEF HandleDiscovery, taskVars, resultVars, daemonVars, TrailOK
<1>12. ASSUME NEW d \in Daemon, DiscoveryStops(d) PROVE TrailOK'
  BY <1>12 DEF DiscoveryStops, taskVars, resultVars, TrailOK
<1>13. ASSUME NEW d \in Daemon, Restart(d) PROVE TrailOK'
  BY <1>13 DEF Restart, taskVars, resultVars, TrailOK
<1>14. CASE UNCHANGED vars
  BY <1>14 DEF vars, taskVars, resultVars, daemonVars, TrailOK
<1>15. QED
  BY <1>1, <1>2, <1>3, <1>4, <1>5, <1>6, <1>7, <1>8, <1>9, <1>10, <1>11, <1>12, <1>13, <1>14
     DEF Next, Discover, DiscoverOne, Task, Collector, ReceiveGarbage, Terminated

(* Tasks of a discovery. *)
LEMMA TasksStep ==
    ASSUME TypeOK, TasksOK, [Next]_vars
    PROVE  TasksOK'
<1>1. ASSUME NEW ts \in SUBSET Dest, NEW one \in BOOLEAN, Begin(ts, one) PROVE TasksOK'
  <2>1. round' # 0
    BY <1>1 DEF Begin, TypeOK
  <2>2. QED
    BY <1>1, <2>1 DEF Begin, TasksOK
<1>2. ASSUME NEW t \in Dest, SendProbe(t) PROVE TasksOK'
  BY <1>2 DEF SendProbe, resultVars, daemonVars, TasksOK
<1>3. ASSUME NEW t \in Dest, SocketFails(t) PROVE TasksOK'
  BY <1>3 DEF SocketFails, resultVars, daemonVars, TasksOK
<1>4. ASSUME NEW t \in Dest, Deadline(t) PROVE TasksOK'
  BY <1>4 DEF Deadline, resultVars, daemonVars, TasksOK
<1>5. ASSUME NEW t \in Dest, NEW pkt \in net, Receive(t, pkt) PROVE TasksOK'
  BY <1>5 DEF Receive, resultVars, daemonVars, Arrives, TypeOK, TasksOK
<1>6. ASSUME NEW t \in Dest, NEW pkt \in net, ReceiveOne(t, pkt) PROVE TasksOK'
  BY <1>6 DEF ReceiveOne, daemonVars, Arrives, TypeOK, TasksOK
<1>7. CASE TakeTarget
  BY <1>7 DEF TakeTarget, taskVars, daemonVars, TasksOK
<1>8. ASSUME NEW t \in Dest, Join(t) PROVE TasksOK'
  BY <1>8 DEF Join, resultVars, daemonVars, TypeOK, TasksOK
<1>9. CASE Finish
  BY <1>9 DEF Finish, resultVars, daemonVars, TasksOK
<1>10. ASSUME NEW t \in Dest, FinishOne(t) PROVE TasksOK'
  BY <1>10 DEF FinishOne, resultVars, daemonVars, TasksOK
<1>11. ASSUME NEW d \in Daemon, HandleDiscovery(d) PROVE TasksOK'
  BY <1>11 DEF HandleDiscovery, taskVars, resultVars, daemonVars, TasksOK
<1>12. ASSUME NEW d \in Daemon, DiscoveryStops(d) PROVE TasksOK'
  BY <1>12 DEF DiscoveryStops, taskVars, resultVars, TasksOK
<1>13. ASSUME NEW d \in Daemon, Restart(d) PROVE TasksOK'
  BY <1>13 DEF Restart, taskVars, resultVars, TasksOK
<1>14. CASE UNCHANGED vars
  BY <1>14 DEF vars, taskVars, resultVars, daemonVars, TasksOK
<1>15. QED
  BY <1>1, <1>2, <1>3, <1>4, <1>5, <1>6, <1>7, <1>8, <1>9, <1>10, <1>11, <1>12, <1>13, <1>14
     DEF Next, Discover, DiscoverOne, Task, Collector, ReceiveGarbage, Terminated

(* No answer is lost. *)
LEMMA AccountStep ==
    ASSUME TypeOK, NetOK, TasksOK, AccountOK, [Next]_vars
    PROVE  AccountOK'
<1>1. ASSUME NEW ts \in SUBSET Dest, NEW one \in BOOLEAN, Begin(ts, one) PROVE AccountOK'
  <2>1. chan' = << >> /\ found' = {} /\ accepted' = {}
    BY <1>1 DEF Begin
  <2>2. QED
    BY <2>1, RangeEmpty DEF AccountOK
<1>2. ASSUME NEW t \in Dest, SendProbe(t) PROVE AccountOK'
  BY <1>2 DEF SendProbe, resultVars, daemonVars, AccountOK
<1>3. ASSUME NEW t \in Dest, SocketFails(t) PROVE AccountOK'
  BY <1>3 DEF SocketFails, resultVars, daemonVars, AccountOK
<1>4. ASSUME NEW t \in Dest, Deadline(t) PROVE AccountOK'
  BY <1>4 DEF Deadline, resultVars, daemonVars, AccountOK
<1>5. ASSUME NEW t \in Dest, NEW pkt \in net, Receive(t, pkt) PROVE AccountOK'
  <2>1. ~single /\ UNCHANGED <<phase, single, found>> /\ phase = "running"
    BY <1>5 DEF Receive, Arrives, resultVars, TasksOK
  <2>2. CASE UNCHANGED <<chan, accepted>>
    BY <2>1, <2>2 DEF AccountOK
  <2>3. CASE chan' = Append(chan, Target(pkt)) /\ accepted' = accepted \cup {Target(pkt)}
    <3>1. pkt \in Packet /\ pkt.srv \in Server
      BY <1>5 DEF Receive, Arrives, TypeOK, NetOK
    <3>2. Target(pkt) \in Targets
      BY <3>1, TargetType
    <3>3. chan \in Seq(Targets)
      BY DEF TypeOK
    <3>4. Range(chan') = Range(chan) \cup {Target(pkt)}
      BY <2>3, <3>2, <3>3, RangeAppend
    <3>5. KeysOf(Range(chan')) = KeysOf(Range(chan)) \cup {Key(Target(pkt))}
      BY <3>4 DEF KeysOf
    <3>6. KeysOf(accepted') = KeysOf(accepted) \cup {Key(Target(pkt))}
      BY <2>3 DEF KeysOf
    <3>7. QED
      BY <2>1, <3>5, <3>6 DEF AccountOK
  <2>4. QED
    BY <1>5, <2>2, <2>3 DEF Receive
<1>6. ASSUME NEW t \in Dest, NEW pkt \in net, ReceiveOne(t, pkt) PROVE AccountOK'
  BY <1>6 DEF ReceiveOne, AccountOK
<1>7. CASE TakeTarget
  <2>1. PICK tg : tg = Head(chan)
    OBVIOUS
  <2>2. /\ chan # << >> /\ chan \in Seq(Targets) /\ chan' = Tail(chan)
        /\ found' = {f \in found : Key(f) # Key(tg)} \cup {tg}
        /\ UNCHANGED <<accepted, phase, single>> /\ phase = "running"
    BY <1>7, <2>1 DEF TakeTarget, TypeOK
  <2>3. Range(chan) = {tg} \cup Range(chan')
    BY <2>1, <2>2, RangeTail
  <2>4. KeysOf(Range(chan)) = {Key(tg)} \cup KeysOf(Range(chan'))
    BY <2>3 DEF KeysOf
  <2>5. KeysOf(found') = KeysOf(found) \cup {Key(tg)}
    BY <2>2, KeysReplaced
  <2>6. QED
    BY <2>2, <2>4, <2>5 DEF AccountOK
<1>8. ASSUME NEW t \in Dest, Join(t) PROVE AccountOK'
  BY <1>8 DEF Join, resultVars, daemonVars, AccountOK
<1>9. CASE Finish
  BY <1>9 DEF Finish, resultVars, daemonVars, AccountOK
<1>10. ASSUME NEW t \in Dest, FinishOne(t) PROVE AccountOK'
  BY <1>10 DEF FinishOne, resultVars, daemonVars, TasksOK, AccountOK
<1>11. ASSUME NEW d \in Daemon, HandleDiscovery(d) PROVE AccountOK'
  BY <1>11 DEF HandleDiscovery, taskVars, resultVars, daemonVars, AccountOK
<1>12. ASSUME NEW d \in Daemon, DiscoveryStops(d) PROVE AccountOK'
  BY <1>12 DEF DiscoveryStops, taskVars, resultVars, AccountOK
<1>13. ASSUME NEW d \in Daemon, Restart(d) PROVE AccountOK'
  BY <1>13 DEF Restart, taskVars, resultVars, AccountOK
<1>14. CASE UNCHANGED vars
  BY <1>14 DEF vars, taskVars, resultVars, daemonVars, AccountOK
<1>15. QED
  BY <1>1, <1>2, <1>3, <1>4, <1>5, <1>6, <1>7, <1>8, <1>9, <1>10, <1>11, <1>12, <1>13, <1>14
     DEF Next, Discover, DiscoverOne, Task, Collector, ReceiveGarbage, Terminated

(* What is printed. *)
LEMMA PrintStep ==
    ASSUME TypeOK, TasksOK, PrintOK, [Next]_vars
    PROVE  PrintOK'
<1>1. ASSUME NEW ts \in SUBSET Dest, NEW one \in BOOLEAN, Begin(ts, one) PROVE PrintOK'
  <2>1. printed' = << >> /\ found' = {}
    BY <1>1 DEF Begin
  <2>2. QED
    BY <2>1, RangeEmpty DEF PrintOK
<1>2. ASSUME NEW t \in Dest, SendProbe(t) PROVE PrintOK'
  BY <1>2 DEF SendProbe, resultVars, daemonVars, PrintOK
<1>3. ASSUME NEW t \in Dest, SocketFails(t) PROVE PrintOK'
  BY <1>3 DEF SocketFails, resultVars, daemonVars, PrintOK
<1>4. ASSUME NEW t \in Dest, Deadline(t) PROVE PrintOK'
  BY <1>4 DEF Deadline, resultVars, daemonVars, PrintOK
<1>5. ASSUME NEW t \in Dest, NEW pkt \in net, Receive(t, pkt) PROVE PrintOK'
  BY <1>5 DEF Receive, resultVars, daemonVars, PrintOK
<1>6. ASSUME NEW t \in Dest, NEW pkt \in net, ReceiveOne(t, pkt) PROVE PrintOK'
  BY <1>6 DEF ReceiveOne, daemonVars, PrintOK
<1>7. CASE TakeTarget
  <2>1. PICK tg : tg = Head(chan)
    OBVIOUS
  <2>2. /\ chan # << >> /\ chan \in Seq(Targets) /\ UNCHANGED single
        /\ found' = {f \in found : Key(f) # Key(tg)} \cup {tg}
        /\ printed' = IF \E f \in found : Key(f) = Key(tg) THEN printed
                      ELSE Append(printed, Key(tg))
    BY <1>7, <2>1 DEF TakeTarget, TypeOK
  <2>3. tg \in Targets /\ ~single
    BY <2>1, <2>2, RangeTail DEF TasksOK
  <2>4. KeysOf(found') = KeysOf(found) \cup {Key(tg)}
    BY <2>2, KeysReplaced
  <2>5. CASE Key(tg) \in KeysOf(found)
    <3>1. printed' = printed
      BY <2>2, <2>5 DEF KeysOf
    <3>2. QED
      BY <2>2, <2>4, <2>5, <3>1 DEF PrintOK
  <2>6. CASE Key(tg) \notin KeysOf(found)
    <3>1. printed' = Append(printed, Key(tg))
      BY <2>2, <2>6 DEF KeysOf
    <3>2. PICK k \in {Key(g) : g \in Targets} : k = Key(tg)
      BY <2>3
    <3>3. printed \in Seq({Key(g) : g \in Targets})
      BY DEF TypeOK
    <3>4. /\ Range(printed') = Range(printed) \cup {Key(tg)}
          /\ IsInjective(printed) /\ Key(tg) \notin Range(printed) => IsInjective(printed')
      BY <3>1, <3>2, <3>3, RangeAppend
    <3>5. QED
      BY <2>2, <2>3, <2>4, <2>6, <3>4 DEF PrintOK
  <2>7. QED
    BY <2>5, <2>6
<1>8. ASSUME NEW t \in Dest, Join(t) PROVE PrintOK'
  BY <1>8 DEF Join, resultVars, daemonVars, PrintOK
<1>9. CASE Finish
  BY <1>9 DEF Finish, resultVars, daemonVars, PrintOK
<1>10. ASSUME NEW t \in Dest, FinishOne(t) PROVE PrintOK'
  BY <1>10 DEF FinishOne, resultVars, daemonVars, PrintOK
<1>11. ASSUME NEW d \in Daemon, HandleDiscovery(d) PROVE PrintOK'
  BY <1>11 DEF HandleDiscovery, taskVars, resultVars, daemonVars, PrintOK
<1>12. ASSUME NEW d \in Daemon, DiscoveryStops(d) PROVE PrintOK'
  BY <1>12 DEF DiscoveryStops, taskVars, resultVars, PrintOK
<1>13. ASSUME NEW d \in Daemon, Restart(d) PROVE PrintOK'
  BY <1>13 DEF Restart, taskVars, resultVars, PrintOK
<1>14. CASE UNCHANGED vars
  BY <1>14 DEF vars, taskVars, resultVars, daemonVars, PrintOK
<1>15. QED
  BY <1>1, <1>2, <1>3, <1>4, <1>5, <1>6, <1>7, <1>8, <1>9, <1>10, <1>11, <1>12, <1>13, <1>14
     DEF Next, Discover, DiscoverOne, Task, Collector, ReceiveGarbage, Terminated

(* The invariant holds at the start ... *)
LEMMA InitInv == Init => IInv
<1> SUFFICES ASSUME Init PROVE IInv
  OBVIOUS
<1>1. port \in [Dest -> Port]
  BY PortsExist DEF Init
<1>2. single \in BOOLEAN
  BY DEF Init
<1>3. tpc \in [Dest -> {"off", "start", "recv", "ended", "error", "joined"}]
  BY DEF Init
<1>4. seen \in [Dest -> SUBSET (Server \X Addr)] /\ srv \in [Daemon -> Server]
  BY DEF Init, Server
<1>5. dpc \in [Daemon -> {"recv", "stopped"}]
  BY DEF Init
<1>6. chan = << >> /\ printed = << >> /\ found = {} /\ net = {} /\ answered = {} /\ accepted = {}
  BY DEF Init
<1>7. round = 0 /\ restarts = 0 /\ phase = "idle"
  BY DEF Init
<1>8. round \in 0 .. MaxRounds /\ restarts \in 0 .. MaxRestarts
  BY <1>7, DiscoveryAssumption
<1>9. chan \in Seq(Targets) /\ printed \in Seq({Key(tg) : tg \in Targets})
  BY <1>6, EmptySeq
<1>10. TypeOK
  BY <1>1, <1>2, <1>3, <1>4, <1>5, <1>6, <1>7, <1>8, <1>9 DEF TypeOK
<1>11. NetOK /\ TrailOK
  BY <1>6, RangeEmpty DEF NetOK, TrailOK
<1>12. TasksOK
  BY <1>6, <1>7 DEF Init, TasksOK
<1>13. AccountOK /\ PrintOK
  BY <1>6, <1>7, RangeEmpty DEF AccountOK, PrintOK
<1>14. QED
  BY <1>10, <1>11, <1>12, <1>13 DEF IInv

(* ... and every step keeps it. *)
LEMMA NextInv == IInv /\ [Next]_vars => IInv'
BY TypesStep, NetStep, TrailStep, TasksStep, AccountStep, PrintStep DEF IInv

(* IInv holds in every state of every discovery. *)
THEOREM Invariance == Spec => []IInv
BY InitInv, NextInv, PTL DEF Spec

(* No daemon is listed that did not answer during this discovery: the check *)
(* of the nonce keeps out every late answer to an earlier probe.            *)
THEOREM ListedHaveAnswered == Spec => []NoGhosts
<1>1. IInv => NoGhosts
  BY DEF IInv, TrailOK, NoGhosts
<1>2. QED
  BY Invariance, <1>1, PTL

(* discover_targets_at_with_callback returns, under its key, every answer a *)
(* task received before its deadline.                                       *)
THEOREM AnswersAreReturned == Spec => []NothingLost
<1>1. IInv => NothingLost
  <2>1. SUFFICES ASSUME IInv, phase = "ok" PROVE KeysOf(found) = KeysOf(accepted)
    BY DEF NothingLost, KeysOf
  <2>2. chan = << >>
    BY <2>1 DEF IInv, AccountOK
  <2>3. KeysOf(Range(chan)) = {}
    BY <2>2, RangeEmpty
  <2>4. QED
    BY <2>1, <2>3 DEF IInv, TasksOK, AccountOK
<1>2. QED
  BY Invariance, <1>1, PTL

(* discover_command prints each name and address once, however often and    *)
(* from however many tasks the answer comes, and prints exactly what is     *)
(* returned.                                                                *)
THEOREM DevicesArePrintedOnce == Spec => []PrintedOnce
<1>1. IInv => PrintedOnce
  BY DEF IInv, PrintOK, PrintedOnce, KeysOf
<1>2. QED
  BY Invariance, <1>1, PTL
-----------------------------------------------------------------------------
(***************************************************************************)
(* Registry: the sequences of targets that normalize_registry builds.      *)
(***************************************************************************)

(* s are the targets among the first n of ts that no later one replaces,    *)
(* without the address a, in their order: f gives the place in ts of each.  *)
Tracks(s, ts, n, f, a) ==
    /\ s \in Seq(StoredTarget)
    /\ f \in [DOMAIN s -> 1 .. n]
    /\ \A i, k \in DOMAIN s : i < k => f[i] < f[k]
    /\ \A i \in DOMAIN s : s[i] = ts[f[i]] /\ s[i].addr # a
    /\ \A i, k \in DOMAIN s : s[i].addr = s[k].addr => i = k
    /\ \A j \in 1 .. n : ts[j].addr # a => \E i \in DOMAIN s : ts[j].addr = s[i].addr /\ j <= f[i]

(* The equation of the loop in normalize_registry. *)
IsLoop(d, ts, n) ==
    d = [m \in 0 .. n |-> IF m = 0 THEN << >> ELSE PushTarget(d[m - 1], ts[m])]
-----------------------------------------------------------------------------
(* A nonempty set of numbers has a least element. *)
LEMMA LeastExists ==
    ASSUME NEW S \in SUBSET Nat, S # {}
    PROVE  \E m \in S : \A k \in S : m <= k
<1>1. PICK x \in S : \A y \in S : ~(<<y, x>> \in OpToRel(<, Nat))
  BY NatLessThanWellFounded, WFMin
<1>2. \A y \in S : ~(y < x)
  BY <1>1 DEF OpToRel
<1> QED
  BY <1>2

(* Min is the least element of a nonempty set of numbers. *)
LEMMA MinIsLeast ==
    ASSUME NEW S \in SUBSET Nat, S # {}
    PROVE  Min(S) \in S /\ \A k \in S : Min(S) <= k
BY LeastExists DEF Min

(* Max is the greatest element of a nonempty bounded set of numbers. *)
LEMMA MaxIsGreatest ==
    ASSUME NEW n \in Nat, NEW S \in SUBSET (1 .. n), S # {}
    PROVE  Max(S) \in S /\ \A k \in S : k <= Max(S)
<1> DEFINE U == {b \in Nat : \A k \in S : k <= b}
<1>1. U \in SUBSET Nat /\ n \in U
  OBVIOUS
<1>2. PICK m \in U : \A b \in U : m <= b
  BY <1>1, LeastExists
<1>3. m \in S
  <2>1. SUFFICES ASSUME m \notin S
                 PROVE  FALSE
    OBVIOUS
  <2>2. PICK k \in S : TRUE
    OBVIOUS
  <2>3. k \in 1 .. n /\ k <= m /\ m \in Nat
    OBVIOUS
  <2>4. m - 1 \in Nat /\ \A j \in S : j <= m - 1
    BY <2>1, <2>3
  <2>5. m - 1 \in U
    BY <2>4
  <2>6. m <= m - 1
    BY <1>2, <2>5
  <2> QED
    BY <2>3, <2>6
<1>4. \E x \in S : \A y \in S : x >= y
  BY <1>3
<1>5. Max(S) \in S /\ \A y \in S : Max(S) >= y
  BY <1>4 DEF Max
<1> QED
  BY <1>5

(* The elements of a sequence after a removal. *)
LEMMA RemoveAtElements ==
    ASSUME NEW T, NEW s \in Seq(T), NEW i \in DOMAIN s
    PROVE  /\ RemoveAt(s, i) \in Seq(T)
           /\ Len(RemoveAt(s, i)) = Len(s) - 1
           /\ \A k \in 1 .. Len(s) - 1 : RemoveAt(s, i)[k] = IF k < i THEN s[k] ELSE s[k + 1]
<1> DEFINE u == SubSeq(s, 1, i - 1)
<1> DEFINE v == SubSeq(s, i + 1, Len(s))
<1>1. PICK n \in Nat : n = Len(s) /\ i \in 1 .. n
  OBVIOUS
<1>2. /\ u \in Seq(T) /\ Len(u) = i - 1
      /\ \A k \in 1 .. i - 1 : u[k] = s[k]
  BY <1>1
<1>3. /\ v \in Seq(T) /\ Len(v) = n - i
      /\ \A k \in 1 .. n - i : v[k] = s[k + i]
  BY <1>1
<1>4. RemoveAt(s, i) = u \o v
  BY DEF RemoveAt
<1>5. u \o v \in Seq(T) /\ Len(u \o v) = n - 1
  BY <1>1, <1>2, <1>3
<1> HIDE DEF u, v
<1>6. ASSUME NEW k \in 1 .. n - 1
      PROVE  (u \o v)[k] = IF k < i THEN s[k] ELSE s[k + 1]
  <2>1. CASE k < i
    <3>1. k \in 1 .. i - 1 /\ k \in 1 .. Len(u)
      BY <1>1, <1>2, <2>1
    <3>2. (u \o v)[k] = u[k]
      BY <1>2, <1>3, <3>1, ConcatProperties
    <3> QED
      BY <1>2, <2>1, <3>1, <3>2
  <2>2. CASE ~(k < i)
    <3>1. k \in Nat /\ i \in Nat /\ k - (i - 1) \in 1 .. n - i /\ (k - (i - 1)) + i = k + 1
      BY <1>1, <2>2
    <3>2. k \in 1 .. Len(u) + Len(v) /\ ~(k <= Len(u)) /\ k - Len(u) = k - (i - 1)
      BY <1>1, <1>2, <1>3, <2>2
    <3>3. (u \o v)[k] = v[k - Len(u)]
      BY <1>2, <1>3, <3>2, ConcatProperties
    <3>4. v[k - (i - 1)] = s[k + 1]
      BY <1>3, <3>1
    <3> QED
      BY <2>2, <3>2, <3>3, <3>4
  <2> QED
    BY <2>1, <2>2
<1> QED
  BY <1>1, <1>4, <1>5, <1>6

(* A stored target has an address. *)
LEMMA StoredHasAddr ==
    ASSUME NEW ts \in Seq(StoredTarget), NEW i \in DOMAIN ts
    PROVE  ts[i] \in StoredTarget /\ ts[i].addr \in SockAddr /\ ts[i].addr # None
<1>1. ts[i] \in StoredTarget
  OBVIOUS
<1> QED
  BY <1>1, RegistryAssumption DEF StoredTarget

(* A removal takes exactly one address away. *)
LEMMA RemoveTracks ==
    ASSUME NEW ts \in Seq(StoredTarget), NEW n \in 0 .. Len(ts), NEW s, NEW f,
           Tracks(s, ts, n, f, None), NEW i \in DOMAIN s
    PROVE  \E g : Tracks(RemoveAt(s, i), ts, n, g, s[i].addr)
<1> DEFINE u == RemoveAt(s, i)
<1>1. s \in Seq(StoredTarget) /\ f \in [DOMAIN s -> 1 .. n]
  BY DEF Tracks
<1>2. PICK m \in Nat : m = Len(s) /\ DOMAIN s = 1 .. m /\ i \in 1 .. m
  BY <1>1
<1>3. /\ u \in Seq(StoredTarget) /\ DOMAIN u = 1 .. m - 1
      /\ \A k \in 1 .. m - 1 : u[k] = IF k < i THEN s[k] ELSE s[k + 1]
  <2>1. /\ u \in Seq(StoredTarget) /\ Len(u) = Len(s) - 1
        /\ \A k \in 1 .. Len(s) - 1 : u[k] = IF k < i THEN s[k] ELSE s[k + 1]
    BY ONLY <1>1, i \in DOMAIN s, RemoveAtElements
  <2>2. DOMAIN u = 1 .. m - 1
    BY ONLY <1>2, <2>1
  <2> QED
    BY ONLY <1>2, <2>1, <2>2
<1> HIDE DEF u
<1> DEFINE up(k) == IF k < i THEN k ELSE k + 1
<1> DEFINE g == [k \in 1 .. m - 1 |-> f[up(k)]]
<1>4. \A k \in 1 .. m - 1 : up(k) \in 1 .. m /\ up(k) # i /\ u[k] = s[up(k)]
  BY <1>2, <1>3
<1>5. \A k, l \in 1 .. m - 1 : k < l => up(k) < up(l)
  BY <1>2
<1>5a. \A k, l \in 1 .. m - 1 : up(k) = up(l) => k = l
  BY <1>2
<1>6. \A l \in 1 .. m : l # i => \E k \in 1 .. m - 1 : up(k) = l
  <2> SUFFICES ASSUME NEW l \in 1 .. m, l # i
               PROVE  \E k \in 1 .. m - 1 : up(k) = l
    OBVIOUS
  <2>1. CASE l < i
    <3>1. l \in 1 .. m - 1 /\ up(l) = l
      BY <1>2, <2>1
    <3> QED
      BY <3>1
  <2>2. CASE ~(l < i)
    <3>1. l - 1 \in 1 .. m - 1 /\ up(l - 1) = l
      BY <1>2, <2>2
    <3> QED
      BY <3>1
  <2> QED
    BY <2>1, <2>2
<1> HIDE DEF up
<1>7. g \in [DOMAIN u -> 1 .. n]
  BY <1>1, <1>2, <1>3, <1>4
<1>8. \A k, l \in DOMAIN u : k < l => g[k] < g[l]
  BY <1>2, <1>3, <1>4, <1>5 DEF Tracks
<1>9. \A k \in DOMAIN u : u[k] = ts[g[k]] /\ u[k].addr # s[i].addr
  BY <1>2, <1>3, <1>4 DEF Tracks
<1>10. \A k, l \in DOMAIN u : u[k].addr = u[l].addr => k = l
  <2> SUFFICES ASSUME NEW k \in 1 .. m - 1, NEW l \in 1 .. m - 1, u[k].addr = u[l].addr
               PROVE  k = l
    BY <1>3
  <2>1. s[up(k)].addr = s[up(l)].addr /\ up(k) \in DOMAIN s /\ up(l) \in DOMAIN s
    BY <1>2, <1>4
  <2>2. up(k) = up(l)
    BY <2>1 DEF Tracks
  <2> QED
    BY <1>5a, <2>2
<1>11. ASSUME NEW j \in 1 .. n, ts[j].addr # s[i].addr
       PROVE  \E k \in DOMAIN u : ts[j].addr = u[k].addr /\ j <= g[k]
  <2>1. ts[j].addr # None
    BY StoredHasAddr
  <2>2. PICK l \in DOMAIN s : ts[j].addr = s[l].addr /\ j <= f[l]
    BY <2>1 DEF Tracks
  <2>3. PICK k \in 1 .. m - 1 : up(k) = l
    BY <1>2, <1>6, <1>11, <2>2
  <2> QED
    BY <1>3, <1>4, <2>2, <2>3
<1>12. Tracks(u, ts, n, g, s[i].addr)
  BY <1>3, <1>7, <1>8, <1>9, <1>10, <1>11 DEF Tracks
<1> QED
  BY <1>12 DEF u

(* The targets that were there are followed by the one that is pushed. *)
LEMMA AppendTracks ==
    ASSUME NEW n \in Nat, NEW ts \in Seq(StoredTarget), n + 1 \in DOMAIN ts, NEW s, NEW f,
           Tracks(s, ts, n, f, ts[n + 1].addr)
    PROVE  \E g : Tracks(Append(s, ts[n + 1]), ts, n + 1, g, None)
<1> DEFINE t == ts[n + 1]
<1> DEFINE u == Append(s, t)
<1>1. s \in Seq(StoredTarget) /\ f \in [DOMAIN s -> 1 .. n] /\ t \in StoredTarget
  BY DEF Tracks
<1>2. PICK m \in Nat : m = Len(s) /\ DOMAIN s = 1 .. m
  BY <1>1
<1>3. /\ u \in Seq(StoredTarget) /\ DOMAIN u = 1 .. m + 1 /\ u[m + 1] = t
      /\ \A k \in 1 .. m : u[k] = s[k]
  BY <1>1, <1>2
<1> HIDE DEF u
<1> DEFINE g == [k \in 1 .. m + 1 |-> IF k = m + 1 THEN n + 1 ELSE f[k]]
<1>4. g \in [DOMAIN u -> 1 .. n + 1]
  BY <1>1, <1>2, <1>3
<1>5. \A k, l \in DOMAIN u : k < l => g[k] < g[l]
  BY <1>1, <1>2, <1>3 DEF Tracks
<1>6. \A k \in DOMAIN u : u[k] = ts[g[k]] /\ u[k].addr # None
  <2> SUFFICES ASSUME NEW k \in 1 .. m + 1
               PROVE  u[k] = ts[g[k]] /\ u[k].addr # None
    BY <1>3
  <2>1. u[k].addr # None
    BY <1>3, StoredHasAddr
  <2>2. CASE k = m + 1
    BY <1>3, <2>1, <2>2
  <2>3. CASE k # m + 1
    <3>1. k \in DOMAIN s /\ g[k] = f[k]
      BY <1>2, <2>3
    <3> QED
      BY <1>2, <1>3, <2>1, <3>1 DEF Tracks
  <2> QED
    BY <2>2, <2>3
<1>7. \A k, l \in DOMAIN u : u[k].addr = u[l].addr => k = l
  BY <1>1, <1>2, <1>3 DEF Tracks
<1>8. ASSUME NEW j \in 1 .. n + 1
      PROVE  \E k \in DOMAIN u : ts[j].addr = u[k].addr /\ j <= g[k]
  <2>1. CASE ts[j].addr = t.addr
    BY <1>2, <1>3, <2>1
  <2>2. CASE ts[j].addr # t.addr
    <3>1. j \in 1 .. n
      BY <2>2
    <3>2. PICK l \in DOMAIN s : ts[j].addr = s[l].addr /\ j <= f[l]
      BY <2>2, <3>1 DEF Tracks
    <3> QED
      BY <1>2, <1>3, <3>2
  <2> QED
    BY <2>1, <2>2
<1>9. Tracks(u, ts, n + 1, g, None)
  BY <1>3, <1>4, <1>5, <1>6, <1>7, <1>8 DEF Tracks
<1> QED
  BY <1>9 DEF u

(* One turn of the loop of normalize_registry. *)
LEMMA PushTracks ==
    ASSUME NEW ts \in Seq(StoredTarget), NEW n \in Nat, n + 1 \in DOMAIN ts, NEW s, NEW f,
           Tracks(s, ts, n, f, None)
    PROVE  \E g : Tracks(PushTarget(s, ts[n + 1]), ts, n + 1, g, None)
<1> DEFINE a == ts[n + 1].addr
<1> DEFINE same == Position(s, a)
<1>1. s \in Seq(StoredTarget) /\ n \in 0 .. Len(ts)
  BY DEF Tracks
<1>2. same \subseteq DOMAIN s /\ \A i \in DOMAIN s : i \in same <=> s[i].addr = a
  BY DEF Position
<1>3. CASE same = {}
  <2>1. Tracks(s, ts, n, f, a)
    <3>1. \A i \in DOMAIN s : s[i].addr # a
      BY <1>2, <1>3
    <3>2. \A j \in 1 .. n : ts[j].addr # None
      BY <1>1, StoredHasAddr
    <3> HIDE DEF a
    <3> QED
      BY <3>1, <3>2 DEF Tracks
  <2>2. PushTarget(s, ts[n + 1]) = Append(s, ts[n + 1])
    BY <1>3 DEF PushTarget
  <2> QED
    BY <2>1, <2>2, AppendTracks
<1>4. CASE same # {}
  <2>1. same \in SUBSET Nat
    BY <1>1, <1>2
  <2>2. Min(same) \in same
    BY <1>4, <2>1, MinIsLeast
  <2>3. Min(same) \in DOMAIN s /\ s[Min(same)].addr = a
    BY <1>2, <2>2
  <2>4. PICK g : Tracks(RemoveAt(s, Min(same)), ts, n, g, a)
    BY <1>1, <2>3, RemoveTracks
  <2>5. PushTarget(s, ts[n + 1]) = Append(RemoveAt(s, Min(same)), ts[n + 1])
    BY <1>4 DEF PushTarget
  <2> QED
    BY <2>4, <2>5, AppendTracks
<1> QED
  BY <1>3, <1>4

(* The loop is defined for any number of turns. *)
LEMMA LoopExists ==
    ASSUME NEW ts, NEW N \in Nat
    PROVE  \E d : IsLoop(d, ts, N)
<1> DEFINE S == {n \in Nat : ~\E d : IsLoop(d, ts, n)}
<1>1. SUFFICES ASSUME S # {}
               PROVE  FALSE
  BY DEF S
<1>2. PICK m \in S : \A k \in S : m <= k
  BY <1>1, LeastExists
<1>3. CASE m = 0
  <2>1. [k \in 0 .. 0 |-> << >>] = [k \in 0 .. 0 |-> IF k = 0 THEN << >> ELSE
            PushTarget([l \in 0 .. 0 |-> << >>][k - 1], ts[k])]
    OBVIOUS
  <2>2. IsLoop([k \in 0 .. 0 |-> << >>], ts, m)
    BY <1>3, <2>1 DEF IsLoop
  <2> QED
    BY <2>2
<1>4. CASE m # 0
  <2>1. m \in Nat /\ m - 1 \in Nat /\ m - 1 \notin S
    BY <1>2, <1>4
  <2>2. PICK d : IsLoop(d, ts, m - 1)
    BY <2>1
  <2> DEFINE e == [k \in 0 .. m |-> IF k = m THEN PushTarget(d[m - 1], ts[m]) ELSE d[k]]
  <2>3. ASSUME NEW k \in 0 .. m
        PROVE  e[k] = IF k = 0 THEN << >> ELSE PushTarget(e[k - 1], ts[k])
    <3>1. CASE k = m
      <4>1. e[k - 1] = d[m - 1] /\ e[k] = PushTarget(d[m - 1], ts[m])
        BY <2>1, <3>1
      <4> QED
        BY <1>4, <3>1, <4>1
    <3>2. CASE k # m
      <4>1. k \in 0 .. m - 1 /\ e[k] = d[k]
        BY <2>1, <3>2
      <4>2. d[k] = IF k = 0 THEN << >> ELSE PushTarget(d[k - 1], ts[k])
        BY <2>2, <4>1 DEF IsLoop
      <4>3. k # 0 => e[k - 1] = d[k - 1]
        BY <2>1, <4>1
      <4> QED
        BY <4>1, <4>2, <4>3
    <3> QED
      BY <3>1, <3>2
  <2>4. e = [k \in 0 .. m |-> IF k = 0 THEN << >> ELSE PushTarget(e[k - 1], ts[k])]
    BY <2>3
  <2>5. IsLoop(e, ts, m)
    BY <2>4 DEF IsLoop
  <2> QED
    BY <2>5
<1> QED
  BY <1>3, <1>4

(* The value of the loop after its last turn. *)
LEMMA DedupedLoop ==
    ASSUME NEW ts \in Seq(StoredTarget)
    PROVE  \E d : IsLoop(d, ts, Len(ts)) /\ Deduped(ts) = d[Len(ts)]
<1>1. Deduped(ts) = (CHOOSE d : IsLoop(d, ts, Len(ts)))[Len(ts)]
  BY DEF Deduped, IsLoop
<1>2. \E d : IsLoop(d, ts, Len(ts))
  <2>1. Len(ts) \in Nat
    OBVIOUS
  <2> QED
    BY <2>1, LoopExists
<1> QED
  BY <1>1, <1>2

(* normalize_registry keeps the last target of each address, in the order   *)
(* in which they were saved last.                                           *)
LEMMA DedupedTracks ==
    ASSUME NEW ts \in Seq(StoredTarget)
    PROVE  \E f : Tracks(Deduped(ts), ts, Len(ts), f, None)
<1>1. PICK d : IsLoop(d, ts, Len(ts)) /\ Deduped(ts) = d[Len(ts)]
  BY DedupedLoop
<1> DEFINE S == {n \in 0 .. Len(ts) : ~\E f : Tracks(d[n], ts, n, f, None)}
<1>2. SUFFICES ASSUME S # {}
               PROVE  FALSE
  BY <1>1 DEF S
<1>3. S \in SUBSET Nat
  OBVIOUS
<1>4. PICK m \in S : \A k \in S : m <= k
  BY <1>2, <1>3, LeastExists
<1>5. m \in 0 .. Len(ts) /\ d[m] = IF m = 0 THEN << >> ELSE PushTarget(d[m - 1], ts[m])
  BY <1>1 DEF IsLoop
<1>6. CASE m = 0
  <2>1. Tracks(<< >>, ts, 0, [i \in {} |-> 0], None)
    BY DEF Tracks
  <2> QED
    BY <1>5, <1>6, <2>1
<1>7. CASE m # 0
  <2>1. m - 1 \in Nat /\ m - 1 \in 0 .. Len(ts) /\ m - 1 \notin S /\ (m - 1) + 1 = m /\ m \in DOMAIN ts
    BY <1>4, <1>5, <1>7
  <2>2. PICK f : Tracks(d[m - 1], ts, m - 1, f, None)
    BY <2>1
  <2>3. \E g : Tracks(PushTarget(d[m - 1], ts[m]), ts, m, g, None)
    BY <2>1, <2>2, PushTracks
  <2> QED
    BY <1>5, <1>7, <2>3
<1> QED
  BY <1>6, <1>7

(* Latest is at the last of the positions of an address. *)
LEMMA LatestIs ==
    ASSUME NEW ts \in Seq(StoredTarget), NEW j \in DOMAIN ts,
           \A k \in DOMAIN ts : ts[k].addr = ts[j].addr => k <= j
    PROVE  Latest(ts, ts[j].addr) = ts[j]
<1> DEFINE P == Position(ts, ts[j].addr)
<1>1. Len(ts) \in Nat /\ DOMAIN ts = 1 .. Len(ts)
  OBVIOUS
<1>2. P \in SUBSET (1 .. Len(ts)) /\ j \in P /\ \A k \in P : k <= j
  BY <1>1 DEF Position
<1>3. Max(P) \in P /\ \A k \in P : k <= Max(P)
  BY <1>1, <1>2, MaxIsGreatest
<1>4. Max(P) = j
  BY <1>1, <1>2, <1>3
<1> QED
  BY <1>4 DEF Latest

(* What the targets that are kept share with the ones they were taken from. *)
LEMMA TracksKeeps ==
    ASSUME NEW ts \in Seq(StoredTarget), NEW s, NEW f, NEW a, Tracks(s, ts, Len(ts), f, a)
    PROVE  /\ Addrs(s) = Addrs(ts) \ {a}
           /\ \A b \in Addrs(s) : Latest(s, b) = Latest(ts, b)
           /\ \A i, k \in DOMAIN s : s[i].addr = s[k].addr => i = k
<1>1. s \in Seq(StoredTarget) /\ f \in [DOMAIN s -> DOMAIN ts]
  BY DEF Tracks
<1>2. /\ \A i \in DOMAIN s : s[i] = ts[f[i]] /\ s[i].addr # a
      /\ \A i, k \in DOMAIN s : s[i].addr = s[k].addr => i = k
      /\ \A j \in DOMAIN ts : ts[j].addr # a => \E i \in DOMAIN s : ts[j].addr = s[i].addr /\ j <= f[i]
  BY DEF Tracks
<1>3. Addrs(s) = Addrs(ts) \ {a}
  BY <1>1, <1>2 DEF Addrs
<1>4. ASSUME NEW i \in DOMAIN s
      PROVE  Latest(s, s[i].addr) = Latest(ts, s[i].addr)
  <2>1. Latest(s, s[i].addr) = s[i]
    <3>1. \A k \in DOMAIN s : s[k].addr = s[i].addr => k <= i
      BY <1>1, <1>2
    <3> QED
      BY <1>1, <3>1, LatestIs
  <2>2. f[i] \in DOMAIN ts /\ s[i] = ts[f[i]]
    BY <1>1, <1>2
  <2>3. ASSUME NEW k \in DOMAIN ts, ts[k].addr = ts[f[i]].addr
        PROVE  k <= f[i]
    <3>1. ts[k].addr # a /\ ts[k].addr = s[i].addr
      BY <1>2, <2>2, <2>3
    <3>2. PICK l \in DOMAIN s : ts[k].addr = s[l].addr /\ k <= f[l]
      BY <1>2, <3>1
    <3>3. l = i
      BY <1>2, <3>1, <3>2
    <3> QED
      BY <3>2, <3>3
  <2>4. Latest(ts, ts[f[i]].addr) = ts[f[i]]
    BY <2>2, <2>3, LatestIs
  <2> QED
    BY <2>1, <2>2, <2>4
<1>5. \A b \in Addrs(s) : \E i \in DOMAIN s : b = s[i].addr
  BY DEF Addrs
<1> QED
  BY <1>2, <1>3, <1>4, <1>5

(* The last of them is the one that was saved last. *)
LEMMA TracksLast ==
    ASSUME NEW ts \in Seq(StoredTarget), NEW s, NEW f, NEW a, Tracks(s, ts, Len(ts), f, a)
    PROVE  LastAddr(s) = LatestBut(ts, a)
<1> DEFINE O == {i \in DOMAIN ts : ts[i].addr # a}
<1>1. s \in Seq(StoredTarget) /\ f \in [DOMAIN s -> DOMAIN ts]
  BY DEF Tracks
<1>2. /\ \A i \in DOMAIN s : s[i] = ts[f[i]] /\ s[i].addr # a
      /\ \A i, k \in DOMAIN s : i < k => f[i] < f[k]
      /\ \A j \in DOMAIN ts : ts[j].addr # a => \E i \in DOMAIN s : ts[j].addr = s[i].addr /\ j <= f[i]
  BY DEF Tracks
<1>3. PICK n \in Nat : n = Len(ts) /\ DOMAIN ts = 1 .. n
  OBVIOUS
<1>4. PICK m \in Nat : m = Len(s) /\ DOMAIN s = 1 .. m
  BY <1>1
<1>5. CASE m = 0
  <2>1. s = << >>
    BY <1>1, <1>4, <1>5
  <2>2. O = {}
    BY <1>2, <1>4, <1>5
  <2> QED
    BY <2>1, <2>2 DEF LastAddr, LatestBut
<1>6. CASE m # 0
  <2>1. m \in DOMAIN s /\ s # << >> /\ Last(s) = s[m]
    BY <1>1, <1>4, <1>6 DEF Last
  <2>2. f[m] \in O
    BY <1>1, <1>2, <2>1
  <2>3. ASSUME NEW j \in O
        PROVE  j <= f[m]
    <3>1. PICK i \in DOMAIN s : j <= f[i]
      BY <1>2
    <3>2. f[i] \in 1 .. n /\ f[m] \in 1 .. n /\ (i = m \/ i < m)
      BY <1>1, <1>3, <1>4, <2>1
    <3>3. f[i] <= f[m]
      BY <1>2, <2>1, <3>2
    <3> QED
      BY <1>3, <3>1, <3>2, <3>3
  <2>4. O \in SUBSET (1 .. n) /\ O # {}
    BY <1>3, <2>2
  <2>5. Max(O) \in O /\ \A k \in O : k <= Max(O)
    BY <2>4, MaxIsGreatest
  <2>6. Max(O) = f[m]
    <3>1. Max(O) \in 1 .. n /\ f[m] \in 1 .. n
      BY <2>2, <2>4, <2>5
    <3>2. Max(O) <= f[m] /\ f[m] <= Max(O)
      BY <2>2, <2>3, <2>5
    <3> QED
      BY <3>1, <3>2
  <2>7. LatestBut(ts, a) = ts[f[m]].addr
    BY <2>4, <2>6 DEF LatestBut
  <2> QED
    BY <1>2, <2>1, <2>7 DEF LastAddr
<1> QED
  BY <1>5, <1>6

(* Where the current target is. *)
LEMMA PrimaryIs ==
    ASSUME NEW r \in SavedRegistry
    PROVE  /\ r.targets \in Seq(StoredTarget)
           /\ r.targets = << >> => PrimaryIndex(r) = 0 /\ PrimaryAddr(r) = None
           /\ r.targets # << >> =>
                 /\ PrimaryIndex(r) \in DOMAIN r.targets
                 /\ PrimaryAddr(r) = r.targets[PrimaryIndex(r)].addr
                 /\ PrimaryAddr(r) \in Addrs(r.targets)
           /\ r.current \in Addrs(r.targets) => PrimaryAddr(r) = r.current
<1> DEFINE ts == r.targets
<1> DEFINE A == {i \in DOMAIN ts : ts[i].addr = r.current}
<1> DEFINE M == {i \in DOMAIN ts : ts[i].name = r.current}
<1>1. ts \in Seq(StoredTarget)
  BY DEF SavedRegistry
<1>2. PICK n \in Nat : n = Len(ts) /\ DOMAIN ts = 1 .. n
  BY <1>1
<1>3. PrimaryIndex(r) = IF A # {} THEN Min(A) ELSE IF M # {} THEN Min(M) ELSE n
  BY <1>2 DEF PrimaryIndex
<1>4. A \in SUBSET Nat /\ M \in SUBSET Nat
  BY <1>2
<1>5. A # {} => PrimaryIndex(r) \in A
  BY <1>3, <1>4, MinIsLeast
<1>6. A = {} /\ M # {} => PrimaryIndex(r) \in M
  BY <1>3, <1>4, MinIsLeast
<1>7. CASE ts = << >>
  <2>1. A = {} /\ M = {} /\ n = 0 /\ Addrs(ts) = {}
    BY <1>2, <1>7 DEF Addrs
  <2> QED
    BY <1>1, <1>3, <1>7, <2>1 DEF PrimaryAddr
<1>8. CASE ts # << >>
  <2>1. n \in DOMAIN ts
    BY <1>1, <1>2, <1>8
  <2>2. PrimaryIndex(r) \in DOMAIN ts
    BY <1>3, <1>5, <1>6, <2>1
  <2>3. PrimaryAddr(r) = ts[PrimaryIndex(r)].addr
    BY <1>8 DEF PrimaryAddr
  <2>4. PrimaryAddr(r) \in Addrs(ts)
    BY <2>2, <2>3 DEF Addrs
  <2>5. r.current \in Addrs(ts) => A # {}
    BY DEF Addrs
  <2> QED
    BY <1>1, <1>5, <1>8, <2>2, <2>3, <2>4, <2>5
<1> QED
  BY <1>7, <1>8

(* normalize_registry: the result is normal, has the addresses, the latest  *)
(* target of each and the current target of what it was given.              *)
THEOREM NormalizeIs ==
    ASSUME NEW r \in SavedRegistry
    PROVE  /\ Normalize(r) \in SavedRegistry
           /\ Normal(Normalize(r))
           /\ Normalize(r).targets = Deduped(r.targets)
           /\ PrimaryAddr(Normalize(r)) = PrimaryAddr(r)
           /\ Normalize(r).current = PrimaryAddr(r)
           /\ Addrs(Normalize(r).targets) = Addrs(r.targets)
           /\ \A b \in Addrs(r.targets) : Latest(Normalize(r).targets, b) = Latest(r.targets, b)
<1> DEFINE ts == r.targets
<1> DEFINE s == Deduped(ts)
<1> DEFINE q == Normalize(r)
<1> DEFINE a == PrimaryAddr(r)
<1>1. ts \in Seq(StoredTarget)
  BY PrimaryIs
<1>2. PICK f : Tracks(s, ts, Len(ts), f, None)
  BY <1>1, DedupedTracks
<1>3. s \in Seq(StoredTarget)
  BY <1>2 DEF Tracks
<1>4. None \notin Addrs(ts)
  BY <1>1, StoredHasAddr DEF Addrs
<1>5. /\ Addrs(s) = Addrs(ts)
      /\ \A b \in Addrs(s) : Latest(s, b) = Latest(ts, b)
      /\ \A i, k \in DOMAIN s : s[i].addr = s[k].addr => i = k
  <2>1. Addrs(ts) \ {None} = Addrs(ts)
    BY <1>4
  <2> HIDE DEF s
  <2> QED
    BY <1>1, <1>2, <2>1, TracksKeeps
<1>6. q = [targets |-> s, current |-> IF a \in Addrs(s) THEN a ELSE LastAddr(s)]
  BY DEF Normalize
<1>7. q.targets = s
  BY <1>6
<1>8. ASSUME NEW u \in Seq(StoredTarget)
      PROVE  u = << >> <=> Addrs(u) = {}
  <2>1. u # << >> => 1 \in DOMAIN u
    OBVIOUS
  <2>2. u = << >> => DOMAIN u = {}
    OBVIOUS
  <2> QED
    BY <2>1, <2>2 DEF Addrs
<1> HIDE DEF s, q
<1>9. CASE ts = << >>
  <2>1. Addrs(ts) = {} /\ a = None
    BY <1>1, <1>8, <1>9, PrimaryIs
  <2>2. s = << >>
    BY <1>3, <1>5, <1>8, <2>1
  <2>3. q.current = None
    BY <1>6, <2>1, <2>2, <1>5 DEF LastAddr
  <2>4. q \in SavedRegistry
    BY <1>3, <1>6, <1>7, <2>3 DEF SavedRegistry
  <2>5. Normal(q)
    BY <1>5, <1>7, <2>2, <2>3 DEF Normal
  <2>6. PrimaryAddr(q) = None
    BY <1>7, <2>2, <2>4, PrimaryIs
  <2> QED
    BY <1>5, <1>7, <2>1, <2>3, <2>4, <2>5, <2>6 DEF s, q
<1>10. CASE ts # << >>
  <2>1. a \in Addrs(ts)
    BY <1>10, PrimaryIs
  <2>2. q.current = a
    BY <1>5, <1>6, <2>1
  <2>3. a \in SockAddr /\ a # None
    BY <1>1, <2>1, StoredHasAddr DEF Addrs
  <2>4. q \in SavedRegistry
    BY <1>3, <1>6, <1>7, <2>2, <2>3 DEF SavedRegistry
  <2>5. s # << >>
    BY <1>3, <1>5, <1>8, <2>1
  <2>6. Normal(q)
    BY <1>5, <1>7, <2>1, <2>2, <2>3, <2>5 DEF Normal
  <2>7. PrimaryAddr(q) = a
    BY <1>5, <1>7, <2>1, <2>2, <2>4, PrimaryIs
  <2> QED
    BY <1>5, <1>7, <2>2, <2>4, <2>6, <2>7 DEF s, q
<1> QED
  BY <1>9, <1>10

(* What a save makes of a registry that keeps the other targets of o. *)
LEMMA SaveKeeps ==
    ASSUME NEW o \in SavedRegistry, NEW r \in SavedRegistry, NEW a, OthersKept(o, r, a)
    PROVE  OthersKept(o, Normalize(r), a)
<1>1. /\ Addrs(Normalize(r).targets) = Addrs(r.targets)
      /\ \A b \in Addrs(r.targets) : Latest(Normalize(r).targets, b) = Latest(r.targets, b)
  BY NormalizeIs
<1> QED
  BY <1>1 DEF OthersKept

(* The effect of connect_command. *)
LEMMA ConnectEffect ==
    ASSUME NEW o \in SavedRegistry, NEW t \in StoredTarget, NEW c, c.addr = t.addr, NEW r,
           r = [targets |-> PushTarget(Normalize(o).targets, t), current |-> t.addr]
    PROVE  r \in SavedRegistry /\ Connected(c, o, Normalize(r))
<1> DEFINE a == t.addr
<1> DEFINE ots == o.targets
<1> DEFINE ts == Append(ots, t)
<1> DEFINE n == Len(ots)
<1> DEFINE s == Deduped(ots)
<1>1. ots \in Seq(StoredTarget) /\ n \in Nat
  BY PrimaryIs
<1>2. Normalize(o).targets = s
  BY NormalizeIs
<1>3. /\ ts \in Seq(StoredTarget) /\ DOMAIN ts = 1 .. n + 1 /\ Len(ts) = n + 1
      /\ ts[n + 1] = t /\ \A j \in 1 .. n : ts[j] = ots[j]
  BY <1>1
<1>4. PICK f : Tracks(s, ots, n, f, None)
  BY <1>1, DedupedTracks
<1> HIDE DEF ts, s
<1>5. Tracks(s, ts, n, f, None)
  BY <1>3, <1>4 DEF Tracks
<1>6. PICK g : Tracks(PushTarget(s, t), ts, n + 1, g, None)
  <2>1. n + 1 \in DOMAIN ts
    BY <1>1, <1>3
  <2> QED
    BY <1>1, <1>3, <1>5, <2>1, PushTracks
<1> DEFINE u == PushTarget(s, t)
<1>7. r.targets = u /\ r.current = a /\ a \in SockAddr
  BY <1>2 DEF StoredTarget
<1>8. u \in Seq(StoredTarget)
  BY <1>6 DEF Tracks
<1> HIDE DEF u
<1>9. r \in SavedRegistry
  BY <1>2, <1>7, <1>8 DEF SavedRegistry, u
<1>10. /\ Addrs(u) = Addrs(ts) \ {None}
       /\ \A b \in Addrs(u) : Latest(u, b) = Latest(ts, b)
  BY <1>3, <1>6, TracksKeeps DEF u
<1>11. Addrs(ts) = Addrs(ots) \cup {a}
  <2>1. DOMAIN ots = 1 .. n
    BY <1>1
  <2>2. \A j \in 1 .. n + 1 : j \in 1 .. n \/ j = n + 1
    BY <1>1
  <2>3. n + 1 \in 1 .. n + 1 /\ 1 .. n \subseteq 1 .. n + 1
    BY <1>1
  <2> HIDE DEF n, ots
  <2> QED
    BY <1>3, <2>1, <2>2, <2>3 DEF Addrs
<1>12. None \notin Addrs(ts)
  BY <1>3, StoredHasAddr DEF Addrs
<1>13. a \in Addrs(u)
  BY <1>7, <1>10, <1>11, <1>12
<1>14. ASSUME NEW b \in Addrs(ots), b # a
       PROVE  Latest(ts, b) = Latest(ots, b)
  <2>1. Position(ts, b) = Position(ots, b)
    <3>1. DOMAIN ots = 1 .. n /\ \A j \in 1 .. n + 1 : j \in 1 .. n \/ j = n + 1
      BY <1>1
    <3>2. 1 .. n \subseteq 1 .. n + 1
      BY <1>1
    <3> HIDE DEF n, ots
    <3> QED
      BY <1>3, <1>14, <3>1, <3>2 DEF Position
  <2>2. Position(ots, b) \in SUBSET (1 .. n) /\ Position(ots, b) # {}
    BY <1>1 DEF Position, Addrs
  <2>3. Max(Position(ots, b)) \in 1 .. n
    BY <1>1, <2>2, MaxIsGreatest
  <2> QED
    BY <1>3, <2>1, <2>3 DEF Latest
<1>15. OthersKept(o, r, a)
  BY <1>7, <1>10, <1>11, <1>12, <1>14 DEF OthersKept
<1>16. PrimaryAddr(Normalize(r)) = a
  BY <1>7, <1>9, <1>13, PrimaryIs, NormalizeIs
<1>17. OthersKept(o, Normalize(r), a)
  BY <1>9, <1>15, SaveKeeps
<1> QED
  BY <1>9, <1>16, <1>17 DEF Connected

(* The effect of disconnect_command on the target at i. *)
LEMMA DisconnectEffect ==
    ASSUME NEW o \in SavedRegistry, NEW c, NEW q, q = Normalize(o),
           NEW i \in DOMAIN q.targets,
           q.targets[i].addr = IF c.addr = None THEN PrimaryAddr(q) ELSE c.addr,
           NEW rest, rest = RemoveAt(q.targets, i), NEW r,
           r = [targets |-> rest,
                current |-> IF rest = << >> \/ q.current \in {q.targets[i].addr, q.targets[i].name}
                            THEN LastAddr(rest) ELSE q.current]
    PROVE  r \in SavedRegistry /\ Disconnected(c, o, Normalize(r))
<1> DEFINE ots == o.targets
<1> DEFINE s == q.targets
<1> DEFINE gone == s[i].addr
<1>1. ots \in Seq(StoredTarget) /\ Len(ots) \in 0 .. Len(ots)
  BY PrimaryIs
<1>2. /\ q \in SavedRegistry /\ s = Deduped(ots) /\ Normal(q)
      /\ PrimaryAddr(q) = PrimaryAddr(o) /\ q.current = PrimaryAddr(o)
      /\ Addrs(s) = Addrs(ots)
      /\ \A b \in Addrs(ots) : Latest(s, b) = Latest(ots, b)
  BY NormalizeIs
<1>3. PICK f : Tracks(s, ots, Len(ots), f, None)
  BY <1>1, <1>2, DedupedTracks
<1>4. PICK g : Tracks(rest, ots, Len(ots), g, gone)
  BY <1>1, <1>3, RemoveTracks
<1>5. /\ Addrs(rest) = Addrs(ots) \ {gone}
      /\ \A b \in Addrs(rest) : Latest(rest, b) = Latest(ots, b)
      /\ LastAddr(rest) = LatestBut(ots, gone)
  BY <1>1, <1>4, TracksKeeps, TracksLast
<1>6. rest \in Seq(StoredTarget)
  BY <1>4 DEF Tracks
<1>7. s \in Seq(StoredTarget) /\ s # << >> /\ gone \in Addrs(s)
  BY <1>2, PrimaryIs DEF Addrs
<1>8. Latest(ots, gone) = s[i]
  <2>1. \A k \in DOMAIN s : s[k].addr = gone => k <= i
    BY <1>2, <1>7 DEF Normal
  <2>2. Latest(s, gone) = s[i]
    BY <1>7, <2>1, LatestIs
  <2> QED
    BY <1>2, <1>7, <2>2
<1>9. rest # << >> => LastAddr(rest) \in Addrs(rest)
  <2> SUFFICES ASSUME rest # << >>
               PROVE  LastAddr(rest) \in Addrs(rest)
    OBVIOUS
  <2>1. Len(rest) \in DOMAIN rest
    BY <1>6
  <2> QED
    BY <2>1 DEF LastAddr, Last, Addrs
<1>10. r.targets = rest
  OBVIOUS
<1>11. rest = << >> => LastAddr(rest) = None /\ Addrs(rest) = {}
  BY DEF LastAddr, Addrs
<1>12. q.current \in Addrs(ots)
  BY <1>2, <1>7 DEF Normal
<1>13. Addrs(rest) \subseteq SockAddr
  BY <1>6, StoredHasAddr DEF Addrs
<1> DEFINE now == IF q.current \in {gone, s[i].name} THEN LastAddr(rest) ELSE q.current
<1>14. r.current = now
  <2>1. CASE rest = << >>
    <3>1. q.current = gone
      BY <1>5, <1>11, <1>12, <2>1
    <3> QED
      BY <2>1, <3>1
  <2>2. CASE rest # << >>
    BY <2>2
  <2> QED
    BY <2>1, <2>2
<1>15. rest # << >> => r.current \in Addrs(rest)
  BY <1>5, <1>9, <1>12, <1>14
<1>16. rest = << >> => r.current = None
  BY <1>11
<1>17. r \in SavedRegistry
  <2>1. r.current \in SockAddr \cup Name \cup {None}
    BY <1>13, <1>15, <1>16
  <2> QED
    BY <1>6, <1>10, <2>1 DEF SavedRegistry
<1>18. PrimaryAddr(Normalize(r)) = now
  <2>1. PrimaryAddr(Normalize(r)) = PrimaryAddr(r)
    BY <1>17, NormalizeIs
  <2>2. PrimaryAddr(r) = r.current
    BY <1>10, <1>15, <1>16, <1>17, PrimaryIs
  <2> QED
    BY <1>14, <2>1, <2>2
<1>19. OthersKept(o, Normalize(r), gone)
  <2>1. OthersKept(o, r, gone)
    BY <1>5, <1>10 DEF OthersKept
  <2> QED
    BY <1>17, <2>1, SaveKeeps
<1>20. gone \notin Addrs(Normalize(r).targets)
  BY <1>5, <1>10, <1>17, NormalizeIs
<1>21. gone = IF c.addr = None THEN PrimaryAddr(o) ELSE c.addr
  BY <1>2
<1>22. now = IF PrimaryAddr(o) \in {gone, Latest(ots, gone).name} THEN LatestBut(ots, gone) ELSE PrimaryAddr(o)
  BY <1>2, <1>5, <1>8
<1> HIDE DEF now, gone
<1>23. Disconnected(c, o, Normalize(r))
  BY <1>18, <1>19, <1>20, <1>21, <1>22 DEF Disconnected
<1> QED
  BY <1>17, <1>23

(* The effect of devices_command. *)
LEMMA DevicesEffect ==
    ASSUME NEW o \in SavedRegistry, NEW q, q = Normalize(o), NEW i, i = PrimaryIndex(q), i # 0, NEW r,
           r = [q EXCEPT !.targets[i].name = DeviceName[q.targets[i].addr]]
    PROVE  r \in SavedRegistry /\ Renamed(o, Normalize(r))
<1> DEFINE s == q.targets
<1> DEFINE was == s[i].addr
<1> DEFINE t == [name |-> DeviceName[was], addr |-> was]
<1> DEFINE u == [s EXCEPT ![i] = t]
<1>1. /\ q \in SavedRegistry /\ Normal(q)
      /\ PrimaryAddr(q) = PrimaryAddr(o) /\ q.current = PrimaryAddr(o)
      /\ Addrs(s) = Addrs(o.targets)
      /\ \A b \in Addrs(o.targets) : Latest(s, b) = Latest(o.targets, b)
  BY NormalizeIs
<1>2. s \in Seq(StoredTarget) /\ i \in DOMAIN s /\ was = PrimaryAddr(o) /\ was \in Addrs(s)
  BY <1>1, PrimaryIs
<1>3. s[i] \in StoredTarget /\ was \in SockAddr
  BY <1>2, StoredHasAddr
<1>4. t \in StoredTarget
  BY <1>3, RegistryAssumption DEF StoredTarget
<1>5. [s[i] EXCEPT !.name = DeviceName[was]] = t
  BY <1>3 DEF StoredTarget
<1>6. r = [q EXCEPT !.targets = u]
  BY <1>5
<1>7. u \in Seq(StoredTarget) /\ DOMAIN u = DOMAIN s
  BY <1>2, <1>4
<1>8. \A k \in DOMAIN s : u[k].addr = s[k].addr /\ (k # i => u[k] = s[k])
  BY <1>2
<1>9. u[i] = t
  BY <1>2
<1>10. r \in SavedRegistry /\ r.targets = u /\ r.current = q.current
  BY <1>1, <1>6, <1>7 DEF SavedRegistry
<1> HIDE DEF u
<1>11. Addrs(u) = Addrs(s)
  BY <1>7, <1>8 DEF Addrs
<1>12. \A b : Position(u, b) = Position(s, b)
  BY <1>7, <1>8 DEF Position
<1>13. ASSUME NEW b \in Addrs(s), b # was
       PROVE  Latest(u, b) = Latest(s, b)
  <2>1. Position(s, b) \in SUBSET (1 .. Len(s)) /\ Position(s, b) # {} /\ Len(s) \in Nat
    BY <1>2 DEF Position, Addrs
  <2>2. Max(Position(s, b)) \in Position(s, b)
    BY <2>1, MaxIsGreatest
  <2>3. Max(Position(s, b)) \in DOMAIN s /\ Max(Position(s, b)) # i
    BY <1>13, <2>2 DEF Position
  <2> QED
    BY <1>8, <1>12, <2>3 DEF Latest
<1>14. OthersKept(o, r, was)
  BY <1>1, <1>10, <1>11, <1>13 DEF OthersKept
<1>15. Latest(u, was) = t
  <2>1. \A k \in DOMAIN u : u[k].addr = u[i].addr => k <= i
    BY <1>1, <1>2, <1>7, <1>8 DEF Normal
  <2>2. Latest(u, u[i].addr) = u[i]
    BY <1>2, <1>7, <2>1, LatestIs
  <2> QED
    BY <1>9, <2>2
<1>16. PrimaryAddr(r) = was
  BY <1>1, <1>2, <1>10, <1>11, PrimaryIs
<1>17. /\ PrimaryAddr(Normalize(r)) = was
       /\ Latest(Normalize(r).targets, was).name = DeviceName[was]
  <2>1. was \in Addrs(r.targets) /\ Latest(r.targets, was).name = DeviceName[was]
    <3>1. was \in Addrs(u)
      BY ONLY <1>2, <1>11
    <3>2. Latest(u, was).name = DeviceName[was]
      BY ONLY <1>15
    <3> HIDE DEF was
    <3> QED
      BY ONLY <1>10, <3>1, <3>2
  <2>2. Latest(Normalize(r).targets, was) = Latest(r.targets, was)
    BY ONLY <1>10, <2>1, NormalizeIs
  <2>3. PrimaryAddr(Normalize(r)) = PrimaryAddr(r)
    BY ONLY <1>10, NormalizeIs
  <2> QED
    BY <1>16, <2>1, <2>2, <2>3
<1>18. OthersKept(o, Normalize(r), was)
  BY <1>10, <1>14, SaveKeeps
<1> QED
  BY <1>2, <1>10, <1>17, <1>18 DEF Renamed
-----------------------------------------------------------------------------
(* The copy of every process is normal, and so is what was written. *)
CopiesOK ==
    /\ \A p \in Proc : Normal(reg[p])
    /\ file \in NotAFile \cup InitFiles \/ Normal(file)

(* Between its truncation and its write a process finds the file empty, if  *)
(* no other one came between.                                               *)
WindowOK ==
    \A p \in Proc : pc[p] \in {"rewrite", "write"} /\ ~overlap[p] => file = Empty

(* The copy of a process is the registry it read, normalized, until its     *)
(* command is applied, and then has the effect of the command.              *)
StageOK ==
    \A p \in Proc :
        /\ pc[p] \in {"retruncate", "rewrite", "apply"} => reg[p] = Normalize(base[p])
        /\ pc[p] \in {"truncate", "write"} => Effect(cmd[p], base[p], reg[p])

RegistryInv == RegistryTypeOK /\ CopiesOK /\ WindowOK /\ StageOK /\ UnreadableHasACause

(* The names connect_command may give are names. *)
LEMMA ConnectNamesType ==
    ASSUME NEW c \in Commands, c.op = "connect", NEW ts \in Seq(StoredTarget),
           NEW n \in ConnectNames(c, ts)
    PROVE  [name |-> n, addr |-> c.addr] \in StoredTarget
<1>1. c.addr \in SockAddr /\ c.name \in Name \cup {None}
  BY RegistryAssumption DEF Command
<1>2. DefaultName[c.addr] \in Name /\ DeviceName[c.addr] \in Name
  BY <1>1, RegistryAssumption
<1>3. \A i \in Position(ts, c.addr) : ts[i].name \in Name
  <2>1. \A i \in Position(ts, c.addr) : ts[i] \in StoredTarget
    BY StoredHasAddr DEF Position
  <2> QED
    BY <2>1 DEF StoredTarget
<1>4. n \in Name
  BY <1>1, <1>2, <1>3 DEF ConnectNames
<1> QED
  BY <1>1, <1>4 DEF StoredTarget

(* A command that is applied ends without a change, or saves its effect. *)
LEMMA ApplyIs ==
    ASSUME RegistryTypeOK, StageOK, NEW p \in Proc, Apply(p)
    PROVE  \/ /\ reg' = reg
              /\ pc' = [pc EXCEPT ![p] = "failed"] \/ pc' = [pc EXCEPT ![p] = "done"]
           \/ \E r \in SavedRegistry :
                /\ reg' = [reg EXCEPT ![p] = Normalize(r)]
                /\ pc' = [pc EXCEPT ![p] = "truncate"]
                /\ Effect(cmd[p], base[p], Normalize(r))
<1> DEFINE o == base[p]
<1> DEFINE q == reg[p]
<1> DEFINE c == cmd[p]
<1> DEFINE Saved(r) == /\ r \in SavedRegistry
                       /\ reg' = [reg EXCEPT ![p] = Normalize(r)]
                       /\ pc' = [pc EXCEPT ![p] = "truncate"]
                       /\ Effect(c, o, Normalize(r))
<1>1. o \in SavedRegistry /\ q \in SavedRegistry /\ c \in Commands \cup {NoCommand}
  BY DEF RegistryTypeOK
<1>2. q = Normalize(o)
  BY DEF StageOK, Apply
<1>3. q.targets \in Seq(StoredTarget)
  BY <1>1, PrimaryIs
<1>4. CASE c.op = "connect" /\ ConnectCommand(p)
  <2>1. c \in Commands
    BY <1>1, <1>4 DEF NoCommand
  <2>2. PICK n \in ConnectNames(c, q.targets) :
            Save(p, [targets |-> PushTarget(q.targets, [name |-> n, addr |-> c.addr]),
                     current |-> c.addr])
    BY <1>4 DEF ConnectCommand
  <2> DEFINE t == [name |-> n, addr |-> c.addr]
  <2> DEFINE r == [targets |-> PushTarget(q.targets, t), current |-> t.addr]
  <2>3. t \in StoredTarget
    BY <1>3, <1>4, <2>1, ConnectNamesType
  <2>4. r \in SavedRegistry /\ Connected(c, o, Normalize(r))
    <3>1. c.addr = t.addr
      OBVIOUS
    <3>2. r = [targets |-> PushTarget(Normalize(o).targets, t), current |-> t.addr]
      BY <1>2
    <3> HIDE DEF t, r, o, c, q
    <3> QED
      BY <1>1, <2>3, <3>1, <3>2, ConnectEffect
  <2>5. Effect(c, o, Normalize(r))
    BY <1>4, <2>4 DEF Effect
  <2>6. Saved(r)
    BY <2>2, <2>4, <2>5 DEF Save, Goto
  <2> QED
    BY <2>6
<1>5. CASE c.op = "disconnect" /\ DisconnectCommand(p)
  <2>1. CASE Selected(p) = {} /\ Goto(p, "failed") /\ UNCHANGED reg
    BY <2>1 DEF Goto
  <2>2. ASSUME NEW i \in Selected(p),
               LET rest == RemoveAt(q.targets, i)
               IN  Save(p, [targets |-> rest,
                            current |-> IF rest = << >> \/ q.current \in {q.targets[i].addr, q.targets[i].name}
                                        THEN LastAddr(rest) ELSE q.current])
        PROVE  \E r : Saved(r)
    <3> DEFINE rest == RemoveAt(q.targets, i)
    <3> DEFINE r == [targets |-> rest,
                     current |-> IF rest = << >> \/ q.current \in {q.targets[i].addr, q.targets[i].name}
                                 THEN LastAddr(rest) ELSE q.current]
    <3>1. /\ i \in DOMAIN q.targets
          /\ q.targets[i].addr = IF c.addr = None THEN PrimaryAddr(q) ELSE c.addr
      <4>1. CASE c.addr = None
        <5>1. i = PrimaryIndex(q) /\ i # 0
          BY <2>2, <4>1 DEF Selected
        <5> QED
          BY <1>1, <4>1, <5>1, PrimaryIs
      <4>2. CASE c.addr # None
        BY <2>2, <4>2 DEF Selected, Position
      <4> QED
        BY <4>1, <4>2
    <3>2. Save(p, r)
      BY <2>2
    <3>3. r \in SavedRegistry /\ Disconnected(c, o, Normalize(r))
      <4> HIDE DEF o, c, q
      <4> QED
        BY <1>1, <1>2, <3>1, DisconnectEffect
    <3> HIDE DEF r
    <3>4. Effect(c, o, Normalize(r))
      BY <1>5, <3>3 DEF Effect
    <3>5. Saved(r)
      BY <3>2, <3>3, <3>4 DEF Save, Goto
    <3> QED
      BY <3>5
  <2> QED
    BY <1>5, <2>1, <2>2 DEF DisconnectCommand
<1>6. CASE c.op = "devices" /\ DevicesCommand(p)
  <2> DEFINE i == PrimaryIndex(q)
  <2> DEFINE r == [q EXCEPT !.targets[i].name = DeviceName[q.targets[i].addr]]
  <2>1. CASE Goto(p, "done") /\ UNCHANGED reg
    BY <2>1 DEF Goto
  <2>2. CASE i # 0 /\ Save(p, r)
    <3>1. r \in SavedRegistry /\ Renamed(o, Normalize(r))
      <4> HIDE DEF o, q
      <4> QED
        BY <1>1, <1>2, <2>2, DevicesEffect
    <3> HIDE DEF r
    <3>2. Effect(c, o, Normalize(r))
      BY <1>6, <3>1 DEF Effect
    <3>3. Saved(r)
      BY <2>2, <3>1, <3>2 DEF Save, Goto
    <3> QED
      BY <3>3
  <2> QED
    BY <1>6, <2>1, <2>2 DEF DevicesCommand
<1>7. CASE c.op = "resolve" /\ ResolveTarget(p)
  BY <1>7 DEF ResolveTarget, Goto
<1> QED
  BY <1>4, <1>5, <1>6, <1>7 DEF Apply

(* load_registry ends the command, or takes the file normalized. *)
LEMMA LoadIs ==
    ASSUME RegistryTypeOK, NEW p \in Proc, Load(p)
    PROVE  \/ reg' = reg /\ base' = base /\ pc' = [pc EXCEPT ![p] = "failed"]
           \/ \E r \in SavedRegistry :
                /\ reg' = [reg EXCEPT ![p] = Normalize(r)]
                /\ base' = [base EXCEPT ![p] = r]
                /\ pc' = [pc EXCEPT ![p] = "apply"] \/ pc' = [pc EXCEPT ![p] = "retruncate"]
<1> DEFINE r == IF file = Absent THEN Default ELSE file
<1>1. Default \in SavedRegistry
  BY DEF Default, SavedRegistry
<1>2. file \notin Unreadable => r \in SavedRegistry
  BY <1>1 DEF RegistryTypeOK, NotAFile
<1> QED
  BY <1>2 DEF Load, Goto

(* Every step of a command keeps the types. *)
LEMMA RegistryTypesStep ==
    ASSUME RegistryTypeOK, StageOK, [RegistryNext]_registryVars
    PROVE  RegistryTypeOK'
<1> USE DEF RegistryTypeOK
<1>1. \A r \in SavedRegistry : Normalize(r) \in SavedRegistry
  BY NormalizeIs
<1>2. ASSUME NEW p \in Proc, Start(p)
      PROVE  RegistryTypeOK'
  BY <1>2 DEF Start, Goto, Labels, Ends
<1>3. ASSUME NEW p \in Proc, Ping(p)
      PROVE  RegistryTypeOK'
  BY <1>3 DEF Ping, Goto, Labels, Ends
<1>4. ASSUME NEW p \in Proc, Load(p)
      PROVE  RegistryTypeOK'
  <2>1. UNCHANGED <<file, cmd, kills, broken, overlap>>
    BY <1>4 DEF Load
  <2> QED
    BY <1>1, <1>4, <2>1, LoadIs DEF Labels, Ends
<1>5. ASSUME NEW p \in Proc, Changes(p)
      PROVE  overlap' \in [Proc -> BOOLEAN]
  BY <1>5 DEF Changes
<1>6. ASSUME NEW p \in Proc, Truncate(p)
      PROVE  RegistryTypeOK'
  BY <1>5, <1>6 DEF Truncate, Goto, Labels, Ends, NotAFile, Unreadable
<1>7. ASSUME NEW p \in Proc, Write(p)
      PROVE  RegistryTypeOK'
  BY <1>5, <1>7 DEF Write, Written, Goto, Labels, Ends, NotAFile, Unreadable
<1>8. ASSUME NEW p \in Proc, WriteFails(p)
      PROVE  RegistryTypeOK'
  BY <1>5, <1>8 DEF WriteFails, Goto, Labels, Ends, NotAFile, Unreadable
<1>9. ASSUME NEW p \in Proc, Apply(p)
      PROVE  RegistryTypeOK'
  <2>1. UNCHANGED <<file, cmd, kills, broken, base, overlap>>
    BY <1>9 DEF Apply
  <2> QED
    BY <1>1, <1>9, <2>1, ApplyIs DEF Labels, Ends
<1>10. ASSUME NEW p \in Proc, Kill(p)
       PROVE  RegistryTypeOK'
  BY <1>10, RegistryAssumption DEF Kill, Goto, Labels, Ends
<1>11. CASE UNCHANGED registryVars
  BY <1>11 DEF registryVars
<1> QED
  BY <1>2, <1>3, <1>4, <1>6, <1>7, <1>8, <1>9, <1>10, <1>11
     DEF RegistryNext, Step, AllEnded

(* Only normal registries are saved. *)
LEMMA CopiesStep ==
    ASSUME RegistryTypeOK, StageOK, CopiesOK, [RegistryNext]_registryVars
    PROVE  CopiesOK'
<1> USE DEF CopiesOK
<1>1. \A r \in SavedRegistry : Normal(Normalize(r))
  BY NormalizeIs
<1>2. DOMAIN reg = Proc
  BY DEF RegistryTypeOK
<1>3. ASSUME NEW p \in Proc, Load(p)
      PROVE  CopiesOK'
  <2>1. file' = file
    BY <1>3 DEF Load
  <2> QED
    BY <1>1, <1>2, <1>3, <2>1, LoadIs
<1>4. ASSUME NEW p \in Proc, Truncate(p) \/ Write(p) \/ WriteFails(p)
      PROVE  CopiesOK'
  <2>1. reg' = reg /\ file' \in {file, Empty, Torn, reg[p]}
    BY <1>4 DEF Truncate, Write, Written, WriteFails
  <2> QED
    BY <2>1 DEF NotAFile, Unreadable
<1>5. ASSUME NEW p \in Proc, Apply(p)
      PROVE  CopiesOK'
  <2>1. file' = file
    BY <1>5 DEF Apply
  <2> QED
    BY <1>1, <1>2, <1>5, <2>1, ApplyIs
<1>6. ASSUME NEW p \in Proc, Start(p) \/ Ping(p) \/ Kill(p)
      PROVE  CopiesOK'
  BY <1>6 DEF Start, Ping, Kill
<1>7. CASE UNCHANGED registryVars
  BY <1>7 DEF registryVars
<1> QED
  BY <1>3, <1>4, <1>5, <1>6, <1>7 DEF RegistryNext, Step, AllEnded

(* Who changes the file under a writer is noticed. *)
LEMMA WindowStep ==
    ASSUME RegistryTypeOK, StageOK, WindowOK, [RegistryNext]_registryVars
    PROVE  WindowOK'
<1> USE DEF WindowOK
<1>1. pc \in [Proc -> Labels] /\ overlap \in [Proc -> BOOLEAN]
  BY DEF RegistryTypeOK
<1>2. ASSUME NEW p \in Proc, file' = file, overlap' = overlap,
             NEW l, pc' = [pc EXCEPT ![p] = l], l \notin {"rewrite", "write"}
      PROVE  WindowOK'
  BY <1>1, <1>2
<1>3. ASSUME NEW p \in Proc, Start(p) \/ Ping(p) \/ Kill(p)
      PROVE  WindowOK'
  BY <1>2, <1>3 DEF Start, Ping, Kill, Goto
<1>4. ASSUME NEW p \in Proc, Load(p)
      PROVE  WindowOK'
  BY <1>2, <1>4, LoadIs DEF Load
<1>5. ASSUME NEW p \in Proc, Apply(p)
      PROVE  WindowOK'
  BY <1>2, <1>5, ApplyIs DEF Apply
<1>6. ASSUME NEW p \in Proc, Changes(p), NEW q \in Proc, q # p,
             pc[q] \in {"rewrite", "write"}, ~overlap'[q]
      PROVE  file' = file /\ ~overlap[q]
  BY <1>1, <1>6 DEF Changes, InWindow
<1>7. ASSUME NEW p \in Proc, Truncate(p)
      PROVE  WindowOK'
  <2>1. CASE file' = Empty
    BY <2>1
  <2>2. CASE Goto(p, "failed") /\ UNCHANGED file
    BY <1>1, <1>6, <1>7, <2>2 DEF Truncate, Goto
  <2> QED
    BY <1>7, <2>1, <2>2 DEF Truncate
<1>8. ASSUME NEW p \in Proc, Write(p) \/ WriteFails(p)
      PROVE  WindowOK'
  <2>1. /\ Changes(p)
        /\ \E l \in {"apply", "done", "failed"} : pc' = [pc EXCEPT ![p] = l]
    BY <1>8 DEF Write, WriteFails, Goto
  <2> SUFFICES ASSUME NEW q \in Proc, pc'[q] \in {"rewrite", "write"}, ~overlap'[q]
               PROVE  file' = Empty
    OBVIOUS
  <2>2. q # p /\ pc[q] \in {"rewrite", "write"}
    BY <1>1, <2>1
  <2> QED
    BY <1>6, <2>1, <2>2
<1>9. CASE UNCHANGED registryVars
  BY <1>9 DEF registryVars
<1> QED
  BY <1>3, <1>4, <1>5, <1>7, <1>8, <1>9 DEF RegistryNext, Step, AllEnded

(* What a process has made of the registry it read. *)
LEMMA StageStep ==
    ASSUME RegistryTypeOK, StageOK, [RegistryNext]_registryVars
    PROVE  StageOK'
<1> USE DEF StageOK
<1>1. pc \in [Proc -> Labels] /\ DOMAIN reg = Proc /\ DOMAIN base = Proc /\ DOMAIN cmd = Proc
  BY DEF RegistryTypeOK
<1>2. ASSUME NEW p \in Proc, reg' = reg, base' = base, cmd' = cmd,
             NEW l \in {"idle", "ping", "load", "done", "failed", "dead"}, pc' = [pc EXCEPT ![p] = l]
      PROVE  StageOK'
  BY <1>1, <1>2
<1>3. ASSUME NEW p \in Proc, Start(p)
      PROVE  StageOK'
  <2>1. /\ reg' = reg /\ base' = base
        /\ \A q \in Proc : q # p => pc'[q] = pc[q] /\ cmd'[q] = cmd[q]
        /\ pc'[p] \in {"ping", "load"}
    BY <1>1, <1>3 DEF Start, Goto
  <2> QED
    BY <2>1
<1>4. ASSUME NEW p \in Proc, Ping(p) \/ Kill(p) \/ WriteFails(p)
      PROVE  StageOK'
  BY <1>2, <1>4 DEF Ping, Kill, WriteFails, Goto
<1>5. ASSUME NEW p \in Proc, Load(p)
      PROVE  StageOK'
  <2>1. cmd' = cmd
    BY <1>5 DEF Load
  <2>2. CASE reg' = reg /\ base' = base /\ pc' = [pc EXCEPT ![p] = "failed"]
    BY <1>2, <2>1, <2>2
  <2>3. ASSUME NEW r \in SavedRegistry,
               reg' = [reg EXCEPT ![p] = Normalize(r)],
               base' = [base EXCEPT ![p] = r],
               pc' = [pc EXCEPT ![p] = "apply"] \/ pc' = [pc EXCEPT ![p] = "retruncate"]
        PROVE  StageOK'
    <3>1. \A q \in Proc : q # p => pc'[q] = pc[q] /\ reg'[q] = reg[q] /\ base'[q] = base[q] /\ cmd'[q] = cmd[q]
      BY <1>1, <2>1, <2>3
    <3>2. pc'[p] \in {"apply", "retruncate"} /\ reg'[p] = Normalize(base'[p])
      BY <1>1, <2>3
    <3> QED
      BY <3>1, <3>2
  <2> QED
    BY <1>5, <2>2, <2>3, LoadIs
<1>6. ASSUME NEW p \in Proc, Truncate(p) \/ Write(p)
      PROVE  StageOK'
  <2>1. reg' = reg /\ base' = base /\ cmd' = cmd
    BY <1>6 DEF Truncate, Write
  <2>2. \A q \in Proc : q # p => pc'[q] = pc[q]
    BY <1>1, <1>6 DEF Truncate, Write, Goto
  <2>3. \/ pc[p] \in {"retruncate", "rewrite"} /\ pc'[p] \in {"rewrite", "apply"}
        \/ pc[p] = "truncate" /\ pc'[p] = "write"
        \/ pc'[p] \in {"done", "failed"}
    BY <1>1, <1>6 DEF Truncate, Write, Goto
  <2> QED
    BY <2>1, <2>2, <2>3
<1>7. ASSUME NEW p \in Proc, Apply(p)
      PROVE  StageOK'
  <2>1. cmd' = cmd /\ base' = base
    BY <1>7 DEF Apply
  <2>2. CASE /\ reg' = reg
             /\ pc' = [pc EXCEPT ![p] = "failed"] \/ pc' = [pc EXCEPT ![p] = "done"]
    BY <1>2, <2>1, <2>2
  <2>3. ASSUME NEW r \in SavedRegistry,
               reg' = [reg EXCEPT ![p] = Normalize(r)],
               pc' = [pc EXCEPT ![p] = "truncate"],
               Effect(cmd[p], base[p], Normalize(r))
        PROVE  StageOK'
    <3>1. \A q \in Proc : q # p => pc'[q] = pc[q] /\ reg'[q] = reg[q] /\ base'[q] = base[q] /\ cmd'[q] = cmd[q]
      BY <1>1, <2>1, <2>3
    <3>2. pc'[p] = "truncate" /\ reg'[p] = Normalize(r) /\ cmd'[p] = cmd[p] /\ base'[p] = base[p]
      BY <1>1, <2>1, <2>3
    <3>3. Effect(cmd'[p], base'[p], reg'[p])
      BY <2>3, <3>2
    <3> QED
      BY <3>1, <3>2, <3>3
  <2> QED
    BY <1>7, <2>2, <2>3, ApplyIs
<1>8. CASE UNCHANGED registryVars
  BY <1>8 DEF registryVars
<1> QED
  BY <1>3, <1>4, <1>5, <1>6, <1>7, <1>8 DEF RegistryNext, Step, AllEnded

(* Only a write that was disturbed leaves an unreadable file. *)
LEMMA CauseStep ==
    ASSUME RegistryTypeOK, StageOK, WindowOK, UnreadableHasACause, [RegistryNext]_registryVars
    PROVE  UnreadableHasACause'
<1> DEFINE Excused(q) == pc[q] \in {"rewrite", "write"} \/ overlap[q]
<1>1. pc \in [Proc -> Labels] /\ overlap \in [Proc -> BOOLEAN] /\ reg \in [Proc -> SavedRegistry]
  BY DEF RegistryTypeOK
<1>2. SUFFICES ASSUME file' \in Unreadable, ~broken'
               PROVE  \E q \in Proc : pc'[q] \in {"rewrite", "write"} \/ overlap'[q]
  BY DEF UnreadableHasACause
<1>3. ASSUME NEW p \in Proc, file' = file, broken' = broken, overlap' = overlap,
             NEW l, pc' = [pc EXCEPT ![p] = l], pc[p] \notin {"rewrite", "write"}
      PROVE  \E q \in Proc : Excused(q)'
  <2>1. PICK q \in Proc : Excused(q)
    BY <1>2, <1>3 DEF UnreadableHasACause
  <2>2. Excused(q)'
    BY <1>1, <1>3, <2>1
  <2> QED
    BY <2>2
<1>4. ASSUME NEW p \in Proc, Start(p) \/ Ping(p)
      PROVE  \E q \in Proc : Excused(q)'
  BY <1>3, <1>4 DEF Start, Ping, Goto
<1>5. ASSUME NEW p \in Proc, Load(p)
      PROVE  \E q \in Proc : Excused(q)'
  BY <1>3, <1>5, LoadIs DEF Load
<1>6. ASSUME NEW p \in Proc, Apply(p)
      PROVE  \E q \in Proc : Excused(q)'
  BY <1>3, <1>6, ApplyIs DEF Apply
<1>7. ASSUME NEW p \in Proc, Truncate(p)
      PROVE  \E q \in Proc : Excused(q)'
  <2>1. CASE Goto(p, "rewrite") \/ Goto(p, "write")
    BY <1>1, <2>1 DEF Goto
  <2>2. CASE pc[p] \in {"retruncate", "truncate"} /\ Goto(p, "failed") /\ UNCHANGED file
    <3>1. overlap' = overlap /\ broken' = broken
      BY <1>1, <1>7, <2>2 DEF Truncate, Changes
    <3> QED
      BY <1>3, <2>2, <3>1 DEF Goto
  <2> QED
    BY <1>7, <2>1, <2>2 DEF Truncate
<1>8. ASSUME NEW p \in Proc, Write(p)
      PROVE  \E q \in Proc : Excused(q)'
  <2>1. reg[p] \in SavedRegistry /\ reg[p] \notin Unreadable
    BY <1>1, RegistryAssumption DEF NotAFile
  <2>2. file' \in Written(reg[p]) /\ file' # reg[p]
    BY <1>2, <1>8, <2>1 DEF Write
  <2>3. file # Empty
    BY <2>2 DEF Written
  <2>4. overlap[p]
    BY <1>8, <2>3 DEF Write, WindowOK
  <2>5. overlap'[p]
    BY <1>1, <1>8, <2>4 DEF Write, Changes
  <2> QED
    BY <2>5
<1>9. ASSUME NEW p \in Proc, WriteFails(p) \/ Kill(p)
      PROVE  FALSE
  BY <1>2, <1>9 DEF WriteFails, Kill
<1>10. CASE UNCHANGED registryVars
  BY <1>2, <1>10 DEF registryVars, UnreadableHasACause
<1> QED
  BY <1>4, <1>5, <1>6, <1>7, <1>8, <1>9, <1>10 DEF RegistryNext, Step, AllEnded

(* The invariant holds at the start ... *)
LEMMA RegistryInitInv == RegistryInit => RegistryInv
<1> SUFFICES ASSUME RegistryInit
             PROVE  RegistryInv
  OBVIOUS
<1>1. Default \in SavedRegistry /\ Normal(Default)
  BY DEF Default, SavedRegistry, Normal
<1>2. broken \in BOOLEAN
  <2>1. broken = (file \in Unreadable)
    BY DEF RegistryInit
  <2>2. (file \in Unreadable) \in BOOLEAN
    OBVIOUS
  <2> QED
    BY ONLY <2>1, <2>2
<1>3. RegistryTypeOK
  BY <1>1, <1>2, RegistryAssumption DEF RegistryInit, RegistryTypeOK, Labels
<1>4. CopiesOK
  BY <1>1 DEF RegistryInit, CopiesOK
<1>5. WindowOK /\ StageOK
  BY DEF RegistryInit, WindowOK, StageOK
<1>6. UnreadableHasACause
  BY DEF RegistryInit, UnreadableHasACause
<1> QED
  BY <1>3, <1>4, <1>5, <1>6 DEF RegistryInv

(* ... and every step keeps it. *)
LEMMA RegistryNextInv == RegistryInv /\ [RegistryNext]_registryVars => RegistryInv'
BY RegistryTypesStep, CopiesStep, WindowStep, StageStep, CauseStep DEF RegistryInv

(* The registry's inductive invariant holds: the copies are normal, a      *)
(* writer finds the file it truncated, and each copy is what its command   *)
(* makes of the registry it read.                                          *)
THEOREM RegistryInvariance == RegistrySpec => []RegistryInv
<1> QED
  BY RegistryInitInv, RegistryNextInv, PTL DEF RegistrySpec

(* normalize_registry: every file the commands have written has each        *)
(* address once and one of them as its current target, for any commands,    *)
(* interleaved in any way, and any files to start from.                     *)
THEOREM FilesAreNormal == RegistrySpec => []SavedIsNormal
<1>1. RegistryInv => SavedIsNormal
  BY DEF RegistryInv, CopiesOK, SavedIsNormal
<1> QED
  BY <1>1, RegistryInvariance, PTL

(* write_registry: an unreadable file is being written, or a command was    *)
(* killed, could not write or met another one.                              *)
THEOREM BrokenFilesHaveACause == RegistrySpec => []UnreadableHasACause
<1>1. RegistryInv => UnreadableHasACause
  BY DEF RegistryInv
<1> QED
  BY <1>1, RegistryInvariance, PTL

(* A writer that met no other command leaves its copy in the file. *)
LEMMA WritesItsCopy ==
    ASSUME RegistryInv, [RegistryNext]_registryVars, NEW p \in Proc, ~overlap[p],
           \/ pc[p] = "rewrite" /\ pc'[p] = "apply"
           \/ pc[p] = "write" /\ pc'[p] = "done"
    PROVE  file' = reg[p]
<1>1. pc \in [Proc -> Labels] /\ file = Empty
  BY DEF RegistryInv, RegistryTypeOK, WindowOK
<1>2. ASSUME NEW q \in Proc, NEW l, pc' = [pc EXCEPT ![q] = l]
      PROVE  q = p /\ l = pc'[p]
  BY <1>1, <1>2
<1>3. ASSUME NEW q \in Proc, Start(q) \/ Ping(q) \/ Truncate(q) \/ WriteFails(q) \/ Kill(q)
      PROVE  FALSE
  BY <1>2, <1>3 DEF Start, Ping, Truncate, WriteFails, Kill, Goto
<1>4. ASSUME NEW q \in Proc, Load(q) \/ Apply(q)
      PROVE  FALSE
  <2>1. pc[q] \in {"load", "apply"} /\ \E l : pc' = [pc EXCEPT ![q] = l]
    BY <1>4, LoadIs, ApplyIs DEF Load, Apply, RegistryInv
  <2> QED
    BY <1>2, <2>1
<1>5. ASSUME NEW q \in Proc, Write(q)
      PROVE  file' = reg[p]
  <2>1. q = p /\ file' \in Written(reg[q])
    BY <1>2, <1>5 DEF Write, Goto
  <2> QED
    BY <1>1, <2>1 DEF Written
<1>6. CASE UNCHANGED registryVars
  BY <1>6 DEF registryVars
<1> QED
  BY <1>3, <1>4, <1>5, <1>6 DEF RegistryNext, Step, AllEnded

(* load_registry: the rewrite of a file that is not normalized leaves its   *)
(* current device the current one.                                          *)
THEOREM RewritesKeepThePrimary == RegistrySpec => RewriteKeepsPrimary
<1>1. RegistryInv /\ [RegistryNext]_registryVars =>
        [\A p \in Proc : pc[p] = "rewrite" /\ pc'[p] = "apply" /\ ~overlap[p] =>
            PrimaryAddr(file') = PrimaryAddr(base[p])]_registryVars
  <2> SUFFICES ASSUME RegistryInv, [RegistryNext]_registryVars, NEW p \in Proc,
                      pc[p] = "rewrite", pc'[p] = "apply", ~overlap[p]
               PROVE  PrimaryAddr(file') = PrimaryAddr(base[p])
    OBVIOUS
  <2>1. file' = reg[p]
    BY WritesItsCopy
  <2>2. reg[p] = Normalize(base[p]) /\ base[p] \in SavedRegistry
    BY DEF RegistryInv, StageOK, RegistryTypeOK
  <2> QED
    BY <2>1, <2>2, NormalizeIs
<1> QED
  BY <1>1, RegistryInvariance, PTL DEF RegistrySpec, RewriteKeepsPrimary

(* connect_command, disconnect_command and devices_command: a command that  *)
(* met no other one has its effect on the file, and no other.               *)
THEOREM CommandsHaveTheirEffect == RegistrySpec => CommandsTakeEffect
<1>1. RegistryInv /\ [RegistryNext]_registryVars =>
        [\A p \in Proc : pc[p] = "write" /\ pc'[p] = "done" /\ ~overlap[p] =>
            Effect(cmd[p], base[p], file')]_registryVars
  <2> SUFFICES ASSUME RegistryInv, [RegistryNext]_registryVars, NEW p \in Proc,
                      pc[p] = "write", pc'[p] = "done", ~overlap[p]
               PROVE  Effect(cmd[p], base[p], file')
    OBVIOUS
  <2>1. file' = reg[p]
    BY WritesItsCopy
  <2>2. Effect(cmd[p], base[p], reg[p])
    BY DEF RegistryInv, StageOK
  <2> QED
    BY <2>1, <2>2
<1> QED
  BY <1>1, RegistryInvariance, PTL DEF RegistrySpec, CommandsTakeEffect
=============================================================================
