----------------------------- MODULE ShellProofs ----------------------------
(***************************************************************************)
(* Proofs about Shell, for every length of input and output and every      *)
(* capacity of the pipes, the connection and the channels.                 *)
(***************************************************************************)
EXTENDS Shell, SequenceTheorems, TLAPS

(* The two reasons for which a session may fail. *)
Excused == fault \/ (mode = "pty" /\ late)

(* Who has come to an end, and why. *)
EndOK ==
    /\ dpc = "done" => fault \/ child = "exited"
    /\ late => fault \/ child = "exited"
    /\ cpc = "failed" => Excused
    /\ cpc = "ok" => child = "exited"
    /\ child = "exited" /\ up # << >> => late
    /\ waited => child = "exited"
    /\ serr \/ spc = "pass_error" => ClientClosed
    /\ dpc = "write" /\ pending.kind = "exit" => child = "exited"
    /\ dpc = "write" /\ pending.kind = "error" => ClientClosed

(* ShellStarted has not been written. *)
Early == dpc = "spawn" \/ (dpc = "write" /\ pending.kind = "started")

(* How a session starts. *)
StartOK ==
    /\ dpc = "spawn" <=> child = "none" /\ dpc # "done"
    /\ Early => spc = "off" /\ ipump = "off" /\ opump = "off" /\ down = << >>
    /\ spc = "off" => up = << >> /\ pin = << >> /\ cpc \in {"await", "failed"}
    /\ cpc = "await" => up = << >> /\ kbd = << >> /\ rpc = "off" /\ frames = << >>
    /\ cpc = "await" /\ ~Early /\ (~fault \/ dpc # "done") => down # << >>
    /\ cpc = "await" /\ down # << >> => spc = "read" /\ down[1].kind = "started"
    /\ rpc = "off" => cpc \in {"await", "failed"}

(* Which responses are on their way to the client. *)
DownOK ==
    \A i \in DOMAIN down :
        /\ down[i].kind # "error"
        /\ down[i].kind = "started" => i = 1 /\ cpc \in {"await", "failed"}
        /\ down[i].kind = "exit" => i = Len(down) /\ dpc = "done"

(* Behind pipes the client sends one frame, the end of its input. *)
PipeInputOK ==
    mode = "pipe" =>
        /\ typed = 0 /\ kbd = << >> /\ Len(up) <= 1
        /\ cpc = "forward" => up = << >> /\ spc = "read"
        /\ spc \in {"pass", "pass_error", "done"} => ClientClosed \/ (up = << >> /\ cpc = "run")

ExitInDown   == \E i \in DOMAIN down : down[i].kind = "exit"
ExitInFrames == \E i \in DOMAIN frames : frames[i] = "exit"

(* The client finds ShellExit before the end of the connection. *)
ExitOK ==
    /\ frames # << >> /\ ~ClientClosed => frames[1] = "exit" \/ Excused
    /\ dpc = "done" /\ ~ClientClosed /\ ~Excused => frames # << >> \/ ExitInDown
    /\ ExitInFrames => dpc = "done" /\ down = << >>
-----------------------------------------------------------------------------
(* Chunks of ch that have been taken from its pipe, that the loop has taken *)
(* from there and that it has written.                                      *)
Read(ch) == made[ch] - Len(pipe[ch])
InPout   == IF pout = << >> THEN 0 ELSE IF pout[Len(pout)] = Eof THEN Len(pout) - 1 ELSE Len(pout)
Left(ch) == IF ch = "stdout" THEN Read(ch) - InPout ELSE Read(ch)
IsChunk(f, ch) == f.kind = "stream" /\ f.ch = ch /\ f.n # Eof
InHand(ch) == dpc = "write" /\ IsChunk(pending, ch)
Sent(ch) == IF InHand(ch) THEN Left(ch) - 1 ELSE Left(ch)

(* The command has exited, and nobody else writes to its outputs. *)
Gone == child = "exited" /\ ~heirs

(* Output is numbered without gaps: in the pipes, ... *)
PipesOK ==
    /\ mode = "pty" => made["stderr"] = 0 /\ pipe["stderr"] = << >>
    /\ \A ch \in Channel :
         /\ Len(pipe[ch]) <= made[ch]
         /\ \A i \in DOMAIN pipe[ch] : pipe[ch][i] = Read(ch) + i

(* ... on its way from a PTY to the loop, where Eof is the last, ... *)
PoutOK ==
    /\ mode = "pipe" => pout = << >> /\ opump = "off"
    /\ 0 <= Left("stdout")
    /\ \A i \in DOMAIN pout : pout[i] # Eof => pout[i] = Left("stdout") + i
    /\ \A i \in DOMAIN pout : pout[i] = Eof =>
           i = Len(pout) /\ opump = "done" /\ Gone /\ pipe["stdout"] = << >>

(* ... and in the loop. *)
HandOK == \A ch \in Channel : InHand(ch) => pending.n = Left(ch)

(* An output the loop has found at its end is at its end. *)
OpenOK ==
    /\ heirs => child = "exited"
    /\ \A ch \in Channel : ~open[ch] =>
         /\ pipe[ch] = << >>
         /\ mode = "pipe" \/ ch = "stdout" => Gone
         /\ mode = "pty" /\ ch = "stdout" => pout = << >> /\ opump = "done"

(* ShellExit is sent when the command has exited and all outputs have been   *)
(* read to their ends.                                                      *)
Drained == child = "exited" /\ \A ch \in Channel : ~open[ch]
Exiting == (dpc = "write" /\ pending.kind = "exit") \/ ExitInDown \/ ExitInFrames
DrainedOK == Exiting => Drained

(* Nothing that was written to the connection has been thrown away. *)
Intact == ~ClientClosed /\ (dpc # "done" \/ ExitInDown \/ ExitInFrames)

(* The printed chunks s and those among the frames d are the first k of ch. *)
Covers(s, d, k, ch) ==
    /\ s = Count(Len(s)) /\ Len(s) <= k
    /\ \A i \in DOMAIN d : IsChunk(d[i], ch) => Len(s) < d[i].n /\ d[i].n <= k
    /\ \A i, j \in DOMAIN d : i < j /\ IsChunk(d[i], ch) /\ IsChunk(d[j], ch) => d[i].n < d[j].n
    /\ \A m \in Len(s) + 1 .. k : \E i \in DOMAIN d : IsChunk(d[i], ch) /\ d[i].n = m

(* Then what was written is what was printed and what is on its way. *)
ShownOK == Intact => \A ch \in Channel : Covers(shown[ch], down, Sent(ch), ch)
-----------------------------------------------------------------------------
(* Input chunks that have come to the shell, and that have left the client, *)
(* each stage adding what it holds.                                         *)
Came    == Len(taken) + Len(stdin)
Passed  == Came + Len(pin) + (IF spc = "pass" THEN 1 ELSE 0)
Forwarded == Passed + Len(up) + (IF cpc = "forward" THEN 1 ELSE 0)

(* What the user types is numbered without gaps, as far as the chain of     *)
(* stages is unbroken.                                                      *)
TypedOK ==
    /\ \A i \in DOMAIN taken : taken[i] = i
    /\ \A i \in DOMAIN stdin : stdin[i] = Len(taken) + i
    /\ Came <= typed /\ hold <= typed /\ key <= typed
    /\ \A i \in DOMAIN pin : pin[i] <= typed
    /\ \A i \in DOMAIN up : up[i] <= typed
    /\ \A i \in DOMAIN kbd : kbd[i] <= typed

Flow == mode = "pty" /\ ipump # "done" /\ spc \in {"off", "read", "pass"}

InputOK ==
    /\ spc = "pass_error" => hold = Eof
    /\ ipump # "done" =>
           /\ \A i \in DOMAIN pin : pin[i] # Eof => pin[i] = Came + i
           /\ spc = "pass" /\ hold # Eof => hold = Passed
    /\ Flow => \A i \in DOMAIN up : up[i] # Eof => up[i] = Passed + i
    /\ Flow /\ ~ClientClosed =>
           /\ cpc = "forward" /\ key # Eof => key = Forwarded
           /\ \A i \in DOMAIN kbd : kbd[i] # Eof => kbd[i] = Forwarded + i
           /\ keys = "run" => typed = Forwarded + Len(kbd)

(* The inductive invariant. *)
IInv ==
    /\ TypeOK /\ EndOK /\ StartOK /\ DownOK /\ PipeInputOK /\ ExitOK
    /\ PipesOK /\ PoutOK /\ HandOK /\ OpenOK /\ DrainedOK /\ ShownOK /\ ExitMeansAllOutput
    /\ TypedOK /\ InputOK
-----------------------------------------------------------------------------
(* A queue loses its first element or gets a last one. *)
LEMMA Popped ==
    ASSUME NEW S, NEW s \in Seq(S), s # << >>
    PROVE  /\ Head(s) \in S /\ Head(s) = s[1] /\ Tail(s) \in Seq(S)
           /\ Len(s) \in Nat /\ Len(s) >= 1 /\ Len(Tail(s)) = Len(s) - 1
           /\ DOMAIN s = 1 .. Len(s) /\ DOMAIN Tail(s) = 1 .. Len(s) - 1
           /\ \A i \in 1 .. Len(s) - 1 : Tail(s)[i] = s[i + 1]
  BY HeadTailProperties, ElementOfSeq

(* Append: the type, the length and the elements of the longer queue. *)
LEMMA Pushed ==
    ASSUME NEW S, NEW s \in Seq(S), NEW e \in S
    PROVE  /\ Append(s, e) \in Seq(S) /\ Append(s, e) # << >>
           /\ Len(s) \in Nat /\ Len(Append(s, e)) = Len(s) + 1
           /\ DOMAIN s = 1 .. Len(s) /\ DOMAIN Append(s, e) = 1 .. Len(s) + 1
           /\ \A i \in 1 .. Len(s) : Append(s, e)[i] = s[i]
           /\ Append(s, e)[Len(s) + 1] = e
  BY AppendProperties, LenProperties

(* TypeOK, one part per group of variables. *)
ChildT  == /\ child \in {"none", "running", "exited"} /\ heirs \in BOOLEAN
           /\ made \in [Channel -> 0 .. MaxOut] /\ pipe \in [Channel -> Seq(1 .. MaxOut)]
InputT  == stdin \in Seq(1 .. MaxIn) /\ taken \in Seq(1 .. MaxIn)
LoopT   == /\ dpc \in {"spawn", "write", "select", "done"}
           /\ open \in [Channel -> BOOLEAN] /\ waited \in BOOLEAN /\ pending \in DownFrame
StdinT  == /\ spc \in {"off", "read", "pass", "pass_error", "done"}
           /\ hold \in 0 .. MaxIn /\ serr \in BOOLEAN
PtyT    == /\ pin \in Seq(0 .. MaxIn) /\ pout \in Seq(0 .. MaxOut)
           /\ ipump \in {"off", "run", "done"} /\ opump \in {"off", "run", "done"}
           /\ Len(pin) <= PumpCap /\ Len(pout) <= PumpCap
NetT    == /\ up \in Seq(0 .. MaxIn) /\ down \in Seq(DownFrame)
           /\ Len(up) <= NetCap /\ Len(down) <= NetCap
UserT   == /\ typed \in 0 .. MaxIn /\ kbd \in Seq(0 .. MaxIn) /\ keys \in {"run", "done"}
           /\ Len(kbd) <= PumpCap
ClientT == /\ cpc \in {"await", "run", "forward", "ok", "failed"} /\ key \in 0 .. MaxIn
           /\ rpc \in {"off", "run", "done"} /\ frames \in Seq(Response \cup {"broken"})
           /\ shown \in [Channel -> Seq(1 .. MaxOut)]
FaultT  == fault \in BOOLEAN /\ aborted \in BOOLEAN /\ late \in BOOLEAN

(* The type invariant is the conjunction of its parts ... *)
LEMMA TypeParts ==
    TypeOK <=> /\ mode \in {"pipe", "pty"} /\ ChildT /\ InputT /\ LoopT /\ StdinT /\ PtyT
               /\ NetT /\ UserT /\ ClientT /\ FaultT
  BY DEF TypeOK, ChildT, InputT, LoopT, StdinT, PtyT, NetT, UserT, ClientT, FaultT

(* ... in the next state too. *)
LEMMA TypePartsPrimed ==
    TypeOK' <=> /\ mode' \in {"pipe", "pty"} /\ ChildT' /\ InputT' /\ LoopT' /\ StdinT' /\ PtyT'
                /\ NetT' /\ UserT' /\ ClientT' /\ FaultT'
  BY DEF TypeOK, ChildT, InputT, LoopT, StdinT, PtyT, NetT, UserT, ClientT, FaultT

(* Every step keeps the types. *)
LEMMA TypesStep ==
    ASSUME TypeOK, [Next]_vars
    PROVE  TypeOK'
<1> USE DEF Channel, Response, Eof, DownFrame
<1>1. ASSUME NEW ch \in Channel, ChildWrite(ch) PROVE TypeOK'
  <2>1. ChildT'
    BY <1>1, TypeParts, ShellAssumption
       DEF ChildWrite, Writable, Attached, inputVars, loopVars, stdinVars, ptyVars, userVars,
           clientVars, faultVars, ChildT
  <2>2. QED
    BY <1>1, <2>1, TypeParts, TypePartsPrimed
       DEF ChildWrite, inputVars, loopVars, stdinVars, ptyVars, userVars, clientVars, faultVars,
           InputT, LoopT, StdinT, PtyT, NetT, UserT, ClientT, FaultT
<1>2. CASE ChildRead
  <2>1. InputT'
    BY <1>2, TypeParts, ShellAssumption
       DEF ChildRead, childVars, loopVars, stdinVars, ptyVars, userVars, clientVars, faultVars,
           InputT
  <2>2. QED
    BY <1>2, <2>1, TypeParts, TypePartsPrimed
       DEF ChildRead, childVars, loopVars, stdinVars, ptyVars, userVars, clientVars, faultVars,
           ChildT, LoopT, StdinT, PtyT, NetT, UserT, ClientT, FaultT
<1>3. CASE ChildExit
  <2>1. ChildT'
    BY <1>3, TypeParts, ShellAssumption
       DEF ChildExit, inputVars, loopVars, stdinVars, ptyVars, userVars, clientVars, faultVars,
           ChildT
  <2>2. FaultT'
    BY <1>3, TypeParts, ShellAssumption
       DEF ChildExit, inputVars, loopVars, stdinVars, ptyVars, userVars, clientVars, faultVars,
           FaultT
  <2>3. QED
    BY <1>3, <2>1, <2>2, TypeParts, TypePartsPrimed
       DEF ChildExit, inputVars, loopVars, stdinVars, ptyVars, userVars, clientVars, faultVars,
           InputT, LoopT, StdinT, PtyT, NetT, UserT, ClientT
<1>4. CASE HeirsExit
  <2>1. ChildT'
    BY <1>4, TypeParts, ShellAssumption
       DEF HeirsExit, inputVars, loopVars, stdinVars, ptyVars, userVars, clientVars, faultVars,
           ChildT
  <2>2. QED
    BY <1>4, <2>1, TypeParts, TypePartsPrimed
       DEF HeirsExit, inputVars, loopVars, stdinVars, ptyVars, userVars, clientVars, faultVars,
           InputT, LoopT, StdinT, PtyT, NetT, UserT, ClientT, FaultT
<1>5. CASE Spawn
  <2>1. ChildT'
    BY <1>5, TypeParts, ShellAssumption
       DEF Spawn, Send, Resp, inputVars, stdinVars, ptyVars, userVars, clientVars, ChildT
  <2>2. LoopT'
    BY <1>5, TypeParts, ShellAssumption
       DEF Spawn, Send, Resp, inputVars, stdinVars, ptyVars, userVars, clientVars, LoopT
  <2>3. FaultT'
    BY <1>5, TypeParts, ShellAssumption
       DEF Spawn, Send, Resp, inputVars, stdinVars, ptyVars, userVars, clientVars, FaultT
  <2>4. QED
    BY <1>5, <2>1, <2>2, <2>3, TypeParts, TypePartsPrimed
       DEF Spawn, inputVars, stdinVars, ptyVars, userVars, clientVars, InputT, StdinT, PtyT,
           NetT, UserT, ClientT
<1>6. CASE WriteFrame
  <2>1. LoopT'
    BY <1>6, TypeParts, ShellAssumption
       DEF WriteFrame, Start, childVars, inputVars, userVars, clientVars, faultVars, LoopT
  <2>2. StdinT'
    BY <1>6, TypeParts, ShellAssumption
       DEF WriteFrame, Start, childVars, inputVars, userVars, clientVars, faultVars, StdinT
  <2>3. PtyT'
    BY <1>6, TypeParts, ShellAssumption
       DEF WriteFrame, Start, childVars, inputVars, userVars, clientVars, faultVars, PtyT
  <2>4. NetT'
    <3>1. up' = up /\ pending \in DownFrame
      BY <1>6, TypeParts DEF WriteFrame, LoopT
    <3>2. CASE Len(down) < NetCap /\ down' = Append(down, pending)
      BY <3>1, <3>2, TypeParts, ShellAssumption, Pushed DEF NetT
    <3>3. CASE down' = down
      BY <3>1, <3>3, TypeParts DEF NetT
    <3>4. QED
      BY <1>6, <3>2, <3>3 DEF WriteFrame
  <2>5. QED
    BY <1>6, <2>1, <2>2, <2>3, <2>4, TypeParts, TypePartsPrimed
       DEF WriteFrame, childVars, inputVars, userVars, clientVars, faultVars, ChildT, InputT,
           UserT, ClientT, FaultT
<1>7. CASE WriteFails
  <2>1. LoopT'
    BY <1>7, TypeParts, ShellAssumption
       DEF WriteFails, childVars, inputVars, stdinVars, ptyVars, userVars, clientVars, faultVars,
           LoopT
  <2>2. QED
    BY <1>7, <2>1, TypeParts, TypePartsPrimed
       DEF WriteFails, childVars, inputVars, stdinVars, ptyVars, userVars, clientVars, faultVars,
           ChildT, InputT, StdinT, PtyT, NetT, UserT, ClientT, FaultT
<1>8. CASE StdinFailed
  <2>1. LoopT'
    BY <1>8, TypeParts, ShellAssumption
       DEF StdinFailed, Send, Resp, childVars, inputVars, ptyVars, userVars, clientVars,
           faultVars, LoopT
  <2>2. StdinT'
    BY <1>8, TypeParts, ShellAssumption
       DEF StdinFailed, Send, Resp, childVars, inputVars, ptyVars, userVars, clientVars,
           faultVars, StdinT
  <2>3. QED
    BY <1>8, <2>1, <2>2, TypeParts, TypePartsPrimed
       DEF StdinFailed, childVars, inputVars, ptyVars, userVars, clientVars, faultVars, ChildT,
           InputT, PtyT, NetT, UserT, ClientT, FaultT
<1>9. ASSUME NEW ch \in Channel, ReadPipe(ch) PROVE TypeOK'
  <2>1. ChildT'
    <3>1. child' = child /\ heirs' = heirs /\ made' = made
      BY <1>9 DEF ReadPipe
    <3>2. pipe' = pipe \/ (pipe[ch] # << >> /\ pipe' = [pipe EXCEPT ![ch] = Tail(pipe[ch])])
      BY <1>9 DEF ReadPipe
    <3>3. pipe[ch] # << >> => Tail(pipe[ch]) \in Seq(1 .. MaxOut)
      BY TypeParts, Popped DEF ChildT
    <3>4. QED
      BY <3>1, <3>2, <3>3, TypeParts DEF ChildT
  <2>2. LoopT'
    <3>1. dpc' = "write" /\ waited' = waited
      BY <1>9 DEF ReadPipe, Send
    <3>2. pending' \in DownFrame
      <4>1. pipe[ch] # << >> => Head(pipe[ch]) \in 1 .. MaxOut
        BY TypeParts, Popped DEF ChildT
      <4>2. QED
        BY <1>9, <4>1, ShellAssumption DEF ReadPipe, Send, Chunk
    <3>3. open' \in [Channel -> BOOLEAN]
      BY <1>9, TypeParts DEF ReadPipe, LoopT
    <3>4. QED
      BY <3>1, <3>2, <3>3, TypeParts DEF LoopT
  <2>3. QED
    BY <1>9, <2>1, <2>2, TypeParts, TypePartsPrimed
       DEF ReadPipe, inputVars, stdinVars, ptyVars, userVars, clientVars, faultVars, InputT,
           StdinT, PtyT, NetT, UserT, ClientT, FaultT
<1>10. CASE ReadPty
  <2>1. LoopT'
    BY <1>10, TypeParts, ShellAssumption
       DEF ReadPty, Send, Chunk, childVars, inputVars, stdinVars, userVars, clientVars,
           faultVars, LoopT, PtyT
  <2>2. PtyT'
    BY <1>10, TypeParts, ShellAssumption
       DEF ReadPty, Send, Chunk, childVars, inputVars, stdinVars, userVars, clientVars,
           faultVars, PtyT
  <2>3. QED
    BY <1>10, <2>1, <2>2, TypeParts, TypePartsPrimed
       DEF ReadPty, childVars, inputVars, stdinVars, userVars, clientVars, faultVars, ChildT,
           InputT, StdinT, NetT, UserT, ClientT, FaultT
<1>11. CASE ChildWaited
  <2>1. LoopT'
    BY <1>11, TypeParts, ShellAssumption
       DEF ChildWaited, childVars, inputVars, stdinVars, ptyVars, userVars, clientVars,
           faultVars, LoopT
  <2>2. QED
    BY <1>11, <2>1, TypeParts, TypePartsPrimed
       DEF ChildWaited, childVars, inputVars, stdinVars, ptyVars, userVars, clientVars,
           faultVars, ChildT, InputT, StdinT, PtyT, NetT, UserT, ClientT, FaultT
<1>12. CASE LoopFails
  <2>1. LoopT'
    BY <1>12, TypeParts, ShellAssumption
       DEF LoopFails, childVars, inputVars, stdinVars, userVars, clientVars, LoopT
  <2>2. PtyT'
    BY <1>12, TypeParts, ShellAssumption
       DEF LoopFails, childVars, inputVars, stdinVars, userVars, clientVars, PtyT
  <2>3. FaultT'
    BY <1>12, TypeParts, ShellAssumption
       DEF LoopFails, childVars, inputVars, stdinVars, userVars, clientVars, FaultT
  <2>4. QED
    BY <1>12, <2>1, <2>2, <2>3, TypeParts, TypePartsPrimed
       DEF LoopFails, childVars, inputVars, stdinVars, userVars, clientVars, ChildT, InputT,
           StdinT, NetT, UserT, ClientT
<1>13. CASE LoopDone
  <2>1. LoopT'
    BY <1>13, TypeParts, ShellAssumption
       DEF LoopDone, Send, Resp, childVars, inputVars, stdinVars, ptyVars, userVars, clientVars,
           faultVars, LoopT
  <2>2. QED
    BY <1>13, <2>1, TypeParts, TypePartsPrimed
       DEF LoopDone, childVars, inputVars, stdinVars, ptyVars, userVars, clientVars, faultVars,
           ChildT, InputT, StdinT, PtyT, NetT, UserT, ClientT, FaultT
<1>14. CASE StdinRead
  <2>1. StdinT'
    BY <1>14, TypeParts, ShellAssumption
       DEF StdinRead, childVars, inputVars, loopVars, ptyVars, userVars, clientVars, faultVars,
           StdinT, NetT
  <2>2. NetT'
    BY <1>14, TypeParts, ShellAssumption
       DEF StdinRead, childVars, inputVars, loopVars, ptyVars, userVars, clientVars, faultVars,
           NetT
  <2>3. QED
    BY <1>14, <2>1, <2>2, TypeParts, TypePartsPrimed
       DEF StdinRead, childVars, inputVars, loopVars, ptyVars, userVars, clientVars, faultVars,
           ChildT, InputT, LoopT, PtyT, UserT, ClientT, FaultT
<1>15. CASE StdinLost
  <2>1. StdinT'
    BY <1>15, TypeParts, ShellAssumption
       DEF StdinLost, childVars, inputVars, loopVars, ptyVars, userVars, clientVars, faultVars,
           StdinT
  <2>2. QED
    BY <1>15, <2>1, TypeParts, TypePartsPrimed
       DEF StdinLost, childVars, inputVars, loopVars, ptyVars, userVars, clientVars, faultVars,
           ChildT, InputT, LoopT, PtyT, NetT, UserT, ClientT, FaultT
<1>16. CASE StdinShutdown
  <2>1. StdinT'
    BY <1>16, TypeParts, ShellAssumption
       DEF StdinShutdown, childVars, inputVars, loopVars, ptyVars, userVars, clientVars,
           faultVars, StdinT
  <2>2. QED
    BY <1>16, <2>1, TypeParts, TypePartsPrimed
       DEF StdinShutdown, childVars, inputVars, loopVars, ptyVars, userVars, clientVars,
           faultVars, ChildT, InputT, LoopT, PtyT, NetT, UserT, ClientT, FaultT
<1>17. CASE StdinPass
  <2>1. StdinT'
    BY <1>17, TypeParts, ShellAssumption
       DEF StdinPass, childVars, inputVars, loopVars, userVars, clientVars, faultVars, StdinT
  <2>2. PtyT'
    <3>1. UNCHANGED <<ipump, pout, opump>> /\ hold \in 0 .. MaxIn
      BY <1>17, TypeParts DEF StdinPass, StdinT
    <3>2. CASE Len(pin) < PumpCap /\ pin' = Append(pin, hold)
      BY <3>1, <3>2, TypeParts, ShellAssumption, Pushed DEF PtyT
    <3>3. CASE pin' = pin
      BY <3>1, <3>3, TypeParts DEF PtyT
    <3>4. QED
      BY <1>17, <3>2, <3>3 DEF StdinPass
  <2>3. QED
    BY <1>17, <2>1, <2>2, TypeParts, TypePartsPrimed
       DEF StdinPass, childVars, inputVars, loopVars, userVars, clientVars, faultVars, ChildT,
           InputT, LoopT, NetT, UserT, ClientT, FaultT
<1>18. CASE InputPump
  <2>1. InputT'
    <3>1. taken' = taken
      BY <1>18 DEF InputPump
    <3>2. CASE stdin' = stdin
      BY <3>1, <3>2, TypeParts DEF InputT
    <3>3. CASE Head(pin) # Eof /\ stdin' = Append(stdin, Head(pin))
      <4>1. Head(pin) \in 1 .. MaxIn
        BY <1>18, <3>3, TypeParts, Popped, ShellAssumption DEF InputPump, PtyT
      <4>2. QED
        BY <3>1, <3>3, <4>1, TypeParts, Pushed DEF InputT
    <3>4. QED
      BY <1>18, <3>2, <3>3 DEF InputPump
  <2>2. PtyT'
    BY <1>18, TypeParts, ShellAssumption
       DEF InputPump, childVars, loopVars, stdinVars, userVars, clientVars, faultVars, PtyT
  <2>3. QED
    BY <1>18, <2>1, <2>2, TypeParts, TypePartsPrimed
       DEF InputPump, childVars, loopVars, stdinVars, userVars, clientVars, faultVars, ChildT,
           LoopT, StdinT, NetT, UserT, ClientT, FaultT
<1>19. CASE OutputPump
  <2>1. ChildT'
    <3>1. child' = child /\ heirs' = heirs /\ made' = made
      BY <1>19 DEF OutputPump
    <3>2. \/ pipe' = pipe
          \/ pipe["stdout"] # << >> /\ pipe' = [pipe EXCEPT !["stdout"] = Tail(pipe["stdout"])]
      BY <1>19 DEF OutputPump
    <3>3. pipe["stdout"] # << >> => Tail(pipe["stdout"]) \in Seq(1 .. MaxOut)
      BY TypeParts, Popped DEF ChildT
    <3>4. QED
      BY <3>1, <3>2, <3>3, TypeParts DEF ChildT
  <2>2. PtyT'
    <3>1. pin' = pin /\ ipump' = ipump /\ opump' \in {opump, "done"}
      BY <1>19 DEF OutputPump
    <3>2. PICK x \in 0 .. MaxOut : pout' = Append(pout, x)
      <4>1. pipe["stdout"] # << >> => Head(pipe["stdout"]) \in 0 .. MaxOut
        BY TypeParts, Popped, ShellAssumption DEF ChildT
      <4>2. QED
        BY <1>19, <4>1, ShellAssumption DEF OutputPump
    <3>3. Len(pout) < PumpCap
      BY <1>19 DEF OutputPump
    <3>4. QED
      BY <3>1, <3>2, <3>3, TypeParts, ShellAssumption, Pushed DEF PtyT
  <2>3. QED
    BY <1>19, <2>1, <2>2, TypeParts, TypePartsPrimed
       DEF OutputPump, inputVars, loopVars, stdinVars, userVars, clientVars, faultVars, InputT,
           LoopT, StdinT, NetT, UserT, ClientT, FaultT
<1>20. CASE OutputPumpEnds
  <2>1. PtyT'
    BY <1>20, TypeParts, ShellAssumption
       DEF OutputPumpEnds, childVars, inputVars, loopVars, stdinVars, userVars, clientVars,
           faultVars, PtyT
  <2>2. QED
    BY <1>20, <2>1, TypeParts, TypePartsPrimed
       DEF OutputPumpEnds, childVars, inputVars, loopVars, stdinVars, userVars, clientVars,
           faultVars, ChildT, InputT, LoopT, StdinT, NetT, UserT, ClientT, FaultT
<1>21. CASE Started
  <2>1. NetT'
    BY <1>21, TypeParts, ShellAssumption
       DEF Started, childVars, inputVars, loopVars, stdinVars, ptyVars, userVars, faultVars, NetT
  <2>2. ClientT'
    BY <1>21, TypeParts, ShellAssumption
       DEF Started, childVars, inputVars, loopVars, stdinVars, ptyVars, userVars, faultVars,
           ClientT
  <2>3. QED
    BY <1>21, <2>1, <2>2, TypeParts, TypePartsPrimed
       DEF Started, childVars, inputVars, loopVars, stdinVars, ptyVars, userVars, faultVars,
           ChildT, InputT, LoopT, StdinT, PtyT, UserT, FaultT
<1>22. CASE NotStarted
  <2>1. ClientT'
    BY <1>22, TypeParts, ShellAssumption
       DEF NotStarted, childVars, inputVars, loopVars, stdinVars, ptyVars, userVars, faultVars,
           ClientT
  <2>2. QED
    BY <1>22, <2>1, TypeParts, TypePartsPrimed
       DEF NotStarted, childVars, inputVars, loopVars, stdinVars, ptyVars, userVars, faultVars,
           ChildT, InputT, LoopT, StdinT, PtyT, NetT, UserT, FaultT
<1>23. CASE Type
  <2>1. UserT'
    <3>1. PICK x \in 0 .. MaxIn : kbd' = Append(kbd, x)
      BY <1>23, TypeParts, ShellAssumption DEF Type, UserT
    <3>2. Len(kbd) < PumpCap /\ keys' \in {"run", "done"} /\ typed' \in 0 .. MaxIn
      BY <1>23, TypeParts, ShellAssumption DEF Type, UserT
    <3>3. QED
      BY <3>1, <3>2, TypeParts, ShellAssumption, Pushed DEF UserT
  <2>2. QED
    BY <1>23, <2>1, TypeParts, TypePartsPrimed
       DEF Type, childVars, inputVars, loopVars, stdinVars, ptyVars, clientVars, faultVars,
           ChildT, InputT, LoopT, StdinT, PtyT, NetT, ClientT, FaultT
<1>24. CASE TakeKey
  <2>1. UserT'
    BY <1>24, TypeParts, ShellAssumption
       DEF TakeKey, childVars, inputVars, loopVars, stdinVars, ptyVars, faultVars, UserT
  <2>2. ClientT'
    BY <1>24, TypeParts, ShellAssumption
       DEF TakeKey, childVars, inputVars, loopVars, stdinVars, ptyVars, faultVars, ClientT, UserT
  <2>3. QED
    BY <1>24, <2>1, <2>2, TypeParts, TypePartsPrimed
       DEF TakeKey, childVars, inputVars, loopVars, stdinVars, ptyVars, faultVars, ChildT,
           InputT, LoopT, StdinT, PtyT, NetT, FaultT
<1>25. CASE Forward
  <2>1. NetT'
    BY <1>25, TypeParts, ShellAssumption
       DEF Forward, childVars, inputVars, loopVars, stdinVars, ptyVars, userVars, faultVars,
           NetT, ClientT
  <2>2. ClientT'
    BY <1>25, TypeParts, ShellAssumption
       DEF Forward, childVars, inputVars, loopVars, stdinVars, ptyVars, userVars, faultVars,
           ClientT
  <2>3. FaultT'
    BY <1>25, TypeParts, ShellAssumption
       DEF Forward, childVars, inputVars, loopVars, stdinVars, ptyVars, userVars, faultVars,
           FaultT
  <2>4. QED
    BY <1>25, <2>1, <2>2, <2>3, TypeParts, TypePartsPrimed
       DEF Forward, childVars, inputVars, loopVars, stdinVars, ptyVars, userVars, faultVars,
           ChildT, InputT, LoopT, StdinT, PtyT, UserT
<1>26. CASE ForwardLost
  <2>1. ClientT'
    BY <1>26, TypeParts, ShellAssumption
       DEF ForwardLost, childVars, inputVars, loopVars, stdinVars, ptyVars, userVars, faultVars,
           ClientT
  <2>2. FaultT'
    BY <1>26, TypeParts, ShellAssumption
       DEF ForwardLost, childVars, inputVars, loopVars, stdinVars, ptyVars, userVars, faultVars,
           FaultT
  <2>3. NetT'
    <3>1. up' = up /\ down' \in {down, << >>}
      BY <1>26 DEF ForwardLost
    <3>2. CASE down' = down
      BY <3>1, <3>2, TypeParts DEF NetT
    <3>3. CASE down' = << >>
      BY <3>1, <3>3, TypeParts, ShellAssumption DEF NetT
    <3>4. QED
      BY <3>1, <3>2, <3>3
  <2>4. QED
    BY <1>26, <2>1, <2>2, <2>3, TypeParts, TypePartsPrimed
       DEF ForwardLost, childVars, inputVars, loopVars, stdinVars, ptyVars, userVars, faultVars,
           ChildT, InputT, LoopT, StdinT, PtyT, UserT
<1>27. CASE ReadFrame
  <2>1. NetT'
    BY <1>27, TypeParts, ShellAssumption
       DEF ReadFrame, childVars, inputVars, loopVars, stdinVars, ptyVars, userVars, faultVars,
           NetT
  <2>2. ClientT'
    <3>1. UNCHANGED <<cpc, key, rpc>> /\ down # << >>
      BY <1>27 DEF ReadFrame
    <3>2. PICK f \in DownFrame : f = Head(down)
      BY <3>1, TypeParts, Popped DEF NetT
    <3>3. frames' \in Seq(Response \cup {"broken"})
      <4>1. frames' = (IF f.kind = "stream" THEN frames ELSE Append(frames, f.kind))
        BY <1>27, <3>2 DEF ReadFrame
      <4>2. f.kind # "stream" => f.kind \in Response \cup {"broken"}
        OBVIOUS
      <4>3. QED
        BY <4>1, <4>2, TypeParts, Pushed DEF ClientT
    <3>4. shown' \in [Channel -> Seq(1 .. MaxOut)]
      <4>1. shown' = IF f.kind = "stream" /\ f.n # Eof
                     THEN [shown EXCEPT ![f.ch] = Append(shown[f.ch], f.n)] ELSE shown
        BY <1>27, <3>2 DEF ReadFrame
      <4>2. f.n # Eof => f.n \in 1 .. MaxOut
        BY ShellAssumption
      <4>3. f.n # Eof => \A ch \in Channel : Append(shown[ch], f.n) \in Seq(1 .. MaxOut)
        BY <4>2, TypeParts, Pushed DEF ClientT
      <4>4. QED
        BY <4>1, <4>3, TypeParts DEF ClientT
    <3>5. QED
      BY <3>1, <3>3, <3>4, TypeParts DEF ClientT
  <2>3. QED
    BY <1>27, <2>1, <2>2, TypeParts, TypePartsPrimed
       DEF ReadFrame, childVars, inputVars, loopVars, stdinVars, ptyVars, userVars, faultVars,
           ChildT, InputT, LoopT, StdinT, PtyT, UserT, FaultT
<1>28. CASE ReadFails
  <2>1. ClientT'
    BY <1>28, TypeParts, ShellAssumption
       DEF ReadFails, childVars, inputVars, loopVars, stdinVars, ptyVars, userVars, ClientT
  <2>2. FaultT'
    BY <1>28, TypeParts, ShellAssumption
       DEF ReadFails, childVars, inputVars, loopVars, stdinVars, ptyVars, userVars, FaultT
  <2>3. QED
    BY <1>28, <2>1, <2>2, TypeParts, TypePartsPrimed
       DEF ReadFails, childVars, inputVars, loopVars, stdinVars, ptyVars, userVars, ChildT,
           InputT, LoopT, StdinT, PtyT, NetT, UserT
<1>29. CASE HandleFrame
  <2>1. ClientT'
    BY <1>29, TypeParts, ShellAssumption
       DEF HandleFrame, childVars, inputVars, loopVars, stdinVars, ptyVars, userVars, faultVars,
           ClientT
  <2>2. QED
    BY <1>29, <2>1, TypeParts, TypePartsPrimed
       DEF HandleFrame, childVars, inputVars, loopVars, stdinVars, ptyVars, userVars, faultVars,
           ChildT, InputT, LoopT, StdinT, PtyT, NetT, UserT, FaultT
<1>30. CASE ClientQuit
  <2>1. ClientT'
    BY <1>30, TypeParts, ShellAssumption
       DEF ClientQuit, childVars, inputVars, loopVars, stdinVars, ptyVars, userVars, ClientT
  <2>2. FaultT'
    BY <1>30, TypeParts, ShellAssumption
       DEF ClientQuit, childVars, inputVars, loopVars, stdinVars, ptyVars, userVars, FaultT
  <2>3. QED
    BY <1>30, <2>1, <2>2, TypeParts, TypePartsPrimed
       DEF ClientQuit, childVars, inputVars, loopVars, stdinVars, ptyVars, userVars, ChildT,
           InputT, LoopT, StdinT, PtyT, NetT, UserT
<1>31. CASE Reset
  <2>1. NetT'
    BY <1>31, TypeParts, ShellAssumption
       DEF Reset, childVars, inputVars, loopVars, stdinVars, ptyVars, userVars, clientVars,
           faultVars, NetT
  <2>2. QED
    BY <1>31, <2>1, TypeParts, TypePartsPrimed
       DEF Reset, childVars, inputVars, loopVars, stdinVars, ptyVars, userVars, clientVars,
           faultVars, ChildT, InputT, LoopT, StdinT, PtyT, UserT, ClientT, FaultT
<1>32. CASE UNCHANGED vars
  BY <1>32
     DEF vars, childVars, inputVars, loopVars, stdinVars, ptyVars, userVars, clientVars,
         faultVars, TypeOK
<1>33. QED
  BY <1>1, <1>2, <1>3, <1>4, <1>5, <1>6, <1>7, <1>8, <1>9, <1>10, <1>11, <1>12, <1>13, <1>14,
     <1>15, <1>16, <1>17, <1>18, <1>19, <1>20, <1>21, <1>22, <1>23, <1>24, <1>25, <1>26, <1>27,
     <1>28, <1>29, <1>30, <1>31, <1>32
     DEF Next, Command, Loop, Stdin, Output, Main, Reader, Terminated
-----------------------------------------------------------------------------
(* Who ends, and why. *)
LEMMA EndStep ==
    ASSUME TypeOK, TypeOK', EndOK, StartOK, PipeInputOK, ExitOK, DrainedOK, [Next]_vars
    PROVE  EndOK'
<1> USE DEF EndOK, ClientClosed, DaemonClosed, Excused, Channel, Response, Eof, Resp, Chunk
<1>1. ASSUME NEW ch \in Channel, ChildWrite(ch) PROVE EndOK'
  BY <1>1
     DEF ChildWrite, Writable, Attached, inputVars, loopVars, stdinVars, ptyVars, userVars,
         clientVars, faultVars, TypeOK
<1>2. CASE ChildRead
  BY <1>2
     DEF ChildRead, childVars, loopVars, stdinVars, ptyVars, userVars, clientVars, faultVars,
         TypeOK
<1>3. CASE ChildExit
  BY <1>3
     DEF ChildExit, inputVars, loopVars, stdinVars, ptyVars, userVars, clientVars, faultVars,
         TypeOK
<1>4. CASE HeirsExit
  BY <1>4
     DEF HeirsExit, inputVars, loopVars, stdinVars, ptyVars, userVars, clientVars, faultVars,
         TypeOK
<1>5. CASE Spawn
  <2>1. child = "none"
    BY <1>5 DEF Spawn, StartOK
  <2>2. UNCHANGED <<cpc, up, waited, serr, spc, mode, late>>
    BY <1>5 DEF Spawn, clientVars, stdinVars
  <2>3. CASE child' = "running" /\ dpc' = "write" /\ pending' = Resp("started") /\ fault' = fault
    BY <2>1, <2>2, <2>3
  <2>4. CASE dpc' = "done" /\ fault' = TRUE /\ child' = child
    BY <2>1, <2>2, <2>4
  <2>5. QED
    BY <1>5, <2>3, <2>4 DEF Spawn, Send
<1>6. CASE WriteFrame
  <2>1. pending.kind \in Response \cup {"stream"}
    BY DEF TypeOK, DownFrame
  <2>2. /\ UNCHANGED <<child, fault, mode, late, cpc, up, waited, serr>>
        /\ dpc' \in {"select", "done"} /\ spc' \in {spc, "read"}
        /\ dpc' = "done" => pending.kind \notin {"started", "stream"}
    BY <1>6 DEF WriteFrame, Start, childVars, clientVars, faultVars
  <2>3. dpc = "write"
    BY <1>6 DEF WriteFrame
  <2>4. QED
    BY <2>1, <2>2, <2>3
<1>7. CASE WriteFails
  BY <1>7
     DEF WriteFails, childVars, inputVars, stdinVars, ptyVars, userVars, clientVars, faultVars,
         TypeOK
<1>8. CASE StdinFailed
  BY <1>8
     DEF StdinFailed, Send, childVars, inputVars, ptyVars, userVars, clientVars, faultVars,
         TypeOK
<1>9. ASSUME NEW ch \in Channel, ReadPipe(ch) PROVE EndOK'
  <2>1. dpc' = "write" /\ pending'.kind = "stream"
    BY <1>9 DEF ReadPipe, Send
  <2>2. UNCHANGED <<child, fault, mode, late, cpc, up, waited, serr, spc>>
    BY <1>9 DEF ReadPipe, stdinVars, clientVars, faultVars
  <2>3. QED
    BY <2>1, <2>2
<1>10. CASE ReadPty
  BY <1>10
     DEF ReadPty, Send, childVars, inputVars, stdinVars, userVars, clientVars, faultVars, TypeOK
<1>11. CASE ChildWaited
  BY <1>11
     DEF ChildWaited, childVars, inputVars, stdinVars, ptyVars, userVars, clientVars, faultVars,
         TypeOK
<1>12. CASE LoopFails
  BY <1>12 DEF LoopFails, childVars, inputVars, stdinVars, userVars, clientVars, TypeOK
<1>13. CASE LoopDone
  BY <1>13
     DEF LoopDone, Send, childVars, inputVars, stdinVars, ptyVars, userVars, clientVars,
         faultVars, TypeOK
<1>14. CASE StdinRead
  BY <1>14
     DEF StdinRead, childVars, inputVars, loopVars, ptyVars, userVars, clientVars, faultVars,
         TypeOK
<1>15. CASE StdinLost
  BY <1>15
     DEF StdinLost, childVars, inputVars, loopVars, ptyVars, userVars, clientVars, faultVars,
         TypeOK
<1>16. CASE StdinShutdown
  BY <1>16
     DEF StdinShutdown, childVars, inputVars, loopVars, ptyVars, userVars, clientVars, faultVars,
         TypeOK
<1>17. CASE StdinPass
  BY <1>17 DEF StdinPass, childVars, inputVars, loopVars, userVars, clientVars, faultVars, TypeOK
<1>18. CASE InputPump
  BY <1>18 DEF InputPump, childVars, loopVars, stdinVars, userVars, clientVars, faultVars, TypeOK
<1>19. CASE OutputPump
  BY <1>19
     DEF OutputPump, inputVars, loopVars, stdinVars, userVars, clientVars, faultVars, TypeOK
<1>20. CASE OutputPumpEnds
  BY <1>20
     DEF OutputPumpEnds, childVars, inputVars, loopVars, stdinVars, userVars, clientVars,
         faultVars, TypeOK
<1>21. CASE Started
  BY <1>21
     DEF Started, childVars, inputVars, loopVars, stdinVars, ptyVars, userVars, faultVars, TypeOK
<1>22. CASE NotStarted
  BY <1>22
     DEF NotStarted, childVars, inputVars, loopVars, stdinVars, ptyVars, userVars, faultVars,
         StartOK, Early, TypeOK
<1>23. CASE Type
  BY <1>23
     DEF Type, childVars, inputVars, loopVars, stdinVars, ptyVars, clientVars, faultVars, TypeOK
<1>24. CASE TakeKey
  BY <1>24 DEF TakeKey, childVars, inputVars, loopVars, stdinVars, ptyVars, faultVars, TypeOK
<1>25. CASE Forward
  BY <1>25
     DEF Forward, childVars, inputVars, loopVars, stdinVars, ptyVars, userVars, faultVars, TypeOK
<1>26. CASE ForwardLost
  BY <1>26
     DEF ForwardLost, childVars, inputVars, loopVars, stdinVars, ptyVars, userVars, faultVars,
         PipeInputOK, TypeOK
<1>27. CASE ReadFrame
  BY <1>27
     DEF ReadFrame, childVars, inputVars, loopVars, stdinVars, ptyVars, userVars, faultVars,
         TypeOK
<1>28. CASE ReadFails
  BY <1>28 DEF ReadFails, childVars, inputVars, loopVars, stdinVars, ptyVars, userVars, TypeOK
<1>29. CASE HandleFrame
  <2>1. frames # << >> /\ cpc = "run" /\ cpc' = IF frames[1] = "exit" THEN "ok" ELSE "failed"
    BY <1>29, Popped DEF HandleFrame, TypeOK
  <2>2. UNCHANGED <<child, fault, mode, late, dpc, pending, up, waited, serr, spc>>
    BY <1>29 DEF HandleFrame, childVars, loopVars, stdinVars, faultVars
  <2>3. frames[1] = "exit" => child = "exited"
    <3>1. 1 \in DOMAIN frames
      BY <2>1, TypeParts, Popped DEF ClientT
    <3>2. QED
      BY <3>1 DEF DrainedOK, Drained, Exiting, ExitInFrames
  <2>4. QED
    BY <2>1, <2>2, <2>3 DEF ExitOK
<1>30. CASE ClientQuit
  BY <1>30 DEF ClientQuit, childVars, inputVars, loopVars, stdinVars, ptyVars, userVars, TypeOK
<1>31. CASE Reset
  BY <1>31
     DEF Reset, childVars, inputVars, loopVars, stdinVars, ptyVars, userVars, clientVars,
         faultVars, TypeOK
<1>32. CASE UNCHANGED vars
  BY <1>32
     DEF vars, childVars, inputVars, loopVars, stdinVars, ptyVars, userVars, clientVars,
         faultVars, TypeOK
<1>33. QED
  BY <1>1, <1>2, <1>3, <1>4, <1>5, <1>6, <1>7, <1>8, <1>9, <1>10, <1>11, <1>12, <1>13, <1>14,
     <1>15, <1>16, <1>17, <1>18, <1>19, <1>20, <1>21, <1>22, <1>23, <1>24, <1>25, <1>26, <1>27,
     <1>28, <1>29, <1>30, <1>31, <1>32
     DEF Next, Command, Loop, Stdin, Output, Main, Reader, Terminated

(* How it starts. *)
LEMMA StartStep ==
    ASSUME TypeOK, TypeOK', EndOK, StartOK, PipeInputOK, [Next]_vars
    PROVE  StartOK'
<1> USE DEF StartOK, Early, ClientClosed, DaemonClosed, Excused, Channel, Response, Eof, Resp,
            Chunk
<1>1. ASSUME NEW ch \in Channel, ChildWrite(ch) PROVE StartOK'
  BY <1>1
     DEF ChildWrite, Writable, Attached, inputVars, loopVars, stdinVars, ptyVars, userVars,
         clientVars, faultVars, TypeOK
<1>2. CASE ChildRead
  BY <1>2
     DEF ChildRead, childVars, loopVars, stdinVars, ptyVars, userVars, clientVars, faultVars,
         TypeOK
<1>3. CASE ChildExit
  BY <1>3
     DEF ChildExit, inputVars, loopVars, stdinVars, ptyVars, userVars, clientVars, faultVars,
         TypeOK
<1>4. CASE HeirsExit
  BY <1>4
     DEF HeirsExit, inputVars, loopVars, stdinVars, ptyVars, userVars, clientVars, faultVars,
         TypeOK
<1>5. CASE Spawn
  BY <1>5 DEF Spawn, Send, inputVars, stdinVars, ptyVars, userVars, clientVars, TypeOK
<1>6. CASE WriteFrame
  <2>1. /\ UNCHANGED <<child, fault, cpc, up, pin, kbd, rpc, frames, pending>> /\ dpc = "write"
        /\ dpc' \in {"select", "done"} /\ (pending.kind = "started" => dpc' = "select")
    BY <1>6 DEF WriteFrame, Start, childVars, userVars, clientVars, faultVars
  <2>2. \/ ~ClientClosed /\ down' = Append(down, pending)
        \/ ClientClosed /\ down' = down
    BY <1>6 DEF WriteFrame
  <2>3. IF pending.kind = "started" THEN spc' = "read" ELSE UNCHANGED <<spc, ipump, opump>>
    BY <1>6 DEF WriteFrame, Start
  <2>4. down' = Append(down, pending) =>
            down' # << >> /\ down'[1] = IF down = << >> THEN pending ELSE down[1]
    <3>1. down \in Seq(DownFrame) /\ pending \in DownFrame
      BY DEF TypeOK
    <3>2. Len(down) \in Nat /\ (down # << >> => Len(down) >= 1) /\ (down = << >> => Len(down) = 0)
      BY <3>1, EmptySeq, Popped
    <3>3. QED
      BY <3>1, <3>2, Pushed
  <2>5. CASE pending.kind = "started"
    BY <2>1, <2>2, <2>3, <2>4, <2>5
  <2>6. CASE pending.kind # "started"
    BY <2>1, <2>2, <2>3, <2>4, <2>6
  <2>7. QED
    BY <2>5, <2>6
<1>7. CASE WriteFails
  BY <1>7
     DEF WriteFails, childVars, inputVars, stdinVars, ptyVars, userVars, clientVars, faultVars,
         TypeOK
<1>8. CASE StdinFailed
  BY <1>8
     DEF StdinFailed, Send, childVars, inputVars, ptyVars, userVars, clientVars, faultVars,
         TypeOK
<1>9. ASSUME NEW ch \in Channel, ReadPipe(ch) PROVE StartOK'
  <2>1. dpc = "select" /\ dpc' = "write" /\ pending'.kind = "stream"
    BY <1>9 DEF ReadPipe, Send
  <2>2. UNCHANGED <<child, fault, cpc, up, down, pin, kbd, rpc, frames, spc, ipump, opump>>
    BY <1>9 DEF ReadPipe, stdinVars, ptyVars, userVars, clientVars, faultVars
  <2>3. QED
    BY <2>1, <2>2
<1>10. CASE ReadPty
  BY <1>10
     DEF ReadPty, Send, childVars, inputVars, stdinVars, userVars, clientVars, faultVars, TypeOK
<1>11. CASE ChildWaited
  BY <1>11
     DEF ChildWaited, childVars, inputVars, stdinVars, ptyVars, userVars, clientVars, faultVars,
         TypeOK
<1>12. CASE LoopFails
  BY <1>12 DEF LoopFails, childVars, inputVars, stdinVars, userVars, clientVars, TypeOK
<1>13. CASE LoopDone
  BY <1>13
     DEF LoopDone, Send, childVars, inputVars, stdinVars, ptyVars, userVars, clientVars,
         faultVars, TypeOK
<1>14. CASE StdinRead
  BY <1>14
     DEF StdinRead, childVars, inputVars, loopVars, ptyVars, userVars, clientVars, faultVars,
         TypeOK
<1>15. CASE StdinLost
  BY <1>15
     DEF StdinLost, childVars, inputVars, loopVars, ptyVars, userVars, clientVars, faultVars,
         TypeOK
<1>16. CASE StdinShutdown
  BY <1>16
     DEF StdinShutdown, childVars, inputVars, loopVars, ptyVars, userVars, clientVars, faultVars,
         TypeOK
<1>17. CASE StdinPass
  BY <1>17 DEF StdinPass, childVars, inputVars, loopVars, userVars, clientVars, faultVars, TypeOK
<1>18. CASE InputPump
  BY <1>18 DEF InputPump, childVars, loopVars, stdinVars, userVars, clientVars, faultVars, TypeOK
<1>19. CASE OutputPump
  BY <1>19
     DEF OutputPump, inputVars, loopVars, stdinVars, userVars, clientVars, faultVars, TypeOK
<1>20. CASE OutputPumpEnds
  BY <1>20
     DEF OutputPumpEnds, childVars, inputVars, loopVars, stdinVars, userVars, clientVars,
         faultVars, TypeOK
<1>21. CASE Started
  BY <1>21
     DEF Started, childVars, inputVars, loopVars, stdinVars, ptyVars, userVars, faultVars, TypeOK
<1>22. CASE NotStarted
  BY <1>22
     DEF NotStarted, childVars, inputVars, loopVars, stdinVars, ptyVars, userVars, faultVars,
         TypeOK
<1>23. CASE Type
  BY <1>23
     DEF Type, childVars, inputVars, loopVars, stdinVars, ptyVars, clientVars, faultVars, TypeOK
<1>24. CASE TakeKey
  BY <1>24 DEF TakeKey, childVars, inputVars, loopVars, stdinVars, ptyVars, faultVars, TypeOK
<1>25. CASE Forward
  BY <1>25
     DEF Forward, childVars, inputVars, loopVars, stdinVars, ptyVars, userVars, faultVars, TypeOK
<1>26. CASE ForwardLost
  BY <1>26
     DEF ForwardLost, childVars, inputVars, loopVars, stdinVars, ptyVars, userVars, faultVars,
         TypeOK
<1>27. CASE ReadFrame
  BY <1>27
     DEF ReadFrame, childVars, inputVars, loopVars, stdinVars, ptyVars, userVars, faultVars,
         TypeOK
<1>28. CASE ReadFails
  BY <1>28 DEF ReadFails, childVars, inputVars, loopVars, stdinVars, ptyVars, userVars, TypeOK
<1>29. CASE HandleFrame
  BY <1>29
     DEF HandleFrame, childVars, inputVars, loopVars, stdinVars, ptyVars, userVars, faultVars,
         TypeOK
<1>30. CASE ClientQuit
  BY <1>30 DEF ClientQuit, childVars, inputVars, loopVars, stdinVars, ptyVars, userVars, TypeOK
<1>31. CASE Reset
  BY <1>31
     DEF Reset, childVars, inputVars, loopVars, stdinVars, ptyVars, userVars, clientVars,
         faultVars, TypeOK
<1>32. CASE UNCHANGED vars
  BY <1>32
     DEF vars, childVars, inputVars, loopVars, stdinVars, ptyVars, userVars, clientVars,
         faultVars, TypeOK
<1>33. QED
  BY <1>1, <1>2, <1>3, <1>4, <1>5, <1>6, <1>7, <1>8, <1>9, <1>10, <1>11, <1>12, <1>13, <1>14,
     <1>15, <1>16, <1>17, <1>18, <1>19, <1>20, <1>21, <1>22, <1>23, <1>24, <1>25, <1>26, <1>27,
     <1>28, <1>29, <1>30, <1>31, <1>32
     DEF Next, Command, Loop, Stdin, Output, Main, Reader, Terminated

(* A frame is taken from the connection. *)
LEMMA DownPopped ==
    ASSUME TypeOK, down # << >>, down' = Tail(down)
    PROVE  /\ Len(down) \in Nat /\ Len(down) >= 1 /\ Len(down') = Len(down) - 1
           /\ DOMAIN down = 1 .. Len(down) /\ DOMAIN down' = 1 .. Len(down) - 1
           /\ \A i \in DOMAIN down' : i + 1 \in DOMAIN down /\ down'[i] = down[i + 1]
  <1>1. down \in Seq(DownFrame)
    BY DEF TypeOK
  <1>2. QED
    BY <1>1, Popped

(* What is on its way to the client. *)
LEMMA DownStep ==
    ASSUME TypeOK, TypeOK', EndOK, StartOK, DownOK, [Next]_vars
    PROVE  DownOK'
<1> USE DEF DownOK, ClientClosed, DaemonClosed, Excused, Channel, Response, Eof, Resp, Chunk
<1>1. ASSUME NEW ch \in Channel, ChildWrite(ch) PROVE DownOK'
  BY <1>1
     DEF ChildWrite, Writable, Attached, inputVars, loopVars, stdinVars, ptyVars, userVars,
         clientVars, faultVars, TypeOK
<1>2. CASE ChildRead
  BY <1>2
     DEF ChildRead, childVars, loopVars, stdinVars, ptyVars, userVars, clientVars, faultVars,
         TypeOK
<1>3. CASE ChildExit
  BY <1>3
     DEF ChildExit, inputVars, loopVars, stdinVars, ptyVars, userVars, clientVars, faultVars,
         TypeOK
<1>4. CASE HeirsExit
  BY <1>4
     DEF HeirsExit, inputVars, loopVars, stdinVars, ptyVars, userVars, clientVars, faultVars,
         TypeOK
<1>5. CASE Spawn
  BY <1>5 DEF Spawn, Send, inputVars, stdinVars, ptyVars, userVars, clientVars, TypeOK
<1>6. CASE WriteFrame
  <2>1. /\ cpc' = cpc /\ dpc = "write"
        /\ pending.kind = "exit" => dpc' = "done"
    BY <1>6 DEF WriteFrame, clientVars
  <2>2. CASE ~ClientClosed /\ down' = Append(down, pending)
    <3>1. pending.kind # "error" /\ (pending.kind = "started" => down = << >> /\ cpc = "await")
      BY <2>1, <2>2 DEF EndOK, StartOK, Early, TypeOK
    <3>2. \A i \in DOMAIN down : down[i].kind # "exit"
      BY <2>1
    <3>3. /\ Len(down) \in Nat /\ (down = << >> => Len(down) = 0)
          /\ DOMAIN down = 1 .. Len(down)
          /\ DOMAIN down' = 1 .. Len(down) + 1 /\ Len(down') = Len(down) + 1
          /\ \A i \in 1 .. Len(down) : down'[i] = down[i]
          /\ down'[Len(down) + 1] = pending
      <4>1. down \in Seq(DownFrame) /\ pending \in DownFrame
        BY DEF TypeOK
      <4>2. QED
        BY <2>2, <4>1, Pushed, EmptySeq
    <3>4. QED
      BY <2>1, <3>1, <3>2, <3>3
  <2>3. CASE ClientClosed /\ down' = down
    BY <2>1, <2>3
  <2>4. QED
    BY <1>6, <2>2, <2>3 DEF WriteFrame
<1>7. CASE WriteFails
  BY <1>7
     DEF WriteFails, childVars, inputVars, stdinVars, ptyVars, userVars, clientVars, faultVars,
         TypeOK
<1>8. CASE StdinFailed
  BY <1>8
     DEF StdinFailed, Send, childVars, inputVars, ptyVars, userVars, clientVars, faultVars,
         TypeOK
<1>9. ASSUME NEW ch \in Channel, ReadPipe(ch) PROVE DownOK'
  BY <1>9
     DEF ReadPipe, Send, Writable, inputVars, stdinVars, ptyVars, userVars, clientVars,
         faultVars, TypeOK
<1>10. CASE ReadPty
  BY <1>10
     DEF ReadPty, Send, childVars, inputVars, stdinVars, userVars, clientVars, faultVars, TypeOK
<1>11. CASE ChildWaited
  BY <1>11
     DEF ChildWaited, childVars, inputVars, stdinVars, ptyVars, userVars, clientVars, faultVars,
         TypeOK
<1>12. CASE LoopFails
  BY <1>12 DEF LoopFails, childVars, inputVars, stdinVars, userVars, clientVars, TypeOK
<1>13. CASE LoopDone
  BY <1>13
     DEF LoopDone, Send, childVars, inputVars, stdinVars, ptyVars, userVars, clientVars,
         faultVars, TypeOK
<1>14. CASE StdinRead
  BY <1>14
     DEF StdinRead, childVars, inputVars, loopVars, ptyVars, userVars, clientVars, faultVars,
         TypeOK
<1>15. CASE StdinLost
  BY <1>15
     DEF StdinLost, childVars, inputVars, loopVars, ptyVars, userVars, clientVars, faultVars,
         TypeOK
<1>16. CASE StdinShutdown
  BY <1>16
     DEF StdinShutdown, childVars, inputVars, loopVars, ptyVars, userVars, clientVars, faultVars,
         TypeOK
<1>17. CASE StdinPass
  BY <1>17 DEF StdinPass, childVars, inputVars, loopVars, userVars, clientVars, faultVars, TypeOK
<1>18. CASE InputPump
  BY <1>18 DEF InputPump, childVars, loopVars, stdinVars, userVars, clientVars, faultVars, TypeOK
<1>19. CASE OutputPump
  BY <1>19
     DEF OutputPump, inputVars, loopVars, stdinVars, userVars, clientVars, faultVars, TypeOK
<1>20. CASE OutputPumpEnds
  BY <1>20
     DEF OutputPumpEnds, childVars, inputVars, loopVars, stdinVars, userVars, clientVars,
         faultVars, TypeOK
<1>21. CASE Started
  <2>1. down # << >> /\ down' = Tail(down) /\ cpc = "await" /\ dpc' = dpc
    BY <1>21 DEF Started, loopVars
  <2>2. QED
    BY <2>1, DownPopped
<1>22. CASE NotStarted
  BY <1>22
     DEF NotStarted, childVars, inputVars, loopVars, stdinVars, ptyVars, userVars, faultVars,
         TypeOK
<1>23. CASE Type
  BY <1>23
     DEF Type, childVars, inputVars, loopVars, stdinVars, ptyVars, clientVars, faultVars, TypeOK
<1>24. CASE TakeKey
  BY <1>24 DEF TakeKey, childVars, inputVars, loopVars, stdinVars, ptyVars, faultVars, TypeOK
<1>25. CASE Forward
  BY <1>25
     DEF Forward, childVars, inputVars, loopVars, stdinVars, ptyVars, userVars, faultVars, TypeOK
<1>26. CASE ForwardLost
  <2>1. UNCHANGED dpc /\ cpc = "forward" /\ down' \in {down, << >>}
    BY <1>26 DEF ForwardLost, loopVars
  <2>2. CASE down' = << >>
    BY <2>2
  <2>3. CASE down' = down
    BY <2>1, <2>3
  <2>4. QED
    BY <2>1, <2>2, <2>3
<1>27. CASE ReadFrame
  <2>1. down # << >> /\ down' = Tail(down) /\ cpc' = cpc /\ dpc' = dpc
    BY <1>27 DEF ReadFrame, loopVars
  <2>2. QED
    BY <2>1, DownPopped
<1>28. CASE ReadFails
  BY <1>28 DEF ReadFails, childVars, inputVars, loopVars, stdinVars, ptyVars, userVars, TypeOK
<1>29. CASE HandleFrame
  BY <1>29
     DEF HandleFrame, childVars, inputVars, loopVars, stdinVars, ptyVars, userVars, faultVars,
         TypeOK
<1>30. CASE ClientQuit
  BY <1>30 DEF ClientQuit, childVars, inputVars, loopVars, stdinVars, ptyVars, userVars, TypeOK
<1>31. CASE Reset
  BY <1>31
     DEF Reset, childVars, inputVars, loopVars, stdinVars, ptyVars, userVars, clientVars,
         faultVars, TypeOK
<1>32. CASE UNCHANGED vars
  BY <1>32
     DEF vars, childVars, inputVars, loopVars, stdinVars, ptyVars, userVars, clientVars,
         faultVars, TypeOK
<1>33. QED
  BY <1>1, <1>2, <1>3, <1>4, <1>5, <1>6, <1>7, <1>8, <1>9, <1>10, <1>11, <1>12, <1>13, <1>14,
     <1>15, <1>16, <1>17, <1>18, <1>19, <1>20, <1>21, <1>22, <1>23, <1>24, <1>25, <1>26, <1>27,
     <1>28, <1>29, <1>30, <1>31, <1>32
     DEF Next, Command, Loop, Stdin, Output, Main, Reader, Terminated

(* The input of a session behind pipes. *)
LEMMA PipeInputStep ==
    ASSUME TypeOK, TypeOK', StartOK, PipeInputOK, [Next]_vars
    PROVE  PipeInputOK'
<1> USE DEF PipeInputOK, ClientClosed, DaemonClosed, Excused, Channel, Response, Eof, Resp,
            Chunk
<1>1. ASSUME NEW ch \in Channel, ChildWrite(ch) PROVE PipeInputOK'
  BY <1>1
     DEF ChildWrite, Writable, Attached, inputVars, loopVars, stdinVars, ptyVars, userVars,
         clientVars, faultVars, TypeOK
<1>2. CASE ChildRead
  BY <1>2
     DEF ChildRead, childVars, loopVars, stdinVars, ptyVars, userVars, clientVars, faultVars,
         TypeOK
<1>3. CASE ChildExit
  BY <1>3
     DEF ChildExit, inputVars, loopVars, stdinVars, ptyVars, userVars, clientVars, faultVars,
         TypeOK
<1>4. CASE HeirsExit
  BY <1>4
     DEF HeirsExit, inputVars, loopVars, stdinVars, ptyVars, userVars, clientVars, faultVars,
         TypeOK
<1>5. CASE Spawn
  BY <1>5 DEF Spawn, Send, inputVars, stdinVars, ptyVars, userVars, clientVars, TypeOK
<1>6. CASE WriteFrame
  BY <1>6
     DEF WriteFrame, Start, childVars, inputVars, userVars, clientVars, faultVars, StartOK,
         Early, TypeOK
<1>7. CASE WriteFails
  BY <1>7
     DEF WriteFails, childVars, inputVars, stdinVars, ptyVars, userVars, clientVars, faultVars,
         TypeOK
<1>8. CASE StdinFailed
  BY <1>8
     DEF StdinFailed, Send, childVars, inputVars, ptyVars, userVars, clientVars, faultVars,
         TypeOK
<1>9. ASSUME NEW ch \in Channel, ReadPipe(ch) PROVE PipeInputOK'
  BY <1>9
     DEF ReadPipe, Send, Writable, inputVars, stdinVars, ptyVars, userVars, clientVars,
         faultVars, TypeOK
<1>10. CASE ReadPty
  BY <1>10
     DEF ReadPty, Send, childVars, inputVars, stdinVars, userVars, clientVars, faultVars, TypeOK
<1>11. CASE ChildWaited
  BY <1>11
     DEF ChildWaited, childVars, inputVars, stdinVars, ptyVars, userVars, clientVars, faultVars,
         TypeOK
<1>12. CASE LoopFails
  BY <1>12 DEF LoopFails, childVars, inputVars, stdinVars, userVars, clientVars, TypeOK
<1>13. CASE LoopDone
  BY <1>13
     DEF LoopDone, Send, childVars, inputVars, stdinVars, ptyVars, userVars, clientVars,
         faultVars, TypeOK
<1>14. CASE StdinRead
  <2>1. up # << >> /\ up' = Tail(up) /\ spc' = "pass" /\ UNCHANGED <<mode, typed, kbd, cpc>>
    BY <1>14 DEF StdinRead, userVars, clientVars
  <2>2. up \in Seq(0 .. MaxIn)
    BY DEF TypeOK
  <2>3. Len(up) \in Nat /\ Len(up) >= 1 /\ Len(up') = Len(up) - 1 /\ (Len(up') = 0 => up' = << >>)
    BY <2>1, <2>2, Popped, EmptySeq
  <2>4. mode = "pipe" => up' = << >> /\ cpc \in {"run", "ok", "failed"}
    <3>1. mode = "pipe" => Len(up') = 0
      BY <2>3
    <3>2. cpc \in {"await", "run", "forward", "ok", "failed"} /\ up # << >>
      BY <2>1 DEF TypeOK
    <3>3. QED
      BY <2>3, <3>1, <3>2 DEF StartOK
  <2>5. mode = "pipe" => typed = 0 /\ kbd = << >> /\ Len(up') <= 1
    BY <2>1, <2>3
  <2>6. QED
    BY <2>1, <2>4, <2>5
<1>15. CASE StdinLost
  BY <1>15
     DEF StdinLost, childVars, inputVars, loopVars, ptyVars, userVars, clientVars, faultVars,
         TypeOK
<1>16. CASE StdinShutdown
  BY <1>16
     DEF StdinShutdown, childVars, inputVars, loopVars, ptyVars, userVars, clientVars, faultVars,
         TypeOK
<1>17. CASE StdinPass
  BY <1>17 DEF StdinPass, childVars, inputVars, loopVars, userVars, clientVars, faultVars, TypeOK
<1>18. CASE InputPump
  BY <1>18 DEF InputPump, childVars, loopVars, stdinVars, userVars, clientVars, faultVars, TypeOK
<1>19. CASE OutputPump
  BY <1>19
     DEF OutputPump, inputVars, loopVars, stdinVars, userVars, clientVars, faultVars, TypeOK
<1>20. CASE OutputPumpEnds
  BY <1>20
     DEF OutputPumpEnds, childVars, inputVars, loopVars, stdinVars, userVars, clientVars,
         faultVars, TypeOK
<1>21. CASE Started
  BY <1>21
     DEF Started, childVars, inputVars, loopVars, stdinVars, ptyVars, userVars, faultVars,
         StartOK, TypeOK
<1>22. CASE NotStarted
  BY <1>22
     DEF NotStarted, childVars, inputVars, loopVars, stdinVars, ptyVars, userVars, faultVars,
         TypeOK
<1>23. CASE Type
  BY <1>23
     DEF Type, childVars, inputVars, loopVars, stdinVars, ptyVars, clientVars, faultVars, TypeOK
<1>24. CASE TakeKey
  BY <1>24 DEF TakeKey, childVars, inputVars, loopVars, stdinVars, ptyVars, faultVars, TypeOK
<1>25. CASE Forward
  BY <1>25
     DEF Forward, childVars, inputVars, loopVars, stdinVars, ptyVars, userVars, faultVars, TypeOK
<1>26. CASE ForwardLost
  BY <1>26
     DEF ForwardLost, childVars, inputVars, loopVars, stdinVars, ptyVars, userVars, faultVars,
         TypeOK
<1>27. CASE ReadFrame
  BY <1>27
     DEF ReadFrame, childVars, inputVars, loopVars, stdinVars, ptyVars, userVars, faultVars,
         TypeOK
<1>28. CASE ReadFails
  BY <1>28 DEF ReadFails, childVars, inputVars, loopVars, stdinVars, ptyVars, userVars, TypeOK
<1>29. CASE HandleFrame
  BY <1>29
     DEF HandleFrame, childVars, inputVars, loopVars, stdinVars, ptyVars, userVars, faultVars,
         TypeOK
<1>30. CASE ClientQuit
  BY <1>30 DEF ClientQuit, childVars, inputVars, loopVars, stdinVars, ptyVars, userVars, TypeOK
<1>31. CASE Reset
  BY <1>31
     DEF Reset, childVars, inputVars, loopVars, stdinVars, ptyVars, userVars, clientVars,
         faultVars, TypeOK
<1>32. CASE UNCHANGED vars
  BY <1>32
     DEF vars, childVars, inputVars, loopVars, stdinVars, ptyVars, userVars, clientVars,
         faultVars, TypeOK
<1>33. QED
  BY <1>1, <1>2, <1>3, <1>4, <1>5, <1>6, <1>7, <1>8, <1>9, <1>10, <1>11, <1>12, <1>13, <1>14,
     <1>15, <1>16, <1>17, <1>18, <1>19, <1>20, <1>21, <1>22, <1>23, <1>24, <1>25, <1>26, <1>27,
     <1>28, <1>29, <1>30, <1>31, <1>32
     DEF Next, Command, Loop, Stdin, Output, Main, Reader, Terminated

(* ShellExit is found before the connection ends. *)
LEMMA ExitStep ==
    ASSUME TypeOK, TypeOK', EndOK, StartOK, DownOK, PipeInputOK, ExitOK, [Next]_vars
    PROVE  ExitOK'
<1> USE DEF ExitOK, ExitInDown, ExitInFrames, ClientClosed, DaemonClosed, Excused, Channel,
            Response, Eof, Resp, Chunk
<1>1. ASSUME NEW ch \in Channel, ChildWrite(ch) PROVE ExitOK'
  BY <1>1
     DEF ChildWrite, Writable, Attached, inputVars, loopVars, stdinVars, ptyVars, userVars,
         clientVars, faultVars, TypeOK
<1>2. CASE ChildRead
  BY <1>2
     DEF ChildRead, childVars, loopVars, stdinVars, ptyVars, userVars, clientVars, faultVars,
         TypeOK
<1>3. CASE ChildExit
  BY <1>3
     DEF ChildExit, inputVars, loopVars, stdinVars, ptyVars, userVars, clientVars, faultVars,
         TypeOK
<1>4. CASE HeirsExit
  BY <1>4
     DEF HeirsExit, inputVars, loopVars, stdinVars, ptyVars, userVars, clientVars, faultVars,
         TypeOK
<1>5. CASE Spawn
  BY <1>5 DEF Spawn, Send, inputVars, stdinVars, ptyVars, userVars, clientVars, TypeOK
<1>6. CASE WriteFrame
  <2>1. /\ UNCHANGED <<cpc, frames, mode, late, fault>> /\ dpc = "write"
        /\ dpc' = "done" => pending.kind \notin {"started", "stream"}
        /\ pending.kind = "exit" => dpc' = "done"
    BY <1>6 DEF WriteFrame, Start, clientVars, faultVars
  <2>2. ~ExitInFrames /\ frames \in Seq(Response \cup {"broken"})
    BY <2>1 DEF TypeOK
  <2>3. CASE ~ClientClosed /\ down' = Append(down, pending)
    <3>1. dpc' = "done" => pending.kind = "exit"
      BY <2>1, <2>3 DEF EndOK, TypeOK, DownFrame
    <3>2. down'[Len(down) + 1] = pending /\ Len(down) + 1 \in DOMAIN down'
      <4>1. down \in Seq(DownFrame) /\ pending \in DownFrame
        BY DEF TypeOK
      <4>2. QED
        BY <2>3, <4>1, Pushed
    <3>3. dpc' = "done" => ExitInDown'
      BY <3>1, <3>2
    <3>4. QED
      BY <2>1, <2>2, <3>3
  <2>4. CASE ClientClosed /\ down' = down
    BY <2>1, <2>2, <2>4
  <2>5. QED
    BY <1>6, <2>3, <2>4 DEF WriteFrame
<1>7. CASE WriteFails
  BY <1>7
     DEF WriteFails, childVars, inputVars, stdinVars, ptyVars, userVars, clientVars, faultVars,
         EndOK, TypeOK
<1>8. CASE StdinFailed
  BY <1>8
     DEF StdinFailed, Send, childVars, inputVars, ptyVars, userVars, clientVars, faultVars,
         EndOK, TypeOK
<1>9. ASSUME NEW ch \in Channel, ReadPipe(ch) PROVE ExitOK'
  BY <1>9
     DEF ReadPipe, Send, Writable, inputVars, stdinVars, ptyVars, userVars, clientVars,
         faultVars, TypeOK
<1>10. CASE ReadPty
  BY <1>10
     DEF ReadPty, Send, childVars, inputVars, stdinVars, userVars, clientVars, faultVars, TypeOK
<1>11. CASE ChildWaited
  BY <1>11
     DEF ChildWaited, childVars, inputVars, stdinVars, ptyVars, userVars, clientVars, faultVars,
         TypeOK
<1>12. CASE LoopFails
  BY <1>12 DEF LoopFails, childVars, inputVars, stdinVars, userVars, clientVars, TypeOK
<1>13. CASE LoopDone
  BY <1>13
     DEF LoopDone, Send, childVars, inputVars, stdinVars, ptyVars, userVars, clientVars,
         faultVars, TypeOK
<1>14. CASE StdinRead
  BY <1>14
     DEF StdinRead, childVars, inputVars, loopVars, ptyVars, userVars, clientVars, faultVars,
         TypeOK
<1>15. CASE StdinLost
  BY <1>15
     DEF StdinLost, childVars, inputVars, loopVars, ptyVars, userVars, clientVars, faultVars,
         TypeOK
<1>16. CASE StdinShutdown
  BY <1>16
     DEF StdinShutdown, childVars, inputVars, loopVars, ptyVars, userVars, clientVars, faultVars,
         TypeOK
<1>17. CASE StdinPass
  BY <1>17 DEF StdinPass, childVars, inputVars, loopVars, userVars, clientVars, faultVars, TypeOK
<1>18. CASE InputPump
  BY <1>18 DEF InputPump, childVars, loopVars, stdinVars, userVars, clientVars, faultVars, TypeOK
<1>19. CASE OutputPump
  BY <1>19
     DEF OutputPump, inputVars, loopVars, stdinVars, userVars, clientVars, faultVars, TypeOK
<1>20. CASE OutputPumpEnds
  BY <1>20
     DEF OutputPumpEnds, childVars, inputVars, loopVars, stdinVars, userVars, clientVars,
         faultVars, TypeOK
<1>21. CASE Started
  <2>1. /\ down # << >> /\ down' = Tail(down) /\ cpc = "await" /\ cpc' \in {"run", "forward"}
        /\ UNCHANGED <<dpc, frames, mode, late, fault>>
    BY <1>21 DEF Started, loopVars, faultVars
  <2>2. frames = << >> /\ down[1].kind = "started"
    BY <2>1 DEF StartOK
  <2>3. ExitInDown => ExitInDown'
    <3>1. \A i \in DOMAIN down : i = 1 \/ i - 1 \in DOMAIN down'
      BY <2>1, DownPopped
    <3>2. SUFFICES ASSUME NEW i \in DOMAIN down, down[i].kind = "exit"
                   PROVE  ExitInDown'
      OBVIOUS
    <3>3. i # 1 /\ i - 1 \in DOMAIN down' /\ down'[i - 1] = down[i]
      BY <2>1, <2>2, <3>1, <3>2, DownPopped
    <3>4. QED
      BY <3>2, <3>3
  <2>4. QED
    BY <2>1, <2>2, <2>3
<1>22. CASE NotStarted
  BY <1>22
     DEF NotStarted, childVars, inputVars, loopVars, stdinVars, ptyVars, userVars, faultVars,
         StartOK, TypeOK
<1>23. CASE Type
  BY <1>23
     DEF Type, childVars, inputVars, loopVars, stdinVars, ptyVars, clientVars, faultVars, TypeOK
<1>24. CASE TakeKey
  BY <1>24 DEF TakeKey, childVars, inputVars, loopVars, stdinVars, ptyVars, faultVars, TypeOK
<1>25. CASE Forward
  BY <1>25
     DEF Forward, childVars, inputVars, loopVars, stdinVars, ptyVars, userVars, faultVars, TypeOK
<1>26. CASE ForwardLost
  <2>1. /\ cpc = "forward" /\ dpc = "done" /\ spc \in {"off", "done"} /\ late' = TRUE
        /\ UNCHANGED <<dpc, frames, mode, fault>> /\ down' \in {down, << >>}
    BY <1>26 DEF ForwardLost, loopVars, faultVars
  <2>2. mode = "pty"
    BY <2>1 DEF PipeInputOK, TypeOK
  <2>3. QED
    BY <2>1, <2>2
<1>27. CASE ReadFrame
  <2>1. /\ down # << >> /\ down' = Tail(down) /\ rpc = "run" /\ ~ClientClosed
        /\ UNCHANGED <<cpc, dpc, mode, late, fault>>
    BY <1>27 DEF ReadFrame, loopVars, faultVars
  <2>2. PICK f \in DownFrame : f = Head(down) /\ f = down[1]
    BY <2>1, TypeParts, Popped DEF NetT
  <2>3. frames' = IF f.kind = "stream" THEN frames ELSE Append(frames, f.kind)
    BY <1>27, <2>2 DEF ReadFrame
  <2>4. f.kind \in {"stream", "exit"} /\ (f.kind = "exit" => Len(down) = 1 /\ dpc = "done")
    <3>1. 1 \in DOMAIN down
      BY <2>1, DownPopped
    <3>2. QED
      BY <2>1, <2>2, <3>1 DEF DownOK, StartOK, DownFrame
  <2>5. ~ExitInFrames
    BY <2>1
  <2>6. CASE f.kind = "stream"
    <3>1. ExitInDown => ExitInDown'
      <4>1. \A i \in DOMAIN down : i = 1 \/ i - 1 \in DOMAIN down'
        BY <2>1, DownPopped
      <4>2. SUFFICES ASSUME NEW i \in DOMAIN down, down[i].kind = "exit"
                     PROVE  ExitInDown'
        OBVIOUS
      <4>3. i # 1 /\ i - 1 \in DOMAIN down' /\ down'[i - 1] = down[i]
        BY <2>1, <2>2, <2>6, <4>1, <4>2, DownPopped
      <4>4. QED
        BY <4>2, <4>3
    <3>2. QED
      BY <2>1, <2>3, <2>5, <2>6, <3>1
  <2>7. CASE f.kind = "exit"
    <3>1. frames \in Seq(Response \cup {"broken"}) /\ f.kind \in Response \cup {"broken"}
      BY <2>7 DEF TypeOK
    <3>2. frames' # << >> /\ frames'[1] = IF frames = << >> THEN "exit" ELSE frames[1]
      BY <2>3, <2>7, <3>1, Pushed, Popped, EmptySeq
    <3>3. down' = << >>
      <4>1. down' \in Seq(DownFrame) /\ Len(down') = 0
        BY <2>1, <2>4, <2>7, TypePartsPrimed, DownPopped DEF NetT
      <4>2. QED
        BY <4>1, EmptySeq
    <3>4. QED
      BY <2>1, <2>4, <2>7, <3>2, <3>3
  <2>8. QED
    BY <2>4, <2>6, <2>7
<1>28. CASE ReadFails
  <2>1. /\ frames' = Append(frames, "broken") /\ UNCHANGED <<cpc, dpc, mode, late, down>>
        /\ fault => fault'
    BY <1>28 DEF ReadFails, loopVars, TypeOK
  <2>2. frames \in Seq(Response \cup {"broken"})
    BY DEF TypeOK
  <2>3. /\ frames' # << >> /\ frames'[1] = IF frames = << >> THEN "broken" ELSE frames[1]
        /\ DOMAIN frames' = 1 .. Len(frames) + 1 /\ DOMAIN frames = 1 .. Len(frames)
        /\ Len(frames) \in Nat /\ frames'[Len(frames) + 1] = "broken"
        /\ \A i \in DOMAIN frames : frames'[i] = frames[i]
    BY <2>1, <2>2, Pushed, Popped, EmptySeq
  <2>4. ExitInFrames' => ExitInFrames
    BY <2>3
  <2>5. frames = << >> => Excused'
    <3>1. CASE down = << >> /\ DaemonClosed
      BY <1>28, <2>1, <3>1 DEF ReadFails
    <3>2. CASE fault' = TRUE
      BY <3>2
    <3>3. QED
      BY <1>28, <3>1, <3>2 DEF ReadFails
  <2>6. QED
    BY <2>1, <2>3, <2>4, <2>5
<1>29. CASE HandleFrame
  <2>1. /\ frames # << >> /\ frames' = Tail(frames) /\ cpc' \in {"ok", "failed"}
        /\ UNCHANGED <<dpc, down>>
    BY <1>29 DEF HandleFrame, loopVars
  <2>2. ExitInFrames' => ExitInFrames
    <3>1. frames \in Seq(Response \cup {"broken"})
      BY DEF TypeOK
    <3>2. \A i \in DOMAIN frames' : i + 1 \in DOMAIN frames /\ frames'[i] = frames[i + 1]
      BY <2>1, <3>1, Popped
    <3>3. QED
      BY <3>2
  <2>3. QED
    BY <2>1, <2>2
<1>30. CASE ClientQuit
  BY <1>30 DEF ClientQuit, childVars, inputVars, loopVars, stdinVars, ptyVars, userVars, TypeOK
<1>31. CASE Reset
  <2>1. /\ down' = << >> /\ down # << >> /\ UNCHANGED <<cpc, dpc, frames, mode, late, fault>>
        /\ dpc = "done" /\ spc \in {"off", "done"} /\ up # << >>
    BY <1>31 DEF Reset, loopVars, clientVars, faultVars
  <2>2. ClientClosed \/ Excused
    BY <2>1 DEF EndOK, StartOK, PipeInputOK, TypeOK
  <2>3. QED
    BY <2>1, <2>2
<1>32. CASE UNCHANGED vars
  BY <1>32
     DEF vars, childVars, inputVars, loopVars, stdinVars, ptyVars, userVars, clientVars,
         faultVars, TypeOK
<1>33. QED
  BY <1>1, <1>2, <1>3, <1>4, <1>5, <1>6, <1>7, <1>8, <1>9, <1>10, <1>11, <1>12, <1>13, <1>14,
     <1>15, <1>16, <1>17, <1>18, <1>19, <1>20, <1>21, <1>22, <1>23, <1>24, <1>25, <1>26, <1>27,
     <1>28, <1>29, <1>30, <1>31, <1>32
     DEF Next, Command, Loop, Stdin, Output, Main, Reader, Terminated
-----------------------------------------------------------------------------
(* The command writes a chunk. *)
LEMMA ChunkWritten ==
    ASSUME TypeOK, PipesOK, NEW ch \in Channel, ChildWrite(ch)
    PROVE  /\ PipesOK' /\ \A c \in Channel : Read(c)' = Read(c)
           /\ pipe'[ch] # << >> /\ \A c \in Channel : c # ch => pipe'[c] = pipe[c]
<1>1. /\ made' = [made EXCEPT ![ch] = made[ch] + 1] /\ mode' = mode
      /\ pipe' = [pipe EXCEPT ![ch] = Append(pipe[ch], made[ch] + 1)]
      /\ mode = "pipe" \/ ch = "stdout"
      /\ made[ch] < MaxOut
  BY DEF ChildWrite
<1>2. /\ made \in [Channel -> 0 .. MaxOut] /\ pipe \in [Channel -> Seq(1 .. MaxOut)]
      /\ MaxOut \in Nat
  BY ShellAssumption DEF TypeOK
<1>3. made[ch] \in 0 .. MaxOut /\ pipe[ch] \in Seq(1 .. MaxOut) /\ made[ch] + 1 \in 1 .. MaxOut
  BY <1>1, <1>2
<1>4. /\ made'[ch] = made[ch] + 1 /\ pipe'[ch] = Append(pipe[ch], made[ch] + 1)
      /\ \A c \in Channel : c # ch => made'[c] = made[c] /\ pipe'[c] = pipe[c]
  BY <1>1, <1>2
<1>5. /\ pipe'[ch] # << >> /\ Len(pipe'[ch]) = Len(pipe[ch]) + 1 /\ Len(pipe[ch]) \in Nat
      /\ DOMAIN pipe[ch] = 1 .. Len(pipe[ch]) /\ DOMAIN pipe'[ch] = 1 .. Len(pipe[ch]) + 1
      /\ \A i \in 1 .. Len(pipe[ch]) : pipe'[ch][i] = pipe[ch][i]
      /\ pipe'[ch][Len(pipe[ch]) + 1] = made[ch] + 1
  <2>1. PICK p \in Seq(1 .. MaxOut) : p = pipe[ch]
    BY <1>3
  <2>2. PICK v \in 1 .. MaxOut : v = made[ch] + 1
    BY <1>3
  <2>3. pipe'[ch] = Append(p, v)
    BY <1>4, <2>1, <2>2
  <2>4. /\ Append(p, v) # << >> /\ Len(Append(p, v)) = Len(p) + 1 /\ Len(p) \in Nat
        /\ DOMAIN p = 1 .. Len(p) /\ DOMAIN Append(p, v) = 1 .. Len(p) + 1
        /\ \A i \in 1 .. Len(p) : Append(p, v)[i] = p[i]
        /\ Append(p, v)[Len(p) + 1] = v
    BY Pushed
  <2>5. QED
    BY <2>1, <2>2, <2>3, <2>4
<1>6. Read(ch)' = Read(ch)
  <2>1. made[ch] \in Nat /\ Len(pipe[ch]) \in Nat
    BY <1>2, <1>3, <1>5
  <2>2. made'[ch] = made[ch] + 1 /\ Len(pipe'[ch]) = Len(pipe[ch]) + 1
    BY <1>4, <1>5
  <2>3. QED
    BY <2>1, <2>2 DEF Read
<1>7. \A c \in Channel : Read(c)' = Read(c)
  BY <1>4, <1>6 DEF Read
<1>8. Len(pipe'[ch]) <= made'[ch] /\ \A i \in DOMAIN pipe'[ch] : pipe'[ch][i] = Read(ch)' + i
  <2>1. Len(pipe[ch]) <= made[ch] /\ \A i \in DOMAIN pipe[ch] : pipe[ch][i] = Read(ch) + i
    BY DEF PipesOK
  <2>2. made[ch] + 1 = Read(ch) + (Len(pipe[ch]) + 1)
    BY <1>3, <1>5 DEF Read
  <2>3. QED
    BY <1>3, <1>4, <1>5, <1>6, <2>1, <2>2
<1>9. mode = "pty" => made'["stderr"] = 0 /\ pipe'["stderr"] = << >>
  BY <1>1, <1>4 DEF Channel, PipesOK
<1>10. PipesOK'
  BY <1>1, <1>4, <1>7, <1>8, <1>9 DEF PipesOK
<1>11. QED
  BY <1>4, <1>5, <1>7, <1>10

(* A chunk is read from a pipe. *)
LEMMA ChunkRead ==
    ASSUME TypeOK, PipesOK, NEW ch \in Channel, pipe[ch] # << >>,
           pipe' = [pipe EXCEPT ![ch] = Tail(pipe[ch])], UNCHANGED <<mode, made>>
    PROVE  /\ PipesOK' /\ Head(pipe[ch]) = Read(ch) + 1 /\ Read(ch)' = Read(ch) + 1
           /\ Head(pipe[ch]) \in 1 .. MaxOut
           /\ \A c \in Channel : c # ch => Read(c)' = Read(c) /\ pipe'[c] = pipe[c]
<1>1. made \in [Channel -> 0 .. MaxOut] /\ pipe \in [Channel -> Seq(1 .. MaxOut)]
  BY DEF TypeOK
<1>2. made[ch] \in 0 .. MaxOut /\ pipe[ch] \in Seq(1 .. MaxOut) /\ MaxOut \in Nat
  BY <1>1, ShellAssumption
<1>3. /\ pipe'[ch] = Tail(pipe[ch])
      /\ \A c \in Channel : c # ch => pipe'[c] = pipe[c]
  BY <1>1
<1>4. /\ Head(pipe[ch]) \in 1 .. MaxOut /\ Head(pipe[ch]) = pipe[ch][1]
      /\ Len(pipe[ch]) \in Nat /\ Len(pipe[ch]) >= 1 /\ Len(pipe'[ch]) = Len(pipe[ch]) - 1
      /\ DOMAIN pipe[ch] = 1 .. Len(pipe[ch]) /\ DOMAIN pipe'[ch] = 1 .. Len(pipe[ch]) - 1
      /\ \A i \in 1 .. Len(pipe[ch]) - 1 : pipe'[ch][i] = pipe[ch][i + 1]
  <2>1. pipe[ch] \in Seq(1 .. MaxOut) /\ pipe[ch] # << >> /\ pipe'[ch] = Tail(pipe[ch])
    BY <1>2, <1>3
  <2>2. QED
    BY <2>1, Popped
<1>5. Len(pipe[ch]) <= made[ch] /\ \A i \in DOMAIN pipe[ch] : pipe[ch][i] = Read(ch) + i
  BY DEF PipesOK
<1>6. Read(ch)' = Read(ch) + 1 /\ Head(pipe[ch]) = Read(ch) + 1 /\ Read(ch) \in Int
  <2>1. made[ch] \in Nat /\ Len(pipe[ch]) \in Nat /\ Len(pipe'[ch]) = Len(pipe[ch]) - 1
        /\ made' = made
    BY <1>2, <1>4
  <2>2. 1 \in DOMAIN pipe[ch]
    BY <1>4
  <2>3. Head(pipe[ch]) = Read(ch) + 1
    BY <1>4, <1>5, <2>2
  <2>4. QED
    BY <2>1, <2>3 DEF Read
<1>7. Len(pipe'[ch]) <= made[ch] /\ \A i \in DOMAIN pipe'[ch] : pipe'[ch][i] = Read(ch)' + i
  <2>1. Len(pipe'[ch]) <= made[ch]
    BY <1>2, <1>4, <1>5
  <2>2. SUFFICES ASSUME NEW i \in DOMAIN pipe'[ch]
                 PROVE  pipe'[ch][i] = Read(ch)' + i
    BY <2>1
  <2>3. i \in Nat /\ i + 1 \in DOMAIN pipe[ch] /\ pipe'[ch][i] = pipe[ch][i + 1]
    BY <1>4, <2>2
  <2>4. pipe[ch][i + 1] = Read(ch) + (i + 1)
    BY <1>5, <2>3
  <2>5. QED
    BY <1>6, <2>3, <2>4
<1>8. mode = "pty" => pipe'["stderr"] = << >>
  <2>1. CASE ch = "stderr"
    BY <2>1 DEF PipesOK
  <2>2. CASE ch # "stderr"
    BY <1>3, <2>2 DEF Channel, PipesOK
  <2>3. QED
    BY <2>1, <2>2
<1>9. PipesOK'
  BY <1>3, <1>7, <1>8 DEF PipesOK, Read
<1>10. QED
  BY <1>3, <1>4, <1>6, <1>9 DEF Read

(* What has been read of a channel is a number. *)
LEMMA ReadInt ==
    ASSUME TypeOK, NEW ch \in Channel
    PROVE  Read(ch) \in Int /\ Len(pipe[ch]) \in Nat /\ made[ch] \in Nat
<1>1. made[ch] \in Nat /\ pipe[ch] \in Seq(1 .. MaxOut)
  BY ShellAssumption DEF TypeOK
<1>2. Len(pipe[ch]) \in Nat
  BY <1>1, LenProperties
<1>3. QED
  BY <1>1, <1>2 DEF Read

(* The PTY's reading thread passes something on. *)
LEMMA PoutPushed ==
    ASSUME TypeOK, PoutOK, opump = "run", NEW x \in 0 .. MaxOut, pout' = Append(pout, x)
    PROVE  /\ InPout = Len(pout) /\ InPout' = IF x = Eof THEN Len(pout) ELSE Len(pout) + 1
           /\ Len(pout) \in Nat /\ DOMAIN pout = 1 .. Len(pout)
           /\ DOMAIN pout' = 1 .. Len(pout) + 1 /\ Len(pout') = Len(pout) + 1
           /\ \A i \in 1 .. Len(pout) : pout'[i] = pout[i] /\ pout[i] # Eof
           /\ pout'[Len(pout) + 1] = x
<1>1. pout \in Seq(0 .. MaxOut)
  BY DEF TypeOK
<1>2. /\ Len(pout) \in Nat /\ DOMAIN pout = 1 .. Len(pout) /\ pout' # << >>
      /\ DOMAIN pout' = 1 .. Len(pout) + 1 /\ Len(pout') = Len(pout) + 1
      /\ \A i \in 1 .. Len(pout) : pout'[i] = pout[i]
      /\ pout'[Len(pout) + 1] = x
  BY <1>1, Pushed
<1>3. \A i \in 1 .. Len(pout) : pout[i] # Eof
  BY <1>2 DEF PoutOK
<1>4. pout # << >> => Len(pout) \in 1 .. Len(pout)
  BY <1>1, Popped
<1>5. pout = << >> => Len(pout) = 0
  BY EmptySeq
<1>6. InPout = Len(pout)
  BY <1>3, <1>4, <1>5 DEF InPout
<1>7. InPout' = IF x = Eof THEN Len(pout) ELSE Len(pout) + 1
  BY <1>2 DEF InPout
<1>8. QED
  BY <1>2, <1>3, <1>6, <1>7

(* The loop takes it. *)
LEMMA PoutPopped ==
    ASSUME TypeOK, PoutOK, pout # << >>, pout' = Tail(pout)
    PROVE  /\ Head(pout) = pout[1] /\ Head(pout) \in 0 .. MaxOut
           /\ InPout' = IF pout[1] = Eof THEN InPout ELSE InPout - 1
           /\ InPout \in Nat
           /\ pout[1] = Eof => /\ pout' = << >> /\ opump = "done" /\ Gone
                               /\ pipe["stdout"] = << >>
           /\ pout[1] # Eof => pout[1] = Left("stdout") + 1
           /\ \A i \in DOMAIN pout' : i \in Nat /\ i + 1 \in DOMAIN pout /\ pout'[i] = pout[i + 1]
           /\ Len(pout') = Len(pout) - 1 /\ Len(pout) \in Nat
<1>1. pout \in Seq(0 .. MaxOut)
  BY DEF TypeOK
<1>2. /\ Head(pout) = pout[1] /\ Head(pout) \in 0 .. MaxOut /\ pout' \in Seq(0 .. MaxOut)
      /\ Len(pout) \in Nat /\ Len(pout) >= 1 /\ Len(pout') = Len(pout) - 1
      /\ DOMAIN pout = 1 .. Len(pout) /\ DOMAIN pout' = 1 .. Len(pout) - 1
      /\ \A i \in 1 .. Len(pout) - 1 : pout'[i] = pout[i + 1]
  BY <1>1, Popped
<1>3. pout[1] = Eof => /\ Len(pout) = 1 /\ opump = "done" /\ Gone
                       /\ pipe["stdout"] = << >>
  BY <1>2 DEF PoutOK
<1>4. pout[1] # Eof => pout[1] = Left("stdout") + 1
  BY <1>2 DEF PoutOK
<1>5. Len(pout') = 0 <=> pout' = << >>
  BY <1>2, EmptySeq
<1>6. Len(pout) > 1 => pout'[Len(pout')] = pout[Len(pout)]
  BY <1>2
<1>7. InPout' = (IF pout[1] = Eof THEN InPout ELSE InPout - 1) /\ InPout \in Nat
  BY <1>2, <1>3, <1>5, <1>6 DEF InPout
<1>8. QED
  BY <1>2, <1>3, <1>4, <1>5, <1>7

(* The pipes. *)
LEMMA PipesStep ==
    ASSUME TypeOK, TypeOK', PipesOK, [Next]_vars
    PROVE  PipesOK'
<1> USE DEF PipesOK, Read, ClientClosed, DaemonClosed, Channel, Response, Eof, Resp, Chunk
<1>1. ASSUME NEW ch \in Channel, ChildWrite(ch) PROVE PipesOK'
  BY <1>1, ChunkWritten
<1>2. CASE ChildRead
  BY <1>2
     DEF ChildRead, childVars, loopVars, stdinVars, ptyVars, userVars, clientVars, faultVars,
         TypeOK
<1>3. CASE ChildExit
  BY <1>3
     DEF ChildExit, inputVars, loopVars, stdinVars, ptyVars, userVars, clientVars, faultVars,
         TypeOK
<1>4. CASE HeirsExit
  BY <1>4
     DEF HeirsExit, inputVars, loopVars, stdinVars, ptyVars, userVars, clientVars, faultVars,
         TypeOK
<1>5. CASE Spawn
  BY <1>5 DEF Spawn, Send, inputVars, stdinVars, ptyVars, userVars, clientVars, TypeOK
<1>6. CASE WriteFrame
  BY <1>6 DEF WriteFrame, Start, childVars, inputVars, userVars, clientVars, faultVars, TypeOK
<1>7. CASE WriteFails
  BY <1>7
     DEF WriteFails, childVars, inputVars, stdinVars, ptyVars, userVars, clientVars, faultVars,
         TypeOK
<1>8. CASE StdinFailed
  BY <1>8
     DEF StdinFailed, Send, childVars, inputVars, ptyVars, userVars, clientVars, faultVars,
         TypeOK
<1>9. ASSUME NEW ch \in Channel, ReadPipe(ch) PROVE PipesOK'
  <2>1. UNCHANGED <<mode, made>>
    BY <1>9 DEF ReadPipe
  <2>2. CASE pipe[ch] # << >> /\ pipe' = [pipe EXCEPT ![ch] = Tail(pipe[ch])]
    BY <2>1, <2>2, ChunkRead
  <2>3. CASE pipe' = pipe
    BY <2>1, <2>3
  <2>4. QED
    BY <1>9, <2>2, <2>3 DEF ReadPipe
<1>10. CASE ReadPty
  BY <1>10
     DEF ReadPty, Send, childVars, inputVars, stdinVars, userVars, clientVars, faultVars, TypeOK
<1>11. CASE ChildWaited
  BY <1>11
     DEF ChildWaited, childVars, inputVars, stdinVars, ptyVars, userVars, clientVars, faultVars,
         TypeOK
<1>12. CASE LoopFails
  BY <1>12 DEF LoopFails, childVars, inputVars, stdinVars, userVars, clientVars, TypeOK
<1>13. CASE LoopDone
  BY <1>13
     DEF LoopDone, Send, childVars, inputVars, stdinVars, ptyVars, userVars, clientVars,
         faultVars, TypeOK
<1>14. CASE StdinRead
  BY <1>14
     DEF StdinRead, childVars, inputVars, loopVars, ptyVars, userVars, clientVars, faultVars,
         TypeOK
<1>15. CASE StdinLost
  BY <1>15
     DEF StdinLost, childVars, inputVars, loopVars, ptyVars, userVars, clientVars, faultVars,
         TypeOK
<1>16. CASE StdinShutdown
  BY <1>16
     DEF StdinShutdown, childVars, inputVars, loopVars, ptyVars, userVars, clientVars, faultVars,
         TypeOK
<1>17. CASE StdinPass
  BY <1>17 DEF StdinPass, childVars, inputVars, loopVars, userVars, clientVars, faultVars, TypeOK
<1>18. CASE InputPump
  BY <1>18 DEF InputPump, childVars, loopVars, stdinVars, userVars, clientVars, faultVars, TypeOK
<1>19. CASE OutputPump
  <2>1. UNCHANGED <<mode, made>>
    BY <1>19 DEF OutputPump
  <2>2. CASE pipe["stdout"] # << >> /\ pipe' = [pipe EXCEPT !["stdout"] = Tail(pipe["stdout"])]
    BY <2>1, <2>2, ChunkRead
  <2>3. CASE pipe' = pipe
    BY <2>1, <2>3
  <2>4. QED
    BY <1>19, <2>2, <2>3 DEF OutputPump
<1>20. CASE OutputPumpEnds
  BY <1>20
     DEF OutputPumpEnds, childVars, inputVars, loopVars, stdinVars, userVars, clientVars,
         faultVars, TypeOK
<1>21. CASE Started
  BY <1>21
     DEF Started, childVars, inputVars, loopVars, stdinVars, ptyVars, userVars, faultVars, TypeOK
<1>22. CASE NotStarted
  BY <1>22
     DEF NotStarted, childVars, inputVars, loopVars, stdinVars, ptyVars, userVars, faultVars,
         TypeOK
<1>23. CASE Type
  BY <1>23
     DEF Type, childVars, inputVars, loopVars, stdinVars, ptyVars, clientVars, faultVars, TypeOK
<1>24. CASE TakeKey
  BY <1>24 DEF TakeKey, childVars, inputVars, loopVars, stdinVars, ptyVars, faultVars, TypeOK
<1>25. CASE Forward
  BY <1>25
     DEF Forward, childVars, inputVars, loopVars, stdinVars, ptyVars, userVars, faultVars, TypeOK
<1>26. CASE ForwardLost
  BY <1>26
     DEF ForwardLost, childVars, inputVars, loopVars, stdinVars, ptyVars, userVars, faultVars,
         TypeOK
<1>27. CASE ReadFrame
  BY <1>27
     DEF ReadFrame, childVars, inputVars, loopVars, stdinVars, ptyVars, userVars, faultVars,
         TypeOK
<1>28. CASE ReadFails
  BY <1>28 DEF ReadFails, childVars, inputVars, loopVars, stdinVars, ptyVars, userVars, TypeOK
<1>29. CASE HandleFrame
  BY <1>29
     DEF HandleFrame, childVars, inputVars, loopVars, stdinVars, ptyVars, userVars, faultVars,
         TypeOK
<1>30. CASE ClientQuit
  BY <1>30 DEF ClientQuit, childVars, inputVars, loopVars, stdinVars, ptyVars, userVars, TypeOK
<1>31. CASE Reset
  BY <1>31
     DEF Reset, childVars, inputVars, loopVars, stdinVars, ptyVars, userVars, clientVars,
         faultVars, TypeOK
<1>32. CASE UNCHANGED vars
  BY <1>32
     DEF vars, childVars, inputVars, loopVars, stdinVars, ptyVars, userVars, clientVars,
         faultVars, TypeOK
<1>33. QED
  BY <1>1, <1>2, <1>3, <1>4, <1>5, <1>6, <1>7, <1>8, <1>9, <1>10, <1>11, <1>12, <1>13, <1>14,
     <1>15, <1>16, <1>17, <1>18, <1>19, <1>20, <1>21, <1>22, <1>23, <1>24, <1>25, <1>26, <1>27,
     <1>28, <1>29, <1>30, <1>31, <1>32
     DEF Next, Command, Loop, Stdin, Output, Main, Reader, Terminated

(* The PTY's reading thread moves a chunk or reports the end. *)
LEMMA PumpKeepsPout ==
    ASSUME TypeOK, StartOK, PipesOK, PoutOK, OutputPump
    PROVE  PoutOK' /\ PipesOK' /\ \A c \in Channel : Left(c)' = Left(c)
<1>1. opump = "run" /\ mode' = mode /\ made' = made /\ child' = child /\ heirs' = heirs
  BY DEF OutputPump
<1>2. mode # "pipe" /\ 0 <= Left("stdout") /\ "stdout" \in Channel
  BY <1>1 DEF PoutOK, Channel
<1>3. Read("stdout") \in Int
  BY <1>2, ReadInt
<1>4. Left("stdout") = Read("stdout") - InPout /\ Left("stdout")' = Read("stdout")' - InPout'
  BY DEF Left
<1>5. CASE /\ pipe["stdout"] # << >> /\ pout' = Append(pout, Head(pipe["stdout"]))
           /\ pipe' = [pipe EXCEPT !["stdout"] = Tail(pipe["stdout"])] /\ opump' = opump
  <2>1. /\ Head(pipe["stdout"]) = Read("stdout") + 1 /\ Read("stdout")' = Read("stdout") + 1
        /\ Head(pipe["stdout"]) \in 1 .. MaxOut /\ PipesOK'
        /\ \A c \in Channel : c # "stdout" => Read(c)' = Read(c)
    BY <1>1, <1>2, <1>5, ChunkRead
  <2>2. PICK x \in 1 .. MaxOut : x = Head(pipe["stdout"])
    BY <2>1
  <2>3. x # Eof /\ x \in 0 .. MaxOut /\ pout' = Append(pout, x)
    BY <1>5, <2>2, ShellAssumption DEF Eof
  <2>4. PICK k \in Nat : k = Len(pout)
    BY <1>1, <2>3, PoutPushed
  <2>5. /\ InPout = k /\ InPout' = k + 1
        /\ DOMAIN pout = 1 .. k /\ DOMAIN pout' = 1 .. k + 1
        /\ \A i \in 1 .. k : pout'[i] = pout[i] /\ pout[i] # Eof
        /\ pout'[k + 1] = x
    BY <1>1, <2>3, <2>4, PoutPushed
  <2>6. PICK r \in Int : r = Read("stdout")
    BY <1>3
  <2>7. PICK l \in Int : l = Left("stdout") /\ l = r - k
    BY <1>4, <2>5, <2>6
  <2>8. Left("stdout")' = l /\ x = l + (k + 1)
    BY <1>4, <2>1, <2>2, <2>5, <2>6, <2>7
  <2>9. \A i \in DOMAIN pout : pout[i] # Eof => pout[i] = l + i
    BY <2>7 DEF PoutOK
  <2>10. ASSUME NEW i \in DOMAIN pout' PROVE pout'[i] # Eof /\ pout'[i] = l + i
    <3>1. CASE i \in 1 .. k
      BY <2>5, <2>9, <3>1
    <3>2. CASE i = k + 1
      BY <2>3, <2>5, <2>8, <3>2
    <3>3. QED
      BY <2>5, <2>10, <3>1, <3>2
  <2>11. PoutOK'
    BY <1>1, <1>2, <2>7, <2>8, <2>10 DEF PoutOK, Gone
  <2>12. QED
    BY <2>1, <2>7, <2>8, <2>11 DEF Left
<1>6. CASE /\ pipe["stdout"] = << >> /\ ~Writable
           /\ pout' = Append(pout, Eof) /\ opump' = "done" /\ pipe' = pipe
  <2>1. Eof \in 0 .. MaxOut
    BY ShellAssumption DEF Eof
  <2>2. PICK k \in Nat : k = Len(pout)
    BY <1>1, <1>6, <2>1, PoutPushed
  <2>3. /\ InPout = k /\ InPout' = k
        /\ DOMAIN pout = 1 .. k /\ DOMAIN pout' = 1 .. k + 1 /\ Len(pout') = k + 1
        /\ \A i \in 1 .. k : pout'[i] = pout[i] /\ pout[i] # Eof
        /\ pout'[k + 1] = Eof
    BY <1>1, <1>6, <2>1, <2>2, PoutPushed
  <2>4. PipesOK' /\ \A c \in Channel : Read(c)' = Read(c)
    BY <1>1, <1>6 DEF PipesOK, Read
  <2>5. Left("stdout")' = Left("stdout")
    BY <1>2, <1>4, <2>3, <2>4
  <2>6. ASSUME NEW i \in DOMAIN pout' PROVE (i \in DOMAIN pout /\ pout'[i] = pout[i]) \/ i = k + 1
    BY <2>3, <2>6
  <2>7. \A i \in DOMAIN pout' : pout'[i] = Eof => i = Len(pout')
    BY <2>3, <2>6
  <2>8. \A i \in DOMAIN pout' : pout'[i] # Eof => pout'[i] = Left("stdout")' + i
    BY <2>3, <2>5, <2>6 DEF PoutOK
  <2>9. Gone
    BY <1>6 DEF OutputPump, Writable, StartOK, Early, Gone, TypeOK
  <2>10. PoutOK'
    BY <1>1, <1>2, <1>6, <2>5, <2>7, <2>8, <2>9 DEF PoutOK, Gone
  <2>11. QED
    BY <2>4, <2>5, <2>10 DEF Left
<1>7. QED
  BY <1>5, <1>6 DEF OutputPump

(* Nothing else moves output. *)
LEMMA NothingMoves ==
    ASSUME UNCHANGED <<made, pipe, pout>>
    PROVE  \A c \in Channel : Left(c)' = Left(c)
BY DEF Left, Read, InPout

(* What the command writes goes to the pipe: nothing is lost by it. *)
LEMMA WrittenStays ==
    ASSUME TypeOK, PipesOK, NEW ch \in Channel, ChildWrite(ch)
    PROVE  \A c \in Channel : Left(c)' = Left(c)
<1>1. \A c \in Channel : Read(c)' = Read(c)
  BY ChunkWritten
<1>2. pout' = pout
  BY DEF ChildWrite, ptyVars
<1>3. QED
  BY <1>1, <1>2 DEF Left, InPout

(* The loop reads from a pipe. *)
LEMMA PipeTaken ==
    ASSUME TypeOK, PipesOK, PoutOK, NEW ch \in Channel, ReadPipe(ch)
    PROVE  /\ \A c \in Channel : c # ch => Left(c)' = Left(c)
           /\ Left(ch) \in Int
           /\ \/ /\ pending' = Chunk(ch, Left(ch) + 1) /\ Left(ch)' = Left(ch) + 1
                 /\ Left(ch) + 1 # Eof
              \/ pending' = Chunk(ch, Eof) /\ Left(ch)' = Left(ch)
<1>1. mode = "pipe" /\ UNCHANGED <<mode, made, pout>>
  BY DEF ReadPipe, ptyVars
<1>2. pout = << >> /\ pout' = << >>
  BY <1>1 DEF PoutOK
<1>3. InPout = 0 /\ InPout' = 0
  BY <1>2 DEF InPout
<1>4. \A c \in Channel : Read(c) \in Int
  BY ReadInt
<1>5. \A c \in Channel : Left(c) = Read(c)
  BY <1>3, <1>4 DEF Left
<1>6. CASE /\ pipe[ch] # << >> /\ pending' = Chunk(ch, Head(pipe[ch]))
           /\ pipe' = [pipe EXCEPT ![ch] = Tail(pipe[ch])]
  <2>1. /\ Head(pipe[ch]) = Read(ch) + 1 /\ Read(ch)' = Read(ch) + 1
        /\ Head(pipe[ch]) \in 1 .. MaxOut
        /\ \A c \in Channel : c # ch => Read(c)' = Read(c)
    BY <1>1, <1>6, ChunkRead
  <2>2. \A c \in Channel : Read(c)' \in Int
    BY <1>4, <2>1
  <2>3. \A c \in Channel : Left(c)' = Read(c)'
    BY <1>3, <2>2 DEF Left
  <2>4. Left(ch) + 1 # Eof
    BY <1>5, <2>1, ShellAssumption DEF Eof
  <2>5. QED
    BY <1>4, <1>5, <1>6, <2>1, <2>3, <2>4
<1>7. CASE pending' = Chunk(ch, Eof) /\ pipe' = pipe
  <2>1. \A c \in Channel : Left(c)' = Left(c)
    BY <1>1, <1>7, NothingMoves
  <2>2. QED
    BY <1>4, <1>5, <1>7, <2>1
<1>8. QED
  BY <1>6, <1>7 DEF ReadPipe, Send

(* The loop takes something from the PTY's reading thread. *)
LEMMA PtyTaken ==
    ASSUME TypeOK, PipesOK, PoutOK, ReadPty
    PROVE  /\ \A c \in Channel : c # "stdout" => Left(c)' = Left(c)
           /\ Left("stdout") \in Int
           /\ \/ /\ pending' = Chunk("stdout", Left("stdout") + 1) /\ Left("stdout") + 1 # Eof
                 /\ Left("stdout")' = Left("stdout") + 1 /\ Head(pout) # Eof
              \/ /\ pending' = Chunk("stdout", Eof) /\ Left("stdout")' = Left("stdout")
                 /\ Head(pout) = Eof /\ pout' = << >> /\ opump = "done" /\ Gone
                 /\ pipe["stdout"] = << >>
<1>1. /\ pout # << >> /\ pout' = Tail(pout) /\ pending' = Chunk("stdout", Head(pout))
      /\ UNCHANGED <<made, pipe>>
  BY DEF ReadPty, childVars, Send
<1>2. Read("stdout") \in Int /\ \A c \in Channel : Read(c)' = Read(c)
  BY <1>1, ReadInt DEF Read, Channel
<1>3. /\ Head(pout) = pout[1] /\ InPout \in Nat
      /\ InPout' = IF pout[1] = Eof THEN InPout ELSE InPout - 1
      /\ pout[1] = Eof => /\ pout' = << >> /\ opump = "done" /\ Gone
                          /\ pipe["stdout"] = << >>
      /\ pout[1] # Eof => pout[1] = Left("stdout") + 1
  BY <1>1, PoutPopped
<1>4. PICK q \in Nat : q = InPout
  BY <1>3
<1>5. PICK r \in Int : r = Read("stdout") /\ r = Read("stdout")'
  BY <1>2 DEF Channel
<1>6. Left("stdout") = r - q /\ Left("stdout")' = r - InPout'
  BY <1>4, <1>5 DEF Left
<1>7. \A c \in Channel : c # "stdout" => Left(c)' = Left(c)
  BY <1>2 DEF Left
<1>8. CASE pout[1] = Eof
  <2>1. Left("stdout")' = Left("stdout")
    BY <1>3, <1>4, <1>6, <1>8
  <2>2. QED
    BY <1>1, <1>3, <1>6, <1>7, <1>8, <2>1
<1>9. CASE pout[1] # Eof
  <2>1. Left("stdout")' = Left("stdout") + 1 /\ Left("stdout") \in Int
    BY <1>3, <1>4, <1>6, <1>9
  <2>2. QED
    BY <1>1, <1>3, <1>7, <1>9, <2>1
<1>10. QED
  BY <1>8, <1>9

(* The way from the PTY. *)
LEMMA PoutStep ==
    ASSUME TypeOK, TypeOK', PipesOK, PoutOK, OpenOK, StartOK, [Next]_vars
    PROVE  PoutOK'
<1> USE DEF PoutOK, Gone, Read, Left, InPout, ClientClosed, DaemonClosed, Channel, Response, Eof,
            Resp, Chunk
<1>1. ASSUME NEW ch \in Channel, ChildWrite(ch) PROVE PoutOK'
  <2>1. (\A c \in Channel : Read(c)' = Read(c)) /\ pipe'[ch] # << >>
        /\ (\A c \in Channel : c # ch => pipe'[c] = pipe[c])
    BY <1>1, ChunkWritten
  <2>2. Left("stdout")' = Left("stdout")
    BY <1>1, <2>1 DEF ChildWrite, ptyVars
  <2>3. \A i \in DOMAIN pout : pout[i] # Eof
    BY <1>1 DEF ChildWrite, Writable, Attached, OpenOK
  <2>4. QED
    BY <1>1, <2>2, <2>3 DEF ChildWrite, ptyVars
<1>2. CASE ChildRead
  BY <1>2
     DEF ChildRead, childVars, loopVars, stdinVars, ptyVars, userVars, clientVars, faultVars,
         TypeOK
<1>3. CASE ChildExit
  BY <1>3
     DEF ChildExit, inputVars, loopVars, stdinVars, ptyVars, userVars, clientVars, faultVars,
         TypeOK
<1>4. CASE HeirsExit
  BY <1>4
     DEF HeirsExit, inputVars, loopVars, stdinVars, ptyVars, userVars, clientVars, faultVars,
         TypeOK
<1>5. CASE Spawn
  <2>1. child = "none"
    BY <1>5 DEF Spawn, StartOK
  <2>2. UNCHANGED <<mode, made, pipe, pout, opump>>
    BY <1>5 DEF Spawn, ptyVars
  <2>3. QED
    BY <2>1, <2>2
<1>6. CASE WriteFrame
  <2>1. UNCHANGED <<mode, child, heirs, made, pipe, pout>>
    BY <1>6 DEF WriteFrame, childVars
  <2>2. opump' = opump \/ (Early /\ mode = "pty" /\ opump' = "run")
    BY <1>6 DEF WriteFrame, Start, Early
  <2>3. Early => opump = "off"
    BY DEF StartOK
  <2>4. QED
    BY <2>1, <2>2, <2>3
<1>7. CASE WriteFails
  BY <1>7
     DEF WriteFails, childVars, inputVars, stdinVars, ptyVars, userVars, clientVars, faultVars,
         TypeOK
<1>8. CASE StdinFailed
  BY <1>8
     DEF StdinFailed, Send, childVars, inputVars, ptyVars, userVars, clientVars, faultVars,
         TypeOK
<1>9. ASSUME NEW ch \in Channel, ReadPipe(ch) PROVE PoutOK'
  <2>1. UNCHANGED <<mode, made, pout, opump, child>> /\ mode = "pipe"
    BY <1>9 DEF ReadPipe, ptyVars
  <2>2. pout = << >> /\ pout' = << >>
    BY <2>1
  <2>3. PipesOK'
    BY <1>9, PipesStep DEF Next, Loop
  <2>4. 0 <= Left("stdout")'
    <3>1. made'["stdout"] \in Nat /\ Len(pipe'["stdout"]) \in Nat
      <4>1. made'["stdout"] \in Nat /\ pipe'["stdout"] \in Seq(1 .. MaxOut)
        BY ShellAssumption DEF TypeOK
      <4>2. QED
        BY <4>1, LenProperties
    <3>2. Len(pipe'["stdout"]) <= made'["stdout"]
      BY <2>3 DEF PipesOK
    <3>3. QED
      BY <2>2, <3>1, <3>2
  <2>5. QED
    BY <2>1, <2>2, <2>4
<1>10. CASE ReadPty
  <2>1. pout # << >> /\ pout' = Tail(pout) /\ UNCHANGED <<mode, made, pipe, opump, child, heirs>>
    BY <1>10 DEF ReadPty, childVars
  <2>2. mode = "pty"
    BY <1>10 DEF ReadPty
  <2>3. Read("stdout") \in Int /\ Read("stdout")' = Read("stdout")
    BY <2>1, ReadInt
  <2>4. Left("stdout")' = IF pout[1] = Eof THEN Left("stdout") ELSE Left("stdout") + 1
    <3>1. InPout' = (IF pout[1] = Eof THEN InPout ELSE InPout - 1) /\ InPout \in Nat
      BY <2>1, PoutPopped
    <3>2. Left("stdout") = Read("stdout") - InPout /\ Left("stdout")' = Read("stdout")' - InPout'
      BY DEF Left
    <3>3. QED
      BY <2>3, <3>1, <3>2
  <2>5. Left("stdout") \in Int
    <3>1. InPout \in Nat
      BY <2>1, PoutPopped
    <3>2. QED
      BY <2>3, <3>1 DEF Left
  <2>6. \A i \in DOMAIN pout' : i \in Nat /\ i + 1 \in DOMAIN pout /\ pout'[i] = pout[i + 1]
    BY <2>1, PoutPopped
  <2>7. pout[1] = Eof => DOMAIN pout' = {}
    BY <2>1, PoutPopped
  <2>8. Len(pout') = Len(pout) - 1 /\ Len(pout) \in Nat
    BY <2>1, PoutPopped
  <2>9. 0 <= Left("stdout")'
    BY <2>4, <2>5
  <2>10. \A i \in DOMAIN pout' : pout'[i] # Eof => pout'[i] = Left("stdout")' + i
    BY <2>4, <2>5, <2>6, <2>7
  <2>11. \A i \in DOMAIN pout' : pout'[i] = Eof =>
             i = Len(pout') /\ opump = "done" /\ Gone /\ pipe["stdout"] = << >>
    BY <2>6, <2>8
  <2>12. QED
    BY <2>1, <2>2, <2>9, <2>10, <2>11
<1>11. CASE ChildWaited
  BY <1>11
     DEF ChildWaited, childVars, inputVars, stdinVars, ptyVars, userVars, clientVars, faultVars,
         TypeOK
<1>12. CASE LoopFails
  BY <1>12 DEF LoopFails, childVars, inputVars, stdinVars, userVars, clientVars, TypeOK
<1>13. CASE LoopDone
  BY <1>13
     DEF LoopDone, Send, childVars, inputVars, stdinVars, ptyVars, userVars, clientVars,
         faultVars, TypeOK
<1>14. CASE StdinRead
  BY <1>14
     DEF StdinRead, childVars, inputVars, loopVars, ptyVars, userVars, clientVars, faultVars,
         TypeOK
<1>15. CASE StdinLost
  BY <1>15
     DEF StdinLost, childVars, inputVars, loopVars, ptyVars, userVars, clientVars, faultVars,
         TypeOK
<1>16. CASE StdinShutdown
  BY <1>16
     DEF StdinShutdown, childVars, inputVars, loopVars, ptyVars, userVars, clientVars, faultVars,
         TypeOK
<1>17. CASE StdinPass
  BY <1>17 DEF StdinPass, childVars, inputVars, loopVars, userVars, clientVars, faultVars, TypeOK
<1>18. CASE InputPump
  BY <1>18 DEF InputPump, childVars, loopVars, stdinVars, userVars, clientVars, faultVars, TypeOK
<1>19. CASE OutputPump
  BY <1>19, PumpKeepsPout
<1>20. CASE OutputPumpEnds
  BY <1>20
     DEF OutputPumpEnds, childVars, inputVars, loopVars, stdinVars, userVars, clientVars,
         faultVars, TypeOK
<1>21. CASE Started
  BY <1>21
     DEF Started, childVars, inputVars, loopVars, stdinVars, ptyVars, userVars, faultVars, TypeOK
<1>22. CASE NotStarted
  BY <1>22
     DEF NotStarted, childVars, inputVars, loopVars, stdinVars, ptyVars, userVars, faultVars,
         TypeOK
<1>23. CASE Type
  BY <1>23
     DEF Type, childVars, inputVars, loopVars, stdinVars, ptyVars, clientVars, faultVars, TypeOK
<1>24. CASE TakeKey
  BY <1>24 DEF TakeKey, childVars, inputVars, loopVars, stdinVars, ptyVars, faultVars, TypeOK
<1>25. CASE Forward
  BY <1>25
     DEF Forward, childVars, inputVars, loopVars, stdinVars, ptyVars, userVars, faultVars, TypeOK
<1>26. CASE ForwardLost
  BY <1>26
     DEF ForwardLost, childVars, inputVars, loopVars, stdinVars, ptyVars, userVars, faultVars,
         TypeOK
<1>27. CASE ReadFrame
  BY <1>27
     DEF ReadFrame, childVars, inputVars, loopVars, stdinVars, ptyVars, userVars, faultVars,
         TypeOK
<1>28. CASE ReadFails
  BY <1>28 DEF ReadFails, childVars, inputVars, loopVars, stdinVars, ptyVars, userVars, TypeOK
<1>29. CASE HandleFrame
  BY <1>29
     DEF HandleFrame, childVars, inputVars, loopVars, stdinVars, ptyVars, userVars, faultVars,
         TypeOK
<1>30. CASE ClientQuit
  BY <1>30 DEF ClientQuit, childVars, inputVars, loopVars, stdinVars, ptyVars, userVars, TypeOK
<1>31. CASE Reset
  BY <1>31
     DEF Reset, childVars, inputVars, loopVars, stdinVars, ptyVars, userVars, clientVars,
         faultVars, TypeOK
<1>32. CASE UNCHANGED vars
  BY <1>32
     DEF vars, childVars, inputVars, loopVars, stdinVars, ptyVars, userVars, clientVars,
         faultVars, TypeOK
<1>33. QED
  BY <1>1, <1>2, <1>3, <1>4, <1>5, <1>6, <1>7, <1>8, <1>9, <1>10, <1>11, <1>12, <1>13, <1>14,
     <1>15, <1>16, <1>17, <1>18, <1>19, <1>20, <1>21, <1>22, <1>23, <1>24, <1>25, <1>26, <1>27,
     <1>28, <1>29, <1>30, <1>31, <1>32
     DEF Next, Command, Loop, Stdin, Output, Main, Reader, Terminated
-----------------------------------------------------------------------------
(* The chunk the loop is writing. *)
LEMMA HandStep ==
    ASSUME TypeOK, StartOK, PipesOK, PoutOK, HandOK, [Next]_vars
    PROVE  HandOK'
<1>1. ASSUME NEW ch \in Channel, ChildWrite(ch) PROVE HandOK'
  <2>1. UNCHANGED <<dpc, pending>>
    BY <1>1 DEF ChildWrite, loopVars
  <2>2. \A c \in Channel : Left(c)' = Left(c)
    BY <1>1, WrittenStays
  <2>3. QED
    BY <2>1, <2>2 DEF HandOK, InHand
<1>2. CASE ChildRead
  BY <1>2
     DEF ChildRead, childVars, loopVars, stdinVars, ptyVars, userVars, clientVars, faultVars,
         HandOK, InHand, IsChunk, Left, Read, InPout, Resp
<1>3. CASE ChildExit
  BY <1>3
     DEF ChildExit, inputVars, loopVars, stdinVars, ptyVars, userVars, clientVars, faultVars,
         HandOK, InHand, IsChunk, Left, Read, InPout, Resp
<1>4. CASE HeirsExit
  BY <1>4
     DEF HeirsExit, inputVars, loopVars, stdinVars, ptyVars, userVars, clientVars, faultVars,
         HandOK, InHand, IsChunk, Left, Read, InPout, Resp
<1>5. CASE Spawn
  BY <1>5
     DEF Spawn, Send, Resp, inputVars, stdinVars, ptyVars, userVars, clientVars, HandOK, InHand,
         IsChunk, Left, Read, InPout
<1>6. CASE WriteFrame
  BY <1>6
     DEF WriteFrame, Start, childVars, inputVars, userVars, clientVars, faultVars, HandOK,
         InHand, IsChunk, Left, Read, InPout, Resp
<1>7. CASE WriteFails
  BY <1>7
     DEF WriteFails, childVars, inputVars, stdinVars, ptyVars, userVars, clientVars, faultVars,
         HandOK, InHand, IsChunk, Left, Read, InPout, Resp
<1>8. CASE StdinFailed
  BY <1>8
     DEF StdinFailed, Send, Resp, childVars, inputVars, ptyVars, userVars, clientVars, faultVars,
         HandOK, InHand, IsChunk, Left, Read, InPout
<1>9. ASSUME NEW ch \in Channel, ReadPipe(ch) PROVE HandOK'
  <2>1. (pending' = Chunk(ch, Left(ch) + 1) /\ Left(ch)' = Left(ch) + 1)
        \/ pending' = Chunk(ch, Eof)
    BY <1>9, PipeTaken
  <2>2. QED
    BY <2>1 DEF HandOK, InHand, IsChunk, Chunk
<1>10. CASE ReadPty
  <2>1. (pending' = Chunk("stdout", Left("stdout") + 1) /\ Left("stdout")' = Left("stdout") + 1)
        \/ pending' = Chunk("stdout", Eof)
    BY <1>10, PtyTaken
  <2>2. QED
    BY <2>1 DEF HandOK, InHand, IsChunk, Chunk
<1>11. CASE ChildWaited
  BY <1>11
     DEF ChildWaited, childVars, inputVars, stdinVars, ptyVars, userVars, clientVars, faultVars,
         HandOK, InHand, IsChunk, Left, Read, InPout, Resp
<1>12. CASE LoopFails
  BY <1>12
     DEF LoopFails, childVars, inputVars, stdinVars, userVars, clientVars, HandOK, InHand,
         IsChunk, Left, Read, InPout, Resp
<1>13. CASE LoopDone
  BY <1>13
     DEF LoopDone, Send, Resp, childVars, inputVars, stdinVars, ptyVars, userVars, clientVars,
         faultVars, HandOK, InHand, IsChunk, Left, Read, InPout
<1>14. CASE StdinRead
  BY <1>14
     DEF StdinRead, childVars, inputVars, loopVars, ptyVars, userVars, clientVars, faultVars,
         HandOK, InHand, IsChunk, Left, Read, InPout, Resp
<1>15. CASE StdinLost
  BY <1>15
     DEF StdinLost, childVars, inputVars, loopVars, ptyVars, userVars, clientVars, faultVars,
         HandOK, InHand, IsChunk, Left, Read, InPout, Resp
<1>16. CASE StdinShutdown
  BY <1>16
     DEF StdinShutdown, childVars, inputVars, loopVars, ptyVars, userVars, clientVars, faultVars,
         HandOK, InHand, IsChunk, Left, Read, InPout, Resp
<1>17. CASE StdinPass
  BY <1>17
     DEF StdinPass, childVars, inputVars, loopVars, userVars, clientVars, faultVars, HandOK,
         InHand, IsChunk, Left, Read, InPout, Resp
<1>18. CASE InputPump
  BY <1>18
     DEF InputPump, childVars, loopVars, stdinVars, userVars, clientVars, faultVars, HandOK,
         InHand, IsChunk, Left, Read, InPout, Resp
<1>19. CASE OutputPump
  <2>1. UNCHANGED <<dpc, pending>>
    BY <1>19 DEF OutputPump, loopVars
  <2>2. \A c \in Channel : Left(c)' = Left(c)
    BY <1>19, PumpKeepsPout
  <2>3. QED
    BY <2>1, <2>2 DEF HandOK, InHand
<1>20. CASE OutputPumpEnds
  BY <1>20
     DEF OutputPumpEnds, childVars, inputVars, loopVars, stdinVars, userVars, clientVars,
         faultVars, HandOK, InHand, IsChunk, Left, Read, InPout, Resp
<1>21. CASE Started
  BY <1>21
     DEF Started, childVars, inputVars, loopVars, stdinVars, ptyVars, userVars, faultVars,
         HandOK, InHand, IsChunk, Left, Read, InPout, Resp
<1>22. CASE NotStarted
  BY <1>22
     DEF NotStarted, childVars, inputVars, loopVars, stdinVars, ptyVars, userVars, faultVars,
         HandOK, InHand, IsChunk, Left, Read, InPout, Resp
<1>23. CASE Type
  BY <1>23
     DEF Type, childVars, inputVars, loopVars, stdinVars, ptyVars, clientVars, faultVars, HandOK,
         InHand, IsChunk, Left, Read, InPout, Resp
<1>24. CASE TakeKey
  BY <1>24
     DEF TakeKey, childVars, inputVars, loopVars, stdinVars, ptyVars, faultVars, HandOK, InHand,
         IsChunk, Left, Read, InPout, Resp
<1>25. CASE Forward
  BY <1>25
     DEF Forward, childVars, inputVars, loopVars, stdinVars, ptyVars, userVars, faultVars,
         HandOK, InHand, IsChunk, Left, Read, InPout, Resp
<1>26. CASE ForwardLost
  BY <1>26
     DEF ForwardLost, childVars, inputVars, loopVars, stdinVars, ptyVars, userVars, faultVars,
         HandOK, InHand, IsChunk, Left, Read, InPout, Resp
<1>27. CASE ReadFrame
  BY <1>27
     DEF ReadFrame, childVars, inputVars, loopVars, stdinVars, ptyVars, userVars, faultVars,
         HandOK, InHand, IsChunk, Left, Read, InPout, Resp
<1>28. CASE ReadFails
  BY <1>28
     DEF ReadFails, childVars, inputVars, loopVars, stdinVars, ptyVars, userVars, HandOK, InHand,
         IsChunk, Left, Read, InPout, Resp
<1>29. CASE HandleFrame
  BY <1>29
     DEF HandleFrame, childVars, inputVars, loopVars, stdinVars, ptyVars, userVars, faultVars,
         HandOK, InHand, IsChunk, Left, Read, InPout, Resp
<1>30. CASE ClientQuit
  BY <1>30
     DEF ClientQuit, childVars, inputVars, loopVars, stdinVars, ptyVars, userVars, HandOK,
         InHand, IsChunk, Left, Read, InPout, Resp
<1>31. CASE Reset
  BY <1>31
     DEF Reset, childVars, inputVars, loopVars, stdinVars, ptyVars, userVars, clientVars,
         faultVars, HandOK, InHand, IsChunk, Left, Read, InPout, Resp
<1>32. CASE UNCHANGED vars
  BY <1>32
     DEF vars, childVars, inputVars, loopVars, stdinVars, ptyVars, userVars, clientVars,
         faultVars, HandOK, InHand, IsChunk, Left, Read, InPout, Resp
<1>33. QED
  BY <1>1, <1>2, <1>3, <1>4, <1>5, <1>6, <1>7, <1>8, <1>9, <1>10, <1>11, <1>12, <1>13, <1>14,
     <1>15, <1>16, <1>17, <1>18, <1>19, <1>20, <1>21, <1>22, <1>23, <1>24, <1>25, <1>26, <1>27,
     <1>28, <1>29, <1>30, <1>31, <1>32
     DEF Next, Command, Loop, Stdin, Output, Main, Reader, Terminated

(* Outputs at their end. *)
LEMMA OpenStep ==
    ASSUME TypeOK, StartOK, PipesOK, PoutOK, OpenOK, [Next]_vars
    PROVE  OpenOK'
<1> USE DEF Gone
<1>1. ASSUME NEW ch \in Channel, ChildWrite(ch) PROVE OpenOK'
  <2>1. mode \in {"pipe", "pty"}
    BY DEF TypeOK
  <2>2. open[ch]
    BY <1>1, <2>1 DEF ChildWrite, Writable, Attached, OpenOK
  <2>3. \A c \in Channel : c # ch => pipe'[c] = pipe[c]
    BY <1>1 DEF ChildWrite, TypeOK
  <2>4. UNCHANGED <<mode, child, heirs, open, pout, opump>>
    BY <1>1 DEF ChildWrite, loopVars, ptyVars
  <2>5. QED
    BY <2>2, <2>3, <2>4 DEF OpenOK
<1>2. CASE ChildRead
  BY <1>2
     DEF ChildRead, childVars, loopVars, stdinVars, ptyVars, userVars, clientVars, faultVars,
         OpenOK, Channel
<1>3. CASE ChildExit
  <2>1. child = "running" /\ child' = "exited" /\ UNCHANGED <<mode, open, pipe, pout, opump>>
    BY <1>3 DEF ChildExit, loopVars, ptyVars
  <2>2. \A ch \in Channel : ~open[ch] => mode # "pipe" /\ ch # "stdout"
    BY <2>1 DEF OpenOK
  <2>3. QED
    BY <2>1, <2>2 DEF OpenOK
<1>4. CASE HeirsExit
  BY <1>4
     DEF HeirsExit, inputVars, loopVars, stdinVars, ptyVars, userVars, clientVars, faultVars,
         OpenOK, Channel
<1>5. CASE Spawn
  <2>1. child = "none"
    BY <1>5 DEF Spawn, StartOK
  <2>2. heirs = FALSE /\ \A ch \in Channel : open[ch] \/ (mode = "pty" /\ ch = "stderr")
    BY <2>1 DEF OpenOK, TypeOK, Channel
  <2>3. UNCHANGED <<mode, heirs, open, pipe>>
    BY <1>5 DEF Spawn
  <2>4. QED
    BY <2>2, <2>3 DEF OpenOK
<1>6. CASE WriteFrame
  <2>1. UNCHANGED <<mode, child, heirs, pipe, open, pout>>
    BY <1>6 DEF WriteFrame, childVars
  <2>2. opump' = opump \/ Early
    BY <1>6 DEF WriteFrame, Early
  <2>3. Early => opump = "off"
    BY DEF StartOK
  <2>4. CASE opump' = opump
    BY <2>1, <2>4 DEF OpenOK
  <2>5. CASE opump = "off"
    <3>1. mode = "pty" => open["stdout"]
      BY <2>5 DEF OpenOK, Channel
    <3>2. QED
      BY <2>1, <3>1 DEF OpenOK, Channel
  <2>6. QED
    BY <2>2, <2>3, <2>4, <2>5
<1>7. CASE WriteFails
  BY <1>7
     DEF WriteFails, childVars, inputVars, stdinVars, ptyVars, userVars, clientVars, faultVars,
         OpenOK, Channel
<1>8. CASE StdinFailed
  BY <1>8
     DEF StdinFailed, Send, Resp, childVars, inputVars, ptyVars, userVars, clientVars, faultVars,
         OpenOK, Channel
<1>9. ASSUME NEW ch \in Channel, ReadPipe(ch) PROVE OpenOK'
  <2>1. /\ UNCHANGED <<mode, child, heirs, pout, opump>> /\ mode = "pipe" /\ open[ch]
        /\ pipe \in [Channel -> Seq(1 .. MaxOut)] /\ open \in [Channel -> BOOLEAN]
    BY <1>9 DEF ReadPipe, ptyVars, TypeOK
  <2>2. CASE pipe[ch] # << >> /\ pipe' = [pipe EXCEPT ![ch] = Tail(pipe[ch])] /\ open' = open
    <3>1. \A c \in Channel : c # ch => pipe'[c] = pipe[c]
      BY <2>1, <2>2
    <3>2. QED
      BY <2>1, <2>2, <3>1 DEF OpenOK
  <2>3. CASE /\ pipe[ch] = << >> /\ ~Writable /\ open' = [open EXCEPT ![ch] = FALSE]
             /\ pipe' = pipe
    <3>1. \A c \in Channel : c # ch => open'[c] = open[c]
      BY <2>1, <2>3
    <3>2. child # "running" /\ ~heirs
      BY <2>3 DEF Writable
    <3>3. child = "exited"
      BY <1>9, <3>2 DEF ReadPipe, StartOK, TypeOK
    <3>4. QED
      BY <2>1, <2>3, <3>1, <3>2, <3>3 DEF OpenOK
  <2>4. QED
    BY <1>9, <2>2, <2>3 DEF ReadPipe
<1>10. CASE ReadPty
  <2>1. /\ UNCHANGED <<mode, child, heirs, pipe, opump>> /\ mode = "pty" /\ open["stdout"]
        /\ pout # << >> /\ open \in [Channel -> BOOLEAN]
        /\ open' = [open EXCEPT !["stdout"] = Head(pout) # Eof]
    BY <1>10 DEF ReadPty, childVars, TypeOK
  <2>2. \A c \in Channel : c # "stdout" => open'[c] = open[c]
    BY <2>1
  <2>3. \/ open'["stdout"]
        \/ pout' = << >> /\ opump = "done" /\ Gone /\ pipe["stdout"] = << >>
    <3>1. CASE Head(pout) # Eof
      BY <2>1, <3>1 DEF Channel
    <3>2. CASE Head(pout) = Eof
      BY <1>10, <3>2, PtyTaken
    <3>3. QED
      BY <3>1, <3>2
  <2>4. QED
    BY <2>1, <2>2, <2>3 DEF OpenOK, Channel
<1>11. CASE ChildWaited
  BY <1>11
     DEF ChildWaited, childVars, inputVars, stdinVars, ptyVars, userVars, clientVars, faultVars,
         OpenOK, Channel
<1>12. CASE LoopFails
  BY <1>12 DEF LoopFails, childVars, inputVars, stdinVars, userVars, clientVars, OpenOK, Channel
<1>13. CASE LoopDone
  BY <1>13
     DEF LoopDone, Send, Resp, childVars, inputVars, stdinVars, ptyVars, userVars, clientVars,
         faultVars, OpenOK, Channel
<1>14. CASE StdinRead
  BY <1>14
     DEF StdinRead, childVars, inputVars, loopVars, ptyVars, userVars, clientVars, faultVars,
         OpenOK, Channel
<1>15. CASE StdinLost
  BY <1>15
     DEF StdinLost, childVars, inputVars, loopVars, ptyVars, userVars, clientVars, faultVars,
         OpenOK, Channel
<1>16. CASE StdinShutdown
  BY <1>16
     DEF StdinShutdown, childVars, inputVars, loopVars, ptyVars, userVars, clientVars, faultVars,
         OpenOK, Channel
<1>17. CASE StdinPass
  BY <1>17
     DEF StdinPass, childVars, inputVars, loopVars, userVars, clientVars, faultVars, OpenOK,
         Channel
<1>18. CASE InputPump
  BY <1>18
     DEF InputPump, childVars, loopVars, stdinVars, userVars, clientVars, faultVars, OpenOK,
         Channel
<1>19. CASE OutputPump
  <2>1. UNCHANGED <<mode, child, heirs, open>> /\ opump = "run"
    BY <1>19 DEF OutputPump, loopVars
  <2>2. mode = "pty" /\ open["stdout"]
    BY <2>1 DEF PoutOK, OpenOK, Channel, TypeOK
  <2>3. \A c \in Channel : c # "stdout" => pipe'[c] = pipe[c]
    BY <1>19 DEF OutputPump, TypeOK
  <2>4. QED
    BY <2>1, <2>2, <2>3 DEF OpenOK, Channel
<1>20. CASE OutputPumpEnds
  BY <1>20
     DEF OutputPumpEnds, childVars, inputVars, loopVars, stdinVars, userVars, clientVars,
         faultVars, OpenOK, Channel
<1>21. CASE Started
  BY <1>21
     DEF Started, childVars, inputVars, loopVars, stdinVars, ptyVars, userVars, faultVars,
         OpenOK, Channel
<1>22. CASE NotStarted
  BY <1>22
     DEF NotStarted, childVars, inputVars, loopVars, stdinVars, ptyVars, userVars, faultVars,
         OpenOK, Channel
<1>23. CASE Type
  BY <1>23
     DEF Type, childVars, inputVars, loopVars, stdinVars, ptyVars, clientVars, faultVars, OpenOK,
         Channel
<1>24. CASE TakeKey
  BY <1>24
     DEF TakeKey, childVars, inputVars, loopVars, stdinVars, ptyVars, faultVars, OpenOK, Channel
<1>25. CASE Forward
  BY <1>25
     DEF Forward, childVars, inputVars, loopVars, stdinVars, ptyVars, userVars, faultVars,
         OpenOK, Channel
<1>26. CASE ForwardLost
  BY <1>26
     DEF ForwardLost, childVars, inputVars, loopVars, stdinVars, ptyVars, userVars, faultVars,
         OpenOK, Channel
<1>27. CASE ReadFrame
  BY <1>27
     DEF ReadFrame, childVars, inputVars, loopVars, stdinVars, ptyVars, userVars, faultVars,
         OpenOK, Channel
<1>28. CASE ReadFails
  BY <1>28
     DEF ReadFails, childVars, inputVars, loopVars, stdinVars, ptyVars, userVars, OpenOK, Channel
<1>29. CASE HandleFrame
  BY <1>29
     DEF HandleFrame, childVars, inputVars, loopVars, stdinVars, ptyVars, userVars, faultVars,
         OpenOK, Channel
<1>30. CASE ClientQuit
  BY <1>30
     DEF ClientQuit, childVars, inputVars, loopVars, stdinVars, ptyVars, userVars, OpenOK,
         Channel
<1>31. CASE Reset
  BY <1>31
     DEF Reset, childVars, inputVars, loopVars, stdinVars, ptyVars, userVars, clientVars,
         faultVars, OpenOK, Channel
<1>32. CASE UNCHANGED vars
  BY <1>32
     DEF vars, childVars, inputVars, loopVars, stdinVars, ptyVars, userVars, clientVars,
         faultVars, OpenOK, Channel
<1>33. QED
  BY <1>1, <1>2, <1>3, <1>4, <1>5, <1>6, <1>7, <1>8, <1>9, <1>10, <1>11, <1>12, <1>13, <1>14,
     <1>15, <1>16, <1>17, <1>18, <1>19, <1>20, <1>21, <1>22, <1>23, <1>24, <1>25, <1>26, <1>27,
     <1>28, <1>29, <1>30, <1>31, <1>32
     DEF Next, Command, Loop, Stdin, Output, Main, Reader, Terminated

(* When ShellExit is sent. *)
LEMMA DrainedStep ==
    ASSUME TypeOK, EndOK, StartOK, DrainedOK, [Next]_vars
    PROVE  DrainedOK'
<1>1. ASSUME NEW ch \in Channel, ChildWrite(ch) PROVE DrainedOK'
  BY <1>1
     DEF ChildWrite, Writable, Attached, inputVars, loopVars, stdinVars, ptyVars, userVars,
         clientVars, faultVars, DrainedOK, Drained, Exiting, ExitInDown, ExitInFrames, Resp
<1>2. CASE ChildRead
  BY <1>2
     DEF ChildRead, childVars, loopVars, stdinVars, ptyVars, userVars, clientVars, faultVars,
         DrainedOK, Drained, Exiting, ExitInDown, ExitInFrames, Resp
<1>3. CASE ChildExit
  BY <1>3
     DEF ChildExit, inputVars, loopVars, stdinVars, ptyVars, userVars, clientVars, faultVars,
         DrainedOK, Drained, Exiting, ExitInDown, ExitInFrames, Resp
<1>4. CASE HeirsExit
  BY <1>4
     DEF HeirsExit, inputVars, loopVars, stdinVars, ptyVars, userVars, clientVars, faultVars,
         DrainedOK, Drained, Exiting, ExitInDown, ExitInFrames, Resp
<1>5. CASE Spawn
  <2>1. child = "none"
    BY <1>5 DEF Spawn, StartOK
  <2>2. ~Exiting
    BY <2>1 DEF DrainedOK, Drained
  <2>3. /\ dpc' = "done" \/ (dpc' = "write" /\ pending'.kind = "started")
        /\ UNCHANGED <<down, frames>>
    BY <1>5 DEF Spawn, Send, Resp, clientVars
  <2>4. QED
    BY <2>2, <2>3 DEF DrainedOK, Exiting, ExitInDown, ExitInFrames
<1>6. CASE WriteFrame
  <2>1. UNCHANGED <<child, open, frames>> /\ dpc = "write" /\ dpc' # "write"
    BY <1>6 DEF WriteFrame, Start, childVars, clientVars
  <2>2. CASE down' = down
    BY <2>1, <2>2 DEF DrainedOK, Drained, Exiting, ExitInDown, ExitInFrames
  <2>3. CASE down' = Append(down, pending)
    <3>1. down \in Seq(DownFrame) /\ pending \in DownFrame
      BY DEF TypeOK
    <3>2. /\ DOMAIN down = 1 .. Len(down) /\ DOMAIN down' = 1 .. Len(down) + 1 /\ Len(down) \in Nat
          /\ \A i \in 1 .. Len(down) : down'[i] = down[i]
          /\ down'[Len(down) + 1] = pending
      BY <2>3, <3>1, Pushed
    <3>3. ExitInDown' => ExitInDown \/ pending.kind = "exit"
      BY <3>2 DEF ExitInDown
    <3>4. QED
      BY <2>1, <3>3 DEF DrainedOK, Drained, Exiting, ExitInFrames
  <2>4. QED
    BY <1>6, <2>2, <2>3 DEF WriteFrame
<1>7. CASE WriteFails
  BY <1>7
     DEF WriteFails, childVars, inputVars, stdinVars, ptyVars, userVars, clientVars, faultVars,
         DrainedOK, Drained, Exiting, ExitInDown, ExitInFrames, Resp
<1>8. CASE StdinFailed
  BY <1>8
     DEF StdinFailed, Send, Resp, childVars, inputVars, ptyVars, userVars, clientVars, faultVars,
         DrainedOK, Drained, Exiting, ExitInDown, ExitInFrames
<1>9. ASSUME NEW ch \in Channel, ReadPipe(ch) PROVE DrainedOK'
  <2>1. ~Exiting
    BY <1>9 DEF ReadPipe, DrainedOK, Drained
  <2>2. dpc' = "write" /\ pending'.kind = "stream" /\ UNCHANGED <<down, frames>>
    BY <1>9 DEF ReadPipe, Send, Chunk, clientVars
  <2>3. QED
    BY <2>1, <2>2 DEF DrainedOK, Exiting, ExitInDown, ExitInFrames
<1>10. CASE ReadPty
  <2>1. ~Exiting
    BY <1>10 DEF ReadPty, DrainedOK, Drained, Channel
  <2>2. dpc' = "write" /\ pending'.kind = "stream" /\ UNCHANGED <<down, frames>>
    BY <1>10 DEF ReadPty, Send, Chunk, clientVars
  <2>3. QED
    BY <2>1, <2>2 DEF DrainedOK, Exiting, ExitInDown, ExitInFrames
<1>11. CASE ChildWaited
  BY <1>11
     DEF ChildWaited, childVars, inputVars, stdinVars, ptyVars, userVars, clientVars, faultVars,
         DrainedOK, Drained, Exiting, ExitInDown, ExitInFrames, Resp
<1>12. CASE LoopFails
  BY <1>12
     DEF LoopFails, childVars, inputVars, stdinVars, userVars, clientVars, DrainedOK, Drained,
         Exiting, ExitInDown, ExitInFrames, Resp
<1>13. CASE LoopDone
  <2>1. Drained /\ UNCHANGED <<child, open>>
    BY <1>13 DEF LoopDone, Drained, EndOK, childVars
  <2>2. QED
    BY <2>1 DEF DrainedOK, Drained
<1>14. CASE StdinRead
  BY <1>14
     DEF StdinRead, childVars, inputVars, loopVars, ptyVars, userVars, clientVars, faultVars,
         DrainedOK, Drained, Exiting, ExitInDown, ExitInFrames, Resp
<1>15. CASE StdinLost
  BY <1>15
     DEF StdinLost, childVars, inputVars, loopVars, ptyVars, userVars, clientVars, faultVars,
         DrainedOK, Drained, Exiting, ExitInDown, ExitInFrames, Resp
<1>16. CASE StdinShutdown
  BY <1>16
     DEF StdinShutdown, childVars, inputVars, loopVars, ptyVars, userVars, clientVars, faultVars,
         DrainedOK, Drained, Exiting, ExitInDown, ExitInFrames, Resp
<1>17. CASE StdinPass
  BY <1>17
     DEF StdinPass, childVars, inputVars, loopVars, userVars, clientVars, faultVars, DrainedOK,
         Drained, Exiting, ExitInDown, ExitInFrames, Resp
<1>18. CASE InputPump
  BY <1>18
     DEF InputPump, childVars, loopVars, stdinVars, userVars, clientVars, faultVars, DrainedOK,
         Drained, Exiting, ExitInDown, ExitInFrames, Resp
<1>19. CASE OutputPump
  BY <1>19
     DEF OutputPump, inputVars, loopVars, stdinVars, userVars, clientVars, faultVars, DrainedOK,
         Drained, Exiting, ExitInDown, ExitInFrames, Resp
<1>20. CASE OutputPumpEnds
  BY <1>20
     DEF OutputPumpEnds, childVars, inputVars, loopVars, stdinVars, userVars, clientVars,
         faultVars, DrainedOK, Drained, Exiting, ExitInDown, ExitInFrames, Resp
<1>21. CASE Started
  <2>1. UNCHANGED <<child, open, dpc, pending, frames>>
    BY <1>21 DEF Started, childVars, loopVars
  <2>2. down \in Seq(DownFrame) /\ down # << >> /\ down' = Tail(down)
    BY <1>21 DEF Started, TypeOK
  <2>3. /\ Head(down) = down[1] /\ 1 \in DOMAIN down
        /\ \A i \in DOMAIN down' : i + 1 \in DOMAIN down /\ down'[i] = down[i + 1]
    BY <2>2, Popped
  <2>4. ExitInDown' => ExitInDown
    BY <2>3 DEF ExitInDown
  <2>5. QED
    BY <2>1, <2>4 DEF DrainedOK, Drained, Exiting, ExitInFrames
<1>22. CASE NotStarted
  BY <1>22
     DEF NotStarted, childVars, inputVars, loopVars, stdinVars, ptyVars, userVars, faultVars,
         DrainedOK, Drained, Exiting, ExitInDown, ExitInFrames, Resp
<1>23. CASE Type
  BY <1>23
     DEF Type, childVars, inputVars, loopVars, stdinVars, ptyVars, clientVars, faultVars,
         DrainedOK, Drained, Exiting, ExitInDown, ExitInFrames, Resp
<1>24. CASE TakeKey
  BY <1>24
     DEF TakeKey, childVars, inputVars, loopVars, stdinVars, ptyVars, faultVars, DrainedOK,
         Drained, Exiting, ExitInDown, ExitInFrames, Resp
<1>25. CASE Forward
  BY <1>25
     DEF Forward, childVars, inputVars, loopVars, stdinVars, ptyVars, userVars, faultVars,
         DrainedOK, Drained, Exiting, ExitInDown, ExitInFrames, Resp
<1>26. CASE ForwardLost
  BY <1>26
     DEF ForwardLost, childVars, inputVars, loopVars, stdinVars, ptyVars, userVars, faultVars,
         DrainedOK, Drained, Exiting, ExitInDown, ExitInFrames, Resp
<1>27. CASE ReadFrame
  <2>1. UNCHANGED <<child, open, dpc, pending>>
    BY <1>27 DEF ReadFrame, childVars, loopVars
  <2>2. down \in Seq(DownFrame) /\ down # << >> /\ down' = Tail(down)
    BY <1>27 DEF ReadFrame, TypeOK
  <2>3. /\ Head(down) = down[1] /\ 1 \in DOMAIN down
        /\ \A i \in DOMAIN down' : i + 1 \in DOMAIN down /\ down'[i] = down[i + 1]
    BY <2>2, Popped
  <2>4. ExitInDown' => ExitInDown
    BY <2>3 DEF ExitInDown
  <2>5. \/ frames' = frames
        \/ frames' = Append(frames, Head(down).kind) /\ Head(down).kind # "stream"
    BY <1>27 DEF ReadFrame
  <2>6. CASE frames' = frames
    BY <2>1, <2>4, <2>6 DEF DrainedOK, Drained, Exiting, ExitInFrames
  <2>7. CASE frames' = Append(frames, Head(down).kind) /\ Head(down).kind # "stream"
    <3>1. PICK e \in DownFrame : e = Head(down)
      BY <2>2, Popped
    <3>2. e.kind \in Response \cup {"broken"}
      BY <2>7, <3>1 DEF DownFrame
    <3>3. PICK k \in Response \cup {"broken"} : k = e.kind
      BY <3>2
    <3>4. /\ DOMAIN frames = 1 .. Len(frames) /\ DOMAIN frames' = 1 .. Len(frames) + 1
          /\ \A i \in 1 .. Len(frames) : frames'[i] = frames[i]
          /\ Len(frames) \in Nat /\ frames'[Len(frames) + 1] = k
      <4>1. frames \in Seq(Response \cup {"broken"})
        BY DEF TypeOK
      <4>2. QED
        BY <2>7, <3>1, <3>3, <4>1, Pushed
    <3>5. ExitInFrames' => ExitInFrames \/ ExitInDown
      BY <2>3, <3>1, <3>3, <3>4 DEF ExitInFrames, ExitInDown
    <3>6. QED
      BY <2>1, <2>4, <3>5 DEF DrainedOK, Drained, Exiting
  <2>8. QED
    BY <2>5, <2>6, <2>7
<1>28. CASE ReadFails
  <2>1. UNCHANGED <<child, open, dpc, pending, down>> /\ frames' = Append(frames, "broken")
    BY <1>28 DEF ReadFails, childVars, loopVars
  <2>2. frames \in Seq(Response \cup {"broken"})
    BY DEF TypeOK
  <2>3. /\ DOMAIN frames = 1 .. Len(frames) /\ DOMAIN frames' = 1 .. Len(frames) + 1
        /\ \A i \in 1 .. Len(frames) : frames'[i] = frames[i]
        /\ Len(frames) \in Nat /\ frames'[Len(frames) + 1] = "broken"
    BY <2>1, <2>2, Pushed
  <2>4. ExitInFrames' => ExitInFrames
    BY <2>3 DEF ExitInFrames
  <2>5. QED
    BY <2>1, <2>4 DEF DrainedOK, Drained, Exiting, ExitInDown
<1>29. CASE HandleFrame
  <2>1. UNCHANGED <<child, open, dpc, pending, down>> /\ frames' = Tail(frames) /\ frames # << >>
    BY <1>29 DEF HandleFrame, childVars, loopVars
  <2>2. frames \in Seq(Response \cup {"broken"})
    BY DEF TypeOK
  <2>3. /\ DOMAIN frames = 1 .. Len(frames) /\ DOMAIN frames' = 1 .. Len(frames) - 1
        /\ \A i \in 1 .. Len(frames) - 1 : frames'[i] = frames[i + 1]
        /\ Len(frames) \in Nat
    BY <2>1, <2>2, Popped
  <2>4. ExitInFrames' => ExitInFrames
    BY <2>3 DEF ExitInFrames
  <2>5. QED
    BY <2>1, <2>4 DEF DrainedOK, Drained, Exiting, ExitInDown
<1>30. CASE ClientQuit
  BY <1>30
     DEF ClientQuit, childVars, inputVars, loopVars, stdinVars, ptyVars, userVars, DrainedOK,
         Drained, Exiting, ExitInDown, ExitInFrames, Resp
<1>31. CASE Reset
  <2>1. UNCHANGED <<child, open, dpc, pending, frames>> /\ down' = << >>
    BY <1>31 DEF Reset, childVars, loopVars, clientVars
  <2>2. ~ExitInDown'
    BY <2>1 DEF ExitInDown
  <2>3. QED
    BY <2>1, <2>2 DEF DrainedOK, Drained, Exiting, ExitInFrames
<1>32. CASE UNCHANGED vars
  BY <1>32
     DEF vars, childVars, inputVars, loopVars, stdinVars, ptyVars, userVars, clientVars,
         faultVars, DrainedOK, Drained, Exiting, ExitInDown, ExitInFrames, Resp
<1>33. QED
  BY <1>1, <1>2, <1>3, <1>4, <1>5, <1>6, <1>7, <1>8, <1>9, <1>10, <1>11, <1>12, <1>13, <1>14,
     <1>15, <1>16, <1>17, <1>18, <1>19, <1>20, <1>21, <1>22, <1>23, <1>24, <1>25, <1>26, <1>27,
     <1>28, <1>29, <1>30, <1>31, <1>32
     DEF Next, Command, Loop, Stdin, Output, Main, Reader, Terminated
-----------------------------------------------------------------------------
(* A frame that is no chunk of ch comes or goes. *)
LEMMA CoversPopOther ==
    ASSUME NEW s, NEW k \in Int, NEW ch, NEW d \in Seq(DownFrame), d # << >>,
           ~IsChunk(d[1], ch), Covers(s, d, k, ch)
    PROVE  Covers(s, Tail(d), k, ch)
<1>1. PICK t : t = Tail(d)
  OBVIOUS
<1>2. PICK n \in Nat : n = Len(d)
  BY LenProperties
<1>3. DOMAIN d = 1 .. n /\ DOMAIN t = 1 .. n - 1 /\ \A i \in 1 .. n - 1 : t[i] = d[i + 1]
  BY <1>1, <1>2, Popped
<1>4. \A i \in DOMAIN t : i \in Int /\ i + 1 \in DOMAIN d /\ t[i] = d[i + 1]
  BY <1>3
<1>5. \A i \in DOMAIN d : i # 1 => i - 1 \in DOMAIN t /\ t[i - 1] = d[i]
  BY <1>3
<1>6. s = Count(Len(s)) /\ Len(s) <= k
  BY DEF Covers
<1>7. \A i \in DOMAIN t : IsChunk(t[i], ch) => Len(s) < t[i].n /\ t[i].n <= k
  BY <1>4 DEF Covers
<1>8. \A i, j \in DOMAIN t : i < j /\ IsChunk(t[i], ch) /\ IsChunk(t[j], ch) => t[i].n < t[j].n
  BY <1>4 DEF Covers
<1>9. ASSUME NEW m \in Len(s) + 1 .. k
      PROVE  \E i \in DOMAIN t : IsChunk(t[i], ch) /\ t[i].n = m
  <2>1. PICK i \in DOMAIN d : IsChunk(d[i], ch) /\ d[i].n = m
    BY <1>9 DEF Covers
  <2>2. i # 1
    BY <2>1
  <2>3. QED
    BY <1>5, <2>1, <2>2
<1>10. QED
  BY <1>1, <1>6, <1>7, <1>8, <1>9 DEF Covers

(* A frame of another kind behind the queue leaves a channel covered. *)
LEMMA CoversPushOther ==
    ASSUME NEW s, NEW k \in Int, NEW ch, NEW d \in Seq(DownFrame), NEW f \in DownFrame,
           ~IsChunk(f, ch), Covers(s, d, k, ch)
    PROVE  Covers(s, Append(d, f), k, ch)
<1>1. PICK t : t = Append(d, f)
  OBVIOUS
<1>2. PICK n \in Nat : n = Len(d)
  BY LenProperties
<1>3. /\ DOMAIN d = 1 .. n /\ DOMAIN t = 1 .. n + 1 /\ t[n + 1] = f
      /\ \A i \in 1 .. n : t[i] = d[i]
  BY <1>1, <1>2, Pushed
<1>4. \A i \in DOMAIN t : IsChunk(t[i], ch) => i \in DOMAIN d /\ t[i] = d[i]
  <2>1. ASSUME NEW i \in DOMAIN t, i \notin DOMAIN d PROVE i = n + 1
    BY <1>3, <2>1
  <2>2. QED
    BY <1>3, <2>1
<1>5. \A i \in DOMAIN d : i \in DOMAIN t /\ t[i] = d[i]
  BY <1>3
<1>6. QED
  BY <1>1, <1>4, <1>5 DEF Covers

(* The next chunk of ch is written to the connection. *)
LEMMA CoversPush ==
    ASSUME NEW s, NEW k \in Int, NEW ch, NEW d \in Seq(DownFrame), NEW f \in DownFrame,
           IsChunk(f, ch), f.n = k + 1, Covers(s, d, k, ch), Len(s) \in Nat
    PROVE  Covers(s, Append(d, f), k + 1, ch)
<1>1. PICK t : t = Append(d, f)
  OBVIOUS
<1>2. PICK n \in Nat : n = Len(d)
  BY LenProperties
<1>3. /\ DOMAIN d = 1 .. n /\ DOMAIN t = 1 .. n + 1 /\ t[n + 1] = f
      /\ \A i \in 1 .. n : t[i] = d[i]
  BY <1>1, <1>2, Pushed
<1>4. \A i \in DOMAIN t : (i \in DOMAIN d /\ t[i] = d[i] /\ i < n + 1) \/ (i = n + 1 /\ t[i] = f)
  BY <1>3
<1>5. \A i \in DOMAIN d : i \in DOMAIN t /\ t[i] = d[i]
  BY <1>3
<1>6. \A i \in DOMAIN d : d[i].n \in Int
  <2>1. \A i \in DOMAIN d : d[i] \in DownFrame
    BY <1>2, <1>3, ElementOfSeq
  <2>2. \A g \in DownFrame : g.n \in Int
    BY ShellAssumption DEF DownFrame
  <2>3. QED
    BY <2>1, <2>2
<1>7. s = Count(Len(s)) /\ Len(s) <= k
  BY DEF Covers
<1>8. \A i \in DOMAIN d : IsChunk(d[i], ch) => Len(s) < d[i].n /\ d[i].n <= k
  BY DEF Covers
<1>9. \A i \in DOMAIN t : IsChunk(t[i], ch) => Len(s) < t[i].n /\ t[i].n <= k + 1
  BY <1>4, <1>6, <1>7, <1>8
<1>10. ASSUME NEW i \in DOMAIN t, NEW j \in DOMAIN t, i < j, IsChunk(t[i], ch), IsChunk(t[j], ch)
       PROVE  t[i].n < t[j].n
  <2>1. i \in DOMAIN d /\ t[i] = d[i]
    BY <1>3, <1>10
  <2>2. CASE j \in DOMAIN d /\ t[j] = d[j]
    BY <1>10, <2>1, <2>2 DEF Covers
  <2>3. CASE j = n + 1 /\ t[j] = f
    BY <1>6, <1>8, <1>10, <2>1, <2>3
  <2>4. QED
    BY <1>4, <2>2, <2>3
<1>11. ASSUME NEW m \in Len(s) + 1 .. k + 1
       PROVE  \E i \in DOMAIN t : IsChunk(t[i], ch) /\ t[i].n = m
  <2>1. CASE m = k + 1
    BY <1>3, <2>1
  <2>2. CASE m \in Len(s) + 1 .. k
    <3>1. PICK i \in DOMAIN d : IsChunk(d[i], ch) /\ d[i].n = m
      BY <2>2 DEF Covers
    <3>2. QED
      BY <1>5, <3>1
  <2>3. QED
    BY <1>11, <2>1, <2>2
<1>12. Len(s) <= k + 1
  BY <1>7
<1>13. QED
  BY <1>1, <1>7, <1>9, <1>10, <1>11, <1>12 DEF Covers

(* A chunk of ch is printed: it is the next one. *)
LEMMA CoversPop ==
    ASSUME NEW s \in Seq(1 .. MaxOut), NEW k \in Int, NEW ch, NEW d \in Seq(DownFrame), d # << >>,
           IsChunk(d[1], ch), Covers(s, d, k, ch), d[1].n \in 1 .. MaxOut
    PROVE  Covers(Append(s, d[1].n), Tail(d), k, ch)
<1>1. PICK t : t = Tail(d)
  OBVIOUS
<1>2. PICK n \in Nat : n = Len(d) /\ n >= 1
  BY Popped
<1>3. DOMAIN d = 1 .. n /\ DOMAIN t = 1 .. n - 1 /\ \A i \in 1 .. n - 1 : t[i] = d[i + 1]
  BY <1>1, <1>2, Popped
<1>4. \A i \in DOMAIN t : i \in Int /\ i + 1 \in DOMAIN d /\ 1 < i + 1 /\ t[i] = d[i + 1]
  BY <1>3
<1>5. \A i \in DOMAIN d : i # 1 => i - 1 \in DOMAIN t /\ t[i - 1] = d[i] /\ 1 < i
  BY <1>3
<1>6. 1 \in DOMAIN d
  BY <1>2, <1>3
<1>7. \A i \in DOMAIN d : d[i].n \in Int
  <2>1. \A i \in DOMAIN d : d[i] \in DownFrame
    BY <1>2, <1>3, ElementOfSeq
  <2>2. \A g \in DownFrame : g.n \in Int
    BY ShellAssumption DEF DownFrame
  <2>3. QED
    BY <2>1, <2>2
<1>8. PICK l \in Nat : l = Len(s)
  BY LenProperties
<1>9. PICK v \in 1 .. MaxOut : v = d[1].n
  OBVIOUS
<1>10. v \in Int /\ l < v /\ v <= k
  BY <1>6, <1>8, <1>9, ShellAssumption DEF Covers
<1>11. v = l + 1
  <2>1. l + 1 \in Len(s) + 1 .. k
    BY <1>8, <1>10
  <2>2. PICK i \in DOMAIN d : IsChunk(d[i], ch) /\ d[i].n = l + 1
    BY <2>1 DEF Covers
  <2>3. CASE i = 1
    BY <1>9, <2>2, <2>3
  <2>4. CASE i # 1
    <3>1. d[1].n < d[i].n
      BY <1>5, <1>6, <2>2, <2>4 DEF Covers
    <3>2. QED
      BY <1>8, <1>9, <1>10, <2>2, <3>1
  <2>5. QED
    BY <2>3, <2>4
<1>12. PICK u : u = Append(s, v)
  OBVIOUS
<1>13. /\ u \in Seq(1 .. MaxOut) /\ Len(u) = l + 1 /\ DOMAIN u = 1 .. l + 1 /\ DOMAIN s = 1 .. l
       /\ (\A i \in 1 .. l : u[i] = s[i]) /\ u[l + 1] = v
  BY <1>8, <1>12, Pushed
<1>14. u = Count(Len(u))
  <2>1. s = [i \in 1 .. l |-> i]
    BY <1>8 DEF Covers, Count
  <2>2. \A i \in 1 .. l + 1 : u[i] = i
    <3>1. \A i \in 1 .. l : u[i] = i
      BY <1>13, <2>1
    <3>2. QED
      BY <1>11, <1>13, <3>1
  <2>3. u = [i \in 1 .. l + 1 |-> u[i]]
    BY <1>13, LenProperties
  <2>4. QED
    BY <1>13, <2>2, <2>3 DEF Count
<1>15. Len(u) <= k
  BY <1>10, <1>11, <1>13
<1>16. \A i \in DOMAIN t : IsChunk(t[i], ch) => Len(u) < t[i].n /\ t[i].n <= k
  <2>1. SUFFICES ASSUME NEW i \in DOMAIN t, IsChunk(t[i], ch)
                 PROVE  Len(u) < t[i].n /\ t[i].n <= k
    OBVIOUS
  <2>2. t[i] = d[i + 1] /\ i + 1 \in DOMAIN d /\ 1 < i + 1
    BY <1>4
  <2>3. d[1].n < d[i + 1].n /\ d[i + 1].n <= k
    BY <1>6, <2>1, <2>2 DEF Covers
  <2>4. QED
    BY <1>9, <1>11, <1>13, <2>2, <2>3
<1>17. \A i, j \in DOMAIN t : i < j /\ IsChunk(t[i], ch) /\ IsChunk(t[j], ch) => t[i].n < t[j].n
  <2>1. SUFFICES ASSUME NEW i \in DOMAIN t, NEW j \in DOMAIN t, i < j,
                        IsChunk(t[i], ch), IsChunk(t[j], ch)
                 PROVE  t[i].n < t[j].n
    OBVIOUS
  <2>2. /\ i + 1 \in DOMAIN d /\ j + 1 \in DOMAIN d /\ t[i] = d[i + 1] /\ t[j] = d[j + 1]
        /\ i + 1 < j + 1
    BY <1>4, <2>1
  <2>3. QED
    BY <2>1, <2>2 DEF Covers
<1>18. ASSUME NEW m \in Len(u) + 1 .. k
       PROVE  \E i \in DOMAIN t : IsChunk(t[i], ch) /\ t[i].n = m
  <2>1. m \in Len(s) + 1 .. k /\ m # v
    BY <1>8, <1>11, <1>13
  <2>2. PICK i \in DOMAIN d : IsChunk(d[i], ch) /\ d[i].n = m
    BY <2>1 DEF Covers
  <2>3. i # 1
    BY <1>9, <2>1, <2>2
  <2>4. QED
    BY <1>5, <2>2, <2>3
<1>19. Covers(u, t, k, ch)
  BY <1>14, <1>15, <1>16, <1>17, <1>18 DEF Covers
<1>20. QED
  BY <1>1, <1>9, <1>12, <1>19

(* What has left a channel, and what was sent of it, are numbers. *)
LEMMA LeftInt ==
    ASSUME TypeOK, NEW ch \in Channel
    PROVE  Left(ch) \in Int /\ Sent(ch) \in Int
<1>1. Read(ch) \in Int
  BY ReadInt
<1>2. InPout \in Nat
  <2>1. pout \in Seq(0 .. MaxOut)
    BY DEF TypeOK
  <2>2. Len(pout) \in Nat /\ (pout # << >> => Len(pout) >= 1)
    BY <2>1, LenProperties, Popped
  <2>3. QED
    BY <2>2 DEF InPout
<1>3. QED
  BY <1>1, <1>2 DEF Left, Sent
-----------------------------------------------------------------------------
(* A step away from the pipes and the daemon sends nothing. *)
LEMMA SentKept ==
    ASSUME UNCHANGED <<made, pipe, pout, dpc, pending>>
    PROVE  \A c \in Channel : Sent(c)' = Sent(c)
<1>1. \A c \in Channel : Left(c)' = Left(c)
  BY NothingMoves
<1>2. QED
  BY <1>1 DEF Sent, InHand

(* ShownOK survives a step that neither sends nor shows anything. *)
LEMMA ShownKept ==
    ASSUME ShownOK, Intact' => Intact, UNCHANGED <<down, shown>>,
           \A c \in Channel : Sent(c)' = Sent(c)
    PROVE  ShownOK'
<1>1. SUFFICES ASSUME Intact', NEW ch \in Channel
               PROVE  Covers(shown'[ch], down', Sent(ch)', ch)
  BY DEF ShownOK
<1>2. Covers(shown[ch], down, Sent(ch), ch)
  BY <1>1 DEF ShownOK
<1>3. Sent(ch)' = Sent(ch)
  BY <1>1
<1>4. QED
  BY <1>2, <1>3

(* What has been printed. *)
LEMMA ShownStep ==
    ASSUME TypeOK, StartOK, ExitOK, PipesOK, PoutOK, HandOK, ShownOK, [Next]_vars
    PROVE  ShownOK'
<1>1. ASSUME NEW ch \in Channel, ChildWrite(ch) PROVE ShownOK'
  <2>1. UNCHANGED <<dpc, pending, down, shown, frames, cpc>>
    BY <1>1 DEF ChildWrite, inputVars, loopVars, stdinVars, ptyVars, userVars, clientVars, faultVars
  <2>2. Intact' => Intact
    BY <2>1 DEF Intact, ClientClosed, ExitInDown, ExitInFrames
  <2>3. \A c \in Channel : Left(c)' = Left(c)
    BY <1>1, WrittenStays
  <2>4. \A c \in Channel : Sent(c)' = Sent(c)
    BY <2>1, <2>3 DEF Sent, InHand
  <2>5. QED
    BY <2>1, <2>2, <2>4, ShownKept
<1>2. CASE ChildRead
  <2>1. UNCHANGED <<made, pipe, pout, dpc, pending, down, shown, frames>>
    BY <1>2 DEF ChildRead, childVars, loopVars, stdinVars, ptyVars, userVars, clientVars, faultVars
  <2>2. Intact' => Intact
    BY <1>2
       DEF ChildRead, childVars, loopVars, stdinVars, ptyVars, userVars, clientVars, faultVars,
           Intact, ClientClosed, ExitInDown, ExitInFrames
  <2>3. QED
    BY <2>1, <2>2, SentKept, ShownKept
<1>3. CASE ChildExit
  <2>1. UNCHANGED <<made, pipe, pout, dpc, pending, down, shown, frames>>
    BY <1>3 DEF ChildExit, inputVars, loopVars, stdinVars, ptyVars, userVars, clientVars, faultVars
  <2>2. Intact' => Intact
    BY <1>3
       DEF ChildExit, inputVars, loopVars, stdinVars, ptyVars, userVars, clientVars, faultVars,
           Intact, ClientClosed, ExitInDown, ExitInFrames
  <2>3. QED
    BY <2>1, <2>2, SentKept, ShownKept
<1>4. CASE HeirsExit
  <2>1. UNCHANGED <<made, pipe, pout, dpc, pending, down, shown, frames>>
    BY <1>4 DEF HeirsExit, inputVars, loopVars, stdinVars, ptyVars, userVars, clientVars, faultVars
  <2>2. Intact' => Intact
    BY <1>4
       DEF HeirsExit, inputVars, loopVars, stdinVars, ptyVars, userVars, clientVars, faultVars,
           Intact, ClientClosed, ExitInDown, ExitInFrames
  <2>3. QED
    BY <2>1, <2>2, SentKept, ShownKept
<1>5. CASE Spawn
  <2>1. dpc # "done" /\ UNCHANGED <<down, shown, frames, cpc>>
    BY <1>5 DEF Spawn, inputVars, stdinVars, ptyVars, userVars, clientVars
  <2>2. Intact' => Intact
    BY <2>1 DEF Intact, ClientClosed
  <2>3. \A c \in Channel : Sent(c)' = Sent(c)
    <3>1. UNCHANGED <<made, pipe, pout>>
      BY <1>5 DEF Spawn, inputVars, stdinVars, ptyVars, userVars, clientVars
    <3>2. \A c \in Channel : ~InHand(c) /\ ~InHand(c)'
      BY <1>5 DEF Spawn, Send, Resp, InHand, IsChunk
    <3>3. QED
      BY <3>1, <3>2, NothingMoves DEF Sent
  <2>4. QED
    BY <2>1, <2>2, <2>3, ShownKept
<1>6. CASE WriteFrame
  <2>1. /\ UNCHANGED <<made, pipe, pout, shown, cpc>>
        /\ dpc = "write" /\ dpc' # "write"
    BY <1>6 DEF WriteFrame, Start, childVars, inputVars, userVars, clientVars, faultVars
  <2>2. CASE ClientClosed
    BY <2>1, <2>2 DEF ShownOK, Intact, ClientClosed
  <2>3. CASE ~ClientClosed /\ down' = Append(down, pending)
    <3>1. down \in Seq(DownFrame) /\ pending \in DownFrame
      BY DEF TypeOK
    <3>2. ASSUME NEW ch \in Channel PROVE Covers(shown'[ch], down', Sent(ch)', ch)
      <4>1. Covers(shown[ch], down, Sent(ch), ch)
        BY <2>1, <2>3 DEF ShownOK, Intact
      <4>2. PICK k \in Int : k = Sent(ch)
        BY LeftInt
      <4>3. PICK s \in Seq(1 .. MaxOut) : s = shown[ch]
        BY DEF TypeOK
      <4>4. Left(ch)' = Left(ch) /\ Left(ch) \in Int
        BY <2>1, NothingMoves, LeftInt
      <4>5. Sent(ch)' = Left(ch)
        BY <2>1, <4>4 DEF Sent, InHand
      <4>6. CASE IsChunk(pending, ch)
        <5>1. k = Left(ch) - 1 /\ pending.n = Left(ch)
          BY <2>1, <4>2, <4>6 DEF Sent, InHand, HandOK
        <5>2. pending.n = k + 1 /\ Sent(ch)' = k + 1
          BY <4>4, <4>5, <5>1
        <5>3. Len(s) \in Nat
          BY LenProperties
        <5>4. Covers(s, Append(down, pending), k + 1, ch)
          BY <3>1, <4>1, <4>2, <4>3, <4>6, <5>2, <5>3, CoversPush
        <5>5. QED
          BY <2>1, <2>3, <4>3, <5>2, <5>4
      <4>7. CASE ~IsChunk(pending, ch)
        <5>1. Sent(ch)' = k
          BY <4>2, <4>5, <4>7 DEF Sent, InHand
        <5>2. Covers(s, Append(down, pending), k, ch)
          BY <3>1, <4>1, <4>2, <4>3, <4>7, CoversPushOther
        <5>3. QED
          BY <2>1, <2>3, <4>3, <5>1, <5>2
      <4>8. QED
        BY <4>6, <4>7
    <3>3. QED
      BY <3>2 DEF ShownOK
  <2>4. QED
    BY <1>6, <2>2, <2>3 DEF WriteFrame
<1>7. CASE WriteFails
  BY <1>7
     DEF WriteFails, childVars, inputVars, stdinVars, ptyVars, userVars, clientVars, faultVars,
         ShownOK, Intact, ClientClosed
<1>8. CASE StdinFailed
  <2>1. dpc # "done" /\ UNCHANGED <<down, shown, frames, cpc>>
    BY <1>8 DEF StdinFailed, childVars, inputVars, ptyVars, userVars, clientVars, faultVars
  <2>2. Intact' => Intact
    BY <2>1 DEF Intact, ClientClosed
  <2>3. \A c \in Channel : Sent(c)' = Sent(c)
    <3>1. UNCHANGED <<made, pipe, pout>>
      BY <1>8 DEF StdinFailed, childVars, inputVars, ptyVars, userVars, clientVars, faultVars
    <3>2. \A c \in Channel : ~InHand(c) /\ ~InHand(c)'
      BY <1>8 DEF StdinFailed, Send, Resp, InHand, IsChunk
    <3>3. QED
      BY <3>1, <3>2, NothingMoves DEF Sent
  <2>4. QED
    BY <2>1, <2>2, <2>3, ShownKept
<1>9. ASSUME NEW ch \in Channel, ReadPipe(ch) PROVE ShownOK'
  <2>1. dpc # "done" /\ UNCHANGED <<down, shown, frames, cpc>>
    BY <1>9 DEF ReadPipe, inputVars, stdinVars, ptyVars, userVars, clientVars, faultVars
  <2>2. Intact' => Intact
    BY <2>1 DEF Intact, ClientClosed
  <2>3. \A c \in Channel : Sent(c)' = Sent(c)
    <3>1. dpc = "select" /\ dpc' = "write"
      BY <1>9 DEF ReadPipe, Send
    <3>2. \A c \in Channel : Sent(c) = Left(c)
      BY <3>1 DEF Sent, InHand
    <3>3. ch \in Channel /\ Left(ch) \in Int /\ \A c \in Channel : c # ch => Left(c)' = Left(c)
      BY <1>9, PipeTaken DEF Channel
    <3>4. CASE /\ pending' = Chunk(ch, Left(ch) + 1) /\ Left(ch) + 1 # Eof
               /\ Left(ch)' = Left(ch) + 1
      <4>1. InHand(ch)' /\ \A c \in Channel : c # ch => ~InHand(c)'
        BY <3>1, <3>4 DEF InHand, IsChunk, Chunk
      <4>2. Sent(ch)' = Left(ch)
        BY <3>3, <3>4, <4>1 DEF Sent
      <4>3. \A c \in Channel : c # ch => Sent(c)' = Left(c)
        BY <3>3, <4>1 DEF Sent
      <4>4. QED
        BY <3>2, <4>2, <4>3
    <3>5. CASE pending' = Chunk(ch, Eof) /\ Left(ch)' = Left(ch)
      <4>1. \A c \in Channel : ~InHand(c)'
        BY <3>5 DEF InHand, IsChunk, Chunk
      <4>2. QED
        BY <3>2, <3>3, <3>5, <4>1 DEF Sent
    <3>6. QED
      BY <1>9, <3>4, <3>5, PipeTaken
  <2>4. QED
    BY <2>1, <2>2, <2>3, ShownKept
<1>10. CASE ReadPty
  <2>1. dpc # "done" /\ UNCHANGED <<down, shown, frames, cpc>>
    BY <1>10 DEF ReadPty, childVars, inputVars, stdinVars, userVars, clientVars, faultVars
  <2>2. Intact' => Intact
    BY <2>1 DEF Intact, ClientClosed
  <2>3. \A c \in Channel : Sent(c)' = Sent(c)
    <3>1. dpc = "select" /\ dpc' = "write"
      BY <1>10 DEF ReadPty, Send
    <3>2. \A c \in Channel : Sent(c) = Left(c)
      BY <3>1 DEF Sent, InHand
    <3>3. /\ "stdout" \in Channel /\ Left("stdout") \in Int
          /\ \A c \in Channel : c # "stdout" => Left(c)' = Left(c)
      BY <1>10, PtyTaken DEF Channel
    <3>4. CASE /\ pending' = Chunk("stdout", Left("stdout") + 1) /\ Left("stdout") + 1 # Eof
               /\ Left("stdout")' = Left("stdout") + 1
      <4>1. InHand("stdout")' /\ \A c \in Channel : c # "stdout" => ~InHand(c)'
        BY <3>1, <3>4 DEF InHand, IsChunk, Chunk
      <4>2. Sent("stdout")' = Left("stdout")
        BY <3>3, <3>4, <4>1 DEF Sent
      <4>3. \A c \in Channel : c # "stdout" => Sent(c)' = Left(c)
        BY <3>3, <4>1 DEF Sent
      <4>4. QED
        BY <3>2, <4>2, <4>3
    <3>5. CASE pending' = Chunk("stdout", Eof) /\ Left("stdout")' = Left("stdout")
      <4>1. \A c \in Channel : ~InHand(c)'
        BY <3>5 DEF InHand, IsChunk, Chunk
      <4>2. QED
        BY <3>2, <3>3, <3>5, <4>1 DEF Sent
    <3>6. QED
      BY <1>10, <3>4, <3>5, PtyTaken
  <2>4. QED
    BY <2>1, <2>2, <2>3, ShownKept
<1>11. CASE ChildWaited
  <2>1. UNCHANGED <<made, pipe, pout, dpc, pending, down, shown, frames>>
    BY <1>11
       DEF ChildWaited, childVars, inputVars, stdinVars, ptyVars, userVars, clientVars, faultVars
  <2>2. Intact' => Intact
    BY <1>11
       DEF ChildWaited, childVars, inputVars, stdinVars, ptyVars, userVars, clientVars,
           faultVars, Intact, ClientClosed, ExitInDown, ExitInFrames
  <2>3. QED
    BY <2>1, <2>2, SentKept, ShownKept
<1>12. CASE LoopFails
  <2>1. dpc # "done" /\ UNCHANGED <<down, shown, frames, cpc>>
    BY <1>12 DEF LoopFails, childVars, inputVars, stdinVars, userVars, clientVars
  <2>2. Intact' => Intact
    BY <2>1 DEF Intact, ClientClosed
  <2>3. \A c \in Channel : Sent(c)' = Sent(c)
    <3>1. UNCHANGED <<made, pipe, pout>>
      BY <1>12 DEF LoopFails, childVars, inputVars, stdinVars, userVars, clientVars
    <3>2. \A c \in Channel : ~InHand(c) /\ ~InHand(c)'
      BY <1>12 DEF LoopFails, InHand, IsChunk
    <3>3. QED
      BY <3>1, <3>2, NothingMoves DEF Sent
  <2>4. QED
    BY <2>1, <2>2, <2>3, ShownKept
<1>13. CASE LoopDone
  <2>1. dpc # "done" /\ UNCHANGED <<down, shown, frames, cpc>>
    BY <1>13 DEF LoopDone, childVars, inputVars, stdinVars, ptyVars, userVars, clientVars, faultVars
  <2>2. Intact' => Intact
    BY <2>1 DEF Intact, ClientClosed
  <2>3. \A c \in Channel : Sent(c)' = Sent(c)
    <3>1. UNCHANGED <<made, pipe, pout>>
      BY <1>13
         DEF LoopDone, childVars, inputVars, stdinVars, ptyVars, userVars, clientVars, faultVars
    <3>2. \A c \in Channel : ~InHand(c) /\ ~InHand(c)'
      BY <1>13 DEF LoopDone, Send, Resp, InHand, IsChunk
    <3>3. QED
      BY <3>1, <3>2, NothingMoves DEF Sent
  <2>4. QED
    BY <2>1, <2>2, <2>3, ShownKept
<1>14. CASE StdinRead
  <2>1. UNCHANGED <<made, pipe, pout, dpc, pending, down, shown, frames>>
    BY <1>14 DEF StdinRead, childVars, inputVars, loopVars, ptyVars, userVars, clientVars, faultVars
  <2>2. Intact' => Intact
    BY <1>14
       DEF StdinRead, childVars, inputVars, loopVars, ptyVars, userVars, clientVars, faultVars,
           Intact, ClientClosed, ExitInDown, ExitInFrames
  <2>3. QED
    BY <2>1, <2>2, SentKept, ShownKept
<1>15. CASE StdinLost
  <2>1. UNCHANGED <<made, pipe, pout, dpc, pending, down, shown, frames>>
    BY <1>15 DEF StdinLost, childVars, inputVars, loopVars, ptyVars, userVars, clientVars, faultVars
  <2>2. Intact' => Intact
    BY <1>15
       DEF StdinLost, childVars, inputVars, loopVars, ptyVars, userVars, clientVars, faultVars,
           Intact, ClientClosed, ExitInDown, ExitInFrames
  <2>3. QED
    BY <2>1, <2>2, SentKept, ShownKept
<1>16. CASE StdinShutdown
  <2>1. UNCHANGED <<made, pipe, pout, dpc, pending, down, shown, frames>>
    BY <1>16
       DEF StdinShutdown, childVars, inputVars, loopVars, ptyVars, userVars, clientVars,
           faultVars
  <2>2. Intact' => Intact
    BY <1>16
       DEF StdinShutdown, childVars, inputVars, loopVars, ptyVars, userVars, clientVars,
           faultVars, Intact, ClientClosed, ExitInDown, ExitInFrames
  <2>3. QED
    BY <2>1, <2>2, SentKept, ShownKept
<1>17. CASE StdinPass
  <2>1. UNCHANGED <<made, pipe, pout, dpc, pending, down, shown, frames>>
    BY <1>17 DEF StdinPass, childVars, inputVars, loopVars, userVars, clientVars, faultVars
  <2>2. Intact' => Intact
    BY <1>17
       DEF StdinPass, childVars, inputVars, loopVars, userVars, clientVars, faultVars, Intact,
           ClientClosed, ExitInDown, ExitInFrames
  <2>3. QED
    BY <2>1, <2>2, SentKept, ShownKept
<1>18. CASE InputPump
  <2>1. UNCHANGED <<made, pipe, pout, dpc, pending, down, shown, frames>>
    BY <1>18 DEF InputPump, childVars, loopVars, stdinVars, userVars, clientVars, faultVars
  <2>2. Intact' => Intact
    BY <1>18
       DEF InputPump, childVars, loopVars, stdinVars, userVars, clientVars, faultVars, Intact,
           ClientClosed, ExitInDown, ExitInFrames
  <2>3. QED
    BY <2>1, <2>2, SentKept, ShownKept
<1>19. CASE OutputPump
  <2>1. UNCHANGED <<dpc, pending, down, shown, frames, cpc>>
    BY <1>19 DEF OutputPump, inputVars, loopVars, stdinVars, userVars, clientVars, faultVars
  <2>2. Intact' => Intact
    BY <2>1 DEF Intact, ClientClosed, ExitInDown, ExitInFrames
  <2>3. \A c \in Channel : Left(c)' = Left(c)
    BY <1>19, PumpKeepsPout
  <2>4. \A c \in Channel : Sent(c)' = Sent(c)
    BY <2>1, <2>3 DEF Sent, InHand
  <2>5. QED
    BY <2>1, <2>2, <2>4, ShownKept
<1>20. CASE OutputPumpEnds
  <2>1. UNCHANGED <<made, pipe, pout, dpc, pending, down, shown, frames>>
    BY <1>20
       DEF OutputPumpEnds, childVars, inputVars, loopVars, stdinVars, userVars, clientVars,
           faultVars
  <2>2. Intact' => Intact
    BY <1>20
       DEF OutputPumpEnds, childVars, inputVars, loopVars, stdinVars, userVars, clientVars,
           faultVars, Intact, ClientClosed, ExitInDown, ExitInFrames
  <2>3. QED
    BY <2>1, <2>2, SentKept, ShownKept
<1>21. CASE Started
  <2>1. /\ UNCHANGED <<made, pipe, pout, dpc, pending>>
        /\ ~ClientClosed /\ down # << >> /\ down' = Tail(down)
    BY <1>21
       DEF Started, childVars, inputVars, loopVars, stdinVars, ptyVars, userVars, faultVars,
           ClientClosed
  <2>2. down[1].kind = "started" /\ down \in Seq(DownFrame) /\ UNCHANGED <<shown, frames>>
    BY <1>21 DEF Started, StartOK, TypeOK
  <2>3. ExitInDown' => ExitInDown
    BY <2>1, DownPopped DEF ExitInDown
  <2>4. Intact' => Intact
    BY <2>1, <2>2, <2>3 DEF Intact, ExitInFrames
  <2>5. ASSUME Intact', NEW ch \in Channel PROVE Covers(shown'[ch], down', Sent(ch)', ch)
    <3>1. PICK k \in Int : k = Sent(ch)
      BY LeftInt
    <3>2. Sent(ch)' = k
      BY <2>1, <3>1, SentKept
    <3>3. ~IsChunk(down[1], ch)
      BY <2>2 DEF IsChunk
    <3>4. Covers(shown[ch], down, k, ch)
      BY <2>4, <2>5, <3>1 DEF ShownOK
    <3>5. Covers(shown[ch], Tail(down), k, ch)
      BY <2>1, <2>2, <3>3, <3>4, CoversPopOther
    <3>6. QED
      BY <2>1, <2>2, <3>2, <3>5
  <2>6. QED
    BY <2>5 DEF ShownOK
<1>22. CASE NotStarted
  BY <1>22
     DEF NotStarted, childVars, inputVars, loopVars, stdinVars, ptyVars, userVars, faultVars,
         ShownOK, Intact, ClientClosed
<1>23. CASE Type
  <2>1. UNCHANGED <<made, pipe, pout, dpc, pending, down, shown, frames>>
    BY <1>23 DEF Type, childVars, inputVars, loopVars, stdinVars, ptyVars, clientVars, faultVars
  <2>2. Intact' => Intact
    BY <1>23
       DEF Type, childVars, inputVars, loopVars, stdinVars, ptyVars, clientVars, faultVars,
           Intact, ClientClosed, ExitInDown, ExitInFrames
  <2>3. QED
    BY <2>1, <2>2, SentKept, ShownKept
<1>24. CASE TakeKey
  <2>1. UNCHANGED <<made, pipe, pout, dpc, pending, down, shown, frames>>
    BY <1>24 DEF TakeKey, childVars, inputVars, loopVars, stdinVars, ptyVars, faultVars
  <2>2. Intact' => Intact
    BY <1>24
       DEF TakeKey, childVars, inputVars, loopVars, stdinVars, ptyVars, faultVars, Intact,
           ClientClosed, ExitInDown, ExitInFrames
  <2>3. QED
    BY <2>1, <2>2, SentKept, ShownKept
<1>25. CASE Forward
  <2>1. UNCHANGED <<made, pipe, pout, dpc, pending, down, shown, frames>>
    BY <1>25 DEF Forward, childVars, inputVars, loopVars, stdinVars, ptyVars, userVars, faultVars
  <2>2. Intact' => Intact
    BY <1>25
       DEF Forward, childVars, inputVars, loopVars, stdinVars, ptyVars, userVars, faultVars,
           Intact, ClientClosed, ExitInDown, ExitInFrames
  <2>3. QED
    BY <2>1, <2>2, SentKept, ShownKept
<1>26. CASE ForwardLost
  <2>1. /\ UNCHANGED <<made, pipe, pout, dpc, pending, shown, frames>> /\ dpc = "done"
        /\ cpc = "forward" /\ down' \in {down, << >>}
    BY <1>26 DEF ForwardLost, DaemonClosed, childVars, loopVars, ptyVars
  <2>2. CASE down' = down
    <3>1. Intact' => Intact
      BY <2>1, <2>2 DEF Intact, ClientClosed, ExitInDown, ExitInFrames
    <3>2. QED
      BY <2>1, <2>2, <3>1, SentKept, ShownKept
  <2>3. CASE down # << >> /\ down' = << >>
    <3>1. ~ExitInFrames' /\ ~ExitInDown'
      BY <2>1, <2>3 DEF ExitOK, ExitInFrames, ExitInDown
    <3>2. QED
      BY <2>1, <3>1 DEF ShownOK, Intact
  <2>4. QED
    BY <2>1, <2>2, <2>3
<1>27. CASE ReadFrame
  <2>1. /\ UNCHANGED <<made, pipe, pout, dpc, pending>>
        /\ ~ClientClosed /\ down # << >> /\ down' = Tail(down)
    BY <1>27
       DEF ReadFrame, childVars, inputVars, loopVars, stdinVars, ptyVars, userVars, faultVars,
           ClientClosed
  <2>2. down \in Seq(DownFrame) /\ shown \in [Channel -> Seq(1 .. MaxOut)]
    BY DEF TypeOK
  <2>3. Head(down) = down[1] /\ down[1] \in DownFrame /\ 1 \in DOMAIN down
    BY <2>1, <2>2, Popped
  <2>4. Intact' => Intact
    <3>1. ExitInDown' => ExitInDown
      BY <2>1, DownPopped DEF ExitInDown
    <3>2. ExitInFrames' => ExitInFrames \/ ExitInDown
      <4>1. CASE frames' = frames
        BY <4>1 DEF ExitInFrames
      <4>2. CASE frames' = Append(frames, down[1].kind) /\ down[1].kind # "stream"
        <5>1. frames \in Seq(Response \cup {"broken"})
          BY DEF TypeOK
        <5>2. PICK k \in Response \cup {"broken"} : k = down[1].kind
          BY <2>3, <4>2 DEF DownFrame
        <5>3. /\ DOMAIN frames = 1 .. Len(frames) /\ DOMAIN frames' = 1 .. Len(frames) + 1
              /\ \A i \in 1 .. Len(frames) : frames'[i] = frames[i]
              /\ Len(frames) \in Nat /\ frames'[Len(frames) + 1] = k
          BY <4>2, <5>1, <5>2, Pushed
        <5>4. QED
          BY <2>3, <5>2, <5>3 DEF ExitInFrames, ExitInDown
      <4>3. QED
        BY <1>27, <2>3, <4>1, <4>2 DEF ReadFrame
    <3>3. QED
      BY <2>1, <3>1, <3>2 DEF Intact
  <2>5. ASSUME Intact', NEW ch \in Channel PROVE Covers(shown'[ch], down', Sent(ch)', ch)
    <3>1. PICK k \in Int : k = Sent(ch)
      BY LeftInt
    <3>2. Sent(ch)' = k
      BY <2>1, <3>1, SentKept
    <3>3. PICK s \in Seq(1 .. MaxOut) : s = shown[ch]
      BY <2>2
    <3>4. Covers(s, down, k, ch)
      BY <2>4, <2>5, <3>1, <3>3 DEF ShownOK
    <3>5. CASE IsChunk(down[1], ch)
      <4>1. down[1].n \in 1 .. MaxOut
        BY <2>3, <3>5, ShellAssumption DEF IsChunk, DownFrame, Eof
      <4>2. shown'[ch] = Append(s, down[1].n)
        BY <1>27, <2>2, <2>3, <3>3, <3>5 DEF ReadFrame, IsChunk
      <4>3. Covers(Append(s, down[1].n), Tail(down), k, ch)
        BY <2>1, <2>2, <3>4, <3>5, <4>1, CoversPop
      <4>4. QED
        BY <2>1, <3>2, <4>2, <4>3
    <3>6. CASE ~IsChunk(down[1], ch)
      <4>1. shown'[ch] = s
        BY <1>27, <2>2, <2>3, <3>3, <3>6 DEF ReadFrame, IsChunk
      <4>2. Covers(s, Tail(down), k, ch)
        BY <2>1, <2>2, <3>4, <3>6, CoversPopOther
      <4>3. QED
        BY <2>1, <3>2, <4>1, <4>2
    <3>7. QED
      BY <3>5, <3>6
  <2>6. QED
    BY <2>5 DEF ShownOK
<1>28. CASE ReadFails
  <2>1. /\ UNCHANGED <<made, pipe, pout, dpc, pending, down, shown, cpc>>
        /\ frames' = Append(frames, "broken")
    BY <1>28 DEF ReadFails, childVars, inputVars, loopVars, stdinVars, ptyVars, userVars
  <2>2. frames \in Seq(Response \cup {"broken"})
    BY DEF TypeOK
  <2>3. /\ DOMAIN frames = 1 .. Len(frames) /\ DOMAIN frames' = 1 .. Len(frames) + 1
        /\ \A i \in 1 .. Len(frames) : frames'[i] = frames[i]
        /\ Len(frames) \in Nat /\ frames'[Len(frames) + 1] = "broken"
    BY <2>1, <2>2, Pushed
  <2>4. ExitInFrames' => ExitInFrames
    BY <2>3 DEF ExitInFrames
  <2>5. Intact' => Intact
    BY <2>1, <2>4 DEF Intact, ClientClosed, ExitInDown
  <2>6. QED
    BY <2>1, <2>5, SentKept, ShownKept
<1>29. CASE HandleFrame
  BY <1>29
     DEF HandleFrame, childVars, inputVars, loopVars, stdinVars, ptyVars, userVars, faultVars,
         ShownOK, Intact, ClientClosed
<1>30. CASE ClientQuit
  BY <1>30
     DEF ClientQuit, childVars, inputVars, loopVars, stdinVars, ptyVars, userVars, ShownOK,
         Intact, ClientClosed
<1>31. CASE Reset
  <2>1. dpc = "done" /\ down # << >> /\ down' = << >> /\ UNCHANGED <<dpc, frames>>
    BY <1>31 DEF Reset, DaemonClosed, loopVars, clientVars
  <2>2. ~ExitInFrames' /\ ~ExitInDown'
    BY <2>1 DEF ExitOK, ExitInFrames, ExitInDown
  <2>3. QED
    BY <2>1, <2>2 DEF ShownOK, Intact
<1>32. CASE UNCHANGED vars
  <2>1. UNCHANGED <<made, pipe, pout, dpc, pending, down, shown, frames, cpc>>
    BY <1>32 DEF vars, childVars, ptyVars, loopVars, clientVars
  <2>2. Intact' => Intact
    BY <2>1 DEF Intact, ClientClosed, ExitInDown, ExitInFrames
  <2>3. QED
    BY <2>1, <2>2, SentKept, ShownKept
<1>33. QED
  BY <1>1, <1>2, <1>3, <1>4, <1>5, <1>6, <1>7, <1>8, <1>9, <1>10, <1>11, <1>12, <1>13, <1>14,
     <1>15, <1>16, <1>17, <1>18, <1>19, <1>20, <1>21, <1>22, <1>23, <1>24, <1>25, <1>26, <1>27,
     <1>28, <1>29, <1>30, <1>31, <1>32
     DEF Next, Command, Loop, Stdin, Output, Main, Reader, Terminated

(* The exit status is returned when everything has been printed. *)
LEMMA AllOutputStep ==
    ASSUME TypeOK, EndOK, StartOK, ExitOK, PoutOK, OpenOK, DrainedOK, ShownOK,
           ExitMeansAllOutput, [Next]_vars
    PROVE  ExitMeansAllOutput'
<1>1. ASSUME NEW ch \in Channel, ChildWrite(ch) PROVE ExitMeansAllOutput'
  BY <1>1 DEF ChildWrite, Writable, ExitMeansAllOutput, Over, clientVars
<1>2. CASE ChildRead
  BY <1>2
     DEF ChildRead, childVars, loopVars, stdinVars, ptyVars, userVars, clientVars, faultVars,
         ExitMeansAllOutput, Over, ClientClosed
<1>3. CASE ChildExit
  BY <1>3
     DEF ChildExit, inputVars, loopVars, stdinVars, ptyVars, userVars, clientVars, faultVars,
         ExitMeansAllOutput, Over, ClientClosed
<1>4. CASE HeirsExit
  BY <1>4
     DEF HeirsExit, inputVars, loopVars, stdinVars, ptyVars, userVars, clientVars, faultVars,
         ExitMeansAllOutput, Over, ClientClosed
<1>5. CASE Spawn
  <2>1. cpc # "ok"
    BY <1>5 DEF Spawn, StartOK, EndOK
  <2>2. QED
    BY <1>5, <2>1 DEF Spawn, clientVars, ExitMeansAllOutput
<1>6. CASE WriteFrame
  BY <1>6
     DEF WriteFrame, Start, childVars, inputVars, userVars, clientVars, faultVars,
         ExitMeansAllOutput, Over, ClientClosed
<1>7. CASE WriteFails
  BY <1>7
     DEF WriteFails, childVars, inputVars, stdinVars, ptyVars, userVars, clientVars, faultVars,
         ExitMeansAllOutput, Over, ClientClosed
<1>8. CASE StdinFailed
  BY <1>8
     DEF StdinFailed, Send, Resp, childVars, inputVars, ptyVars, userVars, clientVars, faultVars,
         ExitMeansAllOutput, Over, ClientClosed
<1>9. ASSUME NEW ch \in Channel, ReadPipe(ch) PROVE ExitMeansAllOutput'
  BY <1>9
     DEF ReadPipe, Send, Chunk, Writable, inputVars, stdinVars, ptyVars, userVars, clientVars,
         faultVars, ExitMeansAllOutput, Over, ClientClosed
<1>10. CASE ReadPty
  BY <1>10
     DEF ReadPty, Send, Chunk, childVars, inputVars, stdinVars, userVars, clientVars, faultVars,
         ExitMeansAllOutput, Over, ClientClosed
<1>11. CASE ChildWaited
  BY <1>11
     DEF ChildWaited, childVars, inputVars, stdinVars, ptyVars, userVars, clientVars, faultVars,
         ExitMeansAllOutput, Over, ClientClosed
<1>12. CASE LoopFails
  BY <1>12
     DEF LoopFails, childVars, inputVars, stdinVars, userVars, clientVars, ExitMeansAllOutput,
         Over, ClientClosed
<1>13. CASE LoopDone
  BY <1>13
     DEF LoopDone, Send, Resp, childVars, inputVars, stdinVars, ptyVars, userVars, clientVars,
         faultVars, ExitMeansAllOutput, Over, ClientClosed
<1>14. CASE StdinRead
  BY <1>14
     DEF StdinRead, childVars, inputVars, loopVars, ptyVars, userVars, clientVars, faultVars,
         ExitMeansAllOutput, Over, ClientClosed
<1>15. CASE StdinLost
  BY <1>15
     DEF StdinLost, childVars, inputVars, loopVars, ptyVars, userVars, clientVars, faultVars,
         ExitMeansAllOutput, Over, ClientClosed
<1>16. CASE StdinShutdown
  BY <1>16
     DEF StdinShutdown, childVars, inputVars, loopVars, ptyVars, userVars, clientVars, faultVars,
         ExitMeansAllOutput, Over, ClientClosed
<1>17. CASE StdinPass
  BY <1>17
     DEF StdinPass, childVars, inputVars, loopVars, userVars, clientVars, faultVars,
         ExitMeansAllOutput, Over, ClientClosed
<1>18. CASE InputPump
  BY <1>18
     DEF InputPump, childVars, loopVars, stdinVars, userVars, clientVars, faultVars,
         ExitMeansAllOutput, Over, ClientClosed
<1>19. CASE OutputPump
  BY <1>19
     DEF OutputPump, inputVars, loopVars, stdinVars, userVars, clientVars, faultVars,
         ExitMeansAllOutput, Over, ClientClosed
<1>20. CASE OutputPumpEnds
  BY <1>20
     DEF OutputPumpEnds, childVars, inputVars, loopVars, stdinVars, userVars, clientVars,
         faultVars, ExitMeansAllOutput, Over, ClientClosed
<1>21. CASE Started
  BY <1>21
     DEF Started, childVars, inputVars, loopVars, stdinVars, ptyVars, userVars, faultVars,
         ExitMeansAllOutput, Over, ClientClosed
<1>22. CASE NotStarted
  BY <1>22
     DEF NotStarted, childVars, inputVars, loopVars, stdinVars, ptyVars, userVars, faultVars,
         ExitMeansAllOutput, Over, ClientClosed
<1>23. CASE Type
  BY <1>23
     DEF Type, childVars, inputVars, loopVars, stdinVars, ptyVars, clientVars, faultVars,
         ExitMeansAllOutput, Over, ClientClosed
<1>24. CASE TakeKey
  BY <1>24
     DEF TakeKey, childVars, inputVars, loopVars, stdinVars, ptyVars, faultVars,
         ExitMeansAllOutput, Over, ClientClosed
<1>25. CASE Forward
  BY <1>25
     DEF Forward, childVars, inputVars, loopVars, stdinVars, ptyVars, userVars, faultVars,
         ExitMeansAllOutput, Over, ClientClosed
<1>26. CASE ForwardLost
  BY <1>26
     DEF ForwardLost, childVars, inputVars, loopVars, stdinVars, ptyVars, userVars, faultVars,
         ExitMeansAllOutput, Over, ClientClosed
<1>27. CASE ReadFrame
  BY <1>27
     DEF ReadFrame, childVars, inputVars, loopVars, stdinVars, ptyVars, userVars, faultVars,
         ExitMeansAllOutput, Over, ClientClosed
<1>28. CASE ReadFails
  BY <1>28
     DEF ReadFails, childVars, inputVars, loopVars, stdinVars, ptyVars, userVars,
         ExitMeansAllOutput, Over, ClientClosed
<1>29. CASE HandleFrame
  <2>1. /\ cpc = "run" /\ frames # << >> /\ UNCHANGED <<child, heirs, made, shown>>
        /\ frames \in Seq(Response \cup {"broken"})
    BY <1>29 DEF HandleFrame, childVars, TypeOK
  <2>2. SUFFICES ASSUME cpc' = "ok"
                 PROVE  /\ ~heirs /\ child = "exited"
                        /\ \A ch \in Channel : shown[ch] = Count(made[ch])
    BY <2>1 DEF ExitMeansAllOutput, Over
  <2>3. ExitInFrames
    <3>1. Head(frames) = "exit"
      BY <1>29, <2>2 DEF HandleFrame
    <3>2. Head(frames) = frames[1] /\ 1 \in DOMAIN frames
      BY <2>1, Popped
    <3>3. QED
      BY <3>1, <3>2 DEF ExitInFrames
  <2>4. dpc = "done" /\ down = << >>
    BY <2>3 DEF ExitOK
  <2>5. child = "exited" /\ \A ch \in Channel : ~open[ch]
    BY <2>3 DEF DrainedOK, Drained, Exiting
  <2>6. ~heirs /\ pout = << >> /\ \A ch \in Channel : pipe[ch] = << >>
    <3>1. mode \in {"pipe", "pty"}
      BY DEF TypeOK
    <3>2. QED
      BY <2>5, <3>1 DEF OpenOK, Gone, PoutOK, Channel
  <2>7. ASSUME NEW ch \in Channel PROVE shown[ch] = Count(made[ch])
    <3>1. PICK k \in Nat : k = made[ch]
      BY ReadInt
    <3>2. Sent(ch) = k
      <4>1. Len(pipe[ch]) = 0 /\ InPout = 0
        BY <2>6, EmptySeq DEF InPout
      <4>2. QED
        BY <2>4, <3>1, <4>1 DEF Sent, InHand, Left, Read
    <3>3. Covers(shown[ch], << >>, k, ch)
      BY <2>1, <2>3, <2>4, <3>2 DEF ShownOK, Intact, ClientClosed
    <3>4. PICK l \in Nat : l = Len(shown[ch])
      <4>1. shown[ch] \in Seq(1 .. MaxOut)
        BY DEF TypeOK
      <4>2. QED
        BY <4>1, LenProperties
    <3>5. shown[ch] = Count(l) /\ l <= k /\ ~(l + 1 \in l + 1 .. k)
      BY <3>3, <3>4 DEF Covers
    <3>6. l = k
      BY <3>5
    <3>7. QED
      BY <3>1, <3>5, <3>6
  <2>8. QED
    BY <2>5, <2>6, <2>7
<1>30. CASE ClientQuit
  BY <1>30
     DEF ClientQuit, childVars, inputVars, loopVars, stdinVars, ptyVars, userVars,
         ExitMeansAllOutput, Over, ClientClosed
<1>31. CASE Reset
  BY <1>31
     DEF Reset, childVars, inputVars, loopVars, stdinVars, ptyVars, userVars, clientVars,
         faultVars, ExitMeansAllOutput, Over, ClientClosed
<1>32. CASE UNCHANGED vars
  BY <1>32
     DEF vars, childVars, inputVars, loopVars, stdinVars, ptyVars, userVars, clientVars,
         faultVars, ExitMeansAllOutput, Over, ClientClosed
<1>33. QED
  BY <1>1, <1>2, <1>3, <1>4, <1>5, <1>6, <1>7, <1>8, <1>9, <1>10, <1>11, <1>12, <1>13, <1>14,
     <1>15, <1>16, <1>17, <1>18, <1>19, <1>20, <1>21, <1>22, <1>23, <1>24, <1>25, <1>26, <1>27,
     <1>28, <1>29, <1>30, <1>31, <1>32
     DEF Next, Command, Loop, Stdin, Output, Main, Reader, Terminated
-----------------------------------------------------------------------------
(* The numbers of input chunks are integers, and so is every count of them. *)
LEMMA InputInts ==
    ASSUME TypeOK
    PROVE  /\ Len(taken) \in Nat /\ Len(stdin) \in Nat /\ Len(pin) \in Nat /\ Len(up) \in Nat
           /\ Len(kbd) \in Nat /\ typed \in Nat /\ hold \in Nat /\ key \in Nat
           /\ Came \in Nat /\ Passed \in Nat /\ Forwarded \in Nat
<1>1. /\ taken \in Seq(1 .. MaxIn) /\ stdin \in Seq(1 .. MaxIn) /\ pin \in Seq(0 .. MaxIn)
      /\ up \in Seq(0 .. MaxIn) /\ kbd \in Seq(0 .. MaxIn)
  BY DEF TypeOK
<1>2. /\ Len(taken) \in Nat /\ Len(stdin) \in Nat /\ Len(pin) \in Nat /\ Len(up) \in Nat
      /\ Len(kbd) \in Nat
  BY <1>1, LenProperties
<1>3. typed \in Nat /\ hold \in Nat /\ key \in Nat
  BY ShellAssumption DEF TypeOK
<1>4. QED
  BY <1>2, <1>3 DEF Came, Passed, Forwarded

(* What PROVE says of a queue that loses its first element, and of one that *)
(* gets another: the numbers its elements are compared with move along.     *)
LEMMA QueuePopped ==
    ASSUME NEW q \in Seq(0 .. MaxIn), q # << >>, NEW b \in Nat,
           \A i \in DOMAIN q : q[i] # Eof => q[i] = b + i
    PROVE  /\ Head(q) \in 0 .. MaxIn /\ (Head(q) # Eof => Head(q) = b + 1)
           /\ \A i \in DOMAIN Tail(q) : Tail(q)[i] # Eof => Tail(q)[i] = (b + 1) + i
<1>1. PICK t : t = Tail(q)
  OBVIOUS
<1>2. PICK n \in Nat : n = Len(q) /\ n >= 1
  BY Popped
<1>3. /\ Head(q) \in 0 .. MaxIn /\ Head(q) = q[1] /\ DOMAIN q = 1 .. n /\ DOMAIN t = 1 .. n - 1
      /\ \A i \in 1 .. n - 1 : t[i] = q[i + 1]
  BY <1>1, <1>2, Popped
<1>4. Head(q) # Eof => Head(q) = b + 1
  BY <1>2, <1>3
<1>5. ASSUME NEW i \in DOMAIN t, t[i] # Eof PROVE t[i] = (b + 1) + i
  <2>1. i \in Nat /\ i + 1 \in DOMAIN q /\ t[i] = q[i + 1]
    BY <1>3, <1>5
  <2>2. q[i + 1] = b + (i + 1)
    BY <1>5, <2>1
  <2>3. QED
    BY <2>1, <2>2
<1>6. QED
  BY <1>1, <1>3, <1>4, <1>5

(* Consecutive keystrokes stay consecutive when the next one is appended. *)
LEMMA QueuePushed ==
    ASSUME NEW q \in Seq(0 .. MaxIn), NEW e \in 0 .. MaxIn, NEW b \in Nat,
           \A i \in DOMAIN q : q[i] # Eof => q[i] = b + i,
           e # Eof => e = b + (Len(q) + 1)
    PROVE  \A i \in DOMAIN Append(q, e) : Append(q, e)[i] # Eof => Append(q, e)[i] = b + i
<1>1. PICK t : t = Append(q, e)
  OBVIOUS
<1>2. PICK n \in Nat : n = Len(q)
  BY LenProperties
<1>3. /\ DOMAIN q = 1 .. n /\ DOMAIN t = 1 .. n + 1 /\ t[n + 1] = e
      /\ \A i \in 1 .. n : t[i] = q[i]
  BY <1>1, <1>2, Pushed
<1>4. ASSUME NEW i \in DOMAIN t, t[i] # Eof PROVE t[i] = b + i
  <2>1. CASE i \in 1 .. n
    BY <1>3, <1>4, <2>1
  <2>2. CASE i = n + 1
    BY <1>2, <1>3, <1>4, <2>2
  <2>3. QED
    BY <1>3, <2>1, <2>2
<1>5. QED
  BY <1>1, <1>4

(* A bound on the elements of a queue survives taking its head ... *)
LEMMA BoundPopped ==
    ASSUME NEW q \in Seq(0 .. MaxIn), q # << >>, NEW b \in Nat, \A i \in DOMAIN q : q[i] <= b
    PROVE  Head(q) <= b /\ \A i \in DOMAIN Tail(q) : Tail(q)[i] <= b
<1>1. /\ Head(q) = q[1] /\ Len(q) \in Nat /\ Len(q) >= 1
      /\ DOMAIN q = 1 .. Len(q) /\ DOMAIN Tail(q) = 1 .. Len(q) - 1
      /\ \A i \in 1 .. Len(q) - 1 : Tail(q)[i] = q[i + 1]
  BY Popped
<1>2. \A i \in 1 .. Len(q) - 1 : i + 1 \in DOMAIN q
  BY <1>1
<1>3. 1 \in DOMAIN q
  BY <1>1
<1>4. QED
  BY <1>1, <1>2, <1>3

(* ... and appending an element within a larger one. *)
LEMMA BoundPushed ==
    ASSUME NEW q \in Seq(0 .. MaxIn), NEW e \in 0 .. MaxIn, NEW b \in Nat, NEW c \in Nat, b <= c,
           \A i \in DOMAIN q : q[i] <= b, e <= c
    PROVE  \A i \in DOMAIN Append(q, e) : Append(q, e)[i] <= c
<1>1. PICK t : t = Append(q, e)
  OBVIOUS
<1>2. PICK n \in Nat : n = Len(q)
  BY LenProperties
<1>3. /\ DOMAIN q = 1 .. n /\ DOMAIN t = 1 .. n + 1 /\ t[n + 1] = e
      /\ \A i \in 1 .. n : t[i] = q[i]
  BY <1>1, <1>2, Pushed
<1>4. \A i \in 1 .. n : q[i] \in Nat
  BY <1>2, <1>3, ElementOfSeq, ShellAssumption
<1>5. ASSUME NEW i \in DOMAIN t PROVE t[i] <= c
  <2>1. CASE i \in 1 .. n
    BY <1>3, <1>4, <2>1
  <2>2. CASE i = n + 1
    BY <1>3, <2>2
  <2>3. QED
    BY <1>3, <2>1, <2>2
<1>6. QED
  BY <1>1, <1>5

(* What the shell has of the input. *)
LEMMA TypedStep ==
    ASSUME TypeOK, TypedOK, InputOK, [Next]_vars
    PROVE  TypedOK'
<1>1. ASSUME NEW ch \in Channel, ChildWrite(ch) PROVE TypedOK'
  BY <1>1
     DEF ChildWrite, Writable, Attached, inputVars, loopVars, stdinVars, ptyVars, userVars,
         clientVars, faultVars, TypedOK, Came
<1>2. CASE ChildRead
  <2>1. /\ stdin \in Seq(1 .. MaxIn) /\ stdin # << >> /\ taken \in Seq(1 .. MaxIn)
        /\ taken' = Append(taken, Head(stdin)) /\ stdin' = Tail(stdin)
        /\ UNCHANGED <<typed, hold, key, pin, up, kbd>>
    BY <1>2 DEF ChildRead, TypeOK, stdinVars, ptyVars, userVars, clientVars
  <2>2. PICK l \in Nat : l = Len(taken)
    BY InputInts
  <2>3. PICK n \in Nat : n = Len(stdin) /\ n >= 1
    BY <2>1, Popped
  <2>4. /\ Head(stdin) \in 1 .. MaxIn /\ Head(stdin) = stdin[1] /\ Len(stdin') = n - 1
        /\ DOMAIN stdin = 1 .. n /\ DOMAIN stdin' = 1 .. n - 1
        /\ \A i \in 1 .. n - 1 : stdin'[i] = stdin[i + 1]
    BY <2>1, <2>3, Popped
  <2>5. PICK v \in 1 .. MaxIn : v = Head(stdin)
    BY <2>4
  <2>6. /\ Len(taken') = l + 1 /\ DOMAIN taken = 1 .. l /\ DOMAIN taken' = 1 .. l + 1
        /\ (\A i \in 1 .. l : taken'[i] = taken[i]) /\ taken'[l + 1] = v
    BY <2>1, <2>2, <2>5, Pushed
  <2>7. v = l + 1
    BY <2>2, <2>3, <2>4, <2>5 DEF TypedOK
  <2>8. \A i \in DOMAIN taken' : taken'[i] = i
    <3>1. \A i \in 1 .. l : taken[i] = i
      BY <2>6 DEF TypedOK
    <3>2. QED
      BY <2>6, <2>7, <3>1
  <2>9. ASSUME NEW i \in DOMAIN stdin' PROVE stdin'[i] = Len(taken') + i
    <3>1. i \in Nat /\ i + 1 \in DOMAIN stdin /\ stdin'[i] = stdin[i + 1]
      BY <2>4, <2>9
    <3>2. stdin[i + 1] = l + (i + 1)
      BY <2>2, <3>1 DEF TypedOK
    <3>3. QED
      BY <2>6, <3>1, <3>2
  <2>10. Came' = Came
    BY <2>2, <2>3, <2>4, <2>6 DEF Came
  <2>11. QED
    BY <2>1, <2>8, <2>9, <2>10 DEF TypedOK
<1>3. CASE ChildExit
  BY <1>3
     DEF ChildExit, inputVars, loopVars, stdinVars, ptyVars, userVars, clientVars, faultVars,
         TypedOK, Came
<1>4. CASE HeirsExit
  BY <1>4
     DEF HeirsExit, inputVars, loopVars, stdinVars, ptyVars, userVars, clientVars, faultVars,
         TypedOK, Came
<1>5. CASE Spawn
  BY <1>5
     DEF Spawn, Send, Resp, inputVars, stdinVars, ptyVars, userVars, clientVars, TypedOK, Came
<1>6. CASE WriteFrame
  BY <1>6
     DEF WriteFrame, Start, childVars, inputVars, userVars, clientVars, faultVars, TypedOK, Came
<1>7. CASE WriteFails
  BY <1>7
     DEF WriteFails, childVars, inputVars, stdinVars, ptyVars, userVars, clientVars, faultVars,
         TypedOK, Came
<1>8. CASE StdinFailed
  BY <1>8
     DEF StdinFailed, Send, Resp, childVars, inputVars, ptyVars, userVars, clientVars, faultVars,
         TypedOK, Came
<1>9. ASSUME NEW ch \in Channel, ReadPipe(ch) PROVE TypedOK'
  BY <1>9
     DEF ReadPipe, Send, Chunk, Writable, inputVars, stdinVars, ptyVars, userVars, clientVars,
         faultVars, TypedOK, Came
<1>10. CASE ReadPty
  BY <1>10
     DEF ReadPty, Send, Chunk, childVars, inputVars, stdinVars, userVars, clientVars, faultVars,
         TypedOK, Came
<1>11. CASE ChildWaited
  BY <1>11
     DEF ChildWaited, childVars, inputVars, stdinVars, ptyVars, userVars, clientVars, faultVars,
         TypedOK, Came
<1>12. CASE LoopFails
  BY <1>12 DEF LoopFails, childVars, inputVars, stdinVars, userVars, clientVars, TypedOK, Came
<1>13. CASE LoopDone
  BY <1>13
     DEF LoopDone, Send, Resp, childVars, inputVars, stdinVars, ptyVars, userVars, clientVars,
         faultVars, TypedOK, Came
<1>14. CASE StdinRead
  <2>1. /\ up # << >> /\ hold' = Head(up) /\ up' = Tail(up) /\ up \in Seq(0 .. MaxIn)
        /\ UNCHANGED <<taken, stdin, typed, key, pin, kbd>>
    BY <1>14 DEF StdinRead, TypeOK, inputVars, ptyVars, userVars, clientVars
  <2>2. typed \in Nat
    BY InputInts
  <2>3. Head(up) <= typed /\ \A i \in DOMAIN up' : up'[i] <= typed
    BY <2>1, <2>2, BoundPopped DEF TypedOK
  <2>4. QED
    BY <2>1, <2>3 DEF TypedOK, Came
<1>15. CASE StdinLost
  <2>1. hold' = Eof /\ UNCHANGED <<taken, stdin, typed, key, pin, up, kbd>>
    BY <1>15 DEF StdinLost, inputVars, ptyVars, userVars, clientVars
  <2>2. Eof <= typed
    BY InputInts DEF Eof
  <2>3. QED
    BY <2>1, <2>2 DEF TypedOK, Came
<1>16. CASE StdinShutdown
  BY <1>16
     DEF StdinShutdown, childVars, inputVars, loopVars, ptyVars, userVars, clientVars, faultVars,
         TypedOK, Came
<1>17. CASE StdinPass
  <2>1. UNCHANGED <<taken, stdin, typed, hold, key, up, kbd>>
    BY <1>17 DEF StdinPass, inputVars, userVars, clientVars
  <2>2. typed \in Nat /\ hold \in 0 .. MaxIn /\ pin \in Seq(0 .. MaxIn) /\ typed <= typed
    BY InputInts DEF TypeOK
  <2>3. pin' = pin \/ pin' = Append(pin, hold)
    BY <1>17 DEF StdinPass
  <2>4. \A i \in DOMAIN pin' : pin'[i] <= typed
    <3>1. (\A i \in DOMAIN pin : pin[i] <= typed) /\ hold <= typed
      BY DEF TypedOK
    <3>2. \A i \in DOMAIN Append(pin, hold) : Append(pin, hold)[i] <= typed
      BY <2>2, <3>1, BoundPushed
    <3>3. QED
      BY <2>3, <3>1, <3>2
  <2>5. QED
    BY <2>1, <2>4 DEF TypedOK, Came
<1>18. CASE InputPump
  <2>1. /\ ipump = "run" /\ pin # << >> /\ pin' = Tail(pin) /\ pin \in Seq(0 .. MaxIn)
        /\ UNCHANGED <<taken, typed, hold, key, up, kbd>>
    BY <1>18 DEF InputPump, TypeOK, stdinVars, userVars, clientVars
  <2>2. typed \in Nat /\ Came \in Nat /\ Len(taken) \in Nat /\ Len(stdin) \in Nat
    BY InputInts
  <2>3. Head(pin) <= typed /\ \A i \in DOMAIN pin' : pin'[i] <= typed
    BY <2>1, <2>2, BoundPopped DEF TypedOK
  <2>4. CASE stdin' = stdin
    <3>1. Came' = Came
      BY <2>1, <2>4 DEF Came
    <3>2. QED
      BY <2>1, <2>3, <2>4, <3>1 DEF TypedOK
  <2>5. CASE Head(pin) # Eof /\ stdin' = Append(stdin, Head(pin))
    <3>1. Head(pin) \in 0 .. MaxIn /\ Head(pin) = Came + 1
      BY <2>1, <2>2, <2>5, QueuePopped DEF InputOK
    <3>2. PICK v \in 1 .. MaxIn : v = Head(pin)
      BY <2>5, <3>1, ShellAssumption DEF Eof
    <3>3. PICK n \in Nat : n = Len(stdin)
      BY <2>2
    <3>4. stdin \in Seq(1 .. MaxIn)
      BY DEF TypeOK
    <3>5. /\ Len(stdin') = n + 1 /\ DOMAIN stdin = 1 .. n /\ DOMAIN stdin' = 1 .. n + 1
          /\ (\A i \in 1 .. n : stdin'[i] = stdin[i]) /\ stdin'[n + 1] = v
      BY <2>5, <3>2, <3>3, <3>4, Pushed
    <3>6. PICK l \in Nat : l = Len(taken)
      BY <2>2
    <3>7. v = l + (n + 1) /\ Came' = Came + 1 /\ Came' = v
      BY <2>1, <3>1, <3>2, <3>3, <3>5, <3>6 DEF Came
    <3>8. \A i \in 1 .. n : stdin[i] = l + i
      BY <3>5, <3>6 DEF TypedOK
    <3>9. \A i \in DOMAIN stdin' : stdin'[i] = l + i
      BY <3>5, <3>7, <3>8
    <3>10. Came' <= typed
      BY <2>3, <3>2, <3>7
    <3>11. QED
      BY <2>1, <2>3, <3>6, <3>9, <3>10 DEF TypedOK
  <2>6. QED
    BY <1>18, <2>4, <2>5 DEF InputPump
<1>19. CASE OutputPump
  BY <1>19
     DEF OutputPump, inputVars, loopVars, stdinVars, userVars, clientVars, faultVars, TypedOK,
         Came
<1>20. CASE OutputPumpEnds
  BY <1>20
     DEF OutputPumpEnds, childVars, inputVars, loopVars, stdinVars, userVars, clientVars,
         faultVars, TypedOK, Came
<1>21. CASE Started
  BY <1>21
     DEF Started, childVars, inputVars, loopVars, stdinVars, ptyVars, userVars, faultVars,
         TypedOK, Came
<1>22. CASE NotStarted
  BY <1>22
     DEF NotStarted, childVars, inputVars, loopVars, stdinVars, ptyVars, userVars, faultVars,
         TypedOK, Came
<1>23. CASE Type
  <2>1. UNCHANGED <<taken, stdin, hold, key, pin, up>>
    BY <1>23 DEF Type, inputVars, stdinVars, ptyVars, clientVars
  <2>2. typed \in Nat /\ typed' \in Nat /\ typed <= typed'
    BY <1>23, InputInts DEF Type
  <2>3. PICK e \in 0 .. MaxIn : e <= typed' /\ kbd' = Append(kbd, e)
    <3>1. CASE typed < MaxIn /\ typed' = typed + 1 /\ kbd' = Append(kbd, typed + 1)
      BY <2>2, <3>1, ShellAssumption
    <3>2. CASE kbd' = Append(kbd, Eof)
      BY <2>2, <3>2, ShellAssumption DEF Eof
    <3>3. QED
      BY <1>23, <3>1, <3>2 DEF Type
  <2>4. kbd \in Seq(0 .. MaxIn)
    BY DEF TypeOK
  <2>5. \A i \in DOMAIN kbd' : kbd'[i] <= typed'
    BY <2>2, <2>3, <2>4, BoundPushed DEF TypedOK
  <2>6. /\ \A i \in DOMAIN pin : pin[i] \in Nat
        /\ \A i \in DOMAIN up : up[i] \in Nat
    <3>1. pin \in Seq(0 .. MaxIn) /\ up \in Seq(0 .. MaxIn) /\ MaxIn \in Nat
      BY ShellAssumption DEF TypeOK
    <3>2. QED
      BY <3>1, ElementOfSeq, LenProperties
  <2>7. Came \in Nat /\ hold \in Nat /\ key \in Nat /\ Came' = Came
    BY <2>1, InputInts DEF Came
  <2>8. Came <= typed' /\ hold <= typed' /\ key <= typed'
    BY <2>2, <2>7 DEF TypedOK
  <2>9. (\A i \in DOMAIN pin : pin[i] <= typed') /\ (\A i \in DOMAIN up : up[i] <= typed')
    BY <2>2, <2>6 DEF TypedOK
  <2>10. QED
    BY <2>1, <2>5, <2>7, <2>8, <2>9 DEF TypedOK
<1>24. CASE TakeKey
  <2>1. /\ kbd # << >> /\ key' = Head(kbd) /\ kbd' = Tail(kbd) /\ kbd \in Seq(0 .. MaxIn)
        /\ UNCHANGED <<taken, stdin, typed, hold, pin, up>>
    BY <1>24 DEF TakeKey, TypeOK, inputVars, ptyVars, stdinVars
  <2>2. typed \in Nat
    BY InputInts
  <2>3. Head(kbd) <= typed /\ \A i \in DOMAIN kbd' : kbd'[i] <= typed
    BY <2>1, <2>2, BoundPopped DEF TypedOK
  <2>4. QED
    BY <2>1, <2>3 DEF TypedOK, Came
<1>25. CASE Forward
  <2>1. up' = Append(up, key) /\ UNCHANGED <<taken, stdin, typed, hold, key, pin, kbd>>
    BY <1>25 DEF Forward, inputVars, stdinVars, ptyVars, userVars
  <2>2. typed \in Nat /\ key \in 0 .. MaxIn /\ up \in Seq(0 .. MaxIn) /\ typed <= typed
    BY InputInts DEF TypeOK
  <2>3. \A i \in DOMAIN up' : up'[i] <= typed
    <3>1. (\A i \in DOMAIN up : up[i] <= typed) /\ key <= typed
      BY DEF TypedOK
    <3>2. QED
      BY <2>1, <2>2, <3>1, BoundPushed
  <2>4. QED
    BY <2>1, <2>3 DEF TypedOK, Came
<1>26. CASE ForwardLost
  BY <1>26
     DEF ForwardLost, childVars, inputVars, loopVars, stdinVars, ptyVars, userVars, faultVars,
         TypedOK, Came
<1>27. CASE ReadFrame
  BY <1>27
     DEF ReadFrame, childVars, inputVars, loopVars, stdinVars, ptyVars, userVars, faultVars,
         TypedOK, Came
<1>28. CASE ReadFails
  BY <1>28
     DEF ReadFails, childVars, inputVars, loopVars, stdinVars, ptyVars, userVars, TypedOK, Came
<1>29. CASE HandleFrame
  BY <1>29
     DEF HandleFrame, childVars, inputVars, loopVars, stdinVars, ptyVars, userVars, faultVars,
         TypedOK, Came
<1>30. CASE ClientQuit
  BY <1>30
     DEF ClientQuit, childVars, inputVars, loopVars, stdinVars, ptyVars, userVars, TypedOK, Came
<1>31. CASE Reset
  BY <1>31
     DEF Reset, childVars, inputVars, loopVars, stdinVars, ptyVars, userVars, clientVars,
         faultVars, TypedOK, Came
<1>32. CASE UNCHANGED vars
  BY <1>32
     DEF vars, childVars, inputVars, loopVars, stdinVars, ptyVars, userVars, clientVars,
         faultVars, TypedOK, Came
<1>33. QED
  BY <1>1, <1>2, <1>3, <1>4, <1>5, <1>6, <1>7, <1>8, <1>9, <1>10, <1>11, <1>12, <1>13, <1>14,
     <1>15, <1>16, <1>17, <1>18, <1>19, <1>20, <1>21, <1>22, <1>23, <1>24, <1>25, <1>26, <1>27,
     <1>28, <1>29, <1>30, <1>31, <1>32
     DEF Next, Command, Loop, Stdin, Output, Main, Reader, Terminated
-----------------------------------------------------------------------------
(* A step that leaves the queues of the input alone. *)
LEMMA InputKept ==
    ASSUME InputOK,
           UNCHANGED <<mode, stdin, taken, pin, ipump, spc, hold, up, key, kbd, keys, typed>>,
           cpc' = cpc \/ ClientClosed' \/ (cpc # "forward" /\ cpc' # "forward" /\ ~ClientClosed)
    PROVE  InputOK'
<1>1. Came' = Came /\ Passed' = Passed /\ Flow' = Flow
  BY DEF Came, Passed, Flow
<1>2. CASE ClientClosed'
  BY <1>1, <1>2 DEF InputOK
<1>3. CASE ~ClientClosed'
  <2>1. ~ClientClosed /\ Forwarded' = Forwarded /\ (cpc' = "forward" => cpc = "forward")
    BY <1>1, <1>3 DEF Forwarded, ClientClosed
  <2>2. QED
    BY <1>1, <2>1 DEF InputOK
<1>4. QED
  BY <1>2, <1>3

(* What is on its way to the shell. *)
LEMMA InputStep ==
    ASSUME TypeOK, StartOK, PipeInputOK, TypedOK, InputOK, [Next]_vars
    PROVE  InputOK'
<1>1. ASSUME NEW ch \in Channel, ChildWrite(ch) PROVE InputOK'
  <2>1. UNCHANGED <<mode, stdin, taken, pin, ipump, spc, hold, up, key, kbd, keys, typed>>
    BY <1>1
       DEF ChildWrite, Writable, Attached, inputVars, loopVars, stdinVars, ptyVars, userVars,
           clientVars, faultVars
  <2>2. cpc' = cpc \/ ClientClosed' \/ (cpc # "forward" /\ cpc' # "forward" /\ ~ClientClosed)
    BY <1>1
       DEF ChildWrite, Writable, Attached, inputVars, loopVars, stdinVars, ptyVars, userVars,
           clientVars, faultVars, ClientClosed
  <2>3. QED
    BY <2>1, <2>2, InputKept
<1>2. CASE ChildRead
  <2>1. /\ stdin \in Seq(1 .. MaxIn) /\ stdin # << >> /\ taken \in Seq(1 .. MaxIn)
        /\ taken' = Append(taken, Head(stdin)) /\ stdin' = Tail(stdin)
        /\ UNCHANGED <<mode, pin, ipump, spc, hold, up, key, kbd, keys, typed, cpc>>
    BY <1>2 DEF ChildRead, TypeOK, stdinVars, ptyVars, userVars, clientVars
  <2>2. PICK v \in 1 .. MaxIn : v = Head(stdin)
    BY <2>1, Popped
  <2>3. Len(taken') = Len(taken) + 1 /\ Len(stdin') = Len(stdin) - 1
    BY <2>1, <2>2, Popped, Pushed
  <2>4. Came' = Came
    BY <2>3, InputInts DEF Came
  <2>5. Passed' = Passed /\ Forwarded' = Forwarded
    BY <2>1, <2>4 DEF Passed, Forwarded
  <2>6. QED
    BY <2>1, <2>4, <2>5 DEF InputOK, Flow, ClientClosed
<1>3. CASE ChildExit
  <2>1. UNCHANGED <<mode, stdin, taken, pin, ipump, spc, hold, up, key, kbd, keys, typed>>
    BY <1>3 DEF ChildExit, inputVars, loopVars, stdinVars, ptyVars, userVars, clientVars, faultVars
  <2>2. cpc' = cpc \/ ClientClosed' \/ (cpc # "forward" /\ cpc' # "forward" /\ ~ClientClosed)
    BY <1>3
       DEF ChildExit, inputVars, loopVars, stdinVars, ptyVars, userVars, clientVars, faultVars,
           ClientClosed
  <2>3. QED
    BY <2>1, <2>2, InputKept
<1>4. CASE HeirsExit
  <2>1. UNCHANGED <<mode, stdin, taken, pin, ipump, spc, hold, up, key, kbd, keys, typed>>
    BY <1>4 DEF HeirsExit, inputVars, loopVars, stdinVars, ptyVars, userVars, clientVars, faultVars
  <2>2. cpc' = cpc \/ ClientClosed' \/ (cpc # "forward" /\ cpc' # "forward" /\ ~ClientClosed)
    BY <1>4
       DEF HeirsExit, inputVars, loopVars, stdinVars, ptyVars, userVars, clientVars, faultVars,
           ClientClosed
  <2>3. QED
    BY <2>1, <2>2, InputKept
<1>5. CASE Spawn
  <2>1. UNCHANGED <<mode, stdin, taken, pin, ipump, spc, hold, up, key, kbd, keys, typed>>
    BY <1>5 DEF Spawn, Send, Resp, inputVars, stdinVars, ptyVars, userVars, clientVars
  <2>2. cpc' = cpc \/ ClientClosed' \/ (cpc # "forward" /\ cpc' # "forward" /\ ~ClientClosed)
    BY <1>5 DEF Spawn, Send, Resp, inputVars, stdinVars, ptyVars, userVars, clientVars, ClientClosed
  <2>3. QED
    BY <2>1, <2>2, InputKept
<1>6. CASE WriteFrame
  <2>1. UNCHANGED <<mode, stdin, taken, pin, hold, up, key, kbd, keys, typed, cpc>>
    BY <1>6 DEF WriteFrame, inputVars, userVars, clientVars
  <2>2. CASE UNCHANGED <<spc, ipump>>
    BY <2>1, <2>2, InputKept
  <2>3. CASE pending.kind = "started"
    <3>1. spc = "off" /\ spc' = "read" /\ ipump = "off" /\ ipump' # "done"
      BY <1>6, <2>3 DEF WriteFrame, Start, StartOK, Early
    <3>2. Came' = Came /\ Passed' = Passed /\ Forwarded' = Forwarded
      BY <2>1, <3>1 DEF Came, Passed, Forwarded
    <3>3. Flow' = Flow
      BY <2>1, <3>1 DEF Flow
    <3>4. QED
      BY <2>1, <3>1, <3>2, <3>3 DEF InputOK, ClientClosed
  <2>4. QED
    BY <1>6, <2>2, <2>3 DEF WriteFrame
<1>7. CASE WriteFails
  <2>1. UNCHANGED <<mode, stdin, taken, pin, ipump, spc, hold, up, key, kbd, keys, typed>>
    BY <1>7
       DEF WriteFails, childVars, inputVars, stdinVars, ptyVars, userVars, clientVars, faultVars
  <2>2. cpc' = cpc \/ ClientClosed' \/ (cpc # "forward" /\ cpc' # "forward" /\ ~ClientClosed)
    BY <1>7
       DEF WriteFails, childVars, inputVars, stdinVars, ptyVars, userVars, clientVars, faultVars,
           ClientClosed
  <2>3. QED
    BY <2>1, <2>2, InputKept
<1>8. CASE StdinFailed
  <2>1. UNCHANGED <<mode, stdin, taken, pin, ipump, spc, hold, up, key, kbd, keys, typed>>
    BY <1>8 DEF StdinFailed, childVars, inputVars, ptyVars, userVars, clientVars, faultVars
  <2>2. cpc' = cpc \/ ClientClosed' \/ (cpc # "forward" /\ cpc' # "forward" /\ ~ClientClosed)
    BY <1>8
       DEF StdinFailed, childVars, inputVars, ptyVars, userVars, clientVars, faultVars,
           ClientClosed
  <2>3. QED
    BY <2>1, <2>2, InputKept
<1>9. ASSUME NEW ch \in Channel, ReadPipe(ch) PROVE InputOK'
  <2>1. UNCHANGED <<mode, stdin, taken, pin, ipump, spc, hold, up, key, kbd, keys, typed>>
    BY <1>9
       DEF ReadPipe, Send, Chunk, Writable, inputVars, stdinVars, ptyVars, userVars, clientVars,
           faultVars
  <2>2. cpc' = cpc \/ ClientClosed' \/ (cpc # "forward" /\ cpc' # "forward" /\ ~ClientClosed)
    BY <1>9
       DEF ReadPipe, Send, Chunk, Writable, inputVars, stdinVars, ptyVars, userVars, clientVars,
           faultVars, ClientClosed
  <2>3. QED
    BY <2>1, <2>2, InputKept
<1>10. CASE ReadPty
  <2>1. UNCHANGED <<mode, stdin, taken, pin, ipump, spc, hold, up, key, kbd, keys, typed>>
    BY <1>10
       DEF ReadPty, Send, Chunk, childVars, inputVars, stdinVars, userVars, clientVars, faultVars
  <2>2. cpc' = cpc \/ ClientClosed' \/ (cpc # "forward" /\ cpc' # "forward" /\ ~ClientClosed)
    BY <1>10
       DEF ReadPty, Send, Chunk, childVars, inputVars, stdinVars, userVars, clientVars,
           faultVars, ClientClosed
  <2>3. QED
    BY <2>1, <2>2, InputKept
<1>11. CASE ChildWaited
  <2>1. UNCHANGED <<mode, stdin, taken, pin, ipump, spc, hold, up, key, kbd, keys, typed>>
    BY <1>11
       DEF ChildWaited, childVars, inputVars, stdinVars, ptyVars, userVars, clientVars, faultVars
  <2>2. cpc' = cpc \/ ClientClosed' \/ (cpc # "forward" /\ cpc' # "forward" /\ ~ClientClosed)
    BY <1>11
       DEF ChildWaited, childVars, inputVars, stdinVars, ptyVars, userVars, clientVars,
           faultVars, ClientClosed
  <2>3. QED
    BY <2>1, <2>2, InputKept
<1>12. CASE LoopFails
  <2>1. UNCHANGED <<mode, stdin, taken, pin, ipump, spc, hold, up, key, kbd, keys, typed>>
    BY <1>12 DEF LoopFails, childVars, inputVars, stdinVars, userVars, clientVars
  <2>2. cpc' = cpc \/ ClientClosed' \/ (cpc # "forward" /\ cpc' # "forward" /\ ~ClientClosed)
    BY <1>12 DEF LoopFails, childVars, inputVars, stdinVars, userVars, clientVars, ClientClosed
  <2>3. QED
    BY <2>1, <2>2, InputKept
<1>13. CASE LoopDone
  <2>1. UNCHANGED <<mode, stdin, taken, pin, ipump, spc, hold, up, key, kbd, keys, typed>>
    BY <1>13
       DEF LoopDone, Send, Resp, childVars, inputVars, stdinVars, ptyVars, userVars, clientVars,
           faultVars
  <2>2. cpc' = cpc \/ ClientClosed' \/ (cpc # "forward" /\ cpc' # "forward" /\ ~ClientClosed)
    BY <1>13
       DEF LoopDone, Send, Resp, childVars, inputVars, stdinVars, ptyVars, userVars, clientVars,
           faultVars, ClientClosed
  <2>3. QED
    BY <2>1, <2>2, InputKept
<1>14. CASE StdinRead
  <2>1. /\ spc = "read" /\ spc' = "pass" /\ up # << >> /\ hold' = Head(up) /\ up' = Tail(up)
        /\ up \in Seq(0 .. MaxIn)
        /\ UNCHANGED <<mode, stdin, taken, pin, ipump, key, kbd, keys, typed, cpc>>
    BY <1>14 DEF StdinRead, TypeOK, inputVars, ptyVars, userVars, clientVars
  <2>2. PICK p \in Nat : p = Passed
    BY InputInts
  <2>3. Came' = Came /\ Passed' = p + 1 /\ Flow' = Flow
    <3>1. Passed = (Came + Len(pin)) + 0 /\ Came \in Nat /\ Len(pin) \in Nat
      BY <2>1, InputInts DEF Passed
    <3>2. Came' = Came
      BY <2>1 DEF Came
    <3>3. Passed' = (Came + Len(pin)) + 1
      BY <2>1, <3>2 DEF Passed
    <3>4. QED
      BY <2>1, <2>2, <3>1, <3>2, <3>3 DEF Flow
  <2>4. Forwarded' = Forwarded
    <3>1. PICK n \in Nat : n = Len(up) /\ Len(up') = n - 1
      BY <2>1, Popped
    <3>2. QED
      BY <2>1, <2>2, <2>3, <3>1 DEF Forwarded
  <2>5. ipump # "done" => (hold' # Eof => hold' = p + 1)
    <3>1. CASE Flow
      BY <2>1, <2>2, <3>1, QueuePopped DEF InputOK
    <3>2. CASE mode = "pipe"
      <4>1. typed = 0 /\ Head(up) <= typed
        <5>1. typed \in Nat /\ \A i \in DOMAIN up : up[i] <= typed
          BY InputInts DEF TypedOK
        <5>2. QED
          BY <2>1, <3>2, <5>1, BoundPopped DEF PipeInputOK
      <4>2. Head(up) \in Nat
        BY <2>1, Popped, ShellAssumption
      <4>3. QED
        BY <2>1, <4>1, <4>2 DEF Eof
    <3>3. QED
      BY <2>1, <3>1, <3>2 DEF Flow, TypeOK
  <2>6. Flow => \A i \in DOMAIN up' : up'[i] # Eof => up'[i] = (p + 1) + i
    <3>1. SUFFICES ASSUME Flow PROVE \A i \in DOMAIN up' : up'[i] # Eof => up'[i] = (p + 1) + i
      OBVIOUS
    <3>2. \A i \in DOMAIN up : up[i] # Eof => up[i] = p + i
      BY <2>2, <3>1 DEF InputOK
    <3>3. QED
      BY <2>1, <3>2, QueuePopped
  <2>7. QED
    BY <2>1, <2>3, <2>4, <2>5, <2>6 DEF InputOK, ClientClosed
<1>15. CASE StdinLost
  <2>1. /\ hold' = Eof /\ up = << >> /\ ClientClosed
        /\ UNCHANGED <<mode, stdin, taken, pin, ipump, up, cpc>>
    BY <1>15 DEF StdinLost, inputVars, ptyVars, clientVars
  <2>2. Came' = Came /\ ClientClosed' /\ DOMAIN up' = {}
    BY <2>1, EmptySeq DEF Came, ClientClosed
  <2>3. QED
    BY <2>1, <2>2 DEF InputOK
<1>16. CASE StdinShutdown
  <2>1. mode' # "pty" /\ spc' = "done" /\ UNCHANGED <<stdin, taken, pin, ipump>>
    BY <1>16 DEF StdinShutdown, inputVars, ptyVars
  <2>2. Came' = Came /\ ~Flow'
    BY <2>1 DEF Came, Flow
  <2>3. QED
    BY <2>1, <2>2 DEF InputOK
<1>17. CASE StdinPass
  <2>1. UNCHANGED <<mode, stdin, taken, hold, ipump, up, key, kbd, keys, typed, cpc>>
    BY <1>17 DEF StdinPass, inputVars, userVars, clientVars
  <2>2. /\ spc \in {"pass", "pass_error"} /\ spc' \in {"read", "done"}
        /\ hold \in 0 .. MaxIn /\ pin \in Seq(0 .. MaxIn)
    BY <1>17 DEF StdinPass, TypeOK
  <2>3. Came' = Came /\ Came \in Nat
    BY <2>1, InputInts DEF Came
  <2>4. CASE /\ ipump = "run" /\ pin' = Append(pin, hold)
             /\ spc' = IF hold = Eof THEN "done" ELSE "read"
    <3>1. hold # Eof => spc = "pass" /\ hold = Passed
      BY <2>2, <2>4 DEF InputOK
    <3>2. PICK n \in Nat : n = Len(pin)
      BY InputInts
    <3>3. Len(pin') = n + 1
      BY <2>2, <2>4, <3>2, Pushed
    <3>4. PICK c \in Nat : c = Came
      BY <2>3
    <3>5. spc = "pass" => Passed = (c + n) + 1
      BY <3>2, <3>4 DEF Passed
    <3>6. hold # Eof => hold = c + (Len(pin) + 1)
      BY <3>1, <3>2, <3>4, <3>5
    <3>7. \A i \in DOMAIN pin' : pin'[i] # Eof => pin'[i] = c + i
      <4>1. \A i \in DOMAIN pin : pin[i] # Eof => pin[i] = c + i
        BY <2>4, <3>4 DEF InputOK
      <4>2. QED
        BY <2>2, <2>4, <3>6, <4>1, QueuePushed
    <3>8. CASE hold = Eof
      <4>1. spc' = "done" /\ ~Flow'
        BY <2>4, <3>8 DEF Flow
      <4>2. QED
        BY <2>3, <3>4, <3>7, <4>1 DEF InputOK
    <3>9. CASE hold # Eof
      <4>1. spc = "pass" /\ spc' = "read" /\ Flow' = Flow
        BY <2>1, <2>4, <3>1, <3>9 DEF Flow
      <4>2. Passed' = (c + (n + 1)) + 0
        BY <2>3, <3>3, <3>4, <4>1 DEF Passed
      <4>3. Passed' = Passed
        BY <3>5, <4>1, <4>2
      <4>4. Forwarded' = Forwarded
        BY <2>1, <4>3 DEF Forwarded
      <4>5. QED
        BY <2>1, <2>3, <3>4, <3>7, <4>1, <4>3, <4>4 DEF InputOK, ClientClosed
    <3>10. QED
      BY <3>8, <3>9
  <2>5. CASE ipump = "done" /\ spc' = "done"
    <3>1. ~Flow' /\ ipump' = "done"
      BY <2>1, <2>5 DEF Flow
    <3>2. QED
      BY <2>5, <3>1 DEF InputOK
  <2>6. QED
    BY <1>17, <2>4, <2>5 DEF StdinPass
<1>18. CASE InputPump
  <2>1. /\ ipump = "run" /\ pin # << >> /\ pin' = Tail(pin) /\ pin \in Seq(0 .. MaxIn)
        /\ UNCHANGED <<mode, taken, spc, hold, up, key, kbd, keys, typed, cpc>>
    BY <1>18 DEF InputPump, TypeOK, stdinVars, userVars, clientVars
  <2>2. CASE ipump' = "done"
    BY <2>1, <2>2 DEF InputOK, Flow
  <2>3. CASE Head(pin) # Eof /\ stdin' = Append(stdin, Head(pin)) /\ ipump' = ipump
    <3>1. PICK c \in Nat : c = Came
      BY InputInts
    <3>2. PICK n \in Nat : n = Len(pin) /\ Len(pin') = n - 1
      BY <2>1, Popped
    <3>3. Came' = c + 1
      <4>1. Head(pin) \in 0 .. MaxIn
        BY <2>1, Popped
      <4>2. PICK v \in 1 .. MaxIn : v = Head(pin)
        BY <2>3, <4>1, ShellAssumption DEF Eof
      <4>3. stdin \in Seq(1 .. MaxIn)
        BY DEF TypeOK
      <4>4. Len(stdin') = Len(stdin) + 1
        BY <2>3, <4>2, <4>3, Pushed
      <4>5. Len(taken) \in Nat /\ Len(stdin) \in Nat
        BY InputInts
      <4>6. QED
        BY <2>1, <3>1, <4>4, <4>5 DEF Came
    <3>4. Passed' = Passed
      <4>1. CASE spc = "pass"
        BY <2>1, <3>1, <3>2, <3>3, <4>1 DEF Passed
      <4>2. CASE spc # "pass"
        BY <2>1, <3>1, <3>2, <3>3, <4>2 DEF Passed
      <4>3. QED
        BY <4>1, <4>2
    <3>5. Forwarded' = Forwarded
      BY <2>1, <3>4 DEF Forwarded
    <3>6. \A i \in DOMAIN pin' : pin'[i] # Eof => pin'[i] = (c + 1) + i
      <4>1. \A i \in DOMAIN pin : pin[i] # Eof => pin[i] = c + i
        BY <2>1, <3>1 DEF InputOK
      <4>2. QED
        BY <2>1, <4>1, QueuePopped
    <3>7. QED
      BY <2>1, <2>3, <3>3, <3>4, <3>5, <3>6 DEF InputOK, Flow, ClientClosed
  <2>4. QED
    BY <1>18, <2>2, <2>3 DEF InputPump
<1>19. CASE OutputPump
  <2>1. UNCHANGED <<mode, stdin, taken, pin, ipump, spc, hold, up, key, kbd, keys, typed>>
    BY <1>19 DEF OutputPump, inputVars, loopVars, stdinVars, userVars, clientVars, faultVars
  <2>2. cpc' = cpc \/ ClientClosed' \/ (cpc # "forward" /\ cpc' # "forward" /\ ~ClientClosed)
    BY <1>19
       DEF OutputPump, inputVars, loopVars, stdinVars, userVars, clientVars, faultVars,
           ClientClosed
  <2>3. QED
    BY <2>1, <2>2, InputKept
<1>20. CASE OutputPumpEnds
  <2>1. UNCHANGED <<mode, stdin, taken, pin, ipump, spc, hold, up, key, kbd, keys, typed>>
    BY <1>20
       DEF OutputPumpEnds, childVars, inputVars, loopVars, stdinVars, userVars, clientVars,
           faultVars
  <2>2. cpc' = cpc \/ ClientClosed' \/ (cpc # "forward" /\ cpc' # "forward" /\ ~ClientClosed)
    BY <1>20
       DEF OutputPumpEnds, childVars, inputVars, loopVars, stdinVars, userVars, clientVars,
           faultVars, ClientClosed
  <2>3. QED
    BY <2>1, <2>2, InputKept
<1>21. CASE Started
  <2>1. UNCHANGED <<mode, stdin, taken, pin, ipump, spc, hold, up, key, kbd, keys, typed>>
    BY <1>21 DEF Started, inputVars, stdinVars, ptyVars, userVars
  <2>2. CASE mode = "pty"
    <3>1. cpc = "await" /\ cpc' = "run"
      BY <1>21, <2>2 DEF Started
    <3>2. QED
      BY <2>1, <3>1, InputKept DEF ClientClosed
  <2>3. CASE mode # "pty"
    <3>1. Came' = Came /\ Passed' = Passed /\ ~Flow'
      BY <2>1, <2>3 DEF Came, Passed, Flow
    <3>2. QED
      BY <2>1, <3>1 DEF InputOK
  <2>4. QED
    BY <2>2, <2>3
<1>22. CASE NotStarted
  <2>1. UNCHANGED <<mode, stdin, taken, pin, ipump, spc, hold, up, key, kbd, keys, typed>>
    BY <1>22 DEF NotStarted, childVars, inputVars, loopVars, stdinVars, ptyVars, userVars, faultVars
  <2>2. cpc' = cpc \/ ClientClosed' \/ (cpc # "forward" /\ cpc' # "forward" /\ ~ClientClosed)
    BY <1>22
       DEF NotStarted, childVars, inputVars, loopVars, stdinVars, ptyVars, userVars, faultVars,
           ClientClosed
  <2>3. QED
    BY <2>1, <2>2, InputKept
<1>23. CASE Type
  <2>1. UNCHANGED <<mode, stdin, taken, pin, ipump, spc, hold, up, key, cpc>>
    BY <1>23 DEF Type, inputVars, stdinVars, ptyVars, clientVars
  <2>2. Came' = Came /\ Passed' = Passed /\ Forwarded' = Forwarded /\ Flow' = Flow
    BY <2>1 DEF Came, Passed, Forwarded, Flow
  <2>3. keys = "run" /\ ~ClientClosed /\ kbd \in Seq(0 .. MaxIn)
    BY <1>23 DEF Type, TypeOK
  <2>4. PICK f \in Nat : f = Forwarded
    BY InputInts
  <2>5. PICK n \in Nat : n = Len(kbd)
    BY InputInts
  <2>6. ASSUME Flow
        PROVE  /\ \A i \in DOMAIN kbd' : kbd'[i] # Eof => kbd'[i] = f + i
               /\ keys' = "run" => typed' = f + Len(kbd')
    <3>1. /\ \A i \in DOMAIN kbd : kbd[i] # Eof => kbd[i] = f + i
          /\ typed = f + n
      BY <2>3, <2>4, <2>5, <2>6 DEF InputOK
    <3>2. CASE typed < MaxIn /\ typed' = typed + 1 /\ kbd' = Append(kbd, typed + 1)
      <4>1. PICK e \in 0 .. MaxIn : e = typed + 1
        BY <3>1, <3>2, ShellAssumption
      <4>2. e = f + (Len(kbd) + 1)
        BY <2>5, <3>1, <4>1
      <4>3. Len(kbd') = n + 1
        BY <2>3, <2>5, <3>2, <4>1, Pushed
      <4>4. \A i \in DOMAIN kbd' : kbd'[i] # Eof => kbd'[i] = f + i
        BY <2>3, <3>1, <3>2, <4>1, <4>2, QueuePushed
      <4>5. typed' = f + Len(kbd')
        BY <3>1, <3>2, <4>3
      <4>6. QED
        BY <4>4, <4>5
    <3>3. CASE keys' = "done" /\ kbd' = Append(kbd, Eof)
      <4>1. PICK e \in 0 .. MaxIn : e = Eof
        BY ShellAssumption DEF Eof
      <4>2. \A i \in DOMAIN kbd' : kbd'[i] # Eof => kbd'[i] = f + i
        BY <2>3, <3>1, <3>3, <4>1, QueuePushed
      <4>3. QED
        BY <3>3, <4>2
    <3>4. QED
      BY <1>23, <3>2, <3>3 DEF Type
  <2>7. QED
    BY <2>1, <2>2, <2>3, <2>4, <2>6 DEF InputOK, ClientClosed
<1>24. CASE TakeKey
  <2>1. /\ kbd # << >> /\ key' = Head(kbd) /\ kbd' = Tail(kbd) /\ kbd \in Seq(0 .. MaxIn)
        /\ cpc = "run" /\ cpc' = "forward"
        /\ UNCHANGED <<mode, stdin, taken, pin, ipump, spc, hold, up, keys, typed>>
    BY <1>24 DEF TakeKey, TypeOK, inputVars, ptyVars, stdinVars
  <2>2. Came' = Came /\ Passed' = Passed /\ Flow' = Flow /\ ~ClientClosed
    BY <2>1 DEF Came, Passed, Flow, ClientClosed
  <2>3. PICK f \in Nat : f = Forwarded
    BY InputInts
  <2>4. PICK n \in Nat : n = Len(kbd) /\ Len(kbd') = n - 1
    BY <2>1, Popped
  <2>5. Forwarded' = f + 1
    <3>1. Forwarded = (Passed + Len(up)) + 0 /\ Passed \in Nat /\ Len(up) \in Nat
      BY <2>1, InputInts DEF Forwarded
    <3>2. Forwarded' = (Passed + Len(up)) + 1
      BY <2>1, <2>2 DEF Forwarded
    <3>3. QED
      BY <2>3, <3>1, <3>2
  <2>6. ASSUME Flow
        PROVE  /\ key' # Eof => key' = f + 1
               /\ \A i \in DOMAIN kbd' : kbd'[i] # Eof => kbd'[i] = (f + 1) + i
               /\ keys = "run" => typed = (f + 1) + Len(kbd')
    <3>1. /\ \A i \in DOMAIN kbd : kbd[i] # Eof => kbd[i] = f + i
          /\ keys = "run" => typed = f + n
      BY <2>2, <2>3, <2>4, <2>6 DEF InputOK
    <3>2. /\ key' # Eof => key' = f + 1
          /\ \A i \in DOMAIN kbd' : kbd'[i] # Eof => kbd'[i] = (f + 1) + i
      BY <2>1, <3>1, QueuePopped
    <3>3. keys = "run" => typed = (f + 1) + Len(kbd')
      BY <2>4, <3>1
    <3>4. QED
      BY <3>2, <3>3
  <2>7. QED
    BY <2>1, <2>2, <2>5, <2>6 DEF InputOK
<1>25. CASE Forward
  <2>1. /\ cpc = "forward" /\ cpc' = "run" /\ up' = Append(up, key)
        /\ up \in Seq(0 .. MaxIn) /\ key \in 0 .. MaxIn
        /\ UNCHANGED <<mode, stdin, taken, pin, ipump, spc, hold, key, kbd, keys, typed>>
    BY <1>25 DEF Forward, TypeOK, inputVars, stdinVars, ptyVars, userVars
  <2>2. Came' = Came /\ Passed' = Passed /\ Flow' = Flow /\ ~ClientClosed
    BY <2>1 DEF Came, Passed, Flow, ClientClosed
  <2>3. PICK p \in Nat : p = Passed
    BY InputInts
  <2>4. PICK n \in Nat : n = Len(up) /\ Len(up') = n + 1
    BY <2>1, Pushed
  <2>5. Forwarded = (p + n) + 1 /\ Forwarded' = (p + (n + 1)) + 0
    BY <2>1, <2>2, <2>3, <2>4 DEF Forwarded
  <2>6. Forwarded' = Forwarded
    BY <2>5
  <2>7. ASSUME Flow PROVE \A i \in DOMAIN up' : up'[i] # Eof => up'[i] = p + i
    <3>1. \A i \in DOMAIN up : up[i] # Eof => up[i] = p + i
      BY <2>3, <2>7 DEF InputOK
    <3>2. key # Eof => key = Forwarded
      BY <2>1, <2>2, <2>7 DEF InputOK
    <3>3. key # Eof => key = p + (Len(up) + 1)
      BY <2>4, <2>5, <3>2
    <3>4. QED
      BY <2>1, <3>1, <3>3, QueuePushed
  <2>8. QED
    BY <2>1, <2>2, <2>3, <2>6, <2>7 DEF InputOK
<1>26. CASE ForwardLost
  <2>1. UNCHANGED <<mode, stdin, taken, pin, ipump, spc, hold, up>>
    BY <1>26 DEF ForwardLost, inputVars, stdinVars, ptyVars
  <2>2. ~Flow
    BY <1>26 DEF ForwardLost, DaemonClosed, StartOK, Flow
  <2>3. Came' = Came /\ Passed' = Passed /\ ~Flow'
    BY <2>1, <2>2 DEF Came, Passed, Flow
  <2>4. QED
    BY <2>1, <2>3 DEF InputOK
<1>27. CASE ReadFrame
  <2>1. UNCHANGED <<mode, stdin, taken, pin, ipump, spc, hold, up, key, kbd, keys, typed>>
    BY <1>27 DEF ReadFrame, childVars, inputVars, loopVars, stdinVars, ptyVars, userVars, faultVars
  <2>2. cpc' = cpc \/ ClientClosed' \/ (cpc # "forward" /\ cpc' # "forward" /\ ~ClientClosed)
    BY <1>27
       DEF ReadFrame, childVars, inputVars, loopVars, stdinVars, ptyVars, userVars, faultVars,
           ClientClosed
  <2>3. QED
    BY <2>1, <2>2, InputKept
<1>28. CASE ReadFails
  <2>1. UNCHANGED <<mode, stdin, taken, pin, ipump, spc, hold, up, key, kbd, keys, typed>>
    BY <1>28 DEF ReadFails, childVars, inputVars, loopVars, stdinVars, ptyVars, userVars
  <2>2. cpc' = cpc \/ ClientClosed' \/ (cpc # "forward" /\ cpc' # "forward" /\ ~ClientClosed)
    BY <1>28
       DEF ReadFails, childVars, inputVars, loopVars, stdinVars, ptyVars, userVars, ClientClosed
  <2>3. QED
    BY <2>1, <2>2, InputKept
<1>29. CASE HandleFrame
  <2>1. UNCHANGED <<mode, stdin, taken, pin, ipump, spc, hold, up, key, kbd, keys, typed>>
    BY <1>29
       DEF HandleFrame, childVars, inputVars, loopVars, stdinVars, ptyVars, userVars, faultVars
  <2>2. cpc' = cpc \/ ClientClosed' \/ (cpc # "forward" /\ cpc' # "forward" /\ ~ClientClosed)
    BY <1>29
       DEF HandleFrame, childVars, inputVars, loopVars, stdinVars, ptyVars, userVars, faultVars,
           ClientClosed
  <2>3. QED
    BY <2>1, <2>2, InputKept
<1>30. CASE ClientQuit
  <2>1. UNCHANGED <<mode, stdin, taken, pin, ipump, spc, hold, up, key, kbd, keys, typed>>
    BY <1>30 DEF ClientQuit, childVars, inputVars, loopVars, stdinVars, ptyVars, userVars
  <2>2. cpc' = cpc \/ ClientClosed' \/ (cpc # "forward" /\ cpc' # "forward" /\ ~ClientClosed)
    BY <1>30
       DEF ClientQuit, childVars, inputVars, loopVars, stdinVars, ptyVars, userVars, ClientClosed
  <2>3. QED
    BY <2>1, <2>2, InputKept
<1>31. CASE Reset
  <2>1. UNCHANGED <<mode, stdin, taken, pin, ipump, spc, hold, up, key, kbd, keys, typed>>
    BY <1>31
       DEF Reset, childVars, inputVars, loopVars, stdinVars, ptyVars, userVars, clientVars,
           faultVars
  <2>2. cpc' = cpc \/ ClientClosed' \/ (cpc # "forward" /\ cpc' # "forward" /\ ~ClientClosed)
    BY <1>31
       DEF Reset, childVars, inputVars, loopVars, stdinVars, ptyVars, userVars, clientVars,
           faultVars, ClientClosed
  <2>3. QED
    BY <2>1, <2>2, InputKept
<1>32. CASE UNCHANGED vars
  <2>1. UNCHANGED <<mode, stdin, taken, pin, ipump, spc, hold, up, key, kbd, keys, typed, cpc>>
    BY <1>32 DEF vars, inputVars, stdinVars, ptyVars, userVars, clientVars
  <2>2. QED
    BY <2>1, InputKept
<1>33. QED
  BY <1>1, <1>2, <1>3, <1>4, <1>5, <1>6, <1>7, <1>8, <1>9, <1>10, <1>11, <1>12, <1>13, <1>14,
     <1>15, <1>16, <1>17, <1>18, <1>19, <1>20, <1>21, <1>22, <1>23, <1>24, <1>25, <1>26, <1>27,
     <1>28, <1>29, <1>30, <1>31, <1>32
     DEF Next, Command, Loop, Stdin, Output, Main, Reader, Terminated

(* The invariant holds at the start ... *)
LEMMA InitInv == Init => IInv
<1> SUFFICES ASSUME Init PROVE IInv
  OBVIOUS
<1>1. TypeOK
  <2>1. Resp("error") \in DownFrame
    BY ShellAssumption DEF Resp, DownFrame, Response, Eof
  <2>2. ChildT /\ InputT /\ StdinT /\ PtyT /\ UserT /\ ClientT
    <3>1. ChildT
      <4>1. heirs \in BOOLEAN
        BY DEF Init
      <4>2. made \in [Channel -> 0 .. MaxOut] /\ pipe \in [Channel -> Seq(1 .. MaxOut)]
        BY ShellAssumption, EmptySeq DEF Init
      <4>3. child = "none"
        BY DEF Init
      <4>4. QED
        BY <4>1, <4>2, <4>3 DEF ChildT
    <3>2. InputT
      BY EmptySeq DEF Init, InputT
    <3>3. StdinT
      <4>1. serr \in BOOLEAN
        BY DEF Init
      <4>2. hold \in 0 .. MaxIn /\ spc = "off"
        BY ShellAssumption DEF Init, Eof
      <4>3. QED
        BY <4>1, <4>2 DEF StdinT
    <3>4. PtyT
      BY ShellAssumption, EmptySeq DEF Init, PtyT
    <3>5. UserT
      BY ShellAssumption, EmptySeq DEF Init, UserT
    <3>6. ClientT
      BY ShellAssumption, EmptySeq DEF Init, ClientT, Eof
    <3>7. QED
      BY <3>1, <3>2, <3>3, <3>4, <3>5, <3>6
  <2>3. NetT
    BY ShellAssumption, EmptySeq DEF Init, NetT
  <2>4. open \in [Channel -> BOOLEAN]
    BY DEF Init
  <2>5. LoopT
    BY <2>1, <2>4 DEF Init, LoopT, NoFrame
  <2>6. FaultT
    BY DEF Init, FaultT
  <2>7. QED
    BY <2>2, <2>3, <2>5, <2>6, TypeParts DEF Init
<1>2. EndOK /\ StartOK
  BY DEF Init, EndOK, StartOK, Early
<1>3. DownOK /\ ~ExitInDown /\ ~ExitInFrames
  BY DEF Init, DownOK, ExitInDown, ExitInFrames
<1>4. PipeInputOK
  BY EmptySeq DEF Init, PipeInputOK
<1>5. ExitOK
  BY <1>3 DEF Init, ExitOK
<1>6. \A ch \in Channel : pipe[ch] = << >> /\ made[ch] = 0 /\ shown[ch] = << >>
  BY DEF Init
<1>7. \A ch \in Channel : Read(ch) = 0
  BY <1>6, EmptySeq DEF Read
<1>8. \A ch \in Channel : Left(ch) = 0 /\ Sent(ch) = 0
  BY <1>7 DEF Init, Left, InPout, Sent, InHand
<1>9. PipesOK
  <2>1. \A ch \in Channel : Len(pipe[ch]) = 0 /\ DOMAIN pipe[ch] = {}
    BY <1>6, EmptySeq
  <2>2. QED
    BY <1>6, <2>1 DEF PipesOK, Channel
<1>10. PoutOK
  BY <1>8 DEF Init, PoutOK, Channel
<1>11. HandOK
  BY DEF Init, HandOK, InHand
<1>12. OpenOK
  BY DEF Init, OpenOK
<1>13. DrainedOK
  BY <1>3 DEF Init, DrainedOK, Exiting
<1>14. ASSUME NEW ch \in Channel PROVE Covers(shown[ch], down, Sent(ch), ch)
  <2>1. Covers(<< >>, << >>, 0, ch)
    BY EmptySeq DEF Covers, Count
  <2>2. QED
    BY <1>6, <1>8, <2>1 DEF Init
<1>15. ShownOK
  BY <1>14 DEF ShownOK
<1>16. ExitMeansAllOutput
  BY DEF Init, ExitMeansAllOutput
<1>17. TypedOK /\ InputOK
  BY EmptySeq DEF Init, TypedOK, InputOK, Came, Passed, Forwarded, Flow, Eof
<1>18. QED
  BY <1>1, <1>2, <1>3, <1>4, <1>5, <1>9, <1>10, <1>11, <1>12, <1>13, <1>15, <1>16, <1>17 DEF IInv

(* ... and every step keeps it. *)
LEMMA NextInv == IInv /\ [Next]_vars => IInv'
<1> SUFFICES ASSUME IInv, [Next]_vars PROVE IInv'
  OBVIOUS
<1> USE DEF IInv
<1>1. TypeOK'
  BY TypesStep
<1>2. EndOK' /\ StartOK' /\ DownOK' /\ PipeInputOK' /\ ExitOK'
  BY <1>1, EndStep, StartStep, DownStep, PipeInputStep, ExitStep
<1>3. PipesOK' /\ PoutOK'
  BY <1>1, PipesStep, PoutStep
<1>4. HandOK' /\ OpenOK' /\ DrainedOK'
  BY HandStep, OpenStep, DrainedStep
<1>5. ShownOK' /\ ExitMeansAllOutput'
  BY ShownStep, AllOutputStep
<1>6. TypedOK' /\ InputOK'
  BY TypedStep, InputStep
<1>7. QED
  BY <1>1, <1>2, <1>3, <1>4, <1>5, <1>6

(* IInv holds in every state of every session.                              *)
THEOREM Invariance == Spec => []IInv
BY InitInv, NextInv, PTL DEF Spec

(* run_shell_session returns the exit status only when everything the       *)
(* command and its descendants wrote has been printed in order: the loops   *)
(* of handle_pipe_shell and handle_pty_shell send ShellExit after the ends  *)
(* of all outputs, and the client reads frames in the order they were sent. *)
THEOREM ExitFollowsAllOutput == Spec => []ExitMeansAllOutput
<1>1. IInv => ExitMeansAllOutput
  BY DEF IInv
<1>2. QED
  BY Invariance, <1>1, PTL

(* What has come to the shell is a beginning of what the user typed.        *)
LEMMA InputIsAPrefix == IInv => InputInOrder
<1> SUFFICES ASSUME IInv PROVE InputInOrder
  OBVIOUS
<1>1. TypeOK /\ TypedOK
  BY DEF IInv
<1>2. taken \in Seq(1 .. MaxIn) /\ stdin \in Seq(1 .. MaxIn)
  BY <1>1 DEF TypeOK
<1>3. PICK s \in Seq(1 .. MaxIn) : s = stdin
  BY <1>2
<1>4. PICK t \in Seq(1 .. MaxIn) : t = taken
  BY <1>2
<1>5. PICK m \in Nat : m = Len(s)
  BY LenProperties
<1>6. PICK n \in Nat : n = Len(t)
  BY LenProperties
<1>7. DOMAIN s = 1 .. m /\ DOMAIN t = 1 .. n
  BY <1>5, <1>6, LenProperties
<1>8. PICK c : c = t \o s
  OBVIOUS
<1>9. /\ c \in Seq(1 .. MaxIn) /\ Len(c) = n + m
      /\ \A i \in 1 .. n + m : c[i] = IF i <= n THEN t[i] ELSE s[i - n]
  BY <1>5, <1>6, <1>8, ConcatProperties
<1>10. \A i \in 1 .. n + m : c[i] = i
  <2>1. \A i \in 1 .. n : t[i] = i
    BY <1>1, <1>4, <1>7 DEF TypedOK
  <2>2. \A i \in 1 .. m : s[i] = n + i
    BY <1>1, <1>3, <1>4, <1>6, <1>7 DEF TypedOK
  <2>3. QED
    BY <1>9, <2>1, <2>2
<1>11. c = Count(n + m)
  <2>1. c = [i \in 1 .. n + m |-> c[i]]
    BY <1>9, LenProperties
  <2>2. QED
    BY <1>10, <2>1 DEF Count
<1>12. n + m \in 0 .. typed
  <2>1. Came = n + m /\ Came <= typed /\ typed \in Nat
    BY <1>1, <1>3, <1>4, <1>5, <1>6, InputInts DEF Came, TypedOK
  <2>2. QED
    BY <2>1
<1>13. QED
  BY <1>1, <1>3, <1>4, <1>8, <1>11, <1>12 DEF InputInOrder

(* The shell reads what the user typed in the order it was typed, nothing   *)
(* left out, through start_stdin_pump, the main loop of the client, the     *)
(* daemon's stdin task and start_pty_input_pump, whoever ends first.        *)
THEOREM InputStaysInOrder == Spec => []InputInOrder
BY Invariance, InputIsAPrefix, PTL

(* A session fails only for a fault of the system or the client, or at a    *)
(* terminal whose user typed while the shell exited or background jobs      *)
(* still held it.                                                           *)
THEOREM FailuresHaveACause == Spec => []FailureHasACause
<1>1. IInv => FailureHasACause
  BY DEF IInv, EndOK, Excused, FailureHasACause
<1>2. QED
  BY Invariance, <1>1, PTL

(* The daemon's loop ends before its command only when the client has gone  *)
(* first or a call of the loop failed.                                      *)
THEOREM CommandsLeftNeedAFault == Spec => []CommandLeftNeedsFault
<1>1. IInv => CommandLeftNeedsFault
  BY DEF IInv, EndOK, CommandLeftNeedsFault
<1>2. QED
  BY Invariance, <1>1, PTL
=============================================================================
