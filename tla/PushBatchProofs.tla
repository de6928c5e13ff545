-------------------------- MODULE PushBatchProofs ---------------------------
(***************************************************************************)
(* Proofs about PushBatch, for any manifest, any chunk size and any length *)
(* the local files may turn out to have.                                   *)
(***************************************************************************)
EXTENDS PushBatch, SequenceTheorems, WellFoundedInduction, TLAPS

-----------------------------------------------------------------------------
(* The inductive invariant.                                                 *)

(* Bytes of entry cidx that have been streamed. *)
Streamed == IF cpc = "stream" THEN fileBytes ELSE 0

(* Byte p of the source of f was read by the client.  Of the files before   *)
(* cidx it has read what the manifest announced.                            *)
WasRead(f, p) ==
    /\ f <= cidx
    /\ f < cidx => p <= Size[f]
    /\ f = cidx /\ cpc \notin ClientEnds => p <= Streamed

(* The place of a frame in the whole stream. *)
Starts(m) == IF m.type = "eof" THEN TotalBytes ELSE Base[m.file] + m.from - 1
Stops(m)  == Starts(m) + m.len

(* The client's counters agree with its place in the manifest. *)
ClientAt ==
    /\ cpc \notin ClientEnds => sent = Base[cidx] + Streamed
    /\ cpc = "await_ready" => cidx = 1
    /\ cpc = "stream" => cidx \in Entry /\ Kind[cidx] = "file" /\ fileBytes <= real
    /\ cpc = "await_complete" => cidx = N + 1

(* A data frame carries what was read; the EOF frame is the last, after all *)
(* files have turned out as announced.                                      *)
FrameOK(m) ==
    /\ m.type = "data" => WasRead(m.file, m.from + m.len - 1)
    /\ m.type = "eof"  => cidx = N + 1 /\ cpc \in {"await_complete"} \cup ClientEnds

(* The frames on their way lie end to end, from where the daemon is to      *)
(* where the client is.                                                     *)
EndToEnd ==
    /\ \A k \in 1 .. Len(up) : FrameOK(up[k])
    /\ \A k \in 1 .. Len(up) : k < Len(up) =>
          up[k].type = "data" /\ Starts(up[k + 1]) = Stops(up[k])
    /\ dpc # "failed" /\ up # << >> => Starts(up[1]) = written
    /\ linkUp /\ cpc \notin ClientEnds =>
          /\ up # << >> /\ up[Len(up)].type = "data" => Stops(up[Len(up)]) = sent
          /\ up = << >> /\ dpc # "failed" => written = sent

(* What is on the device was read by the client and is where its place in   *)
(* the stream puts it, be it in the right file or not.                      *)
DiskOK ==
    \A i \in Entry : \A k \in 1 .. Len(disk[i]) :
        LET b == disk[i][k] IN
        /\ WasRead(b[1], b[2])
        /\ Base[b[1]] + b[2] = Base[i] + k

(* The daemon's counters agree with its place in the manifest. *)
DaemonAt ==
    /\ dpc = "resolve" => didx = 1
    /\ dpc = "write" =>
          didx \in Entry /\ Kind[didx] = "file" /\ written + remaining = Base[didx] + Size[didx]
                         /\ Len(disk[didx]) + remaining = Size[didx]
    /\ dpc \in {"resolve", "entry", "complete"} => written = Base[didx]
    /\ dpc = "complete" => didx = N + 1 /\ cidx = N + 1
    /\ \A i \in Entry :
          /\ Len(disk[i]) <= Size[i]
          /\ dpc # "failed" /\ i < didx /\ Kind[i] = "file" => Len(disk[i]) = Size[i]
          /\ dpc \in {"resolve", "entry"} /\ i >= didx => disk[i] = << >>
          /\ dpc = "write" /\ i > didx => disk[i] = << >>

(* Success is only reported on an answer of a complete push. *)
AnswersOK ==
    /\ \A k \in 1 .. Len(down) : down[k].type = "complete" => dpc = "complete"
    /\ cpc = "ok" => dpc = "complete"

IInv == TypeOK /\ ClientAt /\ EndToEnd /\ DiskOK /\ DaemonAt /\ AnswersOK
-----------------------------------------------------------------------------
(* Facts about frames and about the steps of the two sides.                 *)

(* A nonempty set of numbers has a least element. *)
LEMMA LeastExists ==
    ASSUME NEW S \in SUBSET Nat, S # {}
    PROVE  \E m \in S : \A k \in S : m <= k
<1>1. PICK x \in S : \A y \in S : ~(<<y, x>> \in OpToRel(<, Nat))
  BY NatLessThanWellFounded, WFMin
<1>2. \A y \in S : ~(y < x)
  BY <1>1 DEF OpToRel
<1> QED
  BY <1>2

(* The totals of the manifest: an entry begins where the ones before it     *)
(* have ended, by induction on the distance of two entries.                 *)
LEMMA BaseSums ==
    /\ Base \in [1 .. N + 1 -> Nat]
    /\ Base[1] = 0
    /\ \A i \in 1 .. N : Base[i + 1] = Base[i] + Size[i]
    /\ \A i, j \in 1 .. N + 1 : i < j => Base[i] + Size[i] <= Base[j]
<1> DEFINE Bad(i) == {j \in 1 .. N + 1 : i < j /\ ~(Base[i] + Size[i] <= Base[j])}
<1>1. N \in Nat /\ Size \in [1 .. N -> Nat]
  BY ManifestAssumption
<1>2. /\ Base \in [1 .. N + 1 -> Nat]
      /\ \A i \in 1 .. N : Base[i + 1] = Base[i] + Size[i]
  BY BaseAssumption
<1>3. ASSUME NEW i \in 1 .. N + 1, Bad(i) # {}
      PROVE  FALSE
  <2>1. Bad(i) \in SUBSET Nat
    BY <1>1
  <2>2. PICK j \in Bad(i) : \A k \in Bad(i) : j <= k
    BY <1>3, <2>1, LeastExists
  <2>3. j \in 1 .. N + 1 /\ i < j /\ ~(Base[i] + Size[i] <= Base[j])
    OBVIOUS
  <2>4. j - 1 \in 1 .. N /\ j - 1 \in 1 .. N + 1 /\ i \in 1 .. N /\ j - 1 \notin Bad(i) /\ (j - 1) + 1 = j
    BY <1>1, <2>2, <2>3
  <2>5. Base[j] = Base[j - 1] + Size[j - 1]
    BY <1>2, <2>4
  <2>6. /\ Base[i] \in Nat /\ Size[i] \in Nat /\ Base[j - 1] \in Nat /\ Size[j - 1] \in Nat
        /\ Base[j] \in Nat
    BY <1>1, <1>2, <2>3, <2>4
  <2>7. CASE i = j - 1
    BY <2>3, <2>5, <2>6, <2>7
  <2>8. CASE i # j - 1
    <3>1. i < j - 1 /\ j - 1 \in 1 .. N + 1
      BY <1>1, <2>3, <2>4, <2>8
    <3>2. Base[i] + Size[i] <= Base[j - 1]
      BY <2>4, <3>1
    <3> QED
      BY <2>3, <2>5, <2>6, <3>2
  <2> QED
    BY <2>7, <2>8
<1> QED
  BY <1>3, BaseAssumption

(* A frame is a chunk of some file or the EOF frame. *)
LEMMA FrameType ==
    ASSUME NEW m \in Frame
    PROVE  /\ m.type \in {"data", "eof"}
           /\ m.type = "data" => m.file \in Entry /\ m.from \in Nat \ {0} /\ m.len \in Nat \ {0}
BY DEF Frame, Chunk

(* Every frame on its way is a frame. *)
LEMMA UpType ==
    ASSUME TypeOK
    PROVE  /\ Len(up) \in Nat
           /\ \A k \in 1 .. Len(up) : up[k] \in Frame
BY DEF TypeOK

(* The bytes of a chunk are bytes of its file, numbered from its offset. *)
LEMMA PayloadType ==
    ASSUME NEW m \in Frame, m.type = "data"
    PROVE  /\ Payload(m) \in Seq(SourceByte)
           /\ Len(Payload(m)) = m.len
           /\ \A k \in 1 .. m.len : Payload(m)[k] = <<m.file, m.from + k - 1>>
<1>1. m.file \in Entry /\ m.from \in Nat \ {0} /\ m.len \in Nat \ {0}
  BY FrameType
<1>2. \A k \in 1 .. m.len : <<m.file, m.from + k - 1>> \in SourceByte
  BY <1>1 DEF SourceByte
<1>3. Payload(m) \in [1 .. m.len -> SourceByte]
  BY <1>2 DEF Payload
<1>4. Payload(m) \in Seq(SourceByte) /\ Len(Payload(m)) = m.len
  BY <1>1, <1>3
<1>5. QED BY <1>4 DEF Payload

(* How the client's own state and the frames it has written change: it goes *)
(* on to another label, or ends and drops what is not flushed, or writes a  *)
(* frame.                                                                   *)
LEMMA ClientEndUp ==
    ASSUME TypeOK, NEW o, ClientEnd(o)
    PROVE  /\ up' \in Seq(Frame) /\ Len(up') = flushed /\ flushed' = flushed
           /\ \A k \in 1 .. flushed : up'[k] = up[k]
BY DEF TypeOK, ClientEnd

-----------------------------------------------------------------------------
(* Type correctness.                                                        *)

(* The initial state satisfies the invariant. *)
LEMMA InitIInv == Init => IInv
<1> SUFFICES ASSUME Init PROVE IInv
  OBVIOUS
<1>1. /\ N \in Nat /\ Base[1] = 0 /\ 1 \in 1 .. N + 1 /\ \A i \in Entry : Size[i] \in Nat
  BY ManifestAssumption, BaseSums DEF Entry
<1>2. TypeOK
  BY <1>1, BoundAssumption DEF Init, TypeOK, ClientEnds, DaemonEnds
<1>3. ClientAt /\ EndToEnd /\ AnswersOK
  BY <1>1 DEF Init, ClientAt, EndToEnd, AnswersOK, Streamed, ClientEnds
<1>4. \A i \in Entry : disk[i] = << >> /\ Len(disk[i]) = 0 /\ 1 .. Len(disk[i]) = {}
  BY DEF Init
<1>5. DiskOK
  BY <1>4 DEF DiskOK
<1>6. DaemonAt
  BY <1>1, <1>4 DEF Init, DaemonAt, Entry
<1>7. QED BY <1>2, <1>3, <1>5, <1>6 DEF IInv

(* The steps of the client keep its state and the frames well typed. *)
LEMMA ClientType ==
    ASSUME IInv, Client
    PROVE  TypeOK'
<1> USE ManifestAssumption, BoundAssumption
<1>1. TypeOK /\ ClientAt
  BY DEF IInv
<1>2. ASSUME NEW o \in ClientEnds, ClientEnd(o)
      PROVE  /\ cpc' \in ClientEnds /\ cidx' = cidx /\ real' = real /\ fileBytes' = fileBytes
             /\ sent' = sent /\ fill' \in 0 .. Header + MaxChunk
             /\ up' \in Seq(Frame) /\ flushed' \in 0 .. Len(up')
  BY <1>1, <1>2, ClientEndUp DEF ClientEnd, TypeOK
<1>3. CASE RecvReady
  <2>1. down' \in Seq(Response)
    BY <1>1, <1>3 DEF RecvReady, TypeOK
  <2>2. CASE ClientGoto("next_file")
    BY <1>1, <1>3, <2>1, <2>2 DEF RecvReady, ClientGoto, TypeOK, daemonVars
  <2>3. CASE ClientEnd("remote_error")
    BY <1>1, <1>2, <1>3, <2>1, <2>3 DEF RecvReady, TypeOK, daemonVars, ClientEnds
  <2>4. QED BY <1>3, <2>2, <2>3 DEF RecvReady
<1>4. CASE SkipDir
  BY <1>1, <1>4 DEF SkipDir, TypeOK, wireVars, daemonVars
<1>5. CASE OpenFile
  <2>1. CASE ClientEnd("failed")
    BY <1>1, <1>2, <1>5, <2>1 DEF OpenFile, TypeOK, daemonVars, ClientEnds
  <2>2. CASE /\ \E r \in 0 .. MaxReal : real' = r
             /\ fileBytes' = 0 /\ cpc' = "stream"
             /\ UNCHANGED <<cidx, sent, fill, up, flushed>>
    BY <1>1, <1>5, <2>2 DEF OpenFile, TypeOK, daemonVars
  <2>3. QED BY <1>5, <2>1, <2>2 DEF OpenFile
<1>6. CASE SendChunk
  <2>1. PICK n \in 1 .. MaxChunk :
          LET early == fill + Header > Header + MaxChunk
              late  == fill + Header + n > Header + MaxChunk
          IN  /\ fileBytes + n <= real
              /\ up' = Append(up, [type |-> "data", file |-> cidx, from |-> fileBytes + 1, len |-> n])
              /\ flushed' = IF early \/ late THEN Len(up) ELSE flushed
              /\ fill' = IF early THEN Header + n ELSE IF late THEN n ELSE fill + Header + n
              /\ fileBytes' = fileBytes + n
              /\ sent' = sent + n
    BY <1>6 DEF SendChunk
  <2>2. cidx \in Entry
    BY <1>1, <1>6 DEF SendChunk, ClientAt
  <2>3. [type |-> "data", file |-> cidx, from |-> fileBytes + 1, len |-> n] \in Frame
    BY <1>1, <2>2 DEF TypeOK, Frame, Chunk
  <2>4. up' \in Seq(Frame) /\ Len(up') = Len(up) + 1
    BY <1>1, <2>1, <2>3 DEF TypeOK
  <2>5. flushed' \in 0 .. Len(up')
    BY <1>1, <2>1, <2>4 DEF TypeOK
  <2>6. fill' \in 0 .. Header + MaxChunk
    BY <1>1, <2>1 DEF TypeOK
  <2>7. QED BY <1>1, <1>6, <2>1, <2>4, <2>5, <2>6 DEF SendChunk, TypeOK, daemonVars
<1>7. CASE FinishFile
  <2>1. CASE ClientEnd("failed")
    BY <1>1, <1>2, <1>7, <2>1 DEF FinishFile, TypeOK, daemonVars, ClientEnds
  <2>2. CASE /\ cpc' = "next_file" /\ cidx' = cidx + 1
             /\ UNCHANGED <<real, fileBytes, sent, fill, up, flushed>>
    BY <1>1, <1>7, <2>2 DEF FinishFile, TypeOK, ClientAt, daemonVars, Entry
  <2>3. QED BY <1>7, <2>1, <2>2 DEF FinishFile
<1>8. CASE SendEof
  <2>1. [type |-> "eof"] \in Frame
    BY DEF Frame
  <2>2. CASE sent = TotalBytes
    <3>1. up' = Append(up, [type |-> "eof"]) /\ flushed' = Len(up) + 1
      BY <1>8, <2>2 DEF SendEof, ClientEnd
    <3>2. up' \in Seq(Frame) /\ flushed' \in 0 .. Len(up')
      BY <1>1, <2>1, <3>1, AppendProperties DEF TypeOK
    <3>3. QED BY <1>1, <1>8, <2>2, <3>2 DEF SendEof, ClientEnd, TypeOK, daemonVars
  <2>3. CASE sent # TotalBytes
    BY <1>1, <1>2, <1>8, <2>3 DEF SendEof, TypeOK, daemonVars, ClientEnds
  <2>4. QED BY <2>2, <2>3
<1>9. CASE RecvComplete
  <2>1. PICK o \in ClientEnds : ClientEnd(o)
    BY <1>9 DEF RecvComplete, ClientEnds
  <2>2. down' \in Seq(Response)
    BY <1>1, <1>9 DEF RecvComplete, TypeOK
  <2>3. QED BY <1>1, <1>2, <1>9, <2>1, <2>2 DEF RecvComplete, TypeOK, daemonVars
<1>10. CASE ClientIoError
  BY <1>1, <1>2, <1>10 DEF ClientIoError, TypeOK, daemonVars, ClientEnds
<1>11. QED BY <1>3, <1>4, <1>5, <1>6, <1>7, <1>8, <1>9, <1>10 DEF Client

(* So do the steps of the daemon. *)
LEMMA DaemonType ==
    ASSUME IInv, Daemon
    PROVE  TypeOK'
<1> USE ManifestAssumption, BoundAssumption
<1>1. TypeOK /\ DaemonAt
  BY DEF IInv
<1>2. ASSUME NEW r \in Response, Respond(r)
      PROVE  down' \in Seq(Response)
  BY <1>1, <1>2 DEF Respond, TypeOK
<1>3. ASSUME DaemonFail
      PROVE  /\ down' \in Seq(Response) /\ dpc' \in DaemonEnds
             /\ UNCHANGED <<didx, remaining, written, disk>>
  <2>1. [type |-> "error"] \in Response
    BY DEF Response
  <2>2. QED BY <1>2, <1>3, <2>1 DEF DaemonFail, DaemonEnds
<1>4. CASE Resolve
  <2>1. CASE DaemonFail
    BY <1>1, <1>3, <1>4, <2>1 DEF Resolve, TypeOK, clientVars
  <2>2. CASE /\ dpc' = "entry" /\ Respond([type |-> "ready"])
             /\ UNCHANGED <<didx, remaining, written, disk>>
    <3>1. [type |-> "ready"] \in Response
      BY DEF Response
    <3>2. down' \in Seq(Response)
      BY <1>2, <2>2, <3>1
    <3>3. QED BY <1>1, <1>4, <2>2, <3>2 DEF Resolve, TypeOK, clientVars
  <2>3. QED BY <1>4, <2>1, <2>2 DEF Resolve
<1>5. CASE StartEntry
  <2>1. CASE DaemonFail
    BY <1>1, <1>3, <1>5, <2>1 DEF StartEntry, TypeOK, clientVars
  <2>2. CASE Kind[didx] = "dir" /\ didx' = didx + 1
             /\ UNCHANGED <<dpc, remaining, written, disk, down>>
    <3>1. didx + 1 \in 1 .. N + 1
      BY <1>1, <1>5 DEF StartEntry, TypeOK
    <3>2. QED BY <1>1, <1>5, <2>2, <3>1 DEF StartEntry, TypeOK, clientVars
  <2>3. CASE /\ Kind[didx] = "file"
             /\ disk' = [disk EXCEPT ![didx] = << >>]
             /\ remaining' = Size[didx] /\ dpc' = "write"
             /\ UNCHANGED <<didx, written, down>>
    <3>1. disk' \in [Entry -> Seq(SourceByte)]
      BY <1>1, <2>3, EmptySeq DEF TypeOK
    <3>2. remaining' \in Nat
      BY <1>1, <1>5, <2>3 DEF StartEntry, TypeOK
    <3>3. QED BY <1>1, <1>5, <2>3, <3>1, <3>2 DEF StartEntry, TypeOK, clientVars
  <2>4. QED BY <1>5, <2>1, <2>2, <2>3 DEF StartEntry
<1>6. ASSUME flushed > 0, up' = Tail(up), flushed' = flushed - 1
      PROVE  up' \in Seq(Frame) /\ flushed' \in 0 .. Len(up')
  BY <1>1, <1>6 DEF TypeOK
<1>7. CASE RecvChunk
  <2>1. up' \in Seq(Frame) /\ flushed' \in 0 .. Len(up')
    BY <1>6, <1>7 DEF RecvChunk
  <2>2. CASE DaemonFail
    BY <1>1, <1>3, <1>7, <2>1, <2>2 DEF RecvChunk, TypeOK, clientVars
  <2>3. CASE /\ Head(up).type = "data" /\ Head(up).len <= remaining
             /\ disk' = [disk EXCEPT ![didx] = @ \o Payload(Head(up))]
             /\ remaining' = remaining - Head(up).len
             /\ written' = written + Head(up).len
             /\ UNCHANGED <<dpc, didx, down>>
    <3>1. Head(up) \in Frame /\ didx \in Entry
      BY <1>1, <1>7 DEF RecvChunk, TypeOK, DaemonAt
    <3>2. Payload(Head(up)) \in Seq(SourceByte) /\ Head(up).len \in Nat
      BY <2>3, <3>1, PayloadType, FrameType
    <3>3. disk[didx] \o Payload(Head(up)) \in Seq(SourceByte)
      BY <1>1, <3>1, <3>2, ConcatProperties DEF TypeOK
    <3>4. disk' \in [Entry -> Seq(SourceByte)]
      BY <1>1, <2>3, <3>1, <3>3 DEF TypeOK
    <3>5. remaining' \in Nat /\ written' \in Nat
      BY <1>1, <2>3, <3>2 DEF TypeOK
    <3>6. QED BY <1>1, <1>7, <2>1, <2>3, <3>4, <3>5 DEF RecvChunk, TypeOK, clientVars
  <2>4. QED BY <1>7, <2>2, <2>3 DEF RecvChunk
<1>8. CASE FinishEntry
  <2>1. CASE DaemonFail
    BY <1>1, <1>3, <1>8, <2>1 DEF FinishEntry, TypeOK, clientVars
  <2>2. CASE /\ dpc' = "entry" /\ didx' = didx + 1
             /\ UNCHANGED <<remaining, written, disk, down>>
    BY <1>1, <1>8, <2>2 DEF FinishEntry, TypeOK, DaemonAt, Entry, clientVars
  <2>3. QED BY <1>8, <2>1, <2>2 DEF FinishEntry
<1>9. CASE ExpectEof
  <2>1. up' \in Seq(Frame) /\ flushed' \in 0 .. Len(up')
    BY <1>6, <1>9 DEF ExpectEof
  <2>2. CASE DaemonFail
    BY <1>1, <1>3, <1>9, <2>1, <2>2 DEF ExpectEof, TypeOK, clientVars
  <2>3. CASE /\ dpc' = "complete"
             /\ Respond([type |-> "complete", bytes |-> written])
             /\ UNCHANGED <<didx, remaining, written, disk>>
    <3>1. [type |-> "complete", bytes |-> written] \in Response
      BY <1>1 DEF Response, TypeOK
    <3>2. down' \in Seq(Response)
      BY <1>2, <2>3, <3>1
    <3>3. QED BY <1>1, <1>9, <2>1, <2>3, <3>2 DEF ExpectEof, TypeOK, clientVars, DaemonEnds
  <2>4. QED BY <1>9, <2>2, <2>3 DEF ExpectEof
<1>10. CASE DaemonIoError
  <2>1. DaemonFail
    BY <1>10 DEF DaemonIoError
  <2>2. QED BY <1>1, <1>3, <1>10, <2>1 DEF DaemonIoError, TypeOK, clientVars
<1>11. QED BY <1>4, <1>5, <1>7, <1>8, <1>9, <1>10 DEF Daemon

(* A lost connection leaves a prefix of what was on its way. *)
LEMMA LoseLinkUp ==
    ASSUME TypeOK, LoseLink
    PROVE  /\ up' \in Seq(Frame) /\ Len(up') \in 0 .. flushed /\ flushed' = Len(up')
           /\ \A k \in 1 .. Len(up') : up'[k] = up[k]
           /\ down' \in Seq(Response) /\ Len(down') \in 0 .. Len(down)
           /\ \A k \in 1 .. Len(down') : down'[k] = down[k]
<1>1. PICK k \in 0 .. flushed : up' = SubSeq(up, 1, k) /\ flushed' = k
  BY DEF LoseLink
<1>2. PICK j \in 0 .. Len(down) : down' = SubSeq(down, 1, j)
  BY DEF LoseLink
<1>3. /\ up' \in Seq(Frame) /\ Len(up') \in 0 .. flushed /\ flushed' = Len(up')
      /\ \A i \in 1 .. Len(up') : up'[i] = up[i]
  BY <1>1 DEF TypeOK
<1>4. /\ down' \in Seq(Response) /\ Len(down') \in 0 .. Len(down)
      /\ \A i \in 1 .. Len(down') : down'[i] = down[i]
  BY <1>2 DEF TypeOK
<1>5. QED BY <1>3, <1>4

(* Every step keeps the state well typed. *)
LEMMA TypeStep ==
    ASSUME IInv, [Next]_vars
    PROVE  TypeOK'
<1>1. TypeOK
  BY DEF IInv
<1>2. CASE LoseLink
  <2>1. up' \in Seq(Frame) /\ flushed' \in 0 .. Len(up') /\ down' \in Seq(Response)
    BY <1>1, <1>2, LoseLinkUp DEF TypeOK
  <2>2. QED BY <1>1, <1>2, <2>1 DEF LoseLink, TypeOK, clientVars, daemonVars
<1>3. CASE UNCHANGED vars
  BY <1>1, <1>3 DEF vars, clientVars, wireVars, daemonVars, TypeOK
<1>4. QED BY <1>2, <1>3, ClientType, DaemonType DEF Next, Terminated
-----------------------------------------------------------------------------
(* The client.                                                              *)

(* stream_local_batch_files: the client moves along the manifest only after *)
(* a file has turned out to be as long as announced, so a byte once read is *)
(* for ever among the announced bytes of its file, or the push is over.     *)
LEMMA WasReadStep ==
    ASSUME IInv, [Next]_vars, NEW f \in Entry, NEW p \in Nat, WasRead(f, p)
    PROVE  WasRead(f, p)'
<1> USE ManifestAssumption DEF ClientEnds
<1>1. /\ ClientAt /\ cidx \in 1 .. N + 1
      /\ real \in Nat /\ fileBytes \in Nat
  BY BoundAssumption DEF IInv, TypeOK
<1>2. CASE UNCHANGED clientVars
  BY <1>2 DEF clientVars, WasRead, Streamed
<1>3. CASE \E o \in ClientEnds : ClientEnd(o)
  BY <1>3 DEF ClientEnd, WasRead
<1>4. CASE RecvReady
  BY <1>3, <1>4 DEF RecvReady, ClientGoto, WasRead, Streamed
<1>5. CASE SkipDir
  BY <1>1, <1>5 DEF SkipDir, WasRead, Streamed, Entry
<1>6. CASE OpenFile
  BY <1>1, <1>3, <1>6 DEF OpenFile, WasRead, Streamed
<1>7. CASE SendChunk
  BY <1>1, <1>7, BoundAssumption DEF SendChunk, WasRead, Streamed
<1>8. CASE FinishFile
  <2>1. CASE fileBytes = Size[cidx]
    <3>1. /\ cpc = "stream" /\ fileBytes = Size[cidx]
          /\ cpc' = "next_file" /\ cidx' = cidx + 1
      BY <1>8, <2>1 DEF FinishFile
    <3>2. QED BY <1>1, <3>1 DEF WasRead, Streamed, Entry
  <2>2. CASE fileBytes # Size[cidx]
    BY <1>3, <1>8, <2>2 DEF FinishFile
  <2>3. QED BY <2>1, <2>2
<1>9. CASE SendEof
  BY <1>3, <1>9 DEF SendEof, WasRead, Streamed
<1>10. CASE RecvComplete \/ ClientIoError
  BY <1>3, <1>10 DEF RecvComplete, ClientIoError
<1>11. CASE Daemon
  BY <1>2, <1>11 DEF Daemon, Resolve, StartEntry, RecvChunk, FinishEntry, ExpectEof, DaemonIoError
<1>12. QED
  BY <1>2, <1>4, <1>5, <1>6, <1>7, <1>8, <1>9, <1>10, <1>11
     DEF Next, Client, LoseLink, Terminated, vars

(* The client's counters stay in step with its place in the manifest. *)
LEMMA ClientAtStep ==
    ASSUME IInv, [Next]_vars
    PROVE  ClientAt'
<1> USE ManifestAssumption, BaseSums DEF ClientEnds
<1>1. /\ ClientAt /\ cidx \in 1 .. N + 1
      /\ real \in Nat /\ fileBytes \in Nat /\ sent \in Nat
  BY BoundAssumption DEF IInv, TypeOK
<1>2. CASE UNCHANGED clientVars
  BY <1>1, <1>2 DEF clientVars, ClientAt, Streamed
<1>3. CASE \E o \in ClientEnds : ClientEnd(o)
  BY <1>3 DEF ClientEnd, ClientAt
<1>4. CASE RecvReady
  BY <1>1, <1>3, <1>4 DEF RecvReady, ClientGoto, ClientAt, Streamed
<1>5. CASE SkipDir
  BY <1>1, <1>5 DEF SkipDir, ClientAt, Streamed
<1>6. CASE OpenFile
  <2>1. CASE ClientEnd("failed")
    BY <1>3, <2>1
  <2>2. CASE /\ \E r \in 0 .. MaxReal : real' = r
             /\ fileBytes' = 0 /\ cpc' = "stream"
             /\ UNCHANGED <<cidx, sent, fill, up, flushed>>
    BY <1>1, <1>6, <2>2 DEF OpenFile, ClientAt, Streamed, Entry
  <2>3. QED BY <1>6, <2>1, <2>2 DEF OpenFile
<1>7. CASE SendChunk
  <2>1. PICK n \in 1 .. MaxChunk :
          fileBytes + n <= real /\ fileBytes' = fileBytes + n /\ sent' = sent + n
    BY <1>7 DEF SendChunk
  <2>2. cpc = "stream" /\ UNCHANGED <<cpc, cidx, real>>
    BY <1>7 DEF SendChunk
  <2>3. n \in Nat
    BY <2>1, BoundAssumption
  <2>4. QED BY <1>1, <2>1, <2>2, <2>3 DEF ClientAt, Streamed
<1>8. CASE FinishFile
  <2>1. CASE fileBytes = Size[cidx]
    <3>1. /\ cpc = "stream" /\ fileBytes = Size[cidx]
          /\ cpc' = "next_file" /\ cidx' = cidx + 1 /\ sent' = sent
      BY <1>8, <2>1 DEF FinishFile
    <3>2. QED BY <1>1, <3>1 DEF ClientAt, Streamed, Entry
  <2>2. CASE fileBytes # Size[cidx]
    BY <1>3, <1>8, <2>2 DEF FinishFile
  <2>3. QED BY <2>1, <2>2
<1>9. CASE SendEof
  BY <1>1, <1>3, <1>9 DEF SendEof, ClientAt, Streamed
<1>10. CASE RecvComplete \/ ClientIoError
  BY <1>3, <1>10 DEF RecvComplete, ClientIoError
<1>11. CASE Daemon
  BY <1>2, <1>11 DEF Daemon, Resolve, StartEntry, RecvChunk, FinishEntry, ExpectEof, DaemonIoError
<1>12. QED
  BY <1>2, <1>4, <1>5, <1>6, <1>7, <1>8, <1>9, <1>10, <1>11
     DEF Next, Client, LoseLink, Terminated, vars
-----------------------------------------------------------------------------
(* The stream.                                                              *)

(* A frame that was well placed stays so. *)
LEMMA FrameStep ==
    ASSUME IInv, [Next]_vars, NEW m \in Frame, FrameOK(m)
    PROVE  FrameOK(m)'
<1>1. ASSUME m.type = "data"
      PROVE  WasRead(m.file, m.from + m.len - 1)'
  <2>1. m.file \in Entry /\ m.from + m.len - 1 \in Nat
    BY <1>1, FrameType
  <2>2. WasRead(m.file, m.from + m.len - 1)
    BY <1>1 DEF FrameOK
  <2>3. QED BY <2>1, <2>2, WasReadStep
<1>2. ASSUME m.type = "eof"
      PROVE  cidx' = N + 1 /\ cpc' \in {"await_complete"} \cup ClientEnds
  <2>1. cidx = N + 1 /\ cpc \in {"await_complete"} \cup ClientEnds
    BY <1>2 DEF FrameOK
  <2>2. CASE UNCHANGED clientVars
    BY <2>1, <2>2 DEF clientVars
  <2>3. CASE RecvComplete \/ ClientIoError
    BY <2>1, <2>3 DEF RecvComplete, ClientIoError, ClientEnd, ClientEnds
  <2>4. CASE Daemon
    BY <2>2, <2>4 DEF Daemon, Resolve, StartEntry, RecvChunk, FinishEntry, ExpectEof, DaemonIoError
  <2>5. ~(RecvReady \/ SkipDir \/ OpenFile \/ SendChunk \/ FinishFile \/ SendEof)
    BY <2>1 DEF RecvReady, SkipDir, OpenFile, SendChunk, FinishFile, SendEof, ClientEnds
  <2>6. QED BY <2>2, <2>3, <2>4, <2>5 DEF Next, Client, LoseLink, Terminated, vars
<1>3. QED BY <1>1, <1>2 DEF FrameOK

(* So the frames that stay on their way stay well placed. *)
LEMMA FrameKept ==
    ASSUME IInv, [Next]_vars, NEW k \in 1 .. Len(up), NEW j, up'[j] = up[k]
    PROVE  FrameOK(up[j])'
<1>1. PICK m \in Frame : m = up[k]
  BY UpType DEF IInv
<1>2. FrameOK(m)
  BY <1>1 DEF IInv, EndToEnd
<1>3. FrameOK(m)'
  BY <1>2, FrameStep
<1>4. up'[j] = m
  BY <1>1
<1>5. QED BY <1>3, <1>4 DEF FrameOK, WasRead, Streamed

(* Dropping frames from the end of the stream leaves the others in place. *)
LEMMA PrefixEndToEnd ==
    ASSUME IInv, [Next]_vars,
           up' \in Seq(Frame), Len(up') <= Len(up), \A k \in 1 .. Len(up') : up'[k] = up[k],
           ~linkUp' \/ cpc' \in ClientEnds,
           dpc' = dpc, written' = written
    PROVE  EndToEnd'
<1>1. Len(up) \in Nat /\ Len(up') \in Nat
  BY UpType DEF IInv
<1>2. EndToEnd
  BY DEF IInv
<1>3. ASSUME NEW k \in 1 .. Len(up') PROVE FrameOK(up[k])'
  BY <1>1, FrameKept
<1>4. ASSUME NEW k \in 1 .. Len(up'), k < Len(up')
      PROVE  up'[k].type = "data" /\ Starts(up'[k + 1]) = Stops(up'[k])
  <2>1. k \in 1 .. Len(up) /\ k < Len(up) /\ k + 1 \in 1 .. Len(up')
    BY <1>1, <1>4
  <2>2. up'[k] = up[k] /\ up'[k + 1] = up[k + 1]
    BY <2>1
  <2>3. QED BY <1>2, <2>1, <2>2 DEF EndToEnd
<1>5. ASSUME up' # << >>
      PROVE  up # << >> /\ up'[1] = up[1]
  <2>1. 1 \in 1 .. Len(up')
    BY <1>5, EmptySeq
  <2>2. QED BY <1>1, <2>1
<1>6. dpc' # "failed" /\ up' # << >> => Starts(up'[1]) = written'
  BY <1>2, <1>5 DEF EndToEnd
<1>7. QED BY <1>3, <1>4, <1>6 DEF EndToEnd

(* The next frame continues where the last one stopped. *)
LEMMA AppendEndToEnd ==
    ASSUME IInv, [Next]_vars, NEW m \in Frame, up' = Append(up, m),
           linkUp, cpc \notin ClientEnds \cup {"await_complete"},
           FrameOK(m)', Starts(m) = sent, dpc' = dpc, written' = written,
           m.type = "data" => Stops(m) = sent'
    PROVE  EndToEnd'
<1>1. /\ up \in Seq(Frame) /\ Len(up) \in Nat
      /\ \A k \in 1 .. Len(up) : up[k] \in Frame
  BY UpType DEF IInv, TypeOK
<1>2. /\ up' # << >> /\ Len(up') = Len(up) + 1 /\ up'[Len(up) + 1] = m
      /\ \A k \in 1 .. Len(up) : up'[k] = up[k]
  BY <1>1, AppendProperties
<1>3. EndToEnd
  BY DEF IInv
<1>4. ASSUME NEW k \in 1 .. Len(up') PROVE FrameOK(up[k])'
  <2>1. CASE k = Len(up) + 1
    BY <1>2, <2>1 DEF FrameOK, WasRead, Streamed
  <2>2. CASE k \in 1 .. Len(up)
    BY <1>2, <2>2, FrameKept
  <2>3. QED BY <1>1, <1>2, <2>1, <2>2
<1>5. ASSUME up # << >>
      PROVE  up[Len(up)].type = "data" /\ Stops(up[Len(up)]) = sent
  <2>1. Len(up) \in 1 .. Len(up)
    BY <1>1, <1>5, EmptySeq
  <2>2. up[Len(up)].type # "eof"
    BY <1>3, <2>1 DEF EndToEnd, FrameOK
  <2>3. up[Len(up)].type = "data"
    BY <1>1, <2>1, <2>2, FrameType
  <2>4. QED BY <1>3, <1>5, <2>3 DEF EndToEnd
<1>6. ASSUME NEW k \in 1 .. Len(up'), k < Len(up')
      PROVE  up'[k].type = "data" /\ Starts(up'[k + 1]) = Stops(up'[k])
  <2>1. k \in 1 .. Len(up) /\ up # << >>
    BY <1>1, <1>2, <1>6
  <2>2. CASE k = Len(up)
    BY <1>2, <1>5, <2>1, <2>2
  <2>3. CASE k < Len(up)
    <3>1. k + 1 \in 1 .. Len(up)
      BY <1>1, <2>1, <2>3
    <3>2. up'[k] = up[k] /\ up'[k + 1] = up[k + 1]
      BY <1>2, <2>1, <3>1
    <3>3. QED BY <1>3, <2>1, <2>3, <3>2 DEF EndToEnd
  <2>4. QED BY <1>1, <2>1, <2>2, <2>3
<1>7. ASSUME dpc' # "failed"
      PROVE  Starts(up'[1]) = written'
  <2>1. CASE up = << >>
    <3>1. Len(up) = 0 /\ up'[1] = m
      BY <1>2, <2>1
    <3>2. QED BY <1>3, <1>7, <2>1, <3>1 DEF EndToEnd
  <2>2. CASE up # << >>
    <3>1. 1 \in 1 .. Len(up)
      BY <1>1, <2>2, EmptySeq
    <3>2. QED BY <1>2, <1>3, <1>7, <2>2, <3>1 DEF EndToEnd
  <2>3. QED BY <2>1, <2>2
<1>8. QED BY <1>2, <1>4, <1>6, <1>7 DEF EndToEnd

(* A step that leaves the frames alone, and neither revives the daemon nor  *)
(* takes the client back, leaves the stream in place.                       *)
LEMMA SameEndToEnd ==
    ASSUME IInv, [Next]_vars, UNCHANGED <<up, linkUp, sent, written>>,
           dpc' # "failed" => dpc # "failed",
           cpc' \notin ClientEnds => cpc \notin ClientEnds
    PROVE  EndToEnd'
<1>1. EndToEnd
  BY DEF IInv
<1>2. ASSUME NEW k \in 1 .. Len(up') PROVE FrameOK(up[k])'
  BY FrameKept
<1>3. QED BY <1>1, <1>2 DEF EndToEnd

(* The client keeps the stream in place. *)
LEMMA ClientEndToEnd ==
    ASSUME IInv, Client
    PROVE  EndToEnd'
<1> USE ManifestAssumption, BaseSums
<1>1. TypeOK /\ ClientAt /\ [Next]_vars
  BY DEF IInv, Next
<1>2. ASSUME NEW o \in ClientEnds, ClientEnd(o), dpc' = dpc, written' = written
      PROVE  EndToEnd'
  <2>1. /\ up' \in Seq(Frame) /\ Len(up') = flushed
        /\ \A k \in 1 .. flushed : up'[k] = up[k]
    BY <1>1, <1>2, ClientEndUp
  <2>2. Len(up') <= Len(up)
    BY <1>1, <2>1 DEF TypeOK
  <2>3. cpc' \in ClientEnds
    BY <1>2 DEF ClientEnd
  <2>4. QED BY <1>1, <1>2, <2>1, <2>2, <2>3, PrefixEndToEnd
<1>3. UNCHANGED daemonVars
  BY DEF Client, RecvReady, SkipDir, OpenFile, SendChunk, FinishFile, SendEof, RecvComplete,
         ClientIoError
<1>4. dpc' = dpc /\ written' = written
  BY <1>3 DEF daemonVars
<1>5. CASE RecvReady
  <2>1. CASE ClientGoto("next_file")
    BY <1>1, <1>4, <1>5, <2>1, SameEndToEnd DEF RecvReady, ClientGoto, ClientEnds
  <2>2. CASE ClientEnd("remote_error")
    BY <1>2, <1>4, <2>2 DEF ClientEnds
  <2>3. QED BY <1>5, <2>1, <2>2 DEF RecvReady
<1>6. CASE SkipDir
  BY <1>1, <1>4, <1>6, SameEndToEnd DEF SkipDir, wireVars
<1>7. CASE OpenFile
  <2>1. CASE ClientEnd("failed")
    BY <1>2, <1>4, <2>1 DEF ClientEnds
  <2>2. CASE /\ \E r \in 0 .. MaxReal : real' = r
             /\ fileBytes' = 0 /\ cpc' = "stream"
             /\ UNCHANGED <<cidx, sent, fill, up, flushed>>
    BY <1>1, <1>4, <1>7, <2>2, SameEndToEnd DEF OpenFile, ClientEnds
  <2>3. QED BY <1>7, <2>1, <2>2 DEF OpenFile
<1>8. CASE SendChunk
  <2>1. PICK n \in 1 .. MaxChunk :
          /\ up' = Append(up, [type |-> "data", file |-> cidx, from |-> fileBytes + 1, len |-> n])
          /\ fileBytes' = fileBytes + n /\ sent' = sent + n
    BY <1>8 DEF SendChunk
  <2>2. cpc = "stream" /\ linkUp /\ UNCHANGED <<cpc, cidx>>
    BY <1>8 DEF SendChunk
  <2>3. PICK m : m = [type |-> "data", file |-> cidx, from |-> fileBytes + 1, len |-> n]
    OBVIOUS
  <2>4. n \in Nat \ {0} /\ fileBytes \in Nat /\ sent \in Nat /\ cidx \in Entry
    BY <1>1, <2>1, <2>2, BoundAssumption DEF TypeOK, ClientAt
  <2>5. m \in Frame /\ m.type = "data" /\ m.file = cidx /\ m.from = fileBytes + 1 /\ m.len = n
    BY <2>3, <2>4 DEF Frame, Chunk
  <2>6. sent = Base[cidx] + fileBytes /\ Base[cidx] \in Nat
    BY <1>1, <2>2, <2>4 DEF ClientAt, Streamed, ClientEnds, Entry
  <2>7. Starts(m) = sent /\ Stops(m) = sent'
    BY <2>1, <2>4, <2>5, <2>6 DEF Starts, Stops
  <2>8. FrameOK(m)'
    <3>1. m.from + m.len - 1 = fileBytes' /\ cidx' \in Nat /\ fileBytes' \in Nat
      BY <2>1, <2>2, <2>4, <2>5 DEF Entry
    <3>2. QED BY <2>2, <2>5, <3>1 DEF FrameOK, WasRead, Streamed
  <2>9. QED BY <1>1, <1>4, <2>1, <2>2, <2>3, <2>5, <2>7, <2>8, AppendEndToEnd DEF ClientEnds
<1>9. CASE FinishFile
  <2>1. CASE ClientEnd("failed")
    BY <1>2, <1>4, <2>1 DEF ClientEnds
  <2>2. CASE /\ cpc' = "next_file" /\ cidx' = cidx + 1
             /\ UNCHANGED <<real, fileBytes, sent, fill, up, flushed>>
    BY <1>1, <1>4, <1>9, <2>2, SameEndToEnd DEF FinishFile, ClientEnds
  <2>3. QED BY <1>9, <2>1, <2>2 DEF FinishFile
<1>10. CASE SendEof
  <2>1. CASE sent = TotalBytes
    <3>1. PICK m : m = [type |-> "eof"]
      OBVIOUS
    <3>2. m \in Frame /\ m.type = "eof"
      BY <3>1 DEF Frame
    <3>3. /\ up' = Append(up, m) /\ linkUp /\ cpc = "next_file" /\ cpc' = "await_complete"
          /\ cidx = N + 1 /\ cidx' = cidx
      BY <1>10, <2>1, <3>1 DEF SendEof
    <3>4. Starts(m) = sent
      BY <2>1, <3>2 DEF Starts
    <3>5. FrameOK(m)'
      BY <3>2, <3>3 DEF FrameOK
    <3>6. QED BY <1>1, <1>4, <3>2, <3>3, <3>4, <3>5, AppendEndToEnd DEF ClientEnds
  <2>2. CASE sent # TotalBytes
    BY <1>2, <1>4, <1>10, <2>2 DEF SendEof, ClientEnds
  <2>3. QED BY <2>1, <2>2
<1>11. CASE RecvComplete
  <2>1. PICK o \in ClientEnds : ClientEnd(o)
    BY <1>11 DEF RecvComplete, ClientEnds
  <2>2. QED BY <1>2, <1>4, <2>1
<1>12. CASE ClientIoError
  BY <1>2, <1>4, <1>12 DEF ClientIoError, ClientEnds
<1>13. QED BY <1>5, <1>6, <1>7, <1>8, <1>9, <1>10, <1>11, <1>12 DEF Client

(* When the daemon takes the first frame, the second one starts where the   *)
(* first one stopped.                                                       *)
LEMMA TailEndToEnd ==
    ASSUME IInv, [Next]_vars, flushed > 0, up' = Tail(up), UNCHANGED <<linkUp, cpc, sent>>,
           dpc # "failed",
           dpc' # "failed" =>
               \/ up[1].type = "data" /\ written' = written + up[1].len
               \/ up[1].type = "eof" /\ written' = written /\ written = TotalBytes
    PROVE  EndToEnd'
<1> USE ManifestAssumption, BaseSums
<1>1. /\ up \in Seq(Frame) /\ Len(up) \in Nat
      /\ \A k \in 1 .. Len(up) : up[k] \in Frame
  BY UpType DEF IInv, TypeOK
<1>2. up # << >> /\ 1 \in 1 .. Len(up)
  BY <1>1 DEF IInv, TypeOK
<1>3. /\ Len(up') = Len(up) - 1 /\ up' \in Seq(Frame)
      /\ \A k \in 1 .. Len(up') : up'[k] = up[k + 1] /\ k + 1 \in 1 .. Len(up)
  BY <1>1, <1>2, HeadTailProperties
<1>4. EndToEnd /\ ClientAt
  BY DEF IInv
<1>5. ASSUME NEW k \in 1 .. Len(up') PROVE FrameOK(up[k])'
  BY <1>3, FrameKept
<1>6. ASSUME NEW k \in 1 .. Len(up'), k < Len(up')
      PROVE  up'[k].type = "data" /\ Starts(up'[k + 1]) = Stops(up'[k])
  <2>1. k + 1 \in 1 .. Len(up) /\ k + 1 < Len(up) /\ k + 1 \in 1 .. Len(up')
    <3>1. k \in Nat /\ k >= 1 /\ k + 1 < Len(up)
      BY <1>1, <1>3, <1>6
    <3>2. QED BY <1>1, <1>3, <3>1
  <2>2. up'[k] = up[k + 1] /\ up'[k + 1] = up[k + 2]
    BY <1>3, <2>1
  <2>3. QED BY <1>4, <2>1, <2>2 DEF EndToEnd
<1>7. ASSUME dpc' # "failed", up' # << >>
      PROVE  Starts(up'[1]) = written'
  <2>1. 1 \in 1 .. Len(up') /\ 1 < Len(up)
    BY <1>1, <1>3, <1>7, EmptySeq
  <2>2. up'[1] = up[2]
    BY <1>3, <2>1
  <2>3. up[1].type = "data" /\ Starts(up[2]) = Stops(up[1]) /\ Starts(up[1]) = written
    BY <1>2, <1>4, <2>1 DEF EndToEnd
  <2>4. QED BY <1>7, <2>2, <2>3 DEF Stops
<1>8. ASSUME linkUp, cpc \notin ClientEnds, up' # << >>, up'[Len(up')].type = "data"
      PROVE  Stops(up'[Len(up')]) = sent
  <2>1. Len(up') \in 1 .. Len(up') /\ Len(up') + 1 = Len(up)
    BY <1>1, <1>3, <1>8, EmptySeq
  <2>2. up'[Len(up')] = up[Len(up)]
    BY <1>3, <2>1
  <2>3. QED BY <1>2, <1>4, <1>8, <2>2 DEF EndToEnd
<1>9. ASSUME linkUp, cpc \notin ClientEnds, up' = << >>, dpc' # "failed"
      PROVE  written' = sent
  <2>1. Len(up) = 1
    <3>1. Len(up') = 0
      BY <1>9
    <3>2. Len(up') = Len(up) - 1
      BY <1>3
    <3>3. QED BY <1>1, <3>1, <3>2
  <2>2. Starts(up[1]) = written
    BY <1>2, <1>4 DEF EndToEnd
  <2>3. CASE up[1].type = "data" /\ written' = written + up[1].len
    BY <1>2, <1>4, <1>9, <2>1, <2>2, <2>3 DEF EndToEnd, Stops
  <2>4. CASE up[1].type = "eof" /\ written' = written /\ written = TotalBytes
    <3>1. cidx = N + 1 /\ cpc \in {"await_complete"} \cup ClientEnds
      BY <1>2, <1>4, <2>4 DEF EndToEnd, FrameOK
    <3>2. QED BY <1>4, <1>9, <2>4, <3>1 DEF ClientAt, Streamed, TotalBytes
  <2>5. QED BY <1>9, <2>3, <2>4
<1>10. QED BY <1>5, <1>6, <1>7, <1>8, <1>9 DEF EndToEnd

(* The daemon keeps the stream in place: it takes a chunk off the front and *)
(* counts its bytes, or it fails.                                           *)
LEMMA DaemonEndToEnd ==
    ASSUME IInv, Daemon
    PROVE  EndToEnd'
<1> USE ManifestAssumption, BaseSums
<1>1. TypeOK /\ DaemonAt /\ [Next]_vars
  BY DEF IInv, Next
<1>2. UNCHANGED <<clientVars, linkUp>>
  BY DEF Daemon, Resolve, StartEntry, RecvChunk, FinishEntry, ExpectEof, DaemonIoError
<1>3. UNCHANGED <<cpc, sent, linkUp>>
  BY <1>2 DEF clientVars
<1>4. CASE Resolve \/ StartEntry \/ FinishEntry \/ DaemonIoError
  <2>1. UNCHANGED <<up, written>> /\ dpc # "failed"
    BY <1>4 DEF Resolve, StartEntry, FinishEntry, DaemonIoError, DaemonFail, DaemonEnds
  <2>2. QED BY <1>1, <1>3, <2>1, SameEndToEnd
<1>5. ASSUME flushed > 0
      PROVE  up # << >> /\ Head(up) = up[1]
  BY <1>1, <1>5 DEF TypeOK
<1>6. CASE RecvChunk
  <2>1. flushed > 0 /\ up' = Tail(up) /\ dpc # "failed"
    BY <1>6 DEF RecvChunk
  <2>2. dpc' # "failed" => up[1].type = "data" /\ written' = written + up[1].len
    BY <1>5, <1>6, <2>1 DEF RecvChunk, DaemonFail
  <2>3. QED BY <1>1, <1>3, <2>1, <2>2, TailEndToEnd
<1>7. CASE ExpectEof
  <2>1. flushed > 0 /\ up' = Tail(up) /\ dpc # "failed"
    BY <1>7 DEF ExpectEof
  <2>2. written = TotalBytes
    BY <1>1, <1>7 DEF ExpectEof, DaemonAt, TotalBytes
  <2>3. dpc' # "failed" => up[1].type = "eof" /\ written' = written
    BY <1>5, <1>7, <2>1 DEF ExpectEof, DaemonFail
  <2>4. QED BY <1>1, <1>3, <2>1, <2>2, <2>3, TailEndToEnd
<1>8. QED BY <1>4, <1>6, <1>7 DEF Daemon

(* Every step keeps the frames end to end. *)
LEMMA EndToEndStep ==
    ASSUME IInv, [Next]_vars
    PROVE  EndToEnd'
<1>1. CASE LoseLink
  <2>1. TypeOK
    BY DEF IInv
  <2>2. /\ up' \in Seq(Frame) /\ Len(up') <= Len(up)
        /\ \A k \in 1 .. Len(up') : up'[k] = up[k]
    BY <1>1, <2>1, LoseLinkUp DEF TypeOK
  <2>3. ~linkUp' /\ dpc' = dpc /\ written' = written
    BY <1>1 DEF LoseLink, daemonVars
  <2>4. QED BY <2>2, <2>3, PrefixEndToEnd
<1>2. CASE UNCHANGED vars
  BY <1>2, SameEndToEnd DEF vars, clientVars, wireVars, daemonVars
<1>3. QED BY <1>1, <1>2, ClientEndToEnd, DaemonEndToEnd DEF Next, Terminated

-----------------------------------------------------------------------------
(* The device.                                                              *)

(* A byte on the device is a byte of some source. *)
LEMMA DiskType ==
    ASSUME TypeOK, NEW i \in Entry
    PROVE  /\ disk[i] \in Seq(SourceByte) /\ Len(disk[i]) \in Nat
           /\ \A k \in 1 .. Len(disk[i]) :
                disk[i][k][1] \in Entry /\ disk[i][k][2] \in Nat \ {0}
<1>1. disk[i] \in Seq(SourceByte)
  BY DEF TypeOK
<1>2. \A k \in 1 .. Len(disk[i]) : disk[i][k] \in SourceByte
  BY <1>1
<1>3. QED BY <1>1, <1>2 DEF SourceByte

(* handle_push_batch: what a chunk adds to the file it is written to. *)
LEMMA ChunkWritten ==
    ASSUME TypeOK, DaemonAt, RecvChunk, dpc' # "failed"
    PROVE  \E m \in Frame :
           /\ m = up[1] /\ m.type = "data" /\ didx \in Entry /\ didx' = didx /\ dpc' = dpc
           /\ m.len <= remaining /\ remaining' = remaining - m.len /\ written' = written + m.len
           /\ \A i \in Entry : i # didx => disk'[i] = disk[i]
           /\ Len(disk'[didx]) = Len(disk[didx]) + m.len
           /\ \A k \in 1 .. Len(disk[didx]) : disk'[didx][k] = disk[didx][k]
           /\ \A k \in 1 .. m.len :
                disk'[didx][Len(disk[didx]) + k] = <<m.file, m.from + k - 1>>
<1>1. up # << >> /\ Head(up) = up[1] /\ up[1] \in Frame
  BY DEF TypeOK, RecvChunk
<1>2. PICK m \in Frame : m = up[1]
  BY <1>1
<1>3. /\ m.type = "data" /\ m.len <= remaining
      /\ disk' = [disk EXCEPT ![didx] = @ \o Payload(m)]
      /\ remaining' = remaining - m.len /\ written' = written + m.len
      /\ didx' = didx /\ dpc' = dpc
  BY <1>1, <1>2 DEF RecvChunk, DaemonFail
<1>4. didx \in Entry
  BY DEF DaemonAt, RecvChunk
<1>5. /\ Payload(m) \in Seq(SourceByte) /\ Len(Payload(m)) = m.len /\ m.len \in Nat
      /\ \A k \in 1 .. m.len : Payload(m)[k] = <<m.file, m.from + k - 1>>
  BY <1>3, PayloadType, FrameType
<1>6. PICK s \in Seq(SourceByte), t \in Seq(SourceByte), n \in Nat :
        s = disk[didx] /\ t = Payload(m) /\ n = Len(s)
  BY <1>4, <1>5, DiskType
<1>7. disk'[didx] = s \o t /\ \A i \in Entry : i # didx => disk'[i] = disk[i]
  BY <1>3, <1>4, <1>6 DEF TypeOK
<1>8. /\ Len(s \o t) = n + m.len
      /\ \A k \in 1 .. n + m.len : (s \o t)[k] = IF k <= n THEN s[k] ELSE t[k - n]
  <2>1. /\ Len(s \o t) = Len(s) + Len(t)
        /\ \A k \in 1 .. Len(s) + Len(t) : (s \o t)[k] = IF k <= Len(s) THEN s[k] ELSE t[k - Len(s)]
    BY ConcatProperties
  <2>2. Len(s) = n /\ Len(t) = m.len
    BY <1>5, <1>6
  <2>3. QED BY <2>1, <2>2
<1>9. \A k \in 1 .. n : (s \o t)[k] = s[k]
  BY <1>5, <1>8
<1>10. ASSUME NEW k \in 1 .. m.len
       PROVE  (s \o t)[n + k] = <<m.file, m.from + k - 1>>
  <2>1. n + k \in 1 .. n + m.len /\ ~(n + k <= n) /\ n + k - n = k
    BY <1>5
  <2>2. (s \o t)[n + k] = t[k]
    BY <1>8, <2>1
  <2>3. QED BY <1>5, <1>6, <2>2
<1>11. /\ Len(disk'[didx]) = Len(disk[didx]) + m.len
       /\ \A k \in 1 .. Len(disk[didx]) : disk'[didx][k] = disk[didx][k]
       /\ \A k \in 1 .. m.len :
            disk'[didx][Len(disk[didx]) + k] = <<m.file, m.from + k - 1>>
  BY <1>6, <1>7, <1>8, <1>9, <1>10
<1>12. QED BY <1>2, <1>3, <1>4, <1>7, <1>11

(* A byte on the device was read by the client, and stays where its place   *)
(* in the stream has put it.                                                *)
LEMMA DiskOKStep ==
    ASSUME IInv, [Next]_vars
    PROVE  DiskOK'
<1>1. TypeOK /\ DaemonAt /\ EndToEnd /\ DiskOK
  BY DEF IInv
<1>2. ASSUME NEW i \in Entry, NEW k \in 1 .. Len(disk[i]), disk'[i][k] = disk[i][k]
      PROVE  /\ WasRead(disk[i][k][1], disk[i][k][2])'
             /\ Base[disk'[i][k][1]] + disk'[i][k][2] = Base[i] + k
  <2>1. PICK f \in Entry, p \in Nat : f = disk[i][k][1] /\ p = disk[i][k][2]
    BY <1>1, DiskType
  <2>2. WasRead(f, p) /\ Base[f] + p = Base[i] + k
    BY <1>1, <2>1 DEF DiskOK
  <2>3. WasRead(f, p)'
    BY <2>2, WasReadStep
  <2>4. disk'[i][k][1] = f /\ disk'[i][k][2] = p
    BY <1>2, <2>1
  <2>5. QED BY <2>2, <2>3, <2>4 DEF WasRead, Streamed
<1>3. CASE RecvChunk /\ dpc' # "failed"
  <2>1. PICK m \in Frame :
          /\ m = up[1] /\ m.type = "data" /\ didx \in Entry
          /\ \A i \in Entry : i # didx => disk'[i] = disk[i]
          /\ Len(disk'[didx]) = Len(disk[didx]) + m.len
          /\ \A k \in 1 .. Len(disk[didx]) : disk'[didx][k] = disk[didx][k]
          /\ \A k \in 1 .. m.len :
               disk'[didx][Len(disk[didx]) + k] = <<m.file, m.from + k - 1>>
    BY <1>1, <1>3, ChunkWritten
  <2>2. m.file \in Entry /\ m.from \in Nat \ {0} /\ m.len \in Nat \ {0}
    BY <2>1, FrameType
  <2>3. dpc = "write" /\ flushed > 0
    BY <1>3 DEF RecvChunk
  <2>4. WasRead(m.file, m.from + m.len - 1) /\ Base[m.file] + m.from - 1 = written
    <3>1. up # << >> /\ 1 \in 1 .. Len(up)
      BY <1>1, <2>3 DEF TypeOK
    <3>2. QED BY <1>1, <2>1, <2>3, <3>1 DEF EndToEnd, FrameOK, Starts
  <2>5. PICK n \in Nat : n = Len(disk[didx])
    BY <1>1, <2>1, DiskType
  <2>6. Base[didx] \in Nat /\ written = Base[didx] + n
    <3>1. Base[didx] \in Nat /\ Size[didx] \in Nat /\ remaining \in Nat /\ written \in Nat
      BY <1>1, <2>1, ManifestAssumption, BaseSums DEF Entry, TypeOK
    <3>2. written + remaining = Base[didx] + Size[didx] /\ n + remaining = Size[didx]
      BY <1>1, <2>3, <2>5 DEF DaemonAt
    <3>3. QED BY <3>1, <3>2
  <2>7. ASSUME NEW k \in 1 .. m.len
        PROVE  /\ WasRead(m.file, m.from + k - 1)'
               /\ Base[m.file] + (m.from + k - 1) = Base[didx] + (n + k)
    <3>1. PICK f \in Entry, p \in Nat : f = m.file /\ p = m.from + k - 1
      BY <2>2
    <3>2. p <= m.from + m.len - 1 /\ m.from + m.len - 1 \in Nat
      BY <2>2, <3>1
    <3>3. WasRead(f, p)
      <4>1. cidx \in Nat /\ f \in Nat /\ Streamed \in Nat /\ Size[f] \in Nat
        BY <1>1, ManifestAssumption, BoundAssumption DEF TypeOK, Streamed, Entry
      <4>2. QED BY <2>4, <3>1, <3>2, <4>1 DEF WasRead
    <3>4. WasRead(f, p)'
      BY <3>3, WasReadStep
    <3>5. Base[m.file] \in Nat
      BY <2>2, ManifestAssumption, BaseSums DEF Entry
    <3>6. QED BY <2>2, <2>4, <2>6, <3>1, <3>4, <3>5
  <2>8. ASSUME NEW i \in Entry, NEW k \in 1 .. Len(disk'[i])
        PROVE  /\ WasRead(disk[i][k][1], disk[i][k][2])'
               /\ Base[disk'[i][k][1]] + disk'[i][k][2] = Base[i] + k
    <3>1. CASE i # didx
      BY <1>2, <2>1, <3>1
    <3>2. CASE i = didx /\ k \in 1 .. n
      BY <1>2, <2>1, <2>5, <3>2
    <3>3. CASE i = didx /\ k > n
      <4>1. PICK j \in 1 .. m.len : k = n + j
        <5>1. k \in 1 .. n + m.len
          BY <2>1, <2>5, <3>3
        <5>2. k - n \in 1 .. m.len /\ k = n + (k - n)
          BY <2>2, <3>3, <5>1
        <5>3. QED BY <5>2
      <4>2. PICK f, p : f = m.file /\ p = m.from + j - 1
        OBVIOUS
      <4>3. disk'[i][k][1] = f /\ disk'[i][k][2] = p
        BY <2>1, <2>5, <3>3, <4>1, <4>2
      <4>4. WasRead(f, p)' /\ Base[f] + p = Base[i] + k
        BY <2>7, <3>3, <4>1, <4>2
      <4>5. QED BY <4>3, <4>4 DEF WasRead, Streamed
    <3>4. QED BY <2>5, <3>1, <3>2, <3>3
  <2>9. QED BY <2>8 DEF DiskOK
<1>4. CASE StartEntry
  <2>1. ASSUME NEW i \in Entry PROVE disk'[i] \in {disk[i], << >>}
    BY <1>1, <1>4 DEF StartEntry, DaemonFail, TypeOK
  <2>2. ASSUME NEW i \in Entry, NEW k \in 1 .. Len(disk'[i])
        PROVE  disk'[i] = disk[i] /\ k \in 1 .. Len(disk[i])
    <3>1. disk'[i] # << >>
      OBVIOUS
    <3>2. QED BY <2>1, <3>1
  <2>3. ASSUME NEW i \in Entry, NEW k \in 1 .. Len(disk'[i])
        PROVE  /\ WasRead(disk[i][k][1], disk[i][k][2])'
               /\ Base[disk'[i][k][1]] + disk'[i][k][2] = Base[i] + k
    BY <1>2, <2>2
  <2>4. QED BY <2>3 DEF DiskOK
<1>5. CASE UNCHANGED disk
  <2>1. ASSUME NEW i \in Entry, NEW k \in 1 .. Len(disk'[i])
        PROVE  /\ WasRead(disk[i][k][1], disk[i][k][2])'
               /\ Base[disk'[i][k][1]] + disk'[i][k][2] = Base[i] + k
    BY <1>2, <1>5
  <2>2. QED BY <2>1 DEF DiskOK
<1>6. CASE Daemon
  BY <1>3, <1>4, <1>5, <1>6
     DEF Daemon, Resolve, RecvChunk, FinishEntry, ExpectEof, DaemonIoError, DaemonFail
<1>7. CASE Client
  BY <1>5, <1>7 DEF Client, RecvReady, SkipDir, OpenFile, SendChunk, FinishFile, SendEof,
         RecvComplete, ClientIoError, daemonVars
<1>8. QED BY <1>5, <1>6, <1>7 DEF Next, LoseLink, Terminated, vars, daemonVars

(* Where the client has got to the end of the manifest it stays there. *)
LEMMA ClientAtEndStays ==
    ASSUME IInv, [Next]_vars, cidx = N + 1
    PROVE  cidx' = N + 1
<1>1. ClientAt /\ N \in Nat
  BY ManifestAssumption DEF IInv
<1>2. CASE SkipDir \/ FinishFile
  <2>1. ~SkipDir
    BY <1>1 DEF SkipDir
  <2>2. ~FinishFile
    BY <1>1 DEF FinishFile, ClientAt, Entry
  <2>3. QED BY <1>2, <2>1, <2>2
<1>3. CASE Client /\ ~SkipDir /\ ~FinishFile
  BY <1>3 DEF Client, RecvReady, OpenFile, SendChunk, SendEof, RecvComplete, ClientIoError,
         ClientEnd, ClientGoto
<1>4. CASE Daemon
  BY <1>4 DEF Daemon, Resolve, StartEntry, RecvChunk, FinishEntry, ExpectEof, DaemonIoError,
         clientVars
<1>5. QED BY <1>2, <1>3, <1>4 DEF Next, LoseLink, Terminated, vars, clientVars

(* The daemon's counters stay in step with its place in the manifest, and   *)
(* with the lengths of the files on the device.                             *)
LEMMA DaemonAtStep ==
    ASSUME IInv, [Next]_vars
    PROVE  DaemonAt'
<1>1. TypeOK /\ DaemonAt /\ EndToEnd
  BY DEF IInv
<1>2. /\ N \in Nat /\ didx \in 1 .. N + 1
      /\ \A i \in Entry : i \in Nat /\ Size[i] \in Nat /\ Len(disk[i]) \in Nat
      /\ written \in Nat /\ remaining \in Nat
  BY <1>1, ManifestAssumption, DiskType DEF TypeOK, Entry
<1>3. CASE UNCHANGED daemonVars
  BY <1>1, <1>3, ClientAtEndStays DEF DaemonAt, daemonVars
<1>4. CASE dpc' = "failed" /\ UNCHANGED disk
  BY <1>1, <1>4 DEF DaemonAt
<1>5. CASE Resolve
  <2>1. CASE dpc' = "entry" /\ UNCHANGED <<didx, remaining, written, disk>>
    BY <1>1, <1>5, <2>1 DEF Resolve, DaemonAt
  <2>2. QED BY <1>4, <1>5, <2>1 DEF Resolve, DaemonFail
<1>6. CASE StartEntry
  <2>1. didx \in Entry /\ dpc = "entry"
    BY <1>2, <1>6 DEF StartEntry, Entry
  <2>2. CASE /\ Kind[didx] = "dir" /\ didx' = didx + 1
             /\ UNCHANGED <<dpc, remaining, written, disk>>
    <3>1. written' = Base[didx']
      <4>1. Size[didx] = 0 /\ Base[didx + 1] = Base[didx] + Size[didx] /\ Base[didx] \in Nat
        BY <2>1, <2>2, ManifestAssumption, BaseSums DEF Entry
      <4>2. QED BY <1>1, <2>1, <2>2, <4>1 DEF DaemonAt
    <3>2. ASSUME NEW i \in Entry
          PROVE  /\ i < didx' /\ Kind[i] = "file" => Len(disk[i]) = Size[i]
                 /\ i >= didx' => disk[i] = << >>
      BY <1>1, <1>2, <2>1, <2>2 DEF DaemonAt
    <3>3. QED BY <1>1, <2>1, <2>2, <3>1, <3>2 DEF DaemonAt
  <2>3. CASE /\ Kind[didx] = "file"
             /\ disk' = [disk EXCEPT ![didx] = << >>]
             /\ remaining' = Size[didx] /\ dpc' = "write"
             /\ UNCHANGED <<didx, written>>
    <3>1. disk[didx] = << >> /\ written = Base[didx]
      BY <1>1, <1>2, <2>1 DEF DaemonAt
    <3>2. \A i \in Entry : disk'[i] = disk[i]
      BY <1>1, <2>1, <2>3, <3>1 DEF TypeOK
    <3>3. Len(disk'[didx]) = 0
      BY <2>1, <3>1, <3>2
    <3>4. Size[didx] \in Nat
      BY <1>2, <2>1
    <3>5. \A i \in Entry : i > didx => disk'[i] = << >>
      BY <1>1, <1>2, <2>1, <3>2 DEF DaemonAt
    <3>6. \A i \in Entry : Len(disk'[i]) <= Size[i]
                           /\ (i < didx /\ Kind[i] = "file" => Len(disk'[i]) = Size[i])
      BY <1>1, <2>1, <3>2 DEF DaemonAt
    <3>7. QED BY <2>1, <2>3, <3>1, <3>3, <3>4, <3>5, <3>6 DEF DaemonAt
  <2>4. QED BY <1>4, <1>6, <2>2, <2>3 DEF StartEntry, DaemonFail
<1>7. CASE RecvChunk
  <2>1. CASE dpc' # "failed"
    <3>1. PICK m \in Frame :
            /\ m.type = "data" /\ didx \in Entry /\ didx' = didx /\ dpc' = dpc
            /\ m.len <= remaining /\ remaining' = remaining - m.len /\ written' = written + m.len
            /\ \A i \in Entry : i # didx => disk'[i] = disk[i]
            /\ Len(disk'[didx]) = Len(disk[didx]) + m.len
      BY <1>1, <1>7, <2>1, ChunkWritten
    <3>2. dpc = "write" /\ Kind[didx] = "file"
      BY <1>1, <1>7 DEF RecvChunk, DaemonAt
    <3>3. /\ written + remaining = Base[didx] + Size[didx]
          /\ Len(disk[didx]) + remaining = Size[didx]
      BY <1>1, <3>2 DEF DaemonAt
    <3>4. m.len \in Nat /\ Size[didx] \in Nat /\ Len(disk[didx]) \in Nat /\ Base[didx] \in Nat
      BY <1>2, <3>1, FrameType, ManifestAssumption, BaseSums DEF Entry
    <3>5. /\ written' + remaining' = Base[didx] + Size[didx]
          /\ Len(disk'[didx]) + remaining' = Size[didx]
          /\ Len(disk'[didx]) <= Size[didx]
      <4>1. written \in Nat /\ remaining \in Nat
        BY <1>2
      <4>2. /\ m.len <= remaining /\ remaining' = remaining - m.len /\ written' = written + m.len
            /\ Len(disk'[didx]) = Len(disk[didx]) + m.len
        BY <3>1
      <4>3. written' + remaining' = written + remaining
        BY <3>4, <4>1, <4>2
      <4>4. Len(disk'[didx]) + remaining' = Len(disk[didx]) + remaining
        BY <3>4, <4>1, <4>2
      <4>5. Len(disk'[didx]) <= Len(disk[didx]) + remaining
        BY <3>4, <4>1, <4>2
      <4>6. QED BY <3>3, <4>3, <4>4, <4>5
    <3>6. ASSUME NEW i \in Entry
          PROVE  /\ Len(disk'[i]) <= Size[i]
                 /\ i < didx /\ Kind[i] = "file" => Len(disk'[i]) = Size[i]
                 /\ i > didx => disk'[i] = << >>
      <4>1. CASE i = didx
        BY <1>2, <3>5, <4>1
      <4>2. CASE i # didx
        <5>1. disk'[i] = disk[i]
          BY <3>1, <4>2
        <5>2. QED BY <1>1, <3>2, <5>1 DEF DaemonAt
      <4>3. QED BY <4>1, <4>2
    <3>7. QED BY <3>1, <3>2, <3>5, <3>6 DEF DaemonAt
  <2>2. QED BY <1>4, <1>7, <2>1 DEF RecvChunk, DaemonFail
<1>8. CASE FinishEntry
  <2>1. CASE dpc' = "entry" /\ didx' = didx + 1 /\ UNCHANGED <<remaining, written, disk>>
    <3>1. dpc = "write" /\ remaining = 0
      BY <1>8 DEF FinishEntry
    <3>2. /\ didx \in Entry /\ written + remaining = Base[didx] + Size[didx]
          /\ Len(disk[didx]) + remaining = Size[didx]
      BY <1>1, <3>1 DEF DaemonAt
    <3>3. Base[didx + 1] = Base[didx] + Size[didx]
      BY <3>2, BaseSums DEF Entry
    <3>4. written = Base[didx + 1] /\ Len(disk[didx]) = Size[didx]
      BY <1>2, <3>1, <3>2, <3>3
    <3>5. ASSUME NEW i \in Entry
          PROVE  /\ i < didx' /\ Kind[i] = "file" => Len(disk[i]) = Size[i]
                 /\ i >= didx' => disk[i] = << >>
      BY <1>1, <1>2, <2>1, <3>1, <3>2, <3>4 DEF DaemonAt
    <3>6. QED BY <1>1, <2>1, <3>4, <3>5 DEF DaemonAt
  <2>2. QED BY <1>4, <1>8, <2>1 DEF FinishEntry, DaemonFail
<1>9. CASE ExpectEof
  <2>1. CASE dpc' = "complete" /\ UNCHANGED <<didx, remaining, written, disk>>
    <3>1. /\ dpc = "entry" /\ didx = N + 1 /\ flushed > 0 /\ Head(up).type = "eof" /\ cidx' = cidx
      BY <1>9, <2>1 DEF ExpectEof, DaemonFail, clientVars
    <3>2. 1 \in 1 .. Len(up) /\ up[1].type = "eof"
      BY <1>1, <3>1 DEF TypeOK
    <3>3. cidx = N + 1
      BY <1>1, <3>2 DEF EndToEnd, FrameOK
    <3>4. QED BY <1>1, <2>1, <3>1, <3>3 DEF DaemonAt
  <2>2. QED BY <1>4, <1>9, <2>1 DEF ExpectEof, DaemonFail
<1>10. CASE DaemonIoError
  BY <1>4, <1>10 DEF DaemonIoError, DaemonFail
<1>11. CASE Client
  BY <1>3, <1>11 DEF Client, RecvReady, SkipDir, OpenFile, SendChunk, FinishFile, SendEof,
         RecvComplete, ClientIoError
<1>12. QED
  BY <1>3, <1>5, <1>6, <1>7, <1>8, <1>9, <1>10, <1>11
     DEF Next, Daemon, LoseLink, Terminated, vars

-----------------------------------------------------------------------------
(* The answers.                                                             *)

(* Once the push is complete on the device it stays so. *)
LEMMA CompleteStays ==
    ASSUME IInv, [Next]_vars, dpc = "complete"
    PROVE  dpc' = "complete"
<1>1. ~Daemon
  BY DEF Daemon, Resolve, StartEntry, RecvChunk, FinishEntry, ExpectEof, DaemonIoError, DaemonEnds
<1>2. CASE Client
  BY <1>2 DEF Client, RecvReady, SkipDir, OpenFile, SendChunk, FinishFile, SendEof,
         RecvComplete, ClientIoError, daemonVars
<1>3. QED BY <1>1, <1>2 DEF Next, LoseLink, Terminated, vars, daemonVars

(* PushBatchComplete is only on its way after the push was complete. *)
LEMMA AnswersOKStep ==
    ASSUME IInv, [Next]_vars
    PROVE  AnswersOK'
<1>1. TypeOK /\ AnswersOK
  BY DEF IInv
<1>2. down \in Seq(Response) /\ Len(down) \in Nat
  BY <1>1 DEF TypeOK
<1>3. CASE UNCHANGED down /\ (cpc' = "ok" => cpc = "ok")
  BY <1>1, <1>3, CompleteStays DEF AnswersOK
<1>4. CASE (RecvReady \/ RecvComplete)
  <2>1. down # << >> /\ down' = Tail(down) /\ dpc' = dpc
    BY <1>4 DEF RecvReady, RecvComplete, daemonVars
  <2>2. /\ Len(down') = Len(down) - 1 /\ 1 \in 1 .. Len(down) /\ Head(down) = down[1]
        /\ \A k \in 1 .. Len(down') : down'[k] = down[k + 1] /\ k + 1 \in 1 .. Len(down)
    BY <1>2, <2>1
  <2>3. \A k \in 1 .. Len(down') : down'[k].type = "complete" => dpc' = "complete"
    BY <1>1, <2>1, <2>2 DEF AnswersOK
  <2>4. cpc' = "ok" => Head(down).type = "complete"
    BY <1>4 DEF RecvReady, RecvComplete, ClientGoto, ClientEnd
  <2>5. QED BY <1>1, <2>1, <2>2, <2>3, <2>4 DEF AnswersOK
<1>5. CASE LoseLink
  <2>1. /\ dpc' = dpc /\ cpc' = cpc /\ Len(down') \in 0 .. Len(down)
        /\ \A k \in 1 .. Len(down') : down'[k] = down[k]
    BY <1>1, <1>5, LoseLinkUp DEF LoseLink, clientVars, daemonVars
  <2>2. \A k \in 1 .. Len(down') : k \in 1 .. Len(down)
    BY <1>2, <2>1
  <2>3. QED BY <1>1, <2>1, <2>2 DEF AnswersOK
<1>6. CASE Daemon
  <2>1. cpc' = cpc
    BY <1>6 DEF Daemon, Resolve, StartEntry, RecvChunk, FinishEntry, ExpectEof, DaemonIoError,
           clientVars
  <2>2. ASSUME NEW r \in Response, Respond(r), r.type = "complete" => dpc' = "complete"
        PROVE  \A k \in 1 .. Len(down') : down'[k].type = "complete" => dpc' = "complete"
    <3>1. CASE down' = Append(down, r)
      <4>1. /\ Len(down') = Len(down) + 1 /\ down'[Len(down) + 1] = r
            /\ \A k \in 1 .. Len(down) : down'[k] = down[k]
        BY <1>2, <3>1, AppendProperties
      <4>2. ASSUME NEW k \in 1 .. Len(down'), down'[k].type = "complete"
            PROVE  dpc' = "complete"
        <5>1. CASE k = Len(down) + 1
          BY <2>2, <4>1, <4>2, <5>1
        <5>2. CASE k \in 1 .. Len(down)
          BY <1>1, <4>1, <4>2, <5>2, CompleteStays DEF AnswersOK
        <5>3. QED BY <1>2, <4>1, <5>1, <5>2
      <4>3. QED BY <4>2
    <3>2. CASE down' = down
      BY <1>1, <3>2, CompleteStays DEF AnswersOK
    <3>3. QED BY <2>2, <3>1, <3>2 DEF Respond
  <2>3. ASSUME DaemonFail
        PROVE  \A k \in 1 .. Len(down') : down'[k].type = "complete" => dpc' = "complete"
    <3>1. [type |-> "error"] \in Response
      BY DEF Response
    <3>2. QED BY <2>2, <2>3, <3>1 DEF DaemonFail
  <2>4. \A k \in 1 .. Len(down') : down'[k].type = "complete" => dpc' = "complete"
    <3>1. CASE UNCHANGED down
      BY <1>1, <3>1, CompleteStays DEF AnswersOK
    <3>2. CASE Respond([type |-> "ready"])
      <4>1. [type |-> "ready"] \in Response
        BY DEF Response
      <4>2. QED BY <2>2, <3>2, <4>1
    <3>3. CASE dpc' = "complete"
      BY <3>3
    <3>4. QED BY <1>6, <2>3, <3>1, <3>2, <3>3
             DEF Daemon, Resolve, StartEntry, RecvChunk, FinishEntry, ExpectEof, DaemonIoError
  <2>5. QED BY <1>1, <2>1, <2>4, CompleteStays DEF AnswersOK
<1>7. CASE SkipDir \/ OpenFile \/ SendChunk \/ FinishFile \/ SendEof \/ ClientIoError
  BY <1>3, <1>7 DEF SkipDir, OpenFile, SendChunk, FinishFile, SendEof, ClientIoError, ClientEnd,
         wireVars
<1>8. QED
  BY <1>3, <1>4, <1>5, <1>6, <1>7
     DEF Next, Client, Terminated, vars, clientVars, wireVars
-----------------------------------------------------------------------------
(* The theorems.                                                            *)

(* The inductive invariant holds of every behaviour. *)
THEOREM Invariance == Spec => []IInv
<1>1. IInv /\ [Next]_vars => IInv'
  BY TypeStep, ClientAtStep, EndToEndStep, DiskOKStep, DaemonAtStep, AnswersOKStep DEF IInv
<1>2. QED BY <1>1, InitIInv, PTL DEF Spec

(* The places of two bytes in the stream are the same only if the bytes     *)
(* are: announced sizes cut the stream in one way.                          *)
LEMMA PlacesAreUnique ==
    ASSUME NEW f \in Entry, NEW p \in 1 .. Size[f], NEW i \in Entry, NEW k \in 1 .. Size[i],
           Base[f] + p = Base[i] + k
    PROVE  f = i /\ p = k
<1>1. /\ f \in Nat /\ i \in Nat /\ Size[f] \in Nat /\ Size[i] \in Nat
      /\ Base[f] \in Nat /\ Base[i] \in Nat
  BY ManifestAssumption, BaseSums DEF Entry
<1>2. (f < i => Base[f] + Size[f] <= Base[i]) /\ (i < f => Base[i] + Size[i] <= Base[f])
  <2>1. f \in 1 .. N + 1 /\ i \in 1 .. N + 1
    BY ManifestAssumption DEF Entry
  <2>2. \A m, j \in 1 .. N + 1 : m < j => Base[m] + Size[m] <= Base[j]
    BY BaseSums
  <2>3. QED BY <2>1, <2>2
<1>3. QED BY <1>1, <1>2

(* When the daemon has taken the EOF frame every file is as announced. *)
LEMMA CompleteIsAll ==
    ASSUME IInv, dpc = "complete", NEW i \in Entry, Kind[i] = "file"
    PROVE  disk[i] = Announced(i)
<1>1. TypeOK /\ DaemonAt /\ DiskOK
  BY DEF IInv
<1>2. N \in Nat /\ Size[i] \in Nat /\ cidx = N + 1 /\ didx = N + 1
  <2>1. N \in Nat /\ Size[i] \in Nat
    BY ManifestAssumption DEF Entry
  <2>2. QED BY <1>1, <2>1 DEF DaemonAt
<1>3. Len(disk[i]) = Size[i]
  <2>1. i < didx
    BY <1>2 DEF Entry
  <2>2. QED BY <1>1, <2>1 DEF DaemonAt
<1>4. ASSUME NEW k \in 1 .. Size[i]
      PROVE  disk[i][k] = <<i, k>>
  <2>1. PICK f \in Entry, p \in Nat \ {0} : disk[i][k] = <<f, p>>
    <3>1. disk[i][k] \in SourceByte
      BY <1>1, <1>3 DEF TypeOK
    <3>2. QED BY <3>1 DEF SourceByte
  <2>2. WasRead(f, p) /\ Base[f] + p = Base[i] + k
    BY <1>1, <1>3, <2>1 DEF DiskOK
  <2>3. p \in 1 .. Size[f]
    BY <1>2, <2>2, ManifestAssumption DEF WasRead, Entry
  <2>4. f = i /\ p = k
    BY <2>2, <2>3, PlacesAreUnique
  <2>5. QED BY <2>1, <2>4
<1>5. disk[i] \in [1 .. Size[i] -> SourceByte]
  BY <1>1, <1>3 DEF TypeOK
<1>6. QED BY <1>4, <1>5 DEF Announced

(* handle_push_batch: the daemon's place in the stream is its place in the  *)
(* manifest at every moment, and PushBatchComplete is only sent when every  *)
(* file on the device is the local file, for any manifest, any chunking of  *)
(* the files and any failure of either side or of the connection.           *)
THEOREM PositionsAlwaysAgree == Spec => []PositionsAgree
<1>1. IInv => PositionsAgree
  <2> SUFFICES ASSUME IInv PROVE PositionsAgree
    OBVIOUS
  <2>1. TypeOK /\ DaemonAt
    BY DEF IInv
  <2>2. dpc = "write" => written + remaining = Base[didx] + Size[didx]
    BY <2>1 DEF DaemonAt
  <2>3. dpc \in {"entry", "complete"} => written = Base[didx]
    BY <2>1 DEF DaemonAt
  <2>4. ASSUME dpc \notin DaemonEnds, didx \in Entry
        PROVE  Len(disk[didx]) = IF dpc = "write" THEN Size[didx] - remaining ELSE 0
    <3>1. Len(disk[didx]) \in Nat /\ Size[didx] \in Nat /\ remaining \in Nat /\ didx \in Nat
      BY <2>1, <2>4, DiskType, ManifestAssumption DEF TypeOK, Entry
    <3>2. CASE dpc = "write"
      BY <2>1, <3>1, <3>2 DEF DaemonAt
    <3>3. CASE dpc # "write"
      <4>1. dpc \in {"resolve", "entry"}
        BY <2>1, <2>4, <3>3 DEF TypeOK
      <4>2. disk[didx] = << >>
        BY <2>1, <2>4, <3>1, <4>1 DEF DaemonAt
      <4>3. QED BY <3>3, <4>2
    <3>4. QED BY <3>2, <3>3
  <2>5. QED BY <2>1, <2>2, <2>3, <2>4, CompleteIsAll DEF PositionsAgree
<1>2. QED BY <1>1, Invariance, PTL

(* The start of a push is the start of a delivery. *)
LEMMA DeliveryInit == Init => Promise!Init
BY DEF Init, Promise!Init, Promise!Entry, Entry, ClientEnds

(* A step of a push is a step of the delivery it promises, or none. *)
LEMMA DeliveryStep ==
    ASSUME IInv, IInv', [Next]_vars
    PROVE  [Promise!Next]_(Promise!vars)
<1> DEFINE out == IF cpc = "ok" THEN "ok" ELSE IF cpc \in ClientEnds THEN "failed" ELSE "running"
<1>1. TypeOK /\ DaemonAt /\ AnswersOK /\ DaemonAt'
  BY DEF IInv
<1>2. CASE UNCHANGED <<cpc, disk>>
  BY <1>2 DEF Promise!vars
<1>3. ASSUME UNCHANGED disk, out = "running", out' \in {"running", "failed"}
      PROVE  [Promise!Next]_(Promise!vars)
  BY <1>3 DEF Promise!vars, Promise!Next, Promise!Fail
<1>4. CASE Client
  <2>1. UNCHANGED disk
    BY <1>4 DEF Client, RecvReady, SkipDir, OpenFile, SendChunk, FinishFile, SendEof,
           RecvComplete, ClientIoError, daemonVars
  <2>2. out = "running"
    BY <1>4 DEF Client, RecvReady, SkipDir, OpenFile, SendChunk, FinishFile, SendEof,
           RecvComplete, ClientIoError, ClientEnds
  <2>3. CASE cpc' # "ok"
    BY <1>3, <2>1, <2>2, <2>3
  <2>4. CASE cpc' = "ok"
    <3>1. RecvComplete
      BY <1>4, <2>2, <2>4 DEF Client, RecvReady, SkipDir, OpenFile, SendChunk, FinishFile, SendEof,
           ClientIoError, ClientGoto, ClientEnd
    <3>2. Head(down).type = "complete" /\ down # << >>
      BY <2>4, <3>1 DEF RecvComplete, ClientEnd
    <3>3. dpc = "complete"
      <4>1. 1 \in 1 .. Len(down) /\ Head(down) = down[1]
        BY <1>1, <3>2 DEF TypeOK
      <4>2. QED BY <1>1, <3>2, <4>1 DEF AnswersOK
    <3>4. \A i \in Entry : Kind[i] = "file" => disk[i] = Announced(i)
      BY <3>3, CompleteIsAll
    <3>5. QED BY <2>1, <2>2, <2>4, <3>4 DEF Promise!Next, Promise!Succeed, Promise!Entry, Promise!Announced, Entry, Announced
  <2>5. QED BY <2>3, <2>4
<1>5. CASE Daemon
  <2>1. UNCHANGED cpc
    BY <1>5 DEF Daemon, Resolve, StartEntry, RecvChunk, FinishEntry, ExpectEof, DaemonIoError,
           clientVars
  <2>2. CASE UNCHANGED disk
    BY <1>2, <2>1, <2>2
  <2>3. ASSUME didx \in Entry, Kind[didx] = "file", dpc # "complete",
               disk' = [disk EXCEPT ![didx] = disk'[didx]],
               disk'[didx] = << >> \/ Promise!Extends(disk'[didx], disk[didx])
        PROVE  [Promise!Next]_(Promise!vars)
    <3>1. out # "ok" /\ out' = out
      BY <1>1, <2>1, <2>3 DEF AnswersOK
    <3>2. Len(disk'[didx]) <= Size[didx]
      BY <1>1, <2>3 DEF DaemonAt
    <3>3. QED BY <2>3, <3>1, <3>2 DEF Promise!Next, Promise!Write, Promise!Entry, Entry
  <2>4. CASE StartEntry
    <3>1. didx \in Entry /\ dpc = "entry"
      BY <1>1, <2>4, ManifestAssumption DEF StartEntry, TypeOK, Entry
    <3>2. CASE Kind[didx] = "file" /\ disk' = [disk EXCEPT ![didx] = << >>]
      <4>1. disk'[didx] = << >>
        BY <1>1, <3>1, <3>2 DEF TypeOK
      <4>2. QED BY <2>3, <3>1, <3>2, <4>1
    <3>3. QED BY <2>2, <2>4, <3>2 DEF StartEntry, DaemonFail
  <2>5. CASE RecvChunk /\ dpc' # "failed"
    <3>1. PICK m \in Frame :
            /\ m.type = "data" /\ didx \in Entry
            /\ \A i \in Entry : i # didx => disk'[i] = disk[i]
            /\ Len(disk'[didx]) = Len(disk[didx]) + m.len
            /\ \A k \in 1 .. Len(disk[didx]) : disk'[didx][k] = disk[didx][k]
      BY <1>1, <2>5, ChunkWritten
    <3>2. dpc = "write" /\ Kind[didx] = "file"
      BY <1>1, <2>5 DEF RecvChunk, DaemonAt
    <3>3. Promise!Extends(disk'[didx], disk[didx])
      <4>1. m.len \in Nat /\ Len(disk[didx]) \in Nat
        BY <1>1, <3>1, FrameType, DiskType
      <4>2. Len(disk[didx]) <= Len(disk'[didx])
        BY <3>1, <4>1
      <4>3. QED BY <3>1, <4>2 DEF Promise!Extends
    <3>4. disk' = [disk EXCEPT ![didx] = disk'[didx]]
      <4>1. disk \in [Entry -> Seq(SourceByte)] /\ disk' \in [Entry -> Seq(SourceByte)]
        BY DEF IInv, TypeOK
      <4>2. QED BY <3>1, <4>1
    <3>5. QED BY <2>3, <3>1, <3>2, <3>3, <3>4
  <2>6. QED BY <1>5, <2>2, <2>4, <2>5
           DEF Daemon, Resolve, RecvChunk, FinishEntry, ExpectEof, DaemonIoError, DaemonFail
<1>6. QED BY <1>2, <1>4, <1>5
         DEF Next, LoseLink, Terminated, vars, clientVars, daemonVars

(* A push keeps the promise of Delivery: no file on the device ever         *)
(* outgrows its announced size, success is only reported when every file    *)
(* is the local one, and after that nothing touches them.                   *)
THEOREM PushDelivers == Spec => Delivers
<1>1. Init => Promise!Init
  BY DeliveryInit
<1>2. IInv /\ IInv' /\ [Next]_vars => [Promise!Next]_(Promise!vars)
  BY DeliveryStep
<1>3. QED BY <1>1, <1>2, Invariance, PTL DEF Spec, Delivers, Promise!Spec
-----------------------------------------------------------------------------
(* Waiting, and coming to an end.                                           *)

(* The daemon is in read_file_stream_chunk_into or expect_file_stream_eof. *)
DaemonReads == (dpc = "write" /\ remaining > 0) \/ (dpc = "entry" /\ didx = N + 1)

(* While the connection holds, a side that waits for the other will be      *)
(* served: a client that waits for the first answer has a daemon that has   *)
(* yet to give it, and one that waits for the last has left a frame the     *)
(* daemon can read, whatever was in the BufWriter; a daemon that waits for  *)
(* a frame has a client on its way to the next one, with an answer to read, *)
(* or gone with nothing left behind.                                        *)
NoMutualWait ==
    linkUp =>
      /\ cpc = "await_ready" /\ down = << >> => dpc = "resolve"
      /\ cpc = "await_complete" => dpc \in DaemonEnds \/ flushed > 0
      /\ DaemonReads /\ flushed = 0 =>
           \/ cpc \in {"next_file", "stream"}
           \/ cpc = "await_ready" /\ down # << >>
           \/ cpc \in ClientEnds /\ up = << >>

(* Its inductive form: the last frame a waiting client has sent is EOF, and *)
(* that one ends the daemon's work whenever it is read.                     *)
WaitOK ==
    /\ linkUp /\ cpc = "await_ready" => dpc = "resolve" \/ down # << >>
    /\ linkUp /\ cpc = "await_complete" /\ dpc \notin DaemonEnds =>
          up # << >> /\ flushed = Len(up) /\ up[Len(up)].type = "eof"
    /\ cpc \in ClientEnds => flushed = Len(up)

(* What has been answered is not taken back while the client still waits. *)
LEMMA RespondKeeps ==
    ASSUME TypeOK, NEW r, Respond(r), linkUp
    PROVE  down' # << >>
BY DEF TypeOK, Respond

(* A frame taken off the front leaves the last one, unless that was it. *)
LEMMA TailKeepsLast ==
    ASSUME TypeOK, flushed > 0, up' = Tail(up), flushed' = flushed - 1, flushed = Len(up)
    PROVE  /\ flushed' = Len(up')
           /\ Len(up) = 1 => Head(up) = up[Len(up)]
           /\ Len(up) # 1 => up' # << >> /\ up'[Len(up')] = up[Len(up)]
<1>1. up \in Seq(Frame) /\ up # << >> /\ Len(up) \in Nat /\ Len(up) > 0
  BY DEF TypeOK
<1>2. Len(up') = Len(up) - 1 /\ \A k \in 1 .. Len(up') : up'[k] = up[k + 1]
  BY <1>1
<1>3. CASE Len(up) = 1
  BY <1>1, <1>2, <1>3
<1>4. CASE Len(up) # 1
  <2>1. Len(up') \in 1 .. Len(up') /\ Len(up') + 1 = Len(up)
    BY <1>1, <1>2, <1>4
  <2> QED
    BY <1>2, <1>4, <2>1
<1> QED
  BY <1>3, <1>4

(* Steps of the client keep WaitOK. *)
LEMMA WaitClient ==
    ASSUME IInv, WaitOK, Client
    PROVE  WaitOK'
<1>1. TypeOK
  BY DEF IInv
<1>2. ASSUME NEW o \in ClientEnds, ClientEnd(o)
      PROVE  WaitOK'
  <2>1. Len(up') = flushed /\ flushed' = flushed /\ cpc' = o
    BY <1>1, <1>2, ClientEndUp DEF ClientEnd
  <2> QED
    BY <2>1 DEF WaitOK, ClientEnds
<1>3. CASE cpc' \in {"next_file", "stream"}
  BY <1>3 DEF WaitOK, ClientEnds
<1>4. CASE SendEof /\ sent = TotalBytes
  <2>1. /\ cpc' = "await_complete" /\ up' = Append(up, [type |-> "eof"])
        /\ flushed' = Len(up) + 1
    BY <1>4 DEF SendEof
  <2>2. up' # << >> /\ Len(up') = Len(up) + 1 /\ up'[Len(up')] = [type |-> "eof"]
    BY <1>1, <2>1, AppendProperties DEF TypeOK
  <2> QED
    BY <2>1, <2>2 DEF WaitOK, ClientEnds
<1> QED
  BY <1>2, <1>3, <1>4
     DEF Client, RecvReady, SkipDir, OpenFile, SendChunk, FinishFile, SendEof, RecvComplete,
         ClientIoError, ClientGoto, ClientEnds

(* Steps of the daemon keep WaitOK: it goes on after a frame only if that   *)
(* was data, and the EOF frame is still to come.                            *)
LEMMA WaitDaemon ==
    ASSUME IInv, WaitOK, Daemon
    PROVE  WaitOK'
<1>1. TypeOK
  BY DEF IInv
<1>2. UNCHANGED <<cpc, linkUp>>
  BY DEF Daemon, Resolve, StartEntry, RecvChunk, FinishEntry, ExpectEof, DaemonIoError, clientVars
<1>3. \/ UNCHANGED <<up, flushed>>
      \/ flushed > 0 /\ up' = Tail(up) /\ flushed' = flushed - 1
  BY DEF Daemon, Resolve, StartEntry, RecvChunk, FinishEntry, ExpectEof, DaemonIoError
<1>4. cpc' \in ClientEnds => flushed' = Len(up')
  BY <1>1, <1>2, <1>3, TailKeepsLast DEF WaitOK
<1>5. linkUp' /\ cpc' = "await_ready" => dpc' = "resolve" \/ down' # << >>
  <2>1. SUFFICES ASSUME linkUp, cpc = "await_ready", UNCHANGED down
                 PROVE  dpc' = "resolve" \/ down' # << >>
    BY <1>1, <1>2, RespondKeeps
       DEF Daemon, Resolve, StartEntry, RecvChunk, FinishEntry, ExpectEof, DaemonIoError, DaemonFail
  <2>2. dpc # "resolve" => down # << >>
    BY <2>1 DEF WaitOK
  <2>3. CASE dpc = "resolve"
    <3>1. Resolve \/ DaemonIoError
      BY <2>3 DEF Daemon, StartEntry, RecvChunk, FinishEntry, ExpectEof
    <3>2. \E r : Respond(r)
      BY <3>1 DEF Resolve, DaemonIoError, DaemonFail
    <3> QED
      BY <1>1, <2>1, <3>2, RespondKeeps
  <2> QED
    BY <2>1, <2>2, <2>3
<1>6. ASSUME linkUp, cpc = "await_complete", dpc' \notin DaemonEnds
      PROVE  up' # << >> /\ flushed' = Len(up') /\ up'[Len(up')].type = "eof"
  <2>1. dpc \notin DaemonEnds
    BY DEF Daemon, Resolve, StartEntry, RecvChunk, FinishEntry, ExpectEof, DaemonIoError, DaemonEnds
  <2>2. up # << >> /\ flushed = Len(up) /\ up[Len(up)].type = "eof"
    BY <1>6, <2>1 DEF WaitOK
  <2>3. CASE UNCHANGED <<up, flushed>>
    BY <2>2, <2>3
  <2>4. CASE flushed > 0 /\ up' = Tail(up) /\ flushed' = flushed - 1
    <3>1. Head(up).type = "data" \/ UNCHANGED <<up, flushed>>
      BY <1>6 DEF Daemon, Resolve, StartEntry, RecvChunk, FinishEntry, ExpectEof, DaemonIoError,
             DaemonFail, DaemonEnds
    <3>2. CASE Head(up).type = "data"
      BY <1>1, <2>2, <2>4, <3>2, TailKeepsLast
    <3> QED
      BY <2>2, <3>1, <3>2
  <2> QED
    BY <1>3, <2>3, <2>4
<1> QED
  BY <1>2, <1>4, <1>5, <1>6 DEF WaitOK

(* No side of a push ever waits in vain while the connection holds.         *)
THEOREM NobodyWaitsInVain == Spec => []NoMutualWait
<1>1. Init => WaitOK
  BY DEF Init, WaitOK, ClientEnds
<1>2. ASSUME IInv, WaitOK, [Next]_vars
      PROVE  WaitOK'
  <2>1. CASE LoseLink
    <3>1. PICK k \in 0 .. flushed : up' = SubSeq(up, 1, k) /\ flushed' = k
      BY <2>1 DEF LoseLink
    <3>2. flushed' = Len(up')
      BY <1>2, <3>1 DEF IInv, TypeOK
    <3> QED
      BY <2>1, <3>2 DEF LoseLink, WaitOK
  <2>2. CASE UNCHANGED vars
    BY <1>2, <2>2 DEF vars, clientVars, wireVars, daemonVars, WaitOK
  <2> QED
    BY <1>2, <2>1, <2>2, WaitClient, WaitDaemon DEF Next, Terminated
<1>3. ASSUME IInv, WaitOK
      PROVE  NoMutualWait
  <2>1. TypeOK
    BY <1>3 DEF IInv
  <2>2. flushed \in Nat /\ Len(up) \in Nat /\ (up # << >> => Len(up) > 0) /\ (Len(up) = 0 => up = << >>)
    BY <2>1 DEF TypeOK
  <2> QED
    BY <1>3, <2>1, <2>2 DEF NoMutualWait, WaitOK, TypeOK, DaemonReads, DaemonEnds, ClientEnds
<1> QED
  BY <1>1, <1>2, <1>3, Invariance, PTL DEF Spec

(* How much is left to do, for the client and for the daemon: the stage,    *)
(* the entries, whether the file of this entry is still to be opened, and   *)
(* its bytes.                                                               *)
ClientLeft ==
    <<CASE cpc = "await_ready" -> 3 [] cpc \in {"next_file", "stream"} -> 2
        [] cpc = "await_complete" -> 1 [] OTHER -> 0,
      N + 1 - cidx,
      IF cpc = "next_file" THEN 1 ELSE 0,
      IF cpc = "stream" THEN real - fileBytes ELSE 0>>

DaemonLeft ==
    <<CASE dpc = "resolve" -> 2 [] dpc \in {"entry", "write"} -> 1 [] OTHER -> 0,
      N + 1 - didx,
      IF dpc = "entry" THEN 1 ELSE 0,
      IF dpc = "write" THEN remaining ELSE 0>>

(* The lexicographic order on such measures, which is well-founded. *)
Less(x, y) ==
    \/ x[1] < y[1]
    \/ x[1] = y[1] /\ x[2] < y[2]
    \/ x[1] = y[1] /\ x[2] = y[2] /\ x[3] < y[3]
    \/ x[1] = y[1] /\ x[2] = y[2] /\ x[3] = y[3] /\ x[4] < y[4]

MeasuresOK == ClientLeft \in Nat \X Nat \X Nat \X Nat /\ DaemonLeft \in Nat \X Nat \X Nat \X Nat

(* Every step but the loss of the connection leaves one side less to do and *)
(* the other no more.                                                       *)
StepAdvances ==
    /\ MeasuresOK
    /\ \/ Less(ClientLeft', ClientLeft) /\ UNCHANGED <<DaemonLeft, linkUp>>
       \/ Less(DaemonLeft', DaemonLeft) /\ UNCHANGED <<ClientLeft, linkUp>>
       \/ linkUp /\ ~linkUp' /\ UNCHANGED <<ClientLeft, DaemonLeft>>

(* What is left is measured in natural numbers. *)
LEMMA MeasuresType ==
    ASSUME IInv
    PROVE  MeasuresOK
<1>1. TypeOK /\ ClientAt /\ N \in Nat
  BY ManifestAssumption DEF IInv
<1>2. N + 1 - cidx \in Nat /\ N + 1 - didx \in Nat /\ remaining \in Nat
  BY <1>1 DEF TypeOK
<1>3. cpc = "stream" => real - fileBytes \in Nat
  BY <1>1 DEF TypeOK, ClientAt
<1>4. ClientLeft \in Nat \X Nat \X Nat \X Nat
  BY <1>2, <1>3 DEF ClientLeft
<1>5. DaemonLeft \in Nat \X Nat \X Nat \X Nat
  BY <1>2 DEF DaemonLeft
<1> QED
  BY <1>4, <1>5 DEF MeasuresOK

(* A step of the client leaves it less to do. *)
LEMMA ClientAdvances ==
    ASSUME IInv, Client
    PROVE  Less(ClientLeft', ClientLeft) /\ UNCHANGED <<daemonVars, linkUp>>
<1>1. TypeOK /\ ClientAt /\ N \in Nat /\ cidx \in Nat /\ real \in Nat /\ fileBytes \in Nat
  BY ManifestAssumption, BoundAssumption DEF IInv, TypeOK
<1>2. UNCHANGED <<daemonVars, linkUp>>
  BY DEF Client, RecvReady, SkipDir, OpenFile, SendChunk, FinishFile, SendEof, RecvComplete,
         ClientIoError, wireVars
<1>3. ASSUME cpc \notin ClientEnds, cpc' \in ClientEnds
      PROVE  Less(ClientLeft', ClientLeft)
  BY <1>1, <1>3 DEF Less, ClientLeft, ClientEnds, TypeOK
<1>4. cpc \notin ClientEnds
  BY DEF Client, RecvReady, SkipDir, OpenFile, SendChunk, FinishFile, SendEof, RecvComplete,
         ClientIoError, ClientEnds
<1>5. CASE RecvReady
  BY <1>1, <1>3, <1>4, <1>5 DEF RecvReady, ClientGoto, ClientEnd, ClientEnds, Less, ClientLeft
<1>6. CASE SkipDir
  BY <1>1, <1>2, <1>6 DEF SkipDir, Less, ClientLeft
<1>7. CASE OpenFile
  BY <1>1, <1>3, <1>4, <1>7 DEF OpenFile, ClientEnd, ClientEnds, Less, ClientLeft
<1>8. CASE SendChunk
  <2>1. PICK n \in 1 .. MaxChunk : fileBytes' = fileBytes + n
    BY <1>8 DEF SendChunk
  <2>2. n \in Nat /\ n > 0 /\ cpc = "stream" /\ UNCHANGED <<cpc, cidx, real>>
    BY <1>8, BoundAssumption DEF SendChunk
  <2>3. real - (fileBytes + n) < real - fileBytes
    BY <1>1, <2>2
  <2> QED
    BY <1>2, <2>1, <2>2, <2>3 DEF Less, ClientLeft
<1>9. CASE FinishFile
  BY <1>1, <1>3, <1>4, <1>9 DEF FinishFile, ClientEnd, ClientEnds, Less, ClientLeft
<1>10. CASE SendEof
  BY <1>1, <1>3, <1>4, <1>10 DEF SendEof, ClientEnd, ClientEnds, Less, ClientLeft
<1>11. CASE RecvComplete
  BY <1>3, <1>4, <1>11 DEF RecvComplete, ClientEnd, ClientEnds
<1>12. CASE ClientIoError
  BY <1>3, <1>4, <1>12 DEF ClientIoError, ClientEnd, ClientEnds
<1> QED
  BY <1>2, <1>5, <1>6, <1>7, <1>8, <1>9, <1>10, <1>11, <1>12 DEF Client

(* A step of the daemon leaves it less to do. *)
LEMMA DaemonAdvances ==
    ASSUME IInv, Daemon
    PROVE  Less(DaemonLeft', DaemonLeft) /\ UNCHANGED <<clientVars, linkUp>>
<1>1. TypeOK /\ N \in Nat /\ didx \in Nat /\ remaining \in Nat
  BY ManifestAssumption DEF IInv, TypeOK
<1>2. UNCHANGED <<clientVars, linkUp>>
  BY DEF Daemon, Resolve, StartEntry, RecvChunk, FinishEntry, ExpectEof, DaemonIoError
<1>3. dpc \notin DaemonEnds
  BY DEF Daemon, Resolve, StartEntry, RecvChunk, FinishEntry, ExpectEof, DaemonIoError, DaemonEnds
<1>4. ASSUME dpc' \in DaemonEnds
      PROVE  Less(DaemonLeft', DaemonLeft)
  BY <1>1, <1>3, <1>4 DEF Less, DaemonLeft, DaemonEnds, TypeOK
<1>5. CASE DaemonFail
  BY <1>2, <1>4, <1>5 DEF DaemonFail, DaemonEnds
<1>6. CASE Resolve
  BY <1>1, <1>5, <1>6 DEF Resolve, Less, DaemonLeft
<1>7. CASE StartEntry
  BY <1>1, <1>5, <1>7 DEF StartEntry, Less, DaemonLeft
<1>8. CASE RecvChunk /\ ~DaemonFail
  <2>1. /\ dpc = "write" /\ UNCHANGED <<dpc, didx>> /\ Head(up).type = "data" /\ flushed > 0
        /\ remaining' = remaining - Head(up).len
    BY <1>8 DEF RecvChunk
  <2>2. Head(up) \in Frame
    BY <1>1, <2>1 DEF TypeOK
  <2>3. Head(up).len \in Nat \ {0}
    BY <2>1, <2>2, FrameType
  <2>4. remaining' < remaining
    BY <1>1, <2>1, <2>3
  <2> QED
    BY <1>2, <2>1, <2>4 DEF Less, DaemonLeft
<1>9. CASE FinishEntry
  BY <1>1, <1>5, <1>9 DEF FinishEntry, Less, DaemonLeft
<1>10. CASE ExpectEof
  BY <1>4, <1>5, <1>10 DEF ExpectEof, DaemonEnds
<1>11. CASE DaemonIoError
  BY <1>5, <1>11 DEF DaemonIoError
<1> QED
  BY <1>2, <1>5, <1>6, <1>7, <1>8, <1>9, <1>10, <1>11 DEF Daemon

(* No step of a push can be repeated for ever: each one leaves less to do,  *)
(* for any manifest and any length of the local files.  With                *)
(* NobodyWaitsInVain this is what BothEnd rests on.                         *)
THEOREM EveryStepAdvances == Spec => [][StepAdvances]_vars
<1>1. ASSUME IInv, [Next]_vars
      PROVE  [StepAdvances]_vars
  <2>1. MeasuresOK
    BY <1>1, MeasuresType
  <2>2. CASE Client
    <3>1. Less(ClientLeft', ClientLeft) /\ UNCHANGED <<daemonVars, linkUp>>
      BY <1>1, <2>2, ClientAdvances
    <3>2. UNCHANGED DaemonLeft
      BY <3>1 DEF daemonVars, DaemonLeft
    <3> QED
      BY <2>1, <3>1, <3>2 DEF StepAdvances
  <2>3. CASE Daemon
    <3>1. Less(DaemonLeft', DaemonLeft) /\ UNCHANGED <<clientVars, linkUp>>
      BY <1>1, <2>3, DaemonAdvances
    <3>2. UNCHANGED ClientLeft
      BY <3>1 DEF clientVars, ClientLeft
    <3> QED
      BY <2>1, <3>1, <3>2 DEF StepAdvances
  <2>4. CASE LoseLink
    <3>1. linkUp /\ ~linkUp' /\ UNCHANGED <<clientVars, daemonVars>>
      BY <2>4 DEF LoseLink
    <3>2. UNCHANGED <<ClientLeft, DaemonLeft>>
      BY <3>1 DEF clientVars, daemonVars, ClientLeft, DaemonLeft
    <3> QED
      BY <2>1, <3>1, <3>2 DEF StepAdvances
  <2>5. CASE UNCHANGED vars
    BY <2>5
  <2> QED
    BY <1>1, <2>2, <2>3, <2>4, <2>5 DEF Next, Terminated
<1> QED
  BY <1>1, Invariance, PTL DEF Spec
=============================================================================
