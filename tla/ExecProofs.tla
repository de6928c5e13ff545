----------------------------- MODULE ExecProofs -----------------------------
(***************************************************************************)
(* Proofs about Exec, for every amount of output and every capacity of the *)
(* pipes, the connection, the chunks and the frames.                       *)
(***************************************************************************)
EXTENDS Exec, SequenceTheorems, TLAPS

(* The units of the connection, from those the client has of the frame it   *)
(* is reading to those the handler has still to write.                      *)
Stream == (rx \o wire) \o pending

IsHead(u)     == u.unit = "header"
IsByte(u, ch) == u.unit = "byte" /\ u.byte[1] = ch

(* Whole frames one after the other: a header, and then len bytes of its    *)
(* kind, numbered without gaps.                                             *)
FrameAt(s, p) ==
    /\ p + s[p].len <= Len(s)
    /\ \A q \in p + 1 .. p + s[p].len :
         IsByte(s[q], s[p].kind) /\ s[q].byte[2] = s[p + 1].byte[2] + (q - (p + 1))
    /\ p + s[p].len + 1 <= Len(s) => IsHead(s[p + s[p].len + 1])

FramesOK(s) ==
    /\ s # << >> => IsHead(s[1])
    /\ \A p \in DOMAIN s : IsHead(s[p]) => FrameAt(s, p)

(* A response is the last frame. *)
ResponseLast(s) ==
    \A p \in DOMAIN s : IsHead(s[p]) /\ s[p].kind \in Response => p + s[p].len = Len(s)

(* The bytes of ch among s go on from the l-th without gaps ... *)
InOrder(s, l, ch) ==
    /\ \A q \in DOMAIN s : IsByte(s[q], ch) =>
         /\ l < s[q].byte[2]
         /\ \/ s[q].byte[2] = l + 1
            \/ \E r \in DOMAIN s : r < q /\ IsByte(s[r], ch) /\ s[r].byte[2] = s[q].byte[2] - 1
    /\ \A q, r \in DOMAIN s :
         q < r /\ IsByte(s[q], ch) /\ IsByte(s[r], ch) => s[q].byte[2] < s[r].byte[2]

(* ... and up to the k-th. *)
UpTo(s, l, k, ch) ==
    /\ l <= k /\ \A q \in DOMAIN s : IsByte(s[q], ch) => s[q].byte[2] <= k
    /\ l < k => \E q \in DOMAIN s : IsByte(s[q], ch) /\ s[q].byte[2] = k

(* A result that the timeout caught does not pass for one. *)
ResultBroken(s) ==
    \A p \in DOMAIN s : IsHead(s[p]) /\ s[p].kind = "result" =>
        \E q \in DOMAIN s : p < q /\ q <= p + s[p].len /\ s[q].unit # "byte"
-----------------------------------------------------------------------------
Ended == DaemonEnds \cup {"answer"}

(* The command and the handler. *)
ChildOK ==
    /\ child = "none" => ~heirs /\ \A ch \in Channel : open[ch]
    /\ dpc = "spawn" => child = "none" /\ ~waited
    /\ Attached => child # "none"
    /\ waited \/ dpc \in Ended => child # "running"
    /\ dpc = "result" => waited /\ \A ch \in Channel : ~open[ch]
    /\ dpc \in {"spawn", "select"} \cup DaemonEnds => pending = << >>
    /\ mode = "collect" => dpc \notin {"write", "result"}
    /\ \A ch \in Channel : ~open[ch] => pipe[ch] = << >> /\ ~Writable
    /\ cut => fired
    /\ fired => dpc \in Ended
    /\ ~fired => Len(wire) <= SocketCap

(* Bytes the handler has read. *)
Read(ch) == produced[ch] - Len(pipe[ch])

(* Bytes are numbered without gaps: in the pipes, and in what is collected. *)
PipesOK ==
    \A ch \in Channel :
        /\ Len(pipe[ch]) <= produced[ch]
        /\ \A i \in DOMAIN pipe[ch] : pipe[ch][i] = <<ch, Read(ch) + i>>
        /\ mode = "stream" => output[ch] = << >>
        /\ mode = "collect" => Len(output[ch]) = Read(ch)
        /\ \A k \in DOMAIN output[ch] : output[ch][k] = <<ch, k>>

(* What the responses on the connection say of the handler and the command. *)
ResponsesOK(s) ==
    \A p \in DOMAIN s : IsHead(s[p]) /\ s[p].kind \in Response =>
        /\ dpc = "result" \/ dpc \in Ended
        /\ s[p].kind = "timeout" <=> fired
        /\ s[p].kind = "result" => waited /\ \A ch \in Channel : ~open[ch]
        /\ s[p].out = IF mode = "collect" /\ s[p].kind = "result" THEN output ELSE NoOutput

Reading == cpc = "read" /\ ~cut

(* What is on the connection, while the client reads it and nothing was cut. *)
Flow(s) ==
    /\ FramesOK(s) /\ ResponseLast(s) /\ ResponsesOK(s)
    /\ fired => \E p \in DOMAIN s : IsHead(s[p]) /\ s[p].kind = "timeout"
    /\ mode = "collect" =>
         /\ \A p \in DOMAIN s : IsHead(s[p]) => s[p].kind \in Response
         /\ emitted = NoOutput
    /\ \A ch \in Channel :
         /\ InOrder(s, Len(emitted[ch]), ch)
         /\ ~fired /\ mode = "stream" => UpTo(s, Len(emitted[ch]), Read(ch), ch)

StreamOK == Reading => Flow(Stream)

(* The client stops at the end of a frame. *)
RxOK == rx # << >> /\ IsHead(rx[1]) => Len(rx) <= rx[1].len + 1

BrokenOK == fired /\ cpc = "read" => ResultBroken(Stream)

EmittedOK == ~cut => \A ch \in Channel : \A k \in DOMAIN emitted[ch] : emitted[ch][k] = <<ch, k>>

(* The timeout is over: it cannot fire any more. *)
Settled == dpc \in Ended \/ (dpc = "result" /\ pending = << >>)

EndOK ==
    /\ cpc \in {"completed", "timeout", "failed", "disconnected"} => Settled
    /\ cpc = "bad_frame" => cut

(* The inductive invariant. *)
IInv == /\ TypeOK /\ ChildOK /\ PipesOK /\ RxOK /\ StreamOK /\ BrokenOK /\ EmittedOK /\ EndOK
        /\ CompletedIsAll /\ TimeoutIsReported
-----------------------------------------------------------------------------
(* Facts about sequences of units.                                          *)

(* Head and Tail: types, lengths and elements. *)
LEMMA Popped ==
    ASSUME NEW S, NEW s \in Seq(S), s # << >>
    PROVE  /\ Head(s) \in S /\ Head(s) = s[1] /\ Tail(s) \in Seq(S)
           /\ Len(s) \in Nat /\ Len(s) >= 1 /\ Len(Tail(s)) = Len(s) - 1
           /\ DOMAIN s = 1 .. Len(s) /\ DOMAIN Tail(s) = 1 .. Len(s) - 1
           /\ \A i \in 1 .. Len(s) - 1 : Tail(s)[i] = s[i + 1]
  BY HeadTailProperties, ElementOfSeq

(* Append: the type, the length and the elements. *)
LEMMA Pushed ==
    ASSUME NEW S, NEW s \in Seq(S), NEW e \in S
    PROVE  /\ Append(s, e) \in Seq(S) /\ Append(s, e) # << >>
           /\ Len(s) \in Nat /\ Len(Append(s, e)) = Len(s) + 1
           /\ DOMAIN s = 1 .. Len(s) /\ DOMAIN Append(s, e) = 1 .. Len(s) + 1
           /\ \A i \in 1 .. Len(s) : Append(s, e)[i] = s[i]
           /\ Append(s, e)[Len(s) + 1] = e
  BY AppendProperties, LenProperties

(* Concatenation: the type, the length and the elements. *)
LEMMA Joined ==
    ASSUME NEW S, NEW s \in Seq(S), NEW t \in Seq(S)
    PROVE  /\ s \o t \in Seq(S) /\ Len(s) \in Nat /\ Len(t) \in Nat
           /\ Len(s \o t) = Len(s) + Len(t)
           /\ DOMAIN s = 1 .. Len(s) /\ DOMAIN t = 1 .. Len(t)
           /\ DOMAIN (s \o t) = 1 .. Len(s) + Len(t)
           /\ \A i \in 1 .. Len(s) : (s \o t)[i] = s[i]
           /\ \A i \in 1 .. Len(t) : (s \o t)[Len(s) + i] = t[i]
<1>1. /\ s \o t \in Seq(S) /\ Len(s \o t) = Len(s) + Len(t)
      /\ \A i \in 1 .. Len(s) + Len(t) :
            (s \o t)[i] = IF i <= Len(s) THEN s[i] ELSE t[i - Len(s)]
  BY ConcatProperties
<1>2. Len(s) \in Nat /\ Len(t) \in Nat /\ DOMAIN s = 1 .. Len(s) /\ DOMAIN t = 1 .. Len(t)
  BY LenProperties
<1>3. DOMAIN (s \o t) = 1 .. Len(s) + Len(t)
  BY <1>1, LenProperties
<1>4. \A i \in 1 .. Len(s) : (s \o t)[i] = s[i]
  BY <1>1, <1>2
<1>5. ASSUME NEW i \in 1 .. Len(t) PROVE (s \o t)[Len(s) + i] = t[i]
  <2>1. /\ Len(s) + i \in 1 .. Len(s) + Len(t) /\ ~(Len(s) + i <= Len(s))
        /\ (Len(s) + i) - Len(s) = i
    BY <1>2
  <2>2. QED
    BY <1>1, <2>1
<1>6. QED
  BY <1>1, <1>2, <1>3, <1>4, <1>5

(* The same, with names for the lengths and the whole. *)
LEMMA JoinedBy ==
    ASSUME NEW S, NEW s \in Seq(S), NEW t \in Seq(S), NEW u, u = s \o t,
           NEW m, m = Len(s), NEW n, n = Len(t)
    PROVE  /\ u \in Seq(S) /\ Len(u) = m + n /\ DOMAIN u = 1 .. m + n
           /\ DOMAIN s = 1 .. m /\ DOMAIN t = 1 .. n
           /\ \A i \in 1 .. m : u[i] = s[i]
           /\ \A i \in 1 .. n : u[m + i] = t[i]
  BY Joined

(* The head of one queue becomes the last of the one before it. *)
LEMMA Moved ==
    ASSUME NEW S, NEW s \in Seq(S), NEW t \in Seq(S), t # << >>
    PROVE  Append(s, Head(t)) \o Tail(t) = s \o t
<1>1. PICK a : a = Append(s, Head(t))
  OBVIOUS
<1>2. PICK b : b = Tail(t)
  OBVIOUS
<1>3. PICK m \in Nat : m = Len(s)
  BY LenProperties
<1>4. PICK n \in Nat : n = Len(t) /\ n >= 1
  BY Popped
<1>5. /\ Head(t) \in S /\ Head(t) = t[1] /\ b \in Seq(S) /\ Len(b) = n - 1
      /\ \A i \in 1 .. n - 1 : b[i] = t[i + 1]
  BY <1>2, <1>4, Popped
<1>6. /\ a \in Seq(S) /\ Len(a) = m + 1 /\ a[m + 1] = t[1]
      /\ \A i \in 1 .. m : a[i] = s[i]
  BY <1>1, <1>3, <1>5, Pushed
<1>7. PICK c : c = a \o b
  OBVIOUS
<1>8. PICK d : d = s \o t
  OBVIOUS
<1>9. /\ c \in Seq(S) /\ Len(c) = (m + 1) + (n - 1)
      /\ \A i \in 1 .. m + 1 : c[i] = a[i]
      /\ \A i \in 1 .. n - 1 : c[(m + 1) + i] = b[i]
  <2>1. PICK k \in Nat : k = Len(a) /\ k = m + 1
    BY <1>6
  <2>2. PICK l \in Nat : l = Len(b) /\ l = n - 1
    BY <1>4, <1>5
  <2>3. a \in Seq(S) /\ b \in Seq(S)
    BY <1>5, <1>6
  <2>4. /\ c \in Seq(S) /\ Len(c) = k + l
        /\ \A i \in 1 .. k : c[i] = a[i]
        /\ \A i \in 1 .. l : c[k + i] = b[i]
    <3>1. k = Len(a) /\ l = Len(b)
      BY <2>1, <2>2
    <3>2. QED
      BY <1>7, <2>3, <3>1, JoinedBy
  <2>5. QED
    BY <2>1, <2>2, <2>4
<1>10. /\ d \in Seq(S) /\ Len(d) = m + n
       /\ \A i \in 1 .. m : d[i] = s[i]
       /\ \A i \in 1 .. n : d[m + i] = t[i]
  BY <1>3, <1>4, <1>8, Joined
<1>11. Len(c) = m + n
  BY <1>9
<1>12. ASSUME NEW i \in 1 .. m + n PROVE c[i] = d[i]
  <2>1. CASE i \in 1 .. m
    BY <1>6, <1>9, <1>10, <2>1
  <2>2. CASE i = m + 1
    BY <1>4, <1>6, <1>9, <1>10, <2>2
  <2>3. CASE i \in m + 2 .. m + n
    <3>1. PICK j \in 1 .. n - 1 : i = (m + 1) + j
      <4>1. i - (m + 1) \in 1 .. n - 1 /\ i = (m + 1) + (i - (m + 1))
        BY <2>3
      <4>2. QED
        BY <4>1
    <3>2. c[i] = t[j + 1]
      BY <1>5, <1>9, <3>1
    <3>3. j + 1 \in 1 .. n /\ i = m + (j + 1)
      BY <3>1
    <3>4. QED
      BY <1>10, <3>2, <3>3
  <2>4. QED
    BY <2>1, <2>2, <2>3
<1>13. c = d
  BY <1>9, <1>10, <1>11, <1>12, SeqEqual
<1>14. QED
  BY <1>1, <1>2, <1>7, <1>8, <1>13

(* Units have the fields their kind says. *)
LEMMA UnitFields ==
    ASSUME NEW u \in Unit
    PROVE  /\ u.unit \in {"header", "byte", "cut"}
           /\ IsHead(u) => u.kind \in Channel \cup Response /\ u.len \in Nat /\ u.out \in Output
           /\ IsHead(u) => u.len \in 0 .. MaxPayload
           /\ u.unit = "byte" => /\ u.byte \in Byte /\ u.byte[2] \in Nat /\ u.byte[2] >= 1
                                 /\ u.byte[1] \in Channel \cup Response
<1>1. MaxPayload \in Nat
  BY ExecAssumption
<1>2. QED
  BY <1>1 DEF Unit, IsHead, Byte

(* A whole frame, as Frame makes it. *)
IsFrame(f) ==
    /\ f \in Seq(Unit) /\ f # << >> /\ IsHead(f[1]) /\ Len(f) = f[1].len + 1
    /\ \A q \in 2 .. f[1].len + 1 :
         IsByte(f[q], f[1].kind) /\ f[q].byte[2] = f[2].byte[2] + (q - 2)

(* What Frame builds is a frame with the given kind, output and bytes. *)
LEMMA FrameParts ==
    ASSUME NEW kind \in Channel \cup Response, NEW bytes \in Seq(Byte), NEW out \in Output,
           Len(bytes) <= MaxPayload, NEW b \in Nat,
           \A k \in DOMAIN bytes : bytes[k] = <<kind, b + k>>
    PROVE  /\ IsFrame(Frame(kind, bytes, out))
           /\ Frame(kind, bytes, out)[1].kind = kind /\ Frame(kind, bytes, out)[1].out = out
           /\ Frame(kind, bytes, out)[1].len = Len(bytes)
           /\ \A k \in 1 .. Len(bytes) : Frame(kind, bytes, out)[k + 1].byte = <<kind, b + k>>
           /\ Len(Frame(kind, bytes, out)) = Len(bytes) + 1
<1>1. PICK n \in Nat : n = Len(bytes) /\ DOMAIN bytes = 1 .. n
  BY LenProperties
<1>2. PICK h : h = [unit |-> "header", kind |-> kind, len |-> n, out |-> out]
  OBVIOUS
<1>3. h \in Unit
  BY <1>1, <1>2, ExecAssumption DEF Unit
<1>4. PICK r : r = [k \in 1 .. n |-> [unit |-> "byte", byte |-> bytes[k]]]
  OBVIOUS
<1>5. \A k \in 1 .. n : bytes[k] \in Byte
  BY <1>1, ElementOfSeq
<1>6. r \in Seq(Unit) /\ Len(r) = n
  <2>1. \A k \in 1 .. n : [unit |-> "byte", byte |-> bytes[k]] \in Unit
    BY <1>5 DEF Unit
  <2>2. r \in [1 .. n -> Unit]
    BY <1>4, <2>1
  <2>3. r \in Seq(Unit)
    BY <2>2, SeqDef
  <2>4. DOMAIN r = 1 .. n
    BY <1>4
  <2>5. QED
    BY <2>3, <2>4, LenProperties
<1>7. PICK f : f = <<h>> \o r
  OBVIOUS
<1>8. <<h>> \in Seq(Unit) /\ Len(<<h>>) = 1 /\ <<h>>[1] = h
  BY <1>3
<1>9. /\ f \in Seq(Unit) /\ Len(f) = 1 + n
      /\ \A i \in 1 .. 1 : f[i] = <<h>>[i]
      /\ \A i \in 1 .. n : f[1 + i] = r[i]
  BY <1>6, <1>7, <1>8, Joined
<1>10. f[1] = h
  BY <1>8, <1>9
<1>11. \A i \in 1 .. n : f[i + 1] = [unit |-> "byte", byte |-> <<kind, b + i>>]
  <2>1. SUFFICES ASSUME NEW i \in 1 .. n
                 PROVE  f[i + 1] = [unit |-> "byte", byte |-> <<kind, b + i>>]
    OBVIOUS
  <2>2. 1 + i = i + 1 /\ f[1 + i] = r[i]
    BY <1>9
  <2>3. r[i] = [unit |-> "byte", byte |-> bytes[i]] /\ bytes[i] = <<kind, b + i>>
    BY <1>1, <1>4
  <2>4. QED
    BY <2>2, <2>3
<1>12. f = Frame(kind, bytes, out)
  BY <1>1, <1>2, <1>4, <1>7 DEF Frame
<1>13. f # << >>
  BY <1>9, EmptySeq
<1>14. /\ IsHead(f[1]) /\ f[1].kind = kind /\ f[1].out = out /\ f[1].len = n
       /\ Len(f) = f[1].len + 1
  BY <1>2, <1>9, <1>10 DEF IsHead
<1>15. ASSUME NEW q \in 2 .. n + 1
       PROVE  IsByte(f[q], kind) /\ f[q].byte[2] = f[2].byte[2] + (q - 2)
  <2>1. PICK i \in 1 .. n : q = i + 1
    <3>1. q - 1 \in 1 .. n /\ q = (q - 1) + 1
      OBVIOUS
    <3>2. QED
      BY <3>1
  <2>2. 1 \in 1 .. n
    OBVIOUS
  <2>3. f[q] = [unit |-> "byte", byte |-> <<kind, b + i>>]
    BY <1>11, <2>1
  <2>4. f[1 + 1] = [unit |-> "byte", byte |-> <<kind, b + 1>>]
    BY <1>11, <2>2
  <2>5. f[2].byte[2] = b + 1
    BY <2>4
  <2>6. QED
    BY <2>1, <2>3, <2>5 DEF IsByte
<1>16. IsFrame(f)
  BY <1>9, <1>13, <1>14, <1>15 DEF IsFrame
<1>17. ASSUME NEW k \in 1 .. n PROVE f[k + 1].byte = <<kind, b + k>>
  <2>1. f[k + 1] = [unit |-> "byte", byte |-> <<kind, b + k>>]
    BY <1>11
  <2>2. QED
    BY <2>1
<1>18. Len(f) = n + 1
  BY <1>9
<1>19. QED
  BY <1>1, <1>12, <1>14, <1>16, <1>17, <1>18
-----------------------------------------------------------------------------
(* Joining sequences of frames, and taking them apart.                      *)

(* A whole frame after whole frames. *)
LEMMA FramesJoined ==
    ASSUME NEW s \in Seq(Unit), FramesOK(s), NEW f, IsFrame(f)
    PROVE  FramesOK(s \o f)
<1>0. f \in Seq(Unit) /\ f # << >> /\ IsHead(f[1]) /\ Len(f) = f[1].len + 1
  BY DEF IsFrame
<1>1. PICK u : u = s \o f
  OBVIOUS
<1>2. PICK m \in Nat : m = Len(s)
  BY LenProperties
<1>3. PICK n \in Nat : n = f[1].len
  <2>1. f[1] \in Unit
    BY <1>0, Popped
  <2>2. QED
    BY <1>0, <2>1, UnitFields
<1>4. Len(f) = n + 1
  BY <1>0, <1>3
<1>5. /\ u \in Seq(Unit) /\ Len(u) = m + (n + 1) /\ DOMAIN u = 1 .. m + (n + 1)
      /\ DOMAIN s = 1 .. m
      /\ \A i \in 1 .. m : u[i] = s[i]
      /\ \A i \in 1 .. n + 1 : u[m + i] = f[i]
  <2>1. n + 1 = Len(f)
    BY <1>4
  <2>2. QED
    BY <1>0, <1>1, <1>2, <2>1, JoinedBy
<1>6. \A q \in 2 .. n + 1 : IsByte(f[q], f[1].kind) /\ f[q].byte[2] = f[2].byte[2] + (q - 2)
  BY <1>3 DEF IsFrame
<1>7. u # << >> => IsHead(u[1])
  <2>1. CASE m = 0
    <3>1. u[0 + 1] = f[1] /\ 0 + 1 = 1
      BY <1>5, <2>1
    <3>2. QED
      BY <1>0, <3>1
  <2>2. CASE m # 0
    <3>1. u[1] = s[1] /\ s # << >>
      BY <1>2, <1>5, <2>2, EmptySeq
    <3>2. QED
      BY <3>1 DEF FramesOK
  <2>3. QED
    BY <2>1, <2>2
<1>8. u[m + 1] = f[1]
  BY <1>5
<1>9. ASSUME NEW p \in 1 .. m, IsHead(u[p]) PROVE FrameAt(u, p)
  <2>1. u[p] = s[p] /\ IsHead(s[p]) /\ FrameAt(s, p)
    BY <1>5, <1>9 DEF FramesOK
  <2>2. PICK k \in Nat : k = s[p].len
    <3>1. s[p] \in Unit
      BY <1>2, ElementOfSeq
    <3>2. QED
      BY <2>1, <3>1, UnitFields
  <2>3. /\ p + k <= m
        /\ \A q \in p + 1 .. p + k :
             IsByte(s[q], s[p].kind) /\ s[q].byte[2] = s[p + 1].byte[2] + (q - (p + 1))
        /\ p + k + 1 <= m => IsHead(s[p + k + 1])
    BY <1>2, <2>1, <2>2 DEF FrameAt
  <2>4. ASSUME NEW q \in p + 1 .. p + k
        PROVE  IsByte(u[q], u[p].kind) /\ u[q].byte[2] = u[p + 1].byte[2] + (q - (p + 1))
    <3>1. u[q] = s[q] /\ u[p + 1] = s[p + 1]
      BY <1>5, <2>3
    <3>2. QED
      BY <2>1, <2>3, <3>1
  <2>5. IsHead(u[p + k + 1])
    <3>1. CASE p + k + 1 <= m
      BY <1>5, <2>3, <3>1
    <3>2. CASE p + k + 1 = m + 1
      BY <1>0, <1>8, <3>2
    <3>3. QED
      BY <2>3, <3>1, <3>2
  <2>6. u[p].len = k /\ p + k <= Len(u)
    BY <1>5, <2>1, <2>2, <2>3
  <2>7. QED
    BY <2>4, <2>5, <2>6 DEF FrameAt
<1>10. ASSUME NEW i \in 1 .. n + 1, IsHead(u[m + i]) PROVE FrameAt(u, m + i)
  <2>1. i = 1
    <3>1. u[m + i] = f[i]
      BY <1>5
    <3>2. CASE i \in 2 .. n + 1
      BY <1>6, <1>10, <3>1, <3>2 DEF IsHead, IsByte
    <3>3. QED
      BY <3>2
  <2>2. u[m + i] = f[1] /\ u[m + i].len = n
    BY <1>3, <1>5, <2>1
  <2>3. ASSUME NEW q \in (m + 1) + 1 .. (m + 1) + n
        PROVE  /\ IsByte(u[q], f[1].kind)
               /\ u[q].byte[2] = u[(m + 1) + 1].byte[2] + (q - ((m + 1) + 1))
    <3>1. PICK j \in 2 .. n + 1 : q = m + j
      <4>1. q - m \in 2 .. n + 1 /\ q = m + (q - m)
        OBVIOUS
      <4>2. QED
        BY <4>1
    <3>2. u[q] = f[j]
      BY <1>5, <3>1
    <3>3. u[(m + 1) + 1] = f[2]
      <4>1. (m + 1) + 1 = m + 2 /\ 2 \in 1 .. n + 1
        OBVIOUS
      <4>2. QED
        BY <1>5, <4>1
    <3>4. IsByte(f[j], f[1].kind) /\ f[j].byte[2] = f[2].byte[2] + (j - 2)
      BY <1>6
    <3>5. j - 2 = q - ((m + 1) + 1)
      BY <3>1
    <3>6. QED
      BY <3>2, <3>3, <3>4, <3>5
  <2>4. (m + 1) + n <= Len(u) /\ ~((m + 1) + n + 1 <= Len(u))
    BY <1>5
  <2>5. QED
    BY <2>1, <2>2, <2>3, <2>4 DEF FrameAt
<1>11. ASSUME NEW p \in DOMAIN u, IsHead(u[p]) PROVE FrameAt(u, p)
  <2>1. CASE p \in 1 .. m
    BY <1>9, <1>11, <2>1
  <2>2. CASE p \in m + 1 .. m + (n + 1)
    <3>1. PICK i \in 1 .. n + 1 : p = m + i
      <4>1. p - m \in 1 .. n + 1 /\ p = m + (p - m)
        BY <2>2
      <4>2. QED
        BY <4>1
    <3>2. QED
      BY <1>10, <1>11, <3>1
  <2>3. QED
    BY <1>5, <2>1, <2>2
<1>12. QED
  BY <1>1, <1>7, <1>11 DEF FramesOK

(* The first frame is complete when it has the length its header says. *)
LEMMA FirstFrame ==
    ASSUME NEW r \in Seq(Unit), NEW t \in Seq(Unit), FramesOK(r \o t),
           r # << >>, Whole(r)
    PROVE  IsFrame(r) /\ FramesOK(t)
<1>1. PICK u : u = r \o t
  OBVIOUS
<1>2. PICK m \in Nat : m = Len(r) /\ m >= 1
  BY Popped
<1>3. PICK n \in Nat : n = Len(t)
  BY LenProperties
<1>4. /\ u \in Seq(Unit) /\ Len(u) = m + n /\ DOMAIN u = 1 .. m + n /\ DOMAIN t = 1 .. n
      /\ \A i \in 1 .. m : u[i] = r[i]
      /\ \A i \in 1 .. n : u[m + i] = t[i]
  BY <1>1, <1>2, <1>3, JoinedBy
<1>5. FramesOK(u) /\ u # << >>
  BY <1>1, <1>2, <1>4, EmptySeq
<1>6. u[1] = r[1] /\ IsHead(r[1]) /\ 1 \in DOMAIN u
  BY <1>2, <1>4, <1>5 DEF FramesOK
<1>7. FrameAt(u, 1)
  BY <1>5, <1>6 DEF FramesOK
<1>8. PICK k \in Nat : k = r[1].len /\ m = k + 1
  <2>1. r[1] \in Unit
    BY Popped
  <2>2. QED
    BY <1>2, <1>6, <2>1, UnitFields DEF Whole
<1>9. /\ \A q \in 2 .. 1 + k :
           IsByte(u[q], r[1].kind) /\ u[q].byte[2] = u[1 + 1].byte[2] + (q - (1 + 1))
      /\ 1 + k + 1 <= Len(u) => IsHead(u[1 + k + 1])
  BY <1>6, <1>7, <1>8 DEF FrameAt
<1>10. ASSUME NEW q \in 2 .. r[1].len + 1
       PROVE  IsByte(r[q], r[1].kind) /\ r[q].byte[2] = r[2].byte[2] + (q - 2)
  <2>1. q \in 2 .. 1 + k /\ q \in 1 .. m /\ 2 \in 1 .. m /\ 1 + 1 = 2
    BY <1>8
  <2>2. u[q] = r[q] /\ u[1 + 1] = r[2]
    BY <1>4, <2>1
  <2>3. QED
    BY <1>9, <2>1, <2>2
<1>11. IsFrame(r)
  BY <1>6, <1>10 DEF IsFrame, Whole
<1>12. t # << >> => IsHead(t[1])
  <2>1. SUFFICES ASSUME t # << >> PROVE IsHead(t[1])
    OBVIOUS
  <2>2. n >= 1
    BY <1>3, <2>1, Popped
  <2>3. u[m + 1] = t[1] /\ 1 + k + 1 <= Len(u) /\ 1 + k + 1 = m + 1
    BY <1>4, <1>8, <2>2
  <2>4. QED
    BY <1>9, <2>3
<1>13. ASSUME NEW p \in 1 .. n, IsHead(t[p]) PROVE FrameAt(t, p)
  <2>1. u[m + p] = t[p] /\ m + p \in DOMAIN u
    BY <1>4
  <2>2. FrameAt(u, m + p)
    BY <1>5, <1>13, <2>1 DEF FramesOK
  <2>3. PICK j \in Nat : j = t[p].len
    <3>1. t[p] \in Unit
      BY <1>3, ElementOfSeq
    <3>2. QED
      BY <1>13, <3>1, UnitFields
  <2>4. /\ (m + p) + j <= m + n
        /\ \A q \in (m + p) + 1 .. (m + p) + j :
             IsByte(u[q], t[p].kind) /\ u[q].byte[2] = u[(m + p) + 1].byte[2] + (q - ((m + p) + 1))
        /\ (m + p) + j + 1 <= m + n => IsHead(u[(m + p) + j + 1])
    BY <1>4, <2>1, <2>2, <2>3 DEF FrameAt
  <2>5. p + j <= n
    BY <2>4
  <2>6. ASSUME NEW q \in p + 1 .. p + j
        PROVE  IsByte(t[q], t[p].kind) /\ t[q].byte[2] = t[p + 1].byte[2] + (q - (p + 1))
    <3>1. /\ m + q \in (m + p) + 1 .. (m + p) + j /\ (m + p) + 1 = m + (p + 1)
          /\ (m + q) - ((m + p) + 1) = q - (p + 1) /\ q \in 1 .. n /\ p + 1 \in 1 .. n
      BY <2>5
    <3>2. u[m + q] = t[q] /\ u[(m + p) + 1] = t[p + 1]
      <4>1. u[m + q] = t[q] /\ u[m + (p + 1)] = t[p + 1]
        BY ONLY <1>4, <3>1
      <4>2. QED
        BY <3>1, <4>1
    <3>3. /\ IsByte(u[m + q], t[p].kind)
          /\ u[m + q].byte[2] = u[(m + p) + 1].byte[2] + ((m + q) - ((m + p) + 1))
      BY <2>4, <3>1
    <3>4. QED
      BY <3>1, <3>2, <3>3
  <2>7. p + j + 1 <= n => IsHead(t[p + j + 1])
    <3>1. SUFFICES ASSUME p + j + 1 <= n PROVE IsHead(t[p + j + 1])
      OBVIOUS
    <3>2. /\ (m + p) + j + 1 <= m + n /\ (m + p) + j + 1 = m + (p + j + 1)
          /\ p + j + 1 \in 1 .. n
      BY <3>1
    <3>3. QED
      BY <1>4, <2>4, <3>2
  <2>8. QED
    BY <1>3, <2>3, <2>5, <2>6, <2>7 DEF FrameAt
<1>14. QED
  BY <1>4, <1>11, <1>12, <1>13 DEF FramesOK

(* The frame before a header ends there. *)
LEMMA LastFrame ==
    ASSUME NEW s \in Seq(Unit), NEW f \in Seq(Unit), FramesOK(s \o f),
           f # << >>, IsHead(f[1])
    PROVE  /\ FramesOK(s)
           /\ \A p \in DOMAIN s : IsHead(s[p]) => p + s[p].len <= Len(s)
<1>1. PICK u : u = s \o f
  OBVIOUS
<1>2. PICK m \in Nat : m = Len(s)
  BY LenProperties
<1>3. PICK n \in Nat : n = Len(f) /\ n >= 1
  BY Popped
<1>4. /\ u \in Seq(Unit) /\ Len(u) = m + n /\ DOMAIN u = 1 .. m + n /\ DOMAIN s = 1 .. m
      /\ \A i \in 1 .. m : u[i] = s[i]
      /\ \A i \in 1 .. n : u[m + i] = f[i]
  BY <1>1, <1>2, <1>3, JoinedBy
<1>5. FramesOK(u)
  BY <1>1
<1>6. IsHead(u[m + 1])
  BY <1>3, <1>4
<1>7. ASSUME NEW p \in 1 .. m, IsHead(s[p]) PROVE FrameAt(s, p)
  <2>1. u[p] = s[p] /\ p \in DOMAIN u
    BY <1>4
  <2>2. FrameAt(u, p)
    BY <1>5, <1>7, <2>1 DEF FramesOK
  <2>3. PICK k \in Nat : k = s[p].len
    <3>1. s[p] \in Unit
      BY <1>2, ElementOfSeq
    <3>2. QED
      BY <1>7, <3>1, UnitFields
  <2>4. /\ \A q \in p + 1 .. p + k :
             IsByte(u[q], s[p].kind) /\ u[q].byte[2] = u[p + 1].byte[2] + (q - (p + 1))
        /\ p + k + 1 <= m + n => IsHead(u[p + k + 1])
    BY <1>4, <2>1, <2>2, <2>3 DEF FrameAt
  <2>5. p + k <= m
    <3>1. CASE m + 1 \in p + 1 .. p + k
      BY <1>6, <2>4, <3>1 DEF IsHead, IsByte
    <3>2. QED
      BY <3>1
  <2>6. ASSUME NEW q \in p + 1 .. p + k
        PROVE  IsByte(s[q], s[p].kind) /\ s[q].byte[2] = s[p + 1].byte[2] + (q - (p + 1))
    <3>1. u[q] = s[q] /\ u[p + 1] = s[p + 1]
      BY <1>4, <2>5
    <3>2. QED
      BY <2>4, <3>1
  <2>7. p + k + 1 <= m => IsHead(s[p + k + 1])
    <3>1. SUFFICES ASSUME p + k + 1 <= m PROVE IsHead(s[p + k + 1])
      OBVIOUS
    <3>2. u[p + k + 1] = s[p + k + 1]
      BY <1>4, <3>1
    <3>3. QED
      BY <1>3, <2>4, <3>1, <3>2
  <2>8. QED
    BY <1>2, <2>3, <2>5, <2>6, <2>7 DEF FrameAt
<1>8. s # << >> => IsHead(s[1])
  <2>1. SUFFICES ASSUME s # << >> PROVE IsHead(s[1])
    OBVIOUS
  <2>2. m >= 1
    BY <1>2, <2>1, Popped
  <2>3. u[1] = s[1] /\ u # << >>
    BY <1>4, <2>2, EmptySeq
  <2>4. QED
    BY <1>5, <2>3 DEF FramesOK
<1>9. \A p \in 1 .. m : IsHead(s[p]) => p + s[p].len <= Len(s)
  BY <1>7 DEF FrameAt
<1>10. QED
  BY <1>4, <1>7, <1>8, <1>9 DEF FramesOK
-----------------------------------------------------------------------------
(* The bytes of one channel on a connection.                                *)

NoneOf(f, ch) == \A q \in DOMAIN f : ~IsByte(f[q], ch)

(* The number of a byte is positive. *)
LEMMA ByteNumber ==
    ASSUME NEW s \in Seq(Unit), NEW q \in DOMAIN s, NEW ch, IsByte(s[q], ch)
    PROVE  s[q].byte[2] \in Nat /\ s[q].byte[2] >= 1
<1>1. s[q] \in Unit
  BY LenProperties, ElementOfSeq
<1>2. QED
  BY <1>1, UnitFields DEF IsByte

(* The positions of two sequences one after the other. *)
LEMMA Positions ==
    ASSUME NEW m \in Nat, NEW n \in Nat, NEW q \in 1 .. m + n
    PROVE  q \in 1 .. m \/ \E i \in 1 .. n : q = m + i
<1>1. q \in 1 .. m \/ (q - m \in 1 .. n /\ q = m + (q - m))
  OBVIOUS
<1>2. QED
  BY <1>1

(* A frame of one kind has no byte of another. *)
LEMMA OtherFrames ==
    ASSUME NEW f, IsFrame(f), NEW ch, f[1].kind # ch
    PROVE  NoneOf(f, ch)
<1>1. f \in Seq(Unit) /\ f # << >> /\ IsHead(f[1]) /\ Len(f) = f[1].len + 1
  BY DEF IsFrame
<1>2. DOMAIN f = 1 .. f[1].len + 1
  BY <1>1, LenProperties
<1>3. ASSUME NEW q \in DOMAIN f, IsByte(f[q], ch) PROVE FALSE
  <2>1. f[1] \in Unit /\ f[1].len \in Nat
    BY <1>1, Popped, UnitFields
  <2>2. CASE q = 1
    BY <1>1, <1>3, <2>2 DEF IsHead, IsByte
  <2>3. CASE q \in 2 .. f[1].len + 1
    BY <1>3, <2>3 DEF IsFrame, IsByte
  <2>4. QED
    BY <1>2, <2>1, <2>2, <2>3
<1>4. QED
  BY <1>3 DEF NoneOf

(* A piece without bytes of a channel behind the stream does not concern it ... *)
LEMMA OtherJoined ==
    ASSUME NEW s \in Seq(Unit), NEW f \in Seq(Unit), NEW ch, NoneOf(f, ch), NEW l \in Nat
    PROVE  /\ InOrder(s, l, ch) => InOrder(s \o f, l, ch)
           /\ \A k \in Nat : UpTo(s, l, k, ch) => UpTo(s \o f, l, k, ch)
<1>1. PICK u : u = s \o f
  OBVIOUS
<1>2. PICK m \in Nat : m = Len(s)
  BY LenProperties
<1>3. PICK n \in Nat : n = Len(f)
  BY LenProperties
<1>4. /\ u \in Seq(Unit) /\ Len(u) = m + n /\ DOMAIN u = 1 .. m + n
      /\ DOMAIN s = 1 .. m /\ DOMAIN f = 1 .. n
      /\ \A i \in 1 .. m : u[i] = s[i]
      /\ \A i \in 1 .. n : u[m + i] = f[i]
  BY <1>1, <1>2, <1>3, JoinedBy
<1>5. ASSUME NEW q \in 1 .. m + n, IsByte(u[q], ch) PROVE q \in 1 .. m /\ u[q] = s[q]
  <2>1. ASSUME NEW i \in 1 .. n, q = m + i PROVE FALSE
    BY <1>4, <1>5, <2>1 DEF NoneOf
  <2>2. QED
    BY <1>4, <2>1, Positions
<1>6. \A q \in 1 .. m : q \in 1 .. m + n
  OBVIOUS
<1>7. ASSUME InOrder(s, l, ch) PROVE InOrder(u, l, ch)
  <2>1. ASSUME NEW q \in 1 .. m + n, IsByte(u[q], ch)
        PROVE  /\ l < u[q].byte[2]
               /\ \/ u[q].byte[2] = l + 1
                  \/ \E r \in 1 .. m + n :
                       r < q /\ IsByte(u[r], ch) /\ u[r].byte[2] = u[q].byte[2] - 1
    <3>1. q \in 1 .. m /\ u[q] = s[q]
      BY <1>5, <2>1
    <3>2. /\ l < s[q].byte[2]
          /\ \/ s[q].byte[2] = l + 1
             \/ \E r \in 1 .. m :
                  r < q /\ IsByte(s[r], ch) /\ s[r].byte[2] = s[q].byte[2] - 1
      BY <1>4, <1>7, <2>1, <3>1 DEF InOrder
    <3>3. QED
      BY <1>4, <1>6, <3>1, <3>2
  <2>2. ASSUME NEW q \in 1 .. m + n, NEW r \in 1 .. m + n,
               q < r, IsByte(u[q], ch), IsByte(u[r], ch)
        PROVE  u[q].byte[2] < u[r].byte[2]
    BY <1>4, <1>5, <1>7, <2>2 DEF InOrder
  <2>3. QED
    BY <1>4, <2>1, <2>2 DEF InOrder
<1>8. ASSUME NEW k \in Nat, UpTo(s, l, k, ch) PROVE UpTo(u, l, k, ch)
  <2>1. \A q \in 1 .. m + n : IsByte(u[q], ch) => u[q].byte[2] <= k
    BY <1>4, <1>5, <1>8 DEF UpTo
  <2>2. l < k => \E q \in 1 .. m + n : IsByte(u[q], ch) /\ u[q].byte[2] = k
    BY <1>4, <1>6, <1>8 DEF UpTo
  <2>3. QED
    BY <1>4, <1>8, <2>1, <2>2 DEF UpTo
<1>9. QED
  BY <1>1, <1>7, <1>8

(* ... and neither does one that leaves the front. *)
LEMMA OtherDropped ==
    ASSUME NEW s \in Seq(Unit), NEW t \in Seq(Unit), NEW ch, NoneOf(s, ch), NEW l \in Nat
    PROVE  /\ InOrder(s \o t, l, ch) => InOrder(t, l, ch)
           /\ \A k \in Nat : UpTo(s \o t, l, k, ch) => UpTo(t, l, k, ch)
<1>1. PICK u : u = s \o t
  OBVIOUS
<1>2. PICK m \in Nat : m = Len(s)
  BY LenProperties
<1>3. PICK n \in Nat : n = Len(t)
  BY LenProperties
<1>4. /\ u \in Seq(Unit) /\ Len(u) = m + n /\ DOMAIN u = 1 .. m + n
      /\ DOMAIN s = 1 .. m /\ DOMAIN t = 1 .. n
      /\ \A i \in 1 .. m : u[i] = s[i]
      /\ \A i \in 1 .. n : u[m + i] = t[i]
  BY <1>1, <1>2, <1>3, JoinedBy
<1>5. ASSUME NEW q \in 1 .. m + n, IsByte(u[q], ch)
      PROVE  \E i \in 1 .. n : q = m + i /\ u[q] = t[i]
  <2>1. CASE q \in 1 .. m
    BY <1>4, <1>5, <2>1 DEF NoneOf
  <2>2. QED
    BY <1>4, <2>1, Positions
<1>6. \A i \in 1 .. n : m + i \in 1 .. m + n /\ u[m + i] = t[i]
  BY <1>4
<1>7. ASSUME InOrder(u, l, ch) PROVE InOrder(t, l, ch)
  <2>1. ASSUME NEW q \in 1 .. n, IsByte(t[q], ch)
        PROVE  /\ l < t[q].byte[2]
               /\ \/ t[q].byte[2] = l + 1
                  \/ \E r \in 1 .. n :
                       r < q /\ IsByte(t[r], ch) /\ t[r].byte[2] = t[q].byte[2] - 1
    <3>1. m + q \in 1 .. m + n /\ u[m + q] = t[q]
      BY <1>6
    <3>2. /\ l < t[q].byte[2]
          /\ \/ t[q].byte[2] = l + 1
             \/ \E r \in 1 .. m + n :
                  r < m + q /\ IsByte(u[r], ch) /\ u[r].byte[2] = t[q].byte[2] - 1
      <4>1. PICK p \in 1 .. m + n : p = m + q /\ u[p] = t[q] /\ IsByte(u[p], ch)
        BY <2>1, <3>1
      <4>2. /\ l < u[p].byte[2]
            /\ \/ u[p].byte[2] = l + 1
               \/ \E r \in 1 .. m + n :
                    r < p /\ IsByte(u[r], ch) /\ u[r].byte[2] = u[p].byte[2] - 1
        BY <1>4, <1>7, <4>1 DEF InOrder
      <4>3. QED
        BY <4>1, <4>2
    <3>3. ASSUME NEW r \in 1 .. m + n, r < m + q, IsByte(u[r], ch), u[r].byte[2] = t[q].byte[2] - 1
          PROVE  \E i \in 1 .. n : i < q /\ IsByte(t[i], ch) /\ t[i].byte[2] = t[q].byte[2] - 1
      <4>1. PICK i \in 1 .. n : r = m + i /\ u[r] = t[i]
        BY <1>5, <3>3
      <4>2. i < q
        BY <3>3, <4>1
      <4>3. QED
        BY <3>3, <4>1, <4>2
    <3>4. QED
      BY <3>2, <3>3
  <2>2. ASSUME NEW q \in 1 .. n, NEW r \in 1 .. n,
               q < r, IsByte(t[q], ch), IsByte(t[r], ch)
        PROVE  t[q].byte[2] < t[r].byte[2]
    <3>1. PICK i \in 1 .. m + n : i = m + q /\ u[i] = t[q]
      BY <1>6
    <3>2. PICK j \in 1 .. m + n : j = m + r /\ u[j] = t[r]
      BY <1>6
    <3>3. i < j
      BY <2>2, <3>1, <3>2
    <3>4. IsByte(u[i], ch) /\ IsByte(u[j], ch)
      BY <2>2, <3>1, <3>2
    <3>5. u[i].byte[2] < u[j].byte[2]
      BY <1>4, <1>7, <3>3, <3>4 DEF InOrder
    <3>6. QED
      BY <3>1, <3>2, <3>5
  <2>3. QED
    BY <1>4, <2>1, <2>2 DEF InOrder
<1>8. ASSUME NEW k \in Nat, UpTo(u, l, k, ch) PROVE UpTo(t, l, k, ch)
  <2>1. \A q \in 1 .. n : IsByte(t[q], ch) => t[q].byte[2] <= k
    BY <1>4, <1>6, <1>8 DEF UpTo
  <2>2. l < k => \E q \in 1 .. n : IsByte(t[q], ch) /\ t[q].byte[2] = k
    BY <1>4, <1>5, <1>8 DEF UpTo
  <2>3. QED
    BY <1>4, <1>8, <2>1, <2>2 DEF UpTo
<1>9. QED
  BY <1>1, <1>7, <1>8

(* What comes first is in order. *)
LEMMA InOrderBefore ==
    ASSUME NEW s \in Seq(Unit), NEW t \in Seq(Unit), NEW ch, NEW l \in Nat, InOrder(s \o t, l, ch)
    PROVE  InOrder(s, l, ch)
<1>1. PICK u : u = s \o t
  OBVIOUS
<1>2. PICK m \in Nat : m = Len(s)
  BY LenProperties
<1>3. PICK n \in Nat : n = Len(t)
  BY LenProperties
<1>4. /\ DOMAIN u = 1 .. m + n /\ DOMAIN s = 1 .. m
      /\ \A i \in 1 .. m : u[i] = s[i]
  BY <1>1, <1>2, <1>3, JoinedBy
<1>5. InOrder(u, l, ch)
  BY <1>1
<1>6. \A q \in 1 .. m : q \in 1 .. m + n
  OBVIOUS
<1>7. ASSUME NEW q \in 1 .. m, IsByte(s[q], ch)
      PROVE  /\ l < s[q].byte[2]
             /\ \/ s[q].byte[2] = l + 1
                \/ \E r \in 1 .. m : r < q /\ IsByte(s[r], ch) /\ s[r].byte[2] = s[q].byte[2] - 1
  <2>1. u[q] = s[q]
    BY <1>4
  <2>2. /\ l < s[q].byte[2]
        /\ \/ s[q].byte[2] = l + 1
           \/ \E r \in 1 .. m + n :
                r < q /\ IsByte(u[r], ch) /\ u[r].byte[2] = s[q].byte[2] - 1
    BY <1>4, <1>5, <1>6, <1>7, <2>1 DEF InOrder
  <2>3. ASSUME NEW r \in 1 .. m + n, r < q PROVE r \in 1 .. m /\ u[r] = s[r]
    <3>1. r \in 1 .. m
      BY <2>3
    <3>2. QED
      BY <1>4, <3>1
  <2>4. QED
    BY <2>2, <2>3
<1>8. ASSUME NEW q \in 1 .. m, NEW r \in 1 .. m, q < r, IsByte(s[q], ch), IsByte(s[r], ch)
      PROVE  s[q].byte[2] < s[r].byte[2]
  BY <1>4, <1>5, <1>6, <1>8 DEF InOrder
<1>9. QED
  BY <1>4, <1>7, <1>8 DEF InOrder
-----------------------------------------------------------------------------
(* A chunk that goes on where the connection ended. *)
LEMMA ChunkJoined ==
    ASSUME NEW s \in Seq(Unit), NEW f, IsFrame(f), NEW ch, f[1].kind = ch,
           NEW l \in Nat, NEW b \in Nat,
           InOrder(s, l, ch), UpTo(s, l, b, ch),
           \A k \in 1 .. f[1].len : f[k + 1].byte = <<ch, b + k>>
    PROVE  InOrder(s \o f, l, ch) /\ UpTo(s \o f, l, b + f[1].len, ch)
<1>1. PICK u : u = s \o f
  OBVIOUS
<1>2. PICK m \in Nat : m = Len(s)
  BY LenProperties
<1>3. f \in Seq(Unit) /\ f # << >> /\ IsHead(f[1]) /\ Len(f) = f[1].len + 1
  BY DEF IsFrame
<1>4. PICK n \in Nat : n = f[1].len
  BY <1>3, Popped, UnitFields
<1>5. PICK w \in Nat : w = Len(f) /\ w = n + 1
  BY <1>3, <1>4
<1>6. /\ DOMAIN u = 1 .. m + w /\ DOMAIN s = 1 .. m
      /\ \A i \in 1 .. m : u[i] = s[i]
      /\ \A i \in 1 .. w : u[m + i] = f[i]
  <2>1. w = Len(f)
    BY <1>5
  <2>2. QED
    BY <1>1, <1>2, <1>3, <2>1, JoinedBy
<1>7. PICK a \in Nat : a = m + 1
  OBVIOUS
<1>8. ASSUME NEW k \in 1 .. n
      PROVE  /\ a + k \in 1 .. m + w /\ IsByte(u[a + k], ch) /\ u[a + k].byte[2] = b + k
  <2>1. k + 1 \in 1 .. w /\ a + k = m + (k + 1) /\ k + 1 \in 2 .. n + 1
    BY <1>5, <1>7
  <2>2. u[a + k] = f[k + 1]
    BY <1>6, <2>1
  <2>3. IsByte(f[k + 1], ch)
    BY <1>4, <2>1 DEF IsFrame
  <2>4. f[k + 1].byte = <<ch, b + k>>
    BY <1>4
  <2>5. f[k + 1].byte[2] = b + k
    BY <2>4
  <2>6. a + k \in 1 .. m + w
    BY <1>5, <1>7
  <2>7. QED
    BY <2>2, <2>3, <2>5, <2>6
<1>9. ASSUME NEW q \in 1 .. m + w, IsByte(u[q], ch)
      PROVE  \/ q \in 1 .. m /\ u[q] = s[q]
             \/ \E k \in 1 .. n : q = a + k
  <2>1. ASSUME NEW i \in 1 .. w, q = m + i PROVE \E k \in 1 .. n : q = a + k
    <3>1. CASE i = 1
      <4>1. u[q] = f[1]
        BY <1>6, <2>1, <3>1
      <4>2. QED
        BY <1>3, <1>9, <4>1 DEF IsHead, IsByte
    <3>2. CASE i # 1
      <4>1. i - 1 \in 1 .. n /\ q = a + (i - 1)
        BY <1>5, <1>7, <2>1, <3>2
      <4>2. QED
        BY <4>1
    <3>3. QED
      BY <3>1, <3>2
  <2>2. q \in 1 .. m \/ \E i \in 1 .. w : q = m + i
    BY Positions
  <2>3. QED
    BY <1>6, <2>1, <2>2
<1>10. \A q \in 1 .. m : q \in 1 .. m + w /\ u[q] = s[q]
  BY <1>6
<1>11. ASSUME NEW q \in 1 .. m, IsByte(s[q], ch) PROVE s[q].byte[2] \in Nat /\ s[q].byte[2] <= b
  BY <1>6, <1>11, ByteNumber DEF UpTo
<1>12. l <= b
  BY DEF UpTo
<1>13. ASSUME NEW q \in 1 .. m + w, IsByte(u[q], ch)
       PROVE  /\ l < u[q].byte[2]
              /\ \/ u[q].byte[2] = l + 1
                 \/ \E r \in 1 .. m + w :
                      r < q /\ IsByte(u[r], ch) /\ u[r].byte[2] = u[q].byte[2] - 1
  <2>1. CASE q \in 1 .. m /\ u[q] = s[q]
    <3>1. /\ l < s[q].byte[2]
          /\ \/ s[q].byte[2] = l + 1
             \/ \E r \in 1 .. m : r < q /\ IsByte(s[r], ch) /\ s[r].byte[2] = s[q].byte[2] - 1
      BY <1>6, <1>13, <2>1 DEF InOrder
    <3>2. QED
      BY <1>10, <2>1, <3>1
  <2>2. ASSUME NEW k \in 1 .. n, q = a + k
        PROVE  /\ l < u[q].byte[2]
               /\ \/ u[q].byte[2] = l + 1
                  \/ \E r \in 1 .. m + w :
                       r < q /\ IsByte(u[r], ch) /\ u[r].byte[2] = u[q].byte[2] - 1
    <3>1. u[q].byte[2] = b + k
      BY <1>8, <2>2
    <3>2. l < b + k
      BY <1>12
    <3>3. CASE k = 1 /\ l = b
      BY <3>1, <3>2, <3>3
    <3>4. CASE k = 1 /\ l < b
      <4>1. PICK r \in 1 .. m : IsByte(s[r], ch) /\ s[r].byte[2] = b
        BY <1>6, <3>4 DEF UpTo
      <4>2. r \in 1 .. m + w /\ u[r] = s[r]
        BY <1>10
      <4>3. r < q /\ b = (b + k) - 1
        BY <1>7, <2>2, <3>4
      <4>4. QED
        BY <3>1, <3>2, <4>1, <4>2, <4>3
    <3>5. CASE k # 1
      <4>1. PICK j \in 1 .. n : j = k - 1
        BY <3>5
      <4>2. a + j \in 1 .. m + w /\ IsByte(u[a + j], ch) /\ u[a + j].byte[2] = b + j
        BY <1>8
      <4>3. a + j < q /\ b + j = (b + k) - 1
        BY <2>2, <4>1
      <4>4. QED
        BY <3>1, <3>2, <4>2, <4>3
    <3>6. QED
      BY <1>12, <3>3, <3>4, <3>5
  <2>3. QED
    BY <1>9, <1>13, <2>1, <2>2
<1>14. ASSUME NEW q \in 1 .. m + w, NEW r \in 1 .. m + w,
              q < r, IsByte(u[q], ch), IsByte(u[r], ch)
       PROVE  u[q].byte[2] < u[r].byte[2]
  <2>1. CASE r \in 1 .. m /\ u[r] = s[r]
    <3>1. q \in 1 .. m /\ u[q] = s[q]
      BY <1>10, <1>14, <2>1
    <3>2. QED
      BY <1>6, <1>14, <2>1, <3>1 DEF InOrder
  <2>2. ASSUME NEW k \in 1 .. n, r = a + k PROVE u[q].byte[2] < u[r].byte[2]
    <3>1. u[r].byte[2] = b + k
      BY <1>8, <2>2
    <3>2. CASE q \in 1 .. m /\ u[q] = s[q]
      <4>1. s[q].byte[2] \in Nat /\ s[q].byte[2] <= b
        BY <1>11, <1>14, <3>2
      <4>2. QED
        BY <3>1, <3>2, <4>1
    <3>3. ASSUME NEW j \in 1 .. n, q = a + j PROVE u[q].byte[2] < u[r].byte[2]
      <4>1. u[q].byte[2] = b + j
        BY <1>8, <3>3
      <4>2. j < k
        BY <1>14, <2>2, <3>3
      <4>3. QED
        BY <3>1, <4>1, <4>2
    <3>4. QED
      BY <1>9, <1>14, <3>2, <3>3
  <2>3. QED
    BY <1>9, <1>14, <2>1, <2>2
<1>15. InOrder(u, l, ch)
  BY <1>6, <1>13, <1>14 DEF InOrder
<1>16. ASSUME NEW q \in 1 .. m + w, IsByte(u[q], ch) PROVE u[q].byte[2] <= b + n
  <2>1. CASE q \in 1 .. m /\ u[q] = s[q]
    <3>1. s[q].byte[2] \in Nat /\ s[q].byte[2] <= b
      BY <1>11, <1>16, <2>1
    <3>2. QED
      BY <2>1, <3>1
  <2>2. ASSUME NEW k \in 1 .. n, q = a + k PROVE u[q].byte[2] <= b + n
    <3>1. u[q].byte[2] = b + k
      BY <1>8, <2>2
    <3>2. QED
      BY <3>1
  <2>3. QED
    BY <1>9, <1>16, <2>1, <2>2
<1>17. ASSUME l < b + n
       PROVE  \E q \in 1 .. m + w : IsByte(u[q], ch) /\ u[q].byte[2] = b + n
  <2>1. CASE n = 0
    <3>1. PICK r \in 1 .. m : IsByte(s[r], ch) /\ s[r].byte[2] = b
      BY <1>6, <1>17, <2>1 DEF UpTo
    <3>2. b = b + n
      BY <2>1
    <3>3. QED
      BY <1>10, <3>1, <3>2
  <2>2. CASE n # 0
    <3>1. n \in 1 .. n
      BY <2>2
    <3>2. QED
      BY <1>8, <3>1
  <2>3. QED
    BY <2>1, <2>2
<1>18. l <= b + n
  BY <1>12
<1>19. UpTo(u, l, b + n, ch)
  BY <1>6, <1>16, <1>17, <1>18 DEF UpTo
<1>20. QED
  BY <1>1, <1>4, <1>15, <1>19

(* The first frame has the bytes that come next. *)
NextBytes(f, l, ch) ==
    \A k \in 1 .. f[1].len : IsByte(f[k + 1], ch) /\ f[k + 1].byte = <<ch, l + k>>

(* The frame in front of a stream in order holds the next bytes. *)
LEMMA ChunkFirst ==
    ASSUME NEW f, IsFrame(f), NEW t \in Seq(Unit), NEW ch, f[1].kind = ch, NEW l \in Nat,
           InOrder(f \o t, l, ch)
    PROVE  NextBytes(f, l, ch)
<1>1. PICK u : u = f \o t
  OBVIOUS
<1>2. f \in Seq(Unit) /\ f # << >> /\ IsHead(f[1]) /\ Len(f) = f[1].len + 1
  BY DEF IsFrame
<1>3. PICK n \in Nat : n = f[1].len
  BY <1>2, Popped, UnitFields
<1>4. PICK w \in Nat : w = Len(f) /\ w = n + 1
  BY <1>2, <1>3
<1>5. PICK z \in Nat : z = Len(t)
  BY LenProperties
<1>6. /\ DOMAIN u = 1 .. w + z /\ DOMAIN f = 1 .. w /\ \A i \in 1 .. w : u[i] = f[i]
  <2>1. w = Len(f)
    BY <1>4
  <2>2. QED
    BY <1>1, <1>2, <1>5, <2>1, JoinedBy
<1>7. \A q \in 2 .. n + 1 : IsByte(f[q], ch) /\ f[q].byte[2] = f[2].byte[2] + (q - 2)
  BY <1>3 DEF IsFrame
<1>8. ASSUME NEW k \in 1 .. n PROVE IsByte(f[k + 1], ch) /\ f[k + 1].byte = <<ch, l + k>>
  <2>1. 2 \in 2 .. n + 1 /\ k + 1 \in 2 .. n + 1 /\ 2 \in 1 .. w /\ k + 1 \in 1 .. w /\ 1 \in 1 .. w
    BY <1>4
  <2>2. IsByte(f[2], ch) /\ IsByte(f[k + 1], ch)
    BY <1>7, <2>1
  <2>3. u[2] = f[2] /\ u[1] = f[1] /\ 2 \in 1 .. w + z
    BY <1>6, <2>1
  <2>4. \/ f[2].byte[2] = l + 1
        \/ \E r \in 1 .. w + z : r < 2 /\ IsByte(u[r], ch)
    BY <1>1, <1>6, <2>2, <2>3 DEF InOrder
  <2>5. ASSUME NEW r \in 1 .. w + z, r < 2, IsByte(u[r], ch) PROVE FALSE
    <3>1. r = 1
      BY <2>5
    <3>2. QED
      BY <1>2, <2>3, <2>5, <3>1 DEF IsHead, IsByte
  <2>6. f[2].byte[2] = l + 1
    BY <2>4, <2>5
  <2>7. f[k + 1].byte[2] = f[2].byte[2] + ((k + 1) - 2)
    BY <1>7, <2>1
  <2>8. f[k + 1].byte[2] = l + k
    BY <2>6, <2>7
  <2>9. f[k + 1].byte \in Byte /\ f[k + 1].byte[1] = ch
    <3>1. f[k + 1] \in Unit
      BY <1>2, <1>4, <2>1, ElementOfSeq
    <3>2. QED
      BY <2>2, <3>1, UnitFields DEF IsByte
  <2>10. f[k + 1].byte = <<ch, l + k>>
    BY <2>8, <2>9 DEF Byte
  <2>11. QED
    BY <2>2, <2>10
<1>9. QED
  BY <1>3, <1>8 DEF NextBytes

(* What follows the first frame. *)
LEMMA ChunkDropped ==
    ASSUME NEW f, IsFrame(f), NEW t \in Seq(Unit), NEW ch, f[1].kind = ch, NEW l \in Nat,
           InOrder(f \o t, l, ch)
    PROVE  /\ InOrder(t, l + f[1].len, ch)
           /\ \A k \in Nat : UpTo(f \o t, l, k, ch) => UpTo(t, l + f[1].len, k, ch)
<1>1. PICK u : u = f \o t
  OBVIOUS
<1>2. f \in Seq(Unit) /\ f # << >> /\ IsHead(f[1]) /\ Len(f) = f[1].len + 1
  BY DEF IsFrame
<1>3. PICK n \in Nat : n = f[1].len
  BY <1>2, Popped, UnitFields
<1>4. PICK w \in Nat : w = Len(f) /\ w = n + 1
  BY <1>2, <1>3
<1>5. PICK z \in Nat : z = Len(t)
  BY LenProperties
<1>6. /\ u \in Seq(Unit) /\ DOMAIN u = 1 .. w + z /\ DOMAIN f = 1 .. w /\ DOMAIN t = 1 .. z
      /\ \A i \in 1 .. w : u[i] = f[i]
      /\ \A i \in 1 .. z : u[w + i] = t[i]
  <2>1. w = Len(f)
    BY <1>4
  <2>2. QED
    BY <1>1, <1>2, <1>5, <2>1, JoinedBy
<1>7. InOrder(u, l, ch)
  BY <1>1
<1>8. ASSUME NEW k \in 1 .. n
      PROVE  /\ k + 1 \in 1 .. w + z /\ IsByte(u[k + 1], ch) /\ u[k + 1].byte[2] = l + k
             /\ k + 1 <= w
  <2>1. k + 1 \in 1 .. w /\ k + 1 \in 1 .. w + z
    BY <1>4
  <2>2. u[k + 1] = f[k + 1]
    BY <1>6, <2>1
  <2>3. IsByte(f[k + 1], ch) /\ f[k + 1].byte = <<ch, l + k>>
    BY <1>3, ChunkFirst DEF NextBytes
  <2>4. f[k + 1].byte[2] = l + k
    BY <2>3
  <2>5. QED
    BY <2>1, <2>2, <2>3, <2>4
<1>9. ASSUME NEW q \in 1 .. w + z, IsByte(u[q], ch)
      PROVE  \/ \E k \in 1 .. n : q = k + 1
             \/ \E i \in 1 .. z : q = w + i /\ u[q] = t[i]
  <2>1. CASE q \in 1 .. w
    <3>1. CASE q = 1
      <4>1. u[q] = f[1]
        BY <1>6, <2>1, <3>1
      <4>2. QED
        BY <1>2, <1>9, <4>1 DEF IsHead, IsByte
    <3>2. CASE q # 1
      <4>1. q - 1 \in 1 .. n /\ q = (q - 1) + 1
        BY <1>4, <2>1, <3>2
      <4>2. QED
        BY <4>1
    <3>3. QED
      BY <3>1, <3>2
  <2>2. q \in 1 .. w \/ \E i \in 1 .. z : q = w + i
    BY Positions
  <2>3. QED
    BY <1>6, <2>1, <2>2
<1>10. ASSUME NEW q \in 1 .. z
       PROVE  w + q \in 1 .. w + z /\ u[w + q] = t[q]
  BY <1>6
<1>11. ASSUME NEW q \in 1 .. z, IsByte(t[q], ch)
       PROVE  t[q].byte[2] \in Nat /\ l + n < t[q].byte[2]
  <2>1. PICK p \in 1 .. w + z : p = w + q /\ u[p] = t[q] /\ IsByte(u[p], ch)
    BY <1>10, <1>11
  <2>2. t[q].byte[2] \in Nat
    BY <1>6, <1>11, ByteNumber
  <2>3. CASE n = 0
    <3>1. l < u[p].byte[2]
      BY <1>6, <1>7, <2>1 DEF InOrder
    <3>2. QED
      BY <2>1, <2>2, <2>3, <3>1
  <2>4. CASE n # 0
    <3>1. n \in 1 .. n
      BY <2>4
    <3>2. PICK c \in 1 .. w + z : c <= w /\ IsByte(u[c], ch) /\ u[c].byte[2] = l + n
      BY <1>8, <3>1
    <3>3. c < p
      BY <2>1, <3>2
    <3>4. u[c].byte[2] < u[p].byte[2]
      BY <1>6, <1>7, <2>1, <3>2, <3>3 DEF InOrder
    <3>5. QED
      BY <2>1, <2>2, <3>2, <3>4
  <2>5. QED
    BY <2>3, <2>4
<1>12. ASSUME NEW q \in 1 .. z, IsByte(t[q], ch)
       PROVE  \/ t[q].byte[2] = (l + n) + 1
              \/ \E r \in 1 .. z : r < q /\ IsByte(t[r], ch) /\ t[r].byte[2] = t[q].byte[2] - 1
  <2>1. PICK p \in 1 .. w + z : p = w + q /\ u[p] = t[q] /\ IsByte(u[p], ch)
    BY <1>10, <1>12
  <2>2. PICK g \in Nat : g = t[q].byte[2] /\ l + n < g
    BY <1>11, <1>12
  <2>3. \/ u[p].byte[2] = l + 1
        \/ \E r \in 1 .. w + z :
             r < p /\ IsByte(u[r], ch) /\ u[r].byte[2] = u[p].byte[2] - 1
    BY <1>6, <1>7, <2>1 DEF InOrder
  <2>4. CASE u[p].byte[2] = l + 1
    <3>1. g = l + 1
      BY <2>1, <2>2, <2>4
    <3>2. g = (l + n) + 1
      BY <2>2, <3>1
    <3>3. QED
      BY <2>2, <3>2
  <2>5. ASSUME NEW r \in 1 .. w + z, r < p, IsByte(u[r], ch), u[r].byte[2] = u[p].byte[2] - 1
        PROVE  \/ t[q].byte[2] = (l + n) + 1
               \/ \E i \in 1 .. z : i < q /\ IsByte(t[i], ch) /\ t[i].byte[2] = t[q].byte[2] - 1
    <3>1. u[r].byte[2] = g - 1
      BY <2>1, <2>2, <2>5
    <3>2. ASSUME NEW k \in 1 .. n, r = k + 1 PROVE g = (l + n) + 1
      <4>1. l + k = g - 1
        BY <1>8, <3>1, <3>2
      <4>2. QED
        BY <2>2, <4>1
    <3>3. ASSUME NEW i \in 1 .. z, r = w + i, u[r] = t[i]
          PROVE  \E j \in 1 .. z : j < q /\ IsByte(t[j], ch) /\ t[j].byte[2] = t[q].byte[2] - 1
      <4>1. i < q
        BY <2>1, <2>5, <3>3
      <4>2. IsByte(t[i], ch) /\ t[i].byte[2] = t[q].byte[2] - 1
        BY <2>1, <2>5, <3>3
      <4>3. QED
        BY <4>1, <4>2
    <3>4. QED
      BY <1>9, <2>2, <2>5, <3>2, <3>3
  <2>6. QED
    BY <2>3, <2>4, <2>5
<1>13. ASSUME NEW q \in 1 .. z, NEW r \in 1 .. z, q < r, IsByte(t[q], ch), IsByte(t[r], ch)
       PROVE  t[q].byte[2] < t[r].byte[2]
  <2>1. PICK i \in 1 .. w + z : i = w + q /\ u[i] = t[q] /\ IsByte(u[i], ch)
    BY <1>10, <1>13
  <2>2. PICK j \in 1 .. w + z : j = w + r /\ u[j] = t[r] /\ IsByte(u[j], ch)
    BY <1>10, <1>13
  <2>3. i < j
    BY <1>13, <2>1, <2>2
  <2>4. u[i].byte[2] < u[j].byte[2]
    BY <1>6, <1>7, <2>1, <2>2, <2>3 DEF InOrder
  <2>5. QED
    BY <2>1, <2>2, <2>4
<1>14. InOrder(t, l + n, ch)
  BY <1>6, <1>11, <1>12, <1>13 DEF InOrder
<1>15. ASSUME NEW k \in Nat, UpTo(u, l, k, ch) PROVE UpTo(t, l + n, k, ch)
  <2>1. l <= k /\ \A q \in 1 .. w + z : IsByte(u[q], ch) => u[q].byte[2] <= k
    BY <1>6, <1>15 DEF UpTo
  <2>2. l + n <= k
    <3>1. CASE n = 0
      BY <2>1, <3>1
    <3>2. CASE n # 0
      <4>1. n \in 1 .. n
        BY <3>2
      <4>2. QED
        BY <1>8, <2>1, <4>1
    <3>3. QED
      BY <3>1, <3>2
  <2>3. ASSUME NEW q \in 1 .. z, IsByte(t[q], ch) PROVE t[q].byte[2] <= k
    BY <1>10, <2>1, <2>3
  <2>4. ASSUME l + n < k PROVE \E q \in 1 .. z : IsByte(t[q], ch) /\ t[q].byte[2] = k
    <3>1. l < k
      BY <2>4
    <3>2. PICK q \in 1 .. w + z : IsByte(u[q], ch) /\ u[q].byte[2] = k
      BY <1>6, <1>15, <3>1 DEF UpTo
    <3>3. ASSUME NEW j \in 1 .. n, q = j + 1 PROVE FALSE
      <4>1. l + j = k
        BY <1>8, <3>2, <3>3
      <4>2. QED
        BY <2>4, <4>1
    <3>4. PICK i \in 1 .. z : q = w + i /\ u[q] = t[i]
      BY <1>9, <3>2, <3>3
    <3>5. QED
      BY <3>2, <3>4
  <2>5. QED
    BY <1>6, <2>2, <2>3, <2>4 DEF UpTo
<1>16. QED
  BY <1>1, <1>3, <1>14, <1>15

(* A response comes last, and what a timeout has broken stays broken. *)
NoResponse(s) == \A p \in DOMAIN s : IsHead(s[p]) => s[p].kind \notin Response

(* A response behind a stream that has none is its last frame. *)
LEMMA ResponseJoined ==
    ASSUME NEW s \in Seq(Unit), NEW f, IsFrame(f), NoResponse(s)
    PROVE  /\ ResponseLast(s \o f)
           /\ \A p \in DOMAIN (s \o f) : IsHead((s \o f)[p]) /\ (s \o f)[p].kind \in Response =>
                 (s \o f)[p] = f[1]
<1>1. PICK u : u = s \o f
  OBVIOUS
<1>2. f \in Seq(Unit) /\ f # << >> /\ IsHead(f[1]) /\ Len(f) = f[1].len + 1
  BY DEF IsFrame
<1>3. PICK n \in Nat : n = f[1].len
  BY <1>2, Popped, UnitFields
<1>4. PICK w \in Nat : w = Len(f) /\ w = n + 1
  BY <1>2, <1>3
<1>5. PICK m \in Nat : m = Len(s)
  BY LenProperties
<1>6. /\ DOMAIN u = 1 .. m + w /\ DOMAIN s = 1 .. m /\ Len(u) = m + w
      /\ \A i \in 1 .. m : u[i] = s[i]
      /\ \A i \in 1 .. w : u[m + i] = f[i]
  <2>1. w = Len(f) /\ f \in Seq(Unit)
    BY <1>2, <1>4
  <2>2. QED
    BY <1>1, <1>5, <2>1, JoinedBy
<1>7. ASSUME NEW p \in 1 .. m + w, IsHead(u[p]), u[p].kind \in Response
      PROVE  u[p] = f[1] /\ p + u[p].len = m + w
  <2>1. ASSUME p \in 1 .. m PROVE FALSE
    BY <1>6, <1>7, <2>1 DEF NoResponse
  <2>2. ASSUME NEW i \in 1 .. w, p = m + i PROVE u[p] = f[1] /\ p = m + 1
    <3>1. u[p] = f[i]
      BY <1>6, <2>2
    <3>2. ASSUME i \in 2 .. n + 1 PROVE FALSE
      <4>1. IsByte(f[i], f[1].kind)
        BY <1>3, <3>2 DEF IsFrame
      <4>2. QED
        BY <1>7, <3>1, <4>1 DEF IsHead, IsByte
    <3>3. i = 1
      BY <1>4, <3>2
    <3>4. QED
      BY <2>2, <3>1, <3>3
  <2>3. p \in 1 .. m \/ \E i \in 1 .. w : p = m + i
    BY Positions
  <2>4. u[p] = f[1] /\ p = m + 1
    BY <2>1, <2>2, <2>3
  <2>5. u[p].len = n
    BY <1>3, <2>4
  <2>6. (m + 1) + n = m + w
    BY <1>4
  <2>7. QED
    BY <2>4, <2>5, <2>6
<1>8. QED
  BY <1>1, <1>6, <1>7 DEF ResponseLast

(* Dropping the front of the stream keeps a response last and a result broken. *)
LEMMA ResponseDropped ==
    ASSUME NEW s \in Seq(Unit), NEW t \in Seq(Unit)
    PROVE  /\ ResponseLast(s \o t) => ResponseLast(t)
           /\ ResultBroken(s \o t) => ResultBroken(t)
<1>1. PICK u : u = s \o t
  OBVIOUS
<1>2. PICK m \in Nat : m = Len(s)
  BY LenProperties
<1>3. PICK n \in Nat : n = Len(t)
  BY LenProperties
<1>4. /\ DOMAIN u = 1 .. m + n /\ DOMAIN t = 1 .. n /\ Len(u) = m + n
      /\ \A i \in 1 .. n : u[m + i] = t[i]
  BY <1>1, <1>2, <1>3, JoinedBy
<1>5. ASSUME NEW p \in 1 .. n PROVE m + p \in 1 .. m + n /\ u[m + p] = t[p]
  BY <1>4
<1>6. ASSUME NEW p \in 1 .. n, IsHead(t[p]) PROVE t[p].len \in Nat
  <2>1. t[p] \in Unit
    BY <1>3, ElementOfSeq
  <2>2. QED
    BY <1>6, <2>1, UnitFields
<1>7. ASSUME ResponseLast(u), NEW p \in 1 .. n, IsHead(t[p]), t[p].kind \in Response
      PROVE  p + t[p].len = n
  <2>1. PICK k \in Nat : k = t[p].len
    BY <1>6, <1>7
  <2>2. PICK q \in 1 .. m + n : q = m + p /\ u[q] = t[p]
    BY <1>5
  <2>3. q + u[q].len = m + n
    BY <1>4, <1>7, <2>2 DEF ResponseLast
  <2>4. q + k = m + n
    BY <2>1, <2>2, <2>3
  <2>5. p + k = n
    <3>1. q = m + p
      BY <2>2
    <3>2. QED
      BY <2>4, <3>1
  <2>6. QED
    BY <2>1, <2>5
<1>8. ASSUME ResultBroken(u), NEW p \in 1 .. n, IsHead(t[p]), t[p].kind = "result"
      PROVE  \E q \in 1 .. n : p < q /\ q <= p + t[p].len /\ t[q].unit # "byte"
  <2>1. PICK k \in Nat : k = t[p].len
    BY <1>6, <1>8
  <2>2. PICK g \in 1 .. m + n : g = m + p /\ u[g] = t[p]
    BY <1>5
  <2>3. PICK q \in 1 .. m + n : g < q /\ q <= g + u[g].len /\ u[q].unit # "byte"
    BY <1>4, <1>8, <2>2 DEF ResultBroken
  <2>4. q <= g + k
    BY <2>1, <2>2, <2>3
  <2>5. PICK i \in 1 .. n : q = m + i
    <3>1. q - m \in 1 .. n /\ q = m + (q - m)
      BY <2>2, <2>3
    <3>2. QED
      BY <3>1
  <2>6. p < i /\ i <= p + k
    BY <2>2, <2>3, <2>4, <2>5
  <2>7. t[i].unit # "byte"
    BY <1>4, <2>3, <2>5
  <2>8. QED
    BY <2>1, <2>6, <2>7
<1>9. QED
  BY <1>1, <1>3, <1>4, <1>7, <1>8 DEF ResponseLast, ResultBroken
-----------------------------------------------------------------------------
(* The frames the handler makes, and what a step does to the connection.    *)

(* NoOutput is an output, and its JSON has the length JsonLen. *)
LEMMA NoOutputType ==
    /\ NoOutput \in Output /\ \A ch \in Channel : NoOutput[ch] = << >> /\ Len(NoOutput[ch]) = 0
    /\ JsonSize(NoOutput) = JsonLen /\ JsonLen \in Nat /\ JsonLen <= MaxPayload
<1>1. << >> \in Seq(Byte) /\ Len(<< >>) = 0
  BY EmptySeq
<1>2. NoOutput \in Output /\ \A ch \in Channel : NoOutput[ch] = << >> /\ Len(NoOutput[ch]) = 0
  BY <1>1 DEF NoOutput, Output
<1>3. Len(NoOutput["stdout"]) = 0 /\ Len(NoOutput["stderr"]) = 0
  BY <1>2 DEF Channel
<1>4. JsonLen \in Nat /\ JsonLen <= MaxPayload
  BY ExecAssumption
<1>5. JsonSize(NoOutput) = JsonLen
  BY <1>3, <1>4 DEF JsonSize
<1>6. QED
  BY <1>2, <1>4, <1>5

(* What Json builds is a frame that fits the payload limit. *)
LEMMA JsonParts ==
    ASSUME NEW kind \in Response, NEW out \in Output, JsonSize(out) <= MaxPayload
    PROVE  /\ IsFrame(Json(kind, out)) /\ Json(kind, out)[1].kind = kind
           /\ Json(kind, out)[1].out = out
           /\ Json(kind, out) \in Seq(Unit) /\ Len(Json(kind, out)) <= 1 + MaxPayload
<1>1. Len(out["stdout"]) \in Nat /\ Len(out["stderr"]) \in Nat
  BY LenProperties DEF Output, Channel
<1>2. PICK n \in Nat : n = JsonSize(out) /\ n <= MaxPayload
  <2>1. JsonSize(out) \in Nat
    <3>1. PICK i \in Nat : i = Len(out["stdout"])
      BY <1>1
    <3>2. PICK j \in Nat : j = Len(out["stderr"])
      BY <1>1
    <3>3. PICK l \in Nat : l = JsonLen
      BY ExecAssumption
    <3>4. JsonSize(out) = l + i + j
      BY <3>1, <3>2, <3>3 DEF JsonSize
    <3>5. QED
      BY ONLY <3>4
  <2>2. QED
    BY <2>1
<1>3. PICK b : b = [k \in 1 .. n |-> <<kind, k>>]
  OBVIOUS
<1>4. b \in Seq(Byte) /\ Len(b) = n /\ DOMAIN b = 1 .. n
  <2>1. \A k \in 1 .. n : <<kind, k>> \in Byte
    BY DEF Byte
  <2>2. b \in [1 .. n -> Byte]
    BY <1>3, <2>1
  <2>3. b \in Seq(Byte)
    BY <2>2, SeqDef
  <2>4. DOMAIN b = 1 .. n
    BY <1>3
  <2>5. QED
    BY <2>3, <2>4, LenProperties
<1>5. \A k \in DOMAIN b : b[k] = <<kind, 0 + k>>
  BY <1>3, <1>4
<1>6. PICK f : f = Frame(kind, b, out)
  OBVIOUS
<1>7. kind \in Channel \cup Response /\ 0 \in Nat /\ Len(b) <= MaxPayload
  BY <1>2, <1>4
<1>8. IsFrame(f) /\ f[1].kind = kind /\ f[1].out = out /\ Len(f) = Len(b) + 1
  <2>1. /\ IsFrame(Frame(kind, b, out)) /\ Frame(kind, b, out)[1].kind = kind
        /\ Frame(kind, b, out)[1].out = out /\ Len(Frame(kind, b, out)) = Len(b) + 1
    <3>1. b \in Seq(Byte)
      BY <1>4
    <3>2. QED
      BY <1>5, <1>7, <3>1, FrameParts
  <2>2. QED
    BY <1>6, <2>1
<1>9. f = Json(kind, out)
  BY <1>2, <1>3, <1>6 DEF Json
<1>10. MaxPayload \in Nat
  BY ExecAssumption
<1>11. f \in Seq(Unit) /\ Len(f) <= 1 + MaxPayload
  BY <1>2, <1>4, <1>8, <1>10 DEF IsFrame
<1>12. QED
  BY <1>8, <1>9, <1>11

(* What a read takes off a pipe and what it leaves. *)
LEMMA Cut ==
    ASSUME NEW s \in Seq(Byte), NEW n \in Nat, n <= Len(s),
           NEW a, a = SubSeq(s, 1, n), NEW b, b = SubSeq(s, n + 1, Len(s))
    PROVE  /\ a \in Seq(Byte) /\ Len(a) = n
           /\ \A i \in 1 .. n : a[i] = s[i]
           /\ b \in Seq(Byte) /\ Len(b) = Len(s) - n
           /\ \A i \in 1 .. Len(s) - n : b[i] = s[n + i]
<1>1. PICK m \in Nat : m = Len(s)
  BY LenProperties
<1>2. n <= m
  BY <1>1
<1>3. \A i \in 1 .. m : s[i] \in Byte
  BY <1>1, ElementOfSeq
<1>4. (\A i \in 1 .. n : s[i] \in Byte) /\ (\A i \in n + 1 .. m : s[i] \in Byte)
  BY <1>2, <1>3
<1>6. b = SubSeq(s, n + 1, m)
  BY <1>1
<1>7. /\ a \in Seq(Byte) /\ Len(a) = (IF 1 <= n THEN (n - 1) + 1 ELSE 0)
      /\ \A i \in 1 .. (n - 1) + 1 : a[i] = s[(1 + i) - 1]
  <2>1. 1 \in Int /\ n \in Int
    BY <1>2
  <2>2. QED
    BY <1>4, <2>1, SubSeqProperties
<1>8. Len(a) = n
  BY <1>2, <1>7
<1>9. ASSUME NEW i \in 1 .. n PROVE a[i] = s[i]
  <2>1. i \in 1 .. (n - 1) + 1 /\ (1 + i) - 1 = i
    BY <1>2
  <2>2. QED
    BY <1>7, <2>1
<1>10. PICK k \in Nat : k = n + 1
  BY <1>2
<1>11. /\ b \in Seq(Byte) /\ Len(b) = (IF k <= m THEN (m - k) + 1 ELSE 0)
       /\ \A i \in 1 .. (m - k) + 1 : b[i] = s[(k + i) - 1]
  <2>1. k \in Int /\ m \in Int /\ b = SubSeq(s, k, m) /\ \A i \in k .. m : s[i] \in Byte
    BY <1>4, <1>6, <1>10
  <2>2. QED
    <3>1. /\ SubSeq(s, k, m) \in Seq(Byte)
          /\ Len(SubSeq(s, k, m)) = (IF k <= m THEN (m - k) + 1 ELSE 0)
          /\ \A i \in 1 .. (m - k) + 1 : SubSeq(s, k, m)[i] = s[(k + i) - 1]
      <4>1. \A i \in k .. m : s[i] \in Byte
        BY <2>1
      <4>2. QED
        BY <4>1, SubSeqProperties
    <3>2. QED
      BY <2>1, <3>1
<1>12. Len(b) = m - n
  BY <1>2, <1>10, <1>11
<1>13. ASSUME NEW i \in 1 .. m - n PROVE b[i] = s[n + i]
  <2>1. (m - k) + 1 = m - n
    BY <1>2, <1>10
  <2>2. i \in 1 .. (m - k) + 1
    BY <2>1
  <2>3. (k + i) - 1 = n + i
    BY <1>2, <1>10
  <2>4. QED
    BY <1>11, <2>2, <2>3
<1>14. QED
  BY <1>1, <1>2, <1>7, <1>8, <1>9, <1>11, <1>12, <1>13

(* A read: n bytes, which are the next ones, as a frame or collected. *)
LEMMA ReadChunkParts ==
    ASSUME TypeOK, PipesOK, NEW ch \in Channel, ReadChunk(ch)
    PROVE  \E n \in Nat, b \in Seq(Byte) :
             /\ 1 <= n /\ n <= Len(pipe[ch]) /\ n <= MaxChunk /\ n <= MaxPayload /\ Len(b) = n
             /\ \A k \in DOMAIN b : b[k] = <<ch, Read(ch) + k>>
             /\ pipe' \in Output /\ \A c \in Channel \ {ch} : pipe'[c] = pipe[c]
             /\ Len(pipe'[ch]) = Len(pipe[ch]) - n
             /\ \A i \in DOMAIN pipe'[ch] : pipe'[ch][i] = <<ch, (Read(ch) + n) + i>>
             /\ Pass(ch, b)
<1>1. PICK s \in Seq(Byte) : s = pipe[ch] /\ s # << >>
  BY DEF TypeOK, Output, ReadChunk
<1>2. PICK n : n = Least(MaxChunk, Len(s))
  OBVIOUS
<1>3. PICK b : b = SubSeq(s, 1, n)
  OBVIOUS
<1>4. PICK c : c = SubSeq(s, n + 1, Len(s))
  OBVIOUS
<1>5. /\ n \in Nat /\ 1 <= n /\ n <= Len(s) /\ n <= MaxChunk /\ Len(s) \in Nat
      /\ b \in Seq(Byte) /\ Len(b) = n
      /\ \A i \in 1 .. n : b[i] = s[i]
      /\ c \in Seq(Byte) /\ Len(c) = Len(s) - n
      /\ \A i \in 1 .. Len(s) - n : c[i] = s[n + i]
  <2>1. s # << >>
    BY <1>1
  <2>2. Len(s) \in Nat /\ Len(s) >= 1
    BY <2>1, Popped
  <2>3. n \in Nat /\ 1 <= n /\ n <= Len(s) /\ n <= MaxChunk
    BY <1>2, <2>2, ExecAssumption DEF Least
  <2>4. /\ b \in Seq(Byte) /\ Len(b) = n
        /\ \A i \in 1 .. n : b[i] = s[i]
        /\ c \in Seq(Byte) /\ Len(c) = Len(s) - n
        /\ \A i \in 1 .. Len(s) - n : c[i] = s[n + i]
    BY <1>3, <1>4, <2>3, Cut
  <2>5. QED
    BY <2>2, <2>3, <2>4
<1>6. Pass(ch, b) /\ pipe' = [pipe EXCEPT ![ch] = c]
  BY <1>1, <1>2, <1>3, <1>4 DEF ReadChunk
<1>7. pipe' \in Output /\ pipe'[ch] = c /\ \A d \in Channel \ {ch} : pipe'[d] = pipe[d]
  BY <1>5, <1>6 DEF TypeOK, Output
<1>8. PICK m \in Nat : m = Len(s)
  BY <1>5
<1>9. DOMAIN s = 1 .. m /\ DOMAIN b = 1 .. n /\ DOMAIN c = 1 .. m - n
  BY <1>5, <1>8, LenProperties
<1>10. PICK r \in Nat : r = Read(ch)
  <2>1. Len(pipe[ch]) <= produced[ch] /\ produced[ch] \in Nat /\ Len(pipe[ch]) \in Nat
    BY <1>1, <1>5, ExecAssumption DEF PipesOK, TypeOK
  <2>2. QED
    BY <2>1 DEF Read
<1>11. \A i \in 1 .. m : s[i] = <<ch, r + i>>
  BY <1>1, <1>9, <1>10 DEF PipesOK
<1>12. ASSUME NEW k \in DOMAIN b PROVE b[k] = <<ch, r + k>>
  <2>1. k \in 1 .. n /\ k \in 1 .. m
    BY <1>5, <1>8, <1>9
  <2>2. QED
    BY <1>5, <1>11, <2>1
<1>13. ASSUME NEW i \in DOMAIN c PROVE c[i] = <<ch, (r + n) + i>>
  <2>1. i \in 1 .. m - n
    BY <1>9
  <2>2. n + i \in 1 .. m /\ r + (n + i) = (r + n) + i
    BY <1>5, <2>1
  <2>3. c[i] = s[n + i]
    BY <1>5, <1>8, <2>1
  <2>4. s[n + i] = <<ch, r + (n + i)>>
    BY <1>11, <2>2
  <2>5. QED
    BY <2>2, <2>3, <2>4
<1>14. n <= MaxPayload
  BY <1>5, ExecAssumption
<1>15. /\ n <= Len(pipe[ch]) /\ Len(pipe'[ch]) = Len(pipe[ch]) - n
       /\ \A k \in DOMAIN b : b[k] = <<ch, Read(ch) + k>>
       /\ \A i \in DOMAIN pipe'[ch] : pipe'[ch][i] = <<ch, (Read(ch) + n) + i>>
  BY <1>1, <1>5, <1>7, <1>10, <1>12, <1>13
<1>16. n \in Nat /\ b \in Seq(Byte)
  BY <1>5
<1>17. /\ 1 <= n /\ n <= Len(pipe[ch]) /\ n <= MaxChunk /\ n <= MaxPayload /\ Len(b) = n
       /\ \A k \in DOMAIN b : b[k] = <<ch, Read(ch) + k>>
       /\ pipe' \in Output /\ \A d \in Channel \ {ch} : pipe'[d] = pipe[d]
       /\ Len(pipe'[ch]) = Len(pipe[ch]) - n
       /\ \A i \in DOMAIN pipe'[ch] : pipe'[ch][i] = <<ch, (Read(ch) + n) + i>>
       /\ Pass(ch, b)
  BY <1>5, <1>6, <1>7, <1>14, <1>15
<1>18. QED
  BY <1>16, <1>17, Zenon

(* The units of the connection only move. *)
LEMMA UnitsMove ==
    ASSUME TypeOK, WriteUnit \/ RecvUnit
    PROVE  Stream' = Stream
<1>1. rx \in Seq(Unit) /\ wire \in Seq(Unit) /\ pending \in Seq(Unit)
  BY DEF TypeOK
<1>2. CASE WriteUnit
  <2>1. PICK w : w = Append(wire, Head(pending))
    OBVIOUS
  <2>2. PICK p : p = Tail(pending)
    OBVIOUS
  <2>3. pending # << >> /\ wire' = w /\ pending' = p /\ rx' = rx
    BY <1>2, <2>1, <2>2 DEF WriteUnit, clientVars
  <2>4. w \o p = wire \o pending
    BY <1>1, <2>1, <2>2, <2>3, Moved
  <2>5. w \in Seq(Unit) /\ p \in Seq(Unit)
    BY <1>1, <2>1, <2>2, <2>3, Popped, Pushed
  <2>6. (rx \o w) \o p = rx \o (w \o p) /\ (rx \o wire) \o pending = rx \o (wire \o pending)
    <3>1. (rx \o w) \o p = rx \o (w \o p)
      BY <1>1, <2>5, ConcatAssociative
    <3>2. (rx \o wire) \o pending = rx \o (wire \o pending)
      BY <1>1, ConcatAssociative
    <3>3. QED
      BY <3>1, <3>2
  <2>7. QED
    BY <2>3, <2>4, <2>6 DEF Stream
<1>3. CASE RecvUnit
  <2>1. PICK r : r = Append(rx, Head(wire))
    OBVIOUS
  <2>2. PICK w : w = Tail(wire)
    OBVIOUS
  <2>3. wire # << >> /\ wire' = w /\ pending' = pending /\ rx' = r
    BY <1>3, <2>1, <2>2 DEF RecvUnit, daemonVars
  <2>4. r \o w = rx \o wire
    BY <1>1, <2>1, <2>2, <2>3, Moved
  <2>5. QED
    BY <2>3, <2>4 DEF Stream
<1>4. QED
  BY <1>2, <1>3

(* A frame begins when none is pending. *)
LEMMA FrameBegins ==
    ASSUME TypeOK, pending = << >>, NEW f \in Seq(Unit),
           rx' = rx, wire' = wire, pending' = f
    PROVE  Stream \in Seq(Unit) /\ Stream = rx \o wire /\ Stream' = Stream \o f
<1>1. rx \in Seq(Unit) /\ wire \in Seq(Unit)
  BY DEF TypeOK
<1>2. PICK s : s = rx \o wire
  OBVIOUS
<1>3. s \in Seq(Unit)
  BY <1>1, <1>2, Joined
<1>4. Stream = s
  BY <1>2, <1>3, ConcatEmptySeq DEF Stream
<1>5. Stream' = s \o f
  BY <1>2 DEF Stream
<1>6. QED
  BY <1>2, <1>3, <1>4, <1>5

(* What the daemon has read of a channel is a number. *)
LEMMA ReadIsNat ==
    ASSUME TypeOK, PipesOK, NEW ch \in Channel
    PROVE  Read(ch) \in Nat
<1>1. Len(pipe[ch]) <= produced[ch] /\ produced[ch] \in Nat
  BY ExecAssumption DEF PipesOK, TypeOK
<1>2. Len(pipe[ch]) \in Nat
  BY LenProperties DEF TypeOK, Output
<1>3. QED
  BY <1>1, <1>2 DEF Read

(* The frame of a chunk ... *)
GoesOn(b, r, ch) == \A k \in DOMAIN b : b[k] = <<ch, r + k>>
Numbered(f, r, ch) == \A k \in 1 .. f[1].len : f[k + 1].byte = <<ch, r + k>>

(* The frame of a chunk holds the chunk, with its numbering. *)
LEMMA ChunkParts ==
    ASSUME NEW ch \in Channel, NEW b \in Seq(Byte), Len(b) <= MaxPayload, NEW r \in Nat,
           GoesOn(b, r, ch), NEW f, f = Frame(ch, b, NoOutput)
    PROVE  /\ IsFrame(f) /\ f[1].kind = ch /\ f[1].len = Len(b) /\ Len(f) = Len(b) + 1
           /\ Numbered(f, r, ch)
<1>1. ch \in Channel \cup Response /\ NoOutput \in Output
  BY NoOutputType
<1>2. /\ IsFrame(Frame(ch, b, NoOutput)) /\ Frame(ch, b, NoOutput)[1].kind = ch
      /\ Frame(ch, b, NoOutput)[1].len = Len(b) /\ Len(Frame(ch, b, NoOutput)) = Len(b) + 1
      /\ \A k \in 1 .. Len(b) : Frame(ch, b, NoOutput)[k + 1].byte = <<ch, r + k>>
  BY <1>1, FrameParts DEF GoesOn
<1>3. QED
  BY <1>2 DEF Numbered

(* ... and of the end of a pipe. *)
LEMMA EofParts ==
    ASSUME NEW ch \in Channel, NEW f, f = Frame(ch, << >>, NoOutput)
    PROVE  IsFrame(f) /\ f[1].kind = ch /\ f[1].len = 0 /\ Len(f) = 1
<1>1. << >> \in Seq(Byte) /\ Len(<< >>) = 0 /\ DOMAIN << >> = {} /\ 0 <= MaxPayload
  BY EmptySeq, ExecAssumption
<1>2. PICK b \in Seq(Byte) : b = << >> /\ Len(b) = 0 /\ DOMAIN b = {}
  BY <1>1
<1>3. Len(b) <= MaxPayload /\ 0 \in Nat /\ GoesOn(b, 0, ch)
  BY <1>1, <1>2 DEF GoesOn
<1>4. f = Frame(ch, b, NoOutput)
  BY <1>2
<1>5. IsFrame(f) /\ f[1].kind = ch /\ f[1].len = Len(b) /\ Len(f) = Len(b) + 1
  BY <1>3, <1>4, ChunkParts
<1>6. QED
  BY <1>2, <1>5
-----------------------------------------------------------------------------
(* Types, in three parts. *)
ScalarsOK ==
    /\ mode \in {"stream", "collect"}
    /\ child \in {"none", "running", "exited", "killed"} /\ heirs \in BOOLEAN
    /\ produced \in [Channel -> 0 .. MaxOut]
    /\ dpc \in {"spawn", "select", "write", "result", "answer"} \cup DaemonEnds
    /\ open \in [Channel -> BOOLEAN] /\ waited \in BOOLEAN
    /\ fired \in BOOLEAN /\ cut \in BOOLEAN
    /\ cpc \in {"read"} \cup ClientEnds

OutputsOK == pipe \in Output /\ output \in Output /\ emitted \in Output

QueuesOK ==
    /\ pending \in Seq(Unit) /\ wire \in Seq(Unit) /\ rx \in Seq(Unit)
    /\ Len(pending) <= 1 + MaxPayload /\ Len(wire) <= SocketCap + 1
    /\ dpc = "write" => Len(pending) <= 1 + MaxChunk

(* The type invariant is the conjunction of its parts. *)
LEMMA TypeParts == TypeOK <=> ScalarsOK /\ OutputsOK /\ QueuesOK
  BY DEF TypeOK, ScalarsOK, OutputsOK, QueuesOK

(* The control variables keep their types. *)
LEMMA ScalarsStep ==
    ASSUME ScalarsOK, [Next]_vars
    PROVE  ScalarsOK'
<1>1. CASE ChildExit
  BY <1>1 DEF ChildExit, daemonVars, clientVars, ScalarsOK, DaemonEnds, ClientEnds
<1>2. CASE HeirsExit
  BY <1>2 DEF HeirsExit, daemonVars, clientVars, ScalarsOK, DaemonEnds, ClientEnds
<1>3. ASSUME NEW ch \in Channel, ChildWrite(ch) PROVE ScalarsOK'
  <2>1. produced[ch] \in 0 .. MaxOut /\ produced[ch] < MaxOut
    BY <1>3 DEF ChildWrite, ScalarsOK
  <2>2. produced[ch] + 1 \in 0 .. MaxOut
    BY <2>1, ExecAssumption
  <2>3. produced' \in [Channel -> 0 .. MaxOut]
    BY <1>3, <2>2 DEF ChildWrite, ScalarsOK
  <2>4. QED
    BY <1>3, <2>3 DEF ChildWrite, ScalarsOK, daemonVars, clientVars
<1>4. CASE Spawn
  BY <1>4 DEF Spawn, clientVars, Answer, ScalarsOK, DaemonEnds, ClientEnds
<1>5. CASE ChildWaited
  BY <1>5 DEF ChildWaited, childVars, clientVars, ScalarsOK, DaemonEnds, ClientEnds
<1>6. CASE LoopDone
  BY <1>6 DEF LoopDone, childVars, clientVars, Result, Answer, ScalarsOK, DaemonEnds, ClientEnds
<1>7. CASE WriteUnit
  BY <1>7 DEF WriteUnit, childVars, clientVars, ScalarsOK, DaemonEnds, ClientEnds
<1>8. CASE FrameWritten
  BY <1>8 DEF FrameWritten, childVars, clientVars, ScalarsOK, DaemonEnds, ClientEnds
<1>9. CASE WriteFails
  BY <1>9 DEF WriteFails, clientVars, Kill, ScalarsOK, DaemonEnds, ClientEnds
<1>10. ASSUME NEW ch \in Channel, ReadChunk(ch) PROVE ScalarsOK'
  BY <1>10 DEF ReadChunk, clientVars, Pass, ScalarsOK, DaemonEnds, ClientEnds
<1>11. ASSUME NEW ch \in Channel, ReadEof(ch) PROVE ScalarsOK'
  BY <1>11 DEF ReadEof, childVars, clientVars, Pass, ScalarsOK, DaemonEnds, ClientEnds
<1>12. CASE ReadFails
  BY <1>12 DEF ReadFails, clientVars, Kill, Answer, ScalarsOK, DaemonEnds, ClientEnds
<1>13. CASE Timeout
  <2>1. cut' \in BOOLEAN
    BY <1>13, Zenon DEF Timeout, DropPending
  <2>2. fired' \in BOOLEAN
    BY <1>13, Zenon DEF Timeout
  <2>3. /\ child' \in {"none", "running", "exited", "killed"} /\ dpc' = "answer"
        /\ UNCHANGED <<heirs, produced, mode, open, waited, cpc>>
    BY <1>13 DEF Timeout, Kill, Answer, ScalarsOK, clientVars
  <2>4. QED
    BY <2>1, <2>2, <2>3 DEF ScalarsOK
<1>14. CASE RecvUnit
  BY <1>14 DEF RecvUnit, childVars, daemonVars, ScalarsOK, DaemonEnds, ClientEnds
<1>15. CASE HandleStream
  BY <1>15 DEF HandleStream, childVars, daemonVars, ScalarsOK, DaemonEnds, ClientEnds
<1>16. CASE HandleResponse
  <2>1. cpc' \in {"completed", "timeout", "failed", "bad_frame"}
    BY <1>16 DEF HandleResponse, Response
  <2>2. QED
    BY <1>16, <2>1 DEF HandleResponse, childVars, daemonVars, ScalarsOK, ClientEnds
<1>17. CASE ReadFailsAtClient
  BY <1>17 DEF ReadFailsAtClient, childVars, daemonVars, ScalarsOK, DaemonEnds, ClientEnds
<1>18. CASE ClientQuit
  BY <1>18 DEF ClientQuit, childVars, daemonVars, ScalarsOK, DaemonEnds, ClientEnds
<1>19. CASE UNCHANGED vars
  BY <1>19 DEF vars, childVars, daemonVars, clientVars, ScalarsOK, DaemonEnds, ClientEnds
<1>20. QED
  BY <1>1, <1>2, <1>3, <1>4, <1>5, <1>6, <1>7, <1>8, <1>9, <1>10, <1>11, <1>12, <1>13, <1>14,
     <1>15, <1>16, <1>17, <1>18, <1>19
     DEF Next, Command, Daemon, Client, Terminated

(* Outputs stay sequences of bytes. *)
LEMMA OutputsStep ==
    ASSUME TypeOK, PipesOK, [Next]_vars
    PROVE  OutputsOK'
<1>1. CASE ChildExit
  BY <1>1 DEF ChildExit, daemonVars, clientVars, OutputsOK, TypeOK
<1>2. CASE HeirsExit
  BY <1>2 DEF HeirsExit, daemonVars, clientVars, OutputsOK, TypeOK
<1>3. ASSUME NEW ch \in Channel, ChildWrite(ch) PROVE OutputsOK'
  <2>1. pipe[ch] \in Seq(Byte) /\ produced[ch] \in Nat
    BY ExecAssumption DEF TypeOK, Output
  <2>2. <<ch, produced[ch] + 1>> \in Byte
    BY <2>1 DEF Byte
  <2>3. Append(pipe[ch], <<ch, produced[ch] + 1>>) \in Seq(Byte)
    BY <2>1, <2>2, Pushed
  <2>4. pipe' \in Output
    BY <1>3, <2>3 DEF ChildWrite, TypeOK, Output
  <2>5. QED
    BY <1>3, <2>4 DEF ChildWrite, TypeOK, OutputsOK, daemonVars, clientVars
<1>4. CASE Spawn
  BY <1>4 DEF Spawn, clientVars, Answer, OutputsOK, TypeOK
<1>5. CASE ChildWaited
  BY <1>5 DEF ChildWaited, childVars, clientVars, OutputsOK, TypeOK
<1>6. CASE LoopDone
  BY <1>6 DEF LoopDone, childVars, clientVars, Result, Answer, OutputsOK, TypeOK
<1>7. CASE WriteUnit
  BY <1>7 DEF WriteUnit, childVars, clientVars, OutputsOK, TypeOK
<1>8. CASE FrameWritten
  BY <1>8 DEF FrameWritten, childVars, clientVars, OutputsOK, TypeOK
<1>9. CASE WriteFails
  BY <1>9 DEF WriteFails, clientVars, Kill, OutputsOK, TypeOK
<1>10. ASSUME NEW ch \in Channel, ReadChunk(ch) PROVE OutputsOK'
  <2>1. PICK n \in Nat, b \in Seq(Byte) : pipe' \in Output /\ Pass(ch, b)
    BY <1>10, ReadChunkParts
  <2>2. output[ch] \in Seq(Byte)
    BY DEF TypeOK, Output
  <2>3. output[ch] \o b \in Seq(Byte)
    BY <2>2, Joined
  <2>4. output' \in Output
    BY <2>1, <2>3 DEF Pass, TypeOK, Output
  <2>5. QED
    BY <1>10, <2>1, <2>4 DEF ReadChunk, TypeOK, OutputsOK, clientVars
<1>11. ASSUME NEW ch \in Channel, ReadEof(ch) PROVE OutputsOK'
  <2>1. output[ch] \in Seq(Byte) /\ << >> \in Seq(Byte)
    BY EmptySeq DEF TypeOK, Output
  <2>2. output[ch] \o << >> = output[ch]
    BY <2>1, ConcatEmptySeq
  <2>3. output' \in Output
    BY <1>11, <2>1, <2>2 DEF ReadEof, Pass, TypeOK, Output
  <2>4. QED
    BY <1>11, <2>3 DEF ReadEof, TypeOK, OutputsOK, childVars, clientVars
<1>12. CASE ReadFails
  BY <1>12 DEF ReadFails, clientVars, Kill, Answer, OutputsOK, TypeOK
<1>13. CASE Timeout
  BY <1>13 DEF Timeout, clientVars, Kill, Answer, DropPending, OutputsOK, TypeOK
<1>14. CASE RecvUnit
  BY <1>14 DEF RecvUnit, childVars, daemonVars, OutputsOK, TypeOK
<1>15. CASE HandleStream
  <2>1. rx \in Seq(Unit) /\ rx # << >> /\ IsHead(rx[1]) /\ Len(rx) = rx[1].len + 1
        /\ rx[1].kind \in Channel
    BY <1>15 DEF HandleStream, FrameRead, IsHead, TypeOK
  <2>2. PICK n \in Nat : n = rx[1].len
    BY <2>1, Popped, UnitFields
  <2>3. PICK b : b = [k \in 1 .. n |->
                        IF rx[k + 1].unit = "byte" THEN rx[k + 1].byte ELSE <<"failed", 1>>]
    OBVIOUS
  <2>4. emitted' = [emitted EXCEPT ![rx[1].kind] = @ \o b]
    BY <1>15, <2>2, <2>3 DEF HandleStream
  <2>5. ASSUME NEW k \in 1 .. n PROVE b[k] \in Byte
    <3>1. k + 1 \in 1 .. Len(rx)
      BY <2>1, <2>2
    <3>2. rx[k + 1] \in Unit
      BY <2>1, <3>1, ElementOfSeq
    <3>3. <<"failed", 1>> \in Byte
      BY DEF Byte, Response
    <3>4. rx[k + 1].unit = "byte" => rx[k + 1].byte \in Byte
      BY <3>2, UnitFields
    <3>5. QED
      BY <2>3, <3>3, <3>4
  <2>6. b \in Seq(Byte)
    <3>1. b \in [1 .. n -> Byte]
      BY <2>3, <2>5
    <3>2. QED
      BY <3>1, SeqDef
  <2>7. emitted[rx[1].kind] \in Seq(Byte)
    BY <2>1 DEF TypeOK, Output
  <2>8. emitted[rx[1].kind] \o b \in Seq(Byte)
    BY <2>6, <2>7, Joined
  <2>9. emitted' \in Output
    BY <2>1, <2>4, <2>8 DEF TypeOK, Output
  <2>10. QED
    BY <1>15, <2>9 DEF HandleStream, childVars, daemonVars, TypeOK, OutputsOK
<1>16. CASE HandleResponse
  <2>1. rx \in Seq(Unit) /\ rx # << >> /\ IsHead(rx[1])
    BY <1>16 DEF HandleResponse, FrameRead, IsHead, TypeOK
  <2>2. rx[1].out \in Output
    BY <2>1, Popped, UnitFields
  <2>3. \A ch \in Channel : emitted[ch] \o rx[1].out[ch] \in Seq(Byte)
    <3>1. SUFFICES ASSUME NEW ch \in Channel PROVE emitted[ch] \o rx[1].out[ch] \in Seq(Byte)
      OBVIOUS
    <3>2. emitted[ch] \in Seq(Byte) /\ rx[1].out[ch] \in Seq(Byte)
      BY <2>2 DEF TypeOK, Output
    <3>3. QED
      BY <3>2, Joined
  <2>4. [ch \in Channel |-> emitted[ch] \o rx[1].out[ch]] \in Output
    BY <2>3 DEF Output
  <2>5. emitted' \in Output
    BY <1>16, <2>4 DEF HandleResponse, TypeOK
  <2>6. QED
    BY <1>16, <2>5 DEF HandleResponse, childVars, daemonVars, TypeOK, OutputsOK
<1>17. CASE ReadFailsAtClient
  BY <1>17 DEF ReadFailsAtClient, childVars, daemonVars, OutputsOK, TypeOK
<1>18. CASE ClientQuit
  BY <1>18 DEF ClientQuit, childVars, daemonVars, OutputsOK, TypeOK
<1>19. CASE UNCHANGED vars
  BY <1>19 DEF vars, childVars, daemonVars, clientVars, OutputsOK, TypeOK
<1>20. QED
  BY <1>1, <1>2, <1>3, <1>4, <1>5, <1>6, <1>7, <1>8, <1>9, <1>10, <1>11, <1>12, <1>13, <1>14,
     <1>15, <1>16, <1>17, <1>18, <1>19
     DEF Next, Command, Daemon, Client, Terminated

(* What is on the connection stays units, within the bounds. *)
LEMMA QueuesStep ==
    ASSUME TypeOK, PipesOK, ChildOK, [Next]_vars
    PROVE  QueuesOK'
<1>1. CASE ChildExit
  BY <1>1 DEF ChildExit, daemonVars, clientVars, QueuesOK, TypeOK
<1>2. CASE HeirsExit
  BY <1>2 DEF HeirsExit, daemonVars, clientVars, QueuesOK, TypeOK
<1>3. ASSUME NEW ch \in Channel, ChildWrite(ch) PROVE QueuesOK'
  BY <1>3 DEF ChildWrite, daemonVars, clientVars, QueuesOK, TypeOK
<1>4. CASE Spawn
  <2>1. PICK f : f = Json("failed", NoOutput)
    OBVIOUS
  <2>2. f \in Seq(Unit) /\ Len(f) <= 1 + MaxPayload
    BY <2>1, JsonParts, NoOutputType DEF Response
  <2>3. QED
    BY <1>4, <2>1, <2>2 DEF Spawn, Answer, clientVars, QueuesOK, TypeOK
<1>5. CASE ChildWaited
  BY <1>5 DEF ChildWaited, childVars, clientVars, QueuesOK, TypeOK
<1>6. CASE LoopDone
  <2>1. PICK f : f = Json("result", NoOutput)
    OBVIOUS
  <2>2. f \in Seq(Unit) /\ Len(f) <= 1 + MaxPayload
    BY <2>1, JsonParts, NoOutputType DEF Response
  <2>3. UNCHANGED <<wire, rx>> /\ dpc' # "write"
    BY <1>6 DEF LoopDone, Result, Answer, clientVars
  <2>4. CASE mode = "stream" /\ dpc' = "result" /\ pending' = Json("result", NoOutput)
    BY <2>1, <2>2, <2>3, <2>4 DEF QueuesOK, TypeOK
  <2>5. CASE JsonSize(output) <= MaxPayload /\ Answer(Json("result", output))
    <3>1. PICK g : g = Json("result", output)
      OBVIOUS
    <3>2. output \in Output
      BY DEF TypeOK
    <3>3. g \in Seq(Unit) /\ Len(g) <= 1 + MaxPayload
      BY <2>5, <3>1, <3>2, JsonParts DEF Response
    <3>4. QED
      BY <2>3, <2>5, <3>1, <3>3 DEF Answer, QueuesOK, TypeOK
  <2>6. CASE UNCHANGED pending
    BY <2>3, <2>6 DEF QueuesOK, TypeOK
  <2>7. QED
    BY <1>6, <2>4, <2>5, <2>6 DEF LoopDone, Result
<1>7. CASE WriteUnit
  <2>1. PICK w : w = Append(wire, Head(pending))
    OBVIOUS
  <2>2. PICK p : p = Tail(pending)
    OBVIOUS
  <2>3. /\ pending # << >> /\ Len(wire) < SocketCap /\ wire' = w /\ pending' = p /\ rx' = rx
        /\ dpc' = dpc
    BY <1>7, <2>1, <2>2 DEF WriteUnit, clientVars
  <2>4. PICK n \in Nat : n = Len(pending) /\ n >= 1
    BY <2>3, Popped DEF TypeOK
  <2>5. PICK m \in Nat : m = Len(wire)
    BY LenProperties DEF TypeOK
  <2>6. p \in Seq(Unit) /\ Len(p) = n - 1 /\ Head(pending) \in Unit
    BY <2>2, <2>3, <2>4, Popped DEF TypeOK
  <2>7. w \in Seq(Unit) /\ Len(w) = m + 1
    BY <2>1, <2>5, <2>6, Pushed DEF TypeOK
  <2>8. m + 1 <= SocketCap + 1 /\ n <= 1 + MaxPayload /\ (dpc = "write" => n <= 1 + MaxChunk)
    BY <2>3, <2>4, <2>5, ExecAssumption DEF TypeOK
  <2>9. n - 1 <= 1 + MaxPayload /\ (dpc = "write" => n - 1 <= 1 + MaxChunk)
    BY <2>8, ExecAssumption
  <2>10. QED
    BY <2>3, <2>6, <2>7, <2>8, <2>9 DEF QueuesOK, TypeOK
<1>8. CASE FrameWritten
  <2>1. dpc' # "write" /\ UNCHANGED <<pending, wire, rx>>
    BY <1>8 DEF FrameWritten, clientVars
  <2>2. QED
    BY <2>1 DEF QueuesOK, TypeOK
<1>9. CASE WriteFails
  <2>1. << >> \in Seq(Unit) /\ Len(<< >>) = 0 /\ 0 <= 1 + MaxPayload
    BY EmptySeq, ExecAssumption
  <2>2. QED
    BY <1>9, <2>1 DEF WriteFails, clientVars, QueuesOK, TypeOK
<1>10. ASSUME NEW ch \in Channel, ReadChunk(ch) PROVE QueuesOK'
  <2>1. PICK n \in Nat, b \in Seq(Byte) :
             /\ n <= MaxChunk /\ n <= MaxPayload /\ Len(b) = n /\ Pass(ch, b)
             /\ \A k \in DOMAIN b : b[k] = <<ch, Read(ch) + k>>
    BY <1>10, ReadChunkParts
  <2>2. UNCHANGED <<wire, rx>>
    BY <1>10 DEF ReadChunk, clientVars
  <2>3. CASE mode = "stream"
    <3>1. PICK f : f = Frame(ch, b, NoOutput)
      OBVIOUS
    <3>2. Read(ch) \in Nat
      BY ReadIsNat
    <3>3. IsFrame(f) /\ Len(f) = n + 1
      <4>1. GoesOn(b, Read(ch), ch) /\ Len(b) <= MaxPayload
        BY <2>1 DEF GoesOn
      <4>2. IsFrame(f) /\ Len(f) = Len(b) + 1
        BY <3>1, <3>2, <4>1, ChunkParts
      <4>3. QED
        BY <2>1, <4>2
    <3>4. f \in Seq(Unit)
      BY <3>3 DEF IsFrame
    <3>5. Len(f) <= 1 + MaxPayload /\ Len(f) <= 1 + MaxChunk
      BY <2>1, <3>3, ExecAssumption
    <3>6. QED
      BY <2>1, <2>2, <2>3, <3>1, <3>4, <3>5 DEF Pass, QueuesOK, TypeOK
  <2>4. CASE mode # "stream"
    BY <2>1, <2>2, <2>4 DEF Pass, QueuesOK, TypeOK
  <2>5. QED
    BY <2>3, <2>4
<1>11. ASSUME NEW ch \in Channel, ReadEof(ch) PROVE QueuesOK'
  <2>1. UNCHANGED <<wire, rx>> /\ Pass(ch, << >>)
    BY <1>11 DEF ReadEof, clientVars
  <2>2. CASE mode = "stream"
    <3>1. PICK f : f = Frame(ch, << >>, NoOutput)
      OBVIOUS
    <3>2. IsFrame(f) /\ Len(f) = 1
      BY <3>1, EofParts
    <3>3. f \in Seq(Unit)
      BY <3>2 DEF IsFrame
    <3>4. Len(f) <= 1 + MaxPayload /\ Len(f) <= 1 + MaxChunk
      BY <3>2, ExecAssumption
    <3>5. QED
      BY <2>1, <2>2, <3>1, <3>3, <3>4 DEF Pass, QueuesOK, TypeOK
  <2>3. CASE mode # "stream"
    BY <2>1, <2>3 DEF Pass, QueuesOK, TypeOK
  <2>4. QED
    BY <2>2, <2>3
<1>12. CASE ReadFails
  <2>1. PICK f : f = Json("failed", NoOutput)
    OBVIOUS
  <2>2. f \in Seq(Unit) /\ Len(f) <= 1 + MaxPayload
    BY <2>1, JsonParts, NoOutputType DEF Response
  <2>3. QED
    BY <1>12, <2>1, <2>2 DEF ReadFails, Answer, clientVars, QueuesOK, TypeOK
<1>13. CASE Timeout
  <2>1. PICK f : f = Json("timeout", NoOutput)
    OBVIOUS
  <2>2. f \in Seq(Unit) /\ Len(f) <= 1 + MaxPayload
    BY <2>1, JsonParts, NoOutputType DEF Response
  <2>3. ~fired /\ Len(wire) <= SocketCap
    BY <1>13 DEF Timeout, TimedOut, ChildOK, Ended, DaemonEnds
  <2>4. PICK c : c = [unit |-> "cut"]
    OBVIOUS
  <2>5. c \in Unit
    BY <2>4 DEF Unit
  <2>6. PICK w : w = Append(wire, c)
    OBVIOUS
  <2>7. PICK m \in Nat : m = Len(wire) /\ m <= SocketCap
    BY <2>3, LenProperties DEF TypeOK
  <2>8. w \in Seq(Unit) /\ Len(w) = m + 1
    BY <2>5, <2>6, <2>7, Pushed DEF TypeOK
  <2>9. Len(w) <= SocketCap + 1
    BY <2>7, <2>8, ExecAssumption
  <2>10. wire' = wire \/ wire' = w
    BY <1>13, <2>4, <2>6 DEF Timeout, DropPending
  <2>11. QED
    BY <1>13, <2>1, <2>2, <2>8, <2>9, <2>10 DEF Timeout, Answer, clientVars, QueuesOK, TypeOK
<1>14. CASE RecvUnit
  <2>1. PICK r : r = Append(rx, Head(wire))
    OBVIOUS
  <2>2. PICK w : w = Tail(wire)
    OBVIOUS
  <2>3. wire # << >> /\ wire' = w /\ rx' = r /\ UNCHANGED <<pending, dpc>>
    BY <1>14, <2>1, <2>2 DEF RecvUnit, daemonVars
  <2>4. PICK m \in Nat : m = Len(wire) /\ m <= SocketCap + 1
    BY LenProperties DEF TypeOK
  <2>5. w \in Seq(Unit) /\ Len(w) = m - 1 /\ Head(wire) \in Unit
    BY <2>2, <2>3, <2>4, Popped DEF TypeOK
  <2>6. r \in Seq(Unit)
    BY <2>1, <2>5, Pushed DEF TypeOK
  <2>7. Len(w) <= SocketCap + 1
    BY <2>4, <2>5, ExecAssumption
  <2>8. QED
    BY <2>3, <2>5, <2>6, <2>7 DEF QueuesOK, TypeOK
<1>15. CASE HandleStream
  <2>1. << >> \in Seq(Unit)
    BY EmptySeq
  <2>2. QED
    BY <1>15, <2>1 DEF HandleStream, daemonVars, QueuesOK, TypeOK
<1>16. CASE HandleResponse
  <2>1. << >> \in Seq(Unit)
    BY EmptySeq
  <2>2. QED
    BY <1>16, <2>1 DEF HandleResponse, daemonVars, QueuesOK, TypeOK
<1>17. CASE ReadFailsAtClient
  BY <1>17 DEF ReadFailsAtClient, childVars, daemonVars, QueuesOK, TypeOK
<1>18. CASE ClientQuit
  BY <1>18 DEF ClientQuit, childVars, daemonVars, QueuesOK, TypeOK
<1>19. CASE UNCHANGED vars
  BY <1>19 DEF vars, childVars, daemonVars, clientVars, QueuesOK, TypeOK
<1>20. QED
  BY <1>1, <1>2, <1>3, <1>4, <1>5, <1>6, <1>7, <1>8, <1>9, <1>10, <1>11, <1>12, <1>13, <1>14,
     <1>15, <1>16, <1>17, <1>18, <1>19
     DEF Next, Command, Daemon, Client, Terminated
-----------------------------------------------------------------------------
(* The command and the handler go together. *)
LEMMA ChildStep ==
    ASSUME TypeOK, ChildOK, PipesOK, [Next]_vars
    PROVE  ChildOK'
<1>1. CASE ChildExit
  BY <1>1
     DEF ChildExit, daemonVars, clientVars, ChildOK, TypeOK, Writable, Attached, Ended,
         DaemonEnds
<1>2. CASE HeirsExit
  BY <1>2
     DEF HeirsExit, daemonVars, clientVars, ChildOK, TypeOK, Writable, Attached, Ended,
         DaemonEnds
<1>3. ASSUME NEW ch \in Channel, ChildWrite(ch) PROVE ChildOK'
  BY <1>3
     DEF ChildWrite, daemonVars, clientVars, ChildOK, TypeOK, Writable, Attached, Ended,
         DaemonEnds
<1>4. CASE Spawn
  <2>1. /\ child = "none" /\ ~heirs /\ dpc = "spawn" /\ pending = << >> /\ ~fired
        /\ \A ch \in Channel : open[ch]
        /\ UNCHANGED <<heirs, pipe, mode, open, waited, fired, cut, wire>>
    BY <1>4 DEF Spawn, ChildOK, Ended, DaemonEnds
  <2>2. CASE dpc' = "select" /\ child' = "running" /\ UNCHANGED pending
    <3>1. ~waited
      BY <1>4 DEF Spawn, ChildOK
    <3>2. QED
      BY <2>1, <2>2, <3>1 DEF ChildOK, Attached, Ended, DaemonEnds
  <2>3. CASE Answer(Json("failed", NoOutput)) /\ UNCHANGED child
    BY <2>1, <2>3 DEF Answer, ChildOK, Attached, Ended, DaemonEnds, Writable
  <2>4. QED
    BY <1>4, <2>2, <2>3 DEF Spawn
<1>5. CASE ChildWaited
  BY <1>5
     DEF ChildWaited, childVars, clientVars, ChildOK, TypeOK, Writable, Attached, Ended,
         DaemonEnds
<1>6. CASE LoopDone
  BY <1>6
     DEF LoopDone, childVars, clientVars, Result, Answer, ChildOK, TypeOK, Writable, Attached,
         Ended, DaemonEnds
<1>7. CASE WriteUnit
  <2>1. /\ dpc \notin {"spawn", "select"} \cup DaemonEnds /\ Len(wire) < SocketCap
        /\ wire' = Append(wire, Head(pending)) /\ pending # << >>
        /\ UNCHANGED <<child, heirs, open, waited, dpc, mode, pipe, cut, fired>>
    BY <1>7 DEF WriteUnit, ChildOK, childVars
  <2>2. PICK m \in Nat : m = Len(wire)
    BY LenProperties DEF TypeOK
  <2>3. Head(pending) \in Unit
    BY <2>1, Popped DEF TypeOK
  <2>4. Len(wire') = m + 1
    BY <2>1, <2>2, <2>3, Pushed DEF TypeOK
  <2>5. Len(wire') <= SocketCap
    BY <2>1, <2>2, <2>4, ExecAssumption
  <2>6. QED
    BY <2>1, <2>5 DEF ChildOK, Writable, Attached
<1>8. CASE FrameWritten
  BY <1>8
     DEF FrameWritten, childVars, clientVars, ChildOK, TypeOK, Writable, Attached, Ended,
         DaemonEnds
<1>9. CASE WriteFails
  BY <1>9
     DEF WriteFails, clientVars, Kill, ChildOK, TypeOK, Writable, Attached, Ended, DaemonEnds
<1>10. ASSUME NEW ch \in Channel, ReadChunk(ch) PROVE ChildOK'
  <2>1. PICK n \in Nat, b \in Seq(Byte) :
             Pass(ch, b) /\ \A c \in Channel \ {ch} : pipe'[c] = pipe[c]
    BY <1>10, ReadChunkParts
  <2>2. /\ open[ch] /\ dpc = "select" /\ ~fired
        /\ UNCHANGED <<child, heirs, open, waited, mode, cut, fired, wire>>
    BY <1>10 DEF ReadChunk, ChildOK, Ended, DaemonEnds
  <2>3. CASE mode = "stream"
    BY <2>1, <2>2, <2>3 DEF Pass, ChildOK, Writable, Attached, Ended, DaemonEnds
  <2>4. CASE mode # "stream"
    BY <2>1, <2>2, <2>4 DEF Pass, ChildOK, Writable, Attached, Ended, DaemonEnds
  <2>5. QED
    BY <2>3, <2>4
<1>11. ASSUME NEW ch \in Channel, ReadEof(ch) PROVE ChildOK'
  <2>1. /\ open[ch] /\ dpc = "select" /\ ~fired /\ pipe[ch] = << >> /\ ~Writable
        /\ UNCHANGED <<child, heirs, pipe, waited, mode, cut, fired, wire>>
        /\ open' = [open EXCEPT ![ch] = FALSE] /\ Pass(ch, << >>)
    BY <1>11 DEF ReadEof, ChildOK, Ended, DaemonEnds, childVars
  <2>2. ~Writable' /\ \A c \in Channel : ~open'[c] => c = ch \/ ~open[c]
    BY <2>1 DEF Writable, TypeOK
  <2>3. child # "none"
    BY <2>1 DEF ChildOK, Attached
  <2>4. \A c \in Channel : ~open'[c] => pipe'[c] = << >> /\ ~Writable'
    BY <2>1, <2>2 DEF ChildOK
  <2>5. CASE mode = "stream"
    BY <2>1, <2>3, <2>4, <2>5 DEF Pass, ChildOK, Attached, Ended, DaemonEnds
  <2>6. CASE mode # "stream"
    BY <2>1, <2>3, <2>4, <2>6 DEF Pass, ChildOK, Attached, Ended, DaemonEnds
  <2>7. QED
    BY <2>5, <2>6
<1>12. CASE ReadFails
  BY <1>12
     DEF ReadFails, clientVars, Kill, Answer, ChildOK, TypeOK, Writable, Attached, Ended,
         DaemonEnds
<1>13. CASE Timeout
  BY <1>13
     DEF Timeout, clientVars, Kill, Answer, DropPending, ChildOK, TypeOK, Writable, Attached,
         Ended, DaemonEnds
<1>14. CASE RecvUnit
  <2>1. UNCHANGED <<child, heirs, open, waited, dpc, mode, pipe, cut, fired, pending>>
        /\ wire' = Tail(wire) /\ wire # << >>
    BY <1>14 DEF RecvUnit, childVars, daemonVars
  <2>2. PICK m \in Nat : m = Len(wire)
    BY LenProperties DEF TypeOK
  <2>3. Len(wire') = m - 1
    BY <2>1, <2>2, Popped DEF TypeOK
  <2>4. ~fired => Len(wire') <= SocketCap
    BY <2>2, <2>3, ExecAssumption DEF ChildOK
  <2>5. QED
    BY <2>1, <2>4 DEF ChildOK, Writable, Attached
<1>15. CASE HandleStream
  BY <1>15
     DEF HandleStream, childVars, daemonVars, ChildOK, TypeOK, Writable, Attached, Ended,
         DaemonEnds
<1>16. CASE HandleResponse
  BY <1>16
     DEF HandleResponse, childVars, daemonVars, ChildOK, TypeOK, Writable, Attached, Ended,
         DaemonEnds
<1>17. CASE ReadFailsAtClient
  BY <1>17
     DEF ReadFailsAtClient, childVars, daemonVars, ChildOK, TypeOK, Writable, Attached, Ended,
         DaemonEnds
<1>18. CASE ClientQuit
  BY <1>18
     DEF ClientQuit, childVars, daemonVars, ChildOK, TypeOK, Writable, Attached, Ended,
         DaemonEnds
<1>19. CASE UNCHANGED vars
  BY <1>19
     DEF vars, childVars, daemonVars, clientVars, ChildOK, TypeOK, Writable, Attached, Ended,
         DaemonEnds
<1>20. QED
  BY <1>1, <1>2, <1>3, <1>4, <1>5, <1>6, <1>7, <1>8, <1>9, <1>10, <1>11, <1>12, <1>13, <1>14,
     <1>15, <1>16, <1>17, <1>18, <1>19
     DEF Next, Command, Daemon, Client, Terminated

(* The bytes in the pipes stay numbered. *)
LEMMA PipesStep ==
    ASSUME TypeOK, PipesOK, [Next]_vars
    PROVE  PipesOK'
<1>1. CASE ChildExit
  BY <1>1 DEF ChildExit, daemonVars, clientVars, PipesOK, Read
<1>2. CASE HeirsExit
  BY <1>2 DEF HeirsExit, daemonVars, clientVars, PipesOK, Read
<1>3. ASSUME NEW ch \in Channel, ChildWrite(ch) PROVE PipesOK'
  <2>1. PICK s \in Seq(Byte) : s = pipe[ch]
    BY DEF TypeOK, Output
  <2>2. PICK p \in Nat : p = produced[ch]
    BY ExecAssumption DEF TypeOK
  <2>3. PICK e : e = <<ch, p + 1>>
    OBVIOUS
  <2>4. e \in Byte
    BY <2>3 DEF Byte
  <2>5. PICK t : t = Append(s, e)
    OBVIOUS
  <2>6. PICK n \in Nat : n = Len(s) /\ n <= p
    BY <2>1, <2>2, LenProperties DEF PipesOK
  <2>7. /\ Len(t) = n + 1 /\ DOMAIN t = 1 .. n + 1 /\ DOMAIN s = 1 .. n
        /\ t[n + 1] = e /\ \A i \in 1 .. n : t[i] = s[i]
    BY <2>4, <2>5, <2>6, Pushed
  <2>8. PICK r \in Nat : r = Read(ch) /\ r = p - n
    BY <2>1, <2>2, <2>6 DEF Read
  <2>9. \A i \in 1 .. n : s[i] = <<ch, r + i>>
    BY <2>1, <2>7, <2>8 DEF PipesOK
  <2>10. ASSUME NEW i \in 1 .. n + 1 PROVE t[i] = <<ch, r + i>>
    <3>1. CASE i \in 1 .. n
      BY <2>7, <2>9, <3>1
    <3>2. CASE i = n + 1
      <4>1. p + 1 = r + i
        BY <2>6, <2>8, <3>2
      <4>2. QED
        BY <2>3, <2>7, <3>2, <4>1
    <3>3. QED
      BY <3>1, <3>2
  <2>11. /\ produced'[ch] = p + 1 /\ pipe'[ch] = t
         /\ \A c \in Channel \ {ch} : produced'[c] = produced[c] /\ pipe'[c] = pipe[c]
         /\ UNCHANGED <<mode, output>>
    BY <1>3, <2>1, <2>2, <2>3, <2>5 DEF ChildWrite, TypeOK, Output, daemonVars
  <2>12. Read(ch)' = r
    <3>1. Len(pipe'[ch]) = n + 1
      BY <2>7, <2>11
    <3>2. (p + 1) - (n + 1) = r
      BY <2>6, <2>8
    <3>3. QED
      BY <2>11, <3>1, <3>2 DEF Read
  <2>13. ASSUME NEW c \in Channel \ {ch} PROVE Read(c)' = Read(c)
    BY <2>11 DEF Read
  <2>14. SUFFICES ASSUME NEW c \in Channel
                  PROVE  /\ Len(pipe'[c]) <= produced'[c]
                         /\ \A i \in DOMAIN pipe'[c] : pipe'[c][i] = <<c, Read(c)' + i>>
                         /\ mode' = "stream" => output'[c] = << >>
                         /\ mode' = "collect" => Len(output'[c]) = Read(c)'
                         /\ \A k \in DOMAIN output'[c] : output'[c][k] = <<c, k>>
    BY DEF PipesOK
  <2>15. CASE c = ch
    <3>1. n + 1 <= p + 1
      BY <2>6
    <3>2. /\ mode = "stream" => output[ch] = << >>
          /\ mode = "collect" => Len(output[ch]) = r
          /\ \A k \in DOMAIN output[ch] : output[ch][k] = <<ch, k>>
      BY <2>8 DEF PipesOK
    <3>3. QED
      BY <2>7, <2>10, <2>11, <2>12, <2>15, <3>1, <3>2
  <2>16. CASE c # ch
    BY <2>11, <2>13, <2>16 DEF PipesOK
  <2>17. QED
    BY <2>15, <2>16
<1>4. CASE Spawn
  BY <1>4 DEF Spawn, clientVars, Answer, PipesOK, Read
<1>5. CASE ChildWaited
  BY <1>5 DEF ChildWaited, childVars, clientVars, PipesOK, Read
<1>6. CASE LoopDone
  BY <1>6 DEF LoopDone, childVars, clientVars, Result, Answer, PipesOK, Read
<1>7. CASE WriteUnit
  BY <1>7 DEF WriteUnit, childVars, clientVars, PipesOK, Read
<1>8. CASE FrameWritten
  BY <1>8 DEF FrameWritten, childVars, clientVars, PipesOK, Read
<1>9. CASE WriteFails
  BY <1>9 DEF WriteFails, clientVars, Kill, PipesOK, Read
<1>10. ASSUME NEW ch \in Channel, ReadChunk(ch) PROVE PipesOK'
  <2>1. PICK n \in Nat, b \in Seq(Byte) :
             /\ n <= Len(pipe[ch]) /\ Len(b) = n
             /\ \A k \in DOMAIN b : b[k] = <<ch, Read(ch) + k>>
             /\ \A c \in Channel \ {ch} : pipe'[c] = pipe[c]
             /\ Len(pipe'[ch]) = Len(pipe[ch]) - n
             /\ \A i \in DOMAIN pipe'[ch] : pipe'[ch][i] = <<ch, (Read(ch) + n) + i>>
             /\ Pass(ch, b)
    BY <1>10, ReadChunkParts
  <2>2. UNCHANGED <<produced, mode>>
    BY <1>10 DEF ReadChunk
  <2>3. PICK r \in Nat : r = Read(ch)
    BY ReadIsNat
  <2>4. PICK p \in Nat : p = produced[ch]
    BY ExecAssumption DEF TypeOK
  <2>5. PICK m \in Nat : m = Len(pipe[ch]) /\ m <= p /\ n <= m /\ r = p - m
    BY <2>1, <2>3, <2>4, LenProperties DEF TypeOK, Output, PipesOK, Read
  <2>6. Len(pipe'[ch]) = m - n
    BY <2>1, <2>5
  <2>7. Read(ch)' = r + n
    <3>1. p - (m - n) = r + n
      BY <2>5
    <3>2. QED
      BY <2>2, <2>4, <2>6, <3>1 DEF Read
  <2>8. ASSUME NEW c \in Channel \ {ch} PROVE Read(c)' = Read(c)
    BY <2>1, <2>2 DEF Read
  <2>9. PICK o \in Seq(Byte) : o = output[ch]
    BY DEF TypeOK, Output
  <2>10. PICK q : q = o \o b
    OBVIOUS
  <2>11. \A c \in Channel \ {ch} : output'[c] = output[c]
    BY <2>1 DEF Pass, TypeOK, Output
  <2>12. /\ mode = "stream" => output'[ch] = o
         /\ mode # "stream" => output'[ch] = q
    BY <2>1, <2>9, <2>10 DEF Pass, TypeOK, Output
  <2>13. ASSUME mode = "collect" PROVE Len(q) = r + n /\ \A k \in DOMAIN q : q[k] = <<ch, k>>
    <3>1. Len(o) = r /\ \A k \in DOMAIN o : o[k] = <<ch, k>>
      BY <2>3, <2>9, <2>13 DEF PipesOK
    <3>2. r = Len(o) /\ n = Len(b)
      BY <2>1, <3>1
    <3>3. /\ Len(q) = r + n /\ DOMAIN q = 1 .. r + n /\ DOMAIN o = 1 .. r /\ DOMAIN b = 1 .. n
          /\ \A i \in 1 .. r : q[i] = o[i]
          /\ \A i \in 1 .. n : q[r + i] = b[i]
      BY <2>10, <3>2, JoinedBy
    <3>4. ASSUME NEW k \in 1 .. r + n PROVE q[k] = <<ch, k>>
      <4>1. CASE k \in 1 .. r
        BY <3>1, <3>3, <4>1
      <4>2. ASSUME NEW i \in 1 .. n, k = r + i PROVE q[k] = <<ch, k>>
        BY <2>1, <2>3, <3>3, <4>2
      <4>3. k \in 1 .. r \/ \E i \in 1 .. n : k = r + i
        BY Positions
      <4>4. QED
        BY <4>1, <4>2, <4>3
    <3>5. QED
      BY <3>3, <3>4
  <2>14. SUFFICES ASSUME NEW c \in Channel
                  PROVE  /\ Len(pipe'[c]) <= produced'[c]
                         /\ \A i \in DOMAIN pipe'[c] : pipe'[c][i] = <<c, Read(c)' + i>>
                         /\ mode' = "stream" => output'[c] = << >>
                         /\ mode' = "collect" => Len(output'[c]) = Read(c)'
                         /\ \A k \in DOMAIN output'[c] : output'[c][k] = <<c, k>>
    BY DEF PipesOK
  <2>15. CASE c = ch
    <3>1. m - n <= p
      BY <2>5
    <3>2. \A i \in DOMAIN pipe'[ch] : pipe'[ch][i] = <<ch, (r + n) + i>>
      BY <2>1, <2>3
    <3>3. mode = "stream" \/ mode = "collect"
      BY DEF TypeOK
    <3>4. mode = "stream" => output[ch] = << >>
      BY DEF PipesOK
    <3>5. \A k \in DOMAIN output[ch] : output[ch][k] = <<ch, k>>
      BY DEF PipesOK
    <3>6. CASE mode = "stream"
      BY <2>2, <2>4, <2>6, <2>7, <2>9, <2>12, <2>15, <3>1, <3>2, <3>4, <3>5, <3>6
    <3>7. CASE mode = "collect"
      BY <2>2, <2>4, <2>6, <2>7, <2>12, <2>13, <2>15, <3>1, <3>2, <3>7
    <3>8. QED
      BY <3>3, <3>6, <3>7
  <2>16. CASE c # ch
    BY <2>1, <2>2, <2>8, <2>11, <2>16 DEF PipesOK
  <2>17. QED
    BY <2>15, <2>16
<1>11. ASSUME NEW ch \in Channel, ReadEof(ch) PROVE PipesOK'
  <2>1. UNCHANGED <<produced, pipe, mode>>
    BY <1>11 DEF ReadEof, childVars
  <2>2. output[ch] \in Seq(Byte)
    BY DEF TypeOK, Output
  <2>3. output[ch] \o << >> = output[ch]
    BY <2>2, ConcatEmptySeq
  <2>4. output' = output
    BY <1>11, <2>3 DEF ReadEof, Pass, TypeOK, Output
  <2>5. QED
    BY <2>1, <2>4 DEF PipesOK, Read
<1>12. CASE ReadFails
  BY <1>12 DEF ReadFails, clientVars, Kill, Answer, PipesOK, Read
<1>13. CASE Timeout
  BY <1>13 DEF Timeout, clientVars, Kill, Answer, DropPending, PipesOK, Read
<1>14. CASE RecvUnit
  BY <1>14 DEF RecvUnit, childVars, daemonVars, PipesOK, Read
<1>15. CASE HandleStream
  BY <1>15 DEF HandleStream, childVars, daemonVars, PipesOK, Read
<1>16. CASE HandleResponse
  BY <1>16 DEF HandleResponse, childVars, daemonVars, PipesOK, Read
<1>17. CASE ReadFailsAtClient
  BY <1>17 DEF ReadFailsAtClient, childVars, daemonVars, PipesOK, Read
<1>18. CASE ClientQuit
  BY <1>18 DEF ClientQuit, childVars, daemonVars, PipesOK, Read
<1>19. CASE UNCHANGED vars
  BY <1>19 DEF vars, childVars, daemonVars, clientVars, PipesOK, Read
<1>20. QED
  BY <1>1, <1>2, <1>3, <1>4, <1>5, <1>6, <1>7, <1>8, <1>9, <1>10, <1>11, <1>12, <1>13, <1>14,
     <1>15, <1>16, <1>17, <1>18, <1>19
     DEF Next, Command, Daemon, Client, Terminated

(* The client takes no unit of the next frame. *)
LEMMA RxStep ==
    ASSUME TypeOK, RxOK, [Next]_vars
    PROVE  RxOK'
<1>1. CASE ChildExit
  BY <1>1 DEF ChildExit, daemonVars, clientVars, RxOK
<1>2. CASE HeirsExit
  BY <1>2 DEF HeirsExit, daemonVars, clientVars, RxOK
<1>3. ASSUME NEW ch \in Channel, ChildWrite(ch) PROVE RxOK'
  BY <1>3 DEF ChildWrite, daemonVars, clientVars, RxOK
<1>4. CASE Spawn
  BY <1>4 DEF Spawn, clientVars, Answer, RxOK
<1>5. CASE ChildWaited
  BY <1>5 DEF ChildWaited, childVars, clientVars, RxOK
<1>6. CASE LoopDone
  BY <1>6 DEF LoopDone, childVars, clientVars, Result, Answer, RxOK
<1>7. CASE WriteUnit
  BY <1>7 DEF WriteUnit, childVars, clientVars, RxOK
<1>8. CASE FrameWritten
  BY <1>8 DEF FrameWritten, childVars, clientVars, RxOK
<1>9. CASE WriteFails
  BY <1>9 DEF WriteFails, clientVars, Kill, RxOK
<1>10. ASSUME NEW ch \in Channel, ReadChunk(ch) PROVE RxOK'
  BY <1>10 DEF ReadChunk, clientVars, Pass, RxOK
<1>11. ASSUME NEW ch \in Channel, ReadEof(ch) PROVE RxOK'
  BY <1>11 DEF ReadEof, childVars, clientVars, Pass, RxOK
<1>12. CASE ReadFails
  BY <1>12 DEF ReadFails, clientVars, Kill, Answer, RxOK
<1>13. CASE Timeout
  BY <1>13 DEF Timeout, clientVars, Kill, Answer, DropPending, RxOK
<1>14. CASE RecvUnit
  <2>1. PICK r : r = Append(rx, Head(wire))
    OBVIOUS
  <2>2. rx' = r /\ wire # << >> /\ ~FrameRead
    BY <1>14, <2>1 DEF RecvUnit
  <2>3. Head(wire) \in Unit
    BY <2>2, Popped DEF TypeOK
  <2>4. PICK n \in Nat : n = Len(rx)
    BY LenProperties DEF TypeOK
  <2>5. r \in Seq(Unit) /\ Len(r) = n + 1 /\ r # << >> /\ \A i \in 1 .. n : r[i] = rx[i]
    BY <2>1, <2>3, <2>4, Pushed DEF TypeOK
  <2>6. SUFFICES ASSUME IsHead(r[1]) PROVE Len(r) <= r[1].len + 1
    BY <2>2 DEF RxOK
  <2>7. PICK k \in Nat : k = r[1].len
    BY <2>5, <2>6, Popped, UnitFields
  <2>8. CASE n = 0
    BY <2>5, <2>7, <2>8
  <2>9. CASE n # 0
    <3>1. rx # << >> /\ r[1] = rx[1]
      BY <2>4, <2>5, <2>9, EmptySeq
    <3>2. n <= k + 1 /\ n # k + 1
      BY <2>2, <2>4, <2>6, <2>7, <3>1 DEF RxOK, FrameRead, IsHead
    <3>3. n + 1 <= k + 1
      BY <3>2
    <3>4. QED
      BY <2>5, <2>7, <3>3
  <2>10. QED
    BY <2>8, <2>9
<1>15. CASE HandleStream
  BY <1>15 DEF HandleStream, childVars, daemonVars, RxOK
<1>16. CASE HandleResponse
  BY <1>16 DEF HandleResponse, childVars, daemonVars, RxOK
<1>17. CASE ReadFailsAtClient
  BY <1>17 DEF ReadFailsAtClient, childVars, daemonVars, RxOK
<1>18. CASE ClientQuit
  BY <1>18 DEF ClientQuit, childVars, daemonVars, RxOK
<1>19. CASE UNCHANGED vars
  BY <1>19 DEF vars, childVars, daemonVars, clientVars, RxOK
<1>20. QED
  BY <1>1, <1>2, <1>3, <1>4, <1>5, <1>6, <1>7, <1>8, <1>9, <1>10, <1>11, <1>12, <1>13, <1>14,
     <1>15, <1>16, <1>17, <1>18, <1>19
     DEF Next, Command, Daemon, Client, Terminated
-----------------------------------------------------------------------------
(* The connection.                                                          *)

(* The stream is a sequence of units. *)
LEMMA StreamType == ASSUME TypeOK PROVE Stream \in Seq(Unit)
<1>1. rx \in Seq(Unit) /\ wire \in Seq(Unit) /\ pending \in Seq(Unit)
  BY DEF TypeOK
<1>2. rx \o wire \in Seq(Unit)
  BY <1>1, Joined
<1>3. QED
  BY <1>1, <1>2, Joined DEF Stream

(* The output of the client has a length. *)
LEMMA EmittedLen == ASSUME TypeOK PROVE \A ch \in Channel : Len(emitted[ch]) \in Nat
  BY LenProperties DEF TypeOK, Output

(* The headers of a connection to which a frame was added. *)
HeadsFrom(u, s, f) ==
    /\ \A p \in DOMAIN u : IsHead(u[p]) => u[p] = f[1] \/ \E q \in DOMAIN s : u[p] = s[q]
    /\ \E p \in DOMAIN u : u[p] = f[1]

(* The heads of a stream with one more frame are the old ones and the new one. *)
LEMMA HeadsJoined ==
    ASSUME NEW s \in Seq(Unit), NEW f, IsFrame(f), NEW u, u = s \o f
    PROVE  HeadsFrom(u, s, f)
<1>1. f \in Seq(Unit) /\ f # << >>
  BY DEF IsFrame
<1>2. PICK m \in Nat : m = Len(s)
  BY LenProperties
<1>3. PICK n \in Nat : n = Len(f) /\ n >= 1
  BY <1>1, Popped
<1>4. /\ DOMAIN u = 1 .. m + n /\ DOMAIN s = 1 .. m
      /\ \A i \in 1 .. m : u[i] = s[i]
      /\ \A i \in 1 .. n : u[m + i] = f[i]
  <2>1. n = Len(f) /\ f \in Seq(Unit)
    BY <1>1, <1>3
  <2>2. QED
    BY <1>2, <2>1, JoinedBy
<1>5. ASSUME NEW i \in 1 .. n, IsHead(f[i]) PROVE i = 1
  <2>1. ASSUME i \in 2 .. n PROVE FALSE
    <3>1. n = f[1].len + 1
      BY <1>3 DEF IsFrame
    <3>2. IsByte(f[i], f[1].kind)
      BY <2>1, <3>1 DEF IsFrame
    <3>3. QED
      BY <1>5, <3>2 DEF IsHead, IsByte
  <2>2. QED
    BY <2>1
<1>6. ASSUME NEW p \in 1 .. m + n, IsHead(u[p])
      PROVE  u[p] = f[1] \/ \E q \in 1 .. m : u[p] = s[q]
  <2>1. CASE p \in 1 .. m
    BY <1>4, <2>1
  <2>2. ASSUME NEW i \in 1 .. n, p = m + i PROVE u[p] = f[1]
    BY <1>4, <1>5, <1>6, <2>2
  <2>3. p \in 1 .. m \/ \E i \in 1 .. n : p = m + i
    BY Positions
  <2>4. QED
    BY <2>1, <2>2, <2>3
<1>7. \E p \in 1 .. m + n : u[p] = f[1]
  <2>1. 1 \in 1 .. n /\ m + 1 \in 1 .. m + n
    BY <1>3
  <2>2. u[m + 1] = f[1]
    BY <1>4, <2>1
  <2>3. QED
    BY <2>1, <2>2
<1>8. DOMAIN u = 1 .. m + n /\ DOMAIN s = 1 .. m
  BY <1>4
<1>9. QED
  BY <1>6, <1>7, <1>8 DEF HeadsFrom

(* A response goes after everything else. *)
LEMMA ResponseAdded ==
    ASSUME TypeOK, NEW s \in Seq(Unit), FramesOK(s), NoResponse(s),
           \A ch \in Channel : InOrder(s, Len(emitted[ch]), ch),
           mode = "collect" => /\ \A p \in DOMAIN s : IsHead(s[p]) => s[p].kind \in Response
                               /\ emitted = NoOutput,
           NEW f, IsFrame(f), f[1].kind \in Response, NEW u, u = s \o f,
           ~fired' /\ mode = "stream" =>
               \A ch \in Channel : UpTo(s, Len(emitted[ch]), Read(ch), ch) /\ Read(ch) \in Nat,
           dpc' \in Ended \cup {"result"}, f[1].kind = "timeout" <=> fired',
           f[1].kind = "result" => waited' /\ \A ch \in Channel : ~open'[ch],
           f[1].out = IF mode' = "collect" /\ f[1].kind = "result" THEN output' ELSE NoOutput,
           UNCHANGED <<mode, emitted>>, \A ch \in Channel : Read(ch)' = Read(ch)
    PROVE  Flow(u)'
<1>1. FramesOK(u)
  BY FramesJoined
<1>2. /\ ResponseLast(u)
      /\ \A p \in DOMAIN u : IsHead(u[p]) /\ u[p].kind \in Response => u[p] = f[1]
  BY ResponseJoined
<1>3. ResponsesOK(u)'
  BY <1>2 DEF ResponsesOK
<1>4. /\ \A p \in DOMAIN u : IsHead(u[p]) => u[p] = f[1] \/ \E q \in DOMAIN s : u[p] = s[q]
      /\ \E p \in DOMAIN u : u[p] = f[1]
  <2>1. HeadsFrom(u, s, f)
    BY HeadsJoined
  <2>2. QED
    BY <2>1 DEF HeadsFrom
<1>5. IsHead(f[1]) /\ f \in Seq(Unit)
  BY DEF IsFrame
<1>6. fired' => \E p \in DOMAIN u : IsHead(u[p]) /\ u[p].kind = "timeout"
  BY <1>4, <1>5
<1>7. mode' = "collect" => /\ \A p \in DOMAIN u : IsHead(u[p]) => u[p].kind \in Response
                           /\ emitted' = NoOutput
  BY <1>4
<1>8. ASSUME NEW ch \in Channel
      PROVE  /\ InOrder(u, Len(emitted'[ch]), ch)
             /\ ~fired' /\ mode' = "stream" => UpTo(u, Len(emitted'[ch]), Read(ch)', ch)
  <2>1. PICK l \in Nat : l = Len(emitted[ch])
    BY EmittedLen
  <2>2. f[1].kind # ch
    BY DEF Channel, Response
  <2>3. NoneOf(f, ch)
    BY <2>2, OtherFrames
  <2>4. /\ InOrder(s, l, ch) => InOrder(u, l, ch)
        /\ \A k \in Nat : UpTo(s, l, k, ch) => UpTo(u, l, k, ch)
    BY <1>5, <2>3, OtherJoined
  <2>5. InOrder(u, l, ch)
    BY <2>1, <2>4
  <2>6. ASSUME ~fired', mode = "stream" PROVE UpTo(u, l, Read(ch), ch)
    BY <2>1, <2>4, <2>6
  <2>7. QED
    BY <2>1, <2>5, <2>6
<1>9. QED
  BY <1>1, <1>2, <1>3, <1>6, <1>7, <1>8 DEF Flow

(* A chunk of output goes after everything else. *)
LEMMA ChunkAdded ==
    ASSUME TypeOK, ~fired, mode = "stream", NEW s \in Seq(Unit), Flow(s), NoResponse(s),
           NEW ch \in Channel, NEW f, IsFrame(f), f[1].kind = ch, NEW u, u = s \o f,
           \A c \in Channel : Read(c) \in Nat,
           \A k \in 1 .. f[1].len : f[k + 1].byte = <<ch, Read(ch) + k>>,
           UNCHANGED <<mode, emitted, fired>>,
           Read(ch)' = Read(ch) + f[1].len, \A c \in Channel \ {ch} : Read(c)' = Read(c)
    PROVE  Flow(u)'
<1>1. FramesOK(u)
  BY FramesJoined DEF Flow
<1>2. \A p \in DOMAIN u : IsHead(u[p]) => u[p] = f[1] \/ \E q \in DOMAIN s : u[p] = s[q]
  <2>1. HeadsFrom(u, s, f)
    BY HeadsJoined
  <2>2. QED
    BY <2>1 DEF HeadsFrom
<1>3. ASSUME NEW p \in DOMAIN u, IsHead(u[p]), u[p].kind \in Response PROVE FALSE
  <2>1. u[p] # f[1]
    BY <1>3 DEF Channel, Response
  <2>2. QED
    BY <1>2, <1>3, <2>1 DEF NoResponse
<1>4. ResponseLast(u) /\ ResponsesOK(u)'
  BY <1>3 DEF ResponseLast, ResponsesOK
<1>5. ASSUME NEW c \in Channel
      PROVE  InOrder(u, Len(emitted[c]), c) /\ UpTo(u, Len(emitted[c]), Read(c)', c)
  <2>1. PICK l \in Nat : l = Len(emitted[c])
    BY EmittedLen
  <2>2. InOrder(s, l, c) /\ UpTo(s, l, Read(c), c)
    BY <2>1 DEF Flow
  <2>3. CASE c = ch
    <3>1. PICK r \in Nat : r = Read(ch)
      OBVIOUS
    <3>2. /\ InOrder(s, l, ch) /\ UpTo(s, l, r, ch)
          /\ \A k \in 1 .. f[1].len : f[k + 1].byte = <<ch, r + k>>
      BY <2>2, <2>3, <3>1
    <3>3. InOrder(s \o f, l, ch) /\ UpTo(s \o f, l, r + f[1].len, ch)
      BY <3>2, ChunkJoined
    <3>4. QED
      BY <2>1, <2>3, <3>1, <3>3
  <2>4. CASE c # ch
    <3>1. NoneOf(f, c) /\ f \in Seq(Unit)
      BY <2>4, OtherFrames DEF IsFrame
    <3>2. /\ InOrder(s, l, c) => InOrder(u, l, c)
          /\ \A k \in Nat : UpTo(s, l, k, c) => UpTo(u, l, k, c)
      BY <3>1, OtherJoined
    <3>3. QED
      BY <2>1, <2>2, <2>4, <3>2
  <2>5. QED
    BY <2>3, <2>4
<1>6. QED
  BY <1>1, <1>4, <1>5 DEF Flow

(* Nothing has answered before the result. *)
LEMMA NoneAnswered ==
    ASSUME Flow(Stream), dpc \in {"spawn", "select", "write"}
    PROVE  NoResponse(Stream)
  BY DEF Flow, ResponsesOK, NoResponse, Ended, DaemonEnds
-----------------------------------------------------------------------------
(* A step that only moves units along keeps the flow. *)
LEMMA FlowKept ==
    ASSUME Flow(Stream), Stream' = Stream, UNCHANGED <<mode, emitted, fired>>,
           \A ch \in Channel : Read(ch)' = Read(ch), ResponsesOK(Stream)'
    PROVE  Flow(Stream)'
<1>1. FramesOK(Stream') /\ ResponseLast(Stream')
  BY DEF Flow
<1>2. fired' => \E p \in DOMAIN Stream' : IsHead(Stream'[p]) /\ Stream'[p].kind = "timeout"
  BY DEF Flow
<1>3. mode' = "collect" =>
        /\ \A p \in DOMAIN Stream' : IsHead(Stream'[p]) => Stream'[p].kind \in Response
        /\ emitted' = NoOutput
  BY DEF Flow
<1>4. ASSUME NEW ch \in Channel
      PROVE  /\ InOrder(Stream', Len(emitted'[ch]), ch)
             /\ ~fired' /\ mode' = "stream" => UpTo(Stream', Len(emitted'[ch]), Read(ch)', ch)
  BY DEF Flow
<1>5. QED
  BY <1>1, <1>2, <1>3, <1>4 DEF Flow

(* A response stays justified by what the daemon has done ... *)
LEMMA ResponsesKept ==
    ASSUME ResponsesOK(Stream), Stream' = Stream, UNCHANGED <<open, output, mode, fired>>,
           dpc \in Ended \cup {"result"} => dpc' \in Ended \cup {"result"}, waited => waited'
    PROVE  ResponsesOK(Stream)'
  BY DEF ResponsesOK

(* ... and without a response there is nothing to justify. *)
LEMMA NoResponsesKept ==
    ASSUME NoResponse(Stream), Stream' = Stream
    PROVE  ResponsesOK(Stream)'
  BY DEF ResponsesOK, NoResponse

(* The client is done with a frame. *)
LEMMA FrameDropped ==
    ASSUME TypeOK, rx' = << >>, UNCHANGED <<wire, pending>>, NEW t, t = wire \o pending
    PROVE  t \in Seq(Unit) /\ Stream = rx \o t /\ Stream' = t
<1>1. rx \in Seq(Unit) /\ wire \in Seq(Unit) /\ pending \in Seq(Unit)
  BY DEF TypeOK
<1>2. t \in Seq(Unit)
  BY <1>1, Joined
<1>3. Stream = rx \o t
  BY <1>1, ConcatAssociative DEF Stream
<1>4. << >> \o wire = wire
  BY <1>1, ConcatEmptySeq
<1>5. Stream' = t
  BY <1>4 DEF Stream
<1>6. QED
  BY <1>2, <1>3, <1>5

(* What a stream frame shows is what comes next. *)
LEMMA HandledParts ==
    ASSUME TypeOK, Flow(Stream), HandleStream, NEW t, t = wire \o pending
    PROVE  /\ IsFrame(rx) /\ rx[1].kind \in Channel /\ FramesOK(t) /\ t \in Seq(Unit)
           /\ Stream = rx \o t /\ Stream' = t /\ mode = "stream"
           /\ \E b \in Seq(Byte) :
                /\ Len(b) = rx[1].len
                /\ \A k \in 1 .. Len(b) : b[k] = <<rx[1].kind, Len(emitted[rx[1].kind]) + k>>
                /\ emitted'[rx[1].kind] = emitted[rx[1].kind] \o b
                /\ \A c \in Channel \ {rx[1].kind} : emitted'[c] = emitted[c]
<1>1. /\ rx \in Seq(Unit) /\ rx # << >> /\ IsHead(rx[1]) /\ Whole(rx) /\ rx[1].kind \in Channel
      /\ rx' = << >> /\ UNCHANGED <<wire, pending>>
  BY DEF HandleStream, FrameRead, IsHead, Whole, TypeOK, daemonVars
<1>2. t \in Seq(Unit) /\ Stream = rx \o t /\ Stream' = t
  BY <1>1, FrameDropped
<1>3. IsFrame(rx) /\ FramesOK(t)
  BY <1>1, <1>2, FirstFrame DEF Flow
<1>4. PICK n \in Nat : n = rx[1].len /\ Len(rx) = n + 1
  BY <1>1, Popped, UnitFields DEF Whole
<1>5. PICK ch \in Channel : ch = rx[1].kind
  BY <1>1
<1>6. PICK l \in Nat : l = Len(emitted[ch])
  BY EmittedLen
<1>7. InOrder(rx \o t, l, ch)
  BY <1>2, <1>6 DEF Flow
<1>8. \A k \in 1 .. n : IsByte(rx[k + 1], ch) /\ rx[k + 1].byte = <<ch, l + k>>
  <2>1. rx[1].kind = ch /\ t \in Seq(Unit) /\ IsFrame(rx)
    BY <1>2, <1>3, <1>5
  <2>2. NextBytes(rx, l, ch)
    BY <1>7, <2>1, ChunkFirst
  <2>3. QED
    BY <1>4, <2>2 DEF NextBytes
<1>9. PICK b : b = [k \in 1 .. n |->
                      IF rx[k + 1].unit = "byte" THEN rx[k + 1].byte ELSE <<"failed", 1>>]
  OBVIOUS
<1>10. emitted' = [emitted EXCEPT ![ch] = @ \o b]
  BY <1>4, <1>5, <1>9 DEF HandleStream
<1>11. ASSUME NEW k \in 1 .. n PROVE b[k] = <<ch, l + k>> /\ b[k] \in Byte
  <2>1. b[k] = <<ch, l + k>>
    BY <1>8, <1>9 DEF IsByte
  <2>2. <<ch, l + k>> \in Byte
    BY DEF Byte
  <2>3. QED
    BY <2>1, <2>2
<1>12. b \in Seq(Byte) /\ Len(b) = n
  <2>1. b \in [1 .. n -> Byte]
    BY <1>9, <1>11
  <2>2. b \in Seq(Byte)
    BY <2>1, SeqDef
  <2>3. DOMAIN b = 1 .. n
    BY <1>9
  <2>4. QED
    BY <2>2, <2>3, LenProperties
<1>13. emitted'[ch] = emitted[ch] \o b /\ \A c \in Channel \ {ch} : emitted'[c] = emitted[c]
  BY <1>10 DEF TypeOK, Output
<1>14. mode = "stream"
  <2>1. CASE mode = "collect"
    <3>1. PICK m \in Nat : m = Len(rx) /\ m >= 1
      BY <1>1, Popped
    <3>2. PICK z \in Nat : z = Len(t)
      BY <1>2, LenProperties
    <3>3. PICK u : u = rx \o t
      OBVIOUS
    <3>4. DOMAIN u = 1 .. m + z /\ \A i \in 1 .. m : u[i] = rx[i]
      BY <1>1, <1>2, <3>1, <3>2, <3>3, JoinedBy
    <3>5. 1 \in DOMAIN u /\ u[1] = rx[1]
      BY <3>1, <3>4
    <3>6. rx[1].kind \in Response
      BY <1>1, <1>2, <2>1, <3>3, <3>5 DEF Flow
    <3>7. QED
      BY <1>1, <3>6 DEF Channel, Response
  <2>2. QED
    BY <2>1 DEF TypeOK
<1>15. /\ Len(b) = rx[1].len
       /\ \A k \in 1 .. Len(b) : b[k] = <<rx[1].kind, Len(emitted[rx[1].kind]) + k>>
       /\ emitted'[rx[1].kind] = emitted[rx[1].kind] \o b
       /\ \A c \in Channel \ {rx[1].kind} : emitted'[c] = emitted[c]
  BY <1>4, <1>5, <1>6, <1>11, <1>12, <1>13
<1>16. QED
  BY <1>1, <1>2, <1>3, <1>12, <1>14, <1>15

(* Forwarding a chunk keeps the flow. *)
LEMMA FlowHandled ==
    ASSUME TypeOK, PipesOK, Flow(Stream), HandleStream
    PROVE  Flow(Stream)'
<1>1. PICK t : t = wire \o pending
  OBVIOUS
<1>2. PICK b \in Seq(Byte) :
        /\ Len(b) = rx[1].len
        /\ emitted'[rx[1].kind] = emitted[rx[1].kind] \o b
        /\ \A c \in Channel \ {rx[1].kind} : emitted'[c] = emitted[c]
  BY <1>1, HandledParts
<1>3. /\ IsFrame(rx) /\ rx[1].kind \in Channel /\ FramesOK(t) /\ t \in Seq(Unit)
      /\ Stream = rx \o t /\ Stream' = t /\ mode = "stream"
  BY <1>1, HandledParts
<1>4. PICK ch \in Channel : ch = rx[1].kind
  BY <1>3
<1>5. rx \in Seq(Unit) /\ rx # << >> /\ IsHead(rx[1])
  BY <1>3 DEF IsFrame
<1>6. PICK n \in Nat : n = rx[1].len
  BY <1>5, Popped, UnitFields
<1>7. UNCHANGED <<childVars, daemonVars>>
  BY DEF HandleStream
<1>8. \A c \in Channel : Read(c)' = Read(c) /\ Read(c) \in Nat
  BY <1>7, ReadIsNat DEF Read, childVars
<1>9. ResponseLast(t)
  BY <1>3, <1>5, ResponseDropped DEF Flow
<1>10. PICK u : u = rx \o t
  OBVIOUS
<1>11. PICK m \in Nat : m = Len(rx) /\ m >= 1
  BY <1>5, Popped
<1>12. PICK z \in Nat : z = Len(t)
  BY <1>3, LenProperties
<1>13. /\ DOMAIN u = 1 .. m + z /\ DOMAIN t = 1 .. z
       /\ \A i \in 1 .. m : u[i] = rx[i]
       /\ \A i \in 1 .. z : u[m + i] = t[i]
  <2>1. m = Len(rx) /\ rx \in Seq(Unit) /\ t \in Seq(Unit)
    BY <1>3, <1>5, <1>11
  <2>2. QED
    BY <1>10, <1>12, <2>1, JoinedBy
<1>14. ASSUME NEW p \in 1 .. z PROVE \E q \in DOMAIN u : u[q] = t[p]
  <2>1. m + p \in 1 .. m + z
    BY <1>11
  <2>2. QED
    BY <1>13, <2>1
<1>15. ResponsesOK(t)'
  <2>1. SUFFICES ASSUME NEW p \in 1 .. z, IsHead(t[p]), t[p].kind \in Response
                 PROVE  /\ dpc = "result" \/ dpc \in Ended
                        /\ t[p].kind = "timeout" <=> fired
                        /\ t[p].kind = "result" => waited /\ \A c \in Channel : ~open[c]
                        /\ t[p].out = IF mode = "collect" /\ t[p].kind = "result"
                                      THEN output ELSE NoOutput
    BY <1>7, <1>13 DEF ResponsesOK, daemonVars
  <2>2. PICK q \in DOMAIN u : u[q] = t[p]
    BY <1>14
  <2>3. ResponsesOK(u)
    BY <1>3, <1>10 DEF Flow
  <2>4. QED
    BY <2>1, <2>2, <2>3 DEF ResponsesOK
<1>16. ASSUME fired PROVE \E p \in DOMAIN t : IsHead(t[p]) /\ t[p].kind = "timeout"
  <2>1. PICK p \in 1 .. m + z : IsHead(u[p]) /\ u[p].kind = "timeout"
    BY <1>3, <1>10, <1>13, <1>16 DEF Flow
  <2>2. ASSUME p \in 1 .. m PROVE FALSE
    <3>1. u[p] = rx[p]
      BY <1>13, <2>2
    <3>2. CASE p = 1
      <4>1. rx[1].kind = "timeout"
        BY <2>1, <3>1, <3>2
      <4>2. QED
        BY <1>3, <4>1 DEF Channel
    <3>3. CASE p \in 2 .. n + 1
      <4>1. IsByte(rx[p], rx[1].kind)
        BY <1>3, <1>6, <3>3 DEF IsFrame
      <4>2. QED
        BY <2>1, <3>1, <4>1 DEF IsHead, IsByte
    <3>4. m = n + 1
      BY <1>3, <1>6, <1>11 DEF IsFrame
    <3>5. QED
      BY <2>2, <3>2, <3>3, <3>4
  <2>3. PICK i \in 1 .. z : p = m + i
    BY <2>2, Positions
  <2>4. QED
    BY <1>13, <2>1, <2>3
<1>17. ASSUME NEW c \in Channel
       PROVE  /\ InOrder(t, Len(emitted'[c]), c)
              /\ ~fired => UpTo(t, Len(emitted'[c]), Read(c), c)
  <2>1. PICK l \in Nat : l = Len(emitted[c])
    BY EmittedLen
  <2>2. InOrder(rx \o t, l, c) /\ (~fired => UpTo(rx \o t, l, Read(c), c))
    BY <1>3, <2>1 DEF Flow
  <2>3. CASE c = ch
    <3>1. Len(emitted'[c]) = l + n
      <4>1. emitted[ch] \in Seq(Byte)
        BY DEF TypeOK, Output
      <4>2. Len(emitted[ch] \o b) = Len(emitted[ch]) + Len(b)
        BY <4>1, Joined
      <4>3. QED
        BY <1>2, <1>4, <1>6, <2>1, <2>3, <4>2
    <3>2. rx[1].kind = c
      BY <1>4, <2>3
    <3>3. InOrder(t, l + rx[1].len, c)
      BY <1>3, <2>2, <3>2, ChunkDropped
    <3>4. \A k \in Nat : UpTo(rx \o t, l, k, c) => UpTo(t, l + rx[1].len, k, c)
      BY <1>3, <2>2, <3>2, ChunkDropped
    <3>5. QED
      BY <1>6, <1>8, <2>2, <3>1, <3>3, <3>4
  <2>4. CASE c # ch
    <3>1. emitted'[c] = emitted[c]
      BY <1>2, <1>4, <2>4
    <3>2. NoneOf(rx, c)
      BY <1>3, <1>4, <2>4, OtherFrames
    <3>3. /\ InOrder(rx \o t, l, c) => InOrder(t, l, c)
          /\ \A k \in Nat : UpTo(rx \o t, l, k, c) => UpTo(t, l, k, c)
      BY <1>3, <1>5, <3>2, OtherDropped
    <3>4. QED
      BY <1>8, <2>1, <2>2, <3>1, <3>3
  <2>5. QED
    BY <2>3, <2>4
<1>18. UNCHANGED <<fired, mode>>
  BY <1>7 DEF daemonVars
<1>19. Flow(t)'
  <2>1. fired' => \E p \in DOMAIN t : IsHead(t[p]) /\ t[p].kind = "timeout"
    BY <1>16, <1>18
  <2>2. mode' # "collect"
    BY <1>3, <1>18
  <2>3. \A c \in Channel :
          /\ InOrder(t, Len(emitted'[c]), c)
          /\ ~fired' /\ mode' = "stream" => UpTo(t, Len(emitted'[c]), Read(c)', c)
    BY <1>8, <1>17, <1>18
  <2>4. QED
    BY <1>3, <1>9, <1>15, <2>1, <2>2, <2>3 DEF Flow
<1>20. QED
  <2>1. Stream' = t
    BY <1>3
  <2>2. QED
    BY <1>19, <2>1 DEF Flow, ResponsesOK
-----------------------------------------------------------------------------
(* Timeouts.                                                                *)

(* The timeout fires once, while the client reads or has been interrupted. *)
LEMMA TimeoutEarly ==
    ASSUME ChildOK, EndOK, TypeOK, Timeout
    PROVE  /\ ~fired /\ ~cut /\ ~Settled /\ cpc \in {"read", "quit"}
           /\ dpc \in {"select", "write", "result"}
<1>1. dpc \in {"select", "write", "result"} /\ (dpc # "select" => pending # << >>)
  BY DEF Timeout, TimedOut
<1>2. ~fired /\ ~cut
  BY <1>1 DEF ChildOK, Ended, DaemonEnds
<1>3. ~Settled
  BY <1>1 DEF Settled, Ended, DaemonEnds
<1>4. cpc \in {"read", "quit"}
  BY <1>2, <1>3 DEF EndOK, TypeOK, ClientEnds
<1>5. QED
  BY <1>1, <1>2, <1>3, <1>4

(* What is left of the connection when no frame was cut. *)
LEMMA FlowBefore ==
    ASSUME TypeOK, ChildOK, Flow(Stream), Timeout, ~cut', NEW s, s = rx \o wire
    PROVE  /\ s \in Seq(Unit) /\ FramesOK(s) /\ NoResponse(s)
           /\ \A ch \in Channel : InOrder(s, Len(emitted[ch]), ch)
           /\ \A p \in DOMAIN s : \E q \in DOMAIN Stream : s[p] = Stream[q]
           /\ wire' = wire /\ rx' = rx
<1>1. rx \in Seq(Unit) /\ wire \in Seq(Unit) /\ pending \in Seq(Unit)
  BY DEF TypeOK
<1>2. s \in Seq(Unit) /\ Stream = s \o pending
  BY <1>1, Joined DEF Stream
<1>3. wire' = wire /\ Whole(pending) /\ rx' = rx
  BY DEF Timeout, DropPending, clientVars
<1>4. CASE pending = << >>
  <2>1. Stream = s
    BY <1>2, <1>4, ConcatEmptySeq
  <2>2. dpc = "select"
    BY <1>4 DEF Timeout, TimedOut
  <2>3. NoResponse(s)
    BY <2>1, <2>2, NoneAnswered
  <2>4. QED
    BY <1>2, <1>3, <2>1, <2>3 DEF Flow
<1>5. CASE pending # << >>
  <2>1. IsHead(pending[1])
    BY <1>3, <1>5 DEF Whole, IsHead
  <2>2. FramesOK(s \o pending)
    BY <1>2 DEF Flow
  <2>3. FramesOK(s) /\ \A p \in DOMAIN s : IsHead(s[p]) => p + s[p].len <= Len(s)
    BY <1>1, <1>2, <1>5, <2>1, <2>2, LastFrame
  <2>4. PICK u : u = s \o pending
    OBVIOUS
  <2>5. PICK m \in Nat : m = Len(s)
    BY <1>2, LenProperties
  <2>6. PICK n \in Nat : n = Len(pending) /\ n >= 1
    BY <1>1, <1>5, Popped
  <2>7. /\ DOMAIN u = 1 .. m + n /\ Len(u) = m + n /\ DOMAIN s = 1 .. m
        /\ \A i \in 1 .. m : u[i] = s[i]
    BY <1>1, <1>2, <2>4, <2>5, <2>6, JoinedBy
  <2>8. ASSUME NEW p \in 1 .. m, IsHead(s[p]), s[p].kind \in Response PROVE FALSE
    <3>1. u[p] = s[p] /\ p \in DOMAIN u
      BY <2>7
    <3>2. PICK k \in Nat : k = s[p].len
      <4>1. s[p] \in Unit
        BY <1>2, <2>5, ElementOfSeq
      <4>2. QED
        BY <2>8, <4>1, UnitFields
    <3>3. p + k = m + n
      BY <1>2, <2>4, <2>7, <2>8, <3>1, <3>2 DEF Flow, ResponseLast
    <3>4. p + k <= m
      BY <2>3, <2>5, <2>7, <2>8, <3>2
    <3>5. QED
      BY <2>6, <3>3, <3>4
  <2>9. NoResponse(s)
    BY <2>7, <2>8 DEF NoResponse
  <2>10. ASSUME NEW ch \in Channel PROVE InOrder(s, Len(emitted[ch]), ch)
    <3>1. PICK l \in Nat : l = Len(emitted[ch])
      BY EmittedLen
    <3>2. InOrder(s \o pending, l, ch)
      BY <1>2, <3>1 DEF Flow
    <3>3. InOrder(s, l, ch)
      BY <1>1, <1>2, <3>2, InOrderBefore
    <3>4. QED
      BY <3>1, <3>3
  <2>11. \A p \in DOMAIN s : p \in DOMAIN u /\ u[p] = s[p]
    BY <2>7
  <2>12. QED
    BY <1>2, <1>3, <2>3, <2>4, <2>9, <2>10, <2>11
<1>6. QED
  BY <1>4, <1>5

(* A timeout that does not cut a frame keeps the flow. *)
LEMMA FlowTimeout ==
    ASSUME TypeOK, ChildOK, Flow(Stream), Timeout, ~cut'
    PROVE  Flow(Stream)'
<1>1. PICK s : s = rx \o wire
  OBVIOUS
<1>2. /\ s \in Seq(Unit) /\ FramesOK(s) /\ NoResponse(s) /\ wire' = wire /\ rx' = rx
      /\ \A ch \in Channel : InOrder(s, Len(emitted[ch]), ch)
      /\ \A p \in DOMAIN s : \E q \in DOMAIN Stream : s[p] = Stream[q]
  BY <1>1, FlowBefore
<1>3. PICK f : f = Json("timeout", NoOutput)
  OBVIOUS
<1>4. IsFrame(f) /\ f[1].kind = "timeout" /\ f[1].out = NoOutput
  BY <1>3, JsonParts, NoOutputType DEF Response
<1>5. PICK u : u = s \o f
  OBVIOUS
<1>6. Stream' = u
  BY <1>1, <1>2, <1>3, <1>5 DEF Timeout, Answer, Stream
<1>7. /\ dpc' = "answer" /\ fired' /\ UNCHANGED <<mode, emitted, produced, pipe>>
  BY DEF Timeout, Answer, clientVars
<1>8. \A ch \in Channel : Read(ch)' = Read(ch)
  BY <1>7 DEF Read
<1>9. mode = "collect" => /\ \A p \in DOMAIN s : IsHead(s[p]) => s[p].kind \in Response
                          /\ emitted = NoOutput
  BY <1>2 DEF Flow
<1>10. Flow(u)'
  <2>1. dpc' \in Ended \cup {"result"}
    BY <1>7 DEF Ended
  <2>2. f[1].kind \in Response /\ f[1].kind # "result"
    BY <1>4 DEF Response
  <2>3. f[1].out = IF mode' = "collect" /\ f[1].kind = "result" THEN output' ELSE NoOutput
    BY <1>4, <2>2
  <2>4. (f[1].kind = "timeout" <=> fired') /\ UNCHANGED <<mode, emitted>>
    BY <1>4, <1>7
  <2>5. ~fired' /\ mode = "stream" =>
          \A ch \in Channel : UpTo(s, Len(emitted[ch]), Read(ch), ch) /\ Read(ch) \in Nat
    BY <1>7
  <2>6. QED
    BY <1>2, <1>4, <1>5, <1>8, <1>9, <2>1, <2>2, <2>3, <2>4, <2>5, ResponseAdded
<1>11. QED
  BY <1>6, <1>10 DEF Flow, ResponsesOK

(* A response that is not a timeout, when no frame is pending. *)
LEMMA FlowAnswered ==
    ASSUME TypeOK, ChildOK, PipesOK, Flow(Stream), dpc \in {"spawn", "select"}, ~fired,
           NEW f, IsFrame(f), f[1].kind \in {"failed", "result"},
           dpc' \in Ended \cup {"result"}, pending' = f,
           f[1].kind = "result" => waited' /\ \A ch \in Channel : ~open'[ch],
           f[1].out = IF mode' = "collect" /\ f[1].kind = "result" THEN output' ELSE NoOutput,
           UNCHANGED <<rx, wire, mode, emitted, fired, produced, pipe>>
    PROVE  Flow(Stream)'
<1>1. pending = << >> /\ f \in Seq(Unit)
  BY DEF ChildOK, IsFrame
<1>2. Stream \in Seq(Unit) /\ Stream' = Stream \o f
  BY <1>1, FrameBegins
<1>3. PICK s \in Seq(Unit) : s = Stream
  BY <1>2
<1>4. PICK u : u = s \o f
  OBVIOUS
<1>5. NoResponse(s)
  BY <1>3, NoneAnswered
<1>6. FramesOK(s) /\ \A ch \in Channel : InOrder(s, Len(emitted[ch]), ch)
  BY <1>3 DEF Flow
<1>7. mode = "collect" => /\ \A p \in DOMAIN s : IsHead(s[p]) => s[p].kind \in Response
                          /\ emitted = NoOutput
  BY <1>3 DEF Flow
<1>8. \A ch \in Channel : Read(ch)' = Read(ch)
  BY DEF Read
<1>9. ~fired' /\ mode = "stream" =>
        \A ch \in Channel : UpTo(s, Len(emitted[ch]), Read(ch), ch) /\ Read(ch) \in Nat
  BY <1>3, ReadIsNat DEF Flow
<1>10. f[1].kind \in Response /\ (f[1].kind = "timeout" <=> fired')
  BY DEF Response
<1>11. Flow(u)'
  BY <1>4, <1>5, <1>6, <1>7, <1>8, <1>9, <1>10, ResponseAdded
<1>12. Stream' = u
  BY <1>2, <1>3, <1>4
<1>13. QED
  BY <1>11, <1>12 DEF Flow, ResponsesOK

(* A chunk that was read becomes a frame. *)
LEMMA FlowRead ==
    ASSUME TypeOK, ChildOK, PipesOK, Flow(Stream), dpc = "select", mode = "stream", ~fired,
           NEW ch \in Channel, NEW f, IsFrame(f), f[1].kind = ch, pending' = f,
           \A k \in 1 .. f[1].len : f[k + 1].byte = <<ch, Read(ch) + k>>,
           UNCHANGED <<rx, wire, mode, emitted, fired>>,
           Read(ch)' = Read(ch) + f[1].len, \A c \in Channel \ {ch} : Read(c)' = Read(c)
    PROVE  Flow(Stream)'
<1>1. pending = << >> /\ f \in Seq(Unit)
  BY DEF ChildOK, IsFrame
<1>2. Stream \in Seq(Unit) /\ Stream' = Stream \o f
  BY <1>1, FrameBegins
<1>3. PICK s \in Seq(Unit) : s = Stream
  BY <1>2
<1>4. PICK u : u = s \o f
  OBVIOUS
<1>5. NoResponse(s) /\ Flow(s)
  BY <1>3, NoneAnswered
<1>6. \A c \in Channel : Read(c) \in Nat
  BY ReadIsNat
<1>7. UNCHANGED <<mode, emitted, fired>>
  OBVIOUS
<1>8. Flow(u)'
  BY <1>4, <1>5, <1>6, <1>7, ChunkAdded
<1>9. Stream' = u
  BY <1>2, <1>3, <1>4
<1>10. QED
  BY <1>8, <1>9 DEF Flow, ResponsesOK
-----------------------------------------------------------------------------
(* In the other mode nothing is on the connection before the answer. *)
LEMMA FlowCollected ==
    ASSUME Flow(Stream), Stream' = Stream, UNCHANGED <<mode, emitted, fired>>,
           mode = "collect", ResponsesOK(Stream)'
    PROVE  Flow(Stream)'
<1>1. FramesOK(Stream') /\ ResponseLast(Stream')
  BY DEF Flow
<1>2. fired' => \E p \in DOMAIN Stream' : IsHead(Stream'[p]) /\ Stream'[p].kind = "timeout"
  BY DEF Flow
<1>3. /\ \A p \in DOMAIN Stream' : IsHead(Stream'[p]) => Stream'[p].kind \in Response
      /\ emitted' = NoOutput
  BY DEF Flow
<1>4. \A ch \in Channel : InOrder(Stream', Len(emitted'[ch]), ch)
  BY DEF Flow
<1>5. QED
  BY <1>1, <1>2, <1>3, <1>4 DEF Flow

(* What is on the connection stays in order. *)
LEMMA FlowStep ==
    ASSUME TypeOK, ChildOK, PipesOK, StreamOK, EndOK, [Next]_vars, Reading'
    PROVE  Flow(Stream)'
<1>1. CASE ChildExit
  <2>1. Stream' = Stream
    BY <1>1 DEF Stream, ChildExit, daemonVars, clientVars
  <2>2. UNCHANGED <<mode, emitted, fired, open, output, dpc>> /\ (waited => waited')
    BY <1>1 DEF ChildExit, daemonVars, clientVars
  <2>3. \A c \in Channel : Read(c)' = Read(c)
    BY <1>1 DEF Read, ChildExit, daemonVars, clientVars
  <2>4. Reading /\ Flow(Stream)
    BY <1>1 DEF StreamOK, Reading, ChildExit, daemonVars, clientVars
  <2>5. ResponsesOK(Stream)'
    BY <2>1, <2>2, <2>4, ResponsesKept DEF Flow
  <2>6. QED
    BY <2>1, <2>2, <2>3, <2>4, <2>5, FlowKept
<1>2. CASE HeirsExit
  <2>1. Stream' = Stream
    BY <1>2 DEF Stream, HeirsExit, daemonVars, clientVars
  <2>2. UNCHANGED <<mode, emitted, fired, open, output, dpc>> /\ (waited => waited')
    BY <1>2 DEF HeirsExit, daemonVars, clientVars
  <2>3. \A c \in Channel : Read(c)' = Read(c)
    BY <1>2 DEF Read, HeirsExit, daemonVars, clientVars
  <2>4. Reading /\ Flow(Stream)
    BY <1>2 DEF StreamOK, Reading, HeirsExit, daemonVars, clientVars
  <2>5. ResponsesOK(Stream)'
    BY <2>1, <2>2, <2>4, ResponsesKept DEF Flow
  <2>6. QED
    BY <2>1, <2>2, <2>3, <2>4, <2>5, FlowKept
<1>3. ASSUME NEW ch \in Channel, ChildWrite(ch) PROVE Flow(Stream)'
  <2>1. Stream' = Stream
    BY <1>3 DEF Stream, ChildWrite, daemonVars, clientVars
  <2>2. UNCHANGED <<mode, emitted, fired, open, output, dpc>> /\ (waited => waited')
    BY <1>3 DEF ChildWrite, daemonVars, clientVars
  <2>3. \A c \in Channel : Read(c)' = Read(c)
    <3>1. SUFFICES ASSUME NEW c \in Channel PROVE Read(c)' = Read(c)
      OBVIOUS
    <3>2. CASE c = ch
      <4>1. PICK p \in Nat : p = produced[ch]
        BY ExecAssumption DEF TypeOK
      <4>2. PICK e \in Byte : e = <<ch, p + 1>>
        <5>1. <<ch, p + 1>> \in Byte
          BY DEF Byte
        <5>2. QED
          BY <5>1
      <4>3. PICK n \in Nat : n = Len(pipe[ch])
        BY LenProperties DEF TypeOK, Output
      <4>4. Len(Append(pipe[ch], e)) = n + 1
        BY <4>3, Pushed DEF TypeOK, Output
      <4>5. produced'[ch] = p + 1 /\ pipe'[ch] = Append(pipe[ch], e)
        BY <1>3, <4>1, <4>2 DEF ChildWrite, TypeOK, Output
      <4>6. (p + 1) - (n + 1) = p - n
        OBVIOUS
      <4>7. QED
        BY <3>2, <4>1, <4>3, <4>4, <4>5, <4>6 DEF Read
    <3>3. CASE c # ch
      BY <1>3, <3>3 DEF Read, ChildWrite, TypeOK, Output
    <3>4. QED
      BY <3>2, <3>3
  <2>4. Reading /\ Flow(Stream)
    BY <1>3 DEF StreamOK, Reading, ChildWrite, daemonVars, clientVars
  <2>5. ResponsesOK(Stream)'
    BY <2>1, <2>2, <2>4, ResponsesKept DEF Flow
  <2>6. QED
    BY <2>1, <2>2, <2>3, <2>4, <2>5, FlowKept
<1>4. CASE Spawn
  <2>1. Reading /\ Flow(Stream)
    BY <1>4 DEF StreamOK, Reading, Spawn, clientVars
  <2>2. pending = << >> /\ NoResponse(Stream) /\ ~fired
    BY <1>4, <2>1, NoneAnswered DEF Spawn, ChildOK, Ended, DaemonEnds
  <2>3. CASE dpc' = "select" /\ child' = "running" /\ UNCHANGED pending
    <3>1. Stream' = Stream
      BY <1>4, <2>3 DEF Stream, Spawn, clientVars
    <3>2. UNCHANGED <<mode, emitted, fired>> /\ \A c \in Channel : Read(c)' = Read(c)
      BY <1>4, <2>3 DEF Read, Spawn, clientVars
    <3>3. ResponsesOK(Stream)'
      BY <2>2, <3>1, NoResponsesKept
    <3>4. QED
      BY <2>1, <3>1, <3>2, <3>3, FlowKept
  <2>4. CASE Answer(Json("failed", NoOutput)) /\ UNCHANGED child
    <3>1. PICK f : f = Json("failed", NoOutput)
      OBVIOUS
    <3>2. IsFrame(f) /\ f[1].kind = "failed" /\ f[1].out = NoOutput
      BY <3>1, JsonParts, NoOutputType DEF Response
    <3>3. /\ dpc \in {"spawn", "select"} /\ dpc' \in Ended \cup {"result"} /\ pending' = f
          /\ UNCHANGED <<rx, wire, mode, emitted, fired, produced, pipe>>
      BY <1>4, <2>4, <3>1 DEF Spawn, Answer, Ended, clientVars
    <3>4. /\ f[1].kind \in {"failed", "result"}
          /\ f[1].kind = "result" => waited' /\ \A c \in Channel : ~open'[c]
          /\ f[1].out = IF mode' = "collect" /\ f[1].kind = "result" THEN output' ELSE NoOutput
      BY <3>2
    <3>5. QED
      BY <2>1, <2>2, <3>2, <3>3, <3>4, FlowAnswered
  <2>5. QED
    BY <1>4, <2>3, <2>4 DEF Spawn
<1>5. CASE ChildWaited
  <2>1. Stream' = Stream
    BY <1>5 DEF Stream, ChildWaited, childVars, clientVars
  <2>2. UNCHANGED <<mode, emitted, fired, open, output, dpc>> /\ (waited => waited')
    BY <1>5 DEF ChildWaited, childVars, clientVars
  <2>3. \A c \in Channel : Read(c)' = Read(c)
    BY <1>5 DEF Read, ChildWaited, childVars, clientVars
  <2>4. Reading /\ Flow(Stream)
    BY <1>5 DEF StreamOK, Reading, ChildWaited, childVars, clientVars
  <2>5. ResponsesOK(Stream)'
    BY <2>1, <2>2, <2>4, ResponsesKept DEF Flow
  <2>6. QED
    BY <2>1, <2>2, <2>3, <2>4, <2>5, FlowKept
<1>6. CASE LoopDone
  <2>1. Reading /\ Flow(Stream)
    BY <1>6 DEF StreamOK, Reading, LoopDone, clientVars
  <2>2. pending = << >> /\ NoResponse(Stream) /\ ~fired
    BY <1>6, <2>1, NoneAnswered DEF LoopDone, ChildOK, Ended, DaemonEnds
  <2>3. /\ waited' /\ \A c \in Channel : ~open'[c]
        /\ dpc = "select" /\ UNCHANGED <<rx, wire, mode, emitted, fired, produced, pipe, output>>
    BY <1>6 DEF LoopDone, childVars, clientVars
  <2>4. CASE mode = "stream" /\ dpc' = "result" /\ pending' = Json("result", NoOutput)
    <3>1. PICK f : f = Json("result", NoOutput)
      OBVIOUS
    <3>2. IsFrame(f) /\ f[1].kind = "result" /\ f[1].out = NoOutput
      BY <3>1, JsonParts, NoOutputType DEF Response
    <3>3. dpc \in {"spawn", "select"} /\ dpc' \in Ended \cup {"result"} /\ pending' = f
      BY <2>3, <2>4, <3>1
    <3>4. /\ f[1].kind \in {"failed", "result"}
          /\ f[1].kind = "result" => waited' /\ \A c \in Channel : ~open'[c]
          /\ f[1].out = IF mode' = "collect" /\ f[1].kind = "result" THEN output' ELSE NoOutput
      BY <2>3, <2>4, <3>2
    <3>5. QED
      BY <2>1, <2>2, <2>3, <3>2, <3>3, <3>4, FlowAnswered
  <2>5. CASE mode = "collect" /\ JsonSize(output) <= MaxPayload /\ Answer(Json("result", output))
    <3>1. PICK f : f = Json("result", output)
      OBVIOUS
    <3>2. output \in Output
      BY DEF TypeOK
    <3>3. IsFrame(f) /\ f[1].kind = "result" /\ f[1].out = output
      BY <2>5, <3>1, <3>2, JsonParts DEF Response
    <3>4. dpc \in {"spawn", "select"} /\ dpc' \in Ended \cup {"result"} /\ pending' = f
      BY <2>3, <2>5, <3>1 DEF Answer, Ended
    <3>5. /\ f[1].kind \in {"failed", "result"}
          /\ f[1].kind = "result" => waited' /\ \A c \in Channel : ~open'[c]
          /\ f[1].out = IF mode' = "collect" /\ f[1].kind = "result" THEN output' ELSE NoOutput
      BY <2>3, <2>5, <3>3
    <3>6. QED
      BY <2>1, <2>2, <2>3, <3>3, <3>4, <3>5, FlowAnswered
  <2>6. CASE UNCHANGED pending
    <3>1. Stream' = Stream
      BY <2>3, <2>6 DEF Stream
    <3>2. \A c \in Channel : Read(c)' = Read(c)
      BY <2>3 DEF Read
    <3>3. ResponsesOK(Stream)'
      BY <2>2, <3>1, NoResponsesKept
    <3>4. QED
      BY <2>1, <2>3, <3>1, <3>2, <3>3, FlowKept
  <2>7. QED
    BY <1>6, <2>4, <2>5, <2>6 DEF LoopDone, Result
<1>7. CASE WriteUnit
  <2>1. Stream' = Stream
    BY <1>7, UnitsMove
  <2>2. UNCHANGED <<mode, emitted, fired, open, output, dpc>> /\ (waited => waited')
    BY <1>7 DEF WriteUnit, childVars, clientVars
  <2>3. \A c \in Channel : Read(c)' = Read(c)
    BY <1>7 DEF Read, WriteUnit, childVars, clientVars
  <2>4. Reading /\ Flow(Stream)
    BY <1>7 DEF StreamOK, Reading, WriteUnit, childVars, clientVars
  <2>5. ResponsesOK(Stream)'
    BY <2>1, <2>2, <2>4, ResponsesKept DEF Flow
  <2>6. QED
    BY <2>1, <2>2, <2>3, <2>4, <2>5, FlowKept
<1>8. CASE FrameWritten
  <2>1. /\ Stream' = Stream /\ UNCHANGED <<mode, emitted, fired, open, output, waited>>
        /\ \A c \in Channel : Read(c)' = Read(c)
        /\ dpc \in Ended \cup {"result"} => dpc' \in Ended \cup {"result"}
    BY <1>8 DEF Stream, Read, FrameWritten, Ended, DaemonEnds, childVars, clientVars
  <2>2. Reading /\ Flow(Stream)
    BY <1>8 DEF StreamOK, Reading, FrameWritten, clientVars
  <2>3. ResponsesOK(Stream)'
    BY <2>1, <2>2, ResponsesKept DEF Flow
  <2>4. QED
    BY <2>1, <2>2, <2>3, FlowKept
<1>9. CASE WriteFails
  BY <1>9 DEF Reading, WriteFails, clientVars, ClientEnds
<1>10. ASSUME NEW ch \in Channel, ReadChunk(ch) PROVE Flow(Stream)'
  <2>1. Reading /\ Flow(Stream)
    BY <1>10 DEF StreamOK, Reading, ReadChunk, clientVars
  <2>2. pending = << >> /\ NoResponse(Stream) /\ ~fired
    BY <1>10, <2>1, NoneAnswered DEF ReadChunk, ChildOK, Ended, DaemonEnds
  <2>3. PICK n \in Nat, b \in Seq(Byte) :
          /\ n <= MaxPayload /\ Len(b) = n /\ n <= Len(pipe[ch])
          /\ \A k \in DOMAIN b : b[k] = <<ch, Read(ch) + k>>
          /\ \A c \in Channel \ {ch} : pipe'[c] = pipe[c]
          /\ Len(pipe'[ch]) = Len(pipe[ch]) - n
          /\ Pass(ch, b) /\ UNCHANGED <<rx, wire, mode, emitted, fired, produced>> /\ dpc = "select"
    <3>1. UNCHANGED <<rx, wire, mode, emitted, fired, produced>> /\ dpc = "select"
      BY <1>10 DEF ReadChunk, clientVars
    <3>2. QED
      BY <1>10, <3>1, ReadChunkParts
  <2>4. CASE mode = "stream"
    <3>1. PICK f : f = Frame(ch, b, NoOutput)
      OBVIOUS
    <3>2. PICK r \in Nat : r = Read(ch)
      BY ReadIsNat
    <3>3. GoesOn(b, r, ch)
      BY <2>3, <3>2 DEF GoesOn
    <3>4. /\ IsFrame(f) /\ f[1].kind = ch /\ f[1].len = n
          /\ \A k \in 1 .. f[1].len : f[k + 1].byte = <<ch, r + k>>
      <4>1. Len(b) <= MaxPayload /\ Len(b) = n
        BY <2>3
      <4>2. Numbered(f, r, ch) /\ IsFrame(f) /\ f[1].kind = ch /\ f[1].len = Len(b)
        BY <3>1, <3>3, <4>1, ChunkParts
      <4>3. QED
        BY <4>1, <4>2 DEF Numbered
    <3>5. Read(ch)' = r + n /\ \A c \in Channel \ {ch} : Read(c)' = Read(c)
      <4>1. PICK p \in Nat : p = produced[ch]
        BY ExecAssumption DEF TypeOK
      <4>2. PICK m \in Nat : m = Len(pipe[ch])
        BY LenProperties DEF TypeOK, Output
      <4>3. r = p - m /\ Len(pipe'[ch]) = m - n
        BY <2>3, <3>2, <4>1, <4>2 DEF Read
      <4>4. p - (m - n) = r + n
        BY <4>3
      <4>5. Read(ch)' = p - (m - n)
        BY <2>3, <4>1, <4>3 DEF Read
      <4>6. QED
        BY <2>3, <4>4, <4>5 DEF Read
    <3>6. pending' = f
      BY <2>3, <2>4, <3>1 DEF Pass
    <3>7. \A k \in 1 .. f[1].len : f[k + 1].byte = <<ch, Read(ch) + k>>
      BY <3>2, <3>4
    <3>8. Read(ch)' = Read(ch) + f[1].len
      BY <3>2, <3>4, <3>5
    <3>9. IsFrame(f) /\ f[1].kind = ch
      BY <3>4
    <3>10. dpc = "select" /\ UNCHANGED <<rx, wire, mode, emitted, fired>>
      BY <2>3
    <3>11. \A c \in Channel \ {ch} : Read(c)' = Read(c)
      BY <3>5
    <3>12. QED
      BY <2>1, <2>2, <2>4, <3>6, <3>7, <3>8, <3>9, <3>10, <3>11, FlowRead
  <2>5. CASE mode # "stream"
    <3>1. Stream' = Stream
      BY <2>3, <2>5 DEF Pass, Stream
    <3>2. UNCHANGED <<emitted, fired, mode>>
      BY <2>3
    <3>3. mode = "collect"
      BY <2>5 DEF TypeOK
    <3>4. ResponsesOK(Stream)'
      BY <2>2, <3>1, NoResponsesKept
    <3>5. QED
      BY <2>1, <3>1, <3>2, <3>3, <3>4, FlowCollected
  <2>6. QED
    BY <2>4, <2>5
<1>11. ASSUME NEW ch \in Channel, ReadEof(ch) PROVE Flow(Stream)'
  <2>1. Reading /\ Flow(Stream)
    BY <1>11 DEF StreamOK, Reading, ReadEof, clientVars
  <2>2. pending = << >> /\ NoResponse(Stream) /\ ~fired
    BY <1>11, <2>1, NoneAnswered DEF ReadEof, ChildOK, Ended, DaemonEnds
  <2>3. /\ Pass(ch, << >>) /\ dpc = "select"
        /\ UNCHANGED <<rx, wire, mode, emitted, fired, produced, pipe>>
    BY <1>11 DEF ReadEof, childVars, clientVars
  <2>4. CASE mode = "stream"
    <3>1. PICK f : f = Frame(ch, << >>, NoOutput)
      OBVIOUS
    <3>2. IsFrame(f) /\ f[1].kind = ch /\ f[1].len = 0
      BY <3>1, EofParts
    <3>3. pending' = f
      BY <2>3, <2>4, <3>1 DEF Pass
    <3>4. Read(ch)' = Read(ch) + 0 /\ \A c \in Channel \ {ch} : Read(c)' = Read(c)
      <4>1. PICK r \in Nat : r = Read(ch)
        BY ReadIsNat
      <4>2. r + 0 = r
        OBVIOUS
      <4>3. QED
        BY <2>3, <4>1, <4>2 DEF Read
    <3>5. \A k \in 1 .. f[1].len : f[k + 1].byte = <<ch, Read(ch) + k>>
      BY <3>2
    <3>6. Read(ch)' = Read(ch) + f[1].len
      BY <3>2, <3>4
    <3>7. dpc = "select" /\ UNCHANGED <<rx, wire, mode, emitted, fired>>
      BY <2>3
    <3>8. \A c \in Channel \ {ch} : Read(c)' = Read(c)
      BY <3>4
    <3>9. QED
      BY <2>1, <2>2, <2>4, <3>2, <3>3, <3>5, <3>6, <3>7, <3>8, FlowRead
  <2>5. CASE mode # "stream"
    <3>1. Stream' = Stream
      BY <2>3, <2>5 DEF Pass, Stream
    <3>2. UNCHANGED <<emitted, fired, mode>>
      BY <2>3
    <3>3. mode = "collect"
      BY <2>5 DEF TypeOK
    <3>4. ResponsesOK(Stream)'
      BY <2>2, <3>1, NoResponsesKept
    <3>5. QED
      BY <2>1, <3>1, <3>2, <3>3, <3>4, FlowCollected
  <2>6. QED
    BY <2>4, <2>5
<1>12. CASE ReadFails
  <2>1. Reading /\ Flow(Stream)
    BY <1>12 DEF StreamOK, Reading, ReadFails, clientVars
  <2>2. pending = << >> /\ NoResponse(Stream) /\ ~fired
    BY <1>12, <2>1, NoneAnswered DEF ReadFails, ChildOK, Ended, DaemonEnds
  <2>3. QED
    <3>1. PICK f : f = Json("failed", NoOutput)
      OBVIOUS
    <3>2. IsFrame(f) /\ f[1].kind = "failed" /\ f[1].out = NoOutput
      BY <3>1, JsonParts, NoOutputType DEF Response
    <3>3. /\ dpc \in {"spawn", "select"} /\ dpc' \in Ended \cup {"result"} /\ pending' = f
          /\ UNCHANGED <<rx, wire, mode, emitted, fired, produced, pipe>>
      BY <1>12, <3>1 DEF ReadFails, Answer, Ended, clientVars
    <3>4. /\ f[1].kind \in {"failed", "result"}
          /\ f[1].kind = "result" => waited' /\ \A c \in Channel : ~open'[c]
          /\ f[1].out = IF mode' = "collect" /\ f[1].kind = "result" THEN output' ELSE NoOutput
      BY <3>2
    <3>5. QED
      BY <2>1, <2>2, <3>2, <3>3, <3>4, FlowAnswered
<1>13. CASE Timeout
  <2>1. Reading /\ Flow(Stream) /\ ~cut'
    BY <1>13, TimeoutEarly DEF StreamOK, Reading, Timeout, clientVars
  <2>2. QED
    BY <1>13, <2>1, FlowTimeout
<1>14. CASE RecvUnit
  <2>1. Stream' = Stream
    BY <1>14, UnitsMove
  <2>2. UNCHANGED <<mode, emitted, fired, open, output, dpc>> /\ (waited => waited')
    BY <1>14 DEF RecvUnit, childVars, daemonVars
  <2>3. \A c \in Channel : Read(c)' = Read(c)
    BY <1>14 DEF Read, RecvUnit, childVars, daemonVars
  <2>4. Reading /\ Flow(Stream)
    BY <1>14 DEF StreamOK, Reading, RecvUnit, childVars, daemonVars
  <2>5. ResponsesOK(Stream)'
    BY <2>1, <2>2, <2>4, ResponsesKept DEF Flow
  <2>6. QED
    BY <2>1, <2>2, <2>3, <2>4, <2>5, FlowKept
<1>15. CASE HandleStream
  <2>1. Reading /\ Flow(Stream)
    BY <1>15 DEF StreamOK, Reading, HandleStream, daemonVars
  <2>2. QED
    BY <1>15, <2>1, FlowHandled
<1>16. CASE HandleResponse
  <2>1. cpc' # "read"
    BY <1>16 DEF HandleResponse, Response
  <2>2. QED
    BY <2>1 DEF Reading
<1>17. CASE ReadFailsAtClient
  BY <1>17 DEF Reading, ReadFailsAtClient
<1>18. CASE ClientQuit
  BY <1>18 DEF Reading, ClientQuit
<1>19. CASE UNCHANGED vars
  <2>1. Stream' = Stream
    BY <1>19 DEF Stream, vars, childVars, daemonVars, clientVars
  <2>2. UNCHANGED <<mode, emitted, fired, open, output, dpc>> /\ (waited => waited')
    BY <1>19 DEF vars, childVars, daemonVars, clientVars
  <2>3. \A c \in Channel : Read(c)' = Read(c)
    BY <1>19 DEF Read, vars, childVars, daemonVars, clientVars
  <2>4. Reading /\ Flow(Stream)
    BY <1>19 DEF StreamOK, Reading, vars, childVars, daemonVars, clientVars
  <2>5. ResponsesOK(Stream)'
    BY <2>1, <2>2, <2>4, ResponsesKept DEF Flow
  <2>6. QED
    BY <2>1, <2>2, <2>3, <2>4, <2>5, FlowKept
<1>20. QED
  BY <1>1, <1>2, <1>3, <1>4, <1>5, <1>6, <1>7, <1>8, <1>9, <1>10, <1>11, <1>12, <1>13, <1>14,
     <1>15, <1>16, <1>17, <1>18, <1>19
     DEF Next, Command, Daemon, Client, Terminated
-----------------------------------------------------------------------------
(* What the client makes of it.                                             *)

(* A timeout in the middle of the result leaves it broken. *)
LEMMA BrokenTimeout ==
    ASSUME TypeOK, ChildOK, Flow(Stream), Timeout
    PROVE  ResultBroken(Stream')
<1>1. rx \in Seq(Unit) /\ wire \in Seq(Unit) /\ pending \in Seq(Unit)
  BY DEF TypeOK
<1>2. PICK s \in Seq(Unit) : s = rx \o wire
  BY <1>1, Joined
<1>3. PICK f : f = Json("timeout", NoOutput)
  OBVIOUS
<1>4. IsFrame(f) /\ f[1].kind = "timeout" /\ f \in Seq(Unit) /\ f # << >>
  BY <1>3, JsonParts, NoOutputType DEF Response, IsFrame
<1>5. PICK m \in Nat : m = Len(s)
  BY LenProperties
<1>6. PICK c : c = [unit |-> "cut"]
  OBVIOUS
<1>7. PICK g \in Seq(Unit) :
        /\ Stream' = s \o g /\ g # << >> /\ g[1].unit # "byte"
        /\ \A i \in DOMAIN g : IsHead(g[i]) => g[i].kind = "timeout"
  <2>1. \A i \in DOMAIN f : IsHead(f[i]) => f[i].kind = "timeout"
    <3>1. SUFFICES ASSUME NEW i \in DOMAIN f, IsHead(f[i]) PROVE f[i].kind = "timeout"
      OBVIOUS
    <3>2. DOMAIN f = 1 .. f[1].len + 1 /\ f[1].len \in Nat
      <4>1. f[1].len \in Nat
        BY <1>4, Popped, UnitFields DEF IsFrame
      <4>2. QED
        BY <1>4, <4>1, LenProperties DEF IsFrame
    <3>3. CASE i = 1
      BY <1>4, <3>3
    <3>4. CASE i \in 2 .. f[1].len + 1
      <4>1. IsByte(f[i], f[1].kind)
        BY <1>4, <3>4 DEF IsFrame
      <4>2. QED
        BY <3>1, <4>1 DEF IsHead, IsByte
    <3>5. QED
      BY <3>2, <3>3, <3>4
  <2>2. f[1].unit # "byte"
    BY <1>4 DEF IsFrame, IsHead
  <2>3. CASE wire' = wire
    <3>1. Stream' = s \o f
      BY <1>2, <1>3, <2>3 DEF Timeout, Answer, clientVars, Stream
    <3>2. QED
      BY <1>4, <2>1, <2>2, <3>1
  <2>4. CASE wire' = Append(wire, c)
    <3>1. c \in Unit /\ c.unit = "cut"
      BY <1>6 DEF Unit
    <3>2. PICK o \in Seq(Unit) : o = <<c>> /\ Len(o) = 1 /\ o[1] = c
      <4>1. <<c>> \in Seq(Unit) /\ Len(<<c>>) = 1 /\ <<c>>[1] = c
        BY <3>1
      <4>2. QED
        BY <4>1
    <3>3. PICK g : g = o \o f
      OBVIOUS
    <3>4. PICK n \in Nat : n = Len(f)
      BY <1>4, LenProperties
    <3>5. /\ g \in Seq(Unit) /\ DOMAIN g = 1 .. 1 + n /\ Len(g) = 1 + n /\ DOMAIN f = 1 .. n
          /\ \A i \in 1 .. 1 : g[i] = o[i]
          /\ \A i \in 1 .. n : g[1 + i] = f[i]
      BY <1>4, <3>2, <3>3, <3>4, JoinedBy
    <3>6. g # << >> /\ g[1] = c
      BY <3>2, <3>5, EmptySeq
    <3>7. ASSUME NEW i \in DOMAIN g, IsHead(g[i]) PROVE g[i].kind = "timeout"
      <4>1. CASE i \in 1 .. 1
        BY <3>1, <3>6, <3>7, <4>1 DEF IsHead
      <4>2. ASSUME NEW j \in 1 .. n, i = 1 + j PROVE g[i].kind = "timeout"
        BY <2>1, <3>5, <3>7, <4>2
      <4>3. i \in 1 .. 1 \/ \E j \in 1 .. n : i = 1 + j
        <5>1. i \in 1 .. 1 + n /\ 1 \in Nat
          BY <3>5
        <5>2. QED
          BY <5>1, Positions
      <4>4. QED
        BY <4>1, <4>2, <4>3
    <3>8. Stream' = s \o g
      <4>1. Append(wire, c) = wire \o o
        BY <1>1, <3>1, <3>2, AppendIsConcat
      <4>2. rx \o (wire \o o) = s \o o
        BY <1>1, <1>2, <3>2, ConcatAssociative
      <4>3. (s \o o) \o f = s \o g
        BY <1>4, <3>3, ConcatAssociative
      <4>4. Stream' = (rx \o (wire \o o)) \o f
        BY <1>3, <2>4, <4>1 DEF Timeout, Answer, clientVars, Stream
      <4>5. QED
        BY <4>2, <4>3, <4>4
    <3>9. g[1].unit # "byte"
      BY <3>1, <3>6
    <3>10. QED
      BY <3>5, <3>6, <3>7, <3>8, <3>9
  <2>5. QED
    BY <1>6, <2>3, <2>4 DEF Timeout, DropPending
<1>8. PICK n \in Nat : n = Len(g) /\ n >= 1
  BY <1>7, Popped
<1>9. PICK u : u = s \o g
  OBVIOUS
<1>10. /\ DOMAIN u = 1 .. m + n /\ DOMAIN s = 1 .. m /\ DOMAIN g = 1 .. n
       /\ \A i \in 1 .. m : u[i] = s[i]
       /\ \A i \in 1 .. n : u[m + i] = g[i]
  <2>1. n = Len(g)
    BY <1>8
  <2>2. QED
    BY <1>5, <1>9, <2>1, JoinedBy
<1>11. PICK z \in Nat : z = Len(pending)
  BY <1>1, LenProperties
<1>12. PICK w : w = s \o pending
  OBVIOUS
<1>13. /\ DOMAIN w = 1 .. m + z /\ Len(w) = m + z
       /\ \A i \in 1 .. m : w[i] = s[i]
  BY <1>1, <1>5, <1>11, <1>12, JoinedBy
<1>14. w = Stream
  BY <1>2, <1>12 DEF Stream
<1>15. ASSUME NEW p \in 1 .. m + n, IsHead(u[p]), u[p].kind = "result"
       PROVE  \E q \in 1 .. m + n : p < q /\ q <= p + u[p].len /\ u[q].unit # "byte"
  <2>1. ASSUME NEW i \in 1 .. n, p = m + i PROVE FALSE
    BY <1>7, <1>10, <1>15, <2>1
  <2>2. p \in 1 .. m
    BY <2>1, Positions
  <2>3. u[p] = s[p] /\ w[p] = s[p] /\ p \in DOMAIN w
    BY <1>10, <1>13, <2>2
  <2>4. PICK k \in Nat : k = u[p].len
    <3>1. s[p] \in Unit
      BY <1>5, <2>2, ElementOfSeq
    <3>2. QED
      BY <1>15, <2>3, <3>1, UnitFields
  <2>5. "result" \in Response
    BY DEF Response
  <2>6. p + k = m + z
    BY <1>13, <1>14, <1>15, <2>3, <2>4, <2>5 DEF Flow, ResponseLast
  <2>7. dpc = "result" \/ dpc \in Ended
    BY <1>14, <1>15, <2>3, <2>5 DEF Flow, ResponsesOK
  <2>8. pending # << >>
    BY <2>7 DEF Timeout, TimedOut, Ended, DaemonEnds
  <2>9. z >= 1
    BY <1>1, <1>11, <2>8, Popped
  <2>10. m + 1 \in 1 .. m + n /\ p < m + 1 /\ m + 1 <= p + k
    BY <1>8, <2>2, <2>6, <2>9
  <2>11. u[m + 1] = g[1]
    BY <1>8, <1>10
  <2>12. QED
    BY <1>7, <2>4, <2>10, <2>11
<1>16. ResultBroken(u)
  BY <1>10, <1>15 DEF ResultBroken
<1>17. QED
  BY <1>7, <1>9, <1>16

(* A result that was cut never becomes whole again. *)
LEMMA BrokenStep ==
    ASSUME TypeOK, ChildOK, StreamOK, EndOK, BrokenOK, [Next]_vars
    PROVE  BrokenOK'
<1>1. CASE ChildExit
  <2>1. Stream' = Stream /\ fired' = fired /\ (cpc' = "read" => cpc = "read")
    BY <1>1 DEF Stream, ChildExit, daemonVars, clientVars
  <2>2. QED
    BY <2>1 DEF BrokenOK
<1>2. CASE HeirsExit
  <2>1. Stream' = Stream /\ fired' = fired /\ (cpc' = "read" => cpc = "read")
    BY <1>2 DEF Stream, HeirsExit, daemonVars, clientVars
  <2>2. QED
    BY <2>1 DEF BrokenOK
<1>3. ASSUME NEW ch \in Channel, ChildWrite(ch) PROVE BrokenOK'
  <2>1. Stream' = Stream /\ fired' = fired /\ (cpc' = "read" => cpc = "read")
    BY <1>3 DEF Stream, ChildWrite, daemonVars, clientVars
  <2>2. QED
    BY <2>1 DEF BrokenOK
<1>4. CASE Spawn
  <2>1. ~fired'
    BY <1>4 DEF Spawn, ChildOK, Ended, DaemonEnds
  <2>2. QED
    BY <2>1 DEF BrokenOK
<1>5. CASE ChildWaited
  <2>1. Stream' = Stream /\ fired' = fired /\ (cpc' = "read" => cpc = "read")
    BY <1>5 DEF Stream, ChildWaited, clientVars
  <2>2. QED
    BY <2>1 DEF BrokenOK
<1>6. CASE LoopDone
  <2>1. ~fired'
    BY <1>6 DEF LoopDone, ChildOK, Ended, DaemonEnds
  <2>2. QED
    BY <2>1 DEF BrokenOK
<1>7. CASE WriteUnit
  <2>1. Stream' = Stream /\ fired' = fired /\ (cpc' = "read" => cpc = "read")
    BY <1>7, UnitsMove DEF WriteUnit, clientVars
  <2>2. QED
    BY <2>1 DEF BrokenOK
<1>8. CASE FrameWritten
  <2>1. Stream' = Stream /\ fired' = fired /\ (cpc' = "read" => cpc = "read")
    BY <1>8 DEF Stream, FrameWritten, clientVars
  <2>2. QED
    BY <2>1 DEF BrokenOK
<1>9. CASE WriteFails
  BY <1>9 DEF WriteFails, clientVars, ClientEnds, BrokenOK
<1>10. ASSUME NEW ch \in Channel, ReadChunk(ch) PROVE BrokenOK'
  <2>1. ~fired'
    BY <1>10 DEF ReadChunk, ChildOK, Ended, DaemonEnds
  <2>2. QED
    BY <2>1 DEF BrokenOK
<1>11. ASSUME NEW ch \in Channel, ReadEof(ch) PROVE BrokenOK'
  <2>1. ~fired'
    BY <1>11 DEF ReadEof, ChildOK, Ended, DaemonEnds
  <2>2. QED
    BY <2>1 DEF BrokenOK
<1>12. CASE ReadFails
  <2>1. ~fired'
    BY <1>12 DEF ReadFails, ChildOK, Ended, DaemonEnds
  <2>2. QED
    BY <2>1 DEF BrokenOK
<1>13. CASE Timeout
  <2>1. CASE cpc' = "read"
    <3>1. Flow(Stream)
      BY <1>13, <2>1, TimeoutEarly DEF StreamOK, Reading, Timeout, clientVars
    <3>2. QED
      BY <1>13, <3>1, BrokenTimeout DEF BrokenOK
  <2>2. CASE cpc' # "read"
    BY <2>2 DEF BrokenOK
  <2>3. QED
    BY <2>1, <2>2
<1>14. CASE RecvUnit
  <2>1. Stream' = Stream /\ fired' = fired /\ (cpc' = "read" => cpc = "read")
    BY <1>14, UnitsMove DEF RecvUnit, daemonVars
  <2>2. QED
    BY <2>1 DEF BrokenOK
<1>15. CASE HandleStream
  <2>1. PICK t : t = wire \o pending
    OBVIOUS
  <2>2. rx' = << >> /\ UNCHANGED <<wire, pending, fired, cpc>>
    BY <1>15 DEF HandleStream, daemonVars
  <2>3. t \in Seq(Unit) /\ Stream = rx \o t /\ Stream' = t /\ rx \in Seq(Unit)
    BY <2>1, <2>2, FrameDropped DEF TypeOK
  <2>4. ResultBroken(Stream) => ResultBroken(t)
    BY <2>3, ResponseDropped
  <2>5. QED
    BY <2>2, <2>3, <2>4 DEF BrokenOK
<1>16. CASE HandleResponse
  <2>1. cpc' # "read"
    BY <1>16 DEF HandleResponse, Response
  <2>2. QED
    BY <2>1 DEF BrokenOK
<1>17. CASE ReadFailsAtClient
  BY <1>17 DEF ReadFailsAtClient, BrokenOK
<1>18. CASE ClientQuit
  BY <1>18 DEF ClientQuit, BrokenOK
<1>19. CASE UNCHANGED vars
  <2>1. Stream' = Stream /\ fired' = fired /\ (cpc' = "read" => cpc = "read")
    BY <1>19 DEF Stream, vars, childVars, daemonVars, clientVars
  <2>2. QED
    BY <2>1 DEF BrokenOK
<1>20. QED
  BY <1>1, <1>2, <1>3, <1>4, <1>5, <1>6, <1>7, <1>8, <1>9, <1>10, <1>11, <1>12, <1>13, <1>14,
     <1>15, <1>16, <1>17, <1>18, <1>19
     DEF Next, Command, Daemon, Client, Terminated
-----------------------------------------------------------------------------
(* A response that the client has is all there is on the connection. *)
LEMMA AnswerParts ==
    ASSUME TypeOK, Flow(Stream), HandleResponse
    PROVE  /\ IsFrame(rx) /\ pending = << >> /\ Stream = rx
           /\ dpc = "result" \/ dpc \in Ended
           /\ rx[1].kind = "timeout" <=> fired
           /\ rx[1].kind = "result" => waited /\ \A ch \in Channel : ~open[ch]
           /\ rx[1].out = IF mode = "collect" /\ rx[1].kind = "result" THEN output ELSE NoOutput
           /\ cpc' = IF rx[1].kind = "result" THEN "completed" ELSE rx[1].kind
           /\ \A ch \in Channel : emitted'[ch] = emitted[ch] \o rx[1].out[ch]
<1>1. /\ rx \in Seq(Unit) /\ rx # << >> /\ IsHead(rx[1]) /\ Whole(rx) /\ rx[1].kind \in Response
      /\ wire \in Seq(Unit) /\ pending \in Seq(Unit) /\ rx' = << >> /\ UNCHANGED <<wire, pending>>
  BY DEF HandleResponse, FrameRead, IsHead, Whole, TypeOK, daemonVars
<1>2. PICK t : t = wire \o pending
  OBVIOUS
<1>3. t \in Seq(Unit) /\ Stream = rx \o t
  BY <1>1, <1>2, FrameDropped
<1>4. IsFrame(rx)
  BY <1>1, <1>3, FirstFrame DEF Flow
<1>5. PICK n \in Nat : n = rx[1].len /\ Len(rx) = n + 1
  BY <1>1, Popped, UnitFields DEF Whole
<1>6. PICK m \in Nat : m = Len(rx) /\ m = n + 1
  BY <1>5
<1>7. PICK z \in Nat : z = Len(t)
  BY <1>3, LenProperties
<1>8. PICK u : u = rx \o t
  OBVIOUS
<1>9. Len(u) = m + z /\ DOMAIN u = 1 .. m + z /\ \A i \in 1 .. m : u[i] = rx[i]
  <2>1. m = Len(rx) /\ rx \in Seq(Unit) /\ t \in Seq(Unit)
    BY <1>1, <1>3, <1>6
  <2>2. QED
    BY <1>7, <1>8, <2>1, JoinedBy
<1>10. u[1] = rx[1] /\ 1 \in DOMAIN u
  BY <1>6, <1>9
<1>11. u = Stream
  BY <1>3, <1>8
<1>12. 1 + n = m + z
  BY <1>1, <1>5, <1>9, <1>10, <1>11 DEF Flow, ResponseLast
<1>13. z = 0
  BY <1>6, <1>12
<1>14. pending = << >> /\ Stream = rx
  <2>1. t = << >>
    BY <1>3, <1>7, <1>13, EmptySeq
  <2>2. PICK i \in Nat : i = Len(wire)
    BY <1>1, LenProperties
  <2>3. PICK j \in Nat : j = Len(pending)
    BY <1>1, LenProperties
  <2>4. Len(t) = i + j
    BY <1>1, <1>2, <2>2, <2>3, JoinedBy
  <2>5. j = 0
    <3>1. i + j = z
      BY <1>7, <2>4
    <3>2. QED
      BY <1>13, <3>1
  <2>6. pending = << >>
    BY <1>1, <2>3, <2>5, EmptySeq
  <2>7. rx \o << >> = rx
    BY <1>1, ConcatEmptySeq
  <2>8. QED
    BY <1>3, <2>1, <2>6, <2>7
<1>15. /\ dpc = "result" \/ dpc \in Ended
       /\ rx[1].kind = "timeout" <=> fired
       /\ rx[1].kind = "result" => waited /\ \A ch \in Channel : ~open[ch]
       /\ rx[1].out = IF mode = "collect" /\ rx[1].kind = "result" THEN output ELSE NoOutput
  <2>1. ResponsesOK(u) /\ IsHead(u[1]) /\ u[1].kind \in Response
    BY <1>1, <1>10, <1>11 DEF Flow
  <2>2. /\ dpc = "result" \/ dpc \in Ended
        /\ u[1].kind = "timeout" <=> fired
        /\ u[1].kind = "result" => waited /\ \A ch \in Channel : ~open[ch]
        /\ u[1].out = IF mode = "collect" /\ u[1].kind = "result" THEN output ELSE NoOutput
    BY <1>10, <2>1 DEF ResponsesOK
  <2>3. QED
    BY <1>10, <2>2
<1>16. \A k \in 2 .. Len(rx) : rx[k].unit = "byte" /\ rx[k].byte[1] = rx[1].kind
  BY <1>4 DEF IsFrame, IsByte
<1>17. /\ cpc' = IF rx[1].kind = "result" THEN "completed" ELSE rx[1].kind
       /\ emitted' = [ch \in Channel |-> emitted[ch] \o rx[1].out[ch]]
  BY <1>16 DEF HandleResponse
<1>18. QED
  BY <1>4, <1>14, <1>15, <1>17

(* What the client reads begins with a header. *)
LEMMA FirstIsHead ==
    ASSUME TypeOK, Flow(Stream), rx # << >>
    PROVE  IsHead(rx[1]) /\ Stream # << >> /\ Stream[1] = rx[1]
<1>1. rx \in Seq(Unit) /\ wire \in Seq(Unit) /\ pending \in Seq(Unit)
  BY DEF TypeOK
<1>2. PICK t \in Seq(Unit) : t = wire \o pending
  BY <1>1, Joined
<1>3. Stream = rx \o t
  BY <1>1, <1>2, ConcatAssociative DEF Stream
<1>4. PICK m \in Nat : m = Len(rx) /\ m >= 1
  BY <1>1, Popped
<1>5. PICK z \in Nat : z = Len(t)
  BY LenProperties
<1>6. PICK u : u = rx \o t
  OBVIOUS
<1>7. u \in Seq(Unit) /\ Len(u) = m + z /\ \A i \in 1 .. m : u[i] = rx[i]
  <2>1. m = Len(rx)
    BY <1>4
  <2>2. QED
    BY <1>1, <1>5, <1>6, <2>1, JoinedBy
<1>8. u # << >> /\ u[1] = rx[1]
  BY <1>4, <1>7, EmptySeq
<1>9. QED
  BY <1>3, <1>6, <1>8 DEF Flow, FramesOK

(* What is shown stays numbered without gaps. *)
LEMMA EmittedStep ==
    ASSUME TypeOK, ChildOK, PipesOK, StreamOK, EmittedOK, EndOK, [Next]_vars
    PROVE  EmittedOK'
<1>1. CASE ChildExit
  BY <1>1 DEF ChildExit, daemonVars, clientVars, EmittedOK
<1>2. CASE HeirsExit
  BY <1>2 DEF HeirsExit, daemonVars, clientVars, EmittedOK
<1>3. ASSUME NEW ch \in Channel, ChildWrite(ch) PROVE EmittedOK'
  BY <1>3 DEF ChildWrite, daemonVars, clientVars, EmittedOK
<1>4. CASE Spawn
  BY <1>4 DEF Spawn, clientVars, Answer, EmittedOK
<1>5. CASE ChildWaited
  BY <1>5 DEF ChildWaited, childVars, clientVars, EmittedOK
<1>6. CASE LoopDone
  BY <1>6 DEF LoopDone, childVars, clientVars, Result, Answer, EmittedOK
<1>7. CASE WriteUnit
  BY <1>7 DEF WriteUnit, childVars, clientVars, EmittedOK
<1>8. CASE FrameWritten
  BY <1>8 DEF FrameWritten, childVars, clientVars, EmittedOK
<1>9. CASE WriteFails
  BY <1>9 DEF WriteFails, clientVars, Kill, EmittedOK
<1>10. ASSUME NEW ch \in Channel, ReadChunk(ch) PROVE EmittedOK'
  BY <1>10 DEF ReadChunk, clientVars, Pass, EmittedOK
<1>11. ASSUME NEW ch \in Channel, ReadEof(ch) PROVE EmittedOK'
  BY <1>11 DEF ReadEof, childVars, clientVars, Pass, EmittedOK
<1>12. CASE ReadFails
  BY <1>12 DEF ReadFails, clientVars, Kill, Answer, EmittedOK
<1>13. CASE Timeout
  <2>1. ~cut /\ emitted' = emitted
    BY <1>13, TimeoutEarly DEF Timeout, clientVars
  <2>2. QED
    BY <2>1 DEF EmittedOK
<1>14. CASE RecvUnit
  BY <1>14 DEF RecvUnit, childVars, daemonVars, EmittedOK
<1>15. CASE HandleStream
  <2>1. SUFFICES ASSUME ~cut'
                 PROVE  \A c \in Channel : \A k \in DOMAIN emitted'[c] : emitted'[c][k] = <<c, k>>
    BY DEF EmittedOK
  <2>2. ~cut /\ Flow(Stream)
    BY <1>15, <2>1 DEF HandleStream, daemonVars, StreamOK, Reading
  <2>3. PICK t : t = wire \o pending
    OBVIOUS
  <2>4. PICK b \in Seq(Byte) :
          /\ \A k \in 1 .. Len(b) : b[k] = <<rx[1].kind, Len(emitted[rx[1].kind]) + k>>
          /\ emitted'[rx[1].kind] = emitted[rx[1].kind] \o b
          /\ \A c \in Channel \ {rx[1].kind} : emitted'[c] = emitted[c]
    BY <1>15, <2>2, <2>3, HandledParts
  <2>5. PICK ch \in Channel : ch = rx[1].kind
    BY <1>15 DEF HandleStream
  <2>6. PICK o \in Seq(Byte) : o = emitted[ch]
    BY DEF TypeOK, Output
  <2>7. PICK q : q = o \o b
    OBVIOUS
  <2>8. PICK l \in Nat : l = Len(o)
    BY LenProperties
  <2>9. PICK n \in Nat : n = Len(b)
    BY LenProperties
  <2>10. /\ DOMAIN q = 1 .. l + n /\ DOMAIN o = 1 .. l
         /\ \A i \in 1 .. l : q[i] = o[i]
         /\ \A i \in 1 .. n : q[l + i] = b[i]
    BY <2>7, <2>8, <2>9, JoinedBy
  <2>11. ASSUME NEW k \in 1 .. l + n PROVE q[k] = <<ch, k>>
    <3>1. CASE k \in 1 .. l
      BY <2>2, <2>6, <2>10, <3>1 DEF EmittedOK
    <3>2. ASSUME NEW i \in 1 .. n, k = l + i PROVE q[k] = <<ch, k>>
      BY <2>4, <2>5, <2>6, <2>8, <2>9, <2>10, <3>2
    <3>3. k \in 1 .. l \/ \E i \in 1 .. n : k = l + i
      BY Positions
    <3>4. QED
      BY <3>1, <3>2, <3>3
  <2>12. emitted'[ch] = q
    BY <2>4, <2>5, <2>6, <2>7
  <2>13. ASSUME NEW c \in Channel, NEW k \in DOMAIN emitted'[c] PROVE emitted'[c][k] = <<c, k>>
    <3>1. CASE c = ch
      BY <2>10, <2>11, <2>12, <2>13, <3>1
    <3>2. CASE c # ch
      BY <2>2, <2>4, <2>5, <2>13, <3>2 DEF EmittedOK
    <3>3. QED
      BY <3>1, <3>2
  <2>14. QED
    BY <2>13
<1>16. CASE HandleResponse
  <2>1. SUFFICES ASSUME ~cut', NEW c \in Channel
                 PROVE  \A k \in DOMAIN emitted'[c] : emitted'[c][k] = <<c, k>>
    BY DEF EmittedOK
  <2>2. ~cut /\ Flow(Stream)
    BY <1>16, <2>1 DEF HandleResponse, daemonVars, StreamOK, Reading
  <2>3. /\ rx[1].out = IF mode = "collect" /\ rx[1].kind = "result" THEN output ELSE NoOutput
        /\ emitted'[c] = emitted[c] \o rx[1].out[c]
    BY <1>16, <2>2, AnswerParts
  <2>4. emitted[c] \in Seq(Byte) /\ output[c] \in Seq(Byte) /\ NoOutput[c] = << >>
    BY NoOutputType DEF TypeOK, Output
  <2>5. emitted[c] \o << >> = emitted[c] /\ << >> \o output[c] = output[c]
    BY <2>4, ConcatEmptySeq
  <2>6. CASE mode = "collect" /\ rx[1].kind = "result"
    <3>1. emitted[c] = << >>
      BY <2>2, <2>4, <2>6 DEF Flow
    <3>2. emitted'[c] = output[c]
      BY <2>3, <2>5, <2>6, <3>1
    <3>3. QED
      BY <3>2 DEF PipesOK
  <2>7. CASE ~(mode = "collect" /\ rx[1].kind = "result")
    <3>1. emitted'[c] = emitted[c]
      BY <2>3, <2>4, <2>5, <2>7
    <3>2. QED
      BY <2>2, <3>1 DEF EmittedOK
  <2>8. QED
    BY <2>6, <2>7
<1>17. CASE ReadFailsAtClient
  BY <1>17 DEF ReadFailsAtClient, childVars, daemonVars, EmittedOK
<1>18. CASE ClientQuit
  BY <1>18 DEF ClientQuit, childVars, daemonVars, EmittedOK
<1>19. CASE UNCHANGED vars
  BY <1>19 DEF vars, childVars, daemonVars, clientVars, EmittedOK
<1>20. QED
  BY <1>1, <1>2, <1>3, <1>4, <1>5, <1>6, <1>7, <1>8, <1>9, <1>10, <1>11, <1>12, <1>13, <1>14,
     <1>15, <1>16, <1>17, <1>18, <1>19
     DEF Next, Command, Daemon, Client, Terminated

(* The client ends when the timeout cannot fire any more. *)
LEMMA EndStep ==
    ASSUME TypeOK, ChildOK, StreamOK, RxOK, EndOK, [Next]_vars
    PROVE  EndOK'
<1>1. CASE ChildExit
  BY <1>1 DEF ChildExit, daemonVars, clientVars, EndOK, Settled, Ended, DaemonEnds
<1>2. CASE HeirsExit
  BY <1>2 DEF HeirsExit, daemonVars, clientVars, EndOK, Settled, Ended, DaemonEnds
<1>3. ASSUME NEW ch \in Channel, ChildWrite(ch) PROVE EndOK'
  BY <1>3 DEF ChildWrite, daemonVars, clientVars, EndOK, Settled, Ended, DaemonEnds
<1>4. CASE Spawn
  BY <1>4 DEF Spawn, clientVars, Answer, EndOK, Settled, Ended, DaemonEnds
<1>5. CASE ChildWaited
  BY <1>5 DEF ChildWaited, childVars, clientVars, EndOK, Settled, Ended, DaemonEnds
<1>6. CASE LoopDone
  BY <1>6 DEF LoopDone, childVars, clientVars, Result, Answer, EndOK, Settled, Ended, DaemonEnds
<1>7. CASE WriteUnit
  BY <1>7 DEF WriteUnit, childVars, clientVars, EndOK, Settled, Ended, DaemonEnds
<1>8. CASE FrameWritten
  BY <1>8 DEF FrameWritten, childVars, clientVars, EndOK, Settled, Ended, DaemonEnds
<1>9. CASE WriteFails
  BY <1>9 DEF WriteFails, clientVars, Kill, EndOK, Settled, Ended, DaemonEnds
<1>10. ASSUME NEW ch \in Channel, ReadChunk(ch) PROVE EndOK'
  BY <1>10 DEF ReadChunk, clientVars, Pass, EndOK, Settled, Ended, DaemonEnds
<1>11. ASSUME NEW ch \in Channel, ReadEof(ch) PROVE EndOK'
  BY <1>11 DEF ReadEof, childVars, clientVars, Pass, EndOK, Settled, Ended, DaemonEnds
<1>12. CASE ReadFails
  BY <1>12 DEF ReadFails, clientVars, Kill, Answer, EndOK, Settled, Ended, DaemonEnds
<1>13. CASE Timeout
  <2>1. cpc \in {"read", "quit"} /\ cpc' = cpc
    BY <1>13, TimeoutEarly DEF Timeout, clientVars
  <2>2. QED
    BY <2>1 DEF EndOK
<1>14. CASE RecvUnit
  BY <1>14 DEF RecvUnit, childVars, daemonVars, EndOK, Settled, Ended, DaemonEnds
<1>15. CASE HandleStream
  BY <1>15 DEF HandleStream, childVars, daemonVars, EndOK, Settled, Ended, DaemonEnds
<1>16. CASE HandleResponse
  <2>1. dpc' = dpc /\ pending' = pending /\ cut' = cut /\ cpc = "read"
    BY <1>16 DEF HandleResponse, daemonVars
  <2>2. CASE cut
    <3>1. dpc \in Ended
      BY <2>2 DEF ChildOK
    <3>2. QED
      BY <2>1, <2>2, <3>1 DEF EndOK, Settled
  <2>3. CASE ~cut
    <3>1. Flow(Stream)
      BY <2>1, <2>3 DEF StreamOK, Reading
    <3>2. /\ pending = << >> /\ (dpc = "result" \/ dpc \in Ended)
          /\ cpc' = IF rx[1].kind = "result" THEN "completed" ELSE rx[1].kind
      BY <1>16, <3>1, AnswerParts
    <3>3. rx[1].kind \in Response
      BY <1>16 DEF HandleResponse
    <3>4. cpc' # "bad_frame"
      BY <3>2, <3>3 DEF Response
    <3>5. QED
      BY <2>1, <3>2, <3>4 DEF EndOK, Settled
  <2>4. QED
    BY <2>2, <2>3
<1>17. CASE ReadFailsAtClient
  <2>1. dpc' = dpc /\ pending' = pending /\ cut' = cut /\ cpc = "read"
    BY <1>17 DEF ReadFailsAtClient, daemonVars
  <2>2. CASE rx # << >> /\ rx[1].unit # "header" /\ cpc' = "bad_frame"
    <3>1. CASE ~cut
      <4>1. Flow(Stream)
        BY <2>1, <3>1 DEF StreamOK, Reading
      <4>2. IsHead(rx[1])
        BY <2>2, <4>1, FirstIsHead
      <4>3. QED
        BY <2>2, <4>2 DEF IsHead
    <3>2. QED
      BY <2>1, <2>2, <3>1 DEF EndOK
  <2>3. CASE dpc \in DaemonEnds /\ cpc' = "disconnected"
    BY <2>1, <2>3 DEF EndOK, Settled, Ended
  <2>4. QED
    BY <1>17, <2>2, <2>3 DEF ReadFailsAtClient
<1>18. CASE ClientQuit
  BY <1>18 DEF ClientQuit, childVars, daemonVars, EndOK, Settled, Ended, DaemonEnds
<1>19. CASE UNCHANGED vars
  BY <1>19 DEF vars, childVars, daemonVars, clientVars, EndOK, Settled, Ended, DaemonEnds
<1>20. QED
  BY <1>1, <1>2, <1>3, <1>4, <1>5, <1>6, <1>7, <1>8, <1>9, <1>10, <1>11, <1>12, <1>13, <1>14,
     <1>15, <1>16, <1>17, <1>18, <1>19
     DEF Next, Command, Daemon, Client, Terminated
-----------------------------------------------------------------------------
(* A result of which all bytes have arrived is not a broken one. *)
LEMMA WholeNotBroken ==
    ASSUME TypeOK, rx # << >>, IsHead(rx[1]), Len(rx) = rx[1].len + 1, rx[1].kind = "result",
           \A k \in 2 .. Len(rx) : rx[k].unit = "byte", ResultBroken(Stream)
    PROVE  FALSE
<1>1. rx \in Seq(Unit) /\ wire \in Seq(Unit) /\ pending \in Seq(Unit)
  BY DEF TypeOK
<1>2. PICK t \in Seq(Unit) : t = wire \o pending
  BY <1>1, Joined
<1>3. Stream = rx \o t
  BY <1>1, <1>2, ConcatAssociative DEF Stream
<1>4. PICK n \in Nat : n = rx[1].len
  BY <1>1, Popped, UnitFields
<1>5. PICK m \in Nat : m = Len(rx) /\ m = n + 1
  BY <1>4
<1>6. PICK z \in Nat : z = Len(t)
  BY LenProperties
<1>7. PICK u : u = rx \o t
  OBVIOUS
<1>8. DOMAIN u = 1 .. m + z /\ \A i \in 1 .. m : u[i] = rx[i]
  <2>1. PICK r \in Seq(Unit) : r = rx
    BY <1>1
  <2>2. m = Len(r) /\ u = r \o t
    BY <1>5, <1>7, <2>1
  <2>3. DOMAIN u = 1 .. m + z /\ \A i \in 1 .. m : u[i] = r[i]
    BY <1>6, <2>2, JoinedBy
  <2>4. QED
    BY <2>1, <2>3
<1>9. u[1] = rx[1] /\ 1 \in DOMAIN u
  BY <1>5, <1>8
<1>10. PICK q \in DOMAIN u : 1 < q /\ q <= 1 + n /\ u[q].unit # "byte"
  BY <1>3, <1>4, <1>7, <1>9 DEF ResultBroken
<1>11. q \in 2 .. m /\ u[q] = rx[q]
  <2>1. q \in 1 .. m + z
    BY <1>8, <1>10
  <2>2. q \in 2 .. m /\ q \in 1 .. m
    BY ONLY <1>5, <1>10, <2>1, n \in Nat, m \in Nat, z \in Nat, m = n + 1
  <2>3. QED
    BY ONLY <1>8, <2>2
<1>12. QED
  BY <1>5, <1>10, <1>11

(* A result that the client takes for one has everything before it. *)
LEMMA CompletedStep ==
    ASSUME TypeOK, ChildOK, PipesOK, RxOK, StreamOK, BrokenOK, EmittedOK, EndOK,
           CompletedIsAll, [Next]_vars
    PROVE  CompletedIsAll'
<1>1. CASE ChildExit
  BY <1>1 DEF ChildExit, daemonVars, clientVars, CompletedIsAll, Writable
<1>2. CASE HeirsExit
  BY <1>2 DEF HeirsExit, daemonVars, clientVars, CompletedIsAll, Writable
<1>3. ASSUME NEW ch \in Channel, ChildWrite(ch) PROVE CompletedIsAll'
  BY <1>3 DEF ChildWrite, daemonVars, clientVars, CompletedIsAll, Writable
<1>4. CASE Spawn
  <2>1. cpc' = cpc /\ cpc # "completed"
    BY <1>4 DEF Spawn, EndOK, Settled, Ended, DaemonEnds, clientVars
  <2>2. QED
    BY <2>1 DEF CompletedIsAll
<1>5. CASE ChildWaited
  BY <1>5 DEF ChildWaited, childVars, clientVars, CompletedIsAll, Writable
<1>6. CASE LoopDone
  BY <1>6 DEF LoopDone, childVars, clientVars, Result, Answer, CompletedIsAll, Writable
<1>7. CASE WriteUnit
  BY <1>7 DEF WriteUnit, childVars, clientVars, CompletedIsAll, Writable
<1>8. CASE FrameWritten
  BY <1>8 DEF FrameWritten, childVars, clientVars, CompletedIsAll, Writable
<1>9. CASE WriteFails
  BY <1>9 DEF WriteFails, clientVars, Kill, CompletedIsAll, Writable
<1>10. ASSUME NEW ch \in Channel, ReadChunk(ch) PROVE CompletedIsAll'
  BY <1>10 DEF ReadChunk, clientVars, Pass, CompletedIsAll, Writable
<1>11. ASSUME NEW ch \in Channel, ReadEof(ch) PROVE CompletedIsAll'
  BY <1>11 DEF ReadEof, childVars, clientVars, Pass, CompletedIsAll, Writable
<1>12. CASE ReadFails
  BY <1>12 DEF ReadFails, clientVars, Kill, Answer, CompletedIsAll, Writable
<1>13. CASE Timeout
  <2>1. cpc' = cpc /\ cpc # "completed"
    BY <1>13, TimeoutEarly DEF Timeout, clientVars
  <2>2. QED
    BY <2>1 DEF CompletedIsAll
<1>14. CASE RecvUnit
  BY <1>14 DEF RecvUnit, childVars, daemonVars, CompletedIsAll, Writable
<1>15. CASE HandleStream
  BY <1>15 DEF HandleStream, childVars, daemonVars, CompletedIsAll, Writable
<1>16. CASE HandleResponse
  <2>1. SUFFICES ASSUME cpc' = "completed"
                 PROVE  /\ ~fired' /\ ~Writable'
                        /\ \A c \in Channel : emitted'[c] = [k \in 1 .. produced'[c] |-> <<c, k>>]
    BY DEF CompletedIsAll
  <2>2. /\ UNCHANGED <<fired, cut, child, heirs, produced, pipe>> /\ cpc = "read"
        /\ rx # << >> /\ IsHead(rx[1]) /\ Len(rx) = rx[1].len + 1 /\ rx \in Seq(Unit)
        /\ rx[1].kind = "result" /\ \A k \in 2 .. Len(rx) : rx[k].unit = "byte"
    BY <1>16, <2>1 DEF HandleResponse, FrameRead, IsHead, childVars, daemonVars, Response, TypeOK
  <2>3. ~fired
    <3>1. SUFFICES ASSUME fired PROVE FALSE
      OBVIOUS
    <3>2. ResultBroken(Stream)
      BY <2>2, <3>1 DEF BrokenOK
    <3>3. QED
      BY <2>2, <3>2, WholeNotBroken
  <2>4. ~cut /\ Flow(Stream)
    BY <2>2, <2>3 DEF ChildOK, StreamOK, Reading
  <2>5. /\ IsFrame(rx) /\ Stream = rx /\ waited /\ \A c \in Channel : ~open[c]
        /\ rx[1].out = IF mode = "collect" THEN output ELSE NoOutput
        /\ \A c \in Channel : emitted'[c] = emitted[c] \o rx[1].out[c]
    BY <1>16, <2>2, <2>4, AnswerParts
  <2>6. ~Writable /\ \A c \in Channel : pipe[c] = << >>
    BY <2>5 DEF ChildOK, Channel
  <2>7. ASSUME NEW c \in Channel PROVE emitted'[c] = [k \in 1 .. produced[c] |-> <<c, k>>]
    <3>1. PICK n \in Nat : n = produced[c] /\ Read(c) = n
      <4>1. produced[c] \in Nat /\ Len(pipe[c]) = 0
        BY <2>6, EmptySeq, ExecAssumption DEF TypeOK
      <4>2. QED
        BY <4>1 DEF Read
    <3>2. emitted[c] \in Seq(Byte) /\ output[c] \in Seq(Byte) /\ NoOutput[c] = << >>
      BY NoOutputType DEF TypeOK, Output
    <3>3. emitted[c] \o << >> = emitted[c] /\ << >> \o output[c] = output[c]
      BY <3>2, ConcatEmptySeq
    <3>4. PICK e \in Seq(Byte) :
             e = emitted'[c] /\ Len(e) = n /\ \A k \in DOMAIN e : e[k] = <<c, k>>
      <4>1. CASE mode = "collect"
        <5>1. emitted[c] = << >>
          BY <2>4, <3>2, <4>1 DEF Flow
        <5>2. emitted'[c] = output[c]
          BY <2>5, <3>3, <4>1, <5>1
        <5>3. Len(output[c]) = n /\ \A k \in DOMAIN output[c] : output[c][k] = <<c, k>>
          BY <3>1, <4>1 DEF PipesOK
        <5>4. QED
          BY <3>2, <5>2, <5>3
      <4>2. CASE mode # "collect"
        <5>1. emitted'[c] = emitted[c]
          BY <2>5, <3>2, <3>3, <4>2
        <5>2. PICK l \in Nat : l = Len(emitted[c])
          BY EmittedLen
        <5>3. UpTo(rx, l, n, c)
          BY <2>3, <2>4, <2>5, <3>1, <4>2, <5>2 DEF Flow, TypeOK
        <5>4. NoneOf(rx, c)
          BY <2>2, <2>5, OtherFrames DEF Channel
        <5>5. l = n
          BY <5>3, <5>4 DEF UpTo, NoneOf
        <5>6. QED
          BY <2>4, <3>2, <5>1, <5>2, <5>5 DEF EmittedOK
      <4>3. QED
        BY <4>1, <4>2
    <3>5. DOMAIN e = 1 .. n /\ e = [k \in DOMAIN e |-> e[k]]
      BY <3>4, LenProperties
    <3>6. e = [k \in 1 .. n |-> <<c, k>>]
      BY <3>4, <3>5
    <3>7. QED
      BY <3>1, <3>4, <3>6
  <2>8. QED
    BY <2>2, <2>3, <2>6, <2>7 DEF Writable
<1>17. CASE ReadFailsAtClient
  BY <1>17 DEF ReadFailsAtClient, childVars, daemonVars, CompletedIsAll, Writable
<1>18. CASE ClientQuit
  BY <1>18 DEF ClientQuit, childVars, daemonVars, CompletedIsAll, Writable
<1>19. CASE UNCHANGED vars
  BY <1>19 DEF vars, childVars, daemonVars, clientVars, CompletedIsAll, Writable
<1>20. QED
  BY <1>1, <1>2, <1>3, <1>4, <1>5, <1>6, <1>7, <1>8, <1>9, <1>10, <1>11, <1>12, <1>13, <1>14,
     <1>15, <1>16, <1>17, <1>18, <1>19
     DEF Next, Command, Daemon, Client, Terminated

(* A timeout between two frames is reported. *)
LEMMA ReportedStep ==
    ASSUME TypeOK, ChildOK, RxOK, StreamOK, EndOK, TimeoutIsReported, [Next]_vars
    PROVE  TimeoutIsReported'
<1>1. CASE ChildExit
  BY <1>1 DEF ChildExit, daemonVars, clientVars, TimeoutIsReported, ClientEnds
<1>2. CASE HeirsExit
  BY <1>2 DEF HeirsExit, daemonVars, clientVars, TimeoutIsReported, ClientEnds
<1>3. ASSUME NEW ch \in Channel, ChildWrite(ch) PROVE TimeoutIsReported'
  BY <1>3 DEF ChildWrite, daemonVars, clientVars, TimeoutIsReported, ClientEnds
<1>4. CASE Spawn
  BY <1>4 DEF Spawn, clientVars, Answer, TimeoutIsReported, ClientEnds
<1>5. CASE ChildWaited
  BY <1>5 DEF ChildWaited, childVars, clientVars, TimeoutIsReported, ClientEnds
<1>6. CASE LoopDone
  BY <1>6 DEF LoopDone, childVars, clientVars, Result, Answer, TimeoutIsReported, ClientEnds
<1>7. CASE WriteUnit
  BY <1>7 DEF WriteUnit, childVars, clientVars, TimeoutIsReported, ClientEnds
<1>8. CASE FrameWritten
  BY <1>8 DEF FrameWritten, childVars, clientVars, TimeoutIsReported, ClientEnds
<1>9. CASE WriteFails
  BY <1>9 DEF WriteFails, clientVars, Kill, TimeoutIsReported, ClientEnds
<1>10. ASSUME NEW ch \in Channel, ReadChunk(ch) PROVE TimeoutIsReported'
  BY <1>10 DEF ReadChunk, clientVars, Pass, TimeoutIsReported, ClientEnds
<1>11. ASSUME NEW ch \in Channel, ReadEof(ch) PROVE TimeoutIsReported'
  BY <1>11 DEF ReadEof, childVars, clientVars, Pass, TimeoutIsReported, ClientEnds
<1>12. CASE ReadFails
  BY <1>12 DEF ReadFails, clientVars, Kill, Answer, TimeoutIsReported, ClientEnds
<1>13. CASE Timeout
  <2>1. cpc' = cpc /\ cpc \in {"read", "quit"}
    BY <1>13, TimeoutEarly DEF Timeout, clientVars
  <2>2. QED
    BY <2>1 DEF TimeoutIsReported, ClientEnds
<1>14. CASE RecvUnit
  BY <1>14 DEF RecvUnit, childVars, daemonVars, TimeoutIsReported, ClientEnds
<1>15. CASE HandleStream
  BY <1>15 DEF HandleStream, childVars, daemonVars, TimeoutIsReported, ClientEnds
<1>16. CASE HandleResponse
  <2>1. SUFFICES ASSUME fired, ~cut PROVE cpc' = "timeout"
    BY <1>16 DEF HandleResponse, daemonVars, TimeoutIsReported
  <2>2. Flow(Stream)
    BY <1>16, <2>1 DEF HandleResponse, StreamOK, Reading
  <2>3. /\ rx[1].kind = "timeout" <=> fired
        /\ cpc' = IF rx[1].kind = "result" THEN "completed" ELSE rx[1].kind
    BY <1>16, <2>2, AnswerParts
  <2>4. QED
    BY <2>1, <2>3
<1>17. CASE ReadFailsAtClient
  <2>1. SUFFICES ASSUME fired, ~cut PROVE FALSE
    BY <1>17 DEF ReadFailsAtClient, daemonVars, TimeoutIsReported
  <2>2. Flow(Stream)
    BY <1>17, <2>1 DEF ReadFailsAtClient, StreamOK, Reading
  <2>3. CASE rx # << >> /\ rx[1].unit # "header"
    BY <2>2, <2>3, FirstIsHead DEF IsHead
  <2>4. CASE dpc \in DaemonEnds /\ wire = << >> /\ ~FrameRead
    <3>1. pending = << >> /\ rx \in Seq(Unit)
      BY <2>4 DEF ChildOK, TypeOK
    <3>2. Stream = rx
      <4>1. rx \o << >> = rx
        BY <3>1, ConcatEmptySeq
      <4>2. QED
        BY <2>4, <3>1, <4>1 DEF Stream
    <3>3. rx # << >>
      <4>1. \E p \in DOMAIN rx : IsHead(rx[p])
        BY <2>1, <2>2, <3>2 DEF Flow
      <4>2. ASSUME rx = << >> PROVE FALSE
        <5>1. DOMAIN rx = {}
          BY <4>2
        <5>2. QED
          BY <4>1, <5>1
      <4>3. QED
        BY <4>2
    <3>4. IsHead(rx[1]) /\ 1 \in DOMAIN rx
      BY <2>2, <3>1, <3>3, FirstIsHead, Popped
    <3>5. FrameAt(rx, 1)
      BY <2>2, <3>2, <3>4 DEF Flow, FramesOK
    <3>6. PICK n \in Nat : n = rx[1].len
      BY <3>1, <3>3, <3>4, Popped, UnitFields
    <3>7. PICK m \in Nat : m = Len(rx)
      BY <3>1, LenProperties
    <3>8. 1 + n <= m /\ m <= n + 1
      BY <3>3, <3>4, <3>5, <3>6, <3>7 DEF FrameAt, RxOK
    <3>9. m = n + 1
      BY <3>8
    <3>10. QED
      BY <2>4, <3>3, <3>4, <3>6, <3>7, <3>9 DEF FrameRead, IsHead
  <2>5. QED
    BY <1>17, <2>3, <2>4 DEF ReadFailsAtClient
<1>18. CASE ClientQuit
  BY <1>18 DEF ClientQuit, childVars, daemonVars, TimeoutIsReported, ClientEnds
<1>19. CASE UNCHANGED vars
  BY <1>19 DEF vars, childVars, daemonVars, clientVars, TimeoutIsReported, ClientEnds
<1>20. QED
  BY <1>1, <1>2, <1>3, <1>4, <1>5, <1>6, <1>7, <1>8, <1>9, <1>10, <1>11, <1>12, <1>13, <1>14,
     <1>15, <1>16, <1>17, <1>18, <1>19
     DEF Next, Command, Daemon, Client, Terminated

-----------------------------------------------------------------------------
(* The invariant holds at the start ... *)
LEMMA InitInv == ASSUME Init PROVE IInv
<1>1. /\ << >> \in Seq(Unit) /\ Len(<< >>) = 0 /\ DOMAIN << >> = {} /\ << >> \o << >> = << >>
  BY EmptySeq, ConcatEmptySeq
<1>2. NoOutput \in Output /\ \A ch \in Channel : NoOutput[ch] = << >> /\ Len(NoOutput[ch]) = 0
  BY NoOutputType
<1>3. ScalarsOK
  <2>1. produced \in [Channel -> 0 .. MaxOut]
    BY ExecAssumption DEF Init
  <2>2. open \in [Channel -> BOOLEAN]
    BY Zenon DEF Init
  <2>3. /\ heirs \in BOOLEAN /\ waited \in BOOLEAN
        /\ fired \in BOOLEAN /\ cut \in BOOLEAN
    BY Zenon DEF Init
  <2>4. /\ mode \in {"stream", "collect"} /\ child \in {"none", "running", "exited", "killed"}
        /\ dpc \in {"spawn", "select", "write", "result", "answer"} \cup DaemonEnds
        /\ cpc \in {"read"} \cup ClientEnds
    BY DEF Init
  <2>5. QED
    BY <2>1, <2>2, <2>3, <2>4 DEF ScalarsOK
<1>4. OutputsOK
  BY <1>2 DEF Init, OutputsOK
<1>5. QueuesOK
  BY <1>1, ExecAssumption DEF Init, QueuesOK
<1>6. TypeOK
  BY <1>3, <1>4, <1>5, TypeParts
<1>7. ChildOK
  BY <1>1, ExecAssumption DEF Init, ChildOK, Attached, Ended, DaemonEnds, Writable
<1>8. \A ch \in Channel : produced[ch] = 0 /\ Len(pipe[ch]) = 0 /\ Read(ch) = 0
  BY <1>2 DEF Init, Read
<1>9. PipesOK
  BY <1>1, <1>2, <1>8 DEF Init, PipesOK
<1>10. RxOK
  BY DEF Init, RxOK
<1>11. PICK s : s = << >> /\ s \in Seq(Unit) /\ DOMAIN s = {} /\ Stream = s
  BY <1>1 DEF Init, Stream
<1>12. FramesOK(s) /\ ResponseLast(s) /\ ResponsesOK(s) /\ ResultBroken(s)
  BY <1>11 DEF FramesOK, ResponseLast, ResponsesOK, ResultBroken
<1>13. ASSUME NEW ch \in Channel
       PROVE  InOrder(s, Len(emitted[ch]), ch) /\ UpTo(s, Len(emitted[ch]), Read(ch), ch)
  <2>1. Len(emitted[ch]) = 0 /\ Read(ch) = 0
    BY <1>2, <1>8 DEF Init
  <2>2. InOrder(s, 0, ch) /\ UpTo(s, 0, 0, ch)
    BY <1>11 DEF InOrder, UpTo
  <2>3. QED
    BY <2>1, <2>2
<1>14. Flow(s)
  BY <1>11, <1>12, <1>13 DEF Flow, Init
<1>15. StreamOK /\ BrokenOK
  BY <1>11, <1>12, <1>14 DEF StreamOK, BrokenOK
<1>16. EmittedOK
  <2>1. \A ch \in Channel : DOMAIN emitted[ch] = {}
    BY <1>1, <1>2 DEF Init
  <2>2. QED
    BY <2>1 DEF EmittedOK
<1>17. EndOK /\ CompletedIsAll /\ TimeoutIsReported
  BY DEF Init, EndOK, CompletedIsAll, TimeoutIsReported
<1>18. QED
  BY <1>6, <1>7, <1>9, <1>10, <1>15, <1>16, <1>17 DEF IInv

(* ... and every step keeps it. *)
LEMMA NextInv == ASSUME IInv, [Next]_vars PROVE IInv'
<1>1. /\ TypeOK /\ ChildOK /\ PipesOK /\ RxOK /\ StreamOK /\ BrokenOK /\ EmittedOK /\ EndOK
      /\ CompletedIsAll /\ TimeoutIsReported
  BY DEF IInv
<1>2. ScalarsOK' /\ OutputsOK' /\ QueuesOK'
  BY <1>1, ScalarsStep, OutputsStep, QueuesStep, TypeParts
<1>3. TypeOK'
  BY <1>2, TypeParts DEF TypeOK, ScalarsOK, OutputsOK, QueuesOK
<1>4. ChildOK' /\ PipesOK' /\ RxOK'
  BY <1>1, ChildStep, PipesStep, RxStep
<1>5. StreamOK'
  BY <1>1, FlowStep DEF StreamOK
<1>6. BrokenOK' /\ EmittedOK' /\ EndOK'
  BY <1>1, BrokenStep, EmittedStep, EndStep
<1>7. CompletedIsAll' /\ TimeoutIsReported'
  BY <1>1, CompletedStep, ReportedStep
<1>8. QED
  BY <1>3, <1>4, <1>5, <1>6, <1>7 DEF IInv

(* The inductive invariant holds in every state of every behaviour of Exec. *)
THEOREM Invariance == Spec => []IInv
<1>1. Init => IInv
  BY InitInv
<1>2. IInv /\ [Next]_vars => IInv'
  BY NextInv
<1>3. QED
  BY <1>1, <1>2, PTL DEF Spec

(* stream_command_output with run_agent_exec_stream: what is shown of each  *)
(* pipe is what was written there, in order and without gaps, whatever the  *)
(* chunks, unless the timeout cut a frame.                                  *)
THEOREM OutputStaysInOrder == Spec => []OutputInOrder
<1>1. IInv => OutputInOrder
  BY DEF IInv, OutputInOrder, EmittedOK
<1>2. QED
  BY <1>1, Invariance, PTL

(* A completed exec has shown everything that anybody wrote to the pipes,   *)
(* and did not time out: not even a timeout in the middle of the result     *)
(* leaves something that run_agent_exec takes for a result.                 *)
THEOREM CompletedMeansAll == Spec => []CompletedIsAll
<1>1. IInv => CompletedIsAll
  BY DEF IInv
<1>2. QED
  BY <1>1, Invariance, PTL

(* A timeout between two frames is what the client reports. *)
THEOREM TimeoutsAreReported == Spec => []TimeoutIsReported
<1>1. IInv => TimeoutIsReported
  BY DEF IInv
<1>2. QED
  BY <1>1, Invariance, PTL

(* kill_on_drop: once the handler has ended or answers, the command does    *)
(* not run any more.                                                        *)
THEOREM NoCommandIsLeft == Spec => []NoCommandLeft
<1>1. IInv => NoCommandLeft
  BY DEF IInv, ChildOK, Ended, NoCommandLeft
<1>2. QED
  BY <1>1, Invariance, PTL
=============================================================================
