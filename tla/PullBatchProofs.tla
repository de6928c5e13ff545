-------------------------- MODULE PullBatchProofs ---------------------------
(***************************************************************************)
(* Proofs about PullBatch, for any manifest, any chunk size and any length *)
(* of a response.                                                          *)
(*                                                                         *)
(* As long as the daemon has not failed, what is on its way to the client  *)
(* is a sequence of whole frames, each of which begins where the one       *)
(* before it ended.  A lost connection cuts it off at some unit; nothing   *)
(* is said of it after the daemon has failed, except that it holds no      *)
(* PullBatchComplete.                                                      *)
(***************************************************************************)
EXTENDS PullBatch, SequenceTheorems, WellFoundedInduction, TLAPS

Unit == HeaderUnit \cup ByteUnit

IsHead(u) == u.unit = "header"

(* The bytes streamed before the frame, and after it. *)
At(h)   == IF h.kind = "metadata" THEN 0 ELSE h.bytes
Past(h) == At(h) + (IF h.kind = "data" THEN h.len ELSE 0)

(* What the daemon sends unless it fails. *)
GoodHead(h) ==
    \/ h.kind = "metadata"
    \/ h.kind = "data" /\ h.len >= 1
    \/ h.kind = "eof" /\ h.len = 0 /\ h.bytes = TotalBytes
    \/ h.kind = "complete" /\ h.bytes = TotalBytes

(* The frame g comes after the frame h. *)
Follows(h, g) ==
    /\ IsHead(g) /\ At(g) = Past(h)
    /\ h.kind \in {"metadata", "data"} => g.kind \in {"data", "eof"}
    /\ h.kind = "eof" => g.kind = "complete"
    /\ h.kind # "complete"

(* Behind a head comes its payload, and behind that the next head. *)
FrameAt(s, p) ==
    /\ GoodHead(s[p])
    /\ \A q \in 1 .. Len(s) : p < q /\ q <= p + s[p].len =>
          s[q].unit = "byte" /\ (s[p].kind = "data" => s[q].byte \in SourceByte)
    /\ p + s[p].len + 1 \in 1 .. Len(s) => Follows(s[p], s[p + s[p].len + 1])

Framed(s) == \A p \in 1 .. Len(s) : IsHead(s[p]) => FrameAt(s, p)

Whole(s) == \A p \in 1 .. Len(s) : IsHead(s[p]) => p + s[p].len <= Len(s)

(* The payload of a data frame is a piece of one file, at its place. *)
PieceOf(s, p, f) ==
    /\ Base[f] <= s[p].bytes /\ s[p].bytes + s[p].len <= Base[f] + Size[f]
    /\ \A q \in 1 .. Len(s) : p < q /\ q <= p + s[p].len =>
          s[q].byte = <<f, (s[p].bytes - Base[f]) + (q - p)>>

Placed(s) == \A p \in 1 .. Len(s) : IsHead(s[p]) /\ s[p].kind = "data" =>
                \E f \in Entry : PieceOf(s, p, f)

(* No frames but those of a file, and none that says that all is done. *)
OnlyData(s)   == \A p \in 1 .. Len(s) : IsHead(s[p]) => s[p].kind = "data"
NoComplete(s) == \A p \in 1 .. Len(s) : IsHead(s[p]) => s[p].kind # "complete"

(* All that is still to be read, as far as the connection will bring it. *)
Stream == IF linkUp THEN wire \o held ELSE wire

Live == cpc \notin ClientEnds /\ dpc # "failed"

(* The first frame is the one the client expects. *)
FirstOK(s) ==
    s # << >> =>
        /\ IsHead(s[1]) /\ At(s[1]) = received
        /\ s[1].kind = "metadata" <=> cpc = "await_metadata"
        /\ s[1].kind = "complete" <=> cpc = "await_complete"

(* The last frame is the one the daemon sent last. *)
LastOK(s) ==
    /\ s = << >> => IF dpc = "manifest" THEN cpc = "await_metadata"
                    ELSE /\ dpc \in {"next_file", "stream"} /\ cpc \in {"entry", "write"}
                         /\ received = sent
    /\ dpc = "manifest" => s = << >>
    /\ \A p \in 1 .. Len(s) : IsHead(s[p]) /\ p + s[p].len = Len(s) =>
          IF dpc = "complete" THEN s[p].kind = "complete"
          ELSE s[p].kind \in {"metadata", "data"} /\ Past(s[p]) = sent

FlowOK == Live => /\ Framed(Stream) /\ FirstOK(Stream)
                  /\ linkUp => Whole(Stream) /\ LastOK(Stream)

(* The daemon has not streamed more of a file than it announced. *)
Intact == dpc # "failed" /\ ~(dpc = "stream" /\ fileBytes > Size[didx])

PlacedOK == Live /\ Intact => Placed(Stream)

(* The daemon's position. *)
DaemonAt ==
    /\ dpc = "manifest" => didx = 1 /\ sent = 0
    /\ dpc = "next_file" => sent = Base[didx]
    /\ dpc = "stream" => /\ didx \in Entry /\ Kind[didx] = "file" /\ fileBytes <= real
                         /\ sent = Base[didx] + fileBytes
    /\ dpc = "complete" => didx = N + 1 /\ sent = TotalBytes
    /\ dpc \in {"manifest", "failed", "complete"} => held = << >>
    /\ OnlyData(held)

(* The client's position. *)
ClientAt ==
    /\ cpc = "await_metadata" => cidx = 1 /\ received = 0
    /\ cpc = "write" => /\ cidx \in Entry /\ Kind[cidx] = "file"
                        /\ received + remaining = Base[cidx] + Size[cidx]
                        /\ Len(disk[cidx]) = Size[cidx] - remaining
    /\ cpc \in {"entry", "await_complete", "ok"} => received = Base[cidx]
    /\ cpc \in {"await_complete", "ok"} => cidx = N + 1

(* A daemon that has not come to the end has sent no PullBatchComplete. *)
CompleteOK == dpc # "complete" => NoComplete(wire)

(* Whatever has been written is in its place. *)
FilesOK ==
    /\ Intact /\ cpc \notin ClientEnds =>
         /\ \A i \in Entry : Kind[i] = "file" /\ i < cidx => disk[i] = Announced(i)
         /\ cpc = "write" => \A k \in 1 .. Len(disk[cidx]) : disk[cidx][k] = <<cidx, k>>
    /\ cpc = "ok" => \A i \in Entry : Kind[i] = "file" => disk[i] = Announced(i)

JunkOK == dpc # "failed" => \A i \in Entry : disk[i] \in Seq(SourceByte)

CauseOK == cpc = "bad_stream" => \/ dpc = "failed" \/ ~linkUp
                                 \/ dpc = "stream" /\ real # Size[didx]

IInv == /\ TypeOK /\ DaemonAt /\ ClientAt /\ CompleteOK /\ FlowOK /\ PlacedOK
        /\ FilesOK /\ JunkOK /\ CauseOK
-----------------------------------------------------------------------------
(* Sequences of units.                                                      *)

(* A nonempty set of numbers has a least element. *)
LEMMA LeastExists ==
    ASSUME NEW S \in SUBSET Nat, S # {}
    PROVE  \E m \in S : \A k \in S : m <= k
<1>1. PICK x \in S : \A y \in S : ~(<<y, x>> \in OpToRel(<, Nat))
  BY NatLessThanWellFounded, WFMin
<1>2. \A y \in S : ~(y < x)
  BY <1>1 DEF OpToRel
<1> QED
  BY <1>2

(* The totals of the manifest: an entry begins where the ones before it     *)
(* have ended, by induction on the distance of two entries.                 *)
LEMMA BaseSums ==
    /\ Base \in [1 .. N + 1 -> Nat]
    /\ Base[1] = 0
    /\ \A i \in 1 .. N : Base[i + 1] = Base[i] + Size[i]
    /\ \A i, j \in 1 .. N + 1 : i < j => Base[i] + Size[i] <= Base[j]
<1> DEFINE Bad(i) == {j \in 1 .. N + 1 : i < j /\ ~(Base[i] + Size[i] <= Base[j])}
<1>1. N \in Nat /\ Size \in [1 .. N -> Nat]
  BY ManifestAssumption
<1>2. /\ Base \in [1 .. N + 1 -> Nat]
      /\ \A i \in 1 .. N : Base[i + 1] = Base[i] + Size[i]
  BY BaseAssumption
<1>3. ASSUME NEW i \in 1 .. N + 1, Bad(i) # {}
      PROVE  FALSE
  <2>1. Bad(i) \in SUBSET Nat
    BY <1>1
  <2>2. PICK j \in Bad(i) : \A k \in Bad(i) : j <= k
    BY <1>3, <2>1, LeastExists
  <2>3. j \in 1 .. N + 1 /\ i < j /\ ~(Base[i] + Size[i] <= Base[j])
    OBVIOUS
  <2>4. j - 1 \in 1 .. N /\ j - 1 \in 1 .. N + 1 /\ i \in 1 .. N /\ j - 1 \notin Bad(i) /\ (j - 1) + 1 = j
    BY <1>1, <2>2, <2>3
  <2>5. Base[j] = Base[j - 1] + Size[j - 1]
    BY <1>2, <2>4
  <2>6. /\ Base[i] \in Nat /\ Size[i] \in Nat /\ Base[j - 1] \in Nat /\ Size[j - 1] \in Nat
        /\ Base[j] \in Nat
    BY <1>1, <1>2, <2>3, <2>4
  <2>7. CASE i = j - 1
    BY <2>3, <2>5, <2>6, <2>7
  <2>8. CASE i # j - 1
    <3>1. i < j - 1 /\ j - 1 \in 1 .. N + 1
      BY <1>1, <2>3, <2>4, <2>8
    <3>2. Base[i] + Size[i] <= Base[j - 1]
      BY <2>4, <3>1
    <3> QED
      BY <2>3, <2>5, <2>6, <3>2
  <2> QED
    BY <2>7, <2>8
<1> QED
  BY <1>3, BaseAssumption

(* A unit is a head or a byte. *)
LEMMA UnitType ==
    ASSUME NEW u \in Unit
    PROVE  /\ IsHead(u) => /\ u.len \in Nat /\ u.bytes \in Nat
                           /\ u.kind \in {"data", "eof", "metadata", "error", "complete"}
                           /\ At(u) \in Nat /\ Past(u) \in Nat
           /\ ~IsHead(u) => u.unit = "byte" /\ u.byte \in SourceByte \cup {Junk}
BY DEF Unit, HeaderUnit, ByteUnit, IsHead, At, Past

(* u is s with t behind it. *)
Joined(s, t, u) ==
    /\ u \in Seq(Unit) /\ Len(u) = Len(s) + Len(t)
    /\ \A i \in 1 .. Len(s) : u[i] = s[i]
    /\ \A i \in 1 .. Len(t) : u[Len(s) + i] = t[i]

(* u is what follows the first m units of s. *)
Behind(s, m, u) ==
    /\ u \in Seq(Unit) /\ m <= Len(s) /\ Len(u) = Len(s) - m
    /\ \A i \in 1 .. Len(u) : u[i] = s[m + i]

(* u is the beginning of s. *)
Begins(u, s) ==
    /\ u \in Seq(Unit) /\ Len(u) <= Len(s)
    /\ \A i \in 1 .. Len(u) : u[i] = s[i]

(* t is one frame, whole. *)
OneFrame(t) ==
    /\ t \in Seq(Unit) /\ Len(t) >= 1 /\ IsHead(t[1]) /\ GoodHead(t[1]) /\ Len(t) = t[1].len + 1
    /\ \A q \in 2 .. Len(t) : t[q].unit = "byte" /\ (t[1].kind = "data" => t[q].byte \in SourceByte)

(* Every last frame of s may be followed by one with the head g. *)
MayFollow(s, g) == \A p \in 1 .. Len(s) : IsHead(s[p]) /\ p + s[p].len = Len(s) => Follows(s[p], g)

(* Concatenation joins. *)
LEMMA ConcatJoins ==
    ASSUME NEW s \in Seq(Unit), NEW t \in Seq(Unit)
    PROVE  Joined(s, t, s \o t)
<1>0. PICK n \in Nat, m \in Nat : n = Len(s) /\ m = Len(t)
  BY LenProperties
<1>1. /\ s \o t \in Seq(Unit) /\ Len(s \o t) = n + m
      /\ \A i \in 1 .. n + m : (s \o t)[i] = IF i <= n THEN s[i] ELSE t[i - n]
  BY <1>0, ConcatProperties
<1>2. ASSUME NEW i \in 1 .. n
      PROVE  (s \o t)[i] = s[i]
  <2>1. i \in 1 .. n + m /\ i <= n
    BY <1>2
  <2>2. QED BY <1>1, <2>1
<1>3. ASSUME NEW i \in 1 .. m
      PROVE  (s \o t)[n + i] = t[i]
  <2>1. n + i \in 1 .. n + m /\ ~(n + i <= n) /\ (n + i) - n = i
    BY <1>3
  <2>2. QED BY <1>1, <2>1
<1>4. QED BY <1>0, <1>1, <1>2, <1>3 DEF Joined

(* A byte is not a head. *)
LEMMA ByteIsNoHead ==
    ASSUME NEW u, u.unit = "byte"
    PROVE  ~IsHead(u)
BY DEF IsHead

(* A frame behind whole frames makes whole frames. *)
LEMMA AppendFrame ==
    ASSUME NEW s \in Seq(Unit), NEW t, NEW u, Joined(s, t, u),
           Framed(s), Whole(s), OneFrame(t), MayFollow(s, t[1])
    PROVE  Framed(u) /\ Whole(u)
<1>0. PICK n \in Nat, m \in Nat : n = Len(s) /\ m = Len(t) /\ m >= 1 /\ t \in Seq(Unit)
  BY LenProperties DEF OneFrame
<1>1. /\ t[1].len \in Nat /\ m = t[1].len + 1
      /\ Len(u) = n + m
      /\ \A i \in 1 .. n : u[i] = s[i]
      /\ \A i \in 1 .. m : u[n + i] = t[i]
  <2>1. t[1] \in Unit
    BY <1>0, ElementOfSeq
  <2>2. t[1].len \in Nat /\ m = t[1].len + 1
    BY <1>0, <2>1, UnitType DEF OneFrame
  <2>3. QED BY <1>0, <2>2 DEF Joined
<1>2. \A i \in 1 .. n : IsHead(s[i]) => s[i].len \in Nat /\ i + s[i].len <= n
  BY <1>0, UnitType, ElementOfSeq DEF Whole
<1>3. \A p \in 1 .. n + m : IsHead(u[p]) => p \in 1 .. n \/ p = n + 1
  <2> SUFFICES ASSUME NEW p \in 1 .. n + m, p > n + 1
               PROVE  ~IsHead(u[p])
    BY <1>1
  <2>1. p - n \in 2 .. m /\ u[p] = t[p - n]
    BY <1>1
  <2>2. t[p - n].unit = "byte"
    BY <1>0, <2>1 DEF OneFrame
  <2>3. QED BY <2>1, <2>2, ByteIsNoHead
<1>4. u[n + 1] = t[1]
  BY <1>1
<1>5. Whole(u)
  <2> SUFFICES ASSUME NEW p \in 1 .. n + m, IsHead(u[p])
               PROVE  p + u[p].len <= n + m
    BY <1>1 DEF Whole
  <2>1. CASE p \in 1 .. n
    <3>1. u[p] = s[p]
      BY <1>1, <2>1
    <3>2. PICK l \in Nat : l = u[p].len /\ p + l <= n
      BY <1>2, <2>1, <3>1
    <3>3. p + l <= n + m
      BY <2>1, <3>2
    <3>4. QED BY <3>2, <3>3
  <2>2. CASE p = n + 1
    <3>1. PICK l \in Nat : l = u[p].len /\ m = l + 1
      BY <1>1, <1>4, <2>2
    <3>2. p + l <= n + m
      BY <2>2, <3>1
    <3>3. QED BY <3>1, <3>2
  <2>3. QED BY <1>3, <2>1, <2>2
<1>6. Framed(u)
  <2> SUFFICES ASSUME NEW p \in 1 .. n + m, IsHead(u[p])
               PROVE  FrameAt(u, p)
    BY <1>1 DEF Framed
  <2>1. CASE p \in 1 .. n
    <3>1. u[p] = s[p] /\ IsHead(s[p]) /\ FrameAt(s, p)
      BY <1>0, <1>1, <2>1 DEF Framed
    <3>2. PICK l \in Nat : l = s[p].len /\ p + l <= n
      BY <1>2, <2>1, <3>1
    <3>3. GoodHead(u[p])
      BY <3>1 DEF FrameAt
    <3>4. ASSUME NEW q \in 1 .. n + m, p < q, q <= p + u[p].len
          PROVE  u[q].unit = "byte" /\ (u[p].kind = "data" => u[q].byte \in SourceByte)
      <4>1. q \in 1 .. n /\ u[q] = s[q] /\ q <= p + s[p].len
        BY <1>1, <2>1, <3>1, <3>2, <3>4
      <4>2. QED BY <1>0, <3>1, <3>4, <4>1 DEF FrameAt
    <3>5. ASSUME p + u[p].len + 1 \in 1 .. n + m
          PROVE  Follows(u[p], u[p + u[p].len + 1])
      <4>1. CASE p + l = n
        <5>1. u[p + u[p].len + 1] = t[1]
          BY <1>4, <3>1, <3>2, <4>1
        <5>2. Follows(s[p], t[1])
          BY <1>0, <2>1, <3>1, <3>2, <4>1 DEF MayFollow
        <5>3. QED BY <3>1, <5>1, <5>2
      <4>2. CASE p + l < n
        <5>1. p + l + 1 \in 1 .. n
          BY <2>1, <4>2
        <5>2. u[p + l + 1] = s[p + l + 1]
          BY <1>1, <5>1
        <5>3. Follows(s[p], s[p + l + 1])
          BY <1>0, <3>1, <3>2, <5>1 DEF FrameAt
        <5>4. QED BY <3>1, <3>2, <5>2, <5>3
      <4>3. p + l = n \/ p + l < n
        BY <2>1, <3>2
      <4>4. QED BY <4>1, <4>2, <4>3
    <3>6. QED BY <1>1, <3>3, <3>4, <3>5 DEF FrameAt
  <2>2. CASE p = n + 1
    <3>0. PICK l \in Nat : l = t[1].len /\ m = l + 1
      BY <1>1
    <3>1. u[p] = t[1] /\ GoodHead(t[1]) /\ p + t[1].len = n + m
      <4>0. m = l + 1
        BY <3>0
      <4>1. p + l = n + m
        BY <2>2, <4>0
      <4>2. QED BY <1>4, <2>2, <3>0, <4>1 DEF OneFrame
    <3>2. ASSUME NEW q \in 1 .. n + m, p < q, q <= p + u[p].len
          PROVE  u[q].unit = "byte" /\ (u[p].kind = "data" => u[q].byte \in SourceByte)
      <4>1. q <= p + l /\ m = l + 1
        BY <3>0, <3>1, <3>2
      <4>2. q - n \in 2 .. m /\ n + (q - n) = q
        BY <2>2, <3>2, <4>1
      <4>3. u[q] = t[q - n]
        BY <1>1, <4>2
      <4>4. QED BY <1>0, <3>1, <4>2, <4>3 DEF OneFrame
    <3>3. p + u[p].len + 1 \notin 1 .. n + m
      BY <1>1, <2>2, <3>1
    <3>4. QED BY <1>1, <3>1, <3>2, <3>3 DEF FrameAt
  <2>3. QED BY <1>3, <2>1, <2>2
<1>7. QED BY <1>5, <1>6

(* The last frame is then the new one, and the first the old one or, if     *)
(* there was none, the new one.                                             *)
LEMMA AppendEnds ==
    ASSUME NEW s \in Seq(Unit), NEW t, NEW u, Joined(s, t, u), Whole(s), OneFrame(t)
    PROVE  /\ u # << >>
           /\ u[1] = IF s = << >> THEN t[1] ELSE s[1]
           /\ \A p \in 1 .. Len(u) : IsHead(u[p]) /\ p + u[p].len = Len(u) => u[p] = t[1]
<1>0. PICK n \in Nat, m \in Nat : n = Len(s) /\ m = Len(t) /\ m >= 1 /\ t \in Seq(Unit)
  BY LenProperties DEF OneFrame
<1>1. /\ Len(u) = n + m
      /\ \A i \in 1 .. n : u[i] = s[i]
      /\ \A i \in 1 .. m : u[n + i] = t[i]
  BY <1>0 DEF Joined
<1>2. u # << >>
  <2>1. Len(u) # 0
    BY <1>0, <1>1
  <2>2. QED BY <2>1, EmptySeq
<1>3. u[1] = IF s = << >> THEN t[1] ELSE s[1]
  <2>1. CASE s = << >>
    <3>1. n = 0
      BY <1>0, <2>1, EmptySeq
    <3>2. 1 \in 1 .. m /\ n + 1 = 1
      BY <1>0, <3>1
    <3>3. u[1] = t[1]
      BY <1>1, <3>2
    <3>4. QED BY <2>1, <3>3
  <2>2. CASE s # << >>
    <3>1. 1 \in 1 .. n
      BY <1>0, <2>2, EmptySeq
    <3>2. QED BY <1>1, <2>2, <3>1
  <2>3. QED BY <2>1, <2>2
<1>4. ASSUME NEW p \in 1 .. n + m, IsHead(u[p]), p + u[p].len = n + m
      PROVE  u[p] = t[1]
  <2>1. CASE p \in 1 .. n
    <3>1. u[p] = s[p] /\ p + s[p].len <= n
      BY <1>0, <1>1, <1>4, <2>1 DEF Whole
    <3>2. PICK l \in Nat : l = s[p].len
      BY <1>0, <1>4, <2>1, <3>1, UnitType, ElementOfSeq
    <3>3. p + l = n + m /\ p + l <= n
      BY <1>1, <1>4, <3>1, <3>2
    <3>4. QED BY <1>0, <2>1, <3>3
  <2>2. CASE p = n + 1
    BY <1>1, <2>2
  <2>3. CASE p > n + 1
    <3>1. p - n \in 2 .. m /\ u[p] = t[p - n]
      BY <1>1, <2>3
    <3>2. t[p - n].unit = "byte"
      BY <1>0, <1>1, <3>1 DEF OneFrame
    <3>3. QED BY <1>4, <3>1, <3>2, ByteIsNoHead
  <2>4. QED BY <1>1, <2>1, <2>2, <2>3
<1>5. QED BY <1>1, <1>2, <1>3, <1>4

(* The place of the bytes is kept, and the new frame has its own. *)
LEMMA AppendPlaced ==
    ASSUME NEW s \in Seq(Unit), NEW t, NEW u, Joined(s, t, u), Whole(s), OneFrame(t), Placed(s),
           t[1].kind = "data" => \E f \in Entry : PieceOf(t, 1, f)
    PROVE  Placed(u)
<1>0. PICK n \in Nat, m \in Nat : n = Len(s) /\ m = Len(t) /\ m >= 1 /\ t \in Seq(Unit)
  BY LenProperties DEF OneFrame
<1>1. /\ Len(u) = n + m
      /\ \A i \in 1 .. n : u[i] = s[i]
      /\ \A i \in 1 .. m : u[n + i] = t[i]
  BY <1>0 DEF Joined
<1> SUFFICES ASSUME NEW p \in 1 .. n + m, IsHead(u[p]), u[p].kind = "data"
             PROVE  \E f \in Entry : PieceOf(u, p, f)
  BY <1>0, <1>1 DEF Placed
<1>2. CASE p \in 1 .. n
  <2>1. u[p] = s[p]
    BY <1>1, <1>2
  <2>2. PICK f \in Entry : PieceOf(s, p, f)
    BY <1>0, <1>1, <1>2, <2>1 DEF Placed
  <2>3. s[p].len \in Nat /\ p + s[p].len <= n
    BY <1>0, <1>1, <1>2, <2>1, UnitType, ElementOfSeq DEF Whole
  <2>4. ASSUME NEW q \in 1 .. n + m, p < q, q <= p + u[p].len
        PROVE  u[q].byte = <<f, (u[p].bytes - Base[f]) + (q - p)>>
    <3>1. q \in 1 .. n /\ u[q] = s[q]
      BY <1>1, <1>2, <2>1, <2>3, <2>4
    <3>2. QED BY <1>0, <1>1, <2>1, <2>2, <2>4, <3>1 DEF PieceOf
  <2>5. PieceOf(u, p, f)
    BY <1>0, <1>1, <2>1, <2>2, <2>4 DEF PieceOf
  <2>6. QED BY <2>5
<1>3. CASE p = n + 1
  <2>1. u[p] = t[1]
    BY <1>1, <1>3
  <2>2. PICK f \in Entry : PieceOf(t, 1, f)
    BY <2>1
  <2>3. t[1].len \in Nat /\ m = t[1].len + 1
    BY <1>0, <1>1, UnitType, ElementOfSeq DEF OneFrame
  <2>4. ASSUME NEW q \in 1 .. n + m, p < q, q <= p + u[p].len
        PROVE  u[q].byte = <<f, (u[p].bytes - Base[f]) + (q - p)>>
    <3>1. PICK j \in 1 .. m : q = n + j /\ u[q] = t[j]
      <4>1. q - n \in 1 .. m /\ q = n + (q - n)
        BY <1>1, <1>3, <2>4
      <4>2. QED BY <1>1, <4>1
    <3>2. 1 < j /\ j <= 1 + t[1].len /\ j - 1 = q - p
      BY <1>1, <1>3, <2>1, <2>3, <2>4, <3>1
    <3>3. t[j].byte = <<f, (t[1].bytes - Base[f]) + (j - 1)>>
      BY <1>0, <1>1, <2>2, <3>1, <3>2 DEF PieceOf
    <3>4. QED BY <2>1, <3>1, <3>2, <3>3
  <2>5. PieceOf(u, p, f)
    BY <1>0, <1>1, <2>1, <2>2, <2>4 DEF PieceOf
  <2>6. QED BY <2>5
<1>4. CASE p > n + 1
  <2>1. p - n \in 2 .. m /\ u[p] = t[p - n]
    BY <1>1, <1>4
  <2>2. t[p - n].unit = "byte"
    BY <1>0, <1>1, <2>1 DEF OneFrame
  <2>3. QED BY <2>1, <2>2, ByteIsNoHead
<1>5. QED BY <1>1, <1>2, <1>3, <1>4

(* What is left when the first frame is taken off: frames in their places,  *)
(* of which the first follows the one taken off.                            *)
LEMMA TakeFrame ==
    ASSUME NEW s \in Seq(Unit), NEW m \in Nat, NEW u, Behind(s, m, u), Framed(s)
    PROVE  /\ Framed(u)
           /\ Whole(s) => Whole(u)
           /\ Placed(s) => Placed(u)
<1>0. PICK n \in Nat, k \in Nat : n = Len(s) /\ k = Len(u) /\ n = m + k /\ u \in Seq(Unit)
  <2>1. Len(s) \in Nat /\ Len(u) \in Nat /\ Len(s) = m + Len(u) /\ u \in Seq(Unit)
    BY LenProperties DEF Behind
  <2>2. QED BY <2>1
<1>1. \A i \in 1 .. k : m + i \in 1 .. n /\ u[i] = s[m + i]
  BY <1>0 DEF Behind
<1>2. \A i \in 1 .. k : IsHead(u[i]) => u[i].len \in Nat
  BY <1>0, UnitType, ElementOfSeq
<1>3. Framed(u)
  <2> SUFFICES ASSUME NEW p \in 1 .. k, IsHead(u[p])
               PROVE  FrameAt(u, p)
    BY <1>0 DEF Framed
  <2>1. u[p] = s[m + p] /\ m + p \in 1 .. n /\ FrameAt(s, m + p)
    BY <1>0, <1>1 DEF Framed
  <2>2. PICK l \in Nat : l = u[p].len
    BY <1>2
  <2>3. GoodHead(u[p])
    BY <2>1 DEF FrameAt
  <2>4. ASSUME NEW q \in 1 .. k, p < q, q <= p + u[p].len
        PROVE  u[q].unit = "byte" /\ (u[p].kind = "data" => u[q].byte \in SourceByte)
    <3>1. q <= p + l
      BY <2>2, <2>4
    <3>2. m + p < m + q /\ m + q <= (m + p) + l
      BY <2>4, <3>1
    <3>3. m + q \in 1 .. n /\ u[q] = s[m + q]
      BY <1>1
    <3>4. QED BY <1>0, <2>1, <2>2, <3>2, <3>3 DEF FrameAt
  <2>5. ASSUME p + u[p].len + 1 \in 1 .. k
        PROVE  Follows(u[p], u[p + u[p].len + 1])
    <3>1. p + l + 1 \in 1 .. k
      BY <2>2, <2>5
    <3>2. m + (p + l + 1) \in 1 .. n /\ u[p + l + 1] = s[m + (p + l + 1)]
      BY <1>1, <3>1
    <3>3. m + (p + l + 1) = (m + p) + l + 1
      OBVIOUS
    <3>4. Follows(s[m + p], s[(m + p) + l + 1])
      BY <1>0, <2>1, <2>2, <3>2, <3>3 DEF FrameAt
    <3>5. QED BY <2>1, <2>2, <3>2, <3>3, <3>4
  <2>6. QED BY <1>0, <2>3, <2>4, <2>5 DEF FrameAt
<1>4. ASSUME Whole(s)
      PROVE  Whole(u)
  <2> SUFFICES ASSUME NEW p \in 1 .. k, IsHead(u[p])
               PROVE  p + u[p].len <= k
    BY <1>0 DEF Whole
  <2>1. PICK l \in Nat : l = u[p].len
    BY <1>2
  <2>2. (m + p) + l <= n
    BY <1>0, <1>1, <1>4, <2>1 DEF Whole
  <2>3. p + l <= k
    BY <1>0, <2>2
  <2>4. QED BY <2>1, <2>3
<1>5. ASSUME Placed(s)
      PROVE  Placed(u)
  <2> SUFFICES ASSUME NEW p \in 1 .. k, IsHead(u[p]), u[p].kind = "data"
               PROVE  \E f \in Entry : PieceOf(u, p, f)
    BY <1>0 DEF Placed
  <2>1. u[p] = s[m + p] /\ m + p \in 1 .. n
    BY <1>1
  <2>2. PICK f \in Entry : PieceOf(s, m + p, f)
    BY <1>0, <1>5, <2>1 DEF Placed
  <2>3. PICK l \in Nat : l = u[p].len
    BY <1>2
  <2>4. ASSUME NEW q \in 1 .. k, p < q, q <= p + u[p].len
        PROVE  u[q].byte = <<f, (u[p].bytes - Base[f]) + (q - p)>>
    <3>1. q <= p + l
      BY <2>3, <2>4
    <3>2. m + p < m + q /\ m + q <= (m + p) + l /\ (m + q) - (m + p) = q - p
      BY <2>4, <3>1
    <3>3. m + q \in 1 .. n /\ u[q] = s[m + q]
      BY <1>1
    <3>4. s[m + q].byte = <<f, (s[m + p].bytes - Base[f]) + ((m + q) - (m + p))>>
      BY <1>0, <2>1, <2>2, <2>3, <3>2, <3>3 DEF PieceOf
    <3>5. QED BY <2>1, <3>2, <3>3, <3>4
  <2>5. Base[f] <= u[p].bytes /\ u[p].bytes + u[p].len <= Base[f] + Size[f]
    BY <2>1, <2>2 DEF PieceOf
  <2>6. PieceOf(u, p, f)
    BY <1>0, <2>4, <2>5 DEF PieceOf
  <2>7. QED BY <2>6
<1>6. QED BY <1>3, <1>4, <1>5

(* The first frame that is left follows the one taken off, and the last is  *)
(* the one that was last, unless nothing is left.                           *)
LEMMA TakeEnds ==
    ASSUME NEW s \in Seq(Unit), NEW m \in Nat, NEW u, Behind(s, m, u), Framed(s),
           s # << >>, IsHead(s[1]), m = s[1].len + 1
    PROVE  /\ u # << >> => Follows(s[1], u[1])
           /\ u = << >> => 1 + s[1].len = Len(s)
           /\ \A p \in 1 .. Len(u) : IsHead(u[p]) /\ p + u[p].len = Len(u) =>
                 \E r \in 1 .. Len(s) : s[r] = u[p] /\ IsHead(s[r]) /\ r + s[r].len = Len(s)
<1>0. PICK n \in Nat, k \in Nat : n = Len(s) /\ k = Len(u) /\ n = m + k /\ u \in Seq(Unit)
  <2>1. Len(s) \in Nat /\ Len(u) \in Nat /\ Len(s) = m + Len(u) /\ u \in Seq(Unit)
    BY LenProperties DEF Behind
  <2>2. QED BY <2>1
<1>1. \A i \in 1 .. k : m + i \in 1 .. n /\ u[i] = s[m + i]
  <2>1. \A i \in 1 .. k : u[i] = s[m + i]
    BY <1>0 DEF Behind
  <2>2. n = m + k
    BY <1>0
  <2>3. \A i \in 1 .. k : m + i \in 1 .. n
    BY ONLY <2>2, m \in Nat, k \in Nat, n \in Nat
  <2>4. QED BY <2>1, <2>3
<1>2. \A i \in 1 .. k : IsHead(u[i]) => u[i].len \in Nat
  BY <1>0, UnitType, ElementOfSeq
<1>3. 1 \in 1 .. n
  <2>1. n # 0
    BY <1>0, EmptySeq
  <2>2. QED BY ONLY <2>1, n \in Nat
<1>4. PICK l \in Nat : l = s[1].len /\ m = l + 1
  <2>1. s[1] \in Unit
    BY <1>0, <1>3, ElementOfSeq
  <2>2. QED BY <2>1, UnitType
<1>5. ASSUME u # << >>
      PROVE  Follows(s[1], u[1])
  <2>1. 1 \in 1 .. k
    BY <1>0, <1>5, EmptySeq
  <2>2. m + 1 \in 1 .. n /\ u[1] = s[m + 1]
    BY <1>1, <2>1
  <2>3. m + 1 = 1 + l + 1
    BY <1>4
  <2>4. FrameAt(s, 1)
    BY <1>0, <1>3 DEF Framed
  <2>5. Follows(s[1], s[1 + l + 1])
    BY <1>0, <1>4, <2>2, <2>3, <2>4 DEF FrameAt
  <2>6. QED BY <2>2, <2>3, <2>5
<1>6. ASSUME u = << >>
      PROVE  1 + s[1].len = Len(s)
  <2>1. k = 0
    BY <1>0, <1>6, EmptySeq
  <2>2. 1 + l = n
    BY <1>0, <1>4, <2>1
  <2>3. QED BY <1>0, <1>4, <2>2
<1>7. ASSUME NEW p \in 1 .. k, IsHead(u[p]), p + u[p].len = k
      PROVE  \E r \in 1 .. n : s[r] = u[p] /\ IsHead(s[r]) /\ r + s[r].len = n
  <2>1. m + p \in 1 .. n /\ u[p] = s[m + p]
    BY <1>1
  <2>2. PICK j \in Nat : j = u[p].len
    BY <1>2, <1>7
  <2>3. (m + p) + j = n
    <3>1. p + j = k /\ n = m + k /\ p \in Nat
      BY <1>0, <1>7, <2>2
    <3>2. QED BY ONLY <3>1, m \in Nat, k \in Nat, n \in Nat, j \in Nat
  <2>4. (m + p) + s[m + p].len = n
    BY <2>1, <2>2, <2>3
  <2>5. QED BY <1>7, <2>1, <2>4
<1>8. QED BY <1>0, <1>5, <1>6, <1>7

(* A beginning of frames is frames, of which the last may be cut off. *)
LEMMA CutFrames ==
    ASSUME NEW s \in Seq(Unit), NEW u, Begins(u, s), Framed(s)
    PROVE  /\ Framed(u)
           /\ Placed(s) => Placed(u)
           /\ u # << >> => s # << >> /\ u[1] = s[1]
<1>0. PICK n \in Nat, k \in Nat : n = Len(s) /\ k = Len(u) /\ k <= n /\ u \in Seq(Unit)
  BY LenProperties DEF Begins
<1>1. \A i \in 1 .. k : i \in 1 .. n /\ u[i] = s[i]
  BY <1>0 DEF Begins
<1>3. Framed(u)
  <2> SUFFICES ASSUME NEW p \in 1 .. k, IsHead(u[p])
               PROVE  FrameAt(u, p)
    BY <1>0 DEF Framed
  <2>1. u[p] = s[p] /\ p \in 1 .. n /\ FrameAt(s, p)
    BY <1>0, <1>1 DEF Framed
  <2>2. GoodHead(u[p])
    BY <2>1 DEF FrameAt
  <2>3. ASSUME NEW q \in 1 .. k, p < q, q <= p + u[p].len
        PROVE  u[q].unit = "byte" /\ (u[p].kind = "data" => u[q].byte \in SourceByte)
    <3>1. q \in 1 .. n /\ u[q] = s[q]
      BY <1>1
    <3>2. QED BY <1>0, <2>1, <2>3, <3>1 DEF FrameAt
  <2>4. ASSUME p + u[p].len + 1 \in 1 .. k
        PROVE  Follows(u[p], u[p + u[p].len + 1])
    <3>1. PICK r \in 1 .. k : r = p + u[p].len + 1
      BY <2>4
    <3>2. r \in 1 .. n /\ u[r] = s[r]
      BY <1>1
    <3>3. Follows(s[p], s[r])
      BY <1>0, <2>1, <3>1, <3>2 DEF FrameAt
    <3>4. QED BY <2>1, <3>1, <3>2, <3>3
  <2>5. QED BY <1>0, <2>2, <2>3, <2>4 DEF FrameAt
<1>4. ASSUME Placed(s)
      PROVE  Placed(u)
  <2> SUFFICES ASSUME NEW p \in 1 .. k, IsHead(u[p]), u[p].kind = "data"
               PROVE  \E f \in Entry : PieceOf(u, p, f)
    BY <1>0 DEF Placed
  <2>1. u[p] = s[p] /\ p \in 1 .. n
    BY <1>1
  <2>2. PICK f \in Entry : PieceOf(s, p, f)
    BY <1>0, <1>4, <2>1 DEF Placed
  <2>3. ASSUME NEW q \in 1 .. k, p < q, q <= p + u[p].len
        PROVE  u[q].byte = <<f, (u[p].bytes - Base[f]) + (q - p)>>
    <3>1. q \in 1 .. n /\ u[q] = s[q]
      BY <1>1
    <3>2. QED BY <1>0, <2>1, <2>2, <2>3, <3>1 DEF PieceOf
  <2>4. Base[f] <= u[p].bytes /\ u[p].bytes + u[p].len <= Base[f] + Size[f]
    BY <2>1, <2>2 DEF PieceOf
  <2>5. PieceOf(u, p, f)
    BY <1>0, <2>3, <2>4 DEF PieceOf
  <2>6. QED BY <2>5
<1>5. ASSUME u # << >>
      PROVE  s # << >> /\ u[1] = s[1]
  <2>1. 1 \in 1 .. k
    BY <1>0, <1>5, EmptySeq
  <2>2. 1 \in 1 .. n /\ u[1] = s[1]
    BY <1>1, <2>1
  <2>3. n # 0
    BY <2>2
  <2>4. QED BY <1>0, <2>2, <2>3, EmptySeq
<1>6. QED BY <1>3, <1>4, <1>5
-----------------------------------------------------------------------------
(* Where the files are in the stream.                                       *)

(* Sizes and places of the files. *)
LEMMA BaseFacts ==
    ASSUME NEW i \in Entry
    PROVE  /\ Base[i] \in Nat /\ Size[i] \in Nat /\ TotalBytes \in Nat
           /\ i + 1 \in 1 .. N + 1 /\ Base[i + 1] = Base[i] + Size[i]
           /\ Base[i] + Size[i] <= TotalBytes
BY ManifestAssumption, BaseSums DEF Entry, TotalBytes

(* A place in the stream belongs to one file. *)
LEMMA OnePlace ==
    ASSUME NEW f \in Entry, NEW g \in Entry, NEW x \in Nat,
           Base[f] <= x, x < Base[f] + Size[f], Base[g] <= x, x < Base[g] + Size[g]
    PROVE  f = g
<1>1. /\ N \in Nat /\ Base[f] \in Nat /\ Size[f] \in Nat /\ Base[g] \in Nat /\ Size[g] \in Nat
      /\ f \in 1 .. N + 1 /\ g \in 1 .. N + 1 /\ f \in Int /\ g \in Int
  BY BaseFacts, ManifestAssumption DEF Entry
<1>2. f < g => Base[f] + Size[f] <= Base[g]
  BY <1>1, BaseSums
<1>3. g < f => Base[g] + Size[g] <= Base[f]
  BY <1>1, BaseSums
<1>4. ~(f < g) /\ ~(g < f)
  BY <1>1, <1>2, <1>3
<1>5. QED BY <1>1, <1>4
-----------------------------------------------------------------------------
(* The frames the daemon sends.                                             *)

(* A head is a unit. *)
LEMMA HeaderType ==
    ASSUME NEW kind \in {"data", "eof", "metadata", "error", "complete"},
           NEW len \in Nat, NEW bytes \in Nat
    PROVE  /\ Header(kind, len, bytes) \in Unit /\ IsHead(Header(kind, len, bytes))
           /\ Header(kind, len, bytes).kind = kind
           /\ Header(kind, len, bytes).len = len
           /\ Header(kind, len, bytes).bytes = bytes
BY DEF Header, Unit, HeaderUnit, IsHead

(* A head with a payload behind it. *)
Packed(h, pay, t) ==
    /\ t \in Seq(Unit) /\ Len(t) = 1 + Len(pay) /\ t[1] = h
    /\ \A k \in 1 .. Len(pay) : t[1 + k] = pay[k]

(* That is what concatenation makes. *)
LEMMA PackedConcat ==
    ASSUME NEW h \in Unit, NEW pay \in Seq(Unit)
    PROVE  Packed(h, pay, <<h>> \o pay)
<1>0. PICK s \in Seq(Unit) : s = <<h>> /\ Len(s) = 1 /\ s[1] = h
  <2>1. <<h>> \in Seq(Unit) /\ Len(<<h>>) = 1 /\ <<h>>[1] = h
    OBVIOUS
  <2>2. QED BY <2>1
<1>1. Joined(s, pay, s \o pay)
  BY ConcatJoins
<1>2. 1 \in 1 .. Len(s) /\ Len(pay) \in Nat
  BY <1>0, LenProperties
<1>3. QED BY <1>0, <1>1, <1>2 DEF Joined, Packed

(* A packed frame is one frame if its head and its payload are good. *)
LEMMA PackedFrame ==
    ASSUME NEW h \in Unit, NEW pay \in Seq(Unit), NEW t, Packed(h, pay, t),
           IsHead(h), GoodHead(h), NEW l \in Nat, h.len = l, Len(pay) = l,
           \A k \in 1 .. l : pay[k].unit = "byte" /\ (h.kind = "data" => pay[k].byte \in SourceByte)
    PROVE  OneFrame(t)
<1>1. t \in Seq(Unit) /\ Len(t) = 1 + l /\ t[1] = h /\ \A k \in 1 .. l : t[1 + k] = pay[k]
  BY DEF Packed
<1>2. Len(t) >= 1 /\ Len(t) = t[1].len + 1
  BY <1>1
<1>3. ASSUME NEW q \in 2 .. Len(t)
      PROVE  t[q].unit = "byte" /\ (t[1].kind = "data" => t[q].byte \in SourceByte)
  <2>1. q \in 2 .. 1 + l
    BY <1>1
  <2>2. q - 1 \in 1 .. l /\ 1 + (q - 1) = q
    BY <2>1
  <2>3. t[q] = pay[q - 1]
    BY <1>1, <2>2
  <2>4. QED BY <1>1, <2>2, <2>3
<1>4. QED BY <1>1, <1>2, <1>3 DEF OneFrame

(* The bytes of a chunk. *)
LEMMA DataType ==
    ASSUME NEW f \in Entry, NEW from \in Nat \ {0}, NEW n \in Nat
    PROVE  /\ Data(f, from, n) \in Seq(Unit) /\ Len(Data(f, from, n)) = n
           /\ \A k \in 1 .. n : /\ Data(f, from, n)[k].unit = "byte"
                                /\ Data(f, from, n)[k].byte = <<f, from + k - 1>>
                                /\ Data(f, from, n)[k].byte \in SourceByte
<1>1. \A k \in 1 .. n : <<f, from + k - 1>> \in SourceByte
  BY DEF SourceByte
<1>2. \A k \in 1 .. n : [unit |-> "byte", byte |-> <<f, from + k - 1>>] \in Unit
  BY <1>1 DEF Unit, ByteUnit
<1>3. Data(f, from, n) \in [1 .. n -> Unit]
  BY <1>2 DEF Data
<1>4. Data(f, from, n) \in Seq(Unit) /\ Len(Data(f, from, n)) = n
  BY <1>3
<1>5. ASSUME NEW k \in 1 .. n
      PROVE  /\ Data(f, from, n)[k].unit = "byte"
             /\ Data(f, from, n)[k].byte = <<f, from + k - 1>>
             /\ Data(f, from, n)[k].byte \in SourceByte
  <2>1. Data(f, from, n)[k] = [unit |-> "byte", byte |-> <<f, from + k - 1>>]
    BY DEF Data
  <2>2. QED BY <1>1, <2>1
<1>6. QED BY <1>4, <1>5

(* What write_stream_frame writes: n bytes of f, with c bytes before them. *)
Chunk(f, from, n, c) == <<Header("data", n, c)>> \o Data(f, from, n)

(* That is one frame. *)
LEMMA ChunkFrame ==
    ASSUME NEW f \in Entry, NEW from \in Nat \ {0}, NEW n \in Nat \ {0}, NEW c \in Nat, NEW t,
           t = Chunk(f, from, n, c)
    PROVE  /\ OneFrame(t) /\ OnlyData(t) /\ t[1] = Header("data", n, c)
           /\ c = Base[f] + from - 1 /\ c + n <= Base[f] + Size[f] => PieceOf(t, 1, f)
<1> DEFINE h == Header("data", n, c)
           pay == Data(f, from, n)
<1>1. h \in Unit /\ IsHead(h) /\ h.kind = "data" /\ h.len = n /\ h.bytes = c /\ GoodHead(h)
  BY HeaderType DEF GoodHead
<1>2. /\ pay \in Seq(Unit) /\ Len(pay) = n
      /\ \A k \in 1 .. n : /\ pay[k].unit = "byte" /\ pay[k].byte = <<f, from + k - 1>>
                           /\ pay[k].byte \in SourceByte
  BY DataType
<1>3. Packed(h, pay, t)
  BY <1>1, <1>2, PackedConcat DEF Chunk
<1> HIDE DEF h, pay
<1>4. OneFrame(t)
  BY <1>1, <1>2, <1>3, PackedFrame
<1>5. t[1] = h /\ Len(t) = 1 + n /\ \A k \in 1 .. n : t[1 + k] = pay[k]
  BY <1>2, <1>3 DEF Packed
<1>6. OnlyData(t)
  <2> SUFFICES ASSUME NEW p \in 1 .. 1 + n, IsHead(t[p])
               PROVE  t[p].kind = "data"
    BY <1>5 DEF OnlyData
  <2>1. CASE p = 1
    BY <1>1, <1>5, <2>1
  <2>2. CASE p # 1
    <3>1. p - 1 \in 1 .. n /\ 1 + (p - 1) = p
      BY <2>2
    <3>2. t[p].unit = "byte"
      BY <1>2, <1>5, <3>1
    <3>3. QED BY <3>2, ByteIsNoHead
  <2>3. QED BY <2>1, <2>2
<1>7. ASSUME c = Base[f] + from - 1, c + n <= Base[f] + Size[f]
      PROVE  PieceOf(t, 1, f)
  <2>1. Base[f] \in Nat /\ Size[f] \in Nat
    BY BaseFacts
  <2>2. Base[f] <= c
    BY <1>7, <2>1
  <2>3. Base[f] <= t[1].bytes /\ t[1].bytes + t[1].len <= Base[f] + Size[f]
    BY <1>1, <1>5, <1>7, <2>2
  <2>4. ASSUME NEW q \in 1 .. 1 + n, 1 < q, q <= 1 + t[1].len
        PROVE  t[q].byte = <<f, (t[1].bytes - Base[f]) + (q - 1)>>
    <3>1. q - 1 \in 1 .. n /\ 1 + (q - 1) = q
      BY <2>4
    <3>2. t[q] = pay[q - 1] /\ pay[q - 1].byte = <<f, from + (q - 1) - 1>>
      BY <1>2, <1>5, <3>1
    <3>3. from + (q - 1) - 1 = (c - Base[f]) + (q - 1)
      <4>1. PICK b \in Nat : b = Base[f] /\ c = b + from - 1
        BY <1>7, <2>1
      <4>2. from + (q - 1) - 1 = (c - b) + (q - 1)
        BY <4>1
      <4>3. QED BY <4>1, <4>2
    <3>4. QED BY <1>1, <1>5, <3>2, <3>3
  <2>5. QED BY <1>5, <2>3, <2>4 DEF PieceOf
<1>8. QED BY <1>4, <1>5, <1>6, <1>7 DEF h

(* write_json_frame sends one frame. *)
LEMMA JsonFrame ==
    ASSUME NEW kind \in {"metadata", "complete", "error"}, NEW bytes \in Nat
    PROVE  /\ Json(kind, bytes) \in Seq(Unit) /\ Json(kind, bytes)[1] = Header(kind, JsonLen, bytes)
           /\ GoodHead(Header(kind, JsonLen, bytes)) => OneFrame(Json(kind, bytes))
           /\ kind # "complete" => NoComplete(Json(kind, bytes))
<1> DEFINE h == Header(kind, JsonLen, bytes)
           pay == [k \in 1 .. JsonLen |-> [unit |-> "byte", byte |-> Junk]]
           t == Json(kind, bytes)
<1>1. h \in Unit /\ IsHead(h) /\ h.kind = kind /\ h.len = JsonLen /\ JsonLen \in Nat
  BY HeaderType, BoundAssumption
<1>2. /\ pay \in Seq(Unit) /\ Len(pay) = JsonLen
      /\ \A k \in 1 .. JsonLen : pay[k].unit = "byte"
  <2>1. [unit |-> "byte", byte |-> Junk] \in Unit
    BY DEF Unit, ByteUnit
  <2>2. pay \in [1 .. JsonLen -> Unit]
    BY <2>1
  <2>3. QED BY <1>1, <2>2
<1>3. Packed(h, pay, t)
  BY <1>1, <1>2, PackedConcat DEF Json
<1> HIDE DEF h, pay, t
<1>4. ASSUME GoodHead(h)
      PROVE  OneFrame(t)
  <2>1. h.kind # "data"
    BY <1>1
  <2>2. QED BY <1>1, <1>2, <1>3, <1>4, <2>1, PackedFrame
<1>5. t \in Seq(Unit) /\ t[1] = h /\ Len(t) = 1 + JsonLen /\ \A k \in 1 .. JsonLen : t[1 + k] = pay[k]
  BY <1>2, <1>3 DEF Packed
<1>6. ASSUME kind # "complete"
      PROVE  NoComplete(t)
  <2> SUFFICES ASSUME NEW p \in 1 .. 1 + JsonLen, IsHead(t[p])
               PROVE  t[p].kind # "complete"
    BY <1>5 DEF NoComplete
  <2>1. CASE p = 1
    BY <1>1, <1>5, <1>6, <2>1
  <2>2. CASE p # 1
    <3>1. p - 1 \in 1 .. JsonLen /\ 1 + (p - 1) = p
      BY <1>1, <2>2
    <3>2. t[p].unit = "byte"
      BY <1>2, <1>5, <3>1
    <3>3. QED BY <3>2, ByteIsNoHead
  <2>3. QED BY <2>1, <2>2
<1>7. QED BY <1>4, <1>5, <1>6 DEF h, t

(* So does the EOF frame. *)
LEMMA EofFrame ==
    ASSUME NEW bytes \in Nat, bytes = TotalBytes
    PROVE  OneFrame(<<Header("eof", 0, bytes)>>) /\ <<Header("eof", 0, bytes)>> \in Seq(Unit)
<1> DEFINE h == Header("eof", 0, bytes)
<1>1. h \in Unit /\ IsHead(h) /\ h.kind = "eof" /\ h.len = 0 /\ h.bytes = bytes
  BY HeaderType
<1>2. GoodHead(h)
  BY <1>1 DEF GoodHead
<1> HIDE DEF h
<1>3. <<h>> \in Seq(Unit) /\ Len(<<h>>) = 1 /\ <<h>>[1] = h
  BY <1>1
<1>4. \A q \in 2 .. 1 : FALSE
  OBVIOUS
<1>5. OneFrame(<<h>>)
  BY <1>1, <1>2, <1>3, <1>4 DEF OneFrame
<1>6. QED BY <1>3, <1>5 DEF h
-----------------------------------------------------------------------------
(* What is on its way.                                                      *)

(* Which frames a join holds. *)
LEMMA JoinKinds ==
    ASSUME NEW s \in Seq(Unit), NEW t \in Seq(Unit), NEW u, Joined(s, t, u)
    PROVE  /\ OnlyData(s) /\ OnlyData(t) => OnlyData(u)
           /\ NoComplete(s) /\ NoComplete(t) => NoComplete(u)
<1>0. PICK n \in Nat, m \in Nat : n = Len(s) /\ m = Len(t)
  BY LenProperties
<1>1. /\ Len(u) = n + m
      /\ \A i \in 1 .. n : u[i] = s[i]
      /\ \A i \in 1 .. m : u[n + i] = t[i]
  BY <1>0 DEF Joined
<1>2. ASSUME NEW p \in 1 .. n + m
      PROVE  (\E i \in 1 .. n : u[p] = s[i]) \/ (\E i \in 1 .. m : u[p] = t[i])
  <2>1. CASE p <= n
    BY <1>1, <2>1
  <2>2. CASE p > n
    <3>1. p - n \in 1 .. m /\ n + (p - n) = p
      BY <2>2
    <3>2. QED BY <1>1, <3>1
  <2>3. QED BY <2>1, <2>2
<1>3. ASSUME OnlyData(s), OnlyData(t)
      PROVE  OnlyData(u)
  BY <1>0, <1>1, <1>2, <1>3 DEF OnlyData
<1>4. ASSUME NoComplete(s), NoComplete(t)
      PROVE  NoComplete(u)
  BY <1>0, <1>1, <1>2, <1>4 DEF NoComplete
<1>5. QED BY <1>3, <1>4

(* Frames of a file do not say that all is done. *)
LEMMA DataNoComplete ==
    ASSUME NEW s, OnlyData(s)
    PROVE  NoComplete(s)
BY DEF OnlyData, NoComplete

(* An empty sequence holds no frames. *)
LEMMA EmptyKinds == OnlyData(<< >>) /\ NoComplete(<< >>)
BY EmptySeq DEF OnlyData, NoComplete

(* Nor does a part of a sequence hold frames that the sequence does not. *)
LEMMA PartNoComplete ==
    ASSUME NEW s \in Seq(Unit), NEW u, NoComplete(s),
           Begins(u, s) \/ \E m \in Nat : Behind(s, m, u)
    PROVE  NoComplete(u)
<1>1. CASE Begins(u, s)
  <2>1. PICK n \in Nat, k \in Nat : n = Len(s) /\ k = Len(u) /\ k <= n
    BY <1>1, LenProperties DEF Begins
  <2>2. \A i \in 1 .. k : i \in 1 .. n /\ u[i] = s[i]
    BY <1>1, <2>1 DEF Begins
  <2>3. QED BY <2>1, <2>2 DEF NoComplete
<1>2. CASE \E m \in Nat : Behind(s, m, u)
  <2>1. PICK m \in Nat : Behind(s, m, u)
    BY <1>2
  <2>2. PICK n \in Nat, k \in Nat : n = Len(s) /\ k = Len(u) /\ n = m + k
    <3>1. Len(s) \in Nat /\ Len(u) \in Nat /\ Len(s) = m + Len(u)
      BY <2>1, LenProperties DEF Behind
    <3>2. QED BY <3>1
  <2>3. \A i \in 1 .. k : m + i \in 1 .. n /\ u[i] = s[m + i]
    BY <2>1, <2>2 DEF Behind
  <2>4. QED BY <2>2, <2>3 DEF NoComplete
<1>3. QED BY <1>1, <1>2

(* A BufWriter that has been given s after what it had passed on before: it *)
(* has passed on some of it and holds the rest.                             *)
Carries(b, s) ==
    /\ b = [out |-> b.out, held |-> b.held]
    /\ b.out \in Seq(Unit) /\ b.held \in Seq(Unit) /\ Len(b.held) <= 1 + MaxChunk
    /\ OnlyData(b.out) /\ OnlyData(b.held)
    /\ b.out \o b.held = s

(* It keeps what it is given in order, and holds no more than it has room   *)
(* for.                                                                     *)
LEMMA BufferedKeeps ==
    ASSUME NEW b, NEW s, Carries(b, s), NEW units \in Seq(Unit),
           Len(units) <= 1 + MaxChunk, OnlyData(units)
    PROVE  Carries(Buffered(b, units), s \o units)
<1>0. PICK o \in Seq(Unit), h \in Seq(Unit) : o = b.out /\ h = b.held
  BY DEF Carries
<1>1. /\ b = [out |-> o, held |-> h] /\ Len(h) <= 1 + MaxChunk
      /\ OnlyData(o) /\ OnlyData(h) /\ s = o \o h
  BY <1>0 DEF Carries
<1>2. CASE Len(h) + Len(units) > 1 + MaxChunk
  <2>1. Buffered(b, units) = [out |-> o \o h, held |-> units]
    BY <1>0, <1>2 DEF Buffered
  <2>2. o \o h \in Seq(Unit) /\ OnlyData(o \o h)
    BY <1>1, ConcatJoins, ConcatProperties, JoinKinds
  <2>3. PICK x : x = o \o h
    OBVIOUS
  <2>4. x \in Seq(Unit) /\ OnlyData(x) /\ s \o units = x \o units
    BY <1>1, <2>2, <2>3
  <2>5. Buffered(b, units) = [out |-> x, held |-> units]
    BY <2>1, <2>3
  <2>6. QED BY <2>4, <2>5 DEF Carries
<1>3. CASE ~(Len(h) + Len(units) > 1 + MaxChunk)
  <2>1. Buffered(b, units) = [b EXCEPT !.held = h \o units]
    BY <1>0, <1>3 DEF Buffered
  <2>2. [b EXCEPT !.held = h \o units] = [out |-> o, held |-> h \o units]
    <3>1. ASSUME NEW x
          PROVE  [b EXCEPT !.held = x] = [out |-> o, held |-> x]
      BY <1>1
    <3>2. QED BY <3>1
  <2>3. h \o units \in Seq(Unit) /\ OnlyData(h \o units) /\ Len(h \o units) = Len(h) + Len(units)
    BY <1>1, ConcatJoins, ConcatProperties, JoinKinds
  <2>4. Len(h \o units) <= 1 + MaxChunk
    <3>1. Len(h) \in Nat /\ Len(units) \in Nat /\ MaxChunk \in Nat
      BY LenProperties, BoundAssumption
    <3>2. QED BY <1>3, <2>3, <3>1
  <2>5. o \o (h \o units) = s \o units
    BY <1>1, ConcatAssociative
  <2>6. QED BY <1>1, <2>1, <2>2, <2>3, <2>4, <2>5 DEF Carries
<1>4. QED BY <1>2, <1>3

(* Concatenation of units is associative. *)
LEMMA UnitsAssociative ==
    ASSUME NEW a \in Seq(Unit), NEW b \in Seq(Unit), NEW c \in Seq(Unit)
    PROVE  (a \o b) \o c = a \o (b \o c)
BY ConcatAssociative

(* What is on its way is a sequence of units. *)
LEMMA StreamType ==
    ASSUME TypeOK
    PROVE  /\ wire \in Seq(Unit) /\ held \in Seq(Unit) /\ Stream \in Seq(Unit)
           /\ Len(held) <= 1 + MaxChunk
           /\ linkUp => Joined(wire, held, Stream)
           /\ ~linkUp => Stream = wire
<1>1. wire \in Seq(Unit) /\ held \in Seq(Unit) /\ Len(held) <= 1 + MaxChunk
  BY DEF TypeOK, Unit
<1>2. wire \o held \in Seq(Unit) /\ Joined(wire, held, wire \o held)
  BY <1>1, ConcatProperties, ConcatJoins
<1>3. QED BY <1>1, <1>2 DEF Stream

(* The effect of SendChunk: a frame behind what is on its way. *)
LEMMA ChunkSent ==
    ASSUME TypeOK, DaemonAt, SendChunk
    PROVE  \E n \in 1 .. MaxChunk, t \in Seq(Unit) :
              /\ t = Chunk(didx, fileBytes + 1, n, sent)
              /\ fileBytes + n <= real /\ fileBytes' = fileBytes + n /\ sent' = sent + n
              /\ wire' \in Seq(Unit) /\ held' \in Seq(Unit) /\ Len(held') <= 1 + MaxChunk
              /\ OnlyData(held') /\ (NoComplete(wire) => NoComplete(wire'))
              /\ linkUp /\ linkUp' /\ Stream' = Stream \o t
              /\ \E o \in Seq(Unit) : wire' = wire \o o
<1> DEFINE H(n) == <<Header("data", n, sent)>>
           D(n) == Data(didx, fileBytes + 1, n)
           B1(n) == Buffered([out |-> << >>, held |-> held], H(n))
           B2(n) == Buffered(B1(n), D(n))
<1>1. PICK n \in 1 .. MaxChunk :
          /\ fileBytes + n <= real /\ fileBytes' = fileBytes + n /\ sent' = sent + n
          /\ wire' = wire \o B2(n).out /\ held' = B2(n).held
  BY DEF SendChunk
<1>2. /\ didx \in Entry /\ n \in Nat \ {0} /\ sent \in Nat /\ fileBytes + 1 \in Nat \ {0}
      /\ linkUp /\ linkUp' /\ OnlyData(held) /\ MaxChunk \in Nat
  BY BoundAssumption DEF SendChunk, TypeOK, DaemonAt
<1>3. H(n) \in Seq(Unit) /\ Len(H(n)) = 1 /\ H(n)[1] = Header("data", n, sent)
  BY <1>2, HeaderType
<1>4. OnlyData(H(n))
  <2>1. Header("data", n, sent).kind = "data"
    BY <1>2, HeaderType
  <2>2. \A p \in 1 .. 1 : p = 1
    OBVIOUS
  <2>3. QED BY <1>3, <2>1, <2>2 DEF OnlyData
<1>5. D(n) \in Seq(Unit) /\ Len(D(n)) = n /\ \A k \in 1 .. n : D(n)[k].unit = "byte"
  BY <1>2, DataType
<1>6. OnlyData(D(n))
  BY <1>5, ByteIsNoHead DEF OnlyData
<1>7. wire \in Seq(Unit) /\ held \in Seq(Unit) /\ Len(held) <= 1 + MaxChunk
  BY StreamType
<1>8. Len(H(n)) <= 1 + MaxChunk /\ Len(D(n)) <= 1 + MaxChunk
  <2>1. 1 <= 1 + MaxChunk /\ n <= 1 + MaxChunk
    BY <1>2
  <2>2. QED BY <1>3, <1>5, <2>1
<1>9. PICK t \in Seq(Unit) : t = H(n) \o D(n)
  BY <1>3, <1>5, ConcatProperties
<1> HIDE DEF H, D
<1>10. Carries(B2(n), held \o t)
  <2>1. Carries([out |-> << >>, held |-> held], held)
    BY <1>2, <1>7, EmptySeq, EmptyKinds, ConcatEmptySeq DEF Carries
  <2>2. Carries(B1(n), held \o H(n))
    BY <1>3, <1>4, <1>8, <2>1, BufferedKeeps
  <2>3. Carries(B2(n), (held \o H(n)) \o D(n))
    BY <1>5, <1>6, <1>8, <2>2, BufferedKeeps
  <2>4. (held \o H(n)) \o D(n) = held \o t
    BY <1>3, <1>5, <1>7, <1>9, UnitsAssociative
  <2>5. QED BY <2>3, <2>4
<1> HIDE DEF B1, B2
<1>11. PICK o2 \in Seq(Unit), h2 \in Seq(Unit) : o2 = B2(n).out /\ h2 = B2(n).held
  BY <1>10 DEF Carries
<1>12. wire' = wire \o o2 /\ held' = h2
  BY <1>1, <1>11
<1>13. o2 \o h2 = held \o t /\ Len(h2) <= 1 + MaxChunk /\ OnlyData(o2) /\ OnlyData(h2)
  BY <1>10, <1>11 DEF Carries
<1>14. wire' \o held' = (wire \o held) \o t
  <2>1. (wire \o o2) \o h2 = wire \o (o2 \o h2)
    BY <1>7, UnitsAssociative
  <2>2. wire \o (held \o t) = (wire \o held) \o t
    BY <1>7, UnitsAssociative
  <2>3. QED BY <1>12, <1>13, <2>1, <2>2
<1>15. wire' \in Seq(Unit) /\ (NoComplete(wire) => NoComplete(wire'))
  BY <1>7, <1>12, <1>13, ConcatProperties, ConcatJoins, JoinKinds, DataNoComplete
<1>16. Stream' = Stream \o t
  BY <1>2, <1>14 DEF Stream
<1>17. t = Chunk(didx, fileBytes + 1, n, sent)
  BY <1>9 DEF H, D, Chunk
<1>18. QED BY <1>1, <1>2, <1>11, <1>12, <1>13, <1>15, <1>16, <1>17

(* The effect of a response, or of anything written directly. *)
LEMMA WireSent ==
    ASSUME TypeOK, NEW units \in Seq(Unit), ToWire(units)
    PROVE  /\ wire' \in Seq(Unit)
           /\ NoComplete(wire) /\ NoComplete(units) => NoComplete(wire')
<1>1. wire \in Seq(Unit)
  BY StreamType
<1>2. wire \o units \in Seq(Unit) /\ Joined(wire, units, wire \o units)
  BY <1>1, ConcatProperties, ConcatJoins
<1>3. wire' = wire \/ wire' = wire \o units
  BY DEF ToWire
<1>4. QED BY <1>1, <1>2, <1>3, JoinKinds

(* The effect of a lost connection: a beginning of what was on its way. *)
LEMMA LinkLost ==
    ASSUME TypeOK, LoseLink
    PROVE  wire' \in Seq(Unit) /\ Begins(wire', wire) /\ Begins(Stream', Stream)
<1>1. PICK k \in 0 .. Len(wire) : wire' = SubSeq(wire, 1, k)
  BY DEF LoseLink
<1>2. wire \in Seq(Unit) /\ held \in Seq(Unit) /\ Joined(wire, held, Stream) /\ Stream \in Seq(Unit)
  BY StreamType DEF LoseLink
<1>3. PICK n \in Nat, m \in Nat : n = Len(wire) /\ m = Len(held)
  BY <1>2, LenProperties
<1>4. k \in 0 .. n
  BY <1>1, <1>3
<1>5. /\ wire' \in Seq(Unit) /\ Len(wire') = k
      /\ \A i \in 1 .. k : wire'[i] = wire[i]
  <2>1. \A i \in 1 .. k : wire[i] \in Unit
    BY <1>2, <1>3, <1>4, ElementOfSeq
  <2>2. 1 \in Int /\ k \in Int
    BY <1>4
  <2>3. wire' \in Seq(Unit) /\ Len(wire') = IF 1 <= k THEN k - 1 + 1 ELSE 0
    BY <1>1, <2>1, <2>2, SubSeqProperties
  <2>4. Len(wire') = k
    BY <1>4, <2>3
  <2>5. \A i \in 1 .. k - 1 + 1 : wire'[i] = wire[1 + i - 1]
    BY <1>1, <2>1, <2>2, SubSeqProperties
  <2>6. ASSUME NEW i \in 1 .. k
        PROVE  wire'[i] = wire[i]
    <3>1. i \in 1 .. k - 1 + 1 /\ 1 + i - 1 = i
      BY <1>4
    <3>2. QED BY <2>5, <3>1
  <2>7. QED BY <2>3, <2>4, <2>6
<1>6. Begins(wire', wire)
  BY <1>3, <1>4, <1>5 DEF Begins
<1>7. Stream' = wire'
  BY DEF Stream, LoseLink
<1>8. Len(Stream) = n + m /\ \A i \in 1 .. n : Stream[i] = wire[i]
  BY <1>2, <1>3 DEF Joined
<1>9. k <= n + m /\ \A i \in 1 .. k : i \in 1 .. n
  BY <1>4
<1>10. Len(wire') <= Len(Stream) /\ \A i \in 1 .. Len(wire') : wire'[i] = Stream[i]
  BY <1>5, <1>8, <1>9
<1>11. Begins(Stream', Stream)
  BY <1>5, <1>7, <1>10 DEF Begins
<1>12. QED BY <1>5, <1>6, <1>11

(* The effect of a read: the first frame is taken off. *)
LEMMA FrameRead ==
    ASSUME TypeOK, FrameReady, Skip(Head(wire)), UNCHANGED <<linkUp, held>>
    PROVE  \E m \in Nat :
              /\ m = Stream[1].len + 1 /\ Behind(wire, m, wire') /\ Behind(Stream, m, Stream')
              /\ wire # << >> /\ Stream # << >> /\ Head(wire) = Stream[1] /\ IsHead(Stream[1])
              /\ Stream[1] \in Unit /\ m <= Len(Stream)
              /\ \A k \in 1 .. m : wire[k] = Stream[k]
              /\ wire' \in Seq(Unit)
<1>1. wire \in Seq(Unit) /\ held \in Seq(Unit) /\ Stream \in Seq(Unit)
  BY StreamType
<1>2. wire # << >> /\ Head(wire) = wire[1] /\ IsHead(wire[1]) /\ Len(wire) > wire[1].len
  BY <1>1 DEF FrameReady, AtHeader, IsHead
<1>3. PICK n \in Nat, c \in Nat : n = Len(wire) /\ c = Len(held)
  BY <1>1, LenProperties
<1>4. 1 \in 1 .. n
  <2>1. n # 0
    BY <1>1, <1>2, <1>3, EmptySeq
  <2>2. QED BY <2>1
<1>5. wire[1] \in Unit
  BY <1>1, <1>3, <1>4, ElementOfSeq
<1>6. PICK l \in Nat : l = wire[1].len
  BY <1>2, <1>5, UnitType
<1>7. l < n
  BY <1>2, <1>3, <1>6
<1>8. wire' = SubSeq(wire, l + 2, n)
  BY <1>2, <1>3, <1>6 DEF Skip
<1>9. PICK m \in Nat : m = l + 1 /\ m <= n
  BY <1>7
<1>10. PICK r \in Nat : n = m + r
  <2>1. n - m \in Nat /\ n = m + (n - m)
    BY <1>9
  <2>2. QED BY <2>1
<1>11. /\ wire' \in Seq(Unit) /\ Len(wire') = r
       /\ \A i \in 1 .. r : wire'[i] = wire[m + i]
  <2>1. \A i \in l + 2 .. n : wire[i] \in Unit
    BY <1>1, <1>3, ElementOfSeq
  <2>2. l + 2 \in Int /\ n \in Int
    OBVIOUS
  <2>3. wire' \in Seq(Unit) /\ Len(wire') = IF l + 2 <= n THEN n - (l + 2) + 1 ELSE 0
    BY <1>8, <2>1, <2>2, SubSeqProperties
  <2>4. Len(wire') = r
    BY <1>9, <1>10, <2>3
  <2>5. \A i \in 1 .. n - (l + 2) + 1 : wire'[i] = wire[(l + 2) + i - 1]
    BY <1>8, <2>1, <2>2, SubSeqProperties
  <2>6. ASSUME NEW i \in 1 .. r
        PROVE  wire'[i] = wire[m + i]
    <3>1. i \in 1 .. n - (l + 2) + 1 /\ (l + 2) + i - 1 = m + i
      BY <1>9, <1>10
    <3>2. QED BY <2>5, <3>1
  <2>7. QED BY <2>3, <2>4, <2>6
<1>12. Behind(wire, m, wire')
  <2>1. Len(wire') = Len(wire) - m /\ m <= Len(wire)
    BY <1>3, <1>9, <1>10, <1>11
  <2>2. QED BY <1>11, <2>1 DEF Behind
<1>13. CASE ~linkUp
  <2>1. Stream = wire /\ Stream' = wire'
    BY <1>13 DEF Stream
  <2>2. QED BY <1>2, <1>3, <1>5, <1>6, <1>9, <1>11, <1>12, <2>1
<1>14. CASE linkUp
  <2>1. Joined(wire, held, Stream)
    BY <1>14, StreamType
  <2>2. Stream' = wire' \o held
    BY <1>14 DEF Stream
  <2>3. Joined(wire', held, Stream')
    BY <1>1, <1>11, <2>2, ConcatJoins
  <2>4. /\ Len(Stream) = n + c
        /\ \A i \in 1 .. n : Stream[i] = wire[i]
        /\ \A i \in 1 .. c : Stream[n + i] = held[i]
    BY <1>3, <2>1 DEF Joined
  <2>5. /\ Stream' \in Seq(Unit) /\ Len(Stream') = r + c
        /\ \A i \in 1 .. r : Stream'[i] = wire'[i]
        /\ \A i \in 1 .. c : Stream'[r + i] = held[i]
    BY <1>3, <1>11, <2>3 DEF Joined
  <2>6. ASSUME NEW i \in 1 .. r + c
        PROVE  Stream'[i] = Stream[m + i]
    <3>1. CASE i <= r
      <4>1. i \in 1 .. r /\ m + i \in 1 .. n
        BY <1>10, <3>1
      <4>2. QED BY <1>11, <2>4, <2>5, <4>1
    <3>2. CASE i > r
      <4>1. PICK j \in 1 .. c : i = r + j
        <5>1. i - r \in 1 .. c /\ i = r + (i - r)
          BY <3>2
        <5>2. QED BY <5>1
      <4>2. m + i = n + j
        BY <1>10, <4>1
      <4>3. QED BY <2>4, <2>5, <4>1, <4>2
    <3>3. QED BY <3>1, <3>2
  <2>7. Len(Stream') = Len(Stream) - m /\ m <= Len(Stream)
    <3>1. r + c = (n + c) - m /\ m <= n + c
      BY <1>9, <1>10
    <3>2. QED BY <2>4, <2>5, <3>1
  <2>8. Behind(Stream, m, Stream')
    BY <2>5, <2>6, <2>7 DEF Behind
  <2>9. Stream[1] = wire[1] /\ \A k \in 1 .. m : wire[k] = Stream[k]
    <3>1. \A k \in 1 .. m : k \in 1 .. n
      BY <1>9
    <3>2. QED BY <1>4, <2>4, <3>1
  <2>10. Stream # << >>
    <3>1. Len(Stream) # 0
      BY <1>4, <2>4
    <3>2. QED BY <3>1, EmptySeq
  <2>11. QED BY <1>2, <1>5, <1>6, <1>9, <1>11, <1>12, <2>7, <2>8, <2>9, <2>10
<1>15. QED BY <1>13, <1>14
-----------------------------------------------------------------------------
(* The outcomes of the steps.                                               *)

(* The daemon has sent PullBatchMetadata. *)
MetadataSent ==
    /\ dpc = "manifest" /\ dpc' = "next_file" /\ ToWire(Json("metadata", TotalBytes))
    /\ UNCHANGED <<didx, real, fileBytes, sent, held>>

(* It has opened the next file. *)
FileOpened ==
    /\ dpc = "next_file" /\ didx <= N /\ Kind[didx] = "file"
    /\ real' \in 0 .. MaxReal /\ fileBytes' = 0 /\ dpc' = "stream"
    /\ UNCHANGED <<didx, sent, held, wire>>

(* It has streamed a file that is as long as announced. *)
FileStreamed ==
    /\ dpc = "stream" /\ fileBytes = real /\ fileBytes = Size[didx]
    /\ dpc' = "next_file" /\ didx' = didx + 1
    /\ UNCHANGED <<real, fileBytes, sent, held, wire>>

(* It has sent the EOF frame and PullBatchComplete. *)
EndSent ==
    /\ dpc = "next_file" /\ didx = N + 1 /\ sent = TotalBytes
    /\ dpc' = "complete" /\ held' = << >>
    /\ ToWire(held \o <<Header("eof", 0, sent)>> \o Json("complete", sent))
    /\ UNCHANGED <<didx, real, fileBytes, sent>>

(* What a step of the daemon comes to. *)
LEMMA DaemonOutcome ==
    ASSUME Daemon
    PROVE  /\ UNCHANGED <<linkUp, clientVars>>
           /\ \/ DaemonFail /\ dpc \notin DaemonEnds
              \/ MetadataSent \/ SkipDir \/ FileOpened \/ SendChunk \/ FileStreamed \/ EndSent
<1>1. CASE SendMetadata
  BY <1>1 DEF SendMetadata, MetadataSent, DaemonEnds
<1>2. CASE SkipDir
  BY <1>2 DEF SkipDir
<1>3. CASE OpenFile
  BY <1>3 DEF OpenFile, FileOpened, DaemonEnds
<1>4. CASE SendChunk
  BY <1>4 DEF SendChunk
<1>5. CASE FinishFile
  BY <1>5 DEF FinishFile, FileStreamed, DaemonEnds
<1>6. CASE SendEnd
  BY <1>6 DEF SendEnd, EndSent, DaemonEnds
<1>7. CASE DaemonIoError
  BY <1>7 DEF DaemonIoError, DaemonEnds
<1>8. QED BY <1>1, <1>2, <1>3, <1>4, <1>5, <1>6, <1>7 DEF Daemon

(* The client has read a frame. *)
Reads == FrameReady /\ Skip(Head(wire))

(* It has PullBatchMetadata. *)
MetadataTaken ==
    /\ cpc = "await_metadata" /\ Reads /\ Head(wire).kind = "metadata"
    /\ cpc' = "entry" /\ UNCHANGED <<cidx, remaining, received, disk>>

(* It has made a directory. *)
DirMade ==
    /\ cpc = "entry" /\ cidx <= N /\ Kind[cidx] = "dir" /\ cidx' = cidx + 1
    /\ UNCHANGED <<cpc, remaining, received, disk, wire>>

(* It has created or truncated a file. *)
FileStarted ==
    /\ cpc = "entry" /\ cidx <= N /\ Kind[cidx] = "file"
    /\ disk' = [disk EXCEPT ![cidx] = << >>]
    /\ remaining' = Size[cidx] /\ cpc' = "write"
    /\ UNCHANGED <<cidx, received, wire>>

(* It has written a chunk. *)
ChunkTaken ==
    /\ cpc = "write" /\ remaining > 0 /\ Reads
    /\ Head(wire).kind = "data" /\ Head(wire).len <= remaining
    /\ disk' = [disk EXCEPT ![cidx] = @ \o Payload(Head(wire))]
    /\ remaining' = remaining - Head(wire).len
    /\ received' = received + Head(wire).len
    /\ UNCHANGED <<cpc, cidx>>

(* It has written all of a file. *)
FileFinished ==
    /\ cpc = "write" /\ remaining = 0 /\ cpc' = "entry" /\ cidx' = cidx + 1
    /\ UNCHANGED <<remaining, received, disk, wire>>

(* It has the EOF frame. *)
EofTaken ==
    /\ cpc = "entry" /\ cidx = N + 1 /\ Reads /\ Head(wire).kind = "eof"
    /\ cpc' = "await_complete" /\ UNCHANGED <<cidx, remaining, received, disk>>

(* It has PullBatchComplete. *)
CompleteTaken ==
    /\ cpc = "await_complete" /\ Reads
    /\ Head(wire).kind = "complete" /\ Head(wire).bytes = received
    /\ cpc' = "ok" /\ UNCHANGED <<cidx, remaining, received, disk>>

(* It has given up. *)
ClientFailed ==
    /\ cpc \notin ClientEnds /\ cpc' \in {"failed", "remote_error", "bad_stream"}
    /\ UNCHANGED <<cidx, remaining, received, disk>>
    /\ UNCHANGED wire \/ Reads

(* What a step of the client comes to. *)
LEMMA ClientOutcome ==
    ASSUME Client
    PROVE  /\ UNCHANGED <<linkUp, daemonVars>>
           /\ \/ ClientFailed \/ MetadataTaken \/ DirMade \/ FileStarted \/ ChunkTaken
              \/ FileFinished \/ EofTaken \/ CompleteTaken
<1>1. CASE RecvMetadata
  BY <1>1 DEF RecvMetadata, ClientEnd, ClientEnds, ClientFailed, MetadataTaken, Reads
<1>2. CASE StartEntry
  BY <1>2 DEF StartEntry, ClientEnd, ClientEnds, ClientFailed, DirMade, FileStarted
<1>3. CASE RecvChunk
  <2>1. UNCHANGED <<linkUp, daemonVars>> /\ Reads /\ cpc = "write" /\ remaining > 0
    BY <1>3 DEF RecvChunk, Reads
  <2>2. CASE cpc' = "write"
    BY <1>3, <2>1, <2>2 DEF RecvChunk, ClientEnd, ChunkTaken
  <2>3. CASE cpc' # "write"
    BY <1>3, <2>1, <2>3 DEF RecvChunk, ClientEnd, ClientEnds, ClientFailed
  <2>4. QED BY <2>1, <2>2, <2>3
<1>4. CASE FinishEntry
  BY <1>4 DEF FinishEntry, ClientEnd, ClientEnds, ClientFailed, FileFinished
<1>5. CASE ExpectEof
  BY <1>5 DEF ExpectEof, ClientEnd, ClientEnds, ClientFailed, EofTaken, Reads
<1>6. CASE RecvComplete
  BY <1>6 DEF RecvComplete, ClientEnd, ClientEnds, ClientFailed, CompleteTaken, Reads
<1>7. CASE ClientReadError
  BY <1>7 DEF ClientReadError, Reading, ClientEnd, ClientEnds, ClientFailed
<1>8. QED BY <1>1, <1>2, <1>3, <1>4, <1>5, <1>6, <1>7 DEF Client
-----------------------------------------------------------------------------
(* Type correctness, and the positions of the two sides.                    *)

(* The effect of a failure of the daemon. *)
LEMMA FailureSent ==
    ASSUME TypeOK, DaemonFail
    PROVE  /\ wire' \in Seq(Unit) /\ (NoComplete(wire) => NoComplete(wire'))
           /\ dpc' = "failed" /\ held' = << >> /\ UNCHANGED <<didx, real, fileBytes, sent>>
<1>1. Json("error", 0) \in Seq(Unit) /\ NoComplete(Json("error", 0))
  BY JsonFrame
<1>2. ToWire(Json("error", 0)) /\ dpc' = "failed" /\ held' = << >>
      /\ UNCHANGED <<didx, real, fileBytes, sent>>
  BY DEF DaemonFail
<1>3. QED BY <1>1, <1>2, WireSent

(* The effect of the end of the stream. *)
LEMMA EndUnits ==
    ASSUME TypeOK, sent = TotalBytes
    PROVE  held \o <<Header("eof", 0, sent)>> \o Json("complete", sent) \in Seq(Unit)
<1>1. held \in Seq(Unit) /\ sent \in Nat
  BY StreamType DEF TypeOK
<1>2. <<Header("eof", 0, sent)>> \in Seq(Unit) /\ Json("complete", sent) \in Seq(Unit)
  BY <1>1, EofFrame, JsonFrame
<1>3. held \o <<Header("eof", 0, sent)>> \in Seq(Unit)
  BY <1>1, <1>2, ConcatProperties
<1>4. QED BY <1>2, <1>3, ConcatProperties

(* What a step of the daemon may change in TypeOK. *)
LEMMA DaemonKeepsType ==
    ASSUME TypeOK, UNCHANGED <<linkUp, clientVars>>,
           dpc' \in {"manifest", "next_file", "stream"} \cup DaemonEnds, didx' \in 1 .. N + 1,
           real' \in 0 .. MaxReal, fileBytes' \in 0 .. MaxReal, sent' \in Nat,
           held' \in Seq(Unit), Len(held') <= 1 + MaxChunk, wire' \in Seq(Unit)
    PROVE  TypeOK'
BY DEF TypeOK, clientVars, Unit

(* The steps of the daemon keep the state well typed. *)
LEMMA DaemonType ==
    ASSUME TypeOK, DaemonAt, Daemon
    PROVE  TypeOK'
<1> USE ManifestAssumption, BoundAssumption
<1>0. /\ UNCHANGED <<linkUp, clientVars>>
      /\ \/ DaemonFail /\ dpc \notin DaemonEnds
         \/ MetadataSent \/ SkipDir \/ FileOpened \/ SendChunk \/ FileStreamed \/ EndSent
  BY DaemonOutcome
<1>1. /\ dpc \in {"manifest", "next_file", "stream"} \cup DaemonEnds /\ didx \in 1 .. N + 1
      /\ real \in 0 .. MaxReal /\ fileBytes \in 0 .. MaxReal /\ sent \in Nat
      /\ held \in Seq(Unit) /\ Len(held) <= 1 + MaxChunk /\ wire \in Seq(Unit)
  BY StreamType DEF TypeOK
<1>2. << >> \in Seq(Unit) /\ Len(<< >>) <= 1 + MaxChunk
  BY EmptySeq
<1>3. CASE DaemonFail
  BY <1>0, <1>1, <1>2, <1>3, FailureSent, DaemonKeepsType DEF DaemonEnds
<1>4. CASE MetadataSent
  <2>1. TotalBytes \in Nat
    BY BaseSums DEF TotalBytes
  <2>2. wire' \in Seq(Unit)
    BY <1>4, <2>1, JsonFrame, WireSent DEF MetadataSent
  <2>3. QED BY <1>0, <1>1, <1>4, <2>2, DaemonKeepsType DEF MetadataSent
<1>5. CASE SkipDir
  <2>1. didx' \in 1 .. N + 1
    BY <1>1, <1>5 DEF SkipDir
  <2>2. QED BY <1>0, <1>1, <1>5, <2>1, DaemonKeepsType DEF SkipDir
<1>6. CASE FileOpened
  <2>1. fileBytes' \in 0 .. MaxReal
    BY <1>6 DEF FileOpened
  <2>2. QED BY <1>0, <1>1, <1>6, <2>1, DaemonKeepsType DEF FileOpened
<1>7. CASE SendChunk
  <2>1. PICK n \in 1 .. MaxChunk :
              /\ fileBytes + n <= real /\ fileBytes' = fileBytes + n /\ sent' = sent + n
              /\ wire' \in Seq(Unit) /\ held' \in Seq(Unit) /\ Len(held') <= 1 + MaxChunk
    BY <1>7, ChunkSent
  <2>2. fileBytes' \in 0 .. MaxReal /\ sent' \in Nat
    BY <1>1, <2>1
  <2>3. UNCHANGED <<dpc, didx, real>>
    BY <1>7 DEF SendChunk
  <2>4. QED BY <1>0, <1>1, <2>1, <2>2, <2>3, DaemonKeepsType
<1>8. CASE FileStreamed
  <2>1. didx' \in 1 .. N + 1
    BY <1>8 DEF FileStreamed, DaemonAt, Entry
  <2>2. QED BY <1>0, <1>1, <1>8, <2>1, DaemonKeepsType DEF FileStreamed
<1>9. CASE EndSent
  <2>1. wire' \in Seq(Unit)
    BY <1>9, EndUnits, WireSent DEF EndSent
  <2>2. QED BY <1>0, <1>1, <1>2, <1>9, <2>1, DaemonKeepsType DEF EndSent, DaemonEnds
<1>10. QED BY <1>0, <1>3, <1>4, <1>5, <1>6, <1>7, <1>8, <1>9

(* The daemon's counters stay in step with its place in the manifest. *)
LEMMA DaemonAtDaemon ==
    ASSUME TypeOK, DaemonAt, Daemon
    PROVE  DaemonAt'
<1> USE ManifestAssumption
<1>0. \/ DaemonFail /\ dpc \notin DaemonEnds
      \/ MetadataSent \/ SkipDir \/ FileOpened \/ SendChunk \/ FileStreamed \/ EndSent
  BY DaemonOutcome
<1>1. didx \in 1 .. N + 1 /\ real \in Nat /\ fileBytes \in Nat /\ sent \in Nat
  BY BoundAssumption DEF TypeOK
<1>2. CASE DaemonFail
  BY <1>2, FailureSent, EmptyKinds DEF DaemonAt
<1>3. CASE MetadataSent
  BY <1>3, BaseSums DEF MetadataSent, DaemonAt
<1>4. CASE SkipDir
  <2>1. didx \in Entry /\ Size[didx] = 0
    BY <1>1, <1>4 DEF SkipDir, Entry
  <2>2. Base[didx + 1] = Base[didx]
    BY <2>1, BaseFacts
  <2>3. QED BY <1>4, <2>2 DEF SkipDir, DaemonAt
<1>5. CASE FileOpened
  <2>1. didx \in Entry
    BY <1>1, <1>5 DEF FileOpened, Entry
  <2>2. sent = Base[didx] /\ Base[didx] \in Nat
    BY <1>5, <2>1, BaseFacts DEF FileOpened, DaemonAt
  <2>3. fileBytes' <= real' /\ sent' = Base[didx'] + fileBytes'
    BY <1>5, <2>2, BoundAssumption DEF FileOpened
  <2>4. QED BY <1>5, <2>1, <2>3 DEF FileOpened, DaemonAt
<1>6. CASE SendChunk
  <2>1. PICK n \in 1 .. MaxChunk :
              /\ fileBytes + n <= real /\ fileBytes' = fileBytes + n /\ sent' = sent + n
              /\ OnlyData(held')
    BY <1>6, ChunkSent
  <2>2. UNCHANGED <<dpc, didx, real>> /\ dpc = "stream"
    BY <1>6 DEF SendChunk
  <2>3. /\ didx \in Entry /\ Kind[didx] = "file" /\ sent = Base[didx] + fileBytes
        /\ Base[didx] \in Nat
    BY <2>2, BaseFacts DEF DaemonAt
  <2>4. sent' = Base[didx'] + fileBytes' /\ fileBytes' <= real'
    BY <1>1, <2>1, <2>2, <2>3
  <2>5. QED BY <2>1, <2>2, <2>3, <2>4 DEF DaemonAt
<1>7. CASE FileStreamed
  <2>1. didx \in Entry /\ sent = Base[didx] + Size[didx]
    BY <1>7 DEF FileStreamed, DaemonAt
  <2>2. sent = Base[didx + 1]
    BY <2>1, BaseFacts
  <2>3. QED BY <1>7, <2>2 DEF FileStreamed, DaemonAt
<1>8. CASE EndSent
  BY <1>8, EmptyKinds DEF EndSent, DaemonAt
<1>9. QED BY <1>0, <1>2, <1>3, <1>4, <1>5, <1>6, <1>7, <1>8

(* Whatever the client does leaves the daemon where it is. *)
LEMMA DaemonAtOther ==
    ASSUME DaemonAt, UNCHANGED daemonVars
    PROVE  DaemonAt'
BY DEF DaemonAt, daemonVars

(* What a read leaves on the connection. *)
LEMMA ReadsType ==
    ASSUME TypeOK, Reads, UNCHANGED <<linkUp, daemonVars>>
    PROVE  /\ wire' \in Seq(Unit) /\ (NoComplete(wire) => NoComplete(wire'))
           /\ Head(wire).len \in Nat /\ Head(wire).bytes \in Nat
           /\ \A k \in 1 .. Head(wire).len : wire[k + 1] \in Unit /\ wire[k + 1] = Stream[k + 1]
           /\ wire # << >> /\ Head(wire) = Stream[1] /\ IsHead(Head(wire))
<1>1. PICK m \in Nat :
              /\ m = Stream[1].len + 1 /\ Behind(wire, m, wire')
              /\ wire # << >> /\ Head(wire) = Stream[1] /\ IsHead(Stream[1])
              /\ Stream[1] \in Unit
              /\ \A k \in 1 .. m : wire[k] = Stream[k]
              /\ wire' \in Seq(Unit)
  BY FrameRead DEF Reads, daemonVars
<1>2. wire \in Seq(Unit)
  BY StreamType
<1>3. PICK l \in Nat : l = Head(wire).len /\ m = l + 1
  BY <1>1, UnitType
<1>4. Head(wire).bytes \in Nat
  BY <1>1, UnitType
<1>5. PICK n \in Nat : n = Len(wire) /\ m <= n
  BY <1>1, <1>2, LenProperties DEF Behind
<1>6. ASSUME NEW k \in 1 .. l
      PROVE  wire[k + 1] \in Unit /\ wire[k + 1] = Stream[k + 1]
  <2>1. k + 1 \in 1 .. m /\ k + 1 \in 1 .. n
    BY <1>3, <1>5
  <2>2. QED BY <1>1, <1>2, <1>5, <2>1, ElementOfSeq
<1>7. NoComplete(wire) => NoComplete(wire')
  BY <1>1, <1>2, PartNoComplete
<1>8. QED BY <1>1, <1>3, <1>4, <1>6, <1>7

(* What a frame's payload is to the client. *)
LEMMA PayloadType ==
    ASSUME TypeOK, Reads, UNCHANGED <<linkUp, daemonVars>>, NEW l \in Nat, l = Head(wire).len
    PROVE  /\ Payload(Head(wire)) \in Seq(SourceByte \cup {Junk})
           /\ Len(Payload(Head(wire))) = l
           /\ \A k \in 1 .. l : Payload(Head(wire))[k] =
                 IF Stream[k + 1].unit = "byte" THEN Stream[k + 1].byte ELSE Junk
<1>1. \A k \in 1 .. l : wire[k + 1] \in Unit /\ wire[k + 1] = Stream[k + 1]
  BY ReadsType
<1>2. Payload(Head(wire)) =
         [k \in 1 .. l |-> IF wire[k + 1].unit = "byte" THEN wire[k + 1].byte ELSE Junk]
  BY DEF Payload
<1>3. ASSUME NEW k \in 1 .. l
      PROVE  (IF wire[k + 1].unit = "byte" THEN wire[k + 1].byte ELSE Junk) \in SourceByte \cup {Junk}
  BY <1>1, UnitType, ByteIsNoHead
<1>4. Payload(Head(wire)) \in [1 .. l -> SourceByte \cup {Junk}]
  BY <1>2, <1>3
<1>5. Payload(Head(wire)) \in Seq(SourceByte \cup {Junk}) /\ Len(Payload(Head(wire))) = l
  BY <1>4
<1>6. ASSUME NEW k \in 1 .. l
      PROVE  Payload(Head(wire))[k] = IF Stream[k + 1].unit = "byte" THEN Stream[k + 1].byte ELSE Junk
  <2>1. Payload(Head(wire))[k] = IF wire[k + 1].unit = "byte" THEN wire[k + 1].byte ELSE Junk
    BY <1>2
  <2>2. QED BY <1>1, <2>1
<1>7. QED BY <1>5, <1>6

(* The effect of a chunk on the file it is written to. *)
LEMMA ChunkWritten ==
    ASSUME TypeOK, ClientAt, ChunkTaken, UNCHANGED <<linkUp, daemonVars>>
    PROVE  \E l \in Nat, d \in Nat :
              /\ l = Stream[1].len /\ d = Len(disk[cidx]) /\ cidx \in Entry
              /\ disk' \in [Entry -> Seq(SourceByte \cup {Junk})]
              /\ \A i \in Entry : i # cidx => disk'[i] = disk[i]
              /\ Len(disk'[cidx]) = d + l
              /\ \A k \in 1 .. d : disk'[cidx][k] = disk[cidx][k]
              /\ \A k \in 1 .. l : disk'[cidx][d + k] =
                    IF Stream[k + 1].unit = "byte" THEN Stream[k + 1].byte ELSE Junk
<1> DEFINE S == SourceByte \cup {Junk}
           pay == Payload(Head(wire))
<1>1. cidx \in Entry /\ Reads /\ disk' = [disk EXCEPT ![cidx] = disk[cidx] \o pay]
  BY DEF ChunkTaken, ClientAt
<1>2. disk \in [Entry -> Seq(S)] /\ disk[cidx] \in Seq(S)
  BY <1>1 DEF TypeOK
<1>3. PICK l \in Nat : l = Head(wire).len /\ Head(wire) = Stream[1]
  BY <1>1, ReadsType
<1>4. /\ pay \in Seq(S) /\ Len(pay) = l
      /\ \A k \in 1 .. l : pay[k] = IF Stream[k + 1].unit = "byte" THEN Stream[k + 1].byte ELSE Junk
  BY <1>1, <1>3, PayloadType
<1>5. PICK d \in Nat : d = Len(disk[cidx])
  BY <1>2, LenProperties
<1> HIDE DEF S, pay
<1>6. PICK y \in Seq(S), z \in Seq(S) : y = disk[cidx] /\ z = pay /\ Len(y) = d /\ Len(z) = l
  BY <1>2, <1>4, <1>5
<1>7. /\ y \o z \in Seq(S) /\ Len(y \o z) = Len(y) + Len(z)
      /\ \A i \in 1 .. Len(y) + Len(z) : (y \o z)[i] = IF i <= Len(y) THEN y[i] ELSE z[i - Len(y)]
  BY ConcatProperties
<1>8. PICK x \in Seq(S) :
      /\ x = y \o z /\ Len(x) = d + l
      /\ \A i \in 1 .. d + l : x[i] = IF i <= d THEN y[i] ELSE z[i - d]
  BY <1>6, <1>7
<1>9. disk'[cidx] = x /\ disk' \in [Entry -> Seq(S)] /\ \A i \in Entry : i # cidx => disk'[i] = disk[i]
  BY <1>1, <1>2, <1>6, <1>8
<1>10. ASSUME NEW k \in 1 .. d
       PROVE  disk'[cidx][k] = disk[cidx][k]
  <2>1. k \in 1 .. d + l /\ k <= d
    OBVIOUS
  <2>2. QED BY <1>6, <1>8, <1>9, <2>1
<1>11. ASSUME NEW k \in 1 .. l
       PROVE  disk'[cidx][d + k] = IF Stream[k + 1].unit = "byte" THEN Stream[k + 1].byte ELSE Junk
  <2>1. d + k \in 1 .. d + l /\ ~(d + k <= d) /\ (d + k) - d = k
    OBVIOUS
  <2>2. x[d + k] = z[k]
    BY <1>8, <2>1
  <2>3. QED BY <1>4, <1>6, <1>9, <2>2
<1>12. Len(disk'[cidx]) = d + l /\ l = Stream[1].len
  BY <1>3, <1>8, <1>9
<1>13. disk' \in [Entry -> Seq(SourceByte \cup {Junk})]
  BY <1>9 DEF S
<1>14. QED BY <1>1, <1>5, <1>9, <1>10, <1>11, <1>12, <1>13

(* What a step of the client may change in TypeOK. *)
LEMMA ClientKeepsType ==
    ASSUME TypeOK, UNCHANGED <<linkUp, daemonVars>>,
           cpc' \in {"await_metadata", "entry", "write", "await_complete"} \cup ClientEnds,
           cidx' \in 1 .. N + 1, remaining' \in Nat, received' \in Nat,
           disk' \in [Entry -> Seq(SourceByte \cup {Junk})], wire' \in Seq(Unit)
    PROVE  TypeOK'
BY DEF TypeOK, daemonVars, Unit

(* The steps of the client keep the state well typed. *)
LEMMA ClientType ==
    ASSUME TypeOK, ClientAt, Client
    PROVE  TypeOK'
<1> USE ManifestAssumption
<1>0. /\ UNCHANGED <<linkUp, daemonVars>>
      /\ \/ ClientFailed \/ MetadataTaken \/ DirMade \/ FileStarted \/ ChunkTaken
         \/ FileFinished \/ EofTaken \/ CompleteTaken
  BY ClientOutcome
<1>1. /\ cpc \in {"await_metadata", "entry", "write", "await_complete"} \cup ClientEnds
      /\ cidx \in 1 .. N + 1 /\ remaining \in Nat /\ received \in Nat
      /\ disk \in [Entry -> Seq(SourceByte \cup {Junk})] /\ wire \in Seq(Unit)
  BY StreamType DEF TypeOK
<1>2. CASE ClientFailed
  <2>1. wire' \in Seq(Unit)
    BY <1>0, <1>1, <1>2, ReadsType DEF ClientFailed
  <2>2. QED BY <1>0, <1>1, <1>2, <2>1, ClientKeepsType DEF ClientFailed, ClientEnds
<1>3. CASE MetadataTaken
  BY <1>0, <1>1, <1>3, ReadsType, ClientKeepsType DEF MetadataTaken
<1>4. CASE DirMade
  <2>1. cidx' \in 1 .. N + 1
    BY <1>1, <1>4 DEF DirMade
  <2>2. QED BY <1>0, <1>1, <1>4, <2>1, ClientKeepsType DEF DirMade
<1>5. CASE FileStarted
  <2>1. disk' \in [Entry -> Seq(SourceByte \cup {Junk})]
    BY <1>1, <1>5, EmptySeq DEF FileStarted
  <2>2. remaining' \in Nat
    BY <1>1, <1>5 DEF FileStarted
  <2>3. QED BY <1>0, <1>1, <1>5, <2>1, <2>2, ClientKeepsType DEF FileStarted
<1>6. CASE ChunkTaken
  <2>1. disk' \in [Entry -> Seq(SourceByte \cup {Junk})]
    BY <1>0, <1>6, ChunkWritten
  <2>2. wire' \in Seq(Unit) /\ Head(wire).len \in Nat
    BY <1>0, <1>6, ReadsType DEF ChunkTaken
  <2>3. PICK l \in Nat : l = Head(wire).len /\ l <= remaining /\ remaining' = remaining - l
                         /\ received' = received + l
    BY <1>6, <2>2 DEF ChunkTaken
  <2>4. remaining' \in Nat /\ received' \in Nat
    BY <1>1, <2>3
  <2>5. QED BY <1>0, <1>1, <1>6, <2>1, <2>2, <2>4, ClientKeepsType DEF ChunkTaken
<1>7. CASE FileFinished
  <2>1. cidx' \in 1 .. N + 1
    BY <1>7 DEF FileFinished, ClientAt, Entry
  <2>2. QED BY <1>0, <1>1, <1>7, <2>1, ClientKeepsType DEF FileFinished
<1>8. CASE EofTaken
  BY <1>0, <1>1, <1>8, ReadsType, ClientKeepsType DEF EofTaken
<1>9. CASE CompleteTaken
  BY <1>0, <1>1, <1>9, ReadsType, ClientKeepsType DEF CompleteTaken, ClientEnds
<1>10. QED BY <1>0, <1>2, <1>3, <1>4, <1>5, <1>6, <1>7, <1>8, <1>9

(* Every step keeps the state well typed. *)
LEMMA TypeStep ==
    ASSUME TypeOK, DaemonAt, ClientAt, [Next]_vars
    PROVE  TypeOK'
<1>1. CASE LoseLink
  <2>1. wire' \in Seq(Unit) /\ UNCHANGED <<daemonVars, clientVars>> /\ linkUp' = FALSE
    BY <1>1, LinkLost DEF LoseLink
  <2>2. QED BY <2>1 DEF TypeOK, daemonVars, clientVars, Unit
<1>2. CASE UNCHANGED vars
  BY <1>2 DEF vars, daemonVars, clientVars, TypeOK
<1>3. QED BY <1>1, <1>2, DaemonType, ClientType DEF Next, Terminated

(* The client's counters stay in step with its place in the manifest. *)
LEMMA ClientAtClient ==
    ASSUME TypeOK, ClientAt, Client
    PROVE  ClientAt'
<1> USE ManifestAssumption
<1>0. /\ UNCHANGED <<linkUp, daemonVars>>
      /\ \/ ClientFailed \/ MetadataTaken \/ DirMade \/ FileStarted \/ ChunkTaken
         \/ FileFinished \/ EofTaken \/ CompleteTaken
  BY ClientOutcome
<1>1. /\ cidx \in 1 .. N + 1 /\ remaining \in Nat /\ received \in Nat
      /\ disk \in [Entry -> Seq(SourceByte \cup {Junk})]
  BY DEF TypeOK
<1>2. CASE ClientFailed
  BY <1>2 DEF ClientFailed, ClientAt
<1>3. CASE MetadataTaken
  BY <1>3, BaseSums DEF MetadataTaken, ClientAt
<1>4. CASE DirMade
  <2>1. cidx \in Entry /\ Size[cidx] = 0
    BY <1>1, <1>4 DEF DirMade, Entry
  <2>2. Base[cidx + 1] = Base[cidx]
    BY <2>1, BaseFacts
  <2>3. QED BY <1>4, <2>2 DEF DirMade, ClientAt
<1>5. CASE FileStarted
  <2>1. cidx \in Entry
    BY <1>1, <1>5 DEF FileStarted, Entry
  <2>2. disk'[cidx] = << >> /\ Len(disk'[cidx]) = 0
    BY <1>1, <1>5, <2>1, EmptySeq DEF FileStarted
  <2>3. received = Base[cidx] /\ Base[cidx] \in Nat /\ Size[cidx] \in Nat
    BY <1>5, <2>1, BaseFacts DEF FileStarted, ClientAt
  <2>4. Len(disk'[cidx]) = Size[cidx] - Size[cidx]
    BY <2>2, <2>3
  <2>5. QED BY <1>5, <2>1, <2>3, <2>4 DEF FileStarted, ClientAt
<1>6. CASE ChunkTaken
  <2>1. PICK l \in Nat, d \in Nat :
          l = Stream[1].len /\ d = Len(disk[cidx]) /\ cidx \in Entry /\ Len(disk'[cidx]) = d + l
    BY <1>0, <1>6, ChunkWritten
  <2>2. l = Head(wire).len
    BY <1>0, <1>6, <2>1, ReadsType DEF ChunkTaken
  <2>3. l <= remaining /\ remaining' = remaining - l /\ received' = received + l
    BY <1>6, <2>2 DEF ChunkTaken
  <2>4. /\ received + remaining = Base[cidx] + Size[cidx] /\ d = Size[cidx] - remaining
        /\ Kind[cidx] = "file"
    BY <1>6, <2>1 DEF ChunkTaken, ClientAt
  <2>5. Base[cidx] \in Nat /\ Size[cidx] \in Nat
    BY <2>1, BaseFacts
  <2>6. received' + remaining' = received + remaining /\ d + l = Size[cidx] - remaining'
    <3>1. PICK s \in Nat : s = Size[cidx]
      BY <2>5
    <3>2. d + l = s - remaining'
      BY <1>1, <2>3, <2>4, <3>1
    <3>3. received' + remaining' = received + remaining
      BY <1>1, <2>3
    <3>4. QED BY <3>1, <3>2, <3>3
  <2>7. QED BY <1>6, <2>1, <2>4, <2>6 DEF ChunkTaken, ClientAt
<1>7. CASE FileFinished
  <2>1. cidx \in Entry /\ received + 0 = Base[cidx] + Size[cidx]
    BY <1>7 DEF FileFinished, ClientAt
  <2>2. received = Base[cidx + 1]
    BY <1>1, <2>1, BaseFacts
  <2>3. QED BY <1>7, <2>2 DEF FileFinished, ClientAt
<1>8. CASE EofTaken
  BY <1>8 DEF EofTaken, ClientAt
<1>9. CASE CompleteTaken
  BY <1>9 DEF CompleteTaken, ClientAt
<1>10. QED BY <1>0, <1>2, <1>3, <1>4, <1>5, <1>6, <1>7, <1>8, <1>9

(* Every step keeps the positions. *)
LEMMA PositionStep ==
    ASSUME TypeOK, DaemonAt, ClientAt, [Next]_vars
    PROVE  DaemonAt' /\ ClientAt'
<1>1. CASE Client
  <2>1. UNCHANGED daemonVars
    BY <1>1, ClientOutcome
  <2>2. QED BY <1>1, <2>1, ClientAtClient, DaemonAtOther
<1>2. CASE Daemon
  <2>1. UNCHANGED clientVars
    BY <1>2, DaemonOutcome
  <2>2. ClientAt'
    BY <2>1 DEF ClientAt, clientVars
  <2>3. QED BY <1>2, <2>2, DaemonAtDaemon
<1>3. CASE UNCHANGED <<daemonVars, clientVars>>
  <2>1. ClientAt'
    BY <1>3 DEF ClientAt, clientVars
  <2>2. QED BY <1>3, <2>1, DaemonAtOther
<1>4. QED BY <1>1, <1>2, <1>3 DEF Next, LoseLink, Terminated, vars

(* handle_pull_batch: PullBatchComplete is sent at the end, or never. *)
LEMMA CompleteStep ==
    ASSUME TypeOK, DaemonAt, CompleteOK, [Next]_vars
    PROVE  CompleteOK'
<1>1. wire \in Seq(Unit)
  BY StreamType
<1>2. CASE Daemon
  <2>0. \/ DaemonFail /\ dpc \notin DaemonEnds
        \/ MetadataSent \/ SkipDir \/ FileOpened \/ SendChunk \/ FileStreamed \/ EndSent
    BY <1>2, DaemonOutcome
  <2>1. CASE DaemonFail /\ dpc \notin DaemonEnds
    BY <2>1, FailureSent DEF CompleteOK, DaemonEnds
  <2>2. CASE MetadataSent
    <3>1. TotalBytes \in Nat
      BY ManifestAssumption, BaseSums DEF TotalBytes
    <3>2. NoComplete(wire')
      BY <2>2, <3>1, JsonFrame, WireSent DEF MetadataSent, CompleteOK
    <3>3. QED BY <3>2 DEF CompleteOK
  <2>3. CASE SkipDir \/ FileOpened \/ FileStreamed
    BY <2>3 DEF SkipDir, FileOpened, FileStreamed, CompleteOK
  <2>4. CASE SendChunk
    <3>1. NoComplete(wire) => NoComplete(wire')
      BY <2>4, ChunkSent
    <3>2. QED BY <2>4, <3>1 DEF SendChunk, CompleteOK
  <2>5. CASE EndSent
    BY <2>5 DEF EndSent, CompleteOK
  <2>6. QED BY <2>0, <2>1, <2>2, <2>3, <2>4, <2>5
<1>3. CASE Client
  <2>1. UNCHANGED <<linkUp, daemonVars>> /\ (UNCHANGED wire \/ Reads)
    BY <1>3, ClientOutcome DEF ClientFailed, MetadataTaken, DirMade, FileStarted, ChunkTaken,
       FileFinished, EofTaken, CompleteTaken
  <2>2. NoComplete(wire) => NoComplete(wire')
    BY <2>1, ReadsType
  <2>3. QED BY <2>1, <2>2 DEF CompleteOK, daemonVars
<1>4. CASE LoseLink
  <2>1. NoComplete(wire) => NoComplete(wire')
    BY <1>1, <1>4, LinkLost, PartNoComplete
  <2>2. QED BY <1>4, <2>1 DEF CompleteOK, LoseLink, daemonVars
<1>5. CASE UNCHANGED vars
  BY <1>5 DEF CompleteOK, vars, daemonVars
<1>6. QED BY <1>2, <1>3, <1>4, <1>5 DEF Next, Terminated
-----------------------------------------------------------------------------
(* The stream.                                                              *)

(* A frame that is sent while the connection holds. *)
LEMMA FlowSent ==
    ASSUME TypeOK, FlowOK, Live, linkUp, linkUp', UNCHANGED <<cpc, received>>,
           NEW t, OneFrame(t), Joined(Stream, t, Stream'), MayFollow(Stream, t[1]),
           Stream = << >> => /\ At(t[1]) = received
                             /\ t[1].kind = "metadata" <=> cpc = "await_metadata"
                             /\ t[1].kind = "complete" <=> cpc = "await_complete",
           dpc' # "manifest",
           IF dpc' = "complete" THEN t[1].kind = "complete"
           ELSE t[1].kind \in {"metadata", "data"} /\ Past(t[1]) = sent'
    PROVE  FlowOK'
<1>1. Stream \in Seq(Unit) /\ Framed(Stream) /\ FirstOK(Stream) /\ Whole(Stream) /\ LastOK(Stream)
  BY StreamType DEF FlowOK
<1>2. Framed(Stream') /\ Whole(Stream')
  BY <1>1, AppendFrame
<1>3. /\ Stream' # << >>
      /\ Stream'[1] = IF Stream = << >> THEN t[1] ELSE Stream[1]
      /\ \A p \in 1 .. Len(Stream') : IsHead(Stream'[p]) /\ p + Stream'[p].len = Len(Stream') =>
            Stream'[p] = t[1]
  BY <1>1, AppendEnds
<1>4. FirstOK(Stream)'
  <2>1. CASE Stream = << >>
    BY <1>3, <2>1 DEF FirstOK, OneFrame
  <2>2. CASE Stream # << >>
    BY <1>1, <1>3, <2>2 DEF FirstOK
  <2>3. QED BY <2>1, <2>2
<1>5. LastOK(Stream)'
  BY <1>3 DEF LastOK
<1>6. QED BY <1>2, <1>4, <1>5 DEF FlowOK

(* What may be sent next. *)
LEMMA NextFrame ==
    ASSUME FlowOK, Live, linkUp, dpc \in {"next_file", "stream"},
           NEW h, IsHead(h), h.kind \in {"data", "eof"}, h.bytes = sent
    PROVE  /\ MayFollow(Stream, h)
           /\ Stream = << >> => /\ At(h) = received
                                /\ h.kind = "metadata" <=> cpc = "await_metadata"
                                /\ h.kind = "complete" <=> cpc = "await_complete"
<1>1. LastOK(Stream) /\ At(h) = sent
  BY DEF FlowOK, At
<1>2. ASSUME NEW p \in 1 .. Len(Stream), IsHead(Stream[p]), p + Stream[p].len = Len(Stream)
      PROVE  Follows(Stream[p], h)
  <2>1. Stream[p].kind \in {"metadata", "data"} /\ Past(Stream[p]) = sent
    BY <1>1, <1>2 DEF LastOK
  <2>2. QED BY <1>1, <2>1 DEF Follows
<1>3. MayFollow(Stream, h)
  BY <1>2 DEF MayFollow
<1>4. QED BY <1>1, <1>3 DEF LastOK

(* SendChunk continues the stream. *)
LEMMA FlowChunk ==
    ASSUME TypeOK, DaemonAt, FlowOK, SendChunk
    PROVE  FlowOK'
<1>1. PICK n \in 1 .. MaxChunk, t \in Seq(Unit) :
              /\ t = Chunk(didx, fileBytes + 1, n, sent)
              /\ sent' = sent + n
              /\ linkUp /\ linkUp' /\ Stream' = Stream \o t
  BY ChunkSent
<1>2. /\ dpc = "stream" /\ dpc' = "stream" /\ UNCHANGED <<cpc, received>>
      /\ didx \in Entry /\ sent \in Nat /\ fileBytes + 1 \in Nat \ {0} /\ n \in Nat \ {0}
  BY BoundAssumption DEF SendChunk, DaemonAt, TypeOK, clientVars
<1>3. OneFrame(t) /\ t[1] = Header("data", n, sent)
  BY <1>1, <1>2, ChunkFrame
<1>4. IsHead(t[1]) /\ t[1].kind = "data" /\ t[1].bytes = sent /\ t[1].len = n
  BY <1>3 DEF Header, IsHead
<1>5. Past(t[1]) = sent'
  BY <1>1, <1>4 DEF Past, At
<1>6. CASE ~Live
  BY <1>2, <1>6 DEF FlowOK, Live
<1>7. CASE Live
  <2>1. Joined(Stream, t, Stream')
    BY <1>1, StreamType, ConcatJoins
  <2>2. /\ MayFollow(Stream, t[1])
        /\ Stream = << >> => /\ At(t[1]) = received
                             /\ t[1].kind = "metadata" <=> cpc = "await_metadata"
                             /\ t[1].kind = "complete" <=> cpc = "await_complete"
    BY <1>1, <1>2, <1>4, <1>7, NextFrame
  <2>3. QED BY <1>1, <1>2, <1>3, <1>4, <1>5, <1>7, <2>1, <2>2, FlowSent
<1>8. QED BY <1>6, <1>7

(* PullBatchMetadata begins it. *)
LEMMA FlowMetadata ==
    ASSUME TypeOK, DaemonAt, ClientAt, FlowOK, MetadataSent, UNCHANGED <<linkUp, clientVars>>
    PROVE  FlowOK'
<1> DEFINE t == Json("metadata", TotalBytes)
<1>1. /\ dpc = "manifest" /\ dpc' = "next_file" /\ ToWire(t) /\ sent = 0 /\ sent' = 0
      /\ held = << >> /\ held' = << >> /\ UNCHANGED <<cpc, received, linkUp>>
  BY DEF MetadataSent, DaemonAt, clientVars
<1>2. TotalBytes \in Nat /\ JsonLen \in Nat
  BY ManifestAssumption, BaseSums, BoundAssumption DEF TotalBytes
<1>3. /\ t \in Seq(Unit) /\ t[1] = Header("metadata", JsonLen, TotalBytes)
      /\ IsHead(t[1]) /\ t[1].kind = "metadata"
  <2>1. t \in Seq(Unit) /\ t[1] = Header("metadata", JsonLen, TotalBytes)
    BY <1>2, JsonFrame
  <2>2. /\ IsHead(Header("metadata", JsonLen, TotalBytes))
        /\ Header("metadata", JsonLen, TotalBytes).kind = "metadata"
    BY DEF Header, IsHead
  <2>3. QED BY <2>1, <2>2
<1>4. OneFrame(t)
  BY <1>2, <1>3, JsonFrame DEF GoodHead
<1>5. At(t[1]) = 0 /\ Past(t[1]) = 0
  BY <1>3 DEF At, Past
<1> HIDE DEF t
<1>6. CASE ~Live
  BY <1>1, <1>6 DEF FlowOK, Live
<1>7. CASE Live /\ ~linkUp
  <2>1. Stream' = Stream
    BY <1>1, <1>7 DEF Stream, ToWire
  <2>2. QED BY <1>1, <1>7, <2>1 DEF FlowOK, FirstOK
<1>8. CASE Live /\ linkUp
  <2>1. wire \in Seq(Unit) /\ wire \o t \in Seq(Unit) /\ wire' = wire \o t
    BY <1>1, <1>3, <1>8, StreamType, ConcatProperties DEF ToWire
  <2>2. Stream = wire /\ Stream' = wire \o t
    BY <1>1, <1>8, <2>1, ConcatEmptySeq DEF Stream
  <2>3. Joined(Stream, t, Stream')
    BY <1>3, <2>1, <2>2, ConcatJoins
  <2>4. Stream = << >> /\ cpc = "await_metadata" /\ received = 0
    BY <1>1, <1>8 DEF FlowOK, LastOK, ClientAt
  <2>5. MayFollow(Stream, t[1])
    <3>1. 1 .. Len(Stream) = {}
      BY <2>4, EmptySeq
    <3>2. QED BY <3>1 DEF MayFollow
  <2>6. QED BY <1>1, <1>3, <1>4, <1>5, <1>8, <2>3, <2>4, <2>5, FlowSent
<1>9. QED BY <1>6, <1>7, <1>8

(* What the end appends, while the connection holds. *)
LEMMA EndJoined ==
    ASSUME TypeOK, linkUp, linkUp', EndSent
    PROVE  Stream' = (Stream \o <<Header("eof", 0, sent)>>) \o Json("complete", sent)
<1>1. wire \in Seq(Unit) /\ held \in Seq(Unit) /\ sent \in Nat /\ sent = TotalBytes
  BY StreamType DEF TypeOK, EndSent
<1>2. PICK e \in Seq(Unit) : e = <<Header("eof", 0, sent)>>
  BY <1>1, EofFrame
<1>3. PICK j \in Seq(Unit) : j = Json("complete", sent)
  BY <1>1, JsonFrame
<1>4. wire' = wire \o (held \o e \o j) /\ held' = << >>
  BY <1>2, <1>3 DEF EndSent, ToWire
<1>5. held \o e \in Seq(Unit)
  BY <1>1, ConcatProperties
<1>6. wire \o ((held \o e) \o j) = (wire \o (held \o e)) \o j
  BY <1>1, <1>5, UnitsAssociative
<1>7. wire \o (held \o e) = (wire \o held) \o e
  BY <1>1, UnitsAssociative
<1>8. wire' = ((wire \o held) \o e) \o j
  BY <1>4, <1>6, <1>7
<1>9. wire' \in Seq(Unit)
  BY <1>1, EndUnits, WireSent DEF EndSent
<1>10. wire' \o << >> = wire'
  BY <1>9, ConcatEmptySeq
<1>11. Stream' = wire' /\ Stream = wire \o held
  BY <1>4, <1>10 DEF Stream
<1>12. QED BY <1>2, <1>3, <1>8, <1>11

(* The EOF frame and PullBatchComplete behind the stream, one after the     *)
(* other.                                                                   *)
LEMMA EndFrames ==
    ASSUME TypeOK, FlowOK, Live, linkUp, linkUp', EndSent
    PROVE  \E e \in Seq(Unit), j \in Seq(Unit), u \in Seq(Unit) :
              /\ OneFrame(e) /\ IsHead(e[1]) /\ e[1].kind = "eof" /\ e[1].bytes = sent
              /\ OneFrame(j) /\ j[1].kind = "complete"
              /\ Joined(Stream, e, u) /\ Framed(u) /\ Whole(u) /\ MayFollow(u, j[1])
              /\ Joined(u, j, Stream')
<1>1. /\ dpc = "next_file" /\ sent \in Nat /\ sent = TotalBytes /\ JsonLen \in Nat
  BY BoundAssumption DEF EndSent, TypeOK
<1>2. PICK e \in Seq(Unit) : e = <<Header("eof", 0, sent)>> /\ OneFrame(e)
  BY <1>1, EofFrame
<1>3. e[1] = Header("eof", 0, sent)
  BY <1>2
<1>4. IsHead(e[1]) /\ e[1].kind = "eof" /\ e[1].bytes = sent /\ e[1].len = 0
  BY <1>3 DEF Header, IsHead
<1>5. PICK j \in Seq(Unit) : j = Json("complete", sent)
  BY <1>1, JsonFrame
<1>6. j[1] = Header("complete", JsonLen, sent)
  BY <1>1, <1>5, JsonFrame
<1>7. IsHead(j[1]) /\ j[1].kind = "complete" /\ j[1].bytes = sent
  BY <1>6 DEF Header, IsHead
<1>8. OneFrame(j)
  BY <1>1, <1>5, <1>6, <1>7, JsonFrame DEF GoodHead
<1>9. Follows(e[1], j[1])
  BY <1>1, <1>4, <1>7 DEF Follows, At, Past
<1>10. Stream \in Seq(Unit) /\ Framed(Stream) /\ Whole(Stream)
  BY StreamType DEF FlowOK
<1>11. PICK u \in Seq(Unit) : u = Stream \o e
  BY <1>10, ConcatProperties
<1>12. Joined(Stream, e, u)
  BY <1>10, <1>11, ConcatJoins
<1>13. MayFollow(Stream, e[1])
  BY <1>1, <1>4, NextFrame
<1>14. Framed(u) /\ Whole(u)
  BY <1>2, <1>10, <1>12, <1>13, AppendFrame
<1>15. \A p \in 1 .. Len(u) : IsHead(u[p]) /\ p + u[p].len = Len(u) => u[p] = e[1]
  BY <1>2, <1>10, <1>12, AppendEnds
<1>16. MayFollow(u, j[1])
  BY <1>9, <1>15 DEF MayFollow
<1>17. Stream' = u \o j
  BY <1>2, <1>5, <1>11, EndJoined
<1>18. Joined(u, j, Stream')
  BY <1>17, ConcatJoins
<1>19. QED BY <1>2, <1>4, <1>7, <1>8, <1>12, <1>14, <1>16, <1>18

(* They end it. *)
LEMMA FlowEnd ==
    ASSUME TypeOK, DaemonAt, FlowOK, EndSent, UNCHANGED <<linkUp, clientVars>>
    PROVE  FlowOK'
<1>1. /\ dpc = "next_file" /\ dpc' = "complete" /\ UNCHANGED <<cpc, received, linkUp>>
  BY DEF EndSent, clientVars
<1>2. CASE ~Live
  BY <1>1, <1>2 DEF FlowOK, Live
<1>3. CASE Live /\ ~linkUp
  <2>1. Stream' = Stream
    BY <1>1, <1>3 DEF Stream, EndSent, ToWire
  <2>2. QED BY <1>1, <1>3, <2>1 DEF FlowOK, FirstOK
<1>4. CASE Live /\ linkUp
  <2>1. PICK e \in Seq(Unit), j \in Seq(Unit), u \in Seq(Unit) :
              /\ OneFrame(e) /\ IsHead(e[1]) /\ e[1].kind = "eof" /\ e[1].bytes = sent
              /\ OneFrame(j) /\ j[1].kind = "complete"
              /\ Joined(Stream, e, u) /\ Framed(u) /\ Whole(u) /\ MayFollow(u, j[1])
              /\ Joined(u, j, Stream')
    BY <1>1, <1>4, EndFrames
  <2>2. Stream \in Seq(Unit) /\ FirstOK(Stream) /\ Whole(Stream)
    BY <1>4, StreamType DEF FlowOK
  <2>3. Stream = << >> => /\ At(e[1]) = received
                          /\ e[1].kind = "metadata" <=> cpc = "await_metadata"
                          /\ e[1].kind = "complete" <=> cpc = "await_complete"
    BY <1>1, <1>4, <2>1, NextFrame
  <2>4. u # << >> /\ u[1] = IF Stream = << >> THEN e[1] ELSE Stream[1]
    BY <2>1, <2>2, AppendEnds
  <2>5. Framed(Stream') /\ Whole(Stream')
    BY <2>1, AppendFrame
  <2>6. /\ Stream' # << >> /\ Stream'[1] = u[1]
        /\ \A p \in 1 .. Len(Stream') : IsHead(Stream'[p]) /\ p + Stream'[p].len = Len(Stream') =>
              Stream'[p] = j[1]
    BY <2>1, <2>4, AppendEnds
  <2>7. FirstOK(Stream)'
    <3>1. CASE Stream = << >>
      BY <1>1, <2>1, <2>3, <2>4, <2>6, <3>1 DEF FirstOK
    <3>2. CASE Stream # << >>
      BY <1>1, <2>2, <2>4, <2>6, <3>2 DEF FirstOK
    <3>3. QED BY <3>1, <3>2
  <2>8. LastOK(Stream)'
    BY <1>1, <2>1, <2>6 DEF LastOK
  <2>9. QED BY <2>5, <2>7, <2>8 DEF FlowOK
<1>5. QED BY <1>2, <1>3, <1>4

(* The other steps of the daemon send nothing. *)
LEMMA FlowQuietDaemon ==
    ASSUME FlowOK, UNCHANGED <<wire, held, linkUp, cpc, received, sent>>,
           dpc \in {"next_file", "stream"}, dpc' \in {"next_file", "stream"}
    PROVE  FlowOK'
<1>1. Stream' = Stream
  BY DEF Stream
<1>2. CASE ~Live
  BY <1>2 DEF FlowOK, Live
<1>3. CASE Live
  <2>1. Framed(Stream) /\ FirstOK(Stream) /\ (linkUp => Whole(Stream) /\ LastOK(Stream))
    BY <1>3 DEF FlowOK
  <2>2. FirstOK(Stream)'
    BY <1>1, <2>1 DEF FirstOK
  <2>3. LastOK(Stream) => LastOK(Stream)'
    BY <1>1 DEF LastOK
  <2>4. QED BY <1>1, <2>1, <2>2, <2>3 DEF FlowOK
<1>4. QED BY <1>2, <1>3

(* A frame that the client takes as it should. *)
LEMMA FlowRead ==
    ASSUME TypeOK, FlowOK, Live, Reads, UNCHANGED <<linkUp, daemonVars>>,
           received' = Past(Stream[1]),
           Stream[1].kind \in {"metadata", "data"} => cpc' \in {"entry", "write"},
           Stream[1].kind = "eof" => cpc' = "await_complete",
           Stream[1].kind \in {"metadata", "data", "eof"}
    PROVE  FlowOK'
<1>1. PICK m \in Nat :
              /\ m = Stream[1].len + 1 /\ Behind(Stream, m, Stream')
              /\ Stream # << >> /\ IsHead(Stream[1])
  BY FrameRead DEF Reads, daemonVars
<1>2. Stream \in Seq(Unit) /\ Framed(Stream) /\ (linkUp => Whole(Stream) /\ LastOK(Stream))
  BY StreamType DEF FlowOK
<1>3. Framed(Stream') /\ (Whole(Stream) => Whole(Stream'))
  BY <1>1, <1>2, TakeFrame
<1>4. /\ Stream' # << >> => Follows(Stream[1], Stream'[1])
      /\ Stream' = << >> => 1 + Stream[1].len = Len(Stream)
      /\ \A p \in 1 .. Len(Stream') : IsHead(Stream'[p]) /\ p + Stream'[p].len = Len(Stream') =>
            \E r \in 1 .. Len(Stream) : /\ Stream[r] = Stream'[p] /\ IsHead(Stream[r])
                                        /\ r + Stream[r].len = Len(Stream)
  BY <1>1, <1>2, TakeEnds
<1>5. FirstOK(Stream)'
  BY <1>4 DEF FirstOK, Follows
<1>6. ASSUME linkUp
      PROVE  LastOK(Stream)'
  <2>1. LastOK(Stream) /\ UNCHANGED <<dpc, sent>> /\ dpc # "manifest"
    BY <1>1, <1>2, <1>6 DEF LastOK, daemonVars
  <2>2. ASSUME Stream' = << >>
        PROVE  /\ dpc' \in {"next_file", "stream"} /\ cpc' \in {"entry", "write"}
               /\ received' = sent'
    <3>1. 1 \in 1 .. Len(Stream) /\ 1 + Stream[1].len = Len(Stream)
      <4>1. Len(Stream) \in Nat \ {0}
        BY <1>1, <1>2, EmptySeq
      <4>2. QED BY <1>4, <2>2, <4>1
    <3>2. IF dpc = "complete" THEN Stream[1].kind = "complete"
          ELSE Stream[1].kind \in {"metadata", "data"} /\ Past(Stream[1]) = sent
      BY <1>1, <2>1, <3>1 DEF LastOK
    <3>3. dpc # "complete"
      BY <3>2
    <3>4. dpc \in {"next_file", "stream"}
      BY <2>1, <3>3 DEF Live, TypeOK, DaemonEnds
    <3>5. QED BY <2>1, <3>2, <3>3, <3>4
  <2>3. ASSUME NEW p \in 1 .. Len(Stream'), IsHead(Stream'[p]), p + Stream'[p].len = Len(Stream')
        PROVE  IF dpc' = "complete" THEN Stream'[p].kind = "complete"
               ELSE Stream'[p].kind \in {"metadata", "data"} /\ Past(Stream'[p]) = sent'
    BY <1>4, <2>1, <2>3 DEF LastOK
  <2>4. QED BY <2>1, <2>2, <2>3 DEF LastOK
<1>7. QED BY <1>2, <1>3, <1>5, <1>6 DEF FlowOK

(* The steps in which it reads nothing. *)
LEMMA FlowQuietClient ==
    ASSUME FlowOK, UNCHANGED <<wire, linkUp, daemonVars, received>>,
           cpc \in {"entry", "write"}, cpc' \in {"entry", "write"}
    PROVE  FlowOK'
<1>1. Stream' = Stream /\ UNCHANGED <<dpc, sent>>
  BY DEF Stream, daemonVars
<1>2. CASE ~Live
  BY <1>1, <1>2 DEF FlowOK, Live, ClientEnds
<1>3. CASE Live
  <2>1. Framed(Stream) /\ FirstOK(Stream) /\ (linkUp => Whole(Stream) /\ LastOK(Stream))
    BY <1>3 DEF FlowOK
  <2>2. FirstOK(Stream)'
    BY <1>1, <2>1 DEF FirstOK
  <2>3. LastOK(Stream) => LastOK(Stream)'
    BY <1>1 DEF LastOK
  <2>4. QED BY <1>1, <2>1, <2>2, <2>3 DEF FlowOK
<1>4. QED BY <1>2, <1>3

(* While the daemon has not failed, the first frame is one of those that    *)
(* the client may expect, where it expects it.                              *)
LEMMA FirstFrame ==
    ASSUME TypeOK, FlowOK, Live, Stream # << >>
    PROVE  /\ IsHead(Stream[1]) /\ GoodHead(Stream[1]) /\ At(Stream[1]) = received
           /\ Stream[1].kind = "metadata" <=> cpc = "await_metadata"
           /\ Stream[1].kind = "complete" <=> cpc = "await_complete"
           /\ cpc \notin {"await_metadata", "await_complete"} => Stream[1].kind \in {"data", "eof"}
<1>1. Stream \in Seq(Unit) /\ Framed(Stream) /\ FirstOK(Stream)
  BY StreamType DEF FlowOK
<1>2. 1 \in 1 .. Len(Stream)
  BY <1>1, EmptySeq
<1>3. IsHead(Stream[1]) /\ FrameAt(Stream, 1)
  BY <1>1, <1>2 DEF FirstOK, Framed
<1>4. QED BY <1>1, <1>3 DEF FirstOK, FrameAt, GoodHead

(* Every step keeps the stream in order. *)
LEMMA FlowStep ==
    ASSUME TypeOK, DaemonAt, ClientAt, FlowOK, [Next]_vars
    PROVE  FlowOK'
<1>1. CASE Daemon
  <2>0. /\ UNCHANGED <<linkUp, clientVars>> /\ UNCHANGED <<cpc, received>>
        /\ \/ DaemonFail
           \/ MetadataSent \/ SkipDir \/ FileOpened \/ SendChunk \/ FileStreamed \/ EndSent
    BY <1>1, DaemonOutcome DEF clientVars
  <2>1. CASE DaemonFail
    BY <2>1 DEF DaemonFail, FlowOK, Live
  <2>2. CASE SkipDir \/ FileOpened \/ FileStreamed
    BY <2>0, <2>2, FlowQuietDaemon DEF SkipDir, FileOpened, FileStreamed
  <2>3. QED BY <2>0, <2>1, <2>2, FlowMetadata, FlowChunk, FlowEnd
<1>2. CASE Client
  <2>0. /\ UNCHANGED <<linkUp, daemonVars>>
        /\ \/ ClientFailed \/ MetadataTaken \/ DirMade \/ FileStarted \/ ChunkTaken
           \/ FileFinished \/ EofTaken \/ CompleteTaken
    BY <1>2, ClientOutcome
  <2>1. CASE ClientFailed \/ CompleteTaken
    BY <2>1 DEF ClientFailed, CompleteTaken, FlowOK, Live, ClientEnds
  <2>2. CASE DirMade \/ FileStarted \/ FileFinished
    BY <2>0, <2>2, FlowQuietClient DEF DirMade, FileStarted, FileFinished
  <2>3. CASE MetadataTaken \/ ChunkTaken \/ EofTaken
    <3>1. CASE ~Live
      BY <2>0, <2>3, <3>1 DEF FlowOK, Live, ClientEnds, daemonVars, MetadataTaken, ChunkTaken, EofTaken
    <3>2. CASE Live
      <4>1. Reads /\ Head(wire) = Stream[1] /\ Stream # << >>
        BY <2>0, <2>3, FrameRead DEF Reads, daemonVars, MetadataTaken, ChunkTaken, EofTaken
      <4>2. At(Stream[1]) = received
        BY <3>2, <4>1, FirstFrame
      <4>3. CASE MetadataTaken
        <5>1. Stream[1].kind = "metadata" /\ Past(Stream[1]) = received /\ received' = received
          BY <2>0, <4>1, <4>2, <4>3, ReadsType DEF MetadataTaken, Past, TypeOK
        <5>2. QED BY <2>0, <3>2, <4>1, <4>3, <5>1, FlowRead DEF MetadataTaken
      <4>4. CASE ChunkTaken
        <5>1. Stream[1].kind = "data" /\ received' = received + Stream[1].len
          BY <4>1, <4>4 DEF ChunkTaken
        <5>2. received' = Past(Stream[1])
          BY <4>2, <5>1 DEF Past
        <5>3. QED BY <2>0, <3>2, <4>1, <4>4, <5>1, <5>2, FlowRead DEF ChunkTaken
      <4>5. CASE EofTaken
        <5>1. Stream[1].kind = "eof" /\ Past(Stream[1]) = received /\ received' = received
          BY <2>0, <4>1, <4>2, <4>5, ReadsType DEF EofTaken, Past, TypeOK
        <5>2. QED BY <2>0, <3>2, <4>1, <4>5, <5>1, FlowRead DEF EofTaken
      <4>6. QED BY <2>3, <4>3, <4>4, <4>5
    <3>3. QED BY <3>1, <3>2
  <2>4. QED BY <2>0, <2>1, <2>2, <2>3
<1>3. CASE LoseLink
  <2>1. UNCHANGED <<cpc, received, dpc>> /\ ~linkUp'
    BY <1>3 DEF LoseLink, daemonVars, clientVars
  <2>2. CASE ~Live
    BY <2>1, <2>2 DEF FlowOK, Live
  <2>3. CASE Live
    <3>1. Stream \in Seq(Unit) /\ Framed(Stream) /\ FirstOK(Stream) /\ Begins(Stream', Stream)
      BY <1>3, <2>3, StreamType, LinkLost DEF FlowOK
    <3>2. Framed(Stream') /\ (Stream' # << >> => Stream # << >> /\ Stream'[1] = Stream[1])
      BY <3>1, CutFrames
    <3>3. FirstOK(Stream)'
      BY <2>1, <3>1, <3>2 DEF FirstOK
    <3>4. QED BY <2>1, <3>2, <3>3 DEF FlowOK
  <2>4. QED BY <2>2, <2>3
<1>4. CASE UNCHANGED vars
  <2>1. Stream' = Stream /\ UNCHANGED <<cpc, received, dpc, sent, linkUp>>
    BY <1>4 DEF vars, daemonVars, clientVars, Stream
  <2>2. QED BY <2>1 DEF FlowOK, FirstOK, LastOK, Live
<1>5. QED BY <1>1, <1>2, <1>3, <1>4 DEF Next, Terminated
-----------------------------------------------------------------------------
(* The places of the bytes.                                                 *)

(* A file that has outgrown its size stays so until the daemon fails. *)
LEMMA IntactBefore ==
    ASSUME TypeOK, DaemonAt, [Next]_vars, Intact'
    PROVE  Intact
<1>1. CASE UNCHANGED daemonVars
  BY <1>1 DEF Intact, daemonVars
<1>2. CASE Daemon
  <2>0. \/ DaemonFail
        \/ MetadataSent \/ SkipDir \/ FileOpened \/ SendChunk \/ FileStreamed \/ EndSent
    BY <1>2, DaemonOutcome
  <2>1. CASE DaemonFail
    BY <2>1 DEF DaemonFail, Intact
  <2>2. CASE MetadataSent \/ SkipDir \/ FileOpened \/ EndSent
    BY <2>2 DEF MetadataSent, SkipDir, FileOpened, EndSent, Intact
  <2>3. CASE SendChunk
    <3>1. PICK n \in 1 .. MaxChunk : fileBytes' = fileBytes + n
      BY <2>3, ChunkSent
    <3>2. dpc = "stream" /\ dpc' = "stream" /\ didx' = didx /\ didx \in Entry
      BY <2>3 DEF SendChunk, DaemonAt
    <3>3. fileBytes \in Nat /\ Size[didx] \in Nat /\ MaxChunk \in Nat
      BY <3>2, BaseFacts, BoundAssumption DEF TypeOK
    <3>4. fileBytes + n <= Size[didx]
      BY <3>1, <3>2, <3>3 DEF Intact
    <3>5. ~(fileBytes > Size[didx])
      BY <3>3, <3>4
    <3>6. QED BY <3>2, <3>5 DEF Intact
  <2>4. CASE FileStreamed
    <3>1. dpc = "stream" /\ didx \in Entry /\ fileBytes = Size[didx]
      BY <2>4 DEF FileStreamed, DaemonAt
    <3>2. QED BY <3>1, BaseFacts DEF Intact
  <2>5. QED BY <2>0, <2>1, <2>2, <2>3, <2>4
<1>3. CASE Client
  BY <1>1, <1>3, ClientOutcome
<1>4. QED BY <1>1, <1>2, <1>3 DEF Next, LoseLink, Terminated, vars

(* Every step keeps the bytes in their places. *)
LEMMA PlacedStep ==
    ASSUME TypeOK, DaemonAt, ClientAt, FlowOK, PlacedOK, [Next]_vars
    PROVE  PlacedOK'
<1> SUFFICES ASSUME Live', Intact'
             PROVE  Placed(Stream')
  BY DEF PlacedOK
<1>0. Intact
  BY IntactBefore
<1>1. Stream \in Seq(Unit) /\ dpc # "failed"
  BY <1>0, StreamType DEF Intact
<1>2. ASSUME Live
      PROVE  Placed(Stream) /\ Framed(Stream) /\ (linkUp => Whole(Stream) /\ LastOK(Stream))
  BY <1>0, <1>2 DEF PlacedOK, FlowOK
<1>3. CASE Daemon
  <2>0. /\ UNCHANGED <<linkUp, clientVars>> /\ UNCHANGED cpc
        /\ \/ DaemonFail
           \/ MetadataSent \/ SkipDir \/ FileOpened \/ SendChunk \/ FileStreamed \/ EndSent
    BY <1>3, DaemonOutcome DEF clientVars
  <2>1. Live
    BY <1>1, <2>0 DEF Live
  <2>2. CASE DaemonFail
    BY <2>2 DEF DaemonFail, Live
  <2>3. CASE SkipDir \/ FileOpened \/ FileStreamed
    <3>1. Stream' = Stream
      BY <2>0, <2>3 DEF Stream, SkipDir, FileOpened, FileStreamed
    <3>2. QED BY <1>2, <2>1, <3>1
  <2>4. CASE SendChunk
    <3>1. PICK n \in 1 .. MaxChunk, t \in Seq(Unit) :
              /\ t = Chunk(didx, fileBytes + 1, n, sent)
              /\ fileBytes' = fileBytes + n
              /\ linkUp /\ linkUp' /\ Stream' = Stream \o t
      BY <2>4, ChunkSent
    <3>2. /\ dpc = "stream" /\ dpc' = "stream" /\ didx' = didx /\ didx \in Entry
          /\ sent = Base[didx] + fileBytes
          /\ sent \in Nat /\ fileBytes \in Nat /\ n \in Nat \ {0}
      BY <2>4, BoundAssumption DEF SendChunk, DaemonAt, TypeOK
    <3>3. PICK b \in Nat, z \in Nat : b = Base[didx] /\ z = Size[didx]
      BY <3>2, BaseFacts
    <3>4. fileBytes + n <= z
      BY <3>1, <3>2, <3>3 DEF Intact
    <3>5. sent = b + (fileBytes + 1) - 1 /\ sent + n <= b + z /\ fileBytes + 1 \in Nat \ {0}
      BY <3>2, <3>3, <3>4
    <3>6. sent = Base[didx] + (fileBytes + 1) - 1 /\ sent + n <= Base[didx] + Size[didx]
      BY <3>3, <3>5
    <3>7. OneFrame(t) /\ PieceOf(t, 1, didx)
      BY <3>1, <3>2, <3>5, <3>6, ChunkFrame
    <3>8. Joined(Stream, t, Stream')
      BY <1>1, <3>1, ConcatJoins
    <3>9. QED BY <1>1, <1>2, <2>1, <3>1, <3>2, <3>7, <3>8, AppendPlaced
  <2>5. CASE MetadataSent \/ EndSent
    <3>1. CASE ~linkUp
      <4>1. Stream' = Stream
        BY <2>0, <2>5, <3>1 DEF Stream, MetadataSent, EndSent, ToWire
      <4>2. QED BY <1>2, <2>1, <4>1
    <3>2. CASE MetadataSent /\ linkUp
      <4>0. TotalBytes \in Nat
        BY ManifestAssumption, BaseSums DEF TotalBytes
      <4>1. PICK t \in Seq(Unit) : t = Json("metadata", TotalBytes)
        BY <4>0, JsonFrame
      <4>2. t[1] = Header("metadata", JsonLen, TotalBytes)
        BY <4>0, <4>1, JsonFrame
      <4>3. IsHead(t[1]) /\ t[1].kind = "metadata"
        BY <4>2 DEF Header, IsHead
      <4>4. OneFrame(t)
        BY <4>0, <4>1, <4>2, <4>3, JsonFrame DEF GoodHead
      <4>5. wire \in Seq(Unit) /\ wire' = wire \o t /\ held = << >> /\ held' = << >>
        BY <3>2, <4>1, StreamType DEF MetadataSent, ToWire, DaemonAt
      <4>6. wire \o t \in Seq(Unit)
        BY <4>5, ConcatProperties
      <4>7. Stream = wire /\ Stream' = wire \o t
        BY <2>0, <3>2, <4>5, <4>6, ConcatEmptySeq DEF Stream
      <4>8. Joined(Stream, t, Stream')
        BY <4>5, <4>7, ConcatJoins
      <4>9. QED BY <1>1, <1>2, <2>1, <3>2, <4>3, <4>4, <4>8, AppendPlaced
    <3>3. CASE EndSent /\ linkUp
      <4>1. PICK e \in Seq(Unit), j \in Seq(Unit), u \in Seq(Unit) :
              /\ OneFrame(e) /\ e[1].kind = "eof"
              /\ OneFrame(j) /\ j[1].kind = "complete"
              /\ Joined(Stream, e, u) /\ Whole(u)
              /\ Joined(u, j, Stream')
        BY <2>0, <2>1, <3>3, EndFrames
      <4>2. Placed(u)
        BY <1>1, <1>2, <2>1, <3>3, <4>1, AppendPlaced
      <4>3. QED BY <4>1, <4>2, AppendPlaced
    <3>4. QED BY <2>5, <3>1, <3>2, <3>3
  <2>6. QED BY <2>0, <2>2, <2>3, <2>4, <2>5
<1>4. CASE Client
  <2>1. /\ UNCHANGED <<linkUp, daemonVars>> /\ (UNCHANGED wire \/ Reads)
        /\ cpc \notin ClientEnds
    BY <1>4, ClientOutcome DEF ClientFailed, MetadataTaken, DirMade, FileStarted, ChunkTaken,
       FileFinished, EofTaken, CompleteTaken, ClientEnds
  <2>2. Live
    BY <1>1, <2>1 DEF Live
  <2>3. CASE UNCHANGED wire
    <3>1. Stream' = Stream
      BY <2>1, <2>3 DEF Stream, daemonVars
    <3>2. QED BY <1>2, <2>2, <3>1
  <2>4. CASE Reads
    <3>1. PICK m \in Nat : Behind(Stream, m, Stream')
      BY <2>1, <2>4, FrameRead DEF Reads, daemonVars
    <3>2. QED BY <1>1, <1>2, <2>2, <3>1, TakeFrame
  <2>5. QED BY <2>1, <2>3, <2>4
<1>5. CASE LoseLink
  <2>1. Live /\ Begins(Stream', Stream)
    BY <1>1, <1>5, LinkLost DEF Live, LoseLink, clientVars
  <2>2. QED BY <1>1, <1>2, <2>1, CutFrames
<1>6. CASE UNCHANGED vars
  <2>1. Stream' = Stream /\ Live
    BY <1>1, <1>6 DEF Stream, vars, daemonVars, clientVars, Live
  <2>2. QED BY <1>2, <2>1
<1>7. QED BY <1>3, <1>4, <1>5, <1>6 DEF Next, Terminated

(* While nothing has gone wrong, a data frame lies within the files, and    *)
(* the one that the client reads into a file is a piece of that file.       *)
LEMMA DataInPlace ==
    ASSUME TypeOK, ClientAt, FlowOK, PlacedOK, Live, Intact,
           Stream # << >>, Stream[1].kind = "data"
    PROVE  /\ Stream[1].bytes = received /\ Stream[1].len \in Nat /\ Stream[1].len >= 1
           /\ received + Stream[1].len <= TotalBytes
           /\ cpc = "write" /\ remaining > 0 =>
                 PieceOf(Stream, 1, cidx) /\ Stream[1].len <= remaining
<1>1. Stream \in Seq(Unit) /\ Placed(Stream) /\ received \in Nat /\ remaining \in Nat
  BY StreamType DEF PlacedOK, TypeOK
<1>2. 1 \in 1 .. Len(Stream)
  BY <1>1, EmptySeq
<1>3. IsHead(Stream[1]) /\ GoodHead(Stream[1]) /\ At(Stream[1]) = received
  BY FirstFrame
<1>4. Stream[1] \in Unit
  BY <1>1, <1>2, ElementOfSeq
<1>5. Stream[1].bytes = received
  BY <1>3 DEF At
<1>6. PICK l \in Nat : l = Stream[1].len /\ l >= 1
  <2>1. Stream[1].len \in Nat
    BY <1>3, <1>4, UnitType
  <2>2. Stream[1].len >= 1
    BY <1>3 DEF GoodHead
  <2>3. QED BY <2>1, <2>2
<1>7. PICK f \in Entry : PieceOf(Stream, 1, f)
  BY <1>1, <1>2, <1>3 DEF Placed
<1>8. PICK b \in Nat, z \in Nat : b = Base[f] /\ z = Size[f] /\ b + z <= TotalBytes /\ TotalBytes \in Nat
  BY BaseFacts
<1>9. b <= received /\ received + l <= b + z
  BY <1>5, <1>6, <1>7, <1>8 DEF PieceOf
<1>10. received + l <= TotalBytes
  BY <1>1, <1>8, <1>9
<1>11. ASSUME cpc = "write", remaining > 0
       PROVE  PieceOf(Stream, 1, cidx) /\ l <= remaining
  <2>1. /\ cidx \in Entry /\ received + remaining = Base[cidx] + Size[cidx]
        /\ Len(disk[cidx]) = Size[cidx] - remaining
    BY <1>11 DEF ClientAt
  <2>2. PICK c \in Nat, s \in Nat : c = Base[cidx] /\ s = Size[cidx]
    BY <2>1, BaseFacts
  <2>3. Len(disk[cidx]) \in Nat
    <3>1. disk[cidx] \in Seq(SourceByte \cup {Junk})
      BY <2>1 DEF TypeOK
    <3>2. QED BY <3>1, LenProperties
  <2>4. PICK d \in Nat : d = s - remaining
    BY <2>1, <2>2, <2>3
  <2>5. received + remaining = c + s
    BY <2>1, <2>2
  <2>6. c <= received /\ received < c + s /\ received < b + z
    BY <1>1, <1>6, <1>9, <1>11, <2>4, <2>5
  <2>7. f = cidx
    BY <1>1, <1>8, <1>9, <2>1, <2>2, <2>6, OnePlace
  <2>8. b = c /\ z = s
    BY <1>8, <2>2, <2>7
  <2>9. l <= remaining
    BY <1>1, <1>9, <2>5, <2>8
  <2>10. QED BY <1>7, <2>7, <2>9
<1>12. QED BY <1>5, <1>6, <1>10, <1>11
-----------------------------------------------------------------------------
(* The local files.                                                         *)

(* receive_local_batch: what it writes are the bytes of the file it has     *)
(* open, at their places.                                                   *)
LEMMA ChunkInPlace ==
    ASSUME TypeOK, ClientAt, FlowOK, PlacedOK, FilesOK, Live, Intact, ChunkTaken,
           UNCHANGED <<linkUp, daemonVars>>
    PROVE  \A k \in 1 .. Len(disk'[cidx]) : disk'[cidx][k] = <<cidx, k>>
<1>1. PICK l \in Nat, d \in Nat :
              /\ l = Stream[1].len /\ d = Len(disk[cidx]) /\ cidx \in Entry
              /\ Len(disk'[cidx]) = d + l
              /\ \A k \in 1 .. d : disk'[cidx][k] = disk[cidx][k]
              /\ \A k \in 1 .. l : disk'[cidx][d + k] =
                    IF Stream[k + 1].unit = "byte" THEN Stream[k + 1].byte ELSE Junk
  BY ChunkWritten
<1>2. cpc = "write" /\ remaining > 0 /\ Reads /\ Head(wire).kind = "data"
  BY DEF ChunkTaken
<1>3. PICK m \in Nat : m = l + 1 /\ m <= Len(Stream) /\ Stream # << >> /\ Head(wire) = Stream[1]
  BY <1>1, <1>2, FrameRead DEF Reads, daemonVars
<1>4. Stream[1].kind = "data"
  BY <1>2, <1>3
<1>5. Stream[1].bytes = received /\ PieceOf(Stream, 1, cidx)
  BY <1>2, <1>3, <1>4, DataInPlace
<1>6. PICK n \in Nat : n = Len(Stream) /\ l + 1 <= n
  BY <1>3, StreamType, LenProperties
<1>7. FrameAt(Stream, 1)
  <2>1. IsHead(Stream[1]) /\ Framed(Stream)
    BY <1>3, FirstFrame DEF FlowOK
  <2>2. 1 \in 1 .. n
    BY <1>6
  <2>3. QED BY <1>6, <2>1, <2>2 DEF Framed
<1>8. PICK b \in Nat, z \in Nat : b = Base[cidx] /\ z = Size[cidx]
  BY <1>1, BaseFacts
<1>9. d = received - b
  <2>1. received + remaining = b + z /\ d = z - remaining
    BY <1>1, <1>2, <1>8 DEF ClientAt
  <2>2. received \in Nat /\ remaining \in Nat
    BY DEF TypeOK
  <2>3. QED BY <2>1, <2>2
<1>10. ASSUME NEW k \in 1 .. l
       PROVE  disk'[cidx][d + k] = <<cidx, d + k>>
  <2>1. PICK q \in 1 .. n : q = k + 1
    BY <1>6
  <2>2. 1 < q /\ q <= 1 + l /\ q - 1 = k
    BY <2>1
  <2>3. Stream[q].unit = "byte"
    BY <1>1, <1>6, <1>7, <2>2 DEF FrameAt
  <2>4. Stream[q].byte = <<cidx, (received - b) + (q - 1)>>
    BY <1>1, <1>5, <1>6, <1>8, <2>2 DEF PieceOf
  <2>5. QED BY <1>1, <1>9, <2>1, <2>2, <2>3, <2>4
<1>11. \A k \in 1 .. d : disk[cidx][k] = <<cidx, k>>
  BY <1>1, <1>2 DEF FilesOK, Live
<1>12. ASSUME NEW k \in 1 .. d + l
       PROVE  disk'[cidx][k] = <<cidx, k>>
  <2>1. CASE k <= d
    BY <1>1, <1>11, <2>1
  <2>2. CASE k > d
    <3>1. k - d \in 1 .. l /\ d + (k - d) = k
      BY <2>2
    <3>2. QED BY <1>10, <3>1
  <2>3. QED BY <2>1, <2>2
<1>13. QED BY <1>1, <1>12

(* A file that has all its bytes in their places is as announced. *)
LEMMA AllInPlace ==
    ASSUME NEW i \in Entry, NEW s \in Seq(SourceByte \cup {Junk}), Len(s) = Size[i],
           \A k \in 1 .. Len(s) : s[k] = <<i, k>>
    PROVE  s = Announced(i)
<1>1. PICK z \in Nat : z = Size[i]
  BY BaseFacts
<1>2. \A k \in 1 .. z : <<i, k>> \in SourceByte \cup {Junk}
  BY DEF SourceByte
<1>3. Announced(i) \in [1 .. z -> SourceByte \cup {Junk}]
  BY <1>1, <1>2 DEF Announced
<1>4. Announced(i) \in Seq(SourceByte \cup {Junk}) /\ Len(Announced(i)) = z
  BY <1>3
<1>5. \A k \in 1 .. z : Announced(i)[k] = <<i, k>>
  BY <1>1 DEF Announced
<1>6. QED BY <1>1, <1>4, <1>5, SeqEqual

(* Every step keeps the files right. *)
LEMMA FilesStep ==
    ASSUME TypeOK, DaemonAt, ClientAt, CompleteOK, FlowOK, PlacedOK, FilesOK, [Next]_vars
    PROVE  FilesOK'
<1>1. Intact' => Intact
  BY IntactBefore
<1>2. CASE UNCHANGED clientVars
  BY <1>1, <1>2 DEF FilesOK, clientVars
<1>3. CASE Client
  <2>0. /\ UNCHANGED <<linkUp, daemonVars>>
        /\ \/ ClientFailed \/ MetadataTaken \/ DirMade \/ FileStarted \/ ChunkTaken
           \/ FileFinished \/ EofTaken \/ CompleteTaken
    BY <1>3, ClientOutcome
  <2>1. /\ cidx \in 1 .. N + 1 /\ N \in Nat
        /\ disk \in [Entry -> Seq(SourceByte \cup {Junk})]
    BY ManifestAssumption DEF TypeOK
  <2>2. CASE ClientFailed
    BY <2>2 DEF ClientFailed, FilesOK, ClientEnds
  <2>3. CASE MetadataTaken \/ EofTaken
    BY <1>1, <2>3 DEF MetadataTaken, EofTaken, FilesOK, ClientEnds
  <2>4. CASE DirMade
    <3>1. \A i \in Entry : Kind[i] = "file" /\ i < cidx + 1 => i < cidx
      BY <2>1, <2>4 DEF DirMade, Entry
    <3>2. QED BY <1>1, <2>4, <3>1 DEF DirMade, FilesOK, ClientEnds
  <2>5. CASE FileStarted
    <3>1. cidx \in Entry
      BY <2>1, <2>5 DEF FileStarted, Entry
    <3>2. disk'[cidx] = << >> /\ \A i \in Entry : i # cidx => disk'[i] = disk[i]
      BY <2>1, <2>5, <3>1 DEF FileStarted
    <3>3. 1 .. Len(disk'[cidx]) = {}
      BY <3>2, EmptySeq
    <3>4. \A i \in Entry : i < cidx => i # cidx
      BY <2>1 DEF Entry
    <3>5. QED BY <1>1, <2>5, <3>2, <3>3, <3>4 DEF FileStarted, FilesOK, ClientEnds
  <2>6. CASE ChunkTaken
    <3> SUFFICES ASSUME Intact'
                 PROVE  /\ \A i \in Entry : Kind[i] = "file" /\ i < cidx => disk'[i] = Announced(i)
                        /\ \A k \in 1 .. Len(disk'[cidx]) : disk'[cidx][k] = <<cidx, k>>
      BY <2>6 DEF ChunkTaken, FilesOK
    <3>1. Intact /\ Live
      BY <1>1, <2>6 DEF Intact, Live, ChunkTaken, ClientEnds
    <3>2. \A i \in Entry : i # cidx => disk'[i] = disk[i]
      BY <2>0, <2>6, ChunkWritten
    <3>3. \A i \in Entry : i < cidx => i # cidx
      BY <2>1 DEF Entry
    <3>4. \A i \in Entry : Kind[i] = "file" /\ i < cidx => disk[i] = Announced(i)
      BY <3>1 DEF FilesOK, Live
    <3>5. \A k \in 1 .. Len(disk'[cidx]) : disk'[cidx][k] = <<cidx, k>>
      BY <2>0, <2>6, <3>1, ChunkInPlace
    <3>6. QED BY <3>2, <3>3, <3>4, <3>5
  <2>7. CASE FileFinished
    <3> SUFFICES ASSUME Intact', NEW i \in Entry, Kind[i] = "file", i < cidx + 1
                 PROVE  disk[i] = Announced(i)
      BY <2>7 DEF FileFinished, FilesOK
    <3>1. /\ Intact /\ cpc = "write" /\ remaining = 0 /\ cidx \in Entry
          /\ Len(disk[cidx]) = Size[cidx] - 0 /\ cpc \notin ClientEnds
      BY <1>1, <2>7 DEF FileFinished, ClientAt, ClientEnds
    <3>2. CASE i < cidx
      BY <3>1, <3>2 DEF FilesOK
    <3>3. CASE i = cidx
      <4>1. \A k \in 1 .. Len(disk[i]) : disk[i][k] = <<i, k>>
        BY <3>1, <3>3 DEF FilesOK
      <4>2. Len(disk[i]) = Size[i] /\ disk[i] \in Seq(SourceByte \cup {Junk})
        BY <2>1, <3>1, <3>3, BaseFacts
      <4>3. QED BY <4>1, <4>2, AllInPlace
    <3>4. QED BY <2>1, <3>2, <3>3 DEF Entry
  <2>8. CASE CompleteTaken
    <3>1. wire \in Seq(Unit) /\ wire # << >> /\ Head(wire) = wire[1] /\ IsHead(wire[1])
      BY <2>0, <2>8, ReadsType, StreamType DEF CompleteTaken
    <3>2. 1 \in 1 .. Len(wire)
      BY <3>1, EmptySeq
    <3>3. dpc = "complete"
      BY <2>8, <3>1, <3>2 DEF CompleteTaken, CompleteOK, NoComplete
    <3>4. Intact /\ cpc \notin ClientEnds /\ cidx = N + 1
      BY <2>8, <3>3 DEF CompleteTaken, Intact, ClientEnds, ClientAt
    <3>5. \A i \in Entry : i < cidx
      BY <2>1, <3>4 DEF Entry
    <3>6. \A i \in Entry : Kind[i] = "file" => disk[i] = Announced(i)
      BY <3>4, <3>5 DEF FilesOK
    <3>7. QED BY <2>8, <3>6 DEF CompleteTaken, FilesOK, ClientEnds
  <2>9. QED BY <2>0, <2>2, <2>3, <2>4, <2>5, <2>6, <2>7, <2>8
<1>4. CASE Daemon
  BY <1>2, <1>4, DaemonOutcome
<1>5. QED BY <1>2, <1>3, <1>4 DEF Next, LoseLink, Terminated, vars

(* Only a daemon that fails ends up among the bytes of a file. *)
LEMMA JunkStep ==
    ASSUME TypeOK, DaemonAt, ClientAt, FlowOK, JunkOK, [Next]_vars
    PROVE  JunkOK'
<1> SUFFICES ASSUME dpc' # "failed"
             PROVE  \A i \in Entry : disk'[i] \in Seq(SourceByte)
  BY DEF JunkOK
<1>1. CASE Daemon
  <2>1. UNCHANGED disk /\ dpc # "failed"
    BY <1>1, DaemonOutcome DEF clientVars, DaemonFail, MetadataSent, SkipDir, FileOpened, SendChunk,
       FileStreamed, EndSent
  <2>2. QED BY <2>1 DEF JunkOK
<1>2. CASE Client
  <2>0. /\ UNCHANGED <<linkUp, daemonVars>> /\ dpc # "failed"
        /\ \/ ClientFailed \/ MetadataTaken \/ DirMade \/ FileStarted \/ ChunkTaken
           \/ FileFinished \/ EofTaken \/ CompleteTaken
    BY <1>2, ClientOutcome DEF daemonVars
  <2>1. \A i \in Entry : disk[i] \in Seq(SourceByte)
    BY <2>0 DEF JunkOK
  <2>2. CASE UNCHANGED disk
    BY <2>1, <2>2
  <2>3. CASE FileStarted
    <3>1. \A i \in Entry : disk'[i] = disk[i] \/ disk'[i] = << >>
      BY <2>3 DEF FileStarted, TypeOK
    <3>2. QED BY <2>1, <3>1, EmptySeq
  <2>4. CASE ChunkTaken
    <3>1. PICK l \in Nat, d \in Nat :
              /\ l = Stream[1].len /\ d = Len(disk[cidx]) /\ cidx \in Entry
              /\ disk' \in [Entry -> Seq(SourceByte \cup {Junk})]
              /\ \A i \in Entry : i # cidx => disk'[i] = disk[i]
              /\ Len(disk'[cidx]) = d + l
              /\ \A k \in 1 .. d : disk'[cidx][k] = disk[cidx][k]
              /\ \A k \in 1 .. l : disk'[cidx][d + k] =
                    IF Stream[k + 1].unit = "byte" THEN Stream[k + 1].byte ELSE Junk
      BY <2>0, <2>4, ChunkWritten
    <3>2. Live /\ Reads /\ Head(wire).kind = "data"
      BY <2>0, <2>4 DEF ChunkTaken, Live, ClientEnds
    <3>3. PICK m \in Nat : m = l + 1 /\ m <= Len(Stream) /\ Stream # << >> /\ Head(wire) = Stream[1]
      BY <2>0, <3>1, <3>2, FrameRead DEF Reads, daemonVars
    <3>4. PICK n \in Nat : n = Len(Stream) /\ l + 1 <= n
      BY <3>3, StreamType, LenProperties
    <3>5. FrameAt(Stream, 1)
      <4>1. IsHead(Stream[1]) /\ Framed(Stream)
        BY <3>2, <3>3, FirstFrame DEF FlowOK
      <4>2. 1 \in 1 .. n
        BY <3>4
      <4>3. QED BY <3>4, <4>1, <4>2 DEF Framed
    <3>6. ASSUME NEW k \in 1 .. l
          PROVE  disk'[cidx][d + k] \in SourceByte
      <4>1. PICK q \in 1 .. n : q = k + 1
        BY <3>4
      <4>2. 1 < q /\ q <= 1 + l
        BY <4>1
      <4>3. Stream[q].unit = "byte" /\ Stream[q].byte \in SourceByte
        BY <3>1, <3>2, <3>3, <3>4, <3>5, <4>2 DEF FrameAt
      <4>4. QED BY <3>1, <4>1, <4>3
    <3>7. ASSUME NEW k \in 1 .. d
          PROVE  disk'[cidx][k] \in SourceByte
      BY <2>1, <3>1, ElementOfSeq
    <3>8. ASSUME NEW k \in 1 .. d + l
          PROVE  disk'[cidx][k] \in SourceByte
      <4>1. CASE k <= d
        BY <3>7, <4>1
      <4>2. CASE k > d
        <5>1. k - d \in 1 .. l /\ d + (k - d) = k
          BY <4>2
        <5>2. QED BY <3>6, <5>1
      <4>3. QED BY <4>1, <4>2
    <3>9. disk'[cidx] \in [1 .. d + l -> SourceByte]
      <4>1. disk'[cidx] \in [1 .. d + l -> SourceByte \cup {Junk}]
        BY <3>1, LenProperties
      <4>2. QED BY <3>8, <4>1
    <3>10. disk'[cidx] \in Seq(SourceByte)
      BY <3>9
    <3>11. QED BY <2>1, <3>1, <3>10
  <2>5. QED BY <2>0, <2>2, <2>3, <2>4
           DEF ClientFailed, MetadataTaken, DirMade, FileFinished, EofTaken, CompleteTaken
<1>3. CASE UNCHANGED <<daemonVars, clientVars>>
  BY <1>3 DEF JunkOK, daemonVars, clientVars
<1>4. QED BY <1>1, <1>2, <1>3 DEF Next, LoseLink, Terminated, vars
-----------------------------------------------------------------------------
(* Why a stream is bad.                                                     *)

(* What can be wrong with a stream while the connection holds and the       *)
(* daemon goes on.                                                          *)
Changed == dpc = "stream" /\ real # Size[didx]

(* A file that has outgrown its announced size is one that has changed. *)
LEMMA IntactOrChanged ==
    ASSUME TypeOK, DaemonAt, dpc # "failed"
    PROVE  Intact \/ Changed
<1> SUFFICES ASSUME dpc = "stream", fileBytes > Size[didx]
             PROVE  real # Size[didx]
  BY DEF Intact, Changed
<1>1. didx \in Entry /\ fileBytes <= real /\ fileBytes \in Nat /\ real \in Nat
  BY DEF DaemonAt, TypeOK
<1>2. QED BY <1>1, BaseFacts

(* read_file_stream_chunk_into: the chunk a file waits for comes, and is    *)
(* not too long, unless the remote file has changed.                        *)
LEMMA ChunkIsFit ==
    ASSUME TypeOK, DaemonAt, ClientAt, FlowOK, PlacedOK, Live, cpc = "write", remaining > 0,
           Stream # << >>
    PROVE  Stream[1].kind = "data" /\ (Stream[1].len <= remaining \/ Changed)
<1>1. Stream[1].kind \in {"data", "eof"} /\ GoodHead(Stream[1]) /\ At(Stream[1]) = received
  BY FirstFrame
<1>2. Stream[1].kind # "eof"
  <2> SUFFICES ASSUME Stream[1].kind = "eof"
               PROVE  FALSE
    OBVIOUS
  <2>1. received = TotalBytes
    BY <1>1 DEF GoodHead, At
  <2>2. cidx \in Entry /\ received + remaining = Base[cidx] + Size[cidx]
    BY DEF ClientAt
  <2>3. PICK t \in Nat, e \in Nat : t = TotalBytes /\ e = Base[cidx] + Size[cidx] /\ e <= t
    BY <2>2, BaseFacts
  <2>4. received \in Nat /\ remaining \in Nat
    BY DEF TypeOK
  <2>5. QED BY <2>1, <2>2, <2>3, <2>4
<1>3. CASE Intact
  BY <1>1, <1>2, <1>3, DataInPlace
<1>4. QED BY <1>1, <1>2, <1>3, IntactOrChanged DEF Live

(* expect_file_stream_eof: behind the last file comes the EOF frame, unless *)
(* the remote file has changed.                                             *)
LEMMA EofIsNext ==
    ASSUME TypeOK, DaemonAt, ClientAt, FlowOK, PlacedOK, Live, cpc = "entry", cidx = N + 1,
           Stream # << >>
    PROVE  Stream[1].kind = "eof" \/ Changed
<1>1. Stream[1].kind \in {"data", "eof"}
  BY FirstFrame
<1>2. CASE Intact /\ Stream[1].kind = "data"
  <2>1. Stream[1].len \in Nat /\ Stream[1].len >= 1 /\ received + Stream[1].len <= TotalBytes
    BY <1>2, DataInPlace
  <2>2. received = TotalBytes /\ received \in Nat
    BY DEF ClientAt, TotalBytes, TypeOK
  <2>3. QED BY <2>1, <2>2
<1>3. QED BY <1>1, <1>2, IntactOrChanged DEF Live

(* read_frame_into: while the connection holds, what comes next is a        *)
(* header, and when the daemon has come to the end, all of its frame.       *)
LEMMA FrameIsReadable ==
    ASSUME TypeOK, DaemonAt, FlowOK, Live, linkUp
    PROVE  /\ wire # << >> => AtHeader
           /\ dpc = "complete" => FrameReady
<1>1. wire \in Seq(Unit) /\ held \in Seq(Unit) /\ Stream \in Seq(Unit) /\ Joined(wire, held, Stream)
  BY StreamType
<1>2. PICK n \in Nat, c \in Nat : n = Len(wire) /\ c = Len(held)
  BY <1>1, LenProperties
<1>3. Len(Stream) = n + c /\ \A i \in 1 .. n : Stream[i] = wire[i]
  BY <1>1, <1>2 DEF Joined
<1>4. ASSUME wire # << >>
      PROVE  AtHeader /\ Head(wire) = Stream[1] /\ Stream # << >>
  <2>1. 1 \in 1 .. n
    <3>1. n # 0
      BY <1>1, <1>2, <1>4, EmptySeq
    <3>2. QED BY <3>1
  <2>2. Head(wire) = Stream[1]
    BY <1>1, <1>3, <1>4, <2>1
  <2>3. Stream # << >>
    BY <1>3, <2>1, EmptySeq
  <2>4. IsHead(Stream[1])
    BY <2>3, FirstFrame
  <2>5. QED BY <1>4, <2>2, <2>3, <2>4 DEF AtHeader, IsHead
<1>5. ASSUME dpc = "complete"
      PROVE  FrameReady
  <2>1. held = << >> /\ Whole(Stream) /\ LastOK(Stream)
    BY <1>5 DEF DaemonAt, FlowOK
  <2>2. c = 0
    BY <1>2, <2>1, EmptySeq
  <2>3. Stream # << >>
    BY <1>5, <2>1 DEF LastOK
  <2>4. Len(Stream) = n /\ n # 0
    BY <1>1, <1>3, <2>2, <2>3, EmptySeq
  <2>5. wire # << >>
    BY <1>2, <2>4, EmptySeq
  <2>6. AtHeader /\ Head(wire) = Stream[1]
    BY <1>4, <2>5
  <2>7. IsHead(Stream[1]) /\ 1 \in 1 .. n
    BY <2>3, <2>4, FirstFrame
  <2>8. 1 + Stream[1].len <= n
    BY <2>1, <2>4, <2>7 DEF Whole
  <2>9. Stream[1].len \in Nat
    <3>1. Stream[1] \in Unit
      BY <1>1, <2>4, <2>7, ElementOfSeq
    <3>2. QED BY <2>7, <3>1, UnitType
  <2>10. QED BY <1>2, <2>6, <2>8, <2>9 DEF FrameReady
<1>6. QED BY <1>4, <1>5

(* Every step of a client that finds its stream bad has a cause. *)
LEMMA BadStreamCause ==
    ASSUME TypeOK, DaemonAt, ClientAt, FlowOK, PlacedOK, Client, cpc' = "bad_stream"
    PROVE  dpc = "failed" \/ ~linkUp \/ Changed
<1> SUFFICES ASSUME dpc # "failed", linkUp
             PROVE  Changed
  OBVIOUS
<1>0. UNCHANGED <<linkUp, daemonVars>> /\ cpc \notin ClientEnds
  BY ClientOutcome DEF ClientFailed, MetadataTaken, DirMade, FileStarted, ChunkTaken,
     FileFinished, EofTaken, CompleteTaken, ClientEnds
<1>1. Live
  BY <1>0 DEF Live
<1>2. ASSUME Reads
      PROVE  Stream # << >> /\ Head(wire) = Stream[1] /\ Stream[1].len \in Nat
  <2>1. PICK m \in Nat : Stream # << >> /\ Head(wire) = Stream[1]
    BY <1>0, <1>2, FrameRead DEF Reads, daemonVars
  <2>2. QED BY <1>0, <1>2, <2>1, ReadsType
<1>3. CASE RecvMetadata \/ StartEntry \/ FinishEntry
  BY <1>3 DEF RecvMetadata, StartEntry, FinishEntry, ClientEnd
<1>4. CASE RecvChunk
  <2>1. Reads /\ cpc = "write" /\ remaining > 0
    BY <1>4 DEF RecvChunk, Reads
  <2>2. Head(wire).kind # "data" \/ Head(wire).len > remaining
    BY <1>4, <2>1 DEF RecvChunk, ClientEnd
  <2>3. Stream[1].kind = "data" /\ (Stream[1].len <= remaining \/ Changed)
    BY <1>1, <1>2, <2>1, ChunkIsFit
  <2>4. Stream[1].len > remaining /\ Stream[1].len \in Nat /\ remaining \in Nat
    BY <1>2, <2>1, <2>2, <2>3 DEF TypeOK
  <2>5. QED BY <2>3, <2>4
<1>5. CASE ExpectEof
  <2>1. Reads /\ cpc = "entry" /\ cidx = N + 1 /\ Head(wire).kind # "eof"
    BY <1>5 DEF ExpectEof, Reads, ClientEnd
  <2>2. QED BY <1>1, <1>2, <2>1, EofIsNext
<1>6. CASE RecvComplete
  <2>1. Reads /\ cpc = "await_complete" /\ ~(Head(wire).kind = "complete" /\ Head(wire).bytes = received)
    BY <1>6 DEF RecvComplete, Reads, ClientEnd
  <2>2. Stream[1].kind = "complete" /\ At(Stream[1]) = received
    BY <1>1, <1>2, <2>1, FirstFrame
  <2>3. QED BY <1>2, <2>1, <2>2 DEF At
<1>7. CASE ClientReadError
  <2>1. \/ wire # << >> /\ ~AtHeader
        \/ ~FrameReady /\ dpc = "complete"
    BY <1>7 DEF ClientReadError, DaemonEnds
  <2>2. QED BY <1>1, <2>1, FrameIsReadable
<1>8. QED BY <1>3, <1>4, <1>5, <1>6, <1>7 DEF Client

(* And the cause remains. *)
LEMMA CauseStep ==
    ASSUME TypeOK, DaemonAt, ClientAt, FlowOK, PlacedOK, CauseOK, [Next]_vars
    PROVE  CauseOK'
<1> SUFFICES ASSUME cpc' = "bad_stream"
             PROVE  dpc' = "failed" \/ ~linkUp' \/ (dpc' = "stream" /\ real' # Size[didx'])
  BY DEF CauseOK
<1>1. CASE Client
  <2>1. dpc = "failed" \/ ~linkUp \/ (dpc = "stream" /\ real # Size[didx])
    BY <1>1, BadStreamCause DEF Changed
  <2>2. QED BY <1>1, <2>1, ClientOutcome DEF daemonVars
<1>2. CASE Daemon
  <2>0. /\ linkUp' = linkUp /\ cpc' = cpc
        /\ \/ DaemonFail /\ dpc \notin DaemonEnds
           \/ MetadataSent \/ SkipDir \/ FileOpened \/ SendChunk \/ FileStreamed \/ EndSent
    BY <1>2, DaemonOutcome DEF clientVars
  <2>1. dpc = "failed" \/ ~linkUp \/ (dpc = "stream" /\ real # Size[didx])
    BY <2>0 DEF CauseOK
  <2>2. dpc # "failed"
    BY <2>0 DEF DaemonEnds, MetadataSent, SkipDir, FileOpened, SendChunk, FileStreamed, EndSent
  <2>3. CASE DaemonFail
    BY <2>3 DEF DaemonFail
  <2>4. CASE SendChunk
    BY <2>0, <2>1, <2>2, <2>4 DEF SendChunk
  <2>5. CASE FileStreamed
    BY <2>0, <2>1, <2>2, <2>5 DEF FileStreamed
  <2>6. CASE MetadataSent \/ SkipDir \/ FileOpened \/ EndSent
    BY <2>0, <2>1, <2>2, <2>6 DEF MetadataSent, SkipDir, FileOpened, EndSent
  <2>7. QED BY <2>0, <2>3, <2>4, <2>5, <2>6
<1>3. CASE LoseLink
  BY <1>3 DEF LoseLink
<1>4. CASE UNCHANGED vars
  BY <1>4 DEF CauseOK, vars, daemonVars, clientVars
<1>5. QED BY <1>1, <1>2, <1>3, <1>4 DEF Next, Terminated
-----------------------------------------------------------------------------
(* The theorems.                                                            *)

(* The invariant holds at the start. *)
LEMMA InitIInv == Init => IInv
<1> SUFFICES ASSUME Init PROVE IInv
  OBVIOUS
<1>1. /\ N \in Nat /\ Base[1] = 0 /\ 1 \in 1 .. N + 1 /\ MaxReal \in Nat /\ MaxChunk \in Nat
  BY ManifestAssumption, BaseSums, BoundAssumption
<1>2. /\ << >> \in Seq(HeaderUnit \cup ByteUnit) /\ Len(<< >>) = 0
      /\ << >> \in Seq(SourceByte \cup {Junk}) /\ << >> \in Seq(SourceByte)
  BY EmptySeq
<1>3. disk \in [Entry -> Seq(SourceByte \cup {Junk})] /\ \A i \in Entry : disk[i] = << >>
  BY <1>2 DEF Init
<1>4. TypeOK
  <2>1. linkUp \in BOOLEAN
    BY DEF Init
  <2>2. QED BY <1>1, <1>2, <1>3, <2>1 DEF Init, TypeOK, ClientEnds, DaemonEnds
<1>5. DaemonAt /\ ClientAt
  BY <1>1, EmptyKinds DEF Init, DaemonAt, ClientAt
<1>6. CompleteOK
  BY EmptyKinds DEF Init, CompleteOK
<1>7. Stream = << >> /\ 1 .. Len(Stream) = {}
  <2>1. << >> \o << >> = << >>
    OBVIOUS
  <2>2. Stream = << >>
    BY <2>1 DEF Init, Stream
  <2>3. QED BY <2>2, EmptySeq
<1>8. Framed(Stream) /\ Whole(Stream) /\ Placed(Stream)
  BY <1>7 DEF Framed, Whole, Placed
<1>9. FirstOK(Stream)
  BY <1>7 DEF FirstOK
<1>10. LastOK(Stream)
  BY <1>7 DEF LastOK, Init
<1>11. FlowOK /\ PlacedOK
  BY <1>8, <1>9, <1>10 DEF FlowOK, PlacedOK
<1>12. FilesOK
  <2>1. \A i \in Entry : ~(i < 1)
    BY <1>1 DEF Entry
  <2>2. QED BY <2>1 DEF Init, FilesOK
<1>13. JunkOK /\ CauseOK
  BY <1>2, <1>3 DEF Init, JunkOK, CauseOK
<1>14. QED BY <1>4, <1>5, <1>6, <1>11, <1>12, <1>13 DEF IInv

(* The invariant of a pull: the stream is in order, or it is known why not, *)
(* and both ends are where their places in it say.                          *)
THEOREM Invariance == Spec => []IInv
<1>1. IInv /\ [Next]_vars => IInv'
  <2> SUFFICES ASSUME IInv, [Next]_vars PROVE IInv'
    OBVIOUS
  <2>1. /\ TypeOK /\ DaemonAt /\ ClientAt /\ CompleteOK /\ FlowOK /\ PlacedOK
        /\ FilesOK /\ JunkOK /\ CauseOK
    BY DEF IInv
  <2>2. TypeOK' /\ DaemonAt' /\ ClientAt' /\ CompleteOK' /\ FlowOK' /\ PlacedOK'
    BY <2>1, TypeStep, PositionStep, CompleteStep, FlowStep, PlacedStep
  <2>3. FilesOK' /\ JunkOK' /\ CauseOK'
    BY <2>1, FilesStep, JunkStep, CauseStep
  <2>4. QED BY <2>2, <2>3 DEF IInv
<1>2. QED BY <1>1, InitIInv, PTL DEF Spec

(* receive_local_batch: the client's place in the stream is its place in    *)
(* the manifest at every moment, whatever the daemon sends.                 *)
THEOREM PositionsAlwaysAgree == Spec => []PositionsAgree
<1>1. IInv => PositionsAgree
  BY DEF IInv, ClientAt, PositionsAgree
<1>2. QED BY <1>1, Invariance, PTL

(* execute_pull_with_progress: the stream becomes unreadable, or too long   *)
(* for its file, only when the daemon has failed, a file has changed or the *)
(* connection is lost, and the bytes of a response end up in a file only    *)
(* when the daemon has failed, however frames were buffered and cut.        *)
THEOREM StreamErrorsAreCaused == Spec => []StreamErrorsHaveACause
<1>1. IInv => StreamErrorsHaveACause
  <2> SUFFICES ASSUME IInv PROVE StreamErrorsHaveACause
    OBVIOUS
  <2>1. JunkOK /\ CauseOK
    BY DEF IInv
  <2>2. ASSUME NEW i \in Entry, NEW k \in 1 .. Len(disk[i]), disk[i][k] = Junk, dpc # "failed"
        PROVE  FALSE
    <3>1. disk[i] \in Seq(SourceByte)
      BY <2>1, <2>2 DEF JunkOK
    <3>2. disk[i][k] \in SourceByte
      BY <3>1, ElementOfSeq
    <3>3. Junk \notin SourceByte
      BY ManifestAssumption DEF Junk, SourceByte, Entry
    <3>4. QED BY <2>2, <3>2, <3>3
  <2>3. QED BY <2>1, <2>2 DEF CauseOK, StreamErrorsHaveACause
<1>2. QED BY <1>1, Invariance, PTL

(* The start of a pull is the start of a delivery. *)
LEMMA DeliveryInit == Init => Promise!Init
BY DEF Init, Promise!Init, Promise!Entry, Entry, ClientEnds

(* A step of a pull is a step of the delivery it promises, or none. *)
LEMMA DeliveryStep ==
    ASSUME IInv, IInv', [Next]_vars
    PROVE  [Promise!Next]_(Promise!vars)
<1> DEFINE out == IF cpc = "ok" THEN "ok" ELSE IF cpc \in ClientEnds THEN "failed" ELSE "running"
<1>1. TypeOK /\ ClientAt /\ TypeOK' /\ ClientAt' /\ FilesOK'
  BY DEF IInv
<1>2. CASE UNCHANGED <<cpc, disk>>
  BY <1>2 DEF Promise!vars
<1>3. ASSUME UNCHANGED disk, out = "running", out' \in {"running", "failed"}
      PROVE  [Promise!Next]_(Promise!vars)
  BY <1>3 DEF Promise!vars, Promise!Next, Promise!Fail
<1>4. CASE Client
  <2>0. /\ UNCHANGED <<linkUp, daemonVars>>
        /\ \/ ClientFailed \/ MetadataTaken \/ DirMade \/ FileStarted \/ ChunkTaken
           \/ FileFinished \/ EofTaken \/ CompleteTaken
    BY <1>4, ClientOutcome
  <2>1. CASE ClientFailed \/ MetadataTaken \/ DirMade \/ FileFinished \/ EofTaken
    BY <1>3, <2>1 DEF ClientFailed, MetadataTaken, DirMade, FileFinished, EofTaken, ClientEnds
  <2>2. ASSUME cidx \in Entry, Kind[cidx] = "file", cpc \in {"entry", "write"},
               cpc' = "write", cidx' = cidx,
               \A i \in Entry : i # cidx => disk'[i] = disk[i],
               disk'[cidx] = << >> \/ Promise!Extends(disk'[cidx], disk[cidx])
        PROVE  [Promise!Next]_(Promise!vars)
    <3>1. out = "running" /\ out' = out
      BY <2>2 DEF ClientEnds
    <3>2. disk \in [Entry -> Seq(SourceByte \cup {Junk})] /\ disk' \in [Entry -> Seq(SourceByte \cup {Junk})]
      BY <1>1 DEF TypeOK
    <3>3. disk' = [disk EXCEPT ![cidx] = disk'[cidx]]
      BY <2>2, <3>2
    <3>4. Len(disk'[cidx]) <= Size[cidx]
      <4>1. Len(disk'[cidx]) = Size[cidx] - remaining' /\ remaining' \in Nat /\ Size[cidx] \in Nat
        BY <1>1, <2>2, BaseFacts DEF ClientAt, TypeOK
      <4>2. QED BY <4>1
    <3>5. QED BY <2>2, <3>1, <3>3, <3>4 DEF Promise!Next, Promise!Write, Promise!Entry, Entry
  <2>3. CASE FileStarted
    <3>1. cidx \in Entry
      BY <1>1, <2>3, ManifestAssumption DEF FileStarted, TypeOK, Entry
    <3>2. disk'[cidx] = << >> /\ \A i \in Entry : i # cidx => disk'[i] = disk[i]
      BY <1>1, <2>3, <3>1 DEF FileStarted, TypeOK
    <3>3. QED BY <2>2, <2>3, <3>1, <3>2 DEF FileStarted
  <2>4. CASE ChunkTaken
    <3>1. PICK l \in Nat, d \in Nat :
              /\ d = Len(disk[cidx]) /\ cidx \in Entry
              /\ \A i \in Entry : i # cidx => disk'[i] = disk[i]
              /\ Len(disk'[cidx]) = d + l
              /\ \A k \in 1 .. d : disk'[cidx][k] = disk[cidx][k]
      BY <1>1, <2>0, <2>4, ChunkWritten
    <3>2. Promise!Extends(disk'[cidx], disk[cidx])
      BY <3>1 DEF Promise!Extends
    <3>3. Kind[cidx] = "file"
      BY <1>1, <2>4 DEF ChunkTaken, ClientAt
    <3>4. QED BY <2>2, <2>4, <3>1, <3>2, <3>3 DEF ChunkTaken
  <2>5. CASE CompleteTaken
    <3>1. out = "running" /\ out' = "ok" /\ UNCHANGED disk
      BY <2>5 DEF CompleteTaken, ClientEnds
    <3>2. \A i \in Entry : Kind[i] = "file" => disk[i] = Announced(i)
      BY <1>1, <2>5 DEF CompleteTaken, FilesOK
    <3>3. QED BY <3>1, <3>2 DEF Promise!Next, Promise!Succeed, Promise!Entry, Promise!Announced,
             Entry, Announced
  <2>6. QED BY <2>0, <2>1, <2>3, <2>4, <2>5
<1>5. CASE Daemon
  BY <1>2, <1>5, DaemonOutcome DEF clientVars
<1>6. QED BY <1>2, <1>4, <1>5 DEF Next, LoseLink, Terminated, vars, clientVars

(* A pull keeps the promise of Delivery: no local file ever outgrows its    *)
(* announced size, and success is only reported when every one of them is   *)
(* its remote file, although a file may change, the daemon fail or the      *)
(* connection break in the middle of it.                                    *)
THEOREM PullDelivers == Spec => Delivers
<1>1. Init => Promise!Init
  BY DeliveryInit
<1>2. IInv /\ IInv' /\ [Next]_vars => [Promise!Next]_(Promise!vars)
  BY DeliveryStep
<1>3. QED BY <1>1, <1>2, Invariance, PTL DEF Spec, Delivers, Promise!Spec
-----------------------------------------------------------------------------
(* The first answer, and coming to an end.                                  *)

(* read_response of the client only ever finds PullBatchMetadata or an      *)
(* error, whenever the daemon fails: nothing overtakes the first answer.    *)
AnswerIsExpected ==
    cpc = "await_metadata" /\ FrameReady => Head(wire).kind \in {"metadata", "error"}

(* Its inductive form. *)
FirstAnswerOK ==
    cpc = "await_metadata" =>
      /\ dpc = "manifest" => wire = << >>
      /\ linkUp /\ dpc # "manifest" => wire # << >>
      /\ wire # << >> => wire[1].kind \in {"metadata", "error"}

(* What is written to the connection goes behind what is there. *)
LEMMA WireGrows ==
    ASSUME TypeOK, NEW units \in Seq(Unit), ToWire(units)
    PROVE  /\ ~linkUp => wire' = wire
           /\ wire # << >> => wire' # << >> /\ wire'[1] = wire[1]
           /\ linkUp /\ wire = << >> => wire' = units
<1>1. wire \in Seq(Unit) /\ Joined(wire, units, wire \o units)
  BY StreamType, ConcatJoins
<1>2. CASE ~linkUp
  BY <1>2 DEF ToWire
<1>3. CASE linkUp /\ wire # << >>
  <2>1. wire' = wire \o units
    BY <1>3 DEF ToWire
  <2>2. PICK n \in Nat, m \in Nat : n = Len(wire) /\ m = Len(units) /\ n # 0
    BY <1>1, <1>3, LenProperties, EmptySeq
  <2>3. 1 \in 1 .. n /\ n + m # 0
    BY <2>2
  <2>4. Len(wire') = n + m /\ wire'[1] = wire[1]
    BY <1>1, <2>1, <2>2, <2>3 DEF Joined
  <2>5. QED BY <1>3, <2>3, <2>4, EmptySeq
<1>4. CASE linkUp /\ wire = << >>
  BY <1>4, ConcatEmptySeq DEF ToWire
<1>5. QED BY <1>2, <1>3, <1>4

(* A response written by the daemon, at its start or later. *)
LEMMA ResponseFirst ==
    ASSUME TypeOK, FirstAnswerOK, NEW kind \in {"metadata", "error"}, NEW bytes \in Nat,
           ToWire(Json(kind, bytes)), UNCHANGED <<linkUp, cpc>>, dpc' # "manifest"
    PROVE  FirstAnswerOK'
<1>1. Json(kind, bytes) \in Seq(Unit) /\ Json(kind, bytes)[1] = Header(kind, JsonLen, bytes)
  BY JsonFrame
<1>2. Json(kind, bytes)[1].kind = kind
  BY <1>1 DEF Header
<1>3. Json(kind, bytes) # << >>
  <2>1. Json(kind, bytes) = <<Header(kind, JsonLen, bytes)>> \o [k \in 1 .. JsonLen |-> [unit |-> "byte", byte |-> Junk]]
    BY DEF Json
  <2>2. /\ <<Header(kind, JsonLen, bytes)>> \in Seq(Unit)
        /\ [k \in 1 .. JsonLen |-> [unit |-> "byte", byte |-> Junk]] \in Seq(Unit)
    <3>1. Header(kind, JsonLen, bytes) \in Unit /\ JsonLen \in Nat
      BY HeaderType, BoundAssumption
    <3>2. [unit |-> "byte", byte |-> Junk] \in Unit
      BY DEF Unit, ByteUnit
    <3>3. QED BY <3>1, <3>2
  <2>3. Joined(<<Header(kind, JsonLen, bytes)>>,
               [k \in 1 .. JsonLen |-> [unit |-> "byte", byte |-> Junk]], Json(kind, bytes))
    BY <2>1, <2>2, ConcatJoins
  <2>4. Len(Json(kind, bytes)) # 0
    <3>1. PICK l \in Nat : Len([k \in 1 .. JsonLen |-> [unit |-> "byte", byte |-> Junk]]) = l
      BY <2>2, LenProperties
    <3>2. Len(<<Header(kind, JsonLen, bytes)>>) = 1
      OBVIOUS
    <3>3. Len(Json(kind, bytes)) = 1 + l
      BY <2>3, <3>1, <3>2 DEF Joined
    <3>4. QED BY ONLY <3>3, l \in Nat
  <2>5. QED BY <2>4, EmptySeq
<1>4. /\ ~linkUp => wire' = wire
      /\ wire # << >> => wire' # << >> /\ wire'[1] = wire[1]
      /\ linkUp /\ wire = << >> => wire' = Json(kind, bytes)
  BY <1>1, WireGrows
<1>5. QED BY <1>2, <1>3, <1>4 DEF FirstAnswerOK

(* Anything else comes behind the first answer. *)
LEMMA LaterUnits ==
    ASSUME TypeOK, FirstAnswerOK, NEW units \in Seq(Unit), ToWire(units),
           UNCHANGED <<linkUp, cpc>>, dpc # "manifest", dpc' # "manifest"
    PROVE  FirstAnswerOK'
<1>1. /\ ~linkUp => wire' = wire
      /\ wire # << >> => wire' # << >> /\ wire'[1] = wire[1]
  BY WireGrows
<1>2. QED BY <1>1 DEF FirstAnswerOK

(* The steps keep the first answer first. *)
LEMMA FirstAnswerStep ==
    ASSUME IInv, FirstAnswerOK, [Next]_vars
    PROVE  FirstAnswerOK'
<1>1. TypeOK /\ DaemonAt /\ wire \in Seq(Unit)
  BY StreamType DEF IInv
<1>2. CASE Daemon
  <2>0. /\ UNCHANGED <<linkUp, cpc>>
        /\ \/ DaemonFail /\ dpc \notin DaemonEnds
           \/ MetadataSent \/ SkipDir \/ FileOpened \/ SendChunk \/ FileStreamed \/ EndSent
    BY <1>2, DaemonOutcome DEF clientVars
  <2>1. CASE DaemonFail
    BY <1>1, <2>0, <2>1, ResponseFirst DEF DaemonFail
  <2>2. CASE MetadataSent
    <3>1. TotalBytes \in Nat
      BY ManifestAssumption, BaseSums DEF TotalBytes
    <3>2. QED BY <1>1, <2>0, <2>2, <3>1, ResponseFirst DEF MetadataSent
  <2>3. CASE SkipDir \/ FileOpened \/ FileStreamed
    BY <2>0, <2>3 DEF SkipDir, FileOpened, FileStreamed, FirstAnswerOK
  <2>4. CASE SendChunk
    <3>1. PICK o \in Seq(Unit) : wire' = wire \o o
      BY <1>1, <2>4, ChunkSent
    <3>2. ToWire(o) /\ dpc # "manifest" /\ dpc' # "manifest"
      BY <2>4, <3>1 DEF ToWire, SendChunk
    <3>3. QED BY <1>1, <2>0, <3>2, LaterUnits
  <2>5. CASE EndSent
    <3>1. PICK units \in Seq(Unit) : ToWire(units)
      BY <1>1, <2>5, EndUnits DEF EndSent
    <3>2. QED BY <1>1, <2>0, <2>5, <3>1, LaterUnits DEF EndSent
  <2>6. QED BY <2>0, <2>1, <2>2, <2>3, <2>4, <2>5
<1>3. CASE Client
  <2>1. cpc' # "await_metadata"
    BY <1>3, ClientOutcome DEF ClientFailed, MetadataTaken, DirMade, FileStarted, ChunkTaken,
       FileFinished, EofTaken, CompleteTaken
  <2>2. QED BY <2>1 DEF FirstAnswerOK
<1>4. CASE LoseLink
  <2>1. Begins(wire', wire) /\ ~linkUp' /\ UNCHANGED <<cpc, dpc>>
    BY <1>1, <1>4, LinkLost DEF LoseLink, daemonVars, clientVars
  <2>2. PICK n \in Nat, k \in Nat : n = Len(wire) /\ k = Len(wire') /\ k <= n /\ wire' \in Seq(Unit)
    BY <1>1, <2>1, LenProperties DEF Begins
  <2>3. wire = << >> => wire' = << >>
    <3>1. wire = << >> => n = 0
      BY <2>2, EmptySeq
    <3>2. n = 0 => k = 0
      BY <2>2
    <3>3. QED BY <2>2, <3>1, <3>2, EmptySeq
  <2>4. wire' # << >> => wire # << >> /\ wire'[1] = wire[1]
    <3>1. wire' # << >> => 1 \in 1 .. k
      BY <2>2, EmptySeq
    <3>2. QED BY <2>1, <2>2, <2>3, <3>1 DEF Begins
  <2>5. QED BY <2>1, <2>3, <2>4 DEF FirstAnswerOK
<1>5. CASE UNCHANGED vars
  BY <1>5 DEF FirstAnswerOK, vars, daemonVars, clientVars
<1>6. QED BY <1>2, <1>3, <1>4, <1>5 DEF Next, Terminated

(* read_response in execute_pull_with_progress: the first frame is the      *)
(* answer to the request, whatever happens to the daemon or the connection  *)
(* meanwhile, so that the client always knows what to do with it.           *)
THEOREM FirstAnswerIsUnderstood == Spec => []AnswerIsExpected
<1>1. Init => FirstAnswerOK
  BY DEF Init, FirstAnswerOK
<1>2. IInv /\ FirstAnswerOK /\ [Next]_vars => FirstAnswerOK'
  BY FirstAnswerStep
<1>3. ASSUME IInv, FirstAnswerOK
      PROVE  AnswerIsExpected
  <2>1. FrameReady => wire # << >> /\ Head(wire) = wire[1]
    BY DEF FrameReady, AtHeader
  <2>2. QED BY <1>3, <2>1 DEF FirstAnswerOK, AnswerIsExpected
<1>4. QED BY <1>1, <1>2, <1>3, Invariance, PTL DEF Spec

(* How much is left to do.  The daemon: the stage, the entries, whether the *)
(* file of this entry is still to be opened, and its bytes.  The client:    *)
(* the same, with what is still to be read in the place of the bytes.       *)
DaemonLeft ==
    <<CASE dpc = "manifest" -> 2 [] dpc \in {"next_file", "stream"} -> 1 [] OTHER -> 0,
      N + 1 - didx,
      IF dpc = "next_file" THEN 1 ELSE 0,
      IF dpc = "stream" THEN real - fileBytes ELSE 0>>

ClientLeft ==
    <<CASE cpc = "await_metadata" -> 3 [] cpc \in {"entry", "write"} -> 2
        [] cpc = "await_complete" -> 1 [] OTHER -> 0,
      N + 1 - cidx,
      IF cpc = "entry" THEN 1 ELSE 0,
      Len(wire)>>

(* The lexicographic order on such measures, which is well-founded. *)
Less(x, y) ==
    \/ x[1] < y[1]
    \/ x[1] = y[1] /\ x[2] < y[2]
    \/ x[1] = y[1] /\ x[2] = y[2] /\ x[3] < y[3]
    \/ x[1] = y[1] /\ x[2] = y[2] /\ x[3] = y[3] /\ x[4] < y[4]

MeasuresOK == ClientLeft \in Nat \X Nat \X Nat \X Nat /\ DaemonLeft \in Nat \X Nat \X Nat \X Nat

(* Every step but the loss of the connection leaves the daemon less to do,  *)
(* or the client less to do and the daemon no more.                         *)
StepAdvances ==
    /\ MeasuresOK
    /\ \/ Less(DaemonLeft', DaemonLeft) /\ UNCHANGED linkUp
       \/ Less(ClientLeft', ClientLeft) /\ UNCHANGED <<DaemonLeft, linkUp>>
       \/ linkUp /\ ~linkUp' /\ UNCHANGED DaemonLeft

(* What is left is measured in natural numbers. *)
LEMMA MeasuresType ==
    ASSUME IInv
    PROVE  MeasuresOK
<1>1. TypeOK /\ DaemonAt /\ N \in Nat /\ Len(wire) \in Nat
  BY ManifestAssumption, StreamType, LenProperties DEF IInv
<1>2. N + 1 - cidx \in Nat /\ N + 1 - didx \in Nat
  BY <1>1 DEF TypeOK
<1>3. dpc = "stream" => real - fileBytes \in Nat
  BY <1>1 DEF TypeOK, DaemonAt
<1>4. ClientLeft \in Nat \X Nat \X Nat \X Nat
  BY <1>1, <1>2 DEF ClientLeft
<1>5. DaemonLeft \in Nat \X Nat \X Nat \X Nat
  BY <1>2, <1>3 DEF DaemonLeft
<1>6. QED BY <1>4, <1>5 DEF MeasuresOK

(* A step of the daemon leaves it less to do. *)
LEMMA DaemonAdvances ==
    ASSUME IInv, Daemon
    PROVE  Less(DaemonLeft', DaemonLeft) /\ UNCHANGED linkUp
<1>1. TypeOK /\ DaemonAt /\ N \in Nat /\ didx \in Nat /\ real \in Nat /\ fileBytes \in Nat
  BY ManifestAssumption, BoundAssumption DEF IInv, TypeOK
<1>2. /\ UNCHANGED linkUp
      /\ \/ DaemonFail /\ dpc \notin DaemonEnds
         \/ MetadataSent \/ SkipDir \/ FileOpened \/ SendChunk \/ FileStreamed \/ EndSent
  BY DaemonOutcome
<1>3. CASE DaemonFail /\ dpc \notin DaemonEnds
  BY <1>1, <1>2, <1>3 DEF DaemonFail, DaemonEnds, TypeOK, Less, DaemonLeft
<1>4. CASE MetadataSent
  BY <1>1, <1>2, <1>4 DEF MetadataSent, Less, DaemonLeft
<1>5. CASE SkipDir
  BY <1>1, <1>2, <1>5 DEF SkipDir, Less, DaemonLeft
<1>6. CASE FileOpened
  BY <1>1, <1>2, <1>6 DEF FileOpened, Less, DaemonLeft
<1>7. CASE SendChunk
  <2>1. PICK n \in 1 .. MaxChunk : fileBytes' = fileBytes + n
    BY <1>7 DEF SendChunk
  <2>2. n \in Nat /\ n > 0 /\ dpc = "stream" /\ UNCHANGED <<dpc, didx, real>>
    BY <1>7, BoundAssumption DEF SendChunk
  <2>3. real - (fileBytes + n) < real - fileBytes
    BY <1>1, <2>2
  <2>4. QED BY <1>2, <2>1, <2>2, <2>3 DEF Less, DaemonLeft
<1>8. CASE FileStreamed
  BY <1>1, <1>2, <1>8 DEF FileStreamed, Less, DaemonLeft
<1>9. CASE EndSent
  BY <1>1, <1>2, <1>9 DEF EndSent, Less, DaemonLeft
<1>10. QED BY <1>2, <1>3, <1>4, <1>5, <1>6, <1>7, <1>8, <1>9

(* A frame that is read makes the rest shorter, even an empty one. *)
LEMMA ReadsShorten ==
    ASSUME TypeOK, Reads, UNCHANGED <<linkUp, daemonVars>>
    PROVE  Len(wire') < Len(wire)
<1>1. PICK m \in Nat : m = Stream[1].len + 1 /\ Behind(wire, m, wire') /\ Head(wire) = Stream[1]
  BY FrameRead DEF Reads, daemonVars
<1>2. Head(wire).len \in Nat
  BY ReadsType
<1>3. wire \in Seq(Unit) /\ wire' \in Seq(Unit) /\ Len(wire') = Len(wire) - m
  BY <1>1, StreamType DEF Behind
<1>4. Len(wire) \in Nat /\ Len(wire') \in Nat /\ m > 0
  BY <1>1, <1>2, <1>3, LenProperties
<1>5. QED BY <1>3, <1>4

(* A step of the client leaves it less to do. *)
LEMMA ClientAdvances ==
    ASSUME IInv, Client
    PROVE  Less(ClientLeft', ClientLeft) /\ UNCHANGED <<linkUp, daemonVars>>
<1>1. TypeOK /\ ClientAt /\ N \in Nat /\ cidx \in Nat
  BY ManifestAssumption DEF IInv, TypeOK
<1>2. /\ UNCHANGED <<linkUp, daemonVars>>
      /\ \/ ClientFailed \/ MetadataTaken \/ DirMade \/ FileStarted \/ ChunkTaken
         \/ FileFinished \/ EofTaken \/ CompleteTaken
  BY ClientOutcome
<1>3. CASE ClientFailed
  BY <1>1, <1>2, <1>3 DEF ClientFailed, ClientEnds, TypeOK, Less, ClientLeft
<1>4. CASE MetadataTaken
  BY <1>2, <1>4 DEF MetadataTaken, Less, ClientLeft
<1>5. CASE DirMade
  BY <1>1, <1>2, <1>5 DEF DirMade, Less, ClientLeft
<1>6. CASE FileStarted
  BY <1>1, <1>2, <1>6 DEF FileStarted, Less, ClientLeft
<1>7. CASE ChunkTaken
  <2>1. Len(wire') < Len(wire)
    BY <1>1, <1>2, <1>7, ReadsShorten DEF ChunkTaken
  <2>2. cpc = "write" /\ UNCHANGED <<cpc, cidx>>
    BY <1>7 DEF ChunkTaken
  <2>3. QED BY <1>2, <2>1, <2>2 DEF Less, ClientLeft
<1>8. CASE FileFinished
  BY <1>1, <1>2, <1>8 DEF FileFinished, Less, ClientLeft
<1>9. CASE EofTaken
  BY <1>2, <1>9 DEF EofTaken, Less, ClientLeft
<1>10. CASE CompleteTaken
  BY <1>2, <1>10 DEF CompleteTaken, Less, ClientLeft
<1>11. QED BY <1>2, <1>3, <1>4, <1>5, <1>6, <1>7, <1>8, <1>9, <1>10

(* No step of a pull can be repeated for ever, whatever the stream has      *)
(* become after a failure of the daemon: each one leaves less to do, for    *)
(* any manifest and any length of the remote files.                         *)
THEOREM EveryStepAdvances == Spec => [][StepAdvances]_vars
<1>1. ASSUME IInv, [Next]_vars
      PROVE  [StepAdvances]_vars
  <2>1. MeasuresOK
    BY <1>1, MeasuresType
  <2>2. CASE Client
    <3>1. Less(ClientLeft', ClientLeft) /\ UNCHANGED <<linkUp, daemonVars>>
      BY <1>1, <2>2, ClientAdvances
    <3>2. UNCHANGED DaemonLeft
      BY <3>1 DEF daemonVars, DaemonLeft
    <3>3. QED BY <2>1, <3>1, <3>2 DEF StepAdvances
  <2>3. CASE Daemon
    BY <1>1, <2>1, <2>3, DaemonAdvances DEF StepAdvances
  <2>4. CASE LoseLink
    <3>1. linkUp /\ ~linkUp' /\ UNCHANGED daemonVars
      BY <2>4 DEF LoseLink
    <3>2. UNCHANGED DaemonLeft
      BY <3>1 DEF daemonVars, DaemonLeft
    <3>3. QED BY <2>1, <3>1, <3>2 DEF StepAdvances
  <2>5. QED BY <1>1, <2>2, <2>3, <2>4 DEF Next, Terminated
<1>2. QED BY <1>1, Invariance, PTL DEF Spec
=============================================================================
