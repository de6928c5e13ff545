---------------------------- MODULE ClientsProofs ---------------------------
(***************************************************************************)
(* Proofs about Clients: a transfer.pull and an edit of the same file,     *)
(* with a third party, for every size, every set of requests, every limit  *)
(* of an inline edit and every number of interfering writes.               *)
(***************************************************************************)
EXTENDS Clients, TLAPS

(* Where the edit is before the user has saved anything, and from its       *)
(* first change of the device on.                                           *)
Unsaved == {"stat", "hash", "hash_tail", "read", "pull", "read_tail", "edit", "unchanged"}
Saving  == {"push_head", "push_tail", "reply", "updated", "failed"}

(* Where the pull is when it has put its root in place, when all it will    *)
(* bring is there, and when it has resolved the destination again.          *)
Verifying == {"size", "sha256", "hash", "hash_tail", "ok", "mismatch"}
Got       == {"received"} \cup Verifying
Placed    == {"open", "stream"} \cup Got

Entry(f) == IF f = Absent THEN Absent ELSE Content(0, 0, f.size)

(* Inodes are files.  Until the edit changes the device its path leads to   *)
(* the first inode, and nobody has the second one open.                     *)
RemoteOK ==
    /\ \A i \in Inode : ino[i].kind = "file"
    /\ link = 2 \/ pfd = 2 => epc \in Saving

(* What the edit's position says of its other variables. *)
EditAt ==
    /\ epc \in {"hash_tail", "read_tail", "check_tail", "push_head", "push_tail"} => efd \in Inode
    /\ epc \in {"check", "check_tail", "save"} => tmp.kind = "file"
    /\ epc \in {"push_head", "push_tail"} => ~inline /\ link \in {0, efd}
    /\ epc \in Unsaved => saved = Absent
    /\ epc = "reply" => delivered

(* As long as nobody changed the file since the comparison began, what is   *)
(* compared, and then what is replaced, is the file.                        *)
CheckOK ==
    /\ epc = "check_tail" /\ ~raced => link # 0 /\ efd = link /\ ehead = ino[link].head
    /\ epc = "save" /\ ~raced => File = hashed
    /\ lost => epc \in Saving

(* What the pull's position says of its other variables. *)
PullAt ==
    /\ ppc \in {"stream", "hash_tail"} => pfd \in Inode
    /\ ppc \in {"size", "sha256"} => req.verify = ppc
    /\ ppc \in {"hash", "hash_tail"} => req.verify = "sha256"
    /\ ppc \in {"open", "stream"} => announced # Absent
    /\ ppc \in {"resolve"} \cup Placed /\ req.kind = "file" => announced # Absent
    /\ vtouched => touched

(* The local side: where the root was put, and that resolving again gives   *)
(* the same path or, for a directory that was made, a path with nothing.    *)
LocalAt ==
    /\ ppc \in {"sources", "manifest", "resolve"} =>
           local["D/src"] = Absent /\ local["D/f"] = Absent /\ local["D/src/f"] = Absent
    /\ ppc \in Placed =>
           /\ req.kind = "dir" => local[base].kind = "dir"
           /\ base = "D/src" => local["D"].kind = "dir"
           /\ base = "D" /\ req.kind = "dir" => local["D/src"] = Absent
           /\ base = "D" /\ req.kind = "file" => ~req.slash /\ local["D"].kind # "dir"
    /\ ppc \in Verifying =>
           vbase = base \/ (req.kind = "dir" /\ base = "D" /\ vbase = "D/src")

(* A file nobody touches is the one announced, streamed and stored ... *)
UntouchedOK ==
    ~touched =>
        /\ ppc \in {"resolve"} \cup Placed => announced = Entry(File)
        /\ ppc = "stream" => File # Absent /\ ino[pfd] = File /\ phead = File.head
        /\ ppc \in Got => File = Absent \/ P!Pulled = File

(* ... and one nobody touches during the verification is the one hashed. *)
VerifiedOK ==
    ~vtouched =>
        /\ ppc \in {"hash", "hash_tail"} => File # Absent /\ vsize = File.size
        /\ ppc = "hash_tail" => ino[pfd] = File /\ phead = File.head

(* Without writes in place an inode that somebody reads does not change. *)
WholeOK ==
    ~inplace =>
        /\ ppc = "stream" => phead = ino[pfd].head
        /\ ppc \in Got => \/ P!Pulled \in {Absent, ino[1]}
                          \/ P!Pulled = ino[2] /\ epc \in Saving

(* The inductive invariant. *)
IInv ==
    /\ TypeOK /\ RemoteOK /\ EditAt /\ CheckOK
    /\ PullAt /\ LocalAt /\ UntouchedOK /\ VerifiedOK /\ WholeOK
    /\ EditIsKept /\ UpdateLostNeedsRace /\ PullIsExact /\ MismatchHasACause

-----------------------------------------------------------------------------
(* The vocabulary of RemoteFile, in its three instances. *)
USE DEF File, Absent, Content, Empty, Dir, Inode, Node, Part, Size,
        P!File, P!Absent, P!Content, P!Empty, P!Dir, P!Inode, P!Node, P!Part, P!Size,
        E!File, E!Absent, E!Content, E!Empty, E!Dir, E!Inode, E!Node, E!Part, E!Size

(* The constants, as the proofs use them. *)
LEMMA Consts ==
    /\ MaxSize \in Nat /\ MaxSize >= 1
    /\ \A r \in PullRequests :
         /\ r.kind \in {"file", "dir"} /\ r.verify \in {"none", "size", "sha256"}
         /\ r.dest \in Node /\ r.slash \in BOOLEAN /\ r.wildcard \in BOOLEAN
  BY ClientsAssumption

(* TypeOK is kept by the pull ... *)
LEMMA PullTypes ==
    ASSUME TypeOK, PullAt, PullStep
    PROVE  TypeOK'
<1> USE DEF TypeOK, PullAt, PullStep, editVars, P!TypeOK, E!TypeOK, P!Ends, E!Ends, P!LocalPath,
            P!history, remote, P!remote
<1>1. CASE P!ResolveSources
  BY <1>1, Consts DEF P!ResolveSources
<1>2. CASE P!Manifest
  BY <1>2, Consts DEF P!Manifest
<1>3. CASE P!Receive
  BY <1>3, Consts DEF P!Receive, P!FilePath, P!Resolved, P!Resolves, P!Prepared
<1>4. CASE P!StreamHead
  BY <1>4, Consts DEF P!StreamHead
<1>5. CASE P!StreamTail
  BY <1>5, Consts DEF P!StreamTail, P!FilePath
<1>6. CASE P!Received
  <2>1. req.verify \in {"none", "size", "sha256"}
    BY Consts DEF TypeOK, P!TypeOK
  <2>2. ppc' \in {"ok", "size", "sha256"} /\ vbase' \in {"D", "D/src"}
    BY <1>6, <2>1 DEF P!Received, P!Resolved
  <2>3. vtouched' \in BOOLEAN
    BY <1>6 DEF P!Received
  <2>4. UNCHANGED <<remote, req, base, announced, pfd, phead, vsize, local, touched, editVars,
                    writes, inplace>>
    BY <1>6 DEF P!Received, PullStep, remote, P!remote
  <2>5. QED
    BY <2>2, <2>3, <2>4
<1>7. CASE P!VerifySize
  BY <1>7, Consts DEF P!VerifySize, P!RootMatches, P!SizeMatches, P!FilePath
<1>8. CASE P!VerifyStat
  BY <1>8, Consts DEF P!VerifyStat, P!RootMatches
<1>9. CASE P!VerifyHead
  BY <1>9, Consts DEF P!VerifyHead
<1>10. CASE P!VerifyTail
  BY <1>10, Consts DEF P!VerifyTail, P!RootMatches, P!FilePath
<1>11. CASE P!PullFails
  BY <1>11, Consts DEF P!PullFails
<1>12. QED
  BY <1>1, <1>2, <1>3, <1>4, <1>5, <1>6, <1>7, <1>8, <1>9, <1>10, <1>11
     DEF P!Next, PullStep

(* ... by the edit ... *)
LEMMA EditTypes ==
    ASSUME TypeOK, RemoteOK, EditAt, EditStep
    PROVE  TypeOK'
<1> USE DEF TypeOK, EditAt, EditStep, P!Observe, P!TypeOK, E!TypeOK, P!Ends, E!Ends,
            P!LocalPath, E!history, remote, E!remote
<1>1. CASE E!Stat
  BY <1>1, Consts DEF E!Stat
<1>2. CASE E!HashHead
  BY <1>2, Consts DEF E!HashHead, E!OpenFile
<1>3. CASE E!HashTail
  BY <1>3, Consts DEF E!HashTail, E!ReadContent
<1>4. CASE E!ReadHead
  BY <1>4, Consts DEF E!ReadHead, E!OpenFile
<1>5. CASE E!PullHead
  BY <1>5, Consts DEF E!PullHead, E!OpenFile
<1>6. CASE E!ReadTail
  BY <1>6, Consts DEF E!ReadTail, E!ReadContent
<1>7. CASE E!Editor
  BY <1>7, Consts DEF E!Editor, E!Texts
<1>8. CASE E!CheckHead
  <2>1. epc' \in {"check_tail", "failed"} /\ efd' \in Inode \cup {0} /\ ehead' \in Part
    BY <1>8 DEF E!CheckHead, E!OpenFile, TypeOK, E!TypeOK
  <2>2. UNCHANGED <<remote, away, inline, asize, hashed, shown, tmp, saved, delivered, lost>>
    BY <1>8 DEF E!CheckHead, remote, E!remote
  <2>3. raced' \in BOOLEAN
    BY <1>8 DEF E!CheckHead
  <2>4. QED
    BY <2>1, <2>2, <2>3
       DEF EditStep, P!Observe, TypeOK, P!TypeOK, E!TypeOK, P!Ends, E!Ends,
           P!LocalPath, remote
<1>9. CASE E!CheckTail
  BY <1>9, Consts DEF E!CheckTail, E!ReadContent
<1>10. CASE E!Commit
  <2>1. link' \in Inode \cup {0} /\ ino' \in [Inode -> Node]
    BY <1>10 DEF E!Commit, TypeOK, E!TypeOK, E!remote
  <2>2. lost' \in BOOLEAN /\ delivered' \in BOOLEAN /\ epc' \in {"reply", "failed"}
    BY <1>10 DEF E!Commit, TypeOK, E!TypeOK
  <2>3. UNCHANGED <<away, inline, asize, efd, ehead, hashed, shown, tmp, saved, raced>>
    BY <1>10 DEF E!Commit
  <2>4. QED
    BY <2>1, <2>2, <2>3 DEF EditStep, P!Observe, TypeOK, P!TypeOK, E!TypeOK, E!Ends
<1>11. CASE E!PushOpen
  BY <1>11, Consts DEF E!PushOpen
<1>12. CASE E!PushHead
  BY <1>12, Consts DEF E!PushHead
<1>13. CASE E!PushTail
  BY <1>13, Consts DEF E!PushTail
<1>14. CASE E!Reply
  BY <1>14, Consts DEF E!Reply
<1>15. CASE E!EditFails
  <2>1. epc' \in {epc, "failed"} /\ away' \in BOOLEAN
    BY <1>15 DEF E!EditFails, TypeOK, E!TypeOK
  <2>2. UNCHANGED <<remote, inline, asize, efd, ehead, hashed, shown, tmp, saved, delivered,
                    raced, lost>>
    BY <1>15 DEF E!EditFails, remote, E!remote, E!history
  <2>3. QED
    BY <2>1, <2>2 DEF EditStep, P!Observe, TypeOK, P!TypeOK, E!TypeOK, E!Ends, remote
<1>16. QED
  BY <1>1, <1>2, <1>3, <1>4, <1>5, <1>6, <1>7, <1>8, <1>9, <1>10, <1>11, <1>12, <1>13, <1>14,
     <1>15
     DEF E!Next, EditStep

(* ... and by the third party. *)
LEMMA WriteTypes ==
    ASSUME TypeOK, Write
    PROVE  TypeOK'
  BY Consts, ClientsAssumption
     DEF TypeOK, Write, P!Observe, E!Observe, P!TypeOK, E!TypeOK, P!Ends, E!Ends, P!LocalPath

-----------------------------------------------------------------------------
(* The edit keeps what its position says, and what was saved ... *)
LEMMA EditKeepsEdit ==
    ASSUME TypeOK, RemoteOK, EditAt, EditIsKept, EditStep
    PROVE  RemoteOK' /\ EditAt' /\ EditIsKept'
<1> USE DEF RemoteOK, EditAt, EditIsKept, E!EditIsKept, Saving, Unsaved, EditStep, P!Observe,
            TypeOK, E!TypeOK, P!TypeOK, remote, E!remote, E!history
<1>1. CASE E!Stat
  BY <1>1 DEF E!Stat
<1>2. CASE E!HashHead
  BY <1>2 DEF E!HashHead, E!OpenFile
<1>3. CASE E!HashTail
  BY <1>3 DEF E!HashTail, E!ReadContent
<1>4. CASE E!ReadHead
  BY <1>4 DEF E!ReadHead, E!OpenFile
<1>5. CASE E!PullHead
  BY <1>5 DEF E!PullHead, E!OpenFile
<1>6. CASE E!ReadTail
  BY <1>6 DEF E!ReadTail, E!ReadContent
<1>7. CASE E!Editor
  BY <1>7 DEF E!Editor, E!Texts
<1>8. CASE E!CheckHead
  BY <1>8 DEF E!CheckHead, E!OpenFile
<1>9. CASE E!CheckTail
  BY <1>9 DEF E!CheckTail, E!ReadContent
<1>10. CASE E!Commit
  BY <1>10 DEF E!Commit
<1>11. CASE E!PushOpen
  BY <1>11 DEF E!PushOpen
<1>12. CASE E!PushHead
  BY <1>12 DEF E!PushHead
<1>13. CASE E!PushTail
  BY <1>13 DEF E!PushTail
<1>14. CASE E!Reply
  BY <1>14 DEF E!Reply
<1>15. CASE E!EditFails
  BY <1>15 DEF E!EditFails
<1>16. QED
  BY <1>1, <1>2, <1>3, <1>4, <1>5, <1>6, <1>7, <1>8, <1>9, <1>10, <1>11, <1>12, <1>13, <1>14,
     <1>15
     DEF E!Next, EditStep

(* ... and what the comparison of hashes is for. *)
LEMMA EditKeepsCheck ==
    ASSUME TypeOK, RemoteOK, EditAt, CheckOK, UpdateLostNeedsRace, EditStep
    PROVE  CheckOK' /\ UpdateLostNeedsRace'
<1> USE DEF RemoteOK, EditAt, CheckOK, UpdateLostNeedsRace, E!UpdateLostNeedsRace, Saving,
            EditStep, P!Observe, TypeOK, E!TypeOK, P!TypeOK, remote, E!remote, E!history
<1>1. CASE E!Stat
  BY <1>1 DEF E!Stat
<1>2. CASE E!HashHead
  BY <1>2 DEF E!HashHead, E!OpenFile
<1>3. CASE E!HashTail
  BY <1>3 DEF E!HashTail, E!ReadContent
<1>4. CASE E!ReadHead
  BY <1>4 DEF E!ReadHead, E!OpenFile
<1>5. CASE E!PullHead
  BY <1>5 DEF E!PullHead, E!OpenFile
<1>6. CASE E!ReadTail
  BY <1>6 DEF E!ReadTail, E!ReadContent
<1>7. CASE E!Editor
  BY <1>7 DEF E!Editor
<1>8. CASE E!CheckHead
  BY <1>8 DEF E!CheckHead, E!OpenFile
<1>9. CASE E!CheckTail
  BY <1>9 DEF E!CheckTail, E!ReadContent
<1>10. CASE E!Commit
  BY <1>10 DEF E!Commit
<1>11. CASE E!PushOpen
  BY <1>11 DEF E!PushOpen
<1>12. CASE E!PushHead
  BY <1>12 DEF E!PushHead
<1>13. CASE E!PushTail
  BY <1>13 DEF E!PushTail
<1>14. CASE E!Reply
  BY <1>14 DEF E!Reply
<1>15. CASE E!EditFails
  BY <1>15 DEF E!EditFails
<1>16. QED
  BY <1>1, <1>2, <1>3, <1>4, <1>5, <1>6, <1>7, <1>8, <1>9, <1>10, <1>11, <1>12, <1>13, <1>14,
     <1>15
     DEF E!Next, EditStep

(* A write that does not change what is at the path changes nothing. *)
LEMMA WriteShows ==
    ASSUME TypeOK, RemoteOK, Write
    PROVE  File' = File => link' = link /\ ino' = ino
<1>1. CASE \E v \in {1, 2} : ino' = [ino EXCEPT ![link].head = v] /\ UNCHANGED link
  BY <1>1 DEF Write, TypeOK
<1>2. CASE \E s \in 1 .. MaxSize :
             ino' = [ino EXCEPT ![link].tail = 2, ![link].size = s] /\ UNCHANGED link
  BY <1>2 DEF Write, TypeOK
<1>3. CASE link' = 0 /\ UNCHANGED ino
  BY <1>3 DEF Write, TypeOK, RemoteOK
<1>4. QED
  BY <1>1, <1>2, <1>3 DEF Write

(* The third party and the pull leave the edit's variables alone. *)
LEMMA WriteKeepsEdit ==
    ASSUME TypeOK, RemoteOK, EditAt, CheckOK, EditIsKept, UpdateLostNeedsRace, Write
    PROVE  RemoteOK' /\ EditAt' /\ CheckOK' /\ EditIsKept' /\ UpdateLostNeedsRace'
<1>1. RemoteOK' /\ EditAt' /\ EditIsKept'
  BY DEF Write, P!Observe, E!Observe, TypeOK, P!TypeOK, E!TypeOK, RemoteOK, EditAt, EditIsKept,
         E!EditIsKept
<1>2. raced' = (raced \/ File' # File) /\ link # 0
      /\ UNCHANGED <<epc, efd, ehead, hashed, shown, lost>>
  BY DEF Write, E!Observe
<1>3. File' = File => link' = link /\ ino' = ino
  BY WriteShows
<1>4. CheckOK' /\ UpdateLostNeedsRace'
  <2>1. CASE File' # File
    BY <1>2, <2>1 DEF CheckOK, UpdateLostNeedsRace, E!UpdateLostNeedsRace
  <2>2. CASE File' = File
    BY <1>2, <1>3, <2>2 DEF CheckOK, UpdateLostNeedsRace, E!UpdateLostNeedsRace, TypeOK, E!TypeOK
  <2>3. QED
    BY <2>1, <2>2
<1>5. QED
  BY <1>1, <1>4

(* The pull opens what the path leads to. *)
LEMMA PullKeepsEdit ==
    ASSUME TypeOK, RemoteOK, EditAt, CheckOK, EditIsKept, UpdateLostNeedsRace, PullStep
    PROVE  RemoteOK' /\ EditAt' /\ CheckOK' /\ EditIsKept' /\ UpdateLostNeedsRace'
<1> USE DEF RemoteOK, EditAt, CheckOK, EditIsKept, E!EditIsKept, UpdateLostNeedsRace,
            E!UpdateLostNeedsRace, PullStep, editVars, P!history, remote, P!remote
<1>1. CASE P!ResolveSources
  BY <1>1 DEF P!ResolveSources
<1>2. CASE P!Manifest
  BY <1>2 DEF P!Manifest
<1>3. CASE P!Receive
  BY <1>3 DEF P!Receive, P!FilePath, P!Resolved, P!Resolves, P!Prepared
<1>4. CASE P!StreamHead
  BY <1>4 DEF P!StreamHead
<1>5. CASE P!StreamTail
  BY <1>5 DEF P!StreamTail, P!FilePath
<1>6. CASE P!Received
  BY <1>6 DEF P!Received, P!Resolved
<1>7. CASE P!VerifySize
  BY <1>7 DEF P!VerifySize, P!RootMatches, P!SizeMatches, P!FilePath
<1>8. CASE P!VerifyStat
  BY <1>8 DEF P!VerifyStat, P!RootMatches
<1>9. CASE P!VerifyHead
  BY <1>9 DEF P!VerifyHead
<1>10. CASE P!VerifyTail
  BY <1>10 DEF P!VerifyTail, P!RootMatches, P!FilePath
<1>11. CASE P!PullFails
  BY <1>11 DEF P!PullFails
<1>12. QED
  BY <1>1, <1>2, <1>3, <1>4, <1>5, <1>6, <1>7, <1>8, <1>9, <1>10, <1>11
     DEF P!Next, PullStep

-----------------------------------------------------------------------------
(* The pull keeps what its position says ... *)
LEMMA PullKeepsPosition ==
    ASSUME TypeOK, PullAt, PullStep
    PROVE  PullAt'
<1> USE DEF PullAt, PullStep, TypeOK, P!TypeOK, remote, P!remote, P!history, Got, Placed,
            Verifying
<1>1. CASE P!ResolveSources
  BY <1>1, Consts DEF P!ResolveSources
<1>2. CASE P!Manifest
  BY <1>2, Consts DEF P!Manifest
<1>3. CASE P!Receive
  BY <1>3, Consts DEF P!Receive, P!FilePath, P!Resolved, P!Resolves, P!Prepared
<1>4. CASE P!StreamHead
  BY <1>4, Consts DEF P!StreamHead
<1>5. CASE P!StreamTail
  BY <1>5, Consts DEF P!StreamTail, P!FilePath
<1>6. CASE P!Received
  BY <1>6, Consts DEF P!Received, P!Resolved
<1>7. CASE P!VerifySize
  BY <1>7, Consts DEF P!VerifySize, P!RootMatches, P!SizeMatches, P!FilePath
<1>8. CASE P!VerifyStat
  BY <1>8, Consts DEF P!VerifyStat, P!RootMatches
<1>9. CASE P!VerifyHead
  BY <1>9, Consts DEF P!VerifyHead
<1>10. CASE P!VerifyTail
  BY <1>10, Consts DEF P!VerifyTail, P!RootMatches, P!FilePath
<1>11. CASE P!PullFails
  BY <1>11, Consts DEF P!PullFails
<1>12. QED
  BY <1>1, <1>2, <1>3, <1>4, <1>5, <1>6, <1>7, <1>8, <1>9, <1>10, <1>11
     DEF P!Next, PullStep

(* ... of the local side, too ... *)
LEMMA PullKeepsLocal ==
    ASSUME TypeOK, PullAt, LocalAt, PullStep
    PROVE  LocalAt'
<1> USE DEF PullAt, LocalAt, P!LocalPath, PullStep, TypeOK, P!TypeOK, remote, P!remote,
            P!history, Got, Placed, Verifying
<1>1. CASE P!ResolveSources
  BY <1>1, Consts DEF P!ResolveSources
<1>2. CASE P!Manifest
  BY <1>2, Consts DEF P!Manifest
<1>3. CASE P!Receive
  BY <1>3, Consts DEF P!Receive, P!FilePath, P!Resolved, P!Resolves, P!Prepared
<1>4. CASE P!StreamHead
  BY <1>4, Consts DEF P!StreamHead
<1>5. CASE P!StreamTail
  BY <1>5, Consts DEF P!StreamTail, P!FilePath
<1>6. CASE P!Received
  BY <1>6, Consts DEF P!Received, P!Resolved
<1>7. CASE P!VerifySize
  BY <1>7, Consts DEF P!VerifySize, P!RootMatches, P!SizeMatches, P!FilePath
<1>8. CASE P!VerifyStat
  BY <1>8, Consts DEF P!VerifyStat, P!RootMatches
<1>9. CASE P!VerifyHead
  BY <1>9, Consts DEF P!VerifyHead
<1>10. CASE P!VerifyTail
  BY <1>10, Consts DEF P!VerifyTail, P!RootMatches, P!FilePath
<1>11. CASE P!PullFails
  BY <1>11, Consts DEF P!PullFails
<1>12. QED
  BY <1>1, <1>2, <1>3, <1>4, <1>5, <1>6, <1>7, <1>8, <1>9, <1>10, <1>11
     DEF P!Next, PullStep

(* ... and, as long as nobody touches the file, that it has that file ... *)
LEMMA PullKeepsUntouched ==
    ASSUME TypeOK, RemoteOK, PullAt, LocalAt, UntouchedOK, PullStep
    PROVE  UntouchedOK'
<1> USE DEF RemoteOK, PullAt, LocalAt, UntouchedOK, Entry, P!Pulled, P!FilePath, P!LocalPath,
            PullStep, TypeOK, P!TypeOK, remote, P!remote, P!history, Got, Placed, Verifying
<1>1. CASE P!ResolveSources
  BY <1>1, Consts DEF P!ResolveSources
<1>2. CASE P!Manifest
  BY <1>2, Consts DEF P!Manifest
<1>3. CASE P!Receive
  BY <1>3, Consts DEF P!Receive, P!Resolved, P!Resolves, P!Prepared
<1>4. CASE P!StreamHead
  BY <1>4, Consts DEF P!StreamHead
<1>5. CASE P!StreamTail
  BY <1>5, Consts DEF P!StreamTail
<1>6. CASE P!Received
  BY <1>6, Consts DEF P!Received, P!Resolved
<1>7. CASE P!VerifySize
  BY <1>7, Consts DEF P!VerifySize, P!RootMatches, P!SizeMatches
<1>8. CASE P!VerifyStat
  BY <1>8, Consts DEF P!VerifyStat, P!RootMatches
<1>9. CASE P!VerifyHead
  BY <1>9, Consts DEF P!VerifyHead
<1>10. CASE P!VerifyTail
  BY <1>10, Consts DEF P!VerifyTail, P!RootMatches
<1>11. CASE P!PullFails
  BY <1>11, Consts DEF P!PullFails
<1>12. QED
  BY <1>1, <1>2, <1>3, <1>4, <1>5, <1>6, <1>7, <1>8, <1>9, <1>10, <1>11
     DEF P!Next, PullStep

(* ... or hashes it ... *)
LEMMA PullKeepsVerified ==
    ASSUME TypeOK, PullAt, VerifiedOK, PullStep
    PROVE  VerifiedOK'
<1> USE DEF PullAt, VerifiedOK, PullStep, TypeOK, P!TypeOK, remote, P!remote, P!history, Got,
            Placed, Verifying
<1>1. CASE P!ResolveSources
  BY <1>1, Consts DEF P!ResolveSources
<1>2. CASE P!Manifest
  BY <1>2, Consts DEF P!Manifest
<1>3. CASE P!Receive
  BY <1>3, Consts DEF P!Receive, P!FilePath, P!Resolved, P!Resolves, P!Prepared
<1>4. CASE P!StreamHead
  BY <1>4, Consts DEF P!StreamHead
<1>5. CASE P!StreamTail
  BY <1>5, Consts DEF P!StreamTail, P!FilePath
<1>6. CASE P!Received
  BY <1>6, Consts DEF P!Received, P!Resolved
<1>7. CASE P!VerifySize
  BY <1>7, Consts DEF P!VerifySize, P!RootMatches, P!SizeMatches, P!FilePath
<1>8. CASE P!VerifyStat
  BY <1>8, Consts DEF P!VerifyStat, P!RootMatches
<1>9. CASE P!VerifyHead
  BY <1>9, Consts DEF P!VerifyHead
<1>10. CASE P!VerifyTail
  BY <1>10, Consts DEF P!VerifyTail, P!RootMatches, P!FilePath
<1>11. CASE P!PullFails
  BY <1>11, Consts DEF P!PullFails
<1>12. QED
  BY <1>1, <1>2, <1>3, <1>4, <1>5, <1>6, <1>7, <1>8, <1>9, <1>10, <1>11
     DEF P!Next, PullStep

(* ... and as long as nobody writes in place, that it has one version. *)
LEMMA PullKeepsWhole ==
    ASSUME TypeOK, RemoteOK, PullAt, LocalAt, WholeOK, PullStep
    PROVE  WholeOK'
<1> USE DEF RemoteOK, PullAt, LocalAt, WholeOK, editVars, Saving, P!Pulled, P!FilePath,
            P!LocalPath, PullStep, TypeOK, P!TypeOK, remote, P!remote, P!history, Got, Placed,
            Verifying
<1>1. CASE P!ResolveSources
  BY <1>1, Consts DEF P!ResolveSources
<1>2. CASE P!Manifest
  BY <1>2, Consts DEF P!Manifest
<1>3. CASE P!Receive
  BY <1>3, Consts DEF P!Receive, P!Resolved, P!Resolves, P!Prepared
<1>4. CASE P!StreamHead
  BY <1>4, Consts DEF P!StreamHead
<1>5. CASE P!StreamTail
  BY <1>5, Consts DEF P!StreamTail
<1>6. CASE P!Received
  BY <1>6, Consts DEF P!Received, P!Resolved
<1>7. CASE P!VerifySize
  BY <1>7, Consts DEF P!VerifySize, P!RootMatches, P!SizeMatches
<1>8. CASE P!VerifyStat
  BY <1>8, Consts DEF P!VerifyStat, P!RootMatches
<1>9. CASE P!VerifyHead
  BY <1>9, Consts DEF P!VerifyHead
<1>10. CASE P!VerifyTail
  BY <1>10, Consts DEF P!VerifyTail, P!RootMatches
<1>11. CASE P!PullFails
  BY <1>11, Consts DEF P!PullFails
<1>12. QED
  BY <1>1, <1>2, <1>3, <1>4, <1>5, <1>6, <1>7, <1>8, <1>9, <1>10, <1>11
     DEF P!Next, PullStep

(* How a pull ends. *)
LEMMA PullEnds ==
    ASSUME TypeOK, RemoteOK, PullAt, LocalAt, UntouchedOK, VerifiedOK, PullIsExact,
           MismatchHasACause, PullStep
    PROVE  PullIsExact' /\ MismatchHasACause'
<1> USE DEF RemoteOK, PullAt, LocalAt, UntouchedOK, VerifiedOK, Entry, PullIsExact,
            P!PullIsExact, MismatchHasACause, P!MismatchHasACause, P!Pulled, P!FilePath,
            P!LocalPath, PullStep, TypeOK, P!TypeOK, remote, P!remote, P!history, Got, Placed,
            Verifying
<1>1. CASE P!ResolveSources
  BY <1>1, Consts DEF P!ResolveSources
<1>2. CASE P!Manifest
  BY <1>2, Consts DEF P!Manifest
<1>3. CASE P!Receive
  BY <1>3, Consts DEF P!Receive, P!Resolved, P!Resolves, P!Prepared
<1>4. CASE P!StreamHead
  BY <1>4, Consts DEF P!StreamHead
<1>5. CASE P!StreamTail
  BY <1>5, Consts DEF P!StreamTail
<1>6. CASE P!Received
  BY <1>6, Consts DEF P!Received, P!Resolved
<1>7. CASE P!VerifySize
  BY <1>7, Consts DEF P!VerifySize, P!RootMatches, P!SizeMatches
<1>8. CASE P!VerifyStat
  BY <1>8, Consts DEF P!VerifyStat, P!RootMatches
<1>9. CASE P!VerifyHead
  BY <1>9, Consts DEF P!VerifyHead
<1>10. CASE P!VerifyTail
  BY <1>10, Consts DEF P!VerifyTail, P!RootMatches
<1>11. CASE P!PullFails
  BY <1>11, Consts DEF P!PullFails
<1>12. QED
  BY <1>1, <1>2, <1>3, <1>4, <1>5, <1>6, <1>7, <1>8, <1>9, <1>10, <1>11
     DEF P!Next, PullStep

-----------------------------------------------------------------------------
(* What a step of somebody else must not do to the pull: an inode with the  *)
(* content of the path keeps it unless the path's content changes, and      *)
(* without a write in place an inode keeps its content, except the second   *)
(* one when the edit puts it in place.                                      *)
Gentle ==
    /\ File' = File /\ File # Absent => \A i \in Inode : ino[i] = File => ino'[i] = File
    /\ ~inplace' => /\ ~inplace
                    /\ ino'[1] = ino[1]
                    /\ ino'[2] = ino[2] \/ epc \notin Saving
    /\ epc \in Saving => epc' \in Saving

(* The third party is gentle ... *)
LEMMA WriteIsGentle ==
    ASSUME TypeOK, RemoteOK, Write
    PROVE  Gentle
<1>1. inplace' = (inplace \/ ino' # ino) /\ epc' = epc
  BY DEF Write, E!Observe
<1>2. QED
  BY <1>1, WriteShows DEF Gentle, TypeOK


(* ... and so is the edit. *)
LEMMA EditIsGentle ==
    ASSUME TypeOK, RemoteOK, EditAt, EditStep
    PROVE  Gentle
<1> USE DEF Gentle, RemoteOK, EditAt, Saving, EditStep, TypeOK, E!TypeOK, remote, E!remote
<1>1. CASE E!Stat
  BY <1>1 DEF E!Stat
<1>2. CASE E!HashHead
  BY <1>2 DEF E!HashHead, E!OpenFile
<1>3. CASE E!HashTail
  BY <1>3 DEF E!HashTail, E!ReadContent
<1>4. CASE E!ReadHead
  BY <1>4 DEF E!ReadHead, E!OpenFile
<1>5. CASE E!PullHead
  BY <1>5 DEF E!PullHead, E!OpenFile
<1>6. CASE E!ReadTail
  BY <1>6 DEF E!ReadTail, E!ReadContent
<1>7. CASE E!Editor
  BY <1>7 DEF E!Editor
<1>8. CASE E!CheckHead
  BY <1>8 DEF E!CheckHead, E!OpenFile
<1>9. CASE E!CheckTail
  BY <1>9 DEF E!CheckTail, E!ReadContent
<1>10. CASE E!Commit
  BY <1>10 DEF E!Commit
<1>11. CASE E!PushOpen
  BY <1>11 DEF E!PushOpen
<1>12. CASE E!PushHead
  BY <1>12 DEF E!PushHead
<1>13. CASE E!PushTail
  BY <1>13 DEF E!PushTail
<1>14. CASE E!Reply
  BY <1>14 DEF E!Reply
<1>15. CASE E!EditFails
  BY <1>15 DEF E!EditFails
<1>16. QED
  BY <1>1, <1>2, <1>3, <1>4, <1>5, <1>6, <1>7, <1>8, <1>9, <1>10, <1>11, <1>12, <1>13, <1>14,
     <1>15
     DEF E!Next, EditStep

(* A gentle step keeps everything that is known of the pull. *)
LEMMA GentleKeepsPull ==
    ASSUME TypeOK, TypeOK', RemoteOK, PullAt, LocalAt, UntouchedOK, VerifiedOK, WholeOK,
           PullIsExact, MismatchHasACause, P!Observe, Gentle
    PROVE  /\ PullAt' /\ LocalAt' /\ UntouchedOK' /\ VerifiedOK' /\ WholeOK'
           /\ PullIsExact' /\ MismatchHasACause'
<1>1. UNCHANGED <<req, ppc, base, vbase, announced, pfd, phead, vsize, local>>
  BY DEF P!Observe
<1>2. /\ touched' = (touched \/ File' # File)
      /\ vtouched' = (vtouched \/ File' # File)
  BY DEF P!Observe
<1>3. PullAt' /\ LocalAt'
  BY <1>1, <1>2 DEF PullAt, LocalAt, TypeOK, P!TypeOK
<1>4. UntouchedOK'
  BY <1>1, <1>2 DEF UntouchedOK, PullAt, Gentle, Entry, P!Pulled, P!FilePath, TypeOK, P!TypeOK
<1>5. VerifiedOK'
  BY <1>1, <1>2 DEF VerifiedOK, PullAt, Gentle, TypeOK, P!TypeOK
<1>6. WholeOK'
  BY <1>1 DEF WholeOK, PullAt, RemoteOK, Gentle, P!Pulled, P!FilePath, TypeOK, P!TypeOK
<1>7. PullIsExact' /\ MismatchHasACause'
  BY <1>1, <1>2
     DEF PullIsExact, P!PullIsExact, MismatchHasACause, P!MismatchHasACause, P!Pulled,
         P!FilePath, TypeOK, P!TypeOK
<1>8. QED
  BY <1>3, <1>4, <1>5, <1>6, <1>7

(* IInv holds initially. *)
LEMMA InitInv == Init => IInv
<1> SUFFICES ASSUME Init
             PROVE  IInv
  OBVIOUS
<1>1. PICK s \in 1 .. MaxSize : 
        ino = [i \in Inode |-> IF i = 1 THEN Content(1, 1, s) ELSE Empty]
  BY DEF Init
<1>2. ino \in [Inode -> Node] /\ ino[1] = Content(1, 1, s) /\ ino[2] = Empty
  BY <1>1, Consts
<1>3. TypeOK
  <2>1. /\ touched \in BOOLEAN /\ vtouched \in BOOLEAN /\ inplace \in BOOLEAN
        /\ away \in BOOLEAN /\ inline \in BOOLEAN
        /\ delivered \in BOOLEAN /\ raced \in BOOLEAN /\ lost \in BOOLEAN
    BY DEF Init, P!Init, E!Init
  <2>2. req \in PullRequests /\ req.dest \in Node
    BY Consts DEF Init, P!Init
  <2>3. Absent \in Node
    BY Consts
  <2>4. local \in [P!LocalPath -> Node]
    BY <2>2, <2>3 DEF Init, P!Init, P!LocalPath
  <2>5. /\ ppc = "sources" /\ base = "D" /\ vbase = "D" /\ announced = Absent /\ pfd = 0
        /\ phead = 0 /\ vsize = 0 /\ link = 1 /\ writes = 0
    BY DEF Init, P!Init
  <2>6. /\ epc = "stat" /\ asize = 0 /\ efd = 0 /\ ehead = 0
        /\ hashed = Absent /\ shown = Absent /\ tmp = Absent /\ saved = Absent
    BY DEF Init, E!Init
  <2>7. QED
    BY <1>2, <2>1, <2>2, <2>4, <2>5, <2>6, Consts, ClientsAssumption
       DEF TypeOK, P!TypeOK, E!TypeOK, P!LocalPath, P!Ends, E!Ends
<1>4. RemoteOK /\ EditAt /\ CheckOK /\ EditIsKept /\ UpdateLostNeedsRace
  BY <1>2
     DEF Init, P!Init, E!Init, RemoteOK, EditAt, CheckOK, EditIsKept, E!EditIsKept,
         UpdateLostNeedsRace, E!UpdateLostNeedsRace, Saving
<1>5. PullAt /\ LocalAt /\ UntouchedOK /\ VerifiedOK /\ WholeOK /\ PullIsExact
      /\ MismatchHasACause
  BY DEF Init, P!Init, PullAt, LocalAt, UntouchedOK, VerifiedOK, WholeOK, PullIsExact,
         P!PullIsExact, MismatchHasACause, P!MismatchHasACause, P!LocalPath, Verifying, Got,
         Placed
<1>6. QED
  BY <1>3, <1>4, <1>5 DEF IInv

(* Every step keeps IInv. *)
LEMMA NextInv == IInv /\ [Next]_vars => IInv'
<1> SUFFICES ASSUME IInv, [Next]_vars
             PROVE  IInv'
  OBVIOUS
<1> USE DEF IInv
<1>1. CASE PullStep
  BY <1>1, PullTypes, PullKeepsEdit, PullKeepsPosition, PullKeepsLocal, PullKeepsUntouched,
     PullKeepsVerified, PullKeepsWhole, PullEnds
<1>2. CASE EditStep
  <2>1. TypeOK' /\ RemoteOK' /\ EditAt' /\ EditIsKept' /\ CheckOK' /\ UpdateLostNeedsRace'
    BY <1>2, EditTypes, EditKeepsEdit, EditKeepsCheck
  <2>2. P!Observe /\ Gentle
    BY <1>2, EditIsGentle DEF EditStep
  <2>3. QED
    BY <2>1, <2>2, GentleKeepsPull
<1>3. CASE Write
  <2>1. TypeOK' /\ RemoteOK' /\ EditAt' /\ EditIsKept' /\ CheckOK' /\ UpdateLostNeedsRace'
    BY <1>3, WriteTypes, WriteKeepsEdit
  <2>2. P!Observe /\ Gentle
    BY <1>3, WriteIsGentle DEF Write
  <2>3. QED
    BY <2>1, <2>2, GentleKeepsPull
<1>4. CASE UNCHANGED vars
  <2>1. TypeOK'
    BY <1>4 DEF vars, pullVars, editVars, remote, TypeOK, P!TypeOK, E!TypeOK, P!Ends, E!Ends,
                P!LocalPath
  <2>2. RemoteOK' /\ EditAt' /\ CheckOK' /\ EditIsKept' /\ UpdateLostNeedsRace'
    BY <1>4 DEF vars, pullVars, editVars, remote, RemoteOK, EditAt, CheckOK, EditIsKept,
                E!EditIsKept, UpdateLostNeedsRace, E!UpdateLostNeedsRace
  <2>3. PullAt' /\ LocalAt' /\ UntouchedOK' /\ VerifiedOK' /\ WholeOK' /\ PullIsExact'
        /\ MismatchHasACause'
    BY <1>4 DEF vars, pullVars, editVars, remote, PullAt, LocalAt, UntouchedOK, VerifiedOK,
                WholeOK, PullIsExact, P!PullIsExact, MismatchHasACause, P!MismatchHasACause,
                P!Pulled, P!FilePath
  <2>4. QED
    BY <2>1, <2>2, <2>3
<1>5. QED
  BY <1>1, <1>2, <1>3, <1>4 DEF Next, Terminated

(* The inductive invariant holds in every reachable state. *)
THEOREM Invariance == Spec => []IInv
  BY InitInv, NextInv, PTL DEF Spec

(* Type correctness of the device's file and of both commands. *)
THEOREM TypesAreKept == Spec => []TypeOK
<1>1. IInv => TypeOK
  BY DEF IInv
<1>2. QED
  BY <1>1, Invariance, PTL

(* run_agent_transfer_pull: a pull that succeeds is an exact copy of a file *)
(* nobody touched, and with --verify sha256 of one that was left alone only *)
(* while it was verified.                                                   *)
THEOREM PullsAreExact == Spec => []PullIsExact
<1>1. IInv => PullIsExact
  BY DEF IInv
<1>2. QED
  BY <1>1, Invariance, PTL

(* A verification reports a mismatch only for a file somebody changed, or   *)
(* where the destination resolves to another path than before.              *)
THEOREM MismatchesHaveACause == Spec => []MismatchHasACause
<1>1. IInv => MismatchHasACause
  BY DEF IInv
<1>2. QED
  BY <1>1, Invariance, PTL

(* write_atomic_file: unless somebody writes in place, a pull under way     *)
(* while an edit is saved brings the old version or the new one.            *)
THEOREM AtomicSavesNeverTear == Spec => []AtomicSaveNeverTears
<1>1. IInv => AtomicSaveNeverTears
  BY DEF IInv, AtomicSaveNeverTears, WholeOK, Got, Verifying
<1>2. QED
  BY <1>1, Invariance, PTL

(* edit_command: what the user saved is in the temporary directory until    *)
(* all of it is on the device, wherever the command fails.                  *)
THEOREM EditsAreKept == Spec => []EditIsKept
<1>1. IInv => EditIsKept
  BY DEF IInv
<1>2. QED
  BY <1>1, Invariance, PTL

(* edit_command: a save replaces content the editor never showed only if    *)
(* the file was changed after its comparison had begun, or if its hash had  *)
(* been taken of other content than the editor was given.                   *)
THEOREM LostUpdatesNeedARace == Spec => []UpdateLostNeedsRace
<1>1. IInv => UpdateLostNeedsRace
  BY DEF IInv
<1>2. QED
  BY <1>1, Invariance, PTL

=============================================================================
