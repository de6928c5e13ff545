--------------------------- MODULE AgentFsProofs ----------------------------
(***************************************************************************)
(* Proofs about AgentFs, for any set of connections, paths, contents and   *)
(* requests.                                                               *)
(***************************************************************************)
EXTENDS AgentFs, SequenceTheorems, TLAPS

-----------------------------------------------------------------------------
(* Facts about the filesystem operators.                                    *)

(* A path is a non-empty sequence of names. *)
LEMMA PathIsSeq ==
    ASSUME NEW p \in Path
    PROVE  /\ p \in Seq(STRING \X Nat) /\ Len(p) \in Nat /\ Len(p) >= 1
           /\ Last(p) \in STRING \X Nat
<1>1. p \in Seq(STRING \X Nat) /\ p # << >>
  BY PathAssumption
<1>2. Len(p) \in Nat /\ Len(p) >= 1
  BY <1>1
<1>3. QED BY <1>1, <1>2 DEF Last

(* atomic_temp_path: the name of a temporary file carries its nonce. *)
LEMMA TempPathNonce ==
    ASSUME NEW p \in Path, NEW n \in Nat
    PROVE  Last(TempPath(p, n))[2] = n
<1>1. p \in Seq(STRING \X Nat) /\ Len(p) \in 1 .. Len(p) /\ Len(p) \in Nat
  BY PathIsSeq
<1>2. Len(TempPath(p, n)) = Len(p)
  BY <1>1 DEF TempPath
<1>3. TempPath(p, n)[Len(p)] = <<p[Len(p)][1], n>>
  BY <1>1 DEF TempPath
<1>4. QED BY <1>2, <1>3 DEF Last

(* Moving a subtree keeps the last name of every path in it. *)
LEMMA RebaseKeepsName ==
    ASSUME NEW q \in Path, NEW dst \in Path, NEW src \in Path, Under(q, dst)
    PROVE  Last(Rebase(q, dst, src)) = Last(q)
<1> DEFINE S == STRING \X Nat
           tl == SubSeq(q, Len(dst) + 1, Len(q))
<1>1. /\ q \in Seq(S) /\ dst \in Seq(S) /\ src \in Seq(S)
      /\ Len(q) \in Nat /\ Len(dst) \in Nat /\ Len(src) \in Nat
      /\ Len(q) > Len(dst)
  BY PathIsSeq DEF Under
<1>2. /\ tl \in Seq(S) /\ Len(tl) = Len(q) - Len(dst)
      /\ tl[Len(q) - Len(dst)] = q[Len(q)]
  BY <1>1
<1>3. /\ Len(src \o tl) = Len(src) + Len(tl)
      /\ (src \o tl)[Len(src) + Len(tl)] = tl[Len(tl)]
  <2> HIDE DEF tl, S
  <2>1. Len(src \o tl) = Len(src) + Len(tl)
    BY <1>1, <1>2, ConcatProperties
  <2>2. Len(tl) \in Nat /\ Len(tl) >= 1
    BY <1>1, <1>2
  <2>3. Len(src) + Len(tl) \in 1 .. (Len(src) + Len(tl))
    BY <1>1, <2>2
  <2>4. ~(Len(src) + Len(tl) <= Len(src)) /\ (Len(src) + Len(tl)) - Len(src) = Len(tl)
    BY <1>1, <2>2
  <2>5. (src \o tl)[Len(src) + Len(tl)] = tl[Len(src) + Len(tl) - Len(src)]
    BY <1>1, <1>2, <2>3, <2>4, ConcatProperties
  <2>6. QED BY <2>1, <2>4, <2>5
<1>4. QED BY <1>2, <1>3 DEF Last, Rebase

(* rename(2): whatever it leaves at a path was there before, at a path with *)
(* the same last name, or is the source that took the destination's name.   *)
LEMMA RenameEffect ==
    ASSUME NEW t \in Tree, NEW src \in Path, NEW dst \in Path
    PROVE  \A q \in Path :
                \/ Rename(t, src, dst)[q] = Absent
                \/ q = dst /\ Rename(t, src, dst)[q] = t[src]
                \/ \E r \in Path : Last(r) = Last(q) /\ Rename(t, src, dst)[q] = t[r]
<1>1. CASE src = dst
  BY <1>1 DEF Rename, Tree
<1>2. CASE src # dst
  <2>2. ASSUME NEW q \in Path, Under(q, dst)
        PROVE  \/ Rename(t, src, dst)[q] = Absent
               \/ \E r \in Path : Last(r) = Last(q) /\ Rename(t, src, dst)[q] = t[r]
    BY <1>2, <2>2, RebaseKeepsName DEF Rename
  <2>3. \/ Rename(t, src, dst)[dst] = Absent
        \/ Rename(t, src, dst)[dst] = t[src]
    <3>1. dst \in Seq(STRING \X Nat) /\ src \in Seq(STRING \X Nat)
      BY PathIsSeq
    <3>2. SubSeq(dst, Len(dst) + 1, Len(dst)) = << >>
      BY <3>1
    <3>3. Rebase(dst, dst, src) = src
      BY <3>1, <3>2 DEF Rebase
    <3>4. QED BY <1>2, <3>3 DEF Rename
  <2>4. ASSUME NEW q \in Path, q # dst, ~Under(q, dst)
        PROVE  Rename(t, src, dst)[q] \in {Absent, t[q]}
    BY <1>2, <2>4 DEF Rename
  <2>5. QED BY <2>2, <2>3, <2>4
<1>3. QED BY <1>1, <1>2

(* The calls that change the tree keep it a tree. *)
LEMMA TreeOperators ==
    ASSUME NEW t \in Tree
    PROVE  \A p, q : /\ CreateDirAll(t, p) \in Tree
                     /\ RemoveTree(t, p) \in Tree
                     /\ Rename(t, p, q) \in Tree
                     /\ \A n \in Node : Link(t, p, n) \in Tree
<1> SUFFICES ASSUME NEW p, NEW q
             PROVE  /\ CreateDirAll(t, p) \in Tree
                    /\ RemoveTree(t, p) \in Tree
                    /\ Rename(t, p, q) \in Tree
                    /\ \A n \in Node : Link(t, p, n) \in Tree
  OBVIOUS
<1>1. CreateDirAll(t, p) \in Tree /\ RemoveTree(t, p) \in Tree
  BY DEF CreateDirAll, RemoveTree, Tree, Node
<1>2. Rename(t, p, q) \in Tree
  BY DEF Rename, Tree, Node
<1>3. \A n \in Node : Link(t, p, n) \in Tree
  BY DEF Link, Tree
<1>4. QED BY <1>1, <1>2, <1>3

-----------------------------------------------------------------------------
(* Type correctness.                                                        *)

(* The initial state is well typed. *)
LEMMA InitTypeOK == Init => TypeOK
BY InitAssumption, CrashAssumption DEF Init, TypeOK, Tree, Node, Data, PC, Codes

(* The fields of a request that has been received. *)
LEMMA RequestTyped ==
    ASSUME TypeOK, NEW c \in Conn, Started(c)
    PROVE  /\ req[c] \in Requests
           /\ req[c].op \in {"stat", "read", "write", "mkdir", "rm", "move"}
           /\ req[c].path \in Path /\ req[c].dest \in Path /\ Target(c) \in Path
           /\ req[c].content \in Content
           /\ req[c].atomic \in BOOLEAN /\ req[c].ifMissing \in BOOLEAN
           /\ req[c].ifSha \in Content \cup {NoSha}
           /\ IsUserPath(req[c].path) /\ IsUserPath(req[c].dest)
BY RequestAssumption DEF TypeOK, Started, Request, Target

(* What a client finds at a path is nothing, a directory or some bytes. *)
LEMMA ViewTyped ==
    ASSUME TypeOK, NEW p \in Path
    PROVE  tree[p] \in Node /\ View(p) \in Data \cup {Absent, Dir}
BY DEF TypeOK, Tree, Node, View, IsFile

(* A failed lookup is reported with an error code (classify_fs_error). *)
LEMMA CodeTyped == ASSUME NEW p PROVE LookupError(p) \in Codes
BY DEF LookupError, Codes

(* Every call of every handler keeps the state well typed. *)
LEMMA StepTypeOK ==
    ASSUME TypeOK, NEW c \in Conn, Step(c), Track(c)
    PROVE  TypeOK'
<1> USE DEF TypeOK, Continue, Finish, Goto, WriteFails, fsVars, readVars
<1>0. overlap' \in [Conn -> BOOLEAN]
  BY DEF Track
<1>r. /\ Running(c) => Started(c)
      /\ c \in Inode
  BY ConnAssumption DEF Running, Started
<1>t. \A p, q : /\ CreateDirAll(tree, p) \in Tree /\ RemoveTree(tree, p) \in Tree
                /\ Rename(tree, p, q) \in Tree
                /\ Link(tree, p, Absent) \in Tree /\ Link(tree, p, Dir) \in Tree
                /\ \A n \in Inode : Link(tree, p, n) \in Tree
  BY TreeOperators DEF Node
<1>1. CASE Receive(c)
  <2>1. PICK r \in Requests : /\ req' = [req EXCEPT ![c] = r]
                             /\ IF r.bad THEN Finish(c, "InvalidRequest")
                                ELSE Continue(c, FirstStep(r))
    BY <1>1 DEF Receive
  <2>2. FirstStep(r) \in {"mkparents", "stat", "stat_source"}
    BY DEF FirstStep
  <2>3. r # Nothing
    BY RequestAssumption, TokenAssumption
  <2>4. pc' \in [Conn -> PC] /\ pc'[c] \notin {"read_rest", "write"}
        /\ reply' \in [Conn -> Codes \cup {"none", "ok"}]
        /\ \A d \in Conn : d # c => pc'[d] = pc[d]
    BY <2>1, <2>2 DEF PC, Codes
  <2>5. QED BY <1>1, <1>0, <2>1, <2>3, <2>4 DEF Receive
<1>2. CASE WriteMkParents(c)
  <2>1. tree' \in Tree
    <3>1. tree' = tree \/ tree' = CreateDirAll(tree, Parent(req[c].path))
      BY <1>2 DEF WriteMkParents
    <3>2. QED BY <1>t, <3>1
  <2>2. QED BY <1>2, <1>0, <1>r, <2>1, CodeTyped DEF WriteMkParents, PC, Codes
<1>3. CASE WriteStat(c)
  <2>1. Started(c) /\ tree[req[c].path] \in Node
    BY <1>3, <1>r, RequestTyped, ViewTyped DEF WriteStat, Running
  <2>2. changed' \in [Conn -> BOOLEAN]
    BY <1>3 DEF WriteStat
  <2>3. pc' \in [Conn -> PC] /\ pc'[c] \notin {"read_rest", "write"}
        /\ reply' \in [Conn -> Codes \cup {"none", "ok"}] /\ \A d \in Conn : d # c => pc'[d] = pc[d]
    BY <1>3 DEF WriteStat, PC, Codes
  <2>4. seen' \in [Conn -> Node]
    BY <1>3, <2>1 DEF WriteStat
  <2>5. QED BY <1>3, <1>0, <2>1, <2>2, <2>3, <2>4 DEF WriteStat, Started
<1>4. CASE OpenDirect(c)
  <2> DEFINE p == req[c].path
             n == IF tree[p] = Absent THEN c ELSE tree[p]
  <2>1. Started(c) /\ p \in Path /\ tree[p] \in Node /\ View(p) \in Data \cup {Absent, Dir}
    BY <1>4, <1>r, RequestTyped, ViewTyped DEF OpenDirect, Running
  <2>2. CASE tree[p] # Dir /\ HasParent(tree, p)
    <3>1. n \in Inode /\ n \in Node /\ n # Nothing
      BY <1>r, <2>1, <2>2, TokenAssumption DEF Node
    <3>2. tree' \in Tree
      BY <1>4, <2>2, <3>1, <1>t DEF OpenDirect
    <3>3. data' \in [Inode -> Data]
      BY <1>4, <2>2, <3>1 DEF OpenDirect, Data
    <3>4. fd' \in [Conn -> Inode \cup {Nothing}] /\ fd'[c] # Nothing
          /\ \A d \in Conn : d # c => fd'[d] = fd[d]
      BY <1>4, <2>2, <3>1 DEF OpenDirect
    <3>5. replaced' \in [Conn -> Data \cup {Absent, Dir, Nothing}]
      BY <1>4, <2>1, <2>2 DEF OpenDirect
    <3>6. QED BY <1>4, <1>0, <2>1, <2>2, <3>2, <3>3, <3>4, <3>5 DEF OpenDirect, PC, Started
  <2>3. CASE ~(tree[p] # Dir /\ HasParent(tree, p))
    BY <1>4, <1>0, <2>3, CodeTyped DEF OpenDirect, PC, Codes
  <2>4. QED BY <2>2, <2>3
<1>5. CASE OpenTemp(c)
  <2>1. PICK n \in Nonce :
          LET t == TempPath(req[c].path, n) IN
          /\ nonce' = [nonce EXCEPT ![c] = n]
          /\ IF tree[t] = Absent /\ HasParent(tree, t)
             THEN /\ tree' = Link(tree, t, c)
                  /\ data' = [data EXCEPT ![c] = Empty]
                  /\ fd' = [fd EXCEPT ![c] = c]
                  /\ Continue(c, "write")
             ELSE /\ WriteFails(c, IF tree[t] = Absent THEN LookupError(t) ELSE "Internal")
                  /\ UNCHANGED <<fsVars, fd>>
    BY <1>5 DEF OpenTemp
  <2>2. nonce' \in [Conn -> Nonce \cup {0}]
    BY <2>1
  <2>3. tree' \in Tree /\ data' \in [Inode -> Data]
    <3>1. \/ UNCHANGED <<tree, data>>
          \/ /\ tree' = Link(tree, TempPath(req[c].path, n), c)
             /\ data' = [data EXCEPT ![c] = Empty]
      BY <2>1
    <3>2. tree' \in Tree
      <4>1. tree' = tree \/ tree' = Link(tree, TempPath(req[c].path, n), c)
        BY <3>1
      <4>2. c \in Inode
        BY <1>r
      <4>3. tree \in Tree
        BY DEF TypeOK
      <4>4. QED BY ONLY <1>t, <4>1, <4>2, <4>3
    <3>3. data' \in [Inode -> Data]
      BY <3>1 DEF Data
    <3>4. QED BY <3>2, <3>3
  <2>4. c # Nothing
    BY <1>r, TokenAssumption
  <2>5. QED BY <1>5, <1>0, <1>r, <2>1, <2>2, <2>3, <2>4, CodeTyped DEF OpenTemp, PC, Codes
<1>6. CASE WriteData(c)
  BY <1>6, <1>0, <1>r, CodeTyped, RequestTyped DEF WriteData, PC, Codes, Overwrite, Data, Running
<1>7. CASE WriteChmod(c)
  BY <1>7, <1>0, <1>r, CodeTyped DEF WriteChmod, PC, Codes
<1>8. CASE RenameTemp(c)
  BY <1>8, <1>0, <1>r, CodeTyped, <1>t, RequestTyped, ViewTyped DEF RenameTemp, PC, Codes, Running
<1>9. CASE CleanupTemp(c)
  BY <1>9, <1>0, <1>r, CodeTyped, <1>t DEF CleanupTemp, PC, Codes, Node
<1>10. CASE ReadStat(c)
  BY <1>10, <1>0, <1>r, CodeTyped, RequestTyped, ViewTyped DEF ReadStat, PC, Codes, Running
<1>11. CASE OpenForRead(c)
  <2>1. Started(c) /\ tree[req[c].path] \in Node
    BY <1>11, <1>r, RequestTyped, ViewTyped DEF OpenForRead, Running
  <2>2. CASE IsFile(tree[req[c].path])
    <3>1. tree[req[c].path] \in Inode /\ tree[req[c].path] # Nothing
      BY <2>2, TokenAssumption DEF IsFile
    <3>2. half' \in [Conn -> Data] /\ fd' \in [Conn -> Inode \cup {Nothing}] /\ fd'[c] # Nothing
          /\ \A d \in Conn : d # c => fd'[d] = fd[d]
      BY <1>11, <2>2, <3>1 DEF OpenForRead
    <3>3. QED BY <1>11, <1>0, <2>1, <2>2, <3>2 DEF OpenForRead, PC, Started
  <2>3. CASE ~IsFile(tree[req[c].path])
    <3>1. (IF tree[req[c].path] = Dir THEN "Internal" ELSE LookupError(req[c].path)) \in Codes
      BY CodeTyped DEF Codes
    <3>2. QED BY <1>11, <1>0, <2>1, <2>3, <3>1 DEF OpenForRead, PC, Started
  <2>4. QED BY <2>2, <2>3
<1>12. CASE ReadRest(c)
  <2>1. PICK e \in Spliced(half[c], data[fd[c]]) :
          /\ got' = [got EXCEPT ![c] = e]
          /\ \/ Finish(c, "ok") /\ UNCHANGED changed
             \/ Finish(c, "InvalidRequest") /\ UNCHANGED changed
             \/ Finish(c, "FsPreconditionFailed") /\ UNCHANGED changed
             \/ /\ changed' = [changed EXCEPT ![c] = @ \/ e # req[c].content]
                /\ Continue(c, "open")
    BY <1>12 DEF ReadRest
  <2>2. e \in Data
    BY <1>12, <1>r DEF ReadRest, Spliced, Data
  <2>3. changed' \in [Conn -> BOOLEAN]
    BY <2>1
  <2>4. QED BY <1>12, <1>0, <2>1, <2>2, <2>3 DEF ReadRest, PC, Codes
<1>13. CASE MkdirStat(c)
  BY <1>13, <1>0, <1>r, CodeTyped DEF MkdirStat, PC, Codes
<1>14. CASE MkdirCreate(c)
  <2>1. tree' \in Tree
    <3>1. \/ tree' = tree
          \/ tree' = CreateDirAll(tree, req[c].path)
          \/ tree' = Link(tree, req[c].path, Dir)
      BY <1>14 DEF MkdirCreate
    <3>2. QED BY <1>t, <3>1
  <2>2. QED BY <1>14, <1>0, <1>r, <2>1, CodeTyped DEF MkdirCreate, PC, Codes
<1>15. CASE MkdirChmod(c)
  BY <1>15, <1>0, <1>r, CodeTyped DEF MkdirChmod, PC, Codes
<1>16. CASE RmStat(c)
  BY <1>16, <1>0, <1>r, CodeTyped, RequestTyped, ViewTyped DEF RmStat, PC, Codes, Running
<1>17. CASE RmRemove(c)
  <2>1. tree' \in Tree
    BY <1>17, <1>t DEF RmRemove
  <2>2. QED BY <1>17, <1>0, <1>r, <2>1, CodeTyped DEF RmRemove, PC, Codes
<1>18. CASE MoveStatSource(c)
  BY <1>18, <1>0, <1>r, CodeTyped DEF MoveStatSource, PC, Codes
<1>19. CASE MoveStatDest(c)
  BY <1>19, <1>0, <1>r, CodeTyped, RequestTyped, ViewTyped DEF MoveStatDest, PC, Codes, Running
<1>20. CASE MoveRemove(c)
  <2>1. tree' \in Tree
    <3>1. tree' = tree \/ tree' = RemoveTree(tree, req[c].dest)
      BY <1>20 DEF MoveRemove
    <3>2. QED BY <1>t, <3>1
  <2>2. (IF tree[req[c].dest] = Absent THEN LookupError(req[c].dest) ELSE "Internal") \in Codes
    BY CodeTyped DEF Codes
  <2>3. QED BY <1>20, <1>0, <1>r, <2>1, <2>2 DEF MoveRemove, PC
<1>21. CASE MoveRename(c)
  BY <1>21, <1>0, <1>r, CodeTyped, <1>t, RequestTyped, ViewTyped DEF MoveRename, PC, Codes, Running
<1>22. QED
  BY <1>1, <1>2, <1>3, <1>4, <1>5, <1>6, <1>7, <1>8, <1>9, <1>10, <1>11, <1>12, <1>13, <1>14,
     <1>15, <1>16, <1>17, <1>18, <1>19, <1>20, <1>21 DEF Step

(* TypeOK is an invariant. *)
THEOREM TypeCorrect == Spec => []TypeOK
<1>1. TypeOK /\ [Next]_vars => TypeOK'
  <2> SUFFICES ASSUME TypeOK, [Next]_vars PROVE TypeOK'
    OBVIOUS
  <2>1. CASE Crash
    BY <2>1, CrashAssumption DEF Crash, TypeOK, PC, Running, fsVars, readVars
  <2>2. CASE UNCHANGED vars
    BY <2>2 DEF vars, TypeOK
  <2>3. QED BY <2>1, <2>2, StepTypeOK DEF Next, Terminated
<1>2. QED BY <1>1, InitTypeOK, PTL DEF Spec

-----------------------------------------------------------------------------
(* What a step of c leaves alone.                                           *)

(* A call leaves the other handlers' state alone, and of its own handler's   *)
(* the request, the nonce and the files except at the steps that set them.   *)
LEMMA StepFrame ==
    ASSUME TypeOK, NEW c \in Conn, Step(c)
    PROVE  /\ \A d \in Conn \ {c} : pc'[d] = pc[d] /\ req'[d] = req[d]
                                    /\ nonce'[d] = nonce[d] /\ fd'[d] = fd[d]
           /\ pc[c] # "idle" => req' = req
           /\ pc[c] # "open" => nonce' = nonce
           /\ pc[c] \notin {"open", "write"} => data' = data
           /\ pc[c] \notin {"done", "dead"}
           /\ pc'[c] \notin {"idle", "dead"}
<1> USE DEF TypeOK, Continue, Finish, Goto, WriteFails, fsVars, readVars
<1>1. CASE Receive(c)
  BY <1>1 DEF Receive, FirstStep
<1>2. CASE WriteMkParents(c)
  BY <1>2 DEF WriteMkParents
<1>3. CASE WriteStat(c)
  BY <1>3 DEF WriteStat
<1>4. CASE OpenDirect(c)
  BY <1>4 DEF OpenDirect
<1>5. CASE OpenTemp(c)
  BY <1>5 DEF OpenTemp
<1>6. CASE WriteData(c)
  BY <1>6 DEF WriteData
<1>7. CASE WriteChmod(c)
  BY <1>7 DEF WriteChmod
<1>8. CASE RenameTemp(c)
  BY <1>8 DEF RenameTemp
<1>9. CASE CleanupTemp(c)
  BY <1>9 DEF CleanupTemp
<1>10. CASE ReadStat(c)
  BY <1>10 DEF ReadStat
<1>11. CASE OpenForRead(c)
  BY <1>11 DEF OpenForRead
<1>12. CASE ReadRest(c)
  BY <1>12 DEF ReadRest
<1>13. CASE MkdirStat(c)
  BY <1>13 DEF MkdirStat
<1>14. CASE MkdirCreate(c)
  BY <1>14 DEF MkdirCreate
<1>15. CASE MkdirChmod(c)
  BY <1>15 DEF MkdirChmod
<1>16. CASE RmStat(c)
  BY <1>16 DEF RmStat
<1>17. CASE RmRemove(c)
  BY <1>17 DEF RmRemove
<1>18. CASE MoveStatSource(c)
  BY <1>18 DEF MoveStatSource
<1>19. CASE MoveStatDest(c)
  BY <1>19 DEF MoveStatDest
<1>20. CASE MoveRemove(c)
  BY <1>20 DEF MoveRemove
<1>21. CASE MoveRename(c)
  BY <1>21 DEF MoveRename
<1>22. QED
  BY <1>1, <1>2, <1>3, <1>4, <1>5, <1>6, <1>7, <1>8, <1>9, <1>10, <1>11, <1>12, <1>13, <1>14,
     <1>15, <1>16, <1>17, <1>18, <1>19, <1>20, <1>21 DEF Step

-----------------------------------------------------------------------------
(* Preservation of each part of the inductive invariant by a step of c.     *)

(* Every call keeps each handler at a step of its own operation. *)
LEMMA StepPhases ==
    ASSUME TypeOK, Phases, NEW c \in Conn, Step(c)
    PROVE  Phases'
<1> USE DEF Continue, Finish, Goto, WriteFails, IsAtomic, IsDirect, fsVars, readVars
<1>0. /\ pc \in [Conn -> PC] /\ req \in [Conn -> Requests \cup {Nothing}]
      /\ nonce \in [Conn -> Nonce \cup {0}]
  BY DEF TypeOK
<1>d. ASSUME NEW d \in Conn, d # c
      PROVE  pc'[d] = pc[d] /\ req'[d] = req[d] /\ nonce'[d] = nonce[d]
  BY <1>d, StepFrame
<1>1. CASE Receive(c)
  BY <1>1, <1>0, <1>d DEF Receive, Phases, FirstStep
<1>2. CASE WriteMkParents(c)
  BY <1>2, <1>0, <1>d DEF WriteMkParents, Phases
<1>3. CASE WriteStat(c)
  BY <1>3, <1>0, <1>d DEF WriteStat, Phases
<1>4. CASE OpenDirect(c)
  BY <1>4, <1>0, <1>d DEF OpenDirect, Phases
<1>5. CASE OpenTemp(c)
  BY <1>5, <1>0, <1>d DEF OpenTemp, Phases
<1>6. CASE WriteData(c)
  BY <1>6, <1>0, <1>d DEF WriteData, Phases
<1>7. CASE WriteChmod(c)
  BY <1>7, <1>0, <1>d DEF WriteChmod, Phases
<1>8. CASE RenameTemp(c)
  BY <1>8, <1>0, <1>d DEF RenameTemp, Phases
<1>9. CASE CleanupTemp(c)
  BY <1>9, <1>0, <1>d DEF CleanupTemp, Phases
<1>10. CASE ReadStat(c)
  BY <1>10, <1>0, <1>d DEF ReadStat, Phases
<1>11. CASE OpenForRead(c)
  BY <1>11, <1>0, <1>d DEF OpenForRead, Phases
<1>12. CASE ReadRest(c)
  BY <1>12, <1>0, <1>d DEF ReadRest, Phases
<1>13. CASE MkdirStat(c)
  BY <1>13, <1>0, <1>d DEF MkdirStat, Phases
<1>14. CASE MkdirCreate(c)
  BY <1>14, <1>0, <1>d DEF MkdirCreate, Phases
<1>15. CASE MkdirChmod(c)
  BY <1>15, <1>0, <1>d DEF MkdirChmod, Phases
<1>16. CASE RmStat(c)
  BY <1>16, <1>0, <1>d DEF RmStat, Phases
<1>17. CASE RmRemove(c)
  BY <1>17, <1>0, <1>d DEF RmRemove, Phases
<1>18. CASE MoveStatSource(c)
  BY <1>18, <1>0, <1>d DEF MoveStatSource, Phases
<1>19. CASE MoveStatDest(c)
  BY <1>19, <1>0, <1>d DEF MoveStatDest, Phases
<1>20. CASE MoveRemove(c)
  <2>1. /\ pc' = [pc EXCEPT ![c] = "move"] \/ pc' = [pc EXCEPT ![c] = "done"]
        /\ req[c].op = "move" /\ UNCHANGED <<req, nonce>>
    BY <1>20 DEF MoveRemove
  <2>2. QED BY <1>0, <1>d, <2>1 DEF Phases
<1>21. CASE MoveRename(c)
  BY <1>21, <1>0, <1>d DEF MoveRename, Phases
<1>22. QED
  BY <1>1, <1>2, <1>3, <1>4, <1>5, <1>6, <1>7, <1>8, <1>9, <1>10, <1>11, <1>12, <1>13, <1>14,
     <1>15, <1>16, <1>17, <1>18, <1>19, <1>20, <1>21 DEF Step

(* atomic_temp_path: two writes that have the same nonce keep it. *)
LEMMA StepNonces ==
    ASSUME TypeOK, Phases, NEW c \in Conn, Step(c), NoncesDistinct'
    PROVE  NoncesDistinct
<1>1. ASSUME NEW d \in Conn, nonce[d] # 0 PROVE nonce'[d] = nonce[d]
  BY <1>1, StepFrame DEF Phases
<1>2. QED BY <1>1 DEF NoncesDistinct

(* Once a file is out of its creator's reach it stays so. *)
LEMMA SettledStable ==
    ASSUME TypeOK, Phases, NEW c \in Conn, Step(c), NEW d \in Conn, Settled(d)
    PROVE  Settled(d)'
<1>1. CASE d # c
  BY <1>1, StepFrame DEF Settled, IsAtomic
<1>2. CASE d = c
  <2>1. pc[c] \in {"write", "chmod"} /\ ~IsAtomic(c) /\ req' = req
    BY <1>2, StepFrame DEF Settled
  <2>2. WriteData(c) \/ WriteChmod(c) \/ MkdirChmod(c)
    BY <2>1 DEF Step, Receive, WriteMkParents, WriteStat, OpenDirect, OpenTemp, RenameTemp,
         CleanupTemp, ReadStat, OpenForRead, ReadRest, MkdirStat, MkdirCreate, RmStat,
         RmRemove, MoveStatSource, MoveStatDest, MoveRemove, MoveRename
  <2>3. pc'[c] \in {"chmod", "done"}
    BY <2>1, <2>2 DEF WriteData, WriteChmod, MkdirChmod, WriteFails, Finish, Continue, Goto, TypeOK
  <2>4. QED BY <1>2, <2>1, <2>3 DEF Settled, IsAtomic
<1>3. QED BY <1>1, <1>2

(* A directory above a path is not a temporary file. *)
LEMMA AboveIsUserPath ==
    ASSUME NEW p \in Path, NEW q \in Path, Under(p, q)
    PROVE  IsUserPath(q)
<1>1. /\ p \in Seq(STRING \X Nat) /\ q \in Seq(STRING \X Nat)
      /\ Len(p) \in Nat /\ Len(q) \in Nat /\ Len(q) >= 1
  BY PathIsSeq
<1>2. Len(q) < Len(p) /\ SubSeq(p, 1, Len(q)) = q
  BY <1>1 DEF Under
<1>3. Len(q) \in 1 .. Len(p) - 1 /\ q[Len(q)] = p[Len(q)]
  BY <1>1, <1>2
<1>4. QED BY <1>3, PathAssumption DEF IsUserPath, Last

(* Where whatever a step leaves at a path comes from. *)
TreeOrigin(c, q) ==
    \/ tree'[q] = Absent
    \/ tree'[q] = Dir /\ IsUserPath(q)
    \/ \E r \in Path : Last(r)[2] = Last(q)[2] /\ tree'[q] = tree[r]
    \/ OpenDirect(c) /\ pc'[c] = "write" /\ tree'[q] = c /\ IsUserPath(q)
    \/ OpenTemp(c) /\ pc'[c] = "write" /\ tree'[q] = c /\ Last(q)[2] = nonce'[c]
       /\ nonce'[c] \in Nonce
    \/ RenameTemp(c) /\ pc'[c] = "done" /\ IsUserPath(q) /\ tree'[q] = tree[Temp(c)]
       /\ tree[Temp(c)] # Absent

(* create_dir_all only adds directories. *)
LEMMA CreateDirAllOrigin ==
    ASSUME TypeOK, NEW c \in Conn, NEW p \in Path, IsUserPath(p),
           tree' = CreateDirAll(tree, p), NEW q \in Path
    PROVE  TreeOrigin(c, q)
BY AboveIsUserPath DEF TreeOrigin, CreateDirAll, TypeOK, Tree

(* A removal only takes away. *)
LEMMA RemoveTreeOrigin ==
    ASSUME TypeOK, NEW c \in Conn, NEW p, tree' = RemoveTree(tree, p), NEW q \in Path
    PROVE  TreeOrigin(c, q)
BY DEF TreeOrigin, RemoveTree, TypeOK, Tree

(* What is linked at a path after a call of a handler was linked there or   *)
(* at a path with the same last name before, is a directory, is the file    *)
(* the handler created, or is the temporary file it renamed.                *)
LEMMA StepTree ==
    ASSUME TypeOK, Phases, NEW c \in Conn, Step(c), NEW q \in Path
    PROVE  TreeOrigin(c, q)
<1> USE DEF fsVars
<1>0. ASSUME UNCHANGED tree PROVE TreeOrigin(c, q)
  BY <1>0 DEF TreeOrigin
<1>r. pc[c] \notin {"idle", "dead"} => /\ Started(c) /\ req[c] \in Requests
                    /\ req[c].path \in Path /\ req[c].dest \in Path
                    /\ IsUserPath(req[c].path) /\ IsUserPath(req[c].dest)
  BY RequestTyped DEF TypeOK, Started
<1>t. tree \in Tree /\ \A p \in Path : tree[p] \in Node
  BY DEF TypeOK, Tree
<1>1. CASE WriteMkParents(c)
  <2>1. PICK p : /\ p = Parent(req[c].path)
                 /\ \/ tree' = tree
                    \/ p # << >> /\ tree' = CreateDirAll(tree, p)
    BY <1>1 DEF WriteMkParents
  <2>2. ASSUME p # << >> PROVE p \in Path /\ IsUserPath(p)
    <3> DEFINE x == req[c].path
    <3>1. x \in Path /\ x \in Seq(STRING \X Nat) /\ Len(x) \in Nat /\ Len(x) >= 1
      BY <1>1, <1>r, PathIsSeq DEF WriteMkParents
    <3>2. p = SubSeq(x, 1, Len(x) - 1)
      BY <2>1 DEF Parent
    <3> HIDE DEF x
    <3>3. Len(x) > 1 /\ Len(p) = Len(x) - 1
      BY <2>2, <3>1, <3>2
    <3>4. p \in Path
      BY <3>1, <3>2, <3>3, PathAssumption
    <3>5. Under(x, p)
      BY <3>1, <3>2, <3>3 DEF Under
    <3>6. QED BY <3>1, <3>4, <3>5, AboveIsUserPath
  <2>3. QED BY <1>0, <2>1, <2>2, CreateDirAllOrigin
<1>2. CASE MkdirCreate(c)
  <2>1. \/ tree' = tree
        \/ tree' = CreateDirAll(tree, req[c].path)
        \/ tree' = Link(tree, req[c].path, Dir)
    BY <1>2 DEF MkdirCreate
  <2>2. req[c].path \in Path /\ IsUserPath(req[c].path)
    BY <1>2, <1>r DEF MkdirCreate
  <2>3. ASSUME tree' = Link(tree, req[c].path, Dir) PROVE TreeOrigin(c, q)
    BY <1>t, <2>2, <2>3 DEF Link, Tree, TreeOrigin
  <2>4. QED BY <1>0, <2>1, <2>2, <2>3, CreateDirAllOrigin
<1>3. CASE OpenDirect(c)
  <2>1. req[c].path \in Path /\ IsUserPath(req[c].path)
    BY <1>3, <1>r DEF OpenDirect
  <2>2. \/ tree' = tree
        \/ /\ pc' = [pc EXCEPT ![c] = "write"]
           /\ tree' = Link(tree, req[c].path,
                           IF tree[req[c].path] = Absent THEN c ELSE tree[req[c].path])
    BY <1>3 DEF OpenDirect, Continue, Goto
  <2>3. QED BY <1>0, <1>3, <1>t, <2>1, <2>2 DEF Link, Tree, TreeOrigin, TypeOK
<1>4. CASE OpenTemp(c)
  <2>1. PICK n \in Nonce :
          /\ nonce' = [nonce EXCEPT ![c] = n]
          /\ \/ tree' = tree
             \/ /\ tree' = Link(tree, TempPath(req[c].path, n), c)
                /\ pc' = [pc EXCEPT ![c] = "write"]
    BY <1>4 DEF OpenTemp, Continue, Goto
  <2>2. req[c].path \in Path /\ n \in Nonce /\ n \in Nat
    BY <1>4, <1>r, NonceAssumption DEF OpenTemp
  <2>3. nonce'[c] = n
    BY <2>1 DEF TypeOK
  <2>4. Last(TempPath(req[c].path, n))[2] = n
    BY <2>2, TempPathNonce
  <2>5. QED BY <1>0, <1>4, <1>t, <2>1, <2>2, <2>3, <2>4 DEF Link, Tree, TreeOrigin, TypeOK
<1>5. CASE RenameTemp(c)
  <2>1. /\ req[c].path \in Path /\ IsUserPath(req[c].path)
        /\ Temp(c) \in Path
    <3>1. req[c].op = "write" /\ IsAtomic(c) /\ nonce[c] \in Nonce
      BY <1>5 DEF Phases, RenameTemp, IsAtomic
    <3>2. QED BY <1>5, <1>r, <3>1, RequestAssumption DEF RenameTemp, Temp
  <2>2. \/ tree' = tree
        \/ /\ tree' = Rename(tree, Temp(c), req[c].path)
           /\ pc' = [pc EXCEPT ![c] = "done"]
           /\ tree[Temp(c)] # Absent
    BY <1>5 DEF RenameTemp, Finish, Goto, CanRename
  <2>3. CASE tree' = Rename(tree, Temp(c), req[c].path)
    <3>1. \/ tree'[q] = Absent
          \/ q = req[c].path /\ tree'[q] = tree[Temp(c)]
          \/ \E r \in Path : Last(r) = Last(q) /\ tree'[q] = tree[r]
      BY <1>t, <2>1, <2>3, RenameEffect
    <3>2. QED BY <1>0, <1>5, <2>1, <2>2, <3>1 DEF TreeOrigin, TypeOK
  <2>4. QED BY <1>0, <2>2, <2>3
<1>6. CASE CleanupTemp(c)
  BY <1>6, <1>t DEF CleanupTemp, Link, Tree, TreeOrigin
<1>7. CASE RmRemove(c)
  <2>1. tree' = tree \/ tree' = RemoveTree(tree, req[c].path)
    BY <1>7 DEF RmRemove
  <2>2. QED BY <1>0, <2>1, RemoveTreeOrigin
<1>8. CASE MoveRemove(c)
  <2>1. tree' = tree \/ tree' = RemoveTree(tree, req[c].dest)
    BY <1>8 DEF MoveRemove
  <2>2. QED BY <1>0, <2>1, RemoveTreeOrigin
<1>9. CASE MoveRename(c)
  <2>1. /\ req[c].path \in Path /\ IsUserPath(req[c].path)
        /\ req[c].dest \in Path /\ IsUserPath(req[c].dest)
    BY <1>9, <1>r DEF MoveRename
  <2>2. tree' = tree \/ tree' = Rename(tree, req[c].path, req[c].dest)
    BY <1>9 DEF MoveRename
  <2>3. CASE tree' = Rename(tree, req[c].path, req[c].dest)
    <3>1. \/ tree'[q] = Absent
          \/ q = req[c].dest /\ tree'[q] = tree[req[c].path]
          \/ \E r \in Path : Last(r) = Last(q) /\ tree'[q] = tree[r]
      BY <1>t, <2>1, <2>3, RenameEffect
    <3>2. QED BY <2>1, <3>1 DEF TreeOrigin, IsUserPath
  <2>4. QED BY <1>0, <2>2, <2>3
<1>10. CASE UNCHANGED tree
  BY <1>0, <1>10
<1>11. QED
  BY <1>1, <1>2, <1>3, <1>4, <1>5, <1>6, <1>7, <1>8, <1>9, <1>10
  DEF Step, Receive, WriteStat, WriteData, WriteChmod, ReadStat, OpenForRead, ReadRest, MkdirStat,
      MkdirChmod, RmStat, MoveStatSource, MoveStatDest

(* The rename of an atomic write finds its own temporary file. *)
LEMMA OwnTemp ==
    ASSUME TypeOK, Phases, NoncesDistinct, TempLinks, NEW c \in Conn, RenameTemp(c),
           tree[Temp(c)] # Absent
    PROVE  /\ tree[Temp(c)] = c
           /\ IsAtomic(c)
<1>1. req[c].op = "write" /\ IsAtomic(c) /\ nonce[c] \in Nonce /\ Started(c)
  BY DEF Phases, RenameTemp, IsAtomic, TypeOK, Started
<1>2. /\ req[c].path \in Path /\ Temp(c) \in Path
      /\ nonce[c] \in Nat /\ nonce[c] # 0
  BY <1>1, RequestTyped, RequestAssumption, NonceAssumption DEF Temp
<1>3. Last(Temp(c))[2] = nonce[c]
  BY <1>2, TempPathNonce DEF Temp
<1>4. tree[Temp(c)] \in Conn /\ nonce[tree[Temp(c)]] = nonce[c]
  BY <1>2, <1>3 DEF TempLinks, IsUserPath
<1>5. QED BY <1>1, <1>2, <1>4 DEF NoncesDistinct

(* A file at a temporary path stays the file of the writer with that nonce. *)
LEMMA StepTempLinks ==
    ASSUME TypeOK, Phases, TempLinks, NEW c \in Conn, Step(c)
    PROVE  TempLinks'
<1> SUFFICES ASSUME NEW q \in Path, ~IsUserPath(q), tree'[q] # Absent
             PROVE  tree'[q] \in Conn /\ nonce'[tree'[q]] = Last(q)[2]
  BY DEF TempLinks
<1>0. Last(q)[2] # 0
  BY DEF IsUserPath
<1>1. CASE \E r \in Path : Last(r)[2] = Last(q)[2] /\ tree'[q] = tree[r]
  <2>1. PICK r \in Path : Last(r)[2] = Last(q)[2] /\ tree'[q] = tree[r]
    BY <1>1
  <2>2. tree[r] \in Conn /\ nonce[tree[r]] = Last(q)[2]
    BY <1>0, <2>1 DEF TempLinks, IsUserPath
  <2>3. nonce'[tree[r]] = nonce[tree[r]]
    BY <1>0, <2>2, StepFrame DEF Phases
  <2>4. QED BY <2>1, <2>2, <2>3
<1>2. CASE tree'[q] = c /\ Last(q)[2] = nonce'[c]
  BY <1>2
<1>3. QED BY <1>1, <1>2, StepTree DEF TreeOrigin

(* A path a client can name never shows the file of an atomic write that is *)
(* still running.                                                           *)
LEMMA StepUserLinks ==
    ASSUME TypeOK, Phases, NoncesDistinct, TempLinks, UserLinks, NEW c \in Conn, Step(c)
    PROVE  UserLinks'
<1> SUFFICES ASSUME NEW p \in Path, IsUserPath(p), tree'[p] \in Conn
             PROVE  Settled(tree[p])'
  BY DEF UserLinks
<1>s. ASSUME NEW e \in Conn, e = tree'[p], Settled(e)' PROVE Settled(tree[p])'
  BY <1>s DEF Settled, IsAtomic
<1>0. Absent \notin Conn /\ Dir \notin Conn
  BY NodeAssumption, ConnAssumption
<1>1. CASE \E r \in Path : Last(r)[2] = Last(p)[2] /\ tree'[p] = tree[r]
  <2>1. PICK r \in Path : Last(r)[2] = Last(p)[2] /\ tree'[p] = tree[r]
    BY <1>1
  <2>2. PICK e \in Conn : e = tree[r]
    BY <2>1
  <2>3. Settled(e)
    BY <2>1, <2>2 DEF UserLinks, IsUserPath
  <2>4. QED BY <1>s, <2>1, <2>2, <2>3, SettledStable
<1>2. CASE OpenDirect(c) /\ pc'[c] = "write" /\ tree'[p] = c
  <2>1. Settled(c)'
    BY <1>2, StepFrame DEF OpenDirect, IsDirect, Settled, IsAtomic
  <2>2. QED BY <1>s, <1>2, <2>1
<1>3. CASE OpenTemp(c) /\ Last(p)[2] = nonce'[c] /\ nonce'[c] \in Nonce
  BY <1>3, NonceAssumption DEF IsUserPath
<1>4. CASE RenameTemp(c) /\ pc'[c] = "done" /\ tree'[p] = tree[Temp(c)] /\ tree[Temp(c)] # Absent
  <2>1. Settled(c)' /\ tree'[p] = c
    BY <1>4, OwnTemp DEF Settled
  <2>2. QED BY <1>s, <2>1
<1>5. QED BY <1>0, <1>1, <1>2, <1>3, <1>4, StepTree DEF TreeOrigin

(* A writer's descriptor stays on its own file or on a settled one. *)
LEMMA StepOpenFiles ==
    ASSUME TypeOK, Phases, UserLinks, OpenFiles, NEW c \in Conn, Step(c)
    PROVE  OpenFiles'
<1> SUFFICES ASSUME NEW d \in Conn, pc'[d] = "write"
             PROVE  /\ IsAtomic(d)' => fd'[d] = d /\ data'[d] = Empty
                    /\ fd'[d] \in Conn /\ fd'[d] # d => Settled(fd[d])'
  BY DEF OpenFiles
<1>s. ASSUME NEW e \in Conn, e = fd'[d], Settled(e)' PROVE Settled(fd[d])'
  BY <1>s DEF Settled, IsAtomic
<1>1. CASE d # c
  <2>1. /\ pc[d] = "write" /\ fd'[d] = fd[d] /\ req'[d] = req[d]
        /\ IsAtomic(d)' <=> IsAtomic(d)
    BY <1>1, StepFrame DEF IsAtomic
  <2>2. ASSUME fd'[d] \in Conn, fd'[d] # d PROVE Settled(fd[d])'
    <3>1. PICK e \in Conn : e = fd[d]
      BY <2>1, <2>2
    <3>2. Settled(e)
      BY <2>1, <2>2, <3>1 DEF OpenFiles
    <3>3. QED BY <1>s, <2>1, <3>1, <3>2, SettledStable
  <2>3. ASSUME IsAtomic(d) PROVE data'[d] = data[d]
    <3>1. ~Settled(d)
      BY <2>1, <2>3 DEF Settled
    <3>2. CASE OpenDirect(c)
      <4>1. req[c].path \in Path /\ IsUserPath(req[c].path)
        BY <3>2, RequestTyped DEF OpenDirect, TypeOK, Started
      <4>2. tree[req[c].path] # d
        BY <3>1, <4>1 DEF UserLinks
      <4>3. QED BY <1>1, <3>2, <4>2, ConnAssumption DEF OpenDirect, TypeOK, fsVars
    <3>3. CASE OpenTemp(c)
      BY <1>1, <3>3, ConnAssumption DEF OpenTemp, TypeOK, fsVars
    <3>4. CASE WriteData(c)
      <4>1. fd[c] # d
        BY <1>1, <3>1, <3>4 DEF WriteData, OpenFiles
      <4>2. QED BY <3>4, <4>1, ConnAssumption DEF WriteData, TypeOK
    <3>5. QED
      BY <3>2, <3>3, <3>4
      DEF Step, Receive, WriteMkParents, WriteStat, WriteChmod, RenameTemp,
         CleanupTemp, ReadStat, OpenForRead, ReadRest, MkdirStat, MkdirCreate, MkdirChmod, RmStat,
         RmRemove, MoveStatSource, MoveStatDest, MoveRemove, MoveRename, fsVars
  <2>4. QED BY <2>1, <2>2, <2>3 DEF OpenFiles
<1>2. CASE d = c
  <2>1. OpenDirect(c) \/ OpenTemp(c)
    BY <1>2 DEF Step, Receive, FirstStep, WriteMkParents, WriteStat, WriteData, WriteChmod,
         RenameTemp, CleanupTemp, ReadStat, OpenForRead, ReadRest, MkdirStat, MkdirCreate,
         MkdirChmod, RmStat, RmRemove, MoveStatSource, MoveStatDest, MoveRemove, MoveRename,
         Continue, Finish, Goto, WriteFails, TypeOK
  <2>2. CASE OpenTemp(c)
    <3>1. fd' = [fd EXCEPT ![c] = c] /\ data' = [data EXCEPT ![c] = Empty]
      BY <1>2, <2>2 DEF OpenTemp, Continue, Finish, Goto, WriteFails, TypeOK
    <3>2. QED BY <1>2, <3>1, ConnAssumption DEF TypeOK
  <2>3. CASE OpenDirect(c)
    <3>1. req[c].path \in Path /\ IsUserPath(req[c].path)
      BY <2>3, RequestTyped DEF OpenDirect, TypeOK, Started
    <3>2. fd'[c] = IF tree[req[c].path] = Absent THEN c ELSE tree[req[c].path]
      BY <1>2, <2>3 DEF OpenDirect, Continue, Finish, Goto, TypeOK
    <3>3. ~IsAtomic(c)'
      BY <2>3 DEF OpenDirect, IsDirect, IsAtomic
    <3>4. ASSUME fd'[c] \in Conn, fd'[c] # c PROVE Settled(fd[c])'
      <4>1. PICK e \in Conn : e = fd'[c]
        BY <3>4
      <4>2. Settled(e)
        BY <3>1, <3>2, <3>4, <4>1 DEF UserLinks
      <4>3. QED BY <1>2, <1>s, <4>1, <4>2, SettledStable
    <3>5. QED BY <1>2, <3>3, <3>4
  <2>4. QED BY <2>1, <2>2, <2>3
<1>3. QED BY <1>1, <1>2

(* Between the write and the rename of an atomic write its file holds       *)
(* exactly the request's content.                                           *)
LEMMA StepWrittenTemps ==
    ASSUME TypeOK, Phases, UserLinks, OpenFiles, WrittenTemps, NEW c \in Conn, Step(c)
    PROVE  WrittenTemps'
<1> SUFFICES ASSUME NEW d \in Conn, pc'[d] \in {"chmod", "rename"}, IsAtomic(d)'
             PROVE  data'[d] = req'[d].content
  BY DEF WrittenTemps
<1>1. CASE d # c
  <2>1. pc[d] \in {"chmod", "rename"} /\ req'[d] = req[d] /\ IsAtomic(d)
    BY <1>1, StepFrame DEF IsAtomic
  <2>2. ~Settled(d)
    BY <2>1 DEF Settled
  <2>3. CASE OpenDirect(c)
    <3>1. req[c].path \in Path /\ IsUserPath(req[c].path)
      BY <2>3, RequestTyped DEF OpenDirect, TypeOK, Started
    <3>2. tree[req[c].path] # d
      BY <2>2, <3>1 DEF UserLinks
    <3>3. data'[d] = data[d]
      BY <1>1, <2>3, <3>2, ConnAssumption DEF OpenDirect, TypeOK, fsVars
    <3>4. QED BY <2>1, <3>3 DEF WrittenTemps
  <2>4. CASE OpenTemp(c)
    <3>1. data'[d] = data[d]
      BY <1>1, <2>4, ConnAssumption DEF OpenTemp, TypeOK, fsVars
    <3>2. QED BY <2>1, <3>1 DEF WrittenTemps
  <2>5. CASE WriteData(c)
    <3>1. fd[c] # d
      BY <1>1, <2>2, <2>5 DEF WriteData, OpenFiles
    <3>2. data'[d] = data[d]
      BY <2>5, <3>1, ConnAssumption DEF WriteData, TypeOK
    <3>3. QED BY <2>1, <3>2 DEF WrittenTemps
  <2>6. CASE UNCHANGED data
    BY <2>1, <2>6 DEF WrittenTemps
  <2>7. QED
    BY <2>3, <2>4, <2>5, <2>6
    DEF Step, Receive, WriteMkParents, WriteStat, WriteChmod, RenameTemp,
       CleanupTemp, ReadStat, OpenForRead, ReadRest, MkdirStat, MkdirCreate, MkdirChmod, RmStat,
       RmRemove, MoveStatSource, MoveStatDest, MoveRemove, MoveRename, fsVars
<1>2. CASE d = c
  <2>1. WriteData(c) \/ (WriteChmod(c) /\ UNCHANGED data) \/ MkdirStat(c) \/ MkdirCreate(c)
    <3> USE DEF Continue, Finish, Goto, WriteFails, TypeOK
    <3>1. ~Receive(c)
      BY <1>2 DEF Receive, FirstStep
    <3>2. ~WriteStat(c) /\ ~ReadRest(c) /\ ~OpenForRead(c) /\ ~ReadStat(c)
      BY <1>2 DEF WriteStat, ReadRest, OpenForRead, ReadStat
    <3>3. ~OpenTemp(c) /\ ~OpenDirect(c) /\ ~RenameTemp(c) /\ ~CleanupTemp(c)
      BY <1>2 DEF OpenTemp, OpenDirect, RenameTemp, CleanupTemp
    <3>4. /\ ~WriteMkParents(c) /\ ~MkdirChmod(c) /\ ~RmStat(c) /\ ~RmRemove(c)
          /\ ~MoveStatSource(c) /\ ~MoveStatDest(c) /\ ~MoveRemove(c) /\ ~MoveRename(c)
      BY <1>2 DEF WriteMkParents, MkdirChmod, RmStat, RmRemove, MoveStatSource, MoveStatDest,
                  MoveRemove, MoveRename
    <3>5. WriteChmod(c) => UNCHANGED data
      BY DEF WriteChmod, fsVars
    <3>6. QED BY <3>1, <3>2, <3>3, <3>4, <3>5 DEF Step
  <2>2. CASE WriteData(c)
    <3>1. IsAtomic(c) /\ req' = req
      BY <1>2, <2>2 DEF WriteData, IsAtomic
    <3>2. fd[c] = c /\ data[c] = Empty /\ Empty # Torn
      BY <2>2, <3>1, TokenAssumption DEF WriteData, OpenFiles
    <3>3. data' = [data EXCEPT ![c] = req[c].content]
      BY <1>2, <2>2, <3>2 DEF WriteData, Overwrite, WriteFails, Finish, Goto, TypeOK
    <3>4. QED BY <1>2, <3>1, <3>3, ConnAssumption DEF TypeOK
  <2>3. CASE WriteChmod(c) /\ UNCHANGED data
    BY <1>2, <2>3 DEF WriteChmod, WrittenTemps, IsAtomic
  <2>4. CASE MkdirStat(c) \/ MkdirCreate(c)
    BY <1>2, <2>4 DEF MkdirStat, MkdirCreate, IsAtomic, Phases
  <2>5. QED BY <2>1, <2>2, <2>3, <2>4
<1>3. QED BY <1>1, <1>2

(* Who writes to which file when every write is atomic. *)
LEMMA AtomicWriters ==
    ASSUME TypeOK, Phases, OpenFiles, NEW c \in Conn, Step(c), NoDirectWriter'
    PROVE  /\ NoDirectWriter
           /\ \A i \in Inode : i # c => data'[i] = data[i]
           /\ Settled(c) => data' = data
<1>1. NoDirectWriter
  BY StepFrame DEF NoDirectWriter, Started, IsDirect, Phases, TypeOK
<1>2. ~OpenDirect(c)
  BY <1>1 DEF OpenDirect, NoDirectWriter, TypeOK, Started
<1>3. CASE OpenTemp(c)
  <2>1. ~Settled(c)
    BY <1>3 DEF OpenTemp, Settled
  <2>2. \A i \in Inode : i # c => data'[i] = data[i]
    BY <1>3 DEF OpenTemp, TypeOK, fsVars
  <2>3. QED BY <1>1, <2>1, <2>2
<1>4. CASE WriteData(c)
  <2>1. req[c].op = "write" /\ Started(c) /\ pc[c] = "write"
    BY <1>4 DEF WriteData, Phases, TypeOK, Started
  <2>2. IsAtomic(c)
    BY <1>1, <2>1, RequestTyped DEF NoDirectWriter, IsDirect, IsAtomic
  <2>3. fd[c] = c /\ ~Settled(c)
    BY <2>1, <2>2 DEF OpenFiles, Settled
  <2>4. \A i \in Inode : i # c => data'[i] = data[i]
    BY <1>4, <2>3 DEF WriteData, TypeOK
  <2>5. QED BY <1>1, <2>3, <2>4
<1>5. CASE UNCHANGED data
  BY <1>1, <1>5
<1>6. QED
  BY <1>2, <1>3, <1>4, <1>5
  DEF Step, Receive, WriteMkParents, WriteStat, WriteChmod, RenameTemp,
       CleanupTemp, ReadStat, OpenForRead, ReadRest, MkdirStat, MkdirCreate, MkdirChmod, RmStat,
       RmRemove, MoveStatSource, MoveStatDest, MoveRemove, MoveRename, fsVars

(* With atomic writers only, every file a client can see stays whole. *)
LEMMA StepWholeFiles ==
    ASSUME TypeOK, Phases, NoncesDistinct, TempLinks, UserLinks, OpenFiles, WrittenTemps,
           WholeFiles, NEW c \in Conn, Step(c)
    PROVE  WholeFiles'
<1> SUFFICES ASSUME NoDirectWriter'
             PROVE  /\ \A i \in Inode \ Conn : data'[i] \in Content
                    /\ \A p \in Path : IsUserPath(p) /\ IsFile(tree'[p]) =>
                          data'[tree'[p]] \in Content
  BY DEF WholeFiles, IsFile
<1>0. /\ NoDirectWriter
      /\ \A i \in Inode : i # c => data'[i] = data[i]
      /\ Settled(c) => data' = data
  BY AtomicWriters
<1>1. \A i \in Inode \ Conn : data'[i] \in Content
  BY <1>0 DEF WholeFiles
<1>2. ASSUME NEW p \in Path, IsUserPath(p), IsFile(tree'[p])
      PROVE  data'[tree'[p]] \in Content
  <2>0. tree'[p] # Absent /\ tree'[p] # Dir
    BY <1>2, NodeAssumption DEF IsFile
  <2>1. CASE \E r \in Path : Last(r)[2] = Last(p)[2] /\ tree'[p] = tree[r]
    <3>1. PICK r \in Path : Last(r)[2] = Last(p)[2] /\ tree'[p] = tree[r]
      BY <2>1
    <3>2. data[tree[r]] \in Content /\ tree[r] \in Inode
      BY <1>0, <1>2, <3>1 DEF WholeFiles, IsUserPath, IsFile
    <3>3. tree[r] = c => Settled(c)
      BY <1>2, <3>1 DEF UserLinks, IsUserPath
    <3>4. QED BY <1>0, <3>1, <3>2, <3>3
  <2>2. CASE OpenDirect(c)
    BY <1>0, <2>2 DEF OpenDirect, NoDirectWriter, TypeOK, Started
  <2>3. CASE OpenTemp(c) /\ Last(p)[2] = nonce'[c] /\ nonce'[c] \in Nonce
    BY <1>2, <2>3, NonceAssumption DEF IsUserPath
  <2>4. CASE RenameTemp(c) /\ tree'[p] = tree[Temp(c)] /\ tree[Temp(c)] # Absent
    <3>1. tree'[p] = c /\ IsAtomic(c) /\ pc[c] = "rename" /\ data' = data
      BY <2>4, OwnTemp DEF RenameTemp
    <3>2. data[c] = req[c].content /\ Started(c)
      BY <3>1 DEF WrittenTemps, TypeOK, Started
    <3>3. QED BY <3>1, <3>2, RequestTyped
  <2>5. QED BY <2>0, <2>1, <2>2, <2>3, <2>4, StepTree DEF TreeOrigin
<1>3. QED BY <1>1, <1>2

-----------------------------------------------------------------------------
(* The theorems.                                                            *)

(* The inductive invariant holds initially. *)
LEMMA InitIInv == Init => IInv
<1> SUFFICES ASSUME Init PROVE IInv
  OBVIOUS
<1>1. TypeOK
  BY InitTypeOK
<1>2. Phases /\ NoncesDistinct /\ OpenFiles /\ WrittenTemps
  BY DEF Init, Phases, NoncesDistinct, OpenFiles, WrittenTemps
<1>3. TempLinks
  BY InitAssumption DEF Init, TempLinks
<1>4. UserLinks
  BY InitAssumption, ConnAssumption DEF Init, UserLinks, IsFile
<1>5. WholeFiles
  BY InitAssumption DEF Init, WholeFiles, IsFile
<1>6. QED BY <1>1, <1>2, <1>3, <1>4, <1>5 DEF IInv

(* The process dying moves no file and closes every writer's descriptor. *)
LEMMA CrashIInv ==
    ASSUME IInv, Crash
    PROVE  IInv'
<1> USE DEF IInv, Crash, fsVars
<1>0. NoncesDistinct' <=> NoncesDistinct
  BY DEF NoncesDistinct
<1>1. TypeOK'
  BY CrashAssumption DEF TypeOK, PC, Running, readVars
<1>2. ASSUME NEW d \in Conn PROVE pc'[d] = pc[d] \/ pc'[d] = "dead"
  BY DEF TypeOK
<1>3. Phases' /\ TempLinks'
  BY <1>2 DEF Phases, TempLinks, IsAtomic
<1> SUFFICES ASSUME NoncesDistinct PROVE UserLinks' /\ OpenFiles' /\ WrittenTemps' /\ WholeFiles'
  BY <1>0, <1>1, <1>3
<1>4. ASSUME NEW d \in Conn, Settled(d) PROVE Settled(d)'
  BY <1>4 DEF Settled, IsAtomic, Running, TypeOK
<1>5. UserLinks'
  <2> SUFFICES ASSUME NEW p \in Path, IsUserPath(p), tree[p] \in Conn
               PROVE  Settled(tree[p])'
    BY DEF UserLinks
  <2>1. PICK e \in Conn : e = tree[p]
    OBVIOUS
  <2>2. Settled(e)'
    BY <1>4, <2>1 DEF UserLinks
  <2>3. QED BY <2>1, <2>2 DEF Settled, IsAtomic
<1>6. OpenFiles'
  BY DEF OpenFiles, Running, TypeOK
<1>7. WrittenTemps'
  BY <1>2 DEF WrittenTemps, IsAtomic
<1>8. WholeFiles'
  BY DEF WholeFiles, NoDirectWriter, Started, IsDirect, IsFile
<1>9. QED BY <1>5, <1>6, <1>7, <1>8

(* IInv is an invariant. *)
THEOREM InvariantHolds == Spec => []IInv
<1>1. IInv /\ [Next]_vars => IInv'
  <2> SUFFICES ASSUME IInv, [Next]_vars PROVE IInv'
    OBVIOUS
  <2>1. ASSUME NEW c \in Conn, Step(c), Track(c) PROVE IInv'
    <3> USE <2>1 DEF IInv
    <3>1. TypeOK' BY StepTypeOK
    <3>2. Phases' BY StepPhases
    <3>3. TempLinks' BY StepTempLinks
    <3>4. ASSUME NoncesDistinct' PROVE UserLinks' /\ OpenFiles' /\ WrittenTemps' /\ WholeFiles'
      <4>0. NoncesDistinct /\ UserLinks /\ OpenFiles /\ WrittenTemps /\ WholeFiles
        BY <3>4, StepNonces
      <4>1. UserLinks' BY <4>0, StepUserLinks
      <4>2. OpenFiles' BY <4>0, StepOpenFiles
      <4>3. WrittenTemps' BY <4>0, StepWrittenTemps
      <4>4. WholeFiles' BY <4>0, StepWholeFiles
      <4>5. QED BY <4>1, <4>2, <4>3, <4>4
    <3>5. QED BY <3>1, <3>2, <3>3, <3>4
  <2>2. CASE UNCHANGED vars
    BY <2>2 DEF vars, IInv, TypeOK, Phases, NoncesDistinct, TempLinks, UserLinks, OpenFiles,
       WrittenTemps, WholeFiles, Settled, IsAtomic, IsDirect, NoDirectWriter, Started, IsFile
  <2>3. QED BY <2>1, <2>2, CrashIInv DEF Next, Terminated
<1>2. QED BY <1>1, InitIInv, PTL DEF Spec

(* fs.write --atomic never shows a partly written file: NoTornTarget holds  *)
(* for any number of connections, paths and requests, with the daemon dying *)
(* at any moment.                                                           *)
THEOREM AtomicWritesNeverTear == Spec => []NoTornTarget
<1>1. IInv => NoTornTarget
  BY DEF IInv, WholeFiles, NoTornTarget
<1>2. QED BY <1>1, InvariantHolds, PTL

(* The rename that ends an atomic write installs this request's own content *)
(* and no other writer's, even with direct writers about.                   *)
THEOREM AtomicWritesCommitTheirOwn == Spec => AtomicCommitIsOwn
<1>1. IInv /\ [Next]_vars =>
        [NoncesDistinct => \A c \in Conn : pc[c] = "rename" /\ pc'[c] = "done" =>
            View(req[c].path)' = req[c].content]_vars
  <2> SUFFICES ASSUME IInv, Next, NoncesDistinct, NEW d \in Conn, pc[d] = "rename", pc'[d] = "done"
               PROVE  View(req[d].path)' = req[d].content
    BY DEF vars, View, IsFile
  <2>1. ~Crash /\ ~Terminated
    BY DEF Crash, Terminated, Running, IInv, TypeOK, vars
  <2>2. PICK c \in Conn : Step(c)
    BY <2>1 DEF Next
  <2>3. c = d
    BY <2>2, StepFrame DEF IInv
  <2>4. RenameTemp(d)
    BY <2>2, <2>3
    DEF Step, Receive, WriteMkParents, WriteStat, OpenDirect, OpenTemp, WriteData, WriteChmod,
        CleanupTemp, ReadStat, OpenForRead, ReadRest, MkdirStat, MkdirCreate, MkdirChmod, RmStat,
        RmRemove, MoveStatSource, MoveStatDest, MoveRemove, MoveRename
  <2> DEFINE p == req[d].path
  <2>5. /\ IsAtomic(d) /\ Started(d) /\ p \in Path /\ nonce[d] \in Nonce
        /\ data[d] = req[d].content
    BY RequestTyped DEF IInv, Phases, IsAtomic, TypeOK, Started, WrittenTemps
  <2>6. CanRename(tree, Temp(d), p) /\ tree' = Rename(tree, Temp(d), p)
    BY <2>4, <2>5 DEF RenameTemp, WriteFails, Finish, Goto, IInv, TypeOK
  <2>7. tree[Temp(d)] = d
    BY <2>4, <2>6, OwnTemp DEF IInv, CanRename
  <2>8. tree'[p] = d
    <3>1. Temp(d) \in Path
      BY <2>5, RequestTyped, RequestAssumption DEF IInv, Temp, IsAtomic
    <3>2. p # Temp(d)
      BY <2>5, RequestTyped, TempPathNonce, NonceAssumption DEF IInv, Temp, IsUserPath
    <3>3. Rebase(p, p, Temp(d)) = Temp(d)
      <4>1. p \in Seq(STRING \X Nat) /\ Temp(d) \in Seq(STRING \X Nat)
        BY <2>5, <3>1, PathIsSeq
      <4>2. SubSeq(p, Len(p) + 1, Len(p)) = << >>
        BY <4>1
      <4>3. QED BY <4>1, <4>2 DEF Rebase
    <3>4. QED BY <2>5, <2>6, <2>7, <3>1, <3>2, <3>3 DEF Rename
  <2>9. data' = data /\ req' = req
    BY <2>4 DEF RenameTemp
  <2>10. QED BY <2>5, <2>8, <2>9, ConnAssumption DEF View, IsFile
<1>2. QED BY <1>1, InvariantHolds, PTL DEF Spec, AtomicCommitIsOwn

-----------------------------------------------------------------------------
(* Readers, preconditions and temporary files.  Each of the next three      *)
(* properties needs an invariant of its own beside IInv.                    *)

(* A call leaves what the other handlers have read, replied and replaced. *)
LEMMA StepRecords ==
    ASSUME TypeOK, NEW c \in Conn, Step(c)
    PROVE  \A d \in Conn \ {c} : /\ half'[d] = half[d] /\ got'[d] = got[d] /\ seen'[d] = seen[d]
                                 /\ reply'[d] = reply[d] /\ replaced'[d] = replaced[d]
<1> USE DEF TypeOK, Continue, Finish, Goto, WriteFails, fsVars, readVars
<1>1. CASE Receive(c)
  BY <1>1 DEF Receive
<1>2. CASE WriteMkParents(c)
  BY <1>2 DEF WriteMkParents
<1>3. CASE WriteStat(c)
  BY <1>3 DEF WriteStat
<1>4. CASE OpenDirect(c)
  BY <1>4 DEF OpenDirect
<1>5. CASE OpenTemp(c)
  BY <1>5 DEF OpenTemp
<1>6. CASE WriteData(c)
  BY <1>6 DEF WriteData
<1>7. CASE WriteChmod(c)
  BY <1>7 DEF WriteChmod
<1>8. CASE RenameTemp(c)
  BY <1>8 DEF RenameTemp
<1>9. CASE CleanupTemp(c)
  BY <1>9 DEF CleanupTemp
<1>10. CASE ReadStat(c)
  BY <1>10 DEF ReadStat
<1>11. CASE OpenForRead(c)
  BY <1>11 DEF OpenForRead
<1>12. CASE ReadRest(c)
  BY <1>12 DEF ReadRest
<1>13. CASE MkdirStat(c)
  BY <1>13 DEF MkdirStat
<1>14. CASE MkdirCreate(c)
  BY <1>14 DEF MkdirCreate
<1>15. CASE MkdirChmod(c)
  BY <1>15 DEF MkdirChmod
<1>16. CASE RmStat(c)
  BY <1>16 DEF RmStat
<1>17. CASE RmRemove(c)
  BY <1>17 DEF RmRemove
<1>18. CASE MoveStatSource(c)
  BY <1>18 DEF MoveStatSource
<1>19. CASE MoveStatDest(c)
  BY <1>19 DEF MoveStatDest
<1>20. CASE MoveRemove(c)
  BY <1>20 DEF MoveRemove
<1>21. CASE MoveRename(c)
  BY <1>21 DEF MoveRename
<1>22. QED
  BY <1>1, <1>2, <1>3, <1>4, <1>5, <1>6, <1>7, <1>8, <1>9, <1>10, <1>11, <1>12, <1>13,
      <1>14, <1>15, <1>16, <1>17, <1>18, <1>19, <1>20, <1>21 DEF Step

(* With atomic writers only, a reader that is between two reads holds a     *)
(* whole version, in a file that nobody can write to any more, and what it  *)
(* reports is whole.                                                        *)
Readers ==
    NoDirectWriter /\ NoncesDistinct =>
        \A c \in Conn :
            /\ pc[c] = "read_rest" => /\ half[c] \in Content /\ data[fd[c]] = half[c]
                                      /\ fd[c] \in Conn => Settled(fd[c])
            /\ pc[c] = "done" /\ reply[c] = "ok" /\ Reports(c) => got[c] \in Content

(* Every call keeps the readers' versions whole. *)
LEMMA StepReaders ==
    ASSUME IInv, Readers, NEW c \in Conn, Step(c)
    PROVE  Readers'
<1> SUFFICES ASSUME NoDirectWriter', NoncesDistinct', NEW d \in Conn
             PROVE  /\ pc'[d] = "read_rest" =>
                          /\ half'[d] \in Content /\ data'[fd'[d]] = half'[d]
                          /\ fd'[d] \in Conn => Settled(fd[d])'
                    /\ pc'[d] = "done" /\ reply'[d] = "ok" /\ Reports(d)' =>
                          got'[d] \in Content
  BY DEF Readers
<1>i. /\ TypeOK /\ Phases /\ NoncesDistinct /\ OpenFiles /\ UserLinks /\ WholeFiles
  BY StepNonces DEF IInv
<1>0. /\ NoDirectWriter
      /\ \A i \in Inode : i # c => data'[i] = data[i]
      /\ Settled(c) => data' = data
  BY <1>i, AtomicWriters
<1>s. ASSUME NEW e \in Conn, e = fd'[d], Settled(e) PROVE Settled(fd[d])'
  <2>1. Settled(e)'
    BY <1>i, <1>s, SettledStable
  <2>2. QED BY <1>s, <2>1 DEF Settled, IsAtomic
<1>1. CASE d # c
  <2>1. /\ pc'[d] = pc[d] /\ req'[d] = req[d] /\ fd'[d] = fd[d]
        /\ half'[d] = half[d] /\ got'[d] = got[d] /\ reply'[d] = reply[d]
        /\ Reports(d)' <=> Reports(d)
    BY <1>1, <1>i, StepFrame, StepRecords DEF Reports, IsFile
  <2>2. ASSUME pc[d] = "read_rest"
        PROVE  /\ half[d] \in Content /\ data'[fd[d]] = half[d]
               /\ fd[d] \in Conn => Settled(fd[d])'
    <3>1. /\ half[d] \in Content /\ data[fd[d]] = half[d] /\ fd[d] \in Inode
          /\ fd[d] \in Conn => Settled(fd[d])
      BY <1>0, <1>i, <2>2 DEF Readers, TypeOK
    <3>2. PICK i \in Inode : i = fd[d]
      BY <3>1
    <3>3. data'[i] = data[i]
      <4>1. CASE i # c
        BY <1>0, <4>1
      <4>2. CASE i = c
        BY <1>0, <3>1, <3>2, <4>2
      <4>3. QED BY <4>1, <4>2
    <3>4. fd[d] \in Conn => Settled(fd[d])'
      BY <1>s, <2>1, <3>1
    <3>5. QED BY <3>1, <3>2, <3>3, <3>4
  <2>3. QED BY <1>0, <1>i, <2>1, <2>2 DEF Readers
<1>2. CASE d = c
  <2>1. ASSUME pc'[c] = "read_rest"
        PROVE  /\ half'[c] \in Content /\ data'[fd'[c]] = half'[c]
               /\ fd'[c] \in Conn => Settled(fd[c])'
    <3>1. OpenForRead(c)
      BY <1>i, <2>1

      DEF Step, Receive, WriteMkParents, WriteStat, OpenDirect, OpenTemp, WriteData,
            WriteChmod, RenameTemp, CleanupTemp, ReadStat, ReadRest, MkdirStat, MkdirCreate,
            MkdirChmod, RmStat, RmRemove, MoveStatSource, MoveStatDest, MoveRemove, MoveRename,
          FirstStep, Continue, Finish, Goto, WriteFails, TypeOK
    <3>2. PICK n : n = tree[req[c].path]
      OBVIOUS
    <3>3. /\ IsFile(n) /\ fd' = [fd EXCEPT ![c] = n] /\ half' = [half EXCEPT ![c] = data[n]]
          /\ data' = data
      BY <1>i, <2>1, <3>1, <3>2 DEF OpenForRead, Continue, Finish, Goto, TypeOK, fsVars
    <3>4. req[c].path \in Path /\ IsUserPath(req[c].path)
      BY <1>i, <3>1, RequestTyped DEF OpenForRead, TypeOK, Started
    <3>5. data[n] \in Content /\ (n \in Conn => Settled(n))
      BY <1>0, <1>i, <3>2, <3>3, <3>4 DEF WholeFiles, UserLinks
    <3>6. fd'[c] = n /\ half'[c] = data[n]
      BY <1>i, <3>3 DEF TypeOK
    <3>7. QED BY <1>2, <1>s, <3>3, <3>5, <3>6
  <2>2. ASSUME pc'[c] = "done", reply'[c] = "ok", Reports(c)'
        PROVE  got'[c] \in Content
    <3>1. ReadRest(c)
      <4> USE DEF Continue, Finish, Goto, WriteFails, TypeOK, fsVars, readVars, Reports, IsFile
      <4>1. ~Receive(c)
        BY <1>i, <2>2 DEF Receive, FirstStep
      <4>2. req'[c] = req[c]
        BY <1>i, <4>1, <2>2 
        DEF Step, WriteMkParents, WriteStat, OpenDirect, OpenTemp, WriteData, WriteChmod,
                RenameTemp, CleanupTemp, ReadStat, OpenForRead, ReadRest, MkdirStat, MkdirCreate,
                MkdirChmod, RmStat, RmRemove, MoveStatSource, MoveStatDest, MoveRemove, MoveRename
      <4>3. /\ ~WriteMkParents(c) /\ ~WriteStat(c) /\ ~OpenDirect(c)
            /\ ~OpenTemp(c)
        BY <1>i, <2>2, <4>2
        DEF WriteMkParents, WriteStat, OpenDirect, OpenTemp, Phases, IsAtomic, IsDirect,
            LookupError
      <4>4. /\ ~WriteData(c) /\ ~WriteChmod(c) /\ ~RenameTemp(c)
            /\ ~CleanupTemp(c)
        BY <1>i, <2>2, <4>2
        DEF WriteData, WriteChmod, RenameTemp, CleanupTemp, Phases, IsAtomic, IsDirect,
            LookupError
      <4>5. /\ ~ReadStat(c) /\ ~OpenForRead(c) /\ ~MkdirStat(c)
            /\ ~MkdirCreate(c) /\ ~MkdirChmod(c)
        BY <1>i, <2>2, <4>2
        DEF ReadStat, OpenForRead, MkdirStat, MkdirCreate, MkdirChmod, Phases, IsAtomic,
            IsDirect, LookupError
      <4>6. /\ ~RmStat(c) /\ ~RmRemove(c) /\ ~MoveStatSource(c)
            /\ ~MoveStatDest(c) /\ ~MoveRemove(c) /\ ~MoveRename(c)
        BY <1>i, <2>2, <4>2
        DEF RmStat, RmRemove, MoveStatSource, MoveStatDest, MoveRemove, MoveRename, Phases,
            IsAtomic, IsDirect, LookupError
      <4>7. QED BY <4>1, <4>3, <4>4, <4>5, <4>6 DEF Step
    <3>2. half[c] \in Content /\ data[fd[c]] = half[c]
      BY <1>0, <1>i, <3>1 DEF ReadRest, Readers
    <3>3. got' = [got EXCEPT ![c] = half[c]]
      BY <3>1, <3>2 DEF ReadRest, Spliced
    <3>4. QED BY <1>i, <3>2, <3>3 DEF TypeOK
  <2>3. QED BY <1>2, <2>1, <2>2
<1>3. QED BY <1>1, <1>2

(* fs.read, fs.stat: with atomic writers only, a reader that answers has    *)
(* seen the whole of one version, although its reads are several calls and  *)
(* the file may be replaced between them.                                   *)
THEOREM ReadersAreConsistent == Spec => []ReadersSeeOneVersion
<1>1. Init => Readers
  BY DEF Init, Readers
<1>2. IInv /\ Readers /\ [Next]_vars => Readers'
  <2> SUFFICES ASSUME IInv, Readers, [Next]_vars PROVE Readers'
    OBVIOUS
  <2>1. CASE Crash
    <3>1. /\ UNCHANGED <<tree, data, req, seen, nonce, fd, half, got, reply>>
          /\ \A d \in Conn : pc'[d] = IF Running(d) THEN "dead" ELSE pc[d]
      BY <2>1 DEF Crash, fsVars, readVars
    <3>2. \A d \in Conn : pc'[d] # "read_rest" /\ (pc'[d] = "done" => pc[d] = "done")
      BY <3>1 DEF Running
    <3>3. (NoDirectWriter' <=> NoDirectWriter) /\ (NoncesDistinct' <=> NoncesDistinct)
      BY <3>1 DEF NoDirectWriter, NoncesDistinct, Started, IsDirect
    <3>4. \A d \in Conn : Reports(d)' <=> Reports(d)
      BY <3>1 DEF Reports, IsFile
    <3>5. QED BY <3>1, <3>2, <3>3, <3>4 DEF Readers
  <2>2. CASE UNCHANGED vars
    BY <2>2 DEF vars, Readers, Reports, NoncesDistinct, NoDirectWriter, Started, IsDirect, Settled,
           IsAtomic, IsFile
  <2>3. QED BY <2>1, <2>2, StepReaders DEF Next, Terminated
<1>3. Readers => ReadersSeeOneVersion
  BY DEF Readers, ReadersSeeOneVersion
<1>4. QED BY <1>1, <1>2, <1>3, InvariantHolds, PTL DEF Spec

-----------------------------------------------------------------------------
(* The handler has checked its target, is on its way to the commit, and has *)
(* not committed.                                                           *)
Window(c) ==
    \/ req[c].op = "write" /\ pc[c] \in {"hash", "read_rest", "open"}
    \/ IsAtomic(c) /\ pc[c] \in {"write", "chmod", "rename", "cleanup"}
    \/ req[c].op = "move" /\ pc[c] \in {"remove", "move"}

(* What the handler has checked of its target is still so. *)
Checked(c) ==
    /\ req[c].op = "write" /\ req[c].ifMissing => View(req[c].path) = Absent
    /\ req[c].op = "write" /\ req[c].ifSha # NoSha =>
         /\ pc[c] = "read_rest" => View(req[c].path) = half[c]
         /\ pc[c] \notin {"hash", "read_rest"} => View(req[c].path) = req[c].ifSha
    /\ req[c].op = "move" /\ ~req[c].overwrite => View(req[c].dest) = Absent

GuardAt(c) ==
    /\ pc[c] \in {"idle", "mkparents", "stat", "stat_source", "stat_dest"} =>
          replaced[c] = Nothing
    /\ Started(c) /\ Window(c) => replaced[c] = Nothing /\ (overlap[c] \/ Checked(c))
    /\ Started(c) /\ replaced[c] # Nothing /\ ~overlap[c] => GuardHolds(c)

(* A precondition holds until the commit unless somebody else interferes. *)
Guards == NoncesDistinct => \A c \in Conn : GuardAt(c)

(* atomic_temp_path: the temporary path is one that no client can name. *)
LEMMA TempIsHidden ==
    ASSUME TypeOK, NEW c \in Conn, Started(c), req[c].op = "write", NEW n \in Nonce
    PROVE  /\ TempPath(req[c].path, n) \in Path
           /\ ~IsUserPath(TempPath(req[c].path, n))
           /\ TempPath(req[c].path, n) # req[c].path
<1>1. req[c] \in Requests /\ req[c].path \in Path /\ IsUserPath(req[c].path)
  BY RequestTyped
<1>2. n \in Nat /\ n # 0
  BY NonceAssumption
<1>3. QED
  BY <1>1, <1>2, TempPathNonce, RequestAssumption DEF IsUserPath

(* An atomic write does not touch its target before the rename. *)
LEMMA TargetUntouched ==
    ASSUME IInv, NoncesDistinct, NEW c \in Conn, OpenTemp(c) \/ (WriteData(c) /\ IsAtomic(c))
    PROVE  View(req[c].path)' = View(req[c].path)
<1> DEFINE p == req[c].path
<1>1. TypeOK /\ Phases /\ UserLinks /\ OpenFiles
  BY DEF IInv
<1>2. /\ Started(c) /\ IsAtomic(c) /\ req' = req /\ pc[c] \in {"open", "write"}
      /\ req[c].op = "write"
  BY <1>1 DEF OpenTemp, WriteData, TypeOK, Started, IsAtomic
<1>3. p \in Path /\ IsUserPath(p)
  BY <1>1, <1>2, RequestTyped
<1>4. tree[p] # c
  BY <1>1, <1>2, <1>3 DEF UserLinks, Settled
<1>5. tree'[p] = tree[p]
  <2>1. CASE OpenTemp(c)
    <3>1. PICK n \in Nonce : \/ tree' = tree
                             \/ tree' = Link(tree, TempPath(p, n), c)
      BY <2>1 DEF OpenTemp, fsVars
    <3>2. TempPath(p, n) # p
      BY <1>1, <1>2, TempIsHidden
    <3>3. QED BY <1>1, <1>3, <3>1, <3>2 DEF Link, TypeOK, Tree
  <2>2. CASE WriteData(c)
    BY <2>2 DEF WriteData
  <2>3. QED BY <2>1, <2>2
<1>6. \A i \in Inode : i # c => data'[i] = data[i]
  <2>1. CASE OpenTemp(c)
    BY <1>1, <2>1 DEF OpenTemp, TypeOK, fsVars
  <2>2. CASE WriteData(c)
    <3>1. fd[c] = c
      BY <1>1, <1>2, <2>2 DEF OpenFiles, WriteData
    <3>2. QED BY <1>1, <2>2, <3>1 DEF WriteData, TypeOK
  <2>3. QED BY <2>1, <2>2
<1>7. QED BY <1>2, <1>4, <1>5, <1>6 DEF View, IsFile

(* A call of another handler that changes a checked target is noted. *)
LEMMA OthersNoted ==
    ASSUME IInv, NEW c \in Conn, NEW d \in Conn, d # c, Step(c), Track(c), GuardAt(d)
    PROVE  GuardAt(d)'
<1>1. TypeOK
  BY DEF IInv
<1>2. /\ pc'[d] = pc[d] /\ req'[d] = req[d] /\ half'[d] = half[d]
      /\ replaced'[d] = replaced[d]
  BY <1>1, StepFrame, StepRecords
<1>3. overlap'[d] <=> \/ overlap[d]
                      \/ InWindow(d) /\ View(Target(d))' # View(Target(d))
  BY DEF Track
<1>4. /\ Started(d)' <=> Started(d)
      /\ Window(d)' <=> Window(d)
      /\ GuardHolds(d)' <=> GuardHolds(d)
  BY <1>2 DEF Started, Window, GuardHolds, IsAtomic
<1>5. ASSUME Started(d), Window(d), ~overlap'[d]
      PROVE  Checked(d)'
  <2>1. replaced[d] = Nothing /\ Checked(d) /\ ~overlap[d]
    BY <1>3, <1>5 DEF GuardAt
  <2>2. InWindow(d)
    BY <1>5, <2>1 DEF InWindow, Window, Running, IsAtomic
  <2>3. View(Target(d))' = View(Target(d))
    BY <1>3, <1>5, <2>2
  <2>4. /\ req[d].op = "write" => View(req[d].path)' = View(req[d].path)
        /\ req[d].op = "move" => View(req[d].dest)' = View(req[d].dest)
    BY <1>2, <2>3 DEF Target, View
  <2>5. QED BY <1>2, <2>1, <2>4 DEF Checked
<1>6. QED BY <1>2, <1>3, <1>4, <1>5 DEF GuardAt

(* A handler's own calls keep what it has checked, up to the commit. *)
LEMMA OwnKept ==
    ASSUME IInv, NoncesDistinct, NEW c \in Conn, Step(c), Track(c), GuardAt(c)
    PROVE  GuardAt(c)'
<1> USE DEF Continue, Finish, Goto, fsVars, readVars
<1>0. /\ TypeOK /\ Phases /\ UserLinks /\ OpenFiles
      /\ pc \in [Conn -> PC] /\ replaced \in [Conn -> Data \cup {Absent, Dir, Nothing}]
  BY DEF IInv, TypeOK
<1>o. overlap'[c] <=> overlap[c]
  BY DEF Track
<1>r. ASSUME pc[c] \notin {"idle", "dead"}
      PROVE  /\ Started(c) /\ req[c].path \in Path /\ req[c].dest \in Path
             /\ req[c].ifSha \in Content \cup {NoSha} /\ tree[req[c].path] \in Node
             /\ tree[req[c].dest] \in Node
  BY <1>0, <1>r, RequestTyped, ViewTyped DEF TypeOK, Started
<1>v. ASSUME UNCHANGED <<tree, data, req>>
      PROVE  /\ View(req[c].path)' = View(req[c].path)
             /\ View(req[c].dest)' = View(req[c].dest)
  BY <1>v DEF View
<1>q. ASSUME req' = req, replaced' = replaced, ~Window(c)',
             pc'[c] \in {"idle", "mkparents", "stat", "stat_source", "stat_dest"} =>
                pc[c] \in {"idle", "mkparents", "stat", "stat_source", "stat_dest"}
      PROVE  GuardAt(c)'
  BY <1>q, <1>o DEF GuardAt, GuardHolds, Started
<1>n. ASSUME req' = req, replaced' = replaced, Window(c), Checked(c) => Checked(c)',
             pc'[c] \notin {"idle", "mkparents", "stat", "stat_source", "stat_dest"}
      PROVE  GuardAt(c)'
  BY <1>n, <1>o DEF GuardAt, GuardHolds, Started
<1>k. ASSUME req' = req, Window(c), Started(c), Checked(c) => GuardHolds(c)', ~Window(c)',
             pc'[c] \notin {"idle", "mkparents", "stat", "stat_source", "stat_dest"}
      PROVE  GuardAt(c)'
  BY <1>k, <1>o DEF GuardAt
<1>1. CASE Receive(c)
  <2>1. replaced[c] = Nothing /\ replaced' = replaced
    BY <1>1 DEF Receive, GuardAt
  <2>2. pc'[c] \in {"mkparents", "stat", "stat_source", "done"}
    BY <1>0, <1>1 DEF Receive, FirstStep
  <2>3. QED BY <2>1, <2>2 DEF GuardAt, Window
<1>2. CASE WriteMkParents(c)
  <2>1. /\ req' = req /\ replaced' = replaced
        /\ pc'[c] \in {"stat", "done"}
    BY <1>0, <1>2 DEF WriteMkParents
  <2>2. QED BY <1>q, <1>2, <2>1 DEF Window, IsAtomic, WriteMkParents
<1>3. CASE WriteStat(c)
  <2>1. /\ req' = req /\ replaced' = replaced /\ replaced[c] = Nothing
        /\ pc'[c] \in {"hash", "open", "done"} /\ UNCHANGED <<tree, data>>
    BY <1>0, <1>3 DEF WriteStat, GuardAt
  <2>2. ASSUME Window(c)' PROVE Checked(c)'
    <3>1. pc'[c] \in {"hash", "open"} /\ req[c].op = "write" /\ pc[c] = "stat"
      BY <1>3, <2>1, <2>2 DEF Window, WriteStat, IsAtomic
    <3>2. /\ ~(req[c].ifMissing /\ tree[req[c].path] # Absent)
          /\ pc'[c] = "open" => req[c].ifSha = NoSha
      BY <1>0, <1>3, <3>1 DEF WriteStat
    <3>3. req[c].ifMissing => View(req[c].path) = Absent
      BY <3>2, NodeAssumption DEF View, IsFile
    <3>4. QED BY <1>v, <2>1, <3>1, <3>2, <3>3 DEF Checked
  <2>3. QED BY <2>1, <2>2 DEF GuardAt
<1>4. CASE OpenDirect(c)
  <2>1. /\ req' = req /\ Started(c) /\ Window(c) /\ ~Window(c)' /\ pc[c] = "open"
        /\ pc'[c] \in {"write", "done"}
    BY <1>0, <1>r, <1>4 DEF OpenDirect, IsDirect, IsAtomic, Window
  <2>2. CASE replaced' = replaced
    BY <1>q, <2>1, <2>2
  <2>3. CASE replaced' = [replaced EXCEPT ![c] = View(req[c].path)]
    <3>1. replaced'[c] = View(req[c].path)
      BY <1>0, <2>3
    <3>2. Checked(c) => GuardHolds(c)'
      BY <1>4, <2>1, <3>1 DEF Checked, GuardHolds, OpenDirect, IsDirect
    <3>3. QED BY <1>k, <2>1, <3>2
  <2>4. QED BY <1>4, <2>2, <2>3 DEF OpenDirect
<1>5. CASE OpenTemp(c)
  <2>1. /\ req' = req /\ replaced' = replaced /\ Window(c) /\ pc[c] = "open"
        /\ pc'[c] \in {"write", "cleanup"} /\ req[c].op = "write"
    BY <1>0, <1>5 DEF OpenTemp, WriteFails, IsAtomic, Window
  <2>2. View(req[c].path)' = View(req[c].path)
    BY <1>5, TargetUntouched
  <2>3. Checked(c) => Checked(c)'
    BY <2>1, <2>2 DEF Checked
  <2>4. QED BY <1>n, <2>1, <2>3
<1>6. CASE WriteData(c)
  <2>1. /\ req' = req /\ replaced' = replaced /\ pc[c] = "write"
        /\ pc'[c] \in {"chmod", "cleanup", "done"}
        /\ ~IsAtomic(c) => pc'[c] \in {"chmod", "done"}
    BY <1>0, <1>6 DEF WriteData, WriteFails
  <2>2. CASE IsAtomic(c)
    <3>1. View(req[c].path)' = View(req[c].path) /\ Window(c) /\ req[c].op = "write"
      BY <1>6, <2>1, <2>2, TargetUntouched DEF Window, IsAtomic
    <3>2. Checked(c) => Checked(c)'
      BY <2>1, <3>1 DEF Checked
    <3>3. QED BY <1>n, <2>1, <3>1, <3>2
  <2>3. CASE ~IsAtomic(c)
    BY <1>q, <2>1, <2>3 DEF Window, IsAtomic
  <2>4. QED BY <2>2, <2>3
<1>7. CASE WriteChmod(c)
  <2>1. /\ req' = req /\ replaced' = replaced /\ pc[c] = "chmod" /\ req[c].op = "write"
        /\ pc'[c] \in {"rename", "cleanup", "done"} /\ UNCHANGED <<tree, data>>
        /\ ~IsAtomic(c) => pc'[c] = "done"
    BY <1>0, <1>7 DEF WriteChmod, WriteFails
  <2>2. CASE IsAtomic(c)
    <3>1. Checked(c) => Checked(c)'
      BY <1>v, <2>1 DEF Checked
    <3>2. Window(c)
      BY <2>1, <2>2 DEF Window
    <3>3. QED BY <1>n, <2>1, <3>1, <3>2
  <2>3. CASE ~IsAtomic(c)
    BY <1>q, <2>1, <2>3 DEF Window, IsAtomic
  <2>4. QED BY <2>2, <2>3
<1>8. CASE RenameTemp(c)
  <2>1. /\ req' = req /\ Started(c) /\ Window(c) /\ pc[c] = "rename" /\ IsAtomic(c)
        /\ data' = data /\ req[c].op = "write"
    BY <1>0, <1>r, <1>8 DEF RenameTemp, Phases, IsAtomic, Window
  <2>2. CASE replaced' = [replaced EXCEPT ![c] = View(req[c].path)] /\ pc'[c] = "done"
    <3>1. replaced'[c] = View(req[c].path)
      BY <1>0, <2>2
    <3>2. Checked(c) => GuardHolds(c)'
      BY <2>1, <3>1 DEF Checked, GuardHolds
    <3>3. QED BY <1>k, <2>1, <2>2, <3>2 DEF Window
  <2>3. CASE UNCHANGED <<tree, replaced>> /\ pc'[c] = "cleanup"
    <3>1. Checked(c) => Checked(c)'
      BY <1>v, <2>1, <2>3 DEF Checked
    <3>2. QED BY <1>n, <2>1, <2>3, <3>1
  <2>4. QED BY <1>0, <1>8, <2>1, <2>2, <2>3 DEF RenameTemp, WriteFails
<1>9. CASE CleanupTemp(c)
  <2>1. /\ req' = req /\ replaced' = replaced
        /\ pc'[c] \in {"done"}
    BY <1>0, <1>9 DEF CleanupTemp
  <2>2. QED BY <1>q, <1>9, <2>1 DEF Window, IsAtomic, CleanupTemp
<1>10. CASE ReadStat(c)
  <2>1. /\ req' = req /\ replaced' = replaced
        /\ pc'[c] \in {"hash", "done"}
    BY <1>0, <1>10 DEF ReadStat
  <2>2. QED BY <1>q, <1>10, <2>1 DEF Window, IsAtomic, ReadStat
<1>11. CASE OpenForRead(c)
  <2>1. /\ req' = req /\ replaced' = replaced /\ pc[c] = "hash" /\ UNCHANGED <<tree, data>>
        /\ pc'[c] \in {"read_rest", "done"}
    BY <1>0, <1>11 DEF OpenForRead
  <2>2. CASE req[c].op = "write" /\ pc'[c] = "read_rest"
    <3>1. IsFile(tree[req[c].path]) /\ half' = [half EXCEPT ![c] = data[tree[req[c].path]]]
      BY <1>0, <1>11, <2>2 DEF OpenForRead
    <3>2. half'[c] = View(req[c].path)
      BY <1>0, <3>1 DEF View, TypeOK
    <3>3. Checked(c) => Checked(c)'
      BY <1>v, <2>1, <2>2, <3>2 DEF Checked
    <3>4. QED BY <1>n, <2>1, <2>2, <3>3 DEF Window
  <2>3. CASE ~(req[c].op = "write" /\ pc'[c] = "read_rest")
    BY <1>q, <2>1, <2>3 DEF Window, IsAtomic
  <2>4. QED BY <2>2, <2>3
<1>12. CASE ReadRest(c)
  <2>1. /\ req' = req /\ replaced' = replaced /\ pc[c] = "read_rest" /\ UNCHANGED <<tree, data>>
        /\ pc'[c] \in {"open", "done"} /\ (pc'[c] = "open" => req[c].op = "write")
    BY <1>0, <1>12 DEF ReadRest
  <2>2. CASE pc'[c] = "open"
    <3>1. PICK e \in Spliced(half[c], data[fd[c]]) : req[c].ifSha \in {NoSha, e}
      BY <1>0, <1>12, <2>2 DEF ReadRest
    <3>2. e \in {half[c], Torn} /\ req[c].ifSha \in Content \cup {NoSha}
      BY <1>r, <2>1, <3>1 DEF Spliced
    <3>3. req[c].ifSha # NoSha => req[c].ifSha = half[c]
      BY <3>1, <3>2, TokenAssumption
    <3>4. Checked(c) => Checked(c)'
      BY <1>v, <2>1, <2>2, <3>3 DEF Checked
    <3>5. QED BY <1>n, <2>1, <2>2, <3>4 DEF Window
  <2>3. CASE pc'[c] = "done"
    BY <1>q, <2>1, <2>3 DEF Window
  <2>4. QED BY <2>1, <2>2, <2>3
<1>13. CASE MkdirStat(c)
  <2>1. /\ req' = req /\ replaced' = replaced
        /\ pc'[c] \in {"chmod", "mkdir", "done"}
    BY <1>0, <1>13 DEF MkdirStat
  <2>2. QED BY <1>q, <1>13, <2>1 DEF Window, IsAtomic, MkdirStat
<1>14. CASE MkdirCreate(c)
  <2>1. /\ req' = req /\ replaced' = replaced /\ pc'[c] \in {"chmod", "done"}
        /\ req[c].op = "mkdir"
    BY <1>0, <1>14 DEF MkdirCreate, Phases
  <2>2. QED BY <1>q, <2>1 DEF Window, IsAtomic
<1>15. CASE MkdirChmod(c)
  <2>1. /\ req' = req /\ replaced' = replaced
        /\ pc'[c] \in {"done"}
    BY <1>0, <1>15 DEF MkdirChmod
  <2>2. QED BY <1>q, <1>15, <2>1 DEF Window, IsAtomic, MkdirChmod
<1>16. CASE RmStat(c)
  <2>1. /\ req' = req /\ replaced' = replaced
        /\ pc'[c] \in {"remove", "done"}
    BY <1>0, <1>16 DEF RmStat
  <2>2. QED BY <1>q, <1>16, <2>1 DEF Window, IsAtomic, RmStat
<1>17. CASE RmRemove(c)
  <2>1. /\ req' = req /\ replaced' = replaced
        /\ pc'[c] \in {"done"}
    BY <1>0, <1>17 DEF RmRemove
  <2>2. QED BY <1>q, <1>17, <2>1 DEF Window, IsAtomic, RmRemove
<1>18. CASE MoveStatSource(c)
  <2>1. /\ req' = req /\ replaced' = replaced
        /\ pc'[c] \in {"stat_dest", "done"}
    BY <1>0, <1>18 DEF MoveStatSource
  <2>2. QED BY <1>q, <1>18, <2>1 DEF Window, IsAtomic, MoveStatSource
<1>19. CASE MoveStatDest(c)
  <2>1. /\ req' = req /\ replaced' = replaced /\ replaced[c] = Nothing
        /\ pc'[c] \in {"remove", "move", "done"} /\ UNCHANGED <<tree, data>>
        /\ req[c].op = "move"
    BY <1>0, <1>19 DEF MoveStatDest, GuardAt, Phases
  <2>2. ASSUME Window(c)' PROVE Checked(c)'
    <3>1. ~req[c].overwrite => tree[req[c].dest] = Absent
      BY <1>0, <1>19, <2>1, <2>2 DEF MoveStatDest, Window
    <3>2. ~req[c].overwrite => View(req[c].dest) = Absent
      BY <3>1, NodeAssumption DEF View, IsFile
    <3>3. QED BY <1>v, <2>1, <3>2 DEF Checked
  <2>3. QED BY <2>1, <2>2 DEF GuardAt
<1>20. CASE MoveRemove(c)
  <2>1. /\ req' = req /\ replaced' = replaced /\ pc[c] = "remove" /\ req[c].op = "move"
        /\ pc'[c] \in {"move", "done"}
    BY <1>0, <1>20 DEF MoveRemove
  <2>2. CASE pc'[c] = "move"
    <3>1. tree' = RemoveTree(tree, req[c].dest) /\ req[c].dest \in Path
      BY <1>0, <1>r, <1>20, <2>1, <2>2 DEF MoveRemove
    <3>2. tree'[req[c].dest] = Absent
      BY <3>1 DEF RemoveTree
    <3>3. View(req[c].dest)' = Absent
      BY <2>1, <3>2, NodeAssumption DEF View, IsFile
    <3>4. Checked(c)'
      BY <2>1, <3>3 DEF Checked
    <3>5. QED BY <1>n, <2>1, <2>2, <3>4 DEF Window
  <2>3. CASE pc'[c] = "done"
    BY <1>q, <2>1, <2>3 DEF Window
  <2>4. QED BY <2>1, <2>2, <2>3
<1>21. CASE MoveRename(c)
  <2>1. /\ req' = req /\ Started(c) /\ Window(c) /\ ~Window(c)' /\ pc[c] = "move"
        /\ pc'[c] = "done" /\ req[c].op = "move"
    BY <1>0, <1>r, <1>21 DEF MoveRename, Phases, Window
  <2>2. CASE replaced' = replaced
    BY <1>q, <2>1, <2>2
  <2>3. CASE replaced' = [replaced EXCEPT ![c] = View(req[c].dest)]
    <3>1. replaced'[c] = View(req[c].dest)
      BY <1>0, <2>3
    <3>2. Checked(c) => GuardHolds(c)'
      BY <2>1, <3>1 DEF Checked, GuardHolds
    <3>3. QED BY <1>k, <2>1, <3>2
  <2>4. QED BY <1>21, <2>2, <2>3 DEF MoveRename
<1>22. QED
  BY <1>1, <1>2, <1>3, <1>4, <1>5, <1>6, <1>7, <1>8, <1>9, <1>10, <1>11, <1>12, <1>13,
      <1>14, <1>15, <1>16, <1>17, <1>18, <1>19, <1>20, <1>21 DEF Step

(* handle_fs_write, handle_fs_move: what a commit replaces satisfies the    *)
(* precondition of its request unless another connection changed the target *)
(* between the check and the commit, for any number of connections.         *)
THEOREM PreconditionsHold == Spec => []GuardsHoldWithoutOverlap
<1>1. Init => Guards
  BY DEF Init, Guards, GuardAt, Started, Window
<1>2. IInv /\ Guards /\ [Next]_vars => Guards'
  <2> SUFFICES ASSUME IInv, Guards, [Next]_vars, NoncesDistinct', NEW d \in Conn PROVE GuardAt(d)'
    BY DEF Guards
  <2>0. NoncesDistinct
    <3>1. CASE UNCHANGED nonce
      BY <3>1 DEF NoncesDistinct
    <3>2. ASSUME NEW c \in Conn, Step(c) PROVE NoncesDistinct
      BY <3>2, StepNonces DEF IInv
    <3>3. QED BY <3>1, <3>2 DEF Next, Crash, Terminated, vars
  <2>1. GuardAt(d)
    BY <2>0 DEF Guards
  <2>2. CASE Crash
    <3>1. /\ UNCHANGED <<req, replaced, overlap>>
          /\ pc'[d] = IF Running(d) THEN "dead" ELSE pc[d]
      BY <2>2 DEF Crash
    <3>2. ~Window(d)' /\ (pc'[d] = "idle" => pc[d] = "idle")
      BY <3>1 DEF Window, Running
    <3>3. pc'[d] \notin {"mkparents", "stat", "stat_source", "stat_dest"}
      BY <3>1 DEF Running
    <3>4. QED BY <2>1, <3>1, <3>2, <3>3 DEF GuardAt, GuardHolds, Started
  <2>3. CASE UNCHANGED vars
    BY <2>1, <2>3 DEF vars, GuardAt, GuardHolds, Started, Window, Checked, IsAtomic, View
  <2>4. ASSUME NEW c \in Conn, Step(c), Track(c) PROVE GuardAt(d)'
    BY <2>0, <2>1, <2>4, OwnKept, OthersNoted
  <2>5. QED BY <2>2, <2>3, <2>4 DEF Next, Terminated
<1>3. Guards => GuardsHoldWithoutOverlap
  BY DEF Guards, GuardAt, GuardsHoldWithoutOverlap
<1>4. QED BY <1>1, <1>2, <1>3, InvariantHolds, PTL DEF Spec

-----------------------------------------------------------------------------
(* A temporary file belongs to the atomic write that created it, which is   *)
(* between its creation and its rename or removal.                          *)
Owners ==
    crashes = 0 /\ (\A c \in Conn : ~MovesDirectory(c)) =>
        \A q \in Path : ~IsUserPath(q) /\ tree[q] # Absent =>
            \E c \in Conn : /\ tree[q] = c /\ q = Temp(c) /\ IsAtomic(c)
                            /\ pc[c] \in {"write", "chmod", "rename", "cleanup"}

(* What moves below a destination was below the source. *)
LEMMA RebaseUnder ==
    ASSUME NEW q \in Path, NEW dst \in Path, NEW src \in Path, Under(q, dst),
           NEW r \in Path, r = Rebase(q, dst, src)
    PROVE  Under(r, src)
<1> DEFINE S == STRING \X Nat
<1>1. /\ q \in Seq(S) /\ dst \in Seq(S) /\ src \in Seq(S)
      /\ Len(q) \in Nat /\ Len(dst) \in Nat /\ Len(src) \in Nat
      /\ Len(q) > Len(dst)
  BY PathIsSeq DEF Under
<1>2. PICK tl \in Seq(S) : tl = SubSeq(q, Len(dst) + 1, Len(q)) /\ Len(tl) = Len(q) - Len(dst)
  <2>1. /\ SubSeq(q, Len(dst) + 1, Len(q)) \in Seq(S)
        /\ Len(SubSeq(q, Len(dst) + 1, Len(q))) = Len(q) - Len(dst)
    BY <1>1
  <2>2. QED BY <2>1
<1>3. r = src \o tl
  BY <1>2 DEF Rebase
<1> HIDE DEF S
<1>4. r \in Seq(S) /\ Len(r) = Len(src) + Len(tl)
  BY <1>1, <1>2, <1>3, ConcatProperties
<1>5. Len(r) > Len(src)
  BY <1>1, <1>2, <1>4
<1>6. \A i \in 1 .. Len(src) : r[i] = src[i]
  <2>1. ASSUME NEW i \in 1 .. Len(src) PROVE r[i] = src[i]
    <3>1. i \in 1 .. Len(src) + Len(tl) /\ i <= Len(src)
      BY <1>1, <1>2
    <3>2. QED BY <1>1, <1>2, <1>3, <3>1, ConcatProperties
  <2>2. QED BY <2>1
<1>7. SubSeq(r, 1, Len(src)) = src
  BY <1>1, <1>4, <1>5, <1>6
<1>8. QED BY <1>5, <1>7 DEF Under

(* rename(2) of something with nothing below it puts nothing at another     *)
(* path than the destination.                                               *)
LEMMA RenameAlone ==
    ASSUME NEW t \in Tree, NEW src \in Path, NEW dst \in Path,
           ~\E r \in Path : Under(r, src), NEW q \in Path, q # dst
    PROVE  /\ Rename(t, src, dst)[q] \in {Absent, t[q]}
           /\ q = src /\ src # dst => Rename(t, src, dst)[q] = Absent
<1>1. CASE src = dst
  BY <1>1 DEF Rename, Tree
<1>2. CASE src # dst /\ Under(q, dst)
  <2>1. Rebase(q, dst, src) \notin Path
    BY <1>2, RebaseUnder
  <2>2. QED BY <1>2, <2>1 DEF Rename
<1>3. CASE src # dst /\ ~Under(q, dst)
  BY <1>3 DEF Rename
<1>4. QED BY <1>1, <1>2, <1>3

(* A temporary file appears only by its own write, and no call but the move *)
(* of a directory takes it elsewhere.                                       *)
LEMMA TempsStay ==
    ASSUME TypeOK, Phases, NEW c \in Conn, Step(c), ~MovesDirectory(c),
           NEW q \in Path, ~IsUserPath(q), tree'[q] # Absent
    PROVE  \/ tree'[q] = tree[q]
           \/ OpenTemp(c) /\ pc'[c] = "write" /\ tree'[q] = c /\ q = Temp(c)'
<1> USE DEF fsVars
<1>r. pc[c] \notin {"idle", "dead"} => /\ Started(c) /\ req[c] \in Requests
                    /\ req[c].path \in Path /\ req[c].dest \in Path
                    /\ IsUserPath(req[c].path) /\ IsUserPath(req[c].dest)
  BY RequestTyped DEF TypeOK, Started
<1>t. tree \in Tree
  BY DEF TypeOK
<1>p. ASSUME NEW p \in Path, IsUserPath(p) PROVE q # p /\ ~Under(p, q)
  BY <1>p, AboveIsUserPath
<1>c. ASSUME NEW p \in Path, IsUserPath(p), tree' = CreateDirAll(tree, p)
      PROVE  tree'[q] = tree[q]
  BY <1>p, <1>c DEF CreateDirAll
<1>m. ASSUME NEW p, tree' = RemoveTree(tree, p) PROVE tree'[q] = tree[q]
  BY <1>m DEF RemoveTree
<1>1. CASE WriteMkParents(c)
  <2>1. PICK p : /\ p = Parent(req[c].path)
                 /\ \/ tree' = tree
                    \/ p # << >> /\ tree' = CreateDirAll(tree, p)
    BY <1>1 DEF WriteMkParents
  <2>2. ASSUME p # << >> PROVE p \in Path /\ IsUserPath(p)
    <3> DEFINE x == req[c].path
    <3>1. x \in Path /\ x \in Seq(STRING \X Nat) /\ Len(x) \in Nat /\ Len(x) >= 1
      BY <1>1, <1>r, PathIsSeq DEF WriteMkParents
    <3>2. p = SubSeq(x, 1, Len(x) - 1)
      BY <2>1 DEF Parent
    <3> HIDE DEF x
    <3>3. Len(x) > 1 /\ Len(p) = Len(x) - 1
      BY <2>2, <3>1, <3>2
    <3>4. p \in Path
      BY <3>1, <3>2, <3>3, PathAssumption
    <3>5. Under(x, p)
      BY <3>1, <3>2, <3>3 DEF Under
    <3>6. QED BY <3>1, <3>4, <3>5, AboveIsUserPath
  <2>3. QED BY <1>c, <2>1, <2>2
<1>2. CASE MkdirCreate(c)
  <2>1. \/ tree' = tree
        \/ tree' = CreateDirAll(tree, req[c].path)
        \/ tree' = Link(tree, req[c].path, Dir)
    BY <1>2 DEF MkdirCreate
  <2>2. req[c].path \in Path /\ IsUserPath(req[c].path)
    BY <1>2, <1>r DEF MkdirCreate
  <2>3. QED BY <1>c, <1>p, <1>t, <2>1, <2>2 DEF Link, Tree
<1>3. CASE OpenDirect(c)
  <2>1. req[c].path \in Path /\ IsUserPath(req[c].path)
    BY <1>3, <1>r DEF OpenDirect
  <2>2. tree' = tree \/ \E n : tree' = Link(tree, req[c].path, n)
    BY <1>3 DEF OpenDirect
  <2>3. QED BY <1>p, <1>t, <2>1, <2>2 DEF Link, Tree
<1>4. CASE OpenTemp(c)
  <2>1. PICK n \in Nonce :
          /\ nonce' = [nonce EXCEPT ![c] = n]
          /\ \/ tree' = tree
             \/ /\ tree' = Link(tree, TempPath(req[c].path, n), c)
                /\ pc' = [pc EXCEPT ![c] = "write"]
    BY <1>4 DEF OpenTemp, Continue, Goto
  <2>2. /\ Temp(c)' = TempPath(req[c].path, n)
        /\ pc' = [pc EXCEPT ![c] = "write"] => pc'[c] = "write"
    BY <1>4, <2>1 DEF Temp, OpenTemp, TypeOK
  <2>3. CASE q = TempPath(req[c].path, n)
    BY <1>4, <1>t, <2>1, <2>2, <2>3 DEF Link, Tree
  <2>4. CASE q # TempPath(req[c].path, n)
    BY <1>t, <2>1, <2>4 DEF Link, Tree
  <2>5. QED BY <2>3, <2>4
<1>5. CASE RenameTemp(c)
  <2>1. /\ req[c].path \in Path /\ IsUserPath(req[c].path)
        /\ Temp(c) \in Path /\ ~IsUserPath(Temp(c))
    BY <1>5, <1>r, TempIsHidden DEF RenameTemp, Phases, IsAtomic, Temp
  <2>2. ~\E r \in Path : Under(r, Temp(c))
    BY <2>1, AboveIsUserPath
  <2>3. tree' = tree \/ tree' = Rename(tree, Temp(c), req[c].path)
    BY <1>5 DEF RenameTemp
  <2>4. q # req[c].path
    BY <1>p, <2>1
  <2>5. QED BY <1>t, <2>1, <2>2, <2>3, <2>4, RenameAlone
<1>6. CASE CleanupTemp(c)
  BY <1>6, <1>t DEF CleanupTemp, Link, Tree
<1>7. CASE RmRemove(c)
  BY <1>7, <1>m DEF RmRemove
<1>8. CASE MoveRemove(c)
  BY <1>8, <1>m DEF MoveRemove
<1>9. CASE MoveRename(c)
  <2>1. /\ req[c].path \in Path /\ req[c].dest \in Path /\ IsUserPath(req[c].dest)
        /\ Started(c) /\ req[c].op = "move"
    BY <1>9, <1>r DEF MoveRename, Phases
  <2>2. ~\E r \in Path : Under(r, req[c].path)
    BY <2>1 DEF MovesDirectory
  <2>3. tree' = tree \/ tree' = Rename(tree, req[c].path, req[c].dest)
    BY <1>9 DEF MoveRename
  <2>4. q # req[c].dest
    BY <1>p, <2>1
  <2>5. QED BY <1>t, <2>1, <2>2, <2>3, <2>4, RenameAlone
<1>10. CASE UNCHANGED tree
  BY <1>10
<1>11. QED
  BY <1>1, <1>2, <1>3, <1>4, <1>5, <1>6, <1>7, <1>8, <1>9, <1>10
  DEF Step, Receive, WriteStat, WriteData, WriteChmod, ReadStat, OpenForRead, ReadRest, MkdirStat,
      MkdirChmod, RmStat, MoveStatSource, MoveStatDest

(* An atomic write that ends has renamed or removed its temporary file. *)
LEMMA TempsGo ==
    ASSUME TypeOK, Phases, NEW c \in Conn, Step(c), IsAtomic(c), tree[Temp(c)] = c,
           pc[c] \in {"write", "chmod", "rename", "cleanup"}
    PROVE  \/ pc'[c] \in {"write", "chmod", "rename", "cleanup"}
           \/ tree'[Temp(c)] = Absent
<1>1. WriteData(c) \/ WriteChmod(c) \/ RenameTemp(c) \/ CleanupTemp(c)
  BY DEF Step, Receive, WriteMkParents, WriteStat, OpenDirect, OpenTemp, ReadStat, OpenForRead,
         ReadRest, MkdirStat, MkdirCreate, MkdirChmod, RmStat, RmRemove, MoveStatSource,
         MoveStatDest, MoveRemove, MoveRename, IsAtomic
<1>2. /\ Started(c) /\ req[c].op = "write" /\ nonce[c] \in Nonce
      /\ req[c].path \in Path /\ IsUserPath(req[c].path)
  BY RequestTyped DEF IsAtomic, Phases, TypeOK, Started
<1>3. Temp(c) \in Path /\ ~IsUserPath(Temp(c)) /\ Temp(c) # req[c].path
  BY <1>2, TempIsHidden DEF Temp
<1>4. CASE WriteData(c) \/ WriteChmod(c)
  BY <1>4 DEF WriteData, WriteChmod, WriteFails, Continue, Goto, TypeOK
<1>5. CASE RenameTemp(c)
  <2>1. \/ pc'[c] = "cleanup"
        \/ tree' = Rename(tree, Temp(c), req[c].path)
    BY <1>5 DEF RenameTemp, WriteFails, Goto, TypeOK
  <2>2. ~\E r \in Path : Under(r, Temp(c))
    BY <1>3, AboveIsUserPath
  <2>3. QED BY <1>2, <1>3, <2>1, <2>2, RenameAlone DEF TypeOK
<1>6. CASE CleanupTemp(c)
  <2>1. CanRemoveFile(tree, Temp(c))
    BY ConnAssumption DEF CanRemoveFile, IsFile
  <2>2. QED BY <1>3, <1>6, <2>1 DEF CleanupTemp, Link, TypeOK, Tree
<1>7. QED BY <1>1, <1>4, <1>5, <1>6

(* Every call keeps the temporary files with their writers. *)
LEMMA StepOwners ==
    ASSUME IInv, Owners, NEW c \in Conn, Step(c)
    PROVE  Owners'
<1> SUFFICES ASSUME crashes' = 0, \A d \in Conn : ~MovesDirectory(d)',
                    NEW q \in Path, ~IsUserPath(q), tree'[q] # Absent
             PROVE  \E d \in Conn : /\ tree'[q] = d /\ q = Temp(d)' /\ IsAtomic(d)'
                                    /\ pc'[d] \in {"write", "chmod", "rename", "cleanup"}
  BY DEF Owners
<1>0. TypeOK /\ Phases
  BY DEF IInv
<1>1. crashes = 0
  BY DEF Step, Receive, WriteMkParents, WriteStat, OpenDirect, OpenTemp, WriteData,
        WriteChmod, RenameTemp, CleanupTemp, ReadStat, OpenForRead, ReadRest, MkdirStat,
        MkdirCreate, MkdirChmod, RmStat, RmRemove, MoveStatSource, MoveStatDest, MoveRemove,
        MoveRename
<1>2. \A d \in Conn : ~MovesDirectory(d)
  BY <1>0, StepFrame DEF MovesDirectory, Started, Phases
<1>3. CASE OpenTemp(c) /\ pc'[c] = "write" /\ tree'[q] = c /\ q = Temp(c)'
  BY <1>3 DEF OpenTemp, IsAtomic
<1>4. CASE tree'[q] = tree[q]
  <2>1. PICK d \in Conn : /\ tree[q] = d /\ q = Temp(d) /\ IsAtomic(d)
                          /\ pc[d] \in {"write", "chmod", "rename", "cleanup"}
    BY <1>1, <1>2, <1>4 DEF Owners
  <2>2. /\ req'[d] = req[d] /\ nonce'[d] = nonce[d]
    BY <1>0, <2>1, StepFrame
  <2>3. IsAtomic(d)' /\ q = Temp(d)'
    BY <2>1, <2>2 DEF IsAtomic, Temp
  <2>4. pc'[d] \in {"write", "chmod", "rename", "cleanup"}
    <3>1. CASE d # c
      BY <1>0, <2>1, <3>1, StepFrame
    <3>2. CASE d = c
      BY <1>0, <2>1, <3>2, TempsGo
    <3>3. QED BY <3>1, <3>2
  <2>5. QED BY <1>4, <2>1, <2>3, <2>4
<1>5. QED BY <1>0, <1>2, <1>3, <1>4, TempsStay

(* write_atomic_file: as long as the process lives and nobody moves the     *)
(* directory, a temporary file belongs to a write that is still running:    *)
(* whatever fails, none is left behind.                                     *)
THEOREM TemporaryFilesAreOwned == Spec => []TempsHaveAWriter
<1>1. Init => Owners
  BY InitAssumption DEF Init, Owners
<1>2. IInv /\ Owners /\ [Next]_vars => Owners'
  <2> SUFFICES ASSUME IInv, Owners, [Next]_vars PROVE Owners'
    OBVIOUS
  <2>1. CASE Crash
    <3>1. crashes' # 0
      BY <2>1, CrashAssumption DEF Crash, IInv, TypeOK
    <3>2. QED BY <3>1 DEF Owners
  <2>2. CASE UNCHANGED vars
    BY <2>2 DEF vars, Owners, MovesDirectory, Started, Temp, IsAtomic
  <2>3. QED BY <2>1, <2>2, StepOwners DEF Next, Terminated
<1>3. Owners => TempsHaveAWriter
  BY DEF Owners, TempsHaveAWriter, Running
<1>4. QED BY <1>1, <1>2, <1>3, InvariantHolds, PTL DEF Spec
=============================================================================
