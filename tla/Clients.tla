------------------------------- MODULE Clients ------------------------------
(***************************************************************************)
(* A transfer.pull and an edit of the same file on one device, with a      *)
(* third party that writes to it.  The edit's save is what disturbs the    *)
(* pull, and the third party disturbs both.                                *)
(***************************************************************************)
EXTENDS RemoteFile

CONSTANTS PullRequests, InlineMax,
          MaxWrites   \* bound: steps of the third party

ASSUME ClientsAssumption ==
    /\ MaxSize \in Nat \ {0} /\ InlineMax \in Nat /\ MaxWrites \in Nat
    /\ PullRequests \subseteq [kind : {"file", "dir"}, verify : {"none", "size", "sha256"},
                               dest : Node, slash : BOOLEAN, wildcard : BOOLEAN]

VARIABLES
    req, ppc, base, vbase, announced, pfd, phead, vsize, local, touched, vtouched,
    epc, away, inline, asize, efd, ehead, hashed, shown, tmp, saved, delivered, raced, lost,
    writes,   \* steps of the third party
    inplace   \* history: the third party or a push wrote to the file in place

P == INSTANCE AgentPull
E == INSTANCE Edit

pullVars == <<req, ppc, base, vbase, announced, pfd, phead, vsize, local, touched, vtouched>>
editVars == <<epc, away, inline, asize, efd, ehead, hashed, shown, tmp, saved, delivered,
              raced, lost>>
vars == <<remote, pullVars, editVars, writes, inplace>>

Init ==
    /\ link = 1 /\ \E s \in 1 .. MaxSize :
                       ino = [i \in Inode |-> IF i = 1 THEN Content(1, 1, s) ELSE Empty]
    /\ P!Init /\ E!Init
    /\ writes = 0 /\ inplace = FALSE

PullStep == P!Next /\ UNCHANGED <<editVars, writes, inplace>>

EditStep ==
    /\ E!Next /\ P!Observe
    /\ inplace' = (inplace \/ (~inline /\ ino' # ino))
    /\ UNCHANGED writes

(* The third party writes a part in place, or removes the file. *)
Write ==
    /\ writes < MaxWrites /\ writes' = writes + 1
    /\ link # 0
    /\ \/ \E v \in {1, 2} : ino' = [ino EXCEPT ![link].head = v] /\ UNCHANGED link
       \/ \E s \in 1 .. MaxSize :
            ino' = [ino EXCEPT ![link].tail = 2, ![link].size = s] /\ UNCHANGED link
       \/ link' = 0 /\ UNCHANGED ino
    /\ inplace' = (inplace \/ ino' # ino)
    /\ P!Observe /\ E!Observe

Terminated == ppc \in P!Ends /\ epc \in E!Ends /\ UNCHANGED vars

Next == PullStep \/ EditStep \/ Write \/ Terminated

Spec == Init /\ [][Next]_vars
-----------------------------------------------------------------------------
(* Type correctness of the device's file and of both commands. *)
TypeOK ==
    /\ link \in Inode \cup {0} /\ ino \in [Inode -> Node]
    /\ P!TypeOK /\ E!TypeOK
    /\ writes \in 0 .. MaxWrites /\ inplace \in BOOLEAN

(* A successful transfer.pull is an exact copy if nobody changed the file   *)
(* meanwhile.  With --verify sha256 changes during the pull do no harm      *)
(* either, although the file is streamed and hashed in parts and its size   *)
(* and its hash are taken by two looks at the path.                         *)
PullIsExact == P!PullIsExact

(* A verification fails only if the remote file was changed, or if the      *)
(* destination, resolved again, is not where the files were put.            *)
MismatchHasACause == P!MismatchHasACause

(* The repository's regression script expects of a pull of unchanged files  *)
(* that "verified" is true.                                                 *)
FaithfulPullVerifies == P!FaithfulPullVerifies

(* A save by fs.write with --atomic never tears a pull that is under way:   *)
(* unless somebody writes in place, what a successful pull brings is one    *)
(* version of the file, the old or the edited.                              *)
AtomicSaveNeverTears ==
    /\ TypeOK
    /\ ppc = "ok" /\ ~inplace => P!Pulled \in {Absent, ino[1], ino[2]}

(* edit_command: what the user saved in the editor is not lost, wherever    *)
(* the command fails: it is in the temporary directory until all of it has  *)
(* reached the device.                                                      *)
EditIsKept == E!EditIsKept

(* A save overwrites a change the editor never showed only if the change    *)
(* came after the comparison of hashes had begun, or if the file had other  *)
(* content when it was hashed than when it was read.                        *)
UpdateLostNeedsRace == E!UpdateLostNeedsRace
=============================================================================
