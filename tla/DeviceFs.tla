------------------------------ MODULE DeviceFs ------------------------------
(***************************************************************************)
(* The part of the device's filesystem the daemon relies on: the effect    *)
(* of the calls rsdbd makes through std::fs and tokio::fs, on a tree that  *)
(* maps every path to what is linked there.  This is code outside the      *)
(* repository, modelled from how the daemon uses it: every operator is one *)
(* system call (or one library call that loops over system calls), and a   *)
(* call that fails leaves the tree alone.                                  *)
(*                                                                         *)
(* A path is a non-empty sequence of names; the parent of a path of length *)
(* one is a directory that always exists.  A name is a pair <<base, k>>:   *)
(* k = 0 for a name a client can ask for, k > 0 for the temporary sibling  *)
(* ".base.rsdb-tmp-k", which is never a directory.  Symbolic links are left *)
(* out.                                                                    *)
(***************************************************************************)
EXTENDS Naturals, Sequences

CONSTANTS
    Path,      \* the paths of the model
    Inode,     \* identities of regular files
    Absent,    \* nothing is linked at the path
    Dir        \* a directory is linked at the path

ASSUME PathAssumption ==
    /\ \A p \in Path : p \in Seq(STRING \X Nat) /\ p # << >>
    /\ \A p \in Path : Len(p) > 1 => SubSeq(p, 1, Len(p) - 1) \in Path
    /\ \A p \in Path : \A i \in 1 .. Len(p) - 1 : p[i][2] = 0

ASSUME NodeAssumption == Absent \notin Inode /\ Dir \notin Inode /\ Absent # Dir

Node == Inode \cup {Absent, Dir}
Tree == [Path -> Node]

IsFile(n) == n \in Inode

Last(p) == p[Len(p)]

(* A path a client can name, as opposed to a temporary file of the daemon. *)
IsUserPath(p) == Last(p)[2] = 0

Parent(p) == SubSeq(p, 1, Len(p) - 1)

(* q lies strictly below p. *)
Under(q, p) == Len(q) > Len(p) /\ SubSeq(q, 1, Len(p)) = p

HasParent(t, p) == Len(p) = 1 \/ t[Parent(p)] = Dir

IsEmptyDir(t, p) == t[p] = Dir /\ \A q \in Path : Under(q, p) => t[q] = Absent

(* open(O_CREAT), mkdir and link-like calls: what is linked at p becomes n. *)
Link(t, p, n) == [t EXCEPT ![p] = n]

(* create_dir_all: every missing ancestor is created.  It fails when a file *)
(* is in the way.                                                          *)
CanCreateDirAll(t, p) == \A q \in Path : q = p \/ Under(p, q) => ~IsFile(t[q])

CreateDirAll(t, p) == [q \in Path |-> IF q = p \/ Under(p, q) THEN Dir ELSE t[q]]

(* remove_file, remove_dir and remove_dir_all. *)
CanRemoveFile(t, p) == IsFile(t[p])
CanRemoveDir(t, p)  == IsEmptyDir(t, p)
CanRemoveTree(t, p) == t[p] = Dir

RemoveTree(t, p) == [q \in Path |-> IF q = p \/ Under(q, p) THEN Absent ELSE t[q]]

(* rename(2): the conditions under which it succeeds, and its effect.  The  *)
(* subtree of a directory moves with it.                                    *)
CanRename(t, src, dst) ==
    /\ t[src] # Absent
    /\ HasParent(t, dst)
    /\ ~Under(dst, src)
    /\ \/ src = dst
       \/ t[dst] = Absent
       \/ IsFile(t[src]) /\ IsFile(t[dst])
       \/ t[src] = Dir /\ IsEmptyDir(t, dst)

Rebase(q, dst, src) == src \o SubSeq(q, Len(dst) + 1, Len(q))

Rename(t, src, dst) ==
    IF src = dst THEN t
    ELSE [q \in Path |->
            IF q = dst \/ Under(q, dst)
            THEN IF Rebase(q, dst, src) \in Path THEN t[Rebase(q, dst, src)] ELSE Absent
            ELSE IF q = src \/ Under(q, src) THEN Absent ELSE t[q]]
=============================================================================
