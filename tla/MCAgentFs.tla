----------------------------- MODULE MCAgentFs ------------------------------
(***************************************************************************)
(* Instances of AgentFs for TLC: a file "a" and a directory "d" at the top, *)
(* a file "a" inside "d", and the temporary siblings of the two files; the  *)
(* name "b" is free, and "d" can be moved to it.                            *)
(***************************************************************************)
EXTENDS AgentFs, TLC

CONSTANTS c1, c2,       \* connections
          old, oldIn,   \* the files found at start
          x, y          \* contents

User(n) == <<n, 0>>
A   == <<User("a")>>
B   == <<User("b")>>
D   == <<User("d")>>
DA  == <<User("d"), User("a")>>

TopNames == {<<n, k>> : n \in {"a"}, k \in {0} \cup Nonce} \cup {User("b"), User("d")}
MCPath   == {<<n>> : n \in TopNames} \cup {<<User(n), <<"a", k>>>> : n \in {"b", "d"}, k \in {0} \cup Nonce}

MCConn2  == {c1, c2}
MCInode2 == MCConn2 \cup {old, oldIn}
MCNonce2 == {1, 2}

MCContent == {x, y}
MCSize    == (x :> 1) @@ (y :> 2)

(* "a" holds x or is missing; "d" is missing, empty, or holds a file with y. *)
TreeOf(a, d, da) == [p \in Path |-> IF p = A THEN a ELSE IF p = D THEN d
                                    ELSE IF p = DA THEN da ELSE Absent]
MCInitTrees == {TreeOf(a, d[1], d[2]) : a \in {old, Absent},
                                        d \in {<<Absent, Absent>>, <<Dir, Absent>>, <<Dir, oldIn>>}}
MCInitData  == [i \in Inode |-> IF i = old THEN x ELSE IF i = oldIn THEN y ELSE Empty]

None == [op |-> "stat", bad |-> FALSE, hash |-> TRUE, path |-> A, dest |-> A, content |-> x, atomic |-> TRUE,
         ifMissing |-> FALSE, ifSha |-> NoSha, parents |-> FALSE, mode |-> FALSE,
         recursive |-> FALSE, force |-> FALSE, overwrite |-> FALSE]

Stat(p)        == [None EXCEPT !.path = p]
Read(p)        == [None EXCEPT !.op = "read", !.path = p]
Write(p, c, a) == [None EXCEPT !.op = "write", !.path = p, !.content = c, !.atomic = a]
Mkdir(p, m)    == [None EXCEPT !.op = "mkdir", !.path = p, !.parents = m, !.mode = m]
Rm(p, r)       == [None EXCEPT !.op = "rm", !.path = p, !.recursive = r, !.force = r]
Move(p, q, o)  == [None EXCEPT !.op = "move", !.path = p, !.dest = q, !.overwrite = o]

(* Every operation, direct and atomic writes, with and without guards. *)
MCAllRequests ==
    {Stat(DA), [Stat(DA) EXCEPT !.hash = FALSE], Read(A), [Read(A) EXCEPT !.bad = TRUE],
     Write(A, y, FALSE), Write(A, y, TRUE), Write(A, x, TRUE),
     [Write(A, x, TRUE) EXCEPT !.ifSha = x, !.mode = TRUE],
     [Write(A, x, FALSE) EXCEPT !.ifMissing = TRUE, !.mode = TRUE],
     [Write(DA, x, TRUE) EXCEPT !.parents = TRUE],
     Write(DA, y, FALSE), Read(DA),
     [Write(DA, y, TRUE) EXCEPT !.ifSha = y, !.mode = TRUE],
     [Write(DA, x, TRUE) EXCEPT !.ifMissing = TRUE],
     Mkdir(D, TRUE), Mkdir(A, FALSE), Rm(A, FALSE), Rm(D, TRUE), Rm(D, FALSE),
     Move(A, DA, FALSE), Move(DA, A, TRUE), Move(A, DA, TRUE), Move(D, B, FALSE)}

(* A move of a path onto itself. *)
MCSelfMoveRequests == {Move(A, A, TRUE)}
=============================================================================
