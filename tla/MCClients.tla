----------------------------- MODULE MCClients ------------------------------
EXTENDS Clients

Request(k, v, d) == [kind |-> k, verify |-> v, dest |-> d, slash |-> FALSE, wildcard |-> FALSE]
Old == Content(2, 2, 1)

(* A file and a directory are pulled to nothing, a directory and a file,    *)
(* with every kind of verification between them.                            *)
MCRequests ==
    {Request("dir", "size", Absent), Request("dir", "none", Absent), Request("dir", "sha256", Dir),
     Request("dir", "none", Old), Request("file", "size", Old), Request("file", "sha256", Absent),
     Request("file", "none", Dir),
     [Request("file", "sha256", Absent) EXCEPT !.slash = TRUE],
     [Request("file", "sha256", Old) EXCEPT !.slash = TRUE],
     [Request("file", "sha256", Absent) EXCEPT !.wildcard = TRUE]}

(* A directory is pulled to a path where nothing is, and verified. *)
MCToNothing == {Request("dir", v, Absent) : v \in {"size", "sha256"}}
=============================================================================
