------------------------------ MODULE Manifest ------------------------------
(***************************************************************************)
(* The manifest of a batch transfer: what both ends know of the files      *)
(* before the first byte of them is sent (TransferEntry, LocalBatchFile,   *)
(* BatchFileSource).  Names, modes and roots are left out.                 *)
(***************************************************************************)
EXTENDS Naturals, Sequences

CONSTANTS
    N,      \* number of entries
    Kind,   \* Kind[i]: "file" or "dir"
    Size,   \* Size[i]: the size the manifest announces for entry i
    Base    \* Base[i]: total_bytes when entry i is appended to the manifest

ASSUME ManifestAssumption ==
    /\ N \in Nat
    /\ Kind \in [1 .. N -> {"file", "dir"}]
    /\ Size \in [1 .. N -> Nat]
    /\ \A i \in 1 .. N : Kind[i] = "dir" => Size[i] = 0

(* total_bytes is summed up entry by entry. *)
ASSUME BaseAssumption ==
    /\ Base \in [1 .. N + 1 -> Nat]
    /\ Base[1] = 0
    /\ \A i \in 1 .. N : Base[i + 1] = Base[i] + Size[i]

Entry == 1 .. N

(* total_bytes of the complete manifest. *)
TotalBytes == Base[N + 1]

(* A byte is a pair <<f, k>>, the k-th byte read from the source of entry f. *)
SourceByte == Entry \X (Nat \ {0})

(* The content of entry i as the manifest announced it. *)
Announced(i) == [k \in 1 .. Size[i] |-> <<i, k>>]
=============================================================================
