------------------------------ MODULE Delivery ------------------------------
(***************************************************************************)
(* What a batch transfer promises whoever started it, push or pull: the    *)
(* files at the destination grow, or are started afresh, one at a time; no *)
(* file outgrows its announced size; and success is reported only when     *)
(* every file holds exactly its source's bytes, after which nothing        *)
(* touches them any more.  A transfer that failed promises nothing of the  *)
(* content, and may go on writing for a while.                             *)
(***************************************************************************)
EXTENDS Manifest

VARIABLES
    outcome,  \* what the command has reported
    dest      \* dest[i]: the bytes of entry i's file at the destination

vars == <<outcome, dest>>

Init == outcome = "running" /\ dest = [i \in Entry |-> << >>]

Extends(s, t) == Len(t) <= Len(s) /\ \A k \in 1 .. Len(t) : s[k] = t[k]

Write ==
    /\ outcome # "ok"
    /\ \E i \in Entry :
         /\ Kind[i] = "file"
         /\ dest' = [dest EXCEPT ![i] = dest'[i]]
         /\ Len(dest'[i]) <= Size[i]
         /\ dest'[i] = << >> \/ Extends(dest'[i], dest[i])
    /\ UNCHANGED outcome

Succeed ==
    /\ outcome = "running"
    /\ \A i \in Entry : Kind[i] = "file" => dest[i] = Announced(i)
    /\ outcome' = "ok"
    /\ UNCHANGED dest

Fail == outcome = "running" /\ outcome' = "failed" /\ UNCHANGED dest

Next == Write \/ Succeed \/ Fail

Spec == Init /\ [][Next]_vars
=============================================================================
