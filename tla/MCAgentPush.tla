---------------------------- MODULE MCAgentPush -----------------------------
(***************************************************************************)
(* Two clients push a file and a directory to the same destination.        *)
(***************************************************************************)
EXTENDS AgentPush, TLC

CONSTANTS a, b

MCClient == {a, b}
MCIsDir  == <<FALSE, TRUE>>

Atomic    == [atomic |-> TRUE, ifChanged |-> FALSE, verify |-> "none"]
IfChanged == [atomic |-> FALSE, ifChanged |-> TRUE, verify |-> "sha256"]
Direct    == [atomic |-> FALSE, ifChanged |-> FALSE, verify |-> "size"]

(* Two staged pushes, a staged and a direct one. *)
MCOptions == {(a :> Atomic) @@ (b :> IfChanged),
              (a :> [Atomic EXCEPT !.verify = "sha256"]) @@ (b :> Direct)}
=============================================================================
