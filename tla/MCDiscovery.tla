----------------------------- MODULE MCDiscovery ----------------------------
EXTENDS Discovery, TLC

CONSTANTS bcast, local, near, lan, lo

(* The daemon is on the client's machine: the probe to the broadcast        *)
(* address reaches it, and so does the one to localhost.                    *)
MCDest   == {bcast, local}
MCReach  == (bcast :> {<<near, lan>>}) @@ (local :> {<<near, lo>>})
MCNameOf == [d \in {near} |-> "tizen"]
=============================================================================
