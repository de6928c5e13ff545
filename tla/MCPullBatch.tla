---------------------------- MODULE MCPullBatch -----------------------------
(***************************************************************************)
(* A manifest with a directory, an empty file and two files that can take  *)
(* several frames; an error response is long enough to pass for a payload. *)
(***************************************************************************)
EXTENDS PullBatch

MCKind == <<"file", "dir", "file", "file">>
MCSize == <<2, 0, 0, 3>>
MCBase == <<0, 2, 2, 2, 5>>
=============================================================================
