---------------------------- MODULE MCPushBatch -----------------------------
(***************************************************************************)
(* A manifest with a directory, an empty file and two files that can take  *)
(* several frames, so that a file that grew can run over into the next.    *)
(***************************************************************************)
EXTENDS PushBatch

MCKind == <<"file", "dir", "file", "file">>
MCSize == <<2, 0, 0, 3>>
MCBase == <<0, 2, 2, 2, 5>>
=============================================================================
