------------------------------- MODULE MCExec -------------------------------
(***************************************************************************)
(* A command that fills its pipes and the connection, with chunks of       *)
(* several bytes.                                                          *)
(***************************************************************************)
EXTENDS Exec
=============================================================================
