---------------------------- MODULE MCFailureQueue ----------------------------
(***************************************************************************)
(* Small rings for TLC; the three reports tell the slots apart.             *)
(***************************************************************************)
EXTENDS FailureQueue

MCReports == {"zero", "a", "b"}
=============================================================================
