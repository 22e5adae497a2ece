----------------------------- MODULE MCPrograms -----------------------------
(***************************************************************************)
(* The three programs from their command lines to their ends, for every    *)
(* line of the vocabulary of MCCommandLine.                                *)
(***************************************************************************)
EXTENDS MCCommandLine, Programs
=============================================================================
