------------------------------ MODULE MCCobol ------------------------------
(* The reader on patterns by itself. *)
EXTENDS Cobol, MCCobolSource
=============================================================================
