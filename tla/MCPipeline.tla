----------------------------- MODULE MCPipeline -----------------------------
(* A corpus of two COBOL files and one other. *)
EXTENDS Pipeline

MCOrder == <<"A", "B", "J">>
MCCobol == {"A", "B"}
MCOther == {"J"}
=============================================================================
