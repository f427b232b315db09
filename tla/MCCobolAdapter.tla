--------------------------- MODULE MCCobolAdapter ---------------------------
(* Both readers and the fallback from one to the other. *)
EXTENDS CobolAdapter, MCCobolSource
=============================================================================
