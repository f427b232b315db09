---------------------------- MODULE MCProvenance ----------------------------
(* Programs of at most MaxLines lines, and two copybooks. *)
EXTENDS Provenance

CONSTANT MaxLines

MCCode == {"call", "read", "exec", "pair", "move", "COPY B1", "COPY B2"}
MCStarts == [c \in MCCode |-> CASE c \in {"call", "read", "exec"} -> 1 [] c = "pair" -> 2 [] OTHER -> 0]
MCCopyLines == {"COPY B1", "COPY B2"}
MCCopyOf == [c \in MCCopyLines |-> IF c = "COPY B1" THEN "B1" ELSE "B2"]
MCBookOrder == <<"B1", "B2">>

T(c) == [code |-> c, seq |-> FALSE]
Numbered(c) == [code |-> c, seq |-> TRUE]

Corpora_(codes, books) ==
  [src : BoundedSeq({T(c) : c \in codes}, MaxLines), book : books]

\* No copybook repeats a statement's line; the program may repeat its own.
UnsharedCorpora ==
  Corpora_({"call", "read", "move", Blank, "COPY B1"},
           {[B1 |-> <<T("exec")>>, B2 |-> <<>>], [B1 |-> <<T("move")>>, B2 |-> <<T("exec")>>]})
  \cup Corpora_({"call", Blank, "COPY B2"}, {[B1 |-> <<T("move")>>, B2 |-> <<Numbered("read"), T("exec")>>]})

\* Copybooks that have lines of the program, or of each other, and lines that start two
\* statements
SharedCorpora ==
  Corpora_({"exec", "pair", Blank, "COPY B1", "COPY B2"},
           {[B1 |-> <<T("exec")>>, B2 |-> <<>>],
            [B1 |-> <<Numbered("exec")>>, B2 |-> <<T("exec"), T("call")>>]})

\* A copybook that has a statement of the program
RepeatedCorpora == Corpora_({"exec", "COPY B1"}, {[B1 |-> <<T("exec")>>, B2 |-> <<>>]})

MCCorpora == UnsharedCorpora \cup SharedCorpora
=============================================================================
