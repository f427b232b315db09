------------------------------- MODULE MCBms -------------------------------
(* Screen definitions of at most MaxLines lines. *)
EXTENDS Bms, SequencesExt

CONSTANT MaxLines

MCNames == {"A", "B"}
MCOperands == {"p", "q"}

Stmt_(macro, name, cont) == [macro |-> macro, name |-> name, operand |-> NoOperand, cont |-> cont]

Macros == {"DFHMSD", "DFHMDI", "DFHMDF"}

\* Statements of one line: mapsets, maps and fields, with and without names
Screens ==
  BoundedSeq({Stmt_(m, n, FALSE) : m \in Macros, n \in {"A", Blank}} \cup {Stmt_("DFHMDI", "B", FALSE)},
             MaxLines)

\* Statements of several lines, one ending at the end of the file
FoldedScreens ==
  {<<Stmt_("DFHMSD", "A", FALSE), Stmt_("DFHMDI", "A", FALSE)>> \o s :
     s \in BoundedSeq({[macro |-> m, name |-> IF m = "none" THEN Blank ELSE "B", operand |-> o, cont |-> c] :
                          m \in {"DFHMDF", "none"}, o \in {"p", NoOperand}, c \in BOOLEAN}
                      \cup {Stmt_("DFHMDF", Blank, TRUE)}, MaxLines - 1)}

MCSources == Screens \cup FoldedScreens
=============================================================================
