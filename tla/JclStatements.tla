---------------------------- MODULE JclStatements ----------------------------
(***************************************************************************)
(* The statements of a JCL file: which lines one takes up and the operands *)
(* found in it (extract/jcl.py, _logical_statement and the searches of the *)
(* handlers), and what a reader of the file takes a statement to belong    *)
(* to.                                                                     *)
(***************************************************************************)
EXTENDS Integers, Sequences, FiniteSets

CONSTANTS
  Absent,    \* a name or an operand that is not there (None)
  Unknown    \* "UNKNOWN", which stands for a missing job or step

VARIABLE deck  \* the file

lines == deck.lines

-----------------------------------------------------------------------------
(* Statements *)

\* Mutant: any line after a comma is a continuation.
Continues_AnyLine(l) == l < Len(lines) /\ lines[l].more

\* Line l goes on at the next line: it ends with a comma, and the next one is //
\* and blanks, whatever stands after them.
Continues(l) ==
  /\ l < Len(lines)
  /\ lines[l].more
  /\ lines[l + 1].shape # "text"
  /\ lines[l + 1].name = Absent

Least(S)    == CHOOSE k \in S : \A j \in S : k <= j
Greatest(S) == CHOOSE k \in S : \A j \in S : j <= k

\* Mutant: the index of the line after the statement.
EndOf_PastEnd(l) == Least({e \in l..Len(lines) : ~Continues(e)}) + 1

\* _logical_statement
EndOf(l) == Least({e \in l..Len(lines) : ~Continues(e)})

Statement(l) == l..EndOf(l)

\* The first match of an operand's pattern in the text of the statement
Operand(l, field) ==
  LET given == {k \in Statement(l) : lines[k][field] # Absent}
  IN  IF given = {} THEN Absent ELSE lines[Least(given)][field]

Flagged(l, flag) == \E k \in Statement(l) : flag \in lines[k].flags

\* EXEC <name>: the pattern wants the end of the text after the operands of its
\* line, so it finds no name in a statement of several lines.
Positional(l) == IF EndOf(l) = l THEN lines[l].positional ELSE Absent

\* The procedure an EXEC runs, Absent if it runs a program
CalleeOf(l) ==
  IF Operand(l, "pgm") # Absent THEN Absent
  ELSE IF Operand(l, "proc") # Absent THEN Operand(l, "proc")
  ELSE Positional(l)

-----------------------------------------------------------------------------
(* What the statements of the deck mean *)

Headers(shape, l) == {k \in 1..(l - 1) : lines[k].shape = shape}

\* The job, or the procedure, line l is part of
JobsBefore(l)  == IF deck.kind = "job" THEN Headers("job", l) ELSE {}
ProcsBefore(l) == IF deck.kind = "proc" THEN Headers("proc", l) ELSE {}

ScopeAt(l) ==
  IF ProcsBefore(l) # {} THEN lines[Least(ProcsBefore(l))].name
  ELSE IF JobsBefore(l) # {} THEN lines[Greatest(JobsBefore(l))].name
  ELSE Unknown

\* The EXEC statements of that job, or of that procedure
Opening(l) ==
  IF ProcsBefore(l) # {} THEN {Least(ProcsBefore(l))} ELSE JobsBefore(l)

ExecsInScope(l) == {e \in Headers("exec", l) : \A j \in Opening(l) : j < e}
=============================================================================
