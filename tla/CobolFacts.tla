----------------------------- MODULE CobolFacts -----------------------------
(***************************************************************************)
(* What reading a COBOL program promises (the facts parity of              *)
(* tests/test_mapa_program_emission.py): whichever reader does it and in   *)
(* whatever order, the observations are those of the statements of the     *)
(* program, each by its place in the source alone, and when the reader     *)
(* ends none is missing.                                                   *)
(***************************************************************************)
EXTENDS CobolSource

VARIABLES file, facts, done

\* The line of the PROGRAM-ID, where the declaration of a program starts
DeclaredAt(s) == Least({k \in 1..Len(s) : s[k].shape = "program-id"})

\* The observations of line l of program p
FactsOf(p, s, l) ==
  CASE s[l].shape = "select" -> Selected(p, s, Absent, l)
    [] s[l].shape = "call"   -> Called(p, s, Absent, l)
    [] s[l].shape = "cics"   -> Commanded(p, WsConstants(s), s, Absent, l)
    [] s[l].shape = "io" /\ s[l].real -> Accessed(p, s, RecordFiles(s, l), Absent, l)
    [] s[l].shape = "copy"   -> Copied(ProgramId(p), p, DescribedAt(s, l), InRecordArea(s, l), s, l)
    [] OTHER -> {}

Facts(f) ==
  LET s == f.lines
      p == ProgramName(s)
  IN  {Entity("Program", ProgramId(p), Absent, DeclaredAt(s))}
      \cup UNION {FactsOf(p, s, l) : l \in 1..Len(s)}

Init ==
  /\ file \in Files
  /\ facts = {}
  /\ done = FALSE

\* Observations are added, and of a program that compiles true ones only and all of
\* them before the end.
Observe ==
  /\ ~done
  /\ done' \/ facts' # facts
  /\ facts \subseteq facts'
  /\ WellFormed(file) => IF done' THEN facts' = Facts(file) ELSE facts' \subseteq Facts(file)
  /\ UNCHANGED file

Spec == Init /\ [][Observe]_<<file, facts, done>>
=============================================================================
