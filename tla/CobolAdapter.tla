---------------------------- MODULE CobolAdapter ----------------------------
(***************************************************************************)
(* The COBOL adapter (parsers/cobol/adapter.py, extract_cobol_mapa): a     *)
(* program is read from its parse tree (CobolTree); one the tree refuses   *)
(* at a documented boundary is read again on patterns (Cobol), into the    *)
(* same sink.  Any other failure is the caller's.  A BMS copybook is read  *)
(* on patterns from the start.                                             *)
(***************************************************************************)
EXTENDS CobolSource

VARIABLES
  file, out,                                    \* the source and the sink, of both readers
  reader,                                       \* who reads: tree, patterns or nobody
  stage, failure, treeAt, treeFd, treeRecord,   \* of CobolTree
  at, program, constants, fd, record, recordFd  \* of Cobol

treeVars    == <<stage, failure, treeAt, treeFd, treeRecord>>
patternVars == <<at, program, constants, fd, record, recordFd>>
vars        == <<file, out, reader, treeVars, patternVars>>

Tree     == INSTANCE CobolTree WITH at <- treeAt, fd <- treeFd, record <- treeRecord
Patterns == INSTANCE Cobol

Init ==
  /\ Patterns!Init
  /\ stage = "built" /\ failure = Absent /\ treeAt = 1 /\ treeFd = Absent /\ treeRecord = Absent
  /\ reader = IF file.role = "program" THEN "tree" ELSE "patterns"

ReadTree ==
  /\ reader = "tree" /\ Tree!Next
  /\ UNCHANGED <<reader, patternVars>>

\* _PROGRAM_BOUNDARY
Boundary == {"FoldAlignmentError", "ProvenanceError", "MapaParseError"}

FallBack ==
  /\ reader = "tree" /\ stage = "refused" /\ failure \in Boundary
  /\ reader' = "patterns"
  /\ failure' = Absent    \* caught
  /\ UNCHANGED <<file, out, stage, treeAt, treeFd, treeRecord, patternVars>>

\* Any other error leaves extract_cobol_mapa.
Fail ==
  /\ reader = "tree" /\ stage = "refused" /\ failure \notin Boundary
  /\ reader' = "nobody"
  /\ UNCHANGED <<file, out, treeVars, patternVars>>

ReadPatterns ==
  /\ reader = "patterns" /\ Patterns!Next
  /\ UNCHANGED <<reader, treeVars>>

Next == ReadTree \/ FallBack \/ Fail \/ ReadPatterns

Spec     == Init /\ [][Next]_vars
FairSpec == Spec /\ WF_vars(Next)

ReadWhole == (reader = "tree" /\ stage = "done") \/ (reader = "patterns" /\ Patterns!Finished)

-----------------------------------------------------------------------------
(* Properties *)

TypeInvariant ==
  /\ Patterns!TypeInvariant
  /\ reader \in {"tree", "patterns", "nobody"}
  /\ stage \in Tree!Stages
  /\ failure \in Tree!Errors \cup {Absent}
  /\ reader = "tree" => at = 0

\* The reader on patterns remembers what it should, wherever it started from.
ContextMatches == Patterns!ContextMatches

\* RUL-COBOL-019, with the types: which file a record or a copied layout belongs to is
\* remembered right at every line, by a walk that stays inside its source.
CobolInv == TypeInvariant /\ ContextMatches

\* The observations of the program's own statements
Own == {o \in out : o.source = Absent /\ Patterns!Real(o)}

Promise == INSTANCE CobolFacts WITH facts <- Own, done <- ReadWhole

\* Facts parity: for every program that compiles the tree and the patterns make the
\* same observations of its own lines, and the fallback is one reading, not two.
\* The tree walks the lines for COPY and for the records of the files on its own,
\* each rule at its own time; the patterns do all of it in one pass.
KeepsThePromise == Promise!Spec

\* "the fallback never double-emits": a program the tree refuses has left nothing
\* behind, so that the second reading starts from an empty sink.
RefusalLeavesNothing ==
  stage = "refused" /\ at = 0 => out = {}

\* Nothing but an error outside the boundary keeps a source from being read, and then
\* it leaves nothing behind: what MAPA or a trace refuses, the patterns read.
EndsReadOrEmpty ==
  <>(ReadWhole \/ (reader = "nobody" /\ failure \notin Boundary /\ out = {}))
=============================================================================
