----------------------------- MODULE CobolTree -----------------------------
(***************************************************************************)
(* The COBOL emitter on MAPA's parse tree (parsers/cobol/map_program.py,   *)
(* emit_program).  The statements come from the tree of the program with   *)
(* its copybooks expanded, so that SELECT, CALL, I/O and CICS statements   *)
(* of a copybook are seen as well; COPY itself is read off the lines.      *)
(*                                                                         *)
(* MAPA expands the copybooks and dumps the tree (parsers/cobol/parse.py), *)
(* and every statement is traced to its line before anything is emitted; a *)
(* step that fails refuses the whole program.  Then each rule emits all    *)
(* its statements, one rule after the other.  MAPA itself is external: it  *)
(* finds the statements of a program that compiles, or fails.              *)
(***************************************************************************)
EXTENDS CobolSource

VARIABLES
  file,    \* the source
  stage,   \* the step of the parser, or the rule, that comes next
  failure, \* the error that refused the program
  at,      \* the line the walk for COPY stands at
  fd,      \* current_fd
  record,  \* current_record
  out      \* the observations made so far

vars == <<file, stage, failure, at, fd, record, out>>

Stages == {"built", "expand", "dump", "trace", "declare", "files", "calls", "copies", "io",
           "cics", "done", "refused"}

Errors == {"MapaUnavailable", "OSError", "MapaParseError", "JSONDecodeError",
           "FoldAlignmentError", "ProvenanceError"}

lines == file.lines

\* The name in the tree; one without a PROGRAM-ID goes by its file.
program == IF ProgramName(lines) # Absent THEN ProgramName(lines) ELSE file.stem

constants == WsConstants(lines)

InSection(names) == SectionAt(lines, at) \in names

\* _record_to_fd, from the lines of the whole program
recordFd == RecordFiles(lines, Len(lines) + 1)

\* The lines of a shape the grammar finds in text s
Statements(s, shape) == {l \in 1..Len(s) : s[l].shape = shape /\ s[l].real}

\* The copybooks expanded in the program
Books == {lines[l].name : l \in Statements(lines, "copy")}

\* The statements a rule finds: the program's own, and its copybooks'
Found(shape) ==
  {[text |-> lines, book |-> Absent, line |-> l] : l \in Statements(lines, shape)}
  \cup UNION {{[text |-> Bodies[b], book |-> b, line |-> l] : l \in Statements(Bodies[b], shape)} :
                b \in Books}

Init ==
  /\ file \in {f \in Files : f.role = "program"}
  /\ stage = "built"
  /\ failure = Absent
  /\ at = 1
  /\ fd = Absent
  /\ record = Absent
  /\ out = {}

\* A step of the parser goes well, or refuses the program with one of these errors.
Attempt(from, errors, to) ==
  /\ stage = from
  /\ \/ stage' = to /\ failure' = Absent
     \/ stage' = "refused" /\ failure' \in errors
  /\ UNCHANGED <<file, at, fd, record>>

\* ensure_built: MAPA is there.
EnsureBuilt == Attempt("built", {"MapaUnavailable"}, "expand") /\ UNCHANGED out

\* call_tree: the copybooks are expanded and the temporary files found.
CallTree == Attempt("expand", {"OSError", "MapaParseError"}, "dump") /\ UNCHANGED out

\* parse_temp_tree: the tree of the expanded program is dumped and read; output that
\* is not JSON is an error of its own here.
ParseTempTree ==
  Attempt("dump", {"MapaUnavailable", "OSError", "MapaParseError", "JSONDecodeError"}, "trace")
  /\ UNCHANGED out

\* Mutant: the program is declared before its statements are traced.
Preresolve_Late ==
  /\ Attempt("trace", {"FoldAlignmentError", "ProvenanceError"}, "declare")
  /\ out' = IF Statements(lines, "program-id") = {} THEN {}
            ELSE {Entity("Program", ProgramId(program), Absent, Least(Statements(lines, "program-id")))}

\* _Ctx.preresolve: every trace succeeds, or not.
Preresolve == Attempt("trace", {"FoldAlignmentError", "ProvenanceError"}, "declare") /\ UNCHANGED out

\* A rule emits all it has, and the next one follows.
Emit(from, observed, to) ==
  /\ stage = from
  /\ stage' = to
  /\ out' = out \cup observed
  /\ UNCHANGED <<file, failure, at, fd, record>>

EmitProgramId ==
  Emit("declare",
       IF Statements(lines, "program-id") = {} THEN {}
       ELSE {Entity("Program", ProgramId(program), Absent, Least(Statements(lines, "program-id")))},
       "files")

EmitFileControl ==
  Emit("files", UNION {Selected(program, f.text, f.book, f.line) : f \in Found("select")}, "calls")

EmitCalls ==
  Emit("calls", UNION {Called(program, f.text, f.book, f.line) : f \in Found("call")}, "copies")

Stands(shapes) == stage = "copies" /\ at \in 1..Len(lines) /\ lines[at].shape \in shapes

\* One iteration of _emit_copy_includes
Walk(observed, last) ==
  /\ out' = out \cup observed
  /\ at' = last + 1
  /\ UNCHANGED <<file, stage, failure>>

WalkFd ==
  /\ Stands({"fd"}) /\ InSection({"FILE-SECTION"})
  /\ fd' = lines[at].name
  /\ record' = Absent
  /\ Walk({}, at)

WalkSd ==
  /\ Stands({"sd"}) /\ InSection({"FILE-SECTION"})
  /\ fd' = Absent
  /\ record' = Absent
  /\ Walk({}, at)

WalkRecord ==
  /\ Stands({"record"}) /\ InSection({"FILE-SECTION"}) /\ fd # Absent
  /\ record' = lines[at].name
  /\ Walk({}, at)
  /\ UNCHANGED fd

WalkCopy ==
  /\ Stands({"copy"})
  /\ Walk(Copied(ProgramId(program), program, fd, fd # Absent /\ record # Absent, lines, at),
          EndOfCopy(lines, at))
  /\ UNCHANGED <<fd, record>>

WalkOn ==
  /\ \/ Stands(Shapes \ {"fd", "sd", "record", "copy"})
     \/ Stands({"fd", "sd", "record"}) /\ ~InSection({"FILE-SECTION"})
     \/ Stands({"record"}) /\ fd = Absent
  /\ Walk({}, at)
  /\ UNCHANGED <<fd, record>>

WalkEnds ==
  /\ at > Len(lines)
  /\ Emit("copies", {}, "io")

EmitBatchIo ==
  Emit("io", UNION {Accessed(program, f.text, recordFd, f.book, f.line) : f \in Found("io")}, "cics")

EmitCics ==
  Emit("cics", UNION {Commanded(program, constants, f.text, f.book, f.line) : f \in Found("cics")}, "done")

Next ==
  \/ EnsureBuilt \/ CallTree \/ ParseTempTree \/ Preresolve
  \/ EmitProgramId \/ EmitFileControl \/ EmitCalls
  \/ WalkFd \/ WalkSd \/ WalkRecord \/ WalkCopy \/ WalkOn \/ WalkEnds
  \/ EmitBatchIo \/ EmitCics

Spec == Init /\ [][Next]_vars
=============================================================================
