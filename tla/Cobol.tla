------------------------------- MODULE Cobol -------------------------------
(***************************************************************************)
(* The COBOL extractor on patterns (extract/cobol.py, class                *)
(* CobolExtractor): one file, read line by line after a pass for the name  *)
(* of the program and one for the constants of its WORKING-STORAGE.        *)
(*                                                                         *)
(* Which file a record or a copied layout belongs to is state, left behind *)
(* by the FD, SD and 01 lines already read.  The data items of a copybook, *)
(* the third of the passes, are module DataItems.                          *)
(***************************************************************************)
EXTENDS CobolSource

VARIABLES
  file,       \* the source
  at,         \* the line the walk stands at; 0 before it
  program,    \* program_name
  constants,  \* ws_constants
  fd,         \* current_fd
  record,     \* current_record
  recordFd,   \* record_to_fd
  out         \* the observations made so far

vars == <<file, at, program, constants, fd, record, recordFd, out>>

lines == file.lines

InSection(names) == SectionAt(lines, at) \in names

IsProgram == file.role = "program"

\* _self_id: a program without a name has no COPY of its own.
HasSelf == IsProgram => program # Absent
SelfId  == IF IsProgram THEN ProgramId(program) ELSE CopybookId(file.stem)

\* _scan_program_id: what the file itself is
Presence ==
  IF ~IsProgram THEN {Entity("Copybook", CopybookId(file.stem), Absent, 1)}
  ELSE IF ProgramName(lines) = Absent THEN {}
  ELSE {Entity("Program", ProgramId(ProgramName(lines)), Absent,
               Least({k \in 1..Len(lines) : lines[k].shape = "program-id"}))}

Init ==
  /\ file \in Files
  /\ at = 0
  /\ program = Absent
  /\ constants = <<>>
  /\ fd = Absent
  /\ record = Absent
  /\ recordFd = <<>>
  /\ out = {}

\* Mutant: the first of two constants with one name stays.
Prepare_FirstConstant ==
  /\ at = 0 /\ at' = 1
  /\ program' = ProgramName(lines)
  /\ constants' = [n \in DOMAIN WsConstants(lines) |->
       LET first == Least({c.at : c \in {d \in Constants(lines) : d.name = n}})
       IN  (CHOOSE c \in Constants(lines) : c.at = first).value]
  /\ out' = out \cup Presence
  /\ UNCHANGED <<file, fd, record, recordFd>>

\* The passes before the walk: what the file is, and its constants
Prepare ==
  /\ at = 0 /\ at' = 1
  /\ program' = ProgramName(lines)
  /\ constants' = WsConstants(lines)
  /\ out' = out \cup Presence
  /\ UNCHANGED <<file, fd, record, recordFd>>

Stands(shapes) == at \in 1..Len(lines) /\ lines[at].shape \in shapes

\* One iteration: what it emits, and the last line it took
Read(observed, last) ==
  /\ out' = out \cup observed
  /\ at' = last + 1
  /\ UNCHANGED <<file, program, constants>>

\* Mutant: the record of the file before stays the current one.
ReadFd_KeepsRecord ==
  /\ Stands({"fd"}) /\ InSection({"FILE-SECTION"})
  /\ fd' = lines[at].name
  /\ Read({}, at)
  /\ UNCHANGED <<record, recordFd>>

ReadFd ==
  /\ Stands({"fd"}) /\ InSection({"FILE-SECTION"})
  /\ fd' = lines[at].name
  /\ record' = Absent
  /\ Read({}, at)
  /\ UNCHANGED recordFd

ReadSd ==
  /\ Stands({"sd"}) /\ InSection({"FILE-SECTION"})
  /\ fd' = Absent
  /\ record' = Absent
  /\ Read({}, at)
  /\ UNCHANGED recordFd

ReadRecord ==
  /\ Stands({"record"}) /\ InSection({"FILE-SECTION"}) /\ fd # Absent
  /\ record' = lines[at].name
  /\ recordFd' = [n \in DOMAIN recordFd \cup {lines[at].name} |->
                    IF n = lines[at].name THEN fd ELSE recordFd[n]]
  /\ Read({}, at)
  /\ UNCHANGED fd

\* A COPY, in any section
ReadCopy ==
  /\ Stands({"copy"}) /\ HasSelf
  /\ Read(Copied(SelfId, program, fd, fd # Absent /\ record # Absent, lines, at), EndOfCopy(lines, at))
  /\ UNCHANGED <<fd, record, recordFd>>

ReadSelect ==
  /\ Stands({"select"}) /\ InSection({"FILE-CONTROL"})
  /\ Read(IF IsProgram /\ program # Absent THEN Selected(program, lines, Absent, at) ELSE {}, at)
  /\ UNCHANGED <<fd, record, recordFd>>

ReadCall ==
  /\ Stands({"call"}) /\ InSection({"PROCEDURE-DIVISION"}) /\ IsProgram
  /\ Read(Called(program, lines, Absent, at), at)
  /\ UNCHANGED <<fd, record, recordFd>>

\* Batch I/O, or what looks like it
ReadIo ==
  /\ Stands({"io"}) /\ InSection({"PROCEDURE-DIVISION"}) /\ IsProgram
  /\ Read(IF program # Absent THEN Accessed(program, lines, recordFd, Absent, at) ELSE {}, at)
  /\ UNCHANGED <<fd, record, recordFd>>

\* EXEC CICS, in any section but FILE-CONTROL and in any file
ReadCics ==
  /\ Stands({"cics"}) /\ ~InSection({"FILE-CONTROL"})
  /\ Read(Commanded(program, constants, lines, Absent, at), EndOfBlock(lines, at))
  /\ UNCHANGED <<fd, record, recordFd>>

\* Mutant: nothing passes over the COPY of a program without a name.
Ignored_NotCopy ==
  \/ Stands({"program-id", "word", "constant", "text"})
  \/ Stands({"fd", "sd"}) /\ ~InSection({"FILE-SECTION"})
  \/ Stands({"record"}) /\ (~InSection({"FILE-SECTION"}) \/ fd = Absent)
  \/ Stands({"select"}) /\ ~InSection({"FILE-CONTROL"})
  \/ Stands({"call", "io"}) /\ (~InSection({"PROCEDURE-DIVISION"}) \/ ~IsProgram)
  \/ Stands({"cics"}) /\ InSection({"FILE-CONTROL"})

\* Any other line
Ignored ==
  \/ Stands({"program-id", "word", "constant", "text"})
  \/ Stands({"fd", "sd"}) /\ ~InSection({"FILE-SECTION"})
  \/ Stands({"record"}) /\ (~InSection({"FILE-SECTION"}) \/ fd = Absent)
  \/ Stands({"copy"}) /\ ~HasSelf
  \/ Stands({"select"}) /\ ~InSection({"FILE-CONTROL"})
  \/ Stands({"call", "io"}) /\ (~InSection({"PROCEDURE-DIVISION"}) \/ ~IsProgram)
  \/ Stands({"cics"}) /\ InSection({"FILE-CONTROL"})

SkipLine ==
  /\ Ignored
  /\ Read({}, at)
  /\ UNCHANGED <<fd, record, recordFd>>

Next ==
  \/ Prepare \/ ReadFd \/ ReadSd \/ ReadRecord \/ ReadCopy
  \/ ReadSelect \/ ReadCall \/ ReadIo \/ ReadCics \/ SkipLine

Spec == Init /\ [][Next]_vars

Finished == at > Len(lines)

-----------------------------------------------------------------------------
(* Properties *)

\* The statement an observation is about is one the grammar has too.
Real(o) == lines[o.line].shape = "io" => lines[o.line].real

TypeInvariant ==
  /\ file \in File
  /\ at \in 0..(Len(lines) + 1)
  /\ {program, fd, record} \subseteq Names \cup {Absent}
  /\ DOMAIN constants \subseteq Names /\ DOMAIN recordFd \subseteq Names
  /\ \A o \in out : o.source \in Names \cup {Absent} /\ o.line \in 1..Len(TextOf(lines, o.source))

\* RUL-COBOL-019: the file and the record remembered at a line are those of the
\* lines before it, whatever statements were read in between.
ContextMatches ==
  WellFormed(file) /\ at > 0 =>
    /\ fd = DescribedAt(lines, at)
    /\ (fd # Absent /\ record # Absent) <=> InRecordArea(lines, at)
    /\ recordFd = RecordFiles(lines, at)

-----------------------------------------------------------------------------
(* What the documentation says and the code does not do *)

\* RUL-NEG-006: only a COPY in a record of an FD defines the layout of a file.
LayoutsComeFromFileSection ==
  \A o \in out : o.type = "DEFINES_LAYOUT_FOR" => SectionAt(lines, o.line) = "FILE-SECTION"

\* RUL-COBOL-018: a file named by a literal is the file of that name.
LiteralFilesStand ==
  \A o \in out : o.type \in {"READS", "WRITES", "UPDATES", "DELETES", "STARTS_BROWSE"}
      /\ lines[o.line].shape = "cics" /\ lines[o.line].name # Absent /\ lines[o.line].literal
    => o.to = LogicalFileId(program, lines[o.line].name)
=============================================================================
