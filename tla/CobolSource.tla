---------------------------- MODULE CobolSource ----------------------------
(***************************************************************************)
(* A COBOL source as the two readers of it see it: extract/cobol.py, which *)
(* matches patterns line by line, and parsers/cobol/map_program.py, which  *)
(* takes statements from a parse tree and repeats the line walk where the  *)
(* tree does not help.  Here are the helpers both have, and what they emit *)
(* of one statement; module Cobol is the first reader, CobolTree the       *)
(* second.                                                                 *)
(*                                                                         *)
(* A line is a record of what the patterns find in it; a line without code *)
(* in columns 8 to 72 is left out, and a line holds one statement.         *)
(***************************************************************************)
EXTENDS Integers, Sequences, FiniteSets

CONSTANTS
  Names,        \* names and literals of a source
  WsNames,      \* the names that start with WS-
  Files,        \* the sources: a role, a file name and lines
  Bodies,       \* [Names -> Seq(Line)], the text of the copybooks, nested ones expanded
  CopyWindow,   \* lines after the first a COPY statement may take (10)
  BlockWindow,  \* lines after the first an EXEC CICS block may take (30)
  Absent,       \* what is not there (None)
  Unknown,      \* "UNKNOWN"
  Spaces        \* a literal of blanks only

Sections ==
  {"FILE-CONTROL", "DATA-DIVISION", "FILE-SECTION", "WORKING-STORAGE", "LINKAGE",
   "PROCEDURE-DIVISION"}

CicsEdge ==
  [READ |-> "READS", WRITE |-> "WRITES", REWRITE |-> "UPDATES", DELETE |-> "DELETES",
   STARTBR |-> "STARTS_BROWSE", READNEXT |-> "READS", READPREV |-> "READS"]

BatchEdge ==
  [READ |-> "READS", WRITE |-> "WRITES", REWRITE |-> "UPDATES", DELETE |-> "DELETES",
   START |-> "STARTS_BROWSE"]

Verbs == DOMAIN CicsEdge \cup DOMAIN BatchEdge
         \cup {"LINK", "XCTL", "RETURN", "SEND", "RECEIVE", "other"}

\* What a line begins.  constant: a data entry NAME PIC X(n) that may go on with a
\* VALUE; word: a name and a period alone; io: a READ, WRITE ... of the batch form,
\* or (real = FALSE) words that only look like one; text: anything else.
Shapes == {"program-id", "word", "fd", "sd", "record", "copy", "select", "constant",
           "call", "io", "cics", "text"}

\* A line begins a statement only with the operands its pattern asks for, and only what
\* looks like batch I/O may be none.
Line ==
  {l \in [shape : Shapes, marker : Sections \cup {Absent}, name : Names \cup {Absent},
          mapset : Names \cup {Absent}, verb : Verbs \cup {Absent},
          value : Names \cup {Absent, Spaces}, literal : BOOLEAN, real : BOOLEAN,
          replacing : BOOLEAN, ends : BOOLEAN, closes : BOOLEAN] :
     /\ l.shape \in Shapes \ {"program-id", "sd", "cics", "text"} => l.name # Absent
     /\ l.shape = "io" => l.verb \in DOMAIN BatchEdge
     /\ ~l.real => l.shape = "io"}

File == [role : {"program", "copybook"}, stem : Names, lines : Seq(Line)]

ASSUME CobolAssumption ==
  /\ WsNames \subseteq Names
  /\ Files \subseteq File
  /\ \A f \in Files : f.lines # <<>>
  /\ Bodies \in [Names -> Seq(Line)]
  /\ CopyWindow \in Nat
  /\ BlockWindow \in Nat
  /\ {Absent, Unknown, Spaces} \cap Names = {}
  /\ Cardinality({Absent, Unknown, Spaces}) = 3

Least(S)    == CHOOSE k \in S : \A j \in S : k <= j
Greatest(S) == CHOOSE k \in S : \A j \in S : j <= k

-----------------------------------------------------------------------------
(* Sections and statements *)

\* _in_section: the section of line l of s is the one of the last marker up to it.
SectionAt(s, l) ==
  LET markers == {k \in 1..l : s[k].marker # Absent}
  IN  IF markers = {} THEN Absent ELSE s[Greatest(markers)].marker

\* _consume_through_period, _consume_through_token: the first line in the window
\* with what ends the statement, or else the line it starts at
Through(s, l, window, field) ==
  LET last    == IF l + window < Len(s) THEN l + window ELSE Len(s)
      endings == {e \in l..last : s[e][field]}
  IN  IF endings = {} THEN l ELSE Least(endings)

EndOfCopy(s, l)  == Through(s, l, CopyWindow, "ends")
EndOfBlock(s, l) == Through(s, l, BlockWindow, "closes")

\* The first operand of its kind in lines l to e
Operand(s, l, e, field) ==
  LET given == {k \in l..e : s[k][field] # Absent}
  IN  IF given = {} THEN Absent ELSE s[Least(given)][field]

\* _scan_program_id: the name at the first PROGRAM-ID, or a word on one of the
\* seven lines after it
ProgramName(s) ==
  LET ids == {k \in 1..Len(s) : s[k].shape = "program-id"} IN
    IF ids = {} THEN Absent
    ELSE LET l     == Least(ids)
             words == {k \in (l + 1)..Len(s) : k <= l + 7 /\ s[k].shape = "word"}
         IN  IF s[l].name # Absent THEN s[l].name
             ELSE IF words = {} THEN Absent ELSE s[Least(words)].name

\* The lines whose period ends an entry of WORKING-STORAGE, and the line each
\* entry starts at
InStorage(s, l) == SectionAt(s, l) = "WORKING-STORAGE"

EntryEnds(s)     == {l \in 1..Len(s) : InStorage(s, l) /\ s[l].ends}
EntryStart(s, l) == Greatest({0} \cup {e \in 1..(l - 1) : ~InStorage(s, e) \/ s[e].ends}) + 1

\* The constants WORKING-STORAGE declares: the name of an entry, its value and the
\* line it ends at
Entry(s, b, l) ==
  [name |-> s[b].name, at |-> l,
   value |-> IF s[b].shape = "constant" THEN Operand(s, b, l, "value") ELSE Absent]

Constants(s) ==
  {c \in {Entry(s, EntryStart(s, l), l) : l \in EntryEnds(s)} : c.value # Absent}

\* _scan_ws_constants: what they stand for; of two with one name, the later
WsConstants(s) ==
  LET declared == Constants(s)
  IN  [n \in {c.name : c \in declared} |->
         LET latest == Greatest({c.at : c \in {d \in declared : d.name = n}})
         IN  (CHOOSE c \in declared : c.at = latest).value]

-----------------------------------------------------------------------------
(* Observations of one statement *)

\* The text a statement is in: that of the program, or of a copybook
TextOf(s, book) == IF book = Absent THEN s ELSE Bodies[book]

ProgramId(n)        == <<"program", n>>
CopybookId(n)       == <<"copybook", n>>
LogicalFileId(p, n) == <<"logical-file", p, n>>
TransactionId(n)    == <<"transaction", n>>
MapId(set, n)       == <<"bms-map", set, n>>
UnresolvedId(n)     == <<"unresolved", n>>

\* source is Absent for the file itself, or the copybook the statement comes from.
Entity(type, id, source, l) ==
  [kind |-> "entity", type |-> type, from |-> id, to |-> id, mode |-> {},
   source |-> source, line |-> l]

Edge(type, from, to, mode, source, l) ==
  [kind |-> "edge", type |-> type, from |-> from, to |-> to, mode |-> mode,
   source |-> source, line |-> l]

\* The program a statement is charged to
Caller(p) == ProgramId(IF p = Absent THEN Unknown ELSE p)

\* SELECT
Selected(p, s, source, l) ==
  {Entity("LogicalFile", LogicalFileId(p, s[l].name), source, l),
   Edge("DECLARES_FILE", ProgramId(p), LogicalFileId(p, s[l].name), {}, source, l)}

\* CALL 'NAME' or CALL NAME
Called(p, s, source, l) ==
  {Edge("CALLS", Caller(p), IF s[l].literal THEN ProgramId(s[l].name) ELSE UnresolvedId(s[l].name),
        IF s[l].literal THEN {"static"} ELSE {"dynamic"}, source, l)}

\* A batch verb names a file or, to write, a record of the one recordFd gives.
Accessed(p, s, recordFd, source, l) ==
  LET written == s[l].verb \in {"WRITE", "REWRITE"}
      f == IF written /\ s[l].name \in DOMAIN recordFd THEN recordFd[s[l].name] ELSE s[l].name
  IN  {Edge(BatchEdge[s[l].verb], ProgramId(p), LogicalFileId(p, f), {"batch"}, source, l)}

\* COPY of a copybook, and of the layout of the file fd if it stands in a record of
\* one
Copied(self, p, fd, area, s, l) ==
  LET e    == EndOfCopy(s, l)
      book == CopybookId(s[l].name)
      mode == (IF s[e].ends /\ \E k \in l..e : s[k].replacing THEN {"replacing"} ELSE {})
              \cup (IF area THEN {"fd"} ELSE {})
  IN  {Edge("INCLUDES", self, book, mode, Absent, l)}
      \cup (IF area /\ p # Absent
            THEN {Edge("DEFINES_LAYOUT_FOR", book, LogicalFileId(p, fd), {}, Absent, l)} ELSE {})

\* The file a CICS operand names, and how it was found
Named(constants, n) ==
  IF n \in DOMAIN constants /\ constants[n] # Spaces
  THEN [file |-> constants[n], mode |-> "ws_constant"]
  ELSE [file |-> n, mode |-> IF n \in WsNames THEN "ws_unresolved" ELSE "literal"]

\* EXEC CICS ... END-EXEC from line l of s
Commanded(p, constants, s, source, l) ==
  LET e       == EndOfBlock(s, l)
      verb    == Operand(s, l, e, "verb")
      n       == Operand(s, l, e, "name")
      quoted  == \E k \in l..e : s[k].name # Absent /\ s[k].literal
      set     == Operand(s, l, e, "mapset")
      mapId   == MapId(IF set = Absent THEN Unknown ELSE set, n)
  IN  IF ~s[e].closes \/ n = Absent THEN {}
      ELSE IF verb \in {"LINK", "XCTL"} THEN
        {Edge(IF verb = "LINK" THEN "LINKS_TO" ELSE "XCTLS_TO", Caller(p),
              IF quoted THEN ProgramId(n) ELSE UnresolvedId(n),
              IF quoted THEN {"static"} ELSE {"must_not_promote"}, source, l)}
      ELSE IF verb = "RETURN" THEN
        {Edge("RETURNS_TO_TRANSID", Caller(p), TransactionId(n), {}, source, l)}
      ELSE IF verb \in {"SEND", "RECEIVE"} THEN
        {Edge(IF verb = "SEND" THEN "SENDS_MAP" ELSE "RECEIVES_MAP", Caller(p), mapId, {}, source, l)}
      ELSE IF verb \in DOMAIN CicsEdge /\ p # Absent THEN
        LET found == Named(constants, n) IN
          {Edge(CicsEdge[verb], Caller(p), LogicalFileId(p, found.file), {found.mode}, source, l)}
      ELSE {}

-----------------------------------------------------------------------------
(* What the lines of a program mean, by their place alone *)

InFiles(s, l) == SectionAt(s, l) = "FILE-SECTION"

\* The last FD or SD of the FILE SECTION before line l
Describes(s, l)  == {k \in 1..(l - 1) : s[k].shape \in {"fd", "sd"} /\ InFiles(s, k)}
DescribedAt(s, l) ==
  IF Describes(s, l) = {} THEN Absent
  ELSE LET k == Greatest(Describes(s, l)) IN IF s[k].shape = "fd" THEN s[k].name ELSE Absent

\* The 01 records of a file
Records(s, l) ==
  {k \in 1..(l - 1) : s[k].shape = "record" /\ InFiles(s, k) /\ DescribedAt(s, k) # Absent}

\* Line l stands after a record of the file described last.
InRecordArea(s, l) ==
  \E r \in Records(s, l) : \A k \in Describes(s, l) : k < r

\* The file of each record: of two with one name, the later
RecordFiles(s, l) ==
  LET records == Records(s, l)
  IN  [n \in {s[r].name : r \in records} |->
         DescribedAt(s, Greatest({r \in records : s[r].name = n}))]

-----------------------------------------------------------------------------
(* Programs that compile *)

In(s, l, section) == SectionAt(s, l) = section

\* The lines after the first of a statement that takes several
Continuations(s) ==
  {k \in 1..Len(s) :
     \E l \in 1..(k - 1) :
       \/ s[l].shape = "copy" /\ k <= EndOfCopy(s, l)
       \/ s[l].shape = "cics" /\ k <= EndOfBlock(s, l)}

\* A COBOL program that compiles: it has a name, one of each section at most and
\* the data before the procedure, every statement ends and stands in its section,
\* and no statement begins inside another.
WellFormed(f) ==
  LET s == f.lines
  IN  /\ f.role = "program"
      /\ ProgramName(s) # Absent
      /\ \A k, l \in 1..Len(s) : s[k].marker = s[l].marker /\ s[l].marker # Absent => k = l
      /\ \A k, l \in 1..Len(s) :
           s[k].marker # Absent /\ s[l].marker = "PROCEDURE-DIVISION" => k <= l
      /\ \A l \in 1..Len(s) :
           /\ s[l].shape \in {"fd", "sd"} => In(s, l, "FILE-SECTION")
           /\ s[l].shape = "select" => In(s, l, "FILE-CONTROL")
           /\ s[l].shape \in {"call", "io", "cics"} => In(s, l, "PROCEDURE-DIVISION")
           /\ s[l].shape = "copy" => s[EndOfCopy(s, l)].ends
           /\ s[l].shape = "cics" => s[EndOfBlock(s, l)].closes
      /\ \A l \in Continuations(s) : s[l].shape = "text" /\ s[l].marker = Absent
=============================================================================
