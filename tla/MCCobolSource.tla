--------------------------- MODULE MCCobolSource ---------------------------
(***************************************************************************)
(* Sources for model-checking the COBOL readers.  A part of a program is   *)
(* every sequence of at most n units of a kind, a unit one statement of    *)
(* one or more lines.                                                      *)
(***************************************************************************)
EXTENDS CobolSource, SequencesExt

MCNames   == {"PGM", "F", "G", "R", "WS-F", "BOOK", "CODE", "SELS", "LIT"}
MCWsNames == {"WS-F"}

Line_(shape, name) ==
  [shape |-> shape, marker |-> Absent, name |-> name, mapset |-> Absent, verb |-> Absent,
   value |-> Absent, literal |-> FALSE, real |-> TRUE, replacing |-> FALSE, ends |-> TRUE,
   closes |-> FALSE]

Open(l)       == [l EXCEPT !.ends = FALSE]
Text          == Line_("text", Absent)
Section(m)    == <<[Text EXCEPT !.marker = m]>>
Id            == <<Line_("program-id", "PGM")>>
LateId        == <<Line_("program-id", Absent), Line_("word", "PGM")>>

Fd(n)         == <<Line_("fd", n)>>
Sd            == <<Line_("sd", "G")>>
Rec(n)        == <<Line_("record", n)>>
Copy          == <<Line_("copy", "BOOK")>>
CopyReplacing == <<Open(Line_("copy", "BOOK")), [Text EXCEPT !.replacing = TRUE]>>
CopyCode      == <<Line_("copy", "CODE")>>
CopySelects   == <<Line_("copy", "SELS")>>
SelectF       == <<Line_("select", "F")>>
SelectG       == <<Open(Line_("select", "G")), Text>>
Const(v)      == <<[Line_("constant", "WS-F") EXCEPT !.value = v]>>
Const2(v)     == <<Open(Line_("constant", "WS-F")), [Text EXCEPT !.value = v]>>
Call(lit)     == <<[Line_("call", "LIT") EXCEPT !.literal = lit]>>
Io(v, n)      == <<[Line_("io", n) EXCEPT !.verb = v]>>
LooksLikeIo   == <<[Line_("io", "LIT") EXCEPT !.verb = "READ", !.real = FALSE]>>

\* A CICS command on one line, and one on three
Cics(v, n)    == <<[Line_("cics", n) EXCEPT !.verb = v, !.closes = TRUE]>>
Cics3(v, n)   == <<Open([Line_("cics", Absent) EXCEPT !.verb = v]), Open([Text EXCEPT !.name = n]),
                   [Text EXCEPT !.closes = TRUE]>>
Quoted(unit)  == [i \in 1..Len(unit) |-> [unit[i] EXCEPT !.literal = TRUE]]

Part(m, units, n) ==
  {Section(m) \o FlattenSeq(p) : p \in BoundedSeq(units, n)}

Program(lines) == [role |-> "program", stem |-> "PGM", lines |-> lines]

Concat(S, T) == {s \o t : s \in S, t \in T}

MCBodies ==
  [n \in MCNames |-> CASE n = "CODE" -> Call(TRUE) \o Cics("READ", "WS-F") [] n = "SELS" -> SelectF [] OTHER -> <<>>]

\* Files and records: every FILE SECTION of four units, a COPY after it, a write
RecordFiles_ ==
  {Program(s) : s \in
     Concat({Id}, Concat(Part("FILE-SECTION", {Fd("F"), Fd("G"), Sd, Rec("R"), CopyReplacing}, 4),
       {Section("WORKING-STORAGE") \o Copy \o Section("PROCEDURE-DIVISION") \o s :
          s \in {Io("WRITE", "R"), Copy}}))}

\* Statements: constants declared twice and on two lines, and every procedure of
\* three statements
StatementFiles ==
  {Program(s) : s \in
     Concat({LateId}, Concat({Section("FILE-CONTROL") \o CopySelects \o SelectG},
       Concat({Section("FILE-SECTION") \o Fd("F") \o Rec("R")},
         Concat(Part("WORKING-STORAGE", {Const("LIT"), Const2("F"), Const(Spaces)}, 2),
                Part("PROCEDURE-DIVISION",
                     {Call(FALSE), Io("REWRITE", "R"), LooksLikeIo, Cics3("WRITE", "WS-F"),
                      Quoted(Cics("XCTL", "LIT")), CopyCode}, 2)))))}

\* Lines in any order, legal or not, in a program, a program without a name and a
\* copybook
AnyFiles ==
  {[role |-> r, stem |-> "PGM", lines |-> s] :
     r \in {"program", "copybook"},
     s \in {FlattenSeq(p) : p \in
       BoundedSeq({Id, LateId, Section("FILE-CONTROL"), Section("FILE-SECTION"), Section("PROCEDURE-DIVISION"),
                   Fd("F"), Rec("R"), <<Open(Line_("copy", "BOOK"))>>, SelectG,
                   Io("START", "F"), Call(TRUE), Cics3("SEND", "LIT"), Sd}, 3) \ {<<>>}}}

Sources_ == RecordFiles_ \cup StatementFiles \cup AnyFiles

\* A name of its own: TLC keeps the value of a definition, not that of a constant
MCFiles == Sources_

\* One file, one working storage, one procedure, for the statements of the
\* documentation
SmallFiles ==
  {Program(s) : s \in
     Concat({Id}, Concat({Section("FILE-SECTION") \o Fd("F") \o Rec("R")},
       Concat(Part("WORKING-STORAGE", {Copy, Const("LIT")}, 2),
              Part("PROCEDURE-DIVISION",
                   {Quoted(Cics("READ", "WS-F")), Cics("READ", "WS-F"), Io("WRITE", "R")}, 2))))}
=============================================================================
