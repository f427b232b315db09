----------------------------- MODULE CobolProofs -----------------------------
(***************************************************************************)
(* Theorems about the COBOL adapter, for every set of sources and every    *)
(* set of copybooks: the parse tree, the patterns and the fallback from    *)
(* one to the other implement CobolFacts.                                  *)
(*                                                                         *)
(* Both readers walk with a current file and a current record.  In a       *)
(* program that compiles these are what the lines before say (ContextInv), *)
(* as a statement of several lines swallows no section, FD or record.      *)
(* What a reader has told so far is therefore a function of the lines or   *)
(* rules passed (ToldInv): the patterns tell line by line, the tree rule   *)
(* by rule, and in the end both have told every line.  That the second     *)
(* reader starts from an empty sink is a matter of which steps may fail    *)
(* (ReadInv).                                                              *)
(***************************************************************************)
EXTENDS CobolAdapter, TLAPS, SequenceTheorems, FiniteSetTheorems, NaturalsInduction,
        WellFoundedInduction

-----------------------------------------------------------------------------
(* The readers and the promise speak of one source *)

LEMMA PatternsRead ==
  /\ \A s, l : Patterns!SectionAt(s, l) = SectionAt(s, l)
  /\ \A s, l : Patterns!EndOfCopy(s, l) = EndOfCopy(s, l)
  /\ \A s, l : Patterns!EndOfBlock(s, l) = EndOfBlock(s, l)
  /\ \A s : Patterns!ProgramName(s) = ProgramName(s)
  /\ \A s : Patterns!WsConstants(s) = WsConstants(s)
  /\ \A s, l : Patterns!DescribedAt(s, l) = DescribedAt(s, l)
  /\ \A s, l : Patterns!InRecordArea(s, l) <=> InRecordArea(s, l)
  /\ \A s, l : Patterns!RecordFiles(s, l) = RecordFiles(s, l)
BY DEF Patterns!SectionAt, SectionAt, Patterns!EndOfCopy, EndOfCopy, Patterns!EndOfBlock, EndOfBlock,
       Patterns!Through, Through, Patterns!ProgramName, ProgramName, Patterns!WsConstants, WsConstants,
       Patterns!Constants, Constants, Patterns!Entry, Entry, Patterns!EntryStart, EntryStart,
       Patterns!EntryEnds, EntryEnds, Patterns!InStorage, InStorage, Patterns!Operand, Operand,
       Patterns!DescribedAt, DescribedAt, Patterns!Describes, Describes, Patterns!InFiles, InFiles,
       Patterns!InRecordArea, InRecordArea, Patterns!Records, Records,
       Patterns!RecordFiles, RecordFiles, Patterns!Least, Least, Patterns!Greatest, Greatest

LEMMA PatternsObserve ==
  /\ \A p, s, b, l : Patterns!Selected(p, s, b, l) = Selected(p, s, b, l)
  /\ \A p, s, b, l : Patterns!Called(p, s, b, l) = Called(p, s, b, l)
  /\ \A p, s, f, b, l : Patterns!Accessed(p, s, f, b, l) = Accessed(p, s, f, b, l)
  /\ \A i, p, f, a, s, l : Patterns!Copied(i, p, f, a, s, l) = Copied(i, p, f, a, s, l)
  /\ \A p, c, s, b, l : Patterns!Commanded(p, c, s, b, l) = Commanded(p, c, s, b, l)
BY DEF Patterns!Selected, Selected, Patterns!Called, Called, Patterns!Accessed, Accessed,
       Patterns!Copied, Copied, Patterns!Commanded, Commanded, Patterns!Entity, Entity,
       Patterns!Edge, Edge, Patterns!Caller, Caller, Patterns!ProgramId, ProgramId,
       Patterns!CopybookId, CopybookId, Patterns!LogicalFileId, LogicalFileId,
       Patterns!TransactionId, TransactionId, Patterns!MapId, MapId,
       Patterns!UnresolvedId, UnresolvedId, Patterns!Named, Named, Patterns!CicsEdge, CicsEdge,
       Patterns!BatchEdge, BatchEdge, Patterns!EndOfCopy, EndOfCopy, Patterns!EndOfBlock, EndOfBlock,
       Patterns!Through, Through, Patterns!Operand, Operand, Patterns!Least, Least

LEMMA TreeReads ==
  /\ \A s, l : Tree!SectionAt(s, l) = SectionAt(s, l)
  /\ \A s, l : Tree!EndOfCopy(s, l) = EndOfCopy(s, l)
  /\ \A s : Tree!ProgramName(s) = ProgramName(s)
  /\ \A s : Tree!WsConstants(s) = WsConstants(s)
  /\ \A s, l : Tree!RecordFiles(s, l) = RecordFiles(s, l)
BY DEF Tree!SectionAt, SectionAt, Tree!EndOfCopy, EndOfCopy,
       Tree!Through, Through, Tree!ProgramName, ProgramName, Tree!WsConstants, WsConstants,
       Tree!Constants, Constants, Tree!Entry, Entry, Tree!EntryStart, EntryStart,
       Tree!EntryEnds, EntryEnds, Tree!InStorage, InStorage, Tree!Operand, Operand,
       Tree!DescribedAt, DescribedAt, Tree!Describes, Describes, Tree!InFiles, InFiles,
       Tree!Records, Records, Tree!RecordFiles, RecordFiles, Tree!Least, Least, Tree!Greatest, Greatest

LEMMA TreeObserves ==
  /\ \A p, s, b, l : Tree!Selected(p, s, b, l) = Selected(p, s, b, l)
  /\ \A p, s, b, l : Tree!Called(p, s, b, l) = Called(p, s, b, l)
  /\ \A p, s, f, b, l : Tree!Accessed(p, s, f, b, l) = Accessed(p, s, f, b, l)
  /\ \A i, p, f, a, s, l : Tree!Copied(i, p, f, a, s, l) = Copied(i, p, f, a, s, l)
  /\ \A p, c, s, b, l : Tree!Commanded(p, c, s, b, l) = Commanded(p, c, s, b, l)
BY DEF Tree!Selected, Selected, Tree!Called, Called, Tree!Accessed, Accessed,
       Tree!Copied, Copied, Tree!Commanded, Commanded, Tree!Entity, Entity,
       Tree!Edge, Edge, Tree!Caller, Caller, Tree!ProgramId, ProgramId,
       Tree!CopybookId, CopybookId, Tree!LogicalFileId, LogicalFileId,
       Tree!TransactionId, TransactionId, Tree!MapId, MapId,
       Tree!UnresolvedId, UnresolvedId, Tree!Named, Named, Tree!CicsEdge, CicsEdge,
       Tree!BatchEdge, BatchEdge, Tree!EndOfCopy, EndOfCopy, Tree!EndOfBlock, EndOfBlock,
       Tree!Through, Through, Tree!Operand, Operand, Tree!Least, Least

LEMMA SameFiles ==
  /\ Patterns!File = File
  /\ \A f : Patterns!WellFormed(f) <=> WellFormed(f)
  /\ \A f : Promise!WellFormed(f) <=> WellFormed(f)
<1>1. Patterns!File = File
  BY DEF Patterns!File, File, Patterns!Line, Line, Patterns!Shapes, Shapes, Patterns!Sections, Sections,
         Patterns!Verbs, Verbs, Patterns!CicsEdge, CicsEdge, Patterns!BatchEdge, BatchEdge
<1>2. \A f : Patterns!WellFormed(f) <=> WellFormed(f)
  <2>1. \A s, l : Patterns!SectionAt(s, l) = SectionAt(s, l)
    BY DEF Patterns!SectionAt, SectionAt, Patterns!Greatest, Greatest
  <2>2. \A s, l : Patterns!EndOfCopy(s, l) = EndOfCopy(s, l)
    BY DEF Patterns!EndOfCopy, EndOfCopy, Patterns!Through, Through, Patterns!Least, Least
  <2>3. \A s, l : Patterns!EndOfBlock(s, l) = EndOfBlock(s, l)
    BY DEF Patterns!EndOfBlock, EndOfBlock, Patterns!Through, Through, Patterns!Least, Least
  <2>4. \A s : Patterns!ProgramName(s) = ProgramName(s)
    BY DEF Patterns!ProgramName, ProgramName, Patterns!Least, Least
  <2>5. \A s : Patterns!Continuations(s) = Continuations(s)
    BY <2>2, <2>3, Zenon DEF Patterns!Continuations, Continuations
  <2>6. Patterns!Sections = Sections
    BY DEF Patterns!Sections, Sections
  <2>7. \A s, l, m : Patterns!In(s, l, m) <=> In(s, l, m)
    BY <2>1 DEF Patterns!In, In
  <2> QED BY <2>2, <2>3, <2>4, <2>5, <2>6, <2>7 DEF Patterns!WellFormed, WellFormed
<1>3. \A f : Promise!WellFormed(f) <=> WellFormed(f)
  <2>1. \A s, l : Promise!SectionAt(s, l) = SectionAt(s, l)
    BY DEF Promise!SectionAt, SectionAt, Promise!Greatest, Greatest
  <2>2. \A s, l : Promise!EndOfCopy(s, l) = EndOfCopy(s, l)
    BY DEF Promise!EndOfCopy, EndOfCopy, Promise!Through, Through, Promise!Least, Least
  <2>3. \A s, l : Promise!EndOfBlock(s, l) = EndOfBlock(s, l)
    BY DEF Promise!EndOfBlock, EndOfBlock, Promise!Through, Through, Promise!Least, Least
  <2>4. \A s : Promise!ProgramName(s) = ProgramName(s)
    BY DEF Promise!ProgramName, ProgramName, Promise!Least, Least
  <2>5. \A s : Promise!Continuations(s) = Continuations(s)
    BY <2>2, <2>3, Zenon DEF Promise!Continuations, Continuations
  <2>6. Promise!Sections = Sections
    BY DEF Promise!Sections, Sections
  <2>7. \A s, l, m : Promise!In(s, l, m) <=> In(s, l, m)
    BY <2>1 DEF Promise!In, In
  <2> QED BY <2>2, <2>3, <2>4, <2>5, <2>6, <2>7 DEF Promise!WellFormed, WellFormed
<1> QED BY <1>1, <1>2, <1>3

LEMMA PromiseReads ==
  /\ \A s, l : Promise!DescribedAt(s, l) = DescribedAt(s, l)
  /\ \A s, l : Promise!InRecordArea(s, l) <=> InRecordArea(s, l)
  /\ \A s, l : Promise!RecordFiles(s, l) = RecordFiles(s, l)
  /\ \A s : Promise!ProgramName(s) = ProgramName(s)
  /\ \A s : Promise!WsConstants(s) = WsConstants(s)
BY DEF Promise!SectionAt, SectionAt, Promise!DescribedAt, DescribedAt, Promise!Describes, Describes,
       Promise!InFiles, InFiles, Promise!InRecordArea, InRecordArea, Promise!Records, Records,
       Promise!RecordFiles, RecordFiles, Promise!ProgramName, ProgramName, Promise!WsConstants, WsConstants,
       Promise!Constants, Constants, Promise!Entry, Entry, Promise!EntryStart, EntryStart,
       Promise!EntryEnds, EntryEnds, Promise!InStorage, InStorage, Promise!Operand, Operand,
       Promise!Least, Least, Promise!Greatest, Greatest

LEMMA PromiseObserves ==
  /\ \A p, s, b, l : Promise!Selected(p, s, b, l) = Selected(p, s, b, l)
  /\ \A p, s, b, l : Promise!Called(p, s, b, l) = Called(p, s, b, l)
  /\ \A p, s, f, b, l : Promise!Accessed(p, s, f, b, l) = Accessed(p, s, f, b, l)
  /\ \A i, p, f, a, s, l : Promise!Copied(i, p, f, a, s, l) = Copied(i, p, f, a, s, l)
  /\ \A p, c, s, b, l : Promise!Commanded(p, c, s, b, l) = Commanded(p, c, s, b, l)
BY DEF Promise!Selected, Selected, Promise!Called, Called, Promise!Accessed, Accessed,
       Promise!Copied, Copied, Promise!Commanded, Commanded, Promise!Entity, Entity,
       Promise!Edge, Edge, Promise!Caller, Caller, Promise!ProgramId, ProgramId,
       Promise!CopybookId, CopybookId, Promise!LogicalFileId, LogicalFileId,
       Promise!TransactionId, TransactionId, Promise!MapId, MapId,
       Promise!UnresolvedId, UnresolvedId, Promise!Named, Named, Promise!CicsEdge, CicsEdge,
       Promise!BatchEdge, BatchEdge, Promise!EndOfCopy, EndOfCopy, Promise!EndOfBlock, EndOfBlock,
       Promise!Through, Through, Promise!Operand, Operand, Promise!Least, Least

\* What the promise is of one line, by what the line begins
LEMMA FactsOfLine ==
  ASSUME NEW p, NEW s, NEW l
  PROVE  /\ s[l].shape = "select" => Promise!FactsOf(p, s, l) = Selected(p, s, Absent, l)
         /\ s[l].shape = "call" => Promise!FactsOf(p, s, l) = Called(p, s, Absent, l)
         /\ s[l].shape = "cics" => Promise!FactsOf(p, s, l) = Commanded(p, WsConstants(s), s, Absent, l)
         /\ s[l].shape = "io" /\ s[l].real
              => Promise!FactsOf(p, s, l) = Accessed(p, s, RecordFiles(s, l), Absent, l)
         /\ s[l].shape = "copy"
              => Promise!FactsOf(p, s, l)
                   = Copied(ProgramId(p), p, DescribedAt(s, l), InRecordArea(s, l), s, l)
         /\ s[l].shape \notin {"select", "call", "cics", "copy"} /\ ~(s[l].shape = "io" /\ s[l].real)
              => Promise!FactsOf(p, s, l) = {}
<1>1. Promise!ProgramId(p) = ProgramId(p)
  BY DEF Promise!ProgramId, ProgramId
<1>2. Promise!InRecordArea(s, l) = InRecordArea(s, l)
  BY DEF Promise!SectionAt, SectionAt, Promise!DescribedAt, DescribedAt, Promise!Describes, Describes,
         Promise!InFiles, InFiles, Promise!InRecordArea, InRecordArea, Promise!Records, Records,
         Promise!Greatest, Greatest
<1> QED BY <1>1, <1>2, PromiseReads, PromiseObserves DEF Promise!FactsOf

-----------------------------------------------------------------------------
(* Least and greatest lines *)

\* A nonempty set of naturals has a least element, and Least picks it.
LEMMA LeastExists ==
  ASSUME NEW S \in SUBSET Nat, S # {}
  PROVE  Least(S) \in S /\ \A y \in S : Least(S) <= y
<1>1. \E x \in S : \A y \in S : ~(<<y, x>> \in OpToRel(<, Nat))
  <2>1. IsWellFoundedOn(OpToRel(<, Nat), Nat)
    BY NatLessThanWellFounded
  <2> HIDE DEF OpToRel
  <2> QED BY <2>1, WFMin
<1>2. PICK x \in S : \A y \in S : ~(<<y, x>> \in OpToRel(<, Nat))
  BY <1>1
<1>3. \A a, b \in Nat : <<a, b>> \in OpToRel(<, Nat) <=> a < b
  BY DEF OpToRel
<1>4. \A y \in S : ~(y < x)
  BY <1>2, <1>3
<1>5. \A y \in S : x <= y
  BY <1>4
<1> QED BY <1>5 DEF Least

\* A nonempty set of numbers up to n has a greatest element, and Greatest picks it.
LEMMA GreatestExists ==
  ASSUME NEW n \in Nat, NEW S \in SUBSET (0..n), S # {}
  PROVE  Greatest(S) \in S /\ \A j \in S : j <= Greatest(S)
<1> DEFINE T == {n - k : k \in S}
<1>1. T \in SUBSET Nat /\ T # {}
  <2>1. \A k \in S : k \in 0..n
    OBVIOUS
  <2>2. \A k \in 0..n : n - k \in Nat
    OBVIOUS
  <2> QED BY <2>1, <2>2
<1>2. Least(T) \in T /\ \A j \in T : Least(T) <= j
  BY <1>1, LeastExists
<1>3. PICK g \in S : Least(T) = n - g
  BY <1>2
<1>4. \A j \in S : n - g <= n - j
  BY <1>2, <1>3
<1>5. \A j \in S : j \in Int /\ g \in Int
  OBVIOUS
<1>6. \A j \in S : j <= g
  BY <1>4, <1>5
<1> QED BY <1>6 DEF Greatest

\* A number not below any other of a set, and in it, is its greatest.
LEMMA GreatestIs ==
  ASSUME NEW S \in SUBSET Nat, NEW g \in S, \A j \in S : j <= g
  PROVE  Greatest(S) = g
<1>1. \A h \in S : (\A j \in S : j <= h) => h = g
  OBVIOUS
<1> QED BY <1>1 DEF Greatest

-----------------------------------------------------------------------------
(* The lines of a source *)

LEMMA LineHas ==
  ASSUME NEW l \in Line
  PROVE  /\ l.shape \in Shapes
         /\ l.marker \in Sections \cup {Absent}
         /\ l.name \in Names \cup {Absent}
         /\ l.real \in BOOLEAN
         /\ l.shape \in {"word", "fd", "record", "copy", "select", "constant", "call", "io"}
              => l.name \in Names
         /\ ~l.real => l.shape = "io"
<1>1. Absent \notin Names
  BY CobolAssumption
<1> QED BY <1>1 DEF Line, Shapes

LEMMA SourceHas ==
  ASSUME NEW f \in Files
  PROVE  /\ f.role \in {"program", "copybook"}
         /\ f.lines \in Seq(Line)
         /\ Len(f.lines) \in Nat
         /\ Len(f.lines) >= 1
         /\ \A l \in 1..Len(f.lines) : f.lines[l] \in Line
<1>1. f \in File /\ f.lines # <<>>
  BY CobolAssumption
<1>2. f.lines \in Seq(Line)
  BY <1>1 DEF File
<1> QED BY <1>1, <1>2, EmptySeq, LenProperties, ElementOfSeq DEF File

LEMMA BodyHas ==
  ASSUME NEW b \in Names
  PROVE  Bodies[b] \in Seq(Line) /\ b # Absent
BY CobolAssumption

\* A statement ends in its source, and not before it begins.
LEMMA ThroughStays ==
  ASSUME NEW s \in Seq(Line), NEW l \in 1..Len(s), NEW window \in Nat, NEW field
  PROVE  /\ Through(s, l, window, field) \in Nat
         /\ l <= Through(s, l, window, field)
         /\ Through(s, l, window, field) <= Len(s)
<1> DEFINE last    == IF l + window < Len(s) THEN l + window ELSE Len(s)
           endings == {e \in l..last : s[e][field]}
<1>1. Len(s) \in Nat
  BY LenProperties
<1>2. last \in Nat /\ last <= Len(s)
  BY <1>1
<1>3. endings \in SUBSET Nat
  BY <1>2
<1>4. CASE endings = {}
  BY <1>1, <1>4 DEF Through
<1>5. CASE endings # {}
  <2>1. Least(endings) \in endings
    BY <1>3, <1>5, LeastExists
  <2>2. Least(endings) \in l..last
    BY <2>1
  <2>3. Through(s, l, window, field) = Least(endings)
    BY <1>5 DEF Through
  <2> HIDE DEF last, endings
  <2> QED BY <1>1, <1>2, <2>2, <2>3
<1> QED BY <1>4, <1>5

LEMMA EndsStay ==
  ASSUME NEW s \in Seq(Line), NEW l \in 1..Len(s)
  PROVE  /\ EndOfCopy(s, l) \in Nat /\ l <= EndOfCopy(s, l) /\ EndOfCopy(s, l) <= Len(s)
         /\ EndOfBlock(s, l) \in Nat /\ l <= EndOfBlock(s, l) /\ EndOfBlock(s, l) <= Len(s)
BY ThroughStays, CobolAssumption DEF EndOfCopy, EndOfBlock

LEMMA ProgramNameIn ==
  ASSUME NEW s \in Seq(Line)
  PROVE  ProgramName(s) \in Names \cup {Absent}
<1> DEFINE ids == {k \in 1..Len(s) : s[k].shape = "program-id"}
           words(l) == {k \in (l + 1)..Len(s) : k <= l + 7 /\ s[k].shape = "word"}
<1>1. \A k \in 1..Len(s) : s[k].name \in Names \cup {Absent}
  BY ElementOfSeq, LineHas
<1>2. CASE ids = {}
  BY <1>2 DEF ProgramName
<1>3. CASE ids # {}
  <2> DEFINE l == Least(ids)
  <2>1. l \in ids
    <3>1. ids \in SUBSET Nat
      OBVIOUS
    <3> HIDE DEF ids
    <3> QED BY <1>3, <3>1, LeastExists
  <2>2. l \in 1..Len(s)
    BY <2>1
  <2>3. ProgramName(s) = IF s[l].name # Absent THEN s[l].name
                         ELSE IF words(l) = {} THEN Absent ELSE s[Least(words(l))].name
    BY <1>3 DEF ProgramName
  <2> HIDE DEF l
  <2>4. words(l) # {} => Least(words(l)) \in 1..Len(s)
    <3>1. words(l) \in SUBSET Nat
      BY <2>2
    <3>2. words(l) # {} => Least(words(l)) \in words(l)
      BY <3>1, LeastExists
    <3>3. words(l) \subseteq 1..Len(s)
      BY <2>2, LenProperties
    <3> QED BY <3>2, <3>3
  <2> HIDE DEF words
  <2> QED BY <1>1, <2>2, <2>3, <2>4
<1> QED BY <1>2, <1>3

\* The line a program is declared at is one of its lines.
LEMMA DeclaredStays ==
  ASSUME NEW s \in Seq(Line), {k \in 1..Len(s) : s[k].shape = "program-id"} # {}
  PROVE  Least({k \in 1..Len(s) : s[k].shape = "program-id"}) \in 1..Len(s)
<1> DEFINE ids == {k \in 1..Len(s) : s[k].shape = "program-id"}
<1>1. ids \in SUBSET Nat /\ ids # {}
  OBVIOUS
<1>2. Least(ids) \in ids
  BY <1>1, LeastExists
<1> QED BY <1>2

LEMMA ConstantsIn ==
  ASSUME NEW s \in Seq(Line)
  PROVE  DOMAIN WsConstants(s) \subseteq Names
<1>1. ASSUME NEW c \in Constants(s)
      PROVE  c.name \in Names
  <2>1. PICK l \in EntryEnds(s) : c = Entry(s, EntryStart(s, l), l)
    BY DEF Constants
  <2>2. l \in 1..Len(s) /\ Len(s) \in Nat
    BY LenProperties DEF EntryEnds
  <2> DEFINE before == {0} \cup {e \in 1..(l - 1) : ~InStorage(s, e) \/ s[e].ends}
             b      == EntryStart(s, l)
  <2>3. before \in SUBSET (0..(l - 1)) /\ before # {} /\ l - 1 \in Nat
    BY <2>2
  <2> HIDE DEF before
  <2>4. Greatest(before) \in before
    BY <2>3, GreatestExists
  <2>5. Greatest(before) \in 0..(l - 1)
    BY <2>3, <2>4
  <2>6. b = Greatest(before) + 1
    BY DEF EntryStart, before
  <2> HIDE DEF b
  <2>7. b \in 1..Len(s)
    BY <2>2, <2>5, <2>6
  <2>8. c.value # Absent
    BY DEF Constants
  <2>9. s[b].shape = "constant" /\ c.name = s[b].name
    BY <2>1, <2>8 DEF Entry, b
  <2>10. s[b] \in Line
    BY <2>7, ElementOfSeq
  <2> QED BY <2>9, <2>10, LineHas
<1>2. DOMAIN WsConstants(s) = {c.name : c \in Constants(s)}
  BY DEF WsConstants
<1> QED BY <1>1, <1>2

-----------------------------------------------------------------------------
(* Where the observations of a statement are placed *)

\* An observation says which text it comes from and which line of it.
LEMMA ObservedAt ==
  /\ \A p, s, b, l : \A o \in Selected(p, s, b, l) : o.source = b /\ o.line = l
  /\ \A p, s, b, l : \A o \in Called(p, s, b, l) : o.source = b /\ o.line = l
  /\ \A p, s, f, b, l : \A o \in Accessed(p, s, f, b, l) : o.source = b /\ o.line = l
  /\ \A i, p, f, a, s, l : \A o \in Copied(i, p, f, a, s, l) : o.source = Absent /\ o.line = l
  /\ \A p, c, s, b, l : \A o \in Commanded(p, c, s, b, l) : o.source = b /\ o.line = l
BY DEF Selected, Called, Accessed, Copied, Commanded, Entity, Edge

-----------------------------------------------------------------------------
(* What is observed, and by whom *)

\* Each of some observations is about a line of a text there is.
Placed(s, observed) ==
  \A o \in observed : o.source \in Names \cup {Absent} /\ o.line \in 1..Len(TextOf(s, o.source))

\* A statement the tree finds is one of the program or of a copybook.
LEMMA FoundIn ==
  ASSUME file \in Files, NEW shape, NEW f \in Tree!Found(shape)
  PROVE  /\ f.book \in Names \cup {Absent}
         /\ f.text = TextOf(file.lines, f.book)
         /\ f.line \in 1..Len(f.text) /\ f.text[f.line].shape = shape /\ f.text[f.line].real
<1>1. CASE \E l \in Tree!Statements(file.lines, shape) :
             f = [text |-> file.lines, book |-> Absent, line |-> l]
  BY <1>1 DEF Tree!Statements, TextOf
<1>2. CASE \E b \in Tree!Books : \E l \in Tree!Statements(Bodies[b], shape) :
             f = [text |-> Bodies[b], book |-> b, line |-> l]
  <2>0. PICK b \in Tree!Books : \E l \in Tree!Statements(Bodies[b], shape) :
             f = [text |-> Bodies[b], book |-> b, line |-> l]
    BY <1>2
  <2>1. PICK l \in Tree!Statements(Bodies[b], shape) :
             f = [text |-> Bodies[b], book |-> b, line |-> l]
    BY <2>0
  <2>2. PICK k \in Tree!Statements(file.lines, "copy") : b = file.lines[k].name
    BY DEF Tree!Books, Tree!lines
  <2>3. k \in 1..Len(file.lines) /\ file.lines[k].shape = "copy"
    BY DEF Tree!Statements
  <2>4. file.lines[k] \in Line
    BY <2>3, SourceHas
  <2>5. b \in Names
    BY <2>2, <2>3, <2>4, LineHas
  <2>6. b # Absent
    BY <2>5, BodyHas
  <2> QED BY <2>1, <2>5, <2>6 DEF Tree!Statements, TextOf
<1> QED BY <1>1, <1>2 DEF Tree!Found, Tree!lines

\* What the rules of the tree observe of the statements they find
SelectsFound(p)  == UNION {Selected(p, f.text, f.book, f.line) : f \in Tree!Found("select")}
CallsFound(p)    == UNION {Called(p, f.text, f.book, f.line) : f \in Tree!Found("call")}
IoFound(p, r)    == UNION {Accessed(p, f.text, r, f.book, f.line) : f \in Tree!Found("io")}
CicsFound(p, c)  == UNION {Commanded(p, c, f.text, f.book, f.line) : f \in Tree!Found("cics")}

LEMMA TreeEmits ==
  /\ Tree!EmitFileControl <=> Tree!Emit("files", SelectsFound(Tree!program), "calls")
  /\ Tree!EmitCalls <=> Tree!Emit("calls", CallsFound(Tree!program), "copies")
  /\ Tree!EmitBatchIo <=> Tree!Emit("io", IoFound(Tree!program, Tree!recordFd), "cics")
  /\ Tree!EmitCics <=> Tree!Emit("cics", CicsFound(Tree!program, Tree!constants), "done")
<1>1. UNION {Tree!Selected(Tree!program, f.text, f.book, f.line) : f \in Tree!Found("select")}
      = SelectsFound(Tree!program)
  BY TreeObserves DEF SelectsFound
<1>2. UNION {Tree!Called(Tree!program, f.text, f.book, f.line) : f \in Tree!Found("call")}
      = CallsFound(Tree!program)
  BY TreeObserves DEF CallsFound
<1>3. UNION {Tree!Accessed(Tree!program, f.text, Tree!recordFd, f.book, f.line) : f \in Tree!Found("io")}
      = IoFound(Tree!program, Tree!recordFd)
  BY TreeObserves DEF IoFound
<1>4. UNION {Tree!Commanded(Tree!program, Tree!constants, f.text, f.book, f.line) : f \in Tree!Found("cics")}
      = CicsFound(Tree!program, Tree!constants)
  BY TreeObserves DEF CicsFound
<1>5. Tree!EmitFileControl <=> Tree!Emit("files", SelectsFound(Tree!program), "calls")
  BY <1>1 DEF Tree!EmitFileControl
<1>6. Tree!EmitCalls <=> Tree!Emit("calls", CallsFound(Tree!program), "copies")
  BY <1>2 DEF Tree!EmitCalls
<1>7. Tree!EmitBatchIo <=> Tree!Emit("io", IoFound(Tree!program, Tree!recordFd), "cics")
  BY <1>3 DEF Tree!EmitBatchIo
<1>8. Tree!EmitCics <=> Tree!Emit("cics", CicsFound(Tree!program, Tree!constants), "done")
  BY <1>4 DEF Tree!EmitCics
<1> QED BY <1>5, <1>6, <1>7, <1>8

\* What they observe is placed too.
LEMMA FoundPlaced ==
  ASSUME file \in Files
  PROVE  /\ \A p : Placed(file.lines, SelectsFound(p))
         /\ \A p : Placed(file.lines, CallsFound(p))
         /\ \A p, r : Placed(file.lines, IoFound(p, r))
         /\ \A p, c : Placed(file.lines, CicsFound(p, c))
<1>1. ASSUME NEW p
      PROVE  Placed(file.lines, SelectsFound(p))
  <2>1. ASSUME NEW f \in Tree!Found("select"), NEW o \in Selected(p, f.text, f.book, f.line)
        PROVE  o.source \in Names \cup {Absent} /\ o.line \in 1..Len(TextOf(file.lines, o.source))
    <3>1. o.source = f.book /\ o.line = f.line
      BY ObservedAt
    <3> QED BY <3>1, FoundIn
  <2> QED BY <2>1 DEF Placed, SelectsFound
<1>2. ASSUME NEW p
      PROVE  Placed(file.lines, CallsFound(p))
  <2>1. ASSUME NEW f \in Tree!Found("call"), NEW o \in Called(p, f.text, f.book, f.line)
        PROVE  o.source \in Names \cup {Absent} /\ o.line \in 1..Len(TextOf(file.lines, o.source))
    <3>1. o.source = f.book /\ o.line = f.line
      BY ObservedAt
    <3> QED BY <3>1, FoundIn
  <2> QED BY <2>1 DEF Placed, CallsFound
<1>3. ASSUME NEW p, NEW r
      PROVE  Placed(file.lines, IoFound(p, r))
  <2>1. ASSUME NEW f \in Tree!Found("io"), NEW o \in Accessed(p, f.text, r, f.book, f.line)
        PROVE  o.source \in Names \cup {Absent} /\ o.line \in 1..Len(TextOf(file.lines, o.source))
    <3>1. o.source = f.book /\ o.line = f.line
      BY ObservedAt
    <3> QED BY <3>1, FoundIn
  <2> QED BY <2>1 DEF Placed, IoFound
<1>4. ASSUME NEW p, NEW c
      PROVE  Placed(file.lines, CicsFound(p, c))
  <2>1. ASSUME NEW f \in Tree!Found("cics"), NEW o \in Commanded(p, c, f.text, f.book, f.line)
        PROVE  o.source \in Names \cup {Absent} /\ o.line \in 1..Len(TextOf(file.lines, o.source))
    <3>1. o.source = f.book /\ o.line = f.line
      BY ObservedAt
    <3> QED BY <3>1, FoundIn
  <2> QED BY <2>1 DEF Placed, CicsFound
<1> QED BY <1>1, <1>2, <1>3, <1>4

\* And so is what either observes of one line of the program.
LEMMA LinePlaced ==
  ASSUME file \in Files, NEW l \in 1..Len(file.lines)
  PROVE  /\ Placed(file.lines, {})
         /\ \A p : Placed(file.lines, Selected(p, file.lines, Absent, l))
         /\ \A p : Placed(file.lines, Called(p, file.lines, Absent, l))
         /\ \A p, r : Placed(file.lines, Accessed(p, file.lines, r, Absent, l))
         /\ \A i, p, f, a : Placed(file.lines, Copied(i, p, f, a, file.lines, l))
         /\ \A p, c : Placed(file.lines, Commanded(p, c, file.lines, Absent, l))
BY ObservedAt DEF Placed, TextOf

\* What a file itself is, and a program, is observed at one of its lines.
LEMMA PresencePlaced ==
  ASSUME file \in Files
  PROVE  /\ Placed(file.lines, Patterns!Presence)
         /\ Placed(file.lines,
                   IF Tree!Statements(file.lines, "program-id") = {} THEN {}
                   ELSE {Tree!Entity("Program", Tree!ProgramId(Tree!program), Absent,
                                     Tree!Least(Tree!Statements(file.lines, "program-id")))})
<1> DEFINE ids == {k \in 1..Len(file.lines) : file.lines[k].shape = "program-id"}
<1>1. file.lines \in Seq(Line) /\ Len(file.lines) \in Nat /\ Len(file.lines) >= 1
      /\ \A l \in 1..Len(file.lines) : file.lines[l] \in Line
  BY SourceHas
<1>2. Tree!Statements(file.lines, "program-id") = ids
  BY <1>1, LineHas DEF Tree!Statements
<1>3. ids # {} => Least(ids) \in 1..Len(file.lines)
  BY <1>1, DeclaredStays
<1>4. Tree!Least(ids) = Least(ids) /\ Patterns!Least(ids) = Least(ids)
  BY DEF Tree!Least, Patterns!Least, Least
<1>5. ProgramName(file.lines) # Absent => ids # {}
  BY DEF ProgramName
<1>6. Patterns!ProgramName(file.lines) = ProgramName(file.lines)
  BY PatternsRead
<1>7. \A t, i, l : l \in 1..Len(file.lines) =>
        Placed(file.lines, {Tree!Entity(t, i, Absent, l)}) /\ Placed(file.lines, {Patterns!Entity(t, i, Absent, l)})
  BY DEF Placed, TextOf, Tree!Entity, Patterns!Entity
<1>8. Placed(file.lines, {})
  BY DEF Placed
<1> HIDE DEF ids
<1>9. 1 \in 1..Len(file.lines)
  BY <1>1
<1>10. Placed(file.lines, Patterns!Presence)
  BY <1>3, <1>4, <1>5, <1>6, <1>7, <1>8, <1>9 DEF Patterns!Presence, Patterns!lines, ids
<1>11. Placed(file.lines, IF ids = {} THEN {}
                   ELSE {Tree!Entity("Program", Tree!ProgramId(Tree!program), Absent, Tree!Least(ids))})
  BY <1>3, <1>4, <1>7, <1>8
<1> QED BY <1>2, <1>10, <1>11

-----------------------------------------------------------------------------
(* The types of both readers, and an empty sink for the second *)

\* Until a rule emits, the tree has observed nothing; a reader on patterns that has
\* begun knows the name and the constants of its source.
ReadInv ==
  /\ TypeInvariant
  /\ file \in Files
  /\ treeAt \in 1..(Len(file.lines) + 1)
  /\ reader = "tree" => file.role = "program"
  /\ reader = "patterns" => stage \in {"built", "refused"}
  /\ reader = "nobody" => stage = "refused" /\ at = 0
  /\ at = 0 => fd = Absent /\ record = Absent /\ recordFd = <<>>
  /\ at > 0 => program = ProgramName(file.lines) /\ constants = WsConstants(file.lines)
  /\ at = 0 /\ stage \in {"built", "expand", "dump", "trace", "declare", "refused"} => out = {}

LEMMA TypesOf ==
  TypeInvariant <=>
    /\ file \in File
    /\ at \in 0..(Len(file.lines) + 1)
    /\ {program, fd, record} \subseteq Names \cup {Absent}
    /\ DOMAIN constants \subseteq Names /\ DOMAIN recordFd \subseteq Names
    /\ Placed(file.lines, out)
    /\ reader \in {"tree", "patterns", "nobody"}
    /\ stage \in Tree!Stages
    /\ failure \in Tree!Errors \cup {Absent}
    /\ reader = "tree" => at = 0
BY SameFiles DEF TypeInvariant, Patterns!TypeInvariant, Patterns!lines, Placed, Patterns!TextOf, TextOf

LEMMA TypesOfNext ==
  TypeInvariant' <=>
    /\ file' \in File
    /\ at' \in 0..(Len(file'.lines) + 1)
    /\ {program', fd', record'} \subseteq Names \cup {Absent}
    /\ DOMAIN constants' \subseteq Names /\ DOMAIN recordFd' \subseteq Names
    /\ Placed(file'.lines, out')
    /\ reader' \in {"tree", "patterns", "nobody"}
    /\ stage' \in Tree!Stages
    /\ failure' \in Tree!Errors \cup {Absent}
    /\ reader' = "tree" => at' = 0
BY SameFiles DEF TypeInvariant, Patterns!TypeInvariant, Patterns!lines, Placed, Patterns!TextOf, TextOf

LEMMA ReadInit ==
  Init => ReadInv
<1> SUFFICES ASSUME Init PROVE ReadInv
  OBVIOUS
<1> USE DEF Init, Patterns!Init
<1>1. file \in Files /\ file \in File /\ file.role \in {"program", "copybook"} /\ Len(file.lines) \in Nat
  BY SourceHas, CobolAssumption
<1>2. DOMAIN constants \subseteq Names /\ DOMAIN recordFd \subseteq Names
  OBVIOUS
<1>3. stage \in Tree!Stages
  BY DEF Tree!Stages
<1>4. Placed(file.lines, out)
  BY DEF Placed
<1>5. TypeInvariant
  BY <1>1, <1>2, <1>3, <1>4, TypesOf
<1> QED BY <1>1, <1>5 DEF ReadInv

\* A step that adds observations of its source
LEMMA Joined ==
  ASSUME NEW s, NEW a, NEW b, Placed(s, a), Placed(s, b)
  PROVE  Placed(s, a \cup b)
BY DEF Placed

LEMMA TreeKeepsTypes ==
  ReadInv /\ ReadTree => ReadInv'
<1> SUFFICES ASSUME ReadInv, ReadTree PROVE ReadInv'
  OBVIOUS
<1> DEFINE s == file.lines
<1>1. /\ reader = "tree" /\ Tree!Next /\ reader' = reader
      /\ at' = at /\ program' = program /\ constants' = constants /\ fd' = fd /\ record' = record
      /\ recordFd' = recordFd
  BY DEF ReadTree, patternVars
<1>2. /\ file \in Files /\ file \in File /\ at = 0 /\ file.role = "program"
      /\ {program, fd, record} \subseteq Names \cup {Absent}
      /\ DOMAIN constants \subseteq Names /\ DOMAIN recordFd \subseteq Names
      /\ Placed(s, out) /\ stage \in Tree!Stages /\ failure \in Tree!Errors \cup {Absent}
      /\ treeAt \in 1..(Len(s) + 1) /\ fd = Absent /\ record = Absent /\ recordFd = <<>>
      /\ stage \in {"built", "expand", "dump", "trace", "declare", "refused"} => out = {}
  BY <1>1, TypesOf DEF ReadInv
<1>3. s \in Seq(Line) /\ Len(s) \in Nat /\ \A l \in 1..Len(s) : s[l] \in Line
  BY <1>2, SourceHas
<1>4. ASSUME file' = file, Placed(s, out'), stage' \in Tree!Stages, failure' \in Tree!Errors \cup {Absent},
             treeAt' \in 1..(Len(s) + 1),
             stage' \in {"built", "expand", "dump", "trace", "declare", "refused"} => out' = {}
      PROVE  ReadInv'
  <2>1. TypeInvariant'
    BY <1>1, <1>2, <1>3, <1>4, TypesOfNext
  <2> QED BY <1>1, <1>2, <1>4, <2>1 DEF ReadInv
<1>5. CASE Tree!EnsureBuilt \/ Tree!CallTree \/ Tree!ParseTempTree \/ Tree!Preresolve
  <2>1. /\ out' = out /\ file' = file /\ treeAt' = treeAt
        /\ stage' \in Tree!Stages /\ failure' \in Tree!Errors \cup {Absent}
        /\ stage \in {"built", "expand", "dump", "trace"}
    BY <1>5 DEF Tree!EnsureBuilt, Tree!CallTree, Tree!ParseTempTree, Tree!Preresolve, Tree!Attempt,
                Tree!Stages, Tree!Errors
  <2> QED BY <1>2, <1>4, <2>1
<1>6. ASSUME NEW from, NEW observed, NEW to, Tree!Emit(from, observed, to), Placed(s, observed),
             to \in {"files", "calls", "copies", "io", "cics", "done"}
      PROVE  ReadInv'
  <2>1. /\ out' = out \cup observed /\ file' = file /\ treeAt' = treeAt /\ stage' = to /\ failure' = failure
    BY <1>6 DEF Tree!Emit
  <2>2. Placed(s, out')
    BY <1>2, <1>6, <2>1, Joined
  <2>3. stage' \in Tree!Stages
    BY <1>6, <2>1 DEF Tree!Stages
  <2> QED BY <1>2, <1>4, <1>6, <2>1, <2>2, <2>3
<1>7. CASE Tree!EmitProgramId
  BY <1>2, <1>6, <1>7, PresencePlaced DEF Tree!EmitProgramId, Tree!lines
<1>8. CASE Tree!EmitFileControl
  BY <1>2, <1>6, <1>8, FoundPlaced, TreeEmits
<1>9. CASE Tree!EmitCalls
  BY <1>2, <1>6, <1>9, FoundPlaced, TreeEmits
<1>10. CASE Tree!EmitBatchIo
  BY <1>2, <1>6, <1>10, FoundPlaced, TreeEmits
<1>11. CASE Tree!EmitCics
  BY <1>2, <1>6, <1>11, FoundPlaced, TreeEmits
<1>12. CASE Tree!WalkEnds
  <2>1. Placed(s, {})
    BY DEF Placed
  <2> QED BY <1>6, <1>12, <2>1 DEF Tree!WalkEnds
<1>13. ASSUME NEW observed, NEW last, Tree!Walk(observed, last), stage = "copies", Placed(s, observed),
              last \in 1..Len(s)
       PROVE  ReadInv'
  <2>1. out' = out \cup observed /\ treeAt' = last + 1 /\ file' = file /\ stage' = stage /\ failure' = failure
    BY <1>13 DEF Tree!Walk
  <2>2. Placed(s, out')
    BY <1>2, <1>13, <2>1, Joined
  <2>3. treeAt' \in 1..(Len(s) + 1)
    BY <1>3, <1>13, <2>1
  <2> QED BY <1>2, <1>4, <1>13, <2>1, <2>2, <2>3
<1>14. Placed(s, {})
  BY DEF Placed
<1>15. CASE Tree!WalkFd \/ Tree!WalkSd \/ Tree!WalkRecord \/ Tree!WalkOn
  <2>1. stage = "copies" /\ treeAt \in 1..Len(s) /\ Tree!Walk({}, treeAt)
    BY <1>15 DEF Tree!WalkFd, Tree!WalkSd, Tree!WalkRecord, Tree!WalkOn, Tree!Stands, Tree!lines
  <2> QED BY <1>13, <1>14, <2>1
<1>16. CASE Tree!WalkCopy
  <2>1. PICK i, p, a :
          /\ stage = "copies" /\ treeAt \in 1..Len(s)
          /\ Tree!Walk(Tree!Copied(i, p, treeFd, a, s, treeAt), Tree!EndOfCopy(s, treeAt))
    BY <1>16 DEF Tree!WalkCopy, Tree!Stands, Tree!lines
  <2>2. Tree!Copied(i, p, treeFd, a, s, treeAt) = Copied(i, p, treeFd, a, s, treeAt)
    BY TreeObserves
  <2>3. Placed(s, Tree!Copied(i, p, treeFd, a, s, treeAt))
    BY <1>2, <2>1, <2>2, LinePlaced
  <2>4. EndOfCopy(s, treeAt) \in 1..Len(s) /\ Tree!EndOfCopy(s, treeAt) = EndOfCopy(s, treeAt)
    <3>1. treeAt \in 1..Len(s)
      BY <2>1
    <3>2. EndOfCopy(s, treeAt) \in Nat /\ treeAt <= EndOfCopy(s, treeAt) /\ EndOfCopy(s, treeAt) <= Len(s)
      BY <1>3, <3>1, EndsStay
    <3> QED BY <1>3, <3>1, <3>2, TreeReads
  <2> QED BY <1>13, <2>1, <2>3, <2>4
<1> QED BY <1>1, <1>5, <1>7, <1>8, <1>9, <1>10, <1>11, <1>12, <1>15, <1>16 DEF Tree!Next

LEMMA PatternsKeepTypes ==
  ReadInv /\ ReadPatterns => ReadInv'
<1> SUFFICES ASSUME ReadInv, ReadPatterns PROVE ReadInv'
  OBVIOUS
<1> DEFINE s == file.lines
<1>1. /\ reader = "patterns" /\ Patterns!Next /\ reader' = reader
      /\ stage' = stage /\ failure' = failure /\ treeAt' = treeAt
  BY DEF ReadPatterns, treeVars
<1>2. /\ file \in Files /\ file \in File /\ at \in 0..(Len(s) + 1)
      /\ {program, fd, record} \subseteq Names \cup {Absent}
      /\ DOMAIN constants \subseteq Names /\ DOMAIN recordFd \subseteq Names
      /\ Placed(s, out) /\ stage \in Tree!Stages /\ failure \in Tree!Errors \cup {Absent}
      /\ treeAt \in 1..(Len(s) + 1) /\ stage \in {"built", "refused"}
      /\ at > 0 => program = ProgramName(s) /\ constants = WsConstants(s)
  BY <1>1, TypesOf DEF ReadInv
<1>3. s \in Seq(Line) /\ Len(s) \in Nat /\ Len(s) >= 1 /\ \A l \in 1..Len(s) : s[l] \in Line
  BY <1>2, SourceHas
<1>4. ASSUME file' = file, Placed(s, out'), at' \in 1..(Len(s) + 1),
             program' = ProgramName(s), constants' = WsConstants(s),
             {fd', record'} \subseteq Names \cup {Absent}, DOMAIN recordFd' \subseteq Names
      PROVE  ReadInv'
  <2>1. program' \in Names \cup {Absent} /\ DOMAIN constants' \subseteq Names
    BY <1>3, <1>4, ProgramNameIn, ConstantsIn
  <2>2. at' \in 0..(Len(s) + 1) /\ at' # 0
    BY <1>3, <1>4
  <2>3. TypeInvariant'
    BY <1>1, <1>2, <1>4, <2>1, <2>2, TypesOfNext
  <2> QED BY <1>1, <1>2, <1>4, <2>2, <2>3 DEF ReadInv
<1>5. CASE Patterns!Prepare
  <2>1. /\ file' = file /\ at' = 1 /\ program' = ProgramName(s) /\ constants' = WsConstants(s)
        /\ out' = out \cup Patterns!Presence /\ fd' = fd /\ record' = record /\ recordFd' = recordFd
    BY <1>5, PatternsRead DEF Patterns!Prepare, Patterns!lines
  <2>2. Placed(s, out')
    BY <1>2, <2>1, PresencePlaced, Joined
  <2>3. 1 \in 1..(Len(s) + 1)
    BY <1>3
  <2> QED BY <1>2, <1>4, <2>1, <2>2, <2>3
<1>6. ASSUME NEW observed, NEW last, Patterns!Read(observed, last), at \in 1..Len(s), last \in 1..Len(s),
             Placed(s, observed), {fd', record'} \subseteq Names \cup {Absent},
             DOMAIN recordFd' \subseteq Names
      PROVE  ReadInv'
  <2>1. /\ out' = out \cup observed /\ at' = last + 1 /\ file' = file
        /\ program' = program /\ constants' = constants
    BY <1>6 DEF Patterns!Read
  <2>2. Placed(s, out')
    BY <1>2, <1>6, <2>1, Joined
  <2>3. at' \in 1..(Len(s) + 1) /\ at > 0
    BY <1>3, <1>6, <2>1
  <2> QED BY <1>2, <1>4, <1>6, <2>1, <2>2, <2>3
<1>7. Placed(s, {})
  BY DEF Placed
<1>8. ASSUME NEW shapes, Patterns!Stands(shapes)
      PROVE  at \in 1..Len(s) /\ s[at].shape \in shapes /\ s[at] \in Line
  BY <1>3, <1>8 DEF Patterns!Stands, Patterns!lines
<1>9. CASE Patterns!ReadFd \/ Patterns!ReadSd \/ Patterns!ReadRecord \/ Patterns!SkipLine
  <2>1. at \in 1..Len(s) /\ Patterns!Read({}, at)
    BY <1>8, <1>9 DEF Patterns!ReadFd, Patterns!ReadSd, Patterns!ReadRecord, Patterns!SkipLine, Patterns!Ignored
  <2>2. s[at].name \in Names \cup {Absent} /\ (s[at].shape = "record" => s[at].name \in Names)
    BY <1>3, <2>1, LineHas
  <2>3. {fd', record'} \subseteq Names \cup {Absent} /\ DOMAIN recordFd' \subseteq Names
    <3>1. CASE Patterns!ReadFd \/ Patterns!ReadSd \/ Patterns!SkipLine
      BY <1>2, <2>2, <3>1 DEF Patterns!ReadFd, Patterns!ReadSd, Patterns!SkipLine, Patterns!lines
    <3>2. CASE Patterns!ReadRecord
      <4>1. s[at].shape = "record" /\ record' = s[at].name /\ fd' = fd
            /\ DOMAIN recordFd' = DOMAIN recordFd \cup {s[at].name}
        <5>1. /\ s[at].shape \in {"record"} /\ record' = s[at].name /\ fd' = fd
              /\ recordFd' = [n \in DOMAIN recordFd \cup {s[at].name} |->
                                IF n = s[at].name THEN fd ELSE recordFd[n]]
          BY <1>8, <3>2 DEF Patterns!ReadRecord, Patterns!lines
        <5> QED BY <5>1
      <4> QED BY <1>2, <2>2, <4>1
    <3> QED BY <1>9, <3>1, <3>2
  <2> QED BY <1>6, <1>7, <2>1, <2>3
<1>10. CASE Patterns!ReadCopy
  <2>1. at \in 1..Len(s)
    BY <1>8, <1>10 DEF Patterns!ReadCopy
  <2>2. PICK i, a : Patterns!Read(Patterns!Copied(i, program, fd, a, s, at), Patterns!EndOfCopy(s, at))
    BY <1>10 DEF Patterns!ReadCopy, Patterns!lines
  <2>3. Placed(s, Patterns!Copied(i, program, fd, a, s, at))
    BY <1>2, <2>1, LinePlaced, PatternsObserve
  <2>4. EndOfCopy(s, at) \in Nat /\ at <= EndOfCopy(s, at) /\ EndOfCopy(s, at) <= Len(s)
    BY <1>3, <2>1, EndsStay
  <2>5. Patterns!EndOfCopy(s, at) \in 1..Len(s)
    BY <1>3, <2>1, <2>4, PatternsRead
  <2>6. fd' = fd /\ record' = record /\ recordFd' = recordFd
    BY <1>10 DEF Patterns!ReadCopy
  <2> QED BY <1>2, <1>6, <2>1, <2>2, <2>3, <2>5, <2>6
<1>11. CASE Patterns!ReadSelect \/ Patterns!ReadCall \/ Patterns!ReadIo
  <2>1. at \in 1..Len(s)
    BY <1>8, <1>11 DEF Patterns!ReadSelect, Patterns!ReadCall, Patterns!ReadIo
  <2>2. fd' = fd /\ record' = record /\ recordFd' = recordFd
    BY <1>11 DEF Patterns!ReadSelect, Patterns!ReadCall, Patterns!ReadIo
  <2>3. /\ Placed(s, Patterns!Selected(program, s, Absent, at))
        /\ Placed(s, Patterns!Called(program, s, Absent, at))
        /\ Placed(s, Patterns!Accessed(program, s, recordFd, Absent, at))
    BY <1>2, <2>1, LinePlaced, PatternsObserve
  <2>4. PICK observed : Patterns!Read(observed, at) /\ Placed(s, observed)
    BY <1>7, <1>11, <2>3 DEF Patterns!ReadSelect, Patterns!ReadCall, Patterns!ReadIo, Patterns!lines
  <2> QED BY <1>2, <1>6, <2>1, <2>2, <2>4
<1>12. CASE Patterns!ReadCics
  <2>1. at \in 1..Len(s)
    BY <1>8, <1>12 DEF Patterns!ReadCics
  <2>2. Patterns!Read(Patterns!Commanded(program, constants, s, Absent, at), Patterns!EndOfBlock(s, at))
    BY <1>12 DEF Patterns!ReadCics, Patterns!lines
  <2>3. Placed(s, Patterns!Commanded(program, constants, s, Absent, at))
    BY <1>2, <2>1, LinePlaced, PatternsObserve
  <2>4. EndOfBlock(s, at) \in Nat /\ at <= EndOfBlock(s, at) /\ EndOfBlock(s, at) <= Len(s)
    BY <1>3, <2>1, EndsStay
  <2>5. Patterns!EndOfBlock(s, at) \in 1..Len(s)
    BY <1>3, <2>1, <2>4, PatternsRead
  <2>6. fd' = fd /\ record' = record /\ recordFd' = recordFd
    BY <1>12 DEF Patterns!ReadCics
  <2> QED BY <1>2, <1>6, <2>1, <2>2, <2>3, <2>5, <2>6
<1> QED BY <1>1, <1>5, <1>9, <1>10, <1>11, <1>12 DEF Patterns!Next

LEMMA AdapterKeepsTypes ==
  ReadInv /\ (FallBack \/ Fail \/ UNCHANGED vars) => ReadInv'
<1> SUFFICES ASSUME ReadInv, FallBack \/ Fail \/ UNCHANGED vars PROVE ReadInv'
  OBVIOUS
<1>1. /\ file' = file /\ out' = out /\ at' = at /\ program' = program /\ constants' = constants
      /\ fd' = fd /\ record' = record /\ recordFd' = recordFd /\ stage' = stage /\ treeAt' = treeAt
      /\ failure' \in {failure, Absent}
      /\ \/ reader' = reader
         \/ reader = "tree" /\ stage = "refused" /\ reader' \in {"patterns", "nobody"}
  BY DEF FallBack, Fail, vars, treeVars, patternVars
<1>2. reader = "tree" => at = 0
  BY TypesOf DEF ReadInv
<1>3. TypeInvariant'
  BY <1>1, <1>2, TypesOf, TypesOfNext DEF ReadInv
<1> QED BY <1>1, <1>2, <1>3 DEF ReadInv

LEMMA ReadNext ==
  ReadInv /\ [Next]_vars => ReadInv'
BY TreeKeepsTypes, PatternsKeepTypes, AdapterKeepsTypes DEF Next

-----------------------------------------------------------------------------
(* Files, records and areas from one line to the next *)

\* A line that describes a file, and one that is a record of the file described
DescribesFile(s, k) == s[k].shape \in {"fd", "sd"} /\ InFiles(s, k)
IsRecord(s, k)      == s[k].shape = "record" /\ InFiles(s, k) /\ DescribedAt(s, k) # Absent

LEMMA ContextStays ==
  ASSUME NEW s, NEW l \in Nat \ {0}, NEW m \in Nat, l <= m,
         \A k \in l..m : ~DescribesFile(s, k) /\ ~IsRecord(s, k)
  PROVE  /\ DescribedAt(s, m + 1) = DescribedAt(s, l)
         /\ InRecordArea(s, m + 1) <=> InRecordArea(s, l)
         /\ RecordFiles(s, m + 1) = RecordFiles(s, l)
<1>1. (m + 1) - 1 = m /\ 1..m = 1..(l - 1) \cup l..m
  OBVIOUS
<1>2. Describes(s, m + 1) = Describes(s, l)
  BY <1>1 DEF Describes, DescribesFile
<1>3. Records(s, m + 1) = Records(s, l)
  BY <1>1 DEF Records, IsRecord
<1> QED BY <1>2, <1>3 DEF DescribedAt, InRecordArea, RecordFiles

LEMMA AfterFd ==
  ASSUME NEW s, NEW l \in Nat \ {0}, DescribesFile(s, l)
  PROVE  /\ DescribedAt(s, l + 1) = IF s[l].shape = "fd" THEN s[l].name ELSE Absent
         /\ ~InRecordArea(s, l + 1)
         /\ RecordFiles(s, l + 1) = RecordFiles(s, l)
<1>1. (l + 1) - 1 = l /\ 1..l = 1..(l - 1) \cup {l}
  OBVIOUS
<1>2. l \in Describes(s, l + 1) /\ Describes(s, l + 1) \in SUBSET Nat
      /\ \A k \in Describes(s, l + 1) : k <= l
  BY <1>1 DEF Describes, DescribesFile
<1>3. Greatest(Describes(s, l + 1)) = l
  BY <1>2, GreatestIs
<1>4. Records(s, l + 1) = Records(s, l) /\ \A r \in Records(s, l + 1) : r \in Nat /\ r < l
  BY <1>1 DEF Records, DescribesFile
<1>5. DescribedAt(s, l + 1) = IF s[l].shape = "fd" THEN s[l].name ELSE Absent
  BY <1>2, <1>3 DEF DescribedAt
<1>6. ~InRecordArea(s, l + 1)
  BY <1>2, <1>4 DEF InRecordArea
<1>7. RecordFiles(s, l + 1) = RecordFiles(s, l)
  BY <1>4 DEF RecordFiles
<1> QED BY <1>5, <1>6, <1>7

LEMMA AfterRecord ==
  ASSUME NEW s, NEW l \in Nat \ {0}, IsRecord(s, l)
  PROVE  /\ DescribedAt(s, l + 1) = DescribedAt(s, l)
         /\ InRecordArea(s, l + 1)
         /\ RecordFiles(s, l + 1)
              = [n \in DOMAIN RecordFiles(s, l) \cup {s[l].name} |->
                   IF n = s[l].name THEN DescribedAt(s, l) ELSE RecordFiles(s, l)[n]]
<1>1. (l + 1) - 1 = l /\ 1..l = 1..(l - 1) \cup {l}
  OBVIOUS
<1>2. Describes(s, l + 1) = Describes(s, l) /\ \A k \in Describes(s, l + 1) : k < l
  BY <1>1 DEF Describes, IsRecord
<1>3. Records(s, l + 1) = Records(s, l) \cup {l} /\ \A r \in Records(s, l) : r \in Nat /\ r < l
  BY <1>1 DEF Records, IsRecord
<1>4. DescribedAt(s, l + 1) = DescribedAt(s, l)
  BY <1>2 DEF DescribedAt
<1>5. InRecordArea(s, l + 1)
  BY <1>2, <1>3 DEF InRecordArea
<1> DEFINE named(l1, n) == {r \in Records(s, l1) : s[r].name = n}
<1>6. Greatest(named(l + 1, s[l].name)) = l
  <2>1. l \in named(l + 1, s[l].name) /\ named(l + 1, s[l].name) \in SUBSET Nat
        /\ \A r \in named(l + 1, s[l].name) : r <= l
    BY <1>3
  <2> HIDE DEF named
  <2> QED BY <2>1, GreatestIs
<1>7. \A n : n # s[l].name => named(l + 1, n) = named(l, n)
  BY <1>3
<1>8. {s[r].name : r \in Records(s, l + 1)} = {s[r].name : r \in Records(s, l)} \cup {s[l].name}
  BY <1>3
<1>9. DOMAIN RecordFiles(s, l) = {s[r].name : r \in Records(s, l)}
      /\ \A n \in {s[r].name : r \in Records(s, l)} :
           RecordFiles(s, l)[n] = DescribedAt(s, Greatest(named(l, n)))
  BY DEF RecordFiles
<1>10. RecordFiles(s, l + 1)
       = [n \in {s[r].name : r \in Records(s, l + 1)} |-> DescribedAt(s, Greatest(named(l + 1, n)))]
  BY DEF RecordFiles
<1> HIDE DEF named
<1>11. RecordFiles(s, l + 1)
              = [n \in DOMAIN RecordFiles(s, l) \cup {s[l].name} |->
                   IF n = s[l].name THEN DescribedAt(s, l) ELSE RecordFiles(s, l)[n]]
  BY <1>6, <1>7, <1>8, <1>9, <1>10
<1> QED BY <1>4, <1>5, <1>11

-----------------------------------------------------------------------------
(* Programs that compile *)

\* The lines that continue a statement are text.
LEMMA TextAfter ==
  ASSUME NEW f \in Files, WellFormed(f), NEW l \in 1..Len(f.lines), NEW k \in Nat, l < k,
         \/ f.lines[l].shape = "copy" /\ k <= EndOfCopy(f.lines, l)
         \/ f.lines[l].shape = "cics" /\ k <= EndOfBlock(f.lines, l)
  PROVE  f.lines[k].shape = "text" /\ f.lines[k].marker = Absent
<1>1. f.lines \in Seq(Line)
  BY SourceHas
<1>2. EndOfCopy(f.lines, l) \in Nat /\ EndOfBlock(f.lines, l) \in Nat
  BY <1>1, EndsStay
<1>3. k \in 1..Len(f.lines) /\ l \in 1..(k - 1)
  <2>1. EndOfCopy(f.lines, l) <= Len(f.lines) /\ EndOfBlock(f.lines, l) <= Len(f.lines)
    BY <1>1, EndsStay
  <2>2. Len(f.lines) \in Nat /\ l \in Nat /\ 1 <= l
    BY SourceHas
  <2>3. k <= Len(f.lines)
    BY <1>2, <2>1, <2>2
  <2> QED BY <2>2, <2>3
<1>4. k \in Continuations(f.lines)
  <2>1. \E j \in 1..(k - 1) :
          \/ f.lines[j].shape = "copy" /\ k <= EndOfCopy(f.lines, j)
          \/ f.lines[j].shape = "cics" /\ k <= EndOfBlock(f.lines, j)
    BY <1>3
  <2> QED BY <1>3, <2>1 DEF Continuations
<1> QED BY <1>4 DEF WellFormed

\* Nothing follows the PROCEDURE DIVISION, so that its statements see every record.
Markers(s, l) == {k \in 1..l : s[k].marker # Absent}

LEMMA ProcedureIsLast ==
  ASSUME NEW f \in Files, WellFormed(f), NEW l \in 1..Len(f.lines),
         In(f.lines, l, "PROCEDURE-DIVISION")
  PROVE  /\ \A k \in l..Len(f.lines) : SectionAt(f.lines, k) = "PROCEDURE-DIVISION"
         /\ RecordFiles(f.lines, Len(f.lines) + 1) = RecordFiles(f.lines, l)
<1> DEFINE s == f.lines
           n == Len(s)
<1>1. n \in Nat /\ l \in Nat /\ 1 <= l /\ l <= n
  BY SourceHas
<1>2. /\ \A j, k \in 1..n : s[j].marker # Absent /\ s[k].marker = "PROCEDURE-DIVISION" => j <= k
      /\ SectionAt(s, l) = "PROCEDURE-DIVISION"
  BY DEF WellFormed, In
<1>3. \A k : SectionAt(s, k) = IF Markers(s, k) = {} THEN Absent ELSE s[Greatest(Markers(s, k))].marker
  BY DEF SectionAt, Markers
<1> HIDE DEF s, n
<1>4. \A k \in l..n : SectionAt(s, k) = "PROCEDURE-DIVISION"
  <2>1. CASE Markers(s, l) = {}
    <3>1. Absent = "PROCEDURE-DIVISION"
      BY <1>2, <1>3, <2>1
    <3>2. 1 \in 1..n /\ s[1].marker = Absent
      BY <1>1, <2>1 DEF Markers
    <3>3. \A k \in 1..n : s[k].marker # Absent => k <= 1
      BY <1>2, <3>1, <3>2
    <3>4. \A k \in 1..n : k <= 1 => k = 1
      OBVIOUS
    <3>5. \A k \in 1..n : s[k].marker = Absent
      BY <3>2, <3>3, <3>4
    <3>6. \A k \in l..n : Markers(s, k) = {}
      BY <1>1, <3>5 DEF Markers
    <3> QED BY <1>3, <3>1, <3>6
  <2>2. CASE Markers(s, l) # {}
    <3> DEFINE g == Greatest(Markers(s, l))
    <3>1. Markers(s, l) \in SUBSET (0..l)
      BY <1>1 DEF Markers
    <3>2. g \in Markers(s, l)
      BY <1>1, <2>2, <3>1, GreatestExists
    <3>3. s[g].marker = "PROCEDURE-DIVISION"
      BY <1>2, <1>3, <2>2
    <3> HIDE DEF g
    <3>4. g \in 1..l /\ s[g].marker # Absent
      BY <3>2 DEF Markers
    <3>5. ASSUME NEW k \in l..n
          PROVE  SectionAt(s, k) = "PROCEDURE-DIVISION"
      <4>1. g \in Markers(s, k) /\ Markers(s, k) \in SUBSET Nat
        BY <1>1, <3>4 DEF Markers
      <4>2. ASSUME NEW j \in Markers(s, k)
            PROVE  j <= g
        <5>1. j \in 1..n /\ s[j].marker # Absent /\ g \in 1..n
          BY <1>1, <3>4 DEF Markers
        <5> QED BY <1>2, <3>3, <5>1
      <4>3. Greatest(Markers(s, k)) = g
        BY <4>1, <4>2, GreatestIs
      <4> QED BY <1>3, <3>3, <4>1, <4>3
    <3> QED BY <3>5
  <2> QED BY <2>1, <2>2
<1>5. \A k \in l..n : ~DescribesFile(s, k) /\ ~IsRecord(s, k)
  BY <1>4 DEF DescribesFile, IsRecord, InFiles
<1>6. RecordFiles(s, n + 1) = RecordFiles(s, l)
  <2>1. l \in Nat \ {0}
    BY <1>1
  <2> QED BY <1>1, <1>5, <2>1, ContextStays
<1> QED BY <1>4, <1>6 DEF s, n

-----------------------------------------------------------------------------
(* What a walk remembers *)

\* A file d and a record r remembered at line l of s, and the files of the records
Remembered(s, l, d, r) ==
  /\ d = DescribedAt(s, l)
  /\ (d # Absent /\ r # Absent) <=> InRecordArea(s, l)

ContextInv ==
  WellFormed(file) =>
    /\ at > 0 => Remembered(file.lines, at, fd, record) /\ recordFd = RecordFiles(file.lines, at)
    /\ Remembered(file.lines, treeAt, treeFd, treeRecord)

LEMMA FirstContext ==
  ASSUME NEW s
  PROVE  Remembered(s, 1, Absent, Absent) /\ RecordFiles(s, 1) = <<>>
<1>1. Describes(s, 1) = {} /\ Records(s, 1) = {}
  BY DEF Describes, Records
<1>2. Remembered(s, 1, Absent, Absent)
  BY <1>1 DEF Remembered, DescribedAt, InRecordArea
<1>3. RecordFiles(s, 1) = <<>>
  <2>1. RecordFiles(s, 1) = [n \in {} |-> DescribedAt(s, Greatest({r \in {} : s[r].name = n}))]
    BY <1>1 DEF RecordFiles
  <2> QED BY <2>1
<1> QED BY <1>2, <1>3

\* A line that neither describes a file nor is a record of one changes nothing, ...
LEMMA LineRemembers ==
  ASSUME NEW s, NEW l \in Nat \ {0}, NEW d, NEW r, Remembered(s, l, d, r),
         ~DescribesFile(s, l), ~IsRecord(s, l)
  PROVE  Remembered(s, l + 1, d, r) /\ RecordFiles(s, l + 1) = RecordFiles(s, l)
<1>1. \A k \in l..l : k = l
  OBVIOUS
<1> QED BY <1>1, ContextStays DEF Remembered

\* ... nor does a statement of several lines.
LEMMA StatementRemembers ==
  ASSUME NEW f \in Files, WellFormed(f), NEW l \in 1..Len(f.lines), NEW d, NEW r,
         Remembered(f.lines, l, d, r), NEW m,
         \/ f.lines[l].shape = "copy" /\ m = EndOfCopy(f.lines, l)
         \/ f.lines[l].shape = "cics" /\ m = EndOfBlock(f.lines, l)
  PROVE  /\ Remembered(f.lines, m + 1, d, r)
         /\ RecordFiles(f.lines, m + 1) = RecordFiles(f.lines, l)
<1> DEFINE s == f.lines
<1>1. s \in Seq(Line)
  BY SourceHas
<1>2. m \in Nat /\ l <= m /\ l \in Nat \ {0}
  BY <1>1, EndsStay
<1>3. ASSUME NEW k \in l..m
      PROVE  ~DescribesFile(s, k) /\ ~IsRecord(s, k)
  <2>1. CASE k = l
    BY <2>1 DEF DescribesFile, IsRecord
  <2>2. CASE k # l
    <3>1. k \in Nat /\ l < k /\ k <= m
      BY <1>2, <2>2
    <3>2. s[k].shape = "text"
      BY <3>1, TextAfter
    <3> QED BY <3>2 DEF DescribesFile, IsRecord
  <2> QED BY <2>1, <2>2
<1> QED BY <1>2, <1>3, ContextStays DEF Remembered

\* A file is remembered from its FD on, and a record from its line on.
LEMMA FdRemembers ==
  ASSUME NEW s, NEW l \in Nat \ {0}, DescribesFile(s, l)
  PROVE  /\ Remembered(s, l + 1, IF s[l].shape = "fd" THEN s[l].name ELSE Absent, Absent)
         /\ RecordFiles(s, l + 1) = RecordFiles(s, l)
BY AfterFd DEF Remembered

LEMMA RecordRemembers ==
  ASSUME NEW s, NEW l \in Nat \ {0}, NEW d, NEW r, Remembered(s, l, d, r), IsRecord(s, l),
         s[l].name # Absent
  PROVE  /\ Remembered(s, l + 1, d, s[l].name)
         /\ RecordFiles(s, l + 1)
              = [n \in DOMAIN RecordFiles(s, l) \cup {s[l].name} |->
                   IF n = s[l].name THEN d ELSE RecordFiles(s, l)[n]]
<1>1. d = DescribedAt(s, l) /\ d # Absent
  BY DEF Remembered, IsRecord
<1> QED BY <1>1, AfterRecord DEF Remembered

LEMMA ContextInit ==
  Init => ContextInv
<1> SUFFICES ASSUME Init PROVE ContextInv
  OBVIOUS
<1>1. at = 0 /\ treeAt = 1 /\ treeFd = Absent /\ treeRecord = Absent
  BY DEF Init, Patterns!Init
<1> QED BY <1>1, FirstContext DEF ContextInv

LEMMA PatternsKeepContext ==
  ReadInv /\ ContextInv /\ ReadPatterns => ContextInv'
<1> SUFFICES ASSUME ReadInv, ContextInv, ReadPatterns, WellFormed(file)
             PROVE  ContextInv'
  <2>1. ReadPatterns => file' = file
    BY DEF ReadPatterns, Patterns!Next, Patterns!Prepare, Patterns!ReadFd, Patterns!ReadSd,
           Patterns!ReadRecord, Patterns!ReadCopy, Patterns!ReadSelect, Patterns!ReadCall, Patterns!ReadIo,
           Patterns!ReadCics, Patterns!SkipLine, Patterns!Read
  <2>2. ~WellFormed(file) /\ file' = file => ContextInv'
    BY DEF ContextInv
  <2> QED BY <2>1, <2>2
<1> DEFINE s == file.lines
<1>1. Patterns!Next /\ treeAt' = treeAt /\ treeFd' = treeFd /\ treeRecord' = treeRecord
  BY DEF ReadPatterns, treeVars
<1>2. /\ file \in Files /\ at \in 0..(Len(s) + 1)
      /\ Remembered(s, treeAt, treeFd, treeRecord)
      /\ at > 0 => Remembered(s, at, fd, record) /\ recordFd = RecordFiles(s, at)
      /\ at = 0 => fd = Absent /\ record = Absent /\ recordFd = <<>>
  BY TypesOf DEF ReadInv, ContextInv
<1>3. s \in Seq(Line) /\ Len(s) \in Nat /\ \A l \in 1..Len(s) : s[l] \in Line
  BY <1>2, SourceHas
<1>4. ASSUME file' = file, at' > 0, Remembered(s, at', fd', record'), recordFd' = RecordFiles(s, at')
      PROVE  ContextInv'
  BY <1>1, <1>2, <1>4 DEF ContextInv
<1>5. CASE Patterns!Prepare
  <2>1. /\ file' = file /\ at = 0 /\ at' = 1 /\ fd' = fd /\ record' = record /\ recordFd' = recordFd
    BY <1>5 DEF Patterns!Prepare
  <2> QED BY <1>2, <1>4, <2>1, FirstContext
<1>6. ASSUME NEW shapes, Patterns!Stands(shapes)
      PROVE  at \in 1..Len(s) /\ s[at].shape \in shapes /\ s[at] \in Line
  BY <1>3, <1>6 DEF Patterns!Stands, Patterns!lines
<1>7. \A sections : Patterns!InSection(sections) <=> SectionAt(s, at) \in sections
  BY PatternsRead DEF Patterns!InSection, Patterns!lines
<1>8. ASSUME NEW observed, NEW last, Patterns!Read(observed, last), at \in 1..Len(s)
      PROVE  file' = file /\ at' = last + 1 /\ at \in Nat \ {0}
             /\ Remembered(s, at, fd, record) /\ recordFd = RecordFiles(s, at)
  BY <1>2, <1>8 DEF Patterns!Read
<1>9. CASE Patterns!ReadFd \/ Patterns!ReadSd
  <2>1. at \in 1..Len(s) /\ DescribesFile(s, at) /\ Patterns!Read({}, at)
    BY <1>6, <1>7, <1>9 DEF Patterns!ReadFd, Patterns!ReadSd, DescribesFile, InFiles
  <2>2. fd' = (IF s[at].shape = "fd" THEN s[at].name ELSE Absent) /\ record' = Absent
        /\ recordFd' = recordFd
    BY <1>6, <1>9 DEF Patterns!ReadFd, Patterns!ReadSd, Patterns!lines
  <2> QED BY <1>4, <1>8, <2>1, <2>2, FdRemembers
<1>10. CASE Patterns!ReadRecord
  <2>1. at \in 1..Len(s) /\ s[at].shape = "record" /\ InFiles(s, at) /\ fd # Absent /\ Patterns!Read({}, at)
    BY <1>6, <1>7, <1>10 DEF Patterns!ReadRecord, InFiles
  <2>2. fd' = fd /\ record' = s[at].name
        /\ recordFd' = [n \in DOMAIN recordFd \cup {s[at].name} |->
                          IF n = s[at].name THEN fd ELSE recordFd[n]]
    BY <1>10 DEF Patterns!ReadRecord, Patterns!lines
  <2>3. s[at].name # Absent
    BY <1>3, <2>1, LineHas, CobolAssumption
  <2>4. file' = file /\ at' = at + 1 /\ at \in Nat \ {0}
        /\ Remembered(s, at, fd, record) /\ recordFd = RecordFiles(s, at)
    BY <1>8, <2>1
  <2>5. IsRecord(s, at)
    BY <2>1, <2>4 DEF IsRecord, Remembered
  <2> QED BY <1>4, <2>2, <2>3, <2>4, <2>5, RecordRemembers
<1>11. CASE Patterns!ReadCopy
  <2>1. at \in 1..Len(s) /\ s[at].shape = "copy"
    BY <1>6, <1>11 DEF Patterns!ReadCopy
  <2>2. PICK observed : Patterns!Read(observed, EndOfCopy(s, at))
    BY <1>11, PatternsRead DEF Patterns!ReadCopy, Patterns!lines
  <2>3. fd' = fd /\ record' = record /\ recordFd' = recordFd
    BY <1>11 DEF Patterns!ReadCopy
  <2>4. EndOfCopy(s, at) \in Nat
    BY <1>3, <2>1, EndsStay
  <2>5. Remembered(s, EndOfCopy(s, at) + 1, fd, record)
        /\ RecordFiles(s, EndOfCopy(s, at) + 1) = RecordFiles(s, at)
    BY <1>2, <1>8, <2>1, <2>2, StatementRemembers
  <2> QED BY <1>4, <1>8, <2>1, <2>2, <2>3, <2>4, <2>5
<1>12. CASE Patterns!ReadCics
  <2>1. at \in 1..Len(s) /\ s[at].shape = "cics"
    BY <1>6, <1>12 DEF Patterns!ReadCics
  <2>2. PICK observed : Patterns!Read(observed, EndOfBlock(s, at))
    BY <1>12, PatternsRead DEF Patterns!ReadCics, Patterns!lines
  <2>3. fd' = fd /\ record' = record /\ recordFd' = recordFd
    BY <1>12 DEF Patterns!ReadCics
  <2>4. EndOfBlock(s, at) \in Nat
    BY <1>3, <2>1, EndsStay
  <2>5. Remembered(s, EndOfBlock(s, at) + 1, fd, record)
        /\ RecordFiles(s, EndOfBlock(s, at) + 1) = RecordFiles(s, at)
    BY <1>2, <1>8, <2>1, <2>2, StatementRemembers
  <2> QED BY <1>4, <1>8, <2>1, <2>2, <2>3, <2>4, <2>5
<1>13. ASSUME NEW observed, Patterns!Read(observed, at), at \in 1..Len(s),
              ~DescribesFile(s, at), ~IsRecord(s, at),
              fd' = fd, record' = record, recordFd' = recordFd
       PROVE  ContextInv'
  <2>1. file' = file /\ at' = at + 1 /\ at \in Nat \ {0}
        /\ Remembered(s, at, fd, record) /\ recordFd = RecordFiles(s, at)
    BY <1>8, <1>13
  <2> QED BY <1>4, <1>13, <2>1, LineRemembers
<1>14. CASE Patterns!ReadSelect \/ Patterns!ReadCall \/ Patterns!ReadIo
  <2>1. at \in 1..Len(s) /\ s[at].shape \in {"select", "call", "io"}
    BY <1>6, <1>14 DEF Patterns!ReadSelect, Patterns!ReadCall, Patterns!ReadIo
  <2>2. fd' = fd /\ record' = record /\ recordFd' = recordFd
    BY <1>14 DEF Patterns!ReadSelect, Patterns!ReadCall, Patterns!ReadIo
  <2>3. PICK observed : Patterns!Read(observed, at)
    BY <1>14 DEF Patterns!ReadSelect, Patterns!ReadCall, Patterns!ReadIo
  <2> QED BY <1>13, <2>1, <2>2, <2>3 DEF DescribesFile, IsRecord
<1>15. CASE Patterns!SkipLine
  <2>1. Patterns!Read({}, at) /\ fd' = fd /\ record' = record /\ recordFd' = recordFd /\ Patterns!Ignored
    BY <1>15 DEF Patterns!SkipLine
  <2>2. at \in 1..Len(s)
    BY <1>6, <2>1 DEF Patterns!Ignored
  <2>3. Remembered(s, at, fd, record) /\ recordFd = RecordFiles(s, at)
    BY <1>8, <2>1, <2>2
  <2>4. fd = DescribedAt(s, at)
    BY <2>3 DEF Remembered
  <2>5. ~DescribesFile(s, at) /\ ~IsRecord(s, at)
    BY <1>6, <1>7, <2>1, <2>4 DEF Patterns!Ignored, DescribesFile, IsRecord, InFiles
  <2> QED BY <1>13, <2>1, <2>2, <2>5
<1> QED BY <1>1, <1>5, <1>9, <1>10, <1>11, <1>12, <1>14, <1>15 DEF Patterns!Next

LEMMA TreeKeepsContext ==
  ReadInv /\ ContextInv /\ ReadTree => ContextInv'
<1> SUFFICES ASSUME ReadInv, ContextInv, ReadTree, WellFormed(file)
             PROVE  ContextInv'
  <2>1. ReadTree => file' = file
    BY DEF ReadTree, Tree!Next, Tree!EnsureBuilt, Tree!CallTree, Tree!ParseTempTree, Tree!Preresolve,
           Tree!Attempt, Tree!EmitProgramId, Tree!EmitFileControl, Tree!EmitCalls, Tree!EmitBatchIo,
           Tree!EmitCics, Tree!Emit, Tree!WalkFd, Tree!WalkSd, Tree!WalkRecord, Tree!WalkCopy,
           Tree!WalkOn, Tree!WalkEnds, Tree!Walk
  <2>2. ~WellFormed(file) /\ file' = file => ContextInv'
    BY DEF ContextInv
  <2> QED BY <2>1, <2>2
<1> DEFINE s == file.lines
<1>1. Tree!Next /\ at' = at /\ reader = "tree"
  BY DEF ReadTree, patternVars
<1>2. /\ file \in Files /\ at = 0 /\ treeAt \in 1..(Len(s) + 1)
      /\ Remembered(s, treeAt, treeFd, treeRecord)
  BY <1>1, TypesOf DEF ReadInv, ContextInv
<1>3. s \in Seq(Line) /\ Len(s) \in Nat /\ \A l \in 1..Len(s) : s[l] \in Line
  BY <1>2, SourceHas
<1>4. ASSUME file' = file, Remembered(s, treeAt', treeFd', treeRecord')
      PROVE  ContextInv'
  BY <1>1, <1>2, <1>4 DEF ContextInv
<1>5. CASE Tree!EnsureBuilt \/ Tree!CallTree \/ Tree!ParseTempTree \/ Tree!Preresolve
  <2>1. file' = file /\ treeAt' = treeAt /\ treeFd' = treeFd /\ treeRecord' = treeRecord
    BY <1>5 DEF Tree!EnsureBuilt, Tree!CallTree, Tree!ParseTempTree, Tree!Preresolve, Tree!Attempt
  <2> QED BY <1>2, <1>4, <2>1
<1>6. CASE \/ Tree!EmitProgramId \/ Tree!EmitFileControl \/ Tree!EmitCalls \/ Tree!EmitBatchIo
           \/ Tree!EmitCics \/ Tree!WalkEnds
  <2>1. file' = file /\ treeAt' = treeAt /\ treeFd' = treeFd /\ treeRecord' = treeRecord
    BY <1>6 DEF Tree!EmitProgramId, Tree!EmitFileControl, Tree!EmitCalls, Tree!EmitBatchIo, Tree!EmitCics,
                Tree!WalkEnds, Tree!Emit
  <2> QED BY <1>2, <1>4, <2>1
<1>7. ASSUME NEW shapes, Tree!Stands(shapes)
      PROVE  treeAt \in 1..Len(s) /\ s[treeAt].shape \in shapes /\ s[treeAt] \in Line /\ treeAt \in Nat \ {0}
  BY <1>3, <1>7 DEF Tree!Stands, Tree!lines
<1>8. \A sections : Tree!InSection(sections) <=> SectionAt(s, treeAt) \in sections
  BY TreeReads DEF Tree!InSection, Tree!lines
<1>9. CASE Tree!WalkFd \/ Tree!WalkSd
  <2>1. treeAt \in Nat \ {0} /\ DescribesFile(s, treeAt)
    BY <1>7, <1>8, <1>9 DEF Tree!WalkFd, Tree!WalkSd, DescribesFile, InFiles
  <2>2. treeFd' = (IF s[treeAt].shape = "fd" THEN s[treeAt].name ELSE Absent) /\ treeRecord' = Absent
        /\ treeAt' = treeAt + 1 /\ file' = file
    BY <1>7, <1>9 DEF Tree!WalkFd, Tree!WalkSd, Tree!Walk, Tree!lines
  <2> QED BY <1>4, <2>1, <2>2, FdRemembers
<1>10. CASE Tree!WalkRecord
  <2>1. treeAt \in 1..Len(s) /\ s[treeAt].shape = "record" /\ InFiles(s, treeAt) /\ treeFd # Absent
        /\ treeAt \in Nat \ {0}
    BY <1>7, <1>8, <1>10 DEF Tree!WalkRecord, InFiles
  <2>2. treeFd' = treeFd /\ treeRecord' = s[treeAt].name /\ treeAt' = treeAt + 1 /\ file' = file
    BY <1>10 DEF Tree!WalkRecord, Tree!Walk, Tree!lines
  <2>3. s[treeAt].name # Absent
    BY <1>3, <2>1, LineHas, CobolAssumption
  <2>4. IsRecord(s, treeAt)
    BY <1>2, <2>1 DEF IsRecord, Remembered
  <2> QED BY <1>2, <1>4, <2>1, <2>2, <2>3, <2>4, RecordRemembers
<1>11. CASE Tree!WalkCopy
  <2>1. treeAt \in 1..Len(s) /\ s[treeAt].shape = "copy"
    BY <1>7, <1>11 DEF Tree!WalkCopy
  <2>2. treeFd' = treeFd /\ treeRecord' = treeRecord /\ treeAt' = EndOfCopy(s, treeAt) + 1 /\ file' = file
    BY <1>11, TreeReads DEF Tree!WalkCopy, Tree!Walk, Tree!lines
  <2>3. Remembered(s, EndOfCopy(s, treeAt) + 1, treeFd, treeRecord)
    BY <1>2, <2>1, StatementRemembers
  <2> QED BY <1>4, <2>2, <2>3
<1>12. CASE Tree!WalkOn
  <2>1. treeAt \in Nat \ {0} /\ treeFd' = treeFd /\ treeRecord' = treeRecord /\ treeAt' = treeAt + 1
        /\ file' = file
    BY <1>7, <1>12 DEF Tree!WalkOn, Tree!Walk
  <2>2. treeFd = DescribedAt(s, treeAt)
    BY <1>2 DEF Remembered
  <2>3. ~DescribesFile(s, treeAt) /\ ~IsRecord(s, treeAt)
    BY <1>7, <1>8, <1>12, <2>2 DEF Tree!WalkOn, DescribesFile, IsRecord, InFiles
  <2> QED BY <1>2, <1>4, <2>1, <2>3, LineRemembers
<1> QED BY <1>1, <1>5, <1>6, <1>9, <1>10, <1>11, <1>12 DEF Tree!Next

LEMMA AdapterKeepsContext ==
  ContextInv /\ (FallBack \/ Fail \/ UNCHANGED vars) => ContextInv'
<1> SUFFICES ASSUME ContextInv, FallBack \/ Fail \/ UNCHANGED vars PROVE ContextInv'
  OBVIOUS
<1>1. /\ file' = file /\ at' = at /\ fd' = fd /\ record' = record /\ recordFd' = recordFd
      /\ treeAt' = treeAt /\ treeFd' = treeFd /\ treeRecord' = treeRecord
  BY DEF FallBack, Fail, vars, treeVars, patternVars
<1> QED BY <1>1 DEF ContextInv

LEMMA ContextNext ==
  ReadInv /\ ContextInv /\ [Next]_vars => ContextInv'
BY PatternsKeepContext, TreeKeepsContext, AdapterKeepsContext DEF Next

LEMMA ContextMeans ==
  ContextInv => ContextMatches
<1>1. /\ Patterns!DescribedAt(file.lines, at) = DescribedAt(file.lines, at)
      /\ Patterns!InRecordArea(file.lines, at) <=> InRecordArea(file.lines, at)
      /\ Patterns!RecordFiles(file.lines, at) = RecordFiles(file.lines, at)
      /\ Patterns!WellFormed(file) <=> WellFormed(file)
  BY PatternsRead, SameFiles
<1> QED BY <1>1 DEF ContextInv, Remembered, ContextMatches, Patterns!ContextMatches, Patterns!lines

-----------------------------------------------------------------------------
(* The observations of the program's own statements *)

OwnOf(s, observed) == {o \in observed : o.source = Absent /\ (s[o.line].shape = "io" => s[o.line].real)}

\* The facts of some lines of a program, and of its declaration
Told(s, some) == UNION {Promise!FactsOf(ProgramName(s), s, l) : l \in some}

ProgramIds(s) == {k \in 1..Len(s) : s[k].shape = "program-id"}
Declared(s)   == {Entity("Program", ProgramId(ProgramName(s)), Absent, Least(ProgramIds(s)))}

LEMMA OwnIs ==
  Own = OwnOf(file.lines, out)
BY DEF Own, OwnOf, Patterns!Real, Patterns!lines

LEMMA OwnIsNext ==
  Own' = OwnOf(file'.lines, out')
BY DEF Own, OwnOf, Patterns!Real, Patterns!lines

LEMMA OwnJoined ==
  ASSUME NEW s, NEW a, NEW b
  PROVE  OwnOf(s, a \cup b) = OwnOf(s, a) \cup OwnOf(s, b) /\ OwnOf(s, {}) = {}
BY DEF OwnOf

LEMMA FactsAre ==
  ASSUME NEW f
  PROVE  Promise!Facts(f) = Declared(f.lines) \cup Told(f.lines, 1..Len(f.lines))
<1> DEFINE s == f.lines
           p == ProgramName(s)
<1>1. Promise!Entity("Program", Promise!ProgramId(p), Absent, Promise!DeclaredAt(s))
      = Entity("Program", ProgramId(p), Absent, Least(ProgramIds(s)))
  BY DEF Promise!Entity, Entity, Promise!ProgramId, ProgramId, Promise!DeclaredAt, Promise!Least, Least,
         ProgramIds
<1>2. Promise!ProgramName(s) = p
  BY PromiseReads
<1> QED BY <1>1, <1>2 DEF Promise!Facts, Declared, Told

LEMMA ToldJoined ==
  ASSUME NEW s, NEW a, NEW b
  PROVE  Told(s, a \cup b) = Told(s, a) \cup Told(s, b)
<1>1. \A o : o \in Told(s, a \cup b) <=> o \in Told(s, a) \cup Told(s, b)
  <2>1. \A c, o : o \in Told(s, c) <=> \E l \in c : o \in Promise!FactsOf(ProgramName(s), s, l)
    BY DEF Told
  <2> QED BY <2>1
<1> QED BY <1>1

\* Lines without facts add nothing.
LEMMA ToldSilent ==
  ASSUME NEW s, NEW a, \A l \in a : Promise!FactsOf(ProgramName(s), s, l) = {}
  PROVE  Told(s, a) = {}
BY DEF Told

LEMMA ToldOne ==
  ASSUME NEW s, NEW l
  PROVE  Told(s, {l}) = Promise!FactsOf(ProgramName(s), s, l)
BY DEF Told

LEMMA ToldLess ==
  ASSUME NEW s, NEW a, NEW b, a \subseteq b
  PROVE  Told(s, a) \subseteq Told(s, b)
BY DEF Told

-----------------------------------------------------------------------------
(* What is told of each line *)

\* The observations of one line are its facts, but for those of what only looks like
\* batch I/O.
LEMMA LineTold ==
  ASSUME NEW s, NEW l
  PROVE  LET facts == Promise!FactsOf(ProgramName(s), s, l)
             p     == ProgramName(s)
         IN  /\ s[l].shape = "select" => OwnOf(s, Selected(p, s, Absent, l)) = facts
             /\ s[l].shape = "call" => OwnOf(s, Called(p, s, Absent, l)) = facts
             /\ s[l].shape = "cics" => OwnOf(s, Commanded(p, WsConstants(s), s, Absent, l)) = facts
             /\ s[l].shape = "io" => OwnOf(s, Accessed(p, s, RecordFiles(s, l), Absent, l)) = facts
             /\ s[l].shape = "copy" =>
                  \A a : a = InRecordArea(s, l) =>
                    OwnOf(s, Copied(ProgramId(p), p, DescribedAt(s, l), a, s, l)) = facts
<1> DEFINE p     == ProgramName(s)
           facts == Promise!FactsOf(p, s, l)
<1>1. ASSUME NEW observed, \A o \in observed : o.source = Absent /\ o.line = l,
             s[l].shape = "io" => s[l].real
      PROVE  OwnOf(s, observed) = observed
  BY <1>1 DEF OwnOf
<1>2. ASSUME NEW observed, \A o \in observed : o.source = Absent /\ o.line = l,
             s[l].shape = "io", ~s[l].real
      PROVE  OwnOf(s, observed) = {}
  BY <1>2 DEF OwnOf
<1>3. s[l].shape = "select" => OwnOf(s, Selected(p, s, Absent, l)) = facts
  BY <1>1, ObservedAt, FactsOfLine
<1>4. s[l].shape = "call" => OwnOf(s, Called(p, s, Absent, l)) = facts
  BY <1>1, ObservedAt, FactsOfLine
<1>5. s[l].shape = "cics" => OwnOf(s, Commanded(p, WsConstants(s), s, Absent, l)) = facts
  <2> DEFINE observed == Commanded(p, WsConstants(s), s, Absent, l)
  <2>1. \A o \in observed : o.source = Absent /\ o.line = l
    BY ObservedAt
  <2>2. s[l].shape = "cics" => facts = observed
    BY FactsOfLine
  <2> HIDE DEF observed, facts
  <2>3. s[l].shape = "cics" => OwnOf(s, observed) = observed
    BY <1>1, <2>1
  <2> QED BY <2>2, <2>3 DEF observed
<1>6. s[l].shape = "io" => OwnOf(s, Accessed(p, s, RecordFiles(s, l), Absent, l)) = facts
  <2> DEFINE observed == Accessed(p, s, RecordFiles(s, l), Absent, l)
  <2>1. \A o \in observed : o.source = Absent /\ o.line = l
    BY ObservedAt
  <2>2. s[l].shape = "io" => facts = IF s[l].real THEN observed ELSE {}
    BY FactsOfLine
  <2> HIDE DEF observed, facts
  <2> QED BY <1>1, <1>2, <2>1, <2>2 DEF observed
<1>7. ASSUME s[l].shape = "copy", NEW a, a = InRecordArea(s, l)
      PROVE  OwnOf(s, Copied(ProgramId(p), p, DescribedAt(s, l), a, s, l)) = facts
  <2> DEFINE observed == Copied(ProgramId(p), p, DescribedAt(s, l), a, s, l)
  <2>1. \A o \in observed : o.source = Absent /\ o.line = l
    BY ObservedAt
  <2>2. facts = observed
    BY <1>7, FactsOfLine
  <2> HIDE DEF observed, facts
  <2> QED BY <1>1, <1>7, <2>1, <2>2 DEF observed
<1> QED BY <1>3, <1>4, <1>5, <1>6, <1>7

LEMMA LineSilent ==
  ASSUME NEW s, NEW l, s[l].shape \notin {"select", "call", "cics", "copy", "io"}
  PROVE  Promise!FactsOf(ProgramName(s), s, l) = {}
BY FactsOfLine

\* The lines told of up to and with the statement at line l
LEMMA ToldUpTo ==
  ASSUME NEW f \in Files, WellFormed(f), NEW l \in 1..Len(f.lines), NEW m,
         \/ f.lines[l].shape = "copy" /\ m = EndOfCopy(f.lines, l)
         \/ f.lines[l].shape = "cics" /\ m = EndOfBlock(f.lines, l)
         \/ m = l
  PROVE  Told(f.lines, 1..m)
           = Told(f.lines, 1..(l - 1)) \cup Promise!FactsOf(ProgramName(f.lines), f.lines, l)
<1> DEFINE s == f.lines
<1>1. s \in Seq(Line)
  BY SourceHas
<1>2. m \in Nat /\ l <= m /\ l \in Nat \ {0}
  <2>1. CASE m = l
    BY <2>1
  <2>2. CASE m # l
    BY <1>1, <2>2, EndsStay
  <2> QED BY <2>1, <2>2
<1>3. ASSUME NEW k \in (l + 1)..m
      PROVE  Promise!FactsOf(ProgramName(s), s, k) = {}
  <2>1. k \in Nat /\ l < k /\ k <= m
    BY <1>2
  <2>2. m # l
    BY <1>2, <2>1
  <2>3. s[k].shape = "text"
    BY <2>1, <2>2, TextAfter
  <2> QED BY <2>3, LineSilent
<1>4. 1..m = (1..(l - 1) \cup {l}) \cup (l + 1)..m
  BY <1>2
<1>5. Told(s, (l + 1)..m) = {}
  BY <1>3, ToldSilent
<1>6. Told(s, 1..m) = (Told(s, 1..(l - 1)) \cup Told(s, {l})) \cup Told(s, (l + 1)..m)
  <2> DEFINE before == 1..(l - 1)
             after  == (l + 1)..m
             all    == 1..m
  <2>1. all = (before \cup {l}) \cup after
    BY <1>4
  <2> HIDE DEF before, after, all, s
  <2>2. Told(s, (before \cup {l}) \cup after) = Told(s, before \cup {l}) \cup Told(s, after)
    BY ToldJoined
  <2>3. Told(s, before \cup {l}) = Told(s, before) \cup Told(s, {l})
    BY ToldJoined
  <2>4. Told(s, all) = (Told(s, before) \cup Told(s, {l})) \cup Told(s, after)
    BY <2>1, <2>2, <2>3
  <2> QED BY <2>4 DEF before, after, all
<1>7. Told(s, {l}) = Promise!FactsOf(ProgramName(s), s, l)
  BY ToldOne
<1> HIDE DEF s
<1> QED BY <1>5, <1>6, <1>7 DEF s

-----------------------------------------------------------------------------
(* What each rule of the tree tells *)

Shaped(s, shape) == {l \in 1..Len(s) : s[l].shape = shape}

\* The program's own statements are found, and only those without a copybook.
LEMMA FoundOwn ==
  ASSUME file \in Files
  PROVE  /\ \A shape : \A f \in Tree!Found(shape) : f.book = Absent =>
              /\ f.text = file.lines /\ f.line \in 1..Len(file.lines)
              /\ file.lines[f.line].shape = shape /\ file.lines[f.line].real
         /\ \A l \in 1..Len(file.lines) : file.lines[l].real =>
              \E f \in Tree!Found(file.lines[l].shape) : f.text = file.lines /\ f.book = Absent /\ f.line = l
<1>1. ASSUME NEW shape, NEW f \in Tree!Found(shape), f.book = Absent
      PROVE  /\ f.text = file.lines /\ f.line \in 1..Len(file.lines)
             /\ file.lines[f.line].shape = shape /\ file.lines[f.line].real
  <2>1. f.text = file.lines
    BY <1>1, FoundIn DEF TextOf
  <2>2. f.line \in 1..Len(f.text) /\ f.text[f.line].shape = shape /\ f.text[f.line].real
    BY FoundIn
  <2> QED BY <2>1, <2>2
<1>2. ASSUME NEW l \in 1..Len(file.lines), file.lines[l].real
      PROVE  \E f \in Tree!Found(file.lines[l].shape) : f.text = file.lines /\ f.book = Absent /\ f.line = l
  <2> DEFINE f == [text |-> file.lines, book |-> Absent, line |-> l]
  <2>1. l \in Tree!Statements(file.lines, file.lines[l].shape)
    BY <1>2 DEF Tree!Statements
  <2>2. f \in Tree!Found(file.lines[l].shape)
    BY <2>1 DEF Tree!Found, Tree!lines
  <2> QED BY <2>2
<1> QED BY <1>1, <1>2

\* Lines that are no batch I/O are real statements.
LEMMA ShapedReal ==
  ASSUME file \in Files, NEW l \in 1..Len(file.lines), file.lines[l].shape # "io"
  PROVE  file.lines[l].real
BY SourceHas, LineHas

LEMMA SelectsTold ==
  ASSUME file \in Files
  PROVE  OwnOf(file.lines, SelectsFound(ProgramName(file.lines)))
         = Told(file.lines, Shaped(file.lines, "select"))
<1> DEFINE s == file.lines
           p == ProgramName(s)
<1>1. \A l \in Shaped(s, "select") : OwnOf(s, Selected(p, s, Absent, l)) = Promise!FactsOf(p, s, l)
  BY LineTold DEF Shaped
<1>2. \A o : o \in Told(s, Shaped(s, "select"))
              <=> \E l \in Shaped(s, "select") : o \in Promise!FactsOf(p, s, l)
  BY DEF Told
<1>3. \A a, o : o \in OwnOf(s, a) <=> o \in a /\ o.source = Absent /\ (s[o.line].shape = "io" => s[o.line].real)
  BY DEF OwnOf
<1>4. \A o : o \in SelectsFound(p) <=> \E f \in Tree!Found("select") : o \in Selected(p, f.text, f.book, f.line)
  BY DEF SelectsFound
<1> HIDE DEF s, p
<1>5. ASSUME NEW o, o \in OwnOf(s, SelectsFound(p))
      PROVE  o \in Told(s, Shaped(s, "select"))
  <2>1. PICK f \in Tree!Found("select") : o \in Selected(p, f.text, f.book, f.line)
    BY <1>3, <1>4, <1>5
  <2>2. o.source = f.book /\ o.line = f.line
    BY <2>1, ObservedAt
  <2>3. f.book = Absent
    BY <1>3, <1>5, <2>2
  <2>4. f.text = s /\ f.line \in 1..Len(s) /\ s[f.line].shape = "select"
    BY <2>3, FoundOwn DEF s
  <2>5. f.line \in Shaped(s, "select")
    BY <2>4 DEF Shaped
  <2>6. o \in Selected(p, s, Absent, f.line)
    BY <2>1, <2>3, <2>4
  <2>7. o \in Promise!FactsOf(p, s, f.line)
    BY <1>1, <1>3, <1>5, <2>5, <2>6
  <2> QED BY <1>2, <2>5, <2>7
<1>6. ASSUME NEW o, o \in Told(s, Shaped(s, "select"))
      PROVE  o \in OwnOf(s, SelectsFound(p))
  <2>1. PICK l \in Shaped(s, "select") : o \in Promise!FactsOf(p, s, l)
    BY <1>2, <1>6
  <2>2. o \in Selected(p, s, Absent, l) /\ o.source = Absent /\ (s[o.line].shape = "io" => s[o.line].real)
    BY <1>1, <1>3, <2>1
  <2>3. o.line = l /\ l \in 1..Len(s) /\ s[l].shape = "select"
    BY <2>2, ObservedAt DEF Shaped
  <2>4. s[l].real
    BY <2>2, <2>3, ShapedReal DEF s
  <2>5. PICK f \in Tree!Found("select") : f.text = s /\ f.book = Absent /\ f.line = l
    BY <2>3, <2>4, FoundOwn DEF s
  <2>6. o \in SelectsFound(p)
    BY <1>4, <2>2, <2>5
  <2> QED BY <1>3, <2>2, <2>6
<1>7. OwnOf(s, SelectsFound(p)) = Told(s, Shaped(s, "select"))
  BY <1>5, <1>6
<1> QED BY <1>7 DEF s, p

LEMMA CallsTold ==
  ASSUME file \in Files
  PROVE  OwnOf(file.lines, CallsFound(ProgramName(file.lines)))
         = Told(file.lines, Shaped(file.lines, "call"))
<1> DEFINE s == file.lines
           p == ProgramName(s)
<1>1. \A l \in Shaped(s, "call") : OwnOf(s, Called(p, s, Absent, l)) = Promise!FactsOf(p, s, l)
  BY LineTold DEF Shaped
<1>2. \A o : o \in Told(s, Shaped(s, "call"))
              <=> \E l \in Shaped(s, "call") : o \in Promise!FactsOf(p, s, l)
  BY DEF Told
<1>3. \A a, o : o \in OwnOf(s, a) <=> o \in a /\ o.source = Absent /\ (s[o.line].shape = "io" => s[o.line].real)
  BY DEF OwnOf
<1>4. \A o : o \in CallsFound(p) <=> \E f \in Tree!Found("call") : o \in Called(p, f.text, f.book, f.line)
  BY DEF CallsFound
<1> HIDE DEF s, p
<1>5. ASSUME NEW o, o \in OwnOf(s, CallsFound(p))
      PROVE  o \in Told(s, Shaped(s, "call"))
  <2>1. PICK f \in Tree!Found("call") : o \in Called(p, f.text, f.book, f.line)
    BY <1>3, <1>4, <1>5
  <2>2. o.source = f.book /\ o.line = f.line
    BY <2>1, ObservedAt
  <2>3. f.book = Absent
    BY <1>3, <1>5, <2>2
  <2>4. f.text = s /\ f.line \in 1..Len(s) /\ s[f.line].shape = "call"
    BY <2>3, FoundOwn DEF s
  <2>5. f.line \in Shaped(s, "call")
    BY <2>4 DEF Shaped
  <2>6. o \in Called(p, s, Absent, f.line)
    BY <2>1, <2>3, <2>4
  <2>7. o \in Promise!FactsOf(p, s, f.line)
    BY <1>1, <1>3, <1>5, <2>5, <2>6
  <2> QED BY <1>2, <2>5, <2>7
<1>6. ASSUME NEW o, o \in Told(s, Shaped(s, "call"))
      PROVE  o \in OwnOf(s, CallsFound(p))
  <2>1. PICK l \in Shaped(s, "call") : o \in Promise!FactsOf(p, s, l)
    BY <1>2, <1>6
  <2>2. o \in Called(p, s, Absent, l) /\ o.source = Absent /\ (s[o.line].shape = "io" => s[o.line].real)
    BY <1>1, <1>3, <2>1
  <2>3. o.line = l /\ l \in 1..Len(s) /\ s[l].shape = "call"
    BY <2>2, ObservedAt DEF Shaped
  <2>4. s[l].real
    BY <2>2, <2>3, ShapedReal DEF s
  <2>5. PICK f \in Tree!Found("call") : f.text = s /\ f.book = Absent /\ f.line = l
    BY <2>3, <2>4, FoundOwn DEF s
  <2>6. o \in CallsFound(p)
    BY <1>4, <2>2, <2>5
  <2> QED BY <1>3, <2>2, <2>6
<1>7. OwnOf(s, CallsFound(p)) = Told(s, Shaped(s, "call"))
  BY <1>5, <1>6
<1> QED BY <1>7 DEF s, p

LEMMA IoTold ==
  ASSUME file \in Files, WellFormed(file)
  PROVE  OwnOf(file.lines, IoFound(ProgramName(file.lines), RecordFiles(file.lines, Len(file.lines) + 1)))
         = Told(file.lines, Shaped(file.lines, "io"))
<1> DEFINE s == file.lines
           p == ProgramName(s)
           r == RecordFiles(s, Len(s) + 1)
<1>1. \A l \in Shaped(s, "io") : OwnOf(s, Accessed(p, s, r, Absent, l)) = Promise!FactsOf(p, s, l)
  <2>1. ASSUME NEW l \in Shaped(s, "io")
        PROVE  OwnOf(s, Accessed(p, s, r, Absent, l)) = Promise!FactsOf(p, s, l)
    <3>1. l \in 1..Len(s) /\ s[l].shape = "io"
      BY DEF Shaped
    <3>2. In(s, l, "PROCEDURE-DIVISION")
      BY <3>1 DEF WellFormed
    <3>3. r = RecordFiles(s, l)
      BY <3>1, <3>2, ProcedureIsLast
    <3>4. OwnOf(s, Accessed(p, s, RecordFiles(s, l), Absent, l)) = Promise!FactsOf(p, s, l)
      BY <3>1, LineTold
    <3> HIDE DEF r
    <3> QED BY <3>3, <3>4
  <2> QED BY <2>1
<1>2. \A o : o \in Told(s, Shaped(s, "io"))
              <=> \E l \in Shaped(s, "io") : o \in Promise!FactsOf(p, s, l)
  BY DEF Told
<1>3. \A a, o : o \in OwnOf(s, a) <=> o \in a /\ o.source = Absent /\ (s[o.line].shape = "io" => s[o.line].real)
  BY DEF OwnOf
<1>4. \A o : o \in IoFound(p, r) <=> \E f \in Tree!Found("io") : o \in Accessed(p, f.text, r, f.book, f.line)
  BY DEF IoFound
<1> HIDE DEF s, p, r
<1>5. ASSUME NEW o, o \in OwnOf(s, IoFound(p, r))
      PROVE  o \in Told(s, Shaped(s, "io"))
  <2>1. PICK f \in Tree!Found("io") : o \in Accessed(p, f.text, r, f.book, f.line)
    BY <1>3, <1>4, <1>5
  <2>2. o.source = f.book /\ o.line = f.line
    BY <2>1, ObservedAt
  <2>3. f.book = Absent
    BY <1>3, <1>5, <2>2
  <2>4. f.text = s /\ f.line \in 1..Len(s) /\ s[f.line].shape = "io"
    BY <2>3, FoundOwn DEF s
  <2>5. f.line \in Shaped(s, "io")
    BY <2>4 DEF Shaped
  <2>6. o \in Accessed(p, s, r, Absent, f.line)
    BY <2>1, <2>3, <2>4
  <2>7. o \in Promise!FactsOf(p, s, f.line)
    BY <1>1, <1>3, <1>5, <2>5, <2>6
  <2> QED BY <1>2, <2>5, <2>7
<1>6. ASSUME NEW o, o \in Told(s, Shaped(s, "io"))
      PROVE  o \in OwnOf(s, IoFound(p, r))
  <2>1. PICK l \in Shaped(s, "io") : o \in Promise!FactsOf(p, s, l)
    BY <1>2, <1>6
  <2>2. o \in Accessed(p, s, r, Absent, l) /\ o.source = Absent /\ (s[o.line].shape = "io" => s[o.line].real)
    BY <1>1, <1>3, <2>1
  <2>3. o.line = l /\ l \in 1..Len(s) /\ s[l].shape = "io"
    BY <2>2, ObservedAt DEF Shaped
  <2>4. s[l].real
    BY <2>2, <2>3, ShapedReal DEF s
  <2>5. PICK f \in Tree!Found("io") : f.text = s /\ f.book = Absent /\ f.line = l
    BY <2>3, <2>4, FoundOwn DEF s
  <2>6. o \in IoFound(p, r)
    BY <1>4, <2>2, <2>5
  <2> QED BY <1>3, <2>2, <2>6
<1>7. OwnOf(s, IoFound(p, r)) = Told(s, Shaped(s, "io"))
  BY <1>5, <1>6
<1> QED BY <1>7 DEF s, p, r

LEMMA CicsTold ==
  ASSUME file \in Files
  PROVE  OwnOf(file.lines, CicsFound(ProgramName(file.lines), WsConstants(file.lines)))
         = Told(file.lines, Shaped(file.lines, "cics"))
<1> DEFINE s == file.lines
           p == ProgramName(s)
           c == WsConstants(s)
<1>1. \A l \in Shaped(s, "cics") : OwnOf(s, Commanded(p, c, s, Absent, l)) = Promise!FactsOf(p, s, l)
  BY LineTold DEF Shaped
<1>2. \A o : o \in Told(s, Shaped(s, "cics"))
              <=> \E l \in Shaped(s, "cics") : o \in Promise!FactsOf(p, s, l)
  BY DEF Told
<1>3. \A a, o : o \in OwnOf(s, a) <=> o \in a /\ o.source = Absent /\ (s[o.line].shape = "io" => s[o.line].real)
  BY DEF OwnOf
<1>4. \A o : o \in CicsFound(p, c) <=> \E f \in Tree!Found("cics") : o \in Commanded(p, c, f.text, f.book, f.line)
  BY DEF CicsFound
<1> HIDE DEF s, p, c
<1>5. ASSUME NEW o, o \in OwnOf(s, CicsFound(p, c))
      PROVE  o \in Told(s, Shaped(s, "cics"))
  <2>1. PICK f \in Tree!Found("cics") : o \in Commanded(p, c, f.text, f.book, f.line)
    BY <1>3, <1>4, <1>5
  <2>2. o.source = f.book /\ o.line = f.line
    BY <2>1, ObservedAt
  <2>3. f.book = Absent
    BY <1>3, <1>5, <2>2
  <2>4. f.text = s /\ f.line \in 1..Len(s) /\ s[f.line].shape = "cics"
    BY <2>3, FoundOwn DEF s
  <2>5. f.line \in Shaped(s, "cics")
    BY <2>4 DEF Shaped
  <2>6. o \in Commanded(p, c, s, Absent, f.line)
    BY <2>1, <2>3, <2>4
  <2>7. o \in Promise!FactsOf(p, s, f.line)
    BY <1>1, <1>3, <1>5, <2>5, <2>6
  <2> QED BY <1>2, <2>5, <2>7
<1>6. ASSUME NEW o, o \in Told(s, Shaped(s, "cics"))
      PROVE  o \in OwnOf(s, CicsFound(p, c))
  <2>1. PICK l \in Shaped(s, "cics") : o \in Promise!FactsOf(p, s, l)
    BY <1>2, <1>6
  <2>2. o \in Commanded(p, c, s, Absent, l) /\ o.source = Absent /\ (s[o.line].shape = "io" => s[o.line].real)
    BY <1>1, <1>3, <2>1
  <2>3. o.line = l /\ l \in 1..Len(s) /\ s[l].shape = "cics"
    BY <2>2, ObservedAt DEF Shaped
  <2>4. s[l].real
    BY <2>2, <2>3, ShapedReal DEF s
  <2>5. PICK f \in Tree!Found("cics") : f.text = s /\ f.book = Absent /\ f.line = l
    BY <2>3, <2>4, FoundOwn DEF s
  <2>6. o \in CicsFound(p, c)
    BY <1>4, <2>2, <2>5
  <2> QED BY <1>3, <2>2, <2>6
<1>7. OwnOf(s, CicsFound(p, c)) = Told(s, Shaped(s, "cics"))
  BY <1>5, <1>6
<1> QED BY <1>7 DEF s, p, c

-----------------------------------------------------------------------------
(* How far the readers have come *)

\* The rules of the tree that are done at stage st, and the lines they have told: the
\* walk for COPY, a rule of its own, those before line l
RulesDone(st) ==
  (IF st \in {"calls", "copies", "io", "cics", "done"} THEN {"select"} ELSE {})
  \cup (IF st \in {"copies", "io", "cics", "done"} THEN {"call"} ELSE {})
  \cup (IF st \in {"cics", "done"} THEN {"io"} ELSE {})
  \cup (IF st = "done" THEN {"cics"} ELSE {})

TreeLines(s, st, l) == {k \in 1..Len(s) : s[k].shape \in RulesDone(st) \/ (s[k].shape = "copy" /\ k < l)}

Early    == {"built", "expand", "dump", "trace", "declare", "refused"}
Emitting == {"files", "calls", "copies", "io", "cics", "done"}

\* The walk for COPY begins and ends in its own turn.
StageInv ==
  /\ stage \in Early \cup {"files", "calls"} => treeAt = 1
  /\ stage \in {"io", "cics", "done"} => treeAt = Len(file.lines) + 1

\* What each reader has told of a program that compiles: its declaration, and the
\* lines the rules done so far are about, or the lines walked so far.
ToldInv ==
  WellFormed(file) =>
    /\ reader = "tree" /\ stage \in Emitting =>
         Own = Declared(file.lines) \cup Told(file.lines, TreeLines(file.lines, stage, treeAt))
    /\ reader = "patterns" /\ at > 0 =>
         Own = Declared(file.lines) \cup Told(file.lines, 1..(at - 1))

LEMMA StagesAre ==
  Tree!Stages = Early \cup Emitting /\ Early \cap Emitting = {}
BY DEF Tree!Stages, Early, Emitting

LEMMA StageInit ==
  Init => StageInv /\ ToldInv
<1> SUFFICES ASSUME Init PROVE StageInv /\ ToldInv
  OBVIOUS
<1>1. stage = "built" /\ treeAt = 1 /\ at = 0
  BY DEF Init, Patterns!Init
<1> QED BY <1>1 DEF StageInv, ToldInv, Emitting

LEMMA AdapterKeepsTold ==
  ReadInv /\ StageInv /\ ToldInv /\ (FallBack \/ Fail \/ UNCHANGED vars) => StageInv' /\ ToldInv'
<1> SUFFICES ASSUME ReadInv, StageInv, ToldInv, FallBack \/ Fail \/ UNCHANGED vars
             PROVE  StageInv' /\ ToldInv'
  OBVIOUS
<1>1. /\ file' = file /\ out' = out /\ at' = at /\ stage' = stage /\ treeAt' = treeAt
      /\ \/ reader' = reader
         \/ reader = "tree" /\ reader' \in {"patterns", "nobody"}
  BY DEF FallBack, Fail, vars, treeVars, patternVars
<1>2. Own' = Own
  BY <1>1, OwnIs, OwnIsNext
<1>3. reader = "tree" => at = 0
  BY TypesOf DEF ReadInv
<1>4. StageInv'
  BY <1>1 DEF StageInv
<1>5. ToldInv'
  <2>1. CASE reader' = reader
    BY <1>1, <1>2, <2>1 DEF ToldInv
  <2>2. CASE reader = "tree" /\ reader' \in {"patterns", "nobody"}
    <3>1. reader' # "tree" /\ ~(at' > 0)
      BY <1>1, <1>3, <2>2
    <3> QED BY <3>1 DEF ToldInv
  <2> QED BY <1>1, <2>1, <2>2
<1> QED BY <1>4, <1>5

\* The walk on patterns tells the lines in their order.
LEMMA PatternsKeepTold ==
  ReadInv /\ ContextInv /\ StageInv /\ ToldInv /\ ReadPatterns => StageInv' /\ ToldInv'
<1> SUFFICES ASSUME ReadInv, ContextInv, StageInv, ToldInv, ReadPatterns
             PROVE  StageInv' /\ ToldInv'
  OBVIOUS
<1> DEFINE s == file.lines
           p == ProgramName(s)
<1>1. /\ Patterns!Next /\ reader = "patterns" /\ reader' = reader /\ stage' = stage /\ treeAt' = treeAt
  BY DEF ReadPatterns, treeVars
<1>2. file' = file
  BY DEF ReadPatterns, Patterns!Next, Patterns!Prepare, Patterns!ReadFd, Patterns!ReadSd,
         Patterns!ReadRecord, Patterns!ReadCopy, Patterns!ReadSelect, Patterns!ReadCall, Patterns!ReadIo,
         Patterns!ReadCics, Patterns!SkipLine, Patterns!Read
<1>3. StageInv'
  BY <1>1, <1>2 DEF StageInv
<1>4. CASE ~WellFormed(file)
  BY <1>2, <1>3, <1>4 DEF ToldInv
<1>5. CASE WellFormed(file)
  <2>1. /\ file \in Files /\ at \in 0..(Len(s) + 1) /\ file.role = "program" /\ p # Absent
        /\ at > 0 => /\ program = p /\ constants = WsConstants(s)
                     /\ Remembered(s, at, fd, record) /\ recordFd = RecordFiles(s, at)
                     /\ Own = Declared(s) \cup Told(s, 1..(at - 1))
        /\ at = 0 => out = {}
    BY <1>1, <1>5, TypesOf DEF ReadInv, ContextInv, ToldInv, WellFormed
  <2>2. s \in Seq(Line) /\ Len(s) \in Nat /\ \A l \in 1..Len(s) : s[l] \in Line
    BY <2>1, SourceHas
  <2>3. Patterns!IsProgram /\ Patterns!lines = s
    BY <2>1 DEF Patterns!IsProgram, Patterns!lines
  <2>4. ASSUME at' > 0, Own' = Declared(s) \cup Told(s, 1..(at' - 1))
        PROVE  ToldInv'
    BY <1>1, <1>2, <2>4 DEF ToldInv
  <2>5. CASE Patterns!Prepare
    <3>1. at = 0 /\ at' = 1 /\ out' = out \cup Patterns!Presence
      BY <2>5 DEF Patterns!Prepare
    <3>2. Patterns!Presence = Declared(s)
      <4>1. Patterns!ProgramName(s) = p
        BY PatternsRead
      <4>2. Patterns!Entity("Program", Patterns!ProgramId(p), Absent,
                            Patterns!Least({k \in 1..Len(s) : s[k].shape = "program-id"}))
            = Entity("Program", ProgramId(p), Absent, Least(ProgramIds(s)))
        BY DEF Patterns!Entity, Entity, Patterns!ProgramId, ProgramId, Patterns!Least, Least, ProgramIds
      <4> QED BY <2>1, <2>3, <4>1, <4>2 DEF Patterns!Presence, Declared
    <3>3. OwnOf(s, Declared(s)) = Declared(s)
      <4>1. ProgramIds(s) # {}
        BY <2>1 DEF ProgramName, ProgramIds
      <4>2. ProgramIds(s) \in SUBSET Nat
        BY DEF ProgramIds
      <4>3. Least(ProgramIds(s)) \in ProgramIds(s)
        BY <4>1, <4>2, LeastExists
      <4>4. s[Least(ProgramIds(s))].shape = "program-id"
        BY <4>3 DEF ProgramIds
      <4> QED BY <4>4 DEF OwnOf, Declared, Entity
    <3>4. Own' = Declared(s)
      BY <1>2, <2>1, <3>1, <3>2, <3>3, OwnIsNext, OwnJoined
    <3>5. Told(s, 1..(at' - 1)) = {}
      BY <3>1, ToldSilent
    <3>6. at' > 0 /\ Own' = Declared(s) \cup Told(s, 1..(at' - 1))
      BY <3>1, <3>4, <3>5
    <3> QED BY <1>3, <2>4, <3>6
  <2>6. ASSUME NEW observed, NEW last, Patterns!Read(observed, last), at \in 1..Len(s),
               \/ s[at].shape = "copy" /\ last = EndOfCopy(s, at)
               \/ s[at].shape = "cics" /\ last = EndOfBlock(s, at)
               \/ last = at,
               OwnOf(s, observed) = Promise!FactsOf(p, s, at)
        PROVE  ToldInv'
    <3>1. out' = out \cup observed /\ at' = last + 1 /\ at > 0
      BY <2>6 DEF Patterns!Read
    <3>2. last \in Nat
      BY <2>2, <2>6, EndsStay
    <3>3. Own' = Own \cup Promise!FactsOf(p, s, at)
      BY <1>2, <2>6, <3>1, OwnIs, OwnIsNext, OwnJoined
    <3>4. Told(s, 1..last) = Told(s, 1..(at - 1)) \cup Promise!FactsOf(p, s, at)
      BY <1>5, <2>1, <2>6, ToldUpTo
    <3>5. at' - 1 = last /\ at' > 0
      BY <3>1, <3>2
    <3>6. Own' = Declared(s) \cup Told(s, 1..last)
      BY <2>1, <3>1, <3>3, <3>4
    <3> QED BY <2>4, <3>5, <3>6
  <2>7. ASSUME NEW shapes, Patterns!Stands(shapes)
        PROVE  /\ at \in 1..Len(s) /\ s[at].shape \in shapes /\ at > 0
               /\ program = p /\ constants = WsConstants(s) /\ recordFd = RecordFiles(s, at)
               /\ Remembered(s, at, fd, record)
    <3>1. at \in 1..Len(s) /\ s[at].shape \in shapes
      BY <2>3, <2>7 DEF Patterns!Stands
    <3>2. at > 0
      BY <3>1
    <3> QED BY <2>1, <3>1, <3>2
  <2>8. ASSUME Patterns!Read({}, at), at \in 1..Len(s), Promise!FactsOf(p, s, at) = {}
        PROVE  ToldInv'
    BY <2>6, <2>8, OwnJoined
  <2>9. CASE Patterns!ReadFd \/ Patterns!ReadSd \/ Patterns!ReadRecord
    <3>1. Patterns!Read({}, at) /\ at \in 1..Len(s) /\ s[at].shape \in {"fd", "sd", "record"}
      BY <2>7, <2>9 DEF Patterns!ReadFd, Patterns!ReadSd, Patterns!ReadRecord
    <3>2. Promise!FactsOf(p, s, at) = {}
      BY <3>1, LineSilent
    <3> QED BY <1>3, <2>8, <3>1, <3>2
  <2>10. CASE Patterns!ReadSelect
    <3>1. at \in 1..Len(s) /\ s[at].shape = "select" /\ program = p
      BY <2>7, <2>10 DEF Patterns!ReadSelect
    <3>2. Patterns!Read(Selected(p, s, Absent, at), at)
      BY <2>1, <2>3, <2>10, <3>1, PatternsObserve DEF Patterns!ReadSelect
    <3>3. OwnOf(s, Selected(p, s, Absent, at)) = Promise!FactsOf(p, s, at)
      BY <3>1, LineTold
    <3> QED BY <1>3, <2>6, <3>1, <3>2, <3>3
  <2>11. CASE Patterns!ReadCall
    <3>1. at \in 1..Len(s) /\ s[at].shape = "call" /\ program = p
      BY <2>7, <2>11 DEF Patterns!ReadCall
    <3>2. Patterns!Read(Called(p, s, Absent, at), at)
      BY <2>3, <2>11, <3>1, PatternsObserve DEF Patterns!ReadCall
    <3>3. OwnOf(s, Called(p, s, Absent, at)) = Promise!FactsOf(p, s, at)
      BY <3>1, LineTold
    <3> QED BY <1>3, <2>6, <3>1, <3>2, <3>3
  <2>12. CASE Patterns!ReadIo
    <3>1. at \in 1..Len(s) /\ s[at].shape = "io" /\ program = p /\ recordFd = RecordFiles(s, at)
      BY <2>7, <2>12 DEF Patterns!ReadIo
    <3>2. Patterns!Read(Accessed(p, s, RecordFiles(s, at), Absent, at), at)
      BY <2>1, <2>3, <2>12, <3>1, PatternsObserve DEF Patterns!ReadIo
    <3>3. OwnOf(s, Accessed(p, s, RecordFiles(s, at), Absent, at)) = Promise!FactsOf(p, s, at)
      BY <3>1, LineTold
    <3> QED BY <1>3, <2>6, <3>1, <3>2, <3>3
  <2>13. CASE Patterns!ReadCics
    <3>1. at \in 1..Len(s) /\ s[at].shape = "cics" /\ program = p /\ constants = WsConstants(s)
      BY <2>7, <2>13 DEF Patterns!ReadCics
    <3>2. Patterns!Read(Commanded(p, WsConstants(s), s, Absent, at), EndOfBlock(s, at))
      BY <2>3, <2>13, <3>1, PatternsObserve, PatternsRead DEF Patterns!ReadCics
    <3>3. OwnOf(s, Commanded(p, WsConstants(s), s, Absent, at)) = Promise!FactsOf(p, s, at)
      BY <3>1, LineTold
    <3> QED BY <1>3, <2>6, <3>1, <3>2, <3>3
  <2>14. CASE Patterns!ReadCopy
    <3> DEFINE a == fd # Absent /\ record # Absent
    <3>1. at \in 1..Len(s) /\ s[at].shape = "copy" /\ program = p /\ Remembered(s, at, fd, record)
      BY <2>7, <2>14 DEF Patterns!ReadCopy
    <3>2. Patterns!SelfId = ProgramId(p)
      BY <2>3, <3>1 DEF Patterns!SelfId, Patterns!ProgramId, ProgramId
    <3>3. Patterns!Read(Copied(ProgramId(p), p, fd, a, s, at), EndOfCopy(s, at))
      BY <2>3, <2>14, <3>1, <3>2, PatternsObserve, PatternsRead DEF Patterns!ReadCopy
    <3>4. fd = DescribedAt(s, at) /\ a = InRecordArea(s, at)
      BY <3>1 DEF Remembered, InRecordArea
    <3>5. OwnOf(s, Copied(ProgramId(p), p, fd, a, s, at)) = Promise!FactsOf(p, s, at)
      BY <3>1, <3>4, LineTold
    <3> QED BY <1>3, <2>6, <3>1, <3>3, <3>5
  <2>15. CASE Patterns!SkipLine
    <3>1. Patterns!Read({}, at) /\ Patterns!Ignored
      BY <2>15 DEF Patterns!SkipLine
    <3>2. at \in 1..Len(s) /\ program = p
      BY <2>7, <3>1 DEF Patterns!Ignored
    <3>3. \A sections : Patterns!InSection(sections) <=> SectionAt(s, at) \in sections
      BY <2>3, PatternsRead DEF Patterns!InSection
    <3>4. /\ s[at].shape = "select" => SectionAt(s, at) = "FILE-CONTROL"
          /\ s[at].shape \in {"call", "io", "cics"} => SectionAt(s, at) = "PROCEDURE-DIVISION"
      BY <1>5, <3>2 DEF WellFormed, In
    <3>5. Patterns!HasSelf
      BY <2>1, <3>2 DEF Patterns!HasSelf
    <3>6. s[at].shape \notin {"select", "call", "io", "cics", "copy"}
      BY <2>3, <2>7, <3>1, <3>3, <3>4, <3>5 DEF Patterns!Ignored
    <3>7. Promise!FactsOf(p, s, at) = {}
      BY <3>6, LineSilent
    <3> QED BY <1>3, <2>8, <3>1, <3>2, <3>7
  <2> QED BY <1>1, <2>5, <2>9, <2>10, <2>11, <2>12, <2>13, <2>14, <2>15 DEF Patterns!Next
<1> QED BY <1>4, <1>5

\* The lines the walk of the tree has told grow by a COPY it takes.
LEMMA WalkLines ==
  ASSUME NEW f \in Files, WellFormed(f), NEW l \in 1..Len(f.lines), f.lines[l].shape = "copy"
  PROVE  \A st : TreeLines(f.lines, st, EndOfCopy(f.lines, l) + 1) = TreeLines(f.lines, st, l) \cup {l}
<1> DEFINE s == f.lines
           m == EndOfCopy(s, l)
<1>1. s \in Seq(Line)
  BY SourceHas
<1>2. m \in Nat /\ l <= m /\ l \in Nat
  BY <1>1, EndsStay
<1>3. ASSUME NEW k \in 1..Len(s), s[k].shape = "copy"
      PROVE  k < m + 1 <=> k < l \/ k = l
  <2>1. k \in Nat
    OBVIOUS
  <2>2. ASSUME l < k, k <= m PROVE FALSE
    <3>1. s[k].shape = "text"
      BY <2>1, <2>2, TextAfter
    <3> QED BY <1>3, <3>1
  <2> HIDE DEF m
  <2> QED BY <1>2, <2>1, <2>2
<1> HIDE DEF m
<1>4. \A st : TreeLines(s, st, m + 1) = TreeLines(s, st, l) \cup {l}
  BY <1>3 DEF TreeLines
<1> QED BY <1>4 DEF m

\* The rules of the tree tell their statements one rule after the other.
LEMMA TreeKeepsTold ==
  ReadInv /\ ContextInv /\ StageInv /\ ToldInv /\ ReadTree => StageInv' /\ ToldInv'
<1> SUFFICES ASSUME ReadInv, ContextInv, StageInv, ToldInv, ReadTree
             PROVE  StageInv' /\ ToldInv'
  OBVIOUS
<1> DEFINE s == file.lines
           p == ProgramName(s)
<1>1. Tree!Next /\ reader = "tree" /\ reader' = reader
  BY DEF ReadTree
<1>2. /\ file \in Files /\ treeAt \in 1..(Len(s) + 1) /\ file.role = "program"
      /\ stage \in Early => out = {}
      /\ Len(s) \in Nat /\ s \in Seq(Line)
  <2>1. file \in Files /\ treeAt \in 1..(Len(s) + 1) /\ file.role = "program" /\ at = 0
        /\ (stage \in {"built", "expand", "dump", "trace", "declare", "refused"} => out = {})
    BY <1>1, TypesOf DEF ReadInv
  <2> QED BY <2>1, SourceHas DEF Early
<1>3. ASSUME WellFormed(file)
      PROVE  /\ p # Absent /\ Tree!program = p /\ Tree!lines = s /\ Tree!constants = WsConstants(s)
             /\ Tree!recordFd = RecordFiles(s, Len(s) + 1)
             /\ Remembered(s, treeAt, treeFd, treeRecord)
             /\ stage \in Emitting => Own = Declared(s) \cup Told(s, TreeLines(s, stage, treeAt))
  BY <1>1, <1>3, TreeReads DEF WellFormed, Tree!program, Tree!lines, Tree!constants, Tree!recordFd,
     ContextInv, ToldInv
<1>4. ASSUME file' = file,
             WellFormed(file) /\ stage' \in Emitting =>
               Own' = Declared(s) \cup Told(s, TreeLines(s, stage', treeAt'))
      PROVE  ToldInv'
  BY <1>1, <1>4 DEF ToldInv
<1>5. CASE Tree!EnsureBuilt \/ Tree!CallTree \/ Tree!ParseTempTree \/ Tree!Preresolve
  <2>1. /\ file' = file /\ treeAt' = treeAt /\ stage \in Early /\ stage' \in Early
    BY <1>5 DEF Tree!EnsureBuilt, Tree!CallTree, Tree!ParseTempTree, Tree!Preresolve, Tree!Attempt, Early
  <2>2. stage' \notin Emitting
    BY <2>1, StagesAre
  <2>3. StageInv'
    BY <2>1 DEF StageInv, Early
  <2> QED BY <1>4, <2>1, <2>2, <2>3
<1>6. CASE Tree!EmitProgramId
  <2>1. /\ file' = file /\ treeAt' = treeAt /\ stage = "declare" /\ stage' = "files"
        /\ out' = out \cup (IF Tree!Statements(s, "program-id") = {} THEN {}
                            ELSE {Tree!Entity("Program", Tree!ProgramId(Tree!program), Absent,
                                              Tree!Least(Tree!Statements(s, "program-id")))})
    BY <1>6 DEF Tree!EmitProgramId, Tree!Emit, Tree!lines
  <2>2. StageInv'
    BY <2>1 DEF StageInv, Early
  <2>3. ASSUME WellFormed(file)
        PROVE  Own' = Declared(s) \cup Told(s, TreeLines(s, stage', treeAt'))
    <3>1. Tree!Statements(s, "program-id") = ProgramIds(s)
      BY <1>2, ShapedReal DEF Tree!Statements, ProgramIds
    <3>2. ProgramIds(s) # {} /\ ProgramIds(s) \in SUBSET Nat
      BY <1>3, <2>3 DEF ProgramName, ProgramIds
    <3>3. Tree!Entity("Program", Tree!ProgramId(p), Absent, Tree!Least(ProgramIds(s)))
          = Entity("Program", ProgramId(p), Absent, Least(ProgramIds(s)))
      BY DEF Tree!Entity, Entity, Tree!ProgramId, ProgramId, Tree!Least, Least
    <3>4. out' = Declared(s)
      BY <1>2, <1>3, <2>1, <2>3, <3>1, <3>2, <3>3 DEF Declared, Early
    <3>5. Least(ProgramIds(s)) \in ProgramIds(s)
      BY <3>2, LeastExists
    <3>6. s[Least(ProgramIds(s))].shape = "program-id"
      BY <3>5 DEF ProgramIds
    <3>7. OwnOf(s, Declared(s)) = Declared(s)
      BY <3>6 DEF OwnOf, Declared, Entity
    <3>8. TreeLines(s, "files", 1) = {}
      BY DEF TreeLines, RulesDone
    <3>9. treeAt' = 1
      BY <2>1 DEF StageInv, Early
    <3>10. Told(s, TreeLines(s, stage', treeAt')) = {}
      BY <2>1, <3>8, <3>9, ToldSilent
    <3>11. Own' = Declared(s)
      BY <2>1, <3>4, <3>7, OwnIsNext
    <3> QED BY <3>10, <3>11
  <2> QED BY <1>4, <2>1, <2>2, <2>3
<1>7. ASSUME NEW from, NEW observed, NEW to, NEW shape, Tree!Emit(from, observed, to),
             from \in Emitting, RulesDone(to) = RulesDone(from) \cup {shape},
             WellFormed(file) => OwnOf(s, observed) = Told(s, Shaped(s, shape))
      PROVE  ToldInv' /\ stage = from /\ stage' = to /\ treeAt' = treeAt /\ file' = file
  <2>1. /\ stage = from /\ stage' = to /\ out' = out \cup observed /\ treeAt' = treeAt /\ file' = file
    BY <1>7 DEF Tree!Emit
  <2>2. ASSUME WellFormed(file)
        PROVE  Own' = Declared(s) \cup Told(s, TreeLines(s, stage', treeAt'))
    <3>1. Own' = Own \cup Told(s, Shaped(s, shape))
      BY <1>7, <2>1, <2>2, OwnIs, OwnIsNext, OwnJoined
    <3>2. Own = Declared(s) \cup Told(s, TreeLines(s, from, treeAt))
      BY <1>3, <1>7, <2>1, <2>2
    <3>3. Told(s, TreeLines(s, to, treeAt))
          = Told(s, TreeLines(s, from, treeAt)) \cup Told(s, Shaped(s, shape))
      <4>1. TreeLines(s, to, treeAt) = TreeLines(s, from, treeAt) \cup Shaped(s, shape)
        BY <1>7 DEF TreeLines, Shaped
      <4> QED BY <4>1, ToldJoined
    <3> QED BY <2>1, <3>1, <3>2, <3>3
  <2> QED BY <1>4, <2>1, <2>2
<1>8. CASE Tree!EmitFileControl
  <2>1. RulesDone("calls") = RulesDone("files") \cup {"select"} /\ "files" \in Emitting
    BY DEF RulesDone, Emitting
  <2>2. Tree!Emit("files", SelectsFound(Tree!program), "calls")
    BY <1>8, TreeEmits
  <2>3. WellFormed(file) => OwnOf(s, SelectsFound(Tree!program)) = Told(s, Shaped(s, "select"))
    BY <1>2, <1>3, SelectsTold
  <2>4. ToldInv' /\ stage = "files" /\ stage' = "calls" /\ treeAt' = treeAt /\ file' = file
    BY <1>7, <2>1, <2>2, <2>3
  <2> QED BY <2>4 DEF StageInv, Early
<1>9. CASE Tree!EmitCalls
  <2>1. RulesDone("copies") = RulesDone("calls") \cup {"call"} /\ "calls" \in Emitting
    BY DEF RulesDone, Emitting
  <2>2. Tree!Emit("calls", CallsFound(Tree!program), "copies")
    BY <1>9, TreeEmits
  <2>3. WellFormed(file) => OwnOf(s, CallsFound(Tree!program)) = Told(s, Shaped(s, "call"))
    BY <1>2, <1>3, CallsTold
  <2>4. ToldInv' /\ stage = "calls" /\ stage' = "copies" /\ treeAt' = treeAt /\ file' = file
    BY <1>7, <2>1, <2>2, <2>3
  <2> QED BY <2>4 DEF StageInv, Early
<1>10. CASE Tree!EmitBatchIo
  <2>1. RulesDone("cics") = RulesDone("io") \cup {"io"} /\ "io" \in Emitting
    BY DEF RulesDone, Emitting
  <2>2. Tree!Emit("io", IoFound(Tree!program, Tree!recordFd), "cics")
    BY <1>10, TreeEmits
  <2>3. WellFormed(file) => OwnOf(s, IoFound(Tree!program, Tree!recordFd)) = Told(s, Shaped(s, "io"))
    BY <1>2, <1>3, IoTold
  <2>4. ToldInv' /\ stage = "io" /\ stage' = "cics" /\ treeAt' = treeAt /\ file' = file
    BY <1>7, <2>1, <2>2, <2>3
  <2> QED BY <2>4 DEF StageInv, Early
<1>11. CASE Tree!EmitCics
  <2>1. RulesDone("done") = RulesDone("cics") \cup {"cics"} /\ "cics" \in Emitting
    BY DEF RulesDone, Emitting
  <2>2. Tree!Emit("cics", CicsFound(Tree!program, Tree!constants), "done")
    BY <1>11, TreeEmits
  <2>3. WellFormed(file) => OwnOf(s, CicsFound(Tree!program, Tree!constants)) = Told(s, Shaped(s, "cics"))
    BY <1>2, <1>3, CicsTold
  <2>4. ToldInv' /\ stage = "cics" /\ stage' = "done" /\ treeAt' = treeAt /\ file' = file
    BY <1>7, <2>1, <2>2, <2>3
  <2> QED BY <2>4 DEF StageInv, Early
<1>12. CASE Tree!WalkEnds
  <2>1. /\ stage = "copies" /\ stage' = "io" /\ out' = out \cup {} /\ treeAt' = treeAt /\ file' = file
        /\ treeAt > Len(s)
    BY <1>12 DEF Tree!WalkEnds, Tree!Emit, Tree!lines
  <2>2. treeAt = Len(s) + 1
    BY <1>2, <2>1
  <2>3. StageInv'
    BY <2>1, <2>2 DEF StageInv, Early
  <2>4. RulesDone("io") = RulesDone("copies")
    BY DEF RulesDone
  <2>5. TreeLines(s, stage', treeAt') = TreeLines(s, stage, treeAt) /\ stage \in Emitting
    BY <2>1, <2>4 DEF TreeLines, Emitting
  <2>6. Own' = Own
    BY <2>1, OwnIs, OwnIsNext
  <2> QED BY <1>3, <1>4, <2>1, <2>3, <2>5, <2>6
<1>13. ASSUME NEW observed, NEW last, Tree!Walk(observed, last), stage = "copies", treeAt \in 1..Len(s),
              last = IF s[treeAt].shape = "copy" THEN EndOfCopy(s, treeAt) ELSE treeAt,
              WellFormed(file) => OwnOf(s, observed)
                = IF s[treeAt].shape = "copy" THEN Promise!FactsOf(p, s, treeAt) ELSE {}
       PROVE  StageInv' /\ ToldInv'
  <2>1. /\ out' = out \cup observed /\ treeAt' = last + 1 /\ stage' = "copies" /\ file' = file
    BY <1>13 DEF Tree!Walk
  <2>2. StageInv'
    BY <2>1 DEF StageInv, Early
  <2>3. ASSUME WellFormed(file)
        PROVE  Own' = Declared(s) \cup Told(s, TreeLines(s, stage', treeAt'))
    <3> DEFINE new == IF s[treeAt].shape = "copy" THEN Promise!FactsOf(p, s, treeAt) ELSE {}
    <3>1. Own' = Own \cup new
      BY <1>13, <2>1, <2>3, OwnIs, OwnIsNext, OwnJoined
    <3>2. Own = Declared(s) \cup Told(s, TreeLines(s, "copies", treeAt))
      BY <1>3, <1>13, <2>3 DEF Emitting
    <3>3. Told(s, TreeLines(s, "copies", last + 1)) = Told(s, TreeLines(s, "copies", treeAt)) \cup new
      <4>1. CASE s[treeAt].shape = "copy"
        <5>1. TreeLines(s, "copies", EndOfCopy(s, treeAt) + 1) = TreeLines(s, "copies", treeAt) \cup {treeAt}
          BY <1>2, <1>13, <2>3, <4>1, WalkLines
        <5>2. Told(s, {treeAt}) = new
          BY <4>1, ToldOne
        <5> QED BY <1>13, <4>1, <5>1, <5>2, ToldJoined
      <4>2. CASE s[treeAt].shape # "copy"
        <5>1. \A k \in 1..Len(s) : s[k].shape = "copy" => (k < treeAt + 1 <=> k < treeAt)
          BY <1>2, <4>2
        <5>2. TreeLines(s, "copies", treeAt + 1) = TreeLines(s, "copies", treeAt)
          BY <5>1 DEF TreeLines
        <5> QED BY <1>13, <4>2, <5>2
      <4> QED BY <4>1, <4>2
    <3> HIDE DEF new
    <3> QED BY <2>1, <3>1, <3>2, <3>3
  <2> QED BY <1>4, <2>1, <2>2, <2>3
<1>14. CASE Tree!WalkFd \/ Tree!WalkSd \/ Tree!WalkRecord \/ Tree!WalkOn
  <2>1. stage = "copies" /\ treeAt \in 1..Len(s) /\ s[treeAt].shape # "copy" /\ Tree!Walk({}, treeAt)
    BY <1>14 DEF Tree!WalkFd, Tree!WalkSd, Tree!WalkRecord, Tree!WalkOn, Tree!Stands, Tree!lines
  <2>2. OwnOf(s, {}) = IF s[treeAt].shape = "copy" THEN Promise!FactsOf(p, s, treeAt) ELSE {}
    BY <2>1, OwnJoined
  <2> QED BY <1>13, <2>1, <2>2
<1>15. CASE Tree!WalkCopy
  <2> DEFINE a == treeFd # Absent /\ treeRecord # Absent
             observed == Copied(ProgramId(Tree!program), Tree!program, treeFd, a, s, treeAt)
  <2>1. stage = "copies" /\ treeAt \in 1..Len(s) /\ s[treeAt].shape = "copy"
    BY <1>15 DEF Tree!WalkCopy, Tree!Stands, Tree!lines
  <2>2. Tree!Walk(observed, EndOfCopy(s, treeAt))
    <3>1. Tree!ProgramId(Tree!program) = ProgramId(Tree!program)
      BY DEF Tree!ProgramId, ProgramId
    <3> QED BY <1>15, <3>1, TreeObserves, TreeReads DEF Tree!WalkCopy, Tree!lines
  <2>3. ASSUME WellFormed(file)
        PROVE  OwnOf(s, observed) = Promise!FactsOf(p, s, treeAt)
    <3>1. treeFd = DescribedAt(s, treeAt) /\ a = InRecordArea(s, treeAt) /\ Tree!program = p
      BY <1>3, <2>3 DEF Remembered, InRecordArea
    <3> QED BY <2>1, <3>1, LineTold
  <2> HIDE DEF observed
  <2> QED BY <1>13, <2>1, <2>2, <2>3
<1> QED BY <1>1, <1>5, <1>6, <1>8, <1>9, <1>10, <1>11, <1>12, <1>14, <1>15 DEF Tree!Next

LEMMA ToldNext ==
  ReadInv /\ ContextInv /\ StageInv /\ ToldInv /\ [Next]_vars => StageInv' /\ ToldInv'
BY TreeKeepsTold, PatternsKeepTold, AdapterKeepsTold DEF Next

-----------------------------------------------------------------------------
(* The promise *)

\* What has been told of a program that compiles is true of it, and all of it is told
\* when the source is read whole.
LEMMA ToldIsTrue ==
  ReadInv /\ StageInv /\ ToldInv /\ WellFormed(file)
    => Own \subseteq Promise!Facts(file) /\ (ReadWhole => Own = Promise!Facts(file))
<1> SUFFICES ASSUME ReadInv, StageInv, ToldInv, WellFormed(file)
             PROVE  /\ Own \subseteq Promise!Facts(file)
                    /\ ReadWhole => Own = Promise!Facts(file)
  OBVIOUS
<1> DEFINE s   == file.lines
           p   == ProgramName(s)
           all == 1..Len(s)
<1>1. /\ file \in Files /\ at \in 0..(Len(s) + 1) /\ treeAt \in 1..(Len(s) + 1)
      /\ reader \in {"tree", "patterns", "nobody"} /\ stage \in Tree!Stages
      /\ at = 0 /\ stage \in Early => out = {}
      /\ reader = "tree" => at = 0
      /\ reader = "nobody" => at = 0 /\ stage \in Early
      /\ reader = "patterns" => stage \in Early
      /\ Len(s) \in Nat /\ Len(s) >= 1
  <2>1. /\ file \in Files /\ at \in 0..(Len(s) + 1) /\ treeAt \in 1..(Len(s) + 1)
        /\ reader \in {"tree", "patterns", "nobody"} /\ stage \in Tree!Stages
        /\ (at = 0 /\ stage \in {"built", "expand", "dump", "trace", "declare", "refused"} => out = {})
        /\ (reader = "tree" => at = 0)
        /\ (reader = "nobody" => at = 0 /\ stage = "refused")
        /\ (reader = "patterns" => stage \in {"built", "refused"})
    BY TypesOf DEF ReadInv
  <2> QED BY <2>1, SourceHas DEF Early
<1>2. Promise!Facts(file) = Declared(s) \cup Told(s, all)
  BY FactsAre
<1>3. out = {} => Own = {}
  BY OwnIs, OwnJoined
<1>4. ASSUME NEW some, some \subseteq all, Own = Declared(s) \cup Told(s, some)
      PROVE  Own \subseteq Promise!Facts(file)
  BY <1>2, <1>4, ToldLess
<1>5. ASSUME NEW some, some \subseteq all, Own = Declared(s) \cup Told(s, some),
             \A l \in all \ some : Promise!FactsOf(p, s, l) = {}
      PROVE  Own = Promise!Facts(file)
  <2>1. all = some \cup (all \ some)
    BY <1>5
  <2>2. Told(s, all \ some) = {}
    BY <1>5, ToldSilent
  <2> HIDE DEF all, s
  <2>3. Told(s, some \cup (all \ some)) = Told(s, some) \cup Told(s, all \ some)
    BY ToldJoined
  <2>4. Told(s, all) = Told(s, some)
    BY <2>1, <2>2, <2>3
  <2> QED BY <1>2, <1>5, <2>4 DEF s
<1>6. CASE at = 0 /\ stage \in Early
  <2>1. ~ReadWhole
    BY <1>1, <1>6 DEF ReadWhole, Patterns!Finished, Patterns!lines, Early
  <2> QED BY <1>1, <1>3, <1>6, <2>1
<1>7. CASE reader = "tree" /\ stage \in Emitting
  <2> DEFINE some == TreeLines(s, stage, treeAt)
  <2>1. Own = Declared(s) \cup Told(s, some)
    BY <1>7 DEF ToldInv
  <2>2. some \subseteq all
    BY DEF TreeLines
  <2>3. ASSUME stage = "done"
        PROVE  \A l \in all \ some : Promise!FactsOf(p, s, l) = {}
    <3>1. treeAt = Len(s) + 1
      BY <2>3 DEF StageInv
    <3>2. RulesDone(stage) = {"select", "call", "io", "cics"}
      BY <2>3 DEF RulesDone
    <3>3. \A l \in all : l < treeAt
      BY <1>1, <3>1
    <3>4. \A l \in all \ some : s[l].shape \notin {"select", "call", "io", "cics", "copy"}
      BY <3>2, <3>3 DEF TreeLines
    <3> QED BY <3>4, LineSilent
  <2>4. ReadWhole => stage = "done"
    BY <1>7 DEF ReadWhole
  <2> HIDE DEF some
  <2> QED BY <1>4, <1>5, <2>1, <2>2, <2>3, <2>4
<1>8. CASE reader = "patterns" /\ at > 0
  <2> DEFINE some == 1..(at - 1)
  <2>1. Own = Declared(s) \cup Told(s, some)
    BY <1>8 DEF ToldInv
  <2>2. some \subseteq all
    BY <1>1
  <2>3. ReadWhole => some = all
    BY <1>1, <1>8 DEF ReadWhole, Patterns!Finished, Patterns!lines
  <2>4. ReadWhole => \A l \in all \ some : Promise!FactsOf(p, s, l) = {}
    BY <2>3
  <2> HIDE DEF some
  <2> QED BY <1>4, <1>5, <2>1, <2>2, <2>4
<1> QED BY <1>1, <1>6, <1>7, <1>8, StagesAre

\* Nothing is read of a source read whole, and nothing told is taken back.
LEMMA ReadingGrows ==
  ASSUME ReadInv, Next
  PROVE  ~ReadWhole /\ file' = file /\ Own \subseteq Own'
<1>1. file \in Files /\ Len(file.lines) >= 1 /\ Len(file.lines) \in Nat /\ (reader = "patterns" => at \in Nat)
  <2>1. file \in Files /\ at \in 0..(Len(file.lines) + 1)
    BY TypesOf DEF ReadInv
  <2> QED BY <2>1, SourceHas
<1>2. CASE ReadTree
  <2>1. reader = "tree" /\ Tree!Next
    BY <1>2 DEF ReadTree
  <2>2. stage # "done"
    BY <2>1 DEF Tree!Next, Tree!EnsureBuilt, Tree!CallTree, Tree!ParseTempTree, Tree!Preresolve,
           Tree!Attempt, Tree!EmitProgramId, Tree!EmitFileControl, Tree!EmitCalls, Tree!EmitBatchIo,
           Tree!EmitCics, Tree!Emit, Tree!WalkFd, Tree!WalkSd, Tree!WalkRecord, Tree!WalkCopy,
           Tree!WalkOn, Tree!WalkEnds, Tree!Stands
  <2>3. file' = file /\ out \subseteq out'
    BY <2>1 DEF Tree!Next, Tree!EnsureBuilt, Tree!CallTree, Tree!ParseTempTree, Tree!Preresolve,
           Tree!Attempt, Tree!EmitProgramId, Tree!EmitFileControl, Tree!EmitCalls, Tree!EmitBatchIo,
           Tree!EmitCics, Tree!Emit, Tree!WalkFd, Tree!WalkSd, Tree!WalkRecord, Tree!WalkCopy,
           Tree!WalkOn, Tree!WalkEnds, Tree!Walk
  <2> QED BY <2>1, <2>2, <2>3, OwnIs, OwnIsNext DEF ReadWhole, OwnOf
<1>3. CASE ReadPatterns
  <2>1. reader = "patterns" /\ Patterns!Next
    BY <1>3 DEF ReadPatterns
  <2>2. at = 0 \/ at \in 1..Len(file.lines)
    BY <2>1 DEF Patterns!Next, Patterns!Prepare, Patterns!ReadFd, Patterns!ReadSd,
         Patterns!ReadRecord, Patterns!ReadCopy, Patterns!ReadSelect, Patterns!ReadCall, Patterns!ReadIo,
         Patterns!ReadCics, Patterns!SkipLine, Patterns!Ignored, Patterns!Stands, Patterns!lines
  <2>3. file' = file /\ out \subseteq out'
    BY <2>1 DEF Patterns!Next, Patterns!Prepare, Patterns!ReadFd, Patterns!ReadSd,
         Patterns!ReadRecord, Patterns!ReadCopy, Patterns!ReadSelect, Patterns!ReadCall, Patterns!ReadIo,
         Patterns!ReadCics, Patterns!SkipLine, Patterns!Read
  <2>4. ~(at > Len(file.lines))
    BY <1>1, <2>2
  <2> QED BY <2>1, <2>3, <2>4, OwnIs, OwnIsNext DEF ReadWhole, OwnOf, Patterns!Finished, Patterns!lines
<1>4. CASE FallBack \/ Fail
  <2>1. reader = "tree" /\ stage = "refused" /\ file' = file /\ out' = out
    BY <1>4 DEF FallBack, Fail
  <2> QED BY <2>1, OwnIs, OwnIsNext DEF ReadWhole
<1> QED BY <1>2, <1>3, <1>4 DEF Next

LEMMA PromiseInit ==
  Init => Promise!Init
<1> SUFFICES ASSUME Init PROVE Promise!Init
  OBVIOUS
<1>1. file \in Files /\ out = {} /\ stage = "built" /\ at = 0
  BY DEF Init, Patterns!Init
<1>2. Len(file.lines) \in Nat
  BY <1>1, SourceHas
<1>3. Own = {}
  BY <1>1, OwnIs, OwnJoined
<1>4. ReadWhole = FALSE
  BY <1>1, <1>2 DEF ReadWhole, Patterns!Finished, Patterns!lines
<1> QED BY <1>1, <1>3, <1>4 DEF Promise!Init

LEMMA PromiseNext ==
  /\ ReadInv /\ ContextInv /\ StageInv /\ ToldInv
  /\ ReadInv' /\ StageInv' /\ ToldInv'
  /\ [Next]_vars
  => [Promise!Observe]_<<file, Own, ReadWhole>>
<1> SUFFICES ASSUME ReadInv, ReadInv', StageInv', ToldInv', [Next]_vars
             PROVE  [Promise!Observe]_<<file, Own, ReadWhole>>
  OBVIOUS
<1>1. CASE UNCHANGED vars
  BY <1>1 DEF vars, treeVars, patternVars, Own, ReadWhole, Patterns!Real, Patterns!lines, Patterns!Finished
<1>2. CASE Next
  <2>1. ~ReadWhole /\ file' = file /\ Own \subseteq Own'
    BY <1>2, ReadingGrows
  <2>2. (ReadInv /\ StageInv /\ ToldInv /\ WellFormed(file)
           => Own \subseteq Promise!Facts(file) /\ (ReadWhole => Own = Promise!Facts(file)))'
    BY ToldIsTrue, PTL
  <2>3. CASE ReadWhole' \/ Own' # Own
    <3>1. WellFormed(file) => IF ReadWhole' THEN Own' = Promise!Facts(file) ELSE Own' \subseteq Promise!Facts(file)
      BY <2>1, <2>2
    <3> QED BY <2>1, <2>3, <3>1, SameFiles DEF Promise!Observe
  <2>4. CASE ~ReadWhole' /\ Own' = Own
    <3>1. ReadWhole' = ReadWhole
      BY <2>1, <2>4 DEF ReadWhole
    <3> QED BY <2>1, <2>4, <3>1
  <2> QED BY <2>3, <2>4
<1> QED BY <1>1, <1>2

-----------------------------------------------------------------------------
(* Theorems *)

\* Of every source, and by whoever reads it: the walk stays inside its source and its
\* observations are of lines there are, and the file and the records it remembers
\* at a line of a program that compiles are those of the lines before (_pass1 of
\* extract/cobol.py, current_fd, current_record and record_to_fd).
THEOREM InvariantHolds == Spec => []CobolInv
<1>1. Init => ReadInv /\ ContextInv
  BY ReadInit, ContextInit
<1>2. ReadInv /\ ContextInv /\ [Next]_vars => ReadInv' /\ ContextInv'
  BY ReadNext, ContextNext
<1>3. ReadInv /\ ContextInv => CobolInv
  BY ContextMeans DEF CobolInv, ReadInv
<1> QED BY <1>1, <1>2, <1>3, PTL DEF Spec

\* A program the tree refuses, at any step of the parser, has left nothing in the
\* sink the patterns then fill (extract_cobol_mapa of adapter.py).
THEOREM RefusalIsEmpty == Spec => []RefusalLeavesNothing
<1>1. ReadInv => RefusalLeavesNothing
  BY DEF ReadInv, RefusalLeavesNothing
<1> QED BY <1>1, ReadInit, ReadNext, PTL DEF Spec

\* Facts parity (tests/test_mapa_program_emission.py): whichever reader reads a source,
\* and when the second takes over from the first, the observations of the program's
\* own statements only grow, of a program that compiles they are facts of it, and
\* when it is read whole they are all of them.
THEOREM Refinement == Spec => KeepsThePromise
<1>1. Init => ReadInv /\ ContextInv /\ StageInv /\ ToldInv /\ Promise!Init
  BY ReadInit, ContextInit, StageInit, PromiseInit
<1>2. ReadInv /\ ContextInv /\ StageInv /\ ToldInv /\ [Next]_vars
      => ReadInv' /\ ContextInv' /\ StageInv' /\ ToldInv'
  BY ReadNext, ContextNext, ToldNext
<1>3. /\ ReadInv /\ ContextInv /\ StageInv /\ ToldInv
      /\ ReadInv' /\ ContextInv' /\ StageInv' /\ ToldInv'
      /\ [Next]_vars
      => [Promise!Observe]_<<file, Own, ReadWhole>>
  BY PromiseNext
<1> QED BY <1>1, <1>2, <1>3, PTL DEF Spec, KeepsThePromise, Promise!Spec
=============================================================================
