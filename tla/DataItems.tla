----------------------------- MODULE DataItems -----------------------------
(***************************************************************************)
(* The record layouts of a copybook (extract/cobol.py, _scan_data_items,   *)
(* and parsers/cobol/map_dataitem.py, emit_data_items): its data           *)
(* descriptions in order, and a stack of the items that are still open, by *)
(* level number.                                                           *)
(*                                                                         *)
(* The two readers differ in the entries they see and in what they call an *)
(* entry without a name, and in how far they read its clauses.  An entry   *)
(* is what stands between two periods: its level and name, its picture and *)
(* its usage.  OCCURS and REDEFINES are kept as they are read, and nothing *)
(* here depends on them.                                                   *)
(***************************************************************************)
EXTENDS SqlTypes, FiniteSets

CONSTANTS
  Names,      \* names of data items
  Filler,     \* the name FILLER
  Absent,     \* no name, picture or usage
  Clause,     \* the word after the level number of an entry without a name
  Copybooks   \* sequences of entries

Usages == BinaryUsages \cup {"COMP-3", "DISPLAY"}

\* "hint" is a usage word inside the name, as in CARD-COMP-AMT.
Entry ==
  [level : 1..88, name : Names \cup {Filler, Absent}, pic : Seq(Run) \cup {Absent},
   usage : Usages \cup {Absent}, hint : Usages \cup {Absent}]

ASSUME DataItemsAssumption ==
  /\ Copybooks \subseteq Seq(Entry)
  /\ {Filler, Absent, Clause} \cap Names = {}
  /\ Filler # Absent /\ Filler # Clause

VARIABLES
  reader,   \* patterns or tree
  entries,  \* the entries of the copybook
  at,       \* the entry the loop stands at
  stack,    \* (level, id) of the items still open, outermost first
  fillers,  \* filler_seq
  out       \* the observations made so far

vars == <<reader, entries, at, stack, fillers, out>>

Greatest(S) == CHOOSE k \in S : \A j \in S : j <= k

\* Condition names are no items; the grammar has an entry of its own for RENAMES.
Kept(l) == entries[l].level \notin (IF reader = "tree" THEN {66, 88} ELSE {88})

\* The pattern takes the word after the level for the name, whatever it is.
NameOf(l) ==
  IF entries[l].name # Absent THEN entries[l].name
  ELSE IF reader = "tree" THEN Filler ELSE Clause

\* The pattern for a picture knows neither + nor *: it stops before the first.
BeforeSign(pic) ==
  SubSeq(pic, 1, Greatest({k \in 0..Len(pic) : \A j \in 1..k : pic[j].sym \notin {"+", "*"}}))

PictureOf(l) ==
  IF entries[l].pic = Absent THEN Absent
  ELSE IF reader = "tree" THEN entries[l].pic
  ELSE IF BeforeSign(entries[l].pic) = <<>> THEN Absent ELSE BeforeSign(entries[l].pic)

\* The tree has a usage clause; the pattern finds the first usage word of the entry.
UsageOf(l) ==
  IF reader = "patterns" /\ entries[l].hint # Absent THEN entries[l].hint ELSE entries[l].usage

IsGroup(l) == PictureOf(l) = Absent

\* A group has no type; the default usage DISPLAY is noted on the item and not used here.
TypeOf(l) == IF IsGroup(l) THEN NoType ELSE Suggested(PictureOf(l), UsageOf(l))

RootId == <<"copybook">>

\* The n-th FILLER, or the item of that name
ItemId(name, n) == IF name = Filler THEN <<"dataitem", Filler, n>> ELSE <<"dataitem", name>>

ItemObs(l, id, level) ==
  [kind |-> "entity", entry |-> l, from |-> id, to |-> id, level |-> level,
   group |-> IsGroup(l), type |-> TypeOf(l)]

ContainsObs(l, from, to, level) ==
  [kind |-> IF from = RootId THEN "HAS_FIELD" ELSE "CONTAINS_ITEM", entry |-> l,
   from |-> from, to |-> to, level |-> level]

Init ==
  /\ reader \in {"patterns", "tree"}
  /\ entries \in Copybooks
  /\ at = 1
  /\ stack = <<>>
  /\ fillers = 0
  /\ out = {}

\* Mutant: an item of the same level stays open.
Open_SameLevel(level) == SubSeq(stack, 1, Greatest({0} \cup {k \in 1..Len(stack) : stack[k].level <= level}))

\* What is left of the stack when every item of this level or a deeper one is closed,
\* from the top down to the first that stays open
Open(level) == SubSeq(stack, 1, Greatest({0} \cup {k \in 1..Len(stack) : stack[k].level < level}))

\* Mutant: the count of the fillers goes on only at the top level.
Describe_FillerOnce ==
  /\ at <= Len(entries) /\ Kept(at)
  /\ LET level  == entries[at].level
         open   == Open(level)
         n      == IF NameOf(at) = Filler /\ open = <<>> THEN fillers + 1 ELSE fillers
         id     == ItemId(NameOf(at), n)
         parent == IF open = <<>> THEN RootId ELSE open[Len(open)].id
     IN  /\ fillers' = n
         /\ out' = out \cup {ItemObs(at, id, level), ContainsObs(at, parent, id, level)}
         /\ stack' = Append(open, [level |-> level, id |-> id])
  /\ at' = at + 1
  /\ UNCHANGED <<reader, entries>>

Describe ==
  /\ at <= Len(entries) /\ Kept(at)
  /\ LET level  == entries[at].level
         open   == Open(level)
         n      == IF NameOf(at) = Filler THEN fillers + 1 ELSE fillers
         id     == ItemId(NameOf(at), n)
         parent == IF open = <<>> THEN RootId ELSE open[Len(open)].id
     IN  /\ fillers' = n
         /\ out' = out \cup {ItemObs(at, id, level), ContainsObs(at, parent, id, level)}
         /\ stack' = Append(open, [level |-> level, id |-> id])
  /\ at' = at + 1
  /\ UNCHANGED <<reader, entries>>

SkipEntry ==
  /\ at <= Len(entries) /\ ~Kept(at)
  /\ at' = at + 1
  /\ UNCHANGED <<reader, entries, stack, fillers, out>>

Next == Describe \/ SkipEntry

Spec == Init /\ [][Next]_vars

Finished == at > Len(entries)

-----------------------------------------------------------------------------
(* Properties *)

KeptBefore(l) == {k \in 1..(l - 1) : Kept(k)}

\* The entry that encloses entry l: the nearest before it of a lower level
Enclosing(l) == {k \in KeptBefore(l) : entries[k].level < entries[l].level}

IdAt(l) == ItemId(NameOf(l), Cardinality({k \in KeptBefore(l + 1) : NameOf(k) = Filler}))

ParentAt(l) == IF Enclosing(l) = {} THEN RootId ELSE IdAt(Greatest(Enclosing(l)))

TypeInvariant ==
  /\ entries \in Seq(Entry)
  /\ at \in 1..(Len(entries) + 1)
  /\ fillers \in 0..Len(entries)
  /\ stack \in Seq([level : 1..88, id : {ItemId(n, k) : n \in Names \cup {Filler, Clause}, k \in 0..Len(entries)}])

\* The entries still open: no entry of their level or of a lower one came after them
OpenEntries ==
  {l \in KeptBefore(at) : \A j \in KeptBefore(at) : j > l => entries[j].level > entries[l].level}

\* The stack holds the open entries, outermost first, whatever levels were skipped on
\* the way in or closed at once on the way out.
StackIsOpenChain ==
  /\ Len(stack) = Cardinality(OpenEntries)
  /\ \A l \in OpenEntries :
       stack[Cardinality({k \in OpenEntries : k <= l})] = [level |-> entries[l].level, id |-> IdAt(l)]

FillersCounted == fillers = Cardinality({k \in KeptBefore(at) : NameOf(k) = Filler})

\* The variables have their types, the stack is the chain of open groups that the
\* parent of the next item is taken from, and the FILLERs are numbered as they come.
DataItemsInv == TypeInvariant /\ StackIsOpenChain /\ FillersCounted

\* RUL-COBOL-021: the items and their containers are those of the level numbers:
\* each entry under the nearest before it with a lower level, a FILLER called by its
\* place among the FILLERs, and no entry lost or observed twice.
HierarchyFollowsLevels ==
  out = {ItemObs(l, IdAt(l), entries[l].level) : l \in KeptBefore(at)}
        \cup {ContainsObs(l, ParentAt(l), IdAt(l), entries[l].level) : l \in KeptBefore(at)}

\* A usage word in the name is no usage; a factor that holds a nine is read twice, and
\* a factor of zero leaves nothing of its symbol.
PlainlyWritten(e) ==
  /\ e.hint \in {Absent, e.usage}
  /\ \A k \in DOMAIN e.pic : Stray(e.pic[k]) = 0 /\ e.pic[k].times > 0

\* RUL-COBOL-021: the type of an item takes every value of its picture, with the binary
\* types of the binary usages cut off after 9 and 18 digits and decimals after the V or
\* the point; an item without a picture is a group, and has no type, and neither has one
\* whose picture has no place for a letter or a digit.  The picture is taken as far as
\* either reader reads it: the patterns see a $ of $**9, and no digit.
TypesHoldTheirValues ==
  \A o \in {p \in out : p.kind = "entity"} :
    LET e   == entries[o.entry]
        pic == PictureOf(o.entry)
    IN  /\ o.group <=> pic = Absent
        /\ o.group => o.type = NoType
        /\ ~o.group /\ PlainlyWritten(e) =>
             /\ OfLetters(pic) \/ OfDigits(pic) => Fits(o.type, pic)
             /\ Symbols(pic) \cap (Letters \cup Digits) = {} => o.type = NoType
             /\ o.type.type \in {"INTEGER", "BIGINT"} => e.usage \in BinaryUsages

-----------------------------------------------------------------------------
(* What the documentation says and the code does not do *)

\* deterministic_rules.md:46, X(n)/A(n) -> CHAR(n): an alphanumeric picture gives a
\* character type of its length, whatever the length.
LettersAreChar ==
  \A o \in {p \in out : p.kind = "entity"} :
    ~o.group /\ OfLetters(PictureOf(o.entry)) => Fits(o.type, PictureOf(o.entry))

\* The usage of an item is that of its usage clause: both readers give it one type.
TypeFollowsTheClauses ==
  \A o \in {p \in out : p.kind = "entity"} :
    ~o.group => o.type = Suggested(PictureOf(o.entry), entries[o.entry].usage)

\* The graph has one DataItem per data-description entry: two entries of one name
\* in two groups are two items.
OneItemPerEntry ==
  \A o, p \in out : o.kind = "entity" /\ p.kind = "entity" /\ o.entry # p.entry => o.to # p.to

\* An entry without a name is FILLER padding, for either reader.
UnnamedIsFiller ==
  \A o \in out : o.kind = "entity" /\ entries[o.entry].name = Absent => o.to[2] = Filler
=============================================================================
