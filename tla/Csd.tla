-------------------------------- MODULE Csd --------------------------------
(***************************************************************************)
(* The reader of CICS resource definitions (extract/csd.py): the lines are *)
(* first grouped into blocks, one to a DEFINE, and each block is then read *)
(* for the operands its type needs.                                        *)
(***************************************************************************)
EXTENDS Integers, Sequences

CONSTANTS
  Names,     \* names of resources and programs
  Datasets,  \* data set names
  Absent,    \* no name, or an operand that is not on the line
  Decks      \* sequences of lines

\* The types _RE_DEFINE_HEAD lists; the last stands for those nothing is read from.
Listed == {"TRANSACTION", "PROGRAM", "MAPSET", "FILE", "GROUP"}

\* A line may start a definition, of a listed type or of another ("unlisted"), and may
\* carry a PROGRAM and a DSNAME operand.
Line == [head : Listed \cup {"unlisted", "none"}, name : Names \cup {Absent},
         program : Names \cup {Absent}, dsname : Datasets \cup {Absent}]

VARIABLES
  deck,       \* the lines of the file
  phase,      \* split, then extract
  at,         \* the line, then the block, the loop stands at
  cur_start,  \* where the open block starts, 0 if none is open
  blocks,     \* (first line, last line) of the blocks closed so far
  out         \* the observations made so far

vars == <<deck, phase, at, cur_start, blocks, out>>

Least(S) == CHOOSE k \in S : \A j \in S : k <= j

\* The first operand of that kind on lines s..e, Absent if there is none
Operand(key, s, e) ==
  LET given == {k \in s..e : deck[k][key] # Absent}
  IN  IF given = {} THEN Absent ELSE deck[Least(given)][key]

Fact(kind, from, to, s, e) == [kind |-> kind, from |-> from, to |-> to, start |-> s, end |-> e]

Init ==
  /\ deck \in Decks
  /\ phase = "split"
  /\ at = 1
  /\ cur_start = 0
  /\ blocks = <<>>
  /\ out = {}

-----------------------------------------------------------------------------
(* Grouping the lines *)

Splitting == phase = "split" /\ at <= Len(deck)

\* The blocks once the open one, if any, is closed at line e
Closed(e) == IF cur_start = 0 THEN blocks ELSE Append(blocks, [s |-> cur_start, e |-> e])

StartBlock ==
  /\ Splitting /\ deck[at].head \in Listed
  /\ blocks' = Closed(at - 1)
  /\ cur_start' = at
  /\ at' = at + 1
  /\ UNCHANGED <<deck, phase, out>>

\* The line belongs to the open block, or to none.
JoinLine ==
  /\ Splitting /\ deck[at].head \notin Listed
  /\ at' = at + 1
  /\ UNCHANGED <<deck, phase, cur_start, blocks, out>>

\* Mutant: the last block of the file is forgotten.
EndOfFile_Dropped ==
  /\ phase = "split" /\ at > Len(deck)
  /\ phase' = "extract" /\ at' = 1 /\ cur_start' = 0
  /\ UNCHANGED <<deck, blocks, out>>

EndOfFile ==
  /\ phase = "split" /\ at > Len(deck)
  /\ blocks' = Closed(Len(deck))
  /\ phase' = "extract" /\ at' = 1 /\ cur_start' = 0
  /\ UNCHANGED <<deck, out>>

-----------------------------------------------------------------------------
(* Reading a block *)

\* Block at is of that type.
Handling(type) == phase = "extract" /\ at <= Len(blocks) /\ deck[blocks[at].s].head = type

Observe(facts) ==
  /\ out' = out \cup facts
  /\ at' = at + 1
  /\ UNCHANGED <<deck, phase, cur_start, blocks>>

Name(b) == deck[b.s].name

HandleTransaction ==
  /\ Handling("TRANSACTION")
  /\ LET b == blocks[at]
         pgm == Operand("program", b.s, b.e)
     IN  Observe({Fact("CICSTransaction", Name(b), Absent, b.s, b.e)}
                 \cup (IF pgm = Absent THEN {}
                       ELSE {Fact("IS_TRANSACTION_FOR", Name(b), pgm, b.s, b.e)}))

HandleProgram ==
  /\ Handling("PROGRAM")
  /\ LET b == blocks[at] IN Observe({Fact("Program", Name(b), Absent, b.s, b.e)})

HandleMapset ==
  /\ Handling("MAPSET")
  /\ LET b == blocks[at] IN Observe({Fact("BMSMapset", Name(b), Absent, b.s, b.e)})

\* Mutant: the data set itself is left to whoever allocates it.
HandleFile_HintOnly ==
  /\ Handling("FILE")
  /\ LET b == blocks[at]
         dsn == Operand("dsname", b.s, b.e)
     IN  IF dsn = Absent THEN Observe({Fact("LogicalFile", Name(b), Absent, b.s, b.e)})
         ELSE Observe({Fact("csd_file_to_dataset", Name(b), dsn, b.s, b.e)})

\* A file without a data set is a logical file nothing is bound to.
HandleFile ==
  /\ Handling("FILE")
  /\ LET b == blocks[at]
         dsn == Operand("dsname", b.s, b.e)
     IN  IF dsn = Absent THEN Observe({Fact("LogicalFile", Name(b), Absent, b.s, b.e)})
         ELSE Observe({Fact("Dataset", dsn, Absent, b.s, b.e),
                       Fact("csd_file_to_dataset", Name(b), dsn, b.s, b.e)})

HandleOther == Handling("GROUP") /\ Observe({})

Next ==
  \/ StartBlock
  \/ JoinLine
  \/ EndOfFile
  \/ HandleTransaction
  \/ HandleProgram
  \/ HandleMapset
  \/ HandleFile
  \/ HandleOther

Spec == Init /\ [][Next]_vars

Finished == phase = "extract" /\ at > Len(blocks)

-----------------------------------------------------------------------------
(* Properties *)

\* What a definition is, read off the file without the blocks: it goes on until the
\* line before the next DEFINE, of whatever type.
Defined == {l \in 1..Len(deck) : deck[l].head # "none"}
LastOf(l) ==
  LET later == {k \in Defined : k > l} IN IF later = {} THEN Len(deck) ELSE Least(later) - 1

\* What the definition on lines s..e says
FactsOn(s, e) ==
  LET type == deck[s].head
      pgm  == Operand("program", s, e)
      dsn  == Operand("dsname", s, e)
      Of(kind, from, to) == Fact(kind, from, to, s, e)
      name == deck[s].name
  IN  CASE type = "TRANSACTION" /\ pgm = Absent -> {Of("CICSTransaction", name, Absent)}
        [] type = "TRANSACTION" /\ pgm # Absent -> {Of("CICSTransaction", name, Absent),
                                                    Of("IS_TRANSACTION_FOR", name, pgm)}
        [] type = "PROGRAM"                     -> {Of("Program", name, Absent)}
        [] type = "MAPSET"                      -> {Of("BMSMapset", name, Absent)}
        [] type = "FILE" /\ dsn = Absent        -> {Of("LogicalFile", name, Absent)}
        [] type = "FILE" /\ dsn # Absent        -> {Of("Dataset", dsn, Absent),
                                                    Of("csd_file_to_dataset", name, dsn)}
        [] OTHER                                -> {}

Says(l) == FactsOn(l, LastOf(l))

TypeInvariant ==
  /\ deck \in Seq(Line)
  /\ phase \in {"split", "extract"}
  /\ at \in 1..(Len(deck) + 1)
  /\ cur_start \in 0..Len(deck)
  /\ blocks \in Seq([s : 1..Len(deck), e : 1..Len(deck)])

\* The blocks follow each other without a gap from the first listed DEFINE to the end,
\* each with one listed DEFINE, at its head.
BlocksTile ==
  /\ \A b \in 1..Len(blocks) :
       /\ {l \in blocks[b].s..blocks[b].e : deck[l].head \in Listed} = {blocks[b].s}
       /\ b < Len(blocks) => blocks[b + 1].s = blocks[b].e + 1
  /\ phase = "extract" =>
       /\ {l \in 1..Len(deck) : deck[l].head \in Listed} = {blocks[b].s : b \in 1..Len(blocks)}
       /\ blocks # <<>> => blocks[Len(blocks)].e = Len(deck)

\* The listed DEFINEs up to line l
Heads(l) == {k \in 1..Len(deck) : k <= l /\ deck[k].head \in Listed}

\* While the lines are grouped the last DEFINE read starts the open block, and the
\* closed ones are those of the DEFINEs before it.
OpenBlockStands ==
  /\ phase = "split" =>
       /\ IF cur_start = 0 THEN Heads(at - 1) = {} /\ blocks = <<>>
          ELSE /\ {blocks[b].s : b \in 1..Len(blocks)} = Heads(at - 1) \ {cur_start}
               /\ cur_start \in Heads(at - 1) /\ \A h \in Heads(at - 1) : h <= cur_start
               /\ Len(blocks) < cur_start
       /\ blocks # <<>> => blocks[Len(blocks)].e = cur_start - 1
  /\ phase = "extract" => Len(blocks) <= Len(deck) /\ at <= Len(blocks) + 1

BlocksRead == IF phase = "split" THEN 0 ELSE at - 1

OutFollows == out = UNION {FactsOn(blocks[b].s, blocks[b].e) : b \in 1..BlocksRead}

\* The inductive invariant: the blocks are the definitions of the file, and what is
\* observed is what the blocks read so far say.
CsdInv ==
  /\ TypeInvariant
  /\ BlocksTile
  /\ OpenBlockStands
  /\ OutFollows

\* RUL-CSD-001 to 004: what is observed is what the definitions say, no operand taken
\* from another definition and none lost ("continues across lines until the next
\* top-level DEFINE").
ObservedIsDefined == Finished => out = UNION {Says(l) : l \in Defined}

\* Every definition of the file is of a type the reader knows.
OnlyListed == \A l \in 1..Len(deck) : deck[l].head # "unlisted"
=============================================================================
