-------------------------------- MODULE Bms --------------------------------
(***************************************************************************)
(* The reader of screen definitions (extract/bms.py).  Lines marked in     *)
(* column 72 go on in the next one; they are folded first.  A statement    *)
(* then declares a mapset, a map or a field, and belongs to the mapset and *)
(* the map named last.                                                     *)
(***************************************************************************)
EXTENDS Integers, Sequences, FiniteSets

CONSTANTS
  Names,     \* names of mapsets, maps and fields
  Blank,     \* no name
  Operands,  \* operands of a macro: places, texts
  NoOperand, \* a line without the operand
  Sources    \* sequences of lines

\* The macro and the name stand on the first line of a statement; each of its lines may
\* carry the operand and the mark of column 72.
Line == [macro : {"DFHMSD", "DFHMDI", "DFHMDF", "none"}, name : Names \cup {Blank},
         operand : Operands \cup {NoOperand}, cont : BOOLEAN]

ASSUME BmsAssumption ==
  /\ Blank \notin Names
  /\ NoOperand \notin Operands
  /\ Sources \subseteq Seq(Line)

VARIABLES
  lines,           \* the lines of the file
  phase,           \* fold, then extract
  at,              \* the line, then the statement, the loop stands at
  start,           \* the first line of the statement being folded
  statements,      \* (first line, last line) of each statement
  current_mapset,
  current_map,
  filler_counter,
  out              \* the observations made so far

vars == <<lines, phase, at, start, statements, current_mapset, current_map, filler_counter, out>>

folding == <<start, statements>>
context == <<current_mapset, current_map, filler_counter>>

Least(S) == CHOOSE k \in S : \A j \in S : k <= j

Init ==
  /\ lines \in Sources
  /\ phase = "fold"
  /\ at = 1 /\ start = 1
  /\ statements = <<>>
  /\ current_mapset = Blank /\ current_map = Blank
  /\ filler_counter = 0
  /\ out = {}

-----------------------------------------------------------------------------
(* Folding *)

InFold == phase = "fold" /\ at <= Len(lines)

\* The mark asks for another line, and there is one.
Continues(l) == lines[l].cont /\ l < Len(lines)

Continue ==
  /\ InFold /\ Continues(at)
  /\ at' = at + 1
  /\ UNCHANGED <<lines, phase, folding, context, out>>

\* Mutant: the next statement starts where this one did.
EndStatement_StartStays ==
  /\ InFold /\ ~Continues(at)
  /\ statements' = Append(statements, [s |-> start, e |-> at])
  /\ at' = at + 1
  /\ UNCHANGED <<lines, phase, start, context, out>>

EndStatement ==
  /\ InFold /\ ~Continues(at)
  /\ statements' = Append(statements, [s |-> start, e |-> at])
  /\ at' = at + 1 /\ start' = at + 1
  /\ UNCHANGED <<lines, phase, context, out>>

EndFold ==
  /\ phase = "fold" /\ at > Len(lines)
  /\ phase' = "extract" /\ at' = 1
  /\ UNCHANGED <<lines, folding, context, out>>

-----------------------------------------------------------------------------
(* Reading a statement *)

\* The operand as the folded text gives it: the first on any of the lines
OperandOf(s, e) ==
  LET given == {k \in s..e : lines[k].operand # NoOperand}
  IN  IF given = {} THEN NoOperand ELSE lines[Least(given)].operand

InExtract == phase = "extract" /\ at <= Len(statements)

Stmt == statements[at]
NameOf == lines[Stmt.s].name
Reading(macro) == InExtract /\ lines[Stmt.s].macro = macro

Declaration(id) == [id |-> id, start |-> Stmt.s, end |-> Stmt.e, operand |-> OperandOf(Stmt.s, Stmt.e)]

Emit(id) == out' = out \cup {Declaration(id)}

Advance == at' = at + 1 /\ UNCHANGED <<lines, phase, folding>>

\* Mutant: the map of the mapset before stays current.
HandleMapset_MapStays ==
  /\ Reading("DFHMSD") /\ NameOf # Blank
  /\ current_mapset' = NameOf
  /\ filler_counter' = 0
  /\ Emit(<<NameOf>>)
  /\ Advance
  /\ UNCHANGED current_map

HandleMapset ==
  /\ Reading("DFHMSD") /\ NameOf # Blank
  /\ current_mapset' = NameOf
  /\ current_map' = Blank
  /\ filler_counter' = 0
  /\ Emit(<<NameOf>>)
  /\ Advance

HandleMap ==
  /\ Reading("DFHMDI") /\ NameOf # Blank /\ current_mapset # Blank
  /\ current_map' = NameOf
  /\ filler_counter' = 0
  /\ Emit(<<current_mapset, NameOf>>)
  /\ Advance
  /\ UNCHANGED current_mapset

HandleField ==
  /\ Reading("DFHMDF") /\ current_mapset # Blank /\ current_map # Blank
  /\ IF NameOf = Blank
     THEN /\ filler_counter' = filler_counter + 1
          /\ Emit(<<current_mapset, current_map, "FILLER", filler_counter + 1>>)
     ELSE /\ Emit(<<current_mapset, current_map, NameOf>>)
          /\ UNCHANGED filler_counter
  /\ Advance
  /\ UNCHANGED <<current_mapset, current_map>>

\* Not a macro, or one without what it needs: a name, a mapset, a map
Ignored ==
  \/ lines[Stmt.s].macro = "none"
  \/ lines[Stmt.s].macro = "DFHMSD" /\ NameOf = Blank
  \/ lines[Stmt.s].macro = "DFHMDI" /\ (NameOf = Blank \/ current_mapset = Blank)
  \/ lines[Stmt.s].macro = "DFHMDF" /\ (current_mapset = Blank \/ current_map = Blank)

SkipStatement ==
  /\ InExtract /\ Ignored
  /\ Advance
  /\ UNCHANGED <<context, out>>

Next ==
  \/ Continue
  \/ EndStatement
  \/ EndFold
  \/ HandleMapset
  \/ HandleMap
  \/ HandleField
  \/ SkipStatement

Spec == Init /\ [][Next]_vars

Finished == phase = "extract" /\ at > Len(statements)

-----------------------------------------------------------------------------
(* Properties *)

\* The structure of the file, read without the loops: the line a statement starts at,
\* its last line, and the mapset and the map in force at a line, 0 if none.
Starts == {l \in 1..Len(lines) : l = 1 \/ ~lines[l - 1].cont}
EndOf(l) == Least({k \in l..Len(lines) : ~lines[k].cont \/ k = Len(lines)})
LastOf(S) == IF S = {} THEN 0 ELSE CHOOSE k \in S : \A j \in S : j <= k
Named(macro, l) == {k \in Starts : k <= l /\ lines[k].macro = macro /\ lines[k].name # Blank}
MapsetAt(l) == LastOf(Named("DFHMSD", l))
MapAt(l)    == LastOf({k \in Named("DFHMDI", l) : MapsetAt(l) # 0 /\ k > MapsetAt(l)})

FillersTo(l) ==
  {k \in Starts : MapAt(l) < k /\ k <= l /\ lines[k].macro = "DFHMDF" /\ lines[k].name = Blank}

IdAt(l) ==
  CASE lines[l].macro = "DFHMSD" -> <<lines[l].name>>
    [] lines[l].macro = "DFHMDI" -> <<lines[MapsetAt(l)].name, lines[l].name>>
    [] OTHER -> <<lines[MapsetAt(l)].name, lines[MapAt(l)].name>>
                \o (IF lines[l].name = Blank THEN <<"FILLER", Cardinality(FillersTo(l))>>
                    ELSE <<lines[l].name>>)

\* The statements that declare something where they stand
Declares(l) ==
  \/ l \in Named("DFHMSD", l)
  \/ l \in Named("DFHMDI", l) /\ MapsetAt(l) # 0
  \/ lines[l].macro = "DFHMDF" /\ MapAt(l) # 0

TypeInvariant ==
  /\ lines \in Sources
  /\ phase \in {"fold", "extract"}
  /\ at \in 1..(Len(lines) + 1) /\ start \in 1..(Len(lines) + 1)
  /\ statements \in Seq([s : 1..Len(lines), e : 1..Len(lines)])
  /\ {current_mapset, current_map} \subseteq Names \cup {Blank}
  /\ filler_counter \in 0..Len(lines)

\* RUL-BMS-004: the statements tile the file, and only their last lines are unmarked
\* (or the file ends in a marked line).
StatementsTile ==
  LET done == IF phase = "fold" THEN start - 1 ELSE Len(lines)
  IN  /\ {[s |-> l, e |-> EndOf(l)] : l \in {k \in Starts : k <= done}}
           = {statements[k] : k \in 1..Len(statements)}
      /\ \A k \in 1..(Len(statements) - 1) : statements[k + 1].s = statements[k].e + 1

\* They stand where the loop of the folding says: the open one goes on to the line
\* before the loop, and the closed ones end with the line before the open one.
FoldingStands ==
  LET done == IF phase = "fold" THEN start - 1 ELSE Len(lines)
  IN  /\ Len(statements) <= done
      /\ IF statements = <<>> THEN done = 0
         ELSE statements[1].s = 1 /\ statements[Len(statements)].e = done
      /\ phase = "fold" =>
           /\ start <= at /\ \A k \in start..(at - 1) : Continues(k)
           /\ start <= Len(lines) => start \in Starts
      /\ phase = "extract" => at <= Len(statements) + 1

\* The last line of the statements read so far
Done == IF phase = "fold" \/ at = 1 THEN 0 ELSE statements[at - 1].e

\* What the handlers remember is what the lines up to there say.
ContextStands ==
  /\ current_mapset = IF MapsetAt(Done) = 0 THEN Blank ELSE lines[MapsetAt(Done)].name
  /\ current_map = IF MapAt(Done) = 0 THEN Blank ELSE lines[MapAt(Done)].name
  /\ filler_counter = IF MapAt(Done) = 0 THEN 0 ELSE Cardinality(FillersTo(Done))

DeclarationAt(l) == [id |-> IdAt(l), start |-> l, end |-> EndOf(l), operand |-> OperandOf(l, EndOf(l))]

OutFollows == out = {DeclarationAt(l) : l \in {k \in Starts : k <= Done /\ Declares(k)}}

\* The inductive invariant: the folding neither splits nor joins statements, and what
\* is remembered and observed is what the statements read so far say.
BmsInv ==
  /\ TypeInvariant
  /\ StatementsTile
  /\ FoldingStands
  /\ ContextStands
  /\ OutFollows

\* RUL-BMS-001 to 003: every declaration is observed once, under the mapset and the map
\* it stands in, an unnamed field by its number among those of its map, and with an
\* operand of its own lines.
DeclarationsHaveTheirPlace ==
  Finished => out = {DeclarationAt(l) : l \in {k \in Starts : Declares(k)}}
=============================================================================
