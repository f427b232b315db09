----------------------------- MODULE BmsProofs -----------------------------
(***************************************************************************)
(* The proofs about Bms, for every set of names and operands and every     *)
(* set of files.                                                           *)
(*                                                                         *)
(* The folding closes a statement at the first line that does not go on,   *)
(* so between the first and the last line of a statement no other starts.  *)
(* The lines a statement takes up therefore change the mapset, the map and *)
(* the number of unnamed fields in force only at its first line, which is  *)
(* where the handlers change what they remember.                           *)
(***************************************************************************)
EXTENDS Bms, TLAPS, SequenceTheorems, FiniteSetTheorems, NaturalsInduction,
        WellFoundedInduction

\* A nonempty set of naturals has a least element.
LEMMA LeastExists ==
  ASSUME NEW S \in SUBSET Nat, S # {}
  PROVE  \E x \in S : \A y \in S : x <= y
<1>1. \E x \in S : \A y \in S : ~(<<y, x>> \in OpToRel(<, Nat))
  <2>1. IsWellFoundedOn(OpToRel(<, Nat), Nat)
    BY NatLessThanWellFounded
  <2> HIDE DEF OpToRel
  <2> QED BY <2>1, WFMin
<1>2. PICK x \in S : \A y \in S : ~(<<y, x>> \in OpToRel(<, Nat))
  BY <1>1
<1>3. \A a, b \in Nat : <<a, b>> \in OpToRel(<, Nat) <=> a < b
  BY DEF OpToRel
<1>4. \A y \in S : ~(y < x)
  BY <1>2, <1>3
<1> QED BY <1>4

\* So has a set of numbers up to n a greatest one, which LastOf picks; 0 if it is empty.
LEMMA LastOfSet ==
  ASSUME NEW n \in Nat, NEW S \in SUBSET (1..n)
  PROVE  /\ S = {} => LastOf(S) = 0
         /\ S # {} => LastOf(S) \in S /\ \A j \in S : j <= LastOf(S)
         /\ LastOf(S) \in 0..n
<1>1. CASE S = {}
  BY <1>1 DEF LastOf
<1>2. CASE S # {}
  <2> DEFINE T == {n - k : k \in S}
  <2>1. T \in SUBSET Nat
    <3>1. \A k \in S : k \in 1..n
      OBVIOUS
    <3>2. \A k \in 1..n : n - k \in Nat
      OBVIOUS
    <3> QED BY <3>1, <3>2
  <2>2. T # {}
    BY <1>2
  <2>3. PICK t \in T : \A y \in T : t <= y
    BY <2>1, <2>2, LeastExists
  <2>4. PICK g \in S : t = n - g
    BY <2>3
  <2>5. \A j \in S : n - g <= n - j
    BY <2>3, <2>4
  <2>6. \A j \in S : j <= g
    BY <2>5
  <2>7. LastOf(S) \in S /\ \A j \in S : j <= LastOf(S)
    BY <1>2, <2>6 DEF LastOf
  <2>8. LastOf(S) \in 0..n
    <3>1. \A k \in S : k \in 0..n
      OBVIOUS
    <3> QED BY <2>7, <3>1
  <2> QED BY <1>2, <2>7, <2>8
<1> QED BY <1>1, <1>2

\* A greater number that joins the set is the last.
LEMMA LastOfMore ==
  ASSUME NEW n \in Nat, n >= 1, NEW S \in SUBSET (1..(n - 1))
  PROVE  LastOf(S \cup {n}) = n
<1>1. \A j \in S \cup {n} : j <= n
  OBVIOUS
<1>2. \A g \in S \cup {n} : (\A j \in S \cup {n} : j <= g) => g = n
  OBVIOUS
<1> QED BY <1>1, <1>2 DEF LastOf

\* Short sequences put one after the other.
LEMMA PairAndOne ==
  ASSUME NEW a, NEW b, NEW c
  PROVE  <<a, b>> \o <<c>> = <<a, b, c>>
<1> DEFINE S == {a, b, c}
<1>1. <<a, b>> \in Seq(S) /\ <<c>> \in Seq(S) /\ <<a, b, c>> \in Seq(S)
  OBVIOUS
<1>2. Len(<<a, b>>) = 2 /\ Len(<<c>>) = 1 /\ Len(<<a, b, c>>) = 3
  OBVIOUS
<1>3. /\ <<a, b>> \o <<c>> \in Seq(S) /\ Len(<<a, b>> \o <<c>>) = 3
      /\ \A i \in 1..3 : (<<a, b>> \o <<c>>)[i] = <<a, b, c>>[i]
  BY <1>1, <1>2, ConcatProperties
<1> QED BY <1>1, <1>2, <1>3, SeqEqual

LEMMA PairAndPair ==
  ASSUME NEW a, NEW b, NEW c, NEW d
  PROVE  <<a, b>> \o <<c, d>> = <<a, b, c, d>>
<1> DEFINE S == {a, b, c, d}
<1>1. <<a, b>> \in Seq(S) /\ <<c, d>> \in Seq(S) /\ <<a, b, c, d>> \in Seq(S)
  OBVIOUS
<1>2. Len(<<a, b>>) = 2 /\ Len(<<c, d>>) = 2 /\ Len(<<a, b, c, d>>) = 4
  OBVIOUS
<1>3. /\ <<a, b>> \o <<c, d>> \in Seq(S) /\ Len(<<a, b>> \o <<c, d>>) = 4
      /\ \A i \in 1..4 : (<<a, b>> \o <<c, d>>)[i] = <<a, b, c, d>>[i]
  BY <1>1, <1>2, ConcatProperties
<1> QED BY <1>1, <1>2, <1>3, SeqEqual

-----------------------------------------------------------------------------
(* The structure of the file *)

LEMMA LinesType ==
  ASSUME lines \in Sources
  PROVE  /\ Len(lines) \in Nat
         /\ \A l \in 1..Len(lines) : lines[l] \in Line
         /\ Starts \in SUBSET (1..Len(lines))
BY BmsAssumption, LenProperties, ElementOfSeq DEF Starts

\* A statement ends at the first line that does not go on.
LEMMA EndOfFirst ==
  ASSUME lines \in Sources, NEW s \in 1..Len(lines), NEW e \in s..Len(lines),
         \A k \in s..(e - 1) : Continues(k), ~Continues(e)
  PROVE  EndOf(s) = e
<1> DEFINE S == {k \in s..Len(lines) : ~lines[k].cont \/ k = Len(lines)}
<1>1. Len(lines) \in Nat /\ s \in Nat /\ e \in Nat
  BY LinesType
<1>2. e \in S
  BY <1>1 DEF Continues
<1>3. ASSUME NEW j \in S
      PROVE  e <= j
  <2>1. j \in s..Len(lines) /\ ~Continues(j)
    BY <1>1 DEF Continues
  <2>2. j \notin s..(e - 1)
    BY <2>1
  <2> QED BY <1>1, <2>1, <2>2
<1>4. \A g \in S : (\A j \in S : g <= j) => g = e
  BY <1>1, <1>2, <1>3
<1>5. Least(S) = e
  BY <1>2, <1>3, <1>4 DEF Least
<1> QED BY <1>5 DEF EndOf

\* It ends in the file, and only its last line may be unmarked.
LEMMA EndOfStatement ==
  ASSUME lines \in Sources, NEW s \in 1..Len(lines)
  PROVE  /\ EndOf(s) \in s..Len(lines)
         /\ \A k \in s..(EndOf(s) - 1) : lines[k].cont
         /\ \A k \in (s + 1)..EndOf(s) : k \notin Starts
<1> DEFINE S == {k \in s..Len(lines) : ~lines[k].cont \/ k = Len(lines)}
<1>1. Len(lines) \in Nat /\ s \in Nat /\ Len(lines) \in S
  BY LinesType
<1>2. S \in SUBSET Nat
  BY <1>1
<1>3. EndOf(s) \in S /\ \A j \in S : EndOf(s) <= j
  <2>1. \E x \in S : \A y \in S : x <= y
    BY <1>1, <1>2, LeastExists
  <2> QED BY <2>1 DEF EndOf, Least
<1>4. EndOf(s) \in s..Len(lines)
  BY <1>3
<1>5. ASSUME NEW k \in s..(EndOf(s) - 1)
      PROVE  lines[k].cont
  <2>1. k \in s..Len(lines) /\ ~(EndOf(s) <= k)
    BY <1>1, <1>4
  <2>2. k \notin S
    BY <1>3, <2>1
  <2> QED BY <2>1, <2>2
<1>6. ASSUME NEW k \in (s + 1)..EndOf(s)
      PROVE  k \notin Starts
  <2>1. k - 1 \in s..(EndOf(s) - 1) /\ k # 1
    BY <1>1, <1>4
  <2> QED BY <1>5, <2>1 DEF Starts
<1> QED BY <1>4, <1>5, <1>6

\* Hence the lines a statement takes up add its first line to the starts.
LEMMA StartsGrow ==
  ASSUME lines \in Sources, NEW s \in Starts
  PROVE  /\ s \in 1..Len(lines) /\ EndOf(s) \in s..Len(lines)
         /\ \A k \in Starts : k <= EndOf(s) <=> k <= s - 1 \/ k = s
         /\ \A k \in Starts : k <= s <=> k <= s - 1 \/ k = s
<1>1. s \in 1..Len(lines) /\ Len(lines) \in Nat /\ Starts \in SUBSET (1..Len(lines))
  BY LinesType
<1>2. EndOf(s) \in s..Len(lines) /\ \A k \in (s + 1)..EndOf(s) : k \notin Starts
  BY <1>1, EndOfStatement
<1>3. ASSUME NEW k \in Starts
      PROVE  /\ k <= EndOf(s) <=> k <= s - 1 \/ k = s
             /\ k <= s <=> k <= s - 1 \/ k = s
  <2>1. k \in Nat /\ s \in Nat /\ EndOf(s) \in Nat /\ s <= EndOf(s)
    BY <1>1, <1>2
  <2>2. ~(k \in (s + 1)..EndOf(s))
    BY <1>2
  <2> QED BY <2>1, <2>2
<1> QED BY <1>1, <1>2, <1>3

\* What is in force at a line is a line before it.
LEMMA InForce ==
  ASSUME lines \in Sources, NEW l \in Nat
  PROVE  /\ \A macro : Named(macro, l) \in SUBSET (1..l)
         /\ MapsetAt(l) \in 0..l
         /\ MapAt(l) \in 0..l
         /\ MapsetAt(l) # 0 => MapsetAt(l) \in Named("DFHMSD", l)
         /\ MapAt(l) # 0 => MapAt(l) \in Named("DFHMDI", l) /\ MapsetAt(l) # 0
<1>1. \A macro : Named(macro, l) \in SUBSET (1..l)
  <2>1. \A k \in Starts : k \in Nat /\ k >= 1
    BY LinesType
  <2> QED BY <2>1 DEF Named
<1>2. MapsetAt(l) \in 0..l /\ (MapsetAt(l) # 0 => MapsetAt(l) \in Named("DFHMSD", l))
  BY <1>1, LastOfSet DEF MapsetAt
<1> DEFINE M == {k \in Named("DFHMDI", l) : MapsetAt(l) # 0 /\ k > MapsetAt(l)}
<1>3. M \in SUBSET (1..l)
  BY <1>1
<1>4. LastOf(M) \in 0..l /\ (LastOf(M) # 0 => LastOf(M) \in M)
  BY <1>3, LastOfSet
<1>5. MapAt(l) = LastOf(M)
  BY DEF MapAt
<1> QED BY <1>1, <1>2, <1>4, <1>5

\* What a statement that starts at s makes of the mapset, the map and the unnamed fields.
LEMMA NamedGrows ==
  ASSUME lines \in Sources, NEW s \in Starts, NEW l \in {s, EndOf(s)}, NEW macro
  PROVE  Named(macro, l) = IF lines[s].macro = macro /\ lines[s].name # Blank
                           THEN Named(macro, s - 1) \cup {s} ELSE Named(macro, s - 1)
<1>1. \A k \in Starts : k <= l <=> k <= s - 1 \/ k = s
  BY StartsGrow
<1> QED BY <1>1 DEF Named

LEMMA MapsetGrows ==
  ASSUME lines \in Sources, NEW s \in Starts, NEW l \in {s, EndOf(s)}
  PROVE  MapsetAt(l) = IF lines[s].macro = "DFHMSD" /\ lines[s].name # Blank THEN s
                       ELSE MapsetAt(s - 1)
<1>1. s \in Nat /\ s >= 1 /\ s - 1 \in Nat
  BY LinesType
<1>2. Named("DFHMSD", s - 1) \in SUBSET (1..(s - 1))
  BY <1>1, InForce
<1>3. LastOf(Named("DFHMSD", s - 1) \cup {s}) = s
  BY <1>1, <1>2, LastOfMore
<1> QED BY <1>3, NamedGrows DEF MapsetAt

LEMMA MapGrows ==
  ASSUME lines \in Sources, NEW s \in Starts, NEW l \in {s, EndOf(s)}
  PROVE  MapAt(l) = IF lines[s].name # Blank /\ lines[s].macro = "DFHMSD" THEN 0
                    ELSE IF lines[s].name # Blank /\ lines[s].macro = "DFHMDI" /\ MapsetAt(s - 1) # 0 THEN s
                    ELSE MapAt(s - 1)
<1> DEFINE Maps(k) == {m \in Named("DFHMDI", k) : MapsetAt(k) # 0 /\ m > MapsetAt(k)}
<1>1. s \in Nat /\ s >= 1 /\ s - 1 \in Nat
  BY LinesType
<1>2. /\ Named("DFHMDI", s - 1) \in SUBSET (1..(s - 1))
      /\ MapsetAt(s - 1) \in 0..(s - 1)
  BY <1>1, InForce
<1>3. \A k : MapAt(k) = LastOf(Maps(k))
  BY DEF MapAt
<1>4. CASE lines[s].name # Blank /\ lines[s].macro = "DFHMSD"
  <2>1. MapsetAt(l) = s /\ Named("DFHMDI", l) = Named("DFHMDI", s - 1)
    BY <1>4, MapsetGrows, NamedGrows
  <2>2. \A k \in 1..(s - 1) : ~(k > s)
    BY <1>1
  <2>3. Maps(l) = {}
    BY <1>2, <2>1, <2>2
  <2> QED BY <1>3, <1>4, <2>3 DEF LastOf
<1>5. CASE lines[s].name # Blank /\ lines[s].macro = "DFHMDI"
  <2>1. MapsetAt(l) = MapsetAt(s - 1) /\ Named("DFHMDI", l) = Named("DFHMDI", s - 1) \cup {s}
    BY <1>5, MapsetGrows, NamedGrows
  <2>2. CASE MapsetAt(s - 1) = 0
    <3>1. Maps(l) = {} /\ Maps(s - 1) = {}
      BY <2>1, <2>2
    <3> QED BY <1>3, <1>5, <2>2, <3>1
  <2>3. CASE MapsetAt(s - 1) # 0
    <3>1. s > MapsetAt(s - 1)
      BY <1>1, <1>2
    <3>2. Maps(l) = Maps(s - 1) \cup {s}
      BY <2>1, <2>3, <3>1
    <3>3. Maps(s - 1) \in SUBSET (1..(s - 1))
      BY <1>2
    <3> HIDE DEF Maps
    <3>4. LastOf(Maps(s - 1) \cup {s}) = s
      BY <1>1, <3>3, LastOfMore
    <3> QED BY <1>3, <1>5, <2>3, <3>2, <3>4
  <2> QED BY <2>2, <2>3
<1>6. CASE ~(lines[s].name # Blank /\ lines[s].macro \in {"DFHMSD", "DFHMDI"})
  <2>1. MapsetAt(l) = MapsetAt(s - 1) /\ Named("DFHMDI", l) = Named("DFHMDI", s - 1)
    BY <1>6, MapsetGrows, NamedGrows
  <2>2. Maps(l) = Maps(s - 1)
    BY <2>1
  <2> HIDE DEF Maps
  <2> QED BY <1>3, <1>6, <2>2
<1> QED BY <1>4, <1>5, <1>6

LEMMA FillersGrow ==
  ASSUME lines \in Sources, NEW s \in Starts, NEW l \in {s, EndOf(s)}
  PROVE  /\ MapAt(l) = s => FillersTo(l) = {}
         /\ MapAt(l) = MapAt(s - 1) =>
              FillersTo(l) = IF lines[s].macro = "DFHMDF" /\ lines[s].name = Blank
                             THEN FillersTo(s - 1) \cup {s} ELSE FillersTo(s - 1)
         /\ FillersTo(s - 1) \in SUBSET (1..(s - 1))
<1>1. /\ s \in Nat /\ s >= 1 /\ s - 1 \in Nat
      /\ \A k \in Starts : k \in Nat /\ k >= 1
  BY LinesType
<1>2. \A k \in Starts : k <= l <=> k <= s - 1 \/ k = s
  BY StartsGrow
<1>3. MapAt(s - 1) \in 0..(s - 1)
  BY <1>1, InForce
<1>4. MapAt(l) = s => FillersTo(l) = {}
  BY <1>1, <1>2 DEF FillersTo
<1>5. ASSUME MapAt(l) = MapAt(s - 1)
      PROVE  FillersTo(l) = IF lines[s].macro = "DFHMDF" /\ lines[s].name = Blank
                            THEN FillersTo(s - 1) \cup {s} ELSE FillersTo(s - 1)
  <2>1. MapAt(s - 1) < s
    BY <1>1, <1>3
  <2> QED BY <1>2, <1>5, <2>1 DEF FillersTo
<1>6. FillersTo(s - 1) \in SUBSET (1..(s - 1))
  <2>1. \A k \in FillersTo(s - 1) : k \in Starts /\ k <= s - 1
    BY DEF FillersTo
  <2>2. \A k \in Starts : k <= s - 1 => k \in 1..(s - 1)
    BY <1>1
  <2> QED BY <2>1, <2>2
<1> QED BY <1>4, <1>5, <1>6

\* The structure of the file is that of its lines.
LEMMA StructureStays ==
  ASSUME lines' = lines
  PROVE  /\ Starts' = Starts
         /\ \A l : (Continues(l) <=> Continues(l)') /\ EndOf(l)' = EndOf(l)
         /\ \A l : MapsetAt(l)' = MapsetAt(l) /\ MapAt(l)' = MapAt(l)
         /\ \A l : FillersTo(l)' = FillersTo(l) /\ DeclarationAt(l)' = DeclarationAt(l)
         /\ \A l : Declares(l) <=> Declares(l)'
<1>1. Starts' = Starts /\ \A l : (Continues(l) <=> Continues(l)') /\ EndOf(l)' = EndOf(l)
  BY DEF Starts, Continues, EndOf
<1>2. \A macro, l : Named(macro, l)' = Named(macro, l)
  BY <1>1 DEF Named
<1>3. \A l : MapsetAt(l)' = MapsetAt(l)
  BY <1>2 DEF MapsetAt
<1>4. \A l : MapAt(l)' = MapAt(l)
  BY <1>2, <1>3 DEF MapAt
<1>5. \A l : FillersTo(l)' = FillersTo(l)
  BY <1>1, <1>4 DEF FillersTo
<1>6. \A l : IdAt(l)' = IdAt(l)
  BY <1>3, <1>4, <1>5 DEF IdAt
<1>7. \A s, e : OperandOf(s, e)' = OperandOf(s, e)
  BY DEF OperandOf
<1>8. \A l : DeclarationAt(l)' = DeclarationAt(l)
  BY <1>1, <1>6, <1>7 DEF DeclarationAt
<1>9. \A l : Declares(l) <=> Declares(l)'
  BY <1>2, <1>3, <1>4 DEF Declares
<1> QED BY <1>1, <1>3, <1>4, <1>5, <1>8, <1>9

-----------------------------------------------------------------------------
(* The folding *)

\* Every statement folded starts at a start and ends where that statement ends.
LEMMA StatementShape ==
  ASSUME lines \in Sources, StatementsTile, NEW k \in 1..Len(statements)
  PROVE  statements[k].s \in Starts /\ statements[k].e = EndOf(statements[k].s)
<1> DEFINE done == IF phase = "fold" THEN start - 1 ELSE Len(lines)
<1>1. statements[k] \in {[s |-> l, e |-> EndOf(l)] : l \in {j \in Starts : j <= done}}
  BY DEF StatementsTile
<1>2. PICK l \in Starts : statements[k] = [s |-> l, e |-> EndOf(l)]
  BY <1>1
<1> QED BY <1>2

\* A new last statement keeps the statements a tiling.
LEMMA AppendedTile ==
  ASSUME lines \in Sources, statements \in Seq([s : 1..Len(lines), e : 1..Len(lines)]),
         phase = "fold", StatementsTile, FoldingStands, start \in Starts,
         at = EndOf(start), at \in start..Len(lines),
         statements' = Append(statements, [s |-> start, e |-> at]),
         start' = at + 1, UNCHANGED <<lines, phase>>
  PROVE  /\ StatementsTile'
         /\ statements' \in Seq([s : 1..Len(lines), e : 1..Len(lines)])
         /\ Len(statements') = Len(statements) + 1
         /\ statements'[1].s = 1 /\ statements'[Len(statements')].e = at
<1> DEFINE r == [s |-> start, e |-> at]
           n == Len(statements)
<1>1. start \in 1..Len(lines) /\ at \in 1..Len(lines) /\ Len(lines) \in Nat
  BY LinesType
<1>2. /\ n \in Nat /\ Len(statements') = n + 1
      /\ statements' \in Seq([s : 1..Len(lines), e : 1..Len(lines)])
      /\ \A k \in 1..n : statements'[k] = statements[k]
      /\ statements'[n + 1] = r
  <2>1. r \in [s : 1..Len(lines), e : 1..Len(lines)]
    BY <1>1
  <2> HIDE DEF r
  <2> QED BY <2>1, AppendProperties, LenProperties DEF r
<1>3. \A k \in 1..(n + 1) : k \in 1..n \/ k = n + 1
  BY <1>2
<1>4. {statements'[k] : k \in 1..(n + 1)} = {statements[k] : k \in 1..n} \cup {r}
  <2>1. n + 1 \in 1..(n + 1) /\ \A k \in 1..n : k \in 1..(n + 1)
    BY <1>2
  <2> HIDE DEF r, n
  <2> QED BY <1>2, <1>3, <2>1
<1>5. {statements[k] : k \in 1..n} = {[s |-> l, e |-> EndOf(l)] : l \in {k \in Starts : k <= start - 1}}
  BY DEF StatementsTile
<1>6. \A k \in Starts : k <= at <=> k <= start - 1 \/ k = start
  BY StartsGrow
<1>7. {[s |-> l, e |-> EndOf(l)] : l \in {k \in Starts : k <= at}}
        = {[s |-> l, e |-> EndOf(l)] : l \in {k \in Starts : k <= start - 1}} \cup {r}
  BY <1>6
<1>8. Starts' = Starts /\ (\A l : EndOf(l)' = EndOf(l)) /\ start' - 1 = at
  BY <1>1, StructureStays
<1>9. {[s |-> l, e |-> EndOf(l)] : l \in {k \in Starts : k <= start - 1}}'
        = {[s |-> l, e |-> EndOf(l)] : l \in {k \in Starts : k <= at}}
  BY <1>8
<1>10. ASSUME n > 0
       PROVE  statements[n].e = start - 1 /\ statements[1].s = 1
  <2>1. statements # <<>>
    BY <1>10
  <2> QED BY <2>1 DEF FoldingStands
<1>11. ASSUME n = 0
       PROVE  start = 1
  <2>1. statements = <<>>
    BY <1>11, EmptySeq
  <2>2. start - 1 = 0
    BY <2>1 DEF FoldingStands
  <2> QED BY <1>1, <2>2
<1>12. \A k \in 1..n : statements'[k + 1].s = statements'[k].e + 1
  <2>1. ASSUME NEW k \in 1..n
        PROVE  statements'[k + 1].s = statements'[k].e + 1
    <3>1. CASE k = n
      BY <1>1, <1>2, <1>10, <3>1
    <3>2. CASE k < n
      <4>1. k + 1 \in 1..n /\ k \in 1..(n - 1)
        BY <1>2, <3>2
      <4> QED BY <1>2, <4>1 DEF StatementsTile
    <3> QED BY <1>2, <3>1, <3>2
  <2> QED BY <2>1
<1>13. statements'[1].s = 1
  <2>1. CASE n = 0
    BY <1>2, <1>11, <2>1
  <2>2. CASE n > 0
    <3>1. 1 \in 1..n
      BY <1>2, <2>2
    <3> QED BY <1>2, <1>10, <2>2, <3>1
  <2> QED BY <1>2, <2>1, <2>2
<1>14. StatementsTile'
  <2>1. {statements'[k] : k \in 1..Len(statements')}
          = {[s |-> l, e |-> EndOf(l)] : l \in {k \in Starts : k <= start - 1}}'
    BY <1>2, <1>4, <1>5, <1>7, <1>9
  <2>2. (Len(statements') - 1) = n
    BY <1>2
  <2> QED BY <1>12, <2>1, <2>2 DEF StatementsTile
<1> QED BY <1>2, <1>13, <1>14

\* The statement the handlers stand at is the one after those read.
LEMMA StatementPlace ==
  ASSUME TypeInvariant, StatementsTile, FoldingStands, phase = "extract", at \in 1..Len(statements)
  PROVE  /\ Stmt.s \in Starts /\ Stmt.e = EndOf(Stmt.s)
         /\ Stmt.s \in 1..Len(lines) /\ Stmt.e \in Stmt.s..Len(lines)
         /\ Done = Stmt.s - 1
<1>1. /\ lines \in Sources /\ Len(lines) \in Nat /\ Len(statements) \in Nat
      /\ statements # <<>>
  BY LinesType, LenProperties DEF TypeInvariant
<1>2. Stmt.s \in Starts /\ Stmt.e = EndOf(Stmt.s)
  BY <1>1, StatementShape DEF Stmt
<1>3. Stmt.s \in 1..Len(lines) /\ Stmt.e \in Stmt.s..Len(lines)
  BY <1>1, <1>2, StartsGrow
<1>4. CASE at = 1
  <2>1. statements[1].s = 1
    BY <1>1 DEF FoldingStands
  <2> QED BY <1>2, <1>3, <1>4, <2>1 DEF Done, Stmt
<1>5. CASE at # 1
  <2>1. at - 1 \in 1..(Len(statements) - 1) /\ at - 1 \in 1..Len(statements) /\ (at - 1) + 1 = at
    BY <1>1, <1>5
  <2>2. statements[at].s = statements[at - 1].e + 1
    BY <2>1 DEF StatementsTile
  <2>3. statements[at - 1].e \in Nat
    <3>1. statements[at - 1] \in [s : 1..Len(lines), e : 1..Len(lines)]
      BY <2>1, ElementOfSeq DEF TypeInvariant
    <3> QED BY <3>1
  <2> QED BY <1>2, <1>3, <1>5, <2>2, <2>3 DEF Done, Stmt
<1> QED BY <1>2, <1>3, <1>4, <1>5

\* Nothing is in force before the first line, and nothing is declared there.
LEMMA NothingBefore ==
  ASSUME lines \in Sources
  PROVE  /\ MapsetAt(0) = 0 /\ MapAt(0) = 0
         /\ {k \in Starts : k <= 0 /\ Declares(k)} = {}
<1>1. MapsetAt(0) = 0 /\ MapAt(0) = 0
  BY InForce
<1>2. \A k \in Starts : ~(k <= 0)
  BY LinesType
<1> QED BY <1>1, <1>2

LEMMA InitInv == Init => BmsInv
<1> SUFFICES ASSUME Init PROVE BmsInv
  OBVIOUS
<1>1. /\ lines \in Sources /\ Len(lines) \in Nat /\ Done = 0
      /\ Len(statements) = 0 /\ statements = <<>>
  BY LinesType DEF Init, Done
<1>2. TypeInvariant
  BY <1>1 DEF Init, TypeInvariant
<1>3. StatementsTile
  <2>1. \A k \in Starts : ~(k <= 0)
    BY <1>1, LinesType
  <2>2. {[s |-> l, e |-> EndOf(l)] : l \in {k \in Starts : k <= 0}} = {}
    BY <2>1
  <2>3. {statements[k] : k \in 1..Len(statements)} = {}
    BY <1>1
  <2>4. 1..(Len(statements) - 1) = {}
    BY <1>1
  <2>5. phase = "fold" /\ start - 1 = 0
    BY DEF Init
  <2> QED BY <2>2, <2>3, <2>4, <2>5 DEF StatementsTile
<1>4. FoldingStands
  <2>1. start <= Len(lines) => start \in Starts
    BY <1>1 DEF Init, Starts
  <2>2. start..(at - 1) = {}
    BY DEF Init
  <2> QED BY <1>1, <2>1, <2>2 DEF Init, FoldingStands
<1>5. ContextStands
  BY <1>1, NothingBefore DEF Init, ContextStands
<1>6. OutFollows
  <2>1. {k \in Starts : k <= Done /\ Declares(k)} = {}
    BY <1>1, NothingBefore
  <2> QED BY <2>1 DEF Init, OutFollows
<1> QED BY <1>2, <1>3, <1>4, <1>5, <1>6 DEF BmsInv

\* While the lines are folded nothing is read, so nothing is remembered or observed.
LEMMA FoldingReadsNothing ==
  ASSUME ContextStands, OutFollows, lines' = lines, UNCHANGED <<context, out>>, Done' = Done
  PROVE  ContextStands' /\ OutFollows'
<1>1. ContextStands'
  BY StructureStays DEF ContextStands, context
<1>2. OutFollows'
  BY StructureStays DEF OutFollows
<1> QED BY <1>1, <1>2

LEMMA ContinueKeeps == BmsInv /\ Continue => BmsInv'
<1> SUFFICES ASSUME BmsInv, Continue PROVE BmsInv'
  OBVIOUS
<1>1. /\ TypeInvariant /\ StatementsTile /\ FoldingStands /\ ContextStands /\ OutFollows
      /\ phase = "fold" /\ at <= Len(lines) /\ Continues(at) /\ at' = at + 1
      /\ UNCHANGED <<lines, phase, start, statements, context, out>>
  BY DEF BmsInv, Continue, InFold, folding
<1>2. Len(lines) \in Nat /\ at \in 1..Len(lines) /\ start \in 1..(Len(lines) + 1)
  BY <1>1, LinesType DEF TypeInvariant
<1>3. Starts' = Starts /\ (\A l : EndOf(l)' = EndOf(l)) /\ \A l : (Continues(l) <=> Continues(l)')
  BY <1>1, StructureStays
<1>4. TypeInvariant'
  BY <1>1, <1>2 DEF TypeInvariant, context
<1>5. StatementsTile'
  BY <1>1, <1>3 DEF StatementsTile
<1>6. FoldingStands'
  <2>1. start <= at /\ \A k \in start..(at - 1) : Continues(k)
    BY <1>1 DEF FoldingStands
  <2>2. \A k \in start..at : k \in start..(at - 1) \/ k = at
    BY <1>2
  <2>3. start' <= at' /\ \A k \in start'..(at' - 1) : Continues(k)
    BY <1>1, <1>2, <2>1, <2>2
  <2>4. \A k \in start'..(at' - 1) : Continues(k)'
    BY <1>3, <2>3
  <2> QED BY <1>1, <1>3, <2>3, <2>4 DEF FoldingStands
<1>7. ContextStands' /\ OutFollows'
  <2>1. Done' = Done
    BY <1>1 DEF Done
  <2> QED BY <1>1, <2>1, FoldingReadsNothing
<1> QED BY <1>4, <1>5, <1>6, <1>7 DEF BmsInv

LEMMA EndStatementKeeps == BmsInv /\ EndStatement => BmsInv'
<1> SUFFICES ASSUME BmsInv, EndStatement PROVE BmsInv'
  OBVIOUS
<1>1. /\ TypeInvariant /\ StatementsTile /\ FoldingStands /\ ContextStands /\ OutFollows
      /\ phase = "fold" /\ at <= Len(lines) /\ ~Continues(at) /\ at' = at + 1 /\ start' = at + 1
      /\ statements' = Append(statements, [s |-> start, e |-> at])
      /\ UNCHANGED <<lines, phase, context, out>>
  BY DEF BmsInv, EndStatement, InFold
<1>2. /\ lines \in Sources /\ Len(lines) \in Nat /\ at \in 1..Len(lines)
      /\ start \in 1..(Len(lines) + 1) /\ Starts \in SUBSET (1..Len(lines))
      /\ statements \in Seq([s : 1..Len(lines), e : 1..Len(lines)]) /\ Len(statements) \in Nat
  BY <1>1, LinesType, LenProperties DEF TypeInvariant
<1>3. /\ start <= at /\ (\A k \in start..(at - 1) : Continues(k))
      /\ start \in Starts /\ Len(statements) <= start - 1
  BY <1>1, <1>2 DEF FoldingStands
<1>4. start \in 1..Len(lines) /\ at \in start..Len(lines) /\ EndOf(start) = at
  <2>1. start \in 1..Len(lines) /\ at \in start..Len(lines)
    BY <1>2, <1>3
  <2> QED BY <1>1, <1>2, <1>3, <2>1, EndOfFirst
<1>5. /\ StatementsTile'
      /\ statements' \in Seq([s : 1..Len(lines), e : 1..Len(lines)])
      /\ Len(statements') = Len(statements) + 1
      /\ statements'[1].s = 1 /\ statements'[Len(statements')].e = at
  BY <1>1, <1>2, <1>3, <1>4, AppendedTile
<1>6. TypeInvariant'
  BY <1>1, <1>2, <1>5 DEF TypeInvariant, context
<1>7. FoldingStands'
  <2>1. start' <= Len(lines)' => start' \in Starts'
    <3>1. at + 1 <= Len(lines) => at + 1 \in Starts
      BY <1>1, <1>2 DEF Starts, Continues
    <3> QED BY <1>1, <3>1, StructureStays
  <2>2. start'..(at' - 1) = {}
    BY <1>1, <1>2
  <2>3. Len(statements') <= start' - 1 /\ start' - 1 = at /\ start' <= at'
    BY <1>1, <1>2, <1>3, <1>4, <1>5
  <2>4. statements' # <<>>
    BY <1>2, <1>5
  <2> QED BY <1>1, <1>5, <2>1, <2>2, <2>3, <2>4 DEF FoldingStands
<1>8. ContextStands' /\ OutFollows'
  <2>1. Done' = Done
    BY <1>1 DEF Done
  <2> QED BY <1>1, <2>1, FoldingReadsNothing
<1> QED BY <1>5, <1>6, <1>7, <1>8 DEF BmsInv

LEMMA EndFoldKeeps == BmsInv /\ EndFold => BmsInv'
<1> SUFFICES ASSUME BmsInv, EndFold PROVE BmsInv'
  OBVIOUS
<1>1. /\ TypeInvariant /\ StatementsTile /\ FoldingStands /\ ContextStands /\ OutFollows
      /\ phase = "fold" /\ at > Len(lines) /\ at' = 1 /\ phase' = "extract"
      /\ UNCHANGED <<lines, start, statements, context, out>>
  BY DEF BmsInv, EndFold, folding
<1>2. /\ Len(lines) \in Nat /\ at \in 1..(Len(lines) + 1) /\ at = Len(lines) + 1
      /\ start \in 1..(Len(lines) + 1) /\ Len(statements) \in Nat
  BY <1>1, LinesType, LenProperties DEF TypeInvariant
<1>3. start - 1 = Len(lines)
  <2>1. ASSUME start <= Len(lines)
        PROVE  FALSE
    <3>1. Len(lines) \in start..(at - 1)
      BY <1>2, <2>1
    <3>2. Continues(Len(lines))
      BY <1>1, <3>1 DEF FoldingStands
    <3> QED BY <1>2, <3>2 DEF Continues
  <2> QED BY <1>2, <2>1
<1>4. TypeInvariant'
  BY <1>1, <1>2 DEF TypeInvariant, context
<1>5. StatementsTile'
  BY <1>1, <1>3, StructureStays DEF StatementsTile
<1>6. FoldingStands'
  BY <1>1, <1>2, <1>3 DEF FoldingStands
<1>7. ContextStands' /\ OutFollows'
  <2>1. Done' = Done
    BY <1>1 DEF Done
  <2> QED BY <1>1, <2>1, FoldingReadsNothing
<1> QED BY <1>4, <1>5, <1>6, <1>7 DEF BmsInv

-----------------------------------------------------------------------------
(* Reading a statement *)

\* What is in force at the first line of a statement is so at its last.
LEMMA SameAtEnd ==
  ASSUME lines \in Sources, NEW s \in Starts
  PROVE  /\ MapsetAt(EndOf(s)) = MapsetAt(s) /\ MapAt(EndOf(s)) = MapAt(s)
         /\ FillersTo(EndOf(s)) = FillersTo(s)
<1>1. MapsetAt(EndOf(s)) = MapsetAt(s) /\ MapAt(EndOf(s)) = MapAt(s)
  BY MapsetGrows, MapGrows
<1>2. \A k \in Starts : k <= EndOf(s) <=> k <= s
  BY StartsGrow
<1> QED BY <1>1, <1>2 DEF FillersTo

\* What is in force at a line of the file has the types of what is remembered.
LEMMA InForceTypes ==
  ASSUME lines \in Sources, NEW l \in 1..Len(lines)
  PROVE  /\ (IF MapsetAt(l) = 0 THEN Blank ELSE lines[MapsetAt(l)].name) \in Names \cup {Blank}
         /\ (IF MapAt(l) = 0 THEN Blank ELSE lines[MapAt(l)].name) \in Names \cup {Blank}
         /\ Cardinality(FillersTo(l)) \in 0..Len(lines)
<1>1. /\ Len(lines) \in Nat /\ l \in Nat /\ Starts \in SUBSET (1..Len(lines))
      /\ \A k \in 1..Len(lines) : lines[k].name \in Names \cup {Blank}
  BY LinesType DEF Line
<1>2. MapsetAt(l) \in 0..l /\ MapAt(l) \in 0..l
  BY <1>1, InForce
<1>3. /\ MapsetAt(l) # 0 => MapsetAt(l) \in 1..Len(lines)
      /\ MapAt(l) # 0 => MapAt(l) \in 1..Len(lines)
  BY <1>1, <1>2
<1>4. FillersTo(l) \subseteq 1..Len(lines)
  BY <1>1 DEF FillersTo
<1>5. IsFiniteSet(1..Len(lines)) /\ Cardinality(1..Len(lines)) = Len(lines)
  <2>1. /\ IsFiniteSet(1..Len(lines))
        /\ Cardinality(1..Len(lines)) = IF 1 > Len(lines) THEN 0 ELSE Len(lines) - 1 + 1
    BY <1>1, FS_Interval
  <2> QED BY <1>1, <2>1
<1>6. /\ IsFiniteSet(FillersTo(l)) /\ Cardinality(FillersTo(l)) <= Len(lines)
  BY <1>4, <1>5, FS_Subset
<1>7. Cardinality(FillersTo(l)) \in Nat
  BY <1>6, FS_CardinalityType
<1> QED BY <1>1, <1>3, <1>6, <1>7

\* A handler that remembers what is in force at its statement, and observes it if it
\* declares something, keeps the invariant.
LEMMA ReadKeeps ==
  ASSUME BmsInv, phase = "extract", at \in 1..Len(statements), Advance,
         current_mapset' = IF MapsetAt(Stmt.s) = 0 THEN Blank ELSE lines[MapsetAt(Stmt.s)].name,
         current_map' = IF MapAt(Stmt.s) = 0 THEN Blank ELSE lines[MapAt(Stmt.s)].name,
         filler_counter' = IF MapAt(Stmt.s) = 0 THEN 0 ELSE Cardinality(FillersTo(Stmt.s)),
         out' = IF Declares(Stmt.s) THEN out \cup {DeclarationAt(Stmt.s)} ELSE out
  PROVE  BmsInv'
<1> DEFINE s == Stmt.s
<1>1. /\ TypeInvariant /\ StatementsTile /\ FoldingStands /\ ContextStands /\ OutFollows
      /\ at' = at + 1 /\ UNCHANGED <<lines, phase, start, statements>>
  BY DEF BmsInv, Advance, folding
<1>2. /\ s \in Starts /\ Stmt.e = EndOf(s) /\ s \in 1..Len(lines) /\ Done = s - 1
  BY <1>1, StatementPlace
<1>3. /\ lines \in Sources /\ Len(lines) \in Nat /\ Len(statements) \in Nat
      /\ Len(statements) <= Len(lines)
  BY <1>1, LinesType, LenProperties DEF TypeInvariant, FoldingStands
<1>4. Done' = EndOf(s)
  <2>1. at' # 1 /\ at' - 1 = at /\ phase' # "fold" /\ statements' = statements
    BY <1>1, <1>3
  <2>2. Done' = statements[at].e
    BY <2>1 DEF Done
  <2> QED BY <1>2, <2>2 DEF Stmt
<1>5. /\ Starts' = Starts /\ (\A l : EndOf(l)' = EndOf(l)) /\ (\A l : Continues(l) <=> Continues(l)')
      /\ \A l : MapsetAt(l)' = MapsetAt(l) /\ MapAt(l)' = MapAt(l) /\ FillersTo(l)' = FillersTo(l)
      /\ \A l : DeclarationAt(l)' = DeclarationAt(l) /\ (Declares(l) <=> Declares(l)')
  BY <1>1, StructureStays
<1>6. /\ MapsetAt(EndOf(s)) = MapsetAt(s) /\ MapAt(EndOf(s)) = MapAt(s)
      /\ FillersTo(EndOf(s)) = FillersTo(s)
  BY <1>2, <1>3, SameAtEnd
<1>7. ContextStands'
  <2>1. MapsetAt(Done)' = MapsetAt(s) /\ MapAt(Done)' = MapAt(s)
    BY <1>4, <1>5, <1>6
  <2>2. Cardinality(FillersTo(Done))' = Cardinality(FillersTo(s))
    BY <1>4, <1>5, <1>6
  <2> QED BY <1>1, <2>1, <2>2 DEF ContextStands
<1>8. OutFollows'
  <2>1. \A k \in Starts : k <= EndOf(s) <=> k <= s - 1 \/ k = s
    BY <1>2, <1>3, StartsGrow
  <2>2. {DeclarationAt(l) : l \in {k \in Starts : k <= EndOf(s) /\ Declares(k)}}
          = {DeclarationAt(l) : l \in {k \in Starts : k <= s - 1 /\ Declares(k)}}
            \cup (IF Declares(s) THEN {DeclarationAt(s)} ELSE {})
    BY <1>2, <2>1
  <2>3. out = {DeclarationAt(l) : l \in {k \in Starts : k <= s - 1 /\ Declares(k)}}
    BY <1>1, <1>2 DEF OutFollows
  <2>4. out' = {DeclarationAt(l) : l \in {k \in Starts : k <= EndOf(s) /\ Declares(k)}}
    BY <2>2, <2>3
  <2>5. {DeclarationAt(l) : l \in {k \in Starts : k <= Done /\ Declares(k)}}'
          = {DeclarationAt(l) : l \in {k \in Starts : k <= EndOf(s) /\ Declares(k)}}
    BY <1>4, <1>5
  <2> QED BY <2>4, <2>5 DEF OutFollows
<1>9. TypeInvariant'
  <2>1. /\ {current_mapset', current_map'} \subseteq Names \cup {Blank}
        /\ filler_counter' \in 0..Len(lines)
    <3>1. 0 \in 0..Len(lines)
      BY <1>3
    <3> HIDE DEF s
    <3> QED BY <1>2, <1>3, <3>1, InForceTypes DEF s
  <2>2. at' \in 1..(Len(lines) + 1)
    BY <1>1, <1>3
  <2> QED BY <1>1, <2>1, <2>2 DEF TypeInvariant
<1>10. StatementsTile'
  BY <1>1, <1>5 DEF StatementsTile
<1>11. FoldingStands'
  <2>1. at' <= Len(statements) + 1
    BY <1>1, <1>3
  <2> QED BY <1>1, <1>5, <2>1 DEF FoldingStands
<1> QED BY <1>7, <1>8, <1>9, <1>10, <1>11 DEF BmsInv

\* Blank stands for no mapset, or no map, in force.
LEMMA BlankIsNone ==
  ASSUME lines \in Sources, NEW l \in Nat
  PROVE  /\ MapsetAt(l) # 0 => lines[MapsetAt(l)].name # Blank
         /\ MapAt(l) # 0 => lines[MapAt(l)].name # Blank /\ MapsetAt(l) # 0
BY InForce DEF Named

LEMMA ReadInv == BmsInv /\ (HandleMapset \/ HandleMap \/ HandleField \/ SkipStatement) => BmsInv'
<1> SUFFICES ASSUME BmsInv, HandleMapset \/ HandleMap \/ HandleField \/ SkipStatement
             PROVE  BmsInv'
  OBVIOUS
<1> DEFINE s == Stmt.s
           d == s - 1
<1>1. /\ TypeInvariant /\ StatementsTile /\ FoldingStands /\ ContextStands /\ OutFollows
      /\ lines \in Sources /\ at \in Nat /\ at >= 1 /\ Len(statements) \in Nat
      /\ phase = "extract" /\ at \in 1..Len(statements) /\ Advance
  <2>1. /\ TypeInvariant /\ StatementsTile /\ FoldingStands /\ ContextStands /\ OutFollows
        /\ lines \in Sources /\ at \in Nat /\ at >= 1 /\ Len(statements) \in Nat
    BY LinesType, LenProperties DEF BmsInv, TypeInvariant
  <2>2. phase = "extract" /\ at <= Len(statements) /\ Advance
    BY DEF HandleMapset, HandleMap, HandleField, SkipStatement, Reading, InExtract
  <2> QED BY <2>1, <2>2
<1>2. s \in Starts /\ Stmt.e = EndOf(s) /\ s \in 1..Len(lines) /\ Done = d /\ d \in Nat
  BY <1>1, StatementPlace
<1>3. /\ current_mapset = IF MapsetAt(d) = 0 THEN Blank ELSE lines[MapsetAt(d)].name
      /\ current_map = IF MapAt(d) = 0 THEN Blank ELSE lines[MapAt(d)].name
      /\ filler_counter = IF MapAt(d) = 0 THEN 0 ELSE Cardinality(FillersTo(d))
  BY <1>1, <1>2 DEF ContextStands
<1>4. /\ MapsetAt(d) # 0 => lines[MapsetAt(d)].name # Blank
      /\ MapAt(d) # 0 => lines[MapAt(d)].name # Blank /\ MapsetAt(d) # 0
  BY <1>1, <1>2, BlankIsNone
<1>5. /\ MapsetAt(s) = IF lines[s].macro = "DFHMSD" /\ lines[s].name # Blank THEN s ELSE MapsetAt(d)
      /\ MapAt(s) = IF lines[s].name # Blank /\ lines[s].macro = "DFHMSD" THEN 0
                    ELSE IF lines[s].name # Blank /\ lines[s].macro = "DFHMDI" /\ MapsetAt(d) # 0 THEN s
                    ELSE MapAt(d)
  BY <1>1, <1>2, MapsetGrows, MapGrows
<1>6. /\ MapAt(s) = s => FillersTo(s) = {}
      /\ MapAt(s) = MapAt(d) =>
           FillersTo(s) = IF lines[s].macro = "DFHMDF" /\ lines[s].name = Blank
                          THEN FillersTo(d) \cup {s} ELSE FillersTo(d)
      /\ FillersTo(d) \in SUBSET (1..d)
  BY <1>1, <1>2, FillersGrow
<1>7. /\ s # 0 /\ NameOf = lines[s].name
      /\ \A macro : s \in Named(macro, s) <=> lines[s].macro = macro /\ lines[s].name # Blank
  BY <1>2 DEF Named, NameOf
<1>8. \A id : Declaration(id) = [id |-> id, start |-> s, end |-> EndOf(s), operand |-> OperandOf(s, EndOf(s))]
  BY <1>2 DEF Declaration
<1>9. Declares(s) <=> \/ lines[s].macro = "DFHMSD" /\ lines[s].name # Blank
                      \/ lines[s].macro = "DFHMDI" /\ lines[s].name # Blank /\ MapsetAt(s) # 0
                      \/ lines[s].macro = "DFHMDF" /\ MapAt(s) # 0
  BY <1>7 DEF Declares
<1> HIDE DEF s, d
<1>10. ASSUME current_mapset' = IF MapsetAt(s) = 0 THEN Blank ELSE lines[MapsetAt(s)].name,
              current_map' = IF MapAt(s) = 0 THEN Blank ELSE lines[MapAt(s)].name,
              filler_counter' = IF MapAt(s) = 0 THEN 0 ELSE Cardinality(FillersTo(s)),
              out' = IF Declares(s) THEN out \cup {DeclarationAt(s)} ELSE out
       PROVE  BmsInv'
  BY <1>1, <1>10, ReadKeeps DEF s
<1>11. CASE HandleMapset
  <2>1. /\ lines[s].macro = "DFHMSD" /\ lines[s].name # Blank
        /\ current_mapset' = lines[s].name /\ current_map' = Blank /\ filler_counter' = 0
        /\ out' = out \cup {Declaration(<<lines[s].name>>)}
    BY <1>7, <1>11 DEF HandleMapset, Reading, Emit, s
  <2>2. DeclarationAt(s) = Declaration(<<lines[s].name>>)
    BY <1>8, <2>1 DEF DeclarationAt, IdAt
  <2> QED BY <1>5, <1>7, <1>9, <1>10, <2>1, <2>2
<1>12. CASE HandleMap
  <2>1. /\ lines[s].macro = "DFHMDI" /\ lines[s].name # Blank /\ current_mapset # Blank
        /\ current_map' = lines[s].name /\ filler_counter' = 0 /\ current_mapset' = current_mapset
        /\ out' = out \cup {Declaration(<<current_mapset, lines[s].name>>)}
    BY <1>7, <1>12 DEF HandleMap, Reading, Emit, s
  <2>2. /\ MapsetAt(d) # 0 /\ MapsetAt(s) = MapsetAt(d) /\ MapAt(s) = s
        /\ current_mapset = lines[MapsetAt(s)].name
    BY <1>3, <1>5, <2>1
  <2>3. FillersTo(s) = {} /\ Cardinality(FillersTo(s)) = 0
    BY <1>6, <2>2, FS_EmptySet
  <2>4. DeclarationAt(s) = Declaration(<<current_mapset, lines[s].name>>)
    BY <1>8, <2>1, <2>2 DEF DeclarationAt, IdAt
  <2> QED BY <1>7, <1>9, <1>10, <2>1, <2>2, <2>3, <2>4
<1>13. CASE HandleField
  <2>1. /\ lines[s].macro = "DFHMDF" /\ current_mapset # Blank /\ current_map # Blank
        /\ UNCHANGED <<current_mapset, current_map>>
    BY <1>13 DEF HandleField, Reading, s
  <2>2. /\ MapsetAt(s) = MapsetAt(d) /\ MapAt(s) = MapAt(d) /\ MapAt(d) # 0 /\ MapsetAt(d) # 0
        /\ current_mapset = lines[MapsetAt(s)].name /\ current_map = lines[MapAt(s)].name
        /\ filler_counter = Cardinality(FillersTo(d))
    BY <1>3, <1>5, <2>1
  <2>3. CASE lines[s].name = Blank
    <3>1. /\ filler_counter' = filler_counter + 1
          /\ out' = out \cup {Declaration(<<current_mapset, current_map, "FILLER", filler_counter + 1>>)}
      BY <1>7, <1>13, <2>3 DEF HandleField, Emit
    <3>2. Cardinality(FillersTo(s)) = filler_counter + 1
      <4>1. FillersTo(s) = FillersTo(d) \cup {s}
        BY <1>6, <2>1, <2>2, <2>3
      <4>2. IsFiniteSet(FillersTo(d)) /\ s \notin FillersTo(d)
        <5>1. IsFiniteSet(1..d)
          BY <1>2, FS_Interval
        <5>2. s \notin 1..d
          BY <1>2 DEF d
        <5> QED BY <1>6, <5>1, <5>2, FS_Subset
      <4> QED BY <2>2, <4>1, <4>2, FS_AddElement
    <3>3. IdAt(s) = <<lines[MapsetAt(s)].name, lines[MapAt(s)].name>>
                    \o <<"FILLER", Cardinality(FillersTo(s))>>
      BY <2>1, <2>3 DEF IdAt
    <3>4. IdAt(s) = <<current_mapset, current_map, "FILLER", filler_counter + 1>>
      BY <2>2, <3>2, <3>3, PairAndPair
    <3>5. DeclarationAt(s) = Declaration(<<current_mapset, current_map, "FILLER", filler_counter + 1>>)
      BY <1>8, <3>4 DEF DeclarationAt
    <3> QED BY <1>9, <1>10, <2>1, <2>2, <3>1, <3>2, <3>5
  <2>4. CASE lines[s].name # Blank
    <3>1. /\ filler_counter' = filler_counter
          /\ out' = out \cup {Declaration(<<current_mapset, current_map, lines[s].name>>)}
      BY <1>7, <1>13, <2>4 DEF HandleField, Emit
    <3>2. Cardinality(FillersTo(s)) = filler_counter
      BY <1>6, <2>2, <2>4
    <3>3. IdAt(s) = <<lines[MapsetAt(s)].name, lines[MapAt(s)].name>> \o <<lines[s].name>>
      BY <2>1, <2>4 DEF IdAt
    <3>4. IdAt(s) = <<current_mapset, current_map, lines[s].name>>
      BY <2>2, <3>3, PairAndOne
    <3>5. DeclarationAt(s) = Declaration(<<current_mapset, current_map, lines[s].name>>)
      BY <1>8, <3>4 DEF DeclarationAt
    <3> QED BY <1>9, <1>10, <2>1, <2>2, <3>1, <3>2, <3>5
  <2> QED BY <2>3, <2>4
<1>14. CASE SkipStatement
  <2>1. Ignored /\ UNCHANGED <<current_mapset, current_map, filler_counter, out>>
    BY <1>14 DEF SkipStatement, context
  <2>2. \/ lines[s].macro = "none"
        \/ lines[s].macro = "DFHMSD" /\ lines[s].name = Blank
        \/ lines[s].macro = "DFHMDI" /\ (lines[s].name = Blank \/ current_mapset = Blank)
        \/ lines[s].macro = "DFHMDF" /\ (current_mapset = Blank \/ current_map = Blank)
    BY <1>7, <2>1 DEF Ignored, s
  <2>3. /\ MapsetAt(s) = MapsetAt(d) /\ MapAt(s) = MapAt(d)
        /\ lines[s].macro = "DFHMDF" => MapAt(d) = 0
    BY <1>3, <1>4, <1>5, <2>2
  <2>4. ~Declares(s)
    BY <1>3, <1>4, <1>9, <2>2, <2>3
  <2>5. MapAt(s) # 0 => FillersTo(s) = FillersTo(d)
    BY <1>6, <2>3
  <2> QED BY <1>3, <1>10, <2>1, <2>3, <2>4, <2>5
<1> QED BY <1>11, <1>12, <1>13, <1>14

LEMMA NextInv == BmsInv /\ [Next]_vars => BmsInv'
<1> SUFFICES ASSUME BmsInv, [Next]_vars PROVE BmsInv'
  OBVIOUS
<1>1. CASE Continue
  BY <1>1, ContinueKeeps
<1>2. CASE EndStatement
  BY <1>2, EndStatementKeeps
<1>3. CASE EndFold
  BY <1>3, EndFoldKeeps
<1>4. CASE HandleMapset \/ HandleMap \/ HandleField \/ SkipStatement
  BY <1>4, ReadInv
<1>5. CASE UNCHANGED vars
  <2>1. /\ UNCHANGED <<lines, phase, at, start, statements, current_mapset, current_map>>
        /\ UNCHANGED <<filler_counter, out>>
    BY <1>5 DEF vars
  <2>2. Done' = Done
    BY <2>1 DEF Done
  <2>3. ContextStands' /\ OutFollows'
    BY <2>1, <2>2, FoldingReadsNothing DEF BmsInv, context
  <2>4. TypeInvariant'
    BY <2>1 DEF BmsInv, TypeInvariant
  <2>5. StatementsTile'
    BY <2>1, StructureStays DEF BmsInv, StatementsTile
  <2>6. FoldingStands'
    BY <2>1, StructureStays DEF BmsInv, FoldingStands
  <2> QED BY <2>3, <2>4, <2>5, <2>6 DEF BmsInv
<1> QED BY <1>1, <1>2, <1>3, <1>4, <1>5 DEF Next

\* RUL-BMS-004: in every state of every file the statements folded tile the lines, and
\* what the handlers remember and observed is what the statements read so far say.
THEOREM InvariantHolds == Spec => []BmsInv
<1> QED BY InitInv, NextInv, PTL DEF Spec

\* RUL-BMS-001 to 003: at the end every declaration is observed, under the mapset and
\* the map it stands in, an unnamed field by its number in its map, and nothing else.
THEOREM DeclarationsPlaced == Spec => []DeclarationsHaveTheirPlace
<1>1. BmsInv => DeclarationsHaveTheirPlace
  <2> SUFFICES ASSUME BmsInv, Finished
               PROVE  out = {DeclarationAt(l) : l \in {k \in Starts : Declares(k)}}
    BY DEF DeclarationsHaveTheirPlace
  <2>1. /\ lines \in Sources /\ Len(lines) \in Nat /\ Len(statements) \in Nat
        /\ phase = "extract" /\ at = Len(statements) + 1 /\ Starts \in SUBSET (1..Len(lines))
    BY LinesType, LenProperties DEF BmsInv, TypeInvariant, FoldingStands, Finished
  <2>2. Done = Len(lines)
    <3>1. CASE statements = <<>>
      <4>1. Len(lines) = 0 /\ Len(statements) = 0
        BY <2>1, <3>1 DEF BmsInv, FoldingStands
      <4> QED BY <2>1, <4>1 DEF Done
    <3>2. CASE statements # <<>>
      <4>1. statements[Len(statements)].e = Len(lines)
        BY <2>1, <3>2 DEF BmsInv, FoldingStands
      <4>2. Len(statements) # 0
        BY <3>2, EmptySeq DEF BmsInv, TypeInvariant
      <4>3. at # 1 /\ at - 1 = Len(statements)
        BY <2>1, <4>2
      <4> QED BY <2>1, <4>1, <4>3 DEF Done
    <3> QED BY <3>1, <3>2
  <2>3. \A k \in Starts : k <= Len(lines)
    BY <2>1
  <2> QED BY <2>2, <2>3 DEF BmsInv, OutFollows
<1> QED BY <1>1, InvariantHolds, PTL
=============================================================================
