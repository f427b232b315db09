--------------------------- MODULE ProvenanceProofs ---------------------------
(***************************************************************************)
(* Theorems about the tracing of statements: for every program, every      *)
(* copybook and every text MAPA may make of them, the alignment is the     *)
(* true one or the program is refused, no line is given to two statements, *)
(* and where lines are not shared every origin is the true one.            *)
(***************************************************************************)
EXTENDS Provenance, TLAPS, SequenceTheorems, FiniteSetTheorems, NaturalsInduction,
        WellFoundedInduction

\* A nonempty set of naturals has a least element.
LEMMA LeastExists ==
  ASSUME NEW S \in SUBSET Nat, S # {}
  PROVE  Least(S) \in S /\ \A y \in S : Least(S) <= y
<1>1. \E x \in S : \A y \in S : ~(<<y, x>> \in OpToRel(<, Nat))
  <2>1. IsWellFoundedOn(OpToRel(<, Nat), Nat)
    BY NatLessThanWellFounded
  <2> HIDE DEF OpToRel
  <2> QED BY <2>1, WFMin
<1>2. PICK x \in S : \A y \in S : ~(<<y, x>> \in OpToRel(<, Nat))
  BY <1>1
<1>3. \A a, b \in Nat : <<a, b>> \in OpToRel(<, Nat) <=> a < b
  BY DEF OpToRel
<1>4. \A y \in S : ~(y < x)
  BY <1>2, <1>3
<1>5. \A y \in S : x <= y
  BY <1>4
<1> QED BY <1>5 DEF Least

\* A set of numbers up to n that is not empty has a greatest one.
LEMMA GreatestExists ==
  ASSUME NEW n \in Nat, NEW S \in SUBSET (1..n), S # {}
  PROVE  \E x \in S : \A y \in S : y <= x
<1> DEFINE T == {n - y : y \in S}
<1>1. T \in SUBSET Nat /\ T # {}
  <2>1. \A y \in S : y \in 1..n /\ n - y \in Nat
    OBVIOUS
  <2>2. PICK y \in S : TRUE
    OBVIOUS
  <2>3. n - y \in T
    OBVIOUS
  <2> QED BY <2>1, <2>3
<1>2. PICK x \in S : \A z \in T : n - x <= z
  <2>1. Least(T) \in T /\ \A z \in T : Least(T) <= z
    BY <1>1, LeastExists
  <2> QED BY <2>1
<1>3. \A y \in S : n - x <= n - y /\ x \in Nat /\ y \in Nat
  BY <1>2
<1> QED BY <1>3

-----------------------------------------------------------------------------
(* Sequences made of sequences *)

\* The recursion of FlattenSeq has a solution.
LEMMA FlatteningExists ==
  ASSUME NEW S, NEW ss \in Seq(Seq(S))
  PROVE  \A m \in 1..Len(ss) :
           \E f : f = [i \in 1..m |-> IF i = 1 THEN ss[i] ELSE f[i - 1] \o ss[i]]
<1> DEFINE Solves(f, m) == f = [i \in 1..m |-> IF i = 1 THEN ss[i] ELSE f[i - 1] \o ss[i]]
           bad == {m \in 1..Len(ss) : ~\E f : Solves(f, m)}
<1> SUFFICES ASSUME bad # {} PROVE FALSE
  OBVIOUS
<1>1. Len(ss) \in Nat /\ bad \in SUBSET Nat
  <2>1. Len(ss) \in Nat
    BY LenProperties
  <2>2. bad \subseteq 1..Len(ss)
    OBVIOUS
  <2> HIDE DEF bad
  <2> QED BY <2>1, <2>2
<1> DEFINE m == Least(bad)
<1>2. m \in bad /\ \A k \in bad : m <= k
  BY <1>1, LeastExists
<1> HIDE DEF m
<1>3. m \in 1..Len(ss) /\ ~\E f : Solves(f, m)
  BY <1>2
<1>4. CASE m = 1
  <2> DEFINE f == [i \in 1..1 |-> ss[i]]
  <2>1. \A i \in 1..1 : i = 1
    OBVIOUS
  <2>2. f = [i \in 1..1 |-> IF i = 1 THEN ss[i] ELSE f[i - 1] \o ss[i]]
    BY <2>1
  <2>3. Solves(f, m)
    BY <1>4, <2>2
  <2> QED BY <1>3, <2>3
<1>5. CASE m # 1
  <2>1. m - 1 \in 1..Len(ss) /\ m \in Nat /\ ~(m <= m - 1)
    BY <1>1, <1>3, <1>5
  <2>2. PICK f : Solves(f, m - 1)
    BY <1>2, <2>1
  <2> DEFINE g == [i \in 1..m |-> IF i = m THEN f[m - 1] \o ss[m] ELSE f[i]]
  <2>3. ASSUME NEW i \in 1..m
        PROVE  g[i] = IF i = 1 THEN ss[i] ELSE g[i - 1] \o ss[i]
    <3>1. CASE i = m
      <4>1. m - 1 \in 1..m /\ m - 1 # m
        BY <2>1
      <4>2. g[m - 1] = f[m - 1]
        BY <4>1
      <4> QED BY <1>5, <3>1, <4>2
    <3>2. CASE i # m /\ i = 1
      <4>1. i \in 1..(m - 1)
        BY <2>1, <3>2
      <4> QED BY <2>2, <3>2, <4>1
    <3>3. CASE i # m /\ i # 1
      <4>1. i \in 1..(m - 1) /\ i - 1 \in 1..m /\ i - 1 # m
        BY <2>1, <3>3
      <4>2. f[i] = f[i - 1] \o ss[i]
        BY <2>2, <3>3, <4>1
      <4> QED BY <3>3, <4>1, <4>2
    <3> QED BY <3>1, <3>2, <3>3
  <2>4. Solves(g, m)
    <3>1. g = [i \in 1..m |-> g[i]]
      OBVIOUS
    <3> HIDE DEF g
    <3>2. [i \in 1..m |-> g[i]] = [i \in 1..m |-> IF i = 1 THEN ss[i] ELSE g[i - 1] \o ss[i]]
      BY <2>3
    <3> QED BY <3>1, <3>2
  <2> QED BY <1>3, <2>4
<1> QED BY <1>4, <1>5

LEMMA FlatteningSolves ==
  ASSUME NEW S, NEW ss \in Seq(Seq(S)), Len(ss) # 0
  PROVE  \E f : /\ f = [i \in 1..Len(ss) |-> IF i = 1 THEN ss[i] ELSE f[i - 1] \o ss[i]]
                /\ FlattenSeq(ss) = f[Len(ss)]
<1>1. Len(ss) \in 1..Len(ss)
  BY LenProperties
<1>2. \E f : f = [i \in 1..Len(ss) |-> IF i = 1 THEN ss[i] ELSE f[i - 1] \o ss[i]]
  BY <1>1, FlatteningExists
<1> DEFINE f == CHOOSE f : f = [i \in 1..Len(ss) |-> IF i = 1 THEN ss[i] ELSE f[i - 1] \o ss[i]]
<1>3. f = [i \in 1..Len(ss) |-> IF i = 1 THEN ss[i] ELSE f[i - 1] \o ss[i]]
  BY <1>2
<1>4. FlattenSeq(ss) = f[Len(ss)]
  BY DEF FlattenSeq
<1> QED BY <1>3, <1>4

\* Every member of flat is the member of the sequence row[k] of ss at col[k], each place
\* has its member, and the places are in their order.
Lays(flat, ss, n, row, col) ==
  /\ \A k \in 1..Len(flat) : /\ row[k] \in 1..n /\ col[k] \in 1..Len(ss[row[k]])
                             /\ flat[k] = ss[row[k]][col[k]]
  /\ \A i \in 1..n : \A j \in 1..Len(ss[i]) : \E k \in 1..Len(flat) : row[k] = i /\ col[k] = j
  /\ \A k, l \in 1..Len(flat) : k < l => row[k] < row[l] \/ (row[k] = row[l] /\ col[k] < col[l])

\* FlattenSeq lays the sequences one after the other.
LEMMA Flattened ==
  ASSUME NEW S, NEW ss \in Seq(Seq(S))
  PROVE  FlattenSeq(ss) \in Seq(S) /\ \E row, col : Lays(FlattenSeq(ss), ss, Len(ss), row, col)
<1>1. Len(ss) \in Nat /\ \A i \in 1..Len(ss) : ss[i] \in Seq(S)
  BY LenProperties, ElementOfSeq
<1>2. CASE Len(ss) = 0
  <2>1. ss = <<>>
    BY <1>2, EmptySeq
  <2>2. FlattenSeq(ss) = <<>>
    BY <1>2, <2>1 DEF FlattenSeq
  <2>3. Len(<<>>) = 0 /\ <<>> \in Seq(S) /\ 1..0 = {}
    OBVIOUS
  <2>4. 1..Len(ss) = {} /\ 1..Len(FlattenSeq(ss)) = {}
    BY <1>2, <2>2, <2>3
  <2> QED BY <2>2, <2>3, <2>4 DEF Lays
<1>3. CASE Len(ss) # 0
  <2>1. PICK f : /\ f = [i \in 1..Len(ss) |-> IF i = 1 THEN ss[i] ELSE f[i - 1] \o ss[i]]
                 /\ FlattenSeq(ss) = f[Len(ss)]
    BY <1>3, FlatteningSolves
  <2>2. \A i \in 1..Len(ss) : f[i] = IF i = 1 THEN ss[i] ELSE f[i - 1] \o ss[i]
    BY <2>1
  <2> DEFINE Holds(m) == f[m] \in Seq(S) /\ \E row, col : Lays(f[m], ss, m, row, col)
  <2>3. Holds(1)
    <3>1. 1 \in 1..Len(ss) /\ f[1] = ss[1]
      BY <1>1, <1>3, <2>2
    <3>2. ss[1] \in Seq(S) /\ Len(ss[1]) \in Nat
      BY <1>1, <3>1, LenProperties
    <3> DEFINE row == [k \in 1..Len(ss[1]) |-> 1]
               col == [k \in 1..Len(ss[1]) |-> k]
    <3>3. Lays(ss[1], ss, 1, row, col)
      <4>1. \A k \in 1..Len(ss[1]) : row[k] = 1 /\ col[k] = k
        OBVIOUS
      <4>2. 1 \in 1..1 /\ \A i \in 1..1 : i = 1
        OBVIOUS
      <4> HIDE DEF row, col
      <4> QED BY <3>2, <4>1, <4>2 DEF Lays
    <3> QED BY <3>1, <3>2, <3>3
  <2>4. ASSUME NEW m \in 1..Len(ss), m # 1, Holds(m - 1)
        PROVE  Holds(m)
    <3>1. m - 1 \in 1..Len(ss) /\ m \in 1..m /\ m \in Nat /\ \A i \in 1..m : i \in 1..(m - 1) \/ i = m
      BY <1>1, <2>4
    <3>2. \A i \in 1..(m - 1) : i \in 1..m /\ i < m
      BY <1>1
    <3>3. f[m] = f[m - 1] \o ss[m] /\ f[m - 1] \in Seq(S) /\ ss[m] \in Seq(S)
      BY <1>1, <2>2, <2>4
    <3> DEFINE a == f[m - 1]
               b == ss[m]
    <3>4. /\ a \o b \in Seq(S) /\ Len(a) \in Nat /\ Len(b) \in Nat /\ Len(a \o b) = Len(a) + Len(b)
          /\ \A k \in 1..(Len(a) + Len(b)) :
               (a \o b)[k] = IF k <= Len(a) THEN a[k] ELSE b[k - Len(a)]
      BY <3>3, ConcatProperties, LenProperties
    <3>5. PICK row, col : Lays(a, ss, m - 1, row, col)
      BY <2>4
    <3>6. f[m] = a \o b
      BY <3>3
    <3>7. b = ss[m]
      OBVIOUS
    <3> HIDE DEF a, b
    <3> DEFINE row2 == [k \in 1..(Len(a) + Len(b)) |-> IF k <= Len(a) THEN row[k] ELSE m]
               col2 == [k \in 1..(Len(a) + Len(b)) |-> IF k <= Len(a) THEN col[k] ELSE k - Len(a)]
    <3>8. \A k \in 1..(Len(a) + Len(b)) :
            \/ k \in 1..Len(a) /\ k <= Len(a) /\ row2[k] = row[k] /\ col2[k] = col[k] /\ (a \o b)[k] = a[k]
            \/ /\ k - Len(a) \in 1..Len(b) /\ ~(k <= Len(a))
               /\ row2[k] = m /\ col2[k] = k - Len(a) /\ (a \o b)[k] = b[k - Len(a)]
      BY <3>4
    <3>9. \A k \in 1..Len(a) : k \in 1..(Len(a) + Len(b)) /\ row2[k] = row[k] /\ col2[k] = col[k]
      BY <3>4
    <3>10. \A k \in 1..Len(b) : /\ Len(a) + k \in 1..(Len(a) + Len(b))
                                /\ row2[Len(a) + k] = m /\ col2[Len(a) + k] = k
      BY <3>4
    <3> HIDE DEF row2, col2
    <3>11. ASSUME NEW k \in 1..(Len(a) + Len(b))
           PROVE  /\ row2[k] \in 1..m /\ col2[k] \in 1..Len(ss[row2[k]])
                  /\ (a \o b)[k] = ss[row2[k]][col2[k]]
      <4>1. CASE k \in 1..Len(a)
        <5>1. row[k] \in 1..(m - 1) /\ col[k] \in 1..Len(ss[row[k]]) /\ a[k] = ss[row[k]][col[k]]
          BY <3>5, <4>1 DEF Lays
        <5>2. row2[k] = row[k] /\ col2[k] = col[k] /\ (a \o b)[k] = a[k]
          BY <3>8, <4>1
        <5> QED BY <3>2, <5>1, <5>2
      <4>2. CASE k \notin 1..Len(a)
        BY <3>1, <3>7, <3>8, <4>2
      <4> QED BY <4>1, <4>2
    <3>12. ASSUME NEW i \in 1..m, NEW j \in 1..Len(ss[i])
           PROVE  \E k \in 1..(Len(a) + Len(b)) : row2[k] = i /\ col2[k] = j
      <4>1. CASE i \in 1..(m - 1)
        <5>1. PICK k \in 1..Len(a) : row[k] = i /\ col[k] = j
          BY <3>5, <4>1 DEF Lays
        <5> QED BY <3>9, <5>1
      <4>2. CASE i = m
        BY <3>7, <3>10, <4>2
      <4> QED BY <3>1, <4>1, <4>2
    <3>13. ASSUME NEW k \in 1..(Len(a) + Len(b)), NEW l \in 1..(Len(a) + Len(b)), k < l
           PROVE  row2[k] < row2[l] \/ (row2[k] = row2[l] /\ col2[k] < col2[l])
      <4>1. CASE l <= Len(a)
        <5>1. k \in 1..Len(a) /\ l \in 1..Len(a)
          BY <3>4, <3>13, <4>1
        <5> QED BY <3>5, <3>9, <3>13, <5>1 DEF Lays
      <4>2. CASE ~(l <= Len(a)) /\ k <= Len(a)
        <5>1. k \in 1..Len(a) /\ row2[k] = row[k] /\ row2[l] = m
          BY <3>4, <3>8, <4>2
        <5>2. row[k] \in 1..(m - 1)
          BY <3>5, <5>1 DEF Lays
        <5> QED BY <3>2, <5>1, <5>2
      <4>3. CASE ~(l <= Len(a)) /\ ~(k <= Len(a))
        BY <3>4, <3>8, <3>13, <4>3
      <4> QED BY <4>1, <4>2, <4>3
    <3> DEFINE ab == a \o b
    <3>14. Lays(ab, ss, m, row2, col2)
      <4>1. Len(ab) = Len(a) + Len(b)
        BY <3>4
      <4>2. \A k \in 1..Len(ab) : /\ row2[k] \in 1..m /\ col2[k] \in 1..Len(ss[row2[k]])
                                 /\ ab[k] = ss[row2[k]][col2[k]]
        BY <3>11, <4>1
      <4> HIDE DEF ab
      <4>3. \A i \in 1..m : \A j \in 1..Len(ss[i]) : \E k \in 1..Len(ab) : row2[k] = i /\ col2[k] = j
        BY <3>12, <4>1
      <4>4. \A k, l \in 1..Len(ab) : k < l => row2[k] < row2[l] \/ (row2[k] = row2[l] /\ col2[k] < col2[l])
        BY <3>13, <4>1
      <4> QED BY <4>2, <4>3, <4>4 DEF Lays
    <3> QED BY <3>4, <3>6, <3>14
  <2> DEFINE bad == {m \in 1..Len(ss) : ~Holds(m)}
             least == Least(bad)
  <2>5. bad = {}
    <3> SUFFICES ASSUME bad # {} PROVE FALSE
      OBVIOUS
    <3>1. \A m \in bad : m \in 1..Len(ss)
      OBVIOUS
    <3> HIDE DEF Holds
    <3>2. bad \in SUBSET Nat
      BY <1>1, <3>1
    <3>3. least \in bad /\ \A k \in bad : least <= k
      BY <3>2, LeastExists
    <3> HIDE DEF least
    <3>4. least # 1
      BY <2>3, <3>3
    <3>5. least - 1 \in 1..Len(ss) /\ ~(least <= least - 1)
      BY <1>1, <3>1, <3>3, <3>4
    <3>6. Holds(least - 1)
      BY <3>3, <3>5
    <3> QED BY <2>4, <3>1, <3>3, <3>4, <3>6
  <2>6. Holds(Len(ss))
    <3>1. Len(ss) \in 1..Len(ss)
      BY <1>1, <1>3
    <3> HIDE DEF Holds
    <3> QED BY <2>5, <3>1
  <2> QED BY <2>1, <2>6
<1> QED BY <1>2, <1>3

-----------------------------------------------------------------------------
(* The folded text *)

\* The folded text has lines of the program in their order, each as it is or joined.
Drawn ==
  /\ \A k \in 1..Len(woc) : woc[k].text = src[woc[k].from] \/ woc[k].text = JoinedText
  /\ \A k, l \in 1..Len(woc) : k < l => woc[k].from < woc[l].from

LEMMA CorpusType ==
  ASSUME corpus \in Corpora
  PROVE  /\ src \in Seq(Text) /\ Len(src) \in Nat /\ \A l \in 1..Len(src) : src[l] \in Text
         /\ \A b \in Books : corpus.book[b] \in Seq(Text) /\ Len(corpus.book[b]) \in Nat
                             /\ \A l \in 1..Len(corpus.book[b]) : corpus.book[b][l] \in Text
<1>1. corpus \in [src : Seq(Text), book : [Books -> Seq(Text)]]
  BY ProvenanceAssumption
<1>2. src \in Seq(Text) /\ \A b \in Books : corpus.book[b] \in Seq(Text)
  BY <1>1 DEF src
<1> QED BY <1>2, LenProperties, ElementOfSeq

LEMMA FoldedIsDrawn ==
  ASSUME corpus \in Corpora, NEW kept, NEW join, woc = Folded(src, kept, join)
  PROVE  woc \in Seq([text : Text \cup {JoinedText}, from : 1..Len(src)]) /\ Drawn
<1> DEFINE S == [text : Text \cup {JoinedText}, from : 1..Len(src)]
           Line(l) == [text |-> IF l = join THEN JoinedText ELSE src[l], from |-> l]
           Stays(l) == l \in kept /\ l # join + 1
           ss == [l \in 1..Len(src) |-> IF Stays(l) THEN <<Line(l)>> ELSE <<>>]
<1>1. Len(src) \in Nat /\ \A l \in 1..Len(src) : src[l] \in Text
  BY CorpusType
<1>2. \A l \in 1..Len(src) : Line(l) \in S
  BY <1>1
<1>3. woc = FlattenSeq(ss)
  BY DEF Folded
<1> HIDE DEF S, Stays
<1>4. \A l \in 1..Len(src) : ss[l] = IF Stays(l) THEN <<Line(l)>> ELSE <<>>
  OBVIOUS
<1>5. Len(ss) = Len(src) /\ ss \in Seq(Seq(S))
  <2>1. \A l \in 1..Len(src) : (IF Stays(l) THEN <<Line(l)>> ELSE <<>>) \in Seq(S)
    <3> HIDE DEF Line
    <3> QED BY <1>2
  <2> QED BY <1>1, <2>1
<1> HIDE DEF ss
<1>6. woc \in Seq(S) /\ \E row, col : Lays(woc, ss, Len(src), row, col)
  BY <1>3, <1>5, Flattened
<1>7. PICK row, col : Lays(woc, ss, Len(src), row, col)
  BY <1>6
<1>8. ASSUME NEW k \in 1..Len(woc)
      PROVE  /\ row[k] \in 1..Len(src) /\ woc[k].from = row[k] /\ col[k] = 1
             /\ woc[k].text = IF row[k] = join THEN JoinedText ELSE src[row[k]]
  <2>1. row[k] \in 1..Len(src) /\ col[k] \in 1..Len(ss[row[k]]) /\ woc[k] = ss[row[k]][col[k]]
    BY <1>7 DEF Lays
  <2>2. ss[row[k]] = <<Line(row[k])>>
    <3> HIDE DEF Line
    <3>1. CASE ~Stays(row[k])
      <4>1. ss[row[k]] = <<>>
        BY <1>4, <2>1, <3>1
      <4> QED BY <2>1, <4>1
    <3> QED BY <1>4, <2>1, <3>1
  <2> HIDE DEF Line
  <2>3. col[k] = 1
    BY <2>1, <2>2
  <2>4. woc[k] = Line(row[k])
    BY <2>1, <2>2, <2>3
  <2>5. \A l : Line(l).from = l /\ Line(l).text = IF l = join THEN JoinedText ELSE src[l]
    BY DEF Line
  <2> QED BY <2>1, <2>3, <2>4, <2>5
<1>10. \A k \in 1..Len(woc) : woc[k].text = src[woc[k].from] \/ woc[k].text = JoinedText
  BY <1>8
<1>11. \A k, l \in 1..Len(woc) : k < l => woc[k].from < woc[l].from
  <2>1. \A k, l \in 1..Len(woc) : k < l => row[k] < row[l] \/ (row[k] = row[l] /\ col[k] < col[l])
    BY <1>7 DEF Lays
  <2> QED BY <1>8, <2>1
<1> QED BY <1>6, <1>10, <1>11 DEF S, Drawn

-----------------------------------------------------------------------------
(* fold_align *)

\* What the walk has mapped: lines to lines that equal them, in order, and no line of the
\* program that is not blank is passed over.
Mapped(l) == l \in 1..(fi - 1) /\ ~IsBlank(woc[l].text)

Walked ==
  /\ \A l \in 1..Len(woc) : Mapped(l) => fold_to_src[l] \in 1..(oi - 1) /\ src[fold_to_src[l]] = woc[l].text
  /\ \A k, l \in 1..Len(woc) : Mapped(k) /\ Mapped(l) /\ k < l => fold_to_src[k] < fold_to_src[l]
  /\ \A s \in 1..(oi - 1) : ~IsBlank(src[s]) => \E l \in 1..Len(woc) : Mapped(l) /\ fold_to_src[l] = s

Complete == fi = Len(woc) + 1 /\ oi = Len(src) + 1

FoldInv ==
  /\ TypeInvariant /\ Drawn /\ Walked
  /\ stage \in {"resolve", "done"} \/ next # 1 => Complete
  /\ stage = "fold" => next = 1

LEMMA InitFold == Init => FoldInv
<1> SUFFICES ASSUME Init PROVE FoldInv
  OBVIOUS
<1>1. PICK kept \in SUBSET (1..Len(src)), join \in {-1} \cup 1..(Len(src) - 1) : woc = Folded(src, kept, join)
  BY DEF Init
<1>2. woc \in Seq([text : Text \cup {JoinedText}, from : 1..Len(src)]) /\ Drawn
  BY <1>1, FoldedIsDrawn DEF Init
<1>3. Len(woc) \in Nat /\ Len(src) \in Nat
  BY <1>2, LenProperties, CorpusType DEF Init
<1>4. corpus \in Corpora /\ stage = "fold" /\ fi = 1 /\ oi = 1 /\ fold_to_src = <<>> /\ next = 1
      /\ taken = {} /\ origins = <<>>
  BY DEF Init
<1>5. TypeInvariant
  BY <1>2, <1>3, <1>4 DEF TypeInvariant
<1>6. Walked
  BY <1>4 DEF Walked, Mapped
<1> QED BY <1>2, <1>4, <1>5, <1>6 DEF FoldInv

\* Lines are not blank where they have the code of a statement.
LEMMA TextFacts ==
  ASSUME TypeInvariant
  PROVE  /\ Len(woc) \in Nat /\ \A l \in 1..Len(woc) : woc[l].text \in Text \cup {JoinedText}
                                                       /\ woc[l].from \in 1..Len(src)
         /\ fi \in Nat /\ oi \in Nat /\ fi >= 1 /\ oi >= 1
         /\ Len(fold_to_src) = fi - 1
         /\ \A l \in 1..(fi - 1) : fold_to_src[l] \in 0..Len(src)
         /\ Len(src) \in Nat /\ \A l \in 1..Len(src) : src[l] \in Text
         /\ JoinedText \notin Text /\ ~IsBlank(JoinedText)
<1>1. Len(woc) \in Nat /\ \A l \in 1..Len(woc) : woc[l] \in [text : Text \cup {JoinedText}, from : 1..Len(src)]
  BY LenProperties, ElementOfSeq DEF TypeInvariant
<1>2. Len(src) \in Nat /\ \A l \in 1..Len(src) : src[l] \in Text
  BY CorpusType DEF TypeInvariant
<1>3. Len(fold_to_src) = fi - 1 /\ \A l \in 1..Len(fold_to_src) : fold_to_src[l] \in 0..Len(src)
  BY ElementOfSeq DEF TypeInvariant
<1>4. JoinedText \notin Text /\ ~IsBlank(JoinedText)
  <2>1. JoinedText.code = Joined /\ Joined \notin Code \cup {Blank}
    BY ProvenanceAssumption DEF JoinedText
  <2> QED BY <2>1 DEF Text, IsBlank
<1>5. fi \in Nat /\ oi \in Nat /\ fi >= 1 /\ oi >= 1
  BY <1>1, <1>2 DEF TypeInvariant
<1> QED BY <1>1, <1>2, <1>3, <1>4, <1>5

\* A line that is appended is the last; the others stay.
LEMMA Appended ==
  ASSUME NEW S, NEW s \in Seq(S), NEW x \in S
  PROVE  /\ Append(s, x) \in Seq(S) /\ Len(Append(s, x)) = Len(s) + 1 /\ Len(s) \in Nat
         /\ Append(s, x)[Len(s) + 1] = x /\ \A k \in 1..Len(s) : Append(s, x)[k] = s[k]
BY AppendProperties, LenProperties

LEMMA FoldBlankInv == FoldInv /\ FoldBlank => FoldInv'
<1> SUFFICES ASSUME FoldInv, FoldBlank PROVE FoldInv'
  OBVIOUS
<1>1. /\ stage = "fold" /\ fi <= Len(woc) /\ IsBlank(woc[fi].text) /\ fi' = fi + 1
      /\ fold_to_src' = Append(fold_to_src, 0)
      /\ UNCHANGED <<corpus, woc, stage, oi, next, taken, origins>>
  BY DEF FoldBlank, InFold
<1>2. TypeInvariant
  BY DEF FoldInv
<1>3. 0 \in 0..Len(src) /\ fold_to_src \in Seq(0..Len(src)) /\ Len(fold_to_src) = fi - 1
  BY <1>2, TextFacts DEF TypeInvariant
<1>4. /\ fold_to_src' \in Seq(0..Len(src)) /\ Len(fold_to_src') = fi
      /\ \A l \in 1..(fi - 1) : fold_to_src'[l] = fold_to_src[l]
  BY <1>1, <1>2, <1>3, Appended, TextFacts
<1>5. TypeInvariant'
  BY <1>1, <1>2, <1>4, TextFacts DEF TypeInvariant, src
<1>6. \A l \in 1..Len(woc) : Mapped(l)' <=> Mapped(l)
  <2>1. \A l : l \in 1..((fi + 1) - 1) <=> l \in 1..(fi - 1) \/ l = fi
    BY <1>2, TextFacts
  <2> QED BY <1>1, <2>1 DEF Mapped, IsBlank
<1>7. \A l \in 1..Len(woc) : Mapped(l) => fold_to_src'[l] = fold_to_src[l]
  BY <1>4 DEF Mapped
<1>8. Walked'
  <2>1. Walked
    BY DEF FoldInv
  <2> QED BY <1>1, <1>6, <1>7, <2>1 DEF Walked, src, IsBlank
<1>9. Drawn'
  BY <1>1 DEF FoldInv, Drawn, src
<1> QED BY <1>1, <1>5, <1>8, <1>9 DEF FoldInv

LEMMA SkipBlankInv == FoldInv /\ SkipBlank => FoldInv'
<1> SUFFICES ASSUME FoldInv, SkipBlank PROVE FoldInv'
  OBVIOUS
<1>1. /\ stage = "fold" /\ oi <= Len(src) /\ IsBlank(src[oi]) /\ oi' = oi + 1
      /\ UNCHANGED <<corpus, woc, stage, fi, fold_to_src, next, taken, origins>>
  BY DEF SkipBlank
<1>2. TypeInvariant
  BY DEF FoldInv
<1>3. TypeInvariant'
  BY <1>1, <1>2, TextFacts DEF TypeInvariant, src
<1>4. \A s : s \in 1..((oi + 1) - 1) <=> s \in 1..(oi - 1) \/ s = oi
  BY <1>2, TextFacts
<1>5. \A l : Mapped(l)' <=> Mapped(l)
  BY <1>1 DEF Mapped, IsBlank
<1>6. Walked'
  <2>1. Walked
    BY DEF FoldInv
  <2>2. /\ \A l \in 1..Len(woc) : Mapped(l) => fold_to_src[l] \in 1..((oi + 1) - 1) /\ src[fold_to_src[l]] = woc[l].text
        /\ \A s \in 1..((oi + 1) - 1) : ~IsBlank(src[s]) => \E l \in 1..Len(woc) : Mapped(l) /\ fold_to_src[l] = s
    BY <1>1, <1>4, <2>1 DEF Walked
  <2>3. \A k, l \in 1..Len(woc) : Mapped(k) /\ Mapped(l) /\ k < l => fold_to_src[k] < fold_to_src[l]
    BY <2>1 DEF Walked
  <2>4. src' = src
    BY <1>1 DEF src
  <2> QED BY <1>1, <1>5, <2>2, <2>3, <2>4 DEF Walked, IsBlank
<1>7. Drawn'
  BY <1>1 DEF FoldInv, Drawn, src
<1> QED BY <1>1, <1>3, <1>6, <1>7 DEF FoldInv

LEMMA FoldMatchInv == FoldInv /\ FoldMatch => FoldInv'
<1> SUFFICES ASSUME FoldInv, FoldMatch PROVE FoldInv'
  OBVIOUS
<1>1. /\ stage = "fold" /\ fi <= Len(woc) /\ ~IsBlank(woc[fi].text)
      /\ oi <= Len(src) /\ woc[fi].text = src[oi]
      /\ fi' = fi + 1 /\ oi' = oi + 1
      /\ fold_to_src' = Append(fold_to_src, oi)
      /\ UNCHANGED <<corpus, woc, stage, next, taken, origins>>
  BY DEF FoldMatch, InFold, Matches
<1>2. TypeInvariant
  BY DEF FoldInv
<1>3. oi \in 1..Len(src) /\ oi \in 0..Len(src) /\ fold_to_src \in Seq(0..Len(src)) /\ Len(fold_to_src) = fi - 1
  BY <1>1, <1>2, TextFacts DEF TypeInvariant
<1>4. /\ fold_to_src' \in Seq(0..Len(src)) /\ Len(fold_to_src') = fi
      /\ fold_to_src'[fi] = oi /\ \A l \in 1..(fi - 1) : fold_to_src'[l] = fold_to_src[l]
  BY <1>1, <1>2, <1>3, Appended, TextFacts
<1>5. TypeInvariant'
  BY <1>1, <1>2, <1>4, TextFacts DEF TypeInvariant, src
<1>6. \A l \in 1..Len(woc) : Mapped(l)' <=> Mapped(l) \/ l = fi
  <2>1. \A l : l \in 1..((fi + 1) - 1) <=> l \in 1..(fi - 1) \/ l = fi
    BY <1>2, TextFacts
  <2> QED BY <1>1, <2>1 DEF Mapped, IsBlank
<1>7. \A l \in 1..Len(woc) : Mapped(l) => fold_to_src'[l] = fold_to_src[l] /\ l < fi
  <2>1. \A l \in 1..(fi - 1) : l < fi
    BY <1>2, TextFacts
  <2> QED BY <1>4, <2>1 DEF Mapped
<1>8. \A s : s \in 1..((oi + 1) - 1) <=> s \in 1..(oi - 1) \/ s = oi
  BY <1>3
<1>9. Walked /\ src' = src /\ fi \in 1..Len(woc) /\ fi \in Nat /\ oi \in Nat
  BY <1>1, <1>2, TextFacts DEF FoldInv, src
<1>10. ASSUME NEW l \in 1..Len(woc), Mapped(l) \/ l = fi
       PROVE  fold_to_src'[l] \in 1..((oi + 1) - 1) /\ src[fold_to_src'[l]] = woc[l].text
  BY <1>1, <1>4, <1>7, <1>8, <1>9, <1>10 DEF Walked
<1>11. ASSUME NEW k \in 1..Len(woc), NEW l \in 1..Len(woc), Mapped(k) \/ k = fi, Mapped(l) \/ l = fi, k < l
       PROVE  fold_to_src'[k] < fold_to_src'[l]
  <2>1. CASE Mapped(k) /\ Mapped(l)
    BY <1>7, <1>9, <1>11, <2>1 DEF Walked
  <2>2. CASE Mapped(k) /\ l = fi
    <3>1. fold_to_src[k] \in 1..(oi - 1)
      BY <1>9, <2>2 DEF Walked
    <3> QED BY <1>4, <1>7, <1>9, <2>2, <3>1
  <2>3. CASE k = fi
    BY <1>7, <1>9, <1>11, <2>3
  <2> QED BY <1>11, <2>1, <2>2, <2>3
<1>12. ASSUME NEW s \in 1..((oi + 1) - 1), ~IsBlank(src[s])
       PROVE  \E l \in 1..Len(woc) : (Mapped(l) \/ l = fi) /\ fold_to_src'[l] = s
  <2>1. CASE s = oi
    BY <1>4, <1>9, <2>1
  <2>2. CASE s \in 1..(oi - 1)
    <3>1. PICK l \in 1..Len(woc) : Mapped(l) /\ fold_to_src[l] = s
      BY <1>9, <1>12, <2>2 DEF Walked
    <3> QED BY <1>7, <3>1
  <2> QED BY <1>8, <2>1, <2>2
<1>13. Walked'
  BY <1>1, <1>6, <1>9, <1>10, <1>11, <1>12 DEF Walked, IsBlank
<1>14. Drawn'
  BY <1>1 DEF FoldInv, Drawn, src
<1> QED BY <1>1, <1>5, <1>13, <1>14 DEF FoldInv

\* Tracing changes nothing of what the walk has found.
LEMMA WalkStays ==
  ASSUME UNCHANGED <<corpus, woc, fi, oi, fold_to_src>>
  PROVE  (Walked' <=> Walked) /\ (Drawn' <=> Drawn) /\ (Complete' <=> Complete) /\ src' = src
<1>1. src' = src
  BY DEF src
<1>2. \A l : Mapped(l)' <=> Mapped(l)
  BY DEF Mapped, IsBlank
<1>3. Walked' <=> Walked
  BY <1>1, <1>2 DEF Walked, IsBlank
<1> QED BY <1>1, <1>3 DEF Drawn, Complete

LEMMA LeftOrHeld ==
  ASSUME TypeInvariant, NEW t
  PROVE  /\ Left(t) # {} => Least(Left(t)) \in Left(t) /\ \A l \in Left(t) : Least(Left(t)) <= l
         /\ Holding(t) # {} =>
              LET b == BookOrder[Least(Holding(t))]
              IN  b \in Books /\ Least(InBook(b, t)) \in InBook(b, t)
<1>1. Left(t) \in SUBSET Nat
  BY DEF Left
<1>2. Holding(t) \in SUBSET Nat
  BY DEF Holding
<1>3. ASSUME Holding(t) # {}
      PROVE  LET b == BookOrder[Least(Holding(t))] IN b \in Books /\ Least(InBook(b, t)) \in InBook(b, t)
  <2>1. Least(Holding(t)) \in Holding(t)
    BY <1>2, <1>3, LeastExists
  <2> DEFINE b == BookOrder[Least(Holding(t))]
  <2>2. b \in Books /\ InBook(b, t) # {}
    BY <2>1 DEF Holding, Books
  <2>3. InBook(b, t) \in SUBSET Nat
    BY DEF InBook
  <2> QED BY <2>2, <2>3, LeastExists
<1> QED BY <1>1, <1>3, LeastExists

LEMMA FoundInv ==
  ASSUME FoldInv, stage = "resolve", NEW source \in Books \cup {"program"}, NEW line \in Nat,
         Found(source, line), taken' \in SUBSET (1..Len(woc))
  PROVE  FoldInv'
<1>1. /\ origins' = Append(origins, [source |-> source, line |-> line]) /\ next' = next + 1
      /\ UNCHANGED <<corpus, woc, stage, fi, oi, fold_to_src>>
  BY DEF Found
<1>2. TypeInvariant /\ Complete /\ next \in Nat
  BY DEF FoldInv, TypeInvariant
<1>3. /\ origins' \in Seq([source : Books \cup {"program"}, line : Nat])
      /\ Len(origins') = next
  <2>1. [source |-> source, line |-> line] \in [source : Books \cup {"program"}, line : Nat]
    OBVIOUS
  <2> QED BY <1>1, <1>2, <2>1, Appended DEF TypeInvariant
<1>4. TypeInvariant'
  BY <1>1, <1>2, <1>3 DEF TypeInvariant, src
<1> QED BY <1>1, <1>2, <1>4, WalkStays DEF FoldInv

LEMMA NextFold == FoldInv /\ [Next]_vars => FoldInv'
<1> SUFFICES ASSUME FoldInv, [Next]_vars PROVE FoldInv'
  OBVIOUS
<1>1. TypeInvariant
  BY DEF FoldInv
<1>2. ASSUME UNCHANGED <<corpus, woc, fi, oi, fold_to_src, next, taken, origins>>,
             stage' \in {"resolve", "done", "refused"}, stage' \in {"resolve", "done"} => Complete
      PROVE  FoldInv'
  <2>1. TypeInvariant'
    BY <1>1, <1>2 DEF TypeInvariant, src
  <2> QED BY <1>2, <2>1, WalkStays DEF FoldInv
<1>3. CASE FoldRefuse \/ Unconsumed \/ ResolveRefuse
  BY <1>2, <1>3 DEF FoldRefuse, Unconsumed, ResolveRefuse, Refuse
<1>4. CASE FoldDone
  <2>1. Complete
    BY <1>1, <1>4, TextFacts DEF FoldDone, TypeInvariant, Complete
  <2> QED BY <1>2, <1>4, <2>1 DEF FoldDone
<1>5. CASE ResolveDone
  <2>1. Complete
    BY <1>5 DEF ResolveDone, FoldInv
  <2> QED BY <1>2, <1>5, <2>1 DEF ResolveDone
<1>6. CASE ResolveNative
  <2> DEFINE t == Nodes[next].text
             l == Least(Left(t))
  <2>1. l \in 1..Len(woc)
    BY <1>1, <1>6, LeftOrHeld DEF ResolveNative, Left
  <2>2. stage = "resolve" /\ Found("program", fold_to_src[l]) /\ taken' = taken \cup {l}
    BY <1>6 DEF ResolveNative, Resolving
  <2>3. fi = Len(woc) + 1
    BY <2>2 DEF FoldInv, Complete
  <2> HIDE DEF l
  <2>4. fold_to_src[l] \in Nat
    BY <1>1, <2>1, <2>3, TextFacts
  <2>5. taken' \in SUBSET (1..Len(woc))
    BY <1>1, <2>1, <2>2 DEF TypeInvariant
  <2> QED BY <2>2, <2>4, <2>5, FoundInv
<1>7. CASE ResolveCopybook
  <2> DEFINE t == Nodes[next].text
             b == BookOrder[Least(Holding(t))]
             k == Least(InBook(b, t))
  <2>1. stage = "resolve" /\ Found(b, k) /\ taken' = taken
    BY <1>7 DEF ResolveCopybook, Resolving
  <2>2. b \in Books /\ k \in Nat
    <3>1. Holding(t) # {}
      BY <1>7 DEF ResolveCopybook
    <3>2. b \in Books /\ k \in InBook(b, t)
      BY <1>1, <3>1, LeftOrHeld
    <3>3. \A x, y : InBook(x, y) \subseteq Nat
      BY DEF InBook
    <3> HIDE DEF b, k
    <3> QED BY <3>2, <3>3
  <2>3. taken' \in SUBSET (1..Len(woc))
    BY <1>1, <2>1 DEF TypeInvariant
  <2> HIDE DEF b, k
  <2> QED BY <2>1, <2>2, <2>3, FoundInv
<1>8. CASE UNCHANGED vars
  <2>1. UNCHANGED <<corpus, woc, stage, fi, oi, fold_to_src, next, taken, origins>>
    BY <1>8 DEF vars
  <2>2. TypeInvariant'
    BY <1>1, <2>1 DEF TypeInvariant, src
  <2> QED BY <2>1, <2>2, WalkStays DEF FoldInv
<1> QED BY <1>3, <1>4, <1>5, <1>6, <1>7, <1>8, FoldBlankInv, SkipBlankInv, FoldMatchInv DEF Next

\* The walk is the true one when it is complete.  Were a line mapped behind the line it
\* comes from, that line would be mapped from an earlier one, which is mapped behind its
\* own too, and so on without end; likewise for a line mapped before its own.
LEMMA CompleteIsTrue ==
  ASSUME FoldInv, Complete
  PROVE  \A l \in 1..Len(woc) : ~IsBlank(woc[l].text) =>
           /\ fold_to_src[l] = woc[l].from
           /\ woc[l].text = src[woc[l].from]
<1> DEFINE n == Len(woc)
           Written == {l \in 1..n : ~IsBlank(woc[l].text)}
           to(l) == fold_to_src[l]
           from(l) == woc[l].from
<1>1. TypeInvariant /\ n \in Nat /\ fi - 1 = n /\ oi - 1 = Len(src) /\ Len(src) \in Nat
  BY TextFacts DEF FoldInv, Complete
<1>2. \A l \in Written : to(l) \in 1..Len(src) /\ src[to(l)] = woc[l].text
  BY <1>1 DEF FoldInv, Walked, Mapped
<1>3. \A k, l \in Written : k < l => to(k) < to(l)
  BY <1>1 DEF FoldInv, Walked, Mapped
<1>4. \A s \in 1..Len(src) : ~IsBlank(src[s]) => \E l \in Written : to(l) = s
  BY <1>1 DEF FoldInv, Walked, Mapped
<1>5. \A l \in Written : woc[l].text # JoinedText
  BY <1>1, <1>2, TextFacts
<1>6. \A l \in Written : from(l) \in 1..Len(src) /\ woc[l].text = src[from(l)] /\ ~IsBlank(src[from(l)])
  BY <1>1, <1>5, TextFacts DEF FoldInv, Drawn
<1>7. \A k, l \in Written : k < l => from(k) < from(l)
  BY DEF FoldInv, Drawn
<1>8. \A l \in Written : l \in Nat
  BY <1>1
<1>9. Written \subseteq 1..n
  OBVIOUS
<1> HIDE DEF Written, to, from, n
<1>10. ASSUME NEW l \in Written
       PROVE  \E m \in Written : to(m) = from(l)
  BY <1>4, <1>6
<1>11. \A l \in Written : to(l) <= from(l)
  <2> DEFINE late == {l \in Written : ~(to(l) <= from(l))}
  <2> SUFFICES ASSUME late # {} PROVE FALSE
    OBVIOUS
  <2>1. late \in SUBSET Nat
    BY <1>8
  <2>2. PICK l \in late : \A k \in late : l <= k
    BY <2>1, LeastExists
  <2>3. PICK m \in Written : to(m) = from(l)
    BY <1>10
  <2>4. to(m) < to(l)
    BY <1>2, <1>6, <2>3
  <2>5. m < l
    BY <1>2, <1>3, <1>8, <2>4
  <2>6. from(m) < to(m)
    BY <1>7, <2>3, <2>5
  <2>7. m \in late
    BY <1>2, <1>6, <2>6
  <2> QED BY <1>8, <2>2, <2>5, <2>7
<1>12. \A l \in Written : from(l) <= to(l)
  <2> DEFINE early == {l \in Written : ~(from(l) <= to(l))}
  <2> SUFFICES ASSUME early # {} PROVE FALSE
    OBVIOUS
  <2>1. early \in SUBSET (1..n)
    BY <1>9
  <2>2. PICK l \in early : \A k \in early : k <= l
    BY <1>1, <2>1, GreatestExists
  <2>3. PICK m \in Written : to(m) = from(l)
    BY <1>10
  <2>4. to(l) < to(m)
    BY <1>2, <1>6, <2>3
  <2>5. l < m
    BY <1>2, <1>3, <1>8, <2>4
  <2>6. to(m) < from(m)
    BY <1>7, <2>3, <2>5
  <2>7. m \in early
    BY <1>2, <1>6, <2>6
  <2> QED BY <1>8, <2>2, <2>5, <2>7
<1>13. \A l \in Written : to(l) = from(l)
  BY <1>2, <1>6, <1>11, <1>12
<1> QED BY <1>6, <1>13 DEF Written, to, from, n

LEMMA InvAligned == FoldInv => ProvenanceInv
<1> SUFFICES ASSUME FoldInv, stage \in {"resolve", "done"}
             PROVE  /\ \A l \in 1..Len(woc) : ~IsBlank(woc[l].text) => fold_to_src[l] = woc[l].from
                    /\ {l \in 1..Len(src) : ~IsBlank(src[l])} \subseteq {fold_to_src[l] : l \in 1..Len(woc)}
  BY DEF ProvenanceInv, AlignedOrRefused, FoldInv
<1>1. Complete /\ TypeInvariant
  BY DEF FoldInv
<1>2. \A s \in 1..Len(src) : ~IsBlank(src[s]) => \E l \in 1..Len(woc) : fold_to_src[l] = s
  <2>1. oi - 1 = Len(src)
    BY <1>1, TextFacts DEF Complete
  <2> QED BY <2>1 DEF FoldInv, Walked
<1> QED BY <1>1, <1>2, CompleteIsTrue

-----------------------------------------------------------------------------
(* The statements *)

Node == [text : Text \cup {JoinedText}, source : Books \cup {"program"}, line : Nat]

IsOfBook(x) ==
  x.source \in Books /\ x.line \in 1..Len(corpus.book[x.source]) /\ x.text = corpus.book[x.source][x.line]

LEMMA SplicedItems ==
  ASSUME TypeInvariant, NEW l \in 1..Len(woc)
  PROVE  /\ Spliced(l) \in Seq(Node)
         /\ \A c \in 1..Len(Spliced(l)) :
              \/ woc[l].text.code \in CopyLines /\ IsOfBook(Spliced(l)[c])
              \/ /\ woc[l].text.code \notin CopyLines /\ c = 1
                 /\ Spliced(l)[c] = [text |-> woc[l].text, source |-> "program", line |-> woc[l].from]
         /\ woc[l].text.code \notin CopyLines => Len(Spliced(l)) = 1
<1>1. CASE woc[l].text.code \in CopyLines
  <2> DEFINE b == CopyOf[woc[l].text.code]
             Item(k) == [text |-> corpus.book[b][k], source |-> b, line |-> k]
             spliced == [k \in 1..Len(corpus.book[b]) |-> Item(k)]
  <2>1. b \in Books
    BY <1>1, ProvenanceAssumption
  <2>2. Len(corpus.book[b]) \in Nat /\ \A k \in 1..Len(corpus.book[b]) : corpus.book[b][k] \in Text
    BY <2>1, CorpusType DEF TypeInvariant
  <2>3. Spliced(l) = spliced
    BY <1>1 DEF Spliced
  <2> HIDE DEF b
  <2>4. \A k \in 1..Len(corpus.book[b]) : Item(k) \in Node /\ IsOfBook(Item(k))
    BY <2>1, <2>2 DEF Node, IsOfBook
  <2> HIDE DEF Item
  <2>5. spliced \in Seq(Node) /\ Len(spliced) = Len(corpus.book[b])
    BY <2>2, <2>4
  <2> QED BY <1>1, <2>3, <2>4, <2>5
<1>2. CASE woc[l].text.code \notin CopyLines
  <2> DEFINE x == [text |-> woc[l].text, source |-> "program", line |-> woc[l].from]
  <2>1. Spliced(l) = <<x>>
    BY <1>2 DEF Spliced
  <2>2. woc[l].text \in Text \cup {JoinedText} /\ woc[l].from \in Nat
    BY TextFacts
  <2>3. x \in Node
    BY <2>2 DEF Node
  <2> HIDE DEF x
  <2>4. <<x>> \in Seq(Node) /\ Len(<<x>>) = 1 /\ \A c \in 1..1 : c = 1 /\ <<x>>[c] = x
    BY <2>3
  <2> QED BY <1>2, <2>1, <2>4 DEF x
<1> QED BY <1>1, <1>2

LEMMA NodesOfItem ==
  ASSUME NEW x \in Node
  PROVE  /\ NodesOf(x) \in Seq(Node)
         /\ \A c \in 1..Len(NodesOf(x)) : NodesOf(x)[c] = x /\ x.text.code \in Code
         /\ x.text.code \in Code => Len(NodesOf(x)) = Starts[x.text.code] /\ Starts[x.text.code] \in Nat
<1>1. CASE x.text.code \in Code
  <2> DEFINE n == Starts[x.text.code]
  <2>1. n \in Nat
    BY <1>1, ProvenanceAssumption
  <2>2. NodesOf(x) = [k \in 1..n |-> x]
    BY <1>1 DEF NodesOf
  <2> HIDE DEF n
  <2>3. [k \in 1..n |-> x] \in Seq(Node) /\ Len([k \in 1..n |-> x]) = n
    BY <2>1
  <2> QED BY <1>1, <2>1, <2>2, <2>3 DEF n
<1>2. CASE x.text.code \notin Code
  BY <1>2 DEF NodesOf
<1> QED BY <1>1, <1>2

\* A statement is a line of the program or of a copybook that starts one; those of the
\* program stand in the order of its lines, and no line that starts a statement is left out.
LEMMA NodeFacts ==
  ASSUME TypeInvariant, Drawn
  PROVE  /\ Nodes \in Seq(Node)
         /\ \A k \in 1..Len(Nodes) :
              /\ Nodes[k].text.code \in Code /\ Starts[Nodes[k].text.code] \in Nat
              /\ Starts[Nodes[k].text.code] >= 1
              /\ \/ IsOfBook(Nodes[k])
                 \/ Nodes[k].source = "program" /\ \E l \in 1..Len(woc) :
                      Nodes[k].line = woc[l].from /\ Nodes[k].text = woc[l].text
         /\ \A j, k \in 1..Len(Nodes) :
              j < k /\ Nodes[j].source = "program" /\ Nodes[k].source = "program"
                => Nodes[j].line < Nodes[k].line \/ Starts[Nodes[k].text.code] > 1
         /\ \A l \in 1..Len(woc) :
              woc[l].text.code \in Code \ CopyLines /\ Starts[woc[l].text.code] >= 1
                => \E k \in 1..Len(Nodes) : /\ Nodes[k].source = "program" /\ Nodes[k].line = woc[l].from
                                            /\ Nodes[k].text = woc[l].text
<1> DEFINE ss == [l \in 1..Len(woc) |-> Spliced(l)]
           tt == [m \in 1..Len(Top) |-> NodesOf(Top[m])]
<1>1. Len(woc) \in Nat
  BY TextFacts
<1>2. ss \in Seq(Seq(Node)) /\ Len(ss) = Len(woc) /\ \A l \in 1..Len(woc) : ss[l] = Spliced(l)
  <2>1. \A l \in 1..Len(woc) : Spliced(l) \in Seq(Node)
    BY SplicedItems
  <2> QED BY <1>1, <2>1
<1>3. Top = FlattenSeq(ss)
  BY DEF Top
<1> HIDE DEF ss
<1>4. Top \in Seq(Node) /\ \E row, col : Lays(Top, ss, Len(woc), row, col)
  BY <1>2, <1>3, Flattened
<1>5. PICK row, col : Lays(Top, ss, Len(woc), row, col)
  BY <1>4
<1>6. Len(Top) \in Nat /\ \A m \in 1..Len(Top) : Top[m] \in Node
  BY <1>4, LenProperties, ElementOfSeq
<1>7. tt \in Seq(Seq(Node)) /\ Len(tt) = Len(Top) /\ \A m \in 1..Len(Top) : tt[m] = NodesOf(Top[m])
  <2>1. \A m \in 1..Len(Top) : NodesOf(Top[m]) \in Seq(Node)
    BY <1>6, NodesOfItem
  <2> QED BY <1>6, <2>1
<1>8. Nodes = FlattenSeq(tt)
  BY DEF Nodes
<1> HIDE DEF tt
<1>9. Nodes \in Seq(Node) /\ \E r, c : Lays(Nodes, tt, Len(Top), r, c)
  BY <1>7, <1>8, Flattened
<1>10. PICK r, c : Lays(Nodes, tt, Len(Top), r, c)
  BY <1>9
<1>11. ASSUME NEW m \in 1..Len(Top)
       PROVE  /\ row[m] \in 1..Len(woc)
              /\ \/ woc[row[m]].text.code \in CopyLines /\ IsOfBook(Top[m]) /\ Top[m].source # "program"
                 \/ /\ woc[row[m]].text.code \notin CopyLines /\ col[m] = 1
                    /\ Top[m].source = "program"
                    /\ Top[m].text = woc[row[m]].text /\ Top[m].line = woc[row[m]].from
  <2>1. row[m] \in 1..Len(woc) /\ col[m] \in 1..Len(Spliced(row[m])) /\ Top[m] = Spliced(row[m])[col[m]]
    BY <1>2, <1>5 DEF Lays
  <2>2. "program" \notin Books
    BY ProvenanceAssumption
  <2>3. CASE woc[row[m]].text.code \in CopyLines /\ IsOfBook(Spliced(row[m])[col[m]])
    BY <2>1, <2>2, <2>3 DEF IsOfBook
  <2>4. CASE /\ woc[row[m]].text.code \notin CopyLines /\ col[m] = 1
             /\ Spliced(row[m])[col[m]] = [text |-> woc[row[m]].text, source |-> "program", line |-> woc[row[m]].from]
    <3>1. Top[m] = [text |-> woc[row[m]].text, source |-> "program", line |-> woc[row[m]].from]
      BY <2>1, <2>4
    <3> QED BY <2>1, <2>4, <3>1
  <2> QED BY <2>1, <2>3, <2>4, SplicedItems
<1>12. ASSUME NEW k \in 1..Len(Nodes)
       PROVE  /\ r[k] \in 1..Len(Top) /\ Nodes[k] = Top[r[k]] /\ Nodes[k].text.code \in Code
              /\ Starts[Nodes[k].text.code] \in Nat
              /\ c[k] \in 1..Starts[Nodes[k].text.code]
  <2>1. r[k] \in 1..Len(Top) /\ c[k] \in 1..Len(NodesOf(Top[r[k]])) /\ Nodes[k] = NodesOf(Top[r[k]])[c[k]]
    BY <1>7, <1>10 DEF Lays
  <2>2. Nodes[k] = Top[r[k]] /\ Top[r[k]].text.code \in Code
    BY <1>6, <2>1, NodesOfItem
  <2>3. Len(NodesOf(Top[r[k]])) = Starts[Top[r[k]].text.code] /\ Starts[Top[r[k]].text.code] \in Nat
    BY <1>6, <2>1, <2>2, NodesOfItem
  <2> QED BY <2>1, <2>2, <2>3
<1>13. ASSUME NEW k \in 1..Len(Nodes)
       PROVE  /\ Nodes[k].text.code \in Code /\ Starts[Nodes[k].text.code] \in Nat
              /\ Starts[Nodes[k].text.code] >= 1
              /\ \/ IsOfBook(Nodes[k])
                 \/ Nodes[k].source = "program" /\ \E l \in 1..Len(woc) :
                      Nodes[k].line = woc[l].from /\ Nodes[k].text = woc[l].text
  <2>1. Starts[Nodes[k].text.code] >= 1
    BY <1>12
  <2>2. r[k] \in 1..Len(Top) /\ Nodes[k] = Top[r[k]]
    BY <1>12
  <2>3. \/ IsOfBook(Top[r[k]])
        \/ Top[r[k]].source = "program" /\ \E l \in 1..Len(woc) :
             Top[r[k]].line = woc[l].from /\ Top[r[k]].text = woc[l].text
    BY <1>11, <2>2
  <2> QED BY <1>12, <2>1, <2>2, <2>3
<1>14. ASSUME NEW j \in 1..Len(Nodes), NEW k \in 1..Len(Nodes), j < k,
              Nodes[j].source = "program", Nodes[k].source = "program"
       PROVE  Nodes[j].line < Nodes[k].line \/ Starts[Nodes[k].text.code] > 1
  <2>1. r[j] < r[k] \/ (r[j] = r[k] /\ c[j] < c[k])
    BY <1>10, <1>14 DEF Lays
  <2>2. CASE r[j] < r[k]
    <3>1. /\ row[r[j]] \in 1..Len(woc) /\ col[r[j]] = 1 /\ Nodes[j].line = woc[row[r[j]]].from
          /\ row[r[k]] \in 1..Len(woc) /\ col[r[k]] = 1 /\ Nodes[k].line = woc[row[r[k]]].from
      BY <1>11, <1>12, <1>14
    <3>2. row[r[j]] < row[r[k]] \/ (row[r[j]] = row[r[k]] /\ col[r[j]] < col[r[k]])
      BY <1>5, <1>12, <2>2 DEF Lays
    <3>3. row[r[j]] < row[r[k]]
      BY <3>1, <3>2
    <3> QED BY <3>1, <3>3 DEF Drawn
  <2>3. CASE r[j] = r[k] /\ c[j] < c[k]
    <3>1. c[j] \in Nat /\ c[j] >= 1 /\ c[k] \in Nat /\ c[k] <= Starts[Nodes[k].text.code]
          /\ Starts[Nodes[k].text.code] \in Nat
      BY <1>12
    <3> QED BY <2>3, <3>1
  <2> QED BY <2>1, <2>2, <2>3
<1>15. ASSUME NEW l \in 1..Len(woc), woc[l].text.code \in Code \ CopyLines, Starts[woc[l].text.code] >= 1
       PROVE  \E k \in 1..Len(Nodes) : /\ Nodes[k].source = "program" /\ Nodes[k].line = woc[l].from
                                       /\ Nodes[k].text = woc[l].text
  <2>1. Len(Spliced(l)) = 1 /\ 1 \in 1..1
    <3>1. woc[l].text.code \notin CopyLines
      BY <1>15
    <3>2. woc[l].text.code \notin CopyLines => Len(Spliced(l)) = 1
      BY SplicedItems
    <3> QED BY <3>1, <3>2
  <2>2. PICK m \in 1..Len(Top) : row[m] = l /\ col[m] = 1
    <3>1. 1 \in 1..Len(ss[l])
      BY <1>2, <2>1
    <3>2. \A i \in 1..Len(woc) : \A j \in 1..Len(ss[i]) : \E k \in 1..Len(Top) : row[k] = i /\ col[k] = j
      BY <1>5 DEF Lays
    <3> QED BY <3>1, <3>2
  <2>4. Top[m].text = woc[l].text /\ Top[m].source = "program" /\ Top[m].line = woc[l].from
    BY <1>11, <1>15, <2>2
  <2>5. Len(NodesOf(Top[m])) = Starts[woc[l].text.code] /\ Starts[woc[l].text.code] \in Nat
    BY <1>6, <1>15, <2>4, NodesOfItem
  <2>6. 1 \in 1..Len(NodesOf(Top[m]))
    BY <1>15, <2>5
  <2>7. PICK k \in 1..Len(Nodes) : r[k] = m /\ c[k] = 1
    BY <1>7, <1>10, <2>6 DEF Lays
  <2> QED BY <1>12, <2>4, <2>7
<1> QED BY <1>9, <1>13, <1>14, <1>15

-----------------------------------------------------------------------------
(* The origins *)

\* An origin in the program is where a folded line was mapped that has the statement's
\* text and was taken for it; one in a copybook has the statement's code.
Backed(k) ==
  LET o == origins[k]
  IN  IF o.source = "program"
      THEN \E l \in taken : ~IsBlank(woc[l].text) /\ o.line = fold_to_src[l] /\ woc[l].text = Nodes[k].text
      ELSE corpus.book[o.source][o.line].code = Nodes[k].text.code

\* The lines that are taken are those of the statements passed, and each of these has
\* its own origin.
Traced ==
  /\ \A k \in 1..Len(origins) : origins[k] = [source |-> Nodes[k].source, line |-> Nodes[k].line]
  /\ \A l \in 1..Len(woc) :
       l \in taken <=> \E k \in 1..Len(origins) : Nodes[k].source = "program" /\ Nodes[k].line = woc[l].from

OriginInv ==
  /\ FoldInv
  /\ \A k \in 1..Len(origins) : Backed(k)
  /\ \A j, k \in 1..Len(origins) : j < k /\ origins[k].source = "program" => origins[j] # origins[k]
  /\ Unshared => Traced

LEMMA SameNodes ==
  ASSUME UNCHANGED <<corpus, woc>>
  PROVE  Nodes' = Nodes /\ (Unshared' <=> Unshared)
<1>1. \A l : Spliced(l)' = Spliced(l)
  BY DEF Spliced
<1>2. Top' = Top
  BY <1>1 DEF Top
<1>3. \A t : NodesOf(t)' = NodesOf(t)
  BY DEF NodesOf
<1>4. Nodes' = Nodes
  BY <1>2, <1>3 DEF Nodes
<1>5. Unshared' <=> Unshared
  BY DEF Unshared, InBook, src
<1> QED BY <1>4, <1>5

LEMMA InitOrigin == Init => OriginInv
<1> SUFFICES ASSUME Init PROVE OriginInv
  OBVIOUS
<1>1. origins = <<>> /\ taken = {} /\ FoldInv
  BY InitFold DEF Init
<1>2. 1..Len(origins) = {}
  BY <1>1
<1> QED BY <1>1, <1>2 DEF OriginInv, Traced

\* Steps that trace no statement
LEMMA UntracedInv ==
  ASSUME OriginInv, FoldInv', UNCHANGED <<corpus, woc, next, taken, origins>>,
         stage = "fold" \/ fold_to_src' = fold_to_src
  PROVE  OriginInv'
<1>1. Nodes' = Nodes /\ (Unshared' <=> Unshared)
  BY SameNodes
<1>2. CASE stage = "fold"
  <2>1. Len(origins) = 0
    BY <1>2 DEF OriginInv, FoldInv, TypeInvariant
  <2>2. 1..Len(origins) = {}
    BY <2>1
  <2>3. Traced' <=> Traced
    BY <1>1 DEF Traced
  <2> QED BY <1>1, <2>2, <2>3 DEF OriginInv
<1>3. CASE fold_to_src' = fold_to_src
  <2>1. \A k : Backed(k)' <=> Backed(k)
    BY <1>1, <1>3 DEF Backed, IsBlank
  <2>2. Traced' <=> Traced
    BY <1>1 DEF Traced
  <2> QED BY <1>1, <2>1, <2>2 DEF OriginInv
<1> QED BY <1>2, <1>3

\* A statement that is traced adds its origin to those there are.
LEMMA TracedOne ==
  ASSUME OriginInv, FoldInv', stage = "resolve", NEW source, NEW line, Found(source, line),
         source \in Books \cup {"program"}, line \in Nat
  PROVE  /\ Len(origins') = next /\ Len(origins) = next - 1 /\ next \in Nat /\ next >= 1
         /\ \A k \in 1..(next - 1) : origins'[k] = origins[k]
         /\ origins'[next] = [source |-> source, line |-> line]
         /\ \A k : k \in 1..next <=> k \in 1..(next - 1) \/ k = next
         /\ Nodes' = Nodes /\ (Unshared' <=> Unshared)
<1>1. origins \in Seq([source : Books \cup {"program"}, line : Nat]) /\ next \in Nat /\ Len(origins) = next - 1
  BY DEF OriginInv, FoldInv, TypeInvariant
<1>2. [source |-> source, line |-> line] \in [source : Books \cup {"program"}, line : Nat]
  OBVIOUS
<1>3. origins' = Append(origins, [source |-> source, line |-> line])
  BY DEF Found
<1> DEFINE x == [source |-> source, line |-> line]
<1>4. x \in [source : Books \cup {"program"}, line : Nat] /\ origins' = Append(origins, x)
  BY <1>2, <1>3
<1> HIDE DEF x
<1>5. /\ Len(origins') = Len(origins) + 1 /\ Len(origins) \in Nat
      /\ origins'[Len(origins) + 1] = x /\ \A k \in 1..Len(origins) : origins'[k] = origins[k]
  BY <1>1, <1>4, Appended
<1>6. next >= 1 /\ Len(origins) + 1 = next
  BY <1>1, <1>5
<1>7. \A k : k \in 1..next <=> k \in 1..(next - 1) \/ k = next
  BY <1>1, <1>6
<1>8. Nodes' = Nodes /\ (Unshared' <=> Unshared)
  BY SameNodes DEF Found
<1> QED BY <1>1, <1>5, <1>6, <1>7, <1>8 DEF x


\* What a function takes a finite set to is finite.
LEMMA ImageIsFinite ==
  ASSUME NEW S, IsFiniteSet(S), NEW f
  PROVE  IsFiniteSet({f[x] : x \in S})
<1> DEFINE T == {f[x] : x \in S}
           g == [x \in S |-> f[x]]
<1>1. g \in Surjection(S, T)
  BY DEF Surjection
<1> QED BY <1>1, FS_Surjection

\* Where lines are not shared, a statement that a copybook holds is on one line of one
\* copybook, and the program does not hold it.
LEMMA UnsharedFacts ==
  ASSUME TypeInvariant, Unshared, NEW c \in Code, Starts[c] \in Nat, Starts[c] >= 1
  PROVE  /\ \A l \in 1..Len(src) : src[l].code = c => Starts[c] = 1
         /\ \A b \in Books : \A k \in 1..Len(corpus.book[b]) : corpus.book[b][k].code = c =>
              /\ Starts[c] = 1
              /\ ~\E l \in 1..Len(src) : src[l].code = c
              /\ \A d \in Books : \A j \in 1..Len(corpus.book[d]) :
                   corpus.book[d][j].code = c => d = b /\ j = k
<1> DEFINE t == [code |-> c, seq |-> FALSE]
           of == [b \in Books |-> {<<b, k>> : k \in InBook(b, t)}]
           inBooks == UNION {{<<b, k>> : k \in InBook(b, t)} : b \in Books}
           inProgram == {l \in 1..Len(src) : src[l].code = c}
<1>1. /\ Starts[c] > 1 => inBooks = {} /\ inProgram = {}
      /\ Starts[c] = 1 /\ inBooks # {} => Cardinality(inBooks) = 1 /\ inProgram = {}
  BY DEF Unshared
<1>2. \A b \in Books : InBook(b, t) = {k \in 1..Len(corpus.book[b]) : corpus.book[b][k].code = c}
  BY DEF InBook
<1>3. IsFiniteSet(inBooks)
  <2>1. IsFiniteSet(Books)
    <3>1. Len(BookOrder) \in Nat
      BY ProvenanceAssumption, LenProperties
    <3>2. IsFiniteSet(1..Len(BookOrder))
      BY <3>1, FS_Interval
    <3> QED BY <3>2, ImageIsFinite DEF Books
  <2>2. \A b \in Books : IsFiniteSet(of[b])
    <3> TAKE b \in Books
    <3> DEFINE n == Len(corpus.book[b])
               held == InBook(b, t)
               at == [k \in held |-> <<b, k>>]
    <3>1. n \in Nat
      BY CorpusType DEF TypeInvariant
    <3>2. held \in SUBSET (1..n)
      BY <1>2
    <3>3. of[b] = {at[k] : k \in held}
      OBVIOUS
    <3> HIDE DEF n, held, at, of
    <3>4. IsFiniteSet(1..n)
      BY <3>1, FS_Interval
    <3>5. IsFiniteSet(held)
      BY <3>2, <3>4, FS_Subset
    <3> QED BY <3>3, <3>5, ImageIsFinite
  <2>3. inBooks = UNION {of[b] : b \in Books}
    OBVIOUS
  <2> HIDE DEF of
  <2>4. IsFiniteSet({of[b] : b \in Books})
    BY <2>1, ImageIsFinite
  <2> QED BY <2>2, <2>3, <2>4, FS_UNION
<1>4. ASSUME NEW l \in 1..Len(src), src[l].code = c
      PROVE  Starts[c] = 1
  <2>1. l \in inProgram
    BY <1>4
  <2> QED BY <1>1, <2>1
<1>5. ASSUME NEW b \in Books, NEW k \in 1..Len(corpus.book[b]), corpus.book[b][k].code = c
      PROVE  /\ Starts[c] = 1
             /\ ~\E l \in 1..Len(src) : src[l].code = c
             /\ \A d \in Books : \A j \in 1..Len(corpus.book[d]) :
                  corpus.book[d][j].code = c => d = b /\ j = k
  <2>1. \A d \in Books : \A j \in 1..Len(corpus.book[d]) :
          corpus.book[d][j].code = c => <<d, j>> \in inBooks
    <3>1. \A d \in Books : \A j \in 1..Len(corpus.book[d]) : corpus.book[d][j].code = c => j \in InBook(d, t)
      BY <1>2
    <3>2. \A d \in Books : \A j \in InBook(d, t) : <<d, j>> \in inBooks
      OBVIOUS
    <3> QED BY <3>1, <3>2
  <2>2. <<b, k>> \in inBooks
    BY <1>5, <2>1
  <2> HIDE DEF inBooks
  <2>3. Starts[c] = 1 /\ Cardinality(inBooks) = 1 /\ inProgram = {}
    BY <1>1, <2>2
  <2>4. PICK x : inBooks = {x}
    BY <1>3, <2>3, FS_Singleton
  <2>5. \A d \in Books : \A j \in 1..Len(corpus.book[d]) :
          corpus.book[d][j].code = c => <<d, j>> = <<b, k>>
    BY <2>1, <2>2, <2>4
  <2> QED BY <2>3, <2>5
<1> QED BY <1>4, <1>5

\* A statement that takes a line takes its own where lines are not shared: all the earlier
\* lines with its text were taken by the statements on them.
LEMMA TakesItsLine ==
  ASSUME OriginInv, stage = "resolve", Unshared, NEW l, next \in 1..Len(Nodes),
         l \in Left(Nodes[next].text), \A j \in Left(Nodes[next].text) : l <= j
  PROVE  Nodes[next].source = "program" /\ Nodes[next].line = woc[l].from
<1> DEFINE x == Nodes[next]
           code == x.text.code
<1>1. FoldInv /\ TypeInvariant /\ Drawn /\ Complete /\ Traced /\ Len(origins) = next - 1 /\ next \in Nat
  BY DEF OriginInv, FoldInv, TypeInvariant
<1>2. /\ x.text.code \in Code /\ Starts[x.text.code] \in Nat /\ Starts[x.text.code] >= 1
      /\ \/ IsOfBook(x)
         \/ x.source = "program" /\ \E k \in 1..Len(woc) : x.line = woc[k].from /\ x.text = woc[k].text
  BY <1>1, NodeFacts
<1>3. l \in 1..Len(woc) /\ woc[l].text = x.text /\ l \notin taken /\ Len(woc) \in Nat
  BY <1>1, TextFacts DEF Left
<1>4. ~IsBlank(x.text)
  BY <1>2, ProvenanceAssumption DEF IsBlank
<1>5. /\ \A k \in 1..Len(woc) : woc[k].from \in 1..Len(src) /\ woc[k].from \in Nat
      /\ \A k \in 1..Len(woc) : woc[k].text = x.text => src[woc[k].from] = x.text
  BY <1>1, <1>4, CompleteIsTrue, TextFacts
<1>6. Starts[code] = 1
  BY <1>1, <1>2, <1>3, <1>5, UnsharedFacts
<1>7. ~IsOfBook(x)
  <2> SUFFICES ASSUME IsOfBook(x) PROVE FALSE
    OBVIOUS
  <2>1. x.source \in Books /\ x.line \in 1..Len(corpus.book[x.source]) /\ corpus.book[x.source][x.line].code = code
    BY DEF IsOfBook
  <2>2. \E k \in 1..Len(src) : src[k].code = code
    BY <1>3, <1>5
  <2> QED BY <1>1, <1>2, <2>1, <2>2, UnsharedFacts
<1>8. PICK own \in 1..Len(woc) : x.source = "program" /\ x.line = woc[own].from /\ x.text = woc[own].text
  BY <1>2, <1>7
<1>9. \A j, k \in 1..Len(Nodes) :
        j < k /\ Nodes[j].source = "program" /\ Nodes[k].source = "program"
          => Nodes[j].line < Nodes[k].line \/ Starts[Nodes[k].text.code] > 1
  BY <1>1, NodeFacts
<1>10. Len(Nodes) \in Nat /\ \A k \in 1..Len(origins) : k \in 1..Len(Nodes) /\ k < next
  BY <1>1, NodeFacts, LenProperties
<1>11. own \notin taken
  <2> SUFFICES ASSUME own \in taken PROVE FALSE
    OBVIOUS
  <2>1. PICK k \in 1..Len(origins) : Nodes[k].source = "program" /\ Nodes[k].line = woc[own].from
    BY <1>1 DEF Traced
  <2> QED BY <1>5, <1>6, <1>8, <1>9, <1>10, <2>1
<1>12. l <= own
  BY <1>8, <1>11 DEF Left
<1>13. ~(l < own)
  <2> SUFFICES ASSUME l < own PROVE FALSE
    OBVIOUS
  <2>1. woc[l].from < woc[own].from
    BY <1>1, <1>3 DEF Drawn
  <2>2. code \notin CopyLines
    BY <1>6, ProvenanceAssumption
  <2>3. PICK k \in 1..Len(Nodes) : /\ Nodes[k].source = "program" /\ Nodes[k].line = woc[l].from
                                   /\ Nodes[k].text = woc[l].text
    BY <1>1, <1>2, <1>3, <2>2, NodeFacts
  <2>4. k \notin 1..Len(origins)
    BY <1>1, <1>3, <2>3 DEF Traced
  <2>5. k = next \/ next < k
    BY <1>1, <1>10, <2>4
  <2>6. CASE k = next
    BY <1>3, <1>5, <1>8, <2>1, <2>3, <2>6
  <2>7. CASE next < k
    <3>1. Nodes[next].line < Nodes[k].line \/ Starts[Nodes[k].text.code] > 1
      BY <1>8, <1>9, <2>3, <2>7
    <3>2. Nodes[k].text.code = code
      BY <1>3, <2>3
    <3> QED BY <1>3, <1>5, <1>6, <1>8, <2>1, <2>3, <3>1, <3>2
  <2> QED BY <2>5, <2>6, <2>7
<1>14. l = own
  BY <1>3, <1>12, <1>13
<1> QED BY <1>8, <1>14

LEMMA NativeInv == OriginInv /\ ResolveNative /\ FoldInv' => OriginInv'
<1> SUFFICES ASSUME OriginInv, ResolveNative, FoldInv' PROVE OriginInv'
  OBVIOUS
<1> DEFINE t == Nodes[next].text
           l == Least(Left(t))
           s == fold_to_src[l]
<1>1. /\ stage = "resolve" /\ next <= Len(Nodes) /\ Left(t) # {} /\ src[s] = t
      /\ Found("program", s) /\ taken' = taken \cup {l}
  BY DEF ResolveNative, Resolving
<1>2. FoldInv /\ TypeInvariant /\ Drawn /\ Complete /\ next \in Nat /\ Len(origins) = next - 1
  BY <1>1 DEF OriginInv, FoldInv, TypeInvariant
<1>3. l \in Left(t) /\ \A j \in Left(t) : l <= j
  BY <1>1, <1>2, LeftOrHeld
<1>4. l \in 1..Len(woc) /\ woc[l].text = t /\ l \notin taken
  BY <1>3 DEF Left
<1>5. Len(Nodes) \in Nat
  BY <1>2, NodeFacts, LenProperties
<1>6. next \in 1..Len(Nodes)
  <2>1. Len(origins) \in Nat
    BY <1>2, LenProperties DEF TypeInvariant
  <2> QED BY <1>1, <1>2, <1>5, <2>1
<1>7. t.code \in Code
  BY <1>2, <1>6, NodeFacts
<1>8. ~IsBlank(t)
  BY <1>7, ProvenanceAssumption DEF IsBlank
<1>9. /\ \A k \in 1..Len(woc) : ~IsBlank(woc[k].text) => fold_to_src[k] = woc[k].from
      /\ \A k \in 1..Len(woc) : woc[k].from \in Nat
      /\ \A j, k \in 1..Len(woc) : woc[j].from = woc[k].from => j = k
  <2>1. \A k \in 1..Len(woc) : woc[k].from \in Nat
    BY <1>2, TextFacts
  <2>2. \A j, k \in 1..Len(woc) : woc[j].from = woc[k].from => j = k
    BY <1>2, <2>1, TextFacts DEF Drawn
  <2> QED BY <1>2, <2>1, <2>2, CompleteIsTrue
<1>10. s = woc[l].from /\ s \in Nat
  BY <1>4, <1>8, <1>9
<1> HIDE DEF l, s
<1>11. /\ Len(origins') = next /\ next >= 1
       /\ \A k \in 1..(next - 1) : origins'[k] = origins[k]
       /\ origins'[next] = [source |-> "program", line |-> s]
       /\ \A k : k \in 1..next <=> k \in 1..(next - 1) \/ k = next
       /\ Nodes' = Nodes /\ (Unshared' <=> Unshared)
  BY <1>1, <1>10, TracedOne
<1>12. UNCHANGED <<corpus, woc, fold_to_src>>
  BY <1>1 DEF Found
<1>13. ASSUME NEW k \in 1..next
       PROVE  Backed(k)'
  <2>1. CASE k \in 1..(next - 1)
    <3>1. Backed(k)
      BY <1>2, <2>1 DEF OriginInv
    <3>2. origins'[k] = origins[k]
      BY <1>11, <2>1
    <3> QED BY <1>1, <1>11, <1>12, <3>1, <3>2 DEF Backed, IsBlank
  <2>2. CASE k = next
    <3>1. origins'[k].source = "program" /\ origins'[k].line = s
      BY <1>11, <2>2
    <3>2. l \in taken' /\ ~IsBlank(woc[l].text) /\ s = fold_to_src[l] /\ woc[l].text = Nodes[k].text
      BY <1>1, <1>4, <1>8, <2>2 DEF s
    <3> QED BY <1>11, <1>12, <3>1, <3>2 DEF Backed, IsBlank
  <2> QED BY <1>11, <2>1, <2>2
<1>14. ASSUME NEW j \in 1..next, NEW k \in 1..next, j < k, origins'[k].source = "program"
       PROVE  origins'[j] # origins'[k]
  <2>1. j \in 1..(next - 1) /\ origins'[j] = origins[j]
    BY <1>2, <1>11, <1>14
  <2>2. CASE k \in 1..(next - 1)
    BY <1>2, <1>11, <1>14, <2>1, <2>2 DEF OriginInv
  <2>3. CASE k = next
    <3> SUFFICES ASSUME origins[j] = [source |-> "program", line |-> s] PROVE FALSE
      BY <1>11, <2>1, <2>3
    <3>1. Backed(j) /\ origins[j].source = "program" /\ origins[j].line = s
      BY <1>2, <2>1 DEF OriginInv
    <3>2. PICK m \in taken : ~IsBlank(woc[m].text) /\ s = fold_to_src[m]
      BY <3>1 DEF Backed
    <3>3. m \in 1..Len(woc)
      BY <1>2 DEF TypeInvariant
    <3> QED BY <1>4, <1>9, <1>10, <3>2, <3>3
  <2> QED BY <1>11, <2>2, <2>3
<1>15. ASSUME Unshared
       PROVE  Traced'
  <2>1. Nodes[next].source = "program" /\ Nodes[next].line = s
    BY <1>1, <1>3, <1>6, <1>10, <1>15, TakesItsLine
  <2>2. Traced
    BY <1>15 DEF OriginInv
  <2>3. ASSUME NEW k \in 1..next
        PROVE  origins'[k] = [source |-> Nodes[k].source, line |-> Nodes[k].line]
    BY <1>2, <1>11, <2>1, <2>2 DEF Traced
  <2>4. ASSUME NEW m \in 1..Len(woc)
        PROVE  m \in taken \cup {l}
                 <=> \E k \in 1..next : Nodes[k].source = "program" /\ Nodes[k].line = woc[m].from
    <3>1. m \in taken <=> \E k \in 1..(next - 1) : Nodes[k].source = "program" /\ Nodes[k].line = woc[m].from
      BY <1>2, <2>2 DEF Traced
    <3>2. m = l <=> woc[m].from = s
      BY <1>4, <1>9, <1>10
    <3> QED BY <1>11, <2>1, <3>1, <3>2
  <2> QED BY <1>1, <1>11, <1>12, <2>3, <2>4 DEF Traced
<1> QED BY <1>11, <1>13, <1>14, <1>15 DEF OriginInv

LEMMA CopybookInv == OriginInv /\ ResolveCopybook /\ FoldInv' => OriginInv'
<1> SUFFICES ASSUME OriginInv, ResolveCopybook, FoldInv' PROVE OriginInv'
  OBVIOUS
<1> DEFINE t == Nodes[next].text
           b == BookOrder[Least(Holding(t))]
           s == Least(InBook(b, t))
<1>1. /\ stage = "resolve" /\ next <= Len(Nodes) /\ Holding(t) # {}
      /\ Found(b, s) /\ taken' = taken
  BY DEF ResolveCopybook, Resolving
<1>2. FoldInv /\ TypeInvariant /\ Drawn /\ Complete /\ next \in Nat /\ Len(origins) = next - 1
  BY <1>1 DEF OriginInv, FoldInv, TypeInvariant
<1>3. b \in Books /\ s \in InBook(b, t)
  BY <1>1, <1>2, LeftOrHeld
<1> HIDE DEF b, s
<1>4. s \in 1..Len(corpus.book[b]) /\ corpus.book[b][s].code = t.code /\ b # "program" /\ s \in Nat
  BY <1>3, ProvenanceAssumption DEF InBook
<1>5. next \in 1..Len(Nodes)
  <2>1. Len(Nodes) \in Nat
    BY <1>2, NodeFacts, LenProperties
  <2>2. Len(origins) \in Nat
    BY <1>2, LenProperties DEF TypeInvariant
  <2> QED BY <1>1, <1>2, <2>1, <2>2
<1>6. /\ Len(origins') = next /\ next >= 1
      /\ \A k \in 1..(next - 1) : origins'[k] = origins[k]
      /\ origins'[next] = [source |-> b, line |-> s]
      /\ \A k : k \in 1..next <=> k \in 1..(next - 1) \/ k = next
      /\ Nodes' = Nodes /\ (Unshared' <=> Unshared)
  BY <1>1, <1>3, <1>4, TracedOne
<1>7. UNCHANGED <<corpus, woc, fold_to_src>>
  BY <1>1 DEF Found
<1>8. ASSUME NEW k \in 1..next
      PROVE  Backed(k)'
  <2>1. CASE k \in 1..(next - 1)
    <3>1. Backed(k) /\ origins'[k] = origins[k]
      BY <1>2, <1>6, <2>1 DEF OriginInv
    <3> QED BY <1>1, <1>6, <1>7, <3>1 DEF Backed, IsBlank
  <2>2. CASE k = next
    <3>1. origins'[k].source = b /\ origins'[k].line = s
      BY <1>6, <2>2
    <3> QED BY <1>4, <1>6, <1>7, <2>2, <3>1 DEF Backed
  <2> QED BY <1>6, <2>1, <2>2
<1>9. ASSUME NEW j \in 1..next, NEW k \in 1..next, j < k, origins'[k].source = "program"
      PROVE  origins'[j] # origins'[k]
  <2>1. k # next
    BY <1>4, <1>6, <1>9
  <2>2. j \in 1..(next - 1) /\ k \in 1..(next - 1)
    BY <1>2, <1>9, <2>1
  <2> QED BY <1>2, <1>6, <1>9, <2>2 DEF OriginInv
<1>10. ASSUME Unshared
       PROVE  Traced'
  <2>1. /\ t.code \in Code /\ Starts[t.code] \in Nat /\ Starts[t.code] >= 1
        /\ \/ IsOfBook(Nodes[next])
           \/ Nodes[next].source = "program" /\ \E k \in 1..Len(woc) :
                Nodes[next].line = woc[k].from /\ Nodes[next].text = woc[k].text
    BY <1>2, <1>5, NodeFacts
  <2>2. /\ ~\E k \in 1..Len(src) : src[k].code = t.code
        /\ \A d \in Books : \A j \in 1..Len(corpus.book[d]) : corpus.book[d][j].code = t.code => d = b /\ j = s
    BY <1>2, <1>3, <1>4, <1>10, <2>1, UnsharedFacts
  <2>3. ~IsBlank(t)
    BY <2>1, ProvenanceAssumption DEF IsBlank
  <2>4. ASSUME NEW k \in 1..Len(woc)
        PROVE  Nodes[next].text # woc[k].text
    <3>1. woc[k].from \in 1..Len(src) /\ (~IsBlank(woc[k].text) => woc[k].text = src[woc[k].from])
      BY <1>2, CompleteIsTrue, TextFacts
    <3> QED BY <2>2, <2>3, <3>1
  <2>5. Nodes[next].source = b /\ Nodes[next].line = s
    BY <2>1, <2>2, <2>4 DEF IsOfBook
  <2>6. Traced
    BY <1>10 DEF OriginInv
  <2>7. ASSUME NEW k \in 1..next
        PROVE  origins'[k] = [source |-> Nodes[k].source, line |-> Nodes[k].line]
    BY <1>2, <1>6, <2>5, <2>6 DEF Traced
  <2>8. ASSUME NEW m \in 1..Len(woc)
        PROVE  m \in taken <=> \E k \in 1..next : Nodes[k].source = "program" /\ Nodes[k].line = woc[m].from
    <3>1. m \in taken <=> \E k \in 1..(next - 1) : Nodes[k].source = "program" /\ Nodes[k].line = woc[m].from
      BY <1>2, <2>6 DEF Traced
    <3> QED BY <1>4, <1>6, <2>5, <3>1
  <2> QED BY <1>1, <1>6, <1>7, <2>7, <2>8 DEF Traced
<1> QED BY <1>6, <1>8, <1>9, <1>10 DEF OriginInv

LEMMA NextOrigin == OriginInv /\ [Next]_vars => OriginInv'
<1> SUFFICES ASSUME OriginInv, [Next]_vars PROVE OriginInv'
  OBVIOUS
<1>1. FoldInv'
  BY NextFold DEF OriginInv
<1>2. CASE FoldBlank \/ SkipBlank \/ FoldMatch
  BY <1>1, <1>2, UntracedInv DEF FoldBlank, SkipBlank, FoldMatch, InFold
<1>3. CASE FoldRefuse \/ Unconsumed \/ ResolveRefuse
  BY <1>1, <1>3, UntracedInv DEF FoldRefuse, Unconsumed, ResolveRefuse, Refuse
<1>4. CASE FoldDone \/ ResolveDone
  BY <1>1, <1>4, UntracedInv DEF FoldDone, ResolveDone
<1>5. CASE ResolveNative
  BY <1>1, <1>5, NativeInv
<1>6. CASE ResolveCopybook
  BY <1>1, <1>6, CopybookInv
<1>7. CASE UNCHANGED vars
  BY <1>1, <1>7, UntracedInv DEF vars
<1> QED BY <1>2, <1>3, <1>4, <1>5, <1>6, <1>7 DEF Next

LEMMA InvMatches == OriginInv => OriginsMatch
<1> SUFFICES ASSUME OriginInv, NEW k \in 1..Len(origins)
             PROVE  /\ IF origins[k].source = "program" THEN src[origins[k].line] = Nodes[k].text
                       ELSE corpus.book[origins[k].source][origins[k].line].code = Nodes[k].text.code
                    /\ \A j \in 1..(k - 1) : origins[k].source = "program" => origins[j] # origins[k]
  BY DEF OriginsMatch
<1>1. FoldInv /\ TypeInvariant /\ Backed(k) /\ next \in Nat /\ Len(origins) = next - 1 /\ Len(origins) \in Nat
  BY LenProperties DEF OriginInv, FoldInv, TypeInvariant
<1>2. CASE origins[k].source = "program"
  <2>1. Complete
    BY <1>1 DEF FoldInv
  <2>2. PICK l \in taken : /\ ~IsBlank(woc[l].text) /\ origins[k].line = fold_to_src[l]
                           /\ woc[l].text = Nodes[k].text
    BY <1>1, <1>2 DEF Backed
  <2>3. l \in 1..Len(woc)
    BY <1>1 DEF TypeInvariant
  <2>4. src[origins[k].line] = Nodes[k].text
    BY <1>1, <2>1, <2>2, <2>3, CompleteIsTrue
  <2>5. \A j \in 1..(k - 1) : origins[j] # origins[k]
    BY <1>1, <1>2 DEF OriginInv
  <2> QED BY <1>2, <2>4, <2>5
<1>3. CASE origins[k].source # "program"
  BY <1>1, <1>3 DEF Backed
<1> QED BY <1>2, <1>3

LEMMA InvTrue == OriginInv => OriginsAreTrue
BY DEF OriginInv, Traced, OriginsAreTrue, NoWrongOrigin

-----------------------------------------------------------------------------
(* The theorems *)

\* Whatever the text that was made of the program, it is refused, or every folded line is
\* mapped to the line it comes from and no line that is not blank was lost (fold_align).
THEOREM InvariantHolds == Spec => []ProvenanceInv
<1>1. FoldInv /\ [Next]_vars => FoldInv'
  BY NextFold
<1> QED BY <1>1, InitFold, InvAligned, PTL DEF Spec

\* No two statements are traced to one line of the program, and every origin has the
\* content of its statement (ProgramConstructResolver.resolve), shared lines or not.
THEOREM OriginsMatchHolds == Spec => []OriginsMatch
<1>1. OriginInv /\ [Next]_vars => OriginInv'
  BY NextOrigin
<1> QED BY <1>1, InitOrigin, InvMatches, PTL DEF Spec

\* Where no copybook repeats a statement and no line starts two, every statement is traced
\* to the very line it was written on, for every program and every number of copybooks.
THEOREM OriginsAreTrueHolds == Spec => []OriginsAreTrue
<1>1. OriginInv /\ [Next]_vars => OriginInv'
  BY NextOrigin
<1> QED BY <1>1, InitOrigin, InvTrue, PTL DEF Spec
=============================================================================
