--------------------------- MODULE DataItemsProofs ---------------------------
(***************************************************************************)
(* The proofs about DataItems, for every set of names and every set of     *)
(* copybooks.                                                              *)
(*                                                                         *)
(* The levels of the open entries grow inwards, so the entries that an     *)
(* item of some level leaves open are the outermost ones (OpenIsPrefix):   *)
(* what the walk pops off its stack is exactly what the level closes, and  *)
(* the entry left on top is the nearest before it of a lower level.        *)
(***************************************************************************)
EXTENDS DataItems, TLAPS, SequenceTheorems, FiniteSetTheorems, FunctionTheorems, NaturalsInduction,
        WellFoundedInduction

-----------------------------------------------------------------------------
(* Greatest elements and ranks *)

LEMMA OrderOfNaturals ==
  \A x, y \in Nat : <<x, y>> \in OpToRel(<, Nat) <=> x < y
BY DEF OpToRel

LEMMA LeastExists ==
  ASSUME NEW T \in SUBSET Nat, T # {}
  PROVE  \E x \in T : \A y \in T : x <= y
<1>1. IsWellFoundedOn(OpToRel(<, Nat), Nat)
  BY NatLessThanWellFounded
<1>2. \E x \in T : \A y \in T : ~(<<y, x>> \in OpToRel(<, Nat))
  <2> HIDE DEF OpToRel
  <2> QED BY <1>1, WFMin
<1>3. ASSUME NEW x \in T, NEW y \in T, ~(<<y, x>> \in OpToRel(<, Nat))
      PROVE  x <= y
  <2>1. x \in Nat /\ y \in Nat
    OBVIOUS
  <2>2. ~(y < x)
    BY <1>3, <2>1, OrderOfNaturals
  <2> QED BY <2>1, <2>2
<1> QED BY <1>2, <1>3

\* A nonempty set of numbers up to n has a greatest element, and Greatest picks it.
LEMMA GreatestExists ==
  ASSUME NEW n \in Nat, NEW S \in SUBSET (0..n), S # {}
  PROVE  Greatest(S) \in S /\ \A j \in S : j <= Greatest(S)
<1> DEFINE T == {n - k : k \in S}
<1>1. T \in SUBSET Nat /\ T # {}
  <2>1. \A k \in S : k \in 0..n
    OBVIOUS
  <2>2. \A k \in 0..n : n - k \in Nat
    OBVIOUS
  <2> QED BY <2>1, <2>2
<1>2. \E x \in T : \A y \in T : x <= y
  <2> HIDE DEF T
  <2> QED BY <1>1, LeastExists
<1>3. PICK x \in T : \A y \in T : x <= y
  BY <1>2
<1>4. PICK g \in S : x = n - g
  OBVIOUS
<1>5. \A j \in S : n - g <= n - j
  BY <1>3, <1>4
<1>6. \A j \in S : j <= g
  <2>1. ASSUME NEW j \in S
        PROVE  j <= g
    <3>1. j \in 0..n /\ g \in 0..n
      OBVIOUS
    <3>2. n - g <= n - j
      BY <1>5
    <3> HIDE DEF T
    <3> QED BY <3>1, <3>2
  <2> QED BY <2>1
<1> QED BY <1>6 DEF Greatest

\* A number above all others of a set, and in it, is its greatest.
LEMMA GreatestIs ==
  ASSUME NEW S \in SUBSET Nat, NEW g \in S, \A j \in S : j <= g
  PROVE  Greatest(S) = g
<1>1. \A h \in S : (\A j \in S : j <= h) => h = g
  OBVIOUS
<1> QED BY <1>1 DEF Greatest

\* The place of l in a set of numbers, counted from the least
Rank(S, l) == Cardinality({k \in S : k <= l})

LEMMA Ranks ==
  ASSUME NEW n \in Nat, NEW S \in SUBSET (1..n)
  PROVE  /\ IsFiniteSet(S) /\ Cardinality(S) \in Nat /\ Cardinality(S) <= n
         /\ \A l \in S : Rank(S, l) \in 1..Cardinality(S)
         /\ \A l, m \in S : l < m => Rank(S, l) < Rank(S, m)
         /\ \A r \in 1..Cardinality(S) : \E l \in S : Rank(S, l) = r
         /\ \A l \in S : (\A k \in S : k <= l) => Rank(S, l) = Cardinality(S)
<1>1. IsFiniteSet(S) /\ Cardinality(S) \in Nat /\ Cardinality(S) <= n
  <2>1. IsFiniteSet(1..n) /\ Cardinality(1..n) = n
    BY FS_Interval
  <2>2. IsFiniteSet(S) /\ Cardinality(S) <= Cardinality(1..n)
    BY <2>1, FS_Subset
  <2>3. Cardinality(S) \in Nat
    BY <2>2, FS_CardinalityType
  <2> QED BY <2>1, <2>2, <2>3
<1>2. ASSUME NEW T \in SUBSET S
      PROVE  IsFiniteSet(T) /\ Cardinality(T) \in Nat /\ Cardinality(T) <= Cardinality(S)
  <2>1. IsFiniteSet(T) /\ Cardinality(T) <= Cardinality(S)
    BY <1>1, FS_Subset
  <2> QED BY <2>1, FS_CardinalityType
<1>3. ASSUME NEW l \in S
      PROVE  Rank(S, l) \in 1..Cardinality(S)
  <2> DEFINE T == {k \in S : k <= l}
  <2>1. T \in SUBSET S /\ l \in T
    OBVIOUS
  <2>2. IsFiniteSet(T) /\ Cardinality(T) \in Nat /\ Cardinality(T) <= Cardinality(S)
    BY <1>2
  <2>3. Cardinality(T) # 0
    BY <2>1, <2>2, FS_EmptySet
  <2> QED BY <1>1, <2>2, <2>3 DEF Rank
<1>4. ASSUME NEW l \in S, NEW m \in S, l < m
      PROVE  Rank(S, l) < Rank(S, m)
  <2> DEFINE T == {k \in S : k <= l}
             U == {k \in S : k <= m}
  <2>1. T \in SUBSET U /\ U \in SUBSET S /\ m \in U /\ m \notin T
    <3>1. \A k \in S : k \in Nat
      OBVIOUS
    <3>2. l \in Nat /\ m \in Nat /\ ~(m <= l) /\ m <= m
      BY <1>4, <3>1
    <3>3. \A k \in S : k <= l => k <= m
      BY <1>4, <3>1, <3>2
    <3> QED BY <3>2, <3>3
  <2>2. IsFiniteSet(T) /\ IsFiniteSet(U) /\ Cardinality(T) \in Nat /\ Cardinality(U) \in Nat
    BY <1>2, <2>1
  <2> HIDE DEF T, U
  <2>3. IsFiniteSet(T \cup {m}) /\ Cardinality(T \cup {m}) = IF m \in T THEN Cardinality(T) ELSE Cardinality(T) + 1
    BY <2>2, FS_AddElement, Zenon
  <2>4. T \cup {m} \in SUBSET U
    BY <2>1
  <2>5. Cardinality(T \cup {m}) <= Cardinality(U)
    BY <2>2, <2>4, FS_Subset, Zenon
  <2>6. Cardinality(T) < Cardinality(U)
    BY <2>1, <2>2, <2>3, <2>5
  <2> QED BY <2>6 DEF Rank, T, U
<1>5. \A r \in 1..Cardinality(S) : \E l \in S : Rank(S, l) = r
  <2> DEFINE N == 1..Cardinality(S)
             f == [l \in S |-> Rank(S, l)]
  <2>1. f \in [S -> N]
    BY <1>3
  <2>2. \A l, m \in S : f[l] = f[m] => l = m
    <3>1. \A l, m \in S : Rank(S, l) = Rank(S, m) => l = m
      <4> SUFFICES ASSUME NEW l \in S, NEW m \in S, Rank(S, l) = Rank(S, m)
                   PROVE  l = m
        OBVIOUS
      <4>1. Rank(S, l) \in Nat /\ Rank(S, m) \in Nat /\ l \in 1..n /\ m \in 1..n
        BY <1>1, <1>3
      <4>2. ~(l < m) /\ ~(m < l)
        BY <1>4, <4>1
      <4> QED BY <4>1, <4>2
    <3> QED BY <3>1
  <2>3. f \in Injection(S, N)
    BY <2>1, <2>2 DEF Injection, IsInjective
  <2>4. IsFiniteSet(N) /\ Cardinality(N) = Cardinality(S)
    BY <1>1, FS_Interval
  <2> HIDE DEF f, N
  <2>5. f \in Surjection(S, N)
    BY <2>3, <2>4, FS_Injection
  <2>6. \A r \in N : \E l \in S : f[l] = r
    BY <2>5 DEF Surjection
  <2> QED BY <2>6 DEF f, N
<1>6. ASSUME NEW l \in S, \A k \in S : k <= l
      PROVE  Rank(S, l) = Cardinality(S)
  <2>1. {k \in S : k <= l} = S
    BY <1>6
  <2> QED BY <2>1 DEF Rank
<1> QED BY <1>1, <1>3, <1>4, <1>5, <1>6

\* A greater number that joins comes last, and none of the others moves.
LEMMA RankOfMore ==
  ASSUME NEW n \in Nat, NEW S \in SUBSET (1..(n - 1)), n # 0
  PROVE  /\ Cardinality(S \cup {n}) = Cardinality(S) + 1
         /\ Rank(S \cup {n}, n) = Cardinality(S) + 1
         /\ \A l \in S : Rank(S \cup {n}, l) = Rank(S, l)
<1>1. n - 1 \in Nat
  OBVIOUS
<1>2. IsFiniteSet(S) /\ Cardinality(S) \in Nat
  BY <1>1, Ranks
<1>3. n \notin S
  OBVIOUS
<1>4. Cardinality(S \cup {n}) = Cardinality(S) + 1
  <2>1. Cardinality(S \cup {n}) = IF n \in S THEN Cardinality(S) ELSE Cardinality(S) + 1
    BY <1>2, FS_AddElement, Zenon
  <2> QED BY <1>3, <2>1
<1>5. /\ \A l \in S : l \in Nat /\ l <= n /\ ~(n <= l)
      /\ n <= n
  OBVIOUS
<1>6. {k \in S \cup {n} : k <= n} = S \cup {n}
  BY <1>5
<1>7. \A l \in S : {k \in S \cup {n} : k <= l} = {k \in S : k <= l}
  BY <1>5
<1> QED BY <1>4, <1>6, <1>7 DEF Rank

-----------------------------------------------------------------------------
(* Reading the entries *)

\* The entries that are open when the loop stands at a
OpenAt(a) ==
  {l \in KeptBefore(a) : \A j \in KeptBefore(a) : j > l => entries[j].level > entries[l].level}

\* Those an entry at a leaves open
LeftOpen(a) == {l \in OpenAt(a) : entries[l].level < entries[a].level}

LEMMA EntryFacts ==
  ASSUME TypeInvariant
  PROVE  /\ Len(entries) \in Nat
         /\ \A l \in 1..Len(entries) :
              entries[l].level \in 1..88 /\ NameOf(l) \in Names \cup {Filler, Clause}
<1>1. entries \in Seq(Entry)
  BY DEF TypeInvariant
<1>2. ASSUME NEW l \in 1..Len(entries)
      PROVE  entries[l].level \in 1..88 /\ NameOf(l) \in Names \cup {Filler, Clause}
  <2>1. entries[l] \in Entry
    BY <1>1, ElementOfSeq
  <2> QED BY <2>1 DEF Entry, NameOf
<1> QED BY <1>1, <1>2, LenProperties

LEMMA KeptGrows ==
  ASSUME NEW a \in Nat, a >= 1
  PROVE  /\ KeptBefore(a) \in SUBSET (1..(a - 1))
         /\ KeptBefore(a + 1) = IF Kept(a) THEN KeptBefore(a) \cup {a} ELSE KeptBefore(a)
<1>1. (a + 1) - 1 = a /\ 1..a = (1..(a - 1)) \cup {a}
  OBVIOUS
<1> QED BY <1>1 DEF KeptBefore

\* An entry closes those of its level and of a deeper one.
LEMMA OpenGrows ==
  ASSUME TypeInvariant, at <= Len(entries), Kept(at)
  PROVE  OpenAt(at + 1) = LeftOpen(at) \cup {at}
<1>1. /\ at \in Nat /\ at >= 1 /\ at \in 1..Len(entries)
  BY EntryFacts DEF TypeInvariant
<1>2. /\ KeptBefore(at) \in SUBSET (1..(at - 1))
      /\ KeptBefore(at + 1) = KeptBefore(at) \cup {at}
  BY <1>1, KeptGrows
<1>3. \A l \in KeptBefore(at) : l \in Nat /\ at > l /\ ~(l > at)
  BY <1>1, <1>2
<1>4. ~(at > at)
  BY <1>1
<1>5. \A l \in KeptBefore(at) : entries[at].level > entries[l].level <=> entries[l].level < entries[at].level
  <2>1. \A l \in 1..(at - 1) : l \in 1..Len(entries)
    BY <1>1, EntryFacts
  <2>2. \A l \in KeptBefore(at) : entries[l].level \in 1..88 /\ entries[at].level \in 1..88
    BY <1>1, <1>2, <2>1, EntryFacts
  <2> QED BY <2>2
<1> QED BY <1>2, <1>3, <1>4, <1>5 DEF OpenAt, LeftOpen

\* The levels of the open entries grow.
LEMMA OpenLevels ==
  ASSUME TypeInvariant
  PROVE  /\ OpenAt(at) \in SUBSET (1..(at - 1))
         /\ \A l, m \in OpenAt(at) : l < m => entries[l].level < entries[m].level
<1>1. at \in Nat /\ at >= 1 /\ at - 1 <= Len(entries)
  BY EntryFacts DEF TypeInvariant
<1>2. OpenAt(at) \subseteq KeptBefore(at) /\ KeptBefore(at) \in SUBSET (1..(at - 1))
  BY <1>1, KeptGrows DEF OpenAt
<1>3. ASSUME NEW l \in OpenAt(at), NEW m \in OpenAt(at), l < m
      PROVE  entries[l].level < entries[m].level
  <2>1. m > l /\ l \in 1..Len(entries) /\ m \in 1..Len(entries)
    BY <1>1, <1>2, <1>3, EntryFacts
  <2>2. entries[m].level > entries[l].level
    BY <1>2, <2>1 DEF OpenAt
  <2> QED BY <2>1, <2>2, EntryFacts
<1> QED BY <1>2, <1>3

\* So what an entry leaves open are the outermost of them.
LEMMA LeftOpenIsOutermost ==
  ASSUME TypeInvariant, at <= Len(entries)
  PROVE  /\ LeftOpen(at) \in SUBSET (1..(at - 1))
         /\ Cardinality(LeftOpen(at)) \in Nat
         /\ Cardinality(LeftOpen(at)) <= Cardinality(OpenAt(at))
         /\ \A l \in LeftOpen(at) : Rank(LeftOpen(at), l) = Rank(OpenAt(at), l)
         /\ \A l \in OpenAt(at) :
              l \in LeftOpen(at) <=> Rank(OpenAt(at), l) <= Cardinality(LeftOpen(at))
<1> DEFINE S == OpenAt(at)
           T == LeftOpen(at)
<1>1. /\ at \in Nat /\ at - 1 \in Nat /\ at \in 1..Len(entries) /\ Len(entries) \in Nat
  BY EntryFacts DEF TypeInvariant
<1>2. S \in SUBSET (1..(at - 1)) /\ T \in SUBSET S /\ T \in SUBSET (1..(at - 1))
  BY OpenLevels DEF LeftOpen
<1>3. \A l \in S : l \in Nat /\ entries[l].level \in Nat /\ entries[at].level \in Nat
  <2>1. \A l \in 1..(at - 1) : l \in 1..Len(entries) /\ l \in Nat
    BY <1>1
  <2>2. \A l \in S : l \in Nat /\ entries[l].level \in 1..88 /\ entries[at].level \in 1..88
    BY <1>1, <1>2, <2>1, EntryFacts
  <2>3. \A n \in 1..88 : n \in Nat
    OBVIOUS
  <2> HIDE DEF S, T
  <2> QED BY <2>2, <2>3
<1>4. \A l \in T, k \in S : k <= l => k \in T
  <2> SUFFICES ASSUME NEW l \in T, NEW k \in S, k <= l
               PROVE  k \in T
    OBVIOUS
  <2>1. k = l \/ k < l
    BY <1>2, <1>3
  <2>2. entries[l].level < entries[at].level
    BY DEF LeftOpen
  <2>3. CASE k < l
    <3>1. entries[k].level < entries[l].level
      BY <1>2, <2>3, OpenLevels
    <3>2. entries[k].level < entries[at].level
      BY <1>2, <1>3, <2>2, <3>1
    <3> QED BY <3>2 DEF LeftOpen
  <2> QED BY <2>1, <2>3
<1>5. /\ IsFiniteSet(S) /\ Cardinality(S) \in Nat /\ Cardinality(T) \in Nat
      /\ \A l \in S : Rank(S, l) \in 1..Cardinality(S)
      /\ \A l, m \in S : l < m => Rank(S, l) < Rank(S, m)
      /\ \A l \in T : Rank(T, l) \in 1..Cardinality(T)
  BY <1>1, <1>2, Ranks
<1>6. Cardinality(T) <= Cardinality(S)
  BY <1>2, <1>5, FS_Subset
<1>7. ASSUME NEW l \in T
      PROVE  Rank(T, l) = Rank(S, l)
  <2>1. {k \in T : k <= l} = {k \in S : k <= l}
    BY <1>2, <1>4
  <2> QED BY <2>1 DEF Rank
<1>8. ASSUME NEW l \in S
      PROVE  l \in T <=> Rank(S, l) <= Cardinality(T)
  <2>1. CASE l \in T
    BY <1>5, <1>7, <2>1
  <2>2. CASE l \notin T
    <3>1. T \in SUBSET {k \in S : k <= l} /\ l \in {k \in S : k <= l}
      <4>1. \A k \in T : k <= l
        BY <1>2, <1>3, <1>4, <2>2
      <4> QED BY <1>2, <1>3, <4>1
    <3> DEFINE U == {k \in S : k <= l}
    <3>2. IsFiniteSet(U) /\ IsFiniteSet(T) /\ U # T
      BY <1>2, <1>5, <2>2, <3>1, FS_Subset
    <3>3. Cardinality(T) <= Cardinality(U) /\ Cardinality(T) # Cardinality(U)
      BY <3>1, <3>2, FS_Subset
    <3>4. Cardinality(U) \in Nat
      BY <3>2, FS_CardinalityType
    <3>5. Rank(S, l) = Cardinality(U)
      BY DEF Rank
    <3> HIDE DEF U
    <3> QED BY <1>5, <2>2, <3>3, <3>4, <3>5
  <2> QED BY <2>1, <2>2
<1> QED BY <1>2, <1>5, <1>6, <1>7, <1>8

\* The stack down to the first item of a lower level holds the entries left open.
LEMMA OpenIsPrefix ==
  ASSUME DataItemsInv, at <= Len(entries)
  PROVE  /\ Open(entries[at].level) = SubSeq(stack, 1, Cardinality(LeftOpen(at)))
         /\ Cardinality(LeftOpen(at)) \in 0..Len(stack)
<1> DEFINE S == OpenAt(at)
           T == LeftOpen(at)
           n == Cardinality(T)
           L == entries[at].level
           low == {0} \cup {k \in 1..Len(stack) : stack[k].level < L}
<1>1. /\ TypeInvariant /\ at \in 1..Len(entries) /\ at - 1 \in Nat
      /\ Len(stack) = Cardinality(S)
      /\ \A l \in S : stack[Rank(S, l)] = [level |-> entries[l].level, id |-> IdAt(l)]
  <2>1. TypeInvariant /\ StackIsOpenChain
    BY DEF DataItemsInv
  <2>2. at \in 1..Len(entries) /\ at - 1 \in Nat
    BY <2>1, EntryFacts DEF TypeInvariant
  <2>3. S = OpenEntries
    BY DEF OpenEntries, OpenAt
  <2>4. \A l \in S : Rank(S, l) = Cardinality({k \in OpenEntries : k <= l})
    BY <2>3 DEF Rank
  <2> HIDE DEF S
  <2> QED BY <2>1, <2>2, <2>3, <2>4 DEF StackIsOpenChain
<1>2. /\ n \in Nat /\ n <= Cardinality(S)
      /\ \A l \in S : l \in T <=> Rank(S, l) <= n
  BY <1>1, LeftOpenIsOutermost
<1>3. /\ Cardinality(S) \in Nat
      /\ \A l \in S : Rank(S, l) \in 1..Cardinality(S)
      /\ \A r \in 1..Cardinality(S) : \E l \in S : Rank(S, l) = r
  BY <1>1, OpenLevels, Ranks
<1> HIDE DEF S, T, n, L
<1>4. ASSUME NEW k \in 1..Len(stack)
      PROVE  stack[k].level < L <=> k <= n
  <2>1. PICK l \in S : Rank(S, l) = k
    BY <1>1, <1>3
  <2>2. stack[k].level = entries[l].level
    <3>1. stack[k] = [level |-> entries[l].level, id |-> IdAt(l)]
      BY <1>1, <2>1, Zenon
    <3> QED BY <3>1
  <2>3. l \in T <=> entries[l].level < L
    BY DEF S, T, L, LeftOpen
  <2> QED BY <1>2, <2>1, <2>2, <2>3
<1>5. low = 0..n
  <2>1. \A k : k \in low <=> k = 0 \/ (k \in 1..Len(stack) /\ k <= n)
    BY <1>4
  <2>2. \A k : k \in 0..n <=> k = 0 \/ (k \in 1..Len(stack) /\ k <= n)
    BY <1>1, <1>2, <1>3
  <2> HIDE DEF low
  <2> QED BY <2>1, <2>2
<1>6. Greatest(0..n) = n
  <2>1. 0..n \in SUBSET Nat /\ n \in 0..n /\ \A j \in 0..n : j <= n
    BY <1>2
  <2> QED BY <2>1, GreatestIs
<1>7. Open(L) = SubSeq(stack, 1, Greatest(low))
  BY DEF Open
<1> HIDE DEF low
<1>8. Open(L) = SubSeq(stack, 1, n) /\ n \in 0..Len(stack)
  BY <1>1, <1>2, <1>3, <1>5, <1>6, <1>7
<1> QED BY <1>8 DEF n, L, T

\* The item on top of what is left open is the nearest of a lower level.
LEMMA ParentFound ==
  ASSUME DataItemsInv, at <= Len(entries),
         NEW open, open = Open(entries[at].level)
  PROVE  (IF open = <<>> THEN RootId ELSE open[Len(open)].id) = ParentAt(at)
<1> DEFINE S == OpenAt(at)
           T == LeftOpen(at)
           n == Cardinality(T)
<1>1. TypeInvariant /\ StackIsOpenChain
  BY DEF DataItemsInv
<1>2. at \in Nat /\ at >= 1 /\ at - 1 \in Nat /\ at \in 1..Len(entries)
  BY <1>1, EntryFacts DEF TypeInvariant
<1>3. /\ KeptBefore(at) \in SUBSET (1..(at - 1))
      /\ Enclosing(at) \in SUBSET KeptBefore(at)
  BY <1>2, KeptGrows DEF Enclosing
<1>4. open = SubSeq(stack, 1, n) /\ n \in 0..Len(stack)
  BY OpenIsPrefix
<1>5. stack \in Seq([level : 1..88, id : {ItemId(m, k) : m \in Names \cup {Filler, Clause}, k \in 0..Len(entries)}])
  BY <1>1 DEF TypeInvariant
<1>6. T \in SUBSET Enclosing(at)
  BY DEF LeftOpen, OpenAt, Enclosing
<1>7. CASE Enclosing(at) = {}
  <2>1. T = {}
    BY <1>6, <1>7
  <2>2. n = 0
    BY <2>1, FS_EmptySet
  <2>3. open = <<>>
    BY <1>4, <1>5, <2>2
  <2> QED BY <1>7, <2>3 DEF ParentAt
<1>8. CASE Enclosing(at) # {}
  <2> DEFINE g == Greatest(Enclosing(at))
  <2>1. g \in Enclosing(at) /\ \A j \in Enclosing(at) : j <= g
    <3>1. Enclosing(at) \in SUBSET (0..(at - 1))
      BY <1>2, <1>3
    <3> QED BY <1>2, <1>8, <3>1, GreatestExists
  <2> HIDE DEF g
  <2>2. /\ g \in KeptBefore(at) /\ g \in Nat
        /\ entries[g].level < entries[at].level
        /\ \A j \in KeptBefore(at) : j \in Nat /\ j \in 1..Len(entries)
    BY <1>2, <1>3, <2>1 DEF Enclosing
  <2>3. ASSUME NEW j \in KeptBefore(at), j > g
        PROVE  entries[j].level > entries[g].level
    <3>1. j \notin Enclosing(at)
      BY <2>1, <2>2, <2>3
    <3>2. ~(entries[j].level < entries[at].level)
      BY <3>1 DEF Enclosing
    <3>3. entries[j].level \in 1..88 /\ entries[at].level \in 1..88 /\ entries[g].level \in 1..88
      BY <1>1, <1>2, <2>2, EntryFacts
    <3>4. entries[g].level < entries[at].level
      BY <2>2
    <3>5. \A x, y, z \in 1..88 : ~(x < y) /\ z < y => x > z
      OBVIOUS
    <3> QED BY <3>2, <3>3, <3>4, <3>5, Zenon
  <2>4. g \in S /\ g \in T
    BY <2>2, <2>3 DEF OpenAt, LeftOpen
  <2>5. Rank(T, g) = n /\ n \in Nat /\ n # 0
    <3>1. T \in SUBSET (1..(at - 1)) /\ \A k \in T : k <= g
      BY <1>3, <1>6, <2>1
    <3>2. Rank(T, g) = n /\ Rank(T, g) \in 1..n /\ n \in Nat
      BY <1>2, <2>4, <3>1, Ranks
    <3> QED BY <3>2
  <2>6. Rank(S, g) = n
    BY <1>1, <2>4, <2>5, LeftOpenIsOutermost
  <2>7. stack[n] = [level |-> entries[g].level, id |-> IdAt(g)]
    <3>1. S = OpenEntries /\ Rank(S, g) = Cardinality({k \in OpenEntries : k <= g})
      BY DEF OpenEntries, OpenAt, Rank
    <3> QED BY <1>1, <2>4, <2>6, <3>1 DEF StackIsOpenChain
  <2> HIDE DEF n, S, T
  <2>8. Len(open) = n /\ open # <<>> /\ open[n] = stack[n]
    BY <1>4, <1>5, <2>5
  <2>9. open[Len(open)].id = IdAt(g)
    <3>1. open[Len(open)] = [level |-> entries[g].level, id |-> IdAt(g)]
      BY <2>7, <2>8
    <3> QED BY <3>1
  <2> QED BY <1>8, <2>8, <2>9 DEF ParentAt, g
<1> QED BY <1>7, <1>8

\* A FILLER has its number.
LEMMA Numbered ==
  ASSUME DataItemsInv, at <= Len(entries), Kept(at),
         NEW n, n = IF NameOf(at) = Filler THEN fillers + 1 ELSE fillers
  PROVE  /\ n = Cardinality({k \in KeptBefore(at + 1) : NameOf(k) = Filler})
         /\ n \in 0..Len(entries)
         /\ ItemId(NameOf(at), n) = IdAt(at)
<1> DEFINE F == {k \in KeptBefore(at) : NameOf(k) = Filler}
           G == {k \in KeptBefore(at + 1) : NameOf(k) = Filler}
<1>1. TypeInvariant /\ fillers = Cardinality(F)
  BY DEF DataItemsInv, FillersCounted
<1>2. /\ at \in Nat /\ at >= 1 /\ at - 1 \in Nat /\ at \in 1..Len(entries)
      /\ Len(entries) \in Nat
  BY <1>1, EntryFacts DEF TypeInvariant
<1>3. /\ KeptBefore(at) \in SUBSET (1..(at - 1))
      /\ KeptBefore(at + 1) = KeptBefore(at) \cup {at}
  BY <1>2, KeptGrows
<1>4. F \in SUBSET (1..(at - 1)) /\ G = IF NameOf(at) = Filler THEN F \cup {at} ELSE F
  BY <1>3
<1> HIDE DEF F, G
<1>5. Cardinality(F) \in Nat /\ Cardinality(F) <= at - 1
  BY <1>2, <1>4, Ranks
<1>6. Cardinality(F \cup {at}) = Cardinality(F) + 1
  <2>1. at # 0
    BY <1>2
  <2> QED BY <1>2, <1>4, <2>1, RankOfMore
<1>7. n = Cardinality(G)
  BY <1>1, <1>4, <1>6
<1>8. n \in 0..Len(entries)
  BY <1>1, <1>2, <1>5
<1> QED BY <1>7, <1>8 DEF IdAt, G

\* What the files say does not change while they are read.
LEMMA ReadingStays ==
  ASSUME UNCHANGED <<reader, entries>>
  PROVE  /\ \A l : Kept(l)' <=> Kept(l)
         /\ \A l : KeptBefore(l)' = KeptBefore(l)
         /\ \A l : NameOf(l)' = NameOf(l)
         /\ \A l : IdAt(l)' = IdAt(l)
         /\ \A l : ParentAt(l)' = ParentAt(l)
         /\ \A l, id, level : ItemObs(l, id, level)' = ItemObs(l, id, level)
         /\ \A l : OpenAt(l)' = OpenAt(l)
<1>1. \A l : Kept(l)' <=> Kept(l)
  BY DEF Kept
<1>2. \A l : KeptBefore(l)' = KeptBefore(l)
  BY <1>1 DEF KeptBefore
<1>3. \A l : NameOf(l)' = NameOf(l)
  BY DEF NameOf
<1>4. \A l : IdAt(l)' = IdAt(l)
  BY <1>2, <1>3 DEF IdAt
<1>5. \A l : Enclosing(l)' = Enclosing(l)
  BY <1>2 DEF Enclosing
<1>6. \A l : ParentAt(l)' = ParentAt(l)
  BY <1>4, <1>5 DEF ParentAt
<1>7. \A l, id, level : ItemObs(l, id, level)' = ItemObs(l, id, level)
  <2>1. \A l : PictureOf(l)' = PictureOf(l)
    BY DEF PictureOf, BeforeSign
  <2>2. \A l : UsageOf(l)' = UsageOf(l)
    BY DEF UsageOf
  <2>3. \A l : IsGroup(l)' <=> IsGroup(l)
    BY <2>1 DEF IsGroup
  <2>4. \A l : TypeOf(l)' = TypeOf(l)
    BY <2>1, <2>2, <2>3 DEF TypeOf
  <2> QED BY <2>3, <2>4 DEF ItemObs
<1>8. \A l : OpenAt(l)' = OpenAt(l)
  BY <1>2 DEF OpenAt
<1> QED BY <1>1, <1>2, <1>3, <1>4, <1>6, <1>7, <1>8

-----------------------------------------------------------------------------
(* The inductive invariant *)

LEMMA InitInv == Init => DataItemsInv /\ HierarchyFollowsLevels
<1> SUFFICES ASSUME Init PROVE DataItemsInv /\ HierarchyFollowsLevels
  OBVIOUS
<1>1. /\ entries \in Seq(Entry) /\ Len(entries) \in Nat
      /\ at = 1 /\ stack = <<>> /\ fillers = 0 /\ out = {}
  BY DataItemsAssumption, LenProperties DEF Init
<1>2. KeptBefore(at) = {}
  BY <1>1 DEF KeptBefore
<1>3. TypeInvariant
  BY <1>1 DEF TypeInvariant
<1>4. OpenEntries = {}
  BY <1>2 DEF OpenEntries
<1>5. StackIsOpenChain
  BY <1>1, <1>4, FS_EmptySet DEF StackIsOpenChain
<1>6. FillersCounted
  <2>1. {k \in KeptBefore(at) : NameOf(k) = Filler} = {}
    BY <1>2
  <2> QED BY <1>1, <2>1, FS_EmptySet DEF FillersCounted
<1>7. HierarchyFollowsLevels
  BY <1>1, <1>2 DEF HierarchyFollowsLevels
<1> QED BY <1>3, <1>5, <1>6, <1>7 DEF DataItemsInv

\* What the entry under the loop adds
LEMMA DescribeEffect ==
  ASSUME DataItemsInv, Describe
  PROVE  /\ at <= Len(entries) /\ Kept(at)
         /\ UNCHANGED <<reader, entries>> /\ at' = at + 1
         /\ fillers' = Cardinality({k \in KeptBefore(at + 1) : NameOf(k) = Filler})
         /\ fillers' \in 0..Len(entries)
         /\ IdAt(at) = ItemId(NameOf(at), fillers')
         /\ stack' = Append(SubSeq(stack, 1, Cardinality(LeftOpen(at))),
                            [level |-> entries[at].level, id |-> IdAt(at)])
         /\ out' = out \cup {ItemObs(at, IdAt(at), entries[at].level),
                            ContainsObs(at, ParentAt(at), IdAt(at), entries[at].level)}
<1> DEFINE level == entries[at].level
           open == Open(level)
           n == IF NameOf(at) = Filler THEN fillers + 1 ELSE fillers
           id == ItemId(NameOf(at), n)
           parent == IF open = <<>> THEN RootId ELSE open[Len(open)].id
<1>1. /\ at <= Len(entries) /\ Kept(at)
      /\ UNCHANGED <<reader, entries>> /\ at' = at + 1
      /\ fillers' = n
      /\ out' = out \cup {ItemObs(at, id, level), ContainsObs(at, parent, id, level)}
      /\ stack' = Append(open, [level |-> level, id |-> id])
  BY DEF Describe
<1>2. /\ n = Cardinality({k \in KeptBefore(at + 1) : NameOf(k) = Filler})
      /\ n \in 0..Len(entries) /\ id = IdAt(at)
  <2>1. n = IF NameOf(at) = Filler THEN fillers + 1 ELSE fillers
    OBVIOUS
  <2> HIDE DEF n
  <2> QED BY <1>1, <2>1, Numbered
<1>3. parent = ParentAt(at)
  BY <1>1, ParentFound
<1>4. open = SubSeq(stack, 1, Cardinality(LeftOpen(at)))
  BY <1>1, OpenIsPrefix
<1> HIDE DEF open, n, id, parent
<1>5. IdAt(at) = ItemId(NameOf(at), fillers')
  BY <1>1, <1>2 DEF id
<1> QED BY <1>1, <1>2, <1>3, <1>4, <1>5

LEMMA DescribeKeeps ==
  ASSUME DataItemsInv, HierarchyFollowsLevels, Describe
  PROVE  (DataItemsInv /\ HierarchyFollowsLevels)'
<1> DEFINE T == LeftOpen(at)
           n == Cardinality(T)
           S == OpenAt(at + 1)
           Item(l) == [level |-> entries[l].level, id |-> IdAt(l)]
           Ids == {ItemId(m, k) : m \in Names \cup {Filler, Clause}, k \in 0..Len(entries)}
<1>1. /\ at <= Len(entries) /\ Kept(at)
      /\ reader' = reader /\ entries' = entries /\ at' = at + 1
      /\ fillers' = Cardinality({k \in KeptBefore(at + 1) : NameOf(k) = Filler})
      /\ fillers' \in 0..Len(entries)
      /\ IdAt(at) = ItemId(NameOf(at), fillers')
      /\ stack' = Append(SubSeq(stack, 1, n), Item(at))
      /\ out' = out \cup {ItemObs(at, IdAt(at), entries[at].level),
                          ContainsObs(at, ParentAt(at), IdAt(at), entries[at].level)}
  BY DescribeEffect
<1>2. TypeInvariant /\ StackIsOpenChain
  BY DEF DataItemsInv
<1>3. /\ at \in Nat /\ at >= 1 /\ at - 1 \in Nat /\ at \in 1..Len(entries) /\ at # 0
      /\ Len(entries) \in Nat
      /\ entries[at].level \in 1..88 /\ NameOf(at) \in Names \cup {Filler, Clause}
      /\ stack \in Seq([level : 1..88, id : Ids])
  <2>1. at \in 1..(Len(entries) + 1) /\ stack \in Seq([level : 1..88, id : Ids])
    BY <1>2 DEF TypeInvariant
  <2> HIDE DEF Ids
  <2>2. /\ at \in Nat /\ at >= 1 /\ at - 1 \in Nat /\ at \in 1..Len(entries) /\ at # 0
        /\ Len(entries) \in Nat
    BY <1>1, <1>2, <2>1, EntryFacts
  <2>3. entries[at].level \in 1..88 /\ NameOf(at) \in Names \cup {Filler, Clause}
    BY <1>2, <2>2, EntryFacts
  <2> QED BY <2>1, <2>2, <2>3
<1> HIDE DEF Ids
<1>4. n \in 0..Len(stack)
  BY <1>1, OpenIsPrefix
<1>5. TypeInvariant'
  <2>1. Item(at) \in [level : 1..88, id : Ids]
    <3>1. IdAt(at) \in Ids
      <4>1. \A m \in Names \cup {Filler, Clause}, k \in 0..Len(entries) : ItemId(m, k) \in Ids
        BY DEF Ids
      <4> QED BY <1>1, <1>3, <4>1
    <3> QED BY <1>3, <3>1
  <2> HIDE DEF Item, n
  <2>2. stack' \in Seq([level : 1..88, id : Ids])
    <3>1. SubSeq(stack, 1, n) \in Seq([level : 1..88, id : Ids])
      <4> DEFINE Held == [level : 1..88, id : Ids]
      <4>1. stack \in Seq(Held) /\ n \in Nat /\ n <= Len(stack) /\ Len(stack) \in Nat
        BY <1>3, <1>4
      <4> HIDE DEF Held
      <4>2. SubSeq(stack, 1, n) \in Seq(Held)
        BY <4>1
      <4> QED BY <4>2 DEF Held
    <3> QED BY <1>1, <2>1, <3>1, AppendProperties
  <2>3. /\ entries' \in Seq(Entry) /\ at' \in 1..(Len(entries') + 1)
        /\ fillers' \in 0..Len(entries')
    BY <1>1, <1>2, <1>3 DEF TypeInvariant
  <2>4. stack' \in Seq([level : 1..88, id : {ItemId(m, k) : m \in Names \cup {Filler, Clause}, k \in 0..Len(entries')}])
    <3>1. Len(entries') = Len(entries)
      BY <1>1
    <3> QED BY <2>2, <3>1 DEF Ids
  <2> QED BY <2>3, <2>4 DEF TypeInvariant
<1>6. /\ Len(stack') = n + 1 /\ stack'[n + 1] = Item(at)
      /\ \A r \in 1..n : stack'[r] = stack[r]
  <2> HIDE DEF Item, n
  <2> QED BY <1>1, <1>3, <1>4
<1>7. StackIsOpenChain'
  <2>1. OpenEntries' = OpenAt(at)'
    BY DEF OpenEntries, OpenAt
  <2>2. OpenAt(at)' = OpenAt(at + 1)
    <3>1. KeptBefore(at)' = KeptBefore(at + 1)
      BY <1>1, ReadingStays DEF KeptBefore
    <3> QED BY <1>1, <3>1 DEF OpenAt
  <2>3. S = T \cup {at} /\ T \in SUBSET (1..(at - 1))
    BY <1>1, <1>2, OpenGrows, LeftOpenIsOutermost
  <2>4. /\ Cardinality(S) = n + 1 /\ Rank(S, at) = n + 1
        /\ \A l \in T : Rank(S, l) = Rank(T, l)
    <3> HIDE DEF S, T
    <3> QED BY <1>3, <2>3, RankOfMore DEF n
  <2>5. ASSUME NEW l \in S
        PROVE  stack'[Rank(S, l)] = Item(l)
    <3>1. CASE l = at
      BY <1>6, <2>4, <3>1
    <3>2. CASE l \in T
      <4>1. Rank(S, l) = Rank(OpenAt(at), l) /\ Rank(S, l) \in 1..n
        <5>1. Rank(T, l) = Rank(OpenAt(at), l)
          BY <1>1, <1>2, <3>2, LeftOpenIsOutermost
        <5>2. Rank(T, l) \in 1..n
          BY <1>3, <2>3, <3>2, Ranks
        <5> QED BY <2>4, <3>2, <5>1, <5>2
      <4>2. l \in OpenEntries /\ Rank(OpenAt(at), l) = Cardinality({k \in OpenEntries : k <= l})
        BY <3>2 DEF OpenEntries, OpenAt, LeftOpen, Rank
      <4>3. stack[Rank(OpenAt(at), l)] = Item(l)
        BY <1>2, <4>2 DEF StackIsOpenChain
      <4> HIDE DEF Item, n, S, T
      <4> QED BY <1>6, <4>1, <4>3
    <3> QED BY <2>3, <3>1, <3>2
  <2>6. \A l : Item(l)' = Item(l)
    BY <1>1, ReadingStays
  <2>7. OpenEntries' = S
    BY <2>1, <2>2
  <2>8. ASSUME NEW l \in S
        PROVE  stack'[Cardinality({k \in OpenEntries' : k <= l})] = Item(l)'
    <3>1. Rank(S, l) = Cardinality({k \in OpenEntries' : k <= l})
      BY <2>7 DEF Rank
    <3> HIDE DEF Item, S
    <3> QED BY <2>5, <2>6, <3>1
  <2> HIDE DEF S
  <2> QED BY <1>6, <2>4, <2>7, <2>8 DEF StackIsOpenChain
<1>8. FillersCounted'
  <2>1. KeptBefore(at)' = KeptBefore(at + 1) /\ \A l : NameOf(l)' = NameOf(l)
    BY <1>1, ReadingStays DEF KeptBefore
  <2> QED BY <1>1, <2>1 DEF FillersCounted
<1>9. HierarchyFollowsLevels'
  <2> DEFINE found(l) == ItemObs(l, IdAt(l), entries[l].level)
             tied(l) == ContainsObs(l, ParentAt(l), IdAt(l), entries[l].level)
  <2>1. KeptBefore(at)' = KeptBefore(at) \cup {at}
    <3>1. KeptBefore(at)' = KeptBefore(at + 1)
      BY <1>1, ReadingStays DEF KeptBefore
    <3>2. KeptBefore(at + 1) = KeptBefore(at) \cup {at}
      BY <1>1, <1>3, KeptGrows
    <3> QED BY <3>1, <3>2
  <2>2. \A l : found(l)' = found(l)
    <3>1. \A l : IdAt(l)' = IdAt(l)
      BY <1>1, ReadingStays
    <3>2. \A l, id, level : ItemObs(l, id, level)' = ItemObs(l, id, level)
      BY <1>1, ReadingStays
    <3> QED BY <1>1, <3>1, <3>2 DEF ItemObs
  <2>3. \A l : tied(l)' = tied(l)
    BY <1>1, ReadingStays DEF ContainsObs
  <2>4. out = {found(l) : l \in KeptBefore(at)} \cup {tied(l) : l \in KeptBefore(at)}
    BY DEF HierarchyFollowsLevels
  <2>5. out' = out \cup {found(at), tied(at)}
    BY <1>1
  <2> HIDE DEF found, tied
  <2>6. out' = {found(l)' : l \in KeptBefore(at)'} \cup {tied(l)' : l \in KeptBefore(at)'}
    BY <2>1, <2>2, <2>3, <2>4, <2>5
  <2> QED BY <2>6 DEF HierarchyFollowsLevels, found, tied
<1> QED BY <1>5, <1>7, <1>8, <1>9 DEF DataItemsInv

\* A step that describes nothing changes nothing.
LEMMA NothingDescribed ==
  ASSUME DataItemsInv, HierarchyFollowsLevels,
         UNCHANGED <<reader, entries, stack, fillers, out>>,
         at' \in 1..(Len(entries) + 1), KeptBefore(at') = KeptBefore(at)
  PROVE  (DataItemsInv /\ HierarchyFollowsLevels)'
<1>1. /\ reader' = reader /\ entries' = entries
      /\ stack' = stack /\ fillers' = fillers /\ out' = out
  OBVIOUS
<1>2. TypeInvariant /\ StackIsOpenChain /\ FillersCounted
  BY DEF DataItemsInv
<1>3. /\ KeptBefore(at)' = KeptBefore(at)
      /\ \A l : NameOf(l)' = NameOf(l) /\ IdAt(l)' = IdAt(l) /\ ParentAt(l)' = ParentAt(l)
      /\ \A l, id, level : ItemObs(l, id, level)' = ItemObs(l, id, level)
  <2>1. KeptBefore(at)' = KeptBefore(at')
    BY <1>1, ReadingStays DEF KeptBefore
  <2> QED BY <1>1, <2>1, ReadingStays
<1>4. TypeInvariant'
  <2>1. /\ entries' \in Seq(Entry) /\ at' \in 1..(Len(entries') + 1)
        /\ fillers' \in 0..Len(entries')
    BY <1>1, <1>2 DEF TypeInvariant
  <2>2. stack' \in Seq([level : 1..88, id : {ItemId(m, k) : m \in Names \cup {Filler, Clause}, k \in 0..Len(entries')}])
    BY <1>1, <1>2 DEF TypeInvariant
  <2> QED BY <2>1, <2>2 DEF TypeInvariant
<1>5. StackIsOpenChain'
  <2>1. OpenEntries' = OpenEntries
    BY <1>1, <1>3 DEF OpenEntries
  <2> QED BY <1>1, <1>2, <1>3, <2>1 DEF StackIsOpenChain
<1>6. FillersCounted'
  BY <1>1, <1>2, <1>3 DEF FillersCounted
<1>7. HierarchyFollowsLevels'
  <2> DEFINE found(l) == ItemObs(l, IdAt(l), entries[l].level)
             tied(l) == ContainsObs(l, ParentAt(l), IdAt(l), entries[l].level)
  <2>1. \A l : found(l)' = found(l) /\ tied(l)' = tied(l)
    <3>1. \A l : ItemObs(l, IdAt(l), entries[l].level)' = ItemObs(l, IdAt(l), entries[l].level)
      BY <1>1, <1>3 DEF ItemObs
    <3>2. \A l : tied(l)' = tied(l)
      BY <1>1, <1>3 DEF ContainsObs
    <3> QED BY <3>1, <3>2
  <2>2. out = {found(l) : l \in KeptBefore(at)} \cup {tied(l) : l \in KeptBefore(at)}
    BY DEF HierarchyFollowsLevels
  <2> HIDE DEF found, tied
  <2>3. out' = {found(l)' : l \in KeptBefore(at)'} \cup {tied(l)' : l \in KeptBefore(at)'}
    BY <1>1, <1>3, <2>1, <2>2
  <2> QED BY <2>3 DEF HierarchyFollowsLevels, found, tied
<1> QED BY <1>4, <1>5, <1>6, <1>7 DEF DataItemsInv

LEMMA SkipKeeps ==
  ASSUME DataItemsInv, HierarchyFollowsLevels, SkipEntry
  PROVE  (DataItemsInv /\ HierarchyFollowsLevels)'
<1>1. /\ at <= Len(entries) /\ ~Kept(at) /\ at' = at + 1
      /\ UNCHANGED <<reader, entries, stack, fillers, out>>
  BY DEF SkipEntry
<1>2. at \in Nat /\ at >= 1 /\ at + 1 \in 1..(Len(entries) + 1)
  BY <1>1, EntryFacts DEF DataItemsInv, TypeInvariant
<1>3. KeptBefore(at') = KeptBefore(at)
  BY <1>1, <1>2, KeptGrows
<1> QED BY <1>1, <1>2, <1>3, NothingDescribed

LEMMA NextInv ==
  DataItemsInv /\ HierarchyFollowsLevels /\ [Next]_vars => (DataItemsInv /\ HierarchyFollowsLevels)'
<1> SUFFICES ASSUME DataItemsInv, HierarchyFollowsLevels, [Next]_vars
             PROVE  (DataItemsInv /\ HierarchyFollowsLevels)'
  OBVIOUS
<1>1. CASE Describe
  BY <1>1, DescribeKeeps
<1>2. CASE SkipEntry
  BY <1>2, SkipKeeps
<1>3. CASE UNCHANGED vars
  <2>1. UNCHANGED <<reader, entries, stack, fillers, out>> /\ at' = at
    BY <1>3 DEF vars
  <2>2. at \in 1..(Len(entries) + 1)
    BY DEF DataItemsInv, TypeInvariant
  <2> QED BY <2>1, <2>2, NothingDescribed
<1> QED BY <1>1, <1>2, <1>3 DEF Next

-----------------------------------------------------------------------------
(* The places of a picture *)

LEMMA InPlaces ==
  ASSUME NEW S, NEW f \in [S -> Nat], NEW x
  PROVE  x \in Places(f) <=> \E k \in S : \E j \in 1..f[k] : x = <<k, j>>
<1>1. DOMAIN f = S
  OBVIOUS
<1> QED BY <1>1 DEF Places

LEMMA PlacesFinite ==
  ASSUME NEW S, IsFiniteSet(S), NEW f \in [S -> Nat]
  PROVE  IsFiniteSet(Places(f)) /\ Cardinality(Places(f)) \in Nat
<1> DEFINE R(k) == {k} \X (1..f[k])
           T    == {R(k) : k \in S}
           F    == [k \in S |-> R(k)]
<1>1. F \in Surjection(S, T)
  BY DEF Surjection
<1>2. IsFiniteSet(T)
  <2> HIDE DEF F, T
  <2> QED BY <1>1, FS_Surjection
<1>3. ASSUME NEW U \in T
      PROVE  IsFiniteSet(U)
  <2>1. PICK k \in S : U = {k} \X (1..f[k])
    OBVIOUS
  <2>2. f[k] \in Nat
    OBVIOUS
  <2>3. IsFiniteSet(1..f[k])
    BY <2>2, FS_Interval
  <2>4. IsFiniteSet({k})
    BY FS_Singleton
  <2>5. IsFiniteSet({k} \X (1..f[k]))
    BY <2>3, <2>4, FS_Product
  <2> QED BY <2>1, <2>5
<1>4. Places(f) = UNION T
  <2>1. DOMAIN f = S
    OBVIOUS
  <2> QED BY <2>1 DEF Places
<1>5. IsFiniteSet(UNION T)
  <2> HIDE DEF T
  <2> QED BY <1>2, <1>3, FS_UNION
<1> QED BY <1>4, <1>5, FS_CardinalityType

\* What a count of symbols counts: the places of the runs k of a set of runs
Spots(pic, S) == {x \in (DOMAIN pic) \X Nat : x[1] \in S /\ x[2] \in 1..pic[x[1]].times}

LEMMA PictureFacts ==
  ASSUME NEW pic \in Seq(Run)
  PROVE  /\ Len(pic) \in Nat /\ DOMAIN pic = 1..Len(pic)
         /\ \A k \in DOMAIN pic : pic[k] \in Run /\ pic[k].times \in Nat
<1>1. Len(pic) \in Nat /\ DOMAIN pic = 1..Len(pic)
  BY LenProperties
<1>2. \A k \in 1..Len(pic) : pic[k] \in Run
  BY ElementOfSeq
<1> QED BY <1>1, <1>2 DEF Run

LEMMA SizeIsSpots ==
  ASSUME NEW pic \in Seq(Run), NEW syms, NEW a \in Nat, a >= 1, NEW b \in Int, b <= Len(pic)
  PROVE  LET S == {k \in a..b : pic[k].sym \in syms}
         IN  /\ Size(pic, syms, a, b) = Cardinality(Spots(pic, S))
             /\ IsFiniteSet(Spots(pic, S))
             /\ Cardinality(Spots(pic, S)) \in Nat
<1> DEFINE S == {k \in a..b : pic[k].sym \in syms}
           f == [k \in S |-> pic[k].times]
<1>1. S \in SUBSET (DOMAIN pic)
  BY PictureFacts
<1>2. f \in [S -> Nat]
  BY <1>1, PictureFacts
<1>3. IsFiniteSet(S)
  <2>1. IsFiniteSet(a..b)
    BY FS_Interval
  <2> QED BY <2>1, FS_Subset
<1>4. \A x : x \in Places(f) <=> \E k \in S : \E j \in 1..f[k] : x = <<k, j>>
  <2> HIDE DEF f, S
  <2> QED BY <1>2, InPlaces
<1>5. Places(f) = Spots(pic, S)
  <2>1. \A k \in S : f[k] = pic[k].times /\ pic[k].times \in Nat
    BY <1>1, PictureFacts
  <2> HIDE DEF f, S
  <2>2. ASSUME NEW x \in Places(f)
        PROVE  x \in Spots(pic, S)
    <3>1. PICK k \in S : \E j \in 1..f[k] : x = <<k, j>>
      BY <1>4
    <3> QED BY <1>1, <2>1, <3>1 DEF Spots
  <2>3. ASSUME NEW x \in Spots(pic, S)
        PROVE  x \in Places(f)
    <3>1. PICK k \in DOMAIN pic, j \in Nat : x = <<k, j>> /\ k \in S /\ j \in 1..pic[k].times
      BY DEF Spots
    <3> QED BY <1>4, <2>1, <3>1
  <2> QED BY <2>2, <2>3
<1>6. IsFiniteSet(Places(f)) /\ Cardinality(Places(f)) \in Nat
  <2> HIDE DEF f, S
  <2> QED BY <1>2, <1>3, PlacesFinite
<1> QED BY <1>5, <1>6 DEF Size

\* No factor of the picture holds a nine.
NoStray(pic) == \A k \in DOMAIN pic : Stray(pic[k]) = 0

LEMMA CountIsSpots ==
  ASSUME NEW pic \in Seq(Run), NoStray(pic), NEW s
  PROVE  LET S == {k \in DOMAIN pic : pic[k].sym = s}
         IN  /\ CountSymbol(pic, s) = Cardinality(Spots(pic, S))
             /\ IsFiniteSet(Spots(pic, S))
             /\ Cardinality(Spots(pic, S)) \in Nat
<1> DEFINE S == {k \in DOMAIN pic : pic[k].sym = s}
           D == DOMAIN pic
           f == [k \in D |-> IF pic[k].sym = s THEN pic[k].times
                             ELSE IF s = "9" THEN Stray(pic[k]) ELSE 0]
<1>1. \A k \in D : f[k] = IF k \in S THEN pic[k].times ELSE 0
  BY DEF NoStray
<1>2. f \in [D -> Nat]
  BY <1>1, PictureFacts
<1>3. IsFiniteSet(D)
  BY PictureFacts, FS_Interval
<1>4. CountSymbol(pic, s) = Cardinality(Places(f))
  BY DEF CountSymbol
<1>5. S \in SUBSET D
  OBVIOUS
<1>6. \A k \in D : pic[k].times \in Nat
  BY PictureFacts
<1> HIDE DEF f, S
<1>7. \A x : x \in Places(f) <=> \E k \in D : \E j \in 1..f[k] : x = <<k, j>>
  BY <1>2, InPlaces
<1>8. Places(f) = Spots(pic, S)
  <2>1. ASSUME NEW x \in Places(f)
        PROVE  x \in Spots(pic, S)
    <3>1. PICK k \in D : \E j \in 1..f[k] : x = <<k, j>>
      BY <1>7
    <3>2. k \in S /\ f[k] = pic[k].times
      BY <1>1, <3>1
    <3> QED BY <1>6, <3>1, <3>2 DEF Spots
  <2>2. ASSUME NEW x \in Spots(pic, S)
        PROVE  x \in Places(f)
    <3>1. PICK k \in D, j \in Nat : x = <<k, j>> /\ k \in S /\ j \in 1..pic[k].times
      BY DEF Spots
    <3> QED BY <1>1, <1>7, <3>1
  <2> QED BY <2>1, <2>2
<1>9. IsFiniteSet(Places(f)) /\ Cardinality(Places(f)) \in Nat
  BY <1>2, <1>3, PlacesFinite
<1> QED BY <1>4, <1>8, <1>9 DEF S

\* Runs of two sets that share none are counted one after the other.
LEMMA SpotsAdd ==
  ASSUME NEW pic, NEW S, NEW T, S \cap T = {},
         IsFiniteSet(Spots(pic, S)), Cardinality(Spots(pic, S)) \in Nat,
         IsFiniteSet(Spots(pic, T)), Cardinality(Spots(pic, T)) \in Nat
  PROVE  /\ IsFiniteSet(Spots(pic, S \cup T))
         /\ Cardinality(Spots(pic, S \cup T)) = Cardinality(Spots(pic, S)) + Cardinality(Spots(pic, T))
<1>1. Spots(pic, S \cup T) = Spots(pic, S) \cup Spots(pic, T)
  BY DEF Spots
<1>2. Spots(pic, S) \cap Spots(pic, T) = {}
  BY DEF Spots
<1>3. Cardinality({}) = 0
  BY FS_EmptySet
<1>4. /\ IsFiniteSet(Spots(pic, S) \cup Spots(pic, T))
      /\ Cardinality(Spots(pic, S) \cup Spots(pic, T))
           = Cardinality(Spots(pic, S)) + Cardinality(Spots(pic, T)) - Cardinality(Spots(pic, S) \cap Spots(pic, T))
  BY FS_Union
<1>5. Cardinality(Spots(pic, S) \cap Spots(pic, T)) = 0
  BY <1>2, <1>3, Zenon
<1>6. /\ IsFiniteSet(Spots(pic, S \cup T))
      /\ Cardinality(Spots(pic, S \cup T)) = Cardinality(Spots(pic, S) \cup Spots(pic, T))
  BY <1>1, <1>4, Zenon
<1> QED BY <1>4, <1>5, <1>6

\* The code counts the digits of a picture symbol by symbol.
LEMMA DigitsCounted ==
  ASSUME NEW pic \in Seq(Run), NoStray(pic)
  PROVE  CountDigits(pic) = Size(pic, Digits, 1, Len(pic)) /\ CountDigits(pic) \in Nat
<1> DEFINE S(s) == {k \in DOMAIN pic : pic[k].sym = s}
<1>1. \A s : /\ CountSymbol(pic, s) = Cardinality(Spots(pic, S(s)))
             /\ IsFiniteSet(Spots(pic, S(s)))
             /\ Cardinality(Spots(pic, S(s))) \in Nat
  BY CountIsSpots
<1>2. S("9") \cap S("Z") = {} /\ (S("9") \cup S("Z")) \cap S("*") = {}
  OBVIOUS
<1>3. {k \in 1..Len(pic) : pic[k].sym \in Digits} = (S("9") \cup S("Z")) \cup S("*")
  BY PictureFacts DEF Digits
<1>4. Size(pic, Digits, 1, Len(pic)) = Cardinality(Spots(pic, {k \in 1..Len(pic) : pic[k].sym \in Digits}))
  BY SizeIsSpots, PictureFacts
<1> HIDE DEF S
<1>5. /\ IsFiniteSet(Spots(pic, S("9") \cup S("Z")))
      /\ Cardinality(Spots(pic, S("9") \cup S("Z")))
           = Cardinality(Spots(pic, S("9"))) + Cardinality(Spots(pic, S("Z")))
  BY <1>1, <1>2, SpotsAdd
<1>6. Cardinality(Spots(pic, S("9") \cup S("Z"))) \in Nat
  BY <1>1, <1>5
<1>7. Cardinality(Spots(pic, (S("9") \cup S("Z")) \cup S("*")))
        = Cardinality(Spots(pic, S("9") \cup S("Z"))) + Cardinality(Spots(pic, S("*")))
  BY <1>1, <1>2, <1>5, <1>6, SpotsAdd
<1>8. CountDigits(pic) = Cardinality(Spots(pic, S("9"))) + Cardinality(Spots(pic, S("Z"))) + Cardinality(Spots(pic, S("*")))
  BY <1>1 DEF CountDigits
<1>9. Size(pic, Digits, 1, Len(pic)) = Cardinality(Spots(pic, (S("9") \cup S("Z")) \cup S("*")))
  BY <1>3, <1>4, Zenon
<1>10. CountDigits(pic) \in Nat
  BY <1>1, <1>8
<1> QED BY <1>5, <1>7, <1>8, <1>9, <1>10

LEMMA LettersCounted ==
  ASSUME NEW pic \in Seq(Run), NoStray(pic)
  PROVE  CountSymbol(pic, "X") + CountSymbol(pic, "A") = Size(pic, Letters, 1, Len(pic))
<1> DEFINE S(s) == {k \in DOMAIN pic : pic[k].sym = s}
<1>1. \A s : /\ CountSymbol(pic, s) = Cardinality(Spots(pic, S(s)))
             /\ IsFiniteSet(Spots(pic, S(s)))
             /\ Cardinality(Spots(pic, S(s))) \in Nat
  BY CountIsSpots
<1>2. S("X") \cap S("A") = {}
  OBVIOUS
<1>3. {k \in 1..Len(pic) : pic[k].sym \in Letters} = S("X") \cup S("A")
  BY PictureFacts DEF Letters
<1>4. Size(pic, Letters, 1, Len(pic)) = Cardinality(Spots(pic, {k \in 1..Len(pic) : pic[k].sym \in Letters}))
  BY SizeIsSpots, PictureFacts
<1> HIDE DEF S
<1>5. Cardinality(Spots(pic, S("X") \cup S("A")))
           = Cardinality(Spots(pic, S("X"))) + Cardinality(Spots(pic, S("A")))
  BY <1>1, <1>2, SpotsAdd
<1> QED BY <1>1, <1>3, <1>4, <1>5

\* The runs of a part of a picture, counted in the part or in the picture
LEMMA PartCounted ==
  ASSUME NEW pic \in Seq(Run), NEW a \in Nat, a >= 1, NEW b \in Int, b <= Len(pic), NEW syms
  PROVE  LET part == SubSeq(pic, a, b)
         IN  /\ part \in Seq(Run)
             /\ NoStray(pic) => NoStray(part)
             /\ Size(part, syms, 1, Len(part)) = Size(pic, syms, a, b)
<1> DEFINE part == SubSeq(pic, a, b)
           S    == {k \in 1..Len(part) : part[k].sym \in syms}
           T    == {k \in a..b : pic[k].sym \in syms}
           F    == [x \in Spots(part, S) |-> <<x[1] + (a - 1), x[2]>>]
<1>1. \A k \in a..b : k \in DOMAIN pic /\ pic[k] \in Run
  BY PictureFacts
<1>2. /\ part \in Seq(Run)
      /\ Len(part) = IF a <= b THEN b - a + 1 ELSE 0
      /\ \A k \in 1..(b - a + 1) : part[k] = pic[a + k - 1]
  BY <1>1, SubSeqProperties
<1> HIDE DEF part
<1>3. \A k \in DOMAIN part : k \in 1..(b - a + 1) /\ part[k] = pic[k + (a - 1)] /\ k + (a - 1) \in a..b
  BY <1>2, PictureFacts
<1>4. NoStray(pic) => NoStray(part)
  BY <1>1, <1>3 DEF NoStray
<1>5. \A k \in 1..Len(part) : k \in S <=> k + (a - 1) \in T
  BY <1>2, <1>3, PictureFacts
<1>6. \A m \in a..b : m - (a - 1) \in 1..Len(part) /\ (m - (a - 1)) + (a - 1) = m
  BY <1>2
<1>7. S \in SUBSET (1..Len(part)) /\ T \in SUBSET (a..b)
  OBVIOUS
<1>8. DOMAIN part = 1..Len(part)
  BY <1>2, PictureFacts
<1> HIDE DEF S, T
<1>9. ASSUME NEW x \in Spots(part, S)
      PROVE  /\ x[1] \in S /\ x[2] \in Nat /\ x = <<x[1], x[2]>>
             /\ F[x] = <<x[1] + (a - 1), x[2]>> /\ F[x] \in Spots(pic, T)
  <2>1. PICK k \in DOMAIN part, j \in Nat : x = <<k, j>> /\ k \in S /\ j \in 1..part[k].times
    BY DEF Spots
  <2>2. F[x] = <<k + (a - 1), j>>
    BY <2>1
  <2>3. k + (a - 1) \in T /\ k + (a - 1) \in DOMAIN pic /\ j \in 1..pic[k + (a - 1)].times
    BY <1>1, <1>3, <1>5, <1>8, <2>1
  <2>4. <<k + (a - 1), j>> \in Spots(pic, T)
    BY <2>1, <2>3 DEF Spots
  <2> QED BY <2>1, <2>2, <2>4
<1>10. ASSUME NEW y \in Spots(pic, T)
       PROVE  \E x \in Spots(part, S) : F[x] = y
  <2>1. PICK m \in DOMAIN pic, j \in Nat : y = <<m, j>> /\ m \in T /\ j \in 1..pic[m].times
    BY DEF Spots
  <2> DEFINE k == m - (a - 1)
  <2>2. k \in DOMAIN part /\ k + (a - 1) = m /\ k \in S
    BY <1>5, <1>6, <1>7, <1>8, <2>1
  <2> HIDE DEF k
  <2>3. <<k, j>> \in Spots(part, S)
    BY <1>3, <2>1, <2>2 DEF Spots
  <2>4. F[<<k, j>>] = y
    BY <2>1, <2>2, <2>3
  <2> QED BY <2>3, <2>4
<1>11. F \in Bijection(Spots(part, S), Spots(pic, T))
  <2>1. F \in [Spots(part, S) -> Spots(pic, T)]
    BY <1>9
  <2>2. ASSUME NEW x \in Spots(part, S), NEW y \in Spots(part, S), F[x] = F[y]
        PROVE  x = y
    <3>1. x[1] \in Nat /\ y[1] \in Nat
      <4>1. \A k \in S : k \in Nat
        BY <1>2, <1>7
      <4> QED BY <1>9, <4>1
    <3>2. x[1] + (a - 1) = y[1] + (a - 1) /\ x[2] = y[2]
      BY <1>9, <2>2
    <3>3. x[1] = y[1]
      BY <3>1, <3>2
    <3> QED BY <1>9, <3>2, <3>3
  <2> HIDE DEF F
  <2> QED BY <1>10, <2>1, <2>2, Fun_IsBij
<1>12. ExistsBijection(Spots(part, S), Spots(pic, T))
  BY <1>11, Fun_ExistsBij
<1>13. Size(part, syms, 1, Len(part)) = Cardinality(Spots(part, S)) /\ IsFiniteSet(Spots(part, S))
  <2>1. Len(part) \in Int /\ Len(part) <= Len(part) /\ 1 \in Nat /\ 1 >= 1
    BY <1>2
  <2> QED BY <1>2, <2>1, SizeIsSpots DEF S
<1>14. Size(pic, syms, a, b) = Cardinality(Spots(pic, T))
  BY SizeIsSpots DEF T
<1>15. Cardinality(Spots(pic, T)) = Cardinality(Spots(part, S))
  BY <1>12, <1>13, FS_Bijection
<1> QED BY <1>2, <1>4, <1>13, <1>14, <1>15 DEF part

-----------------------------------------------------------------------------
(* The suggested type *)

LEMMA PointFacts ==
  ASSUME NEW pic \in Seq(Run)
  PROVE  /\ Point(pic) \in 1..(Len(pic) + 1)
         /\ Point(pic) \in DOMAIN pic => pic[Point(pic)].sym \in {"V", "."}
<1> DEFINE at_(s) == {k \in DOMAIN pic : pic[k].sym = s}
           mark   == IF at_("V") # {} THEN at_("V") ELSE at_(".")
<1>1. Point(pic) = IF mark = {} THEN Len(pic) + 1 ELSE CHOOSE k \in mark : \A j \in mark : k <= j
  BY DEF Point
<1>2. mark \in SUBSET (DOMAIN pic) /\ \A k \in mark : pic[k].sym \in {"V", "."}
  OBVIOUS
<1>3. DOMAIN pic = 1..Len(pic) /\ Len(pic) \in Nat
  BY PictureFacts
<1> HIDE DEF mark
<1>4. CASE mark = {}
  BY <1>1, <1>3, <1>4
<1>5. CASE mark # {}
  <2>1. mark \in SUBSET Nat
    BY <1>2, <1>3
  <2>2. \E x \in mark : \A y \in mark : x <= y
    BY <1>5, <2>1, LeastExists
  <2>3. Point(pic) \in mark
    BY <1>1, <1>5, <2>2
  <2> QED BY <1>2, <1>3, <2>3
<1> QED BY <1>4, <1>5

\* A picture with a digit has a place for one, before the point or after it.
LEMMA DigitHasPlace ==
  ASSUME NEW pic \in Seq(Run), \A k \in DOMAIN pic : pic[k].times > 0,
         NEW a \in Nat, a >= 1, NEW b \in Int, b <= Len(pic),
         NEW k \in a..b, NEW syms, pic[k].sym \in syms
  PROVE  Size(pic, syms, a, b) > 0
<1> DEFINE S == {j \in a..b : pic[j].sym \in syms}
<1>1. k \in DOMAIN pic /\ pic[k].times \in Nat /\ pic[k].times > 0
  BY PictureFacts
<1>2. <<k, 1>> \in Spots(pic, S)
  BY <1>1 DEF Spots
<1>3. /\ Size(pic, syms, a, b) = Cardinality(Spots(pic, S))
      /\ IsFiniteSet(Spots(pic, S))
      /\ Cardinality(Spots(pic, S)) \in Nat
  BY SizeIsSpots
<1> HIDE DEF S
<1>4. Cardinality(Spots(pic, S)) # 0
  BY <1>2, <1>3, FS_EmptySet
<1> QED BY <1>3, <1>4

LEMMA NoPlace ==
  ASSUME NEW pic \in Seq(Run), NEW a \in Nat, a >= 1, NEW b \in Int, b <= Len(pic), NEW syms,
         \A k \in a..b : pic[k].sym \notin syms
  PROVE  Size(pic, syms, a, b) = 0
<1>1. {j \in a..b : pic[j].sym \in syms} = {}
  OBVIOUS
<1>2. Spots(pic, {}) = {}
  BY DEF Spots
<1>3. Cardinality({}) = 0
  BY FS_EmptySet
<1>4. Size(pic, syms, a, b) = Cardinality(Spots(pic, {j \in a..b : pic[j].sym \in syms}))
  BY SizeIsSpots
<1>5. Size(pic, syms, a, b) = Cardinality(Spots(pic, {}))
  BY <1>1, <1>4, Zenon
<1> QED BY <1>2, <1>3, <1>5

\* The code's count of the digits before the point and after it is that of their places.
LEMMA DigitsOfParts ==
  ASSUME NEW pic \in Seq(Run), NoStray(pic), NEW a \in Nat, a >= 1, NEW b \in Int, b <= Len(pic)
  PROVE  CountDigits(SubSeq(pic, a, b)) = Size(pic, Digits, a, b) /\ Size(pic, Digits, a, b) \in Nat
<1> DEFINE part == SubSeq(pic, a, b)
<1>1. part \in Seq(Run) /\ NoStray(part) /\ Size(part, Digits, 1, Len(part)) = Size(pic, Digits, a, b)
  BY PartCounted
<1> HIDE DEF part
<1>2. CountDigits(part) = Size(part, Digits, 1, Len(part)) /\ CountDigits(part) \in Nat
  BY <1>1, DigitsCounted
<1>3. CountDigits(part) = Size(pic, Digits, a, b) /\ CountDigits(part) \in Nat
  BY <1>1, <1>2
<1> QED BY <1>3 DEF part

LEMMA TypeFits ==
  ASSUME NEW pic \in Seq(Run), NEW usage, \A k \in DOMAIN pic : Stray(pic[k]) = 0 /\ pic[k].times > 0
  PROVE  LET type == Suggested(pic, usage)
         IN  /\ OfLetters(pic) \/ OfDigits(pic) => Fits(type, pic)
             /\ Symbols(pic) \cap (Letters \cup Digits) = {} => type = NoType
             /\ type.type \in {"INTEGER", "BIGINT"} => usage \in BinaryUsages
<1> DEFINE before == Point(pic) - 1
           after  == Point(pic) + 1
           w      == Size(pic, Digits, 1, before)
           d      == Size(pic, Digits, after, Len(pic))
           type   == Suggested(pic, usage)
<1>1. Len(pic) \in Nat /\ DOMAIN pic = 1..Len(pic)
  BY PictureFacts
<1>2. NoStray(pic) /\ \A k \in DOMAIN pic : pic[k].times > 0
  BY DEF NoStray
<1>3. Point(pic) \in 1..(Len(pic) + 1) /\ (Point(pic) \in DOMAIN pic => pic[Point(pic)].sym \in {"V", "."})
  BY PointFacts
<1>4. /\ before \in Int /\ before <= Len(pic) /\ after \in Nat /\ after >= 1
      /\ \A k \in 1..Len(pic) : k \in 1..before \/ k = Point(pic) \/ k \in after..Len(pic)
      /\ 1..before \in SUBSET (1..Len(pic)) /\ after..Len(pic) \in SUBSET (1..Len(pic))
  BY <1>1, <1>3
<1> HIDE DEF before, after
<1>5. CountDigits(SubSeq(pic, 1, before)) = w /\ w \in Nat
  BY <1>2, <1>4, DigitsOfParts
<1>6. CountDigits(SubSeq(pic, after, Len(pic))) = d /\ d \in Nat
  BY <1>1, <1>2, <1>4, DigitsOfParts
<1>7. HasDigit(pic) <=> Symbols(pic) \cap Digits # {}
  BY <1>2 DEF HasDigit, Symbols, NoStray
<1>8. type = IF Symbols(pic) \cap Letters # {} /\ ~HasDigit(pic)
             THEN [type |-> "CHAR", size |-> CountSymbol(pic, "X") + CountSymbol(pic, "A")]
             ELSE IF w + d = 0 THEN NoType
             ELSE IF d = 0 /\ usage \in BinaryUsages THEN IntegerType(w)
             ELSE [type |-> "NUMERIC", digits |-> w + d, decimals |-> d]
  <2>1. CountDigits(SubSeq(pic, 1, Point(pic) - 1)) = w
    BY <1>5 DEF before
  <2>2. CountDigits(SubSeq(pic, Point(pic) + 1, Len(pic))) = d
    BY <1>6 DEF after
  <2> HIDE DEF w, d
  <2> QED BY <2>1, <2>2 DEF Suggested
<1>9. w = Size(pic, Digits, 1, Point(pic) - 1) /\ d = Size(pic, Digits, Point(pic) + 1, Len(pic))
  BY DEF before, after
<1> HIDE DEF type
<1>10. CASE OfLetters(pic)
  <2>1. Symbols(pic) \cap Letters # {} /\ ~HasDigit(pic)
    BY <1>7, <1>10 DEF OfLetters
  <2>2. type = [type |-> "CHAR", size |-> CountSymbol(pic, "X") + CountSymbol(pic, "A")]
    BY <1>8, <2>1, Zenon
  <2>3. CountSymbol(pic, "X") + CountSymbol(pic, "A") = Size(pic, Letters, 1, Len(pic))
    BY <1>2, LettersCounted
  <2>4. type.type = "CHAR" /\ type.size = Size(pic, Letters, 1, Len(pic))
    BY <2>2, <2>3
  <2>5. Fits(type, pic)
    BY <1>10, <2>4 DEF Fits
  <2>6. Symbols(pic) \cap (Letters \cup Digits) # {}
    BY <2>1
  <2> QED BY <2>4, <2>5, <2>6 DEF type
<1>11. CASE OfDigits(pic)
  <2>1. PICK k \in DOMAIN pic : pic[k].sym \in Digits
    BY <1>11 DEF OfDigits, Symbols
  <2>2. HasDigit(pic)
    BY <2>1 DEF HasDigit
  <2>3. k # Point(pic)
    BY <1>3, <2>1 DEF Digits
  <2>4. w + d > 0
    <3>1. CASE k \in 1..before
      <4>1. w > 0
        BY <1>2, <1>4, <2>1, <3>1, DigitHasPlace
      <4> HIDE DEF w, d
      <4> QED BY <1>5, <1>6, <4>1
    <3>2. CASE k \in after..Len(pic)
      <4>1. d > 0
        BY <1>1, <1>2, <1>4, <2>1, <3>2, DigitHasPlace
      <4> HIDE DEF w, d
      <4> QED BY <1>5, <1>6, <4>1
    <3> QED BY <1>1, <1>4, <2>3, <3>1, <3>2
  <2>5. Symbols(pic) \cap (Letters \cup Digits) # {}
    BY <2>1 DEF Symbols
  <2> HIDE DEF w, d
  <2>6. type = IF d = 0 /\ usage \in BinaryUsages THEN IntegerType(w)
               ELSE [type |-> "NUMERIC", digits |-> w + d, decimals |-> d]
    BY <1>5, <1>6, <1>8, <2>2, <2>4
  <2>7. Fits(type, pic) /\ (type.type \in {"INTEGER", "BIGINT"} => usage \in BinaryUsages)
    <3>1. CASE d = 0 /\ usage \in BinaryUsages
      <4>1. type = IntegerType(w) /\ w > 0
        BY <1>5, <2>4, <2>6, <3>1
      <4>2. CASE w <= 9
        <5>1. type.type = "INTEGER" /\ w \in 1..9
          BY <1>5, <4>1, <4>2 DEF IntegerType
        <5> QED BY <1>9, <3>1, <5>1 DEF Fits
      <4>3. CASE ~(w <= 9) /\ w <= 18
        <5>1. type.type = "BIGINT" /\ w \in 10..18
          BY <1>5, <4>1, <4>3 DEF IntegerType
        <5> QED BY <1>9, <3>1, <5>1 DEF Fits
      <4>4. CASE ~(w <= 18)
        <5>1. type.type = "NUMERIC" /\ type.digits = w /\ type.decimals = 0
          BY <1>5, <4>1, <4>4 DEF IntegerType
        <5>2. w + d = w
          BY <1>5, <3>1
        <5> QED BY <1>9, <3>1, <5>1, <5>2 DEF Fits
      <4> QED BY <4>2, <4>3, <4>4
    <3>2. CASE ~(d = 0 /\ usage \in BinaryUsages)
      <4>1. type.type = "NUMERIC" /\ type.digits = w + d /\ type.decimals = d
        BY <2>6, <3>2
      <4> QED BY <1>9, <4>1 DEF Fits
    <3> QED BY <3>1, <3>2
  <2> QED BY <2>5, <2>7 DEF type
<1>12. ASSUME Symbols(pic) \cap (Letters \cup Digits) = {}
       PROVE  type = NoType
  <2>1. \A k \in 1..Len(pic) : pic[k].sym \notin Digits
    BY <1>1, <1>12 DEF Symbols
  <2>2. w = 0 /\ d = 0
    BY <1>1, <1>4, <2>1, NoPlace
  <2>3. Symbols(pic) \cap Letters = {}
    BY <1>12
  <2> HIDE DEF w, d
  <2> QED BY <1>8, <2>2, <2>3
<1>13. type.type \in {"INTEGER", "BIGINT"} => usage \in BinaryUsages
  <2> HIDE DEF w, d
  <2> QED BY <1>8 DEF NoType
<1> QED BY <1>10, <1>11, <1>12, <1>13 DEF type

LEMMA PictureRead ==
  ASSUME TypeInvariant, NEW l \in 1..Len(entries), PictureOf(l) # Absent, PlainlyWritten(entries[l])
  PROVE  /\ PictureOf(l) \in Seq(Run)
         /\ \A k \in DOMAIN PictureOf(l) : Stray(PictureOf(l)[k]) = 0 /\ PictureOf(l)[k].times > 0
         /\ UsageOf(l) = entries[l].usage
<1> DEFINE pic == entries[l].pic
           G   == {k \in 0..Len(pic) : \A j \in 1..k : pic[j].sym \notin {"+", "*"}}
           n   == Greatest(G)
<1>1. pic # Absent
  BY DEF PictureOf
<1>2. pic \in Seq(Run)
  <2>1. entries \in Seq(Entry)
    BY DEF TypeInvariant
  <2>2. entries[l] \in Entry
    BY <2>1, ElementOfSeq
  <2> QED BY <1>1, <2>2 DEF Entry
<1>3. \A k \in DOMAIN pic : Stray(pic[k]) = 0 /\ pic[k].times > 0
  BY DEF PlainlyWritten
<1>4. Len(pic) \in Nat /\ DOMAIN pic = 1..Len(pic) /\ \A k \in DOMAIN pic : pic[k] \in Run
  BY <1>2, PictureFacts
<1>5. BeforeSign(pic) = SubSeq(pic, 1, n)
  BY DEF BeforeSign
<1>6. n \in 0..Len(pic)
  <2>1. G \in SUBSET (0..Len(pic)) /\ 0 \in G
    BY <1>4
  <2> HIDE DEF G
  <2>2. n \in G
    BY <1>4, <2>1, GreatestExists
  <2> QED BY <2>1, <2>2
<1> HIDE DEF n, pic
<1>7. /\ SubSeq(pic, 1, n) \in Seq(Run)
      /\ Len(SubSeq(pic, 1, n)) = n
      /\ \A k \in 1..n : SubSeq(pic, 1, n)[k] = pic[k]
  <2>1. \A k \in 1..n : pic[k] \in Run
    BY <1>4, <1>6
  <2>2. /\ SubSeq(pic, 1, n) \in Seq(Run)
        /\ Len(SubSeq(pic, 1, n)) = IF 1 <= n THEN n - 1 + 1 ELSE 0
        /\ \A k \in 1..(n - 1 + 1) : SubSeq(pic, 1, n)[k] = pic[1 + k - 1]
    BY <1>6, <2>1, SubSeqProperties
  <2>3. n - 1 + 1 = n /\ \A k \in 1..n : 1 + k - 1 = k
    BY <1>6
  <2> QED BY <1>6, <2>2, <2>3
<1>8. DOMAIN SubSeq(pic, 1, n) = 1..n
  BY <1>7, PictureFacts
<1>9. PictureOf(l) = pic \/ PictureOf(l) = SubSeq(pic, 1, n)
  BY <1>5 DEF PictureOf, pic
<1>10. UsageOf(l) = entries[l].usage
  BY DEF UsageOf, PlainlyWritten
<1>11. CASE PictureOf(l) = pic
  <2>1. \A k \in DOMAIN PictureOf(l) : Stray(PictureOf(l)[k]) = 0 /\ PictureOf(l)[k].times > 0
    BY <1>3, <1>11, Zenon
  <2>2. PictureOf(l) \in Seq(Run)
    BY <1>2, <1>11, Zenon
  <2> QED BY <1>10, <2>1, <2>2, Zenon
<1>12. CASE PictureOf(l) = SubSeq(pic, 1, n)
  <2>1. \A k \in 1..n : k \in DOMAIN pic
    BY <1>4, <1>6
  <2>2. \A k \in DOMAIN SubSeq(pic, 1, n) : Stray(SubSeq(pic, 1, n)[k]) = 0 /\ SubSeq(pic, 1, n)[k].times > 0
    BY <1>3, <1>7, <1>8, <2>1
  <2>3. \A k \in DOMAIN PictureOf(l) : Stray(PictureOf(l)[k]) = 0 /\ PictureOf(l)[k].times > 0
    BY <1>12, <2>2, Zenon
  <2>4. PictureOf(l) \in Seq(Run)
    BY <1>7, <1>12, Zenon
  <2> QED BY <1>10, <2>3, <2>4, Zenon
<1> QED BY <1>9, <1>11, <1>12

\* The items are those of the entries read, and the type of each is that of its picture.
LEMMA ItemsAreTyped ==
  TypeInvariant /\ HierarchyFollowsLevels => TypesHoldTheirValues
<1> SUFFICES ASSUME TypeInvariant, HierarchyFollowsLevels, NEW o \in out, o.kind = "entity"
             PROVE  LET e   == entries[o.entry]
                        pic == PictureOf(o.entry)
                    IN  /\ o.group <=> pic = Absent
                        /\ o.group => o.type = NoType
                        /\ ~o.group /\ PlainlyWritten(e) =>
                             /\ OfLetters(pic) \/ OfDigits(pic) => Fits(o.type, pic)
                             /\ Symbols(pic) \cap (Letters \cup Digits) = {} => o.type = NoType
                             /\ o.type.type \in {"INTEGER", "BIGINT"} => e.usage \in BinaryUsages
  BY DEF TypesHoldTheirValues
<1>1. PICK l \in KeptBefore(at) : o = ItemObs(l, IdAt(l), entries[l].level)
  <2>1. \A l \in KeptBefore(at) :
          ContainsObs(l, ParentAt(l), IdAt(l), entries[l].level).kind # "entity"
    BY DEF ContainsObs
  <2> QED BY <2>1 DEF HierarchyFollowsLevels
<1>2. o.entry = l /\ o.group = IsGroup(l) /\ o.type = TypeOf(l)
  BY <1>1 DEF ItemObs
<1>3. l \in 1..Len(entries)
  <2>1. Len(entries) \in Nat
    BY EntryFacts
  <2> QED BY <2>1 DEF KeptBefore, TypeInvariant
<1>4. o.group <=> PictureOf(l) = Absent
  BY <1>2 DEF IsGroup
<1>5. o.group => o.type = NoType
  BY <1>2 DEF TypeOf
<1>6. ASSUME ~o.group, PlainlyWritten(entries[l])
      PROVE  /\ OfLetters(PictureOf(l)) \/ OfDigits(PictureOf(l)) => Fits(o.type, PictureOf(l))
             /\ Symbols(PictureOf(l)) \cap (Letters \cup Digits) = {} => o.type = NoType
             /\ o.type.type \in {"INTEGER", "BIGINT"} => entries[l].usage \in BinaryUsages
  <2>1. /\ PictureOf(l) \in Seq(Run)
        /\ \A k \in DOMAIN PictureOf(l) : Stray(PictureOf(l)[k]) = 0 /\ PictureOf(l)[k].times > 0
        /\ UsageOf(l) = entries[l].usage
    BY <1>3, <1>4, <1>6, PictureRead
  <2>2. o.type = Suggested(PictureOf(l), entries[l].usage)
    BY <1>2, <1>6, <2>1 DEF TypeOf
  <2> QED BY <2>1, <2>2, TypeFits
<1> QED BY <1>2, <1>4, <1>5, <1>6

-----------------------------------------------------------------------------
(* The theorems *)

\* The stack of either reader is the chain of the groups an item may still go into,
\* and FILLERs are numbered as they come, whatever levels follow each other.
THEOREM InvariantHolds == Spec => []DataItemsInv
BY InitInv, NextInv, PTL DEF Spec

\* RUL-COBOL-021, for every copybook and either reader: each entry is observed once,
\* under the nearest entry before it of a lower level.
THEOREM ContainersAreRight == Spec => []HierarchyFollowsLevels
BY InitInv, NextInv, PTL DEF Spec

\* RUL-COBOL-021, for every copybook and either reader: the type of an item takes every
\* value of its picture, as far as it is read, and is no wider; a group has none.
THEOREM TypesAreRight == Spec => []TypesHoldTheirValues
<1>1. DataItemsInv /\ HierarchyFollowsLevels => TypesHoldTheirValues
  BY ItemsAreTyped DEF DataItemsInv
<1> QED BY <1>1, InvariantHolds, ContainersAreRight, PTL
=============================================================================
