----------------------------- MODULE CorpusProofs -----------------------------
(***************************************************************************)
(* Theorems of Jcl, for every set of names and every set of decks, of Csd, *)
(* for every set of files, and of Corpus: the loop over the files composes *)
(* what is proved of each part.                                            *)
(*                                                                         *)
(* Jcl: a continuation line has no name, so the lines a statement swallows *)
(* are no JOB, EXEC or PROC, and what the extractor remembers is what the  *)
(* lines before it say (StateMatchesDeck).  A DD is charged from that      *)
(* memory, hence to the step its place in the deck gives it.               *)
(*                                                                         *)
(* Csd: a block is closed when the next listed DEFINE is met, or at the    *)
(* end, so the only listed DEFINE on its lines is the one at its head.  The*)
(* blocks are therefore the definitions of the file as long as every DEFINE*)
(* is of a listed type: one of another type ends no block.                 *)
(*                                                                         *)
(* Corpus: the invariants of the two extractors say what they have         *)
(* observed when a file is read; from them every file adds to the sink     *)
(* what keeps the contract of the resolver (HandedKept), so the resolver   *)
(* starts in an initial state of its own specification, and its theorems   *)
(* (ResolverProofs), instantiated, hold of the graph.                      *)
(*                                                                         *)
(* Hypothesis: GraphIds, the parameter that stands for all canonical ids,  *)
(* has every id these files can give rise to (FileIds).                    *)
(***************************************************************************)
EXTENDS Corpus, TLAPS, SequenceTheorems, FiniteSetTheorems, NaturalsInduction,
        WellFoundedInduction

-----------------------------------------------------------------------------
(* The JCL extractor *)

\* The order of the library's well-foundedness theorem is the usual one.
LEMMA OrderOfNaturals ==
  \A x, y \in Nat : <<x, y>> \in OpToRel(<, Nat) <=> x < y
BY DEF OpToRel

\* A nonempty set of naturals has a least element, and Least picks it.
LEMMA LeastExists ==
  ASSUME NEW S \in SUBSET Nat, S # {}
  PROVE  Least(S) \in S /\ \A j \in S : Least(S) <= j
<1>1. \E x \in S : \A y \in S : ~(<<y, x>> \in OpToRel(<, Nat))
  <2>1. IsWellFoundedOn(OpToRel(<, Nat), Nat)
    BY NatLessThanWellFounded
  <2> HIDE DEF OpToRel
  <2> QED BY <2>1, WFMin
<1>2. PICK x \in S : \A y \in S : ~(<<y, x>> \in OpToRel(<, Nat))
  BY <1>1
<1>3. ASSUME NEW y \in S
      PROVE  x <= y
  <2>1. x \in Nat /\ y \in Nat
    OBVIOUS
  <2>2. ~(<<y, x>> \in OpToRel(<, Nat))
    BY <1>2
  <2>3. ~(y < x)
    BY <2>1, <2>2, OrderOfNaturals
  <2> QED BY <2>1, <2>3
<1> QED BY <1>3 DEF Least

\* So has a nonempty set of numbers up to n a greatest one.
LEMMA GreatestExists ==
  ASSUME NEW n \in Nat, NEW S \in SUBSET (1..n), S # {}
  PROVE  Greatest(S) \in S /\ \A j \in S : j <= Greatest(S)
<1> DEFINE T == {n - k : k \in S}
<1>1. T \in SUBSET Nat
  <2>1. \A k \in S : k \in 1..n
    OBVIOUS
  <2>2. \A k \in 1..n : n - k \in Nat
    OBVIOUS
  <2> QED BY <2>1, <2>2
<1>0. T # {}
  OBVIOUS
<1>2. Least(T) \in T /\ \A j \in T : Least(T) <= j
  BY <1>0, <1>1, LeastExists
<1>3. PICK g \in S : Least(T) = n - g
  BY <1>2
<1>4. \A j \in S : n - g <= n - j
  BY <1>2, <1>3
<1>5. \A j \in S : j <= g
  BY <1>4
<1> QED BY <1>5 DEF Greatest

\* The greatest element of a set that a greater number joins is that number.
LEMMA GreatestOfMore ==
  ASSUME NEW n \in Nat, NEW S \in SUBSET (1..(n - 1))
  PROVE  Greatest(S \cup {n}) = n
<1>1. \A j \in S \cup {n} : j <= n
  OBVIOUS
<1>2. \A g \in S \cup {n} : (\A j \in S \cup {n} : j <= g) => g = n
  OBVIOUS
<1> QED BY <1>1, <1>2 DEF Greatest

\* And a least element stays the least one.
LEMMA LeastOfMore ==
  ASSUME NEW n \in Nat, NEW S \in SUBSET (1..(n - 1))
  PROVE  Least(S \cup {n}) = IF S = {} THEN n ELSE Least(S)
<1>1. CASE S = {}
  BY <1>1 DEF Least
<1>2. CASE S # {}
  <2>1. S \in SUBSET Nat
    OBVIOUS
  <2>2. Least(S) \in S /\ \A j \in S : Least(S) <= j
    BY <1>2, <2>1, LeastExists
  <2> DEFINE m == Least(S)
             T == S \cup {n}
  <2>3. m \in S /\ m \in Nat /\ m < n /\ \A j \in S : m <= j
    <3>1. \A k \in S : k \in Nat /\ k < n
      OBVIOUS
    <3> HIDE DEF Least
    <3> QED BY <2>2, <3>1
  <2> HIDE DEF m
  <2>4. m \in T /\ \A j \in T : m <= j
    BY <2>3
  <2>5. \A g \in T : (\A j \in T : g <= j) => g = m
    BY <2>3, <2>4
  <2>6. Least(T) = m
    BY <2>4, <2>5 DEF Least
  <2> QED BY <1>2, <2>6 DEF m
<1> QED BY <1>1, <1>2

\* A deck of the constants has the shape the assumption states.
LEMMA DeckShape ==
  ASSUME deck \in Decks
  PROVE  /\ lines \in Seq(Line)
         /\ Len(lines) \in Nat
         /\ \A l \in 1..Len(lines) : lines[l] \in Line
         /\ \A l \in 1..Len(lines) :
              lines[l].name = Absent => lines[l].shape \in Unnamed \cup {"jcllib"}
         /\ deck.kind \in {"job", "proc"}
<1>1. deck \in Deck
  BY JclAssumption
<1>2. lines \in Seq(Line) /\ deck.kind \in {"job", "proc"}
  BY <1>1 DEF Deck, lines
<1>3. \A l \in 1..Len(lines) : lines[l].shape \notin Unnamed \cup {"jcllib"} => lines[l].name # Absent
  BY JclAssumption DEF lines
<1>4. \A l \in 1..Len(lines) : lines[l] \in Line
  BY <1>2, ElementOfSeq
<1>5. Len(lines) \in Nat
  BY <1>2, LenProperties
<1> QED BY <1>2, <1>3, <1>4, <1>5

\* A statement ends within the file, and the lines it goes on over have no name.
LEMMA StatementEnds ==
  ASSUME deck \in Decks, NEW l \in 1..Len(lines)
  PROVE  /\ EndOf(l) \in l..Len(lines)
         /\ \A k \in (l + 1)..EndOf(l) : lines[k].name = Absent
<1> DEFINE S == {e \in l..Len(lines) : ~Continues(e)}
<1>1. Len(lines) \in Nat
  BY DeckShape
<1>2. Len(lines) \in S
  BY <1>1 DEF Continues
<1>3. S \in SUBSET Nat
  BY <1>1
<1>4. Least(S) \in S /\ \A j \in S : Least(S) <= j
  BY <1>2, <1>3, LeastExists
<1>5. EndOf(l) = Least(S)
  BY DEF EndOf
<1>6. EndOf(l) \in l..Len(lines)
  BY <1>4, <1>5
<1>7. ASSUME NEW k \in (l + 1)..EndOf(l)
      PROVE  lines[k].name = Absent
  <2>1. k - 1 \in l..Len(lines) /\ k - 1 < EndOf(l)
    BY <1>1, <1>6
  <2>2. k - 1 \notin S
    BY <1>1, <1>4, <1>5, <1>6, <2>1
  <2>3. Continues(k - 1)
    BY <2>1, <2>2
  <2>4. (k - 1) + 1 = k
    BY <1>1, <1>6
  <2> QED BY <2>3, <2>4 DEF Continues
<1> QED BY <1>6, <1>7

-----------------------------------------------------------------------------
(* The observations of a statement *)

\* Labels, ids and operands have their types.
LEMMA Operands ==
  ASSUME deck \in Decks, NEW l \in 1..Len(lines)
  PROVE  /\ Operand(l, "pgm") \in Names \cup {Absent}
         /\ Operand(l, "proc") \in Names \cup {Absent}
         /\ Operand(l, "dsn") \in Dsns \cup {Absent}
         /\ Positional(l) \in Names \cup {Absent}
<1>1. /\ Len(lines) \in Nat
      /\ \A k \in 1..Len(lines) : lines[k] \in Line
  BY DeckShape
<1>2. EndOf(l) \in l..Len(lines)
  BY StatementEnds
<1>3. ASSUME NEW field \in {"pgm", "proc", "dsn"}, Operand(l, field) # Absent
      PROVE  \E k \in 1..Len(lines) : Operand(l, field) = lines[k][field]
  <2> DEFINE given == {k \in Statement(l) : lines[k][field] # Absent}
  <2>1. given # {}
    BY <1>3 DEF Operand
  <2>2. Operand(l, field) = lines[Least(given)][field]
    BY <2>1 DEF Operand
  <2>3. given \subseteq 1..Len(lines)
    BY <1>1, <1>2 DEF Statement
  <2>4. given \in SUBSET Nat
    BY <2>3
  <2>5. Least(given) \in given
    BY <2>1, <2>4, LeastExists
  <2> QED BY <2>2, <2>3, <2>5
<1>4. \A k \in 1..Len(lines) : /\ lines[k]["pgm"] \in Names \cup {Absent}
                               /\ lines[k]["proc"] \in Names \cup {Absent}
                               /\ lines[k]["dsn"] \in Dsns \cup {Absent}
  BY <1>1 DEF Line
<1>5. Operand(l, "pgm") \in Names \cup {Absent}
  BY <1>3, <1>4
<1>6. Operand(l, "proc") \in Names \cup {Absent}
  BY <1>3, <1>4
<1>7. Operand(l, "dsn") \in Dsns \cup {Absent}
  BY <1>3, <1>4
<1>8. Positional(l) \in Names \cup {Absent}
  BY <1>1 DEF Positional, Line
<1> QED BY <1>5, <1>6, <1>7, <1>8

LEMMA Labelling ==
  ASSUME TypeInvariant
  PROVE  /\ Scope \in Labels
         /\ StepName \in Labels
         /\ Owner \in Ids
<1>1. {job, proc, step} \subseteq Labels
  BY DEF TypeInvariant, Labels
<1>2. Scope \in Labels /\ StepName \in Labels
  BY <1>1 DEF Scope, StepName, Labels
<1> QED BY <1>1, <1>2 DEF Owner, Ids

LEMMA IdTypes ==
  /\ \A n \in Labels : JobId(n) \in Ids /\ ProcId(n) \in Ids /\ ProgramId(n) \in Ids
  /\ \A s, n \in Labels : StepId(s, n) \in Ids /\ InvocationId(s, n) \in Ids
  /\ \A b \in Bases : DatasetId(b) \in Ids
BY DEF Ids

LEMMA LineNumber ==
  ASSUME TypeInvariant
  PROVE  at \in Nat
BY DeckShape DEF TypeInvariant

\* What is made of ids and labels is an observation of the current line.
LEMMA MakeObservations ==
  ASSUME TypeInvariant
  PROVE  /\ \A type \in {"INVOKES", "USES_PROC", "USES_DATASET", "PASSES_SYSIN_TO"},
               from \in Ids, to \in Ids, dd \in Labels, utility \in Labels :
              LET o == EdgeObs(type, from, to, dd, utility)
              IN  o \in Observation /\ o.line = at /\ o.kind = "edge" /\ o.from = from
         /\ \A property \in {"jcllib_search_path", "dd_dummy", "dd_sysout", "dd_inline"},
               owner \in Ids \cup {Absent}, value \in Labels :
              LET o == PropertyObs(owner, property, value)
              IN  o \in Observation /\ o.line = at /\ o.kind = "property" /\ o.owner = owner
BY LineNumber DEF Observation, EdgeObs, PropertyObs

OfThisLine == {o \in Observation : o.line = at}

ChargedTo(id) == {o \in OfThisLine : o.kind \in {"edge", "property"} => Charged(o) = id}

LEMMA InvocationObserved ==
  ASSUME TypeInvariant, at \in 1..Len(lines), lines[at].name \in Labels, NEW callee \in Labels
  PROVE  InvocationOf(callee) \in Seq(OfThisLine)
<1> DEFINE id == InvocationId(Scope, lines[at].name)
           o1 == EntityObs("JCLProcInvocation", id, Owner, ProcId(callee), 0, FALSE)
           o2 == EdgeObs("USES_PROC", id, ProcId(callee), Absent, Absent)
<1>1. id \in Ids /\ ProcId(callee) \in Ids /\ Owner \in Ids /\ Absent \in Labels
  BY Labelling, IdTypes DEF Labels
<1>2. o1 \in OfThisLine
  BY <1>1, LineNumber DEF OfThisLine, EntityObs, Observation
<1>3. o2 \in OfThisLine
  BY <1>1, MakeObservations DEF OfThisLine
<1>4. InvocationOf(callee) = <<o1, o2>>
  BY DEF InvocationOf
<1> HIDE DEF o1, o2, id
<1> QED BY <1>2, <1>3, <1>4

LEMMA ExecObserved ==
  ASSUME TypeInvariant, at \in 1..Len(lines), lines[at].shape = "exec"
  PROVE  ExecObs \in Seq(OfThisLine)
<1> DEFINE id == StepId(Scope, lines[at].name)
           o1 == EntityObs("JCLStep", id, Owner, Absent, count + 1, FALSE)
           o2 == EdgeObs("INVOKES", id, ProgramId(Operand(at, "pgm")), Absent, Absent)
           runs == Operand(at, "pgm")
           callee == Operand(at, "proc")
           rest == IF runs # Absent THEN <<o2>>
                   ELSE IF callee # Absent THEN InvocationOf(callee)
                   ELSE IF Positional(at) # Absent THEN InvocationOf(Positional(at))
                   ELSE <<>>
<1>1. /\ lines[at].name \in Labels
      /\ {Operand(at, "pgm"), Operand(at, "proc"), Positional(at)} \subseteq Labels
      /\ Absent \in Labels
  BY DeckShape, Operands DEF TypeInvariant, Line, Labels
<1>2. id \in Ids /\ ProgramId(Operand(at, "pgm")) \in Ids /\ Owner \in Ids
  BY <1>1, Labelling, IdTypes
<1>3. count + 1 \in Nat
  BY DEF TypeInvariant
<1>4. o1 \in OfThisLine
  BY <1>2, <1>3, LineNumber DEF OfThisLine, EntityObs, Observation
<1>5. o2 \in OfThisLine
  BY <1>1, <1>2, MakeObservations DEF OfThisLine
<1>6. InvocationOf(callee) \in Seq(OfThisLine) /\ InvocationOf(Positional(at)) \in Seq(OfThisLine)
  BY <1>1, InvocationObserved
<1>7. ExecObs = <<o1>> \o rest
  BY DEF ExecObs
<1> HIDE DEF o1, o2, id, runs, callee
<1>8. <<o2>> \in Seq(OfThisLine) /\ <<o1>> \in Seq(OfThisLine) /\ << >> \in Seq(OfThisLine)
  BY <1>4, <1>5
<1>9. rest \in Seq(OfThisLine)
  BY <1>6, <1>8
<1> HIDE DEF rest
<1> QED BY <1>7, <1>8, <1>9, ConcatProperties

LEMMA AllocationObserved ==
  ASSUME TypeInvariant, at \in 1..Len(lines), Operand(at, "dsn") # Absent,
         NEW id \in Ids, NEW dd \in Labels
  PROVE  AllocationObs(id, dd) \in Seq(ChargedTo(id))
<1> DEFINE base == BaseOf[Operand(at, "dsn")]
           ds   == DatasetId(base)
           o1 == EntityObs("Dataset", ds, Absent, Absent, 0, base \in Symbolic)
           o2 == EdgeObs("USES_DATASET", id, ds, dd, Absent)
           o3 == EdgeObs("PASSES_SYSIN_TO", id, ds, dd, pgm)
           rest == IF dd = "SYSIN" /\ pgm # Absent THEN <<o3>> ELSE <<>>
<1>1. base \in Bases
  BY Operands, JclAssumption DEF TypeInvariant
<1>2. ds \in Ids /\ Absent \in Labels /\ pgm \in Labels /\ (base \in Symbolic) \in BOOLEAN
  BY <1>1, IdTypes DEF Labels, TypeInvariant
<1>3. o1 \in ChargedTo(id)
  BY <1>2, LineNumber DEF OfThisLine, ChargedTo, EntityObs, Observation
<1>4. o2 \in ChargedTo(id)
  BY <1>2, MakeObservations DEF OfThisLine, ChargedTo, Charged
<1>5. o3 \in ChargedTo(id)
  BY <1>2, MakeObservations DEF OfThisLine, ChargedTo, Charged
<1>6. AllocationObs(id, dd) = <<o1, o2>> \o rest
  BY DEF AllocationObs
<1> HIDE DEF o1, o2, o3, ds
<1>7. <<o1, o2>> \in Seq(ChargedTo(id)) /\ rest \in Seq(ChargedTo(id))
  BY <1>3, <1>4, <1>5
<1> HIDE DEF rest
<1> QED BY <1>6, <1>7, ConcatProperties

LEMMA DdObserved ==
  ASSUME TypeInvariant, at \in 1..Len(lines), lines[at].shape \in {"dd", "override"},
         NEW s \in Labels
  PROVE  DdObs(s) \in Seq(ChargedTo(StepId(Scope, s)))
<1> DEFINE id == StepId(Scope, s)
           dd == lines[at].name
<1>1. dd \in Labels /\ id \in Ids
  BY DeckShape, Labelling, IdTypes DEF TypeInvariant, Line, Labels
<1>2. \A property \in {"dd_dummy", "dd_sysout", "dd_inline"} :
        PropertyObs(id, property, dd) \in ChargedTo(id)
  BY <1>1, MakeObservations DEF OfThisLine, ChargedTo, Charged
<1>3. \A property \in {"dd_dummy", "dd_sysout", "dd_inline"} :
        <<PropertyObs(id, property, dd)>> \in Seq(ChargedTo(id))
  BY <1>2
<1>4. Operand(at, "dsn") # Absent => AllocationObs(id, dd) \in Seq(ChargedTo(id))
  BY <1>1, AllocationObserved
<1>5. << >> \in Seq(ChargedTo(id))
  OBVIOUS
<1>6. DdObs(s) =
        IF Flagged(at, "DUMMY")  THEN <<PropertyObs(id, "dd_dummy", dd)>>
        ELSE IF Flagged(at, "SYSOUT") THEN <<PropertyObs(id, "dd_sysout", dd)>>
        ELSE IF Operand(at, "dsn") # Absent THEN AllocationObs(id, dd)
        ELSE IF Flagged(at, "INLINE") THEN <<PropertyObs(id, "dd_inline", dd)>>
        ELSE <<>>
  BY DEF DdObs
<1> HIDE DEF id, dd
<1>7. DdObs(s) \in Seq(ChargedTo(id))
  BY <1>3, <1>4, <1>5, <1>6
<1> QED BY <1>7 DEF id

-----------------------------------------------------------------------------
(* What a step does to the memory of the extractor *)

\* Line n is the next the loop stands at: the lines in between have no name.
Follows(l, n) ==
  /\ n \in (l + 1)..(Len(lines) + 1)
  /\ \A k \in (l + 1)..(n - 1) : lines[k].name = Absent

LEMMA HeadersGrow ==
  ASSUME deck \in Decks, NEW l \in 1..Len(lines), NEW n, Follows(l, n),
         NEW shape \in {"job", "exec", "proc"}
  PROVE  Headers(shape, n) = Headers(shape, l) \cup {k \in {l} : lines[k].shape = shape}
<1>1. Len(lines) \in Nat /\ n \in (l + 1)..(Len(lines) + 1)
  BY DeckShape DEF Follows
<1>2. ASSUME NEW k \in (l + 1)..(n - 1)
      PROVE  lines[k].shape # shape
  <2>1. k \in 1..Len(lines) /\ lines[k].name = Absent
    BY <1>1 DEF Follows
  <2> QED BY <2>1, DeckShape DEF Unnamed
<1>3. ASSUME NEW k \in 1..(n - 1)
      PROVE  k \in 1..(l - 1) \/ k = l \/ k \in (l + 1)..(n - 1)
  BY <1>1
<1>4. 1..(l - 1) \subseteq 1..(n - 1) /\ l \in 1..(n - 1)
  BY <1>1
<1> QED BY <1>2, <1>3, <1>4 DEF Headers

LEMMA HeadersBounded ==
  ASSUME NEW l \in Nat, NEW shape
  PROVE  Headers(shape, l) \in SUBSET (1..(l - 1))
BY DEF Headers

\* Appending the observations of a statement keeps the type of the output.
LEMMA Appending ==
  ASSUME TypeInvariant, NEW S \in SUBSET OfThisLine, NEW observed \in Seq(S),
         out' = out \o observed
  PROVE  /\ out' \in Seq(Observation)
         /\ \A o \in Emitted' : o \in Emitted \/ o \in S
<1>1. out \in Seq(Observation) /\ observed \in Seq(Observation)
  <2>1. \A k \in 1..Len(observed) : observed[k] \in S
    BY ElementOfSeq
  <2>2. \A k \in 1..Len(observed) : observed[k] \in Observation
    BY <2>1 DEF OfThisLine
  <2>3. DOMAIN observed = 1..Len(observed) /\ Len(observed) \in Nat
    BY LenProperties
  <2>4. observed = [k \in 1..Len(observed) |-> observed[k]]
    BY <2>3
  <2>5. observed \in Seq(Observation)
    BY <2>2, <2>3
  <2> QED BY <2>5 DEF TypeInvariant
<1>2. /\ out' \in Seq(Observation)
      /\ Len(out') = Len(out) + Len(observed)
      /\ \A i \in 1..(Len(out) + Len(observed)) :
           out'[i] = IF i <= Len(out) THEN out[i] ELSE observed[i - Len(out)]
  BY <1>1, ConcatProperties
<1>3. Len(out) \in Nat /\ Len(observed) \in Nat
  BY <1>1, LenProperties
<1>4. \A k \in 1..Len(observed) : observed[k] \in S
  BY ElementOfSeq
<1>5. ASSUME NEW i \in 1..Len(out')
      PROVE  out'[i] \in Emitted \cup S
  <2>1. CASE i <= Len(out)
    <3>1. i \in 1..Len(out) /\ out'[i] = out[i]
      BY <1>2, <1>3, <2>1
    <3> QED BY <3>1 DEF Emitted
  <2>2. CASE i > Len(out)
    <3>1. i - Len(out) \in 1..Len(observed) /\ out'[i] = observed[i - Len(out)]
      BY <1>2, <1>3, <2>2
    <3> QED BY <3>1, <1>4
  <2> QED BY <1>2, <1>3, <2>1, <2>2
<1>6. Emitted' = {out'[k] : k \in 1..Len(out')}
  BY DEF Emitted
<1>7. \A o \in Emitted' : o \in Emitted \/ o \in S
  BY <1>5, <1>6
<1> QED BY <1>2, <1>7

\* Reading a statement: the deck stays, the loop moves on over unnamed lines.
LEMMA ReadMoves ==
  ASSUME TypeInvariant, at \in 1..Len(lines), NEW observed, Read(observed)
  PROVE  /\ deck' = deck /\ out' = out \o observed
         /\ Follows(at, at')
         /\ at' \in 1..(Len(lines) + 1) /\ at' > at
<1>1. deck \in Decks /\ at' = EndOf(at) + 1 /\ deck' = deck /\ out' = out \o observed
  BY DEF TypeInvariant, Read
<1>2. /\ EndOf(at) \in at..Len(lines)
      /\ \A k \in (at + 1)..EndOf(at) : lines[k].name = Absent
  BY <1>1, StatementEnds
<1>3. Len(lines) \in Nat
  BY <1>1, DeckShape
<1>4. (EndOf(at) + 1) - 1 = EndOf(at)
  BY <1>2, <1>3
<1>5. at' \in (at + 1)..(Len(lines) + 1) /\ at' - 1 = EndOf(at)
  BY <1>1, <1>2, <1>3
<1> QED BY <1>1, <1>2, <1>3, <1>5 DEF Follows

\* The memory follows the deck: whatever a statement changes of it is what the
\* headers up to the next line say.
LEMMA MemoryFollows ==
  ASSUME TypeInvariant, StateMatchesDeck, at \in 1..Len(lines), deck' = deck, Follows(at, at'),
         job' = IF deck.kind = "job" /\ lines[at].shape = "job" THEN lines[at].name ELSE job,
         proc' = IF deck.kind = "proc" /\ lines[at].shape = "proc" /\ proc = Absent
                 THEN lines[at].name ELSE proc,
         step' = IF lines[at].shape = "exec" THEN lines[at].name ELSE step
  PROVE  StateMatchesDeck'
<1> DEFINE more(shape) == {k \in {at} : lines[k].shape = shape}
<1>1. deck \in Decks /\ at \in Nat /\ lines' = lines
  BY LineNumber DEF TypeInvariant, lines
<1>2. \A shape \in {"job", "exec", "proc"} :
        Headers(shape, at') = Headers(shape, at) \cup more(shape)
  BY <1>1, HeadersGrow
<1>3. \A shape : Headers(shape, at)' = Headers(shape, at')
  BY <1>1 DEF Headers
<1>4. \A shape \in {"job", "exec", "proc"} : Headers(shape, at) \in SUBSET (1..(at - 1))
  BY <1>1, HeadersBounded
<1>5. \A shape \in {"job", "exec", "proc"} : lines[at].shape = shape => more(shape) = {at}
  OBVIOUS
<1>6. \A shape \in {"job", "exec", "proc"} : lines[at].shape # shape => more(shape) = {}
  OBVIOUS
<1> HIDE DEF more
<1>7. job' = IF JobsBefore(at)' = {} THEN Absent ELSE lines'[Greatest(JobsBefore(at)')].name
  <2>1. CASE deck.kind = "job" /\ lines[at].shape = "job"
    <3>1. JobsBefore(at)' = Headers("job", at) \cup {at}
      BY <1>2, <1>3, <1>5, <2>1 DEF JobsBefore
    <3>2. Greatest(Headers("job", at) \cup {at}) = at
      BY <1>1, <1>4, GreatestOfMore
    <3> QED BY <1>1, <2>1, <3>1, <3>2
  <2>2. CASE ~(deck.kind = "job" /\ lines[at].shape = "job")
    <3>1. JobsBefore(at)' = JobsBefore(at)
      BY <1>2, <1>3, <1>6, <2>2 DEF JobsBefore
    <3> QED BY <1>1, <2>2, <3>1 DEF StateMatchesDeck
  <2> QED BY <2>1, <2>2
<1>8. proc = Absent <=> ProcsBefore(at) = {}
  <2>1. ASSUME ProcsBefore(at) # {}
        PROVE  lines[Least(ProcsBefore(at))].name # Absent
    <3>1. ProcsBefore(at) \in SUBSET (1..(at - 1)) /\ ProcsBefore(at) \subseteq Headers("proc", at)
      BY <1>4 DEF ProcsBefore
    <3>2. Least(ProcsBefore(at)) \in ProcsBefore(at)
      <4>1. ProcsBefore(at) \in SUBSET Nat
        BY <3>1
      <4> QED BY <2>1, <4>1, LeastExists
    <3>3. /\ Least(ProcsBefore(at)) \in 1..Len(lines)
          /\ lines[Least(ProcsBefore(at))].shape = "proc"
      <4>1. Least(ProcsBefore(at)) \in Headers("proc", at)
        BY <3>1, <3>2
      <4> QED BY <1>1, <4>1, DeckShape DEF Headers
    <3> QED BY <1>1, <3>3, DeckShape DEF Unnamed
  <2> QED BY <2>1 DEF StateMatchesDeck
<1>9. proc' = IF ProcsBefore(at)' = {} THEN Absent ELSE lines'[Least(ProcsBefore(at)')].name
  <2>1. CASE deck.kind = "proc" /\ lines[at].shape = "proc"
    <3>1. ProcsBefore(at)' = ProcsBefore(at) \cup {at}
      BY <1>2, <1>3, <1>5, <2>1 DEF ProcsBefore
    <3>2. ProcsBefore(at) \in SUBSET (1..(at - 1))
      BY <1>4 DEF ProcsBefore
    <3>3. Least(ProcsBefore(at) \cup {at}) = IF ProcsBefore(at) = {} THEN at ELSE Least(ProcsBefore(at))
      BY <1>1, <3>2, LeastOfMore
    <3> QED BY <1>1, <1>8, <2>1, <3>1, <3>3 DEF StateMatchesDeck
  <2>2. CASE ~(deck.kind = "proc" /\ lines[at].shape = "proc")
    <3>1. ProcsBefore(at)' = ProcsBefore(at)
      BY <1>2, <1>3, <1>6, <2>2 DEF ProcsBefore
    <3> QED BY <1>1, <2>2, <3>1 DEF StateMatchesDeck
  <2> QED BY <2>1, <2>2
<1>10. StepName' = LastExec(at)'
  <2>0. LastExec(at)' = IF Headers("exec", at') = {} THEN Unknown
                        ELSE lines[Greatest(Headers("exec", at'))].name
    BY <1>1, <1>3 DEF LastExec
  <2>1. CASE lines[at].shape = "exec"
    <3>1. Headers("exec", at') = Headers("exec", at) \cup {at}
      BY <1>2, <1>5, <2>1
    <3>2. Greatest(Headers("exec", at) \cup {at}) = at
      BY <1>1, <1>4, GreatestOfMore
    <3>3. lines[at].name # Absent
      BY <1>1, <2>1, DeckShape DEF Unnamed
    <3>4. StepName' = lines[at].name
      BY <2>1, <3>3 DEF StepName
    <3> QED BY <2>0, <3>1, <3>2, <3>4
  <2>2. CASE lines[at].shape # "exec"
    <3>1. Headers("exec", at') = Headers("exec", at)
      BY <1>2, <1>6, <2>2
    <3>2. StepName' = StepName
      BY <2>2 DEF StepName
    <3> QED BY <2>0, <3>1, <3>2 DEF StateMatchesDeck, LastExec
  <2> QED BY <2>1, <2>2
<1> QED BY <1>7, <1>9, <1>10 DEF StateMatchesDeck

\* What the extractor would call the current scope and step is what the deck says.
LEMMA MemoryIsMeaning ==
  ASSUME TypeInvariant, StateMatchesDeck
  PROVE  Scope = ScopeAt(at) /\ StepName = LastExec(at) /\ Owner = OwnerAt(at)
<1>1. deck \in Decks /\ at \in Nat
  BY LineNumber DEF TypeInvariant
<1>2. \A shape \in {"job", "exec", "proc"} : Headers(shape, at) \in SUBSET (1..(at - 1))
  BY <1>1, HeadersBounded
<1>3. ASSUME NEW shape \in {"job", "proc"}, NEW k \in Headers(shape, at)
      PROVE  lines[k].name # Absent
  <2>1. k \in 1..Len(lines) /\ lines[k].shape = shape
    BY <1>1, DeckShape DEF Headers, TypeInvariant
  <2> QED BY <1>1, <2>1, DeckShape DEF Unnamed
<1>4. ProcsBefore(at) # {} => lines[Least(ProcsBefore(at))].name # Absent
  <2>1. ProcsBefore(at) \subseteq Headers("proc", at) /\ ProcsBefore(at) \in SUBSET Nat
    BY <1>2 DEF ProcsBefore
  <2>2. ProcsBefore(at) # {} => Least(ProcsBefore(at)) \in ProcsBefore(at)
    BY <2>1, LeastExists
  <2> QED BY <1>3, <2>1, <2>2
<1>5. JobsBefore(at) # {} => lines[Greatest(JobsBefore(at))].name # Absent
  <2>1. JobsBefore(at) \subseteq Headers("job", at) /\ JobsBefore(at) \in SUBSET (1..at)
    BY <1>1, <1>2 DEF JobsBefore
  <2>2. JobsBefore(at) # {} => Greatest(JobsBefore(at)) \in JobsBefore(at)
    BY <1>1, <2>1, GreatestExists
  <2> QED BY <1>3, <2>1, <2>2
<1>6. Scope = ScopeAt(at) /\ StepName = LastExec(at)
  BY <1>4, <1>5 DEF StateMatchesDeck, Scope, ScopeAt
<1>7. Owner = OwnerAt(at)
  BY <1>4, <1>5 DEF StateMatchesDeck, Scope, ScopeAt, Owner, OwnerAt
<1> QED BY <1>6, <1>7

-----------------------------------------------------------------------------
(* The invariant *)

LEMMA InitMemory == Init => MemoryInv
<1> SUFFICES ASSUME Init PROVE MemoryInv
  OBVIOUS
<1>1. deck \in Decks /\ Len(lines) \in Nat
  BY DeckShape DEF Init
<1>2. Emitted = {}
  BY DEF Init, Emitted
<1>3. TypeInvariant
  BY <1>1, <1>2 DEF Init, TypeInvariant
<1>4. \A shape : Headers(shape, at) = {}
  BY DEF Init, Headers
<1>5. StateMatchesDeck
  BY <1>4 DEF Init, StateMatchesDeck, JobsBefore, ProcsBefore, StepName, LastExec
<1>6. ChargesMatchDeck
  BY <1>2 DEF ChargesMatchDeck
<1> QED BY <1>3, <1>5, <1>6 DEF MemoryInv

\* The meaning of a line depends on the deck alone.
LEMMA MeaningStays ==
  ASSUME deck' = deck
  PROVE  /\ lines' = lines
         /\ \A o : FromDd(o)' = FromDd(o)
         /\ \A l : ScopeAt(l)' = ScopeAt(l) /\ LastExec(l)' = LastExec(l)
<1>1. lines' = lines
  BY DEF lines
<1>2. \A shape, l : Headers(shape, l)' = Headers(shape, l)
  BY <1>1 DEF Headers
<1>3. \A l : ProcsBefore(l)' = ProcsBefore(l) /\ JobsBefore(l)' = JobsBefore(l)
  BY <1>2 DEF ProcsBefore, JobsBefore
<1>4. \A l : ScopeAt(l)' = ScopeAt(l)
  BY <1>1, <1>3 DEF ScopeAt
<1>5. \A l : LastExec(l)' = LastExec(l)
  BY <1>1, <1>2 DEF LastExec
<1> QED BY <1>1, <1>4, <1>5 DEF FromDd

\* A step that reads a statement preserves the invariant when it changes the memory
\* as MemoryFollows says and charges what comes from a DD to the current step.
LEMMA ReadPreserves ==
  ASSUME MemoryInv, at \in 1..Len(lines), NEW S \in SUBSET OfThisLine, NEW observed \in Seq(S),
         Read(observed),
         {job', proc', step', pgm'} \subseteq Names \cup {Absent}, count' \in Nat,
         job' = IF deck.kind = "job" /\ lines[at].shape = "job" THEN lines[at].name ELSE job,
         proc' = IF deck.kind = "proc" /\ lines[at].shape = "proc" /\ proc = Absent
                 THEN lines[at].name ELSE proc,
         step' = IF lines[at].shape = "exec" THEN lines[at].name ELSE step,
         lines[at].shape = "dd" => S = ChargedTo(StepId(Scope, StepName))
  PROVE  MemoryInv'
<1>1. TypeInvariant /\ StateMatchesDeck /\ ChargesMatchDeck
  BY DEF MemoryInv
<1>2. /\ deck' = deck /\ out' = out \o observed /\ Follows(at, at')
      /\ at' \in 1..(Len(lines) + 1) /\ at' > at
  BY <1>1, ReadMoves
<1>3. /\ out' \in Seq(Observation)
      /\ \A o \in Emitted' : o \in Emitted \/ o \in S
  BY <1>1, <1>2, Appending
<1>4. StateMatchesDeck'
  BY <1>1, <1>2, MemoryFollows
<1>5. /\ lines' = lines
      /\ \A o : FromDd(o)' = FromDd(o)
      /\ \A l : ScopeAt(l)' = ScopeAt(l) /\ LastExec(l)' = LastExec(l)
  BY <1>2, MeaningStays
<1>6. TypeInvariant'
  <2>1. at \in Nat /\ deck' \in Decks /\ at' \in Nat
    BY <1>1, <1>2, LineNumber DEF TypeInvariant
  <2>2. \A o \in S : o.line = at
    BY DEF OfThisLine
  <2>3. \A o \in Emitted : o.line \in 1..(at - 1)
    BY <1>1 DEF TypeInvariant
  <2>4. \A o \in Emitted' : o.line \in 1..(at' - 1)
    BY <1>2, <1>3, <2>1, <2>2, <2>3
  <2> QED BY <1>2, <1>3, <1>5, <2>1, <2>4 DEF TypeInvariant
<1>7. ChargesMatchDeck'
  <2>1. ASSUME NEW o \in Emitted', FromDd(o)
        PROVE  Charged(o) = StepId(ScopeAt(o.line), LastExec(o.line))
    <3>1. CASE o \in Emitted
      BY <1>1, <2>1, <3>1 DEF ChargesMatchDeck
    <3>2. CASE o \in S
      <4>1. o.line = at /\ lines[at].shape = "dd" /\ o.kind \in {"edge", "property"}
        BY <2>1, <3>2 DEF OfThisLine, FromDd
      <4>2. o \in ChargedTo(StepId(Scope, StepName))
        BY <3>2, <4>1
      <4>3. Charged(o) = StepId(Scope, StepName)
        BY <4>1, <4>2 DEF ChargedTo
      <4> QED BY <1>1, <4>1, <4>3, MemoryIsMeaning
    <3> QED BY <1>3, <3>1, <3>2
  <2>2. \A o : Charged(o)' = Charged(o)
    BY DEF Charged
  <2> QED BY <1>5, <2>1, <2>2 DEF ChargesMatchDeck
<1> QED BY <1>4, <1>6, <1>7 DEF MemoryInv

LEMMA NextMemory == MemoryInv /\ [Next]_vars => MemoryInv'
<1> SUFFICES ASSUME MemoryInv, [Next]_vars PROVE MemoryInv'
  OBVIOUS
<1>1. TypeInvariant /\ deck \in Decks /\ at \in Nat /\ at >= 1 /\ count \in Nat
  BY LineNumber DEF MemoryInv, TypeInvariant
<1>2. /\ Len(lines) \in Nat
      /\ \A l \in 1..Len(lines) : lines[l] \in Line
      /\ deck.kind \in {"job", "proc"}
  BY <1>1, DeckShape
<1>3. {job, proc, step, pgm} \subseteq Names \cup {Absent}
  BY <1>1 DEF TypeInvariant
<1>4. \A l \in 1..Len(lines) : lines[l].name \in Names \cup {Absent}
                               /\ lines[l].over \in Names \cup {Absent}
  BY <1>2 DEF Line
<1>5. OfThisLine \in SUBSET OfThisLine /\ \A id : ChargedTo(id) \in SUBSET OfThisLine
  BY DEF ChargedTo
<1>6. \A type \in {"JCLJob", "JCLProc"}, id \in Ids : <<Declared(type, id)>> \in Seq(OfThisLine)
  <2>1. ASSUME NEW type \in {"JCLJob", "JCLProc"}, NEW id \in Ids
        PROVE  Declared(type, id) \in OfThisLine
    BY <1>1 DEF Declared, EntityObs, Observation, OfThisLine
  <2> QED BY <2>1
<1>7. CASE ReadJob
  <2> DEFINE observed == <<Declared("JCLJob", JobId(lines[at].name))>>
  <2>1. at \in 1..Len(lines) /\ lines[at].shape = "job" /\ deck.kind = "job" /\ Read(observed)
    BY <1>1, <1>2, <1>7 DEF ReadJob, Stands
  <2>2. JobId(lines[at].name) \in Ids
    BY <1>4, <2>1, IdTypes DEF Labels
  <2>3. observed \in Seq(OfThisLine)
    BY <1>6, <2>2
  <2> HIDE DEF observed
  <2>4. job' = lines[at].name /\ UNCHANGED <<proc, step, pgm, count>>
    BY <1>7 DEF ReadJob
  <2>5. {job', proc', step', pgm'} \subseteq Names \cup {Absent} /\ count' \in Nat
    BY <1>1, <1>3, <1>4, <2>1, <2>4
  <2> QED BY <1>5, <2>1, <2>3, <2>4, <2>5, ReadPreserves
<1>8. CASE ReadJcllib
  <2> DEFINE owner == IF job = Absent THEN Absent ELSE JobId(job)
             observed == <<PropertyObs(owner, "jcllib_search_path", Absent)>>
  <2>1. at \in 1..Len(lines) /\ lines[at].shape = "jcllib" /\ Read(observed)
    BY <1>1, <1>2, <1>8 DEF ReadJcllib, Stands
  <2>2. owner \in Ids \cup {Absent} /\ Absent \in Labels
    BY <1>3, IdTypes DEF Labels
  <2>3. PropertyObs(owner, "jcllib_search_path", Absent) \in OfThisLine
    <3> HIDE DEF owner
    <3> QED BY <1>1, <2>2 DEF PropertyObs, Observation, OfThisLine
  <2>4. observed \in Seq(OfThisLine)
    BY <2>3
  <2> HIDE DEF observed
  <2>5. UNCHANGED <<job, proc, step, pgm, count>>
    BY <1>8 DEF ReadJcllib
  <2>6. {job', proc', step', pgm'} \subseteq Names \cup {Absent} /\ count' \in Nat
    BY <1>1, <1>3, <2>5
  <2> QED BY <1>5, <2>1, <2>4, <2>5, <2>6, ReadPreserves
<1>9. CASE ReadProc
  <2> DEFINE observed == <<Declared("JCLProc", ProcId(lines[at].name))>>
  <2>1. /\ at \in 1..Len(lines) /\ lines[at].shape = "proc" /\ deck.kind = "proc"
        /\ proc = Absent /\ Read(observed)
    BY <1>1, <1>2, <1>9 DEF ReadProc, Stands
  <2>2. ProcId(lines[at].name) \in Ids
    BY <1>4, <2>1, IdTypes DEF Labels
  <2>3. observed \in Seq(OfThisLine)
    BY <1>6, <2>2
  <2> HIDE DEF observed
  <2>4. proc' = lines[at].name /\ UNCHANGED <<job, step, pgm, count>>
    BY <1>9 DEF ReadProc
  <2>5. {job', proc', step', pgm'} \subseteq Names \cup {Absent} /\ count' \in Nat
    BY <1>1, <1>3, <1>4, <2>1, <2>4
  <2> QED BY <1>5, <2>1, <2>3, <2>4, <2>5, ReadPreserves
<1>10. CASE ReadExec
  <2>1. at \in 1..Len(lines) /\ lines[at].shape = "exec" /\ Read(ExecObs)
    BY <1>1, <1>2, <1>10 DEF ReadExec, Stands
  <2>2. ExecObs \in Seq(OfThisLine)
    BY <1>1, <2>1, ExecObserved
  <2>3. /\ step' = lines[at].name /\ pgm' = Operand(at, "pgm") /\ count' = count + 1
        /\ UNCHANGED <<job, proc>>
    BY <1>10 DEF ReadExec
  <2>4. pgm' \in Names \cup {Absent}
    BY <1>1, <2>1, <2>3, Operands
  <2>5. {job', proc', step', pgm'} \subseteq Names \cup {Absent} /\ count' \in Nat
    BY <1>1, <1>3, <1>4, <2>1, <2>3, <2>4
  <2> QED BY <1>5, <2>1, <2>2, <2>3, <2>5, ReadPreserves
<1>11. CASE ReadDd
  <2>1. at \in 1..Len(lines) /\ lines[at].shape = "dd" /\ Read(DdObs(StepName))
    BY <1>1, <1>2, <1>11 DEF ReadDd, Stands
  <2>2. StepName \in Labels
    BY <1>1, Labelling
  <2>3. DdObs(StepName) \in Seq(ChargedTo(StepId(Scope, StepName)))
    BY <1>1, <2>1, <2>2, DdObserved
  <2>4. UNCHANGED <<job, proc, step, pgm, count>>
    BY <1>11 DEF ReadDd
  <2>5. {job', proc', step', pgm'} \subseteq Names \cup {Absent} /\ count' \in Nat
    BY <1>1, <1>3, <2>4
  <2> QED BY <1>5, <2>1, <2>3, <2>4, <2>5, ReadPreserves
<1>12. CASE ReadOverride
  <2>1. at \in 1..Len(lines) /\ lines[at].shape = "override" /\ Read(DdObs(lines[at].over))
    BY <1>1, <1>2, <1>12 DEF ReadOverride, Stands
  <2>2. lines[at].over \in Labels
    BY <1>4, <2>1 DEF Labels
  <2>3. DdObs(lines[at].over) \in Seq(ChargedTo(StepId(Scope, lines[at].over)))
    BY <1>1, <2>1, <2>2, DdObserved
  <2>4. UNCHANGED <<job, proc, step, pgm, count>>
    BY <1>12 DEF ReadOverride
  <2>5. {job', proc', step', pgm'} \subseteq Names \cup {Absent} /\ count' \in Nat
    BY <1>1, <1>3, <2>4
  <2> QED BY <1>5, <2>1, <2>3, <2>4, <2>5, ReadPreserves
<1>13. CASE SkipLine
  <2>1. /\ at \in 1..Len(lines) /\ Ignored(at) /\ at' = at + 1
        /\ UNCHANGED <<deck, job, proc, step, pgm, count, out>>
    BY <1>1, <1>2, <1>13 DEF SkipLine, MemoryInv, TypeInvariant
  <2>2. Follows(at, at')
    BY <1>2, <2>1 DEF Follows
  <2>3. /\ ~(deck.kind = "job" /\ lines[at].shape = "job")
        /\ ~(deck.kind = "proc" /\ lines[at].shape = "proc" /\ proc = Absent)
        /\ lines[at].shape # "exec"
    BY <2>1 DEF Ignored
  <2>4. StateMatchesDeck'
    BY <1>1, <2>1, <2>2, <2>3, MemoryFollows DEF MemoryInv
  <2>5. /\ lines' = lines
        /\ \A o : FromDd(o)' = FromDd(o)
        /\ \A l : ScopeAt(l)' = ScopeAt(l) /\ LastExec(l)' = LastExec(l)
    BY <2>1, MeaningStays
  <2>6. Emitted' = Emitted
    BY <2>1 DEF Emitted
  <2>7. ChargesMatchDeck'
    BY <2>5, <2>6 DEF MemoryInv, ChargesMatchDeck, Charged
  <2>8. TypeInvariant'
    <3>1. \A o \in Emitted : o.line \in 1..(at - 1)
      BY <1>1 DEF TypeInvariant
    <3>2. \A o \in Emitted' : o.line \in 1..(at' - 1)
      BY <1>1, <2>1, <2>6, <3>1
    <3> QED BY <1>1, <1>2, <2>1, <2>5, <3>2 DEF TypeInvariant
  <2> QED BY <2>4, <2>7, <2>8 DEF MemoryInv
<1>14. CASE UNCHANGED vars
  <2>1. deck' = deck /\ UNCHANGED <<at, job, proc, step, pgm, count, out>>
    BY <1>14 DEF vars
  <2>2. /\ lines' = lines
        /\ \A o : FromDd(o)' = FromDd(o)
        /\ \A l : ScopeAt(l)' = ScopeAt(l) /\ LastExec(l)' = LastExec(l)
    BY <2>1, MeaningStays
  <2>3. Emitted' = Emitted
    BY <2>1 DEF Emitted
  <2>4. ChargesMatchDeck'
    BY <2>2, <2>3 DEF MemoryInv, ChargesMatchDeck, Charged
  <2>5. StateMatchesDeck'
    BY <2>1 DEF MemoryInv, StateMatchesDeck, JobsBefore, ProcsBefore, Headers, LastExec, StepName, lines
  <2>6. TypeInvariant'
    BY <2>1, <2>2, <2>3 DEF MemoryInv, TypeInvariant
  <2> QED BY <2>4, <2>5, <2>6 DEF MemoryInv
<1> QED BY <1>7, <1>8, <1>9, <1>10, <1>11, <1>12, <1>13, <1>14 DEF Next

\* In every state of every file the memory of the extractor is what the deck says.
THEOREM MemoryHolds == Spec => []MemoryInv
<1> QED BY InitMemory, NextMemory, PTL DEF Spec

\* The last EXEC before a line is the last one of its job or procedure, if that has any.
LEMMA LastExecInScope ==
  ASSUME NEW l \in Nat, ExecsInScope(l) # {}
  PROVE  /\ Greatest(Headers("exec", l)) = Greatest(ExecsInScope(l))
         /\ Greatest(Headers("exec", l)) \in Headers("exec", l)
         /\ \A j \in Opening(l) : j < Greatest(Headers("exec", l))
<1> DEFINE E == ExecsInScope(l)
           H == Headers("exec", l)
<1>2. H \in SUBSET (1..(l - 1)) /\ H \in SUBSET (1..l)
  BY HeadersBounded
<1>3. E \subseteq H /\ E # {} /\ E \in SUBSET (1..l)
  BY <1>2 DEF ExecsInScope
<1>4. Greatest(E) \in E /\ \A j \in E : j <= Greatest(E)
  BY <1>3, GreatestExists
<1>5. Greatest(H) \in H /\ \A j \in H : j <= Greatest(H)
  BY <1>2, <1>3, GreatestExists
<1>6. Greatest(E) \in H /\ Greatest(E) <= Greatest(H)
  BY <1>3, <1>4, <1>5
<1>7. Greatest(H) \in E /\ \A j \in Opening(l) : j < Greatest(H)
  <2>1. \A j \in Opening(l) : j < Greatest(E)
    BY <1>4 DEF ExecsInScope
  <2>2. Opening(l) \in SUBSET Nat
    <3>1. /\ ProcsBefore(l) \in SUBSET (1..(l - 1))
          /\ JobsBefore(l) \in SUBSET (1..(l - 1))
      BY HeadersBounded DEF ProcsBefore, JobsBefore
    <3>2. ProcsBefore(l) # {} => Least(ProcsBefore(l)) \in ProcsBefore(l)
      <4>1. ProcsBefore(l) \in SUBSET Nat
        BY <3>1
      <4> QED BY <4>1, LeastExists
    <3> QED BY <3>1, <3>2 DEF Opening
  <2>3. Greatest(E) \in Nat /\ Greatest(H) \in Nat
    BY <1>2, <1>5, <1>6
  <2>4. \A j \in Opening(l) : j < Greatest(H)
    BY <1>6, <2>1, <2>2, <2>3
  <2> QED BY <1>5, <2>4 DEF ExecsInScope
<1>8. Greatest(H) = Greatest(E)
  <2>1. Greatest(E) \in Nat /\ Greatest(H) \in Nat
    BY <1>2, <1>5, <1>6
  <2> QED BY <1>4, <1>6, <1>7, <2>1
<1> QED BY <1>5, <1>7, <1>8

\* What the invariant says of a DD that has an EXEC in its own job or procedure.
LEMMA ChargesAreRight == MemoryInv => DdsFollowTheirStep
<1> SUFFICES ASSUME MemoryInv, NEW o \in Emitted, FromDd(o), ExecsInScope(o.line) # {}
             PROVE  Charged(o) = StepId(ScopeAt(o.line),
                                        lines[Greatest(ExecsInScope(o.line))].name)
  BY DEF DdsFollowTheirStep
<1> DEFINE l == o.line
<1>1. l \in Nat
  BY LineNumber DEF MemoryInv, TypeInvariant
<1>2. /\ Greatest(Headers("exec", l)) = Greatest(ExecsInScope(l))
      /\ Greatest(Headers("exec", l)) \in Headers("exec", l)
  BY <1>1, LastExecInScope
<1>3. LastExec(l) = lines[Greatest(Headers("exec", l))].name
  BY <1>2 DEF LastExec
<1>4. Charged(o) = StepId(ScopeAt(l), LastExec(l))
  BY DEF MemoryInv, ChargesMatchDeck
<1> QED BY <1>2, <1>3, <1>4

\* Every DD is charged to the step whose EXEC it follows in its own job or procedure.
THEOREM DdsCharged == Spec => []DdsFollowTheirStep
<1> QED BY MemoryHolds, ChargesAreRight, PTL

-----------------------------------------------------------------------------
(* What every statement leaves behind *)

\* The output after a statement: what was there, then what the statement adds.
LEMMA Appended ==
  ASSUME TypeInvariant, NEW observed \in Seq(OfThisLine), out' = out \o observed
  PROVE  /\ Len(out) \in Nat /\ Len(observed) \in Nat /\ Len(out') = Len(out) + Len(observed)
         /\ \A k \in 1..Len(out) : k \in 1..Len(out') /\ out'[k] = out[k] /\ out[k].line # at
         /\ \A k \in 1..Len(observed) : /\ Len(out) + k \in 1..Len(out')
                                        /\ out'[Len(out) + k] = observed[k]
                                        /\ observed[k].line = at
         /\ \A i \in 1..Len(out') :
              i \in 1..Len(out) \/ \E k \in 1..Len(observed) : i = Len(out) + k
         /\ Emitted' = Emitted \cup {observed[k] : k \in 1..Len(observed)}
<1>1. /\ out \in Seq(Observation) /\ Len(out) \in Nat /\ Len(observed) \in Nat
      /\ \A k \in 1..Len(observed) : observed[k] \in OfThisLine
  BY LenProperties, ElementOfSeq DEF TypeInvariant
<1>2. /\ Len(out') = Len(out) + Len(observed)
      /\ \A i \in 1..(Len(out) + Len(observed)) :
           out'[i] = IF i <= Len(out) THEN out[i] ELSE observed[i - Len(out)]
  BY <1>1, ConcatProperties
<1>3. ASSUME NEW k \in 1..Len(out)
      PROVE  k \in 1..Len(out') /\ out'[k] = out[k] /\ out[k].line # at
  <2>1. k \in 1..(Len(out) + Len(observed)) /\ k <= Len(out)
    BY <1>1
  <2>2. out[k].line \in 1..(at - 1)
    BY DEF TypeInvariant, Emitted
  <2> QED BY <1>2, <2>1, <2>2, LineNumber
<1>4. ASSUME NEW k \in 1..Len(observed)
      PROVE  /\ Len(out) + k \in 1..Len(out') /\ out'[Len(out) + k] = observed[k]
             /\ observed[k].line = at
  <2>1. /\ Len(out) + k \in 1..(Len(out) + Len(observed)) /\ ~(Len(out) + k <= Len(out))
        /\ (Len(out) + k) - Len(out) = k
    BY <1>1
  <2> QED BY <1>1, <1>2, <2>1 DEF OfThisLine
<1>5. ASSUME NEW i \in 1..Len(out')
      PROVE  i \in 1..Len(out) \/ \E k \in 1..Len(observed) : i = Len(out) + k
  <2>1. CASE i <= Len(out)
    BY <1>1, <1>2, <2>1
  <2>2. CASE ~(i <= Len(out))
    <3>1. i - Len(out) \in 1..Len(observed) /\ i = Len(out) + (i - Len(out))
      BY <1>1, <1>2, <2>2
    <3> QED BY <3>1
  <2> QED BY <2>1, <2>2
<1>6. Emitted' = {out'[k] : k \in 1..Len(out')}
  BY DEF Emitted
<1>7. Emitted' = Emitted \cup {observed[k] : k \in 1..Len(observed)}
  <2>1. \A o \in Emitted' : o \in Emitted \cup {observed[k] : k \in 1..Len(observed)}
    BY <1>3, <1>4, <1>5, <1>6 DEF Emitted
  <2>2. \A o \in Emitted : o \in Emitted'
    BY <1>3, <1>6 DEF Emitted
  <2>3. \A k \in 1..Len(observed) : observed[k] \in Emitted'
    BY <1>4, <1>6
  <2> QED BY <2>1, <2>2, <2>3
<1> QED BY <1>1, <1>2, <1>3, <1>4, <1>5, <1>7

\* Short sequences put one after the other.
LEMMA ShortConcats ==
  ASSUME NEW a, NEW b, NEW c
  PROVE  /\ <<a>> \o << >> = <<a>>
         /\ <<a>> \o <<b>> = <<a, b>>
         /\ <<a>> \o <<b, c>> = <<a, b, c>>
         /\ <<a, b>> \o << >> = <<a, b>>
         /\ <<a, b>> \o <<c>> = <<a, b, c>>
<1> DEFINE S == {a, b, c}
<1>1. /\ <<a>> \in Seq(S) /\ <<b>> \in Seq(S) /\ <<c>> \in Seq(S)
      /\ <<a, b>> \in Seq(S) /\ <<b, c>> \in Seq(S) /\ <<a, b, c>> \in Seq(S)
  OBVIOUS
<1>2. /\ Len(<<a>>) = 1 /\ Len(<<b>>) = 1 /\ Len(<<c>>) = 1
      /\ Len(<<a, b>>) = 2 /\ Len(<<b, c>>) = 2 /\ Len(<<a, b, c>>) = 3
  OBVIOUS
<1>3. <<a>> \o <<b>> = <<a, b>>
  <2>1. /\ <<a>> \o <<b>> \in Seq(S) /\ Len(<<a>> \o <<b>>) = 2
        /\ \A i \in 1..2 : (<<a>> \o <<b>>)[i] = <<a, b>>[i]
    BY <1>1, <1>2, ConcatProperties
  <2> QED BY <1>1, <1>2, <2>1, SeqEqual
<1>4. <<a>> \o <<b, c>> = <<a, b, c>>
  <2>1. /\ <<a>> \o <<b, c>> \in Seq(S) /\ Len(<<a>> \o <<b, c>>) = 3
        /\ \A i \in 1..3 : (<<a>> \o <<b, c>>)[i] = <<a, b, c>>[i]
    BY <1>1, <1>2, ConcatProperties
  <2> QED BY <1>1, <1>2, <2>1, SeqEqual
<1>5. <<a, b>> \o <<c>> = <<a, b, c>>
  <2>1. /\ <<a, b>> \o <<c>> \in Seq(S) /\ Len(<<a, b>> \o <<c>>) = 3
        /\ \A i \in 1..3 : (<<a, b>> \o <<c>>)[i] = <<a, b, c>>[i]
    BY <1>1, <1>2, ConcatProperties
  <2> QED BY <1>1, <1>2, <2>1, SeqEqual
<1>6. <<a>> \o << >> = <<a>> /\ <<a, b>> \o << >> = <<a, b>>
  BY <1>1, ConcatEmptySeq
<1> QED BY <1>3, <1>4, <1>5, <1>6

\* What an EXEC leaves behind: its step, then the run or the call, if any.
LEMMA ExecForms ==
  LET made == EntityObs("JCLStep", StepId(Scope, lines[at].name), Owner, Absent, count + 1, FALSE)
      runs == EdgeObs("INVOKES", StepId(Scope, lines[at].name), ProgramId(Operand(at, "pgm")),
                      Absent, Absent)
      call(c) == EntityObs("JCLProcInvocation", InvocationId(Scope, lines[at].name), Owner,
                           ProcId(c), 0, FALSE)
      uses(c) == EdgeObs("USES_PROC", InvocationId(Scope, lines[at].name), ProcId(c), Absent, Absent)
  IN  \/ Operand(at, "pgm") # Absent /\ ExecObs = <<made, runs>>
      \/ Operand(at, "pgm") = Absent /\ CalleeOf(at) = Absent /\ ExecObs = <<made>>
      \/ /\ Operand(at, "pgm") = Absent /\ CalleeOf(at) # Absent
         /\ \E c : c = CalleeOf(at) /\ ExecObs = <<made, call(c), uses(c)>>
<1> DEFINE made == EntityObs("JCLStep", StepId(Scope, lines[at].name), Owner, Absent, count + 1, FALSE)
           runs == EdgeObs("INVOKES", StepId(Scope, lines[at].name), ProgramId(Operand(at, "pgm")),
                           Absent, Absent)
           call(c) == EntityObs("JCLProcInvocation", InvocationId(Scope, lines[at].name), Owner,
                                ProcId(c), 0, FALSE)
           uses(c) == EdgeObs("USES_PROC", InvocationId(Scope, lines[at].name), ProcId(c), Absent, Absent)
<1>1. \A c : InvocationOf(c) = <<call(c), uses(c)>>
  BY DEF InvocationOf
<1>2. ExecObs = <<made>>
        \o (IF Operand(at, "pgm") # Absent THEN <<runs>>
            ELSE IF Operand(at, "proc") # Absent THEN InvocationOf(Operand(at, "proc"))
            ELSE IF Positional(at) # Absent THEN InvocationOf(Positional(at))
            ELSE <<>>)
  BY DEF ExecObs
<1> HIDE DEF made, runs, call, uses
<1>3. CASE Operand(at, "pgm") # Absent
  <2>1. ExecObs = <<made, runs>>
    BY <1>2, <1>3, ShortConcats
  <2> QED BY <1>3, <2>1 DEF made, runs
<1>4. CASE Operand(at, "pgm") = Absent /\ Operand(at, "proc") # Absent
  <2>1. ExecObs = <<made, call(Operand(at, "proc")), uses(Operand(at, "proc"))>>
    BY <1>1, <1>2, <1>4, ShortConcats
  <2> QED BY <1>4, <2>1 DEF made, call, uses, CalleeOf
<1>5. CASE Operand(at, "pgm") = Absent /\ Operand(at, "proc") = Absent /\ Positional(at) # Absent
  <2>1. ExecObs = <<made, call(Positional(at)), uses(Positional(at))>>
    BY <1>1, <1>2, <1>5, ShortConcats
  <2> QED BY <1>5, <2>1 DEF made, call, uses, CalleeOf
<1>6. CASE Operand(at, "pgm") = Absent /\ Operand(at, "proc") = Absent /\ Positional(at) = Absent
  <2>1. ExecObs = <<made>>
    BY <1>2, <1>6, ShortConcats
  <2> QED BY <1>6, <2>1 DEF made, CalleeOf
<1> QED BY <1>3, <1>4, <1>5, <1>6

\* What a DD leaves behind: a property, nothing, or its data set, the use of it and,
\* for SYSIN, the program that reads it.
LEMMA DdForms ==
  ASSUME NEW s
  PROVE
  LET id == StepId(Scope, s)
      dd == lines[at].name
      ds == DatasetId(BaseOf[Operand(at, "dsn")])
      holds == EntityObs("Dataset", ds, Absent, Absent, 0, BaseOf[Operand(at, "dsn")] \in Symbolic)
      uses  == EdgeObs("USES_DATASET", id, ds, dd, Absent)
      sysin == EdgeObs("PASSES_SYSIN_TO", id, ds, dd, pgm)
      plain == Operand(at, "dsn") # Absent /\ ~Flagged(at, "DUMMY") /\ ~Flagged(at, "SYSOUT")
  IN  \/ ~plain /\ DdObs(s) = <<>>
      \/ ~plain /\ \E p : DdObs(s) = <<PropertyObs(id, p, dd)>>
      \/ plain /\ DdObs(s) = <<holds, uses>>
      \/ plain /\ dd = "SYSIN" /\ pgm # Absent /\ DdObs(s) = <<holds, uses, sysin>>
<1> DEFINE id == StepId(Scope, s)
           dd == lines[at].name
           ds == DatasetId(BaseOf[Operand(at, "dsn")])
           holds == EntityObs("Dataset", ds, Absent, Absent, 0, BaseOf[Operand(at, "dsn")] \in Symbolic)
           uses  == EdgeObs("USES_DATASET", id, ds, dd, Absent)
           sysin == EdgeObs("PASSES_SYSIN_TO", id, ds, dd, pgm)
<1>1. AllocationObs(id, dd) =
        <<holds, uses>> \o (IF dd = "SYSIN" /\ pgm # Absent THEN <<sysin>> ELSE <<>>)
  BY DEF AllocationObs
<1>2. DdObs(s) =
        IF Flagged(at, "DUMMY")  THEN <<PropertyObs(id, "dd_dummy", dd)>>
        ELSE IF Flagged(at, "SYSOUT") THEN <<PropertyObs(id, "dd_sysout", dd)>>
        ELSE IF Operand(at, "dsn") # Absent THEN AllocationObs(id, dd)
        ELSE IF Flagged(at, "INLINE") THEN <<PropertyObs(id, "dd_inline", dd)>>
        ELSE <<>>
  BY DEF DdObs
<1> HIDE DEF holds, uses, sysin
<1>3. \/ AllocationObs(id, dd) = <<holds, uses>>
      \/ dd = "SYSIN" /\ pgm # Absent /\ AllocationObs(id, dd) = <<holds, uses, sysin>>
  BY <1>1, ShortConcats
<1> QED BY <1>2, <1>3 DEF holds, uses, sysin

\* What a statement says depends on the deck alone.
LEMMA StatementsStay ==
  ASSUME deck' = deck
  PROVE  /\ lines' = lines
         /\ \A l : Statement(l)' = Statement(l) /\ ScopeAt(l)' = ScopeAt(l)
         /\ \A l, field : Operand(l, field)' = Operand(l, field)
         /\ \A shape, l : Headers(shape, l)' = Headers(shape, l)
         /\ \A l : LastProgram(l)' = LastProgram(l)
         /\ \A l : CalleeOf(l)' = CalleeOf(l)
         /\ \A o, l : (IsStepOf(o, l) <=> IsStepOf(o, l)') /\ (IsCallOf(o, l) <=> IsCallOf(o, l)')
<1>1. lines' = lines /\ \A l : ScopeAt(l)' = ScopeAt(l)
  BY MeaningStays
<1>2. \A l : Continues(l)' = Continues(l)
  BY <1>1 DEF Continues
<1>3. \A l : EndOf(l)' = EndOf(l)
  BY <1>1, <1>2 DEF EndOf
<1>4. \A l : Statement(l)' = Statement(l)
  BY <1>3 DEF Statement
<1>5. \A l, field : Operand(l, field)' = Operand(l, field)
  BY <1>1, <1>4 DEF Operand
<1>6. \A shape, l : Headers(shape, l)' = Headers(shape, l)
  BY <1>1 DEF Headers
<1>7. \A l : LastProgram(l)' = LastProgram(l)
  BY <1>5, <1>6 DEF LastProgram
<1>8. \A l : CalleeOf(l)' = CalleeOf(l)
  <2>1. \A l : Positional(l)' = Positional(l)
    BY <1>1, <1>3 DEF Positional
  <2> QED BY <1>5, <2>1 DEF CalleeOf
<1>9. \A l : OwnerAt(l)' = OwnerAt(l)
  <2>1. \A l : ProcsBefore(l)' = ProcsBefore(l)
    BY <1>6 DEF ProcsBefore
  <2> QED BY <1>1, <2>1 DEF OwnerAt
<1>10. \A o, l : IsStepOf(o, l) <=> IsStepOf(o, l)'
  BY <1>1, <1>9 DEF IsStepOf
<1>11. \A o, l : IsCallOf(o, l) <=> IsCallOf(o, l)'
  BY <1>1, <1>8 DEF IsCallOf
<1> QED BY <1>1, <1>4, <1>5, <1>6, <1>7, <1>8, <1>10, <1>11

\* The program and the number remembered follow the EXEC statements.
LEMMA ExecFollows ==
  ASSUME TypeInvariant, ExecRemembered, at \in 1..Len(lines), deck' = deck, Follows(at, at'),
         pgm' = IF lines[at].shape = "exec" THEN Operand(at, "pgm") ELSE pgm,
         count' = IF lines[at].shape = "exec" THEN count + 1 ELSE count
  PROVE  ExecRemembered'
<1> DEFINE H == Headers("exec", at)
<1>1. deck \in Decks /\ at \in Nat
  BY LineNumber DEF TypeInvariant
<1>2. Headers("exec", at') = H \cup {k \in {at} : lines[k].shape = "exec"}
  BY <1>1, HeadersGrow
<1>3. /\ LastProgram(at)' = IF Headers("exec", at') = {} THEN Absent
                            ELSE Operand(Greatest(Headers("exec", at')), "pgm")
      /\ Cardinality(Headers("exec", at))' = Cardinality(Headers("exec", at'))
  BY StatementsStay DEF LastProgram
<1>4. H \in SUBSET (1..(at - 1))
  BY <1>1, HeadersBounded
<1>5. CASE lines[at].shape = "exec"
  <2>1. Headers("exec", at') = H \cup {at}
    BY <1>2, <1>5
  <2>2. Greatest(H \cup {at}) = at
    BY <1>1, <1>4, GreatestOfMore
  <2>3. IsFiniteSet(H) /\ at \notin H
    <3>1. IsFiniteSet(1..(at - 1))
      BY <1>1, FS_Interval
    <3> QED BY <1>1, <1>4, <3>1, FS_Subset
  <2>4. Cardinality(H \cup {at}) = Cardinality(H) + 1
    BY <2>3, FS_AddElement
  <2> HIDE DEF H
  <2>5. pgm' = Operand(at, "pgm") /\ count' = Cardinality(H) + 1
    BY <1>5 DEF ExecRemembered, H
  <2> QED BY <1>3, <2>1, <2>2, <2>4, <2>5 DEF ExecRemembered
<1>6. CASE lines[at].shape # "exec"
  <2>1. Headers("exec", at') = H
    BY <1>2, <1>6
  <2> QED BY <1>3, <1>6, <2>1 DEF ExecRemembered, LastProgram
<1> QED BY <1>5, <1>6

\* What was observed of the statements passed stays what it is.
LEMMA PassedStay ==
  ASSUME TypeInvariant, at \in 1..Len(lines), NEW observed \in Seq(OfThisLine), Read(observed),
         NEW l \in 1..(at - 1), ObservedOnce(l), RunObserved(l)
  PROVE  ObservedOnce(l)' /\ RunObserved(l)'
<1>1. deck' = deck /\ out' = out \o observed
  BY ReadMoves
<1>2. /\ Len(out) \in Nat /\ Len(observed) \in Nat
      /\ \A k \in 1..Len(out) : k \in 1..Len(out') /\ out'[k] = out[k]
      /\ \A k \in 1..Len(observed) : out'[Len(out) + k] = observed[k] /\ observed[k].line = at
      /\ \A i \in 1..Len(out') : i \in 1..Len(out) \/ \E k \in 1..Len(observed) : i = Len(out) + k
      /\ Emitted' = Emitted \cup {observed[k] : k \in 1..Len(observed)}
  BY <1>1, Appended
<1>3. l # at
  BY LineNumber
<1>4. UsesOf(l)' = UsesOf(l)
  <2>1. UsesOf(l)' = {k \in 1..Len(out') : /\ out'[k].kind = "edge" /\ out'[k].line = l
                                          /\ out'[k].type = "USES_DATASET"}
    BY DEF UsesOf
  <2>2. ASSUME NEW i \in 1..Len(out'), out'[i].line = l
        PROVE  i \in 1..Len(out)
    BY <1>2, <1>3, <2>2
  <2> QED BY <1>2, <2>1, <2>2 DEF UsesOf
<1>5. StepsOf(l)' = StepsOf(l)
  <2>1. StepsOf(l)' = {o \in Emitted' : o.kind = "entity" /\ o.type = "JCLStep" /\ o.line = l}
    BY DEF StepsOf
  <2>2. \A o \in Emitted' : o.line = l => o \in Emitted
    BY <1>2, <1>3
  <2> QED BY <1>2, <2>1, <2>2 DEF StepsOf
<1>6. ObservedOnce(l)'
  BY <1>1, <1>4, <1>5, StatementsStay DEF ObservedOnce
<1>7. RunObserved(l)'
  <2>1. /\ lines' = lines /\ ScopeAt(l)' = ScopeAt(l)
        /\ Operand(l, "pgm")' = Operand(l, "pgm") /\ CalleeOf(l)' = CalleeOf(l)
        /\ \A o : (IsStepOf(o, l) <=> IsStepOf(o, l)') /\ (IsCallOf(o, l) <=> IsCallOf(o, l)')
    BY <1>1, StatementsStay
  <2> QED BY <1>2, <2>1 DEF RunObserved
<1> QED BY <1>6, <1>7

\* A line that is no EXEC and no DD is not one that must be observed.
LEMMA NothingToObserve ==
  ASSUME NEW l, lines[l].shape \notin {"exec", "dd", "override"}
  PROVE  ObservedOnce(l) /\ RunObserved(l)
BY DEF ObservedOnce, RunObserved

\* So every statement passed is observed once the one the loop stands at is.
LEMMA StatementPassed ==
  ASSUME TypeInvariant, StatementsObserved, at \in 1..Len(lines),
         NEW observed \in Seq(OfThisLine), Read(observed),
         \A l \in {at} : (ObservedOnce(l) /\ RunObserved(l))'
  PROVE  StatementsObserved'
<1>1. deck' = deck /\ Follows(at, at') /\ at' \in 1..(Len(lines) + 1) /\ at' > at
  BY ReadMoves
<1>2. lines' = lines /\ Len(lines) \in Nat /\ at \in Nat
  BY <1>1, LineNumber, DeckShape, StatementsStay DEF TypeInvariant
<1>3. ASSUME NEW l \in 1..(at' - 1)
      PROVE  (ObservedOnce(l) /\ RunObserved(l))'
  <2>1. CASE l < at
    <3>1. l \in 1..(at - 1)
      BY <1>2, <2>1
    <3> QED BY <3>1, PassedStay DEF StatementsObserved
  <2>2. CASE l > at
    <3>1. l \in (at + 1)..(at' - 1) /\ l \in 1..Len(lines)
      <4> DEFINE next == at'
      <4>1. next \in 1..(Len(lines) + 1) /\ l \in 1..(next - 1) /\ l > at
        BY <1>1, <1>3, <2>2
      <4> HIDE DEF next
      <4>2. l \in (at + 1)..(next - 1) /\ l \in 1..Len(lines)
        BY ONLY <1>2, <4>1
      <4> QED BY <4>2 DEF next
    <3>2. lines[l].name = Absent
      BY <1>1, <3>1 DEF Follows
    <3>3. lines[l].shape \notin {"exec", "dd", "override"}
      BY <3>1, <3>2, DeckShape DEF TypeInvariant, Unnamed
    <3> QED BY <1>2, <3>3 DEF ObservedOnce, RunObserved
  <2>3. CASE l = at
    BY <2>3
  <2>4. l < at \/ l > at \/ l = at
    BY <1>1, <1>2
  <2> QED BY <2>1, <2>2, <2>3, <2>4
<1> QED BY <1>3 DEF StatementsObserved

\* An EXEC leaves one step, and the run of its program if it names one.
LEMMA ExecContents ==
  LET made == EntityObs("JCLStep", StepId(Scope, lines[at].name), Owner, Absent, count + 1, FALSE)
  IN  /\ 1 \in 1..Len(ExecObs) /\ ExecObs[1] = made
      /\ \A k \in 1..Len(ExecObs) :
           /\ ExecObs[k].kind = "entity" /\ ExecObs[k].type = "JCLStep" => ExecObs[k] = made
           /\ ExecObs[k].kind = "edge" => ExecObs[k].type # "PASSES_SYSIN_TO"
      /\ Operand(at, "pgm") # Absent =>
           /\ 2 \in 1..Len(ExecObs)
           /\ ExecObs[2] = EdgeObs("INVOKES", StepId(Scope, lines[at].name),
                                   ProgramId(Operand(at, "pgm")), Absent, Absent)
      /\ CalleeOf(at) # Absent =>
           /\ 2 \in 1..Len(ExecObs)
           /\ ExecObs[2] = EntityObs("JCLProcInvocation", InvocationId(Scope, lines[at].name),
                                     Owner, ProcId(CalleeOf(at)), 0, FALSE)
<1> DEFINE id   == StepId(Scope, lines[at].name)
           made == EntityObs("JCLStep", id, Owner, Absent, count + 1, FALSE)
           runs == EdgeObs("INVOKES", id, ProgramId(Operand(at, "pgm")), Absent, Absent)
           call(c) == EntityObs("JCLProcInvocation", InvocationId(Scope, lines[at].name), Owner,
                                ProcId(c), 0, FALSE)
           uses(c) == EdgeObs("USES_PROC", InvocationId(Scope, lines[at].name), ProcId(c), Absent, Absent)
           Harmless(o) == /\ o.kind = "entity" /\ o.type = "JCLStep" => o = made
                          /\ o.kind = "edge" => o.type # "PASSES_SYSIN_TO"
           Contents == /\ 1 \in 1..Len(ExecObs) /\ ExecObs[1] = made
                       /\ \A k \in 1..Len(ExecObs) : Harmless(ExecObs[k])
                       /\ Operand(at, "pgm") # Absent => 2 \in 1..Len(ExecObs) /\ ExecObs[2] = runs
                       /\ CalleeOf(at) # Absent =>
                            2 \in 1..Len(ExecObs) /\ ExecObs[2] = call(CalleeOf(at))
<1>1. \/ Operand(at, "pgm") # Absent /\ ExecObs = <<made, runs>>
      \/ Operand(at, "pgm") = Absent /\ CalleeOf(at) = Absent /\ ExecObs = <<made>>
      \/ /\ Operand(at, "pgm") = Absent /\ CalleeOf(at) # Absent
         /\ \E c : c = CalleeOf(at) /\ ExecObs = <<made, call(c), uses(c)>>
  BY ExecForms
<1>0. Operand(at, "pgm") # Absent => CalleeOf(at) = Absent
  BY DEF CalleeOf
<1>2. /\ runs.kind = "edge" /\ runs.type = "INVOKES" /\ made.kind = "entity"
      /\ \A c : /\ call(c).kind = "entity" /\ call(c).type = "JCLProcInvocation"
                /\ uses(c).kind = "edge" /\ uses(c).type = "USES_PROC"
  BY DEF EntityObs, EdgeObs
<1> HIDE DEF made, runs, call, uses
<1>3. ASSUME Operand(at, "pgm") # Absent, ExecObs = <<made, runs>>
      PROVE  Contents
  <2>1. Len(ExecObs) = 2 /\ ExecObs[1] = made /\ ExecObs[2] = runs
    BY <1>3
  <2>2. \A k \in 1..2 : k = 1 \/ k = 2
    OBVIOUS
  <2>3. \A k \in 1..Len(ExecObs) : Harmless(ExecObs[k])
    BY <1>2, <2>1, <2>2
  <2> HIDE DEF Harmless
  <2> QED BY <1>0, <1>3, <2>1, <2>3
<1>4. ASSUME Operand(at, "pgm") = Absent, CalleeOf(at) = Absent, ExecObs = <<made>>
      PROVE  Contents
  <2>1. Len(ExecObs) = 1 /\ ExecObs[1] = made
    BY <1>4
  <2>2. \A k \in 1..1 : k = 1
    OBVIOUS
  <2>3. \A k \in 1..Len(ExecObs) : Harmless(ExecObs[k])
    BY <1>2, <2>1, <2>2
  <2> HIDE DEF Harmless
  <2> QED BY <1>4, <2>1, <2>3
<1>5. ASSUME Operand(at, "pgm") = Absent,
             \E c : c = CalleeOf(at) /\ ExecObs = <<made, call(c), uses(c)>>
      PROVE  Contents
  <2>0. PICK c : c = CalleeOf(at) /\ ExecObs = <<made, call(c), uses(c)>>
    BY <1>5
  <2>1. Len(ExecObs) = 3 /\ ExecObs[1] = made /\ ExecObs[2] = call(c) /\ ExecObs[3] = uses(c)
    BY <2>0
  <2>2. \A k \in 1..3 : k = 1 \/ k = 2 \/ k = 3
    OBVIOUS
  <2>3. Harmless(made) /\ Harmless(call(c)) /\ Harmless(uses(c))
    BY <1>2
  <2> HIDE DEF Harmless
  <2>4. \A k \in 1..Len(ExecObs) : Harmless(ExecObs[k])
    BY <2>1, <2>2, <2>3
  <2> QED BY <1>5, <2>0, <2>1, <2>4
<1>6. Contents
  <2> HIDE DEF Contents
  <2> QED BY <1>1, <1>3, <1>4, <1>5
<1> QED BY <1>6 DEF made, runs, call

LEMMA ExecIsObserved ==
  ASSUME TypeInvariant, StateMatchesDeck, ExecRemembered, at \in 1..Len(lines),
         lines[at].shape = "exec", Read(ExecObs)
  PROVE  \A l \in {at} : (ObservedOnce(l) /\ RunObserved(l))'
<1> SUFFICES ASSUME NEW l \in {at}
             PROVE  ObservedOnce(l)' /\ RunObserved(l)'
  OBVIOUS
<1> DEFINE id   == StepId(Scope, lines[at].name)
           made == EntityObs("JCLStep", id, Owner, Absent, count + 1, FALSE)
           runs == EdgeObs("INVOKES", id, ProgramId(Operand(at, "pgm")), Absent, Absent)
           call == EntityObs("JCLProcInvocation", InvocationId(Scope, lines[at].name), Owner,
                             ProcId(CalleeOf(at)), 0, FALSE)
<1>1. ExecObs \in Seq(OfThisLine) /\ deck' = deck /\ out' = out \o ExecObs
  BY ExecObserved, ReadMoves
<1>2. /\ Emitted' = Emitted \cup {ExecObs[k] : k \in 1..Len(ExecObs)}
      /\ \A o \in Emitted : o.line # at
  BY <1>1, Appended DEF Emitted
<1>3. /\ 1 \in 1..Len(ExecObs) /\ ExecObs[1] = made
      /\ \A k \in 1..Len(ExecObs) :
           ExecObs[k].kind = "entity" /\ ExecObs[k].type = "JCLStep" => ExecObs[k] = made
      /\ Operand(at, "pgm") # Absent => 2 \in 1..Len(ExecObs) /\ ExecObs[2] = runs
      /\ CalleeOf(at) # Absent => 2 \in 1..Len(ExecObs) /\ ExecObs[2] = call
  BY ExecContents
<1>4. /\ made.kind = "entity" /\ made.type = "JCLStep" /\ made.line = at
      /\ made.order = Cardinality(Headers("exec", at)) + 1
  BY DEF EntityObs, ExecRemembered
<1>5. /\ runs.kind = "edge" /\ runs.type = "INVOKES" /\ runs.line = at
      /\ runs.to = ProgramId(Operand(at, "pgm")) /\ runs.from = StepId(ScopeAt(at), lines[at].name)
  BY MemoryIsMeaning DEF EdgeObs
<1>9. made.kind = "entity" /\ IsStepOf(made, at)
  BY MemoryIsMeaning DEF EntityObs, IsStepOf
<1>10. call.kind = "entity" /\ (CalleeOf(at) # Absent => IsCallOf(call, at))
  BY MemoryIsMeaning DEF EntityObs, IsCallOf
<1> HIDE DEF made, runs, call
<1>6. StepsOf(l)' = {made}
  <2>1. StepsOf(l)' = {o \in Emitted' : o.kind = "entity" /\ o.type = "JCLStep" /\ o.line = l}
    BY DEF StepsOf
  <2> QED BY <1>2, <1>3, <1>4, <2>1
<1>7. ObservedOnce(l)'
  <2>1. lines'[l].shape = "exec" /\ Headers("exec", l)' = Headers("exec", l)
    BY <1>1, StatementsStay
  <2>2. {o.order : o \in StepsOf(l)'} = {Cardinality(Headers("exec", l)) + 1}
    BY <1>4, <1>6
  <2> QED BY <2>1, <2>2 DEF ObservedOnce
<1>8. RunObserved(l)'
  <2>1. /\ made \in Emitted'
        /\ Operand(at, "pgm") # Absent => runs \in Emitted'
        /\ CalleeOf(at) # Absent => call \in Emitted'
    BY <1>2, <1>3
  <2>2. /\ lines' = lines /\ ScopeAt(l)' = ScopeAt(l) /\ l = at
        /\ Operand(l, "pgm")' = Operand(l, "pgm") /\ CalleeOf(l)' = CalleeOf(l)
        /\ \A o : (IsStepOf(o, l) <=> IsStepOf(o, l)') /\ (IsCallOf(o, l) <=> IsCallOf(o, l)')
    BY <1>1, StatementsStay
  <2> QED BY <1>5, <1>9, <1>10, <2>1, <2>2 DEF RunObserved
<1> QED BY <1>7, <1>8

\* A DD leaves one use of its data set, and passes SYSIN to the program remembered.
LEMMA DdContents ==
  ASSUME NEW s
  PROVE  /\ \A k \in 1..Len(DdObs(s)) :
              DdObs(s)[k].kind = "edge" /\ DdObs(s)[k].type = "PASSES_SYSIN_TO" =>
                DdObs(s)[k].dd = "SYSIN" /\ DdObs(s)[k].utility = pgm /\ pgm # Absent
         /\ Operand(at, "dsn") # Absent /\ ~Flagged(at, "DUMMY") /\ ~Flagged(at, "SYSOUT") =>
              /\ 2 \in 1..Len(DdObs(s))
              /\ \A k \in 1..Len(DdObs(s)) :
                   DdObs(s)[k].kind = "edge" /\ DdObs(s)[k].type = "USES_DATASET" <=> k = 2
<1> DEFINE id == StepId(Scope, s)
           dd == lines[at].name
           ds == DatasetId(BaseOf[Operand(at, "dsn")])
           holds == EntityObs("Dataset", ds, Absent, Absent, 0, BaseOf[Operand(at, "dsn")] \in Symbolic)
           uses  == EdgeObs("USES_DATASET", id, ds, dd, Absent)
           sysin == EdgeObs("PASSES_SYSIN_TO", id, ds, dd, pgm)
           says(p) == PropertyObs(id, p, dd)
           plain == Operand(at, "dsn") # Absent /\ ~Flagged(at, "DUMMY") /\ ~Flagged(at, "SYSOUT")
<1>1. \/ ~plain /\ DdObs(s) = <<>>
      \/ ~plain /\ \E p : DdObs(s) = <<says(p)>>
      \/ plain /\ DdObs(s) = <<holds, uses>>
      \/ plain /\ dd = "SYSIN" /\ pgm # Absent /\ DdObs(s) = <<holds, uses, sysin>>
  BY DdForms
<1>2. /\ holds.kind = "entity" /\ uses.kind = "edge" /\ uses.type = "USES_DATASET"
      /\ sysin.kind = "edge" /\ sysin.type = "PASSES_SYSIN_TO"
      /\ sysin.dd = dd /\ sysin.utility = pgm
      /\ \A p : says(p).kind = "property"
  BY DEF EntityObs, EdgeObs, PropertyObs
<1> HIDE DEF holds, uses, sysin, says, plain, dd, DdObs
<1>3. CASE ~plain /\ DdObs(s) = <<>>
  BY <1>3 DEF plain
<1>4. CASE ~plain /\ \E p : DdObs(s) = <<says(p)>>
  <2>1. PICK p : DdObs(s) = <<says(p)>>
    BY <1>4
  <2>2. Len(DdObs(s)) = 1 /\ DdObs(s)[1] = says(p)
    BY <2>1
  <2>3. \A k \in 1..1 : k = 1
    OBVIOUS
  <2> QED BY <1>2, <1>4, <2>2, <2>3 DEF plain
<1>5. CASE plain /\ DdObs(s) = <<holds, uses>>
  <2>1. Len(DdObs(s)) = 2 /\ DdObs(s)[1] = holds /\ DdObs(s)[2] = uses
    BY <1>5
  <2>2. \A k \in 1..2 : k = 1 \/ k = 2
    OBVIOUS
  <2> QED BY <1>2, <2>1, <2>2
<1>6. CASE plain /\ dd = "SYSIN" /\ pgm # Absent /\ DdObs(s) = <<holds, uses, sysin>>
  <2>1. Len(DdObs(s)) = 3 /\ DdObs(s)[1] = holds /\ DdObs(s)[2] = uses /\ DdObs(s)[3] = sysin
    BY <1>6
  <2>2. \A k \in 1..3 : k = 1 \/ k = 2 \/ k = 3
    OBVIOUS
  <2> QED BY <1>2, <1>6, <2>1, <2>2
<1> QED BY <1>1, <1>3, <1>4, <1>5, <1>6

LEMMA DdIsObserved ==
  ASSUME TypeInvariant, at \in 1..Len(lines), lines[at].shape \in {"dd", "override"},
         NEW s \in Labels, Read(DdObs(s))
  PROVE  \A l \in {at} : (ObservedOnce(l) /\ RunObserved(l))'
<1> SUFFICES ASSUME NEW l \in {at}
             PROVE  ObservedOnce(l)' /\ RunObserved(l)'
  OBVIOUS
<1>1. DdObs(s) \in Seq(OfThisLine) /\ deck' = deck /\ out' = out \o DdObs(s)
  <2>1. DdObs(s) \in Seq(ChargedTo(StepId(Scope, s)))
    BY DdObserved
  <2>2. ChargedTo(StepId(Scope, s)) \subseteq OfThisLine
    BY DEF ChargedTo
  <2> QED BY <2>1, <2>2, ReadMoves, SeqMonotonic
<1>2. /\ Len(out) \in Nat /\ Len(DdObs(s)) \in Nat
      /\ \A k \in 1..Len(out) : k \in 1..Len(out') /\ out'[k] = out[k] /\ out[k].line # at
      /\ \A k \in 1..Len(DdObs(s)) : /\ Len(out) + k \in 1..Len(out')
                                     /\ out'[Len(out) + k] = DdObs(s)[k]
                                     /\ DdObs(s)[k].line = at
      /\ \A i \in 1..Len(out') : i \in 1..Len(out) \/ \E k \in 1..Len(DdObs(s)) : i = Len(out) + k
  BY <1>1, Appended
<1>3. ASSUME \A k \in Statement(at) : lines[k].flags = {}, Operand(at, "dsn") # Absent
      PROVE  UsesOf(l)' = {Len(out) + 2}
  <2>1. ~Flagged(at, "DUMMY") /\ ~Flagged(at, "SYSOUT")
    BY <1>3 DEF Flagged
  <2>2. /\ 2 \in 1..Len(DdObs(s))
        /\ \A k \in 1..Len(DdObs(s)) :
             DdObs(s)[k].kind = "edge" /\ DdObs(s)[k].type = "USES_DATASET" <=> k = 2
    BY <1>3, <2>1, DdContents
  <2>3. UsesOf(l)' = {k \in 1..Len(out') : /\ out'[k].kind = "edge" /\ out'[k].line = l
                                          /\ out'[k].type = "USES_DATASET"}
    BY DEF UsesOf
  <2>4. ASSUME NEW i \in UsesOf(l)'
        PROVE  i = Len(out) + 2
    <3>1. i \in 1..Len(out') /\ out'[i].kind = "edge" /\ out'[i].line = at
          /\ out'[i].type = "USES_DATASET"
      BY <2>3
    <3>2. i \notin 1..Len(out)
      BY <1>2, <3>1
    <3>3. PICK k \in 1..Len(DdObs(s)) : i = Len(out) + k
      BY <1>2, <3>1, <3>2
    <3> QED BY <1>2, <2>2, <3>1, <3>3
  <2>5. Len(out) + 2 \in UsesOf(l)'
    BY <1>2, <2>2, <2>3
  <2> QED BY <2>4, <2>5
<1>4. lines'[l] = lines[at] /\ Statement(l)' = Statement(at) /\ Operand(l, "dsn")' = Operand(at, "dsn")
  BY <1>1, StatementsStay
<1>5. ObservedOnce(l)'
  <2>1. ASSUME \A k \in Statement(at) : lines[k].flags = {}, Operand(at, "dsn") # Absent
        PROVE  Cardinality(UsesOf(l)') = 1
    BY <1>3, <2>1, FS_Singleton
  <2> QED BY <1>1, <1>4, <2>1, StatementsStay DEF ObservedOnce
<1>6. RunObserved(l)'
  BY <1>4 DEF RunObserved
<1> QED BY <1>5, <1>6

\* SYSIN is passed to the program remembered, which is that of the EXEC before it.
LEMMA SysinFollows ==
  ASSUME TypeInvariant, ExecRemembered, SysinsFollow, at \in 1..Len(lines),
         NEW observed \in Seq(OfThisLine), Read(observed),
         \A k \in 1..Len(observed) :
           observed[k].kind = "edge" /\ observed[k].type = "PASSES_SYSIN_TO" =>
             observed[k].dd = "SYSIN" /\ observed[k].utility = pgm /\ pgm # Absent
  PROVE  SysinsFollow'
<1>1. deck' = deck /\ out' = out \o observed
  BY ReadMoves
<1>2. /\ Emitted' = Emitted \cup {observed[k] : k \in 1..Len(observed)}
      /\ \A k \in 1..Len(observed) : observed[k].line = at
  BY <1>1, Appended
<1>3. \A l : LastProgram(l)' = LastProgram(l)
  BY <1>1, StatementsStay
<1>4. ASSUME NEW o \in Emitted', o.kind = "edge", o.type = "PASSES_SYSIN_TO"
      PROVE  o.dd = "SYSIN" /\ o.utility # Absent /\ o.utility = LastProgram(o.line)
  <2>1. CASE o \in Emitted
    BY <1>4, <2>1 DEF SysinsFollow
  <2>2. CASE o \notin Emitted
    <3>1. PICK k \in 1..Len(observed) : o = observed[k]
      BY <1>2, <2>2
    <3> QED BY <1>2, <1>4, <3>1 DEF ExecRemembered
  <2> QED BY <2>1, <2>2
<1> QED BY <1>3, <1>4 DEF SysinsFollow

-----------------------------------------------------------------------------
(* What an observation refers to *)

\* What a statement observes fits with what was declared before it or by itself.
LEMMA FittingStays ==
  ASSUME TypeInvariant, ReferencesFit, NEW observed \in Seq(OfThisLine), Read(observed),
         proc' # proc => ProcId(proc') \in {observed[k].id : k \in {j \in 1..Len(observed) : observed[j].kind = "entity"}},
         \A k \in 1..Len(observed) : Fits(observed[k], DeclaredIds)
  PROVE  ReferencesFit'
<1>0. out' = out \o observed /\ deck' = deck
  BY DEF Read
<1>1. Emitted' = Emitted \cup {observed[k] : k \in 1..Len(observed)}
  BY <1>0, Appended
<1>2. DeclaredIds \subseteq DeclaredIds'
  BY <1>1 DEF DeclaredIds
<1>3. \A o \in Emitted' : Fits(o, DeclaredIds)
  BY <1>1 DEF ReferencesFit
<1>4. \A o \in Emitted' : Fits(o, DeclaredIds')
  BY <1>2, <1>3 DEF Fits
<1>5. proc' # Absent => ProcId(proc') \in DeclaredIds'
  <2>1. CASE proc' = proc
    BY <1>2, <2>1 DEF ReferencesFit
  <2>2. CASE proc' # proc
    <3>1. PICK k \in 1..Len(observed) : observed[k].kind = "entity" /\ ProcId(proc') = observed[k].id
      BY <2>2
    <3>2. observed[k] \in Emitted'
      BY <1>1
    <3> QED BY <3>1, <3>2 DEF DeclaredIds
  <2> QED BY <2>1, <2>2
<1>6. \A o, declared : Fits(o, declared) => Fits(o, declared)'
  BY <1>0, StatementsStay DEF Fits
<1> QED BY <1>4, <1>5, <1>6 DEF ReferencesFit

\* What an EXEC observes is owned by the procedure it stands in, or by a job.
LEMMA ExecFits ==
  ASSUME TypeInvariant, StateMatchesDeck, ReferencesFit, lines[at].shape = "exec"
  PROVE  \A k \in 1..Len(ExecObs) : Fits(ExecObs[k], DeclaredIds)
<1> DEFINE made == EntityObs("JCLStep", StepId(Scope, lines[at].name), Owner, Absent, count + 1, FALSE)
           runs == EdgeObs("INVOKES", StepId(Scope, lines[at].name), ProgramId(Operand(at, "pgm")),
                           Absent, Absent)
           call(c) == EntityObs("JCLProcInvocation", InvocationId(Scope, lines[at].name), Owner,
                                ProcId(c), 0, FALSE)
           uses(c) == EdgeObs("USES_PROC", InvocationId(Scope, lines[at].name), ProcId(c), Absent, Absent)
<1>1. Owner # Absent /\ Owner[1] = "jcl-proc" => Owner \in DeclaredIds
  BY DEF Owner, ReferencesFit, ProcId, JobId
<1>2. Fits(made, DeclaredIds)
  <2>1. IsStepOf(made, at)
    BY MemoryIsMeaning DEF EntityObs, IsStepOf
  <2> QED BY <1>1, <2>1 DEF Fits, EntityObs, StepId
<1>3. Fits(runs, DeclaredIds)
  BY DEF Fits, EdgeObs, StepId
<1>4. CalleeOf(at) # Absent => Fits(call(CalleeOf(at)), DeclaredIds)
  <2>1. CalleeOf(at) # Absent => IsCallOf(call(CalleeOf(at)), at)
    BY MemoryIsMeaning DEF EntityObs, IsCallOf
  <2> QED BY <1>1, <2>1 DEF Fits, EntityObs, ProcId, InvocationId
<1>5. \A c : Fits(uses(c), DeclaredIds)
  BY DEF Fits, EdgeObs, InvocationId
<1>6. \/ ExecObs = <<made, runs>>
      \/ ExecObs = <<made>>
      \/ CalleeOf(at) # Absent /\ \E c : c = CalleeOf(at) /\ ExecObs = <<made, call(c), uses(c)>>
  BY ExecForms
<1> HIDE DEF made, runs, call, uses
<1> QED BY <1>2, <1>3, <1>4, <1>5, <1>6

\* The data set of a DD has no owner, and its uses are those of a step.
LEMMA DdFits ==
  ASSUME NEW s
  PROVE  \A k \in 1..Len(DdObs(s)) : Fits(DdObs(s)[k], DeclaredIds)
<1> DEFINE id == StepId(Scope, s)
           dd == lines[at].name
           ds == DatasetId(BaseOf[Operand(at, "dsn")])
           holds == EntityObs("Dataset", ds, Absent, Absent, 0, BaseOf[Operand(at, "dsn")] \in Symbolic)
           uses  == EdgeObs("USES_DATASET", id, ds, dd, Absent)
           sysin == EdgeObs("PASSES_SYSIN_TO", id, ds, dd, pgm)
           flag(p) == PropertyObs(id, p, dd)
<1>1. Fits(holds, DeclaredIds)
  BY DEF Fits, EntityObs, DatasetId
<1>2. Fits(uses, DeclaredIds) /\ Fits(sysin, DeclaredIds)
  BY DEF Fits, EdgeObs, StepId
<1>3. \A p : Fits(flag(p), DeclaredIds)
  BY DEF Fits, PropertyObs
<1>4. \/ DdObs(s) = <<>>
      \/ \E p : DdObs(s) = <<flag(p)>>
      \/ DdObs(s) = <<holds, uses>>
      \/ DdObs(s) = <<holds, uses, sysin>>
  BY DdForms
<1> HIDE DEF holds, uses, sysin, flag
<1> QED BY <1>1, <1>2, <1>3, <1>4

-----------------------------------------------------------------------------
(* The invariant of what is observed *)

LEMMA InitInv == Init => JclInv
<1> SUFFICES ASSUME Init PROVE JclInv
  OBVIOUS
<1>1. at = 1 /\ Emitted = {} /\ pgm = Absent /\ count = 0
  BY DEF Init, Emitted
<1>2. \A shape : Headers(shape, at) = {}
  BY <1>1 DEF Headers
<1>3. ExecRemembered
  BY <1>1, <1>2, FS_EmptySet DEF ExecRemembered, LastProgram
<1>4. StatementsObserved
  <2>1. 1..(at - 1) = {}
    BY <1>1
  <2> QED BY <2>1 DEF StatementsObserved
<1>5. SysinsFollow
  BY <1>1 DEF SysinsFollow
<1>6. ReferencesFit
  BY <1>1 DEF Init, ReferencesFit
<1> QED BY <1>3, <1>4, <1>5, <1>6, InitMemory DEF JclInv

\* A step that reads a statement keeps what is said of the statements, given what it
\* does to the memory and what it observes of its own line.
LEMMA ReadKeeps ==
  ASSUME JclInv, MemoryInv', at \in 1..Len(lines), NEW observed \in Seq(OfThisLine), Read(observed),
         pgm' = IF lines[at].shape = "exec" THEN Operand(at, "pgm") ELSE pgm,
         count' = IF lines[at].shape = "exec" THEN count + 1 ELSE count,
         \A l \in {at} : (ObservedOnce(l) /\ RunObserved(l))',
         \A k \in 1..Len(observed) :
           observed[k].kind = "edge" /\ observed[k].type = "PASSES_SYSIN_TO" =>
             observed[k].dd = "SYSIN" /\ observed[k].utility = pgm /\ pgm # Absent,
         ReferencesFit'
  PROVE  JclInv'
<1>1. TypeInvariant /\ ExecRemembered /\ StatementsObserved /\ SysinsFollow
  BY DEF JclInv, MemoryInv
<1>2. deck' = deck /\ Follows(at, at')
  BY <1>1, ReadMoves
<1>3. ExecRemembered'
  BY <1>1, <1>2, ExecFollows
<1>4. StatementsObserved'
  BY <1>1, StatementPassed
<1>5. SysinsFollow'
  BY <1>1, SysinFollows
<1> QED BY <1>3, <1>4, <1>5 DEF JclInv

\* What is said of a statement depends on the deck and the output alone.
LEMMA ObservedStays ==
  ASSUME deck' = deck, out' = out
  PROVE  /\ Emitted' = Emitted
         /\ \A l : (ObservedOnce(l) <=> ObservedOnce(l)') /\ (RunObserved(l) <=> RunObserved(l)')
<1>1. Emitted' = Emitted
  BY DEF Emitted
<1>2. \A l : StepsOf(l)' = StepsOf(l) /\ UsesOf(l)' = UsesOf(l)
  BY <1>1 DEF StepsOf, UsesOf
<1>3. \A l : ObservedOnce(l) <=> ObservedOnce(l)'
  BY <1>2, StatementsStay DEF ObservedOnce
<1>4. \A l : RunObserved(l) <=> RunObserved(l)'
  <2>1. /\ lines' = lines /\ \A l : ScopeAt(l)' = ScopeAt(l)
        /\ \A l : Operand(l, "pgm")' = Operand(l, "pgm") /\ CalleeOf(l)' = CalleeOf(l)
        /\ \A o, l : (IsStepOf(o, l) <=> IsStepOf(o, l)') /\ (IsCallOf(o, l) <=> IsCallOf(o, l)')
    BY StatementsStay
  <2> QED BY <1>1, <2>1 DEF RunObserved
<1> QED BY <1>1, <1>3, <1>4

LEMMA FitStays ==
  ASSUME ReferencesFit, UNCHANGED <<deck, out, proc>>
  PROVE  ReferencesFit'
<1>1. Emitted' = Emitted /\ DeclaredIds' = DeclaredIds
  BY DEF Emitted, DeclaredIds
<1>2. \A o, declared : Fits(o, declared) => Fits(o, declared)'
  BY StatementsStay DEF Fits
<1> QED BY <1>1, <1>2 DEF ReferencesFit

LEMMA NextInv == JclInv /\ [Next]_vars => JclInv'
<1> SUFFICES ASSUME JclInv, [Next]_vars PROVE JclInv'
  OBVIOUS
<1>0. MemoryInv'
  BY NextMemory DEF JclInv
<1>1. /\ TypeInvariant /\ StateMatchesDeck /\ ExecRemembered /\ StatementsObserved /\ SysinsFollow
      /\ ReferencesFit /\ deck \in Decks /\ at \in Nat /\ at >= 1
  BY LineNumber DEF JclInv, MemoryInv, TypeInvariant
<1>2. /\ Len(lines) \in Nat
      /\ \A l \in 1..Len(lines) : lines[l] \in Line
  BY <1>1, DeckShape
<1>3. {job, proc, step, pgm} \subseteq Names \cup {Absent}
  BY <1>1 DEF TypeInvariant
<1>4. \A l \in 1..Len(lines) : lines[l].name \in Names \cup {Absent}
                               /\ lines[l].over \in Names \cup {Absent}
  BY <1>2 DEF Line
<1>5. ASSUME at \in 1..Len(lines), lines[at].shape \notin {"exec", "dd", "override"},
             NEW o, o \in OfThisLine, o.kind # "edge", Read(<<o>>), UNCHANGED <<pgm, count>>,
             Fits(o, DeclaredIds), proc' # proc => o.kind = "entity" /\ ProcId(proc') = o.id
      PROVE  JclInv'
  <2>1. <<o>> \in Seq(OfThisLine) /\ Len(<<o>>) = 1 /\ <<o>>[1] = o
    BY <1>5
  <2>2. \A k \in 1..1 : k = 1
    OBVIOUS
  <2>3. \A l \in {at} : (ObservedOnce(l) /\ RunObserved(l))'
    <3>1. lines' = lines
      BY <1>5 DEF Read, lines
    <3> QED BY <1>5, <3>1 DEF ObservedOnce, RunObserved
  <2>4. \A k \in 1..Len(<<o>>) : <<o>>[k].kind # "edge"
    BY <1>5, <2>1, <2>2
  <2>5. ReferencesFit'
    <3>1. 1 \in 1..Len(<<o>>)
      BY <2>1
    <3>2. \A k \in 1..Len(<<o>>) : Fits(<<o>>[k], DeclaredIds)
      BY <1>5, <2>1, <2>2
    <3>3. proc' # proc => ProcId(proc') \in {<<o>>[k].id : k \in {j \in 1..Len(<<o>>) : <<o>>[j].kind = "entity"}}
      BY <1>5, <2>1, <3>1
    <3> QED BY <1>1, <1>5, <2>1, <3>2, <3>3, FittingStays
  <2> QED BY <1>0, <1>5, <2>1, <2>3, <2>4, <2>5, ReadKeeps
<1>7. CASE ReadJob
  <2>1. at \in 1..Len(lines) /\ lines[at].shape = "job" /\ UNCHANGED <<pgm, count>>
        /\ Read(<<Declared("JCLJob", JobId(lines[at].name))>>)
    BY <1>1, <1>2, <1>7 DEF ReadJob, Stands
  <2>2. JobId(lines[at].name) \in Ids
    BY <1>4, <2>1, IdTypes DEF Labels
  <2>3. Declared("JCLJob", JobId(lines[at].name)) \in OfThisLine
    BY <1>1, <2>2 DEF Declared, EntityObs, Observation, OfThisLine
  <2>4. Declared("JCLJob", JobId(lines[at].name)).kind # "edge" /\ proc' = proc
        /\ Fits(Declared("JCLJob", JobId(lines[at].name)), DeclaredIds)
    BY <1>7 DEF ReadJob, Declared, EntityObs, Fits, JobId
  <2> QED BY <1>5, <2>1, <2>3, <2>4
<1>8. CASE ReadJcllib
  <2> DEFINE owner == IF job = Absent THEN Absent ELSE JobId(job)
  <2>1. at \in 1..Len(lines) /\ lines[at].shape = "jcllib" /\ UNCHANGED <<pgm, count>>
        /\ Read(<<PropertyObs(owner, "jcllib_search_path", Absent)>>)
    BY <1>1, <1>2, <1>8 DEF ReadJcllib, Stands
  <2>2. owner \in Ids \cup {Absent} /\ Absent \in Labels
    BY <1>3, IdTypes DEF Labels
  <2> HIDE DEF owner
  <2>3. PropertyObs(owner, "jcllib_search_path", Absent) \in OfThisLine
    BY <1>1, <2>2 DEF PropertyObs, Observation, OfThisLine
  <2>4. PropertyObs(owner, "jcllib_search_path", Absent).kind # "edge" /\ proc' = proc
        /\ Fits(PropertyObs(owner, "jcllib_search_path", Absent), DeclaredIds)
    BY <1>8 DEF ReadJcllib, PropertyObs, Fits
  <2> QED BY <1>5, <2>1, <2>3, <2>4
<1>9. CASE ReadProc
  <2>1. at \in 1..Len(lines) /\ lines[at].shape = "proc" /\ UNCHANGED <<pgm, count>>
        /\ Read(<<Declared("JCLProc", ProcId(lines[at].name))>>)
    BY <1>1, <1>2, <1>9 DEF ReadProc, Stands
  <2>2. ProcId(lines[at].name) \in Ids
    BY <1>4, <2>1, IdTypes DEF Labels
  <2>3. Declared("JCLProc", ProcId(lines[at].name)) \in OfThisLine
    BY <1>1, <2>2 DEF Declared, EntityObs, Observation, OfThisLine
  <2>4. /\ Declared("JCLProc", ProcId(lines[at].name)).kind = "entity"
        /\ ProcId(proc') = Declared("JCLProc", ProcId(lines[at].name)).id
        /\ Fits(Declared("JCLProc", ProcId(lines[at].name)), DeclaredIds)
    BY <1>9 DEF ReadProc, Declared, EntityObs, Fits, ProcId
  <2> QED BY <1>5, <2>1, <2>3, <2>4
<1>10. CASE ReadExec
  <2>1. /\ at \in 1..Len(lines) /\ lines[at].shape = "exec" /\ Read(ExecObs)
        /\ pgm' = Operand(at, "pgm") /\ count' = count + 1
    BY <1>1, <1>2, <1>10 DEF ReadExec, Stands
  <2>2. ExecObs \in Seq(OfThisLine)
    BY <1>1, <2>1, ExecObserved
  <2>3. \A l \in {at} : (ObservedOnce(l) /\ RunObserved(l))'
    BY <1>1, <2>1, ExecIsObserved
  <2>4. \A k \in 1..Len(ExecObs) : ExecObs[k].kind = "edge" => ExecObs[k].type # "PASSES_SYSIN_TO"
    BY ExecContents
  <2>5. ReferencesFit'
    BY <1>1, <1>10, <2>1, <2>2, ExecFits, FittingStays DEF ReadExec
  <2> QED BY <1>0, <2>1, <2>2, <2>3, <2>4, <2>5, ReadKeeps
<1>11. ASSUME at \in 1..Len(lines), lines[at].shape \in {"dd", "override"},
              NEW s \in Labels, Read(DdObs(s)), UNCHANGED <<pgm, count, proc>>
       PROVE  JclInv'
  <2>1. DdObs(s) \in Seq(OfThisLine)
    <3>1. DdObs(s) \in Seq(ChargedTo(StepId(Scope, s)))
      BY <1>1, <1>11, DdObserved
    <3>2. ChargedTo(StepId(Scope, s)) \subseteq OfThisLine
      BY DEF ChargedTo
    <3> QED BY <3>1, <3>2, SeqMonotonic
  <2>2. \A l \in {at} : (ObservedOnce(l) /\ RunObserved(l))'
    BY <1>1, <1>11, DdIsObserved
  <2>3. \A k \in 1..Len(DdObs(s)) :
          DdObs(s)[k].kind = "edge" /\ DdObs(s)[k].type = "PASSES_SYSIN_TO" =>
            DdObs(s)[k].dd = "SYSIN" /\ DdObs(s)[k].utility = pgm /\ pgm # Absent
    BY DdContents
  <2>4. ReferencesFit'
    BY <1>1, <1>11, <2>1, DdFits, FittingStays
  <2> QED BY <1>0, <1>11, <2>1, <2>2, <2>3, <2>4, ReadKeeps
<1>12. CASE ReadDd
  <2>1. /\ at \in 1..Len(lines) /\ lines[at].shape = "dd" /\ Read(DdObs(StepName))
        /\ UNCHANGED <<pgm, count, proc>>
    BY <1>1, <1>2, <1>12 DEF ReadDd, Stands
  <2>2. StepName \in Labels
    BY <1>1, Labelling
  <2> QED BY <1>11, <2>1, <2>2
<1>13. CASE ReadOverride
  <2>1. /\ at \in 1..Len(lines) /\ lines[at].shape = "override" /\ Read(DdObs(lines[at].over))
        /\ UNCHANGED <<pgm, count, proc>>
    BY <1>1, <1>2, <1>13 DEF ReadOverride, Stands
  <2>2. lines[at].over \in Labels
    BY <1>4, <2>1 DEF Labels
  <2> QED BY <1>11, <2>1, <2>2
<1>14. CASE SkipLine
  <2>1. /\ at \in 1..Len(lines) /\ Ignored(at) /\ at' = at + 1
        /\ UNCHANGED <<deck, job, proc, step, pgm, count, out>>
    BY <1>1, <1>2, <1>14 DEF SkipLine
  <2>2. Follows(at, at') /\ lines[at].shape \notin {"exec", "dd", "override"}
    BY <1>2, <2>1 DEF Follows, Ignored
  <2>3. ExecRemembered'
    BY <1>1, <2>1, <2>2, ExecFollows
  <2>4. StatementsObserved'
    <3>1. ObservedOnce(at) /\ RunObserved(at)
      BY <2>2, NothingToObserve
    <3>2. \A l \in 1..(at' - 1) : l \in 1..(at - 1) \/ l = at
      BY <1>1, <2>1
    <3>3. \A l \in 1..(at' - 1) : ObservedOnce(l) /\ RunObserved(l)
      BY <1>1, <3>1, <3>2 DEF StatementsObserved
    <3>4. \A l : (ObservedOnce(l) <=> ObservedOnce(l)') /\ (RunObserved(l) <=> RunObserved(l)')
      BY <2>1, ObservedStays
    <3> QED BY <3>3, <3>4 DEF StatementsObserved
  <2>5. SysinsFollow'
    BY <1>1, <2>1, ObservedStays, StatementsStay DEF SysinsFollow
  <2>6. ReferencesFit'
    BY <1>1, <2>1, FitStays
  <2> QED BY <1>0, <2>3, <2>4, <2>5, <2>6 DEF JclInv
<1>15. CASE UNCHANGED vars
  <2>1. deck' = deck /\ UNCHANGED <<at, job, proc, step, pgm, count, out>>
    BY <1>15 DEF vars
  <2>2. ExecRemembered'
    BY <1>1, <2>1, StatementsStay DEF ExecRemembered, LastProgram
  <2>3. StatementsObserved'
    BY <1>1, <2>1, ObservedStays DEF StatementsObserved
  <2>4. SysinsFollow'
    BY <1>1, <2>1, ObservedStays, StatementsStay DEF SysinsFollow
  <2>5. ReferencesFit'
    BY <1>1, <2>1, FitStays
  <2> QED BY <1>0, <2>2, <2>3, <2>4, <2>5 DEF JclInv
<1> QED BY <1>7, <1>8, <1>9, <1>10, <1>12, <1>13, <1>14, <1>15 DEF Next

\* The invariant of the JCL extractor holds in every state of every file: what it
\* remembers is what the lines before say, every statement passed was observed, and
\* SYSIN went to the program of the EXEC before it.
THEOREM InvariantHolds == Spec => []JclInv
<1> QED BY InitInv, NextInv, PTL DEF Spec

LEMMA InvObserved == JclInv => EveryStatementObserved
<1> SUFFICES ASSUME JclInv, Finished, NEW l \in 1..Len(lines)
             PROVE  ObservedOnce(l)
  BY DEF EveryStatementObserved
<1>1. at \in Nat /\ Len(lines) \in Nat
  BY LineNumber, DeckShape DEF JclInv, MemoryInv, TypeInvariant
<1>2. l \in 1..(at - 1)
  BY <1>1 DEF Finished
<1> QED BY <1>2 DEF JclInv, StatementsObserved

\* RUL-JCL-002, RUL-JCL-004: at the end of the file every EXEC has its one step with
\* its number, and every DD with a data set its one allocation.
THEOREM NothingIsLost == Spec => []EveryStatementObserved
BY InvObserved, InvariantHolds, PTL

\* The scope of a line is that of the last EXEC before it, if its job or procedure has one.
LEMMA ScopeOfLastExec ==
  ASSUME NEW l \in Nat, ExecsInScope(l) # {}
  PROVE  ScopeAt(Greatest(Headers("exec", l))) = ScopeAt(l)
<1> DEFINE e == Greatest(Headers("exec", l))
<1>1. e \in 1..(l - 1) /\ \A j \in Opening(l) : j < e
  BY LastExecInScope, HeadersBounded
<1>2. /\ \A j : j \in ProcsBefore(l) => j \in 1..(l - 1)
      /\ \A j : j \in JobsBefore(l) => j \in 1..(l - 1)
      /\ \A j : j \in ProcsBefore(e) <=> j \in ProcsBefore(l) /\ j \in 1..(e - 1)
      /\ \A j : j \in JobsBefore(e) <=> j \in JobsBefore(l) /\ j \in 1..(e - 1)
  <2> HIDE DEF e
  <2> QED BY <1>1 DEF ProcsBefore, JobsBefore, Headers
<1> HIDE DEF e
<1>3. ASSUME ProcsBefore(l) # {}
      PROVE  ScopeAt(e) = ScopeAt(l)
  <2>1. ProcsBefore(l) \in SUBSET Nat
    BY <1>2
  <2>2. /\ Least(ProcsBefore(l)) \in ProcsBefore(l)
        /\ \A j \in ProcsBefore(l) : Least(ProcsBefore(l)) <= j
    BY <1>3, <2>1, LeastExists
  <2>3. Least(ProcsBefore(l)) \in ProcsBefore(e)
    <3>1. Least(ProcsBefore(l)) < e
      BY <1>1, <1>3 DEF Opening
    <3>2. Least(ProcsBefore(l)) \in 1..(l - 1)
      BY <1>2, <2>2
    <3>3. Least(ProcsBefore(l)) \in 1..(e - 1)
      BY <1>1, <3>1, <3>2
    <3> QED BY <1>2, <2>2, <3>3
  <2>4. Least(ProcsBefore(e)) = Least(ProcsBefore(l))
    <3>1. ProcsBefore(e) \in SUBSET Nat /\ ProcsBefore(e) \subseteq ProcsBefore(l)
      BY <1>2
    <3>2. /\ Least(ProcsBefore(e)) \in ProcsBefore(e)
          /\ \A j \in ProcsBefore(e) : Least(ProcsBefore(e)) <= j
      BY <2>3, <3>1, LeastExists
    <3>3. /\ Least(ProcsBefore(e)) <= Least(ProcsBefore(l))
          /\ Least(ProcsBefore(l)) <= Least(ProcsBefore(e))
          /\ Least(ProcsBefore(e)) \in Nat /\ Least(ProcsBefore(l)) \in Nat
      BY <2>1, <2>2, <2>3, <3>1, <3>2
    <3> QED BY <3>3
  <2> QED BY <1>3, <2>3, <2>4 DEF ScopeAt
<1>4. ASSUME ProcsBefore(l) = {}
      PROVE  ScopeAt(e) = ScopeAt(l)
  <2>1. ProcsBefore(e) = {}
    BY <1>2, <1>4
  <2>2. JobsBefore(e) = JobsBefore(l)
    <3>1. \A j \in JobsBefore(l) : j < e
      BY <1>1, <1>4 DEF Opening
    <3>2. \A j \in JobsBefore(l) : j \in 1..(e - 1)
      BY <1>1, <1>2, <3>1
    <3> QED BY <1>2, <3>2
  <2> QED BY <1>4, <2>1, <2>2 DEF ScopeAt
<1> QED BY <1>3, <1>4 DEF e

LEMMA InvSysin == JclInv => SysinNamesTheProgram
<1> SUFFICES ASSUME JclInv, NEW o \in Emitted, o.kind = "edge", o.type = "PASSES_SYSIN_TO"
             PROVE  LET e == Greatest(Headers("exec", o.line)) IN
                      /\ o.dd = "SYSIN"
                      /\ \E i \in Emitted :
                           /\ i.kind = "edge" /\ i.type = "INVOKES" /\ i.line = e
                           /\ i.to = ProgramId(o.utility)
                           /\ FromDd(o) /\ ExecsInScope(o.line) # {} => i.from = o.from
  BY DEF SysinNamesTheProgram
<1> DEFINE l == o.line
           e == Greatest(Headers("exec", l))
<1>1. /\ o.dd = "SYSIN" /\ o.utility # Absent /\ o.utility = LastProgram(l)
  BY DEF JclInv, SysinsFollow
<1>2. at \in Nat /\ l \in 1..(at - 1) /\ l \in Nat
  BY LineNumber DEF JclInv, MemoryInv, TypeInvariant
<1>3. Headers("exec", l) # {} /\ o.utility = Operand(e, "pgm")
  BY <1>1 DEF LastProgram
<1>4. e \in Headers("exec", l)
  <2>1. Headers("exec", l) \in SUBSET (1..l)
    BY <1>2, HeadersBounded
  <2> QED BY <1>2, <1>3, <2>1, GreatestExists
<1>5. e \in 1..(at - 1) /\ lines[e].shape = "exec"
  BY <1>2, <1>4 DEF Headers
<1>6. PICK i \in Emitted : /\ i.kind = "edge" /\ i.type = "INVOKES" /\ i.line = e
                           /\ i.to = ProgramId(Operand(e, "pgm"))
                           /\ i.from = StepId(ScopeAt(e), lines[e].name)
  <2> HIDE DEF e
  <2>1. RunObserved(e)
    BY <1>5 DEF JclInv, StatementsObserved
  <2> QED BY <1>1, <1>3, <1>5, <2>1 DEF RunObserved
<1>7. ASSUME FromDd(o), ExecsInScope(l) # {}
      PROVE  i.from = o.from
  <2>1. o.from = StepId(ScopeAt(l), lines[Greatest(ExecsInScope(l))].name)
    BY <1>7, ChargesAreRight DEF JclInv, DdsFollowTheirStep, Charged
  <2>2. e = Greatest(ExecsInScope(l)) /\ ScopeAt(e) = ScopeAt(l)
    BY <1>2, <1>7, LastExecInScope, ScopeOfLastExec
  <2> QED BY <1>6, <2>1, <2>2
<1> QED BY <1>1, <1>3, <1>6, <1>7

\* RUL-JCL-010: SYSIN goes to the program of the last EXEC, by that EXEC's own step.
THEOREM SysinGoesToItsProgram == Spec => []SysinNamesTheProgram
BY InvSysin, InvariantHolds, PTL

-----------------------------------------------------------------------------
(* The files of a corpus *)

\* What the prefix of an id says of its type
LEMMA PrefixTypes ==
  /\ \A p \in IdPrefixes : TypeOfPrefix[p] \in R!EntityTypes
  /\ TypeOfPrefix["jcl-job"] = "JCLJob"
  /\ TypeOfPrefix["jcl-proc"] = "JCLProc"
  /\ TypeOfPrefix["dataset"] = "Dataset"
  /\ \A p \in IdPrefixes : TypeOfPrefix[p] = "JCLProc" => p = "jcl-proc"
  /\ \A p \in IdPrefixes : TypeOfPrefix[p] = "Program" => p = "program"
  /\ \A p \in IdPrefixes : TypeOfPrefix[p] = "LogicalFile" => p = "logical-file"
<1>1. \A p \in IdPrefixes :
        /\ p = "jcl-job" => TypeOfPrefix[p] = "JCLJob"
        /\ p = "jcl-proc" => TypeOfPrefix[p] = "JCLProc"
        /\ p = "jcl-step" => TypeOfPrefix[p] = "JCLStep"
        /\ p = "jcl-proc-inv" => TypeOfPrefix[p] = "JCLProcInvocation"
        /\ p = "program" => TypeOfPrefix[p] = "Program"
        /\ p = "dataset" => TypeOfPrefix[p] = "Dataset"
        /\ p = "transaction" => TypeOfPrefix[p] = "CICSTransaction"
        /\ p = "bms-mapset" => TypeOfPrefix[p] = "BMSMapset"
        /\ p = "logical-file" => TypeOfPrefix[p] = "LogicalFile"
  BY DEF TypeOfPrefix
<1> QED BY <1>1 DEF IdPrefixes, R!EntityTypes

-----------------------------------------------------------------------------
(* Sequences made of sequences *)

\* The recursion of FlattenSeq has a solution.
LEMMA FlatteningExists ==
  ASSUME NEW S, NEW ss \in Seq(Seq(S))
  PROVE  \A m \in 1..Len(ss) :
           \E f : f = [i \in 1..m |-> IF i = 1 THEN ss[i] ELSE f[i - 1] \o ss[i]]
<1> DEFINE Solves(f, m) == f = [i \in 1..m |-> IF i = 1 THEN ss[i] ELSE f[i - 1] \o ss[i]]
           bad == {m \in 1..Len(ss) : ~\E f : Solves(f, m)}
<1> SUFFICES ASSUME bad # {} PROVE FALSE
  OBVIOUS
<1>1. Len(ss) \in Nat /\ bad \in SUBSET Nat
  <2>1. Len(ss) \in Nat
    BY LenProperties
  <2>2. bad \subseteq 1..Len(ss)
    OBVIOUS
  <2> HIDE DEF bad
  <2> QED BY <2>1, <2>2
<1> DEFINE m == Least(bad)
<1>2. m \in bad /\ \A k \in bad : m <= k
  BY <1>1, LeastExists
<1> HIDE DEF m
<1>3. m \in 1..Len(ss) /\ ~\E f : Solves(f, m)
  BY <1>2
<1>4. CASE m = 1
  <2> DEFINE f == [i \in 1..1 |-> ss[i]]
  <2>1. \A i \in 1..1 : i = 1
    OBVIOUS
  <2>2. f = [i \in 1..1 |-> IF i = 1 THEN ss[i] ELSE f[i - 1] \o ss[i]]
    BY <2>1
  <2>3. Solves(f, m)
    BY <1>4, <2>2
  <2> QED BY <1>3, <2>3
<1>5. CASE m # 1
  <2>1. m - 1 \in 1..Len(ss) /\ m \in Nat /\ ~(m <= m - 1)
    BY <1>1, <1>3, <1>5
  <2>2. PICK f : Solves(f, m - 1)
    BY <1>2, <2>1
  <2> DEFINE g == [i \in 1..m |-> IF i = m THEN f[m - 1] \o ss[m] ELSE f[i]]
  <2>3. ASSUME NEW i \in 1..m
        PROVE  g[i] = IF i = 1 THEN ss[i] ELSE g[i - 1] \o ss[i]
    <3>1. CASE i = m
      <4>1. m - 1 \in 1..m /\ m - 1 # m
        BY <2>1
      <4>2. g[m - 1] = f[m - 1]
        BY <4>1
      <4> QED BY <1>5, <3>1, <4>2
    <3>2. CASE i # m /\ i = 1
      <4>1. i \in 1..(m - 1)
        BY <2>1, <3>2
      <4> QED BY <2>2, <3>2, <4>1
    <3>3. CASE i # m /\ i # 1
      <4>1. i \in 1..(m - 1) /\ i - 1 \in 1..m /\ i - 1 # m
        BY <2>1, <3>3
      <4>2. f[i] = f[i - 1] \o ss[i]
        BY <2>2, <3>3, <4>1
      <4> QED BY <3>3, <4>1, <4>2
    <3> QED BY <3>1, <3>2, <3>3
  <2>4. Solves(g, m)
    <3>1. g = [i \in 1..m |-> g[i]]
      OBVIOUS
    <3> HIDE DEF g
    <3>2. [i \in 1..m |-> g[i]] = [i \in 1..m |-> IF i = 1 THEN ss[i] ELSE g[i - 1] \o ss[i]]
      BY <2>3
    <3> QED BY <3>1, <3>2
  <2> QED BY <1>3, <2>4
<1> QED BY <1>4, <1>5

LEMMA FlatteningSolves ==
  ASSUME NEW S, NEW ss \in Seq(Seq(S)), Len(ss) # 0
  PROVE  \E f : /\ f = [i \in 1..Len(ss) |-> IF i = 1 THEN ss[i] ELSE f[i - 1] \o ss[i]]
                /\ FlattenSeq(ss) = f[Len(ss)]
<1>1. Len(ss) \in 1..Len(ss)
  BY LenProperties
<1>2. \E f : f = [i \in 1..Len(ss) |-> IF i = 1 THEN ss[i] ELSE f[i - 1] \o ss[i]]
  BY <1>1, FlatteningExists
<1> DEFINE f == CHOOSE f : f = [i \in 1..Len(ss) |-> IF i = 1 THEN ss[i] ELSE f[i - 1] \o ss[i]]
<1>3. f = [i \in 1..Len(ss) |-> IF i = 1 THEN ss[i] ELSE f[i - 1] \o ss[i]]
  BY <1>2
<1>4. FlattenSeq(ss) = f[Len(ss)]
  BY DEF FlattenSeq
<1> QED BY <1>3, <1>4

\* A sequence over S with the members of the sequences ss, and no others
MadeOf(flat, ss, S) ==
  /\ flat \in Seq(S)
  /\ \A k \in 1..Len(flat) : \E i \in 1..Len(ss) : \E j \in 1..Len(ss[i]) : flat[k] = ss[i][j]
  /\ \A i \in 1..Len(ss) : \A j \in 1..Len(ss[i]) : \E k \in 1..Len(flat) : flat[k] = ss[i][j]

\* FlattenSeq makes one.
LEMMA Flattened ==
  ASSUME NEW S, NEW ss \in Seq(Seq(S))
  PROVE  MadeOf(FlattenSeq(ss), ss, S)
<1> SUFFICES /\ FlattenSeq(ss) \in Seq(S)
             /\ \A k \in 1..Len(FlattenSeq(ss)) :
                  \E i \in 1..Len(ss) : \E j \in 1..Len(ss[i]) : FlattenSeq(ss)[k] = ss[i][j]
             /\ \A i \in 1..Len(ss) : \A j \in 1..Len(ss[i]) :
                  \E k \in 1..Len(FlattenSeq(ss)) : FlattenSeq(ss)[k] = ss[i][j]
  BY DEF MadeOf
<1>1. Len(ss) \in Nat /\ \A i \in 1..Len(ss) : ss[i] \in Seq(S)
  BY LenProperties, ElementOfSeq
<1>2. CASE Len(ss) = 0
  <2>1. ss = <<>>
    BY <1>2, EmptySeq
  <2>2. FlattenSeq(ss) = <<>>
    BY <1>2, <2>1 DEF FlattenSeq
  <2>3. Len(<<>>) = 0 /\ <<>> \in Seq(S) /\ 1..0 = {}
    OBVIOUS
  <2>4. 1..Len(ss) = {} /\ 1..Len(FlattenSeq(ss)) = {}
    BY <1>2, <2>2, <2>3
  <2> QED BY <2>2, <2>3, <2>4
<1>3. CASE Len(ss) # 0
  <2>1. PICK f : /\ f = [i \in 1..Len(ss) |-> IF i = 1 THEN ss[i] ELSE f[i - 1] \o ss[i]]
                 /\ FlattenSeq(ss) = f[Len(ss)]
    BY <1>3, FlatteningSolves
  <2>2. \A i \in 1..Len(ss) : f[i] = IF i = 1 THEN ss[i] ELSE f[i - 1] \o ss[i]
    BY <2>1
  <2> DEFINE Holds(m) ==
        /\ f[m] \in Seq(S)
        /\ \A k \in 1..Len(f[m]) :
             \E i \in 1..m : \E j \in 1..Len(ss[i]) : f[m][k] = ss[i][j]
        /\ \A i \in 1..m : \A j \in 1..Len(ss[i]) : \E k \in 1..Len(f[m]) : f[m][k] = ss[i][j]
  <2>3. Holds(1)
    <3>1. 1 \in 1..Len(ss) /\ f[1] = ss[1]
      BY <1>1, <1>3, <2>2
    <3>2. 1 \in 1..1 /\ \A i \in 1..1 : i = 1
      OBVIOUS
    <3> QED BY <1>1, <3>1, <3>2
  <2>4. ASSUME NEW m \in 1..Len(ss), m # 1, Holds(m - 1)
        PROVE  Holds(m)
    <3>1. m - 1 \in 1..Len(ss) /\ m \in 1..m /\ \A i \in 1..m : i \in 1..(m - 1) \/ i = m
      BY <1>1, <2>4
    <3>2. \A i \in 1..(m - 1) : i \in 1..m
      BY <1>1
    <3>3. f[m] = f[m - 1] \o ss[m] /\ f[m - 1] \in Seq(S) /\ ss[m] \in Seq(S)
      BY <1>1, <2>2, <2>4
    <3> DEFINE a == f[m - 1]
               b == ss[m]
    <3>4. /\ a \o b \in Seq(S) /\ Len(a) \in Nat /\ Len(b) \in Nat /\ Len(a \o b) = Len(a) + Len(b)
          /\ \A k \in 1..(Len(a) + Len(b)) :
               (a \o b)[k] = IF k <= Len(a) THEN a[k] ELSE b[k - Len(a)]
      BY <3>3, ConcatProperties, LenProperties
    <3> HIDE DEF a, b
    <3>5. ASSUME NEW k \in 1..Len(a \o b)
          PROVE  \/ k \in 1..Len(a) /\ (a \o b)[k] = a[k]
                 \/ k - Len(a) \in 1..Len(b) /\ (a \o b)[k] = b[k - Len(a)]
      BY <3>4
    <3>6. \A k \in 1..Len(a) : k \in 1..Len(a \o b) /\ (a \o b)[k] = a[k]
      BY <3>4
    <3>7. ASSUME NEW k \in 1..Len(b)
          PROVE  Len(a) + k \in 1..Len(a \o b) /\ (a \o b)[Len(a) + k] = b[k]
      <4>1. /\ Len(a) + k \in 1..(Len(a) + Len(b)) /\ ~(Len(a) + k <= Len(a))
            /\ (Len(a) + k) - Len(a) = k
        BY <3>4
      <4> QED BY <3>4, <4>1
    <3>8. f[m] = a \o b
      BY <3>3 DEF a, b
    <3>9. ASSUME NEW k \in 1..Len(f[m])
          PROVE  \E i \in 1..m : \E j \in 1..Len(ss[i]) : f[m][k] = ss[i][j]
      <4>1. CASE k \in 1..Len(a) /\ f[m][k] = a[k]
        <5>1. \E i \in 1..(m - 1) : \E j \in 1..Len(ss[i]) : a[k] = ss[i][j]
          BY <2>4, <4>1 DEF a
        <5> QED BY <3>2, <4>1, <5>1
      <4>2. CASE k - Len(a) \in 1..Len(b) /\ f[m][k] = b[k - Len(a)]
        BY <3>1, <4>2 DEF b
      <4> QED BY <3>5, <3>8, <4>1, <4>2
    <3>10. ASSUME NEW i \in 1..m, NEW j \in 1..Len(ss[i])
           PROVE  \E k \in 1..Len(f[m]) : f[m][k] = ss[i][j]
      <4>1. CASE i \in 1..(m - 1)
        <5>1. PICK k \in 1..Len(a) : a[k] = ss[i][j]
          BY <2>4, <4>1 DEF a
        <5> QED BY <3>6, <3>8, <5>1
      <4>2. CASE i = m
        <5>1. j \in 1..Len(b) /\ b[j] = ss[i][j]
          BY <4>2 DEF b
        <5> QED BY <3>7, <3>8, <5>1
      <4> QED BY <3>1, <4>1, <4>2
    <3> QED BY <3>4, <3>8, <3>9, <3>10
  <2> DEFINE bad == {m \in 1..Len(ss) : ~Holds(m)}
             least == Least(bad)
  <2>5. bad = {}
    <3> SUFFICES ASSUME bad # {} PROVE FALSE
      OBVIOUS
    <3>1. \A m \in bad : m \in 1..Len(ss)
      OBVIOUS
    <3> HIDE DEF Holds
    <3>2. bad \in SUBSET Nat
      BY <1>1, <3>1
    <3>3. least \in bad /\ \A k \in bad : least <= k
      BY <3>2, LeastExists
    <3> HIDE DEF least
    <3>4. least # 1
      BY <2>3, <3>3
    <3>5. least - 1 \in 1..Len(ss) /\ ~(least <= least - 1)
      BY <1>1, <3>1, <3>3, <3>4
    <3>6. Holds(least - 1)
      BY <3>3, <3>5
    <3> QED BY <2>4, <3>1, <3>3, <3>4, <3>6
  <2>6. Holds(Len(ss))
    <3>1. Len(ss) \in 1..Len(ss)
      BY <1>1, <1>3
    <3> HIDE DEF Holds
    <3> QED BY <2>5, <3>1
  <2> DEFINE flat == f[Len(ss)]
  <2>7. /\ flat \in Seq(S)
        /\ \A k \in 1..Len(flat) : \E i \in 1..Len(ss) : \E j \in 1..Len(ss[i]) : flat[k] = ss[i][j]
        /\ \A i \in 1..Len(ss) : \A j \in 1..Len(ss[i]) : \E k \in 1..Len(flat) : flat[k] = ss[i][j]
    BY <2>6
  <2>8. FlattenSeq(ss) = flat
    BY <2>1
  <2> HIDE DEF flat
  <2> QED BY <2>7, <2>8
<1> QED BY <1>2, <1>3

\* SetToSeq has the members of the finite set it is given.
LEMMA Sequenced ==
  ASSUME NEW S, IsFiniteSet(S)
  PROVE  /\ SetToSeq(S) \in Seq(S)
         /\ \A k \in 1..Len(SetToSeq(S)) : SetToSeq(S)[k] \in S
         /\ \A x \in S : \E k \in 1..Len(SetToSeq(S)) : SetToSeq(S)[k] = x
<1> DEFINE n == Cardinality(S)
           f == SetToSeq(S)
<1>1. n \in Nat /\ ExistsBijection(1..n, S)
  BY FS_CardinalityType
<1>2. \E g \in [1..n -> S] : IsInjective(g)
  BY <1>1 DEF ExistsBijection, Bijection, Injection
<1>3. f \in [1..n -> S] /\ IsInjective(f)
  BY <1>2 DEF SetToSeq
<1>4. f \in Injection(1..n, S)
  BY <1>3 DEF Injection
<1>5. IsFiniteSet(1..n) /\ Cardinality(1..n) = n
  BY <1>1, FS_Interval
<1>6. f \in Surjection(1..n, S)
  BY <1>4, <1>5, FS_Injection
<1> HIDE DEF f
<1>7. \A x \in S : \E k \in 1..n : f[k] = x
  BY <1>6 DEF Surjection
<1>8. f \in Seq(S) /\ Len(f) = n
  BY <1>1, <1>3
<1> QED BY <1>3, <1>7, <1>8 DEF f

-----------------------------------------------------------------------------
(* The contract, observation by observation *)

Members(s) == {s[k] : k \in 1..Len(s)}

\* What the contract asks of one observation among others
Kept(o, others) ==
  /\ o.kind = "entity" =>
       /\ TypeOfId[o.id] \in R!EntityTypes
       /\ o.invoked # Absent => TypeOfId[o.invoked] = "JCLProc"
       /\ (o.owner # Absent /\ TypeOfId[o.owner] = "JCLProc") =>
            \E d \in others : d.kind = "entity" /\ d.id = o.owner /\ d.path = o.path
  /\ o.kind = "edge" =>
       /\ o.type \notin {"BINDS_TO", "EXPANDS_TO"}
       /\ TypeOfId[o.from] \in R!EntityTypes
       /\ IF o.dynamic THEN TypeOfId[o.to] = "Unresolved" ELSE TypeOfId[o.to] \in R!EntityTypes
       /\ o.cics => TypeOfId[o.to] = "LogicalFile"
       /\ TypeOfId[o.from] = "Program" => TypeOfId[o.to] # "Dataset"
  /\ o.kind = "csd" =>
       /\ TypeOfId[o.dataset] = "Dataset"
       /\ \E d \in others : d.kind = "entity" /\ d.id = o.dataset

KeptAll(others) == \A o \in others : o \in R!Obs /\ Kept(o, others)

LEMMA ContractOfMembers ==
  ASSUME NEW s \in Seq(R!Obs)
  PROVE  R!ExtractorContract(s) <=> KeptAll(Members(s))
<1> DEFINE Owned(k) == (s[k].owner # Absent /\ TypeOfId[s[k].owner] = "JCLProc") =>
                         \E j \in 1..Len(s) :
                           s[j].kind = "entity" /\ s[j].id = s[k].owner /\ s[j].path = s[k].path
           Bound(k) == \E j \in 1..Len(s) : s[j].kind = "entity" /\ s[j].id = s[k].dataset
           Rest(o) ==
             /\ o.kind = "entity" =>
                  /\ TypeOfId[o.id] \in R!EntityTypes
                  /\ o.invoked # Absent => TypeOfId[o.invoked] = "JCLProc"
             /\ o.kind = "edge" =>
                  /\ o.type \notin {"BINDS_TO", "EXPANDS_TO"}
                  /\ TypeOfId[o.from] \in R!EntityTypes
                  /\ IF o.dynamic THEN TypeOfId[o.to] = "Unresolved" ELSE TypeOfId[o.to] \in R!EntityTypes
                  /\ o.cics => TypeOfId[o.to] = "LogicalFile"
                  /\ TypeOfId[o.from] = "Program" => TypeOfId[o.to] # "Dataset"
             /\ o.kind = "csd" => TypeOfId[o.dataset] = "Dataset"
<1>1. R!ExtractorContract(s) <=>
        \A k \in 1..Len(s) : Rest(s[k]) /\ (s[k].kind = "entity" => Owned(k)) /\ (s[k].kind = "csd" => Bound(k))
  BY DEF R!ExtractorContract
<1>2. \A k \in 1..Len(s) :
        Kept(s[k], Members(s)) <=>
          Rest(s[k]) /\ (s[k].kind = "entity" => Owned(k)) /\ (s[k].kind = "csd" => Bound(k))
  <2> SUFFICES ASSUME NEW k \in 1..Len(s)
               PROVE  Kept(s[k], Members(s)) <=>
                        Rest(s[k]) /\ (s[k].kind = "entity" => Owned(k)) /\ (s[k].kind = "csd" => Bound(k))
    OBVIOUS
  <2>1. (\E d \in Members(s) : d.kind = "entity" /\ d.id = s[k].owner /\ d.path = s[k].path)
          <=> \E j \in 1..Len(s) :
                s[j].kind = "entity" /\ s[j].id = s[k].owner /\ s[j].path = s[k].path
    BY DEF Members
  <2>2. (\E d \in Members(s) : d.kind = "entity" /\ d.id = s[k].dataset) <=> Bound(k)
    BY DEF Members
  <2> QED BY <2>1, <2>2 DEF Kept
<1>3. \A k \in 1..Len(s) : s[k] \in R!Obs
  BY ElementOfSeq
<1>4. KeptAll(Members(s)) <=> \A k \in 1..Len(s) : s[k] \in R!Obs /\ Kept(s[k], Members(s))
  BY DEF KeptAll, Members
<1> HIDE DEF Owned, Bound, Rest
<1> QED BY <1>1, <1>2, <1>3, <1>4

\* More observations do no harm.
LEMMA KeptTogether ==
  ASSUME NEW S, NEW T, KeptAll(S), KeptAll(T)
  PROVE  KeptAll(S \cup T)
<1>1. ASSUME NEW o, NEW P, P \subseteq S \cup T, Kept(o, P)
      PROVE  Kept(o, S \cup T)
  BY <1>1 DEF Kept
<1> QED BY <1>1 DEF KeptAll

\* The same in terms of Members
HasMembersOf(flat, ss, S) ==
  /\ flat \in Seq(S)
  /\ \A x \in Members(flat) : \E i \in 1..Len(ss) : \E j \in 1..Len(ss[i]) : x = ss[i][j]
  /\ \A i \in 1..Len(ss) : \A j \in 1..Len(ss[i]) : ss[i][j] \in Members(flat)

LEMMA FlattenedMembers ==
  ASSUME NEW S, NEW ss \in Seq(Seq(S)), NEW flat, flat = FlattenSeq(ss)
  PROVE  HasMembersOf(flat, ss, S)
<1>1. MadeOf(flat, ss, S)
  BY Flattened
<1>2. ASSUME NEW x \in Members(flat)
      PROVE  \E i \in 1..Len(ss) : \E j \in 1..Len(ss[i]) : x = ss[i][j]
  <2>1. PICK n \in 1..Len(flat) : x = flat[n]
    BY DEF Members
  <2> QED BY <1>1, <2>1 DEF MadeOf
<1>3. ASSUME NEW i \in 1..Len(ss), NEW j \in 1..Len(ss[i])
      PROVE  ss[i][j] \in Members(flat)
  <2>1. PICK n \in 1..Len(flat) : flat[n] = ss[i][j]
    BY <1>1 DEF MadeOf
  <2> QED BY <2>1 DEF Members
<1> QED BY <1>1, <1>2, <1>3 DEF MadeOf, HasMembersOf

LEMMA SequencedMembers ==
  ASSUME NEW S, IsFiniteSet(S)
  PROVE  SetToSeq(S) \in Seq(S) /\ Members(SetToSeq(S)) = S
<1> DEFINE q == SetToSeq(S)
<1>1. /\ q \in Seq(S) /\ \A k \in 1..Len(q) : q[k] \in S
      /\ \A x \in S : \E k \in 1..Len(q) : q[k] = x
  BY Sequenced
<1> HIDE DEF q
<1>2. Members(q) = S
  BY <1>1 DEF Members
<1> QED BY <1>1, <1>2 DEF q

LEMMA MembersOfConcat ==
  ASSUME NEW U, NEW s \in Seq(U), NEW t \in Seq(U)
  PROVE  s \o t \in Seq(U) /\ Members(s \o t) = Members(s) \cup Members(t)
<1>1. /\ s \o t \in Seq(U) /\ Len(s) \in Nat /\ Len(t) \in Nat /\ Len(s \o t) = Len(s) + Len(t)
      /\ \A k \in 1..(Len(s) + Len(t)) :
           (s \o t)[k] = IF k <= Len(s) THEN s[k] ELSE t[k - Len(s)]
  BY ConcatProperties, LenProperties
<1>2. ASSUME NEW k \in 1..Len(s \o t)
      PROVE  \/ k \in 1..Len(s) /\ (s \o t)[k] = s[k]
             \/ k - Len(s) \in 1..Len(t) /\ (s \o t)[k] = t[k - Len(s)]
  BY <1>1
<1>3. \A k \in 1..Len(s) : k \in 1..Len(s \o t) /\ (s \o t)[k] = s[k]
  BY <1>1
<1>4. ASSUME NEW k \in 1..Len(t)
      PROVE  Len(s) + k \in 1..Len(s \o t) /\ (s \o t)[Len(s) + k] = t[k]
  <2>1. /\ Len(s) + k \in 1..(Len(s) + Len(t)) /\ ~(Len(s) + k <= Len(s))
        /\ (Len(s) + k) - Len(s) = k
    BY <1>1
  <2> QED BY <1>1, <2>1
<1>5. \A x \in Members(s \o t) : x \in Members(s) \cup Members(t)
  BY <1>2 DEF Members
<1>6. \A x \in Members(s) \cup Members(t) : x \in Members(s \o t)
  BY <1>3, <1>4 DEF Members
<1> QED BY <1>1, <1>5, <1>6

-----------------------------------------------------------------------------
(* What the JCL extractor hands on *)

\* The type of an id is that of its prefix.
LEMMA TypesOfPrefixes ==
  ASSUME NEW id \in GraphIds
  PROVE  id[1] \in IdPrefixes /\ TypeOfId[id] = TypeOfPrefix[id[1]] /\ TypeOfId[id] \in R!EntityTypes
BY CorpusAssumption, PrefixTypes DEF TypeOfId

\* Whatever an extractor hands on is an observation in the resolver's sense.
LEMMA HandedObservations ==
  ASSUME file \in Nat
  PROVE  /\ \A id \in GraphIds, rule \in R!Rules, owner \in GraphIds \cup {Absent},
             invoked \in GraphIds \cup {Absent}, partial \in BOOLEAN :
              Entity_(id, rule, owner, invoked, partial) \in R!Obs
         /\ \A type \in R!EdgeTypes, from, to \in GraphIds, dd \in Labels \cup {Absent} :
              Edge_(type, from, to, dd) \in R!Obs
<1>1. ASSUME NEW id \in GraphIds, NEW rule \in R!Rules, NEW owner \in GraphIds \cup {Absent},
             NEW invoked \in GraphIds \cup {Absent}, NEW partial \in BOOLEAN
      PROVE  Entity_(id, rule, owner, invoked, partial) \in R!Obs
  <2>1. Entity_(id, rule, owner, invoked, partial) \in R!EntityObs
    BY DEF Entity_, R!EntityObs
  <2> QED BY <2>1 DEF R!Obs
<1>2. ASSUME NEW type \in R!EdgeTypes, NEW from \in GraphIds, NEW to \in GraphIds,
             NEW dd \in Labels \cup {Absent}
      PROVE  Edge_(type, from, to, dd) \in R!Obs
  <2>1. Edge_(type, from, to, dd) \in R!EdgeObs
    BY DEF Edge_, R!EdgeObs
  <2> QED BY <2>1 DEF R!Obs
<1> QED BY <1>1, <1>2

LEMMA JclKept ==
  ASSUME FileIds \subseteq GraphIds, JclInv, file \in Nat
  PROVE  /\ JclHanded \in Seq(R!Obs) /\ KeptAll(Members(JclHanded))
         /\ \A x \in Members(JclHanded) : x.kind = "entity" =>
              \E o \in Emitted : /\ o.kind = "entity"
                                /\ x = Entity_(o.id, "RUL-JCL", o.owner, o.invoked, o.partial)
         /\ \A o \in Emitted : o.kind = "entity" =>
              Entity_(o.id, "RUL-JCL", o.owner, o.invoked, o.partial) \in Members(JclHanded)
<1> DEFINE entity(o) == Entity_(o.id, "RUL-JCL", o.owner, o.invoked, o.partial)
           edge(o) == Edge_(o.type, o.from, o.to, o.dd)
           ss == [k \in 1..Len(out) |-> OfObservation(out[k])]
<1>1. /\ out \in Seq(Observation) /\ Len(out) \in Nat
      /\ \A k \in 1..Len(out) : out[k] \in Observation /\ out[k] \in Emitted
      /\ ReferencesFit
  BY LenProperties, ElementOfSeq DEF JclInv, MemoryInv, TypeInvariant, Emitted
<1>2. Ids \subseteq GraphIds
  BY DEF FileIds
<1>3. ASSUME NEW o \in Observation
      PROVE  /\ o.kind \in {"entity", "edge", "property"}
             /\ o.kind = "entity" =>
                  /\ entity(o) \in R!Obs
                  /\ entity(o).kind = "entity" /\ entity(o).id = o.id /\ entity(o).path = file
                  /\ entity(o).owner = o.owner /\ entity(o).invoked = o.invoked
                  /\ o.id \in GraphIds /\ o.owner \in GraphIds \cup {Absent}
                  /\ o.invoked \in GraphIds \cup {Absent}
             /\ o.kind = "edge" =>
                  /\ edge(o) \in R!Obs
                  /\ edge(o).kind = "edge" /\ edge(o).type = o.type /\ ~edge(o).dynamic /\ ~edge(o).cics
                  /\ edge(o).from = o.from /\ edge(o).to = o.to
                  /\ o.from \in GraphIds /\ o.to \in GraphIds
                  /\ o.type \notin {"BINDS_TO", "EXPANDS_TO"}
  <2>1. o.kind \in {"entity", "edge", "property"}
    BY DEF Observation
  <2>2. ASSUME o.kind = "entity"
        PROVE  /\ entity(o) \in R!Obs
               /\ entity(o).kind = "entity" /\ entity(o).id = o.id /\ entity(o).path = file
               /\ entity(o).owner = o.owner /\ entity(o).invoked = o.invoked
               /\ o.id \in GraphIds /\ o.owner \in GraphIds \cup {Absent}
               /\ o.invoked \in GraphIds \cup {Absent}
    <3>1. /\ o.id \in GraphIds /\ o.owner \in GraphIds \cup {Absent}
          /\ o.invoked \in GraphIds \cup {Absent} /\ o.partial \in BOOLEAN
      BY <1>2, <2>2 DEF Observation
    <3>2. "RUL-JCL" \in R!Rules
      BY DEF R!Rules
    <3>3. entity(o) \in R!Obs
      BY <3>1, <3>2, HandedObservations
    <3> QED BY <3>1, <3>3 DEF Entity_
  <2>3. ASSUME o.kind = "edge"
        PROVE  /\ edge(o) \in R!Obs
               /\ edge(o).kind = "edge" /\ edge(o).type = o.type /\ ~edge(o).dynamic /\ ~edge(o).cics
               /\ edge(o).from = o.from /\ edge(o).to = o.to
               /\ o.from \in GraphIds /\ o.to \in GraphIds
               /\ o.type \notin {"BINDS_TO", "EXPANDS_TO"}
    <3>1. /\ o.from \in GraphIds /\ o.to \in GraphIds /\ o.dd \in Labels
          /\ o.type \in {"INVOKES", "USES_PROC", "USES_DATASET", "PASSES_SYSIN_TO"}
      BY <1>2, <2>3 DEF Observation
    <3>2. o.type \in R!EdgeTypes
      BY <3>1 DEF R!EdgeTypes
    <3>3. edge(o) \in R!Obs
      BY <3>1, <3>2, HandedObservations
    <3> QED BY <3>1, <3>3 DEF Edge_
  <2> QED BY <2>1, <2>2, <2>3
<1>4. ASSUME NEW o \in Observation
      PROVE  /\ o.kind = "entity" => OfObservation(o) = <<entity(o)>>
             /\ o.kind = "edge" => OfObservation(o) = <<edge(o)>>
             /\ o.kind = "property" => OfObservation(o) = <<>>
  BY DEF OfObservation
<1> HIDE DEF entity, edge
<1>5. ASSUME NEW o \in Observation
      PROVE  OfObservation(o) \in Seq(R!Obs)
  <2>0. \A x \in R!Obs : <<x>> \in Seq(R!Obs)
    OBVIOUS
  <2>1. CASE o.kind = "entity"
    <3>1. OfObservation(o) = <<entity(o)>> /\ entity(o) \in R!Obs
      BY <1>3, <1>4, <2>1
    <3> QED BY <2>0, <3>1
  <2>2. CASE o.kind = "edge"
    <3>1. OfObservation(o) = <<edge(o)>> /\ edge(o) \in R!Obs
      BY <1>3, <1>4, <2>2
    <3> QED BY <2>0, <3>1
  <2>3. CASE o.kind = "property"
    <3>1. OfObservation(o) = <<>>
      BY <1>4, <2>3
    <3> QED BY <3>1
  <2> QED BY <1>3, <2>1, <2>2, <2>3
<1>6. ss \in Seq(Seq(R!Obs)) /\ Len(ss) = Len(out) /\ \A k \in 1..Len(out) : ss[k] = OfObservation(out[k])
  <2>1. ss \in [1..Len(out) -> Seq(R!Obs)]
    BY <1>1, <1>5
  <2> QED BY <1>1, <2>1
<1> HIDE DEF ss
<1>7. JclHanded = FlattenSeq(ss)
  BY DEF JclHanded, ss
<1>8. /\ JclHanded \in Seq(R!Obs)
      /\ \A x \in Members(JclHanded) :
           \E k \in 1..Len(ss) : \E j \in 1..Len(ss[k]) : x = ss[k][j]
      /\ \A k \in 1..Len(ss) : \A j \in 1..Len(ss[k]) : ss[k][j] \in Members(JclHanded)
  <2>1. HasMembersOf(JclHanded, ss, R!Obs)
    BY <1>6, <1>7, FlattenedMembers
  <2> QED BY <2>1 DEF HasMembersOf
<1>9. ASSUME NEW x \in Members(JclHanded)
      PROVE  \E o \in Emitted : /\ o \in Observation
                                /\ \/ o.kind = "entity" /\ x = entity(o)
                                   \/ o.kind = "edge" /\ x = edge(o)
  <2>1. PICK k \in 1..Len(out) : \E j \in 1..Len(OfObservation(out[k])) : x = OfObservation(out[k])[j]
    <3>1. PICK k \in 1..Len(ss) : \E j \in 1..Len(ss[k]) : x = ss[k][j]
      BY <1>8
    <3>2. k \in 1..Len(out) /\ ss[k] = OfObservation(out[k])
      BY <1>6
    <3> QED BY <3>1, <3>2
  <2>2. out[k] \in Observation /\ out[k] \in Emitted
    BY <1>1
  <2>3. PICK j \in 1..Len(OfObservation(out[k])) : x = OfObservation(out[k])[j]
    BY <2>1
  <2>4. CASE out[k].kind = "entity"
    <3>1. x = entity(out[k])
      BY <1>4, <2>2, <2>3, <2>4
    <3> QED BY <2>2, <2>4, <3>1
  <2>5. CASE out[k].kind = "edge"
    <3>1. x = edge(out[k])
      BY <1>4, <2>2, <2>3, <2>5
    <3> QED BY <2>2, <2>5, <3>1
  <2>6. CASE out[k].kind = "property"
    BY <1>4, <2>2, <2>3, <2>6
  <2> QED BY <1>3, <2>2, <2>4, <2>5, <2>6
<1>10. ASSUME NEW o \in Emitted, o.kind = "entity"
       PROVE  entity(o) \in Members(JclHanded)
  <2>1. PICK k \in 1..Len(out) : o = out[k]
    BY DEF Emitted
  <2>2. OfObservation(out[k]) = <<entity(o)>>
    BY <1>1, <1>4, <1>10, <2>1
  <2>3. 1 \in 1..Len(ss[k]) /\ ss[k][1] = entity(o)
    BY <1>6, <2>2
  <2> QED BY <1>6, <1>8, <2>1, <2>3
<1>11. ASSUME NEW x \in Members(JclHanded)
       PROVE  x \in R!Obs /\ Kept(x, Members(JclHanded))
  <2>1. PICK o \in Emitted : /\ o \in Observation
                             /\ \/ o.kind = "entity" /\ x = entity(o)
                                \/ o.kind = "edge" /\ x = edge(o)
    BY <1>9
  <2>2. Fits(o, DeclaredIds)
    BY <1>1 DEF ReferencesFit
  <2>3. CASE o.kind = "entity" /\ x = entity(o)
    <3>1. /\ x \in R!Obs /\ x.kind = "entity" /\ x.id = o.id /\ x.path = file
          /\ x.owner = o.owner /\ x.invoked = o.invoked
          /\ o.id \in GraphIds /\ o.owner \in GraphIds \cup {Absent}
          /\ o.invoked \in GraphIds \cup {Absent}
      BY <1>3, <2>1, <2>3
    <3>2. TypeOfId[x.id] \in R!EntityTypes
      BY <3>1, TypesOfPrefixes
    <3>3. x.invoked # Absent => TypeOfId[x.invoked] = "JCLProc"
      BY <2>2, <2>3, <3>1, TypesOfPrefixes, PrefixTypes DEF Fits
    <3>4. ASSUME x.owner # Absent, TypeOfId[x.owner] = "JCLProc"
          PROVE  \E d \in Members(JclHanded) : d.kind = "entity" /\ d.id = x.owner /\ d.path = x.path
      <4>1. o.owner[1] = "jcl-proc"
        BY <3>1, <3>4, TypesOfPrefixes, PrefixTypes
      <4>2. o.owner \in DeclaredIds
        BY <2>2, <2>3, <3>1, <3>4, <4>1 DEF Fits
      <4>3. PICK d \in Emitted : d.kind = "entity" /\ d.id = o.owner
        BY <4>2 DEF DeclaredIds
      <4>4. d \in Observation
        BY <1>1 DEF Emitted
      <4>5. entity(d).kind = "entity" /\ entity(d).id = o.owner /\ entity(d).path = file
        BY <1>3, <4>3, <4>4
      <4> QED BY <1>10, <3>1, <4>3, <4>5
    <3> QED BY <3>1, <3>2, <3>3, <3>4 DEF Kept
  <2>4. CASE o.kind = "edge" /\ x = edge(o)
    <3>1. /\ x \in R!Obs /\ x.kind = "edge" /\ x.type = o.type /\ ~x.dynamic /\ ~x.cics
          /\ x.from = o.from /\ x.to = o.to
          /\ o.from \in GraphIds /\ o.to \in GraphIds
          /\ o.type \notin {"BINDS_TO", "EXPANDS_TO"}
      BY <1>3, <2>1, <2>4
    <3>2. TypeOfId[x.from] \in R!EntityTypes /\ TypeOfId[x.to] \in R!EntityTypes
      BY <3>1, TypesOfPrefixes
    <3>3. TypeOfId[x.from] # "Program"
      BY <2>2, <2>4, <3>1, TypesOfPrefixes, PrefixTypes DEF Fits
    <3> QED BY <3>1, <3>2, <3>3 DEF Kept
  <2> QED BY <2>1, <2>3, <2>4
<1>12. ASSUME NEW x \in Members(JclHanded), x.kind = "entity"
       PROVE  \E o \in Emitted : o.kind = "entity" /\ x = entity(o)
  <2>1. PICK o \in Emitted : /\ o \in Observation
                             /\ \/ o.kind = "entity" /\ x = entity(o)
                                \/ o.kind = "edge" /\ x = edge(o)
    BY <1>9
  <2>2. o.kind = "edge" => edge(o).kind = "edge"
    BY <1>3, <2>1
  <2> QED BY <1>12, <2>1, <2>2
<1> QED BY <1>8, <1>10, <1>11, <1>12 DEF KeptAll, entity

-----------------------------------------------------------------------------
(* What the reader of resource definitions hands on *)

\* What the facts of a file of resource definitions speak of
LEMMA CsdFacts ==
  ASSUME C!CsdInv, C!Finished, IsDefinitions(cdeck)
  PROVE  /\ IsFiniteSet(cout)
         /\ \A f \in cout :
              \/ /\ f.kind \in {"CICSTransaction", "Program", "BMSMapset", "LogicalFile"}
                 /\ f.from \in CsdNames
              \/ f.kind = "IS_TRANSACTION_FOR" /\ f.from \in CsdNames /\ f.to \in CsdNames
              \/ f.kind = "Dataset" /\ f.from \in Bases
              \/ /\ f.kind = "csd_file_to_dataset" /\ f.from \in CsdNames /\ f.to \in Bases
                 /\ \E d \in cout : d.kind = "Dataset" /\ d.from = f.to /\ d.start = f.start
         /\ \A f \in cout : \E b \in 1..Len(cblocks) : f.start = cblocks[b].s
         /\ \A f \in cout : f.kind = "Program" =>
              \E l \in 1..Len(cdeck) : cdeck[l].head = "PROGRAM" /\ f.from = cdeck[l].name
         /\ \A l \in 1..Len(cdeck) : cdeck[l].head = "PROGRAM" =>
              \E f \in cout : f.kind = "Program" /\ f.from = cdeck[l].name
<1> DEFINE n == Len(cblocks)
           On(b) == C!FactsOn(cblocks[b].s, cblocks[b].e)
<1>1. /\ cdeck \in Seq(C!Line) /\ Len(cdeck) \in Nat /\ n \in Nat /\ cat \in Nat
      /\ \A l \in 1..Len(cdeck) : cdeck[l] \in C!Line
      /\ \A b \in 1..n : cblocks[b].s \in 1..Len(cdeck) /\ cblocks[b].e \in 1..Len(cdeck)
  <2>1. /\ cdeck \in Seq(C!Line) /\ cblocks \in Seq([s : 1..Len(cdeck), e : 1..Len(cdeck)])
        /\ cat \in 1..(Len(cdeck) + 1)
    BY DEF C!CsdInv, C!TypeInvariant
  <2>2. Len(cdeck) \in Nat /\ n \in Nat /\ \A l \in 1..Len(cdeck) : cdeck[l] \in C!Line
    BY <2>1, LenProperties, ElementOfSeq
  <2>3. \A b \in 1..n : cblocks[b] \in [s : 1..Len(cdeck), e : 1..Len(cdeck)]
    BY <2>1, ElementOfSeq
  <2> QED BY <2>1, <2>2, <2>3
<1>2. C!BlocksRead = n
  BY <1>1 DEF C!CsdInv, C!OpenBlockStands, C!Finished, C!BlocksRead
<1>3. cout = UNION {On(b) : b \in 1..n}
  BY <1>2 DEF C!CsdInv, C!OutFollows
<1>4. ASSUME NEW b \in 1..n
      PROVE  cdeck[cblocks[b].s].name \in CsdNames
  <2>1. cblocks[b].s \in {l \in cblocks[b].s..cblocks[b].e : cdeck[l].head \in C!Listed}
    BY DEF C!CsdInv, C!BlocksTile
  <2> QED BY <1>1, <2>1 DEF IsDefinitions
<1>5. ASSUME NEW b \in 1..n
      PROVE  /\ C!Operand("program", cblocks[b].s, cblocks[b].e) \in CsdNames \cup {Absent}
             /\ C!Operand("dsname", cblocks[b].s, cblocks[b].e) \in Bases \cup {Absent}
  <2> DEFINE given(key) == {k \in cblocks[b].s..cblocks[b].e : cdeck[k][key] # Absent}
  <2>1. ASSUME NEW key, given(key) # {}
        PROVE  C!Operand(key, cblocks[b].s, cblocks[b].e) = cdeck[Least(given(key))][key]
    BY <2>1 DEF C!Operand, C!Least, Least
  <2>2. ASSUME NEW key, given(key) # {}
        PROVE  Least(given(key)) \in 1..Len(cdeck)
    <3>1. given(key) \in SUBSET Nat /\ \A k \in given(key) : k \in 1..Len(cdeck)
      BY <1>1
    <3> HIDE DEF given
    <3> QED BY <2>2, <3>1, LeastExists
  <2>3. ASSUME NEW key, given(key) = {}
        PROVE  C!Operand(key, cblocks[b].s, cblocks[b].e) = Absent
    BY <2>3 DEF C!Operand
  <2>4. \A l \in 1..Len(cdeck) : /\ cdeck[l]["program"] \in CsdNames \cup {Absent}
                                 /\ cdeck[l]["dsname"] \in Bases \cup {Absent}
    BY <1>1 DEF C!Line
  <2> HIDE DEF given
  <2> QED BY <2>1, <2>2, <2>3, <2>4
<1>6. ASSUME NEW b \in 1..n, NEW f \in On(b)
      PROVE  /\ f.start = cblocks[b].s
             /\ f.kind = "Program" =>
                  cdeck[cblocks[b].s].head = "PROGRAM" /\ f.from = cdeck[cblocks[b].s].name
             /\ \/ /\ f.kind \in {"CICSTransaction", "Program", "BMSMapset", "LogicalFile"}
                   /\ f.from \in CsdNames
                \/ f.kind = "IS_TRANSACTION_FOR" /\ f.from \in CsdNames /\ f.to \in CsdNames
                \/ f.kind = "Dataset" /\ f.from \in Bases
                \/ /\ f.kind = "csd_file_to_dataset" /\ f.from \in CsdNames /\ f.to \in Bases
                   /\ \E d \in On(b) : d.kind = "Dataset" /\ d.from = f.to /\ d.start = f.start
  <2> DEFINE s == cblocks[b].s
             e == cblocks[b].e
             prog == C!Operand("program", s, e)
             dsn == C!Operand("dsname", s, e)
             Of(kind, from, to) == C!Fact(kind, from, to, s, e)
             name == cdeck[s].name
  <2>1. \/ f = Of("CICSTransaction", name, Absent)
        \/ f = Of("IS_TRANSACTION_FOR", name, prog) /\ prog # Absent
        \/ f = Of("Program", name, Absent) /\ cdeck[s].head = "PROGRAM"
        \/ f = Of("BMSMapset", name, Absent)
        \/ f = Of("LogicalFile", name, Absent)
        \/ f = Of("Dataset", dsn, Absent) /\ dsn # Absent
        \/ /\ f = Of("csd_file_to_dataset", name, dsn) /\ dsn # Absent
           /\ Of("Dataset", dsn, Absent) \in On(b)
    <3>1. CASE cdeck[s].head = "TRANSACTION" /\ prog = Absent
      BY <3>1 DEF C!FactsOn
    <3>2. CASE cdeck[s].head = "TRANSACTION" /\ prog # Absent
      BY <3>2 DEF C!FactsOn
    <3>3. CASE cdeck[s].head = "PROGRAM"
      BY <3>3 DEF C!FactsOn
    <3>4. CASE cdeck[s].head = "MAPSET"
      BY <3>4 DEF C!FactsOn
    <3>5. CASE cdeck[s].head = "FILE" /\ dsn = Absent
      BY <3>5 DEF C!FactsOn
    <3>6. CASE cdeck[s].head = "FILE" /\ dsn # Absent
      BY <3>6 DEF C!FactsOn
    <3>7. CASE cdeck[s].head \notin {"TRANSACTION", "PROGRAM", "MAPSET", "FILE"}
      <4>1. On(b) = {}
        BY <3>7 DEF C!FactsOn
      <4> QED BY <4>1
    <3> QED BY <3>1, <3>2, <3>3, <3>4, <3>5, <3>6, <3>7
  <2>2. name \in CsdNames /\ prog \in CsdNames \cup {Absent} /\ dsn \in Bases \cup {Absent}
    BY <1>4, <1>5
  <2>3. \A kind, from, to : /\ Of(kind, from, to).kind = kind /\ Of(kind, from, to).from = from
                           /\ Of(kind, from, to).to = to /\ Of(kind, from, to).start = s
    BY DEF C!Fact
  <2>4. f.kind = "Program" => cdeck[s].head = "PROGRAM" /\ f.from = cdeck[s].name
    <3> HIDE DEF prog, dsn, Of, On
    <3> QED BY <2>1, <2>3
  <2> HIDE DEF prog, dsn, Of, name, On
  <2> QED BY <2>1, <2>2, <2>3, <2>4
<1>7. ASSUME NEW b \in 1..n
      PROVE  IsFiniteSet(On(b))
  <2>1. ASSUME NEW x, NEW y
        PROVE  IsFiniteSet({x}) /\ IsFiniteSet({x, y})
    <3>1. IsFiniteSet({x}) /\ {x, y} = {x} \cup {y}
      BY FS_Singleton
    <3> QED BY <3>1, FS_AddElement
  <2> QED BY <2>1, FS_EmptySet DEF C!FactsOn
<1>8. IsFiniteSet(cout)
  <2> DEFINE facts == [b \in 1..n |-> On(b)]
             S == {On(b) : b \in 1..n}
  <2>1. IsFiniteSet(1..n)
    BY <1>1, FS_Interval
  <2>2. facts \in Surjection(1..n, S)
    BY DEF Surjection
  <2>3. IsFiniteSet(S)
    BY <2>1, <2>2, FS_Surjection
  <2>4. \A T \in S : IsFiniteSet(T)
    BY <1>7
  <2> QED BY <1>3, <2>3, <2>4, FS_UNION
<1>9. ASSUME NEW f \in cout
      PROVE  \E b \in 1..n : f \in On(b)
  BY <1>3
<1>10. ASSUME NEW b \in 1..n, NEW f \in On(b)
       PROVE  f \in cout
  BY <1>3
<1>11. ASSUME NEW l \in 1..Len(cdeck), cdeck[l].head = "PROGRAM"
       PROVE  \E f \in cout : f.kind = "Program" /\ f.from = cdeck[l].name
  <2>1. PICK b \in 1..n : l = cblocks[b].s
    <3>1. {h \in 1..Len(cdeck) : cdeck[h].head \in C!Listed} = {cblocks[b].s : b \in 1..n}
      BY DEF C!CsdInv, C!BlocksTile, C!Finished
    <3>2. cdeck[l].head \in C!Listed
      BY <1>11 DEF C!Listed
    <3> QED BY <3>1, <3>2
  <2> DEFINE f == C!Fact("Program", cdeck[l].name, Absent, cblocks[b].s, cblocks[b].e)
  <2>2. On(b) = {f}
    BY <1>11, <2>1 DEF C!FactsOn
  <2>3. f.kind = "Program" /\ f.from = cdeck[l].name
    BY DEF C!Fact
  <2> HIDE DEF f, On
  <2> QED BY <1>10, <2>2, <2>3
<1>12. ASSUME NEW f \in cout
       PROVE  /\ \E b \in 1..n : f.start = cblocks[b].s
              /\ f.kind = "Program" =>
                   \E l \in 1..Len(cdeck) : cdeck[l].head = "PROGRAM" /\ f.from = cdeck[l].name
  <2>1. PICK b \in 1..n : f \in On(b)
    BY <1>9
  <2> HIDE DEF On
  <2>2. /\ f.start = cblocks[b].s
        /\ f.kind = "Program" =>
             cdeck[cblocks[b].s].head = "PROGRAM" /\ f.from = cdeck[cblocks[b].s].name
    BY <1>6, <2>1
  <2> QED BY <1>1, <2>2
<1> HIDE DEF On
<1> QED BY <1>6, <1>8, <1>9, <1>10, <1>11, <1>12

\* The observation of a fact, and what the contract asks of it.
LEMMA FactHanded ==
  ASSUME FileIds \subseteq GraphIds, file \in Nat
  PROVE  /\ \A f : /\ f.kind \in {"CICSTransaction", "Program", "BMSMapset", "LogicalFile"}
                  /\ f.from \in CsdNames
                  => \A P : OfFact(f) \in R!Obs /\ Kept(OfFact(f), P)
         /\ \A f : f.kind = "IS_TRANSACTION_FOR" /\ f.from \in CsdNames /\ f.to \in CsdNames
                  => \A P : OfFact(f) \in R!Obs /\ Kept(OfFact(f), P)
         /\ \A f : f.kind = "Dataset" /\ f.from \in Bases
                  => /\ OfFact(f).kind = "entity" /\ OfFact(f).id = DatasetId(f.from)
                     /\ \A P : OfFact(f) \in R!Obs /\ Kept(OfFact(f), P)
         /\ \A f : f.kind = "csd_file_to_dataset" /\ f.from \in CsdNames /\ f.to \in Bases
                  => /\ OfFact(f) \in R!Obs
                     /\ \A P : (\E d \in P : d.kind = "entity" /\ d.id = DatasetId(f.to)) => Kept(OfFact(f), P)
<1>1. /\ \A n \in CsdNames : /\ TransactionId(n) \in GraphIds /\ MapsetId(n) \in GraphIds
                            /\ CsdFileId(n) \in GraphIds /\ ProgramId(n) \in GraphIds
      /\ \A b \in Bases : DatasetId(b) \in GraphIds
  BY DEF FileIds, Ids
<1>2. ASSUME NEW id \in GraphIds, NEW rule \in R!Rules
      PROVE  LET o == Entity_(id, rule, Absent, Absent, FALSE) IN
               /\ o.kind = "entity" /\ o.id = id
               /\ \A P : o \in R!Obs /\ Kept(o, P)
  <2> DEFINE o == Entity_(id, rule, Absent, Absent, FALSE)
  <2>1. o \in R!Obs
    BY <1>2, HandedObservations
  <2>2. o.kind = "entity" /\ o.id = id /\ o.owner = Absent /\ o.invoked = Absent
    BY DEF Entity_
  <2>3. TypeOfId[id] \in R!EntityTypes
    BY TypesOfPrefixes
  <2> HIDE DEF o
  <2>4. \A P : Kept(o, P)
    BY <2>2, <2>3 DEF Kept
  <2>5. /\ o.kind = "entity" /\ o.id = id
        /\ \A P : o \in R!Obs /\ Kept(o, P)
    BY <2>1, <2>2, <2>4
  <2> QED BY <2>5 DEF o
<1>3. {"RUL-CSD-001", "RUL-CSD-002", "RUL-CSD-003", "RUL-CSD-004"} \subseteq R!Rules
  BY DEF R!Rules
<1>4. ASSUME NEW f, f.kind \in {"CICSTransaction", "Program", "BMSMapset", "LogicalFile"},
             f.from \in CsdNames
      PROVE  \A P : OfFact(f) \in R!Obs /\ Kept(OfFact(f), P)
  <2>1. \E id \in GraphIds : \E rule \in R!Rules : OfFact(f) = Entity_(id, rule, Absent, Absent, FALSE)
    <3>1. CASE f.kind = "CICSTransaction"
      <4>1. OfFact(f) = Entity_(TransactionId(f.from), "RUL-CSD-001", Absent, Absent, FALSE)
        BY <3>1 DEF OfFact
      <4> QED BY <1>1, <1>3, <1>4, <4>1
    <3>2. CASE f.kind = "Program"
      <4>1. OfFact(f) = Entity_(ProgramId(f.from), "RUL-CSD-002", Absent, Absent, FALSE)
        BY <3>2 DEF OfFact
      <4> QED BY <1>1, <1>3, <1>4, <4>1
    <3>3. CASE f.kind = "BMSMapset"
      <4>1. OfFact(f) = Entity_(MapsetId(f.from), "RUL-CSD-003", Absent, Absent, FALSE)
        BY <3>3 DEF OfFact
      <4> QED BY <1>1, <1>3, <1>4, <4>1
    <3>4. CASE f.kind = "LogicalFile"
      <4>1. OfFact(f) = Entity_(CsdFileId(f.from), "RUL-CSD-004", Absent, Absent, FALSE)
        BY <3>4 DEF OfFact
      <4> QED BY <1>1, <1>3, <1>4, <4>1
    <3> QED BY <1>4, <3>1, <3>2, <3>3, <3>4
  <2> QED BY <1>2, <2>1
<1>5. ASSUME NEW f, f.kind = "Dataset", f.from \in Bases
      PROVE  /\ OfFact(f).kind = "entity" /\ OfFact(f).id = DatasetId(f.from)
             /\ \A P : OfFact(f) \in R!Obs /\ Kept(OfFact(f), P)
  <2>1. OfFact(f) = Entity_(DatasetId(f.from), "RUL-CSD-004", Absent, Absent, FALSE)
    BY <1>5 DEF OfFact
  <2>2. DatasetId(f.from) \in GraphIds /\ "RUL-CSD-004" \in R!Rules
    BY <1>1, <1>3, <1>5
  <2> QED BY <1>2, <2>1, <2>2
<1>6. ASSUME NEW f, f.kind = "IS_TRANSACTION_FOR", f.from \in CsdNames, f.to \in CsdNames
      PROVE  \A P : OfFact(f) \in R!Obs /\ Kept(OfFact(f), P)
  <2> DEFINE o == Edge_("IS_TRANSACTION_FOR", TransactionId(f.from), ProgramId(f.to), Absent)
  <2>1. OfFact(f) = o
    BY <1>6 DEF OfFact
  <2>2. TransactionId(f.from) \in GraphIds /\ ProgramId(f.to) \in GraphIds
    BY <1>1, <1>6
  <2>3. "IS_TRANSACTION_FOR" \in R!EdgeTypes
    BY DEF R!EdgeTypes
  <2>4. o \in R!Obs
    BY <2>2, <2>3, HandedObservations
  <2>5. /\ o.kind = "edge" /\ o.type = "IS_TRANSACTION_FOR" /\ ~o.dynamic /\ ~o.cics
        /\ o.from = TransactionId(f.from) /\ o.to = ProgramId(f.to)
    BY DEF Edge_
  <2>6. /\ TypeOfId[TransactionId(f.from)] = TypeOfPrefix["transaction"]
        /\ TypeOfId[TransactionId(f.from)] \in R!EntityTypes
        /\ TypeOfId[ProgramId(f.to)] \in R!EntityTypes
    <3>1. TransactionId(f.from)[1] = "transaction"
      BY DEF TransactionId
    <3> QED BY <2>2, <3>1, TypesOfPrefixes
  <2>7. TypeOfPrefix["transaction"] # "Program"
    BY PrefixTypes DEF IdPrefixes
  <2> HIDE DEF o
  <2>8. \A P : Kept(o, P)
    BY <2>5, <2>6, <2>7 DEF Kept
  <2> QED BY <2>1, <2>4, <2>8
<1>7. ASSUME NEW f, f.kind = "csd_file_to_dataset", f.from \in CsdNames, f.to \in Bases
      PROVE  /\ OfFact(f) \in R!Obs
             /\ \A P : (\E d \in P : d.kind = "entity" /\ d.id = DatasetId(f.to)) => Kept(OfFact(f), P)
  <2> DEFINE o == [kind |-> "csd", file |-> f.from, dataset |-> DatasetId(f.to)]
  <2>1. OfFact(f) = o
    BY <1>7 DEF OfFact
  <2>2. DatasetId(f.to) \in GraphIds /\ DatasetId(f.to)[1] = "dataset"
    BY <1>1, <1>7 DEF DatasetId
  <2>3. o \in R!Obs
    BY <1>7, <2>2 DEF R!Obs, R!CsdObs
  <2>4. o.kind = "csd" /\ o.dataset = DatasetId(f.to) /\ TypeOfId[DatasetId(f.to)] = "Dataset"
    BY <2>2, TypesOfPrefixes, PrefixTypes
  <2> HIDE DEF o
  <2>5. ASSUME NEW P, \E d \in P : d.kind = "entity" /\ d.id = DatasetId(f.to)
        PROVE  Kept(o, P)
    BY <2>4, <2>5 DEF Kept
  <2> QED BY <2>1, <2>3, <2>5
<1> QED BY <1>4, <1>5, <1>6, <1>7

LEMMA CsdKept ==
  ASSUME FileIds \subseteq GraphIds, C!CsdInv, C!Finished, IsDefinitions(cdeck), file \in Nat
  PROVE  /\ CsdHanded \in Seq(R!Obs) /\ KeptAll(Members(CsdHanded))
         /\ \A x \in Members(CsdHanded) : \E f \in cout : x = OfFact(f)
         /\ \A f \in cout : OfFact(f) \in Members(CsdHanded)
<1> DEFINE n == Len(cblocks)
           facts(b) == {f \in cout : f.start = cblocks[b].s}
           handed(b) == [k \in 1..Len(FactsOf(b)) |-> OfFact(FactsOf(b)[k])]
           ss == [b \in 1..n |-> handed(b)]
<1>1. n \in Nat
  BY LenProperties DEF C!CsdInv, C!TypeInvariant
<1>2. ASSUME NEW f \in cout
      PROVE  OfFact(f) \in R!Obs
  BY CsdFacts, FactHanded
<1>3. ASSUME NEW b
      PROVE  FactsOf(b) \in Seq(cout) /\ Members(FactsOf(b)) = facts(b)
  <2> DEFINE Tied == {"IS_TRANSACTION_FOR", "csd_file_to_dataset"}
             F == {f \in facts(b) : f.kind \notin Tied}
             G == {f \in facts(b) : f.kind \in Tied}
  <2>1. F \in SUBSET cout /\ G \in SUBSET cout /\ F \cup G = facts(b)
    OBVIOUS
  <2>2. FactsOf(b) = SetToSeq(F) \o SetToSeq(G)
    BY DEF FactsOf
  <2> HIDE DEF F, G
  <2>3. IsFiniteSet(F) /\ IsFiniteSet(G)
    BY <2>1, CsdFacts, FS_Subset
  <2>4. /\ SetToSeq(F) \in Seq(F) /\ SetToSeq(G) \in Seq(G)
        /\ Members(SetToSeq(F)) = F /\ Members(SetToSeq(G)) = G
    BY <2>3, SequencedMembers
  <2>5. SetToSeq(F) \in Seq(cout) /\ SetToSeq(G) \in Seq(cout)
    BY <2>1, <2>4
  <2>6. /\ FactsOf(b) \in Seq(cout)
        /\ Members(FactsOf(b)) = Members(SetToSeq(F)) \cup Members(SetToSeq(G))
    BY <2>2, <2>5, MembersOfConcat
  <2> QED BY <2>1, <2>4, <2>6
<1>4. ASSUME NEW b
      PROVE  /\ Len(FactsOf(b)) \in Nat
             /\ \A k \in 1..Len(FactsOf(b)) : FactsOf(b)[k] \in cout /\ FactsOf(b)[k] \in facts(b)
             /\ \A f \in facts(b) : \E k \in 1..Len(FactsOf(b)) : f = FactsOf(b)[k]
  <2>1. FactsOf(b) \in Seq(cout) /\ Members(FactsOf(b)) = facts(b)
    BY <1>3
  <2> HIDE DEF facts
  <2>2. Len(FactsOf(b)) \in Nat /\ \A k \in 1..Len(FactsOf(b)) : FactsOf(b)[k] \in cout
    BY <2>1, LenProperties, ElementOfSeq
  <2> QED BY <2>1, <2>2 DEF Members
<1>5. ASSUME NEW b
      PROVE  /\ handed(b) \in Seq(R!Obs) /\ Len(handed(b)) = Len(FactsOf(b))
             /\ \A k \in 1..Len(FactsOf(b)) : handed(b)[k] = OfFact(FactsOf(b)[k])
  <2>1. handed(b) \in [1..Len(FactsOf(b)) -> R!Obs]
    BY <1>2, <1>4
  <2>2. Len(FactsOf(b)) \in Nat
    BY <1>4
  <2> QED BY <2>1, <2>2
<1>6. ss \in Seq(Seq(R!Obs)) /\ Len(ss) = n /\ \A b \in 1..n : ss[b] = handed(b)
  <2>1. \A b \in 1..n : handed(b) \in Seq(R!Obs)
    BY <1>5
  <2> HIDE DEF handed
  <2>2. ss \in [1..n -> Seq(R!Obs)]
    BY <2>1
  <2> QED BY <1>1, <2>2
<1>7. CsdHanded = FlattenSeq(ss)
  BY DEF CsdHanded
<1> HIDE DEF ss, handed
<1>8. /\ CsdHanded \in Seq(R!Obs)
      /\ \A x \in Members(CsdHanded) :
           \E b \in 1..Len(ss) : \E j \in 1..Len(ss[b]) : x = ss[b][j]
      /\ \A b \in 1..Len(ss) : \A j \in 1..Len(ss[b]) : ss[b][j] \in Members(CsdHanded)
  <2>1. HasMembersOf(CsdHanded, ss, R!Obs)
    BY <1>6, <1>7, FlattenedMembers
  <2> QED BY <2>1 DEF HasMembersOf
<1>9. ASSUME NEW x \in Members(CsdHanded)
      PROVE  \E b \in 1..n : \E f \in facts(b) : x = OfFact(f)
  <2>1. PICK b \in 1..n : \E j \in 1..Len(handed(b)) : x = handed(b)[j]
    <3>1. PICK b \in 1..Len(ss) : \E j \in 1..Len(ss[b]) : x = ss[b][j]
      BY <1>8
    <3>2. b \in 1..n /\ ss[b] = handed(b)
      BY <1>6
    <3> QED BY <3>1, <3>2
  <2>2. PICK j \in 1..Len(FactsOf(b)) : x = OfFact(FactsOf(b)[j])
    BY <1>5, <2>1
  <2>3. FactsOf(b)[j] \in facts(b)
    BY <1>4
  <2> HIDE DEF facts
  <2> QED BY <2>2, <2>3
<1>10. ASSUME NEW b \in 1..n, NEW f \in facts(b)
       PROVE  OfFact(f) \in Members(CsdHanded)
  <2>1. PICK k \in 1..Len(FactsOf(b)) : f = FactsOf(b)[k]
    BY <1>4
  <2>2. /\ Len(ss) = n /\ Len(ss[b]) = Len(FactsOf(b)) /\ ss[b][k] = OfFact(f)
    BY <1>5, <1>6, <2>1
  <2> QED BY <1>8, <2>2
<1>11. ASSUME NEW x \in Members(CsdHanded)
       PROVE  x \in R!Obs /\ Kept(x, Members(CsdHanded))
  <2>1. PICK b \in 1..n : \E f \in facts(b) : x = OfFact(f)
    BY <1>9
  <2>2. PICK f \in facts(b) : x = OfFact(f)
    BY <2>1
  <2>3. f \in cout /\ f.start = cblocks[b].s
    OBVIOUS
  <2>4. CASE /\ f.kind \in {"CICSTransaction", "Program", "BMSMapset", "LogicalFile"}
             /\ f.from \in CsdNames
    BY <2>2, <2>4, FactHanded
  <2>5. CASE f.kind = "IS_TRANSACTION_FOR" /\ f.from \in CsdNames /\ f.to \in CsdNames
    BY <2>2, <2>5, FactHanded
  <2>6. CASE f.kind = "Dataset" /\ f.from \in Bases
    BY <2>2, <2>6, FactHanded
  <2>7. CASE /\ f.kind = "csd_file_to_dataset" /\ f.from \in CsdNames /\ f.to \in Bases
             /\ \E d \in cout : d.kind = "Dataset" /\ d.from = f.to /\ d.start = f.start
    <3>1. PICK d \in cout : d.kind = "Dataset" /\ d.from = f.to /\ d.start = f.start
      BY <2>7
    <3>2. d \in facts(b)
      BY <2>3, <3>1
    <3>3. OfFact(d) \in Members(CsdHanded)
      BY <1>10, <3>2
    <3>4. OfFact(d).kind = "entity" /\ OfFact(d).id = DatasetId(f.to)
      BY <2>7, <3>1, FactHanded
    <3> QED BY <2>2, <2>7, <3>3, <3>4, FactHanded
  <2> QED BY <2>3, <2>4, <2>5, <2>6, <2>7, CsdFacts
<1>12. ASSUME NEW f \in cout
       PROVE  OfFact(f) \in Members(CsdHanded)
  <2>1. PICK b \in 1..n : f.start = cblocks[b].s
    BY CsdFacts
  <2>2. f \in facts(b)
    BY <2>1
  <2> HIDE DEF facts
  <2> QED BY <1>10, <2>2
<1>13. \A x \in Members(CsdHanded) : \E f \in cout : x = OfFact(f)
  BY <1>9
<1> QED BY <1>8, <1>11, <1>12, <1>13 DEF KeptAll

-----------------------------------------------------------------------------
(* The reader of resource definitions *)

LEMMA HeadsAreLines ==
  ASSUME C!TypeInvariant
  PROVE  /\ Len(cdeck) \in Nat /\ Len(cblocks) \in Nat
         /\ \A l : C!Heads(l) \in SUBSET (1..Len(cdeck))
         /\ \A l \in 1..Len(cdeck) : cdeck[l] \in C!Line
BY LenProperties, ElementOfSeq DEF C!TypeInvariant, C!Heads

\* Closing the open block at the line before the loop makes the blocks those of all
\* DEFINEs read.
LEMMA CloseBlock ==
  ASSUME C!TypeInvariant, C!BlocksTile, C!OpenBlockStands, cphase = "split", cstart # 0,
         NEW closed, closed = Append(cblocks, [s |-> cstart, e |-> cat - 1])
  PROVE  /\ closed \in Seq([s : 1..Len(cdeck), e : 1..Len(cdeck)])
         /\ Len(closed) = Len(cblocks) + 1 /\ Len(closed) <= cstart
         /\ {closed[b].s : b \in 1..Len(closed)} = C!Heads(cat - 1)
         /\ closed[Len(closed)].e = cat - 1
         /\ \A b \in 1..Len(closed) :
              /\ {l \in closed[b].s..closed[b].e : cdeck[l].head \in C!Listed} = {closed[b].s}
              /\ b < Len(closed) => closed[b + 1].s = closed[b].e + 1
<1> DEFINE r == [s |-> cstart, e |-> cat - 1]
           n == Len(cblocks)
<1>1. /\ n \in Nat /\ Len(cdeck) \in Nat /\ cat \in 1..(Len(cdeck) + 1)
      /\ cstart \in C!Heads(cat - 1) /\ \A h \in C!Heads(cat - 1) : h <= cstart
      /\ {cblocks[b].s : b \in 1..n} = C!Heads(cat - 1) \ {cstart}
      /\ n < cstart
      /\ cblocks \in Seq([s : 1..Len(cdeck), e : 1..Len(cdeck)])
  BY HeadsAreLines DEF C!TypeInvariant, C!OpenBlockStands
<1>2. cstart \in 1..Len(cdeck) /\ cstart <= cat - 1 /\ cdeck[cstart].head \in C!Listed
  BY <1>1 DEF C!Heads
<1>3. r \in [s : 1..Len(cdeck), e : 1..Len(cdeck)]
  BY <1>1, <1>2
<1>4. /\ closed \in Seq([s : 1..Len(cdeck), e : 1..Len(cdeck)])
      /\ Len(closed) = n + 1
      /\ \A b \in 1..n : closed[b] = cblocks[b]
      /\ closed[n + 1] = r
  <2> HIDE DEF r
  <2> QED BY <1>1, <1>3, AppendProperties DEF r
<1>5. \A b \in 1..(n + 1) : b \in 1..n \/ b = n + 1
  BY <1>1
<1>6. {closed[b].s : b \in 1..(n + 1)} = C!Heads(cat - 1)
  <2>1. \A b \in 1..(n + 1) : closed[b].s \in C!Heads(cat - 1)
    BY <1>1, <1>4, <1>5
  <2>2. ASSUME NEW h \in C!Heads(cat - 1)
        PROVE  \E b \in 1..(n + 1) : closed[b].s = h
    <3>1. CASE h = cstart
      <4>1. n + 1 \in 1..(n + 1)
        BY <1>1
      <4> QED BY <1>4, <3>1, <4>1
    <3>2. CASE h # cstart
      <4>1. PICK b \in 1..n : cblocks[b].s = h
        BY <1>1, <3>2
      <4>2. b \in 1..(n + 1)
        BY <1>1
      <4> QED BY <1>4, <4>1, <4>2
    <3> QED BY <3>1, <3>2
  <2> QED BY <2>1, <2>2
<1>7. {l \in cstart..(cat - 1) : cdeck[l].head \in C!Listed} = {cstart}
  <2>1. ASSUME NEW l \in cstart..(cat - 1), cdeck[l].head \in C!Listed
        PROVE  l = cstart
    <3>1. l \in C!Heads(cat - 1)
      BY <1>1, <1>2, <2>1 DEF C!Heads
    <3> QED BY <1>1, <1>2, <3>1
  <2> QED BY <1>1, <1>2, <2>1
<1>8. ASSUME NEW b \in 1..(n + 1)
      PROVE  /\ {l \in closed[b].s..closed[b].e : cdeck[l].head \in C!Listed} = {closed[b].s}
             /\ b < n + 1 => closed[b + 1].s = closed[b].e + 1
  <2>1. CASE b = n + 1
    BY <1>1, <1>4, <1>7, <2>1
  <2>2. CASE b \in 1..n
    <3>1. {l \in closed[b].s..closed[b].e : cdeck[l].head \in C!Listed} = {closed[b].s}
      BY <1>4, <2>2 DEF C!BlocksTile
    <3>2. CASE b = n
      <4>1. cblocks # <<>>
        BY <1>1, <3>2, <2>2
      <4>2. cblocks[n].e = cstart - 1
        BY <4>1 DEF C!OpenBlockStands
      <4> QED BY <1>1, <1>2, <1>4, <2>2, <3>1, <3>2, <4>2
    <3>3. CASE b # n
      <4>1. b < n /\ b + 1 \in 1..n
        BY <1>1, <2>2, <3>3
      <4>2. cblocks[b + 1].s = cblocks[b].e + 1
        BY <2>2, <4>1 DEF C!BlocksTile
      <4> QED BY <1>4, <2>2, <3>1, <4>1, <4>2
    <3> QED BY <3>2, <3>3
  <2> QED BY <1>5, <2>1, <2>2
<1>9. n + 1 <= cstart
  BY <1>1, <1>2
<1>10. closed[n + 1].e = cat - 1
  BY <1>4
<1> HIDE DEF n, r
<1> QED BY <1>4, <1>6, <1>8, <1>9, <1>10 DEF n

LEMMA FactsStay ==
  ASSUME cdeck' = cdeck
  PROVE  /\ \A s, e : (C!FactsOn(s, e))' = C!FactsOn(s, e)
         /\ \A l : (C!Heads(l))' = C!Heads(l)
<1>1. \A key, s, e : (C!Operand(key, s, e))' = C!Operand(key, s, e)
  BY DEF C!Operand
<1> QED BY <1>1 DEF C!FactsOn, C!Fact, C!Heads

\* The reader of a new file
CsdStart ==
  /\ cdeck \in Seq(C!Line) /\ cphase = "split" /\ cat = 1 /\ cstart = 0
  /\ cblocks = <<>> /\ cout = {}

LEMMA CsdInitInv == CsdStart => C!CsdInv
<1> SUFFICES ASSUME CsdStart PROVE C!CsdInv
  OBVIOUS
<1>1. Len(cdeck) \in Nat /\ Len(cblocks) = 0 /\ cblocks = <<>> /\ cat = 1
  BY LenProperties DEF CsdStart
<1>2. C!TypeInvariant
  BY <1>1 DEF CsdStart, C!TypeInvariant
<1>3. C!BlocksTile
  BY <1>1 DEF CsdStart, C!BlocksTile
<1>4. C!OpenBlockStands
  <2>1. C!Heads(cat - 1) = {}
    BY <1>1 DEF C!Heads
  <2> QED BY <1>1, <2>1 DEF CsdStart, C!OpenBlockStands
<1>5. C!OutFollows
  <2>1. 1..C!BlocksRead = {}
    BY DEF CsdStart, C!BlocksRead
  <2> QED BY <2>1 DEF CsdStart, C!OutFollows
<1> QED BY <1>2, <1>3, <1>4, <1>5 DEF C!CsdInv

\* While the lines are grouped nothing is observed.
LEMMA SplittingObservesNothing ==
  ASSUME C!OutFollows, cphase = "split", cdeck' = cdeck, cout' = cout, (C!BlocksRead)' = 0
  PROVE  (C!OutFollows)'
<1>1. 1..C!BlocksRead = {} /\ 1..(C!BlocksRead)' = {}
  BY DEF C!BlocksRead
<1> QED BY <1>1 DEF C!OutFollows

LEMMA StartBlockKeeps == C!CsdInv /\ C!StartBlock => (C!CsdInv)'
<1> SUFFICES ASSUME C!CsdInv, C!StartBlock PROVE (C!CsdInv)'
  OBVIOUS
<1>1. /\ C!TypeInvariant /\ C!BlocksTile /\ C!OpenBlockStands /\ C!OutFollows
      /\ cphase = "split" /\ cat <= Len(cdeck) /\ cdeck[cat].head \in C!Listed
      /\ cblocks' = C!Closed(cat - 1) /\ cstart' = cat /\ cat' = cat + 1
      /\ UNCHANGED <<cdeck, cphase, cout>>
  BY DEF C!CsdInv, C!StartBlock, C!Splitting
<1>2. /\ Len(cdeck) \in Nat /\ Len(cblocks) \in Nat /\ cat \in 1..Len(cdeck)
      /\ cblocks \in Seq([s : 1..Len(cdeck), e : 1..Len(cdeck)]) /\ cdeck \in Seq(C!Line)
  BY <1>1, HeadsAreLines DEF C!TypeInvariant
<1>3. C!Heads(cat) = C!Heads(cat - 1) \cup {cat} /\ \A h \in C!Heads(cat - 1) : h <= cat - 1
  <2>1. \A k \in 1..Len(cdeck) : k <= cat <=> k <= cat - 1 \/ k = cat
    BY <1>2
  <2> QED BY <1>1, <1>2, <2>1 DEF C!Heads
<1>4. cat' - 1 = cat /\ cat \notin C!Heads(cat - 1)
  BY <1>1, <1>2, <1>3
<1>5. /\ cblocks' \in Seq([s : 1..Len(cdeck), e : 1..Len(cdeck)])
      /\ {cblocks'[b].s : b \in 1..Len(cblocks')} = C!Heads(cat - 1)
      /\ \A b \in 1..Len(cblocks') :
           /\ {l \in cblocks'[b].s..cblocks'[b].e : cdeck[l].head \in C!Listed} = {cblocks'[b].s}
           /\ b < Len(cblocks') => cblocks'[b + 1].s = cblocks'[b].e + 1
      /\ cblocks' # <<>> => cblocks'[Len(cblocks')].e = cat - 1
      /\ Len(cblocks') < cat
  <2>1. CASE cstart = 0
    <3>1. cblocks' = cblocks /\ cblocks = <<>> /\ C!Heads(cat - 1) = {} /\ Len(cblocks) = 0
      BY <1>1, <2>1 DEF C!OpenBlockStands, C!Closed
    <3> QED BY <1>2, <3>1
  <2>2. CASE cstart # 0
    <3>1. cblocks' = Append(cblocks, [s |-> cstart, e |-> cat - 1])
      BY <1>1, <2>2 DEF C!Closed
    <3>2. cstart < cat
      BY <1>1, <1>2, <1>3, <2>2 DEF C!OpenBlockStands, C!TypeInvariant
    <3>3. Len(cblocks') = Len(cblocks) + 1 /\ Len(cblocks') <= cstart
      BY <1>1, <2>2, <3>1, CloseBlock
    <3>4. Len(cblocks') < cat
      <4>1. cstart \in 0..Len(cdeck)
        BY <1>1 DEF C!TypeInvariant
      <4> QED BY <1>2, <3>2, <3>3, <4>1
    <3> QED BY <1>1, <2>2, <3>1, <3>4, CloseBlock
  <2> QED BY <2>1, <2>2
<1>6. (C!TypeInvariant)'
  BY <1>1, <1>2, <1>5 DEF C!TypeInvariant
<1>7. (C!BlocksTile)'
  BY <1>1, <1>5 DEF C!BlocksTile
<1>8. (C!OpenBlockStands)'
  <2>1. cstart' = cat /\ cat # 0 /\ cphase' = "split"
    BY <1>1, <1>2
  <2>2. (C!Heads(cat - 1))' = C!Heads(cat)
    BY <1>1, <1>4, FactsStay
  <2>3. /\ cat \in C!Heads(cat) /\ \A h \in C!Heads(cat) : h <= cat
        /\ C!Heads(cat - 1) = C!Heads(cat) \ {cat}
    <3>1. \A h \in C!Heads(cat - 1) : h \in 1..Len(cdeck)
      BY DEF C!Heads
    <3>2. \A h \in C!Heads(cat - 1) : h <= cat
      BY <1>2, <1>3, <3>1
    <3>3. cat <= cat
      BY <1>2
    <3> QED BY <1>3, <1>4, <3>2, <3>3
  <2>4. {cblocks'[b].s : b \in 1..Len(cblocks')} = C!Heads(cat) \ {cat}
    BY <1>5, <2>3
  <2> QED BY <1>5, <2>1, <2>2, <2>3, <2>4 DEF C!OpenBlockStands
<1>9. (C!OutFollows)'
  <2>1. (C!BlocksRead)' = 0
    BY <1>1 DEF C!BlocksRead
  <2> QED BY <1>1, <2>1, SplittingObservesNothing
<1> QED BY <1>6, <1>7, <1>8, <1>9 DEF C!CsdInv

LEMMA JoinLineKeeps == C!CsdInv /\ C!JoinLine => (C!CsdInv)'
<1> SUFFICES ASSUME C!CsdInv, C!JoinLine PROVE (C!CsdInv)'
  OBVIOUS
<1>1. /\ C!TypeInvariant /\ C!BlocksTile /\ C!OpenBlockStands /\ C!OutFollows
      /\ cphase = "split" /\ cat <= Len(cdeck) /\ cdeck[cat].head \notin C!Listed
      /\ cat' = cat + 1 /\ UNCHANGED <<cdeck, cphase, cstart, cblocks, cout>>
  BY DEF C!CsdInv, C!JoinLine, C!Splitting
<1>2. Len(cdeck) \in Nat /\ cat \in 1..Len(cdeck)
  BY <1>1, HeadsAreLines DEF C!TypeInvariant
<1>3. C!Heads(cat) = C!Heads(cat - 1)
  <2>1. \A k \in 1..Len(cdeck) : k <= cat <=> k <= cat - 1 \/ k = cat
    BY <1>2
  <2> QED BY <1>1, <2>1 DEF C!Heads
<1>4. (C!Heads(cat - 1))' = C!Heads(cat - 1)
  BY <1>1, <1>2, <1>3, FactsStay
<1>5. (C!TypeInvariant)'
  BY <1>1, <1>2 DEF C!TypeInvariant
<1>6. (C!BlocksTile)'
  BY <1>1 DEF C!BlocksTile
<1>7. (C!OpenBlockStands)'
  BY <1>1, <1>4 DEF C!OpenBlockStands
<1>8. (C!OutFollows)'
  <2>1. (C!BlocksRead)' = 0
    BY <1>1 DEF C!BlocksRead
  <2> QED BY <1>1, <2>1, SplittingObservesNothing
<1> QED BY <1>5, <1>6, <1>7, <1>8 DEF C!CsdInv

LEMMA EndOfFileKeeps == C!CsdInv /\ C!EndOfFile => (C!CsdInv)'
<1> SUFFICES ASSUME C!CsdInv, C!EndOfFile PROVE (C!CsdInv)'
  OBVIOUS
<1>1. /\ C!TypeInvariant /\ C!BlocksTile /\ C!OpenBlockStands /\ C!OutFollows
      /\ cphase = "split" /\ cat > Len(cdeck) /\ cblocks' = C!Closed(Len(cdeck))
      /\ cphase' = "extract" /\ cat' = 1 /\ cstart' = 0 /\ UNCHANGED <<cdeck, cout>>
  BY DEF C!CsdInv, C!EndOfFile
<1>2. /\ Len(cdeck) \in Nat /\ Len(cblocks) \in Nat /\ cat = Len(cdeck) + 1 /\ cat - 1 = Len(cdeck)
      /\ cblocks \in Seq([s : 1..Len(cdeck), e : 1..Len(cdeck)]) /\ cstart \in 0..Len(cdeck)
  BY <1>1, HeadsAreLines DEF C!TypeInvariant
<1>3. C!Heads(cat - 1) = {l \in 1..Len(cdeck) : cdeck[l].head \in C!Listed}
  BY <1>2 DEF C!Heads
<1>4. /\ cblocks' \in Seq([s : 1..Len(cdeck), e : 1..Len(cdeck)])
      /\ {cblocks'[b].s : b \in 1..Len(cblocks')} = C!Heads(cat - 1)
      /\ \A b \in 1..Len(cblocks') :
           /\ {l \in cblocks'[b].s..cblocks'[b].e : cdeck[l].head \in C!Listed} = {cblocks'[b].s}
           /\ b < Len(cblocks') => cblocks'[b + 1].s = cblocks'[b].e + 1
      /\ cblocks' # <<>> => cblocks'[Len(cblocks')].e = Len(cdeck)
      /\ Len(cblocks') \in Nat /\ Len(cblocks') <= Len(cdeck)
  <2>1. CASE cstart = 0
    <3>1. cblocks' = cblocks /\ cblocks = <<>> /\ C!Heads(cat - 1) = {} /\ Len(cblocks) = 0
      BY <1>1, <2>1 DEF C!OpenBlockStands, C!Closed
    <3> QED BY <1>2, <3>1
  <2>2. CASE cstart # 0
    <3>1. cblocks' = Append(cblocks, [s |-> cstart, e |-> cat - 1])
      BY <1>1, <1>2, <2>2 DEF C!Closed
    <3>2. Len(cblocks') = Len(cblocks) + 1 /\ Len(cblocks') <= cstart
      BY <1>1, <2>2, <3>1, CloseBlock
    <3>3. Len(cblocks') \in Nat /\ Len(cblocks') <= Len(cdeck)
      BY <1>2, <3>2
    <3> QED BY <1>1, <1>2, <2>2, <3>1, <3>3, CloseBlock
  <2> QED BY <2>1, <2>2
<1>5. (C!TypeInvariant)'
  BY <1>1, <1>2, <1>4 DEF C!TypeInvariant
<1>6. (C!BlocksTile)'
  BY <1>1, <1>3, <1>4 DEF C!BlocksTile
<1>7. (C!OpenBlockStands)'
  <2>1. cat' <= Len(cblocks') + 1
    BY <1>1, <1>4
  <2> QED BY <1>1, <1>4, <2>1 DEF C!OpenBlockStands
<1>8. (C!OutFollows)'
  <2>1. (C!BlocksRead)' = 0
    BY <1>1 DEF C!BlocksRead
  <2> QED BY <1>1, <2>1, SplittingObservesNothing
<1> QED BY <1>5, <1>6, <1>7, <1>8 DEF C!CsdInv

\* A handler that observes what its block says keeps the invariant.
LEMMA BlockReadKeeps ==
  ASSUME C!CsdInv, cphase = "extract", cat \in 1..Len(cblocks),
         C!Observe(C!FactsOn(cblocks[cat].s, cblocks[cat].e))
  PROVE  (C!CsdInv)'
<1>1. /\ C!TypeInvariant /\ C!BlocksTile /\ C!OpenBlockStands /\ C!OutFollows
      /\ cout' = cout \cup C!FactsOn(cblocks[cat].s, cblocks[cat].e)
      /\ cat' = cat + 1 /\ UNCHANGED <<cdeck, cphase, cstart, cblocks>>
  BY DEF C!CsdInv, C!Observe
<1>2. /\ Len(cdeck) \in Nat /\ Len(cblocks) \in Nat /\ Len(cblocks) <= Len(cdeck)
  BY <1>1, HeadsAreLines DEF C!OpenBlockStands
<1>3. cat' \in 1..(Len(cdeck) + 1) /\ cat' <= Len(cblocks) + 1
  BY <1>1, <1>2
<1>4. (C!TypeInvariant)'
  BY <1>1, <1>3 DEF C!TypeInvariant
<1>5. (C!BlocksTile)'
  BY <1>1 DEF C!BlocksTile
<1>6. (C!OpenBlockStands)'
  BY <1>1, <1>3 DEF C!OpenBlockStands
<1>7. (C!OutFollows)'
  <2>1. C!BlocksRead = cat - 1 /\ (C!BlocksRead)' = cat
    BY <1>1, <1>2 DEF C!BlocksRead
  <2>2. \A b \in 1..cat : b \in 1..(cat - 1) \/ b = cat
    BY <1>2
  <2>3. cat \in 1..cat /\ \A b \in 1..(cat - 1) : b \in 1..cat
    BY <1>2
  <2>4. UNION {C!FactsOn(cblocks[b].s, cblocks[b].e) : b \in 1..cat}
          = (UNION {C!FactsOn(cblocks[b].s, cblocks[b].e) : b \in 1..(cat - 1)})
            \cup C!FactsOn(cblocks[cat].s, cblocks[cat].e)
    <3> DEFINE F(b) == C!FactsOn(cblocks[b].s, cblocks[b].e)
               now == UNION {F(b) : b \in 1..cat}
               before == UNION {F(b) : b \in 1..(cat - 1)}
    <3> HIDE DEF F
    <3>1. now = before \cup F(cat)
      <4>1. \A x : x \in now <=> \E b \in 1..cat : x \in F(b)
        OBVIOUS
      <4>2. \A x : x \in before <=> \E b \in 1..(cat - 1) : x \in F(b)
        OBVIOUS
      <4> HIDE DEF now, before
      <4>3. \A x : (\E b \in 1..cat : x \in F(b))
                     <=> (\E b \in 1..(cat - 1) : x \in F(b)) \/ x \in F(cat)
        BY <2>2, <2>3
      <4> QED BY <4>1, <4>2, <4>3
    <3> QED BY <3>1 DEF F
  <2>5. cout' = UNION {C!FactsOn(cblocks[b].s, cblocks[b].e) : b \in 1..cat}
    BY <1>1, <2>1, <2>4 DEF C!OutFollows
  <2>6. \A s, e : (C!FactsOn(s, e))' = C!FactsOn(s, e)
    BY <1>1, FactsStay
  <2> QED BY <1>1, <2>1, <2>5, <2>6 DEF C!OutFollows
<1> QED BY <1>4, <1>5, <1>6, <1>7 DEF C!CsdInv

CsdHandler ==
  \/ C!HandleTransaction \/ C!HandleProgram \/ C!HandleMapset \/ C!HandleFile
  \/ C!HandleOther

LEMMA HandlerKeeps == C!CsdInv /\ CsdHandler => (C!CsdInv)'
<1> SUFFICES ASSUME C!CsdInv, CsdHandler PROVE (C!CsdInv)'
  OBVIOUS
<1>1. Len(cblocks) \in Nat /\ cat \in Nat /\ cat >= 1
  BY HeadsAreLines DEF C!CsdInv, C!TypeInvariant
<1>2. cphase = "extract" /\ cat \in 1..Len(cblocks)
  <2>1. cphase = "extract" /\ cat <= Len(cblocks)
    BY DEF CsdHandler, C!HandleTransaction, C!HandleProgram, C!HandleMapset, C!HandleFile,
           C!HandleOther, C!Handling
  <2> QED BY <1>1, <2>1
<1>3. CASE C!HandleTransaction
  BY <1>2, <1>3, BlockReadKeeps DEF C!HandleTransaction, C!Handling, C!FactsOn, C!Name
<1>4. CASE C!HandleProgram
  BY <1>2, <1>4, BlockReadKeeps DEF C!HandleProgram, C!Handling, C!FactsOn, C!Name
<1>5. CASE C!HandleMapset
  BY <1>2, <1>5, BlockReadKeeps DEF C!HandleMapset, C!Handling, C!FactsOn, C!Name
<1>6. CASE C!HandleFile
  BY <1>2, <1>6, BlockReadKeeps DEF C!HandleFile, C!Handling, C!FactsOn, C!Name
<1>7. CASE C!HandleOther
  BY <1>2, <1>7, BlockReadKeeps DEF C!HandleOther, C!Handling, C!FactsOn, C!Name
<1> QED BY <1>3, <1>4, <1>5, <1>6, <1>7 DEF CsdHandler

LEMMA CsdNextInv == C!CsdInv /\ [C!Next]_(C!vars) => (C!CsdInv)'
<1> SUFFICES ASSUME C!CsdInv, [C!Next]_(C!vars) PROVE (C!CsdInv)'
  OBVIOUS
<1>1. CASE C!StartBlock
  BY <1>1, StartBlockKeeps
<1>2. CASE C!JoinLine
  BY <1>2, JoinLineKeeps
<1>3. CASE C!EndOfFile
  BY <1>3, EndOfFileKeeps
<1>4. CASE CsdHandler
  BY <1>4, HandlerKeeps
<1>5. CASE UNCHANGED C!vars
  <2>1. UNCHANGED <<cdeck, cphase, cat, cstart, cblocks, cout>>
    BY <1>5 DEF C!vars
  <2>2. (C!TypeInvariant)'
    BY <2>1 DEF C!CsdInv, C!TypeInvariant
  <2>3. (C!BlocksTile)'
    BY <2>1 DEF C!CsdInv, C!BlocksTile
  <2>4. (C!OpenBlockStands)'
    BY <2>1, FactsStay DEF C!CsdInv, C!OpenBlockStands
  <2>5. (C!OutFollows)'
    BY <2>1, FactsStay DEF C!CsdInv, C!OutFollows, C!BlocksRead
  <2> QED BY <2>2, <2>3, <2>4, <2>5 DEF C!CsdInv
<1> QED BY <1>1, <1>2, <1>3, <1>4, <1>5 DEF C!Next, CsdHandler

\* RUL-CSD-001 to 004: whatever the files, the blocks follow each other without a gap,
\* one listed DEFINE each, and what is observed is what the blocks say.
THEOREM BlocksHold == C!Spec => []C!CsdInv
<1>1. C!Init => C!CsdInv
  <2>1. \A c \in Corpora : \A f \in 1..Len(c) : CsdLines(c[f]) \in Seq(C!Line)
    BY CorpusAssumption DEF CsdLines, IsDefinitions
  <2>2. C!Init => cdeck \in Seq(C!Line)
    BY <2>1 DEF C!Init, CsdDecks
  <2> QED BY <2>2, CsdInitInv DEF C!Init, CsdStart
<1> QED BY <1>1, CsdNextInv, PTL DEF C!Spec

\* In a file of listed types only, a block is a definition.
LEMMA BlocksAreDefinitions == C!CsdInv /\ C!OnlyListed => C!ObservedIsDefined
<1> SUFFICES ASSUME C!CsdInv, C!OnlyListed, C!Finished
             PROVE  cout = UNION {C!Says(l) : l \in C!Defined}
  BY DEF C!ObservedIsDefined
<1> DEFINE n == Len(cblocks)
<1>1. /\ Len(cdeck) \in Nat /\ n \in Nat /\ cphase = "extract" /\ cat = n + 1
      /\ \A l \in 1..Len(cdeck) : cdeck[l] \in C!Line
      /\ \A b \in 1..n : cblocks[b] \in [s : 1..Len(cdeck), e : 1..Len(cdeck)]
  <2>1. /\ C!TypeInvariant /\ n \in Nat /\ Len(cdeck) \in Nat
        /\ \A l \in 1..Len(cdeck) : cdeck[l] \in C!Line
    BY HeadsAreLines DEF C!CsdInv
  <2>2. \A b \in 1..n : cblocks[b] \in [s : 1..Len(cdeck), e : 1..Len(cdeck)]
    BY <2>1, ElementOfSeq DEF C!TypeInvariant
  <2>3. cphase = "extract" /\ cat > n /\ cat <= n + 1
    BY DEF C!CsdInv, C!OpenBlockStands, C!Finished
  <2>4. cat \in 1..(Len(cdeck) + 1)
    BY <2>1 DEF C!TypeInvariant
  <2>5. cat = n + 1
    BY <2>1, <2>3, <2>4
  <2> QED BY <2>1, <2>2, <2>3, <2>5
<1>2. C!Defined = {l \in 1..Len(cdeck) : cdeck[l].head \in C!Listed}
  BY <1>1 DEF C!Defined, C!OnlyListed, C!Line, C!Listed
<1>3. C!Defined = {cblocks[b].s : b \in 1..n}
  BY <1>1, <1>2 DEF C!CsdInv, C!BlocksTile
<1>4. ASSUME NEW b \in 1..n
      PROVE  C!LastOf(cblocks[b].s) = cblocks[b].e
  <2> DEFINE s == cblocks[b].s
             e == cblocks[b].e
             later == {k \in C!Defined : k > s}
  <2>1. s \in 1..Len(cdeck) /\ e \in 1..Len(cdeck)
    BY <1>1
  <2>2. \A k \in s..e : cdeck[k].head \in C!Listed <=> k = s
    <3>1. {l \in s..e : cdeck[l].head \in C!Listed} = {s}
      BY DEF C!CsdInv, C!BlocksTile
    <3> QED BY <3>1
  <2>3. \A k \in later : k \in Nat /\ k > e
    <3>1. ASSUME NEW k \in later, ~(k > e)
          PROVE  FALSE
      <4>1. k \in 1..Len(cdeck) /\ cdeck[k].head \in C!Listed /\ k > s
        BY <1>2
      <4>2. k \in s..e /\ k # s
        BY <2>1, <3>1, <4>1
      <4> QED BY <2>2, <4>1, <4>2
    <3> QED BY <1>2, <3>1
  <2>4. C!LastOf(s) = IF later = {} THEN Len(cdeck) ELSE C!Least(later) - 1
    BY DEF C!LastOf
  <2>5. CASE b = n
    <3>1. e = Len(cdeck)
      <4>1. cblocks # <<>>
        BY <1>1, <2>5
      <4> QED BY <1>1, <2>5, <4>1 DEF C!CsdInv, C!BlocksTile
    <3>2. later = {}
      <4>1. \A k \in later : k \in 1..Len(cdeck)
        BY <1>2
      <4> QED BY <2>3, <3>1, <4>1
    <3> QED BY <2>4, <3>1, <3>2
  <2>6. CASE b # n
    <3>1. b < n /\ b + 1 \in 1..n
      BY <1>1, <2>6
    <3>2. cblocks[b + 1].s = e + 1
      BY <3>1 DEF C!CsdInv, C!BlocksTile
    <3>3. e + 1 \in C!Defined
      BY <1>3, <3>1, <3>2
    <3>4. s <= e
      <4>1. s \in {l \in s..e : cdeck[l].head \in C!Listed}
        BY DEF C!CsdInv, C!BlocksTile
      <4> QED BY <2>1, <4>1
    <3>5. e + 1 \in later
      BY <2>1, <3>3, <3>4
    <3> HIDE DEF e, s, later
    <3>6. \A k \in later : e + 1 <= k
      BY <2>1, <2>3
    <3>7. \A g \in later : (\A k \in later : g <= k) => g = e + 1
      <4>1. \A g \in later : g \in Nat
        BY <2>3
      <4> QED BY <2>1, <3>5, <3>6, <4>1
    <3>8. C!Least(later) = e + 1
      BY <3>5, <3>6, <3>7 DEF C!Least
    <3>9. C!LastOf(s) = (e + 1) - 1
      BY <2>4, <3>5, <3>8
    <3>10. C!LastOf(s) = e
      BY <2>1, <3>9
    <3> QED BY <3>10 DEF s, e
  <2> QED BY <2>5, <2>6
<1>5. \A b \in 1..n : C!FactsOn(cblocks[b].s, cblocks[b].e) = C!Says(cblocks[b].s)
  BY <1>4 DEF C!Says
<1>6. cout = UNION {C!FactsOn(cblocks[b].s, cblocks[b].e) : b \in 1..n}
  <2>1. C!BlocksRead = n
    BY <1>1 DEF C!BlocksRead
  <2> QED BY <2>1 DEF C!CsdInv, C!OutFollows
<1>7. {C!FactsOn(cblocks[b].s, cblocks[b].e) : b \in 1..n} = {C!Says(l) : l \in C!Defined}
  BY <1>3, <1>5
<1> QED BY <1>6, <1>7

\* RUL-CSD-001 to 004: in a file of listed types only, what is observed is what the
\* definitions say, each up to the line before the next.
THEOREM DefinitionsObserved == C!Spec => [](C!OnlyListed => C!ObservedIsDefined)
BY BlocksHold, BlocksAreDefinitions, PTL

LEMMA ReaderSteps ==
  ASSUME C!CsdInv, C!Next \/ UNCHANGED csdVars
  PROVE  (C!CsdInv)'
<1>1. [C!Next]_(C!vars)
  BY DEF C!vars, csdVars
<1> QED BY <1>1, CsdNextInv

LEMMA ReaderStarts ==
  /\ cdeck \in Seq(C!Line) /\ cphase = "split" /\ cat = 1 /\ cstart = 0
  /\ cblocks = <<>> /\ cout = {}
  => C!CsdInv
BY CsdInitInv DEF CsdStart

-----------------------------------------------------------------------------
(* The loop over the files *)

\* The invariant of the loop, of a corpus of the kind assumed.
LoopInv == corpus \in Corpora /\ CorpusInv

\* The files of a corpus, as each extractor takes them
LEMMA FilesOfCorpus ==
  ASSUME NEW c \in Corpora
  PROVE  /\ Len(c) \in Nat /\ 1 \in 1..Len(c)
         /\ \A f \in 1..Len(c) : JclDeck(c[f]) \in Decks /\ CsdLines(c[f]) \in Seq(C!Line)
         /\ \A f \in 1..Len(c) : IsCsd(c[f]) => IsDefinitions(CsdLines(c[f]))
<1>1. Len(c) \in Nat /\ 1 \in 1..Len(c)
  BY CorpusAssumption
<1>2. ASSUME NEW f \in 1..Len(c)
      PROVE  /\ JclDeck(c[f]) \in Decks /\ CsdLines(c[f]) \in Seq(C!Line)
             /\ IsCsd(c[f]) => IsDefinitions(CsdLines(c[f]))
  <2>1. CASE IsCsd(c[f])
    <3>1. IsDefinitions(c[f].lines) /\ NoDeck \in Decks
      BY <2>1, CorpusAssumption
    <3> QED BY <2>1, <3>1 DEF JclDeck, CsdLines, IsDefinitions
  <2>2. CASE ~IsCsd(c[f])
    <3>1. c[f] \in Decks /\ <<>> \in Seq(C!Line)
      BY <2>2, CorpusAssumption
    <3> QED BY <2>2, <3>1 DEF JclDeck, CsdLines
  <2> QED BY <2>1, <2>2
<1> QED BY <1>1, <1>2

LEMMA NothingObserved == <<>> \in Seq(R!Obs) /\ R!ExtractorContract(<<>>)
<1>1. <<>> \in Seq(R!Obs) /\ Len(<<>>) = 0 /\ 1..0 = {}
  OBVIOUS
<1> QED BY <1>1 DEF R!ExtractorContract

-----------------------------------------------------------------------------
(* What the sink says of the files *)

\* What the statements of a file say is what the extractor that reads it takes them to.
LEMMA SameStatements ==
  ASSUME NEW d, d = deck
  PROVE  \A l : /\ D(d)!ScopeAt(l) = ScopeAt(l)
                /\ D(d)!ProcsBefore(l) = ProcsBefore(l)
                /\ D(d)!CalleeOf(l) = CalleeOf(l)
<1>1. D(d)!lines = lines
  BY DEF D!lines, lines
<1>2. \A S : D(d)!Least(S) = Least(S) /\ D(d)!Greatest(S) = Greatest(S)
  BY DEF D!Least, Least, D!Greatest, Greatest
<1>3. \A shape, l : D(d)!Headers(shape, l) = Headers(shape, l)
  BY <1>1 DEF D!Headers, Headers
<1>4. \A l : D(d)!ProcsBefore(l) = ProcsBefore(l) /\ D(d)!JobsBefore(l) = JobsBefore(l)
  BY <1>3 DEF D!ProcsBefore, ProcsBefore, D!JobsBefore, JobsBefore
<1>5. \A l : D(d)!ScopeAt(l) = ScopeAt(l)
  BY <1>1, <1>2, <1>4 DEF D!ScopeAt, ScopeAt
<1>6. \A l : D(d)!EndOf(l) = EndOf(l)
  <2>1. \A l : D(d)!Continues(l) <=> Continues(l)
    BY <1>1 DEF D!Continues, Continues
  <2> QED BY <1>1, <1>2, <2>1 DEF D!EndOf, EndOf
<1>7. \A l, field : D(d)!Operand(l, field) = Operand(l, field)
  BY <1>1, <1>2, <1>6 DEF D!Operand, Operand, D!Statement, Statement
<1>8. \A l : D(d)!CalleeOf(l) = CalleeOf(l)
  BY <1>1, <1>6, <1>7 DEF D!CalleeOf, CalleeOf, D!Positional, Positional
<1> QED BY <1>4, <1>5, <1>8

LEMMA ExecsOfFiles ==
  /\ \A x \in Execs : /\ x = <<x[1], x[2]>>
                      /\ x[1] \in 1..Len(corpus) /\ ~IsCsd(corpus[x[1]])
                      /\ x[2] \in 1..Len(corpus[x[1]].lines)
                      /\ corpus[x[1]].lines[x[2]].shape = "exec"
  /\ \A f \in 1..Len(corpus) : ~IsCsd(corpus[f]) =>
       \A l \in 1..Len(corpus[f].lines) :
         corpus[f].lines[l].shape = "exec" => <<f, l>> \in Execs
BY DEF Execs

LEMMA CorpusStays ==
  ASSUME corpus' = corpus
  PROVE  /\ \A o : IsTrue(o) <=> IsTrue(o)'
         /\ \A f, ids : IsTold(f, ids) <=> IsTold(f, ids)'
<1>1. Execs' = Execs /\ DefinedPrograms' = DefinedPrograms
  BY DEF Execs, DefinedPrograms
<1>2. \A x : /\ StepOf(x)' = StepOf(x) /\ InvocationBy(x)' = InvocationBy(x)
             /\ Callee(x)' = Callee(x) /\ OwnerOf(x)' = OwnerOf(x)
  BY DEF StepOf, InvocationBy, Callee, OwnerOf
<1>3. \A o : IsTrue(o) <=> IsTrue(o)'
  BY <1>1, <1>2 DEF IsTrue
<1>4. \A f, ids : IsTold(f, ids) <=> IsTold(f, ids)'
  BY <1>1, <1>2 DEF IsTold
<1> QED BY <1>3, <1>4

LEMMA RangeOfSequence ==
  ASSUME NEW S, NEW s \in Seq(S)
  PROVE  Range(s) = Members(s)
BY DEF Range, Members

EntitiesOf(s) == {o \in Members(s) : o.kind = "entity"}

\* What the JCL extractor hands on of a file is what its EXEC statements say.
LEMMA JclFollows ==
  ASSUME FileIds \subseteq GraphIds, corpus \in Corpora, file \in 1..Len(corpus), file \in Nat,
         ~IsCsd(corpus[file]), deck = JclDeck(corpus[file]), JclInv, Finished
  PROVE  /\ \A o \in EntitiesOf(JclHanded) : IsTrue(o)
         /\ IsTold(file, {o.id : o \in EntitiesOf(JclHanded)})
<1> DEFINE entity(o) == Entity_(o.id, "RUL-JCL", o.owner, o.invoked, o.partial)
           ids == {o.id : o \in EntitiesOf(JclHanded)}
<1>1. /\ deck = corpus[file] /\ lines = corpus[file].lines
      /\ at \in Nat /\ Len(lines) \in Nat /\ at = Len(lines) + 1
  <2>1. deck = corpus[file]
    BY DEF JclDeck
  <2>2. at \in 1..(Len(lines) + 1) /\ Len(lines) \in Nat /\ at > Len(lines)
    BY DeckShape DEF JclInv, MemoryInv, TypeInvariant, Finished
  <2> QED BY <2>1, <2>2 DEF lines
<1>2. \A l : /\ D(corpus[file])!ScopeAt(l) = ScopeAt(l)
             /\ D(corpus[file])!ProcsBefore(l) = ProcsBefore(l)
             /\ D(corpus[file])!CalleeOf(l) = CalleeOf(l)
  BY <1>1, SameStatements
<1>3. ASSUME NEW l
      PROVE  /\ StepOf(<<file, l>>) = StepId(ScopeAt(l), lines[l].name)
             /\ InvocationBy(<<file, l>>) = InvocationId(ScopeAt(l), lines[l].name)
             /\ Callee(<<file, l>>) = CalleeOf(l)
             /\ OwnerOf(<<file, l>>) = OwnerAt(l)
  <2>1. <<file, l>>[1] = file /\ <<file, l>>[2] = l
    OBVIOUS
  <2> QED BY <1>1, <1>2, <2>1 DEF StepOf, InvocationBy, Callee, OwnerOf, OwnerAt
<1>4. /\ \A x \in EntitiesOf(JclHanded) : \E o \in Emitted : o.kind = "entity" /\ x = entity(o)
      /\ \A o \in Emitted : o.kind = "entity" => entity(o) \in EntitiesOf(JclHanded)
  <2>1. /\ \A x \in Members(JclHanded) : x.kind = "entity" =>
             \E o \in Emitted : o.kind = "entity" /\ x = entity(o)
        /\ \A o \in Emitted : o.kind = "entity" => entity(o) \in Members(JclHanded)
    BY JclKept
  <2>2. \A o : entity(o).kind = "entity"
    BY DEF Entity_
  <2> QED BY <2>1, <2>2 DEF EntitiesOf
<1>5. \A o : /\ entity(o).id = o.id /\ entity(o).owner = o.owner
             /\ entity(o).invoked = o.invoked /\ entity(o).partial = o.partial
  BY DEF Entity_
<1> HIDE DEF entity
<1>6. ASSUME NEW x \in EntitiesOf(JclHanded)
      PROVE  IsTrue(x)
  <2>1. PICK o \in Emitted : o.kind = "entity" /\ x = entity(o)
    BY <1>4
  <2>2. Fits(o, DeclaredIds) /\ o.line \in 1..Len(lines)
    BY <1>1 DEF JclInv, ReferencesFit, MemoryInv, TypeInvariant
  <2> DEFINE y == <<file, o.line>>
  <2>3. lines[o.line].shape = "exec" => y \in Execs
    BY <1>1, <2>2, ExecsOfFiles
  <2>4. ASSUME x.id[1] = "jcl-step"
        PROVE  y \in Execs /\ x.id = StepOf(y) /\ x.owner = OwnerOf(y) /\ ~x.partial
    <3>1. IsStepOf(o, o.line)
      BY <1>5, <2>1, <2>2, <2>4 DEF Fits
    <3> QED BY <1>3, <1>5, <2>1, <2>3, <3>1 DEF IsStepOf
  <2>5. ASSUME x.id[1] = "jcl-proc-inv"
        PROVE  /\ y \in Execs /\ x.id = InvocationBy(y)
               /\ Callee(y) \in Names /\ x.invoked = ProcId(Callee(y))
    <3>1. IsCallOf(o, o.line)
      BY <1>5, <2>1, <2>2, <2>5 DEF Fits
    <3>2. deck \in Decks
      BY DEF JclInv, MemoryInv, TypeInvariant
    <3>3. CalleeOf(o.line) \in Names \cup {Absent}
      BY <2>2, <3>2, Operands DEF CalleeOf
    <3> QED BY <1>3, <1>5, <2>1, <2>3, <3>1, <3>3 DEF IsCallOf
  <2>6. x.id[1] # "program"
    BY <1>5, <2>1, <2>2 DEF Fits
  <2> HIDE DEF y
  <2> QED BY <2>4, <2>5, <2>6 DEF IsTrue
<1>7. ASSUME NEW x \in Execs, x[1] = file
      PROVE  StepOf(x) \in ids /\ (Callee(x) # Absent => InvocationBy(x) \in ids)
  <2> DEFINE l == x[2]
  <2>1. x = <<file, l>> /\ l \in 1..Len(lines) /\ lines[l].shape = "exec"
    BY <1>1, <1>7, ExecsOfFiles
  <2>2. RunObserved(l)
    BY <1>1, <2>1 DEF JclInv, StatementsObserved
  <2> HIDE DEF l
  <2>3. PICK o \in Emitted : o.kind = "entity" /\ IsStepOf(o, l)
    BY <2>1, <2>2 DEF RunObserved
  <2>4. StepOf(x) \in ids
    BY <1>3, <1>4, <1>5, <2>1, <2>3 DEF IsStepOf
  <2>5. ASSUME Callee(x) # Absent
        PROVE  InvocationBy(x) \in ids
    <3>1. PICK i \in Emitted : i.kind = "entity" /\ IsCallOf(i, l)
      BY <1>3, <2>1, <2>2, <2>5 DEF RunObserved
    <3> QED BY <1>3, <1>4, <1>5, <2>1, <3>1 DEF IsCallOf
  <2> QED BY <2>4, <2>5
<1> HIDE DEF ids
<1>8. IsTold(file, ids)
  BY <1>7 DEF IsTold
<1> QED BY <1>6, <1>8 DEF ids

\* What the reader of resource definitions hands on are the programs its file defines.
LEMMA CsdFollows ==
  ASSUME FileIds \subseteq GraphIds, corpus \in Corpora, file \in 1..Len(corpus), file \in Nat,
         IsCsd(corpus[file]), cdeck = CsdLines(corpus[file]), C!CsdInv, C!Finished
  PROVE  /\ \A o \in EntitiesOf(CsdHanded) : IsTrue(o)
         /\ IsTold(file, {o.id : o \in EntitiesOf(CsdHanded)})
<1> DEFINE ids == {o.id : o \in EntitiesOf(CsdHanded)}
<1>1. IsDefinitions(cdeck) /\ cdeck = corpus[file].lines
  BY FilesOfCorpus DEF CsdLines
<1>2. ASSUME NEW l \in 1..Len(cdeck), cdeck[l].head = "PROGRAM"
      PROVE  ProgramId(cdeck[l].name) \in DefinedPrograms
  BY <1>1, <1>2 DEF DefinedPrograms
<1>3. ASSUME NEW x \in EntitiesOf(CsdHanded)
      PROVE  IsTrue(x)
  <2>1. PICK f \in cout : x = OfFact(f)
    BY <1>1, CsdKept DEF EntitiesOf
  <2>2. x.kind = "entity"
    BY DEF EntitiesOf
  <2>3. CASE f.kind = "Program"
    <3>1. PICK l \in 1..Len(cdeck) : cdeck[l].head = "PROGRAM" /\ f.from = cdeck[l].name
      BY <1>1, <2>3, CsdFacts
    <3>2. x.id = ProgramId(f.from) /\ x.rule = "RUL-CSD-002"
      BY <2>1, <2>3 DEF OfFact, Entity_
    <3>3. x.id \in DefinedPrograms /\ x.id[1] = "program"
      BY <1>2, <3>1, <3>2 DEF ProgramId
    <3> QED BY <3>2, <3>3 DEF IsTrue
  <2>4. CASE f.kind \in {"CICSTransaction", "BMSMapset", "LogicalFile", "Dataset"}
    <3>1. x.id \in {TransactionId(f.from), MapsetId(f.from), CsdFileId(f.from), DatasetId(f.from)}
      BY <2>1, <2>4 DEF OfFact, Entity_
    <3>2. x.id[1] \in {"transaction", "bms-mapset", "logical-file", "dataset"}
      BY <3>1 DEF TransactionId, MapsetId, CsdFileId, DatasetId
    <3> QED BY <3>2 DEF IsTrue
  <2>5. CASE f.kind \in {"IS_TRANSACTION_FOR", "csd_file_to_dataset"}
    BY <2>1, <2>2, <2>5 DEF OfFact, Edge_
  <2> QED BY <1>1, <2>3, <2>4, <2>5, CsdFacts
<1>4. ASSUME NEW l \in 1..Len(cdeck), cdeck[l].head = "PROGRAM"
      PROVE  ProgramId(cdeck[l].name) \in ids
  <2>1. PICK f \in cout : f.kind = "Program" /\ f.from = cdeck[l].name
    BY <1>1, <1>4, CsdFacts
  <2>2. OfFact(f).kind = "entity" /\ OfFact(f).id = ProgramId(cdeck[l].name)
    BY <2>1 DEF OfFact, Entity_
  <2>3. OfFact(f) \in EntitiesOf(CsdHanded)
    BY <1>1, <2>2, CsdKept DEF EntitiesOf
  <2> QED BY <2>2, <2>3
<1>5. \A x \in Execs : x[1] # file
  BY ExecsOfFiles
<1> HIDE DEF ids
<1>6. IsTold(file, ids)
  BY <1>1, <1>4, <1>5 DEF IsTold
<1> QED BY <1>3, <1>6 DEF ids

-----------------------------------------------------------------------------
(* The loop keeps its invariant *)

\* The sink follows the files read when what is handed over of another joins it.
LEMMA SinkFollowsOn ==
  ASSUME FileIds \subseteq GraphIds, LoopInv, FileRead, corpus' = corpus, sink' = sink \o Handed,
         FilesRead' \subseteq FilesRead \cup {file}
  PROVE  SinkFollowsTheFiles'
<1> DEFINE ids == {o.id : o \in Declarations}
           more == {o.id : o \in EntitiesOf(Handed)}
<1>1. /\ corpus \in Corpora /\ file \in 1..Len(corpus) /\ file \in Nat
      /\ deck = JclDeck(corpus[file]) /\ cdeck = CsdLines(corpus[file]) /\ JclInv /\ C!CsdInv
      /\ sink \in Seq(R!Obs) /\ SinkFollowsTheFiles
  BY FilesOfCorpus DEF LoopInv, CorpusInv, LoopStands, SinkKeepsContract
<1>2. /\ Handed \in Seq(R!Obs)
      /\ \A o \in EntitiesOf(Handed) : IsTrue(o)
      /\ IsTold(file, more)
  <2>1. CASE IsCsd(corpus[file])
    <3>1. C!Finished /\ IsDefinitions(cdeck) /\ Handed = CsdHanded
      BY <1>1, <2>1, FilesOfCorpus DEF FileRead, Handed, IsCsd
    <3> QED BY <1>1, <2>1, <3>1, CsdKept, CsdFollows
  <2>2. CASE ~IsCsd(corpus[file])
    <3>1. Finished /\ Handed = JclHanded
      BY <2>2 DEF FileRead, Handed, IsCsd
    <3> QED BY <1>1, <2>2, <3>1, JclKept, JclFollows
  <2> QED BY <2>1, <2>2
<1>3. Declarations' = Declarations \cup EntitiesOf(Handed)
  <2>1. sink' \in Seq(R!Obs) /\ Members(sink') = Members(sink) \cup Members(Handed)
    BY <1>1, <1>2, MembersOfConcat
  <2>2. Range(sink') = Members(sink') /\ Range(sink) = Members(sink)
    BY <1>1, <2>1, RangeOfSequence
  <2>3. Declarations' = {o \in Range(sink') : o.kind = "entity"}
    BY DEF Declarations
  <2> QED BY <2>1, <2>2, <2>3 DEF Declarations, EntitiesOf
<1>4. {o.id : o \in Declarations'} = ids \cup more
  BY <1>3
<1> HIDE DEF ids, more
<1>5. \A o \in Declarations' : IsTrue(o)
  BY <1>1, <1>2, <1>3 DEF SinkFollowsTheFiles
<1>6. ASSUME NEW f \in FilesRead'
      PROVE  IsTold(f, ids \cup more)
  <2>1. IsTold(f, ids) \/ IsTold(f, more)
    BY <1>1, <1>2 DEF SinkFollowsTheFiles, ids
  <2> QED BY <2>1 DEF IsTold
<1>7. \A o \in Declarations' : IsTrue(o)'
  BY <1>5, CorpusStays
<1>8. ASSUME NEW f \in FilesRead', NEW S, S = ids \cup more
      PROVE  IsTold(f, S)'
  BY <1>6, <1>8, CorpusStays
<1> QED BY <1>4, <1>7, <1>8 DEF SinkFollowsTheFiles

LEMMA SinkStays ==
  ASSUME SinkFollowsTheFiles, corpus' = corpus, sink' = sink, FilesRead' = FilesRead
  PROVE  SinkFollowsTheFiles'
<1>1. Declarations' = Declarations
  BY DEF Declarations
<1> QED BY <1>1, CorpusStays DEF SinkFollowsTheFiles

LEMMA CorpusStarts == CorpusInit => LoopInv
<1> SUFFICES ASSUME CorpusInit PROVE LoopInv
  OBVIOUS
<1>1. /\ corpus \in Corpora /\ file = 1 /\ file \in 1..Len(corpus)
      /\ JclDeck(corpus[1]) \in Decks /\ CsdLines(corpus[1]) \in Seq(C!Line)
  BY FilesOfCorpus DEF CorpusInit
<1>2. Init
  BY <1>1 DEF CorpusInit, Init
<1>3. JclInv
  BY <1>2, InitInv
<1>4. C!CsdInv
  BY <1>1, ReaderStarts DEF CorpusInit
<1>5. SinkKeepsContract
  BY NothingObserved DEF CorpusInit, SinkKeepsContract
<1>6. LoopStands
  BY <1>1 DEF CorpusInit, LoopStands
<1>7. SinkFollowsTheFiles
  <2>1. sink = <<>> /\ FilesRead = 1..(1 - 1)
    BY DEF CorpusInit, FilesRead
  <2>2. FilesRead = {} /\ DOMAIN sink = {}
    BY <2>1
  <2>3. Declarations = {}
    BY <2>2 DEF Declarations, Range
  <2> QED BY <2>2, <2>3 DEF SinkFollowsTheFiles
<1> QED BY <1>1, <1>3, <1>4, <1>5, <1>6, <1>7 DEF LoopInv, CorpusInv

\* What an extractor that has read its file hands on is fit to join the sink.
LEMMA HandedKept ==
  ASSUME FileIds \subseteq GraphIds, LoopInv, FileRead
  PROVE  sink \o Handed \in Seq(R!Obs) /\ R!ExtractorContract(sink \o Handed)
<1>1. /\ corpus \in Corpora /\ file \in 1..Len(corpus) /\ file \in Nat
      /\ cdeck = CsdLines(corpus[file]) /\ JclInv /\ C!CsdInv
      /\ sink \in Seq(R!Obs) /\ R!ExtractorContract(sink)
  BY FilesOfCorpus DEF LoopInv, CorpusInv, LoopStands, SinkKeepsContract
<1>2. Handed \in Seq(R!Obs) /\ KeptAll(Members(Handed))
  <2>1. CASE IsCsd(corpus[file])
    <3>1. C!Finished /\ IsDefinitions(cdeck) /\ Handed = CsdHanded
      BY <1>1, <2>1, FilesOfCorpus DEF FileRead, Handed, IsCsd
    <3> QED BY <1>1, <3>1, CsdKept
  <2>2. CASE ~IsCsd(corpus[file])
    <3>1. Handed = JclHanded
      BY <2>2 DEF Handed, IsCsd
    <3> QED BY <1>1, <3>1, JclKept
  <2> QED BY <2>1, <2>2
<1>3. KeptAll(Members(sink))
  BY <1>1, ContractOfMembers
<1>4. sink \o Handed \in Seq(R!Obs) /\ Members(sink \o Handed) = Members(sink) \cup Members(Handed)
  BY <1>1, <1>2, MembersOfConcat
<1>5. KeptAll(Members(sink) \cup Members(Handed))
  BY <1>2, <1>3, KeptTogether
<1> QED BY <1>4, <1>5, ContractOfMembers

LEMMA ExtractKeeps == LoopInv /\ Extract => LoopInv'
<1> SUFFICES ASSUME LoopInv, Extract PROVE LoopInv'
  OBVIOUS
<1>1. corpus \in Corpora /\ LoopStands /\ JclInv /\ C!CsdInv /\ SinkKeepsContract
  BY DEF LoopInv, CorpusInv
<1>2. UNCHANGED <<driver, sink, resolver>>
  BY DEF Extract
<1>3. (Next /\ UNCHANGED csdVars) \/ (C!Next /\ UNCHANGED jclVars)
  BY DEF Extract
<1>4. JclInv'
  <2>1. [Next]_vars
    BY <1>3 DEF vars, jclVars
  <2> QED BY <1>1, <2>1, NextInv
<1>5. (C!CsdInv)'
  BY <1>1, <1>3, ReaderSteps
<1>6. deck' = deck /\ cdeck' = cdeck
  <2>1. Next => deck' = deck
    BY DEF Next, ReadJob, ReadJcllib, ReadProc, ReadExec, ReadDd, ReadOverride, SkipLine, Read
  <2>2. C!Next => cdeck' = cdeck
    BY DEF C!Next, C!StartBlock, C!JoinLine, C!EndOfFile, C!HandleTransaction, C!HandleProgram,
           C!HandleMapset, C!HandleFile, C!HandleOther, C!Observe
  <2> QED BY <1>3, <2>1, <2>2 DEF jclVars, csdVars
<1>7. LoopStands'
  BY <1>1, <1>2, <1>6 DEF LoopStands, driver, resolver
<1>8. SinkKeepsContract'
  BY <1>1, <1>2 DEF SinkKeepsContract
<1>9. SinkFollowsTheFiles'
  <2>1. FilesRead' = FilesRead
    BY <1>2 DEF FilesRead, driver, resolver
  <2> QED BY <1>2, <2>1, SinkStays DEF LoopInv, CorpusInv, driver
<1> QED BY <1>1, <1>2, <1>4, <1>5, <1>7, <1>8, <1>9 DEF LoopInv, CorpusInv, driver

LEMMA NextFileKeeps ==
  ASSUME FileIds \subseteq GraphIds
  PROVE  LoopInv /\ NextFile => LoopInv'
<1> SUFFICES ASSUME LoopInv, NextFile PROVE LoopInv'
  OBVIOUS
<1>1. /\ corpus \in Corpora /\ LoopStands /\ corpus' = corpus /\ file' = file + 1
      /\ file' \in 1..Len(corpus) /\ FileRead
  <2>1. corpus \in Corpora /\ LoopStands /\ file \in 1..Len(corpus) /\ Len(corpus) \in Nat
    BY FilesOfCorpus DEF LoopInv, CorpusInv, LoopStands
  <2> QED BY <2>1 DEF NextFile
<1>2. JclDeck(corpus[file + 1]) \in Decks /\ CsdLines(corpus[file + 1]) \in Seq(C!Line)
  BY <1>1, FilesOfCorpus
<1>3. Init'
  BY <1>2 DEF NextFile, Init
<1>4. JclInv'
  <2>1. (Init => JclInv)'
    BY InitInv, PTL
  <2> QED BY <1>3, <2>1
<1>5. (C!CsdInv)'
  <2>1. (/\ cdeck \in Seq(C!Line) /\ cphase = "split" /\ cat = 1 /\ cstart = 0
         /\ cblocks = <<>> /\ cout = {}
         => C!CsdInv)'
    BY ReaderStarts, PTL
  <2> QED BY <1>2, <2>1 DEF NextFile
<1>6. SinkKeepsContract'
  <2>1. sink' = sink \o Handed
    BY DEF NextFile
  <2> QED BY <1>1, <2>1, HandedKept DEF SinkKeepsContract
<1>7. LoopStands'
  <2>1. /\ deck' = JclDeck(corpus'[file']) /\ cdeck' = CsdLines(corpus'[file'])
        /\ UNCHANGED resolver /\ pc = "extract"
    BY <1>1 DEF NextFile, FileRead
  <2> QED BY <1>1, <2>1 DEF LoopStands, resolver
<1>8. SinkFollowsTheFiles'
  <2>1. pc = "extract" /\ pc' = "extract" /\ file \in Nat /\ sink' = sink \o Handed
    BY <1>1, FilesOfCorpus DEF NextFile, FileRead, resolver, LoopStands
  <2>2. 1..((file + 1) - 1) = 1..(file - 1) \cup {file}
    <3>1. file >= 1
      BY <1>1, FilesOfCorpus DEF LoopStands
    <3> QED BY <2>1, <3>1
  <2>3. FilesRead' \subseteq FilesRead \cup {file}
    BY <1>1, <2>1, <2>2 DEF FilesRead
  <2> QED BY <1>1, <2>1, <2>3, SinkFollowsOn
<1> QED BY <1>1, <1>4, <1>5, <1>6, <1>7, <1>8 DEF LoopInv, CorpusInv

LEMMA HandOverKeeps ==
  ASSUME FileIds \subseteq GraphIds
  PROVE  LoopInv /\ HandOver => LoopInv'
<1> SUFFICES ASSUME LoopInv, HandOver PROVE LoopInv'
  OBVIOUS
<1>1. corpus \in Corpora /\ LoopStands /\ JclInv /\ C!CsdInv
  BY DEF LoopInv, CorpusInv
<1>2. UNCHANGED <<driver, jclVars, csdVars>> /\ sink' = sink \o Handed /\ pc' = "index" /\ FileRead
  BY DEF HandOver
<1>3. JclInv'
  <2>1. [Next]_vars
    BY <1>2 DEF vars, jclVars
  <2> QED BY <1>1, <2>1, NextInv
<1>4. (C!CsdInv)'
  BY <1>1, <1>2, ReaderSteps
<1>5. SinkKeepsContract'
  BY <1>2, HandedKept DEF SinkKeepsContract
<1>6. LoopStands'
  BY <1>1, <1>2 DEF LoopStands, driver, jclVars, csdVars
<1>7. SinkFollowsTheFiles'
  <2>1. /\ pc = "extract" /\ pc' # "extract" /\ file = Len(corpus) /\ corpus' = corpus
        /\ file \in Nat /\ file >= 1
    BY <1>1, <1>2, FilesOfCorpus DEF HandOver, FileRead, driver, LoopStands
  <2>2. 1..file = 1..(file - 1) \cup {file}
    BY <2>1
  <2>3. FilesRead' \subseteq FilesRead \cup {file}
    BY <2>1, <2>2 DEF FilesRead
  <2> QED BY <1>2, <2>1, <2>3, SinkFollowsOn
<1> QED BY <1>1, <1>2, <1>3, <1>4, <1>5, <1>6, <1>7 DEF LoopInv, CorpusInv, driver

LEMMA ResolveKeeps == LoopInv /\ Resolve => LoopInv'
<1> SUFFICES ASSUME LoopInv, Resolve PROVE LoopInv'
  OBVIOUS
<1>1. corpus \in Corpora /\ LoopStands /\ JclInv /\ C!CsdInv /\ SinkKeepsContract
  BY DEF LoopInv, CorpusInv
<1>2. UNCHANGED <<driver, jclVars, csdVars>> /\ pc # "extract" /\ R!Next
  BY DEF Resolve
<1>3. sink' = sink /\ pc' # "extract"
  <2>1. CASE \E p \in {"index", "merge", "programs", "online", "resolve"} : R!Handles(p)
    BY <1>2, <2>1 DEF R!Handles
  <2>2. CASE R!Skip
    BY <1>2, <2>2 DEF R!Skip
  <2>3. CASE R!EndOfLoop
    BY <2>3 DEF R!EndOfLoop, R!NextPhase
  <2>4. CASE R!DeriveExpandsTo \/ R!DeriveProperties \/ R!CollectPartial \/ R!Finish
    BY <1>2, <2>4 DEF R!DeriveExpandsTo, R!DeriveProperties, R!CollectPartial, R!Finish
  <2>5. /\ R!IndexBinding => R!Handles("index")
        /\ R!Merge => R!Handles("merge")
        /\ R!MarkCsdOnly => R!Handles("programs")
        /\ R!MaterializeOnline => R!Handles("online")
        /\ R!ResolveEdge => R!Handles("resolve")
    BY DEF R!IndexBinding, R!Merge, R!MarkCsdOnly, R!MaterializeOnline, R!ResolveEdge
  <2> QED BY <1>2, <2>1, <2>2, <2>3, <2>4, <2>5 DEF R!Next
<1>4. JclInv'
  <2>1. [Next]_vars
    BY <1>2 DEF vars, jclVars
  <2> QED BY <1>1, <2>1, NextInv
<1>5. (C!CsdInv)'
  BY <1>1, <1>2, ReaderSteps
<1>6. SinkKeepsContract'
  BY <1>1, <1>3 DEF SinkKeepsContract
<1>7. LoopStands'
  BY <1>1, <1>2, <1>3 DEF LoopStands, driver, jclVars, csdVars
<1>8. SinkFollowsTheFiles'
  <2>1. FilesRead' = FilesRead /\ corpus' = corpus
    BY <1>2, <1>3 DEF FilesRead, driver
  <2> QED BY <1>3, <2>1, SinkStays DEF LoopInv, CorpusInv
<1> QED BY <1>1, <1>2, <1>4, <1>5, <1>6, <1>7, <1>8 DEF LoopInv, CorpusInv, driver

LEMMA CorpusSteps ==
  ASSUME FileIds \subseteq GraphIds
  PROVE  LoopInv /\ [CorpusNext]_<<driver, sink, jclVars, csdVars, resolver>> => LoopInv'
<1>1. LoopInv /\ UNCHANGED <<driver, sink, jclVars, csdVars, resolver>> => LoopInv'
  <2> SUFFICES ASSUME LoopInv, UNCHANGED <<driver, sink, jclVars, csdVars, resolver>> PROVE LoopInv'
    OBVIOUS
  <2>1. corpus \in Corpora /\ LoopStands /\ JclInv /\ C!CsdInv /\ SinkKeepsContract
    BY DEF LoopInv, CorpusInv
  <2>2. JclInv'
    <3>1. [Next]_vars
      BY DEF vars, jclVars
    <3> QED BY <2>1, <3>1, NextInv
  <2>3. (C!CsdInv)'
    BY <2>1, ReaderSteps
  <2>4. LoopStands'
    BY <2>1 DEF LoopStands, driver, jclVars, csdVars, resolver
  <2>5. SinkKeepsContract'
    BY <2>1 DEF SinkKeepsContract
  <2>6. SinkFollowsTheFiles'
    <3>1. FilesRead' = FilesRead
      BY DEF FilesRead, driver, resolver
    <3> QED BY <3>1, SinkStays DEF LoopInv, CorpusInv, driver
  <2> QED BY <2>1, <2>2, <2>3, <2>4, <2>5, <2>6 DEF LoopInv, CorpusInv, driver
<1> QED BY <1>1, ExtractKeeps, NextFileKeeps, HandOverKeeps, ResolveKeeps DEF CorpusNext

LEMMA LoopHolds ==
  ASSUME FileIds \subseteq GraphIds
  PROVE  CorpusSpec => []LoopInv
BY CorpusStarts, CorpusSteps, PTL DEF CorpusSpec

\* After every file of every corpus the extractors' own invariants hold and what they
\* have observed keeps the contract of the resolver.
THEOREM CorpusInvariant ==
  ASSUME FileIds \subseteq GraphIds
  PROVE  CorpusSpec => []CorpusInv
<1>1. LoopInv => CorpusInv
  BY DEF LoopInv
<1> QED BY <1>1, LoopHolds, PTL

\* What the resolver is given keeps the contract its theorems assume.
THEOREM ContractHolds ==
  ASSUME FileIds \subseteq GraphIds
  PROVE  CorpusSpec => []HandOverKeepsContract
<1>1. LoopInv => HandOverKeepsContract
  BY DEF LoopInv, CorpusInv, HandOverKeepsContract
<1> QED BY <1>1, LoopHolds, PTL

-----------------------------------------------------------------------------
(* The resolver, by its own theorems *)

Contracted == {s \in Seq(R!Obs) : R!ExtractorContract(s)}

RP == INSTANCE ResolverProofs WITH
  Ids <- GraphIds, TypeOf <- TypeOfId, Files <- CsdNames, FileOf <- FileOfId,
  Paths <- Nat, DDs <- Labels, Inputs <- Contracted, NoId <- Absent,
  obs <- sink, at <- pos

LEMMA SameVocabulary ==
  /\ RP!EntityTypes = R!EntityTypes
  /\ RP!Obs = R!Obs
  /\ RP!Entity = R!Entity
  /\ \A s : RP!ExtractorContract(s) <=> R!ExtractorContract(s)
  /\ RP!NoMetrics = R!NoMetrics
BY DEF RP!EntityTypes, R!EntityTypes, RP!EdgeTypes, R!EdgeTypes, RP!Rules, R!Rules,
       RP!EntityObs, R!EntityObs, RP!CsdObs, R!CsdObs, RP!EdgeObs, R!EdgeObs, RP!Obs, R!Obs,
       RP!Origins, R!Origins, RP!Entity, R!Entity, RP!ExtractorContract, R!ExtractorContract,
       RP!NoMetrics, R!NoMetrics

\* The theorems of the resolver assume nothing this corpus does not keep.
LEMMA ResolverPremises ==
  /\ TypeOfId \in [GraphIds -> RP!EntityTypes \cup {"Unresolved"}]
  /\ FileOfId \in [{id \in GraphIds : TypeOfId[id] = "LogicalFile"} -> CsdNames]
  /\ Contracted \subseteq Seq(RP!Obs)
  /\ \A s \in Contracted : RP!ExtractorContract(s)
  /\ Absent \notin GraphIds
  /\ NoEntity \notin RP!Entity
<1>1. TypeOfId \in [GraphIds -> R!EntityTypes]
  BY TypesOfPrefixes DEF TypeOfId
<1>2. \A id \in GraphIds : TypeOfId[id] = "LogicalFile" <=> id[1] = "logical-file"
  <2>1. TypeOfPrefix["logical-file"] = "LogicalFile"
    BY DEF TypeOfPrefix, IdPrefixes
  <2> QED BY <2>1, TypesOfPrefixes, PrefixTypes
<1>3. FileOfId \in [{id \in GraphIds : TypeOfId[id] = "LogicalFile"} -> CsdNames]
  <2>1. {id \in GraphIds : TypeOfId[id] = "LogicalFile"} = {id \in GraphIds : id[1] = "logical-file"}
    BY <1>2
  <2>2. \A id \in GraphIds : id[1] = "logical-file" => id[2] \in CsdNames
    BY CorpusAssumption
  <2> QED BY <2>1, <2>2 DEF FileOfId
<1> QED BY <1>1, <1>3, SameVocabulary, CorpusAssumption DEF Contracted

\* Both instances read the observations and the graph alike.
LEMMA SameReading ==
  /\ \A k, id : R!IsCandidate(k, id) <=> RP!IsCandidate(k, id)
  /\ \A id : R!Candidates(id) = RP!Candidates(id)
  /\ \A k : R!IsFirstCandidate(k) <=> RP!IsFirstCandidate(k)
  /\ \A id : R!MergedEntity(id) = RP!MergedEntity(id)
  /\ \A id : R!SourcePaths(id) = RP!SourcePaths(id)
  /\ \A id : R!CsdOnly(id) <=> RP!CsdOnly(id)
  /\ R!Known = RP!Known
  /\ \A id : R!IsPartial(id) <=> RP!IsPartial(id)
  /\ R!Reported = RP!Reported
BY DEF R!IsCandidate, RP!IsCandidate, R!Candidates, RP!Candidates, R!IsFirstCandidate,
       RP!IsFirstCandidate, R!MergedEntity, RP!MergedEntity, R!FirstOwner, RP!FirstOwner,
       R!FirstInvoked, RP!FirstInvoked, R!Earliest, RP!Earliest, R!SourcePaths, RP!SourcePaths,
       R!CsdOnly, RP!CsdOnly, R!Known, RP!Known, R!IsPartial, RP!IsPartial,
       R!Reported, RP!Reported, R!IdsOf, RP!IdsOf

LEMMA SameCounting == \A S : R!Cardinality(S) = RP!Cardinality(S)
BY Zenon DEF R!Cardinality, RP!Cardinality

LEMMA SameMetrics == \A id : R!MetricsOf(id) = RP!MetricsOf(id)
<1>1. /\ \A id : R!EntityType(id) = RP!EntityType(id)
      /\ \A id : R!EdgesInto(id) = RP!EdgesInto(id) /\ R!EdgesFrom(id) = RP!EdgesFrom(id)
      /\ R!FileAccess = RP!FileAccess /\ R!PlumbingDD = RP!PlumbingDD
  BY DEF R!EntityType, RP!EntityType, R!EdgesInto, RP!EdgesInto, R!EdgesFrom, RP!EdgesFrom,
         R!FileAccess, RP!FileAccess, R!PlumbingDD, RP!PlumbingDD
<1>2. \A id : R!IsAppProgram(id) <=> RP!IsAppProgram(id)
  BY <1>1, SameReading DEF R!IsAppProgram, RP!IsAppProgram
<1>3. \A id : R!BoundTo(id) = RP!BoundTo(id) /\ R!InvokedBy(id) = RP!InvokedBy(id)
  BY <1>1 DEF R!BoundTo, RP!BoundTo, R!InvokedBy, RP!InvokedBy
<1>4. \A p : R!OnlineDatasets(p) = RP!OnlineDatasets(p)
  BY <1>1, <1>3 DEF R!OnlineDatasets, RP!OnlineDatasets
<1>5. \A p : R!BatchDatasets(p) = RP!BatchDatasets(p)
  BY <1>1, <1>3 DEF R!BatchDatasets, RP!BatchDatasets
<1>6. \A p : R!Accessed(p) = RP!Accessed(p)
  BY <1>2, <1>4, <1>5 DEF R!Accessed, RP!Accessed
<1>7. R!Population = RP!Population
  BY <1>6, SameReading DEF R!Population, RP!Population
<1>8. \A d : R!Accessors(d) = RP!Accessors(d)
  BY <1>6, <1>7 DEF R!Accessors, RP!Accessors
<1>9. \A p : R!Coupled(p) = RP!Coupled(p)
  <2> SUFFICES ASSUME NEW p PROVE R!Coupled(p) = RP!Coupled(p)
    OBVIOUS
  <2>1. \A q : R!Accessed(q) = RP!Accessed(q)
    BY <1>6
  <2>2. {q \in R!Population \ {p} : R!Accessed(q) \cap R!Accessed(p) # {}}
        = {q \in RP!Population \ {p} : RP!Accessed(q) \cap RP!Accessed(p) # {}}
    BY <1>7, <2>1
  <2> QED BY <1>7, <2>1, <2>2, SameCounting, Zenon DEF R!Coupled, RP!Coupled
<1>10. ASSUME NEW id
       PROVE  R!MetricsOf(id) = RP!MetricsOf(id)
  <2>1. /\ R!EntityType(id) = RP!EntityType(id)
        /\ R!EdgesInto(id) = RP!EdgesInto(id) /\ R!EdgesFrom(id) = RP!EdgesFrom(id)
        /\ (R!IsAppProgram(id) <=> RP!IsAppProgram(id))
        /\ R!Population = RP!Population
        /\ R!Accessors(id) = RP!Accessors(id) /\ R!Coupled(id) = RP!Coupled(id)
    BY <1>1, <1>2, <1>7, <1>8, <1>9
  <2> QED BY <2>1, SameCounting, Zenon DEF R!MetricsOf, RP!MetricsOf
<1> QED BY <1>10

LEMMA SameResolution == R!Next => RP!Next
<1>1. /\ \A k, origin, partial : R!SeenAt(k, origin, partial) = RP!SeenAt(k, origin, partial)
      /\ \A ents, id : R!NeedsPlaceholder(ents, id) <=> RP!NeedsPlaceholder(ents, id)
      /\ \A ents, id : R!NeedsUnresolved(ents, id) <=> RP!NeedsUnresolved(ents, id)
  BY SameVocabulary DEF R!SeenAt, RP!SeenAt, R!NeedsPlaceholder, RP!NeedsPlaceholder,
     R!NeedsUnresolved, RP!NeedsUnresolved
<1>2. /\ \A ents, id, k : R!EnsureEndpoint(ents, id, k) = RP!EnsureEndpoint(ents, id, k)
      /\ \A ents, id, k : R!MaterializeUnresolved(ents, id, k) = RP!MaterializeUnresolved(ents, id, k)
      /\ \A ents, id, log : R!ReportEndpoint(ents, id, log) = RP!ReportEndpoint(ents, id, log)
      /\ \A ents, id, log : R!ReportUnresolved(ents, id, log) = RP!ReportUnresolved(ents, id, log)
  BY <1>1 DEF R!EnsureEndpoint, RP!EnsureEndpoint, R!MaterializeUnresolved, RP!MaterializeUnresolved,
     R!ReportEndpoint, RP!ReportEndpoint, R!ReportUnresolved, RP!ReportUnresolved
<1>3. \A k : R!Acts(k) <=> RP!Acts(k)
  BY SameReading DEF R!Acts, RP!Acts, R!Materializes, RP!Materializes
<1>4. \A p : R!Handles(p) <=> RP!Handles(p)
  BY <1>3 DEF R!Handles, RP!Handles
<1>5. R!Skip => RP!Skip
  BY <1>3 DEF R!Skip, RP!Skip, R!Loops, RP!Loops
<1>6. R!EndOfLoop => RP!EndOfLoop
  BY DEF R!EndOfLoop, RP!EndOfLoop, R!Loops, RP!Loops, R!NextPhase, RP!NextPhase
<1>7. R!IndexBinding => RP!IndexBinding
  BY <1>4 DEF R!IndexBinding, RP!IndexBinding
<1>8. R!Merge => RP!Merge
  <2>1. \A id : R!MergedEntity(id) = RP!MergedEntity(id) /\ R!SourcePaths(id) = RP!SourcePaths(id)
    BY SameReading
  <2> QED BY <1>4, <2>1, SameCounting, Zenon DEF R!Merge, RP!Merge
<1>9. R!MarkCsdOnly => RP!MarkCsdOnly
  BY <1>4 DEF R!MarkCsdOnly, RP!MarkCsdOnly
<1>10. R!MaterializeOnline => RP!MaterializeOnline
  BY <1>1, <1>4 DEF R!MaterializeOnline, RP!MaterializeOnline
<1>11. R!ResolveEdge => RP!ResolveEdge
  BY <1>2, <1>4 DEF R!ResolveEdge, RP!ResolveEdge
<1>12. R!DeriveExpandsTo => RP!DeriveExpandsTo
  <2>1. R!Expansions = RP!Expansions
    BY SameReading DEF R!Expansions, RP!Expansions
  <2> QED BY <2>1 DEF R!DeriveExpandsTo, RP!DeriveExpandsTo
<1>13. R!DeriveProperties => RP!DeriveProperties
  BY SameReading, SameMetrics, SameVocabulary DEF R!DeriveProperties, RP!DeriveProperties
<1>14. R!CollectPartial => RP!CollectPartial
  BY SameReading DEF R!CollectPartial, RP!CollectPartial
<1>15. R!Finish => RP!Finish
  BY SameReading DEF R!Finish, RP!Finish
<1> QED BY <1>5, <1>6, <1>7, <1>8, <1>9, <1>10, <1>11, <1>12, <1>13, <1>14, <1>15
        DEF R!Next, RP!Next

\* From the hand-over on the resolver is in a state its own theorems speak of.
ResolverStands == pc # "extract" => RP!ResolverInv

LEMMA ResolverInitial == RP!Init => RP!ResolverInv
BY RP!InitResolverInv, ResolverPremises

LEMMA ResolverStarts ==
  ASSUME FileIds \subseteq GraphIds, LoopInv, HandOver
  PROVE  ResolverStands'
<1>1. sink' \in Seq(R!Obs) /\ R!ExtractorContract(sink')
  BY HandedKept DEF HandOver
<1>2. /\ pos = 1 /\ edges = {} /\ unresolved = <<>> /\ conflicts = {}
      /\ csd = [f \in CsdNames |-> Absent]
      /\ entities = [id \in GraphIds |-> NoEntity]
      /\ metrics = [id \in GraphIds |-> RP!NoMetrics]
  BY SameVocabulary DEF LoopInv, CorpusInv, LoopStands, HandOver, FileRead
<1>3. RP!Init'
  <2>1. sink' \in Contracted
    BY <1>1 DEF Contracted
  <2> QED BY <1>2, <2>1 DEF HandOver, RP!Init, RP!NoMetrics
<1>4. (RP!Init => RP!ResolverInv)'
  BY ResolverInitial, PTL
<1> QED BY <1>3, <1>4 DEF ResolverStands

LEMMA ResolverSteps ==
  ASSUME ResolverStands, Resolve
  PROVE  ResolverStands'
<1>1. RP!ResolverInv /\ [RP!Next]_(RP!vars)
  BY SameResolution DEF ResolverStands, Resolve
<1>2. (RP!ResolverInv)'
  BY <1>1, RP!NextResolverInv, ResolverPremises
<1> QED BY <1>2 DEF ResolverStands

LEMMA ResolverWaits ==
  ASSUME ResolverStands, UNCHANGED <<sink, resolver>>
  PROVE  ResolverStands'
<1>1. CASE pc # "extract"
  <2>1. RP!ResolverInv /\ [RP!Next]_(RP!vars)
    BY <1>1 DEF ResolverStands, RP!vars, resolver
  <2>2. (RP!ResolverInv)'
    BY <2>1, RP!NextResolverInv, ResolverPremises
  <2> QED BY <2>2 DEF ResolverStands
<1>2. CASE pc = "extract"
  BY <1>2 DEF ResolverStands, resolver
<1> QED BY <1>1, <1>2

LEMMA ResolverHolds ==
  ASSUME FileIds \subseteq GraphIds
  PROVE  CorpusSpec => [](LoopInv /\ ResolverStands)
<1>1. CorpusInit => LoopInv /\ ResolverStands
  <2>1. CorpusInit => ResolverStands
    BY DEF CorpusInit, ResolverStands
  <2> QED BY <2>1, CorpusStarts
<1>2. LoopInv /\ ResolverStands /\ [CorpusNext]_<<driver, sink, jclVars, csdVars, resolver>>
      => (LoopInv /\ ResolverStands)'
  <2> SUFFICES ASSUME LoopInv, ResolverStands,
                      [CorpusNext]_<<driver, sink, jclVars, csdVars, resolver>>
               PROVE  (LoopInv /\ ResolverStands)'
    OBVIOUS
  <2>1. LoopInv'
    BY CorpusSteps
  <2>2. CASE Extract
    BY <2>1, <2>2, ResolverWaits DEF Extract
  <2>3. CASE NextFile
    BY <2>1, <2>3 DEF NextFile, FileRead, ResolverStands, resolver
  <2>4. CASE HandOver
    BY <2>1, <2>4, ResolverStarts
  <2>5. CASE Resolve
    BY <2>1, <2>5, ResolverSteps
  <2>6. CASE UNCHANGED <<driver, sink, jclVars, csdVars, resolver>>
    BY <2>1, <2>6, ResolverWaits
  <2> QED BY <2>2, <2>3, <2>4, <2>5, <2>6 DEF CorpusNext
<1> QED BY <1>1, <1>2, PTL DEF CorpusSpec

\* Whatever the files and their order, the graph made of them is whole: no edge
\* dangles, the report lists the partial entities once each, every reference an
\* extractor emitted is an edge, a declaration outranks the references, online files
\* are bound as the last DEFINE FILE says, and a procedure whose steps come from two
\* files is in the ledger.
THEOREM GraphOfTheFiles ==
  ASSUME FileIds \subseteq GraphIds
  PROVE  CorpusSpec => [](pc # "extract" =>
           /\ R!EdgesClosed /\ R!PartialsReportedOnce /\ R!NothingDropped
           /\ R!ObservedOutranksReferenced /\ R!OnlineFilesBound /\ R!MixedExpansionInLedger
           /\ R!StepsHaveOneOwner => R!ExpansionComplete)
<1>1. RP!ResolverInv =>
        /\ RP!EdgesClosed /\ RP!PartialsReportedOnce /\ RP!NothingDropped
        /\ RP!ObservedOutranksReferenced /\ RP!OnlineFilesBound /\ RP!MixedExpansionInLedger
        /\ RP!StepsHaveOneOwner => RP!ExpansionComplete
  <2>1. RP!ResolverInv => RP!GraphInv
    BY DEF RP!ResolverInv
  <2>2. RP!GraphInv => RP!EdgesClosed /\ RP!PartialsReportedOnce
    BY DEF RP!GraphInv
  <2>3. RP!GraphInv => RP!ObservedOutranksReferenced
    BY RP!InvOutrank, ResolverPremises
  <2>4. RP!ResolverInv => RP!NothingDropped
    BY RP!InvSurvive, ResolverPremises
  <2>5. RP!ResolverInv => RP!OnlineFilesBound
    BY RP!InvBound, ResolverPremises
  <2>6. RP!ResolverInv => RP!MixedExpansionInLedger
    BY RP!InvLogged, ResolverPremises
  <2>7. RP!ResolverInv => (RP!StepsHaveOneOwner => RP!ExpansionComplete)
    BY RP!InvComplete, ResolverPremises
  <2> QED BY <2>1, <2>2, <2>3, <2>4, <2>5, <2>6, <2>7
<1>2. RP!EdgesClosed => R!EdgesClosed
  BY SameReading DEF RP!EdgesClosed, R!EdgesClosed
<1>3. RP!PartialsReportedOnce => R!PartialsReportedOnce
  BY SameReading DEF RP!PartialsReportedOnce, R!PartialsReportedOnce, RP!Distinct, R!Distinct
<1>4. RP!NothingDropped => R!NothingDropped
  BY SameReading DEF RP!NothingDropped, R!NothingDropped
<1>5. RP!ObservedOutranksReferenced => R!ObservedOutranksReferenced
  BY SameReading DEF RP!ObservedOutranksReferenced, R!ObservedOutranksReferenced
<1>6. RP!OnlineFilesBound => R!OnlineFilesBound
  <2>1. \A id : RP!BoundTo(id) = R!BoundTo(id)
    BY DEF RP!BoundTo, R!BoundTo, RP!EdgesFrom, R!EdgesFrom
  <2> QED BY <2>1, SameReading DEF RP!OnlineFilesBound, R!OnlineFilesBound
<1>7. RP!MixedExpansionInLedger => R!MixedExpansionInLedger
  BY SameReading DEF RP!MixedExpansionInLedger, R!MixedExpansionInLedger
<1>8. R!StepsHaveOneOwner => RP!StepsHaveOneOwner
  BY DEF RP!StepsHaveOneOwner, R!StepsHaveOneOwner
<1>9. RP!ExpansionComplete => R!ExpansionComplete
  BY SameReading DEF RP!ExpansionComplete, R!ExpansionComplete
<1>10. LoopInv /\ ResolverStands =>
         (pc # "extract" =>
           /\ R!EdgesClosed /\ R!PartialsReportedOnce /\ R!NothingDropped
           /\ R!ObservedOutranksReferenced /\ R!OnlineFilesBound /\ R!MixedExpansionInLedger
           /\ R!StepsHaveOneOwner => R!ExpansionComplete)
  BY <1>1, <1>2, <1>3, <1>4, <1>5, <1>6, <1>7, <1>8, <1>9 DEF ResolverStands
<1> QED BY <1>10, ResolverHolds, PTL

-----------------------------------------------------------------------------
(* The graph and the files *)

LEMMA PrefixesOfTypes ==
  ASSUME NEW id \in GraphIds
  PROVE  /\ TypeOfId[id] = "JCLStep" <=> id[1] = "jcl-step"
         /\ TypeOfId[id] = "JCLProcInvocation" <=> id[1] = "jcl-proc-inv"
         /\ TypeOfId[id] = "Program" <=> id[1] = "program"
         /\ TypeOfId[id] \in R!EntityTypes
<1>1. /\ \A p \in IdPrefixes :
           /\ TypeOfPrefix[p] = "JCLStep" <=> p = "jcl-step"
           /\ TypeOfPrefix[p] = "JCLProcInvocation" <=> p = "jcl-proc-inv"
           /\ TypeOfPrefix[p] = "Program" <=> p = "program"
  BY DEF TypeOfPrefix, IdPrefixes
<1> QED BY <1>1, TypesOfPrefixes

\* When the files are read, what is declared in the sink is what they declare.
LEMMA DeclaredInFiles ==
  ASSUME FileIds \subseteq GraphIds, LoopInv, pc # "extract"
  PROVE  /\ \A id : \A k \in R!Candidates(id) : sink[k].id = id /\ IsTrue(sink[k]) /\ sink[k] \in R!Obs
         /\ \A x \in Execs : /\ R!Candidates(StepOf(x)) # {}
                             /\ Callee(x) # Absent => R!Candidates(InvocationBy(x)) # {}
         /\ \A id : id[1] = "program" => (R!Candidates(id) # {} <=> id \in DefinedPrograms)
<1> DEFINE ids == {o.id : o \in Declarations}
<1>1. /\ sink \in Seq(R!Obs) /\ SinkFollowsTheFiles /\ FilesRead = 1..Len(corpus)
  BY DEF LoopInv, CorpusInv, SinkKeepsContract, FilesRead
<1>2. Len(sink) \in Nat /\ \A k \in 1..Len(sink) : sink[k] \in R!Obs
  BY <1>1, ElementOfSeq, LenProperties
<1>3. Declarations = {o \in {sink[k] : k \in 1..Len(sink)} : o.kind = "entity"}
  BY <1>1, RangeOfSequence DEF Declarations, Members
<1>4. \A id : \A k \in R!Candidates(id) :
        /\ k \in 1..Len(sink) /\ sink[k].id = id /\ sink[k] \in Declarations /\ IsTrue(sink[k])
  BY <1>1, <1>3 DEF R!Candidates, R!IsCandidate, SinkFollowsTheFiles
<1>5. \A id \in ids : R!Candidates(id) # {}
  BY <1>3 DEF R!Candidates, R!IsCandidate
<1>6. \A f \in 1..Len(corpus) : IsTold(f, ids)
  BY <1>1 DEF SinkFollowsTheFiles
<1> HIDE DEF ids
<1>7. ASSUME NEW x \in Execs
      PROVE  StepOf(x) \in ids /\ (Callee(x) # Absent => InvocationBy(x) \in ids)
  <2>1. x[1] \in 1..Len(corpus)
    BY ExecsOfFiles
  <2> QED BY <1>6, <2>1 DEF IsTold
<1>8. \A id \in DefinedPrograms : id \in ids
  BY <1>6 DEF DefinedPrograms, IsTold
<1>9. \A id : id[1] = "program" /\ R!Candidates(id) # {} => id \in DefinedPrograms
  BY <1>4 DEF IsTrue
<1> QED BY <1>2, <1>4, <1>5, <1>7, <1>8, <1>9

\* Of the resolver's invariant, what it comes to at the end.
LEMMA AtTheEnd ==
  ASSUME RP!ResolverInv, pc = "done"
  PROVE  /\ RP!TypeOK
         /\ \A id \in GraphIds : R!Candidates(id) # {} => id \in R!Known
         /\ \A id \in R!Known :
              /\ id \in GraphIds
              /\ R!Candidates(id) # {} =>
                   (R!IsPartial(id) <=>
                      \/ \E k \in R!Candidates(id) : sink[k].partial
                      \/ TypeOfId[id] = "Program" /\ R!CsdOnly(id))
              /\ R!Candidates(id) = {} /\ TypeOfId[id] # "LogicalFile" => R!IsPartial(id)
              /\ entities[id].owner = RP!FirstOwner(id)
              /\ entities[id].invoked = RP!FirstInvoked(id)
         /\ \A id \in GraphIds : R!IsPartial(id) => id \in R!Reported
         /\ \A n \in 1..Len(unresolved) :
              unresolved[n].reason = "csd_only_no_source_body" <=> RP!DefinedOnly(unresolved[n].id)
<1>1. /\ RP!TypeOK /\ RP!MergeProgress /\ RP!OriginsSound /\ RP!PartialsReportedOnce
      /\ RP!OwnersKept /\ RP!EdgesAreThere /\ RP!ReasonsFit
  BY DEF RP!ResolverInv, RP!GraphInv
<1>2. \A id \in GraphIds : R!Candidates(id) # {} => id \in R!Known
  BY <1>1, SameReading DEF RP!MergeProgress
<1>3. \A id \in R!Known : id \in GraphIds /\ entities[id] # NoEntity /\ entities[id] \in RP!Entity
  BY <1>1 DEF R!Known, RP!TypeOK
<1>4. ASSUME NEW id \in R!Known
      PROVE  /\ R!Candidates(id) # {} =>
                  (R!IsPartial(id) <=>
                     \/ \E k \in R!Candidates(id) : sink[k].partial
                     \/ TypeOfId[id] = "Program" /\ R!CsdOnly(id))
             /\ R!Candidates(id) = {} /\ TypeOfId[id] # "LogicalFile" => R!IsPartial(id)
             /\ entities[id].owner = RP!FirstOwner(id)
             /\ entities[id].invoked = RP!FirstInvoked(id)
  <2>1. id \in RP!Known /\ R!Candidates(id) = RP!Candidates(id) /\ (R!CsdOnly(id) <=> RP!CsdOnly(id))
    BY SameReading
  <2>2. RP!Swept(id)
    BY DEF RP!Swept
  <2>3. entities[id].origin \in {"merged", "online", "placeholder", "unresolved"}
    BY <1>3 DEF RP!Entity, RP!Origins
  <2>4. /\ entities[id].origin = "online" => TypeOfId[id] = "LogicalFile"
        /\ entities[id].owner = RP!FirstOwner(id)
        /\ entities[id].invoked = RP!FirstInvoked(id)
    BY <1>1, <2>1 DEF RP!EdgesAreThere, RP!OwnersKept
  <2>5. R!IsPartial(id) <=> entities[id].partial
    BY <1>3 DEF R!IsPartial
  <2>6. /\ entities[id].origin = "merged" <=> R!Candidates(id) # {}
        /\ entities[id].origin = "merged" =>
             (entities[id].partial <=>
                \/ \E k \in R!Candidates(id) : sink[k].partial
                \/ TypeOfId[id] = "Program" /\ R!CsdOnly(id))
        /\ entities[id].origin \in {"placeholder", "unresolved"} => entities[id].partial
    BY <1>1, <2>1, <2>2 DEF RP!OriginsSound
  <2> QED BY <2>3, <2>4, <2>5, <2>6
<1> QED BY <1>1, <1>2, <1>3, <1>4, SameReading DEF RP!PartialsReportedOnce, RP!ReasonsFit

\* Steps are declared by an EXEC, or they are reported placeholders.
LEMMA StepsFollow ==
  ASSUME FileIds \subseteq GraphIds, LoopInv, RP!ResolverInv, pc = "done"
  PROVE  StepsAreDeclaredOrReported
<1>1. \A x \in Execs : StepOf(x) \in GraphIds /\ R!Candidates(StepOf(x)) # {}
  <2> SUFFICES ASSUME NEW x \in Execs
               PROVE  StepOf(x) \in GraphIds /\ R!Candidates(StepOf(x)) # {}
    OBVIOUS
  <2>1. PICK k \in R!Candidates(StepOf(x)) : sink[k].id = StepOf(x) /\ sink[k] \in R!Obs
    BY DeclaredInFiles
  <2>2. sink[k].kind = "entity"
    BY DEF R!Candidates, R!IsCandidate
  <2>3. sink[k].id \in GraphIds
    BY <2>1, <2>2 DEF R!Obs, R!EntityObs, R!CsdObs, R!EdgeObs
  <2> QED BY <2>1, <2>3
<1>2. \A x \in Execs : StepOf(x) \in R!Known
  BY <1>1, AtTheEnd
<1>3. ASSUME NEW id \in R!Known, TypeOfId[id] = "JCLStep"
      PROVE  IF id \in {StepOf(x) : x \in Execs} THEN ~R!IsPartial(id)
             ELSE R!IsPartial(id) /\ id \in R!Reported
  <2>1. id \in GraphIds /\ id[1] = "jcl-step"
    BY <1>3, AtTheEnd, PrefixesOfTypes
  <2>2. \A k \in R!Candidates(id) : ~sink[k].partial /\ id \in {StepOf(x) : x \in Execs}
    BY <2>1, DeclaredInFiles DEF IsTrue
  <2>3. CASE id \in {StepOf(x) : x \in Execs}
    <3>1. R!Candidates(id) # {}
      BY <1>1, <2>3
    <3>2. ~R!IsPartial(id)
      BY <1>3, <2>2, <3>1, AtTheEnd
    <3> QED BY <2>3, <3>2
  <2>4. CASE id \notin {StepOf(x) : x \in Execs}
    <3>1. R!Candidates(id) = {}
      BY <2>2, <2>4
    <3>2. R!IsPartial(id) /\ id \in R!Reported
      BY <1>3, <2>1, <3>1, AtTheEnd
    <3> QED BY <2>4, <3>2
  <2> QED BY <2>3, <2>4
<1> QED BY <1>2, <1>3 DEF StepsAreDeclaredOrReported

\* The owner of a step in the body of a procedure is the procedure, and of no other step.
LEMMA Owners ==
  ASSUME NEW x, NEW p
  PROVE  OwnerOf(x) = ProcId(p) <=> InBodyOf(x, p)
<1>1. \A m, n : JobId(m) # ProcId(n) /\ (ProcId(m) = ProcId(n) => m = n)
  BY DEF JobId, ProcId
<1> QED BY <1>1 DEF OwnerOf, InBodyOf

\* What the resolver took an invocation to call and a step to belong to.
LEMMA CalledAndOwned ==
  ASSUME FileIds \subseteq GraphIds, LoopInv, RP!ResolverInv, pc = "done"
  PROVE  /\ \A id \in R!Known : TypeOfId[id] = "JCLProcInvocation" /\ entities[id].invoked # Absent =>
              \E x \in Execs : /\ id = InvocationBy(x) /\ Callee(x) \in Names
                              /\ entities[id].invoked = ProcId(Callee(x))
         /\ \A id \in R!Known : TypeOfId[id] = "JCLStep" /\ entities[id].owner # Absent =>
              \E x \in Execs : id = StepOf(x) /\ entities[id].owner = OwnerOf(x)
<1>1. RP!TypeOK
  BY AtTheEnd
<1>2. ASSUME NEW id \in R!Known, TypeOfId[id] = "JCLProcInvocation", entities[id].invoked # Absent
      PROVE  \E x \in Execs : /\ id = InvocationBy(x) /\ Callee(x) \in Names
                             /\ entities[id].invoked = ProcId(Callee(x))
  <2>1. id[1] = "jcl-proc-inv" /\ entities[id].invoked = RP!FirstInvoked(id)
    BY <1>2, AtTheEnd, PrefixesOfTypes
  <2>2. PICK k \in RP!Candidates(id) : sink[k].invoked = RP!FirstInvoked(id)
    BY <1>1, <1>2, <2>1, RP!FirstGiven, ResolverPremises
  <2>3. k \in R!Candidates(id)
    BY SameReading
  <2>4. sink[k].id = id /\ IsTrue(sink[k])
    BY <2>3, DeclaredInFiles
  <2> QED BY <2>1, <2>2, <2>4 DEF IsTrue
<1>3. ASSUME NEW id \in R!Known, TypeOfId[id] = "JCLStep", entities[id].owner # Absent
      PROVE  \E x \in Execs : id = StepOf(x) /\ entities[id].owner = OwnerOf(x)
  <2>1. id[1] = "jcl-step" /\ entities[id].owner = RP!FirstOwner(id)
    BY <1>3, AtTheEnd, PrefixesOfTypes
  <2>2. PICK k \in RP!Candidates(id) : sink[k].owner = RP!FirstOwner(id)
    BY <1>1, <1>3, <2>1, RP!FirstGiven, ResolverPremises
  <2>3. k \in R!Candidates(id)
    BY SameReading
  <2>4. sink[k].id = id /\ IsTrue(sink[k])
    BY <2>3, DeclaredInFiles
  <2> QED BY <2>1, <2>2, <2>4 DEF IsTrue
<1> QED BY <1>2, <1>3

\* An invocation expands to the steps of the procedure it calls and to no others.
LEMMA ExpansionsFollow ==
  ASSUME FileIds \subseteq GraphIds, LoopInv, RP!ResolverInv, pc = "done"
  PROVE  ExpansionsAreTheCalls
<1>1. RP!TypeOK
  BY AtTheEnd
<1>2. ASSUME NEW e \in edges, e.type = "EXPANDS_TO"
      PROVE  <<e.from, e.to>> \in Calls
  <2>1. <<e.from, e.to>> \in RP!Expansions
    BY <1>2, RP!DerivedEdges, ResolverPremises DEF RP!IsExpansion
  <2>2. /\ e.from \in R!Known /\ e.to \in R!Known
        /\ TypeOfId[e.from] = "JCLProcInvocation" /\ TypeOfId[e.to] = "JCLStep"
        /\ entities[e.from].invoked # Absent
        /\ entities[e.to].owner = entities[e.from].invoked
    BY <2>1, SameReading DEF RP!Expansions
  <2>3. PICK x \in Execs : /\ e.from = InvocationBy(x) /\ Callee(x) \in Names
                           /\ entities[e.from].invoked = ProcId(Callee(x))
    BY <2>2, CalledAndOwned
  <2>4. PICK y \in Execs : e.to = StepOf(y) /\ entities[e.to].owner = OwnerOf(y)
    BY <2>2, CalledAndOwned
  <2>5. Callee(x) # Absent /\ InBodyOf(y, Callee(x))
    BY <2>2, <2>3, <2>4, Owners, JclAssumption
  <2>6. /\ <<x, y>> \in Execs \X Execs /\ <<x, y>>[1] = x /\ <<x, y>>[2] = y
    OBVIOUS
  <2> QED BY <2>3, <2>4, <2>5, <2>6 DEF Calls
<1>3. ASSUME IdsAreDistinct, NEW x \in Execs, NEW y \in Execs,
             Callee(x) # Absent, InBodyOf(y, Callee(x))
      PROVE  \E e \in edges : e.type = "EXPANDS_TO" /\ e.from = InvocationBy(x) /\ e.to = StepOf(y)
  <2> DEFINE inv == InvocationBy(x)
             st  == StepOf(y)
  <2>1. inv[1] = "jcl-proc-inv" /\ st[1] = "jcl-step"
    BY DEF InvocationBy, InvocationId, StepOf, StepId
  <2>2. R!Candidates(inv) # {} /\ R!Candidates(st) # {}
    BY <1>3, DeclaredInFiles
  <2>3. \A k \in R!Candidates(inv) \cup R!Candidates(st) : sink[k].kind = "entity"
    BY DEF R!Candidates, R!IsCandidate
  <2>4. \A o \in R!Obs : o.kind = "entity" => o.id \in GraphIds
    BY DEF R!Obs, R!EntityObs, R!CsdObs, R!EdgeObs
  <2>5. inv \in GraphIds /\ st \in GraphIds
    BY <2>2, <2>3, <2>4, DeclaredInFiles
  <2> HIDE DEF inv, st
  <2>6. /\ inv \in R!Known /\ TypeOfId[inv] = "JCLProcInvocation"
        /\ st \in R!Known /\ TypeOfId[st] = "JCLStep"
    BY <2>1, <2>2, <2>5, AtTheEnd, PrefixesOfTypes
  <2>7. ASSUME NEW k \in R!Candidates(inv)
        PROVE  Callee(x) \in Names /\ sink[k].invoked = ProcId(Callee(x))
    <3>1. PICK z \in Execs : /\ inv = InvocationBy(z) /\ Callee(z) \in Names
                             /\ sink[k].invoked = ProcId(Callee(z))
      BY <2>1, <2>7, DeclaredInFiles DEF IsTrue
    <3>2. Callee(z) = Callee(x)
      BY <1>3, <3>1, JclAssumption DEF IdsAreDistinct, inv
    <3> QED BY <3>1, <3>2
  <2>8. Callee(x) \in Names /\ ProcId(Callee(x)) # Absent
    <3>1. Callee(x) \in Names
      BY <2>2, <2>7
    <3>2. ProcId(Callee(x)) \in FileIds
      BY <3>1 DEF FileIds, Ids, Labels
    <3> QED BY <3>1, <3>2, CorpusAssumption
  <2>9. ASSUME NEW k \in R!Candidates(st)
        PROVE  sink[k].owner = ProcId(Callee(x))
    <3>1. PICK z \in Execs : st = StepOf(z) /\ sink[k].owner = OwnerOf(z)
      BY <2>1, <2>9, DeclaredInFiles DEF IsTrue
    <3>2. InBodyOf(z, Callee(x))
      BY <1>3, <2>8, <3>1 DEF IdsAreDistinct, st
    <3> QED BY <3>1, <3>2, Owners
  <2>10. entities[inv].invoked = ProcId(Callee(x))
    <3>1. RP!Candidates(inv) = R!Candidates(inv) /\ entities[inv].invoked = RP!FirstInvoked(inv)
      BY <2>6, SameReading, AtTheEnd
    <3>2. RP!FirstInvoked(inv) # Absent
      BY <1>1, <2>2, <2>7, <2>8, <3>1, RP!FirstGiven, ResolverPremises
    <3> QED BY <1>1, <2>7, <3>1, <3>2, RP!FirstGiven, ResolverPremises
  <2>11. entities[st].owner = ProcId(Callee(x))
    <3>1. RP!Candidates(st) = R!Candidates(st) /\ entities[st].owner = RP!FirstOwner(st)
      BY <2>6, SameReading, AtTheEnd
    <3>2. RP!FirstOwner(st) # Absent
      BY <1>1, <2>2, <2>8, <2>9, <3>1, RP!FirstGiven, ResolverPremises
    <3> QED BY <1>1, <2>9, <3>1, <3>2, RP!FirstGiven, ResolverPremises
  <2>12. <<inv, st>> \in RP!Expansions
    BY <2>6, <2>8, <2>10, <2>11, SameReading DEF RP!Expansions
  <2>13. \E e \in edges : e.type = "EXPANDS_TO" /\ e.from = <<inv, st>>[1] /\ e.to = <<inv, st>>[2]
    BY <2>12 DEF RP!ResolverInv, RP!EdgesAreThere
  <2> QED BY <2>13 DEF inv, st
<1>4. Expanded \subseteq Calls
  BY <1>2 DEF Expanded
<1>5. IdsAreDistinct => Calls \subseteq Expanded
  <2> SUFFICES ASSUME IdsAreDistinct, NEW c \in Calls PROVE c \in Expanded
    OBVIOUS
  <2>1. PICK p \in Execs \X Execs : /\ c = <<InvocationBy(p[1]), StepOf(p[2])>>
                                   /\ Callee(p[1]) # Absent /\ InBodyOf(p[2], Callee(p[1]))
    BY DEF Calls
  <2>2. PICK e \in edges : /\ e.type = "EXPANDS_TO"
                           /\ e.from = InvocationBy(p[1]) /\ e.to = StepOf(p[2])
    BY <1>3, <2>1
  <2> QED BY <2>1, <2>2 DEF Expanded
<1> QED BY <1>4, <1>5 DEF ExpansionsAreTheCalls

\* Every program is reported, as known to the CSD only exactly if a file defines it.
LEMMA ProgramsFollow ==
  ASSUME FileIds \subseteq GraphIds, LoopInv, RP!ResolverInv, pc = "done"
  PROVE  ProgramsHaveTheirReason
<1> SUFFICES ASSUME NEW id \in R!Known, TypeOfId[id] = "Program"
             PROVE  /\ {n \in 1..Len(unresolved) : unresolved[n].id = id} # {}
                    /\ \A n \in 1..Len(unresolved) : unresolved[n].id = id =>
                         (unresolved[n].reason = "csd_only_no_source_body" <=> id \in DefinedPrograms)
  BY DEF ProgramsHaveTheirReason
<1>1. id \in GraphIds /\ id[1] = "program"
  BY AtTheEnd, PrefixesOfTypes
<1>2. R!Candidates(id) # {} <=> id \in DefinedPrograms
  BY <1>1, DeclaredInFiles
<1>3. R!CsdOnly(id)
  BY <1>1, DeclaredInFiles DEF IsTrue, R!CsdOnly
<1>4. R!IsPartial(id)
  BY <1>3, AtTheEnd
<1>5. id \in R!Reported
  BY <1>1, <1>4, AtTheEnd
<1>6. {n \in 1..Len(unresolved) : unresolved[n].id = id} # {}
  BY <1>5 DEF R!Reported, R!IdsOf
<1>7. RP!DefinedOnly(id) <=> id \in DefinedPrograms
  BY <1>2, <1>3, SameReading DEF RP!DefinedOnly
<1> QED BY <1>6, <1>7, AtTheEnd

\* Whatever the files and their order, the graph made of them says of the steps, of the
\* calls of procedures and of the programs what the files say.
THEOREM FilesToGraph ==
  ASSUME FileIds \subseteq GraphIds
  PROVE  CorpusSpec => []GraphFollowsTheFiles
<1>1. LoopInv /\ ResolverStands => GraphFollowsTheFiles
  BY StepsFollow, ExpansionsFollow, ProgramsFollow DEF ResolverStands, GraphFollowsTheFiles
<1> QED BY <1>1, ResolverHolds, PTL

\* RUL-JCL-002, RUL-JCL-004, RUL-JCL-010, in every file of every corpus: each DD is
\* charged to its step, SYSIN to the program of the EXEC before it, and no statement
\* is left out.  An extractor made anew for every file owes the others nothing.
THEOREM FilesOfJobs ==
  ASSUME FileIds \subseteq GraphIds
  PROVE  CorpusSpec => [](DdsFollowTheirStep /\ SysinNamesTheProgram /\ EveryStatementObserved)
<1>1. LoopInv => DdsFollowTheirStep /\ SysinNamesTheProgram /\ EveryStatementObserved
  BY ChargesAreRight, InvObserved, InvSysin DEF LoopInv, CorpusInv, JclInv
<1> QED BY <1>1, LoopHolds, PTL

\* RUL-CSD-001 to 004, in every CSD file of every corpus, but for what the definition
\* of an unlisted type takes from the one before it.
THEOREM FilesOfResources ==
  ASSUME FileIds \subseteq GraphIds
  PROVE  CorpusSpec => [](C!CsdInv /\ (C!OnlyListed => C!ObservedIsDefined))
<1>1. LoopInv => C!CsdInv /\ (C!OnlyListed => C!ObservedIsDefined)
  BY BlocksAreDefinitions DEF LoopInv, CorpusInv
<1> QED BY <1>1, LoopHolds, PTL

\* RUL-CSD-001 to 004, in full, in every corpus whose CSD files define resources of the
\* listed types only: no operand is taken from another definition and none is lost.
THEOREM ResourcesAreDefined ==
  ASSUME FileIds \subseteq GraphIds,
         \A c \in Corpora : \A f \in 1..Len(c) :
           \A l \in 1..Len(CsdLines(c[f])) : CsdLines(c[f])[l].head # "unlisted"
  PROVE  CorpusSpec => []CsdInv
<1>1. LoopInv => C!CsdInv /\ C!OnlyListed
  BY DEF LoopInv, CorpusInv, LoopStands, C!OnlyListed
<1>2. LoopInv => CsdInv
  BY <1>1, BlocksAreDefinitions DEF CsdInv
<1> QED BY <1>2, LoopHolds, PTL
=============================================================================
