--------------------------- MODULE QueriesProofs ---------------------------
(***************************************************************************)
(* The proofs about Queries, for every set of ids and every set of         *)
(* catalogues that pass 3 may hand over: the database holds the catalogue  *)
(* but for the edges that were warned of, the programs that six hops find  *)
(* in a graph of at most seven are the closure of the entry, and the four  *)
(* answers fit together.                                                   *)
(***************************************************************************)
EXTENDS GoldMatch, TLAPS, FiniteSetTheorems

-----------------------------------------------------------------------------
(* The catalogue *)

LEMMA CatalogFacts ==
  ASSUME TypeInvariant
  PROVE  /\ catalog.entities \in Seq(Entity) /\ catalog.edges \in Seq(Edge)
         /\ Len(catalog.entities) \in Nat /\ DOMAIN catalog.entities = 1..Len(catalog.entities)
         /\ Len(catalog.edges) \in Nat /\ DOMAIN catalog.edges = 1..Len(catalog.edges)
         /\ \A j \in 1..Len(catalog.entities) : catalog.entities[j] \in Entity
         /\ \A j \in 1..Len(catalog.edges) : catalog.edges[j] \in Edge
         /\ Delivered(catalog)
  <1>1. catalog \in {c \in [entities : Seq(Entity), edges : Seq(Edge)] : Delivered(c)}
    BY QueriesAssumption DEF TypeInvariant
  <1>2. Delivered(catalog)
    BY <1>1
  <1>3. catalog.entities \in Seq(Entity) /\ catalog.edges \in Seq(Edge)
    BY <1>1
  <1> QED BY <1>2, <1>3

\* A row has the columns of its table.
LEMMA RowType ==
  ASSUME NEW e \in Entity
  PROVE  Row(e) \in [table : Types, id : Ids, of : Ids \cup {None}, key : STRING, text : STRING, partial : BOOLEAN]
  <1>1. (HasPartial(e.type) /\ e.partial) \in BOOLEAN
    OBVIOUS
  <1> QED BY <1>1 DEF Row, Entity

-----------------------------------------------------------------------------
(* The inductive invariant *)

LEMMA InitInv == Init => QueriesInv
  <1> SUFFICES ASSUME Init PROVE QueriesInv
    OBVIOUS
  <1>1. catalog \in Catalogs /\ input \in Inputs /\ stage = "nodes" /\ at = 1
        /\ rows = {} /\ rels = {} /\ warned = {} /\ answers = None
    BY DEF Init
  <1>2. catalog \in [entities : Seq(Entity), edges : Seq(Edge)]
    BY <1>1, QueriesAssumption
  <1>3. Len(catalog.entities) \in Nat
    BY <1>2
  <1>4. TypeInvariant
    BY <1>1, <1>3 DEF TypeInvariant
  <1>5. RowsAreTheEntities /\ LostEdgesAreWarned /\ AnswersStand
    BY <1>1 DEF RowsAreTheEntities, LostEdgesAreWarned, AnswersStand
  <1> QED BY <1>4, <1>5 DEF QueriesInv

\* The answers depend on nothing but the nodes and the relationships.
LEMMA SameAnswers ==
  ASSUME rows' = rows, rels' = rels
  PROVE  /\ \A c : Q1(c)' = Q1(c)
         /\ \A d : Q2(d)' = Q2(d)
         /\ \A t, entry : Q3(t, entry)' = Q3(t, entry)
         /\ \A t, entry : Q4(t, entry)' = Q4(t, entry)
         /\ \A t : FirstRow(t)' = FirstRow(t)
  <1>1. /\ \A types : Match(types)' = Match(types)
        /\ \A type : Table(type)' = Table(type)
    BY DEF Match, Table
  <1>2. /\ \A t : Entries(t)' = Entries(t)
        /\ \A P : Hop(P)' = Hop(P)
        /\ \A t : Interactions(t)' = Interactions(t)
    BY <1>1 DEF Entries, Hop, Interactions
  <1>3. \A c : Q1(c)' = Q1(c)
    BY <1>1 DEF Q1, Placeholders, Includers
  <1>4. \A d : Q2(d)' = Q2(d)
    BY <1>1 DEF Q2
  <1>5. \A t, entry : Q3(t, entry)' = Q3(t, entry)
    <2>1. \A t : Reachable(t)' = Reachable(t)
      <3>1. \A p : WalksFrom(p)' = WalksFrom(p)
        BY <1>2 DEF WalksFrom
      <3> QED BY <1>2, <3>1 DEF Reachable
    <2>2. \A t : UnresolvedReaches(t)' = UnresolvedReaches(t)
      BY <1>1, <1>2 DEF UnresolvedReaches
    <2> QED BY <2>1, <2>2 DEF Q3
  <1>6. \A t, entry : Q4(t, entry)' = Q4(t, entry)
    <2>1. \A t : Labels(t)' = Labels(t)
      BY <1>1, <1>2 DEF Labels
    <2> QED BY <1>1, <1>2, <2>1 DEF Q4
  <1>7. \A t : FirstRow(t)' = FirstRow(t)
    BY <1>2 DEF FirstRow
  <1> QED BY <1>3, <1>4, <1>5, <1>6, <1>7

\* Before the database is asked there is nothing to stand by.
LEMMA NotAsked ==
  ASSUME stage # "asked"
  PROVE  AnswersStand
BY DEF AnswersStand

LEMMA CreateNodeInv ==
  ASSUME QueriesInv, CreateNode
  PROVE  QueriesInv'
  <1>1. /\ stage = "nodes" /\ at <= Len(catalog.entities)
        /\ rows' = rows \cup {Row(catalog.entities[at])} /\ at' = at + 1
        /\ catalog' = catalog /\ stage' = stage /\ rels' = rels /\ warned' = warned
        /\ input' = input /\ answers' = answers
    BY DEF CreateNode
  <1>2. TypeInvariant /\ RowsAreTheEntities /\ LostEdgesAreWarned
    BY DEF QueriesInv
  <1>3. at \in Nat /\ at \in 1..Len(catalog.entities) /\ Len(catalog.entities) \in Nat
        /\ catalog.entities[at] \in Entity
    BY <1>1, <1>2, CatalogFacts DEF TypeInvariant
  <1>4. TypeInvariant'
    <2>1. rows' \subseteq [table : Types, id : Ids, of : Ids \cup {None}, key : STRING, text : STRING, partial : BOOLEAN]
      BY <1>1, <1>2, <1>3, RowType DEF TypeInvariant
    <2> QED BY <1>1, <1>2, <1>3, <2>1 DEF TypeInvariant
  <1>5. RowsAreTheEntities'
    <2>1. rows = {Row(catalog.entities[j]) : j \in 1..(at - 1)}
      BY <1>1, <1>2 DEF RowsAreTheEntities
    <2>2. 1..(at' - 1) = (1..(at - 1)) \cup {at}
      BY <1>1, <1>3
    <2>3. \A j : Row(catalog.entities[j])' = Row(catalog.entities[j])
      BY <1>1 DEF Row
    <2> QED BY <1>1, <2>1, <2>2, <2>3 DEF RowsAreTheEntities
  <1>6. LostEdgesAreWarned'
    BY <1>1, <1>2 DEF LostEdgesAreWarned
  <1> QED BY <1>1, <1>4, <1>5, <1>6, NotAsked DEF QueriesInv, AnswersStand

LEMMA NodeFailsInv ==
  ASSUME QueriesInv, NodeFails
  PROVE  QueriesInv'
  <1>1. /\ stage = "nodes" /\ stage' = "failed"
        /\ catalog' = catalog /\ at' = at /\ rows' = rows /\ rels' = rels /\ warned' = warned
        /\ input' = input /\ answers' = answers
    BY DEF NodeFails
  <1>2. TypeInvariant /\ RowsAreTheEntities /\ LostEdgesAreWarned
    BY DEF QueriesInv
  <1>3. TypeInvariant'
    BY <1>1, <1>2 DEF TypeInvariant
  <1>4. RowsAreTheEntities'
    BY <1>1, <1>2 DEF RowsAreTheEntities, Row
  <1>5. LostEdgesAreWarned'
    BY <1>1, <1>2 DEF LostEdgesAreWarned
  <1> QED BY <1>1, <1>3, <1>4, <1>5 DEF QueriesInv, AnswersStand

LEMMA NodesDoneInv ==
  ASSUME QueriesInv, NodesDone
  PROVE  QueriesInv'
  <1>1. /\ stage = "nodes" /\ stage' = "edges" /\ at > Len(catalog.entities) /\ at' = 1
        /\ catalog' = catalog /\ rows' = rows /\ rels' = rels /\ warned' = warned
        /\ input' = input /\ answers' = answers
    BY DEF NodesDone
  <1>2. TypeInvariant /\ RowsAreTheEntities /\ LostEdgesAreWarned
    BY DEF QueriesInv
  <1>3. at - 1 = Len(catalog.entities) /\ Len(catalog.edges) \in Nat
        /\ DOMAIN catalog.entities = 1..(at - 1)
    BY <1>1, <1>2, CatalogFacts DEF TypeInvariant
  <1>4. TypeInvariant'
    BY <1>1, <1>2, <1>3 DEF TypeInvariant
  <1>5. RowsAreTheEntities'
    <2>1. rows = {Row(catalog.entities[j]) : j \in DOMAIN catalog.entities}
      BY <1>1, <1>2, <1>3 DEF RowsAreTheEntities
    <2> QED BY <1>1, <2>1 DEF RowsAreTheEntities, Row
  <1>6. LostEdgesAreWarned'
    <2>1. EdgesBefore(at)' = {}
      BY <1>1 DEF EdgesBefore
    <2> QED BY <1>1, <1>2, <2>1 DEF LostEdgesAreWarned
  <1> QED BY <1>1, <1>4, <1>5, <1>6 DEF QueriesInv, AnswersStand

\* The second loop files the edge it stands at, in the graph or with the warnings.
LEMMA EdgeFiled ==
  ASSUME QueriesInv, stage = "edges", at <= Len(catalog.edges), at' = at + 1,
         UNCHANGED <<catalog, stage, rows, input, answers>>,
         \/ rels' = rels \cup {catalog.edges[at]} /\ warned' = warned
         \/ warned' = warned \cup {catalog.edges[at]} /\ rels' = rels
  PROVE  QueriesInv'
  <1>1. TypeInvariant /\ RowsAreTheEntities /\ LostEdgesAreWarned
    BY DEF QueriesInv
  <1>2. /\ at \in Nat /\ at \in 1..Len(catalog.edges) /\ Len(catalog.edges) \in Nat
        /\ catalog.edges[at] \in Edge
        /\ \A j \in 1..Len(catalog.edges) : catalog.edges[j] = catalog.edges[at] => j = at
    BY <1>1, CatalogFacts DEF TypeInvariant, Delivered
  <1>3. TypeInvariant'
    BY <1>1, <1>2 DEF TypeInvariant
  <1>4. RowsAreTheEntities'
    BY <1>1 DEF RowsAreTheEntities, Row
  <1>5. LostEdgesAreWarned'
    <2>1. rels \cup warned = EdgesBefore(at) /\ rels \cap warned = {}
      BY <1>1 DEF LostEdgesAreWarned
    <2>2. EdgesBefore(at)' = EdgesBefore(at) \cup {catalog.edges[at]}
      <3>1. 1..(at' - 1) = (1..(at - 1)) \cup {at}
        BY <1>2
      <3> QED BY <3>1 DEF EdgesBefore
    <2>3. catalog.edges[at] \notin EdgesBefore(at)
      <3>1. \A j \in 1..(at - 1) : j \in 1..Len(catalog.edges) /\ j # at
        BY <1>2
      <3> QED BY <1>2, <3>1 DEF EdgesBefore
    <2>4. rels' \cup warned' = EdgesBefore(at)' /\ rels' \cap warned' = {}
      BY <2>1, <2>2, <2>3
    <2> QED BY <2>4 DEF LostEdgesAreWarned
  <1> QED BY <1>3, <1>4, <1>5 DEF QueriesInv, AnswersStand

LEMMA AskInv ==
  ASSUME QueriesInv, Ask
  PROVE  QueriesInv'
  <1>1. /\ stage = "edges" /\ at > Len(catalog.edges) /\ stage' = "asked"
        /\ catalog' = catalog /\ at' = at /\ rows' = rows /\ rels' = rels /\ warned' = warned
        /\ input' = input
    BY DEF Ask
  <1>2. TypeInvariant /\ RowsAreTheEntities /\ LostEdgesAreWarned
    BY DEF QueriesInv
  <1>3. at = Len(catalog.edges) + 1
    BY <1>1, <1>2, CatalogFacts DEF TypeInvariant
  <1>4. TypeInvariant'
    BY <1>1, <1>2 DEF TypeInvariant
  <1>5. RowsAreTheEntities'
    BY <1>1, <1>2 DEF RowsAreTheEntities, Row
  <1>6. LostEdgesAreWarned'
    BY <1>1, <1>2 DEF LostEdgesAreWarned, EdgesBefore
  <1>7. AnswersStand'
    <2>1. PICK entry3, entry4 \in FirstRow(input.transaction) :
            answers' = [q1 |-> Q1(input.copybook), q2 |-> Q2(input.dataset),
                        q3 |-> Q3(input.transaction, entry3), q4 |-> Q4(input.transaction, entry4)]
      BY DEF Ask
    <2>2. /\ Q1(input.copybook)' = Q1(input.copybook) /\ Q2(input.dataset)' = Q2(input.dataset)
          /\ Q3(input.transaction, entry3)' = Q3(input.transaction, entry3)
          /\ Q4(input.transaction, entry4)' = Q4(input.transaction, entry4)
          /\ FirstRow(input.transaction)' = FirstRow(input.transaction)
      BY <1>1, SameAnswers
    <2> QED BY <1>1, <1>3, <2>1, <2>2 DEF AnswersStand
  <1> QED BY <1>4, <1>5, <1>6, <1>7 DEF QueriesInv

LEMMA NextInv == QueriesInv /\ [Next]_vars => QueriesInv'
  <1> SUFFICES ASSUME QueriesInv, [Next]_vars PROVE QueriesInv'
    OBVIOUS
  <1>1. CASE CreateNode
    BY <1>1, CreateNodeInv
  <1>2. CASE NodeFails
    BY <1>2, NodeFailsInv
  <1>3. CASE NodesDone
    BY <1>3, NodesDoneInv
  <1>4. CASE CreateEdge
    BY <1>4, EdgeFiled DEF CreateEdge
  <1>5. CASE EdgeFails
    BY <1>5, EdgeFiled DEF EdgeFails
  <1>6. CASE Ask
    BY <1>6, AskInv
  <1>7. CASE UNCHANGED vars
    <2>1. UNCHANGED <<catalog, stage, at, rows, rels, warned, input, answers>>
      BY <1>7 DEF vars
    <2>2. TypeInvariant' /\ RowsAreTheEntities' /\ LostEdgesAreWarned'
      BY <2>1 DEF QueriesInv, TypeInvariant, RowsAreTheEntities, Row, LostEdgesAreWarned, EdgesBefore
    <2>3. AnswersStand'
      BY <2>1, SameAnswers DEF QueriesInv, AnswersStand
    <2> QED BY <2>2, <2>3 DEF QueriesInv
  <1> QED BY <1>1, <1>2, <1>3, <1>4, <1>5, <1>6, <1>7 DEF Next

-----------------------------------------------------------------------------
(* The relationships *)

\* A node is known by its id, and has what its entity has.
LEMMA RowFacts ==
  ASSUME QueriesInv, NEW row \in rows
  PROVE  \E j \in DOMAIN catalog.entities : row = Row(catalog.entities[j])
  <1>1. /\ TypeInvariant
        /\ rows = {Row(catalog.entities[j]) :
                     j \in IF stage \in {"nodes", "failed"} THEN 1..(at - 1) ELSE DOMAIN catalog.entities}
    BY DEF QueriesInv, RowsAreTheEntities
  <1>2. /\ DOMAIN catalog.entities = 1..Len(catalog.entities) /\ Len(catalog.entities) \in Nat
        /\ stage \in {"nodes", "failed"} => at - 1 <= Len(catalog.entities) /\ at \in Nat
    BY <1>1, CatalogFacts DEF TypeInvariant
  <1>3. stage \in {"nodes", "failed"} => 1..(at - 1) \subseteq DOMAIN catalog.entities
    BY <1>2
  <1> QED BY <1>1, <1>3

\* While there are relationships, every entity has its node.
LEMMA RowOf ==
  ASSUME QueriesInv, stage \notin {"nodes", "failed"}, NEW j \in DOMAIN catalog.entities
  PROVE  Row(catalog.entities[j]) \in rows
BY DEF QueriesInv, RowsAreTheEntities

\* A relationship is an edge of the catalogue, and its ends are nodes of the types its
\* type asks for.
LEMMA RelFacts ==
  ASSUME QueriesInv, NEW r \in rels
  PROVE  /\ stage \notin {"nodes", "failed"}
         /\ r \in Edge /\ r.from \notin Unresolved
         /\ r.type = "IS_TRANSACTION_FOR" => r.to \notin Unresolved
         /\ \E k \in DOMAIN catalog.edges : r = catalog.edges[k]
         /\ r.type \in ProgramEdge \cup {"IS_TRANSACTION_FOR"} => r.to \in {row.id : row \in Table("Program")}
         /\ r.type \in MapEdge => r.to \in {row.id : row \in Table("BMSMap")}
  <1>1. TypeInvariant /\ LostEdgesAreWarned
    BY DEF QueriesInv
  <1>2. stage \notin {"nodes", "failed"} /\ r \in EdgesBefore(at)
    BY <1>1 DEF LostEdgesAreWarned
  <1>3. PICK k \in 1..(at - 1) : r = catalog.edges[k]
    BY <1>2 DEF EdgesBefore
  <1>4. k \in DOMAIN catalog.edges /\ r \in Edge
    <2>1. at \in 1..(1 + Len(catalog.edges)) /\ Len(catalog.edges) \in Nat
      BY <1>1, <1>2, CatalogFacts DEF TypeInvariant
    <2>2. k \in 1..Len(catalog.edges)
      BY <2>1
    <2> QED BY <1>1, <1>3, <2>2, CatalogFacts
  <1>5. /\ r.from \notin Unresolved
        /\ r.type = "IS_TRANSACTION_FOR" => r.to \notin Unresolved
        /\ r.type \in ProgramEdge \cup {"IS_TRANSACTION_FOR"} => r.to \in EntitiesOf(catalog, {"Program"})
        /\ r.type \in MapEdge => r.to \in EntitiesOf(catalog, {"BMSMap"})
    <2>1. Delivered(catalog)
      BY <1>1, CatalogFacts
    <2> QED BY <1>3, <1>4, <2>1 DEF Delivered
  <1>6. ASSUME NEW type, r.to \in EntitiesOf(catalog, {type})
        PROVE  r.to \in {row.id : row \in Table(type)}
    <2>1. PICK j \in DOMAIN catalog.entities : catalog.entities[j].type = type /\ catalog.entities[j].id = r.to
      BY <1>6 DEF EntitiesOf
    <2>2. Row(catalog.entities[j]) \in rows
      BY <1>2, RowOf
    <2>3. Row(catalog.entities[j]).table = type /\ Row(catalog.entities[j]).id = r.to
      BY <2>1 DEF Row
    <2> QED BY <2>2, <2>3 DEF Table
  <1> QED BY <1>2, <1>3, <1>4, <1>5, <1>6

\* There are finitely many programs.
LEMMA ProgramsFinite ==
  ASSUME QueriesInv
  PROVE  IsFiniteSet(ProgramRows)
  <1> DEFINE N == Len(catalog.entities)
             f == [j \in 1..N |-> catalog.entities[j].id]
             T == {catalog.entities[j].id : j \in 1..N}
  <1>1. N \in Nat /\ DOMAIN catalog.entities = 1..N
    BY CatalogFacts DEF QueriesInv
  <1>2. f \in Surjection(1..N, T)
    BY DEF Surjection
  <1>3. IsFiniteSet(1..N)
    BY <1>1, FS_Interval
  <1> HIDE DEF f, N
  <1>4. IsFiniteSet(T)
    BY <1>2, <1>3, FS_Surjection
  <1>5. ProgramRows \in SUBSET T
    <2>1. ASSUME NEW row \in rows
          PROVE  row.id \in T
      <3>1. PICK j \in 1..N : row = Row(catalog.entities[j])
        BY <1>1, RowFacts
      <3> QED BY <3>1 DEF Row
    <2> QED BY <2>1 DEF ProgramRows, Table
  <1> QED BY <1>4, <1>5, FS_Subset

-----------------------------------------------------------------------------
(* Walks *)

\* The recursion that follows the walks has a solution: it has seven values.
LEMMA Walks ==
  ASSUME NEW p
  PROVE  /\ WalksFrom(p)[0] = {p}
         /\ \A n \in 1..MaxHops : WalksFrom(p)[n] = Hop(WalksFrom(p)[n - 1])
  <1> DEFINE Solves(f) == f = [n \in 0..MaxHops |-> IF n = 0 THEN {p} ELSE Hop(f[n - 1])]
             A1 == Hop({p})
             A2 == Hop(A1)
             A3 == Hop(A2)
             A4 == Hop(A3)
             A5 == Hop(A4)
             A6 == Hop(A5)
             g == [n \in 0..MaxHops |->
                     IF n = 0 THEN {p} ELSE IF n = 1 THEN A1 ELSE IF n = 2 THEN A2 ELSE IF n = 3 THEN A3
                     ELSE IF n = 4 THEN A4 ELSE IF n = 5 THEN A5 ELSE A6]
  <1>1. Solves(g)
    <2> HIDE DEF A1, A2, A3, A4, A5, A6
    <2>1. \A n \in 0..MaxHops : n = 0 \/ n = 1 \/ n = 2 \/ n = 3 \/ n = 4 \/ n = 5 \/ n = 6
      BY DEF MaxHops
    <2>2. g[0] = {p} /\ g[1] = A1 /\ g[2] = A2 /\ g[3] = A3 /\ g[4] = A4 /\ g[5] = A5 /\ g[6] = A6
      BY DEF MaxHops
    <2>3. ASSUME NEW n \in 0..MaxHops
          PROVE  g[n] = IF n = 0 THEN {p} ELSE Hop(g[n - 1])
      <3> HIDE DEF g
      <3>1. CASE n = 0
        BY <2>2, <3>1
      <3>2. CASE n = 1
        BY <2>2, <3>2 DEF A1
      <3>3. CASE n = 2
        BY <2>2, <3>3 DEF A2
      <3>4. CASE n = 3
        BY <2>2, <3>4 DEF A3
      <3>5. CASE n = 4
        BY <2>2, <3>5 DEF A4
      <3>6. CASE n = 5
        BY <2>2, <3>6 DEF A5
      <3>7. CASE n = 6
        BY <2>2, <3>7 DEF A6
      <3> QED BY <2>1, <3>1, <3>2, <3>3, <3>4, <3>5, <3>6, <3>7
    <2>4. g = [n \in 0..MaxHops |-> g[n]]
      OBVIOUS
    <2> HIDE DEF g
    <2>5. [n \in 0..MaxHops |-> g[n]] = [n \in 0..MaxHops |-> IF n = 0 THEN {p} ELSE Hop(g[n - 1])]
      BY <2>3
    <2> QED BY <2>4, <2>5
  <1> HIDE DEF g
  <1> DEFINE w == CHOOSE f : Solves(f)
  <1>2. Solves(w)
    BY <1>1
  <1>3. WalksFrom(p) = w
    BY DEF WalksFrom
  <1> HIDE DEF w
  <1>4. 0 \in 0..MaxHops /\ \A n \in 1..MaxHops : n \in 0..MaxHops /\ n # 0
    BY DEF MaxHops
  <1> QED BY <1>2, <1>3, <1>4

\* A program and where walks of at most n hops from it end
Reach(p, n) == {p} \cup ((UNION {WalksFrom(p)[k] : k \in 1..n}) \ Unresolved)

\* A set of programs and those they call
Grown(P) == P \cup (Hop(P) \ Unresolved)

LEMMA Hops ==
  ASSUME QueriesInv
  PROVE  /\ \A P : Hop(P) \subseteq {row.id : row \in Table("Program")}
         /\ \A P : Hop(P) \ Unresolved \subseteq ProgramRows
         /\ \A P, Q : Hop(P \cup Q) = Hop(P) \cup Hop(Q)
         /\ \A P, Q : P \subseteq Q => Hop(P) \subseteq Hop(Q)
         /\ \A P : Hop(P \ Unresolved) = Hop(P)
         /\ \A Ps : Hop(UNION Ps) = UNION {Hop(P) : P \in Ps}
  <1>1. \A P : Hop(P) \subseteq {row.id : row \in Table("Program")}
    <2>1. \A r \in Match(ProgramEdge) : r.to \in {row.id : row \in Table("Program")}
      BY RelFacts DEF Match
    <2> QED BY <2>1 DEF Hop
  <1>2. \A P : Hop(P \ Unresolved) = Hop(P)
    BY RelFacts DEF Hop, Match
  <1>3. \A P, Q : Hop(P \cup Q) = Hop(P) \cup Hop(Q)
    BY DEF Hop
  <1>4. \A Ps : Hop(UNION Ps) = UNION {Hop(P) : P \in Ps}
    BY DEF Hop
  <1>5. \A P, Q : P \subseteq Q => Hop(P) \subseteq Hop(Q)
    BY DEF Hop
  <1> QED BY <1>1, <1>2, <1>3, <1>4, <1>5 DEF ProgramRows

\* One hop more is one round of growth.
LEMMA ReachGrows ==
  ASSUME QueriesInv, NEW p, NEW n \in 0..(MaxHops - 1)
  PROVE  Grown(Reach(p, n)) = Reach(p, n + 1)
  <1> DEFINE Past == UNION {WalksFrom(p)[k] : k \in 1..n}
  <1>1. WalksFrom(p)[0] = {p} /\ \A k \in 1..MaxHops : WalksFrom(p)[k] = Hop(WalksFrom(p)[k - 1])
    BY Walks
  <1>2. /\ n \in Nat /\ n + 1 \in 1..MaxHops
        /\ \A k \in 0..n : k + 1 \in 1..MaxHops /\ (k + 1) - 1 = k
        /\ 1..(n + 1) = {k + 1 : k \in 0..n}
        /\ 0..n = {0} \cup (1..n)
    <2>1. \A k \in 1..(n + 1) : k - 1 \in 0..n /\ k = (k - 1) + 1
      BY DEF MaxHops
    <2>2. \A k \in 0..n : k + 1 \in 1..(n + 1)
      BY DEF MaxHops
    <2>3. 1..(n + 1) = {k + 1 : k \in 0..n}
      BY <2>1, <2>2
    <2> QED BY <2>3 DEF MaxHops
  <1>3. Hop({p} \cup Past) = UNION {WalksFrom(p)[k] : k \in 1..(n + 1)}
    <2>1. {p} \cup Past = UNION {WalksFrom(p)[k] : k \in 0..n}
      <3>1. {WalksFrom(p)[k] : k \in 0..n} = {WalksFrom(p)[0]} \cup {WalksFrom(p)[k] : k \in 1..n}
        BY <1>2
      <3> QED BY <1>1, <3>1
    <2>2. Hop({p} \cup Past) = UNION {Hop(WalksFrom(p)[k]) : k \in 0..n}
      <3> DEFINE Ps == {WalksFrom(p)[k] : k \in 0..n}
      <3>1. Hop(UNION Ps) = UNION {Hop(P) : P \in Ps}
        BY Hops
      <3>2. {Hop(P) : P \in Ps} = {Hop(WalksFrom(p)[k]) : k \in 0..n}
        OBVIOUS
      <3> QED BY <2>1, <3>1, <3>2
    <2>3. \A k \in 0..n : Hop(WalksFrom(p)[k]) = WalksFrom(p)[k + 1]
      BY <1>1, <1>2
    <2>4. {Hop(WalksFrom(p)[k]) : k \in 0..n} = {WalksFrom(p)[k] : k \in 1..(n + 1)}
      BY <1>2, <2>3
    <2> QED BY <2>2, <2>4
  <1>4. Hop(Reach(p, n)) = Hop({p} \cup Past)
    <2>1. Reach(p, n) = {p} \cup (Past \ Unresolved)
      BY DEF Reach
    <2> HIDE DEF Past
    <2>2. Hop({p} \cup (Past \ Unresolved)) = Hop({p}) \cup Hop(Past \ Unresolved)
      BY Hops
    <2>3. Hop({p} \cup Past) = Hop({p}) \cup Hop(Past)
      BY Hops
    <2>4. Hop(Past \ Unresolved) = Hop(Past)
      BY Hops
    <2> QED BY <2>1, <2>2, <2>3, <2>4
  <1>5. \A k \in 1..n : k \in 1..(n + 1)
    BY <1>2
  <1>6. Past \subseteq UNION {WalksFrom(p)[k] : k \in 1..(n + 1)}
    BY <1>5
  <1> HIDE DEF Past
  <1>7. Grown(Reach(p, n)) = {p} \cup (Past \ Unresolved) \cup ((UNION {WalksFrom(p)[k] : k \in 1..(n + 1)}) \ Unresolved)
    <2>1. Reach(p, n) = {p} \cup (Past \ Unresolved)
      BY DEF Reach, Past
    <2> QED BY <1>3, <1>4, <2>1 DEF Grown
  <1>8. Reach(p, n + 1) = {p} \cup ((UNION {WalksFrom(p)[k] : k \in 1..(n + 1)}) \ Unresolved)
    BY DEF Reach
  <1> QED BY <1>6, <1>7, <1>8

\* Inside a set Q that has all it calls: a set that has all it calls does not grow, and any
\* other grows by one.
LEMMA Growth ==
  ASSUME QueriesInv, NEW Q \in SUBSET ProgramRows, Closed(Q), NEW P \in SUBSET Q
  PROVE  /\ Grown(P) \in SUBSET Q
         /\ Cardinality(P) \in Nat /\ Cardinality(Q) \in Nat /\ Cardinality(P) <= Cardinality(Q)
         /\ ~Closed(P) => Cardinality(P) + 1 <= Cardinality(Grown(P))
         /\ Closed(P) => Grown(P) = P
  <1>1. Grown(P) \in SUBSET Q
    <2>1. Hop(P) \subseteq Hop(Q)
      BY Hops
    <2> QED BY <2>1 DEF Grown, Closed
  <1>2. IsFiniteSet(Q)
    BY ProgramsFinite, FS_Subset
  <1>3. /\ IsFiniteSet(P) /\ Cardinality(P) <= Cardinality(Q)
        /\ IsFiniteSet(Grown(P))
    BY <1>1, <1>2, FS_Subset
  <1>4. Cardinality(P) \in Nat /\ Cardinality(Q) \in Nat /\ Cardinality(Grown(P)) \in Nat
    BY <1>2, <1>3, FS_CardinalityType
  <1>5. Closed(P) => Grown(P) = P
    BY DEF Closed, Grown
  <1>6. ASSUME ~Closed(P)
        PROVE  Cardinality(P) + 1 <= Cardinality(Grown(P))
    <2>1. P \in SUBSET Grown(P) /\ P # Grown(P)
      BY <1>6 DEF Closed, Grown
    <2>2. Cardinality(P) <= Cardinality(Grown(P)) /\ Cardinality(P) # Cardinality(Grown(P))
      BY <1>3, <2>1, FS_Subset
    <2> QED BY <1>4, <2>2
  <1> QED BY <1>1, <1>3, <1>4, <1>5, <1>6

\* Six rounds close a program in such a set of seven: a round that adds nothing ends the growth, and
\* seven that add something would make eight programs.
LEMMA SixHopsClose ==
  ASSUME QueriesInv, NEW Q \in SUBSET ProgramRows, Closed(Q), Cardinality(Q) <= 7, NEW p \in Q
  PROVE  Closed(Reach(p, 6))
  <1> DEFINE R(n) == Reach(p, n)
  <1>1. \A n \in 0..5 : R(n + 1) = Grown(R(n))
    BY ReachGrows DEF MaxHops
  <1>2. R(0) = {p}
    BY DEF Reach
  <1> HIDE DEF R
  <1>3. ASSUME NEW n \in 0..5, R(n) \in SUBSET Q
        PROVE  /\ R(n + 1) \in SUBSET Q
               /\ Closed(R(n)) => Closed(R(n + 1))
               /\ ~Closed(R(n)) => Cardinality(R(n)) + 1 <= Cardinality(R(n + 1))
    <2>1. R(n + 1) = Grown(R(n))
      BY <1>1
    <2> QED BY <1>3, <2>1, Growth
  <1>4. Cardinality(R(0)) = 1
    BY <1>2, FS_Singleton
  <1>5. /\ R(0) \in SUBSET Q /\ R(1) \in SUBSET Q /\ R(2) \in SUBSET Q
        /\ R(3) \in SUBSET Q /\ R(4) \in SUBSET Q /\ R(5) \in SUBSET Q
        /\ R(6) \in SUBSET Q
    <2>1. R(0) \in SUBSET Q
      BY <1>2
    <2>2. R(1) \in SUBSET Q
      BY <1>3, <2>1
    <2>3. R(2) \in SUBSET Q
      BY <1>3, <2>2
    <2>4. R(3) \in SUBSET Q
      BY <1>3, <2>3
    <2>5. R(4) \in SUBSET Q
      BY <1>3, <2>4
    <2>6. R(5) \in SUBSET Q
      BY <1>3, <2>5
    <2>7. R(6) \in SUBSET Q
      BY <1>3, <2>6
    <2> QED BY <2>1, <2>2, <2>3, <2>4, <2>5, <2>6, <2>7
  <1>6. SUFFICES ASSUME ~Closed(R(6))
                 PROVE  FALSE
    BY DEF R
  <1> DEFINE C(n) == Cardinality(R(n))
  <1>7. /\ C(0) + 1 <= C(1) /\ C(1) + 1 <= C(2) /\ C(2) + 1 <= C(3) /\ C(3) + 1 <= C(4)
        /\ C(4) + 1 <= C(5) /\ C(5) + 1 <= C(6)
    <2>1. ~Closed(R(5)) /\ C(5) + 1 <= C(6)
      BY <1>3, <1>5, <1>6
    <2>2. ~Closed(R(4)) /\ C(4) + 1 <= C(5)
      BY <1>3, <1>5, <2>1
    <2>3. ~Closed(R(3)) /\ C(3) + 1 <= C(4)
      BY <1>3, <1>5, <2>2
    <2>4. ~Closed(R(2)) /\ C(2) + 1 <= C(3)
      BY <1>3, <1>5, <2>3
    <2>5. ~Closed(R(1)) /\ C(1) + 1 <= C(2)
      BY <1>3, <1>5, <2>4
    <2>6. C(0) + 1 <= C(1)
      BY <1>3, <1>5, <2>5
    <2> QED BY <2>1, <2>2, <2>3, <2>4, <2>5, <2>6
  <1>8. C(6) + 1 <= Cardinality(Grown(R(6)))
    BY <1>5, <1>6, Growth
  <1>9. Grown(R(6)) \in SUBSET Q
    BY <1>5, Growth
  <1>10. Cardinality(Grown(R(6))) <= Cardinality(Q)
    BY <1>9, Growth
  <1>11. /\ C(0) = 1 /\ C(1) \in Nat /\ C(2) \in Nat /\ C(3) \in Nat /\ C(4) \in Nat /\ C(5) \in Nat /\ C(6) \in Nat
         /\ Cardinality(Grown(R(6))) \in Nat /\ Cardinality(Q) \in Nat
    BY <1>4, <1>5, <1>9, Growth
  <1> HIDE DEF C
  <1> QED BY <1>7, <1>8, <1>10, <1>11

\* What walks of at most six hops reach is in every set that has the entry and all it calls.
LEMMA ReachIsNeeded ==
  ASSUME QueriesInv, NEW p, NEW P, p \in P, Closed(P)
  PROVE  Reach(p, 6) \subseteq P
  <1>1. Reach(p, 0) \subseteq P
    BY DEF Reach
  <1>2. ASSUME NEW n \in 0..5, Reach(p, n) \subseteq P
        PROVE  Reach(p, n + 1) \subseteq P
    <2>1. Reach(p, n + 1) = Grown(Reach(p, n))
      BY ReachGrows DEF MaxHops
    <2>2. Hop(Reach(p, n)) \subseteq Hop(P)
      BY <1>2, Hops
    <2> QED BY <1>2, <2>1, <2>2 DEF Grown, Closed
  <1>3. Reach(p, 1) \subseteq P
    BY <1>1, <1>2
  <1>4. Reach(p, 2) \subseteq P
    BY <1>2, <1>3
  <1>5. Reach(p, 3) \subseteq P
    BY <1>2, <1>4
  <1>6. Reach(p, 4) \subseteq P
    BY <1>2, <1>5
  <1>7. Reach(p, 5) \subseteq P
    BY <1>2, <1>6
  <1> QED BY <1>2, <1>7

\* The entries with what the query finds are programs, they are in every set that has the
\* entries and all it calls, and are such a set if one of those has at most seven programs.
LEMMA ClosureFound ==
  ASSUME QueriesInv, NEW t
  PROVE  /\ Entries(t) \cup Reachable(t) \in SUBSET ProgramRows
         /\ \A P : Entries(t) \subseteq P /\ Closed(P) => Entries(t) \cup Reachable(t) \subseteq P
         /\ \A Q \in SUBSET ProgramRows :
              Entries(t) \subseteq Q /\ Closed(Q) /\ Cardinality(Q) <= 7 => Closed(Entries(t) \cup Reachable(t))
  <1>1. Entries(t) \cup Reachable(t) = UNION {Reach(p, 6) : p \in Entries(t)}
    <2>1. \A p \in Entries(t) :
            Reach(p, 6) = {p} \cup ((UNION {WalksFrom(p)[n] : n \in 1..MaxHops}) \ ({p} \cup Unresolved))
      BY DEF Reach, MaxHops
    <2> QED BY <2>1 DEF Reachable
  <1>2. Entries(t) \cup Reachable(t) \in SUBSET ProgramRows
    <2>1. Entries(t) \subseteq ProgramRows
      <3>1. \A r \in Match({"IS_TRANSACTION_FOR"}) : r.to \in ProgramRows
        BY RelFacts DEF Match, ProgramRows
      <3> QED BY <3>1 DEF Entries
    <2>2. Reachable(t) \subseteq ProgramRows
      <3>1. ASSUME NEW p, NEW n \in 1..MaxHops
            PROVE  WalksFrom(p)[n] \ Unresolved \subseteq ProgramRows
        <4>1. WalksFrom(p)[n] = Hop(WalksFrom(p)[n - 1])
          BY Walks
        <4> QED BY <4>1, Hops
      <3> QED BY <3>1 DEF Reachable
    <2> QED BY <2>1, <2>2
  <1>3. ASSUME NEW Q \in SUBSET ProgramRows, Entries(t) \subseteq Q, Closed(Q), Cardinality(Q) <= 7
        PROVE  Closed(UNION {Reach(p, 6) : p \in Entries(t)})
    <2> DEFINE Ps == {Reach(p, 6) : p \in Entries(t)}
    <2>1. \A P \in Ps : Hop(P) \ Unresolved \subseteq P
      BY <1>3, SixHopsClose DEF Closed
    <2> HIDE DEF Ps
    <2>2. Hop(UNION Ps) = UNION {Hop(P) : P \in Ps}
      BY Hops
    <2>3. Closed(UNION Ps)
      BY <2>1, <2>2 DEF Closed
    <2> QED BY <2>3 DEF Ps
  <1>4. ASSUME NEW P, Entries(t) \subseteq P, Closed(P)
        PROVE  UNION {Reach(p, 6) : p \in Entries(t)} \subseteq P
    BY <1>4, ReachIsNeeded
  <1> QED BY <1>1, <1>2, <1>3, <1>4

LEMMA ClosureAnswered == QueriesInv => ReachableIsTheClosure
  <1> SUFFICES ASSUME QueriesInv, stage = "asked"
               PROVE  LET entries == Entries(input.transaction)
                          found   == entries \cup answers.q3.reachable_programs
                          closed  == {P \in SUBSET ProgramRows : entries \subseteq P /\ Closed(P)}
                      IN  /\ \A P \in closed : found \subseteq P
                          /\ (\E P \in closed : Cardinality(P) <= 7) => found \in closed
    BY DEF ReachableIsTheClosure
  <1>1. answers.q3.reachable_programs = Reachable(input.transaction)
    <2>1. PICK entry3, entry4 \in FirstRow(input.transaction) :
            answers = [q1 |-> Q1(input.copybook), q2 |-> Q2(input.dataset),
                       q3 |-> Q3(input.transaction, entry3), q4 |-> Q4(input.transaction, entry4)]
      BY DEF QueriesInv, AnswersStand
    <2> QED BY <2>1 DEF Q3
  <1> QED BY <1>1, ClosureFound

-----------------------------------------------------------------------------
(* What belongs together *)

\* The entity of an id is the one whose row has the id.
LEMMA EntityFound ==
  ASSUME QueriesInv, NEW j \in DOMAIN catalog.entities
  PROVE  EntityOf(catalog.entities[j].id) = catalog.entities[j]
  <1> DEFINE all == {catalog.entities[k] : k \in DOMAIN catalog.entities}
             e == catalog.entities[j]
  <1>1. Delivered(catalog)
    BY CatalogFacts DEF QueriesInv
  <1>2. e \in all /\ \A x \in all : x.id = e.id => x = e
    BY <1>1 DEF Delivered
  <1> HIDE DEF e, all
  <1>3. (CHOOSE x \in all : x.id = e.id) = e
    BY <1>2
  <1> QED BY <1>3 DEF EntityOf, e, all

\* The target of a map edge is a map: a placeholder in the database exactly if it is one
\* in the catalogue, and otherwise a map of a mapset that is there.
LEMMA MapFacts ==
  ASSUME QueriesInv, NEW r \in rels, r.type \in MapEdge
  PROVE  /\ EntityOf(r.to).id = r.to
         /\ EntityOf(r.to).partial <=> r.to \in Placeholders("BMSMap")
         /\ \E row \in Table("BMSMap") : row.id = r.to
         /\ \A row \in Table("BMSMap") : row.id = r.to => row.of = EntityOf(r.to).of
         /\ IF EntityOf(r.to).partial THEN EntityOf(r.to).of = None
            ELSE EntityOf(r.to).of \in {row.id : row \in Table("BMSMapset")}
  <1>1. PICK row \in Table("BMSMap") : row.id = r.to
    BY RelFacts
  <1>2. PICK j \in DOMAIN catalog.entities : row = Row(catalog.entities[j])
    BY RowFacts DEF Table
  <1> DEFINE e == catalog.entities[j]
  <1>3. EntityOf(r.to) = e /\ e.id = r.to /\ e.type = "BMSMap" /\ Row(e) \in rows /\ e.partial \in BOOLEAN
    <2>1. e.id = r.to /\ e.type = "BMSMap"
      BY <1>1, <1>2 DEF Row, Table
    <2>2. e.partial \in BOOLEAN
      <3>1. DOMAIN catalog.entities = 1..Len(catalog.entities) /\ e \in Entity
        BY CatalogFacts DEF QueriesInv
      <3> QED BY <3>1 DEF Entity
    <2>3. Row(e) \in rows
      BY <1>2 DEF Table
    <2> QED BY <2>1, <2>2, <2>3, EntityFound
  <1>4. \A x \in rows : x.id = r.to => x = Row(e)
    <2> SUFFICES ASSUME NEW x \in rows, x.id = r.to
                 PROVE  x = Row(e)
      OBVIOUS
    <2>1. PICK k \in DOMAIN catalog.entities : x = Row(catalog.entities[k])
      BY RowFacts
    <2>2. catalog.entities[k].id = e.id
      BY <1>3, <2>1 DEF Row
    <2>3. k = j
      BY <2>2, CatalogFacts DEF QueriesInv, Delivered
    <2> QED BY <2>1, <2>3
  <1>5. Row(e).partial <=> e.partial
    BY <1>3 DEF Row, HasPartial
  <1>6. e.partial <=> r.to \in Placeholders("BMSMap")
    <2>1. Row(e).table = "BMSMap" /\ Row(e).id = r.to
      BY <1>3 DEF Row
    <2>2. Row(e) \in Table("BMSMap")
      BY <1>3, <2>1 DEF Table
    <2> HIDE DEF e
    <2>3. r.to \in Placeholders("BMSMap") <=> \E x \in Table("BMSMap") : x.partial /\ x.id = r.to
      BY DEF Placeholders
    <2> QED BY <1>4, <1>5, <2>1, <2>2, <2>3 DEF Table
  <1>7. IF e.partial THEN e.of = None ELSE e.of \in {x.id : x \in Table("BMSMapset")}
    <2>1. IF e.partial THEN e.of = None ELSE e.of \in EntitiesOf(catalog, {"BMSMapset"})
      BY <1>3, CatalogFacts DEF QueriesInv, Delivered
    <2>2. ASSUME e.of \in EntitiesOf(catalog, {"BMSMapset"})
          PROVE  e.of \in {x.id : x \in Table("BMSMapset")}
      <3>1. PICK k \in DOMAIN catalog.entities :
              catalog.entities[k].type = "BMSMapset" /\ catalog.entities[k].id = e.of
        BY <2>2 DEF EntitiesOf
      <3>2. Row(catalog.entities[k]) \in rows
        BY RelFacts, RowOf
      <3>3. Row(catalog.entities[k]).table = "BMSMapset" /\ Row(catalog.entities[k]).id = e.of
        BY <3>1 DEF Row
      <3> QED BY <3>2, <3>3 DEF Table
    <2> QED BY <2>1, <2>2
  <1>8. \A x \in Table("BMSMap") : x.id = r.to => x.of = e.of
    BY <1>4 DEF Table, Row
  <1> QED BY <1>1, <1>3, <1>6, <1>7, <1>8

LEMMA AnswersFitted == QueriesInv => AnswersAgree
  <1> SUFFICES ASSUME QueriesInv, stage = "asked"
               PROVE  AnswersAgree
    BY DEF AnswersAgree
  <1> DEFINE c == input.copybook
             d == input.dataset
             t == input.transaction
             common == {p \in Entries(t) : \E site \in answers.q1.direct_includers : site[1] = p}
             shown == answers.q4.map_interactions
             sent == {<<i[1], i[2]>> : i \in {x \in shown : x[1] \in common /\ x[3] = "SENDS_MAP"}}
             known == EdgesBefore(Len(catalog.edges) + 1) \ warned
  <1>1. PICK entry3, entry4 \in FirstRow(t) :
          answers = [q1 |-> Q1(c), q2 |-> Q2(d), q3 |-> Q3(t, entry3), q4 |-> Q4(t, entry4)]
    BY DEF QueriesInv, AnswersStand
  <1>2. /\ answers.q1.direct_includers = {<<r.from, r.line>> : r \in {e \in Match({"INCLUDES"}) :
                                                                     e.to = c /\ e.from \in Includers(c)}}
        /\ answers.q1.transactions = {<<r.from, r.to>> : r \in {e \in Match({"IS_TRANSACTION_FOR"}) :
                                                                  e.to \in Includers(c)}}
        /\ answers.q1.maps = {<<r.from, r.to>> : r \in {e \in Match({"SENDS_MAP"}) :
                                e.from \in Includers(c) /\ e.to \notin Placeholders("BMSMap")}}
    BY <1>1 DEF Q1
  <1>3. answers.q2.program_access =
          {<<r.from, r.type, r.line>> : r \in {e \in Match(AccessEdge) :
                                                 e.to \in {b.from : b \in {x \in Match({"BINDS_TO"}) : x.to = d}}}}
    BY <1>1 DEF Q2
  <1>4. answers.q3.entry_program = entry3 /\ answers.q4.entry_program = entry4
    BY <1>1 DEF Q3, Q4
  <1>5. /\ shown = {<<r.from, r.to, r.type>> : r \in Interactions(t)}
        /\ answers.q4.mapsets = {m.of : m \in {x \in Table("BMSMap") : x.id \in {r.to : r \in Interactions(t)}}}
                                \cap {row.id : row \in Table("BMSMapset")}
    BY <1>1 DEF Q4
  <1>6. known = rels
    <2>1. at = Len(catalog.edges) + 1
      BY DEF QueriesInv, AnswersStand
    <2>2. rels \cup warned = EdgesBefore(at) /\ rels \cap warned = {}
      BY DEF QueriesInv, LostEdgesAreWarned
    <2> QED BY <2>1, <2>2
  <1> HIDE DEF known
  <1>7. common = Entries(t) \cap Includers(c)
    <2>1. \A p : (\E site \in answers.q1.direct_includers : site[1] = p) => p \in Includers(c)
      BY <1>2
    <2>2. ASSUME NEW p \in Includers(c)
          PROVE  \E site \in answers.q1.direct_includers : site[1] = p
      <3>1. PICK r \in Match({"INCLUDES"}) : r.to = c /\ r.from = p
        BY DEF Includers
      <3>2. <<r.from, r.line>> \in answers.q1.direct_includers
        BY <1>2, <3>1
      <3> QED BY <3>1, <3>2
    <2> QED BY <2>1, <2>2
  <1>8. common = {tp[2] : tp \in {x \in answers.q1.transactions : x[1] = t}}
    <2> DEFINE other == {tp[2] : tp \in {x \in answers.q1.transactions : x[1] = t}}
    <2>1. ASSUME NEW p \in common
          PROVE  p \in other
      <3>1. PICK r \in Match({"IS_TRANSACTION_FOR"}) : r.from = t /\ r.to = p
        BY <1>7 DEF Entries
      <3>2. <<t, p>> \in answers.q1.transactions
        BY <1>2, <1>7, <3>1
      <3> QED BY <3>2
    <2>2. ASSUME NEW p \in other
          PROVE  p \in common
      <3>1. PICK r \in Match({"IS_TRANSACTION_FOR"}) : r.from = t /\ r.to = p /\ p \in Includers(c)
        BY <1>2
      <3> QED BY <1>7, <3>1 DEF Entries
    <2> QED BY <2>1, <2>2
  <1> HIDE DEF common
  <1>9. {m \in sent : ~EntityOf(m[2]).partial} = {m \in answers.q1.maps : m[1] \in common}
    <2>1. \A r \in Match({"SENDS_MAP"}) : r \in rels /\ r.type = "SENDS_MAP" /\ r.type \in MapEdge
      BY DEF Match, MapEdge
    <2>2. sent = {<<r.from, r.to>> : r \in {e \in Match({"SENDS_MAP"}) : e.from \in common}}
      <3>1. ASSUME NEW m \in sent
            PROVE  \E r \in Match({"SENDS_MAP"}) : r.from \in common /\ m = <<r.from, r.to>>
        <4>1. PICK i \in shown : i[1] \in common /\ i[3] = "SENDS_MAP" /\ m = <<i[1], i[2]>>
          OBVIOUS
        <4>2. PICK r \in Interactions(t) : i = <<r.from, r.to, r.type>>
          BY <1>5
        <4> QED BY <4>1, <4>2 DEF Interactions, Match
      <3>2. ASSUME NEW r \in Match({"SENDS_MAP"}), r.from \in common
            PROVE  <<r.from, r.to>> \in sent
        <4>1. r \in Interactions(t) /\ r.type = "SENDS_MAP"
          BY <1>7, <2>1, <3>2 DEF Interactions, Match
        <4>2. <<r.from, r.to, r.type>> \in shown
          BY <1>5, <4>1
        <4> HIDE DEF shown
        <4> QED BY <3>2, <4>1, <4>2
      <3> HIDE DEF sent
      <3> QED BY <3>1, <3>2
    <2> HIDE DEF sent
    <2>3. \A r \in Match({"SENDS_MAP"}) : EntityOf(r.to).partial <=> r.to \in Placeholders("BMSMap")
      BY <2>1, MapFacts
    <2>4. \A r \in Match({"SENDS_MAP"}) : r.from \in common => r.from \in Includers(c)
      BY <1>7
    <2>5. ASSUME NEW m \in sent, ~EntityOf(m[2]).partial
          PROVE  m \in answers.q1.maps /\ m[1] \in common
      <3>1. PICK r \in Match({"SENDS_MAP"}) : r.from \in common /\ m = <<r.from, r.to>>
        BY <2>2
      <3> QED BY <1>2, <2>3, <2>4, <2>5, <3>1
    <2>6. ASSUME NEW m \in answers.q1.maps, m[1] \in common
          PROVE  m \in sent /\ ~EntityOf(m[2]).partial
      <3>1. PICK r \in Match({"SENDS_MAP"}) : r.to \notin Placeholders("BMSMap") /\ m = <<r.from, r.to>>
        BY <1>2
      <3> QED BY <2>2, <2>3, <2>6, <3>1
    <2> QED BY <2>5, <2>6
  <1>10. answers.q4.mapsets = {EntityOf(i[2]).of : i \in {x \in shown : ~EntityOf(x[2]).partial}}
    <2> DEFINE other == {EntityOf(i[2]).of : i \in {x \in shown : ~EntityOf(x[2]).partial}}
               mapsets == {row.id : row \in Table("BMSMapset")}
    <2>1. \A r \in Interactions(t) : r \in rels /\ r.type \in MapEdge
      BY DEF Interactions, Match
    <2>2. None \notin mapsets
      <3>1. \A row \in rows : row.id \in Ids
        BY DEF QueriesInv, TypeInvariant
      <3> QED BY <3>1, QueriesAssumption DEF Table
    <2>3. /\ \A r \in Interactions(t) : ~EntityOf(r.to).partial => EntityOf(r.to).of \in other
          /\ \A s \in other : \E r \in Interactions(t) : ~EntityOf(r.to).partial /\ s = EntityOf(r.to).of
      <3> HIDE DEF shown
      <3>1. ASSUME NEW r \in Interactions(t), ~EntityOf(r.to).partial
            PROVE  EntityOf(r.to).of \in other
        <4>1. <<r.from, r.to, r.type>> \in shown
          BY <1>5
        <4> QED BY <3>1, <4>1
      <3>2. ASSUME NEW i \in shown, ~EntityOf(i[2]).partial
            PROVE  \E r \in Interactions(t) : ~EntityOf(r.to).partial /\ EntityOf(i[2]).of = EntityOf(r.to).of
        <4>1. PICK r \in Interactions(t) : i = <<r.from, r.to, r.type>>
          BY <1>5
        <4> QED BY <3>2, <4>1
      <3> QED BY <3>1, <3>2
    <2>4. ASSUME NEW s \in answers.q4.mapsets
          PROVE  s \in other
      <3>1. PICK m \in Table("BMSMap"), r \in Interactions(t) : m.id = r.to /\ s = m.of /\ s \in mapsets
        BY <1>5
      <3>2. s = EntityOf(r.to).of
        BY <2>1, <3>1, MapFacts
      <3>3. ~EntityOf(r.to).partial
        BY <2>1, <2>2, <3>1, <3>2, MapFacts
      <3> HIDE DEF other
      <3> QED BY <2>3, <3>2, <3>3
    <2>5. ASSUME NEW s \in other
          PROVE  s \in answers.q4.mapsets
      <3>1. PICK r \in Interactions(t) : ~EntityOf(r.to).partial /\ s = EntityOf(r.to).of
        BY <2>3
      <3>2. s \in mapsets
        BY <2>1, <3>1, MapFacts
      <3>3. PICK m \in Table("BMSMap") : m.id = r.to
        BY <2>1, MapFacts
      <3>4. m.of = s
        BY <2>1, <3>1, <3>3, MapFacts
      <3> HIDE DEF other
      <3> QED BY <1>5, <3>2, <3>3, <3>4
    <2> QED BY <2>4, <2>5
  <1>11. \A access \in answers.q2.program_access :
           \E e, b \in known : /\ e.type = access[2] /\ e.from = access[1] /\ e.line = access[3]
                               /\ b.type = "BINDS_TO" /\ b.from = e.to /\ b.to = d
    <2> SUFFICES ASSUME NEW access \in answers.q2.program_access
                 PROVE  \E e, b \in rels : /\ e.type = access[2] /\ e.from = access[1] /\ e.line = access[3]
                                           /\ b.type = "BINDS_TO" /\ b.from = e.to /\ b.to = d
      BY <1>6
    <2>1. PICK e \in Match(AccessEdge), b \in Match({"BINDS_TO"}) :
            access = <<e.from, e.type, e.line>> /\ b.to = d /\ e.to = b.from
      BY <1>3
    <2> QED BY <2>1 DEF Match
  <1>12. {answers.q3.entry_program, answers.q4.entry_program} \subseteq FirstRow(t)
    BY <1>1, <1>4
  <1> HIDE DEF sent, shown
  <1> QED BY <1>8, <1>9, <1>10, <1>11, <1>12 DEF AnswersAgree, common, sent, shown, known

-----------------------------------------------------------------------------
(* The gold match *)

\* The comparison reads the database and the document, and changes neither.
LEMMA SameComparison ==
  ASSUME rows' = rows, rels' = rels, gold' = gold
  PROVE  /\ \A first, last : Comparisons(first, last)' = Comparisons(first, last)
         /\ LastRows' = LastRows /\ Transactional' = Transactional
  <1>1. Sections' = Sections /\ Transactional' = Transactional
    BY DEF Sections, Transactional
  <1>2. LastRows' = LastRows
    BY DEF LastRows, Table
  <1>3. \A s, first, last : CompareSection(s, first, last)' = CompareSection(s, first, last)
    <2>1. \A s : CompareQ1(s)' = CompareQ1(s)
      BY SameAnswers DEF CompareQ1
    <2>2. \A s : CompareQ2(s)' = CompareQ2(s)
      BY SameAnswers DEF CompareQ2
    <2>3. \A s, entry : CompareQ3(s, entry)' = CompareQ3(s, entry)
      BY SameAnswers DEF CompareQ3
    <2>4. \A s, entry : CompareQ4(s, entry)' = CompareQ4(s, entry)
      BY SameAnswers DEF CompareQ4
    <2> QED BY <2>1, <2>2, <2>3, <2>4 DEF CompareSection, CompareQ6
  <1>4. \A first, last : Comparisons(first, last)' = Comparisons(first, last)
    BY <1>1, <1>3 DEF Comparisons
  <1> QED BY <1>1, <1>2, <1>4

\* The document is read of a finished database, and what was found is what that database
\* and the document say.
GoldInv ==
  /\ gold # <<>> => stage \in {"asked", "failed"} /\ gold \in Golds
  /\ exit # None =>
       /\ gold # <<>>
       /\ \E first : \E last \in LastRows :
            /\ \A s \in Transactional : first[s] \in FirstRow(s.about)
            /\ exit = ExitCode(Comparisons(first, last))

LEMMA GoldInitInv == GoldInit => QueriesInv /\ GoldInv
BY InitInv DEF GoldInit, GoldInv

LEMMA GoldNextInv == QueriesInv /\ GoldInv /\ [GoldNext]_<<vars, goldVars>> => (QueriesInv /\ GoldInv)'
  <1> SUFFICES ASSUME QueriesInv, GoldInv, [GoldNext]_<<vars, goldVars>>
               PROVE  (QueriesInv /\ GoldInv)'
    OBVIOUS
  <1>1. QueriesInv'
    BY NextInv DEF GoldNext, ReadGold, CompareAll
  <1>2. CASE Next /\ UNCHANGED goldVars
    <2>1. stage \in {"nodes", "edges"}
      BY <1>2 DEF Next, CreateNode, NodeFails, NodesDone, CreateEdge, EdgeFails, Ask
    <2>2. gold = <<>> /\ exit = None
      BY <2>1 DEF GoldInv
    <2> QED BY <1>1, <1>2, <2>2 DEF GoldInv, goldVars
  <1>3. CASE ReadGold
    BY <1>1, <1>3 DEF GoldInv, ReadGold, vars
  <1>4. CASE CompareAll
    <2>1. /\ gold # <<>> /\ gold' = gold /\ stage' = stage /\ rows' = rows /\ rels' = rels
      BY <1>4 DEF CompareAll, vars
    <2>2. PICK first, last :
            /\ last \in LastRows
            /\ \A s \in Transactional : first[s] \in FirstRow(s.about)
            /\ exit' = ExitCode(Comparisons(first, last))
      BY <1>4 DEF CompareAll
    <2>3. /\ Comparisons(first, last)' = Comparisons(first, last)
          /\ LastRows' = LastRows /\ Transactional' = Transactional
          /\ \A t : FirstRow(t)' = FirstRow(t)
      BY <2>1, SameAnswers, SameComparison
    <2>4. gold' # <<>> => stage' \in {"asked", "failed"} /\ gold' \in Golds
      BY <2>1 DEF GoldInv
    <2> QED BY <1>1, <2>1, <2>2, <2>3, <2>4 DEF GoldInv
  <1>5. CASE UNCHANGED <<vars, goldVars>>
    <2>1. /\ gold' = gold /\ exit' = exit /\ stage' = stage /\ rows' = rows /\ rels' = rels
      BY <1>5 DEF vars, goldVars
    <2>2. /\ \A first, last : Comparisons(first, last)' = Comparisons(first, last)
          /\ LastRows' = LastRows /\ Transactional' = Transactional
          /\ \A t : FirstRow(t)' = FirstRow(t)
      BY <2>1, SameAnswers, SameComparison
    <2> QED BY <1>1, <2>1, <2>2 DEF GoldInv
  <1> QED BY <1>2, <1>3, <1>4, <1>5 DEF GoldNext

\* What the catalogue says is what the database holds.
LEMMA KnownHeld ==
  ASSUME QueriesInv, stage \in {"asked", "failed"}
  PROVE  /\ Known = rels /\ KnownPrograms = ProgramRows
         /\ \A t : EntryOf(t) = Entries(t)
         /\ \A P : CallsOf(P) = Hop(P)
         /\ \A t : Surface(t) = {EntityOf(r.to) : r \in Interactions(t)}
  <1>1. Known = rels
    <2>1. CASE stage = "asked"
      <3>1. at = Len(catalog.edges) + 1 /\ Len(catalog.edges) \in Nat /\ DOMAIN catalog.edges = 1..Len(catalog.edges)
        BY <2>1, CatalogFacts DEF QueriesInv, AnswersStand
      <3>2. DOMAIN catalog.edges = 1..(at - 1)
        BY <3>1
      <3>3. rels \cup warned = {catalog.edges[j] : j \in DOMAIN catalog.edges} /\ rels \cap warned = {}
        BY <2>1, <3>2 DEF QueriesInv, LostEdgesAreWarned, EdgesBefore
      <3> QED BY <2>1, <3>3 DEF Known
    <2>2. CASE stage = "failed"
      BY <2>2 DEF Known, QueriesInv, LostEdgesAreWarned
    <2> QED BY <2>1, <2>2
  <1>2. KnownPrograms = ProgramRows
    <2>1. ASSUME NEW row \in rows
          PROVE  row.id \in {e.id : e \in {catalog.entities[j] : j \in DOMAIN catalog.entities}}
      <3>1. PICK j \in DOMAIN catalog.entities : row = Row(catalog.entities[j])
        BY RowFacts
      <3> QED BY <3>1 DEF Row
    <2> QED BY <2>1 DEF KnownPrograms, ProgramRows, Table
  <1>3. \A t : EntryOf(t) = Entries(t)
    BY <1>1 DEF EntryOf, Entries, Match
  <1>4. \A P : CallsOf(P) = Hop(P)
    BY <1>1 DEF CallsOf, Hop, Match
  <1>5. \A t : Surface(t) = {EntityOf(r.to) : r \in Interactions(t)}
    <2>1. \A t : Interactions(t) = {x \in Known : x.type \in MapEdge /\ x.from \in EntryOf(t)}
      BY <1>1, <1>3 DEF Interactions, Match
    <2> QED BY <2>1 DEF Surface
  <1> QED BY <1>1, <1>2, <1>3, <1>4, <1>5

\* A section that has the parts that are read, as WellFormed asks of each
ReadOnce(s) ==
  /\ \A name \in ReadParts[s.q] : Once(s, name)
  /\ s.q = "Q3" => Place(s, "reachable_programs") < Place(s, "unresolved_reaches")
  /\ s.q = "Q4" => Place(s, "map_interactions") < Place(s, "mapsets")

LEMMA PartFound ==
  ASSUME NEW s, NEW name, Once(s, name)
  PROVE  /\ Has(s, name)
         /\ \E k \in DOMAIN s.parts : s.parts[k].name = name /\ \A default : Part(s, name, default) = s.parts[k].value
  <1>1. PICK k \in DOMAIN s.parts : \A j \in DOMAIN s.parts : s.parts[j].name = name <=> j = k
    BY DEF Once
  <1>2. Has(s, name) /\ Place(s, name) = k /\ s.parts[k].name = name
    BY <1>1 DEF Has, Place
  <1> QED BY <1>2 DEF Part

\* What stands beside them does not matter.
LEMMA PartsFound ==
  ASSUME NEW s, ReadOnce(s)
  PROVE  /\ s.q = "Q3" => /\ Has(s, "entry_program")
                          /\ Between(s, "reachable_programs", "unresolved_reaches") = Part(s, "reachable_programs", {})
         /\ s.q = "Q4" => /\ Has(s, "entry_program") /\ Has(s, "field_surface")
                          /\ Between(s, "map_interactions", "mapsets") = Part(s, "map_interactions", {})
         /\ s.q = "Q6" => \E k \in DOMAIN s.parts : /\ s.parts[k].name = "items"
                                                    /\ Part(s, "items", {}) = s.parts[k].value
  <1>1. CASE s.q = "Q3"
    <2>1. Once(s, "entry_program") /\ Once(s, "reachable_programs") /\ Once(s, "unresolved_reaches")
      BY <1>1 DEF ReadOnce, ReadParts
    <2>2. Has(s, "entry_program") /\ Has(s, "reachable_programs") /\ Has(s, "unresolved_reaches")
      BY <2>1, PartFound
    <2> QED BY <1>1, <2>2 DEF Between, ReadOnce
  <1>2. CASE s.q = "Q4"
    <2>1. Once(s, "entry_program") /\ Once(s, "map_interactions") /\ Once(s, "mapsets") /\ Once(s, "field_surface")
      BY <1>2 DEF ReadOnce, ReadParts
    <2>2. Has(s, "entry_program") /\ Has(s, "map_interactions") /\ Has(s, "mapsets") /\ Has(s, "field_surface")
      BY <2>1, PartFound
    <2> QED BY <1>2, <2>2 DEF Between, ReadOnce
  <1>3. CASE s.q = "Q6"
    <2>1. Once(s, "items")
      BY <1>3 DEF ReadOnce, ReadParts
    <2> QED BY <1>3, <2>1, PartFound
  <1> QED BY <1>1, <1>2, <1>3

\* The comparison does not count as a failure; none of them does.
Good(r) == r.incremental \/ r.expected = r.actual

Passed(R) == \A r \in R : Good(r)

LEMMA Judged ==
  ASSUME NEW s, NEW field, NEW expected, NEW actual
  PROVE  Good(Compared(s, field, expected, actual)) <=> (field = "jcl_access" \/ expected = actual)
  <1> DEFINE r == Compared(s, field, expected, actual)
  <1>1. r.expected = expected /\ r.actual = actual
    BY DEF Compared
  <1>2. r.incremental <=> field = "jcl_access"
    BY DEF Compared
  <1> QED BY <1>1, <1>2 DEF Good

LEMMA IncludersJudged ==
  ASSUME QueriesInv, stage \in {"asked", "failed"}, NEW s, s.q = "Q1"
  PROVE  Passed(CompareQ1(s)) <=> Right(s)
  <1> DEFINE t == s.about
             value == Part(s, "direct_includers", {})
             said == {p \in KnownPrograms : \E e \in Known : e.type = "INCLUDES" /\ e.from = p /\ e.to = t}
             found == {site[1] : site \in Q1(t).direct_includers}
  <1>1. Right(s) <=> value = said
    BY DEF Right
  <1>2. Passed(CompareQ1(s)) <=> value = found
    <2>1. CompareQ1(s) = {Compared(s, "direct_includers", value, found)}
      BY DEF CompareQ1
    <2> HIDE DEF value, found
    <2> QED BY <2>1, Judged DEF Passed
  <1>3. said = Includers(t)
    <2>1. \A r \in Match({"INCLUDES"}) : r \in rels /\ r.type = "INCLUDES" /\ r.from \notin Unresolved
      BY RelFacts DEF Match
    <2> QED BY <2>1, KnownHeld DEF Includers, ProgramRows, Match
  <1>4. found = Includers(t)
    <2>1. Q1(t).direct_includers =
            {<<r.from, r.line>> : r \in {e \in Match({"INCLUDES"}) : e.to = t /\ e.from \in Includers(t)}}
      BY DEF Q1
    <2>2. ASSUME NEW p \in Includers(t)
          PROVE  \E site \in Q1(t).direct_includers : site[1] = p
      <3>1. PICK r \in Match({"INCLUDES"}) : r.to = t /\ r.from = p
        BY DEF Includers
      <3>2. <<r.from, r.line>> \in Q1(t).direct_includers
        BY <2>1, <3>1
      <3> QED BY <3>1, <3>2
    <2>3. \A site \in Q1(t).direct_includers : site[1] \in Includers(t)
      BY <2>1
    <2> QED BY <2>2, <2>3
  <1> QED BY <1>1, <1>2, <1>3, <1>4

LEMMA AccessJudged ==
  ASSUME QueriesInv, stage \in {"asked", "failed"}, NEW s, s.q = "Q2"
  PROVE  Passed(CompareQ2(s)) <=> Right(s)
  <1> DEFINE t == s.about
             value == Part(s, "program_access", {})
             said == {<<e.from, e.type, e.line>> : e \in {x \in Known : x.type \in AccessEdge /\
                        \E b \in Known : b.type = "BINDS_TO" /\ b.from = x.to /\ b.to = t}}
             found == Q2(t).program_access
  <1>1. Right(s) <=> value = said
    BY DEF Right
  <1>2. Passed(CompareQ2(s)) <=> value = found
    BY Judged DEF Passed, CompareQ2
  <1>3. found = {<<r.from, r.type, r.line>> :
                   r \in {e \in Match(AccessEdge) : e.to \in {b.from : b \in {x \in Match({"BINDS_TO"}) : x.to = t}}}}
    BY DEF Q2
  <1>4. {e \in Match(AccessEdge) : e.to \in {b.from : b \in {x \in Match({"BINDS_TO"}) : x.to = t}}}
        = {x \in Known : x.type \in AccessEdge /\ \E b \in Known : b.type = "BINDS_TO" /\ b.from = x.to /\ b.to = t}
    BY KnownHeld DEF Match
  <1>5. found = said
    BY <1>3, <1>4
  <1> QED BY <1>1, <1>2, <1>5

\* The closure of the entry, by what the catalogue says, is what six hops find if it has at
\* most seven programs.
LEMMA ClosureIs ==
  ASSUME QueriesInv, stage \in {"asked", "failed"}, NEW t, Cardinality(Closure(t)) <= 7
  PROVE  Closure(t) = Entries(t) \cup Reachable(t)
  <1> DEFINE C == Entries(t) \cup Reachable(t)
             closed == {P \in SUBSET ProgramRows : Entries(t) \subseteq P /\ Closed(P)}
  <1>1. Closure(t) = {p \in ProgramRows : \A P \in closed : p \in P}
    BY KnownHeld DEF Closure, Closed
  <1>2. C \in SUBSET ProgramRows /\ \A P \in closed : C \subseteq P
    BY ClosureFound
  <1>3. C \subseteq Closure(t)
    BY <1>1, <1>2
  <1>4. Closed(Closure(t))
    <2>1. ASSUME NEW P \in closed
          PROVE  Hop(Closure(t)) \ Unresolved \subseteq P
      <3>1. Closure(t) \subseteq P
        BY <1>1
      <3>2. Hop(Closure(t)) \subseteq Hop(P)
        BY <3>1, Hops
      <3> QED BY <3>2 DEF Closed
    <2>2. Hop(Closure(t)) \ Unresolved \subseteq ProgramRows
      BY Hops
    <2> HIDE DEF closed
    <2>3. Hop(Closure(t)) \ Unresolved \subseteq Closure(t)
      BY <1>1, <2>1, <2>2
    <2> QED BY <2>3 DEF Closed
  <1>5. Closure(t) \in SUBSET ProgramRows /\ Entries(t) \subseteq Closure(t)
    BY <1>1, <1>3
  <1>6. C \in closed
    <2>1. Closed(C)
      BY <1>4, <1>5, ClosureFound
    <2> QED BY <1>2, <2>1
  <1>7. Closure(t) \subseteq C
    BY <1>1, <1>6
  <1> QED BY <1>3, <1>7

\* With one entry at most, the first row is the row.
LEMMA OneEntry ==
  ASSUME QueriesInv, stage \in {"asked", "failed"}, NEW t, Cardinality(EntryOf(t)) <= 1
  PROVE  /\ \A p, q \in Entries(t) : p = q
         /\ \A p, q \in FirstRow(t) : p = q
  <1>1. Entries(t) \in SUBSET ProgramRows
    <2>1. \A r \in Match({"IS_TRANSACTION_FOR"}) : r.to \in ProgramRows
      BY RelFacts DEF Match, ProgramRows
    <2> QED BY <2>1 DEF Entries
  <1>2. IsFiniteSet(Entries(t))
    BY <1>1, ProgramsFinite, FS_Subset
  <1>3. Cardinality(Entries(t)) \in Nat /\ Cardinality(Entries(t)) <= 1
    BY <1>2, KnownHeld, FS_CardinalityType
  <1>4. Cardinality(Entries(t)) = 0 \/ Cardinality(Entries(t)) = 1
    BY <1>3
  <1>5. Entries(t) = {} \/ \E x : Entries(t) = {x}
    BY <1>2, <1>4, FS_EmptySet, FS_Singleton
  <1> QED BY <1>5 DEF FirstRow

LEMMA ClosureJudged ==
  ASSUME QueriesInv, stage \in {"asked", "failed"},
         NEW s, ReadOnce(s), s.q = "Q3", Cardinality(EntryOf(s.about)) <= 1, Cardinality(Closure(s.about)) <= 7,
         NEW entry \in FirstRow(s.about)
  PROVE  Passed(CompareQ3(s, entry)) <=> Right(s)
  <1> DEFINE t == s.about
             first == Part(s, "entry_program", {})
             reached == Part(s, "reachable_programs", {})
             left == Part(s, "unresolved_reaches", {})
             calls == {<<e.from, e.to>> : e \in {x \in Known : x.type \in ProgramEdge /\ x.from \in EntryOf(t)
                                                               /\ x.to \in Unresolved}}
  <1>1. Right(s) <=> first \in FirstRow(t) /\ reached = Closure(t) \ EntryOf(t) /\ left = calls
    <2>1. {e \in Known : e.type \in ProgramEdge /\ e.from \in EntryOf(t) /\ e.to \in Unresolved}
          = {x \in Known : x.type \in ProgramEdge /\ x.from \in EntryOf(t) /\ x.to \in Unresolved}
      OBVIOUS
    <2> QED BY <2>1 DEF Right
  <1>2. CompareQ3(s, entry) =
          {Compared(s, "entry_program", {first}, {entry}),
           Compared(s, "reachable_programs", reached, Reachable(t)),
           Compared(s, "unresolved_reaches", left, UnresolvedReaches(t))}
    <2>1. Part(s, "entry_program", None) = first
      BY PartsFound DEF Part
    <2>2. Between(s, "reachable_programs", "unresolved_reaches") = reached
      BY PartsFound
    <2> QED BY <2>1, <2>2 DEF CompareQ3, Q3
  <1> HIDE DEF first, reached, left, calls
  <1>3. Passed(CompareQ3(s, entry)) <=> first = entry /\ reached = Reachable(t) /\ left = UnresolvedReaches(t)
    <2>1. Passed(CompareQ3(s, entry)) <=>
            /\ Good(Compared(s, "entry_program", {first}, {entry}))
            /\ Good(Compared(s, "reachable_programs", reached, Reachable(t)))
            /\ Good(Compared(s, "unresolved_reaches", left, UnresolvedReaches(t)))
      BY <1>2 DEF Passed
    <2>2. Good(Compared(s, "entry_program", {first}, {entry})) <=> first = entry
      BY Judged
    <2>3. Good(Compared(s, "reachable_programs", reached, Reachable(t))) <=> reached = Reachable(t)
      BY Judged
    <2>4. Good(Compared(s, "unresolved_reaches", left, UnresolvedReaches(t))) <=> left = UnresolvedReaches(t)
      BY Judged
    <2> QED BY <2>1, <2>2, <2>3, <2>4
  <1>4. first = entry <=> first \in FirstRow(t)
    BY OneEntry
  <1>5. Closure(t) \ EntryOf(t) = Reachable(t)
    <2>1. Closure(t) = Entries(t) \cup Reachable(t) /\ EntryOf(t) = Entries(t)
      BY ClosureIs, KnownHeld
    <2>2. \A p, q \in Entries(t) : p = q
      BY OneEntry
    <2>3. Reachable(t) \cap Entries(t) = {}
      BY <2>2 DEF Reachable
    <2> QED BY <2>1, <2>3
  <1>6. calls = UnresolvedReaches(t)
    <2>1. {x \in Known : x.type \in ProgramEdge /\ x.from \in EntryOf(t) /\ x.to \in Unresolved}
          = {e \in Match(ProgramEdge) : e.from \in Entries(t) /\ e.to \in Unresolved}
      BY KnownHeld DEF Match
    <2> QED BY <2>1 DEF calls, UnresolvedReaches
  <1> QED BY <1>1, <1>3, <1>4, <1>5, <1>6

\* The mapsets that the maps of a transaction are in
LEMMA MapsetsFound ==
  ASSUME QueriesInv, stage \in {"asked", "failed"}, NEW t, NEW entry
  PROVE  Q4(t, entry).mapsets = {m.of : m \in Surface(t)} \ {None}
  <1> DEFINE mapsets == {row.id : row \in Table("BMSMapset")}
  <1>1. Q4(t, entry).mapsets = {m.of : m \in {x \in Table("BMSMap") : x.id \in {r.to : r \in Interactions(t)}}} \cap mapsets
    BY DEF Q4
  <1>2. \A r \in Interactions(t) : r \in rels /\ r.type \in MapEdge
    BY DEF Interactions, Match
  <1>3. None \notin mapsets
    <2>1. \A row \in rows : row.id \in Ids
      BY DEF QueriesInv, TypeInvariant
    <2> QED BY <2>1, QueriesAssumption DEF Table
  <1>4. Surface(t) = {EntityOf(r.to) : r \in Interactions(t)}
    BY KnownHeld
  <1>5. ASSUME NEW u \in Q4(t, entry).mapsets
        PROVE  u \in {m.of : m \in Surface(t)} /\ u # None
    <2>1. PICK m \in Table("BMSMap"), r \in Interactions(t) : m.id = r.to /\ u = m.of /\ u \in mapsets
      BY <1>1
    <2>2. u = EntityOf(r.to).of
      BY <1>2, <2>1, MapFacts
    <2> QED BY <1>3, <1>4, <2>1, <2>2
  <1>6. ASSUME NEW u \in {m.of : m \in Surface(t)}, u # None
        PROVE  u \in Q4(t, entry).mapsets
    <2>1. PICK r \in Interactions(t) : u = EntityOf(r.to).of
      BY <1>4
    <2>2. u \in mapsets
      BY <1>2, <1>6, <2>1, MapFacts
    <2>3. PICK m \in Table("BMSMap") : m.id = r.to
      BY <1>2, MapFacts
    <2>4. m.of = u
      BY <1>2, <2>1, <2>3, MapFacts
    <2> QED BY <1>1, <2>2, <2>3, <2>4
  <1> QED BY <1>5, <1>6

LEMMA SurfaceJudged ==
  ASSUME QueriesInv, stage \in {"asked", "failed"},
         NEW s, ReadOnce(s), s.q = "Q4", Cardinality(EntryOf(s.about)) <= 1, NEW entry \in FirstRow(s.about),
         Cardinality(FieldsOf(Surface(s.about))) <= MaxFields
  PROVE  Passed(CompareQ4(s, entry)) <=> Right(s)
  <1> DEFINE t == s.about
             first == Part(s, "entry_program", {})
             shown == Part(s, "map_interactions", {})
             sets == Part(s, "mapsets", {})
             count == Part(s, "field_surface", {})
             said == {<<e.from, e.to>> : e \in {x \in Known : x.type \in MapEdge /\ x.from \in EntryOf(t)}}
             pairs == {<<i[1], i[2]>> : i \in Q4(t, entry).map_interactions}
  <1>1. Right(s) <=> /\ first \in FirstRow(t) /\ shown = said
                     /\ sets = {m.of : m \in Surface(t)} \ {None}
                     /\ count = Cardinality(FieldsOf(Surface(t)))
    BY DEF Right
  <1>2. CompareQ4(s, entry) =
          {Compared(s, "entry_program", {first}, {entry}),
           Compared(s, "mapsets", sets, Q4(t, entry).mapsets),
           Compared(s, "map_interactions", shown, pairs),
           Compared(s, "field_surface", {count}, {Q4(t, entry).field_surface})}
    <2>1. Part(s, "entry_program", None) = first /\ Part(s, "field_surface", None) = count
      BY PartsFound DEF Part
    <2>2. Between(s, "map_interactions", "mapsets") = shown
      BY PartsFound
    <2>3. Q4(t, entry).entry_program = entry
      BY DEF Q4
    <2> QED BY <2>1, <2>2, <2>3 DEF CompareQ4
  <1> HIDE DEF first, shown, sets, count, said, pairs
  <1>3. Passed(CompareQ4(s, entry)) <=>
          first = entry /\ sets = Q4(t, entry).mapsets /\ shown = pairs /\ count = Q4(t, entry).field_surface
    <2>1. Passed(CompareQ4(s, entry)) <=>
            /\ Good(Compared(s, "entry_program", {first}, {entry}))
            /\ Good(Compared(s, "mapsets", sets, Q4(t, entry).mapsets))
            /\ Good(Compared(s, "map_interactions", shown, pairs))
            /\ Good(Compared(s, "field_surface", {count}, {Q4(t, entry).field_surface}))
      BY <1>2 DEF Passed
    <2>2. Good(Compared(s, "entry_program", {first}, {entry})) <=> first = entry
      BY Judged
    <2>3. Good(Compared(s, "mapsets", sets, Q4(t, entry).mapsets)) <=> sets = Q4(t, entry).mapsets
      BY Judged
    <2>4. Good(Compared(s, "map_interactions", shown, pairs)) <=> shown = pairs
      BY Judged
    <2>5. Good(Compared(s, "field_surface", {count}, {Q4(t, entry).field_surface})) <=> count = Q4(t, entry).field_surface
      BY Judged
    <2> QED BY <2>1, <2>2, <2>3, <2>4, <2>5
  <1>4. first = entry <=> first \in FirstRow(t)
    BY OneEntry
  <1>5. pairs = said
    <2>1. Q4(t, entry).map_interactions = {<<r.from, r.to, r.type>> : r \in Interactions(t)}
      BY DEF Q4
    <2>2. pairs = {<<r.from, r.to>> : r \in Interactions(t)}
      <3>1. \A r \in Interactions(t) : <<r.from, r.to>> \in pairs
        <4>1. TAKE r \in Interactions(t)
        <4>2. <<r.from, r.to, r.type>> \in Q4(t, entry).map_interactions
          BY <2>1
        <4>3. \A i \in Q4(t, entry).map_interactions : <<i[1], i[2]>> \in pairs
          BY DEF pairs
        <4> DEFINE i == <<r.from, r.to, r.type>>
        <4>4. i[1] = r.from /\ i[2] = r.to
          OBVIOUS
        <4>5. <<i[1], i[2]>> \in pairs
          BY <4>2, <4>3
        <4> QED BY <4>4, <4>5
      <3>2. \A x \in pairs : \E r \in Interactions(t) : x = <<r.from, r.to>>
        BY <2>1 DEF pairs
      <3> QED BY <3>1, <3>2
    <2>3. Interactions(t) = {x \in Known : x.type \in MapEdge /\ x.from \in EntryOf(t)}
      BY KnownHeld DEF Interactions, Match
    <2> QED BY <2>2, <2>3 DEF said
  <1>6. Q4(t, entry).field_surface = Cardinality(FieldsOf(Surface(t)))
    <2>1. \A r \in Interactions(t) : EntityOf(r.to).id = r.to
      BY MapFacts DEF Interactions, Match
    <2>2. {m.id : m \in Surface(t)} = {r.to : r \in Interactions(t)}
      BY <2>1, KnownHeld
    <2>3. FieldsOf(Surface(t)) = Labels(t)
      BY <2>2 DEF FieldsOf, Labels
    <2>4. Cardinality(Labels(t)) <= MaxFields
      BY <2>3
    <2> QED BY <2>3, <2>4 DEF Q4
  <1> QED BY <1>1, <1>3, <1>4, <1>5, <1>6, MapsetsFound

LEMMA ItemsJudged ==
  ASSUME NEW s, s.q = "Q6", NEW last,
         \A a, b \in Part(s, "items", {}) : a.key = b.key => a = b,
         \A x, y \in Layout(s) : x.key = y.key => x = y,
         {row \in last : row.of = s.about /\ row.key \notin
            {i.key : i \in {x \in Part(s, "items", {}) : x.accepted = Skip}}} = Layout(s)
  PROVE  Passed(CompareQ6(s, last)) <=> Right(s)
  <1> DEFINE all == Part(s, "items", {})
             items == {x \in all : x.accepted # Skip}
             skip == {i.key : i \in {x \in all : x.accepted = Skip}}
             wanted == {i.key : i \in all} \ skip
             found == {row \in last : row.of = s.about /\ row.key \notin skip}
             both == {row \in found : row.key \in wanted}
             typed == {row.key : row \in {x \in both : \E i \in all : i.key = x.key /\ x.text \in i.accepted}}
  <1>1. Right(s) <=> /\ {i.key : i \in items} = {row.key : row \in found}
                     /\ \A i \in items, row \in found : i.key = row.key => row.text \in i.accepted
    <2>1. found = Layout(s)
      OBVIOUS
    <2> HIDE DEF found
    <2>2. Right(s) <=> /\ {i.key : i \in items} = {row.key : row \in Layout(s)}
                       /\ \A i \in items, row \in Layout(s) : i.key = row.key => row.text \in i.accepted
      BY DEF Right
    <2> QED BY <2>1, <2>2
  <1>2. CompareQ6(s, last) =
          {Compared(s, "field_set", wanted, {row.key : row \in found}),
           Compared(s, "sql_types", {row.key : row \in both}, typed)}
    BY DEF CompareQ6
  <1>3. Passed(CompareQ6(s, last)) <=> wanted = {row.key : row \in found} /\ {row.key : row \in both} = typed
    <2> DEFINE keys == {row.key : row \in found}
               shared == {row.key : row \in both}
    <2>1. CompareQ6(s, last) = {Compared(s, "field_set", wanted, keys), Compared(s, "sql_types", shared, typed)}
      BY <1>2
    <2> HIDE DEF wanted, keys, shared, typed
    <2>2. Passed(CompareQ6(s, last)) <=>
            Good(Compared(s, "field_set", wanted, keys)) /\ Good(Compared(s, "sql_types", shared, typed))
      BY <2>1 DEF Passed
    <2>3. Good(Compared(s, "field_set", wanted, keys)) <=> wanted = keys
      BY Judged
    <2>4. Good(Compared(s, "sql_types", shared, typed)) <=> shared = typed
      BY Judged
    <2> QED BY <2>2, <2>3, <2>4 DEF keys, shared
  <1>4. wanted = {i.key : i \in items}
    <2>1. \A i \in items : i.key \notin skip
      OBVIOUS
    <2> QED BY <2>1
  <1>5. typed \subseteq {row.key : row \in both}
    OBVIOUS
  <1>6. ASSUME wanted = {row.key : row \in found}
        PROVE  {row.key : row \in both} = typed <=>
                 \A i \in items, row \in found : i.key = row.key => row.text \in i.accepted
    <2>1. both = found
      BY <1>6
    <2>2. ASSUME {row.key : row \in both} = typed, NEW i \in items, NEW row \in found, i.key = row.key
          PROVE  row.text \in i.accepted
      <3>1. row.key \in typed
        BY <2>1, <2>2
      <3>2. PICK x \in both : x.key = row.key /\ \E j \in all : j.key = x.key /\ x.text \in j.accepted
        BY <3>1
      <3>3. x = row
        BY <2>1, <3>2
      <3> QED BY <2>2, <3>2, <3>3
    <2>3. ASSUME \A i \in items, row \in found : i.key = row.key => row.text \in i.accepted, NEW row \in both
          PROVE  row.key \in typed
      <3>1. PICK i \in items : i.key = row.key
        BY <1>4
      <3> QED BY <2>3, <3>1
    <2> QED BY <1>5, <2>2, <2>3
  <1> QED BY <1>1, <1>3, <1>4, <1>6

\* Where no two items of a layout have one key, the dictionary loses none of them: of every
\* key it has one row, and the layout has no other.
LEMMA NoItemLost ==
  ASSUME NEW s, NEW last \in LastRows, \A x, y \in Layout(s) : x.key = y.key => x = y
  PROVE  {row \in last : row.of = s.about /\ row.key \notin
            {i.key : i \in {x \in Part(s, "items", {}) : x.accepted = Skip}}} = Layout(s)
  <1> DEFINE skip == {i.key : i \in {x \in Part(s, "items", {}) : x.accepted = Skip}}
             found == {row \in last : row.of = s.about /\ row.key \notin skip}
  <1>1. last \in SUBSET Table("DataItem")
    BY DEF LastRows
  <1>2. Layout(s) = {row \in Table("DataItem") : row.of = s.about /\ row.key \notin skip}
    BY DEF Layout
  <1>3. ASSUME NEW row \in Layout(s)
        PROVE  row \in last
    <2> DEFINE S == {x \in last : x.of = row.of /\ x.key = row.key}
    <2>1. Cardinality(S) = 1
      BY <1>2 DEF LastRows
    <2>2. S # {}
      <3> HIDE DEF S
      <3> QED BY <2>1, FS_EmptySet
    <2>3. PICK x \in S : TRUE
      BY <2>2
    <2>4. x \in Layout(s)
      BY <1>1, <1>2, <2>3
    <2>5. x = row
      BY <2>3, <2>4
    <2> QED BY <2>3, <2>5
  <1>4. found = Layout(s)
    BY <1>1, <1>2, <1>3
  <1> QED BY <1>4

\* In a document that numbers its sections none replaces another.
LEMMA NoneReplaced ==
  ASSUME GoldInv, gold # <<>>, WellFormed
  PROVE  Sections = {gold[k] : k \in DOMAIN gold}
  <1> DEFINE Last(i) == \A j \in DOMAIN gold : gold[j].q = gold[i].q /\ gold[j].n = gold[i].n => j <= i
  <1>1. ASSUME NEW i \in DOMAIN gold
        PROVE  Last(i)
    <2>1. i \in Nat
      BY GoldAssumption DEF GoldInv
    <2>2. \A j \in DOMAIN gold : gold[j].q = gold[i].q /\ gold[j].n = gold[i].n => j = i
      BY DEF WellFormed
    <2>3. i <= i
      BY <2>1
    <2> QED BY <2>2, <2>3
  <1>2. {i \in DOMAIN gold : Last(i)} = DOMAIN gold
    BY <1>1
  <1> QED BY <1>2 DEF Sections

\* What the comparisons of one section amount to
LEMMA SectionJudged ==
  ASSUME QueriesInv, GoldInv, gold # <<>>, WellFormed, Decidable, NEW k \in DOMAIN gold, NEW first,
         \A s \in Transactional : first[s] \in FirstRow(s.about), NEW last \in LastRows
  PROVE  Passed(CompareSection(gold[k], first, last)) <=> Right(gold[k])
  <1> DEFINE s == gold[k]
  <1>1. stage \in {"asked", "failed"} /\ gold \in Golds
    BY DEF GoldInv
  <1>2. s.q \in Questions /\ ReadOnce(s)
    BY <1>1, GoldAssumption DEF WellFormed, ReadOnce
  <1>3. s \in Sections
    BY NoneReplaced
  <1>4. s.q \in {"Q3", "Q4"} => first[s] \in FirstRow(s.about) /\ Cardinality(EntryOf(s.about)) <= 1
    BY <1>3 DEF Transactional, Decidable
  <1>5. /\ s.q = "Q3" => Cardinality(Closure(s.about)) <= 7
        /\ s.q = "Q4" => Cardinality(FieldsOf(Surface(s.about))) <= MaxFields
        /\ s.q = "Q6" => \A x, y \in Layout(s) : x.key = y.key => x = y
    BY <1>3 DEF Decidable
  <1>6. s.q = "Q6" => \A a, b \in Part(s, "items", {}) : a.key = b.key => a = b
    <2>1. \A j \in DOMAIN s.parts : s.parts[j].name = "items" =>
            \A a, b \in s.parts[j].value : a.key = b.key => a = b
      BY <1>1, GoldAssumption
    <2>2. s.q = "Q6" => \E j \in DOMAIN s.parts : s.parts[j].name = "items" /\ Part(s, "items", {}) = s.parts[j].value
      BY <1>2, PartsFound
    <2> QED BY <2>1, <2>2
  <1> HIDE DEF s
  <1>7. CASE s.q = "Q1"
    BY <1>1, <1>7, IncludersJudged DEF CompareSection, s
  <1>8. CASE s.q = "Q2"
    BY <1>1, <1>8, AccessJudged DEF CompareSection, s
  <1>9. CASE s.q = "Q3"
    <2>1. Passed(CompareQ3(s, first[s])) <=> Right(s)
      BY <1>1, <1>2, <1>4, <1>5, <1>9, ClosureJudged
    <2>2. CompareSection(s, first, last) = CompareQ3(s, first[s])
      BY <1>9 DEF CompareSection
    <2> QED BY <2>1, <2>2 DEF s
  <1>10. CASE s.q = "Q4"
    <2>1. Passed(CompareQ4(s, first[s])) <=> Right(s)
      BY <1>1, <1>2, <1>4, <1>5, <1>10, SurfaceJudged
    <2>2. CompareSection(s, first, last) = CompareQ4(s, first[s])
      BY <1>10 DEF CompareSection
    <2> QED BY <2>1, <2>2 DEF s
  <1>11. CASE s.q = "Q6"
    <2>1. Passed(CompareQ6(s, last)) <=> Right(s)
      BY <1>5, <1>6, <1>11, NoItemLost, ItemsJudged
    <2>2. CompareSection(s, first, last) = CompareQ6(s, last)
      BY <1>11 DEF CompareSection
    <2> QED BY <2>1, <2>2 DEF s
  <1> QED BY <1>2, <1>7, <1>8, <1>9, <1>10, <1>11 DEF Questions

LEMMA VerdictJudged == QueriesInv /\ GoldInv => GoldVerdict
  <1> SUFFICES ASSUME QueriesInv, GoldInv, exit # None, WellFormed, Decidable
               PROVE  exit = 0 <=> \A k \in DOMAIN gold : Right(gold[k])
    BY DEF GoldVerdict
  <1>1. gold # <<>>
    BY DEF GoldInv
  <1>2. PICK first : \E last \in LastRows : /\ \A s \in Transactional : first[s] \in FirstRow(s.about)
                                            /\ exit = ExitCode(Comparisons(first, last))
    BY DEF GoldInv
  <1> PICK last \in LastRows : exit = ExitCode(Comparisons(first, last))
    BY <1>2
  <1>3. exit = 0 <=> Passed(Comparisons(first, last))
    <2>1. exit = IF Passed(Comparisons(first, last)) THEN 0 ELSE 1
      BY DEF ExitCode, Passed, Good
    <2> QED BY <2>1
  <1>4. Sections = {gold[k] : k \in DOMAIN gold}
    BY <1>1, NoneReplaced
  <1>5. Passed(Comparisons(first, last)) <=> \A k \in DOMAIN gold : Passed(CompareSection(gold[k], first, last))
    BY <1>4 DEF Comparisons, Passed
  <1>6. \A k \in DOMAIN gold : Passed(CompareSection(gold[k], first, last)) <=> Right(gold[k])
    BY <1>1, <1>2, SectionJudged
  <1> QED BY <1>3, <1>5, <1>6

-----------------------------------------------------------------------------
(* The theorems *)

\* For every catalogue: the nodes are its entities, each of its edges is in the database
\* or was warned of, and the answers are those of that database.
THEOREM InvariantHolds == Spec => []QueriesInv
BY InitInv, NextInv, PTL DEF Spec

\* RUL-Q3, for every catalogue: the programs found are in every set that has the entry and
\* all it calls by CALLS, LINKS_TO or XCTLS_TO, and if one such set has at most seven
\* programs they are the least of them.
THEOREM ClosureIsComplete == Spec => []ReachableIsTheClosure
BY InvariantHolds, ClosureAnswered, PTL

\* For every catalogue and every question, also when edges were refused: the copybook, the
\* dataset and the transaction of a program lead to the same programs, maps and mapsets.
THEOREM AnswersFit == Spec => []AnswersAgree
BY InvariantHolds, AnswersFitted, PTL

\* Beside the gold match, which only reads, the driver runs as it does alone: what is proved
\* of it holds there too.
THEOREM GoldOnlyReads == GoldSpec => Spec
  <1>1. GoldInit => Init
    BY DEF GoldInit
  <1>2. [GoldNext]_<<vars, goldVars>> => [Next]_vars
    BY DEF GoldNext, ReadGold, CompareAll
  <1> QED BY <1>1, <1>2, PTL DEF GoldSpec, Spec

\* For every catalogue and every document that has the parts that are read, whatever parts it
\* has besides, and asks where the queries can tell: it passes exactly if each answer in the
\* parts that are read and counted is what the catalogue says.  Nothing is said of the others.
THEOREM VerdictIsRight == GoldSpec => []GoldVerdict
BY GoldInitInv, GoldNextInv, VerdictJudged, PTL DEF GoldSpec
=============================================================================
