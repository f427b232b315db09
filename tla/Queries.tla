------------------------------ MODULE Queries ------------------------------
(***************************************************************************)
(* The graph database and the four sample queries (pilot.py,               *)
(* build_kuzu_db and run_q1_sample .. run_q4_sample).  The entities and    *)
(* the edges of the catalogue are created one by one; then the database is *)
(* asked about a copybook, a dataset and a transaction.                    *)
(*                                                                         *)
(* The database is external: it may refuse an insert, its rows have no     *)
(* order, and a variable-length match follows walks, which may pass a      *)
(* program twice.  Both ends of every edge are entities (NoDanglingEdge of *)
(* ResolverProofs), so the loader's skip of an edge without them never     *)
(* fires; ids are unique, so no key collides, and no edge is there twice.  *)
(***************************************************************************)
EXTENDS Integers, Sequences, FiniteSets

CONSTANTS
  Ids,          \* of entities
  Unresolved,   \* those of the programs known only by a variable's name
  None,         \* no value
  Catalogs,     \* what the resolver may hand over
  Inputs        \* what may be asked

Types == {"Program", "Copybook", "LogicalFile", "Dataset", "BMSMapset", "BMSMap", "BMSField",
          "CICSTransaction", "JCLStep", "DataItem"}

\* "of" is the mapset of a map, the map of a field or the copybook of a data item; "key"
\* the name, level and picture of the item; "text" a field's label or an item's type.
Entity ==
  [id : Ids, type : Types, partial : BOOLEAN, of : Ids \cup {None}, key : STRING, text : STRING]

ProgramEdge == {"CALLS", "LINKS_TO", "XCTLS_TO"}
MapEdge     == {"SENDS_MAP", "RECEIVES_MAP"}
AccessEdge  == {"READS", "WRITES", "UPDATES", "DELETES", "STARTS_BROWSE"}

\* An edge keeps the line it was seen on: two edges may differ in nothing else.
Edge ==
  [type : ProgramEdge \cup MapEdge \cup AccessEdge
          \cup {"IS_TRANSACTION_FOR", "INCLUDES", "DEFINES_LAYOUT_FOR", "BINDS_TO", "USES_DATASET"},
   from : Ids, to : Ids, line : Nat]

EntitiesOf(c, types) == {e.id : e \in {c.entities[j] : j \in {k \in DOMAIN c.entities : c.entities[k].type \in types}}}

\* What pass 3 hands over.  Entities are kept by id and edges once; the ends of an edge are
\* entities of the types its type goes by, no edge leaves an unresolved program and no
\* transaction starts one; a map that is declared is in a declared mapset, and one that is
\* only referred to has none.
Delivered(c) ==
  /\ \A j, k \in DOMAIN c.entities : c.entities[j].id = c.entities[k].id => j = k
  /\ \A j, k \in DOMAIN c.edges : c.edges[j] = c.edges[k] => j = k
  /\ \A j \in DOMAIN c.entities : c.entities[j].type = "BMSMap" =>
       IF c.entities[j].partial THEN c.entities[j].of = None
       ELSE c.entities[j].of \in EntitiesOf(c, {"BMSMapset"})
  /\ \A k \in DOMAIN c.edges :
       LET e == c.edges[k]
       IN  /\ {e.from, e.to} \subseteq EntitiesOf(c, Types)
           /\ e.from \notin Unresolved
           /\ e.type = "IS_TRANSACTION_FOR" => e.to \notin Unresolved
           /\ e.type \in ProgramEdge \cup {"IS_TRANSACTION_FOR"} => e.to \in EntitiesOf(c, {"Program"})
           /\ e.type \in MapEdge => e.to \in EntitiesOf(c, {"BMSMap"})

ASSUME QueriesAssumption ==
  /\ Unresolved \subseteq Ids /\ None \notin Ids
  /\ Catalogs \subseteq {c \in [entities : Seq(Entity), edges : Seq(Edge)] : Delivered(c)}
  /\ Inputs \subseteq [copybook : Ids, dataset : Ids, transaction : Ids]

VARIABLES
  catalog,   \* entities.json and edges.json
  stage,     \* nodes, edges, asked, or failed
  at,        \* the entity or edge that is created next
  rows,      \* the nodes
  rels,      \* the relationships
  warned,    \* the edges whose insert was refused
  input,     \* what is asked
  answers    \* of the four queries

vars == <<catalog, stage, at, rows, rels, warned, input, answers>>

Init ==
  /\ catalog \in Catalogs
  /\ stage = "nodes" /\ at = 1
  /\ rows = {} /\ rels = {} /\ warned = {}
  /\ input \in Inputs
  /\ answers = None

-----------------------------------------------------------------------------
(* build_kuzu_db *)

\* Mutant: no table has the mark of a placeholder.
HasPartial_Lost(type) == type \in {"Copybook", "Dataset"}

\* The tables that have a column for it: elsewhere a placeholder looks like any row.
HasPartial(type) == type \in {"Program", "Copybook", "Dataset", "BMSMapset", "BMSMap", "CICSTransaction"}

\* The row of an entity: what its table has no column for is dropped.
Row(e) ==
  [table |-> e.type, id |-> e.id, of |-> e.of, key |-> e.key, text |-> e.text,
   partial |-> HasPartial(e.type) /\ e.partial]

CreateNode ==
  /\ stage = "nodes" /\ at <= Len(catalog.entities)
  /\ rows' = rows \cup {Row(catalog.entities[at])}
  /\ at' = at + 1
  /\ UNCHANGED <<catalog, stage, rels, warned, input, answers>>

\* Any error but that of a key that is there already is raised.
NodeFails ==
  /\ stage = "nodes" /\ at <= Len(catalog.entities)
  /\ stage' = "failed"
  /\ UNCHANGED <<catalog, at, rows, rels, warned, input, answers>>

NodesDone ==
  /\ stage = "nodes" /\ at > Len(catalog.entities)
  /\ stage' = "edges" /\ at' = 1
  /\ UNCHANGED <<catalog, rows, rels, warned, input, answers>>

\* Mutant: an edge that is there already is merged with it, whatever its line.
CreateEdge_Merged ==
  /\ stage = "edges" /\ at <= Len(catalog.edges)
  /\ LET e == catalog.edges[at]
         known == \E r \in rels : r.type = e.type /\ r.from = e.from /\ r.to = e.to
     IN  rels' = IF known THEN rels ELSE rels \cup {e}
  /\ at' = at + 1
  /\ UNCHANGED <<catalog, stage, rows, warned, input, answers>>

CreateEdge ==
  /\ stage = "edges" /\ at <= Len(catalog.edges)
  /\ LET e == catalog.edges[at]
     IN  /\ {e.from, e.to} \subseteq {row.id : row \in rows}
         /\ rels' = rels \cup {e}
  /\ at' = at + 1
  /\ UNCHANGED <<catalog, stage, rows, warned, input, answers>>

\* An insert that is refused is printed, and the rest goes on.
EdgeFails ==
  /\ stage = "edges" /\ at <= Len(catalog.edges)
  /\ warned' = warned \cup {catalog.edges[at]}
  /\ at' = at + 1
  /\ UNCHANGED <<catalog, stage, rows, rels, input, answers>>

-----------------------------------------------------------------------------
(* The queries, of the database as it is *)

Match(types) == {r \in rels : r.type \in types}

Table(type) == {row \in rows : row.table = type}

Placeholders(type) == {row.id : row \in {x \in Table(type) : x.partial}}

Includers(c) == {r.from : r \in {e \in Match({"INCLUDES"}) : e.to = c}}
                \cap {row.id : row \in Table("Program")}

\* run_q1_sample: only the maps sent, and no placeholder among them
Q1(c) ==
  [direct_includers |-> {<<r.from, r.line>> : r \in {e \in Match({"INCLUDES"}) :
                                                       e.to = c /\ e.from \in Includers(c)}},
   transactions     |-> {<<r.from, r.to>> : r \in {e \in Match({"IS_TRANSACTION_FOR"}) : e.to \in Includers(c)}},
   maps             |-> {<<r.from, r.to>> : r \in {e \in Match({"SENDS_MAP"}) :
                           e.from \in Includers(c) /\ e.to \notin Placeholders("BMSMap")}},
   related_files    |-> {r.to : r \in {e \in Match({"DEFINES_LAYOUT_FOR"}) : e.from = c}}]

\* run_q2_sample
Q2(d) ==
  LET bound == {r.from : r \in {e \in Match({"BINDS_TO"}) : e.to = d}}
  IN  [program_access |-> {<<r.from, r.type, r.line>> : r \in {e \in Match(AccessEdge) : e.to \in bound}},
       jcl_access     |-> {r.from : r \in {e \in Match({"USES_DATASET"}) : e.to = d}}]

\* Mutant: the walks are one hop shorter.
MaxHops_Five == 5

MaxHops == 6

Entries(t) == {r.to : r \in {e \in Match({"IS_TRANSACTION_FOR"}) : e.from = t}}

Hop(P) == {r.to : r \in {e \in Match(ProgramEdge) : e.from \in P}}

\* Where walks of exactly n hops from p end
WalksFrom(p) ==
  LET ends[n \in 0..MaxHops] == IF n = 0 THEN {p} ELSE Hop(ends[n - 1]) IN ends

Reachable(t) ==
  UNION {(UNION {WalksFrom(p)[n] : n \in 1..MaxHops}) \ ({p} \cup Unresolved) : p \in Entries(t)}

\* The unresolved targets of the entry program
UnresolvedReaches(t) ==
  {<<r.from, r.to>> : r \in {e \in Match(ProgramEdge) : e.from \in Entries(t) /\ e.to \in Unresolved}}

\* entry_program is the first row, of rows that have no order.
FirstRow(t) == IF Entries(t) = {} THEN {None} ELSE Entries(t)

\* run_q3_sample
Q3(t, entry) ==
  [entry_program |-> entry, reachable_programs |-> Reachable(t), unresolved_reaches |-> UnresolvedReaches(t)]

MaxFields == 50

\* The maps of the entry program
Interactions(t) == {r \in Match(MapEdge) : r.from \in Entries(t)}

Labels(t) == {f \in Table("BMSField") : f.of \in {r.to : r \in Interactions(t)} /\ f.text # ""}

\* run_q4_sample: of the fields their number
Q4(t, entry) ==
  [entry_program    |-> entry,
   map_interactions |-> {<<r.from, r.to, r.type>> : r \in Interactions(t)},
   mapsets          |-> {m.of : m \in {x \in Table("BMSMap") : x.id \in {r.to : r \in Interactions(t)}}}
                        \cap {row.id : row \in Table("BMSMapset")},
   field_surface    |-> IF Cardinality(Labels(t)) <= MaxFields THEN Cardinality(Labels(t)) ELSE MaxFields]

Ask ==
  /\ stage = "edges" /\ at > Len(catalog.edges)
  /\ stage' = "asked"
  /\ \E entry3, entry4 \in FirstRow(input.transaction) :
       answers' = [q1 |-> Q1(input.copybook), q2 |-> Q2(input.dataset),
                   q3 |-> Q3(input.transaction, entry3), q4 |-> Q4(input.transaction, entry4)]
  /\ UNCHANGED <<catalog, at, rows, rels, warned, input>>

Next == CreateNode \/ NodeFails \/ NodesDone \/ CreateEdge \/ EdgeFails \/ Ask

Spec == Init /\ [][Next]_vars

-----------------------------------------------------------------------------
(* Properties *)

EdgesBefore(k) == {catalog.edges[j] : j \in 1..(k - 1)}

EntityOf(id) == CHOOSE e \in {catalog.entities[j] : j \in DOMAIN catalog.entities} : e.id = id

TypeInvariant ==
  /\ catalog \in Catalogs /\ input \in Inputs
  /\ stage \in {"nodes", "edges", "asked", "failed"}
  /\ at \in 1..(1 + IF stage \in {"nodes", "failed"} THEN Len(catalog.entities) ELSE Len(catalog.edges))
  /\ rows \subseteq [table : Types, id : Ids, of : Ids \cup {None}, key : STRING, text : STRING, partial : BOOLEAN]
  /\ rels \cup warned \subseteq Edge
  /\ stage # "asked" => answers = None

\* The nodes are the entities the first loop has passed.
RowsAreTheEntities ==
  rows = {Row(catalog.entities[j]) :
            j \in IF stage \in {"nodes", "failed"} THEN 1..(at - 1) ELSE DOMAIN catalog.entities}

\* An edge is in the graph or was warned of, and the graph has no other: sightings on
\* two lines stay two edges.
LostEdgesAreWarned ==
  /\ rels \cup warned = IF stage \in {"nodes", "failed"} THEN {} ELSE EdgesBefore(at)
  /\ rels \cap warned = {}

\* What was answered is what the finished database says.
AnswersStand ==
  stage = "asked" =>
    /\ at = Len(catalog.edges) + 1
    /\ \E entry3, entry4 \in FirstRow(input.transaction) :
         answers = [q1 |-> Q1(input.copybook), q2 |-> Q2(input.dataset),
                    q3 |-> Q3(input.transaction, entry3), q4 |-> Q4(input.transaction, entry4)]

\* The variables have their types, no edge disappears on its way into the database, and
\* the answers are about all of it.
QueriesInv == TypeInvariant /\ RowsAreTheEntities /\ LostEdgesAreWarned /\ AnswersStand

Closed(P) == Hop(P) \ Unresolved \subseteq P

ProgramRows == {row.id : row \in Table("Program")} \ Unresolved

\* The programs found from the entry are in every set that has the entry and all it calls,
\* and they are such a set if one of those has at most seven programs: six hops lose none
\* of them, however many programs the graph has besides.
ReachableIsTheClosure ==
  stage = "asked" =>
    LET entries == Entries(input.transaction)
        found   == entries \cup answers.q3.reachable_programs
        closed  == {P \in SUBSET ProgramRows : entries \subseteq P /\ Closed(P)}
    IN  /\ \A P \in closed : found \subseteq P
        /\ (\E P \in closed : Cardinality(P) <= 7) => found \in closed

\* Asked about one program from its copybook, its dataset or its transaction, the database
\* gives answers that fit together: the entry is one of the programs that answer for the
\* transaction; a map that the copybook leads to is a map on the surface of the
\* transaction, and the surface adds only placeholders, maps of other programs and maps
\* that are only received; its mapsets are those of the maps that are no placeholders.
AnswersAgree ==
  stage = "asked" =>
    LET q1 == answers.q1  q3 == answers.q3  q4 == answers.q4
        known  == EdgesBefore(Len(catalog.edges) + 1) \ warned
        common == {p \in Entries(input.transaction) : \E site \in q1.direct_includers : site[1] = p}
        sent   == {<<i[1], i[2]>> : i \in {x \in q4.map_interactions : x[1] \in common /\ x[3] = "SENDS_MAP"}}
    IN  /\ {q3.entry_program, q4.entry_program} \subseteq FirstRow(input.transaction)
        /\ common = {tp[2] : tp \in {x \in q1.transactions : x[1] = input.transaction}}
        /\ {m \in sent : ~EntityOf(m[2]).partial} = {m \in q1.maps : m[1] \in common}
        /\ q4.mapsets = {EntityOf(i[2]).of : i \in {x \in q4.map_interactions : ~EntityOf(x[2]).partial}}
        /\ \A access \in answers.q2.program_access :
             \E e, b \in known : e.type = access[2] /\ e.from = access[1] /\ e.line = access[3]
                                 /\ b.type = "BINDS_TO" /\ b.from = e.to /\ b.to = input.dataset

\* "Unresolved reaches: edges from any program in the closure whose target id starts
\* unresolved:"
UnresolvedOfTheClosure ==
  stage = "asked" =>
    \A r \in Match(ProgramEdge) :
      r.to \in Unresolved /\ r.from \in Entries(input.transaction) \cup answers.q3.reachable_programs
        => <<r.from, r.to>> \in answers.q3.unresolved_reaches

\* "gather all maps from any program reachable from the entry transaction (including
\* the entry)"
MapsOfTheClosure ==
  stage = "asked" =>
    \A r \in Match(MapEdge) :
      r.from \in Entries(input.transaction) \cup answers.q3.reachable_programs
        => <<r.from, r.to, r.type>> \in answers.q4.map_interactions

\* queries/q4.cypher, which "Mirrors carddemo_graph.pilot.run_q4_sample", gives every
\* label on the maps.
SurfaceIsComplete ==
  stage = "asked" => answers.q4.field_surface = Cardinality(Labels(input.transaction))

\* "The kuzu loader detects partial=true + reason and routes to the Unresolved node
\* table."
UnresolvedHaveTheirTable ==
  \A row \in rows : row.id \in Unresolved => row.table = "Unresolved"
=============================================================================
