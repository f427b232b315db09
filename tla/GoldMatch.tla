----------------------------- MODULE GoldMatch -----------------------------
(***************************************************************************)
(* The comparison with the gold set (gold_match.py): a document of         *)
(* expected answers, section by section, against what the queries of       *)
(* module Queries find in the database.  It reads a database that the      *)
(* driver has built or has left half built; it changes neither.            *)
(*                                                                         *)
(* A section is a question, its number, the id it asks about and the parts *)
(* of the expected answer that the document has, in the document's order;  *)
(* headings, tables and fences are the layout of those parts.  A section   *)
(* may have parts that no parser looks for: nothing is read of them.       *)
(***************************************************************************)
EXTENDS Queries

CONSTANTS
  Golds,     \* gold sets: sequences of sections
  JobOf(_),  \* the job of a step
  Skip       \* the type of an item that is not compared

Questions == {"Q1", "Q2", "Q3", "Q4", "Q6"}

\* A gold set is a sequence; the items of a section are a dictionary, with one type cell
\* for a name, level and picture; its cycles, which are not read, come last.
ASSUME GoldAssumption ==
  \A g \in Golds : \A k \in DOMAIN g :
    /\ k \in Nat /\ g[k].q \in Questions /\ g[k].about \in Ids
    /\ \A j \in DOMAIN g[k].parts :
         /\ g[k].parts[j].name = "items" =>
              \A a, b \in g[k].parts[j].value : a.key = b.key => a = b
         /\ g[k].parts[j].name = "cycles" => \A i \in DOMAIN g[k].parts : i <= j

VARIABLES
  gold,      \* the document
  results,   \* one comparison per field of each section
  exit       \* the exit code, or None

goldVars == <<gold, results, exit>>

GoldInit == Init /\ gold = <<>> /\ results = {} /\ exit = None

-----------------------------------------------------------------------------
(* parse_q1 .. parse_q6 *)

\* A later section of the same number replaces the earlier.
Sections ==
  {gold[k] : k \in {i \in DOMAIN gold : \A j \in DOMAIN gold :
                      gold[j].q = gold[i].q /\ gold[j].n = gold[i].n => j <= i}}

Has(s, name) == \E k \in DOMAIN s.parts : s.parts[k].name = name

Place(s, name) == CHOOSE k \in DOMAIN s.parts : s.parts[k].name = name

Part(s, name, default) == IF Has(s, name) THEN s.parts[Place(s, name)].value ELSE default

\* The text between two headings of a block: none if the second does not follow
Between(s, name, next) ==
  IF Has(s, name) /\ Has(s, next) /\ Place(s, name) < Place(s, next) THEN Part(s, name, {}) ELSE {}

Compared(s, field, expected, actual) ==
  [q |-> s.q, n |-> s.n, field |-> field, expected |-> expected, actual |-> actual,
   incremental |-> field = "jcl_access"]

CompareQ1(s) ==
  {Compared(s, "direct_includers", Part(s, "direct_includers", {}),
            {site[1] : site \in Q1(s.about).direct_includers})}

CompareQ2(s) ==
  {Compared(s, "program_access", Part(s, "program_access", {}), Q2(s.about).program_access),
   Compared(s, "jcl_access", Part(s, "jcl_access", {}), {JobOf(step) : step \in Q2(s.about).jcl_access})}

CompareQ3(s, entry) ==
  LET actual == Q3(s.about, entry)
  IN  {Compared(s, "entry_program", {Part(s, "entry_program", None)}, {entry}),
       Compared(s, "reachable_programs", Between(s, "reachable_programs", "unresolved_reaches"),
                actual.reachable_programs),
       Compared(s, "unresolved_reaches", Part(s, "unresolved_reaches", {}), actual.unresolved_reaches)}

\* The direction of a map interaction is not compared.
CompareQ4(s, entry) ==
  LET actual == Q4(s.about, entry)
  IN  {Compared(s, "entry_program", {Part(s, "entry_program", None)}, {entry}),
       Compared(s, "mapsets", Part(s, "mapsets", {}), actual.mapsets),
       Compared(s, "map_interactions", Between(s, "map_interactions", "mapsets"),
                {<<i[1], i[2]>> : i \in actual.map_interactions}),
       Compared(s, "field_surface", {Part(s, "field_surface", None)}, {actual.field_surface})}

\* Mutant: the items of the graph that the document has not are passed over.
CompareQ6_OneSided(s, last) ==
  LET items  == Part(s, "items", {})
      skip   == {i.key : i \in {x \in items : x.accepted = Skip}}
      wanted == {i.key : i \in items} \ skip
      found  == {row \in last : row.of = s.about /\ row.key \in wanted}
      typed  == {row.key : row \in {x \in found : \E i \in items : i.key = x.key /\ x.text \in i.accepted}}
  IN  {Compared(s, "field_set", wanted, {row.key : row \in found}),
       Compared(s, "sql_types", {row.key : row \in found}, typed)}

\* The items of a copybook by name, level and picture, less those the document skips;
\* the types of the items that both have
CompareQ6(s, last) ==
  LET items  == Part(s, "items", {})
      skip   == {i.key : i \in {x \in items : x.accepted = Skip}}
      wanted == {i.key : i \in items} \ skip
      found  == {row \in last : row.of = s.about /\ row.key \notin skip}
      both   == {row \in found : row.key \in wanted}
      typed  == {row.key : row \in {x \in both : \E i \in items : i.key = x.key /\ x.text \in i.accepted}}
  IN  {Compared(s, "field_set", wanted, {row.key : row \in found}),
       Compared(s, "sql_types", {row.key : row \in both}, typed)}

CompareSection(s, first, last) ==
  CASE s.q = "Q1" -> CompareQ1(s)
    [] s.q = "Q2" -> CompareQ2(s)
    [] s.q = "Q3" -> CompareQ3(s, first[s])
    [] s.q = "Q4" -> CompareQ4(s, first[s])
    [] s.q = "Q6" -> CompareQ6(s, last)

\* compare: every section that is parsed, whatever became of the others
Comparisons(first, last) == UNION {CompareSection(s, first, last) : s \in Sections}

\* Of the items that agree in name, level and picture, one row
LastRows ==
  {L \in SUBSET Table("DataItem") :
     \A row \in Table("DataItem") :
       Cardinality({x \in L : x.of = row.of /\ x.key = row.key}) = 1}

Transactional == {s \in Sections : s.q \in {"Q3", "Q4"}}

\* A difference in jcl_access is printed and not counted.
ExitCode(R) == IF \A r \in R : r.incremental \/ r.expected = r.actual THEN 0 ELSE 1

\* main: the document is read when the database is there, complete or not.
ReadGold ==
  /\ stage \in {"asked", "failed"} /\ gold = <<>>
  /\ gold' \in Golds
  /\ UNCHANGED <<vars, results, exit>>

CompareAll ==
  /\ gold # <<>> /\ exit = None
  /\ \E first \in [Transactional -> UNION {FirstRow(s.about) : s \in Transactional}], last \in LastRows :
       /\ \A s \in Transactional : first[s] \in FirstRow(s.about)
       /\ results' = Comparisons(first, last)
  /\ exit' = ExitCode(results')
  /\ UNCHANGED <<vars, gold>>

GoldNext == (Next /\ UNCHANGED goldVars) \/ ReadGold \/ CompareAll

GoldSpec == GoldInit /\ [][GoldNext]_<<vars, goldVars>>

-----------------------------------------------------------------------------
(* Properties *)

\* The parts of a section that are read.  Not read are the transactions, maps, jobs and
\* related files of a Q1 and the cycles of a Q3 or Q4; nor, of what is read, the lines of
\* includers and unresolved reaches, the direction of a map interaction, the wording of labels.
ReadParts ==
  [Q1 |-> {"direct_includers"}, Q2 |-> {"program_access", "jcl_access"},
   Q3 |-> {"entry_program", "reachable_programs", "unresolved_reaches"},
   Q4 |-> {"entry_program", "map_interactions", "mapsets", "field_surface"}, Q6 |-> {"items"}]

Once(s, name) ==
  \E i \in DOMAIN s.parts : \A j \in DOMAIN s.parts : s.parts[j].name = name <=> j = i

\* The document numbers its sections, and each has the parts that are read, once, and those
\* that end at another heading before it.
WellFormed ==
  \A k \in DOMAIN gold :
    LET s == gold[k] IN
    /\ \A name \in ReadParts[s.q] : Once(s, name)
    /\ s.q = "Q3" => Place(s, "reachable_programs") < Place(s, "unresolved_reaches")
    /\ s.q = "Q4" => Place(s, "map_interactions") < Place(s, "mapsets")
    /\ \A j \in DOMAIN gold : gold[j].q = s.q /\ gold[j].n = s.n => j = k

\* What the catalogue says, less the edges that were warned of: nothing but the nodes
\* when the database is half built
Known == IF stage = "failed" THEN {} ELSE {catalog.edges[j] : j \in DOMAIN catalog.edges} \ warned

EntryOf(t) == {e.to : e \in {x \in Known : x.type = "IS_TRANSACTION_FOR" /\ x.from = t}}

KnownPrograms == {e.id : e \in {catalog.entities[j] : j \in DOMAIN catalog.entities}} \cap ProgramRows

CallsOf(P) == {e.to : e \in {x \in Known : x.type \in ProgramEdge /\ x.from \in P}}

\* The programs that are in every set that has the entry and all it calls
Closure(t) ==
  LET closed == {P \in SUBSET KnownPrograms : EntryOf(t) \subseteq P /\ CallsOf(P) \ Unresolved \subseteq P}
  IN  {p \in KnownPrograms : \A P \in closed : p \in P}

Surface(t) == {EntityOf(e.to) : e \in {x \in Known : x.type \in MapEdge /\ x.from \in EntryOf(t)}}

FieldsOf(M) == {f \in Table("BMSField") : f.of \in {m.id : m \in M} /\ f.text # ""}

\* The items of the copybook a section asks about, less those it skips
Layout(s) ==
  LET skip == {i.key : i \in {x \in Part(s, "items", {}) : x.accepted = Skip}}
  IN  {row \in Table("DataItem") : row.of = s.about /\ row.key \notin skip}

\* The section says of its question what the catalogue says, in the parts that are read and
\* counted.
Right(s) ==
  LET t == s.about
      calls == {e \in Known : e.type \in ProgramEdge /\ e.from \in EntryOf(t) /\ e.to \in Unresolved}
      value(name) == Part(s, name, {})
  IN
  CASE s.q = "Q1" -> value("direct_includers") =
         {p \in KnownPrograms : \E e \in Known : e.type = "INCLUDES" /\ e.from = p /\ e.to = t}
    [] s.q = "Q2" -> value("program_access") =
         {<<e.from, e.type, e.line>> : e \in {x \in Known : x.type \in AccessEdge /\
            \E b \in Known : b.type = "BINDS_TO" /\ b.from = x.to /\ b.to = t}}
    [] s.q = "Q3" -> /\ value("entry_program") \in FirstRow(t)
                     /\ value("reachable_programs") = Closure(t) \ EntryOf(t)
                     /\ value("unresolved_reaches") = {<<e.from, e.to>> : e \in calls}
    [] s.q = "Q4" -> /\ value("entry_program") \in FirstRow(t)
                     /\ value("map_interactions") = {<<e.from, e.to>> : e \in {x \in Known :
                          x.type \in MapEdge /\ x.from \in EntryOf(t)}}
                     /\ value("mapsets") = {m.of : m \in Surface(t)} \ {None}
                     /\ value("field_surface") = Cardinality(FieldsOf(Surface(t)))
    [] s.q = "Q6" ->
         LET items == {x \in value("items") : x.accepted # Skip}
         IN  /\ {i.key : i \in items} = {row.key : row \in Layout(s)}
             /\ \A i \in items, row \in Layout(s) : i.key = row.key => row.text \in i.accepted

\* What the comparison cannot tell is left aside: which of several entries of a transaction
\* is first, a closure of more than the seven programs that six hops go through, a surface
\* beyond the limit, two items of a layout that only their place tells apart.
Decidable ==
  \A s \in Sections :
    /\ s.q \in {"Q3", "Q4"} => Cardinality(EntryOf(s.about)) <= 1
    /\ s.q = "Q3" => Cardinality(Closure(s.about)) <= 7
    /\ s.q = "Q4" => Cardinality(FieldsOf(Surface(s.about))) <= MaxFields
    /\ s.q = "Q6" => \A x, y \in Layout(s) : x.key = y.key => x = y

\* Acceptance Test A: for a document that is well formed, the gold match passes exactly if
\* every includer, access, program, map and item it expects, in the parts that are read and
\* counted, is what the catalogue says, and nothing the catalogue says there is missing, as
\* far as the edges reached the database; no answer makes up for another.  What is not read
\* (ReadParts) and jcl_access, which is printed and not counted, may say anything.
GoldVerdict ==
  exit # None /\ WellFormed /\ Decidable => (exit = 0 <=> \A k \in DOMAIN gold : Right(gold[k]))

\* The transactions that a Q1 section expects are those of the includers.
TransactionsRight(s) ==
  s.q = "Q1" /\ Has(s, "transactions") =>
    Part(s, "transactions", {}) =
      {<<e.from, e.to>> : e \in {x \in Known : x.type = "IS_TRANSACTION_FOR" /\
         \E i \in Known : i.type = "INCLUDES" /\ i.from = x.to /\ i.to = s.about}}

\* gold_match.py:12, "faithful to each gold entry's asserted answer": so also in the
\* transactions of a copybook, which gold_set.md:60 asserts, though the list that follows
\* there names the includers alone
GoldVerdictAllParts ==
  exit # None /\ WellFormed /\ Decidable => (exit = 0 => \A k \in DOMAIN gold : TransactionsRight(gold[k]))

\* The same as the verdict for a document in which a heading is misspelt or two sections
\* have one number
GoldVerdictAnyForm ==
  exit # None /\ Decidable => (exit = 0 => \A k \in DOMAIN gold : Right(gold[k]))

\* gold_match.py:24, "count of visible field labels": the same for any surface
GoldVerdictAnySurface ==
  exit # None /\ WellFormed => \A k \in DOMAIN gold : gold[k].q = "Q4" /\ exit = 0 => Right(gold[k])
=============================================================================
