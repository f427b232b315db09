----------------------------- MODULE MCQueries -----------------------------
(* Graphs of three programs with every choice of a few calls, long chains, nine programs
   of which two matter, one online program with everything the four queries ask about, and a wide screen; and gold sets
   that are right, wrong in one answer, or badly formed. *)
EXTENDS GoldMatch, SequencesExt, TLC

CONSTANT MaxEdges

Plain(id, type) == [id |-> id, type |-> type, partial |-> FALSE, of |-> None, key |-> "", text |-> ""]

Chain == <<"p1", "p2", "p3", "p4", "p5", "p6", "p7">>

Many == Chain \o <<"p8", "p9">>

FieldIds == {"F" \o ToString(n) : n \in 1..51}

MCIds ==
  FieldIds \cup Range(Many) \cup {"CC00", "MENU", "UNKNOWN", "SCREENS", "CDEMO-TO-PROGRAM", "COPY1", "FILE1",
                                   "DATA1", "STEP1", "ITEM1", "ITEM2", "FILLER1", "FILLER2"}

MCInputs == {[copybook |-> "COPY1", dataset |-> "DATA1", transaction |-> "CC00"]}

MCJobOf(step) == "JOB of " \o step

Programs(names) == [k \in DOMAIN names |-> Plain(names[k], "Program")]

Menu == [Plain("MENU", "BMSMap") EXCEPT !.of = "SCREENS"]
Placeholder(id, type) == [Plain(id, type) EXCEPT !.partial = TRUE]
Target == Placeholder("CDEMO-TO-PROGRAM", "Program")
Field(id, text) == [Plain(id, "BMSField") EXCEPT !.of = "MENU", !.text = text]
Item(id, key, text) == [Plain(id, "DataItem") EXCEPT !.of = "COPY1", !.key = key, !.text = text]

E(type, from, to, line) == [type |-> type, from |-> from, to |-> to, line |-> line]

Dispatch(p) == E("IS_TRANSACTION_FOR", "CC00", p, 1)

\* A call may be made on two lines.
SomeEdges ==
  {E("XCTLS_TO", from, to, 1) : from \in {"p1", "p2"}, to \in {"p1", "p2", "p3", "CDEMO-TO-PROGRAM"}}
  \cup {E("XCTLS_TO", "p1", "p2", 2), E("CALLS", "p3", "p1", 1), Dispatch("p2")}

ShortCatalogs ==
  [entities : {Programs(<<"p1", "p2", "p3">>) \o <<Plain("CC00", "CICSTransaction"), Target>>},
   edges : {<<Dispatch("p1")>> \o SetToSeq(es) : es \in {x \in SUBSET SomeEdges : Cardinality(x) <= MaxEdges}}]

\* p1 calls p2, which calls p3, and so on to p7, which may call the program it came from.
ChainCatalogs ==
  {[entities |-> Programs(Chain) \o <<Plain("CC00", "CICSTransaction")>>,
    edges |-> <<Dispatch("p1")>> \o [k \in 1..6 |-> E("CALLS", Chain[k], Chain[k + 1], 1)] \o back] :
     back \in {<<>>, <<E("CALLS", "p7", "p6", 1)>>, <<E("CALLS", "p7", "p1", 1)>>}}

\* Nine programs: the entry calls one of them, others call the entry or each other; and a
\* chain of eight, which six hops do not go through
ManyCatalogs ==
  {[entities |-> Programs(Many) \o <<Plain("CC00", "CICSTransaction"), Plain("COPY1", "Copybook")>>,
    edges |-> edges] :
     edges \in {<<Dispatch("p1"), E("CALLS", "p1", "p2", 1), E("CALLS", "p3", "p1", 1), E("CALLS", "p4", "p5", 1),
                  E("INCLUDES", "p2", "COPY1", 1), E("INCLUDES", "p9", "COPY1", 1)>>,
                <<Dispatch("p1")>> \o [k \in 1..7 |-> E("CALLS", Many[k], Many[k + 1], 1)]}}

\* A program with a copybook, a file and a screen, the screen sent, received or both, and
\* a second map whose name no pass could read
Whole(edges) ==
  [entities |-> Programs(<<"p1", "p2">>) \o
     <<Plain("CC00", "CICSTransaction"), Target, Plain("COPY1", "Copybook"), Plain("FILE1", "LogicalFile"),
       Plain("DATA1", "Dataset"), Plain("STEP1", "JCLStep"), Plain("SCREENS", "BMSMapset"), Menu,
       Placeholder("UNKNOWN", "BMSMap"), Field("F1", "User ID"), Field("F2", ""),
       Item("ITEM1", "A", "CHAR(8)"), Item("ITEM2", "B", "")>>,
   edges |-> edges]

OnlineEdges ==
  <<Dispatch("p1"), E("INCLUDES", "p1", "COPY1", 1), E("INCLUDES", "p1", "COPY1", 2), E("INCLUDES", "p2", "COPY1", 1),
    E("SENDS_MAP", "p1", "MENU", 3), E("RECEIVES_MAP", "p1", "MENU", 4), E("SENDS_MAP", "p1", "UNKNOWN", 5),
    E("READS", "p1", "FILE1", 6), E("BINDS_TO", "FILE1", "DATA1", 1), E("USES_DATASET", "STEP1", "DATA1", 1),
    E("XCTLS_TO", "p1", "CDEMO-TO-PROGRAM", 7)>>

WholeCatalogs ==
  {Whole(OnlineEdges),
   Whole(<<Dispatch("p1"), Dispatch("p2"), E("SENDS_MAP", "p2", "MENU", 3), E("SENDS_MAP", "p2", "UNKNOWN", 4),
           E("INCLUDES", "p2", "COPY1", 1), E("UPDATES", "p2", "FILE1", 2), E("WRITES", "p1", "FILE1", 2),
           E("BINDS_TO", "FILE1", "DATA1", 1), E("DEFINES_LAYOUT_FOR", "COPY1", "FILE1", 1)>>)}

\* A screen of n labels; two FILLER items of one picture
Wide(n) ==
  [entities |-> Programs(<<"p1">>) \o <<Plain("CC00", "CICSTransaction"), Plain("SCREENS", "BMSMapset"), Menu>>
                \o [k \in 1..n |-> Field("F" \o ToString(k), "label")],
   edges |-> <<Dispatch("p1"), E("RECEIVES_MAP", "p1", "MENU", 1)>>]

Padded ==
  [entities |-> <<Plain("COPY1", "Copybook"), Item("FILLER1", "FILLER", "CHAR(2)"), Item("FILLER2", "FILLER", "NUMERIC(2)")>>,
   edges |-> <<>>]

MCCatalogs == ShortCatalogs \cup ChainCatalogs \cup ManyCatalogs \cup WholeCatalogs \cup {Wide(50), Padded}

-----------------------------------------------------------------------------
(* Gold sets *)

P(name, value) == [name |-> name, value |-> value]

Section(q, n, about, parts) == [q |-> q, n |-> n, about |-> about, parts |-> parts]

G1(programs) == Section("Q1", 1, "COPY1", <<P("direct_includers", programs)>>)
G2(access, jobs) == Section("Q2", 1, "DATA1", <<P("program_access", access), P("jcl_access", jobs)>>)
G3(entry, reached, left) ==
  Section("Q3", 1, "CC00",
          <<P("entry_program", entry), P("reachable_programs", reached), P("unresolved_reaches", left)>>)
G4(entry, maps, sets, fields) ==
  Section("Q4", 1, "CC00", <<P("entry_program", entry), P("map_interactions", maps), P("mapsets", sets),
                             P("field_surface", fields)>>)
G6(items) == Section("Q6", 1, "COPY1", <<P("items", items)>>)

Typed(key, accepted) == [key |-> key, accepted |-> accepted]

\* One section each: the answers of the graphs above, and some that are off by one part
Answers ==
  {G1(programs) : programs \in SUBSET {"p1", "p2"}}
  \cup {G2(access, {"JOB of STEP1"}) : access \in {{}, {<<"p1", "READS", 6>>}, {<<"p1", "READS", 7>>},
                                                   {<<"p2", "UPDATES", 2>>, <<"p1", "WRITES", 2>>}}}
  \cup {G3("p1", reached, left) : reached \in {{}, {"p2"}, {"p2", "p3"}, Range(Tail(Chain))},
                                  left \in {{}, {<<"p1", "CDEMO-TO-PROGRAM">>}}}
  \cup {G4("p1", {<<"p1", "MENU">>} \cup more, {"SCREENS"}, n) : more \in {{}, {<<"p1", "UNKNOWN">>}}, n \in {0, 1, 50}}
  \cup {G4("p1", {}, {}, 0), G4("p2", {<<"p2", "MENU">>, <<"p2", "UNKNOWN">>}, {"SCREENS"}, 1)}
  \cup {G6({Typed("A", {"CHAR(8)"})}), G6({Typed("A", {"CHAR(8)", "NUMERIC(8)"}), Typed("B", {""})}),
        G6({Typed("A", Skip), Typed("B", {""})}), G6({Typed("A", {"NUMERIC(8)"}), Typed("B", {""})}),
        G6({Typed("FILLER", {"CHAR(2)"})})}

\* Parts that are not read, beside those that are: the transactions right and wrong
Beside(s, before, after) == [s EXCEPT !.parts = before \o @ \o after]

Besides ==
  {Beside(G1(programs), <<>>, <<P("transactions", ts), P("maps", {}), P("jobs", {}), P("related_files", {})>>) :
     programs \in {{"p1", "p2"}, {"p2"}, {"p2", "p9"}}, ts \in {{}, {<<"CC00", "p1">>}}}
  \cup {Beside(G1({"p1", "p2"}), <<P("related_files", {})>>, <<>>)}
  \cup {Beside(G3("p1", {"p2"}, {}), <<>>, <<P("cycles", cycles)>>) : cycles \in {{}, {"p1"}}}
  \cup {Beside(G4("p1", {}, {}, 0), <<>>, <<P("cycles", {})>>)}

\* Two sections; the same number twice, a heading left out
Documents ==
  {<<s>> : s \in Answers \cup Besides}
  \cup {<<s, t>> : s \in {G1({"p1", "p2"}), G1({})},
                   t \in {G3("p1", {}, {<<"p1", "CDEMO-TO-PROGRAM">>}), G3("p1", {"p2"}, {}), G2({}, {}), G1({"p1"})}}
  \cup {<<[G3("p1", {"p2"}, {}) EXCEPT !.parts = SubSeq(@, 1, 2)]>>}

\* The entry hands over to a program that has a target and a map of its own.
HandOver ==
  {[entities |-> Programs(<<"p1", "p2">>) \o <<Plain("CC00", "CICSTransaction"), Menu, Plain("SCREENS", "BMSMapset"), Target>>,
    edges |-> <<Dispatch("p1"), E("XCTLS_TO", "p1", "p2", 1), E("SENDS_MAP", "p2", "MENU", 1),
                E("XCTLS_TO", "p2", "CDEMO-TO-PROGRAM", 1)>>]}

WideCatalogs == {Wide(51)}
=============================================================================
