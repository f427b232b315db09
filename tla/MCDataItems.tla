---------------------------- MODULE MCDataItems ----------------------------
(* Copybooks of at most MaxEntries entries over a few levels and names. *)
EXTENDS DataItems, SequencesExt

CONSTANT MaxEntries

MCNames == {"A", "B"}

Entry_(levels, names) ==
  [level : levels, name : names, pic : {Absent}, usage : {Absent}, hint : {Absent}]

\* Groups and items, with a RENAMES and a condition name among them
Layouts ==
  BoundedSeq(Entry_({1, 5, 10, 77}, {"A", Filler}) \cup Entry_({66, 88}, {"B"}), MaxEntries)

Times(s, n) == [sym |-> s, times |-> n, factor |-> TRUE]
Once(s) == [sym |-> s, times |-> 1, factor |-> FALSE]

Sizes == {1, 2, 8, 9, 10, 11, 18, 19, 59}

\* X(n), A(n), XX, X(n)/X(n); whole numbers and ones with decimals, signed or not;
\* Z(n), Z(n)9, --ZZZ,ZZ9.99, ZZ9-, +Z(n).99, *(n)9, $*(n)9; X(n)9(3) and 9(3)PP
Pictures ==
  UNION {{<<Times("X", n)>>, <<Times("A", n)>>, <<Times("X", n), Once("/"), Times("X", n)>>,
          <<Times("9", n)>>, <<Once("S"), Times("9", n)>>, <<Once("S"), Times("9", n), Once("V"), Times("9", 2)>>,
          <<Times("9", n), Once("V"), Times("9", n)>>,
          <<Times("Z", n)>>, <<Times("Z", n), Once("9")>>,
          <<Once("+"), Times("Z", n), Once("."), [Once("9") EXCEPT !.times = 2]>>,
          <<Times("*", n), Once("9")>>, <<Once("$"), Times("*", n), Once("9")>>,
          <<Times("X", n), Times("9", 3)>>} : n \in Sizes}
  \cup {<<[Once("X") EXCEPT !.times = 9]>>, <<Once("V"), Times("9", 4)>>,
        <<[Once("-") EXCEPT !.times = 2], [Once("Z") EXCEPT !.times = 3], Once(","),
          [Once("Z") EXCEPT !.times = 2], Once("9"), Once("."), [Once("9") EXCEPT !.times = 2]>>,
        <<[Once("Z") EXCEPT !.times = 2], Once("9"), Once("-")>>,
        <<Times("9", 3), [Once("P") EXCEPT !.times = 2]>>,
        <<Times("9", 5), Once("+")>>, <<Once("*"), Once("*"), Once("9")>>}

\* An item with a picture, alone or in a group that may have a usage clause too
TypedItems ==
  [level : {5}, name : {"A", Filler}, pic : Pictures, usage : {Absent, "COMP", "COMP-3", "DISPLAY"},
   hint : {Absent, "COMP"}]
TypedLayouts ==
  {<<item>> : item \in TypedItems}
  \cup {<<group, item>> : group \in [level : {1}, name : {"B"}, pic : {Absent}, usage : {Absent, "COMP"},
                                     hint : {Absent}],
                          item \in {i \in TypedItems : i.name = "A"}}

AllLayouts == Layouts \cup TypedLayouts

\* A record of named items
NamedLayouts == BoundedSeq(Entry_({1, 5, 10}, {"A", "B"}), MaxEntries)

\* Entries some of which have no name
UnnamedLayouts == BoundedSeq(Entry_({1, 5}, {"A", Absent}), MaxEntries)
=============================================================================
