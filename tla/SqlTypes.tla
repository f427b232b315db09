----------------------------- MODULE SqlTypes -----------------------------
(***************************************************************************)
(* The column type suggested for a data item (extract/cobol.py,            *)
(* _suggested_sql_type), from its picture and its usage clause.            *)
(*                                                                         *)
(* A picture is a sequence of runs: a symbol and how often it is repeated, *)
(* with a factor in brackets or written out.  Insertion and sign symbols   *)
(* are the runs with any other symbol; they carry no factor.               *)
(***************************************************************************)
EXTENDS Integers, Sequences, FiniteSets

Letters == {"X", "A"}
Digits == {"9", "Z", "*"}

BinaryUsages == {"COMP", "COMP-4", "COMP-5", "BINARY"}

Run == [sym : STRING, times : Nat, factor : BOOLEAN]

NoType == [type |-> "none"]

Symbols(pic) == {pic[k].sym : k \in DOMAIN pic}

\* How many nines the decimal form of a factor below 1000 holds
Nines(n) == Cardinality({d \in {1, 10, 100} : (n \div d) % 10 = 9})

\* The factors of the other symbols are still there when the nines are counted.
Stray(run) == IF run.factor /\ run.sym # "9" THEN Nines(run.times) ELSE 0

\* The places of a picture that has f[k] of them in its run k
Places(f) == UNION {{k} \X (1..f[k]) : k \in DOMAIN f}

CountSymbol(pic, s) ==
  Cardinality(Places([k \in DOMAIN pic |-> IF pic[k].sym = s THEN pic[k].times
                                           ELSE IF s = "9" THEN Stray(pic[k]) ELSE 0]))

CountDigits(pic) == CountSymbol(pic, "9") + CountSymbol(pic, "Z") + CountSymbol(pic, "*")

\* Some character of the picture is a digit symbol, be it one of a factor.
HasDigit(pic) == \E k \in DOMAIN pic : pic[k].sym \in Digits \/ Stray(pic[k]) > 0

\* The place of the first V, or of the first point when there is no V; past the end
\* of a picture with neither
Point(pic) ==
  LET at(s) == {k \in DOMAIN pic : pic[k].sym = s}
      mark  == IF at("V") # {} THEN at("V") ELSE at(".")
  IN  IF mark = {} THEN Len(pic) + 1 ELSE CHOOSE k \in mark : \A j \in mark : k <= j

\* Mutant: BIGINT takes all the digits that no INTEGER holds.
IntegerType_NoLimit(digits) ==
  IF digits <= 9 THEN [type |-> "INTEGER"]
  ELSE [type |-> "BIGINT"]

IntegerType(digits) ==
  IF digits <= 9 THEN [type |-> "INTEGER"]
  ELSE IF digits <= 18 THEN [type |-> "BIGINT"]
  ELSE [type |-> "NUMERIC", digits |-> digits, decimals |-> 0]

\* A CHAR of size 0 is written without a size.
Suggested(pic, usage) ==
  LET whole    == CountDigits(SubSeq(pic, 1, Point(pic) - 1))
      decimals == CountDigits(SubSeq(pic, Point(pic) + 1, Len(pic)))
  IN  IF Symbols(pic) \cap Letters # {} /\ ~HasDigit(pic)
      THEN [type |-> "CHAR", size |-> CountSymbol(pic, "X") + CountSymbol(pic, "A")]
      ELSE IF whole + decimals = 0 THEN NoType
      ELSE IF decimals = 0 /\ usage \in BinaryUsages THEN IntegerType(whole)
      ELSE [type |-> "NUMERIC", digits |-> whole + decimals, decimals |-> decimals]

-----------------------------------------------------------------------------
(* What a picture means, position by position *)

Size(pic, syms, from, to) ==
  Cardinality(Places([k \in {j \in from..to : pic[j].sym \in syms} |-> pic[k].times]))

\* Values of letters, or digits with at most one point among them
OfLetters(pic) == Symbols(pic) \cap Letters # {} /\ Symbols(pic) \cap (Digits \cup {"V", "."}) = {}
OfDigits(pic) ==
  /\ Symbols(pic) \cap Digits # {} /\ Symbols(pic) \cap (Letters \cup {"P"}) = {}
  /\ Cardinality({k \in DOMAIN pic : pic[k].sym \in {"V", "."}}) <= 1

\* A column of the type takes every value of the picture, and is no wider than that:
\* an INTEGER has nine whole decimal digits, a BIGINT eighteen.
Fits(type, pic) ==
  LET whole    == Size(pic, Digits, 1, Point(pic) - 1)
      decimals == Size(pic, Digits, Point(pic) + 1, Len(pic))
  IN  CASE type.type = "CHAR"    -> OfLetters(pic) /\ type.size = Size(pic, Letters, 1, Len(pic))
        [] type.type = "NUMERIC" -> type.decimals = decimals /\ type.digits = whole + decimals
        [] type.type = "INTEGER" -> decimals = 0 /\ whole \in 1..9
        [] type.type = "BIGINT"  -> decimals = 0 /\ whole \in 10..18
        [] OTHER                 -> FALSE
=============================================================================
