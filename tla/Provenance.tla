----------------------------- MODULE Provenance -----------------------------
(***************************************************************************)
(* How a statement of the parse tree is traced to the line it was written  *)
(* on (parsers/cobol/normalize.py, fold_align, and program_provenance.py,  *)
(* ProgramConstructResolver).  MAPA parses a text with blank lines folded  *)
(* away and copybooks spliced in.  The folded text is first aligned with   *)
(* the source; then each statement, in the order of the text, takes the    *)
(* first line of the program that has its content and is not taken yet, or *)
(* else the first line of a copybook that has it.                          *)
(*                                                                         *)
(* The text MAPA makes is chosen with the source: it may drop any line,    *)
(* and may join two.                                                       *)
(***************************************************************************)
EXTENDS Integers, Sequences, FiniteSets, SequencesExt

CONSTANTS
  Code,       \* what columns 8 to 72 of a line hold
  Blank,      \* nothing
  Joined,     \* a line and its continuation
  Starts,     \* [Code -> Nat], how many statements start on a line of that code
  CopyLines,  \* the codes that are COPY statements,
  CopyOf,     \* and the copybook each takes
  BookOrder,  \* the names of the copybooks, sorted
  Corpora     \* sources with the copybooks beside them

\* seq: the line has a sequence number in columns 1 to 6.
Text == [code : Code \cup {Blank}, seq : BOOLEAN]

\* What MAPA makes of two lines it joins
JoinedText == [code |-> Joined, seq |-> FALSE]

Books == {BookOrder[k] : k \in 1..Len(BookOrder)}

ASSUME ProvenanceAssumption ==
  /\ Blank \notin Code /\ Joined \notin Code /\ Blank # Joined
  /\ CopyLines \subseteq Code /\ CopyOf \in [CopyLines -> Books]
  /\ BookOrder \in Seq(Books) /\ "program" \notin Books
  /\ Starts \in [Code -> Nat] /\ \A c \in CopyLines : Starts[c] = 0
  /\ Corpora \subseteq [src : Seq(Text), book : [Books -> Seq(Text)]]

VARIABLES
  corpus,       \* the source and the copybooks
  woc,          \* the folded text: of each line, its text and where it comes from
  stage,        \* fold, then resolve, then done; or refused
  fi, oi,       \* the folded line and the source line the walk stands at
  fold_to_src,  \* [folded line -> source line], as far as the walk has come
  next,         \* the statement that is traced next
  taken,        \* the folded lines that were taken
  origins       \* the origin found for each statement

vars == <<corpus, woc, stage, fi, oi, fold_to_src, next, taken, origins>>

src == corpus.src

Least(S) == CHOOSE k \in S : \A j \in S : k <= j

\* The folded text if the lines in kept stay and the one at join, if any, takes the
\* next into it
Folded(s, kept, join) ==
  FlattenSeq([l \in 1..Len(s) |->
    IF l \in kept /\ l # join + 1
    THEN <<[text |-> IF l = join THEN JoinedText ELSE s[l], from |-> l]>> ELSE <<>>])

\* The text MAPA parses: the copybooks stand where their COPY statements stood.
Spliced(l) ==
  IF woc[l].text.code \in CopyLines
  THEN LET b == CopyOf[woc[l].text.code]
       IN  [k \in 1..Len(corpus.book[b]) |->
              [text |-> corpus.book[b][k], source |-> b, line |-> k]]
  ELSE <<[text |-> woc[l].text, source |-> "program", line |-> woc[l].from]>>

Top == FlattenSeq([l \in 1..Len(woc) |-> Spliced(l)])

\* The statements in the order they are traced, a line with two of them twice
NodesOf(t) ==
  IF t.text.code \in Code THEN [k \in 1..Starts[t.text.code] |-> t] ELSE <<>>
Nodes == LET top == Top IN FlattenSeq([l \in 1..Len(top) |-> NodesOf(top[l])])

Init ==
  /\ corpus \in Corpora
  /\ \E kept \in SUBSET (1..Len(src)), join \in {-1} \cup 1..(Len(src) - 1) :
       woc = Folded(src, kept, join)
  /\ stage = "fold"
  /\ fi = 1 /\ oi = 1
  /\ fold_to_src = <<>>
  /\ next = 1
  /\ taken = {}
  /\ origins = <<>>

-----------------------------------------------------------------------------
(* fold_align *)

InFold == stage = "fold" /\ fi <= Len(woc)

IsBlank(t) == t.code = Blank

\* The entry of a blank folded line is never asked for.
FoldBlank ==
  /\ InFold /\ IsBlank(woc[fi].text)
  /\ fi' = fi + 1
  /\ fold_to_src' = Append(fold_to_src, 0)
  /\ UNCHANGED <<corpus, woc, stage, oi, next, taken, origins>>

\* Mutant: a source line that does not match is skipped like a blank one.
SkipBlank_AnyLine ==
  /\ stage = "fold"
  /\ fi <= Len(woc) => ~IsBlank(woc[fi].text) /\ woc[fi].text # src[oi]
  /\ oi <= Len(src)
  /\ oi' = oi + 1
  /\ UNCHANGED <<corpus, woc, stage, fi, fold_to_src, next, taken, origins>>

\* A blank line of the source, inside the walk or after it
SkipBlank ==
  /\ stage = "fold"
  /\ fi <= Len(woc) => ~IsBlank(woc[fi].text)
  /\ oi <= Len(src) /\ IsBlank(src[oi])
  /\ oi' = oi + 1
  /\ UNCHANGED <<corpus, woc, stage, fi, fold_to_src, next, taken, origins>>

Matches == oi <= Len(src) /\ ~IsBlank(src[oi]) /\ woc[fi].text = src[oi]

FoldMatch ==
  /\ InFold /\ ~IsBlank(woc[fi].text) /\ Matches
  /\ fold_to_src' = Append(fold_to_src, oi)
  /\ fi' = fi + 1 /\ oi' = oi + 1
  /\ UNCHANGED <<corpus, woc, stage, next, taken, origins>>

Refuse == stage' = "refused" /\ UNCHANGED <<corpus, woc, fi, oi, fold_to_src, next, taken, origins>>

\* A line that matches nothing, or that is past the end
FoldRefuse ==
  /\ InFold /\ ~IsBlank(woc[fi].text) /\ ~Matches
  /\ oi <= Len(src) => ~IsBlank(src[oi])
  /\ Refuse

\* A source line that nothing matched
Unconsumed == stage = "fold" /\ fi > Len(woc) /\ oi <= Len(src) /\ ~IsBlank(src[oi]) /\ Refuse

FoldDone ==
  /\ stage = "fold" /\ fi > Len(woc) /\ oi > Len(src)
  /\ stage' = "resolve"
  /\ UNCHANGED <<corpus, woc, fi, oi, fold_to_src, next, taken, origins>>

-----------------------------------------------------------------------------
(* ProgramConstructResolver.resolve *)

Resolving == stage = "resolve" /\ next <= Len(Nodes)

\* The lines of the program with this content that are left
Left(t) == {l \in 1..Len(woc) : woc[l].text = t /\ l \notin taken}

\* The lines of a copybook whose code area is the whole statement line: its own sequence
\* number is left aside, but one on the statement's line is not.
InBook(b, t) == {k \in 1..Len(corpus.book[b]) : ~t.seq /\ corpus.book[b][k].code = t.code}
Holding(t)   == {k \in 1..Len(BookOrder) : InBook(BookOrder[k], t) # {}}

Found(source, line) ==
  /\ origins' = Append(origins, [source |-> source, line |-> line])
  /\ next' = next + 1
  /\ UNCHANGED <<corpus, woc, stage, fi, oi, fold_to_src>>

\* Mutant: the last line with the content is taken first.
ResolveNative_Last ==
  /\ Resolving
  /\ LET left == Left(Nodes[next].text)
         last == CHOOSE l \in left : \A k \in left : k <= l
     IN  /\ left # {}
         /\ Found("program", fold_to_src[last])
         /\ taken' = taken \cup {last}

\* Mutant: the line is not taken from those that are left.
ResolveNative_Kept ==
  /\ Resolving
  /\ LET left == Left(Nodes[next].text)
     IN  left # {} /\ Found("program", fold_to_src[Least(left)])
  /\ UNCHANGED taken

ResolveNative ==
  /\ Resolving
  /\ LET left == Left(Nodes[next].text)
     IN  /\ left # {}
         /\ src[fold_to_src[Least(left)]] = Nodes[next].text
         /\ Found("program", fold_to_src[Least(left)])
         /\ taken' = taken \cup {Least(left)}

ResolveCopybook ==
  /\ Resolving
  /\ LET t == Nodes[next].text
     IN  /\ Left(t) = {} /\ Holding(t) # {}
         /\ LET b == BookOrder[Least(Holding(t))] IN Found(b, Least(InBook(b, t)))
  /\ UNCHANGED taken

\* Neither in the program nor in any copybook
ResolveRefuse ==
  /\ Resolving
  /\ Left(Nodes[next].text) = {} /\ Holding(Nodes[next].text) = {}
  /\ Refuse

ResolveDone ==
  /\ stage = "resolve" /\ next > Len(Nodes)
  /\ stage' = "done"
  /\ UNCHANGED <<corpus, woc, fi, oi, fold_to_src, next, taken, origins>>

Next ==
  \/ FoldBlank \/ SkipBlank \/ FoldMatch \/ FoldRefuse \/ Unconsumed \/ FoldDone
  \/ ResolveNative \/ ResolveCopybook \/ ResolveRefuse \/ ResolveDone

Spec == Init /\ [][Next]_vars

-----------------------------------------------------------------------------
(* Properties *)

TypeInvariant ==
  /\ corpus \in Corpora
  /\ woc \in Seq([text : Text \cup {JoinedText}, from : 1..Len(src)])
  /\ stage \in {"fold", "resolve", "done", "refused"}
  /\ fi \in 1..(Len(woc) + 1) /\ oi \in 1..(Len(src) + 1)
  /\ fold_to_src \in Seq(0..Len(src)) /\ Len(fold_to_src) = fi - 1
  /\ taken \subseteq 1..Len(woc)
  /\ origins \in Seq([source : Books \cup {"program"}, line : Nat])
  /\ next \in Nat /\ Len(origins) = next - 1

\* An alignment that is not refused is the true one, whatever MAPA did to the text: no
\* line was dropped or joined but blank ones, and each folded line is mapped to the
\* line it comes from.
AlignedOrRefused ==
  stage \in {"resolve", "done"} =>
    /\ \A l \in 1..Len(woc) : ~IsBlank(woc[l].text) => fold_to_src[l] = woc[l].from
    /\ {l \in 1..Len(src) : ~IsBlank(src[l])} \subseteq {fold_to_src[l] : l \in 1..Len(woc)}

\* The variables have their types, and every line of the folded text is mapped to its
\* own line of the source or the program is refused.
ProvenanceInv == TypeInvariant /\ AlignedOrRefused

\* No two statements are traced to one line of the program, and every origin has the
\* statement's content.
OriginsMatch ==
  stage # "fold" =>
    \A k \in 1..Len(origins) :
      LET o == origins[k] IN
        /\ IF o.source = "program" THEN src[o.line] = Nodes[k].text
           ELSE corpus.book[o.source][o.line].code = Nodes[k].text.code
        /\ \A j \in 1..(k - 1) : o.source = "program" => origins[j] # o

\* "That makes a wrong provenance edge impossible by construction": every origin is the
\* line the statement was written on.
NoWrongOrigin ==
  stage # "fold" =>
    \A k \in 1..Len(origins) :
      origins[k] = [source |-> Nodes[k].source, line |-> Nodes[k].line]

\* No line starts two statements, and no copybook repeats a statement of the program, of
\* another copybook or of its own.
Unshared ==
  \A c \in Code :
    LET inBooks == UNION {{<<b, k>> : k \in InBook(b, [code |-> c, seq |-> FALSE])} : b \in Books}
        inProgram == {l \in 1..Len(src) : src[l].code = c}
    IN  /\ Starts[c] > 1 => inBooks = {} /\ inProgram = {}
        /\ Starts[c] = 1 /\ inBooks # {} => Cardinality(inBooks) = 1 /\ inProgram = {}

\* Where lines are not shared, every origin is the true one, however often the program
\* repeats its own lines and whatever MAPA did to the text.
OriginsAreTrue == Unshared => NoWrongOrigin
=============================================================================
