------------------------------ MODULE MCCorpus ------------------------------
(***************************************************************************)
(* Corpora for model-checking Corpus: every JCL file and every file of     *)
(* resource definitions of about MaxLines lines out of a few, alone; and   *)
(* jobs with procedures and resource definitions, in every order of the    *)
(* files.                                                                  *)
(***************************************************************************)
EXTENDS Corpus

CONSTANT MaxLines  \* lines of a file on its own

MCNames    == {"J", "K", "P", "Q", "S", "T", "SORT", "IN", "SYSIN"}
MCDsns     == {"D", "D(+1)", "&E"}
MCBases    == {"D", "&E"}
MCBaseOf   == [d \in MCDsns |-> IF d = "&E" THEN "&E" ELSE "D"]
MCSymbolic == {"&E"}
MCCsdNames == {"SORT", "N"}

-----------------------------------------------------------------------------
(* JCL files *)

Line_(shape, name) ==
  [shape |-> shape, name |-> name, over |-> Absent, pgm |-> Absent, proc |-> Absent,
   positional |-> Absent, dsn |-> Absent, flags |-> {}, more |-> FALSE]

More(l)   == [l EXCEPT !.more = TRUE]
Job_(n)   == Line_("job", n)
Proc_(n)  == Line_("proc", n)
Run(s)    == [Line_("exec", s) EXCEPT !.pgm = "SORT"]
Call(s, p) == [Line_("exec", s) EXCEPT !.proc = p]
Use(s)    == Call(s, "P")
UsePos(s) == [Line_("exec", s) EXCEPT !.positional = "P"]
Dd(n, d)  == [Line_("dd", n) EXCEPT !.dsn = d]
Over(s)   == [Line_("override", "IN") EXCEPT !.over = s, !.dsn = "D"]
NextDsn   == [Line_("bare", Absent) EXCEPT !.dsn = "&E"]

Decks_(kind, forms, n) == [kind : {kind}, lines : BoundedSeq(forms, n)]

\* The statements that change what the extractor remembers, and the other lines
JobLines  == {Job_("J"), Job_("K"), Run("S"), More(Run("T")), Use("T"),
              Dd("IN", "D(+1)"), More(Dd("SYSIN", "D"))}
ProcLines == {Proc_("P"), Proc_("Q"), Run("S"), More(Use("T")), More(Dd("SYSIN", "&E")),
              Over("T")}
MoreJobLines  == {UsePos("S"), NextDsn, Over("T"), Line_("jcllib", "J"),
                  [Line_("dd", "IN") EXCEPT !.flags = {"DUMMY"}]}
MoreProcLines == {NextDsn, Line_("pend", Absent), Line_("text", Absent),
                  [Line_("dd", "IN") EXCEPT !.flags = {"INLINE"}],
                  [Line_("dd", "IN") EXCEPT !.flags = {"SYSOUT"}]}

JobDecks  == Decks_("job", JobLines, MaxLines)
             \cup Decks_("job", JobLines \cup MoreJobLines, MaxLines - 1)
ProcDecks == Decks_("proc", ProcLines, MaxLines)
             \cup Decks_("proc", ProcLines \cup MoreProcLines, MaxLines - 1)

\* Longer files: a job with a step and on, with overrides, concatenations, continued
\* invocations and procedures in the stream
After(kind, prefix, forms, n) ==
  {[kind |-> kind, lines |-> prefix \o s] : s \in BoundedSeq(forms, n)}

LongDecks ==
  After("job", <<Job_("J"), Use("S")>>, {Use("T"), Over("T"), Dd("IN", "D")}, MaxLines)
  \cup After("job", <<Job_("J"), Run("S")>>, {Dd("IN", "D"), More(Dd("IN", "D")), NextDsn}, MaxLines)
  \cup After("job", <<Job_("J")>>, {UsePos("S"), More(UsePos("S")), Use("T"), Line_("bare", Absent)}, MaxLines)
  \cup After("job", <<Job_("J")>>, {Proc_("P"), Run("S"), Line_("pend", Absent), Use("T")}, MaxLines)

\* The files of a corpus of several
Jobs  == After("job", <<Job_("J")>>, {Use("S"), Call("T", "Q"), Call("S", "Q"), Over("T"), Dd("IN", "D")}, 3)
ProcP == After("proc", <<Proc_("P")>>, {Run("S"), Call("T", "Q"), Dd("IN", "&E"), Over("S")}, 2)
ProcQ == {[kind |-> "proc", lines |-> <<Proc_("Q"), Run("S")>>],
          [kind |-> "proc", lines |-> <<Proc_("P"), Run("T")>>],
          [kind |-> "proc", lines |-> <<Run("S"), Proc_("Q")>>]}

MCDecks == JobDecks \cup ProcDecks \cup LongDecks \cup Jobs \cup ProcP \cup ProcQ

-----------------------------------------------------------------------------
(* Files of resource definitions *)

Definition(type, name, program, dsname) ==
  [head |-> type, name |-> name, program |-> program, dsname |-> dsname]

Heads ==
  {Definition("TRANSACTION", "SORT", Absent, Absent), Definition("TRANSACTION", "N", "SORT", Absent),
   Definition("PROGRAM", "SORT", Absent, Absent), Definition("MAPSET", "N", Absent, Absent),
   Definition("FILE", "SORT", Absent, Absent), Definition("FILE", "N", Absent, "&E"),
   Definition("GROUP", "SORT", Absent, Absent)}

Operands ==
  {Definition("none", Absent, "SORT", Absent), Definition("none", Absent, "N", Absent),
   Definition("none", Absent, Absent, "D"), Definition("none", Absent, Absent, Absent)}

CsdFiles(forms, n) == [kind : {"csd"}, lines : BoundedSeq(forms, n)]

\* Files that define resources of the listed types only
ListedFiles ==
  CsdFiles(Heads \cup Operands, MaxLines - 1)
  \cup CsdFiles({Definition("TRANSACTION", "SORT", Absent, Absent), Definition("FILE", "N", Absent, "&E"),
                 Definition("none", Absent, "N", Absent), Definition("none", Absent, Absent, "D")},
                MaxLines + 1)

\* Files with a resource of another type among them, such as a URIMAP and its program
UnlistedCorpora ==
  {<<f>> : f \in CsdFiles(
     {Definition("TRANSACTION", "SORT", Absent, Absent), Definition("none", Absent, "SORT", Absent),
      Definition("unlisted", "N", Absent, Absent), Definition("unlisted", "N", "N", Absent)}, MaxLines)}

Definitions ==
  {[kind |-> "csd", lines |-> s] :
     s \in {<<Definition("PROGRAM", "SORT", Absent, Absent), Definition("FILE", "N", Absent, "D")>>,
            <<Definition("TRANSACTION", "N", Absent, Absent), Definition("none", Absent, "SORT", Absent)>>}}

-----------------------------------------------------------------------------
Alone == {<<f>> : f \in JobDecks \cup ProcDecks \cup LongDecks \cup ListedFiles}

Together ==
  UNION {{<<x[1], x[2]>>, <<x[2], x[1]>>} :
           x \in {y \in Jobs \X ProcP : Len(y[1].lines) + Len(y[2].lines) <= 6}}
  \cup UNION {{<<j, p, q>>, <<q, j, p>>, <<c, j, q>>, <<p, c, j>>} :
                j \in {x \in Jobs : Len(x.lines) <= 2}, p \in ProcP, q \in ProcQ, c \in Definitions}

MCCorpora == Alone \cup Together

Scopes == {"J", "K", "P", "Q", Unknown}

MCGraphIds ==
  {JobId(n) : n \in {"J", "K", Unknown}} \cup {ProcId(n) : n \in {"P", "Q"}}
  \cup {StepId(s, n) : s \in Scopes, n \in {"S", "T", Unknown}}
  \cup {InvocationId(s, n) : s \in Scopes, n \in {"S", "T"}}
  \cup {ProgramId(n) : n \in MCCsdNames} \cup {DatasetId(b) : b \in MCBases}
  \cup {TransactionId(n) : n \in MCCsdNames} \cup {MapsetId("N"), CsdFileId("SORT")}
=============================================================================
