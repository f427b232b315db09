------------------------------- MODULE Corpus -------------------------------
(***************************************************************************)
(* From files to the graph: the loop of the drivers over the files of a    *)
(* corpus (pilot.py, run_pilot), which gives each to the extractor of its  *)
(* kind (extract/parsers/registry.py, get_extractor) and then all that was *)
(* observed to the resolver, in the order of the files.                    *)
(*                                                                         *)
(* It composes three components, each with its own variables: the JCL      *)
(* extractor (module Jcl), the reader of CICS resource definitions (Csd)   *)
(* and the resolver (Resolver).  COBOL and BMS files are left to their own *)
(* modules, so no program of this corpus has a source body.                *)
(***************************************************************************)
EXTENDS Jcl, SequencesExt

CONSTANTS
  CsdNames,  \* names of CICS resources and of their programs
  Corpora,   \* sequences of files: decks of Jcl, and resource definitions
  GraphIds,  \* the canonical ids these files can give rise to
  NoEntity   \* the id is not a key of Resolver.entities

NoDeck == [kind |-> "job", lines |-> <<>>]

IsCsd(f)    == f.kind = "csd"
JclDeck(f)  == IF IsCsd(f) THEN NoDeck ELSE f
CsdLines(f) == IF IsCsd(f) THEN f.lines ELSE <<>>

TransactionId(n) == <<"transaction", n>>
MapsetId(n)      == <<"bms-mapset", n>>
CsdFileId(n)     == <<"logical-file", n>>

\* What the prefix of an id says of its type
IdPrefixes ==
  {"jcl-job", "jcl-proc", "jcl-step", "jcl-proc-inv", "program", "dataset", "transaction",
   "bms-mapset", "logical-file"}

TypeOfPrefix ==
  [p \in IdPrefixes |->
     CASE p = "jcl-job" -> "JCLJob"
       [] p = "jcl-proc" -> "JCLProc"
       [] p = "jcl-step" -> "JCLStep"
       [] p = "jcl-proc-inv" -> "JCLProcInvocation"
       [] p = "program" -> "Program"
       [] p = "dataset" -> "Dataset"
       [] p = "transaction" -> "CICSTransaction"
       [] p = "bms-mapset" -> "BMSMapset"
       [] p = "logical-file" -> "LogicalFile"]

TypeOfId == [id \in GraphIds |-> TypeOfPrefix[id[1]]]
FileOfId == [id \in {i \in GraphIds : i[1] = "logical-file"} |-> id[2]]

VARIABLES
  corpus,  \* the files of the run
  file,    \* the file the loop of run_pilot stands at
  sink,    \* what the extractors observed in the files before it
  cdeck, cphase, cat, cstart, cblocks, cout,  \* the reader of resource definitions
  pc, pos, csd, entities, edges, unresolved, conflicts, metrics  \* the resolver

driver   == <<corpus, file>>
jclVars  == <<deck, at, job, proc, step, pgm, count, out>>
csdVars  == <<cdeck, cphase, cat, cstart, cblocks, cout>>
resolver == <<pc, pos, csd, entities, edges, unresolved, conflicts, metrics>>

CsdDecks == UNION {{CsdLines(c[f]) : f \in 1..Len(c)} : c \in Corpora}

C == INSTANCE Csd WITH
  Names <- CsdNames, Datasets <- Bases, Decks <- CsdDecks,
  deck <- cdeck, phase <- cphase, at <- cat, cur_start <- cstart, blocks <- cblocks, out <- cout

R == INSTANCE Resolver WITH
  Ids <- GraphIds, TypeOf <- TypeOfId, Files <- CsdNames, FileOf <- FileOfId,
  Paths <- Nat, DDs <- Labels, Inputs <- {}, NoId <- Absent,
  obs <- sink, at <- pos

\* A definition names its resource.
IsDefinitions(lines_) ==
  /\ lines_ \in Seq(C!Line)
  /\ \A l \in 1..Len(lines_) : lines_[l].head \in C!Listed => lines_[l].name \in CsdNames

ASSUME CorpusAssumption ==
  /\ NoDeck \in Decks
  /\ \A c \in Corpora :
       /\ Len(c) \in Nat \ {0}
       /\ \A f \in 1..Len(c) : IF IsCsd(c[f]) THEN IsDefinitions(c[f].lines) ELSE c[f] \in Decks
  /\ Absent \notin CsdNames \cup Bases
  /\ \A id \in GraphIds :
       /\ id[1] \in IdPrefixes
       /\ id[1] = "logical-file" => id[2] \in CsdNames
  /\ Absent \notin GraphIds
  /\ NoEntity \notin R!Entity

-----------------------------------------------------------------------------
(* What an extractor hands on, as the resolver reads it *)

Entity_(id, rule, owner, invoked, partial) ==
  [kind |-> "entity", id |-> id, rule |-> rule, path |-> file, partial |-> partial,
   owner |-> owner, invoked |-> invoked, assign |-> Absent]

Edge_(type, from, to, dd) ==
  [kind |-> "edge", type |-> type, from |-> from, to |-> to,
   dynamic |-> FALSE, cics |-> FALSE, dd |-> dd]

\* The properties observed of a step are of no interest to the resolver.
OfObservation(o) ==
  CASE o.kind = "entity" -> <<Entity_(o.id, "RUL-JCL", o.owner, o.invoked, o.partial)>>
    [] o.kind = "edge"   -> <<Edge_(o.type, o.from, o.to, o.dd)>>
    [] OTHER             -> <<>>

JclHanded == FlattenSeq([k \in 1..Len(out) |-> OfObservation(out[k])])

\* The observation of one fact of a resource definition
OfFact(f) ==
  CASE f.kind = "CICSTransaction" ->
         Entity_(TransactionId(f.from), "RUL-CSD-001", Absent, Absent, FALSE)
    [] f.kind = "IS_TRANSACTION_FOR" ->
         Edge_("IS_TRANSACTION_FOR", TransactionId(f.from), ProgramId(f.to), Absent)
    [] f.kind = "Program" -> Entity_(ProgramId(f.from), "RUL-CSD-002", Absent, Absent, FALSE)
    [] f.kind = "BMSMapset" -> Entity_(MapsetId(f.from), "RUL-CSD-003", Absent, Absent, FALSE)
    [] f.kind = "LogicalFile" -> Entity_(CsdFileId(f.from), "RUL-CSD-004", Absent, Absent, FALSE)
    [] f.kind = "Dataset" -> Entity_(DatasetId(f.from), "RUL-CSD-004", Absent, Absent, FALSE)
    [] OTHER -> [kind |-> "csd", file |-> f.from, dataset |-> DatasetId(f.to)]

\* What block b says, the resource before what it is tied to
FactsOf(b) ==
  LET Tied  == {"IS_TRANSACTION_FOR", "csd_file_to_dataset"}
      facts == {f \in cout : f.start = cblocks[b].s}
  IN  SetToSeq({f \in facts : f.kind \notin Tied}) \o SetToSeq({f \in facts : f.kind \in Tied})

CsdHanded ==
  FlattenSeq([b \in 1..Len(cblocks) |-> [k \in 1..Len(FactsOf(b)) |-> OfFact(FactsOf(b)[k])]])

Handed == IF corpus[file].kind = "csd" THEN CsdHanded ELSE JclHanded
-----------------------------------------------------------------------------
(* The run *)

CorpusInit ==
  /\ corpus \in Corpora /\ file = 1 /\ sink = <<>>
  /\ deck = JclDeck(corpus[1]) /\ at = 1 /\ count = 0 /\ out = <<>>
  /\ job = Absent /\ proc = Absent /\ step = Absent /\ pgm = Absent
  /\ cdeck = CsdLines(corpus[1]) /\ cphase = "split" /\ cat = 1 /\ cstart = 0
  /\ cblocks = <<>> /\ cout = {}
  /\ pc = "extract" /\ pos = 1
  /\ csd = [f \in CsdNames |-> Absent]
  /\ entities = [id \in GraphIds |-> NoEntity]
  /\ edges = {} /\ unresolved = <<>> /\ conflicts = {}
  /\ metrics = [id \in GraphIds |-> R!NoMetrics]

\* The extractor of the file's kind takes a step.
Extract ==
  /\ pc = "extract"
  /\ \/ ~IsCsd(corpus[file]) /\ Next /\ UNCHANGED csdVars
     \/ IsCsd(corpus[file]) /\ C!Next /\ UNCHANGED jclVars
  /\ UNCHANGED <<driver, sink, resolver>>

FileRead == pc = "extract" /\ IF IsCsd(corpus[file]) THEN C!Finished ELSE Finished

\* Mutant: one extractor reads all JCL files.
NextFile_SameExtractor ==
  /\ FileRead /\ file < Len(corpus)
  /\ sink' = sink \o Handed
  /\ file' = file + 1
  /\ deck' = JclDeck(corpus[file + 1]) /\ at' = 1 /\ out' = <<>>
  /\ cdeck' = CsdLines(corpus[file + 1]) /\ cphase' = "split" /\ cat' = 1 /\ cstart' = 0
  /\ cblocks' = <<>> /\ cout' = {}
  /\ UNCHANGED <<corpus, job, proc, step, pgm, count, resolver>>

\* An extractor is made anew for every file; the sink is the same.
NextFile ==
  /\ FileRead /\ file < Len(corpus)
  /\ sink' = sink \o Handed
  /\ file' = file + 1
  /\ deck' = JclDeck(corpus[file + 1]) /\ at' = 1 /\ count' = 0 /\ out' = <<>>
  /\ job' = Absent /\ proc' = Absent /\ step' = Absent /\ pgm' = Absent
  /\ cdeck' = CsdLines(corpus[file + 1]) /\ cphase' = "split" /\ cat' = 1 /\ cstart' = 0
  /\ cblocks' = <<>> /\ cout' = {}
  /\ UNCHANGED <<corpus, resolver>>

HandOver ==
  /\ FileRead /\ file = Len(corpus)
  /\ sink' = sink \o Handed
  /\ pc' = "index"
  /\ UNCHANGED <<driver, jclVars, csdVars, pos, csd, entities, edges, unresolved, conflicts, metrics>>

Resolve ==
  /\ pc # "extract"
  /\ R!Next
  /\ UNCHANGED <<driver, jclVars, csdVars>>

CorpusNext == Extract \/ NextFile \/ HandOver \/ Resolve

CorpusSpec == CorpusInit /\ [][CorpusNext]_<<driver, sink, jclVars, csdVars, resolver>>

-----------------------------------------------------------------------------
(* What the files say *)

D(d) == INSTANCE JclStatements WITH deck <- d

\* The EXEC statements of the corpus, by file and line
Execs ==
  UNION {{<<f, l>> : l \in {k \in 1..Len(corpus[f].lines) : corpus[f].lines[k].shape = "exec"}} :
           f \in {g \in 1..Len(corpus) : ~IsCsd(corpus[g])}}

StepOf(x) ==
  StepId(D(corpus[x[1]])!ScopeAt(x[2]), corpus[x[1]].lines[x[2]].name)

InvocationBy(x) ==
  InvocationId(D(corpus[x[1]])!ScopeAt(x[2]), corpus[x[1]].lines[x[2]].name)

InBodyOf(x, p) ==
  D(corpus[x[1]])!ProcsBefore(x[2]) # {} /\ D(corpus[x[1]])!ScopeAt(x[2]) = p

Callee(x) == D(corpus[x[1]])!CalleeOf(x[2])

DefinedPrograms ==
  UNION {{ProgramId(corpus[f].lines[l].name) :
            l \in {k \in 1..Len(corpus[f].lines) : corpus[f].lines[k].head = "PROGRAM"}} :
           f \in {g \in 1..Len(corpus) : IsCsd(corpus[g])}}

\* No two statements call different procedures under one id, or give one id to a
\* step of a procedure and to another step.
IdsAreDistinct ==
  \A x, y \in Execs :
    /\ InvocationBy(x) = InvocationBy(y) => Absent \in {Callee(x), Callee(y)} \/ Callee(x) = Callee(y)
    /\ StepOf(x) = StepOf(y) => \A p \in Names : InBodyOf(x, p) <=> InBodyOf(y, p)

-----------------------------------------------------------------------------
(* Properties *)

\* What the extractors hand over keeps the contract the resolver relies on and its
\* theorems assume (module Resolver, ExtractorContract), whatever the files say: the
\* data set of every binding is declared, and every id has the prefix of its type.
SinkKeepsContract == sink \in Seq(R!Obs) /\ R!ExtractorContract(sink)

HandOverKeepsContract == pc = "index" => SinkKeepsContract

\* A step is in the graph because an EXEC declares it, or it is a reported
\* placeholder: an override DD names a step of another file by an id of its own job
\* (jcl.py:404), and that step is never taken for one of the job.
StepsAreDeclaredOrReported ==
  /\ \A x \in Execs : StepOf(x) \in R!Known
  /\ \A id \in {i \in R!Known : TypeOfId[i] = "JCLStep"} :
       IF id \in {StepOf(x) : x \in Execs} THEN ~R!IsPartial(id)
       ELSE R!IsPartial(id) /\ id \in R!Reported

\* The calls of procedures, and the steps they lead to
Calls ==
  {<<InvocationBy(c[1]), StepOf(c[2])>> :
     c \in {x \in Execs \X Execs : Callee(x[1]) # Absent /\ InBodyOf(x[2], Callee(x[1]))}}

Expanded == {<<e.from, e.to>> : e \in {x \in edges : x.type = "EXPANDS_TO"}}

\* RUL-JCL-PROC-004: the invocations expand to the steps of the procedures they
\* call, wherever in the corpus those are written, and to nothing else.
ExpansionsAreTheCalls == IdsAreDistinct => Expanded = Calls

\* Without source bodies every program is partial; it is reported, and under the
\* reason that fits: whether a file that comes earlier or later defines it.
ProgramsHaveTheirReason ==
  \A id \in {i \in R!Known : TypeOfId[i] = "Program"} :
    {n \in 1..Len(unresolved) : unresolved[n].id = id} # {}
    /\ \A n \in 1..Len(unresolved) : unresolved[n].id = id =>
         (unresolved[n].reason = "csd_only_no_source_body" <=> id \in DefinedPrograms)

\* End to end, in any order of the files: the graph says of the steps, the calls of
\* procedures and the programs what the files say.
GraphFollowsTheFiles ==
  pc = "done" =>
    StepsAreDeclaredOrReported /\ ExpansionsAreTheCalls /\ ProgramsHaveTheirReason

\* RUL-CSD-001 to 004, for the CSD files among them: the blocks tile the file, one
\* definition each, and what is observed is what the definitions say.
CsdInv == C!CsdInv /\ C!ObservedIsDefined

\* The extractors stand in the file the loop stands at, and the resolver has not begun.
LoopStands ==
  /\ file \in 1..Len(corpus)
  /\ deck = JclDeck(corpus[file]) /\ cdeck = CsdLines(corpus[file])
  /\ pc = "extract" =>
       /\ pos = 1 /\ edges = {} /\ unresolved = <<>> /\ conflicts = {}
       /\ csd = [f \in CsdNames |-> Absent]
       /\ entities = [id \in GraphIds |-> NoEntity]
       /\ metrics = [id \in GraphIds |-> R!NoMetrics]

\* What an EXEC makes of a step and of a call, and a DEFINE PROGRAM of a program
Declarations == {o \in Range(sink) : o.kind = "entity"}

OwnerOf(x) ==
  LET scope == D(corpus[x[1]])!ScopeAt(x[2])
  IN  IF D(corpus[x[1]])!ProcsBefore(x[2]) # {} THEN ProcId(scope) ELSE JobId(scope)

IsTrue(o) ==
  /\ o.id[1] = "jcl-step" =>
       \E x \in Execs : o.id = StepOf(x) /\ o.owner = OwnerOf(x) /\ ~o.partial
  /\ o.id[1] = "jcl-proc-inv" =>
       \E x \in Execs : /\ o.id = InvocationBy(x)
                       /\ Callee(x) \in Names /\ o.invoked = ProcId(Callee(x))
  /\ o.id[1] = "program" => o.rule = "RUL-CSD-002" /\ o.id \in DefinedPrograms

\* Each of them in file f is among the ids.
IsTold(f, ids) ==
  /\ \A x \in Execs : x[1] = f =>
       StepOf(x) \in ids /\ (Callee(x) # Absent => InvocationBy(x) \in ids)
  /\ IsCsd(corpus[f]) =>
       \A l \in 1..Len(corpus[f].lines) :
         corpus[f].lines[l].head = "PROGRAM" => ProgramId(corpus[f].lines[l].name) \in ids

FilesRead == IF pc = "extract" THEN 1..(file - 1) ELSE 1..Len(corpus)

\* What the sink has of steps, calls and programs is what the files say: no more than
\* they all say, and all that those read so far do.
SinkFollowsTheFiles ==
  /\ \A o \in Declarations : IsTrue(o)
  /\ \A f \in FilesRead : IsTold(f, {o.id : o \in Declarations})

\* The inductive invariant: each extractor's own, and a sink that follows the files and
\* keeps the contract after every file, not only after the last.
CorpusInv ==
  LoopStands /\ JclInv /\ C!CsdInv /\ SinkKeepsContract /\ SinkFollowsTheFiles

\* Every id the files can give rise to
FileIds ==
  Ids \cup {TransactionId(n) : n \in CsdNames} \cup {MapsetId(n) : n \in CsdNames}
  \cup {CsdFileId(n) : n \in CsdNames} \cup {ProgramId(n) : n \in CsdNames}

-----------------------------------------------------------------------------
(* What the documentation says and the code does not do *)

\* RUL-JCL-PROC-004, without the premise of ExpansionsAreTheCalls: two steps of one
\* job may have the same name, and then the call of the second is lost with its id.
EveryCallExpands == pc = "done" => Calls \subseteq Expanded
=============================================================================
