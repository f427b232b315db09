# Verification of carddemo-graph

carddemo-graph reads a COBOL/CICS/JCL application and turns it into a knowledge
graph. This directory holds a TLA+ model of the program, the TLC configurations
that check it on small instances, and theorems about its core that TLAPS checks
for every instance. The source paths below are relative to
`src/carddemo_graph/` in the repository.

Contents: [the system](#the-system), [hard behaviours](#what-is-hard-here),
[modules](#modules), [runs](#runs), [where code and documents
part](#where-the-code-and-its-documents-part), [proofs](#proofs), [what is left
out](#what-is-left-out), [plan](#plan).

## The system

A driver (`gate3.py` or `pilot.py`) enumerates the files of a corpus and calls
one extractor per file. Every extractor appends *observations* to one sink:
entity candidates, edge candidates, properties, unresolved references, each with
its file and lines. Pass 3 (`resolve/pass3.py`) reads the whole sequence and
builds the entities, the edges, the report of what is unresolved and the ledger
of conflicts. The artifacts are written as JSON, validated, and loaded into a
graph database that is then queried.

```
 files --> extractors --observations--> Resolver --> artifacts --> validators
            |  COBOL: tree, or patterns                  |
            |  JCL, CSD, BMS                              +--> graph database --> Q1..Q5
            +-- one sink, in order                             (Kuzu, rebuilt each run)
```

Nothing runs in parallel. The parts interact by calls, by the shared sink, and
by files that one run leaves for the next.

| Component | State it keeps | Operations | What makes it correct |
|---|---|---|---|
| Resolver, `resolve/pass3.py` | entities by id, edges, unresolved report, conflict ledger, CSD file bindings, metrics | the steps of `Resolver.run`, in order, each a loop over the observations | both ends of an edge exist; a reference is never dropped; a declaration beats a reference, in any order; every hole is reported once; a dynamic target is never promoted; scores describe the final graph |
| JCL extractor, `extract/jcl.py` | current job, procedure, step, program of the step, step count | JOB, JCLLIB, PROC, EXEC, DD, override DD, continuation | a DD is charged to its own step; SYSIN to its own program; no statement is lost between lines |
| COBOL on patterns, `extract/cobol.py` | program name, constants, current file and record, record-to-file map | two passes before the walk, then FD, SD, 01, COPY, SELECT, CALL, batch I/O, EXEC CICS | the facts are those of the statements by their place in the source |
| COBOL on the parse tree, `extract/parsers/cobol/map_program.py` | the same, but each rule has a loop of its own | resolve all provenance, then one rule after the other | the same facts as on patterns (facts parity) |
| COBOL adapter, `extract/parsers/cobol/adapter.py` | which reader reads | tree, fallback to patterns, failure | a refused program leaves nothing behind; no double emission |
| Statement provenance, `normalize.py`, `program_provenance.py` | the alignment of folded lines, the queues of untaken lines | align, take, look into copybooks, refuse | a statement is traced to the line it was written on, or the program is refused |
| Record layouts, `cobol.py` and `map_dataitem.py` | stack of open groups, FILLER count | one entry after the other | containment follows the level numbers |
| CSD reader, `extract/csd.py` | open block, blocks | split into DEFINE blocks, then TRANSACTION, PROGRAM, MAPSET, FILE | no operand crosses from one definition to another |
| BMS reader, `extract/bms.py` | current mapset and map, filler count | fold continued lines, then the three macros | each declaration stands under its own mapset and map |
| Drivers, `gate3.py`, `pilot.py`, `registry.py` | artifacts on disk, database and its log, exit status | extract, resolve, write, validate, rebuild the database, query, exit | a completed run owns all it leaves; a bad file harms only itself; the status tells faults |
| Loader and queries, `pilot.py`, `queries/` | nodes and relationships | create nodes, create edges, Q1 to Q4 | no edge is lost in silence; what a transaction reaches is the closure; the four answers fit together |
| Gold comparison, `gold_match.py` | the verdict of each section, the exit status | compare one section after the other | it passes exactly when every expected answer, in the parts that are read and counted, is that of the graph |
| Validators, `validation/structural.py`, `semantic.py` | none | checks of the artifacts | their verdict is a fact about the sources, and no check fails for another reason |
| SQL types, `cobol.py` | none | picture and usage to a column type | the type takes every value of the picture |
| Seam to MAPA, `parsers/cobol/parse.py` | temporary files | check the build, expand, dump the tree | each error leads to the second reading or out of the file, as the adapter says |
| Analysis scripts, Q5 | none | documents, a single join | not modelled |
| MAPA (vendored Java), Kuzu | external | parsing, storing | modelled as far as `src/` depends on them |

## What is hard here

The program is sequential, so the hazards are not races. They are *memory that
outlives its context* (the current step, file, record, map), *order* (a
reference observed before its declaration; four steps that write one report;
first or last of two definitions), *boundaries* (where a continued statement, a
block, a copied line ends), *two readers that must agree*, *partial failure* (a
reader that raises halfway; a refusal after some output; an insert the database
refuses) and *a run that is stopped* between two writes and started again.
`PROJECT.json` lists each at its line, with the properties that would catch it.

## Modules

Each module has one action per operation of the code, with the code's names
where TLA+ allows it. `map` in `PROJECT.json` gives the lines of each definition.
Definitions whose comment starts with "Mutant:" are wrong variants of the
definition after them. They are no part of any specification; they show that a
property notices the mistake.

| Module | Models | State and actions |
|---|---|---|
| `Resolver` | `pass3.py` | `pc` is the method of `run` under way and `at` the observation its loop stands at. `IndexBinding`, `Merge`, `MarkCsdOnly`, `MaterializeOnline`, `ResolveEdge` are one iteration of the five loops; `Skip` and `EndOfLoop` are the rest of each loop; then come the expansion, the metrics and the collection of partial entities. Ids are abstract; `TypeOf` is what the prefix of an id says. `ExtractorContract` is what the extractors guarantee of the sequence. |
| `Validation` | `validation/structural.py`, `semantic.py` | The checks as operators over the variables of `Resolver` at the end of its run; no state of its own. |
| `Skeleton` | abstract | What pass 3 promises: a store of nodes and links that stays closed under its links, in which an undeclared node is a hole and that is final only when all holes are listed. `Resolver!Graph` is the refinement mapping. |
| `JclStatements` | `extract/jcl.py` | A deck is a sequence of lines, each a record of what the patterns find in it. Which lines a statement takes up (`EndOf` is `_logical_statement`), its operands, and what a line stands in. |
| `Jcl` | `extract/jcl.py` | One action per kind of statement. |
| `CobolSource` | helpers of both COBOL readers | Lines, sections, windows of COPY and EXEC CICS, the constants of WORKING-STORAGE, and what a statement emits. |
| `Cobol` | `extract/cobol.py` | The pass over the lines. |
| `CobolTree` | `parse.py`, `map_program.py` | `stage` is the step of the seam or the rule that emits. `EnsureBuilt`, `CallTree` and `ParseTempTree` call MAPA and may each fail in their own way (`failure`); `Preresolve` traces all statements before the first emission. |
| `CobolAdapter` | `adapter.py` | Composes `CobolTree` and `Cobol` by `INSTANCE`, on one file and one sink. |
| `CobolFacts` | abstract | The observations of a program by the place of its statements alone, in any order of emission. `CobolAdapter`, which runs both readers, implements it. |
| `Provenance` | `normalize.py`, `program_provenance.py` | `fold_align`, then the tracing of each statement. What MAPA does to the text is chosen in `Init`: it may drop any line and join any two. |
| `DataItems` | `cobol.py`, `map_dataitem.py` | The walk of a copybook's data descriptions by either reader. |
| `SqlTypes` | `cobol.py` | `_suggested_sql_type` on a picture, which is a sequence of runs of one symbol, beside the values a picture and a column type can hold. |
| `Csd`, `Bms` | `extract/csd.py`, `extract/bms.py` | First the grouping of lines, then the handlers. |
| `Corpus` | `pilot.py`, `gate3.py`, `registry.py` | The loop over the files, an extractor for each, one sink, then the resolver. Composes `Jcl`, `Csd` and `Resolver` by `EXTENDS` and `INSTANCE`. |
| `Pipeline` | `gate3.py`, `pilot.py`, `registry.py` | The steps of a driver, a stop at any of them, several runs one after the other; a listing is the files a run finds, in the order of the enumeration. |
| `Queries` | `pilot.py`, `q1.cypher` to `q4.cypher` | The loader, with the table and the columns of each row, and the four sample queries. |
| `GoldMatch` | `gold_match.py` | The comparison of a gold set, section by section, with what `Queries` finds. A section is the parts it has, those that no parser reads among them. |
| `MC...` | | The inputs TLC enumerates. |
| `ResolverProofs`, `CobolProofs`, `BmsProofs`, `DataItemsProofs`, `ProvenanceProofs`, `PipelineProofs`, `CorpusProofs`, `QueriesProofs` | | Theorems and their proofs. `ResolverProofs` has those about `Validation` too, `QueriesProofs` those about `GoldMatch`, `CorpusProofs` those about `Jcl` and `Csd`; it instantiates `ResolverProofs`. |

How they fit together: the extractors promise `ExtractorContract`, which
`Resolver` assumes and which `CorpusProofs` proves of the JCL and CSD readers
(`HandOverKeepsContract`), so that the resolver's theorems hold of their files; `Resolver` proves that no edge dangles, which
`Queries` assumes of its catalogue; `Validation` reads the variables of
`Resolver`, `GoldMatch` those of `Queries`; `Pipeline` runs all of them as single
steps.

## Runs

`tlc -config X.cfg M` in this directory repeats a run. Every passing run visits
every action of its specification. `mutants` in `PROJECT.json` names, for every
property of every passing run, a wrong variant of a definition with which TLC
finds the property violated.

| Run | Asks | Inputs and bounds |
|---|---|---|
| `resolver` | Does pass 3 keep its promises, in whatever order the extractors emitted, and do the validators judge what it wrote by the sources? | Selections of eight or nine blocks (a block is what one statement emits) in pipeline and in reverse order, in five families: references and dynamic calls; online files and their CSD definitions; jobs, PROCs and DDs; batch and online coupling; transactions with and without a program. |
| `corpus` | Are DDs, SYSIN, steps and operands charged where they belong, and does the graph of several files say what the files say? | Alone: every job file and procedure file of up to four lines over six or seven kinds of line and of up to three over ten or twelve, decks of up to six for continuations, overrides, two procedures and in-stream PROCs, and files of resource definitions of up to five lines. Together: jobs with one or two procedure files or definitions, in two or more orders of the files, a job and a procedure of six lines in all. |
| `cobol` | Do the tree, the patterns and the fallback give the same facts? | Every FILE SECTION of up to four units with a COPY and a write after it; two constants and two statements in every combination; any three units in any order, in a program or a copybook. |
| `provenance` | Is a statement traced to its line, or the program refused? | Programs of up to three lines with blank lines, COPY statements and lines with no, one or two statements, two copybooks, and every text with lines dropped or two joined. |
| `dataitems` | Does containment follow the level numbers, and does a suggested type take the values of its picture? | Every copybook of up to four entries, and one item of some hundred pictures (lengths 1, 2, 8 to 11, 18, 19 and 59, signs, decimals, edited pictures) and four usages, either reader. |
| `bms` | Does every declaration have its place? | Every file of up to five one-line statements, and of six lines with continuation marks. |
| `pipeline` | Does a second run repair what the first left? | Three files, two observations each, two runs, either driver, a stop anywhere. |
| `queries` | Is an answer the closure, is no edge lost in silence, do the four answers fit together, and does the gold match pass exactly when it should? | Three programs with every choice of up to three of eleven calls; chains of seven programs and of eight; nine programs of which the entry reaches one; one online program with its copybook, file and screens; a screen of fifty labels; gold sets of one or two sections, right, wrong in one answer, with parts that are not read, or badly formed. Any insert may be refused. |
| `resolver_csd_conflict`, `cobol_layout`, `provenance_wrong`, `dataitems_letters` | Four sentences of the documents that the code does not keep. | Small inputs; TLC gives the counterexample. |

Why the bounds are enough. The state that the extractors carry from line to line
is a handful of "last seen" values. A mistake shows when two values of one kind
follow each other with a use after each, at most, which is four lines; the
longer prefixes set up the context that takes more. In the resolver a mistake
takes a reference, a declaration and a third observation that interferes with
one of them, for one id or for two that share a name; each family has two of
each kind, and the proofs cover the rest for every input. Four FILE SECTION
units hold two files with a record each. In `corpus` three files are a job, the
procedure it calls and a second procedure or the definitions of its programs:
what the resolver joins is always two files, and the third is the one that could
interfere. The lengths in `dataitems` are the two sides of each limit in the
code (nine and eighteen digits) and a length that is written with a nine. In `pipeline` the second run is the one
that meets what the first left; a third meets nothing else, because a run
replaces all that it completes. In `queries` seven programs in a chain are the
longest for which six hops suffice. `ReachableIsTheClosure` asks for completeness
where some set of at most seven programs has the entry and all it calls, however
many programs the graph has besides: a longer chain is cut, as the code's `*1..6`
says. In the graph of `artifacts/gate3` no transaction reaches more than two
programs beside its entry.

What the properties say, by hazard:

- *Order of observations*: `NothingDropped`, `ObservedOutranksReferenced`,
  `OnlineFilesBound`, `ExpansionComplete`, `SkeletonOnlyGrows` and the refinement
  `RefinesSkeleton`.
- *Several files*: `HandOverKeepsContract` (what reaches the resolver is what its
  theorems assume), `GraphFollowsTheFiles` (steps, expansions and the reasons of
  partial programs are a function of the files, whatever their order).
- *Several writers of one report*: `PartialsReportedOnce`,
  `MixedExpansionInLedger`.
- *Derived values against the final graph*: `CouplingMatchesPaths` compares the
  code's indices and loops with paths in the graph, an empty population and a
  population of one included. `VerdictFollowsFromSources`: what the validators
  say of the artifacts is what can be read off the observations.
- *Memory that outlives its context*: `DdsFollowTheirStep`,
  `SysinNamesTheProgram`, `CobolInv` (its part `ContextMatches`),
  `DeclarationsHaveTheirPlace`, `HierarchyFollowsLevels`. Each compares what the
  walk remembered with a definition by the place of the line alone.
- *Boundaries*: `EveryStatementObserved`, `CsdInv` (blocks tile the file, and
  what is observed is what they define), `BmsInv` (statements tile the file).
  `TypesHoldTheirValues` compares the values a column type can hold with those
  of the picture, on both sides of the limits.
- *Two readers*: `KeepsThePromise`: the composition implements `CobolFacts`.
  `RefusalLeavesNothing` and `EndsReadOrEmpty` are about the fallback: which
  errors lead to it, and that the others leave nothing behind.
- *Provenance*: `ProvenanceInv` (an alignment is the true one or refused,
  whatever was dropped or joined), `OriginsMatch`, `OriginsAreTrue`.
- *Stopped runs and partial failure*: `RerunRepairs`, `PipelineInv`,
  `FailureStaysInItsFile`, `ExitTellsFaults`, `QueriesInv`.
- *Answers*: `ReachableIsTheClosure`, `AnswersAgree` (four queries written apart
  about one graph), `GoldVerdict` (the comparison neither passes an answer that
  is wrong nor fails one that is right, in the parts it reads and counts; also on a
  database left half built).

`CHECK_DEADLOCK FALSE` is in every configuration because every one of these
machines ends: a file is read to its end, a run is finished, a bound is reached.

Fairness is weak fairness of the whole `Next`, in `Resolver` (`Spec`) and in
`CobolAdapter` (`FairSpec`), whose `EndsReadOrEmpty` is a liveness property. It
says only that a sequential function that can take its next step takes it, which
holds of a running Python process. The one place where the code waits is the
subprocess of the parser (`parse.py:90`, `150`, `176`, without a timeout): that
it returns is an assumption, made in the steps `CallTree` and `ParseTempTree` of
`CobolTree`. The other specifications are checked for safety only: their
termination is a loop counter. `Pipeline` has no fairness because a run may be
killed.

## Where the code and its documents part

Four disagreements have a run of their own (`findings` in `PROJECT.json`):

- `resolver_csd_conflict`: two DEFINE FILE entries for one name that disagree
  leave no conflict entry, the later wins (`pass3.py:170`; `pass3.py:15`,
  `artifacts/deterministic_rules.md:151`).
- `cobol_layout`: the current file and record are not reset when the FILE SECTION
  ends, so a COPY in WORKING-STORAGE or in the PROCEDURE DIVISION defines the
  layout of the last file (`cobol.py:560`, `map_program.py:661`; RUL-NEG-006,
  `deterministic_rules.md:166`).
- `provenance_wrong`: a copybook's statement that the program has too takes the
  program's line (`program_provenance.py:108`; lines 24-25 of the same file).
- `dataitems_letters`: a factor that holds the digit nine counts as a digit
  position, so `PIC X(09)` is suggested NUMERIC(1) (`cobol.py:193`;
  `deterministic_rules.md:46`).

The following are stated as definitions at the end of their module and refuted
by TLC in the same way; no run is kept for them. To see one, take the
configuration named, remove its properties, add the line `INVARIANT` with the
definition and, where given, substitute the constant.

| Definition | Configuration | What a document says, and what happens |
|---|---|---|
| `FanOutAsDocumented` | `resolver.cfg` | RUL-DERIV-003 lists the edge types of fan-out; the code counts every outgoing edge. |
| `BatchFilesBound` | `resolver.cfg` | RUL-RES-001 (`pass3.py:10`): no BINDS_TO is ever made for a batch file. |
| `ExpansionComplete` | `resolver.cfg`, `Inputs <- SharedNameInputs` | RUL-JCL-PROC-004: a JOB named like a PROC, with a step name in common, takes over the step. |
| `EveryCallExpands` | `corpus.cfg` | RUL-JCL-PROC-004: of two steps of one job with one name, each calling a procedure, one call is lost with the id they share. |
| `PlaceholdersFailNoCheck` | `resolver.cfg` | `semantic.py:77-80` leaves placeholders of maps aside; a transaction that only a RETURN TRANSID names fails the gate. |
| `OverridesReachTheProcBody` | `corpus.cfg` | RUL-JCL-PROC-004: an override DD is charged to a step of the job, not of the PROC. |
| `EveryDatasetUsed` | `corpus.cfg` | RUL-JCL-007: the second data set of a concatenation gets no edge unless the first DD ends with a comma. |
| `PositionalInvocations` | `corpus.cfg` | RUL-JCL-003: `EXEC name` continued on a second line is no invocation. |
| `ProcsDeclared` | `corpus.cfg` | RUL-JCL-PROC-001, "inline PROCs anywhere": only procedure files, and only the first PROC. |
| `LiteralFilesStand` | `cobol_layout.cfg` | `cobol.py:988`: a quoted operand that is also a constant's name is replaced by its value. |
| `OneItemPerEntry` | `dataitems.cfg`, `Copybooks <- NamedLayouts` | `kuzu_schema.cypher:185`, one DataItem per entry: equal names in two groups share an id. |
| `UnnamedIsFiller` | `dataitems.cfg`, `Copybooks <- UnnamedLayouts` | `map_dataitem.py:64`: the patterns name an unnamed entry after its first clause. |
| `TypeFollowsTheClauses` | `dataitems.cfg` | One usage clause, one type: a usage word in the name of an item is a usage for the patterns. |
| `CsdInv` | `corpus.cfg`, `Corpora <- UnlistedCorpora` | `csd.py:6`: a DEFINE of a type that is not listed (`csd.py:22`) does not end the block before it. |
| `PartialIsFlagged` | `pipeline.cfg` | `gate3.py:121`: a file read in part keeps `parse_status` "ok" (`sources.py:89`). |
| `UnknownParserRefused` | `pipeline.cfg` | `registry.py:48-49`: the error is caught file by file (`gate3.py:116`), and the run ends with status 0. |
| `UnresolvedOfTheClosure`, `MapsOfTheClosure` | `queries.cfg`, `Catalogs <- HandOver` | `pilot.py:532-533`, `566-568`: both are asked of the entry program only. |
| `SurfaceIsComplete` | `queries.cfg`, `Catalogs <- WideCatalogs` | `pilot.py:588` takes at most fifty labels of a surface; `queries/q4.cypher` all. |
| `GoldVerdictAnySurface` | `queries.cfg`, `Catalogs <- WideCatalogs` | `gold_match.py:24`: so the count of visible labels stops at fifty. |
| `GoldVerdictAnyForm` | `queries.cfg` | `gold_match.py:99`: a part whose heading is not recognised counts as empty, and of two sections with one number not every one decides. |
| `GoldVerdictAllParts` | `queries.cfg` | `gold_match.py:12`, "faithful to each gold entry's asserted answer": of a Q1 section only the includers are read and compared (`gold_match.py:132`, `315-318`, as the list in the header says), so the transactions, maps, jobs and related files that `gold_set.md:60-93` asserts may say anything; nor are the cycles of Q3 and Q4 read. Stated for the transactions. |
| `UnresolvedHaveTheirTable` | `queries.cfg`, `Catalogs <- HandOver` | `pass3.py:498-499`: the loader creates unresolved targets as Programs (`pilot.py:234`). |

## Proofs

`tlapm M.tla` in this directory repeats the proofs of module `M`. They hold for
every set of ids and names and every input that meets the assumptions.

| Theorem | States |
|---|---|
| **Resolver**, `ResolverProofs` | |
| `TypeCorrect` | every variable but `metrics` keeps its shape (`TypeOK`) |
| `InvariantHolds` | `GraphInv`, the part of the invariant about the graph, holds |
| `NoDanglingEdge` | both ends of every edge are entities, at every moment |
| `PartialsReported` | the unresolved report lists the partial entities once each, nothing else, and at the end all |
| `DynamicTargetsStayUnresolved` | RUL-NEG-001 |
| `DeclarationsOutrankReferences` | a declared id is merged from all its declarations, whatever came first |
| `OnlyGrows` | no step takes back what an earlier one put in |
| `Refinement` | `Resolver` implements `Skeleton` |
| `ResolverInvariantHolds` | `ResolverInv`, the whole inductive invariant |
| `ReferencesSurvive` | every reference is an edge between its own two ids; an undeclared end is reported or an online file |
| `OnlineFilesAreBound` | RUL-RES-002: the last DEFINE FILE decides, and nothing else binds an online file |
| `ExpansionsAreComplete` | a call expands to every step of its procedure, where `StepsHaveOneOwner` |
| `MixedExpansionsAreLogged` | RUL-RES-006 |
| `CouplingIsReachability` | RUL-DERIV-005, 008: the scores are those of the access paths of the final graph |
| **Validators**, `ResolverProofs` | |
| `VerdictsAreAboutTheSources` | which checks can fail, and exactly when |
| **JCL**, `CorpusProofs` | |
| `MemoryHolds` | the extractor remembers what the lines before it say |
| `DdsCharged` | every DD is charged to the step whose EXEC it follows in its own job or procedure |
| `InvariantHolds` | `JclInv`, the whole inductive invariant |
| `NothingIsLost` | every EXEC and every DD of a file has its observation |
| `SysinGoesToItsProgram` | SYSIN goes to the program of the last EXEC, or to none |
| **CSD**, `CorpusProofs` | |
| `BlocksHold` | `Csd!CsdInv`: the blocks tile the file |
| `DefinitionsObserved` | what is observed is what the file defines, where all types are listed |
| **COBOL**, `CobolProofs` | |
| `InvariantHolds` | `CobolInv`: types, and the file and record remembered at a line are those of the lines before it |
| `RefusalIsEmpty` | `RefusalLeavesNothing`: whichever step of the tree fails, the sink is empty |
| `Refinement` | `KeepsThePromise`: the tree, the patterns and the fallback implement `CobolFacts` |
| **BMS**, `BmsProofs` | |
| `InvariantHolds` | `BmsInv`: the statements tile the file, the context is that of the lines before |
| `DeclarationsPlaced` | each declaration under its own mapset and map |
| **Record layouts**, `DataItemsProofs` | |
| `InvariantHolds` | `DataItemsInv`: the stack is the chain of the open groups, and FILLERs are counted |
| `ContainersAreRight` | RUL-COBOL-021: each entry is observed under the nearest one before it of a lower level |
| `TypesAreRight` | `TypesHoldTheirValues`, for pictures of any length |
| **Provenance**, `ProvenanceProofs` | |
| `InvariantHolds` | `ProvenanceInv`: an alignment is the true one or the program is refused |
| `OriginsMatchHolds` | no line of the program is given to two statements, and origins have the content of theirs |
| `OriginsAreTrueHolds` | every statement is traced to its own line, where lines are not shared |
| **Drivers**, `PipelineProofs` | |
| `InvariantHolds` | `PipelineInv`, for any number of files, runs and stops |
| `RerunsRepair`, `ExitIsTrue`, `FailuresStay` | the three properties of the run `pipeline` |
| **Queries and gold match**, `QueriesProofs` | |
| `InvariantHolds` | `QueriesInv`: no edge is lost without a warning, and the answers are those of the finished database |
| `ClosureIsComplete` | RUL-Q3: six hops find only what the entry reaches, and all of it if that is seven programs or fewer |
| `AnswersFit` | the four answers about one program fit together, refused edges or not |
| `GoldOnlyReads` | the specification of the run, with the gold match, implements `Spec` |
| `VerdictIsRight` | the gold match passes exactly if every answer of the document is what the catalogue says |
| **Files to graph**, `CorpusProofs` | |
| `CorpusInvariant` | `CorpusInv`: after every file the extractors' invariants and the contract hold |
| `ContractHolds` | what the resolver is given keeps `ExtractorContract` |
| `GraphOfTheFiles` | the resolver's theorems hold of the graph of any files |
| `FilesOfJobs`, `FilesOfResources` | the extractors' theorems hold of every file of every corpus |
| `ResourcesAreDefined` | `CsdInv`, where all types are listed |
| `FilesToGraph` | end to end: steps, expansions and reasons in the graph are those of the files |

### The arguments

**Resolver, the graph.** "Both ends of an edge are entities" is not inductive.
`MaterializeOnline` adds an edge to the data set that the CSD hint names, so one
has to know that the data set is an entity *already*. Two facts give that: a hint
only names declared data sets (`HintsDeclared`, from `ExtractorContract`), and
once the merge loop is over every declared id is an entity (`MergeProgress`,
which says how far the loop has come). That an entity is reported once needs to
know how far the CSD-only sweep has come (`ReportProgress`) and why an entity is
partial (`OriginsSound`). `GraphInv` is the conjunction. Each conjunct has a lemma
`...Step` with one case per action; lemmas `...Effect` say what an action does to
each id, and the step lemmas cite only those. `Refinement` adds one lemma per
action that maps it to an action of `Skeleton` or to a stutter.

**Resolver, what a finished loop owes.** The properties of the end of the run
speak of observations long passed. `ResolverInv` adds, loop by loop, what the
loop owes to the observations behind it: the hint of a file is the last one
indexed; the properties of an entity are those of its first candidate that gives
them, and stay so; every PROC with candidates of two source files is in the
ledger; every edge is founded on an observation, a hint or an expansion, and every
reference passed is an edge; every online file has been bound; the expansions are
all there once made; the reason in a report is the CSD's exactly for what nothing but
the CSD declares; and the metrics, once derived, are those of the edges, which
no later step changes. Each conjunct has its lemma; each property is then a
consequence (`InvSurvive`, `InvBound`, `InvComplete`, `InvLogged`, `InvCoupling`).
The last compares the code's indices with paths in the graph (`AccessedIsReached`).

**Validators.** They read the finished artifacts, so their verdict follows from
`ResolverInv` alone: entities are the ids that some observation names
(`KnownAreTheNamed`), edges are cited (`EdgesAreCited`), scores are fractions
(`ScoresAreFractions`).

**JCL.** `DdsFollowTheirStep` speaks of the last EXEC *in the DD's own job*, but
the extractor remembers the last EXEC of the file. The invariant says that what it
remembers is what the lines before `at` say (`StateMatchesDeck`) and that every DD
was charged from that memory (`ChargesMatchDeck`). It is inductive because the
lines a continued statement swallows have no name, so none of them is a JOB, EXEC
or PROC (`StatementEnds`, `MemoryFollows`). That memory and meaning agree is then a
fact about last elements of sets of lines (`MemoryIsMeaning`, `ChargesAreRight`).
`ExecRemembered` and `StatementsObserved` do the same for the program, the number
of the step and the observations; `ReferencesFit` says that what an observation
refers to has the right prefix and is declared in the file, which the contract of
the resolver asks for.

**COBOL.** Three things are proved of two readers, and each rests on the one before.
*The sink*: what each stage of the tree may follow, and that nothing is observed
before `EmitProgramId`, after which no step fails (`ReadInv`); so the patterns start
from an empty sink. *The context*: a walk carries a current file and a current record
across lines, and jumps over those a COPY or an EXEC CICS takes. In a program that
compiles the lines jumped over mark nothing and describe nothing
(`ThroughStays`, `ContextStays`), so what the walk carries is what the lines before say
(`ContextInv`, for both walks). *What has been told*: the patterns have told the lines
before `at`, and the tree the lines of the rules it has done and, in its walk, the
copies before `treeAt` (`ToldInv`, with `StageInv` for where the walk stands). What is
observed of a line by either reader is what `CobolFacts` says of it (`LineTold` and
`SelectsTold` to `CicsTold`). For an I/O statement they know the records differently, the
tree from the whole source and the patterns from the lines so far. They agree because
no record follows a line of the PROCEDURE DIVISION (`ProcedureIsLast`). When a reader
ends, the lines told are all lines, which is the last step of the refinement; the steps
before it only add (`ReadingGrows`), and what the tree finds in a copybook is not the
program's own (`FoundOwn`).

**CSD and BMS.** Both readers first group the lines and then read the groups. The
invariant says that the groups closed so far tile the lines so far, with the open
one next to them, and that what is observed is what the groups read so far say;
the theorem about the end restates that without the groups, by the place of the
lines in the file.

**Record layouts.** `HierarchyFollowsLevels` speaks of the whole file: the container
of an entry is the *nearest before it* of a lower level. The reader only looks at its
stack. The invariant says that the stack holds exactly the entries that nothing since
has closed, by rank (`StackIsOpenChain`). The levels of these grow inwards
(`OpenLevels`), so those an entry leaves open are the outermost of them
(`LeftOpenIsOutermost`), what the loop pops is the rest (`OpenIsPrefix`), and what is
then on top is the nearest (`ParentFound`). An item is known by a name that counts
FILLERs, so the invariant must also say what the count is (`FillersCounted`).

**Suggested types.** The code counts the digits of a picture symbol by symbol, in the
part before the point and in the part after it; the values of a type are about places
of the picture as a whole. A count is the number of places of the runs it counts
(`CountIsSpots`), so counts of symbols that share no run add up (`SpotsAdd`), and a
part counted by itself has as many places as it has in the picture (`PartCounted`, by
the bijection that shifts them). A picture of digits has one on some side of the point
(`DigitHasPlace`), so it gets a type; which one is arithmetic on the two counts
(`TypeFits`). The statement is about the picture the reader sees. Of the one that is
written it would be false: the patterns stop before a `*` (`cobol.py:142`), read `$**9`
as `$`, and give the item no type.

**Provenance.** The walk knows only that a folded line equals the source line it is mapped
to, and a program may have the same line many times; that it is mapped to *its own* line
is a fact about the whole. The invariant (`Walked`) says that the map is increasing and
passes over no line that is not blank, and the folded text is a selection of the lines in
their order (`Drawn`). When the walk is complete, let some line be mapped behind its own;
take the first such. Its own line was not passed over, so some line is mapped to it, which
is an earlier one and is mapped behind its own too. That contradicts "first"; for a line
mapped before its own, take the last (`CompleteIsTrue`). Joined lines equal no line of
the program, so none is left. `OriginInv` adds of each origin the taken line it was
read from (`Backed`), hence `OriginsMatch`. For `OriginsAreTrue` it adds, where lines are not
shared, that the lines taken are exactly those of the statements passed (`Traced`). The
next statement then takes its own line (`TakesItsLine`): an earlier line with its text
starts a statement that comes before it (`NodeFacts`, from what `FlattenSeq` does), and is
taken; and its own line is not taken, as it starts one statement only. A statement of a
copybook is in that one place (`UnsharedFacts`).

**Drivers.** `PipelineInv` has a conjunct per resource: what each step finds of the
sink, the artifacts, the faults and the database is what the steps of the *same*
run before it left. A stopped run leaves anything; the invariant is inductive
because a new run starts each of these anew before it reads it.

**Queries.** `LostEdgesAreWarned` says that edges stored and edges warned of are the
edges passed, and that none is both; that takes "edges once" of `Delivered`.
`ReachableIsTheClosure` needs more than an invariant. `Reach(p, n)` is what walks of
up to `n` hops from `p` find, less the unresolved. It grows one hop at a time
(`ReachGrows`), and a hop that adds nothing ends the growth for good; so as long as it
grows, each hop has added at least one program (`Growth`). All of them are in any set that
has the entry and all it calls; if one such set has seven programs, the entry is one and
six hops find the rest (`SixHopsClose`). That nothing is found in
vain is `ReachIsNeeded`. `AnswersAgree` compares queries that read different tables,
and so rests on what a row keeps of its entity (`RowFacts`, `MapFacts`).

**Gold match.** `GoldInv` says that the comparison was made on the finished or failed
database, of which `KnownHeld` says that it holds what the catalogue says and was not
warned of. Then each kind of section is judged by itself (`IncludersJudged` to
`ItemsJudged`): its comparisons are all good exactly if the section is `Right`. What stands
beside the parts that are read does not matter (`PartFound`, `PartsFound`), and the dictionary
of items loses none of the layout (`NoItemLost`).

**Files to graph.** `CorpusInv` carries the invariant of the extractor of the file
under way and `SinkKeepsContract`, for the files before it. A file that is read
adds observations that keep the contract by themselves (`JclKept`, `CsdKept`), and
a sequence made of two that keep it keeps it (`KeptTogether`). When the sink is
handed over, the resolver is in an initial state of its own specification, with
the sink for its only input (`ResolverStarts`), and each of its steps is one of
`Resolver` (`SameResolution`). So `ResolverProofs` is instantiated, its
assumptions are discharged (`ResolverPremises`), and its theorems hold
(`GraphOfTheFiles`).

`FilesToGraph` joins the two ends. On the side of the files, `SinkFollowsTheFiles`
(part of `CorpusInv`) says after every file that each step, call and program in the
sink is one that some file states, with the owner and the callee it states
(`IsTrue`), and that none of the files read so far is missing (`IsTold`). One JCL
file keeps it because `StatementsObserved` and `ReferencesFit` tie each such
observation to its EXEC (`JclFollows`), one CSD file because facts and PROGRAM blocks
correspond (`CsdFollows`); the others read stay as they were (`SinkFollowsOn`). On the
side of the graph, `ResolverInv` says at the end of the run what of each id is left of
its candidates (`AtTheEnd`): all are entities, partial only as they say; owner and
callee are those of the first candidate that has them; an EXPANDS_TO edge is an
expansion and each expansion an edge; and a report gives the CSD-only reason exactly
to the programs nothing else declares (`ReasonsFit`). Where two EXEC statements share
an id the first wins, which is why the calls need `IdsAreDistinct`; that no expansion
is invented does not. The lemmas on `FlattenSeq` (`Flattened`) are proved here from
its definition, as its recursion is a recursive function.

### What they assume

- `ResolverAssumption`: ids have a type, and the inputs keep `ExtractorContract`.
  For JCL and CSD files the contract is itself a theorem (`ContractHolds`). For
  COBOL and BMS files it is read off the emitters: ids are made with the prefix of
  the entity type they are emitted with; a dynamic call is the only edge that
  targets `unresolved:` (`cobol.py:607`, `925`, `map_program.py:373`, `533`); online operations go to
  `logical-file:` ids and batch operations to no data set, so no edge leads from a
  program to a data set; no emitter names BINDS_TO or EXPANDS_TO, which only
  `pass3.py` makes; only `jcl.py` sets an owner that is a PROC and an invocation,
  and only `csd.py` gives hints.
- `CobolAssumption`: a file has a line at least; a name that stands for nothing is none;
  the windows are numbers (any); and a line that begins a statement has the operands
  its pattern asks for (`Line`), as a regular expression that matches has its groups.
- `WellFormed`, in `ContextMatches` and `CobolFacts`: a program that compiles, whose COPY
  and EXEC CICS statements end inside their window. Of any other source nothing is
  promised but that its observations are only added to. Types and the empty sink after
  a refusal are proved of every source.
- `NoEntityAssumption`, `JclAssumption`, `BmsAssumption`, `DataItemsAssumption`,
  `PipelineAssumption`, `CorpusAssumption`: the shapes of the inputs, that a
  statement that is named has its name, that the markers for "absent" are no names,
  and that an enumeration lists each file once. TLC evaluates all of them in the runs.
- `QueriesAssumption`: what pass 3 hands over (`Delivered`). Entities are a dictionary
  by id, and edges are kept once; both ends of an edge are entities (`NoDanglingEdge`),
  of the type that the prefix of the id says; no edge leaves an unresolved target
  (`DynamicTargetsStayUnresolved` and the emitters), and a transaction names its program
  literally (`csd.py:114`); `bms.py:148` gives a declared map its mapset, which the same
  file declares, and a placeholder of a map has no properties. Nothing is assumed of
  the database: it may refuse any node or edge.
- `GoldAssumption`: a gold set is a sequence of sections about ids, the items of a
  section are a dictionary, and its cycles, if any, are its last part.
- `WellFormed`, in `GoldVerdict`: each section has the parts that are read (`ReadParts`)
  once each, with the reachable programs before the unresolved reaches and the map
  interactions before the mapsets, and a number of its own; what other parts it has does
  not matter.
- `Decidable`, in `GoldVerdict`, section by section: for Q3 and Q4 at most one entry of
  the transaction, for Q3 a closure of at most seven programs, for Q4 at most fifty
  labels, for Q6 no two items of the layout, less those the document skips, that only
  their place tells apart. Nothing is asked of Q1, of Q2 or of the size of the graph.
  `gold/gold_set.md` is within both, with the graph of `artifacts/gate3`. Where they fail
  the comparison cannot tell: `GoldVerdictAnyForm` and `GoldVerdictAnySurface` are refuted.
- `ProvenanceAssumption`: the shapes of the inputs; that a joined line is no line of the
  source; that a COPY line starts no statement; that no copybook is called `program`.
- `Unshared`, in `OriginsAreTrue`: no line starts two statements, and no copybook repeats a
  statement of the program, of another copybook or of its own. Without it the statement is
  false: `NoWrongOrigin` fails (run `provenance_wrong`).
- `PlainlyWritten`, inside `TypesHoldTheirValues`: no usage word in the name, no factor
  that holds a nine or is zero. Without it the statement is false: `LettersAreChar` (run
  `dataitems_letters`) and `TypeFollowsTheClauses` fail.
- `FileIds \subseteq GraphIds`, in `CorpusProofs`: `GraphIds` stands for all
  canonical ids, and has at least those the files can give rise to. The run `corpus`
  keeps only the ids its files do give rise to, to keep its states small.
- `StepsHaveOneOwner`, in `ExpansionsAreComplete` and `GraphOfTheFiles`: no step is
  observed with two owners. Without it the statement is false: `ExpansionComplete`
  fails on `SharedNameInputs`.
- `IdsAreDistinct`, inside `GraphFollowsTheFiles`, for the half of it that says that
  every call expands. Without it that half is false: `EveryCallExpands` fails on the
  corpora of the run.
- `OnlyListed`, in `DefinitionsObserved`, `FilesOfResources` and, of all CSD files,
  `ResourcesAreDefined`: no definition of a type that `csd.py:22` does not list.
  Without it the statement is false: `ObservedIsDefined`, part of `Corpus!CsdInv`,
  fails on `UnlistedCorpora`. The run `corpus` keeps to listed files too.

### Only model-checked

- `EndsReadOrEmpty`: liveness is out of the prover's reach.

## What is left out

- Text: names, snippets, rule ids where nothing reads them, confidences,
  wording of reports. A line is a record of what the patterns find in it; the
  regular expressions are not modelled character by character.
- COBOL: a line holds one statement, and lines without code are left out.
  `selects` and `fd_to_records` are written by the code and never read. A
  copybook expanded in the tree is one flat text (`Bodies`). The tree finds the
  SELECTs, calls, batch I/O and EXEC CICS of copybooks too, which the patterns do
  not; the model observes them so, and `CobolFacts` promises nothing of them but
  that they are not the program's own. Observations are
  kept as a set; that none is made twice is `RefusalLeavesNothing`. OCCURS and
  REDEFINES of a data item are not read by anything else.
- MAPA is external: it finds the statements of a program that compiles, or fails.
  `parse_temp_tree` does not look at its count of syntax errors, although
  `parse.py:66` calls a refusal "the strict default, for programs": of a program
  its grammar does not cover, the tree may lack statements, and no property
  speaks of such a tree.
- Provenance: the check that MAPA strips columns 73 to 80 line by line is taken
  to pass.
- CSD and BMS: comment lines. The corpus the extractors see has none.
- Pipeline: source hashes, language detection, path rewriting, the checks
  behind `faults` (they are `Validation`). "crashed" is an exception that ends Python as well as a
  killed process. Kuzu is external: opening a database replays a log that is
  left beside it, and a directory that could not be removed is still there.
- Queries: primary keys never collide, and no edge lacks an end, by what
  `Resolver` guarantees; the branches for these cases cannot be reached.
- Validation: checks of what the resolver's model abstracts (labels, dataset
  organizations, rule ids, confidences, the JSON shape of records) and
  `validate_enrichments`: the resolver writes that file empty (`pass3.py:719`).
- The analysis scripts and Q5: documents, and a single join that no code runs.

## Plan

Done, in this order, the most important behaviour first: `Resolver` with
`Skeleton` and its proofs; `Jcl` and its proofs; `CobolSource`, `Cobol`,
`CobolTree`, `CobolFacts` and their composition in `CobolAdapter`; `Provenance`;
`DataItems`; `Csd`; `Bms`; `Pipeline`; `Queries`; then `SqlTypes`, `GoldMatch`,
`Validation`, and `Corpus`, which composes readers and resolver and discharges the
contract between them; the seam to MAPA in `CobolTree`.

To extend:

1. COBOL and BMS files in `Corpus`, so that the contract is checked of every
   reader, and programs with a source body meet their definitions.
2. Comment lines in CSD and BMS; several statements on one COBOL line.

To prove: the same of COBOL and BMS files, once `Corpus` reads them.
