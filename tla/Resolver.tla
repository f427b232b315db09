------------------------------ MODULE Resolver ------------------------------
(***************************************************************************)
(* Pass 3 of the extraction pipeline (resolve/pass3.py, class Resolver).   *)
(*                                                                         *)
(* The resolver receives the observations of every extractor as one        *)
(* sequence and scans it several times: it indexes the CSD file bindings,  *)
(* merges the entity candidates by canonical id, marks the Programs that   *)
(* only the CSD names, materializes the online logical files, resolves the *)
(* edge candidates (creating a partial placeholder for every endpoint that *)
(* nobody declared), expands the PROC invocations, derives the metrics and *)
(* reports what is left partial.                                           *)
(*                                                                         *)
(* pc is the method of Resolver.run being executed, at the position of its *)
(* loop over the observations.  Canonical ids are abstract; TypeOf says    *)
(* what the prefix of an id says ("program:" is a Program, ...), and the   *)
(* prefix "unresolved:" is a type of its own.                              *)
(***************************************************************************)
EXTENDS Integers, Sequences, FiniteSets

CONSTANTS
  Ids,        \* canonical ids
  TypeOf,     \* [Ids -> entity type named by the prefix of the id]
  Files,      \* CICS file names, upper case
  FileOf,     \* the <NAME> of a logical-file:<PROGRAM>/<NAME> id
  Paths,      \* source file paths
  DDs,        \* DD names
  Inputs,     \* the observation sequences the extractors may deliver
  NoId,       \* a property an observation leaves out (None)
  NoEntity    \* the id is not a key of Resolver.entities

EntityTypes ==
  {"Program", "Copybook", "JCLJob", "JCLStep", "JCLProc", "JCLProcInvocation",
   "LogicalFile", "Dataset", "BMSMapset", "BMSMap", "BMSField",
   "CICSTransaction", "DataItem"}

\* The closed edge vocabulary (validation/structural.py)
EdgeTypes ==
  {"INCLUDES", "EXPANDS_TO", "DEFINES_LAYOUT_FOR", "CALLS", "LINKS_TO", "XCTLS_TO",
   "RETURNS_TO_TRANSID", "SENDS_MAP", "RECEIVES_MAP", "DECLARES_FILE", "BINDS_TO",
   "READS", "WRITES", "UPDATES", "DELETES", "STARTS_BROWSE", "INVOKES", "USES_DATASET",
   "USES_PROC", "PASSES_SYSIN_TO", "IS_TRANSACTION_FOR", "HAS_FIELD", "CONTAINS_ITEM"}

\* The rules observations are made by: of the CSD's each, of the others their family
Rules == {"RUL-COBOL", "RUL-BMS", "RUL-JCL",
          "RUL-CSD-001", "RUL-CSD-002", "RUL-CSD-003", "RUL-CSD-004"}

\* extract/observation.py, Observation: one record set per kind
EntityObs == [kind: {"entity"}, id: Ids, rule: Rules, path: Paths,
              partial: BOOLEAN, owner: Ids \cup {NoId}, invoked: Ids \cup {NoId},
              assign: DDs \cup {NoId}]
CsdObs    == [kind: {"csd"}, file: Files, dataset: Ids]
EdgeObs   == [kind: {"edge"}, type: EdgeTypes, from: Ids, to: Ids,
              dynamic: BOOLEAN, cics: BOOLEAN, dd: DDs \cup {NoId}]
Obs       == EntityObs \cup CsdObs \cup EdgeObs

\* What every extractor guarantees of the observations it emits: the prefix of
\* an id agrees with its entity type, only a dynamic call targets "unresolved:",
\* the CSD extractor declares the Dataset it binds a file to, an invocation is of
\* a PROC, and a step in the body of a PROC comes from a file that declares the
\* PROC.  An online operation is on a logical file, no program is tied to a Dataset
\* directly, and the edges the resolver derives are its own.
ExtractorContract(s) ==
  \A k \in 1..Len(s) :
    /\ s[k].kind = "entity" =>
         /\ TypeOf[s[k].id] \in EntityTypes
         /\ s[k].invoked # NoId => TypeOf[s[k].invoked] = "JCLProc"
         /\ (s[k].owner # NoId /\ TypeOf[s[k].owner] = "JCLProc") =>
              \E j \in 1..Len(s) :
                s[j].kind = "entity" /\ s[j].id = s[k].owner /\ s[j].path = s[k].path
    /\ s[k].kind = "edge" =>
         /\ s[k].type \notin {"BINDS_TO", "EXPANDS_TO"}
         /\ TypeOf[s[k].from] \in EntityTypes
         /\ IF s[k].dynamic THEN TypeOf[s[k].to] = "Unresolved"
                            ELSE TypeOf[s[k].to] \in EntityTypes
         /\ s[k].cics => TypeOf[s[k].to] = "LogicalFile"
         /\ TypeOf[s[k].from] = "Program" => TypeOf[s[k].to] # "Dataset"
    /\ s[k].kind = "csd" =>
         /\ TypeOf[s[k].dataset] = "Dataset"
         /\ \E j \in 1..Len(s) : s[j].kind = "entity" /\ s[j].id = s[k].dataset

ASSUME ResolverAssumption ==
  /\ TypeOf \in [Ids -> EntityTypes \cup {"Unresolved"}]
  /\ FileOf \in [{id \in Ids : TypeOf[id] = "LogicalFile"} -> Files]
  /\ Inputs \subseteq Seq(Obs)
  /\ \A s \in Inputs : ExtractorContract(s)
  /\ NoId \notin Ids

Origins == {"merged", "online", "placeholder", "unresolved"}

\* An entity record: how it came to be, the observations its provenance lists,
\* the rules that contributed, and the properties later steps read.
Entity == [origin: Origins, prov: SUBSET Nat, partial: BOOLEAN,
           owner: Ids \cup {NoId}, invoked: Ids \cup {NoId}]

ASSUME NoEntityAssumption == NoEntity \notin Entity

VARIABLES
  obs,        \* the observations, in emission order
  pc,         \* the method of Resolver.run under way
  at,         \* the observation its loop stands at
  csd,        \* csd_file_to_dataset
  entities,   \* entities, by id
  edges,      \* edges; via is the observation an edge comes from, 0 for none
  unresolved, \* unresolved_records, in the order appended
  conflicts,  \* the ids the conflict ledger has an entry for
  metrics     \* the derived properties, by id

vars == <<obs, pc, at, csd, entities, edges, unresolved, conflicts, metrics>>

-----------------------------------------------------------------------------
(* Reading the observations *)

IsCandidate(k, id) == obs[k].kind = "entity" /\ obs[k].id = id
Candidates(id)     == {k \in 1..Len(obs) : IsCandidate(k, id)}

\* The loops over candidates_by_id and program_sources visit an id once, in the
\* order in which its first candidate was observed.
IsFirstCandidate(k) ==
  obs[k].kind = "entity" /\ \A j \in 1..(k - 1) : ~IsCandidate(j, obs[k].id)

Earliest(S) == CHOOSE k \in S : \A j \in S : k <= j

\* all_data.setdefault: the first candidate that gives a property wins
FirstOwner(id) ==
  LET given == {k \in Candidates(id) : obs[k].owner # NoId}
  IN  IF given = {} THEN NoId ELSE obs[Earliest(given)].owner

FirstInvoked(id) ==
  LET given == {k \in Candidates(id) : obs[k].invoked # NoId}
  IN  IF given = {} THEN NoId ELSE obs[Earliest(given)].invoked

SourcePaths(id) == {obs[k].path : k \in Candidates(id)}

\* RUL-CSD-002 is the rule of a CSD DEFINE PROGRAM.
CsdOnly(id) == \A k \in Candidates(id) : obs[k].rule = "RUL-CSD-002"

Known == {id \in Ids : entities[id] # NoEntity}

IsPartial(id) == entities[id] # NoEntity /\ entities[id].partial

\* Unresolved ids are stored as partial Programs.
EntityType(id) == IF TypeOf[id] = "Unresolved" THEN "Program" ELSE TypeOf[id]

IdsOf(log)    == {log[n].id : n \in 1..Len(log)}
Distinct(log) == \A m, n \in 1..Len(log) : log[m].id = log[n].id => m = n
Reported      == IdsOf(unresolved)

-----------------------------------------------------------------------------
(* The records the steps create *)

\* Mutant: the provenance of the first candidate only.
MergedEntity_FirstCandidate(id) ==
  [origin  |-> "merged",
   prov    |-> {Earliest(Candidates(id))},
   partial |-> \E k \in Candidates(id) : obs[k].partial,
   owner   |-> FirstOwner(id),
   invoked |-> FirstInvoked(id)]

\* _merge_one_id: provenance of every candidate, OR of the partial flags, the
\* first value of the other properties.
MergedEntity(id) ==
  [origin  |-> "merged",
   prov    |-> Candidates(id),
   partial |-> \E k \in Candidates(id) : obs[k].partial,
   owner   |-> FirstOwner(id),
   invoked |-> FirstInvoked(id)]

SeenAt(k, origin, partial) ==
  [origin |-> origin, prov |-> {k}, partial |-> partial,
   owner |-> NoId, invoked |-> NoId]

\* Mutant: the prefix table of _ensure_endpoint lacks "copybook:".
NeedsPlaceholder_NoCopybook(ents, id) ==
  ents[id] = NoEntity /\ TypeOf[id] \in EntityTypes \ {"Copybook"}

\* _ensure_endpoint: an id nobody declared becomes a partial entity.
NeedsPlaceholder(ents, id) == ents[id] = NoEntity /\ TypeOf[id] \in EntityTypes

\* Mutant: the placeholder is not marked partial.
EnsureEndpoint_NotPartial(ents, id, k) ==
  IF NeedsPlaceholder(ents, id)
  THEN [ents EXCEPT ![id] = SeenAt(k, "placeholder", FALSE)]
  ELSE ents

EnsureEndpoint(ents, id, k) ==
  IF NeedsPlaceholder(ents, id)
  THEN [ents EXCEPT ![id] = SeenAt(k, "placeholder", TRUE)]
  ELSE ents

\* Mutant: a report for every edge, not for every placeholder.
ReportEndpoint_EveryEdge(ents, id, log) ==
  IF TypeOf[id] \in EntityTypes
  THEN Append(log, [id |-> id, reason |-> "external_reference_no_source_body"])
  ELSE log

ReportEndpoint(ents, id, log) ==
  IF NeedsPlaceholder(ents, id)
  THEN Append(log, [id |-> id, reason |-> "external_reference_no_source_body"])
  ELSE log

\* _materialize_unresolved: the target of a dynamic call keeps its id.
NeedsUnresolved(ents, id) == ents[id] = NoEntity /\ TypeOf[id] = "Unresolved"

\* Mutant: the target of a dynamic call counts as an observed program.
MaterializeUnresolved_Promotes(ents, id, k) ==
  IF NeedsUnresolved(ents, id)
  THEN [ents EXCEPT ![id] = SeenAt(k, "unresolved", FALSE)]
  ELSE ents

MaterializeUnresolved(ents, id, k) ==
  IF NeedsUnresolved(ents, id)
  THEN [ents EXCEPT ![id] = SeenAt(k, "unresolved", TRUE)]
  ELSE ents

ReportUnresolved(ents, id, log) ==
  IF NeedsUnresolved(ents, id)
  THEN Append(log, [id |-> id, reason |-> "dynamic_call"])
  ELSE log

-----------------------------------------------------------------------------
(* The loops of Resolver.run *)

\* Mutant: the edges are resolved before the candidates are merged.
NextPhase_ResolveFirst(p) ==
  CASE p = "index"    -> "resolve"
    [] p = "resolve"  -> "merge"
    [] p = "merge"    -> "programs"
    [] p = "programs" -> "online"
    [] p = "online"   -> "expand"
    [] OTHER          -> "done"

NextPhase(p) ==
  CASE p = "index"    -> "merge"
    [] p = "merge"    -> "programs"
    [] p = "programs" -> "online"
    [] p = "online"   -> "resolve"
    [] p = "resolve"  -> "expand"
    [] OTHER          -> "done"

Loops == {"index", "merge", "programs", "online", "resolve"}

\* An online file operation whose logical file is not an entity yet
\* (seen_lfs and the entities table are checked together).
Materializes(k) ==
  /\ obs[k].kind = "edge"
  /\ obs[k].cics
  /\ TypeOf[obs[k].to] = "LogicalFile"
  /\ entities[obs[k].to] = NoEntity

\* Mutants: the resolve loop passes over the dynamic calls, or over the online
\* file operations that an earlier loop has looked at.
Acts_SkipsDynamic(k) ==
  CASE pc = "index"    -> obs[k].kind = "csd"
    [] pc = "merge"    -> IsFirstCandidate(k)
    [] pc = "programs" -> /\ IsFirstCandidate(k)
                          /\ TypeOf[obs[k].id] = "Program"
                          /\ CsdOnly(obs[k].id)
    [] pc = "online"   -> Materializes(k)
    [] OTHER           -> obs[k].kind = "edge" /\ ~obs[k].dynamic

Acts_SkipsOnline(k) ==
  CASE pc = "index"    -> obs[k].kind = "csd"
    [] pc = "merge"    -> IsFirstCandidate(k)
    [] pc = "programs" -> /\ IsFirstCandidate(k)
                          /\ TypeOf[obs[k].id] = "Program"
                          /\ CsdOnly(obs[k].id)
    [] pc = "online"   -> Materializes(k)
    [] OTHER           -> obs[k].kind = "edge" /\ ~obs[k].cics

Acts(k) ==
  CASE pc = "index"    -> obs[k].kind = "csd"
    [] pc = "merge"    -> IsFirstCandidate(k)
    [] pc = "programs" -> /\ IsFirstCandidate(k)
                          /\ TypeOf[obs[k].id] = "Program"
                          /\ CsdOnly(obs[k].id)
                          /\ entities[obs[k].id] # NoEntity
    [] pc = "online"   -> Materializes(k)
    [] OTHER           -> obs[k].kind = "edge"

\* The loop of method p handles the observation it stands at.
Handles(p) ==
  /\ pc = p
  /\ at <= Len(obs)
  /\ Acts(at)
  /\ at' = at + 1
  /\ UNCHANGED <<obs, pc, metrics>>

\* The loop passes over an observation its method does not act on.
Skip ==
  /\ pc \in Loops
  /\ at <= Len(obs)
  /\ ~Acts(at)
  /\ at' = at + 1
  /\ UNCHANGED <<obs, pc, csd, entities, edges, unresolved, conflicts, metrics>>

EndOfLoop ==
  /\ pc \in Loops
  /\ at > Len(obs)
  /\ pc' = NextPhase(pc)
  /\ at' = 1
  /\ UNCHANGED <<obs, csd, entities, edges, unresolved, conflicts, metrics>>

\* Mutant: the first DEFINE FILE wins (setdefault).
IndexBinding_FirstWins ==
  /\ Handles("index")
  /\ csd' = IF csd[obs[at].file] = NoId
            THEN [csd EXCEPT ![obs[at].file] = obs[at].dataset] ELSE csd
  /\ UNCHANGED <<entities, edges, unresolved, conflicts>>

\* _index_csd_bindings: a later DEFINE FILE replaces an earlier one.
IndexBinding ==
  /\ Handles("index")
  /\ csd' = [csd EXCEPT ![obs[at].file] = obs[at].dataset]
  /\ UNCHANGED <<entities, edges, unresolved, conflicts>>

\* Mutant: the ledger tolerates two source files.
Merge_TwoFilesAllowed ==
  /\ Handles("merge")
  /\ LET id == obs[at].id IN
       /\ entities' = [entities EXCEPT ![id] = MergedEntity(id)]
       /\ conflicts' = IF TypeOf[id] = "JCLProc" /\ Cardinality(SourcePaths(id)) > 2
                       THEN conflicts \cup {id} ELSE conflicts
  /\ UNCHANGED <<csd, edges, unresolved>>

\* _merge_entity_candidates: every candidate of an id at once; a PROC declared
\* by two source files goes to the conflict ledger.
Merge ==
  /\ Handles("merge")
  /\ LET id == obs[at].id IN
       /\ entities' = [entities EXCEPT ![id] = MergedEntity(id)]
       /\ conflicts' = IF TypeOf[id] = "JCLProc" /\ Cardinality(SourcePaths(id)) > 1
                       THEN conflicts \cup {id} ELSE conflicts
  /\ UNCHANGED <<csd, edges, unresolved>>

\* Mutant: the CSD-only Program is marked but not reported.
MarkCsdOnly_NoReport ==
  /\ Handles("programs")
  /\ entities' = [entities EXCEPT ![obs[at].id].partial = TRUE]
  /\ UNCHANGED <<csd, edges, unresolved, conflicts>>

\* _resolve_partial_programs
MarkCsdOnly ==
  /\ Handles("programs")
  /\ LET id == obs[at].id IN
       /\ entities' = [entities EXCEPT ![id].partial = TRUE]
       /\ unresolved' = Append(unresolved, [id |-> id, reason |-> "csd_only_no_source_body"])
  /\ UNCHANGED <<csd, edges, conflicts>>

\* _materialize_online_logical_files, with the BINDS_TO the CSD hint allows
MaterializeOnline ==
  /\ Handles("online")
  /\ LET lf == obs[at].to
         ds == csd[FileOf[lf]] IN
       /\ entities' = [entities EXCEPT ![lf] = SeenAt(at, "online", FALSE)]
       /\ edges' = IF ds = NoId THEN edges
                   ELSE edges \cup {[type |-> "BINDS_TO", from |-> lf, to |-> ds, via |-> at]}
  /\ UNCHANGED <<csd, unresolved, conflicts>>

\* _resolve_edges: the target first, then the source.
ResolveEdge ==
  /\ Handles("resolve")
  /\ LET o    == obs[at]
         ents == IF o.dynamic THEN MaterializeUnresolved(entities, o.to, at)
                              ELSE EnsureEndpoint(entities, o.to, at)
         log  == IF o.dynamic THEN ReportUnresolved(entities, o.to, unresolved)
                              ELSE ReportEndpoint(entities, o.to, unresolved) IN
       /\ entities' = EnsureEndpoint(ents, o.from, at)
       /\ unresolved' = ReportEndpoint(ents, o.from, log)
       /\ edges' = edges \cup {[type |-> o.type, from |-> o.from, to |-> o.to, via |-> at]}
  /\ UNCHANGED <<csd, conflicts>>

\* Mutant: only the steps of the file that holds the invocation.
Expansions_SameFile ==
  {p \in Known \X Known :
     /\ TypeOf[p[1]] = "JCLProcInvocation"
     /\ TypeOf[p[2]] = "JCLStep"
     /\ entities[p[1]].invoked # NoId
     /\ entities[p[2]].owner = entities[p[1]].invoked
     /\ SourcePaths(p[1]) \cap SourcePaths(p[2]) # {}}

\* _derive_expands_to: an edge from each PROC invocation to each step that the
\* invoked PROC owns.
Expansions ==
  {p \in Known \X Known :
     /\ TypeOf[p[1]] = "JCLProcInvocation"
     /\ TypeOf[p[2]] = "JCLStep"
     /\ entities[p[1]].invoked # NoId
     /\ entities[p[2]].owner = entities[p[1]].invoked}

DeriveExpandsTo ==
  /\ pc = "expand"
  /\ edges' = edges \cup
       {[type |-> "EXPANDS_TO", from |-> p[1], to |-> p[2], via |-> 0] : p \in Expansions}
  /\ pc' = "derive"
  /\ UNCHANGED <<obs, at, csd, entities, unresolved, conflicts, metrics>>

-----------------------------------------------------------------------------
(* Derived properties: fan-in, fan-out, reuse count and data coupling *)

FileAccess == {"READS", "WRITES", "UPDATES", "DELETES", "STARTS_BROWSE"}
PlumbingDD == {"STEPLIB", "JOBLIB"}

EdgesInto(id) == {e \in edges : e.to = id}
EdgesFrom(id) == {e \in edges : e.from = id}

\* Mutant: placeholders and CSD-only programs count as application programs.
IsAppProgram_AnyProgram(id) == id \in Known /\ EntityType(id) = "Program"

IsAppProgram(id) == id \in Known /\ EntityType(id) = "Program" /\ ~IsPartial(id)

\* lf_to_ds and step_to_prog
BoundTo(lf)        == {e.to : e \in {x \in EdgesFrom(lf) : x.type = "BINDS_TO"}}
InvokedBy(step)    == {e.to : e \in {x \in EdgesFrom(step) : x.type = "INVOKES"}}

\* prog_to_ds: the datasets an application program reaches online, through a
\* logical file, or in batch, through the DDs of the steps that invoke it
OnlineDatasets(p) ==
  UNION {BoundTo(e.to) : e \in {x \in EdgesFrom(p) : x.type \in FileAccess}}

BatchDatasets(p) ==
  {e.to : e \in {x \in edges : /\ x.type = "USES_DATASET"
                               /\ obs[x.via].dd \notin PlumbingDD
                               /\ p \in InvokedBy(x.from)}}

Accessed(p) == IF IsAppProgram(p) THEN OnlineDatasets(p) \cup BatchDatasets(p) ELSE {}

Population == {p \in Known : Accessed(p) # {}}

Accessors(d) == {p \in Population : d \in Accessed(p)}

\* Mutant: a program is coupled to itself.
Coupled_WithSelf(p) ==
  IF Accessed(p) = {} \/ Cardinality(Population) <= 1 THEN {}
  ELSE {q \in Population : Accessed(q) \cap Accessed(p) # {}}

Coupled(p) ==
  IF Accessed(p) = {} \/ Cardinality(Population) <= 1 THEN {}
  ELSE {q \in Population \ {p} : Accessed(q) \cap Accessed(p) # {}}

\* shared is the numerator of centrality (Datasets) and straddle_score
\* (Programs); among is its denominator.
MetricsOf(id) ==
  [fanIn  |-> IF EntityType(id) = "Program" THEN Cardinality(EdgesInto(id)) ELSE 0,
   fanOut |-> IF EntityType(id) \in {"Program", "CICSTransaction"}
              THEN Cardinality(EdgesFrom(id)) ELSE 0,
   reuse  |-> IF TypeOf[id] = "Copybook"
              THEN Cardinality({e \in EdgesInto(id) : e.type = "INCLUDES"}) ELSE 0,
   shared |-> IF TypeOf[id] = "Dataset" THEN Cardinality(Accessors(id))
              ELSE IF IsAppProgram(id) THEN Cardinality(Coupled(id)) ELSE 0,
   among  |-> IF TypeOf[id] = "Dataset" THEN Cardinality(Population)
              ELSE Cardinality(Population) - 1]

NoMetrics == [fanIn |-> 0, fanOut |-> 0, reuse |-> 0, shared |-> 0, among |-> 0]

DeriveProperties ==
  /\ pc = "derive"
  /\ metrics' = [id \in Ids |-> IF id \in Known THEN MetricsOf(id) ELSE NoMetrics]
  /\ pc' = "collect"
  /\ UNCHANGED <<obs, at, csd, entities, edges, unresolved, conflicts>>

\* _collect_remaining_partials: the partial entities no earlier step reported.
\* The loop follows the order of the entities table, left open here.
CollectPartial ==
  /\ pc = "collect"
  /\ \E id \in Ids :
       /\ IsPartial(id)
       /\ id \notin Reported
       /\ unresolved' = Append(unresolved, [id |-> id, reason |-> "partial_entity"])
  /\ UNCHANGED <<obs, pc, at, csd, entities, edges, conflicts, metrics>>

Finish ==
  /\ pc = "collect"
  /\ \A id \in Ids : IsPartial(id) => id \in Reported
  /\ pc' = "done"
  /\ UNCHANGED <<obs, at, csd, entities, edges, unresolved, conflicts, metrics>>

-----------------------------------------------------------------------------
Init ==
  /\ obs \in Inputs
  /\ pc = "index"
  /\ at = 1
  /\ csd = [f \in Files |-> NoId]
  /\ entities = [id \in Ids |-> NoEntity]
  /\ edges = {}
  /\ unresolved = <<>>
  /\ conflicts = {}
  /\ metrics = [id \in Ids |-> NoMetrics]

Next ==
  \/ Skip
  \/ EndOfLoop
  \/ IndexBinding
  \/ Merge
  \/ MarkCsdOnly
  \/ MaterializeOnline
  \/ ResolveEdge
  \/ DeriveExpandsTo
  \/ DeriveProperties
  \/ CollectPartial
  \/ Finish

Spec == Init /\ [][Next]_vars /\ WF_vars(Next)

-----------------------------------------------------------------------------
(* Properties *)

Edge   == [type: EdgeTypes, from: Ids, to: Ids, via: Nat]
Report == [id: Ids, reason: {"csd_only_no_source_body", "dynamic_call",
                             "external_reference_no_source_body", "partial_entity"}]

\* Every variable has the shape the code gives it.
TypeOK ==
  /\ obs \in Seq(Obs) /\ ExtractorContract(obs)
  /\ pc \in Loops \cup {"expand", "derive", "collect", "done"}
  /\ at \in Nat \ {0}
  /\ csd \in [Files -> Ids \cup {NoId}]
  /\ entities \in [Ids -> Entity \cup {NoEntity}]
  /\ edges \subseteq Edge
  /\ unresolved \in Seq(Report)
  /\ conflicts \subseteq Ids

\* No edge ever dangles: both endpoints of every edge are entities from the
\* moment it is added, so the structural validator and the graph loader, which
\* drops an edge without a matching node, lose none (pass3.py, _ensure_endpoint).
EdgesClosed == \A e \in edges : {e.from, e.to} \subseteq Known

\* The unresolved report lists exactly the partial entities: none is listed
\* twice, whichever of the four steps found it first, none that is not partial,
\* and at the end none is missing (pass3.py, _collect_remaining_partials).
PartialsReportedOnce ==
  /\ Distinct(unresolved)
  /\ \A id \in Reported : IsPartial(id)
  /\ pc = "done" => \A id \in Ids : IsPartial(id) => id \in Reported

\* "Unresolved references emit as placeholders. Never dropped": when the run
\* ends, every reference an extractor emitted is an edge between its own two
\* ids, and an endpoint nobody declared is either an online logical file or in
\* the unresolved report.
NothingDropped ==
  pc = "done" =>
    \A k \in 1..Len(obs) : obs[k].kind = "edge" =>
      \E e \in edges :
        /\ e.via = k /\ e.type = obs[k].type
        /\ e.from = obs[k].from /\ e.to = obs[k].to
        /\ \A id \in {e.from, e.to} :
             \/ Candidates(id) # {}
             \/ id \in Reported
             \/ entities[id].origin = "online"

\* RUL-NEG-001: the target of a dynamic call is never promoted to a program of
\* the corpus, however many calls name it: it stays a partial placeholder that
\* the coupling metrics do not count.
DynamicNeverPromoted ==
  \A e \in edges :
    (e.via # 0 /\ e.type = obs[e.via].type /\ obs[e.via].dynamic) =>
      /\ entities[e.to].origin = "unresolved"
      /\ IsPartial(e.to)
      /\ ~IsAppProgram(e.to)

\* Declarations outrank references: an id with a candidate anywhere in the
\* input is merged from all of its candidates, even when a reference or an
\* online file operation was observed first, and it is partial only if a
\* candidate says so or it is a Program that nothing but the CSD declares.
ObservedOutranksReferenced ==
  pc \notin {"index", "merge"} =>
    \A id \in Known :
      IF Candidates(id) = {} THEN entities[id].origin # "merged"
      ELSE /\ entities[id].origin = "merged"
           /\ entities[id].prov = Candidates(id)
           /\ pc \notin {"programs"} =>
                (entities[id].partial <=>
                   \/ \E k \in Candidates(id) : obs[k].partial
                   \/ TypeOf[id] = "Program" /\ CsdOnly(id))

\* RUL-RES-002: at the end a logical file that only online operations name is
\* bound to the dataset of the last DEFINE FILE for its name, to nothing else,
\* and to nothing at all when the CSD does not define the file; a BINDS_TO
\* always leads from a logical file to a dataset (RUL-NEG-002).
OnlineFilesBound ==
  pc = "done" =>
    /\ \A id \in Known :
         entities[id].origin = "online" =>
           LET defs == {k \in 1..Len(obs) : obs[k].kind = "csd" /\ obs[k].file = FileOf[id]}
           IN  BoundTo(id) = {obs[k].dataset : k \in {x \in defs : \A y \in defs : y <= x}}
    /\ \A e \in edges : e.type = "BINDS_TO" =>
         TypeOf[e.from] = "LogicalFile" /\ TypeOf[e.to] = "Dataset"

\* RUL-JCL-PROC-004: every invocation of a PROC expands to every step observed
\* in the body of that PROC, in whatever file and order the two were seen.
ExpansionComplete ==
  pc = "done" =>
    \A k \in 1..Len(obs), inv \in Known :
      (/\ obs[k].kind = "entity" /\ TypeOf[obs[k].id] = "JCLStep"
       /\ TypeOf[inv] = "JCLProcInvocation"
       /\ entities[inv].invoked # NoId
       /\ obs[k].owner = entities[inv].invoked) =>
         \E e \in edges : e.type = "EXPANDS_TO" /\ e.from = inv /\ e.to = obs[k].id

\* RUL-RES-006: when one invocation expands to steps observed in different
\* source files, the ledger has the collision of the PROC that mixes them.
MixedExpansionInLedger ==
  \A e, f \in edges :
    (/\ e.type = "EXPANDS_TO" /\ f.type = "EXPANDS_TO" /\ e.from = f.from
     /\ SourcePaths(e.to) \cap SourcePaths(f.to) = {}) =>
       entities[e.from].invoked \in conflicts

\* A program reaches a dataset when a chain of edges says so.
ReachesOnline(p, d) ==
  \E e, b \in edges : /\ e.from = p /\ e.type \in FileAccess
                       /\ b.type = "BINDS_TO" /\ b.from = e.to /\ b.to = d

ReachesInBatch(p, d) ==
  \E i, u \in edges : /\ i.type = "INVOKES" /\ i.to = p
                       /\ u.type = "USES_DATASET" /\ u.from = i.from /\ u.to = d
                       /\ obs[u.via].dd \notin PlumbingDD

SourceProgram(p) == p \in Known /\ TypeOf[p] = "Program" /\ ~IsPartial(p)

Reaches(p, d) == SourceProgram(p) /\ (ReachesOnline(p, d) \/ ReachesInBatch(p, d))

\* RUL-DERIV-005 and RUL-DERIV-008: the scores the indices and loops of
\* _derive_coupling_metrics arrive at are those of the access paths of the final
\* graph: a dataset counts the in-corpus programs that reach it, a program the
\* other programs with which it reaches a common dataset.
CouplingMatchesPaths ==
  pc \in {"collect", "done"} =>
    \A id \in Known :
      /\ TypeOf[id] = "Dataset" =>
           metrics[id].shared = Cardinality({p \in Ids : Reaches(p, id)})
      /\ SourceProgram(id) =>
           metrics[id].shared =
             Cardinality({q \in Ids \ {id} : \E d \in Ids : Reaches(id, d) /\ Reaches(q, d)})

\* The skeleton only grows: no step removes an entity or an edge, changes where
\* an entity came from or what it was merged from, takes a partial flag back, or
\* rewrites a line of the unresolved report.
SkeletonOnlyGrows ==
  [][/\ Known \subseteq Known'
     /\ edges \subseteq edges'
     /\ conflicts \subseteq conflicts'
     /\ \A id \in Known :
          /\ entities'[id].origin = entities[id].origin
          /\ entities'[id].prov = entities[id].prov
          /\ entities[id].partial => entities'[id].partial
     /\ \A n \in 1..Len(unresolved) :
          n <= Len(unresolved') /\ unresolved'[n] = unresolved[n]]_vars

\* The graph it builds, as the abstract store of module Skeleton.
Graph == INSTANCE Skeleton WITH
  nodes  <- Known,
  holes  <- {id \in Ids : IsPartial(id)},
  links  <- edges,
  listed <- Reported,
  closed <- (pc = "done")

RefinesSkeleton == Graph!Spec

-----------------------------------------------------------------------------
(* The inductive invariant: how far the loops have come, and what it settles *)

\* The merge loop has stored exactly the ids with a candidate behind it, so
\* afterwards every id with a candidate is an entity.
MergeProgress ==
  /\ pc = "index" => Known = {}
  /\ pc = "merge" =>
       \A id \in Ids : id \in Known <=> \E k \in 1..Len(obs) : k < at /\ IsCandidate(k, id)
  /\ pc \notin {"index", "merge"} => \A id \in Ids : Candidates(id) # {} => id \in Known

\* A CSD hint only names datasets that some observation declares.
HintsDeclared ==
  \A f \in Files : csd[f] # NoId => Candidates(csd[f]) # {}

\* The CSD-only sweep has passed the first candidate of the id.
Swept(id) ==
  /\ pc \notin {"index", "merge"}
  /\ pc = "programs" => \E k \in 1..Len(obs) : k < at /\ IsCandidate(k, id)

\* Where an entity came from decides what it is made of.
OriginsSound ==
  /\ \A id \in Known :
       /\ entities[id].origin = "merged" <=> Candidates(id) # {}
       /\ entities[id].origin = "merged" =>
            /\ entities[id].prov = Candidates(id)
            /\ entities[id].partial <=>
                 \/ \E k \in Candidates(id) : obs[k].partial
                 \/ TypeOf[id] = "Program" /\ CsdOnly(id) /\ Swept(id)
       /\ entities[id].origin \in {"placeholder", "unresolved"} => entities[id].partial
       /\ entities[id].origin = "unresolved" <=> TypeOf[id] = "Unresolved"

\* An edge comes from an edge candidate or is an expansion.
EdgeSources ==
  /\ pc \in {"index", "merge", "programs"} => edges = {}
  /\ \A e \in edges : e.via # 0 =>
       /\ e.via \in 1..Len(obs)
       /\ obs[e.via].kind = "edge"
       /\ obs[e.via].dynamic => e.to = obs[e.via].to

\* Until the edges are resolved only the CSD-only sweep has written a report.
ReportProgress ==
  /\ pc \in {"index", "merge"} => unresolved = <<>>
  /\ pc = "programs" =>
       \A id \in Reported : \E k \in 1..Len(obs) : k < at /\ IsCandidate(k, id)

\* The invariant of the graph under construction
GraphInv ==
  /\ TypeOK
  /\ MergeProgress
  /\ HintsDeclared
  /\ OriginsSound
  /\ EdgeSources
  /\ EdgesClosed
  /\ ReportProgress
  /\ PartialsReportedOnce

-----------------------------------------------------------------------------
(* What the graph owes to the observations, loop by loop *)

\* The hint for a file is the last of the definitions the index has passed.
DefinitionsOf(f) == {k \in 1..Len(obs) : obs[k].kind = "csd" /\ obs[k].file = f}

Passed(f) == {k \in DefinitionsOf(f) : pc = "index" => k < at}

HintsAreLast ==
  \A f \in Files :
    IF Passed(f) = {} THEN csd[f] = NoId
    ELSE \E k \in Passed(f) : csd[f] = obs[k].dataset /\ \A j \in Passed(f) : j <= k

\* A merged entity has the owner and the callee of the first candidate that names one.
OwnersKept ==
  \A id \in Known :
    entities[id].owner = FirstOwner(id) /\ entities[id].invoked = FirstInvoked(id)

\* A PROC merged from several files is in the ledger.
CollisionsLogged ==
  \A id \in Known :
    (TypeOf[id] = "JCLProc" /\ Cardinality(SourcePaths(id)) > 1) => id \in conflicts

\* An edge is an edge candidate, the binding of an online file or an expansion.
IsObserved(e) ==
  /\ e.via \in 1..Len(obs) /\ obs[e.via].kind = "edge"
  /\ e.type = obs[e.via].type /\ e.from = obs[e.via].from /\ e.to = obs[e.via].to

IsBinding(e) ==
  /\ e.type = "BINDS_TO" /\ entities[e.from].origin = "online"
  /\ e.to = csd[FileOf[e.from]] /\ e.to # NoId

IsExpansion(e) ==
  e.type = "EXPANDS_TO" /\ pc \in {"derive", "collect", "done"} /\ <<e.from, e.to>> \in Expansions

EdgesAreFounded == \A e \in edges : IsObserved(e) \/ IsBinding(e) \/ IsExpansion(e)

\* Nothing any of the three calls for is missing once its loop is over.
EdgesAreThere ==
  /\ \A id \in Known : entities[id].origin = "online" =>
       /\ TypeOf[id] = "LogicalFile"
       /\ csd[FileOf[id]] # NoId =>
            \E e \in edges : e.type = "BINDS_TO" /\ e.from = id /\ e.to = csd[FileOf[id]]
  /\ pc \notin {"index", "merge", "programs", "online"} =>
       \A k \in 1..Len(obs) : (obs[k].kind = "edge" /\ (pc = "resolve" => k < at)) =>
         [type |-> obs[k].type, from |-> obs[k].from, to |-> obs[k].to, via |-> k] \in edges
  /\ pc \in {"derive", "collect", "done"} =>
       \A p \in Expansions : \E e \in edges : e.type = "EXPANDS_TO" /\ e.from = p[1] /\ e.to = p[2]

\* The metrics are those of the graph as it ends.
MetricsKept ==
  pc \in {"collect", "done"} =>
    metrics = [id \in Ids |-> IF id \in Known THEN MetricsOf(id) ELSE NoMetrics]

\* Some observation declares the id or refers to it.
Named(id) ==
  \E k \in 1..Len(obs) :
    \/ IsCandidate(k, id)
    \/ obs[k].kind = "edge" /\ id \in {obs[k].from, obs[k].to}

UsedOnline(id) == {k \in 1..Len(obs) : obs[k].kind = "edge" /\ obs[k].cics /\ obs[k].to = id}

\* An entity cites an observation and is named by one; until the references are
\* resolved it is declared or used online.
EntitiesAreFounded ==
  \A id \in Known :
    /\ entities[id].prov # {} /\ Named(id)
    /\ entities[id].origin = "online" => UsedOnline(id) # {}
    /\ pc \in Loops \ {"resolve"} => entities[id].origin \in {"merged", "online"}

\* A file used online is an entity before any reference could make it a placeholder.
OnlineFilesAreThere ==
  pc \notin {"index", "merge", "programs"} =>
    \A id \in Ids : (\E k \in UsedOnline(id) : pc = "online" => k < at) =>
      id \in Known /\ entities[id].origin \in {"merged", "online"}

\* Nothing but the CSD declares the program.
DefinedOnly(id) == TypeOf[id] = "Program" /\ Candidates(id) # {} /\ CsdOnly(id)

\* The programs reported as known to the CSD only are those that are, and the sweep
\* reports each of them.
ReasonsFit ==
  /\ \A n \in 1..Len(unresolved) :
       unresolved[n].reason = "csd_only_no_source_body" <=> DefinedOnly(unresolved[n].id)
  /\ \A id \in Ids : DefinedOnly(id) /\ Swept(id) => id \in Reported

ResolverInv ==
  /\ GraphInv
  /\ HintsAreLast
  /\ OwnersKept
  /\ CollisionsLogged
  /\ EdgesAreFounded
  /\ EdgesAreThere
  /\ EntitiesAreFounded
  /\ OnlineFilesAreThere
  /\ ReasonsFit
  /\ MetricsKept
  /\ IsFiniteSet(Known)

\* No id of a step is given by two owners, that is, by a job and a PROC of one name.
StepsHaveOneOwner ==
  \A j, k \in 1..Len(obs) :
    (/\ obs[j].kind = "entity" /\ obs[k].kind = "entity" /\ obs[j].id = obs[k].id
     /\ TypeOf[obs[j].id] = "JCLStep") => obs[j].owner = obs[k].owner

-----------------------------------------------------------------------------
(* What the documents say and the code does not do *)

\* pass3.py:15 and RUL-RES-010: a logical file for which the CSD names two
\* different datasets gets a conflict entry (under the dataset or the file id).
CsdConflictInLedger ==
  pc = "done" =>
    \A j, k \in 1..Len(obs) :
      (/\ obs[j].kind = "csd" /\ obs[k].kind = "csd"
       /\ obs[j].file = obs[k].file /\ obs[j].dataset # obs[k].dataset) => conflicts # {}

\* RUL-DERIV-003: Program.fan_out counts calls, links, transfers, map and file
\* operations and file declarations.
FanOutTypes ==
  {"CALLS", "LINKS_TO", "XCTLS_TO", "SENDS_MAP", "RECEIVES_MAP", "READS", "WRITES",
   "UPDATES", "DELETES", "STARTS_BROWSE", "DECLARES_FILE"}

FanOutAsDocumented ==
  pc \in {"collect", "done"} =>
    \A id \in Known : EntityType(id) = "Program" =>
      metrics[id].fanOut = Cardinality({e \in EdgesFrom(id) : e.type \in FanOutTypes})

\* RUL-RES-001: a batch logical file whose DD a step that invokes its program
\* allocates is bound to the dataset of that DD.
BatchFilesBound ==
  pc = "done" =>
    \A k \in 1..Len(obs) :
      (obs[k].kind = "entity" /\ obs[k].assign # NoId) =>
        \A d, i, u \in edges :
          (/\ d.type = "DECLARES_FILE" /\ d.to = obs[k].id
           /\ i.type = "INVOKES" /\ i.to = d.from
           /\ u.type = "USES_DATASET" /\ u.from = i.from
           /\ obs[u.via].dd = obs[k].assign) => u.to \in BoundTo(obs[k].id)
=============================================================================
