----------------------------- MODULE Validation -----------------------------
(***************************************************************************)
(* The two validators that read what the resolver wrote:                   *)
(* validation/structural.py, which the pilot runs on entities.json and     *)
(* edges.json before it builds the graph, and validation/semantic.py, the  *)
(* coverage assertions a gate is judged by.                                *)
(*                                                                         *)
(* Neither has a state: each is a function of the artifacts, stated here   *)
(* over the variables of Resolver at the end of its run.  A check yields   *)
(* "pass", "warn" or "fail".  Left out are the checks of properties the    *)
(* resolver's model abstracts: labels of screen fields, organizations of   *)
(* datasets, types of data items (module DataItems has those), rule ids    *)
(* and confidences.                                                        *)
(***************************************************************************)
EXTENDS Resolver

OfType(type) == {id \in Known : EntityType(id) = type}

EdgesOf(type) == {e \in edges : e.type = type}

\* The provenance pass3 writes on an edge: that of the observation, or, on an
\* expansion, the first entries of the invocation and of the step.
EdgeProvenance(e) ==
  IF e.via # 0 THEN {e.via} ELSE entities[e.from].prov \cup entities[e.to].prov

-----------------------------------------------------------------------------
(* Structural invariants *)

\* validate_entities: the type is of the vocabulary, something is cited.
EntityErrors ==
  {id \in Known : EntityType(id) \notin EntityTypes \/ entities[id].prov = {}}

\* validate_edges: likewise, and the ends have ids of a known prefix.
EdgeErrors ==
  {e \in edges : \/ e.type \notin EdgeTypes
                 \/ EdgeProvenance(e) = {}
                 \/ {TypeOf[e.from], TypeOf[e.to]} \ (EntityTypes \cup {"Unresolved"}) # {}}

\* An end that no entity matches is a warning, and none at all when the id
\* starts with "unresolved:".
EndpointWarnings ==
  {e \in edges : \E id \in {e.from, e.to} : TypeOf[id] # "Unresolved" /\ id \notin Known}

-----------------------------------------------------------------------------
(* Semantic coverage assertions *)

Verdict(nothing, bad) == IF nothing THEN "warn" ELSE IF bad # {} THEN "fail" ELSE "pass"

\* Every transaction is held to the rule, a placeholder as well.
TransactionsWithoutEntry ==
  {t \in OfType("CICSTransaction") : ~\E e \in EdgesOf("IS_TRANSACTION_FOR") : e.from = t}

\* _bad_metric: the score shared/among, 0 when nothing is left to divide by
OutOfRange(id) ==
  metrics[id].shared \notin 0..(IF metrics[id].among < 0 THEN 0 ELSE metrics[id].among)

AppPrograms == {p \in OfType("Program") : ~IsPartial(p)}

WithoutBinding ==
  {d \in OfType("Dataset") :
     ~\E e \in EdgesOf("USES_DATASET") \cup EdgesOf("BINDS_TO") : e.to = d}

DirectAccess == {e \in edges : EntityType(e.from) = "Program" /\ EntityType(e.to) = "Dataset"}

\* Only a CALL is looked at; a dynamic LINK or XCTL is not.
PromotedCalls ==
  {e \in EdgesOf("CALLS") : e.via # 0 /\ obs[e.via].dynamic /\ TypeOf[e.to] # "Unresolved"}

UnreportedPartials == {id \in Known : IsPartial(id) /\ id \notin Reported}

TransactionsHaveEntryProgram == Verdict(OfType("CICSTransaction") = {}, TransactionsWithoutEntry)

CouplingMetricsPopulated ==
  LET scored == AppPrograms \cup OfType("Dataset")
  IN  Verdict(scored = {}, {id \in scored : OutOfRange(id)})

\* A dataset without evidence is a warning, never a failure.
DatasetsHaveBindingEvidence == Verdict(WithoutBinding # {}, {})

NoDirectProgramDatasetEdges == Verdict(FALSE, DirectAccess)

DynamicCallsNotPromoted == Verdict(FALSE, PromotedCalls)

EdgesHaveProvenance == Verdict(FALSE, {e \in edges : EdgeProvenance(e) = {}})

\* The ids of the report are compared, where the code searches its text, in
\* which an id is also found as the beginning of a longer one.
PartialsInReport == Verdict(FALSE, UnreportedPartials)

\* The assertions that hold a gate back, by the verdict each gives
Verdicts ==
  [transactions |-> TransactionsHaveEntryProgram, metrics    |-> CouplingMetricsPopulated,
   bindings     |-> DatasetsHaveBindingEvidence,  direct     |-> NoDirectProgramDatasetEdges,
   dynamic      |-> DynamicCallsNotPromoted,      provenance |-> EdgesHaveProvenance,
   report       |-> PartialsInReport]

Failing == {check \in DOMAIN Verdicts : Verdicts[check] = "fail"}

-----------------------------------------------------------------------------
(* What a verdict is about, in terms of what the extractors observed *)

EntryObserved(t) ==
  \E k \in 1..Len(obs) :
    obs[k].kind = "edge" /\ obs[k].type = "IS_TRANSACTION_FOR" /\ obs[k].from = t

\* A DD names the dataset, or an online operation names a file that is nowhere
\* declared and whose last definition in the CSD names it.
BindingObserved(d) ==
  \/ \E k \in 1..Len(obs) :
       obs[k].kind = "edge" /\ obs[k].type = "USES_DATASET" /\ obs[k].to = d
  \/ \E k, c \in 1..Len(obs) :
       /\ obs[k].kind = "edge" /\ obs[k].cics /\ Candidates(obs[k].to) = {}
       /\ obs[c].kind = "csd" /\ obs[c].dataset = d
       /\ FileOf[obs[k].to] = obs[c].file
       /\ \A x \in (c + 1)..Len(obs) : obs[x].kind = "csd" => obs[x].file # obs[c].file

\* The verdict of the gate is a statement about the corpus, not about the
\* pipeline: on whatever the extractors observe, in any order, the artifacts
\* have no structural error and no dangling end; the only assertion that can fail
\* is the one on transactions, and it fails exactly when a statement names a
\* transaction for which no statement names an entry program; and the warning on
\* datasets is given exactly when a dataset is named that no statement binds.  In
\* particular both coupling scores are fractions in [0, 1], also when no program
\* or a single one accesses data (semantic.py, assert_coverage).
VerdictFollowsFromSources ==
  pc = "done" =>
    /\ EntityErrors = {} /\ EdgeErrors = {} /\ EndpointWarnings = {}
    /\ Failing \subseteq {"transactions"}
    /\ TransactionsHaveEntryProgram = "fail" <=>
         \E t \in Ids : TypeOf[t] = "CICSTransaction" /\ Named(t) /\ ~EntryObserved(t)
    /\ DatasetsHaveBindingEvidence = "warn" <=>
         \E d \in Ids : TypeOf[d] = "Dataset" /\ Named(d) /\ ~BindingObserved(d)

-----------------------------------------------------------------------------
(* What the documents say and the code does not do *)

\* semantic.py excludes the partial placeholders from the check of the maps
\* because the unresolved report tracks them; a transaction that only a RETURN
\* TRANSID names is tracked in the same way and fails the gate all the same.
PlaceholdersFailNoCheck ==
  pc = "done" =>
    (TransactionsHaveEntryProgram = "fail" =>
       \E t \in TransactionsWithoutEntry : ~IsPartial(t))
=============================================================================
