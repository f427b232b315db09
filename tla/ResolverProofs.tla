--------------------------- MODULE ResolverProofs ---------------------------
(***************************************************************************)
(* Theorems about module Resolver, for every set of ids and every input    *)
(* that honours the extractor contract: first of the graph while it is     *)
(* built (GraphInv, the report, the refinement of Skeleton), then of what  *)
(* the finished loops owe to the observations (ResolverInv): nothing       *)
(* dropped, the bindings of the CSD, the expansions, the conflict ledger   *)
(* and the coupling metrics; last of the two validators of module          *)
(* Validation: whatever the extractors observe and in whatever order, the  *)
(* verdict on what the resolver wrote is about the observations.           *)
(***************************************************************************)
EXTENDS Validation, TLAPS, SequenceTheorems, FiniteSetTheorems, WellFoundedInduction

-----------------------------------------------------------------------------
(* Facts about the observations *)

\* The three kinds of observation are told apart by their kind.
LEMMA ObsKinds ==
  ASSUME NEW o \in Obs
  PROVE  /\ o.kind = "entity" => o \in EntityObs
         /\ o.kind = "csd" => o \in CsdObs
         /\ o.kind = "edge" => o \in EdgeObs
  BY DEF Obs, EntityObs, CsdObs, EdgeObs

\* A set of positions that is not empty has an earliest one.
LEMMA EarliestIsMember ==
  ASSUME NEW S \in SUBSET Nat, S # {}
  PROVE  Earliest(S) \in S
  <1> DEFINE R == {ss \in Nat \X Nat : ss[1] < ss[2]}
  <1>1. IsWellFoundedOn(R, Nat)
    BY NatLessThanWellFounded, Zenon DEF OpToRel
  <1>2. \A x, y \in Nat : <<y, x>> \in R <=> y < x
    OBVIOUS
  <1> HIDE DEF R
  <1>3. PICK x \in S : \A y \in S : ~ (<<y, x>> \in R)
    BY <1>1, WFMin
  <1>4. ASSUME NEW y \in S
        PROVE  x <= y
    <2>1. x \in Nat /\ y \in Nat
      OBVIOUS
    <2>2. ~(y < x)
      BY <1>2, <1>3, <2>1
    <2>3. QED
      BY <2>1, <2>2
  <1>5. QED
    BY <1>4 DEF Earliest

\* The first-wins properties of a merge are ids or absent.
LEMMA FirstWinsType ==
  ASSUME TypeOK, NEW id \in Ids
  PROVE  /\ FirstOwner(id) \in Ids \cup {NoId}
         /\ FirstInvoked(id) \in Ids \cup {NoId}
  <1>1. \A k \in Candidates(id) : k \in Nat /\ obs[k] \in EntityObs
    BY ObsKinds DEF TypeOK, Candidates, IsCandidate
  <1>2. FirstOwner(id) \in Ids \cup {NoId}
    <2> DEFINE given == {k \in Candidates(id) : obs[k].owner # NoId}
    <2>1. CASE given = {}
      BY <2>1 DEF FirstOwner
    <2>2. CASE given # {}
      <3>1. given \in SUBSET Nat
        BY <1>1
      <3>2. Earliest(given) \in given
        BY <2>2, <3>1, EarliestIsMember
      <3>3. obs[Earliest(given)].owner \in Ids \cup {NoId}
        BY <1>1, <3>2 DEF EntityObs
      <3>4. QED
        BY <2>2, <3>3 DEF FirstOwner
    <2>3. QED
      BY <2>1, <2>2
  <1>3. FirstInvoked(id) \in Ids \cup {NoId}
    <2> DEFINE given == {k \in Candidates(id) : obs[k].invoked # NoId}
    <2>1. CASE given = {}
      BY <2>1 DEF FirstInvoked
    <2>2. CASE given # {}
      <3>1. given \in SUBSET Nat
        BY <1>1
      <3>2. Earliest(given) \in given
        BY <2>2, <3>1, EarliestIsMember
      <3>3. obs[Earliest(given)].invoked \in Ids \cup {NoId}
        BY <1>1, <3>2 DEF EntityObs
      <3>4. QED
        BY <2>2, <3>3 DEF FirstInvoked
    <2>3. QED
      BY <2>1, <2>2
  <1>4. QED
    BY <1>2, <1>3

LEMMA MergedEntityType ==
  ASSUME TypeOK, NEW id \in Ids
  PROVE  MergedEntity(id) \in Entity
  <1>1. Candidates(id) \in SUBSET Nat
    BY DEF TypeOK, Candidates
  <1>2. QED
    BY <1>1, FirstWinsType DEF MergedEntity, Entity, Origins

LEMMA SeenAtType ==
  ASSUME NEW k \in Nat, NEW origin \in Origins, NEW partial \in BOOLEAN
  PROVE  SeenAt(k, origin, partial) \in Entity
  BY DEF SeenAt, Entity

\* What _ensure_endpoint and _materialize_unresolved do to the tables.
LEMMA EnsureType ==
  ASSUME NEW ents \in [Ids -> Entity \cup {NoEntity}], NEW id \in Ids, NEW k \in Nat,
         NEW log \in Seq(Report)
  PROVE  /\ EnsureEndpoint(ents, id, k) \in [Ids -> Entity \cup {NoEntity}]
         /\ MaterializeUnresolved(ents, id, k) \in [Ids -> Entity \cup {NoEntity}]
         /\ ReportEndpoint(ents, id, log) \in Seq(Report)
         /\ ReportUnresolved(ents, id, log) \in Seq(Report)
  <1>1. /\ SeenAt(k, "placeholder", TRUE) \in Entity
        /\ SeenAt(k, "unresolved", TRUE) \in Entity
    BY SeenAtType DEF Origins
  <1>2. /\ EnsureEndpoint(ents, id, k) \in [Ids -> Entity \cup {NoEntity}]
        /\ MaterializeUnresolved(ents, id, k) \in [Ids -> Entity \cup {NoEntity}]
    BY <1>1 DEF EnsureEndpoint, MaterializeUnresolved, NeedsPlaceholder, NeedsUnresolved
  <1>3. /\ [id |-> id, reason |-> "external_reference_no_source_body"] \in Report
        /\ [id |-> id, reason |-> "dynamic_call"] \in Report
    BY DEF Report
  <1>4. ReportEndpoint(ents, id, log) \in Seq(Report)
    BY <1>3 DEF ReportEndpoint, NeedsPlaceholder
  <1>5. ReportUnresolved(ents, id, log) \in Seq(Report)
    BY <1>3 DEF ReportUnresolved, NeedsUnresolved
  <1>6. QED
    BY <1>2, <1>4, <1>5

-----------------------------------------------------------------------------
(* Type correctness *)

LEMMA InitTypeOK ==
  ASSUME Init
  PROVE  TypeOK
  <1>1. obs \in Seq(Obs) /\ ExtractorContract(obs)
    BY ResolverAssumption DEF Init
  <1>2. QED
    BY <1>1 DEF Init, TypeOK, Loops

\* The observation a loop handles.
LEMMA HandledObs ==
  ASSUME TypeOK, NEW p, Handles(p)
  PROVE  /\ at \in 1..Len(obs)
         /\ obs[at] \in Obs
         /\ at' \in Nat \ {0}
         /\ obs' = obs /\ pc' = pc /\ metrics' = metrics
  BY DEF TypeOK, Handles

LEMMA NextTypeOK ==
  ASSUME TypeOK, [Next]_vars
  PROVE  TypeOK'
  <1> USE DEF TypeOK
  <1>1. CASE Skip
    BY <1>1 DEF Skip
  <1>2. CASE EndOfLoop
    <2>1. pc' \in Loops \cup {"expand", "derive", "collect", "done"}
      BY <1>2 DEF EndOfLoop, NextPhase, Loops
    <2>2. QED
      BY <1>2, <2>1 DEF EndOfLoop
  <1>3. CASE IndexBinding
    <2>1. Handles("index") /\ obs[at].kind = "csd"
      BY <1>3 DEF IndexBinding, Handles, Acts
    <2>2. obs[at] \in CsdObs
      BY <2>1, HandledObs, ObsKinds
    <2>3. obs[at].file \in Files /\ obs[at].dataset \in Ids
      BY <2>2 DEF CsdObs
    <2>4. QED
      BY <1>3, <2>1, <2>3, HandledObs DEF IndexBinding
  <1>4. CASE Merge
    <2>1. Handles("merge") /\ obs[at].kind = "entity"
      BY <1>4 DEF Merge, Handles, Acts, IsFirstCandidate
    <2>2. obs[at] \in EntityObs
      BY <2>1, HandledObs, ObsKinds
    <2>3. obs[at].id \in Ids
      BY <2>2 DEF EntityObs
    <2>4. MergedEntity(obs[at].id) \in Entity
      BY <2>3, MergedEntityType
    <2>5. entities' \in [Ids -> Entity \cup {NoEntity}]
      BY <1>4, <2>3, <2>4 DEF Merge
    <2>6. conflicts' \subseteq Ids
      BY <1>4, <2>3 DEF Merge
    <2>7. QED
      BY <1>4, <2>1, <2>5, <2>6, HandledObs DEF Merge
  <1>5. CASE MarkCsdOnly
    <2>1. /\ Handles("programs") /\ obs[at].kind = "entity"
          /\ entities[obs[at].id] # NoEntity
      BY <1>5 DEF MarkCsdOnly, Handles, Acts, IsFirstCandidate
    <2>2. obs[at].id \in Ids
      BY <2>1, HandledObs, ObsKinds DEF EntityObs
    <2>3. entities' \in [Ids -> Entity \cup {NoEntity}]
      BY <1>5, <2>1, <2>2 DEF MarkCsdOnly, Entity
    <2>4. unresolved' \in Seq(Report)
      BY <1>5, <2>2 DEF MarkCsdOnly, Report
    <2>5. QED
      BY <1>5, <2>1, <2>3, <2>4, HandledObs DEF MarkCsdOnly
  <1>6. CASE MaterializeOnline
    <2>1. /\ Handles("online") /\ obs[at].kind = "edge"
          /\ TypeOf[obs[at].to] = "LogicalFile"
      BY <1>6 DEF MaterializeOnline, Handles, Acts, Materializes
    <2>2. obs[at].to \in Ids
      BY <2>1, HandledObs, ObsKinds DEF EdgeObs
    <2>3. SeenAt(at, "online", FALSE) \in Entity
      BY SeenAtType DEF Origins
    <2>4. csd[FileOf[obs[at].to]] \in Ids \cup {NoId}
      BY <2>1, <2>2, ResolverAssumption
    <2>5. edges' \subseteq Edge
      BY <1>6, <2>2, <2>4 DEF MaterializeOnline, Edge, EdgeTypes
    <2>6. entities' \in [Ids -> Entity \cup {NoEntity}]
      BY <1>6, <2>2, <2>3 DEF MaterializeOnline
    <2>7. QED
      BY <1>6, <2>1, <2>5, <2>6, HandledObs DEF MaterializeOnline
  <1>7. CASE ResolveEdge
    <2>1. Handles("resolve") /\ obs[at].kind = "edge"
      BY <1>7 DEF ResolveEdge, Handles, Acts
    <2>2. /\ obs[at].to \in Ids /\ obs[at].from \in Ids
          /\ obs[at].type \in EdgeTypes
      BY <2>1, HandledObs, ObsKinds DEF EdgeObs
    <2>3. edges' \subseteq Edge
      BY <1>7, <2>2 DEF ResolveEdge, Edge
    <2>4. entities' \in [Ids -> Entity \cup {NoEntity}]
      BY <1>7, <2>2, EnsureType DEF ResolveEdge
    <2>5. unresolved' \in Seq(Report)
      BY <1>7, <2>2, EnsureType DEF ResolveEdge
    <2>6. QED
      BY <1>7, <2>1, <2>3, <2>4, <2>5, HandledObs DEF ResolveEdge
  <1>8. CASE DeriveExpandsTo
    <2>1. \A p \in Expansions : p[1] \in Ids /\ p[2] \in Ids
      BY DEF Expansions, Known
    <2>2. edges' \subseteq Edge
      BY <1>8, <2>1 DEF DeriveExpandsTo, Edge, EdgeTypes
    <2>3. QED
      BY <1>8, <2>2 DEF DeriveExpandsTo
  <1>9. CASE DeriveProperties
    BY <1>9 DEF DeriveProperties
  <1>10. CASE CollectPartial
    BY <1>10 DEF CollectPartial, Report
  <1>11. CASE Finish
    BY <1>11 DEF Finish
  <1>12. CASE UNCHANGED vars
    BY <1>12 DEF vars
  <1>13. QED
    BY <1>1, <1>2, <1>3, <1>4, <1>5, <1>6, <1>7, <1>8, <1>9, <1>10, <1>11, <1>12 DEF Next

\* In every reachable state every variable has the shape the code gives it.
THEOREM TypeCorrect == Spec => []TypeOK
  <1>1. Init => TypeOK
    BY InitTypeOK
  <1>2. TypeOK /\ [Next]_vars => TypeOK'
    BY NextTypeOK
  <1>3. QED
    BY <1>1, <1>2, PTL DEF Spec

-----------------------------------------------------------------------------
(* What one step does to the entities and to the report *)

LEMMA SeenAtFields ==
  ASSUME NEW k \in Nat, NEW origin \in Origins, NEW partial \in BOOLEAN
  PROVE  /\ SeenAt(k, origin, partial) # NoEntity
         /\ SeenAt(k, origin, partial).origin = origin
         /\ SeenAt(k, origin, partial).partial = partial
  BY SeenAtType, NoEntityAssumption DEF SeenAt

\* A report of an id that is not reported yet.
LEMMA ReportAppended ==
  ASSUME NEW log \in Seq(Report), Distinct(log), NEW r \in Report, r.id \notin IdsOf(log)
  PROVE  /\ Distinct(Append(log, r))
         /\ IdsOf(Append(log, r)) = IdsOf(log) \cup {r.id}
  <1> DEFINE new == Append(log, r)
  <1>1. /\ Len(new) = Len(log) + 1 /\ Len(log) \in Nat
        /\ new[Len(log) + 1] = r
        /\ \A n \in 1..Len(log) : new[n] = log[n]
    BY AppendProperties, LenProperties
  <1> HIDE DEF new
  <1>2. Distinct(new)
    BY <1>1 DEF Distinct, IdsOf
  <1>3. ASSUME NEW x
        PROVE  x \in IdsOf(new) <=> x \in IdsOf(log) \cup {r.id}
    <2>1. x \in IdsOf(new) => x \in IdsOf(log) \cup {r.id}
      BY <1>1 DEF IdsOf
    <2>2. x \in IdsOf(log) => x \in IdsOf(new)
      BY <1>1 DEF IdsOf
    <2>3. r.id \in IdsOf(new)
      BY <1>1 DEF IdsOf
    <2>4. QED
      BY <2>1, <2>2, <2>3
  <1>4. QED
    BY <1>2, <1>3 DEF new

\* _ensure_endpoint leaves the known entities alone and makes the id known.
LEMMA EnsureEffect ==
  ASSUME NEW ents \in [Ids -> Entity \cup {NoEntity}], NEW id \in Ids, NEW k \in Nat,
         TypeOf[id] \in EntityTypes
  PROVE  \A j \in Ids :
           /\ ents[j] # NoEntity \/ j # id => EnsureEndpoint(ents, id, k)[j] = ents[j]
           /\ ents[id] = NoEntity => EnsureEndpoint(ents, id, k)[id] = SeenAt(k, "placeholder", TRUE)
  BY DEF EnsureEndpoint, NeedsPlaceholder

LEMMA MaterializeEffect ==
  ASSUME NEW ents \in [Ids -> Entity \cup {NoEntity}], NEW id \in Ids, NEW k \in Nat,
         TypeOf[id] = "Unresolved"
  PROVE  \A j \in Ids :
           /\ ents[j] # NoEntity \/ j # id => MaterializeUnresolved(ents, id, k)[j] = ents[j]
           /\ ents[id] = NoEntity => MaterializeUnresolved(ents, id, k)[id] = SeenAt(k, "unresolved", TRUE)
  BY DEF MaterializeUnresolved, NeedsUnresolved

\* Both report an id exactly when they create its entity.
LEMMA ReportEffect ==
  ASSUME NEW ents \in [Ids -> Entity \cup {NoEntity}], NEW id \in Ids,
         NEW log \in Seq(Report), Distinct(log),
         \A j \in IdsOf(log) : j \in Ids /\ ents[j] # NoEntity
  PROVE  /\ TypeOf[id] \in EntityTypes =>
              /\ Distinct(ReportEndpoint(ents, id, log))
              /\ IdsOf(ReportEndpoint(ents, id, log)) =
                   IdsOf(log) \cup (IF ents[id] = NoEntity THEN {id} ELSE {})
         /\ TypeOf[id] = "Unresolved" =>
              /\ Distinct(ReportUnresolved(ents, id, log))
              /\ IdsOf(ReportUnresolved(ents, id, log)) =
                   IdsOf(log) \cup (IF ents[id] = NoEntity THEN {id} ELSE {})
  <1>1. CASE ents[id] # NoEntity
    BY <1>1 DEF ReportEndpoint, ReportUnresolved, NeedsPlaceholder, NeedsUnresolved
  <1>2. CASE ents[id] = NoEntity
    <2>1. id \notin IdsOf(log)
      BY <1>2
    <2>2. ASSUME TypeOf[id] \in EntityTypes
          PROVE  /\ Distinct(ReportEndpoint(ents, id, log))
                 /\ IdsOf(ReportEndpoint(ents, id, log)) = IdsOf(log) \cup {id}
      <3> DEFINE r == [id |-> id, reason |-> "external_reference_no_source_body"]
      <3>1. r \in Report /\ r.id = id
        BY DEF Report
      <3>2. ReportEndpoint(ents, id, log) = Append(log, r)
        BY <1>2, <2>2 DEF ReportEndpoint, NeedsPlaceholder
      <3> HIDE DEF r
      <3>3. QED
        BY <2>1, <3>1, <3>2, ReportAppended
    <2>3. ASSUME TypeOf[id] = "Unresolved"
          PROVE  /\ Distinct(ReportUnresolved(ents, id, log))
                 /\ IdsOf(ReportUnresolved(ents, id, log)) = IdsOf(log) \cup {id}
      <3> DEFINE r == [id |-> id, reason |-> "dynamic_call"]
      <3>1. r \in Report /\ r.id = id
        BY DEF Report
      <3>2. ReportUnresolved(ents, id, log) = Append(log, r)
        BY <1>2, <2>3 DEF ReportUnresolved, NeedsUnresolved
      <3> HIDE DEF r
      <3>3. QED
        BY <2>1, <3>1, <3>2, ReportAppended
    <2>4. QED
      BY <1>2, <2>2, <2>3
  <1>3. QED
    BY <1>1, <1>2

\* What ResolveEdge does: the endpoints it had to create are partial, reported
\* and the only entities that change.
LEMMA ResolveEffect ==
  ASSUME TypeOK, ResolveEdge, Distinct(unresolved),
         \A id \in Reported : id \in Known
  PROVE  LET o == obs[at] IN
         /\ at \in 1..Len(obs) /\ o.kind = "edge" /\ o.from \in Ids /\ o.to \in Ids
         /\ o.type \in EdgeTypes
         /\ o.dynamic \in BOOLEAN /\ (o.dynamic => TypeOf[o.to] = "Unresolved")
         /\ \A id \in Known : entities'[id] = entities[id]
         /\ \A id \in Ids \ Known :
              IF id \in {o.from, o.to}
              THEN entities'[id] =
                     SeenAt(at, IF TypeOf[id] = "Unresolved" THEN "unresolved" ELSE "placeholder", TRUE)
              ELSE entities'[id] = NoEntity
         /\ Distinct(unresolved')
         /\ Reported' = Reported \cup ({o.from, o.to} \ Known)
  <1> DEFINE o == obs[at]
             ents == IF o.dynamic THEN MaterializeUnresolved(entities, o.to, at)
                                  ELSE EnsureEndpoint(entities, o.to, at)
             log  == IF o.dynamic THEN ReportUnresolved(entities, o.to, unresolved)
                                  ELSE ReportEndpoint(entities, o.to, unresolved)
             added == IF entities[o.to] = NoEntity THEN {o.to} ELSE {}
  <1>1. /\ at \in 1..Len(obs) /\ at \in Nat
        /\ o \in EdgeObs /\ o.kind = "edge"
    <2>1. Handles("resolve") /\ o.kind = "edge"
      BY DEF ResolveEdge, Handles, Acts
    <2>2. QED
      BY <2>1, HandledObs, ObsKinds DEF TypeOK
  <1>2. /\ o.from \in Ids /\ o.to \in Ids /\ o.type \in EdgeTypes /\ o.dynamic \in BOOLEAN
    BY <1>1 DEF EdgeObs
  <1>3. /\ TypeOf[o.from] \in EntityTypes
        /\ o.dynamic => TypeOf[o.to] = "Unresolved"
        /\ ~o.dynamic => TypeOf[o.to] \in EntityTypes
    BY <1>1 DEF TypeOK, ExtractorContract
  <1>4. /\ entities \in [Ids -> Entity \cup {NoEntity}]
        /\ unresolved \in Seq(Report)
    BY DEF TypeOK
  <1>5. "Unresolved" \notin EntityTypes
    BY DEF EntityTypes
  <1>6. /\ entities' = EnsureEndpoint(ents, o.from, at)
        /\ unresolved' = ReportEndpoint(ents, o.from, log)
    BY DEF ResolveEdge
  <1>7. /\ ents \in [Ids -> Entity \cup {NoEntity}]
        /\ log \in Seq(Report)
    BY <1>1, <1>2, <1>4, EnsureType
  <1>8. \A id \in Ids :
          /\ entities[id] # NoEntity \/ id # o.to => ents[id] = entities[id]
          /\ entities[o.to] = NoEntity =>
               ents[o.to] = SeenAt(at, IF TypeOf[o.to] = "Unresolved" THEN "unresolved" ELSE "placeholder", TRUE)
    <2>1. CASE o.dynamic
      <3>1. ents = MaterializeUnresolved(entities, o.to, at)
        BY <2>1
      <3> HIDE DEF ents, log, added
      <3>2. TypeOf[o.to] = "Unresolved" /\ at \in Nat /\ o.to \in Ids
        BY <1>1, <1>2, <1>3, <2>1
      <3> HIDE DEF o
      <3>3. \A id \in Ids : entities[id] # NoEntity \/ id # o.to => ents[id] = entities[id]
        BY <1>4, <3>1, <3>2, MaterializeEffect
      <3>4. entities[o.to] = NoEntity => ents[o.to] = SeenAt(at, "unresolved", TRUE)
        BY <1>4, <3>1, <3>2, MaterializeEffect
      <3>5. QED
        BY <3>2, <3>3, <3>4
    <2>2. CASE ~o.dynamic
      <3>1. ents = EnsureEndpoint(entities, o.to, at)
        BY <2>2
      <3> HIDE DEF ents, log, added
      <3>2. TypeOf[o.to] \in EntityTypes /\ at \in Nat /\ o.to \in Ids
        BY <1>1, <1>2, <1>3, <2>2
      <3> HIDE DEF o
      <3>3. \A id \in Ids : entities[id] # NoEntity \/ id # o.to => ents[id] = entities[id]
        BY <1>4, <3>1, <3>2, EnsureEffect
      <3>4. entities[o.to] = NoEntity => ents[o.to] = SeenAt(at, "placeholder", TRUE)
        BY <1>4, <3>1, <3>2, EnsureEffect
      <3>5. QED
        BY <1>5, <3>2, <3>3, <3>4
    <2>3. QED
      BY <1>2, <2>1, <2>2
  <1>9. /\ Distinct(log)
        /\ IdsOf(log) = Reported \cup added
    <2>1. \A j \in IdsOf(unresolved) : j \in Ids /\ entities[j] # NoEntity
      BY DEF Reported, Known
    <2>2. QED
      BY <1>2, <1>3, <1>4, <2>1, ReportEffect DEF Reported
  <1>10. ents[o.to] # NoEntity
    BY <1>1, <1>2, <1>8, SeenAtFields DEF Origins
  <1>11. \A j \in IdsOf(log) : j \in Ids /\ ents[j] # NoEntity
    BY <1>2, <1>8, <1>9, <1>10 DEF Known
  <1> HIDE DEF ents, log
  <1>12. /\ Distinct(unresolved')
         /\ Reported' = Reported \cup added \cup (IF ents[o.from] = NoEntity THEN {o.from} ELSE {})
    BY <1>2, <1>3, <1>6, <1>7, <1>9, <1>11, ReportEffect DEF Reported
  <1>13. \A id \in Ids :
           /\ ents[id] # NoEntity \/ id # o.from => entities'[id] = ents[id]
           /\ ents[o.from] = NoEntity => entities'[o.from] = SeenAt(at, "placeholder", TRUE)
    BY <1>1, <1>2, <1>3, <1>6, <1>7, EnsureEffect
  <1>14. \A id \in Known : entities'[id] = entities[id]
    BY <1>8, <1>13 DEF Known
  <1>15. ASSUME NEW id \in Ids \ Known
         PROVE  IF id \in {o.from, o.to}
                THEN entities'[id] =
                       SeenAt(at, IF TypeOf[id] = "Unresolved" THEN "unresolved" ELSE "placeholder", TRUE)
                ELSE entities'[id] = NoEntity
    <2>1. entities[id] = NoEntity
      BY DEF Known
    <2>2. CASE id = o.to
      BY <1>2, <1>8, <1>10, <1>13, <2>1, <2>2
    <2>3. CASE id # o.to /\ id = o.from
      BY <1>2, <1>3, <1>5, <1>8, <1>13, <2>1, <2>3
    <2>4. CASE id # o.to /\ id # o.from
      BY <1>8, <1>13, <2>1, <2>4
    <2>5. QED
      BY <2>2, <2>3, <2>4
  <1>16. Reported' = Reported \cup ({o.from, o.to} \ Known)
    <2>1. ents[o.from] = NoEntity <=> entities[o.from] = NoEntity /\ o.from # o.to
      BY <1>2, <1>8, <1>10
    <2>2. QED
      BY <1>2, <1>12, <2>1 DEF Known
  <1>17. QED
    BY <1>1, <1>2, <1>3, <1>12, <1>14, <1>15, <1>16

-----------------------------------------------------------------------------
(* The inductive invariant *)

LEMMA InitInv ==
  ASSUME Init
  PROVE  GraphInv
  <1>1. TypeOK
    BY InitTypeOK
  <1>2. Known = {} /\ Reported = {} /\ Distinct(unresolved)
    BY DEF Init, Known, Reported, IdsOf, Distinct
  <1>3. MergeProgress /\ HintsDeclared /\ OriginsSound
    BY <1>2 DEF Init, MergeProgress, HintsDeclared, OriginsSound
  <1>4. EdgeSources /\ EdgesClosed /\ ReportProgress /\ PartialsReportedOnce
    BY <1>2 DEF Init, EdgeSources, EdgesClosed, ReportProgress, PartialsReportedOnce
  <1>5. QED
    BY <1>1, <1>3, <1>4 DEF GraphInv

\* The observations never change, so neither does what is read off them.
LEMMA ObsConstant ==
  ASSUME [Next]_vars
  PROVE  /\ obs' = obs
         /\ \A k, id : IsCandidate(k, id)' <=> IsCandidate(k, id)
         /\ \A id : Candidates(id)' = Candidates(id)
         /\ \A id : CsdOnly(id)' <=> CsdOnly(id)
  <1>1. obs' = obs
    BY DEF Next, vars, Skip, EndOfLoop, IndexBinding, Merge, MarkCsdOnly, MaterializeOnline,
           ResolveEdge, DeriveExpandsTo, DeriveProperties, CollectPartial, Finish, Handles
  <1>2. QED
    BY <1>1 DEF IsCandidate, Candidates, CsdOnly

\* What Merge, MarkCsdOnly and MaterializeOnline do to the entities.
LEMMA MergeEffect ==
  ASSUME GraphInv, Merge
  PROVE  LET id == obs[at].id IN
         /\ pc = "merge" /\ pc' = "merge" /\ at' = at + 1 /\ at \in 1..Len(obs)
         /\ id \in Ids /\ IsCandidate(at, id) /\ id \notin Known
         /\ TypeOf[id] \in EntityTypes
         /\ entities' = [entities EXCEPT ![id] = MergedEntity(id)]
         /\ MergedEntity(id) \in Entity /\ MergedEntity(id) # NoEntity
         /\ csd' = csd /\ edges' = edges /\ unresolved' = unresolved
  <1> DEFINE id == obs[at].id
  <1>1. /\ Handles("merge") /\ IsFirstCandidate(at)
        /\ pc = "merge" /\ pc' = "merge" /\ at' = at + 1
        /\ entities' = [entities EXCEPT ![id] = MergedEntity(id)]
        /\ csd' = csd /\ edges' = edges /\ unresolved' = unresolved
    BY DEF Merge, Handles, Acts
  <1>2. at \in 1..Len(obs) /\ obs[at] \in Obs /\ at \in Nat
    BY <1>1, HandledObs DEF GraphInv, TypeOK
  <1>3. obs[at].kind = "entity" /\ id \in Ids
    BY <1>1, <1>2, ObsKinds DEF IsFirstCandidate, EntityObs
  <1>4. TypeOf[id] \in EntityTypes
    BY <1>2, <1>3 DEF GraphInv, TypeOK, ExtractorContract
  <1>5. IsCandidate(at, id)
    BY <1>3 DEF IsCandidate
  <1>6. id \notin Known
    BY <1>1, <1>2, <1>3 DEF GraphInv, MergeProgress, IsFirstCandidate
  <1>7. MergedEntity(id) \in Entity
    BY <1>3, MergedEntityType DEF GraphInv
  <1>8. QED
    BY <1>1, <1>2, <1>3, <1>4, <1>5, <1>6, <1>7, NoEntityAssumption

LEMMA MarkEffect ==
  ASSUME GraphInv, MarkCsdOnly
  PROVE  LET id == obs[at].id IN
         /\ pc = "programs" /\ pc' = "programs" /\ at' = at + 1 /\ at \in 1..Len(obs)
         /\ id \in Known /\ IsFirstCandidate(at) /\ IsCandidate(at, id)
         /\ TypeOf[id] = "Program" /\ CsdOnly(id)
         /\ entities' = [entities EXCEPT ![id].partial = TRUE]
         /\ entities[id] \in Entity
         /\ entities'[id] # NoEntity
         /\ unresolved' = Append(unresolved, [id |-> id, reason |-> "csd_only_no_source_body"])
         /\ csd' = csd /\ edges' = edges
  <1> DEFINE id == obs[at].id
  <1>1. /\ Handles("programs") /\ IsFirstCandidate(at)
        /\ TypeOf[id] = "Program" /\ CsdOnly(id) /\ entities[id] # NoEntity
        /\ pc = "programs" /\ pc' = "programs" /\ at' = at + 1
        /\ entities' = [entities EXCEPT ![id].partial = TRUE]
        /\ unresolved' = Append(unresolved, [id |-> id, reason |-> "csd_only_no_source_body"])
        /\ csd' = csd /\ edges' = edges
    BY DEF MarkCsdOnly, Handles, Acts
  <1>2. at \in 1..Len(obs) /\ obs[at] \in Obs /\ at \in Nat
    BY <1>1, HandledObs DEF GraphInv, TypeOK
  <1>3. obs[at].kind = "entity" /\ id \in Ids
    BY <1>1, <1>2, ObsKinds DEF IsFirstCandidate, EntityObs
  <1>4. id \in Known /\ IsCandidate(at, id) /\ entities[id] \in Entity
    BY <1>1, <1>3 DEF Known, IsCandidate, GraphInv, TypeOK
  <1>5. entities'[id] \in Entity
    BY <1>1, <1>3, <1>4 DEF Entity, GraphInv, TypeOK
  <1>6. QED
    BY <1>1, <1>2, <1>4, <1>5, NoEntityAssumption

LEMMA OnlineEffect ==
  ASSUME GraphInv, MaterializeOnline
  PROVE  LET lf == obs[at].to  ds == csd[FileOf[lf]] IN
         /\ pc = "online" /\ pc' = "online" /\ at' = at + 1 /\ at \in 1..Len(obs)
         /\ lf \in Ids /\ lf \notin Known /\ TypeOf[lf] = "LogicalFile"
         /\ obs[at].kind = "edge" /\ obs[at].dynamic = FALSE
         /\ FileOf[lf] \in Files
         /\ entities' = [entities EXCEPT ![lf] = SeenAt(at, "online", FALSE)]
         /\ SeenAt(at, "online", FALSE) # NoEntity
         /\ edges' = IF ds = NoId THEN edges
                     ELSE edges \cup {[type |-> "BINDS_TO", from |-> lf, to |-> ds, via |-> at]}
         /\ csd' = csd /\ unresolved' = unresolved
  <1> DEFINE lf == obs[at].to
  <1>1. /\ Handles("online") /\ Materializes(at)
        /\ pc = "online" /\ pc' = "online" /\ at' = at + 1
        /\ csd' = csd /\ unresolved' = unresolved
    BY DEF MaterializeOnline, Handles, Acts
  <1>2. at \in 1..Len(obs) /\ obs[at] \in Obs /\ at \in Nat
    BY <1>1, HandledObs DEF GraphInv, TypeOK
  <1>3. /\ obs[at].kind = "edge" /\ lf \in Ids /\ lf \notin Known
        /\ TypeOf[lf] = "LogicalFile" /\ obs[at].dynamic \in BOOLEAN
    BY <1>1, <1>2, ObsKinds DEF Materializes, EdgeObs, Known
  <1>4. obs[at].dynamic = FALSE
    BY <1>2, <1>3 DEF GraphInv, TypeOK, ExtractorContract
  <1>5. SeenAt(at, "online", FALSE) # NoEntity
    BY <1>2, SeenAtFields DEF Origins
  <1>6. FileOf[lf] \in Files
    BY <1>3, ResolverAssumption
  <1>7. QED
    BY <1>1, <1>2, <1>3, <1>4, <1>5, <1>6 DEF MaterializeOnline

\* The other steps leave the entities alone.
LEMMA QuietSteps ==
  ASSUME Skip \/ EndOfLoop \/ IndexBinding \/ DeriveExpandsTo \/ DeriveProperties
           \/ CollectPartial \/ Finish \/ UNCHANGED vars
  PROVE  entities' = entities /\ Known' = Known
  BY DEF Skip, EndOfLoop, IndexBinding, DeriveExpandsTo, DeriveProperties, CollectPartial,
         Finish, vars, Known

\* A step that handles an observation names the loop it belongs to.
LEMMA ResolvePc ==
  ASSUME ResolveEdge
  PROVE  pc = "resolve" /\ pc' = "resolve" /\ at' = at + 1 /\ csd' = csd
  BY DEF ResolveEdge, Handles

\* Reported ids are known: the report lists partial entities only.
LEMMA ReportedKnown ==
  ASSUME GraphInv
  PROVE  /\ Distinct(unresolved)
         /\ \A id \in Reported : id \in Ids /\ id \in Known /\ entities[id].partial
  <1>1. unresolved \in Seq(Report)
    BY DEF GraphInv, TypeOK
  <1>2. \A n \in 1..Len(unresolved) : unresolved[n].id \in Ids
    <2>1. \A n \in 1..Len(unresolved) : unresolved[n] \in Report
      BY <1>1, ElementOfSeq
    <2>2. QED
      BY <2>1 DEF Report
  <1>3. \A id \in Reported : id \in Ids
    BY <1>2 DEF Reported, IdsOf
  <1>4. QED
    BY <1>3 DEF GraphInv, PartialsReportedOnce, IsPartial, Known

\* No step removes an entity, changes where it came from or what it was merged
\* from, or takes its partial flag back.
LEMMA EntitiesGrow ==
  ASSUME GraphInv, [Next]_vars
  PROVE  \A id \in Known :
           /\ id \in Known'
           /\ entities'[id].origin = entities[id].origin
           /\ entities'[id].prov = entities[id].prov
           /\ entities[id].partial => entities'[id].partial
  <1> USE DEF Known
  <1>1. CASE Merge
    BY <1>1, MergeEffect DEF GraphInv, TypeOK
  <1>2. CASE MarkCsdOnly
    <2> DEFINE m == obs[at].id
    <2>1. /\ m \in Known /\ entities[m] \in Entity /\ entities'[m] # NoEntity
          /\ entities' = [entities EXCEPT ![m].partial = TRUE]
          /\ entities \in [Ids -> Entity \cup {NoEntity}]
      BY <1>2, MarkEffect DEF GraphInv, TypeOK
    <2>2. /\ entities'[m].origin = entities[m].origin
          /\ entities'[m].prov = entities[m].prov
          /\ entities'[m].partial = TRUE
      BY <2>1 DEF Entity
    <2>3. \A id \in Ids : id # m => entities'[id] = entities[id]
      BY <2>1
    <2>4. QED
      BY <2>1, <2>2, <2>3
  <1>3. CASE MaterializeOnline
    BY <1>3, OnlineEffect DEF GraphInv, TypeOK
  <1>4. CASE ResolveEdge
    BY <1>4, ResolveEffect, ReportedKnown DEF GraphInv
  <1>5. CASE entities' = entities
    BY <1>5
  <1>6. QED
    BY <1>1, <1>2, <1>3, <1>4, <1>5, QuietSteps DEF Next

LEMMA MergeProgressStep ==
  ASSUME GraphInv, [Next]_vars
  PROVE  MergeProgress'
  <1> USE DEF MergeProgress
  <1>1. /\ MergeProgress /\ at \in Nat \ {0} /\ Len(obs) \in Nat
        /\ obs' = obs
        /\ \A k, id : IsCandidate(k, id)' <=> IsCandidate(k, id)
        /\ \A id : Candidates(id)' = Candidates(id)
    BY ObsConstant DEF GraphInv, TypeOK
  <1>2. Known \subseteq Known'
    BY EntitiesGrow DEF Known
  <1>3. CASE Merge
    <2> DEFINE m == obs[at].id
    <2>1. /\ pc = "merge" /\ pc' = "merge" /\ at' = at + 1 /\ at \in 1..Len(obs)
          /\ m \in Ids /\ IsCandidate(at, m)
          /\ \A id : IsCandidate(at, id) => id = m
      BY <1>3, MergeEffect DEF IsCandidate
    <2>2. Known' = Known \cup {m}
      BY <1>3, MergeEffect DEF Known, GraphInv, TypeOK
    <2>3. ASSUME NEW id \in Ids
          PROVE  id \in Known' <=> \E k \in 1..Len(obs) : k < at + 1 /\ IsCandidate(k, id)
      <3>1. id \in Known <=> \E k \in 1..Len(obs) : k < at /\ IsCandidate(k, id)
        BY <1>1, <2>1
      <3>2. \A k \in 1..Len(obs) : k < at + 1 <=> k < at \/ k = at
        BY <1>1
      <3>3. QED
        BY <2>1, <2>2, <3>1, <3>2
    <2>4. QED
      BY <1>1, <2>1, <2>3
  <1>4. CASE Skip
    <2>1. /\ at <= Len(obs) /\ ~Acts(at) /\ at' = at + 1 /\ pc' = pc /\ Known' = Known
      BY <1>4, QuietSteps DEF Skip
    <2>2. CASE pc = "merge"
      <3>1. ~IsFirstCandidate(at)
        BY <2>1, <2>2 DEF Acts
      <3>2. ASSUME NEW id \in Ids, IsCandidate(at, id)
            PROVE  \E k \in 1..Len(obs) : k < at /\ IsCandidate(k, id)
        BY <1>1, <2>1, <3>1, <3>2 DEF IsFirstCandidate, IsCandidate
      <3>3. ASSUME NEW id \in Ids
            PROVE  (\E k \in 1..Len(obs) : k < at + 1 /\ IsCandidate(k, id))
                     <=> \E k \in 1..Len(obs) : k < at /\ IsCandidate(k, id)
        BY <1>1, <2>1, <3>2
      <3>4. QED
        BY <1>1, <2>1, <2>2, <3>3
    <2>3. QED
      BY <1>1, <2>1, <2>2
  <1>5. CASE EndOfLoop
    <2>1. /\ pc \in Loops /\ at > Len(obs) /\ pc' = NextPhase(pc) /\ at' = 1 /\ Known' = Known
      BY <1>5, QuietSteps DEF EndOfLoop
    <2>2. CASE pc = "index"
      BY <1>1, <2>1, <2>2 DEF NextPhase
    <2>3. CASE pc = "merge"
      <3>1. \A id \in Ids : Candidates(id) # {} => id \in Known
        BY <1>1, <2>1, <2>3 DEF Candidates
      <3>2. QED
        BY <1>1, <2>1, <2>3, <3>1 DEF NextPhase
    <2>4. CASE pc \in {"programs", "online", "resolve"}
      BY <1>1, <2>1, <2>4 DEF NextPhase
    <2>5. QED
      BY <2>1, <2>2, <2>3, <2>4 DEF Loops
  <1>6. CASE IndexBinding
    BY <1>1, <1>6, QuietSteps DEF IndexBinding, Handles
  <1>7. CASE MarkCsdOnly \/ MaterializeOnline \/ ResolveEdge
    <2>1. pc \notin {"index", "merge"} /\ pc' = pc
      BY <1>7, MarkEffect, OnlineEffect, ResolvePc
    <2>2. QED
      BY <1>1, <1>2, <2>1
  <1>8. CASE DeriveExpandsTo \/ DeriveProperties \/ CollectPartial \/ Finish
    <2>1. pc \notin {"index", "merge"} /\ pc' \notin {"index", "merge"}
      BY <1>8 DEF DeriveExpandsTo, DeriveProperties, CollectPartial, Finish
    <2>2. QED
      BY <1>1, <1>2, <2>1
  <1>9. CASE UNCHANGED vars
    BY <1>1, <1>9, QuietSteps DEF vars
  <1>10. QED
    BY <1>3, <1>4, <1>5, <1>6, <1>7, <1>8, <1>9 DEF Next

LEMMA HintsDeclaredStep ==
  ASSUME GraphInv, [Next]_vars
  PROVE  HintsDeclared'
  <1>1. /\ HintsDeclared /\ csd \in [Files -> Ids \cup {NoId}]
        /\ \A id : Candidates(id)' = Candidates(id)
    BY ObsConstant DEF GraphInv, TypeOK
  <1>2. CASE IndexBinding
    <2>1. /\ Handles("index") /\ obs[at].kind = "csd"
          /\ csd' = [csd EXCEPT ![obs[at].file] = obs[at].dataset]
      BY <1>2 DEF IndexBinding, Handles, Acts
    <2>2. at \in 1..Len(obs)
      BY <2>1, HandledObs DEF GraphInv
    <2>3. Candidates(obs[at].dataset) # {}
      BY <2>1, <2>2 DEF GraphInv, TypeOK, ExtractorContract, Candidates, IsCandidate
    <2>4. QED
      BY <1>1, <2>1, <2>3 DEF HintsDeclared
  <1>3. CASE csd' = csd
    BY <1>1, <1>3 DEF HintsDeclared
  <1>4. QED
    BY <1>2, <1>3, MergeEffect, MarkEffect, OnlineEffect, ResolvePc
    DEF Next, vars, Skip, EndOfLoop, DeriveExpandsTo, DeriveProperties, CollectPartial, Finish

\* Only MarkCsdOnly moves the sweep past a Program that nothing but the CSD
\* declares: Skip never passes over the first candidate of one.
LEMMA SweptStep ==
  ASSUME GraphInv, [Next]_vars, NEW id \in Known, Candidates(id) # {},
         TypeOf[id] = "Program", CsdOnly(id)
  PROVE  Swept(id)' <=> Swept(id) \/ (MarkCsdOnly /\ id = obs[at].id)
  <1>1. /\ at \in Nat \ {0} /\ Len(obs) \in Nat /\ obs' = obs
        /\ \A k, i : IsCandidate(k, i)' <=> IsCandidate(k, i)
        /\ \A k, i : IsCandidate(k, i) => i = obs[k].id /\ obs[k].kind = "entity"
    BY ObsConstant DEF GraphInv, TypeOK, IsCandidate
  <1>2. PICK c \in 1..Len(obs) : IsCandidate(c, id)
    BY DEF Candidates
  <1>3. \A k \in 1..Len(obs) : k < at + 1 <=> k < at \/ k = at
    BY <1>1
  <1>4. CASE MarkCsdOnly
    <2>1. /\ pc = "programs" /\ pc' = "programs" /\ at' = at + 1 /\ at \in 1..Len(obs)
          /\ IsCandidate(at, obs[at].id)
      BY <1>4, MarkEffect DEF GraphInv
    <2>2. QED
      BY <1>1, <1>3, <1>4, <2>1 DEF Swept
  <1>5. CASE Skip
    <2>1. /\ at <= Len(obs) /\ ~Acts(at) /\ at' = at + 1 /\ pc' = pc
      BY <1>5 DEF Skip
    <2>2. CASE pc = "programs"
      <3>1. IsCandidate(at, id) => ~IsFirstCandidate(at)
        BY <1>1, <2>1, <2>2 DEF Acts, Known
      <3>2. IsCandidate(at, id) => \E k \in 1..Len(obs) : k < at /\ IsCandidate(k, id)
        BY <1>1, <2>1, <3>1 DEF IsFirstCandidate
      <3>3. Swept(id)' <=> Swept(id)
        BY <1>1, <1>3, <2>1, <2>2, <3>2 DEF Swept
      <3>4. ~MarkCsdOnly
        BY <2>1 DEF MarkCsdOnly, Handles
      <3>5. QED
        BY <3>3, <3>4
    <2>3. CASE pc # "programs"
      BY <1>1, <2>1, <2>3 DEF Swept, MarkCsdOnly, Handles
    <2>4. QED
      BY <2>2, <2>3
  <1>6. CASE EndOfLoop
    <2>1. /\ pc \in Loops /\ at > Len(obs) /\ pc' = NextPhase(pc) /\ at' = 1 /\ ~MarkCsdOnly
      BY <1>1, <1>6 DEF EndOfLoop, MarkCsdOnly, Handles
    <2>2. CASE pc = "index"
      BY <2>1, <2>2 DEF NextPhase, Swept
    <2>3. CASE pc = "merge"
      BY <1>1, <2>1, <2>3 DEF NextPhase, Swept
    <2>4. CASE pc = "programs"
      <3>1. Swept(id)
        BY <1>1, <1>2, <2>1, <2>4 DEF Swept
      <3>2. pc' = "online"
        BY <2>1, <2>4 DEF NextPhase
      <3>3. QED
        BY <3>1, <3>2 DEF Swept
    <2>5. CASE pc \in {"online", "resolve"}
      BY <2>1, <2>5 DEF NextPhase, Swept
    <2>6. QED
      BY <2>1, <2>2, <2>3, <2>4, <2>5 DEF Loops
  <1>7. CASE IndexBinding \/ Merge
    <2>1. pc \in {"index", "merge"} /\ pc' = pc
      BY <1>7 DEF IndexBinding, Merge, Handles
    <2>2. QED
      BY <2>1 DEF Swept, MarkCsdOnly, Handles
  <1>8. CASE MaterializeOnline \/ ResolveEdge \/ DeriveExpandsTo \/ DeriveProperties
               \/ CollectPartial \/ Finish
    <2>1. pc \notin {"index", "merge", "programs"} /\ pc' \notin {"index", "merge", "programs"}
      BY <1>8 DEF MaterializeOnline, ResolveEdge, Handles, DeriveExpandsTo, DeriveProperties,
                  CollectPartial, Finish
    <2>2. QED
      BY <2>1 DEF Swept, MarkCsdOnly, Handles
  <1>9. CASE UNCHANGED vars
    BY <1>1, <1>9 DEF vars, Swept, MarkCsdOnly, Handles
  <1>10. QED
    BY <1>4, <1>5, <1>6, <1>7, <1>8, <1>9 DEF Next

\* What the merged record says of an id none of whose candidates is swept yet.
LEMMA OriginsSoundStep ==
  ASSUME GraphInv, [Next]_vars
  PROVE  OriginsSound'
  <1> DEFINE SaysPartial(id) == \E k \in Candidates(id) : obs[k].partial
             CsdProgram(id)  == TypeOf[id] = "Program" /\ CsdOnly(id)
  <1>1. /\ obs' = obs /\ OriginsSound
        /\ \A id : Candidates(id)' = Candidates(id)
        /\ \A id : CsdOnly(id)' <=> CsdOnly(id)
    BY ObsConstant DEF GraphInv
  <1>2. entities \in [Ids -> Entity \cup {NoEntity}]
    BY DEF GraphInv, TypeOK
  <1>3. \A id \in Known : entities[id].partial \in BOOLEAN /\ entities[id] \in Entity
    BY <1>2 DEF Known, Entity
  <1>4. SUFFICES ASSUME NEW id \in Known'
                 PROVE  /\ entities'[id].origin = "merged" <=> Candidates(id) # {}
                        /\ entities'[id].origin = "merged" =>
                             /\ entities'[id].prov = Candidates(id)
                             /\ entities'[id].partial <=>
                                  SaysPartial(id) \/ (CsdProgram(id) /\ Swept(id)')
                        /\ entities'[id].origin \in {"placeholder", "unresolved"}
                             => entities'[id].partial
                        /\ entities'[id].origin = "unresolved" <=> TypeOf[id] = "Unresolved"
    BY <1>1 DEF OriginsSound
  <1>5. id \in Known =>
          /\ entities[id].origin = "merged" <=> Candidates(id) # {}
          /\ entities[id].origin = "merged" =>
               /\ entities[id].prov = Candidates(id)
               /\ entities[id].partial <=> SaysPartial(id) \/ (CsdProgram(id) /\ Swept(id))
          /\ entities[id].origin \in {"placeholder", "unresolved"} => entities[id].partial
          /\ entities[id].origin = "unresolved" <=> TypeOf[id] = "Unresolved"
    BY <1>1 DEF OriginsSound
  <1>6. ASSUME id \in Known, entities[id].origin = "merged", CsdProgram(id)
        PROVE  Swept(id)' <=> Swept(id) \/ (MarkCsdOnly /\ id = obs[at].id)
    BY <1>5, <1>6, SweptStep
  <1>7. CASE id \in Known /\ ~(MarkCsdOnly /\ id = obs[at].id)
    <2>1. entities'[id] = entities[id]
      <3>1. CASE Merge
        BY <1>2, <1>7, <3>1, MergeEffect DEF Known
      <3>2. CASE MarkCsdOnly
        BY <1>2, <1>7, <3>2, MarkEffect DEF Known
      <3>3. CASE MaterializeOnline
        BY <1>2, <1>7, <3>3, OnlineEffect DEF Known
      <3>4. CASE ResolveEdge
        BY <1>7, <3>4, ResolveEffect, ReportedKnown DEF GraphInv
      <3>5. QED
        BY <3>1, <3>2, <3>3, <3>4, QuietSteps DEF Next
    <2>2. (entities[id].origin = "merged" /\ CsdProgram(id)) => (Swept(id)' <=> Swept(id))
      BY <1>6, <1>7
    <2> HIDE DEF SaysPartial, CsdProgram
    <2>3. QED
      BY <1>5, <1>7, <2>1, <2>2
  <1>8. CASE MarkCsdOnly /\ id = obs[at].id
    <2>1. /\ id \in Known /\ CsdProgram(id) /\ IsCandidate(at, id)
          /\ at \in 1..Len(obs)
          /\ entities' = [entities EXCEPT ![id].partial = TRUE]
      BY <1>8, MarkEffect
    <2>2. /\ entities'[id].origin = entities[id].origin
          /\ entities'[id].prov = entities[id].prov
          /\ entities'[id].partial = TRUE
      BY <1>2, <1>3, <2>1 DEF Known, Entity
    <2>3. Candidates(id) # {}
      BY <2>1 DEF Candidates
    <2>4. Swept(id)'
      BY <1>5, <1>6, <1>8, <2>1, <2>3
    <2> HIDE DEF SaysPartial
    <2>5. QED
      BY <1>5, <2>1, <2>2, <2>3, <2>4
  <1>9. CASE id \notin Known /\ Merge
    <2>1. /\ id = obs[at].id /\ pc' = "merge" /\ IsCandidate(at, id) /\ at \in 1..Len(obs)
          /\ entities'[id] = MergedEntity(id) /\ TypeOf[id] \in EntityTypes
      BY <1>2, <1>9, MergeEffect DEF Known
    <2>2. Candidates(id) # {}
      BY <2>1 DEF Candidates
    <2>3. ~Swept(id)'
      BY <2>1 DEF Swept
    <2>4. /\ entities'[id].origin = "merged"
          /\ entities'[id].prov = Candidates(id)
          /\ entities'[id].partial <=> SaysPartial(id)
      BY <2>1 DEF MergedEntity
    <2> HIDE DEF SaysPartial
    <2>5. QED
      BY <2>1, <2>2, <2>3, <2>4 DEF EntityTypes
  <1>10. CASE id \notin Known /\ ~Merge
    <2>1. Candidates(id) = {} \/ pc \in {"index", "merge"}
      BY <1>10 DEF GraphInv, MergeProgress, Known
    <2>2. \/ /\ MaterializeOnline
             /\ entities'[id].origin = "online" /\ TypeOf[id] = "LogicalFile"
          \/ /\ ResolveEdge
             /\ entities'[id].origin =
                  IF TypeOf[id] = "Unresolved" THEN "unresolved" ELSE "placeholder"
             /\ entities'[id].partial
      <3>1. at \in Nat
        BY DEF GraphInv, TypeOK
      <3>2. CASE MaterializeOnline
        <4>1. id = obs[at].to /\ entities'[id] = SeenAt(at, "online", FALSE)
          BY <1>2, <1>10, <3>2, OnlineEffect DEF Known
        <4>2. QED
          BY <3>1, <3>2, <4>1, OnlineEffect, SeenAtFields DEF Origins
      <3>3. CASE ResolveEdge
        <4>1. entities'[id] = SeenAt(at, IF TypeOf[id] = "Unresolved" THEN "unresolved"
                                         ELSE "placeholder", TRUE)
          BY <1>10, <3>3, ResolveEffect, ReportedKnown DEF Known, GraphInv
        <4>2. QED
          BY <3>1, <3>3, <4>1, SeenAtFields DEF Origins
      <3>4. CASE MarkCsdOnly
        BY <1>2, <1>10, <3>4, MarkEffect DEF Known
      <3>5. QED
        BY <1>10, <3>2, <3>3, <3>4, QuietSteps DEF Next
    <2>3. pc \notin {"index", "merge"}
      BY <2>2, OnlineEffect, ResolvePc
    <2> HIDE DEF SaysPartial, CsdProgram
    <2>4. QED
      BY <2>1, <2>2, <2>3
  <1>11. QED
    BY <1>7, <1>8, <1>9, <1>10

\* What a step adds to the edges.
LEMMA EdgesStep ==
  ASSUME GraphInv, [Next]_vars, NEW e \in edges' \ edges
  PROVE  \/ /\ MaterializeOnline
            /\ e = [type |-> "BINDS_TO", from |-> obs[at].to, to |-> csd[FileOf[obs[at].to]],
                    via |-> at]
            /\ csd[FileOf[obs[at].to]] # NoId
         \/ /\ ResolveEdge
            /\ e = [type |-> obs[at].type, from |-> obs[at].from, to |-> obs[at].to, via |-> at]
         \/ /\ DeriveExpandsTo
            /\ \E p \in Expansions :
                 e = [type |-> "EXPANDS_TO", from |-> p[1], to |-> p[2], via |-> 0]
  <1>1. CASE MaterializeOnline
    BY <1>1, OnlineEffect
  <1>2. CASE ResolveEdge
    BY <1>2 DEF ResolveEdge
  <1>3. CASE DeriveExpandsTo
    BY <1>3 DEF DeriveExpandsTo
  <1>4. CASE edges' = edges
    BY <1>4
  <1>5. QED
    BY <1>1, <1>2, <1>3, <1>4, MergeEffect, MarkEffect
    DEF Next, vars, Skip, EndOfLoop, IndexBinding, DeriveProperties, CollectPartial, Finish

\* No step removes an edge.
LEMMA EdgesGrow ==
  ASSUME GraphInv, [Next]_vars
  PROVE  edges \subseteq edges'
  BY MergeEffect, MarkEffect, OnlineEffect
  DEF Next, vars, Skip, EndOfLoop, IndexBinding, ResolveEdge, DeriveExpandsTo,
      DeriveProperties, CollectPartial, Finish

LEMMA EdgeSourcesStep ==
  ASSUME GraphInv, [Next]_vars
  PROVE  EdgeSources'
  <1>1. obs' = obs /\ EdgeSources
    BY ObsConstant DEF GraphInv
  <1>2. ASSUME NEW e \in edges', e.via # 0
        PROVE  /\ e.via \in 1..Len(obs)
               /\ obs[e.via].kind = "edge"
               /\ obs[e.via].dynamic => e.to = obs[e.via].to
    <2>1. CASE e \in edges
      BY <1>1, <1>2, <2>1 DEF EdgeSources
    <2>2. CASE MaterializeOnline /\ e \notin edges
      <3>1. e.via = at
        BY <2>2, EdgesStep DEF MaterializeOnline, ResolveEdge, DeriveExpandsTo, Handles
      <3>2. QED
        BY <2>2, <3>1, OnlineEffect
    <2>3. CASE ResolveEdge /\ e \notin edges
      <3>1. e.via = at /\ e.to = obs[at].to
        BY <2>3, EdgesStep DEF MaterializeOnline, ResolveEdge, DeriveExpandsTo, Handles
      <3>2. QED
        BY <2>3, <3>1, ResolveEffect, ReportedKnown DEF GraphInv
    <2>4. QED
      BY <1>2, <2>1, <2>2, <2>3, EdgesStep
  <1>3. ASSUME pc' \in {"index", "merge", "programs"}
        PROVE  edges' = {}
    <2>1. pc \in {"index", "merge", "programs"}
      <3>1. CASE EndOfLoop
        BY <1>3, <3>1 DEF EndOfLoop, NextPhase, Loops
      <3>2. CASE pc' = pc
        BY <1>3, <3>2
      <3>3. QED
        BY <1>3, <3>1, <3>2
        DEF Next, vars, Skip, IndexBinding, Merge, MarkCsdOnly, MaterializeOnline, ResolveEdge,
            Handles, DeriveExpandsTo, DeriveProperties, CollectPartial, Finish
    <2>2. ~MaterializeOnline /\ ~ResolveEdge /\ ~DeriveExpandsTo
      BY <2>1 DEF MaterializeOnline, ResolveEdge, Handles, DeriveExpandsTo
    <2>3. QED
      BY <1>1, <2>1, <2>2, EdgesStep, EdgesGrow DEF EdgeSources
  <1>4. QED
    BY <1>1, <1>2, <1>3 DEF EdgeSources

LEMMA EdgesClosedStep ==
  ASSUME GraphInv, [Next]_vars
  PROVE  EdgesClosed'
  <1>1. \A id \in Known : id \in Known'
    BY EntitiesGrow
  <1>2. SUFFICES ASSUME NEW e \in edges'
                 PROVE  e.from \in Known' /\ e.to \in Known'
    BY DEF EdgesClosed
  <1>3. CASE e \in edges
    BY <1>1, <1>3 DEF GraphInv, EdgesClosed
  <1>4. CASE MaterializeOnline /\ e \notin edges
    <2> DEFINE lf == obs[at].to
               ds == csd[FileOf[obs[at].to]]
    <2>1. /\ e.from = lf /\ e.to = ds /\ ds # NoId
      BY <1>4, EdgesStep DEF MaterializeOnline, ResolveEdge, DeriveExpandsTo, Handles
    <2>2. /\ pc = "online" /\ lf \in Ids /\ FileOf[lf] \in Files
          /\ entities' = [entities EXCEPT ![lf] = SeenAt(at, "online", FALSE)]
          /\ SeenAt(at, "online", FALSE) # NoEntity
      BY <1>4, OnlineEffect
    <2>3. lf \in Known'
      BY <2>2 DEF Known, GraphInv, TypeOK
    <2>4. ds \in Ids /\ Candidates(ds) # {}
      BY <2>1, <2>2 DEF GraphInv, TypeOK, HintsDeclared
    <2>5. ds \in Known
      BY <2>2, <2>4 DEF GraphInv, MergeProgress
    <2>6. QED
      BY <1>1, <2>1, <2>3, <2>5
  <1>5. CASE ResolveEdge /\ e \notin edges
    <2>1. e.from = obs[at].from /\ e.to = obs[at].to
      BY <1>5, EdgesStep DEF MaterializeOnline, ResolveEdge, DeriveExpandsTo, Handles
    <2>2. at \in Nat
      BY DEF GraphInv, TypeOK
    <2>3. ASSUME NEW id \in {obs[at].from, obs[at].to}
          PROVE  id \in Known'
      <3>1. id \in Ids
        BY <1>5, ResolveEffect, ReportedKnown DEF GraphInv
      <3>2. CASE id \in Known
        BY <1>1, <3>2
      <3>3. CASE id \notin Known
        <4>1. entities'[id] = SeenAt(at, IF TypeOf[id] = "Unresolved" THEN "unresolved"
                                         ELSE "placeholder", TRUE)
          BY <1>5, <3>1, <3>3, ResolveEffect, ReportedKnown DEF GraphInv
        <4>2. entities'[id] # NoEntity
          BY <2>2, <4>1, SeenAtFields DEF Origins
        <4>3. QED
          BY <3>1, <4>2 DEF Known
      <3>4. QED
        BY <3>2, <3>3
    <2>4. QED
      BY <2>1, <2>3
  <1>6. CASE DeriveExpandsTo /\ e \notin edges
    <2>1. PICK p \in Expansions : e = [type |-> "EXPANDS_TO", from |-> p[1], to |-> p[2], via |-> 0]
      BY <1>6, EdgesStep DEF MaterializeOnline, ResolveEdge, DeriveExpandsTo, Handles
    <2>2. p[1] \in Known /\ p[2] \in Known
      BY DEF Expansions
    <2>3. QED
      BY <1>1, <2>1, <2>2
  <1>7. QED
    BY <1>3, <1>4, <1>5, <1>6, EdgesStep

\* What a step adds to the report: one id for each entity it finds or makes
\* partial, none of which was reported before.
LEMMA ReportStep ==
  ASSUME GraphInv, [Next]_vars
  PROVE  /\ Distinct(unresolved')
         /\ Reported' =
              Reported \cup
                {id \in Ids : \/ MarkCsdOnly /\ id = obs[at].id
                              \/ ResolveEdge /\ id \in {obs[at].from, obs[at].to} \ Known
                              \/ CollectPartial /\ id \in Reported'}
         /\ \A id \in Reported' : id \in Ids /\ id \in Known' /\ entities'[id].partial
  <1>1. \A id \in Reported : id \in Ids /\ id \in Known' /\ entities'[id].partial
    BY EntitiesGrow, ReportedKnown
  <1>2. Distinct(unresolved) /\ unresolved \in Seq(Report)
    BY ReportedKnown DEF GraphInv, TypeOK
  <1>3. CASE MarkCsdOnly
    <2> DEFINE m == obs[at].id
               r == [id |-> m, reason |-> "csd_only_no_source_body"]
    <2>1. /\ pc = "programs" /\ at \in 1..Len(obs) /\ m \in Known /\ m \in Ids
          /\ IsFirstCandidate(at)
          /\ unresolved' = Append(unresolved, r)
      BY <1>3, MarkEffect DEF Known
    <2>2. m \notin Reported
      BY <2>1 DEF GraphInv, TypeOK, ReportProgress, IsFirstCandidate
    <2>3. r \in Report /\ r.id = m
      BY <2>1 DEF Report
    <2> HIDE DEF r
    <2>4. Distinct(unresolved') /\ Reported' = Reported \cup {m}
      BY <1>2, <2>1, <2>2, <2>3, ReportAppended DEF Reported
    <2>5. m \in Known' /\ entities'[m].partial
      <3>1. entities' = [entities EXCEPT ![m].partial = TRUE] /\ entities[m] \in Entity
        BY <1>3, MarkEffect
      <3>2. entities'[m].partial
        BY <2>1, <3>1 DEF Entity, GraphInv, TypeOK
      <3>3. QED
        BY <2>1, <3>2, EntitiesGrow
    <2>6. ~ResolveEdge /\ ~CollectPartial
      BY <2>1 DEF ResolveEdge, Handles, CollectPartial
    <2>7. QED
      BY <1>1, <1>3, <2>1, <2>4, <2>5, <2>6
  <1>4. CASE ResolveEdge
    <2> DEFINE new == {obs[at].from, obs[at].to} \ Known
    <2>1. /\ Distinct(unresolved') /\ Reported' = Reported \cup new
          /\ new \subseteq Ids
      BY <1>4, ResolveEffect, ReportedKnown DEF GraphInv
    <2>2. ASSUME NEW id \in new
          PROVE  id \in Known' /\ entities'[id].partial
      <3>1. entities'[id] = SeenAt(at, IF TypeOf[id] = "Unresolved" THEN "unresolved"
                                       ELSE "placeholder", TRUE)
        BY <1>4, <2>1, ResolveEffect, ReportedKnown DEF GraphInv
      <3>2. at \in Nat
        BY DEF GraphInv, TypeOK
      <3>3. entities'[id] # NoEntity /\ entities'[id].partial
        BY <3>1, <3>2, SeenAtFields DEF Origins
      <3>4. QED
        BY <2>1, <3>3 DEF Known
    <2>3. ~MarkCsdOnly /\ ~CollectPartial
      BY <1>4 DEF ResolveEdge, Handles, CollectPartial, MarkCsdOnly
    <2>4. QED
      BY <1>1, <1>4, <2>1, <2>2, <2>3
  <1>5. CASE CollectPartial
    <2>1. PICK id \in Ids :
            /\ IsPartial(id) /\ id \notin Reported
            /\ unresolved' = Append(unresolved, [id |-> id, reason |-> "partial_entity"])
      BY <1>5 DEF CollectPartial
    <2> DEFINE r == [id |-> id, reason |-> "partial_entity"]
    <2>2. r \in Report /\ r.id = id
      BY DEF Report
    <2>3. unresolved' = Append(unresolved, r)
      BY <2>1
    <2> HIDE DEF r
    <2>4. Distinct(unresolved') /\ Reported' = Reported \cup {id}
      BY <1>2, <2>1, <2>2, <2>3, ReportAppended DEF Reported
    <2>5. id \in Known' /\ entities'[id].partial
      BY <2>1, EntitiesGrow DEF IsPartial, Known
    <2>6. ~MarkCsdOnly /\ ~ResolveEdge
      BY <1>5 DEF ResolveEdge, Handles, CollectPartial, MarkCsdOnly
    <2>7. QED
      BY <1>1, <1>5, <2>4, <2>5, <2>6
  <1>6. CASE unresolved' = unresolved /\ ~MarkCsdOnly /\ ~ResolveEdge
    BY <1>1, <1>2, <1>6 DEF Reported
  <1>7. QED
    BY <1>3, <1>4, <1>5, <1>6, MergeEffect, OnlineEffect
    DEF Next, vars, Skip, EndOfLoop, IndexBinding, DeriveExpandsTo, DeriveProperties, Finish

LEMMA ReportProgressStep ==
  ASSUME GraphInv, [Next]_vars
  PROVE  ReportProgress'
  <1>1. /\ at \in Nat \ {0} /\ Len(obs) \in Nat /\ obs' = obs /\ ReportProgress
        /\ \A k, id : IsCandidate(k, id)' <=> IsCandidate(k, id)
    BY ObsConstant DEF GraphInv, TypeOK
  <1>2. CASE MarkCsdOnly
    <2>1. /\ pc = "programs" /\ pc' = "programs" /\ at' = at + 1 /\ at \in 1..Len(obs)
          /\ IsCandidate(at, obs[at].id)
      BY <1>2, MarkEffect
    <2>2. \A id \in Reported' : id \in Reported \/ id = obs[at].id
      BY <1>2, ReportStep DEF ResolveEdge, Handles, CollectPartial, MarkCsdOnly
    <2>3. QED
      BY <1>1, <2>1, <2>2 DEF ReportProgress
  <1>3. CASE EndOfLoop
    <2>1. /\ pc \in Loops /\ pc' = NextPhase(pc) /\ unresolved' = unresolved
      BY <1>3 DEF EndOfLoop
    <2>2. CASE pc = "merge"
      <3>1. pc' = "programs" /\ Reported' = {}
        BY <1>1, <2>1, <2>2 DEF NextPhase, ReportProgress, Reported, IdsOf
      <3>2. QED
        BY <3>1 DEF ReportProgress
    <2>3. CASE pc # "merge"
      BY <1>1, <2>1, <2>3 DEF NextPhase, ReportProgress, Loops
    <2>4. QED
      BY <2>2, <2>3
  <1>4. CASE Skip
    BY <1>1, <1>4 DEF Skip, ReportProgress, Reported
  <1>5. CASE UNCHANGED vars
    BY <1>1, <1>5 DEF vars, ReportProgress, Reported
  <1>6. CASE IndexBinding \/ Merge
    BY <1>1, <1>6 DEF IndexBinding, Merge, Handles, ReportProgress
  <1>7. CASE MaterializeOnline \/ ResolveEdge \/ DeriveExpandsTo \/ DeriveProperties
               \/ CollectPartial \/ Finish
    <2>1. pc' \notin {"index", "merge", "programs"}
      BY <1>7 DEF MaterializeOnline, ResolveEdge, Handles, DeriveExpandsTo, DeriveProperties,
                  CollectPartial, Finish
    <2>2. QED
      BY <2>1 DEF ReportProgress
  <1>8. QED
    BY <1>2, <1>3, <1>4, <1>5, <1>6, <1>7 DEF Next

LEMMA PartialsReportedOnceStep ==
  ASSUME GraphInv, [Next]_vars
  PROVE  PartialsReportedOnce'
  <1>1. Distinct(unresolved') /\ \A id \in Reported' : IsPartial(id)'
    BY ReportStep DEF IsPartial, Known
  <1>2. ASSUME pc' = "done"
        PROVE  \A id \in Ids : IsPartial(id)' => id \in Reported'
    <2>1. CASE Finish
      BY <2>1 DEF Finish, IsPartial, Reported
    <2>2. CASE UNCHANGED vars
      BY <1>2, <2>2 DEF vars, GraphInv, PartialsReportedOnce, IsPartial, Reported
    <2>3. CASE EndOfLoop
      BY <1>2, <2>3 DEF EndOfLoop, NextPhase, Loops
    <2>4. QED
      BY <1>2, <2>1, <2>2, <2>3
      DEF Next, Skip, IndexBinding, Merge, MarkCsdOnly, MaterializeOnline, ResolveEdge,
          Handles, DeriveExpandsTo, DeriveProperties, CollectPartial, Loops
  <1>3. QED
    BY <1>1, <1>2 DEF PartialsReportedOnce

LEMMA NextInv ==
  ASSUME GraphInv, [Next]_vars
  PROVE  GraphInv'
  BY NextTypeOK, MergeProgressStep, HintsDeclaredStep, OriginsSoundStep, EdgeSourcesStep,
     EdgesClosedStep, ReportProgressStep, PartialsReportedOnceStep
  DEF GraphInv

\* The inductive invariant holds in every reachable state.
THEOREM InvariantHolds == Spec => []GraphInv
  <1>1. Init => GraphInv
    BY InitInv
  <1>2. GraphInv /\ [Next]_vars => GraphInv'
    BY NextInv
  <1>3. QED
    BY <1>1, <1>2, PTL DEF Spec

-----------------------------------------------------------------------------
(* Safety *)

\* No edge ever dangles, whatever the extractors emit and in whatever order.
THEOREM NoDanglingEdge == Spec => []EdgesClosed
  BY InvariantHolds, PTL DEF GraphInv

\* The unresolved report lists every partial entity once, and nothing else.
THEOREM PartialsReported == Spec => []PartialsReportedOnce
  BY InvariantHolds, PTL DEF GraphInv

LEMMA InvUnresolved == GraphInv => DynamicNeverPromoted
  <1> SUFFICES ASSUME GraphInv, NEW e \in edges,
                      e.via # 0, e.type = obs[e.via].type, obs[e.via].dynamic
               PROVE  /\ entities[e.to].origin = "unresolved"
                      /\ IsPartial(e.to)
                      /\ ~IsAppProgram(e.to)
    BY DEF DynamicNeverPromoted
  <1>1. /\ e.via \in 1..Len(obs) /\ obs[e.via].kind = "edge" /\ e.to = obs[e.via].to
    BY DEF GraphInv, EdgeSources
  <1>2. TypeOf[e.to] = "Unresolved"
    BY <1>1 DEF GraphInv, TypeOK, ExtractorContract
  <1>3. e.to \in Known
    BY DEF GraphInv, EdgesClosed
  <1>4. entities[e.to].origin = "unresolved" /\ entities[e.to].partial
    BY <1>2, <1>3 DEF GraphInv, OriginsSound
  <1>5. QED
    BY <1>3, <1>4 DEF IsPartial, IsAppProgram, Known

\* The target of a dynamic call stays a partial placeholder.
THEOREM DynamicTargetsStayUnresolved == Spec => []DynamicNeverPromoted
  BY InvUnresolved, InvariantHolds, PTL

LEMMA InvOutrank == GraphInv => ObservedOutranksReferenced
  <1> SUFFICES ASSUME GraphInv, pc \notin {"index", "merge"}, NEW id \in Known
               PROVE  IF Candidates(id) = {} THEN entities[id].origin # "merged"
                      ELSE /\ entities[id].origin = "merged"
                           /\ entities[id].prov = Candidates(id)
                           /\ pc \notin {"programs"} =>
                                (entities[id].partial <=>
                                   \/ \E k \in Candidates(id) : obs[k].partial
                                   \/ TypeOf[id] = "Program" /\ CsdOnly(id))
    BY DEF ObservedOutranksReferenced
  <1>1. pc # "programs" => Swept(id)
    BY DEF Swept
  <1>2. QED
    BY <1>1 DEF GraphInv, OriginsSound

\* A declaration outranks every reference, in whatever order the two are seen.
THEOREM DeclarationsOutrankReferences == Spec => []ObservedOutranksReferenced
  BY InvOutrank, InvariantHolds, PTL

-----------------------------------------------------------------------------
(* Action property *)

LEMMA ConflictsGrow ==
  ASSUME [Next]_vars
  PROVE  conflicts \subseteq conflicts'
  BY DEF Next, vars, Skip, EndOfLoop, IndexBinding, Merge, MarkCsdOnly, MaterializeOnline,
         ResolveEdge, DeriveExpandsTo, DeriveProperties, CollectPartial, Finish

\* A report only gets longer at its end.
LEMMA AppendKeeps ==
  ASSUME NEW log \in Seq(Report), NEW r \in Report
  PROVE  /\ Append(log, r) \in Seq(Report)
         /\ \A n \in 1..Len(log) : n <= Len(Append(log, r)) /\ Append(log, r)[n] = log[n]
  BY AppendProperties, LenProperties

LEMMA ReportGrows ==
  ASSUME GraphInv, [Next]_vars
  PROVE  \A n \in 1..Len(unresolved) : n <= Len(unresolved') /\ unresolved'[n] = unresolved[n]
  <1> DEFINE Extends(new) == \A n \in 1..Len(unresolved) :
                                n <= Len(new) /\ new[n] = unresolved[n]
  <1>1. unresolved \in Seq(Report) /\ Len(unresolved) \in Nat
    BY LenProperties DEF GraphInv, TypeOK
  <1>2. CASE MarkCsdOnly
    <2>1. obs[at].id \in Ids /\
          unresolved' = Append(unresolved, [id |-> obs[at].id, reason |-> "csd_only_no_source_body"])
      BY <1>2, MarkEffect DEF Known
    <2>2. [id |-> obs[at].id, reason |-> "csd_only_no_source_body"] \in Report
      BY <2>1 DEF Report
    <2>3. QED
      BY <1>1, <2>1, <2>2, AppendKeeps
  <1>3. CASE CollectPartial
    <2>1. PICK id \in Ids :
            unresolved' = Append(unresolved, [id |-> id, reason |-> "partial_entity"])
      BY <1>3 DEF CollectPartial
    <2>2. [id |-> id, reason |-> "partial_entity"] \in Report
      BY DEF Report
    <2>3. QED
      BY <1>1, <2>1, <2>2, AppendKeeps
  <1>4. CASE ResolveEdge
    <2> DEFINE o == obs[at]
               ents == IF o.dynamic THEN MaterializeUnresolved(entities, o.to, at)
                                    ELSE EnsureEndpoint(entities, o.to, at)
               log  == IF o.dynamic THEN ReportUnresolved(entities, o.to, unresolved)
                                    ELSE ReportEndpoint(entities, o.to, unresolved)
    <2>1. o.to \in Ids /\ o.from \in Ids
      BY <1>4, ResolveEffect, ReportedKnown DEF GraphInv
    <2>2. ASSUME NEW id \in Ids
          PROVE  /\ [id |-> id, reason |-> "external_reference_no_source_body"] \in Report
                 /\ [id |-> id, reason |-> "dynamic_call"] \in Report
      BY DEF Report
    <2>3. log \in Seq(Report) /\ Extends(log)
      BY <1>1, <2>1, <2>2, AppendKeeps DEF ReportUnresolved, ReportEndpoint
    <2>4. unresolved' = ReportEndpoint(ents, o.from, log)
      BY <1>4 DEF ResolveEdge
    <2> HIDE DEF log, ents
    <2>5. \A n \in 1..Len(log) : n <= Len(unresolved') /\ unresolved'[n] = log[n]
      <3>1. CASE unresolved' = log
        BY <2>3, <3>1, LenProperties
      <3>2. CASE unresolved' = Append(log, [id |-> o.from,
                                            reason |-> "external_reference_no_source_body"])
        BY <2>1, <2>2, <2>3, <3>2, AppendKeeps
      <3>3. QED
        BY <2>4, <3>1, <3>2 DEF ReportEndpoint
    <2>6. Len(log) \in Nat
      BY <2>3, LenProperties
    <2>7. QED
      BY <1>1, <2>3, <2>5, <2>6
  <1>5. CASE unresolved' = unresolved
    BY <1>1, <1>5
  <1>6. QED
    BY <1>2, <1>3, <1>4, <1>5, MergeEffect, OnlineEffect
    DEF Next, vars, Skip, EndOfLoop, IndexBinding, DeriveExpandsTo, DeriveProperties, Finish

\* The skeleton only grows, in every step of every run.
THEOREM OnlyGrows == Spec => SkeletonOnlyGrows
  <1>1. GraphInv /\ [Next]_vars =>
          /\ Known \subseteq Known'
          /\ edges \subseteq edges'
          /\ conflicts \subseteq conflicts'
          /\ \A id \in Known :
               /\ entities'[id].origin = entities[id].origin
               /\ entities'[id].prov = entities[id].prov
               /\ entities[id].partial => entities'[id].partial
          /\ \A n \in 1..Len(unresolved) :
               n <= Len(unresolved') /\ unresolved'[n] = unresolved[n]
    <2> SUFFICES ASSUME GraphInv, [Next]_vars
                 PROVE  /\ Known \subseteq Known'
                        /\ edges \subseteq edges'
                        /\ conflicts \subseteq conflicts'
                        /\ \A id \in Known :
                             /\ entities'[id].origin = entities[id].origin
                             /\ entities'[id].prov = entities[id].prov
                             /\ entities[id].partial => entities'[id].partial
                        /\ \A n \in 1..Len(unresolved) :
                             n <= Len(unresolved') /\ unresolved'[n] = unresolved[n]
      OBVIOUS
    <2>1. \A id \in Known :
            /\ id \in Known'
            /\ entities'[id].origin = entities[id].origin
            /\ entities'[id].prov = entities[id].prov
            /\ entities[id].partial => entities'[id].partial
      BY EntitiesGrow
    <2>2. QED
      BY <2>1, EdgesGrow, ConflictsGrow, ReportGrows
  <1>2. QED
    BY <1>1, InvariantHolds, PTL DEF Spec, SkeletonOnlyGrows

-----------------------------------------------------------------------------
(* The resolver implements the abstract skeleton *)

\* The refinement mapping, by name.
Holes == {id \in Ids : IsPartial(id)}

LEMMA MapMerge ==
  ASSUME GraphInv, Merge
  PROVE  /\ \E n \in Known' : n \notin Known /\ Known' = Known \cup {n}
         /\ Holes' \ Holes \subseteq Known' \ Known
         /\ Holes \subseteq Holes'
         /\ edges' = edges /\ Reported' = Reported /\ pc # "done" /\ pc' # "done"
  <1> DEFINE m == obs[at].id
  <1>1. /\ m \in Ids /\ m \notin Known /\ pc = "merge" /\ pc' = "merge"
        /\ entities' = [entities EXCEPT ![m] = MergedEntity(m)]
        /\ MergedEntity(m) # NoEntity
        /\ edges' = edges /\ unresolved' = unresolved
    BY MergeEffect
  <1>2. entities \in [Ids -> Entity \cup {NoEntity}]
    BY DEF GraphInv, TypeOK
  <1>3. entities'[m] # NoEntity /\ \A id \in Ids : id # m => entities'[id] = entities[id]
    BY <1>1, <1>2
  <1>4. Known' = Known \cup {m}
    BY <1>1, <1>3 DEF Known
  <1>5. \A id \in Ids : id # m => (IsPartial(id)' <=> IsPartial(id))
    BY <1>3 DEF IsPartial
  <1>6. ~IsPartial(m)
    BY <1>1 DEF IsPartial, Known
  <1>7. QED
    BY <1>1, <1>4, <1>5, <1>6 DEF Holes, Reported

LEMMA MapMark ==
  ASSUME GraphInv, MarkCsdOnly
  PROVE  /\ \E n \in Known \ Reported : Holes' = Holes \cup {n} /\ Reported' = Reported \cup {n}
         /\ Known' = Known /\ edges' = edges /\ pc # "done" /\ pc' # "done"
  <1> DEFINE m == obs[at].id
  <1>1. /\ m \in Known /\ m \in Ids /\ pc = "programs" /\ pc' = "programs"
        /\ entities' = [entities EXCEPT ![m].partial = TRUE]
        /\ entities[m] \in Entity
        /\ entities'[m] # NoEntity
        /\ edges' = edges
        /\ at \in 1..Len(obs) /\ IsFirstCandidate(at)
    BY MarkEffect DEF Known
  <1>2. entities \in [Ids -> Entity \cup {NoEntity}]
    BY DEF GraphInv, TypeOK
  <1>3. /\ \A id \in Ids : id # m => entities'[id] = entities[id]
        /\ entities'[m].partial = TRUE
    BY <1>1, <1>2 DEF Entity
  <1>4. Known' = Known
    BY <1>1, <1>3 DEF Known
  <1>5. Holes' = Holes \cup {m}
    BY <1>1, <1>3 DEF Holes, IsPartial
  <1>6. m \notin Reported
    BY <1>1 DEF GraphInv, TypeOK, ReportProgress, IsFirstCandidate
  <1>7. ~ResolveEdge /\ ~CollectPartial
    BY <1>1 DEF ResolveEdge, Handles, CollectPartial
  <1>8. Reported' = Reported \cup {m}
    BY <1>1, <1>7, ReportStep DEF Next
  <1>9. QED
    BY <1>1, <1>4, <1>5, <1>6, <1>8

LEMMA MapOnline ==
  ASSUME GraphInv, MaterializeOnline
  PROVE  /\ \E n \in Known' :
              /\ n \notin Known /\ Known' = Known \cup {n}
              /\ \/ edges' = edges
                 \/ \E l \in edges' : l.from = n /\ l.to \in Known /\ edges' = edges \cup {l}
         /\ Holes' = Holes /\ Reported' = Reported /\ pc # "done" /\ pc' # "done"
  <1> DEFINE lf == obs[at].to
             ds == csd[FileOf[obs[at].to]]
             l  == [type |-> "BINDS_TO", from |-> lf, to |-> ds, via |-> at]
  <1>1. /\ lf \in Ids /\ lf \notin Known /\ pc = "online" /\ pc' = "online"
        /\ FileOf[lf] \in Files
        /\ entities' = [entities EXCEPT ![lf] = SeenAt(at, "online", FALSE)]
        /\ edges' = IF ds = NoId THEN edges ELSE edges \cup {l}
        /\ unresolved' = unresolved
    BY OnlineEffect
  <1>2. entities \in [Ids -> Entity \cup {NoEntity}] /\ at \in Nat
    BY DEF GraphInv, TypeOK
  <1>3. /\ \A id \in Ids : id # lf => entities'[id] = entities[id]
        /\ entities'[lf] # NoEntity /\ entities'[lf].partial = FALSE
    BY <1>1, <1>2, SeenAtFields DEF Origins
  <1>4. Known' = Known \cup {lf}
    BY <1>1, <1>3 DEF Known
  <1>5. Holes' = Holes
    BY <1>1, <1>3 DEF Holes, IsPartial, Known
  <1>6. ds # NoId => ds \in Known
    <2>1. ds # NoId => ds \in Ids /\ Candidates(ds) # {}
      BY <1>1 DEF GraphInv, TypeOK, HintsDeclared
    <2>2. QED
      BY <1>1, <2>1 DEF GraphInv, MergeProgress
  <1>7. l.from = lf /\ l.to = ds
    OBVIOUS
  <1> HIDE DEF l
  <1>8. QED
    BY <1>1, <1>4, <1>5, <1>6, <1>7 DEF Reported

LEMMA MapResolve ==
  ASSUME GraphInv, ResolveEdge
  PROVE  /\ \E l \in edges' :
              /\ edges' = edges \cup {l}
              /\ Known' = Known \cup ({l.from, l.to} \ Known)
              /\ Holes' = Holes \cup ({l.from, l.to} \ Known)
              /\ Reported' = Reported \cup ({l.from, l.to} \ Known)
         /\ pc # "done" /\ pc' # "done"
  <1> DEFINE o == obs[at]
             l == [type |-> o.type, from |-> o.from, to |-> o.to, via |-> at]
             ends == {o.from, o.to}
  <1>1. /\ ends \subseteq Ids
        /\ \A id \in Known : entities'[id] = entities[id]
        /\ \A id \in Ids \ Known :
             IF id \in ends
             THEN entities'[id] =
                    SeenAt(at, IF TypeOf[id] = "Unresolved" THEN "unresolved" ELSE "placeholder", TRUE)
             ELSE entities'[id] = NoEntity
        /\ Reported' = Reported \cup (ends \ Known)
    BY ResolveEffect, ReportedKnown DEF GraphInv
  <1>2. edges' = edges \cup {l}
    BY DEF ResolveEdge
  <1>3. ASSUME NEW id \in ends \ Known
        PROVE  entities'[id] # NoEntity /\ entities'[id].partial = TRUE
    <2>1. at \in Nat
      BY DEF GraphInv, TypeOK
    <2>2. entities'[id] =
            SeenAt(at, IF TypeOf[id] = "Unresolved" THEN "unresolved" ELSE "placeholder", TRUE)
      BY <1>1
    <2>3. QED
      BY <2>1, <2>2, SeenAtFields DEF Origins
  <1>4. Known' = Known \cup (ends \ Known)
    BY <1>1, <1>3 DEF Known
  <1>5. Holes' = Holes \cup (ends \ Known)
    BY <1>1, <1>3 DEF Holes, IsPartial, Known
  <1>6. l.from = o.from /\ l.to = o.to /\ l \in edges'
    BY <1>2
  <1> HIDE DEF l
  <1>7. QED
    BY <1>1, <1>2, <1>4, <1>5, <1>6, ResolvePc

\* The initial states are initial states of the skeleton.
LEMMA RefineInit ==
  ASSUME Init
  PROVE  Graph!Init
  BY DEF Init, Graph!Init, Known, IsPartial, Reported, IdsOf

\* Every step is a step of the skeleton or leaves it unchanged.
LEMMA RefineNext ==
  ASSUME GraphInv, [Next]_vars
  PROVE  [Graph!Next]_(Graph!svars)
  <1> USE DEF Graph!Next, Graph!svars, Holes
  <1>1. CASE Merge
    BY <1>1, MapMerge DEF Graph!Declare
  <1>2. CASE MarkCsdOnly
    BY <1>2, MapMark DEF Graph!MarkHole
  <1>3. CASE MaterializeOnline
    BY <1>3, MapOnline DEF Graph!Declare, Graph!DeclareBound
  <1>4. CASE ResolveEdge
    BY <1>4, MapResolve DEF Graph!Link, Graph!Ends
  <1>5. CASE DeriveExpandsTo
    <2>1. Holes' = Holes /\ Known' = Known /\ Reported' = Reported
      BY <1>5 DEF DeriveExpandsTo, IsPartial, Known, Reported
    <2>2. edges \subseteq edges' /\ \A l \in edges' \ edges : l.from \in Known /\ l.to \in Known
      BY <1>5, EdgesGrow, EdgesClosedStep, <2>1 DEF Next, EdgesClosed
    <2>3. pc # "done" /\ pc' # "done"
      BY <1>5 DEF DeriveExpandsTo
    <2>4. QED
      BY <2>1, <2>2, <2>3 DEF Graph!Derive, Graph!Ends
  <1>6. CASE CollectPartial
    <2>1. Holes' = Holes /\ Known' = Known /\ edges' = edges /\ pc # "done" /\ pc' # "done"
      BY <1>6 DEF CollectPartial, IsPartial, Known
    <2>2. PICK id \in Ids :
            /\ IsPartial(id) /\ id \notin Reported
            /\ unresolved' = Append(unresolved, [id |-> id, reason |-> "partial_entity"])
      BY <1>6 DEF CollectPartial
    <2> DEFINE r == [id |-> id, reason |-> "partial_entity"]
    <2>3. r \in Report /\ r.id = id /\ unresolved' = Append(unresolved, r)
      BY <2>2 DEF Report
    <2> HIDE DEF r
    <2>4. Reported' = Reported \cup {id}
      BY <2>2, <2>3, ReportAppended, ReportedKnown DEF Reported, GraphInv, TypeOK
    <2>5. QED
      BY <2>1, <2>2, <2>4 DEF Graph!List
  <1>7. CASE Finish
    <2>1. Reported = Holes
      BY <1>7, ReportedKnown DEF Finish, GraphInv, PartialsReportedOnce
    <2>2. Holes' = Holes /\ Known' = Known /\ edges' = edges /\ Reported' = Reported
      BY <1>7 DEF Finish, IsPartial, Known, Reported
    <2>3. pc # "done" /\ pc' = "done"
      BY <1>7 DEF Finish
    <2>4. QED
      BY <2>1, <2>2, <2>3 DEF Graph!Close
  <1>8. CASE Skip \/ EndOfLoop \/ IndexBinding \/ DeriveProperties \/ UNCHANGED vars
    <2>1. Holes' = Holes /\ Known' = Known /\ edges' = edges /\ Reported' = Reported
      BY <1>8 DEF Skip, EndOfLoop, IndexBinding, DeriveProperties, vars, IsPartial, Known, Reported
    <2>2. (pc' = "done") = (pc = "done")
      BY <1>8 DEF Skip, EndOfLoop, NextPhase, IndexBinding, Handles, DeriveProperties, vars, Loops
    <2>3. QED
      BY <2>1, <2>2
  <1>9. QED
    BY <1>1, <1>2, <1>3, <1>4, <1>5, <1>6, <1>7, <1>8 DEF Next

\* Whatever the extractors deliver, the resolver builds the graph the abstract
\* skeleton promises.
THEOREM Refinement == Spec => RefinesSkeleton
  <1>1. Init => Graph!Init
    BY RefineInit
  <1>2. GraphInv /\ [Next]_vars => [Graph!Next]_(Graph!svars)
    BY RefineNext
  <1>3. QED
    BY <1>1, <1>2, InvariantHolds, PTL DEF Spec, RefinesSkeleton, Graph!Spec

-----------------------------------------------------------------------------
(* What a step leaves alone *)

\* What is read off the observations never changes.
LEMMA ReadingConstant ==
  ASSUME [Next]_vars
  PROVE  /\ \A id : FirstOwner(id)' = FirstOwner(id) /\ FirstInvoked(id)' = FirstInvoked(id)
         /\ \A id : SourcePaths(id)' = SourcePaths(id)
         /\ \A f : DefinitionsOf(f)' = DefinitionsOf(f)
  <1>1. obs' = obs /\ \A id : Candidates(id)' = Candidates(id)
    BY ObsConstant
  <1>2. ASSUME NEW id
        PROVE  /\ FirstOwner(id)' = FirstOwner(id) /\ FirstInvoked(id)' = FirstInvoked(id)
               /\ SourcePaths(id)' = SourcePaths(id)
    <2>1. Candidates(id)' = Candidates(id)
      BY <1>1
    <2>2. FirstOwner(id)' = FirstOwner(id)
      BY <1>1, <2>1 DEF FirstOwner, Earliest
    <2>3. FirstInvoked(id)' = FirstInvoked(id)
      BY <1>1, <2>1 DEF FirstInvoked, Earliest
    <2>4. SourcePaths(id)' = SourcePaths(id)
      BY <1>1, <2>1 DEF SourcePaths
    <2>5. QED
      BY <2>2, <2>3, <2>4
  <1>3. \A f : DefinitionsOf(f)' = DefinitionsOf(f)
    BY <1>1 DEF DefinitionsOf
  <1>4. QED
    BY <1>2, <1>3

\* The owner and the callee of an entity never change.
LEMMA OwnersStay ==
  ASSUME GraphInv, [Next]_vars, NEW id \in Known
  PROVE  /\ entities'[id].owner = entities[id].owner
         /\ entities'[id].invoked = entities[id].invoked
  <1> USE DEF Known
  <1>1. CASE Merge
    BY <1>1, MergeEffect DEF GraphInv, TypeOK
  <1>2. CASE MarkCsdOnly
    <2> DEFINE m == obs[at].id
    <2>1. /\ m \in Known /\ entities[m] \in Entity
          /\ entities' = [entities EXCEPT ![m].partial = TRUE]
          /\ entities \in [Ids -> Entity \cup {NoEntity}]
      BY <1>2, MarkEffect DEF GraphInv, TypeOK
    <2>2. entities'[m].owner = entities[m].owner /\ entities'[m].invoked = entities[m].invoked
      BY <2>1 DEF Entity
    <2>3. \A x \in Ids : x # m => entities'[x] = entities[x]
      BY <2>1
    <2>4. QED
      BY <2>2, <2>3
  <1>3. CASE MaterializeOnline
    BY <1>3, OnlineEffect DEF GraphInv, TypeOK
  <1>4. CASE ResolveEdge
    BY <1>4, ResolveEffect, ReportedKnown DEF GraphInv
  <1>5. CASE entities' = entities
    BY <1>5
  <1>6. QED
    BY <1>1, <1>2, <1>3, <1>4, <1>5, QuietSteps DEF Next

\* How an entity comes to be.
LEMMA NewEntity ==
  ASSUME GraphInv, [Next]_vars, NEW id \in Known', id \notin Known
  PROVE  /\ id \in Ids
         /\ \/ Merge /\ id = obs[at].id /\ entities'[id] = MergedEntity(id)
            \/ MaterializeOnline /\ id = obs[at].to /\ entities'[id] = SeenAt(at, "online", FALSE)
            \/ /\ ResolveEdge /\ id \in {obs[at].from, obs[at].to}
               /\ \E origin \in {"unresolved", "placeholder"} : entities'[id] = SeenAt(at, origin, TRUE)
         /\ ~Merge => Candidates(id) = {}
  <1> USE DEF Known
  <1>1. entities \in [Ids -> Entity \cup {NoEntity}] /\ id \in Ids
    BY DEF GraphInv, TypeOK
  <1>2. CASE Merge
    BY <1>1, <1>2, MergeEffect
  <1>3. CASE MarkCsdOnly
    BY <1>1, <1>3, MarkEffect
  <1>4. CASE MaterializeOnline
    <2>1. id = obs[at].to /\ entities'[id] = SeenAt(at, "online", FALSE)
      BY <1>1, <1>4, OnlineEffect
    <2>2. Candidates(id) = {}
      BY <1>1, <1>4, OnlineEffect DEF GraphInv, MergeProgress
    <2>3. QED
      BY <1>1, <1>4, <2>1, <2>2
  <1>5. CASE ResolveEdge
    <2>1. /\ id \in {obs[at].from, obs[at].to}
          /\ entities'[id] =
               SeenAt(at, IF TypeOf[id] = "Unresolved" THEN "unresolved" ELSE "placeholder", TRUE)
      BY <1>1, <1>5, ResolveEffect, ReportedKnown DEF GraphInv
    <2>2. Candidates(id) = {}
      BY <1>1, <1>5, ResolvePc DEF GraphInv, MergeProgress
    <2>3. QED
      BY <1>1, <1>5, <2>1, <2>2
  <1>6. QED
    BY <1>2, <1>3, <1>4, <1>5, QuietSteps DEF Next

\* Which loop comes next, and when.
LEMMA Phases ==
  ASSUME GraphInv, [Next]_vars
  PROVE  /\ at \in Nat \ {0} /\ Len(obs) \in Nat
         /\ \/ pc' = pc
            \/ EndOfLoop /\ pc' = NextPhase(pc) /\ at' = 1
            \/ DeriveExpandsTo \/ DeriveProperties \/ Finish
         /\ pc \notin {"index"} => pc' \notin {"index"} /\ csd' = csd
         /\ pc \in {"derive", "collect", "done"} =>
              pc' \in {"derive", "collect", "done"} /\ entities' = entities /\ edges' = edges
  <1>1. at \in Nat \ {0} /\ Len(obs) \in Nat
    BY DEF GraphInv, TypeOK
  <1>2. CASE Skip \/ UNCHANGED vars
    BY <1>1, <1>2 DEF Skip, vars
  <1>3. CASE EndOfLoop
    BY <1>1, <1>3 DEF EndOfLoop, NextPhase, Loops
  <1>4. CASE IndexBinding \/ Merge \/ MarkCsdOnly \/ MaterializeOnline \/ ResolveEdge
    BY <1>1, <1>4 DEF IndexBinding, Merge, MarkCsdOnly, MaterializeOnline, ResolveEdge, Handles
  <1>5. CASE DeriveExpandsTo \/ DeriveProperties \/ CollectPartial \/ Finish
    BY <1>1, <1>5 DEF DeriveExpandsTo, DeriveProperties, CollectPartial, Finish
  <1>6. QED
    BY <1>2, <1>3, <1>4, <1>5 DEF Next

-----------------------------------------------------------------------------
(* Hints, owners and collisions *)

LEMMA HintsAreLastStep ==
  ASSUME GraphInv, HintsAreLast, [Next]_vars
  PROVE  HintsAreLast'
  <1>1. /\ \A f : DefinitionsOf(f)' = DefinitionsOf(f)
        /\ obs' = obs /\ at \in Nat \ {0} /\ Len(obs) \in Nat
        /\ csd \in [Files -> Ids \cup {NoId}]
        /\ \A f : \A k \in DefinitionsOf(f) : k \in 1..Len(obs) /\ obs[k].kind = "csd" /\ obs[k].file = f
    BY ReadingConstant, ObsConstant DEF GraphInv, TypeOK, DefinitionsOf
  <1>2. ASSUME NEW f \in Files, Passed(f)' = Passed(f), csd'[f] = csd[f]
        PROVE  IF Passed(f)' = {} THEN csd'[f] = NoId
               ELSE \E k \in Passed(f)' : csd'[f] = obs'[k].dataset /\ \A j \in Passed(f)' : j <= k
    BY <1>1, <1>2 DEF HintsAreLast
  <1>3. CASE pc # "index"
    <2>1. pc' # "index" /\ csd' = csd
      BY <1>3, Phases
    <2>2. \A f \in Files : Passed(f)' = Passed(f)
      BY <1>1, <1>3, <2>1 DEF Passed
    <2>3. QED
      BY <1>2, <2>1, <2>2 DEF HintsAreLast
  <1>4. CASE IndexBinding
    <2>1. /\ pc = "index" /\ pc' = "index" /\ at' = at + 1 /\ at \in 1..Len(obs)
          /\ obs[at].kind = "csd" /\ csd' = [csd EXCEPT ![obs[at].file] = obs[at].dataset]
      BY <1>1, <1>4 DEF IndexBinding, Handles, Acts
    <2>2. ASSUME NEW f \in Files, f # obs[at].file
          PROVE  Passed(f)' = Passed(f) /\ csd'[f] = csd[f]
      <3>1. at \notin DefinitionsOf(f)
        BY <1>1, <2>2
      <3>2. \A k \in DefinitionsOf(f) : k < at + 1 <=> k < at
        BY <1>1, <3>1
      <3>3. QED
        BY <1>1, <2>1, <2>2, <3>2 DEF Passed
    <2>3. ASSUME NEW f \in Files, f = obs[at].file
          PROVE  /\ at \in Passed(f)' /\ csd'[f] = obs[at].dataset
                 /\ \A j \in Passed(f)' : j <= at
      <3>1. at \in DefinitionsOf(f)
        BY <2>1, <2>3 DEF DefinitionsOf
      <3>2. \A j \in DefinitionsOf(f) : j < at + 1 => j <= at
        BY <1>1
      <3>3. QED
        BY <1>1, <2>1, <2>3, <3>1, <3>2 DEF Passed
    <2>4. ASSUME NEW f \in Files, f = obs[at].file
          PROVE  IF Passed(f)' = {} THEN csd'[f] = NoId
                 ELSE \E k \in Passed(f)' : csd'[f] = obs'[k].dataset /\ \A j \in Passed(f)' : j <= k
      BY <1>1, <2>3, <2>4
    <2>5. QED
      BY <1>2, <2>2, <2>4 DEF HintsAreLast
  <1>5. CASE pc = "index" /\ Skip
    <2>1. pc' = pc /\ at' = at + 1 /\ csd' = csd /\ at \in 1..Len(obs) /\ obs[at].kind # "csd"
      BY <1>1, <1>5 DEF Skip, Acts
    <2>2. ASSUME NEW f \in Files
          PROVE  Passed(f)' = Passed(f)
      <3>1. \A k \in DefinitionsOf(f) : k < at + 1 <=> k < at
        BY <1>1, <2>1
      <3>2. QED
        BY <1>1, <1>5, <2>1, <3>1 DEF Passed
    <2>3. QED
      BY <1>2, <2>1, <2>2 DEF HintsAreLast
  <1>6. CASE pc = "index" /\ EndOfLoop
    <2>1. pc' = "merge" /\ csd' = csd /\ at > Len(obs)
      BY <1>6 DEF EndOfLoop, NextPhase
    <2>2. ASSUME NEW f \in Files
          PROVE  Passed(f)' = Passed(f)
      <3>1. \A k \in DefinitionsOf(f) : k < at
        BY <1>1, <2>1
      <3>2. QED
        BY <1>1, <2>1, <3>1 DEF Passed
    <2>3. QED
      BY <1>2, <2>1, <2>2 DEF HintsAreLast
  <1>7. CASE UNCHANGED vars
    <2>1. csd' = csd /\ \A f \in Files : Passed(f)' = Passed(f)
      BY <1>1, <1>7 DEF vars, Passed
    <2>2. QED
      BY <1>2, <2>1 DEF HintsAreLast
  <1>8. QED
    BY <1>3, <1>4, <1>5, <1>6, <1>7
    DEF Next, Merge, MarkCsdOnly, MaterializeOnline, ResolveEdge, Handles, DeriveExpandsTo,
        DeriveProperties, CollectPartial, Finish

LEMMA OwnersKeptStep ==
  ASSUME GraphInv, OwnersKept, [Next]_vars
  PROVE  OwnersKept'
  <1> SUFFICES ASSUME NEW id \in Known'
               PROVE  /\ entities'[id].owner = FirstOwner(id)
                      /\ entities'[id].invoked = FirstInvoked(id)
    BY ReadingConstant DEF OwnersKept
  <1>1. CASE id \in Known
    BY <1>1, OwnersStay DEF OwnersKept
  <1>2. CASE id \notin Known /\ Merge
    <2>1. entities'[id] = MergedEntity(id)
      BY <1>2, NewEntity DEF Merge, MaterializeOnline, ResolveEdge, Handles
    <2>2. QED
      BY <2>1 DEF MergedEntity
  <1>3. CASE id \notin Known /\ ~Merge
    <2>1. /\ entities'[id].owner = NoId /\ entities'[id].invoked = NoId
          /\ Candidates(id) = {}
      BY <1>3, NewEntity DEF SeenAt
    <2>2. FirstOwner(id) = NoId /\ FirstInvoked(id) = NoId
      BY <2>1 DEF FirstOwner, FirstInvoked
    <2>3. QED
      BY <2>1, <2>2
  <1>4. QED
    BY <1>1, <1>2, <1>3

LEMMA CollisionsLoggedStep ==
  ASSUME GraphInv, CollisionsLogged, [Next]_vars
  PROVE  CollisionsLogged'
  <1> SUFFICES ASSUME NEW id \in Known', TypeOf[id] = "JCLProc", Cardinality(SourcePaths(id)) > 1
               PROVE  id \in conflicts'
    BY ReadingConstant DEF CollisionsLogged
  <1>1. CASE id \in Known
    BY <1>1, ConflictsGrow DEF CollisionsLogged
  <1>2. CASE id \notin Known /\ Merge
    <2>1. id = obs[at].id
      BY <1>2, NewEntity DEF Merge, MaterializeOnline, ResolveEdge, Handles
    <2>2. QED
      BY <1>2, <2>1 DEF Merge
  <1>3. CASE id \notin Known /\ ~Merge
    <2>1. Candidates(id) = {}
      BY <1>3, NewEntity
    <2>2. SourcePaths(id) = {}
      BY <2>1 DEF SourcePaths
    <2>3. QED
      BY <2>2, FS_EmptySet
  <1>4. QED
    BY <1>1, <1>2, <1>3

-----------------------------------------------------------------------------
(* Where the edges come from *)

LEMMA ExpansionsFixed ==
  ASSUME GraphInv, [Next]_vars, entities' = entities
  PROVE  Expansions' = Expansions
  BY DEF Expansions, Known

LEMMA EdgesAreFoundedStep ==
  ASSUME GraphInv, EdgesAreFounded, [Next]_vars
  PROVE  EdgesAreFounded'
  <1> SUFFICES ASSUME NEW e \in edges'
               PROVE  IsObserved(e)' \/ IsBinding(e)' \/ IsExpansion(e)'
    BY DEF EdgesAreFounded
  <1>1. obs' = obs
    BY ObsConstant
  <1>2. CASE e \in edges
    <2>1. pc # "index" /\ csd' = csd /\ e.from \in Known
      BY <1>2, Phases DEF GraphInv, EdgeSources, EdgesClosed
    <2>2. CASE IsObserved(e)
      BY <1>1, <2>2 DEF IsObserved
    <2>3. CASE IsBinding(e)
      BY <2>1, <2>3, EntitiesGrow DEF IsBinding
    <2>4. CASE IsExpansion(e)
      <3>1. entities' = entities /\ pc' \in {"derive", "collect", "done"}
        BY <2>4, Phases DEF IsExpansion
      <3>2. QED
        BY <2>4, <3>1, ExpansionsFixed DEF IsExpansion
    <2>5. QED
      BY <1>2, <2>2, <2>3, <2>4 DEF EdgesAreFounded
  <1>3. CASE e \notin edges /\ MaterializeOnline
    <2>1. /\ e.type = "BINDS_TO" /\ e.from = obs[at].to /\ e.to = csd[FileOf[obs[at].to]]
          /\ e.to # NoId
      BY <1>3, EdgesStep DEF MaterializeOnline, ResolveEdge, DeriveExpandsTo, Handles
    <2>2. /\ entities'[obs[at].to] = SeenAt(at, "online", FALSE) /\ csd' = csd
      BY <1>3, OnlineEffect DEF GraphInv, TypeOK
    <2>3. entities'[e.from].origin = "online"
      BY <2>1, <2>2 DEF SeenAt
    <2>4. QED
      BY <2>1, <2>2, <2>3 DEF IsBinding
  <1>4. CASE e \notin edges /\ ResolveEdge
    <2>1. /\ e.type = obs[at].type /\ e.from = obs[at].from /\ e.to = obs[at].to /\ e.via = at
      BY <1>4, EdgesStep DEF MaterializeOnline, ResolveEdge, DeriveExpandsTo, Handles
    <2>2. at \in 1..Len(obs) /\ obs[at].kind = "edge"
      BY <1>4, ResolveEffect, ReportedKnown DEF GraphInv
    <2>3. QED
      BY <1>1, <2>1, <2>2 DEF IsObserved
  <1>5. CASE e \notin edges /\ DeriveExpandsTo
    <2>1. PICK p \in Expansions : e = [type |-> "EXPANDS_TO", from |-> p[1], to |-> p[2], via |-> 0]
      BY <1>5, EdgesStep DEF MaterializeOnline, ResolveEdge, DeriveExpandsTo, Handles
    <2>2. entities' = entities /\ pc' = "derive"
      BY <1>5 DEF DeriveExpandsTo
    <2>3. p = <<p[1], p[2]>>
      BY DEF Expansions
    <2>4. e.type = "EXPANDS_TO" /\ <<e.from, e.to>> \in Expansions
      BY <2>1, <2>3
    <2>5. QED
      BY <2>2, <2>4, ExpansionsFixed DEF IsExpansion
  <1>6. QED
    BY <1>2, <1>3, <1>4, <1>5, EdgesStep

\* The three debts, one at a time.
OnlineAreBound ==
  \A id \in Known : entities[id].origin = "online" =>
    /\ TypeOf[id] = "LogicalFile"
    /\ csd[FileOf[id]] # NoId =>
         \E e \in edges : e.type = "BINDS_TO" /\ e.from = id /\ e.to = csd[FileOf[id]]

ReferencesAreEdges ==
  pc \notin {"index", "merge", "programs", "online"} =>
    \A k \in 1..Len(obs) : (obs[k].kind = "edge" /\ (pc = "resolve" => k < at)) =>
      [type |-> obs[k].type, from |-> obs[k].from, to |-> obs[k].to, via |-> k] \in edges

ExpansionsAreEdges ==
  pc \in {"derive", "collect", "done"} =>
    \A p \in Expansions : \E e \in edges : e.type = "EXPANDS_TO" /\ e.from = p[1] /\ e.to = p[2]

LEMMA OnlineAreBoundStep ==
  ASSUME GraphInv, OnlineAreBound, [Next]_vars
  PROVE  OnlineAreBound'
  <1> SUFFICES ASSUME NEW id \in Known', entities'[id].origin = "online"
               PROVE  /\ TypeOf[id] = "LogicalFile"
                      /\ csd'[FileOf[id]] # NoId =>
                           \E e \in edges' : e.type = "BINDS_TO" /\ e.from = id /\ e.to = csd'[FileOf[id]]
    BY DEF OnlineAreBound
  <1>1. CASE id \in Known
    <2>1. entities[id].origin = "online" /\ edges \subseteq edges'
      BY <1>1, EntitiesGrow, EdgesGrow
    <2>2. csd' = csd
      BY <1>1, Phases DEF GraphInv, MergeProgress
    <2>3. QED
      BY <1>1, <2>1, <2>2 DEF OnlineAreBound
  <1>2. CASE id \notin Known
    <2>1. MaterializeOnline /\ id = obs[at].to
      <3>1. CASE MaterializeOnline
        BY <1>2, <3>1, NewEntity DEF MaterializeOnline, Merge, ResolveEdge, Handles
      <3>2. CASE ~MaterializeOnline
        <4>1. \/ entities'[id] = MergedEntity(id)
              \/ \E origin \in {"unresolved", "placeholder"} : entities'[id] = SeenAt(at, origin, TRUE)
          BY <1>2, <3>2, NewEntity
        <4>2. QED
          BY <4>1 DEF SeenAt, MergedEntity
      <3>3. QED
        BY <3>1, <3>2
    <2> DEFINE l == [type |-> "BINDS_TO", from |-> id, to |-> csd[FileOf[id]], via |-> at]
    <2>2. /\ TypeOf[id] = "LogicalFile" /\ csd' = csd
          /\ csd[FileOf[id]] # NoId => l \in edges'
      BY <2>1, OnlineEffect
    <2>3. l.type = "BINDS_TO" /\ l.from = id /\ l.to = csd[FileOf[id]]
      OBVIOUS
    <2> HIDE DEF l
    <2>4. QED
      BY <2>2, <2>3
  <1>3. QED
    BY <1>1, <1>2

LEMMA ReferencesAreEdgesStep ==
  ASSUME GraphInv, ReferencesAreEdges, [Next]_vars
  PROVE  ReferencesAreEdges'
  <1> DEFINE asEdge(k) == [type |-> obs[k].type, from |-> obs[k].from, to |-> obs[k].to, via |-> k]
  <1>1. obs' = obs /\ edges \subseteq edges' /\ at \in Nat \ {0} /\ Len(obs) \in Nat
    BY ObsConstant, EdgesGrow, Phases
  <1>2. \A k \in 1..Len(obs) :
          (/\ pc \notin {"index", "merge", "programs", "online"}
           /\ obs[k].kind = "edge" /\ (pc = "resolve" => k < at)) => asEdge(k) \in edges'
    BY <1>1 DEF ReferencesAreEdges
  <1> SUFFICES ASSUME pc' \notin {"index", "merge", "programs", "online"},
                      NEW k \in 1..Len(obs), obs[k].kind = "edge", pc' = "resolve" => k < at'
               PROVE  asEdge(k) \in edges'
    BY <1>1 DEF ReferencesAreEdges
  <1> HIDE DEF asEdge
  <1>3. CASE ResolveEdge
    <2>1. pc = "resolve" /\ pc' = "resolve" /\ at' = at + 1 /\ asEdge(at) \in edges'
      BY <1>3 DEF ResolveEdge, Handles, asEdge
    <2>2. k < at \/ k = at
      BY <1>1, <2>1
    <2>3. QED
      BY <1>2, <2>1, <2>2
  <1>4. CASE Skip
    <2>1. pc' = pc /\ at' = at + 1 /\ ~Acts(at)
      BY <1>4 DEF Skip
    <2>2. CASE pc = "resolve"
      <3>1. obs[at].kind # "edge"
        BY <2>1, <2>2 DEF Acts
      <3>2. k < at
        BY <1>1, <2>1, <2>2, <3>1
      <3>3. QED
        BY <1>2, <2>2, <3>2
    <2>3. QED
      BY <1>2, <2>1, <2>2
  <1>5. CASE EndOfLoop
    <2>1. at > Len(obs) /\ pc' = NextPhase(pc) /\ at' = 1
      BY <1>5 DEF EndOfLoop
    <2>2. CASE pc' = "resolve"
      BY <1>1, <2>1, <2>2
    <2>3. CASE pc' # "resolve"
      <3>1. pc \notin {"index", "merge", "programs", "online"}
        BY <2>1, <2>3 DEF NextPhase
      <3>2. k < at
        BY <1>1, <2>1
      <3>3. QED
        BY <1>2, <3>1, <3>2
    <2>4. QED
      BY <2>2, <2>3
  <1>6. CASE UNCHANGED vars
    BY <1>2, <1>6 DEF vars
  <1>7. CASE IndexBinding \/ Merge \/ MarkCsdOnly \/ MaterializeOnline
    BY <1>7 DEF IndexBinding, Merge, MarkCsdOnly, MaterializeOnline, Handles
  <1>8. CASE DeriveExpandsTo \/ DeriveProperties \/ CollectPartial \/ Finish
    BY <1>2, <1>8 DEF DeriveExpandsTo, DeriveProperties, CollectPartial, Finish
  <1>9. QED
    BY <1>3, <1>4, <1>5, <1>6, <1>7, <1>8 DEF Next

LEMMA ExpansionsAreEdgesStep ==
  ASSUME GraphInv, ExpansionsAreEdges, [Next]_vars
  PROVE  ExpansionsAreEdges'
  <1> SUFFICES ASSUME pc' \in {"derive", "collect", "done"}, NEW p \in Expansions'
               PROVE  \E e \in edges' : e.type = "EXPANDS_TO" /\ e.from = p[1] /\ e.to = p[2]
    BY DEF ExpansionsAreEdges
  <1>1. CASE DeriveExpandsTo
    <2>1. entities' = entities
      BY <1>1 DEF DeriveExpandsTo
    <2>2. p \in Expansions
      BY <2>1, ExpansionsFixed
    <2> DEFINE l == [type |-> "EXPANDS_TO", from |-> p[1], to |-> p[2], via |-> 0]
    <2>3. l \in edges'
      BY <1>1, <2>2 DEF DeriveExpandsTo
    <2>4. l.type = "EXPANDS_TO" /\ l.from = p[1] /\ l.to = p[2]
      OBVIOUS
    <2> HIDE DEF l
    <2>5. QED
      BY <2>3, <2>4
  <1>2. CASE ~DeriveExpandsTo
    <2>1. pc \in {"derive", "collect", "done"}
      BY <1>2 DEF Next, vars, Skip, EndOfLoop, NextPhase, Loops, IndexBinding, Merge, MarkCsdOnly,
                  MaterializeOnline, ResolveEdge, Handles, DeriveProperties, CollectPartial, Finish
    <2>2. entities' = entities /\ edges' = edges
      BY <2>1, Phases
    <2>3. p \in Expansions
      BY <2>2, ExpansionsFixed
    <2>4. QED
      BY <2>1, <2>2, <2>3 DEF ExpansionsAreEdges
  <1>3. QED
    BY <1>1, <1>2

-----------------------------------------------------------------------------
(* The metrics read the graph and nothing else *)

LEMMA AccessFixed ==
  ASSUME obs' = obs, entities' = entities, edges' = edges
  PROVE  /\ Known' = Known
         /\ \A id : IsAppProgram(id)' <=> IsAppProgram(id)
         /\ \A id : EdgesInto(id)' = EdgesInto(id) /\ EdgesFrom(id)' = EdgesFrom(id)
         /\ \A p : Accessed(p)' = Accessed(p)
  <1>1. Known' = Known
    BY DEF Known
  <1>2. \A id : IsAppProgram(id)' <=> IsAppProgram(id)
    BY <1>1 DEF IsAppProgram, IsPartial, EntityType
  <1>3. \A id : EdgesInto(id)' = EdgesInto(id) /\ EdgesFrom(id)' = EdgesFrom(id)
    BY DEF EdgesInto, EdgesFrom
  <1>4. \A lf : BoundTo(lf)' = BoundTo(lf) /\ InvokedBy(lf)' = InvokedBy(lf)
    BY <1>3 DEF BoundTo, InvokedBy
  <1>5. \A p : OnlineDatasets(p)' = OnlineDatasets(p)
    BY <1>3, <1>4 DEF OnlineDatasets
  <1>6. \A p : BatchDatasets(p)' = BatchDatasets(p)
    BY <1>4 DEF BatchDatasets
  <1>7. \A p : Accessed(p)' = Accessed(p)
    BY <1>2, <1>5, <1>6 DEF Accessed
  <1>8. QED
    BY <1>1, <1>2, <1>3, <1>7

LEMMA MetricsFixed ==
  ASSUME obs' = obs, entities' = entities, edges' = edges
  PROVE  /\ Known' = Known
         /\ \A id : MetricsOf(id)' = MetricsOf(id)
  <1>1. /\ Known' = Known
        /\ \A id : IsAppProgram(id)' <=> IsAppProgram(id)
        /\ \A id : EdgesInto(id)' = EdgesInto(id) /\ EdgesFrom(id)' = EdgesFrom(id)
        /\ \A p : Accessed(p)' = Accessed(p)
    BY AccessFixed
  <1>2. Population' = Population
    BY <1>1 DEF Population
  <1>3. \A d : Accessors(d)' = Accessors(d)
    BY <1>1, <1>2 DEF Accessors
  <1>4. \A p : Coupled(p)' = Coupled(p)
    BY <1>1, <1>2 DEF Coupled
  <1>5. \A id : MetricsOf(id)' = MetricsOf(id)
    BY <1>1, <1>2, <1>3, <1>4 DEF MetricsOf, EntityType
  <1>6. QED
    BY <1>1, <1>5

LEMMA MetricsKeptStep ==
  ASSUME GraphInv, MetricsKept, [Next]_vars
  PROVE  MetricsKept'
  <1> DEFINE ofGraph == [id \in Ids |-> IF id \in Known THEN MetricsOf(id) ELSE NoMetrics]
  <1> SUFFICES ASSUME pc' \in {"collect", "done"}
               PROVE  metrics' = ofGraph'
    BY DEF MetricsKept
  <1>1. pc \in {"derive", "collect", "done"}
    BY DEF Next, vars, Skip, EndOfLoop, NextPhase, Loops, IndexBinding, Merge, MarkCsdOnly, Handles,
           MaterializeOnline, ResolveEdge, DeriveExpandsTo, DeriveProperties, CollectPartial, Finish
  <1>2. obs' = obs /\ entities' = entities /\ edges' = edges
    BY <1>1, Phases, ObsConstant
  <1>3. ofGraph' = ofGraph
    <2>1. Known' = Known /\ \A id : MetricsOf(id)' = MetricsOf(id)
      BY ONLY <1>2, MetricsFixed
    <2>2. QED
      BY <2>1
  <1>4. metrics' = ofGraph
    <2>1. CASE DeriveProperties
      BY <2>1 DEF DeriveProperties
    <2>2. CASE ~DeriveProperties
      <3>1. pc \in {"collect", "done"} /\ metrics' = metrics
        BY <1>1, <2>2
        DEF Next, vars, Skip, EndOfLoop, NextPhase, Loops, IndexBinding, Merge, MarkCsdOnly, Handles,
            MaterializeOnline, ResolveEdge, DeriveExpandsTo, CollectPartial, Finish
      <3>2. QED
        BY <3>1 DEF MetricsKept
    <2>3. QED
      BY <2>1, <2>2
  <1>5. QED
    BY <1>3, <1>4

LEMMA KnownFiniteStep ==
  ASSUME GraphInv, IsFiniteSet(Known), [Next]_vars
  PROVE  IsFiniteSet(Known')
  <1> DEFINE named == {obs[at].id} \cup {obs[at].to} \cup {obs[at].from}
  <1>1. Known' \subseteq Known \cup named
    BY NewEntity
  <1>2. IsFiniteSet(named)
    BY FS_Singleton, FS_Union
  <1>3. IsFiniteSet(Known \cup named)
    BY <1>2, FS_Union
  <1>4. QED
    BY <1>1, <1>3, FS_Subset

-----------------------------------------------------------------------------
(* Where the entities come from *)

LEMMA NamingConstant ==
  ASSUME [Next]_vars
  PROVE  \A id : (Named(id)' <=> Named(id)) /\ UsedOnline(id)' = UsedOnline(id)
  BY ObsConstant DEF Named, UsedOnline

LEMMA EntitiesAreFoundedStep ==
  ASSUME GraphInv, EntitiesAreFounded, [Next]_vars
  PROVE  EntitiesAreFounded'
  <1> SUFFICES ASSUME NEW id \in Known'
               PROVE  /\ entities'[id].prov # {} /\ Named(id)
                      /\ entities'[id].origin = "online" => UsedOnline(id) # {}
                      /\ pc' \in Loops \ {"resolve"} => entities'[id].origin \in {"merged", "online"}
    BY NamingConstant DEF EntitiesAreFounded
  <1>1. CASE id \in Known
    <2>1. pc' \in Loops \ {"resolve"} => pc \in Loops \ {"resolve"}
      BY DEF Next, vars, Skip, EndOfLoop, NextPhase, Loops, IndexBinding, Merge, MarkCsdOnly, Handles,
             MaterializeOnline, ResolveEdge, DeriveExpandsTo, DeriveProperties, CollectPartial, Finish
    <2>2. QED
      BY <1>1, <2>1, EntitiesGrow DEF EntitiesAreFounded
  <1>2. CASE id \notin Known
    <2>1. at \in Nat /\ Len(obs) \in Nat
      BY Phases
    <2>2. CASE Merge
      <3>1. entities'[id] = MergedEntity(id) /\ IsCandidate(at, id) /\ at \in 1..Len(obs)
        BY <1>2, <2>2, NewEntity, MergeEffect DEF Merge, MaterializeOnline, ResolveEdge, Handles
      <3>2. at \in Candidates(id)
        BY <3>1 DEF Candidates
      <3>3. QED
        BY <3>1, <3>2 DEF MergedEntity, Named
    <2>3. CASE MaterializeOnline
      <3>1. id = obs[at].to /\ entities'[id] = SeenAt(at, "online", FALSE)
        BY <1>2, <2>3, NewEntity DEF Merge, MaterializeOnline, ResolveEdge, Handles
      <3>2. at \in UsedOnline(id)
        BY <2>3, <3>1, OnlineEffect
        DEF UsedOnline, MaterializeOnline, Handles, Acts, Materializes
      <3>3. QED
        BY <3>1, <3>2 DEF SeenAt, Named, UsedOnline
    <2>4. CASE ResolveEdge
      <3>1. PICK origin \in {"unresolved", "placeholder"} : entities'[id] = SeenAt(at, origin, TRUE)
        BY <1>2, <2>4, NewEntity DEF Merge, MaterializeOnline, ResolveEdge, Handles
      <3>2. id \in {obs[at].from, obs[at].to}
        BY <1>2, <2>4, NewEntity DEF Merge, MaterializeOnline, ResolveEdge, Handles
      <3>3. /\ at \in 1..Len(obs) /\ obs[at].kind = "edge" /\ pc' = "resolve"
        BY <2>4, ResolveEffect, ResolvePc, ReportedKnown DEF GraphInv
      <3>4. entities'[id].prov = {at} /\ entities'[id].origin # "online"
        BY <3>1 DEF SeenAt
      <3>5. QED
        BY <3>2, <3>3, <3>4 DEF Named
    <2>5. QED
      BY <1>2, <2>2, <2>3, <2>4, NewEntity
  <1>3. QED
    BY <1>1, <1>2

LEMMA OnlineFilesAreThereStep ==
  ASSUME GraphInv, EntitiesAreFounded, OnlineFilesAreThere, [Next]_vars
  PROVE  OnlineFilesAreThere'
  <1> SUFFICES ASSUME pc' \notin {"index", "merge", "programs"}, NEW id \in Ids,
                      NEW k \in UsedOnline(id), pc' = "online" => k < at'
               PROVE  id \in Known' /\ entities'[id].origin \in {"merged", "online"}
    BY NamingConstant DEF OnlineFilesAreThere
  <1>1. /\ at \in Nat \ {0} /\ k \in 1..Len(obs) /\ k \in Nat /\ Len(obs) \in Nat
        /\ obs[k].kind = "edge" /\ obs[k].cics /\ obs[k].to = id
    BY Phases DEF UsedOnline
  <1>2. TypeOf[id] = "LogicalFile"
    BY <1>1 DEF GraphInv, TypeOK, ExtractorContract
  <1>3. ASSUME id \in Known, entities[id].origin \in {"merged", "online"}
        PROVE  id \in Known' /\ entities'[id].origin \in {"merged", "online"}
    BY <1>3, EntitiesGrow
  <1>4. ASSUME pc \notin {"index", "merge", "programs"}, pc = "online" => k < at
        PROVE  id \in Known' /\ entities'[id].origin \in {"merged", "online"}
    BY <1>3, <1>4 DEF OnlineFilesAreThere
  <1>5. CASE MaterializeOnline
    <2>1. pc = "online" /\ pc' = "online" /\ at' = at + 1 /\ obs[at].to \in Ids
          /\ entities' = [entities EXCEPT ![obs[at].to] = SeenAt(at, "online", FALSE)]
          /\ SeenAt(at, "online", FALSE) # NoEntity
          /\ entities \in [Ids -> Entity \cup {NoEntity}]
      BY <1>5, OnlineEffect DEF GraphInv, TypeOK
    <2>2. CASE k < at
      BY <1>4, <2>1, <2>2
    <2>3. CASE k = at
      <3>1. id \in Known' /\ entities'[id] = SeenAt(at, "online", FALSE)
        BY <1>1, <2>1, <2>3 DEF Known
      <3>2. QED
        BY <3>1 DEF SeenAt
    <2>4. k < at \/ k = at
      BY <1>1, <2>1
    <2>5. QED
      BY <2>2, <2>3, <2>4
  <1>6. CASE Skip
    <2>1. pc' = pc /\ at' = at + 1 /\ ~Acts(at)
      BY <1>6 DEF Skip
    <2>2. CASE pc = "online" /\ k = at
      <3>1. entities[id] # NoEntity
        BY <1>1, <1>2, <2>1, <2>2 DEF Acts, Materializes
      <3>2. id \in Known /\ entities[id].origin \in {"merged", "online"}
        BY <2>2, <3>1 DEF Known, EntitiesAreFounded, Loops
      <3>3. QED
        BY <1>3, <3>2
    <2>3. CASE pc # "online" \/ k < at
      BY <1>4, <2>1, <2>3
    <2>4. pc = "online" => k < at \/ k = at
      BY <1>1, <2>1
    <2>5. QED
      BY <2>2, <2>3, <2>4
  <1>7. CASE EndOfLoop
    <2>1. at > Len(obs) /\ pc' = NextPhase(pc) /\ at' = 1
      BY <1>7 DEF EndOfLoop
    <2>2. pc # "programs"
      BY <1>1, <2>1 DEF NextPhase
    <2>3. pc \notin {"index", "merge", "programs"} /\ k < at
      BY <1>1, <2>1, <2>2 DEF NextPhase
    <2>4. QED
      BY <1>4, <2>3
  <1>8. CASE ResolveEdge \/ UNCHANGED vars
    BY <1>4, <1>8 DEF ResolveEdge, Handles, vars
  <1>9. CASE IndexBinding \/ Merge \/ MarkCsdOnly
    BY <1>9 DEF IndexBinding, Merge, MarkCsdOnly, Handles
  <1>10. CASE DeriveExpandsTo \/ DeriveProperties \/ CollectPartial \/ Finish
    BY <1>4, <1>10 DEF DeriveExpandsTo, DeriveProperties, CollectPartial, Finish
  <1>11. QED
    BY <1>5, <1>6, <1>7, <1>8, <1>9, <1>10 DEF Next

-----------------------------------------------------------------------------
(* The reasons of the reports *)

\* The reports of a reference never give the CSD as their reason.
LEMMA ReferencesReportOtherwise ==
  ASSUME GraphInv, ResolveEdge
  PROVE  \A n \in 1..Len(unresolved') :
           n \in 1..Len(unresolved) \/ unresolved'[n].reason # "csd_only_no_source_body"
  <1> DEFINE o == obs[at]
             ents == IF o.dynamic THEN MaterializeUnresolved(entities, o.to, at)
                                  ELSE EnsureEndpoint(entities, o.to, at)
             log  == IF o.dynamic THEN ReportUnresolved(entities, o.to, unresolved)
                                  ELSE ReportEndpoint(entities, o.to, unresolved)
             Others(new) == \A n \in 1..Len(new) :
                              n \in 1..Len(unresolved) \/ new[n].reason # "csd_only_no_source_body"
  <1>1. unresolved \in Seq(Report) /\ o.to \in Ids /\ o.from \in Ids
    BY ResolveEffect, ReportedKnown DEF GraphInv, TypeOK
  <1>2. ASSUME NEW id \in Ids, NEW reason \in {"external_reference_no_source_body", "dynamic_call"},
               NEW s \in Seq(Report), Others(s)
        PROVE  Others(Append(s, [id |-> id, reason |-> reason]))
               /\ Append(s, [id |-> id, reason |-> reason]) \in Seq(Report)
    <2>1. [id |-> id, reason |-> reason] \in Report
      BY DEF Report
    <2> DEFINE r == [id |-> id, reason |-> reason]
    <2>2. r.reason # "csd_only_no_source_body"
      OBVIOUS
    <2> HIDE DEF r
    <2>3. /\ Append(s, r) \in Seq(Report) /\ Len(Append(s, r)) = Len(s) + 1 /\ Len(s) \in Nat
          /\ Append(s, r)[Len(s) + 1] = r
          /\ \A n \in 1..Len(s) : Append(s, r)[n] = s[n]
      BY <2>1, AppendProperties, LenProperties DEF r
    <2>4. Others(Append(s, r))
      BY <1>2, <2>2, <2>3
    <2>5. QED
      BY <2>3, <2>4 DEF r
  <1>3. Others(unresolved)
    OBVIOUS
  <1> HIDE DEF Others
  <1>4. log \in Seq(Report) /\ Others(log)
    BY <1>1, <1>2, <1>3 DEF ReportUnresolved, ReportEndpoint
  <1>5. unresolved' = ReportEndpoint(ents, o.from, log)
    BY DEF ResolveEdge
  <1> HIDE DEF log, ents
  <1>6. Others(unresolved')
    BY <1>1, <1>2, <1>4, <1>5 DEF ReportEndpoint
  <1>7. QED
    BY <1>6 DEF Others

LEMMA ReasonsFitStep ==
  ASSUME GraphInv, ReasonsFit, [Next]_vars
  PROVE  ReasonsFit'
  <1>1. \A id : DefinedOnly(id)' <=> DefinedOnly(id)
    BY ObsConstant DEF DefinedOnly
  <1>2. /\ unresolved \in Seq(Report) /\ Len(unresolved) \in Nat
        /\ \A n \in 1..Len(unresolved) : n <= Len(unresolved') /\ unresolved'[n] = unresolved[n]
    BY ReportGrows, LenProperties DEF GraphInv, TypeOK
  <1>3. ASSUME NEW id \in Ids, DefinedOnly(id), Swept(id)'
        PROVE  id \in Reported'
    <2>1. pc \notin {"index", "merge"}
      <3>1. /\ pc' \notin {"index", "merge"}
            /\ pc' = "programs" => at' # 1
        BY <1>3, Phases DEF Swept
      <3>2. CASE EndOfLoop /\ pc' = NextPhase(pc)
        BY <3>1, <3>2 DEF EndOfLoop, NextPhase
      <3>3. QED
        BY <3>1, <3>2, Phases DEF EndOfLoop, DeriveExpandsTo, DeriveProperties, Finish
    <2>2. id \in Known
      BY <1>3, <2>1 DEF DefinedOnly, GraphInv, MergeProgress
    <2>3. Swept(id) \/ (MarkCsdOnly /\ id = obs[at].id)
      BY <1>3, <2>2, SweptStep DEF DefinedOnly
    <2>4. QED
      BY <1>3, <2>3, ReportStep DEF ReasonsFit
  <1>4. ASSUME NEW n \in 1..Len(unresolved')
        PROVE  unresolved'[n].reason = "csd_only_no_source_body" <=> DefinedOnly(unresolved'[n].id)
    <2> DEFINE fits == unresolved'[n].reason = "csd_only_no_source_body"
                         <=> DefinedOnly(unresolved'[n].id)
    <2>1. CASE n \in 1..Len(unresolved)
      BY <1>2, <2>1 DEF ReasonsFit
    <2>2. ASSUME NEW r \in Report, unresolved' = Append(unresolved, r), n \notin 1..Len(unresolved)
          PROVE  unresolved'[n] = r
      <3>1. /\ Len(unresolved') = Len(unresolved) + 1 /\ unresolved'[Len(unresolved) + 1] = r
        BY <1>2, <2>2, AppendProperties
      <3>2. n = Len(unresolved) + 1
        BY <1>2, <2>2, <3>1
      <3>3. QED
        BY <3>1, <3>2
    <2>3. CASE MarkCsdOnly /\ n \notin 1..Len(unresolved)
      <3> DEFINE m == obs[at].id
                 r == [id |-> m, reason |-> "csd_only_no_source_body"]
      <3>1. /\ m \in Ids /\ DefinedOnly(m) /\ unresolved' = Append(unresolved, r)
        BY <2>3, MarkEffect DEF Known, DefinedOnly, Candidates
      <3>2. r \in Report
        BY <3>1 DEF Report
      <3>3. unresolved'[n] = r
        BY <2>2, <2>3, <3>1, <3>2
      <3>4. QED
        BY <3>1, <3>3
    <2>4. CASE CollectPartial /\ n \notin 1..Len(unresolved)
      <3>1. PICK id \in Ids :
              /\ id \notin Reported
              /\ unresolved' = Append(unresolved, [id |-> id, reason |-> "partial_entity"])
        BY <2>4 DEF CollectPartial
      <3>2. unresolved'[n] = [id |-> id, reason |-> "partial_entity"]
        <4>1. [id |-> id, reason |-> "partial_entity"] \in Report
          BY DEF Report
        <4>2. QED
          BY <2>2, <2>4, <3>1, <4>1
      <3>3. Swept(id)
        BY <2>4 DEF CollectPartial, Swept
      <3>4. ~DefinedOnly(id)
        BY <3>1, <3>3 DEF ReasonsFit
      <3>5. QED
        BY <3>2, <3>4
    <2>5. CASE ResolveEdge /\ n \notin 1..Len(unresolved)
      <3> DEFINE id == unresolved'[n].id
      <3>1. unresolved'[n].reason # "csd_only_no_source_body"
        BY <2>5, ReferencesReportOtherwise
      <3>2. id \in Reported'
        BY DEF Reported, IdsOf
      <3>3. id \notin Reported
        <4>1. ASSUME NEW m \in 1..Len(unresolved), unresolved[m].id = id
              PROVE  FALSE
          <5>1. m \in 1..Len(unresolved') /\ unresolved'[m].id = unresolved'[n].id
            BY <1>2, <4>1
          <5>2. m = n
            BY <5>1, ReportStep DEF Distinct
          <5>3. QED
            BY <2>5, <5>2
        <4>2. QED
          BY <4>1 DEF Reported, IdsOf
      <3>4. id \in Ids /\ id \notin Known
        BY <2>5, <3>2, <3>3, ReportStep DEF ResolveEdge, Handles, MarkCsdOnly, CollectPartial
      <3>5. Candidates(id) = {}
        BY <2>5, <3>4, ResolvePc DEF GraphInv, MergeProgress
      <3>6. QED
        BY <3>1, <3>5 DEF DefinedOnly
    <2>6. CASE unresolved' = unresolved
      BY <1>4, <2>1, <2>6
    <2>7. QED
      BY <2>1, <2>3, <2>4, <2>5, <2>6, MergeEffect, OnlineEffect
      DEF Next, vars, Skip, EndOfLoop, IndexBinding, DeriveExpandsTo, DeriveProperties, Finish
  <1>5. QED
    BY <1>1, <1>3, <1>4 DEF ReasonsFit

-----------------------------------------------------------------------------
(* The whole inductive invariant *)

LEMMA InitResolverInv ==
  ASSUME Init
  PROVE  ResolverInv
  <1>1. GraphInv
    BY InitInv
  <1>2. Known = {}
    BY DEF Init, Known
  <1>3. HintsAreLast
    BY ResolverAssumption, <1>1 DEF Init, HintsAreLast, Passed, DefinitionsOf, GraphInv, TypeOK
  <1>4. OwnersKept /\ CollisionsLogged /\ EdgesAreFounded /\ EdgesAreThere /\ MetricsKept
          /\ EntitiesAreFounded /\ OnlineFilesAreThere
    BY <1>2 DEF Init, OwnersKept, CollisionsLogged, EdgesAreFounded, EdgesAreThere, MetricsKept,
                EntitiesAreFounded, OnlineFilesAreThere
  <1>5. ReasonsFit
    BY DEF Init, ReasonsFit, Swept
  <1>6. QED
    BY <1>1, <1>2, <1>3, <1>4, <1>5, FS_EmptySet DEF ResolverInv

LEMMA NextResolverInv ==
  ASSUME ResolverInv, [Next]_vars
  PROVE  ResolverInv'
  <1> USE DEF ResolverInv
  <1>1. GraphInv'
    BY NextInv
  <1>2. HintsAreLast' /\ OwnersKept' /\ CollisionsLogged'
    BY HintsAreLastStep, OwnersKeptStep, CollisionsLoggedStep
  <1>3. EdgesAreFounded' /\ MetricsKept'
    BY EdgesAreFoundedStep, MetricsKeptStep
  <1>4. EdgesAreThere <=> OnlineAreBound /\ ReferencesAreEdges /\ ExpansionsAreEdges
    BY DEF EdgesAreThere, OnlineAreBound, ReferencesAreEdges, ExpansionsAreEdges
  <1>5. OnlineAreBound' /\ ReferencesAreEdges' /\ ExpansionsAreEdges'
    BY <1>4, OnlineAreBoundStep, ReferencesAreEdgesStep, ExpansionsAreEdgesStep
  <1>6. EdgesAreThere'
    BY <1>5 DEF EdgesAreThere, OnlineAreBound, ReferencesAreEdges, ExpansionsAreEdges
  <1>7. IsFiniteSet(Known)'
    BY KnownFiniteStep
  <1>8. EntitiesAreFounded' /\ OnlineFilesAreThere' /\ ReasonsFit'
    BY EntitiesAreFoundedStep, OnlineFilesAreThereStep, ReasonsFitStep
  <1>9. QED
    BY <1>1, <1>2, <1>3, <1>6, <1>7, <1>8

\* The graph under construction owes the observations nothing at any point of
\* the run, for every input that honours the contract.
THEOREM ResolverInvariantHolds == Spec => []ResolverInv
  <1>1. Init => ResolverInv
    BY InitResolverInv
  <1>2. ResolverInv /\ [Next]_vars => ResolverInv'
    BY NextResolverInv
  <1>3. QED
    BY <1>1, <1>2, PTL DEF Spec

-----------------------------------------------------------------------------
(* What the run delivers *)

LEMMA TwoMembers ==
  ASSUME NEW S, IsFiniteSet(S), NEW x \in S, NEW y \in S, x # y
  PROVE  Cardinality(S) \in Nat /\ Cardinality(S) > 1
  <1>1. IsFiniteSet({x}) /\ Cardinality({x}) = 1
    BY FS_Singleton
  <1>2. IsFiniteSet({x} \cup {y}) /\ Cardinality({x} \cup {y}) = 2
    <2>1. y \notin {x}
      OBVIOUS
    <2>2. /\ IsFiniteSet({x} \cup {y})
          /\ Cardinality({x} \cup {y}) = IF y \in {x} THEN Cardinality({x}) ELSE Cardinality({x}) + 1
      BY <1>1, FS_AddElement, Zenon
    <2>3. QED
      BY <1>1, <2>1, <2>2
  <1>3. Cardinality({x} \cup {y}) <= Cardinality(S)
    BY FS_Subset
  <1>4. Cardinality(S) \in Nat
    BY FS_CardinalityType
  <1>5. QED
    BY <1>2, <1>3, <1>4

LEMMA SourcePathsFinite ==
  ASSUME TypeOK, NEW id
  PROVE  IsFiniteSet(SourcePaths(id))
  <1> DEFINE path == [k \in Candidates(id) |-> obs[k].path]
  <1>1. IsFiniteSet(Candidates(id))
    <2>1. Len(obs) \in Nat /\ Candidates(id) \in SUBSET (1..Len(obs))
      BY DEF TypeOK, Candidates
    <2>2. IsFiniteSet(1..Len(obs))
      BY <2>1, FS_Interval
    <2>3. QED
      BY <2>1, <2>2, FS_Subset
  <1>2. path \in Surjection(Candidates(id), SourcePaths(id))
    BY DEF SourcePaths, Surjection
  <1>3. QED
    BY <1>1, <1>2, FS_Surjection

\* An owner or callee that an id ends up with is one some candidate gave it.
LEMMA FirstGiven ==
  ASSUME TypeOK, NEW id
  PROVE  /\ FirstOwner(id) # NoId => \E k \in Candidates(id) : obs[k].owner = FirstOwner(id)
         /\ FirstInvoked(id) # NoId => \E k \in Candidates(id) : obs[k].invoked = FirstInvoked(id)
         /\ (\E k \in Candidates(id) : obs[k].owner # NoId) => FirstOwner(id) # NoId
         /\ (\E k \in Candidates(id) : obs[k].invoked # NoId) => FirstInvoked(id) # NoId
  <1> DEFINE owned   == {k \in Candidates(id) : obs[k].owner # NoId}
             invoked == {k \in Candidates(id) : obs[k].invoked # NoId}
  <1>1. owned \in SUBSET Nat /\ invoked \in SUBSET Nat
    BY DEF TypeOK, Candidates
  <1>2. /\ owned # {} => Earliest(owned) \in owned
        /\ invoked # {} => Earliest(invoked) \in invoked
    BY <1>1, EarliestIsMember
  <1>3. /\ FirstOwner(id) = IF owned = {} THEN NoId ELSE obs[Earliest(owned)].owner
        /\ FirstInvoked(id) = IF invoked = {} THEN NoId ELSE obs[Earliest(invoked)].invoked
    BY DEF FirstOwner, FirstInvoked
  <1>4. QED
    BY <1>2, <1>3

\* A binding or an expansion is none of the edge candidates.
LEMMA DerivedEdges ==
  ASSUME ResolverInv, NEW e \in edges
  PROVE  /\ e.type = "BINDS_TO" => IsBinding(e)
         /\ e.type = "EXPANDS_TO" => IsExpansion(e)
  <1>1. IsObserved(e) => e.type \notin {"BINDS_TO", "EXPANDS_TO"}
    BY DEF IsObserved, ResolverInv, GraphInv, TypeOK, ExtractorContract
  <1>2. IsObserved(e) \/ IsBinding(e) \/ IsExpansion(e)
    BY DEF ResolverInv, EdgesAreFounded
  <1>3. QED
    BY <1>1, <1>2 DEF IsBinding, IsExpansion

LEMMA InvSurvive == ResolverInv => NothingDropped
  <1> SUFFICES ASSUME ResolverInv, pc = "done", NEW k \in 1..Len(obs), obs[k].kind = "edge"
               PROVE  \E e \in edges :
                        /\ e.via = k /\ e.type = obs[k].type
                        /\ e.from = obs[k].from /\ e.to = obs[k].to
                        /\ \A id \in {e.from, e.to} :
                             \/ Candidates(id) # {}
                             \/ id \in Reported
                             \/ entities[id].origin = "online"
    BY DEF NothingDropped
  <1> DEFINE e == [type |-> obs[k].type, from |-> obs[k].from, to |-> obs[k].to, via |-> k]
  <1>1. e \in edges
    BY DEF ResolverInv, EdgesAreThere
  <1>2. e.via = k /\ e.type = obs[k].type /\ e.from = obs[k].from /\ e.to = obs[k].to
    OBVIOUS
  <1> HIDE DEF e
  <1>3. ASSUME NEW id \in {e.from, e.to}, Candidates(id) = {}, entities[id].origin # "online"
        PROVE  id \in Reported
    <2>1. id \in Ids /\ id \in Known
      BY <1>1 DEF ResolverInv, GraphInv, EdgesClosed, Known
    <2>2. entities[id] \in Entity /\ entities[id].origin # "merged"
      BY <1>3, <2>1 DEF ResolverInv, GraphInv, TypeOK, OriginsSound, Known
    <2>3. entities[id].origin \in {"placeholder", "unresolved"}
      BY <1>3, <2>2 DEF Entity, Origins
    <2>4. IsPartial(id)
      BY <2>1, <2>3 DEF IsPartial, Known, ResolverInv, GraphInv, OriginsSound
    <2>5. QED
      BY <2>1, <2>4 DEF ResolverInv, GraphInv, PartialsReportedOnce
  <1>4. QED
    BY <1>1, <1>2, <1>3

\* Every reference ends as an edge between its own two ids, and an endpoint
\* nobody declared is in the report or is an online logical file.
THEOREM ReferencesSurvive == Spec => []NothingDropped
  BY InvSurvive, ResolverInvariantHolds, PTL

LEMMA InvBound == ResolverInv => OnlineFilesBound
  <1>1. ASSUME ResolverInv, NEW e \in edges, e.type = "BINDS_TO"
        PROVE  /\ e.from \in Known /\ entities[e.from].origin = "online"
               /\ TypeOf[e.from] = "LogicalFile" /\ FileOf[e.from] \in Files
               /\ e.to = csd[FileOf[e.from]] /\ e.to # NoId
    <2>1. IsBinding(e) /\ e.from \in Known
      BY <1>1, DerivedEdges DEF ResolverInv, GraphInv, EdgesClosed
    <2>2. TypeOf[e.from] = "LogicalFile"
      BY <1>1, <2>1 DEF IsBinding, ResolverInv, EdgesAreThere
    <2>3. FileOf[e.from] \in Files
      BY <2>1, <2>2, ResolverAssumption DEF Known
    <2>4. QED
      BY <2>1, <2>2, <2>3 DEF IsBinding
  <1>2. ASSUME ResolverInv, pc = "done", NEW id \in Known, entities[id].origin = "online"
        PROVE  LET defs == {k \in 1..Len(obs) : obs[k].kind = "csd" /\ obs[k].file = FileOf[id]}
               IN  BoundTo(id) = {obs[k].dataset : k \in {x \in defs : \A y \in defs : y <= x}}
    <2> DEFINE defs == DefinitionsOf(FileOf[id])
               last == {x \in defs : \A y \in defs : y <= x}
    <2>1. TypeOf[id] = "LogicalFile" /\ FileOf[id] \in Files
      BY <1>2, ResolverAssumption DEF ResolverInv, EdgesAreThere, Known
    <2>2. IF defs = {} THEN csd[FileOf[id]] = NoId
          ELSE \E k \in defs : csd[FileOf[id]] = obs[k].dataset /\ \A j \in defs : j <= k
      BY <1>2, <2>1 DEF ResolverInv, HintsAreLast, Passed
    <2>3. \A k \in defs : k \in Nat /\ obs[k].dataset # NoId
      <3>1. \A k \in defs : k \in Nat /\ obs[k] \in CsdObs
        BY <1>2, ObsKinds DEF DefinitionsOf, ResolverInv, GraphInv, TypeOK
      <3>2. QED
        BY <3>1, ResolverAssumption DEF CsdObs
    <2>4. BoundTo(id) = IF csd[FileOf[id]] = NoId THEN {} ELSE {csd[FileOf[id]]}
      <3>1. \A d \in BoundTo(id) : d = csd[FileOf[id]] /\ d # NoId
        BY <1>1, <1>2 DEF BoundTo, EdgesFrom
      <3>2. csd[FileOf[id]] # NoId => csd[FileOf[id]] \in BoundTo(id)
        BY <1>2 DEF BoundTo, EdgesFrom, ResolverInv, EdgesAreThere
      <3>3. QED
        BY <3>1, <3>2
    <2>5. BoundTo(id) = {obs[k].dataset : k \in last}
      <3>1. CASE defs = {}
        BY <2>2, <2>4, <3>1
      <3>2. CASE defs # {}
        <4>1. PICK k \in defs : csd[FileOf[id]] = obs[k].dataset /\ \A j \in defs : j <= k
          BY <2>2, <3>2
        <4>2. last = {k}
          BY <2>3, <4>1
        <4>3. QED
          BY <2>3, <2>4, <4>1, <4>2
      <3>3. QED
        BY <3>1, <3>2
    <2>6. QED
      BY <2>5 DEF DefinitionsOf
  <1>3. ASSUME ResolverInv, NEW e \in edges, e.type = "BINDS_TO"
        PROVE  TypeOf[e.from] = "LogicalFile" /\ TypeOf[e.to] = "Dataset"
    <2>1. PICK k \in Passed(FileOf[e.from]) : e.to = obs[k].dataset
      BY <1>1, <1>3 DEF ResolverInv, HintsAreLast
    <2>2. k \in 1..Len(obs) /\ obs[k].kind = "csd"
      BY DEF Passed, DefinitionsOf
    <2>3. TypeOf[e.to] = "Dataset"
      BY <1>3, <2>1, <2>2 DEF ResolverInv, GraphInv, TypeOK, ExtractorContract
    <2>4. QED
      BY <1>1, <1>3, <2>3
  <1>4. QED
    BY <1>2, <1>3 DEF OnlineFilesBound

\* An online logical file is bound to the dataset of the last DEFINE FILE for
\* its name and to nothing else; a binding leads from a file to a dataset.
THEOREM OnlineFilesAreBound == Spec => []OnlineFilesBound
  BY InvBound, ResolverInvariantHolds, PTL

LEMMA InvComplete == ResolverInv => (StepsHaveOneOwner => ExpansionComplete)
  <1> SUFFICES ASSUME ResolverInv, StepsHaveOneOwner, pc = "done",
                      NEW k \in 1..Len(obs), NEW inv \in Known,
                      obs[k].kind = "entity", TypeOf[obs[k].id] = "JCLStep",
                      TypeOf[inv] = "JCLProcInvocation", entities[inv].invoked # NoId,
                      obs[k].owner = entities[inv].invoked
               PROVE  \E e \in edges : e.type = "EXPANDS_TO" /\ e.from = inv /\ e.to = obs[k].id
    BY DEF ExpansionComplete
  <1> DEFINE step == obs[k].id
  <1>1. step \in Ids /\ k \in Candidates(step)
    BY ObsKinds DEF Candidates, IsCandidate, EntityObs, ResolverInv, GraphInv, TypeOK
  <1>2. step \in Known
    BY <1>1 DEF ResolverInv, GraphInv, MergeProgress
  <1>3. FirstOwner(step) = obs[k].owner
    <2>1. FirstOwner(step) # NoId
      BY <1>1, FirstGiven DEF ResolverInv, GraphInv
    <2>2. PICK j \in Candidates(step) : obs[j].owner = FirstOwner(step)
      BY <2>1, FirstGiven DEF ResolverInv, GraphInv
    <2>3. j \in 1..Len(obs) /\ obs[j].kind = "entity" /\ obs[j].id = step
      BY <2>2 DEF Candidates, IsCandidate
    <2>4. obs[j].owner = obs[k].owner
      BY <2>3 DEF StepsHaveOneOwner
    <2>5. QED
      BY <2>2, <2>4
  <1>4. entities[step].owner = entities[inv].invoked
    BY <1>2, <1>3 DEF ResolverInv, OwnersKept
  <1>5. <<inv, step>> \in Expansions
    BY <1>2, <1>4 DEF Expansions
  <1>6. QED
    BY <1>5 DEF ResolverInv, EdgesAreThere

\* Where no step is given by two owners, every invocation expands to every step
\* observed in the body of its PROC.
THEOREM ExpansionsAreComplete == Spec => [](StepsHaveOneOwner => ExpansionComplete)
  BY InvComplete, ResolverInvariantHolds, PTL

\* What an expansion knows of the step: some candidate gave the step to the PROC
\* that the invocation names, and the file of that candidate declares the PROC.
LEMMA ExpansionFromDeclaringFile ==
  ASSUME ResolverInv, NEW e \in edges, e.type = "EXPANDS_TO"
  PROVE  LET proc == entities[e.from].invoked IN
         /\ TypeOf[proc] = "JCLProc" /\ proc \in Known
         /\ SourcePaths(e.to) \cap SourcePaths(proc) # {}
  <1> DEFINE proc == entities[e.from].invoked
  <1>1. /\ e.from \in Known /\ e.to \in Known /\ pc \in {"derive", "collect", "done"}
        /\ proc # NoId /\ entities[e.to].owner = proc
    BY DerivedEdges DEF IsExpansion, Expansions
  <1>2. proc = FirstInvoked(e.from) /\ proc = FirstOwner(e.to)
    BY <1>1 DEF ResolverInv, OwnersKept
  <1>3. TypeOK
    BY DEF ResolverInv, GraphInv
  <1>4. PICK i \in Candidates(e.from) : obs[i].invoked = proc
    BY <1>1, <1>2, <1>3, FirstGiven
  <1>5. PICK k \in Candidates(e.to) : obs[k].owner = proc
    BY <1>1, <1>2, <1>3, FirstGiven
  <1> HIDE DEF proc
  <1>6. TypeOf[proc] = "JCLProc"
    BY <1>1, <1>3, <1>4 DEF Candidates, IsCandidate, TypeOK, ExtractorContract
  <1>7. PICK j \in 1..Len(obs) : obs[j].kind = "entity" /\ obs[j].id = proc /\ obs[j].path = obs[k].path
    BY <1>1, <1>3, <1>5, <1>6 DEF Candidates, IsCandidate, TypeOK, ExtractorContract
  <1>8. j \in Candidates(proc) /\ proc \in Ids
    BY <1>3, <1>7, ObsKinds DEF Candidates, IsCandidate, TypeOK, EntityObs
  <1>9. proc \in Known
    BY <1>1, <1>8 DEF ResolverInv, GraphInv, MergeProgress
  <1>10. obs[k].path \in SourcePaths(e.to) /\ obs[k].path \in SourcePaths(proc)
    BY <1>7, <1>8 DEF SourcePaths
  <1>11. QED
    BY <1>6, <1>9, <1>10 DEF proc

LEMMA InvLogged == ResolverInv => MixedExpansionInLedger
  <1> SUFFICES ASSUME ResolverInv, NEW e \in edges, NEW f \in edges,
                      e.type = "EXPANDS_TO", f.type = "EXPANDS_TO", e.from = f.from,
                      SourcePaths(e.to) \cap SourcePaths(f.to) = {}
               PROVE  entities[e.from].invoked \in conflicts
    BY DEF MixedExpansionInLedger
  <1> DEFINE proc == entities[e.from].invoked
  <1>1. /\ TypeOf[proc] = "JCLProc" /\ proc \in Known
        /\ SourcePaths(e.to) \cap SourcePaths(proc) # {}
        /\ SourcePaths(f.to) \cap SourcePaths(proc) # {}
    BY ExpansionFromDeclaringFile
  <1>2. IsFiniteSet(SourcePaths(proc))
    BY SourcePathsFinite DEF ResolverInv, GraphInv
  <1> HIDE DEF proc
  <1>3. PICK x \in SourcePaths(proc) : x \in SourcePaths(e.to)
    BY <1>1
  <1>4. PICK y \in SourcePaths(proc) : y \in SourcePaths(f.to)
    BY <1>1
  <1>5. x # y
    BY <1>3, <1>4
  <1>6. Cardinality(SourcePaths(proc)) > 1
    BY <1>2, <1>3, <1>4, <1>5, TwoMembers
  <1>7. proc \in conflicts
    BY <1>1, <1>6 DEF ResolverInv, CollisionsLogged
  <1>8. QED
    BY <1>7 DEF proc

\* An invocation that expands to steps of different files leaves a collision of
\* its PROC in the ledger.
THEOREM MixedExpansionsAreLogged == Spec => []MixedExpansionInLedger
  BY InvLogged, ResolverInvariantHolds, PTL

\* The indices of the coupling metrics hold the access paths of the graph.
LEMMA AccessedIsReached ==
  ASSUME ResolverInv, NEW p
  PROVE  /\ Accessed(p) = {d \in Ids : Reaches(p, d)}
         /\ Accessed(p) # {} => p \in Known
         /\ p \in Known => (SourceProgram(p) <=> IsAppProgram(p))
  <1>1. \A e \in edges : e.to \in Ids /\ e.to \in Known /\ e.from \in Known
    BY DEF ResolverInv, GraphInv, TypeOK, Edge, EdgesClosed
  <1>2. SourceProgram(p) <=> IsAppProgram(p)
    <2>1. ASSUME p \in Known, TypeOf[p] = "Unresolved"
          PROVE  IsPartial(p)
      <3>1. entities[p].origin = "unresolved"
        BY <2>1 DEF ResolverInv, GraphInv, OriginsSound
      <3>2. QED
        BY <2>1, <3>1 DEF ResolverInv, GraphInv, OriginsSound, IsPartial, Known
    <2>2. QED
      BY <2>1 DEF SourceProgram, IsAppProgram, EntityType
  <1>3. ASSUME NEW d
        PROVE  d \in OnlineDatasets(p) <=> ReachesOnline(p, d)
    BY DEF OnlineDatasets, ReachesOnline, BoundTo, EdgesFrom
  <1>4. ASSUME NEW d
        PROVE  d \in BatchDatasets(p) <=> ReachesInBatch(p, d)
    BY DEF BatchDatasets, ReachesInBatch, InvokedBy, EdgesFrom
  <1>5. \A d : ReachesOnline(p, d) \/ ReachesInBatch(p, d) => d \in Ids
    BY <1>1 DEF ReachesOnline, ReachesInBatch
  <1>6. Accessed(p) = {d \in Ids : Reaches(p, d)}
    BY <1>2, <1>3, <1>4, <1>5 DEF Accessed, Reaches
  <1>7. Accessed(p) # {} => p \in Known
    BY DEF Accessed, IsAppProgram
  <1>8. QED
    BY <1>2, <1>6, <1>7

LEMMA InvCoupling == ResolverInv => CouplingMatchesPaths
  <1>1. ASSUME ResolverInv, pc \in {"collect", "done"}, NEW id \in Known
        PROVE  /\ TypeOf[id] = "Dataset" =>
                    metrics[id].shared = Cardinality({p \in Ids : Reaches(p, id)})
               /\ SourceProgram(id) =>
                    metrics[id].shared =
                      Cardinality({q \in Ids \ {id} : \E d \in Ids : Reaches(id, d) /\ Reaches(q, d)})
    <2>1. metrics[id] = MetricsOf(id) /\ id \in Ids
      BY <1>1 DEF ResolverInv, MetricsKept, Known
    <2>2. /\ TypeOf[id] = "Dataset" => metrics[id].shared = Cardinality(Accessors(id))
          /\ SourceProgram(id) => metrics[id].shared = Cardinality(Coupled(id))
      <3>1. SourceProgram(id) => IsAppProgram(id) /\ TypeOf[id] # "Dataset"
        BY <1>1, AccessedIsReached DEF SourceProgram
      <3>2. QED
        BY <2>1, <3>1 DEF MetricsOf
    <2>3. \A p : Accessed(p) = {d \in Ids : Reaches(p, d)} /\ (Accessed(p) # {} => p \in Known)
      BY <1>1, AccessedIsReached
    <2>4. \A p : p \in Population <=> Accessed(p) # {}
      BY <2>3 DEF Population
    <2>5. Known \subseteq Ids
      BY DEF Known
    <2>6. Accessors(id) = {p \in Ids : Reaches(p, id)}
      BY <2>1, <2>3, <2>4, <2>5 DEF Accessors, Population
    <2> DEFINE sharing == {q \in Ids \ {id} : \E d \in Ids : Reaches(id, d) /\ Reaches(q, d)}
    <2>7. \A q : q \in sharing <=> q \in Population \ {id} /\ Accessed(q) \cap Accessed(id) # {}
      BY <2>3, <2>4, <2>5
    <2>8. Coupled(id) = sharing
      <3>1. CASE Accessed(id) = {}
        BY <2>7, <3>1 DEF Coupled
      <3>2. CASE Accessed(id) # {} /\ Cardinality(Population) <= 1
        <4>1. IsFiniteSet(Population)
          BY <1>1, FS_Subset DEF Population, ResolverInv
        <4>2. id \in Population
          BY <2>4, <3>2
        <4>3. ASSUME NEW q \in Population \ {id}
              PROVE  FALSE
          <5>1. Cardinality(Population) \in Nat /\ Cardinality(Population) > 1
            BY <4>1, <4>2, <4>3, TwoMembers
          <5>2. QED
            BY <3>2, <5>1
        <4>4. QED
          BY <2>7, <3>2, <4>3 DEF Coupled
      <3>3. CASE Accessed(id) # {} /\ ~(Cardinality(Population) <= 1)
        BY <2>7, <3>3 DEF Coupled
      <3>4. QED
        BY <3>1, <3>2, <3>3
    <2>9. QED
      BY <2>2, <2>6, <2>8
  <1>2. QED
    BY <1>1 DEF CouplingMatchesPaths

\* The scores of a dataset and of a program count what the paths of the final
\* graph reach.
THEOREM CouplingIsReachability == Spec => []CouplingMatchesPaths
  BY InvCoupling, ResolverInvariantHolds, PTL

-----------------------------------------------------------------------------
(* The entities and edges of a finished run *)

LEMMA TypesOfIds ==
  ASSUME NEW id \in Ids
  PROVE  /\ TypeOf[id] \in EntityTypes \cup {"Unresolved"}
         /\ EntityType(id) \in EntityTypes
         /\ \A type \in EntityTypes \ {"Program"} : EntityType(id) = type <=> TypeOf[id] = type
  BY ResolverAssumption DEF EntityType, EntityTypes

\* The entities are the ids that some observation names.
LEMMA KnownAreTheNamed ==
  ASSUME ResolverInv, pc = "done", NEW id \in Ids
  PROVE  id \in Known <=> Named(id)
  <1>1. id \in Known => Named(id)
    BY DEF ResolverInv, EntitiesAreFounded
  <1>2. ASSUME NEW k \in 1..Len(obs), IsCandidate(k, id)
        PROVE  id \in Known
    BY <1>2 DEF ResolverInv, GraphInv, MergeProgress, Candidates
  <1>3. ASSUME NEW k \in 1..Len(obs), obs[k].kind = "edge", id \in {obs[k].from, obs[k].to}
        PROVE  id \in Known
    <2> DEFINE e == [type |-> obs[k].type, from |-> obs[k].from, to |-> obs[k].to, via |-> k]
    <2>1. e \in edges
      BY <1>3 DEF ResolverInv, EdgesAreThere
    <2>2. {e.from, e.to} \subseteq Known
      BY <2>1 DEF ResolverInv, GraphInv, EdgesClosed
    <2>3. QED
      BY <1>3, <2>2
  <1>4. QED
    BY <1>1, <1>2, <1>3 DEF Named

\* Apart from bindings and expansions, the edges of a type are the references of
\* that type.
LEMMA EdgesOfAType ==
  ASSUME ResolverInv, pc = "done", NEW type, type \notin {"BINDS_TO", "EXPANDS_TO"}
  PROVE  /\ \A e \in EdgesOf(type) : IsObserved(e)
         /\ \A k \in 1..Len(obs) : obs[k].kind = "edge" /\ obs[k].type = type =>
              \E e \in EdgesOf(type) : e.from = obs[k].from /\ e.to = obs[k].to
  <1>1. ASSUME NEW e \in EdgesOf(type)
        PROVE  IsObserved(e)
    BY DEF EdgesOf, ResolverInv, EdgesAreFounded, IsBinding, IsExpansion
  <1>2. ASSUME NEW k \in 1..Len(obs), obs[k].kind = "edge", obs[k].type = type
        PROVE  \E e \in EdgesOf(type) : e.from = obs[k].from /\ e.to = obs[k].to
    <2> DEFINE e == [type |-> obs[k].type, from |-> obs[k].from, to |-> obs[k].to, via |-> k]
    <2>1. e \in edges
      BY <1>2 DEF ResolverInv, EdgesAreThere
    <2>2. e \in EdgesOf(type) /\ e.from = obs[k].from /\ e.to = obs[k].to
      BY <1>2, <2>1 DEF EdgesOf
    <2>3. QED
      BY <2>2
  <1>3. QED
    BY <1>1, <1>2

-----------------------------------------------------------------------------
(* The artifacts are well formed *)

LEMMA EdgesAreCited ==
  ASSUME ResolverInv, NEW e \in edges
  PROVE  EdgeProvenance(e) # {}
  <1>1. e.from \in Known
    BY DEF ResolverInv, GraphInv, EdgesClosed
  <1>2. entities[e.from].prov # {}
    BY <1>1 DEF ResolverInv, EntitiesAreFounded
  <1>3. QED
    BY <1>2 DEF EdgeProvenance

LEMMA NoStructuralError ==
  ASSUME ResolverInv
  PROVE  EntityErrors = {} /\ EdgeErrors = {} /\ EndpointWarnings = {}
  <1>1. EntityErrors = {}
    BY TypesOfIds DEF EntityErrors, Known, ResolverInv, EntitiesAreFounded
  <1>2. \A e \in edges : e.type \in EdgeTypes /\ e.from \in Ids /\ e.to \in Ids
    BY DEF ResolverInv, GraphInv, TypeOK, Edge
  <1>3. EdgeErrors = {}
    BY <1>2, TypesOfIds, EdgesAreCited DEF EdgeErrors
  <1>4. EndpointWarnings = {}
    BY DEF EndpointWarnings, ResolverInv, GraphInv, EdgesClosed
  <1>5. QED
    BY <1>1, <1>3, <1>4

-----------------------------------------------------------------------------
(* The scores are fractions *)

LEMMA ScoreOfDataset ==
  ASSUME ResolverInv, NEW id \in Known, TypeOf[id] = "Dataset"
  PROVE  MetricsOf(id).shared \in 0..MetricsOf(id).among
  <1>1. IsFiniteSet(Population)
    BY FS_Subset DEF Population, ResolverInv
  <1>2. Cardinality(Accessors(id)) <= Cardinality(Population)
    BY <1>1, FS_Subset DEF Accessors
  <1>3. Cardinality(Accessors(id)) \in Nat /\ Cardinality(Population) \in Nat
    BY <1>1, FS_Subset, FS_CardinalityType DEF Accessors
  <1>4. MetricsOf(id).shared = Cardinality(Accessors(id)) /\ MetricsOf(id).among = Cardinality(Population)
    BY DEF MetricsOf
  <1>5. QED
    BY <1>2, <1>3, <1>4

LEMMA ScoreOfProgram ==
  ASSUME ResolverInv, NEW id \in Known, IsAppProgram(id), TypeOf[id] # "Dataset"
  PROVE  MetricsOf(id).shared \in
           0..(IF MetricsOf(id).among < 0 THEN 0 ELSE MetricsOf(id).among)
  <1>1. /\ IsFiniteSet(Population) /\ Cardinality(Population) \in Nat
    BY FS_Subset, FS_CardinalityType DEF Population, ResolverInv
  <1>2. /\ MetricsOf(id).shared = Cardinality(Coupled(id))
        /\ MetricsOf(id).among = Cardinality(Population) - 1
    BY DEF MetricsOf
  <1>3. CASE Accessed(id) = {} \/ Cardinality(Population) <= 1
    <2>1. Cardinality(Coupled(id)) = 0
      BY <1>3, FS_EmptySet DEF Coupled
    <2>2. QED
      BY <1>1, <1>2, <2>1
  <1>4. CASE Accessed(id) # {} /\ ~(Cardinality(Population) <= 1)
    <2>1. id \in Population
      BY <1>4 DEF Population
    <2>2. /\ IsFiniteSet(Population \ {id})
          /\ Cardinality(Population \ {id}) = Cardinality(Population) - 1
      BY <1>1, <2>1, FS_RemoveElement
    <2>3. Coupled(id) \in SUBSET (Population \ {id})
      BY <1>4 DEF Coupled
    <2>4. /\ Cardinality(Coupled(id)) \in Nat
          /\ Cardinality(Coupled(id)) <= Cardinality(Population) - 1
      BY <2>2, <2>3, FS_Subset, FS_CardinalityType
    <2>5. QED
      BY <1>1, <1>2, <1>4, <2>4
  <1>5. QED
    BY <1>3, <1>4

LEMMA ScoresAreFractions ==
  ASSUME ResolverInv, pc = "done", NEW id \in AppPrograms \cup OfType("Dataset")
  PROVE  ~OutOfRange(id)
  <1>1. id \in Known /\ id \in Ids /\ metrics[id] = MetricsOf(id)
    BY DEF AppPrograms, OfType, ResolverInv, MetricsKept, Known
  <1>2. CASE TypeOf[id] = "Dataset"
    <2>1. Cardinality(Population) \in Nat /\ MetricsOf(id).among = Cardinality(Population)
      BY <1>2, FS_Subset, FS_CardinalityType DEF Population, ResolverInv, MetricsOf
    <2>2. QED
      BY <1>1, <1>2, <2>1, ScoreOfDataset DEF OutOfRange
  <1>3. CASE TypeOf[id] # "Dataset"
    <2>1. IsAppProgram(id)
      BY <1>1, <1>3, TypesOfIds DEF AppPrograms, OfType, IsAppProgram, EntityTypes
    <2>2. QED
      BY <1>1, <1>3, <2>1, ScoreOfProgram DEF OutOfRange
  <1>4. QED
    BY <1>2, <1>3

-----------------------------------------------------------------------------
(* What cannot fail *)

LEMMA NoDirectAccess ==
  ASSUME ResolverInv
  PROVE  DirectAccess = {}
  <1> SUFFICES ASSUME NEW e \in edges, EntityType(e.from) = "Program", EntityType(e.to) = "Dataset"
               PROVE  FALSE
    BY DEF DirectAccess
  <1>1. e.from \in Ids /\ e.to \in Ids /\ TypeOf[e.to] = "Dataset" /\ e.from \in Known
    BY TypesOfIds DEF ResolverInv, GraphInv, TypeOK, Edge, EdgesClosed, EntityTypes
  <1>2. CASE IsObserved(e)
    <2>1. /\ TypeOf[e.from] \in EntityTypes
          /\ TypeOf[e.from] = "Program" => TypeOf[e.to] # "Dataset"
      BY <1>2 DEF IsObserved, ResolverInv, GraphInv, TypeOK, ExtractorContract
    <2>2. TypeOf[e.from] = "Program"
      BY <2>1 DEF EntityType, EntityTypes
    <2>3. QED
      BY <1>1, <2>1, <2>2
  <1>3. CASE IsBinding(e)
    <2>1. TypeOf[e.from] = "LogicalFile"
      BY <1>1, <1>3 DEF IsBinding, ResolverInv, EdgesAreThere
    <2>2. QED
      BY <2>1 DEF EntityType
  <1>4. CASE IsExpansion(e)
    BY <1>1, <1>4 DEF IsExpansion, Expansions
  <1>5. QED
    BY <1>2, <1>3, <1>4 DEF ResolverInv, EdgesAreFounded

LEMMA NoPromotedCall ==
  ASSUME ResolverInv, pc = "done"
  PROVE  PromotedCalls = {}
  <1> SUFFICES ASSUME NEW e \in EdgesOf("CALLS"), obs[e.via].dynamic
               PROVE  TypeOf[e.to] = "Unresolved"
    BY DEF PromotedCalls
  <1>1. IsObserved(e)
    BY EdgesOfAType
  <1>2. QED
    BY <1>1 DEF IsObserved, ResolverInv, GraphInv, TypeOK, ExtractorContract

LEMMA OnlyTransactionsFail ==
  ASSUME ResolverInv, pc = "done"
  PROVE  Failing \subseteq {"transactions"}
  <1>1. \A nothing \in BOOLEAN : Verdict(nothing, {}) # "fail"
    BY DEF Verdict
  <1>2. CouplingMetricsPopulated # "fail"
    <2> DEFINE scored == AppPrograms \cup OfType("Dataset")
    <2>1. {id \in scored : OutOfRange(id)} = {}
      BY ScoresAreFractions
    <2>2. CouplingMetricsPopulated = Verdict(scored = {}, {id \in scored : OutOfRange(id)})
      BY DEF CouplingMetricsPopulated
    <2>3. QED
      BY <1>1, <2>1, <2>2
  <1>3. DatasetsHaveBindingEvidence # "fail"
    BY <1>1 DEF DatasetsHaveBindingEvidence
  <1>4. NoDirectProgramDatasetEdges # "fail"
    BY <1>1, NoDirectAccess DEF NoDirectProgramDatasetEdges
  <1>5. DynamicCallsNotPromoted # "fail"
    BY <1>1, NoPromotedCall DEF DynamicCallsNotPromoted
  <1>6. EdgesHaveProvenance # "fail"
    <2>1. {e \in edges : EdgeProvenance(e) = {}} = {}
      BY EdgesAreCited
    <2>2. QED
      BY <1>1, <2>1 DEF EdgesHaveProvenance
  <1>7. PartialsInReport # "fail"
    <2>1. UnreportedPartials = {}
      BY DEF UnreportedPartials, Known, ResolverInv, GraphInv, PartialsReportedOnce
    <2>2. QED
      BY <1>1, <2>1 DEF PartialsInReport
  <1>8. QED
    BY <1>2, <1>3, <1>4, <1>5, <1>6, <1>7 DEF Failing, Verdicts

-----------------------------------------------------------------------------
(* What fails or warns, and why *)

LEMMA TransactionVerdict ==
  ASSUME ResolverInv, pc = "done"
  PROVE  TransactionsHaveEntryProgram = "fail" <=>
           \E t \in Ids : TypeOf[t] = "CICSTransaction" /\ Named(t) /\ ~EntryObserved(t)
  <1> DEFINE type == "CICSTransaction"
  <1>1. \A t : t \in OfType(type) <=> t \in Ids /\ TypeOf[t] = type /\ Named(t)
    <2>1. \A t \in Ids : EntityType(t) = type <=> TypeOf[t] = type
      BY TypesOfIds DEF EntityTypes
    <2>2. QED
      BY <2>1, KnownAreTheNamed DEF OfType, Known
  <1>2. ASSUME NEW t
        PROVE  (\E e \in EdgesOf("IS_TRANSACTION_FOR") : e.from = t) <=> EntryObserved(t)
    <2>1. /\ \A e \in EdgesOf("IS_TRANSACTION_FOR") : IsObserved(e) /\ e.type = "IS_TRANSACTION_FOR"
          /\ \A k \in 1..Len(obs) : obs[k].kind = "edge" /\ obs[k].type = "IS_TRANSACTION_FOR" =>
               \E e \in EdgesOf("IS_TRANSACTION_FOR") : e.from = obs[k].from /\ e.to = obs[k].to
      BY EdgesOfAType DEF EdgesOf
    <2>2. QED
      BY <2>1 DEF IsObserved, EntryObserved
  <1>3. TransactionsHaveEntryProgram = "fail" <=> TransactionsWithoutEntry # {}
    BY DEF TransactionsHaveEntryProgram, Verdict, TransactionsWithoutEntry
  <1>4. QED
    BY <1>1, <1>2, <1>3 DEF TransactionsWithoutEntry

\* A binding leads to the dataset of the last definition of a file used online.
LEMMA BindingsAreObserved ==
  ASSUME ResolverInv, pc = "done", NEW e \in EdgesOf("BINDS_TO")
  PROVE  BindingObserved(e.to)
  <1>1. e \in edges /\ IsBinding(e) /\ e.from \in Known /\ e.from \in Ids
    BY DerivedEdges DEF EdgesOf, ResolverInv, GraphInv, EdgesClosed, Known
  <1>2. /\ TypeOf[e.from] = "LogicalFile" /\ FileOf[e.from] \in Files
        /\ Candidates(e.from) = {} /\ UsedOnline(e.from) # {}
    BY <1>1, ResolverAssumption
    DEF IsBinding, ResolverInv, EdgesAreThere, EntitiesAreFounded, GraphInv, OriginsSound
  <1>3. PICK k \in 1..Len(obs) : obs[k].kind = "edge" /\ obs[k].cics /\ obs[k].to = e.from
    BY <1>2 DEF UsedOnline
  <1>4. PICK c \in DefinitionsOf(FileOf[e.from]) :
          e.to = obs[c].dataset /\ \A j \in DefinitionsOf(FileOf[e.from]) : j <= c
    BY <1>1, <1>2 DEF IsBinding, ResolverInv, HintsAreLast, Passed
  <1>5. /\ c \in 1..Len(obs) /\ obs[c].kind = "csd" /\ obs[c].file = FileOf[e.from]
        /\ Len(obs) \in Nat
    BY DEF DefinitionsOf, ResolverInv, GraphInv, TypeOK
  <1>6. ASSUME NEW x \in (c + 1)..Len(obs), obs[x].kind = "csd", obs[x].file = obs[c].file
        PROVE  FALSE
    <2>1. x \in 1..Len(obs) /\ ~(x <= c)
      BY <1>5
    <2>2. x \in DefinitionsOf(FileOf[e.from])
      BY <1>5, <1>6, <2>1 DEF DefinitionsOf
    <2>3. QED
      BY <1>4, <2>1, <2>2
  <1>7. QED
    BY <1>2, <1>3, <1>4, <1>5, <1>6 DEF BindingObserved

\* And every such file is bound.
LEMMA ObservedBindingsExist ==
  ASSUME ResolverInv, pc = "done", NEW k \in 1..Len(obs), NEW c \in 1..Len(obs),
         obs[k].kind = "edge", obs[k].cics, Candidates(obs[k].to) = {},
         obs[c].kind = "csd", FileOf[obs[k].to] = obs[c].file,
         \A x \in (c + 1)..Len(obs) : obs[x].kind = "csd" => obs[x].file # obs[c].file
  PROVE  \E e \in EdgesOf("BINDS_TO") : e.to = obs[c].dataset
  <1> DEFINE f == obs[k].to
  <1>1. f \in Ids /\ TypeOf[f] = "LogicalFile" /\ FileOf[f] \in Files /\ Len(obs) \in Nat
    <2>1. obs[k] \in EdgeObs /\ TypeOf[f] = "LogicalFile" /\ Len(obs) \in Nat
      BY ObsKinds DEF ResolverInv, GraphInv, TypeOK, ExtractorContract
    <2>2. QED
      BY <2>1, ResolverAssumption DEF EdgeObs
  <1>2. f \in Known /\ entities[f].origin = "online"
    <2>1. k \in UsedOnline(f)
      BY DEF UsedOnline
    <2>2. f \in Known /\ entities[f].origin \in {"merged", "online"}
      BY <1>1, <2>1 DEF ResolverInv, OnlineFilesAreThere
    <2>3. QED
      BY <2>2 DEF ResolverInv, GraphInv, OriginsSound
  <1>3. csd[FileOf[f]] = obs[c].dataset
    <2>1. c \in DefinitionsOf(FileOf[f]) /\ \A j \in DefinitionsOf(FileOf[f]) : j <= c
      <3>1. ASSUME NEW j \in DefinitionsOf(FileOf[f]), ~(j <= c)
            PROVE  FALSE
        <4>1. j \in (c + 1)..Len(obs) /\ obs[j].kind = "csd" /\ obs[j].file = obs[c].file
          BY <1>1, <3>1 DEF DefinitionsOf
        <4>2. QED
          BY <4>1
      <3>2. QED
        BY <3>1 DEF DefinitionsOf
    <2>2. PICK d \in DefinitionsOf(FileOf[f]) :
            csd[FileOf[f]] = obs[d].dataset /\ \A j \in DefinitionsOf(FileOf[f]) : j <= d
      BY <1>1, <2>1 DEF ResolverInv, HintsAreLast, Passed
    <2>3. d <= c /\ c <= d /\ d \in Nat /\ c \in Nat
      BY <2>1, <2>2 DEF DefinitionsOf
    <2>4. d = c
      BY <2>3
    <2>5. QED
      BY <2>2, <2>4
  <1>4. obs[c].dataset # NoId
    <2>1. obs[c] \in CsdObs
      BY ObsKinds DEF ResolverInv, GraphInv, TypeOK
    <2>2. QED
      BY <2>1, ResolverAssumption DEF CsdObs
  <1>5. QED
    BY <1>2, <1>3, <1>4 DEF ResolverInv, EdgesAreThere, EdgesOf

LEMMA DatasetVerdict ==
  ASSUME ResolverInv, pc = "done"
  PROVE  DatasetsHaveBindingEvidence = "warn" <=>
           \E d \in Ids : TypeOf[d] = "Dataset" /\ Named(d) /\ ~BindingObserved(d)
  <1> DEFINE bound == EdgesOf("USES_DATASET") \cup EdgesOf("BINDS_TO")
  <1>1. \A d : d \in OfType("Dataset") <=> d \in Ids /\ TypeOf[d] = "Dataset" /\ Named(d)
    <2>1. \A d \in Ids : EntityType(d) = "Dataset" <=> TypeOf[d] = "Dataset"
      BY TypesOfIds DEF EntityTypes
    <2>2. QED
      BY <2>1, KnownAreTheNamed DEF OfType, Known
  <1>2. ASSUME NEW e \in EdgesOf("USES_DATASET")
        PROVE  BindingObserved(e.to)
    <2>1. IsObserved(e) /\ e.type = "USES_DATASET"
      BY EdgesOfAType DEF EdgesOf
    <2>2. QED
      BY <2>1 DEF IsObserved, BindingObserved
  <1>3. ASSUME NEW k \in 1..Len(obs), obs[k].kind = "edge", obs[k].type = "USES_DATASET"
        PROVE  \E e \in EdgesOf("USES_DATASET") : e.to = obs[k].to
    BY <1>3, EdgesOfAType
  <1>4. \A d : (\E e \in bound : e.to = d) <=> BindingObserved(d)
    <2>1. \A e \in bound : BindingObserved(e.to)
      BY <1>2, BindingsAreObserved
    <2>2. ASSUME NEW d, BindingObserved(d)
          PROVE  \E e \in bound : e.to = d
      BY <1>3, <2>2, ObservedBindingsExist DEF BindingObserved
    <2>3. QED
      BY <2>1, <2>2
  <1>5. DatasetsHaveBindingEvidence = "warn" <=> WithoutBinding # {}
    BY DEF DatasetsHaveBindingEvidence, Verdict
  <1>6. QED
    BY <1>1, <1>4, <1>5 DEF WithoutBinding

\* The verdict of the gate says of the artifacts what the observations say: no
\* structural error, no failure but that of a transaction nobody gives an entry
\* program, no warning but that of a dataset no statement binds.
THEOREM VerdictsAreAboutTheSources == Spec => []VerdictFollowsFromSources
  <1>1. ResolverInv => VerdictFollowsFromSources
    BY NoStructuralError, OnlyTransactionsFail, TransactionVerdict, DatasetVerdict
    DEF VerdictFollowsFromSources
  <1>2. QED
    BY <1>1, ResolverInvariantHolds, PTL
=============================================================================
