--------------------------- MODULE PipelineProofs ---------------------------
(***************************************************************************)
(* Theorems about module Pipeline, for every corpus and every number of    *)
(* runs, each stopped anywhere.                                            *)
(***************************************************************************)
EXTENDS Pipeline, TLAPS

-----------------------------------------------------------------------------
(* Facts about the tables *)

\* The artifacts are written to files of their own, and none is the sample queries'.
LEMMA Tables ==
  /\ Len(Written) = 5 /\ Len(Checked) = 4
  /\ \A k \in 1..Len(Written) : Written[k] \in Artifacts /\ Written[k] # "query_samples"
  /\ \A j, k \in 1..Len(Written) : Written[j] = Written[k] => j = k
  /\ \A k \in 1..Len(Checked) : Checked[k] \in Checks /\ Checked[k] # "semantic"
  /\ \A a \in Artifacts : a = "query_samples" \/ \E k \in 1..Len(Written) : a = Written[k]
  /\ \A c \in Checks : c = "semantic" \/ \E k \in 1..Len(Checked) : c = Checked[k]
  /\ Written[1] = "entities" /\ Written[2] = "edges"
  /\ "query_samples" \in Artifacts /\ "semantic" \in Checks
  BY DEF Written, Checked, Artifacts, Checks

\* A listing names every file at most once.
LEMMA ListedOnce ==
  ASSUME NEW s \in Listings
  PROVE  /\ s \in Seq(Files) /\ Len(s) \in Nat /\ Len(s) <= Len(Order)
         /\ \A i \in 1..Len(s) : s[i] \in Files
         /\ \A i, j \in 1..Len(s) : s[i] = s[j] => i = j
  <1>1. PICK n \in 0..Len(Order) : s \in [1..n -> Files]
    BY DEF Listings
  <1>2. Len(Order) \in Nat
    BY PipelineAssumption
  <1>3. n \in Nat /\ n <= Len(Order)
    BY <1>1, <1>2
  <1>4. s \in Seq(Files) /\ Len(s) = n
    BY <1>1, <1>3
  <1>5. ASSUME NEW i \in 1..Len(s), NEW j \in 1..Len(s), s[i] = s[j], i < j
        PROVE  FALSE
    <2>1. PICK p \in 1..Len(Order), q \in 1..Len(Order) : p < q /\ Order[p] = s[i] /\ Order[q] = s[j]
      BY <1>5 DEF Listings, Before
    <2>2. p = q
      BY <1>5, <2>1, PipelineAssumption
    <2>3. QED
      BY <2>1, <2>2
  <1>6. \A i, j \in 1..Len(s) : s[i] = s[j] => i = j
    <2> SUFFICES ASSUME NEW i \in 1..Len(s), NEW j \in 1..Len(s), s[i] = s[j]
                 PROVE  i = j
      OBVIOUS
    <2>1. ~(i < j) /\ ~(j < i)
      BY <1>5
    <2>2. QED
      BY <1>3, <1>4, <2>1
  <1>7. QED
    BY <1>3, <1>4, <1>6

LEMMA EmptyListing == <<>> \in Listings
  <1>1. 0 \in 0..Len(Order)
    BY PipelineAssumption
  <1>2. <<>> \in [1..0 -> Files] /\ Len(<<>>) = 0
    OBVIOUS
  <1>3. QED
    BY <1>1, <1>2 DEF Listings

\* A database of the rows of one run has the type of a database.
LEMMA DbOfRun ==
  ASSUME NEW r \in 1..MaxRuns, NEW w \in BOOLEAN
  PROVE  [exists |-> TRUE, rows |-> {r}, whole |-> w]
           \in [exists : BOOLEAN, rows : SUBSET (None..MaxRuns), whole : BOOLEAN]
  <1>1. {r} \in SUBSET (None..MaxRuns)
    BY PipelineAssumption DEF None
  <1>2. QED
    BY <1>1

-----------------------------------------------------------------------------
(* The inductive invariant *)

LEMMA InitInv == Init => PipelineInv
  <1> SUFFICES ASSUME Init
               PROVE  PipelineInv
    OBVIOUS
  <1> USE DEF Init
  <1>1. TypeInvariant
    <2>1. Len(Order) \in Nat /\ MaxRuns \in Nat /\ Whole \in Nat
      BY PipelineAssumption
    <2>2. run \in 0..MaxRuns /\ at \in 1..(Len(Order) + Len(Written) + 1)
      BY <2>1, Tables
    <2>3. sink \in [Files -> 0..Whole] /\ disk \in [Artifacts -> Torn..MaxRuns]
      BY <2>1 DEF None, Torn
    <2>4. db \in [exists : BOOLEAN, rows : SUBSET (None..MaxRuns), whole : BOOLEAN]
      BY DEF NoDb
    <2>5. QED
      BY <2>2, <2>3, <2>4, EmptyListing DEF TypeInvariant, Steps
  <1>2. NeverMixed
    BY DEF NeverMixed, NoDb
  <1>3. RunIsOpen /\ ReadSoFar /\ WrittenSoFar /\ FaultsSoFar /\ DatabaseSoFar
    BY DEF RunIsOpen, ReadSoFar, WrittenSoFar, FaultsSoFar, DatabaseSoFar
  <1>4. RerunRepairs /\ ExitTellsFaults
    BY DEF RerunRepairs, ExitTellsFaults, Completed
  <1>5. QED
    BY <1>1, <1>2, <1>3, <1>4 DEF PipelineInv

\* Each step settles what the next one finds, whatever an earlier run left behind.
LEMMA NextInv == PipelineInv /\ [Next]_vars => PipelineInv'
  <1> SUFFICES ASSUME PipelineInv, [Next]_vars
               PROVE  PipelineInv'
    OBVIOUS
  <1> USE DEF PipelineInv
  <1>0. /\ Len(Order) \in Nat /\ MaxRuns \in Nat /\ Whole \in Nat \ {0}
        /\ Len(files) \in Nat /\ Len(files) <= Len(Order)
        /\ \A k \in 1..Len(files) : files[k] \in Files
        /\ \A j, k \in 1..Len(files) : files[j] = files[k] => j = k
    <2>1. files \in Listings
      BY DEF TypeInvariant
    <2>2. Len(Order) \in Nat /\ MaxRuns \in Nat /\ Whole \in Nat \ {0}
      BY PipelineAssumption
    <2>3. QED
      BY ONLY <2>1, <2>2, ListedOnce
  <1>1. ASSUME NEW found \in Listings, NEW known \in BOOLEAN, NEW bad \in SUBSET Checks,
               Start(found, known, bad)
        PROVE  PipelineInv'
    <2> USE <1>1 DEF Start
    <2>1. run \in 0..MaxRuns /\ run' = run + 1 /\ run' \in 0..MaxRuns /\ run' > 0
      BY <1>0 DEF TypeInvariant
    <2>2. step' \in {"idle", "extract"} /\ (step' = "idle" => status' = "2")
          /\ (step' = "extract" => status' = "running")
      OBVIOUS
    <2>3. TypeInvariant'
      <3>1. at' \in 1..(Len(Order) + Len(Written) + 1) /\ sink' \in [Files -> 0..Whole]
        BY <1>0, Tables
      <3>2. QED
        BY <2>1, <2>2, <3>1 DEF TypeInvariant, Steps, store
    <2>4. RunIsOpen' /\ RerunRepairs' /\ ExitTellsFaults'
      BY <2>1, <2>2 DEF RunIsOpen, RerunRepairs, ExitTellsFaults, Completed
    <2>5. NeverMixed'
      BY DEF NeverMixed, store
    <2>6. ReadSoFar'
      BY <1>0, <2>2, ListedOnce DEF ReadSoFar
    <2>7. WrittenSoFar' /\ FaultsSoFar' /\ DatabaseSoFar'
      BY <2>2 DEF WrittenSoFar, FaultsSoFar, DatabaseSoFar
    <2>8. QED
      BY <2>3, <2>4, <2>5, <2>6, <2>7
  <1>2. CASE Crash
    <2> USE <1>2 DEF Crash, End, input, read, store
    <2>1. TypeInvariant'
      BY DEF TypeInvariant, Steps
    <2>2. RunIsOpen' /\ RerunRepairs' /\ ExitTellsFaults' /\ NeverMixed'
      BY DEF RunIsOpen, RerunRepairs, ExitTellsFaults, Completed, NeverMixed
    <2>3. ReadSoFar' /\ WrittenSoFar' /\ FaultsSoFar' /\ DatabaseSoFar'
      BY DEF ReadSoFar, WrittenSoFar, FaultsSoFar, DatabaseSoFar
    <2>4. QED
      BY <2>1, <2>2, <2>3
  <1>3. CASE ReadFile
    <2> USE <1>3 DEF ReadFile, Extracting, Register, input, store
    <2>1. files[at] \in Files /\ at \in 1..Len(files)
      BY <1>0 DEF TypeInvariant
    <2>2. TypeInvariant'
      <3>1. at' \in 1..(Len(Order) + Len(Written) + 1)
        BY <1>0, <2>1, Tables
      <3>2. sink' \in [Files -> 0..Whole] /\ parse_status' \in [Files -> {"none", "ok"}]
        BY <1>0, <2>1 DEF TypeInvariant
      <3>3. raised' \subseteq {f \in Files : parse_status'[f] = "ok"}
        BY <2>1 DEF TypeInvariant
      <3>4. QED
        BY <3>1, <3>2, <3>3 DEF TypeInvariant
    <2>3. ReadSoFar'
      <3>1. at' <= Len(files) + 1
        BY <1>0, <2>1
      <3>2. files[at] \notin raised'
        BY <2>1 DEF ReadSoFar
      <3>3. ASSUME NEW k \in 1..Len(files), k = at
            PROVE  Settled(files[k])'
        <4>1. parse_status'[files[k]] = "ok" /\ sink'[files[k]] = Whole
          BY <2>1, <3>3 DEF TypeInvariant
        <4>2. files' = files /\ files[k] \notin raised'
          BY <3>2, <3>3
        <4>3. QED
          BY ONLY <4>1, <4>2 DEF Settled
      <3>4. ASSUME NEW k \in 1..Len(files), k < at
            PROVE  Settled(files[k])'
        <4>1. Settled(files[k]) /\ files[k] # files[at] /\ files[k] \in Files
          BY <1>0, <2>1, <3>4 DEF ReadSoFar
        <4>2. QED
          BY <4>1 DEF Settled, TypeInvariant
      <3>5. \A k \in 1..Len(files) : k < at' <=> (k < at \/ k = at)
        BY <2>1
      <3>6. QED
        <4>1. \A k \in 1..Len(files) : ~(k < at') => files[k] \notin raised'
          BY <3>5 DEF ReadSoFar
        <4>2. \A k \in 1..Len(files) : k < at' => Settled(files[k])'
          BY ONLY <3>3, <3>4, <3>5
        <4>3. files' = files /\ step' = "extract"
          OBVIOUS
        <4>4. QED
          BY ONLY <3>1, <4>1, <4>2, <4>3 DEF ReadSoFar
    <2>4. RunIsOpen' /\ RerunRepairs' /\ ExitTellsFaults' /\ NeverMixed'
      BY DEF RunIsOpen, RerunRepairs, ExitTellsFaults, Completed, NeverMixed
    <2>5. WrittenSoFar' /\ FaultsSoFar' /\ DatabaseSoFar'
      BY DEF WrittenSoFar, FaultsSoFar, DatabaseSoFar
    <2>6. QED
      BY <2>2, <2>3, <2>4, <2>5
  <1>4. ASSUME NEW n \in 0..(Whole - 1), ReaderRaises(n)
        PROVE  PipelineInv'
    <2> USE <1>4 DEF ReaderRaises, Extracting, Register, input, store, End
    <2>1. files[at] \in Files /\ at \in 1..Len(files)
      BY <1>0 DEF TypeInvariant
    <2>2. /\ at' \in {at, at + 1}
          /\ \/ step' = "extract" /\ status' = status /\ at' = at + 1
             \/ step' = "idle" /\ status' = "crashed"
      OBVIOUS
    <2>3. TypeInvariant'
      <3>1. at' \in 1..(Len(Order) + Len(Written) + 1)
        BY <1>0, <2>1, <2>2, Tables
      <3>2. sink' \in [Files -> 0..Whole] /\ parse_status' \in [Files -> {"none", "ok"}]
        BY <1>0, <2>1 DEF TypeInvariant
      <3>3. raised' \subseteq {f \in Files : parse_status'[f] = "ok"}
        BY <2>1 DEF TypeInvariant
      <3>4. QED
        BY <2>2, <3>1, <3>2, <3>3 DEF TypeInvariant, Steps
    <2>4. ReadSoFar'
      <3>1. CASE step' = "idle"
        BY <3>1 DEF ReadSoFar
      <3>2. CASE step' = "extract" /\ at' = at + 1
        <4>1. ASSUME NEW k \in 1..Len(files), k = at
              PROVE  Settled(files[k])'
          <5>1. parse_status'[files[k]] = "ok" /\ sink'[files[k]] = n /\ files[k] \in raised'
            BY <2>1, <4>1 DEF TypeInvariant
          <5>2. n < Whole /\ files' = files
            OBVIOUS
          <5>3. QED
            BY ONLY <5>1, <5>2 DEF Settled
        <4>2. ASSUME NEW k \in 1..Len(files), k < at
              PROVE  Settled(files[k])'
          <5>1. Settled(files[k]) /\ files[k] # files[at] /\ files[k] \in Files
            BY <1>0, <2>1, <4>2 DEF ReadSoFar
          <5>2. QED
            BY <5>1 DEF Settled, TypeInvariant
        <4>3. \A k \in 1..Len(files) : k < at' <=> (k < at \/ k = at)
          BY <2>1, <3>2
        <4>4. \A k \in 1..Len(files) : ~(k < at') => files[k] \notin raised'
          BY <1>0, <2>1, <4>3 DEF ReadSoFar
        <4>5. at' <= Len(files) + 1
          BY <1>0, <2>1, <3>2
        <4>6. QED
          <5>1. \A k \in 1..Len(files) : k < at' => Settled(files[k])'
            BY ONLY <4>1, <4>2, <4>3
          <5>2. files' = files
            OBVIOUS
          <5>3. QED
            BY ONLY <3>2, <4>4, <4>5, <5>1, <5>2 DEF ReadSoFar
      <3>3. QED
        BY <2>2, <3>1, <3>2
    <2>5. RunIsOpen' /\ RerunRepairs' /\ ExitTellsFaults' /\ NeverMixed'
      BY <2>2 DEF RunIsOpen, RerunRepairs, ExitTellsFaults, Completed, NeverMixed
    <2>6. WrittenSoFar' /\ FaultsSoFar' /\ DatabaseSoFar'
      BY <2>2 DEF WrittenSoFar, FaultsSoFar, DatabaseSoFar
    <2>7. QED
      BY <2>3, <2>4, <2>5, <2>6
  <1>5. CASE Resolve
    <2> USE <1>5 DEF Resolve, input, read, store
    <2>1. TypeInvariant'
      BY <1>0, Tables DEF TypeInvariant, Steps
    <2>2. ReadSoFar'
      <3>1. \A k \in 1..Len(files) : k < at
        BY <1>0 DEF TypeInvariant
      <3>2. \A f : Settled(f)' <=> Settled(f)
        BY DEF Settled
      <3>3. QED
        BY <3>1, <3>2 DEF ReadSoFar
    <2>3. RunIsOpen' /\ RerunRepairs' /\ ExitTellsFaults' /\ NeverMixed'
      BY DEF RunIsOpen, RerunRepairs, ExitTellsFaults, Completed, NeverMixed
    <2>4. WrittenSoFar' /\ FaultsSoFar' /\ DatabaseSoFar'
      BY Tables DEF WrittenSoFar, FaultsSoFar, DatabaseSoFar
    <2>5. QED
      BY <2>1, <2>2, <2>3, <2>4
  <1>6. CASE OpenArtifact
    <2> USE <1>6 DEF OpenArtifact, Put, input, read
    <2>1. at \in 1..Len(Written) /\ Written[at] \in Artifacts /\ Written[at] # "query_samples"
      BY Tables DEF TypeInvariant
    <2>2. TypeInvariant'
      <3>1. disk' \in [Artifacts -> Torn..MaxRuns]
        BY <1>0, <2>1 DEF TypeInvariant, Torn
      <3>2. QED
        BY <3>1 DEF TypeInvariant, Steps
    <2>3. ReadSoFar'
      BY DEF ReadSoFar, Settled
    <2>4. WrittenSoFar'
      <3>1. \A k \in 1..Len(Written) : k < at => Written[k] # Written[at]
        BY <2>1, Tables
      <3>2. \A k \in 1..Len(Written) : k < at => disk'[Written[k]] = run
        BY <2>1, <3>1, Tables DEF WrittenSoFar, TypeInvariant
      <3>3. QED
        BY <2>1, <3>2, Tables DEF WrittenSoFar
    <2>5. RunIsOpen' /\ RerunRepairs' /\ ExitTellsFaults' /\ NeverMixed'
      BY DEF RunIsOpen, RerunRepairs, ExitTellsFaults, Completed, NeverMixed
    <2>6. FaultsSoFar' /\ DatabaseSoFar'
      BY DEF FaultsSoFar, DatabaseSoFar
    <2>7. QED
      BY <2>2, <2>3, <2>4, <2>5, <2>6
  <1>7. CASE CloseArtifact
    <2> USE <1>7 DEF CloseArtifact, Put, input, read
    <2>1. at \in 1..Len(Written) /\ Written[at] \in Artifacts /\ Written[at] # "query_samples"
      BY Tables DEF TypeInvariant, WrittenSoFar
    <2>2. TypeInvariant'
      <3>1. disk' \in [Artifacts -> Torn..MaxRuns]
        BY <1>0, <2>1 DEF TypeInvariant, Torn
      <3>2. at' \in 1..(Len(Order) + Len(Written) + 1)
        BY <1>0, <2>1, Tables
      <3>3. QED
        BY <3>1, <3>2 DEF TypeInvariant, Steps
    <2>3. ReadSoFar'
      BY DEF ReadSoFar, Settled
    <2>4. WrittenSoFar'
      <3>1. \A k \in 1..Len(Written) : k < at' => k < at \/ k = at
        BY <2>1, Tables
      <3>2. \A k \in 1..Len(Written) : k < at => disk[Written[k]] = run
        BY DEF WrittenSoFar
      <3>3. \A k \in 1..Len(Written) : k < at' => disk'[Written[k]] = run
        BY <2>1, <3>1, <3>2, Tables DEF TypeInvariant
      <3>4. QED
        BY <2>1, <3>3, Tables DEF WrittenSoFar
    <2>5. RunIsOpen' /\ RerunRepairs' /\ ExitTellsFaults' /\ NeverMixed'
      BY DEF RunIsOpen, RerunRepairs, ExitTellsFaults, Completed, NeverMixed
    <2>6. FaultsSoFar' /\ DatabaseSoFar'
      BY DEF FaultsSoFar, DatabaseSoFar
    <2>7. QED
      BY <2>2, <2>3, <2>4, <2>5, <2>6
  <1>8. CASE EndWrite
    <2> USE <1>8 DEF EndWrite, input, read, store
    <2>1. TypeInvariant'
      BY <1>0, Tables DEF TypeInvariant, Steps
    <2>2. ReadSoFar'
      BY DEF ReadSoFar, Settled
    <2>3. WrittenSoFar'
      BY Tables DEF WrittenSoFar, TypeInvariant
    <2>4. RunIsOpen' /\ RerunRepairs' /\ ExitTellsFaults' /\ NeverMixed'
      BY DEF RunIsOpen, RerunRepairs, ExitTellsFaults, Completed, NeverMixed
    <2>5. FaultsSoFar' /\ DatabaseSoFar'
      BY Tables DEF FaultsSoFar, DatabaseSoFar
    <2>6. QED
      BY <2>1, <2>2, <2>3, <2>4, <2>5
  <1>9. CASE Validate
    <2> USE <1>9 DEF Validate, input, read, store
    <2>1. at \in 1..Len(Checked)
      BY Tables DEF TypeInvariant
    <2>2. TypeInvariant'
      BY <1>0, <2>1, Tables DEF TypeInvariant
    <2>3. ReadSoFar' /\ WrittenSoFar'
      BY DEF ReadSoFar, WrittenSoFar, Settled
    <2>4. FaultsSoFar'
      <3>1. \A k \in 1..Len(Checked) : k < at' <=> (k < at \/ k = at)
        BY <2>1, Tables
      <3>2. validation_failed <=> \E k \in 1..Len(Checked) : k < at /\ Checked[k] \in faults
        BY DEF FaultsSoFar
      <3>3. validation_failed' <=> \E k \in 1..Len(Checked) : k < at' /\ Checked[k] \in faults
        BY <2>1, <3>1, <3>2
      <3>4. at' <= Len(Checked) + 1
        BY <2>1, Tables
      <3>5. QED
        BY <3>3, <3>4 DEF FaultsSoFar
    <2>5. RunIsOpen' /\ RerunRepairs' /\ ExitTellsFaults' /\ NeverMixed' /\ DatabaseSoFar'
      BY DEF RunIsOpen, RerunRepairs, ExitTellsFaults, Completed, NeverMixed, DatabaseSoFar
    <2>6. QED
      BY <2>2, <2>3, <2>4, <2>5
  <1>10. CASE EndValidate
    <2> USE <1>10 DEF EndValidate, input, read, store
    <2>1. TypeInvariant'
      BY DEF TypeInvariant, Steps
    <2>2. ReadSoFar' /\ WrittenSoFar'
      BY DEF ReadSoFar, WrittenSoFar, Settled
    <2>3. FaultsSoFar'
      BY Tables DEF FaultsSoFar, TypeInvariant
    <2>4. RunIsOpen' /\ RerunRepairs' /\ ExitTellsFaults' /\ NeverMixed' /\ DatabaseSoFar'
      BY DEF RunIsOpen, RerunRepairs, ExitTellsFaults, Completed, NeverMixed, DatabaseSoFar
    <2>5. QED
      BY <2>1, <2>2, <2>3, <2>4
  <1>11. CASE DropDb
    <2> USE <1>11 DEF DropDb, input, read
    <2>1. \/ db' = NoDb
          \/ db' = [exists |-> db.exists, rows |-> db.rows, whole |-> FALSE]
      BY DEF TypeInvariant
    <2>2. /\ db' \in [exists : BOOLEAN, rows : SUBSET (None..MaxRuns), whole : BOOLEAN]
          /\ ~db'.whole
      <3>1. CASE db' = NoDb
        BY ONLY <3>1 DEF NoDb
      <3>2. CASE db' = [exists |-> db.exists, rows |-> db.rows, whole |-> FALSE]
        <4>1. db.exists \in BOOLEAN /\ db.rows \in SUBSET (None..MaxRuns)
          BY DEF TypeInvariant
        <4>2. QED
          BY ONLY <3>2, <4>1
      <3>3. QED
        BY ONLY <2>1, <3>1, <3>2
    <2>3. TypeInvariant'
      BY <2>2 DEF TypeInvariant, Steps
    <2>4. ReadSoFar' /\ WrittenSoFar'
      BY DEF ReadSoFar, WrittenSoFar, Settled
    <2>5. FaultsSoFar' /\ DatabaseSoFar'
      BY DEF FaultsSoFar, DatabaseSoFar
    <2>6. RunIsOpen' /\ RerunRepairs' /\ ExitTellsFaults' /\ NeverMixed'
      BY <2>2 DEF RunIsOpen, RerunRepairs, ExitTellsFaults, Completed, NeverMixed
    <2>7. QED
      BY <2>3, <2>4, <2>5, <2>6
  <1>12. CASE DropWal
    <2> USE <1>12 DEF DropWal, input, read
    <2>1. TypeInvariant'
      BY DEF TypeInvariant, Steps
    <2>2. ReadSoFar' /\ WrittenSoFar'
      BY DEF ReadSoFar, WrittenSoFar, Settled
    <2>3. FaultsSoFar' /\ DatabaseSoFar'
      BY DEF FaultsSoFar, DatabaseSoFar
    <2>4. RunIsOpen' /\ RerunRepairs' /\ ExitTellsFaults' /\ NeverMixed'
      BY DEF RunIsOpen, RerunRepairs, ExitTellsFaults, Completed, NeverMixed
    <2>5. QED
      BY <2>1, <2>2, <2>3, <2>4
  <1>13. CASE OpenDb
    <2> USE <1>13 DEF OpenDb, input, read, End
    <2>1. run \in 1..MaxRuns
      BY <1>0 DEF RunIsOpen, TypeInvariant
    <2>2. \/ step' = "idle" /\ status' = "crashed" /\ db' = db /\ wal' = wal
          \/ /\ step' = "close_db" /\ status' = status /\ wal' = {run}
             /\ db' = [exists |-> TRUE, rows |-> {run}, whole |-> FALSE]
      <3>1. wal = {} /\ disk["entities"] = run /\ disk["edges"] = run
        BY Tables DEF DatabaseSoFar, WrittenSoFar
      <3>2. QED
        BY <3>1
    <2>3. TypeInvariant'
      <3>1. db' \in [exists : BOOLEAN, rows : SUBSET (None..MaxRuns), whole : BOOLEAN]
        BY <2>1, <2>2, DbOfRun DEF TypeInvariant
      <3>2. QED
        BY <2>1, <2>2, <3>1 DEF TypeInvariant, Steps
    <2>4. ReadSoFar' /\ WrittenSoFar'
      BY <2>2 DEF ReadSoFar, WrittenSoFar, Settled
    <2>5. FaultsSoFar' /\ DatabaseSoFar'
      BY <2>2 DEF FaultsSoFar, DatabaseSoFar
    <2>6. RunIsOpen' /\ RerunRepairs' /\ ExitTellsFaults' /\ NeverMixed'
      BY <2>2 DEF RunIsOpen, RerunRepairs, ExitTellsFaults, Completed, NeverMixed
    <2>7. QED
      BY <2>3, <2>4, <2>5, <2>6
  <1>14. CASE CloseDb
    <2> USE <1>14 DEF CloseDb, input, read
    <2>1. run \in 1..MaxRuns
      BY <1>0 DEF RunIsOpen, TypeInvariant
    <2>2. db' = [exists |-> TRUE, rows |-> {run}, whole |-> TRUE] /\ wal' = {}
      <3>1. db.exists = TRUE /\ db.rows = {run}
        BY DEF DatabaseSoFar
      <3>2. db' = [exists |-> db.exists, rows |-> db.rows, whole |-> TRUE]
        BY DEF TypeInvariant
      <3>3. QED
        BY <3>1, <3>2
    <2>3. TypeInvariant'
      <3>1. db' \in [exists : BOOLEAN, rows : SUBSET (None..MaxRuns), whole : BOOLEAN]
        BY <2>1, <2>2, DbOfRun
      <3>2. QED
        BY <2>2, <3>1 DEF TypeInvariant, Steps
    <2>4. ReadSoFar' /\ WrittenSoFar'
      BY DEF ReadSoFar, WrittenSoFar, Settled
    <2>5. FaultsSoFar' /\ DatabaseSoFar'
      BY <2>2 DEF FaultsSoFar, DatabaseSoFar
    <2>6. RunIsOpen' /\ RerunRepairs' /\ ExitTellsFaults' /\ NeverMixed'
      BY <2>1, <2>2 DEF RunIsOpen, RerunRepairs, ExitTellsFaults, Completed, NeverMixed
    <2>7. QED
      BY <2>3, <2>4, <2>5, <2>6
  <1>15. ASSUME Query \/ CloseSamples
         PROVE  PipelineInv'
    <2> USE <1>15 DEF Query, CloseSamples, Put, input, read
    <2>1. /\ step \in {"query", "close_samples"} /\ step' \in {"close_samples", "exit"}
          /\ step' = "exit" => disk'["query_samples"] = run
          /\ disk' \in [Artifacts -> Torn..MaxRuns]
          /\ \A k \in 1..Len(Written) : disk'[Written[k]] = disk[Written[k]]
      <3>1. PICK mark \in Torn..MaxRuns :
              /\ disk' = [disk EXCEPT !["query_samples"] = mark]
              /\ step' = "exit" => mark = run
        BY <1>0 DEF TypeInvariant, Torn
      <3>2. /\ disk' \in [Artifacts -> Torn..MaxRuns]
            /\ step' = "exit" => disk'["query_samples"] = run
            /\ \A k \in 1..Len(Written) : disk'[Written[k]] = disk[Written[k]]
        BY <3>1, Tables DEF TypeInvariant
      <3>3. QED
        BY <3>2
    <2>2. TypeInvariant'
      BY <2>1 DEF TypeInvariant, Steps
    <2>3. ReadSoFar' /\ WrittenSoFar'
      BY <2>1 DEF ReadSoFar, WrittenSoFar, Settled
    <2>4. FaultsSoFar' /\ DatabaseSoFar'
      BY <2>1 DEF FaultsSoFar, DatabaseSoFar
    <2>5. RunIsOpen' /\ RerunRepairs' /\ ExitTellsFaults' /\ NeverMixed'
      BY <2>1 DEF RunIsOpen, RerunRepairs, ExitTellsFaults, Completed, NeverMixed
    <2>6. QED
      BY <2>2, <2>3, <2>4, <2>5
  <1>16. CASE Exit
    <2> USE <1>16 DEF Exit, End, input, read, store
    <2>1. step' = "idle" /\ status' \in {"0", "1"}
      OBVIOUS
    <2>2. TypeInvariant'
      BY <2>1 DEF TypeInvariant, Steps
    <2>3. RerunRepairs'
      BY Tables DEF RerunRepairs, WrittenSoFar, DatabaseSoFar
    <2>4. ExitTellsFaults'
      <3>1. validation_failed <=> \E k \in 1..Len(Checked) : Checked[k] \in faults
        BY DEF FaultsSoFar
      <3>2. faults \subseteq Checks /\ driver \in {"gate3", "pilot"}
        BY DEF TypeInvariant
      <3>3. QED
        BY <3>1, <3>2, Tables DEF ExitTellsFaults
    <2>5. ReadSoFar' /\ WrittenSoFar' /\ FaultsSoFar' /\ DatabaseSoFar'
      BY <2>1 DEF ReadSoFar, WrittenSoFar, FaultsSoFar, DatabaseSoFar
    <2>6. RunIsOpen' /\ NeverMixed'
      BY <2>1 DEF RunIsOpen, NeverMixed
    <2>7. QED
      BY <2>2, <2>3, <2>4, <2>5, <2>6
  <1>17. CASE UNCHANGED vars
    BY <1>17 DEF vars, TypeInvariant, RunIsOpen, ReadSoFar, Settled, WrittenSoFar, FaultsSoFar,
       DatabaseSoFar, NeverMixed, RerunRepairs, ExitTellsFaults, Completed
  <1>18. QED
    BY <1>1, <1>2, <1>3, <1>4, <1>5, <1>6, <1>7, <1>8, <1>9, <1>10, <1>11, <1>12, <1>13,
       <1>14, <1>15, <1>16, <1>17
       DEF Next, Work, Extraction, Output, Database

-----------------------------------------------------------------------------
(* Theorems *)

\* However often a driver is run and wherever its runs are stopped, every step finds what
\* the steps before it have settled, and a database that was built to its end holds the
\* rows of one run (gate3.py, run_gate3; pilot.py, run_pilot).
THEOREM InvariantHolds == Spec => []PipelineInv
  <1>1. Init => PipelineInv
    BY InitInv
  <1>2. PipelineInv /\ [Next]_vars => PipelineInv'
    BY NextInv
  <1>3. QED
    BY <1>1, <1>2, PTL DEF Spec

\* A run that comes to its end leaves artifacts, a database and a log that are all its own.
THEOREM RerunsRepair == Spec => []RerunRepairs
  <1>1. PipelineInv => RerunRepairs
    BY DEF PipelineInv
  <1>2. QED
    BY <1>1, InvariantHolds, PTL

\* The exit status says whether the run met a fault it looks for.
THEOREM ExitIsTrue == Spec => []ExitTellsFaults
  <1>1. PipelineInv => ExitTellsFaults
    BY DEF PipelineInv
  <1>2. QED
    BY <1>1, InvariantHolds, PTL

\* A reader that raises loses what was left of its own file and nothing of another.
THEOREM FailuresStay == Spec => []FailureStaysInItsFile
  <1>1. PipelineInv => FailureStaysInItsFile
    BY DEF PipelineInv, ReadSoFar, Settled, FailureStaysInItsFile, TypeInvariant
  <1>2. QED
    BY <1>1, InvariantHolds, PTL
=============================================================================
