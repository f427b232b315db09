------------------------------ MODULE Pipeline ------------------------------
(***************************************************************************)
(* The two drivers (gate3.py, run_gate3, and pilot.py, run_pilot): read    *)
(* every file of the corpus into one sink, resolve it, write the artifacts *)
(* one after the other, validate them, build the database anew from them,  *)
(* query it, and report by the exit status.                                *)
(*                                                                         *)
(* What the readers and the resolver do is the subject of the other        *)
(* modules; here a file is read whole, or its reader raises on the way.    *)
(* The process may be stopped, or an exception not handled may end it, at  *)
(* any step; what is on disk stays and the driver may be run again.        *)
(***************************************************************************)
EXTENDS Integers, Sequences

CONSTANTS
  Cobol, Other, \* the files of the corpus, by what reads them
  Order,        \* the files in the order they are enumerated
  Whole,        \* how many observations a file read whole makes
  MaxRuns       \* bound: how often the driver is run

Files == Cobol \cup Other

ASSUME PipelineAssumption ==
  /\ Cobol \cap Other = {}
  /\ Order \in Seq(Files)
  /\ \A m, n \in 1..Len(Order) : Order[m] = Order[n] => m = n
  /\ \A f \in Files : \E n \in 1..Len(Order) : Order[n] = f
  /\ Whole \in Nat \ {0} /\ MaxRuns \in Nat

VARIABLES
  driver,     \* gate3 or pilot: each writes to a directory of its own
  run,        \* the current run, or the last
  parser,     \* is CARDDEMO_COBOL_PARSER a parser there is?
  files,      \* the files of the run, in order
  faults,     \* the checks the graph of the run will not pass
  step,       \* what the driver does next; idle when it does not run
  at,         \* the file or artifact the loop stands at
  sink,       \* how many observations were made of each file
  parse_status,
  raised,     \* the files whose reader raised
  disk,       \* the run whose content each artifact holds
  db, wal,    \* the database, and its log
  validation_failed,
  status      \* how the last run ended

input == <<driver, parser, files, faults>>
read  == <<sink, parse_status, raised>>
store == <<disk, db, wal>>
vars  == <<driver, run, parser, files, faults, step, at, sink, parse_status, raised,
           disk, db, wal, validation_failed, status>>

None == 0   \* no run
Torn == -1  \* opened for writing and not closed

Written == <<"entities", "edges", "observations", "enrichments", "reports">>
Checked == <<"entities", "edges", "observations", "enrichments">>
Artifacts == {Written[k] : k \in 1..Len(Written)} \cup {"query_samples"}
Checks == {Checked[k] : k \in 1..Len(Checked)} \cup {"semantic"}

Steps ==
  {"idle", "extract", "write", "close", "validate", "drop_db", "drop_wal", "open_db",
   "close_db", "query", "close_samples", "exit"}

\* The listings of the corpus: any of the files there may be, in the order of the
\* enumeration.
Before(f, g) == \E m, n \in 1..Len(Order) : m < n /\ Order[m] = f /\ Order[n] = g

Listings ==
  {s \in UNION {[1..n -> Files] : n \in 0..Len(Order)} :
     \A i, j \in 1..Len(s) : i < j => Before(s[i], s[j])}

NoDb == [exists |-> FALSE, rows |-> {}, whole |-> FALSE]

Init ==
  /\ driver \in {"gate3", "pilot"}
  /\ run = 0 /\ parser = TRUE /\ files = <<>> /\ faults = {}
  /\ step = "idle" /\ at = 1
  /\ sink = [f \in Files |-> 0]
  /\ parse_status = [f \in Files |-> "none"]
  /\ raised = {}
  /\ disk = [a \in Artifacts |-> None] /\ db = NoDb /\ wal = {}
  /\ validation_failed = FALSE /\ status = "none"

-----------------------------------------------------------------------------
(* Start and end of a run *)

\* The gate takes the files there are, the pilot refuses to run without all of its own.
Refused(found) == IF driver = "gate3" THEN found = <<>> ELSE Len(found) < Len(Order)

Start(found, known, bad) ==
  /\ step = "idle" /\ run < MaxRuns
  /\ run' = run + 1
  /\ files' = found /\ parser' = known /\ faults' = bad
  /\ sink' = [f \in Files |-> 0] /\ parse_status' = [f \in Files |-> "none"] /\ raised' = {}
  /\ validation_failed' = FALSE /\ at' = 1
  /\ IF Refused(found) THEN step' = "idle" /\ status' = "2"
     ELSE step' = "extract" /\ status' = "running"
  /\ UNCHANGED <<driver, store>>

End(how) == step' = "idle" /\ status' = how

\* An exception nobody handles, or the process is killed.
Crash ==
  /\ step # "idle"
  /\ End("crashed")
  /\ UNCHANGED <<input, run, at, read, store, validation_failed>>

-----------------------------------------------------------------------------
(* Extraction *)

Extracting == step = "extract" /\ at <= Len(files)

\* The registry refuses a parser it does not know, for each COBOL file in turn.
NoReader(f) == ~parser /\ f \in Cobol

Register(f) == parse_status' = [parse_status EXCEPT ![f] = "ok"]

ReadFile ==
  /\ Extracting /\ ~NoReader(files[at])
  /\ Register(files[at])
  /\ sink' = [sink EXCEPT ![files[at]] = Whole]
  /\ at' = at + 1
  /\ UNCHANGED <<input, run, step, raised, store, validation_failed, status>>

\* Mutant: the first reader that raises ends the loop.
ReaderRaises_Break(n) ==
  /\ Extracting /\ n < Whole
  /\ NoReader(files[at]) => n = 0
  /\ Register(files[at])
  /\ sink' = [sink EXCEPT ![files[at]] = n]
  /\ raised' = raised \cup {files[at]}
  /\ at' = Len(files) + 1
  /\ UNCHANGED <<input, run, step, store, validation_failed, status>>

\* The reader raises after n observations: the gate goes on with the next file.
ReaderRaises(n) ==
  /\ Extracting /\ n < Whole
  /\ NoReader(files[at]) => n = 0
  /\ Register(files[at])
  /\ sink' = [sink EXCEPT ![files[at]] = n]
  /\ raised' = raised \cup {files[at]}
  /\ IF driver = "gate3" THEN at' = at + 1 /\ UNCHANGED <<step, status>>
     ELSE End("crashed") /\ UNCHANGED at
  /\ UNCHANGED <<input, run, store, validation_failed>>

Resolve ==
  /\ step = "extract" /\ at > Len(files)
  /\ step' = "write" /\ at' = 1
  /\ UNCHANGED <<input, run, read, store, validation_failed, status>>

-----------------------------------------------------------------------------
(* Artifacts *)

Put(a, content) == disk' = [disk EXCEPT ![a] = content]

\* Mutant: the enrichments, always empty, are not written again.
OpenArtifact_Once ==
  /\ step = "write" /\ at <= Len(Written)
  /\ IF Written[at] = "enrichments" /\ disk["enrichments"] # None
     THEN at' = at + 1 /\ UNCHANGED <<step, disk>>
     ELSE Put(Written[at], Torn) /\ step' = "close" /\ UNCHANGED at
  /\ UNCHANGED <<input, run, read, db, wal, validation_failed, status>>

OpenArtifact ==
  /\ step = "write" /\ at <= Len(Written)
  /\ Put(Written[at], Torn) /\ step' = "close"
  /\ UNCHANGED <<input, run, at, read, db, wal, validation_failed, status>>

CloseArtifact ==
  /\ step = "close"
  /\ Put(Written[at], run) /\ step' = "write" /\ at' = at + 1
  /\ UNCHANGED <<input, run, read, db, wal, validation_failed, status>>

EndWrite ==
  /\ step = "write" /\ at > Len(Written)
  /\ step' = "validate" /\ at' = 1
  /\ UNCHANGED <<input, run, read, store, validation_failed, status>>

\* Mutant: the verdict is that of the last artifact.
Validate_Last ==
  /\ step = "validate" /\ at <= Len(Checked)
  /\ validation_failed' = (Checked[at] \in faults)
  /\ at' = at + 1
  /\ UNCHANGED <<input, run, step, read, store, status>>

\* A fault of one artifact is not forgotten when the next is found in order.
Validate ==
  /\ step = "validate" /\ at <= Len(Checked)
  /\ validation_failed' = (validation_failed \/ Checked[at] \in faults)
  /\ at' = at + 1
  /\ UNCHANGED <<input, run, step, read, store, status>>

EndValidate ==
  /\ step = "validate" /\ at > Len(Checked)
  /\ step' = "drop_db"
  /\ UNCHANGED <<input, run, at, read, store, validation_failed, status>>

-----------------------------------------------------------------------------
(* The database *)

\* What is left of a database that is a directory may stay: its removal ignores errors.
DropDb ==
  /\ step = "drop_db"
  /\ \/ db' = NoDb
     \/ db.exists /\ db' = [db EXCEPT !.whole = FALSE]
  /\ step' = "drop_wal"
  /\ UNCHANGED <<input, run, at, read, disk, wal, validation_failed, status>>

\* Mutant: the log is left to the database.
DropWal_Kept ==
  /\ step = "drop_wal"
  /\ step' = "open_db"
  /\ UNCHANGED <<input, run, at, read, store, validation_failed, status>>

DropWal ==
  /\ step = "drop_wal"
  /\ wal' = {} /\ step' = "open_db"
  /\ UNCHANGED <<input, run, at, read, disk, db, validation_failed, status>>

\* Opening replays a log that was left; creating the tables fails if they are there.
OpenDb ==
  /\ step = "open_db"
  /\ IF db.exists THEN End("crashed") /\ UNCHANGED <<db, wal>>
     ELSE /\ db' = [exists |-> TRUE, rows |-> wal \cup {disk["entities"], disk["edges"]}, whole |-> FALSE]
          /\ wal' = {run}
          /\ step' = "close_db" /\ UNCHANGED status
  /\ UNCHANGED <<input, run, at, read, disk, validation_failed>>

CloseDb ==
  /\ step = "close_db"
  /\ db' = [db EXCEPT !.whole = TRUE] /\ wal' = {} /\ step' = "query"
  /\ UNCHANGED <<input, run, at, read, disk, validation_failed, status>>

Query ==
  /\ step = "query"
  /\ Put("query_samples", Torn) /\ step' = "close_samples"
  /\ UNCHANGED <<input, run, at, read, db, wal, validation_failed, status>>

CloseSamples ==
  /\ step = "close_samples"
  /\ Put("query_samples", run) /\ step' = "exit"
  /\ UNCHANGED <<input, run, at, read, db, wal, validation_failed, status>>

\* The gate looks at the content of the graph too, the pilot at the form only.
Exit ==
  /\ step = "exit"
  /\ End(IF validation_failed \/ (driver = "gate3" /\ "semantic" \in faults) THEN "1" ELSE "0")
  /\ UNCHANGED <<input, run, at, read, store, validation_failed>>

-----------------------------------------------------------------------------

Extraction == ReadFile \/ (\E n \in 0..(Whole - 1) : ReaderRaises(n)) \/ Resolve
Output == OpenArtifact \/ CloseArtifact \/ EndWrite \/ Validate \/ EndValidate
Database == DropDb \/ DropWal \/ OpenDb \/ CloseDb \/ Query \/ CloseSamples
Work == Extraction \/ Output \/ Database \/ Exit

Next ==
  \/ \E found \in Listings, known \in BOOLEAN, bad \in SUBSET Checks : Start(found, known, bad)
  \/ Work
  \/ Crash

Spec == Init /\ [][Next]_vars

-----------------------------------------------------------------------------
(* Properties *)

Completed == status \in {"0", "1"}

TypeInvariant ==
  /\ driver \in {"gate3", "pilot"} /\ parser \in BOOLEAN
  /\ files \in Listings /\ faults \subseteq Checks
  /\ run \in 0..MaxRuns
  /\ step \in Steps
  /\ at \in 1..(Len(Order) + Len(Written) + 1)
  /\ sink \in [Files -> 0..Whole]
  /\ parse_status \in [Files -> {"none", "ok"}]
  /\ raised \subseteq {f \in Files : parse_status[f] = "ok"}
  /\ disk \in [Artifacts -> Torn..MaxRuns]
  /\ db \in [exists : BOOLEAN, rows : SUBSET (None..MaxRuns), whole : BOOLEAN]
  /\ wal \subseteq 1..MaxRuns
  /\ validation_failed \in BOOLEAN
  /\ status \in {"none", "running", "0", "1", "2", "crashed"}

\* What a run that came to its end leaves is all its own, the database and its log
\* included, wherever earlier runs were stopped.
RerunRepairs ==
  Completed =>
    /\ \A a \in Artifacts : disk[a] = run
    /\ db = [exists |-> TRUE, rows |-> {run}, whole |-> TRUE] /\ wal = {}

\* At no moment does a database that was built to its end mix the rows of two runs.
NeverMixed == db.whole => \E r \in 1..MaxRuns : db.rows = {r}

\* A reader that raises loses what was left of its own file and nothing of another.
FailureStaysInItsFile ==
  step \notin {"idle", "extract"} =>
    \A k \in 1..Len(files) :
      /\ parse_status[files[k]] = "ok"
      /\ files[k] \notin raised => sink[files[k]] = Whole
      /\ files[k] \in raised => sink[files[k]] < Whole

\* Exit status 0 says that every artifact was validated and, for the gate, that the
\* graph covers what it should; a run that met a fault says so.
ExitTellsFaults ==
  /\ status = "0" => faults \cap (IF driver = "gate3" THEN Checks ELSE Checks \ {"semantic"}) = {}
  /\ status = "1" => faults # {}

-----------------------------------------------------------------------------
(* The inductive invariant: how far a run has come, and what that settles *)

RunIsOpen == (step # "idle" <=> status = "running") /\ (step # "idle" => run > 0)

\* What the reader of a file has left behind
Settled(f) ==
  /\ parse_status[f] = "ok"
  /\ IF f \in raised THEN sink[f] < Whole ELSE sink[f] = Whole

ReadSoFar ==
  /\ step = "extract" =>
       /\ at <= Len(files) + 1
       /\ \A k \in 1..Len(files) : IF k < at THEN Settled(files[k]) ELSE files[k] \notin raised
  /\ step \notin {"idle", "extract"} => \A k \in 1..Len(files) : Settled(files[k])

WrittenSoFar ==
  /\ step \in {"write", "close"} =>
       /\ at <= Len(Written) + (IF step = "write" THEN 1 ELSE 0)
       /\ \A k \in 1..Len(Written) : k < at => disk[Written[k]] = run
  /\ step \notin {"idle", "extract", "write", "close"} =>
       \A k \in 1..Len(Written) : disk[Written[k]] = run
  /\ step = "exit" => disk["query_samples"] = run

FaultsSoFar ==
  /\ step \in {"extract", "write", "close"} => ~validation_failed
  /\ step = "validate" =>
       /\ at <= Len(Checked) + 1
       /\ validation_failed <=> \E k \in 1..Len(Checked) : k < at /\ Checked[k] \in faults
  /\ step \notin {"idle", "extract", "write", "close", "validate"} =>
       (validation_failed <=> \E k \in 1..Len(Checked) : Checked[k] \in faults)

DatabaseSoFar ==
  /\ step = "open_db" => wal = {}
  /\ step = "close_db" => db = [exists |-> TRUE, rows |-> {run}, whole |-> FALSE]
  /\ step \in {"query", "close_samples", "exit"} =>
       db = [exists |-> TRUE, rows |-> {run}, whole |-> TRUE] /\ wal = {}

\* The variables have their types, every step finds what the steps before it have
\* settled, and no database is built from two runs, whatever was left on disk and
\* wherever a run was stopped.
PipelineInv ==
  /\ TypeInvariant
  /\ RunIsOpen
  /\ ReadSoFar
  /\ WrittenSoFar
  /\ FaultsSoFar
  /\ DatabaseSoFar
  /\ NeverMixed
  /\ RerunRepairs
  /\ ExitTellsFaults

-----------------------------------------------------------------------------
(* What the documentation says and the code does not do *)

\* A file that was read in part says so in its parse_status.
PartialIsFlagged ==
  \A f \in Files : step = "write" /\ f \in raised => parse_status[f] = "partial"

\* A run with a parser that is not there is refused, not read without its programs.
UnknownParserRefused ==
  ~parser /\ (\E k \in 1..Len(files) : files[k] \in Cobol) => status # "0"
=============================================================================
