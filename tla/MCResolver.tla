----------------------------- MODULE MCResolver -----------------------------
(***************************************************************************)
(* Inputs for model-checking Resolver.  An input is a selection of blocks, *)
(* each the observations one source statement makes its extractor emit, in *)
(* pipeline order or in the reverse order.                                 *)
(***************************************************************************)
EXTENDS Validation, SequencesExt

MCIds ==
  {"program:A", "program:B", "copybook:C", "transaction:T", "transaction:U", "unresolved:V",
   "logical-file:A/F", "logical-file:B/F", "dataset:D", "dataset:E",
   "jcl-step:J/S", "jcl-step:P/R", "jcl-step:P/Q", "jcl-proc:P",
   "jcl-proc-inv:J/S", "jcl-proc-inv:P/Q", "jcl-job:J", "jcl-job:P"}

MCTypeOf == [id \in MCIds |->
  CASE id \in {"program:A", "program:B"} -> "Program"
    [] id = "copybook:C" -> "Copybook"
    [] id \in {"transaction:T", "transaction:U"} -> "CICSTransaction"
    [] id = "unresolved:V" -> "Unresolved"
    [] id \in {"logical-file:A/F", "logical-file:B/F"} -> "LogicalFile"
    [] id \in {"dataset:D", "dataset:E"} -> "Dataset"
    [] id \in {"jcl-step:J/S", "jcl-step:P/R", "jcl-step:P/Q"} -> "JCLStep"
    [] id = "jcl-proc:P" -> "JCLProc"
    [] id \in {"jcl-proc-inv:J/S", "jcl-proc-inv:P/Q"} -> "JCLProcInvocation"
    [] OTHER -> "JCLJob"]

MCFiles  == {"F"}
MCFileOf == [id \in {"logical-file:A/F", "logical-file:B/F"} |-> "F"]
MCPaths  == {"a.cbl", "cics.csd", "j.jcl", "p.prc", "q.prc"}
MCDDs    == {"IN", "STEPLIB"}

Entity_(id, rule, path) ==
  [kind |-> "entity", id |-> id, rule |-> rule, path |-> path, partial |-> FALSE,
   owner |-> NoId, invoked |-> NoId, assign |-> NoId]

Step_(id, owner, path) == [Entity_(id, "RUL-JCL", path) EXCEPT !.owner = owner]

Invocation_(id, proc, path) == [Entity_(id, "RUL-JCL", path) EXCEPT !.invoked = proc]

Ref_(type, from, to) ==
  [kind |-> "edge", type |-> type, from |-> from, to |-> to,
   dynamic |-> FALSE, cics |-> FALSE, dd |-> NoId]

Csd_(file, ds) == [kind |-> "csd", file |-> file, dataset |-> ds]

\* Program source and CSD statements
SourceA    == <<Entity_("program:A", "RUL-COBOL", "a.cbl")>>
SourceB    == <<Entity_("program:B", "RUL-COBOL", "a.cbl")>>
CsdA       == <<Entity_("program:A", "RUL-CSD-002", "cics.csd")>>
CsdB       == <<Entity_("program:B", "RUL-CSD-002", "cics.csd")>>
CallB      == <<Ref_("CALLS", "program:A", "program:B")>>
CallBBack  == <<Ref_("CALLS", "program:B", "program:A")>>
DynamicA   == <<[Ref_("CALLS", "program:A", "unresolved:V") EXCEPT !.dynamic = TRUE]>>
DynamicB   == <<[Ref_("XCTLS_TO", "program:B", "unresolved:V") EXCEPT !.dynamic = TRUE]>>
CopyC      == <<Ref_("INCLUDES", "program:A", "copybook:C")>>
StartT     == <<Entity_("transaction:T", "RUL-CSD-001", "cics.csd"),
                Ref_("IS_TRANSACTION_FOR", "transaction:T", "program:A")>>
\* A transaction that no resource definition names, and one defined without program
ReturnU    == <<Ref_("RETURNS_TO_TRANSID", "program:A", "transaction:U")>>
DefineT    == <<Entity_("transaction:T", "RUL-CSD-001", "cics.csd")>>

\* Online file operations and the CSD files they use
FileAtD    == <<Entity_("dataset:D", "RUL-CSD-004", "cics.csd"), Csd_("F", "dataset:D")>>
FileAtE    == <<Entity_("dataset:E", "RUL-CSD-004", "cics.csd"), Csd_("F", "dataset:E")>>
ReadByA    == <<[Ref_("READS", "program:A", "logical-file:A/F") EXCEPT !.cics = TRUE]>>
UpdateByB  == <<[Ref_("UPDATES", "program:B", "logical-file:B/F") EXCEPT !.cics = TRUE]>>

\* A file both declared in FILE-CONTROL and used online
SelectAF   == <<[Entity_("logical-file:A/F", "RUL-COBOL", "a.cbl") EXCEPT !.assign = "IN"],
                Ref_("DECLARES_FILE", "program:A", "logical-file:A/F")>>

\* JCL: a step that runs a program, its DDs, PROC declarations and invocations
RunA       == <<Step_("jcl-step:J/S", "jcl-job:J", "j.jcl"),
                Ref_("INVOKES", "jcl-step:J/S", "program:A")>>
RunBInProc == <<Entity_("jcl-proc:P", "RUL-JCL", "p.prc"),
                Step_("jcl-step:P/R", "jcl-proc:P", "p.prc"),
                Ref_("INVOKES", "jcl-step:P/R", "program:B")>>
InputDD    == <<Entity_("dataset:D", "RUL-JCL", "j.jcl"),
                [Ref_("USES_DATASET", "jcl-step:J/S", "dataset:D") EXCEPT !.dd = "IN"]>>
ProcDD     == <<Entity_("dataset:D", "RUL-JCL", "p.prc"),
                [Ref_("USES_DATASET", "jcl-step:P/R", "dataset:D") EXCEPT !.dd = "IN"]>>
LibraryDD  == <<Entity_("dataset:E", "RUL-JCL", "p.prc"),
                [Ref_("USES_DATASET", "jcl-step:P/R", "dataset:E") EXCEPT !.dd = "STEPLIB"]>>
SymbolicDD == <<[Entity_("dataset:E", "RUL-JCL", "j.jcl") EXCEPT !.partial = TRUE],
                [Ref_("USES_DATASET", "jcl-step:J/S", "dataset:E") EXCEPT !.dd = "IN"]>>
CallProc   == <<Step_("jcl-step:J/S", "jcl-job:J", "j.jcl"),
                Invocation_("jcl-proc-inv:J/S", "jcl-proc:P", "j.jcl"),
                Ref_("USES_PROC", "jcl-proc-inv:J/S", "jcl-proc:P")>>
\* A second file that declares PROC P, with a step that invokes P again
SecondProc == <<Entity_("jcl-proc:P", "RUL-JCL", "q.prc"),
                Step_("jcl-step:P/Q", "jcl-proc:P", "q.prc"),
                Invocation_("jcl-proc-inv:P/Q", "jcl-proc:P", "q.prc"),
                Ref_("USES_PROC", "jcl-proc-inv:P/Q", "jcl-proc:P")>>
\* A JOB that has the name of the PROC and a step name in common with it
JobLikeP   == <<Entity_("jcl-job:P", "RUL-JCL", "j.jcl"),
                Step_("jcl-step:P/R", "jcl-job:P", "j.jcl"),
                Ref_("INVOKES", "jcl-step:P/R", "program:A")>>

Selections(blocks) ==
  {FlattenSeq(s) : s \in AllSubSeqs(blocks) \cup AllSubSeqs(Reverse(blocks))}

ReferenceInputs ==
  Selections(<<SourceA, CsdA, CsdB, CallB, CallBBack, DynamicA, DynamicB, CopyC, StartT>>)

OnlineInputs ==
  Selections(<<SourceA, SourceB, CsdB, FileAtD, FileAtE, ReadByA, UpdateByB, RunA, InputDD>>)

JclInputs ==
  Selections(<<RunA, RunBInProc, InputDD, ProcDD, LibraryDD, SymbolicDD, CallProc,
               SecondProc, SourceB>>)

BatchInputs == Selections(<<SourceA, SourceB, RunA, RunBInProc, InputDD, ProcDD, LibraryDD, SelectAF>>)

GateInputs ==
  Selections(<<DefineT, StartT, ReturnU, DynamicA, FileAtD, FileAtE, ReadByA, SelectAF, LibraryDD>>)

\* The five families together
MCInputs == ReferenceInputs \cup OnlineInputs \cup JclInputs \cup BatchInputs \cup GateInputs

\* A job that shares its name and a step's name with a PROC, for which ExpansionComplete
\* does not hold
SharedNameInputs == Selections(<<JobLikeP, RunBInProc, CallProc>>)
=============================================================================
