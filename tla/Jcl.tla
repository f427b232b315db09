-------------------------------- MODULE Jcl --------------------------------
(***************************************************************************)
(* The JCL extractor (extract/jcl.py, class JclExtractor): one file, read  *)
(* line by line, statement by statement.                                   *)
(*                                                                         *)
(* A job file (.jcl) recognises JOB, JCLLIB, EXEC and DD; a cataloged      *)
(* procedure (.prc) recognises PROC, PEND, EXEC and DD.  What a DD belongs *)
(* to is state: the current job, procedure, step and program, each left    *)
(* behind by an earlier statement.                                         *)
(*                                                                         *)
(* A line is a record of what the patterns of the module find in it; an    *)
(* operand a line does not have is Absent.  Every observation carries the  *)
(* line its statement starts at.                                           *)
(***************************************************************************)
EXTENDS JclStatements

CONSTANTS
  Names,     \* names of jobs, steps, procedures, programs and DDs
  Dsns,      \* data set names as written, with generation or member
  BaseOf,    \* [Dsns -> Bases], the name without its parenthesis
  Bases,     \* data set names without generation or member
  Symbolic,  \* the bases with an unresolved & symbol
  Decks      \* the files: records with a kind and lines

Shapes == {"text", "bare", "job", "jcllib", "exec", "override", "dd", "proc", "pend", "other"}

\* text: no // in front; bare: // and blanks; other: a named statement the module
\* does not know.  more: the line ends with a comma.
Line == [shape : Shapes, name : Names \cup {Absent}, over : Names \cup {Absent},
         pgm : Names \cup {Absent}, proc : Names \cup {Absent},
         positional : Names \cup {Absent}, dsn : Dsns \cup {Absent},
         flags : SUBSET {"DUMMY", "SYSOUT", "INLINE"}, more : BOOLEAN]

Deck == [kind : {"job", "proc"}, lines : Seq(Line)]

\* A line has a name exactly when its statement is one of those that need one.
Unnamed == {"text", "bare", "pend"}

ASSUME JclAssumption ==
  /\ BaseOf \in [Dsns -> Bases]
  /\ Symbolic \subseteq Bases
  /\ Decks \subseteq Deck
  /\ \A d \in Decks : \A l \in 1..Len(d.lines) :
       /\ d.lines[l].shape \in Unnamed => d.lines[l].name = Absent
       /\ d.lines[l].shape \notin Unnamed \cup {"jcllib"} => d.lines[l].name # Absent
       /\ d.lines[l].shape = "override" => d.lines[l].over # Absent
  /\ Absent \notin Names \cup Dsns
  /\ Unknown \notin Names
  /\ Unknown # Absent

\* Canonical ids
JobId(n)             == <<"jcl-job", n>>
ProcId(n)            == <<"jcl-proc", n>>
StepId(scope, n)     == <<"jcl-step", scope, n>>
InvocationId(scope, n) == <<"jcl-proc-inv", scope, n>>
ProgramId(n)         == <<"program", n>>
DatasetId(base)      == <<"dataset", base>>

\* Observations: what an extractor hands on of a statement
Labels == Names \cup {Absent, Unknown}

Ids ==
  {JobId(n) : n \in Labels} \cup {ProcId(n) : n \in Labels} \cup {ProgramId(n) : n \in Labels}
  \cup {StepId(scope, n) : scope, n \in Labels} \cup {InvocationId(scope, n) : scope, n \in Labels}
  \cup {DatasetId(b) : b \in Bases}

Observation ==
  [kind : {"entity"}, line : Nat, id : Ids, owner : Ids \cup {Absent},
   type : {"JCLJob", "JCLStep", "JCLProc", "JCLProcInvocation", "Dataset"},
   invoked : Ids \cup {Absent}, order : Nat, partial : BOOLEAN]
  \cup [kind : {"edge"}, line : Nat, from : Ids, to : Ids,
        type : {"INVOKES", "USES_PROC", "USES_DATASET", "PASSES_SYSIN_TO"},
        dd : Labels, utility : Labels]
  \cup [kind : {"property"}, line : Nat, owner : Ids \cup {Absent}, value : Labels,
        property : {"jcllib_search_path", "dd_dummy", "dd_sysout", "dd_inline"}]

VARIABLES
  at,     \* the line the loop stands at
  job,    \* current_job
  proc,   \* current_proc
  step,   \* current_step
  pgm,    \* current_step_pgm
  count,  \* step_counter
  out     \* the observations emitted, in order

vars == <<deck, at, job, proc, step, pgm, count, out>>

-----------------------------------------------------------------------------
(* What the extractor remembers *)

Scope    == IF proc # Absent THEN proc ELSE IF job # Absent THEN job ELSE Unknown
Owner    == IF proc # Absent THEN ProcId(proc) ELSE JobId(Scope)
StepName == IF step # Absent THEN step ELSE Unknown

-----------------------------------------------------------------------------
(* Observations *)

EntityObs(type, id, owner, invoked, order, partial) ==
  [kind |-> "entity", line |-> at, type |-> type, id |-> id, owner |-> owner,
   invoked |-> invoked, order |-> order, partial |-> partial]

EdgeObs(type, from, to, dd, utility) ==
  [kind |-> "edge", line |-> at, type |-> type, from |-> from, to |-> to,
   dd |-> dd, utility |-> utility]

PropertyObs(owner, property, value) ==
  [kind |-> "property", line |-> at, owner |-> owner, property |-> property, value |-> value]

Declared(type, id) == EntityObs(type, id, Absent, Absent, 0, FALSE)

InvocationOf(callee) ==
  LET id == InvocationId(Scope, lines[at].name)
  IN  <<EntityObs("JCLProcInvocation", id, Owner, ProcId(callee), 0, FALSE),
        EdgeObs("USES_PROC", id, ProcId(callee), Absent, Absent)>>

\* _handle_exec: the step, and what it runs
ExecObs ==
  LET id     == StepId(Scope, lines[at].name)
      runs   == Operand(at, "pgm")
      callee == Operand(at, "proc")
  IN  <<EntityObs("JCLStep", id, Owner, Absent, count + 1, FALSE)>>
      \o (IF runs # Absent THEN <<EdgeObs("INVOKES", id, ProgramId(runs), Absent, Absent)>>
          ELSE IF callee # Absent THEN InvocationOf(callee)
          ELSE IF Positional(at) # Absent THEN InvocationOf(Positional(at))
          ELSE <<>>)

\* The data set a DD allocates, and for SYSIN the program that reads it
AllocationObs(id, dd) ==
  LET base == BaseOf[Operand(at, "dsn")]
      ds   == DatasetId(base)
  IN  <<EntityObs("Dataset", ds, Absent, Absent, 0, base \in Symbolic),
        EdgeObs("USES_DATASET", id, ds, dd, Absent)>>
      \o (IF dd = "SYSIN" /\ pgm # Absent
          THEN <<EdgeObs("PASSES_SYSIN_TO", id, ds, dd, pgm)>> ELSE <<>>)

\* _handle_dd for the step named s
DdObs(s) ==
  LET id == StepId(Scope, s)
      dd == lines[at].name
  IN  IF Flagged(at, "DUMMY")  THEN <<PropertyObs(id, "dd_dummy", dd)>>
      ELSE IF Flagged(at, "SYSOUT") THEN <<PropertyObs(id, "dd_sysout", dd)>>
      ELSE IF Operand(at, "dsn") # Absent THEN AllocationObs(id, dd)
      ELSE IF Flagged(at, "INLINE") THEN <<PropertyObs(id, "dd_inline", dd)>>
      ELSE <<>>

-----------------------------------------------------------------------------
(* One iteration of the loop *)

Init ==
  /\ deck \in Decks
  /\ at = 1
  /\ job = Absent
  /\ proc = Absent
  /\ step = Absent
  /\ pgm = Absent
  /\ count = 0
  /\ out = <<>>

Stands(shape) == at <= Len(lines) /\ lines[at].shape = shape

\* The statement is read to its end and leaves these observations behind.
Read(observed) ==
  /\ out' = out \o observed
  /\ at' = EndOf(at) + 1
  /\ UNCHANGED deck

ReadJob ==
  /\ deck.kind = "job" /\ Stands("job")
  /\ job' = lines[at].name
  /\ Read(<<Declared("JCLJob", JobId(lines[at].name))>>)
  /\ UNCHANGED <<proc, step, pgm, count>>

ReadJcllib ==
  /\ deck.kind = "job" /\ Stands("jcllib")
  /\ Read(<<PropertyObs(IF job = Absent THEN Absent ELSE JobId(job), "jcllib_search_path", Absent)>>)
  /\ UNCHANGED <<job, proc, step, pgm, count>>

ReadProc ==
  /\ deck.kind = "proc" /\ Stands("proc") /\ proc = Absent
  /\ proc' = lines[at].name
  /\ Read(<<Declared("JCLProc", ProcId(lines[at].name))>>)
  /\ UNCHANGED <<job, step, pgm, count>>

\* Mutant: the first step stays the current one.
ReadExec_KeepsStep ==
  /\ Stands("exec")
  /\ step' = IF step = Absent THEN lines[at].name ELSE step
  /\ pgm' = Operand(at, "pgm")
  /\ count' = count + 1
  /\ Read(ExecObs)
  /\ UNCHANGED <<job, proc>>

\* Mutant: a step without a program does not forget the program before it.
ReadExec_KeepsProgram ==
  /\ Stands("exec")
  /\ step' = lines[at].name
  /\ pgm' = IF Operand(at, "pgm") = Absent THEN pgm ELSE Operand(at, "pgm")
  /\ count' = count + 1
  /\ Read(ExecObs)
  /\ UNCHANGED <<job, proc>>

ReadExec ==
  /\ Stands("exec")
  /\ step' = lines[at].name
  /\ pgm' = Operand(at, "pgm")
  /\ count' = count + 1
  /\ Read(ExecObs)
  /\ UNCHANGED <<job, proc>>

ReadDd ==
  /\ Stands("dd")
  /\ Read(DdObs(StepName))
  /\ UNCHANGED <<job, proc, step, pgm, count>>

\* //STEP.DDNAME DD, an override at the use of a procedure
ReadOverride ==
  /\ Stands("override")
  /\ Read(DdObs(lines[at].over))
  /\ UNCHANGED <<job, proc, step, pgm, count>>

Ignored(l) ==
  \/ lines[l].shape \in {"text", "bare", "pend", "other"}
  \/ lines[l].shape \in {"job", "jcllib"} /\ deck.kind = "proc"
  \/ lines[l].shape = "proc" /\ (deck.kind = "job" \/ proc # Absent)

\* Any other line, PEND included
SkipLine ==
  /\ at <= Len(lines) /\ Ignored(at)
  /\ at' = at + 1
  /\ UNCHANGED <<deck, job, proc, step, pgm, count, out>>

Next ==
  \/ ReadJob
  \/ ReadJcllib
  \/ ReadProc
  \/ ReadExec
  \/ ReadDd
  \/ ReadOverride
  \/ SkipLine

Spec == Init /\ [][Next]_vars

-----------------------------------------------------------------------------
Charged(o) == IF o.kind = "edge" THEN o.from ELSE o.owner

FromDd(o) == o.kind \in {"edge", "property"} /\ lines[o.line].shape = "dd"

Emitted == {out[k] : k \in 1..Len(out)}

Finished == at > Len(lines)

\* The steps observed of line l, and where in the output its allocations are
StepsOf(l) == {o \in Emitted : o.kind = "entity" /\ o.type = "JCLStep" /\ o.line = l}

UsesOf(l) ==
  {k \in 1..Len(out) : out[k].kind = "edge" /\ out[k].line = l /\ out[k].type = "USES_DATASET"}

ObservedOnce(l) ==
  /\ lines[l].shape = "exec" =>
       {o.order : o \in StepsOf(l)} = {Cardinality(Headers("exec", l)) + 1}
  /\ /\ lines[l].shape \in {"dd", "override"}
     /\ \A k \in Statement(l) : lines[k].flags = {}
     /\ Operand(l, "dsn") # Absent
     => Cardinality(UsesOf(l)) = 1

-----------------------------------------------------------------------------
(* Properties *)

TypeInvariant ==
  /\ deck \in Decks
  /\ at \in 1..(Len(lines) + 1)
  /\ {job, proc, step, pgm} \subseteq Names \cup {Absent}
  /\ count \in Nat
  /\ out \in Seq(Observation)
  /\ \A o \in Emitted : o.line \in 1..(at - 1)

\* RUL-JCL-004: a DD belongs to the step whose EXEC it follows in its own job or
\* procedure, although the extractor only remembers the last step it saw, across
\* jobs and continued statements.
DdsFollowTheirStep ==
  \A o \in Emitted : FromDd(o) /\ ExecsInScope(o.line) # {} =>
    Charged(o) = StepId(ScopeAt(o.line), lines[Greatest(ExecsInScope(o.line))].name)

\* RUL-JCL-010: SYSIN goes to the program of the step it belongs to.  The program
\* is remembered apart from the step, and a step that runs a procedure has none.
SysinNamesTheProgram ==
  \A o \in Emitted : o.kind = "edge" /\ o.type = "PASSES_SYSIN_TO" =>
    LET e == Greatest(Headers("exec", o.line)) IN
      /\ o.dd = "SYSIN"
      /\ \E i \in Emitted : /\ i.kind = "edge" /\ i.type = "INVOKES" /\ i.line = e
                            /\ i.to = ProgramId(o.utility)
                            /\ FromDd(o) /\ ExecsInScope(o.line) # {} => i.from = o.from

\* RUL-JCL-002, RUL-JCL-004: nothing that has a name is lost between the lines.  At
\* the end every EXEC has its step, numbered by its place in the file, and every
\* DD with a data set its allocation, exactly one each.
EveryStatementObserved == Finished => \A l \in 1..Len(lines) : ObservedOnce(l)

\* The inductive invariant behind DdsFollowTheirStep: what the extractor remembers
\* is what the lines before it say, and every DD was charged accordingly.
LastExec(l) ==
  IF Headers("exec", l) = {} THEN Unknown ELSE lines[Greatest(Headers("exec", l))].name

StateMatchesDeck ==
  /\ job = IF JobsBefore(at) = {} THEN Absent ELSE lines[Greatest(JobsBefore(at))].name
  /\ proc = IF ProcsBefore(at) = {} THEN Absent ELSE lines[Least(ProcsBefore(at))].name
  /\ StepName = LastExec(at)

ChargesMatchDeck ==
  \A o \in Emitted : FromDd(o) => Charged(o) = StepId(ScopeAt(o.line), LastExec(o.line))

MemoryInv == TypeInvariant /\ StateMatchesDeck /\ ChargesMatchDeck

\* And the one behind SysinNamesTheProgram and EveryStatementObserved: the program
\* and the number remembered are those of the last EXEC, every statement passed was
\* observed, and SYSIN was passed to the program of the EXEC before it.
LastProgram(l) ==
  IF Headers("exec", l) = {} THEN Absent ELSE Operand(Greatest(Headers("exec", l)), "pgm")

ExecRemembered == pgm = LastProgram(at) /\ count = Cardinality(Headers("exec", at))

\* What an EXEC is observed as: a step of its procedure or job, and a call.
OwnerAt(l) == IF ProcsBefore(l) # {} THEN ProcId(ScopeAt(l)) ELSE JobId(ScopeAt(l))

IsStepOf(o, l) ==
  /\ o.line = l /\ lines[l].shape = "exec" /\ o.id = StepId(ScopeAt(l), lines[l].name)
  /\ o.owner = OwnerAt(l) /\ ~o.partial

IsCallOf(o, l) ==
  /\ o.line = l /\ lines[l].shape = "exec" /\ CalleeOf(l) # Absent
  /\ o.id = InvocationId(ScopeAt(l), lines[l].name) /\ o.invoked = ProcId(CalleeOf(l))

RunObserved(l) ==
  lines[l].shape = "exec" =>
    /\ \E i \in Emitted : i.kind = "entity" /\ IsStepOf(i, l)
    /\ CalleeOf(l) # Absent => \E i \in Emitted : i.kind = "entity" /\ IsCallOf(i, l)
    /\ Operand(l, "pgm") # Absent =>
         \E i \in Emitted : /\ i.kind = "edge" /\ i.type = "INVOKES" /\ i.line = l
                           /\ i.to = ProgramId(Operand(l, "pgm"))
                           /\ i.from = StepId(ScopeAt(l), lines[l].name)

StatementsObserved == \A l \in 1..(at - 1) : ObservedOnce(l) /\ RunObserved(l)

SysinsFollow ==
  \A o \in Emitted : o.kind = "edge" /\ o.type = "PASSES_SYSIN_TO" =>
    o.dd = "SYSIN" /\ o.utility # Absent /\ o.utility = LastProgram(o.line)

\* Edges lead from steps and invocations, a procedure is what is invoked, one that
\* owns anything was declared earlier in the file, and what declares a step or a call
\* is its EXEC.
DeclaredIds == {o.id : o \in {e \in Emitted : e.kind = "entity"}}

Fits(o, declared) ==
  /\ o.kind = "edge" => o.from[1] \in {"jcl-step", "jcl-proc-inv"}
  /\ o.kind = "entity" =>
       /\ o.invoked # Absent => o.invoked[1] = "jcl-proc"
       /\ o.owner # Absent /\ o.owner[1] = "jcl-proc" => o.owner \in declared
       /\ o.id[1] # "program"
       /\ o.id[1] = "jcl-step" => IsStepOf(o, o.line)
       /\ o.id[1] = "jcl-proc-inv" => IsCallOf(o, o.line)

ReferencesFit ==
  /\ proc # Absent => ProcId(proc) \in DeclaredIds
  /\ \A o \in Emitted : Fits(o, DeclaredIds)

JclInv == MemoryInv /\ ExecRemembered /\ StatementsObserved /\ SysinsFollow /\ ReferencesFit

-----------------------------------------------------------------------------
(* What the documentation says and the code does not do *)

InvokedAt(e) == IF Operand(e, "proc") # Absent THEN Operand(e, "proc") ELSE Operand(e, "positional")

\* RUL-JCL-PROC-004: an override given where a procedure is used applies to the
\* step of the procedure it names.
OverridesReachTheProcBody ==
  \A o \in Emitted :
    o.kind = "edge" /\ o.type = "USES_DATASET" /\ lines[o.line].shape = "override" =>
      LET e == Greatest(Headers("exec", o.line)) IN
        Headers("exec", o.line) # {} /\ Operand(e, "pgm") = Absent /\ InvokedAt(e) # Absent =>
          o.from = StepId(InvokedAt(e), lines[o.line].over)

\* RUL-JCL-007: every data set of a concatenation is used, that is, the one of an
\* unnamed DD that stands after a complete DD as well.
EveryDatasetUsed ==
  Finished => \A l \in 2..Len(lines) :
    /\ lines[l].shape = "bare" /\ lines[l].dsn # Absent
    /\ lines[l - 1].shape = "dd" /\ ~lines[l - 1].more
    =>
      \E o \in Emitted : /\ o.kind = "edge" /\ o.type = "USES_DATASET"
                         /\ o.to = DatasetId(BaseOf[lines[l].dsn])

\* RUL-JCL-003: EXEC <name> invokes the procedure of that name.
PositionalInvocations ==
  Finished => \A l \in 1..Len(lines) :
    /\ lines[l].shape = "exec" /\ lines[l].positional # Absent
    /\ Operand(l, "pgm") = Absent /\ Operand(l, "proc") = Absent
    =>   \E o \in Emitted : /\ o.kind = "edge" /\ o.type = "USES_PROC" /\ o.line = l
                            /\ o.to = ProcId(lines[l].positional)

\* RUL-JCL-PROC-001: a PROC statement declares a procedure wherever it stands.
ProcsDeclared ==
  Finished => \A l \in 1..Len(lines) :
    lines[l].shape = "proc" =>
      \E o \in Emitted : o.kind = "entity" /\ o.id = ProcId(lines[l].name)
=============================================================================
