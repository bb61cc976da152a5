----------------------------- MODULE HookSession -----------------------------
(***************************************************************************)
(* The hooks of agent sessions that share one repository, apart from the    *)
(* pretool guard (DelegatedAdmission): handle_hook_inner in                 *)
(* corcept-runtime/src/lib.rs.  Each hook is a process: it classifies what  *)
(* the host reports, appends a row through SinkDispatcher, passes the event *)
(* to the derived sinks, and answers.  stop-check reads the ledger first,    *)
(* without its lock (evaluate_stop in corcept-guards/src/lib.rs).           *)
(*                                                                         *)
(* One append is one step here (LedgerAppend has its inside).               *)
(***************************************************************************)
EXTENDS Naturals, Sequences, FiniteSets

CONSTANTS
  Proc,       \* hook processes that can run at the same time
  Session,    \* agent sessions
  ToolCall,   \* completed tool calls the host may report
  Sinks,      \* the derived sinks that are enabled, in dispatch order
  Delegated,  \* CORCEPT_DELEGATION_* is set: rows are signed, targets suppressed
  Fault,      \* the faults that occur: a subset of {"crash", "io"}
  MaxCalls,   \* bound: hook calls in a behaviour
  MaxMishaps  \* bound: refused or failing appends, failing sinks and crashes

\* What a tool call says of itself: the tool, what it touched, its exit code.
Tool == {"Edit", "Bash", "Read"}
Target == {"source", "doc", "test", "command", "none"}
ExitCode == {"zero", "nonzero", "none"}

ASSUME ToolCallAssumption == ToolCall \subseteq [tool : Tool, target : Target, exit : ExitCode]
ASSUME SinksAssumption == Sinks \in Seq({"telemetry", "debug", "cloudevents", "receipt"})
ASSUME DelegatedAssumption == Delegated \in BOOLEAN
ASSUME BoundAssumption == MaxCalls \in Nat /\ MaxMishaps \in Nat

VARIABLES
  rows,      \* the ledger's rows, each named by its call
  readable,  \* every line of the ledger parses
  derived,   \* what the derived sinks hold: the call, and the row id they name
  pc,        \* where each hook process is
  job,       \* the call it serves
  todo,      \* how many sinks it has served
  told,      \* history: what evaluate_stop said, and why
  answers,   \* history: what the host was answered by hooks that did not fail
  streak,    \* how many stops of a session were blocked in a row
  calls,     \* the number of hook calls so far
  mishaps    \* the number of mishaps so far

vars == <<rows, readable, derived, pc, job, todo, told, answers, streak, calls, mishaps>>

Number == 1..MaxCalls
Event == {"prompt_submitted", "file_modified", "test_run", "command_executed",
          "tool_completed", "stop_allowed", "stop_blocked"}
RowDecision == {"allow", "block", "pass", "fail", "recorded"}

Row == [n : Number, event : Event, decision : RowDecision, target : Target]
NoRow == 0

NoSession == "none"
NoJob == [row |-> [n |-> 0], session |-> NoSession]
Job == [row : Row, session : Session \cup {NoSession}]

HookPc == {"idle", "evaluate", "append", "sinks", "answer"}

TypeOK ==
  /\ rows \in Seq(Row)
  /\ readable \in BOOLEAN
  /\ \A d \in derived : d.n \in Number /\ d.id \in Number \cup {NoRow}
  /\ pc \in [Proc -> HookPc]
  /\ job \in [Proc -> Job \cup {NoJob}]
  /\ todo \in [Proc -> 0..Len(Sinks)]
  /\ \A t \in told : t.stop \in Number /\ t.verdict \in {"block", "pass", "unchecked"}
  /\ \A a \in answers : a.n \in Number /\ a.result \in {"ok", "block", "unknown"}
  /\ streak \in [Session -> Nat]
  /\ calls \in 0..MaxCalls
  /\ mishaps \in 0..MaxMishaps

Init ==
  /\ rows = <<>>
  /\ readable = TRUE
  /\ derived = {}
  /\ pc = [p \in Proc |-> "idle"]
  /\ job = [p \in Proc |-> NoJob]
  /\ todo = [p \in Proc |-> 0]
  /\ told = {}
  /\ answers = {}
  /\ streak = [s \in Session |-> 0]
  /\ calls = 0
  /\ mishaps = 0

Goto(p, to) == pc' = [pc EXCEPT ![p] = to]

Mishap == mishaps < MaxMishaps /\ mishaps' = mishaps + 1

-----------------------------------------------------------------------------
(* What a completed tool call is recorded as *)

PosttoolEvent(c) ==
  IF c.tool = "Edit" THEN "file_modified"
  ELSE IF c.tool # "Bash" THEN "tool_completed"
  ELSE IF c.target = "test" THEN "test_run"
  ELSE "command_executed"

PosttoolDecision(c) ==
  IF c.exit = "zero" THEN "pass" ELSE IF c.exit = "nonzero" THEN "fail" ELSE "recorded"

PosttoolRow(c) ==
  [n |-> calls + 1, event |-> PosttoolEvent(c), decision |-> PosttoolDecision(c),
   target |-> IF Delegated THEN "none" ELSE c.target]

-----------------------------------------------------------------------------
(* evaluate_stop *)

\* A change is looked for by event and target: a suppressed target counts as source.
SourceChange(r) == r.event = "file_modified" /\ r.target # "doc"
PassingTest(r) == r.event = "test_run" /\ r.decision = "pass"

\* Mutant of LastIndex: the first row that fits.
FirstIndex(fits) ==
  IF fits = {} THEN 0 ELSE CHOOSE i \in fits : \A j \in fits : i <= j

\* rposition; 0 for none.
LastIndex(fits) ==
  IF fits = {} THEN 0 ELSE CHOOSE i \in fits : \A j \in fits : j <= i

LastChange(ledger) == LastIndex({i \in 1..Len(ledger) : SourceChange(ledger[i])})
LastPass(ledger) == LastIndex({i \in 1..Len(ledger) : PassingTest(ledger[i])})

\* Mutant of StopVerdict: the host's stop_hook_active is not looked at.
LoopingVerdict(active) ==
  IF ~readable THEN "unchecked"
  ELSE IF LastPass(rows) < LastChange(rows) THEN "block"
  ELSE "pass"

StopVerdict(active) ==
  IF active \/ ~readable THEN "unchecked"
  ELSE IF LastPass(rows) < LastChange(rows) THEN "block"
  ELSE "pass"

-----------------------------------------------------------------------------
(* The hooks *)

Start(p, row, session, to) ==
  /\ pc[p] = "idle"
  /\ calls < MaxCalls
  /\ calls' = calls + 1
  /\ job' = [job EXCEPT ![p] = [row |-> row, session |-> session]]
  /\ Goto(p, to)
  /\ UNCHANGED <<rows, readable, derived, todo, told, answers, streak, mishaps>>

\* posttool-audit of a completed tool call; tool calls may complete in parallel.
PostTool(p, c) == Start(p, PosttoolRow(c), NoSession, "append")

\* session-start and user-prompt-submit record and answer.
Prompt(p) ==
  Start(p, [n |-> calls + 1, event |-> "prompt_submitted", decision |-> "allow",
            target |-> "none"], NoSession, "append")

\* A hook command nobody knows (a plugin newer than the binary) is answered with a block at
\* once, without a row.
UnknownCommand(p) ==
  /\ pc[p] = "idle"
  /\ calls < MaxCalls
  /\ calls' = calls + 1
  /\ answers' = answers \cup {[n |-> calls + 1, result |-> "unknown"]}
  /\ UNCHANGED <<rows, readable, derived, pc, job, todo, told, streak, mishaps>>

\* The host runs one stop-check of a session at a time.
StopCheck(p, s) ==
  /\ \A q \in Proc : job[q].session # s
  /\ Start(p, [n |-> calls + 1, event |-> "stop_allowed", decision |-> "allow",
               target |-> "none"], s, "evaluate")

\* Mutant of EvaluateStop: the host is answered before the row is appended.
EvaluateStopSilently(p) ==
  LET verdict == StopVerdict(streak[job[p].session] > 0)
      n == job[p].row.n
  IN /\ pc[p] = "evaluate"
     /\ told' = told \cup {[stop |-> n, verdict |-> verdict]}
     /\ answers' = answers \cup
          {[n |-> n, result |-> IF verdict = "block" THEN "block" ELSE "ok"]}
     /\ Goto(p, "append")
     /\ UNCHANGED <<rows, readable, derived, job, todo, streak, calls, mishaps>>

\* The ledger is read once, without its lock: rows that come later do not count.
\* The host sets stop_hook_active when the session goes on because of a block.
EvaluateStop(p) ==
  LET verdict == StopVerdict(streak[job[p].session] > 0)
      n == job[p].row.n
  IN /\ pc[p] = "evaluate"
     /\ told' = told \cup {[stop |-> n, verdict |-> verdict]}
     /\ job' = IF verdict # "block" THEN job
               ELSE [job EXCEPT ![p].row.event = "stop_blocked",
                                ![p].row.decision = "block"]
     /\ Goto(p, "append")
     /\ UNCHANGED <<rows, readable, derived, todo, answers, streak, calls, mishaps>>

\* The authority sink comes first and its error is the hook's.
AppendRow(p) ==
  /\ pc[p] = "append"
  /\ readable
  /\ rows' = Append(rows, job[p].row)
  /\ Goto(p, "sinks")
  /\ UNCHANGED <<readable, derived, job, todo, told, answers, streak, calls, mishaps>>

\* An unsigned append looks at no line but the last: it goes on behind a damaged
\* one, or runs its row into it.
AppendToDamaged(p) ==
  /\ pc[p] = "append"
  /\ ~readable /\ ~Delegated
  /\ rows' \in {rows, Append(rows, job[p].row)}
  /\ Goto(p, "sinks")
  /\ UNCHANGED <<readable, derived, job, todo, told, answers, streak, calls, mishaps>>

Leave(p) ==
  /\ Goto(p, "idle")
  /\ job' = [job EXCEPT ![p] = NoJob]
  /\ todo' = [todo EXCEPT ![p] = 0]

\* Mutant of AppendRefused: the ledger's error is best effort like any other.
AppendSkipped(p) ==
  /\ pc[p] = "append"
  /\ Mishap
  /\ Goto(p, "sinks")
  /\ UNCHANGED <<rows, readable, derived, job, todo, told, answers, streak, calls>>

\* The lock was not free for five seconds, or a signed append refuses the
\* history: the hook fails, and the host treats a failed hook as advisory.
AppendRefused(p) ==
  /\ pc[p] = "append"
  /\ Mishap
  /\ streak' = [s \in Session |-> IF s = job[p].session THEN 0 ELSE streak[s]]
  /\ Leave(p)
  /\ UNCHANGED <<rows, readable, derived, told, answers, calls>>

\* What a sink makes of the event: the row id it names, if the event has one.
Projection(p) ==
  [sink |-> Sinks[todo[p] + 1], n |-> job[p].row.n,
   id |-> IF Delegated THEN job[p].row.n ELSE NoRow]

\* emit_signed hands the finalized row on; emit_all the event as it was before
\* the append gave it an id, a time and a hash.  A derived sink may fail.
ServeSink(p) ==
  /\ pc[p] = "sinks"
  /\ todo[p] < Len(Sinks)
  /\ \/ derived' = derived \cup {Projection(p)} /\ UNCHANGED mishaps
     \/ "io" \in Fault /\ Mishap /\ UNCHANGED derived
  /\ todo' = [todo EXCEPT ![p] = @ + 1]
  /\ UNCHANGED <<rows, readable, pc, job, told, answers, streak, calls>>

Blocked(p) == job[p].row.event = "stop_blocked"

AnswerHost(p) ==
  /\ pc[p] = "sinks"
  /\ todo[p] = Len(Sinks)
  /\ answers' = answers \cup
       {[n |-> job[p].row.n, result |-> IF Blocked(p) THEN "block" ELSE "ok"]}
  /\ streak' = [s \in Session |->
       IF s # job[p].session THEN streak[s] ELSE IF Blocked(p) THEN streak[s] + 1 ELSE 0]
  /\ Leave(p)
  /\ UNCHANGED <<rows, readable, derived, told, calls, mishaps>>

-----------------------------------------------------------------------------
(* Faults *)

\* What an append that stops half way leaves: the row, or half a line, or nothing.
HalfAppend(p) ==
  \/ UNCHANGED <<rows, readable>>
  \/ rows' = Append(rows, job[p].row) /\ UNCHANGED readable
  \/ readable' = FALSE /\ UNCHANGED rows

AppendFails(p) ==
  /\ "io" \in Fault
  /\ Mishap
  /\ pc[p] = "append"
  /\ HalfAppend(p)
  /\ streak' = [s \in Session |-> IF s = job[p].session THEN 0 ELSE streak[s]]
  /\ Leave(p)
  /\ UNCHANGED <<derived, told, answers, calls>>

Crash(p) ==
  /\ "crash" \in Fault
  /\ Mishap
  /\ pc[p] # "idle"
  /\ IF pc[p] = "append" THEN HalfAppend(p) ELSE UNCHANGED <<rows, readable>>
  /\ streak' = [s \in Session |-> IF s = job[p].session THEN 0 ELSE streak[s]]
  /\ Leave(p)
  /\ UNCHANGED <<derived, told, answers, calls>>

-----------------------------------------------------------------------------
Exhausted ==
  /\ calls = MaxCalls
  /\ \A p \in Proc : pc[p] = "idle"
  /\ UNCHANGED vars

Next ==
  \/ \E p \in Proc, c \in ToolCall : PostTool(p, c)
  \/ \E p \in Proc : Prompt(p) \/ UnknownCommand(p)
  \/ \E p \in Proc, s \in Session : StopCheck(p, s)
  \/ \E p \in Proc : EvaluateStop(p) \/ AppendRow(p) \/ AppendToDamaged(p)
                     \/ AppendRefused(p) \/ ServeSink(p) \/ AnswerHost(p)
  \/ \E p \in Proc : AppendFails(p) \/ Crash(p)
  \/ Exhausted

Spec == Init /\ [][Next]_vars

-----------------------------------------------------------------------------
(* Properties *)

\* The host is answered only after the row that says so: the block of a stop by a
\* stop_blocked row, everything else by another one.  Only the answer to an unknown
\* command has no row.  (Behind a damaged line an unsigned row may be lost;
\* LedgerAppend has that case.)
AnswersAudited ==
  readable =>
    \A a \in answers : a.result # "unknown" =>
      \E i \in 1..Len(rows) :
        rows[i].n = a.n /\ (rows[i].event = "stop_blocked" <=> a.result = "block")

\* A derived sink never tells of an event the ledger does not have.
DerivedHasRow ==
  readable => \A d \in derived : \E i \in 1..Len(rows) : rows[i].n = d.n

\* The gate cannot trap a session: after a block the next stop is not blocked,
\* whatever other sessions have changed in between.
NoBlockLoop == \A s \in Session : streak[s] <= 1

\* What a CloudEvents sink receives names a row of the ledger.
ProjectionNamesRow ==
  \A d \in derived : d.sink = "cloudevents" => d.id = d.n

\* Some recorded source change has no recorded passing test after it.
Untested ==
  \E i \in 1..Len(rows) :
    SourceChange(rows[i]) /\ \A j \in (i + 1)..Len(rows) : ~PassingTest(rows[j])

Gate == INSTANCE StopGate WITH
          Stop <- Number, dirty <- Untested, verdicts <- told

\* Whatever hooks of whatever sessions run in between, a stop is blocked exactly
\* when, at one moment of its evaluation, a recorded source change had no recorded
\* passing test after it.
ImplementsStopGate == Gate!Spec
=============================================================================
