-------------------------- MODULE HookSessionProofs --------------------------
(***************************************************************************)
(* Theorems about HookSession for any number of sessions, processes, tool   *)
(* calls, sinks and mishaps: types, that answers and derived sinks follow   *)
(* the ledger, that a stop is never blocked twice in a row, and that the    *)
(* stop gate implements StopGate although it reads the ledger unlocked.     *)
(***************************************************************************)
EXTENDS HookSession, WellFoundedInduction, TLAPS

USE BoundAssumption DEF HookPc, Number

-----------------------------------------------------------------------------
(* Types, and the calls that are being served *)

\* Every running hook has a number of its own.
JobsKnown ==
  \A p \in Proc :
    IF pc[p] = "idle" THEN job[p] = NoJob /\ todo[p] = 0
    ELSE /\ job[p] \in Job
         /\ job[p].row.n <= calls
         /\ \A q \in Proc : q # p => job[q].row.n # job[p].row.n

\* A stop is its session's only one, and has not been told anything yet.
StopsKnown ==
  \A p \in Proc :
    /\ pc[p] = "evaluate" =>
         /\ job[p].row.event = "stop_allowed"
         /\ job[p].session \in Session
         /\ \A t \in told : t.stop # job[p].row.n
    /\ job[p].session # NoSession =>
         \A q \in Proc : q # p => job[q].session # job[p].session
    /\ pc[p] # "idle" /\ (pc[p] = "evaluate" \/ Blocked(p)) => job[p].session # NoSession

\* What was told was told to a call that has begun.
ToldBefore == \A t \in told : t.stop <= calls

\* What a tool call is recorded as.
LEMMA PosttoolTypes ==
  ASSUME TypeOK, calls < MaxCalls, NEW c \in ToolCall
  PROVE  /\ PosttoolRow(c) \in Row
         /\ PosttoolRow(c).n = calls + 1
         /\ PosttoolRow(c).event # "stop_blocked"
<1>1. c.target \in Target
  BY ToolCallAssumption
<1>2. PosttoolEvent(c) \in Event \ {"stop_blocked"}
  BY DEF PosttoolEvent, Event
<1>3. PosttoolDecision(c) \in RowDecision
  BY DEF PosttoolDecision, RowDecision
<1>4. calls + 1 \in 1..MaxCalls
  BY DEF TypeOK
<1>5. (IF Delegated THEN "none" ELSE c.target) \in Target
  BY <1>1 DEF Target
<1>6. QED BY <1>2, <1>3, <1>4, <1>5 DEF PosttoolRow, Row

LEMMA PlainRowTypes ==
  ASSUME TypeOK, calls < MaxCalls, NEW e \in Event
  PROVE  [n |-> calls + 1, event |-> e, decision |-> "allow", target |-> "none"] \in Row
<1>1. calls + 1 \in 1..MaxCalls
  BY DEF TypeOK
<1>2. QED BY <1>1 DEF Row, RowDecision, Target

HookInv == TypeOK /\ JobsKnown /\ StopsKnown /\ ToldBefore

LEMMA HookInvInit == Init => HookInv
<1> SUFFICES ASSUME Init PROVE HookInv
  OBVIOUS
<1>1. rows \in Seq(Row) /\ readable \in BOOLEAN
  BY DEF Init
<1>2. pc \in [Proc -> HookPc] /\ job \in [Proc -> Job \cup {NoJob}]
  BY DEF Init
<1>3. Len(Sinks) \in Nat
  BY SinksAssumption
<1>4. todo \in [Proc -> 0..Len(Sinks)]
  BY <1>3 DEF Init
<1>5. calls \in 0..MaxCalls /\ mishaps \in 0..MaxMishaps /\ streak \in [Session -> Nat]
  BY DEF Init
<1>6. TypeOK
  BY <1>1, <1>2, <1>4, <1>5 DEF Init, TypeOK
<1>7. JobsKnown /\ StopsKnown /\ ToldBefore
  BY DEF Init, JobsKnown, StopsKnown, ToldBefore, NoJob
<1>8. QED BY <1>6, <1>7 DEF HookInv

\* The beginning of any hook.
LEMMA StartInv ==
  ASSUME HookInv, NEW p \in Proc, NEW row \in Row, row.n = calls + 1,
         row.event # "stop_blocked", NEW s \in Session \cup {NoSession},
         NEW to \in {"append", "evaluate"}, Start(p, row, s, to),
         to = "append" => s = NoSession,
         to = "evaluate" => /\ row.event = "stop_allowed" /\ s \in Session
                            /\ \A q \in Proc : job[q].session # s
  PROVE  HookInv'
<1> USE DEF HookInv
<1>1. /\ calls' = calls + 1 /\ calls \in Nat /\ calls' \in 0..MaxCalls
      /\ UNCHANGED <<rows, readable, derived, todo, told, answers, streak, mishaps>>
  BY DEF Start, TypeOK
<1>2. [row |-> row, session |-> s] \in Job
  BY DEF Job
<1>3. /\ job'[p] = [row |-> row, session |-> s] /\ pc'[p] = to /\ pc[p] = "idle"
      /\ \A q \in Proc : q # p => job'[q] = job[q] /\ pc'[q] = pc[q]
      /\ pc' \in [Proc -> HookPc] /\ job' \in [Proc -> Job \cup {NoJob}]
  BY <1>2 DEF Start, Goto, TypeOK
<1>4. TypeOK'
  BY <1>1, <1>3 DEF TypeOK
<1>5. ASSUME NEW q \in Proc
      PROVE  job[q].row.n \in Nat /\ job[q].row.n <= calls
  <2>1. CASE pc[q] = "idle"
    BY <1>1, <2>1 DEF JobsKnown, NoJob
  <2>2. CASE pc[q] # "idle"
    BY <2>2 DEF JobsKnown, Job, Row
  <2>3. QED BY <2>1, <2>2
<1>6. JobsKnown'
  <2> SUFFICES ASSUME NEW q \in Proc
               PROVE  IF pc'[q] = "idle" THEN job'[q] = NoJob /\ todo'[q] = 0
                      ELSE /\ job'[q] \in Job
                           /\ job'[q].row.n <= calls'
                           /\ \A r \in Proc : r # q => job'[r].row.n # job'[q].row.n
    BY DEF JobsKnown
  <2>1. CASE q = p
    BY <1>1, <1>2, <1>3, <1>5, <2>1
  <2>2. CASE q # p
    BY <1>1, <1>3, <1>5, <2>2 DEF JobsKnown
  <2>3. QED BY <2>1, <2>2
<1>7. StopsKnown'
  <2>1. \A t \in told : t.stop # calls + 1
    BY <1>1 DEF ToldBefore, TypeOK
  <2>2. job[p] = NoJob /\ job[p].session = NoSession
    BY <1>3 DEF JobsKnown, NoJob
  <2>3. ASSUME NEW q \in Proc
        PROVE  /\ pc'[q] = "evaluate" =>
                    /\ job'[q].row.event = "stop_allowed"
                    /\ job'[q].session \in Session
                    /\ \A t \in told' : t.stop # job'[q].row.n
               /\ pc'[q] # "idle" /\ (pc'[q] = "evaluate" \/ job'[q].row.event = "stop_blocked")
                    => job'[q].session # NoSession
    <3>1. CASE q = p
      BY <1>1, <1>3, <2>1, <2>2, <3>1
    <3>2. CASE q # p
      BY <1>1, <1>3, <3>2 DEF StopsKnown, Blocked
    <3>3. QED BY <3>1, <3>2
  <2>4. ASSUME NEW q \in Proc, job'[q].session # NoSession, NEW r \in Proc, r # q
        PROVE  job'[r].session # job'[q].session
    BY <1>3, <2>2, <2>4 DEF StopsKnown
  <2>5. QED BY <2>3, <2>4 DEF StopsKnown, Blocked
<1>8. ToldBefore'
  BY <1>1 DEF ToldBefore, TypeOK
<1>9. QED BY <1>4, <1>6, <1>7, <1>8

\* The end of any hook, however it ends.
LEMMA LeaveInv ==
  ASSUME HookInv, NEW p \in Proc, Leave(p), UNCHANGED <<told, calls>>
  PROVE  /\ pc' \in [Proc -> HookPc] /\ job' \in [Proc -> Job \cup {NoJob}]
         /\ todo' \in [Proc -> 0..Len(Sinks)]
         /\ JobsKnown' /\ StopsKnown' /\ ToldBefore'
<1> USE DEF HookInv
<1>1. Len(Sinks) \in Nat
  BY SinksAssumption
<1>2. /\ pc' \in [Proc -> HookPc] /\ job' \in [Proc -> Job \cup {NoJob}]
      /\ todo' \in [Proc -> 0..Len(Sinks)]
      /\ pc'[p] = "idle" /\ job'[p] = NoJob /\ todo'[p] = 0
      /\ \A q \in Proc : q # p => pc'[q] = pc[q] /\ job'[q] = job[q] /\ todo'[q] = todo[q]
  BY <1>1 DEF Leave, Goto, TypeOK
<1>3. JobsKnown'
  <2>1. ASSUME NEW q \in Proc, pc[q] # "idle" PROVE job[q].row.n # 0
    BY <2>1 DEF JobsKnown, Job, Row
  <2>2. NoJob.row.n = 0
    BY DEF NoJob
  <2>3. QED BY <1>2, <2>1, <2>2 DEF JobsKnown
<1>4. StopsKnown'
  <2>1. job'[p].session = NoSession
    BY <1>2 DEF NoJob
  <2>2. QED BY <1>2, <2>1 DEF StopsKnown, Blocked
<1>5. ToldBefore'
  BY DEF ToldBefore
<1>6. QED BY <1>2, <1>3, <1>4, <1>5

\* A step of a hook that goes on and leaves its call as it is.
LEMMA GoOnInv ==
  ASSUME HookInv, NEW p \in Proc, pc[p] # "idle", NEW to \in {"sinks"}, Goto(p, to),
         UNCHANGED <<job, told, calls>>,
         todo' \in [Proc -> 0..Len(Sinks)],
         \A q \in Proc : q # p => todo'[q] = todo[q]
  PROVE  pc' \in [Proc -> HookPc] /\ JobsKnown' /\ StopsKnown' /\ ToldBefore'
<1> USE DEF HookInv
<1>1. /\ pc' \in [Proc -> HookPc] /\ pc'[p] = "sinks"
      /\ \A q \in Proc : q # p => pc'[q] = pc[q]
  BY DEF Goto, TypeOK
<1>2. JobsKnown'
  BY <1>1 DEF JobsKnown
<1>3. StopsKnown'
  BY <1>1 DEF StopsKnown, Blocked
<1>4. QED BY <1>1, <1>2, <1>3 DEF ToldBefore

\* Rows, whether the ledger parses, and mishaps stay typed.
LEMMA AppendTypes ==
  ASSUME HookInv, NEW p \in Proc, pc[p] # "idle"
  PROVE  /\ Append(rows, job[p].row) \in Seq(Row)
         /\ HalfAppend(p) => rows' \in Seq(Row) /\ readable' \in BOOLEAN
<1>1. job[p].row \in Row
  BY DEF HookInv, JobsKnown, Job
<1>2. rows \in Seq(Row) /\ readable \in BOOLEAN
  BY DEF HookInv, TypeOK
<1>3. Append(rows, job[p].row) \in Seq(Row)
  BY <1>1, <1>2
<1>4. QED BY <1>2, <1>3 DEF HalfAppend

LEMMA MishapTypes == ASSUME HookInv, Mishap PROVE mishaps' \in 0..MaxMishaps
BY DEF HookInv, TypeOK, Mishap

LEMMA HookInvNext == HookInv /\ [Next]_vars => HookInv'
<1> SUFFICES ASSUME HookInv, [Next]_vars
             PROVE  HookInv'
  OBVIOUS
<1> USE DEF HookInv
<1>1. ASSUME NEW p \in Proc, NEW c \in ToolCall, PostTool(p, c)
      PROVE  HookInv'
  <2>1. calls < MaxCalls
    BY <1>1 DEF PostTool, Start
  <2>2. QED BY <1>1, <2>1, PosttoolTypes, StartInv DEF PostTool
<1>2. ASSUME NEW p \in Proc, Prompt(p)
      PROVE  HookInv'
  <2>1. calls < MaxCalls
    BY <1>2 DEF Prompt, Start
  <2> DEFINE row == [n |-> calls + 1, event |-> "prompt_submitted", decision |-> "allow",
                     target |-> "none"]
  <2>2. row \in Row /\ row.n = calls + 1 /\ row.event # "stop_blocked"
    BY <2>1, PlainRowTypes DEF Event
  <2>3. Start(p, row, NoSession, "append")
    BY <1>2 DEF Prompt
  <2> HIDE DEF row
  <2>4. QED BY <2>2, <2>3, StartInv
<1>3. ASSUME NEW p \in Proc, NEW s \in Session, StopCheck(p, s)
      PROVE  HookInv'
  <2>1. calls < MaxCalls
    BY <1>3 DEF StopCheck, Start
  <2> DEFINE row == [n |-> calls + 1, event |-> "stop_allowed", decision |-> "allow",
                     target |-> "none"]
  <2>2. row \in Row /\ row.n = calls + 1 /\ row.event = "stop_allowed"
    BY <2>1, PlainRowTypes DEF Event
  <2>3. Start(p, row, s, "evaluate") /\ \A q \in Proc : job[q].session # s
    BY <1>3 DEF StopCheck
  <2> HIDE DEF row
  <2>4. QED BY <2>2, <2>3, StartInv
<1>4. ASSUME NEW p \in Proc, EvaluateStop(p)
      PROVE  HookInv'
  <2> DEFINE verdict == StopVerdict(streak[job[p].session] > 0)
             n == job[p].row.n
  <2>1. /\ pc[p] = "evaluate" /\ job[p] \in Job /\ n \in Number /\ n <= calls
        /\ verdict \in {"block", "pass", "unchecked"}
    BY <1>4 DEF EvaluateStop, JobsKnown, Job, Row, StopVerdict
  <2>2. /\ pc' \in [Proc -> HookPc] /\ pc'[p] = "append"
        /\ \A q \in Proc : q # p => pc'[q] = pc[q]
    BY <1>4 DEF EvaluateStop, Goto, TypeOK
  <2>3. /\ told' = told \cup {[stop |-> n, verdict |-> verdict]}
        /\ UNCHANGED <<rows, readable, derived, todo, answers, streak, calls, mishaps>>
    BY <1>4 DEF EvaluateStop
  <2>4. /\ job' \in [Proc -> Job \cup {NoJob}] /\ job'[p] \in Job
        /\ job'[p].row.n = n /\ job'[p].session = job[p].session
        /\ \A q \in Proc : q # p => job'[q] = job[q]
    <3>1. CASE verdict # "block"
      <4>1. job' = job BY <1>4, <3>1 DEF EvaluateStop
      <4>2. QED BY <2>1, <4>1 DEF TypeOK
    <3>2. CASE verdict = "block"
      <4> DEFINE blocked == [job[p] EXCEPT !.row.event = "stop_blocked", !.row.decision = "block"]
      <4>1. job' = [job EXCEPT ![p] = blocked]
        BY <1>4, <3>2 DEF EvaluateStop, TypeOK
      <4>2. blocked \in Job /\ blocked.row.n = n /\ blocked.session = job[p].session
        BY <2>1 DEF Job, Row, Event, RowDecision
      <4> HIDE DEF blocked
      <4>3. QED BY <4>1, <4>2 DEF TypeOK
    <3>3. QED BY <3>1, <3>2
  <2> HIDE DEF verdict, n
  <2>5. TypeOK'
    BY <2>1, <2>2, <2>3, <2>4 DEF TypeOK
  <2>6. JobsKnown'
    BY <2>1, <2>2, <2>3, <2>4 DEF JobsKnown, n
  <2>7. StopsKnown'
    <3>1. \A q \in Proc : q # p => job[q].row.n # n
      BY <2>1 DEF JobsKnown, n
    <3>2. job[p].session # NoSession
      BY <2>1 DEF StopsKnown
    <3>3. QED BY <2>2, <2>3, <2>4, <3>1, <3>2 DEF StopsKnown, Blocked
  <2>8. ToldBefore'
    BY <2>1, <2>3 DEF ToldBefore
  <2>9. QED BY <2>5, <2>6, <2>7, <2>8
<1>5. ASSUME NEW p \in Proc, AppendRow(p) \/ AppendToDamaged(p)
      PROVE  HookInv'
  <2>1. rows' \in Seq(Row)
    BY <1>5, AppendTypes DEF AppendRow, AppendToDamaged, TypeOK
  <2>2. pc' \in [Proc -> HookPc] /\ JobsKnown' /\ StopsKnown' /\ ToldBefore'
    BY <1>5, GoOnInv DEF AppendRow, AppendToDamaged, TypeOK
  <2>3. QED BY <1>5, <2>1, <2>2 DEF AppendRow, AppendToDamaged, TypeOK
<1>6. ASSUME NEW p \in Proc, AppendRefused(p) \/ AppendFails(p) \/ Crash(p)
      PROVE  HookInv'
  <2>1. mishaps' \in 0..MaxMishaps
    BY <1>6, MishapTypes DEF AppendRefused, AppendFails, Crash
  <2>2. rows' \in Seq(Row) /\ readable' \in BOOLEAN
    BY <1>6, AppendTypes DEF AppendRefused, AppendFails, Crash, TypeOK
  <2> DEFINE forgotten == [s \in Session |-> IF s = job[p].session THEN 0 ELSE streak[s]]
  <2>3. streak' \in [Session -> Nat]
    <3>1. streak' = forgotten
      BY <1>6 DEF AppendRefused, AppendFails, Crash
    <3>2. forgotten \in [Session -> Nat]
      BY DEF TypeOK
    <3>3. QED BY <3>1, <3>2
  <2> HIDE DEF forgotten
  <2>4. /\ pc' \in [Proc -> HookPc] /\ job' \in [Proc -> Job \cup {NoJob}]
        /\ todo' \in [Proc -> 0..Len(Sinks)]
        /\ JobsKnown' /\ StopsKnown' /\ ToldBefore'
    BY <1>6, LeaveInv DEF AppendRefused, AppendFails, Crash
  <2>5. UNCHANGED <<derived, told, answers, calls>>
    BY <1>6 DEF AppendRefused, AppendFails, Crash
  <2>6. QED BY <2>1, <2>2, <2>3, <2>4, <2>5 DEF TypeOK
<1>7. ASSUME NEW p \in Proc, ServeSink(p)
      PROVE  HookInv'
  <2>1. job[p].row.n \in Number
    BY <1>7 DEF ServeSink, JobsKnown, Job, Row
  <2>2. todo' \in [Proc -> 0..Len(Sinks)] /\ \A q \in Proc : q # p => todo'[q] = todo[q]
    BY <1>7, SinksAssumption DEF ServeSink, TypeOK
  <2>3. \A d \in derived' : d.n \in Number /\ d.id \in Number \cup {NoRow}
    BY <1>7, <2>1 DEF ServeSink, Projection, TypeOK
  <2>4. mishaps' \in 0..MaxMishaps
    BY <1>7, MishapTypes DEF ServeSink, TypeOK
  <2>5. TypeOK'
    BY <1>7, <2>2, <2>3, <2>4 DEF ServeSink, TypeOK
  <2>6. QED BY <1>7, <2>2, <2>5 DEF ServeSink, JobsKnown, StopsKnown, Blocked, ToldBefore
<1>8. ASSUME NEW p \in Proc, AnswerHost(p)
      PROVE  HookInv'
  <2>1. job[p].row.n \in Number
    BY <1>8 DEF AnswerHost, JobsKnown, Job, Row
  <2>2. \A a \in answers' : a.n \in Number /\ a.result \in {"ok", "block", "unknown"}
    BY <1>8, <2>1 DEF AnswerHost, TypeOK
  <2>3. streak' \in [Session -> Nat]
    BY <1>8 DEF AnswerHost, TypeOK
  <2>4. /\ pc' \in [Proc -> HookPc] /\ job' \in [Proc -> Job \cup {NoJob}]
        /\ todo' \in [Proc -> 0..Len(Sinks)]
        /\ JobsKnown' /\ StopsKnown' /\ ToldBefore'
    BY <1>8, LeaveInv DEF AnswerHost
  <2>5. QED BY <1>8, <2>2, <2>3, <2>4 DEF AnswerHost, TypeOK
<1>9. CASE UNCHANGED vars
  BY <1>9 DEF vars, TypeOK, JobsKnown, StopsKnown, Blocked, ToldBefore
<1>10. ASSUME NEW p \in Proc, UnknownCommand(p)
       PROVE  HookInv'
  <2>1. calls \in Nat /\ calls + 1 \in Number /\ calls' = calls + 1 /\ calls' \in 0..MaxCalls
    BY <1>10 DEF UnknownCommand, TypeOK
  <2>2. /\ answers' = answers \cup {[n |-> calls + 1, result |-> "unknown"]}
        /\ UNCHANGED <<rows, readable, derived, pc, job, todo, told, streak, mishaps>>
    BY <1>10 DEF UnknownCommand
  <2>3. \A a \in answers' : a.n \in Number /\ a.result \in {"ok", "block", "unknown"}
    BY <2>1, <2>2 DEF TypeOK
  <2>4. TypeOK'
    BY <2>1, <2>2, <2>3 DEF TypeOK
  <2>5. JobsKnown'
    <3>1. \A q \in Proc : pc[q] # "idle" => job[q].row.n \in Nat
      BY DEF JobsKnown, Job, Row
    <3>2. QED BY <2>1, <2>2, <3>1 DEF JobsKnown
  <2>6. StopsKnown'
    BY <2>2 DEF StopsKnown, Blocked
  <2>7. ToldBefore'
    BY <2>1, <2>2 DEF ToldBefore, TypeOK
  <2>8. QED BY <2>4, <2>5, <2>6, <2>7
<1>11. QED
  BY <1>1, <1>2, <1>3, <1>4, <1>5, <1>6, <1>7, <1>8, <1>9, <1>10 DEF Next, Exhausted

\* Every step keeps the types, and a recorded decision is one the ledger knows.
THEOREM HookTypes == Spec => []TypeOK
<1>1. HookInv => TypeOK
  BY DEF HookInv
<1>2. QED BY <1>1, HookInvInit, HookInvNext, PTL DEF Spec

-----------------------------------------------------------------------------
(* The stop gate cannot trap a session *)

\* A stop that is going to be blocked comes after one that was not.
StreakInv ==
  /\ NoBlockLoop
  /\ \A p \in Proc : pc[p] # "idle" /\ Blocked(p) => streak[job[p].session] = 0

LEMMA StreakInvNext == HookInv /\ StreakInv /\ [Next]_vars => StreakInv'
<1> SUFFICES ASSUME HookInv, StreakInv, [Next]_vars
             PROVE  StreakInv'
  OBVIOUS
<1> USE DEF StreakInv, NoBlockLoop, Blocked
<1>1. pc \in [Proc -> HookPc] /\ streak \in [Session -> Nat] /\ job \in [Proc -> Job \cup {NoJob}]
  BY DEF HookInv, TypeOK
<1>2. ASSUME NEW p \in Proc, NEW row, row.event # "stop_blocked", NEW s, NEW to, Start(p, row, s, to)
      PROVE  StreakInv'
  BY <1>1, <1>2 DEF Start, Goto
<1>3. ASSUME NEW p \in Proc, EvaluateStop(p)
      PROVE  StreakInv'
  <2> DEFINE verdict == StopVerdict(streak[job[p].session] > 0)
  <2>1. verdict = "block" => streak[job[p].session] = 0
    BY <1>1, <1>3 DEF StopVerdict, HookInv, StopsKnown, EvaluateStop
  <2>2. job[p] \in Job /\ job[p].row.event = "stop_allowed"
    BY <1>3 DEF EvaluateStop, HookInv, JobsKnown, StopsKnown
  <2>3. /\ UNCHANGED streak /\ job'[p].session = job[p].session
        /\ job'[p].row.event = "stop_blocked" => verdict = "block"
        /\ \A q \in Proc : q # p => job'[q] = job[q] /\ pc'[q] = pc[q]
    BY <1>1, <1>3, <2>2 DEF EvaluateStop, Goto, Job, Row
  <2>4. QED BY <2>1, <2>3
<1>4. ASSUME NEW p \in Proc, Leave(p), pc[p] # "idle",
             \A s \in Session : s # job[p].session => streak'[s] = streak[s],
             \A s \in Session : s = job[p].session =>
               streak'[s] = 0 \/ (Blocked(p) /\ streak'[s] = streak[s] + 1)
      PROVE  StreakInv'
  <2>1. \A s \in Session : streak'[s] <= 1
    BY <1>1, <1>4
  <2>2. ASSUME NEW q \in Proc, pc'[q] # "idle", job'[q].row.event = "stop_blocked"
        PROVE  streak'[job'[q].session] = 0
    <3>1. q # p /\ job'[q] = job[q] /\ pc[q] # "idle"
      BY <1>1, <1>4, <2>2 DEF Leave, Goto
    <3>2. job[q].session # NoSession /\ job[q] \in Job
      BY <2>2, <3>1 DEF HookInv, StopsKnown, JobsKnown
    <3>3. job[q].session \in Session /\ job[p].session # job[q].session
      BY <3>1, <3>2 DEF HookInv, StopsKnown, Job
    <3>4. QED BY <1>4, <2>2, <3>1, <3>3
  <2>3. QED BY <2>1, <2>2
<1>5. ASSUME NEW p \in Proc, NEW c \in ToolCall, PostTool(p, c)
      PROVE  StreakInv'
  <2>1. PosttoolRow(c).event # "stop_blocked"
    BY DEF PosttoolRow, PosttoolEvent
  <2>2. QED BY <1>2, <1>5, <2>1 DEF PostTool
<1>6. ASSUME NEW p \in Proc, Prompt(p)
      PROVE  StreakInv'
  BY <1>2, <1>6 DEF Prompt
<1>7. ASSUME NEW p \in Proc, NEW s \in Session, StopCheck(p, s)
      PROVE  StreakInv'
  BY <1>2, <1>7 DEF StopCheck
<1>8. ASSUME NEW p \in Proc, AppendRow(p) \/ AppendToDamaged(p)
      PROVE  StreakInv'
  BY <1>1, <1>8 DEF AppendRow, AppendToDamaged, Goto
<1>9. ASSUME NEW p \in Proc, ServeSink(p)
      PROVE  StreakInv'
  BY <1>9 DEF ServeSink
<1>10. ASSUME NEW p \in Proc, AppendRefused(p) \/ AppendFails(p) \/ Crash(p)
       PROVE  StreakInv'
  <2>1. Leave(p) /\ pc[p] # "idle"
    BY <1>10 DEF AppendRefused, AppendFails, Crash
  <2>2. streak' = [s \in Session |-> IF s = job[p].session THEN 0 ELSE streak[s]]
    BY <1>10 DEF AppendRefused, AppendFails, Crash
  <2>3. \A s \in Session : s # job[p].session => streak'[s] = streak[s]
    BY <2>2
  <2>4. \A s \in Session : s = job[p].session => streak'[s] = 0
    BY <2>2
  <2>5. QED BY <1>4, <2>1, <2>3, <2>4
<1>11. ASSUME NEW p \in Proc, AnswerHost(p)
       PROVE  StreakInv'
  <2>1. Leave(p) /\ pc[p] # "idle"
    BY <1>11 DEF AnswerHost
  <2>2. streak' = [s \in Session |->
          IF s # job[p].session THEN streak[s] ELSE IF Blocked(p) THEN streak[s] + 1 ELSE 0]
    BY <1>11 DEF AnswerHost
  <2>3. \A s \in Session : s # job[p].session => streak'[s] = streak[s]
    BY <2>2
  <2>4. \A s \in Session : s = job[p].session =>
          streak'[s] = 0 \/ (Blocked(p) /\ streak'[s] = streak[s] + 1)
    BY <2>2
  <2>5. QED BY <1>4, <2>1, <2>3, <2>4
<1>12. CASE UNCHANGED vars
  BY <1>12 DEF vars
<1>13. ASSUME NEW p \in Proc, UnknownCommand(p)
       PROVE  StreakInv'
  BY <1>13 DEF UnknownCommand
<1>14. QED
  BY <1>3, <1>5, <1>6, <1>7, <1>8, <1>9, <1>10, <1>11, <1>12, <1>13 DEF Next, Exhausted

\* The stop after a blocked one is never blocked, whatever other sessions, failing
\* hooks and crashes do in between.
THEOREM NeverTrapped == Spec => []NoBlockLoop
<1>1. Init => HookInv /\ StreakInv
  <2>1. Init => StreakInv
    BY DEF Init, StreakInv, NoBlockLoop
  <2>2. QED BY <2>1, HookInvInit
<1>2. HookInv /\ StreakInv /\ [Next]_vars => (HookInv /\ StreakInv)'
  BY HookInvNext, StreakInvNext
<1>3. StreakInv => NoBlockLoop
  BY DEF StreakInv
<1>4. QED BY <1>1, <1>2, <1>3, PTL DEF Spec

-----------------------------------------------------------------------------
(* Answers and derived sinks follow the ledger *)

\* What a step does to the ledger: nothing, one row, or half a line.
LedgerStep ==
  \/ UNCHANGED <<rows, readable>>
  \/ readable' = FALSE /\ UNCHANGED rows
  \/ \E p \in Proc :
       /\ pc[p] = "append"
       /\ rows' = Append(rows, job[p].row)
       /\ UNCHANGED readable

LEMMA StepsAppend == [Next]_vars => LedgerStep
<1> SUFFICES ASSUME [Next]_vars PROVE LedgerStep
  OBVIOUS
<1> USE DEF LedgerStep
<1>1. CASE UNCHANGED vars
  BY <1>1 DEF vars
<1>2. ASSUME NEW p \in Proc, AppendFails(p) \/ Crash(p)
      PROVE  LedgerStep
  BY <1>2 DEF AppendFails, Crash, HalfAppend
<1>3. ASSUME NEW p \in Proc,
             \/ EvaluateStop(p) \/ AppendRow(p) \/ AppendToDamaged(p)
             \/ AppendRefused(p) \/ ServeSink(p) \/ AnswerHost(p) \/ UnknownCommand(p)
      PROVE  LedgerStep
  BY <1>3 DEF EvaluateStop, AppendRow, AppendToDamaged, AppendRefused, ServeSink, AnswerHost,
              UnknownCommand
<1>4. ASSUME NEW p \in Proc, NEW row, NEW s, NEW to, Start(p, row, s, to)
      PROVE  LedgerStep
  BY <1>4 DEF Start
<1>5. QED
  BY <1>1, <1>2, <1>3, <1>4 DEF Next, Exhausted, PostTool, Prompt, StopCheck

\* Rows stay where they are, and what cannot be read never can be again.
LEMMA RowsStay ==
  ASSUME HookInv, LedgerStep
  PROVE  /\ readable' => readable
         /\ \A i \in 1..Len(rows) : i \in 1..Len(rows') /\ rows'[i] = rows[i]
<1>1. rows \in Seq(Row) /\ readable \in BOOLEAN
  BY DEF HookInv, TypeOK
<1>2. CASE UNCHANGED <<rows, readable>> \/ (readable' = FALSE /\ UNCHANGED rows)
  BY <1>1, <1>2
<1>3. CASE \E p \in Proc :
             /\ pc[p] = "append"
             /\ rows' = Append(rows, job[p].row)
             /\ UNCHANGED readable
  <2>1. PICK p \in Proc : /\ pc[p] = "append"
                          /\ rows' = Append(rows, job[p].row)
                          /\ UNCHANGED readable
    BY <1>3
  <2>2. job[p].row \in Row
    BY <2>1 DEF HookInv, JobsKnown, Job
  <2>3. QED BY <1>1, <2>1, <2>2
<1>4. QED BY <1>2, <1>3 DEF LedgerStep

Recorded(row) == \E i \in 1..Len(rows) : rows[i] = row

\* Whoever is past the authority sink has its row in the ledger.
LedgerFirst ==
  /\ AnswersAudited
  /\ DerivedHasRow
  /\ readable => \A p \in Proc : pc[p] = "sinks" => Recorded(job[p].row)

LEMMA LedgerFirstNext == HookInv /\ LedgerFirst /\ [Next]_vars => LedgerFirst'
<1> SUFFICES ASSUME HookInv, LedgerFirst, [Next]_vars, readable'
             PROVE  LedgerFirst'
  BY DEF LedgerFirst, AnswersAudited, DerivedHasRow
<1>0. /\ readable
      /\ \A i \in 1..Len(rows) : i \in 1..Len(rows') /\ rows'[i] = rows[i]
  BY StepsAppend, RowsStay
<1>1. ASSUME UNCHANGED answers
      PROVE  AnswersAudited'
  BY <1>0, <1>1 DEF LedgerFirst, AnswersAudited
<1>2. ASSUME UNCHANGED derived
      PROVE  DerivedHasRow'
  BY <1>0, <1>2 DEF LedgerFirst, DerivedHasRow
<1>3. ASSUME NEW q \in Proc, pc'[q] = "sinks", pc[q] = "sinks", job'[q] = job[q]
      PROVE  Recorded(job[q].row)'
  BY <1>0, <1>3 DEF LedgerFirst, Recorded
<1>4. pc \in [Proc -> HookPc] /\ rows \in Seq(Row) /\ job \in [Proc -> Job \cup {NoJob}]
  BY DEF HookInv, TypeOK
<1>5. ASSUME NEW p \in Proc, pc'[p] # "sinks",
             \A q \in Proc : q # p => pc'[q] = pc[q] /\ job'[q] = job[q],
             UNCHANGED <<answers, derived>>
      PROVE  LedgerFirst'
  BY <1>1, <1>2, <1>3, <1>5 DEF LedgerFirst
<1>6. ASSUME NEW p \in Proc, NEW row, NEW s, NEW to \in {"append", "evaluate"},
             Start(p, row, s, to)
      PROVE  LedgerFirst'
  BY <1>4, <1>5, <1>6 DEF Start, Goto
<1>7. ASSUME NEW p \in Proc, EvaluateStop(p)
      PROVE  LedgerFirst'
  BY <1>4, <1>5, <1>7 DEF EvaluateStop, Goto
<1>8. ASSUME NEW p \in Proc, AppendRow(p)
      PROVE  LedgerFirst'
  <2>1. job[p].row \in Row
    BY <1>8 DEF AppendRow, HookInv, JobsKnown, Job
  <2>2. Len(rows') = Len(rows) + 1 /\ rows'[Len(rows) + 1] = job[p].row
    BY <1>4, <1>8, <2>1 DEF AppendRow
  <2>3. ASSUME NEW q \in Proc, pc'[q] = "sinks"
        PROVE  Recorded(job[q].row)'
    <3>1. CASE q = p
      <4>1. job' = job /\ Len(rows) + 1 \in 1..Len(rows')
        BY <1>4, <1>8, <2>2 DEF AppendRow
      <4>2. QED BY <3>1, <4>1, <2>2 DEF Recorded
    <3>2. CASE q # p
      BY <1>3, <1>4, <1>8, <2>3, <3>2 DEF AppendRow, Goto
    <3>3. QED BY <3>1, <3>2
  <2>4. QED BY <1>1, <1>2, <1>8, <2>3 DEF AppendRow, LedgerFirst
<1>9. ASSUME NEW p \in Proc, AppendToDamaged(p)
      PROVE  LedgerFirst'
  BY <1>0, <1>9 DEF AppendToDamaged
<1>10. ASSUME NEW p \in Proc, AppendRefused(p) \/ AppendFails(p) \/ Crash(p)
       PROVE  LedgerFirst'
  <2>1. Leave(p) /\ UNCHANGED <<answers, derived>>
    BY <1>10 DEF AppendRefused, AppendFails, Crash
  <2>2. QED BY <1>4, <1>5, <2>1 DEF Leave, Goto
<1>11. ASSUME NEW p \in Proc, ServeSink(p)
       PROVE  LedgerFirst'
  <2>1. PICK i \in 1..Len(rows) : rows[i] = job[p].row
    BY <1>0, <1>11 DEF ServeSink, LedgerFirst, Recorded
  <2>2. derived' = derived \/ derived' = derived \cup {Projection(p)}
    BY <1>11 DEF ServeSink
  <2>3. Projection(p).n = job[p].row.n
    BY DEF Projection
  <2>4. DerivedHasRow'
    BY <1>0, <2>1, <2>2, <2>3 DEF LedgerFirst, DerivedHasRow
  <2>5. UNCHANGED <<answers, pc, job>>
    BY <1>11 DEF ServeSink
  <2>6. QED BY <1>1, <1>3, <2>4, <2>5 DEF LedgerFirst
<1>12. ASSUME NEW p \in Proc, AnswerHost(p)
       PROVE  LedgerFirst'
  <2>1. PICK i \in 1..Len(rows) : rows[i] = job[p].row
    BY <1>0, <1>12 DEF AnswerHost, LedgerFirst, Recorded
  <2> DEFINE answer == [n |-> job[p].row.n, result |-> IF Blocked(p) THEN "block" ELSE "ok"]
  <2>2. answers' = answers \cup {answer} /\ Leave(p) /\ UNCHANGED derived
    BY <1>12 DEF AnswerHost
  <2>3. rows[i].n = answer.n /\ (rows[i].event = "stop_blocked" <=> answer.result = "block")
    BY <2>1 DEF Blocked
  <2> HIDE DEF answer
  <2>4. AnswersAudited'
    BY <1>0, <2>1, <2>2, <2>3 DEF LedgerFirst, AnswersAudited
  <2>5. \A q \in Proc : pc'[q] = "sinks" => pc[q] = "sinks" /\ job'[q] = job[q]
    BY <1>4, <2>2 DEF Leave, Goto
  <2>6. QED BY <1>2, <1>3, <2>2, <2>4, <2>5 DEF LedgerFirst
<1>13. CASE UNCHANGED vars
  BY <1>1, <1>2, <1>3, <1>13 DEF vars, LedgerFirst
<1>14. ASSUME NEW p \in Proc, UnknownCommand(p)
       PROVE  LedgerFirst'
  <2> DEFINE answer == [n |-> calls + 1, result |-> "unknown"]
  <2>1. answers' = answers \cup {answer} /\ UNCHANGED <<rows, derived, pc, job>>
    BY <1>14 DEF UnknownCommand
  <2>2. answer.result = "unknown"
    OBVIOUS
  <2> HIDE DEF answer
  <2>3. AnswersAudited'
    BY <1>0, <2>1, <2>2 DEF LedgerFirst, AnswersAudited
  <2>4. QED BY <1>2, <1>3, <2>1, <2>3 DEF LedgerFirst
<1>15. QED
  BY <1>6, <1>7, <1>8, <1>9, <1>10, <1>11, <1>12, <1>13, <1>14
     DEF Next, Exhausted, PostTool, Prompt, StopCheck

LEMMA LedgerFirstAlways == Spec => []LedgerFirst
<1>1. Init => HookInv /\ LedgerFirst
  <2>1. Init => LedgerFirst
    BY DEF Init, LedgerFirst, AnswersAudited, DerivedHasRow
  <2>2. QED BY <2>1, HookInvInit
<1>2. HookInv /\ LedgerFirst /\ [Next]_vars => (HookInv /\ LedgerFirst)'
  BY HookInvNext, LedgerFirstNext
<1>3. QED BY <1>1, <1>2, PTL DEF Spec

\* The host is told of nothing the ledger does not have, and of nothing else than
\* the ledger has.
THEOREM AnswersFollowLedger == Spec => []AnswersAudited
<1>1. LedgerFirst => AnswersAudited
  BY DEF LedgerFirst
<1>2. QED BY <1>1, LedgerFirstAlways, PTL

\* No derived sink is told of an event before the ledger is.
THEOREM DerivedFollowLedger == Spec => []DerivedHasRow
<1>1. LedgerFirst => DerivedHasRow
  BY DEF LedgerFirst
<1>2. QED BY <1>1, LedgerFirstAlways, PTL

-----------------------------------------------------------------------------
(* The stop gate *)

\* A non-empty set of positions has a last one.
LEMMA LastPosition ==
  ASSUME NEW n \in Nat, NEW S, S \subseteq 1..n, S # {}
  PROVE  LastIndex(S) \in S /\ \A j \in S : j <= LastIndex(S)
<1> DEFINE distance == {n - i : i \in S}
<1>1. distance \in SUBSET Nat /\ distance # {}
  <2>1. ASSUME NEW i \in S
        PROVE  n - i \in Nat
    OBVIOUS
  <2>2. QED BY <2>1
<1> DEFINE Less == OpToRel(<, Nat)
<1>2. \A x, y \in Nat : x < y => <<x, y>> \in Less
  BY DEF OpToRel
<1>3. IsWellFoundedOn(Less, Nat)
  BY NatLessThanWellFounded, Zenon
<1> HIDE DEF Less
<1>4. PICK d \in distance : \A e \in distance : ~(<<e, d>> \in Less)
  BY <1>1, <1>3, WFMin
<1>5. PICK i \in S : d = n - i
  BY <1>4
<1>6. ASSUME NEW j \in S
      PROVE  j <= i
  <2>1. n - j \in distance /\ ~(n - j < d)
    BY <1>1, <1>2, <1>4
  <2>2. QED BY <1>5, <2>1
<1>7. QED BY <1>6 DEF LastIndex

\* What evaluate_stop computes from the two last positions is what it is meant to.
LEMMA LastChangeDecides ==
  ASSUME HookInv
  PROVE  (LastPass(rows) < LastChange(rows)) <=> Untested
<1> DEFINE changes == {i \in 1..Len(rows) : SourceChange(rows[i])}
           passes == {i \in 1..Len(rows) : PassingTest(rows[i])}
<1>1. Len(rows) \in Nat
  BY DEF HookInv, TypeOK
<1>2. changes \subseteq 1..Len(rows) /\ passes \subseteq 1..Len(rows)
  OBVIOUS
<1>3. LastPass(rows) = LastIndex(passes) /\ LastChange(rows) = LastIndex(changes)
  BY DEF LastPass, LastChange
<1>4. changes = {} => LastIndex(changes) = 0
  BY DEF LastIndex
<1>5. passes = {} => LastIndex(passes) = 0
  BY DEF LastIndex
<1>6. changes # {} => /\ LastIndex(changes) \in changes
                      /\ \A j \in changes : j <= LastIndex(changes)
  BY <1>1, <1>2, LastPosition
<1>7. passes # {} => /\ LastIndex(passes) \in passes
                     /\ \A j \in passes : j <= LastIndex(passes)
  BY <1>1, <1>2, LastPosition
<1>8. Untested <=> \E i \in changes : \A j \in (i + 1)..Len(rows) : j \notin passes
  <2>1. ASSUME NEW i \in 1..Len(rows), NEW j \in (i + 1)..Len(rows)
        PROVE  j \in passes <=> PassingTest(rows[j])
    BY <1>1, <2>1
  <2>2. QED BY <2>1 DEF Untested
<1> HIDE DEF changes, passes
<1>9. Untested <=> \E i \in changes : \A j \in passes : j <= i
  BY <1>1, <1>2, <1>8
<1>10. CASE changes = {}
  <2>1. LastIndex(passes) = 0 \/ LastIndex(passes) \in 1..Len(rows)
    BY <1>2, <1>5, <1>7
  <2>2. QED BY <1>1, <1>3, <1>4, <1>9, <1>10, <2>1
<1>11. CASE changes # {} /\ passes = {}
  <2>1. LastIndex(changes) \in 1..Len(rows)
    BY <1>2, <1>6, <1>11
  <2>2. QED BY <1>3, <1>5, <1>9, <1>11, <2>1
<1>12. CASE changes # {} /\ passes # {}
  \* A row is not both a change and a passing test.
  <2>1. \A i \in changes : i \notin passes
    BY DEF changes, passes, SourceChange, PassingTest
  <2> DEFINE c == LastIndex(changes)
             t == LastIndex(passes)
  <2>2. c \in changes /\ t \in passes
    BY <1>6, <1>7, <1>12
  <2>5. c \in 1..Len(rows) /\ t \in 1..Len(rows) /\ c # t
    BY <1>2, <2>1, <2>2
  <2>3. (\E i \in changes : \A j \in passes : j <= i) <=> t <= c
    BY <1>1, <1>2, <1>6, <1>7, <1>12, <2>2, <2>5
  <2>4. QED BY <1>1, <1>3, <1>9, <2>5, <2>3
<1>13. QED BY <1>10, <1>11, <1>12

\* One row sets the flag, clears it, or leaves it.
LEMMA RowFlips ==
  ASSUME HookInv, NEW row \in Row, rows' = Append(rows, row)
  PROVE  /\ SourceChange(row) => Untested'
         /\ PassingTest(row) => ~Untested'
         /\ ~SourceChange(row) /\ ~PassingTest(row) => (Untested' <=> Untested)
<1> DEFINE n == Len(rows) + 1
<1>1. rows \in Seq(Row) /\ Len(rows) \in Nat
  BY DEF HookInv, TypeOK
<1>2. /\ Len(rows') = n /\ rows'[n] = row
      /\ \A i \in 1..Len(rows) : rows'[i] = rows[i]
  BY <1>1
<1>3. Untested' <=> \E i \in 1..n : /\ SourceChange(rows'[i])
                                    /\ \A j \in (i + 1)..n : ~PassingTest(rows'[j])
  BY <1>2 DEF Untested
<1>4. n \in 1..n /\ (n + 1)..n = {} /\ n \in Nat
  BY <1>1
<1>5. SourceChange(row) => Untested'
  BY <1>2, <1>3, <1>4
<1>6. PassingTest(row) => ~SourceChange(row)
  BY DEF SourceChange, PassingTest
<1>7. ASSUME PassingTest(row), Untested'
      PROVE  FALSE
  <2>1. PICK i \in 1..n : /\ SourceChange(rows'[i])
                          /\ \A j \in (i + 1)..n : ~PassingTest(rows'[j])
    BY <1>3, <1>7
  <2>2. i # n
    BY <1>2, <1>6, <1>7, <2>1
  <2>3. n \in (i + 1)..n
    BY <1>4, <2>2
  <2>4. QED BY <1>2, <1>7, <2>1, <2>3
<1>8. ASSUME ~SourceChange(row), ~PassingTest(row)
      PROVE  Untested' <=> Untested
  <2>1. ASSUME NEW i \in 1..Len(rows)
        PROVE  (\A j \in (i + 1)..n : ~PassingTest(rows'[j]))
                 <=> \A j \in (i + 1)..Len(rows) : ~PassingTest(rows[j])
    <3>1. \A j \in (i + 1)..n : j = n \/ j \in (i + 1)..Len(rows)
      BY <1>1
    <3>2. \A j \in (i + 1)..Len(rows) : j \in (i + 1)..n /\ rows'[j] = rows[j]
      BY <1>1, <1>2
    <3>3. QED BY <1>2, <1>8, <3>1, <3>2
  <2>2. \A i \in 1..n : i = n \/ i \in 1..Len(rows)
    BY <1>1
  <2>3. \A i \in 1..Len(rows) : i \in 1..n
    BY <1>1
  <2>4. QED BY <1>2, <1>3, <1>8, <2>1, <2>2, <2>3 DEF Untested
<1>9. QED BY <1>5, <1>7, <1>8

\* Every step is a step of the gate, or none.
LEMMA GateNext == HookInv /\ [Next]_vars => [Gate!Next]_<<Untested, told>>
<1> SUFFICES ASSUME HookInv, [Next]_vars
             PROVE  [Gate!Next]_<<Untested, told>>
  OBVIOUS
<1>1. ASSUME UNCHANGED <<rows, told>>
      PROVE  UNCHANGED <<Untested, told>>
  BY <1>1 DEF Untested
<1>2. ASSUME NEW p \in Proc, pc[p] = "append", rows' = Append(rows, job[p].row),
             UNCHANGED told
      PROVE  [Gate!Next]_<<Untested, told>>
  <2>1. job[p].row \in Row
    BY <1>2 DEF HookInv, JobsKnown, Job
  <2>2. Untested' \in BOOLEAN /\ Untested \in BOOLEAN
    BY Zenon DEF Untested
  <2>3. CASE SourceChange(job[p].row)
    <3>1. Untested'
      BY <1>2, <2>1, <2>3, RowFlips
    <3>2. Gate!RecordChange
      BY <1>2, <3>1, <2>2, Zenon DEF Gate!RecordChange
    <3>3. QED BY <3>2 DEF Gate!Next
  <2>4. CASE PassingTest(job[p].row)
    <3>1. ~Untested'
      BY <1>2, <2>1, <2>4, RowFlips
    <3>2. Gate!RecordPass
      BY <1>2, <3>1, <2>2, Zenon DEF Gate!RecordPass
    <3>3. QED BY <3>2 DEF Gate!Next
  <2>5. CASE ~SourceChange(job[p].row) /\ ~PassingTest(job[p].row)
    <3>1. Untested' <=> Untested
      BY <1>2, <2>1, <2>5, RowFlips
    <3>2. Untested' = Untested
      BY <2>2, <3>1, Zenon
    <3>3. QED BY <1>2, <3>2
  <2>6. QED BY <2>3, <2>4, <2>5
<1>3. ASSUME NEW p \in Proc, EvaluateStop(p)
      PROVE  Gate!Next
  <2> DEFINE n == job[p].row.n
             verdict == StopVerdict(streak[job[p].session] > 0)
  <2>1. n \in Number /\ \A t \in told : t.stop # n
    BY <1>3 DEF EvaluateStop, HookInv, JobsKnown, StopsKnown, Job, Row
  <2>2. told' = told \cup {[stop |-> n, verdict |-> verdict]} /\ UNCHANGED rows
    BY <1>3 DEF EvaluateStop
  <2>3. Untested' = Untested
    BY <2>2 DEF Untested
  <2>4. \/ verdict = "unchecked"
        \/ verdict = IF Untested THEN "block" ELSE "pass"
    BY LastChangeDecides DEF StopVerdict
  <2> HIDE DEF n, verdict
  <2>5. CASE verdict = "unchecked"
    BY <2>1, <2>2, <2>3, <2>5 DEF Gate!Next, Gate!WaveThrough, Gate!Tell
  <2>6. CASE verdict = IF Untested THEN "block" ELSE "pass"
    BY <2>1, <2>2, <2>3, <2>6 DEF Gate!Next, Gate!Evaluate, Gate!Tell
  <2>7. QED BY <2>4, <2>5, <2>6
<1>4. ASSUME NEW p \in Proc, AppendRow(p)
      PROVE  [Gate!Next]_<<Untested, told>>
  BY <1>2, <1>4 DEF AppendRow
<1>5. ASSUME NEW p \in Proc, AppendToDamaged(p)
      PROVE  [Gate!Next]_<<Untested, told>>
  BY <1>1, <1>2, <1>5 DEF AppendToDamaged
<1>6. ASSUME NEW p \in Proc, AppendFails(p) \/ Crash(p)
      PROVE  [Gate!Next]_<<Untested, told>>
  BY <1>1, <1>2, <1>6 DEF AppendFails, Crash, HalfAppend
<1>7. ASSUME NEW p \in Proc,
             AppendRefused(p) \/ ServeSink(p) \/ AnswerHost(p) \/ UnknownCommand(p)
      PROVE  UNCHANGED <<rows, told>>
  BY <1>7 DEF AppendRefused, ServeSink, AnswerHost, UnknownCommand
<1>8. ASSUME NEW p \in Proc, NEW row, NEW s, NEW to, Start(p, row, s, to)
      PROVE  UNCHANGED <<rows, told>>
  BY <1>8 DEF Start
<1>9. CASE UNCHANGED vars
  BY <1>1, <1>9 DEF vars
<1>10. QED
  BY <1>1, <1>3, <1>4, <1>5, <1>6, <1>7, <1>8, <1>9
     DEF Next, Exhausted, PostTool, Prompt, StopCheck

\* Whatever hooks run, fail and crash in between, a stop is blocked exactly when at
\* one moment of its evaluation a recorded source change had no recorded passing
\* test after it.
THEOREM StopGateImplemented == Spec => ImplementsStopGate
<1>1. Init => Gate!Init
  <2>1. Init => ~Untested /\ told = {}
    BY DEF Init, Untested
  <2>2. Untested \in BOOLEAN
    BY Zenon DEF Untested
  <2>3. QED BY <2>1, <2>2, Zenon DEF Gate!Init
<1>2. QED
  BY <1>1, HookInvInit, HookInvNext, GateNext, PTL DEF Spec, Gate!Spec, ImplementsStopGate
=============================================================================
