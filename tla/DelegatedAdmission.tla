------------------------- MODULE DelegatedAdmission -------------------------
(***************************************************************************)
(* The pretool-guard hook with an operator-attested authority source        *)
(* (corcept-runtime/src/delegation.rs, handle_hook in lib.rs).  Each call is *)
(* a process: it reads the signed snapshot once, archives it, evaluates the *)
(* delegation, reserves the invocation and the approval with exclusive file *)
(* creation, appends the signed decision row and answers.  Any step may     *)
(* fail, any process may die, the operator may replace the snapshot, and    *)
(* the same call may be made again.                                         *)
(*                                                                         *)
(* Which requests evaluate_delegation allows is the constant Grants; one    *)
(* append to the ledger is one step here (LedgerAppend has its inside), but *)
(* it may stop anywhere, and the next row runs into what it left unfinished.*)
(***************************************************************************)
EXTENDS Naturals, FiniteSets

CONSTANTS
  Proc,            \* hook processes that can run at the same time
  Invocation,      \* signed invocation ids
  Approval,        \* signed approval ids
  NoApproval,      \* the request presents no approval
  Snapshot,        \* snapshots that verify against the pinned key
  NoSnapshot,      \* the policy file is missing or does not verify
  Grants,          \* [snapshot, invocation, approval, level] that evaluation allows
  Base,            \* evaluate_pre_tool's verdict on each invocation's input
  MaxLevel,        \* authority.default_max_level
  L4NeedsApproval, \* authority.l4_requires_user_invocation
  Config,          \* how many CORCEPT_DELEGATION_* variables may be set
  Fault,           \* the faults that occur: a subset of {"crash", "io"}
  MaxCalls         \* bound: calls made in a behaviour

Decision == {"allow", "ask", "deny"}
Level == 0..4

ASSUME NoApprovalAssumption == NoApproval \notin Approval
ASSUME NoSnapshotAssumption == NoSnapshot \notin Snapshot
ASSUME GrantsAssumption ==
  Grants \subseteq [snapshot : Snapshot, invocation : Invocation,
                    approval : Approval \cup {NoApproval}, level : Level]
ASSUME BaseAssumption == Base \in [Invocation -> [decision : Decision, level : Level]]
ASSUME LevelAssumption == MaxLevel \in Level /\ L4NeedsApproval \in BOOLEAN
ASSUME ConfigAssumption == Config \subseteq {"full", "partial", "none"}
ASSUME CallsAssumption == MaxCalls \in Nat

VARIABLES
  config,    \* "full": all three are set; "partial": some; "none"
  policy,    \* the snapshot in the policy file
  archived,  \* snapshots in the archive directory
  consumed,  \* which call created each marker file; 0 while there is none
  rows,      \* allow rows on a line of their own in the ledger
  tail,      \* its last line, if it has no newline: a row or a cut one
  lost,      \* allow rows on lines that cannot be read
  torn,      \* some line cannot be read
  intact,    \* the history passes the signed append's check
  locked,    \* a dead process left append.lock behind
  pc,        \* where each process is
  call,      \* the call a process serves: its number, invocation and approval
  snap,      \* the snapshot the process read
  verdict,   \* the decision it is going to record and answer
  attempt,   \* 0 for the decision's own row, 1 and 2 for record_failure
  answers,   \* history: what the host was answered
  nextCall   \* the next call number

ledgerVars == <<rows, tail, lost, torn, intact, locked>>
procVars == <<pc, call, snap, verdict, attempt>>
vars == <<config, policy, archived, consumed, rows, tail, lost, torn, intact, locked, pc, call,
          snap, verdict, attempt, answers, nextCall>>

-----------------------------------------------------------------------------
\* A marker file's name is the digest of its kind and id, so kinds never collide.
Marker == ({"invocation"} \X Invocation) \cup ({"approval"} \X Approval)

InvocationMarker(c) == <<"invocation", c.invocation>>
ApprovalMarker(c) == <<"approval", c.approval>>

\* What an allow of this call consumes.
Markers(c) ==
  {InvocationMarker(c)} \cup
  (IF c.approval = NoApproval THEN {} ELSE {ApprovalMarker(c)})

Call == [number : 1..MaxCalls, invocation : Invocation,
         approval : Approval \cup {NoApproval}]
NoCall == [number |-> 0]

\* What rows say is kept of the rows that allow only.
Row == [decision : {"allow"}, call : Call, snapshot : Snapshot \cup {NoSnapshot}]
OtherRow == [decision |-> "other"]
CutRow == [decision |-> "cut"]
NoTail == [decision |-> "none"]
Answer == [call : Call, decision : Decision]

ProcPc == {"idle", "source", "archive", "decide", "invocation", "approval",
           "record", "answer"}

TypeOK ==
  /\ config \in {"full", "partial", "none"}
  /\ policy \in Snapshot \cup {NoSnapshot}
  /\ archived \subseteq Snapshot
  /\ consumed \in [Marker -> 0..MaxCalls]
  /\ rows \subseteq Row /\ lost \subseteq Row
  /\ tail \in Row \cup {OtherRow, CutRow, NoTail}
  /\ torn \in BOOLEAN
  /\ intact \in BOOLEAN
  /\ locked \in BOOLEAN
  /\ pc \in [Proc -> ProcPc]
  /\ call \in [Proc -> Call \cup {NoCall}]
  /\ snap \in [Proc -> Snapshot \cup {NoSnapshot}]
  /\ verdict \in [Proc -> Decision]
  /\ attempt \in [Proc -> 0..2]
  /\ answers \subseteq Answer
  /\ nextCall \in 1..(MaxCalls + 1)

Init ==
  /\ config \in Config
  /\ policy \in Snapshot \cup {NoSnapshot}
  /\ archived = {}
  /\ consumed = [m \in Marker |-> 0]
  /\ rows = {} /\ lost = {}
  /\ tail = NoTail
  /\ torn = FALSE
  /\ intact = TRUE
  /\ locked = FALSE
  /\ pc = [p \in Proc |-> "idle"]
  /\ call = [p \in Proc |-> NoCall]
  /\ snap = [p \in Proc |-> NoSnapshot]
  /\ verdict = [p \in Proc |-> "deny"]
  /\ attempt = [p \in Proc |-> 0]
  /\ answers = {}
  /\ nextCall = 1

Goto(p, to) == pc' = [pc EXCEPT ![p] = to]
Decided(p, d) == verdict' = [verdict EXCEPT ![p] = d]

\* The process is gone and its memory with it.
Exit(p) ==
  /\ Goto(p, "idle")
  /\ Decided(p, "deny")
  /\ call' = [call EXCEPT ![p] = NoCall]
  /\ snap' = [snap EXCEPT ![p] = NoSnapshot]
  /\ attempt' = [attempt EXCEPT ![p] = 0]

\* Mutant of Failed: the denial is recorded until it succeeds.
FailedAgain(p) ==
  /\ Decided(p, "deny")
  /\ snap' = [snap EXCEPT ![p] = NoSnapshot]
  /\ Goto(p, "record")
  /\ attempt' = [attempt EXCEPT ![p] = @ + 1]

\* An error on the way to a decision: handle_pretool records a denial; an error
\* in recording it makes handle_hook record one more, and after that a denial is
\* answered without any row.
Failed(p) ==
  /\ Decided(p, "deny")
  /\ snap' = [snap EXCEPT ![p] = NoSnapshot]
  /\ IF attempt[p] < 2
       THEN Goto(p, "record") /\ attempt' = [attempt EXCEPT ![p] = @ + 1]
       ELSE Goto(p, "answer") /\ UNCHANGED attempt

-----------------------------------------------------------------------------
(* The steps of one call *)

\* The host runs the hook.  With some of the variables missing from_env is an
\* error before any authority is looked at, and only handle_hook records it.
Begin(p, i, a) ==
  /\ pc[p] = "idle"
  /\ nextCall <= MaxCalls
  /\ nextCall' = nextCall + 1
  /\ call' = [call EXCEPT ![p] = [number |-> nextCall, invocation |-> i, approval |-> a]]
  /\ IF config = "partial"
       THEN Goto(p, "record") /\ attempt' = [attempt EXCEPT ![p] = 2]
       ELSE Goto(p, "source") /\ UNCHANGED attempt
  /\ UNCHANGED <<config, policy, archived, consumed, ledgerVars, snap, verdict, answers>>

\* No authority source: the base guard decides alone, unless the payload asks
\* for delegation, which denies.
DecideAlone(p, delegated) ==
  /\ pc[p] = "source"
  /\ config = "none"
  /\ Decided(p, IF delegated THEN "deny" ELSE Base[call[p].invocation].decision)
  /\ Goto(p, "record")
  /\ UNCHANGED <<config, policy, archived, consumed, ledgerVars, call, snap, attempt,
                 answers, nextCall>>

\* The policy file is read once; everything after uses these bytes.
ReadSnapshot(p) ==
  /\ pc[p] = "source"
  /\ config = "full"
  /\ policy # NoSnapshot
  /\ snap' = [snap EXCEPT ![p] = policy]
  /\ Goto(p, "archive")
  /\ UNCHANGED <<config, policy, archived, consumed, ledgerVars, call, verdict,
                 attempt, answers, nextCall>>

SourceUnavailable(p) ==
  /\ pc[p] = "source"
  /\ config = "full"
  /\ policy = NoSnapshot
  /\ Failed(p)
  /\ UNCHANGED <<config, policy, archived, consumed, ledgerVars, call, answers, nextCall>>

\* A hard link publishes the complete copy; an equal one already there will do.
Archive(p) ==
  /\ pc[p] = "archive"
  /\ archived' = archived \cup {snap[p]}
  /\ Goto(p, "decide")
  /\ UNCHANGED <<config, policy, consumed, ledgerVars, call, snap, verdict, attempt,
                 answers, nextCall>>

\* The grant evaluate_delegation finds, the three authority checks of the
\* runtime, and the base guard: its deny is final and only an approval resolves
\* its ask.
Admits(c, s) ==
  \E g \in Grants :
    /\ g.snapshot = s /\ g.invocation = c.invocation /\ g.approval = c.approval
    /\ Base[c.invocation].level <= g.level
    /\ g.level <= MaxLevel
    /\ (g.level = 4 /\ L4NeedsApproval) => c.approval # NoApproval
    /\ \/ Base[c.invocation].decision = "allow"
       \/ Base[c.invocation].decision = "ask" /\ c.approval # NoApproval

\* Mutant of Decide: the policy file is read again for the evaluation.
DecideOnCurrent(p, timely) ==
  LET admitted == timely /\ Admits(call[p], policy)
  IN /\ pc[p] = "decide"
     /\ Decided(p, IF admitted THEN "allow" ELSE "deny")
     /\ Goto(p, IF admitted THEN "invocation" ELSE "record")
     /\ UNCHANGED <<config, policy, archived, consumed, ledgerVars, call, snap,
                    attempt, answers, nextCall>>

\* timely: the clock is inside every validity interval that is checked.
Decide(p, timely) ==
  LET admitted == timely /\ Admits(call[p], snap[p])
  IN /\ pc[p] = "decide"
     /\ Decided(p, IF admitted THEN "allow" ELSE "deny")
     /\ Goto(p, IF admitted THEN "invocation" ELSE "record")
     /\ UNCHANGED <<config, policy, archived, consumed, ledgerVars, call, snap,
                    attempt, answers, nextCall>>

\* Mutant of Reserve: an existing marker file is opened and written again.
ReserveAgain(p, m) == consumed' = [consumed EXCEPT ![m] = call[p].number]

\* reserve_once creates the marker exclusively: of all calls, one succeeds.
Reserve(p, m) ==
  /\ consumed[m] = 0
  /\ consumed' = [consumed EXCEPT ![m] = call[p].number]

ReserveInvocation(p) ==
  /\ pc[p] = "invocation"
  /\ Reserve(p, InvocationMarker(call[p]))
  /\ Goto(p, IF call[p].approval = NoApproval THEN "record" ELSE "approval")
  /\ UNCHANGED <<config, policy, archived, ledgerVars, call, snap, verdict, attempt,
                 answers, nextCall>>

ReserveApproval(p) ==
  /\ pc[p] = "approval"
  /\ Reserve(p, ApprovalMarker(call[p]))
  /\ Goto(p, "record")
  /\ UNCHANGED <<config, policy, archived, ledgerVars, call, snap, verdict, attempt,
                 answers, nextCall>>

MarkerWanted(p) ==
  IF pc[p] = "invocation" THEN InvocationMarker(call[p]) ELSE ApprovalMarker(call[p])

\* The marker is there already: the decision becomes a denial.
AlreadyConsumed(p) ==
  /\ pc[p] \in {"invocation", "approval"}
  /\ consumed[MarkerWanted(p)] # 0
  /\ Decided(p, "deny")
  /\ Goto(p, "record")
  /\ UNCHANGED <<config, policy, archived, consumed, ledgerVars, call, snap, attempt,
                 answers, nextCall>>

\* Only what delegation variables ask for has to be signed.
Signed == config # "none"

RowOf(p) ==
  IF verdict[p] = "allow" THEN [decision |-> "allow", call |-> call[p], snapshot |-> snap[p]]
  ELSE OtherRow

\* A signed append verifies the history first: every line has to be a row, and
\* last_hash agree with the last one.  A last row without its newline will do.
Appendable == ~locked /\ (Signed => intact /\ ~torn)

\* A text that is left without a newline, and a row with its own.  Behind an
\* unfinished line neither can be read, nor can what the line held.
PutText(text) ==
  /\ tail' = IF tail = NoTail THEN text ELSE CutRow
  /\ lost' = IF tail = NoTail THEN lost ELSE lost \cup ({tail, text} \cap Row)
  /\ torn' = (torn \/ tail # NoTail \/ text = CutRow)
  /\ UNCHANGED rows

PutRow(row) ==
  /\ rows' = IF tail = NoTail THEN rows \cup ({row} \cap Row) ELSE rows
  /\ lost' = IF tail = NoTail THEN lost ELSE lost \cup ({tail, row} \cap Row)
  /\ torn' = (torn \/ tail # NoTail)
  /\ tail' = NoTail

\* The append returns Ok, wherever the row went; the derived sinks after it are best
\* effort.
Record(p) ==
  /\ pc[p] = "record"
  /\ Appendable
  /\ PutRow(RowOf(p))
  /\ Goto(p, "answer")
  /\ UNCHANGED <<config, policy, archived, consumed, intact, locked, call, snap,
                 verdict, attempt, answers, nextCall>>

\* Mutant of RecordRefused: an unrecorded decision is answered.
AnswerUnrecorded(p) ==
  /\ pc[p] = "record"
  /\ Goto(p, "answer")
  /\ UNCHANGED <<config, policy, archived, consumed, ledgerVars, call, snap, verdict,
                 attempt, answers, nextCall>>

\* The append returns an error and has written nothing: the lock was held for
\* five seconds, by a live process or a dead one, or the history is refused.
RecordRefused(p) ==
  /\ pc[p] = "record"
  /\ Failed(p)
  /\ UNCHANGED <<config, policy, archived, consumed, ledgerVars, call, answers, nextCall>>

\* The host reads the decision from the process's output.
AnswerHost(p) ==
  /\ pc[p] = "answer"
  /\ answers' = answers \cup {[call |-> call[p], decision |-> verdict[p]]}
  /\ Exit(p)
  /\ UNCHANGED <<config, policy, archived, consumed, ledgerVars, nextCall>>

-----------------------------------------------------------------------------
(* The operator, and faults *)

\* The operator installs another snapshot, or removes the file.
Publish(s) ==
  /\ policy # s
  /\ policy' = s
  /\ UNCHANGED <<config, archived, consumed, ledgerVars, procVars, answers, nextCall>>

\* The archive cannot be written, or its directory not synced after the link.
ArchiveFails(p) ==
  /\ "io" \in Fault
  /\ pc[p] = "archive"
  /\ archived' \in {archived, archived \cup {snap[p]}}
  /\ Failed(p)
  /\ UNCHANGED <<config, policy, consumed, ledgerVars, call, answers, nextCall>>

\* A marker cannot be created, or its contents or directory not synced: a marker
\* that was created stays.
ReserveFails(p) ==
  /\ "io" \in Fault
  /\ pc[p] \in {"invocation", "approval"}
  /\ \/ UNCHANGED consumed
     \/ Reserve(p, MarkerWanted(p))
  /\ Decided(p, "deny")
  /\ Goto(p, "record")
  /\ UNCHANGED <<config, policy, archived, ledgerVars, call, snap, attempt, answers,
                 nextCall>>

\* What an append that stops half way leaves: nothing, a cut row, a row without its
\* newline or the row, and a last_hash that agrees with the tip or not.
HalfAppend(p) ==
  /\ Appendable
  /\ \/ UNCHANGED <<rows, tail, lost, torn>>
     \/ PutText(CutRow) \/ PutText(RowOf(p)) \/ PutRow(RowOf(p))
  /\ intact' \in {intact, FALSE}

RecordFails(p) ==
  /\ "io" \in Fault
  /\ pc[p] = "record"
  /\ HalfAppend(p)
  /\ Failed(p)
  /\ UNCHANGED <<config, policy, archived, consumed, locked, call, answers, nextCall>>

\* The process dies between two steps, or inside the append with the lock held.
Crash(p) ==
  /\ "crash" \in Fault
  /\ pc[p] # "idle"
  /\ \/ UNCHANGED ledgerVars
     \/ pc[p] = "record" /\ HalfAppend(p) /\ locked' = TRUE
  /\ Exit(p)
  /\ UNCHANGED <<config, policy, archived, consumed, answers, nextCall>>

OperatorUnlock ==
  /\ locked
  /\ locked' = FALSE
  /\ UNCHANGED <<config, policy, archived, consumed, rows, tail, lost, torn, intact, procVars,
                 answers, nextCall>>

-----------------------------------------------------------------------------
CallStep(p) ==
  \/ \E delegated \in BOOLEAN : DecideAlone(p, delegated)
  \/ ReadSnapshot(p) \/ SourceUnavailable(p) \/ Archive(p)
  \/ \E timely \in BOOLEAN : Decide(p, timely)
  \/ ReserveInvocation(p) \/ ReserveApproval(p) \/ AlreadyConsumed(p)
  \/ Record(p) \/ RecordRefused(p) \/ AnswerHost(p)

FaultStep(p) == ArchiveFails(p) \/ ReserveFails(p) \/ RecordFails(p) \/ Crash(p)

\* The bound is used up and every call has ended.
Exhausted ==
  /\ nextCall > MaxCalls
  /\ \A p \in Proc : pc[p] = "idle"
  /\ UNCHANGED vars

Next ==
  \/ \E p \in Proc, i \in Invocation, a \in Approval \cup {NoApproval} : Begin(p, i, a)
  \/ \E p \in Proc : CallStep(p) \/ FaultStep(p)
  \/ \E s \in Snapshot \cup {NoSnapshot} : Publish(s)
  \/ OperatorUnlock
  \/ Exhausted

Spec == Init /\ [][Next]_vars

-----------------------------------------------------------------------------
(* Properties *)

Allows == {x \in answers : x.decision = "allow"}

\* Every allow row whose text is in the ledger, on a line of its own or not.
Texts == rows \cup lost \cup ({tail} \cap Row)

\* Whatever is retried, run at the same time, crashed or republished, no two
\* calls are allowed on the same signed invocation or on the same approval.
GrantOnce ==
  config = "full" =>
    \A x, y \in Allows :
      x.call.number # y.call.number => Markers(x.call) \cap Markers(y.call) = {}

\* The host is told allow only after the text of the row that says so is in the
\* ledger; while the ledger can be read at all, on a line that can be read.  (Behind
\* an unfinished line the append succeeds too: the row is there and the ledger does
\* not verify any more.)
AllowAudited ==
  \A x \in Allows :
    \E r \in Texts :
      /\ r.call = x.call
      /\ torn \/ r \in rows \/ r = tail

\* Every allow row, answered or not, can be traced: the snapshot it names is in
\* the archive and admits the call, and the call itself consumed its ids.
AllowReconstructable ==
  config = "full" =>
    \A r \in Texts :
      /\ r.snapshot \in archived
      /\ Admits(r.call, r.snapshot)
      /\ \A m \in Markers(r.call) : consumed[m] = r.call.number

\* Nothing is spent, and no allow is paid for, unless delegation is configured.
SpentIds == {m \in Marker : config = "full" /\ consumed[m] # 0}
GrantedIds == {Markers(x.call) : x \in {y \in Allows : config = "full"}}

Once == INSTANCE SingleUse WITH Id <- Marker, spent <- SpentIds, granted <- GrantedIds

\* Where delegation is configured identifiers are used as SingleUse prescribes, in
\* every interleaving of the two reservations, the row and the answer of calls
\* that share an id.
ImplementsSingleUse == Once!Spec
=============================================================================
