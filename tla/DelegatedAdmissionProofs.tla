---------------------- MODULE DelegatedAdmissionProofs ----------------------
(***************************************************************************)
(* Theorems about DelegatedAdmission for any number of processes, calls,    *)
(* ids, snapshots and grants, whatever crashes and fails: types, that an    *)
(* allow is audited and can be traced, and that ids are used once.          *)
(***************************************************************************)
EXTENDS DelegatedAdmission, TLAPS

USE DEF ProcPc, Decision

-----------------------------------------------------------------------------
(* Types *)

\* A process that serves a call knows which, and has read a snapshot when it
\* gets to archive it; only a call with an approval reserves one.
CallsKnown ==
  \A p \in Proc :
    /\ pc[p] # "idle" => call[p] \in Call
    /\ pc[p] \in {"archive", "decide", "invocation", "approval"} => snap[p] \in Snapshot
    /\ pc[p] = "approval" => call[p].approval # NoApproval

\* A row on a line that cannot be read shows when the ledger is read.
LostShows == \A r \in lost : torn

TypeInv == TypeOK /\ CallsKnown /\ LostShows

LEMMA MarkersOfCall ==
  ASSUME NEW c \in Call
  PROVE  /\ InvocationMarker(c) \in Marker
         /\ c.approval # NoApproval => ApprovalMarker(c) \in Marker
         /\ Markers(c) \subseteq Marker
BY DEF Call, Marker, Markers, InvocationMarker, ApprovalMarker

LEMMA FailedTypes ==
  ASSUME TypeInv, NEW p \in Proc, Failed(p)
  PROVE  /\ verdict' \in [Proc -> Decision]
         /\ snap' \in [Proc -> Snapshot \cup {NoSnapshot}]
         /\ pc' \in [Proc -> ProcPc]
         /\ attempt' \in [Proc -> 0..2]
BY DEF TypeInv, TypeOK, Failed, Decided, Goto

LEMMA ReserveTypes ==
  ASSUME TypeInv, NEW p \in Proc, pc[p] # "idle", NEW m, Reserve(p, m)
  PROVE  consumed' \in [Marker -> 0..MaxCalls]
<1>1. call[p].number \in 0..MaxCalls
  BY CallsAssumption DEF TypeInv, CallsKnown, Call
<1>2. QED BY <1>1 DEF TypeInv, TypeOK, Reserve

LEMMA TextTypes ==
  ASSUME TypeInv, NEW p \in Proc, pc[p] # "idle"
  PROVE  RowOf(p) \in Row \cup {OtherRow}
BY DEF TypeInv, TypeOK, CallsKnown, RowOf, Row

\* What writing a text, or a row with its newline, does to the ledger: texts stay,
\* only the written one comes, and rows on unreadable lines show.
LEMMA LedgerTypes ==
  ASSUME TypeInv, NEW t \in Row \cup {OtherRow, CutRow},
         PutText(t) \/ (PutRow(t) /\ t # CutRow)
  PROVE  /\ rows' \subseteq Row /\ lost' \subseteq Row /\ torn' \in BOOLEAN
         /\ tail' \in Row \cup {OtherRow, CutRow, NoTail}
         /\ Texts \subseteq Texts' /\ Texts' \subseteq Texts \cup ({t} \cap Row)
         /\ t \in Row => t \in Texts'
         /\ LostShows'
<1>1. /\ rows \subseteq Row /\ lost \subseteq Row /\ torn \in BOOLEAN
      /\ tail \in Row \cup {OtherRow, CutRow, NoTail}
  BY DEF TypeInv, TypeOK
<1>2. OtherRow \notin Row /\ CutRow \notin Row /\ NoTail \notin Row
  BY DEF Row, OtherRow, CutRow, NoTail
<1>3. CASE PutText(t)
  BY <1>1, <1>2, <1>3 DEF PutText, Texts, TypeInv, LostShows
<1>4. CASE PutRow(t)
  BY <1>1, <1>2, <1>4 DEF PutRow, Texts, TypeInv, LostShows
<1>5. QED BY <1>3, <1>4

\* Every step keeps the types: no error path counts past the second denial row.
THEOREM AdmissionTypes == Spec => []TypeOK /\ []CallsKnown /\ []LostShows
<1>1. Init => TypeInv
  <2> SUFFICES ASSUME Init PROVE TypeInv
    OBVIOUS
  <2>1. config \in {"full", "partial", "none"}
    BY ConfigAssumption DEF Init
  <2>2. consumed \in [Marker -> 0..MaxCalls] /\ nextCall \in 1..(MaxCalls + 1)
    BY CallsAssumption DEF Init
  <2>3. pc \in [Proc -> ProcPc] /\ call \in [Proc -> Call \cup {NoCall}]
    BY DEF Init
  <2>4. verdict \in [Proc -> Decision] /\ attempt \in [Proc -> 0..2]
    BY DEF Init
  <2>5. CallsKnown
    BY DEF Init, CallsKnown
  <2>6. QED BY <2>1, <2>2, <2>3, <2>4, <2>5 DEF Init, TypeInv, TypeOK, LostShows, Row
<1>2. TypeInv /\ [Next]_vars => TypeInv'
  <2> SUFFICES ASSUME TypeInv, [Next]_vars
               PROVE  TypeInv'
    OBVIOUS
  <2> USE DEF TypeInv, CallsKnown, LostShows, Goto, Decided, ledgerVars, procVars
  <2>1. ASSUME NEW p \in Proc, NEW i \in Invocation, NEW a \in Approval \cup {NoApproval},
               Begin(p, i, a)
        PROVE  TypeInv'
    <3>1. nextCall \in 1..MaxCalls /\ nextCall' \in 1..(MaxCalls + 1)
      BY <2>1, CallsAssumption DEF TypeOK, Begin
    <3>2. [number |-> nextCall, invocation |-> i, approval |-> a] \in Call
      BY <3>1 DEF Call
    <3>3. call' \in [Proc -> Call \cup {NoCall}] /\ CallsKnown'
      BY <2>1, <3>2 DEF TypeOK, Begin
    <3>4. pc' \in [Proc -> ProcPc] /\ attempt' \in [Proc -> 0..2]
      BY <2>1 DEF TypeOK, Begin
    <3>5. QED BY <2>1, <3>1, <3>3, <3>4 DEF TypeOK, Begin
  <2>2. ASSUME NEW p \in Proc, CallStep(p)
        PROVE  TypeInv'
    <3>1. ASSUME NEW delegated \in BOOLEAN, DecideAlone(p, delegated)
          PROVE  TypeInv'
      <4>1. Base[call[p].invocation].decision \in Decision
        BY <3>1, BaseAssumption DEF DecideAlone, Call
      <4>2. QED BY <3>1, <4>1 DEF TypeOK, DecideAlone
    <3>2. CASE ReadSnapshot(p)
      BY <3>2 DEF TypeOK, ReadSnapshot
    <3>3. CASE SourceUnavailable(p)
      BY <3>3, FailedTypes DEF TypeOK, SourceUnavailable, Failed
    <3>4. CASE Archive(p)
      BY <3>4 DEF TypeOK, Archive
    <3>5. ASSUME NEW timely \in BOOLEAN, Decide(p, timely)
          PROVE  TypeInv'
      BY <3>5 DEF TypeOK, Decide
    <3>6. CASE ReserveInvocation(p)
      <4>1. consumed' \in [Marker -> 0..MaxCalls]
        BY <3>6, ReserveTypes DEF ReserveInvocation
      <4>2. QED BY <3>6, <4>1 DEF TypeOK, ReserveInvocation
    <3>7. CASE ReserveApproval(p)
      <4>1. consumed' \in [Marker -> 0..MaxCalls]
        BY <3>7, ReserveTypes DEF ReserveApproval
      <4>2. QED BY <3>7, <4>1 DEF TypeOK, ReserveApproval
    <3>8. CASE AlreadyConsumed(p)
      BY <3>8 DEF TypeOK, AlreadyConsumed
    <3>9. CASE Record(p)
      <4>1. RowOf(p) \in Row \cup {OtherRow} /\ PutRow(RowOf(p)) /\ RowOf(p) # CutRow
        BY <3>9, TextTypes DEF Record, RowOf, OtherRow, CutRow
      <4>2. /\ rows' \subseteq Row /\ lost' \subseteq Row /\ torn' \in BOOLEAN
            /\ tail' \in Row \cup {OtherRow, CutRow, NoTail}
            /\ LostShows'
        BY <4>1, LedgerTypes
      <4>3. QED BY <3>9, <4>2 DEF TypeOK, Record
    <3>10. CASE RecordRefused(p)
      BY <3>10, FailedTypes DEF TypeOK, RecordRefused, Failed
    <3>11. CASE AnswerHost(p)
      <4>1. [call |-> call[p], decision |-> verdict[p]] \in Answer
        BY <3>11 DEF TypeOK, AnswerHost, Answer
      <4>2. QED BY <3>11, <4>1 DEF TypeOK, AnswerHost, Exit
    <3>12. QED
      BY <2>2, <3>1, <3>2, <3>3, <3>4, <3>5, <3>6, <3>7, <3>8, <3>9, <3>10, <3>11
         DEF CallStep
  <2>3. ASSUME NEW p \in Proc, FaultStep(p)
        PROVE  TypeInv'
    <3>1. CASE ArchiveFails(p)
      BY <3>1, FailedTypes DEF TypeOK, ArchiveFails, Failed
    <3>2. CASE ReserveFails(p)
      <4>1. consumed' \in [Marker -> 0..MaxCalls]
        BY <3>2, ReserveTypes DEF TypeOK, ReserveFails
      <4>2. QED BY <3>2, <4>1 DEF TypeOK, ReserveFails
    <3>3. ASSUME pc[p] # "idle", HalfAppend(p)
          PROVE  /\ rows' \subseteq Row /\ lost' \subseteq Row /\ torn' \in BOOLEAN
                 /\ tail' \in Row \cup {OtherRow, CutRow, NoTail}
                 /\ intact' \in BOOLEAN
                 /\ LostShows'
      <4>1. RowOf(p) \in Row \cup {OtherRow} /\ RowOf(p) # CutRow
        BY <3>3, TextTypes DEF RowOf, OtherRow, CutRow
      <4>2. intact' \in BOOLEAN
        BY <3>3 DEF TypeOK, HalfAppend
      <4>3. CASE UNCHANGED <<rows, tail, lost, torn>>
        BY <4>2, <4>3 DEF TypeOK
      <4>4. CASE PutText(CutRow) \/ PutText(RowOf(p)) \/ PutRow(RowOf(p))
        BY <4>1, <4>2, <4>4, LedgerTypes
      <4>5. QED BY <3>3, <4>3, <4>4 DEF HalfAppend
    <3>4. CASE RecordFails(p)
      <4>1. /\ rows' \subseteq Row /\ lost' \subseteq Row /\ torn' \in BOOLEAN
            /\ tail' \in Row \cup {OtherRow, CutRow, NoTail}
            /\ intact' \in BOOLEAN /\ LostShows'
        BY <3>3, <3>4 DEF RecordFails
      <4>2. QED BY <3>4, <4>1, FailedTypes DEF TypeOK, RecordFails, Failed
    <3>5. CASE Crash(p)
      <4>1. /\ rows' \subseteq Row /\ lost' \subseteq Row /\ torn' \in BOOLEAN
            /\ tail' \in Row \cup {OtherRow, CutRow, NoTail}
            /\ intact' \in BOOLEAN /\ LostShows' /\ locked' \in BOOLEAN
        <5>1. CASE UNCHANGED ledgerVars
          BY <5>1 DEF TypeOK
        <5>2. CASE pc[p] = "record" /\ HalfAppend(p) /\ locked' = TRUE
          BY <3>3, <5>2
        <5>3. QED BY <3>5, <5>1, <5>2 DEF Crash
      <4>2. QED BY <3>5, <4>1 DEF TypeOK, Crash, Exit
    <3>6. QED BY <2>3, <3>1, <3>2, <3>4, <3>5 DEF FaultStep
  <2>4. ASSUME NEW s \in Snapshot \cup {NoSnapshot}, Publish(s)
        PROVE  TypeInv'
    BY <2>4 DEF TypeOK, Publish
  <2>5. CASE OperatorUnlock
    BY <2>5 DEF TypeOK, OperatorUnlock
  <2>6. CASE UNCHANGED vars
    BY <2>6 DEF TypeOK, vars
  <2>7. QED BY <2>1, <2>2, <2>3, <2>4, <2>5, <2>6 DEF Next, Exhausted
<1>3. TypeInv => TypeOK /\ CallsKnown /\ LostShows
  BY DEF TypeInv
<1>4. QED BY <1>1, <1>2, <1>3, PTL DEF Spec

-----------------------------------------------------------------------------
(* Ids are used once. *)

OwnsMarkers(c) == \A m \in Markers(c) : consumed[m] = c.number

\* Under a full configuration a decision to allow exists only together with the
\* call's own markers: in the process, in the ledger and at the host.
ProcOwns(p) ==
  /\ pc[p] = "approval" => consumed[InvocationMarker(call[p])] = call[p].number
  /\ pc[p] \in {"record", "answer"} /\ verdict[p] = "allow" => OwnsMarkers(call[p])

Owned ==
  config = "full" =>
    /\ \A p \in Proc : ProcOwns(p)
    /\ \A x \in answers : x.decision = "allow" => OwnsMarkers(x.call)
    /\ \A r \in Texts : OwnsMarkers(r.call)

\* No step unlinks or rewrites a marker.
LEMMA MarkersStay ==
  ASSUME TypeInv, [Next]_vars
  PROVE  /\ config' = config
         /\ \A m \in Marker : consumed[m] # 0 => consumed'[m] = consumed[m]
<1> USE DEF TypeInv
<1>1. ASSUME NEW p \in Proc, NEW m, Reserve(p, m)
      PROVE  \A n \in Marker : consumed[n] # 0 => consumed'[n] = consumed[n]
  BY <1>1 DEF TypeOK, Reserve
<1>2. ASSUME NEW p \in Proc, CallStep(p)
      PROVE  /\ config' = config
             /\ \A m \in Marker : consumed[m] # 0 => consumed'[m] = consumed[m]
  BY <1>1, <1>2 DEF CallStep, DecideAlone, ReadSnapshot, SourceUnavailable, Archive, Decide,
     ReserveInvocation, ReserveApproval, AlreadyConsumed, Record, RecordRefused, AnswerHost
<1>3. ASSUME NEW p \in Proc, FaultStep(p)
      PROVE  /\ config' = config
             /\ \A m \in Marker : consumed[m] # 0 => consumed'[m] = consumed[m]
  BY <1>1, <1>3 DEF FaultStep, ArchiveFails, ReserveFails, RecordFails, Crash
<1>4. QED
  BY <1>2, <1>3 DEF Next, Begin, Publish, OperatorUnlock, Exhausted, vars

LEMMA OwnedKept ==
  ASSUME TypeInv, [Next]_vars, NEW c \in Call
  PROVE  /\ OwnsMarkers(c) => OwnsMarkers(c)'
         /\ consumed[InvocationMarker(c)] = c.number
              => consumed'[InvocationMarker(c)] = c.number
<1>1. c.number # 0
  BY CallsAssumption DEF Call
<1>2. QED BY <1>1, MarkersStay, MarkersOfCall DEF OwnsMarkers

\* A process that leaves its decision alone, or gives it up, still owns it.
LEMMA ProcOwnsKept ==
  ASSUME TypeInv, [Next]_vars, NEW p \in Proc, ProcOwns(p),
         \/ UNCHANGED <<pc[p], call[p], verdict[p]>>
         \/ pc'[p] \notin {"approval", "record", "answer"}
         \/ pc'[p] \in {"record", "answer"} /\ verdict'[p] # "allow"
         \/ /\ pc[p] = "record" /\ pc'[p] = "answer"
            /\ UNCHANGED <<call[p], verdict[p]>>
  PROVE  ProcOwns(p)'
<1>1. CASE UNCHANGED <<pc[p], call[p], verdict[p]>>
  BY <1>1, OwnedKept DEF ProcOwns, OwnsMarkers, TypeInv, CallsKnown
<1>2. CASE \/ pc'[p] \notin {"approval", "record", "answer"}
           \/ pc'[p] \in {"record", "answer"} /\ verdict'[p] # "allow"
  BY <1>2 DEF ProcOwns
<1>3. CASE pc[p] = "record" /\ pc'[p] = "answer" /\ UNCHANGED <<call[p], verdict[p]>>
  BY <1>3, OwnedKept DEF ProcOwns, OwnsMarkers, TypeInv, CallsKnown
<1>4. QED BY <1>1, <1>2, <1>3

\* What an append, whole or not, does to the texts.
LEMMA AppendGrows ==
  ASSUME TypeInv, NEW p \in Proc, pc[p] = "record",
         \/ UNCHANGED <<rows, tail, lost, torn>>
         \/ PutText(CutRow) \/ PutText(RowOf(p)) \/ PutRow(RowOf(p))
  PROVE  /\ Texts \subseteq Texts'
         /\ \A r \in Texts' : r \in Texts \/ (r = RowOf(p) /\ verdict[p] = "allow")
         /\ PutRow(RowOf(p)) /\ verdict[p] = "allow" => RowOf(p) \in Texts'
<1>1. RowOf(p) \in Row \cup {OtherRow} /\ RowOf(p) # CutRow
  BY TextTypes DEF RowOf, OtherRow, CutRow
<1>2. (RowOf(p) \in Row <=> verdict[p] = "allow") /\ CutRow \notin Row
  BY <1>1 DEF RowOf, Row, OtherRow, CutRow
<1>3. CASE UNCHANGED <<rows, tail, lost, torn>> /\ ~PutRow(RowOf(p))
  BY <1>3 DEF Texts
<1>4. CASE PutText(CutRow)
  <2>1. Texts \subseteq Texts' /\ Texts' \subseteq Texts \cup ({CutRow} \cap Row)
    BY <1>4, LedgerTypes DEF TypeInv
  <2>2. PutRow(RowOf(p)) /\ verdict[p] = "allow" => RowOf(p) \in Texts'
    BY <1>1, <1>2, LedgerTypes DEF TypeInv
  <2>3. QED BY <1>2, <2>1, <2>2
<1>5. CASE PutText(RowOf(p)) \/ PutRow(RowOf(p))
  <2>1. /\ Texts \subseteq Texts' /\ Texts' \subseteq Texts \cup ({RowOf(p)} \cap Row)
        /\ RowOf(p) \in Row => RowOf(p) \in Texts'
    BY <1>1, <1>5, LedgerTypes DEF TypeInv
  <2>2. QED BY <1>2, <2>1
<1>6. QED BY <1>3, <1>4, <1>5

\* What a step may add to the answers and the texts: the acting process's own.
LEMMA HistoryGrows ==
  ASSUME TypeInv, [Next]_vars
  PROVE  /\ \A x \in answers' : \/ x \in answers
                               \/ \E p \in Proc : /\ pc[p] = "answer"
                                                 /\ x = [call |-> call[p], decision |-> verdict[p]]
         /\ \A r \in Texts' : \/ r \in Texts
                             \/ \E p \in Proc : /\ pc[p] = "record" /\ verdict[p] = "allow"
                                               /\ r = RowOf(p)
         /\ Texts \subseteq Texts'
<1> DEFINE Answers == \A x \in answers' :
                        \/ x \in answers
                        \/ \E p \in Proc : /\ pc[p] = "answer"
                                          /\ x = [call |-> call[p], decision |-> verdict[p]]
           Rows == /\ \A r \in Texts' : \/ r \in Texts
                                       \/ \E p \in Proc : /\ pc[p] = "record"
                                                         /\ verdict[p] = "allow"
                                                         /\ r = RowOf(p)
                   /\ Texts \subseteq Texts'
<1>1. ASSUME UNCHANGED <<rows, tail, lost, torn>>
      PROVE  Rows
  BY <1>1 DEF Texts
<1>2. ASSUME NEW p \in Proc, pc[p] = "record",
             \/ UNCHANGED <<rows, tail, lost, torn>>
             \/ PutText(CutRow) \/ PutText(RowOf(p)) \/ PutRow(RowOf(p))
      PROVE  Rows
  <2>1. /\ Texts \subseteq Texts'
        /\ \A r \in Texts' : r \in Texts \/ (r = RowOf(p) /\ verdict[p] = "allow")
    BY <1>2, AppendGrows
  <2>2. QED BY <1>2, <2>1
<1> HIDE DEF Rows
<1>3. ASSUME NEW p \in Proc, CallStep(p)
      PROVE  Answers /\ Rows
  <2>1. Answers
    BY <1>3 DEF CallStep, DecideAlone, ReadSnapshot, SourceUnavailable, Archive, Decide,
       ReserveInvocation, ReserveApproval, AlreadyConsumed, Record, RecordRefused, AnswerHost
  <2>2. CASE Record(p)
    BY <1>2, <2>1, <2>2 DEF Record
  <2>3. CASE ~Record(p)
    <3>1. UNCHANGED <<rows, tail, lost, torn>>
      BY <1>3, <2>3 DEF CallStep, DecideAlone, ReadSnapshot, SourceUnavailable, Archive, Decide,
         ReserveInvocation, ReserveApproval, AlreadyConsumed, RecordRefused, AnswerHost,
         ledgerVars
    <3>2. QED BY <1>1, <2>1, <3>1
  <2>4. QED BY <2>2, <2>3
<1>4. ASSUME NEW p \in Proc, FaultStep(p)
      PROVE  Answers /\ Rows
  <2>1. Answers
    BY <1>4 DEF FaultStep, ArchiveFails, ReserveFails, RecordFails, Crash
  <2>2. CASE pc[p] = "record" /\ HalfAppend(p)
    BY <1>2, <2>1, <2>2 DEF HalfAppend
  <2>3. CASE UNCHANGED ledgerVars
    BY <1>1, <2>1, <2>3 DEF ledgerVars
  <2>4. QED
    BY <1>4, <2>2, <2>3 DEF FaultStep, ArchiveFails, ReserveFails, RecordFails, Crash
<1>5. ASSUME \/ \E p \in Proc, i \in Invocation, a \in Approval \cup {NoApproval} :
                  Begin(p, i, a)
             \/ \E s \in Snapshot \cup {NoSnapshot} : Publish(s)
             \/ OperatorUnlock
             \/ UNCHANGED vars
      PROVE  Answers /\ Rows
  <2>1. UNCHANGED <<rows, tail, lost, torn, answers>>
    BY <1>5 DEF Begin, Publish, OperatorUnlock, vars, ledgerVars
  <2>2. QED BY <1>1, <2>1
<1>6. Answers /\ Rows
  BY <1>3, <1>4, <1>5 DEF Next, Exhausted
<1>7. QED BY <1>6 DEF Rows

\* The steps of one process, seen from its own memory: it keeps its decision,
\* gives it up, or reserves what it still has to own.
LEMMA ProcOwnsStep ==
  ASSUME TypeInv, [Next]_vars, config = "full",
         NEW q \in Proc, ProcOwns(q)
  PROVE  ProcOwns(q)'
<1> USE DEF TypeInv, Goto, Decided, procVars
<1>1. ASSUME NEW p \in Proc, p # q,
             UNCHANGED <<pc[q], call[q], verdict[q]>>
      PROVE  ProcOwns(q)'
  BY <1>1, ProcOwnsKept
<1>2. ASSUME NEW p \in Proc, NEW i \in Invocation, NEW a \in Approval \cup {NoApproval},
             Begin(p, i, a)
      PROVE  ProcOwns(q)'
  <2>1. CASE p = q
    BY <1>2, <2>1, ProcOwnsKept DEF TypeOK, Begin
  <2>2. CASE p # q
    BY <1>1, <1>2, <2>2 DEF TypeOK, Begin
  <2>3. QED BY <2>1, <2>2
<1>3. ASSUME NEW p \in Proc, CallStep(p), p # q
      PROVE  ProcOwns(q)'
  <2>1. UNCHANGED <<pc[q], call[q], verdict[q]>>
    BY <1>3 DEF TypeOK, CallStep, DecideAlone, ReadSnapshot, SourceUnavailable, Archive,
       Decide, ReserveInvocation, ReserveApproval, AlreadyConsumed, Record, RecordRefused,
       AnswerHost, Failed, Exit
  <2>2. QED BY <1>1, <1>3, <2>1
<1>4. ASSUME CallStep(q)
      PROVE  ProcOwns(q)'
  <2>1. ASSUME NEW delegated \in BOOLEAN, DecideAlone(q, delegated)
        PROVE  FALSE
    BY <2>1 DEF DecideAlone
  <2>2. CASE ReadSnapshot(q) \/ Archive(q)
    BY <2>2, ProcOwnsKept DEF TypeOK, ReadSnapshot, Archive
  <2>3. CASE SourceUnavailable(q) \/ RecordRefused(q)
    BY <2>3, ProcOwnsKept DEF TypeOK, SourceUnavailable, RecordRefused, Failed
  <2>4. ASSUME NEW timely \in BOOLEAN, Decide(q, timely)
        PROVE  ProcOwns(q)'
    BY <2>4, ProcOwnsKept DEF TypeOK, Decide
  <2>5. CASE ReserveInvocation(q)
    <3>1. call[q] \in Call /\ call' = call /\ InvocationMarker(call[q]) \in Marker
      BY <2>5, MarkersOfCall DEF CallsKnown, ReserveInvocation
    <3>2. consumed'[InvocationMarker(call[q])] = call[q].number
      BY <2>5, <3>1 DEF TypeOK, ReserveInvocation, Reserve
    <3>3. \/ pc'[q] = "approval"
          \/ pc'[q] = "record" /\ call[q].approval = NoApproval
      BY <2>5 DEF TypeOK, ReserveInvocation
    <3>4. QED BY <3>1, <3>2, <3>3 DEF ProcOwns, OwnsMarkers, Markers
  <2>6. CASE ReserveApproval(q)
    <3>1. call[q] \in Call /\ call' = call /\ pc'[q] = "record"
      BY <2>6 DEF TypeOK, CallsKnown, ReserveApproval
    <3>2. consumed'[InvocationMarker(call[q])] = call[q].number
      BY <2>6, <3>1, OwnedKept DEF ProcOwns, ReserveApproval
    <3>3. call[q].approval # NoApproval
             => consumed'[ApprovalMarker(call[q])] = call[q].number
      BY <2>6, <3>1, MarkersOfCall DEF TypeOK, ReserveApproval, Reserve
    <3>4. QED BY <3>1, <3>2, <3>3 DEF ProcOwns, OwnsMarkers, Markers
  <2>7. CASE AlreadyConsumed(q)
    BY <2>7, ProcOwnsKept DEF TypeOK, AlreadyConsumed
  <2>8. CASE Record(q)
    BY <2>8, ProcOwnsKept DEF TypeOK, Record
  <2>9. CASE AnswerHost(q)
    BY <2>9, ProcOwnsKept DEF TypeOK, AnswerHost, Exit
  <2>10. QED
    BY <1>4, <2>1, <2>2, <2>3, <2>4, <2>5, <2>6, <2>7, <2>8, <2>9 DEF CallStep
<1>5. ASSUME NEW p \in Proc, FaultStep(p)
      PROVE  ProcOwns(q)'
  <2>1. CASE p # q
    <3>1. UNCHANGED <<pc[q], call[q], verdict[q]>>
      BY <1>5, <2>1 DEF TypeOK, FaultStep, ArchiveFails, ReserveFails, RecordFails, Crash,
         Failed, Exit
    <3>2. QED BY <1>1, <2>1, <3>1
  <2>2. CASE p = q
    <3>1. \/ pc'[q] = "idle"
          \/ pc'[q] \in {"record", "answer"} /\ verdict'[q] = "deny"
      BY <1>5, <2>2 DEF TypeOK, FaultStep, ArchiveFails, ReserveFails, RecordFails, Crash,
         Failed, Exit
    <3>2. QED BY <3>1, ProcOwnsKept
  <2>3. QED BY <2>1, <2>2
<1>6. CASE (\E s \in Snapshot \cup {NoSnapshot} : Publish(s)) \/ OperatorUnlock \/ UNCHANGED vars
  BY <1>6, ProcOwnsKept DEF Publish, OperatorUnlock, vars
<1>7. QED BY <1>2, <1>3, <1>4, <1>5, <1>6 DEF Next, Exhausted

LEMMA OwnedStep == TypeInv /\ Owned /\ [Next]_vars => Owned'
<1> SUFFICES ASSUME TypeInv, Owned, [Next]_vars, config' = "full"
             PROVE  /\ \A p \in Proc : ProcOwns(p)'
                    /\ \A x \in answers' : x.decision = "allow" => OwnsMarkers(x.call)'
                    /\ \A r \in Texts' : OwnsMarkers(r.call)'
  BY DEF Owned
<1>1. config = "full"
  BY MarkersStay
<1>2. \A p \in Proc : ProcOwns(p)'
  BY <1>1, ProcOwnsStep DEF Owned
<1>3. ASSUME NEW x \in answers', x.decision = "allow"
      PROVE  OwnsMarkers(x.call)'
  <2>1. x.call \in Call /\ OwnsMarkers(x.call)
    <3>1. CASE x \in answers
      BY <1>1, <1>3, <3>1 DEF Owned, TypeInv, TypeOK, Answer
    <3>2. CASE x \notin answers
      <4>1. PICK p \in Proc : /\ pc[p] = "answer"
                             /\ x = [call |-> call[p], decision |-> verdict[p]]
        BY <3>2, HistoryGrows
      <4>2. QED BY <1>1, <1>3, <4>1 DEF Owned, ProcOwns, TypeInv, CallsKnown
    <3>3. QED BY <3>1, <3>2
  <2>2. QED BY <2>1, OwnedKept
<1>4. ASSUME NEW r \in Texts'
      PROVE  OwnsMarkers(r.call)'
  <2>1. r.call \in Call /\ OwnsMarkers(r.call)
    <3>1. CASE r \in Texts
      BY <1>1, <1>4, <3>1 DEF Owned, TypeInv, TypeOK, Texts, Row
    <3>2. CASE r \notin Texts
      <4>1. PICK p \in Proc : pc[p] = "record" /\ verdict[p] = "allow" /\ r = RowOf(p)
        BY <1>4, <3>2, HistoryGrows
      <4>2. QED BY <1>1, <1>4, <4>1 DEF Owned, ProcOwns, RowOf, TypeInv, CallsKnown
    <3>3. QED BY <3>1, <3>2
  <2>2. QED BY <2>1, OwnedKept
<1>5. QED BY <1>2, <1>3, <1>4

\* However calls are retried, interleaved, killed or failed and whatever snapshots
\* are installed meanwhile, no two calls are allowed on one invocation or approval.
THEOREM AllowsOnce == Spec => []GrantOnce
<1>1. Init => Owned
  BY DEF Init, Owned, ProcOwns, Texts, NoTail, Row
<1>2. TypeInv /\ Owned => GrantOnce
  <2> SUFFICES ASSUME Owned, config = "full",
                      NEW x \in Allows, NEW y \in Allows, x.call.number # y.call.number,
                      NEW m \in Markers(x.call) \cap Markers(y.call)
               PROVE  FALSE
    BY DEF GrantOnce
  <2>1. consumed[m] = x.call.number /\ consumed[m] = y.call.number
    BY DEF Owned, Allows, OwnsMarkers
  <2>2. QED BY <2>1
<1>3. QED BY <1>1, <1>2, OwnedStep, AdmissionTypes, PTL DEF Spec, TypeInv

-----------------------------------------------------------------------------
(* Every allow is audited, and its evidence can be found again. *)

AllowRow(c) == \E r \in Texts : r.call = c

Traceable(c, s) == s \in archived /\ Admits(c, s)

\* A process on its way to an allow has archived what it evaluated, and one that
\* is about to answer allow has its row in the ledger.
ProcTraced(p) ==
  /\ config = "full" /\ pc[p] = "decide" => snap[p] \in archived
  /\ config = "full" /\ pc[p] \in {"invocation", "approval"} => Traceable(call[p], snap[p])
  /\ config = "full" /\ pc[p] = "record" /\ verdict[p] = "allow"
       => Traceable(call[p], snap[p])
  /\ pc[p] = "answer" /\ verdict[p] = "allow" => AllowRow(call[p])

HistoryTraced ==
  /\ \A x \in answers : x.decision = "allow" => AllowRow(x.call)
  /\ config = "full" => \A r \in Texts : Traceable(r.call, r.snapshot)

Traced == HistoryTraced /\ \A p \in Proc : ProcTraced(p)

LEMMA EvidenceStays ==
  ASSUME TypeInv, [Next]_vars
  PROVE  Texts \subseteq Texts' /\ archived \subseteq archived' /\ config' = config
<1>1. ASSUME NEW p \in Proc, CallStep(p)
      PROVE  archived \subseteq archived' /\ config' = config
  BY <1>1 DEF CallStep, DecideAlone, ReadSnapshot, SourceUnavailable, Archive, Decide,
     ReserveInvocation, ReserveApproval, AlreadyConsumed, Record, RecordRefused, AnswerHost
<1>2. ASSUME NEW p \in Proc, FaultStep(p)
      PROVE  archived \subseteq archived' /\ config' = config
  BY <1>2 DEF FaultStep, ArchiveFails, ReserveFails, RecordFails, Crash
<1>3. archived \subseteq archived' /\ config' = config
  BY <1>1, <1>2 DEF Next, Begin, Publish, OperatorUnlock, Exhausted, vars
<1>4. QED BY <1>3, HistoryGrows

LEMMA TraceKept ==
  ASSUME TypeInv, [Next]_vars, NEW c, NEW s
  PROVE  /\ AllowRow(c) => AllowRow(c)'
         /\ Traceable(c, s) => Traceable(c, s)'
BY EvidenceStays DEF AllowRow, Traceable, Admits

LEMMA ProcTracedStep ==
  ASSUME TypeInv, [Next]_vars, NEW q \in Proc, ProcTraced(q)
  PROVE  ProcTraced(q)'
<1> USE DEF TypeInv, Goto, Decided, procVars
\* Nothing of the process changes.
<1>1. ASSUME UNCHANGED <<pc[q], call[q], snap[q], verdict[q]>>
      PROVE  ProcTraced(q)'
  BY <1>1, TraceKept, EvidenceStays DEF ProcTraced
\* It ends, starts, or is left with a denial.
<1>2. ASSUME \/ pc'[q] \in {"idle", "source", "archive"}
             \/ pc'[q] \in {"record", "answer"} /\ verdict'[q] # "allow"
      PROVE  ProcTraced(q)'
  BY <1>2 DEF ProcTraced
<1>3. ASSUME NEW p \in Proc, NEW i \in Invocation, NEW a \in Approval \cup {NoApproval},
             Begin(p, i, a)
      PROVE  ProcTraced(q)'
  <2>1. CASE p = q /\ config # "partial"
    BY <1>2, <1>3, <2>1 DEF TypeOK, Begin
  <2>2. CASE p = q /\ config = "partial"
    BY <1>3, <2>2 DEF TypeOK, Begin, ProcTraced
  <2>3. CASE p # q
    BY <1>1, <1>3, <2>3 DEF TypeOK, Begin
  <2>4. QED BY <2>1, <2>2, <2>3
<1>4. ASSUME NEW p \in Proc, CallStep(p) \/ FaultStep(p), p # q
      PROVE  ProcTraced(q)'
  <2>1. CASE CallStep(p)
    BY <1>1, <1>4, <2>1 DEF TypeOK, CallStep, DecideAlone, ReadSnapshot, SourceUnavailable,
       Archive, Decide, ReserveInvocation, ReserveApproval, AlreadyConsumed, Record,
       RecordRefused, AnswerHost, Failed, Exit
  <2>2. CASE FaultStep(p)
    BY <1>1, <1>4, <2>2 DEF TypeOK, FaultStep, ArchiveFails, ReserveFails, RecordFails,
       Crash, Failed, Exit
  <2>3. QED BY <1>4, <2>1, <2>2
<1>5. ASSUME CallStep(q)
      PROVE  ProcTraced(q)'
  <2>1. ASSUME NEW delegated \in BOOLEAN, DecideAlone(q, delegated)
        PROVE  ProcTraced(q)'
    BY <2>1 DEF TypeOK, DecideAlone, ProcTraced
  <2>2. CASE ReadSnapshot(q) \/ SourceUnavailable(q) \/ RecordRefused(q)
             \/ AlreadyConsumed(q) \/ AnswerHost(q)
    BY <1>2, <2>2 DEF TypeOK, ReadSnapshot, SourceUnavailable, RecordRefused,
       AlreadyConsumed, AnswerHost, Failed, Exit
  <2>3. CASE Archive(q)
    BY <2>3 DEF TypeOK, Archive, ProcTraced
  <2>4. ASSUME NEW timely \in BOOLEAN, Decide(q, timely)
        PROVE  ProcTraced(q)'
    <3>1. \/ pc'[q] = "record" /\ verdict'[q] = "deny"
          \/ pc'[q] = "invocation" /\ Admits(call[q], snap[q])
      BY <2>4 DEF TypeOK, Decide
    <3>2. call' = call /\ snap' = snap /\ config' = config
          /\ (config = "full" => Traceable(call[q], snap[q]) \/ pc'[q] = "record")
      BY <2>4, <3>1 DEF Decide, ProcTraced, Traceable
    <3>3. QED BY <1>2, <3>1, <3>2, TraceKept DEF ProcTraced
  <2>5. CASE ReserveInvocation(q) \/ ReserveApproval(q)
    <3>1. /\ pc[q] \in {"invocation", "approval"} /\ pc'[q] \in {"approval", "record"}
          /\ call' = call /\ snap' = snap /\ config' = config
      BY <2>5 DEF TypeOK, ReserveInvocation, ReserveApproval
    <3>2. config = "full" => Traceable(call[q], snap[q])'
      BY <3>1, TraceKept DEF ProcTraced
    <3>3. QED BY <3>1, <3>2 DEF ProcTraced
  <2>6. CASE Record(q)
    <3>1. pc'[q] = "answer" /\ call' = call /\ verdict' = verdict
      BY <2>6 DEF TypeOK, Record
    <3>2. verdict[q] = "allow" => AllowRow(call[q])'
      <4>1. verdict[q] = "allow" => RowOf(q) \in Texts'
        BY <2>6, AppendGrows DEF Record
      <4>2. QED BY <3>1, <4>1 DEF AllowRow, RowOf
    <3>3. QED BY <3>1, <3>2 DEF ProcTraced
  <2>7. QED BY <1>5, <2>1, <2>2, <2>3, <2>4, <2>5, <2>6 DEF CallStep
<1>6. ASSUME FaultStep(q)
      PROVE  ProcTraced(q)'
  BY <1>2, <1>6 DEF TypeOK, FaultStep, ArchiveFails, ReserveFails, RecordFails, Crash,
     Failed, Exit
<1>7. CASE (\E s \in Snapshot \cup {NoSnapshot} : Publish(s)) \/ OperatorUnlock \/ UNCHANGED vars
  BY <1>1, <1>7 DEF Publish, OperatorUnlock, vars
<1>8. QED BY <1>3, <1>4, <1>5, <1>6, <1>7 DEF Next, Exhausted

LEMMA TracedStep == TypeInv /\ Traced /\ [Next]_vars => Traced'
<1> SUFFICES ASSUME TypeInv, Traced, [Next]_vars
             PROVE  Traced'
  OBVIOUS
<1>1. \A p \in Proc : ProcTraced(p)'
  BY ProcTracedStep DEF Traced
<1>2. ASSUME NEW x \in answers', x.decision = "allow"
      PROVE  AllowRow(x.call)'
  <2>1. AllowRow(x.call)
    BY <1>2, HistoryGrows DEF Traced, HistoryTraced, ProcTraced
  <2>2. QED BY <2>1, TraceKept
<1>3. ASSUME config' = "full", NEW r \in Texts'
      PROVE  Traceable(r.call, r.snapshot)'
  <2>1. Traceable(r.call, r.snapshot)
    BY <1>3, HistoryGrows, EvidenceStays DEF Traced, HistoryTraced, ProcTraced, RowOf
  <2>2. QED BY <2>1, TraceKept
<1>4. QED BY <1>1, <1>2, <1>3 DEF Traced, HistoryTraced

\* Every allow row leads to an archived snapshot that admits its call and to its call's
\* own markers.
THEOREM AllowsTraceable == Spec => []AllowReconstructable
<1>1. Init => Owned /\ Traced
  BY DEF Init, Owned, ProcOwns, Traced, HistoryTraced, ProcTraced, Texts, NoTail, Row
<1>2. Owned /\ Traced => AllowReconstructable
  BY DEF Owned, OwnsMarkers, Traced, HistoryTraced, Traceable, AllowReconstructable
<1>3. QED BY <1>1, <1>2, OwnedStep, TracedStep, AdmissionTypes, PTL DEF Spec, TypeInv

\* Whatever fails, is refused or is cut short between the decision and the answer, in every
\* configuration, the host is told allow only after the text of the row that says so is in
\* the ledger: on a line that can be read, as long as all of them can.
THEOREM AllowsRecorded == Spec => []AllowAudited
<1>1. Init => Owned /\ Traced
  BY DEF Init, Owned, ProcOwns, Traced, HistoryTraced, ProcTraced, Texts, NoTail, Row
<1>2. TypeInv /\ Traced => AllowAudited
  BY DEF TypeInv, LostShows, Traced, HistoryTraced, AllowRow, AllowAudited, Allows, Texts
<1>3. QED BY <1>1, <1>2, OwnedStep, TracedStep, AdmissionTypes, PTL DEF Spec, TypeInv

-----------------------------------------------------------------------------
(* Identifiers are used as SingleUse prescribes. *)

\* Calls under way and answered calls have different numbers.
Numbered ==
  /\ \A p \in Proc : pc[p] # "idle" =>
       /\ call[p].number < nextCall
       /\ \A q \in Proc : q # p /\ pc[q] # "idle" => call[q].number # call[p].number
       /\ \A x \in answers : x.call.number # call[p].number
  /\ \A x \in answers : x.call.number < nextCall

LEMMA NumberedStep == TypeInv /\ Numbered /\ [Next]_vars => Numbered'
<1> SUFFICES ASSUME TypeInv, Numbered, [Next]_vars
             PROVE  Numbered'
  OBVIOUS
<1> USE DEF TypeInv, Goto, procVars
<1>1. ASSUME NEW p \in Proc, NEW i \in Invocation, NEW a \in Approval \cup {NoApproval},
             Begin(p, i, a)
      PROVE  Numbered'
  <2>1. /\ nextCall \in Nat /\ nextCall' = nextCall + 1 /\ UNCHANGED answers
        /\ call'[p].number = nextCall /\ pc[p] = "idle"
        /\ \A q \in Proc : q # p => call'[q] = call[q] /\ pc'[q] = pc[q]
    BY <1>1, CallsAssumption DEF TypeOK, Begin
  <2>2. \A q \in Proc : pc[q] # "idle" => call[q].number \in Nat
    BY CallsAssumption DEF CallsKnown, Call
  <2>3. \A x \in answers : x.call.number \in Nat
    BY CallsAssumption DEF TypeOK, Answer, Call
  <2>4. QED BY <2>1, <2>2, <2>3 DEF Numbered
<1>2. ASSUME \A q \in Proc : pc'[q] # "idle" => pc[q] # "idle" /\ call'[q] = call[q],
             UNCHANGED <<answers, nextCall>>
      PROVE  Numbered'
  BY <1>2 DEF Numbered
<1>3. ASSUME NEW p \in Proc, AnswerHost(p)
      PROVE  Numbered'
  <2>1. /\ answers' = answers \cup {[call |-> call[p], decision |-> verdict[p]]}
        /\ pc[p] # "idle" /\ pc'[p] = "idle" /\ UNCHANGED nextCall
        /\ \A q \in Proc : q # p => call'[q] = call[q] /\ pc'[q] = pc[q]
    BY <1>3 DEF TypeOK, AnswerHost, Exit
  <2>2. QED BY <2>1 DEF Numbered
<1>4. ASSUME NEW p \in Proc, CallStep(p), ~AnswerHost(p)
      PROVE  /\ \A q \in Proc : pc'[q] # "idle" => pc[q] # "idle" /\ call'[q] = call[q]
             /\ UNCHANGED <<answers, nextCall>>
  BY <1>4 DEF TypeOK, CallStep, DecideAlone, ReadSnapshot, SourceUnavailable, Archive,
     Decide, ReserveInvocation, ReserveApproval, AlreadyConsumed, Record, RecordRefused, Failed
<1>5. ASSUME NEW p \in Proc, FaultStep(p)
      PROVE  /\ \A q \in Proc : pc'[q] # "idle" => pc[q] # "idle" /\ call'[q] = call[q]
             /\ UNCHANGED <<answers, nextCall>>
  BY <1>5 DEF TypeOK, FaultStep, ArchiveFails, ReserveFails, RecordFails, Crash, Failed, Exit
<1>6. CASE (\E s \in Snapshot \cup {NoSnapshot} : Publish(s)) \/ OperatorUnlock \/ UNCHANGED vars
  BY <1>2, <1>6 DEF Publish, OperatorUnlock, vars
<1>7. QED BY <1>1, <1>2, <1>3, <1>4, <1>5, <1>6 DEF Next, Exhausted

\* Every step spends one id, answers one allow, or does neither.
LEMMA OnceNext ==
  TypeInv /\ Owned /\ Numbered /\ config = "full" /\ [Next]_vars
    => [Once!Next]_<<SpentIds, GrantedIds>>
<1> SUFFICES ASSUME TypeInv, Owned, Numbered, config = "full", [Next]_vars
             PROVE  [Once!Next]_<<SpentIds, GrantedIds>>
  OBVIOUS
<1> USE DEF TypeInv
<1>0. config = "full" /\ config' = "full"
  BY MarkersStay
<1>1. ASSUME UNCHANGED answers
      PROVE  UNCHANGED GrantedIds
  BY <1>0, <1>1 DEF GrantedIds, Allows
<1>2. ASSUME UNCHANGED consumed
      PROVE  UNCHANGED SpentIds
  BY <1>0, <1>2 DEF SpentIds
<1>3. ASSUME NEW p \in Proc, pc[p] # "idle", NEW m \in Marker, Reserve(p, m), UNCHANGED answers
      PROVE  [Once!Next]_<<SpentIds, GrantedIds>>
  <2>1. call[p].number # 0
    BY <1>3, CallsAssumption DEF CallsKnown, Call
  <2>2. m \notin SpentIds /\ SpentIds' = SpentIds \cup {m}
    BY <1>0, <1>3, <2>1 DEF TypeOK, Reserve, SpentIds
  <2>3. Once!Spend(m)
    BY <1>1, <1>3, <2>2 DEF Once!Spend, SpentIds, GrantedIds
  <2>4. QED BY <2>3 DEF Once!Next
<1>4. ASSUME NEW p \in Proc, AnswerHost(p)
      PROVE  [Once!Next]_<<SpentIds, GrantedIds>>
  <2> DEFINE answer == [call |-> call[p], decision |-> verdict[p]]
  <2>1. answers' = answers \cup {answer} /\ UNCHANGED consumed /\ pc[p] = "answer"
    BY <1>4 DEF AnswerHost
  <2>2. CASE verdict[p] # "allow"
    <3>1. Allows' = Allows
      BY <2>1, <2>2 DEF Allows
    <3>2. UNCHANGED GrantedIds
      BY <1>0, <3>1 DEF GrantedIds
    <3>3. QED BY <1>2, <2>1, <3>2
  <2>3. CASE verdict[p] = "allow"
    <3> DEFINE ids == Markers(call[p])
    <3>1. call[p] \in Call /\ call[p].number # 0 /\ OwnsMarkers(call[p])
      BY <2>1, <2>3, CallsAssumption DEF CallsKnown, Call, Owned, ProcOwns
    <3>2. ids # {} /\ ids \subseteq SpentIds
      BY <1>0, <3>1, MarkersOfCall DEF SpentIds, OwnsMarkers, Markers
    <3>3. ASSUME NEW x \in Allows
          PROVE  ids \cap Markers(x.call) = {}
      <4>1. OwnsMarkers(x.call) /\ x.call.number # call[p].number
        BY <2>1 DEF Allows, Owned, Numbered
      <4>2. QED BY <3>1, <4>1 DEF OwnsMarkers
    <3>4. Allows' = Allows \cup {answer}
      BY <2>1, <2>3 DEF Allows
    <3>5. GrantedIds' = GrantedIds \cup {ids}
      <4>1. /\ GrantedIds = {Markers(x.call) : x \in Allows}
            /\ GrantedIds' = {Markers(x.call) : x \in Allows'}
        BY <1>0 DEF GrantedIds, Markers, InvocationMarker, ApprovalMarker
      <4>2. Markers(answer.call) = ids
        OBVIOUS
      <4> HIDE DEF answer, ids
      <4>3. QED BY <3>4, <4>1, <4>2
    <3>6. ids \in SUBSET Marker
      BY <3>1, MarkersOfCall
    <3>7. Once!Allow(ids)
      BY <1>2, <2>1, <3>2, <3>3, <3>5 DEF Once!Allow, SpentIds, GrantedIds
    <3>8. QED BY <3>6, <3>7 DEF Once!Next
  <2>4. QED BY <2>2, <2>3
<1>5. ASSUME NEW p \in Proc, CallStep(p), ~AnswerHost(p)
      PROVE  [Once!Next]_<<SpentIds, GrantedIds>>
  <2>1. UNCHANGED answers
    BY <1>5 DEF CallStep, DecideAlone, ReadSnapshot, SourceUnavailable, Archive, Decide,
       ReserveInvocation, ReserveApproval, AlreadyConsumed, Record, RecordRefused
  <2>2. CASE ReserveInvocation(p)
    <3>1. InvocationMarker(call[p]) \in Marker
      BY <2>2, MarkersOfCall DEF CallsKnown, ReserveInvocation
    <3>2. QED BY <1>3, <2>1, <2>2, <3>1 DEF ReserveInvocation
  <2>3. CASE ReserveApproval(p)
    <3>1. ApprovalMarker(call[p]) \in Marker
      BY <2>3, MarkersOfCall DEF CallsKnown, ReserveApproval
    <3>2. QED BY <1>3, <2>1, <2>3, <3>1 DEF ReserveApproval
  <2>4. CASE ~ReserveInvocation(p) /\ ~ReserveApproval(p)
    <3>1. UNCHANGED consumed
      BY <1>5, <2>4 DEF CallStep, DecideAlone, ReadSnapshot, SourceUnavailable, Archive,
         Decide, AlreadyConsumed, Record, RecordRefused
    <3>2. QED BY <1>1, <1>2, <2>1, <3>1
  <2>5. QED BY <2>2, <2>3, <2>4
<1>6. ASSUME NEW p \in Proc, FaultStep(p)
      PROVE  [Once!Next]_<<SpentIds, GrantedIds>>
  <2>1. UNCHANGED answers
    BY <1>6 DEF FaultStep, ArchiveFails, ReserveFails, RecordFails, Crash
  <2>2. CASE UNCHANGED consumed
    BY <1>1, <1>2, <2>1, <2>2
  <2>3. CASE ~UNCHANGED consumed
    <3>1. pc[p] \in {"invocation", "approval"} /\ Reserve(p, MarkerWanted(p))
      BY <1>6, <2>3 DEF FaultStep, ArchiveFails, ReserveFails, RecordFails, Crash
    <3>2. MarkerWanted(p) \in Marker
      BY <3>1, MarkersOfCall DEF CallsKnown, MarkerWanted
    <3>3. QED BY <1>3, <2>1, <3>1, <3>2
  <2>4. QED BY <2>2, <2>3
<1>7. CASE \/ \E p \in Proc, i \in Invocation, a \in Approval \cup {NoApproval} : Begin(p, i, a)
           \/ \E s \in Snapshot \cup {NoSnapshot} : Publish(s)
           \/ OperatorUnlock
           \/ UNCHANGED vars
  <2>1. UNCHANGED <<consumed, answers>>
    BY <1>7 DEF Begin, Publish, OperatorUnlock, vars
  <2>2. QED BY <1>1, <1>2, <2>1
<1>8. QED BY <1>4, <1>5, <1>6, <1>7 DEF Next, Exhausted

\* Every id is spent once and before the allow it pays for, in every interleaving
\* of reservations, rows, answers and failures; without delegation none is spent.
THEOREM SingleUseImplemented == Spec => ImplementsSingleUse
<1>1. Init => Owned /\ Numbered
  BY DEF Init, Owned, ProcOwns, Numbered, Texts, NoTail, Row
<1>2. ASSUME TypeInv, config # "full", [Next]_vars
      PROVE  UNCHANGED <<SpentIds, GrantedIds>>
  <2>1. config' = config
    BY <1>2, MarkersStay
  <2>2. QED BY <1>2, <2>1 DEF SpentIds, GrantedIds
<1>3. Init => Once!Init
  <2>1. Init => SpentIds = {} /\ GrantedIds = {}
    BY DEF Init, SpentIds, GrantedIds, Allows
  <2>2. QED BY <2>1 DEF Once!Init, SpentIds, GrantedIds
<1>4. TypeInv /\ Owned /\ Numbered /\ [Next]_vars
        => [Once!Next]_<<SpentIds, GrantedIds>>
  BY <1>2, OnceNext
<1>5. QED
  BY <1>1, <1>3, <1>4, NumberedStep, OwnedStep, AdmissionTypes, PTL
     DEF Spec, TypeInv, ImplementsSingleUse, Once!Spec
=============================================================================
