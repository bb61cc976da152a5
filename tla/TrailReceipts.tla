---------------------------- MODULE TrailReceipts ----------------------------
(***************************************************************************)
(* What the CLI leaves behind after `audit verify`, `export` and            *)
(* `artifact-load` (emit_receipt in corcept-cli/src/main.rs, TrailLock and  *)
(* append_audit in corcept-ledger/src/trail.rs): under audit-trail.jsonl.lock*)
(* it appends a row to the trail and writes a signed receipt that names the *)
(* row.  The row and its newline are two writes, so an append that stops    *)
(* half way leaves a last line without its end, and the next row runs into  *)
(* it.  The lock of a holder that seems dead is removed by age, and a guard *)
(* removes whatever lock file it finds when it is dropped.                  *)
(***************************************************************************)
EXTENDS Naturals, Sequences, FiniteSets

CONSTANTS
  Proc,          \* CLI processes that can run at the same time
  NoProc,        \* the lock's holder died
  Operation,     \* the verbs that emit a receipt
  Fault,         \* the faults that occur: a subset of {"crash", "io", "stall"}
  MaxEmissions,  \* bound: emissions in a behaviour
  MaxClock       \* bound: milliseconds told apart

ASSUME NoProcAssumption == NoProc \notin Proc
ASSUME BoundAssumption == MaxEmissions \in Nat /\ MaxClock \in Nat \ {0}

VARIABLES
  lines,      \* the trail: for every line, the row texts that were written on it
  open,       \* the last line has no newline yet
  receipts,   \* receipt files: Absent, Torn, or the emission the file tells of
  lock,       \* the lock file: none, or its holder and whether it is over 30 s old
  clock,      \* the current millisecond
  pc,         \* where each process is
  begun,      \* the operation and timestamp of every emission so far
  emission,   \* which of them each process is at; 0 for none
  tip,        \* the row the process found at the end of the trail
  done,       \* history: emissions that were reported successful
  robbed      \* history: a lock was removed by age while its holder was alive

vars == <<lines, open, receipts, lock, clock, pc, begun, emission, tip, done, robbed>>

Number == 1..MaxEmissions
Emission == [op : Operation, ts : 1..MaxClock]
NoLock == [there |-> FALSE]
Absent == 0
Torn == MaxEmissions + 1

\* A row, what is left of one that was cut, and what a chain without rows starts from.
Row == [id : Number, seq : Nat \ {0}, prev : 0..MaxEmissions]
Cut == [id |-> 0]
Genesis == [id |-> 0, seq |-> 0]

\* A line that can be read back: one row.
Whole(line) == Len(line) = 1 /\ line[1] # Cut

\* A receipt file is named after the operation and the timestamp.
Name == Operation \X (1..MaxClock)

\* Mutant of NameOf: the timestamp is left out of the name.
NameOfOp(e) == <<e.op, 1>>

NameOf(e) == <<e.op, e.ts>>

TrailPc == {"idle", "lock", "reclaim", "tip", "append", "newline", "create", "fill",
            "done", "failed"}
Holding == {"tip", "append", "newline", "create", "fill", "done", "failed"}

TypeOK ==
  /\ lines \in Seq(Seq(Row \cup {Cut}))
  /\ open \in BOOLEAN /\ (open => lines # <<>>)
  /\ receipts \in [Name -> Number \cup {Absent, Torn}]
  /\ lock \in {NoLock} \cup [there : {TRUE}, holder : Proc \cup {NoProc}, old : BOOLEAN]
  /\ clock \in 1..MaxClock
  /\ pc \in [Proc -> TrailPc]
  /\ begun \in Seq(Emission) /\ Len(begun) <= MaxEmissions
  /\ emission \in [Proc -> 0..MaxEmissions]
  /\ tip \in [Proc -> Row \cup {Genesis}]
  /\ done \subseteq 1..Len(begun)
  /\ robbed \in BOOLEAN

Init ==
  /\ lines = <<>>
  /\ open = FALSE
  /\ receipts = [n \in Name |-> Absent]
  /\ lock = NoLock
  /\ clock = 1
  /\ pc = [p \in Proc |-> "idle"]
  /\ begun = <<>>
  /\ emission = [p \in Proc |-> 0]
  /\ tip = [p \in Proc |-> Genesis]
  /\ done = {}
  /\ robbed = FALSE

Goto(p, to) == pc' = [pc EXCEPT ![p] = to]

\* The emission is over: the process's guard and locals are gone.
Leave(p) ==
  /\ Goto(p, "idle")
  /\ emission' = [emission EXCEPT ![p] = 0]
  /\ tip' = [tip EXCEPT ![p] = Genesis]

-----------------------------------------------------------------------------
(* emit_receipt *)

\* The timestamp, and with it the receipt's name, is taken before the lock.  The
\* clock is read nowhere else, so it moves here.
Begin(p, o, now) ==
  /\ pc[p] = "idle"
  /\ Len(begun) < MaxEmissions
  /\ clock' = now
  /\ begun' = Append(begun, [op |-> o, ts |-> now])
  /\ emission' = [emission EXCEPT ![p] = Len(begun) + 1]
  /\ Goto(p, "lock")
  /\ UNCHANGED <<lines, open, receipts, lock, tip, done, robbed>>

\* create_new: of all processes, one succeeds.
TakeLock(p) ==
  /\ pc[p] = "lock"
  /\ lock = NoLock
  /\ lock' = [there |-> TRUE, holder |-> p, old |-> FALSE]
  /\ Goto(p, "tip")
  /\ UNCHANGED <<lines, open, receipts, clock, begun, emission, tip, done, robbed>>

\* reclaim_if_stale first looks at the file's age ...
FindStale(p) ==
  /\ pc[p] = "lock"
  /\ lock.there /\ lock.old
  /\ Goto(p, "reclaim")
  /\ UNCHANGED <<lines, open, receipts, lock, clock, begun, emission, tip, done, robbed>>

\* ... and then removes the file that has the name by now.  Then the process
\* tries again, or its own 30 s are over.
RemoveStale(p) ==
  /\ pc[p] = "reclaim"
  /\ lock' = NoLock
  /\ robbed' = (robbed \/ (lock.there /\ lock.holder # NoProc))
  /\ \/ Goto(p, "lock") /\ UNCHANGED <<emission, tip>>
     \/ Leave(p)
  /\ UNCHANGED <<lines, open, receipts, clock, begun, done>>

\* Mutant of GiveUp: the wait has no deadline.
KeepWaiting(p) == pc[p] = "lock" /\ lock.there /\ UNCHANGED vars

\* 30 s passed: the verb goes on without a row and a receipt.
GiveUp(p) ==
  /\ pc[p] = "lock"
  /\ lock.there
  /\ Leave(p)
  /\ UNCHANGED <<lines, open, receipts, lock, clock, begun, done, robbed>>

\* axiom_audit::append reads the trail; a line that is not one row fails it.
ReadTip(p) ==
  /\ pc[p] = "tip"
  /\ IF \A i \in 1..Len(lines) : Whole(lines[i])
     THEN /\ tip' = [tip EXCEPT ![p] = IF lines = <<>> THEN Genesis ELSE lines[Len(lines)][1]]
          /\ Goto(p, "append")
     ELSE Goto(p, "failed") /\ UNCHANGED tip
  /\ UNCHANGED <<lines, open, receipts, lock, clock, begun, emission, done, robbed>>

\* Mutant of RowOf: the counter is the tip's own.
RowUncounted(p) == [id |-> emission[p], seq |-> tip[p].seq, prev |-> tip[p].id]

RowOf(p) == [id |-> emission[p], seq |-> tip[p].seq + 1, prev |-> tip[p].id]

\* A text goes where the file ends, be it the middle of a line.
PutText(text) ==
  /\ lines' = IF open THEN [lines EXCEPT ![Len(lines)] = Append(@, text)]
              ELSE Append(lines, <<text>>)
  /\ open' = TRUE

\* Then the row's text is written, and then its newline.
AppendText(p) ==
  /\ pc[p] = "append"
  /\ PutText(RowOf(p))
  /\ Goto(p, "newline")
  /\ UNCHANGED <<receipts, lock, clock, begun, emission, tip, done, robbed>>

AppendNewline(p) ==
  /\ pc[p] = "newline"
  /\ open' = FALSE
  /\ Goto(p, "create")
  /\ UNCHANGED <<lines, receipts, lock, clock, begun, emission, tip, done, robbed>>

PutReceipt(p, contents) ==
  receipts' = [receipts EXCEPT ![NameOf(begun[emission[p]])] = contents]

\* fs::write empties the file, then writes it.
CreateReceipt(p) ==
  /\ pc[p] = "create"
  /\ PutReceipt(p, Torn)
  /\ Goto(p, "fill")
  /\ UNCHANGED <<lines, open, lock, clock, begun, emission, tip, done, robbed>>

FillReceipt(p) ==
  /\ pc[p] = "fill"
  /\ PutReceipt(p, emission[p])
  /\ Goto(p, "done")
  /\ UNCHANGED <<lines, open, lock, clock, begun, emission, tip, done, robbed>>

\* Mutant of DropLock: the guard goes out of scope before the row is appended.
DropLockFirst(p) ==
  /\ pc[p] \in {"append", "newline", "create", "fill", "done", "failed"}
  /\ lock' = NoLock
  /\ IF pc[p] = "done" THEN Leave(p) ELSE UNCHANGED <<pc, emission, tip>>
  /\ UNCHANGED <<lines, open, receipts, clock, begun, done, robbed>>

\* The guard is dropped: the file that has the lock's name goes, whoever made it.
DropLock(p) ==
  /\ pc[p] \in {"done", "failed"}
  /\ lock' = NoLock
  /\ done' = IF pc[p] = "done" THEN done \cup {emission[p]} ELSE done
  /\ Leave(p)
  /\ UNCHANGED <<lines, open, receipts, clock, begun, robbed>>

-----------------------------------------------------------------------------
(* Age and faults *)

\* A dead holder's lock gets old; a live one's only if the holder is stopped for
\* 30 s inside the critical section.
LockAges ==
  /\ lock.there /\ ~lock.old
  /\ lock.holder = NoProc \/ "stall" \in Fault
  /\ lock' = [lock EXCEPT !.old = TRUE]
  /\ UNCHANGED <<lines, open, receipts, clock, pc, begun, emission, tip, done, robbed>>

\* Mutant of EmitFails: a receipt is written for the row that failed.
EmitOnFailure(p) ==
  /\ "io" \in Fault
  /\ pc[p] = "append"
  /\ Goto(p, "create")
  /\ UNCHANGED <<lines, open, receipts, lock, clock, begun, emission, tip, done, robbed>>

\* A file operation reports an error: after its effect, after a part of it, or
\* without it.
EmitFails(p) ==
  /\ "io" \in Fault
  /\ \/ pc[p] = "tip" /\ UNCHANGED <<lines, open, receipts>>
     \/ /\ pc[p] = "append"
        /\ PutText(Cut) \/ PutText(RowOf(p)) \/ UNCHANGED <<lines, open>>
        /\ UNCHANGED receipts
     \/ pc[p] = "newline" /\ open' \in {open, FALSE} /\ UNCHANGED <<lines, receipts>>
     \/ /\ pc[p] = "create"
        /\ PutReceipt(p, Torn) \/ UNCHANGED receipts
        /\ UNCHANGED <<lines, open>>
     \/ pc[p] = "fill" /\ UNCHANGED <<lines, open, receipts>>
  /\ Goto(p, "failed")
  /\ UNCHANGED <<lock, clock, begun, emission, tip, done, robbed>>

\* A dead process drops nothing: its lock file stays, and so does what it has
\* written of a row.
Crash(p) ==
  /\ "crash" \in Fault
  /\ pc[p] # "idle"
  /\ UNCHANGED <<lines, open>> \/ (pc[p] = "append" /\ PutText(Cut))
  /\ lock' = IF lock.there /\ lock.holder = p THEN [lock EXCEPT !.holder = NoProc] ELSE lock
  /\ Leave(p)
  /\ UNCHANGED <<receipts, clock, begun, done, robbed>>

-----------------------------------------------------------------------------
EmitStep(p) ==
  \/ TakeLock(p) \/ FindStale(p) \/ RemoveStale(p) \/ GiveUp(p)
  \/ ReadTip(p) \/ AppendText(p) \/ AppendNewline(p)
  \/ CreateReceipt(p) \/ FillReceipt(p) \/ DropLock(p)

FaultStep(p) == EmitFails(p) \/ Crash(p)

\* The bounds are used up and every emission is over.
Exhausted ==
  /\ Len(begun) = MaxEmissions
  /\ \A p \in Proc : pc[p] = "idle"
  /\ UNCHANGED vars

Next ==
  \/ \E p \in Proc, o \in Operation, now \in clock..MaxClock : Begin(p, o, now)
  \/ \E p \in Proc : EmitStep(p) \/ FaultStep(p)
  \/ LockAges
  \/ Exhausted

Spec == Init /\ [][Next]_vars

\* A running process keeps running; nothing makes a dead holder's lock grow old.
FairSpec == Spec /\ \A p \in Proc : WF_vars(EmitStep(p))

-----------------------------------------------------------------------------
(* Properties *)

\* The critical section is serialized (trail.rs:88-89), whoever reclaims a lock.
OneHolder == \A p, q \in Proc : pc[p] \in Holding /\ pc[q] \in Holding => p = q

\* Unless the lock of a live process is removed by age, one emission is inside at
\* a time, and crashes and failed appends damage the last line of the trail only:
\* before it, every line is a row that counts the rows and names the one before.
ChainUnlessRobbed ==
  ~robbed =>
    /\ OneHolder
    /\ \A i \in 1..Len(lines) - 1 : Whole(lines[i])
    /\ \A i \in 1..Len(lines) : Whole(lines[i]) =>
         /\ lines[i][1].seq = i
         /\ lines[i][1].prev = IF i = 1 THEN 0 ELSE lines[i - 1][1].id

\* A complete receipt never tells of a row whose text is not in the trail, whatever
\* crashed or failed between the row and the receipt, and whoever held the lock.
\* (The row can be read while every line is whole: one that ran into an unfinished
\* line has its text there and no line of its own.)
ReceiptHasRow ==
  \A n \in Name : receipts[n] \in Number =>
    \E i \in 1..Len(lines) : \E k \in 1..Len(lines[i]) : lines[i][k].id = receipts[n]

\* The file of an emission that was reported successful holds a complete receipt,
\* its own or that of an emission of the same verb and millisecond; it is torn only
\* if one of those was not successful (too, or yet).
SuccessKeepsReceipt ==
  \A e \in done :
    LET sharing == {f \in 1..Len(begun) : begun[f] = begun[e]}
        receipt == receipts[NameOf(begun[e])]
    IN receipt \in sharing \/ (receipt = Torn /\ ~(sharing \subseteq done))

\* Every emission ends, also behind the lock of a dead process that stays young.
EmissionEnds == \A p \in Proc : pc[p] # "idle" ~> pc[p] = "idle"
=============================================================================
