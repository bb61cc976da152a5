---------------------------- MODULE LedgerAppend ----------------------------
(***************************************************************************)
(* The authority ledger, .corcept/ledger/events.jsonl, as the processes    *)
(* that append to it see it: short-lived `corcept` processes that serialise *)
(* on append.lock, each extending a hash chain whose tip is cached in the   *)
(* sidecar file last_hash.  One action per file-system call of              *)
(* append_event_inner (corcept-ledger/src/lib.rs), so that a crash or an    *)
(* I/O error can fall between any two of them, plus `corcept init`, which   *)
(* calls ensure_ledger without taking the lock.                             *)
(*                                                                         *)
(* A row is identified with its content hash: every row carries a fresh     *)
(* uuid, so two rows hash alike only if they are the same row.              *)
(***************************************************************************)
EXTENDS Naturals, Sequences, FiniteSets

CONSTANTS
  Writer,      \* processes that append rows
  NoWriter,    \* nobody: append.lock does not exist
  Installer,   \* processes running `corcept init`
  Key,         \* operator signing keys
  NoKey,       \* no key file, or no signature on a row
  BadKey,      \* a key file that is not 32 bytes long
  Mode,        \* the kinds of append that occur: a subset of AppendMode
  Fault,       \* the faults that occur: a subset of {"crash", "io"}
  MaxAppends   \* bound: appends started in a behaviour

AppendMode == {"plain", "env", "signed"}

ASSUME WriterAssumption == NoWriter \notin Writer
ASSUME KeyAssumption == NoKey \notin Key /\ BadKey \notin Key /\ NoKey # BadKey
ASSUME ModeAssumption == Mode \subseteq AppendMode
ASSUME FaultAssumption == Fault \subseteq {"crash", "io"}
ASSUME BoundAssumption == MaxAppends \in Nat \ {0}

VARIABLES
  lines,        \* the physical lines of events.jsonl
  open,         \* the last physical line has no newline yet
  ledgerThere,  \* events.jsonl exists
  sidecar,      \* the hash in last_hash; NoHash when it is empty or absent
  sidecarThere, \* last_hash exists
  lock,         \* the process that created append.lock, or NoWriter
  pc,           \* where each writer is in append_event_inner
  mode,         \* which append each writer is performing
  key,          \* the signing key each writer loaded before taking the lock
  row,          \* the row each writer is going to write
  nextId,       \* the next fresh row identity
  acked,        \* history: identities whose append returned Ok
  instPc,       \* where each installer is in ensure_ledger
  keyfile,      \* the active operator key file
  trust         \* the keys published in the trust directory

fileVars == <<lines, open, ledgerThere, sidecar, sidecarThere>>
procVars == <<mode, key, row, nextId>>
keyVars  == <<keyfile, trust>>
vars == <<lines, open, ledgerThere, sidecar, sidecarThere, lock, pc, mode, key,
          row, nextId, acked, instPc, keyfile, trust>>

-----------------------------------------------------------------------------
(* Rows, and what reading the two files gives. *)

NoHash == 0
Hash == 1..MaxAppends
Line == [id : Hash \cup {NoHash}, prev : Hash \cup {NoHash},
         key : Key \cup {NoKey}]

\* A physical line that does not parse: half a row, or two rows run together.
Torn == [id |-> NoHash, prev |-> NoHash, key |-> NoKey]

WholeRow(l) == l.id # NoHash

\* read_events succeeds: every line parses.
Readable == \A i \in 1..Len(lines) : WholeRow(lines[i])

TipHash == IF lines = <<>> THEN NoHash ELSE lines[Len(lines)].id

\* last_hash reads the sidecar and falls back to the last line when it is
\* empty; only the fallback has to parse that line.
LastHash == IF sidecar # NoHash THEN sidecar ELSE TipHash
LastHashFails ==
  /\ sidecar = NoHash
  /\ lines # <<>>
  /\ ~WholeRow(lines[Len(lines)])

Linked(i) == lines[i].prev = IF i = 1 THEN NoHash ELSE lines[i - 1].id

\* What verify_hash_chain answers.
HashChainVerifies == Readable /\ \A i \in 1..Len(lines) : Linked(i)

\* What verify_ledger(root, true) answers: the chain, and each row signed by a
\* published key.
SignedLedgerVerifies ==
  /\ HashChainVerifies
  /\ \A i \in 1..Len(lines) : lines[i].key \in trust

\* Mutant of SignedTipIntact: the sidecar is not compared with the tip.
TipUnchecked == SignedLedgerVerifies

\* What append_event_signed checks under the lock before it extends a history.
SignedTipIntact ==
  /\ SignedLedgerVerifies
  /\ LastHash = TipHash

-----------------------------------------------------------------------------
WriterPc == {"idle", "lock", "ensure", "verify", "tip", "text", "newline",
             "sidecar", "fill", "commit", "fail", "dead"}

\* Inside the scope of LedgerAppendLock.
Holding == {"ensure", "verify", "tip", "text", "newline", "sidecar", "fill",
            "commit", "fail"}

InstallerPc == {"events?", "events!", "sidecar?", "sidecar!", "done"}

Goto(w, to) == pc' = [pc EXCEPT ![w] = to]

TypeOK ==
  /\ lines \in Seq(Line)
  /\ open \in BOOLEAN
  /\ ledgerThere \in BOOLEAN
  /\ sidecar \in Hash \cup {NoHash}
  /\ sidecarThere \in BOOLEAN
  /\ lock \in Writer \cup {NoWriter}
  /\ pc \in [Writer -> WriterPc]
  /\ mode \in [Writer -> AppendMode]
  /\ key \in [Writer -> Key \cup {NoKey}]
  /\ row \in [Writer -> Line]
  /\ nextId \in 1..(MaxAppends + 1)
  /\ acked \subseteq Hash
  /\ instPc \in [Installer -> InstallerPc]
  /\ keyfile \in Key \cup {NoKey, BadKey}
  /\ trust \subseteq Key

Init ==
  /\ lines = <<>>
  /\ open = FALSE
  /\ ledgerThere \in BOOLEAN
  /\ sidecar = NoHash
  /\ sidecarThere \in {FALSE, ledgerThere}
  /\ lock = NoWriter
  /\ pc = [w \in Writer |-> "idle"]
  /\ mode = [w \in Writer |-> "plain"]
  /\ key = [w \in Writer |-> NoKey]
  /\ row = [w \in Writer |-> Torn]
  /\ nextId = 1
  /\ acked = {}
  /\ instPc = [i \in Installer |-> "events?"]
  /\ keyfile \in Key \cup {NoKey}
  /\ trust = {keyfile} \ {NoKey}

-----------------------------------------------------------------------------
(* append_event_inner *)

\* The key is read before the lock is taken, and not at all for an append that
\* nothing asks to sign.  Without a key file a signed append is refused at once,
\* while one that only the environment asks to sign goes on unsigned; a
\* malformed key file is an error for both.
KeyUsable(m) ==
  /\ m # "plain" => keyfile # BadKey
  /\ m = "signed" => keyfile # NoKey

\* The identity is fixed here: it is a uuid, so when it is drawn does not matter.
BeginAppend(w, m) ==
  /\ pc[w] = "idle"
  /\ nextId <= MaxAppends
  /\ KeyUsable(m)
  /\ mode' = [mode EXCEPT ![w] = m]
  /\ key' = [key EXCEPT ![w] = IF m = "plain" THEN NoKey ELSE keyfile]
  /\ row' = [row EXCEPT ![w] = [id |-> nextId, prev |-> NoHash, key |-> NoKey]]
  /\ nextId' = nextId + 1
  /\ Goto(w, "lock")
  /\ UNCHANGED <<fileVars, lock, acked, instPc, keyVars>>

\* The early error returns: nothing has been touched yet.
RefuseAppend(w, m) ==
  /\ pc[w] = "idle"
  /\ ~KeyUsable(m)
  /\ UNCHANGED vars

\* Mutant of TakeLock: a waiter takes over a lock file it considers old.
TakeOldLock(w) ==
  /\ pc[w] = "lock"
  /\ lock' = w
  /\ Goto(w, "ensure")
  /\ UNCHANGED <<fileVars, procVars, acked, instPc, keyVars>>

\* create_new succeeds for exactly one process while the file is absent.
TakeLock(w) ==
  /\ pc[w] = "lock"
  /\ lock = NoWriter
  /\ lock' = w
  /\ Goto(w, "ensure")
  /\ UNCHANGED <<fileVars, procVars, acked, instPc, keyVars>>

\* Mutant of GiveUp: no deadline.
NeverGiveUp(w) == pc[w] = "lock" /\ pc[w] # "lock" /\ UNCHANGED vars

\* Five seconds pass with the lock held; its age never makes it available.
GiveUp(w) ==
  /\ pc[w] = "lock"
  /\ lock # NoWriter
  /\ Goto(w, "idle")
  /\ UNCHANGED <<fileVars, procVars, lock, acked, instPc, keyVars>>

\* ensure_ledger under the lock.  One step: between its existence checks and
\* its creations only an installer can run, and what the installer creates is
\* as empty as what is created here.
EnsureLedger(w) ==
  /\ pc[w] = "ensure"
  /\ ledgerThere' = TRUE
  /\ sidecarThere' = TRUE
  /\ Goto(w, IF mode[w] = "signed" THEN "verify" ELSE "tip")
  /\ UNCHANGED <<lines, open, sidecar, lock, procVars, acked, instPc, keyVars>>

\* The signed append's look at the history it is about to extend.
VerifyHistory(w) ==
  /\ pc[w] = "verify"
  /\ Goto(w, IF SignedTipIntact THEN "tip" ELSE "fail")
  /\ UNCHANGED <<fileVars, lock, procVars, acked, instPc, keyVars>>

\* The row is linked to the tip, hashed and signed with the key loaded earlier.
SealRow(w) ==
  /\ pc[w] = "tip"
  /\ row' = IF LastHashFails THEN row
            ELSE [row EXCEPT ![w] = [id |-> row[w].id, prev |-> LastHash,
                                     key |-> key[w]]]
  /\ Goto(w, IF LastHashFails THEN "fail" ELSE "text")
  /\ UNCHANGED <<fileVars, lock, mode, key, nextId, acked, instPc, keyVars>>

\* Mutant of PutText: the file is opened for writing, not for appending.
PutTextAtStart(text) ==
  /\ lines' = <<text>>
  /\ open' = TRUE
  /\ ledgerThere' = TRUE

\* Text put at the end of the file continues a line that has no newline, and
\* two texts on one line do not parse.
PutText(text) ==
  /\ lines' = IF open THEN [lines EXCEPT ![Len(lines)] = Torn]
              ELSE Append(lines, text)
  /\ open' = TRUE
  /\ ledgerThere' = TRUE

\* writeln! on an unbuffered File is two writes, the row and then the newline.
WriteText(w) ==
  /\ pc[w] = "text"
  /\ PutText(row[w])
  /\ Goto(w, "newline")
  /\ UNCHANGED <<sidecar, sidecarThere, lock, procVars, acked, instPc, keyVars>>

WriteNewline(w) ==
  /\ pc[w] = "newline"
  /\ open' = FALSE
  /\ Goto(w, "sidecar")
  /\ UNCHANGED <<lines, ledgerThere, sidecar, sidecarThere, lock, procVars,
                 acked, instPc, keyVars>>

\* fs::write truncates the sidecar before it writes the new hash.
TruncateSidecar(w) ==
  /\ pc[w] = "sidecar"
  /\ sidecar' = NoHash
  /\ sidecarThere' = TRUE
  /\ Goto(w, "fill")
  /\ UNCHANGED <<lines, open, ledgerThere, lock, procVars, acked, instPc, keyVars>>

\* Mutant of FillSidecar: the wrong field is cached.
FillSidecarWithKey(w) ==
  /\ pc[w] = "fill"
  /\ sidecar' = row[w].key
  /\ Goto(w, "commit")
  /\ UNCHANGED <<lines, open, ledgerThere, sidecarThere, lock, procVars, acked,
                 instPc, keyVars>>

FillSidecar(w) ==
  /\ pc[w] = "fill"
  /\ sidecar' = row[w].id
  /\ Goto(w, "commit")
  /\ UNCHANGED <<lines, open, ledgerThere, sidecarThere, lock, procVars, acked,
                 instPc, keyVars>>

\* LedgerAppendLock::drop removes append.lock whatever the result is.
ReleaseLock(w) ==
  /\ pc[w] \in {"commit", "fail"}
  /\ lock' = NoWriter
  /\ acked' = IF pc[w] = "commit" THEN acked \cup {row[w].id} ELSE acked
  /\ Goto(w, "idle")
  /\ UNCHANGED <<fileVars, procVars, instPc, keyVars>>

-----------------------------------------------------------------------------
(* Faults *)

\* The row's write fails, after some of its bytes or before the first.
WriteTextFails(w) ==
  /\ "io" \in Fault
  /\ pc[w] = "text"
  /\ \/ PutText(Torn)
     \/ UNCHANGED <<lines, open, ledgerThere>>
  /\ Goto(w, "fail")
  /\ UNCHANGED <<sidecar, sidecarThere, lock, procVars, acked, instPc, keyVars>>

\* A later call fails: the newline, the sync, opening or writing the sidecar.
\* The `?` returns the error and the lock goes with the scope.
LaterStepFails(w) ==
  /\ "io" \in Fault
  /\ pc[w] \in {"newline", "sidecar", "fill"}
  /\ Goto(w, "fail")
  /\ UNCHANGED <<fileVars, lock, procVars, acked, instPc, keyVars>>

\* The process dies: no destructor runs and append.lock stays.
Crash(w) ==
  /\ "crash" \in Fault
  /\ pc[w] \notin {"idle", "dead"}
  /\ Goto(w, "dead")
  /\ UNCHANGED <<fileVars, lock, procVars, acked, instPc, keyVars>>

\* The operator confirms that the writer has stopped and deletes its lock.
OperatorUnlock ==
  /\ lock \in Writer
  /\ pc[lock] = "dead"
  /\ lock' = NoWriter
  /\ UNCHANGED <<fileVars, pc, procVars, acked, instPc, keyVars>>

\* The next hook invocation is a new process.
Restart(w) ==
  /\ pc[w] = "dead"
  /\ lock # w
  /\ Goto(w, "idle")
  /\ UNCHANGED <<fileVars, lock, procVars, acked, instPc, keyVars>>

-----------------------------------------------------------------------------
(* `corcept init` runs ensure_ledger without append.lock: each of its        *)
(* creations is a check and, later, a truncating write.                      *)

InstGoto(i, to) == instPc' = [instPc EXCEPT ![i] = to]

\* Mutant of CheckEvents: events.jsonl is created without looking for it.
SkipEventsCheck(i) ==
  /\ instPc[i] = "events?"
  /\ InstGoto(i, "events!")
  /\ UNCHANGED <<fileVars, lock, pc, procVars, acked, keyVars>>

CheckEvents(i) ==
  /\ instPc[i] = "events?"
  /\ InstGoto(i, IF ledgerThere THEN "sidecar?" ELSE "events!")
  /\ UNCHANGED <<fileVars, lock, pc, procVars, acked, keyVars>>

CreateEvents(i) ==
  /\ instPc[i] = "events!"
  /\ lines' = <<>>
  /\ open' = FALSE
  /\ ledgerThere' = TRUE
  /\ InstGoto(i, "sidecar?")
  /\ UNCHANGED <<sidecar, sidecarThere, lock, pc, procVars, acked, keyVars>>

CheckSidecar(i) ==
  /\ instPc[i] = "sidecar?"
  /\ InstGoto(i, IF sidecarThere THEN "done" ELSE "sidecar!")
  /\ UNCHANGED <<fileVars, lock, pc, procVars, acked, keyVars>>

CreateSidecar(i) ==
  /\ instPc[i] = "sidecar!"
  /\ sidecar' = NoHash
  /\ sidecarThere' = TRUE
  /\ InstGoto(i, "done")
  /\ UNCHANGED <<lines, open, ledgerThere, lock, pc, procVars, acked, keyVars>>

-----------------------------------------------------------------------------
AppendStep(w) ==
  \/ TakeLock(w) \/ GiveUp(w) \/ EnsureLedger(w) \/ VerifyHistory(w)
  \/ SealRow(w) \/ WriteText(w) \/ WriteNewline(w) \/ TruncateSidecar(w)
  \/ FillSidecar(w) \/ ReleaseLock(w)

FaultStep(w) == WriteTextFails(w) \/ LaterStepFails(w) \/ Crash(w) \/ Restart(w)

InstallStep(i) ==
  CheckEvents(i) \/ CreateEvents(i) \/ CheckSidecar(i) \/ CreateSidecar(i)

\* The bound is used up and every process has finished.
Exhausted ==
  /\ nextId > MaxAppends
  /\ \A w \in Writer : pc[w] = "idle"
  /\ \A i \in Installer : instPc[i] = "done"
  /\ UNCHANGED vars

Next ==
  \/ \E w \in Writer : \E m \in Mode : BeginAppend(w, m) \/ RefuseAppend(w, m)
  \/ \E w \in Writer : AppendStep(w) \/ FaultStep(w)
  \/ OperatorUnlock
  \/ \E i \in Installer : InstallStep(i)
  \/ Exhausted

Spec == Init /\ [][Next]_vars

\* A running process keeps taking its own steps; nothing makes the operator act.
FairSpec == Spec /\ \A w \in Writer : WF_vars(AppendStep(w))

-----------------------------------------------------------------------------
(* Properties *)

\* Only the process that created append.lock is inside its scope, so no two
\* processes ever read the tip and extend it at the same time: append.lock is
\* never taken over from a live holder.
LockExclusive == \A w \in Writer : pc[w] \in Holding => lock = w

\* An append that returned Ok stays in the ledger as a whole line: no later
\* append, failure or crash overwrites it or runs another row into its line.
AckedRowsSurvive ==
  \A h \in acked : \E i \in 1..Len(lines) : lines[i].id = h

\* When every append is a signed one, damage stops at the tail.  Whatever crashed
\* or failed, each whole row is linked to a whole row before it and signed by a
\* published key, and at most the last line is unreadable: a signed append never
\* buries a broken row under a good one.
OnlyTailDamaged ==
  \A i \in 1..Len(lines) :
    /\ ~WholeRow(lines[i]) => i = Len(lines)
    /\ WholeRow(lines[i]) => Linked(i) /\ lines[i].key \in trust

\* Every line but an open last one is still there after the step, unchanged.
KeepsTerminated ==
  \A i \in 1..Len(lines) :
    (i < Len(lines) \/ ~open) => i <= Len(lines') /\ lines'[i] = lines[i]

\* A line that ended with its newline is never changed or removed again by an
\* append, whatever failed before: rows can be lost only at the open tail.
TerminatedLinesImmutable == [][KeepsTerminated]_vars

\* A requested append ends, with an answer or an error, even when a crashed
\* process left the lock behind and nobody removes it.
AppendEnds == \A w \in Writer : pc[w] = "lock" ~> pc[w] \in {"idle", "dead"}

\* The rows that are in the ledger for good: whole lines with their newline.
CommittedRows ==
  LET n == Len(lines)
  IN IF n > 0 /\ (open \/ ~WholeRow(lines[n])) THEN SubSeq(lines, 1, n - 1)
     ELSE lines

Log == INSTANCE AppendOnlyLog WITH log <- CommittedRows, Id <- Hash,
                                   NoId <- NoHash, Sig <- Key \cup {NoKey}

\* The rows in the ledger for good form an append-only log in which each row
\* names its predecessor: nothing is removed, changed or inserted.
ImplementsLog == Log!Spec
=============================================================================
