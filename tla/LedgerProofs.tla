---------------------------- MODULE LedgerProofs ----------------------------
(***************************************************************************)
(* Theorems about LedgerAppend for any number of writers and appends: type  *)
(* correctness, the exclusiveness of append.lock, the hash chain when       *)
(* nothing fails, and what a signed-only ledger guarantees whatever fails;  *)
(* and about KeyLifecycle for any number of generations beside them, cut    *)
(* short anywhere: no signed row loses its public key for good.             *)
(***************************************************************************)
EXTENDS KeyLifecycle, SequenceTheorems, TLAPS

USE DEF AppendMode, WriterPc, Holding, InstallerPc, NoHash, Hash, Line, Torn

-----------------------------------------------------------------------------
(* What the readers of the two files return, and what PutText writes. *)

\* Replacing a line leaves a sequence of the same length.
LEMMA ReplaceLine ==
  ASSUME NEW S, NEW s \in Seq(S), NEW i, NEW x \in S
  PROVE  /\ [s EXCEPT ![i] = x] \in Seq(S)
         /\ Len([s EXCEPT ![i] = x]) = Len(s)
<1>1. CASE i \in 1..Len(s)
  BY <1>1, ExceptSeq
<1>2. CASE i \notin 1..Len(s)
  <2>1. [s EXCEPT ![i] = x] = s
    BY <1>2
  <2>2. QED BY <2>1
<1>3. QED BY <1>1, <1>2

\* The tip of the file is a row identity or none.
LEMMA TipHashType ==
  ASSUME TypeOK
  PROVE  TipHash \in Hash \cup {NoHash}
<1>1. CASE lines = <<>>
  BY <1>1 DEF TipHash
<1>2. CASE lines # <<>>
  <2>1. Len(lines) \in 1..Len(lines)
    BY <1>2 DEF TypeOK
  <2>2. lines[Len(lines)] \in Line
    <3>1. lines \in Seq(Line)
      BY DEF TypeOK
    <3>2. QED BY <2>1, <3>1, ElementOfSeq
  <2>3. lines[Len(lines)].id \in Hash \cup {NoHash}
    BY <2>2
  <2>4. QED BY <1>2, <2>3 DEF TipHash
<1>3. QED BY <1>1, <1>2

\* So is what read_last_hash returns.
LEMMA LastHashType ==
  ASSUME TypeOK
  PROVE  LastHash \in Hash \cup {NoHash}
BY TipHashType DEF TypeOK, LastHash

\* Writing text keeps the ledger a sequence of rows and broken lines.
LEMMA PutTextType ==
  ASSUME TypeOK, NEW text \in Line, PutText(text)
  PROVE  /\ lines' \in Seq(Line)
         /\ open' \in BOOLEAN
         /\ ledgerThere' \in BOOLEAN
<1>1. CASE open
  <2>1. lines' = [lines EXCEPT ![Len(lines)] = Torn]
    BY <1>1 DEF PutText
  <2>2. Torn \in Line
    OBVIOUS
  <2>3. lines \in Seq(Line)
    BY DEF TypeOK
  <2>4. lines' \in Seq(Line)
    BY <2>1, <2>2, <2>3, ReplaceLine
  <2>5. QED BY <2>4 DEF PutText
<1>2. CASE ~open
  <2>1. lines' = Append(lines, text)
    BY <1>2 DEF PutText
  <2>2. lines' \in Seq(Line)
    BY <2>1 DEF TypeOK
  <2>3. QED BY <2>2 DEF PutText
<1>3. QED BY <1>1, <1>2 DEF TypeOK

\* A process between BeginAppend and its answer has drawn its row's identity.
RowsDrawn == \A w \in Writer : pc[w] \notin {"idle", "dead"} => row[w].id \in Hash

TypeInv == TypeOK /\ RowsDrawn

\* The types hold at the start.
LEMMA TypeInitially == Init => TypeInv
<1> SUFFICES ASSUME Init PROVE TypeInv
  OBVIOUS
<1>1. ledgerThere \in BOOLEAN /\ sidecarThere \in BOOLEAN
  BY DEF Init
<1>2. row \in [Writer -> Line]
  BY DEF Init
<1>3. nextId \in 1..(MaxAppends + 1)
  BY BoundAssumption DEF Init
<1>4. keyfile \in Key \cup {NoKey, BadKey} /\ trust \subseteq Key
  BY DEF Init
<1>5. pc \in [Writer -> WriterPc] /\ mode \in [Writer -> AppendMode]
  BY DEF Init
<1>6. lines \in Seq(Line) /\ sidecar \in Hash \cup {NoHash}
  BY DEF Init
<1>7. QED BY <1>1, <1>2, <1>3, <1>4, <1>5, <1>6 DEF Init, TypeOK, TypeInv, RowsDrawn

\* Every step of the ledger's processes preserves the types.
LEMMA TypeStep == TypeInv /\ [Next]_vars => TypeInv'
<1> SUFFICES ASSUME TypeInv, [Next]_vars
             PROVE  TypeInv'
  OBVIOUS
<1> USE DEF TypeInv, RowsDrawn, Goto, InstGoto, fileVars, procVars, keyVars
<1>1. ASSUME NEW w \in Writer, NEW m \in Mode, BeginAppend(w, m)
      PROVE  TypeInv'
  <2>1. nextId \in Hash /\ nextId + 1 \in 1..(MaxAppends + 1)
    BY <1>1, BoundAssumption DEF TypeOK, BeginAppend
  <2>2. (IF m = "plain" THEN NoKey ELSE keyfile) \in Key \cup {NoKey}
    BY <1>1 DEF TypeOK, BeginAppend, KeyUsable
  <2>3. m \in AppendMode
    BY ModeAssumption
  <2>4. [id |-> nextId, prev |-> NoHash, key |-> NoKey] \in Line
    BY <2>1
  <2>5. QED BY <1>1, <2>1, <2>2, <2>3, <2>4 DEF TypeOK, BeginAppend
<1>2. ASSUME NEW w \in Writer, NEW m \in Mode, RefuseAppend(w, m)
      PROVE  TypeInv'
  BY <1>2 DEF TypeOK, RefuseAppend, vars
<1>3. ASSUME NEW w \in Writer, AppendStep(w)
      PROVE  TypeInv'
  <2>1. CASE TakeLock(w)       BY <2>1 DEF TypeOK, TakeLock
  <2>2. CASE GiveUp(w)         BY <2>2 DEF TypeOK, GiveUp
  <2>3. CASE EnsureLedger(w)   BY <2>3 DEF TypeOK, EnsureLedger
  <2>4. CASE VerifyHistory(w)  BY <2>4 DEF TypeOK, VerifyHistory
  <2>5. CASE SealRow(w)
    <3>1. row' \in [Writer -> Line]
      BY <2>5, LastHashType DEF TypeOK, SealRow
    <3> QED BY <2>5, <3>1 DEF TypeOK, SealRow
  <2>6. CASE WriteText(w)
    BY <2>6, PutTextType DEF TypeOK, WriteText
  <2>7. CASE WriteNewline(w)   BY <2>7 DEF TypeOK, WriteNewline
  <2>8. CASE TruncateSidecar(w) BY <2>8 DEF TypeOK, TruncateSidecar
  <2>9. CASE FillSidecar(w)    BY <2>9 DEF TypeOK, FillSidecar
  <2>10. CASE ReleaseLock(w)   BY <2>10 DEF TypeOK, ReleaseLock
  <2>11. QED
    BY <1>3, <2>1, <2>2, <2>3, <2>4, <2>5, <2>6, <2>7, <2>8, <2>9, <2>10
       DEF AppendStep
<1>4. ASSUME NEW w \in Writer, FaultStep(w)
      PROVE  TypeInv'
  <2>1. CASE WriteTextFails(w)
    <3>1. Torn \in Line
      OBVIOUS
    <3>2. CASE PutText(Torn)
      BY <2>1, <3>1, <3>2, PutTextType DEF TypeOK, WriteTextFails
    <3>3. CASE UNCHANGED <<lines, open, ledgerThere>>
      BY <2>1, <3>3 DEF TypeOK, WriteTextFails
    <3>4. QED BY <2>1, <3>2, <3>3 DEF WriteTextFails
  <2>2. CASE LaterStepFails(w) BY <2>2 DEF TypeOK, LaterStepFails
  <2>3. CASE Crash(w)          BY <2>3 DEF TypeOK, Crash
  <2>4. CASE Restart(w)        BY <2>4 DEF TypeOK, Restart
  <2>5. QED BY <1>4, <2>1, <2>2, <2>3, <2>4 DEF FaultStep
<1>5. ASSUME OperatorUnlock
      PROVE  TypeInv'
  BY <1>5 DEF TypeOK, OperatorUnlock
<1>6. ASSUME NEW i \in Installer, InstallStep(i)
      PROVE  TypeInv'
  <2>1. CASE CheckEvents(i)    BY <2>1 DEF TypeOK, CheckEvents
  <2>2. CASE CreateEvents(i)
    <3>1. lines' \in Seq(Line)
      BY <2>2 DEF CreateEvents
    <3>2. QED BY <2>2, <3>1 DEF TypeOK, CreateEvents
  <2>3. CASE CheckSidecar(i)   BY <2>3 DEF TypeOK, CheckSidecar
  <2>4. CASE CreateSidecar(i)  BY <2>4 DEF TypeOK, CreateSidecar
  <2>5. QED BY <1>6, <2>1, <2>2, <2>3, <2>4 DEF InstallStep
<1>7. CASE UNCHANGED vars
  BY <1>7 DEF TypeOK, vars
<1>8. QED
  BY <1>1, <1>2, <1>3, <1>4, <1>5, <1>6, <1>7 DEF Next, Exhausted

\* The types of the program's files, locks and local variables are preserved by
\* every step: the counter stays within its bound and no key file that does not
\* parse is ever used to sign.
THEOREM TypeCorrect == Spec => []TypeOK /\ []RowsDrawn
<1>1. Init => TypeInv
  BY TypeInitially
<1>2. TypeInv /\ [Next]_vars => TypeInv'
  BY TypeStep
<1>3. TypeInv => TypeOK /\ RowsDrawn
  BY DEF TypeInv
<1>4. QED BY <1>1, <1>2, <1>3, PTL DEF Spec

-----------------------------------------------------------------------------
(* append.lock excludes, whatever crashes, fails or is installed meanwhile. *)

\* The two facts are inductive together: the lock names a writer, so a step of
\* another process cannot be a step of the holder.
LockInv == TypeOK /\ LockExclusive

\* No step lets a second process into append.lock.
LEMMA LockStep == LockInv /\ [Next]_vars => LockExclusive'
<1> SUFFICES ASSUME LockInv, [Next]_vars
             PROVE  LockExclusive'
  OBVIOUS
<1> USE DEF LockInv, LockExclusive, Goto, InstGoto, fileVars, procVars, keyVars
<1>1. ASSUME NEW w \in Writer, NEW m \in Mode, BeginAppend(w, m) \/ RefuseAppend(w, m)
      PROVE  LockExclusive'
  BY <1>1 DEF TypeOK, BeginAppend, RefuseAppend, vars
<1>2. ASSUME NEW w \in Writer, AppendStep(w)
      PROVE  LockExclusive'
  <2>1. CASE TakeLock(w)
    BY <2>1, WriterAssumption DEF TypeOK, TakeLock
  <2>2. CASE ReleaseLock(w)
    BY <2>2 DEF TypeOK, ReleaseLock
  <2>3. CASE GiveUp(w) \/ EnsureLedger(w) \/ VerifyHistory(w) \/ SealRow(w)
    BY <2>3 DEF TypeOK, GiveUp, EnsureLedger, VerifyHistory, SealRow
  <2>4. CASE WriteText(w) \/ WriteNewline(w) \/ TruncateSidecar(w) \/ FillSidecar(w)
    BY <2>4 DEF TypeOK, WriteText, WriteNewline, TruncateSidecar, FillSidecar
  <2>5. QED BY <1>2, <2>1, <2>2, <2>3, <2>4 DEF AppendStep
<1>3. ASSUME NEW w \in Writer, FaultStep(w)
      PROVE  LockExclusive'
  BY <1>3 DEF TypeOK, FaultStep, WriteTextFails, LaterStepFails, Crash, Restart
<1>4. ASSUME OperatorUnlock
      PROVE  LockExclusive'
  BY <1>4 DEF TypeOK, OperatorUnlock
<1>5. ASSUME NEW i \in Installer, InstallStep(i)
      PROVE  LockExclusive'
  BY <1>5 DEF TypeOK, InstallStep, CheckEvents, CreateEvents, CheckSidecar, CreateSidecar
<1>6. CASE UNCHANGED vars
  BY <1>6 DEF vars
<1>7. QED BY <1>1, <1>2, <1>3, <1>4, <1>5, <1>6 DEF Next, Exhausted

\* At most the process that created append.lock is inside its scope, for any
\* number of writers and installers and whatever crashes or fails.
THEOREM MutualExclusion == Spec => []LockExclusive
<1>1. Init => LockExclusive
  BY DEF Init, LockExclusive
<1>2. TypeOK /\ LockExclusive /\ [Next]_vars => LockExclusive'
  BY LockStep DEF LockInv
<1>3. QED BY <1>1, <1>2, TypeCorrect, PTL DEF Spec

-----------------------------------------------------------------------------
(* Only signed appends: damage stops at the tail, whatever crashes or fails. *)

SignedOnlyLedger == Mode = {"signed"} /\ Installer = {}

\* Every append under way is a signed one, with a published key.
SigningWriters ==
  /\ keyfile \in Key => keyfile \in trust
  /\ keyfile # BadKey
  /\ \A w \in Writer : pc[w] \notin {"idle", "dead"}
                         => mode[w] = "signed" /\ key[w] \in trust

\* Between its look at the history and its write the holder of the lock still
\* has that history before it, and the row it sealed extends it.
HistoryHeld ==
  \A w \in Writer :
    /\ pc[w] \in {"tip", "text"} => Readable /\ LastHash = TipHash
    /\ pc[w] = "text" => row[w].prev = TipHash /\ row[w].key \in trust

SignedInv ==
  TypeInv /\ LockExclusive /\ SigningWriters /\ HistoryHeld /\ OnlyTailDamaged

\* Text put behind a readable history either is a row that extends it or
\* damages the last line only.
LEMMA PutTextAtTail ==
  ASSUME TypeOK, OnlyTailDamaged, Readable, UNCHANGED trust,
         NEW text \in Line, PutText(text),
         WholeRow(text) => text.prev = TipHash /\ text.key \in trust
  PROVE  OnlyTailDamaged'
<1> USE DEF WholeRow, Linked
<1>1. lines \in Seq(Line) /\ Len(lines) \in Nat
  BY DEF TypeOK
<1>2. CASE ~open
  <2>1. lines' = Append(lines, text)
    BY <1>2 DEF PutText
  <2>2. /\ Len(lines') = Len(lines) + 1
        /\ \A i \in 1..Len(lines) : lines'[i] = lines[i]
        /\ lines'[Len(lines) + 1] = text
    BY <1>1, <2>1, AppendProperties
  <2>3. TipHash = IF Len(lines) = 0 THEN NoHash ELSE lines[Len(lines)].id
    BY <1>1 DEF TipHash
  <2>4. ASSUME NEW i \in 1..Len(lines)
        PROVE  WholeRow(lines'[i]) /\ Linked(i)' /\ lines'[i].key \in trust'
    <3>1. WholeRow(lines[i]) /\ Linked(i) /\ lines[i].key \in trust
      BY DEF Readable, OnlyTailDamaged
    <3>2. i # 1 => i - 1 \in 1..Len(lines)
      BY <1>1
    <3>3. QED BY <2>2, <3>1, <3>2
  <2>5. WholeRow(text) => /\ text.key \in trust'
                          /\ text.prev = IF Len(lines) = 0 THEN NoHash
                                         ELSE lines'[Len(lines)].id
    <3>1. Len(lines) # 0 => lines'[Len(lines)] = lines[Len(lines)]
      BY <1>1, <2>2
    <3>2. QED BY <2>3, <3>1
  <2>6. ASSUME NEW i \in 1..Len(lines'), i \notin 1..Len(lines), WholeRow(lines'[i])
        PROVE  Linked(i)' /\ lines'[i].key \in trust'
    <3>1. i = Len(lines) + 1 /\ lines'[i] = text
      BY <1>1, <2>2, <2>6
    <3>2. i - 1 = Len(lines) /\ (i = 1 <=> Len(lines) = 0)
      BY <1>1, <3>1
    <3>3. QED BY <2>5, <2>6, <3>1, <3>2
  <2>7. \A i \in 1..Len(lines') : i \notin 1..Len(lines) => i = Len(lines')
    BY <1>1, <2>2
  <2>8. QED BY <2>4, <2>6, <2>7 DEF OnlyTailDamaged
<1>3. CASE open
  <2>1. lines' = [lines EXCEPT ![Len(lines)] = Torn]
    BY <1>3 DEF PutText
  <2>2. /\ Len(lines') = Len(lines)
        /\ \A i \in 1..Len(lines) :
             lines'[i] = IF i = Len(lines) THEN Torn ELSE lines[i]
    BY <1>1, <2>1
  <2>3. ASSUME NEW i \in 1..Len(lines), i # Len(lines)
        PROVE  WholeRow(lines'[i]) /\ Linked(i)' /\ lines'[i].key \in trust'
    <3>1. WholeRow(lines[i]) /\ Linked(i) /\ lines[i].key \in trust
      BY DEF Readable, OnlyTailDamaged
    <3>2. i # 1 => i - 1 \in 1..Len(lines) /\ i - 1 # Len(lines)
      BY <1>1, <2>3
    <3>3. lines'[i] = lines[i]
      BY <2>2, <2>3
    <3>4. i # 1 => lines'[i - 1] = lines[i - 1]
      BY <2>2, <3>2
    <3>5. QED BY <3>1, <3>3, <3>4
  <2>4. Len(lines) \in 1..Len(lines) => ~WholeRow(lines'[Len(lines)])
    <3>1. Len(lines) \in 1..Len(lines) => lines'[Len(lines)] = Torn
      BY <2>2
    <3>2. QED BY <3>1
  <2>5. QED BY <1>1, <2>2, <2>3, <2>4 DEF OnlyTailDamaged
<1>4. QED BY <1>2, <1>3 DEF TypeOK

\* The steps that write to events.jsonl.
LEMMA TailDamagedStep ==
  ASSUME SignedOnlyLedger, SignedInv, [Next]_vars
  PROVE  OnlyTailDamaged'
<1> USE DEF SignedInv, TypeInv
<1>1. ASSUME UNCHANGED <<lines, trust>>
      PROVE  OnlyTailDamaged'
  BY <1>1 DEF OnlyTailDamaged, WholeRow, Linked
<1>2. ASSUME NEW w \in Writer, WriteText(w)
      PROVE  OnlyTailDamaged'
  <2>1. row[w] \in Line /\ row[w].prev = TipHash /\ row[w].key \in trust /\ Readable
    BY <1>2 DEF TypeOK, HistoryHeld, WriteText
  <2>2. PutText(row[w]) /\ UNCHANGED trust
    BY <1>2 DEF WriteText, keyVars
  <2>3. QED BY <2>1, <2>2, PutTextAtTail
<1>3. ASSUME NEW w \in Writer, WriteTextFails(w)
      PROVE  OnlyTailDamaged'
  <2>1. Readable /\ UNCHANGED trust
    BY <1>3 DEF HistoryHeld, WriteTextFails, keyVars
  <2>2. Torn \in Line /\ ~WholeRow(Torn)
    BY DEF WholeRow
  <2>3. CASE PutText(Torn)
    BY <2>1, <2>2, <2>3, PutTextAtTail
  <2>4. QED BY <1>1, <1>3, <2>1, <2>3 DEF WriteTextFails
<1>4. ASSUME NEW w \in Writer, AppendStep(w), ~WriteText(w)
      PROVE  UNCHANGED <<lines, trust>>
  BY <1>4 DEF AppendStep, TakeLock, GiveUp, EnsureLedger, VerifyHistory, SealRow,
     WriteNewline, TruncateSidecar, FillSidecar, ReleaseLock, fileVars, keyVars
<1>5. ASSUME NEW w \in Writer, FaultStep(w), ~WriteTextFails(w)
      PROVE  UNCHANGED <<lines, trust>>
  BY <1>5 DEF FaultStep, LaterStepFails, Crash, Restart, fileVars, keyVars
<1>6. ASSUME \/ OperatorUnlock
             \/ \E w \in Writer, m \in Mode : BeginAppend(w, m) \/ RefuseAppend(w, m)
             \/ UNCHANGED vars
      PROVE  UNCHANGED <<lines, trust>>
  BY <1>6 DEF OperatorUnlock, BeginAppend, RefuseAppend, fileVars, keyVars, vars
<1>7. QED
  BY <1>1, <1>2, <1>3, <1>4, <1>5, <1>6 DEF Next, Exhausted, SignedOnlyLedger

\* Every writer at work signs with a published key.
LEMMA SigningWritersStep ==
  ASSUME SignedOnlyLedger, SignedInv, [Next]_vars
  PROVE  SigningWriters'
<1> USE DEF SignedInv, TypeInv, SigningWriters, Goto, procVars, keyVars
<1>1. ASSUME NEW w \in Writer, NEW m \in Mode, BeginAppend(w, m)
      PROVE  SigningWriters'
  <2>1. m = "signed" /\ keyfile \in trust
    BY <1>1 DEF SignedOnlyLedger, BeginAppend, KeyUsable, TypeOK
  <2>2. QED BY <1>1, <2>1 DEF BeginAppend, TypeOK
<1>2. ASSUME NEW w \in Writer, AppendStep(w)
      PROVE  SigningWriters'
  BY <1>2 DEF TypeOK, AppendStep, TakeLock, GiveUp, EnsureLedger, VerifyHistory,
     SealRow, WriteText, WriteNewline, TruncateSidecar, FillSidecar, ReleaseLock
<1>3. ASSUME NEW w \in Writer, FaultStep(w)
      PROVE  SigningWriters'
  BY <1>3 DEF TypeOK, FaultStep, WriteTextFails, LaterStepFails, Crash, Restart
<1>4. ASSUME \/ OperatorUnlock
             \/ \E w \in Writer, m \in Mode : RefuseAppend(w, m)
             \/ UNCHANGED vars
      PROVE  SigningWriters'
  BY <1>4 DEF OperatorUnlock, RefuseAppend, vars
<1>5. QED BY <1>1, <1>2, <1>3, <1>4 DEF Next, Exhausted, SignedOnlyLedger

\* A step outside the scope of the lock, and one that only reads under it,
\* leaves both files as the holder saw them.
LEMMA HistoryHeldStep ==
  ASSUME SignedOnlyLedger, SignedInv, [Next]_vars
  PROVE  HistoryHeld'
<1> USE DEF SignedInv, TypeInv, Goto, fileVars, procVars, keyVars
<1>1. ASSUME UNCHANGED <<lines, sidecar>>
      PROVE  Readable' = Readable /\ LastHash' = LastHash /\ TipHash' = TipHash
  BY <1>1 DEF Readable, WholeRow, LastHash, TipHash
<1>2. ASSUME UNCHANGED <<lines, sidecar, trust>>,
             \A v \in Writer : pc'[v] \in {"tip", "text"}
                                => pc'[v] = pc[v] /\ row'[v] = row[v]
      PROVE  HistoryHeld'
  BY <1>1, <1>2 DEF HistoryHeld
<1>3. ASSUME NEW w \in Writer, NEW m \in Mode, BeginAppend(w, m) \/ RefuseAppend(w, m)
      PROVE  HistoryHeld'
  <2>1. UNCHANGED <<lines, sidecar, trust>>
    BY <1>3 DEF BeginAppend, RefuseAppend, vars
  <2>2. \A v \in Writer : pc'[v] \in {"tip", "text"} => pc'[v] = pc[v] /\ row'[v] = row[v]
    BY <1>3 DEF TypeOK, BeginAppend, RefuseAppend, vars
  <2>3. QED BY <1>2, <2>1, <2>2
<1>4. ASSUME NEW w \in Writer, AppendStep(w)
      PROVE  HistoryHeld'
  <2>1. CASE TakeLock(w) \/ GiveUp(w) \/ EnsureLedger(w) \/ ReleaseLock(w)
    <3>1. mode[w] = "signed" \/ ~EnsureLedger(w)
      BY DEF SigningWriters, EnsureLedger
    <3>2. UNCHANGED <<lines, sidecar, trust, row>>
      BY <2>1 DEF TakeLock, GiveUp, EnsureLedger, ReleaseLock
    <3>3. \A v \in Writer : pc'[v] \in {"tip", "text"} => pc'[v] = pc[v]
      BY <2>1, <3>1 DEF TypeOK, TakeLock, GiveUp, EnsureLedger, ReleaseLock
    <3>4. QED BY <1>2, <3>2, <3>3
  <2>2. CASE VerifyHistory(w)
    <3>1. UNCHANGED <<lines, sidecar, trust, row>>
      BY <2>2 DEF VerifyHistory
    <3>2. pc'[w] = "tip" => Readable /\ LastHash = TipHash
      BY <2>2 DEF TypeOK, VerifyHistory, SignedTipIntact, SignedLedgerVerifies, HashChainVerifies
    <3>3. pc'[w] # "text" /\ \A v \in Writer : v # w => pc'[v] = pc[v]
      BY <2>2 DEF TypeOK, VerifyHistory
    <3>4. QED BY <1>1, <3>1, <3>2, <3>3 DEF HistoryHeld
  <2>3. CASE SealRow(w)
    <3>1. UNCHANGED <<lines, sidecar, trust>> /\ Readable /\ LastHash = TipHash
      BY <2>3 DEF SealRow, HistoryHeld
    <3>2. pc'[w] # "tip" /\ \A v \in Writer : v # w => pc'[v] = pc[v] /\ row'[v] = row[v]
      BY <2>3 DEF TypeOK, SealRow
    <3>3. pc'[w] = "text" => row'[w].prev = LastHash /\ row'[w].key = key[w]
      BY <2>3 DEF TypeOK, SealRow
    <3>4. key[w] \in trust
      BY <2>3 DEF SealRow, SigningWriters
    <3>5. QED BY <1>1, <3>1, <3>2, <3>3, <3>4 DEF HistoryHeld
  <2>4. CASE WriteText(w) \/ WriteNewline(w) \/ TruncateSidecar(w) \/ FillSidecar(w)
    <3>1. lock = w /\ pc'[w] \notin {"tip", "text"}
      BY <2>4 DEF TypeOK, LockExclusive, Holding, WriteText, WriteNewline,
         TruncateSidecar, FillSidecar
    <3>2. \A v \in Writer : v # w => pc'[v] = pc[v] /\ pc[v] \notin Holding
      BY <2>4, <3>1 DEF TypeOK, LockExclusive, WriteText, WriteNewline,
         TruncateSidecar, FillSidecar
    <3>3. QED BY <3>1, <3>2 DEF HistoryHeld
  <2>5. QED BY <1>4, <2>1, <2>2, <2>3, <2>4 DEF AppendStep
<1>5. ASSUME NEW w \in Writer, FaultStep(w)
      PROVE  HistoryHeld'
  <2>1. CASE WriteTextFails(w)
    <3>1. lock = w /\ pc'[w] \notin {"tip", "text"}
      BY <2>1 DEF TypeOK, LockExclusive, WriteTextFails
    <3>2. \A v \in Writer : v # w => pc'[v] = pc[v] /\ pc[v] \notin Holding
      BY <2>1, <3>1 DEF TypeOK, LockExclusive, WriteTextFails
    <3>3. QED BY <3>1, <3>2 DEF HistoryHeld
  <2>2. CASE LaterStepFails(w) \/ Crash(w) \/ Restart(w)
    <3>1. UNCHANGED <<lines, sidecar, trust, row>>
      BY <2>2 DEF LaterStepFails, Crash, Restart
    <3>2. \A v \in Writer : pc'[v] \in {"tip", "text"} => pc'[v] = pc[v]
      BY <2>2 DEF TypeOK, LaterStepFails, Crash, Restart
    <3>3. QED BY <1>2, <3>1, <3>2
  <2>3. QED BY <1>5, <2>1, <2>2 DEF FaultStep
<1>6. ASSUME OperatorUnlock \/ UNCHANGED vars
      PROVE  HistoryHeld'
  BY <1>2, <1>6 DEF OperatorUnlock, vars
<1>7. QED
  BY <1>3, <1>4, <1>5, <1>6 DEF Next, Exhausted, SignedOnlyLedger

\* When every append is a signed one, damage stops at the tail for any number of
\* writers, appends, crashes, failed writes and removed locks: each whole row is
\* linked to a whole row before it and signed by a published key.
THEOREM SignedHistoryIntact ==
  ASSUME SignedOnlyLedger
  PROVE  Spec => []OnlyTailDamaged
<1>1. Init => SigningWriters /\ HistoryHeld /\ OnlyTailDamaged
  BY KeyAssumption DEF Init, SigningWriters, HistoryHeld, OnlyTailDamaged
<1>2. TypeInv /\ LockExclusive /\ SigningWriters /\ HistoryHeld /\ OnlyTailDamaged
        /\ [Next]_vars => SigningWriters' /\ HistoryHeld' /\ OnlyTailDamaged'
  BY SigningWritersStep, HistoryHeldStep, TailDamagedStep DEF SignedInv
<1>3. QED BY <1>1, <1>2, TypeCorrect, MutualExclusion, PTL DEF Spec, TypeInv

-----------------------------------------------------------------------------
(* Every kind of append, no fault: the chain and the acknowledged rows hold. *)

UndisturbedLedger == Fault = {} /\ Installer = {}

\* Outside the update the cached tip is the last row's hash.  Within it the
\* holder's row is the last one, and its line is open only before its newline.
TipKnown ==
  /\ (\A w \in Writer : pc[w] \notin {"newline", "sidecar", "fill"}) => LastHash = TipHash
  /\ open => \E w \in Writer : pc[w] = "newline"
  /\ \A w \in Writer :
       /\ pc[w] # "dead"
       /\ pc[w] = "text" => row[w].prev = TipHash
       /\ pc[w] \in {"newline", "sidecar", "fill", "commit"} => TipHash = row[w].id

ChainInv ==
  TypeInv /\ LockExclusive /\ TipKnown /\ HashChainVerifies /\ AckedRowsSurvive

\* While one process writes, every other is outside the scope of the lock.
LEMMA SoleHolder ==
  ASSUME LockExclusive, NEW w \in Writer, pc[w] \in Holding
  PROVE  \A v \in Writer : v # w => pc[v] \notin Holding
BY DEF LockExclusive

\* A linked row appended to a closed file is the new tip, and what was there stays.
LEMMA AppendKeepsChain ==
  ASSUME TypeOK, HashChainVerifies, AckedRowsSurvive, ~open, UNCHANGED acked,
         NEW r \in Line, WholeRow(r), r.prev = TipHash, PutText(r)
  PROVE  HashChainVerifies' /\ AckedRowsSurvive' /\ TipHash' = r.id
<1> USE DEF WholeRow, Linked
<1>1. lines \in Seq(Line) /\ Len(lines) \in Nat
  BY DEF TypeOK
<1>2. /\ lines' = Append(lines, r)
      /\ Len(lines') = Len(lines) + 1
      /\ \A i \in 1..Len(lines) : lines'[i] = lines[i]
      /\ lines'[Len(lines) + 1] = r
  <2>1. lines' = Append(lines, r)
    BY DEF PutText
  <2>2. QED BY <1>1, <2>1, AppendProperties
<1>3. r.prev = IF Len(lines) = 0 THEN NoHash ELSE lines'[Len(lines)].id
  <2>1. TipHash = IF Len(lines) = 0 THEN NoHash ELSE lines[Len(lines)].id
    BY <1>1 DEF TipHash
  <2>2. Len(lines) # 0 => lines'[Len(lines)] = lines[Len(lines)]
    BY <1>1, <1>2
  <2>3. QED BY <2>1, <2>2
<1>4. ASSUME NEW i \in 1..Len(lines')
      PROVE  WholeRow(lines'[i]) /\ Linked(i)'
  <2>1. CASE i \in 1..Len(lines)
    <3>1. WholeRow(lines[i]) /\ Linked(i)
      BY <2>1 DEF HashChainVerifies, Readable
    <3>2. lines'[i] = lines[i] /\ (i # 1 => lines'[i - 1] = lines[i - 1])
      BY <1>1, <1>2, <2>1
    <3>3. QED BY <3>1, <3>2
  <2>2. CASE i \notin 1..Len(lines)
    <3>1. i = Len(lines) + 1 /\ lines'[i] = r
      BY <1>1, <1>2, <2>2
    <3>2. i - 1 = Len(lines) /\ (i = 1 <=> Len(lines) = 0)
      BY <1>1, <3>1
    <3>3. QED BY <1>3, <3>1, <3>2
  <2>3. QED BY <2>1, <2>2
<1>5. TipHash' = r.id
  <2>1. lines' # <<>>
    BY <1>1, <1>2
  <2>2. QED BY <1>1, <1>2, <2>1 DEF TipHash
<1>6. AckedRowsSurvive'
  <2>1. ASSUME NEW h \in acked
        PROVE  \E i \in 1..Len(lines') : lines'[i].id = h
    <3>1. PICK i \in 1..Len(lines) : lines[i].id = h
      BY DEF AckedRowsSurvive
    <3>2. i \in 1..Len(lines') /\ lines'[i].id = h
      BY <1>1, <1>2, <3>1
    <3>3. QED BY <3>2
  <2>2. QED BY <2>1 DEF AckedRowsSurvive
<1>7. QED BY <1>4, <1>5, <1>6 DEF HashChainVerifies, Readable

\* Steps that leave the lines alone disturb neither the chain nor the rows.
LEMMA LinesKept ==
  ASSUME HashChainVerifies, AckedRowsSurvive, UNCHANGED lines
  PROVE  /\ HashChainVerifies'
         /\ TipHash' = TipHash
         /\ acked' = acked => AckedRowsSurvive'
BY DEF HashChainVerifies, Readable, WholeRow, Linked, TipHash, AckedRowsSurvive

\* Without faults every step keeps the chain, the tip and the acknowledged rows.
LEMMA ChainStep ==
  ASSUME Fault = {}, ChainInv, [Next]_vars,
         \A i \in Installer : instPc[i] # "events!"
  PROVE  TipKnown' /\ HashChainVerifies' /\ AckedRowsSurvive'
<1> DEFINE Goal == TipKnown' /\ HashChainVerifies' /\ AckedRowsSurvive'
<1> USE DEF ChainInv, TypeInv, Goto, fileVars, procVars, keyVars
\* A step of a process outside the update that moves no process into or out of it.
<1>1. ASSUME UNCHANGED <<lines, open, sidecar, acked>>,
             NEW w \in Writer, \A v \in Writer : v # w => pc'[v] = pc[v] /\ row'[v] = row[v],
             pc[w] \notin {"newline", "sidecar", "fill"},
             pc'[w] \notin {"text", "newline", "sidecar", "fill", "commit", "dead"}
      PROVE  Goal
  <2>1. LastHash' = LastHash /\ TipHash' = TipHash
    BY <1>1 DEF LastHash, TipHash
  <2>2. (\A v \in Writer : pc'[v] \notin {"newline", "sidecar", "fill"})
          => LastHash' = TipHash'
    BY <1>1, <2>1 DEF TipKnown
  <2>3. open' => \E v \in Writer : pc'[v] = "newline"
    BY <1>1 DEF TipKnown
  <2>4. ASSUME NEW v \in Writer
        PROVE  /\ pc'[v] # "dead"
               /\ pc'[v] = "text" => row'[v].prev = TipHash'
               /\ pc'[v] \in {"newline", "sidecar", "fill", "commit"}
                    => TipHash' = row'[v].id
    BY <1>1, <2>1 DEF TipKnown
  <2>5. QED BY <1>1, <2>2, <2>3, <2>4, LinesKept DEF TipKnown
\* The holder is alone in the scope of the lock.
<1>2. ASSUME NEW w \in Writer, pc[w] \in Holding, NEW v \in Writer, v # w
      PROVE  pc[v] \notin Holding
  BY <1>2, SoleHolder
<1>3. ASSUME NEW w \in Writer, NEW m \in Mode, BeginAppend(w, m)
      PROVE  Goal
  <2>1. /\ UNCHANGED <<lines, open, sidecar, acked>>
        /\ pc[w] = "idle" /\ pc'[w] = "lock"
        /\ \A v \in Writer : v # w => pc'[v] = pc[v] /\ row'[v] = row[v]
    BY <1>3 DEF TypeOK, BeginAppend
  <2>2. QED BY <1>1, <2>1
<1>4. ASSUME NEW w \in Writer, TakeLock(w) \/ GiveUp(w) \/ EnsureLedger(w) \/ VerifyHistory(w)
      PROVE  Goal
  <2>1. /\ UNCHANGED <<lines, open, sidecar, acked, row>>
        /\ pc[w] \in {"lock", "ensure", "verify"}
        /\ pc'[w] \in {"idle", "ensure", "verify", "tip", "fail"}
        /\ \A v \in Writer : v # w => pc'[v] = pc[v]
    BY <1>4 DEF TypeOK, TakeLock, GiveUp, EnsureLedger, VerifyHistory
  <2>2. QED BY <1>1, <2>1
<1>5. ASSUME NEW w \in Writer, SealRow(w)
      PROVE  Goal
  <2>1. \A v \in Writer : pc[v] \notin {"newline", "sidecar", "fill"}
    BY <1>2, <1>5 DEF SealRow, Holding
  <2>2. LastHash = TipHash
    BY <2>1 DEF TipKnown
  <2>3. UNCHANGED <<lines, open, sidecar, acked>> /\ pc[w] = "tip"
    BY <1>5 DEF SealRow
  <2>4. \A v \in Writer : v # w => pc'[v] = pc[v] /\ row'[v] = row[v]
    BY <1>5 DEF TypeOK, SealRow
  <2>5. \/ pc'[w] = "fail"
        \/ pc'[w] = "text" /\ row'[w].prev = LastHash
    BY <1>5 DEF TypeOK, SealRow
  <2>6. LastHash' = LastHash /\ TipHash' = TipHash
    BY <2>3 DEF LastHash, TipHash
  <2>7. ~open'
    BY <2>1, <2>3 DEF TipKnown
  <2>8. ASSUME NEW v \in Writer
        PROVE  /\ pc'[v] # "dead"
               /\ pc'[v] = "text" => row'[v].prev = TipHash'
               /\ pc'[v] \in {"newline", "sidecar", "fill", "commit"}
                    => TipHash' = row'[v].id
    BY <2>2, <2>4, <2>5, <2>6 DEF TipKnown
  <2>9. QED BY <2>2, <2>3, <2>6, <2>7, <2>8, LinesKept DEF TipKnown
<1>6. ASSUME NEW w \in Writer, WriteText(w)
      PROVE  Goal
  <2>1. \A v \in Writer : v # w => pc[v] \notin Holding
    BY <1>2, <1>6 DEF WriteText, Holding
  <2>2. ~open
    BY <1>6, <2>1 DEF TipKnown, WriteText, Holding
  <2>3. row[w] \in Line /\ WholeRow(row[w]) /\ row[w].prev = TipHash
    BY <1>6, BoundAssumption DEF TypeOK, RowsDrawn, TipKnown, WholeRow, WriteText
  <2>4. HashChainVerifies' /\ AckedRowsSurvive' /\ TipHash' = row[w].id
    BY <1>6, <2>2, <2>3, AppendKeepsChain DEF WriteText
  <2>5. pc'[w] = "newline" /\ row' = row /\ \A v \in Writer : v # w => pc'[v] = pc[v]
    BY <1>6 DEF TypeOK, WriteText
  <2>6. ASSUME NEW v \in Writer
        PROVE  /\ pc'[v] # "dead"
               /\ pc'[v] = "text" => row'[v].prev = TipHash'
               /\ pc'[v] \in {"newline", "sidecar", "fill", "commit"}
                    => TipHash' = row'[v].id
    BY <2>1, <2>4, <2>5 DEF TipKnown, Holding
  <2>7. QED BY <2>4, <2>5, <2>6 DEF TipKnown
<1>7. ASSUME NEW w \in Writer, WriteNewline(w) \/ TruncateSidecar(w) \/ FillSidecar(w)
      PROVE  Goal
  <2>1. \A v \in Writer : v # w => pc[v] \notin Holding
    BY <1>2, <1>7 DEF WriteNewline, TruncateSidecar, FillSidecar, Holding
  <2>2. UNCHANGED <<lines, acked, row>> /\ \A v \in Writer : v # w => pc'[v] = pc[v]
    BY <1>7 DEF TypeOK, WriteNewline, TruncateSidecar, FillSidecar
  <2>3. TipHash = row[w].id /\ TipHash' = TipHash
    BY <1>7, <2>2 DEF TipKnown, TipHash, WriteNewline, TruncateSidecar, FillSidecar
  <2>4. ~open'
    BY <1>7, <2>1 DEF TipKnown, WriteNewline, TruncateSidecar, FillSidecar, Holding
  <2>5. \/ pc'[w] \in {"sidecar", "fill"}
        \/ pc'[w] = "commit" /\ sidecar' = row[w].id
    BY <1>7 DEF TypeOK, WriteNewline, TruncateSidecar, FillSidecar
  <2>6. pc'[w] = "commit" => LastHash' = TipHash'
    BY <2>3, <2>5 DEF LastHash
  <2>7. ASSUME NEW v \in Writer
        PROVE  /\ pc'[v] # "dead"
               /\ pc'[v] = "text" => row'[v].prev = TipHash'
               /\ pc'[v] \in {"newline", "sidecar", "fill", "commit"}
                    => TipHash' = row'[v].id
    BY <2>1, <2>2, <2>3, <2>5 DEF TipKnown, Holding
  <2>8. QED BY <2>2, <2>4, <2>5, <2>6, <2>7, LinesKept DEF TipKnown
<1>8. ASSUME NEW w \in Writer, ReleaseLock(w)
      PROVE  Goal
  <2>1. /\ UNCHANGED <<lines, open, sidecar, row>>
        /\ pc[w] \in {"commit", "fail"} /\ pc'[w] = "idle"
        /\ \A v \in Writer : v # w => pc'[v] = pc[v]
    BY <1>8 DEF TypeOK, ReleaseLock
  <2>2. HashChainVerifies' /\ TipHash' = TipHash /\ LastHash' = LastHash
    BY <2>1, LinesKept DEF LastHash, TipHash
  <2>3. TipKnown'
    <3>1. (\A v \in Writer : pc'[v] \notin {"newline", "sidecar", "fill"})
            => LastHash' = TipHash'
      BY <2>1, <2>2 DEF TipKnown
    <3>2. open' => \E v \in Writer : pc'[v] = "newline"
      BY <2>1 DEF TipKnown
    <3>3. ASSUME NEW v \in Writer
          PROVE  /\ pc'[v] # "dead"
                 /\ pc'[v] = "text" => row'[v].prev = TipHash'
                 /\ pc'[v] \in {"newline", "sidecar", "fill", "commit"}
                      => TipHash' = row'[v].id
      BY <2>1, <2>2 DEF TipKnown
    <3>4. QED BY <3>1, <3>2, <3>3 DEF TipKnown
  <2>4. ASSUME NEW h \in acked'
        PROVE  \E i \in 1..Len(lines) : lines[i].id = h
    <3>1. CASE h \in acked
      BY <3>1 DEF AckedRowsSurvive
    <3>2. CASE h \notin acked
      <4>1. pc[w] = "commit" /\ h = row[w].id
        BY <1>8, <2>4, <3>2 DEF ReleaseLock
      <4>2. TipHash = h /\ h \in Hash
        BY <4>1 DEF TipKnown, RowsDrawn
      <4>3. lines # <<>> /\ lines[Len(lines)].id = h
        BY <4>2, BoundAssumption DEF TipHash
      <4>4. Len(lines) \in 1..Len(lines)
        BY <4>3 DEF TypeOK
      <4>5. QED BY <4>3, <4>4
    <3>3. QED BY <3>1, <3>2
  <2>5. QED BY <2>1, <2>2, <2>3, <2>4 DEF AckedRowsSurvive
<1>9. ASSUME OperatorUnlock \/ UNCHANGED vars
             \/ \E w \in Writer, m \in Mode : RefuseAppend(w, m)
      PROVE  Goal
  <2>1. UNCHANGED <<lines, open, sidecar, acked, pc, row>>
    BY <1>9 DEF OperatorUnlock, RefuseAppend, vars
  <2>2. LastHash' = LastHash /\ TipHash' = TipHash
    BY <2>1 DEF LastHash, TipHash
  <2>3. QED BY <2>1, <2>2, LinesKept DEF TipKnown
<1>10. ASSUME NEW w \in Writer, FaultStep(w)
       PROVE  FALSE
  BY <1>10 DEF FaultStep, WriteTextFails, LaterStepFails, Crash, Restart, TipKnown
\* An installer that found the ledger can only empty the sidecar.
<1>11. ASSUME NEW i \in Installer, InstallStep(i)
       PROVE  Goal
  <2>1. UNCHANGED <<lines, open, acked, pc, row>> /\ sidecar' \in {sidecar, NoHash}
    BY <1>11 DEF InstallStep, CheckEvents, CreateEvents, CheckSidecar, CreateSidecar
  <2>2. TipHash' = TipHash /\ LastHash' \in {LastHash, TipHash}
    BY <2>1 DEF LastHash, TipHash
  <2>3. QED BY <2>1, <2>2, LinesKept DEF TipKnown
<1>12. QED
  BY <1>3, <1>4, <1>5, <1>6, <1>7, <1>8, <1>9, <1>10, <1>11
     DEF Next, AppendStep, Exhausted

\* However the appends of any number of processes interleave, signed or not, the
\* ledger passes its hash-chain verification in every state and keeps every row
\* whose append returned Ok, as long as no process crashes and no write fails.
THEOREM ConcurrentAppendsChain ==
  ASSUME UndisturbedLedger
  PROVE  Spec => []HashChainVerifies /\ []AckedRowsSurvive
<1>1. Init => TipKnown /\ HashChainVerifies /\ AckedRowsSurvive
  BY DEF Init, TipKnown, HashChainVerifies, Readable, AckedRowsSurvive, LastHash, TipHash
<1>2. TypeInv /\ LockExclusive /\ TipKnown /\ HashChainVerifies /\ AckedRowsSurvive
        /\ [Next]_vars => TipKnown' /\ HashChainVerifies' /\ AckedRowsSurvive'
  BY ChainStep DEF ChainInv, UndisturbedLedger
<1>3. QED BY <1>1, <1>2, TypeCorrect, MutualExclusion, PTL DEF Spec, TypeInv
-----------------------------------------------------------------------------
(* Lines that are complete stay: for appends of every mode and all faults. *)

\* Writing text leaves the terminated lines alone.
LEMMA PutTextKeeps ==
  ASSUME TypeOK, NEW text \in Line, PutText(text)
  PROVE  KeepsTerminated
<1>1. lines \in Seq(Line) /\ Len(lines) \in Nat
  BY DEF TypeOK
<1>2. CASE open
  <2>1. lines' = [lines EXCEPT ![Len(lines)] = Torn]
    BY <1>2 DEF PutText
  <2>2. Len(lines') = Len(lines)
    BY <2>1, <1>1, ReplaceLine DEF Torn, Line
  <2>3. \A i \in 1..Len(lines) : i # Len(lines) => lines'[i] = lines[i]
    BY <2>1, <1>1
  <2>4. QED BY <1>1, <1>2, <2>2, <2>3 DEF KeepsTerminated
<1>3. CASE ~open
  <2>1. lines' = Append(lines, text)
    BY <1>3 DEF PutText
  <2>2. QED BY <1>1, <2>1 DEF KeepsTerminated
<1>4. QED BY <1>2, <1>3

\* An append never changes or removes a line that has its newline, for any number
\* of writers of any mode and every fault: without installers nothing truncates.
THEOREM CompleteLinesStay ==
  ASSUME Installer = {}
  PROVE  Spec => TerminatedLinesImmutable
<1>1. TypeOK /\ RowsDrawn /\ [Next]_vars => [KeepsTerminated]_vars
  <2> SUFFICES ASSUME TypeOK, Next
               PROVE  KeepsTerminated \/ UNCHANGED vars
    OBVIOUS
  <2>1. ASSUME UNCHANGED lines
        PROVE  KeepsTerminated
    BY <2>1 DEF KeepsTerminated, TypeOK
  <2>2. \A w \in Writer : row[w] \in Line
    BY DEF TypeOK
  <2>3. Torn \in Line
    BY DEF Torn, Line
  <2>4. ASSUME NEW w \in Writer, NEW m \in Mode, BeginAppend(w, m) \/ RefuseAppend(w, m)
        PROVE  KeepsTerminated
    BY <2>4, <2>1 DEF BeginAppend, RefuseAppend, fileVars, vars
  <2>5. ASSUME NEW w \in Writer, AppendStep(w)
        PROVE  KeepsTerminated
    <3>1. CASE WriteText(w)
      BY <3>1, <2>2, PutTextKeeps DEF WriteText
    <3>2. CASE ~WriteText(w)
      BY <3>2, <2>5, <2>1 DEF AppendStep, TakeLock, GiveUp, EnsureLedger, VerifyHistory,
         SealRow, WriteNewline, TruncateSidecar, FillSidecar, ReleaseLock, fileVars
    <3>3. QED BY <3>1, <3>2
  <2>6. ASSUME NEW w \in Writer, FaultStep(w)
        PROVE  KeepsTerminated
    <3>1. CASE WriteTextFails(w)
      BY <3>1, <2>1, <2>3, PutTextKeeps DEF WriteTextFails
    <3>2. CASE ~WriteTextFails(w)
      BY <3>2, <2>6, <2>1 DEF FaultStep, LaterStepFails, Crash, Restart, fileVars
    <3>3. QED BY <3>1, <3>2
  <2>7. CASE OperatorUnlock
    BY <2>7, <2>1 DEF OperatorUnlock, fileVars
  <2>8. CASE Exhausted
    BY <2>8 DEF Exhausted
  <2>9. QED BY <2>4, <2>5, <2>6, <2>7, <2>8 DEF Next
<1>2. QED BY <1>1, TypeCorrect, PTL DEF Spec, TerminatedLinesImmutable

-----------------------------------------------------------------------------
(* The rows in the ledger for good are an append-only log. *)

\* An identity is drawn for one row, which is written once.
Unwritten == {"lock", "ensure", "verify", "tip", "text"}

IdsOnce ==
  /\ \A i \in 1..Len(lines) : lines[i].id < nextId
  /\ \A i, j \in 1..Len(lines) :
       i # j /\ WholeRow(lines[i]) => lines[i].id # lines[j].id
  /\ \A w \in Writer : pc[w] \in Unwritten =>
       /\ row[w].id < nextId
       /\ row[w].id # NoHash
       /\ \A i \in 1..Len(lines) : lines[i].id # row[w].id
       /\ \A v \in Writer : v # w /\ pc[v] \in Unwritten => row[v].id # row[w].id

\* Text that is nobody's row yet, or no row at all, keeps lines apart.
LEMMA PutTextIds ==
  ASSUME TypeOK, IdsOnce, NEW text \in Line, PutText(text), text.id < nextId,
         WholeRow(text) => \A i \in 1..Len(lines) : lines[i].id # text.id
  PROVE  /\ \A i \in 1..Len(lines') : lines'[i].id < nextId
         /\ \A i, j \in 1..Len(lines') :
              i # j /\ WholeRow(lines'[i]) => lines'[i].id # lines'[j].id
         /\ \A i \in 1..Len(lines') :
              \/ lines'[i].id \in {NoHash, text.id}
              \/ i \in 1..Len(lines) /\ lines'[i].id = lines[i].id
<1> USE DEF WholeRow
<1>1. lines \in Seq(Line) /\ Len(lines) \in Nat /\ nextId \in Nat /\ nextId > 0
  BY BoundAssumption DEF TypeOK
<1>2. CASE open
  <2>1. lines' = [lines EXCEPT ![Len(lines)] = Torn]
    BY <1>2 DEF PutText
  <2>2. /\ Len(lines') = Len(lines)
        /\ \A i \in 1..Len(lines) :
             lines'[i] = IF i = Len(lines) THEN Torn ELSE lines[i]
    BY <1>1, <2>1
  <2>3. Torn.id = NoHash /\ NoHash < nextId
    BY <1>1
  <2>4. \A i \in 1..Len(lines') : lines'[i].id = NoHash \/ lines'[i] = lines[i]
    BY <2>2, <2>3
  <2>5. \A i, j \in 1..Len(lines') :
          i # j /\ WholeRow(lines'[i]) => lines'[i].id # lines'[j].id
    BY <2>2, <2>4 DEF IdsOnce
  <2>6. QED BY <2>2, <2>3, <2>4, <2>5 DEF IdsOnce
<1>3. CASE ~open
  <2>1. lines' = Append(lines, text)
    BY <1>3 DEF PutText
  <2>2. /\ Len(lines') = Len(lines) + 1
        /\ \A i \in 1..Len(lines) : lines'[i] = lines[i]
        /\ lines'[Len(lines) + 1] = text
    BY <1>1, <2>1, AppendProperties
  <2>3. \A i \in 1..Len(lines') : i \in 1..Len(lines) \/ i = Len(lines) + 1
    BY <1>1, <2>2
  <2>4. ASSUME NEW i \in 1..Len(lines'), NEW j \in 1..Len(lines'), i # j, WholeRow(lines'[i])
        PROVE  lines'[i].id # lines'[j].id
    <3>1. CASE i \in 1..Len(lines) /\ j \in 1..Len(lines)
      BY <2>2, <2>4, <3>1 DEF IdsOnce
    <3>2. CASE i = Len(lines) + 1
      <4>1. lines'[i] = text /\ WholeRow(text) /\ j \in 1..Len(lines)
        BY <2>2, <2>3, <2>4, <3>2
      <4>2. QED BY <2>2, <4>1
    <3>3. CASE j = Len(lines) + 1
      <4>1. lines'[j] = text /\ i \in 1..Len(lines) /\ WholeRow(lines[i])
        BY <2>2, <2>3, <2>4, <3>3
      <4>2. QED BY <2>2, <4>1
    <3>4. QED BY <2>3, <3>1, <3>2, <3>3
  <2>5. QED BY <2>2, <2>3, <2>4 DEF IdsOnce
<1>4. QED BY <1>2, <1>3 DEF TypeOK

\* No step writes an identity twice.
LEMMA IdsOnceStep ==
  ASSUME Installer = {}, TypeInv, IdsOnce, [Next]_vars
  PROVE  IdsOnce'
<1> USE DEF TypeInv, Unwritten, Goto, fileVars, procVars, keyVars
<1>1. nextId \in Nat /\ \A w \in Writer : row[w].id \in Nat
  BY BoundAssumption DEF TypeOK
<1>2. ASSUME NEW w \in Writer, NEW m \in Mode, BeginAppend(w, m)
      PROVE  IdsOnce'
  <2>1. /\ row'[w].id = nextId /\ nextId' = nextId + 1 /\ UNCHANGED lines
        /\ nextId # NoHash
        /\ \A v \in Writer : v # w => pc'[v] = pc[v] /\ row'[v] = row[v]
    BY <1>2 DEF TypeOK, BeginAppend
  <2>2. \A i \in 1..Len(lines) : lines[i].id \in Nat
    <3>1. lines \in Seq(Line)
      BY DEF TypeOK
    <3>2. \A i \in 1..Len(lines) : lines[i] \in Line
      BY <3>1, ElementOfSeq
    <3>3. QED BY <3>2, BoundAssumption
  <2>3. \A v \in Writer : pc'[v] \in Unwritten => v = w \/ (pc[v] \in Unwritten /\ row'[v] = row[v])
    BY <2>1
  <2>4. QED BY <1>1, <2>1, <2>2, <2>3 DEF IdsOnce, WholeRow
<1>3. ASSUME UNCHANGED <<lines, nextId>>,
             \A v \in Writer : pc'[v] \in Unwritten => pc[v] \in Unwritten /\ row'[v].id = row[v].id
      PROVE  IdsOnce'
  BY <1>3 DEF IdsOnce, WholeRow
<1>4. ASSUME NEW w \in Writer, pc[w] = "text", pc'[w] \notin Unwritten,
             NEW text \in Line, PutText(text), text.id \in {NoHash, row[w].id},
             \A v \in Writer : v # w => pc'[v] = pc[v],
             UNCHANGED <<row, nextId>>
      PROVE  IdsOnce'
  <2>1. text.id < nextId
    BY <1>1, <1>4, BoundAssumption DEF IdsOnce, TypeOK
  <2>2. WholeRow(text) => \A i \in 1..Len(lines) : lines[i].id # text.id
    BY <1>4 DEF IdsOnce, WholeRow
  <2>3. /\ \A i \in 1..Len(lines') : lines'[i].id < nextId
        /\ \A i, j \in 1..Len(lines') :
             i # j /\ WholeRow(lines'[i]) => lines'[i].id # lines'[j].id
        /\ \A i \in 1..Len(lines') :
             \/ lines'[i].id \in {NoHash, text.id}
             \/ i \in 1..Len(lines) /\ lines'[i].id = lines[i].id
    BY <1>4, <2>1, <2>2, PutTextIds
  <2>4. ASSUME NEW v \in Writer, pc'[v] \in Unwritten, NEW i \in 1..Len(lines')
        PROVE  lines'[i].id # row[v].id
    <3>1. v # w /\ pc[v] \in Unwritten
      BY <1>4, <2>4
    <3>2. row[v].id # row[w].id /\ row[v].id # NoHash
      BY <1>4, <3>1 DEF IdsOnce
    <3>3. QED BY <1>4, <2>3, <3>1, <3>2 DEF IdsOnce
  <2>5. \A v \in Writer : pc'[v] \in Unwritten => v # w /\ pc[v] \in Unwritten
    BY <1>4
  <2>6. QED BY <1>4, <2>3, <2>4, <2>5 DEF IdsOnce, WholeRow
<1>5. ASSUME NEW w \in Writer, WriteText(w)
      PROVE  IdsOnce'
  <2>1. row[w] \in Line
    BY DEF TypeOK
  <2>2. pc'[w] = "newline" /\ \A v \in Writer : v # w => pc'[v] = pc[v]
    BY <1>5 DEF TypeOK, WriteText
  <2>3. QED BY <1>4, <1>5, <2>1, <2>2 DEF WriteText
<1>6. ASSUME NEW w \in Writer, WriteTextFails(w)
      PROVE  IdsOnce'
  <2>1. pc'[w] = "fail" /\ \A v \in Writer : v # w => pc'[v] = pc[v]
    BY <1>6 DEF TypeOK, WriteTextFails
  <2>2. CASE PutText(Torn)
    BY <1>4, <1>6, <2>1, <2>2 DEF WriteTextFails
  <2>3. CASE UNCHANGED lines
    BY <1>3, <1>6, <2>1, <2>3 DEF WriteTextFails
  <2>4. QED BY <1>6, <2>2, <2>3 DEF WriteTextFails
<1>7. ASSUME NEW w \in Writer, AppendStep(w), ~WriteText(w)
      PROVE  IdsOnce'
  <2>1. UNCHANGED <<lines, nextId>>
    BY <1>7 DEF AppendStep, TakeLock, GiveUp, EnsureLedger, VerifyHistory, SealRow,
       WriteNewline, TruncateSidecar, FillSidecar, ReleaseLock
  <2>2. \A v \in Writer : pc'[v] \in Unwritten => pc[v] \in Unwritten /\ row'[v].id = row[v].id
    BY <1>7 DEF TypeOK, AppendStep, TakeLock, GiveUp, EnsureLedger, VerifyHistory, SealRow,
       WriteNewline, TruncateSidecar, FillSidecar, ReleaseLock
  <2>3. QED BY <1>3, <2>1, <2>2
<1>8. ASSUME NEW w \in Writer, LaterStepFails(w) \/ Crash(w) \/ Restart(w)
      PROVE  IdsOnce'
  BY <1>3, <1>8 DEF TypeOK, LaterStepFails, Crash, Restart
<1>9. ASSUME OperatorUnlock \/ UNCHANGED vars
             \/ \E w \in Writer, m \in Mode : RefuseAppend(w, m)
      PROVE  IdsOnce'
  BY <1>3, <1>9 DEF OperatorUnlock, RefuseAppend, vars
<1>10. QED
  BY <1>2, <1>5, <1>6, <1>7, <1>8, <1>9 DEF Next, FaultStep, Exhausted

\* Text is only put behind a whole row, and a row that gets its newline names the
\* row before it.
TailSound ==
  /\ open /\ lines # <<>> /\ WholeRow(lines[Len(lines)]) => Linked(Len(lines))
  /\ \A w \in Writer :
       pc[w] = "text" /\ ~open /\ lines # <<>> => WholeRow(lines[Len(lines)])

\* Text without its newline is not in the ledger for good.
LEMMA PutTextCommits ==
  ASSUME TypeOK, NEW text \in Line, PutText(text),
         ~open /\ lines # <<>> => WholeRow(lines[Len(lines)])
  PROVE  CommittedRows' = CommittedRows
<1> DEFINE n == Len(lines)
<1>1. lines \in Seq(Line) /\ n \in Nat /\ open' = TRUE
  BY DEF TypeOK, PutText
<1>2. CASE open
  <2>1. lines' = [lines EXCEPT ![n] = Torn]
    BY <1>2 DEF PutText
  <2>2. Len(lines') = n /\ \A i \in 1..n : i # n => lines'[i] = lines[i]
    BY <1>1, <2>1
  <2>3. CASE n = 0
    BY <1>1, <2>2, <2>3 DEF CommittedRows
  <2>4. CASE n # 0
    <3>1. SubSeq(lines', 1, n - 1) = SubSeq(lines, 1, n - 1)
      BY <1>1, <2>2, <2>4
    <3>2. CommittedRows = SubSeq(lines, 1, n - 1)
      BY <1>1, <1>2, <2>4 DEF CommittedRows
    <3>3. CommittedRows' = SubSeq(lines', 1, Len(lines') - 1)
      BY <1>1, <2>2, <2>4 DEF CommittedRows
    <3>4. QED BY <2>2, <3>1, <3>2, <3>3
  <2>5. QED BY <2>3, <2>4
<1>3. CASE ~open
  <2>1. lines' = Append(lines, text)
    BY <1>3 DEF PutText
  <2>2. Len(lines') = n + 1 /\ \A i \in 1..n : lines'[i] = lines[i]
    BY <1>1, <2>1, AppendProperties
  <2>3. SubSeq(lines', 1, n) = lines
    BY <1>1, <2>2
  <2>4. CommittedRows' = SubSeq(lines', 1, n)
    BY <1>1, <2>2 DEF CommittedRows
  <2>5. CommittedRows = lines
    BY <1>1, <1>3 DEF CommittedRows
  <2>6. QED BY <2>3, <2>4, <2>5
<1>4. QED BY <1>2, <1>3 DEF TypeOK

\* The newline is what commits a row.
LEMMA NewlineCommits ==
  ASSUME TypeOK, IdsOnce, TailSound, UNCHANGED lines, open' = FALSE
  PROVE  CommittedRows' = CommittedRows \/ Log!Next
<1> DEFINE n == Len(lines)
           before == SubSeq(lines, 1, n - 1)
<1>1. lines \in Seq(Line) /\ n \in Nat
  BY DEF TypeOK
<1>2. CASE ~open \/ n = 0 \/ ~WholeRow(lines[n])
  BY <1>2 DEF CommittedRows, WholeRow
<1>3. CASE open /\ n # 0 /\ WholeRow(lines[n])
  <2>1. CommittedRows = before /\ CommittedRows' = lines
    BY <1>1, <1>3 DEF CommittedRows, WholeRow
  <2>2. /\ before \in Seq(Line) /\ Len(before) = n - 1
        /\ \A i \in 1..(n - 1) : before[i] = lines[i]
    <3>1. \A i \in 1..(n - 1) : lines[i] \in Line
      <4>1. \A i \in 1..(n - 1) : i \in 1..n
        BY <1>1
      <4>2. QED BY <1>1, <4>1, ElementOfSeq
    <3>2. n - 1 \in Nat
      BY <1>1, <1>3
    <3> HIDE DEF before, n
    <3>3. /\ before \in Seq(Line)
          /\ Len(before) = IF 1 <= n - 1 THEN (n - 1) - 1 + 1 ELSE 0
          /\ \A i \in 1..((n - 1) - 1 + 1) : before[i] = lines[1 + i - 1]
      BY <1>1, <3>1, <3>2, SubSeqProperties DEF before
    <3>4. Len(before) = n - 1
      BY <1>1, <3>2, <3>3
    <3>5. ASSUME NEW i \in 1..(n - 1)
          PROVE  before[i] = lines[i]
      <4>1. i \in 1..((n - 1) - 1 + 1) /\ 1 + i - 1 = i
        BY <1>1, <3>2
      <4>2. QED BY <3>3, <4>1
    <3>6. QED BY <3>3, <3>4, <3>5
  <2>10. n \in 1..n /\ lines[n] \in Line
    <3>1. n \in 1..n
      BY <1>1, <1>3
    <3>2. QED BY <1>1, <3>1, ElementOfSeq
  <2>3. lines = Append(before, lines[n])
    <3>1. /\ Append(before, lines[n]) \in Seq(Line)
          /\ Len(Append(before, lines[n])) = n
          /\ \A i \in 1..(n - 1) : Append(before, lines[n])[i] = before[i]
          /\ Append(before, lines[n])[n] = lines[n]
      BY <1>1, <2>10, <2>2, AppendProperties
    <3>2. \A i \in 1..n : Append(before, lines[n])[i] = lines[i]
      BY <1>1, <2>2, <3>1
    <3>3. QED BY <1>1, <3>1, <3>2, SeqEqual
  <2>4. lines[n] \in Log!Entry
    BY <1>3, <2>10 DEF Log!Entry, WholeRow
  <2>5. lines[n].prev = IF n = 1 THEN NoHash ELSE lines[n - 1].id
    BY <1>1, <1>3 DEF TailSound, Linked
  <2>6. Log!TipId = IF n = 1 THEN NoHash ELSE lines[n - 1].id
    <3> HIDE DEF before, n
    <3>1. before = <<>> <=> n = 1
      <4>1. before = <<>> => n = 1
        BY <1>1, <2>2, EmptySeq
      <4>2. before # <<>> => Len(before) # 0
        BY <2>2, EmptySeq
      <4>3. QED BY <1>1, <2>2, <4>1, <4>2
    <3>2. n # 1 => before[Len(before)] = lines[n - 1]
      BY <1>1, <1>3, <2>2
    <3>3. QED BY <2>1, <3>1, <3>2 DEF Log!TipId
  <2>7. \A i \in 1..Len(before) : before[i].id # lines[n].id
    BY <1>1, <1>3, <2>2 DEF IdsOnce
  <2> HIDE DEF before, n
  <2>8. Log!Extend(lines[n])
    BY <2>1, <2>3, <2>5, <2>6, <2>7 DEF Log!Extend
  <2>9. QED BY <2>4, <2>8 DEF Log!Next
<1>4. QED BY <1>2, <1>3

\* Every step of the ledger is a step of the abstract log or none of it.
LEMMA LogNext ==
  ASSUME Installer = {}, TypeInv, IdsOnce, TailSound, [Next]_vars
  PROVE  [Log!Next]_CommittedRows
<1> USE DEF TypeInv, fileVars
<1>1. ASSUME UNCHANGED <<lines, open>>
      PROVE  CommittedRows' = CommittedRows
  BY <1>1 DEF CommittedRows, WholeRow
<1>2. ASSUME NEW w \in Writer, WriteText(w) \/ (WriteTextFails(w) /\ PutText(Torn))
      PROVE  CommittedRows' = CommittedRows
  <2>1. row[w] \in Line /\ Torn \in Line
    BY DEF TypeOK
  <2>2. pc[w] = "text"
    BY <1>2 DEF WriteText, WriteTextFails
  <2>3. QED BY <1>2, <2>1, <2>2, PutTextCommits DEF TailSound, WriteText
<1>3. ASSUME NEW w \in Writer, WriteNewline(w)
      PROVE  CommittedRows' = CommittedRows \/ Log!Next
  BY <1>3, NewlineCommits DEF WriteNewline
<1>4. ASSUME NEW w \in Writer, AppendStep(w), ~WriteText(w), ~WriteNewline(w)
      PROVE  UNCHANGED <<lines, open>>
  BY <1>4 DEF AppendStep, TakeLock, GiveUp, EnsureLedger, VerifyHistory, SealRow,
     TruncateSidecar, FillSidecar, ReleaseLock
<1>5. ASSUME NEW w \in Writer, FaultStep(w), ~(WriteTextFails(w) /\ PutText(Torn))
      PROVE  UNCHANGED <<lines, open>>
  BY <1>5 DEF FaultStep, WriteTextFails, LaterStepFails, Crash, Restart
<1>6. ASSUME OperatorUnlock \/ UNCHANGED vars
             \/ \E w \in Writer, m \in Mode : BeginAppend(w, m) \/ RefuseAppend(w, m)
      PROVE  UNCHANGED <<lines, open>>
  BY <1>6 DEF OperatorUnlock, BeginAppend, RefuseAppend, vars
<1>7. QED
  BY <1>1, <1>2, <1>3, <1>4, <1>5, <1>6 DEF Next, FaultStep, Exhausted

\* The empty ledger is the empty log.
LEMMA LogInit == Init => IdsOnce /\ Log!Init
<1> SUFFICES ASSUME Init PROVE IdsOnce /\ Log!Init
  OBVIOUS
<1>1. lines = <<>> /\ Len(lines) = 0
  BY DEF Init
<1>2. IdsOnce
  BY <1>1 DEF Init, IdsOnce, Unwritten
<1>3. QED BY <1>1, <1>2 DEF Log!Init, CommittedRows

\* A ledger with lines has a last one.
LEMMA LastLine ==
  ASSUME TypeOK, lines # <<>>
  PROVE  Len(lines) \in 1..Len(lines)
BY DEF TypeOK

\* Through crashes, failed writes and removed locks, a ledger that is only
\* appended to with signatures is an append-only log: its rows for good are never
\* removed or changed, and each new one names the row before it.
THEOREM SignedLedgerIsLog ==
  ASSUME SignedOnlyLedger
  PROVE  Spec => ImplementsLog
<1>1. TypeInv /\ HistoryHeld /\ OnlyTailDamaged => TailSound
  BY LastLine DEF TypeInv, HistoryHeld, OnlyTailDamaged, Readable, TailSound
<1>2. TypeInv /\ HistoryHeld /\ OnlyTailDamaged /\ IdsOnce /\ [Next]_vars
        => IdsOnce' /\ [Log!Next]_CommittedRows
  BY <1>1, IdsOnceStep, LogNext DEF SignedOnlyLedger
<1>3. Init => SigningWriters /\ HistoryHeld /\ OnlyTailDamaged
  BY KeyAssumption DEF Init, SigningWriters, HistoryHeld, OnlyTailDamaged
<1>4. TypeInv /\ LockExclusive /\ SigningWriters /\ HistoryHeld /\ OnlyTailDamaged
        /\ [Next]_vars => SigningWriters' /\ HistoryHeld' /\ OnlyTailDamaged'
  BY SigningWritersStep, HistoryHeldStep, TailDamagedStep DEF SignedInv
<1>5. QED
  BY <1>2, <1>3, <1>4, LogInit, TypeCorrect, MutualExclusion, PTL
     DEF Spec, TypeInv, ImplementsLog, Log!Spec

\* Without crashes and failed writes the same holds for every mix of signed and
\* unsigned appends.
THEOREM UndisturbedLedgerIsLog ==
  ASSUME UndisturbedLedger
  PROVE  Spec => ImplementsLog
<1>1. TypeInv /\ HashChainVerifies => TailSound
  BY LastLine DEF TypeInv, HashChainVerifies, Readable, TailSound
<1>2. TypeInv /\ HashChainVerifies /\ IdsOnce /\ [Next]_vars
        => IdsOnce' /\ [Log!Next]_CommittedRows
  BY <1>1, IdsOnceStep, LogNext DEF UndisturbedLedger
<1>3. QED
  BY <1>2, LogInit, TypeCorrect, ConcurrentAppendsChain, PTL
     DEF Spec, TypeInv, ImplementsLog, Log!Spec

-----------------------------------------------------------------------------
(* Generations of the operator key *)

\* The keys whose rows verify, or will once the active key is published again.
Known == trust \cup {keyfile, NoKey}

\* Every key that is loaded, sealed into a row or written is still known.
KeysKnown ==
  /\ \A w \in Writer : key[w] \in Known /\ row[w].key \in Known
  /\ \A i \in 1..Len(lines) : lines[i].key \in Known

\* A generation takes the active key away only when it is published, and what it
\* publishes by truncating is the active key.
GeneratorInv ==
  /\ genPc \in {"truncate old", "fill old", "archive"} => oldKey \in Key /\ oldKey = keyfile
  /\ genPc = "archive" => oldKey \in trust
  /\ genPc = "truncate key" => keyfile = NoKey
  /\ genPc = "fill key" => keyfile = BadKey /\ newKey \in Key
  /\ genPc \in {"truncate new", "fill new"} => newKey \in Key /\ newKey = keyfile
  /\ genPc = "load" => keyfile # NoKey
  /\ settled => genPc = "idle" /\ keyfile \in trust \cup {NoKey}

KeyInv == TypeInv /\ KeyTypeOK /\ KeysKnown /\ GeneratorInv

\* What PutText writes is a known row, or a line without a key.
LEMMA PutTextKeys ==
  ASSUME TypeInv, KeysKnown, NEW text \in Line, text.key \in Known, PutText(text)
  PROVE  \A i \in 1..Len(lines') : lines'[i].key \in Known
<1>1. lines \in Seq(Line) /\ Torn \in Line /\ Torn.key \in Known
  BY DEF TypeInv, TypeOK, Known
<1>2. CASE open
  <2>1. lines' = [lines EXCEPT ![Len(lines)] = Torn]
    BY <1>2 DEF PutText
  <2>2. Len(lines') = Len(lines)
    BY <1>1, <2>1, ReplaceLine
  <2>3. \A i \in 1..Len(lines) : lines'[i] = Torn \/ lines'[i] = lines[i]
    BY <1>1, <2>1
  <2>4. QED BY <1>1, <2>2, <2>3 DEF KeysKnown
<1>3. CASE ~open
  <2>1. lines' = Append(lines, text)
    BY <1>3 DEF PutText
  <2>2. QED BY <1>1, <2>1 DEF KeysKnown
<1>4. QED BY <1>1, <1>2, <1>3 DEF TypeInv, TypeOK

\* Appends, crashes and installers hand keys on, from the key file to a writer, to
\* its row, to the ledger, and change neither the key file nor the directory.
LEMMA KeysHandedOn ==
  ASSUME TypeInv, KeysKnown, [Next]_vars
  PROVE  KeysKnown' /\ UNCHANGED keyVars
<1> USE DEF TypeInv, Goto, InstGoto, fileVars, procVars, keyVars, Known, KeysKnown
<1>1. ASSUME NEW w \in Writer, NEW m \in Mode, BeginAppend(w, m)
      PROVE  KeysKnown' /\ UNCHANGED keyVars
  <2>1. UNCHANGED <<lines, keyVars>>
    BY <1>1 DEF BeginAppend
  <2>2. \A v \in Writer : key'[v] \in Known
    BY <1>1 DEF BeginAppend, TypeOK
  <2>3. \A v \in Writer : row'[v].key \in Known
    BY <1>1 DEF BeginAppend, TypeOK
  <2>4. QED BY <2>1, <2>2, <2>3
<1>2. ASSUME NEW w \in Writer, AppendStep(w)
      PROVE  KeysKnown' /\ UNCHANGED keyVars
  <2>1. CASE SealRow(w)
    <3>1. \A v \in Writer : row'[v].key \in Known
      BY <2>1 DEF SealRow, TypeOK
    <3>2. UNCHANGED <<lines, key, keyVars>>
      BY <2>1 DEF SealRow
    <3>3. QED BY <3>1, <3>2
  <2>2. CASE WriteText(w)
    <3>1. UNCHANGED <<key, row, keyVars>> /\ PutText(row[w])
      BY <2>2 DEF WriteText
    <3>2. \A i \in 1..Len(lines') : lines'[i].key \in Known
      <4>1. row[w] \in Line /\ row[w].key \in Known
        BY DEF TypeOK
      <4>2. QED BY <3>1, <4>1, PutTextKeys
    <3>3. QED BY <3>1, <3>2
  <2>3. CASE TakeLock(w) \/ GiveUp(w) \/ EnsureLedger(w) \/ VerifyHistory(w)
    BY <2>3 DEF TakeLock, GiveUp, EnsureLedger, VerifyHistory
  <2>4. CASE WriteNewline(w) \/ TruncateSidecar(w) \/ FillSidecar(w) \/ ReleaseLock(w)
    BY <2>4 DEF WriteNewline, TruncateSidecar, FillSidecar, ReleaseLock
  <2>5. QED BY <1>2, <2>1, <2>2, <2>3, <2>4 DEF AppendStep
<1>3. ASSUME NEW w \in Writer, FaultStep(w)
      PROVE  KeysKnown' /\ UNCHANGED keyVars
  <2>1. CASE WriteTextFails(w)
    <3>1. UNCHANGED <<key, row, keyVars>>
      BY <2>1 DEF WriteTextFails
    <3>2. \A i \in 1..Len(lines') : lines'[i].key \in Known
      <4>1. CASE PutText(Torn)
        BY <4>1, PutTextKeys
      <4>2. CASE UNCHANGED <<lines, open, ledgerThere>>
        BY <4>2
      <4>3. QED BY <2>1, <4>1, <4>2 DEF WriteTextFails
    <3>3. QED BY <3>1, <3>2
  <2>2. CASE LaterStepFails(w) \/ Crash(w) \/ Restart(w)
    BY <2>2 DEF LaterStepFails, Crash, Restart
  <2>3. QED BY <1>3, <2>1, <2>2 DEF FaultStep
<1>4. ASSUME NEW i \in Installer, InstallStep(i)
      PROVE  KeysKnown' /\ UNCHANGED keyVars
  BY <1>4 DEF InstallStep, CheckEvents, CreateEvents, CheckSidecar, CreateSidecar
<1>5. CASE OperatorUnlock
  BY <1>5 DEF OperatorUnlock
<1>6. CASE (\E w \in Writer : \E m \in Mode : RefuseAppend(w, m)) \/ Exhausted \/ UNCHANGED vars
  BY <1>6 DEF RefuseAppend, Exhausted, vars
<1>7. QED BY <1>1, <1>2, <1>3, <1>4, <1>5, <1>6 DEF Next

-----------------------------------------------------------------------------
\* The invariant of the keys holds at the start.
LEMMA KeyInitially == KeyInit => KeyInv
<1> SUFFICES ASSUME KeyInit PROVE KeyInv
  OBVIOUS
<1>1. TypeInv
  BY TypeInitially DEF KeyInit
<1>2. KeyTypeOK
  BY <1>1, GeneratorAssumption DEF KeyInit, KeyTypeOK, TypeInv, TypeOK, GenPc, Init
<1>3. KeysKnown
  BY DEF KeyInit, Init, KeysKnown, Known
<1>4. GeneratorInv
  BY DEF KeyInit, Init, GeneratorInv
<1>5. QED BY <1>1, <1>2, <1>3, <1>4 DEF KeyInv

\* A step of a generation: no key that is in use stops being known.
LEMMA GeneratorKeepsKeys ==
  ASSUME KeyInv, GenerateStep
  PROVE  /\ GeneratorInv'
         /\ \A k \in Key \cup {NoKey} : k \in Known => k \in Known'
         /\ keyfile' \in Key \cup {NoKey, BadKey} /\ trust' \subseteq Key
<1> USE KeyAssumption DEF KeyInv, KeyTypeOK, TypeInv, TypeOK, GeneratorInv, Known,
        Quit, TruncatePub, FillPub, keyVars
<1>1. CASE Generate       BY <1>1 DEF Generate
<1>2. CASE LoadOld        BY <1>2 DEF LoadOld
<1>3. CASE TruncateOldPub BY <1>3 DEF TruncateOldPub
<1>4. CASE FillOldPub     BY <1>4 DEF FillOldPub
<1>5. CASE ArchiveOld     BY <1>5 DEF ArchiveOld
<1>6. CASE TruncateKey    BY <1>6 DEF TruncateKey
<1>7. CASE FillKey        BY <1>7 DEF FillKey
<1>8. CASE TruncateNewPub BY <1>8 DEF TruncateNewPub
<1>9. CASE FillNewPub     BY <1>9 DEF FillNewPub
<1>10. CASE GeneratorEnds BY <1>10 DEF GeneratorEnds
<1>11. QED
  BY <1>1, <1>2, <1>3, <1>4, <1>5, <1>6, <1>7, <1>8, <1>9, <1>10 DEF GenerateStep

\* And the types of what a generation keeps.
LEMMA GeneratorTypes ==
  ASSUME KeyInv, GenerateStep
  PROVE  /\ genPc' \in GenPc
         /\ oldKey' \in Key \cup {NoKey} /\ newKey' \in Key \cup {NoKey}
         /\ drawn' \subseteq Key
         /\ settled' \in BOOLEAN
         /\ generations' \in 0..MaxGenerations
<1>0. /\ genPc \in GenPc
      /\ oldKey \in Key \cup {NoKey} /\ newKey \in Key \cup {NoKey}
      /\ keyfile \in Key \cup {NoKey, BadKey} /\ drawn \subseteq Key
      /\ settled \in BOOLEAN /\ generations \in 0..MaxGenerations
      /\ genPc = "load" => keyfile # NoKey
  BY DEF KeyInv, KeyTypeOK, TypeOK, GeneratorInv
<1> USE <1>0, GeneratorAssumption DEF GenPc, Quit
<1>1. CASE Generate
  <2>1. generations' \in 0..MaxGenerations
    <3>1. generations < MaxGenerations /\ generations' = generations + 1
      BY <1>1 DEF Generate
    <3>2. generations \in 0..MaxGenerations /\ MaxGenerations \in Nat
      OBVIOUS
    <3> HIDE <1>0, <1>1, GeneratorAssumption
    <3>3. QED BY <3>1, <3>2
  <2>2. QED BY <1>1, <2>1 DEF Generate
<1>2. CASE LoadOld        BY <1>2 DEF LoadOld
<1>3. CASE TruncateOldPub \/ FillOldPub \/ ArchiveOld
  BY <1>3 DEF TruncateOldPub, FillOldPub, ArchiveOld
<1>4. CASE TruncateKey    BY <1>4 DEF TruncateKey
<1>5. CASE FillKey \/ TruncateNewPub \/ FillNewPub
  BY <1>5 DEF FillKey, TruncateNewPub, FillNewPub
<1>6. CASE GeneratorEnds  BY <1>6 DEF GeneratorEnds
<1>7. QED BY <1>1, <1>2, <1>3, <1>4, <1>5, <1>6 DEF GenerateStep

\* Every step of the writers and of the generation keeps it.
LEMMA KeyStep == KeyInv /\ [KeyNext]_<<vars, genVars>> => KeyInv'
<1> SUFFICES ASSUME KeyInv, [KeyNext]_<<vars, genVars>>
             PROVE  KeyInv'
  OBVIOUS
<1>1. ASSUME [Next]_vars, UNCHANGED genVars
      PROVE  KeyInv'
  <2>1. TypeInv'
    BY <1>1, TypeStep DEF KeyInv
  <2>2. KeysKnown' /\ UNCHANGED keyVars
    BY <1>1, KeysHandedOn DEF KeyInv
  <2>3. KeyTypeOK' /\ GeneratorInv'
    BY <1>1, <2>1, <2>2 DEF KeyInv, TypeInv, KeyTypeOK, GeneratorInv, genVars, keyVars
  <2>4. QED BY <2>1, <2>2, <2>3 DEF KeyInv
<1>2. ASSUME GenerateStep, UNCHANGED <<ledgerVars, existed>>
      PROVE  KeyInv'
  <2> USE DEF ledgerVars, fileVars, procVars
  <2>1. TypeInv'
    BY <1>2, GeneratorKeepsKeys DEF KeyInv, TypeInv, TypeOK, RowsDrawn
  <2>2. KeyTypeOK'
    BY <1>2, <2>1, GeneratorTypes DEF KeyInv, TypeInv, KeyTypeOK
  <2>3. KeysKnown'
    <3>1. /\ \A w \in Writer : key[w] \in Key \cup {NoKey} /\ row[w].key \in Key \cup {NoKey}
          /\ \A i \in 1..Len(lines) : lines[i].key \in Key \cup {NoKey}
      <4>1. /\ key \in [Writer -> Key \cup {NoKey}] /\ row \in [Writer -> Line]
            /\ lines \in Seq(Line)
        BY DEF KeyInv, TypeInv, TypeOK
      <4>2. \A l \in Line : l.key \in Key \cup {NoKey}
        OBVIOUS
      <4>3. /\ \A w \in Writer : key[w] \in Key \cup {NoKey} /\ row[w] \in Line
            /\ \A i \in 1..Len(lines) : lines[i] \in Line
        <5> HIDE DEF Line
        <5>1. QED BY <4>1
      <4>4. QED BY <4>2, <4>3
    <3>2. \A k \in Key \cup {NoKey} : k \in Known => k \in Known'
      BY <1>2, GeneratorKeepsKeys
    <3>3. QED BY <1>2, <3>1, <3>2 DEF KeyInv, KeysKnown
  <2>4. QED BY <1>2, <2>1, <2>2, <2>3, GeneratorKeepsKeys DEF KeyInv
<1>3. QED BY <1>1, <1>2 DEF KeyNext, vars, genVars

\* It holds throughout.
LEMMA KeyAlways == KeySpec => []KeyInv
BY KeyInitially, KeyStep, PTL DEF KeySpec

\* The types of the ledger and of the generation next to it: in particular a key
\* that does not parse is never loaded, by a hook or by a rotation.
THEOREM KeyTypes == KeySpec => []KeyTypeOK
<1>1. KeyInv => KeyTypeOK
  BY DEF KeyInv
<1>2. QED BY <1>1, KeyAlways, PTL

\* Whatever dies, fails and is repeated, in whatever order with the appends, the
\* key of every signed row is published or is the one the next generation will
\* publish before it archives it.
THEOREM RowsRecoverable == KeySpec => []SignedRowsRecoverable
<1>1. KeyInv => SignedRowsRecoverable
  BY DEF KeyInv, KeysKnown, Known, SignedRowsRecoverable
<1>2. QED BY <1>1, KeyAlways, PTL

\* A generation that ends well leaves every signed row verifiable, whatever the
\* generations before it left behind.
THEOREM GenerationsRepair == KeySpec => []GenerationRepairs
<1>1. KeyInv => GenerationRepairs
  BY DEF KeyInv, KeysKnown, Known, GeneratorInv, GenerationRepairs
<1>2. QED BY <1>1, KeyAlways, PTL

-----------------------------------------------------------------------------
(* A ledger that existed, next to appends, `corcept init` and generations. *)

\* No installer is about to truncate it, its tip is known, and it is sound.
Unharmed ==
  /\ ledgerThere
  /\ \A i \in Installer : instPc[i] # "events!"
  /\ TipKnown
  /\ HashChainVerifies
  /\ AckedRowsSurvive

\* A file that is there stays, and an installer that sees it does not create it.
LEMMA LedgerStays ==
  ASSUME TypeOK, ledgerThere, \A i \in Installer : instPc[i] # "events!", [Next]_vars
  PROVE  ledgerThere' /\ \A i \in Installer : instPc'[i] # "events!"
<1> USE DEF TypeOK, Goto, InstGoto, fileVars, procVars, keyVars
<1>1. ASSUME NEW w \in Writer, AppendStep(w)
      PROVE  ledgerThere' /\ UNCHANGED instPc
  <2>1. CASE WriteText(w)
    BY <2>1 DEF WriteText, PutText
  <2>2. CASE TakeLock(w) \/ GiveUp(w) \/ EnsureLedger(w) \/ VerifyHistory(w)
    BY <2>2 DEF TakeLock, GiveUp, EnsureLedger, VerifyHistory
  <2>3. CASE SealRow(w) \/ WriteNewline(w) \/ TruncateSidecar(w) \/ FillSidecar(w)
              \/ ReleaseLock(w)
    BY <2>3 DEF SealRow, WriteNewline, TruncateSidecar, FillSidecar, ReleaseLock
  <2>4. QED BY <1>1, <2>1, <2>2, <2>3 DEF AppendStep
<1>2. ASSUME NEW w \in Writer, FaultStep(w)
      PROVE  ledgerThere' /\ UNCHANGED instPc
  BY <1>2 DEF FaultStep, WriteTextFails, PutText, LaterStepFails, Crash, Restart
<1>3. ASSUME NEW w \in Writer, NEW m \in Mode, BeginAppend(w, m)
      PROVE  ledgerThere' /\ UNCHANGED instPc
  BY <1>3 DEF BeginAppend
<1>4. ASSUME NEW i \in Installer, InstallStep(i)
      PROVE  ledgerThere' /\ \A j \in Installer : instPc'[j] # "events!"
  BY <1>4 DEF InstallStep, CheckEvents, CreateEvents, CheckSidecar, CreateSidecar
<1>5. CASE OperatorUnlock \/ UNCHANGED vars
            \/ \E w \in Writer, m \in Mode : RefuseAppend(w, m)
  BY <1>5 DEF OperatorUnlock, RefuseAppend, vars
<1>6. QED BY <1>1, <1>2, <1>3, <1>4, <1>5 DEF Next, Exhausted

\* Without faults every step leaves an existing ledger unharmed.
LEMMA UnharmedStep ==
  ASSUME Fault = {}, KeyInv, LockExclusive, existed => Unharmed,
         [KeyNext]_<<vars, genVars>>
  PROVE  LockExclusive' /\ (existed' => Unharmed')
<1>1. CASE [Next]_vars /\ UNCHANGED genVars
  <2>1. TypeOK /\ TypeInv
    BY DEF KeyInv, TypeInv
  <2>2. LockExclusive'
    BY <1>1, <2>1, LockStep DEF LockInv
  <2>3. existed' = existed
    BY <1>1 DEF genVars
  <2>4. ASSUME Unharmed
        PROVE  Unharmed'
    <3>1. ledgerThere' /\ \A i \in Installer : instPc'[i] # "events!"
      BY <1>1, <2>1, <2>4, LedgerStays DEF Unharmed
    <3>2. TipKnown' /\ HashChainVerifies' /\ AckedRowsSurvive'
      BY <1>1, <2>1, <2>4, ChainStep DEF Unharmed, ChainInv
    <3>3. QED BY <3>1, <3>2 DEF Unharmed
  <2>5. QED BY <2>2, <2>3, <2>4
<1>2. CASE UNCHANGED <<ledgerVars, existed>>
  BY <1>2 DEF ledgerVars, fileVars, procVars, LockExclusive, Unharmed, TipKnown,
     LastHash, TipHash, HashChainVerifies, Readable, WholeRow, Linked, AckedRowsSurvive
<1>3. CASE UNCHANGED <<vars, genVars>>
  BY <1>1, <1>3
<1>4. QED BY <1>1, <1>2, <1>3 DEF KeyNext

\* A ledger that existed verifies in every state and keeps every acknowledged row,
\* for any number of writers in any mix of modes, installers and generations, which
\* may end anywhere, as long as no append crashes and none of its writes fails.
THEOREM ExistingLedgerSafe ==
  ASSUME Fault = {}
  PROVE  KeySpec => []ExistingLedgerUnharmed
<1>1. KeyInit => LockExclusive /\ (existed => Unharmed)
  <2> SUFFICES ASSUME KeyInit PROVE LockExclusive /\ (existed => Unharmed)
    OBVIOUS
  <2> USE DEF KeyInit, Init
  <2>1. LockExclusive
    BY DEF LockExclusive, Holding
  <2>2. TipKnown /\ HashChainVerifies /\ AckedRowsSurvive
    BY DEF TipKnown, LastHash, TipHash, HashChainVerifies, Readable, AckedRowsSurvive
  <2>3. QED BY <2>1, <2>2 DEF Unharmed
<1>2. KeyInv /\ LockExclusive /\ (existed => Unharmed) /\ [KeyNext]_<<vars, genVars>>
        => LockExclusive' /\ (existed' => Unharmed')
  BY UnharmedStep
<1>3. (existed => Unharmed) => ExistingLedgerUnharmed
  BY DEF Unharmed, ExistingLedgerUnharmed
<1>4. QED BY <1>1, <1>2, <1>3, KeyAlways, PTL DEF KeySpec
=============================================================================
