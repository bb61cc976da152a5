------------------------- MODULE TrailReceiptsProofs -------------------------
(***************************************************************************)
(* Theorems about TrailReceipts for any number of processes, verbs and      *)
(* emissions, whatever crashes, fails half way, stalls, and however often a *)
(* lock is removed by age: types, that a complete receipt has its row, that *)
(* a successful emission finds a complete receipt; and, while no live       *)
(* process is robbed of its lock, that the damage stays at the trail's end. *)
(***************************************************************************)
EXTENDS TrailReceipts, TLAPS

USE BoundAssumption, NoProcAssumption DEF TrailPc, Holding

-----------------------------------------------------------------------------
(* Types and locals *)

\* A process that emits is at an emission of its own.
OwnEmission ==
  \A p \in Proc :
    IF pc[p] = "idle" THEN emission[p] = 0
    ELSE /\ emission[p] \in 1..Len(begun)
         /\ emission[p] \notin done
         /\ \A q \in Proc : q # p => emission[q] # emission[p]

TrailInv == TypeOK /\ OwnEmission

LEMMA RowTypes ==
  ASSUME TrailInv, NEW p \in Proc, pc[p] # "idle"
  PROVE  RowOf(p) \in Row /\ RowOf(p).id = emission[p] /\ emission[p] \in Number
<1>1. Len(begun) \in Nat /\ Len(begun) <= MaxEmissions
  BY DEF TrailInv, TypeOK
<1>2. emission[p] \in Number
  BY <1>1 DEF TrailInv, OwnEmission, Number
<1>3. tip[p] \in Row \cup {Genesis}
  BY DEF TrailInv, TypeOK
<1>4. tip[p].seq + 1 \in Nat \ {0} /\ tip[p].id \in 0..MaxEmissions
  <2>1. CASE tip[p] = Genesis
    BY <2>1 DEF Genesis
  <2>2. CASE tip[p] \in Row
    BY <2>2 DEF Row, Number
  <2>3. QED BY <1>3, <2>1, <2>2
<1>5. QED BY <1>2, <1>4 DEF RowOf, Row

\* Writing a text: the last line gets it, or a new line starts with it; the texts
\* that were there stay where they were.
LEMMA PutTextTypes ==
  ASSUME TypeOK, NEW text \in Row \cup {Cut}, PutText(text)
  PROVE  /\ lines' \in Seq(Seq(Row \cup {Cut}))
         /\ open' = TRUE /\ lines' # <<>>
         /\ \A i \in 1..Len(lines) : \A k \in 1..Len(lines[i]) :
              i \in 1..Len(lines') /\ k \in 1..Len(lines'[i]) /\ lines'[i][k] = lines[i][k]
         /\ \E i \in 1..Len(lines') : \E k \in 1..Len(lines'[i]) : lines'[i][k] = text
         /\ IF open
            THEN /\ Len(lines') = Len(lines) /\ Len(lines) > 0
                 /\ \A i \in 1..Len(lines) - 1 : lines'[i] = lines[i]
                 /\ Len(lines'[Len(lines)]) = Len(lines[Len(lines)]) + 1
            ELSE /\ Len(lines') = Len(lines) + 1
                 /\ \A i \in 1..Len(lines) : lines'[i] = lines[i]
                 /\ lines'[Len(lines) + 1] = <<text>>
<1> DEFINE Text == Row \cup {Cut}
<1>1. lines \in Seq(Seq(Text)) /\ text \in Text /\ Len(lines) \in Nat
  BY DEF TypeOK
<1>2. (open => lines # <<>>) /\ open' = TRUE
  BY DEF TypeOK, PutText
<1> HIDE DEF Text
<1>3. CASE open
  <2> DEFINE last == lines[Len(lines)]
  <2>1. Len(lines) \in 1..Len(lines) /\ Len(lines) > 0
    BY <1>1, <1>2, <1>3
  <2>2. last \in Seq(Text)
    BY <1>1, <2>1
  <2>3. lines' = [lines EXCEPT ![Len(lines)] = Append(last, text)]
    BY <1>3 DEF PutText
  <2> HIDE DEF last
  <2>4. /\ Append(last, text) \in Seq(Text)
        /\ Len(Append(last, text)) = Len(last) + 1 /\ Len(last) \in Nat
        /\ \A k \in 1..Len(last) : Append(last, text)[k] = last[k]
        /\ Append(last, text)[Len(last) + 1] = text
    BY <1>1, <2>2
  <2> DEFINE longer == Append(last, text)
  <2> HIDE DEF longer
  <2>5. /\ lines' \in Seq(Seq(Text)) /\ Len(lines') = Len(lines)
        /\ \A i \in 1..Len(lines) - 1 : lines'[i] = lines[i]
        /\ lines'[Len(lines)] = longer
    BY <1>1, <2>1, <2>3, <2>4 DEF longer
  <2>6. /\ Len(lines'[Len(lines)]) = Len(last) + 1
        /\ Len(last) + 1 \in 1..Len(lines'[Len(lines)])
        /\ lines'[Len(lines)][Len(last) + 1] = text
    BY <2>4, <2>5 DEF longer
  <2>7. \A i \in 1..Len(lines) : \A k \in 1..Len(lines[i]) :
          i \in 1..Len(lines') /\ k \in 1..Len(lines'[i]) /\ lines'[i][k] = lines[i][k]
    <3> SUFFICES ASSUME NEW i \in 1..Len(lines), NEW k \in 1..Len(lines[i])
                 PROVE  i \in 1..Len(lines') /\ k \in 1..Len(lines'[i])
                        /\ lines'[i][k] = lines[i][k]
      OBVIOUS
    <3>1. CASE i = Len(lines)
      BY <2>1, <2>4, <2>5, <2>6, <3>1 DEF last, longer
    <3>2. CASE i # Len(lines)
      <4>1. i \in 1..Len(lines) - 1
        BY <1>1, <3>2
      <4>2. lines'[i] = lines[i] /\ Len(lines') = Len(lines)
        BY <2>5, <4>1
      <4>3. QED BY <4>2
    <3>3. QED BY <3>1, <3>2
  <2>8. lines' # <<>> /\ Len(lines) \in 1..Len(lines')
    BY <2>1, <2>5
  <2>9. Len(last) = Len(lines[Len(lines)])
    BY DEF last
  <2>10. QED BY <1>2, <1>3, <2>1, <2>5, <2>6, <2>7, <2>8, <2>9 DEF Text
<1>4. CASE ~open
  <2> DEFINE line == <<text>>
  <2>1. line \in Seq(Text) /\ Len(line) = 1 /\ line[1] = text
    BY <1>1
  <2>2. lines' = Append(lines, line)
    BY <1>4 DEF PutText
  <2> HIDE DEF line
  <2>3. /\ lines' \in Seq(Seq(Text)) /\ Len(lines') = Len(lines) + 1
        /\ \A i \in 1..Len(lines) : lines'[i] = lines[i]
        /\ lines'[Len(lines) + 1] = line
    BY <1>1, <2>1, <2>2
  <2>4. Len(lines) + 1 \in 1..Len(lines') /\ lines' # <<>>
        /\ \A i \in 1..Len(lines) : i \in 1..Len(lines')
    BY <1>1, <2>3
  <2>5. 1 \in 1..Len(lines'[Len(lines) + 1]) /\ lines'[Len(lines) + 1][1] = text
    <3>1. 1 \in 1..Len(line) /\ line[1] = text
      BY <2>1
    <3>2. lines'[Len(lines) + 1] = line
      BY <2>3
    <3>3. QED BY <3>1, <3>2
  <2>6. QED BY <1>2, <1>4, <2>3, <2>4, <2>5 DEF Text, line
<1>5. QED BY <1>3, <1>4 DEF TypeOK

\* What a step of p at emission[p] has to respect besides the types.
LEMMA KeepsNumbers ==
  ASSUME TrailInv, NEW p \in Proc, begun' = begun,
         \A q \in Proc : q # p => pc'[q] = pc[q] /\ emission'[q] = emission[q],
         \/ /\ pc'[p] = "idle" /\ emission'[p] = 0
            /\ \/ done' = done
               \/ pc[p] # "idle" /\ done' = done \cup {emission[p]}
         \/ /\ pc[p] # "idle" /\ pc'[p] # "idle" /\ emission'[p] = emission[p]
            /\ done' = done
  PROVE  OwnEmission'
<1>1. Len(begun) \in Nat
  BY DEF TrailInv, TypeOK
<1>2. QED BY <1>1 DEF TrailInv, OwnEmission

LEMMA LeaveTypes ==
  ASSUME TypeOK, NEW p \in Proc, Leave(p)
  PROVE  /\ pc' \in [Proc -> TrailPc]
         /\ emission' \in [Proc -> 0..MaxEmissions]
         /\ tip' \in [Proc -> Row \cup {Genesis}]
         /\ pc'[p] = "idle" /\ emission'[p] = 0
         /\ \A q \in Proc : q # p =>
              pc'[q] = pc[q] /\ emission'[q] = emission[q] /\ tip'[q] = tip[q]
BY DEF TypeOK, Leave, Goto

LEMMA GotoTypes ==
  ASSUME TypeOK, NEW p \in Proc, NEW to \in TrailPc, Goto(p, to)
  PROVE  /\ pc' \in [Proc -> TrailPc]
         /\ pc'[p] = to
         /\ \A q \in Proc : q # p => pc'[q] = pc[q]
BY DEF TypeOK, Goto

LEMMA ReceiptTypes ==
  ASSUME TrailInv, NEW p \in Proc, pc[p] # "idle",
         NEW c \in Number \cup {Absent, Torn}, PutReceipt(p, c)
  PROVE  /\ NameOf(begun[emission[p]]) \in Name
         /\ receipts' \in [Name -> Number \cup {Absent, Torn}]
<1>1. begun[emission[p]] \in Emission
  BY DEF TrailInv, TypeOK, OwnEmission
<1>2. NameOf(begun[emission[p]]) \in Name
  BY <1>1 DEF NameOf, Name, Emission
<1>3. QED BY <1>2 DEF TrailInv, TypeOK, PutReceipt

LEMMA LockTypes ==
  /\ NoLock \in {NoLock} \cup [there : {TRUE}, holder : Proc \cup {NoProc}, old : BOOLEAN]
  /\ \A p \in Proc : [there |-> TRUE, holder |-> p, old |-> FALSE]
                       \in [there : {TRUE}, holder : Proc \cup {NoProc}, old : BOOLEAN]
OBVIOUS

LEMMA TrailInvInit == Init => TrailInv
<1> SUFFICES ASSUME Init PROVE TrailInv
  OBVIOUS
<1>1. TypeOK
  <2>1. receipts \in [Name -> Number \cup {Absent, Torn}]
    BY DEF Init
  <2>2. lines \in Seq(Seq(Row \cup {Cut})) /\ begun \in Seq(Emission) /\ clock \in 1..MaxClock
        /\ open = FALSE
    BY DEF Init
  <2>3. pc \in [Proc -> TrailPc] /\ lock \in {NoLock}
    BY DEF Init
  <2>4. lock \in {NoLock} \cup [there : {TRUE}, holder : Proc \cup {NoProc}, old : BOOLEAN]
    BY <2>3
  <2>5. emission \in [Proc -> 0..MaxEmissions] /\ tip \in [Proc -> Row \cup {Genesis}]
    BY DEF Init
  <2>6. done = {} /\ robbed = FALSE /\ Len(begun) <= MaxEmissions
    <3>1. 0 <= MaxEmissions
      OBVIOUS
    <3>2. QED BY <3>1 DEF Init
  <2>7. QED BY <2>1, <2>2, <2>3, <2>4, <2>5, <2>6 DEF TypeOK
<1>2. QED BY <1>1 DEF Init, TrailInv, OwnEmission

\* Writing a text of p's own and going on.
LEMMA TextKeepsTypes ==
  ASSUME TrailInv, NEW p \in Proc, NEW text \in Row \cup {Cut}, PutText(text),
         pc' \in [Proc -> TrailPc], emission' \in [Proc -> 0..MaxEmissions],
         tip' \in [Proc -> Row \cup {Genesis}],
         lock' \in {NoLock} \cup [there : {TRUE}, holder : Proc \cup {NoProc}, old : BOOLEAN],
         UNCHANGED <<receipts, clock, begun, done, robbed>>
  PROVE  TypeOK'
<1>1. lines' \in Seq(Seq(Row \cup {Cut})) /\ open' = TRUE /\ lines' # <<>>
  BY PutTextTypes DEF TrailInv
<1>2. QED BY <1>1 DEF TrailInv, TypeOK

\* Every step keeps the types, whatever is written half way.
LEMMA TrailInvNext == TrailInv /\ [Next]_vars => TrailInv'
<1> SUFFICES ASSUME TrailInv, [Next]_vars
             PROVE  TrailInv'
  OBVIOUS
<1> USE DEF TrailInv
<1>0. Len(begun) \in Nat /\ begun \in Seq(Emission)
  BY DEF TypeOK
<1>1. ASSUME NEW p \in Proc, NEW o \in Operation, NEW now \in clock..MaxClock, Begin(p, o, now)
      PROVE  TrailInv'
  <2>1. now \in 1..MaxClock
    BY DEF TypeOK
  <2>2. begun' \in Seq(Emission) /\ Len(begun') = Len(begun) + 1 /\ Len(begun') <= MaxEmissions
    <3>1. [op |-> o, ts |-> now] \in Emission
      BY <2>1 DEF Emission
    <3>2. QED BY <1>0, <1>1, <3>1 DEF Begin
  <2>3. /\ \A q \in Proc : q # p => emission'[q] = emission[q] /\ pc'[q] = pc[q]
        /\ emission'[p] = Len(begun) + 1 /\ pc'[p] = "lock"
    BY <1>1 DEF Begin, TypeOK, Goto
  <2>4. emission' \in [Proc -> 0..MaxEmissions] /\ pc' \in [Proc -> TrailPc]
    BY <1>0, <1>1, <2>2 DEF Begin, TypeOK, Goto
  <2>5. /\ 1..Len(begun) \subseteq 1..Len(begun')
        /\ Len(begun) + 1 \in 1..Len(begun')
        /\ Len(begun) + 1 \notin 1..Len(begun)
    BY <1>0, <2>2
  <2>6. TypeOK'
    BY <1>1, <2>1, <2>2, <2>4, <2>5 DEF Begin, TypeOK
  <2>7. OwnEmission'
    <3>1. Len(begun) + 1 \notin done /\ UNCHANGED done
      BY <1>1, <2>5 DEF Begin, TypeOK
    <3>2. \A q \in Proc : emission[q] # Len(begun) + 1
      BY <1>0, <2>5 DEF OwnEmission
    <3>3. QED BY <2>3, <2>5, <3>1, <3>2 DEF OwnEmission
  <2>8. QED BY <2>6, <2>7
<1>2. ASSUME NEW p \in Proc, EmitStep(p)
      PROVE  TrailInv'
  <2>1. CASE TakeLock(p)
    <3>1. TypeOK' BY <2>1, GotoTypes, LockTypes DEF TakeLock, TypeOK
    <3>2. QED BY <2>1, <3>1, GotoTypes, KeepsNumbers DEF TakeLock
  <2>2. CASE FindStale(p)
    <3>1. TypeOK' BY <2>2, GotoTypes DEF FindStale, TypeOK
    <3>2. QED BY <2>2, <3>1, GotoTypes, KeepsNumbers DEF FindStale
  <2>3. CASE RemoveStale(p)
    <3>0. robbed' \in BOOLEAN
      BY <2>3 DEF RemoveStale, TypeOK
    <3>1. CASE Goto(p, "lock") /\ UNCHANGED <<emission, tip>>
      <4>1. TypeOK' BY <2>3, <3>0, <3>1, GotoTypes, LockTypes DEF RemoveStale, TypeOK
      <4>2. QED BY <2>3, <3>1, <4>1, GotoTypes, KeepsNumbers DEF RemoveStale
    <3>2. CASE Leave(p)
      <4>1. TypeOK' BY <2>3, <3>0, <3>2, LeaveTypes, LockTypes DEF RemoveStale, TypeOK
      <4>2. QED BY <2>3, <3>2, <4>1, LeaveTypes, KeepsNumbers DEF RemoveStale
    <3>3. QED BY <2>3, <3>1, <3>2 DEF RemoveStale
  <2>4. CASE GiveUp(p)
    <3>1. TypeOK' BY <2>4, LeaveTypes DEF GiveUp, TypeOK
    <3>2. QED BY <2>4, <3>1, LeaveTypes, KeepsNumbers DEF GiveUp
  <2>5. CASE ReadTip(p)
    <3>1. CASE \A i \in 1..Len(lines) : Whole(lines[i])
      <4> DEFINE last == IF lines = <<>> THEN Genesis ELSE lines[Len(lines)][1]
      <4>1. last \in Row \cup {Genesis}
        <5>1. CASE lines = <<>>
          BY <5>1
        <5>2. CASE lines # <<>>
          <6>1. lines \in Seq(Seq(Row \cup {Cut})) /\ Len(lines) \in 1..Len(lines)
            BY <5>2 DEF TypeOK
          <6>2. lines[Len(lines)] \in Seq(Row \cup {Cut}) /\ Whole(lines[Len(lines)])
            BY <3>1, <6>1
          <6>3. lines[Len(lines)][1] \in Row
            BY <6>2 DEF Whole
          <6>4. QED BY <5>2, <6>3
        <5>3. QED BY <5>1, <5>2
      <4>2. tip' = [tip EXCEPT ![p] = last] /\ Goto(p, "append")
        BY <2>5, <3>1 DEF ReadTip
      <4> HIDE DEF last
      <4>3. tip' \in [Proc -> Row \cup {Genesis}]
        BY <4>1, <4>2 DEF TypeOK
      <4>4. TypeOK' BY <2>5, <4>2, <4>3, GotoTypes DEF ReadTip, TypeOK
      <4>5. QED BY <2>5, <4>2, <4>4, GotoTypes, KeepsNumbers DEF ReadTip
    <3>2. CASE Goto(p, "failed") /\ UNCHANGED tip
      <4>1. TypeOK' BY <2>5, <3>2, GotoTypes DEF ReadTip, TypeOK
      <4>2. QED BY <2>5, <3>2, <4>1, GotoTypes, KeepsNumbers DEF ReadTip
    <3>3. QED BY <2>5, <3>1, <3>2 DEF ReadTip
  <2>6. CASE AppendText(p)
    <3>1. RowOf(p) \in Row \cup {Cut} BY <2>6, RowTypes DEF AppendText
    <3>2. pc' \in [Proc -> TrailPc] BY <2>6, GotoTypes DEF AppendText
    <3>3. TypeOK' BY <2>6, <3>1, <3>2, TextKeepsTypes DEF AppendText, TypeOK
    <3>4. QED BY <2>6, <3>3, GotoTypes, KeepsNumbers DEF AppendText
  <2>7. CASE AppendNewline(p)
    <3>1. TypeOK' BY <2>7, GotoTypes DEF AppendNewline, TypeOK
    <3>2. QED BY <2>7, <3>1, GotoTypes, KeepsNumbers DEF AppendNewline
  <2>8. CASE CreateReceipt(p)
    <3>1. TypeOK' BY <2>8, GotoTypes, ReceiptTypes DEF CreateReceipt, TypeOK
    <3>2. QED BY <2>8, <3>1, GotoTypes, KeepsNumbers DEF CreateReceipt
  <2>9. CASE FillReceipt(p)
    <3>1. emission[p] \in Number BY <2>9, RowTypes DEF FillReceipt
    <3>2. TypeOK' BY <2>9, <3>1, GotoTypes, ReceiptTypes DEF FillReceipt, TypeOK
    <3>3. QED BY <2>9, <3>2, GotoTypes, KeepsNumbers DEF FillReceipt
  <2>10. CASE DropLock(p)
    <3>1. pc[p] # "idle" /\ emission[p] \in 1..Len(begun)
      BY <2>10 DEF DropLock, OwnEmission
    <3>2. done' \subseteq 1..Len(begun)
      BY <2>10, <3>1 DEF DropLock, TypeOK
    <3>3. TypeOK' BY <2>10, <3>2, LeaveTypes, LockTypes DEF DropLock, TypeOK
    <3>4. QED BY <2>10, <3>1, <3>3, LeaveTypes, KeepsNumbers DEF DropLock
  <2>11. QED
    BY <1>2, <2>1, <2>2, <2>3, <2>4, <2>5, <2>6, <2>7, <2>8, <2>9, <2>10 DEF EmitStep
<1>3. ASSUME NEW p \in Proc, EmitFails(p)
      PROVE  TrailInv'
  <2>1. /\ pc' \in [Proc -> TrailPc] /\ pc'[p] = "failed"
        /\ \A q \in Proc : q # p => pc'[q] = pc[q]
    BY <1>3, GotoTypes DEF EmitFails
  <2>2. UNCHANGED <<lock, clock, begun, emission, tip, done, robbed>> /\ pc[p] # "idle"
    BY <1>3 DEF EmitFails
  <2>3. OwnEmission'
    BY <2>1, <2>2, KeepsNumbers
  <2>4. CASE lines' = lines /\ open' \in {open, FALSE}
    <3>1. receipts' \in [Name -> Number \cup {Absent, Torn}]
      <4>1. CASE PutReceipt(p, Torn)
        BY <2>2, <4>1, ReceiptTypes
      <4>2. CASE receipts' = receipts
        BY <4>2 DEF TypeOK
      <4>3. QED BY <1>3, <4>1, <4>2 DEF EmitFails
    <3>2. lines' \in Seq(Seq(Row \cup {Cut})) /\ open' \in BOOLEAN /\ (open' => lines' # <<>>)
      <4>1. lines \in Seq(Seq(Row \cup {Cut})) /\ open \in BOOLEAN /\ (open => lines # <<>>)
        BY DEF TypeOK
      <4>2. CASE open' = open
        BY <2>4, <4>1, <4>2
      <4>3. CASE open' = FALSE
        BY <2>4, <4>1, <4>3
      <4>4. QED BY <2>4, <4>2, <4>3
    <3>3. TypeOK' BY <2>1, <2>2, <3>1, <3>2 DEF TypeOK
    <3>4. QED BY <2>3, <3>3
  <2>5. CASE (PutText(Cut) \/ PutText(RowOf(p))) /\ receipts' = receipts
    <3>1. RowOf(p) \in Row \cup {Cut} /\ Cut \in Row \cup {Cut}
      BY <2>2, RowTypes
    <3>2. TypeOK'
      BY <2>1, <2>2, <2>5, <3>1, TextKeepsTypes DEF TypeOK
    <3>3. QED BY <2>3, <3>2
  <2>6. QED BY <1>3, <2>4, <2>5 DEF EmitFails
<1>4. ASSUME NEW p \in Proc, Crash(p)
      PROVE  TrailInv'
  <2>1. lock' \in {NoLock} \cup [there : {TRUE}, holder : Proc \cup {NoProc}, old : BOOLEAN]
    BY <1>4 DEF Crash, TypeOK, NoLock
  <2>2. OwnEmission' BY <1>4, LeaveTypes, KeepsNumbers DEF Crash
  <2>3. CASE UNCHANGED <<lines, open>>
    <3>1. TypeOK' BY <1>4, <2>1, <2>3, LeaveTypes DEF Crash, TypeOK
    <3>2. QED BY <2>2, <3>1
  <2>4. CASE PutText(Cut)
    <3>1. TypeOK' BY <1>4, <2>1, <2>4, LeaveTypes, TextKeepsTypes DEF Crash
    <3>2. QED BY <2>2, <3>1
  <2>5. QED BY <1>4, <2>3, <2>4 DEF Crash
<1>5. CASE LockAges
  <2>1. lock' \in {NoLock} \cup [there : {TRUE}, holder : Proc \cup {NoProc}, old : BOOLEAN]
    BY <1>5 DEF LockAges, TypeOK, NoLock
  <2>2. QED BY <1>5, <2>1 DEF LockAges, TypeOK, OwnEmission
<1>6. CASE UNCHANGED vars
  BY <1>6 DEF vars, TypeOK, OwnEmission
<1>7. QED
  BY <1>1, <1>2, <1>3, <1>4, <1>5, <1>6 DEF Next, FaultStep, Exhausted

\* Every reachable state is well formed: the trail's lines hold row texts and
\* remains of them, and its last line is open only if there is one.
THEOREM TrailTypes == Spec => []TypeOK
<1>1. TrailInv => TypeOK
  BY DEF TrailInv
<1>2. QED BY <1>1, TrailInvInit, TrailInvNext, PTL DEF Spec

-----------------------------------------------------------------------------
(* Receipts *)

HasText(e) == \E i \in 1..Len(lines) : \E k \in 1..Len(lines[i]) : lines[i][k].id = e

Sharing(e) == {f \in 1..Len(begun) : begun[f] = begun[e]}

\* The emission's receipt is written.
Filled(e) == e \in done \/ \E p \in Proc : pc[p] = "done" /\ emission[p] = e

\* Past its row's text a process has the text in the trail.
TextFirst ==
  \A p \in Proc : pc[p] \in {"newline", "create", "fill", "done"} => HasText(emission[p])

\* A written receipt stays complete until an emission with the same stamp starts to
\* write its own; that one has not written it yet.
ReceiptKept ==
  \A e \in 1..Len(begun) : Filled(e) =>
    \/ receipts[NameOf(begun[e])] \in Sharing(e)
    \/ receipts[NameOf(begun[e])] = Torn /\ \E f \in Sharing(e) : ~Filled(f)

ReceiptInv == ReceiptHasRow /\ TextFirst /\ ReceiptKept

\* Two emissions with different stamps have different receipt files.
LEMMA NamesDiffer ==
  ASSUME NEW e \in Emission, NEW f \in Emission, e # f
  PROVE  NameOf(e) # NameOf(f)
BY DEF NameOf, Emission

\* A text that was in the trail stays there, whatever is written after it.
LEMMA TextsStay ==
  ASSUME TypeOK, NEW text \in Row \cup {Cut}, lines' = lines \/ PutText(text), NEW e, HasText(e)
  PROVE  HasText(e)'
<1>1. PICK i \in 1..Len(lines) : \E k \in 1..Len(lines[i]) : lines[i][k].id = e
  BY DEF HasText
<1>2. PICK k \in 1..Len(lines[i]) : lines[i][k].id = e
  BY <1>1
<1>3. i \in 1..Len(lines') /\ k \in 1..Len(lines'[i]) /\ lines'[i][k] = lines[i][k]
  BY PutTextTypes
<1>4. QED BY <1>2, <1>3 DEF HasText

\* A step that writes no receipt and begins nothing, and after which no more
\* processes have written theirs than before.
LEMMA ReceiptsStay ==
  ASSUME TrailInv, ReceiptInv, NEW p \in Proc, UNCHANGED <<receipts, begun>>,
         \A e : HasText(e) => HasText(e)',
         \A q \in Proc : q # p => pc'[q] = pc[q] /\ emission'[q] = emission[q],
         \/ pc'[p] \notin {"newline", "create", "fill", "done"}
         \/ /\ pc'[p] \in {"newline", "create"} /\ emission'[p] = emission[p]
            /\ HasText(emission[p])',
         \/ done' = done
         \/ pc[p] = "done" /\ done' = done \cup {emission[p]}
  PROVE  ReceiptInv'
<1>1. ReceiptHasRow'
  BY DEF ReceiptInv, ReceiptHasRow, HasText
<1>2. TextFirst'
  BY DEF ReceiptInv, TextFirst
<1>3. \A e \in 1..Len(begun) : Filled(e)' => Filled(e)
  BY DEF Filled
<1>4. ReceiptKept'
  <2> SUFFICES ASSUME NEW e \in 1..Len(begun), Filled(e)'
               PROVE  \/ receipts[NameOf(begun[e])] \in Sharing(e)
                      \/ /\ receipts[NameOf(begun[e])] = Torn
                         /\ \E f \in Sharing(e) : ~Filled(f)'
    BY DEF ReceiptKept, Sharing, NameOf
  <2>1. Filled(e)
    BY <1>3
  <2>2. \A f \in Sharing(e) : ~Filled(f) => ~Filled(f)'
    BY <1>3 DEF Sharing
  <2>3. QED BY <2>1, <2>2 DEF ReceiptInv, ReceiptKept
<1>5. QED BY <1>1, <1>2, <1>4 DEF ReceiptInv

\* A step of p that writes its receipt.
LEMMA ReceiptWritten ==
  ASSUME TrailInv, ReceiptInv, NEW p \in Proc, pc[p] \in {"create", "fill"},
         NEW c, PutReceipt(p, c), UNCHANGED <<lines, begun, emission, done>>,
         NEW to \in {"fill", "done", "failed"}, Goto(p, to),
         \/ c = Torn /\ to # "done"
         \/ c = emission[p] /\ to = "done"
  PROVE  ReceiptInv'
<1>0. PICK own : own = emission[p]
  OBVIOUS
<1>1. own \in 1..Len(begun) /\ own \notin done /\ HasText(own) /\ own \in Number
  BY <1>0, RowTypes DEF TrailInv, OwnEmission, ReceiptInv, TextFirst
<1>2. /\ pc'[p] = to
      /\ \A q \in Proc : q # p => pc'[q] = pc[q] /\ emission[q] # own
  BY <1>0 DEF TrailInv, TypeOK, Goto, OwnEmission
<1>3. Torn \notin Number
  BY DEF Torn, Number
<1>4. \A e \in 1..Len(begun) : begun[e] \in Emission /\ NameOf(begun[e]) \in Name
  <2>1. \A e \in 1..Len(begun) : begun[e] \in Emission
    BY DEF TrailInv, TypeOK
  <2>2. QED BY <2>1 DEF Emission, NameOf, Name
<1>5. receipts' = [receipts EXCEPT ![NameOf(begun[own])] = c]
      /\ receipts \in [Name -> Number \cup {Absent, Torn}]
  BY <1>0 DEF TrailInv, TypeOK, PutReceipt
<1>6. receipts'[NameOf(begun[own])] = c
  BY <1>1, <1>4, <1>5
<1>7. ReceiptHasRow'
  <2> SUFFICES ASSUME NEW n \in Name, receipts'[n] \in Number
               PROVE  HasText(receipts'[n])
    BY DEF ReceiptHasRow, HasText
  <2>1. CASE n = NameOf(begun[own])
    BY <1>0, <1>1, <1>3, <1>6, <2>1
  <2>2. CASE n # NameOf(begun[own])
    <3>1. receipts'[n] = receipts[n]
      BY <1>5, <2>2
    <3>2. QED BY <3>1 DEF ReceiptInv, ReceiptHasRow, HasText
  <2>3. QED BY <2>1, <2>2
<1>8. \A q \in Proc : pc'[q] \in {"newline", "create", "fill", "done"} => HasText(emission[q])
  BY <1>0, <1>1, <1>2 DEF ReceiptInv, TextFirst
<1>9. \A e \in 1..Len(begun) : Filled(e)' <=> (Filled(e) \/ (to = "done" /\ e = own))
  BY <1>0, <1>2 DEF Filled
<1>10. ~Filled(own)
  BY <1>0, <1>1, <1>2 DEF Filled
<1>11. ASSUME NEW e \in 1..Len(begun), Filled(e)'
       PROVE  \/ receipts'[NameOf(begun[e])] \in Sharing(e)
              \/ /\ receipts'[NameOf(begun[e])] = Torn
                 /\ \E f \in Sharing(e) : ~Filled(f)'
  <2>1. CASE begun[e] = begun[own]
    <3>1. own \in Sharing(e) /\ receipts'[NameOf(begun[e])] = c
      BY <1>1, <1>6, <2>1 DEF Sharing
    <3>2. CASE c = own
      BY <3>1, <3>2
    <3>3. CASE c = Torn /\ to # "done"
      <4>1. ~Filled(own)'
        BY <1>1, <1>9, <1>10, <3>3
      <4>2. QED BY <3>1, <3>3, <4>1
    <3>4. QED BY <1>0, <3>2, <3>3
  <2>2. CASE begun[e] # begun[own]
    <3>1. NameOf(begun[e]) # NameOf(begun[own]) /\ NameOf(begun[e]) \in Name
      BY <1>1, <1>4, <2>2, NamesDiffer
    <3>2. receipts'[NameOf(begun[e])] = receipts[NameOf(begun[e])]
      BY <1>5, <3>1
    <3>3. Filled(e)
      BY <1>9, <1>11, <2>2
    <3>4. \A f \in Sharing(e) : ~Filled(f) => ~Filled(f)'
      BY <1>9, <2>2 DEF Sharing
    <3>5. QED BY <3>2, <3>3, <3>4 DEF ReceiptInv, ReceiptKept
  <2>3. QED BY <2>1, <2>2
<1>12. QED BY <1>7, <1>8, <1>11 DEF ReceiptInv, TextFirst, ReceiptKept, HasText, Sharing

LEMMA ReceiptInvInit == Init => ReceiptInv
BY DEF Init, ReceiptInv, ReceiptHasRow, TextFirst, ReceiptKept, Absent, Number

LEMMA ReceiptInvNext == TrailInv /\ ReceiptInv /\ [Next]_vars => ReceiptInv'
<1> SUFFICES ASSUME TrailInv, ReceiptInv, [Next]_vars
             PROVE  ReceiptInv'
  OBVIOUS
<1> USE DEF Goto
<1>1. pc \in [Proc -> TrailPc] /\ emission \in [Proc -> 0..MaxEmissions] /\ Len(begun) \in Nat
  BY DEF TrailInv, TypeOK
<1>2. ASSUME NEW p \in Proc, NEW o \in Operation, NEW now \in clock..MaxClock, Begin(p, o, now)
      PROVE  ReceiptInv'
  <2>1. /\ Len(begun') = Len(begun) + 1
        /\ \A e \in 1..Len(begun) : begun'[e] = begun[e] /\ e \in 1..Len(begun')
    BY <1>1, <1>2 DEF Begin, TrailInv, TypeOK
  <2>2. UNCHANGED <<lines, receipts, done>>
    BY <1>2 DEF Begin
  <2>3. \A q \in Proc : pc'[q] \in {"newline", "create", "fill", "done"} =>
          pc[q] = pc'[q] /\ emission'[q] = emission[q]
    BY <1>1, <1>2 DEF Begin
  <2>4. \A e : Filled(e)' => Filled(e)
    BY <2>2, <2>3 DEF Filled
  <2>5. \A e : Filled(e) => e \in 1..Len(begun)
    BY DEF Filled, TrailInv, TypeOK, OwnEmission
  <2>6. \A e \in 1..Len(begun) : Sharing(e) \subseteq Sharing(e)'
    BY <2>1 DEF Sharing
  <2>7. ReceiptKept'
    <3> SUFFICES ASSUME NEW e \in 1..Len(begun), Filled(e)'
                 PROVE  \/ receipts[NameOf(begun'[e])] \in Sharing(e)'
                        \/ /\ receipts[NameOf(begun'[e])] = Torn
                           /\ \E f \in Sharing(e)' : ~Filled(f)'
      BY <2>2, <2>4, <2>5 DEF ReceiptKept, NameOf
    <3>1. Filled(e) /\ begun'[e] = begun[e]
      BY <2>1, <2>4
    <3>2. QED BY <2>4, <2>6, <3>1 DEF ReceiptInv, ReceiptKept
  <2>8. ReceiptHasRow' /\ TextFirst'
    BY <2>2, <2>3 DEF ReceiptInv, ReceiptHasRow, TextFirst, HasText
  <2>9. QED BY <2>7, <2>8 DEF ReceiptInv
<1>3. \A e : lines' = lines => (HasText(e) => HasText(e)')
  BY DEF HasText
<1>4. ASSUME NEW p \in Proc, EmitStep(p)
      PROVE  ReceiptInv'
  <2>1. CASE TakeLock(p) \/ FindStale(p) \/ ReadTip(p)
    BY <1>1, <1>3, <2>1, ReceiptsStay DEF TakeLock, FindStale, ReadTip
  <2>2. CASE RemoveStale(p) \/ GiveUp(p)
    BY <1>1, <1>3, <2>2, ReceiptsStay DEF RemoveStale, GiveUp, Leave
  <2>3. CASE AppendText(p)
    <3>1. RowOf(p) \in Row \cup {Cut} /\ RowOf(p).id = emission[p] /\ PutText(RowOf(p)) /\ TypeOK
      BY <2>3, RowTypes DEF AppendText, TrailInv
    <3>2. HasText(emission[p])'
      <4>1. \E i \in 1..Len(lines') : \E k \in 1..Len(lines'[i]) : lines'[i][k] = RowOf(p)
        BY <3>1, PutTextTypes
      <4>2. emission' = emission
        BY <2>3 DEF AppendText
      <4>3. QED BY <3>1, <4>1, <4>2 DEF HasText
    <3>3. \A e : HasText(e) => HasText(e)'
      BY <3>1, TextsStay
    <3>4. QED BY <1>1, <2>3, <3>2, <3>3, ReceiptsStay DEF AppendText
  <2>4. CASE AppendNewline(p)
    <3>1. HasText(emission[p])
      BY <2>4 DEF AppendNewline, ReceiptInv, TextFirst
    <3>2. HasText(emission[p])'
      BY <2>4, <3>1 DEF AppendNewline, HasText
    <3>3. QED BY <1>1, <1>3, <2>4, <3>2, ReceiptsStay DEF AppendNewline
  <2>5. CASE CreateReceipt(p)
    BY <2>5, ReceiptWritten DEF CreateReceipt
  <2>6. CASE FillReceipt(p)
    BY <2>6, ReceiptWritten DEF FillReceipt
  <2>7. CASE DropLock(p)
    BY <1>1, <1>3, <2>7, ReceiptsStay DEF DropLock, Leave
  <2>8. QED BY <1>4, <2>1, <2>2, <2>3, <2>4, <2>5, <2>6, <2>7 DEF EmitStep
<1>5. ASSUME NEW p \in Proc, EmitFails(p)
      PROVE  ReceiptInv'
  <2>1. CASE PutReceipt(p, Torn) /\ pc[p] = "create" /\ lines' = lines
    BY <1>5, <2>1, ReceiptWritten DEF EmitFails
  <2>2. CASE receipts' = receipts
    <3>1. RowOf(p) \in Row \cup {Cut} /\ Cut \in Row \cup {Cut} /\ TypeOK
      BY <1>5, RowTypes DEF EmitFails, TrailInv
    <3>2. lines' = lines \/ PutText(Cut) \/ PutText(RowOf(p))
      BY <1>5 DEF EmitFails
    <3>3. \A e : HasText(e) => HasText(e)'
      BY <1>3, <3>1, <3>2, TextsStay
    <3>4. QED BY <1>1, <1>5, <2>2, <3>3, ReceiptsStay DEF EmitFails
  <2>3. QED BY <1>5, <2>1, <2>2 DEF EmitFails
<1>6. ASSUME NEW p \in Proc, Crash(p)
      PROVE  ReceiptInv'
  <2>1. \A e : HasText(e) => HasText(e)'
    BY <1>3, <1>6, TextsStay DEF Crash, TrailInv
  <2>2. QED BY <1>1, <1>6, <2>1, ReceiptsStay DEF Crash, Leave
<1>7. CASE LockAges \/ UNCHANGED vars
  BY <1>7 DEF LockAges, vars, ReceiptInv, ReceiptHasRow, TextFirst, ReceiptKept, HasText,
              Sharing, Filled
<1>8. QED BY <1>2, <1>4, <1>5, <1>6, <1>7 DEF Next, FaultStep, Exhausted

\* Whatever fails half way, stalls or is robbed of its lock, a complete receipt has
\* its row's text in the trail: the text is written first and texts stay, also on
\* lines that cannot be read any more.
THEOREM ReceiptsHaveRows == Spec => []ReceiptHasRow
<1>1. Init => TrailInv /\ ReceiptInv
  BY TrailInvInit, ReceiptInvInit
<1>2. TrailInv /\ ReceiptInv /\ [Next]_vars => (TrailInv /\ ReceiptInv)'
  BY TrailInvNext, ReceiptInvNext
<1>3. ReceiptInv => ReceiptHasRow
  BY DEF ReceiptInv
<1>4. QED BY <1>1, <1>2, <1>3, PTL DEF Spec

\* The receipt of a successful emission is complete for ever, its own or that of an
\* emission with the same stamp, but for the time in which one of these writes its
\* own, and after one that stopped there: also with two processes inside.
THEOREM SuccessesKeepReceipts == Spec => []SuccessKeepsReceipt
<1>1. Init => TrailInv /\ ReceiptInv
  BY TrailInvInit, ReceiptInvInit
<1>2. TrailInv /\ ReceiptInv /\ [Next]_vars => (TrailInv /\ ReceiptInv)'
  BY TrailInvNext, ReceiptInvNext
<1>3. TrailInv /\ ReceiptInv => SuccessKeepsReceipt
  <2> SUFFICES ASSUME TrailInv, ReceiptInv, NEW e \in done
               PROVE  \/ receipts[NameOf(begun[e])] \in Sharing(e)
                      \/ /\ receipts[NameOf(begun[e])] = Torn
                         /\ ~(Sharing(e) \subseteq done)
    BY DEF SuccessKeepsReceipt, Sharing
  <2>1. e \in 1..Len(begun) /\ Filled(e)
    BY DEF TrailInv, TypeOK, Filled
  <2>2. \A f : ~Filled(f) => f \notin done
    BY DEF Filled
  <2>3. QED BY <2>1, <2>2 DEF ReceiptInv, ReceiptKept
<1>4. QED BY <1>1, <1>2, <1>3, PTL DEF Spec

-----------------------------------------------------------------------------
(* The chain *)

\* Until a live process is robbed, whoever is inside made the lock file.
HolderInside ==
  ~robbed => \A p \in Proc : pc[p] \in Holding => lock.there /\ lock.holder = p

\* So the trail that was read, and found whole, stays as it was until the row is
\* written.
TipCurrent ==
  ~robbed => \A p \in Proc : pc[p] = "append" =>
    /\ \A i \in 1..Len(lines) : Whole(lines[i])
    /\ tip[p] = IF lines = <<>> THEN Genesis ELSE lines[Len(lines)][1]

Linked(i) ==
  /\ lines[i][1].seq = i
  /\ lines[i][1].prev = IF i = 1 THEN 0 ELSE lines[i - 1][1].id

Chained ==
  /\ \A i \in 1..Len(lines) - 1 : Whole(lines[i])
  /\ \A i \in 1..Len(lines) : Whole(lines[i]) => Linked(i)

ChainInv == HolderInside /\ TipCurrent /\ (~robbed => Chained)

LEMMA ChainInvInit == Init => ChainInv
<1> SUFFICES ASSUME Init PROVE ChainInv
  OBVIOUS
<1>1. Len(lines) = 0
  BY DEF Init
<1>2. QED BY <1>1 DEF Init, ChainInv, HolderInside, TipCurrent, Chained

\* A row, or a part of one, written after a trail that is whole: where the trail
\* ends in a newline the row is the next link, and where it does not the last line
\* cannot be read any more; a part of a row makes a last line that cannot be read.
LEMMA TextKeepsChain ==
  ASSUME TypeOK, Chained, \A i \in 1..Len(lines) : Whole(lines[i]), NEW p \in Proc,
         tip[p] = IF lines = <<>> THEN Genesis ELSE lines[Len(lines)][1],
         NEW text \in {Cut, RowOf(p)}, text \in Row \cup {Cut}, PutText(text)
  PROVE  Chained'
<1>0. Len(lines) \in Nat /\ lines \in Seq(Seq(Row \cup {Cut}))
  BY DEF TypeOK
<1>1. CASE open
  <2>1. /\ Len(lines') = Len(lines) /\ Len(lines) > 0
        /\ \A i \in 1..Len(lines) - 1 : lines'[i] = lines[i]
        /\ Len(lines'[Len(lines)]) = Len(lines[Len(lines)]) + 1
    BY <1>1, PutTextTypes
  <2>2. Len(lines'[Len(lines)]) = 2
    <3>1. Whole(lines[Len(lines)])
      BY <1>0, <2>1
    <3>2. QED BY <2>1, <3>1 DEF Whole
  <2>3. ~Whole(lines'[Len(lines)])
    BY <2>2 DEF Whole
  <2>4. \A i \in 1..Len(lines) - 1 : i \in 1..Len(lines) /\ i - 1 \in (1..Len(lines) - 1) \cup {0}
    BY <1>0
  <2>5. \A i \in 1..Len(lines') - 1 : Whole(lines'[i])
    <3> SUFFICES ASSUME NEW i \in 1..Len(lines) - 1 PROVE Whole(lines'[i])
      BY <2>1
    <3>1. lines'[i] = lines[i] /\ i \in 1..Len(lines)
      BY <2>1, <2>4
    <3>2. Whole(lines[i])
      BY <3>1
    <3>3. QED BY <3>1, <3>2
  <2>6. ASSUME NEW i \in 1..Len(lines'), Whole(lines'[i])
        PROVE  /\ lines'[i][1].seq = i
               /\ lines'[i][1].prev = IF i = 1 THEN 0 ELSE lines'[i - 1][1].id
    <3>1. i \in 1..Len(lines) - 1
      <4>1. i # Len(lines)
        BY <2>3, <2>6
      <4>2. QED BY <1>0, <2>1, <4>1
    <3>2. lines'[i] = lines[i] /\ (i = 1 \/ lines'[i - 1] = lines[i - 1])
      BY <1>0, <2>1, <3>1
    <3>3. Linked(i)
      BY <2>4, <3>1 DEF Chained
    <3>4. QED BY <3>2, <3>3 DEF Linked
  <2>7. QED BY <2>5, <2>6 DEF Chained, Linked
<1>2. CASE ~open
  <2>1. /\ Len(lines') = Len(lines) + 1
        /\ \A i \in 1..Len(lines) : lines'[i] = lines[i]
        /\ lines'[Len(lines) + 1] = <<text>>
    BY <1>2, PutTextTypes
  <2>2. \A i \in 1..Len(lines') - 1 : Whole(lines'[i])
    <3>1. \A i \in 1..Len(lines') - 1 : i \in 1..Len(lines)
      BY <1>0, <2>1
    <3>2. QED BY <2>1, <3>1
  <2>3. ASSUME NEW i \in 1..Len(lines'), Whole(lines'[i])
        PROVE  /\ lines'[i][1].seq = i
               /\ lines'[i][1].prev = IF i = 1 THEN 0 ELSE lines'[i - 1][1].id
    <3>1. CASE i \in 1..Len(lines)
      <4>0. i = 1 \/ i - 1 \in 1..Len(lines)
        BY <1>0, <3>1
      <4>1. lines'[i] = lines[i] /\ (i = 1 \/ lines'[i - 1] = lines[i - 1])
        BY <2>1, <3>1, <4>0
      <4>2. Linked(i)
        BY <3>1 DEF Chained
      <4>3. QED BY <4>1, <4>2 DEF Linked
    <3>2. CASE i = Len(lines) + 1
      <4>1. lines'[i][1] = text /\ text # Cut
        BY <2>1, <2>3, <3>2 DEF Whole
      <4>2. text = [id |-> emission[p], seq |-> tip[p].seq + 1, prev |-> tip[p].id]
        BY <4>1 DEF RowOf
      <4>3. CASE lines = <<>>
        <5>1. i = 1 /\ tip[p].seq = 0 /\ tip[p].id = 0
          BY <3>2, <4>3 DEF Genesis
        <5>2. QED BY <4>1, <4>2, <5>1
      <4>4. CASE lines # <<>>
        <5>1. Len(lines) \in 1..Len(lines)
          BY <1>0, <4>4
        <5>2. tip[p] = lines[Len(lines)][1] /\ Linked(Len(lines))
          BY <4>4, <5>1 DEF Chained
        <5>3. lines'[i - 1] = lines[Len(lines)] /\ i # 1 /\ tip[p].seq = Len(lines)
          BY <1>0, <2>1, <3>2, <5>1, <5>2 DEF Linked
        <5>4. QED BY <3>2, <4>1, <4>2, <5>2, <5>3
      <4>5. QED BY <4>3, <4>4
    <3>3. QED BY <1>0, <2>1, <3>1, <3>2
  <2>4. QED BY <2>2, <2>3 DEF Chained, Linked
<1>3. QED BY <1>1, <1>2

\* Writing a text: nobody else is about to, and the one who wrote it is past it.
LEMMA TextKeepsChainInv ==
  ASSUME TrailInv, ChainInv, NEW p \in Proc, pc[p] = "append",
         NEW text \in {Cut, RowOf(p)}, PutText(text), HolderInside',
         \A q \in Proc : q # p => pc'[q] = pc[q] /\ tip'[q] = tip[q],
         pc'[p] # "append", robbed' = robbed
  PROVE  ChainInv'
<1>1. text \in Row \cup {Cut} /\ TypeOK
  BY RowTypes DEF TrailInv
<1>2. ASSUME ~robbed PROVE Chained'
  <2>1. /\ \A i \in 1..Len(lines) : Whole(lines[i])
        /\ tip[p] = IF lines = <<>> THEN Genesis ELSE lines[Len(lines)][1]
        /\ Chained
    BY <1>2 DEF ChainInv, TipCurrent
  <2>2. QED BY <1>1, <2>1, TextKeepsChain
<1>3. TipCurrent'
  BY DEF ChainInv, HolderInside, TipCurrent
<1>4. QED BY <1>2, <1>3 DEF ChainInv

LEMMA ChainInvNext == TrailInv /\ ChainInv /\ [Next]_vars => ChainInv'
<1> SUFFICES ASSUME TrailInv, ChainInv, [Next]_vars
             PROVE  ChainInv'
  OBVIOUS
<1> USE DEF Goto
<1>1. pc \in [Proc -> TrailPc] /\ tip \in [Proc -> Row \cup {Genesis}]
  BY DEF TrailInv, TypeOK
<1>2. HolderInside /\ TipCurrent /\ (~robbed => Chained)
  BY DEF ChainInv
<1>3. lines' = lines => (Chained <=> Chained')
  BY DEF Chained, Linked
<1>4. ASSUME NEW p \in Proc, NEW o \in Operation, NEW now \in clock..MaxClock, Begin(p, o, now)
      PROVE  ChainInv'
  BY <1>1, <1>2, <1>3, <1>4 DEF Begin, HolderInside, TipCurrent, ChainInv
<1>5. ASSUME NEW p \in Proc, EmitStep(p)
      PROVE  ChainInv'
  <2>1. CASE TakeLock(p)
    <3>1. HolderInside'
      BY <1>1, <1>2, <2>1 DEF TakeLock, HolderInside, NoLock
    <3>2. QED BY <1>1, <1>2, <1>3, <2>1, <3>1 DEF TakeLock, TipCurrent, ChainInv
  <2>2. CASE FindStale(p)
    BY <1>1, <1>2, <1>3, <2>2 DEF FindStale, HolderInside, TipCurrent, ChainInv
  <2>3. CASE RemoveStale(p)
    <3>1. robbed' \/ (~robbed /\ (lock.there => lock.holder = NoProc))
      BY <2>3 DEF RemoveStale, TrailInv, TypeOK
    <3>2. lines' = lines /\ pc[p] = "reclaim" /\ pc'[p] \in {"lock", "idle"}
          /\ \A q \in Proc : q # p => pc'[q] = pc[q] /\ tip'[q] = tip[q]
      BY <1>1, <2>3 DEF RemoveStale, Leave
    <3>3. CASE robbed'
      BY <3>3 DEF ChainInv, HolderInside, TipCurrent
    <3>4. CASE ~robbed /\ (lock.there => lock.holder = NoProc)
      <4>1. \A q \in Proc : pc[q] \notin Holding
        BY <1>2, <3>4 DEF HolderInside
      <4>2. \A q \in Proc : pc'[q] \notin Holding
        BY <3>2, <4>1
      <4>3. QED BY <1>2, <1>3, <3>2, <3>4, <4>2 DEF ChainInv, HolderInside, TipCurrent
    <3>5. QED BY <3>1, <3>3, <3>4
  <2>4. CASE GiveUp(p)
    BY <1>1, <1>2, <1>3, <2>4 DEF GiveUp, Leave, HolderInside, TipCurrent, ChainInv
  <2>5. CASE ReadTip(p)
    <3>1. UNCHANGED <<lines, lock, robbed>> /\ pc[p] = "tip" /\ pc'[p] \in {"append", "failed"}
          /\ \A q \in Proc : q # p => pc'[q] = pc[q] /\ tip'[q] = tip[q]
      BY <1>1, <2>5 DEF ReadTip
    <3>2. pc'[p] = "append" =>
            /\ \A i \in 1..Len(lines) : Whole(lines[i])
            /\ tip'[p] = IF lines = <<>> THEN Genesis ELSE lines[Len(lines)][1]
      BY <1>1, <2>5 DEF ReadTip
    <3>3. HolderInside'
      BY <1>2, <3>1 DEF HolderInside
    <3>4. TipCurrent'
      BY <1>2, <3>1, <3>2 DEF TipCurrent
    <3>5. QED BY <1>2, <1>3, <3>1, <3>3, <3>4 DEF ChainInv
  <2>6. CASE AppendText(p)
    <3>1. HolderInside'
      BY <1>1, <1>2, <2>6 DEF AppendText, HolderInside
    <3>2. QED BY <1>1, <2>6, <3>1, TextKeepsChainInv DEF AppendText
  <2>7. CASE AppendNewline(p) \/ CreateReceipt(p) \/ FillReceipt(p)
    BY <1>1, <1>2, <1>3, <2>7
       DEF AppendNewline, CreateReceipt, FillReceipt, HolderInside, TipCurrent, ChainInv
  <2>8. CASE DropLock(p)
    <3>1. HolderInside'
      BY <1>1, <1>2, <2>8 DEF DropLock, Leave, HolderInside
    <3>2. QED BY <1>1, <1>2, <1>3, <2>8, <3>1 DEF DropLock, Leave, TipCurrent, ChainInv
  <2>9. QED
    BY <1>5, <2>1, <2>2, <2>3, <2>4, <2>5, <2>6, <2>7, <2>8 DEF EmitStep
<1>6. ASSUME NEW p \in Proc, EmitFails(p)
      PROVE  ChainInv'
  <2>1. HolderInside'
    BY <1>1, <1>2, <1>6 DEF EmitFails, HolderInside
  <2>2. CASE lines' = lines
    BY <1>1, <1>2, <1>3, <1>6, <2>1, <2>2 DEF EmitFails, TipCurrent, ChainInv
  <2>3. CASE (PutText(Cut) \/ PutText(RowOf(p))) /\ pc[p] = "append"
    BY <1>1, <1>6, <2>1, <2>3, TextKeepsChainInv DEF EmitFails
  <2>4. QED BY <1>6, <2>2, <2>3 DEF EmitFails
<1>7. ASSUME NEW p \in Proc, Crash(p)
      PROVE  ChainInv'
  <2>1. HolderInside'
    BY <1>1, <1>2, <1>7 DEF Crash, Leave, HolderInside
  <2>2. CASE lines' = lines
    BY <1>1, <1>2, <1>3, <1>7, <2>1, <2>2 DEF Crash, Leave, TipCurrent, ChainInv
  <2>3. CASE PutText(Cut) /\ pc[p] = "append"
    BY <1>1, <1>7, <2>1, <2>3, TextKeepsChainInv DEF Crash, Leave
  <2>4. QED BY <1>7, <2>2, <2>3 DEF Crash
<1>8. CASE LockAges
  <2>1. HolderInside'
    BY <1>2, <1>8 DEF LockAges, HolderInside, TrailInv, TypeOK, NoLock
  <2>2. QED BY <1>2, <1>3, <1>8, <2>1 DEF LockAges, TipCurrent, ChainInv
<1>9. CASE UNCHANGED vars
  BY <1>2, <1>3, <1>9 DEF vars, HolderInside, TipCurrent, ChainInv
<1>10. QED BY <1>4, <1>5, <1>6, <1>7, <1>8, <1>9 DEF Next, FaultStep, Exhausted

\* While no live process is robbed of its lock, one emission is inside at a time and
\* whatever crashes, stalls or fails between a row's text and its newline damages the
\* trail's last line only: a lock left by a dead process may be removed by age.
THEOREM ChainsUnlessRobbed == Spec => []ChainUnlessRobbed
<1>1. Init => TrailInv /\ ChainInv
  BY TrailInvInit, ChainInvInit
<1>2. TrailInv /\ ChainInv /\ [Next]_vars => (TrailInv /\ ChainInv)'
  BY TrailInvNext, ChainInvNext
<1>3. ChainInv => ChainUnlessRobbed
  <2> SUFFICES ASSUME ChainInv, ~robbed
               PROVE  OneHolder /\ Chained
    BY DEF ChainUnlessRobbed, Chained, Linked
  <2>1. OneHolder
    BY DEF ChainInv, HolderInside, OneHolder
  <2>2. QED BY <2>1 DEF ChainInv
<1>4. QED BY <1>1, <1>2, <1>3, PTL DEF Spec
=============================================================================
