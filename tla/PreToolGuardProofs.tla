------------------------- MODULE PreToolGuardProofs -------------------------
(***************************************************************************)
(* Proofs about the pre-tool guard, for every call and configuration: the   *)
(* order of the built-in rules is that of their strictness, the gate lets   *)
(* pass only what was pinned, no word or path more weakens a verdict, and   *)
(* wildcards and paths are read as they are meant.                          *)
(***************************************************************************)
EXTENDS PreToolGuard, TextRulesProofs

-----------------------------------------------------------------------------
(* The first rule that fires *)

\* The verdict of the first rule is a verdict.
LEMMA FirstVerdictType ==
  ASSUME NEW rules, NEW otherwise \in Verdict, DOMAIN rules \subseteq Nat,
         \A i \in DOMAIN rules : rules[i].verdict \in Verdict
  PROVE  FirstVerdict(rules, otherwise) \in Verdict
<1> DEFINE firing == {i \in DOMAIN rules : rules[i].fires}
<1>1. CASE firing = {}
  BY <1>1 DEF FirstVerdict
<1>2. CASE firing # {}
  <2>1. firing \subseteq Nat
    OBVIOUS
  <2>2. Min(firing) \in firing
    BY <1>2, <2>1, MinIsLeast
  <2>3. QED BY <1>2, <2>2 DEF FirstVerdict
<1>3. QED BY <1>1, <1>2

\* What the rules answer are verdicts.
LEMMA VerdictTypes ==
  /\ Allow \in Verdict
  /\ \A level \in 0..4 : Ask(level) \in Verdict /\ Deny(level) \in Verdict
BY DEF Allow, Ask, Deny, Verdict, Decision

\* Where the deletion rule fires it asks or denies.
LEMMA DeleteRuleVerdict ==
  ASSUME NEW c, NEW config
  PROVE  /\ DeleteRule(c, config).verdict \in {Allow, Ask(3), Deny(3)}
         /\ DeleteRule(c, config).fires => DeleteRule(c, config).verdict \in {Ask(3), Deny(3)}
BY DEF DeleteRule, Rule

\* The verdicts of the built-in rules, in their order.
LEMMA BuiltInVerdicts ==
  ASSUME NEW c, NEW config
  PROVE  LET rules == BuiltInRules(c, config)
         IN /\ DOMAIN rules = 1..12
            /\ \A i \in 1..6 : rules[i].verdict = Deny(3)
            /\ rules[7] = DeleteRule(c, config)
            /\ \A i \in 8..12 : rules[i].verdict \in {Ask(3), Ask(4)}
<1> DEFINE rules == BuiltInRules(c, config)
<1>1. DOMAIN rules = 1..12
  BY DEF BuiltInRules
<1>2. /\ rules[1].verdict = Deny(3) /\ rules[2].verdict = Deny(3) /\ rules[3].verdict = Deny(3)
      /\ rules[4].verdict = Deny(3) /\ rules[5].verdict = Deny(3) /\ rules[6].verdict = Deny(3)
  BY DEF BuiltInRules, Rule
<1>3. rules[7] = DeleteRule(c, config)
  BY DEF BuiltInRules
<1>4. /\ rules[8].verdict = Ask(4) /\ rules[9].verdict = Ask(3) /\ rules[10].verdict = Ask(3)
      /\ rules[11].verdict = Ask(3) /\ rules[12].verdict = Ask(4)
  BY DEF BuiltInRules, Rule
<1> HIDE DEF rules
<1>5. \A i \in 1..6 : i = 1 \/ i = 2 \/ i = 3 \/ i = 4 \/ i = 5 \/ i = 6
  OBVIOUS
<1>6. \A i \in 8..12 : i = 8 \/ i = 9 \/ i = 10 \/ i = 11 \/ i = 12
  OBVIOUS
<1>7. \A i \in 1..6 : rules[i].verdict = Deny(3)
  BY <1>2, <1>5
<1>8. \A i \in 8..12 : rules[i].verdict \in {Ask(3), Ask(4)}
  BY <1>4, <1>6
<1>9. QED BY <1>1, <1>3, <1>7, <1>8 DEF rules

\* How strict the answers of the rules are.
LEMMA Strictnesses ==
  /\ Strictness(Allow) = 0
  /\ \A level \in 0..4 : Strictness(Ask(level)) = 1 /\ Strictness(Deny(level)) = 2
BY DEF Strictness, Allow, Ask, Deny

\* No built-in rule that fires is stricter than the first that fires.
LEMMA FirstBuiltInIsStrictest ==
  ASSUME NEW c, NEW config,
         NEW i \in DOMAIN BuiltInRules(c, config), BuiltInRules(c, config)[i].fires
  PROVE  Strictness(BuiltInRules(c, config)[i].verdict)
           <= Strictness(FirstVerdict(BuiltInRules(c, config), Allow))
<1> DEFINE rules == BuiltInRules(c, config)
           firing == {k \in DOMAIN rules : rules[k].fires}
           first == Min(firing)
<1>1. /\ DOMAIN rules = 1..12 /\ \A k \in 1..6 : rules[k].verdict = Deny(3)
      /\ rules[7] = DeleteRule(c, config) /\ \A k \in 8..12 : rules[k].verdict \in {Ask(3), Ask(4)}
  BY BuiltInVerdicts
<1> HIDE DEF rules
<1>2. i \in firing /\ firing \subseteq 1..12
  BY <1>1 DEF rules
<1>3. first \in firing /\ first <= i
  <2>1. firing \subseteq Nat /\ firing # {}
    BY <1>2
  <2> HIDE DEF firing
  <2>2. QED BY <1>2, <2>1, MinIsLeast
<1>4. FirstVerdict(rules, Allow) = rules[first].verdict
  BY <1>2 DEF FirstVerdict
<1>5. ASSUME NEW k \in firing
      PROVE  /\ k <= 6 => Strictness(rules[k].verdict) = 2
             /\ k = 7 => Strictness(rules[k].verdict) \in {1, 2}
             /\ k >= 8 => Strictness(rules[k].verdict) = 1
  <2>1. CASE k <= 6
    <3>1. k \in 1..6
      BY <1>2, <2>1
    <3>2. rules[k].verdict = Deny(3)
      BY <1>1, <3>1
    <3>3. QED BY <2>1, <3>1, <3>2, Strictnesses
  <2>2. CASE k = 7
    <3>1. rules[k].verdict \in {Ask(3), Deny(3)}
      BY <1>1, <2>2, DeleteRuleVerdict
    <3>2. QED BY <2>2, <3>1, Strictnesses
  <2>3. CASE k >= 8
    <3>1. k \in 8..12
      BY <1>2, <2>3
    <3>2. rules[k].verdict \in {Ask(3), Ask(4)}
      BY <1>1, <3>1
    <3>3. QED BY <2>3, <3>1, <3>2, Strictnesses
  <2>4. k \in 1..12
    BY <1>2
  <2>5. QED BY <2>1, <2>2, <2>3, <2>4
<1>6. i \in 1..12 /\ first \in 1..12
  BY <1>2, <1>3
<1>7. Strictness(rules[i].verdict) <= Strictness(rules[first].verdict)
  <2> DEFINE si == Strictness(rules[i].verdict)
             sf == Strictness(rules[first].verdict)
  <2>1. (i <= 6 => si = 2) /\ (i = 7 => si \in {1, 2}) /\ (i >= 8 => si = 1)
    BY <1>2, <1>5
  <2>2. (first <= 6 => sf = 2) /\ (first = 7 => sf \in {1, 2}) /\ (first >= 8 => sf = 1)
    BY <1>3, <1>5
  <2>3. i = first => si = sf
    OBVIOUS
  <2> HIDE DEF si, sf, first
  <2>4. si <= sf
    BY <1>3, <1>6, <2>1, <2>2, <2>3
  <2>5. QED BY <2>4 DEF si, sf
<1>8. QED BY <1>4, <1>7 DEF rules

\* Whatever the command and the configuration, the order in which evaluate_bash tries its
\* built-in rules never hides a stricter one behind a milder one.
THEOREM BuiltInOrder == Spec => []FirstIsStrictest
<1>1. FirstIsStrictest
  BY FirstBuiltInIsStrictest DEF FirstIsStrictest, BuiltIn
<1>2. QED BY <1>1, PTL

-----------------------------------------------------------------------------
(* The cascade gives a verdict *)

\* Two cascades, one after the other.
LEMMA CascadesType ==
  ASSUME NEW R, \A r \in R : r.verdict \in Verdict, NEW a \in Seq(R), NEW b \in Seq(R)
  PROVE  FirstVerdict(a \o b, Allow) \in Verdict
<1>1. a \o b \in Seq(R)
  BY ConcatProperties
<1> DEFINE rules == a \o b
<1> HIDE DEF rules
<1>2. rules \in Seq(R)
  BY <1>1 DEF rules
<1>3. DOMAIN rules \subseteq Nat /\ \A i \in DOMAIN rules : rules[i] \in R
  BY <1>2
<1>4. \A i \in DOMAIN rules : rules[i].verdict \in Verdict
  BY <1>3
<1>5. FirstVerdict(rules, Allow) \in Verdict
  BY <1>3, <1>4, FirstVerdictType, VerdictTypes
<1>6. QED BY <1>5 DEF rules

\* evaluate_bash gives a verdict.
LEMMA EvaluateBashType ==
  ASSUME NEW c, NEW config
  PROVE  EvaluateBash(c, config) \in Verdict
<1> DEFINE built == BuiltInRules(c, config)
           configured == ConfiguredRules(c, config)
           R == {built[i] : i \in 1..12} \cup {configured[i] : i \in 1..3}
<1>1. built \in Seq(R)
  <2>1. built \in Seq({built[i] : i \in 1..12})
    BY DEF BuiltInRules
  <2> HIDE DEF built, configured
  <2>2. QED BY <2>1
<1>2. configured \in Seq(R)
  <2>1. configured \in Seq({configured[i] : i \in 1..3})
    BY DEF ConfiguredRules
  <2> HIDE DEF built, configured
  <2>2. QED BY <2>1
<1>3. \A i \in 1..12 : built[i].verdict \in Verdict
  <2>1. ASSUME NEW i \in 1..12
        PROVE  built[i].verdict \in {Allow, Ask(3), Ask(4), Deny(3)}
    <3>1. \/ i \in 1..6 \/ i = 7 \/ i \in 8..12
      OBVIOUS
    <3>2. QED BY <3>1, BuiltInVerdicts, DeleteRuleVerdict
  <2>2. QED BY <2>1, VerdictTypes
<1>4. \A i \in 1..3 : configured[i].verdict \in Verdict
  <2>1. /\ configured[1].verdict = Deny(3) /\ configured[2].verdict = Ask(3)
        /\ configured[3].verdict = Ask(4)
    BY DEF ConfiguredRules, Rule
  <2> HIDE DEF configured
  <2>2. \A i \in 1..3 : i = 1 \/ i = 2 \/ i = 3
    OBVIOUS
  <2>3. QED BY <2>1, <2>2, VerdictTypes
<1>5. EvaluateBash(c, config) = FirstVerdict(built \o configured, Allow)
  BY DEF EvaluateBash
<1> HIDE DEF built, configured
<1>6. \A r \in R : r.verdict \in Verdict
  BY <1>3, <1>4
<1> HIDE DEF R
<1>7. QED BY <1>1, <1>2, <1>5, <1>6, CascadesType

\* Every rule of a path that is written to stops the write.
LEMMA WriteRuleVerdicts ==
  ASSUME NEW cwd, NEW path, NEW config
  PROVE  /\ DOMAIN WriteRules(cwd, path, config) \subseteq Nat
         /\ \A r \in DOMAIN WriteRules(cwd, path, config) :
              WriteRules(cwd, path, config)[r].verdict \in {Deny(2), Ask(2)}
<1> DEFINE rules == WriteRules(cwd, path, config)
           head == <<Rule(Guarded(cwd, path, config), Deny(2))>>
           tail == ControlledRules(path)
           R == {head[1]} \cup {tail[i] : i \in 1..4}
<1>1. tail \in Seq({tail[i] : i \in 1..4})
  <2>1. \E a, b, c, d : tail = <<a, b, c, d>>
    BY Zenon DEF ControlledRules
  <2> HIDE DEF tail
  <2>2. PICK a, b, c, d : tail = <<a, b, c, d>>
    BY <2>1
  <2>3. QED BY <2>2
<1>2. /\ tail[1].verdict = Deny(2) /\ tail[2].verdict = Ask(2)
      /\ tail[3].verdict = Ask(2) /\ tail[4].verdict = Ask(2)
  BY DEF ControlledRules, Rule
<1>3. head \in Seq({head[1]}) /\ head[1].verdict = Deny(2)
  BY DEF Rule
<1>4. rules = head \o tail
  BY DEF WriteRules
<1> HIDE DEF head, tail, rules
<1>5. head \in Seq(R) /\ tail \in Seq(R)
  BY <1>1, <1>3
<1>6. \A i \in 1..4 : i = 1 \/ i = 2 \/ i = 3 \/ i = 4
  OBVIOUS
<1>7. \A r \in R : r.verdict \in {Deny(2), Ask(2)}
  BY <1>2, <1>3, <1>6
<1> HIDE DEF R
<1>8. rules \in Seq(R)
  BY <1>4, <1>5, ConcatProperties
<1>9. DOMAIN rules \subseteq Nat /\ \A r \in DOMAIN rules : rules[r] \in R
  BY <1>8
<1>10. QED BY <1>7, <1>9 DEF rules

\* The first of the rules of a written path gives a verdict.
LEMMA WriteRulesType ==
  ASSUME NEW cwd, NEW path, NEW config
  PROVE  FirstVerdict(WriteRules(cwd, path, config), Allow) \in Verdict
<1> DEFINE rules == WriteRules(cwd, path, config)
<1>1. DOMAIN rules \subseteq Nat /\ \A r \in DOMAIN rules : rules[r].verdict \in Verdict
  BY WriteRuleVerdicts, VerdictTypes
<1> HIDE DEF rules
<1>2. FirstVerdict(rules, Allow) \in Verdict
  BY <1>1, FirstVerdictType, VerdictTypes
<1>3. QED BY <1>2 DEF rules

\* evaluate_write gives a verdict.
LEMMA EvaluateWriteType ==
  ASSUME NEW cwd, NEW named, DOMAIN named \subseteq Nat, NEW config
  PROVE  EvaluateWrite(cwd, named, config) \in Verdict
<1>1. \A path : FirstVerdict(WriteRules(cwd, path, config), Allow) \in Verdict
  BY WriteRulesType
<1>2. CASE named = <<>>
  BY <1>2, VerdictTypes DEF EvaluateWrite
<1>3. CASE named # <<>>
  <2> DEFINE fires(i) == \E r \in DOMAIN WriteRules(cwd, named[i], config) :
                           WriteRules(cwd, named[i], config)[r].fires
             rules == [i \in DOMAIN named |->
                         Rule(fires(i), FirstVerdict(WriteRules(cwd, named[i], config), Allow))]
  <2>1. EvaluateWrite(cwd, named, config) = FirstVerdict(rules, Allow)
    BY <1>3 DEF EvaluateWrite
  <2>2. ASSUME NEW i \in DOMAIN rules
        PROVE  rules[i].verdict \in Verdict
    BY <1>1 DEF Rule
  <2>3. DOMAIN rules \subseteq Nat
    OBVIOUS
  <2> HIDE DEF rules
  <2>4. QED BY <2>1, <2>2, <2>3, FirstVerdictType, VerdictTypes
<1>4. QED BY <1>2, <1>3

\* Whatever the arm of the match, the cascade gives a verdict.
LEMMA BaseVerdictType ==
  ASSUME tool \in Tools, paths \in Seq(Paths)
  PROVE  BaseVerdict \in Verdict
<1>1. CASE tool.kind = "bash"
  BY <1>1, EvaluateBashType, VerdictTypes DEF BaseVerdict
<1>2. CASE tool.kind = "read"
  BY <1>2, VerdictTypes DEF BaseVerdict, EvaluateRead
<1>3. CASE tool.kind = "write"
  <2>1. DOMAIN paths \subseteq Nat
    OBVIOUS
  <2>2. QED BY <1>3, <2>1, EvaluateWriteType DEF BaseVerdict
<1>4. CASE tool.kind \in {"web", "other"}
  BY <1>4, VerdictTypes DEF BaseVerdict
<1>5. QED BY <1>1, <1>2, <1>3, <1>4, ToolsAssumption

-----------------------------------------------------------------------------
(* The gate *)

Named == settings.gate /\ tool.name # ""
Answered == ComposeGuardVerdicts(base, IF Admitted(outcome) THEN Allow ELSE Deny(3))

FilesInv ==
  /\ pinned \subseteq Pins
  /\ manifest \in {Missing, Partial} \cup pinned
  /\ pubkey \in {Missing, Partial} \cup Keys
  /\ advertised \in {Missing, Partial} \cup Definitions

\* What the evaluation has found out at each of its steps.
HeldInv ==
  /\ step \in GateSteps \cup {"idle", "end"}
  /\ held \in [key : {Missing} \cup Keys, manifest : {Missing} \cup Pins,
               def : {Missing} \cup Definitions]
  /\ step \in GateSteps \ {"name"} => tool.safe
  /\ step \in {"definition", "verify"} => held.manifest \in pinned
  /\ step = "end" /\ outcome = "valid" =>
       tool.safe /\ [def |-> held.def, key |-> held.key] \in pinned

CallInv ==
  /\ tool \in Tools /\ settings \in Settings /\ paths \in Seq(Paths)
  /\ base \in Verdict
  /\ Named /\ answer # None => step = "end" /\ answer = Answered

GateInv == FilesInv /\ HeldInv /\ CallInv

\* The inductive invariant of the gate holds at the start.
LEMMA InitGateInv == Init => GateInv
<1> SUFFICES ASSUME Init PROVE GateInv
  OBVIOUS
<1>1. FilesInv
  BY DEF Init, GateInit, FilesInv
<1>2. HeldInv
  BY DEF Init, GateInit, HeldInv, Unread, GateSteps
<1>3. CallInv
  BY VerdictTypes DEF Init, CallInv
<1>4. QED BY <1>1, <1>2, <1>3 DEF GateInv

\* A step of the evaluation learns something, and the files and the call stay.
LEMMA EvaluateHeld ==
  ASSUME GateInv, GateStep
  PROVE  HeldInv'
<1>1. /\ FilesInv /\ HeldInv
      /\ UNCHANGED <<settings, tool, pinned>>
  BY DEF GateInv, GateStep, request, fileVars, Evaluate
<1>2. CASE CheckName(tool.safe)
  BY <1>1, <1>2 DEF CheckName, HeldInv, Goto, End, GateSteps
<1>3. CASE CheckSnapshot
  BY <1>1, <1>3 DEF CheckSnapshot, HeldInv, Goto, End, GateSteps
<1>4. CASE CheckPin
  BY <1>1, <1>4 DEF CheckPin, HeldInv, Goto, End, GateSteps
<1>5. CASE ReadPubkey
  <2>1. CASE ~Readable(pubkey)
    BY <1>1, <1>5, <2>1 DEF ReadPubkey, HeldInv, End, GateSteps
  <2>2. CASE Readable(pubkey)
    BY <1>1, <1>5, <2>2 DEF ReadPubkey, HeldInv, FilesInv, Hold, GateSteps, Readable
  <2>3. QED BY <2>1, <2>2
<1>6. CASE ReadManifest
  BY <1>1, <1>6 DEF ReadManifest, HeldInv, FilesInv, Hold, End, GateSteps, Readable
<1>7. CASE ReadDefinition
  BY <1>1, <1>7 DEF ReadDefinition, HeldInv, FilesInv, Hold, End, GateSteps, Readable
<1>8. CASE Verify
  BY <1>1, <1>8 DEF Verify, VerifyAgainstDef, HeldInv, FilesInv, End, GateSteps, Pins
<1>9. QED BY <1>2, <1>3, <1>4, <1>5, <1>6, <1>7, <1>8 DEF GateStep, Evaluate

\* Every step keeps the files as they may be: the manifest names a pin or is not whole.
LEMMA NextFilesInv == GateInv /\ [Next]_vars => FilesInv'
<1> SUFFICES ASSUME GateInv, [Next]_vars PROVE FilesInv'
  OBVIOUS
<1>1. FilesInv
  BY DEF GateInv
<1>2. CASE OwnersStep
  <2>1. CASE Snapshot
    BY <1>1, <2>1 DEF Snapshot, FilesInv
  <2>2. CASE Pin
    BY <1>1, <2>2 DEF Pin, FilesInv, Pins
  <2>3. CASE PublishKey
    BY <1>1, <2>3 DEF PublishKey, FilesInv
  <2>4. QED BY <1>2, <2>1, <2>2, <2>3 DEF OwnersStep, Owners
<1>3. CASE ~OwnersStep
  <2>1. UNCHANGED fileVars
    BY <1>3 DEF Next, WriteCommand, NamePath, Begin, GateStep, Evaluate, Answer, vars
  <2>2. QED BY <1>1, <2>1 DEF FilesInv, fileVars
<1>4. QED BY <1>2, <1>3

\* Whoever takes a step, what the evaluation has found out stays true.
LEMMA NextHeldInv == GateInv /\ [Next]_vars => HeldInv'
<1> SUFFICES ASSUME GateInv, [Next]_vars PROVE HeldInv'
  OBVIOUS
<1>1. FilesInv /\ HeldInv
  BY DEF GateInv
<1>2. CASE GateStep
  BY <1>2, EvaluateHeld
<1>3. CASE Begin
  BY <1>1, <1>3 DEF Begin, HeldInv, Goto, GateSteps, fileVars, request, gateVars, Composing
<1>4. CASE OwnersStep
  <2>1. pinned \subseteq pinned' /\ UNCHANGED <<gateVars, tool>>
    BY <1>4 DEF OwnersStep, Owners, Snapshot, Pin, PublishKey, request
  <2>2. QED BY <1>1, <2>1 DEF HeldInv, gateVars
<1>5. CASE WriteCommand \/ NamePath \/ Answer \/ UNCHANGED vars
  <2>1. UNCHANGED <<gateVars, tool, fileVars>>
    BY <1>5 DEF WriteCommand, NamePath, Answer, vars, request
  <2>2. QED BY <1>1, <2>1 DEF HeldInv, gateVars, fileVars
<1>6. QED BY <1>2, <1>3, <1>4, <1>5 DEF Next

\* The answer is the stricter of the two verdicts.
LEMMA NextCallInv == GateInv /\ [Next]_vars => CallInv'
<1> SUFFICES ASSUME GateInv, [Next]_vars PROVE CallInv'
  OBVIOUS
<1>1. CallInv
  BY DEF GateInv
<1>2. CASE WriteCommand
  BY <1>1, <1>2 DEF CallInv, WriteCommand, Named, Answered, gateVars, Composing
<1>3. CASE NamePath
  <2>1. PICK p \in Paths, i \in 1..Len(paths) + 1 : paths' = InsertAt(paths, i, p)
    BY <1>3 DEF NamePath
  <2>2. paths' \in Seq(Paths)
    BY <1>1, <2>1 DEF InsertAt, CallInv
  <2>3. answer' = None /\ UNCHANGED <<settings, tool, base>>
    BY <1>3 DEF NamePath, Composing
  <2>4. QED BY <1>1, <2>2, <2>3 DEF CallInv, Named
<1>4. CASE Begin
  <2>1. base' \in Verdict /\ UNCHANGED <<settings, tool, paths>>
    BY <1>1, <1>4, BaseVerdictType DEF Begin, CallInv, request
  <2>2. Named => answer' = None
    BY <1>4 DEF Begin, Composing, Named
  <2>3. QED BY <1>1, <2>1, <2>2 DEF CallInv, Named
<1>5. CASE GateStep
  <2>1. step # "end" /\ UNCHANGED <<request, base, answer>>
    BY <1>5 DEF GateStep, Evaluate, CheckName, CheckSnapshot, CheckPin, ReadPubkey, ReadManifest,
                ReadDefinition, Verify
  <2>2. QED BY <1>1, <2>1 DEF CallInv, Named, request
<1>6. CASE Answer
  BY <1>1, <1>6 DEF Answer, CallInv, Named, Answered, request, gateVars
<1>7. CASE OwnersStep
  BY <1>1, <1>7 DEF OwnersStep, CallInv, Named, request
<1>8. CASE UNCHANGED vars
  BY <1>1, <1>8 DEF vars, CallInv, Named, Answered, request, gateVars
<1>9. QED BY <1>2, <1>3, <1>4, <1>5, <1>6, <1>7, <1>8 DEF Next

\* Strictest wins, and only a valid outcome is not a denial.
LEMMA AnsweredStrictness ==
  ASSUME base \in Verdict
  PROVE  /\ Strictness(Answered) >= Strictness(base)
         /\ Answered.decision # "deny" => outcome = "valid"
<1>1. base.decision \in {"allow", "ask", "deny"}
  BY DEF Verdict, Decision
<1>2. CASE outcome = "valid"
  BY <1>1, <1>2 DEF Answered, ComposeGuardVerdicts, ComposePreTool, Admitted, Allow, Strictness
<1>3. CASE outcome # "valid"
  BY <1>1, <1>3 DEF Answered, ComposeGuardVerdicts, ComposePreTool, Admitted, Deny, Strictness
<1>4. QED BY <1>2, <1>3

\* The inductive invariant of the gate, step by step.
LEMMA GateAlways == Spec => []GateInv
<1>1. GateInv /\ [Next]_vars => GateInv'
  BY NextFilesInv, NextHeldInv, NextCallInv DEF GateInv
<1>2. QED BY <1>1, InitGateInv, PTL DEF Spec

\* Fail closed: however the files are rewritten while they are read, a named tool passes
\* the configured gate only with a definition that was once signed by the key read, and
\* the answer is never milder than the cascade's.
THEOREM PinnedOnly == Spec => []OnlyPinnedPasses
<1>1. GateInv => OnlyPinnedPasses
  <2> SUFFICES ASSUME GateInv, settings.gate, tool.name # "", answer # None
               PROVE  /\ Strictness(answer) >= Strictness(base)
                      /\ answer.decision # "deny" =>
                           tool.safe /\ [def |-> held.def, key |-> held.key] \in pinned
    BY DEF OnlyPinnedPasses
  <2>1. step = "end" /\ answer = Answered /\ base \in Verdict
    BY DEF GateInv, CallInv, Named
  <2>2. HeldInv
    BY DEF GateInv
  <2>3. QED BY <2>1, <2>2, AnsweredStrictness DEF HeldInv
<1>2. QED BY <1>1, GateAlways, PTL

\* Every variable has its type, however long the command and the list of paths: in
\* particular evaluate_pre_tool answers with a verdict for every call.
THEOREM CallTypes == Spec => []TypeOK
<1> DEFINE TextInv == /\ command = None \/ command \in Seq(Words)
                      /\ answer = None \/ answer \in Verdict
<1>1. Init => TextInv
  BY DEF Init
<1>2. GateInv /\ TextInv /\ [Next]_vars => TextInv'
  <2> SUFFICES ASSUME GateInv, TextInv, [Next]_vars PROVE TextInv'
    OBVIOUS
  <2>1. tool \in Tools /\ settings \in Settings /\ paths \in Seq(Paths) /\ base \in Verdict
    BY DEF GateInv, CallInv
  <2>2. CASE WriteCommand
    <3>1. settings.words \subseteq Words
      BY <2>1, SettingsAssumption
    <3>2. command' = <<>> \/ \E w \in Words : command # None /\ command' = Append(command, w)
      BY <2>2, <3>1 DEF WriteCommand
    <3>3. command' \in Seq(Words)
      <4>1. CASE command' = <<>>
        BY <4>1
      <4>2. ASSUME NEW w \in Words, command # None, command' = Append(command, w)
            PROVE  command' \in Seq(Words)
        <5>1. command \in Seq(Words)
          BY <4>2
        <5>2. Append(command, w) \in Seq(Words)
          BY <5>1, AppendProperties
        <5>3. QED BY <4>2, <5>2
      <4>3. QED BY <3>2, <4>1, <4>2
    <3>4. QED BY <2>2, <3>3 DEF WriteCommand
  <2>3. CASE Begin
    <3>1. BaseVerdict \in Verdict
      BY <2>1, BaseVerdictType
    <3>2. QED BY <2>3, <3>1 DEF Begin, Composing, request
  <2>4. CASE Answer
    <3>1. Answered \in Verdict
      BY <2>1 DEF Answered, ComposeGuardVerdicts, ComposePreTool, Verdict, Decision, Allow, Deny
    <3>2. QED BY <2>4, <3>1 DEF Answer, Answered, request
  <2>5. CASE NamePath \/ GateStep \/ OwnersStep \/ UNCHANGED vars
    BY <2>5 DEF NamePath, GateStep, OwnersStep, request, vars
  <2>6. QED BY <2>2, <2>3, <2>4, <2>5 DEF Next
<1>3. GateInv /\ TextInv => TypeOK
  <2> SUFFICES ASSUME GateInv, TextInv PROVE TypeOK
    OBVIOUS
  <2>1. settings \in Settings /\ tool \in Tools /\ paths \in Seq(Paths) /\ base \in Verdict
    BY DEF GateInv, CallInv
  <2>2. FilesInv /\ HeldInv
    BY DEF GateInv
  <2>3. QED BY <2>1, <2>2 DEF TypeOK, FilesInv, HeldInv
<1>4. QED BY <1>1, <1>2, <1>3, GateAlways, PTL DEF Spec

-----------------------------------------------------------------------------
(* One word more, before a command or after it *)

\* e is c with one word more, put before it (shift = 1) or after it (shift = 0).
Embeds(c, shift, e) ==
  /\ c \in Seq(Words) /\ e \in Seq(Words) /\ shift \in {0, 1}
  /\ Len(e) = Len(c) + 1
  /\ \A i \in 1..Len(c) : e[i + shift] = c[i]
  /\ shift = 1 => Is(e[1], Wrappers) \/ LooksLikeAssignment(e[1])

\* Where a word of the command is in the longer one.
LEMMA EmbeddedIndex ==
  ASSUME NEW c, NEW d, NEW e, Embeds(c, d, e), NEW i \in DOMAIN c
  PROVE  /\ i \in Nat /\ i > 0 /\ i <= Len(c) /\ Len(c) \in Nat /\ d \in {0, 1}
         /\ i + d \in DOMAIN e /\ e[i + d] = c[i]
BY DEF Embeds

\* What was an argument of a word is one of it still.
LEMMA EmbeddedArgs ==
  ASSUME NEW c, NEW d, NEW e, Embeds(c, d, e), NEW i \in DOMAIN c, NEW j \in ArgIndices(c, i)
  PROVE  j \in DOMAIN c /\ j > i /\ j + d \in ArgIndices(e, i + d)
<1>1. /\ Len(c) \in Nat /\ Len(e) = Len(c) + 1 /\ d \in {0, 1} /\ i \in 1..Len(c)
      /\ \A k \in 1..Len(c) : e[k + d] = c[k]
  BY DEF Embeds
<1>2. j \in i + 1..Len(c) /\ \A k \in i + 1..j : ~EndsArguments(c[k])
  BY DEF ArgIndices
<1>3. j \in Nat /\ j > i /\ j \in 1..Len(c) /\ j + d \in (i + d) + 1..Len(e)
  BY <1>1, <1>2
<1>4. ASSUME NEW k \in (i + d) + 1..j + d
      PROVE  ~EndsArguments(e[k])
  <2>1. k - d \in i + 1..j /\ k - d \in 1..Len(c) /\ (k - d) + d = k
    BY <1>1, <1>3
  <2>2. e[k] = c[k - d]
    BY <1>1, <2>1
  <2>3. QED BY <1>2, <2>1, <2>2
<1>5. DOMAIN c = 1..Len(c)
  BY DEF Embeds
<1>6. QED BY <1>3, <1>4, <1>5 DEF ArgIndices

\* What was run as a command is run still.
LEMMA EmbeddedCommands ==
  ASSUME NEW c, NEW d, NEW e, Embeds(c, d, e), NEW texts, NEW i \in CommandIndices(c, texts)
  PROVE  i \in DOMAIN c /\ i + d \in CommandIndices(e, texts)
<1>1. /\ Len(c) \in Nat /\ Len(e) = Len(c) + 1 /\ d \in {0, 1}
      /\ DOMAIN c = 1..Len(c) /\ DOMAIN e = 1..Len(e)
      /\ \A k \in 1..Len(c) : e[k + d] = c[k]
      /\ d = 1 => Is(e[1], Wrappers) \/ LooksLikeAssignment(e[1])
  BY DEF Embeds
<1>2. /\ i \in 1..Len(c) /\ Is(c[i], texts)
      /\ \/ i = 1
         \/ IsCommandBoundary(c[i - 1]) \/ Is(c[i - 1], Wrappers) \/ LooksLikeAssignment(c[i - 1])
         \/ i > 2 /\ Is(c[i - 2], Wrappers)
  BY <1>1 DEF CommandIndices
<1>3. i + d \in DOMAIN e /\ e[i + d] = c[i]
  BY <1>1, <1>2
<1>4. CASE i = 1
  <2>1. d = 0 => i + d = 1
    BY <1>4
  <2>2. d = 1 => (i + d) - 1 = 1
    BY <1>4
  <2>3. QED BY <1>1, <1>2, <1>3, <2>1, <2>2 DEF CommandIndices
<1>5. CASE i # 1
  <2>1. i - 1 \in 1..Len(c) /\ (i - 1) + d = (i + d) - 1
    BY <1>1, <1>2, <1>5
  <2>2. e[(i + d) - 1] = c[i - 1]
    BY <1>1, <2>1
  <2>3. i > 2 => i + d > 2 /\ e[(i + d) - 2] = c[i - 2]
    <3> SUFFICES ASSUME i > 2 PROVE i + d > 2 /\ e[(i + d) - 2] = c[i - 2]
      OBVIOUS
    <3>1. i - 2 \in 1..Len(c) /\ (i - 2) + d = (i + d) - 2 /\ i + d > 2
      BY <1>1, <1>2
    <3>2. QED BY <1>1, <3>1
  <2>4. QED BY <1>2, <1>3, <1>5, <2>2, <2>3 DEF CommandIndices
<1>6. QED BY <1>1, <1>2, <1>4, <1>5

\* The first command word and the next word are found again behind the shift.
LEMMA EmbeddedFirstWord ==
  ASSUME NEW c, NEW d, NEW e, Embeds(c, d, e), NEW texts, NEW from \in 0..Len(c),
         FirstCommandWord(c, from, texts)
  PROVE  FirstCommandWord(e, from + d, texts) /\ (from = 0 => FirstCommandWord(e, 0, texts))
<1> DEFINE passed(word) == \/ EndsArguments(word) \/ LooksLikeAssignment(word)
                           \/ Is(word, Wrappers) \/ IsFlag(word)
<1>1. /\ Len(c) \in Nat /\ Len(e) = Len(c) + 1 /\ d \in {0, 1}
      /\ \A k \in 1..Len(c) : e[k + d] = c[k]
      /\ d = 1 => passed(e[1])
  BY DEF Embeds
<1>2. PICK i \in from + 1..Len(c) :
        Is(c[i], texts) /\ ~passed(c[i]) /\ \A j \in from + 1..i - 1 : passed(c[j])
  BY DEF FirstCommandWord
<1> HIDE DEF passed
<1>3. i + d \in (from + d) + 1..Len(e) /\ i + d \in 1..Len(e) /\ e[i + d] = c[i]
  BY <1>1, <1>2
<1>4. ASSUME NEW j \in (from + d) + 1..(i + d) - 1
      PROVE  passed(e[j])
  <2>1. j - d \in from + 1..i - 1 /\ j - d \in 1..Len(c) /\ (j - d) + d = j
    BY <1>1, <1>2
  <2>2. e[j] = c[j - d]
    BY <1>1, <2>1
  <2>3. QED BY <1>2, <2>1, <2>2
<1>5. FirstCommandWord(e, from + d, texts)
  BY <1>2, <1>3, <1>4 DEF FirstCommandWord, passed
<1>6. ASSUME from = 0, NEW j \in 1..(i + d) - 1
      PROVE  passed(e[j])
  <2>1. (j = 1 /\ d = 1) \/ j \in (from + d) + 1..(i + d) - 1
    BY <1>1, <1>2, <1>6
  <2>2. QED BY <1>1, <1>4, <2>1
<1>7. from = 0 => FirstCommandWord(e, 0, texts)
  <2> SUFFICES ASSUME from = 0 PROVE FirstCommandWord(e, 0, texts)
    OBVIOUS
  <2>1. i + d \in 0 + 1..Len(e) /\ Is(e[i + d], texts) /\ ~passed(e[i + d])
    BY <1>2, <1>3
  <2>2. \A j \in 0 + 1..(i + d) - 1 : passed(e[j])
    BY <1>6
  <2>3. QED BY <2>1, <2>2 DEF FirstCommandWord, passed
<1>8. QED BY <1>5, <1>7

\* What came next after a word comes next after it still.
LEMMA EmbeddedNextWord ==
  ASSUME NEW c, NEW d, NEW e, Embeds(c, d, e), NEW texts, NEW from \in DOMAIN c,
         NextWord(c, from, texts)
  PROVE  NextWord(e, from + d, texts)
<1>1. /\ Len(c) \in Nat /\ Len(e) = Len(c) + 1 /\ d \in {0, 1}
      /\ \A k \in 1..Len(c) : e[k + d] = c[k] /\ from \in 1..Len(c)
  BY DEF Embeds
<1>2. PICK i \in from + 1..Len(c) :
        Is(c[i], texts) /\ ~IsFlag(c[i]) /\ \A j \in from + 1..i - 1 : IsFlag(c[j])
  BY DEF NextWord
<1>3. i + d \in (from + d) + 1..Len(e) /\ e[i + d] = c[i]
  BY <1>1, <1>2
<1>4. ASSUME NEW j \in (from + d) + 1..(i + d) - 1
      PROVE  IsFlag(e[j])
  <2>1. j - d \in from + 1..i - 1 /\ j - d \in 1..Len(c) /\ (j - d) + d = j
    BY <1>1, <1>2
  <2>2. e[j] = c[j - d]
    BY <1>1, <2>1
  <2>3. QED BY <1>2, <2>1, <2>2
<1>5. QED BY <1>2, <1>3, <1>4 DEF NextWord

\* An argument that was there is there still.
LEMMA EmbeddedHasArg ==
  ASSUME NEW c, NEW d, NEW e, Embeds(c, d, e), NEW i \in DOMAIN c, NEW texts
  PROVE  /\ HasArg(c, i, texts) => HasArg(e, i + d, texts)
         /\ FirstArg(c, i, texts) => FirstArg(e, i + d, texts)
<1>1. ASSUME NEW j \in ArgIndices(c, i)
      PROVE  j + d \in ArgIndices(e, i + d) /\ e[j + d] = c[j]
  BY EmbeddedArgs, EmbeddedIndex
<1>2. HasArg(c, i, texts) => HasArg(e, i + d, texts)
  BY <1>1 DEF HasArg
<1>3. ASSUME FirstArg(c, i, texts)
      PROVE  FirstArg(e, i + d, texts)
  <2>1. (i + 1) + d = (i + d) + 1
    BY EmbeddedIndex
  <2>2. QED BY <1>1, <1>3, <2>1 DEF FirstArg
<1>4. QED BY <1>2, <1>3

\* effective_argv steps over wrappers and assignments, and over flags after a wrapper: the
\* interpreter it found is found behind one more of them, unless flags led the command.
LEMMA EmbeddedInterpreter ==
  ASSUME NEW c, NEW d, NEW e, Embeds(c, d, e), d = 1 => ~FlagInterpreter(c), InterpreterWrapper(c)
  PROVE  InterpreterWrapper(e)
<1> DEFINE n == Len(c)
           wraps(s, i) == s[i].stem \in Wrappers \cup {"exec"}
           after(s, i) == \E k \in 1..i - 1 : wraps(s, k) /\ \A j \in k + 1..i - 1 : IsFlag(s[j])
           passed(s, i) == LooksLikeAssignment(s[i]) \/ wraps(s, i) \/ (IsFlag(s[i]) /\ after(s, i))
           stops(s) == {i \in 1..Len(s) : ~passed(s, i)} \cup {Len(s) + 1}
           b == EffectiveStart(c)
<1>1. /\ n \in Nat /\ Len(e) = n + 1 /\ d \in {0, 1}
      /\ \A k \in 1..n : e[k + d] = c[k]
      /\ d = 1 => Is(e[1], Wrappers) \/ LooksLikeAssignment(e[1])
      /\ c \in Seq(Words) /\ e \in Seq(Words)
  BY DEF Embeds
<1>2. b = Min(stops(c)) /\ EffectiveStart(e) = Min(stops(e))
  BY DEF EffectiveStart
<1>3. stops(c) \subseteq Nat /\ stops(c) # {} /\ stops(e) \subseteq Nat /\ stops(e) # {}
  BY <1>1
<1>4. /\ b \in stops(c) /\ \A i \in stops(c) : b <= i
      /\ EffectiveStart(e) \in stops(e) /\ \A i \in stops(e) : EffectiveStart(e) <= i
  <2> HIDE DEF stops, b
  <2>1. QED BY <1>2, <1>3, MinIsLeast
<1>5. /\ b < n
      /\ c[b].stem \in Interpreters
      /\ \/ Is(c[b + 1], {"-c", "-e", "/c"})
         \/ c[b].stem \in {"powershell", "pwsh"} /\ Is(c[b + 1], {"-command"})
  BY DEF InterpreterWrapper
<1> HIDE DEF b
<1>6. b \in 1..n /\ b + 1 \in 1..n /\ ~passed(c, b) /\ \A i \in 1..b - 1 : passed(c, i)
  <2> HIDE DEF passed
  <2>1. b \in 1..n + 1 /\ b # n + 1
    BY <1>1, <1>4, <1>5
  <2>2. b \in 1..n /\ b + 1 \in 1..n /\ ~passed(c, b)
    BY <1>1, <1>4, <1>5, <2>1
  <2>3. ASSUME NEW i \in 1..b - 1
        PROVE  passed(c, i)
    <3>1. i \in 1..n /\ ~(b <= i)
      BY <1>1, <2>1
    <3>2. i \notin stops(c)
      <4> HIDE DEF stops
      <4>1. QED BY <1>4, <3>1
    <3>3. QED BY <3>1, <3>2
  <2>4. QED BY <2>2, <2>3
<1>b. n \in Nat /\ d \in {0, 1} /\ b \in 1..n
  <2> HIDE DEF passed
  <2>1. QED BY <1>1, <1>6
<1>7. /\ e[b + d] = c[b] /\ e[(b + d) + 1] = c[b + 1] /\ b + d \in 1..n + 1 /\ b + d < n + 1
      /\ (b + 1) + d = (b + d) + 1
  BY <1>1, <1>6
<1>8. ASSUME NEW i \in 1..b - 1
      PROVE  passed(e, i + d)
  <2>1. passed(c, i) /\ i \in 1..n /\ e[i + d] = c[i]
    <3> HIDE DEF passed
    <3>1. i \in 1..n
      BY <1>b
    <3>2. QED BY <1>1, <1>6, <3>1
  <2>2. ASSUME after(c, i)
        PROVE  after(e, i + d)
    <3>1. PICK k \in 1..i - 1 : wraps(c, k) /\ \A j \in k + 1..i - 1 : IsFlag(c[j])
      BY <2>2
    <3>2. k + d \in 1..(i + d) - 1 /\ e[k + d] = c[k]
      BY <1>1, <2>1, <3>1
    <3>3. ASSUME NEW j \in (k + d) + 1..(i + d) - 1
          PROVE  IsFlag(e[j])
      <4>1. j - d \in k + 1..i - 1 /\ j - d \in 1..n /\ (j - d) + d = j
        BY <1>1, <2>1, <3>2
      <4>2. e[j] = c[j - d]
        BY <1>1, <4>1
      <4>3. QED BY <3>1, <4>1, <4>2
    <3>4. QED BY <3>1, <3>2, <3>3
  <2> HIDE DEF after
  <2>3. QED BY <2>1, <2>2
<1>9. d = 1 => passed(e, 1)
  <2> SUFFICES ASSUME d = 1 PROVE passed(e, 1)
    OBVIOUS
  <2>1. e[1] \in Words
    BY <1>1
  <2>2. Is(e[1], Wrappers) => e[1].stem \in Wrappers
    BY <2>1, WordsAssumption DEF Is
  <2>3. QED BY <1>1, <2>2
<1>10. ~passed(e, b + d)
  <2> SUFFICES ASSUME passed(e, b + d) PROVE FALSE
    OBVIOUS
  <2>1. ~LooksLikeAssignment(c[b]) /\ ~wraps(c, b)
    BY <1>6
  <2>2. IsFlag(c[b]) /\ after(e, b + d)
    BY <1>7, <2>1
  <2>3. PICK k \in 1..(b + d) - 1 : wraps(e, k) /\ \A j \in k + 1..(b + d) - 1 : IsFlag(e[j])
    BY <2>2
  <2>4. CASE k - d \in 1..b - 1
    <3>1. (k - d) + d = k /\ k - d \in 1..n
      BY <1>b, <2>4
    <3>2. wraps(c, k - d)
      BY <1>1, <2>3, <3>1
    <3>3. ASSUME NEW j \in (k - d) + 1..b - 1
          PROVE  IsFlag(c[j])
      <4>1. j + d \in k + 1..(b + d) - 1 /\ j \in 1..n
        BY <1>b, <3>1
      <4>2. QED BY <1>1, <2>3, <4>1
    <3>4. after(c, b)
      BY <2>4, <3>2, <3>3
    <3> HIDE DEF after
    <3>5. QED BY <1>6, <2>2, <3>4
  <2>5. CASE k = 1 /\ d = 1
    <3>1. \A j \in 1..b - 1 : IsFlag(c[j])
      <4>1. ASSUME NEW j \in 1..b - 1
            PROVE  IsFlag(c[j])
        <5>1. j + d \in k + 1..(b + d) - 1 /\ j \in 1..n
          BY <1>b, <2>5
        <5>2. QED BY <1>1, <2>3, <5>1
      <4>2. QED BY <4>1
    <3>2. IsFlag(c[1])
      BY <1>6, <2>2, <3>1
    <3>3. CASE b = 1
      BY <1>1, <1>5, <2>5, <3>2, <3>3 DEF FlagInterpreter
    <3>4. CASE b # 1
      <4>1. passed(c, 1) /\ c[1] \in Words /\ 1 \in 1..b - 1
        BY <1>1, <1>6, <3>4
      <4>2. ~LooksLikeAssignment(c[1])
        BY <3>2, <4>1, WordsAssumption
      <4>3. ~after(c, 1)
        BY Z3
      <4>4. wraps(c, 1)
        <5> HIDE DEF after
        <5>1. QED BY <4>1, <4>2, <4>3
      <4>5. \A j \in 1 + 1..b - 1 : IsFlag(c[j])
        BY <3>1
      <4>6. after(c, b)
        BY <4>1, <4>4, <4>5
      <4> HIDE DEF after
      <4>7. QED BY <1>6, <2>2, <4>6
    <3>5. QED BY <3>3, <3>4
  <2>6. QED BY <1>1, <1>6, <2>3, <2>4, <2>5
<1>11. EffectiveStart(e) = b + d
  <2>1. b + d \in stops(e)
    BY <1>1, <1>7, <1>10
  <2>2. ASSUME NEW i \in stops(e)
        PROVE  b + d <= i
    <3>1. i \in 1..n + 2 /\ i \in Nat
      BY <1>1, <2>2
    <3>2. CASE i \in 1..n + 1 /\ ~passed(e, i)
      <4>1. i # 1 \/ d # 1
        BY <1>9, <3>2
      <4>2. ~(i - d \in 1..b - 1)
        <5> SUFFICES ASSUME i - d \in 1..b - 1 PROVE FALSE
          OBVIOUS
        <5>1. passed(e, (i - d) + d)
          BY <1>8
        <5>2. (i - d) + d = i
          BY <1>1, <3>1
        <5> HIDE DEF passed
        <5>3. QED BY <3>2, <5>1, <5>2
      <4> HIDE DEF passed
      <4>3. QED BY <1>1, <1>6, <3>1, <4>1, <4>2
    <3>3. CASE i = n + 2
      BY <1>1, <1>7, <3>3
    <3> HIDE DEF passed
    <3>4. QED BY <1>1, <3>1, <3>2, <3>3
  <2>3. EffectiveStart(e) \in Nat /\ b + d \in Nat
    BY <1>1, <1>3, <1>4, <1>7
  <2> HIDE DEF stops
  <2>4. EffectiveStart(e) <= b + d /\ b + d <= EffectiveStart(e)
    BY <1>4, <2>1, <2>2
  <2>5. QED BY <2>3, <2>4
<1>12. QED BY <1>1, <1>5, <1>7, <1>11 DEF InterpreterWrapper

\* The rules on an assignment and on a protected path, which read one word.
LEMMA EmbeddedEnvironment ==
  ASSUME NEW c, NEW d, NEW e, Embeds(c, d, e)
  PROVE  /\ DangerousEnvAssignment(c) => DangerousEnvAssignment(e)
         /\ \A config : ProtectedPathReference(c, config) => ProtectedPathReference(e, config)
BY EmbeddedIndex DEF DangerousEnvAssignment, ProtectedPathReference

\* The rule on what is fetched and run.
LEMMA EmbeddedFetch ==
  ASSUME NEW c, NEW d, NEW e, Embeds(c, d, e), RemoteFetchExecution(c)
  PROVE  RemoteFetchExecution(e)
<1>1. CASE \E i \in DOMAIN c : /\ Is(c[i], {"|"})
                               /\ \E j \in 1..i - 1 : Fetches(c[j])
                               /\ FirstCommandWord(c, i, PipedInterpreters)
  <2>1. PICK i \in DOMAIN c : /\ Is(c[i], {"|"})
                              /\ \E j \in 1..i - 1 : Fetches(c[j])
                              /\ FirstCommandWord(c, i, PipedInterpreters)
    BY <1>1
  <2>2. PICK j \in 1..i - 1 : Fetches(c[j])
    BY <2>1
  <2>3. /\ i \in 0..Len(c) /\ j \in 1..Len(c) /\ j + d \in 1..(i + d) - 1
        /\ i + d \in DOMAIN e /\ e[i + d] = c[i]
    BY <2>1, <2>2, EmbeddedIndex
  <2>4. e[j + d] = c[j]
    BY <2>3 DEF Embeds
  <2>5. FirstCommandWord(e, i + d, PipedInterpreters)
    BY <2>1, <2>3, EmbeddedFirstWord
  <2>6. QED BY <2>1, <2>2, <2>3, <2>4, <2>5 DEF RemoteFetchExecution
<1>2. CASE /\ \E i \in DOMAIN c : Fetches(c[i]) \/ "fetch substitution" \in c[i].has
           /\ FirstCommandWord(c, 0, PipedInterpreters)
           /\ \E i \in DOMAIN c : Substitutes(c[i])
  <2>1. 0 \in 0..Len(c)
    BY DEF Embeds
  <2>2. FirstCommandWord(e, 0, PipedInterpreters)
    BY <1>2, <2>1, EmbeddedFirstWord
  <2>3. \A i \in DOMAIN c : i + d \in DOMAIN e /\ e[i + d] = c[i]
    BY EmbeddedIndex
  <2>4. /\ \E i \in DOMAIN e : Fetches(e[i]) \/ "fetch substitution" \in e[i].has
        /\ \E i \in DOMAIN e : Substitutes(e[i])
    BY <1>2, <2>3, Zenon
  <2>5. QED BY <2>2, <2>4 DEF RemoteFetchExecution
<1>3. QED BY <1>1, <1>2 DEF RemoteFetchExecution

\* The rule on secrets of the environment that are read out, but for a lone `env`.
LEMMA EmbeddedExfiltration ==
  ASSUME NEW c, NEW d, NEW e, Embeds(c, d, e), SecretEnvExfiltration(c), ~LoneEnv(c)
  PROVE  SecretEnvExfiltration(e)
<1>1. 0 \in 0..Len(c)
  BY DEF Embeds
<1>2. \A texts : FirstCommandWord(c, 0, texts) => FirstCommandWord(e, 0, texts)
  BY <1>1, EmbeddedFirstWord
<1> DEFINE exported(s) == \E i \in DOMAIN s : Is(s[i], {"-p"})
<1>7. \A i \in DOMAIN c : i + d \in DOMAIN e /\ e[i + d] = c[i]
  BY EmbeddedIndex
<1>8. exported(c) => exported(e)
  BY <1>7, Zenon
<1>3. CASE \E i \in DOMAIN c : "secret variable" \in c[i].has
  BY <1>3, <1>7 DEF SecretEnvExfiltration
<1>4. CASE FirstCommandWord(c, 0, {"printenv", "set"})
  BY <1>2, <1>4 DEF SecretEnvExfiltration
<1>5. CASE FirstCommandWord(c, 0, {"export"}) /\ \E i \in DOMAIN c : Is(c[i], {"-p"})
  BY <1>2, <1>5, <1>8 DEF SecretEnvExfiltration
<1>6. QED BY <1>3, <1>4, <1>5 DEF SecretEnvExfiltration, LoneEnv

\* The rule on world-writable permissions.
LEMMA EmbeddedChmod ==
  ASSUME NEW c, NEW d, NEW e, Embeds(c, d, e), WorldWritableChmod(c)
  PROVE  WorldWritableChmod(e)
BY EmbeddedCommands, EmbeddedHasArg DEF WorldWritableChmod

\* A forced deletion and its dangerous target.
LEMMA EmbeddedDeletes ==
  ASSUME NEW c, NEW d, NEW e, Embeds(c, d, e), NEW i \in ForcedDeletes(c)
  PROVE  /\ i \in DOMAIN c /\ i + d \in ForcedDeletes(e)
         /\ \A config : DangerousTarget(c, i, config) => DangerousTarget(e, i + d, config)
<1>1. /\ i \in CommandIndices(c, {"rm"})
      /\ \A letter \in {"r", "f"} :
           \E j \in ArgIndices(c, i) : IsFlag(c[j]) /\ letter \in c[j].has
  BY DEF ForcedDeletes
<1>2. i \in DOMAIN c /\ i + d \in CommandIndices(e, {"rm"})
  BY <1>1, EmbeddedCommands
<1>3. ASSUME NEW j \in ArgIndices(c, i)
      PROVE  j + d \in ArgIndices(e, i + d) /\ e[j + d] = c[j]
  BY <1>2, EmbeddedArgs, EmbeddedIndex
<1>4. \A letter \in {"r", "f"} :
        \E j \in ArgIndices(e, i + d) : IsFlag(e[j]) /\ letter \in e[j].has
  BY <1>1, <1>3
<1>5. ASSUME NEW config, DangerousTarget(c, i, config)
      PROVE  DangerousTarget(e, i + d, config)
  BY <1>3, <1>5 DEF DangerousTarget
<1>6. QED BY <1>2, <1>4, <1>5 DEF ForcedDeletes

\* The rules on git.
LEMMA EmbeddedGit ==
  ASSUME NEW c, NEW d, NEW e, Embeds(c, d, e), GitSideEffect(c)
  PROVE  GitSideEffect(e)
<1>1. PICK i \in CommandIndices(c, {"git"}) :
        \/ FirstArg(c, i, {"push"})
        \/ FirstArg(c, i, {"reset"}) /\ HasArg(c, i, {"--hard"})
        \/ FirstArg(c, i, {"clean"}) /\ \E j \in ArgIndices(c, i) : "f" \in c[j].has
  BY DEF GitSideEffect
<1>2. i \in DOMAIN c /\ i + d \in CommandIndices(e, {"git"})
  BY EmbeddedCommands
<1>3. ASSUME NEW j \in ArgIndices(c, i)
      PROVE  j + d \in ArgIndices(e, i + d) /\ e[j + d] = c[j]
  BY <1>2, EmbeddedArgs, EmbeddedIndex
<1>4. \A texts : /\ HasArg(c, i, texts) => HasArg(e, i + d, texts)
                 /\ FirstArg(c, i, texts) => FirstArg(e, i + d, texts)
  BY <1>2, EmbeddedHasArg
<1>5. QED BY <1>1, <1>2, <1>3, <1>4 DEF GitSideEffect

\* The rule on privilege escalation.
LEMMA EmbeddedEscalation ==
  ASSUME NEW c, NEW d, NEW e, Embeds(c, d, e), PrivilegeEscalation(c)
  PROVE  PrivilegeEscalation(e)
<1>1. PICK i \in DOMAIN c :
        \/ c[i].stem \in {"sudo", "doas", "su", "pkexec", "runuser", "gosu", "please", "doit",
                          "calife", "op-priv"}
        \/ c[i].stem = "machinectl" /\ NextWord(c, i, {"shell"})
  BY DEF PrivilegeEscalation
<1>2. i + d \in DOMAIN e /\ e[i + d] = c[i]
  BY EmbeddedIndex
<1>3. NextWord(c, i, {"shell"}) => NextWord(e, i + d, {"shell"})
  BY EmbeddedNextWord
<1>4. QED BY <1>1, <1>2, <1>3 DEF PrivilegeEscalation

\* The first word with one of these stems, unless the word put before the command has one.
LEMMA EmbeddedFirstStem ==
  ASSUME NEW c, NEW d, NEW e, Embeds(c, d, e), NEW stems, NEW i \in DOMAIN c,
         c[i].stem \in stems, \A j \in 1..i - 1 : c[j].stem \notin stems
  PROVE  \/ e[i + d].stem \in stems /\ \A j \in 1..(i + d) - 1 : e[j].stem \notin stems
         \/ d = 1 /\ e[1].stem \in stems
<1>1. /\ i \in Nat /\ i > 0 /\ i <= Len(c) /\ Len(c) \in Nat /\ d \in {0, 1}
      /\ i + d \in DOMAIN e /\ e[i + d] = c[i]
  BY EmbeddedIndex
<1>2. \A k \in 1..Len(c) : e[k + d] = c[k]
  BY DEF Embeds
<1>3. SUFFICES ASSUME d = 1 => e[1].stem \notin stems, NEW j \in 1..(i + d) - 1
               PROVE  e[j].stem \notin stems
  BY <1>1
<1>4. CASE d = 1 /\ j = 1
  BY <1>3, <1>4
<1>5. CASE j - d \in 1..i - 1
  <2>1. j - d \in 1..Len(c) /\ (j - d) + d = j
    BY <1>1, <1>5
  <2>2. e[j] = c[j - d]
    BY <1>2, <2>1
  <2>3. QED BY <1>5, <2>2
<1>6. QED BY <1>1, <1>4, <1>5

\* The rule on sandbox escapes, which reads the first word whose stem is docker or podman.
LEMMA EmbeddedSandbox ==
  ASSUME NEW c, NEW d, NEW e, Embeds(c, d, e), SandboxEscape(c),
         d = 1 => e[1].stem \notin {"docker", "podman"}
  PROVE  SandboxEscape(e)
<1> DEFINE first(s, stems) == {i \in DOMAIN s : s[i].stem \in stems
                                                /\ \A j \in 1..i - 1 : s[j].stem \notin stems}
<1>1. /\ Len(c) \in Nat /\ Len(e) = Len(c) + 1 /\ d \in {0, 1}
      /\ DOMAIN c = 1..Len(c) /\ DOMAIN e = 1..Len(e)
      /\ \A k \in 1..Len(c) : e[k + d] = c[k]
  BY DEF Embeds
<1>a. ASSUME NEW stems, NEW i \in first(c, stems)
      PROVE  i + d \in first(e, stems) \/ (d = 1 /\ e[1].stem \in stems)
  <2>1. i \in DOMAIN c /\ c[i].stem \in stems /\ \A j \in 1..i - 1 : c[j].stem \notin stems
    OBVIOUS
  <2>2. i + d \in DOMAIN e
    BY <2>1, EmbeddedIndex
  <2>3. \/ e[i + d].stem \in stems /\ \A j \in 1..(i + d) - 1 : e[j].stem \notin stems
        \/ d = 1 /\ e[1].stem \in stems
    BY <2>1, EmbeddedFirstStem
  <2>4. ASSUME e[i + d].stem \in stems, \A j \in 1..(i + d) - 1 : e[j].stem \notin stems
        PROVE  i + d \in first(e, stems)
    BY <2>2, <2>4
  <2> HIDE DEF first
  <2>5. QED BY <2>3, <2>4
<1>2. CASE \E i \in DOMAIN c : c[i].stem \in {"unshare", "nsenter", "chroot"}
  <2>1. PICK i \in DOMAIN c : c[i].stem \in {"unshare", "nsenter", "chroot"}
    BY <1>2
  <2>2. i + d \in DOMAIN e /\ e[i + d] = c[i]
    BY EmbeddedIndex
  <2>3. QED BY <2>1, <2>2 DEF SandboxEscape
<1>3. CASE \E i \in first(c, {"docker", "podman"}) :
             /\ \E j \in i + 1..Len(c) : "sheds isolation" \in c[j].has
             /\ NextWord(c, i, {"run", "exec"})
  <2>1. PICK i \in first(c, {"docker", "podman"}) :
               /\ \E j \in i + 1..Len(c) : "sheds isolation" \in c[j].has
               /\ NextWord(c, i, {"run", "exec"})
    BY <1>3
  <2>2. i + d \in first(e, {"docker", "podman"})
    <3> HIDE DEF first
    <3>1. QED BY <1>a, <2>1
  <2>3. NextWord(e, i + d, {"run", "exec"})
    BY <2>1, EmbeddedNextWord
  <2>4. PICK j \in i + 1..Len(c) : "sheds isolation" \in c[j].has
    BY <2>1
  <2>5. j + d \in (i + d) + 1..Len(e) /\ e[j + d] = c[j]
    <3>1. i \in 1..Len(c) /\ j \in i + 1..Len(c)
      BY <1>1, <2>4
    <3>2. j \in 1..Len(c)
      BY <1>1, <3>1
    <3> HIDE DEF first
    <3>3. QED BY <1>1, <3>1, <3>2
  <2>6. QED BY <2>2, <2>3, <2>4, <2>5 DEF SandboxEscape
<1>4. CASE \E i \in first(c, {"mount"}) : \E j \in i + 1..Len(c) : Is(c[j], {"--bind", "-B"})
  <2>0. PICK i \in first(c, {"mount"}) : \E j \in i + 1..Len(c) : Is(c[j], {"--bind", "-B"})
    BY <1>4
  <2>1. PICK j \in i + 1..Len(c) : Is(c[j], {"--bind", "-B"})
    BY <2>0
  <2>2. /\ j + d \in (i + d) + 1..Len(e) /\ e[j + d] = c[j]
        /\ d = 1 => j + d \in 1 + 1..Len(e) /\ 1 \in DOMAIN e
    BY <1>1, <2>1
  <2>3. CASE i + d \in first(e, {"mount"})
    BY <2>1, <2>2, <2>3 DEF SandboxEscape
  <2>4. CASE d = 1 /\ e[1].stem = "mount"
    <3>1. 1 \in first(e, {"mount"})
      BY <2>2, <2>4
    <3>2. QED BY <2>1, <2>2, <2>4, <3>1 DEF SandboxEscape
  <2>5. i + d \in first(e, {"mount"}) \/ (d = 1 /\ e[1].stem \in {"mount"})
    <3> HIDE DEF first
    <3>1. QED BY <1>a, <2>0
  <2>6. QED BY <2>3, <2>4, <2>5
<1>5. QED BY <1>2, <1>3, <1>4 DEF SandboxEscape

\* The rule on package managers.
LEMMA EmbeddedPackage ==
  ASSUME NEW c, NEW d, NEW e, Embeds(c, d, e), PackageChange(c)
  PROVE  PackageChange(e)
<1>1. ASSUME NEW commands, NEW i \in CommandIndices(c, commands)
      PROVE  /\ i \in DOMAIN c /\ i + d \in CommandIndices(e, commands)
             /\ \A texts : /\ HasArg(c, i, texts) => HasArg(e, i + d, texts)
                           /\ FirstArg(c, i, texts) => FirstArg(e, i + d, texts)
             /\ \A j \in ArgIndices(c, i) : j + d \in ArgIndices(e, i + d)
  BY EmbeddedCommands, EmbeddedHasArg, EmbeddedArgs
<1>2. CASE \E i \in CommandIndices(c, {"python", "python3"}) :
             /\ i + 3 \in ArgIndices(c, i)
             /\ Is(c[i + 1], {"-m"}) /\ Is(c[i + 2], {"pip"}) /\ Is(c[i + 3], {"install"})
  <2>1. PICK i \in CommandIndices(c, {"python", "python3"}) :
             /\ i + 3 \in ArgIndices(c, i)
             /\ Is(c[i + 1], {"-m"}) /\ Is(c[i + 2], {"pip"}) /\ Is(c[i + 3], {"install"})
    BY <1>2
  <2>2. i \in DOMAIN c /\ i + 3 \in DOMAIN c /\ (i + 3) + d \in ArgIndices(e, i + d)
    BY <1>1, <2>1, EmbeddedArgs
  <2>3. /\ i + 1 \in 1..Len(c) /\ i + 2 \in 1..Len(c) /\ i + 3 \in 1..Len(c)
        /\ (i + d) + 1 = (i + 1) + d /\ (i + d) + 2 = (i + 2) + d /\ (i + d) + 3 = (i + 3) + d
    BY <2>2, EmbeddedIndex
  <2>4. e[(i + d) + 1] = c[i + 1] /\ e[(i + d) + 2] = c[i + 2] /\ e[(i + d) + 3] = c[i + 3]
    BY <2>3 DEF Embeds
  <2>5. i + d \in CommandIndices(e, {"python", "python3"})
    BY <1>1
  <2>6. QED BY <2>1, <2>2, <2>3, <2>4, <2>5 DEF PackageChange
<1>3. CASE ~\E i \in CommandIndices(c, {"python", "python3"}) :
             /\ i + 3 \in ArgIndices(c, i)
             /\ Is(c[i + 1], {"-m"}) /\ Is(c[i + 2], {"pip"}) /\ Is(c[i + 3], {"install"})
  BY <1>1, <1>3 DEF PackageChange
<1>4. QED BY <1>2, <1>3

\* The rule on infrastructure tools.
LEMMA EmbeddedInfra ==
  ASSUME NEW c, NEW d, NEW e, Embeds(c, d, e), InfraSideEffect(c)
  PROVE  InfraSideEffect(e)
<1>1. ASSUME NEW commands, NEW i \in CommandIndices(c, commands)
      PROVE  /\ i \in DOMAIN c /\ i + d \in CommandIndices(e, commands)
             /\ \A texts : /\ HasArg(c, i, texts) => HasArg(e, i + d, texts)
                           /\ FirstArg(c, i, texts) => FirstArg(e, i + d, texts)
             /\ \A j \in ArgIndices(c, i) : j + d \in ArgIndices(e, i + d) /\ e[j + d] = c[j]
  BY EmbeddedCommands, EmbeddedHasArg, EmbeddedArgs, EmbeddedIndex
<1>2. QED BY <1>1 DEF InfraSideEffect

\* One more word, before a command or after it, and every built-in rule fires as before.
LEMMA EmbeddedRules ==
  ASSUME NEW c, NEW d, NEW e, NEW config, Embeds(c, d, e), ~LoneEnv(c),
         d = 1 => ~FlagInterpreter(c) /\ e[1].stem \notin {"docker", "podman"},
         NEW i \in 1..12, BuiltInRules(c, config)[i].fires
  PROVE  BuiltInRules(e, config)[i].fires
<1>1. \/ i = 1 \/ i = 2 \/ i = 3 \/ i = 4 \/ i = 5 \/ i = 6
      \/ i = 7 \/ i = 8 \/ i = 9 \/ i = 10 \/ i = 11 \/ i = 12
  OBVIOUS
<1>2. CASE i = 1
  BY <1>2, EmbeddedInterpreter DEF BuiltInRules, Rule
<1>3. CASE i = 2
  BY <1>3, EmbeddedEnvironment DEF BuiltInRules, Rule
<1>4. CASE i = 3
  BY <1>4, EmbeddedEnvironment DEF BuiltInRules, Rule
<1>5. CASE i = 4
  BY <1>5, EmbeddedFetch DEF BuiltInRules, Rule
<1>6. CASE i = 5
  BY <1>6, EmbeddedExfiltration DEF BuiltInRules, Rule
<1>7. CASE i = 6
  BY <1>7, EmbeddedChmod DEF BuiltInRules, Rule
<1>8. CASE i = 7
  <2>1. DeleteRule(c, config).fires
    BY <1>8 DEF BuiltInRules
  <2>2. ForcedDeletes(c) # {}
    BY <2>1 DEF DeleteRule, Rule
  <2>3. ForcedDeletes(e) # {}
    BY <2>2, EmbeddedDeletes
  <2>4. DeleteRule(e, config).fires
    BY <2>3 DEF DeleteRule, Rule
  <2>5. QED BY <1>8, <2>4 DEF BuiltInRules
<1>9. CASE i = 8
  BY <1>9, EmbeddedGit DEF BuiltInRules, Rule
<1>10. CASE i = 9
  BY <1>10, EmbeddedEscalation DEF BuiltInRules, Rule
<1>11. CASE i = 10
  BY <1>11, EmbeddedSandbox DEF BuiltInRules, Rule
<1>12. CASE i = 11
  BY <1>12, EmbeddedPackage DEF BuiltInRules, Rule
<1>13. CASE i = 12
  BY <1>13, EmbeddedInfra DEF BuiltInRules, Rule
<1>14. QED BY <1>1, <1>2, <1>3, <1>4, <1>5, <1>6, <1>7, <1>8, <1>9, <1>10, <1>11, <1>12, <1>13

\* Both ways of adding a word embed the command.
LEMMA PrefixEmbeds ==
  ASSUME NEW c \in Seq(Words), NEW w \in Words, Is(w, Wrappers) \/ LooksLikeAssignment(w)
  PROVE  Embeds(c, 1, <<w>> \o c) /\ (<<w>> \o c)[1] = w
<1> DEFINE e == <<w>> \o c
<1>1. /\ e \in Seq(Words) /\ Len(<<w>>) = 1 /\ Len(c) \in Nat
      /\ Len(e) = 1 + Len(c)
      /\ \A i \in 1..Len(e) : e[i] = IF i <= 1 THEN <<w>>[i] ELSE c[i - 1]
  BY ConcatProperties
<1> HIDE DEF e
<1>2. e[1] = w
  BY <1>1
<1>3. ASSUME NEW i \in 1..Len(c)
      PROVE  e[i + 1] = c[i]
  <2>1. i + 1 \in 1..Len(e) /\ ~(i + 1 <= 1) /\ (i + 1) - 1 = i
    BY <1>1
  <2>2. QED BY <1>1, <2>1
<1>4. Embeds(c, 1, e)
  BY <1>1, <1>2, <1>3 DEF Embeds
<1>5. QED BY <1>2, <1>4 DEF e

\* A command is embedded in the same with one word after it.
LEMMA FrontEmbeds ==
  ASSUME NEW e \in Seq(Words), e # <<>>
  PROVE  Embeds(Front(e), 0, e)
<1>1. Len(e) \in Nat /\ Len(e) > 0
  BY EmptySeq
<1>2. /\ Front(e) \in Seq(Words) /\ Len(Front(e)) = Len(e) - 1
      /\ \A i \in 1..Len(e) - 1 : Front(e)[i] = e[i]
  <2> DEFINE n == Len(e) - 1
             f == SubSeq(e, 1, n)
  <2>1. n \in Nat /\ \A i \in 1..n : e[i] \in Words
    BY <1>1
  <2>2. f \in Seq(Words) /\ Len(f) = (IF 1 <= n THEN n - 1 + 1 ELSE 0)
        /\ \A i \in 1..n - 1 + 1 : f[i] = e[1 + i - 1]
    <3> HIDE DEF n
    <3>1. QED BY <2>1, SubSeqProperties
  <2> HIDE DEF f, n
  <2>3. Len(f) = n /\ \A i \in 1..n : f[i] = e[i]
    BY <2>1, <2>2
  <2>4. QED BY <2>2, <2>3 DEF Front, f, n
<1>3. Len(e) = Len(Front(e)) + 1 /\ \A i \in 1..Len(Front(e)) : e[i + 0] = Front(e)[i]
  BY <1>1, <1>2
<1>4. QED BY <1>2, <1>3 DEF Embeds

\* What a built-in rule stops is stopped: the verdict is not to allow exactly when one fires.
LEMMA BuiltInStops ==
  ASSUME NEW c
  PROVE  /\ BuiltIn(c).decision # "allow" =>
              \E i \in 1..12 : /\ BuiltInRules(c, settings)[i].fires
                               /\ BuiltIn(c) = BuiltInRules(c, settings)[i].verdict
         /\ (\E i \in 1..12 : BuiltInRules(c, settings)[i].fires) => BuiltIn(c).decision # "allow"
<1> DEFINE rules == BuiltInRules(c, settings)
           firing == {k \in DOMAIN rules : rules[k].fires}
<1>1. /\ DOMAIN rules = 1..12 /\ \A k \in 1..6 : rules[k].verdict = Deny(3)
      /\ rules[7] = DeleteRule(c, settings) /\ \A k \in 8..12 : rules[k].verdict \in {Ask(3), Ask(4)}
  BY BuiltInVerdicts
<1>2. BuiltIn(c) = IF firing = {} THEN Allow ELSE rules[Min(firing)].verdict
  BY DEF BuiltIn, FirstVerdict
<1> HIDE DEF rules
<1>3. firing \subseteq 1..12
  BY <1>1
<1>4. firing # {} => Min(firing) \in firing
  <2>1. firing \subseteq Nat
    BY <1>3
  <2> HIDE DEF firing
  <2>2. QED BY <2>1, MinIsLeast
<1>5. ASSUME NEW k \in firing
      PROVE  rules[k].verdict.decision # "allow"
  <2>1. k \in 1..6 \/ k = 7 \/ k \in 8..12
    BY <1>3
  <2>2. rules[k].verdict \in {Deny(3), Ask(3), Ask(4)}
    BY <1>1, <2>1, DeleteRuleVerdict
  <2>3. QED BY <2>2 DEF Deny, Ask
<1>6. firing = {} => BuiltIn(c).decision = "allow"
  BY <1>2 DEF Allow
<1>7. firing # {} => /\ BuiltIn(c).decision # "allow"
                     /\ \E i \in 1..12 : rules[i].fires /\ BuiltIn(c) = rules[i].verdict
  BY <1>2, <1>3, <1>4, <1>5
<1>8. QED BY <1>1, <1>6, <1>7 DEF rules

\* No assignment of a variable or wrapper before a command, whatever the command, hides it.
THEOREM PrefixNeverHides == Spec => []PrefixNeverAllows
<1>1. TypeOK => PrefixNeverAllows
  <2> SUFFICES ASSUME TypeOK, command # None, ~LoneEnv(command), ~FlagInterpreter(command),
                      NEW w \in Words,
                      Is(w, Wrappers) \/ (LooksLikeAssignment(w) /\ w.stem \notin {"docker", "podman"}),
                      BuiltIn(command).decision # "allow"
               PROVE  BuiltIn(<<w>> \o command).decision # "allow"
    BY DEF PrefixNeverAllows
  <2>1. command \in Seq(Words)
    BY DEF TypeOK
  <2> DEFINE e == <<w>> \o command
  <2>2. Embeds(command, 1, e) /\ e[1] = w
    BY <2>1, PrefixEmbeds
  <2>3. w.stem \notin {"docker", "podman"}
    BY WordsAssumption DEF Is, Wrappers
  <2>4. PICK i \in 1..12 : BuiltInRules(command, settings)[i].fires
    BY BuiltInStops
  <2> HIDE DEF e
  <2>5. BuiltInRules(e, settings)[i].fires
    BY <2>2, <2>3, <2>4, EmbeddedRules
  <2>6. BuiltIn(e).decision # "allow"
    BY <2>5, BuiltInStops
  <2>7. QED BY <2>6 DEF e
<1>2. QED BY <1>1, CallTypes, PTL

\* The deletion rule looks at the first forced deletion only, and is as strict as before:
\* where one word more makes an earlier rm the first, that rm has the arguments of both.
LEMMA DeleteRuleMonotone ==
  ASSUME NEW c, NEW e, NEW config, Embeds(c, 0, e), ForcedDeletes(c) # {}
  PROVE  Strictness(DeleteRule(c, config).verdict) <= Strictness(DeleteRule(e, config).verdict)
<1> DEFINE before == Min(ForcedDeletes(c))
           after == Min(ForcedDeletes(e))
<1>1. /\ Len(c) \in Nat /\ Len(e) = Len(c) + 1
      /\ DOMAIN c = 1..Len(c) /\ DOMAIN e = 1..Len(e)
      /\ \A k \in 1..Len(c) : e[k] = c[k]
  BY DEF Embeds
<1>2. /\ \A i \in ForcedDeletes(c) : i \in ForcedDeletes(e)
      /\ \A i \in ForcedDeletes(c) : DangerousTarget(c, i, config) => DangerousTarget(e, i, config)
  <2>1. ASSUME NEW i \in ForcedDeletes(c)
        PROVE  /\ i \in ForcedDeletes(e)
               /\ DangerousTarget(c, i, config) => DangerousTarget(e, i, config)
    <3> HIDE DEF before, after
    <3>1. /\ i \in DOMAIN c /\ i + 0 \in ForcedDeletes(e)
          /\ DangerousTarget(c, i, config) => DangerousTarget(e, i + 0, config)
      BY EmbeddedDeletes
    <3>2. i + 0 = i
      BY <1>1, <3>1
    <3>3. QED BY <3>1, <3>2
  <2>2. QED BY <2>1
<1>3. ForcedDeletes(c) \subseteq 1..Len(c) /\ ForcedDeletes(e) \subseteq 1..Len(e)
  BY <1>1 DEF ForcedDeletes, CommandIndices
<1>4. /\ before \in ForcedDeletes(c) /\ \A i \in ForcedDeletes(c) : before <= i
      /\ after \in ForcedDeletes(e) /\ \A i \in ForcedDeletes(e) : after <= i
  <2>1. ForcedDeletes(c) \subseteq Nat /\ ForcedDeletes(e) \subseteq Nat /\ ForcedDeletes(e) # {}
    BY <1>1, <1>2, <1>3
  <2>2. QED BY <2>1, MinIsLeast
<1> HIDE DEF before, after
<1>5. before \in 1..Len(c) /\ after \in 1..Len(e) /\ after <= before
  BY <1>2, <1>3, <1>4
<1>6. ASSUME DangerousTarget(c, before, config), after # before
      PROVE  DangerousTarget(e, after, config)
  <2>1. after \in 1..Len(c) /\ after < before /\ after \notin ForcedDeletes(c)
    BY <1>1, <1>4, <1>5, <1>6
  <2>2. after \in CommandIndices(e, {"rm"})
    BY <1>4 DEF ForcedDeletes
  <2>3. after \in CommandIndices(c, {"rm"})
    <3>1. /\ Is(e[after], {"rm"})
          /\ \/ after = 1
             \/ IsCommandBoundary(e[after - 1]) \/ Is(e[after - 1], Wrappers)
                \/ LooksLikeAssignment(e[after - 1])
             \/ after > 2 /\ Is(e[after - 2], Wrappers)
      BY <2>2 DEF CommandIndices
    <3>2. e[after] = c[after]
      BY <1>1, <2>1
    <3>3. ASSUME NEW k \in {1, 2}, after > k
          PROVE  e[after - k] = c[after - k]
      <4>1. after - k \in 1..Len(c)
        BY <1>1, <2>1, <3>3
      <4>2. QED BY <1>1, <4>1
    <3>5. /\ after # 1 => e[after - 1] = c[after - 1]
          /\ after > 2 => e[after - 2] = c[after - 2]
      BY <2>1, <3>3
    <3>6. \/ after = 1
          \/ IsCommandBoundary(c[after - 1]) \/ Is(c[after - 1], Wrappers)
             \/ LooksLikeAssignment(c[after - 1])
          \/ after > 2 /\ Is(c[after - 2], Wrappers)
      BY <3>1, <3>5
    <3>4. QED BY <1>1, <2>1, <3>1, <3>2, <3>6 DEF CommandIndices
  <2>4. PICK letter \in {"r", "f"} :
          ~\E j \in ArgIndices(c, after) : IsFlag(c[j]) /\ letter \in c[j].has
    BY <2>1, <2>3 DEF ForcedDeletes
  <2>5. PICK j \in ArgIndices(e, after) : IsFlag(e[j]) /\ letter \in e[j].has
    BY <1>4 DEF ForcedDeletes
  <2>6. j \in after + 1..Len(e) /\ \A k \in after + 1..j : ~EndsArguments(e[k])
    BY DEF ArgIndices
  <2>7. j = Len(e)
    <3> SUFFICES ASSUME j # Len(e) PROVE FALSE
      OBVIOUS
    <3>1. j \in after + 1..Len(c) /\ j \in 1..Len(c)
      BY <1>1, <2>1, <2>6
    <3>2. \A k \in after + 1..j : k \in 1..Len(c)
      BY <1>1, <2>1, <3>1
    <3>3. j \in ArgIndices(c, after)
      BY <1>1, <2>6, <3>1, <3>2 DEF ArgIndices
    <3>4. e[j] = c[j]
      BY <1>1, <3>1
    <3>5. QED BY <2>4, <2>5, <3>3, <3>4
  <2>8. PICK target \in ArgIndices(e, before) :
          /\ ~IsFlag(e[target])
          /\ "root or home" \in e[target].has \/ IsProtectedPath(e[target].path, config.protect)
    BY <1>2, <1>4, <1>6 DEF DangerousTarget
  <2>9. target \in after + 1..Len(e) /\ after + 1..target \subseteq after + 1..j
    <3>1. target \in before + 1..Len(e)
      BY DEF ArgIndices
    <3>2. QED BY <1>1, <1>5, <2>1, <2>7, <3>1
  <2>10. target \in ArgIndices(e, after)
    BY <2>6, <2>9 DEF ArgIndices
  <2>11. QED BY <2>8, <2>10 DEF DangerousTarget
<1>7. DangerousTarget(c, before, config) => DangerousTarget(e, after, config)
  BY <1>2, <1>4, <1>6
<1>8. /\ DeleteRule(c, config).verdict = IF DangerousTarget(c, before, config) THEN Deny(3) ELSE Ask(3)
      /\ DeleteRule(e, config).verdict = IF DangerousTarget(e, after, config) THEN Deny(3) ELSE Ask(3)
  BY <1>2 DEF DeleteRule, Rule, before, after
<1>9. QED BY <1>7, <1>8, Strictnesses

\* The answers of the built-in rules have a place in their order.
LEMMA BuiltInTypes ==
  ASSUME NEW c
  PROVE  /\ \A i \in 1..12 : Strictness(BuiltInRules(c, settings)[i].verdict) \in 0..2
         /\ Strictness(BuiltIn(c)) \in 0..2
<1>1. ASSUME NEW i \in 1..12
      PROVE  BuiltInRules(c, settings)[i].verdict \in {Allow, Deny(3), Ask(3), Ask(4)}
  <2>1. i \in 1..6 \/ i = 7 \/ i \in 8..12
    OBVIOUS
  <2>2. QED BY <2>1, BuiltInVerdicts, DeleteRuleVerdict
<1>2. BuiltIn(c).decision = "allow" => Strictness(BuiltIn(c)) = 0
  BY DEF Strictness
<1>3. QED BY <1>1, <1>2, BuiltInStops, Strictnesses

\* Whatever word is written after a command, the built-in rules are as strict as before.
LEMMA AppendNeverWeakens ==
  ASSUME NEW c, NEW e, Embeds(c, 0, e), ~LoneEnv(c)
  PROVE  Strictness(BuiltIn(c)) <= Strictness(BuiltIn(e))
<1> DEFINE before == BuiltInRules(c, settings)
           after == BuiltInRules(e, settings)
<1>1. CASE BuiltIn(c).decision # "allow"
  <2>1. PICK i \in 1..12 : before[i].fires /\ BuiltIn(c) = before[i].verdict
    BY <1>1, BuiltInStops
  <2>2. after[i].fires
    BY <2>1, EmbeddedRules
  <2>3. i \in DOMAIN after
    BY BuiltInVerdicts
  <2>4. Strictness(after[i].verdict) <= Strictness(BuiltIn(e))
    BY <2>2, <2>3, FirstBuiltInIsStrictest DEF BuiltIn
  <2>5. Strictness(before[i].verdict) <= Strictness(after[i].verdict)
    <3>1. CASE i \in 1..6
      <4>1. before[i].verdict = Deny(3) /\ after[i].verdict = Deny(3)
        BY <3>1, BuiltInVerdicts
      <4>2. QED BY <4>1, Strictnesses
    <3>2. CASE i \in 8..12
      <4>1. before[i].verdict \in {Ask(3), Ask(4)} /\ after[i].verdict \in {Ask(3), Ask(4)}
        BY <3>2, BuiltInVerdicts
      <4>2. QED BY <4>1, Strictnesses
    <3>3. CASE i = 7
      <4>1. before[i] = DeleteRule(c, settings) /\ after[i] = DeleteRule(e, settings)
        BY <3>3, BuiltInVerdicts
      <4>2. ForcedDeletes(c) # {}
        BY <2>1, <4>1 DEF DeleteRule, Rule
      <4>3. QED BY <4>1, <4>2, DeleteRuleMonotone
    <3>4. QED BY <3>1, <3>2, <3>3
  <2>6. /\ Strictness(before[i].verdict) \in 0..2 /\ Strictness(after[i].verdict) \in 0..2
        /\ Strictness(BuiltIn(e)) \in 0..2
    BY BuiltInTypes
  <2> HIDE DEF before, after
  <2>7. QED BY <2>1, <2>4, <2>5, <2>6
<1>2. CASE BuiltIn(c).decision = "allow"
  <2>1. Strictness(BuiltIn(c)) = 0
    BY <1>2 DEF Strictness
  <2>2. QED BY <2>1, BuiltInTypes
<1>3. QED BY <1>1, <1>2

-----------------------------------------------------------------------------
(* One path more *)

\* The rules of one path that fire stop a write.
LEMMA WriteRulesStop ==
  ASSUME NEW cwd, NEW path, NEW config,
         \E r \in DOMAIN WriteRules(cwd, path, config) : WriteRules(cwd, path, config)[r].fires
  PROVE  FirstVerdict(WriteRules(cwd, path, config), Allow).decision # "allow"
<1> DEFINE rules == WriteRules(cwd, path, config)
           firing == {r \in DOMAIN rules : rules[r].fires}
<1>1. DOMAIN rules \subseteq Nat /\ \A r \in DOMAIN rules : rules[r].verdict \in {Deny(2), Ask(2)}
  BY WriteRuleVerdicts
<1>2. firing # {}
  OBVIOUS
<1> HIDE DEF rules
<1>3. Min(firing) \in firing
  <2>1. firing \subseteq Nat
    BY <1>1
  <2> HIDE DEF firing
  <2>2. QED BY <1>2, <2>1, MinIsLeast
<1>4. FirstVerdict(rules, Allow) = rules[Min(firing)].verdict
  BY <1>2 DEF FirstVerdict
<1>5. FirstVerdict(rules, Allow) \in {Deny(2), Ask(2)}
  BY <1>1, <1>3, <1>4
<1>6. QED BY <1>5 DEF Deny, Ask, rules

\* A write is stopped exactly when it names nothing or a rule of one of its paths fires.
LEMMA EvaluateWriteStops ==
  ASSUME NEW cwd, NEW named, DOMAIN named \subseteq Nat, named # <<>>, NEW config
  PROVE  EvaluateWrite(cwd, named, config).decision # "allow" <=>
           \E i \in DOMAIN named : \E r \in DOMAIN WriteRules(cwd, named[i], config) :
             WriteRules(cwd, named[i], config)[r].fires
<1> DEFINE fires(i) == \E r \in DOMAIN WriteRules(cwd, named[i], config) :
                         WriteRules(cwd, named[i], config)[r].fires
           rules == [i \in DOMAIN named |->
                       Rule(fires(i), FirstVerdict(WriteRules(cwd, named[i], config), Allow))]
           firing == {i \in DOMAIN rules : rules[i].fires}
<1>1. EvaluateWrite(cwd, named, config) = FirstVerdict(rules, Allow)
  BY DEF EvaluateWrite
<1>2. \A i \in DOMAIN named : (rules[i].fires <=> fires(i))
        /\ rules[i].verdict = FirstVerdict(WriteRules(cwd, named[i], config), Allow)
  BY DEF Rule
<1>3. DOMAIN rules = DOMAIN named
  OBVIOUS
<1>4. \A i \in DOMAIN named : fires(i) => rules[i].verdict.decision # "allow"
  BY <1>2, WriteRulesStop
<1> HIDE DEF rules, fires
<1>5. CASE firing = {}
  <2>1. EvaluateWrite(cwd, named, config).decision = "allow"
    BY <1>1, <1>5 DEF FirstVerdict, Allow
  <2>2. \A i \in DOMAIN named : ~fires(i)
    BY <1>2, <1>3, <1>5
  <2>3. QED BY <2>1, <2>2 DEF fires
<1>6. CASE firing # {}
  <2>1. Min(firing) \in firing
    <3>1. firing \subseteq Nat
      BY <1>3
    <3> HIDE DEF firing
    <3>2. QED BY <1>6, <3>1, MinIsLeast
  <2>2. FirstVerdict(rules, Allow) = rules[Min(firing)].verdict
    BY <1>6 DEF FirstVerdict
  <2>3. Min(firing) \in DOMAIN named /\ fires(Min(firing))
    BY <1>2, <1>3, <2>1
  <2>4. QED BY <1>1, <1>4, <2>2, <2>3 DEF fires
<1>7. QED BY <1>5, <1>6

\* What is left of a list is in the list.
LEMMA RemovedIsNamed ==
  ASSUME NEW T, NEW s \in Seq(T), NEW i \in DOMAIN s
  PROVE  /\ DOMAIN RemoveAt(s, i) = 1..Len(s) - 1
         /\ RemoveAt(s, i) \in Seq(T)
         /\ \A j \in DOMAIN RemoveAt(s, i) : \E k \in DOMAIN s : RemoveAt(s, i)[j] = s[k]
<1> DEFINE a == SubSeq(s, 1, i - 1)
           b == SubSeq(s, i + 1, Len(s))
<1>1. /\ a \in Seq(T) /\ Len(a) = i - 1 /\ \A j \in 1..i - 1 : a[j] = s[j]
      /\ b \in Seq(T) /\ Len(b) = Len(s) - i /\ \A j \in 1..Len(s) - i : b[j] = s[i + j]
  <2>1. i \in 1..Len(s) /\ Len(s) \in Nat
    OBVIOUS
  <2>2. QED BY <2>1
<1>2. RemoveAt(s, i) = a \o b
  BY DEF RemoveAt
<1> HIDE DEF a, b
<1>3. i \in 1..Len(s) /\ Len(s) \in Nat /\ DOMAIN s = 1..Len(s)
  OBVIOUS
<1>4. a \o b \in Seq(T) /\ Len(a \o b) = Len(s) - 1
      /\ \A j \in 1..Len(s) - 1 : (a \o b)[j] = IF j <= i - 1 THEN a[j] ELSE b[j - (i - 1)]
  <2>1. /\ a \o b \in Seq(T) /\ Len(a \o b) = Len(a) + Len(b)
        /\ \A j \in 1..Len(a) + Len(b) :
             (a \o b)[j] = IF j <= Len(a) THEN a[j] ELSE b[j - Len(a)]
    BY <1>1, ConcatProperties
  <2>2. Len(a) + Len(b) = Len(s) - 1
    BY <1>1, <1>3
  <2>3. QED BY <1>1, <2>1, <2>2
<1>5. ASSUME NEW j \in 1..Len(s) - 1
      PROVE  \E k \in DOMAIN s : (a \o b)[j] = s[k]
  <2>1. CASE j <= i - 1
    <3>1. j \in 1..i - 1 /\ j \in DOMAIN s
      BY <1>3, <2>1
    <3>2. QED BY <1>1, <1>4, <2>1, <3>1
  <2>2. CASE ~(j <= i - 1)
    <3>1. j - (i - 1) \in 1..Len(s) - i /\ i + (j - (i - 1)) = j + 1 /\ j + 1 \in DOMAIN s
      BY <1>3, <2>2
    <3>2. QED BY <1>1, <1>4, <2>2, <3>1
  <2>3. QED BY <2>1, <2>2
<1>6. DOMAIN (a \o b) = 1..Len(s) - 1
  BY <1>4
<1>7. QED BY <1>2, <1>4, <1>5, <1>6

\* Nothing written after a command and no further path weakens what was stopped without it.
THEOREM NothingWeakens == Spec => []NothingAddedWeakens
<1>1. TypeOK => NothingAddedWeakens
  <2> SUFFICES ASSUME TypeOK PROVE NothingAddedWeakens
    OBVIOUS
  <2>1. ASSUME command \notin {None, <<>>}, ~LoneEnv(Front(command))
        PROVE  Strictness(BuiltIn(Front(command))) <= Strictness(BuiltIn(command))
    <3>1. command \in Seq(Words) /\ command # <<>>
      BY <2>1 DEF TypeOK
    <3>2. Embeds(Front(command), 0, command)
      BY <3>1, FrontEmbeds
    <3>3. QED BY <2>1, <3>2, AppendNeverWeakens
  <2>2. ASSUME Len(paths) > 1, NEW i \in DOMAIN paths,
               PathVerdict(RemoveAt(paths, i)).decision # "allow"
        PROVE  PathVerdict(paths).decision # "allow"
    <3> DEFINE rest == RemoveAt(paths, i)
    <3>1. paths \in Seq(Paths) /\ Len(paths) \in Nat
      BY DEF TypeOK
    <3>2. /\ DOMAIN rest = 1..Len(paths) - 1
          /\ rest \in Seq(Paths)
          /\ \A j \in DOMAIN rest : \E k \in DOMAIN paths : rest[j] = paths[k]
      BY <3>1, RemovedIsNamed
    <3>3. /\ rest # <<>> /\ paths # <<>>
          /\ DOMAIN rest \subseteq Nat /\ DOMAIN paths \subseteq Nat
      BY <2>2, <3>1, <3>2
    <3>4. CASE tool.kind = "write"
      <4>1. EvaluateWrite(settings.cwd, rest, settings).decision # "allow"
        BY <2>2, <3>4 DEF PathVerdict
      <4> HIDE DEF rest
      <4>2. PICK j \in DOMAIN rest : \E r \in DOMAIN WriteRules(settings.cwd, rest[j], settings) :
              WriteRules(settings.cwd, rest[j], settings)[r].fires
        BY <3>3, <4>1, EvaluateWriteStops
      <4>3. PICK k \in DOMAIN paths : rest[j] = paths[k]
        BY <3>2
      <4>4. EvaluateWrite(settings.cwd, paths, settings).decision # "allow"
        BY <3>3, <4>2, <4>3, EvaluateWriteStops
      <4>5. QED BY <3>4, <4>4 DEF PathVerdict
    <3>5. CASE tool.kind # "write"
      <4>1. EvaluateRead(settings.cwd, rest, settings).decision # "allow"
        BY <2>2, <3>5 DEF PathVerdict
      <4> HIDE DEF rest
      <4>2. \E j \in DOMAIN rest : Guarded(settings.cwd, rest[j], settings)
        BY <4>1 DEF EvaluateRead, Allow
      <4>3. \E k \in DOMAIN paths : Guarded(settings.cwd, paths[k], settings)
        BY <3>2, <4>2
      <4>4. QED BY <3>5, <4>3 DEF PathVerdict, EvaluateRead, Deny
    <3>6. QED BY <3>4, <3>5
  <2>3. QED BY <2>1, <2>2 DEF NothingAddedWeakens
<1>2. QED BY <1>1, CallTypes, PTL

-----------------------------------------------------------------------------
(* Wildcards and paths *)

\* A command is a text.
LEMMA CommandIsText ==
  ASSUME NEW c \in Seq(Words)
  PROVE  CommandText(c) \in Seq(Symbols)
<1> DEFINE texts == [i \in DOMAIN c |-> <<c[i].text>>]
<1>1. " " \in Symbols
  BY DEF Symbols
<1>2. \A w \in Words : w.text \in Symbols
  BY TextsAssumption DEF Symbols
<1>3. texts \in Seq(Seq(Symbols))
  <2>1. \A i \in 1..Len(c) : <<c[i].text>> \in Seq(Symbols)
    BY <1>2
  <2>2. Len(c) \in Nat /\ texts = [i \in 1..Len(c) |-> <<c[i].text>>]
    OBVIOUS
  <2> HIDE DEF texts
  <2>3. texts \in [1..Len(c) -> Seq(Symbols)]
    BY <2>1, <2>2
  <2>4. QED BY <2>2, <2>3, SeqDef
<1>4. CommandText(c) = JoinWith(texts, " ")
  BY DEF CommandText
<1> HIDE DEF texts
<1>5. QED BY <1>1, <1>3, <1>4, JoinType

\* The wildcards of a configuration match a command exactly as written, star or no star.
THEOREM WildcardsExact == Spec => []GlobCorrect
<1>1. TypeOK => GlobCorrect
  <2> SUFFICES ASSUME TypeOK, command # None, NEW p \in Patterns
               PROVE  WildcardMatch(p, CommandText(command)) <=> Glob(p, CommandText(command))
    BY DEF GlobCorrect
  <2>1. CommandText(command) \in Seq(Symbols)
    BY CommandIsText DEF TypeOK
  <2>2. p \in Seq(Symbols)
    <3>1. p \in Seq(STRING) /\ STRING \subseteq Symbols
      BY TextsAssumption DEF Symbols
    <3>2. QED BY <3>1, SeqMonotonic
  <2>3. QED BY <2>1, <2>2, WildcardsMatch
<1>2. QED BY <1>1, CallTypes, PTL

\* Whoever asks for the collapsed path or the place answers the same.
LEMMA DetourGuarded ==
  ASSUME NEW u \in Walk, NEW v \in Walk, NEW cwd, cwd \subseteq Walk, NEW config,
         IsAbsolute(u \o Detour \o v) = IsAbsolute(u \o v),
         IsAbsolute(Slashed(u \o Detour \o v)) = IsAbsolute(Slashed(u \o v))
  PROVE  Guarded(cwd, u \o Detour \o v, config) <=> Guarded(cwd, u \o v, config)
<1> DEFINE d == u \o Detour \o v
           p == u \o v
<1>1. CollapsePathTraversal(Slashed(d)) = CollapsePathTraversal(Slashed(p))
  <2>1. Slashed(d) = Slashed(u) \o Detour \o Slashed(v) /\ Slashed(p) = Slashed(u) \o Slashed(v)
    BY DetourSlashed, SlashedConcat
  <2>2. Slashed(u) \in Walk /\ Slashed(v) \in Walk
    BY SlashedLaws
  <2>3. \A absolute : CollapsedNames(absolute, Slashed(d)) = CollapsedNames(absolute, Slashed(p))
    BY <2>1, <2>2, DetourLeadsBack
  <2>4. IsAbsolute(Slashed(d)) = IsAbsolute(Slashed(p))
    OBVIOUS
  <2> HIDE DEF d, p
  <2>5. QED BY <2>3, <2>4 DEF CollapsePathTraversal
<1>2. IsProtectedPath(d, config.protect) <=> IsProtectedPath(p, config.protect)
  <2> HIDE DEF d, p
  <2>1. QED BY <1>1 DEF IsProtectedPath
<1>3. ASSUME NEW root \in cwd
      PROVE  LexicalNormalize(IF IsAbsolute(d) THEN d ELSE root \o d)
               = LexicalNormalize(IF IsAbsolute(p) THEN p ELSE root \o p)
  <2>1. root \o u \in Walk
    BY PathTypes
  <2>2. LexicalNormalize((root \o u) \o Detour \o v) = LexicalNormalize((root \o u) \o v)
    BY <2>1, DetourLeadsBack
  <2>3. root \o d = (root \o u) \o Detour \o v /\ root \o p = (root \o u) \o v
    <3>1. Detour \in Walk /\ u \o Detour \in Walk /\ root \in Walk
      <4>1. \A a \in Names, b \in Names : <<a, b>> \in Seq(Names)
        OBVIOUS
      <4>2. Detour \in Walk
        BY <4>1, PathTypes DEF Detour, Walk
      <4>3. QED BY <4>2, PathTypes
    <3>2. \A a \in Walk, b \in Walk : root \o (a \o b) = (root \o a) \o b
      BY <3>1, WalkAssociative
    <3>3. /\ root \o (u \o v) = (root \o u) \o v
          /\ root \o ((u \o Detour) \o v) = (root \o (u \o Detour)) \o v
          /\ root \o (u \o Detour) = (root \o u) \o Detour
      BY <3>1, <3>2
    <3>4. QED BY <3>3
  <2>4. LexicalNormalize(d) = LexicalNormalize(p)
    BY DetourLeadsBack
  <2>5. QED BY <2>2, <2>3, <2>4
<1>4. IsOutsideRepo(cwd, d) <=> IsOutsideRepo(cwd, p)
  <2> HIDE DEF d, p
  <2>1. QED BY <1>3 DEF IsOutsideRepo
<1>5. QED BY <1>2, <1>4 DEF Guarded

\* For every path without a backslash and every working directory, the names that
\* is_protected_path looks at lead where is_outside_repo says the path leads.
THEOREM CollapseDenotes == Spec => []CollapseKeepsPlace
<1>1. TypeOK => CollapseKeepsPlace
  <2> SUFFICES ASSUME TypeOK, NEW n \in DOMAIN paths, NEW root \in settings.cwd,
                      Slashed(paths[n]) = paths[n]
               PROVE  PlaceOf(root, CollapsePathTraversal(Slashed(paths[n]))) = PlaceOf(root, paths[n])
    BY DEF CollapseKeepsPlace, PlaceOf
  <2>1. paths[n] \in Paths /\ settings \in Settings
    BY DEF TypeOK
  <2>2. paths[n] \in Walk /\ root \in Walk
    BY <2>1, PathsAssumption, SettingsAssumption, PathsAreWalks
  <2>3. QED BY <2>2, CollapsePlace
<1>2. QED BY <1>1, CallTypes, PTL

\* A walk is its beginning and the rest of it.
LEMMA SplitWalk ==
  ASSUME NEW p \in Walk, NEW i \in 1..Len(p) + 1
  PROVE  /\ SubSeq(p, 1, i - 1) \in Walk /\ SubSeq(p, i, Len(p)) \in Walk
         /\ SubSeq(p, 1, i - 1) \o SubSeq(p, i, Len(p)) = p
<1> DEFINE u == SubSeq(p, 1, i - 1)
           v == SubSeq(p, i, Len(p))
<1>1. Len(p) \in Nat
  BY PathTypes
<1>2. u \in Walk /\ v \in Walk /\ Len(u) = i - 1 /\ Len(v) = Len(p) - (i - 1)
      /\ (\A k \in 1..i - 1 : u[k] = p[k])
      /\ (\A k \in 1..Len(p) - (i - 1) : v[k] = p[k + (i - 1)])
  BY <1>1 DEF Walk
<1> HIDE DEF u, v
<1>3. u \o v \in Walk /\ Len(u \o v) = Len(p)
      /\ \A k \in 1..Len(p) : (u \o v)[k] = IF k <= i - 1 THEN u[k] ELSE v[k - (i - 1)]
  <2>1. /\ u \o v \in Walk /\ Len(u \o v) = Len(u) + Len(v)
        /\ \A k \in 1..Len(u) + Len(v) :
             (u \o v)[k] = IF k <= Len(u) THEN u[k] ELSE v[k - Len(u)]
    BY <1>2, WalkConcat
  <2>2. Len(u) + Len(v) = Len(p)
    BY <1>1, <1>2
  <2>3. QED BY <1>2, <2>1, <2>2
<1>4. ASSUME NEW k \in 1..Len(p) PROVE (u \o v)[k] = p[k]
  <2>1. CASE k <= i - 1
    BY <1>1, <1>2, <1>3, <2>1
  <2>2. CASE ~(k <= i - 1)
    <3>1. k - (i - 1) \in 1..Len(p) - (i - 1) /\ (k - (i - 1)) + (i - 1) = k
      BY <1>1, <2>2
    <3>2. QED BY <1>2, <1>3, <2>2, <3>1
  <2>3. QED BY <2>1, <2>2
<1>5. u \o v = p
  BY <1>1, <1>3, <1>4, SeqEqual DEF Walk
<1>6. QED BY <1>2, <1>5 DEF u, v

\* A detour written with slashes, in any path and at any place of it, hides no path from
\* is_protected_path or is_outside_repo and makes none of another.  (The third rule of a write,
\* evaluate_corcept_controlled_write, is not in Guarded, and a detour does hide a path from it.)
THEOREM DetoursKeepGuarded == Spec => []DetourKeepsGuarded
<1>1. TypeOK => DetourKeepsGuarded
  <2> SUFFICES ASSUME TypeOK, NEW n \in DOMAIN paths, NEW i \in 1..Len(paths[n]) + 1,
                      IsAbsolute(SubSeq(paths[n], 1, i - 1) \o Detour \o SubSeq(paths[n], i, Len(paths[n])))
                        = IsAbsolute(paths[n]),
                      IsAbsolute(Slashed(SubSeq(paths[n], 1, i - 1) \o Detour
                                           \o SubSeq(paths[n], i, Len(paths[n]))))
                        = IsAbsolute(Slashed(paths[n]))
               PROVE  Guarded(settings.cwd, SubSeq(paths[n], 1, i - 1) \o Detour
                                              \o SubSeq(paths[n], i, Len(paths[n])), settings)
                        <=> Guarded(settings.cwd, paths[n], settings)
    BY DEF DetourKeepsGuarded, Detour
  <2> DEFINE p == paths[n]
             u == SubSeq(p, 1, i - 1)
             v == SubSeq(p, i, Len(p))
  <2>1. p \in Paths /\ settings \in Settings
    BY DEF TypeOK
  <2>2. p \in Walk /\ settings.cwd \subseteq Walk
    BY <2>1, PathsAssumption, SettingsAssumption, PathsAreWalks
  <2> HIDE DEF p
  <2>3. u \in Walk /\ v \in Walk /\ u \o v = p
    BY <2>2, SplitWalk DEF p
  <2> HIDE DEF u, v
  <2>4. /\ IsAbsolute(u \o Detour \o v) = IsAbsolute(u \o v)
        /\ IsAbsolute(Slashed(u \o Detour \o v)) = IsAbsolute(Slashed(u \o v))
    BY <2>3 DEF u, v, p
  <2>5. Guarded(settings.cwd, u \o Detour \o v, settings) <=> Guarded(settings.cwd, u \o v, settings)
    BY <2>2, <2>3, <2>4, DetourGuarded
  <2>6. QED BY <2>3, <2>5 DEF u, v, p
<1>2. QED BY <1>1, CallTypes, PTL
=============================================================================
