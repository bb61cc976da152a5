-------------------------- MODULE DelegationRules --------------------------
(***************************************************************************)
(* How one delegated request is decided: validate_snapshot and              *)
(* evaluate_delegation (corcept-guards/src/delegation.rs) over the document *)
(* the attestor signed, and the composition with the base guard and the     *)
(* configured ceilings (corcept-runtime/src/delegation.rs).                 *)
(*                                                                         *)
(* The policy file holds any document of a set, in order or not; time       *)
(* passes; hosts ask.  A hook process reads the document once, so its       *)
(* replacement (DelegatedAdmission) changes nothing for one request.        *)
(* Identifiers are well formed, caller and user are one subject, and        *)
(* capability, action and resource are one component of a scope.            *)
(***************************************************************************)
EXTENDS Naturals

CONSTANTS
  None,            \* an absent optional field
  Documents,       \* the documents the attestor may have signed
  HostCalls,       \* the calls the host makes
  BaseVerdicts,    \* the verdicts evaluate_pre_tool gives on them
  Limits,          \* [ceiling, l4NeedsApproval]: the authority section of the config
  MaxTime          \* bound: the clock

Kinds == {"invocations", "grants", "capabilities", "services", "organisations",
          "approvals"}
Versioned == {"grants", "capabilities", "services", "organisations"}
Level == 0..4

ASSUME TimeAssumption == MaxTime \in Nat

\* What deserialization guarantees of a document: rows in order, times and levels.
IsDocument(doc) ==
  /\ \A k \in Kinds : DOMAIN doc[k] \subseteq Nat
  /\ doc.from \in Nat /\ doc.until \in Nat
  /\ \A i \in DOMAIN doc.invocations : doc.invocations[i].level \in Level
  /\ \A i \in DOMAIN doc.grants :
       /\ doc.grants[i].from \in Nat /\ doc.grants[i].until \in Nat
       /\ doc.grants[i].maxLevel \in Level
  /\ \A i \in DOMAIN doc.capabilities : doc.capabilities[i].maxLevel \in Level
  /\ \A i \in DOMAIN doc.approvals :
       /\ doc.approvals[i].from \in Nat /\ doc.approvals[i].until \in Nat
       /\ doc.approvals[i].id # None

ASSUME DocumentsAssumption == \A doc \in Documents : IsDocument(doc)
ASSUME LimitsAssumption == Limits \subseteq [ceiling : Level, l4NeedsApproval : BOOLEAN]
ASSUME VerdictsAssumption ==
  BaseVerdicts \subseteq [decision : {"allow", "ask", "deny"}, level : Level]

VARIABLES
  snapshot,  \* the signed document the policy file holds
  now,       \* the time hook processes read
  asked,     \* what the running hook process serves: call, base verdict, limits
  verdict    \* its decision

vars == <<snapshot, now, asked, verdict>>

-----------------------------------------------------------------------------
(* What a document must be: validate_snapshot *)

Proper(w) == w.from < w.until
Within(w, outer) == outer.from <= w.from /\ w.until <= outer.until

Listed(rows, id) == \E i \in DOMAIN rows : rows[i].id = id

\* Iterator::find: the first row with this id.
Find(rows, id) ==
  rows[CHOOSE i \in DOMAIN rows :
         rows[i].id = id /\ \A j \in DOMAIN rows : j < i => rows[j].id # id]

\* Mutant of Resolves: a reference is resolved by its id alone.
ResolvesAnyVersion(ref, rows) == Listed(rows, ref.id)

Resolves(ref, rows) ==
  \E i \in DOMAIN rows : rows[i].id = ref.id /\ rows[i].version = ref.version

\* One set holds the ids of all kinds and of the snapshot itself.
UniqueIds(doc) ==
  \A k \in Kinds : \A i \in DOMAIN doc[k] :
    /\ doc[k][i].id # doc.id
    /\ \A l \in Kinds : \A j \in DOMAIN doc[l] :
         doc[k][i].id = doc[l][j].id => k = l /\ i = j

UniqueCalls(doc) ==
  \A i, j \in DOMAIN doc.invocations :
    /\ doc.invocations[i].session = doc.invocations[j].session
    /\ doc.invocations[i].toolUse = doc.invocations[j].toolUse
    => i = j

GrantValid(doc, g) ==
  /\ Proper(g) /\ Within(g, doc)
  /\ Resolves(g.capability, doc.capabilities)
  /\ Resolves(g.service, doc.services)
  /\ Resolves(g.organisationPolicy, doc.organisations)

\* The approval, the invocation it is for and that invocation's grant agree.
ApprovalValid(doc, a) ==
  /\ a.snapshot = doc.id /\ a.snapshotVersion = doc.version
  /\ Proper(a) /\ Within(a, doc)
  /\ Listed(doc.invocations, a.invocation)
  /\ Listed(doc.grants, a.grant)
  /\ LET b == Find(doc.invocations, a.invocation)
     IN /\ b.delegation.grant = a.grant
        /\ b.delegation.approval = a.id
        /\ b.digest = a.digest
  /\ Within(a, Find(doc.grants, a.grant))

\* Mutant of BindingValid: the grant an invocation names is not looked up.
BindingValidUnresolved(doc, b) ==
  b.delegation.approval # None => Listed(doc.approvals, b.delegation.approval)

BindingValid(doc, b) ==
  /\ Listed(doc.grants, b.delegation.grant)
  /\ b.delegation.approval # None =>
       \E i \in DOMAIN doc.approvals :
         /\ doc.approvals[i].id = b.delegation.approval
         /\ doc.approvals[i].invocation = b.id

Valid(doc) ==
  /\ doc.version > 0 /\ Proper(doc)
  /\ \A k \in Kinds \ {"approvals"} : doc[k] # <<>>
  /\ \A k \in Versioned : \A i \in DOMAIN doc[k] : doc[k][i].version > 0
  /\ UniqueIds(doc)
  /\ UniqueCalls(doc)
  /\ \A i \in DOMAIN doc.grants : GrantValid(doc, doc.grants[i])
  /\ \A i, j \in DOMAIN doc.approvals :
       doc.approvals[i].invocation = doc.approvals[j].invocation => i = j
  /\ \A i \in DOMAIN doc.approvals : ApprovalValid(doc, doc.approvals[i])
  /\ \A i \in DOMAIN doc.invocations : BindingValid(doc, doc.invocations[i])

-----------------------------------------------------------------------------
(* Whether a document allows a call: evaluate_delegation *)

InWindow(w, t) == w.from <= t /\ t < w.until

\* tool_authority_floor: a tool that is not listed can never be delegated.
Floor(tool) ==
  CASE tool = "Read" -> 0 [] tool = "Edit" -> 2 [] tool = "Bash" -> 3
    [] tool = "WebFetch" -> 4
Delegable == {"Read", "Edit", "Bash", "WebFetch"}

Denied(level) ==
  [decision |-> "deny", level |-> level, invocation |-> None, approval |-> None]
Allowed(b, approval) ==
  [decision |-> "allow", level |-> b.level, invocation |-> b.id, approval |-> approval]

\* An expect() on a row that is not there: the process aborts without answering.
Panic == [Denied(0) EXCEPT !.decision = "panic"]

\* Mutant of Matches: a signed call may be made again in its session.
MatchesSession(b, call) == b.session = call.session

\* A binding is for one host call.
Matches(b, call) == b.session = call.session /\ b.toolUse = call.toolUse

Binding(doc, call) ==
  doc.invocations[CHOOSE i \in DOMAIN doc.invocations :
                    Matches(doc.invocations[i], call)]

\* Everything that is looked at before the invocation's binding is known.
Attested(doc, call, t) ==
  /\ Valid(doc)
  /\ InWindow(doc, t)
  /\ call.event = "PreToolUse"
  /\ call.delegation # None
  /\ call.agent \in {None, call.delegation.agent}
  /\ \E i \in DOMAIN doc.invocations : Matches(doc.invocations[i], call)

BindingHolds(b, call) ==
  /\ b.claim = "verified"
  /\ b.tool = call.tool /\ b.digest = call.digest /\ b.delegation = call.delegation
  /\ b.tool \in Delegable
  /\ Floor(b.tool) <= b.level

\* The rows a grant refers to are looked up by id only.
RowsFound(doc, d) ==
  /\ Listed(doc.grants, d.grant)
  /\ LET g == Find(doc.grants, d.grant)
     IN /\ Listed(doc.capabilities, g.capability.id)
        /\ Listed(doc.services, g.service.id)
        /\ Listed(doc.organisations, g.organisationPolicy.id)

GrantHolds(g, b, t) ==
  /\ g.claim = "verified"
  /\ InWindow(g, t)
  /\ g.subject = b.delegation.subject /\ g.agent = b.delegation.agent
  /\ g.organisation = b.delegation.organisation
  /\ g.scope = b.delegation.scope
  /\ b.level <= g.maxLevel

CapabilityHolds(c, g, b) ==
  c.claim = "verified" /\ c.scope = g.scope /\ b.level <= c.maxLevel

PolicyHolds(p, owner, g) ==
  p.claim = "verified" /\ p.owner = owner /\ p.scope = g.scope /\ p.decision = "allow"

RulesHold(doc, g, b) ==
  /\ CapabilityHolds(Find(doc.capabilities, g.capability.id), g, b)
  /\ PolicyHolds(Find(doc.services, g.service.id), b.delegation.scope.service, g)
  /\ PolicyHolds(Find(doc.organisations, g.organisationPolicy.id),
                 b.delegation.organisation, g)

ApprovalHolds(doc, a, g, b, t) ==
  /\ a.claim = "verified"
  /\ InWindow(a, t)
  /\ a.invocation = b.id /\ a.grant = g.id /\ a.digest = b.digest
  /\ a.snapshot = doc.id /\ a.snapshotVersion = doc.version

Evaluate(doc, call, t) ==
  LET b == Binding(doc, call)
      d == call.delegation
      g == Find(doc.grants, d.grant)
  IN IF ~Attested(doc, call, t) THEN Denied(0)
     ELSE IF ~BindingHolds(b, call) THEN Denied(b.level)
     ELSE IF ~RowsFound(doc, d) THEN Panic
     ELSE IF ~GrantHolds(g, b, t) \/ ~RulesHold(doc, g, b) THEN Denied(b.level)
     ELSE IF d.approval = None
       THEN IF g.approvalRequired THEN Denied(b.level) ELSE Allowed(b, None)
     ELSE IF ~Listed(doc.approvals, d.approval) THEN Panic
     ELSE IF ApprovalHolds(doc, Find(doc.approvals, d.approval), g, b, t)
       THEN Allowed(b, d.approval)
     ELSE Denied(b.level)

-----------------------------------------------------------------------------
(* The admission: evaluation under the operator's limits, and the base guard *)

\* The limits deny; an understated level is recorded as the base guard's.
Limited(base, e, limits) ==
  IF e.decision # "allow" THEN e
  ELSE IF e.level < base.level THEN Denied(base.level)
  ELSE IF \/ e.level > limits.ceiling
          \/ e.level = 4 /\ limits.l4NeedsApproval /\ e.approval = None
    THEN Denied(e.level)
  ELSE e

\* Mutant of Resolve: the delegation alone answers for the user.
ResolveAlways(base, e) ==
  IF base.decision = "ask" /\ e.decision = "allow"
    THEN [base EXCEPT !.decision = "allow"]
    ELSE base

\* Only an approval of this very action answers the base guard's question.
Resolve(base, e) ==
  IF base.decision = "ask" /\ e.decision = "allow"
    THEN [base EXCEPT !.decision = IF e.approval # None THEN "allow" ELSE "deny"]
    ELSE base

Strictest(d, e) ==
  IF "deny" \in {d, e} THEN "deny" ELSE IF "ask" \in {d, e} THEN "ask" ELSE "allow"

\* compose_guard_verdicts: the level goes with the decision that prevails.
Compose(v, w) ==
  LET d == Strictest(v.decision, w.decision)
  IN [decision |-> d, level |-> IF d = v.decision THEN v.level ELSE w.level]

Raised(v, level) == IF v.level < level THEN [v EXCEPT !.level = level] ELSE v

\* An ask that is left becomes a denial: the host would not come back to us.
Admit(base, e, limits) ==
  LET limited == Limited(base, e, limits)
      composed == Compose(Resolve(base, limited), limited)
      final == IF composed.decision = "ask"
                 THEN [composed EXCEPT !.decision = "deny"] ELSE composed
  IN IF e.decision = "panic" THEN [decision |-> "panic", level |-> 0]
     ELSE Raised(final, limited.level)

-----------------------------------------------------------------------------
(* The system: a clock and hook processes *)

NoVerdict == [decision |-> "none", level |-> 0]

Init ==
  /\ snapshot \in Documents
  /\ now = 0
  /\ asked = None
  /\ verdict = NoVerdict

Tick ==
  /\ asked = None
  /\ now < MaxTime
  /\ now' = now + 1
  /\ UNCHANGED <<snapshot, asked, verdict>>

\* Read, evaluate and decide: the process looks at one document and at one time.
Handle ==
  \E call \in HostCalls, base \in BaseVerdicts, limits \in Limits :
    /\ asked = None
    /\ asked' = [call |-> call, base |-> base, limits |-> limits]
    /\ verdict' = Admit(base, Evaluate(snapshot, call, now), limits)
    /\ UNCHANGED <<snapshot, now>>

\* The process that decided is gone.
Exit ==
  /\ asked # None
  /\ asked' = None
  /\ verdict' = NoVerdict
  /\ UNCHANGED <<snapshot, now>>

Next == Tick \/ Handle \/ Exit

Spec == Init /\ [][Next]_vars

-----------------------------------------------------------------------------
(* Properties *)

\* Whatever document is signed, a hook process decides, and allows or denies: no
\* expect() of evaluate_delegation fails, because what validate_snapshot resolved by
\* id and version is found again by id, and no ask is left.  A process that aborts
\* gives the host no decision at all.
AlwaysDecides == asked # None => verdict.decision \in {"allow", "deny"}

\* The rules without an order and without lookups: rows that refer to one another
\* by id and version, all verified, all of one scope, and none over its level.
Agree(b, g, c, s, o, call, base, limits) ==
  LET d == call.delegation
  IN /\ b.session = call.session /\ b.toolUse = call.toolUse
     /\ b.tool = call.tool /\ b.digest = call.digest /\ b.delegation = d
     /\ g.id = d.grant
     /\ g.capability.id = c.id /\ g.capability.version = c.version
     /\ g.service.id = s.id /\ g.service.version = s.version
     /\ g.organisationPolicy.id = o.id /\ g.organisationPolicy.version = o.version
     /\ {b.claim, g.claim, c.claim, s.claim, o.claim} = {"verified"}
     /\ {g.scope, c.scope, s.scope, o.scope} = {d.scope}
     /\ g.subject = d.subject /\ g.agent = d.agent
     /\ {g.organisation, o.owner} = {d.organisation}
     /\ s.owner = d.scope.service
     /\ {s.decision, o.decision} = {"allow"}
     /\ b.tool \in Delegable
     /\ \A l \in {base.level, Floor(b.tool)} : l <= b.level
     /\ \A l \in {g.maxLevel, c.maxLevel, limits.ceiling} : b.level <= l

\* The innermost window is enough: an approval's lies in its grant's, and that in
\* the document's.
Unapproved(b, g, d, t, base, limits) ==
  /\ d.approval = None /\ ~g.approvalRequired
  /\ base.decision = "allow"
  /\ b.level = 4 => ~limits.l4NeedsApproval
  /\ g.from <= t /\ t < g.until

Approved(b, a, d, t, base) ==
  /\ a.id = d.approval /\ a.invocation = b.id
  /\ a.claim = "verified"
  /\ base.decision \in {"allow", "ask"}
  /\ a.from <= t /\ t < a.until

Authorised(doc, call, t, base, limits) ==
  /\ Valid(doc)
  /\ call.event = "PreToolUse" /\ call.delegation # None
  /\ call.agent \in {None, call.delegation.agent}
  /\ \E bi \in DOMAIN doc.invocations, gi \in DOMAIN doc.grants :
       /\ \E ci \in DOMAIN doc.capabilities, si \in DOMAIN doc.services,
             oi \in DOMAIN doc.organisations :
            Agree(doc.invocations[bi], doc.grants[gi], doc.capabilities[ci],
                  doc.services[si], doc.organisations[oi], call, base, limits)
       /\ \/ Unapproved(doc.invocations[bi], doc.grants[gi], call.delegation, t, base, limits)
          \/ \E ai \in DOMAIN doc.approvals :
               Approved(doc.invocations[bi], doc.approvals[ai], call.delegation, t, base)

\* A call is allowed exactly if the document, the base guard and the operator's
\* limits all authorise it; what is recorded covers the level it was allowed at.
AllowedIffAuthorised ==
  asked # None =>
    /\ verdict.decision = "allow" <=>
         Authorised(snapshot, asked.call, now, asked.base, asked.limits)
    /\ verdict.decision = "allow" =>
         verdict.level >= asked.base.level /\ verdict.level >= Floor(asked.call.tool)

\* An approval is for one action: of all calls that a document allows with it,
\* no two differ in host call, tool or arguments.
ApprovalNamesOneCall ==
  LET allowed == {c \in HostCalls : Evaluate(snapshot, c, now).decision = "allow"}
  IN \A c, d \in allowed :
       /\ c.delegation.approval # None
       /\ c.delegation.approval = d.delegation.approval
       => /\ c.session = d.session /\ c.toolUse = d.toolUse
          /\ c.tool = d.tool /\ c.digest = d.digest
=============================================================================
