----------------------- MODULE DelegationRulesProofs -----------------------
(* Theorems about DelegationRules, for every set of documents, calls and limits. *)
EXTENDS DelegationRules, TLAPS

-----------------------------------------------------------------------------
(* Lookups in a document that is valid *)

\* Where ids are unique, the first row with an id is the row with that id.
LEMMA FindRow ==
  ASSUME NEW doc, IsDocument(doc), UniqueIds(doc), NEW k \in Kinds,
         NEW i \in DOMAIN doc[k]
  PROVE  Find(doc[k], doc[k][i].id) = doc[k][i]
<1> DEFINE id == doc[k][i].id
           First(x) == doc[k][x].id = id /\ \A j \in DOMAIN doc[k] : j < x => doc[k][j].id # id
           x0 == CHOOSE x \in DOMAIN doc[k] : First(x)
<1>1. \A j \in DOMAIN doc[k] : doc[k][j].id = id => j = i
  BY DEF UniqueIds
<1>2. First(i)
  BY <1>1 DEF IsDocument
<1>3. x0 \in DOMAIN doc[k] /\ First(x0)
  BY <1>2
<1>4. x0 = i
  BY <1>1, <1>3
<1>5. Find(doc[k], id) = doc[k][x0]
  BY DEF Find
<1> QED
  BY <1>4, <1>5

\* Where the calls are unique, a call has one binding.
LEMMA BindingRow ==
  ASSUME NEW doc, UniqueCalls(doc), NEW call, NEW i \in DOMAIN doc.invocations,
         Matches(doc.invocations[i], call)
  PROVE  Binding(doc, call) = doc.invocations[i]
<1> DEFINE x0 == CHOOSE x \in DOMAIN doc.invocations : Matches(doc.invocations[x], call)
<1>1. x0 \in DOMAIN doc.invocations /\ Matches(doc.invocations[x0], call)
  OBVIOUS
<1>2. x0 = i
  BY <1>1 DEF UniqueCalls, Matches
<1> QED
  BY <1>2 DEF Binding

\* The grant of an invocation in a valid document, and what it refers to.
LEMMA GrantResolved ==
  ASSUME NEW doc, IsDocument(doc), Valid(doc), NEW i \in DOMAIN doc.invocations
  PROVE  LET d == doc.invocations[i].delegation
         IN \E gi \in DOMAIN doc.grants, ci \in DOMAIN doc.capabilities,
               si \in DOMAIN doc.services, oi \in DOMAIN doc.organisations :
              LET g == doc.grants[gi]
              IN /\ g.id = d.grant /\ Find(doc.grants, d.grant) = g
                 /\ GrantValid(doc, g)
                 /\ doc.capabilities[ci].id = g.capability.id
                 /\ doc.capabilities[ci].version = g.capability.version
                 /\ Find(doc.capabilities, g.capability.id) = doc.capabilities[ci]
                 /\ doc.services[si].id = g.service.id
                 /\ doc.services[si].version = g.service.version
                 /\ Find(doc.services, g.service.id) = doc.services[si]
                 /\ doc.organisations[oi].id = g.organisationPolicy.id
                 /\ doc.organisations[oi].version = g.organisationPolicy.version
                 /\ Find(doc.organisations, g.organisationPolicy.id) = doc.organisations[oi]
<1> DEFINE d == doc.invocations[i].delegation
<1>1. UniqueIds(doc) /\ BindingValid(doc, doc.invocations[i])
  BY DEF Valid
<1>2. PICK gi \in DOMAIN doc.grants : doc.grants[gi].id = d.grant
  BY <1>1 DEF BindingValid, Listed
<1> DEFINE g == doc.grants[gi]
<1>3. Find(doc.grants, d.grant) = g
  BY <1>1, <1>2, FindRow DEF Kinds
<1>4. GrantValid(doc, g)
  BY DEF Valid
<1>5. PICK ci \in DOMAIN doc.capabilities :
        /\ doc.capabilities[ci].id = g.capability.id
        /\ doc.capabilities[ci].version = g.capability.version
  BY <1>4 DEF GrantValid, Resolves
<1>6. Find(doc.capabilities, g.capability.id) = doc.capabilities[ci]
  BY <1>1, <1>5, FindRow DEF Kinds
<1>7. PICK si \in DOMAIN doc.services :
        /\ doc.services[si].id = g.service.id
        /\ doc.services[si].version = g.service.version
  BY <1>4 DEF GrantValid, Resolves
<1>8. Find(doc.services, g.service.id) = doc.services[si]
  BY <1>1, <1>7, FindRow DEF Kinds
<1>9. PICK oi \in DOMAIN doc.organisations :
        /\ doc.organisations[oi].id = g.organisationPolicy.id
        /\ doc.organisations[oi].version = g.organisationPolicy.version
  BY <1>4 DEF GrantValid, Resolves
<1>10. Find(doc.organisations, g.organisationPolicy.id) = doc.organisations[oi]
  BY <1>1, <1>9, FindRow DEF Kinds
<1> QED
  BY <1>2, <1>3, <1>4, <1>5, <1>6, <1>7, <1>8, <1>9, <1>10

\* The approval an invocation presents is in the document and is for it alone.
LEMMA ApprovalResolved ==
  ASSUME NEW doc, IsDocument(doc), Valid(doc), NEW i \in DOMAIN doc.invocations,
         doc.invocations[i].delegation.approval # None
  PROVE  LET b == doc.invocations[i]  d == b.delegation
         IN \E ai \in DOMAIN doc.approvals :
              LET a == doc.approvals[ai]
              IN /\ a.id = d.approval /\ Find(doc.approvals, d.approval) = a
                 /\ a.invocation = b.id /\ a.grant = d.grant /\ a.digest = b.digest
                 /\ a.snapshot = doc.id /\ a.snapshotVersion = doc.version
                 /\ Within(a, doc) /\ Within(a, Find(doc.grants, d.grant))
<1> DEFINE b == doc.invocations[i]
           d == b.delegation
<1>1. UniqueIds(doc) /\ BindingValid(doc, b)
  BY DEF Valid
<1>2. PICK ai \in DOMAIN doc.approvals :
        doc.approvals[ai].id = d.approval /\ doc.approvals[ai].invocation = b.id
  BY <1>1 DEF BindingValid
<1> DEFINE a == doc.approvals[ai]
<1>3. Find(doc.approvals, d.approval) = a
  BY <1>1, <1>2, FindRow DEF Kinds
<1>4. ApprovalValid(doc, a)
  BY DEF Valid
<1>5. Find(doc.invocations, a.invocation) = b
  BY <1>1, <1>2, FindRow DEF Kinds
<1> QED
  BY <1>2, <1>3, <1>4, <1>5 DEF ApprovalValid

-----------------------------------------------------------------------------
(* A decision is always reached *)

\* The binding a call is served from is a row of the document.
LEMMA AttestedBinding ==
  ASSUME NEW doc, NEW call, NEW t, Attested(doc, call, t)
  PROVE  \E i \in DOMAIN doc.invocations :
           /\ Matches(doc.invocations[i], call)
           /\ Binding(doc, call) = doc.invocations[i]
<1>1. UniqueCalls(doc)
  BY DEF Attested, Valid
<1>2. PICK i \in DOMAIN doc.invocations : Matches(doc.invocations[i], call)
  BY DEF Attested
<1>3. Binding(doc, call) = doc.invocations[i]
  BY <1>1, <1>2, BindingRow
<1> QED
  BY <1>2, <1>3

\* validate_snapshot's checks by id and version are enough for the lookups by id.
LEMMA RowsAreFound ==
  ASSUME NEW doc, IsDocument(doc), NEW call, NEW t, Attested(doc, call, t),
         BindingHolds(Binding(doc, call), call)
  PROVE  /\ RowsFound(doc, call.delegation)
         /\ call.delegation.approval # None =>
              Listed(doc.approvals, call.delegation.approval)
<1>1. PICK i \in DOMAIN doc.invocations : Binding(doc, call) = doc.invocations[i]
  BY AttestedBinding
<1>2. Valid(doc) /\ doc.invocations[i].delegation = call.delegation
  BY <1>1 DEF Attested, BindingHolds
<1>3. RowsFound(doc, call.delegation)
  BY <1>2, GrantResolved DEF RowsFound, Listed
<1>4. call.delegation.approval # None =>
        Listed(doc.approvals, call.delegation.approval)
  BY <1>2, ApprovalResolved DEF Listed
<1> QED
  BY <1>3, <1>4

LEMMA EvaluateDecides ==
  ASSUME NEW doc, IsDocument(doc), NEW call, NEW t
  PROVE  Evaluate(doc, call, t).decision \in {"allow", "deny"}
<1> DEFINE b == Binding(doc, call)
<1>1. CASE ~Attested(doc, call, t)
  BY <1>1 DEF Evaluate, Denied
<1>2. CASE Attested(doc, call, t) /\ ~BindingHolds(b, call)
  BY <1>2 DEF Evaluate, Denied
<1>3. CASE Attested(doc, call, t) /\ BindingHolds(b, call)
  BY <1>3, RowsAreFound DEF Evaluate, Denied, Allowed
<1> QED
  BY <1>1, <1>2, <1>3

\* The composition of two decisions leaves no ask.
LEMMA AdmitDecides ==
  ASSUME NEW base, NEW e, NEW limits, base.decision \in {"allow", "ask", "deny"},
         e.decision \in {"allow", "deny"}
  PROVE  Admit(base, e, limits).decision \in {"allow", "deny"}
<1> DEFINE limited == Limited(base, e, limits)
           resolved == Resolve(base, limited)
           composed == Compose(resolved, limited)
           final == IF composed.decision = "ask"
                      THEN [composed EXCEPT !.decision = "deny"] ELSE composed
<1>1. limited.decision \in {"allow", "deny"}
  BY DEF Limited, Denied
<1>2. composed.decision \in {"allow", "ask", "deny"}
  BY DEF Compose, Strictest
<1>3. final.decision \in {"allow", "deny"}
  BY <1>2 DEF Compose
<1>4. Raised(final, limited.level).decision = final.decision
  BY DEF Raised, Compose
<1>5. Admit(base, e, limits) = Raised(final, limited.level)
  BY DEF Admit
<1> QED
  BY <1>3, <1>4, <1>5

\* Whatever documents are signed and whatever is asked, a hook process allows or
\* denies: it never aborts in a lookup, and it leaves the host no ask.
THEOREM EveryCallIsDecided == Spec => []AlwaysDecides
<1> DEFINE Inv == snapshot \in Documents /\ AlwaysDecides
<1>1. Init => Inv
  BY DEF Init, AlwaysDecides
<1>2. Inv /\ [Next]_vars => Inv'
  <2> SUFFICES ASSUME Inv, [Next]_vars PROVE Inv'
    OBVIOUS
  <2>1. CASE Tick
    BY <2>1 DEF Tick, AlwaysDecides
  <2>2. CASE Handle
    <3>1. PICK call \in HostCalls, base \in BaseVerdicts, limits \in Limits :
            verdict' = Admit(base, Evaluate(snapshot, call, now), limits)
      BY <2>2 DEF Handle
    <3>2. Evaluate(snapshot, call, now).decision \in {"allow", "deny"}
      BY EvaluateDecides, DocumentsAssumption
    <3>3. verdict'.decision \in {"allow", "deny"}
      BY <3>1, <3>2, AdmitDecides, VerdictsAssumption
    <3> QED
      BY <2>2, <3>3 DEF Handle, AlwaysDecides
  <2>3. CASE Exit
    BY <2>3 DEF Exit, AlwaysDecides
  <2>4. CASE UNCHANGED vars
    BY <2>4 DEF vars, AlwaysDecides
  <2> QED
    BY <2>1, <2>2, <2>3, <2>4 DEF Next
<1> QED
  BY <1>1, <1>2, PTL DEF Spec

-----------------------------------------------------------------------------
(* Who is allowed *)

\* When the evaluation allows a call, and with which level and approval.
LEMMA EvaluateAllows ==
  ASSUME NEW doc, IsDocument(doc), NEW call, NEW t
  PROVE  LET b == Binding(doc, call)
             d == call.delegation
             g == Find(doc.grants, d.grant)
             e == Evaluate(doc, call, t)
         IN /\ e.decision = "allow" <=>
                 /\ Attested(doc, call, t) /\ BindingHolds(b, call)
                 /\ GrantHolds(g, b, t) /\ RulesHold(doc, g, b)
                 /\ d.approval = None => ~g.approvalRequired
                 /\ d.approval # None =>
                      ApprovalHolds(doc, Find(doc.approvals, d.approval), g, b, t)
            /\ e.decision = "allow" => e.level = b.level /\ e.approval = d.approval
<1> DEFINE b == Binding(doc, call)
           d == call.delegation
           g == Find(doc.grants, d.grant)
<1>1. CASE ~Attested(doc, call, t)
  BY <1>1 DEF Evaluate, Denied
<1>2. CASE Attested(doc, call, t) /\ ~BindingHolds(b, call)
  BY <1>2 DEF Evaluate, Denied
<1>3. CASE /\ Attested(doc, call, t) /\ BindingHolds(b, call)
           /\ ~GrantHolds(g, b, t) \/ ~RulesHold(doc, g, b)
  BY <1>3, RowsAreFound DEF Evaluate, Denied
<1>4. CASE /\ Attested(doc, call, t) /\ BindingHolds(b, call)
           /\ GrantHolds(g, b, t) /\ RulesHold(doc, g, b)
  BY <1>4, RowsAreFound DEF Evaluate, Denied, Allowed
<1> QED
  BY <1>1, <1>2, <1>3, <1>4

\* When the admission lets an evaluation stand, and what level it then records.
LEMMA AdmitAllows ==
  ASSUME NEW base \in [decision : {"allow", "ask", "deny"}, level : Level],
         NEW limits \in [ceiling : Level, l4NeedsApproval : BOOLEAN],
         NEW e, e.decision \in {"allow", "deny"},
         e.decision = "allow" => e.level \in Level
  PROVE  /\ Admit(base, e, limits).decision = "allow" <=>
              /\ e.decision = "allow"
              /\ base.level <= e.level /\ e.level <= limits.ceiling
              /\ e.level = 4 /\ limits.l4NeedsApproval => e.approval # None
              /\ \/ base.decision = "allow"
                 \/ base.decision = "ask" /\ e.approval # None
         /\ Admit(base, e, limits).decision = "allow" =>
              Admit(base, e, limits).level = e.level
<1> DEFINE limited == Limited(base, e, limits)
           resolved == Resolve(base, limited)
           composed == Compose(resolved, limited)
           final == IF composed.decision = "ask"
                      THEN [composed EXCEPT !.decision = "deny"] ELSE composed
           Stands == /\ e.decision = "allow"
                     /\ base.level <= e.level /\ e.level <= limits.ceiling
                     /\ e.level = 4 /\ limits.l4NeedsApproval => e.approval # None
<1>1. Admit(base, e, limits) = Raised(final, limited.level)
  BY DEF Admit
<1>2. Raised(final, limited.level).decision = final.decision
  BY DEF Raised, Compose
<1>3. CASE ~Stands
  <2>1. limited.decision = "deny"
    BY <1>3 DEF Limited, Denied, Level
  <2>2. composed.decision = "deny"
    BY <2>1 DEF Compose, Strictest
  <2> QED
    BY <1>1, <1>2, <1>3, <2>2
<1>4. CASE Stands
  <2>1. limited = e
    BY <1>4 DEF Limited, Level
  <2>2. resolved.level = base.level
    BY <2>1 DEF Resolve
  <2>3. resolved.decision = "allow" <=>
          base.decision = "allow" \/ (base.decision = "ask" /\ e.approval # None)
    BY <1>4, <2>1 DEF Resolve
  <2>4. resolved.decision \in {"allow", "deny"}
    BY <1>4, <2>1 DEF Resolve
  <2>5. /\ final.decision = resolved.decision
        /\ resolved.decision = "allow" => final.level = base.level
    BY <1>4, <2>1, <2>2, <2>4 DEF Compose, Strictest
  <2>6. resolved.decision = "allow" => Raised(final, limited.level).level = e.level
    <3> SUFFICES ASSUME resolved.decision = "allow"
                 PROVE  Raised(final, limited.level).level = e.level
      OBVIOUS
    <3>1. final.level = base.level /\ limited.level = e.level
      BY <2>1, <2>5
    <3>2. CASE base.level < e.level
      BY <3>1, <3>2 DEF Raised, Compose
    <3>3. CASE ~(base.level < e.level)
      BY <1>4, <3>1, <3>3 DEF Raised, Level
    <3> QED
      BY <3>2, <3>3
  <2> QED
    BY <1>1, <1>2, <1>4, <2>3, <2>5, <2>6
<1> QED
  BY <1>3, <1>4

\* What the decision says of the rows that were looked up.
Stands(doc, call, t, base, limits) ==
  LET b == Binding(doc, call)
      d == call.delegation
      g == Find(doc.grants, d.grant)
  IN /\ Attested(doc, call, t) /\ BindingHolds(b, call)
     /\ GrantHolds(g, b, t) /\ RulesHold(doc, g, b)
     /\ d.approval = None => ~g.approvalRequired
     /\ d.approval # None =>
          ApprovalHolds(doc, Find(doc.approvals, d.approval), g, b, t)
     /\ base.level <= b.level /\ b.level <= limits.ceiling
     /\ b.level = 4 /\ limits.l4NeedsApproval => d.approval # None
     /\ \/ base.decision = "allow"
        \/ base.decision = "ask" /\ d.approval # None

\* The rows that were looked up are rows that authorise the call.
LEMMA StandsAuthorised ==
  ASSUME NEW doc, IsDocument(doc), NEW call, NEW t \in Nat,
         NEW base \in [decision : {"allow", "ask", "deny"}, level : Level],
         NEW limits \in [ceiling : Level, l4NeedsApproval : BOOLEAN],
         Stands(doc, call, t, base, limits)
  PROVE  Authorised(doc, call, t, base, limits)
<1> DEFINE d == call.delegation
<1>1. /\ Attested(doc, call, t) /\ Valid(doc)
      /\ call.event = "PreToolUse" /\ d # None /\ call.agent \in {None, d.agent}
  BY DEF Stands, Attested
<1>2. PICK bi \in DOMAIN doc.invocations :
        /\ Matches(doc.invocations[bi], call)
        /\ Binding(doc, call) = doc.invocations[bi]
  BY <1>1, AttestedBinding
<1> DEFINE b == doc.invocations[bi]
<1>3. BindingHolds(b, call) /\ b.delegation = d /\ b.level \in Level
  BY <1>2 DEF Stands, BindingHolds, IsDocument
<1>4. PICK gi \in DOMAIN doc.grants, ci \in DOMAIN doc.capabilities,
           si \in DOMAIN doc.services, oi \in DOMAIN doc.organisations :
        LET g == doc.grants[gi]
        IN /\ g.id = d.grant /\ Find(doc.grants, d.grant) = g
           /\ GrantValid(doc, g)
           /\ doc.capabilities[ci].id = g.capability.id
           /\ doc.capabilities[ci].version = g.capability.version
           /\ Find(doc.capabilities, g.capability.id) = doc.capabilities[ci]
           /\ doc.services[si].id = g.service.id
           /\ doc.services[si].version = g.service.version
           /\ Find(doc.services, g.service.id) = doc.services[si]
           /\ doc.organisations[oi].id = g.organisationPolicy.id
           /\ doc.organisations[oi].version = g.organisationPolicy.version
           /\ Find(doc.organisations, g.organisationPolicy.id) = doc.organisations[oi]
  BY <1>1, <1>3, GrantResolved
<1> DEFINE g == doc.grants[gi]
           c == doc.capabilities[ci]
           s == doc.services[si]
           o == doc.organisations[oi]
<1>5. GrantHolds(g, b, t) /\ RulesHold(doc, g, b)
  BY <1>2, <1>4 DEF Stands
<1>6. /\ CapabilityHolds(c, g, b)
      /\ PolicyHolds(s, d.scope.service, g) /\ PolicyHolds(o, d.organisation, g)
  BY <1>3, <1>4, <1>5 DEF RulesHold
<1>7. /\ {b.claim, g.claim, c.claim, s.claim, o.claim} = {"verified"}
      /\ {g.scope, c.scope, s.scope, o.scope} = {d.scope}
      /\ g.subject = d.subject /\ g.agent = d.agent
      /\ {g.organisation, o.owner} = {d.organisation}
      /\ s.owner = d.scope.service
      /\ {s.decision, o.decision} = {"allow"}
  BY <1>3, <1>5, <1>6 DEF BindingHolds, GrantHolds, CapabilityHolds, PolicyHolds
<1>8. /\ b.session = call.session /\ b.toolUse = call.toolUse
      /\ b.tool = call.tool /\ b.digest = call.digest /\ b.delegation = d
      /\ b.tool \in Delegable
  BY <1>2, <1>3 DEF Matches, BindingHolds
<1>9. /\ \A l \in {base.level, Floor(b.tool)} : l <= b.level
      /\ \A l \in {g.maxLevel, c.maxLevel, limits.ceiling} : b.level <= l
  BY <1>2, <1>3, <1>5, <1>6 DEF Stands, BindingHolds, GrantHolds, CapabilityHolds
<1>10. Agree(b, g, c, s, o, call, base, limits)
  BY <1>4, <1>7, <1>8, <1>9 DEF Agree
<1>11. CASE d.approval = None
  <2>1. /\ ~g.approvalRequired /\ base.decision = "allow"
        /\ b.level = 4 => ~limits.l4NeedsApproval
    BY <1>2, <1>4, <1>11 DEF Stands
  <2>2. g.from <= t /\ t < g.until
    BY <1>5 DEF GrantHolds, InWindow
  <2>3. Unapproved(b, g, d, t, base, limits)
    BY <1>11, <2>1, <2>2 DEF Unapproved
  <2> QED
    BY <1>1, <1>10, <2>3 DEF Authorised
<1>12. CASE d.approval # None
  <2>1. PICK ai \in DOMAIN doc.approvals :
          /\ doc.approvals[ai].id = d.approval
          /\ Find(doc.approvals, d.approval) = doc.approvals[ai]
    BY <1>1, <1>3, <1>12, ApprovalResolved
  <2>2. ApprovalHolds(doc, doc.approvals[ai], g, b, t)
    BY <1>2, <1>4, <1>12, <2>1 DEF Stands
  <2>3. base.decision \in {"allow", "ask"}
    BY DEF Stands
  <2>4. Approved(b, doc.approvals[ai], d, t, base)
    BY <2>1, <2>2, <2>3 DEF Approved, ApprovalHolds, InWindow
  <2> QED
    BY <1>1, <1>10, <2>4 DEF Authorised
<1> QED
  BY <1>11, <1>12

\* Rows that authorise a call are the rows the lookups find.
LEMMA AuthorisedStands ==
  ASSUME NEW doc, IsDocument(doc), NEW call, NEW t \in Nat,
         NEW base \in [decision : {"allow", "ask", "deny"}, level : Level],
         NEW limits \in [ceiling : Level, l4NeedsApproval : BOOLEAN],
         Authorised(doc, call, t, base, limits)
  PROVE  Stands(doc, call, t, base, limits)
<1> DEFINE d == call.delegation
<1>1. /\ Valid(doc) /\ UniqueIds(doc) /\ UniqueCalls(doc)
      /\ call.event = "PreToolUse" /\ d # None /\ call.agent \in {None, d.agent}
  BY DEF Authorised, Valid
<1>2. PICK bi \in DOMAIN doc.invocations, gi \in DOMAIN doc.grants,
           ci \in DOMAIN doc.capabilities, si \in DOMAIN doc.services,
           oi \in DOMAIN doc.organisations :
        /\ Agree(doc.invocations[bi], doc.grants[gi], doc.capabilities[ci],
                 doc.services[si], doc.organisations[oi], call, base, limits)
        /\ \/ Unapproved(doc.invocations[bi], doc.grants[gi], d, t, base, limits)
           \/ \E ai \in DOMAIN doc.approvals :
                Approved(doc.invocations[bi], doc.approvals[ai], d, t, base)
  BY DEF Authorised
<1> DEFINE b == doc.invocations[bi]
           g == doc.grants[gi]
           c == doc.capabilities[ci]
           s == doc.services[si]
           o == doc.organisations[oi]
<1>3. Matches(b, call) /\ Binding(doc, call) = b
  BY <1>1, <1>2, BindingRow DEF Matches, Agree
<1>4. /\ Find(doc.grants, d.grant) = g
      /\ Find(doc.capabilities, g.capability.id) = c
      /\ Find(doc.services, g.service.id) = s
      /\ Find(doc.organisations, g.organisationPolicy.id) = o
  BY <1>1, <1>2, FindRow DEF Kinds, Agree
<1>5. /\ b.claim = "verified" /\ g.claim = "verified" /\ c.claim = "verified"
      /\ s.claim = "verified" /\ o.claim = "verified"
      /\ g.scope = d.scope /\ c.scope = d.scope /\ s.scope = d.scope /\ o.scope = d.scope
      /\ g.organisation = d.organisation /\ o.owner = d.organisation
      /\ s.decision = "allow" /\ o.decision = "allow"
  <2>1. {b.claim, g.claim, c.claim, s.claim, o.claim} = {"verified"}
    BY <1>2 DEF Agree
  <2>2. {g.scope, c.scope, s.scope, o.scope} = {d.scope}
    BY <1>2 DEF Agree
  <2>3. {g.organisation, o.owner} = {d.organisation} /\ {s.decision, o.decision} = {"allow"}
    BY <1>2 DEF Agree
  <2> QED
    BY <2>1, <2>2, <2>3
<1>6. BindingHolds(b, call)
  BY <1>2, <1>5 DEF BindingHolds, Agree
<1>7. RulesHold(doc, g, b)
  BY <1>2, <1>4, <1>5 DEF RulesHold, CapabilityHolds, PolicyHolds, Agree
<1>8. /\ Within(g, doc) /\ doc.from \in Nat /\ doc.until \in Nat
      /\ g.from \in Nat /\ g.until \in Nat
  BY <1>1 DEF Valid, GrantValid, IsDocument
<1>9. /\ base.level <= b.level /\ b.level <= limits.ceiling /\ b.level <= g.maxLevel
  BY <1>2 DEF Agree
<1>10. CASE Unapproved(b, g, d, t, base, limits)
  <2>1. InWindow(g, t) /\ InWindow(doc, t)
    BY <1>8, <1>10 DEF Within, InWindow, Unapproved
  <2>2. Attested(doc, call, t)
    BY <1>1, <1>3, <2>1 DEF Attested
  <2>3. GrantHolds(g, b, t)
    BY <1>2, <1>5, <1>9, <2>1 DEF GrantHolds, Agree
  <2> QED
    BY <1>3, <1>4, <1>6, <1>7, <1>9, <1>10, <2>2, <2>3 DEF Stands, Unapproved
<1>11. ASSUME NEW ai \in DOMAIN doc.approvals, Approved(b, doc.approvals[ai], d, t, base)
       PROVE  Stands(doc, call, t, base, limits)
  <2> DEFINE a == doc.approvals[ai]
  <2>1. /\ d.approval # None /\ a.from \in Nat /\ a.until \in Nat
    BY <1>11 DEF IsDocument, Approved
  <2>2. Find(doc.approvals, d.approval) = a
    BY <1>1, <1>11, FindRow DEF Kinds, Approved
  <2>3. /\ a.grant = d.grant /\ a.digest = b.digest
        /\ a.snapshot = doc.id /\ a.snapshotVersion = doc.version
        /\ Within(a, doc) /\ Within(a, g)
    <3>1. b.delegation = d
      BY <1>2 DEF Agree
    <3>2. \E i \in DOMAIN doc.approvals :
            LET r == doc.approvals[i]
            IN /\ Find(doc.approvals, d.approval) = r
               /\ r.grant = d.grant /\ r.digest = b.digest
               /\ r.snapshot = doc.id /\ r.snapshotVersion = doc.version
               /\ Within(r, doc) /\ Within(r, Find(doc.grants, d.grant))
      BY <1>1, <2>1, <3>1, ApprovalResolved
    <3> HIDE DEF b, d, g
    <3>3. QED BY <1>4, <2>2, <3>2
  <2>4. InWindow(g, t) /\ InWindow(doc, t) /\ InWindow(a, t)
    BY <1>8, <1>11, <2>1, <2>3 DEF Within, InWindow, Approved
  <2>5. Attested(doc, call, t)
    BY <1>1, <1>3, <2>4 DEF Attested
  <2>6. GrantHolds(g, b, t)
    BY <1>2, <1>5, <1>9, <2>4 DEF GrantHolds, Agree
  <2>7. ApprovalHolds(doc, a, g, b, t)
    BY <1>2, <1>4, <1>11, <2>3, <2>4 DEF ApprovalHolds, Approved, Agree
  <2> QED
    BY <1>3, <1>4, <1>6, <1>7, <1>9, <1>11, <2>1, <2>2, <2>5, <2>6, <2>7 DEF Stands, Approved
<1> QED
  BY <1>2, <1>10, <1>11

\* One admission: the ordered evaluation with its lookups, limits and composition
\* allows what the declarative rules authorise, and records a level that covers it.
LEMMA AdmissionAgrees ==
  ASSUME NEW doc, IsDocument(doc), NEW call, NEW t \in Nat,
         NEW base \in [decision : {"allow", "ask", "deny"}, level : Level],
         NEW limits \in [ceiling : Level, l4NeedsApproval : BOOLEAN]
  PROVE  LET v == Admit(base, Evaluate(doc, call, t), limits)
         IN /\ v.decision = "allow" <=> Authorised(doc, call, t, base, limits)
            /\ v.decision = "allow" =>
                 v.level >= base.level /\ v.level >= Floor(call.tool)
<1> DEFINE e == Evaluate(doc, call, t)
           v == Admit(base, e, limits)
           b == Binding(doc, call)
<1>1. e.decision \in {"allow", "deny"}
  BY EvaluateDecides
<1>2. e.decision = "allow" => e.level = b.level /\ e.approval = call.delegation.approval
  BY EvaluateAllows
<1>3. e.decision = "allow" => b.level \in Level /\ BindingHolds(b, call)
  <2> SUFFICES ASSUME e.decision = "allow" PROVE b.level \in Level /\ BindingHolds(b, call)
    OBVIOUS
  <2>1. Attested(doc, call, t) /\ BindingHolds(b, call)
    BY EvaluateAllows
  <2> QED
    BY <2>1, AttestedBinding DEF IsDocument
<1>4. /\ v.decision = "allow" <=>
           /\ e.decision = "allow"
           /\ base.level <= e.level /\ e.level <= limits.ceiling
           /\ e.level = 4 /\ limits.l4NeedsApproval => e.approval # None
           /\ \/ base.decision = "allow"
              \/ base.decision = "ask" /\ e.approval # None
      /\ v.decision = "allow" => v.level = e.level
  BY <1>1, <1>2, <1>3, AdmitAllows
<1>5. v.decision = "allow" <=> Stands(doc, call, t, base, limits)
  BY <1>2, <1>4, EvaluateAllows DEF Stands
<1>6. v.decision = "allow" => v.level >= base.level /\ v.level >= Floor(call.tool)
  <2> SUFFICES ASSUME v.decision = "allow"
               PROVE  v.level >= base.level /\ v.level >= Floor(call.tool)
    OBVIOUS
  <2>1. v.level = b.level /\ b.level \in Level /\ base.level <= b.level
    BY <1>2, <1>3, <1>4
  <2>2. b.tool = call.tool /\ b.tool \in Delegable /\ Floor(b.tool) <= b.level
    BY <1>3, <1>4 DEF BindingHolds
  <2>3. Floor(call.tool) \in Nat
    BY <2>2 DEF Delegable, Floor
  <2> QED
    BY <2>1, <2>2, <2>3 DEF Level
<1> QED
  BY <1>5, <1>6, StandsAuthorised, AuthorisedStands

\* For every set of documents, calls, base verdicts and limits, a hook process
\* allows a call exactly if it is authorised.
THEOREM AllowedExactlyIfAuthorised == Spec => []AllowedIffAuthorised
<1> DEFINE Inv == snapshot \in Documents /\ now \in Nat /\ AllowedIffAuthorised
<1>1. Init => Inv
  BY DEF Init, AllowedIffAuthorised
<1>2. Inv /\ [Next]_vars => Inv'
  <2> SUFFICES ASSUME Inv, [Next]_vars PROVE Inv'
    OBVIOUS
  <2>1. CASE Tick
    BY <2>1 DEF Tick, AllowedIffAuthorised
  <2>2. CASE Handle
    <3>1. PICK call \in HostCalls, base \in BaseVerdicts, limits \in Limits :
            /\ asked' = [call |-> call, base |-> base, limits |-> limits]
            /\ verdict' = Admit(base, Evaluate(snapshot, call, now), limits)
            /\ UNCHANGED <<snapshot, now>>
      BY <2>2 DEF Handle
    <3>2. /\ verdict'.decision = "allow" <=> Authorised(snapshot, call, now, base, limits)
          /\ verdict'.decision = "allow" =>
               verdict'.level >= base.level /\ verdict'.level >= Floor(call.tool)
      BY <3>1, AdmissionAgrees, DocumentsAssumption, VerdictsAssumption, LimitsAssumption
    <3>3. /\ asked'.call = call /\ asked'.base = base /\ asked'.limits = limits
          /\ snapshot' = snapshot /\ now' = now
      BY <3>1
    <3> QED
      BY <3>2, <3>3 DEF AllowedIffAuthorised
  <2>3. CASE Exit
    BY <2>3 DEF Exit, AllowedIffAuthorised
  <2>4. CASE UNCHANGED vars
    BY <2>4 DEF vars, AllowedIffAuthorised
  <2> QED
    BY <2>1, <2>2, <2>3, <2>4 DEF Next
<1> QED
  BY <1>1, <1>2, PTL DEF Spec

\* For every set of documents and calls, one approval serves one host call.
THEOREM ApprovalsNameOneCall == Spec => []ApprovalNamesOneCall
<1>1. ASSUME NEW doc, IsDocument(doc), NEW t, NEW c, NEW d,
             Evaluate(doc, c, t).decision = "allow",
             Evaluate(doc, d, t).decision = "allow",
             c.delegation.approval # None,
             c.delegation.approval = d.delegation.approval
      PROVE  /\ c.session = d.session /\ c.toolUse = d.toolUse
             /\ c.tool = d.tool /\ c.digest = d.digest
  <2> DEFINE a == Find(doc.approvals, c.delegation.approval)
  <2>1. /\ Attested(doc, c, t) /\ BindingHolds(Binding(doc, c), c)
        /\ Attested(doc, d, t) /\ BindingHolds(Binding(doc, d), d)
    BY <1>1, EvaluateAllows
  <2>2. a.invocation = Binding(doc, c).id /\ a.invocation = Binding(doc, d).id
    BY <1>1, EvaluateAllows DEF ApprovalHolds
  <2>3. PICK i \in DOMAIN doc.invocations, j \in DOMAIN doc.invocations :
          /\ Matches(doc.invocations[i], c) /\ Binding(doc, c) = doc.invocations[i]
          /\ Matches(doc.invocations[j], d) /\ Binding(doc, d) = doc.invocations[j]
    BY <2>1, AttestedBinding
  <2>4. UniqueIds(doc)
    BY <2>1 DEF Attested, Valid
  <2>5. doc.invocations[i].id = doc.invocations[j].id
    BY <2>2, <2>3
  <2>6. i = j
    <3>1. "invocations" \in Kinds
      BY DEF Kinds
    <3>2. \A x, y \in DOMAIN doc["invocations"] :
            doc["invocations"][x].id = doc["invocations"][y].id => x = y
      BY <2>4, <3>1 DEF UniqueIds
    <3> QED
      BY <2>5, <3>2
  <2> QED
    BY <2>1, <2>3, <2>6 DEF Matches, BindingHolds
<1>2. snapshot \in Documents => ApprovalNamesOneCall
  BY <1>1, DocumentsAssumption DEF ApprovalNamesOneCall
<1>3. Init => snapshot \in Documents
  BY DEF Init
<1>4. snapshot \in Documents /\ [Next]_vars => (snapshot \in Documents)'
  BY DEF Next, Tick, Handle, Exit, vars
<1> QED
  BY <1>2, <1>3, <1>4, PTL DEF Spec
=============================================================================
