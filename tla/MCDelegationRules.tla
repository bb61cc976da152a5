-------------------------- MODULE MCDelegationRules --------------------------
(* A model-checking instance of DelegationRules: a document that is in order,   *)
(* every document two amendments away, and calls that fit it or almost do.      *)
EXTENDS DelegationRules, Sequences

Scope(service) == [service |-> service, what |-> "write"]

Delegation(grant, approval) ==
  [subject |-> "user", agent |-> "agent", organisation |-> "org",
   scope |-> Scope("ci"), grant |-> grant, approval |-> approval]

Countersigned == Delegation("g1", "a1")
Plain == Delegation("g1", None)

\* A command that needs the approval a1, and a network call that presents none.
Invocation(id, toolUse, tool, digest, level, delegation) ==
  [id |-> id, session |-> "s", toolUse |-> toolUse, tool |-> tool, digest |-> digest,
   delegation |-> delegation, level |-> level, claim |-> "verified"]

Ref(id, version) == [id |-> id, version |-> version]

Policy(id, owner) ==
  [id |-> id, version |-> 1, owner |-> owner, scope |-> Scope("ci"),
   decision |-> "allow", claim |-> "verified"]

Draft ==
  [id |-> "snap", version |-> 1, from |-> 0, until |-> 2,
   invocations |-> <<Invocation("i1", "t1", "Bash", "d1", 3, Countersigned),
                     Invocation("i2", "t2", "WebFetch", "d2", 4, Plain)>>,
   grants |-> <<[id |-> "g1", version |-> 1, subject |-> "user", agent |-> "agent",
                 organisation |-> "org", scope |-> Scope("ci"),
                 capability |-> Ref("c1", 1), service |-> Ref("p1", 1),
                 organisationPolicy |-> Ref("o1", 1), from |-> 0, until |-> 2,
                 maxLevel |-> 4, approvalRequired |-> FALSE, claim |-> "verified"]>>,
   capabilities |-> <<[id |-> "c1", version |-> 1, scope |-> Scope("ci"),
                       maxLevel |-> 4, claim |-> "verified"]>>,
   services |-> <<Policy("p1", "ci")>>,
   organisations |-> <<Policy("o1", "org")>>,
   approvals |-> <<[id |-> "a1", invocation |-> "i1", grant |-> "g1",
                    snapshot |-> "snap", snapshotVersion |-> 1, digest |-> "d1",
                    from |-> 1, until |-> 2, claim |-> "verified"]>>]

Claims == {"verified", "asserted"}

SomeHead == [version |-> {0, 1, 2}, from |-> {1}, until |-> {0, 1}]

SomeRows ==
  [invocations |-> [id |-> {"i1", "i2", "g1"}, toolUse |-> {"t1", "t2"},
                    digest |-> {"d1", "d2"}, level |-> {2, 3, 4}, claim |-> Claims,
                    tool |-> {"Bash", "Task"},
                    delegation |-> {Countersigned, Plain, Delegation("g2", None),
                                    Delegation("g1", "a2")}],
   grants |-> [id |-> {"g1", "g2"}, subject |-> {"other"}, scope |-> {Scope("db")},
               capability |-> {Ref("c1", 2), Ref("c2", 1)}, service |-> {Ref("p1", 2)},
               organisationPolicy |-> {Ref("p1", 1)}, from |-> {1}, until |-> {1, 3},
               maxLevel |-> {3}, approvalRequired |-> {TRUE}, claim |-> Claims],
   capabilities |-> [id |-> {"c2", "snap"}, version |-> {0, 2}, scope |-> {Scope("db")},
                     maxLevel |-> {3}, claim |-> Claims],
   services |-> [id |-> {"p2"}, version |-> {2}, owner |-> {"db"},
                 decision |-> {"deny", "unknown"}, claim |-> Claims],
   organisations |-> [id |-> {"p1"}, version |-> {2}, owner |-> {"org2"},
                      decision |-> {"deny", "unknown"}, claim |-> Claims],
   approvals |-> [id |-> {"a1", "a2"}, invocation |-> {"i1", "i2"}, grant |-> {"g2"},
                  snapshotVersion |-> {2}, digest |-> {"d2"}, from |-> {0, 2},
                  until |-> {3}, claim |-> Claims]]

\* One field is changed, or one row is changed, dropped or copied.
HeadAmended(doc) ==
  UNION {{[doc EXCEPT ![f] = v] : v \in SomeHead[f]} : f \in DOMAIN SomeHead}

RowAmended(doc, k, i) ==
  UNION {{[doc EXCEPT ![k][i][f] = v] : v \in SomeRows[k][f]} : f \in DOMAIN SomeRows[k]}

Reordered(doc, k, i) ==
  {[doc EXCEPT ![k] = SubSeq(@, 1, i - 1) \o SubSeq(@, i + 1, Len(@))],
   [doc EXCEPT ![k] = Append(@, @[i])]}

Amended(doc) ==
  HeadAmended(doc) \cup
  UNION {UNION {RowAmended(doc, k, i) \cup Reordered(doc, k, i) : i \in DOMAIN doc[k]} :
           k \in Kinds}

SomeDocuments == UNION {Amended(doc) : doc \in Amended(Draft)}

HostCall(toolUse, tool, digest, delegation, agent) ==
  [event |-> "PreToolUse", session |-> "s", toolUse |-> toolUse, tool |-> tool,
   digest |-> digest, delegation |-> delegation, agent |-> agent]

SomeCalls ==
  {HostCall("t1", "Bash", "d1", Countersigned, None),
   HostCall("t2", "WebFetch", "d2", Plain, "agent"),
   HostCall("t2", "WebFetch", "d2", Countersigned, None),
   HostCall("t2", "WebFetch", "d2", Delegation("g2", None), None),
   HostCall("t3", "Bash", "d1", Countersigned, "agent"),
   HostCall("t1", "Bash", "d1", Countersigned, "other"),
   HostCall("t2", "WebFetch", "d2", None, None)}

\* evaluate_pre_tool allows at level 0 only.
SomeVerdicts ==
  {[decision |-> "allow", level |-> 0], [decision |-> "ask", level |-> 3],
   [decision |-> "deny", level |-> 3]}

SomeLimits == {[ceiling |-> 4, l4NeedsApproval |-> TRUE],
               [ceiling |-> 4, l4NeedsApproval |-> FALSE],
               [ceiling |-> 3, l4NeedsApproval |-> TRUE]}
=============================================================================
