\* Two hook processes, two calls, every fault, every
\* configuration of the authority source, the operator replacing the snapshot.
CONSTANTS
  p1 = p1
  p2 = p2
  i1 = i1
  i2 = i2
  a1 = a1
  s1 = s1
  s2 = s2
  Proc = {p1, p2}
  Invocation = {i1, i2}
  Approval = {a1}
  NoApproval = NoApproval
  Snapshot = {s1, s2}
  NoSnapshot = NoSnapshot
  Grants <- SomeGrants
  Base <- SomeBase
  MaxLevel = 4
  L4NeedsApproval = TRUE
  Config <- AnyConfig
  Fault <- AllFaults
  MaxCalls = 2
SYMMETRY ProcSymmetry
SPECIFICATION Spec
INVARIANTS
  TypeOK
  GrantOnce
  AllowReconstructable
  AllowAudited
PROPERTY ImplementsSingleUse
