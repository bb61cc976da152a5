\* Two sessions, two hook processes, four calls, one mishap of any kind.
CONSTANTS
  p1 = p1
  p2 = p2
  s1 = s1
  s2 = s2
  Proc = {p1, p2}
  Session = {s1, s2}
  ToolCall <- SomeToolCalls
  Sinks <- OneSink
  Delegated = FALSE
  Fault <- AllFaults
  MaxCalls = 4
  MaxMishaps = 1
SYMMETRY HookSymmetry
SPECIFICATION Spec
INVARIANTS
  AnswersAudited
  DerivedHasRow
  NoBlockLoop
PROPERTY ImplementsStopGate
