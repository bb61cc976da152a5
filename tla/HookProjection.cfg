\* One call with the CloudEvents sink enabled, unsigned rows, no fault.
CONSTANTS
  p1 = p1
  p2 = p2
  s1 = s1
  s2 = s2
  Proc = {p1}
  Session = {s1}
  ToolCall <- OneToolCall
  Sinks <- OneSink
  Delegated = FALSE
  Fault <- NoFault
  MaxCalls = 3
  MaxMishaps = 0
SPECIFICATION Spec
INVARIANT ProjectionNamesRow
