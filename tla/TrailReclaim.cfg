\* A crashed holder and two processes that find its lock stale.
CONSTANTS
  p1 = p1
  p2 = p2
  p3 = p3
  Proc = {p1, p2, p3}
  NoProc = NoProc
  Operation = {"audit-verify"}
  Fault <- CrashOnly
  MaxEmissions = 3
  MaxClock = 1
SPECIFICATION Spec
INVARIANT OneHolder
