\* Two CLI processes, three emissions, every fault.
CONSTANTS
  p1 = p1
  p2 = p2
  p3 = p3
  Proc = {p1, p2}
  NoProc = NoProc
  Operation = {"audit-verify"}
  Fault <- AllFaults
  MaxEmissions = 3
  MaxClock = 2
SPECIFICATION FairSpec
INVARIANTS
  TypeOK
  ChainUnlessRobbed
  ReceiptHasRow
  SuccessKeepsReceipt
PROPERTY EmissionEnds
