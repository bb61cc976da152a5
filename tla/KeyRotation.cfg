\* Two writers, an installer, three keys: two generations, one of them of any end.
CONSTANTS
  w1 = w1
  w2 = w2
  k1 = k1
  k2 = k2
  k3 = k3
  Writer = {w1, w2}
  NoWriter = NoWriter
  Installer = {"init1"}
  Key = {k1, k2, k3}
  NoKey = NoKey
  BadKey = BadKey
  Mode <- AllModes
  Fault <- NoFault
  MaxAppends = 2
  GeneratorDies = TRUE
  MaxGenerations = 2
SYMMETRY KeySymmetry
SPECIFICATION KeySpec
INVARIANTS
  KeyTypeOK
  SignedRowsRecoverable
  GenerationRepairs
  ExistingLedgerUnharmed
