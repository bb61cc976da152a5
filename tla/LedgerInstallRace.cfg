\* An installer and a first append in a fresh repository.
CONSTANTS
  w1 = w1
  w2 = w2
  w3 = w3
  k1 = k1
  Writer = {w1, w2}
  NoWriter = NoWriter
  Installer = {"init1"}
  Key = {k1}
  NoKey = NoKey
  BadKey = BadKey
  Mode <- UnsignedModes
  Fault <- NoFault
  MaxAppends = 2
SPECIFICATION Spec
INVARIANT AckedRowsSurvive
