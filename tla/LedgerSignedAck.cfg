\* Signed appends after an append that died between row and newline.
CONSTANTS
  w1 = w1
  w2 = w2
  w3 = w3
  k1 = k1
  Writer = {w1, w2}
  NoWriter = NoWriter
  Installer = {}
  Key = {k1}
  NoKey = NoKey
  BadKey = BadKey
  Mode <- SignedOnly
  Fault <- AllFaults
  MaxAppends = 3
SPECIFICATION Spec
INVARIANT AckedRowsSurvive
