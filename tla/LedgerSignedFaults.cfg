\* Signed appends only: crashes, failing writes and operator recovery.
CONSTANTS
  w1 = w1
  w2 = w2
  w3 = w3
  k1 = k1
  Writer = {w1, w2}
  NoWriter = NoWriter
  Installer = {}
  Key = {k1}
  NoKey = NoKey
  BadKey = BadKey
  Mode <- SignedOnly
  Fault <- AllFaults
  MaxAppends = 4
SPECIFICATION FairSpec
INVARIANTS
  TypeOK
  LockExclusive
  OnlyTailDamaged
PROPERTIES
  ImplementsLog
  AppendEnds
  TerminatedLinesImmutable
