\* A document, every one two amendments away, every time: who is allowed, and why.
CONSTANTS
  None = None
  Documents <- SomeDocuments
  HostCalls <- SomeCalls
  BaseVerdicts <- SomeVerdicts
  Limits <- SomeLimits
  MaxTime = 2
SPECIFICATION Spec
INVARIANTS
  AlwaysDecides
  AllowedIffAuthorised
  ApprovalNamesOneCall
