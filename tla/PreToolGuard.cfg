\* Commands and paths through the cascade, and the gate next to the owners of its files.
SPECIFICATION Spec
CONSTANTS
  None = None
  Missing = Missing
  Partial = Partial
  Definitions = {d1, d2}
  Keys = {k1, k2}
  Words <- MCWords
  Paths <- MCPaths
  LowerCase <- MCLowerCase
  Tools <- MCTools
  Settings <- MCSettings
  Patterns <- MCPatterns
  MaxGlobbed = 3
INVARIANTS FirstIsStrictest PrefixNeverAllows NothingAddedWeakens GlobCorrect DetourKeepsGuarded CollapseKeepsPlace OnlyPinnedPasses
CHECK_DEADLOCK FALSE
