\* Messages to a server, in five scenes of the programs that run next to it.
SPECIFICATION Spec
CONSTANTS
  Ids = {1, 2}
  p1 = p1
  p2 = p2
  Proc = {p1, p2}
  Emptied = Emptied
  Elsewhere = Elsewhere
  Missing = Missing
  Partial = Partial
  MaxDeaths = 1
  Projects <- MCProjects
  MaxRows = 3
  Scenes <- MCScenes
  Numbers <- MCNumbers
  NoMessage = NoMessage
INVARIANTS AcceptedSound ListComplete StrictPassMeansSigned AuditAgrees ReceiptCovers
PROPERTY MessagesAnswered
CHECK_DEADLOCK FALSE
