SPECIFICATION Spec
CONSTANTS
  Clients = {c1, c2}
  Roles = {"none", "reviewer", "publisher", "deployer"}
  Scopes = {TRUE, FALSE}
  MaxHistory = 9
INVARIANTS
  HistoryIsAChain
  GatesPassed
PROPERTY NotesKept
SYMMETRY ClientSymmetry
CHECK_DEADLOCK FALSE
