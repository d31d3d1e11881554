SPECIFICATION Spec
CONSTANTS
  Slots = {"s1", "s2"}
  Codes = {"c1"}
  Nodes = {"n1", "n2"}
  MaxCredentials = 2
  MaxLapses = 1
  MaxFaults = 1
  MaxCommands = 4
  Tasks = {"t1", "t2"}
  Users = {"u1", "u2"}
  Stores = {"redis", "file"}
  Keys = {"k1", "k2"}
  MaxTasks = 3
  Scope <- MCScope
  Subjects = {"accounts", "nodes", "machine", "commands"}
INVARIANTS TypeOK CodePairsOnce CleanExit AccountsKept
PROPERTIES RevocationHolds RevokedAgentStops
CHECK_DEADLOCK FALSE
