CONSTANTS
  Server = {s1, s2, s3}
  Command = {x}
  NoOp = NoOp
  Nil = Nil
  SnapshotThreshold = 0
  Slot = {1, 2}
  SaveMayFail = FALSE
  MaxElections = 1
  MaxHeartbeats = 0
  MaxProposals = 1
  MaxErrors = 0
  MaxRestarts = 1
SYMMETRY Symmetry
VIEW KVView
SPECIFICATION MCKVSpec
INVARIANT AckedByLeaderOnMajority
CHECK_DEADLOCK FALSE
