CONSTANTS
  Server = {s1, s2, s3}
  Command = {x}
  NoOp = NoOp
  Nil = Nil
  SnapshotThreshold = 1
  Slot = {1, 2}
  SaveMayFail = FALSE
  MaxElections = 1
  MaxHeartbeats = 1
  MaxProposals = 2
  MaxErrors = 1
  MaxRestarts = 1
SYMMETRY Symmetry
VIEW View
SPECIFICATION MCSpec
CHECK_DEADLOCK FALSE
INVARIANT CommittedOnMajority
