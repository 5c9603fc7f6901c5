CONSTANTS
  Server = {s1, s2, s3}
  Command = {x}
  NoOp = NoOp
  Nil = Nil
  SnapshotThreshold = 0
  Slot = {1, 2}
  SaveMayFail = TRUE
  MaxElections = 1
  MaxHeartbeats = 0
  MaxProposals = 0
  MaxErrors = 0
  MaxRestarts = 0
SYMMETRY Symmetry
VIEW View
SPECIFICATION MCSpec
CHECK_DEADLOCK FALSE
INVARIANT AcknowledgedOnDisk
