CONSTANTS
  Server = {s1, s2, s3}
  Command = {x}
  NoOp = NoOp
  Nil = Nil
  SnapshotThreshold = 0
  Slot = {1, 2}
  SaveMayFail = FALSE
  MaxElections = 2
  MaxHeartbeats = 0
  MaxProposals = 0
  MaxErrors = 0
  MaxRestarts = 1
SYMMETRY Symmetry
SPECIFICATION MCSpec
CHECK_DEADLOCK FALSE
INVARIANTS ElectionSafety LeaderHintsAgree AcknowledgedOnDisk
PROPERTY VoteOnce
