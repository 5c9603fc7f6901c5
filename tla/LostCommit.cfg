CONSTANTS
  Server = {s1, s2, s3}
  Elected = s1
  Slow = s2
  Command = {x}
  NoOp = NoOp
  Nil = Nil
  SnapshotThreshold = 1
  Slot = {1, 2}
  SaveMayFail = FALSE
  MaxElections = 0
  MaxHeartbeats = 0
  MaxProposals = 1
  MaxErrors = 0
  MaxRestarts = 0
SPECIFICATION ReelectedSpec
CHECK_DEADLOCK FALSE
INVARIANT CommittedOnMajority
