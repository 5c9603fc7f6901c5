CONSTANTS
  Server = {s1, s2, s3}
  Old = s1
  New = s2
  Command = {1, 2, 3, 4, 5}
  NoOp = NoOp
  Nil = Nil
  SnapshotThreshold = 3
  Slot = {1, 2}
  SaveMayFail = FALSE
  MaxElections = 0
  MaxHeartbeats = 1
  MaxProposals = 2
  MaxErrors = 1
  MaxRestarts = 1
VIEW View
SPECIFICATION HandoverSpec
CHECK_DEADLOCK FALSE
INVARIANTS CommittedOnMajority AppliedFromLog
PROPERTY AppliedOnlyGrows
