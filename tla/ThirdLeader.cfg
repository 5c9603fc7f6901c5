CONSTANTS
  Server = {s1, s2, s3}
  Old = s1
  New = s2
  Command = {1, 2, 3, 4}
  NoOp = NoOp
  Nil = Nil
  SnapshotThreshold = 3
  Slot = {1, 2}
  SaveMayFail = FALSE
  MaxElections = 1
  MaxHeartbeats = 0
  MaxProposals = 1
  MaxErrors = 0
  MaxRestarts = 1
VIEW View
SPECIFICATION HandoverSpec
CHECK_DEADLOCK FALSE
INVARIANTS LeaderCompleteness StateMachineSafety AppliedFromLog
