CONSTANTS
  Server = {s1, s2, s3}
  Command = {x}
  NoOp = NoOp
  Nil = Nil
  SnapshotThreshold = 0
  Slot = {1, 2}
  SaveMayFail = FALSE
  MaxElections = 2
  MaxHeartbeats = 0
  MaxProposals = 1
  MaxErrors = 0
  MaxRestarts = 0
SYMMETRY Symmetry
VIEW View
SPECIFICATION MCSpec
CHECK_DEADLOCK FALSE
INVARIANTS TypeOK LogMatching LeaderCompleteness StateMachineSafety CommitWithinRequest
PROPERTY LeaderAppendOnly
