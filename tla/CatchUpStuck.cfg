\* A follower that has compacted further than its leader, and whose answer to
\* the append was lost, is never caught up again.
CONSTANTS
  Server = {s1, s2, s3}
  Elected = s1
  Reachable = {s2}
  Command = {x}
  NoOp = NoOp
  Nil = Nil
  SnapshotThreshold = 2
  Slot = {1}
  SaveMayFail = FALSE
  MaxProposals = 3
  MaxErrors = 1
SPECIFICATION RepSpec
PROPERTY FollowersCatchUp
