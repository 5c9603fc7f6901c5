\* Followers catch up through AppendEntries and InstallSnapshot; a leader that
\* compacts after every command is never behind a follower.
CONSTANTS
  Server = {s1, s2, s3}
  Elected = s1
  Reachable = {s2, s3}
  Command = {x}
  NoOp = NoOp
  Nil = Nil
  SnapshotThreshold = 1
  Slot = {1}
  SaveMayFail = FALSE
  MaxProposals = 2
  MaxErrors = 1
SPECIFICATION RepSpec
PROPERTY FollowersCatchUp
