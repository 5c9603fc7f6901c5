# Verification of raft-store

TLA+ models of the Raft key-value store in `src/`, the TLC runs that check them
on small clusters, and TLAPS proofs of their basic safety properties.
`PROJECT.json` maps every definition to the source lines it models and lists
runs, mutants, hazards, findings and theorems.

## The system

| Part | Source | What it does |
|---|---|---|
| Elections | `raft/election.go`, `raft/node.go` | one mutex per node; `tick` starts elections, one goroutine per vote request |
| Replication | `raft/log.go`, `raft/node.go` | at most one `replicateTo` goroutine per peer and flag, whole-suffix AppendEntries, commit by counting `matchIndex` |
| Snapshots | `raft/snapshot.go` | compaction after `SnapshotThreshold` applied entries, InstallSnapshot in one RPC |
| Persistence | `raft/persist.go` | `state.json`, written by every handler that changes term, vote, log or snapshot |
| Membership | `raft/membership.go` | single-server changes as log entries, effective when appended; joiners |
| Reads | `raft/read.go` | ReadIndex: confirm leadership with a majority, wait for the commit index |
| KV service | `kv/` | Put = Propose + WaitApplied, Get = ReadIndex + local map |
| Transport, faults | `raft/rpc.go`, `raft/grpc.go`, `raft/faults.go` | gRPC with timeouts, in-memory network, fault injection |
| Dev cluster, HTTP | `cluster/`, `cmd/` | in-process members, crash/restart/add/remove, forwarding of requests to the leader |
| Generated, bench | `proto/`, `cmd/bench` | protobuf code, load generator |

The interaction: a client's Put becomes a log entry on the leader; `replicateTo`
goroutines copy it; answers advance the commit index under the mutex; the
commit index travels with the next request; each node applies committed entries
to its map and now and then replaces its log by a snapshot.

## Modules

| Module | Models |
|---|---|
| `RaftNode` | the core: elections, replication, snapshots, crash and restart for a fixed set of members |
| `MCRaftNode` | `RaftNode` with budgets for timers, proposals, errors and crashes |
| `MCElected` | the state after the first election |
| `MCHandover` | the bounded cluster in the middle of a change of leaders, threshold 3 |
| `MCReelected` | the bounded cluster with a leader that has lost and won back its leadership |
| `MCReplication` | `RaftNode` under a stable leader, with fairness |
| `KVClient`, `MCKVClient` | Puts of clients on top of `RaftNode` |
| `RaftLogProofs` | lemmas about the log operators |
| `RaftTypeProofs` | type correctness |
| `RaftMemberProofs` | the members never change |
| `RaftVoteProofs` | what each step does to terms and votes |
| `RaftElectionProofs` | votes are kept, one leader per term |

### State

`state`, `currentTerm`, `votedFor`, `commitIndex`, `lastApplied`, `nextIndex`,
`matchIndex`, `replicating`, `votesReceived`, `leaderID` and `joining` are the
fields of `RaftNode` of the same names, as functions of the node. A map lookup
of a missing key is 0 or FALSE, as in Go.

`log[n]` is a record: `base` is `log[0]` with the snapshot and the members it
stands for (index, term, peers, data), `tail` the entries after it. `peerIDs`
is the operator `Peers`, since the code always rebuilds it from base and log.

`machine[n]` is the state machine: the sequence of ApplyMsgs it was given.
A snapshot's data is the same sequence, so losing, repeating or reordering a
command is visible even where the map would hide it.

`disk[n]` is what `state.json` holds.

`calls` holds one record per goroutine or RPC: a vote request or its answer
(`vote`, `voteResp`), a `replicateTo` goroutine at the top of its loop or about
to end (`top`, `exit`), or waiting for an AppendEntries or InstallSnapshot
(`append`, `install`) or about to handle the answer (`appendResp`,
`installResp`). `waiter` names the goroutine among those of one peer; 0 means
that the caller has given up (error, timeout or crash) while the request may
still arrive.

### Actions

| Action | Code |
|---|---|
| `StartElection`, `Heartbeat`, `Tick` | the three outcomes of `tick`; a deadline may pass at any moment |
| `HandleRequestVote`, `HandleVoteResponse` | the RPC receiver; `sendRequestVote` after its RPC |
| `Propose` | `Propose` |
| `ReplicateTo` | the top of `replicateTo`'s loop, up to the RPC |
| `HandleAppendResponse`, `HandleInstallResponse` | `replicateTo` after the RPC |
| `ReplicateExit`, `RpcError` | the deferred function; the error return with it |
| `HandleAppendEntries`, `HandleInstallSnapshot` | the RPC receivers |
| `Restart` | a crash between handlers, and `NewNode` on the disk |
| `CrashInHandler` | a crash after `becomeFollowerLocked` has saved the new term and before the handler saves again |
| `CrashAfterSave` | a crash after `HandleAppendEntries` has saved the merged log and before the compaction saves, which leaves the new entries with the old snapshot on disk |
| `KVClient!Put`, `WaitApplied`, `Crash` | `Server.Put` up to `Propose`; a poll of `WaitApplied` or its timeout; a crash under the client |

A handler with everything it calls (apply, compaction, save, broadcast) is one
step, because it runs under the mutex. The answer of an RPC travels on its own.

Abstractions: commands are model values; timers have no durations; the vote of
a lost RequestVote is one that is never handled; two identical requests whose
callers have given up are one; when a handler saves twice, `SaveMayFail` lets
both saves fail or neither, and only `HandleAppendEntries` and the step into a
newer term may be cut short between two saves (in a cluster of one, `Propose`
and `becomeLeaderLocked` also save twice); every node has a data directory
(`persistLocked` without one does nothing, and the binaries always set one);
`applyCommittedLocked` keeps membership changes from the state machine, which
the model leaves out because no log holds one (`MembersFixed`);
the number of simultaneous `replicateTo` goroutines per peer is bounded by
`Slot` (a broadcast that would need another one is not taken).

## Runs

Three nodes, symmetric in the nodes where the run says so. `handover` and
`third_leader` use commands that are all different, the others one command.

| Run | Bounds | Shows |
|---|---|---|
| `elections` | 2 elections, 1 crash | `ElectionSafety`, `LeaderHintsAgree`, `AcknowledgedOnDisk`, `VoteOnce` |
| `replication` | 2 elections, 1 proposal | `TypeOK`, `LogMatching`, `LeaderCompleteness`, `StateMachineSafety`, `CommitWithinRequest`, `LeaderAppendOnly` |
| `snapshots` | 1 election, 1 heartbeat, 2 proposals, 1 RPC error, 1 crash, threshold 1 | `CommittedOnMajority` |
| `handover` | from a change of leaders: 1 heartbeat, 2 proposals, 1 RPC error, 1 crash, threshold 3 | `CommittedOnMajority`, `AppliedFromLog`, `AppliedOnlyGrows` |
| `third_leader` | from the same state: 1 election, 1 proposal, 1 crash, threshold 3 | `LeaderCompleteness`, `StateMachineSafety`, `AppliedFromLog` |
| `catch_up` | stable leader, 2 proposals, 1 RPC error, threshold 1 | `FollowersCatchUp` |
| `puts` | after the first election: 1 election, 1 Put, 1 crash of any node, between handlers or inside one | `AckedByLeaderOnMajority` |
| `save_fails` | 1 election, saves may fail | violates `AcknowledgedOnDisk` |
| `lost_write` | after the first election: 1 election, 1 Put | violates `AckedOnMajority` |
| `catch_up_stuck` | stable leader, one follower down, 3 proposals, 1 RPC error, threshold 2 | violates `FollowersCatchUp` |
| `lost_commit` | after a re-election: 1 proposal, threshold 1 | violates `CommittedOnMajority` |

Why the bounds are enough for these questions: two elections give rival
candidates of one term, a deposed leader with late requests and answers, and
conflicting entries at one index; a crash meets every point of a vote; two
entries beyond the first and threshold 1 make a follower fall behind the
leader's snapshot; two slots allow a goroutine of an old term next to one of
the new.

`MCReplication`, `MCKVClient`, `MCHandover` and `MCReelected` start later than
`Init`, in states that `RaftNode` reaches from it by the steps their comments
describe. The first two start after the first election (`MCElected`).

`handover` and `third_leader` start in the state that `MCHandover` describes: two
elections and three commands into a run, so that what needs long logs is near.
The old leader has a snapshot at index 3 and a command at index 4 that nobody
else has; the new leader has its own entry at index 4, has applied two entries
and compacted none. From there on

- appends repair the old leader's log, before or after it restarts;
- a restart finds applied entries after the snapshot, which are applied again;
- the new leader compacts at index 4 while the old one's snapshot is at 3, and
  the old one applies up to index 5 before it compacts again: a snapshot at 4
  would pass the guard of `HandleInstallSnapshot`, which compares snapshots
  (`raft/snapshot.go:99`), and take the state machine back. A node's own
  snapshot is at most threshold - 1 behind what it has applied, so 3 is the
  smallest threshold at which this can happen at all. That it does not is due to
  the leader, which has one goroutine per peer and so no old snapshot under way
  when it sends a later entry: the mutant of `AppliedOnlyGrows` starts goroutines
  without looking at `replicating`;
- in `third_leader` any of the three may win term 3, the deposed leader with its
  uncommitted command among them, while requests of terms 1 and 2 are still under
  way.

What the runs do not reach: more than three nodes, four leaders with conflicting
suffixes, two goroutines of one term for one peer while the leader compacts
(outside `lost_commit`), and snapshots of two nodes that lie apart by more than
a threshold.

All runs but `elections`, `lost_commit` and those of `MCReplication` use a view
that leaves out what no step reads any more; `MCRaftNode` says which parts. The
runs with budgets stop when their budgets are spent, so they do not check for
deadlock; the `MCReplication` runs do.

Fairness (`MCReplication`): weak fairness of the leader's heartbeat tick (the
ticker runs every 5 ms), of the goroutines and handlers that serve a running
follower (goroutines are scheduled, RPCs return) and of a running follower's
tick. RPC errors are bounded, as liveness needs an eventually reliable network.
Elections are left out of these runs: their progress depends on randomised
timeouts.

## Findings

1. `save_fails`: a failed `Storage.Save` is only logged and the handler still
   acknowledges (`raft/persist.go:108`, against `README.md:177`).
2. `lost_write`: `WaitApplied` looks at the index only, so a deposed leader
   acknowledges a Put when another command is applied at its index
   (`raft/node.go:382`, against `README.md:3` and `:34`). `puts` shows what
   does hold: an acknowledgement by a node that still leads the term of the
   proposal is on a majority.
3. `catch_up_stuck`: a follower that has compacted further than its leader and
   whose answer was lost is offered appends it rejects and a snapshot it skips,
   in a loop without pause (`raft/log.go:209`, `raft/snapshot.go:99`, against
   `cluster/cluster.go:272-274`).
4. `lost_commit`: the deferred function of `replicateTo` clears
   `replicating[peer]` whatever term its goroutine is of (`raft/log.go:61`). A
   node that lost the leadership and won it back may then have two goroutines for
   one peer. One sends a snapshot; the other brings the follower past it, and the
   leader commits on its acknowledgement. When the snapshot arrives late,
   `HandleInstallSnapshot` replaces the whole log by it
   (`raft/snapshot.go:99-103`), and the committed entry is on the leader alone
   (against `README.md:34`). `handover` shows that with one goroutine per peer
   nothing is lost.

## Proofs

All for any finite set of servers, any commands, any threshold and unbounded
executions.

- `TypeCorrect`: `Spec => []TypeOK`. `TypeOK` is not inductive: a handler may
  index the log below its base unless `lastApplied[n] >= log[n].base.index`,
  which `TypeInv` adds. The lemmas of `RaftLogProofs` say that merging,
  compacting and advancing the commit index keep logs well formed. Failing
  saves are included.
- `MembersFixed`: `Spec => []FixedMembership`: no log, disk or request in
  flight holds a change of members, so every majority is one of `Server`.
- `ElectionInvariant`, `OneLeaderPerTerm`, `VotesAreFinal` (assuming
  `~SaveMayFail`): `ElectionInv` says, besides `FixedMembership`, that the
  disk holds the term and vote of the node (`DiskCurrent`), that a vote in
  flight or counted is still the voter's or of a term it has left
  (`VotesKept`), that there is one per voter and term (`VotesUnique`), and that
  a leader has a majority (`LeaderVotes`). `ElectionSteps` reduces every action
  to one of five shapes (nothing, demotion, campaign, vote cast, vote counted);
  the invariant is proved for those. Two leaders of a term share a voter (majorities intersect),
  and that voter voted once.

The assumption on saves is needed: `save_fails` shows an acknowledged vote that
a restart would forget. Assumptions on constants: `Server` is finite and does not
hold `Nil`, `NoOp` is no command, the threshold is a natural number, slots are
positive.

Only model-checked: the log properties, snapshots, Puts and liveness.
Liveness under fairness is out of the prover's reach.

## Plan

1. `KVRead`: ReadIndex and Get composed with `RaftNode`; linearizability of
   reads against an abstract register, and the gap between
   `waitCurrentTermCommitted` and the read of the commit index.
2. `RaftMembership`: AddServer, RemoveServer, joiners, removed members; election
   and commit safety under changes, with four servers and guided initial states.
3. `FileStorage`: Save as temp file, fsync, rename with crashes; Load and its
   errors; shown to implement the atomic save that `RaftNode` uses.
4. Dev cluster: Crash, Restart, Add, Remove and goroutines that outlive a
   crash; fault injection tables.
5. HTTP forwarding: a Put proposed on two leaders.
6. An abstract log of committed commands that only grows, with `RaftNode` shown
   to implement it.
7. Proofs: leader hints, acknowledgements on disk, log matching.

Left out for good: HTTP and gRPC plumbing, JSON, flags, the bench client and
generated code, which hold no state of the protocol.
