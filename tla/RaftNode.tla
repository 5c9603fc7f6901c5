------------------------------ MODULE RaftNode ------------------------------
(***************************************************************************)
(* The consensus core of raft-store: the RaftNode type of src/raft, with   *)
(* its elections, log replication, snapshots and restarts, for a fixed set *)
(* of members.                                                             *)
(*                                                                         *)
(* Every handler of the code runs under the node's mutex, so each critical *)
(* section is one action.  Goroutines that leave the mutex to wait for an  *)
(* RPC (sendRequestVote, replicateTo) are records of the set calls: a      *)
(* record says where the goroutine stands, or holds the request or answer  *)
(* it waits for.  A timer may fire at any moment.                          *)
(***************************************************************************)
EXTENDS Integers, Sequences, FiniteSets, FiniteSetsExt

CONSTANTS
  Server,             \* node identifiers
  Command,            \* client commands (LogEntry.Command, never empty)
  NoOp,               \* the empty command of a leader's first entry
  Nil,                \* the empty string: no vote, no known leader
  SnapshotThreshold,  \* Config.SnapshotThreshold; 0 disables compaction
  Slot,               \* names for the replicateTo goroutines of one peer
  SaveMayFail         \* whether Storage.Save may return an error

ASSUME ServerAssumption == IsFiniteSet(Server) /\ Nil \notin Server
ASSUME CommandAssumption == NoOp \notin Command
ASSUME ThresholdAssumption == SnapshotThreshold \in Nat
ASSUME SlotAssumption == Slot \subseteq Nat \ {0}
ASSUME SaveAssumption == SaveMayFail \in BOOLEAN

VARIABLES
  state, currentTerm, votedFor, log, commitIndex, lastApplied,
  machine,            \* the commands applied to the state machine, in order
  nextIndex, matchIndex, replicating, votesReceived, leaderID, joining,
  disk,               \* what state.json holds
  calls               \* goroutines and the RPCs they wait for

electionVars  == <<state, currentTerm, votedFor, votesReceived, leaderID, joining>>
logVars       == <<log, commitIndex, lastApplied, machine>>
leaderVars    == <<nextIndex, matchIndex, replicating>>
vars          == <<electionVars, logVars, leaderVars, disk, calls>>

-----------------------------------------------------------------------------
(* The log: log[0] of the code, with the snapshot and the base membership  *)
(* it stands for, is base; the entries after it are tail.                  *)

Entry    == [term : Nat, cmd : Command \cup {NoOp}, peers : SUBSET Server]
ApplyMsg == [index : Nat, cmd : Command \cup {NoOp}]
Base     == [index : Nat, term : Nat, peers : SUBSET Server, data : Seq(ApplyMsg)]
Log      == [base : Base, tail : Seq(Entry)]

LastIndex(lg) == lg.base.index + Len(lg.tail)
LastTerm(lg) == IF lg.tail = <<>> THEN lg.base.term ELSE lg.tail[Len(lg.tail)].term

\* entryAtLocked finds index i (the base included).
Has(lg, i) == i \in lg.base.index..LastIndex(lg)
TermAt(lg, i) == IF i = lg.base.index THEN lg.base.term
                                      ELSE lg.tail[i - lg.base.index].term

\* The voters: the Peers of the last change in the log, else the base's.
Peers(lg) ==
  LET changes == {i \in 1..Len(lg.tail) : lg.tail[i].peers # {}}
  IN  IF changes = {} THEN lg.base.peers
      ELSE lg.tail[Max(changes)].peers

Majority(lg) == (Cardinality(Peers(lg)) \div 2) + 1

\* Mutant: any candidate's log will do.
UpToDateAlways(lg, lastIndex, lastTerm) == TRUE

\* Mutant: the longer log wins, whatever its terms.
UpToDateByLength(lg, lastIndex, lastTerm) == lastIndex >= LastIndex(lg)

UpToDate(lg, lastIndex, lastTerm) ==
  \/ lastTerm > LastTerm(lg)
  \/ lastTerm = LastTerm(lg) /\ lastIndex >= LastIndex(lg)

\* Mutant: cut the log at prev even when the entries agree.
MergeTruncates(lg, prev, entries) ==
  [lg EXCEPT !.tail = SubSeq(@, 1, prev - lg.base.index) \o entries]

\* Mutant: append after a conflict without removing what conflicts.
MergeKeepsConflict(lg, prev, entries) ==
  LET have == LastIndex(lg) - prev
  IN  IF have >= Len(entries) THEN lg
      ELSE [lg EXCEPT !.tail = @ \o SubSeq(entries, have + 1, Len(entries))]

\* The follower's loop over req.Entries: keep what agrees, and from the first
\* missing or conflicting index on, take the request's entries.
Merge(lg, prev, entries) ==
  LET differs == {i \in 1..Len(entries) :
                    \/ ~Has(lg, prev + i)
                    \/ TermAt(lg, prev + i) # entries[i].term}
      first   == Min(differs)
  IN  IF differs = {} THEN lg
      ELSE [lg EXCEPT !.tail =
              SubSeq(@, 1, prev + first - 1 - lg.base.index)
                \o SubSeq(entries, first, Len(entries))]

\* Mutant: a snapshot of all that is applied is labelled with the index at
\* which the threshold was reached.
CompactAtThreshold(lg, index, data) ==
  IF SnapshotThreshold > 0 /\ index - lg.base.index >= SnapshotThreshold
  THEN LET k == SnapshotThreshold
       IN  [base |-> [index |-> lg.base.index + k, term |-> lg.tail[k].term,
                      peers |-> Peers(lg), data |-> data],
            tail |-> SubSeq(lg.tail, k + 1, Len(lg.tail))]
  ELSE lg

\* Mutant: the entries after the snapshot are cut one too late.
CompactDropsNext(lg, index, data) ==
  IF SnapshotThreshold > 0 /\ index - lg.base.index >= SnapshotThreshold
  THEN LET k == index - lg.base.index
       IN  [base |-> [index |-> index, term |-> TermAt(lg, index),
                      peers |-> Peers(lg), data |-> data],
            tail |-> SubSeq(lg.tail, k + 2, Len(lg.tail))]
  ELSE lg

\* maybeCompactLocked: a snapshot at index, the last applied one, replaces
\* the log up to it.
Compact(lg, index, data) ==
  IF /\ SnapshotThreshold > 0
     /\ index - lg.base.index >= SnapshotThreshold
     /\ Has(lg, index)
  THEN LET k == index - lg.base.index
           kept == [lg EXCEPT !.tail = SubSeq(@, 1, k)]
       IN  [base |-> [index |-> index, term |-> TermAt(lg, index),
                      peers |-> Peers(kept), data |-> data],
            tail |-> SubSeq(lg.tail, k + 1, Len(lg.tail))]
  ELSE lg

\* Mutant: one acknowledgement short of a majority.
AdvanceCommitEarly(lg, match, term, commit) ==
  LET agreed == {i \in (commit + 1)..LastIndex(lg) :
                   /\ TermAt(lg, i) = term
                   /\ Cardinality({p \in Peers(lg) : match[p] >= i}) >= Majority(lg) - 1}
  IN  IF agreed = {} THEN commit ELSE Max(agreed)

\* The highest current-term index that a majority has acknowledged.
AdvanceCommit(lg, match, term, commit) ==
  LET agreed == {i \in (commit + 1)..LastIndex(lg) :
                   /\ TermAt(lg, i) = term
                   /\ Cardinality({p \in Peers(lg) : match[p] >= i}) >= Majority(lg)}
  IN  IF agreed = {} THEN commit ELSE Max(agreed)

-----------------------------------------------------------------------------
(* Fragments of actions, one per helper the handlers share.                *)

Durable(term, vote, lg) == [currentTerm |-> term, votedFor |-> vote, log |-> lg]

\* Mutant: the log is saved only when it has become longer.
PersistIfLonger(n) ==
  disk' = [disk EXCEPT ![n] =
             Durable(currentTerm'[n], votedFor'[n],
                     IF LastIndex(log'[n]) > LastIndex(@.log) THEN log'[n] ELSE @.log)]

\* persistLocked with a data directory, called when the handler has changed the
\* durable fields; a Save that fails is only logged, and disk keeps what it had.
Persist(n) ==
  \/ disk' = [disk EXCEPT ![n] = Durable(currentTerm'[n], votedFor'[n], log'[n])]
  \/ SaveMayFail /\ UNCHANGED disk

\* applyCommittedLocked on log lg and commit index commit, with the
\* compaction it ends with.  The code keeps membership changes from the state
\* machine; with fixed members every entry is a command or a no-op.
ApplyCommitted(n, lg, commit) ==
  LET from == lastApplied[n]
      upto == Max({from, Min({commit, LastIndex(lg)})})
      delivered == [k \in 1..(upto - from) |->
                      [index |-> from + k, cmd |-> lg.tail[from + k - lg.base.index].cmd]]
      applied == machine[n] \o delivered
  IN  /\ commitIndex' = [commitIndex EXCEPT ![n] = commit]
      /\ lastApplied' = [lastApplied EXCEPT ![n] = upto]
      /\ machine' = [machine EXCEPT ![n] = applied]
      /\ log' = [log EXCEPT ![n] = Compact(lg, upto, applied)]

Thread(pc, n, p, s) == [kind |-> pc, from |-> n, to |-> p, waiter |-> s]

FreeSlots(rest, n, p) ==
  {s \in Slot : \A c \in rest : ~(c.kind \notin {"vote", "voteResp"} /\ c.from = n
                                     /\ c.to = p /\ c.waiter = s)}

\* Mutant: a goroutine is started whether or not the peer has one.
BroadcastAlways(n, rest, peers, busy) ==
  LET idle == peers \ {n}
  IN  \E slot \in [idle -> Slot] :
        /\ \A p \in idle : /\ slot[p] \in FreeSlots(rest, n, p)
                           /\ \A s \in FreeSlots(rest, n, p) : slot[p] <= s
        /\ replicating' = [replicating EXCEPT ![n] =
                             [p \in Server |-> busy[p] \/ p \in idle]]
        /\ calls' = rest \cup {Thread("top", n, p, slot[p]) : p \in idle}

\* broadcastAppendEntriesLocked: one goroutine per peer that has none.
Broadcast(n, rest, peers, busy) ==
  LET idle == {p \in peers \ {n} : ~busy[p]}
  IN  \E slot \in [idle -> Slot] :
        /\ \A p \in idle : /\ slot[p] \in FreeSlots(rest, n, p)
                           /\ \A s \in FreeSlots(rest, n, p) : slot[p] <= s
        /\ replicating' = [replicating EXCEPT ![n] =
                             [p \in Server |-> busy[p] \/ p \in idle]]
        /\ calls' = rest \cup {Thread("top", n, p, slot[p]) : p \in idle}

\* becomeLeaderLocked at the given term.
BecomeLeader(n, term, rest) ==
  LET last  == LastIndex(log[n])
      lg    == [log[n] EXCEPT !.tail =
                  Append(@, [term |-> term, cmd |-> NoOp, peers |-> {}])]
      match == [p \in Server |-> IF p = n THEN last + 1 ELSE 0]
      next  == [p \in Server |-> IF p = n THEN last + 2
                                 ELSE IF p \in Peers(lg) THEN last + 1 ELSE 0]
  IN  /\ state' = [state EXCEPT ![n] = "Leader"]
      /\ leaderID' = [leaderID EXCEPT ![n] = n]
      /\ nextIndex' = [nextIndex EXCEPT ![n] = next]
      /\ matchIndex' = [matchIndex EXCEPT ![n] = match]
      /\ ApplyCommitted(n, lg, AdvanceCommit(lg, match, term, commitIndex[n]))
      /\ Broadcast(n, rest, Peers(lg), [p \in Server |-> FALSE])

\* Mutant: the leader of the old term stays on as the hint.
StepDownKeepsHint(n, term) ==
  /\ state' = [state EXCEPT ![n] = "Follower"]
  /\ currentTerm' = [currentTerm EXCEPT ![n] = term]
  /\ votedFor' = [votedFor EXCEPT ![n] = Nil]
  /\ UNCHANGED <<leaderID, votesReceived, joining, logVars>>
  /\ Persist(n)

\* becomeFollowerLocked with a higher term and no known leader.
StepDown(n, term) ==
  /\ state' = [state EXCEPT ![n] = "Follower"]
  /\ currentTerm' = [currentTerm EXCEPT ![n] = term]
  /\ votedFor' = [votedFor EXCEPT ![n] = Nil]
  /\ leaderID' = [leaderID EXCEPT ![n] = Nil]
  /\ UNCHANGED <<votesReceived, joining, logVars>>
  /\ Persist(n)

\* The handler of c answers; nobody hears it if the caller has given up.
Respond(c, answer) ==
  calls' = (calls \ {c}) \cup (IF c.waiter = 0 THEN {} ELSE {answer})

-----------------------------------------------------------------------------
(* Elections.                                                              *)

VoteRequest(n, p, term) ==
  [kind |-> "vote", from |-> n, to |-> p, waiter |-> 1, term |-> term,
   lastIndex |-> LastIndex(log[n]), lastTerm |-> LastTerm(log[n])]

\* tick: the election deadline of a follower or candidate has passed.
StartElection(n) ==
  LET term == currentTerm[n] + 1
  IN  /\ state[n] # "Leader" /\ ~joining[n] /\ n \in Peers(log[n])
      /\ currentTerm' = [currentTerm EXCEPT ![n] = term]
      /\ votedFor' = [votedFor EXCEPT ![n] = n]
      /\ votesReceived' = [votesReceived EXCEPT ![n] = {n}]
      /\ IF 1 >= Majority(log[n])
         THEN BecomeLeader(n, term, calls)
         ELSE /\ state' = [state EXCEPT ![n] = "Candidate"]
              /\ leaderID' = [leaderID EXCEPT ![n] = Nil]
              /\ calls' = calls \cup {VoteRequest(n, p, term) : p \in Peers(log[n]) \ {n}}
              /\ ApplyCommitted(n, log[n], commitIndex[n])
              /\ UNCHANGED leaderVars
      /\ Persist(n)
      /\ UNCHANGED joining

\* Mutant: the vote already given is not looked at.
GrantsVoteAgain(n, c) ==
  c.term >= currentTerm[n] /\ UpToDate(log[n], c.lastIndex, c.lastTerm)

\* Whether n votes for the candidate of c; a newer term clears votedFor.
GrantsVote(n, c) ==
  /\ \/ c.term > currentTerm[n]
     \/ c.term = currentTerm[n] /\ votedFor[n] \in {Nil, c.from}
  /\ UpToDate(log[n], c.lastIndex, c.lastTerm)

HandleRequestVote(c) ==
  LET n == c.to
      newer == c.term > currentTerm[n]
      grant == GrantsVote(n, c)
  IN  /\ c.kind = "vote"
      /\ currentTerm' = [currentTerm EXCEPT ![n] = Max({@, c.term})]
      /\ votedFor' = [votedFor EXCEPT ![n] =
                      IF grant THEN c.from ELSE IF newer THEN Nil ELSE @]
      /\ state' = [state EXCEPT ![n] = IF newer THEN "Follower" ELSE @]
      /\ leaderID' = [leaderID EXCEPT ![n] = IF newer THEN Nil ELSE @]
      /\ UNCHANGED <<votesReceived, joining, logVars, leaderVars>>
      /\ IF newer \/ grant THEN Persist(n) ELSE UNCHANGED disk
      /\ Respond(c, [kind |-> "voteResp", from |-> c.from, to |-> n, waiter |-> 1,
                     term |-> c.term, rterm |-> currentTerm'[n], granted |-> grant])

\* sendRequestVote after its RPC has returned.
HandleVoteResponse(c) ==
  LET n == c.from
      rest == calls \ {c}
      counts == state[n] = "Candidate" /\ currentTerm[n] = c.term /\ c.granted
      votes == votesReceived[n] \cup {c.to}
  IN  /\ c.kind = "voteResp"
      /\ \/ /\ c.rterm > currentTerm[n]
            /\ StepDown(n, c.rterm)
            /\ calls' = rest
            /\ UNCHANGED leaderVars
         \/ /\ c.rterm <= currentTerm[n] /\ counts
            /\ votesReceived' = [votesReceived EXCEPT ![n] = votes]
            /\ UNCHANGED <<currentTerm, votedFor, joining>>
            /\ IF Cardinality(votes) >= Majority(log[n])
               THEN BecomeLeader(n, c.term, rest) /\ Persist(n)
               ELSE calls' = rest /\ UNCHANGED <<state, leaderID, logVars, leaderVars, disk>>
         \/ /\ c.rterm <= currentTerm[n] /\ ~counts
            /\ calls' = rest
            /\ UNCHANGED <<electionVars, logVars, leaderVars, disk>>

-----------------------------------------------------------------------------
(* The leader's side of replication.                                       *)

\* tick on a leader whose heartbeat is due.
Heartbeat(n) ==
  /\ state[n] = "Leader"
  /\ UNCHANGED <<electionVars, nextIndex, matchIndex>>
  /\ Broadcast(n, calls, Peers(log[n]), replicating[n])
  /\ ApplyCommitted(n, log[n], commitIndex[n])
  /\ IF log' # log THEN Persist(n) ELSE UNCHANGED disk

\* tick with no deadline due: only applyCommittedLocked runs.
Tick(n) ==
  /\ UNCHANGED <<electionVars, leaderVars, calls>>
  /\ ApplyCommitted(n, log[n], commitIndex[n])
  /\ IF log' # log THEN Persist(n) ELSE UNCHANGED disk

Propose(n, cmd) ==
  LET term  == currentTerm[n]
      lg    == [log[n] EXCEPT !.tail = Append(@, [term |-> term, cmd |-> cmd, peers |-> {}])]
      match == [matchIndex[n] EXCEPT ![n] = LastIndex(lg)]
  IN  /\ state[n] = "Leader"
      /\ UNCHANGED electionVars
      /\ matchIndex' = [matchIndex EXCEPT ![n] = match]
      /\ nextIndex' = [nextIndex EXCEPT ![n][n] = LastIndex(lg) + 1]
      /\ ApplyCommitted(n, lg, AdvanceCommit(lg, match, term, commitIndex[n]))
      /\ Persist(n)
      /\ Broadcast(n, calls, Peers(lg), replicating[n])

\* Mutant: PrevLogIndex is one too low.
AppendRequestPrevLow(c, next) ==
  LET lg == log[c.from]
  IN  [kind |-> "append", from |-> c.from, to |-> c.to, waiter |-> c.waiter,
       term |-> currentTerm[c.from], prev |-> next - 2, prevTerm |-> lg.base.term,
       entries |-> SubSeq(lg.tail, next - lg.base.index, Len(lg.tail)),
       commit |-> commitIndex[c.from]]

\* Mutant: at most one entry per request.
AppendRequestOneEntry(c, next) ==
  LET lg == log[c.from]
      last == Min({next, LastIndex(lg)})
  IN  [kind |-> "append", from |-> c.from, to |-> c.to, waiter |-> c.waiter,
       term |-> currentTerm[c.from], prev |-> next - 1, prevTerm |-> TermAt(lg, next - 1),
       entries |-> SubSeq(lg.tail, next - lg.base.index, last - lg.base.index),
       commit |-> commitIndex[c.from]]

\* makeAppendRequestLocked: the whole suffix from next on.
AppendRequest(c, next) ==
  LET lg == log[c.from]
  IN  [kind |-> "append", from |-> c.from, to |-> c.to, waiter |-> c.waiter,
       term |-> currentTerm[c.from], prev |-> next - 1, prevTerm |-> TermAt(lg, next - 1),
       entries |-> SubSeq(lg.tail, next - lg.base.index, Len(lg.tail)),
       commit |-> commitIndex[c.from]]

InstallRequest(c) ==
  [kind |-> "install", from |-> c.from, to |-> c.to, waiter |-> c.waiter,
   term |-> currentTerm[c.from], base |-> log[c.from].base]

\* The top of replicateTo's loop, up to the RPC.
ReplicateTo(c) ==
  LET n == c.from
      p == c.to
      snap == log[n].base.index
      next == Min({nextIndex[n][p], LastIndex(log[n]) + 1})
      Goes(thread) == calls' = (calls \ {c}) \cup {thread}
  IN  /\ c.kind = "top"
      /\ \/ /\ state[n] # "Leader" \/ (snap = 0 /\ nextIndex[n][p] = 0)
            /\ Goes(Thread("exit", n, p, c.waiter))
            /\ UNCHANGED nextIndex
         \/ /\ state[n] = "Leader" /\ snap > 0 /\ nextIndex[n][p] <= snap
            /\ Goes(InstallRequest(c))
            /\ UNCHANGED nextIndex
         \/ /\ state[n] = "Leader" /\ nextIndex[n][p] > snap
            /\ nextIndex' = [nextIndex EXCEPT ![n][p] = next]
            /\ Goes(AppendRequest(c, next))
      /\ UNCHANGED <<electionVars, logVars, matchIndex, replicating, disk>>

\* replicateTo after SendAppendEntries has returned.
HandleAppendResponse(c) ==
  LET n == c.from
      p == c.to
      snap == log[n].base.index
      next == nextIndex[n][p]
      match == [matchIndex[n] EXCEPT ![p] = c.match]
      current == state[n] = "Leader" /\ currentTerm[n] = c.term
      Goes(pc) == calls' = (calls \ {c}) \cup {Thread(pc, n, p, c.waiter)}
  IN  /\ c.kind = "appendResp"
      /\ UNCHANGED replicating
      /\ \/ /\ ~current
            /\ Goes("exit")
            /\ UNCHANGED <<electionVars, logVars, nextIndex, matchIndex, disk>>
         \/ /\ current /\ c.rterm > currentTerm[n]
            /\ StepDown(n, c.rterm)
            /\ Goes("exit")
            /\ UNCHANGED <<nextIndex, matchIndex>>
         \/ /\ current /\ c.rterm <= currentTerm[n] /\ c.success
            /\ matchIndex' = [matchIndex EXCEPT ![n] = match]
            /\ nextIndex' = [nextIndex EXCEPT ![n][p] = c.match + 1]
            /\ ApplyCommitted(n, log[n], AdvanceCommit(log[n], match, c.term, commitIndex[n]))
            /\ UNCHANGED electionVars
            /\ IF log' # log THEN Persist(n) ELSE UNCHANGED disk
            /\ Goes(IF LastIndex(log[n]) > c.match THEN "top" ELSE "exit")
         \/ /\ current /\ c.rterm <= currentTerm[n] /\ ~c.success
            /\ nextIndex' = [nextIndex EXCEPT ![n][p] =
                 IF next > snap + 1 THEN next - 1
                 ELSE IF snap > 0 THEN snap
                 ELSE IF next > 1 THEN next - 1 ELSE next]
            /\ Goes("top")
            /\ UNCHANGED <<electionVars, logVars, matchIndex, disk>>

\* replicateTo after SendInstallSnapshot has returned.
HandleInstallResponse(c) ==
  LET n == c.from
      p == c.to
      match == [matchIndex[n] EXCEPT ![p] = c.match]
      current == state[n] = "Leader" /\ currentTerm[n] = c.term
      Goes(pc) == calls' = (calls \ {c}) \cup {Thread(pc, n, p, c.waiter)}
  IN  /\ c.kind = "installResp"
      /\ UNCHANGED replicating
      /\ \/ /\ ~current
            /\ Goes("exit")
            /\ UNCHANGED <<electionVars, logVars, nextIndex, matchIndex, disk>>
         \/ /\ current /\ c.rterm > currentTerm[n]
            /\ StepDown(n, c.rterm)
            /\ Goes("exit")
            /\ UNCHANGED <<nextIndex, matchIndex>>
         \/ /\ current /\ c.rterm <= currentTerm[n]
            /\ matchIndex' = [matchIndex EXCEPT ![n] = match]
            /\ nextIndex' = [nextIndex EXCEPT ![n][p] = c.match + 1]
            /\ ApplyCommitted(n, log[n], AdvanceCommit(log[n], match, c.term, commitIndex[n]))
            /\ UNCHANGED electionVars
            /\ IF log' # log THEN Persist(n) ELSE UNCHANGED disk
            /\ Goes(IF LastIndex(log[n]) > c.match THEN "top" ELSE "exit")

\* Mutant: the flag stays up and no new goroutine is ever started.
ClearReplicatingNever(n, p) == UNCHANGED replicating

ClearReplicating(n, p) == replicating' = [replicating EXCEPT ![n][p] = FALSE]

\* The deferred function of replicateTo.
ReplicateExit(c) ==
  /\ c.kind = "exit"
  /\ calls' = calls \ {c}
  /\ ClearReplicating(c.from, c.to)
  /\ UNCHANGED <<electionVars, logVars, nextIndex, matchIndex, disk>>

\* The transport reports an error or a timeout to replicateTo.  A request it
\* has sent may still reach the peer later; an answer is lost.
RpcError(c) ==
  /\ c.kind \in {"append", "appendResp", "install", "installResp"} /\ c.waiter # 0
  /\ calls' = (calls \ {c}) \cup
       (IF c.kind \in {"append", "install"} THEN {[c EXCEPT !.waiter = 0]} ELSE {})
  /\ ClearReplicating(c.from, c.to)
  /\ UNCHANGED <<electionVars, logVars, nextIndex, matchIndex, disk>>

-----------------------------------------------------------------------------
(* The follower's side of replication.                                     *)

\* Mutant: a leader that hears of a newer one keeps acting as leader.
FollowKeepsState(n, c) ==
  /\ currentTerm' = [currentTerm EXCEPT ![n] = c.term]
  /\ votedFor' = [votedFor EXCEPT ![n] = IF c.term > currentTerm[n] THEN Nil ELSE @]
  /\ leaderID' = [leaderID EXCEPT ![n] = c.from]
  /\ joining' = [joining EXCEPT ![n] = FALSE]
  /\ UNCHANGED <<state, votesReceived>>

\* A request of a leader whose term is not stale: follow it.
Follow(n, c) ==
  /\ state' = [state EXCEPT ![n] = "Follower"]
  /\ currentTerm' = [currentTerm EXCEPT ![n] = c.term]
  /\ votedFor' = [votedFor EXCEPT ![n] = IF c.term > currentTerm[n] THEN Nil ELSE @]
  /\ leaderID' = [leaderID EXCEPT ![n] = c.from]
  /\ joining' = [joining EXCEPT ![n] = FALSE]
  /\ UNCHANGED votesReceived

HandleAppendEntries(c) ==
  LET n == c.to
      matches == /\ Has(log[n], c.prev)
                 /\ TermAt(log[n], c.prev) = c.prevTerm
      merged == Merge(log[n], c.prev, c.entries)
      Answer(ok) == [kind |-> "appendResp", from |-> c.from, to |-> n, waiter |-> c.waiter,
                     term |-> c.term, match |-> c.prev + Len(c.entries),
                     rterm |-> currentTerm'[n], success |-> ok]
  IN  /\ c.kind = "append"
      /\ UNCHANGED leaderVars
      /\ \/ /\ c.term < currentTerm[n]
            /\ UNCHANGED <<electionVars, logVars, disk>>
            /\ Respond(c, Answer(FALSE))
         \/ /\ c.term >= currentTerm[n]
            /\ Follow(n, c)
            /\ IF ~matches THEN UNCHANGED logVars
               ELSE IF c.commit > commitIndex[n]
               THEN ApplyCommitted(n, merged, Min({c.commit, LastIndex(merged)}))
               ELSE /\ log' = [log EXCEPT ![n] = merged]
                    /\ UNCHANGED <<commitIndex, lastApplied, machine>>
            /\ IF c.term > currentTerm[n] \/ log' # log THEN Persist(n) ELSE UNCHANGED disk
            /\ Respond(c, Answer(matches))

\* The follower's own snapshot reaches at least as far.
Covered(n, base) == base.index <= log[n].base.index

HandleInstallSnapshot(c) ==
  LET n == c.to
      Answer == [kind |-> "installResp", from |-> c.from, to |-> n, waiter |-> c.waiter,
                 term |-> c.term, match |-> c.base.index, rterm |-> currentTerm'[n]]
  IN  /\ c.kind = "install"
      /\ UNCHANGED leaderVars
      /\ \/ /\ c.term < currentTerm[n]
            /\ UNCHANGED <<electionVars, logVars, disk>>
         \/ /\ c.term >= currentTerm[n]
            /\ Follow(n, c)
            /\ IF Covered(n, c.base) THEN UNCHANGED logVars
               ELSE /\ log' = [log EXCEPT ![n] = [base |-> c.base, tail |-> <<>>]]
                    /\ machine' = [machine EXCEPT ![n] = c.base.data]
                    /\ lastApplied' = [lastApplied EXCEPT ![n] = c.base.index]
                    /\ commitIndex' = [commitIndex EXCEPT ![n] = Max({@, c.base.index})]
            /\ IF c.term > currentTerm[n] \/ log' # log THEN Persist(n) ELSE UNCHANGED disk
      /\ Respond(c, Answer)

-----------------------------------------------------------------------------
(* Crash and restart: NewNode loads what disk holds.                       *)

\* The goroutines of n die; a request they had sent may still arrive.
Orphaned(n, rest) ==
  {c \in rest : c.from # n}
    \cup {[c EXCEPT !.waiter = 0] :
            c \in {d \in rest : d.from = n /\ d.kind \in {"vote", "append", "install"}}}

Load(n, saved, rest) ==
  LET base == saved.log.base
  IN  /\ disk' = [disk EXCEPT ![n] = saved]
      /\ state' = [state EXCEPT ![n] = "Follower"]
      /\ currentTerm' = [currentTerm EXCEPT ![n] = saved.currentTerm]
      /\ votedFor' = [votedFor EXCEPT ![n] = saved.votedFor]
      /\ leaderID' = [leaderID EXCEPT ![n] = Nil]
      /\ votesReceived' = [votesReceived EXCEPT ![n] = {}]
      /\ joining' = [joining EXCEPT ![n] = FALSE]
      /\ log' = [log EXCEPT ![n] = saved.log]
      /\ commitIndex' = [commitIndex EXCEPT ![n] = base.index]
      /\ lastApplied' = [lastApplied EXCEPT ![n] = base.index]
      /\ machine' = [machine EXCEPT ![n] = base.data]
      /\ nextIndex' = [nextIndex EXCEPT ![n] = [p \in Server |-> 0]]
      /\ matchIndex' = [matchIndex EXCEPT ![n] = [p \in Server |-> 0]]
      /\ replicating' = [replicating EXCEPT ![n] = [p \in Server |-> FALSE]]
      /\ calls' = Orphaned(n, rest)

\* Mutant: the vote is not restored.
RestartForgetsVote(n) ==
  Load(n, Durable(disk[n].currentTerm, Nil, disk[n].log), calls)

Restart(n) == Load(n, disk[n], calls)

\* The calls that are left when the callee of c dies before it answers: the
\* goroutine of the caller gets an error and ends.
HungUp(c) ==
  (calls \ {c}) \cup (IF c.kind = "vote" \/ c.waiter = 0 THEN {}
                      ELSE {Thread("exit", c.from, c.to, c.waiter)})

\* The node crashes inside the handler of c, after becomeFollowerLocked has
\* saved the new term and before the handler's second save and its answer.
CrashInHandler(c) ==
  /\ c.kind \in {"vote", "append", "install"}
  /\ c.term > currentTerm[c.to]
  /\ Load(c.to, Durable(c.term, Nil, log[c.to]), HungUp(c))

\* The node crashes inside HandleAppendEntries, after the save of the merged
\* log and before the compaction's save and the answer.
CrashAfterSave(c) ==
  LET n == c.to
      merged == Merge(log[n], c.prev, c.entries)
      vote == IF c.term > currentTerm[n] THEN Nil ELSE votedFor[n]
  IN  /\ c.kind = "append"
      /\ c.term >= currentTerm[n]
      /\ Has(log[n], c.prev) /\ TermAt(log[n], c.prev) = c.prevTerm
      /\ merged # log[n]
      /\ Load(n, Durable(c.term, vote, merged), HungUp(c))

-----------------------------------------------------------------------------
EmptyLog(peers) ==
  [base |-> [index |-> 0, term |-> 0, peers |-> peers, data |-> <<>>], tail |-> <<>>]

\* NewNode on an empty data directory, with the whole cluster as PeerAddrs.
Init ==
  /\ state = [n \in Server |-> "Follower"]
  /\ currentTerm = [n \in Server |-> 0]
  /\ votedFor = [n \in Server |-> Nil]
  /\ log = [n \in Server |-> EmptyLog(Server)]
  /\ commitIndex = [n \in Server |-> 0]
  /\ lastApplied = [n \in Server |-> 0]
  /\ machine = [n \in Server |-> <<>>]
  /\ nextIndex = [n \in Server |-> [p \in Server |-> 0]]
  /\ matchIndex = [n \in Server |-> [p \in Server |-> 0]]
  /\ replicating = [n \in Server |-> [p \in Server |-> FALSE]]
  /\ votesReceived = [n \in Server |-> {}]
  /\ leaderID = [n \in Server |-> Nil]
  /\ joining = [n \in Server |-> FALSE]
  /\ disk = [n \in Server |-> Durable(0, Nil, EmptyLog(Server))]
  /\ calls = {}

Next ==
  \/ \E n \in Server :
       \/ StartElection(n)
       \/ Heartbeat(n)
       \/ Tick(n)
       \/ \E cmd \in Command : Propose(n, cmd)
       \/ Restart(n)
  \/ \E c \in calls :
       \/ HandleRequestVote(c)
       \/ HandleVoteResponse(c)
       \/ ReplicateTo(c)
       \/ HandleAppendEntries(c)
       \/ HandleAppendResponse(c)
       \/ HandleInstallSnapshot(c)
       \/ HandleInstallResponse(c)
       \/ ReplicateExit(c)
       \/ RpcError(c)
       \/ CrashInHandler(c)
       \/ CrashAfterSave(c)

Spec == Init /\ [][Next]_vars

-----------------------------------------------------------------------------
(* Properties.                                                             *)

Record(kinds) == [kind : kinds, from : Server, to : Server, waiter : Nat]

Call ==
  Record({"top", "exit"})
    \cup [kind : {"vote"}, from : Server, to : Server, waiter : Nat, term : Nat,
          lastIndex : Nat, lastTerm : Nat]
    \cup [kind : {"voteResp"}, from : Server, to : Server, waiter : Nat, term : Nat,
          rterm : Nat, granted : BOOLEAN]
    \cup [kind : {"append"}, from : Server, to : Server, waiter : Nat, term : Nat,
          prev : Nat, prevTerm : Nat, entries : Seq(Entry), commit : Nat]
    \cup [kind : {"appendResp"}, from : Server, to : Server, waiter : Nat, term : Nat,
          match : Nat, rterm : Nat, success : BOOLEAN]
    \cup [kind : {"install"}, from : Server, to : Server, waiter : Nat, term : Nat,
          base : Base]
    \cup [kind : {"installResp"}, from : Server, to : Server, waiter : Nat, term : Nat,
          match : Nat, rterm : Nat]

\* The type invariant: every field of every node, the disk and every RPC.
TypeOK ==
  /\ state \in [Server -> {"Follower", "Candidate", "Leader"}]
  /\ currentTerm \in [Server -> Nat]
  /\ votedFor \in [Server -> Server \cup {Nil}]
  /\ log \in [Server -> Log]
  /\ commitIndex \in [Server -> Nat]
  /\ lastApplied \in [Server -> Nat]
  /\ machine \in [Server -> Seq(ApplyMsg)]
  /\ nextIndex \in [Server -> [Server -> Nat]]
  /\ matchIndex \in [Server -> [Server -> Nat]]
  /\ replicating \in [Server -> [Server -> BOOLEAN]]
  /\ votesReceived \in [Server -> SUBSET Server]
  /\ leaderID \in [Server -> Server \cup {Nil}]
  /\ joining \in [Server -> BOOLEAN]
  /\ disk \in [Server -> [currentTerm : Nat, votedFor : Server \cup {Nil}, log : Log]]
  /\ calls \subseteq Call

\* At most one node acts as leader of a term (startElectionLocked and
\* HandleRequestVote over restarts, late votes and late requests).
ElectionSafety ==
  \A m, n \in Server :
    state[m] = "Leader" /\ state[n] = "Leader" /\ currentTerm[m] = currentTerm[n] => m = n

\* The leader hint a node gives its clients (LeaderID) is the node that won
\* the term: two nodes of one term never name different leaders.
LeaderHintsAgree ==
  \A m, n \in Server :
    /\ currentTerm[m] = currentTerm[n]
    /\ leaderID[m] # Nil
    /\ leaderID[n] # Nil
    => leaderID[m] = leaderID[n]

\* Everything a log stands for: the snapshot's commands, then the entries'.
History(lg) ==
  lg.base.data \o [i \in 1..Len(lg.tail) |->
                     [index |-> lg.base.index + i, cmd |-> lg.tail[i].cmd]]

\* IsPrefix of SequencesExt, without that module: it doubles the time of the
\* proofs.
PrefixOf(s, t) == Len(s) <= Len(t) /\ s = SubSeq(t, 1, Len(s))

\* Two logs that have the same term at an index agree up to it: the terms of
\* all earlier indexes both still hold, and the history, are the same
\* (HandleAppendEntries' check of PrevLogTerm and its conflict repair).
LogMatching ==
  \A m, n \in Server :
    \A i \in log[m].base.index..LastIndex(log[m]) :
      Has(log[n], i) /\ TermAt(log[m], i) = TermAt(log[n], i)
        => /\ SubSeq(History(log[m]), 1, i) = SubSeq(History(log[n]), 1, i)
           /\ \A j \in log[m].base.index..i :
                Has(log[n], j) => TermAt(log[m], j) = TermAt(log[n], j)

\* What any node has applied is in the history of every leader of its term
\* or of a later one (the vote's up-to-date rule and advanceCommitLocked).
LeaderCompleteness ==
  \A l, n \in Server :
    state[l] = "Leader" /\ currentTerm[l] >= currentTerm[n]
      => PrefixOf(machine[n], History(log[l]))

\* No two nodes apply different commands at the same index.
StateMachineSafety ==
  \A m, n \in Server :
    PrefixOf(machine[m], machine[n]) \/ PrefixOf(machine[n], machine[m])

\* What any node has applied is in the logs of a majority of the members, so
\* it survives the loss of any minority; the disk holds the same logs.
CommittedOnMajority ==
  \A n \in Server :
    Cardinality({p \in Server : PrefixOf(machine[n], History(disk[p].log))})
      >= Majority(log[n])

\* A state machine has been given exactly the first lastApplied commands that
\* its log and snapshot stand for: none is skipped, repeated or reordered by
\* compaction, InstallSnapshot, conflict repair or a restart.
AppliedFromLog ==
  \A n \in Server :
    /\ Has(log[n], lastApplied[n])
    /\ machine[n] = SubSeq(History(log[n]), 1, lastApplied[n])

\* A leader never sends a commit index beyond the entries the request proves
\* the follower to have: the follower cuts LeaderCommit at its own last index
\* and not, as the Raft paper does, at the last entry of the request.
CommitWithinRequest ==
  \A c \in calls : c.kind = "append" => c.commit <= c.prev + Len(c.entries)

\* A vote or an append that is acknowledged is on the voter's disk before the
\* answer leaves (persistLocked before return): the vote itself, and a log that
\* ends, at the index acknowledged, with the entry of the leader of that term
\* (a request reaches up to the leader's last entry) or has compacted it.
AcknowledgedOnDisk ==
  \A c \in calls :
    /\ c.kind = "voteResp" /\ c.granted =>
         \/ disk[c.to].currentTerm > c.term
         \/ disk[c.to].currentTerm = c.term /\ disk[c.to].votedFor = c.from
    /\ c.kind = "appendResp" /\ c.success =>
         \/ disk[c.to].currentTerm > c.term
         \/ c.match < disk[c.to].log.base.index
         \/ /\ Has(disk[c.to].log, c.match)
            /\ TermAt(disk[c.to].log, c.match) = c.term

\* Terms never go back, and a vote is never changed or forgotten within a
\* term, a crash and restart included.
VoteOnceStep ==
  \A n \in Server :
    /\ currentTerm'[n] >= currentTerm[n]
    /\ currentTerm'[n] = currentTerm[n] /\ votedFor[n] # Nil => votedFor'[n] = votedFor[n]

VoteOnce == [][VoteOnceStep]_vars

\* A leader never removes or rewrites what its log stands for.
LeaderAppendOnly ==
  [][\A n \in Server :
       state[n] = "Leader" /\ state'[n] = "Leader"
         => PrefixOf(History(log[n]), History(log'[n]))]_vars
=============================================================================
