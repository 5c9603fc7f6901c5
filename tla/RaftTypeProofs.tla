--------------------------- MODULE RaftTypeProofs ---------------------------
(***************************************************************************)
(* Type correctness of RaftNode.  TypeOK alone is not inductive: what      *)
(* applyCommittedLocked delivers has a type only if lastApplied is not     *)
(* below the snapshot, so that the next entry to apply is still in the     *)
(* log.  TypeInv adds that.                                                *)
(***************************************************************************)
EXTENDS RaftLogProofs

ElectionType ==
  /\ state \in [Server -> {"Follower", "Candidate", "Leader"}]
  /\ currentTerm \in [Server -> Nat]
  /\ votedFor \in [Server -> Server \cup {Nil}]
  /\ votesReceived \in [Server -> SUBSET Server]
  /\ leaderID \in [Server -> Server \cup {Nil}]
  /\ joining \in [Server -> BOOLEAN]

LogsType ==
  /\ log \in [Server -> Log]
  /\ commitIndex \in [Server -> Nat]
  /\ lastApplied \in [Server -> Nat]
  /\ machine \in [Server -> Seq(ApplyMsg)]
  /\ \A n \in Server : lastApplied[n] >= log[n].base.index

LeaderType ==
  /\ nextIndex \in [Server -> [Server -> Nat]]
  /\ matchIndex \in [Server -> [Server -> Nat]]
  /\ replicating \in [Server -> [Server -> BOOLEAN]]

DiskType == disk \in [Server -> [currentTerm : Nat, votedFor : Server \cup {Nil}, log : Log]]

CallsType == calls \subseteq Call

TypeInv == ElectionType /\ LogsType /\ LeaderType /\ DiskType /\ CallsType

-----------------------------------------------------------------------------
(* The records of calls.                                                   *)

LEMMA CallFields ==
  ASSUME NEW c \in Call
  PROVE  /\ c.from \in Server /\ c.to \in Server /\ c.waiter \in Nat
         /\ c.kind \notin {"top", "exit"} => c.term \in Nat
         /\ c.kind = "vote" => c.lastIndex \in Nat /\ c.lastTerm \in Nat
         /\ c.kind = "voteResp" => c.rterm \in Nat /\ c.granted \in BOOLEAN
         /\ c.kind = "append" => /\ c.prev \in Nat /\ c.prevTerm \in Nat
                                 /\ c.entries \in Seq(Entry) /\ c.commit \in Nat
         /\ c.kind = "appendResp" => /\ c.match \in Nat /\ c.rterm \in Nat
                                     /\ c.success \in BOOLEAN
         /\ c.kind = "install" => c.base \in Base
         /\ c.kind = "installResp" => c.match \in Nat /\ c.rterm \in Nat
BY DEF Call, Record

LEMMA ThreadType ==
  ASSUME NEW pc \in {"top", "exit"}, NEW n \in Server, NEW p \in Server, NEW s \in Nat
  PROVE  Thread(pc, n, p, s) \in Call
BY DEF Thread, Call, Record

\* A request keeps its type when its caller is gone.
LEMMA OrphanType ==
  ASSUME NEW c \in Call, c.kind \in {"vote", "append", "install"}
  PROVE  [c EXCEPT !.waiter = 0] \in Call
BY DEF Call, Record

LEMMA OrphanedType ==
  ASSUME NEW n \in Server, NEW rest, rest \subseteq Call
  PROVE  Orphaned(n, rest) \subseteq Call
<1> DEFINE sent == {d \in rest : d.from = n /\ d.kind \in {"vote", "append", "install"}}
<1>1. ASSUME NEW c \in sent PROVE [c EXCEPT !.waiter = 0] \in Call
  BY OrphanType
<1> QED
  BY <1>1 DEF Orphaned

LEMMA RespondType ==
  ASSUME NEW c \in calls, NEW answer \in Call, CallsType, Respond(c, answer)
  PROVE  CallsType'
BY DEF CallsType, Respond

-----------------------------------------------------------------------------
(* The fragments the handlers share.                                       *)

LEMMA PersistType ==
  ASSUME NEW n \in Server, DiskType, ElectionType', LogsType', Persist(n)
  PROVE  DiskType'
<1>1. /\ currentTerm'[n] \in Nat
      /\ votedFor'[n] \in Server \cup {Nil}
      /\ log'[n] \in Log
  BY DEF ElectionType, LogsType
<1>2. Durable(currentTerm'[n], votedFor'[n], log'[n])
        \in [currentTerm : Nat, votedFor : Server \cup {Nil}, log : Log]
  BY <1>1 DEF Durable
<1> QED
  BY <1>2 DEF DiskType, Persist

\* An index after f, counted from the base b of a log with t entries.
LEMMA TailPosition ==
  ASSUME NEW f \in Nat, NEW k \in Nat, NEW b \in Nat, NEW t \in Nat, NEW u \in Nat,
         f >= b, k >= 1, k <= u - f, u <= b + t
  PROVE  f + k - b \in 1..t
OBVIOUS

LEMMA ApplyCommittedType ==
  ASSUME NEW n \in Server, NEW lg \in Log, NEW commit \in Nat,
         LogsType, lastApplied[n] >= lg.base.index, ApplyCommitted(n, lg, commit)
  PROVE  LogsType'
<1> DEFINE from == lastApplied[n]
           bound == Min({commit, LastIndex(lg)})
           upto == Max({from, bound})
           delivered == [k \in 1..(upto - from) |->
                           [index |-> from + k,
                            cmd |-> lg.tail[from + k - lg.base.index].cmd]]
           applied == machine[n] \o delivered
<1>1. from \in Nat /\ from >= lg.base.index /\ machine[n] \in Seq(ApplyMsg)
  BY DEF LogsType
<1>2. upto \in Nat /\ upto >= from /\ (upto = from \/ upto <= LastIndex(lg))
  <2>1. bound \in Nat /\ bound <= LastIndex(lg)
    BY MinOfTwo, LogType
  <2> HIDE DEF from, bound
  <2>2. upto = IF from >= bound THEN from ELSE bound
    BY <1>1, <2>1, MaxOfTwo
  <2> HIDE DEF upto
  <2> QED
    BY <1>1, <2>1, <2>2, LogType
<1>3. delivered \in Seq(ApplyMsg)
  <2>0. lg.base.index \in Nat /\ Len(lg.tail) \in Nat /\ lg.tail \in Seq(Entry)
        /\ LastIndex(lg) = lg.base.index + Len(lg.tail)
    BY LogType DEF LastIndex
  <2> HIDE DEF from, upto
  <2>1. ASSUME NEW k \in 1..(upto - from)
        PROVE  [index |-> from + k, cmd |-> lg.tail[from + k - lg.base.index].cmd] \in ApplyMsg
    <3>1. from + k - lg.base.index \in 1..Len(lg.tail)
      <4> HIDE DEF bound, delivered, applied
      <4>1. k \in Nat /\ k >= 1 /\ k <= upto - from
        BY <1>1, <1>2
      <4>2. upto <= lg.base.index + Len(lg.tail)
        BY <1>1, <1>2, <2>0, <4>1
      <4> QED
        BY <1>1, <1>2, <2>0, <4>1, <4>2, TailPosition
    <3>2. lg.tail[from + k - lg.base.index] \in Entry
      BY <2>0, <3>1, ElementOfSeq
    <3> QED
      BY <1>1, <3>2 DEF Entry, ApplyMsg
  <2>2. delivered \in [1..(upto - from) -> ApplyMsg]
    BY <2>1
  <2>3. upto - from \in Nat
    BY <1>1, <1>2
  <2> HIDE DEF delivered
  <2> QED
    BY <2>2, <2>3, SeqDef
<1> HIDE DEF delivered
<1>4. applied \in Seq(ApplyMsg)
  BY <1>1, <1>3, ConcatProperties
<1>5. /\ Compact(lg, upto, applied) \in Log
      /\ Compact(lg, upto, applied).base.index <= upto
  <2> HIDE DEF upto, applied
  <2> QED
    BY <1>1, <1>2, <1>4, CompactType, LogType
<1>6. /\ commitIndex' = [commitIndex EXCEPT ![n] = commit]
      /\ lastApplied' = [lastApplied EXCEPT ![n] = upto]
      /\ machine' = [machine EXCEPT ![n] = applied]
      /\ log' = [log EXCEPT ![n] = Compact(lg, upto, applied)]
  BY DEF ApplyCommitted, delivered
<1> HIDE DEF upto, applied
<1> QED
  BY <1>1, <1>2, <1>4, <1>5, <1>6 DEF LogsType

LEMMA BroadcastType ==
  ASSUME NEW n \in Server, NEW rest, rest \subseteq Call, NEW peers \in SUBSET Server,
         NEW busy \in [Server -> BOOLEAN], LeaderType, Broadcast(n, rest, peers, busy)
  PROVE  replicating' \in [Server -> [Server -> BOOLEAN]] /\ CallsType'
<1> DEFINE idle == {p \in peers \ {n} : ~busy[p]}
<1>1. PICK slot \in [idle -> Slot] :
        /\ replicating' = [replicating EXCEPT ![n] = [p \in Server |-> busy[p] \/ p \in idle]]
        /\ calls' = rest \cup {Thread("top", n, p, slot[p]) : p \in idle}
  BY DEF Broadcast
<1>2. [p \in Server |-> busy[p] \/ p \in idle] \in [Server -> BOOLEAN]
  OBVIOUS
<1>3. ASSUME NEW p \in idle PROVE Thread("top", n, p, slot[p]) \in Call
  BY SlotAssumption, ThreadType, Zenon
<1> HIDE DEF idle
<1> QED
  BY <1>1, <1>2, <1>3 DEF LeaderType, CallsType

\* One leader's record of one peer changes.
LEMMA UpdateType ==
  ASSUME NEW S, NEW f \in [Server -> [Server -> S]], NEW n \in Server, NEW p \in Server,
         NEW v \in S
  PROVE  /\ [f EXCEPT ![n][p] = v] \in [Server -> [Server -> S]]
         /\ [f[n] EXCEPT ![p] = v] \in [Server -> S]
OBVIOUS

\* A log with one more entry of a leader.
LEMMA AppendType ==
  ASSUME NEW lg \in Log, NEW term \in Nat, NEW cmd \in Command \cup {NoOp}
  PROVE  LET new == [lg EXCEPT !.tail =
                       Append(@, [term |-> term, cmd |-> cmd, peers |-> {}])]
         IN  new \in Log /\ new.base = lg.base /\ LastIndex(new) = LastIndex(lg) + 1
<1> DEFINE e == [term |-> term, cmd |-> cmd, peers |-> {}]
<1>1. e \in Entry
  BY DEF Entry
<1> HIDE DEF e
<1>2. Append(lg.tail, e) \in Seq(Entry) /\ Len(Append(lg.tail, e)) = Len(lg.tail) + 1
  BY <1>1, LogType, AppendProperties
<1>3. [lg EXCEPT !.tail = Append(@, e)] = [base |-> lg.base, tail |-> Append(lg.tail, e)]
  BY LogRecord
<1>4. lg.base \in Base /\ lg.base.index \in Nat /\ Len(lg.tail) \in Nat
  BY LogType
<1> DEFINE more == [base |-> lg.base, tail |-> Append(lg.tail, e)]
<1>5. more \in Log /\ more.base = lg.base /\ more.tail = Append(lg.tail, e)
  BY <1>2, <1>4 DEF Log
<1> HIDE DEF more
<1>6. LastIndex(more) = LastIndex(lg) + 1
  <2>1. LastIndex(more) = lg.base.index + (Len(lg.tail) + 1)
    BY <1>2, <1>5 DEF LastIndex
  <2> QED
    BY <1>4, <2>1 DEF LastIndex
<1> QED
  BY <1>3, <1>5, <1>6 DEF more, e

LEMMA BecomeLeaderType ==
  ASSUME NEW n \in Server, NEW term \in Nat, NEW rest, rest \subseteq Call,
         LogsType, LeaderType, BecomeLeader(n, term, rest)
  PROVE  LogsType' /\ LeaderType' /\ CallsType'
<1> DEFINE last  == LastIndex(log[n])
           lg    == [log[n] EXCEPT !.tail =
                       Append(@, [term |-> term, cmd |-> NoOp, peers |-> {}])]
           match == [p \in Server |-> IF p = n THEN last + 1 ELSE 0]
           next  == [p \in Server |-> IF p = n THEN last + 2
                                      ELSE IF p \in Peers(lg) THEN last + 1 ELSE 0]
           commit == AdvanceCommit(lg, match, term, commitIndex[n])
<1>1. log[n] \in Log /\ last \in Nat /\ commitIndex[n] \in Nat
      /\ lastApplied[n] >= log[n].base.index
  BY LogType DEF LogsType
<1>2. lg \in Log /\ lg.base = log[n].base
  BY <1>1, AppendType
<1> HIDE DEF lg
<1>3. commit \in Nat
  BY <1>1, <1>2, AdvanceCommitType
<1>4. ApplyCommitted(n, lg, commit) /\ Broadcast(n, rest, Peers(lg), [p \in Server |-> FALSE])
      /\ nextIndex' = [nextIndex EXCEPT ![n] = next]
      /\ matchIndex' = [matchIndex EXCEPT ![n] = match]
  BY DEF BecomeLeader, lg
<1> HIDE DEF commit
<1>5. LogsType'
  BY <1>1, <1>2, <1>3, <1>4, ApplyCommittedType
<1>6. replicating' \in [Server -> [Server -> BOOLEAN]] /\ CallsType'
  <2>1. [p \in Server |-> FALSE] \in [Server -> BOOLEAN]
    OBVIOUS
  <2> QED
    BY <1>2, <1>4, <2>1, PeersType, BroadcastType, Zenon
<1>7. match \in [Server -> Nat] /\ next \in [Server -> Nat]
  BY <1>1
<1> HIDE DEF match, next
<1> QED
  BY <1>4, <1>5, <1>6, <1>7, Zenon DEF LeaderType

LEMMA StepDownType ==
  ASSUME NEW n \in Server, NEW term \in Nat, ElectionType, LogsType, DiskType,
         StepDown(n, term)
  PROVE  ElectionType' /\ LogsType' /\ DiskType'
<1>1. ElectionType'
  BY DEF ElectionType, StepDown
<1>2. LogsType'
  BY DEF LogsType, StepDown, logVars
<1> QED
  BY <1>1, <1>2, PersistType DEF StepDown

LEMMA FollowType ==
  ASSUME NEW n \in Server, NEW c \in Call, c.term \in Nat, ElectionType, Follow(n, c)
  PROVE  ElectionType'
BY CallFields DEF ElectionType, Follow

LEMMA LoadType ==
  ASSUME NEW n \in Server, NEW rest, rest \subseteq Call, TypeInv,
         NEW saved \in [currentTerm : Nat, votedFor : Server \cup {Nil}, log : Log],
         Load(n, saved, rest)
  PROVE  TypeInv'
<1>1. saved.log \in Log /\ saved.log.base.index \in Nat
      /\ saved.log.base.data \in Seq(ApplyMsg)
  BY LogType
<1>2. ElectionType'
  BY DEF TypeInv, ElectionType, Load
<1>3. LogsType'
  BY <1>1 DEF TypeInv, LogsType, Load
<1>4. LeaderType'
  BY DEF TypeInv, LeaderType, Load
<1>5. DiskType'
  BY DEF TypeInv, DiskType, Load
<1>6. CallsType'
  BY OrphanedType DEF CallsType, Load
<1> QED
  BY <1>2, <1>3, <1>4, <1>5, <1>6 DEF TypeInv

-----------------------------------------------------------------------------
(* One lemma per action.                                                   *)

LEMMA StartElectionType ==
  ASSUME TypeInv, NEW n \in Server, StartElection(n)
  PROVE  TypeInv'
<1> DEFINE term == currentTerm[n] + 1
<1> USE DEF TypeInv
<1>0. term \in Nat /\ log[n] \in Log /\ commitIndex[n] \in Nat
      /\ lastApplied[n] >= log[n].base.index /\ calls \subseteq Call
  BY DEF ElectionType, LogsType, CallsType
<1>1. CASE 1 >= Majority(log[n])
  <2>1. BecomeLeader(n, term, calls)
    BY <1>1 DEF StartElection
  <2>2. LogsType' /\ LeaderType' /\ CallsType'
    BY <1>0, <2>1, BecomeLeaderType
  <2>3. ElectionType'
    BY <1>0, <2>1 DEF ElectionType, StartElection, BecomeLeader
  <2> QED
    BY <2>2, <2>3, PersistType DEF StartElection
<1>2. CASE ~(1 >= Majority(log[n]))
  <2>1. ApplyCommitted(n, log[n], commitIndex[n]) /\ UNCHANGED leaderVars
    BY <1>2 DEF StartElection
  <2>2. LogsType'
    BY <1>0, <2>1, ApplyCommittedType
  <2>3. ElectionType'
    BY <1>0, <1>2 DEF ElectionType, StartElection
  <2>4. CallsType'
    <3>1. ASSUME NEW p \in Peers(log[n]) \ {n} PROVE VoteRequest(n, p, term) \in Call
      <4>1. p \in Server
        BY <1>0, PeersType
      <4>2. LastIndex(log[n]) \in Nat /\ LastTerm(log[n]) \in Nat
        BY <1>0, LogType, LastTermType
      <4> HIDE DEF term
      <4> QED
        BY <1>0, <4>1, <4>2 DEF VoteRequest, Call
    <3>2. calls' = calls \cup {VoteRequest(n, p, term) : p \in Peers(log[n]) \ {n}}
      BY <1>2 DEF StartElection
    <3> QED
      BY <3>1, <3>2 DEF CallsType
  <2>5. LeaderType'
    BY <2>1 DEF LeaderType, leaderVars
  <2> QED
    BY <2>2, <2>3, <2>4, <2>5, PersistType DEF StartElection
<1> QED
  BY <1>1, <1>2

LEMMA HandleRequestVoteType ==
  ASSUME TypeInv, NEW c \in calls, HandleRequestVote(c)
  PROVE  TypeInv'
<1> DEFINE n == c.to
           answer == [kind |-> "voteResp", from |-> c.from, to |-> n, waiter |-> 1,
                      term |-> c.term, rterm |-> currentTerm'[n],
                      granted |-> GrantsVote(n, c)]
<1> USE DEF TypeInv
<1>0. c \in Call /\ c.kind = "vote" /\ n \in Server /\ c.from \in Server
      /\ c.term \in Nat /\ currentTerm[n] \in Nat
  BY CallFields, Zenon DEF CallsType, ElectionType, HandleRequestVote
<1>1. ElectionType'
  <2>1. Max({currentTerm[n], c.term}) \in Nat
    BY <1>0, MaxOfTwo
  <2> QED
    BY <1>0, <2>1 DEF ElectionType, HandleRequestVote
<1>2. LogsType' /\ LeaderType'
  BY DEF LogsType, LeaderType, HandleRequestVote, logVars, leaderVars
<1>3. DiskType'
  <2>1. Persist(n) \/ UNCHANGED disk
    BY DEF HandleRequestVote
  <2> QED
    BY <1>0, <1>1, <1>2, <2>1, PersistType DEF DiskType
<1>4. CallsType'
  <2>1. GrantsVote(n, c) \in BOOLEAN
    BY DEF GrantsVote
  <2>2. currentTerm'[n] \in Nat
    BY <1>0, <1>1 DEF ElectionType
  <2>3. answer \in Call
    BY <1>0, <2>1, <2>2 DEF Call
  <2>4. Respond(c, answer)
    BY DEF HandleRequestVote
  <2> HIDE DEF answer
  <2> QED
    BY <2>3, <2>4, RespondType
<1> QED
  BY <1>1, <1>2, <1>3, <1>4

LEMMA HandleVoteResponseType ==
  ASSUME TypeInv, NEW c \in calls, HandleVoteResponse(c)
  PROVE  TypeInv'
<1> DEFINE n == c.from
           rest == calls \ {c}
           counts == state[n] = "Candidate" /\ currentTerm[n] = c.term /\ c.granted
           votes == votesReceived[n] \cup {c.to}
<1> USE DEF TypeInv
<1>0. c \in Call /\ c.kind = "voteResp" /\ n \in Server /\ c.to \in Server
      /\ c.term \in Nat /\ c.rterm \in Nat /\ rest \subseteq Call
  BY CallFields DEF CallsType, HandleVoteResponse
<1>1. CASE StepDown(n, c.rterm) /\ calls' = rest /\ UNCHANGED leaderVars
  <2>1. ElectionType' /\ LogsType' /\ DiskType'
    BY <1>0, <1>1, StepDownType
  <2> QED
    BY <1>0, <1>1, <2>1 DEF LeaderType, CallsType, leaderVars
<1>2. CASE /\ votesReceived' = [votesReceived EXCEPT ![n] = votes]
           /\ UNCHANGED <<currentTerm, votedFor, joining>>
           /\ BecomeLeader(n, c.term, rest) /\ Persist(n)
  <2>1. LogsType' /\ LeaderType' /\ CallsType'
    BY <1>0, <1>2, BecomeLeaderType
  <2>2. ElectionType'
    BY <1>0, <1>2 DEF ElectionType, BecomeLeader
  <2> QED
    BY <1>0, <1>2, <2>1, <2>2, PersistType
<1>3. CASE /\ votesReceived' = [votesReceived EXCEPT ![n] = votes]
           /\ UNCHANGED <<currentTerm, votedFor, joining>>
           /\ calls' = rest /\ UNCHANGED <<state, leaderID, logVars, leaderVars, disk>>
  BY <1>0, <1>3, Zenon DEF ElectionType, LogsType, LeaderType, DiskType, CallsType,
                    logVars, leaderVars
<1>4. CASE calls' = rest /\ UNCHANGED <<electionVars, logVars, leaderVars, disk>>
  BY <1>0, <1>4, Zenon DEF ElectionType, LogsType, LeaderType, DiskType, CallsType,
                    electionVars, logVars, leaderVars
<1> QED
  BY <1>1, <1>2, <1>3, <1>4 DEF HandleVoteResponse

\* A step that only applies what is committed and saves a compacted log.
LEMMA TickType ==
  ASSUME TypeInv, NEW n \in Server, Tick(n)
  PROVE  TypeInv'
<1> USE DEF TypeInv
<1>1. LogsType'
  <2>1. log[n] \in Log /\ commitIndex[n] \in Nat /\ lastApplied[n] >= log[n].base.index
    BY DEF LogsType
  <2> QED
    BY <2>1, ApplyCommittedType DEF Tick
<1>2. ElectionType' /\ LeaderType' /\ CallsType'
  BY DEF ElectionType, LeaderType, CallsType, Tick, electionVars, leaderVars
<1>3. Persist(n) \/ UNCHANGED disk
  BY DEF Tick
<1> QED
  BY <1>1, <1>2, <1>3, PersistType DEF DiskType

LEMMA HeartbeatType ==
  ASSUME TypeInv, NEW n \in Server, Heartbeat(n)
  PROVE  TypeInv'
<1> USE DEF TypeInv
<1>0. log[n] \in Log /\ commitIndex[n] \in Nat /\ lastApplied[n] >= log[n].base.index
      /\ replicating[n] \in [Server -> BOOLEAN] /\ calls \subseteq Call
  BY DEF LogsType, LeaderType, CallsType
<1>1. LogsType'
  BY <1>0, ApplyCommittedType DEF Heartbeat
<1>2. ElectionType'
  BY DEF ElectionType, Heartbeat, electionVars
<1>3. LeaderType' /\ CallsType'
  <2>1. replicating' \in [Server -> [Server -> BOOLEAN]] /\ CallsType'
    BY <1>0, PeersType, BroadcastType, Zenon DEF Heartbeat
  <2> QED
    BY <2>1 DEF LeaderType, Heartbeat
<1>4. Persist(n) \/ UNCHANGED disk
  BY DEF Heartbeat
<1> QED
  BY <1>1, <1>2, <1>3, <1>4, PersistType DEF DiskType

LEMMA ProposeType ==
  ASSUME TypeInv, NEW n \in Server, NEW cmd \in Command, Propose(n, cmd)
  PROVE  TypeInv'
<1> DEFINE term  == currentTerm[n]
           lg    == [log[n] EXCEPT !.tail =
                       Append(@, [term |-> term, cmd |-> cmd, peers |-> {}])]
           match == [matchIndex[n] EXCEPT ![n] = LastIndex(lg)]
           commit == AdvanceCommit(lg, match, term, commitIndex[n])
<1> USE DEF TypeInv
<1>0. log[n] \in Log /\ commitIndex[n] \in Nat /\ lastApplied[n] >= log[n].base.index
      /\ term \in Nat /\ replicating[n] \in [Server -> BOOLEAN] /\ calls \subseteq Call
  BY DEF LogsType, ElectionType, LeaderType, CallsType
<1>1. lg \in Log /\ lg.base = log[n].base
  BY <1>0, AppendType
<1>2. /\ ApplyCommitted(n, lg, commit) /\ Persist(n)
      /\ Broadcast(n, calls, Peers(lg), replicating[n])
      /\ matchIndex' = [matchIndex EXCEPT ![n] = match]
      /\ nextIndex' = [nextIndex EXCEPT ![n][n] = LastIndex(lg) + 1]
  BY DEF Propose
<1> HIDE DEF lg
<1>3. commit \in Nat
  BY <1>0, <1>1, AdvanceCommitType
<1> HIDE DEF commit
<1>4. LogsType'
  BY <1>0, <1>1, <1>2, <1>3, ApplyCommittedType
<1>5. ElectionType'
  BY DEF ElectionType, Propose, electionVars
<1>6. replicating' \in [Server -> [Server -> BOOLEAN]] /\ CallsType'
  BY <1>0, <1>1, <1>2, PeersType, BroadcastType, Zenon
<1>7. LeaderType'
  <2>1. LastIndex(lg) \in Nat
    BY <1>1, LogType
  <2>2. match \in [Server -> Nat] /\ nextIndex' \in [Server -> [Server -> Nat]]
    BY <1>2, <2>1, UpdateType DEF LeaderType
  <2> HIDE DEF match
  <2> QED
    BY <1>2, <1>6, <2>2 DEF LeaderType
<1> QED
  BY <1>2, <1>4, <1>5, <1>6, <1>7, PersistType

LEMMA ReplicateToType ==
  ASSUME TypeInv, NEW c \in calls, ReplicateTo(c)
  PROVE  TypeInv'
<1> DEFINE n == c.from
           p == c.to
           snap == log[n].base.index
           next == Min({nextIndex[n][p], LastIndex(log[n]) + 1})
           Goes(thread) == calls' = (calls \ {c}) \cup {thread}
<1> USE DEF TypeInv
<1>0. c \in Call /\ n \in Server /\ p \in Server /\ c.waiter \in Nat /\ log[n] \in Log
      /\ currentTerm[n] \in Nat /\ commitIndex[n] \in Nat /\ nextIndex[n][p] \in Nat
      /\ calls \subseteq Call
  BY CallFields DEF CallsType, LogsType, ElectionType, LeaderType
<1>1. ElectionType' /\ LogsType' /\ DiskType'
  BY DEF ElectionType, LogsType, DiskType, ReplicateTo, electionVars, logVars
<1>2. matchIndex' = matchIndex /\ replicating' = replicating
  BY DEF ReplicateTo
<1>3. CASE Goes(Thread("exit", n, p, c.waiter)) /\ UNCHANGED nextIndex
  BY <1>0, <1>1, <1>2, <1>3, ThreadType DEF LeaderType, CallsType
<1>4. CASE Goes(InstallRequest(c)) /\ UNCHANGED nextIndex
  <2>1. InstallRequest(c) \in Call
    BY <1>0, LogType DEF InstallRequest, Call
  <2> QED
    BY <1>0, <1>1, <1>2, <1>4, <2>1 DEF LeaderType, CallsType
<1>5. CASE /\ nextIndex[n][p] > snap
           /\ nextIndex' = [nextIndex EXCEPT ![n][p] = next]
           /\ Goes(AppendRequest(c, next))
  <2>1. next \in Nat /\ next > snap /\ next <= LastIndex(log[n]) + 1 /\ snap \in Nat
    <3>1. LastIndex(log[n]) \in Nat /\ LastIndex(log[n]) >= snap /\ snap \in Nat
      BY <1>0, LogType
    <3>2. next = IF nextIndex[n][p] <= LastIndex(log[n]) + 1
                 THEN nextIndex[n][p] ELSE LastIndex(log[n]) + 1
      BY <1>0, <3>1, LastIndex(log[n]) + 1 \in Nat, MinOfTwo
    <3> HIDE DEF next
    <3> QED
      BY <1>0, <1>5, <3>1, <3>2
  <2> HIDE DEF next
  <2>2. next - 1 \in Nat /\ Has(log[n], next - 1)
    <3>1. LastIndex(log[n]) \in Nat
      BY <1>0, LogType
    <3>2. next - 1 \in Nat /\ next - 1 >= snap /\ next - 1 <= LastIndex(log[n])
      BY <2>1, <3>1
    <3> QED
      BY <3>2 DEF Has
  <2>3. TermAt(log[n], next - 1) \in Nat
    BY <1>0, <2>2, TermAtType
  <2>4. SubSeq(log[n].tail, next - snap, Len(log[n].tail)) \in Seq(Entry)
    <3>0. log[n].tail \in Seq(Entry) /\ Len(log[n].tail) \in Nat
      BY <1>0, LogType
    <3>1. \A i \in (next - snap)..Len(log[n].tail) : log[n].tail[i] \in Entry
      <4> HIDE DEF snap
      <4>1. (next - snap)..Len(log[n].tail) \subseteq 1..Len(log[n].tail)
        BY <2>1, <3>0
      <4> QED
        BY <3>0, <4>1, ElementOfSeq, Zenon
    <3>2. next - snap \in Int /\ Len(log[n].tail) \in Int
      BY <2>1, <3>0
    <3> QED
      BY <3>1, <3>2, SubSeqProperties
  <2>5. AppendRequest(c, next) \in Call
    BY <1>0, <2>2, <2>3, <2>4 DEF AppendRequest, Call
  <2>6. nextIndex' \in [Server -> [Server -> Nat]]
    BY <1>0, <1>5, <2>1, UpdateType DEF LeaderType
  <2> QED
    BY <1>0, <1>1, <1>2, <1>5, <2>5, <2>6 DEF LeaderType, CallsType
<1> QED
  BY <1>3, <1>4, <1>5 DEF ReplicateTo

\* The leader counts an answer: the common part of the two response handlers.
LEMMA CountType ==
  ASSUME TypeInv, NEW n \in Server, NEW p \in Server, NEW m \in Nat, NEW term \in Nat,
         matchIndex' = [matchIndex EXCEPT ![n] = [matchIndex[n] EXCEPT ![p] = m]],
         nextIndex' = [nextIndex EXCEPT ![n][p] = m + 1],
         ApplyCommitted(n, log[n],
           AdvanceCommit(log[n], [matchIndex[n] EXCEPT ![p] = m], term, commitIndex[n])),
         UNCHANGED electionVars, UNCHANGED replicating,
         Persist(n) \/ UNCHANGED disk
  PROVE  ElectionType' /\ LogsType' /\ LeaderType' /\ DiskType'
<1> DEFINE match == [matchIndex[n] EXCEPT ![p] = m]
           commit == AdvanceCommit(log[n], match, term, commitIndex[n])
<1> USE DEF TypeInv
<1>0. log[n] \in Log /\ commitIndex[n] \in Nat /\ lastApplied[n] >= log[n].base.index
  BY DEF LogsType
<1>1. match \in [Server -> Nat] /\ nextIndex' \in [Server -> [Server -> Nat]]
  BY UpdateType DEF LeaderType
<1> HIDE DEF match
<1>2. commit \in Nat
  BY <1>0, AdvanceCommitType
<1>3. LogsType'
  <2>1. ApplyCommitted(n, log[n], commit)
    BY DEF match
  <2> HIDE DEF commit
  <2> QED
    BY <1>0, <1>2, <2>1, ApplyCommittedType
<1>4. ElectionType'
  BY DEF ElectionType, electionVars
<1>5. LeaderType'
  <2>1. matchIndex' = [matchIndex EXCEPT ![n] = match]
    BY DEF match
  <2> QED
    BY <1>1, <2>1 DEF LeaderType
<1> QED
  BY <1>3, <1>4, <1>5, PersistType DEF DiskType

LEMMA HandleAppendResponseType ==
  ASSUME TypeInv, NEW c \in calls, HandleAppendResponse(c)
  PROVE  TypeInv'
<1> DEFINE n == c.from
           p == c.to
           snap == log[n].base.index
           next == nextIndex[n][p]
           back == IF next > snap + 1 THEN next - 1
                   ELSE IF snap > 0 THEN snap
                   ELSE IF next > 1 THEN next - 1 ELSE next
           Goes(pc) == calls' = (calls \ {c}) \cup {Thread(pc, n, p, c.waiter)}
<1> USE DEF TypeInv
<1>0. c \in Call /\ c.kind = "appendResp" /\ n \in Server /\ p \in Server
      /\ c.waiter \in Nat /\ c.term \in Nat /\ c.rterm \in Nat /\ c.match \in Nat
      /\ log[n] \in Log /\ next \in Nat
  <2>1. c.kind = "appendResp" /\ c \in Call
    BY DEF HandleAppendResponse, CallsType
  <2> QED
    BY <2>1, CallFields, Zenon DEF LogsType, LeaderType
<1>1. ASSUME NEW pc \in {"top", "exit"}, Goes(pc) PROVE CallsType'
  BY <1>0, <1>1, ThreadType DEF CallsType
<1>2. replicating' = replicating
  BY DEF HandleAppendResponse
<1>3. CASE Goes("exit") /\ UNCHANGED <<electionVars, logVars, nextIndex, matchIndex, disk>>
  BY <1>1, <1>2, <1>3 DEF ElectionType, LogsType, LeaderType, DiskType, electionVars, logVars
<1>4. CASE StepDown(n, c.rterm) /\ Goes("exit") /\ UNCHANGED <<nextIndex, matchIndex>>
  <2>1. ElectionType' /\ LogsType' /\ DiskType'
    BY <1>0, <1>4, StepDownType
  <2> QED
    BY <1>1, <1>2, <1>4, <2>1 DEF LeaderType
<1>5. CASE /\ matchIndex' = [matchIndex EXCEPT ![n] = [matchIndex[n] EXCEPT ![p] = c.match]]
           /\ nextIndex' = [nextIndex EXCEPT ![n][p] = c.match + 1]
           /\ ApplyCommitted(n, log[n], AdvanceCommit(log[n],
                [matchIndex[n] EXCEPT ![p] = c.match], c.term, commitIndex[n]))
           /\ UNCHANGED electionVars
           /\ IF log' # log THEN Persist(n) ELSE UNCHANGED disk
           /\ Goes(IF LastIndex(log[n]) > c.match THEN "top" ELSE "exit")
  <2>1. ElectionType' /\ LogsType' /\ LeaderType' /\ DiskType'
    BY <1>0, <1>2, <1>5, CountType, Zenon
  <2> QED
    BY <1>1, <1>5, <2>1
<1>6. CASE /\ nextIndex' = [nextIndex EXCEPT ![n][p] = back]
           /\ Goes("top") /\ UNCHANGED <<electionVars, logVars, matchIndex, disk>>
  <2>1. back \in Nat
    <3>1. snap \in Nat
      BY <1>0, LogType
    <3> QED
      BY <1>0, <3>1
  <2> HIDE DEF back
  <2>2. nextIndex' \in [Server -> [Server -> Nat]]
    BY <1>0, <1>6, <2>1, UpdateType DEF LeaderType
  <2> QED
    BY <1>1, <1>2, <1>6, <2>2, Zenon DEF ElectionType, LogsType, LeaderType, DiskType,
                                  electionVars, logVars
<1> QED
  BY <1>3, <1>4, <1>5, <1>6 DEF HandleAppendResponse

LEMMA HandleInstallResponseType ==
  ASSUME TypeInv, NEW c \in calls, HandleInstallResponse(c)
  PROVE  TypeInv'
<1> DEFINE n == c.from
           p == c.to
           Goes(pc) == calls' = (calls \ {c}) \cup {Thread(pc, n, p, c.waiter)}
<1> USE DEF TypeInv
<1>0. c \in Call /\ c.kind = "installResp" /\ n \in Server /\ p \in Server
      /\ c.waiter \in Nat /\ c.term \in Nat /\ c.rterm \in Nat /\ c.match \in Nat
  <2>1. c.kind = "installResp" /\ c \in Call
    BY DEF HandleInstallResponse, CallsType
  <2> QED
    BY <2>1, CallFields
<1>1. ASSUME NEW pc \in {"top", "exit"}, Goes(pc) PROVE CallsType'
  BY <1>0, <1>1, ThreadType DEF CallsType
<1>2. replicating' = replicating
  BY DEF HandleInstallResponse
<1>3. CASE Goes("exit") /\ UNCHANGED <<electionVars, logVars, nextIndex, matchIndex, disk>>
  BY <1>1, <1>2, <1>3 DEF ElectionType, LogsType, LeaderType, DiskType, electionVars, logVars
<1>4. CASE StepDown(n, c.rterm) /\ Goes("exit") /\ UNCHANGED <<nextIndex, matchIndex>>
  <2>1. ElectionType' /\ LogsType' /\ DiskType'
    BY <1>0, <1>4, StepDownType
  <2> QED
    BY <1>1, <1>2, <1>4, <2>1 DEF LeaderType
<1>5. CASE /\ matchIndex' = [matchIndex EXCEPT ![n] = [matchIndex[n] EXCEPT ![p] = c.match]]
           /\ nextIndex' = [nextIndex EXCEPT ![n][p] = c.match + 1]
           /\ ApplyCommitted(n, log[n], AdvanceCommit(log[n],
                [matchIndex[n] EXCEPT ![p] = c.match], c.term, commitIndex[n]))
           /\ UNCHANGED electionVars
           /\ IF log' # log THEN Persist(n) ELSE UNCHANGED disk
           /\ Goes(IF LastIndex(log[n]) > c.match THEN "top" ELSE "exit")
  <2>1. ElectionType' /\ LogsType' /\ LeaderType' /\ DiskType'
    BY <1>0, <1>2, <1>5, CountType, Zenon
  <2> QED
    BY <1>1, <1>5, <2>1
<1> QED
  BY <1>3, <1>4, <1>5 DEF HandleInstallResponse

LEMMA ReplicateExitType ==
  ASSUME TypeInv, NEW c \in calls, ReplicateExit(c)
  PROVE  TypeInv'
<1> USE DEF TypeInv
<1>1. replicating' \in [Server -> [Server -> BOOLEAN]]
  BY CallFields, UpdateType DEF CallsType, LeaderType, ReplicateExit, ClearReplicating
<1> QED
  BY <1>1, Zenon DEF ElectionType, LogsType, LeaderType, DiskType, CallsType, ReplicateExit,
              electionVars, logVars

LEMMA RpcErrorType ==
  ASSUME TypeInv, NEW c \in calls, RpcError(c)
  PROVE  TypeInv'
<1> USE DEF TypeInv
<1>1. replicating' \in [Server -> [Server -> BOOLEAN]]
  BY CallFields, UpdateType, Zenon DEF CallsType, LeaderType, RpcError, ClearReplicating
<1>2. CallsType'
  BY OrphanType DEF CallsType, RpcError
<1> QED
  BY <1>1, <1>2, Zenon DEF ElectionType, LogsType, LeaderType, DiskType, RpcError,
                    electionVars, logVars

LEMMA HandleAppendEntriesType ==
  ASSUME TypeInv, NEW c \in calls, HandleAppendEntries(c)
  PROVE  TypeInv'
<1> DEFINE n == c.to
           matches == /\ Has(log[n], c.prev)
                      /\ TermAt(log[n], c.prev) = c.prevTerm
           merged == Merge(log[n], c.prev, c.entries)
           bound == Min({c.commit, LastIndex(merged)})
           Answer(ok) == [kind |-> "appendResp", from |-> c.from, to |-> n,
                          waiter |-> c.waiter, term |-> c.term,
                          match |-> c.prev + Len(c.entries),
                          rterm |-> currentTerm'[n], success |-> ok]
<1> USE DEF TypeInv
<1>0. c \in Call /\ n \in Server /\ c.from \in Server /\ c.waiter \in Nat
      /\ c.term \in Nat /\ c.prev \in Nat /\ c.prevTerm \in Nat /\ c.commit \in Nat
      /\ c.entries \in Seq(Entry) /\ Len(c.entries) \in Nat /\ log[n] \in Log
  <2>1. c.kind = "append" /\ c \in Call
    BY Zenon DEF HandleAppendEntries, CallsType
  <2> QED
    BY <2>1, CallFields, LenProperties DEF LogsType
<1>1. LeaderType'
  BY DEF LeaderType, HandleAppendEntries, leaderVars
<1>2. ASSUME NEW ok \in BOOLEAN, ElectionType', Respond(c, Answer(ok)) PROVE CallsType'
  <2>1. currentTerm'[n] \in Nat
    BY <1>0, <1>2 DEF ElectionType
  <2>2. Answer(ok) \in Call
    BY <1>0, <2>1 DEF Call
  <2> QED
    BY <1>2, <2>2, RespondType
<1>3. CASE UNCHANGED <<electionVars, logVars, disk>> /\ Respond(c, Answer(FALSE))
  <2>1. ElectionType' /\ LogsType' /\ DiskType'
    BY <1>3 DEF ElectionType, LogsType, DiskType, electionVars, logVars
  <2> QED
    BY <1>1, <1>2, <1>3, <2>1, Zenon
<1>4. CASE /\ Follow(n, c)
           /\ IF ~matches THEN UNCHANGED logVars
              ELSE IF c.commit > commitIndex[n]
              THEN ApplyCommitted(n, merged, Min({c.commit, LastIndex(merged)}))
              ELSE /\ log' = [log EXCEPT ![n] = merged]
                   /\ UNCHANGED <<commitIndex, lastApplied, machine>>
           /\ Persist(n) \/ UNCHANGED disk
           /\ Respond(c, Answer(matches))
  <2>1. ElectionType'
    BY <1>0, <1>4, FollowType
  <2>2. LogsType'
    <3>1. CASE UNCHANGED logVars
      BY <3>1 DEF LogsType, logVars
    <3>2. CASE matches /\ ApplyCommitted(n, merged, bound)
      <4>1. merged \in Log /\ merged.base = log[n].base
        BY <1>0, <3>2, MergeType
      <4> HIDE DEF merged
      <4>2. bound \in Nat
        BY <1>0, <4>1, MinOfTwo, LogType
      <4>3. lastApplied[n] >= merged.base.index
        BY <1>0, <4>1 DEF LogsType
      <4> HIDE DEF bound
      <4> QED
        BY <1>0, <3>2, <4>1, <4>2, <4>3, ApplyCommittedType
    <3>3. CASE /\ matches /\ log' = [log EXCEPT ![n] = merged]
               /\ UNCHANGED <<commitIndex, lastApplied, machine>>
      <4>1. merged \in Log /\ merged.base = log[n].base
        BY <1>0, <3>3, MergeType
      <4> HIDE DEF merged
      <4> QED
        BY <1>0, <3>3, <4>1 DEF LogsType
    <3> HIDE DEF merged, matches
    <3> QED
      BY <1>4, <3>1, <3>2, <3>3, Zenon
  <2>3. DiskType'
    BY <1>0, <1>4, <2>1, <2>2, PersistType DEF DiskType
  <2>4. matches \in BOOLEAN
    OBVIOUS
  <2> HIDE DEF matches
  <2> QED
    BY <1>1, <1>2, <1>4, <2>1, <2>2, <2>3, <2>4, Zenon
<1> QED
  BY <1>3, <1>4 DEF HandleAppendEntries

LEMMA HandleInstallSnapshotType ==
  ASSUME TypeInv, NEW c \in calls, HandleInstallSnapshot(c)
  PROVE  TypeInv'
<1> DEFINE n == c.to
           snapped == [base |-> c.base, tail |-> <<>>]
           answer == [kind |-> "installResp", from |-> c.from, to |-> n,
                      waiter |-> c.waiter, term |-> c.term, match |-> c.base.index,
                      rterm |-> currentTerm'[n]]
<1> USE DEF TypeInv
<1>0. c \in Call /\ n \in Server /\ c.from \in Server /\ c.waiter \in Nat
      /\ c.term \in Nat /\ c.base \in Base /\ c.base.index \in Nat
      /\ c.base.data \in Seq(ApplyMsg)
  <2>1. c.kind = "install" /\ c \in Call
    BY DEF HandleInstallSnapshot, CallsType
  <2>2. c.base \in Base
    BY <2>1, CallFields
  <2> QED
    BY <2>1, <2>2, CallFields DEF Base
<1>1. LeaderType'
  BY DEF LeaderType, HandleInstallSnapshot, leaderVars
<1>2. ElectionType' /\ LogsType' /\ DiskType'
  <2>1. CASE UNCHANGED <<electionVars, logVars, disk>>
    BY <2>1 DEF ElectionType, LogsType, DiskType, electionVars, logVars
  <2>2. CASE /\ Follow(n, c)
             /\ \/ UNCHANGED logVars
                \/ /\ log' = [log EXCEPT ![n] = snapped]
                   /\ machine' = [machine EXCEPT ![n] = c.base.data]
                   /\ lastApplied' = [lastApplied EXCEPT ![n] = c.base.index]
                   /\ commitIndex' = [commitIndex EXCEPT ![n] = Max({@, c.base.index})]
             /\ Persist(n) \/ UNCHANGED disk
    <3>1. ElectionType'
      BY <1>0, <2>2, FollowType
    <3>2. LogsType'
      <4>1. snapped \in Log /\ snapped.base.index = c.base.index
        BY <1>0, EmptySeq DEF Log
      <4>2. Max({commitIndex[n], c.base.index}) \in Nat
        <5>1. commitIndex[n] \in Nat
          BY <1>0 DEF LogsType
        <5> QED
          BY <1>0, <5>1, MaxOfTwo
      <4> HIDE DEF snapped
      <4>3. CASE UNCHANGED logVars
        BY <4>3 DEF LogsType, logVars
      <4>4. CASE /\ log' = [log EXCEPT ![n] = snapped]
                 /\ machine' = [machine EXCEPT ![n] = c.base.data]
                 /\ lastApplied' = [lastApplied EXCEPT ![n] = c.base.index]
                 /\ commitIndex' = [commitIndex EXCEPT ![n] = Max({@, c.base.index})]
        <5>1. log' \in [Server -> Log] /\ machine' \in [Server -> Seq(ApplyMsg)]
              /\ lastApplied' \in [Server -> Nat] /\ commitIndex' \in [Server -> Nat]
          BY <1>0, <4>1, <4>2, <4>4 DEF LogsType
        <5>2. ASSUME NEW m \in Server PROVE lastApplied'[m] >= log'[m].base.index
          <6>1. CASE m = n
            BY <1>0, <4>1, <4>4, <6>1 DEF LogsType
          <6>2. CASE m # n
            BY <1>0, <4>4, <6>2 DEF LogsType
          <6> QED
            BY <6>1, <6>2
        <5> QED
          BY <5>1, <5>2 DEF LogsType
      <4> QED
        BY <2>2, <4>3, <4>4
    <3> QED
      BY <1>0, <2>2, <3>1, <3>2, PersistType DEF DiskType
  <2> QED
    BY <2>1, <2>2 DEF HandleInstallSnapshot
<1>3. CallsType'
  <2>1. currentTerm'[n] \in Nat
    BY <1>0, <1>2 DEF ElectionType
  <2>2. answer \in Call
    BY <1>0, <2>1 DEF Call
  <2>3. Respond(c, answer)
    BY DEF HandleInstallSnapshot
  <2> HIDE DEF answer
  <2> QED
    BY <2>2, <2>3, RespondType
<1> QED
  BY <1>1, <1>2, <1>3

LEMMA RestartType ==
  ASSUME TypeInv, NEW n \in Server, Restart(n)
  PROVE  TypeInv'
BY LoadType DEF TypeInv, DiskType, CallsType, Restart

LEMMA HungUpType ==
  ASSUME CallsType, NEW c \in calls
  PROVE  HungUp(c) \subseteq Call
<1>1. c \in Call /\ c.to \in Server /\ c.from \in Server /\ c.waiter \in Nat
  BY CallFields DEF CallsType
<1> QED
  BY <1>1, ThreadType DEF HungUp, CallsType

LEMMA CrashInHandlerType ==
  ASSUME TypeInv, NEW c \in calls, CrashInHandler(c)
  PROVE  TypeInv'
<1>0. c \in Call /\ c.to \in Server /\ c.from \in Server /\ c.waiter \in Nat
      /\ c.term \in Nat /\ log[c.to] \in Log
  BY CallFields, Zenon DEF TypeInv, CallsType, LogsType, CrashInHandler
<1>1. Durable(c.term, Nil, log[c.to])
        \in [currentTerm : Nat, votedFor : Server \cup {Nil}, log : Log]
  BY <1>0 DEF Durable
<1>2. HungUp(c) \subseteq Call
  BY HungUpType DEF TypeInv
<1>3. Load(c.to, Durable(c.term, Nil, log[c.to]), HungUp(c))
  BY DEF CrashInHandler
<1> QED
  BY <1>0, <1>1, <1>2, <1>3, LoadType

LEMMA CrashAfterSaveType ==
  ASSUME TypeInv, NEW c \in calls, CrashAfterSave(c)
  PROVE  TypeInv'
<1> DEFINE n == c.to
           merged == Merge(log[n], c.prev, c.entries)
           vote == IF c.term > currentTerm[n] THEN Nil ELSE votedFor[n]
<1>0. c \in Call /\ c.kind = "append" /\ Has(log[n], c.prev)
      /\ Load(n, Durable(c.term, vote, merged), HungUp(c))
  BY Zenon DEF TypeInv, CallsType, CrashAfterSave
<1>1. n \in Server /\ c.term \in Nat /\ c.prev \in Nat /\ c.entries \in Seq(Entry)
      /\ log[n] \in Log
  BY <1>0, CallFields DEF TypeInv, LogsType
<1>2. merged \in Log
  BY <1>0, <1>1, MergeType
<1>3. vote \in Server \cup {Nil}
  BY <1>1 DEF TypeInv, ElectionType
<1> HIDE DEF merged, vote
<1>4. Durable(c.term, vote, merged)
        \in [currentTerm : Nat, votedFor : Server \cup {Nil}, log : Log]
  BY <1>1, <1>2, <1>3 DEF Durable
<1>5. HungUp(c) \subseteq Call
  BY HungUpType DEF TypeInv
<1> QED
  BY <1>0, <1>1, <1>4, <1>5, LoadType

-----------------------------------------------------------------------------
LEMMA InitType == Init => TypeInv
<1> SUFFICES ASSUME Init PROVE TypeInv
  OBVIOUS
<1>1. EmptyLog(Server) \in Log /\ EmptyLog(Server).base.index = 0
  BY EmptySeq DEF EmptyLog, Log, Base
<1>2. <<>> \in Seq(ApplyMsg)
  BY EmptySeq
<1> QED
  BY <1>1, <1>2 DEF Init, TypeInv, ElectionType, LogsType, LeaderType, DiskType,
                    CallsType, Durable

LEMMA NextType == TypeInv /\ [Next]_vars => TypeInv'
<1> SUFFICES ASSUME TypeInv, [Next]_vars PROVE TypeInv'
  OBVIOUS
<1>1. CASE UNCHANGED vars
  BY <1>1 DEF vars, electionVars, logVars, leaderVars, TypeInv, ElectionType, LogsType,
              LeaderType, DiskType, CallsType
<1>2. ASSUME NEW n \in Server, StartElection(n) PROVE TypeInv'
  BY <1>2, StartElectionType
<1>3. ASSUME NEW n \in Server, Heartbeat(n) PROVE TypeInv'
  BY <1>3, HeartbeatType
<1>4. ASSUME NEW n \in Server, Tick(n) PROVE TypeInv'
  BY <1>4, TickType
<1>5. ASSUME NEW n \in Server, NEW cmd \in Command, Propose(n, cmd) PROVE TypeInv'
  BY <1>5, ProposeType
<1>6. ASSUME NEW n \in Server, Restart(n) PROVE TypeInv'
  BY <1>6, RestartType
<1>7. ASSUME NEW c \in calls,
             \/ HandleRequestVote(c) \/ HandleVoteResponse(c)
             \/ ReplicateTo(c) \/ HandleAppendResponse(c) \/ HandleInstallResponse(c)
             \/ ReplicateExit(c) \/ RpcError(c)
             \/ HandleAppendEntries(c) \/ HandleInstallSnapshot(c)
             \/ CrashInHandler(c) \/ CrashAfterSave(c)
      PROVE  TypeInv'
  BY <1>7, HandleRequestVoteType, HandleVoteResponseType, ReplicateToType,
     HandleAppendResponseType, HandleInstallResponseType, ReplicateExitType, RpcErrorType,
     HandleAppendEntriesType, HandleInstallSnapshotType, CrashInHandlerType,
     CrashAfterSaveType
<1> QED
  BY <1>1, <1>2, <1>3, <1>4, <1>5, <1>6, <1>7 DEF Next

\* The strengthened type invariant holds in every reachable state.
THEOREM TypeInvariant == Spec => []TypeInv
<1>1. Init => TypeInv
  BY InitType
<1>2. TypeInv /\ [Next]_vars => TypeInv'
  BY NextType
<1> QED
  BY <1>1, <1>2, PTL DEF Spec

\* Every field of every node, its disk and every RPC record has its type in
\* every reachable state, for any cluster, any threshold and failing saves
\* included: no handler indexes its log outside the entries it holds.
THEOREM TypeCorrect == Spec => []TypeOK
<1>1. TypeInv => TypeOK
  BY DEF TypeInv, TypeOK, ElectionType, LogsType, LeaderType, DiskType, CallsType
<1> QED
  BY <1>1, TypeInvariant, PTL
=============================================================================
