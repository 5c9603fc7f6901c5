-------------------------- MODULE RaftMemberProofs --------------------------
(***************************************************************************)
(* RaftNode keeps its members: AddServer and RemoveServer are not part of  *)
(* it, and no merge, snapshot, restart or request in flight brings a       *)
(* change of members about.  Majorities are therefore those of Server.     *)
(***************************************************************************)
EXTENDS RaftTypeProofs

(* The membership does not change: no entry carries a change.              *)

PlainEntry == [term : Nat, cmd : Command \cup {NoOp}, peers : {{}}]

Fixed(lg) == lg.base.peers = Server /\ lg.tail \in Seq(PlainEntry)

PlainCall(c) ==
  /\ c.kind = "append" => c.entries \in Seq(PlainEntry)
  /\ c.kind = "install" => c.base.peers = Server

FixedLogs  == \A n \in Server : Fixed(log[n])
FixedDisks == \A n \in Server : Fixed(disk[n].log)
PlainCalls == \A c \in calls : PlainCall(c)

FixedMembership == FixedLogs /\ FixedDisks /\ PlainCalls

\* rebuildMembershipLocked finds the base membership.
LEMMA FixedPeers ==
  ASSUME NEW lg, Fixed(lg)
  PROVE  Peers(lg) = Server
<1>1. \A i \in 1..Len(lg.tail) : lg.tail[i] \in PlainEntry
  BY ElementOfSeq DEF Fixed
<1>2. {i \in 1..Len(lg.tail) : lg.tail[i].peers # {}} = {}
  BY <1>1 DEF PlainEntry
<1> QED
  BY <1>2 DEF Peers, Fixed

LEMMA FixedAppend ==
  ASSUME NEW lg \in Log, Fixed(lg), NEW term \in Nat, NEW cmd \in Command \cup {NoOp}
  PROVE  Fixed([lg EXCEPT !.tail = Append(@, [term |-> term, cmd |-> cmd, peers |-> {}])])
<1> DEFINE e == [term |-> term, cmd |-> cmd, peers |-> {}]
<1>1. e \in PlainEntry
  BY DEF PlainEntry
<1> HIDE DEF e
<1>2. Append(lg.tail, e) \in Seq(PlainEntry)
  BY <1>1, AppendProperties DEF Fixed
<1>3. [lg EXCEPT !.tail = Append(@, e)] = [base |-> lg.base, tail |-> Append(lg.tail, e)]
  BY LogRecord
<1> QED
  BY <1>2, <1>3 DEF Fixed, e

LEMMA FixedMerge ==
  ASSUME NEW lg \in Log, Fixed(lg), NEW prev \in Nat, NEW entries \in Seq(PlainEntry),
         Has(lg, prev)
  PROVE  Fixed(Merge(lg, prev, entries))
<1>1. PICK t \in Seq(PlainEntry) : Merge(lg, prev, entries) = [base |-> lg.base, tail |-> t]
  BY MergeTail DEF Fixed
<1> QED
  BY <1>1 DEF Fixed

LEMMA FixedCompact ==
  ASSUME NEW lg \in Log, Fixed(lg), NEW index \in Nat, NEW data, index >= lg.base.index
  PROVE  Fixed(Compact(lg, index, data))
<1>1. CASE Compact(lg, index, data) = lg
  BY <1>1
<1>2. CASE Compact(lg, index, data) # lg
  <2>1. lg.tail \in Seq(PlainEntry)
    BY DEF Fixed
  <2>2. PICK low, high \in Seq(PlainEntry) :
          Compact(lg, index, data) = Snapshotted(lg, index, data, low, high)
    BY <1>2, <2>1, CompactTail
  <2>3. Peers([base |-> lg.base, tail |-> low]) = Server
    <3>1. Fixed([base |-> lg.base, tail |-> low])
      BY DEF Fixed
    <3> QED
      BY <3>1, FixedPeers
  <2> QED
    BY <2>2, <2>3 DEF Fixed, Snapshotted
<1> QED
  BY <1>1, <1>2

LEMMA FixedApply ==
  ASSUME NEW n \in Server, NEW lg \in Log, Fixed(lg), NEW commit \in Nat, LogsType,
         lastApplied[n] >= lg.base.index, FixedLogs, ApplyCommitted(n, lg, commit)
  PROVE  FixedLogs'
<1>1. PICK upto, applied : upto = Max({lastApplied[n], Min({commit, LastIndex(lg)})})
                           /\ log' = [log EXCEPT ![n] = Compact(lg, upto, applied)]
  BY Zenon DEF ApplyCommitted
<1>2. upto \in Nat /\ upto >= lg.base.index
  <2>1. lastApplied[n] \in Nat /\ LastIndex(lg) \in Nat /\ lg.base.index \in Nat
    BY LogType DEF LogsType
  <2>2. Min({commit, LastIndex(lg)}) \in Nat
    BY <2>1, MinOfTwo
  <2>3. upto = IF lastApplied[n] >= Min({commit, LastIndex(lg)})
               THEN lastApplied[n] ELSE Min({commit, LastIndex(lg)})
    BY <1>1, <2>1, <2>2, MaxOfTwo, Zenon
  <2> QED
    BY <2>1, <2>2, <2>3
<1>3. Fixed(Compact(lg, upto, applied))
  BY <1>2, FixedCompact
<1> QED
  BY <1>1, <1>3 DEF LogsType, FixedLogs

LEMMA FixedPersist ==
  ASSUME NEW n \in Server, DiskType, FixedLogs', FixedDisks, Persist(n) \/ UNCHANGED disk
  PROVE  FixedDisks'
<1>1. CASE UNCHANGED disk
  BY <1>1 DEF FixedDisks
<1>2. CASE disk' = [disk EXCEPT ![n] = Durable(currentTerm'[n], votedFor'[n], log'[n])]
  BY <1>2 DEF FixedDisks, FixedLogs, DiskType, Durable
<1> QED
  BY <1>1, <1>2 DEF Persist

LEMMA PlainThread ==
  ASSUME NEW pc \in {"top", "exit"}, NEW n, NEW p, NEW w
  PROVE  PlainCall(Thread(pc, n, p, w))
BY DEF PlainCall, Thread

LEMMA PlainBroadcast ==
  ASSUME NEW n, NEW rest, NEW peers, NEW busy, Broadcast(n, rest, peers, busy),
         \A c \in rest : PlainCall(c)
  PROVE  PlainCalls'
BY PlainThread DEF Broadcast, PlainCalls

LEMMA PlainOrphans ==
  ASSUME NEW n, NEW rest, rest \subseteq Call, \A c \in rest : PlainCall(c)
  PROVE  \A c \in Orphaned(n, rest) : PlainCall(c)
<1>1. ASSUME NEW c \in rest, c.kind \in {"vote", "append", "install"}
      PROVE  PlainCall([c EXCEPT !.waiter = 0])
  <2>1. c \in Call /\ PlainCall(c)
    BY <1>1
  <2> QED
    BY <1>1, <2>1 DEF PlainCall, Call, Record
<1> QED
  BY <1>1 DEF Orphaned

LEMMA FixedBecomeLeader ==
  ASSUME NEW n \in Server, NEW term \in Nat, NEW rest, \A c \in rest : PlainCall(c),
         LogsType, FixedLogs, BecomeLeader(n, term, rest)
  PROVE  FixedLogs' /\ PlainCalls'
<1> DEFINE last  == LastIndex(log[n])
           lg    == [log[n] EXCEPT !.tail =
                       Append(@, [term |-> term, cmd |-> NoOp, peers |-> {}])]
           match == [p \in Server |-> IF p = n THEN last + 1 ELSE 0]
           commit == AdvanceCommit(lg, match, term, commitIndex[n])
<1>1. log[n] \in Log /\ Fixed(log[n]) /\ commitIndex[n] \in Nat
      /\ lastApplied[n] >= log[n].base.index
  BY DEF LogsType, FixedLogs
<1>2. lg \in Log /\ lg.base = log[n].base /\ Fixed(lg)
  BY <1>1, AppendType, FixedAppend
<1>3. ApplyCommitted(n, lg, commit) /\ Broadcast(n, rest, Peers(lg), [p \in Server |-> FALSE])
  BY DEF BecomeLeader
<1> HIDE DEF lg
<1>4. commit \in Nat
  BY <1>1, <1>2, AdvanceCommitType
<1> HIDE DEF commit
<1>5. FixedLogs'
  BY <1>1, <1>2, <1>3, <1>4, FixedApply
<1> QED
  BY <1>3, <1>5, PlainBroadcast

LEMMA FixedLoad ==
  ASSUME NEW n \in Server, NEW rest, rest \subseteq Call, \A c \in rest : PlainCall(c),
         TypeInv, FixedMembership, NEW saved, Fixed(saved.log), Load(n, saved, rest)
  PROVE  FixedMembership'
<1>1. FixedLogs'
  BY DEF FixedMembership, FixedLogs, Load, TypeInv, LogsType
<1>2. FixedDisks'
  BY DEF FixedMembership, FixedDisks, Load, TypeInv, DiskType
<1>3. PlainCalls'
  BY PlainOrphans DEF PlainCalls, Load
<1> QED
  BY <1>1, <1>2, <1>3 DEF FixedMembership

\* The steps of the timers and of clients.
LEMMA FixedServerStep ==
  ASSUME TypeInv, FixedMembership, NEW n \in Server,
         \/ StartElection(n) \/ Heartbeat(n) \/ Tick(n) \/ Restart(n)
         \/ \E cmd \in Command : Propose(n, cmd)
  PROVE  FixedMembership'
<1> USE DEF FixedMembership
<1>0. log[n] \in Log /\ Fixed(log[n]) /\ commitIndex[n] \in Nat
      /\ lastApplied[n] >= log[n].base.index /\ currentTerm[n] \in Nat
      /\ currentTerm[n] + 1 \in Nat /\ LogsType /\ DiskType
      /\ \A c \in calls : PlainCall(c)
  BY DEF TypeInv, LogsType, ElectionType, FixedLogs, PlainCalls
<1>1. CASE StartElection(n)
  <2> DEFINE term == currentTerm[n] + 1
  <2>1. FixedLogs' /\ PlainCalls'
    <3>1. CASE BecomeLeader(n, term, calls)
      BY <1>0, <3>1, FixedBecomeLeader
    <3>2. CASE /\ calls' = calls \cup {VoteRequest(n, p, term) : p \in Peers(log[n]) \ {n}}
               /\ ApplyCommitted(n, log[n], commitIndex[n])
      <4>1. FixedLogs'
        BY <1>0, <3>2, FixedApply
      <4>2. \A p : PlainCall(VoteRequest(n, p, term))
        BY DEF PlainCall, VoteRequest
      <4> HIDE DEF term
      <4> QED
        BY <1>0, <3>2, <4>1, <4>2 DEF PlainCalls
    <3> QED
      BY <1>1, <3>1, <3>2 DEF StartElection
  <2> QED
    BY <1>0, <1>1, <2>1, FixedPersist DEF StartElection
<1>2. CASE Heartbeat(n)
  <2>1. FixedLogs'
    BY <1>0, <1>2, FixedApply DEF Heartbeat
  <2>2. PlainCalls'
    BY <1>0, <1>2, PlainBroadcast DEF Heartbeat
  <2>3. Persist(n) \/ UNCHANGED disk
    BY <1>2 DEF Heartbeat
  <2> QED
    BY <1>0, <2>1, <2>2, <2>3, FixedPersist
<1>3. CASE Tick(n)
  <2>1. FixedLogs'
    BY <1>0, <1>3, FixedApply DEF Tick
  <2>2. PlainCalls'
    BY <1>3 DEF PlainCalls, Tick
  <2>3. Persist(n) \/ UNCHANGED disk
    BY <1>3 DEF Tick
  <2> QED
    BY <1>0, <2>1, <2>2, <2>3, FixedPersist
<1>4. CASE Restart(n)
  BY <1>0, <1>4, FixedLoad, Zenon DEF Restart, FixedDisks, TypeInv, CallsType
<1>5. ASSUME NEW cmd \in Command, Propose(n, cmd) PROVE FixedMembership'
  <2> DEFINE term  == currentTerm[n]
             lg    == [log[n] EXCEPT !.tail =
                         Append(@, [term |-> term, cmd |-> cmd, peers |-> {}])]
             match == [matchIndex[n] EXCEPT ![n] = LastIndex(lg)]
             commit == AdvanceCommit(lg, match, term, commitIndex[n])
  <2>1. lg \in Log /\ lg.base = log[n].base /\ Fixed(lg)
    BY <1>0, AppendType, FixedAppend
  <2>2. /\ ApplyCommitted(n, lg, commit) /\ Persist(n)
        /\ Broadcast(n, calls, Peers(lg), replicating[n])
    BY <1>5 DEF Propose
  <2> HIDE DEF lg
  <2>3. commit \in Nat
    BY <1>0, <2>1, AdvanceCommitType
  <2> HIDE DEF commit
  <2>4. FixedLogs'
    BY <1>0, <2>1, <2>2, <2>3, FixedApply
  <2>5. PlainCalls'
    BY <1>0, <2>2, PlainBroadcast
  <2> QED
    BY <1>0, <2>2, <2>4, <2>5, FixedPersist
<1> QED
  BY <1>1, <1>2, <1>3, <1>4, <1>5

\* A step down, and a step that leaves logs and disks alone.
LEMMA FixedStepDown ==
  ASSUME NEW n \in Server, NEW term, TypeInv, FixedMembership, StepDown(n, term)
  PROVE  FixedLogs' /\ FixedDisks'
<1>1. FixedLogs'
  BY DEF FixedMembership, FixedLogs, StepDown, logVars
<1> QED
  BY <1>1, FixedPersist DEF FixedMembership, StepDown, TypeInv

LEMMA FixedUnchanged ==
  ASSUME FixedMembership, UNCHANGED <<logVars, disk>>
  PROVE  FixedLogs' /\ FixedDisks'
BY DEF FixedMembership, FixedLogs, FixedDisks, logVars

\* The steps of the leader's goroutines, and of the voters.
LEMMA FixedCallStep ==
  ASSUME TypeInv, FixedMembership, NEW c \in calls,
         \/ HandleRequestVote(c) \/ HandleVoteResponse(c) \/ ReplicateTo(c)
         \/ ReplicateExit(c) \/ RpcError(c)
         \/ CrashInHandler(c) \/ CrashAfterSave(c)
  PROVE  FixedMembership'
<1> USE DEF FixedMembership
<1> DEFINE n == c.from
           v == c.to
           rest == calls \ {c}
<1>0. c \in Call /\ n \in Server /\ v \in Server /\ log[n] \in Log /\ Fixed(log[n])
      /\ LogsType /\ DiskType /\ \A d \in calls : PlainCall(d)
  BY CallFields DEF TypeInv, CallsType, LogsType, FixedLogs, PlainCalls
<1>1. CASE HandleRequestVote(c)
  <2>1. FixedLogs' /\ (Persist(v) \/ UNCHANGED disk)
    BY <1>1 DEF FixedLogs, HandleRequestVote, logVars
  <2>2. PlainCalls'
    <3> DEFINE answer == [kind |-> "voteResp", from |-> c.from, to |-> v, waiter |-> 1,
                          term |-> c.term, rterm |-> currentTerm'[v],
                          granted |-> GrantsVote(v, c)]
    <3>1. PlainCall(answer)
      BY DEF PlainCall
    <3>2. Respond(c, answer)
      BY <1>1 DEF HandleRequestVote
    <3> HIDE DEF answer
    <3> QED
      BY <1>0, <3>1, <3>2 DEF PlainCalls, Respond
  <2> QED
    BY <1>0, <2>1, <2>2, FixedPersist
<1>2. CASE HandleVoteResponse(c)
  <2>1. c.term \in Nat /\ c.rterm \in Nat
    BY <1>0, <1>2, CallFields DEF HandleVoteResponse
  <2>2. CASE StepDown(n, c.rterm) /\ calls' = rest
    BY <1>0, <2>2, FixedStepDown DEF PlainCalls
  <2>3. CASE BecomeLeader(n, c.term, rest) /\ Persist(n)
    <3>1. FixedLogs' /\ PlainCalls'
      BY <1>0, <2>1, <2>3, FixedBecomeLeader
    <3> QED
      BY <1>0, <2>3, <3>1, FixedPersist
  <2>4. CASE calls' = rest /\ UNCHANGED <<logVars, disk>>
    BY <1>0, <2>4, FixedUnchanged DEF PlainCalls
  <2> QED
    BY <1>2, <2>2, <2>3, <2>4 DEF HandleVoteResponse
<1>3. CASE ReplicateTo(c)
  <2> DEFINE snap == log[n].base.index
             next == Min({nextIndex[n][v], LastIndex(log[n]) + 1})
  <2>1. FixedLogs' /\ FixedDisks'
    BY <1>3, FixedUnchanged DEF ReplicateTo
  <2>2. PICK thread : /\ calls' = (calls \ {c}) \cup {thread}
                      /\ \/ thread = Thread("exit", n, v, c.waiter)
                         \/ thread = InstallRequest(c)
                         \/ nextIndex[n][v] > snap /\ thread = AppendRequest(c, next)
    BY <1>3 DEF ReplicateTo
  <2>3. PlainCall(InstallRequest(c))
    BY <1>0 DEF PlainCall, InstallRequest, Fixed
  <2>4. ASSUME nextIndex[n][v] > snap PROVE PlainCall(AppendRequest(c, next))
    <3>1. snap \in Nat /\ LastIndex(log[n]) \in Nat /\ Len(log[n].tail) \in Nat
          /\ LastIndex(log[n]) >= snap /\ nextIndex[n][v] \in Nat
      BY <1>0, LogType DEF TypeInv, LeaderType
    <3>2. next = IF nextIndex[n][v] <= LastIndex(log[n]) + 1
                 THEN nextIndex[n][v] ELSE LastIndex(log[n]) + 1
      BY <3>1, LastIndex(log[n]) + 1 \in Nat, MinOfTwo
    <3> HIDE DEF next
    <3>3. next - snap \in Int /\ next - snap >= 1 /\ Len(log[n].tail) \in Int
      BY <2>4, <3>1, <3>2
    <3>4. \A i \in (next - snap)..Len(log[n].tail) : log[n].tail[i] \in PlainEntry
      BY <1>0, <3>3, ElementOfSeq DEF Fixed
    <3>5. SubSeq(log[n].tail, next - snap, Len(log[n].tail)) \in Seq(PlainEntry)
      BY <3>3, <3>4, SubSeqProperties
    <3> QED
      BY <3>5 DEF PlainCall, AppendRequest
  <2>5. PlainCall(thread)
    BY <2>2, <2>3, <2>4, PlainThread
  <2> QED
    BY <1>0, <2>1, <2>2, <2>5 DEF PlainCalls
<1>4. CASE ReplicateExit(c)
  BY <1>0, <1>4, FixedUnchanged DEF ReplicateExit, PlainCalls
<1>5. CASE RpcError(c)
  <2>1. FixedLogs' /\ FixedDisks'
    BY <1>5, FixedUnchanged DEF RpcError
  <2>2. ASSUME c.kind \in {"append", "install"} PROVE PlainCall([c EXCEPT !.waiter = 0])
    <3>1. PlainCall(c)
      BY <1>0
    <3> QED
      BY <1>0, <2>2, <3>1 DEF PlainCall, Call, Record
  <2>3. calls' \subseteq calls \cup (IF c.kind \in {"append", "install"}
                                   THEN {[c EXCEPT !.waiter = 0]} ELSE {})
    BY <1>5 DEF RpcError
  <2> QED
    BY <1>0, <2>1, <2>2, <2>3 DEF PlainCalls
<1>6. HungUp(c) \subseteq Call /\ \A d \in HungUp(c) : PlainCall(d)
  BY <1>0, PlainThread, HungUpType DEF TypeInv, HungUp
<1>7. CASE CrashInHandler(c)
  <2> DEFINE saved == Durable(c.term, Nil, log[v])
  <2>1. Load(v, saved, HungUp(c))
    BY <1>7 DEF CrashInHandler
  <2>2. Fixed(saved.log)
    BY <1>0 DEF Durable, FixedLogs
  <2> HIDE DEF saved
  <2> QED
    BY <1>0, <1>6, <2>1, <2>2, FixedLoad
<1>8. CASE CrashAfterSave(c)
  <2> DEFINE merged == Merge(log[v], c.prev, c.entries)
             vote == IF c.term > currentTerm[v] THEN Nil ELSE votedFor[v]
             saved == Durable(c.term, vote, merged)
  <2>1. c.kind = "append" /\ Has(log[v], c.prev) /\ Load(v, saved, HungUp(c))
    BY <1>8, Zenon DEF CrashAfterSave
  <2>2. c.prev \in Nat /\ c.entries \in Seq(PlainEntry) /\ log[v] \in Log /\ Fixed(log[v])
    BY <1>0, <2>1, CallFields DEF PlainCall, FixedLogs, LogsType
  <2>3. Fixed(merged)
    BY <2>1, <2>2, FixedMerge
  <2> HIDE DEF merged
  <2>4. Fixed(saved.log)
    BY <2>3 DEF Durable
  <2> HIDE DEF saved
  <2> QED
    BY <1>0, <1>6, <2>1, <2>4, FixedLoad
<1> QED
  BY <1>1, <1>2, <1>3, <1>4, <1>5, <1>7, <1>8

\* The leader's handling of answers.
LEMMA FixedResponseStep ==
  ASSUME TypeInv, FixedMembership, NEW c \in calls,
         HandleAppendResponse(c) \/ HandleInstallResponse(c)
  PROVE  FixedMembership'
<1> USE DEF FixedMembership
<1> DEFINE n == c.from
           match == [matchIndex[n] EXCEPT ![c.to] = c.match]
           commit == AdvanceCommit(log[n], match, c.term, commitIndex[n])
<1>0. c \in Call /\ n \in Server /\ log[n] \in Log /\ Fixed(log[n])
      /\ commitIndex[n] \in Nat /\ lastApplied[n] >= log[n].base.index
      /\ LogsType /\ DiskType /\ \A d \in calls : PlainCall(d)
  BY CallFields DEF TypeInv, CallsType, LogsType, FixedLogs, PlainCalls
<1>1. \E pc \in {"top", "exit"} : calls' = (calls \ {c}) \cup {Thread(pc, n, c.to, c.waiter)}
  BY DEF HandleAppendResponse, HandleInstallResponse
<1>2. PlainCalls'
  BY <1>0, <1>1, PlainThread DEF PlainCalls
<1>3. CASE UNCHANGED <<logVars, disk>>
  BY <1>2, <1>3, FixedUnchanged
<1>4. CASE StepDown(n, c.rterm)
  BY <1>0, <1>2, <1>4, FixedStepDown
<1>5. CASE /\ ApplyCommitted(n, log[n], commit)
           /\ Persist(n) \/ UNCHANGED disk
  <2>1. commit \in Nat
    BY <1>0, AdvanceCommitType
  <2> HIDE DEF commit
  <2>2. FixedLogs'
    BY <1>0, <1>5, <2>1, FixedApply
  <2> QED
    BY <1>0, <1>2, <1>5, <2>2, FixedPersist
<1> QED
  BY <1>3, <1>4, <1>5 DEF HandleAppendResponse, HandleInstallResponse

\* The follower's handlers.
LEMMA FixedFollowerStep ==
  ASSUME TypeInv, FixedMembership, NEW c \in calls,
         HandleAppendEntries(c) \/ HandleInstallSnapshot(c)
  PROVE  FixedMembership'
<1> USE DEF FixedMembership
<1> DEFINE n == c.to
<1>0. c \in Call /\ n \in Server /\ log[n] \in Log /\ Fixed(log[n]) /\ PlainCall(c)
      /\ lastApplied[n] >= log[n].base.index
      /\ LogsType /\ DiskType /\ \A d \in calls : PlainCall(d)
  BY CallFields DEF TypeInv, CallsType, LogsType, FixedLogs, PlainCalls
<1>1. Persist(n) \/ UNCHANGED disk
  BY DEF HandleAppendEntries, HandleInstallSnapshot
<1>2. CASE HandleAppendEntries(c)
  <2> DEFINE merged == Merge(log[n], c.prev, c.entries)
             bound == Min({c.commit, LastIndex(merged)})
  <2>1. c.prev \in Nat /\ c.commit \in Nat /\ c.entries \in Seq(PlainEntry)
        /\ c.entries \in Seq(Entry)
    <3>1. c.kind = "append"
      BY <1>2, Zenon DEF HandleAppendEntries
    <3> QED
      BY <1>0, <3>1, CallFields DEF PlainCall
  <2>2. ASSUME Has(log[n], c.prev)
        PROVE  merged \in Log /\ merged.base = log[n].base /\ Fixed(merged)
    BY <1>0, <2>1, <2>2, MergeType, FixedMerge
  <2>3. \/ UNCHANGED logVars
        \/ Has(log[n], c.prev) /\ ApplyCommitted(n, merged, bound)
        \/ Has(log[n], c.prev) /\ log' = [log EXCEPT ![n] = merged]
    BY <1>2, Zenon DEF HandleAppendEntries
  <2> HIDE DEF merged
  <2>4. FixedLogs'
    <3>1. CASE UNCHANGED logVars
      BY <3>1 DEF FixedLogs, logVars
    <3>2. CASE Has(log[n], c.prev) /\ ApplyCommitted(n, merged, bound)
      <4>1. bound \in Nat
        BY <2>1, <2>2, <3>2, LogType, MinOfTwo
      <4> HIDE DEF bound
      <4> QED
        BY <1>0, <2>2, <3>2, <4>1, FixedApply
    <3>3. CASE Has(log[n], c.prev) /\ log' = [log EXCEPT ![n] = merged]
      BY <1>0, <2>2, <3>3 DEF FixedLogs, LogsType
    <3> QED
      BY <2>3, <3>1, <3>2, <3>3
  <2>5. PlainCalls'
    <3>1. PICK answer : answer.kind = "appendResp" /\ Respond(c, answer)
      <4>1. \E ok : Respond(c, [kind |-> "appendResp", from |-> c.from, to |-> n,
                                waiter |-> c.waiter, term |-> c.term,
                                match |-> c.prev + Len(c.entries),
                                rterm |-> currentTerm'[n], success |-> ok])
        BY <1>2, Zenon DEF HandleAppendEntries
      <4> QED
        BY <4>1
    <3> QED
      BY <1>0, <3>1 DEF PlainCalls, PlainCall, Respond
  <2> QED
    BY <1>0, <1>1, <2>4, <2>5, FixedPersist
<1>3. CASE HandleInstallSnapshot(c)
  <2> DEFINE snapped == [base |-> c.base, tail |-> <<>>]
  <2>1. Fixed(snapped)
    <3>1. c.kind = "install"
      BY <1>3, Zenon DEF HandleInstallSnapshot
    <3> QED
      BY <1>0, <3>1, EmptySeq DEF PlainCall, Fixed
  <2>2. UNCHANGED logVars \/ log' = [log EXCEPT ![n] = snapped]
    BY <1>3 DEF HandleInstallSnapshot
  <2> HIDE DEF snapped
  <2>3. FixedLogs'
    BY <1>0, <2>1, <2>2, Zenon DEF FixedLogs, LogsType, logVars
  <2>4. PlainCalls'
    <3>1. PICK answer : answer.kind = "installResp" /\ Respond(c, answer)
      BY <1>3 DEF HandleInstallSnapshot
    <3> QED
      BY <1>0, <3>1 DEF PlainCalls, PlainCall, Respond
  <2> QED
    BY <1>0, <1>1, <2>3, <2>4, FixedPersist
<1> QED
  BY <1>2, <1>3

LEMMA FixedStep == TypeInv /\ FixedMembership /\ [Next]_vars => FixedMembership'
<1> SUFFICES ASSUME TypeInv, FixedMembership, [Next]_vars PROVE FixedMembership'
  OBVIOUS
<1>1. CASE UNCHANGED vars
  BY <1>1 DEF FixedMembership, FixedLogs, FixedDisks, PlainCalls, vars, logVars
<1>2. CASE Next
  BY <1>2, FixedServerStep, FixedCallStep, FixedResponseStep, FixedFollowerStep DEF Next
<1> QED
  BY <1>1, <1>2

LEMMA FixedInit == Init => FixedMembership
<1>1. Fixed(EmptyLog(Server))
  BY EmptySeq DEF Fixed, EmptyLog
<1> QED
  BY <1>1 DEF Init, FixedMembership, FixedLogs, FixedDisks, PlainCalls, Durable

\* Every log, every disk and every request in flight holds the membership the
\* cluster started with (rebuildMembershipLocked always finds all of Server).
THEOREM MembersFixed == Spec => []FixedMembership
<1>1. Init => FixedMembership
  BY FixedInit
<1>2. TypeInv /\ FixedMembership /\ [Next]_vars => FixedMembership'
  BY FixedStep
<1> QED
  BY <1>1, <1>2, TypeInvariant, PTL DEF Spec
=============================================================================
