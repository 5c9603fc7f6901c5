--------------------------- MODULE RaftVoteProofs ---------------------------
(***************************************************************************)
(* What the steps of RaftNode do to terms and votes, when saves do not     *)
(* fail: each is one of five shapes (ElectionStep), and the disk holds the *)
(* term and vote of its node (DiskCurrent).                                *)
(***************************************************************************)
EXTENDS RaftTypeProofs

(* What a step may do to terms, votes and the evidence of votes.           *)

NoNewVotes == \A c \in calls' : c.kind = "voteResp" => c \in calls

\* No term, vote or role changes.
Quiet == UNCHANGED <<state, currentTerm, votedFor, votesReceived>> /\ NoNewVotes

OthersKeep(n) ==
  \A m \in Server \ {n} :
    /\ state'[m] = state[m]
    /\ currentTerm'[m] = currentTerm[m]
    /\ votedFor'[m] = votedFor[m]
    /\ votesReceived'[m] = votesReceived[m]

\* becomeFollowerLocked, or the load after a crash.
Demote(n) ==
  /\ OthersKeep(n) /\ NoNewVotes
  /\ state'[n] = "Follower"
  /\ currentTerm'[n] >= currentTerm[n]
  /\ currentTerm'[n] = currentTerm[n] => votedFor'[n] = votedFor[n]

\* startElectionLocked.
Campaign(n) ==
  /\ OthersKeep(n) /\ NoNewVotes
  /\ state'[n] = "Leader" => 1 >= Majority(log[n])
  /\ currentTerm'[n] = currentTerm[n] + 1
  /\ votedFor'[n] = n
  /\ votesReceived'[n] = {n}

\* HandleRequestVote, whether it grants the vote or not.
CastVote(c) ==
  LET n == c.to
  IN  /\ OthersKeep(n)
      /\ \A d \in calls' : d.kind = "voteResp" /\ d \notin calls =>
           /\ d.to = n /\ d.from = c.from /\ d.term = c.term
           /\ d.granted => currentTerm'[n] = c.term /\ votedFor'[n] = c.from
      /\ currentTerm'[n] >= currentTerm[n]
      /\ currentTerm'[n] = currentTerm[n] =>
           /\ state'[n] = state[n]
           /\ votedFor[n] # Nil => votedFor'[n] = votedFor[n]
      /\ currentTerm'[n] > currentTerm[n] => state'[n] = "Follower"
      /\ votesReceived'[n] = votesReceived[n]

\* sendRequestVote counts a granted vote.
CountVote(c) ==
  LET n == c.from
  IN  /\ OthersKeep(n) /\ NoNewVotes
      /\ c.kind = "voteResp" /\ c.granted
      /\ state[n] = "Candidate" /\ currentTerm[n] = c.term
      /\ UNCHANGED <<currentTerm, votedFor>>
      /\ votesReceived'[n] = votesReceived[n] \cup {c.to}
      /\ state'[n] = "Leader" => Cardinality(votesReceived'[n]) >= Majority(log[n])

ElectionStep ==
  \/ Quiet
  \/ \E n \in Server : Demote(n) \/ Campaign(n)
  \/ \E c \in calls : CastVote(c) \/ CountVote(c)

\* What state.json holds is the term and the vote of the node.
DiskCurrent ==
  \A n \in Server :
    disk[n].currentTerm = currentTerm[n] /\ disk[n].votedFor = votedFor[n]

LEMMA PersistCurrent ==
  ASSUME ~SaveMayFail, DiskType, DiskCurrent, NEW n \in Server, OthersKeep(n), Persist(n)
  PROVE  DiskCurrent'
<1>1. disk' = [disk EXCEPT ![n] = Durable(currentTerm'[n], votedFor'[n], log'[n])]
  BY DEF Persist
<1>2. disk'[n].currentTerm = currentTerm'[n] /\ disk'[n].votedFor = votedFor'[n]
  BY <1>1 DEF DiskType, Durable
<1>3. \A m \in Server \ {n} : disk'[m] = disk[m]
  BY <1>1 DEF DiskType
<1> QED
  BY <1>2, <1>3 DEF DiskCurrent, OthersKeep

LEMMA UnchangedCurrent ==
  ASSUME DiskCurrent, UNCHANGED <<currentTerm, votedFor, disk>>
  PROVE  DiskCurrent'
BY DEF DiskCurrent

\* A quiet step that saves nothing, or saves n's fields.
LEMMA QuietStep ==
  ASSUME ~SaveMayFail, DiskType, DiskCurrent, UNCHANGED electionVars, NoNewVotes,
         UNCHANGED disk \/ \E n \in Server : Persist(n)
  PROVE  Quiet /\ DiskCurrent'
<1>1. Quiet
  BY DEF Quiet, electionVars
<1>2. \A n \in Server : OthersKeep(n)
  BY <1>1 DEF OthersKeep, Quiet
<1> QED
  BY <1>1, <1>2, PersistCurrent, UnchangedCurrent DEF Quiet

LEMMA BroadcastNoVotes ==
  ASSUME NEW n, NEW rest, rest \subseteq calls, NEW peers, NEW busy,
         Broadcast(n, rest, peers, busy)
  PROVE  NoNewVotes
BY DEF Broadcast, NoNewVotes, Thread

LEMMA LoadNoVotes ==
  ASSUME NEW n, NEW rest, \A c \in rest : c.kind = "voteResp" => c \in calls,
         rest \subseteq Call, calls' = Orphaned(n, rest)
  PROVE  NoNewVotes
<1>1. ASSUME NEW c \in rest, c.kind \in {"vote", "append", "install"}
      PROVE  [c EXCEPT !.waiter = 0].kind # "voteResp"
  <2>1. c \in Call
    BY <1>1
  <2> QED
    BY <1>1, <2>1 DEF Call, Record
<1> QED
  BY <1>1, Zenon DEF Orphaned, NoNewVotes

LEMMA StepDownDemotes ==
  ASSUME ~SaveMayFail, NEW n \in Server, NEW term \in Nat, ElectionType, DiskType,
         DiskCurrent, term > currentTerm[n], StepDown(n, term), NoNewVotes
  PROVE  Demote(n) /\ DiskCurrent'
<1>1. Demote(n)
  BY DEF StepDown, Demote, OthersKeep, ElectionType
<1> QED
  BY <1>1, PersistCurrent DEF StepDown, Demote

LEMMA FollowDemotes ==
  ASSUME ~SaveMayFail, NEW n \in Server, NEW c, c.term \in Nat, ElectionType, DiskType,
         DiskCurrent, c.term >= currentTerm[n], Follow(n, c), NoNewVotes,
         \/ Persist(n)
         \/ UNCHANGED disk /\ ~(c.term > currentTerm[n])
  PROVE  Demote(n) /\ DiskCurrent'
<1>1. Demote(n)
  BY DEF Follow, Demote, OthersKeep, ElectionType
<1>2. CASE Persist(n)
  BY <1>1, <1>2, PersistCurrent DEF Demote
<1>3. CASE UNCHANGED disk /\ ~(c.term > currentTerm[n])
  <2>1. UNCHANGED <<currentTerm, votedFor>>
    BY <1>3 DEF Follow, ElectionType
  <2> QED
    BY <1>1, <1>3, <2>1, UnchangedCurrent
<1> QED
  BY <1>2, <1>3

\* A load keeps the term and the vote, or moves to a higher term.
LEMMA LoadDemotes ==
  ASSUME TypeInv, DiskCurrent, NEW n \in Server, NEW saved, NEW rest,
         Load(n, saved, rest), rest \subseteq Call,
         \A c \in rest : c.kind = "voteResp" => c \in calls,
         \/ saved.currentTerm = currentTerm[n] /\ saved.votedFor = votedFor[n]
         \/ saved.currentTerm \in Nat /\ saved.currentTerm > currentTerm[n]
  PROVE  Demote(n) /\ DiskCurrent'
<1>1. NoNewVotes
  BY LoadNoVotes DEF Load
<1>2. OthersKeep(n) /\ state'[n] = "Follower" /\ currentTerm'[n] = saved.currentTerm
      /\ votedFor'[n] = saved.votedFor
  BY DEF Load, OthersKeep, TypeInv, ElectionType
<1>3. currentTerm[n] \in Nat
  BY DEF TypeInv, ElectionType
<1>4. disk'[n] = saved /\ \A m \in Server \ {n} : disk'[m] = disk[m]
  BY DEF Load, TypeInv, DiskType
<1> QED
  BY <1>1, <1>2, <1>3, <1>4 DEF Demote, DiskCurrent, OthersKeep

LEMMA ServerElectionStep ==
  ASSUME ~SaveMayFail, TypeInv, DiskCurrent, NEW n \in Server,
         \/ StartElection(n) \/ Heartbeat(n) \/ Tick(n) \/ Restart(n)
         \/ \E cmd \in Command : Propose(n, cmd)
  PROVE  ElectionStep /\ DiskCurrent'
<1>0. ElectionType /\ DiskType /\ CallsType
  BY DEF TypeInv
<1>1. CASE StartElection(n)
  <2>1. OthersKeep(n)
    BY <1>0, <1>1 DEF StartElection, BecomeLeader, OthersKeep, ElectionType
  <2>2. Persist(n)
    BY <1>1 DEF StartElection
  <2>3. NoNewVotes
    <3>1. CASE 1 >= Majority(log[n])
      BY <1>1, <3>1, BroadcastNoVotes DEF StartElection, BecomeLeader
    <3>2. CASE ~(1 >= Majority(log[n]))
      <4>1. \A p, term : VoteRequest(n, p, term).kind # "voteResp"
        BY DEF VoteRequest
      <4>2. calls' = calls \cup
              {VoteRequest(n, p, currentTerm[n] + 1) : p \in Peers(log[n]) \ {n}}
        BY <1>1, <3>2 DEF StartElection
      <4> QED
        BY <4>1, <4>2 DEF NoNewVotes
    <3> QED
      BY <3>1, <3>2
  <2>4. state'[n] = "Leader" => 1 >= Majority(log[n])
    BY <1>0, <1>1 DEF StartElection, ElectionType
  <2>5. currentTerm'[n] = currentTerm[n] + 1 /\ votedFor'[n] = n /\ votesReceived'[n] = {n}
    BY <1>0, <1>1 DEF StartElection, ElectionType
  <2> QED
    BY <1>0, <2>1, <2>2, <2>3, <2>4, <2>5, PersistCurrent DEF ElectionStep, Campaign
<1>2. CASE Heartbeat(n) \/ Tick(n) \/ \E cmd \in Command : Propose(n, cmd)
  <2>1. UNCHANGED electionVars
    BY <1>2, Zenon DEF Heartbeat, Tick, Propose
  <2>2. UNCHANGED disk \/ Persist(n)
    BY <1>2, Zenon DEF Heartbeat, Tick, Propose
  <2>3. NoNewVotes
    <3>1. CASE Heartbeat(n)
      BY <3>1, BroadcastNoVotes DEF Heartbeat
    <3>2. CASE Tick(n)
      BY <3>2 DEF Tick, NoNewVotes
    <3>3. CASE \E cmd \in Command : Propose(n, cmd)
      <4>1. \E peers, busy : Broadcast(n, calls, peers, busy)
        BY <3>3 DEF Propose
      <4> QED
        BY <4>1, BroadcastNoVotes
    <3> QED
      BY <1>2, <3>1, <3>2, <3>3
  <2> QED
    BY <1>0, <2>1, <2>2, <2>3, QuietStep DEF ElectionStep
<1>3. CASE Restart(n)
  <2>1. Load(n, disk[n], calls)
    BY <1>3 DEF Restart
  <2>2. disk[n].currentTerm = currentTerm[n] /\ disk[n].votedFor = votedFor[n]
    BY DEF DiskCurrent
  <2> QED
    BY <1>0, <2>1, <2>2, LoadDemotes DEF ElectionStep, CallsType
<1> QED
  BY <1>1, <1>2, <1>3

LEMMA VoteRequestStep ==
  ASSUME ~SaveMayFail, TypeInv, DiskCurrent, NEW c \in calls, HandleRequestVote(c)
  PROVE  CastVote(c) /\ DiskCurrent'
<1> DEFINE n == c.to
           newer == c.term > currentTerm[n]
           grant == GrantsVote(n, c)
           answer == [kind |-> "voteResp", from |-> c.from, to |-> n, waiter |-> 1,
                      term |-> c.term, rterm |-> currentTerm'[n], granted |-> grant]
<1>0. n \in Server /\ c.from \in Server /\ c.term \in Nat /\ ElectionType /\ DiskType
  <2>1. c \in Call /\ c.kind = "vote"
    BY DEF HandleRequestVote, TypeInv, CallsType
  <2> QED
    BY <2>1, CallFields DEF TypeInv
<1>1. currentTerm[n] \in Nat
  BY <1>0 DEF ElectionType
<1>2. currentTerm'[n] = IF newer THEN c.term ELSE currentTerm[n]
  <2>1. currentTerm'[n] = Max({currentTerm[n], c.term})
    BY <1>0, Zenon DEF HandleRequestVote, ElectionType
  <2> HIDE DEF n
  <2>2. Max({currentTerm[n], c.term})
          = IF currentTerm[n] >= c.term THEN currentTerm[n] ELSE c.term
    BY <1>0, <1>1, MaxOfTwo
  <2> HIDE DEF grant, answer
  <2> QED
    BY <1>0, <1>1, <2>1, <2>2
<1>3. /\ votedFor'[n] = IF grant THEN c.from ELSE IF newer THEN Nil ELSE votedFor[n]
      /\ state'[n] = IF newer THEN "Follower" ELSE state[n]
      /\ votesReceived' = votesReceived
  BY <1>0 DEF HandleRequestVote, ElectionType
<1>4. OthersKeep(n)
  BY <1>0 DEF HandleRequestVote, OthersKeep, ElectionType
<1>5. \A d \in calls' : d \in calls \/ d = answer
  BY DEF HandleRequestVote, Respond
<1>6. grant => newer \/ (c.term = currentTerm[n] /\ votedFor[n] \in {Nil, c.from})
  BY DEF GrantsVote
<1>7. CastVote(c)
  <2> HIDE DEF grant
  <2>1. answer.to = n /\ answer.from = c.from /\ answer.term = c.term /\ answer.granted = grant
    OBVIOUS
  <2> HIDE DEF answer
  <2>2. grant => currentTerm'[n] = c.term /\ votedFor'[n] = c.from
    BY <1>2, <1>3, <1>6
  <2>3. \A d \in calls' : d.kind = "voteResp" /\ d \notin calls =>
           /\ d.to = n /\ d.from = c.from /\ d.term = c.term
           /\ d.granted => currentTerm'[n] = c.term /\ votedFor'[n] = c.from
    BY <1>5, <2>1, <2>2
  <2>4. currentTerm'[n] >= currentTerm[n] /\ (currentTerm'[n] > currentTerm[n] => newer)
        /\ (currentTerm'[n] = currentTerm[n] => ~newer)
    <3> HIDE DEF n
    <3>1. CASE newer
      BY <1>0, <1>1, <1>2, <3>1
    <3>2. CASE ~newer
      BY <1>1, <1>2, <3>2
    <3> QED
      BY <3>1, <3>2
  <2> QED
    BY <1>3, <1>4, <1>6, <2>3, <2>4 DEF CastVote
<1>8. CASE newer \/ grant
  <2>1. Persist(n)
    BY <1>8 DEF HandleRequestVote
  <2> QED
    BY <1>0, <1>4, <1>7, <2>1, PersistCurrent
<1>9. CASE ~(newer \/ grant)
  <2>1. UNCHANGED disk /\ currentTerm'[n] = currentTerm[n] /\ votedFor'[n] = votedFor[n]
    BY <1>2, <1>3, <1>9 DEF HandleRequestVote
  <2> QED
    BY <1>4, <1>7, <2>1 DEF DiskCurrent, OthersKeep
<1> QED
  BY <1>8, <1>9

\* The candidate's handling of a vote.
LEMMA VoteResponseStep ==
  ASSUME ~SaveMayFail, TypeInv, DiskCurrent, NEW c \in calls, HandleVoteResponse(c)
  PROVE  ElectionStep /\ DiskCurrent'
<1> DEFINE n == c.from
           rest == calls \ {c}
           votes == votesReceived[n] \cup {c.to}
<1>0. n \in Server /\ c.rterm \in Nat /\ c.term \in Nat /\ c.kind = "voteResp"
      /\ ElectionType /\ DiskType
  <2>1. c \in Call /\ c.kind = "voteResp"
    BY DEF HandleVoteResponse, TypeInv, CallsType
  <2> QED
    BY <2>1, CallFields DEF TypeInv
<1>1. CASE c.rterm > currentTerm[n] /\ StepDown(n, c.rterm) /\ calls' = rest
  <2>1. NoNewVotes
    BY <1>1 DEF NoNewVotes
  <2> QED
    BY <1>0, <1>1, <2>1, StepDownDemotes DEF ElectionStep
<1>2. CASE /\ state[n] = "Candidate" /\ currentTerm[n] = c.term /\ c.granted
           /\ votesReceived' = [votesReceived EXCEPT ![n] = votes]
           /\ UNCHANGED <<currentTerm, votedFor, joining>>
           /\ IF Cardinality(votes) >= Majority(log[n])
              THEN BecomeLeader(n, c.term, rest) /\ Persist(n)
              ELSE calls' = rest /\ UNCHANGED <<state, leaderID, logVars, leaderVars, disk>>
  <2>1. votesReceived'[n] = votes
    BY <1>0, <1>2 DEF ElectionType
  <2>2. CASE Cardinality(votes) >= Majority(log[n])
    <3>1. BecomeLeader(n, c.term, rest) /\ Persist(n)
      BY <1>2, <2>2
    <3>2. OthersKeep(n)
      BY <1>0, <1>2, <3>1 DEF OthersKeep, BecomeLeader, ElectionType
    <3>3. NoNewVotes
      BY <3>1, BroadcastNoVotes DEF BecomeLeader
    <3>4. CountVote(c)
      BY <1>0, <1>2, <2>1, <2>2, <3>2, <3>3 DEF CountVote
    <3> QED
      BY <1>0, <3>1, <3>2, <3>4, PersistCurrent DEF ElectionStep
  <2>3. CASE ~(Cardinality(votes) >= Majority(log[n]))
    <3>1. calls' = rest /\ UNCHANGED <<state, currentTerm, votedFor, disk>>
      BY <1>2, <2>3
    <3>2. OthersKeep(n)
      BY <1>0, <1>2, <3>1 DEF OthersKeep, ElectionType
    <3>3. NoNewVotes
      BY <3>1 DEF NoNewVotes
    <3>4. CountVote(c)
      BY <1>0, <1>2, <2>1, <3>1, <3>2, <3>3 DEF CountVote
    <3> QED
      BY <3>1, <3>4, UnchangedCurrent DEF ElectionStep
  <2> QED
    BY <2>2, <2>3
<1>3. CASE calls' = rest /\ UNCHANGED <<electionVars, disk>>
  <2>1. NoNewVotes
    BY <1>3 DEF NoNewVotes
  <2> QED
    BY <1>0, <1>3, <2>1, QuietStep DEF ElectionStep
<1> QED
  BY <1>1, <1>2, <1>3 DEF HandleVoteResponse

\* The goroutines that replicate, and the leader's handling of answers.
LEMMA ReplicationStep ==
  ASSUME ~SaveMayFail, TypeInv, DiskCurrent, NEW c \in calls,
         \/ ReplicateTo(c) \/ ReplicateExit(c) \/ RpcError(c)
         \/ HandleAppendResponse(c) \/ HandleInstallResponse(c)
  PROVE  ElectionStep /\ DiskCurrent'
<1> DEFINE n == c.from
<1>0. c \in Call /\ n \in Server /\ ElectionType /\ DiskType
  BY CallFields DEF TypeInv, CallsType
<1>1. NoNewVotes
  <2>1. CASE ReplicateTo(c)
    <3>1. \E next : \/ calls' = (calls \ {c}) \cup {Thread("exit", n, c.to, c.waiter)}
                    \/ calls' = (calls \ {c}) \cup {InstallRequest(c)}
                    \/ calls' = (calls \ {c}) \cup {AppendRequest(c, next)}
      BY <2>1 DEF ReplicateTo
    <3>2. /\ Thread("exit", n, c.to, c.waiter).kind # "voteResp"
          /\ InstallRequest(c).kind # "voteResp"
          /\ \A next : AppendRequest(c, next).kind # "voteResp"
      BY DEF Thread, InstallRequest, AppendRequest
    <3> QED
      BY <3>1, <3>2 DEF NoNewVotes
  <2>2. CASE ReplicateExit(c)
    BY <2>2 DEF ReplicateExit, NoNewVotes
  <2>3. CASE RpcError(c)
    <3>1. c.kind \in {"append", "install"} => [c EXCEPT !.waiter = 0].kind # "voteResp"
      BY <1>0 DEF Call, Record
    <3>2. calls' \subseteq calls \/
          (c.kind \in {"append", "install"}
             /\ calls' \subseteq calls \cup {[c EXCEPT !.waiter = 0]})
      BY <2>3 DEF RpcError
    <3> QED
      BY <3>1, <3>2, Zenon DEF NoNewVotes
  <2>4. CASE HandleAppendResponse(c) \/ HandleInstallResponse(c)
    <3>1. \E pc \in {"top", "exit"} :
            calls' = (calls \ {c}) \cup {Thread(pc, n, c.to, c.waiter)}
      BY <2>4 DEF HandleAppendResponse, HandleInstallResponse
    <3>2. \A pc \in {"top", "exit"} : Thread(pc, n, c.to, c.waiter).kind # "voteResp"
      BY DEF Thread
    <3> QED
      BY <3>1, <3>2, Zenon DEF NoNewVotes
  <2> QED
    BY <2>1, <2>2, <2>3, <2>4
<1>2. CASE UNCHANGED electionVars /\ (UNCHANGED disk \/ Persist(n))
  BY <1>0, <1>1, <1>2, QuietStep, Zenon DEF ElectionStep
<1>3. CASE HandleAppendResponse(c) \/ HandleInstallResponse(c)
  <2>1. c.rterm \in Nat
    <3>1. c.kind \in {"appendResp", "installResp"}
      BY <1>3, Zenon DEF HandleAppendResponse, HandleInstallResponse
    <3> QED
      BY <1>0, <3>1, CallFields
  <2>2. CASE c.rterm > currentTerm[n] /\ StepDown(n, c.rterm)
    BY <1>0, <1>1, <2>1, <2>2, StepDownDemotes DEF ElectionStep
  <2> QED
    BY <1>2, <1>3, <2>2, Zenon DEF HandleAppendResponse, HandleInstallResponse
<1> QED
  BY <1>2, <1>3 DEF ReplicateTo, ReplicateExit, RpcError

\* The follower's handlers, and a crash inside one.
LEMMA FollowerStep ==
  ASSUME ~SaveMayFail, TypeInv, DiskCurrent, NEW c \in calls,
         \/ HandleAppendEntries(c) \/ HandleInstallSnapshot(c)
         \/ CrashInHandler(c) \/ CrashAfterSave(c)
  PROVE  ElectionStep /\ DiskCurrent'
<1> DEFINE n == c.to
<1>0. c \in Call /\ n \in Server /\ c.term \in Nat /\ ElectionType /\ DiskType
  <2>1. c \in Call /\ c.kind \in {"vote", "append", "install"}
    BY Zenon DEF TypeInv, CallsType, HandleAppendEntries, HandleInstallSnapshot,
                 CrashInHandler, CrashAfterSave
  <2> QED
    BY <2>1, CallFields DEF TypeInv
<1>1. CASE HandleAppendEntries(c) \/ HandleInstallSnapshot(c)
  <2> DEFINE Appended(ok) ==
               [kind |-> "appendResp", from |-> c.from, to |-> n, waiter |-> c.waiter,
                term |-> c.term, match |-> c.prev + Len(c.entries),
                rterm |-> currentTerm'[n], success |-> ok]
             installed ==
               [kind |-> "installResp", from |-> c.from, to |-> n, waiter |-> c.waiter,
                term |-> c.term, match |-> c.base.index, rterm |-> currentTerm'[n]]
             matches == Has(log[n], c.prev) /\ TermAt(log[n], c.prev) = c.prevTerm
  <2>1. /\ \A ok : Appended(ok).kind # "voteResp"
        /\ installed.kind # "voteResp"
    OBVIOUS
  <2>2. NoNewVotes
    <3>1. ASSUME NEW answer, answer.kind # "voteResp", Respond(c, answer)
          PROVE  NoNewVotes
      BY <3>1 DEF Respond, NoNewVotes
    <3>2. CASE HandleAppendEntries(c)
      <4>1. Respond(c, Appended(FALSE)) \/ Respond(c, Appended(matches))
        BY <3>2, Zenon DEF HandleAppendEntries
      <4> HIDE DEF Appended, matches
      <4> QED
        BY <2>1, <3>1, <4>1, Zenon
    <3>3. CASE HandleInstallSnapshot(c)
      <4>1. Respond(c, installed)
        BY <3>3 DEF HandleInstallSnapshot
      <4> HIDE DEF installed
      <4> QED
        BY <2>1, <3>1, <4>1
    <3> QED
      BY <1>1, <3>2, <3>3
  <2>3. CASE UNCHANGED <<electionVars, disk>>
    BY <1>0, <2>2, <2>3, QuietStep DEF ElectionStep
  <2>4. CASE c.term >= currentTerm[n] /\ Follow(n, c)
             /\ (Persist(n) \/ (UNCHANGED disk /\ ~(c.term > currentTerm[n])))
    BY <1>0, <2>2, <2>4, FollowDemotes DEF ElectionStep
  <2> QED
    BY <1>1, <2>3, <2>4, Zenon DEF HandleAppendEntries, HandleInstallSnapshot
<1>2. HungUp(c) \subseteq Call /\ \A d \in HungUp(c) : d.kind = "voteResp" => d \in calls
  BY HungUpType DEF TypeInv, HungUp, Thread
<1>3. CASE CrashInHandler(c)
  <2> DEFINE saved == Durable(c.term, Nil, log[n])
  <2>1. Load(n, saved, HungUp(c)) /\ c.term > currentTerm[n]
    BY <1>3 DEF CrashInHandler
  <2>2. saved.currentTerm = c.term
    BY DEF Durable
  <2> HIDE DEF saved
  <2> QED
    BY <1>0, <1>2, <2>1, <2>2, LoadDemotes DEF ElectionStep
<1>4. CASE CrashAfterSave(c)
  <2> DEFINE merged == Merge(log[n], c.prev, c.entries)
             vote == IF c.term > currentTerm[n] THEN Nil ELSE votedFor[n]
             saved == Durable(c.term, vote, merged)
  <2>1. Load(n, saved, HungUp(c)) /\ c.term >= currentTerm[n]
    BY <1>4, Zenon DEF CrashAfterSave
  <2>2. saved.currentTerm = c.term /\ saved.votedFor = vote
    BY DEF Durable
  <2>3. \/ saved.currentTerm = currentTerm[n] /\ saved.votedFor = votedFor[n]
        \/ saved.currentTerm \in Nat /\ saved.currentTerm > currentTerm[n]
    BY <1>0, <2>1, <2>2 DEF ElectionType
  <2> HIDE DEF saved
  <2> QED
    BY <1>0, <1>2, <2>1, <2>3, LoadDemotes DEF ElectionStep
<1> QED
  BY <1>1, <1>3, <1>4

LEMMA ElectionSteps ==
  ASSUME ~SaveMayFail, TypeInv, DiskCurrent, [Next]_vars
  PROVE  ElectionStep /\ DiskCurrent'
<1>1. CASE UNCHANGED vars
  <2>1. UNCHANGED <<electionVars, disk>> /\ NoNewVotes
    BY <1>1 DEF vars, NoNewVotes
  <2> QED
    BY <2>1, QuietStep DEF ElectionStep, TypeInv
<1>2. CASE Next
  <2>1. CASE \E c \in calls : HandleRequestVote(c)
    BY <2>1, VoteRequestStep DEF ElectionStep
  <2> QED
    BY <1>2, <2>1, ServerElectionStep, VoteResponseStep, ReplicationStep, FollowerStep DEF Next
<1> QED
  BY <1>1, <1>2

=============================================================================
