------------------------- MODULE RaftElectionProofs -------------------------
(***************************************************************************)
(* Election safety of RaftNode, when saves do not fail.  A vote leaves two *)
(* kinds of evidence: a granted answer on its way, and a member of         *)
(* votesReceived.  The invariant says of all the evidence there is that    *)
(* the voter has since kept its word (VotesKept) and that no voter has     *)
(* backed two candidates of one term (VotesUnique); two leaders of a term  *)
(* would share a voter of their majorities.                                *)
(***************************************************************************)
EXTENDS RaftMemberProofs, RaftVoteProofs

-----------------------------------------------------------------------------
(* The votes a node has given, as answers in flight and votes counted.     *)

\* There is evidence that v voted for n in term t.
Granted(v, t, n) ==
  \/ \E c \in calls : /\ c.kind = "voteResp" /\ c.granted
                      /\ c.to = v /\ c.term = t /\ c.from = n
  \/ state[n] \in {"Candidate", "Leader"} /\ currentTerm[n] = t /\ v \in votesReceived[n]

\* A vote given in term t is still v's vote, or v has left the term.
VotesKept ==
  \A v, n \in Server, t \in Nat :
    Granted(v, t, n) => \/ currentTerm[v] > t
                        \/ currentTerm[v] = t /\ votedFor[v] = n

\* In one term v gives its vote to one node.
VotesUnique ==
  \A v, m, n \in Server, t \in Nat : Granted(v, t, m) /\ Granted(v, t, n) => m = n

\* A leader has counted the votes of a majority.
LeaderVotes ==
  \A n \in Server :
    state[n] = "Leader" => 2 * Cardinality(votesReceived[n]) > Cardinality(Server)

\* The inductive invariant behind ElectionSafety.
ElectionInv ==
  TypeInv /\ FixedMembership /\ DiskCurrent /\ VotesKept /\ VotesUnique /\ LeaderVotes

\* Terms and votes change only as VoteOnceStep allows.
LEMMA VoteStep ==
  ASSUME ElectionType, ElectionStep, calls \subseteq Call
  PROVE  VoteOnceStep
<1>1. CASE Quiet
  BY <1>1 DEF Quiet, VoteOnceStep, ElectionType
<1>2. ASSUME NEW n \in Server, Demote(n) \/ Campaign(n)
      PROVE  VoteOnceStep
  BY <1>2 DEF Demote, Campaign, OthersKeep, VoteOnceStep, ElectionType
<1>3. ASSUME NEW c \in calls, CastVote(c)
      PROVE  VoteOnceStep
  <2>1. c.to \in Server
    BY CallFields
  <2> QED
    BY <1>3, <2>1 DEF CastVote, OthersKeep, VoteOnceStep, ElectionType
<1>4. ASSUME NEW c \in calls, CountVote(c)
      PROVE  VoteOnceStep
  BY <1>4 DEF CountVote, VoteOnceStep, ElectionType
<1> QED
  BY <1>1, <1>2, <1>3, <1>4 DEF ElectionStep

\* New evidence of a vote appears only with the vote itself.
LEMMA GrantStep ==
  ASSUME ElectionType, ElectionStep, calls \subseteq Call, (ElectionType)',
         NEW v \in Server, NEW n \in Server, NEW t \in Nat, Granted(v, t, n)'
  PROVE  Granted(v, t, n) \/ (currentTerm'[v] = t /\ votedFor'[v] = n)
<1>1. CASE Quiet
  BY <1>1 DEF Quiet, Granted, NoNewVotes
<1>2. ASSUME NEW m \in Server, Demote(m)
      PROVE  Granted(v, t, n)
  BY <1>2 DEF Demote, OthersKeep, Granted, NoNewVotes
<1>3. ASSUME NEW m \in Server, Campaign(m)
      PROVE  Granted(v, t, n) \/ (currentTerm'[v] = t /\ votedFor'[v] = n)
  BY <1>3 DEF Campaign, OthersKeep, Granted, NoNewVotes
<1>4. ASSUME NEW c \in calls, CastVote(c)
      PROVE  Granted(v, t, n) \/ (currentTerm'[v] = t /\ votedFor'[v] = n)
  <2> DEFINE w == c.to
  <2>1. w \in Server
    BY CallFields
  <2>2. CASE \E d \in calls' : /\ d.kind = "voteResp" /\ d.granted
                              /\ d.to = v /\ d.term = t /\ d.from = n
    BY <1>4, <2>2 DEF CastVote, Granted
  <2>3. CASE state'[n] \in {"Candidate", "Leader"} /\ currentTerm'[n] = t
             /\ v \in votesReceived'[n]
    <3>1. state[n] = state'[n] /\ currentTerm[n] = t /\ votesReceived[n] = votesReceived'[n]
      <4>1. CASE n # w
        BY <1>4, <4>1 , <2>3 DEF CastVote, OthersKeep
      <4>2. CASE n = w
        <5>1. /\ currentTerm'[w] >= currentTerm[w]
              /\ currentTerm'[w] = currentTerm[w] => state'[w] = state[w]
              /\ currentTerm'[w] > currentTerm[w] => state'[w] = "Follower"
              /\ votesReceived'[w] = votesReceived[w]
          BY <1>4 DEF CastVote
        <5>2. currentTerm[w] \in Nat /\ currentTerm'[w] \in Nat
          BY <2>1 DEF ElectionType
        <5> HIDE DEF w
        <5>3. currentTerm'[w] = currentTerm[w]
          BY <2>3, <4>2, <5>1, <5>2
        <5> QED
          BY <2>3, <4>2, <5>1, <5>3
      <4> QED
        BY <4>1, <4>2
    <3> QED
      BY <2>3, <3>1 DEF Granted
  <2> QED
    BY <2>2, <2>3 DEF Granted
<1>5. ASSUME NEW c \in calls, CountVote(c)
      PROVE  Granted(v, t, n)
  <2>1. CASE \E d \in calls' : /\ d.kind = "voteResp" /\ d.granted
                              /\ d.to = v /\ d.term = t /\ d.from = n
    BY <1>5, <2>1 DEF CountVote, NoNewVotes, Granted
  <2>2. CASE state'[n] \in {"Candidate", "Leader"} /\ currentTerm'[n] = t
             /\ v \in votesReceived'[n]
    <3>1. CASE n # c.from
      BY <1>5, <2>2, <3>1 DEF CountVote, OthersKeep, Granted
    <3>2. CASE n = c.from
      BY <1>5, <2>2, <3>2 DEF CountVote, Granted
    <3> QED
      BY <3>1, <3>2
  <2> QED
    BY <2>1, <2>2 DEF Granted
<1> QED
  BY <1>1, <1>2, <1>3, <1>4, <1>5 DEF ElectionStep

LEMMA KeptStep ==
  ASSUME TypeInv, TypeInv', VotesKept, ElectionStep
  PROVE  VotesKept'
<1>1. VoteOnceStep
  BY VoteStep DEF TypeInv, CallsType
<1> SUFFICES ASSUME NEW v \in Server, NEW n \in Server, NEW t \in Nat, Granted(v, t, n)'
             PROVE  \/ currentTerm'[v] > t
                    \/ currentTerm'[v] = t /\ votedFor'[v] = n
  BY DEF VotesKept
<1>2. Granted(v, t, n) \/ (currentTerm'[v] = t /\ votedFor'[v] = n)
  BY GrantStep DEF TypeInv, CallsType
<1>3. CASE Granted(v, t, n)
  <2>1. \/ currentTerm[v] > t
        \/ currentTerm[v] = t /\ votedFor[v] = n
    BY <1>3 DEF VotesKept
  <2>2. currentTerm[v] \in Nat /\ currentTerm'[v] \in Nat /\ Nil # n
    BY ServerAssumption DEF TypeInv, ElectionType
  <2> QED
    BY <1>1, <2>1, <2>2 DEF VoteOnceStep
<1> QED
  BY <1>2, <1>3

LEMMA UniqueStep ==
  ASSUME TypeInv, TypeInv', VotesKept, VotesUnique, ElectionStep
  PROVE  VotesUnique'
<1>1. VoteOnceStep
  BY VoteStep DEF TypeInv, CallsType
<1>2. ASSUME NEW v \in Server, NEW m \in Server, NEW n \in Server, NEW t \in Nat,
             Granted(v, t, m), currentTerm'[v] = t /\ votedFor'[v] = n
      PROVE  m = n
  <2>1. \/ currentTerm[v] > t
        \/ currentTerm[v] = t /\ votedFor[v] = m
    BY <1>2 DEF VotesKept
  <2>2. currentTerm[v] \in Nat /\ currentTerm'[v] \in Nat /\ Nil # m
    BY ServerAssumption DEF TypeInv, ElectionType
  <2> QED
    BY <1>1, <1>2, <2>1, <2>2 DEF VoteOnceStep
<1>3. ASSUME NEW v \in Server, NEW m \in Server, NEW n \in Server, NEW t \in Nat,
             Granted(v, t, m)', Granted(v, t, n)'
      PROVE  m = n
  <2>1. /\ Granted(v, t, m) \/ (currentTerm'[v] = t /\ votedFor'[v] = m)
        /\ Granted(v, t, n) \/ (currentTerm'[v] = t /\ votedFor'[v] = n)
    BY <1>3, GrantStep DEF TypeInv, CallsType
  <2>2. Granted(v, t, m) /\ Granted(v, t, n) => m = n
    BY DEF VotesUnique
  <2> QED
    BY <1>2, <2>1, <2>2
<1> QED
  BY <1>3 DEF VotesUnique

\* majority() of a log with no change in it counts every server.
LEMMA MajorityOfServers ==
  ASSUME TypeInv', FixedMembership, NEW n \in Server,
         Cardinality(votesReceived'[n]) >= Majority(log[n])
  PROVE  2 * Cardinality(votesReceived'[n]) > Cardinality(Server)
<1>1. Majority(log[n]) = (Cardinality(Server) \div 2) + 1
  BY FixedPeers DEF Majority, FixedMembership, FixedLogs
<1>2. Cardinality(Server) \in Nat
  BY ServerAssumption, FS_CardinalityType
<1>3. Cardinality(votesReceived'[n]) \in Nat
  BY ServerAssumption, FS_Subset, FS_CardinalityType DEF TypeInv, ElectionType
<1> QED
  BY <1>1, <1>2, <1>3

LEMMA LeaderVotesStep ==
  ASSUME TypeInv, TypeInv', FixedMembership, LeaderVotes, ElectionStep
  PROVE  LeaderVotes'
<1>1. CASE Quiet
  BY <1>1 DEF Quiet, LeaderVotes
<1>2. ASSUME NEW m \in Server, Demote(m)
      PROVE  LeaderVotes'
  BY <1>2 DEF Demote, OthersKeep, LeaderVotes
<1>3. ASSUME NEW m \in Server, Campaign(m)
      PROVE  LeaderVotes'
  <2>1. state'[m] = "Leader" => Cardinality(votesReceived'[m]) >= Majority(log[m])
    BY <1>3, FS_Singleton, Zenon DEF Campaign
  <2> QED
    BY <1>3, <2>1, MajorityOfServers DEF Campaign, OthersKeep, LeaderVotes
<1>4. ASSUME NEW c \in calls, CastVote(c)
      PROVE  LeaderVotes'
  <2>1. c.to \in Server /\ currentTerm[c.to] \in Nat /\ currentTerm'[c.to] \in Nat
    BY CallFields DEF TypeInv, CallsType, ElectionType
  <2>2. state'[c.to] = "Leader" => state[c.to] = "Leader"
    BY <1>4, <2>1 DEF CastVote
  <2> QED
    BY <1>4, <2>1, <2>2 DEF CastVote, OthersKeep, LeaderVotes
<1>5. ASSUME NEW c \in calls, CountVote(c)
      PROVE  LeaderVotes'
  <2>1. c.from \in Server
    BY CallFields DEF TypeInv, CallsType
  <2> QED
    BY <1>5, <2>1, MajorityOfServers, Zenon DEF CountVote, OthersKeep, LeaderVotes
<1> QED
  BY <1>1, <1>2, <1>3, <1>4, <1>5 DEF ElectionStep

LEMMA ElectionInit == Init => ElectionInv
<1> SUFFICES ASSUME Init PROVE ElectionInv
  OBVIOUS
<1>1. TypeInv /\ FixedMembership
  BY InitType, FixedInit
<1>2. DiskCurrent
  BY DEF Init, DiskCurrent, Durable
<1>3. VotesKept /\ VotesUnique /\ LeaderVotes
  BY DEF Init, VotesKept, VotesUnique, LeaderVotes, Granted
<1> QED
  BY <1>1, <1>2, <1>3 DEF ElectionInv

LEMMA ElectionNext ==
  ASSUME ~SaveMayFail, ElectionInv, [Next]_vars
  PROVE  ElectionInv' /\ VoteOnceStep
<1>1. TypeInv' /\ FixedMembership'
  BY NextType, FixedStep DEF ElectionInv
<1>2. ElectionStep /\ DiskCurrent'
  BY ElectionSteps DEF ElectionInv
<1>3. VotesKept' /\ VotesUnique' /\ LeaderVotes'
  BY <1>1, <1>2, KeptStep, UniqueStep, LeaderVotesStep DEF ElectionInv
<1>4. VoteOnceStep
  BY <1>2, VoteStep DEF ElectionInv, TypeInv, CallsType
<1> QED
  BY <1>1, <1>2, <1>3, <1>4 DEF ElectionInv

\* Two leaders of a term share a voter, and a voter votes once.
LEMMA OneLeader == ElectionInv => ElectionSafety
<1> SUFFICES ASSUME ElectionInv, NEW m \in Server, NEW n \in Server,
                    state[m] = "Leader", state[n] = "Leader",
                    currentTerm[m] = currentTerm[n]
             PROVE  m = n
  BY DEF ElectionSafety
<1> DEFINE M == votesReceived[m]
           N == votesReceived[n]
<1>1. M \subseteq Server /\ N \subseteq Server /\ currentTerm[n] \in Nat
  BY DEF ElectionInv, TypeInv, ElectionType
<1>2. 2 * Cardinality(M) > Cardinality(Server) /\ 2 * Cardinality(N) > Cardinality(Server)
  BY DEF ElectionInv, LeaderVotes
<1>3. Cardinality(M) \in Nat /\ Cardinality(N) \in Nat /\ Cardinality(Server) \in Nat
  BY <1>1, ServerAssumption, FS_Subset, FS_CardinalityType
<1>4. Cardinality(M) + Cardinality(N) > Cardinality(Server)
  BY <1>2, <1>3
<1>5. M \cap N # {}
  BY <1>1, <1>4, ServerAssumption, FS_MajoritiesIntersect
<1>6. PICK v \in Server : v \in M /\ v \in N
  BY <1>1, <1>5
<1>7. Granted(v, currentTerm[n], m) /\ Granted(v, currentTerm[n], n)
  BY <1>6 DEF Granted
<1> QED
  BY <1>1, <1>7 DEF ElectionInv, VotesUnique

\* The invariant behind election safety, when every save succeeds.
THEOREM ElectionInvariant == ASSUME ~SaveMayFail PROVE Spec => []ElectionInv
<1>1. ElectionInv /\ [Next]_vars => ElectionInv'
  BY ElectionNext
<1> QED
  BY <1>1, ElectionInit, PTL DEF Spec

\* At most one node acts as leader of a term: for any number of servers, any
\* number of elections, crashes (inside a handler too), late or lost RPCs and
\* snapshots, as long as persistLocked's saves succeed.
THEOREM OneLeaderPerTerm == ASSUME ~SaveMayFail PROVE Spec => []ElectionSafety
BY ElectionInvariant, OneLeader, PTL

\* Terms never go back and a node never changes or forgets its vote within a
\* term, restarts included, as long as persistLocked's saves succeed.
THEOREM VotesAreFinal == ASSUME ~SaveMayFail PROVE Spec => VoteOnce
<1>1. ElectionInv /\ [Next]_vars => [VoteOnceStep]_vars
  BY ElectionNext
<1> QED
  BY <1>1, ElectionInvariant, PTL DEF Spec, VoteOnce
=============================================================================
