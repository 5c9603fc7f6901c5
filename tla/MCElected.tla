----------------------------- MODULE MCElected ------------------------------
(* RaftNode after its first election. *)
EXTENDS RaftNode

JustEnough(l) ==
  {votes \in SUBSET Server : l \in votes /\ Cardinality(votes) = Majority(EmptyLog(Server))}

\* The state in which becomeLeaderLocked leaves the winner of a first election
\* in which every node voted for it; votes are those that made the majority.
ElectedInit(l, votes) ==
  /\ state = [n \in Server |-> IF n = l THEN "Leader" ELSE "Follower"]
  /\ currentTerm = [n \in Server |-> 1]
  /\ votedFor = [n \in Server |-> l]
  /\ log = [n \in Server |->
       IF n = l
       THEN [EmptyLog(Server) EXCEPT !.tail = <<[term |-> 1, cmd |-> NoOp, peers |-> {}]>>]
       ELSE EmptyLog(Server)]
  /\ commitIndex = [n \in Server |-> 0]
  /\ lastApplied = [n \in Server |-> 0]
  /\ machine = [n \in Server |-> <<>>]
  /\ nextIndex = [n \in Server |-> [p \in Server |->
       IF n # l THEN 0 ELSE IF p = n THEN 2 ELSE 1]]
  /\ matchIndex = [n \in Server |-> [p \in Server |-> IF n = l /\ p = n THEN 1 ELSE 0]]
  /\ replicating = [n \in Server |-> [p \in Server |-> n = l /\ p # n]]
  /\ votesReceived = [n \in Server |-> IF n = l THEN votes ELSE {}]
  /\ leaderID = [n \in Server |-> IF n = l THEN n ELSE Nil]
  /\ joining = [n \in Server |-> FALSE]
  /\ disk = [n \in Server |-> Durable(1, l, log[n])]
  /\ calls = {Thread("top", l, p, 1) : p \in Server \ {l}}
=============================================================================
