----------------------------- MODULE MCHandover -----------------------------
(***************************************************************************)
(* RaftNode with a snapshot threshold above one, in the middle of a change *)
(* of leaders.  Every command is proposed once: they are numbers, in the   *)
(* order of the proposals.                                                 *)
(*                                                                         *)
(* The initial state is one that RaftNode reaches as follows.  Old leads   *)
(* term 1 and replicates its no-op and commands 1 and 2; everyone has      *)
(* heard that index 2 is committed, Old alone that index 3 is, so only Old *)
(* has reached the threshold and compacted.  Old takes command 3 and sends *)
(* it.  Before it arrives New campaigns and wins term 2 with the other's   *)
(* vote; Old refuses its vote and steps down.  New has appended its no-op, *)
(* at the index of command 3, and started its goroutines.                  *)
(***************************************************************************)
EXTENDS MCRaftNode

CONSTANTS Old, New

ASSUME HandoverAssumption ==
  /\ Old \in Server /\ New \in Server \ {Old}
  /\ Command = 1..(3 + MaxProposals) /\ SnapshotThreshold = 3

Shared ==
  [EmptyLog(Server) EXCEPT !.tail = <<Written(1, NoOp), Written(1, 1), Written(1, 2)>>]

Compacted ==
  [base |-> [index |-> 3, term |-> 1, peers |-> Server, data |-> History(Shared)],
   tail |-> <<Written(1, 3)>>]

\* The request for command 3, sent by Old in term 1.
Sent(p) ==
  [kind |-> "append", from |-> Old, to |-> p, waiter |-> 1, term |-> 1,
   prev |-> 3, prevTerm |-> 1, entries |-> Compacted.tail, commit |-> 3]

HandoverInit ==
  /\ state = [n \in Server |-> IF n = New THEN "Leader" ELSE "Follower"]
  /\ currentTerm = [n \in Server |-> 2]
  /\ votedFor = [n \in Server |-> IF n = Old THEN Nil ELSE New]
  /\ log = [n \in Server |->
       IF n = Old THEN Compacted
       ELSE IF n = New THEN [Shared EXCEPT !.tail = Append(@, Written(2, NoOp))]
       ELSE Shared]
  /\ commitIndex = [n \in Server |-> IF n = Old THEN 3 ELSE 2]
  /\ lastApplied = commitIndex
  /\ machine = [n \in Server |-> SubSeq(History(Shared), 1, lastApplied[n])]
  /\ nextIndex = [n \in Server |-> [p \in Server |->
       CASE n = New -> IF p = New THEN 5 ELSE 4
         [] n = Old -> IF p = Old THEN 5 ELSE 4
         [] OTHER   -> 0]]
  /\ matchIndex = [n \in Server |-> [p \in Server |->
       CASE n = New -> IF p = New THEN 4 ELSE 0
         [] n = Old -> IF p = Old THEN 4 ELSE 3
         [] OTHER   -> 0]]
  /\ replicating = [n \in Server |-> [p \in Server |-> n \in {Old, New} /\ p # n]]
  /\ votesReceived = [n \in Server |-> IF n \in {Old, New}
                                       THEN Server \ ({Old, New} \ {n}) ELSE {}]
  /\ leaderID = [n \in Server |-> IF n = New THEN New ELSE Nil]
  /\ joining = [n \in Server |-> FALSE]
  /\ disk = [n \in Server |-> Durable(currentTerm[n], votedFor[n], log[n])]
  /\ calls = {Thread("top", New, p, 1) : p \in Server \ {New}}
               \cup {Sent(p) : p \in Server \ {Old}}
  /\ used = [what \in DOMAIN Limit |-> 0]

HandoverNext ==
  \/ Bounded
  \/ Spend("proposals") /\ \E n \in Server : Propose(n, 4 + used.proposals)

HandoverSpec == HandoverInit /\ [][HandoverNext]_mcVars

\* Outside a crash a state machine only moves forward.  HandleInstallSnapshot
\* sets lastApplied to the index of the snapshot; the node may have applied more
\* than its own snapshot holds, which is all the guard compares with, and what
\* keeps a late snapshot from taking commands back is that a leader has one
\* request under way to a peer.
AppliedOnlyGrows ==
  [][used'.restarts = used.restarts =>
       \A n \in Server : PrefixOf(machine[n], machine'[n])]_mcVars
=============================================================================
