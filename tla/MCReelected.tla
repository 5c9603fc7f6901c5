---------------------------- MODULE MCReelected -----------------------------
(***************************************************************************)
(* A leader that has lost and won back its leadership.  The initial state  *)
(* is one that RaftNode reaches as follows.  Elected leads term 1 and      *)
(* sends its no-op to everyone.  Slow campaigns in term 2, which makes     *)
(* Elected step down, so that its goroutines end when the answers come;    *)
(* the one for Slow is about to.  Elected wins term 3, has appended its    *)
(* no-op and started its goroutines.                                       *)
(***************************************************************************)
EXTENDS MCRaftNode

CONSTANTS Elected, Slow

First == [EmptyLog(Server) EXCEPT !.tail = <<Written(1, NoOp)>>]

ReelectedInit ==
  /\ state = [n \in Server |-> IF n = Elected THEN "Leader" ELSE "Follower"]
  /\ currentTerm = [n \in Server |-> 3]
  /\ votedFor = [n \in Server |-> Elected]
  /\ log = [[n \in Server |-> First] EXCEPT ![Elected].tail = Append(@, Written(3, NoOp))]
  /\ commitIndex = [n \in Server |-> 0]
  /\ lastApplied = commitIndex
  /\ machine = [n \in Server |-> <<>>]
  /\ nextIndex = [n \in Server |-> [p \in Server |->
       IF n # Elected THEN 0 ELSE IF p = Elected THEN 3 ELSE 2]]
  /\ matchIndex = [n \in Server |-> [p \in Server |-> IF n = Elected /\ p = n THEN 2 ELSE 0]]
  /\ replicating = [n \in Server |-> [p \in Server |-> n = Elected /\ p # n]]
  /\ votesReceived = [n \in Server |-> IF n = Elected THEN Server \ {Slow}
                                       ELSE IF n = Slow THEN {Slow} ELSE {}]
  /\ leaderID = [n \in Server |-> IF n = Elected THEN Elected ELSE Nil]
  /\ joining = [n \in Server |-> FALSE]
  /\ disk = [n \in Server |-> Durable(currentTerm[n], votedFor[n], log[n])]
  /\ calls = {Thread("exit", Elected, Slow, 1)}
       \cup {Thread("top", Elected, p, IF p = Slow THEN 2 ELSE 1) : p \in Server \ {Elected}}
  /\ used = [what \in DOMAIN Limit |-> 0]

ReelectedSpec == ReelectedInit /\ [][MCNext]_mcVars
=============================================================================
