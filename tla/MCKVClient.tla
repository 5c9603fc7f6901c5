----------------------------- MODULE MCKVClient -----------------------------
(* Puts on the bounded cluster of MCRaftNode, after its first election. *)
EXTENDS KVClient, MCRaftNode

MCKVInit ==
  /\ \E l \in Server : \E votes \in JustEnough(l) : ElectedInit(l, votes)
  /\ KVInit
  /\ used = [what \in DOMAIN Limit |-> 0]

MCKVNext ==
  \/ Free /\ UNCHANGED <<used, puts>>
  \/ Spend("elections")  /\ UNCHANGED puts /\ \E n \in Server : StartElection(n)
  \/ Spend("proposals")  /\ \E n \in Server, cmd \in Command : Put(n, cmd)
  \/ Spend("restarts")   /\ \E n \in Server : Crash(n)
  \/ UNCHANGED used       /\ \E cmd \in Command : WaitApplied(cmd)

MCKVSpec == MCKVInit /\ [][MCKVNext]_<<kvVars, used>>

KVView == <<View, puts>>
=============================================================================
