---------------------------- MODULE MCReplication ----------------------------
(***************************************************************************)
(* RaftNode under a stable leader: the election of term 1 is over, its     *)
(* winner keeps the leadership, and heartbeats never stop.  What is asked  *)
(* is whether every follower catches up once clients and the transport     *)
(* are quiet.                                                              *)
(***************************************************************************)
EXTENDS MCElected

CONSTANTS
  Elected,        \* the leader of term 1
  Reachable,      \* the followers that keep running
  MaxProposals,   \* client commands
  MaxErrors       \* RPC errors and timeouts on the way to a running follower

VARIABLES proposals, errors

repVars == <<vars, proposals, errors>>

Followers == Server \ {Elected}

ASSUME ReachableAssumption ==
  /\ Elected \in Server /\ Reachable \subseteq Followers
  /\ 2 * (Cardinality(Reachable) + 1) > Cardinality(Server)

RepInit ==
  /\ ElectedInit(Elected, CHOOSE votes \in JustEnough(Elected) : TRUE)
  /\ proposals = 0
  /\ errors = 0

\* The steps of the goroutine that replicates to p, and of p's handlers.
Replicate(p) ==
  /\ \E c \in calls :
       /\ c.to = p
       /\ \/ ReplicateTo(c)
          \/ HandleAppendEntries(c)
          \/ HandleAppendResponse(c)
          \/ HandleInstallSnapshot(c)
          \/ HandleInstallResponse(c)
          \/ ReplicateExit(c)
  /\ UNCHANGED <<proposals, errors>>

LeaderTick == Heartbeat(Elected) /\ UNCHANGED <<proposals, errors>>

FollowerTick(p) == Tick(p) /\ UNCHANGED <<proposals, errors>>

RepNext ==
  \/ \E p \in Followers : Replicate(p) \/ FollowerTick(p)
  \/ LeaderTick
  \/ /\ proposals < MaxProposals
     /\ proposals' = proposals + 1
     /\ UNCHANGED errors
     /\ \E cmd \in Command : Propose(Elected, cmd)
  \/ /\ errors < MaxErrors
     /\ errors' = errors + 1
     /\ UNCHANGED proposals
     /\ \E c \in calls : c.to \in Reachable /\ RpcError(c)

\* The ticker runs every 5ms, goroutines are scheduled and RPCs return.
RepSpec ==
  /\ RepInit
  /\ [][RepNext]_repVars
  /\ WF_repVars(LeaderTick)
  /\ \A p \in Reachable : WF_repVars(Replicate(p)) /\ WF_repVars(FollowerTick(p))

\* With a majority running, every running follower ends up with everything
\* the leader's log stands for, and has applied it (replicateTo's backoff, its
\* retries after errors, and the commit index that heartbeats carry).
FollowersCatchUp == <>[](\A p \in Reachable : machine[p] = History(log[Elected]))
=============================================================================
