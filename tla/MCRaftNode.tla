----------------------------- MODULE MCRaftNode -----------------------------
(***************************************************************************)
(* RaftNode on small clusters.  How often a timer fires, a client          *)
(* proposes, the transport fails and a node crashes is bounded; everything *)
(* else runs until nothing is left to do.                                  *)
(***************************************************************************)
EXTENDS MCElected, TLC

CONSTANTS
  MaxElections,   \* election deadlines that pass
  MaxHeartbeats,  \* heartbeat ticks of leaders, after the first broadcast
  MaxProposals,   \* client commands
  MaxErrors,      \* RPC errors and timeouts
  MaxRestarts     \* crashes

VARIABLE used     \* how much of each budget is spent

mcVars == <<vars, used>>

Symmetry == Permutations(Server)

(* The view leaves out what no later step reads: the leader's tables on a   *)
(* node that is not leader (becomeLeaderLocked rebuilds them), the votes of *)
(* a node that is not candidate, calls whose only effect left is to vanish, *)
(* and the content of a call whose only effect left is that its goroutine   *)
(* ends.  A dropped record was in view, and checked, when it was made, but  *)
(* for answers that are stale from the start.  Stale stays stale: terms do  *)
(* not go back as long as no save fails.                                    *)

\* No handler will act on c, and no goroutine ends with it.
Inert(c) ==
  \/ /\ c.kind = "voteResp" /\ c.rterm <= currentTerm[c.from]
     /\ ~(state[c.from] = "Candidate" /\ currentTerm[c.from] = c.term /\ c.granted)
  \/ /\ c.kind \in {"vote", "append", "install"} /\ c.waiter = 0
     /\ c.term < currentTerm[c.to]

\* c, or the goroutine about to end when that is all c leads to.
Settled(c) ==
  IF \/ c.kind \in {"appendResp", "installResp"} /\ c.term < currentTerm[c.from]
     \/ /\ c.kind \in {"append", "install"} /\ c.waiter # 0
        /\ c.term < currentTerm[c.from] /\ c.term < currentTerm[c.to]
  THEN Thread("exit", c.from, c.to, c.waiter) ELSE c

Leading(f) == [n \in Server |-> IF state[n] = "Leader" THEN f[n] ELSE <<>>]

View ==
  <<state, currentTerm, votedFor, leaderID, joining, logVars, disk, used,
    [n \in Server |-> IF state[n] = "Candidate" THEN votesReceived[n] ELSE {}],
    Leading(nextIndex), Leading(matchIndex), Leading(replicating),
    {Settled(c) : c \in {d \in calls : ~Inert(d)}}>>

Limit == [elections |-> MaxElections, heartbeats |-> MaxHeartbeats,
          proposals |-> MaxProposals, errors |-> MaxErrors, restarts |-> MaxRestarts]

Spend(what) == used[what] < Limit[what] /\ used' = [used EXCEPT ![what] = @ + 1]

\* An entry for initial states that are not Init.
Written(term, cmd) == [term |-> term, cmd |-> cmd, peers |-> {}]

MCInit == Init /\ used = [what \in DOMAIN Limit |-> 0]

Free ==
  \/ \E n \in Server : Tick(n)
  \/ \E c \in calls :
       \/ HandleRequestVote(c)
       \/ HandleVoteResponse(c)
       \/ ReplicateTo(c)
       \/ HandleAppendEntries(c)
       \/ HandleAppendResponse(c)
       \/ HandleInstallSnapshot(c)
       \/ HandleInstallResponse(c)
       \/ ReplicateExit(c)

\* All but the proposals.
Bounded ==
  \/ Free /\ UNCHANGED used
  \/ Spend("elections")  /\ \E n \in Server : StartElection(n)
  \/ Spend("heartbeats") /\ \E n \in Server : Heartbeat(n)
  \/ Spend("errors")     /\ \E c \in calls : RpcError(c)
  \/ Spend("restarts")   /\ (\/ \E n \in Server : Restart(n)
                             \/ \E c \in calls : CrashInHandler(c)
                             \/ \E c \in calls : CrashAfterSave(c))

MCNext ==
  \/ Bounded
  \/ Spend("proposals")  /\ \E n \in Server, cmd \in Command : Propose(n, cmd)

MCSpec == MCInit /\ [][MCNext]_mcVars
=============================================================================
