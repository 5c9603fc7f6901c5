------------------------------ MODULE KVClient ------------------------------
(***************************************************************************)
(* Puts of clients, as kv.Server.Put serves them: propose the command on   *)
(* the node the client talks to, then poll until the log index it got has  *)
(* been applied there.  Every Put carries a command of its own.            *)
(***************************************************************************)
EXTENDS RaftNode

VARIABLE puts

kvVars == <<vars, puts>>

Unsent == [status |-> "unsent", server |-> Nil, index |-> 0, term |-> 0, led |-> FALSE]

\* Server.Put up to the return of Propose; a node that is not the leader
\* refuses and nothing changes.
Put(n, cmd) ==
  /\ puts[cmd].status = "unsent"
  /\ Propose(n, cmd)
  /\ puts' = [puts EXCEPT ![cmd] =
       [status |-> "waiting", server |-> n, index |-> LastIndex(log[n]) + 1,
        term |-> currentTerm[n], led |-> FALSE]]

\* Mutant: an entry in the leader's log counts as applied.
AppliedWhenAppended(p) == LastIndex(log[p.server]) >= p.index

Applied(p) == lastApplied[p.server] >= p.index

\* One poll of WaitApplied, or its timeout.  led records whether the node
\* still leads the term of the proposal when it acknowledges.
WaitApplied(cmd) ==
  LET p == puts[cmd]
      committed == commitIndex[p.server] >= p.index
      leads     == state[p.server] = "Leader" /\ currentTerm[p.server] = p.term
  IN  /\ p.status = "waiting"
      /\ \/ /\ Applied(p)
            /\ puts' = [puts EXCEPT ![cmd].status = "acked", ![cmd].led = leads]
         \/ /\ ~Applied(p) /\ ~committed /\ state[p.server] # "Leader"
            /\ puts' = [puts EXCEPT ![cmd].status = "failed"]
         \/ puts' = [puts EXCEPT ![cmd].status = "failed"]
      /\ UNCHANGED vars

\* A crash of n, between handlers or inside one, cuts off the clients that
\* wait on it.
Crash(n) ==
  /\ \/ Restart(n)
     \/ \E c \in calls : c.to = n /\ (CrashInHandler(c) \/ CrashAfterSave(c))
  /\ puts' = [cmd \in Command |->
                IF puts[cmd].server = n /\ puts[cmd].status = "waiting"
                THEN [puts[cmd] EXCEPT !.status = "failed"] ELSE puts[cmd]]

KVInit == puts = [cmd \in Command |-> Unsent]

-----------------------------------------------------------------------------
Holders(cmd) ==
  {n \in Server : \E i \in 1..Len(History(disk[n].log)) : History(disk[n].log)[i].cmd = cmd}

\* A Put that is acknowledged is in the log of a majority of the members, from
\* the acknowledgement on.
AckedOnMajority ==
  \A cmd \in Command :
    puts[cmd].status = "acked" => 2 * Cardinality(Holders(cmd)) > Cardinality(Server)

\* The same for a Put that is acknowledged by a node that has led its term
\* all along: what WaitApplied's test of lastApplied does establish.
AckedByLeaderOnMajority ==
  \A cmd \in Command :
    puts[cmd].status = "acked" /\ puts[cmd].led
      => 2 * Cardinality(Holders(cmd)) > Cardinality(Server)
=============================================================================
