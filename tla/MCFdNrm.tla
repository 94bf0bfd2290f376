------------------------------ MODULE MCFdNrm ------------------------------
(* FdNrm with a primary and two secondaries. *)
EXTENDS FdNrm

\* The primary sends d packets to secondary 1, secondary 1 sends u back.
Only1(n) == [a \in {1, 2} |-> IF a = 1 THEN n ELSE 0]
NrmScenario(d, u, ui, losses, ka, disc, crashes) ==
  [down |-> Only1(d), up |-> Only1(u), ui |-> ui, losses |-> losses,
   keepalives |-> ka, disconnects |-> disc, crashes |-> crashes]

MCNrmScenarios == {NrmScenario(1, 0, 1, 0, 0, 0, 0),   \* a UI packet besides
                   NrmScenario(1, 0, 0, 0, 0, 1, 0),   \* a disconnection
                   NrmScenario(0, 1, 0, 1, 0, 0, 0),   \* a lost frame, data upwards
                   NrmScenario(1, 1, 0, 0, 0, 0, 0),   \* data both ways
                   NrmScenario(0, 0, 0, 0, 1, 0, 0),   \* keep-alive timers
                   NrmScenario(2, 0, 0, 0, 0, 0, 0),   \* a full window
                   NrmScenario(1, 0, 0, 0, 0, 0, 1)}   \* a secondary stops

\* What may disturb the polling.  These scenarios are fair; the others stop where
\* they like, which saves TLC most of its time.
PollScenarios == {NrmScenario(0, 1, 0, 1, 0, 0, 0), NrmScenario(1, 0, 0, 0, 0, 0, 1)}
Polls == run \in PollScenarios
PollFairness ==
  /\ WF_nrmVars(Polls /\ BusStep)
  /\ WF_nrmVars(Polls /\ \E a \in Secondaries : RegisterPeer(a))
  /\ \A k \in PeersOf(Primary) :
       /\ SF_nrmVars(Polls /\ Serves(k) /\ NrmConnectTimer)
       /\ SF_nrmVars(Polls /\ Serves(k) /\ NrmRetryTimer(Primary))
MCNrmSpec == NrmInit /\ [][NrmNext]_nrmVars /\ PollFairness

\* RoundRobin in these scenarios.
PollsRoundRobin == Polls => RoundRobin

DeadPeer == {NrmScenario(2, 0, 0, 0, 0, 0, 1)}    \* a peer with queued packets dies
=============================================================================
