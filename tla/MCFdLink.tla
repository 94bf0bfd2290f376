------------------------------ MODULE MCFdLink ------------------------------
(* FdLink on small instances: who sends how many packets. *)
EXTENDS FdLink

CONSTANTS A, B

MCStations == {A, B}

\* A sends a packets and B sends b of them.
Load(a, b) == [s \in MCStations |-> IF s = A THEN a ELSE b]
Scenario(load, lost, ka, disc) ==
  [packets |-> load, losses |-> lost, keepalives |-> ka,
   disconnects |-> disc]

\* Lost frames on a line used both ways; or one loss, and the stations reset.
SafeScenarios    == {Scenario(Load(3, 1), 2, 0, 0), Scenario(Load(2, 0), 1, 2, 1)}
\* Losses while one packet is sent; or both windows filled on a perfect line.
LiveScenarios    == {Scenario(Load(1, 0), 2, 0, 0), Scenario(Load(3, 3), 0, 0, 0)}
\* One frame is lost while the window is full.
StallScenarios   == {Scenario(Load(3, 0), 1, 0, 0)}
=============================================================================
