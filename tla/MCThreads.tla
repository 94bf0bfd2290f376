------------------------------ MODULE MCThreads ------------------------------
(***************************************************************************)
(* The components in which threads, event bits and locks meet, checked in  *)
(* one run: part says which of them the behaviour is about, and the others *)
(* keep their first initial state.                                         *)
(***************************************************************************)
EXTENDS MCEvents, HdlcHigh, HdlcLink, PyFd

VARIABLE part

mcVars == <<part, evVars, hhVars, hlVars, pyVars>>

(* The lone sender of a pump thread; MCData has the other scenarios. *)
MCHhLone == {[multithread |-> TRUE, senders |-> {1}]}

(* One sender with a transmitting thread, two of them, and one without. *)
MCHlScenario(n, m, f) ==
    [senders |-> DOMAIN n, sends |-> n, multithread |-> m, fresh |-> f, empties |-> f]
MCHlScenarios ==
    {MCHlScenario(<<2>>, TRUE, TRUE), MCHlScenario(<<2, 1>>, TRUE, FALSE),
     MCHlScenario(<<2>>, FALSE, TRUE)}

(* A thread for each direction, and one that sends and parses by itself;   *)
(* or two threads that both call run_tx, and one that looks at the state.  *)
MCPyScenarios ==
    {(t1 :> {"run_tx"} @@ t2 :> {"run_rx"} @@ t3 :> {"send", "rx"}),
     (t1 :> {"run_tx"} @@ t2 :> {"run_tx"} @@ t3 :> {"get_status"})}

MCInit ==
    /\ part \in {"events", "hdlc", "link", "python"}
    /\ EvInit /\ (part = "events" \/ hal = LinuxHal)
    /\ HhInit
    /\ HlInit /\ (part = "link" \/ hlSetup = CHOOSE c \in HlScenarios : c.senders = {1})
    /\ PyInit /\ (part = "python" \/ pyRoles[t2] = {"run_rx"})

(* A step of one part. *)
InEvents(A) == part = "events" /\ A /\ UNCHANGED <<part, hhVars, hlVars, pyVars>>
InHdlc(A) == part = "hdlc" /\ A /\ UNCHANGED <<part, evVars, hlVars, pyVars>>
InLink(A) == part = "link" /\ A /\ UNCHANGED <<part, evVars, hhVars, pyVars>>
InPython(A) == part = "python" /\ A /\ UNCHANGED <<part, evVars, hhVars, hlVars>>

MCNext == InEvents(EvNext) \/ InHdlc(HhNext) \/ InLink(HlNext) \/ InPython(PyNext)

(* EvFairness, HhFairness, HlFairness and PyFairness, each for the part    *)
(* that runs: part never changes, so that a condition may name a step of   *)
(* each of them, which leaves TLC fewer conditions to look at.             *)
MCStrong(t) ==
    \/ t \in EvThreads /\ InEvents(EvLock(t) \/ EvExpired(t))
    \/ InPython(PyStep(t))

MCWeak(t) ==
    \/ t \in EvThreads /\ InEvents(EvStep(t))
    \/ t = t1 /\ (InHdlc(HhPumpStep) \/ InLink(HlPumpStep))
    \/ t = t2 /\ (InHdlc(HhSenderStep(1)) \/ InLink(HlSenderStep(1)))
    \/ t = t3 /\ (InEvents(EvTick) \/ InLink(2 \in HlSenders /\ HlSenderStep(2)))

MCFairness == \A t \in PyThreads : WF_mcVars(MCWeak(t)) /\ SF_mcVars(MCStrong(t))

MCSpec == MCInit /\ [][MCNext]_mcVars /\ MCFairness
=============================================================================
