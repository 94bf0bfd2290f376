----------------------------- MODULE MCHdlcHigh ------------------------------
(* HdlcHigh with the parallel senders hdlc.h allows. *)
EXTENDS HdlcHigh

MCHhScenarios == {[multithread |-> TRUE, senders |-> {1, 2}]}
=============================================================================
