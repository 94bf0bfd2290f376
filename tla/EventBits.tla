----------------------------- MODULE EventBits -----------------------------
(***************************************************************************)
(* What the event object of the HAL promises its callers, whatever the     *)
(* platform: every call takes effect at one moment.  A successful wait     *)
(* takes, at that moment, bits that are set, and returns them; no bit      *)
(* disappears.  A bit is taken once, but for event groups: there one set   *)
(* may serve several waiters at once.                                      *)
(***************************************************************************)
EXTENDS FiniteSets

CONSTANTS EbThreads, EbCalls

VARIABLES
    ebBits,    \* the bits that are set
    ebCall,    \* the call each thread is in
    ebPhase,   \* whether that call is still to take effect
    ebGot,     \* what it returns, if it is a wait
    ebGroup    \* whether the platform has event groups

ebVars == <<ebBits, ebCall, ebPhase, ebGot, ebGroup>>

EbInit ==
    /\ ebBits = {}
    /\ ebCall \in [EbThreads -> EbCalls]
    /\ ebPhase = [t \in EbThreads |-> "idle"]
    /\ ebGot = [t \in EbThreads |-> {}]
    /\ ebGroup \in BOOLEAN

EbBegin(t) ==
    /\ ebPhase[t] = "idle"
    /\ ebPhase' = [ebPhase EXCEPT ![t] = "pending"]
    /\ \E c \in EbCalls : ebCall' = [ebCall EXCEPT ![t] = c]
    /\ UNCHANGED <<ebBits, ebGot, ebGroup>>

EbWaits(t) == ebPhase[t] = "pending" /\ ebCall[t].op \in {"wait", "check"}

(* Those whom the bits b satisfy, and what they clear. *)
EbSatisfied(b) == {u \in EbThreads : EbWaits(u) /\ b \cap ebCall[u].bits # {}}
EbCleared(W) == UNION {ebCall[u].bits : u \in {w \in W : ebCall[w].clear}}

(* tiny_events_set, with the waiters it serves itself. *)
EbSet(t) ==
    /\ ebPhase[t] = "pending" /\ ebCall[t].op = "set"
    /\ LET b == ebBits \cup ebCall[t].bits IN
       \E W \in SUBSET EbSatisfied(b) :
           /\ W # {} => ebGroup
           /\ ebBits' = b \ EbCleared(W)
           /\ ebPhase' = [u \in EbThreads |-> IF u = t \/ u \in W THEN "done" ELSE ebPhase[u]]
           /\ ebGot' = [u \in EbThreads |-> IF u \in W THEN b \cap ebCall[u].bits ELSE ebGot[u]]
    /\ UNCHANGED <<ebCall, ebGroup>>

EbDone(t) == ebPhase' = [ebPhase EXCEPT ![t] = "done"] /\ UNCHANGED <<ebCall, ebGroup>>

(* tiny_events_clear. *)
EbClear(t) ==
    /\ ebPhase[t] = "pending" /\ ebCall[t].op = "clear"
    /\ ebBits' = ebBits \ ebCall[t].bits
    /\ EbDone(t)
    /\ UNCHANGED ebGot

(* A wait that succeeds returns those of its bits that are set, and maybe  *)
(* others that are.                                                        *)
EbTake(t) ==
    /\ EbWaits(t) /\ ebBits \cap ebCall[t].bits # {}
    /\ ebBits' = ebBits \ EbCleared({t})
    /\ \E got \in SUBSET ebBits :
           /\ ebBits \cap ebCall[t].bits \subseteq got
           /\ ebGot' = [ebGot EXCEPT ![t] = got]
    /\ EbDone(t)

(* A wait that fails leaves every bit as it was, and returns 0; a check    *)
(* that fails returns none of its bits.                                    *)
EbGiveUp(t) ==
    /\ EbWaits(t)
    /\ ebCall[t].timeout # "forever"
    /\ \E got \in SUBSET (ebBits \ ebCall[t].bits) :
           /\ ebCall[t].op = "wait" => got = {}
           /\ ebGot' = [ebGot EXCEPT ![t] = got]
    /\ EbDone(t)
    /\ UNCHANGED ebBits

EbEnd(t) ==
    /\ ebPhase[t] = "done"
    /\ ebPhase' = [ebPhase EXCEPT ![t] = "idle"]
    /\ ebGot' = [ebGot EXCEPT ![t] = {}]
    /\ UNCHANGED <<ebBits, ebCall, ebGroup>>

EbNext == \E t \in EbThreads :
    EbBegin(t) \/ EbSet(t) \/ EbClear(t) \/ EbTake(t) \/ EbGiveUp(t) \/ EbEnd(t)

EbSpec == EbInit /\ [][EbNext]_ebVars
=============================================================================
