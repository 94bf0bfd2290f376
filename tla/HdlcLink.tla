------------------------------ MODULE HdlcLink ------------------------------
(***************************************************************************)
(* Sending through the C++ classes: Proto::send over IHdlcLinkLayer        *)
(* (TinyProtocol.cpp, link/TinyHdlcLinkLayer.cpp).  put() queues the       *)
(* buffer and answers false; the caller's loop calls it again and the      *)
(* second call, once TX_QUEUE_FREE is back, recognises the buffer and      *)
(* answers true.  A caller that runs out of time asks the transmitting     *)
(* side to drop the frame.  The framing is one slot and the bytes left.    *)
(* m_sendMutex guards put(), flushTx() and the flush in getData(), but not *)
(* hdlc_ll_run_tx, which may pick up a frame that put() is still queueing. *)
(***************************************************************************)
EXTENDS Naturals, FiniteSets

CONSTANTS
    HlScenarios,    \* records: senders, sends (bounds the sends of each), multithread,
                    \* fresh (a new buffer for each send), empties (packets may be empty)
    HlBytes         \* bytes of an encoded frame

ASSUME HlAssumption ==
    /\ HlBytes \in Nat \ {0}
    /\ \A c \in HlScenarios :
           /\ {c.multithread, c.fresh, c.empties} \subseteq BOOLEAN
           /\ ~c.multithread => \E s \in c.senders : c.senders = {s}

HlNoFrame == [frame |-> <<>>, left |-> 0]

VARIABLES
    hlSetup,    \* the scenario
    hlEvents,   \* m_events: "FREE" (TX_QUEUE_FREE), "SENDING" (TX_MESSAGE_SENDING)
    hlTemp,     \* m_tempBuffer, <<>> for nullptr
    hlFlush,    \* m_flushFlag
    hlTx,       \* the frame in the framing layer
    hlPump,     \* where runTx is
    hlCall,     \* where each sender is in Proto::send
    hlSends,    \* sends begun by each sender
    hlEmpty,    \* the senders whose packet is empty
    hlGaveUp,   \* a send has run out of time and called flushTx
    hlRefused,  \* hdlc_ll_put_frame has answered with an error
    hlOut,      \* frames that left completely
    hlOk        \* frames for which send() returned true

hlVars == <<hlSetup, hlEvents, hlTemp, hlFlush, hlTx, hlPump, hlCall, hlSends, hlEmpty, hlGaveUp, hlRefused, hlOut, hlOk>>

HlSenders == hlSetup.senders
HlFrame(s) == <<s, hlSends[s]>>
HlBuffer(s) == IF hlSetup.fresh THEN HlFrame(s) ELSE <<s>>

(* IHdlcLinkLayer::begin *)
HlInit ==
    /\ hlSetup \in HlScenarios
    /\ hlEvents = {"FREE"}
    /\ hlTemp = <<>> /\ hlFlush = FALSE
    /\ hlTx = HlNoFrame
    /\ hlPump = "wait"
    /\ hlCall = [s \in HlSenders |-> "idle"]
    /\ hlSends = [s \in HlSenders |-> 0]
    /\ hlEmpty = {} /\ hlGaveUp = FALSE
    /\ hlRefused = FALSE
    /\ hlOut = {} /\ hlOk = {}

(***************************************************************************)
(* Proto::send                                                             *)
(***************************************************************************)

HlGoto(s, pc) == hlCall' = [hlCall EXCEPT ![s] = pc]
HlSendMutexFree == \A s \in HlSenders : hlCall[s] # "framed"

HlSend(s) ==
    /\ hlCall[s] = "idle" /\ hlSends[s] < hlSetup.sends[s]
    /\ hlSends' = [hlSends EXCEPT ![s] = @ + 1]
    /\ \/ hlEmpty' = hlEmpty \ {s}
       \/ hlSetup.empties /\ hlEmpty' = hlEmpty \cup {s}
    /\ HlGoto(s, "put")
    /\ UNCHANGED <<hlSetup, hlEvents, hlTemp, hlFlush, hlTx, hlPump, hlGaveUp, hlRefused, hlOut, hlOk>>

(* put() waits for TX_QUEUE_FREE: it takes the bit, or its timeout passes, *)
(* which with threads is all the time that send() has.                     *)
HlPutWait(s) ==
    /\ hlCall[s] = "put" /\ "FREE" \in hlEvents
    /\ hlEvents' = hlEvents \ {"FREE"}
    /\ HlGoto(s, "locked")
    /\ UNCHANGED <<hlSetup, hlTemp, hlFlush, hlTx, hlPump, hlSends, hlEmpty, hlGaveUp, hlRefused, hlOut, hlOk>>

HlPutTimeout(s) ==
    /\ hlCall[s] = "put"
    /\ HlGoto(s, IF hlSetup.multithread THEN "over" ELSE "late")
    /\ UNCHANGED <<hlSetup, hlEvents, hlTemp, hlFlush, hlTx, hlPump, hlSends, hlEmpty, hlGaveUp, hlRefused, hlOut, hlOk>>

(* Mutant: any buffer that was queued is taken for the caller's. *)
HlWasQueuedAny(s) == hlTemp # <<>>

(* m_tempBuffer == buf: this is the call that finds its frame sent. *)
HlWasQueued(s) == hlTemp = HlBuffer(s)

(* put() takes m_sendMutex.  hdlc_ll_put_frame fills the slot, and answers *)
(* success for an empty buffer too, for which it does nothing.             *)
HlPut(s) ==
    /\ hlCall[s] = "locked" /\ HlSendMutexFree
    /\ hlFlush' = FALSE
    /\ \/ /\ HlWasQueued(s)
          /\ hlTemp' = <<>>
          /\ hlEvents' = hlEvents \cup {"FREE"}
          /\ hlOk' = hlOk \cup {HlFrame(s)}
          /\ HlGoto(s, "idle")
          /\ UNCHANGED <<hlTx, hlRefused>>
       \/ /\ ~HlWasQueued(s) /\ hlTx = HlNoFrame
          /\ hlTx' = IF s \in hlEmpty THEN HlNoFrame
                     ELSE [frame |-> HlFrame(s), left |-> HlBytes]
          /\ HlGoto(s, "framed")
          /\ UNCHANGED <<hlTemp, hlEvents, hlOk, hlRefused>>
       \/ /\ ~HlWasQueued(s) /\ hlTx # HlNoFrame
          /\ hlRefused' = TRUE
          /\ hlEvents' = hlEvents \cup {"FREE"}
          /\ HlGoto(s, "late")
          /\ UNCHANGED <<hlTemp, hlTx, hlOk>>
    /\ UNCHANGED <<hlSetup, hlPump, hlSends, hlEmpty, hlGaveUp, hlOut>>

(* The rest of put(), still under the mutex: only now TX_MESSAGE_SENDING   *)
(* is set, and m_tempBuffer, which nobody reads without the mutex.         *)
HlPutQueued(s) ==
    /\ hlCall[s] = "framed"
    /\ hlTemp' = HlBuffer(s)
    /\ hlEvents' = hlEvents \cup {"SENDING"}
    /\ HlGoto(s, "late")
    /\ UNCHANGED <<hlSetup, hlFlush, hlTx, hlPump, hlSends, hlEmpty, hlGaveUp, hlRefused, hlOut, hlOk>>

(* The time is not over: once more, after a turn of the link when there    *)
(* are no threads.                                                         *)
HlAgain(s) ==
    /\ hlCall[s] = "late"
    /\ HlGoto(s, IF hlSetup.multithread THEN "put" ELSE "turn")
    /\ UNCHANGED <<hlSetup, hlEvents, hlTemp, hlFlush, hlTx, hlPump, hlSends, hlEmpty, hlGaveUp, hlRefused, hlOut, hlOk>>

HlTurned(s) ==
    /\ hlCall[s] = "turn" /\ hlPump = "wait"
    /\ HlGoto(s, "put")
    /\ UNCHANGED <<hlSetup, hlEvents, hlTemp, hlFlush, hlTx, hlPump, hlSends, hlEmpty, hlGaveUp, hlRefused, hlOut, hlOk>>

(* The time is over: flushTx, and false. *)
HlGiveUp(s) ==
    /\ hlCall[s] \in {"late", "over"} /\ HlSendMutexFree
    /\ hlFlush' = TRUE
    /\ hlGaveUp' = TRUE
    /\ HlGoto(s, "idle")
    /\ UNCHANGED <<hlSetup, hlEvents, hlTemp, hlTx, hlPump, hlSends, hlEmpty, hlRefused, hlOut, hlOk>>

(***************************************************************************)
(* runTx: getData and, inside it, hdlc_ll_run_tx.                          *)
(***************************************************************************)

HlMayPump == hlSetup.multithread \/ \E s \in HlSenders : hlCall[s] = "turn"

HlGetData ==
    /\ HlMayPump /\ hlPump = "wait" /\ "SENDING" \in hlEvents
    /\ hlPump' = "lock"
    /\ UNCHANGED <<hlSetup, hlEvents, hlTemp, hlFlush, hlTx, hlCall, hlSends, hlEmpty, hlGaveUp, hlRefused, hlOut, hlOk>>

(* hdlc_ll_reset, TX only *)
HlResetTx == HlNoFrame

(* Mutant: the flush forgets to give the queue back. *)
HlFlushedForgotten == hlEvents \ {"SENDING"}
HlFlushed == (hlEvents \ {"SENDING"}) \cup {"FREE"}

(* Under m_sendMutex: a frame to be flushed is dropped. *)
HlTestFlush ==
    /\ hlPump = "lock" /\ HlSendMutexFree
    /\ IF hlFlush
       THEN /\ hlTx' = HlResetTx
            /\ hlEvents' = HlFlushed
            /\ hlPump' = "wait"
       ELSE hlPump' = "run" /\ UNCHANGED <<hlTx, hlEvents>>
    /\ hlFlush' = FALSE
    /\ UNCHANGED <<hlSetup, hlTemp, hlCall, hlSends, hlEmpty, hlGaveUp, hlRefused, hlOut, hlOk>>

(* A byte; the output buffer may be full after it. *)
HlRunTx ==
    /\ hlPump = "run" /\ hlTx.left > 0
    /\ hlTx' = [hlTx EXCEPT !.left = @ - 1]
    /\ hlPump' \in {"run", "wait"}
    /\ UNCHANGED <<hlSetup, hlEvents, hlTemp, hlFlush, hlCall, hlSends, hlEmpty, hlGaveUp, hlRefused, hlOut, hlOk>>

(* The end of the frame, or nothing to send; onSend follows the frame. *)
HlRunTxEnd ==
    /\ hlPump = "run" /\ hlTx.left = 0
    /\ hlTx' = HlNoFrame
    /\ hlOut' = IF hlTx = HlNoFrame THEN hlOut ELSE hlOut \cup {hlTx.frame}
    /\ hlPump' = IF hlTx = HlNoFrame THEN "wait" ELSE "onsend"
    /\ UNCHANGED <<hlSetup, hlEvents, hlTemp, hlFlush, hlCall, hlSends, hlEmpty, hlGaveUp, hlRefused, hlOk>>

(* onSend clears TX_MESSAGE_SENDING, then sets TX_QUEUE_FREE. *)
HlOnSend ==
    /\ hlPump = "onsend"
    /\ hlEvents' = hlEvents \ {"SENDING"}
    /\ hlPump' = "free"
    /\ UNCHANGED <<hlSetup, hlTemp, hlFlush, hlTx, hlCall, hlSends, hlEmpty, hlGaveUp, hlRefused, hlOut, hlOk>>

HlOnSendFree ==
    /\ hlPump = "free"
    /\ hlEvents' = hlEvents \cup {"FREE"}
    /\ hlPump' \in {"run", "wait"}
    /\ UNCHANGED <<hlSetup, hlTemp, hlFlush, hlTx, hlCall, hlSends, hlEmpty, hlGaveUp, hlRefused, hlOut, hlOk>>

HlPumpStep == HlGetData \/ HlTestFlush \/ HlRunTx \/ HlRunTxEnd \/ HlOnSend \/ HlOnSendFree

HlSenderStep(s) ==
    \/ HlPutWait(s) \/ HlPutTimeout(s) \/ HlPut(s) \/ HlPutQueued(s)
    \/ HlAgain(s) \/ HlTurned(s) \/ HlGiveUp(s)

HlNext == HlPumpStep \/ \E s \in HlSenders : HlSend(s) \/ HlSenderStep(s)

(* The transmitting thread runs, and so does a thread inside send(), whose *)
(* time is limited.                                                        *)
HlFairness ==
    /\ WF_hlVars(HlPumpStep)
    /\ \A s \in UNION {c.senders : c \in HlScenarios} :
           WF_hlVars(s \in HlSenders /\ HlSenderStep(s))

HlSpec == HlInit /\ [][HlNext]_hlVars /\ HlFairness

(***************************************************************************)
(* Properties.                                                             *)
(***************************************************************************)

(* The answers of put() and send() are true: put() takes TX_QUEUE_FREE     *)
(* only when the framing layer can take a frame, and send() answers true   *)
(* only for a frame that left completely, for any number of senders, as    *)
(* long as none of them has run out of time.  Without threads this holds   *)
(* after a flush too, but for the second part each send must have a buffer *)
(* of its own: a flushed buffer stays in m_tempBuffer and would be taken   *)
(* for a sent one when the same buffer is sent again.                      *)
HlTrueMeansSent ==
    /\ ~hlSetup.multithread \/ ~hlGaveUp => ~hlRefused
    /\ (~hlSetup.multithread /\ hlSetup.fresh) \/ ~hlGaveUp => hlOk \subseteq hlOut

(* The queue is always given back: after a frame, a flush, a flush that    *)
(* comes too late, and an empty packet that is given up, TX_QUEUE_FREE is  *)
(* set again.                                                              *)
HlQueueFreed ==
    (hlSetup.multithread /\ "FREE" \notin hlEvents) ~> (hlSetup.multithread => "FREE" \in hlEvents)
=============================================================================
