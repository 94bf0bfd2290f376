------------------------------ MODULE HdlcHigh ------------------------------
(***************************************************************************)
(* The blocking interface over the framing: proto/hdlc/high_level/hdlc.c.  *)
(* Threads call hdlc_send; in multithread mode another thread pumps bytes  *)
(* with hdlc_run_tx, otherwise the sender pumps them itself.  They meet in *)
(* three event bits.  The framing below is one frame slot (tx.origin_data) *)
(* and the bytes still to go; HdlcLL models it byte by byte.               *)
(***************************************************************************)
EXTENDS Naturals, FiniteSets

CONSTANTS
    HhScenarios,    \* records: the mode and the threads that call hdlc_send
    HhBytes,        \* bytes of an encoded frame
    HhMaxSends,     \* bound on the calls of one thread
    HhMaxErrors     \* bound on the failures of the send_tx callback

ASSUME HhAssumption ==
    /\ HhBytes \in Nat \ {0} /\ HhMaxSends \in Nat /\ HhMaxErrors \in Nat
    /\ \A c \in HhScenarios : c.multithread \in BOOLEAN /\ IsFiniteSet(c.senders)

HhTimeouts == {"zero", "finite", "forever"}
HhNone == [frame |-> <<>>, left |-> 0]

VARIABLES
    hhSetup,    \* the scenario: multithread_mode and the senders
    hhEvents,   \* handle->events
    hhTx,       \* the frame under transmission, and the bytes left of it
    hhPump,     \* where the thread in hdlc_run_tx is: in the loop or in on_frame_send
    hhCall,     \* each sender's position, timeout and frame
    hhSends,    \* hdlc_send calls made by each sender
    hhErrors,   \* failures of send_tx so far
    hhSent,     \* frames reported by on_frame_send
    hhOk        \* frames whose hdlc_send waited and returned TINY_SUCCESS

hhVars == <<hhSetup, hhEvents, hhTx, hhPump, hhCall, hhSends, hhErrors, hhSent, hhOk>>

HhSenders == hhSetup.senders
HhIdle == [pc |-> "idle", timeout |-> "zero", frame |-> <<>>]

(* hdlc_init: hdlc_reset leaves only TX_ACCEPT_BIT. *)
HhInit ==
    /\ hhSetup \in HhScenarios
    /\ hhEvents = {"ACCEPT"}
    /\ hhTx = HhNone
    /\ hhPump = "loop"
    /\ hhCall = [s \in HhSenders |-> HhIdle]
    /\ hhSends = [s \in HhSenders |-> 0]
    /\ hhErrors = 0
    /\ hhSent = {}
    /\ hhOk = {}

HhAllIdle == hhPump = "loop" /\ \A s \in HhSenders : hhCall[s].pc = "idle"

(* hdlc_reset, between calls. *)
HhReset ==
    /\ HhAllIdle
    /\ hhTx # HhNone \/ "SENT" \in hhEvents
    /\ hhTx' = HhNone
    /\ hhEvents' = {"ACCEPT"}
    /\ UNCHANGED <<hhSetup, hhPump, hhCall, hhSends, hhErrors, hhSent, hhOk>>

(***************************************************************************)
(* hdlc_send.                                                              *)
(***************************************************************************)

HhGoto(s, pc) == hhCall' = [hhCall EXCEPT ![s].pc = pc]
HhReturn(s) == HhGoto(s, "idle")
HhWaitPc == IF hhSetup.multithread THEN "sent" ELSE "drive"

(* With data the frame is put first; with NULL the caller only waits again *)
(* for the frame whose send timed out.                                     *)
HhSend(s, timeout, retry) ==
    /\ hhCall[s].pc = "idle" /\ hhSends[s] < HhMaxSends
    /\ retry => timeout # "zero" /\ hhCall[s].frame # <<>> /\ hhCall[s].frame = hhTx.frame
    /\ hhSends' = [hhSends EXCEPT ![s] = @ + 1]
    /\ hhCall' = [hhCall EXCEPT ![s] =
           [pc |-> IF retry THEN HhWaitPc ELSE "accept", timeout |-> timeout,
            frame |-> IF retry THEN @.frame ELSE <<s, hhSends[s]>>]]
    /\ UNCHANGED <<hhSetup, hhEvents, hhTx, hhPump, hhErrors, hhSent, hhOk>>

(* hdlc_put takes TX_ACCEPT_BIT, or gives up with TINY_ERR_BUSY. *)
HhAccept(s) ==
    /\ hhCall[s].pc = "accept" /\ "ACCEPT" \in hhEvents
    /\ hhEvents' = hhEvents \ {"ACCEPT"}
    /\ HhGoto(s, "put")
    /\ UNCHANGED <<hhSetup, hhTx, hhPump, hhSends, hhErrors, hhSent, hhOk>>

HhBusy(s) ==
    /\ hhCall[s].pc = "accept" /\ hhCall[s].timeout # "forever"
    /\ hhCall' = [hhCall EXCEPT ![s] = HhIdle]
    /\ UNCHANGED <<hhSetup, hhEvents, hhTx, hhPump, hhSends, hhErrors, hhSent, hhOk>>

(* hdlc_ll_put_frame, whose TINY_ERR_BUSY is ignored, and TX_DATA_READY_BIT. *)
HhPut(s) ==
    /\ hhCall[s].pc = "put"
    /\ hhTx' = IF hhTx = HhNone THEN [frame |-> hhCall[s].frame, left |-> HhBytes] ELSE hhTx
    /\ hhEvents' = hhEvents \cup {"READY"}
    /\ HhGoto(s, IF hhCall[s].timeout = "zero" THEN "idle" ELSE HhWaitPc)
    /\ UNCHANGED <<hhSetup, hhPump, hhSends, hhErrors, hhSent, hhOk>>

HhTakeSent == hhEvents \ {"SENT"}

(* The wait for TX_DATA_SENT_BIT succeeds, whoever's frame set it. *)
HhSentSeen(s) ==
    /\ hhCall[s].pc = "sent" /\ "SENT" \in hhEvents
    /\ hhEvents' = HhTakeSent
    /\ hhOk' = hhOk \cup {hhCall[s].frame}
    /\ HhReturn(s)
    /\ UNCHANGED <<hhSetup, hhTx, hhPump, hhSends, hhErrors, hhSent>>

(* TINY_ERR_TIMEOUT in multithread mode: the frame stays under transmission. *)
HhSentTimeout(s) ==
    /\ hhCall[s].pc = "sent" /\ hhCall[s].timeout = "finite"
    /\ HhReturn(s)
    /\ UNCHANGED <<hhSetup, hhEvents, hhTx, hhPump, hhSends, hhErrors, hhSent, hhOk>>

(***************************************************************************)
(* The pump of multithread mode, and of an application that queues with a  *)
(* zero timeout: hdlc_run_tx or hdlc_get_tx_data, from one thread.         *)
(***************************************************************************)

HhMayPump == hhSetup.multithread \/ HhAllIdle

HhRunTx ==
    /\ HhMayPump /\ hhPump = "loop" /\ hhTx.left > 0
    /\ hhTx' = [hhTx EXCEPT !.left = @ - 1]
    /\ UNCHANGED <<hhSetup, hhEvents, hhPump, hhCall, hhSends, hhErrors, hhSent, hhOk>>

(* send_tx fails: hdlc_run_tx returns, and the byte it had fetched is gone. *)
HhRunTxError ==
    /\ HhMayPump /\ hhPump = "loop" /\ hhTx.left > 0 /\ hhErrors < HhMaxErrors
    /\ hhErrors' = hhErrors + 1
    /\ hhTx' = [hhTx EXCEPT !.left = @ - 1]
    /\ UNCHANGED <<hhSetup, hhEvents, hhPump, hhCall, hhSends, hhSent, hhOk>>

(* The frame is out: the slot is freed, then on_frame_send runs. *)
HhFrameOut ==
    /\ HhMayPump /\ hhPump = "loop" /\ hhTx # HhNone /\ hhTx.left = 0
    /\ hhTx' = HhNone
    /\ hhSent' = hhSent \cup {hhTx.frame}
    /\ hhPump' = "sent"
    /\ UNCHANGED <<hhSetup, hhEvents, hhCall, hhSends, hhErrors, hhOk>>

(* Mutant: on_frame_send reports the frame and forgets to accept the next. *)
HhAcceptNever == hhEvents

HhAcceptNext == hhEvents \cup {"ACCEPT"}

(* on_frame_send sets TX_DATA_SENT_BIT, then TX_ACCEPT_BIT. *)
HhSetSent ==
    /\ hhPump = "sent"
    /\ hhEvents' = hhEvents \cup {"SENT"}
    /\ hhPump' = "accept"
    /\ UNCHANGED <<hhSetup, hhTx, hhCall, hhSends, hhErrors, hhSent, hhOk>>

HhSetAccept ==
    /\ hhPump = "accept"
    /\ hhEvents' = HhAcceptNext
    /\ hhPump' = "loop"
    /\ UNCHANGED <<hhSetup, hhTx, hhCall, hhSends, hhErrors, hhSent, hhOk>>

(***************************************************************************)
(* hdlc_run_tx_until_sent: without a pump the sender moves the bytes.      *)
(***************************************************************************)

(* One round of the loop: a byte, or the end of the frame with             *)
(* on_frame_send; then TX_DATA_SENT_BIT is tested.                         *)
HhDrive(s) ==
    /\ hhCall[s].pc = "drive"
    /\ LET ends == hhTx # HhNone /\ hhTx.left = 0
           events == IF ends THEN hhEvents \cup {"SENT", "ACCEPT"} ELSE hhEvents
           left == IF hhTx.left > 0 THEN hhTx.left - 1 ELSE 0
       IN /\ hhTx' = IF ends THEN HhNone ELSE [hhTx EXCEPT !.left = left]
          /\ hhSent' = IF ends THEN hhSent \cup {hhTx.frame} ELSE hhSent
          /\ hhEvents' = events \ {"SENT"}
          /\ hhOk' = IF "SENT" \in events THEN hhOk \cup {hhCall[s].frame} ELSE hhOk
          /\ HhGoto(s, IF "SENT" \in events THEN "idle" ELSE "drive")
    /\ UNCHANGED <<hhSetup, hhPump, hhSends, hhErrors>>

(* Mutant: hdlc_send_terminate forgets hdlc_ll_reset. *)
HhTerminateKeeps == hhTx

(* hdlc_send_terminate: the rest of the frame is given up. *)
HhTerminate == HhNone

(* The time is over, or send_tx fails.  The byte it fails to write may be  *)
(* the last of a frame that on_frame_send has just reported.               *)
HhDriveFails(s) ==
    LET ends == hhTx # HhNone /\ hhTx.left = 0
    IN /\ hhCall[s].pc = "drive"
       /\ \/ /\ hhCall[s].timeout = "finite"
             /\ hhEvents' = (hhEvents \ {"READY"}) \cup {"ACCEPT"}
             /\ UNCHANGED <<hhErrors, hhSent>>
          \/ /\ hhErrors < HhMaxErrors
             /\ hhErrors' = hhErrors + 1
             /\ hhSent' = IF ends THEN hhSent \cup {hhTx.frame} ELSE hhSent
             /\ hhEvents' = (hhEvents \ {"READY"}) \cup (IF ends THEN {"SENT", "ACCEPT"} ELSE {"ACCEPT"})
       /\ hhTx' = HhTerminate
       /\ hhCall' = [hhCall EXCEPT ![s] = HhIdle]
       /\ UNCHANGED <<hhSetup, hhPump, hhSends, hhOk>>

HhPumpStep == HhRunTx \/ HhFrameOut \/ HhSetSent \/ HhSetAccept

HhSenderStep(s) ==
    \/ HhAccept(s) \/ HhPut(s) \/ HhSentSeen(s) \/ HhDrive(s)
    \/ HhBusy(s) \/ HhSentTimeout(s)

HhNext ==
    \/ HhReset \/ HhPumpStep \/ HhRunTxError
    \/ \E s \in HhSenders :
        \/ \E timeout \in HhTimeouts, retry \in BOOLEAN : HhSend(s, timeout, retry)
        \/ HhSenderStep(s) \/ HhDriveFails(s)

(* The pump keeps running, threads are scheduled and finite timeouts expire. *)
HhFairness ==
    /\ WF_hhVars(HhPumpStep)
    /\ \A s \in UNION {c.senders : c \in HhScenarios} :
           WF_hhVars(s \in HhSenders /\ HhSenderStep(s))

HhSpec == HhInit /\ [][HhNext]_hhVars /\ HhFairness

(***************************************************************************)
(* Properties.                                                             *)
(***************************************************************************)

(* hdlc_put ignores what hdlc_ll_put_frame answers.  That is safe only     *)
(* because whoever holds TX_ACCEPT_BIT finds the frame slot empty, after   *)
(* timeouts, failed sends and resets too.                                  *)
HhAcceptMeansIdle ==
    "ACCEPT" \in hhEvents \/ (\E s \in HhSenders : hhCall[s].pc = "put") => hhTx = HhNone

(* "TINY_SUCCESS if data is successfully sent" (hdlc.h): the caller's own  *)
(* frame, not another one.                                                 *)
HhSuccessMeansSent == hhOk \subseteq hhSent

(* A thread that is alone in hdlc_send, with a pump, gets its answer even  *)
(* when it waits for ever: its frame's TX_DATA_SENT_BIT is not lost        *)
(* between the pump and the wait, nor TX_ACCEPT_BIT after earlier timeouts.*)
HhLone(s) == hhSetup = [multithread |-> TRUE, senders |-> {s}]
HhLoneSendEnds == \A s \in UNION {c.senders : c \in HhScenarios} :
    (HhLone(s) /\ hhCall[s].pc # "idle") ~> (HhLone(s) => hhCall[s].pc = "idle")
=============================================================================
