-------------------------------- MODULE FdTx --------------------------------
(***************************************************************************)
(* The transmit half of one tiny_fd station in ABM (one peer): the I-frame  *)
(* window, the I-frame slots, the events the threads wait on, and the       *)
(* handlers that touch them.  Three kinds of threads run concurrently:      *)
(*   App - tiny_fd_send_packet_to, tiny_fd_send_ui_packet_to,               *)
(*         tiny_fd_disconnect, from any application thread;                 *)
(*   Tx  - tiny_fd_get_tx_data (timers and choice of the frame to send);    *)
(*   Rx  - on_frame_read and the handlers it calls.                         *)
(* An action is the code between two points where frames.mutex is released  *)
(* or an event is waited for.  The Rx handlers release the mutex around     *)
(* on_send_cb, on_read_cb and on_connect_event_cb, and there they are split. *)
(*                                                                          *)
(* The remote station is unconstrained: any frame of RemoteKinds, with any  *)
(* N(R), may arrive at any moment.  Time is abstracted: a timeout may expire *)
(* whenever the code tests it.  The receive half (N(R), REJ, RR) only shows *)
(* up as the choice whether an S-frame is queued, and the service queue as  *)
(* the number of its occupied slots; module FdServiceQueue has its content. *)
(***************************************************************************)
EXTENDS FdSeq, FdQueue, Sequences

CONSTANTS
  Threads,       \* application threads
  Packets,       \* payloads the application sends
  Window,        \* init->window_frames: number of I-frame slots
  SuSize,        \* TINY_FD_U_QUEUE_MAX_SIZE: number of service slots
  Retries,       \* init->retries
  OnSendCb,      \* an on_send_cb is installed
  TwoThreads,    \* tiny_fd_run_rx and tiny_fd_run_tx run in two threads
  RemoteKinds,   \* the kinds of frames the remote station may send
  RemoteInSync,  \* the remote only acknowledges frames sent and not yet confirmed
  Addr           \* the address field of the peer

\* __tiny_fd_init_validate: window_frames < 2 and window_frames > seq_bits_mask
\* are refused.
ASSUME WindowAssumption == Window \in Nat /\ Window >= 2 /\ Window < SeqMod
ASSUME SizesAssumption == SuSize \in Nat /\ SuSize >= 1 /\ Retries \in Nat
ASSUME FlagsAssumption == {OnSendCb, TwoThreads, RemoteInSync} \subseteq BOOLEAN

VARIABLES
  state,         \* peers[0].state
  confirm_ns, next_ns, last_ns,   \* i_queue_control.tx_state
  srej_req_mask, \* frames the remote asked for with SREJ, as a set
  retries,       \* peers[0].retries
  frames,        \* frames.i_queue.frames
  lookup_index,  \* frames.i_queue.lookup_index
  su,            \* occupied slots of frames.s_queue
  can_accept,    \* FD_EVENT_CAN_ACCEPT_I_FRAMES of the peer
  has_free,      \* FD_EVENT_QUEUE_HAS_FREE_SLOTS
  tx_available,  \* FD_EVENT_TX_DATA_AVAILABLE
  app,           \* where each application thread is, and its packet
  tx,            \* where the Tx thread is
  rx             \* where the Rx thread is, the frame's kind and N(R), the slot

window  == <<confirm_ns, next_ns, last_ns, srej_req_mask, frames>>
events  == <<can_accept, has_free, tx_available>>
threads == <<app, tx, rx>>
vars == <<state, window, retries, lookup_index, su, events, threads>>

States == {"DISCONNECTED", "CONNECTING", "CONNECTED", "DISCONNECTING"}
SKinds == {"RR", "REJ", "RNR", "SREJ"}
IKinds == {"I", "I_OUT_OF_ORDER"}
UKinds == {"SABM", "DISC", "RSET", "FRMR", "UA", "DM"}
Slots  == 0 .. Window - 1
ISlot  == [type : {"I"}, address : {Addr}, arg : SeqNums, data : Packets]

SlotType == {FreeSlot} \cup ISlot
AppType  == [pc : {"idle", "wait_slot", "put"}, packet : Packets]
TxType   == {"top", "check_connected", "check_disconnected", "wait", "fetch", "sending_su"}
RxType   == [pc : {"idle", "confirm", "on_send_cb", "on_read_cb", "on_connect_cb"},
             kind : SKinds \cup IKinds \cup UKinds, nr : SeqNums, slot : Slots]

AppIdle == [pc |-> "idle", packet |-> CHOOSE p \in Packets : TRUE]
RxIdle  == [pc |-> "idle", kind |-> "RR", nr |-> 0, slot |-> 0]

ASSUME KindsAssumption == RemoteKinds \subseteq SKinds \cup IKinds \cup UKinds
ASSUME PacketsAssumption == Packets # {}

-----------------------------------------------------------------------------
(* i_queue_control *)

HasUnconfirmedFrames == confirm_ns # last_ns
AllFramesAreSent     == last_ns = next_ns
TxFull(c, l)         == SeqNext(l) = c

\* Mutant: any I-frame is taken for the one asked for.
FoundAnyIFrame(ns, i) ==
  \E n \in SeqNums : GetNextIs(frames, Window, lookup_index, {"I"}, Addr, n, i)

\* tiny_fd_queue_get_next( i_queue, I_FRAME, address, ns ) returns slot i.
FoundIFrame(ns, i) == GetNextIs(frames, Window, lookup_index, {"I"}, Addr, ns, i)
NoIFrame(ns)       == GetNextIsNull(frames, Window, {"I"}, Addr, ns)

\* __resend_all_unconfirmed_frames walks N(S) back from next_ns until it meets
\* nr; when it meets confirm_ns first, the remote is out of sync.
InSync(nr)       == Dist(nr, next_ns) <= Dist(confirm_ns, next_ns)
RewindTo(nr)     == IF InSync(nr) THEN nr ELSE confirm_ns

\* __put_u_s_frame_to_tx_queue: a full service queue drops the frame.
SuPut        == IF su < SuSize THEN su + 1 ELSE su
AvailableSu  == tx_available \/ su < SuSize
\* The frame is queued, or, when `wanted' does not hold, there is none.
PutSuIf(wanted) == /\ su' = IF wanted THEN SuPut ELSE su
                   /\ tx_available' = IF wanted THEN AvailableSu ELSE tx_available

-----------------------------------------------------------------------------
(* State switches.  Both leave service queue and lookup_index alone. *)

\* Mutant: last_ns keeps its value.
ResetAllButLast ==
  /\ confirm_ns' = 0 /\ next_ns' = 0 /\ last_ns' = last_ns
  /\ srej_req_mask' = {}

ResetTransmit ==
  /\ confirm_ns' = 0 /\ next_ns' = 0 /\ last_ns' = 0     \* __reset_i_queue_control
  /\ srej_req_mask' = {}

\* Mutant: the I-frames survive the state switch.
KeepIQueue  == frames' = frames
FlushIQueue == frames' = ResetFor(frames, Window, Addr)

\* Mutant: the slots freed on connection are not signalled.
ConnectUnsignalled ==
  IF state # "CONNECTED"
    THEN /\ state' = "CONNECTED"
         /\ ResetTransmit /\ FlushIQueue
         /\ can_accept' = TRUE /\ has_free' = has_free /\ tx_available' = TRUE
    ELSE UNCHANGED <<state, window, events>>

\* __switch_to_connected_state
SwitchToConnected ==
  IF state # "CONNECTED"
    THEN /\ state' = "CONNECTED"
         /\ ResetTransmit /\ FlushIQueue
         /\ can_accept' = TRUE
         /\ has_free' = (has_free \/ HasFreeSlots(ResetFor(frames, Window, Addr), Window))
         /\ tx_available' = TRUE
    ELSE UNCHANGED <<state, window, events>>

\* __switch_to_disconnected_state: can_accept is cleared, has_free is not set
\* although slots are freed.
SwitchToDisconnected ==
  IF state # "DISCONNECTED"
    THEN /\ state' = "DISCONNECTED"
         /\ ResetTransmit /\ FlushIQueue
         /\ can_accept' = FALSE
    ELSE UNCHANGED <<state, window, can_accept>>

-----------------------------------------------------------------------------
Init ==
  /\ state = "DISCONNECTED"
  /\ confirm_ns = 0 /\ next_ns = 0 /\ last_ns = 0
  /\ srej_req_mask = {}
  /\ retries = Retries
  /\ frames = QueueReset(Window) /\ lookup_index = 0
  /\ su = 0
  /\ can_accept = FALSE /\ has_free = TRUE /\ tx_available = FALSE
  /\ app = [t \in Threads |-> AppIdle]
  /\ tx = "top"
  /\ rx = RxIdle

\* frames.mutex is held by the Rx thread while it runs the confirmation loop;
\* every other critical section is a single action.
MutexFree == rx.pc # "confirm"

\* A single loop that calls run_rx and run_tx in turn never starts one inside
\* the other; a frame under transmission (su) spans several calls of run_tx.
TxTurn == TwoThreads \/ rx.pc = "idle"
RxTurn == TwoThreads \/ tx \in {"top", "sending_su"}

-----------------------------------------------------------------------------
(* Application threads: tiny_fd_send_packet_to *)

\* tiny_events_wait( CAN_ACCEPT_I_FRAMES, EVENT_BITS_CLEAR ) succeeds.
SendWaitAccept(t, p) ==
  /\ app[t].pc = "idle"
  /\ can_accept
  /\ can_accept' = FALSE
  /\ app' = [app EXCEPT ![t] = [pc |-> "wait_slot", packet |-> p]]
  /\ UNCHANGED <<state, window, retries, lookup_index, su, has_free, tx_available, tx, rx>>

\* tiny_events_wait( QUEUE_HAS_FREE_SLOTS, EVENT_BITS_CLEAR ) succeeds.
SendWaitSlot(t) ==
  /\ app[t].pc = "wait_slot"
  /\ has_free
  /\ has_free' = FALSE
  /\ app' = [app EXCEPT ![t].pc = "put"]
  /\ UNCHANGED <<state, window, retries, lookup_index, su, can_accept, tx_available, tx, rx>>

\* Mutant: the flag is not put back.
SendTimeoutKeepsFlag(t) ==
  /\ app[t].pc = "wait_slot"
  /\ ~has_free
  /\ app' = [app EXCEPT ![t] = AppIdle]
  /\ UNCHANGED <<state, window, retries, lookup_index, su, events, tx, rx>>

\* The second wait times out: the flag is put back.
SendTimeout(t) ==
  /\ app[t].pc = "wait_slot"
  /\ ~has_free
  /\ can_accept' = TRUE
  /\ app' = [app EXCEPT ![t] = AppIdle]
  /\ UNCHANGED <<state, window, retries, lookup_index, su, has_free, tx_available, tx, rx>>

\* The critical section, __put_i_frame_to_tx_queue having found slot i.
SendPut(t, i) ==
  /\ app[t].pc = "put"
  /\ MutexFree
  /\ GetNextIs(frames, Window, lookup_index, {"FREE"}, Addr, 0, i)
  /\ frames' = [frames EXCEPT ![i] = [type |-> "I", address |-> Addr,
                                      arg |-> last_ns, data |-> app[t].packet]]
  /\ last_ns' = SeqNext(last_ns)
  /\ tx_available' = TRUE
  /\ has_free' = (has_free \/ HasFreeSlots(frames', Window))
  /\ can_accept' = (can_accept \/ ~TxFull(confirm_ns, last_ns'))
  /\ app' = [app EXCEPT ![t] = AppIdle]
  /\ UNCHANGED <<state, confirm_ns, next_ns, srej_req_mask, retries, lookup_index, su, tx, rx>>

\* The critical section when there is no free slot: "Wrong flag
\* FD_EVENT_QUEUE_HAS_FREE_SLOTS", the call fails with TINY_ERR_TIMEOUT.
SendWrongFlag(t) ==
  /\ app[t].pc = "put"
  /\ MutexFree
  /\ ~HasFreeSlots(frames, Window)
  /\ can_accept' = (can_accept \/ ~TxFull(confirm_ns, last_ns))
  /\ app' = [app EXCEPT ![t] = AppIdle]
  /\ UNCHANGED <<state, window, retries, lookup_index, su, has_free, tx_available, tx, rx>>

\* tiny_fd_send_ui_packet_to: a UI frame into the service queue, or TINY_ERR_FAILED.
SendUi ==
  /\ MutexFree
  /\ su < SuSize
  /\ PutSuIf(TRUE)
  /\ UNCHANGED <<state, window, retries, lookup_index, can_accept, has_free, threads>>

\* tiny_fd_disconnect: the state changes only when DISC could be queued.
Disconnect ==
  /\ MutexFree
  /\ su < SuSize
  /\ PutSuIf(TRUE)
  /\ state' = "DISCONNECTING"
  /\ UNCHANGED <<window, retries, lookup_index, can_accept, has_free, threads>>

-----------------------------------------------------------------------------
(* The Tx thread: tiny_fd_get_tx_data *)

TxAt(pc) == tx = pc /\ TxTurn

\* The state is read without the mutex and selects the timer to check.
TxReadState ==
  /\ TxAt("top")
  /\ tx' = IF state \in {"CONNECTED", "DISCONNECTING"}
             THEN "check_connected" ELSE "check_disconnected"
  /\ UNCHANGED <<state, window, retries, lookup_index, su, events, app, rx>>

\* tiny_fd_connected_check_idle_timeout, retry timer expired: go back to the
\* first unconfirmed frame.
TxRetry ==
  /\ TxAt("check_connected") /\ MutexFree
  /\ HasUnconfirmedFrames /\ AllFramesAreSent
  /\ retries > 0
  /\ retries' = retries - 1
  /\ next_ns' = RewindTo(confirm_ns)
  /\ tx_available' = TRUE
  /\ tx' = "wait"
  /\ UNCHANGED <<state, confirm_ns, last_ns, srej_req_mask, frames, lookup_index,
                 su, can_accept, has_free, app, rx>>

\* The retry timer expired with no retries left: disconnect.
TxGiveUp ==
  /\ TxAt("check_connected") /\ MutexFree
  /\ HasUnconfirmedFrames /\ AllFramesAreSent
  /\ retries = 0
  /\ SwitchToDisconnected
  /\ tx' = "wait"
  /\ UNCHANGED <<retries, lookup_index, su, has_free, tx_available, app, rx>>

\* No answer to a keep-alive for two periods: disconnect, whatever the window
\* holds.
TxNoKeepAlive ==
  /\ TxAt("check_connected") /\ MutexFree
  /\ SwitchToDisconnected
  /\ tx' = "wait"
  /\ UNCHANGED <<retries, lookup_index, su, has_free, tx_available, app, rx>>

\* A keep-alive RR is queued, or no timer has expired.
TxIdleCheck(keepAlive) ==
  /\ TxAt("check_connected") /\ MutexFree
  /\ PutSuIf(keepAlive)
  /\ tx' = "wait"
  /\ UNCHANGED <<state, window, retries, lookup_index, can_accept, has_free, app, rx>>

\* tiny_fd_disconnected_check_idle_timeout: SABM is sent again, and the state is
\* CONNECTING even when SABM found no room; or the timer has not expired.
TxConnectCheck(expired) ==
  /\ TxAt("check_disconnected") /\ MutexFree
  /\ PutSuIf(expired)
  /\ state' = IF expired THEN "CONNECTING" ELSE state
  /\ tx' = "wait"
  /\ UNCHANGED <<window, retries, lookup_index, can_accept, has_free, app, rx>>

\* wait_point_passed: a call that has sent a frame already leaves the loop after
\* the timers, without consuming the event.
TxWaitPointPassed ==
  /\ TxAt("wait")
  /\ tx' = "top"
  /\ UNCHANGED <<state, window, retries, lookup_index, su, events, app, rx>>

\* tiny_events_wait( TX_DATA_AVAILABLE, EVENT_BITS_CLEAR )
TxWaitData ==
  /\ TxAt("wait")
  /\ tx_available' = FALSE
  /\ tx' = IF tx_available THEN "fetch" ELSE "top"
  /\ UNCHANGED <<state, window, retries, lookup_index, su, can_accept, has_free, app, rx>>

\* tiny_fd_get_next_frame_to_send: the service queue comes first.
TxFetchSu ==
  /\ TxAt("fetch") /\ MutexFree
  /\ su > 0
  /\ tx_available' = TRUE
  /\ tx' = "sending_su"
  /\ UNCHANGED <<state, window, retries, lookup_index, su, can_accept, has_free, app, rx>>

\* on_frame_send of an S- or U-frame frees its slot.
TxSentSu ==
  /\ TxAt("sending_su") /\ MutexFree
  /\ su' = su - 1
  /\ tx' = "top"
  /\ UNCHANGED <<state, window, retries, lookup_index, events, app, rx>>

MaySendIFrames == state \in {"CONNECTED", "DISCONNECTING"}

\* tiny_fd_get_next_i_frame, the lowest frame asked for with SREJ: its bit is
\* cleared; without a slot nothing is sent this time.
TxFetchSrej ==
  /\ TxAt("fetch") /\ MutexFree
  /\ su = 0 /\ MaySendIFrames
  /\ \E ns \in srej_req_mask :
       /\ \A m \in srej_req_mask : ns <= m
       /\ srej_req_mask' = srej_req_mask \ {ns}
       /\ tx_available' = (tx_available \/ ~NoIFrame(ns))
  /\ tx' = "top"
  /\ UNCHANGED <<state, confirm_ns, next_ns, last_ns, retries, frames, lookup_index,
                 su, can_accept, has_free, app, rx>>

\* Mutant: without "Force to check for new frame once again".
TxFetchIOnce ==
  /\ TxAt("fetch") /\ MutexFree
  /\ su = 0 /\ MaySendIFrames /\ srej_req_mask = {}
  /\ ~NoIFrame(next_ns)
  /\ next_ns' = SeqNext(next_ns)
  /\ tx' = "top"
  /\ UNCHANGED <<state, confirm_ns, last_ns, srej_req_mask, retries, frames, lookup_index,
                 su, events, app, rx>>

\* tiny_fd_get_next_i_frame, the frame number next_ns.
TxFetchI ==
  /\ TxAt("fetch") /\ MutexFree
  /\ su = 0 /\ MaySendIFrames /\ srej_req_mask = {}
  /\ ~NoIFrame(next_ns)
  /\ next_ns' = SeqNext(next_ns)
  /\ tx_available' = TRUE
  /\ tx' = "top"
  /\ UNCHANGED <<state, confirm_ns, last_ns, srej_req_mask, retries, frames, lookup_index,
                 su, can_accept, has_free, app, rx>>

\* Nothing to send.
TxFetchNothing ==
  /\ TxAt("fetch") /\ MutexFree
  /\ su = 0
  /\ MaySendIFrames => srej_req_mask = {} /\ NoIFrame(next_ns)
  /\ tx' = "top"
  /\ UNCHANGED <<state, window, retries, lookup_index, su, events, app, rx>>

-----------------------------------------------------------------------------
(* The Rx thread: on_frame_read *)

RxStart(kind) == rx.pc = "idle" /\ RxTurn /\ kind \in RemoteKinds

\* An I- or S-frame while not connected is answered with DM.
RxNotConnected(kind) ==
  /\ RxStart(kind) /\ kind \in SKinds \cup IKinds
  /\ state \notin {"CONNECTED", "DISCONNECTING"}
  /\ PutSuIf(TRUE)
  /\ UNCHANGED <<state, window, retries, lookup_index, can_accept, has_free, threads>>

\* __on_i_frame_read, __on_s_frame_read up to the confirmation loop.  An
\* out-of-order I-frame queues REJ unless one was sent already.
RxNumbered(kind, nr, rej) ==
  /\ RxStart(kind) /\ kind \in SKinds \cup IKinds
  /\ state \in {"CONNECTED", "DISCONNECTING"}
  /\ RemoteInSync => Dist(confirm_ns, nr) <= Dist(confirm_ns, next_ns)
  /\ rej => kind = "I_OUT_OF_ORDER"
  /\ PutSuIf(rej)
  /\ rx' = [pc |-> "confirm", kind |-> kind, nr |-> nr, slot |-> 0]
  /\ UNCHANGED <<state, window, retries, lookup_index, can_accept, has_free, app, tx>>

LoopDone == rx.nr = confirm_ns \/ ~HasUnconfirmedFrames

\* tiny_fd_queue_free of slot i, then confirm_ns moves on.
ConfirmSlot(i) ==
  /\ frames' = Free(frames, i)
  /\ lookup_index' = LookupAfter(Window, i)
  /\ has_free' = (has_free \/ HasFreeSlots(Free(frames, i), Window))
  /\ retries' = Retries
  /\ confirm_ns' = SeqNext(confirm_ns)

\* One round of the loop without on_send_cb: the mutex stays locked.
RxConfirm(i) ==
  /\ rx.pc = "confirm" /\ ~LoopDone
  /\ FoundIFrame(confirm_ns, i)
  /\ ~OnSendCb
  /\ ConfirmSlot(i)
  /\ UNCHANGED <<state, next_ns, last_ns, srej_req_mask, su, can_accept, tx_available, threads>>

\* The mutex is released and on_send_cb is called with the payload of slot i.
RxCallback(i) ==
  /\ rx.pc = "confirm" /\ ~LoopDone
  /\ FoundIFrame(confirm_ns, i)
  /\ OnSendCb
  /\ rx' = [rx EXCEPT !.pc = "on_send_cb", !.slot = i]
  /\ UNCHANGED <<state, window, retries, lookup_index, su, events, app, tx>>

\* on_send_cb returns and the mutex is taken again: the slot it was called for
\* is freed, whatever has happened to it meanwhile.
RxCallbackReturns ==
  /\ rx.pc = "on_send_cb"
  /\ ConfirmSlot(rx.slot)
  /\ rx' = [rx EXCEPT !.pc = "confirm", !.slot = 0]
  /\ UNCHANGED <<state, next_ns, last_ns, srej_req_mask, su, can_accept, tx_available, app, tx>>

\* "This should never happen !!!": no slot holds the frame to confirm.
RxCannotConfirm ==
  /\ rx.pc = "confirm" /\ ~LoopDone
  /\ NoIFrame(confirm_ns)
  /\ confirm_ns' = SeqNext(confirm_ns)
  /\ retries' = Retries
  /\ UNCHANGED <<state, next_ns, last_ns, srej_req_mask, frames, lookup_index, su,
                 events, threads>>

\* End of the loop, and the rest of the handler up to on_read_cb or its return.
CanAcceptAfterLoop == can_accept' = (can_accept \/ ~TxFull(confirm_ns, last_ns))

\* RR and RNR; an RR with the C/R bit is answered when nothing waits to be sent.
RxEndRr(answer) ==
  /\ rx.pc = "confirm" /\ LoopDone
  /\ rx.kind \in {"RR", "RNR"}
  /\ answer => rx.kind = "RR" /\ AllFramesAreSent
  /\ CanAcceptAfterLoop
  /\ PutSuIf(answer)
  /\ rx' = RxIdle
  /\ UNCHANGED <<state, window, retries, lookup_index, has_free, app, tx>>

\* REJ: __resend_all_unconfirmed_frames, with FRMR when out of sync.
RxEndRej ==
  /\ rx.pc = "confirm" /\ LoopDone
  /\ rx.kind = "REJ"
  /\ CanAcceptAfterLoop
  /\ next_ns' = RewindTo(rx.nr)
  /\ su' = IF InSync(rx.nr) THEN su ELSE SuPut
  /\ tx_available' = TRUE
  /\ rx' = RxIdle
  /\ UNCHANGED <<state, confirm_ns, last_ns, srej_req_mask, frames, retries, lookup_index,
                 has_free, app, tx>>

RxEndSrej ==
  /\ rx.pc = "confirm" /\ LoopDone
  /\ rx.kind = "SREJ"
  /\ CanAcceptAfterLoop
  /\ srej_req_mask' = srej_req_mask \cup {rx.nr}
  /\ tx_available' = TRUE
  /\ rx' = RxIdle
  /\ UNCHANGED <<state, confirm_ns, next_ns, last_ns, frames, retries, lookup_index, su,
                 has_free, app, tx>>

\* An expected I-frame goes to on_read_cb, without the mutex.
RxEndI ==
  /\ rx.pc = "confirm" /\ LoopDone
  /\ rx.kind \in IKinds
  /\ CanAcceptAfterLoop
  /\ rx' = IF rx.kind = "I" THEN [rx EXCEPT !.pc = "on_read_cb"] ELSE RxIdle
  /\ UNCHANGED <<state, window, retries, lookup_index, su, has_free, tx_available, app, tx>>

\* on_read_cb returns; RR unless an I-frame will carry the acknowledgement.
RxReadReturns(rr) ==
  /\ rx.pc = "on_read_cb"
  /\ rr => AllFramesAreSent
  /\ PutSuIf(rr)
  /\ rx' = RxIdle
  /\ UNCHANGED <<state, window, retries, lookup_index, can_accept, has_free, app, tx>>

-----------------------------------------------------------------------------
(* __on_u_frame_read *)

\* DISCONNECTED: anything but SABM is answered with DM when it is a command.
RxUDisconnected(kind, command) ==
  /\ RxStart(kind) /\ kind \in UKinds \ {"SABM"}
  /\ state = "DISCONNECTED"
  /\ PutSuIf(command)
  /\ UNCHANGED <<state, window, retries, lookup_index, can_accept, has_free, threads>>

\* SABM on a link that is up: UA is queued, the link goes down, and
\* on_connect_event_cb runs without the mutex.
RxSabmUp ==
  /\ RxStart("SABM")
  /\ state \in {"CONNECTED", "DISCONNECTING"}
  /\ PutSuIf(TRUE)
  /\ SwitchToDisconnected
  /\ rx' = [rx EXCEPT !.pc = "on_connect_cb", !.kind = "SABM"]
  /\ UNCHANGED <<retries, lookup_index, has_free, app, tx>>

\* SABM otherwise, and the second half of RxSabmUp.
RxSabm ==
  /\ \/ RxStart("SABM") /\ state \in {"DISCONNECTED", "CONNECTING"} /\ su' = SuPut
     \/ rx.pc = "on_connect_cb" /\ rx.kind = "SABM" /\ su' = su
  /\ SwitchToConnected
  /\ rx' = RxIdle
  /\ UNCHANGED <<retries, lookup_index, app, tx>>

\* DISC on a link that is not down: UA, then disconnected.  DM: disconnected.
RxDown(kind) ==
  /\ RxStart(kind) /\ kind \in {"DISC", "DM"}
  /\ state # "DISCONNECTED"
  /\ PutSuIf(kind = "DISC")
  /\ SwitchToDisconnected
  /\ UNCHANGED <<retries, lookup_index, has_free, threads>>

\* UA completes a connection or a disconnection, and is ignored otherwise.
RxUa ==
  /\ RxStart("UA")
  /\ \/ state = "CONNECTING" /\ SwitchToConnected
     \/ state = "DISCONNECTING" /\ SwitchToDisconnected /\ UNCHANGED <<has_free, tx_available>>
  /\ UNCHANGED <<retries, lookup_index, su, threads>>

\* FRMR: the link goes down (on_connect_event_cb without the mutex) ...
RxFrmr ==
  /\ RxStart("FRMR")
  /\ state # "DISCONNECTED"
  /\ SwitchToDisconnected
  /\ rx' = [rx EXCEPT !.pc = "on_connect_cb", !.kind = "FRMR"]
  /\ UNCHANGED <<retries, lookup_index, su, has_free, tx_available, app, tx>>

\* ... and a connection is asked for.
RxFrmrReconnect ==
  /\ rx.pc = "on_connect_cb" /\ rx.kind = "FRMR"
  /\ PutSuIf(TRUE)
  /\ state' = "CONNECTING"
  /\ rx' = RxIdle
  /\ UNCHANGED <<window, retries, lookup_index, can_accept, has_free, app, tx>>

\* RSET: the sequence numbers restart; the I-frame slots are left alone.
RxRset ==
  /\ RxStart("RSET")
  /\ state # "DISCONNECTED"
  /\ ResetTransmit
  /\ PutSuIf(TRUE)
  /\ UNCHANGED <<state, frames, retries, lookup_index, can_accept, has_free, threads>>

-----------------------------------------------------------------------------
AppNext ==
  \/ \E t \in Threads :
       \/ \E p \in Packets : SendWaitAccept(t, p)
       \/ SendWaitSlot(t)
       \/ SendTimeout(t)
       \/ \E i \in Slots : SendPut(t, i)
       \/ SendWrongFlag(t)
  \/ SendUi
  \/ Disconnect

TxNext ==
  \/ TxReadState
  \/ TxRetry
  \/ TxGiveUp
  \/ TxNoKeepAlive
  \/ \E keepAlive \in BOOLEAN : TxIdleCheck(keepAlive)
  \/ \E expired \in BOOLEAN : TxConnectCheck(expired)
  \/ TxWaitPointPassed
  \/ TxWaitData
  \/ TxFetchSu
  \/ TxSentSu
  \/ TxFetchSrej
  \/ TxFetchI
  \/ TxFetchNothing

RxNext ==
  \/ \E kind \in RemoteKinds : RxNotConnected(kind) \/ RxDown(kind)
  \/ \E kind \in RemoteKinds, nr \in SeqNums, rej \in BOOLEAN : RxNumbered(kind, nr, rej)
  \/ \E kind \in RemoteKinds, command \in BOOLEAN : RxUDisconnected(kind, command)
  \/ \E i \in Slots : RxConfirm(i) \/ RxCallback(i)
  \/ RxCallbackReturns
  \/ RxCannotConfirm
  \/ \E answer \in BOOLEAN : RxEndRr(answer)
  \/ RxEndRej
  \/ RxEndSrej
  \/ RxEndI
  \/ \E rr \in BOOLEAN : RxReadReturns(rr)
  \/ RxSabmUp
  \/ RxSabm
  \/ RxUa
  \/ RxFrmr
  \/ RxFrmrReconnect
  \/ RxRset

Next == AppNext \/ TxNext \/ RxNext

Spec == Init /\ [][Next]_vars

-----------------------------------------------------------------------------
(* Properties *)

EventsType == can_accept \in BOOLEAN /\ has_free \in BOOLEAN /\ tx_available \in BOOLEAN

\* Type correctness of every field and of the threads' positions.
TypeOK ==
  /\ state \in States
  /\ confirm_ns \in SeqNums /\ next_ns \in SeqNums /\ last_ns \in SeqNums
  /\ srej_req_mask \in SUBSET SeqNums
  /\ retries \in 0 .. Retries
  /\ frames \in [Slots -> SlotType]
  /\ lookup_index \in Slots
  /\ su \in 0 .. SuSize
  /\ EventsType
  /\ app \in [Threads -> AppType]
  /\ tx \in TxType
  /\ rx \in RxType
  /\ tx = "sending_su" => su > 0

IsIFrame(i) == frames[i].type = "I"

\* Every number in [confirm_ns, last_ns) is carried by a slot, no two slots carry
\* the same number, and no slot carries a number outside: the window's numbers
\* and the slots that __on_frame_confirmed and tiny_fd_get_next_i_frame look up
\* agree through every interleaving of senders, acknowledgements and timeouts.
WindowMatchesSlots ==
  /\ \A ns \in SeqNums : InWin(confirm_ns, last_ns, ns) =>
       \E i \in Slots : IsIFrame(i) /\ frames[i].arg = ns
  /\ \A i \in Slots : IsIFrame(i) => InWin(confirm_ns, last_ns, frames[i].arg)
  /\ \A i, j \in Slots : IsIFrame(i) /\ IsIFrame(j) /\ frames[i].arg = frames[j].arg => i = j

\* The packets of the window in the order of their numbers.
PacketAt(ns) ==
  IF \E i \in Slots : IsIFrame(i) /\ frames[i].arg = ns
    THEN frames[CHOOSE i \in Slots : IsIFrame(i) /\ frames[i].arg = ns].data
    ELSE "lost"
Offset(c, k) == IF c + k >= SeqMod THEN (c + k) - SeqMod ELSE c + k
Queue == [k \in 1 .. Dist(confirm_ns, last_ns) |-> PacketAt(Offset(confirm_ns, k - 1))]

\* The window implements the bounded FIFO of module TxFifo: packets are accepted
\* at its end and only ever confirmed from its head, whichever slots they are in,
\* or dropped all together by a state switch.
Fifo == INSTANCE TxFifo WITH queue <- Queue, Items <- Packets, Capacity <- Window
ImplementsFifo == Fifo!TxFifoSpec

\* While on_send_cb runs, the slot it was called for still holds the first
\* unconfirmed frame: the slot freed on its return is the frame reported.
CallbackOwnsSlot ==
  rx.pc = "on_send_cb" =>
    /\ HasUnconfirmedFrames
    /\ IsIFrame(rx.slot) /\ frames[rx.slot].arg = confirm_ns

\* tiny_fd_send_packet_to is not left waiting for FD_EVENT_QUEUE_HAS_FREE_SLOTS
\* while a slot is free and nobody is about to take it: no path that frees a
\* slot on a live link forgets to raise the event.
FreeSlotsSignalled ==
  (state = "CONNECTED" /\ HasFreeSlots(frames, Window) /\ \A t \in Threads : app[t].pc # "put")
    => has_free

\* Nor for FD_EVENT_CAN_ACCEPT_I_FRAMES while the window has room.
RoomSignalled ==
  (state = "CONNECTED" /\ ~TxFull(confirm_ns, last_ns)
     /\ rx.pc \notin {"confirm", "on_send_cb"}
     /\ \A t \in Threads : app[t].pc = "idle")
    => can_accept

\* No lost wake-up of the Tx thread: "FD_EVENT_TX_DATA_AVAILABLE ... is set when
\* there is data in the TX queue" (tiny_fd_defines_int.h), unless the Tx thread
\* has just consumed the event and is about to look.
DataSignalled ==
  (tx # "fetch" /\ (su > 0 \/ (MaySendIFrames /\ ~NoIFrame(next_ns)))) => tx_available

\* The branch marked "This should never happen !!!" in
\* __i_queue_control_confirm_sent_frames is never taken.
NeverCannotConfirm == [][~RxCannotConfirm]_vars
=============================================================================
