------------------------------- MODULE FdPeer -------------------------------
(***************************************************************************)
(* What tiny_fd does with a received frame, for one remote station.         *)
(*                                                                          *)
(* A station keeps one record of fields per remote (tiny_fd_peer_info_t);    *)
(* the handlers are operators from record to record, named after the        *)
(* functions they translate.  The window is the sequence of its packets.    *)
(* s_queue holds the S- and U-frames the handler queues: the whole service  *)
(* queue of a station with one remote, and what one step adds to the shared *)
(* queue of a primary with several (a handler queues one frame at most).     *)
(* "SABM" is the set-mode command: SABM in ABM and SNRM in NRM, which       *)
(* __on_u_frame_read treats alike.                                          *)
(***************************************************************************)
EXTENDS FdSeq, Sequences, FiniteSets

CONSTANTS
  SuSize,        \* TINY_FD_U_QUEUE_MAX_SIZE
  Retries        \* init->retries

ASSUME PeerAssumption == SuSize \in Nat \ {0} /\ Retries \in Nat

\* Frames.  Packets are numbered 1, 2, ... by their sender.
U(type)         == [type |-> type, ns |-> 0, nr |-> 0, data |-> 0]
S(type, nr)     == [type |-> type, ns |-> 0, nr |-> nr, data |-> 0]
I(ns, nr, data) == [type |-> "I", ns |-> ns, nr |-> nr, data |-> data]

InitPeer ==
  [state |-> "DISCONNECTED", confirm_ns |-> 0, next_ns |-> 0, last_ns |-> 0,
   window |-> <<>>, next_nr |-> 0, sent_nr |-> 0, sent_reject |-> FALSE,
   retries |-> Retries, ka_confirmed |-> FALSE, can_accept |-> FALSE, s_queue |-> <<>>]

-----------------------------------------------------------------------------
(* Helpers on a station's record p *)

\* __put_u_s_frame_to_tx_queue
PutUS(p, f) == IF Len(p.s_queue) < SuSize
                 THEN [p EXCEPT !.s_queue = Append(@, f)] ELSE p

\* Mutant: the unconfirmed packets stay queued.
ResetKeepsWindow(p, state) ==
  [p EXCEPT !.state = state, !.confirm_ns = 0, !.next_ns = 0, !.last_ns = 0,
            !.next_nr = 0, !.sent_nr = 0, !.sent_reject = FALSE,
            !.can_accept = (state = "CONNECTED")]

Reset(p, state) ==
  [p EXCEPT !.state = state, !.confirm_ns = 0, !.next_ns = 0, !.last_ns = 0,
            !.window = <<>>, !.next_nr = 0, !.sent_nr = 0, !.sent_reject = FALSE,
            !.can_accept = (state = "CONNECTED")]

SwitchToConnected(p)    == IF p.state = "CONNECTED" THEN p ELSE Reset(p, "CONNECTED")
SwitchToDisconnected(p) == IF p.state = "DISCONNECTED" THEN p ELSE Reset(p, "DISCONNECTED")

LinkUp(p)           == p.state \in {"CONNECTED", "DISCONNECTING"}
AllFramesAreSent(p) == p.last_ns = p.next_ns
HasUnconfirmed(p)   == p.confirm_ns # p.last_ns
TxFull(p)           == SeqNext(p.last_ns) = p.confirm_ns

\* Mutant: any N(R) confirms everything.
ConfirmsAll(p, nr) == Len(p.window)

\* How many frames N(R) = nr confirms: all of them when nr is outside the window.
Confirms(p, nr) == IF Dist(p.confirm_ns, nr) <= Len(p.window)
                     THEN Dist(p.confirm_ns, nr) ELSE Len(p.window)

\* __confirm_sent_frames
ConfirmSentFrames(p, nr) ==
  LET k == Confirms(p, nr)
      q == [p EXCEPT !.confirm_ns = IF p.confirm_ns + k >= SeqMod
                                      THEN (p.confirm_ns + k) - SeqMod ELSE p.confirm_ns + k,
                     !.window = SubSeq(@, k + 1, Len(@)),
                     !.retries = IF k > 0 THEN Retries ELSE @]
  IN  [q EXCEPT !.can_accept = @ \/ ~TxFull(q)]

\* __resend_all_unconfirmed_frames: N(S) is walked back from next_ns to nr; when
\* confirm_ns is met first, the remote is out of sync and FRMR is queued.
ResendFrom(p, nr) ==
  IF Dist(nr, p.next_ns) <= Dist(p.confirm_ns, p.next_ns)
    THEN [p EXCEPT !.next_ns = nr]
    ELSE PutUS([p EXCEPT !.next_ns = p.confirm_ns], U("FRMR"))

\* Mutant: next_nr stays behind.
CheckReceivedStays(p, ns) ==
  IF ns = p.next_nr \/ p.sent_reject THEN p
    ELSE PutUS([p EXCEPT !.sent_reject = TRUE], S("REJ", p.next_nr))

\* __check_received_frame
CheckReceived(p, ns) ==
  CASE ns = p.next_nr -> [p EXCEPT !.next_nr = SeqNext(@), !.sent_reject = FALSE]
    [] ns # p.next_nr /\ p.sent_reject -> p
    [] OTHER -> PutUS([p EXCEPT !.sent_reject = TRUE], S("REJ", p.next_nr))

\* __on_i_frame_read; RR is queued unless an I-frame will carry the N(R).
OnIFrame(p, f) ==
  LET q == ConfirmSentFrames(CheckReceived(p, f.ns), f.nr)
  IN  IF f.ns = p.next_nr /\ AllFramesAreSent(q) /\ q.sent_nr # q.next_nr
        THEN PutUS(q, S("RR", q.next_nr)) ELSE q

\* __on_s_frame_read.  RR is never answered here: this library sends RR without
\* the C/R bit.
OnSFrame(p, f) ==
  IF f.type = "REJ" THEN ResendFrom(ConfirmSentFrames(p, f.nr), f.nr)
                    ELSE ConfirmSentFrames(p, f.nr)

\* __on_u_frame_read
OnUFrame(p, f) ==
  IF p.state = "DISCONNECTED" /\ f.type \notin {"SABM", "UI"}
    THEN IF f.type \in {"DISC", "FRMR"} THEN PutUS(p, U("DM")) ELSE p
    ELSE CASE f.type = "SABM" ->
                SwitchToConnected(IF LinkUp(p) THEN SwitchToDisconnected(PutUS(p, U("UA")))
                                               ELSE PutUS(p, U("UA")))
           [] f.type = "DISC" -> SwitchToDisconnected(PutUS(p, U("UA")))
           [] f.type = "FRMR" ->
                [PutUS(SwitchToDisconnected(p), U("SABM")) EXCEPT !.state = "CONNECTING"]
           [] f.type = "UA" /\ p.state = "CONNECTING" -> SwitchToConnected(p)
           [] f.type = "UA" /\ p.state = "DISCONNECTING" -> SwitchToDisconnected(p)
           [] f.type = "DM" -> SwitchToDisconnected(p)
           [] OTHER -> p

UTypes == {"SABM", "UA", "DISC", "DM", "FRMR", "UI"}

\* on_frame_read
OnFrameRead(p, f) ==
  LET q == [p EXCEPT !.ka_confirmed = TRUE]
  IN  CASE f.type \in UTypes -> OnUFrame(q, f)
        [] f.type \notin UTypes /\ ~LinkUp(q) -> PutUS(q, U("DM"))
        [] f.type = "I" /\ LinkUp(q) -> OnIFrame(q, f)
        [] f.type \in {"RR", "REJ"} /\ LinkUp(q) -> OnSFrame(q, f)

\* The slot tiny_fd_get_next_i_frame looks for, as an offset into the window.
NextOffset(p) == Dist(p.confirm_ns, p.next_ns)
HasIFrame(p)  == LinkUp(p) /\ NextOffset(p) < Len(p.window)

-----------------------------------------------------------------------------
\* Packets in the order in which they were sent, each once.
Increasing(seq) == \A i, j \in DOMAIN seq : i < j => seq[i] < seq[j]
=============================================================================
