------------------------------- MODULE FdLink -------------------------------
(***************************************************************************)
(* Two tiny_fd stations in ABM and the serial line between them.            *)
(*                                                                          *)
(* Each station runs tiny_fd_run_rx and tiny_fd_run_tx in one loop, so its  *)
(* handlers do not interleave (module FdTx has the threads).  A station is  *)
(* a record of module FdPeer: its window is the sequence of its packets and *)
(* its service queue a sequence of frames, which ImplementsFifo of FdTx and *)
(* of FdServiceQueue justifies.                                             *)
(*                                                                          *)
(* The line keeps the order and may lose frames (a damaged frame fails its  *)
(* CRC in hdlc_ll and is dropped).  Time is abstracted: a timer may expire  *)
(* at any moment, or, with SlowConnect / SlowRetry, only once everything on *)
(* the way has been handled (the timeout exceeds the round trip).           *)
(***************************************************************************)
EXTENDS FdPeer

CONSTANTS
  Stations,      \* the two stations
  Window,        \* init->window_frames
  Scenarios,     \* bounds: how much may happen, one record per scenario
  LineSize,      \* bound: frames on the line in one direction
  SlowConnect,   \* the connection timer exceeds the round trip
  SlowRetry      \* the I-frame retry timer exceeds the round trip

ASSUME LinkAssumption ==
  /\ \E a, b \in Stations : a # b /\ Stations = {a, b}
  /\ Window \in Nat /\ Window >= 2 /\ Window < SeqMod
  /\ LineSize \in Nat \ {0}
  /\ Scenarios \subseteq
       [packets : [Stations -> Nat], \* packets each station's application sends
        losses : Nat,               \* frames the line loses
        keepalives : Nat,           \* keep-alive timers that expire
        disconnects : Nat]          \* calls of tiny_fd_disconnect
  /\ {SlowConnect, SlowRetry} \subseteq BOOLEAN

VARIABLES
  scenario,   \* the scenario of this behaviour
  peer,       \* the stations: handle->peers[0], frames.s_queue and the window
  line,       \* frames on their way to a station
  accepted,   \* how many packets tiny_fd_send_packet_to accepted
  delivered,  \* packets given to on_read_cb of a station, in order
  confirmed,  \* packets of a station reported to its on_send_cb
  cut,        \* stations where tiny_fd_disconnect was called while the link was down
  losses, keepalives, disconnects     \* how much of the bounds is used up

vars == <<scenario, peer, line, accepted, delivered, confirmed, cut, losses, keepalives,
          disconnects>>
bounds == <<scenario, losses, keepalives, disconnects>>

Other(s) == CHOOSE r \in Stations : r # s

-----------------------------------------------------------------------------
Init ==
  /\ scenario \in Scenarios
  /\ peer = [s \in Stations |-> InitPeer]
  /\ line = [s \in Stations |-> <<>>]
  /\ accepted = [s \in Stations |-> 0]
  /\ delivered = [s \in Stations |-> <<>>]
  /\ confirmed = [s \in Stations |-> {}]
  /\ cut = {}
  /\ losses = 0 /\ keepalives = 0 /\ disconnects = 0

\* Nothing is on its way or waiting to be sent.
Quiet == \A s \in Stations :
           line[s] = <<>> /\ peer[s].s_queue = <<>> /\ ~HasIFrame(peer[s])

\* tiny_fd_send_packet_to succeeds: the window and the slots have room.
Send(s) ==
  LET p == peer[s]
      q == [p EXCEPT !.window = Append(@, accepted[s] + 1), !.last_ns = SeqNext(@)]
  IN  /\ accepted[s] < scenario.packets[s]
      /\ p.can_accept /\ Len(p.window) < Window
      /\ peer' = [peer EXCEPT ![s] = [q EXCEPT !.can_accept = ~TxFull(q)]]
      /\ accepted' = [accepted EXCEPT ![s] = @ + 1]
      /\ UNCHANGED <<line, delivered, confirmed, cut, bounds>>

\* tiny_fd_disconnect: the state is overwritten whatever it was, so a station
\* that is down answers to numbered frames again, with numbers that start at 0.
Disconnect(s) ==
  /\ disconnects < scenario.disconnects
  /\ Len(peer[s].s_queue) < SuSize
  /\ peer' = [peer EXCEPT ![s] = [PutUS(@, U("DISC")) EXCEPT !.state = "DISCONNECTING"]]
  /\ disconnects' = disconnects + 1
  /\ cut' = IF LinkUp(peer[s]) THEN cut ELSE cut \cup {s}
  /\ UNCHANGED <<line, accepted, delivered, confirmed, scenario, losses, keepalives>>

\* Mutant: SABM is not repeated.
ConnectTimerOnce(s) ==
  /\ peer[s].state = "DISCONNECTED"
  /\ SlowConnect => Quiet
  /\ peer' = [peer EXCEPT ![s] = [PutUS(@, U("SABM")) EXCEPT !.state = "CONNECTING"]]
  /\ UNCHANGED <<line, accepted, delivered, confirmed, cut, bounds>>

\* tiny_fd_disconnected_check_idle_timeout
ConnectTimer(s) ==
  /\ ~LinkUp(peer[s])
  /\ SlowConnect => Quiet
  /\ peer' = [peer EXCEPT ![s] = [PutUS(@, U("SABM")) EXCEPT !.state = "CONNECTING"]]
  /\ UNCHANGED <<line, accepted, delivered, confirmed, cut, bounds>>

\* tiny_fd_connected_check_idle_timeout: the retry timer.
RetryTimer(s) ==
  LET p == peer[s] IN
  /\ LinkUp(p) /\ HasUnconfirmed(p) /\ AllFramesAreSent(p)
  /\ SlowRetry => Quiet
  /\ peer' = [peer EXCEPT ![s] =
                IF p.retries > 0
                  THEN ResendFrom([p EXCEPT !.retries = @ - 1], p.confirm_ns)
                  ELSE SwitchToDisconnected(p)]
  /\ UNCHANGED <<line, accepted, delivered, confirmed, cut, bounds>>

\* The keep-alive timer: RR is queued, and an answer is expected from now on.
KeepAliveTimer(s) ==
  /\ keepalives < scenario.keepalives
  /\ LinkUp(peer[s])
  /\ peer' = [peer EXCEPT ![s] = PutUS([@ EXCEPT !.ka_confirmed = FALSE], S("RR", @.next_nr))]
  /\ keepalives' = keepalives + 1
  /\ UNCHANGED <<line, accepted, delivered, confirmed, cut, scenario, losses, disconnects>>

\* Nothing was received for two keep-alive periods.
KeepAliveExpired(s) ==
  /\ keepalives < scenario.keepalives
  /\ LinkUp(peer[s]) /\ ~peer[s].ka_confirmed
  /\ peer' = [peer EXCEPT ![s] = SwitchToDisconnected(@)]
  /\ keepalives' = keepalives + 1
  /\ UNCHANGED <<line, accepted, delivered, confirmed, cut, scenario, losses, disconnects>>

Transmit(s, f, p) ==
  /\ Len(line[Other(s)]) < LineSize
  /\ line' = [line EXCEPT ![Other(s)] = Append(@, f)]
  /\ peer' = [peer EXCEPT ![s] = p]
  /\ UNCHANGED <<accepted, delivered, confirmed, cut, bounds>>

\* tiny_fd_get_next_s_u_frame_to_send, and on_frame_send frees its slot.
TransmitSU(s) ==
  LET p == peer[s]
      f == Head(p.s_queue)
  IN  /\ p.s_queue # <<>>
      /\ Transmit(s, f, [p EXCEPT !.s_queue = Tail(@),
                                  !.sent_nr = IF f.type \in {"RR", "REJ"} THEN f.nr ELSE @])

\* Mutant: next_ns does not move.
TransmitISame(s) ==
  LET p == peer[s]
  IN  /\ p.s_queue = <<>> /\ HasIFrame(p)
      /\ Transmit(s, I(p.next_ns, p.next_nr, p.window[NextOffset(p) + 1]),
                  [p EXCEPT !.sent_nr = p.next_nr])

\* tiny_fd_get_next_i_frame: the frame numbered next_ns, if a slot holds it.
TransmitI(s) ==
  LET p == peer[s]
  IN  /\ p.s_queue = <<>> /\ HasIFrame(p)
      /\ Transmit(s, I(p.next_ns, p.next_nr, p.window[NextOffset(p) + 1]),
                  [p EXCEPT !.next_ns = SeqNext(@), !.sent_nr = p.next_nr])

\* on_frame_read, with the calls of on_read_cb and on_send_cb it makes.
Receive(s) ==
  LET p == peer[s]
      f == Head(line[s])
      numbered == LinkUp(p) /\ f.type \in {"I", "RR", "REJ"}
  IN  /\ line[s] # <<>>
      /\ line' = [line EXCEPT ![s] = Tail(@)]
      /\ peer' = [peer EXCEPT ![s] = OnFrameRead(p, f)]
      /\ delivered' = IF numbered /\ f.type = "I" /\ f.ns = p.next_nr
                        THEN [delivered EXCEPT ![s] = Append(@, f.data)] ELSE delivered
      /\ confirmed' = IF numbered
                        THEN [confirmed EXCEPT ![s] =
                                @ \cup {p.window[k] : k \in 1 .. Confirms(p, f.nr)}]
                        ELSE confirmed
      /\ UNCHANGED <<accepted, cut, bounds>>

\* A frame is damaged on the line: hdlc_ll drops it.
Lose(s) ==
  /\ losses < scenario.losses
  /\ line[s] # <<>>
  /\ line' = [line EXCEPT ![s] = Tail(@)]
  /\ losses' = losses + 1
  /\ UNCHANGED <<peer, accepted, delivered, confirmed, cut, scenario, keepalives, disconnects>>

Next ==
  \E s \in Stations :
    \/ Send(s)
    \/ Disconnect(s)
    \/ ConnectTimer(s)
    \/ RetryTimer(s)
    \/ KeepAliveTimer(s)
    \/ KeepAliveExpired(s)
    \/ TransmitSU(s)
    \/ TransmitI(s)
    \/ Receive(s)
    \/ Lose(s)

Spec == Init /\ [][Next]_vars

\* The station's loop calls run_rx and run_tx for ever, and a timer that keeps
\* its condition expires.
Fairness ==
  \A s \in Stations :
    /\ WF_vars(TransmitSU(s)) /\ WF_vars(TransmitI(s)) /\ WF_vars(Receive(s))
    /\ WF_vars(ConnectTimer(s)) /\ WF_vars(RetryTimer(s))

FairSpec == Spec /\ Fairness

-----------------------------------------------------------------------------
(* Properties *)

\* on_read_cb never sees a packet twice nor out of order, through losses,
\* retransmissions, wrap-around of the numbers and reconnections, unless its
\* application called tiny_fd_disconnect while the link was down: then the numbers
\* start again at 0 with no SABM or UA that tells the remote, and a packet it
\* repeats is delivered twice.
InOrderOnce == \A s \in Stations : s \notin cut => Increasing(delivered[s])

\* on_send_cb is only called for packets the other application has received, as
\* long as neither a disconnection nor a silent peer resets one of the stations.
ConfirmedWasDelivered ==
  disconnects = 0 /\ keepalives = 0 =>
  \A s \in Stations : \A d \in confirmed[s] :
    \E i \in DOMAIN delivered[Other(s)] : delivered[Other(s)][i] = d

\* The link comes up on both sides once the line stops losing frames.
Connects == <>[](\A s \in Stations : peer[s].state = "CONNECTED")

\* Every packet in the window is in the end confirmed, or dropped by a reset.
WindowDrains == \A s \in Stations : []<>(peer[s].window = <<>>)
=============================================================================
