------------------------------- MODULE FdNrm -------------------------------
(***************************************************************************)
(* Normal response mode: a primary and several secondaries on a shared bus. *)
(*                                                                          *)
(* Only the station that holds the marker (FD_EVENT_HAS_MARKER) transmits.   *)
(* A frame with the P/F bit hands the marker over; the primary then turns   *)
(* to its next peer and takes the marker back when no answer comes within   *)
(* retry_timeout.  The primary serves all peers from one queue of I-frame   *)
(* slots and one queue of S- and U-frames.                                  *)
(*                                                                          *)
(* A station is the record of its tiny_fd_data_t.  Its I-frame slots are the *)
(* windows of its peers, which WindowMatchesSlots of FdTx justifies; the    *)
(* service queue is kept slot by slot, for with several peers it reorders   *)
(* frames.  A transmission, from get_next_frame_to_send to on_frame_send, is *)
(* one step, for nobody hears a frame before its closing flag, which is in   *)
(* the buffer of the call that reports it (held) and leaves when this call   *)
(* of tiny_fd_get_tx_data returns.  A call looks up next_peer once, at its   *)
(* beginning (peer).  A secondary may stop for good at any moment.           *)
(***************************************************************************)
EXTENDS FdPeer, FdQueue, FiniteSetsExt

CONSTANTS
  Secondaries,    \* addresses of the secondaries, as init->addr has them: 1 .. 62
  Slots,          \* init->window_frames: I-frame slots of a station
  NrmScenarios,   \* bounds: how much may happen, one record per scenario
  BusSize         \* bound: frames on the bus

NrmScenarioType ==
  [down : [Secondaries -> Nat],  \* packets the primary sends to each secondary
   up : [Secondaries -> Nat],    \* packets each secondary sends
   ui : Nat,          \* UI packets the primary's application sends
   losses : Nat,      \* frames the bus loses
   keepalives : Nat,  \* keep-alive frames
   disconnects : Nat, \* calls of tiny_fd_disconnect
   crashes : Nat]     \* secondaries that stop

ASSUME NrmAssumption ==
  /\ Secondaries \subseteq 1 .. 62 /\ Secondaries # {}
  /\ Slots \in Nat /\ Slots >= 2 /\ Slots < SeqMod
  /\ BusSize \in Nat \ {0}
  /\ NrmScenarios \subseteq NrmScenarioType

Primary == 0    \* TINY_FD_PRIMARY_ADDR
All     == {Primary} \cup Secondaries

VARIABLES
  run,        \* the scenario of this behaviour
  station,    \* tiny_fd_data_t of every station
  bus,        \* frames on their way
  sent,       \* packets a station's application sent, by station and peer
  got,        \* packets given to on_read_cb, in order, by sender and receiver
  stopped,    \* secondaries that have stopped
  used,       \* how much of the scenario is used up
  cut         \* stations whose tiny_fd_disconnect found the link down

nrmVars == <<run, station, bus, sent, got, stopped, used, cut>>

-----------------------------------------------------------------------------
(* Addresses.  An address field is the address shifted by two, with the E bit;
   the C/R bit is left out: every comparison clears it. *)

Field(address) == (address * 4 + 1) % 256     \* (address << 2) | HDLC_E_BIT in a uint8_t
NoAddr    == 255                     \* HDLC_INVALID_PEER_INDEX as an address
NoPeer    == 255                     \* ... and as an index
PeersOf(s) == IF s = Primary THEN 0 .. Cardinality(Secondaries) - 1 ELSE {0}

\* __address_field_to_peer
AddressFieldToPeer(s, h, field) ==
  IF s # Primary
    THEN IF field = Field(s) THEN 0 ELSE NoPeer
    ELSE IF \E k \in PeersOf(s) : h.addr[k] = field
           THEN CHOOSE k \in PeersOf(s) : h.addr[k] = field ELSE NoPeer

\* tiny_fd_send_packet_to: the peer the application's address stands for.  On a
\* secondary the primary's address is replaced by handle->addr, which is a field
\* already, and becomes a field a second time.
PeerOfAddress(s, h, address) ==
  AddressFieldToPeer(s, h, Field(IF s # Primary /\ address = Primary THEN Field(s) ELSE address))

\* tiny_fd_init
InitStation(s) ==
  [peers |-> [k \in PeersOf(s) |-> InitPeer],
   addr |-> [k \in PeersOf(s) |-> IF s = Primary THEN NoAddr ELSE Field(s)],
   next_peer |-> 0, peer |-> 0, held |-> FALSE,
   marker |-> s = Primary, free_slots |-> TRUE,
   frames |-> QueueReset(SuSize), lookup |-> 0]

-----------------------------------------------------------------------------
(* The shared queues of a station's record h *)

\* tiny_fd_queue_allocate takes this slot.
FreeServiceSlot(h) == CHOOSE i \in 0 .. SuSize - 1 :
                        GetNextIs(h.frames, SuSize, h.lookup, {"FREE"}, 0, 0, i)

\* __put_u_s_frame_to_tx_queue; dropped without a free slot.
PutService(h, k, f) ==
  IF HasFreeSlots(h.frames, SuSize)
    THEN [h EXCEPT !.frames[FreeServiceSlot(h)] =
                     [type |-> "SU", address |-> h.addr[k], arg |-> 0, data |-> f]]
    ELSE h

HasService(h, k) == ~GetNextIsNull(h.frames, SuSize, {"SU"}, h.addr[k], 0)
\* tiny_fd_get_next_s_u_frame_to_send finds this slot.
ServiceSlot(h, k) == CHOOSE i \in 0 .. SuSize - 1 :
                       GetNextIs(h.frames, SuSize, h.lookup, {"SU"}, h.addr[k], 0, i)

WindowSizes(h) == [k \in DOMAIN h.peers |-> Len(h.peers[k].window)]
Total(sizes)  == MapThenSumSet(LAMBDA k : sizes[k], DOMAIN sizes)
UsedSlots(h)  == Total(WindowSizes(h))
FreeSlots(h) == UsedSlots(h) < Slots

\* Mutant: nobody is told about the slots.
SignalNever(h, signal) == h
\* FD_EVENT_QUEUE_HAS_FREE_SLOTS is raised by a connection and a confirmation
\* (signal), if there are free slots.
Signal(h, signal) == [h EXCEPT !.free_slots = @ \/ (signal /\ FreeSlots(h))]

\* Peer k's record becomes q, and the frame its handler queued goes to the
\* shared service queue.
WithPeer(h, k, q, signal) ==
  LET g == Signal([h EXCEPT !.peers[k] = [q EXCEPT !.s_queue = <<>>]], signal)
  IN  IF q.s_queue = <<>> THEN g ELSE PutService(g, k, Head(q.s_queue))

-----------------------------------------------------------------------------
NrmInit ==
  /\ run \in NrmScenarios
  /\ station = [s \in All |-> InitStation(s)]
  /\ bus = <<>>
  /\ sent = [s \in All |-> [k \in PeersOf(Primary) |-> 0]]
  /\ got = [s \in All |-> [a \in All |-> <<>>]]
  /\ stopped = {}
  /\ used = [ui |-> 0, losses |-> 0, keepalives |-> 0, disconnects |-> 0, crashes |-> 0]
  /\ cut = {}

Live(s) == s \notin stopped
\* The peer the running call of tiny_fd_get_tx_data serves.
Cur(h)  == h.peer

\* tiny_fd_register_peer: the first free place of the table.
RegisterPeer(a) ==
  LET h == station[Primary]
      k == CHOOSE k \in DOMAIN h.addr :
             h.addr[k] = NoAddr /\ \A j \in DOMAIN h.addr : j < k => h.addr[j] # NoAddr
  IN  /\ AddressFieldToPeer(Primary, h, Field(a)) = NoPeer
      /\ station' = [station EXCEPT ![Primary].addr[k] = Field(a)]
      /\ UNCHANGED <<run, bus, sent, got, stopped, used, cut>>

Load(s, address) == IF s # Primary THEN run.up[s]
                    ELSE IF address \in Secondaries THEN run.down[address] ELSE 0

\* tiny_fd_send_packet_to finds both events set.  Without a slot the flag was
\* wrong: TINY_ERR_TIMEOUT, and the flag stays cleared.
SendPacketTo(s, address) ==
  LET h == station[s]
      k == PeerOfAddress(s, h, address)
      p == h.peers[k]
      q == [p EXCEPT !.window = Append(@, sent[s][k] + 1), !.last_ns = SeqNext(@)]
      g == IF FreeSlots(h) THEN [h EXCEPT !.peers[k] = [q EXCEPT !.can_accept = ~TxFull(q)]]
                           ELSE [h EXCEPT !.peers[k].can_accept = ~TxFull(p)]
  IN  /\ Live(s) /\ k # NoPeer
      /\ sent[s][k] < Load(s, address)
      /\ p.can_accept /\ h.free_slots
      /\ station' = [station EXCEPT ![s] = [g EXCEPT !.free_slots = FreeSlots(h) /\ FreeSlots(g)]]
      /\ sent' = IF FreeSlots(h) THEN [sent EXCEPT ![s][k] = @ + 1] ELSE sent
      /\ UNCHANGED <<run, bus, got, stopped, used, cut>>

\* tiny_fd_send_ui_packet_to
SendUiPacketTo(a) ==
  LET h == station[Primary]
      k == PeerOfAddress(Primary, h, a)
  IN  /\ used.ui < run.ui
      /\ k # NoPeer /\ HasFreeSlots(h.frames, SuSize)
      /\ station' = [station EXCEPT ![Primary] = PutService(h, k, U("UI"))]
      /\ used' = [used EXCEPT !.ui = @ + 1]
      /\ UNCHANGED <<run, bus, sent, got, stopped, cut>>

\* tiny_fd_disconnect: peer 0, whatever its state is and registered or not; a
\* DISC without an address stays in its slot for good.
NrmDisconnect(s) ==
  LET h == station[s]
  IN  /\ Live(s) /\ used.disconnects < run.disconnects
      /\ HasFreeSlots(h.frames, SuSize)
      /\ station' = [station EXCEPT ![s] =
                       [PutService(h, 0, U("DISC")) EXCEPT !.peers[0].state = "DISCONNECTING"]]
      /\ used' = [used EXCEPT !.disconnects = @ + 1]
      /\ cut' = IF LinkUp(h.peers[0]) THEN cut ELSE cut \cup {s}
      /\ UNCHANGED <<run, bus, sent, got, stopped>>

-----------------------------------------------------------------------------
(* tiny_fd_get_tx_data: the timers of the call's peer, then a frame for it *)

\* Station s's record becomes h; an unregistered peer has no timers.
TimerStep(s, h) ==
  /\ Live(s) /\ station[s].addr[Cur(station[s])] # NoAddr
  /\ station' = [station EXCEPT ![s] = h]
  /\ UNCHANGED <<run, bus, sent, got, stopped, cut>>

\* tiny_fd_disconnected_check_idle_timeout; the timeout exceeds a turn, so the
\* command queued last time has been sent.
NrmConnectTimer ==
  LET h == station[Primary]
      p == h.peers[Cur(h)]
  IN  /\ ~LinkUp(p) /\ ~HasService(h, Cur(h))
      /\ TimerStep(Primary, WithPeer(h, Cur(h), [PutUS(p, U("SABM")) EXCEPT !.state = "CONNECTING"], FALSE))
      /\ UNCHANGED used

\* tiny_fd_connected_check_idle_timeout: the retry timer.
NrmRetryTimer(s) ==
  LET h == station[s]
      p == h.peers[Cur(h)]
      q == IF p.retries > 0 THEN ResendFrom([p EXCEPT !.retries = @ - 1], p.confirm_ns)
                            ELSE SwitchToDisconnected(p)
  IN  /\ LinkUp(p) /\ HasUnconfirmed(p) /\ AllFramesAreSent(p)
      /\ TimerStep(s, WithPeer(h, Cur(h), q, FALSE))
      /\ UNCHANGED used

\* Nothing was received for two keep-alive periods; or nothing was sent for one,
\* and RR asks for an answer.
NrmKeepAlive(s) ==
  LET h == station[s]
      p == h.peers[Cur(h)]
      q == [p EXCEPT !.ka_confirmed = FALSE]
  IN  /\ LinkUp(p)
      /\ \/ /\ ~p.ka_confirmed
            /\ TimerStep(s, WithPeer(h, Cur(h), SwitchToDisconnected(p), FALSE))
            /\ UNCHANGED used
         \/ /\ used.keepalives < run.keepalives
            /\ TimerStep(s, WithPeer(h, Cur(h), PutUS(q, S("RR", p.next_nr)), FALSE))
            /\ used' = [used EXCEPT !.keepalives = @ + 1]

\* Mutant: the primary keeps polling the same peer.
SamePeer(addr, k) == k

\* __switch_to_next_peer: the next registered peer after k, circularly.
NextPeer(addr, k) ==
  LET n == Cardinality(DOMAIN addr)
      Ahead(j) == IF j > k THEN j - k ELSE (j + n) - k
      valid == {j \in DOMAIN addr : addr[j] # NoAddr}
  IN  CHOOSE j \in valid : \A i \in valid : Ahead(j) <= Ahead(i)

\* Mutant: the marker is kept.
OnFrameSendKeeps(s, h, pf) == h

\* on_frame_send, given the rest h of the record: with the P/F bit the marker is
\* gone, and the primary turns to the next peer; the call goes on with the old one.
\* A secondary has one peer, and what it does after the closing flag does not
\* depend on whether the flag has left, so its calls are not told apart.
OnFrameSend(s, h, pf) ==
  [h EXCEPT !.marker = ~pf, !.held = (s = Primary),
            !.next_peer = IF pf /\ s = Primary THEN NextPeer(station[s].addr, @) ELSE @]

\* hdlc_ll transmits frame f to the call's peer; the record becomes h.  What the
\* same call may begin to send after it might as well wait for the next call.
Put(s, f, pf, h) ==
  /\ Live(s) /\ ~station[s].held /\ Len(bus) < BusSize
  /\ bus' = Append(bus, [from |-> s, field |-> station[s].addr[Cur(station[s])],
                         frame |-> f, pf |-> pf])
  /\ station' = [station EXCEPT ![s] = OnFrameSend(s, h, pf)]
  /\ UNCHANGED <<run, sent, got, stopped, used, cut>>

\* tiny_fd_get_tx_data returns and the caller writes out its bytes; the next call
\* looks up the peer.
NextCall(s) ==
  /\ Live(s) /\ station[s].held
  /\ station' = [station EXCEPT ![s].held = FALSE, ![s].peer = station[s].next_peer]
  /\ UNCHANGED <<run, bus, sent, got, stopped, used, cut>>

MayTransmit(s) == station[s].marker /\ station[s].addr[Cur(station[s])] # NoAddr

\* S-frames tell N(R).
SentNr(p, f) == [p EXCEPT !.sent_nr = IF f.type \in {"RR", "REJ"} THEN f.nr ELSE @]

\* A service frame is waiting: on_frame_send frees its slot.
TransmitService(s) ==
  LET h == station[s]
      k == Cur(h)
      i == ServiceSlot(h, k)
      f == h.frames[i].data
  IN  /\ MayTransmit(s) /\ HasService(h, k)
      /\ Put(s, f, TRUE, [h EXCEPT !.frames = Free(@, i), !.lookup = LookupAfter(SuSize, i),
                                   !.peers[k] = SentNr(@, f)])

\* The I-frame that leaves nothing to send carries the P/F bit.
LastOfTurn(p) == AllFramesAreSent(p)

TransmitNumbered(s) ==
  LET h == station[s]
      k == Cur(h)
      p == h.peers[k]
      q == [p EXCEPT !.next_ns = SeqNext(@), !.sent_nr = p.next_nr]
  IN  /\ MayTransmit(s) /\ ~HasService(h, k) /\ HasIFrame(p)
      /\ Put(s, I(p.next_ns, p.next_nr, p.window[NextOffset(p) + 1]), LastOfTurn(q),
             [h EXCEPT !.peers[k] = q])

\* Nothing to send: a frame that passes the marker on is put into a free slot,
\* sent and its slot freed.  When the service queue is full of frames to other
\* peers, nothing is sent at all.
PassMarker(s) ==
  LET h == station[s]
      k == Cur(h)
      f == IF s = Primary /\ ~LinkUp(h.peers[k]) THEN U("SABM") ELSE S("RR", h.peers[k].next_nr)
  IN  /\ MayTransmit(s) /\ ~HasService(h, k) /\ ~HasIFrame(h.peers[k])
      /\ HasFreeSlots(h.frames, SuSize)
      /\ Put(s, f, TRUE, [h EXCEPT !.lookup = LookupAfter(SuSize, FreeServiceSlot(h)),
                                   !.peers[k] = SentNr(@, f)])

\* The primary takes the marker back: nothing was heard for retry_timeout, which
\* exceeds the time a call lasts and a secondary needs to answer.
ReturnMarker ==
  /\ ~station[Primary].marker
  /\ bus = <<>> /\ \A s \in Secondaries : Live(s) => ~station[s].marker
  /\ TimerStep(Primary, [station[Primary] EXCEPT !.marker = TRUE])
  /\ UNCHANGED used

-----------------------------------------------------------------------------
\* The first frame of the bus has its closing flag.
Complete == bus # <<>> /\ ~station[Head(bus).from].held

\* on_frame_read at station s, for a frame with its address.
Receive(s) ==
  LET m == Head(bus)
      h == station[s]
      k == AddressFieldToPeer(s, h, m.field)
      p == h.peers[k]
      f == m.frame
      q == OnFrameRead(p, f)
      numbered == LinkUp(p) /\ f.type \in {"I", "RR", "REJ"}
      signal == \/ q.state = "CONNECTED" /\ (p.state # "CONNECTED" \/ f.type = "SABM")
                \/ numbered /\ Confirms(p, f.nr) > 0
      g == WithPeer(h, k, q, signal)
  IN  /\ Complete /\ Live(s) /\ s # m.from /\ k # NoPeer
      /\ station' = [station EXCEPT ![s] = [g EXCEPT !.marker = @ \/ m.pf]]
      /\ got' = IF numbered /\ f.type = "I" /\ f.ns = p.next_nr
                  THEN [got EXCEPT ![m.from][s] = Append(@, f.data)] ELSE got
      /\ bus' = Tail(bus)
      /\ UNCHANGED <<run, sent, stopped, used, cut>>

\* Nobody takes the frame: its station is not registered or has stopped.
Ignored ==
  /\ Complete
  /\ \A s \in All \ {Head(bus).from} :
       Live(s) => AddressFieldToPeer(s, station[s], Head(bus).field) = NoPeer
  /\ bus' = Tail(bus)
  /\ UNCHANGED <<run, station, sent, got, stopped, used, cut>>

\* The frame is damaged on the bus.
LoseOnBus ==
  /\ Complete /\ used.losses < run.losses
  /\ bus' = Tail(bus)
  /\ used' = [used EXCEPT !.losses = @ + 1]
  /\ UNCHANGED <<run, station, sent, got, stopped, cut>>

\* A secondary stops for good.
Crash(s) ==
  /\ s \in Secondaries /\ Live(s) /\ used.crashes < run.crashes
  /\ stopped' = stopped \cup {s}
  /\ used' = [used EXCEPT !.crashes = @ + 1]
  /\ UNCHANGED <<run, station, bus, sent, got, cut>>

Transmit(s) == TransmitService(s) \/ TransmitNumbered(s) \/ PassMarker(s)
\* What keeps the bus going.
BusStep == ReturnMarker \/ Ignored \/ \E s \in All : Transmit(s) \/ NextCall(s) \/ Receive(s)

NrmNext ==
  \/ \E a \in Secondaries : RegisterPeer(a) \/ SendUiPacketTo(a) \/ Crash(a)
  \/ NrmConnectTimer
  \/ \E s, a \in All : SendPacketTo(s, a)
  \/ \E s \in All : NrmDisconnect(s) \/ NrmRetryTimer(s) \/ NrmKeepAlive(s)
  \/ LoseOnBus
  \/ BusStep

Serves(k) == Cur(station[Primary]) = k

\* The stations run their Tx and Rx loops for ever, and the application registers
\* the peers.  A timer of the primary that has expired fires when a call serves its
\* peer: the check precedes every transmission.
NrmFairness ==
  /\ WF_nrmVars(BusStep)
  /\ WF_nrmVars(\E a \in Secondaries : RegisterPeer(a))
  /\ \A k \in PeersOf(Primary) :
       SF_nrmVars(Serves(k) /\ NrmConnectTimer) /\ SF_nrmVars(Serves(k) /\ NrmRetryTimer(Primary))

NrmSpec == NrmInit /\ [][NrmNext]_nrmVars /\ NrmFairness

-----------------------------------------------------------------------------
(* Properties *)

\* At most one station may transmit: the marker is with one station or on the
\* bus with one frame, as long as the marker timeout exceeds a secondary's turn.
MarkerUnique ==
  Cardinality({s \in All : Live(s) /\ station[s].marker})
    + Cardinality({i \in DOMAIN bus : bus[i].pf}) <= 1

\* Every packet arrives once and in the order it was sent, whatever is lost, and
\* with the two peers of the primary sharing their slots and service queue.  Not
\* so at a receiver whose application disconnected a link that was down: the state
\* DISCONNECTING counts as up, with next_nr 0 (see InOrderOnce of FdLink).
NrmInOrderOnce ==
  \A s \in All : \A a \in All \ cut : Increasing(got[s][a])

\* The primary polls every secondary again and again, also when one of them has
\* stopped and its answers and the marker with them are lost, and although a call
\* goes on with a peer that is no longer the next: a frame to it is on the bus.  Or
\* the service queue is full for good: then the primary keeps the marker, although
\* tiny_fd_get_next_frame_to_send would "just send anything to the peer station to
\* pass the marker".
Polled(k) == \E i \in DOMAIN bus : bus[i].from = Primary /\ bus[i].field = station[Primary].addr[k]
RoundRobin ==
  \A k \in PeersOf(Primary) :
    []<>Polled(k) \/ <>[]~HasFreeSlots(station[Primary].frames, SuSize)

\* Free I-frame slots are signalled to the waiting senders, unless one of the
\* registered peers is down; its next connection signals them.  tiny_fd_disconnect
\* takes a peer that is down for one that is up without signalling anything.
SlotsSignalled ==
  \A s \in All \ cut :
    LET h == station[s] IN
    FreeSlots(h) /\ ~h.free_slots
      => \E k \in PeersOf(s) : h.addr[k] # NoAddr /\ ~LinkUp(h.peers[k])

\* "This event is set when there is at least one free slot in the TX queue"
\* (tiny_fd_defines_int.h): senders to the living are not held up by the dead.
FreeSlotsEvent == []<>(FreeSlots(station[Primary]) => station[Primary].free_slots)
=============================================================================
