# tinyproto in TLA+

tinyproto carries packets over serial lines: a full-duplex protocol with a sliding
window (`src/src/proto/fd`), two simpler protocols over the same HDLC framing
(`src/src/proto/hdlc`, `src/src/proto/light`), C++ classes around them, an OS layer
(`src/src/hal`), and Python and Rust versions. This project models each of these
parts. TLC checks the modules on small instances; TLAPS proves, for every value of
the constants, every safety property the passing runs check, some under hypotheses that
are stated with them: those of the transmit window, the link, the bus, the framing and
its Rust port, the light protocol, the HAL and the classes around them.

## The system

| Component | State | Operations | Correct when |
|---|---|---|---|
| FD window (`tiny_fd_i_queue_control.c`, `tiny_fd_tx.c`) | `confirm_ns <= next_ns <= last_ns` (mod 8), `retries`, `srej_req_mask` | put a packet, send the next frame, confirm up to N(R), rewind, reset | numbers and slots agree; packets leave in order; nothing stalls |
| FD frame queue (`tiny_fd_frames_queue.c`) | slots, `lookup_index` | allocate, search, free, reset for an address | a FIFO per peer; a slot is not reused while in use |
| FD service queue (`tiny_fd_service_queue.c`) | four slots of S- and U-frames | put (dropped when full), fetch, free after sending | order kept; the frame being sent stays |
| FD events (`tiny_fd_defines_int.h`) | `CAN_ACCEPT_I_FRAMES`, `QUEUE_HAS_FREE_SLOTS`, `TX_DATA_AVAILABLE`, `HAS_MARKER` | set, wait and clear | no lost wake-up; one marker |
| FD connection (`tiny_fd.c`, `tiny_fd_on_rx_int.h`) | `state`, `ka_confirmed`, `sent_nr`, `sent_reject`, `next_nr` | SABM/SNRM/UA/DISC/DM/FRMR/RSET handlers, timers, `tiny_fd_disconnect` | link comes up; a reset is consistent on both sides |
| FD peers (`tiny_fd_peers.c`, NRM) | addresses, `next_peer`, the peer a call serves, one record per peer | registration, lookup, marker passing, polling | every peer is served; a dead one harms nobody else |
| FD initialisation (`tiny_fd_init`, buffer size functions, `begin` of the owners) | the caller's buffer | validate, lay out, create events, close | areas disjoint, aligned, inside the buffer, large enough |
| HDLC low level (`low_level/hdlc.c`) | state functions of sender and receiver, frame buffers | `put_frame`, `run_tx`, `run_rx`, `reset` | transparent, resynchronises, stays in its buffer |
| HDLC high level (`high_level/hdlc.c`) | three event bits, one frame slot | `hdlc_send`, `hdlc_run_tx`, `hdlc_reset` | success means sent; every call returns |
| Light (`tiny_light.c`) | an `hdlc_ll` handle | `tiny_light_send`, `tiny_light_read` | a failed call costs at most the next frame |
| `Proto` (`TinyProtocol.cpp`) | pool and queue of packets, two threads | `begin`, `end`, `send`, `read`, `release`, `onRead` | no packet lost or duplicated; the link outlives its threads |
| `IPacket` (`TinyPacket.h`) | buffer, length, read position | `put`, `get...`, `clear` | what was put comes back; nothing leaves the buffer |
| Link layers (`src/src/link`) | queued buffer and its events; port and heap buffer | `put`, `flushTx`, `getData`; `begin`, `end`, `runTx`, `runRx` | true means sent; bytes in order; nothing leaks |
| HAL events (`src/src/hal/*`) | bits, lock, condition variable | `wait`, `set`, `clear`, `check_int` | each call takes effect at one moment; timed waits end |
| HAL list (`tiny_list.c`) | links in the elements | add, remove, clear, enumerate | enumerates its members |
| Serial drivers (`*_serial.inl`) | a handle | open, send, read, close | used above by what they may answer |
| Python (`src/python`) | interpreter lock, pinned buffers, `error_flag`, `read_func`, `write_func` | the methods of `Fd` and `Hdlc` | no deadlock; memory in use stays pinned |
| Rust port (`mod.rs`) | as HDLC low level | `put`, `run_tx`, `run_rx` | as HDLC low level |

Application threads call `tiny_fd_send_packet_to`, one thread `tiny_fd_run_rx`,
one `tiny_fd_run_tx` (or one loop calls both). They share the queues and the
window under `frames.mutex`, and wait for events outside it. The handlers release
the mutex around every user callback: `on_send_cb` in the middle of the
confirmation loop, `on_read_cb`, `on_connect_event_cb`. Two stations, or a primary
and its secondaries, exchange frames through `hdlc_ll`, which drops what fails its
checksum. The link layers connect a protocol object to a port; `Proto` owns a link
layer and its threads.

What is hard: interleavings where a mutex is released, events consumed before it
is taken, timers racing late answers, frames of an old connection on a new one,
numbers that wrap, queues at their limits, completions taken by the wrong thread,
two locks. PROJECT.json lists these hazards with their lines and the properties
that cover them, or why none does.

## Modules

The FD protocol:

* `FdSeq` - arithmetic of sequence numbers with modulus `SeqMod` (8 in the code).
* `FdQueue` - the slot queue as operators: what `tiny_fd_queue_get_next` returns,
  allocation, freeing, `reset_for`.
* `FdTx` - the transmit half of one ABM station under its threads. One action is
  the code between two points where the mutex is released or an event is waited
  for: `Send...` is `tiny_fd_send_packet_to`, `Tx...` is `tiny_fd_get_tx_data` with
  its timers, `Rx...` is `on_frame_read` with the I, S and U handlers, split at the
  callbacks. The remote is arbitrary: any frame of `RemoteKinds` with any N(R). A
  timeout may expire whenever it is tested. The service queue is its number of
  occupied slots.
* `BoundedFifo`, `TxFifo` - abstract specifications: a bounded FIFO, and one that a
  link reset may flush.
* `FdServiceQueue` - the content of the service queue while a frame is sent.
* `FdPeer` - what a station does with a received frame, as operators from the
  record of a peer to its next value, named after the C functions. `FdLink` and
  `FdNrm` share it. The window is the sequence of its packets, which the
  refinement of `TxFifo` by `FdTx` justifies.
* `FdLink` - two ABM stations, each in one loop, and a line that keeps the order
  and may lose frames, which `HdlcLL` justifies.
* `FdNrm` - a primary and its secondaries: registration, the marker, round robin,
  the shared slots and service queue, the three timers. A secondary may stop for good.
  A call of `tiny_fd_get_tx_data` looks `next_peer` up once (`peer`) and serves that peer to
  its end. The closing flag of a frame is written when `on_frame_send` runs
  (`hdlc.c:267`), into the buffer of that call, and reaches the line after it has
  returned: `held` is the time in between, in which nobody has the frame yet, and
  `NextCall` its end. So the marker cannot come back within the call that passed it on.
* `FdInit` - settings, sizes and layout, in bytes, for C code and the three classes.

Framing and the simpler protocols:

* `HdlcLL` - framing with the real byte values. A sender action is a call of the
  state function `tx.state` inside `hdlc_ll_run_tx`, `room` being what is left of the
  output buffer; a receiver action handles one byte. `tiny_chksum` is the checksum;
  FCS-16 and FCS-32 differ in the function and the number of bytes.
* `RustHdlc` - the Rust port of it, with its two differences; a C sender at the other
  end of the line sends byte by byte too. `rsOut` records which bytes of a frame were
  put on the line.
* `HdlcHigh` - `hdlc_send` with parallel senders, the pump and the event bits. A failing
  write of the closing flag comes after the frame has been reported as sent.
* `TinyLight` - the two blocking calls with their time limits.

Around them:

* `TinyEvents`, `EventBits` - the event objects of eleven HALs as steps under their
  locks, with what each call returns, and the atomic object they implement. An event group
  (FreeRTOS, ESP32) may have any number of waiters: a set walks them, releases all it
  satisfies and clears their bits after the walk. The modules above it (`FdTx`, `HdlcHigh`,
  `HdlcLink`, `Proto`) take the bits of the other HALs, where a bit goes to one waiter;
  on an event group two senders that are both asleep may both get `TX_ACCEPT_BIT` or
  `CAN_ACCEPT_I_FRAMES`, and what follows from that is not modelled. The relative timeout of
  Win32, from which the time elapsed is subtracted after every wake-up, is a deadline.
* `TinyList`, `TinyPacket` - the list of the HAL, where an enumeration is one action per
  element it calls back for, and the packet of the C++ API.
* `Proto`, `HdlcLink`, `SerialLink` - the C++ class (receiving and life cycle), sending
  through it and the HDLC link layer, and the serial loops, links and drivers. In
  `HdlcLink` the framing takes the frame in one step of `put` (`HlPut`), `m_tempBuffer` and
  `TX_MESSAGE_SENDING` follow in another (`HlPutQueued`), and the transmitting thread may
  run in between: it does so without `m_sendMutex`.
* `PyFd`, `PyHdlc` - the two Python classes. In `PyFd` the function pointers are looked at
  where the code does: before the interpreter lock is taken, again for the call, and in
  every round of the loop of `tiny_fd_run_tx`.

For TLC: `MCFdTx`, `MCFdLink`, `MCFdNrm`, `MCHdlcHigh`, and `MCData` and `MCThreads`,
which hold components that do not interact: the variable `part` says which of them
a behaviour is about. `MCEvents` has the HALs and calls both of them use.

For TLAPS: `FdTxProofs` (types, events and window of the transmit half, and the
refinement of `TxFifo`), `FdServiceQueueProofs`, `FdPeerProofs` (one direction of a
connection, for the link and for the bus), `FdLinkProofs`, `FdNrmProofs`, `HdlcProofs`
(`HdlcHigh`, `HdlcLink`, `HdlcLL`, `RustHdlc`), `TinyEventsProofs`, and `ClassProofs`
(`Proto`, `PyHdlc`, `PyFd`, `TinyLight`, `SerialLink`, `TinyList`, `TinyPacket`,
`FdInit`).

Operators whose comment starts with "Mutant" are wrong variants of the definition
below them. They are used nowhere; each, put in place of its definition, violates
the property PROJECT.json names.

## Runs

| Run | Bounds | What it shows |
|---|---|---|
| `fdtx_threads` | modulus 4, window 2, two senders, separate Rx and Tx, no `on_send_cb` | `WindowMatchesSlots`, no lost wake-up of a sender that waits for room (`RoomSignalled`) or of the Tx thread (`DataSignalled`), the "should never happen" branch is not taken |
| `fdtx_callback` | modulus 3, window 2, one sender, one loop, `on_send_cb`, RR, SREJ, RSET, SABM | the callback's slot stays its own; the window implements `TxFifo` |
| `fdtx_open` | modulus 3, window 2, one sender, separate Rx and Tx, `on_send_cb`, RR, SREJ, RSET, SABM | `TypeOK`, `FreeSlotsSignalled` where the window invariant does not hold |
| `fdlink_safe` | modulus 3, window 2; 3 packets, 1 back and 2 losses, or 2 packets, a loss, two keep-alives and a disconnection; retry timer at any time | `InOrderOnce`, `ConfirmedWasDelivered` |
| `fdlink_live` | modulus 4, window 3; 1 packet and 2 losses, or 3 packets each way; fair | `Connects`, `WindowDrains` |
| `fdnrm` | primary, 2 secondaries, modulus 3, 2 slots, 2 service slots; a UI packet, a disconnection, a keep-alive, a lost frame, data both ways, a full window, or a secondary that stops; fair in the lost frame and the one that stops | one marker, packets once and in order, free slots signalled; `PollsRoundRobin`: a frame to every secondary is on the bus again and again |
| `data` | thirteen parts, see below; safety only | framing, service queue, light, frame slot of `hdlc_send`, `Proto`, sends of its link, list, packet, serial, Python buffers, layout, Rust, event objects |
| `threads` | four parts, see below; fair | waits on event objects, a lone `hdlc_send`, the HDLC link, Python threads |
| `fdtx_confirm_race`, `fdlink_stall`, `fdnrm_dead_peer`, `hdlc_parallel_send` | violation | see Findings |

`data`: 3 frames with flags and escapes in every place and 2 damages, output
buffers of 1 and 2 bytes (`Transparent`, `Resynchronises`); the service queue
implements `BoundedFifo`; 3 light frames with timeouts, a failing write or read, and
two read buffers (`LtOwnBuffer`, `LtLossBounded`); one or two senders of `hdlc_send`,
with and without a pump thread (`HhAcceptMeansIdle`); two packets, two readers, two
`begin` calls, with and without threads (`PrConserved`, `PrNoLostWakeup`,
`PrLinkOutlivesThreads`); one sender of two packets over the HDLC link, empty ones among
them, with and without a transmitting thread, and two senders of two packets each
(`HlTrueMeansSent`); four list elements, of which members are removed (`TlEnumerates`);
packets under both orders of evaluation, strings cut and dropped (`PkRoundTrip`); six
serial drivers with three pumps (`SlBytesInOrder`, `SlResources`); Python buffers
(`PhPinned`); every owner of a station with 0 to 64 peers, four addresses and all
checksums (`FiLayout`); the Rust port with output buffers of 1, 2 and 4 bytes, and a C
sender at its receiver (`RsDelivers`); two threads with two calls each, of
six kinds, on eleven HALs, and three with one call each on FreeRTOS and Linux, two of
which can be asleep when the third sets a bit (`ImplementsEventBits`).

`threads`: two threads with two calls each, of five kinds, on eleven HALs
(`EvNoLostWakeup`, `EvTimedWaitEnds`); one sender of `hdlc_send`,
two sends, one failing write (`HhLoneSendEnds`); the senders of `data`, the second of two
with one packet (`HlQueueFreed`); three Python threads, one per direction and one that
does both, or two in `run_tx` and one that looks, with two callbacks or switches in a
call (`PyErrorReported`, `PyCallReturns`).

Bounds. In most FD instances the modulus exceeds the window by one, the tightest the
code allows, and as many packets are sent as there are numbers (in `FdTx` without
limit), so numbers wrap and full windows happen. One service slot in `FdTx` makes a full
queue frequent; two in `FdNrm` are as many as two peers need to get in each other's way.
Two losses reach the loss of a frame together with its acknowledgement or its
retransmission. `LineSize` of `FdLink` keeps two or three frames under way, enough for a
frame to overtake a timer. Two threads are enough for a completion, an event or a buffer
to be taken by the wrong one; two waiters of an event group asleep at once need a third
thread. Two turns inside a Python call let the interpreter switch threads within a
callback. A finite timeout lasts one tick, and an encoded frame two bytes, so each may
end before, between and after the steps of another thread. Where the application makes a
bounded number of calls the system may then stop, so deadlock is not checked there; it
is checked in the `FdTx` runs.

## Fairness

* `FdLink`: weak fairness of transmitting, receiving and of the connection and retry
  timers: the station's loop calls `tiny_fd_run_rx` and `tiny_fd_run_tx` for ever and
  a timer whose condition stays true expires. None for the application, the
  keep-alive or the line. `SlowConnect` and `SlowRetry` state that a timeout is longer
  than the round trip: the timer expires only when nothing is under way.
* `FdNrm`: weak fairness of the bus (all stations loop) and of registration; strong
  fairness of the connection timer and of the primary's retry timer of each peer, whose
  conditions are interrupted by every frame and hold again after it: the check precedes
  every transmission to the peer. Neither the keep-alive timer nor applications are fair.
* `TinyEvents`: weak fairness of the clock and of each thread's steps; strong fairness
  of taking the lock and of the expiry of a timeout, since mutex implementations and
  the polling loops give every waiter its turn.
* `HdlcHigh`, `HdlcLink`: weak fairness of the pump and of the senders' loops.
* `PyFd`: strong fairness of each thread's steps, for they need the interpreter lock or
  the mutex, which are released again and again; CPython hands its lock over.

## Findings

1. `fdlink_stall`. The confirmation loop (`tiny_fd_i_queue_control.c:58`) moves
   `confirm_ns` but not `next_ns`. After a rewind, an acknowledgement of frames sent
   before it leaves `next_ns` behind `confirm_ns`. No slot holds that number, so
   nothing is sent; the retry timer wants all frames sent, so it does not run. One
   lost RR suffices, and new packets do not help. Only a link reset does.
2. `fdtx_confirm_race`. With `on_send_cb` and separate Rx and Tx threads, the Tx thread
   may give up the link while the callback runs; the confirmation loop then goes on
   in a window that is gone.
3. `fdnrm_dead_peer`. Giving up a peer frees its slots without raising
   `FD_EVENT_QUEUE_HAS_FREE_SLOTS`. Senders to other peers wait for ever.
4. `hdlc_parallel_send`. `hdlc_send` waits for a bit of the handle, not of its frame:
   of two threads, one takes the other's completion. A lone thread without a pump takes
   that of its previous send, when the closing flag could not be written.

Seen while modelling, without a run of their own.

FD: `on_send_cb` is called from the Rx context although `tiny_fd.h:202` says "is called
from tiny_fd_run_tx() context"; a SABM repeated while the UA is under way resets only
the receiver, and packets are reported to `on_send_cb` that were never delivered (hence
`SlowConnect`); the branch "If this log appears, then in the code of the protocol
something is definitely wrong" (`tiny_fd.c:841`) is reached by two senders; an SREJ for
a confirmed frame consumes `TX_DATA_AVAILABLE` although frames wait (`tiny_fd.c:494`),
so `DataSignalled` is checked without SREJ; RSET breaks `WindowMatchesSlots`, and
`ImplementsFifo` sees the duplicates it leaves only when they are sent or confirmed, for
the mapping picks one of the slots that carry a number; `tiny_fd.h:239` allows a window
of 1, the code refuses it; RNR does not pause sending although the comment says so; a
`tiny_fd_disconnect` on a link that is down (`tiny_fd.c:1035`) moves the station to
`DISCONNECTING` with the numbers of the dead connection cleared, a state in which it
handles S- and I-frames again: a packet of that connection that is still under way or
repeated is delivered a second time, stale acknowledgements confirm packets that never
arrived, and the confirmations leave free slots unsignalled. The attempt to prove
`InOrderOnce` found this and TLC confirmed it, with two losses and two disconnections on
the bus. So `FdLink` and `FdNrm` record such stations in `cut`; `InOrderOnce`,
`NrmInOrderOnce` and `SlotsSignalled` speak of the others, and `ConfirmedWasDelivered`
leaves disconnections out; a secondary that sends to `TINY_FD_PRIMARY_ADDR` is told
`UNKNOWN_PEER` (except at address 21, whose address field, turned into a field once
more, is itself); `uint16_t` fields cut the settings of the classes (the default mtu
16384 of `SerialFdLink` is refused, a timeout of 262144 becomes 0); `tiny_fd_init`
refuses an aligned buffer of the size `tiny_fd_buffer_size_by_mtu_ex` gives, documented
as "minimum required buffer size" (`tiny_fd.h:443`), when the queues need more than four
bytes of padding (mtu 3, window 2; `FiLayout` says exactly when); with pointers of four
or two bytes the receive buffer of an aligned buffer of the computed size lacks up to
one or three bytes of `phys_mtu`, for `tiny_fd.c:315` keeps back four bytes and the
result is rounded down to a word (pointers of four bytes, mtu 5, window 2, CRC-16: eight
bytes for a `phys_mtu` of nine), which the attempt to prove `FiLayout` for every word
size found; with `HDLC_CRC_OFF` the framing layer counts four bytes for a checksum
nobody asked room for.

On the bus: a primary whose peer is `DISCONNECTED` polls it with SNRM without becoming
`CONNECTING` (`tiny_fd.c:530`), so it ignores the UA, which only restarts the connection
timer; with a polling cycle shorter than `retry_timeout` the timer never expires and the
link stays down. (The timers of the model expire at any moment.) A `tiny_fd_disconnect`
before the first peer is registered leaves a DISC without an address in its slot for good.
All peers of a primary share the service queue. When it is full of frames to other peers,
nothing can be queued for the one whose turn it is, although `tiny_fd.c:529` says "just send
anything to the peer station to pass the marker"; the turn of the others never comes, and
the bus is silent for good. Four I-frames a secondary sends in one turn are enough, for
each gets its RR (`tiny_fd_on_rx_int.h:104`); so are four UI packets or four calls of
`tiny_fd_disconnect`. `PollsRoundRobin` excepts a queue that stays full; without the
exception TLC finds this stall with two packets upwards and two service slots.

Framing and above: `TINY_ERR_DATA_TOO_LARGE` is never reported by `hdlc_ll_run_rx`; a
light send after a failed `write_func` finishes the old frame and reports the new
one; a flushed buffer stays in `m_tempBuffer` and is taken for a sent one when sent
again; `put` sets `TX_MESSAGE_SENDING` (`TinyHdlcLinkLayer.cpp:99`) when the frame may
be out already, and the stale bit lets a later flush raise `TX_QUEUE_FREE` a second time:
with three sends of a lone sender over a transmitting thread `send` may answer true for a
frame that is not sent, and with four the framing may refuse a frame where the code
says "This should never happen" (line 103), which is why `HlTrueMeansSent` speaks of that
case only until a send has run out of time; a string put into a packet with one byte left
is dropped silently, and with none left `strncpy` is given -1 for a size
(`TinyPacket.h:151`), so `PkRoundTrip` speaks of packets in which every string found two
bytes free; `tiny_events_check_int` of the HALs that poll returns bits nobody asked for
(`hal_single_core.inl:109`, `no_platform_hal.inl:105`), although `tiny_types.h:311` promises
"0 if no any of requested bits are set", so `EventBits` lets a failing check return others;
without threads `Proto::end` does not close the link, and a failed `begin`
leaves it open; the serial loops drop the rest of a block when the port takes
nothing; Win32 closes a handle twice; the ESP32 driver compares the whole port name,
so "uart0,tx,rx" never matches; a `SerialFdLink` whose port is refused keeps its
buffer; `getUint32` depends on the order in which the compiler evaluates two calls.

Bindings: in the Rust port short output buffers lose payload, a frame with a checksum
never completes (`send_crc` compares bits with bytes), and checksums of more than one
byte at a time panic; in Python, `end()` during a running call frees the buffer in use,
and parallel `run_tx` calls share one function pointer: the first to return takes it
away (`fd.cpp:337`), and the other one repeats its bytes for ever (`tiny_fd.c:777`),
although `tiny_fd.h:361` says it calls "write_func() until all generated bytes are sent,
or error happens"; `PyCallReturns` excepts this case and no other. (`tx()` or `end()`
called from within `on_send` of `Hdlc` is not modelled.)

## Proofs

Every theorem below holds for every value of the constants its module allows: every
modulus from 3 and window from 2 to the modulus minus 1, any number of senders,
secondaries, threads, packets, losses and retries. The named assumptions on the
constants are in the modules that declare them, and TLC evaluates those its runs
extend. A theorem with a hypothesis states it as `ASSUME`; each is needed.

**Transmit half** (`FdTx`, remote arbitrary).

* `TypeCorrect`, inductive with `tx = "sending_su" => su > 0`, which keeps the service
  counter non-negative.
* `FreeSlotsAlwaysSignalled`, `RoomAlwaysSignalled`, `DataAlwaysSignalled`: no wake-up is
  lost. One case per action: it leaves the condition and the event alone, raises the event
  for what it makes available, is the step of the one who consumed it, or takes the
  link down. Room needs `NoRset` (RSET empties the window without raising
  `CAN_ACCEPT_I_FRAMES`), data needs `NoSrej` (a request for a frame that is gone uses
  the event up, `tiny_fd.c:494`). `DataInv` adds that no SREJ is pending.
* `WindowAlwaysMatchesSlots`, `CallbackAlwaysOwnsSlot`, `CannotConfirmNeverTaken`, under
  `OneMutexHolder` (`on_send_cb` is not combined with separate Rx and Tx threads; needed:
  `fdtx_confirm_race`) and `NoRset` (RSET resets the numbers and leaves the slots).
  `WindowMatchesSlots` alone is not inductive: when `on_send_cb` returns, the slot is
  freed without a look at its content, and only `CallbackOwnsSlot` says it holds
  `confirm_ns`; `WindowInv` is both, with the types. A new packet finds its number
  unused by a pigeonhole argument (`RoomIfFree`): the slots carry distinct numbers of
  the window, so a free slot leaves room in it.
* `WindowImplementsFifo`, under the same hypotheses: the packets read from the slots in
  the order of their numbers are the queue of `TxFifo`. Each action maps to an append, a
  removal of the head, a flush or a stutter.
* `ServiceQueueImplementsFifo`, for every queue size, with one peer (`OneAddress`: with two,
  the search for one address passes over the other's frames). The invariant: the
  occupied slots are the first ones of the search order, and while a frame is being
  sent there is one.

**Link** (`FdLink`). `AlwaysInOrderOnce` has no hypothesis. `LinkInv` looks at one
direction at a time (`Dir` of `FdPeerProofs`): the sender's window, the I-frames under
way and the last packet delivered. Without resets it would say that the numbers of two
frames differ as their packets do, by less than the window, so that a packet delivered
before never carries the number the receiver waits for. Resets clear the numbers on each
side alone, with frames of the old connection still under way. Only a SABM or a UA lets
a station that is down take numbered frames, and whoever queues one has emptied its
window in the same step; so these frames are *barriers*: packets behind one are newer
than all packets before it and than all delivered ones, and numbers are compared only
between barriers. Nothing is assumed of the other direction: a wrong N(R) may lose
packets, not reorder them. At a station in `cut` the argument, and the code, fails.

`ConfirmedAlwaysDelivered`, under `SlowConnect` (without it a SABM repeated while the UA is
under way resets the receiver alone, and the next acknowledgement is taken for one of the
other numbering). `AckInv` follows an acknowledgement back to the delivery it reports.
The frames on the way to a station are those on the line and those in the other's
service queue. Every N(R) among them lies, in order, between the sender's `confirm_ns`
and the number after the last packet delivered, so the confirmation loop never passes
it. A link reset clears both ends at once as far as acknowledgements can tell: a SABM is
queued only when nothing is on its way, so there is at most one SABM or UA, and no N(R)
of the old numbering behind or before it.

**Bus** (`FdNrm`). `MarkerAlwaysUnique`, `SlotsAlwaysSignalled`, no hypotheses. `NrmInv`: types of
stations and bus (what an action puts on the bus is a frame, the circular searches
end), an unregistered peer is down, `SlotsSignalled` station by station, and
`OneMarker`: two holders are one, two marked frames are one, and a holder excludes a
marked frame. This pairwise form is what the steps preserve; cardinalities come last.
The searches for the next peer are minima over distances (`LeastOf`).

`NrmAlwaysInOrderOnce`: every connection of the primary with a secondary is a link, and
`OrderInv` says `Dir` of both its directions. Its line is the bus, where a frame of another
connection counts as a UI frame (`Way`). Its sender's record is the peer's, with a barrier in the
queue while a SABM or a UA for that address waits in the shared service queue (`Waits`): an
I-frame goes out only when the search of that queue has found none. A step
is one of a single connection, and keeps what the others depend on; a peer's index is
found by its address, which no two registered peers share.

**HDLC and its link layer**. `HhAcceptAlwaysMeansIdle`: `TX_ACCEPT_BIT` is a token; it
is in the events, with the one sender that took it, in the frame slot, or with the pump
that has just emptied it. `HlTrueAlwaysMeansSent`: until a sender gives up the same is
true of `TX_QUEUE_FREE`, although the frame slot may be filled and emptied again while
the sender that has the token is still in `put`; `m_tempBuffer` stands for a frame that
is under transmission or out, so it is out once the token is back. Without a
transmitting thread the pump runs between two calls of `put`, and the same holds after a
flush.

**Framing** (`HdlcLL`). `LlAlwaysTransparent` and `LlAlwaysResynchronises`, no
hypotheses, for frames of any bytes, any checksum length and output buffer. Each byte on
the line behind the damaged ones has a *place*: the number of its frame, which byte of
the frame or its checksum it is, and whether the escape before it has been sent. The
places on the line follow one another (`LlPath`) up to the sender's own (`LlTxPlace`).
The receiver either holds exactly the bytes that come before the first place on the line
(`LlSynced`), or it has met damage and waits for the end of a frame, after which it is
in step again. So the frames it has delivered end with all that were sent after the
damage but the first, and without damage they are all of them (`LlExact`). `LlInv` is an
invariant of the places, not of whole frames, and so needs no induction over the bytes
of a frame: each byte is a step.

**Rust port** (`RustHdlc`). `RsAlwaysDelivers`, no hypotheses: any frames, any output buffers. The
receiver is *on its way* (`RsOnItsWay`): there are receiver states, one after each byte on
the line, each what `run_rx` makes of the one before, and the last is where the
senders want it (`RsTarget`: the payload put out so far, the pending escape, the frames
sent). A sender's step extends the way, the receiver's step walks it. That a run of
plain bytes may be cut leaves `rsOut` with gaps, but always at the end of a run
(`RsPositions`). With `HdlcCrc8` the checksum never ends, and the way stops in mid-frame.

**Light protocol** (`TinyLight`). `LtLossAlwaysBounded`: frames that were reported as
sent and did not arrive are no more than timeouts and failing reads, until a
`write_func` fails. The invariant is an account of what is still to be lost: the stream
of bytes that were received, are on the line or are about to be sent is frames in order,
some torn; the missing frames, the torn ones still on the way, the one the receiver is
out of step with, and the one it is storing in another call's buffer, together never
exceed those faults. Each step moves an entry of the account, or is a fault that adds
one. `LtAlwaysOwnBuffer` needs `LtBuffersKept`: the application reads into one buffer or
its `read_func` never fails, since after a failure the receiver keeps pointing into the
buffer of the failed call.

**HAL events**. `EvNeverLosesWakeup` and `EveryHalImplementsEventBits` for eleven HALs and any
number of waiters. `EvInv` says who holds the lock, that a copy of the bits taken under
it is still what they are, and that a sleeper's bits are clear; a call takes effect
where it writes the bits. The walk of an event group is mapped to its first step: whom it is
going to release counts as released (`EvServed`), and what it is going to clear as
cleared (`EvLeaving`), from the moment the bits are set.

**Classes and bindings** (`ClassProofs`). `PrNeverLosesWakeup`, `PrLinkAlwaysOutlivesThreads`
(a thread runs only between `begin` and the join in `end`), `PrAlwaysConserved` (pool and
queue are two lists of distinct packets, the rest is with the application, and no
frame is newer than the last to arrive), `PhAlwaysPinned`,
`PyErrorAlwaysReported` (what went wrong in a call is still in `error_flag` when it
returns), `SlResourcesAlwaysKept`,
`SlBytesAlwaysInOrder` (the block is the last bytes made, the wire an increasing part
of those before it).

* `TlAlwaysEnumerates`, any number of elements: the members form a doubly linked chain
  (`TlChain`), a removal is right because `pprev` of the element is, and the links that
  `tiny_list_clear` leaves in the elements never enter the chain. The enumeration is at
  an element of it, with those before it called back.
* `PkAlwaysRoundTrips`, packets of any size: every value put has its place in the buffer -
  a start, a width, and what the bytes there say. A put writes behind all places, and a
  get reads the place of the value it must return. The exceptions, in the property, are
  a `getUint32` compiled to fetch its right half first, and packets into which a string
  was put with less than two bytes free.
* `FiAlwaysLaysOut`, all settings, owners and buffer sizes, under `FiWord > 4`: pointers of
  eight bytes (for shorter ones the receive buffer may lack bytes, see above).
  `FiInv` keeps the settings in the range of their types and the station what the layout
  gives for them. The rest is arithmetic of alignment with a symbolic word size; a
  size that was cut to 16 bits is always refused.

Only model-checked:

* Liveness (`Connects`, `WindowDrains`, `PollsRoundRobin`, `EvTimedWaitEnds`,
  `HhLoneSendEnds`, `HlQueueFreed`, `PyCallReturns`): the prover has no fairness.

## Not modelled

* CRC arithmetic: tables over bytes. The modules need only that a checksum tells
  the frames under test apart.
* The frame logger (it formats a record) and the getters, which change nothing.
* `tiny_fd_send_to`, which sends a long message packet by packet and keeps no state.
* Reception of UI frames beyond the callback, and the Python callback setters.
* C++ members that forward one call, examples, tools and tests.
* Settings of serial ports: I/O. Rust's FCS tables, and its `HdlcCrc16` and
  `HdlcCrc32`, which fail in the same two places as `HdlcCrc8`.
* The period of the keep-alive and retry timers: they may expire at any moment.
* What becomes of the engines on an event group whose bit two senders get at once.
* Removing an element from a list it is not in (`tiny_list_remove` does not check): one that
  `tiny_list_clear` left with stale links can turn the list into a cycle (add 1, 2, 3;
  clear; add 3, 1; remove 2). The library removes members only.
* An I-frame is sent byte by byte from its slot while a late acknowledgement may free
  it. `FdTx` takes the transmission as one interval and does not look at the bytes.

## Plan

Modelled: every component of the table above. Proved: every safety property of the passing
runs. What is left is an FD transmission byte by byte from its slot.
