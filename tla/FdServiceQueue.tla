--------------------------- MODULE FdServiceQueue ---------------------------
(***************************************************************************)
(* The queue of S- and U-frames (frames.s_queue) of one station: handlers   *)
(* put frames into it (__put_u_s_frame_to_tx_queue), the Tx thread takes the *)
(* frame it finds first for the peer it serves, transmits it from its slot, *)
(* and frees the slot when the last byte is out (on_frame_send).            *)
(***************************************************************************)
EXTENDS FdQueue, Sequences, FiniteSets

CONSTANTS
  SuSize,      \* TINY_FD_U_QUEUE_MAX_SIZE
  Addresses,   \* address fields of the peers; one in ABM
  ServiceFrames   \* contents of S- and U-frames

ASSUME SuSizeAssumption == SuSize \in Nat /\ SuSize >= 1

VARIABLES
  frames, lookup_index,   \* frames.s_queue
  sending                 \* the slot hdlc_ll transmits from, or -1

sqVars == <<frames, lookup_index, sending>>

Slots == 0 .. SuSize - 1
\* S- and U-frames are looked up alike; arg only matters for I-frames.
Slot(a, f) == [type |-> "SU", address |-> a, arg |-> 0, data |-> f]

SqInit == frames = QueueReset(SuSize) /\ lookup_index = 0 /\ sending = -1

\* __put_u_s_frame_to_tx_queue; without a free slot the frame is dropped.
Put(a, f, i) ==
  /\ GetNextIs(frames, SuSize, lookup_index, {"FREE"}, a, 0, i)
  /\ frames' = [frames EXCEPT ![i] = Slot(a, f)]
  /\ UNCHANGED <<lookup_index, sending>>

\* tiny_fd_get_next_s_u_frame_to_send, then hdlc_ll_put_frame: the frame stays
\* in its slot while it is transmitted.
Fetch(a, i) ==
  /\ sending = -1
  /\ GetNextIs(frames, SuSize, lookup_index, {"SU"}, a, 0, i)
  /\ sending' = i
  /\ UNCHANGED <<frames, lookup_index>>

\* on_frame_send: tiny_fd_queue_free_by_header.
Sent ==
  /\ sending # -1
  /\ frames' = Free(frames, sending)
  /\ lookup_index' = LookupAfter(SuSize, sending)
  /\ sending' = -1

SqNext ==
  \/ \E a \in Addresses, f \in ServiceFrames, i \in Slots : Put(a, f, i)
  \/ \E a \in Addresses, i \in Slots : Fetch(a, i)
  \/ Sent

SqSpec == SqInit /\ [][SqNext]_sqVars

-----------------------------------------------------------------------------
\* The slot the search looks at after passing k others.
Place(k) == IF lookup_index + k >= SuSize THEN (lookup_index + k) - SuSize ELSE lookup_index + k
\* The occupied slots, counted in search order, and what they carry.
Waiting == {k \in Slots : frames[Place(k)].type # "FREE"}
Nth(n) == CHOOSE k \in Waiting : Cardinality({j \in Waiting : j < k}) = n - 1
Queue == [n \in 1 .. Cardinality(Waiting) |-> frames[Place(Nth(n))].data]

\* With one peer the queue is a bounded FIFO: frames go out in the order they
\* were queued ("S-Frames and U-Frames can be reordered by the queue",
\* tiny_fd_frames_queue_int.h, does not happen in ABM).
Fifo == INSTANCE BoundedFifo WITH queue <- Queue, Items <- ServiceFrames, Capacity <- SuSize
ImplementsFifo == Fifo!Spec
=============================================================================
