------------------------------ MODULE FdQueue ------------------------------
(***************************************************************************)
(* The frame queue of tiny_fd_frames_queue.c: a fixed set of slots, each    *)
(* FREE or holding an I, S or U frame, searched circularly from             *)
(* lookup_index.  The operators take and return the queue's two parts: the  *)
(* function frames from slot numbers to slots, and the lookup index.        *)
(*                                                                          *)
(* A slot is [type, address, arg, data]: arg is the field the search        *)
(* compares, N(S) of an I-frame and 0 of the others; data is what the slot  *)
(* carries.  The content of a FREE slot is never read, so freeing a slot    *)
(* writes FreeSlot.                                                         *)
(***************************************************************************)
EXTENDS Integers

FreeSlot == [type |-> "FREE"]

\* tiny_fd_queue_init / tiny_fd_queue_reset: every slot is free.
QueueReset(size) == [i \in 0 .. size - 1 |-> FreeSlot]

\* The test tiny_fd_queue_get_next applies to one slot.
Matches(slot, types, address, arg) ==
  /\ slot.type \in types
  /\ slot.type # "FREE" => slot.address = address
  /\ slot.type = "I" => slot.arg = arg

\* Mutant: the search always starts at slot 0.
PassedFromZero(size, lookup, i) == i

\* How many slots the search has passed when it looks at slot i.
Passed(size, lookup, i) == IF i >= lookup THEN i - lookup ELSE (i - lookup) + size

\* tiny_fd_queue_get_next returns slot i.
GetNextIs(frames, size, lookup, types, address, arg, i) ==
  /\ i \in 0 .. size - 1
  /\ Matches(frames[i], types, address, arg)
  /\ \A j \in 0 .. size - 1 :
       Matches(frames[j], types, address, arg)
         => Passed(size, lookup, i) <= Passed(size, lookup, j)

\* tiny_fd_queue_get_next returns NULL.
GetNextIsNull(frames, size, types, address, arg) ==
  \A j \in 0 .. size - 1 : ~Matches(frames[j], types, address, arg)

\* tiny_fd_queue_has_free_slots
HasFreeSlots(frames, size) == \E i \in 0 .. size - 1 : frames[i].type = "FREE"

\* tiny_fd_queue_reset_for: the slots of one address become free; the lookup
\* index stays where it is.
ResetFor(frames, size, address) ==
  [i \in 0 .. size - 1 |->
     IF frames[i].type # "FREE" /\ frames[i].address = address
       THEN FreeSlot ELSE frames[i]]

\* tiny_fd_queue_free_by_header: the slot, and the lookup index after it.
Free(frames, i) == [frames EXCEPT ![i] = FreeSlot]
LookupAfter(size, i) == IF i + 1 >= size THEN (i + 1) - size ELSE i + 1
=============================================================================
