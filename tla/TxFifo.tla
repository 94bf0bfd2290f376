------------------------------- MODULE TxFifo -------------------------------
(***************************************************************************)
(* What the transmit window promises the application: a bounded FIFO of the *)
(* packets tiny_fd_send_packet_to accepted.  A packet leaves it (Get) when  *)
(* the remote acknowledged it, oldest first, or together with all the       *)
(* others when the link is reset.                                           *)
(***************************************************************************)
EXTENDS BoundedFifo

Flush == queue' = <<>>

TxFifoSpec == Init /\ [][Next \/ Flush]_queue
=============================================================================
