------------------------------- MODULE PyHdlc -------------------------------
(***************************************************************************)
(* The Python class tinyproto.Hdlc (python/hdlc_ll.cpp).  Its methods keep *)
(* the interpreter lock.  put() keeps the message pinned by a Py_buffer,   *)
(* because hdlc_ll sends from its memory, until on_frame_send; the Python  *)
(* function on_send is called from there and may call put() itself.        *)
(***************************************************************************)
EXTENDS Integers

CONSTANTS
    PhMessages,     \* bytes objects given to put(); PhEmpty is b""
    PhEmpty,
    PhMaxPuts       \* bound on the calls of put()

PhNull == "NULL"

ASSUME PhAssumption ==
    PhEmpty \in PhMessages /\ PhNull \notin PhMessages /\ PhMaxPuts \in Nat

VARIABLES
    phHandle,   \* begin() was called
    phTx,       \* tx.origin_data: the message hdlc_ll is sending from
    phUser,     \* user_buffer
    phPins,     \* number of Py_buffers on each message
    phCallback, \* where the Python function on_send was called from, or "no"
    phOnSend,   \* on_send is set
    phPuts      \* calls of put() so far

phVars == <<phHandle, phTx, phUser, phPins, phCallback, phOnSend, phPuts>>

PhInit ==
    /\ phHandle = FALSE /\ phTx = PhNull /\ phUser = PhNull
    /\ phPins = [m \in PhMessages |-> 0]
    /\ phCallback = "no" /\ phOnSend = FALSE /\ phPuts = 0

(* PyBuffer_Release of user_buffer, if there is one. *)
PhReleased(pins) == IF phUser = PhNull THEN pins ELSE [pins EXCEPT ![phUser] = @ - 1]

(* Hdlc_begin *)
PhBegin ==
    /\ ~phHandle /\ phCallback = "no"
    /\ phHandle' = TRUE /\ phTx' = PhNull
    /\ UNCHANGED <<phUser, phPins, phCallback, phOnSend, phPuts>>

PhSetOnSend ==
    /\ ~phOnSend /\ phOnSend' = TRUE
    /\ UNCHANGED <<phHandle, phTx, phUser, phPins, phCallback, phPuts>>

(* Hdlc_put, from a method or from on_send.  hdlc_ll_put refuses the       *)
(* message without a handle or while it sends another, and takes an empty  *)
(* message without sending it; a message that was not refused becomes      *)
(* user_buffer.                                                            *)
PhPut(m) ==
    /\ phPuts < PhMaxPuts /\ phPuts' = phPuts + 1
    /\ IF ~phHandle \/ phTx # PhNull
       THEN UNCHANGED <<phTx, phUser, phPins>>
       ELSE /\ phTx' = IF m = PhEmpty THEN PhNull ELSE m
            /\ phUser' = m
            /\ phPins' = [PhReleased(phPins) EXCEPT ![m] = @ + 1]
    /\ UNCHANGED <<phHandle, phCallback, phOnSend>>

(* Mutant: user_buffer.buf keeps pointing to what was released. *)
PhFreeKeeps == phPins' = PhReleased(phPins) /\ UNCHANGED phUser

(* on_frame_send: user_buffer is released, then on_send is called. *)
PhFree == phUser' = PhNull /\ phPins' = PhReleased(phPins)

(* hdlc_ll_run_tx inside Hdlc_tx has put out the last byte. *)
PhTxComplete ==
    /\ phTx # PhNull /\ phHandle /\ phCallback = "no"
    /\ phTx' = PhNull
    /\ PhFree
    /\ phCallback' = IF phOnSend THEN "tx" ELSE "no"
    /\ UNCHANGED <<phHandle, phOnSend, phPuts>>

(* Hdlc_end: hdlc_ll_close reports a frame that is not sent yet; hdlc_ll   *)
(* does not forget it, so put() is refused in that callback.               *)
PhEnd ==
    /\ phHandle /\ phCallback = "no"
    /\ IF phTx # PhNull
       THEN PhFree /\ phCallback' = (IF phOnSend THEN "end" ELSE "no")
       ELSE UNCHANGED <<phUser, phPins, phCallback>>
    /\ IF phTx # PhNull /\ phOnSend THEN UNCHANGED <<phHandle, phTx>>
       ELSE phHandle' = FALSE /\ phTx' = PhNull
    /\ UNCHANGED <<phOnSend, phPuts>>

(* on_send returns; end() goes on to drop the handle and its buffer. *)
PhCallbackReturns ==
    /\ phCallback # "no"
    /\ phCallback' = "no"
    /\ IF phCallback = "end" THEN phHandle' = FALSE /\ phTx' = PhNull
       ELSE UNCHANGED <<phHandle, phTx>>
    /\ UNCHANGED <<phUser, phPins, phOnSend, phPuts>>

PhNext ==
    \/ PhBegin \/ PhSetOnSend \/ PhTxComplete \/ PhEnd \/ PhCallbackReturns
    \/ \E m \in PhMessages : PhPut(m)

PhSpec == PhInit /\ [][PhNext]_phVars

(***************************************************************************)
(* Properties.                                                             *)
(***************************************************************************)

(* hdlc_ll sends only from pinned memory, also when on_send puts the next  *)
(* message, and no other message stays pinned: the only Py_buffer kept is  *)
(* user_buffer.  In the callback of end() the frame is not sent any more.  *)
PhPinned ==
    /\ phTx # PhNull /\ phCallback # "end" => phUser = phTx
    /\ \A m \in PhMessages : phPins[m] = IF phUser = m THEN 1 ELSE 0
=============================================================================
