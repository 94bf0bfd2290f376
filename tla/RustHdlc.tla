------------------------------ MODULE RustHdlc ------------------------------
(***************************************************************************)
(* The Rust port of the framing (proto/hdlc/low_level/mod.rs): Tx, a line  *)
(* without errors, and Rx.  It differs from hdlc.c in two places: a run of *)
(* plain bytes counts as sent when some of it fits into the output buffer, *)
(* and the checksum functions are handed a slice of one byte.              *)
(*                                                                         *)
(* The frames come from Tx, or from a C sender at the other end of the     *)
(* line.  An action is one call of a state function, or one byte sent by   *)
(* the C sender or received.                                               *)
(***************************************************************************)
EXTENDS Integers, Sequences

CONSTANTS
    RsFrames,       \* frames to send
    RsOutSizes,     \* sizes of the buffers passed to run_tx
    RsMtu,          \* init.mtu, not 0
    RsBufSize,      \* buf_size, with space for a frame
    RsMaxFrames,    \* bound on the frames put
    RsLineSize      \* bound on the bytes on the line

ASSUME RsAssumption ==
    /\ RsMtu \in Nat \ {0} /\ RsBufSize \in Nat /\ RsMtu + 1 <= RsBufSize
    /\ RsLineSize \in Nat /\ RsOutSizes \subseteq 1..RsLineSize /\ RsMaxFrames \in Nat
    /\ \A f \in RsFrames : f \in Seq(Nat) /\ Len(f) \in 1..RsMtu

RsFlag == 126           \* TINY_HDLC_FLAG_SEQUENCE
RsEscape == 125         \* TINY_HDLC_ESCAPE_CHAR
RsSpecial == {RsFlag, RsEscape}
RsFlip(b) == IF (b \div 32) % 2 = 0 THEN b + 32 ELSE b - 32     \* ^ TINY_HDLC_ESCAPE_BIT

VARIABLES
    rsCrc,      \* crc_type
    rsTx,       \* Tx: state, the frame, how much of it is sent, escape, and the
                \* bits of the checksum sent; a frame of <<>> for !send_in_progress
    rsRoom,     \* out_buffer_len
    rsOut,      \* positions of the frame whose bytes were put on the line
    rsPeer,     \* the C sender: its frame, how much of it is sent, escape
    rsLine,     \* bytes on the way
    rsRx,       \* Rx: state, the bytes in the frame buffer, its offset, escape
    rsSent,     \* frames put on the line, without what was passed over
    rsGot,      \* frames given to RxProcessor
    rsPuts,     \* frames put so far
    rsTorn,     \* a reset in the middle of a frame has happened
    rsPanic     \* the program has panicked

rsTxVars == <<rsTx, rsRoom, rsOut, rsPeer, rsPuts>>
rsVars == <<rsCrc, rsTxVars, rsLine, rsRx, rsSent, rsGot, rsTorn, rsPanic>>

(***************************************************************************)
(* Checksums.                                                              *)
(***************************************************************************)

(* get_crc_field_size *)
RsCrcField == [HdlcCrcOff |-> 0, HdlcCrc8 |-> 1]

(* sum_bytes takes as many bytes as it is told, of a slice that has one. *)
RsSumPanics(n) == rsCrc # "HdlcCrcOff" /\ n > 1

(* Crc8 of no byte or of one *)
RsCrc8(d) == 255 - (IF d = <<>> THEN 0 ELSE d[1])

RsPhysMtu == RsMtu + RsCrcField[rsCrc]

RsTxNew == [state |-> "start", frame |-> <<>>, sent |-> 0, escape |-> FALSE, bits |-> 0]

RsPeerIdle == [frame |-> <<>>, sent |-> 0, escape |-> FALSE]

RsInit ==
    /\ rsCrc \in DOMAIN RsCrcField
    /\ rsTx = RsTxNew /\ rsRoom = 0 /\ rsOut = <<>> /\ rsPeer = RsPeerIdle /\ rsPuts = 0
    /\ rsLine = <<>> /\ rsSent = <<>> /\ rsGot = <<>>
    /\ rsTorn = FALSE /\ rsPanic = FALSE
    /\ rsRx = [state |-> "start", buf |-> <<>>, active |-> 0, escape |-> FALSE]

(***************************************************************************)
(* Tx.                                                                     *)
(***************************************************************************)

(* put *)
RsPut ==
    /\ ~rsPanic /\ rsPuts < RsMaxFrames /\ rsTx.frame = <<>> /\ rsPeer = RsPeerIdle
    /\ \E f \in RsFrames : rsTx' = [rsTx EXCEPT !.frame = f, !.sent = 0]
    /\ rsOut' = <<>> /\ rsPuts' = rsPuts + 1
    /\ UNCHANGED <<rsCrc, rsPeer, rsRoom, rsLine, rsRx, rsSent, rsGot, rsTorn, rsPanic>>

(* run_tx is called with a buffer of n bytes. *)
RsRunTx ==
    /\ ~rsPanic /\ rsRoom = 0
    /\ \E n \in RsOutSizes : Len(rsLine) + n <= RsLineSize /\ rsRoom' = n
    /\ UNCHANGED <<rsCrc, rsTx, rsOut, rsPeer, rsPuts, rsLine, rsRx, rsSent, rsGot, rsTorn, rsPanic>>

RsSending(state) == ~rsPanic /\ rsRoom > 0 /\ rsTx.state = state

(* send_tx_internal, of bytes that fit *)
RsEmit(bytes) ==
    /\ rsLine' = rsLine \o bytes
    /\ rsRoom' = rsRoom - Len(bytes)

(* send_start; run_tx returns when there is no frame. *)
RsSendStart ==
    /\ RsSending("start")
    /\ rsPanic' = RsSumPanics(Len(rsTx.frame))
    /\ IF rsTx.frame = <<>> \/ rsPanic'
       THEN rsRoom' = 0 /\ UNCHANGED <<rsTx, rsLine>>
       ELSE /\ RsEmit(<<RsFlag>>)
            /\ rsTx' = [rsTx EXCEPT !.state = "data", !.escape = FALSE]
    /\ UNCHANGED <<rsCrc, rsOut, rsPeer, rsPuts, rsRx, rsSent, rsGot, rsTorn>>

(* The checksum follows the last byte, and counts its bits in len. *)
RsDataSent(sent, escape) ==
    [rsTx EXCEPT !.sent = sent, !.escape = escape, !.bits = 0,
                 !.state = IF sent = Len(rsTx.frame) THEN "crc" ELSE "data"]

RsRest == SubSeq(rsTx.frame, rsTx.sent + 1, Len(rsTx.frame))

(* pos: the plain bytes before the next special one. *)
RsRun ==
    CHOOSE n \in 0..Len(RsRest) :
        /\ \A i \in 1..n : RsRest[i] \notin RsSpecial
        /\ n < Len(RsRest) => RsRest[n + 1] \in RsSpecial

(* send_data of a run: data moves by pos, not by what fitted. *)
RsSendRun ==
    /\ RsSending("data") /\ RsRun > 0
    /\ LET fits == IF RsRun <= rsRoom THEN RsRun ELSE rsRoom
       IN /\ RsEmit(SubSeq(RsRest, 1, fits))
          /\ rsOut' = rsOut \o [i \in 1..fits |-> rsTx.sent + i]
    /\ rsTx' = RsDataSent(rsTx.sent + RsRun, rsTx.escape)
    /\ UNCHANGED <<rsCrc, rsPeer, rsPuts, rsRx, rsSent, rsGot, rsTorn, rsPanic>>

(* Mutant: the byte behind the escape is not flipped. *)
RsEscapedAsIs(b) == IF rsTx.escape THEN b ELSE RsEscape

(* A special byte is sent as the escape and, with the next call, flipped. *)
RsEscaped(b) == IF rsTx.escape THEN RsFlip(b) ELSE RsEscape

(* send_data of a special byte *)
RsSendSpecial ==
    /\ RsSending("data") /\ RsRun = 0
    /\ RsEmit(<<RsEscaped(Head(RsRest))>>)
    /\ rsTx' = RsDataSent(IF rsTx.escape THEN rsTx.sent + 1 ELSE rsTx.sent, ~rsTx.escape)
    /\ rsOut' = IF rsTx.escape THEN Append(rsOut, rsTx.sent + 1) ELSE rsOut
    /\ UNCHANGED <<rsCrc, rsPeer, rsPuts, rsRx, rsSent, rsGot, rsTorn, rsPanic>>

(* self.crc >> self.len: 32 bits are too many, which a debug build notices *)
(* and a release build takes for none.                                     *)
RsCrcByte == IF rsTx.bits = 0 THEN RsCrc8(rsTx.frame) ELSE 0

(* send_crc: the end is where the bits sent are as many as the bytes of    *)
(* the checksum, which is never but for none.                              *)
RsSendCrc ==
    /\ RsSending("crc") /\ rsTx.bits # RsCrcField[rsCrc]
    /\ LET plain == RsCrcByte \notin RsSpecial
           whole == plain \/ rsTx.escape
       IN /\ RsEmit(<<IF plain THEN RsCrcByte ELSE RsEscaped(RsCrcByte)>>)
          /\ rsTx' = [rsTx EXCEPT !.escape = IF plain THEN @ ELSE ~@,
                                  !.bits = IF whole THEN (@ + 8) % 32 ELSE @]
          /\ rsPanic' \in {FALSE, whole /\ rsTx.bits = 24}
    /\ UNCHANGED <<rsCrc, rsOut, rsPeer, rsPuts, rsRx, rsSent, rsGot, rsTorn>>

RsSendCrcDone ==
    /\ RsSending("crc") /\ rsTx.bits = RsCrcField[rsCrc]
    /\ rsTx' = [rsTx EXCEPT !.state = "end"]
    /\ UNCHANGED <<rsCrc, rsRoom, rsOut, rsPeer, rsPuts, rsLine, rsRx, rsSent, rsGot, rsTorn, rsPanic>>

(* The bytes of a frame at the given positions. *)
RsBytesAt(f, positions) == [k \in DOMAIN positions |-> f[positions[k]]]

(* send_end, with on_frame_send *)
RsSendEnd ==
    /\ RsSending("end")
    /\ RsEmit(<<RsFlag>>)
    /\ rsTx' = RsTxNew
    /\ rsSent' = Append(rsSent, RsBytesAt(rsTx.frame, rsOut))
    /\ UNCHANGED <<rsCrc, rsOut, rsPeer, rsPuts, rsRx, rsGot, rsTorn, rsPanic>>

(* A C sender at the other end: the frame and its checksum, escaped. *)
RsPeerBytes == IF rsCrc = "HdlcCrcOff" THEN rsPeer.frame ELSE Append(rsPeer.frame, RsCrc8(rsPeer.frame))

RsPeerStarts ==
    /\ ~rsPanic /\ rsPuts < RsMaxFrames /\ rsTx.frame = <<>> /\ rsPeer = RsPeerIdle
    /\ Len(rsLine) < RsLineSize
    /\ \E f \in RsFrames : /\ rsCrc = "HdlcCrcOff" \/ Len(f) = 1
                          /\ rsPeer' = [frame |-> f, sent |-> 0, escape |-> FALSE]
    /\ rsLine' = Append(rsLine, RsFlag) /\ rsPuts' = rsPuts + 1
    /\ UNCHANGED <<rsCrc, rsTx, rsRoom, rsOut, rsRx, rsSent, rsGot, rsTorn, rsPanic>>

RsPeerSending == ~rsPanic /\ rsPeer.frame # <<>> /\ Len(rsLine) < RsLineSize

RsPeerByte ==
    /\ RsPeerSending /\ rsPeer.sent < Len(RsPeerBytes)
    /\ LET b == RsPeerBytes[rsPeer.sent + 1]
           escape == b \in RsSpecial /\ ~rsPeer.escape
       IN /\ rsLine' = Append(rsLine, IF escape THEN RsEscape
                                      ELSE IF rsPeer.escape THEN RsFlip(b) ELSE b)
          /\ rsPeer' = [rsPeer EXCEPT !.escape = escape, !.sent = IF escape THEN @ ELSE @ + 1]
    /\ UNCHANGED <<rsCrc, rsTx, rsRoom, rsOut, rsPuts, rsRx, rsSent, rsGot, rsTorn, rsPanic>>

RsPeerEnds ==
    /\ RsPeerSending /\ rsPeer.sent = Len(RsPeerBytes)
    /\ rsLine' = Append(rsLine, RsFlag)
    /\ rsSent' = Append(rsSent, rsPeer.frame)
    /\ rsPeer' = RsPeerIdle
    /\ UNCHANGED <<rsCrc, rsTx, rsRoom, rsOut, rsPuts, rsRx, rsGot, rsTorn, rsPanic>>

(***************************************************************************)
(* Rx.                                                                     *)
(***************************************************************************)

(* read_start *)
RsReadStart(b) ==
    /\ rsRx.state = "start"
    /\ rsRx' = IF b = RsFlag THEN [rsRx EXCEPT !.state = "data", !.buf = <<>>, !.escape = FALSE]
               ELSE rsRx
    /\ UNCHANGED <<rsGot, rsPanic>>

(* read_data; a byte that finds no space is dropped. *)
RsReadData(b) ==
    /\ rsRx.state = "data" /\ b # RsFlag
    /\ rsRx' = IF b = RsEscape THEN [rsRx EXCEPT !.escape = TRUE]
               ELSE IF Len(rsRx.buf) < RsPhysMtu
               THEN [rsRx EXCEPT !.buf = Append(@, IF rsRx.escape THEN RsFlip(b) ELSE b),
                                 !.escape = FALSE]
               ELSE rsRx
    /\ UNCHANGED <<rsGot, rsPanic>>

(* frame_buf moves on, or back to the start when there is no space. *)
RsNextBuffer ==
    IF rsRx.active + 2 * RsPhysMtu > RsBufSize THEN 0 ELSE rsRx.active + RsPhysMtu

(* read_end, in the call that reads the flag *)
RsReadEnd(b) ==
    /\ rsRx.state = "data" /\ b = RsFlag
    /\ LET n == Len(rsRx.buf) - RsCrcField[rsCrc]
           payload == SubSeq(rsRx.buf, 1, n)
           empty == rsRx.buf = <<>>
           good == ~empty /\ n >= 0 /\ ~RsSumPanics(n)
                     /\ (rsCrc = "HdlcCrcOff" \/ rsRx.buf[Len(rsRx.buf)] = RsCrc8(payload))
       IN /\ rsPanic' = (~empty /\ RsSumPanics(n))
          /\ rsRx' = [rsRx EXCEPT !.escape = IF empty THEN FALSE ELSE @,
                                  !.state = IF empty THEN "data" ELSE "start",
                                  !.active = IF good THEN RsNextBuffer ELSE @]
          /\ rsGot' = IF good THEN Append(rsGot, payload) ELSE rsGot

(* run_rx handles the next byte. *)
RsRunRx ==
    /\ ~rsPanic /\ rsLine # <<>>
    /\ rsLine' = Tail(rsLine)
    /\ LET b == Head(rsLine) IN RsReadStart(b) \/ RsReadData(b) \/ RsReadEnd(b)
    /\ UNCHANGED <<rsCrc, rsTxVars, rsSent, rsTorn>>

(* Hdlc::reset of one side or both, between two calls. *)
RsReset ==
    /\ ~rsPanic /\ rsRoom = 0
    /\ \/ rsTx' = [rsTx EXCEPT !.escape = FALSE, !.frame = <<>>, !.state = "start"] /\ rsRx' = rsRx
       \/ rsRx' = [rsRx EXCEPT !.escape = FALSE, !.state = "start"] /\ rsTx' = rsTx
    /\ rsTorn' = (rsTorn \/ rsTx.state # "start" \/ rsPeer # RsPeerIdle
                        \/ rsLine # <<>> \/ rsRx.state # "start")
    /\ UNCHANGED <<rsCrc, rsRoom, rsOut, rsPeer, rsPuts, rsLine, rsSent, rsGot, rsPanic>>

RsNext ==
    \/ RsPut \/ RsRunTx \/ RsSendStart \/ RsSendRun \/ RsSendSpecial
    \/ RsSendCrc \/ RsSendCrcDone \/ RsSendEnd
    \/ RsPeerStarts \/ RsPeerByte \/ RsPeerEnds
    \/ RsRunRx \/ RsReset

RsSpec == RsInit /\ [][RsNext]_rsVars

(***************************************************************************)
(* Property.                                                               *)
(***************************************************************************)

(* Short output buffers cost the port payload, never framing: whatever     *)
(* bytes are escaped and wherever run_tx stops, each frame arrives once,   *)
(* in order, and lacks only the ends of plain runs that did not fit, at    *)
(* least their first byte being there.  A frame reported by on_frame_send  *)
(* with one byte missing and no checksum would look like a good one.  And  *)
(* the receive buffers stay inside buf.                                    *)
RsDelivers ==
    /\ rsLine = <<>> /\ ~rsTorn /\ ~rsPanic => rsGot = rsSent
    /\ rsRx.active + RsPhysMtu <= RsBufSize
    /\ rsTx.frame # <<>> =>
        /\ \A j, k \in DOMAIN rsOut : j < k => rsOut[j] < rsOut[k]
        /\ \A i \in 1..rsTx.sent :
              \/ \E k \in DOMAIN rsOut : rsOut[k] = i
              \/ i > 1 /\ {rsTx.frame[i - 1], rsTx.frame[i]} \cap RsSpecial = {}
=============================================================================
