------------------------------- MODULE HdlcLL -------------------------------
(***************************************************************************)
(* The framing of proto/hdlc/low_level/hdlc.c: a sender that turns frames   *)
(* into bytes (flags, escapes, checksum) for output buffers of any size, a  *)
(* byte line, and the receiver that finds the frames again.                 *)
(*                                                                          *)
(* Sender: an action is one call of the state function tx.state inside the  *)
(* loop of hdlc_ll_run_tx; `room' is what is left of the output buffer, 0   *)
(* between two calls.  Receiver: an action handles one byte; the loop of    *)
(* hdlc_ll_run_rx runs hdlc_ll_read_end in the same call as the flag that   *)
(* ends the frame, so it is part of that byte's action, and a caller that   *)
(* gets fewer bytes back than it passed calls again (tiny_fd_on_rx_data).   *)
(*                                                                          *)
(* Bytes are the real ones.  The line may lose, change and insert bytes.    *)
(***************************************************************************)
EXTENDS Integers, SequencesExt

CONSTANTS
  Frames,      \* the frames the user sends
  CrcLen,      \* bytes of the checksum: 0 (HDLC_CRC_OFF), 1 (HDLC_CRC_8), 2
  Mtu,         \* init->mtu
  BufSize,     \* rx_buf_size
  OutSizes,    \* sizes of the buffers passed to hdlc_ll_run_tx
  NoiseBytes,  \* bytes that noise produces
  MaxFrames,   \* bound: frames accepted by hdlc_ll_put_frame
  MaxDamages,  \* bound: damaged bytes and resets
  LineSize     \* bound: bytes on the line

FLAG_SEQUENCE    == 126
TINY_ESCAPE_CHAR == 125
TINY_ESCAPE_BIT  == 32
Special == {FLAG_SEQUENCE, TINY_ESCAPE_CHAR}
Bytes   == 0 .. 255

\* phys_mtu: the size of one frame buffer in rx_buf.
PhysMtu == Mtu + CrcLen

ASSUME FramingAssumption ==
  /\ CrcLen \in 0 .. 2 /\ Mtu \in Nat \ {0} /\ BufSize >= PhysMtu
  /\ \A f \in Frames : f \in Seq(Bytes) /\ Len(f) \in 1 .. Mtu
  /\ OutSizes \subseteq 1 .. LineSize
  /\ NoiseBytes \subseteq Bytes

VARIABLES
  tx,         \* handle->tx: state, origin_data (<<>> for NULL), how much of data
              \* is sent, escape, how many bytes of crc are sent
  room,       \* handle->tx.out_buffer_len
  line,       \* bytes on the way
  rx,         \* handle->rx: state, the bytes in the frame buffer, escape, and
              \* the offset of active_frame_buf in rx_buf
  delivered,  \* frames given to on_frame_read
  intact,     \* frames given to on_frame_send that were put after the last damage
  tainted,    \* the frame under transmission was put before the last damage
  accepted, damages     \* how much of the bounds is used up

vars == <<tx, room, line, rx, delivered, intact, tainted, accepted, damages>>

\* byte ^ TINY_ESCAPE_BIT
Flip(b) == IF (b \div TINY_ESCAPE_BIT) % 2 = 0 THEN b + TINY_ESCAPE_BIT ELSE b - TINY_ESCAPE_BIT

\* tiny_chksum; with two bytes it stands in for tiny_crc16.  The low byte first.
Checksum(d) == 65535 - (FoldLeft(LAMBDA sum, b : sum + b, 0, d) % 65536)
CrcByte(d, k) == (Checksum(d) \div (IF k = 1 THEN 1 ELSE 256)) % 256
Crc(d) == [k \in 1 .. CrcLen |-> CrcByte(d, k)]

TxReset == [state |-> "start", frame |-> <<>>, sent |-> 0, escape |-> FALSE, crc_sent |-> 0]
Init ==
  /\ tx = TxReset /\ room = 0
  /\ line = <<>>
  /\ rx = [state |-> "start", buf |-> <<>>, escape |-> FALSE, active |-> 0]
  /\ delivered = <<>> /\ intact = <<>> /\ tainted = FALSE
  /\ accepted = 0 /\ damages = 0

-----------------------------------------------------------------------------
(* The sender *)

\* hdlc_ll_put_frame; TINY_ERR_BUSY while a frame is under transmission.
PutFrame(f) ==
  /\ accepted < MaxFrames
  /\ tx.frame = <<>>
  /\ tx' = [tx EXCEPT !.frame = f, !.sent = 0]
  /\ accepted' = accepted + 1
  /\ tainted' = FALSE
  /\ UNCHANGED <<room, line, rx, delivered, intact, damages>>

\* hdlc_ll_run_tx is called with a buffer of n bytes.
RunTx(n) ==
  /\ room = 0
  /\ Len(line) + n <= LineSize
  /\ room' = n
  /\ UNCHANGED <<tx, line, rx, delivered, intact, tainted, accepted, damages>>

\* hdlc_ll_send_tx_internal, of bytes that fit.
Emit(bytes) ==
  /\ line' = line \o bytes
  /\ room' = room - Len(bytes)

\* hdlc_ll_send_start; without a frame hdlc_ll_run_tx returns.
SendStart ==
  /\ room > 0 /\ tx.state = "start"
  /\ IF tx.frame = <<>>
       THEN tx' = tx /\ room' = 0 /\ line' = line
       ELSE /\ Emit(<<FLAG_SEQUENCE>>)
            /\ tx' = [tx EXCEPT !.state = "data", !.escape = FALSE]
  /\ UNCHANGED <<rx, delivered, intact, tainted, accepted, damages>>

\* The state after `sent' bytes of the frame.
DataOrCrc(sent) == IF sent = Len(tx.frame) THEN "crc" ELSE "data"

\* hdlc_ll_send_data, a run of k plain bytes, cut where the buffer ends.
SendPlain(k) ==
  LET rest == SubSeq(tx.frame, tx.sent + 1, Len(tx.frame))
  IN  /\ room > 0 /\ tx.state = "data"
      /\ k \in 1 .. Len(rest) /\ k <= room
      /\ \A j \in 1 .. k : rest[j] \notin Special
      /\ k < room /\ k < Len(rest) => rest[k + 1] \in Special
      /\ Emit(SubSeq(rest, 1, k))
      /\ tx' = [tx EXCEPT !.sent = @ + k, !.state = DataOrCrc(tx.sent + k)]
      /\ UNCHANGED <<rx, delivered, intact, tainted, accepted, damages>>

\* Mutant: the escape flag is forgotten at the end of a buffer.
EscapedForgets(b) == IF tx.escape /\ room > 1 THEN Flip(b) ELSE TINY_ESCAPE_CHAR

\* What is sent for a special byte: the escape character, then the byte flipped.
Escaped(b) == IF tx.escape THEN Flip(b) ELSE TINY_ESCAPE_CHAR

\* hdlc_ll_send_data, a special byte.
SendSpecial ==
  LET sent == IF tx.escape THEN tx.sent + 1 ELSE tx.sent
  IN  /\ room > 0 /\ tx.state = "data"
      /\ tx.frame[tx.sent + 1] \in Special
      /\ Emit(<<Escaped(tx.frame[tx.sent + 1])>>)
      /\ tx' = [tx EXCEPT !.escape = ~@, !.sent = sent, !.state = DataOrCrc(sent)]
      /\ UNCHANGED <<rx, delivered, intact, tainted, accepted, damages>>

\* hdlc_ll_send_crc: one byte, or the escape character before it.
SendCrc ==
  LET byte == CrcByte(tx.frame, tx.crc_sent + 1)
  IN  /\ room > 0 /\ tx.state = "crc" /\ tx.crc_sent < CrcLen
      /\ IF byte \notin Special
           THEN Emit(<<byte>>) /\ tx' = [tx EXCEPT !.crc_sent = @ + 1]
           ELSE /\ Emit(<<Escaped(byte)>>)
                /\ tx' = [tx EXCEPT !.escape = ~@,
                                    !.crc_sent = IF tx.escape THEN @ + 1 ELSE @]
      /\ UNCHANGED <<rx, delivered, intact, tainted, accepted, damages>>

\* hdlc_ll_send_crc with the whole checksum sent.
SendCrcDone ==
  /\ room > 0 /\ tx.state = "crc" /\ tx.crc_sent = CrcLen
  /\ tx' = [tx EXCEPT !.state = "end"]
  /\ UNCHANGED <<room, line, rx, delivered, intact, tainted, accepted, damages>>

\* hdlc_ll_send_end, with on_frame_send.
SendEnd ==
  /\ room > 0 /\ tx.state = "end"
  /\ Emit(<<FLAG_SEQUENCE>>)
  /\ tx' = TxReset
  /\ intact' = IF tainted THEN intact ELSE Append(intact, SubSeq(tx.frame, 1, tx.sent))
  /\ UNCHANGED <<rx, delivered, tainted, accepted, damages>>

-----------------------------------------------------------------------------
(* The receiver *)

\* hdlc_ll_read_start
ReadStart(b) ==
  /\ rx.state = "start"
  /\ rx' = IF b = FLAG_SEQUENCE
             THEN [rx EXCEPT !.state = "data", !.buf = <<>>, !.escape = FALSE] ELSE rx
  /\ UNCHANGED delivered

\* hdlc_ll_read_data: a byte that finds no space is dropped and leaves rx.escape.
ReadData(b) ==
  /\ rx.state = "data" /\ b # FLAG_SEQUENCE
  /\ rx' = CASE b = TINY_ESCAPE_CHAR -> [rx EXCEPT !.escape = TRUE]
             [] b # TINY_ESCAPE_CHAR /\ Len(rx.buf) < PhysMtu ->
                  [rx EXCEPT !.buf = Append(@, IF rx.escape THEN Flip(b) ELSE b),
                             !.escape = FALSE]
             [] OTHER -> rx
  /\ UNCHANGED delivered

\* Mutant: after an empty frame the next flag is taken for a start.
ReadAlignmentRestarts(b) ==
  /\ rx.state = "data" /\ b = FLAG_SEQUENCE
  /\ rx.buf = <<>>
  /\ rx' = [rx EXCEPT !.escape = FALSE, !.state = "start"]
  /\ UNCHANGED delivered

\* hdlc_ll_read_end of an empty frame: "frame alignment is wrong", the flag was
\* the start of a frame.
ReadAlignment(b) ==
  /\ rx.state = "data" /\ b = FLAG_SEQUENCE
  /\ rx.buf = <<>>
  /\ rx' = [rx EXCEPT !.escape = FALSE]
  /\ UNCHANGED delivered

\* The next frame buffer in rx_buf.
NextBuffer == IF rx.active + 2 * PhysMtu > BufSize THEN 0 ELSE rx.active + PhysMtu

Payload  == SubSeq(rx.buf, 1, Len(rx.buf) - CrcLen)
CrcField == SubSeq(rx.buf, Len(rx.buf) - CrcLen + 1, Len(rx.buf))
CrcMatches == Len(rx.buf) >= CrcLen /\ CrcField = Crc(Payload)

\* hdlc_ll_read_end: TINY_ERR_WRONG_CRC, or on_frame_read.
ReadEnd(b) ==
  /\ rx.state = "data" /\ b = FLAG_SEQUENCE
  /\ rx.buf # <<>>
  /\ IF CrcMatches
       THEN /\ delivered' = Append(delivered, Payload)
            /\ rx' = [rx EXCEPT !.state = "start", !.active = NextBuffer]
       ELSE delivered' = delivered /\ rx' = [rx EXCEPT !.state = "start"]

\* hdlc_ll_run_rx handles the next byte.
RunRx ==
  /\ line # <<>>
  /\ line' = Tail(line)
  /\ LET b == Head(line) IN ReadStart(b) \/ ReadData(b) \/ ReadAlignment(b) \/ ReadEnd(b)
  /\ UNCHANGED <<tx, room, intact, tainted, accepted, damages>>

-----------------------------------------------------------------------------
(* The line and the resets *)

Damaged ==
  /\ damages < MaxDamages /\ damages' = damages + 1
  /\ intact' = <<>>

\* The next byte is lost, changed, or has another one before it.
Noise ==
  /\ Damaged
  /\ \/ line # <<>> /\ line' = Tail(line)
     \/ \E b \in NoiseBytes : line # <<>> /\ line' = <<b>> \o Tail(line)
     \/ \E b \in NoiseBytes : Len(line) < LineSize /\ line' = <<b>> \o line
  /\ tainted' = (tx.frame # <<>>)
  /\ UNCHANGED <<tx, room, rx, delivered, accepted>>

\* hdlc_ll_reset( HDLC_LL_RESET_TX_ONLY ), between two calls of hdlc_ll_run_tx.
ResetTx ==
  /\ Damaged
  /\ room = 0 /\ tx.frame # <<>>
  /\ tx' = TxReset
  /\ tainted' = FALSE
  /\ UNCHANGED <<room, line, rx, delivered, accepted>>

\* hdlc_ll_reset( HDLC_LL_RESET_RX_ONLY )
ResetRx ==
  /\ Damaged
  /\ rx' = [rx EXCEPT !.state = "start"]
  /\ tainted' = (tx.frame # <<>>)
  /\ UNCHANGED <<tx, room, line, delivered, accepted>>

Next ==
  \/ \E f \in Frames : PutFrame(f)
  \/ \E n \in OutSizes : RunTx(n)
  \/ SendStart
  \/ \E k \in 1 .. Mtu : SendPlain(k)
  \/ SendSpecial
  \/ SendCrc
  \/ SendCrcDone
  \/ SendEnd
  \/ RunRx
  \/ Noise
  \/ ResetTx
  \/ ResetRx

Spec == Init /\ [][Next]_vars

-----------------------------------------------------------------------------
(* Properties *)

\* On a line without damage, whatever the contents of the frames and wherever the
\* output buffers cut the stream, the receiver has delivered exactly the frames
\* reported to on_frame_send once it has read all bytes.
Transparent == damages = 0 /\ line = <<>> => delivered = intact

\* After lost, changed or inserted bytes, or an aborted frame, at most one intact
\* frame is lost: the ones after it are delivered, and nothing comes after them.
Resynchronises == line = <<>> /\ intact # <<>> => IsSuffix(Tail(intact), delivered)
=============================================================================
