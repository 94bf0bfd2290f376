----------------------------- MODULE TinyLight ------------------------------
(***************************************************************************)
(* The light protocol (proto/light/tiny_light.c and its C++ class): one    *)
(* blocking call sends a frame byte by byte, another reads one, each with  *)
(* a limit of 1000 ms.  The framing is that of HdlcLL; here a byte is a    *)
(* pair <<frame, index>>, the flag is LtFlag, and the checksum is taken to *)
(* accept exactly the complete frames.                                     *)
(***************************************************************************)
EXTENDS Naturals, Sequences, FiniteSets

CONSTANTS
    LtScenarios,    \* records: reader's buffers, and how many failures of each kind
    LtBytes,        \* bytes of a frame between its flags
    LtMaxSends      \* bound on the frames sent

ASSUME LtAssumption ==
    /\ LtBytes \in Nat \ {0} /\ LtMaxSends \in Nat
    /\ \A c \in LtScenarios :
        c.buffers # {} /\ {c.timeouts, c.writeErrors, c.readErrors} \subseteq Nat

LtFlag == <<0, 0>>
LtNoFrame == [frame |-> 0, pos |-> 0]
LtComplete(buf) == \E f \in 1..LtMaxSends : buf = [k \in 1..LtBytes |-> <<f, k>>]

VARIABLES
    ltSetup,    \* the scenario
    ltTx,       \* tx.origin_data and the next byte of the frame
    ltSending,  \* the frame of the tiny_light_send in progress, 0 when none
    ltSends,    \* frames handed to tiny_light_send
    ltLine,     \* bytes written and not yet read
    ltRx,       \* the receiver: state, bytes stored, the buffer rx.ptr points into
    ltReading,  \* the buffer of the tiny_light_read in progress, <<>> when none
    ltOk,       \* frames for which tiny_light_send returned their length
    ltOut,      \* frames whose last byte was written
    ltGot,      \* frames returned by tiny_light_read
    ltFaults    \* timeouts and failures so far, by kind

ltVars == <<ltSetup, ltTx, ltSending, ltSends, ltLine, ltRx, ltReading, ltOk, ltOut, ltGot,
            ltFaults>>

(* tiny_light_init on both sides. *)
LtInit ==
    /\ ltSetup \in LtScenarios
    /\ ltTx = LtNoFrame /\ ltSending = 0 /\ ltSends = 0
    /\ ltLine = <<>>
    /\ ltRx = [state |-> "start", buf |-> <<>>, owner |-> <<>>]
    /\ ltReading = <<>>
    /\ ltOk = {} /\ ltOut = {} /\ ltGot = <<>>
    /\ ltFaults = [timeouts |-> 0, writeErrors |-> 0, readErrors |-> 0]

(* One more fault of this kind happens. *)
LtFault(kind) ==
    /\ ltFaults[kind] < ltSetup[kind]
    /\ ltFaults' = [ltFaults EXCEPT ![kind] = @ + 1]
    /\ UNCHANGED ltSetup

(***************************************************************************)
(* tiny_light_send.                                                        *)
(***************************************************************************)

(* hdlc_ll_put_frame; its TINY_ERR_BUSY is ignored. *)
LtSend ==
    /\ ltSending = 0 /\ ltSends < LtMaxSends
    /\ ltSends' = ltSends + 1
    /\ ltSending' = ltSends + 1
    /\ ltTx' = IF ltTx = LtNoFrame THEN [frame |-> ltSends + 1, pos |-> 0] ELSE ltTx
    /\ UNCHANGED <<ltSetup, ltLine, ltRx, ltReading, ltOk, ltOut, ltGot, ltFaults>>

(* hdlc_ll_run_tx with a one-byte buffer: the byte, and the state after it. *)
LtByte == IF ltTx.pos \in 1..LtBytes THEN <<ltTx.frame, ltTx.pos>> ELSE LtFlag
LtEnds == ltTx.pos = LtBytes + 1
LtAdvance == IF LtEnds THEN LtNoFrame ELSE [ltTx EXCEPT !.pos = @ + 1]

(* The byte is written; the last one ends the loop. *)
LtWrite ==
    /\ ltSending # 0 /\ ltTx # LtNoFrame
    /\ ltLine' = Append(ltLine, LtByte)
    /\ ltTx' = LtAdvance
    /\ ltSending' = IF LtEnds THEN 0 ELSE ltSending
    /\ ltOk' = IF LtEnds THEN ltOk \cup {ltSending} ELSE ltOk
    /\ ltOut' = IF LtEnds THEN ltOut \cup {ltTx.frame} ELSE ltOut
    /\ UNCHANGED <<ltSetup, ltSends, ltRx, ltReading, ltGot, ltFaults>>

(* write_func fails: the byte is lost, the frame stays in the state machine. *)
LtWriteError ==
    /\ ltSending # 0 /\ ltTx # LtNoFrame
    /\ LtFault("writeErrors")
    /\ ltTx' = LtAdvance
    /\ ltSending' = 0
    /\ UNCHANGED <<ltSends, ltLine, ltRx, ltReading, ltOk, ltOut, ltGot>>

(* hdlc_ll_reset(HDLC_LL_RESET_TX_ONLY) *)
LtGiveUp == LtNoFrame

(* 1000 ms are over, with the byte written or not: TINY_ERR_TIMEOUT. *)
LtWriteTimeout ==
    /\ ltSending # 0 /\ ltTx # LtNoFrame
    /\ LtFault("timeouts")
    /\ \/ ltLine' = ltLine /\ ltOut' = ltOut
       \/ /\ ltLine' = Append(ltLine, LtByte)
          /\ ltOut' = IF LtEnds THEN ltOut \cup {ltTx.frame} ELSE ltOut
    /\ ltTx' = LtGiveUp
    /\ ltSending' = 0
    /\ UNCHANGED <<ltSends, ltRx, ltReading, ltOk, ltGot>>

(***************************************************************************)
(* tiny_light_read.                                                        *)
(***************************************************************************)

(* The caller's buffer becomes the frame buffer; rx.ptr is left alone. *)
LtRead(b) ==
    /\ ltReading = <<>> /\ b \in ltSetup.buffers
    /\ ltReading' = <<b>>
    /\ UNCHANGED <<ltSetup, ltTx, ltSending, ltSends, ltLine, ltRx, ltOk, ltOut, ltGot, ltFaults>>

(* Mutant: an empty frame sends the receiver back to look for a start flag. *)
LtAlignmentRestarts == [ltRx EXCEPT !.state = "start"]

(* Two flags in a row: the second one is taken as the start. *)
LtAlignment == ltRx

(* hdlc_ll_run_rx of one byte, the closing flag's hdlc_ll_read_end         *)
(* included.  A frame ends the call, with its length or with an error.     *)
LtReadByte ==
    /\ ltReading # <<>> /\ ltLine # <<>>
    /\ ltLine' = Tail(ltLine)
    /\ LET flag == Head(ltLine) = LtFlag
           opens == flag /\ ltRx.state = "start"
           closes == flag /\ ltRx.state = "data"
           empty == ltRx.buf = <<>> /\ ltRx.owner = ltReading
           good == LtComplete(ltRx.buf) /\ ltRx.owner = ltReading
       IN /\ ltRx' = CASE opens -> [state |-> "data", buf |-> <<>>, owner |-> ltReading]
                       [] closes /\ empty -> LtAlignment
                       [] closes /\ ~empty -> [ltRx EXCEPT !.state = "start", !.buf = <<>>]
                       [] ~flag /\ ltRx.state = "data" ->
                            [ltRx EXCEPT !.buf = Append(@, Head(ltLine))]
                       [] OTHER -> ltRx
          /\ ltReading' = IF closes /\ ~empty THEN <<>> ELSE ltReading
          /\ ltGot' = IF closes /\ ~empty /\ good THEN Append(ltGot, ltRx.buf[1][1]) ELSE ltGot
    /\ UNCHANGED <<ltSetup, ltTx, ltSending, ltSends, ltOk, ltOut, ltFaults>>

(* read_func fails: the receiver keeps its state. *)
LtReadError ==
    /\ ltReading # <<>>
    /\ LtFault("readErrors")
    /\ ltReading' = <<>>
    /\ UNCHANGED <<ltTx, ltSending, ltSends, ltLine, ltRx, ltOk, ltOut, ltGot>>

(* Mutant: the timeout does not reset the receiver. *)
LtRxGiveUpKeeps == ltRx

(* hdlc_ll_reset(HDLC_LL_RESET_RX_ONLY) *)
LtRxGiveUp == [ltRx EXCEPT !.state = "start", !.buf = <<>>]

LtReadTimeout ==
    /\ ltReading # <<>>
    /\ LtFault("timeouts")
    /\ ltRx' = LtRxGiveUp
    /\ ltReading' = <<>>
    /\ UNCHANGED <<ltTx, ltSending, ltSends, ltLine, ltOk, ltOut, ltGot>>

LtNext ==
    \/ LtSend \/ LtWrite \/ LtWriteError \/ LtWriteTimeout
    \/ (\E b \in ltSetup.buffers : LtRead(b)) \/ LtReadByte \/ LtReadError \/ LtReadTimeout

LtSpec == LtInit /\ [][LtNext]_ltVars

(***************************************************************************)
(* Properties.                                                             *)
(***************************************************************************)

LtWriteFailed == ltFaults.writeErrors > 0

(* The receiver writes only into the buffer of the call it runs in, with   *)
(* read timeouts in the middle of a frame and a new buffer for every call. *)
LtOwnBuffer ==
    ltReading # <<>> /\ ltRx.state = "data" => ltRx.owner = ltReading

(* A frame tiny_light_send reports as sent went out whole, also after      *)
(* earlier sends ran into the time limit; and once the line is read out,   *)
(* the frames reported and not received are no more than the timeouts and  *)
(* failures met, for a torn frame costs at most the one after it.  A       *)
(* failing write_func breaks both: the next call finishes the old frame    *)
(* and reports the new one.                                                *)
LtLossBounded ==
    ~LtWriteFailed =>
        /\ ltOk \subseteq ltOut
        /\ ltLine = <<>> =>
              Cardinality({f \in ltOk : \A i \in DOMAIN ltGot : ltGot[i] # f})
                  <= ltFaults.timeouts + ltFaults.readErrors
=============================================================================
