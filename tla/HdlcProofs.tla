----------------------------- MODULE HdlcProofs -----------------------------
(***************************************************************************)
(* The two layers that hand one frame slot from sender to sender with an   *)
(* event bit: hdlc_put with TX_ACCEPT_BIT (HdlcHigh), and put() of         *)
(* IHdlcLinkLayer with TX_QUEUE_FREE (HdlcLink).  Both proofs follow the   *)
(* bit as a token: it is in the events, or with the one sender that took   *)
(* it, or in the frame slot, or with the pump that has just emptied it.    *)
(*                                                                         *)
(* Then the framing under them (HdlcLL): what is sent arrives, and after   *)
(* damage the receiver is back in step within one frame.  Last, the Rust   *)
(* port of it (RustHdlc), whose receiver is always on its way to where     *)
(* the senders want it.                                                    *)
(***************************************************************************)
EXTENDS HdlcLL, HdlcHigh, HdlcLink, RustHdlc, SequenceTheorems, FiniteSetTheorems,
        WellFoundedInduction, TLAPS

-----------------------------------------------------------------------------
(* HdlcHigh *)

HhPcs == {"idle", "accept", "put", "sent", "drive"}

HhFrames == {<<s, n>> : s \in HhSenders, n \in Nat}
HhCallType ==
    /\ hhCall \in [HhSenders -> [pc : HhPcs, timeout : HhTimeouts, frame : {<<>>} \cup HhFrames]]
    /\ \A s \in HhSenders : hhCall[s].frame # <<>> => hhCall[s].frame[1] = s

HhTxType ==
    hhTx = HhNone \/ \E n \in Nat : hhTx.frame # <<>> /\ hhTx = [frame |-> hhTx.frame, left |-> n]

HhTypes ==
    /\ HhTxType
    /\ hhPump \in {"loop", "sent", "accept"}
    /\ HhCallType
    /\ hhSends \in [HhSenders -> Nat]

(* TX_ACCEPT_BIT is in one place. *)
HhToken ==
    /\ "ACCEPT" \in hhEvents =>
         hhTx = HhNone /\ hhPump = "loop" /\ \A s \in HhSenders : hhCall[s].pc # "put"
    /\ \A s \in HhSenders : hhCall[s].pc = "put" =>
         hhTx = HhNone /\ hhPump = "loop" /\ \A r \in HhSenders \ {s} : hhCall[r].pc # "put"
    /\ hhPump # "loop" => hhTx = HhNone

(* A sender that moves the bytes itself finds its own frame in the slot. *)
HhDrivesOwn ==
    \A s \in HhSenders :
        /\ hhCall[s].pc \in {"accept", "put"} => hhCall[s].frame # <<>>
        /\ hhCall[s].pc = "drive" =>
             ~hhSetup.multithread /\ hhCall[s].frame # <<>> /\ hhTx.frame = hhCall[s].frame

HhInv == HhTypes /\ HhToken /\ HhDrivesOwn

LEMMA HhStart == HhInit => HhInv
<1> SUFFICES ASSUME HhInit PROVE HhInv
    OBVIOUS
<1>1. HhTypes
    BY DEF HhInit, HhTypes, HhTxType, HhCallType, HhIdle, HhPcs, HhTimeouts
<1>2. HhToken /\ HhDrivesOwn
    BY DEF HhInit, HhToken, HhDrivesOwn, HhIdle
<1> QED
    BY <1>1, <1>2 DEF HhInv

(* What a step of one sender does to the positions of all. *)
LEMMA HhGotoCall ==
    ASSUME HhCallType, NEW s \in HhSenders, NEW pc \in HhPcs, HhGoto(s, pc), HhSenders' = HhSenders
    PROVE  /\ HhCallType'
           /\ hhCall'[s].pc = pc /\ hhCall'[s].frame = hhCall[s].frame
           /\ \A r \in HhSenders \ {s} : hhCall'[r] = hhCall[r]
<1>1. /\ hhCall' \in [HhSenders -> [pc : HhPcs, timeout : HhTimeouts, frame : {<<>>} \cup HhFrames]]
      /\ hhCall'[s].pc = pc /\ hhCall'[s].frame = hhCall[s].frame
      /\ \A r \in HhSenders \ {s} : hhCall'[r] = hhCall[r]
    BY DEF HhCallType, HhGoto
<1> QED
    BY <1>1 DEF HhCallType, HhFrames

LEMMA HhIdleCall ==
    ASSUME HhCallType, NEW s \in HhSenders, hhCall' = [hhCall EXCEPT ![s] = HhIdle],
           HhSenders' = HhSenders
    PROVE  /\ HhCallType'
           /\ hhCall'[s].pc = "idle"
           /\ \A r \in HhSenders \ {s} : hhCall'[r] = hhCall[r]
<1>1. HhIdle \in [pc : HhPcs, timeout : HhTimeouts, frame : {<<>>} \cup HhFrames]
    BY DEF HhIdle, HhPcs, HhTimeouts
<1> QED
    BY <1>1 DEF HhCallType, HhIdle, HhFrames

LEMMA HhSendCall ==
    ASSUME HhTypes, NEW s \in HhSenders, NEW timeout \in HhTimeouts, NEW retry \in BOOLEAN,
           HhSend(s, timeout, retry), HhSenders' = HhSenders
    PROVE  /\ HhCallType'
           /\ hhCall'[s].pc = IF retry THEN HhWaitPc ELSE "accept"
           /\ hhCall'[s].frame # <<>>
           /\ retry => hhCall'[s].frame = hhTx.frame
           /\ \A r \in HhSenders \ {s} : hhCall'[r] = hhCall[r]
<1> USE DEF HhTypes, HhCallType, HhFrames
<1>1. CASE retry
    <2>1. hhCall' = [hhCall EXCEPT ![s] =
             [pc |-> HhWaitPc, timeout |-> timeout, frame |-> hhCall[s].frame]]
        BY <1>1 DEF HhSend
    <2>2. HhWaitPc \in HhPcs /\ hhCall[s].frame # <<>> /\ hhCall[s].frame = hhTx.frame
        BY <1>1 DEF HhSend, HhWaitPc, HhPcs
    <2> QED
        BY <1>1, <2>1, <2>2
<1>2. CASE ~retry
    <2>1. hhCall' = [hhCall EXCEPT ![s] =
             [pc |-> "accept", timeout |-> timeout, frame |-> <<s, hhSends[s]>>]]
        BY <1>2 DEF HhSend
    <2>2. "accept" \in HhPcs /\ <<s, hhSends[s]>> \in HhFrames
        BY DEF HhPcs
    <2> QED
        BY <1>2, <2>1, <2>2
<1> QED
    BY <1>1, <1>2

(* A frame in the slot is not HhNone, however many of its bytes are left. *)
LEMMA HhTxFacts ==
    ASSUME HhTxType
    PROVE  /\ hhTx = HhNone <=> hhTx.frame = <<>>
           /\ hhTx.left \in Nat
           /\ hhTx = HhNone => hhTx.left = 0
           /\ \A n \in Nat : hhTx # HhNone => [hhTx EXCEPT !.left = n].frame # <<>>
                                            /\ [hhTx EXCEPT !.left = n] # HhNone
                                            /\ [hhTx EXCEPT !.left = n].frame = hhTx.frame
           /\ \A n \in Nat : hhTx # HhNone => [hhTx EXCEPT !.left = n]
                                              = [frame |-> hhTx.frame, left |-> n]
           /\ hhTx = HhNone => [hhTx EXCEPT !.left = 0] = HhNone
BY DEF HhTxType, HhNone

(* A step that takes bytes from a frame, or nothing. *)
LEMMA HhByteStep ==
    ASSUME HhInv, NEW n \in Nat, hhTx # HhNone, hhTx' = [hhTx EXCEPT !.left = n],
           UNCHANGED <<hhSetup, hhEvents, hhPump, hhCall, hhSends>>
    PROVE  HhInv'
<1>1. HhTxType' /\ hhTx'.frame = hhTx.frame
    BY HhTxFacts DEF HhInv, HhTypes, HhTxType
<1> QED
    BY <1>1 DEF HhInv, HhTypes, HhCallType, HhToken, HhDrivesOwn, HhSenders, HhFrames

LEMMA HhPumpKeeps ==
    ASSUME HhInv, HhPumpStep \/ HhRunTxError
    PROVE  HhInv'
<1>1. CASE HhRunTx \/ HhRunTxError
    <2>1. hhTx.left \in Nat /\ hhTx.left > 0
        BY <1>1, HhTxFacts DEF HhRunTx, HhRunTxError, HhInv, HhTypes
    <2>2. hhTx # HhNone /\ hhTx.left - 1 \in Nat /\ hhTx' = [hhTx EXCEPT !.left = hhTx.left - 1]
        BY <1>1, <2>1, HhTxFacts DEF HhRunTx, HhRunTxError, HhInv, HhTypes
    <2> QED
        BY <1>1, <2>2, HhByteStep DEF HhRunTx, HhRunTxError
<1>2. CASE HhFrameOut
    <2>1. HhSenders' = HhSenders /\ \A s \in HhSenders : hhCall[s].pc # "drive"
        BY <1>2 DEF HhFrameOut, HhMayPump, HhAllIdle, HhInv, HhDrivesOwn, HhSenders
    <2> QED
        BY <1>2, <2>1 DEF HhFrameOut, HhInv, HhTypes, HhTxType, HhCallType, HhToken,
           HhDrivesOwn, HhFrames
<1>3. CASE HhSetSent \/ HhSetAccept
    BY <1>3 DEF HhSetSent, HhSetAccept, HhAcceptNext, HhInv, HhTypes, HhTxType, HhCallType,
       HhToken, HhDrivesOwn, HhSenders, HhFrames
<1> QED
    BY <1>1, <1>2, <1>3 DEF HhPumpStep

LEMMA HhResetKeeps ==
    ASSUME HhInv, HhReset
    PROVE  HhInv'
BY DEF HhReset, HhAllIdle, HhInv, HhTypes, HhTxType, HhCallType, HhToken, HhDrivesOwn,
   HhSenders, HhFrames

LEMMA HhSenderKeeps ==
    ASSUME HhInv, NEW s \in HhSenders,
           \/ \E timeout \in HhTimeouts, retry \in BOOLEAN : HhSend(s, timeout, retry)
           \/ HhSenderStep(s) \/ HhDriveFails(s)
    PROVE  HhInv'
<1>1. HhSenders' = HhSenders /\ hhSetup' = hhSetup
    BY DEF HhSend, HhSenderStep, HhAccept, HhPut, HhSentSeen, HhDrive, HhBusy,
       HhSentTimeout, HhDriveFails, HhSenders
<1> USE <1>1 DEF HhInv, HhTypes
<1>2. ASSUME NEW timeout \in HhTimeouts, NEW retry \in BOOLEAN, HhSend(s, timeout, retry)
      PROVE  HhInv'
    <2>1. /\ HhCallType'
          /\ hhCall'[s].pc = IF retry THEN HhWaitPc ELSE "accept"
          /\ hhCall'[s].frame # <<>>
          /\ retry => hhCall'[s].frame = hhTx.frame
          /\ \A r \in HhSenders \ {s} : hhCall'[r] = hhCall[r]
        BY <1>2, HhSendCall
    <2>2. hhSends' \in [HhSenders -> Nat] /\ UNCHANGED <<hhTx, hhPump, hhEvents>>
        BY <1>2 DEF HhSend
    <2>3. HhTypes'
        BY <2>1, <2>2 DEF HhTxType
    <2>4. HhToken'
        BY <2>1, <2>2 DEF HhToken, HhWaitPc
    <2>5. HhDrivesOwn'
        BY <2>1, <2>2 DEF HhDrivesOwn, HhWaitPc
    <2> QED
        BY <2>3, <2>4, <2>5
<1>3. CASE HhAccept(s)
    <2>1. "put" \in HhPcs /\ HhGoto(s, "put") /\ hhCall[s].pc = "accept" /\ "ACCEPT" \in hhEvents
          /\ "ACCEPT" \notin hhEvents' /\ UNCHANGED <<hhTx, hhPump, hhSends>>
        BY <1>3 DEF HhAccept, HhPcs
    <2>2. /\ HhCallType' /\ hhCall'[s].pc = "put" /\ hhCall'[s].frame = hhCall[s].frame
          /\ \A r \in HhSenders \ {s} : hhCall'[r] = hhCall[r]
        BY <2>1, HhGotoCall
    <2> QED
        BY <2>1, <2>2 DEF HhTxType, HhToken, HhDrivesOwn
<1>4. CASE HhBusy(s)
    <2>1. /\ HhCallType' /\ hhCall'[s].pc = "idle"
          /\ \A r \in HhSenders \ {s} : hhCall'[r] = hhCall[r]
        BY <1>4, HhIdleCall DEF HhBusy
    <2> QED
        BY <1>4, <2>1 DEF HhBusy, HhTxType, HhToken, HhDrivesOwn
<1>5. CASE HhSentSeen(s) \/ HhSentTimeout(s)
    <2>1. "idle" \in HhPcs /\ HhGoto(s, "idle") /\ UNCHANGED <<hhTx, hhPump, hhSends>>
          /\ ("ACCEPT" \in hhEvents' => "ACCEPT" \in hhEvents)
        BY <1>5 DEF HhSentSeen, HhSentTimeout, HhReturn, HhTakeSent, HhPcs
    <2>2. /\ HhCallType' /\ hhCall'[s].pc = "idle" /\ hhCall'[s].frame = hhCall[s].frame
          /\ \A r \in HhSenders \ {s} : hhCall'[r] = hhCall[r]
        BY <2>1, HhGotoCall
    <2> QED
        BY <2>1, <2>2 DEF HhTxType, HhToken, HhDrivesOwn
<1>6. CASE HhPut(s)
    <2> DEFINE pc == IF hhCall[s].timeout = "zero" THEN "idle" ELSE HhWaitPc
    <2>1. hhCall[s].pc = "put" /\ hhTx = HhNone /\ hhPump = "loop" /\ hhCall[s].frame # <<>>
          /\ "ACCEPT" \notin hhEvents /\ \A r \in HhSenders \ {s} : hhCall[r].pc # "put"
        BY <1>6 DEF HhPut, HhToken, HhDrivesOwn
    <2>2. pc \in HhPcs /\ pc # "put" /\ pc # "accept" /\ (pc = "drive" => ~hhSetup.multithread)
        BY DEF HhPcs, HhWaitPc
    <2>3. HhGoto(s, pc)
        BY <1>6 DEF HhPut
    <2>4. /\ HhCallType' /\ hhCall'[s].pc = pc /\ hhCall'[s].frame = hhCall[s].frame
          /\ \A r \in HhSenders \ {s} : hhCall'[r] = hhCall[r]
        <3> HIDE DEF pc
        <3> QED BY <2>2, <2>3, HhGotoCall
    <2>5. hhTx' = [frame |-> hhCall[s].frame, left |-> HhBytes] /\ UNCHANGED <<hhPump, hhSends>>
          /\ "ACCEPT" \notin hhEvents'
        BY <1>6, <2>1 DEF HhPut
    <2>6. HhTypes'
        <3>1. HhTxType'
            <4>1. HhBytes \in Nat
                BY HhAssumption
            <4> QED
                BY <2>1, <2>5, <4>1 DEF HhTxType
        <3> QED
            BY <2>4, <2>5, <3>1
    <2>7. HhToken'
        BY <2>1, <2>2, <2>4, <2>5 DEF HhToken
    <2>8. \A r \in HhSenders \ {s} : hhCall[r].pc # "drive"
        BY <2>1 DEF HhDrivesOwn, HhNone
    <2>9. HhDrivesOwn'
        BY <2>1, <2>2, <2>4, <2>5, <2>8 DEF HhDrivesOwn
    <2> QED
        BY <2>6, <2>7, <2>9
<1>7. ASSUME hhCall[s].pc = "drive"
      PROVE  /\ hhTx # HhNone /\ hhPump = "loop" /\ "ACCEPT" \notin hhEvents
             /\ \A r \in HhSenders \ {s} : hhCall[r].pc \notin {"put", "drive"}
    <2>1. hhCall[s].frame # <<>> /\ hhTx.frame = hhCall[s].frame
        BY <1>7 DEF HhDrivesOwn
    <2>2. hhTx # HhNone
        BY <2>1 DEF HhNone
    <2>3. \A r \in HhSenders \ {s} : hhCall[r].pc # "drive"
        BY <2>1 DEF HhDrivesOwn, HhCallType
    <2> QED
        BY <2>2, <2>3 DEF HhToken
<1>8. CASE HhDriveFails(s)
    <2>1. /\ HhCallType' /\ hhCall'[s].pc = "idle"
          /\ \A r \in HhSenders \ {s} : hhCall'[r] = hhCall[r]
        BY <1>8, HhIdleCall DEF HhDriveFails
    <2>2. hhCall[s].pc = "drive" /\ hhTx' = HhNone /\ UNCHANGED <<hhPump, hhSends>>
        BY <1>8 DEF HhDriveFails, HhTerminate
    <2>3. HhTypes'
        BY <2>1, <2>2 DEF HhTxType
    <2>4. /\ hhPump' = "loop" /\ \A r \in HhSenders : hhCall'[r].pc \notin {"put", "drive"}
          /\ \A r \in HhSenders \ {s} : hhCall'[r] = hhCall[r]
        BY <1>7, <2>1, <2>2
    <2>5. HhToken'
        BY <2>2, <2>4 DEF HhToken
    <2>6. HhDrivesOwn'
        BY <2>1, <2>4 DEF HhDrivesOwn
    <2> QED
        BY <2>3, <2>5, <2>6
<1>9. CASE HhDrive(s)
    <2>1. hhCall[s].pc = "drive" /\ UNCHANGED <<hhPump, hhSends>>
        BY <1>9 DEF HhDrive
    <2>2. CASE hhTx.left = 0
        <3>1. hhTx' = HhNone /\ HhGoto(s, "idle") /\ "idle" \in HhPcs
            BY <1>7, <1>9, <2>1, <2>2 DEF HhDrive, HhPcs
        <3>2. /\ HhCallType' /\ hhCall'[s].pc = "idle"
              /\ \A r \in HhSenders \ {s} : hhCall'[r] = hhCall[r]
            BY <3>1, HhGotoCall
        <3> QED
            BY <1>7, <2>1, <3>1, <3>2 DEF HhTxType, HhToken, HhDrivesOwn
    <2>3. CASE hhTx.left # 0
        <3>1. hhTx.left \in Nat /\ hhTx.left - 1 \in Nat
            BY <2>3, HhTxFacts
        <3>2. /\ hhTx' = [hhTx EXCEPT !.left = hhTx.left - 1]
              /\ hhEvents' = hhEvents \ {"SENT"}
              /\ HhGoto(s, "idle") \/ HhGoto(s, "drive")
            BY <1>9, <2>3, <3>1 DEF HhDrive
        <3>3. HhTxType' /\ hhTx'.frame = hhTx.frame /\ hhTx' # HhNone
            BY <1>7, <2>1, <3>1, <3>2, HhTxFacts DEF HhTxType
        <3>4. /\ HhCallType' /\ hhCall'[s].pc \in {"idle", "drive"}
              /\ hhCall'[s].frame = hhCall[s].frame
              /\ \A r \in HhSenders \ {s} : hhCall'[r] = hhCall[r]
            <4>1. "idle" \in HhPcs /\ "drive" \in HhPcs
                BY DEF HhPcs
            <4> QED
                BY <3>2, <4>1, HhGotoCall
        <3> QED
            BY <1>7, <2>1, <3>2, <3>3, <3>4 DEF HhToken, HhDrivesOwn
    <2> QED
        BY <2>2, <2>3
<1> QED
    BY <1>2, <1>3, <1>4, <1>5, <1>6, <1>8, <1>9 DEF HhSenderStep

(* TX_ACCEPT_BIT guards the frame slot: whoever holds it finds the slot     *)
(* empty, in both modes, with any number of senders, after timeouts, failed *)
(* sends and resets, so that hdlc_put may ignore what hdlc_ll_put_frame     *)
(* answers.                                                                 *)
THEOREM HhAcceptAlwaysMeansIdle == HhSpec => []HhAcceptMeansIdle
<1>1. HhInit => HhInv
    BY HhStart
<1>2. HhInv /\ [HhNext]_hhVars => HhInv'
    <2> SUFFICES ASSUME HhInv, [HhNext]_hhVars PROVE HhInv'
        OBVIOUS
    <2>1. CASE HhNext
        BY <2>1, HhPumpKeeps, HhResetKeeps, HhSenderKeeps DEF HhNext
    <2>2. CASE UNCHANGED hhVars
        BY <2>2 DEF hhVars, HhInv, HhTypes, HhTxType, HhCallType, HhToken, HhDrivesOwn,
           HhSenders, HhFrames
    <2> QED
        BY <2>1, <2>2
<1>3. HhInv => HhAcceptMeansIdle
    BY DEF HhInv, HhToken, HhAcceptMeansIdle
<1> QED
    BY <1>1, <1>2, <1>3, PTL DEF HhSpec

-----------------------------------------------------------------------------
(* HdlcLink *)

HlPcs == {"idle", "put", "locked", "framed", "late", "over", "turn"}
HlPumps == {"wait", "lock", "run", "onsend", "free"}

\* Without threads the link turns only while its one sender waits for it.
HlTurns == hlPump # "wait" => \E s \in HlSenders : hlCall[s] = "turn"

HlTypes ==
    /\ hlSetup \in HlScenarios
    /\ hlTx = HlNoFrame \/ \E n \in Nat : hlTx.frame # <<>> /\ hlTx = [frame |-> hlTx.frame, left |-> n]
    /\ hlPump \in HlPumps
    /\ hlCall \in [HlSenders -> HlPcs]
    /\ hlSends \in [HlSenders -> Nat]
    /\ ~hlSetup.multithread => HlTurns
    /\ \A s, r \in HlSenders : hlCall[s] = "framed" /\ hlCall[r] = "framed" => s = r
    /\ hlFlush => hlGaveUp

(* As long as nobody has run out of time, or there are no threads,          *)
(* TX_QUEUE_FREE is in one place: the event, a put() that has taken it, or  *)
(* the frame.                                                               *)
HlCalm == ~hlSetup.multithread \/ ~hlGaveUp
HlToken ==
    /\ "FREE" \in hlEvents =>
         /\ hlTx = HlNoFrame /\ hlPump \notin {"onsend", "free"}
         /\ \A s \in HlSenders : hlCall[s] # "locked"
    /\ \A s \in HlSenders : hlCall[s] = "locked" =>
         /\ hlTx = HlNoFrame /\ hlPump \notin {"onsend", "free"}
         /\ \A r \in HlSenders \ {s} : hlCall[r] # "locked"
    /\ hlPump \in {"onsend", "free"} => hlTx = HlNoFrame
    /\ ~hlRefused

(* The buffer remembered is that of a send under way, or of one that gave   *)
(* up and is not sent again.  A sender finds its buffer only after its      *)
(* frame has left; the token of an empty packet is lost until it gives up.  *)
HlKnown == (~hlSetup.multithread /\ hlSetup.fresh) \/ ~hlGaveUp
HlOwner ==
    hlTemp # <<>> => \E r \in HlSenders :
        IF hlSetup.fresh THEN \E k \in Nat : hlTemp = <<r, k>> /\ k <= hlSends[r]
                         ELSE hlTemp = <<r>> /\ hlCall[r] # "idle"
HlLostToken ==
    /\ "FREE" \notin hlEvents /\ hlTx = HlNoFrame /\ hlPump \notin {"onsend", "free"}
    /\ \A r \in HlSenders : hlCall[r] # "locked"
HlMine(s) == hlCall[s] = "framed" \/ (hlCall[s] # "idle" /\ hlTemp = HlBuffer(s))
HlUnderWay(s) ==
    /\ ~hlFlush
    /\ IF s \in hlEmpty THEN HlLostToken ELSE hlTx.frame = HlFrame(s) \/ HlFrame(s) \in hlOut
HlRemembered ==
    /\ hlOk \subseteq hlOut
    /\ HlOwner
    /\ \A s \in HlSenders : HlMine(s) => HlUnderWay(s)

HlInv == HlTypes /\ (HlCalm => HlToken) /\ (HlKnown => HlRemembered)

LEMMA HlStart == HlInit => HlInv
<1> SUFFICES ASSUME HlInit PROVE HlInv
    OBVIOUS
<1>1. HlTypes
    BY DEF HlInit, HlTypes, HlPumps, HlPcs, HlTurns
<1>2. HlToken
    BY DEF HlInit, HlToken
<1>3. HlRemembered
    BY DEF HlInit, HlRemembered, HlOwner, HlMine
<1> QED
    BY <1>1, <1>2, <1>3 DEF HlInv

LEMMA HlTypesStep ==
    ASSUME HlTypes, HlNext
    PROVE  HlTypes' /\ HlSenders' = HlSenders /\ hlSetup' = hlSetup
<1>1. HlSenders' = HlSenders /\ hlSetup' = hlSetup
    BY DEF HlNext, HlPumpStep, HlGetData, HlTestFlush, HlRunTx, HlRunTxEnd, HlOnSend, HlOnSendFree,
       HlSend, HlSenderStep, HlPutWait, HlPutTimeout, HlPut, HlPutQueued, HlAgain, HlTurned, HlGiveUp,
       HlSenders
<1> USE <1>1 DEF HlTypes
<1>2. CASE HlPumpStep
    <2>1. UNCHANGED <<hlCall, hlSends, hlGaveUp>> /\ (hlFlush' => hlFlush)
        BY <1>2 DEF HlPumpStep, HlGetData, HlTestFlush, HlRunTx, HlRunTxEnd, HlOnSend, HlOnSendFree
    <2>2. hlPump' \in HlPumps
        BY <1>2 DEF HlPumpStep, HlGetData, HlTestFlush, HlRunTx, HlRunTxEnd, HlOnSend, HlOnSendFree,
           HlPumps
    <2>3. hlTx' = HlNoFrame \/ \E n \in Nat : hlTx'.frame # <<>> /\ hlTx' = [frame |-> hlTx'.frame, left |-> n]
        BY <1>2 DEF HlPumpStep, HlGetData, HlTestFlush, HlRunTx, HlRunTxEnd, HlOnSend, HlOnSendFree,
           HlNoFrame, HlResetTx
    <2>4. ~hlSetup.multithread => HlTurns'
        BY <1>2, <2>1 DEF HlPumpStep, HlGetData, HlTestFlush, HlRunTx, HlRunTxEnd, HlOnSend, HlOnSendFree,
           HlTurns, HlMayPump
    <2> QED
        BY <2>1, <2>2, <2>3, <2>4
<1>3. ASSUME NEW s \in HlSenders, HlSend(s) \/ HlSenderStep(s) PROVE HlTypes'
    <2>1. hlCall' \in [HlSenders -> HlPcs] /\ hlPump' = hlPump
          /\ \A r \in HlSenders \ {s} : hlCall'[r] = hlCall[r]
        BY <1>3 DEF HlSend, HlSenderStep, HlPutWait, HlPutTimeout, HlPut, HlPutQueued, HlAgain, HlTurned,
           HlGiveUp, HlGoto, HlPcs
    <2>2. hlSends' \in [HlSenders -> Nat]
        BY <1>3 DEF HlSend, HlSenderStep, HlPutWait, HlPutTimeout, HlPut, HlPutQueued, HlAgain, HlTurned,
           HlGiveUp
    <2>3. hlFlush' => hlGaveUp'
        BY <1>3 DEF HlSend, HlSenderStep, HlPutWait, HlPutTimeout, HlPut, HlPutQueued, HlAgain, HlTurned,
           HlGiveUp
    <2>4. hlTx' = hlTx \/ hlTx' = HlNoFrame \/ hlTx' = [frame |-> HlFrame(s), left |-> HlBytes]
        BY <1>3 DEF HlSend, HlSenderStep, HlPutWait, HlPutTimeout, HlPut, HlPutQueued, HlAgain, HlTurned,
           HlGiveUp
    <2>5. HlFrame(s) # <<>> /\ HlBytes \in Nat
        BY HlAssumption DEF HlFrame
    <2>6. hlTx' = HlNoFrame \/ \E n \in Nat : hlTx'.frame # <<>> /\ hlTx' = [frame |-> hlTx'.frame, left |-> n]
        BY <2>4, <2>5
    <2>7. hlCall'[s] = "framed" => \A r \in HlSenders : hlCall[r] # "framed"
        BY <1>3 DEF HlSend, HlSenderStep, HlPutWait, HlPutTimeout, HlPut, HlPutQueued, HlAgain, HlTurned,
           HlGiveUp, HlGoto, HlSendMutexFree
    <2>8. \A a, b \in HlSenders : hlCall'[a] = "framed" /\ hlCall'[b] = "framed" => a = b
        BY <2>1, <2>7
    <2>9. ASSUME ~hlSetup.multithread PROVE HlTurns'
        <3>1. PICK r : HlSenders = {r}
            BY <2>9, HlAssumption DEF HlSenders
        <3>2. s = r /\ (hlPump # "wait" => hlCall[s] = "turn")
            BY <2>9, <3>1 DEF HlTurns
        <3>3. hlPump = "wait"
            BY <1>3, <3>2 DEF HlSend, HlSenderStep, HlPutWait, HlPutTimeout, HlPut, HlPutQueued, HlAgain,
               HlTurned, HlGiveUp
        <3> QED
            BY <2>1, <3>3 DEF HlTurns
    <2> QED
        BY <2>1, <2>2, <2>3, <2>6, <2>8, <2>9
<1> QED
    BY <1>1, <1>2, <1>3 DEF HlNext

\* hlGaveUp stays, so the calm never comes back.
LEMMA HlCalmBefore ==
    ASSUME HlTypes, HlNext
    PROVE  (HlCalm' => HlCalm) /\ (HlKnown' => HlKnown) /\ (HlKnown => HlCalm)
<1>1. hlSetup' = hlSetup
    BY HlTypesStep
<1>2. hlGaveUp => hlGaveUp'
    BY DEF HlNext, HlPumpStep, HlGetData, HlTestFlush, HlRunTx, HlRunTxEnd, HlOnSend, HlOnSendFree,
       HlSend, HlSenderStep, HlPutWait, HlPutTimeout, HlPut, HlPutQueued, HlAgain, HlTurned, HlGiveUp
<1> QED
    BY <1>1, <1>2 DEF HlCalm, HlKnown

\* A flush that is carried out: there are no threads, and the sender waits.
LEMMA HlFlushing ==
    ASSUME HlTypes, HlCalm, hlFlush, hlPump # "wait", NEW s \in HlSenders
    PROVE  hlCall[s] = "turn" /\ ~hlSetup.multithread
<1>1. ~hlSetup.multithread
    BY DEF HlTypes, HlCalm
<1>2. PICK r : HlSenders = {r}
    BY <1>1, HlAssumption DEF HlSenders, HlTypes
<1> QED
    BY <1>1, <1>2 DEF HlTypes, HlTurns

\* The token: also, the third branch of put() is not taken.
LEMMA HlTokenStep ==
    ASSUME HlTypes, HlCalm, HlToken, HlNext
    PROVE  HlToken'
<1>1. HlSenders' = HlSenders
    BY HlTypesStep
<1> USE <1>1 DEF HlTypes, HlToken
<1>2. CASE HlPumpStep
    <2>0. UNCHANGED <<hlCall, hlRefused>>
        BY <1>2 DEF HlPumpStep, HlGetData, HlTestFlush, HlRunTx, HlRunTxEnd, HlOnSend, HlOnSendFree
    <2>1. CASE HlGetData
        BY <2>1 DEF HlGetData
    <2>2. CASE HlTestFlush
        <3>1. CASE hlFlush
            <4>1. \A s \in HlSenders : hlCall[s] # "locked"
                BY <2>2, <3>1, HlFlushing DEF HlTestFlush
            <4>2. hlTx' = HlNoFrame /\ hlPump' = "wait"
                BY <2>2, <3>1 DEF HlTestFlush, HlResetTx
            <4> QED
                BY <2>0, <4>1, <4>2
        <3>2. CASE ~hlFlush
            BY <2>0, <2>2, <3>2 DEF HlTestFlush
        <3> QED
            BY <3>1, <3>2
    <2>3. CASE HlRunTx
        BY <2>3 DEF HlRunTx, HlNoFrame
    <2>4. CASE HlRunTxEnd
        BY <2>4 DEF HlRunTxEnd
    <2>5. CASE HlOnSend \/ HlOnSendFree
        BY <2>5 DEF HlOnSend, HlOnSendFree
    <2> QED
        BY <1>2, <2>1, <2>2, <2>3, <2>4, <2>5 DEF HlPumpStep
<1>3. ASSUME NEW s \in HlSenders, HlPut(s) PROVE HlToken'
    <2>1. hlCall[s] = "locked" /\ hlTx = HlNoFrame /\ hlPump' = hlPump /\ hlRefused' = hlRefused
        BY <1>3 DEF HlPut
    <2>2. hlCall'[s] # "locked" /\ \A r \in HlSenders \ {s} : hlCall'[r] = hlCall[r]
        BY <1>3 DEF HlPut, HlGoto
    <2>3. \/ hlTx' = HlNoFrame
          \/ hlEvents' = hlEvents
        BY <1>3, <2>1 DEF HlPut
    <2> QED
        BY <2>1, <2>2, <2>3
<1>4. ASSUME NEW s \in HlSenders, HlPutWait(s) PROVE HlToken'
    <2>1. /\ hlCall'[s] = "locked" /\ \A r \in HlSenders \ {s} : hlCall'[r] = hlCall[r]
          /\ "FREE" \in hlEvents /\ hlEvents' = hlEvents \ {"FREE"} /\ UNCHANGED <<hlTx, hlPump, hlRefused>>
        BY <1>4 DEF HlPutWait, HlGoto
    <2> QED
        BY <2>1
<1>5. ASSUME NEW s \in HlSenders,
             HlSend(s) \/ HlPutTimeout(s) \/ HlPutQueued(s) \/ HlAgain(s) \/ HlTurned(s) \/ HlGiveUp(s)
      PROVE  HlToken'
    <2>1. \A r \in HlSenders : hlCall'[r] = "locked" => hlCall[r] = "locked"
        BY <1>5 DEF HlSend, HlPutTimeout, HlPutQueued, HlAgain, HlTurned, HlGiveUp, HlGoto
    <2>2. UNCHANGED <<hlTx, hlPump, hlRefused>> /\ ("FREE" \in hlEvents' => "FREE" \in hlEvents)
        BY <1>5 DEF HlSend, HlPutTimeout, HlPutQueued, HlAgain, HlTurned, HlGiveUp
    <2> QED
        BY <2>1, <2>2
<1> QED
    BY <1>2, <1>3, <1>4, <1>5 DEF HlNext, HlSenderStep

\* The steps of the link: a frame under way leaves or stays.
LEMMA HlPumpRemembers ==
    ASSUME HlTypes, HlCalm, HlRemembered, HlPumpStep
    PROVE  HlRemembered'
<1>1. UNCHANGED <<hlSetup, hlTemp, hlCall, hlSends, hlEmpty, hlOk>> /\ hlOut \subseteq hlOut'
      /\ (hlFlush' => hlFlush)
    BY DEF HlPumpStep, HlGetData, HlTestFlush, HlRunTx, HlRunTxEnd, HlOnSend, HlOnSendFree
<1>2. HlSenders' = HlSenders
    BY <1>1 DEF HlSenders
<1>3. HlOwner'
    BY <1>1, <1>2 DEF HlRemembered, HlOwner
<1>4. ASSUME NEW s \in HlSenders, HlMine(s)' PROVE HlUnderWay(s)'
    <2>1. HlMine(s)
        BY <1>1, <1>4 DEF HlMine, HlBuffer, HlFrame
    <2>2. HlUnderWay(s) /\ HlFrame(s)' = HlFrame(s)
        BY <1>1, <2>1 DEF HlRemembered, HlFrame
    <2>3. CASE s \in hlEmpty
        <3>1. HlLostToken
            BY <2>2, <2>3 DEF HlUnderWay
        <3>2. ~hlFlush
            BY <2>2 DEF HlUnderWay
        <3>3. hlTx' = HlNoFrame /\ hlPump' \notin {"onsend", "free"} /\ "FREE" \notin hlEvents'
            BY <3>1, <3>2 DEF HlPumpStep, HlGetData, HlTestFlush, HlRunTx, HlRunTxEnd, HlOnSend,
               HlOnSendFree, HlLostToken, HlNoFrame
        <3>4. HlLostToken'
            BY <1>1, <1>2, <3>1, <3>3 DEF HlLostToken
        <3> QED
            BY <1>1, <2>3, <3>2, <3>4 DEF HlUnderWay
    <2>4. CASE s \notin hlEmpty
        <3>1. ~hlFlush /\ (hlTx.frame = HlFrame(s) \/ HlFrame(s) \in hlOut)
            BY <2>2, <2>4 DEF HlUnderWay
        <3>2. hlTx.frame = HlFrame(s) => hlTx'.frame = HlFrame(s) \/ HlFrame(s) \in hlOut'
            <4>1. HlFrame(s) # <<>>
                BY DEF HlFrame
            <4>2. CASE HlRunTx
                <5>1. hlTx'.frame = hlTx.frame
                    BY <4>2 DEF HlRunTx, HlTypes, HlNoFrame
                <5> QED
                    BY <5>1
            <4>3. CASE HlRunTxEnd
                BY <4>1, <4>3 DEF HlRunTxEnd, HlNoFrame
            <4>4. CASE HlGetData \/ HlTestFlush \/ HlOnSend \/ HlOnSendFree
                BY <3>1, <4>4 DEF HlGetData, HlTestFlush, HlOnSend, HlOnSendFree
            <4> QED
                BY <4>2, <4>3, <4>4 DEF HlPumpStep
        <3> QED
            BY <1>1, <2>2, <2>4, <3>1, <3>2 DEF HlUnderWay
    <2> QED
        BY <2>3, <2>4
<1> QED
    BY <1>1, <1>2, <1>3, <1>4 DEF HlRemembered

\* Buffers tell senders apart, and with fresh ones the sends of one sender.
LEMMA HlBuffers ==
    ASSUME NEW s \in HlSenders, NEW r \in HlSenders, r # s
    PROVE  HlBuffer(s) # HlBuffer(r) /\ HlBuffer(s)' # HlBuffer(r) /\ HlBuffer(s)' # HlBuffer(r)'
BY DEF HlBuffer, HlFrame

\* A sender that puts its packet, for the others.
LEMMA HlPutRemembers ==
    ASSUME HlTypes, HlToken, HlRemembered, NEW s \in HlSenders, HlPut(s)
    PROVE  HlRemembered'
<1>1. /\ hlCall[s] = "locked" /\ hlTx = HlNoFrame /\ hlPump \notin {"onsend", "free"}
      /\ hlFlush' = FALSE /\ \A r \in HlSenders : hlCall[r] # "framed"
    BY DEF HlPut, HlToken, HlSendMutexFree
<1>2. UNCHANGED <<hlSetup, hlPump, hlSends, hlEmpty, hlOut>> /\ HlSenders' = HlSenders
    BY DEF HlPut, HlSenders
<1>3. \A r \in HlSenders : HlFrame(r)' = HlFrame(r) /\ HlBuffer(r)' = HlBuffer(r)
    BY <1>2 DEF HlFrame, HlBuffer
<1>4. \A r \in HlSenders : HlMine(r) => r \notin hlEmpty /\ HlFrame(r) \in hlOut
    <2> SUFFICES ASSUME NEW r \in HlSenders, HlMine(r) PROVE r \notin hlEmpty /\ HlFrame(r) \in hlOut
        OBVIOUS
    <2>1. HlUnderWay(r)
        BY DEF HlRemembered
    <2>2. HlFrame(r) # HlNoFrame.frame
        BY DEF HlFrame, HlNoFrame
    <2> QED
        BY <1>1, <2>1, <2>2 DEF HlUnderWay, HlLostToken
<1>5. CASE HlWasQueued(s)
    <2>1. hlTemp = HlBuffer(s) /\ hlTemp' = <<>> /\ hlOk' = hlOk \cup {HlFrame(s)} /\ hlCall' = [hlCall EXCEPT ![s] = "idle"]
        BY <1>5 DEF HlPut, HlWasQueued, HlGoto
    <2>2. HlFrame(s) \in hlOut
        BY <1>1, <1>4, <2>1 DEF HlMine
    <2>3. ASSUME NEW r \in HlSenders PROVE ~HlMine(r)'
        <3>1. hlCall'[r] # "framed"
            BY <1>1, <2>1 DEF HlTypes
        <3>2. HlBuffer(r)' # <<>>
            BY DEF HlBuffer, HlFrame
        <3> QED
            BY <2>1, <3>1, <3>2 DEF HlMine
    <2> QED
        BY <1>2, <2>1, <2>2, <2>3 DEF HlRemembered, HlOwner
<1>6. CASE ~HlWasQueued(s)
    <2>1. /\ hlTx' = IF s \in hlEmpty THEN HlNoFrame ELSE [frame |-> HlFrame(s), left |-> HlBytes]
          /\ hlCall' = [hlCall EXCEPT ![s] = "framed"] /\ UNCHANGED <<hlTemp, hlEvents, hlOk>>
        BY <1>1, <1>6 DEF HlPut, HlGoto
    <2>2. HlOwner'
        BY <1>2, <2>1 DEF HlRemembered, HlOwner, HlTypes
    <2>3. ASSUME NEW r \in HlSenders, HlMine(r)' PROVE HlUnderWay(r)'
        <3>1. CASE r = s
            <4>1. CASE s \in hlEmpty
                <5>1. "FREE" \notin hlEvents /\ \A q \in HlSenders \ {s} : hlCall[q] # "locked"
                    BY <1>1 DEF HlToken
                <5>2. \A q \in HlSenders : hlCall'[q] # "locked"
                    BY <2>1, <5>1 DEF HlTypes
                <5>3. HlLostToken'
                    BY <1>1, <1>2, <2>1, <4>1, <5>1, <5>2 DEF HlLostToken
                <5> QED
                    BY <1>1, <1>2, <3>1, <4>1, <5>3 DEF HlUnderWay
            <4>2. CASE s \notin hlEmpty
                BY <1>1, <1>2, <1>3, <2>1, <3>1, <4>2 DEF HlUnderWay
            <4> QED
                BY <4>1, <4>2
        <3>2. CASE r # s
            <4>1. HlMine(r)
                BY <1>3, <2>1, <2>3, <3>2 DEF HlMine, HlTypes
            <4> QED
                BY <1>1, <1>2, <1>3, <1>4, <4>1 DEF HlUnderWay
        <3> QED
            BY <3>1, <3>2
    <2> QED
        BY <1>2, <2>1, <2>2, <2>3 DEF HlRemembered
<1> QED
    BY <1>5, <1>6

\* A new send has a buffer that is not remembered.
LEMMA HlSendRemembers ==
    ASSUME HlTypes, HlRemembered, NEW s \in HlSenders, HlSend(s)
    PROVE  HlRemembered'
<1>1. /\ hlCall[s] = "idle" /\ hlCall' = [hlCall EXCEPT ![s] = "put"]
      /\ hlSends' = [hlSends EXCEPT ![s] = hlSends[s] + 1] /\ hlSends \in [HlSenders -> Nat]
      /\ UNCHANGED <<hlSetup, hlEvents, hlTemp, hlFlush, hlTx, hlPump, hlOut, hlOk>>
      /\ HlSenders' = HlSenders
    BY DEF HlSend, HlGoto, HlTypes, HlSenders
<1>2. \A r \in HlSenders \ {s} : /\ hlCall'[r] = hlCall[r] /\ hlSends'[r] = hlSends[r]
                                 /\ (r \in hlEmpty' <=> r \in hlEmpty)
                                 /\ HlFrame(r)' = HlFrame(r) /\ HlBuffer(r)' = HlBuffer(r)
    BY <1>1 DEF HlSend, HlFrame, HlBuffer
<1>3. hlCall'[s] = "put" /\ hlSends'[s] = hlSends[s] + 1 /\ hlSends[s] \in Nat
    BY <1>1 DEF HlTypes
<1>4. HlOwner'
    <2> SUFFICES ASSUME hlTemp # <<>> PROVE HlOwner'
        BY <1>1 DEF HlOwner
    <2>1. PICK r \in HlSenders :
            IF hlSetup.fresh THEN \E k \in Nat : hlTemp = <<r, k>> /\ k <= hlSends[r]
                             ELSE hlTemp = <<r>> /\ hlCall[r] # "idle"
        BY DEF HlRemembered, HlOwner
    <2>2. /\ hlSends[r] \in Nat /\ hlSends'[r] \in Nat /\ hlSends[r] <= hlSends'[r]
          /\ hlCall'[r] # "idle" \/ r # s
        BY <1>1, <1>2, <1>3
    <2>3. CASE hlSetup.fresh
        <3>1. PICK k \in Nat : hlTemp = <<r, k>> /\ k <= hlSends[r]
            BY <2>1, <2>3
        <3>2. k <= hlSends'[r]
            BY <1>1, <1>2, <1>3, <3>1
        <3> QED
            BY <1>1, <2>3, <3>1, <3>2 DEF HlOwner
    <2>4. CASE ~hlSetup.fresh
        <3>1. hlTemp = <<r>> /\ hlCall'[r] # "idle"
            BY <1>1, <1>2, <2>1, <2>4
        <3> QED
            BY <1>1, <2>4, <3>1 DEF HlOwner
    <2> QED
        BY <2>3, <2>4
<1>5. hlTemp # HlBuffer(s)'
    <2> SUFFICES ASSUME hlTemp # <<>> PROVE hlTemp # HlBuffer(s)'
        BY DEF HlBuffer, HlFrame
    <2>1. PICK r \in HlSenders :
            IF hlSetup.fresh THEN \E k \in Nat : hlTemp = <<r, k>> /\ k <= hlSends[r]
                             ELSE hlTemp = <<r>> /\ hlCall[r] # "idle"
        BY DEF HlRemembered, HlOwner
    <2>2. CASE hlSetup.fresh
        <3>1. PICK k \in Nat : hlTemp = <<r, k>> /\ k <= hlSends[r]
            BY <2>1, <2>2
        <3>2. HlBuffer(s)' = <<s, hlSends[s] + 1>>
            BY <1>1, <1>3, <2>2 DEF HlBuffer, HlFrame
        <3>3. r = s => k # hlSends[s] + 1
            BY <1>3, <3>1
        <3> QED
            BY <3>1, <3>2, <3>3
    <2>3. CASE ~hlSetup.fresh
        <3>1. HlBuffer(s)' = <<s>> /\ r # s
            BY <1>1, <2>1, <2>3 DEF HlBuffer
        <3> QED
            BY <2>1, <2>3, <3>1
    <2> QED
        BY <2>2, <2>3
<1>6. ASSUME NEW r \in HlSenders, HlMine(r)' PROVE HlUnderWay(r)'
    <2>1. r # s
        BY <1>1, <1>3, <1>5, <1>6 DEF HlMine
    <2>2. HlMine(r) /\ HlUnderWay(r)
        BY <1>1, <1>2, <1>6, <2>1 DEF HlMine, HlRemembered
    <2>3. HlLostToken => HlLostToken'
        BY <1>1, <1>2, <1>3 DEF HlLostToken
    <2> QED
        BY <1>1, <1>2, <2>1, <2>2, <2>3 DEF HlUnderWay
<1> QED
    BY <1>1, <1>4, <1>6 DEF HlRemembered

\* The end of put(), and the steps of send() outside it.
LEMMA HlSenderRemembers ==
    ASSUME HlTypes, HlRemembered, HlKnown', NEW s \in HlSenders,
           HlPutWait(s) \/ HlPutTimeout(s) \/ HlPutQueued(s) \/ HlAgain(s) \/ HlTurned(s) \/ HlGiveUp(s)
    PROVE  HlRemembered'
<1>1. UNCHANGED <<hlSetup, hlTx, hlPump, hlSends, hlEmpty, hlOut, hlOk>> /\ HlSenders' = HlSenders
    BY DEF HlPutWait, HlPutTimeout, HlPutQueued, HlAgain, HlTurned, HlGiveUp, HlSenders
<1>2. hlCall[s] # "idle" /\ hlCall'[s] # "framed" /\ \A r \in HlSenders \ {s} : hlCall'[r] = hlCall[r]
    BY DEF HlPutWait, HlPutTimeout, HlPutQueued, HlAgain, HlTurned, HlGiveUp, HlGoto, HlTypes
<1>3. \A r \in HlSenders : HlFrame(r)' = HlFrame(r) /\ HlBuffer(r)' = HlBuffer(r)
    BY <1>1 DEF HlFrame, HlBuffer
<1>4. CASE HlPutQueued(s)
    <2>1. /\ hlCall[s] = "framed" /\ hlCall'[s] = "late" /\ hlTemp' = HlBuffer(s) /\ hlFlush' = hlFlush
          /\ hlEvents' = hlEvents \cup {"SENDING"}
        BY <1>4 DEF HlPutQueued, HlGoto, HlTypes
    <2>2. HlOwner'
        <3>1. CASE hlSetup.fresh
            <4>1. hlTemp' = <<s, hlSends[s]>> /\ hlSends[s] \in Nat /\ hlSends[s] <= hlSends[s]
                BY <2>1, <3>1 DEF HlBuffer, HlFrame, HlTypes
            <4> QED
                BY <1>1, <3>1, <4>1 DEF HlOwner
        <3>2. CASE ~hlSetup.fresh
            BY <1>1, <2>1, <3>2 DEF HlOwner, HlBuffer
        <3> QED
            BY <3>1, <3>2
    <2>3. HlLostToken => HlLostToken'
        BY <1>1, <1>2, <2>1 DEF HlLostToken
    <2>4. ASSUME NEW r \in HlSenders, HlMine(r)' PROVE HlUnderWay(r)'
        <3>1. r = s
            <4>1. r # s => hlCall[r] # "framed" /\ hlTemp' # HlBuffer(r)
                BY <2>1, HlBuffers DEF HlTypes
            <4> QED
                BY <1>2, <1>3, <2>4, <4>1 DEF HlMine
        <3>2. HlUnderWay(s)
            BY <2>1 DEF HlMine, HlRemembered
        <3> QED
            BY <1>1, <1>3, <2>1, <2>3, <3>1, <3>2 DEF HlUnderWay
    <2> QED
        BY <1>1, <2>2, <2>4 DEF HlRemembered
<1>5. CASE HlGiveUp(s)
    <2>1. hlCall'[s] = "idle" /\ hlGaveUp' /\ hlTemp' = hlTemp
        BY <1>5 DEF HlGiveUp, HlGoto, HlTypes
    <2>2. ~hlSetup.multithread /\ hlSetup.fresh
        BY <1>1, <2>1 DEF HlKnown
    <2>3. HlSenders = {s}
        <3>1. PICK r : HlSenders = {r}
            BY <2>2, HlAssumption DEF HlSenders, HlTypes
        <3> QED
            BY <3>1
    <2>4. HlOwner'
        BY <1>1, <2>1, <2>2 DEF HlRemembered, HlOwner
    <2>5. ~HlMine(s)'
        BY <2>1 DEF HlMine
    <2> QED
        BY <1>1, <2>3, <2>4, <2>5 DEF HlRemembered
<1>6. CASE HlPutWait(s) \/ HlPutTimeout(s) \/ HlAgain(s) \/ HlTurned(s)
    <2>1. /\ UNCHANGED <<hlTemp, hlFlush>> /\ hlCall'[s] # "idle" /\ hlCall[s] # "framed"
          /\ ("FREE" \notin hlEvents => hlEvents' = hlEvents /\ hlCall'[s] # "locked")
        BY <1>6 DEF HlPutWait, HlPutTimeout, HlAgain, HlTurned, HlGoto, HlTypes
    <2>2. HlOwner'
        <3>1. \A r \in HlSenders : hlCall[r] # "idle" => hlCall'[r] # "idle"
            BY <1>2, <2>1
        <3> QED
            BY <1>1, <2>1, <3>1 DEF HlRemembered, HlOwner
    <2>3. HlLostToken => HlLostToken'
        BY <1>1, <1>2, <2>1 DEF HlLostToken
    <2>4. ASSUME NEW r \in HlSenders, HlMine(r)' PROVE HlUnderWay(r)'
        <3>1. HlMine(r)
            BY <1>2, <1>3, <2>1, <2>4 DEF HlMine
        <3>2. HlUnderWay(r)
            BY <3>1 DEF HlRemembered
        <3> QED
            BY <1>1, <1>3, <2>1, <2>3, <3>2 DEF HlUnderWay
    <2> QED
        BY <1>1, <2>2, <2>4 DEF HlRemembered
<1> QED
    BY <1>4, <1>5, <1>6

(* HlTrueMeansSent.  TX_QUEUE_FREE is only taken when the framing can take  *)
(* a frame, and a sender finds its own buffer only after its frame has      *)
(* left: for any number of senders until one gives up, and without threads  *)
(* also after that.                                                         *)
THEOREM HlTrueAlwaysMeansSent == HlSpec => []HlTrueMeansSent
<1>1. HlInit => HlInv
    BY HlStart
<1>2. HlInv /\ [HlNext]_hlVars => HlInv'
    <2> SUFFICES ASSUME HlInv, [HlNext]_hlVars PROVE HlInv'
        OBVIOUS
    <2>1. CASE HlNext
        <3>1. HlTypes'
            BY <2>1, HlTypesStep DEF HlInv
        <3>2. ASSUME HlCalm' PROVE HlToken'
            BY <2>1, <3>2, HlCalmBefore, HlTokenStep DEF HlInv
        <3>3. ASSUME HlKnown' PROVE HlRemembered'
            <4>1. HlTypes /\ HlCalm /\ HlToken /\ HlRemembered
                BY <2>1, <3>3, HlCalmBefore DEF HlInv
            <4> QED
                BY <2>1, <3>3, <4>1, HlPumpRemembers, HlPutRemembers, HlSendRemembers, HlSenderRemembers
                   DEF HlNext, HlSenderStep
        <3> QED
            BY <3>1, <3>2, <3>3 DEF HlInv
    <2>2. CASE UNCHANGED hlVars
        <3>1. HlSenders' = HlSenders /\ (HlCalm' <=> HlCalm) /\ (HlKnown' <=> HlKnown)
            BY <2>2 DEF hlVars, HlSenders, HlCalm, HlKnown
        <3>2. HlTypes'
            BY <2>2, <3>1 DEF hlVars, HlInv, HlTypes, HlTurns
        <3>3. HlToken => HlToken'
            BY <2>2, <3>1 DEF hlVars, HlToken
        <3>4. HlRemembered => HlRemembered'
            BY <2>2, <3>1 DEF hlVars, HlRemembered, HlOwner, HlMine, HlUnderWay, HlLostToken, HlBuffer, HlFrame
        <3> QED
            BY <3>1, <3>2, <3>3, <3>4 DEF HlInv
    <2> QED
        BY <2>1, <2>2
<1>3. HlInv => HlTrueMeansSent
    BY DEF HlInv, HlTrueMeansSent, HlCalm, HlKnown, HlToken, HlRemembered
<1> QED
    BY <1>1, <1>2, <1>3, PTL DEF HlSpec

-----------------------------------------------------------------------------
(* HdlcLL.  Every byte on the line, after those that noise has touched, has *)
(* a place in the frames sent: the frame, the byte of it or of its checksum *)
(* and whether its escape character is already out.  The places of the      *)
(* bytes on the line follow one another up to the place the sender is at.   *)
(* The receiver holds what comes before the first of these places, or it    *)
(* has yet to find the end of the first frame after the damage.             *)

LlSymbols == Bytes \cup {CrcByte(f, k) : f \in Frames, k \in 1..CrcLen}
LlStored  == LlSymbols \cup {Flip(b) : b \in LlSymbols}

LlTypes ==
    /\ tx \in [state : {"start", "data", "crc", "end"}, frame : {<<>>} \cup Frames,
               sent : Nat, escape : BOOLEAN, crc_sent : Nat]
    /\ rx.state \in {"start", "data"} /\ rx.escape \in BOOLEAN /\ rx.buf \in Seq(LlStored)
    /\ rx = [state |-> rx.state, buf |-> rx.buf, escape |-> rx.escape, active |-> rx.active]
    /\ line \in Seq(LlSymbols)
    /\ delivered \in Seq(Seq(LlStored)) /\ intact \in Seq(Frames)
    /\ tainted \in BOOLEAN /\ damages \in Nat

\* A frame with its checksum, byte by byte.
LlLen(f) == Len(f) + CrcLen
LlByte(f, j) == IF j <= Len(f) THEN f[j] ELSE CrcByte(f, j - Len(f))

\* How far the sender is in its frame.
LlTx ==
    /\ tx.frame = <<>> => tx.state = "start"
    /\ tx.state = "start" => tx.sent = 0 /\ tx.crc_sent = 0 /\ ~tx.escape
    /\ tx.state = "data" => tx.sent < Len(tx.frame) /\ tx.crc_sent = 0
    /\ tx.state = "crc" => tx.sent = Len(tx.frame) /\ tx.crc_sent <= CrcLen
    /\ tx.state = "end" => tx.sent = Len(tx.frame) /\ tx.crc_sent = CrcLen /\ ~tx.escape
    /\ tx.escape => /\ tx.sent + tx.crc_sent + 1 <= LlLen(tx.frame)
                    /\ LlByte(tx.frame, tx.sent + tx.crc_sent + 1) \in Special
    /\ tainted => intact = <<>>
    /\ damages = 0 => ~tainted

\* The frames sent since the last damage, with the one under transmission.
LlSent == IF tx.frame # <<>> /\ ~tainted THEN Append(intact, tx.frame) ELSE intact

\* A place: byte j of frame n, 0 for its opening flag; e = 1 when its escape
\* character is out.
LlPlaces == [n : Nat \ {0}, j : Nat, e : {0, 1}]
LlPlace(n, j, e) == [n |-> n, j |-> j, e |-> e]
LlFirst == LlPlace(1, 0, 0)
LlPlaceOk(S, c) ==
    /\ c.n <= Len(S) + 1
    /\ c.j > 0 => c.n <= Len(S) /\ c.j <= LlLen(S[c.n]) + 1
    /\ c.e = 1 => c.j > 0 /\ c.j <= LlLen(S[c.n]) /\ LlByte(S[c.n], c.j) \in Special

\* What is sent at a place, and the place after it.
LlSymbol(S, c) ==
    IF c.j = 0 \/ c.j = LlLen(S[c.n]) + 1 THEN FLAG_SEQUENCE
    ELSE IF LlByte(S[c.n], c.j) \notin Special THEN LlByte(S[c.n], c.j)
    ELSE IF c.e = 1 THEN Flip(LlByte(S[c.n], c.j)) ELSE TINY_ESCAPE_CHAR
LlSucc(S, c) ==
    IF c.j = 0 THEN LlPlace(c.n, 1, 0)
    ELSE IF c.j = LlLen(S[c.n]) + 1 THEN LlPlace(c.n + 1, 0, 0)
    ELSE IF LlByte(S[c.n], c.j) \in Special /\ c.e = 0 THEN LlPlace(c.n, c.j, 1)
    ELSE LlPlace(c.n, c.j + 1, 0)

LlTxPlace ==
    IF tainted /\ tx.frame # <<>> THEN LlFirst
    ELSE LlPlace(Len(intact) + 1,
                 IF tx.state = "start" THEN 0 ELSE tx.sent + tx.crc_sent + 1,
                 IF tx.escape THEN 1 ELSE 0)

\* The places w of the bytes ln after the g first ones.
LlPath(S, ln, g, w) ==
    /\ g \in 0..Len(ln)
    /\ w \in Seq(LlPlaces) /\ Len(w) = Len(ln) + 1
    /\ \A i \in g + 1 .. Len(w) : LlPlaceOk(S, w[i])
    /\ \A i \in g + 1 .. Len(ln) : ln[i] = LlSymbol(S, w[i]) /\ w[i + 1] = LlSucc(S, w[i])
    /\ g > 0 => w[g + 1] = LlFirst

\* The receiver holds the bytes before place c.
LlSynced(S, c) ==
    IF c.j = 0 THEN rx.state = "start" \/ rx.buf = <<>>
    ELSE /\ rx.state = "data" /\ c.e = (IF rx.escape THEN 1 ELSE 0)
         /\ rx.buf = [i \in 1..c.j - 1 |-> LlByte(S[c.n], i)]
\* It does, or it waits for the end of the first frame; the frames from the
\* second on came last.
LlReceiver(S, c) ==
    /\ (c.n = 1 /\ (c.j = 0 \/ rx.state = "start")) \/ LlSynced(S, c)
    /\ Len(delivered) >= c.n - 2
    /\ \A k \in 2..c.n - 1 : delivered[Len(delivered) - (c.n - 1) + k] = S[k]
\* Without damage all frames before place c are delivered, and no other.
LlExact(S, c) ==
    /\ LlSynced(S, c)
    /\ Len(delivered) = c.n - 1
    /\ \A k \in 1..c.n - 1 : delivered[k] = S[k]

LlHolds(S, g, w) ==
    /\ LlPath(S, line, g, w)
    /\ w[Len(w)] = LlTxPlace
    /\ g = 0 => LlReceiver(S, w[1])
    /\ damages = 0 => g = 0 /\ LlExact(S, w[1])
LlInv == LlTypes /\ LlTx /\ \E g \in Nat, w \in Seq(LlPlaces) : LlHolds(LlSent, g, w)

-----------------------------------------------------------------------------
LEMMA LlFrames ==
    ASSUME NEW f \in Frames
    PROVE  f \in Seq(Bytes) /\ Len(f) \in 1..Mtu /\ f # <<>> /\ CrcLen \in Nat /\ LlLen(f) \in Nat /\ LlLen(f) <= PhysMtu
           /\ Mtu \in Nat
BY FramingAssumption DEF LlLen, PhysMtu

LEMMA LlByteType ==
    ASSUME NEW f \in Frames, NEW j \in 1..LlLen(f)
    PROVE  LlByte(f, j) \in LlSymbols
<1> f \in Seq(Bytes) /\ Len(f) \in Nat /\ CrcLen \in Nat
  BY LlFrames
<1>1. CASE j <= Len(f)
  BY <1>1 DEF LlByte, LlSymbols
<1>2. CASE ~(j <= Len(f))
  <2> j - Len(f) \in 1..CrcLen
    BY <1>2 DEF LlLen
  <2> QED BY <1>2 DEF LlByte, LlSymbols
<1> QED BY <1>1, <1>2

LEMMA LlFlips ==
    ASSUME NEW b \in Special
    PROVE  Flip(b) \in Bytes \ Special /\ Flip(Flip(b)) = b
<1>1. Flip(126) = 94 /\ Flip(94) = 126 /\ Flip(125) = 93 /\ Flip(93) = 125
  <2> 126 \div 32 = 3 /\ 94 \div 32 = 2 /\ 125 \div 32 = 3 /\ 93 \div 32 = 2
    OBVIOUS
  <2> 3 % 2 = 1 /\ 2 % 2 = 0
    OBVIOUS
  <2> QED BY DEF Flip, TINY_ESCAPE_BIT
<1> QED BY <1>1 DEF Special, Bytes, FLAG_SEQUENCE, TINY_ESCAPE_CHAR

LEMMA LlPlaceTypes ==
    ASSUME NEW n \in Nat \ {0}, NEW j \in Nat, NEW e \in {0, 1}
    PROVE  /\ LlPlace(n, j, e) \in LlPlaces
           /\ LlPlace(n, j, e).n = n /\ LlPlace(n, j, e).j = j /\ LlPlace(n, j, e).e = e
BY DEF LlPlace, LlPlaces

LEMMA LlPlaceOkIs ==
    ASSUME NEW S, NEW n \in Nat \ {0}, NEW j \in Nat, NEW e \in {0, 1}
    PROVE  LlPlaceOk(S, LlPlace(n, j, e)) <=>
             /\ n <= Len(S) + 1
             /\ j > 0 => n <= Len(S) /\ j <= LlLen(S[n]) + 1
             /\ e = 1 => j > 0 /\ j <= LlLen(S[n]) /\ LlByte(S[n], j) \in Special
BY LlPlaceTypes DEF LlPlaceOk

LEMMA LlSuccType ==
    ASSUME NEW S \in Seq(Frames), NEW c \in LlPlaces
    PROVE  LlSucc(S, c) \in LlPlaces
<1> c.n \in Nat \ {0} /\ c.j \in Nat /\ c.n + 1 \in Nat \ {0} /\ c.j + 1 \in Nat /\ 1 \in Nat
  BY DEF LlPlaces
<1> QED BY LlPlaceTypes DEF LlSucc

\* Beyond the last frame only the place before an opening flag is left.
LEMMA LlSuccOk ==
    ASSUME NEW S \in Seq(Frames), NEW c \in LlPlaces, LlPlaceOk(S, c), c.n <= Len(S)
    PROVE  LlPlaceOk(S, LlSucc(S, c)) /\ LlSymbol(S, c) \in LlSymbols
<1> c.n \in Nat \ {0} /\ c.j \in Nat /\ c.n + 1 \in Nat \ {0} /\ c.j + 1 \in Nat /\ 1 \in Nat /\ c.e \in {0, 1}
  BY DEF LlPlaces
<1> DEFINE f == S[c.n]
<1>0. f \in Frames /\ Len(S) \in Nat
  OBVIOUS
<1>1. LlLen(f) \in Nat /\ LlLen(f) >= 1
  BY <1>0, LlFrames DEF LlLen
<1>2. 126 \in LlSymbols /\ 125 \in LlSymbols
  BY DEF LlSymbols, Bytes
<1>3. CASE c.j = 0
  <2> LlSucc(S, c) = LlPlace(c.n, 1, 0) /\ LlSymbol(S, c) = 126
    BY <1>3 DEF LlSucc, LlSymbol, FLAG_SEQUENCE
  <2> LlPlaceOk(S, LlPlace(c.n, 1, 0))
    BY <1>0, <1>1, LlPlaceOkIs
  <2> QED BY <1>2
<1>4. CASE c.j = LlLen(f) + 1
  <2> c.j # 0
    BY <1>4, <1>1
  <2> LlSucc(S, c) = LlPlace(c.n + 1, 0, 0) /\ LlSymbol(S, c) = 126
    BY <1>4 DEF LlSucc, LlSymbol, FLAG_SEQUENCE
  <2> LlPlaceOk(S, LlPlace(c.n + 1, 0, 0))
    <3> PICK m \in Nat \ {0} : m = c.n + 1
      OBVIOUS
    <3> m <= Len(S) + 1 /\ 0 \in Nat /\ 0 \in {0, 1}
      BY <1>0
    <3> LlPlaceOk(S, LlPlace(m, 0, 0))
      BY LlPlaceOkIs
    <3> QED OBVIOUS
  <2> QED BY <1>2
<1>5. CASE c.j # 0 /\ c.j # LlLen(f) + 1
  <2> c.j \in 1..LlLen(f)
    BY <1>5, <1>1 DEF LlPlaceOk
  <2>1. LlByte(f, c.j) \in LlSymbols
    BY <1>0, LlByteType
  <2>2. CASE LlByte(f, c.j) \in Special /\ c.e = 0
    <3> LlSucc(S, c) = LlPlace(c.n, c.j, 1) /\ LlSymbol(S, c) = 125
      BY <1>5, <2>2 DEF LlSucc, LlSymbol, TINY_ESCAPE_CHAR
    <3>1. /\ c.n \in Nat \ {0} /\ c.j \in Nat /\ 1 \in {0, 1} /\ c.n <= Len(S) + 1
          /\ c.j > 0 => c.n <= Len(S) /\ c.j <= LlLen(S[c.n]) + 1
          /\ c.j > 0 /\ c.j <= LlLen(S[c.n]) /\ LlByte(S[c.n], c.j) \in Special
      BY <1>0, <1>1, <2>2
    <3> LlPlaceOk(S, LlPlace(c.n, c.j, 1))
      BY ONLY <3>1, LlPlaceOkIs
    <3> QED BY <1>2
  <2>3. CASE ~(LlByte(f, c.j) \in Special /\ c.e = 0)
    <3>1. LlSucc(S, c) = LlPlace(c.n, c.j + 1, 0)
      BY <1>5, <2>3 DEF LlSucc
    <3>2. LlPlaceOk(S, LlSucc(S, c))
      <4> LlPlaceOk(S, LlPlace(c.n, c.j + 1, 0))
        BY <1>0, <1>1, LlPlaceOkIs
      <4> QED BY <3>1
    <3>3. LlSymbol(S, c) \in LlSymbols
      <4>1. CASE LlByte(f, c.j) \in Special
        <5> Flip(LlByte(f, c.j)) \in LlSymbols
          BY <4>1, LlFlips DEF LlSymbols
        <5> QED BY <1>5, <2>3, <4>1 DEF LlSymbol
      <4>2. CASE LlByte(f, c.j) \notin Special
        BY <1>5, <2>1, <4>2 DEF LlSymbol
      <4> QED BY <4>1, <4>2
    <3> QED BY <3>2, <3>3
  <2> QED BY <2>2, <2>3
<1> QED BY <1>3, <1>4, <1>5

-----------------------------------------------------------------------------
LlReads(b) == ReadStart(b) \/ ReadData(b) \/ ReadAlignment(b) \/ ReadEnd(b)

LEMMA LlNoFlag ==
    ASSUME NEW S \in Seq(Frames), NEW c \in LlPlaces, LlPlaceOk(S, c), c.j # 0, c.j # LlLen(S[c.n]) + 1
    PROVE  LlSymbol(S, c) # FLAG_SEQUENCE
<1> DEFINE x == LlByte(S[c.n], c.j)
<1>1. CASE x \notin Special
  BY <1>1 DEF LlSymbol, Special
<1>2. CASE x \in Special
  BY <1>2, LlFlips DEF LlSymbol, Special, FLAG_SEQUENCE, TINY_ESCAPE_CHAR
<1> QED BY <1>1, <1>2

\* The receiver gets the whole frame: the checksum matches and the payload is it.
LEMMA LlWhole ==
    ASSUME LlTypes, NEW f \in Frames, rx.buf = [i \in 1..LlLen(f) |-> LlByte(f, i)]
    PROVE  CrcMatches /\ Payload = f /\ rx.buf # <<>>
<1>0. f \in Seq(Bytes) /\ Len(f) \in Nat /\ Len(f) >= 1 /\ CrcLen \in Nat /\ LlLen(f) = Len(f) + CrcLen
  BY LlFrames DEF LlLen
<1>1. rx.buf \in Seq(LlStored) /\ Len(rx.buf) = LlLen(f)
  BY <1>0 DEF LlTypes
<1>2. Payload = f
  <2>1. Payload = SubSeq(rx.buf, 1, Len(f))
    BY <1>0, <1>1 DEF Payload
  <2>2. Payload = [i \in 1..Len(f) |-> rx.buf[i]]
    BY <1>0, <1>1, <2>1
  <2>3. \A i \in 1..Len(f) : rx.buf[i] = f[i]
    BY <1>0 DEF LlByte
  <2>4. f = [i \in 1..Len(f) |-> f[i]]
    BY <1>0
  <2> QED BY <2>2, <2>3, <2>4
<1>3. CrcField = Crc(f)
  <2>1. CrcField = SubSeq(rx.buf, Len(f) + 1, LlLen(f))
    <3>1. Len(rx.buf) - CrcLen = Len(f) /\ Len(rx.buf) = LlLen(f)
      BY ONLY <1>0, <1>1
    <3> QED BY ONLY <3>1 DEF CrcField
  <2>2. CrcField = [i \in 1..CrcLen |-> rx.buf[Len(f) + i]]
    BY <1>0, <1>1, <2>1
  <2>3. \A i \in 1..CrcLen : rx.buf[Len(f) + i] = CrcByte(f, i)
    <3> SUFFICES ASSUME NEW i \in 1..CrcLen PROVE rx.buf[Len(f) + i] = CrcByte(f, i)
      OBVIOUS
    <3> Len(f) + i \in 1..LlLen(f) /\ ~(Len(f) + i <= Len(f)) /\ (Len(f) + i) - Len(f) = i
      BY <1>0
    <3> QED BY DEF LlByte
  <2> QED BY <2>2, <2>3 DEF Crc
<1>4. rx.buf # <<>>
  BY <1>0, <1>1
<1> QED BY <1>0, <1>1, <1>2, <1>3, <1>4 DEF CrcMatches

LEMMA LlSyncedAt ==
    ASSUME NEW S, NEW n \in Nat \ {0}, NEW j \in Nat \ {0}, NEW e \in {0, 1},
           rx'.state = "data", e = (IF rx'.escape THEN 1 ELSE 0), rx'.buf = [i \in 1..j - 1 |-> LlByte(S[n], i)]
    PROVE  LlSynced(S, LlPlace(n, j, e))'
<1> LlPlace(n, j, e).n = n /\ LlPlace(n, j, e).j = j /\ LlPlace(n, j, e).e = e
  BY LlPlaceTypes
<1> QED BY DEF LlSynced

\* A byte read at its place.
LEMMA LlSyncStep ==
    ASSUME LlTypes, NEW S \in Seq(Frames), NEW c \in LlPlaces, LlPlaceOk(S, c), c.n <= Len(S),
           LlReads(LlSymbol(S, c)), LlSynced(S, c)
    PROVE  /\ LlSynced(S, LlSucc(S, c))'
           /\ delivered' = IF c.j = LlLen(S[c.n]) + 1 THEN Append(delivered, S[c.n]) ELSE delivered
<1> c.n \in Nat \ {0} /\ c.j \in Nat /\ c.n + 1 \in Nat \ {0} /\ c.j + 1 \in Nat /\ 1 \in Nat /\ c.e \in {0, 1}
  BY DEF LlPlaces
<1> DEFINE f == S[c.n]
<1>0. f \in Frames /\ Len(S) \in Nat
  OBVIOUS
<1>1. LlLen(f) \in Nat /\ LlLen(f) >= 1 /\ LlLen(f) <= PhysMtu /\ PhysMtu \in Nat
  <2>0. PICK x \in Frames : x = f
    BY <1>0
  <2>4. LlLen(x) \in Nat /\ LlLen(x) <= PhysMtu /\ Len(x) >= 1 /\ Len(x) \in Nat /\ CrcLen \in Nat
    <3>1. x \in Frames
      OBVIOUS
    <3>2. LlLen(x) \in Nat /\ LlLen(x) <= PhysMtu /\ Len(x) \in 1..Mtu /\ CrcLen \in Nat /\ Mtu \in Nat
      BY ONLY <3>1, LlFrames
    <3> QED BY ONLY <3>2
  <2>1. LlLen(f) \in Nat /\ LlLen(f) <= PhysMtu /\ Len(f) >= 1 /\ Len(f) \in Nat /\ CrcLen \in Nat
    BY <2>0, <2>4
  <2>2. PhysMtu \in Nat
    BY FramingAssumption DEF PhysMtu
  <2>3. LlLen(f) >= 1
    BY <2>1 DEF LlLen
  <2> QED BY <2>1, <2>2, <2>3
<1>2. CASE c.j = 0
  <2>1. LlSucc(S, c) = LlPlace(c.n, 1, 0) /\ LlSymbol(S, c) = FLAG_SEQUENCE
    BY <1>2 DEF LlSucc, LlSymbol
  <2>2. rx.state = "start" \/ rx.buf = <<>>
    BY <1>2 DEF LlSynced
  <2>3. rx'.state = "data" /\ rx'.buf = <<>> /\ rx'.escape = FALSE /\ delivered' = delivered
    BY <2>1, <2>2 DEF LlReads, ReadStart, ReadData, ReadAlignment, ReadEnd, LlTypes
  <2>4. rx'.buf = [i \in 1..1 - 1 |-> LlByte(S[c.n], i)]
    <3> 1..1 - 1 = {}
      OBVIOUS
    <3> QED BY <2>3
  <2>5. LlSynced(S, LlPlace(c.n, 1, 0))'
    <3> 0 = (IF rx'.escape THEN 1 ELSE 0)
      BY <2>3
    <3> QED BY <2>3, <2>4, LlSyncedAt
  <2> QED BY <1>1, <1>2, <2>1, <2>3, <2>5
<1>3. CASE c.j = LlLen(f) + 1
  <2>0. c.j # 0 /\ c.j - 1 = LlLen(f)
    BY <1>1, <1>3
  <2>1. LlSucc(S, c) = LlPlace(c.n + 1, 0, 0) /\ LlSymbol(S, c) = FLAG_SEQUENCE
    BY <1>3, <2>0 DEF LlSucc, LlSymbol
  <2>2. rx.state = "data" /\ rx.buf = [i \in 1..LlLen(f) |-> LlByte(f, i)]
    BY <2>0 DEF LlSynced
  <2>3. CrcMatches /\ Payload = f /\ rx.buf # <<>>
    BY <1>0, <2>2, LlWhole
  <2>4. ReadEnd(FLAG_SEQUENCE)
    BY <2>1, <2>2, <2>3 DEF LlReads, ReadStart, ReadData, ReadAlignment
  <2>5. rx'.state = "start" /\ delivered' = Append(delivered, f)
    BY <2>3, <2>4 DEF ReadEnd, LlTypes
  <2>6. LlPlace(c.n + 1, 0, 0).j = 0
    BY DEF LlPlace
  <2>7. LlSynced(S, LlPlace(c.n + 1, 0, 0))'
    BY <2>5, <2>6 DEF LlSynced
  <2> QED BY <1>3, <2>1, <2>5, <2>7
<1>4. CASE c.j # 0 /\ c.j # LlLen(f) + 1
  <2> DEFINE x == LlByte(f, c.j)
             b == LlSymbol(S, c)
  <2>1. c.j \in 1..LlLen(f)
    BY <1>4, <1>1 DEF LlPlaceOk
  <2>2. b # FLAG_SEQUENCE
    BY <1>4, LlNoFlag
  <2>3. rx.state = "data" /\ c.e = (IF rx.escape THEN 1 ELSE 0) /\ rx.buf = [i \in 1..c.j - 1 |-> LlByte(f, i)]
    BY <1>4 DEF LlSynced
  <2>4. Len(rx.buf) = c.j - 1 /\ Len(rx.buf) < PhysMtu /\ rx.buf \in Seq(LlStored)
    <3>1. rx.buf \in Seq(LlStored)
      BY DEF LlTypes
    <3>2. DOMAIN rx.buf = 1..c.j - 1 /\ c.j - 1 \in Nat
      BY <2>1, <2>3
    <3>3. Len(rx.buf) = c.j - 1
      BY <3>1, <3>2
    <3> QED BY <1>1, <2>1, <3>1, <3>3
  <2>5. ReadData(b) /\ delivered' = delivered
    BY <2>2, <2>3 DEF LlReads, ReadStart, ReadData, ReadAlignment, ReadEnd
  <2>6. CASE x \in Special /\ c.e = 0
    <3>1. LlSucc(S, c) = LlPlace(c.n, c.j, 1) /\ b = TINY_ESCAPE_CHAR
      BY <1>4, <2>6 DEF LlSucc, LlSymbol
    <3>2. rx'.state = "data" /\ rx'.escape = TRUE /\ rx'.buf = rx.buf
      BY <2>3, <2>5, <3>1 DEF ReadData, LlTypes
    <3>3. LlPlace(c.n, c.j, 1).j = c.j /\ LlPlace(c.n, c.j, 1).e = 1 /\ LlPlace(c.n, c.j, 1).n = c.n
      BY LlPlaceTypes
    <3>4. LlSynced(S, LlPlace(c.n, c.j, 1))'
      BY <1>4, <2>3, <3>2, <3>3 DEF LlSynced
    <3> QED BY <1>4, <2>5, <3>1, <3>4
  <2>7. CASE ~(x \in Special /\ c.e = 0)
    <3>1. LlSucc(S, c) = LlPlace(c.n, c.j + 1, 0)
      BY <1>4, <2>7 DEF LlSucc
    <3>2. b # TINY_ESCAPE_CHAR /\ x = IF rx.escape THEN Flip(b) ELSE b
      <4>1. CASE x \in Special
        <5> b = Flip(x) /\ rx.escape = TRUE
          BY <1>4, <2>3, <2>7, <4>1 DEF LlSymbol
        <5> QED BY <4>1, LlFlips DEF Special
      <4>2. CASE x \notin Special
        <5>1. c.e # 1
          BY <4>2 DEF LlPlaceOk
        <5>2. b = x
          BY <1>4, <4>2 DEF LlSymbol
        <5> QED BY <2>3, <4>2, <5>1, <5>2 DEF Special
      <4> QED BY <4>1, <4>2
    <3>3. rx'.state = "data" /\ rx'.escape = FALSE /\ rx'.buf = Append(rx.buf, x)
      BY <2>2, <2>3, <2>4, <2>5, <3>2 DEF ReadData, LlTypes
    <3>4. rx'.buf = [i \in 1..c.j |-> LlByte(f, i)]
      <4>1. x \in LlStored
        BY <1>0, <2>1, LlByteType DEF LlStored
      <4>2. rx'.buf = [i \in 1..c.j |-> IF i = c.j THEN x ELSE rx.buf[i]]
        BY <2>1, <2>4, <3>3, <4>1
      <4>3. \A i \in 1..c.j : i # c.j => rx.buf[i] = LlByte(f, i)
        BY <2>1, <2>3
      <4> QED BY <4>2, <4>3
    <3>6. LlSynced(S, LlPlace(c.n, c.j + 1, 0))'
      <4> PICK m \in Nat \ {0} : m = c.j + 1
        OBVIOUS
      <4> m - 1 = c.j
        OBVIOUS
      <4> 0 = (IF rx'.escape THEN 1 ELSE 0) /\ rx'.buf = [i \in 1..m - 1 |-> LlByte(S[c.n], i)]
        BY <3>3, <3>4
      <4> LlSynced(S, LlPlace(c.n, m, 0))'
        BY <3>3, LlSyncedAt
      <4> QED OBVIOUS
    <3> QED BY <1>4, <2>5, <3>1, <3>6
  <2> QED BY <2>6, <2>7
<1> QED BY <1>2, <1>3, <1>4

\* A byte read before the end of the first frame after the damage.
LEMMA LlSkipStep ==
    ASSUME LlTypes, NEW S \in Seq(Frames), NEW c \in LlPlaces, LlPlaceOk(S, c), c.n <= Len(S),
           LlReads(LlSymbol(S, c)), c.n = 1, c.j = 0 \/ rx.state = "start"
    PROVE  /\ (LlSucc(S, c).n = 1 /\ rx'.state = "start") \/ LlSynced(S, LlSucc(S, c))'
           /\ LlSucc(S, c).n \in {1, 2}
<1> c.n \in Nat \ {0} /\ c.j \in Nat /\ c.n + 1 \in Nat \ {0} /\ c.j + 1 \in Nat /\ 1 \in Nat /\ c.e \in {0, 1}
  BY DEF LlPlaces
<1> DEFINE f == S[c.n]
<1>1. LlLen(f) \in Nat /\ LlLen(f) >= 1
  BY LlFrames DEF LlLen
<1>2. CASE c.j = 0
  <2>1. LlSucc(S, c) = LlPlace(c.n, 1, 0) /\ LlSymbol(S, c) = FLAG_SEQUENCE
    BY <1>2 DEF LlSucc, LlSymbol
  <2>2. LlPlace(c.n, 1, 0).n = 1
    BY DEF LlPlace
  <2>3. CASE rx.state = "start" \/ rx.buf = <<>>
    <3> LlSynced(S, c)
      BY <1>2, <2>3 DEF LlSynced
    <3> LlSynced(S, LlSucc(S, c))'
      BY LlSyncStep
    <3> QED BY <2>1, <2>2
  <2>4. CASE ~(rx.state = "start" \/ rx.buf = <<>>)
    <3> rx'.state = "start"
      BY <2>1, <2>4 DEF LlReads, ReadStart, ReadData, ReadAlignment, ReadEnd, LlTypes
    <3> QED BY <2>1, <2>2
  <2> QED BY <2>3, <2>4
<1>3. CASE c.j = LlLen(f) + 1
  <2>0. c.j # 0 /\ rx.state = "start"
    BY <1>1, <1>3
  <2>1. LlSucc(S, c) = LlPlace(c.n + 1, 0, 0) /\ LlSymbol(S, c) = FLAG_SEQUENCE
    BY <1>3, <2>0 DEF LlSucc, LlSymbol
  <2>2. LlPlace(c.n + 1, 0, 0).n = 2 /\ LlPlace(c.n + 1, 0, 0).j = 0
    BY DEF LlPlace
  <2>3. rx'.buf = <<>>
    BY <2>0, <2>1 DEF LlReads, ReadStart, ReadData, ReadAlignment, ReadEnd, LlTypes
  <2> QED BY <2>1, <2>2, <2>3 DEF LlSynced
<1>4. CASE c.j # 0 /\ c.j # LlLen(f) + 1
  <2>1. LlSymbol(S, c) # FLAG_SEQUENCE /\ rx.state = "start"
    BY <1>4, LlNoFlag
  <2>2. rx' = rx
    BY <2>1 DEF LlReads, ReadStart, ReadData, ReadAlignment, ReadEnd
  <2>3. LlSucc(S, c).n = 1
    BY <1>4 DEF LlSucc, LlPlace
  <2> QED BY <2>1, <2>2, <2>3
<1> QED BY <1>2, <1>3, <1>4

\* What is delivered, type and length.
LEMMA LlReadTypes ==
    ASSUME LlTypes, NEW b \in LlSymbols, LlReads(b)
    PROVE  /\ rx'.state \in {"start", "data"} /\ rx'.escape \in BOOLEAN /\ rx'.buf \in Seq(LlStored)
           /\ rx' = [state |-> rx'.state, buf |-> rx'.buf, escape |-> rx'.escape, active |-> rx'.active]
           /\ delivered' \in Seq(Seq(LlStored))
<1>1. CASE ReadStart(b)
  <2> <<>> \in Seq(LlStored)
    OBVIOUS
  <2>1. \/ rx' = [rx EXCEPT !.state = "data", !.buf = <<>>, !.escape = FALSE]
        \/ rx' = rx
    BY <1>1 DEF ReadStart
  <2>2. delivered' = delivered
    BY <1>1 DEF ReadStart
  <2> QED BY <2>1, <2>2 DEF LlTypes
<1>2. CASE ReadData(b)
  <2> b \in LlStored /\ Flip(b) \in LlStored
    BY DEF LlStored
  <2> DEFINE x == IF rx.escape THEN Flip(b) ELSE b
  <2>1. x \in LlStored /\ Append(rx.buf, x) \in Seq(LlStored)
    BY DEF LlTypes
  <2> HIDE DEF x
  <2>2. \/ rx' = [rx EXCEPT !.escape = TRUE]
        \/ rx' = [rx EXCEPT !.buf = Append(@, x), !.escape = FALSE]
        \/ rx' = rx
    BY <1>2 DEF ReadData, x
  <2>3. delivered' = delivered
    BY <1>2 DEF ReadData
  <2> QED BY <2>1, <2>2, <2>3 DEF LlTypes
<1>3. CASE ReadAlignment(b)
  BY <1>3 DEF ReadAlignment, LlTypes
<1>4. CASE ReadEnd(b)
  <2>1. CASE CrcMatches
    <3>1. Payload \in Seq(LlStored)
      <4> rx.buf \in Seq(LlStored) /\ Len(rx.buf) >= CrcLen /\ CrcLen \in Nat
        BY <2>1, FramingAssumption DEF CrcMatches, LlTypes
      <4> Len(rx.buf) - CrcLen \in 0..Len(rx.buf)
        OBVIOUS
      <4> QED BY SubSeqProperties DEF Payload
    <3>2. delivered' = Append(delivered, Payload) /\ delivered \in Seq(Seq(LlStored))
      BY <1>4, <2>1 DEF ReadEnd, LlTypes
    <3>3. delivered' \in Seq(Seq(LlStored))
      BY <3>1, <3>2
    <3> QED BY <1>4, <2>1, <3>3 DEF ReadEnd, LlTypes
  <2>2. CASE ~CrcMatches
    BY <1>4, <2>2 DEF ReadEnd, LlTypes
  <2> QED BY <2>1, <2>2
<1> QED BY <1>1, <1>2, <1>3, <1>4 DEF LlReads

LEMMA LlIndex ==
    ASSUME NEW a \in Nat, NEW m \in Nat, NEW k \in 2..m - 1, a >= m - 2
    PROVE  (a + 1) - m + k = a - (m - 1) + k /\ a - (m - 1) + k \in 1..a
OBVIOUS

\* A byte read at its place: the frame it completes is the last one delivered.
LEMMA LlRead ==
    ASSUME LlTypes, NEW S \in Seq(Frames), NEW c \in LlPlaces, LlPlaceOk(S, c), c.n <= Len(S),
           LlReads(LlSymbol(S, c)), LlReceiver(S, c)
    PROVE  /\ LlReceiver(S, LlSucc(S, c))'
           /\ LlExact(S, c) => LlExact(S, LlSucc(S, c))'
<1> c.n \in Nat \ {0} /\ c.j \in Nat /\ c.n + 1 \in Nat \ {0} /\ c.j + 1 \in Nat /\ 1 \in Nat /\ c.e \in {0, 1}
  BY DEF LlPlaces
<1> DEFINE f == S[c.n]
           d == LlSucc(S, c)
<1>0. f \in Frames /\ Len(S) \in Nat /\ LlLen(f) \in Nat /\ f \in Seq(LlStored)
  <2> f \in Frames
    OBVIOUS
  <2> f \in Seq(Bytes) /\ LlLen(f) \in Nat
    BY LlFrames
  <2> Bytes \subseteq LlStored
    BY DEF LlStored, LlSymbols
  <2> QED BY SeqMonotonic
<1>1. delivered \in Seq(Seq(LlStored)) /\ delivered' \in Seq(Seq(LlStored)) /\ Len(delivered) \in Nat /\ Len(delivered') \in Nat
  <2>1. LlSymbol(S, c) \in LlSymbols
    BY LlSuccOk
  <2>2. PICK b \in LlSymbols : b = LlSymbol(S, c)
    BY <2>1
  <2>3. LlReads(b)
    BY <2>2
  <2>4. delivered' \in Seq(Seq(LlStored))
    BY <2>3, LlReadTypes
  <2>5. delivered \in Seq(Seq(LlStored))
    BY DEF LlTypes
  <2> QED BY <2>4, <2>5
<1>2. d.n = IF c.j = LlLen(f) + 1 THEN c.n + 1 ELSE c.n
  <2> 0 # LlLen(f) + 1
    BY <1>0
  <2> QED BY DEF LlSucc, LlPlace
<1>3. CASE LlSynced(S, c)
  <2>1. LlSynced(S, d)' /\ delivered' = IF c.j = LlLen(f) + 1 THEN Append(delivered, f) ELSE delivered
    BY <1>3, LlSyncStep
  <2>2. CASE c.j = LlLen(f) + 1
    <3>1. delivered' = Append(delivered, f) /\ d.n = c.n + 1
      BY <1>2, <2>1, <2>2
    <3>2. Len(delivered') = Len(delivered) + 1 /\ delivered'[Len(delivered) + 1] = f
          /\ \A k \in 1..Len(delivered) : delivered'[k] = delivered[k]
      BY <1>0, <1>1, <3>1
    <3>3. \A k \in 2..c.n : delivered'[Len(delivered') - c.n + k] = S[k]
      <4> SUFFICES ASSUME NEW k \in 2..c.n PROVE delivered'[Len(delivered') - c.n + k] = S[k]
        OBVIOUS
      <4>1. CASE k = c.n
        <5> Len(delivered') - c.n + k = Len(delivered) + 1
          BY <1>1, <3>2, <4>1
        <5> QED BY <3>2, <4>1
      <4>2. CASE k # c.n
        <5>1. k \in 2..c.n - 1
          BY <4>2
        <5>2. Len(delivered) >= c.n - 2 /\ delivered[Len(delivered) - (c.n - 1) + k] = S[k]
          BY <5>1 DEF LlReceiver
        <5>3. Len(delivered') - c.n + k = Len(delivered) - (c.n - 1) + k /\ Len(delivered) - (c.n - 1) + k \in 1..Len(delivered)
          <6>1. PICK a \in Nat, m \in Nat : a = Len(delivered) /\ m = c.n
            BY <1>1
          <6>2. Len(delivered') = a + 1 /\ k \in 2..m - 1 /\ a >= m - 2
            BY <3>2, <5>1, <5>2, <6>1
          <6>3. (a + 1) - m + k = a - (m - 1) + k /\ a - (m - 1) + k \in 1..a
            BY ONLY a \in Nat, m \in Nat, <6>2, LlIndex
          <6> QED BY ONLY <6>1, <6>2, <6>3
        <5> QED BY <3>2, <5>2, <5>3
      <4> QED BY <4>1, <4>2
    <3>4. LlReceiver(S, d)'
      <4> Len(delivered') >= d.n - 2
        BY <1>1, <3>1, <3>2 DEF LlReceiver
      <4> d.n - 1 = c.n
        BY <3>1
      <4> QED BY <2>1, <3>3 DEF LlReceiver
    <3>5. ASSUME LlExact(S, c) PROVE LlExact(S, d)'
      <4> Len(delivered) = c.n - 1 /\ \A k \in 1..c.n - 1 : delivered[k] = S[k]
        BY <3>5 DEF LlExact
      <4> d.n - 1 = c.n /\ Len(delivered') = c.n
        BY <3>1, <3>2
      <4> ASSUME NEW k \in 1..c.n PROVE delivered'[k] = S[k]
        <5>1. CASE k = c.n
          BY <3>2, <5>1
        <5>2. CASE k # c.n
          <6> k \in 1..c.n - 1 /\ k \in 1..Len(delivered)
            BY <5>2
          <6> QED BY <3>2
        <5> QED BY <5>1, <5>2
      <4> QED BY <2>1 DEF LlExact
    <3> QED BY <3>4, <3>5
  <2>3. CASE c.j # LlLen(f) + 1
    <3> delivered' = delivered /\ d.n = c.n
      BY <1>2, <2>1, <2>3
    <3> QED BY <2>1 DEF LlReceiver, LlExact
  <2> QED BY <2>2, <2>3
<1>4. CASE ~LlSynced(S, c)
  <2>1. c.n = 1 /\ (c.j = 0 \/ rx.state = "start")
    BY <1>4 DEF LlReceiver
  <2>2. ((d.n = 1 /\ rx'.state = "start") \/ LlSynced(S, d)') /\ d.n \in {1, 2}
    BY <2>1, LlSkipStep
  <2>3. 2..d.n - 1 = {} /\ Len(delivered') >= d.n - 2
    BY <1>1, <2>2
  <2>4. LlReceiver(S, d)'
    BY <2>2, <2>3 DEF LlReceiver
  <2> QED BY <1>4, <2>4 DEF LlExact
<1> QED BY <1>3, <1>4

-----------------------------------------------------------------------------
\* A path from place c to place d.
LlPathTo(S, ln, g, w, c, d) == LlPath(S, ln, g, w) /\ w[1] = c /\ w[Len(w)] = d

\* The path loses its first place with the byte that is read.
LEMMA LlPathRead ==
    ASSUME NEW S \in Seq(Frames), NEW ln \in Seq(LlSymbols), ln # <<>>, NEW g \in Nat, NEW d,
           NEW w \in Seq(LlPlaces), LlPathTo(S, ln, g, w, w[1], d), NEW h, h = IF g = 0 THEN 0 ELSE g - 1
    PROVE  \E u \in Seq(LlPlaces) : LlPathTo(S, Tail(ln), h, u, w[2], d)
<1> LlPath(S, ln, g, w) /\ w[Len(w)] = d
  BY DEF LlPathTo
<1> PICK n \in Nat : n = Len(ln)
  OBVIOUS
<1>0. n >= 1 /\ Len(w) = n + 1 /\ g \in 0..n /\ w # <<>>
  BY DEF LlPath
<1>1. Len(Tail(ln)) = n - 1 /\ \A i \in 1..n - 1 : Tail(ln)[i] = ln[i + 1]
  BY <1>0
<1>2. Tail(w) \in Seq(LlPlaces) /\ Len(Tail(w)) = n /\ \A i \in 1..n : Tail(w)[i] = w[i + 1]
  BY <1>0
<1>3. h \in 0..n - 1
  BY <1>0
<1>4. ASSUME NEW i \in h + 1 .. n PROVE LlPlaceOk(S, Tail(w)[i])
  <2> i + 1 \in g + 1 .. Len(w) /\ i \in 1..n
    BY <1>0, <1>3
  <2> QED BY <1>2 DEF LlPath
<1>5. ASSUME NEW i \in h + 1 .. n - 1
      PROVE  Tail(ln)[i] = LlSymbol(S, Tail(w)[i]) /\ Tail(w)[i + 1] = LlSucc(S, Tail(w)[i])
  <2> PICK m \in Nat : m = i + 1
    BY <1>3
  <2> m \in g + 1 .. Len(ln) /\ i \in 1..n - 1 /\ i \in 1..n /\ m \in 1..n
    BY <1>0, <1>3
  <2>1. ln[m] = LlSymbol(S, w[m]) /\ w[m + 1] = LlSucc(S, w[m])
    BY DEF LlPath
  <2>2. Tail(ln)[i] = ln[m] /\ Tail(w)[i] = w[m] /\ Tail(w)[m] = w[m + 1]
    BY <1>1, <1>2
  <2> QED BY <2>1, <2>2
<1>6. h > 0 => Tail(w)[h + 1] = LlFirst
  <2> SUFFICES ASSUME h > 0 PROVE Tail(w)[h + 1] = LlFirst
    OBVIOUS
  <2> h + 1 = g /\ g \in 1..n
    BY <1>0, <1>3
  <2> w[g + 1] = LlFirst
    BY <1>0 DEF LlPath
  <2> QED BY <1>2
<1>7. Tail(w)[n] = w[n + 1] /\ Tail(w)[1] = w[2]
  BY <1>0, <1>2
<1>8. LlPath(S, Tail(ln), h, Tail(w))
  BY <1>0, <1>1, <1>2, <1>3, <1>4, <1>5, <1>6 DEF LlPath
<1> QED BY <1>0, <1>2, <1>7, <1>8 DEF LlPathTo

LlJoined(l, ln, m) == l = ln \o m

\* The bytes m sent from place c on, with the places v behind each.
LlGrows(S, c, m, v) ==
    /\ Len(v) = Len(m) /\ Len(m) > 0
    /\ \A i \in 1..Len(m) : LlPlaceOk(S, v[i])
    /\ m[1] = LlSymbol(S, c) /\ v[1] = LlSucc(S, c)
    /\ \A i \in 2..Len(m) : m[i] = LlSymbol(S, v[i - 1]) /\ v[i] = LlSucc(S, v[i - 1])

\* The path grows with the bytes that are sent.
LEMMA LlPathGrow ==
    ASSUME NEW S \in Seq(Frames), NEW ln \in Seq(LlSymbols), NEW g \in Nat, NEW c, NEW d,
           NEW w \in Seq(LlPlaces), LlPathTo(S, ln, g, w, c, d),
           NEW m \in Seq(LlSymbols), NEW v \in Seq(LlPlaces), LlGrows(S, d, m, v),
           NEW l, LlJoined(l, ln, m), NEW e, e = v[Len(v)]
    PROVE  \E u \in Seq(LlPlaces) : LlPathTo(S, l, g, u, c, e)
<1> l = ln \o m /\ LlPath(S, ln, g, w) /\ w[1] = c /\ w[Len(w)] = d
  BY DEF LlPathTo, LlJoined
<1> PICK n \in Nat : n = Len(ln)
  OBVIOUS
<1> PICK k \in Nat : k = Len(m)
  OBVIOUS
<1> Len(v) = Len(m) /\ Len(m) > 0
  BY DEF LlGrows
<1>0. g \in 0..n /\ Len(w) = n + 1 /\ k >= 1 /\ Len(v) = k
  BY DEF LlPath
<1> DEFINE u == w \o v
<1>1. u \in Seq(LlPlaces) /\ Len(u) = n + 1 + k /\ (\A i \in 1..n + 1 : u[i] = w[i])
      /\ \A i \in n + 2 .. n + 1 + k : u[i] = v[i - (n + 1)]
  <2>1. u \in Seq(LlPlaces) /\ Len(u) = Len(w) + Len(v)
        /\ \A i \in 1 .. Len(w) + Len(v) : u[i] = IF i <= Len(w) THEN w[i] ELSE v[i - Len(w)]
    BY ConcatProperties
  <2> HIDE DEF u
  <2>2. Len(u) = n + 1 + k /\ \A i \in 1 .. n + 1 + k : u[i] = IF i <= n + 1 THEN w[i] ELSE v[i - (n + 1)]
    BY <1>0, <2>1
  <2>3. \A i \in 1..n + 1 : i \in 1..n + 1 + k /\ i <= n + 1
    BY <1>0
  <2>4. \A i \in n + 2 .. n + 1 + k : i \in 1..n + 1 + k /\ ~(i <= n + 1)
    BY <1>0
  <2> QED BY <2>1, <2>2, <2>3, <2>4
<1>2. Len(l) = n + k /\ (\A i \in 1..n : l[i] = ln[i]) /\ \A i \in n + 1 .. n + k : l[i] = m[i - n]
  BY <1>0
<1> HIDE DEF u
<1>3. ASSUME NEW i \in g + 1 .. n + 1 + k PROVE LlPlaceOk(S, u[i])
  <2>1. CASE i <= n + 1
    <3> i \in g + 1 .. Len(w) /\ i \in 1..n + 1
      BY <1>0, <2>1
    <3> QED BY <1>1 DEF LlPath
  <2>2. CASE ~(i <= n + 1)
    <3> i \in n + 2 .. n + 1 + k /\ i - (n + 1) \in 1..Len(m)
      BY <1>0, <2>2
    <3> QED BY <1>1 DEF LlGrows
  <2> QED BY <2>1, <2>2
<1>4. ASSUME NEW i \in g + 1 .. n + k
      PROVE  l[i] = LlSymbol(S, u[i]) /\ u[i + 1] = LlSucc(S, u[i])
  <2>1. CASE i <= n
    <3> i \in g + 1 .. Len(ln) /\ i \in 1..n /\ i \in 1..n + 1 /\ i + 1 \in 1..n + 1
      BY <1>0, <2>1
    <3>1. ln[i] = LlSymbol(S, w[i]) /\ w[i + 1] = LlSucc(S, w[i])
      BY DEF LlPath
    <3> QED BY <1>1, <1>2, <3>1
  <2>2. CASE i = n + 1
    <3> i \in 1..n + 1 /\ i + 1 \in n + 2 .. n + 1 + k /\ i \in n + 1 .. n + k /\ i - n = 1 /\ (i + 1) - (n + 1) = 1
      BY <1>0, <2>2
    <3> u[i] = w[Len(w)] /\ l[i] = m[1] /\ u[i + 1] = v[1]
      BY <1>0, <1>1, <1>2, <2>2
    <3> QED BY DEF LlGrows
  <2>3. CASE i > n + 1
    <3>0. i - n \in Nat
      BY <1>0, <2>3
    <3> PICK j \in Nat : j = i - n
      BY <3>0
    <3> j \in 2..Len(m) /\ i \in n + 2 .. n + 1 + k /\ i + 1 \in n + 2 .. n + 1 + k /\ i \in n + 1 .. n + k
        /\ i - (n + 1) = j - 1 /\ (i + 1) - (n + 1) = j
      BY <1>0, <2>3
    <3>1. u[i] = v[j - 1] /\ l[i] = m[j] /\ u[i + 1] = v[j]
      BY <1>1, <1>2
    <3>2. m[j] = LlSymbol(S, v[j - 1]) /\ v[j] = LlSucc(S, v[j - 1])
      BY DEF LlGrows
    <3> QED BY <3>1, <3>2
  <2> QED BY <1>0, <2>1, <2>2, <2>3
<1>5. g > 0 => u[g + 1] = LlFirst
  <2> g + 1 \in 1..n + 1
    BY <1>0
  <2> QED BY <1>1 DEF LlPath
<1>6. u[n + 1 + k] = v[k] /\ u[1] = w[1]
  <2> n + 1 + k \in n + 2 .. n + 1 + k /\ (n + 1 + k) - (n + 1) = k /\ 1 \in 1..n + 1
    BY <1>0
  <2> QED BY <1>1
<1>7. LlPath(S, l, g, u)
  <2> g \in 0..n + k
    BY <1>0
  <2> Len(u) = Len(l) + 1
    BY <1>0, <1>1, <1>2
  <2> QED BY <1>1, <1>2, <1>3, <1>4, <1>5 DEF LlPath
<1> QED BY <1>0, <1>1, <1>6, <1>7 DEF LlPathTo

\* A frame more to send changes no place on the line.
LEMMA LlPlaceMore ==
    ASSUME NEW S \in Seq(Frames), NEW f \in Frames, NEW c \in LlPlaces, LlPlaceOk(S, c)
    PROVE  /\ LlPlaceOk(Append(S, f), c)
           /\ LlSymbol(Append(S, f), c) = LlSymbol(S, c) /\ LlSucc(Append(S, f), c) = LlSucc(S, c)
           /\ LlReceiver(S, c) => LlReceiver(Append(S, f), c)
           /\ LlExact(S, c) => LlExact(Append(S, f), c)
<1> c.n \in Nat \ {0} /\ c.j \in Nat /\ c.e \in {0, 1} /\ Len(S) \in Nat
  BY DEF LlPlaces
<1> DEFINE T == Append(S, f)
<1>1. Len(T) = Len(S) + 1 /\ \A k \in 1..Len(S) : T[k] = S[k]
  OBVIOUS
<1> HIDE DEF T
<1>2. c.j > 0 => T[c.n] = S[c.n]
  BY <1>1 DEF LlPlaceOk
<1>3. \A k \in 1..c.n - 1 : T[k] = S[k]
  BY <1>1 DEF LlPlaceOk
<1>4. LlPlaceOk(T, c)
  BY <1>1, <1>2 DEF LlPlaceOk
<1>5. LlSymbol(T, c) = LlSymbol(S, c) /\ LlSucc(T, c) = LlSucc(S, c)
  <2>1. CASE c.j = 0
    BY <2>1 DEF LlSymbol, LlSucc
  <2>2. CASE c.j > 0
    BY <1>2, <2>2 DEF LlSymbol, LlSucc
  <2> QED BY <2>1, <2>2
<1>6. LlSynced(T, c) <=> LlSynced(S, c)
  <2>1. CASE c.j = 0
    BY <2>1 DEF LlSynced
  <2>2. CASE c.j > 0
    BY <1>2, <2>2 DEF LlSynced
  <2> QED BY <2>1, <2>2
<1>7. LlReceiver(S, c) => LlReceiver(T, c)
  <2> \A k \in 2..c.n - 1 : T[k] = S[k]
    <3> ASSUME NEW k \in 2..c.n - 1 PROVE k \in 1..c.n - 1
      OBVIOUS
    <3> QED BY <1>3
  <2> QED BY <1>6 DEF LlReceiver
<1>8. LlExact(S, c) => LlExact(T, c)
  BY <1>3, <1>6 DEF LlExact
<1> QED BY <1>4, <1>5, <1>7, <1>8 DEF T

LEMMA LlPathMore ==
    ASSUME NEW S \in Seq(Frames), NEW ln \in Seq(LlSymbols), NEW g \in Nat,
           NEW w \in Seq(LlPlaces), LlPath(S, ln, g, w), NEW f \in Frames
    PROVE  LlPath(Append(S, f), ln, g, w)
<1> g \in 0..Len(ln) /\ Len(w) = Len(ln) + 1 /\ Len(ln) \in Nat
  BY DEF LlPath
<1>1. ASSUME NEW i \in g + 1 .. Len(w) PROVE w[i] \in LlPlaces /\ LlPlaceOk(S, w[i])
  <2> i \in 1..Len(w)
    OBVIOUS
  <2> QED BY DEF LlPath
<1>2. \A i \in g + 1 .. Len(w) : LlPlaceOk(Append(S, f), w[i])
  BY <1>1, LlPlaceMore
<1>3. ASSUME NEW i \in g + 1 .. Len(ln)
      PROVE  ln[i] = LlSymbol(Append(S, f), w[i]) /\ w[i + 1] = LlSucc(Append(S, f), w[i])
  <2> i \in g + 1 .. Len(w)
    OBVIOUS
  <2>1. ln[i] = LlSymbol(S, w[i]) /\ w[i + 1] = LlSucc(S, w[i])
    BY DEF LlPath
  <2>2. LlSymbol(Append(S, f), w[i]) = LlSymbol(S, w[i]) /\ LlSucc(Append(S, f), w[i]) = LlSucc(S, w[i])
    BY <1>1, LlPlaceMore
  <2> QED BY <2>1, <2>2
<1> QED BY <1>2, <1>3 DEF LlPath

\* All bytes touched.
LEMMA LlPathLost ==
    ASSUME NEW S \in Seq(Frames), NEW ln \in Seq(LlSymbols)
    PROVE  \E w \in Seq(LlPlaces) : LlPath(S, ln, Len(ln), w) /\ w[Len(w)] = LlFirst /\ w[1] = LlFirst
<1> DEFINE w == [i \in 1..Len(ln) + 1 |-> LlFirst]
<1>1. LlFirst \in LlPlaces /\ LlPlaceOk(S, LlFirst)
  <2> 1 <= Len(S) + 1
    OBVIOUS
  <2> QED BY LlPlaceTypes, LlPlaceOkIs DEF LlFirst
<1>2. w \in Seq(LlPlaces) /\ Len(w) = Len(ln) + 1 /\ \A i \in 1..Len(ln) + 1 : w[i] = LlFirst
  BY <1>1
<1> HIDE DEF w
<1>3. LlPath(S, ln, Len(ln), w)
  BY <1>1, <1>2 DEF LlPath
<1> QED BY <1>2, <1>3

-----------------------------------------------------------------------------
(* Types and the sender's state, action by action. *)

\* What a step of the sender does not touch.
LlRest == <<rx, delivered, tainted, damages>>

LEMMA LlTxFrame ==
    ASSUME LlTypes, LlTx, tx.state # "start"
    PROVE  /\ tx.frame \in Frames /\ tx.frame \in Seq(Bytes) /\ Len(tx.frame) \in Nat /\ Len(tx.frame) >= 1
           /\ tx.sent \in 0..Len(tx.frame) /\ tx.crc_sent \in 0..CrcLen /\ CrcLen \in Nat /\ tx.frame # <<>>
           /\ LlLen(tx.frame) = Len(tx.frame) + CrcLen
<1>1. tx.frame \in Frames /\ tx.frame # <<>>
  BY DEF LlTypes, LlTx
<1>2. tx.frame \in Seq(Bytes) /\ Len(tx.frame) \in Nat /\ Len(tx.frame) >= 1 /\ CrcLen \in Nat
  BY <1>1, LlFrames
<1>3. tx.sent \in 0..Len(tx.frame) /\ tx.crc_sent \in 0..CrcLen
  BY <1>2 DEF LlTypes, LlTx
<1> QED BY <1>1, <1>2, <1>3 DEF LlLen

LEMMA LlPutTypes ==
    ASSUME LlTypes, LlTx, NEW f \in Frames, PutFrame(f)
    PROVE  LlTypes' /\ LlTx' /\ tx' = [tx EXCEPT !.frame = f] /\ tx'.frame = f /\ tx'.state = "start"
<1>1. tx.frame = <<>> /\ tx' = [tx EXCEPT !.frame = f, !.sent = 0]
      /\ UNCHANGED <<line, rx, delivered, intact, damages>> /\ tainted' = FALSE
  BY DEF PutFrame
<1>2. tx.state = "start" /\ tx.sent = 0 /\ tx.crc_sent = 0 /\ ~tx.escape
  BY <1>1 DEF LlTx
<1>3. tx' = [tx EXCEPT !.frame = f] /\ tx'.frame = f /\ tx'.state = "start" /\ tx'.sent = 0 /\ tx'.crc_sent = 0 /\ ~tx'.escape
  BY <1>1, <1>2 DEF LlTypes
<1>4. LlTypes'
  BY <1>1 DEF LlTypes
<1>5. LlTx'
  BY <1>1, <1>3, LlFrames DEF LlTx
<1> QED BY <1>3, <1>4, <1>5

LEMMA LlStartTypes ==
    ASSUME LlTypes, LlTx, SendStart, tx.frame # <<>>
    PROVE  /\ LlTypes' /\ LlTx' /\ UNCHANGED LlRest /\ UNCHANGED intact
           /\ line' = line \o <<FLAG_SEQUENCE>> /\ tx.state = "start" /\ tx' = [tx EXCEPT !.state = "data"]
<1>1. tx.state = "start" /\ tx' = [tx EXCEPT !.state = "data", !.escape = FALSE] /\ line' = line \o <<FLAG_SEQUENCE>>
      /\ UNCHANGED LlRest /\ UNCHANGED intact
  BY DEF SendStart, Emit, LlRest
<1>2. tx.sent = 0 /\ tx.crc_sent = 0 /\ tx.escape = FALSE /\ tx.frame \in Frames
  BY <1>1 DEF LlTx, LlTypes
<1>3. tx' = [tx EXCEPT !.state = "data"] /\ tx'.frame = tx.frame /\ tx'.sent = 0
      /\ tx'.crc_sent = 0 /\ ~tx'.escape /\ tx'.state = "data"
  BY <1>1, <1>2 DEF LlTypes
<1>4. LlTypes'
  <2> FLAG_SEQUENCE \in LlSymbols
    BY DEF FLAG_SEQUENCE, LlSymbols, Bytes
  <2> line' \in Seq(LlSymbols)
    BY <1>1 DEF LlTypes
  <2> tx' \in [state : {"start", "data", "crc", "end"}, frame : {<<>>} \cup Frames,
               sent : Nat, escape : BOOLEAN, crc_sent : Nat]
    BY <1>1 DEF LlTypes
  <2> QED BY <1>1 DEF LlTypes, LlRest
<1>5. LlTx'
  <2> Len(tx.frame) >= 1 /\ Len(tx.frame) \in Nat
    BY <1>2, LlFrames
  <2> QED BY <1>1, <1>3 DEF LlTx, LlRest
<1> QED BY <1>1, <1>3, <1>4, <1>5

LEMMA LlRestIs ==
    ASSUME NEW f \in Seq(Bytes), NEW a \in Nat, a < Len(f)
    PROVE  LET rest == SubSeq(f, a + 1, Len(f))
           IN  rest \in Seq(Bytes) /\ Len(rest) = Len(f) - a /\ \A j \in 1..Len(rest) : rest[j] = f[a + j]
<1> DEFINE rest == SubSeq(f, a + 1, Len(f))
<1>1. rest \in Seq(Bytes) /\ Len(rest) = Len(f) - a
  BY SubSeqProperties
<1>2. ASSUME NEW j \in 1..Len(rest) PROVE rest[j] = f[a + j]
  <2> j \in 1..Len(f) - (a + 1) + 1 /\ (a + 1) + j - 1 = a + j
    BY <1>1
  <2> QED BY SubSeqProperties
<1> QED BY <1>1, <1>2

LEMMA LlPlainTypes ==
    ASSUME LlTypes, LlTx, NEW k \in 1..Mtu, SendPlain(k)
    PROVE  /\ LlTypes' /\ LlTx' /\ UNCHANGED LlRest /\ UNCHANGED intact
           /\ k \in Nat /\ k >= 1 /\ tx.state = "data" /\ tx.sent + k <= Len(tx.frame)
           /\ line' = line \o SubSeq(SubSeq(tx.frame, tx.sent + 1, Len(tx.frame)), 1, k)
           /\ \A j \in 1..k : tx.frame[tx.sent + j] \notin Special
           /\ ~tx.escape /\ ~tx'.escape /\ tx'.frame = tx.frame /\ tx'.state \in {"data", "crc"}
           /\ tx'.sent = tx.sent + k /\ tx'.crc_sent = 0 /\ tx.crc_sent = 0
<1> DEFINE rest == SubSeq(tx.frame, tx.sent + 1, Len(tx.frame))
<1>1. /\ tx.state = "data" /\ k \in 1..Len(rest) /\ \A j \in 1..k : rest[j] \notin Special
      /\ line' = line \o SubSeq(rest, 1, k)
      /\ tx' = [tx EXCEPT !.sent = @ + k, !.state = DataOrCrc(tx.sent + k)]
      /\ UNCHANGED LlRest /\ UNCHANGED intact
  BY DEF SendPlain, Emit, LlRest
<1>2. tx.frame \in Seq(Bytes) /\ tx.sent \in Nat /\ tx.sent < Len(tx.frame) /\ tx.crc_sent = 0 /\ Len(tx.frame) \in Nat
  BY <1>1, LlTxFrame DEF LlTx
<1>3. rest \in Seq(Bytes) /\ Len(rest) = Len(tx.frame) - tx.sent /\ \A j \in 1..Len(rest) : rest[j] = tx.frame[tx.sent + j]
  BY <1>2, LlRestIs
<1> HIDE DEF rest
<1>4. k \in Nat /\ k >= 1 /\ tx.sent + k <= Len(tx.frame) /\ \A j \in 1..k : tx.frame[tx.sent + j] \notin Special
  <2> ASSUME NEW j \in 1..k PROVE tx.frame[tx.sent + j] \notin Special
    <3> j \in 1..Len(rest)
      BY <1>1, <1>2, <1>3
    <3> QED BY <1>1, <1>3
  <2> QED BY <1>1, <1>2, <1>3
<1>5. ~tx.escape
  <2> tx.sent + tx.crc_sent + 1 = tx.sent + 1 /\ 1 \in 1..k
    BY <1>2, <1>4
  <2> LlByte(tx.frame, tx.sent + 1) = tx.frame[tx.sent + 1]
    BY <1>2 DEF LlByte
  <2> QED BY <1>4 DEF LlTx
<1>6. tx'.frame = tx.frame /\ tx'.sent = tx.sent + k /\ tx'.crc_sent = 0 /\ tx'.escape = tx.escape
      /\ tx'.state = IF tx.sent + k = Len(tx.frame) THEN "crc" ELSE "data"
  BY <1>1, <1>2 DEF LlTypes, DataOrCrc
<1>7. LlTypes'
  <2>1. SubSeq(rest, 1, k) \in Seq(LlSymbols)
    <3> SubSeq(rest, 1, k) \in Seq(Bytes)
      BY <1>1, <1>3
    <3> Bytes \subseteq LlSymbols
      BY DEF LlSymbols
    <3> QED BY SeqMonotonic
  <2>2. line' \in Seq(LlSymbols)
    BY <1>1, <2>1 DEF LlTypes
  <2>3. tx' \in [state : {"start", "data", "crc", "end"}, frame : {<<>>} \cup Frames,
               sent : Nat, escape : BOOLEAN, crc_sent : Nat]
    <3> tx.sent + k \in Nat
      BY <1>2, <1>4
    <3> DataOrCrc(tx.sent + k) \in {"data", "crc"}
      BY DEF DataOrCrc
    <3> QED BY <1>1 DEF LlTypes
  <2> QED BY <1>1, <2>2, <2>3 DEF LlTypes, LlRest
<1>8. LlTx'
  <2> CrcLen \in Nat /\ tx.frame # <<>>
    BY <1>1, LlTxFrame
  <2> ~tx'.escape /\ UNCHANGED <<tainted, damages, intact>>
    BY <1>1, <1>5, <1>6 DEF LlRest
  <2>1. CASE tx.sent + k = Len(tx.frame)
    <3> tx'.state = "crc" /\ tx'.sent = Len(tx'.frame) /\ tx'.crc_sent <= CrcLen /\ tx'.frame # <<>>
      BY <1>6, <2>1
    <3> QED BY DEF LlTx
  <2>2. CASE tx.sent + k # Len(tx.frame)
    <3> tx'.state = "data" /\ tx'.sent < Len(tx'.frame) /\ tx'.crc_sent = 0 /\ tx'.frame # <<>>
      BY <1>2, <1>4, <1>6, <2>2
    <3> QED BY DEF LlTx
  <2> QED BY <2>1, <2>2
<1> QED BY <1>1, <1>2, <1>4, <1>5, <1>6, <1>7, <1>8 DEF rest

\* A special byte of the frame or of the checksum, x at place p of the frame.
LEMMA LlEscapedIs ==
    ASSUME LlTypes, NEW x \in Special
    PROVE  Escaped(x) \in LlSymbols
BY LlFlips DEF Escaped, LlSymbols, Bytes, TINY_ESCAPE_CHAR

LEMMA LlSpecialTypes ==
    ASSUME LlTypes, LlTx, SendSpecial
    PROVE  /\ LlTypes' /\ LlTx' /\ UNCHANGED LlRest /\ UNCHANGED intact
           /\ tx.state = "data" /\ tx.frame[tx.sent + 1] \in Special
           /\ line' = line \o <<Escaped(tx.frame[tx.sent + 1])>>
           /\ tx'.frame = tx.frame /\ tx'.escape = ~tx.escape /\ tx'.state \in {"data", "crc"}
           /\ tx'.sent = (IF tx.escape THEN tx.sent + 1 ELSE tx.sent) /\ tx'.crc_sent = 0 /\ tx.crc_sent = 0
           /\ tx.sent < Len(tx.frame)
<1> DEFINE x == tx.frame[tx.sent + 1]
           sent == IF tx.escape THEN tx.sent + 1 ELSE tx.sent
<1>1. /\ tx.state = "data" /\ x \in Special
      /\ line' = line \o <<Escaped(x)>>
      /\ tx' = [tx EXCEPT !.escape = ~@, !.sent = sent, !.state = DataOrCrc(sent)]
      /\ UNCHANGED LlRest /\ UNCHANGED intact
  BY DEF SendSpecial, Emit, LlRest
<1>2. tx.frame \in Seq(Bytes) /\ tx.sent \in Nat /\ tx.sent < Len(tx.frame) /\ tx.crc_sent = 0 /\ Len(tx.frame) \in Nat
      /\ CrcLen \in Nat /\ tx.frame # <<>> /\ LlLen(tx.frame) = Len(tx.frame) + CrcLen
  BY <1>1, LlTxFrame DEF LlTx
<1>3. sent \in Nat /\ sent <= Len(tx.frame) /\ tx.escape \in BOOLEAN
  BY <1>2 DEF LlTypes
<1>4. tx'.frame = tx.frame /\ tx'.sent = sent /\ tx'.crc_sent = 0 /\ tx'.escape = ~tx.escape
      /\ tx'.state = IF sent = Len(tx.frame) THEN "crc" ELSE "data"
  BY <1>1, <1>2 DEF LlTypes, DataOrCrc
<1>5. LlTypes'
  <2>1. <<Escaped(x)>> \in Seq(LlSymbols)
    BY <1>1, LlEscapedIs
  <2>2. line' \in Seq(LlSymbols)
    BY <1>1, <2>1 DEF LlTypes
  <2>3. tx' \in [state : {"start", "data", "crc", "end"}, frame : {<<>>} \cup Frames,
               sent : Nat, escape : BOOLEAN, crc_sent : Nat]
    BY <1>1, <1>3 DEF LlTypes, DataOrCrc
  <2> QED BY <1>1, <2>2, <2>3 DEF LlTypes, LlRest
<1>6. LlTx'
  <2> tx'.escape => tx'.sent = tx.sent
    BY <1>3, <1>4
  <2> LlByte(tx.frame, tx.sent + 1) = x /\ tx.sent + 0 + 1 = tx.sent + 1 /\ tx.sent + 1 <= LlLen(tx.frame)
    BY <1>2 DEF LlByte
  <2> HIDE DEF sent, x
  <2> QED BY <1>1, <1>2, <1>3, <1>4 DEF LlTx, LlRest
<1> QED BY <1>1, <1>2, <1>4, <1>5, <1>6

LEMMA LlCrcTypes ==
    ASSUME LlTypes, LlTx, SendCrc
    PROVE  /\ LlTypes' /\ LlTx' /\ UNCHANGED LlRest /\ UNCHANGED intact
           /\ tx.state = "crc" /\ tx.crc_sent < CrcLen /\ tx'.state = "crc" /\ tx'.frame = tx.frame /\ tx'.sent = tx.sent
           /\ LET x == CrcByte(tx.frame, tx.crc_sent + 1)
              IN  \/ /\ x \notin Special /\ line' = line \o <<x>> /\ ~tx.escape /\ ~tx'.escape
                     /\ tx'.crc_sent = tx.crc_sent + 1
                  \/ /\ x \in Special /\ line' = line \o <<Escaped(x)>> /\ tx'.escape = ~tx.escape
                     /\ tx'.crc_sent = IF tx.escape THEN tx.crc_sent + 1 ELSE tx.crc_sent
<1> DEFINE x == CrcByte(tx.frame, tx.crc_sent + 1)
<1>1. /\ tx.state = "crc" /\ tx.crc_sent < CrcLen /\ UNCHANGED LlRest /\ UNCHANGED intact
      /\ \/ x \notin Special /\ line' = line \o <<x>> /\ tx' = [tx EXCEPT !.crc_sent = @ + 1]
         \/ /\ x \in Special /\ line' = line \o <<Escaped(x)>>
            /\ tx' = [tx EXCEPT !.escape = ~@, !.crc_sent = IF tx.escape THEN @ + 1 ELSE @]
  BY DEF SendCrc, Emit, LlRest
<1>2. tx.frame \in Frames /\ Len(tx.frame) \in Nat /\ tx.sent = Len(tx.frame) /\ tx.crc_sent \in Nat
      /\ CrcLen \in Nat /\ tx.frame # <<>>
      /\ LlLen(tx.frame) = Len(tx.frame) + CrcLen
  BY <1>1, LlTxFrame DEF LlTx
<1>3. LlByte(tx.frame, tx.sent + tx.crc_sent + 1) = x /\ tx.sent + tx.crc_sent + 1 <= LlLen(tx.frame)
  <2> ~(tx.sent + tx.crc_sent + 1 <= Len(tx.frame)) /\ (tx.sent + tx.crc_sent + 1) - Len(tx.frame) = tx.crc_sent + 1
    BY <1>2
  <2> QED BY <1>1, <1>2 DEF LlByte
<1>4. x \in LlSymbols
  <2> tx.crc_sent + 1 \in 1..CrcLen
    BY <1>1, <1>2
  <2> QED BY <1>2 DEF LlSymbols
<1> HIDE DEF x
<1>5. CASE x \notin Special
  <2>1. ~tx.escape
    BY <1>3, <1>5 DEF LlTx
  <2>2. tx' = [tx EXCEPT !.crc_sent = @ + 1] /\ line' = line \o <<x>>
    BY <1>1, <1>5
  <2>3. tx'.state = "crc" /\ tx'.frame = tx.frame /\ tx'.sent = tx.sent /\ tx'.escape = tx.escape
        /\ tx'.crc_sent = tx.crc_sent + 1
    BY <1>1, <2>2 DEF LlTypes
  <2>4. LlTypes'
    <3>1. line' \in Seq(LlSymbols)
      BY <1>4, <2>2 DEF LlTypes
    <3>2. tx' \in [state : {"start", "data", "crc", "end"}, frame : {<<>>} \cup Frames,
                 sent : Nat, escape : BOOLEAN, crc_sent : Nat]
      <4> tx.crc_sent + 1 \in Nat
        BY <1>2
      <4> QED BY <2>2 DEF LlTypes
    <3> QED BY <1>1, <3>1, <3>2 DEF LlTypes, LlRest
  <2>5. LlTx'
    BY <1>1, <1>2, <2>1, <2>3 DEF LlTx, LlRest
  <2> QED BY <1>1, <1>5, <2>1, <2>2, <2>3, <2>4, <2>5 DEF x
<1>6. CASE x \in Special
  <2> DEFINE n == IF tx.escape THEN tx.crc_sent + 1 ELSE tx.crc_sent
  <2>1. tx' = [tx EXCEPT !.escape = ~@, !.crc_sent = n] /\ line' = line \o <<Escaped(x)>>
    BY <1>1, <1>6
  <2>2. n \in Nat /\ n <= CrcLen /\ tx.escape \in BOOLEAN
    BY <1>1, <1>2 DEF LlTypes
  <2>3. tx'.state = "crc" /\ tx'.frame = tx.frame /\ tx'.sent = tx.sent /\ tx'.escape = ~tx.escape /\ tx'.crc_sent = n
    BY <1>1, <2>1 DEF LlTypes
  <2>4. LlTypes'
    <3>0. <<Escaped(x)>> \in Seq(LlSymbols)
      BY <1>6, LlEscapedIs
    <3>1. line' \in Seq(LlSymbols)
      BY <2>1, <3>0 DEF LlTypes
    <3>2. tx' \in [state : {"start", "data", "crc", "end"}, frame : {<<>>} \cup Frames,
                 sent : Nat, escape : BOOLEAN, crc_sent : Nat]
      BY <2>1, <2>2 DEF LlTypes
    <3> QED BY <1>1, <3>1, <3>2 DEF LlTypes, LlRest
  <2>5. LlTx'
    <3> tx'.escape => n = tx.crc_sent
      BY <2>2, <2>3
    <3> HIDE DEF n
    <3> QED BY <1>1, <1>2, <1>3, <1>6, <2>2, <2>3 DEF LlTx, LlRest
  <2> QED BY <1>1, <1>6, <2>1, <2>3, <2>4, <2>5 DEF x
<1> QED BY <1>5, <1>6

LEMMA LlCrcDoneTypes ==
    ASSUME LlTypes, LlTx, SendCrcDone
    PROVE  /\ LlTypes' /\ LlTx' /\ UNCHANGED LlRest /\ UNCHANGED <<intact, line>>
           /\ tx.state = "crc" /\ tx' = [tx EXCEPT !.state = "end"]
<1>1. tx.state = "crc" /\ tx.crc_sent = CrcLen /\ tx' = [tx EXCEPT !.state = "end"]
      /\ UNCHANGED LlRest /\ UNCHANGED <<intact, line>>
  BY DEF SendCrcDone, LlRest
<1>2. tx'.state = "end" /\ tx'.frame = tx.frame /\ tx'.sent = tx.sent /\ tx'.escape = tx.escape /\ tx'.crc_sent = tx.crc_sent
  BY <1>1 DEF LlTypes
<1>3. tx.sent = Len(tx.frame) /\ tx.frame # <<>> /\ Len(tx.frame) \in Nat /\ CrcLen \in Nat
      /\ LlLen(tx.frame) = Len(tx.frame) + CrcLen
  BY <1>1, LlTxFrame DEF LlTx
<1>4. ~tx.escape
  <2> ~(tx.sent + tx.crc_sent + 1 <= LlLen(tx.frame))
    BY <1>1, <1>3
  <2> QED BY DEF LlTx
<1>5. LlTypes'
  BY <1>1 DEF LlTypes, LlRest
<1>6. LlTx'
  BY <1>1, <1>2, <1>3, <1>4 DEF LlTx, LlRest
<1> QED BY <1>1, <1>5, <1>6

LEMMA LlEndTypes ==
    ASSUME LlTypes, LlTx, SendEnd
    PROVE  /\ LlTypes' /\ LlTx' /\ UNCHANGED LlRest /\ line' = line \o <<FLAG_SEQUENCE>>
           /\ tx.state = "end" /\ tx' = TxReset
           /\ intact' = IF tainted THEN intact ELSE Append(intact, tx.frame)
<1>1. tx.state = "end" /\ tx' = TxReset /\ line' = line \o <<FLAG_SEQUENCE>> /\ UNCHANGED LlRest
      /\ intact' = IF tainted THEN intact ELSE Append(intact, SubSeq(tx.frame, 1, tx.sent))
  BY DEF SendEnd, Emit, LlRest
<1>2. tx.frame \in Frames /\ tx.frame \in Seq(Bytes) /\ tx.sent = Len(tx.frame)
  BY <1>1, LlTxFrame DEF LlTx
<1>3. SubSeq(tx.frame, 1, tx.sent) = tx.frame
  BY <1>2, SubSeqFull
<1>4. intact' = IF tainted THEN intact ELSE Append(intact, tx.frame)
  BY <1>1, <1>3
<1>5. LlTypes'
  <2>1. intact' \in Seq(Frames)
    BY <1>2, <1>4 DEF LlTypes
  <2>2. FLAG_SEQUENCE \in LlSymbols
    BY DEF FLAG_SEQUENCE, LlSymbols, Bytes
  <2>3. line' \in Seq(LlSymbols)
    BY <1>1, <2>2 DEF LlTypes
  <2>4. tx' \in [state : {"start", "data", "crc", "end"}, frame : {<<>>} \cup Frames,
               sent : Nat, escape : BOOLEAN, crc_sent : Nat]
    BY <1>1 DEF TxReset
  <2> QED BY <1>1, <2>1, <2>3, <2>4 DEF LlTypes, LlRest
<1>6. LlTx'
  <2> tx'.frame = <<>> /\ tx'.state = "start" /\ tx'.sent = 0 /\ tx'.crc_sent = 0 /\ ~tx'.escape
    BY <1>1 DEF TxReset
  <2> (tainted' => intact' = <<>>) /\ (damages' = 0 => ~tainted')
    BY <1>1, <1>4 DEF LlTx, LlRest
  <2> QED BY DEF LlTx
<1> QED BY <1>1, <1>4, <1>5, <1>6

LEMMA LlRxTypes ==
    ASSUME LlTypes, LlTx, RunRx
    PROVE  /\ LlTypes' /\ LlTx' /\ line # <<>> /\ line' = Tail(line) /\ LlReads(line[1])
           /\ UNCHANGED <<tx, intact, tainted, damages>>
<1>1. line # <<>> /\ line' = Tail(line) /\ LlReads(Head(line)) /\ UNCHANGED <<tx, intact, tainted, damages>>
  BY DEF RunRx, LlReads
<1>2. line \in Seq(LlSymbols) /\ Head(line) \in LlSymbols /\ Head(line) = line[1] /\ Tail(line) \in Seq(LlSymbols)
  <2> line \in Seq(LlSymbols)
    BY DEF LlTypes
  <2> QED BY <1>1, HeadTailProperties
<1>3. LlTypes'
  <2> /\ rx'.state \in {"start", "data"} /\ rx'.escape \in BOOLEAN /\ rx'.buf \in Seq(LlStored)
      /\ rx' = [state |-> rx'.state, buf |-> rx'.buf, escape |-> rx'.escape, active |-> rx'.active]
      /\ delivered' \in Seq(Seq(LlStored))
    BY <1>1, <1>2, LlReadTypes
  <2> QED BY <1>1, <1>2 DEF LlTypes
<1>4. LlTx'
  BY <1>1 DEF LlTx
<1> QED BY <1>1, <1>2, <1>3, <1>4

\* Damage: nothing is known any more of what is on the line.
LEMMA LlDamage ==
    ASSUME LlTypes, LlTx, Noise \/ ResetTx \/ ResetRx
    PROVE  /\ LlTypes' /\ LlTx' /\ intact' = <<>> /\ damages' # 0
           /\ tx'.frame # <<>> => tainted'
<1>0. damages' \in Nat /\ damages' # 0 /\ intact' = <<>>
  BY DEF Noise, ResetTx, ResetRx, Damaged, LlTypes
<1>1. CASE Noise
  <2>1. line' \in Seq(LlSymbols)
    <3>1. line \in Seq(LlSymbols)
      BY DEF LlTypes
    <3>2. line # <<>> => Tail(line) \in Seq(LlSymbols)
      BY <3>1
    <3>3. \A b \in NoiseBytes : b \in LlSymbols
      BY FramingAssumption DEF LlSymbols
    <3>4. ASSUME NEW b \in NoiseBytes, NEW l \in Seq(LlSymbols) PROVE <<b>> \o l \in Seq(LlSymbols)
      BY <3>3
    <3> QED BY <1>1, <3>1, <3>2, <3>4 DEF Noise
  <2>2. tainted' = (tx.frame # <<>>) /\ UNCHANGED <<tx, rx, delivered>>
    BY <1>1 DEF Noise
  <2>3. tainted' \in BOOLEAN
    BY <2>2
  <2>4. LlTypes'
    BY <1>0, <2>1, <2>2, <2>3 DEF LlTypes
  <2>5. LlTx'
    BY <1>0, <2>2 DEF LlTx
  <2> QED BY <1>0, <2>2, <2>4, <2>5
<1>2. CASE ResetTx
  <2>1. tx' = TxReset /\ tainted' = FALSE /\ UNCHANGED <<line, rx, delivered>>
    BY <1>2 DEF ResetTx
  <2>2. tx' \in [state : {"start", "data", "crc", "end"}, frame : {<<>>} \cup Frames,
               sent : Nat, escape : BOOLEAN, crc_sent : Nat]
    BY <2>1 DEF TxReset
  <2>3. tx'.frame = <<>> /\ tx'.state = "start" /\ tx'.sent = 0 /\ tx'.crc_sent = 0 /\ ~tx'.escape
    BY <2>1 DEF TxReset
  <2>4. LlTypes'
    <3> intact' \in Seq(Frames)
      BY <1>0, EmptySeq
    <3> tainted' \in BOOLEAN
      BY <2>1
    <3> QED BY <1>0, <2>1, <2>2 DEF LlTypes
  <2>5. LlTx'
    BY <1>0, <2>1, <2>3 DEF LlTx
  <2> QED BY <1>0, <2>3, <2>4, <2>5
<1>3. CASE ResetRx
  <2>1. rx' = [rx EXCEPT !.state = "start"] /\ tainted' = (tx.frame # <<>>) /\ UNCHANGED <<tx, line, delivered>>
    BY <1>3 DEF ResetRx
  <2>2. tainted' \in BOOLEAN /\ intact' \in Seq(Frames)
    BY <1>0, <2>1, EmptySeq
  <2>3. /\ rx'.state = "start" /\ rx'.escape = rx.escape /\ rx'.buf = rx.buf /\ rx'.active = rx.active
        /\ rx' = [state |-> rx'.state, buf |-> rx'.buf, escape |-> rx'.escape, active |-> rx'.active]
    BY <2>1 DEF LlTypes
  <2>4. LlTypes'
    BY <1>0, <2>1, <2>2, <2>3 DEF LlTypes
  <2>5. LlTx'
    BY <1>0, <2>1 DEF LlTx
  <2> QED BY <1>0, <2>1, <2>4, <2>5
<1> QED BY <1>1, <1>2, <1>3

-----------------------------------------------------------------------------
(* The places, action by action. *)

\* With the line given up: everything on it counts as touched.
LEMMA LlGiveUp ==
    ASSUME LlTypes', damages' # 0, LlTxPlace' = LlFirst, LlSent' = <<>>
    PROVE  (\E g \in Nat, w \in Seq(LlPlaces) : LlHolds(LlSent, g, w))'
<1>1. <<>> \in Seq(Frames) /\ line' \in Seq(LlSymbols) /\ Len(line') \in Nat
  BY DEF LlTypes
<1>2. PICK w \in Seq(LlPlaces) : LlPath(<<>>, line', Len(line'), w) /\ w[Len(w)] = LlFirst /\ w[1] = LlFirst
  BY <1>1, LlPathLost
<1>3. LlReceiver(<<>>, LlFirst)'
  <2> LlFirst.n = 1 /\ LlFirst.j = 0
    BY DEF LlFirst, LlPlace
  <2> 2..1 - 1 = {} /\ Len(delivered') >= 1 - 2
    BY DEF LlTypes
  <2> QED BY DEF LlReceiver
<1> PICK k \in Nat : k = Len(line')
  BY <1>1
<1>4. LlHolds(LlSent, k, w)'
  BY <1>2, <1>3 DEF LlHolds
<1> QED BY <1>4

\* A sender whose frame was put before the damage.
LEMMA LlTaintedStep ==
    ASSUME LlTypes, LlTx, LlTypes', LlTx', tainted, tainted', UNCHANGED damages
    PROVE  (\E g \in Nat, w \in Seq(LlPlaces) : LlHolds(LlSent, g, w))'
<1>1. intact' = <<>> /\ damages' # 0
  BY DEF LlTx
<1>2. LlSent' = <<>>
  BY <1>1 DEF LlSent
<1>3. LlTxPlace' = LlFirst
  <2>1. CASE tx'.frame # <<>>
    BY <2>1 DEF LlTxPlace
  <2>2. CASE tx'.frame = <<>>
    <3> tx'.state = "start" /\ ~tx'.escape
      BY <2>2 DEF LlTx
    <3> Len(intact') + 1 = 1
      BY <1>1
    <3> QED BY <2>2 DEF LlTxPlace, LlFirst
  <2> QED BY <2>1, <2>2
<1> QED BY <1>1, <1>2, <1>3, LlGiveUp

\* Bytes leave the sender, each at its place.
LEMMA LlHoldsGrow ==
    ASSUME LlTypes, NEW S \in Seq(Frames), S = LlSent', NEW g \in Nat, NEW w \in Seq(LlPlaces),
           LlHolds(S, g, w), UNCHANGED LlRest,
           NEW m \in Seq(LlSymbols), NEW v \in Seq(LlPlaces), LlGrows(S, LlTxPlace, m, v),
           line' = line \o m, LlTxPlace' = v[Len(v)]
    PROVE  (\E h \in Nat, u \in Seq(LlPlaces) : LlHolds(LlSent, h, u))'
<1>1. LlPath(S, line, g, w) /\ w[Len(w)] = LlTxPlace /\ line \in Seq(LlSymbols) /\ LlGrows(S, w[Len(w)], m, v)
  BY DEF LlHolds, LlTypes
<1>9. PICK k \in Seq(LlSymbols) : k = line
  BY <1>1
<1>10. PICK l, c, d, e : l = line' /\ c = w[1] /\ d = LlTxPlace /\ e = v[Len(v)]
  OBVIOUS
<1>0. k = line /\ l = line' /\ c = w[1] /\ d = LlTxPlace /\ e = v[Len(v)]
  BY <1>9, <1>10
<1>2. PICK u \in Seq(LlPlaces) : LlPath(S, line', g, u) /\ u[Len(u)] = v[Len(v)] /\ u[1] = w[1]
  <2>1. LlPathTo(S, k, g, w, c, d) /\ LlGrows(S, d, m, v) /\ LlJoined(l, k, m) /\ e = v[Len(v)]
    BY <1>0, <1>1 DEF LlPathTo, LlJoined
  <2>2. \E u \in Seq(LlPlaces) : LlPathTo(S, l, g, u, c, e)
    BY <2>1, LlPathGrow
  <2> QED BY <1>0, <2>2 DEF LlPathTo
<1>3. UNCHANGED <<rx, delivered, damages>>
  BY DEF LlRest
<1>4. g = 0 => LlReceiver(S, u[1])'
  BY <1>2, <1>3 DEF LlHolds, LlReceiver, LlSynced
<1>5. damages' = 0 => g = 0 /\ LlExact(S, u[1])'
  BY <1>2, <1>3 DEF LlHolds, LlExact, LlSynced
<1>6. LlHolds(LlSent, g, u)'
  BY <1>2, <1>4, <1>5 DEF LlHolds
<1> QED BY <1>6

LEMMA LlHoldsOne ==
    ASSUME LlTypes, NEW S \in Seq(Frames), S = LlSent', NEW g \in Nat, NEW w \in Seq(LlPlaces),
           LlHolds(S, g, w), UNCHANGED LlRest, NEW c \in LlPlaces, c = LlTxPlace, c.n <= Len(S),
           line' = line \o <<LlSymbol(S, c)>>, LlTxPlace' = LlSucc(S, c)
    PROVE  (\E h \in Nat, u \in Seq(LlPlaces) : LlHolds(LlSent, h, u))'
<1>1. LlPlaceOk(S, c)
  <2> LlPath(S, line, g, w) /\ w[Len(w)] = c /\ Len(line) \in Nat
    BY DEF LlHolds, LlTypes
  <2> Len(w) \in g + 1 .. Len(w)
    BY DEF LlPath
  <2> QED BY DEF LlPath
<1>2. LlPlaceOk(S, LlSucc(S, c)) /\ LlSymbol(S, c) \in LlSymbols /\ LlSucc(S, c) \in LlPlaces
  BY <1>1, LlSuccOk, LlSuccType
<1> DEFINE m == <<LlSymbol(S, c)>>
           v == <<LlSucc(S, c)>>
<1>3. m \in Seq(LlSymbols) /\ v \in Seq(LlPlaces) /\ Len(m) = 1 /\ Len(v) = 1 /\ m[1] = LlSymbol(S, c) /\ v[1] = LlSucc(S, c)
  BY <1>2
<1>4. line' = line \o m
  OBVIOUS
<1> HIDE DEF m, v
<1>5. \A i \in 1..Len(m) : LlPlaceOk(S, v[i])
  BY <1>2, <1>3
<1>6. \A i \in 2..Len(m) : m[i] = LlSymbol(S, v[i - 1]) /\ v[i] = LlSucc(S, v[i - 1])
  BY <1>3
<1>7. LlGrows(S, LlTxPlace, m, v) /\ LlTxPlace' = v[Len(v)]
  BY <1>3, <1>5, <1>6 DEF LlGrows
<1> QED BY <1>3, <1>4, <1>7, LlHoldsGrow

\* The sender's place in an undamaged frame.
LEMMA LlSenderPlace ==
    ASSUME LlTypes, LlTx, ~tainted, tx.frame # <<>>
    PROVE  /\ LlSent \in Seq(Frames) /\ Len(LlSent) = Len(intact) + 1 /\ LlSent[Len(intact) + 1] = tx.frame
           /\ Len(intact) \in Nat
           /\ LlTxPlace \in LlPlaces /\ LlTxPlace.n = Len(intact) + 1
           /\ LlTxPlace.j = IF tx.state = "start" THEN 0 ELSE tx.sent + tx.crc_sent + 1
           /\ LlTxPlace.e = IF tx.escape THEN 1 ELSE 0
<1>1. LlSent = Append(intact, tx.frame) /\ tx.frame \in Frames /\ intact \in Seq(Frames)
  BY DEF LlSent, LlTypes
<1>2. LlSent \in Seq(Frames) /\ Len(LlSent) = Len(intact) + 1 /\ LlSent[Len(intact) + 1] = tx.frame /\ Len(intact) \in Nat
  BY <1>1
<1> DEFINE n == Len(intact) + 1
           j == IF tx.state = "start" THEN 0 ELSE tx.sent + tx.crc_sent + 1
           e == IF tx.escape THEN 1 ELSE 0
<1>3. LlTxPlace = LlPlace(n, j, e)
  BY DEF LlTxPlace
<1>4. n \in Nat \ {0} /\ j \in Nat /\ e \in {0, 1}
  BY <1>2 DEF LlTypes
<1> HIDE DEF n, j, e
<1>5. LlTxPlace \in LlPlaces /\ LlTxPlace.n = n /\ LlTxPlace.j = j /\ LlTxPlace.e = e
  <2>1. /\ LlPlace(n, j, e) \in LlPlaces
        /\ LlPlace(n, j, e).n = n /\ LlPlace(n, j, e).j = j /\ LlPlace(n, j, e).e = e
    BY ONLY <1>4, LlPlaceTypes
  <2> QED BY ONLY <1>3, <2>1
<1> QED BY <1>2, <1>5 DEF n, j, e

LEMMA LlStartHolds ==
    ASSUME LlTypes, LlTx, SendStart, tx.frame # <<>>, ~tainted,
           NEW g \in Nat, NEW w \in Seq(LlPlaces), LlHolds(LlSent, g, w)
    PROVE  (\E h \in Nat, u \in Seq(LlPlaces) : LlHolds(LlSent, h, u))'
<1>1. /\ UNCHANGED LlRest /\ UNCHANGED intact
      /\ line' = line \o <<FLAG_SEQUENCE>> /\ tx.state = "start" /\ tx' = [tx EXCEPT !.state = "data"]
  BY LlStartTypes
<1>2. tx'.frame = tx.frame /\ tx'.state = "data" /\ tx'.sent = 0 /\ tx'.crc_sent = 0 /\ ~tx'.escape /\ ~tx.escape
  BY <1>1 DEF LlTx, LlTypes
<1> PICK S : S = LlSent
  OBVIOUS
<1>3. S = LlSent'
  BY <1>1, <1>2 DEF LlSent, LlRest
<1> PICK c : c = LlTxPlace
  OBVIOUS
<1>4. S \in Seq(Frames) /\ Len(S) = Len(intact) + 1 /\ c \in LlPlaces /\ c.n = Len(intact) + 1 /\ c.j = 0 /\ c.n <= Len(S)
  BY <1>1, LlSenderPlace
<1>5. LlSymbol(S, c) = FLAG_SEQUENCE /\ LlSucc(S, c) = LlPlace(Len(intact) + 1, 1, 0)
  BY <1>4 DEF LlSymbol, LlSucc
<1>6. LlTxPlace' = LlPlace(Len(intact) + 1, 1, 0)
  <2> tx'.sent + tx'.crc_sent + 1 = 1 /\ ~tainted' /\ intact' = intact
    BY <1>1, <1>2 DEF LlRest
  <2> QED BY <1>2 DEF LlTxPlace
<1> QED BY <1>1, <1>3, <1>4, <1>5, <1>6, LlHoldsOne

LEMMA LlSpecialHolds ==
    ASSUME LlTypes, LlTx, SendSpecial, ~tainted,
           NEW g \in Nat, NEW w \in Seq(LlPlaces), LlHolds(LlSent, g, w)
    PROVE  (\E h \in Nat, u \in Seq(LlPlaces) : LlHolds(LlSent, h, u))'
<1>1. /\ UNCHANGED LlRest /\ UNCHANGED intact
      /\ tx.state = "data" /\ tx.frame[tx.sent + 1] \in Special
      /\ line' = line \o <<Escaped(tx.frame[tx.sent + 1])>>
      /\ tx'.frame = tx.frame /\ tx'.escape = ~tx.escape /\ tx'.state \in {"data", "crc"}
      /\ tx'.sent = (IF tx.escape THEN tx.sent + 1 ELSE tx.sent) /\ tx'.crc_sent = 0 /\ tx.crc_sent = 0
      /\ tx.sent < Len(tx.frame)
  BY LlSpecialTypes
<1>2. tx.frame # <<>> /\ Len(tx.frame) \in Nat /\ tx.sent \in Nat /\ CrcLen \in Nat /\ LlLen(tx.frame) = Len(tx.frame) + CrcLen
      /\ tx.escape \in BOOLEAN
  BY <1>1, LlTxFrame DEF LlTypes
<1> PICK S : S = LlSent
  OBVIOUS
<1>3. S = LlSent'
  BY <1>1 DEF LlSent, LlRest
<1> PICK c : c = LlTxPlace
  OBVIOUS
<1> PICK n : n = Len(intact) + 1
  OBVIOUS
<1>4. S \in Seq(Frames) /\ c \in LlPlaces /\ c.n = n /\ c.j = tx.sent + 1 /\ c.n <= Len(S) /\ S[n] = tx.frame
      /\ c.e = (IF tx.escape THEN 1 ELSE 0) /\ n \in Nat \ {0}
  BY <1>1, <1>2, LlSenderPlace
<1>5. LlByte(S[c.n], c.j) = tx.frame[tx.sent + 1] /\ c.j # 0 /\ c.j # LlLen(S[c.n]) + 1
  <2>1. PICK a \in Nat, p \in Nat : a = tx.sent /\ p = Len(tx.frame)
    BY <1>2
  <2>2. a < p /\ LlLen(tx.frame) = p + CrcLen /\ CrcLen \in Nat
    BY <1>1, <1>2, <2>1
  <2>3. a + 1 <= p /\ a + 1 # 0 /\ a + 1 # LlLen(tx.frame) + 1
    BY ONLY a \in Nat, p \in Nat, <2>2
  <2> QED BY <1>4, <2>1, <2>3 DEF LlByte
<1>6. LlSymbol(S, c) = Escaped(tx.frame[tx.sent + 1])
  BY <1>1, <1>2, <1>4, <1>5 DEF LlSymbol, Escaped
<1>7. LlSucc(S, c) = LlTxPlace'
  <2>0. LlTxPlace' = LlPlace(n, tx'.sent + tx'.crc_sent + 1, IF tx'.escape THEN 1 ELSE 0)
    BY <1>1 DEF LlTxPlace, LlRest
  <2>1. CASE tx.escape
    <3> LlSucc(S, c) = LlPlace(n, c.j + 1, 0)
      BY <1>1, <1>4, <1>5, <2>1 DEF LlSucc
    <3> tx'.sent = tx.sent + 1 /\ tx'.crc_sent = 0 /\ ~tx'.escape /\ c.j = tx.sent + 1 /\ tx.sent \in Nat
      BY <1>1, <1>2, <1>4, <2>1
    <3> tx'.sent + tx'.crc_sent + 1 = c.j + 1
      OBVIOUS
    <3> QED BY <2>0
  <2>2. CASE ~tx.escape
    <3> LlSucc(S, c) = LlPlace(n, c.j, 1)
      BY <1>1, <1>4, <1>5, <2>2 DEF LlSucc
    <3> tx'.sent = tx.sent /\ tx'.crc_sent = 0 /\ tx'.escape /\ c.j = tx.sent + 1 /\ tx.sent \in Nat
      BY <1>1, <1>2, <1>4, <2>2
    <3> tx'.sent + tx'.crc_sent + 1 = c.j
      OBVIOUS
    <3> QED BY <2>0
  <2> QED BY <2>1, <2>2
<1> QED BY <1>1, <1>3, <1>4, <1>6, <1>7, LlHoldsOne

LEMMA LlCrcHolds ==
    ASSUME LlTypes, LlTx, SendCrc, ~tainted,
           NEW g \in Nat, NEW w \in Seq(LlPlaces), LlHolds(LlSent, g, w)
    PROVE  (\E h \in Nat, u \in Seq(LlPlaces) : LlHolds(LlSent, h, u))'
<1> PICK x : x = CrcByte(tx.frame, tx.crc_sent + 1)
  OBVIOUS
<1>1. /\ UNCHANGED LlRest /\ UNCHANGED intact
      /\ tx.state = "crc" /\ tx.crc_sent < CrcLen /\ tx'.state = "crc" /\ tx'.frame = tx.frame /\ tx'.sent = tx.sent
      /\ \/ /\ x \notin Special /\ line' = line \o <<x>> /\ ~tx.escape /\ ~tx'.escape
            /\ tx'.crc_sent = tx.crc_sent + 1
         \/ /\ x \in Special /\ line' = line \o <<Escaped(x)>> /\ tx'.escape = ~tx.escape
            /\ tx'.crc_sent = IF tx.escape THEN tx.crc_sent + 1 ELSE tx.crc_sent
  BY LlCrcTypes
<1>2. tx.frame # <<>> /\ Len(tx.frame) \in Nat /\ tx.sent = Len(tx.frame) /\ tx.crc_sent \in Nat /\ CrcLen \in Nat
      /\ LlLen(tx.frame) = Len(tx.frame) + CrcLen /\ tx.escape \in BOOLEAN
  BY <1>1, LlTxFrame DEF LlTypes, LlTx
<1> PICK S : S = LlSent
  OBVIOUS
<1>3. S = LlSent'
  BY <1>1 DEF LlSent, LlRest
<1> PICK c : c = LlTxPlace
  OBVIOUS
<1> PICK n : n = Len(intact) + 1
  OBVIOUS
<1>4. S \in Seq(Frames) /\ c \in LlPlaces /\ c.n = n /\ c.j = tx.sent + tx.crc_sent + 1 /\ c.n <= Len(S) /\ S[n] = tx.frame
      /\ c.e = (IF tx.escape THEN 1 ELSE 0) /\ n \in Nat \ {0}
  BY <1>1, <1>2, LlSenderPlace
<1>5. LlByte(S[c.n], c.j) = x /\ c.j # 0 /\ c.j # LlLen(S[c.n]) + 1
  <2>1. PICK a \in Nat, p \in Nat : a = tx.crc_sent /\ p = Len(tx.frame)
    BY <1>2
  <2>2. c.j = p + a + 1 /\ a < CrcLen /\ LlLen(tx.frame) = p + CrcLen /\ CrcLen \in Nat
    BY <1>1, <1>2, <1>4, <2>1
  <2>3. ~(c.j <= p) /\ c.j - p = a + 1 /\ c.j # 0 /\ c.j # LlLen(tx.frame) + 1
    BY ONLY a \in Nat, p \in Nat, <2>2
  <2> QED BY <1>4, <2>1, <2>3 DEF LlByte
<1>0. LlTxPlace' = LlPlace(n, tx'.sent + tx'.crc_sent + 1, IF tx'.escape THEN 1 ELSE 0)
  BY <1>1 DEF LlTxPlace, LlRest
<1>6. CASE x \notin Special
  <2>1. line' = line \o <<x>> /\ ~tx.escape /\ ~tx'.escape /\ tx'.crc_sent = tx.crc_sent + 1
    BY <1>1, <1>6
  <2>2. LlSymbol(S, c) = x
    BY <1>5, <1>6 DEF LlSymbol
  <2>3. LlSucc(S, c) = LlPlace(n, c.j + 1, 0)
    BY <1>4, <1>5, <1>6 DEF LlSucc
  <2>4. tx'.sent + tx'.crc_sent + 1 = c.j + 1
    <3> tx'.sent = tx.sent /\ tx'.crc_sent = tx.crc_sent + 1 /\ tx.sent \in Nat /\ tx.crc_sent \in Nat
        /\ c.j = tx.sent + tx.crc_sent + 1
      BY <1>1, <1>2, <1>4, <2>1
    <3> QED OBVIOUS
  <2>5. LlSucc(S, c) = LlTxPlace'
    BY <1>0, <2>1, <2>3, <2>4
  <2> QED BY <1>1, <1>3, <1>4, <2>1, <2>2, <2>5, LlHoldsOne
<1>7. CASE x \in Special
  <2>0. line' = line \o <<Escaped(x)>> /\ tx'.escape = ~tx.escape
        /\ tx'.crc_sent = IF tx.escape THEN tx.crc_sent + 1 ELSE tx.crc_sent
    BY <1>1, <1>7
  <2>1. LlSymbol(S, c) = Escaped(x)
    BY <1>2, <1>4, <1>5, <1>7 DEF LlSymbol, Escaped
  <2>2. LlSucc(S, c) = LlTxPlace'
    <3>1. CASE tx.escape
      <4> LlSucc(S, c) = LlPlace(n, c.j + 1, 0)
        BY <1>4, <1>5, <1>7, <3>1 DEF LlSucc
      <4> tx'.sent = tx.sent /\ tx'.crc_sent = tx.crc_sent + 1 /\ tx.sent \in Nat /\ tx.crc_sent \in Nat
          /\ c.j = tx.sent + tx.crc_sent + 1 /\ ~tx'.escape
        BY <1>1, <1>2, <1>4, <2>0, <3>1
      <4> tx'.sent + tx'.crc_sent + 1 = c.j + 1
        OBVIOUS
      <4> QED BY <1>0
    <3>2. CASE ~tx.escape
      <4> LlSucc(S, c) = LlPlace(n, c.j, 1)
        BY <1>4, <1>5, <1>7, <3>2 DEF LlSucc
      <4> tx'.sent + tx'.crc_sent + 1 = c.j /\ tx'.escape
        BY <1>1, <1>2, <1>4, <2>0, <3>2
      <4> QED BY <1>0
    <3> QED BY <3>1, <3>2
  <2> QED BY <1>1, <1>3, <1>4, <2>0, <2>1, <2>2, LlHoldsOne
<1> QED BY <1>6, <1>7

LEMMA LlEndHolds ==
    ASSUME LlTypes, LlTx, SendEnd, ~tainted,
           NEW g \in Nat, NEW w \in Seq(LlPlaces), LlHolds(LlSent, g, w)
    PROVE  (\E h \in Nat, u \in Seq(LlPlaces) : LlHolds(LlSent, h, u))'
<1>1. /\ UNCHANGED LlRest /\ line' = line \o <<FLAG_SEQUENCE>> /\ tx.state = "end" /\ tx' = TxReset
      /\ intact' = Append(intact, tx.frame)
  BY LlEndTypes
<1>2. tx.frame # <<>> /\ tx.sent = Len(tx.frame) /\ tx.crc_sent = CrcLen /\ LlLen(tx.frame) = Len(tx.frame) + CrcLen
      /\ Len(tx.frame) \in Nat /\ CrcLen \in Nat /\ Len(tx.frame) >= 1
  BY <1>1, LlTxFrame DEF LlTx
<1>3. tx'.frame = <<>> /\ tx'.state = "start" /\ ~tx'.escape /\ ~tainted'
  BY <1>1 DEF TxReset, LlRest
<1> PICK S : S = LlSent
  OBVIOUS
<1>4. S = LlSent' /\ S = intact'
  BY <1>1, <1>2, <1>3 DEF LlSent
<1> PICK c : c = LlTxPlace
  OBVIOUS
<1> PICK n : n = Len(intact) + 1
  OBVIOUS
<1>5. S \in Seq(Frames) /\ c \in LlPlaces /\ c.n = n /\ c.j = LlLen(tx.frame) + 1 /\ Len(S) = n /\ S[n] = tx.frame /\ n \in Nat
  BY <1>1, <1>2, LlSenderPlace
<1>6. LlSymbol(S, c) = FLAG_SEQUENCE /\ LlSucc(S, c) = LlPlace(n + 1, 0, 0)
  <2> c.j # 0
    BY <1>2, <1>5
  <2> QED BY <1>5 DEF LlSymbol, LlSucc
<1>7. LlTxPlace' = LlPlace(n + 1, 0, 0)
  BY <1>3, <1>4, <1>5 DEF LlTxPlace
<1>8. c.n <= Len(S)
  BY <1>5
<1> QED BY <1>1, <1>4, <1>5, <1>6, <1>7, <1>8, LlHoldsOne

\* m is the run of k plain bytes of f behind the first a.
LlPlainRun(m, f, a, k) ==
    /\ k >= 1 /\ a + k <= Len(f)
    /\ Len(m) = k
    /\ \A i \in 1..k : m[i] = f[a + i] /\ f[a + i] \notin Special

LEMMA LlRun ==
    ASSUME NEW f \in Seq(Bytes), NEW a \in Nat, NEW k \in Nat, k >= 1, a + k <= Len(f),
           \A i \in 1..k : f[a + i] \notin Special
    PROVE  \E m \in Seq(LlSymbols) : m = SubSeq(SubSeq(f, a + 1, Len(f)), 1, k) /\ LlPlainRun(m, f, a, k)
<1> PICK rest : rest = SubSeq(f, a + 1, Len(f))
  OBVIOUS
<1>0. a < Len(f)
  OBVIOUS
<1>1. rest \in Seq(Bytes) /\ Len(rest) = Len(f) - a /\ \A j \in 1..Len(rest) : rest[j] = f[a + j]
  BY <1>0, LlRestIs
<1>2. Len(rest) \in Nat /\ k <= Len(rest)
  BY <1>1
<1>3. \A i \in 1..k : i \in 1..Len(rest)
  BY <1>2
<1>4. SubSeq(rest, 1, k) \in Seq(Bytes) /\ Len(SubSeq(rest, 1, k)) = k /\ \A i \in 1..k : SubSeq(rest, 1, k)[i] = rest[i]
  <2>1. \A i \in 1..k : rest[i] \in Bytes
    BY <1>1, <1>3
  <2>2. 1 \in Int /\ k \in Int /\ k - 1 + 1 = k /\ \A i \in 1..k : 1 + i - 1 = i
    OBVIOUS
  <2>3. /\ SubSeq(rest, 1, k) \in Seq(Bytes) /\ Len(SubSeq(rest, 1, k)) = (IF 1 <= k THEN k - 1 + 1 ELSE 0)
        /\ \A i \in 1..k - 1 + 1 : SubSeq(rest, 1, k)[i] = rest[1 + i - 1]
    BY <2>1, <2>2, SubSeqProperties
  <2> QED BY <2>2, <2>3
<1>5. Bytes \subseteq LlSymbols
  BY DEF LlSymbols
<1>6. SubSeq(rest, 1, k) \in Seq(LlSymbols)
  BY <1>4, <1>5, SeqMonotonic
<1>7. LlPlainRun(SubSeq(rest, 1, k), f, a, k)
  BY <1>1, <1>3, <1>4 DEF LlPlainRun
<1> QED BY <1>6, <1>7

\* A run of plain bytes from place c on.
LEMMA LlPlainGrows ==
    ASSUME NEW S \in Seq(Frames), NEW n \in 1..Len(S), NEW a \in Nat, NEW k \in Nat,
           NEW c \in LlPlaces, c.n = n, c.j = a + 1, NEW m \in Seq(LlSymbols), LlPlainRun(m, S[n], a, k)
    PROVE  \E v \in Seq(LlPlaces) : LlGrows(S, c, m, v) /\ v[Len(v)] = LlPlace(n, a + 1 + k, 0)
<1> PICK f \in Frames : f = S[n]
  OBVIOUS
<1>0. Len(f) \in Nat /\ LlLen(f) \in Nat /\ CrcLen \in Nat /\ LlLen(f) = Len(f) + CrcLen
  <2>1. f \in Frames
    OBVIOUS
  <2> QED BY ONLY <2>1, LlFrames DEF LlLen
<1> PICK p \in Nat, q \in Nat : p = Len(f) /\ q = LlLen(f)
  BY <1>0
<1>9. k >= 1 /\ a + k <= p /\ Len(m) = k /\ \A i \in 1..k : m[i] = f[a + i] /\ f[a + i] \notin Special
  BY DEF LlPlainRun
<1>10. p <= q
  BY <1>0
<1>1. p <= q /\ a + k <= p /\ n \in Nat \ {0} /\ n <= Len(S) /\ n <= Len(S) + 1
  BY <1>9, <1>10
<1> DEFINE v == [i \in 1..k |-> LlPlace(n, a + 1 + i, 0)]
<1>2. ASSUME NEW i \in 1..k
      PROVE  LET d == LlPlace(n, a + 1 + i, 0)
             IN  d \in LlPlaces /\ LlPlaceOk(S, d) /\ d.n = n /\ d.j = a + 1 + i
  <2>3. i \in Nat /\ i <= k /\ a \in Nat /\ k \in Nat /\ a + k <= p /\ p <= q /\ p \in Nat /\ q \in Nat
    BY <1>1
  <2>0. a + 1 + i \in Nat /\ a + 1 + i <= q + 1
    BY ONLY <2>3
  <2> PICK j \in Nat : j = a + 1 + i
    BY <2>0
  <2>1. j <= LlLen(S[n]) + 1 /\ n <= Len(S) + 1
    BY <1>1, <2>0
  <2>2. LlPlaceOk(S, LlPlace(n, j, 0))
    BY <1>1, <2>1, LlPlaceOkIs
  <2> QED BY <1>1, <2>2, LlPlaceTypes
<1>3. v \in Seq(LlPlaces) /\ Len(v) = k /\ \A i \in 1..k : v[i] = LlPlace(n, a + 1 + i, 0) /\ LlPlaceOk(S, v[i])
  <2>1. \A i \in 1..k : LlPlace(n, a + 1 + i, 0) \in LlPlaces
    BY <1>2
  <2>2. v \in Seq(LlPlaces) /\ Len(v) = k /\ \A i \in 1..k : v[i] = LlPlace(n, a + 1 + i, 0)
    BY <2>1
  <2> QED BY <1>2, <2>2
<1> HIDE DEF v
<1>4. ASSUME NEW i \in 1..k, NEW d \in LlPlaces, d.n = n, d.j = a + i
      PROVE  m[i] = LlSymbol(S, d) /\ v[i] = LlSucc(S, d)
  <2>0. a + i <= p /\ a + i # 0 /\ a + i # q + 1 /\ (a + i) + 1 = a + 1 + i
    BY <1>1
  <2>1. LlByte(S[d.n], d.j) = f[a + i] /\ d.j # 0 /\ d.j # LlLen(S[d.n]) + 1
    BY <1>4, <2>0 DEF LlByte
  <2>2. f[a + i] \notin Special /\ m[i] = f[a + i]
    BY <1>9
  <2>3. LlSymbol(S, d) = f[a + i] /\ LlSucc(S, d) = LlPlace(n, (a + i) + 1, 0)
    BY <1>4, <2>1, <2>2 DEF LlSymbol, LlSucc
  <2> QED BY <1>3, <2>0, <2>2, <2>3
<1>5. m[1] = LlSymbol(S, c) /\ v[1] = LlSucc(S, c)
  <2> 1 \in 1..k
    BY <1>9
  <2> QED BY <1>4
<1>6. ASSUME NEW i \in 2..Len(m) PROVE m[i] = LlSymbol(S, v[i - 1]) /\ v[i] = LlSucc(S, v[i - 1])
  <2>0. i \in 2..k /\ k \in Nat /\ a \in Nat
    BY <1>9
  <2>1. i \in 1..k /\ i - 1 \in 1..k /\ a + 1 + (i - 1) = a + i
    BY ONLY <2>0
  <2>2. v[i - 1] \in LlPlaces /\ v[i - 1].n = n /\ v[i - 1].j = a + i
    BY <1>2, <1>3, <2>1
  <2> QED BY <1>4, <2>1, <2>2
<1>7. LlGrows(S, c, m, v)
  <2>1. Len(v) = Len(m) /\ Len(m) > 0 /\ Len(m) = k
    BY <1>3, <1>9
  <2>2. \A i \in 1..Len(m) : LlPlaceOk(S, v[i])
    BY <1>3, <2>1
  <2> QED BY ONLY <1>5, <1>6, <2>1, <2>2 DEF LlGrows
<1> QED BY <1>3, <1>7, <1>9

LEMMA LlPlainHolds ==
    ASSUME LlTypes, LlTx, NEW k \in 1..Mtu, SendPlain(k), ~tainted,
           NEW g \in Nat, NEW w \in Seq(LlPlaces), LlHolds(LlSent, g, w)
    PROVE  (\E h \in Nat, u \in Seq(LlPlaces) : LlHolds(LlSent, h, u))'
<1>1. /\ UNCHANGED LlRest /\ UNCHANGED intact
      /\ k \in Nat /\ k >= 1 /\ tx.state = "data" /\ tx.sent + k <= Len(tx.frame)
      /\ line' = line \o SubSeq(SubSeq(tx.frame, tx.sent + 1, Len(tx.frame)), 1, k)
      /\ \A j \in 1..k : tx.frame[tx.sent + j] \notin Special
      /\ ~tx.escape /\ ~tx'.escape /\ tx'.frame = tx.frame /\ tx'.state \in {"data", "crc"}
      /\ tx'.sent = tx.sent + k /\ tx'.crc_sent = 0 /\ tx.crc_sent = 0
  BY LlPlainTypes
<1> PICK f, a : f = tx.frame /\ a = tx.sent
  OBVIOUS
<1>2. f # <<>> /\ f \in Seq(Bytes) /\ Len(f) \in Nat /\ a \in Nat
  BY <1>1, LlTxFrame
<1> PICK S, c, n : S = LlSent /\ c = LlTxPlace /\ n = Len(intact) + 1
  OBVIOUS
<1>3. S = LlSent'
  BY <1>1 DEF LlSent, LlRest
<1>4. S \in Seq(Frames) /\ c \in LlPlaces /\ c.n = n /\ c.j = a + 1 /\ n \in 1..Len(S) /\ S[n] = f
  BY <1>1, <1>2, LlSenderPlace
<1>5. k \in Nat /\ k >= 1 /\ a + k <= Len(f) /\ \A i \in 1..k : f[a + i] \notin Special
  BY <1>1
<1>6. PICK m \in Seq(LlSymbols) : m = SubSeq(SubSeq(f, a + 1, Len(f)), 1, k) /\ LlPlainRun(m, f, a, k)
  BY <1>2, <1>5, LlRun
<1>7. PICK v \in Seq(LlPlaces) : LlGrows(S, c, m, v) /\ v[Len(v)] = LlPlace(n, a + 1 + k, 0)
  <2>1. LlPlainRun(m, S[n], a, k)
    BY <1>4, <1>6
  <2>2. k \in Nat /\ a \in Nat
    BY <1>2, <1>5
  <2> QED BY ONLY <1>4, <2>1, <2>2, m \in Seq(LlSymbols), LlPlainGrows
<1>8. line' = line \o m
  BY <1>1, <1>6
<1>9. LlTxPlace' = v[Len(v)]
  <2> tx'.sent + tx'.crc_sent + 1 = a + 1 + k
    BY <1>1, <1>2
  <2> LlTxPlace' = LlPlace(n, a + 1 + k, 0)
    BY <1>1 DEF LlTxPlace, LlRest
  <2> QED BY <1>7
<1> QED BY <1>1, <1>3, <1>4, <1>7, <1>8, <1>9, LlHoldsGrow

\* Steps that neither move a byte nor change what the places say.
LEMMA LlHoldsStays ==
    ASSUME NEW S, S = LlSent, S = LlSent', UNCHANGED LlRest, UNCHANGED line, LlTxPlace' = LlTxPlace,
           NEW g \in Nat, NEW w \in Seq(LlPlaces), LlHolds(S, g, w)
    PROVE  (\E h \in Nat, u \in Seq(LlPlaces) : LlHolds(LlSent, h, u))'
<1>1. UNCHANGED <<rx, delivered, damages, line>>
  BY DEF LlRest
<1>2. g = 0 => LlReceiver(S, w[1])'
  BY <1>1 DEF LlHolds, LlReceiver, LlSynced
<1>3. damages' = 0 => g = 0 /\ LlExact(S, w[1])'
  BY <1>1 DEF LlHolds, LlExact, LlSynced
<1>4. LlHolds(LlSent, g, w)'
  BY <1>1, <1>2, <1>3 DEF LlHolds
<1> QED BY <1>4

LEMMA LlPutHolds ==
    ASSUME LlTypes, LlTx, NEW f \in Frames, PutFrame(f),
           NEW g \in Nat, NEW w \in Seq(LlPlaces), LlHolds(LlSent, g, w)
    PROVE  (\E h \in Nat, u \in Seq(LlPlaces) : LlHolds(LlSent, h, u))'
<1>1. tx.frame = <<>> /\ UNCHANGED <<line, rx, delivered, intact, damages>> /\ tainted' = FALSE
  BY DEF PutFrame
<1>2. tx' = [tx EXCEPT !.frame = f] /\ tx'.frame = f /\ tx'.state = "start" /\ f # <<>>
  BY LlPutTypes, LlFrames
<1>3. tx.state = "start" /\ ~tx.escape /\ ~tx'.escape
  BY <1>1, <1>2, LlPutTypes DEF LlTx, LlTypes
<1> PICK S : S = LlSent
  OBVIOUS
<1>4. S = intact /\ S \in Seq(Frames) /\ LlSent' = Append(S, f)
  BY <1>1, <1>2 DEF LlSent, LlTypes
<1>5. LlTxPlace' = LlTxPlace
  BY <1>1, <1>2, <1>3 DEF LlTxPlace
<1>6. LlPath(S, line, g, w) /\ line \in Seq(LlSymbols) /\ w[Len(w)] = LlTxPlace
  BY DEF LlHolds, LlTypes
<1>7. LlPath(Append(S, f), line, g, w)
  BY <1>4, <1>6, LlPathMore
<1>8. ASSUME g = 0 PROVE w[1] \in LlPlaces /\ LlPlaceOk(S, w[1])
  <2> 1 \in g + 1 .. Len(w) /\ 1 \in 1..Len(w)
    BY <1>6, <1>8 DEF LlPath
  <2> QED BY <1>6 DEF LlPath
<1>9. g = 0 => LlReceiver(Append(S, f), w[1])'
  <2> SUFFICES ASSUME g = 0 PROVE LlReceiver(Append(S, f), w[1])'
    OBVIOUS
  <2> LlReceiver(Append(S, f), w[1])
    BY <1>4, <1>8, LlPlaceMore DEF LlHolds
  <2> QED BY <1>1 DEF LlReceiver, LlSynced
<1>10. damages' = 0 => g = 0 /\ LlExact(Append(S, f), w[1])'
  <2> SUFFICES ASSUME damages = 0 PROVE g = 0 /\ LlExact(Append(S, f), w[1])'
    BY <1>1
  <2> g = 0 /\ LlExact(S, w[1])
    BY DEF LlHolds
  <2> LlExact(Append(S, f), w[1])
    BY <1>4, <1>8, LlPlaceMore
  <2> QED BY <1>1 DEF LlExact, LlSynced
<1>11. LlHolds(LlSent, g, w)'
  BY <1>1, <1>4, <1>5, <1>6, <1>7, <1>9, <1>10 DEF LlHolds
<1> QED BY <1>11

LEMMA LlRxHolds ==
    ASSUME LlTypes, LlTx, RunRx,
           NEW g \in Nat, NEW w \in Seq(LlPlaces), LlHolds(LlSent, g, w)
    PROVE  (\E h \in Nat, u \in Seq(LlPlaces) : LlHolds(LlSent, h, u))'
<1>1. line # <<>> /\ line' = Tail(line) /\ LlReads(line[1]) /\ UNCHANGED <<tx, intact, tainted, damages>> /\ LlTypes'
  BY LlRxTypes
<1> PICK S : S = LlSent
  OBVIOUS
<1>2. S = LlSent' /\ LlTxPlace' = LlTxPlace
  BY <1>1 DEF LlSent, LlTxPlace
<1>3. S \in Seq(Frames) /\ line \in Seq(LlSymbols)
  BY DEF LlSent, LlTypes
<1> PICK l \in Seq(LlSymbols) : l = line
  BY <1>3
<1>4. LlPath(S, l, g, w) /\ l # <<>> /\ w[Len(w)] = LlTxPlace
  BY <1>1 DEF LlHolds
<1> PICK h, d : h = (IF g = 0 THEN 0 ELSE g - 1) /\ d = LlTxPlace
  OBVIOUS
<1>0. LlPathTo(S, l, g, w, w[1], d) /\ h \in Nat
  BY <1>4 DEF LlPathTo
<1>9. PICK u \in Seq(LlPlaces) : LlPathTo(S, Tail(l), h, u, w[2], d)
  BY <1>0, <1>3, <1>4, LlPathRead
<1>5. LlPath(S, Tail(l), h, u) /\ u[Len(u)] = LlTxPlace /\ u[1] = w[2] /\ h \in Nat
  BY <1>0, <1>9 DEF LlPathTo
<1>6. CASE g = 0
  <2>1. 1 \in g + 1 .. Len(w) /\ 1 \in 1..Len(w) /\ 1 \in g + 1 .. Len(l) /\ 2 \in g + 1 .. Len(w) /\ 1 + 1 = 2
    BY <1>4, <1>6 DEF LlPath
  <2> PICK c : c = w[1]
    OBVIOUS
  <2>2. c \in LlPlaces /\ LlPlaceOk(S, c) /\ l[1] = LlSymbol(S, c) /\ w[2] = LlSucc(S, c) /\ LlPlaceOk(S, w[2])
    BY <1>4, <2>1 DEF LlPath
  <2>3. c.n <= Len(S)
    <3>1. CASE c.j > 0
      BY <2>2, <3>1 DEF LlPlaceOk
    <3>2. CASE c.j = 0
      <4> LlSucc(S, c) = LlPlace(c.n, 1, 0)
        BY <3>2 DEF LlSucc
      <4> c.n \in Nat \ {0}
        BY <2>2 DEF LlPlaces
      <4> LlPlaceOk(S, LlPlace(c.n, 1, 0))
        BY <2>2
      <4> 1 \in Nat /\ 1 > 0 /\ 0 \in {0, 1}
        OBVIOUS
      <4> QED BY LlPlaceOkIs
    <3> QED BY <2>2, <3>1, <3>2 DEF LlPlaces
  <2>4. LlReceiver(S, c) /\ (damages = 0 => LlExact(S, c))
    BY <1>6 DEF LlHolds
  <2>5. LlReads(LlSymbol(S, c))
    BY <1>1, <2>2
  <2>6. LlReceiver(S, LlSucc(S, c))' /\ (LlExact(S, c) => LlExact(S, LlSucc(S, c))')
    BY <1>3, <2>2, <2>3, <2>4, <2>5, LlRead
  <2>7. LlReceiver(S, u[1])' /\ (damages = 0 => LlExact(S, u[1])')
    BY <1>5, <2>2, <2>4, <2>6
  <2>8. LlHolds(LlSent, h, u)'
    BY <1>1, <1>2, <1>4, <1>5, <1>6, <2>7 DEF LlHolds
  <2> QED BY <1>5, <2>8
<1>7. CASE g # 0
  <2>1. damages' # 0
    BY <1>1, <1>7 DEF LlHolds
  <2>2. h = 0 => LlReceiver(S, u[1])'
    <3> SUFFICES ASSUME h = 0 PROVE LlReceiver(S, u[1])'
      OBVIOUS
    <3> g = 1
      BY <1>7
    <3> u[1] = LlFirst
      BY <1>4, <1>5 DEF LlPath
    <3> LlFirst.n = 1 /\ LlFirst.j = 0
      BY DEF LlFirst, LlPlace
    <3> 2..1 - 1 = {} /\ Len(delivered') >= 1 - 2
      BY <1>1 DEF LlTypes
    <3> QED BY DEF LlReceiver
  <2>3. LlHolds(LlSent, h, u)'
    BY <1>1, <1>2, <1>4, <1>5, <2>1, <2>2 DEF LlHolds
  <2> QED BY <1>5, <2>3
<1> QED BY <1>6, <1>7

LEMMA LlInit == Init => LlInv
<1> SUFFICES ASSUME Init PROVE LlInv
  OBVIOUS
<1>1. LlTypes
  <2>1. tx \in [state : {"start", "data", "crc", "end"}, frame : {<<>>} \cup Frames,
               sent : Nat, escape : BOOLEAN, crc_sent : Nat]
    BY DEF Init, TxReset
  <2>2. rx.state \in {"start", "data"} /\ rx.escape \in BOOLEAN /\ rx.buf = <<>>
        /\ rx = [state |-> rx.state, buf |-> rx.buf, escape |-> rx.escape, active |-> rx.active]
    BY DEF Init
  <2>3. line = <<>> /\ delivered = <<>> /\ intact = <<>> /\ tainted = FALSE /\ damages = 0
    BY DEF Init
  <2>4. line \in Seq(LlSymbols) /\ delivered \in Seq(Seq(LlStored)) /\ intact \in Seq(Frames) /\ rx.buf \in Seq(LlStored)
    BY <2>2, <2>3, EmptySeq
  <2>5. tainted \in BOOLEAN /\ damages \in Nat
    BY <2>3
  <2> QED BY <2>1, <2>2, <2>4, <2>5 DEF LlTypes
<1>2. tx.state = "start" /\ tx.frame = <<>> /\ tx.sent = 0 /\ tx.crc_sent = 0 /\ ~tx.escape /\ rx.state = "start"
      /\ line = <<>> /\ delivered = <<>> /\ intact = <<>> /\ ~tainted
  BY DEF Init, TxReset
<1>3. LlTx
  BY <1>2 DEF LlTx
<1>4. LlSent = <<>> /\ LlTxPlace = LlFirst
  <2> Len(intact) + 1 = 1
    BY <1>2
  <2> QED BY <1>2 DEF LlSent, LlTxPlace, LlFirst
<1>5. PICK w \in Seq(LlPlaces) : LlPath(<<>>, <<>>, Len(<<>>), w) /\ w[Len(w)] = LlFirst /\ w[1] = LlFirst
  <2>1. <<>> \in Seq(Frames) /\ <<>> \in Seq(LlSymbols)
    OBVIOUS
  <2> QED BY <2>1, LlPathLost
<1>6. LlFirst.n = 1 /\ LlFirst.j = 0 /\ Len(delivered) = 0 /\ 2..1 - 1 = {} /\ 1..1 - 1 = {}
  BY <1>2 DEF LlFirst, LlPlace
<1>7. LlReceiver(<<>>, LlFirst) /\ LlExact(<<>>, LlFirst)
  BY <1>2, <1>6 DEF LlReceiver, LlExact, LlSynced
<1>8. LlHolds(LlSent, 0, w)
  <2> Len(<<>>) = 0
    OBVIOUS
  <2> QED BY <1>2, <1>4, <1>5, <1>7 DEF LlHolds
<1> QED BY <1>1, <1>3, <1>8 DEF LlInv

LEMMA LlStep == LlInv /\ [Next]_vars => LlInv'
<1> SUFFICES ASSUME LlInv, [Next]_vars PROVE LlInv'
  OBVIOUS
<1>0. LlTypes /\ LlTx
  BY DEF LlInv
<1>1. PICK g \in Nat, w \in Seq(LlPlaces) : LlHolds(LlSent, g, w)
  BY DEF LlInv
<1> DEFINE Goal == (\E h \in Nat, u \in Seq(LlPlaces) : LlHolds(LlSent, h, u))'
<1> SUFFICES LlTypes' /\ LlTx' /\ Goal
  BY DEF LlInv
<1> HIDE DEF Goal
<1>2. ASSUME UNCHANGED <<tx, line, rx, delivered, intact, tainted, damages>> PROVE LlTypes' /\ LlTx' /\ Goal
  <2>1. LlTypes' /\ LlTx'
    BY <1>0, <1>2 DEF LlTypes, LlTx
  <2>2. LlSent' = LlSent /\ LlTxPlace' = LlTxPlace /\ UNCHANGED LlRest /\ UNCHANGED line
    BY <1>2 DEF LlSent, LlTxPlace, LlRest
  <2> PICK S : S = LlSent
    OBVIOUS
  <2>3. Goal
    BY <1>1, <2>2, LlHoldsStays DEF Goal
  <2> QED BY <2>1, <2>3
<1>3. ASSUME NEW f \in Frames, PutFrame(f) PROVE LlTypes' /\ LlTx' /\ Goal
  BY <1>0, <1>1, <1>3, LlPutTypes, LlPutHolds DEF Goal
<1>4. ASSUME NEW n \in OutSizes, RunTx(n) PROVE LlTypes' /\ LlTx' /\ Goal
  BY <1>2, <1>4 DEF RunTx
<1>5. CASE SendStart
  <2>1. CASE tx.frame = <<>>
    BY <1>2, <1>5, <2>1 DEF SendStart
  <2>2. CASE tx.frame # <<>>
    <3>1. LlTypes' /\ LlTx' /\ UNCHANGED LlRest
      BY <1>0, <1>5, <2>2, LlStartTypes
    <3>2. CASE ~tainted
      BY <1>0, <1>1, <1>5, <2>2, <3>1, <3>2, LlStartHolds DEF Goal
    <3>3. CASE tainted
      <4> tainted' /\ UNCHANGED damages
        BY <3>1, <3>3 DEF LlRest
      <4> QED BY <1>0, <3>1, <3>3, LlTaintedStep DEF Goal
    <3> QED BY <3>2, <3>3
  <2> QED BY <2>1, <2>2
<1>6. ASSUME NEW k \in 1..Mtu, SendPlain(k) PROVE LlTypes' /\ LlTx' /\ Goal
  <2>1. LlTypes' /\ LlTx' /\ UNCHANGED LlRest
    BY <1>0, <1>6, LlPlainTypes
  <2>2. CASE ~tainted
    BY <1>0, <1>1, <1>6, <2>1, <2>2, LlPlainHolds DEF Goal
  <2>3. CASE tainted
    <3> tainted' /\ UNCHANGED damages
      BY <2>1, <2>3 DEF LlRest
    <3> QED BY <1>0, <2>1, <2>3, LlTaintedStep DEF Goal
  <2> QED BY <2>2, <2>3
<1>7. CASE SendSpecial
  <2>1. LlTypes' /\ LlTx' /\ UNCHANGED LlRest
    BY <1>0, <1>7, LlSpecialTypes
  <2>2. CASE ~tainted
    BY <1>0, <1>1, <1>7, <2>1, <2>2, LlSpecialHolds DEF Goal
  <2>3. CASE tainted
    <3> tainted' /\ UNCHANGED damages
      BY <2>1, <2>3 DEF LlRest
    <3> QED BY <1>0, <2>1, <2>3, LlTaintedStep DEF Goal
  <2> QED BY <2>2, <2>3
<1>8. CASE SendCrc
  <2>1. LlTypes' /\ LlTx' /\ UNCHANGED LlRest
    BY <1>0, <1>8, LlCrcTypes
  <2>2. CASE ~tainted
    BY <1>0, <1>1, <1>8, <2>1, <2>2, LlCrcHolds DEF Goal
  <2>3. CASE tainted
    <3> tainted' /\ UNCHANGED damages
      BY <2>1, <2>3 DEF LlRest
    <3> QED BY <1>0, <2>1, <2>3, LlTaintedStep DEF Goal
  <2> QED BY <2>2, <2>3
<1>9. CASE SendCrcDone
  <2>1. /\ LlTypes' /\ LlTx' /\ UNCHANGED LlRest /\ UNCHANGED <<intact, line>>
        /\ tx.state = "crc" /\ tx' = [tx EXCEPT !.state = "end"]
    BY <1>0, <1>9, LlCrcDoneTypes
  <2>2. tx'.state = "end" /\ tx'.frame = tx.frame /\ tx'.sent = tx.sent /\ tx'.crc_sent = tx.crc_sent /\ tx'.escape = tx.escape
    BY <1>0, <2>1 DEF LlTypes
  <2>3. LlSent' = LlSent /\ LlTxPlace' = LlTxPlace
    BY <2>1, <2>2 DEF LlSent, LlTxPlace, LlRest
  <2> PICK S : S = LlSent
    OBVIOUS
  <2>4. Goal
    BY <1>1, <2>1, <2>3, LlHoldsStays DEF Goal
  <2> QED BY <2>1, <2>4
<1>10. CASE SendEnd
  <2>1. LlTypes' /\ LlTx' /\ UNCHANGED LlRest
    BY <1>0, <1>10, LlEndTypes
  <2>2. CASE ~tainted
    BY <1>0, <1>1, <1>10, <2>1, <2>2, LlEndHolds DEF Goal
  <2>3. CASE tainted
    <3> tainted' /\ UNCHANGED damages
      BY <2>1, <2>3 DEF LlRest
    <3> QED BY <1>0, <2>1, <2>3, LlTaintedStep DEF Goal
  <2> QED BY <2>2, <2>3
<1>11. CASE RunRx
  BY <1>0, <1>1, <1>11, LlRxTypes, LlRxHolds DEF Goal
<1>12. CASE Noise \/ ResetTx \/ ResetRx
  <2>1. LlTypes' /\ LlTx' /\ intact' = <<>> /\ damages' # 0 /\ (tx'.frame # <<>> => tainted')
    BY <1>0, <1>12, LlDamage
  <2>2. LlSent' = <<>>
    BY <2>1 DEF LlSent
  <2>3. LlTxPlace' = LlFirst
    <3>1. CASE tx'.frame # <<>>
      BY <2>1, <3>1 DEF LlTxPlace
    <3>2. CASE tx'.frame = <<>>
      <4> tx'.state = "start" /\ ~tx'.escape
        BY <2>1, <3>2 DEF LlTx
      <4> Len(intact') + 1 = 1
        BY <2>1
      <4> QED BY <3>2 DEF LlTxPlace, LlFirst
    <3> QED BY <3>1, <3>2
  <2>4. Goal
    BY <2>1, <2>2, <2>3, LlGiveUp DEF Goal
  <2> QED BY <2>1, <2>4
<1> QED BY <1>2, <1>3, <1>4, <1>5, <1>6, <1>7, <1>8, <1>9, <1>10, <1>11, <1>12 DEF Next, vars

\* With the line empty the receiver is where the sender is.
LEMMA LlDrained ==
    ASSUME LlInv, line = <<>>
    PROVE  /\ LlReceiver(LlSent, LlTxPlace)
           /\ damages = 0 => LlExact(LlSent, LlTxPlace)
<1>1. PICK g \in Nat, w \in Seq(LlPlaces) : LlHolds(LlSent, g, w)
  BY DEF LlInv
<1>2. g = 0 /\ Len(w) = 1
  BY <1>1 DEF LlHolds, LlPath
<1> QED BY <1>1, <1>2 DEF LlHolds

\* Only the frames reported to on_frame_send count once the place is n.
LEMMA LlReported ==
    ASSUME LlInv, ~tainted
    PROVE  LlTxPlace.n = Len(intact) + 1 /\ \A k \in 1..Len(intact) : LlSent[k] = intact[k]
<1>1. intact \in Seq(Frames) /\ tx.frame \in {<<>>} \cup Frames
  BY DEF LlInv, LlTypes
<1>2. \A k \in 1..Len(intact) : LlSent[k] = intact[k]
  <2>1. CASE tx.frame = <<>>
    BY <2>1 DEF LlSent
  <2>2. CASE tx.frame # <<>>
    BY <1>1, <2>2 DEF LlSent
  <2> QED BY <2>1, <2>2
<1> QED BY <1>2 DEF LlTxPlace, LlPlace

\* Transparent: without damage, a drained line means that exactly the frames
\* reported to on_frame_send were given to on_frame_read (hdlc_ll_run_tx,
\* hdlc_ll_run_rx).
THEOREM LlAlwaysTransparent == Spec => []Transparent
<1>1. LlInv => Transparent
  <2> SUFFICES ASSUME LlInv, damages = 0, line = <<>> PROVE delivered = intact
    BY DEF Transparent
  <2>1. ~tainted /\ delivered \in Seq(Seq(LlStored)) /\ intact \in Seq(Frames)
    BY DEF LlInv, LlTx, LlTypes
  <2>2. LlExact(LlSent, LlTxPlace)
    BY LlDrained
  <2>3. LlTxPlace.n = Len(intact) + 1 /\ \A k \in 1..Len(intact) : LlSent[k] = intact[k]
    BY <2>1, LlReported
  <2>4. Len(intact) \in Nat /\ (Len(intact) + 1) - 1 = Len(intact)
    BY <2>1
  <2>5. Len(delivered) = Len(intact) /\ \A k \in 1..Len(intact) : delivered[k] = intact[k]
    BY <2>2, <2>3, <2>4 DEF LlExact
  <2>6. delivered = [k \in 1..Len(intact) |-> delivered[k]] /\ intact = [k \in 1..Len(intact) |-> intact[k]]
    BY <2>1, <2>5
  <2> QED BY <2>5, <2>6
<1> QED BY <1>1, LlInit, LlStep, PTL DEF Spec

\* The last frames of t are those of s, one by one.
LEMMA LlSuffix ==
    ASSUME NEW A, NEW B, NEW s \in Seq(A), NEW t \in Seq(B), Len(s) <= Len(t),
           \A k \in 1..Len(s) : t[Len(t) - Len(s) + k] = s[k]
    PROVE  IsSuffix(s, t)
<1> PICK a \in Nat, b \in Nat : a = Len(s) /\ b = Len(t)
  OBVIOUS
<1> DEFINE r == Reverse(s)
           q == Reverse(t)
<1>1. r = [i \in 1..a |-> s[(a - i) + 1]] /\ q = [i \in 1..b |-> t[(b - i) + 1]]
  BY DEF Reverse
<1>2. \A i \in 1..a : s[(a - i) + 1] \in A
  <2> ASSUME NEW i \in 1..a PROVE (a - i) + 1 \in 1..a
    OBVIOUS
  <2> QED OBVIOUS
<1>3. \A i \in 1..b : t[(b - i) + 1] \in B
  <2> ASSUME NEW i \in 1..b PROVE (b - i) + 1 \in 1..b
    OBVIOUS
  <2> QED OBVIOUS
<1>4. r \in Seq(A) /\ Len(r) = a /\ \A i \in 1..a : r[i] = s[(a - i) + 1]
  BY <1>1, <1>2
<1>5. q \in Seq(B) /\ Len(q) = b /\ \A i \in 1..b : q[i] = t[(b - i) + 1]
  BY <1>1, <1>3
<1> HIDE DEF r, q
<1>6. ASSUME NEW i \in 1..a PROVE r[i] = q[i]
  <2>0. (a - i) + 1 \in Nat
    OBVIOUS
  <2> PICK k \in Nat : k = (a - i) + 1
    BY <2>0
  <2>1. k \in 1..a /\ i \in 1..b /\ (b - i) + 1 = b - a + k
    OBVIOUS
  <2>2. t[b - a + k] = s[k]
    BY <2>1
  <2> QED BY <1>4, <1>5, <2>1, <2>2
<1>7. SubSeq(r, 1, a) = [i \in 1..a |-> r[i]]
  BY <1>4
<1>8. SubSeq(q, 1, a) = [i \in 1..a |-> q[i]]
  <2> \A i \in 1..a : i \in 1..b
    OBVIOUS
  <2> QED BY <1>5
<1>9. SubSeq(r, 1, Len(r)) = SubSeq(q, 1, Len(r)) /\ Len(r) <= Len(q)
  BY <1>4, <1>5, <1>6, <1>7, <1>8
<1> QED BY <1>9 DEF IsSuffix, IsPrefix, r, q

\* Resynchronises: whatever happened to bytes, or to a frame cut short by
\* hdlc_ll_reset, all frames put afterwards but the first are delivered, and
\* nothing behind them.
THEOREM LlAlwaysResynchronises == Spec => []Resynchronises
<1>1. LlInv => Resynchronises
  <2> SUFFICES ASSUME LlInv, line = <<>>, intact # <<>> PROVE IsSuffix(Tail(intact), delivered)
    BY DEF Resynchronises
  <2>1. ~tainted /\ delivered \in Seq(Seq(LlStored)) /\ intact \in Seq(Frames)
    BY DEF LlInv, LlTx, LlTypes
  <2>2. LlReceiver(LlSent, LlTxPlace)
    BY LlDrained
  <2>3. LlTxPlace.n = Len(intact) + 1 /\ \A k \in 1..Len(intact) : LlSent[k] = intact[k]
    BY <2>1, LlReported
  <2> PICK n \in Nat, b \in Nat : n = Len(intact) /\ b = Len(delivered)
    BY <2>1
  <2>4. n >= 1 /\ (n + 1) - 1 = n /\ (n + 1) - 2 = n - 1
    BY <2>1
  <2>5. b >= n - 1 /\ \A k \in 2..n : delivered[b - n + k] = intact[k]
    <3>1. /\ Len(delivered) >= LlTxPlace.n - 2
          /\ \A k \in 2..LlTxPlace.n - 1 : delivered[Len(delivered) - (LlTxPlace.n - 1) + k] = LlSent[k]
      BY <2>2 DEF LlReceiver
    <3>2. b >= n - 1 /\ \A k \in 2..n : delivered[b - n + k] = LlSent[k]
      BY <2>3, <2>4, <3>1
    <3>3. \A k \in 2..n : k \in 1..n
      OBVIOUS
    <3> QED BY <2>3, <3>2, <3>3
  <2> PICK s : s = Tail(intact)
    OBVIOUS
  <2>6. s \in Seq(Frames) /\ Len(s) = n - 1 /\ \A k \in 1..n - 1 : s[k] = intact[k + 1]
    BY <2>1, <2>4
  <2>7. ASSUME NEW k \in 1..Len(s) PROVE delivered[Len(delivered) - Len(s) + k] = s[k]
    <3>1. k \in 1..n - 1 /\ k + 1 \in 2..n /\ b - n + (k + 1) = b - (n - 1) + k
      BY <2>4, <2>6
    <3>2. delivered[b - n + (k + 1)] = intact[k + 1] /\ s[k] = intact[k + 1]
      BY <2>5, <2>6, <3>1
    <3> QED BY <2>6, <3>1, <3>2
  <2>8. Len(s) <= Len(delivered)
    BY <2>5, <2>6
  <2>9. IsSuffix(s, delivered)
    BY <2>1, <2>6, <2>7, <2>8, LlSuffix
  <2> QED BY <2>9
<1> QED BY <1>1, LlInit, LlStep, PTL DEF Spec

-----------------------------------------------------------------------------
(* RustHdlc *)

RsTxType == [state : {"start", "data", "crc", "end"}, frame : Seq(Int), sent : Nat,
             escape : BOOLEAN, bits : {0, 8, 16, 24}]

RsTypeOK ==
    /\ rsCrc \in {"HdlcCrcOff", "HdlcCrc8"}
    /\ rsTx \in RsTxType
    /\ rsRoom \in Nat
    /\ rsOut \in Seq(Nat)
    /\ rsPeer \in [frame : Seq(Int), sent : Nat, escape : BOOLEAN]
    /\ rsLine \in Seq(Int)
    /\ rsRx \in [state : {"start", "data"}, buf : Seq(Int), active : Nat, escape : BOOLEAN]
    /\ rsSent \in Seq(Seq(Int))
    /\ rsGot \in Seq(Seq(Int))
    /\ rsPuts \in Nat
    /\ rsTorn \in BOOLEAN
    /\ rsPanic \in BOOLEAN

(* What the senders are about. *)
RsSenders ==
    /\ Len(rsTx.frame) <= RsMtu
    /\ Len(rsPeer.frame) <= RsMtu
    /\ rsTx.frame = <<>> => rsTx.state = "start"
    /\ rsPeer.frame # <<>> =>
        /\ rsTx.frame = <<>>
        /\ rsPeer.sent <= Len(RsPeerBytes)
        /\ rsCrc = "HdlcCrcOff" \/ Len(rsPeer.frame) = 1
        /\ rsPeer.escape => /\ rsPeer.sent < Len(RsPeerBytes)
                            /\ RsPeerBytes[rsPeer.sent + 1] \in RsSpecial
    /\ rsPeer.frame = <<>> => rsPeer = RsPeerIdle
    /\ rsTx.frame # <<>> =>
        /\ rsTx.state = "start" => rsTx.sent = 0
        /\ rsTx.state = "data" => rsTx.sent < Len(rsTx.frame)
        /\ rsTx.state \in {"crc", "end"} => rsTx.sent = Len(rsTx.frame)
        /\ rsTx.state = "data" /\ rsTx.escape => rsTx.frame[rsTx.sent + 1] \in RsSpecial
        /\ rsTx.state = "end" => rsCrc = "HdlcCrcOff"
        /\ rsTx.state = "crc" /\ rsCrc = "HdlcCrcOff" => rsTx.bits = 0 /\ ~rsTx.escape
        /\ rsTx.state = "end" => ~rsTx.escape

(* The positions whose bytes are on the line. *)
RsPositions ==
    rsTx.frame # <<>> =>
        /\ \A k \in DOMAIN rsOut : rsOut[k] \in 1..rsTx.sent
        /\ Len(rsOut) <= rsTx.sent
        /\ \A j, k \in DOMAIN rsOut : j < k => rsOut[j] < rsOut[k]
        /\ \A i \in 1..rsTx.sent :
              \/ \E k \in DOMAIN rsOut : rsOut[k] = i
              \/ i > 1 /\ {rsTx.frame[i - 1], rsTx.frame[i]} \cap RsSpecial = {}

(* The receiver as far as delivery is concerned. *)
RsViews == [state : {"start", "data"}, buf : Seq(Int), escape : BOOLEAN, got : Seq(Seq(Int))]

RsView == [state |-> rsRx.state, buf |-> rsRx.buf, escape |-> rsRx.escape, got |-> rsGot]

RsPayload(v) == SubSeq(v.buf, 1, Len(v.buf) - RsCrcField[rsCrc])

RsGood(v) ==
    /\ Len(v.buf) >= RsCrcField[rsCrc]
    /\ ~RsSumPanics(Len(v.buf) - RsCrcField[rsCrc])
    /\ rsCrc = "HdlcCrcOff" \/ v.buf[Len(v.buf)] = RsCrc8(RsPayload(v))

(* What a byte does to it. *)
RsAfter(v, b) ==
    IF v.state = "start"
    THEN IF b = RsFlag THEN [state |-> "data", buf |-> <<>>, escape |-> FALSE, got |-> v.got] ELSE v
    ELSE IF b = RsFlag
    THEN IF v.buf = <<>> THEN [state |-> "data", buf |-> <<>>, escape |-> FALSE, got |-> v.got]
         ELSE [state |-> "start", buf |-> v.buf, escape |-> v.escape,
               got |-> IF RsGood(v) THEN Append(v.got, RsPayload(v)) ELSE v.got]
    ELSE IF b = RsEscape THEN [state |-> "data", buf |-> v.buf, escape |-> TRUE, got |-> v.got]
    ELSE IF Len(v.buf) < RsPhysMtu
    THEN [state |-> "data", buf |-> Append(v.buf, IF v.escape THEN RsFlip(b) ELSE b),
          escape |-> FALSE, got |-> v.got]
    ELSE v

(* Where the senders want the receiver once the line is empty. *)
RsTarget(v) ==
    /\ v.got = rsSent
    /\ rsPeer.frame # <<>> =>
        /\ v.state = "data"
        /\ v.buf = SubSeq(RsPeerBytes, 1, rsPeer.sent)
        /\ v.escape = rsPeer.escape
    /\ rsPeer.frame = <<>> /\ rsTx.state = "start" => v.state = "start"
    /\ rsTx.state # "start" =>
        /\ v.state = "data"
        /\ rsTx.state = "data" \/ rsCrc = "HdlcCrcOff" =>
             /\ v.buf = RsBytesAt(rsTx.frame, rsOut)
             /\ v.escape = rsTx.escape

(* The receiver's way there, byte by byte. *)
RsWay(R) ==
    /\ R \in [0..Len(rsLine) -> RsViews]
    /\ R[0] = RsView
    /\ \A i \in 1..Len(rsLine) : R[i] = RsAfter(R[i - 1], rsLine[i])
    /\ RsTarget(R[Len(rsLine)])

RsOnItsWay == ~rsTorn /\ ~rsPanic => \E R : RsWay(R)

RsBuffers == rsRx.active + RsPhysMtu <= RsBufSize

RsInv == RsTypeOK /\ RsSenders /\ RsPositions /\ RsBuffers /\ RsOnItsWay

LEMMA RsFlips == /\ RsFlip(126) = 94 /\ RsFlip(125) = 93 /\ RsFlip(94) = 126 /\ RsFlip(93) = 125
                 /\ \A b \in Int : RsFlip(b) \in Int
BY SMT DEF RsFlip

LEMMA RsFields ==
    ASSUME RsTypeOK
    PROVE  /\ RsCrcField[rsCrc] = IF rsCrc = "HdlcCrcOff" THEN 0 ELSE 1
           /\ RsPhysMtu = IF rsCrc = "HdlcCrcOff" THEN RsMtu ELSE RsMtu + 1
BY RsAssumption DEF RsTypeOK, RsCrcField, RsPhysMtu

(* A set of numbers has a least one. *)
LEMMA RsLeast ==
    ASSUME NEW S, S \subseteq Nat, S # {}
    PROVE  \E m \in S : \A i \in S : m <= i
<1> DEFINE R == OpToRel(<, Nat)
<1>1. IsWellFoundedOn(R, Nat)
    BY NatLessThanWellFounded
<1>2. \A m, n \in Nat : <<m, n>> \in R <=> m < n
    BY DEF OpToRel
<1> HIDE DEF R
<1>3. PICK m \in S : \A y \in S : ~(<<y, m>> \in R)
    BY <1>1, WFMin
<1>4. \A i \in S : ~(i < m)
    BY <1>2, <1>3, Zenon
<1> QED
    BY <1>4

(* What is left of a sequence behind its first n elements. *)
LEMMA RsDropped ==
    ASSUME NEW s \in Seq(Int), NEW n \in 0..Len(s)
    PROVE  /\ SubSeq(s, n + 1, Len(s)) \in Seq(Int)
           /\ Len(SubSeq(s, n + 1, Len(s))) = Len(s) - n
           /\ \A i \in 1..(Len(s) - n) : SubSeq(s, n + 1, Len(s))[i] = s[n + i]
<1>1. Len(s) \in Nat /\ n \in Nat /\ n <= Len(s)
    OBVIOUS
<1>2. \A i \in (n + 1)..Len(s) : s[i] \in Int
    BY <1>1
<1>3. PICK m, l : m = n + 1 /\ l = Len(s)
    OBVIOUS
<1>4. m \in Int /\ l \in Int /\ m = n + 1 /\ l \in Nat /\ n \in Nat /\ n <= l
    BY ONLY <1>1, <1>3
<1>5. PICK t : t = SubSeq(s, m, l)
    OBVIOUS
<1>6. /\ t \in Seq(Int)
      /\ Len(t) = IF m <= l THEN l - m + 1 ELSE 0
      /\ \A i \in 1..(l - m + 1) : t[i] = s[m + i - 1]
  <2>1. \A i \in m..l : s[i] \in Int
    BY ONLY <1>2, <1>3
  <2> QED
    BY ONLY <1>4, <1>5, <2>1, SubSeqProperties
<1>7. Len(t) = l - n /\ l - m + 1 = l - n
    BY ONLY <1>4, <1>6
<1>8. \A i \in 1..(l - n) : t[i] = s[n + i]
  <2> TAKE i \in 1..(l - n)
  <2>1. m + i - 1 = n + i
    BY ONLY <1>4, i \in 1..(l - n)
  <2> QED
    BY ONLY <1>6, <1>7, <2>1, i \in 1..(l - n)
<1> QED
    BY ONLY <1>3, <1>5, <1>6, <1>7, <1>8

(* What stands before the last element. *)
LEMMA RsFrontOf ==
    ASSUME NEW s \in Seq(Int), NEW x \in Int
    PROVE  /\ Len(Append(s, x)) = Len(s) + 1 /\ Append(s, x) # <<>> /\ Append(s, x)[Len(s) + 1] = x
           /\ SubSeq(Append(s, x), 1, (Len(s) + 1) - 1) = s
<1>1. PICK t : t = Append(s, x)
    OBVIOUS
<1>2. /\ t \in Seq(Int) /\ Len(t) = Len(s) + 1 /\ Len(s) \in Nat /\ t # <<>> /\ t[Len(s) + 1] = x
      /\ \A i \in 1..Len(s) : t[i] = s[i]
    BY <1>1
<1>3. PICK z : z = SubSeq(t, 1, Len(s))
    OBVIOUS
<1>4. z \in Seq(Int) /\ Len(z) = Len(s) /\ \A i \in 1..Len(s) : z[i] = t[i]
    BY <1>2, <1>3
<1>5. z = s
    BY <1>2, <1>4, SeqEqual
<1> QED
    BY <1>1, <1>2, <1>3, <1>5

(* The bytes at positions. *)
LEMMA RsBytesAtType ==
    ASSUME NEW f \in Seq(Int), NEW p \in Seq(Nat), \A k \in DOMAIN p : p[k] \in 1..Len(f)
    PROVE  /\ RsBytesAt(f, p) \in Seq(Int)
           /\ Len(RsBytesAt(f, p)) = Len(p)
           /\ \A k \in 1..Len(p) : RsBytesAt(f, p)[k] = f[p[k]]
<1>1. DOMAIN p = 1..Len(p) /\ Len(p) \in Nat
    OBVIOUS
<1>2. RsBytesAt(f, p) \in [1..Len(p) -> Int]
    BY <1>1 DEF RsBytesAt
<1> QED
    BY <1>1, <1>2 DEF RsBytesAt

LEMMA RsPeerBytesType ==
    ASSUME RsTypeOK
    PROVE  /\ RsPeerBytes \in Seq(Int)
           /\ Len(RsPeerBytes) = IF rsCrc = "HdlcCrcOff" THEN Len(rsPeer.frame) ELSE Len(rsPeer.frame) + 1
           /\ rsPeer.frame # <<>> => RsCrc8(rsPeer.frame) = 255 - rsPeer.frame[1]
           /\ rsPeer.frame # <<>> => RsCrc8(rsPeer.frame) \in Int
<1>1. RsCrc8(rsPeer.frame) \in Int
    BY DEF RsCrc8, RsTypeOK, RsTxType
<1> QED
    BY <1>1 DEF RsPeerBytes, RsTypeOK, RsCrc8

(* The next run of plain bytes. *)
LEMMA RsRunIs ==
    ASSUME RsTypeOK, rsTx.sent <= Len(rsTx.frame)
    PROVE  /\ RsRest \in Seq(Int) /\ Len(RsRest) = Len(rsTx.frame) - rsTx.sent
           /\ \A i \in 1..Len(RsRest) : RsRest[i] = rsTx.frame[rsTx.sent + i]
           /\ RsRun \in 0..Len(RsRest)
           /\ \A i \in 1..RsRun : RsRest[i] \notin RsSpecial
           /\ RsRun < Len(RsRest) => RsRest[RsRun + 1] \in RsSpecial
<1>0. rsTx.frame \in Seq(Int) /\ rsTx.sent \in Nat /\ Len(rsTx.frame) \in Nat
    BY DEF RsTypeOK, RsTxType
<1>1. /\ RsRest \in Seq(Int) /\ Len(RsRest) = Len(rsTx.frame) - rsTx.sent
      /\ \A i \in 1..Len(RsRest) : RsRest[i] = rsTx.frame[rsTx.sent + i]
  <2>1. rsTx.sent \in 0..Len(rsTx.frame)
    BY <1>0
  <2>2. /\ RsRest \in Seq(Int) /\ Len(RsRest) = Len(rsTx.frame) - rsTx.sent
        /\ \A i \in 1..(Len(rsTx.frame) - rsTx.sent) : RsRest[i] = rsTx.frame[rsTx.sent + i]
    BY ONLY <1>0, <2>1, RsDropped DEF RsRest
  <2> QED
    BY <2>2
<1>2. \E n \in 0..Len(RsRest) : /\ \A i \in 1..n : RsRest[i] \notin RsSpecial
                                /\ n < Len(RsRest) => RsRest[n + 1] \in RsSpecial
  <2> DEFINE S == {i \in 1..Len(RsRest) : RsRest[i] \in RsSpecial}
  <2>1. CASE S = {}
    BY <1>1, <2>1
  <2>2. CASE S # {}
    <3>0. S \subseteq Nat
      OBVIOUS
    <3>1. PICK m \in S : \A i \in S : m <= i
      BY ONLY <3>0, <2>2, RsLeast
    <3>2. m - 1 \in 0..Len(RsRest) /\ m \in 1..Len(RsRest)
      BY <1>1
    <3>3. \A i \in 1..(m - 1) : RsRest[i] \notin RsSpecial
      BY <1>1, <3>1, <3>2
    <3>4. RsRest[m] \in RsSpecial
      BY ONLY <3>1
    <3>5. (m - 1) + 1 = m
      BY ONLY <3>2
    <3>6. RsRest[(m - 1) + 1] \in RsSpecial
      BY ONLY <3>4, <3>5
    <3> QED
      BY ONLY <3>2, <3>3, <3>6
  <2> QED
    BY <2>1, <2>2
<1> QED
    BY <1>1, <1>2 DEF RsRun
LEMMA RsViewType == ASSUME RsTypeOK PROVE RsView \in RsViews
BY DEF RsTypeOK, RsView, RsViews

(* RsAfter leads to a view, and depends on the state only by the checksum. *)
LEMMA RsAfterType ==
    ASSUME RsTypeOK, NEW v \in RsViews, NEW b \in Int
    PROVE  RsAfter(v, b) \in RsViews
<1>1. /\ v.state \in {"start", "data"} /\ v.buf \in Seq(Int) /\ v.escape \in BOOLEAN
      /\ v.got \in Seq(Seq(Int)) /\ <<>> \in Seq(Int)
    BY DEF RsViews
<1>2. RsFlip(b) \in Int
    BY RsFlips
<1>3. Append(v.buf, RsFlip(b)) \in Seq(Int) /\ Append(v.buf, b) \in Seq(Int)
    BY <1>1, <1>2
<1>4. RsPayload(v) \in Seq(Int)
    BY <1>1, RsFields DEF RsPayload
<1>5. Append(v.got, RsPayload(v)) \in Seq(Seq(Int))
    BY <1>1, <1>4
<1> QED
    BY <1>1, <1>3, <1>5 DEF RsAfter, RsViews

LEMMA RsAfterSame ==
    ASSUME NEW CONSTANT v, NEW CONSTANT b, rsCrc' = rsCrc
    PROVE  RsAfter(v, b)' = RsAfter(v, b)
BY DEF RsAfter, RsGood, RsPayload, RsPhysMtu, RsSumPanics, RsCrcField

(* A sender puts bytes on the line and the way gets longer. *)
LEMMA RsWayOn ==
    ASSUME RsTypeOK, NEW CONSTANT R, RsWay(R),
           NEW CONSTANT B \in Seq(Int), NEW CONSTANT W \in [0..Len(B) -> RsViews],
           W[0] = R[Len(rsLine)],
           \A i \in 1..Len(B) : W[i] = RsAfter(W[i - 1], B[i]),
           rsLine' = rsLine \o B, rsCrc' = rsCrc, rsRx' = rsRx, rsGot' = rsGot,
           RsTarget(W[Len(B)])'
    PROVE  \E Q : RsWay(Q)'
<1>n. PICK n : n = Len(rsLine)
    OBVIOUS
<1>q. PICK Q : Q = [i \in 0..(n + Len(B)) |-> IF i <= n THEN R[i] ELSE W[i - n]]
    OBVIOUS
<1>l. PICK L : L = rsLine'
    OBVIOUS
<1>1. n \in Nat /\ Len(B) \in Nat /\ rsLine \in Seq(Int)
    BY <1>n DEF RsTypeOK, RsTxType
<1>2. /\ R \in [0..n -> RsViews] /\ R[0] = RsView
      /\ \A i \in 1..n : R[i] = RsAfter(R[i - 1], rsLine[i])
    BY <1>n DEF RsWay
<1>3. Len(L) = n + Len(B)
    BY <1>1, <1>n, <1>l
<1>4. /\ \A i \in 1..n : L[i] = rsLine[i]
      /\ \A i \in (n + 1)..(n + Len(B)) : L[i] = B[i - n]
    BY <1>1, <1>n, <1>l
<1>5. Q \in [0..Len(L) -> RsViews]
    BY <1>1, <1>2, <1>3, <1>q
<1>6. Q[0] = RsView'
    BY <1>1, <1>2, <1>q DEF RsView
<1>7. ASSUME NEW i \in 1..Len(L)
      PROVE  Q[i] = RsAfter(Q[i - 1], L[i])
  <2>1. CASE i <= n
    <3>1. i \in 0..(n + Len(B)) /\ i - 1 \in 0..(n + Len(B)) /\ i - 1 <= n /\ i \in 1..n
      BY <1>1, <1>3, <2>1
    <3>2. Q[i] = R[i] /\ Q[i - 1] = R[i - 1]
      BY <1>q, <2>1, <3>1
    <3> QED
      BY <1>2, <1>4, <3>1, <3>2
  <2>2. CASE i > n
    <3>1. i - n \in 1..Len(B) /\ (i - n) - 1 = (i - 1) - n /\ i \in 0..(n + Len(B))
          /\ i - 1 \in 0..(n + Len(B)) /\ i \in (n + 1)..(n + Len(B))
      BY <1>1, <1>3, <2>2
    <3>2. Q[i] = W[i - n]
      BY <1>1, <2>2, <3>1, <1>q
    <3>3. Q[i - 1] = W[(i - n) - 1]
      <4>1. CASE i - 1 = n
        <5>1. (i - n) - 1 = 0 /\ Q[i - 1] = R[n]
          BY <1>1, <3>1, <4>1, <1>q
        <5> QED
          BY <5>1, <1>n
      <4>2. CASE i - 1 # n
        <5>1. ~(i - 1 <= n)
          BY <1>1, <2>2, <4>2, <1>3
        <5> QED
          BY <5>1, <3>1, <1>q
      <4> QED
        BY <4>1, <4>2
    <3>4. W[i - n] = RsAfter(W[(i - n) - 1], B[i - n])
      BY <3>1
    <3> QED
      BY <1>4, <3>1, <3>2, <3>3, <3>4
  <2> QED
    BY <1>1, <1>3, <2>1, <2>2
<1>8. Q[Len(L)] = W[Len(B)]
  <2>1. CASE Len(B) = 0
    BY <1>1, <1>3, <1>n, <1>q, <2>1
  <2>2. CASE Len(B) # 0
    BY <1>1, <1>3, <1>q, <2>2
  <2> QED
    BY <2>1, <2>2
<1>9. \A i \in 1..Len(L) : Q[i] = RsAfter(Q[i - 1], L[i])'
  <2> TAKE i \in 1..Len(L)
  <2>1. PICK v, b : v = Q[i - 1] /\ b = L[i]
    OBVIOUS
  <2> QED
    BY <1>7, <2>1, RsAfterSame
<1> QED
    BY <1>5, <1>6, <1>8, <1>9, <1>l DEF RsWay

(* One byte. *)
LEMMA RsWayOnByte ==
    ASSUME RsTypeOK, NEW CONSTANT R, RsWay(R), NEW CONSTANT b \in Int,
           rsLine' = Append(rsLine, b), rsCrc' = rsCrc, rsRx' = rsRx, rsGot' = rsGot,
           NEW CONSTANT w, w = RsAfter(R[Len(rsLine)], b), RsTarget(w)'
    PROVE  \E Q : RsWay(Q)'
<1>1. rsLine \in Seq(Int) /\ Len(rsLine) \in Nat
    BY DEF RsTypeOK, RsTxType
<1>2. R[Len(rsLine)] \in RsViews
    BY <1>1 DEF RsWay
<1>3. w \in RsViews
    BY <1>2, RsAfterType
<1>4. PICK B : B = <<b>>
    OBVIOUS
<1>5. B \in Seq(Int) /\ Len(B) = 1 /\ B[1] = b /\ rsLine' = rsLine \o B
    BY <1>1, <1>4
<1>6. PICK W : W = [i \in 0..1 |-> IF i = 0 THEN R[Len(rsLine)] ELSE w]
    OBVIOUS
<1>7. W \in [0..Len(B) -> RsViews] /\ W[0] = R[Len(rsLine)] /\ W[1] = w
    BY <1>2, <1>3, <1>5, <1>6
<1>8. \A i \in 1..Len(B) : W[i] = RsAfter(W[i - 1], B[i])
  <2> TAKE i \in 1..Len(B)
  <2>1. i = 1 /\ i - 1 = 0
    BY <1>5
  <2> QED
    BY ONLY <2>1, <1>5, <1>7, w = RsAfter(R[Len(rsLine)], b)
<1>9. RsTarget(W[Len(B)])'
    BY <1>5, <1>7
<1> QED
    BY <1>5, <1>7, <1>8, <1>9, RsWayOn

(* What the receiver does with a byte is what RsAfter says. *)
LEMMA RsReads ==
    ASSUME RsTypeOK, RsRunRx, ~rsPanic'
    PROVE  RsView' = RsAfter(RsView, Head(rsLine))
<1>0. /\ rsRx.state \in {"start", "data"} /\ rsRx.buf \in Seq(Int) /\ rsRx.escape \in BOOLEAN
      /\ rsRx = [state |-> rsRx.state, buf |-> rsRx.buf, active |-> rsRx.active, escape |-> rsRx.escape]
    BY DEF RsTypeOK, RsTxType
<1>1. PICK b : b = Head(rsLine)
    OBVIOUS
<1>2. CASE RsReadStart(b)
    BY <1>0, <1>1, <1>2 DEF RsReadStart, RsAfter, RsView
<1>3. CASE RsReadData(b)
    BY <1>0, <1>1, <1>3 DEF RsReadData, RsAfter, RsView
<1>4. CASE RsReadEnd(b)
  <2>1. RsView.buf = rsRx.buf /\ RsPayload(RsView) = SubSeq(rsRx.buf, 1, Len(rsRx.buf) - RsCrcField[rsCrc])
    BY DEF RsView, RsPayload
  <2>2. CASE rsRx.buf = <<>>
    <3>1. /\ rsGot' = rsGot
          /\ rsRx' = [rsRx EXCEPT !.escape = FALSE, !.state = "data"]
      BY <1>0, <1>4, <2>2 DEF RsReadEnd
    <3> QED
      BY <1>0, <1>1, <1>4, <2>2, <3>1 DEF RsReadEnd, RsAfter, RsView
  <2>3. CASE rsRx.buf # <<>>
    <3>1. Len(rsRx.buf) - RsCrcField[rsCrc] >= 0 <=> Len(rsRx.buf) >= RsCrcField[rsCrc]
      BY <1>0, RsFields
    <3>2. /\ rsGot' = IF RsGood(RsView) THEN Append(rsGot, RsPayload(RsView)) ELSE rsGot
          /\ rsRx'.state = "start" /\ rsRx'.buf = rsRx.buf /\ rsRx'.escape = rsRx.escape
      BY <1>0, <1>4, <2>1, <2>3, <3>1 DEF RsReadEnd, RsGood
    <3>3. RsView' = [state |-> "start", buf |-> rsRx.buf, escape |-> rsRx.escape,
                     got |-> IF RsGood(RsView) THEN Append(rsGot, RsPayload(RsView)) ELSE rsGot]
      BY <3>2 DEF RsView
    <3>4. RsView.state = "data" /\ RsView.buf = rsRx.buf /\ RsView.escape = rsRx.escape /\ RsView.got = rsGot
      BY <1>4 DEF RsView, RsReadEnd
    <3>5. b = RsFlag
      BY <1>4 DEF RsReadEnd
    <3> QED
      BY ONLY <1>1, <2>3, <3>3, <3>4, <3>5 DEF RsAfter
  <2> QED
    BY <2>2, <2>3
<1> QED
    BY <1>1, <1>2, <1>3, <1>4 DEF RsRunRx

(* The receiver goes on its way. *)
LEMMA RsReceives ==
    ASSUME RsTypeOK, RsTypeOK', RsRunRx, ~rsPanic', NEW CONSTANT R, RsWay(R)
    PROVE  \E Q : RsWay(Q)'
<1>n. PICK n : n = Len(rsLine)
    OBVIOUS
<1>l. PICK L : L = rsLine'
    OBVIOUS
<1>q. PICK Q : Q = [i \in 0..(n - 1) |-> R[i + 1]]
    OBVIOUS
<1>1. /\ rsLine \in Seq(Int) /\ rsLine # <<>> /\ L = Tail(rsLine)
      /\ rsCrc' = rsCrc /\ rsTx' = rsTx /\ rsOut' = rsOut /\ rsPeer' = rsPeer /\ rsSent' = rsSent
    BY <1>l DEF RsTypeOK, RsRunRx, rsTxVars
<1>2. /\ n \in Nat /\ n >= 1 /\ Len(L) = n - 1
      /\ \A i \in 1..(n - 1) : L[i] = rsLine[i + 1]
      /\ Head(rsLine) = rsLine[1]
    BY <1>1, <1>n
<1>3. /\ R \in [0..n -> RsViews] /\ R[0] = RsView
      /\ \A i \in 1..n : R[i] = RsAfter(R[i - 1], rsLine[i])
      /\ RsTarget(R[n])
    BY <1>n DEF RsWay
<1>4. Q \in [0..Len(L) -> RsViews]
    BY <1>2, <1>3, <1>q
<1>5. Q[0] = RsView'
  <2>1. Q[0] = R[1] /\ 1 \in 1..n /\ 1 - 1 = 0
    BY <1>2, <1>q
  <2>2. R[1] = RsAfter(R[0], rsLine[1])
    BY <1>3, <2>1
  <2> QED
    BY <1>2, <1>3, <2>1, <2>2, RsReads
<1>6. ASSUME NEW i \in 1..Len(L)
      PROVE  Q[i] = RsAfter(Q[i - 1], L[i])
  <2>1. i \in 0..(n - 1) /\ i - 1 \in 0..(n - 1) /\ i + 1 \in 1..n /\ (i - 1) + 1 = (i + 1) - 1 /\ i \in 1..(n - 1)
    BY <1>2
  <2>2. Q[i] = R[i + 1] /\ Q[i - 1] = R[(i + 1) - 1] /\ L[i] = rsLine[i + 1]
    BY <1>2, <1>q, <2>1
  <2> QED
    BY <1>3, <2>1, <2>2
<1>7. \A i \in 1..Len(L) : Q[i] = RsAfter(Q[i - 1], L[i])'
  <2> TAKE i \in 1..Len(L)
  <2>1. PICK v, b : v = Q[i - 1] /\ b = L[i]
    OBVIOUS
  <2> QED
    BY <1>1, <1>6, <2>1, RsAfterSame
<1>8. RsTarget(Q[Len(L)])'
  <2>1. Q[Len(L)] = R[n]
    BY <1>2, <1>q
  <2>2. PICK v : v = R[n]
    OBVIOUS
  <2>3. RsTarget(v)' <=> RsTarget(v)
    BY <1>1 DEF RsTarget, RsPeerBytes
  <2> QED
    BY <1>3, <2>1, <2>2, <2>3
<1> QED
    BY <1>4, <1>5, <1>7, <1>8, <1>l DEF RsWay

(* A frame. *)
LEMMA RsFrameTypes ==
    ASSUME NEW f \in RsFrames
    PROVE  f \in Seq(Int) /\ Len(f) \in 1..RsMtu
<1>1. f \in Seq(Nat) /\ Len(f) \in 1..RsMtu
    BY RsAssumption, Zenon
<1> QED
    BY ONLY <1>1

LEMMA RsTypeStep ==
    ASSUME RsTypeOK, RsSenders, RsPositions, RsNext
    PROVE  RsTypeOK'
<1>r. /\ rsTx.state \in {"start", "data", "crc", "end"} /\ rsTx.frame \in Seq(Int) /\ rsTx.sent \in Nat
      /\ rsTx.escape \in BOOLEAN /\ rsTx.bits \in {0, 8, 16, 24}
      /\ rsPeer.frame \in Seq(Int) /\ rsPeer.sent \in Nat /\ rsPeer.escape \in BOOLEAN
      /\ rsRx.state \in {"start", "data"} /\ rsRx.buf \in Seq(Int) /\ rsRx.active \in Nat
      /\ rsRx.escape \in BOOLEAN /\ rsLine \in Seq(Int) /\ rsOut \in Seq(Nat) /\ rsRoom \in Nat
      /\ rsGot \in Seq(Seq(Int)) /\ rsSent \in Seq(Seq(Int)) /\ <<>> \in Seq(Int)
    BY DEF RsTypeOK, RsTxType
<1>f. \A f \in RsFrames : f \in Seq(Int)
    BY RsFrameTypes
<1>1. CASE RsPut
  <2>1. PICK f \in RsFrames : rsTx' = [rsTx EXCEPT !.frame = f, !.sent = 0]
    BY <1>1 DEF RsPut
  <2>2. rsTx' \in RsTxType
    BY <1>f, <2>1 DEF RsTypeOK, RsTxType
  <2>3. rsOut' \in Seq(Nat)
    BY <1>1 DEF RsPut
  <2> QED
    BY <1>1, <2>2, <2>3, <1>r DEF RsTypeOK, RsPut
<1>2. CASE RsRunTx
  <2>1. \A n \in RsOutSizes : n \in Nat
    BY RsAssumption
  <2> QED
    BY <1>2, <2>1 DEF RsTypeOK, RsRunTx
<1>3. CASE RsSendStart
  <2>1. rsPanic' \in BOOLEAN
    BY <1>3 DEF RsSendStart, RsSumPanics
  <2>a. \/ rsRoom' = 0 /\ rsTx' = rsTx /\ rsLine' = rsLine
        \/ /\ rsLine' = rsLine \o <<126>> /\ rsRoom' = rsRoom - 1
           /\ rsTx' = [rsTx EXCEPT !.state = "data", !.escape = FALSE]
    BY <1>3 DEF RsSendStart, RsEmit, RsFlag
  <2>2. rsLine' \in Seq(Int) /\ rsRoom' \in Nat
    <3>1. rsRoom > 0
      BY <1>3 DEF RsSendStart, RsSending
    <3>2. rsLine \o <<126>> \in Seq(Int) /\ rsRoom - 1 \in Nat
      BY ONLY <1>r, <3>1
    <3>3. \/ rsRoom' = 0 /\ rsLine' = rsLine
          \/ rsLine' = rsLine \o <<126>> /\ rsRoom' = rsRoom - 1
      BY <2>a
    <3>4. rsLine \in Seq(Int) /\ 0 \in Nat
      BY <1>r
    <3>5. CASE rsRoom' = 0 /\ rsLine' = rsLine
      BY ONLY <3>4, <3>5
    <3>6. CASE rsLine' = rsLine \o <<126>> /\ rsRoom' = rsRoom - 1
      BY ONLY <3>2, <3>6
    <3> QED
      BY ONLY <3>3, <3>5, <3>6
  <2>3. rsTx' \in RsTxType
    <3>1. rsTx \in RsTxType
      BY DEF RsTypeOK
    <3>2. rsTx' = rsTx \/ rsTx' = [rsTx EXCEPT !.state = "data", !.escape = FALSE]
      BY ONLY <2>a
    <3> QED
      BY ONLY <3>1, <3>2 DEF RsTxType
  <2> QED
    BY <1>3, <2>1, <2>2, <2>3 DEF RsTypeOK, RsSendStart
<1>4. CASE RsSendRun
  <2>0. rsTx.state = "data" /\ rsTx.frame # <<>> /\ rsTx.sent <= Len(rsTx.frame) /\ rsRoom > 0 /\ RsRun > 0
    BY <1>4, <1>r DEF RsSendRun, RsSending, RsSenders
  <2>1. /\ RsRest \in Seq(Int) /\ RsRun \in 0..Len(RsRest) /\ Len(RsRest) \in Nat
    BY <2>0, RsRunIs
  <2>2. PICK fits : fits = IF RsRun <= rsRoom THEN RsRun ELSE rsRoom
    OBVIOUS
  <2>3. fits \in 1..Len(RsRest) /\ fits <= rsRoom /\ fits \in Nat
    BY <1>r, <2>0, <2>1, <2>2
  <2>4. SubSeq(RsRest, 1, fits) \in Seq(Int) /\ Len(SubSeq(RsRest, 1, fits)) = fits
    BY <2>1, <2>3
  <2>5. /\ rsLine' = rsLine \o SubSeq(RsRest, 1, fits)
        /\ rsRoom' = rsRoom - Len(SubSeq(RsRest, 1, fits))
        /\ rsOut' = rsOut \o [i \in 1..fits |-> rsTx.sent + i]
    BY <1>4, <2>2 DEF RsSendRun, RsEmit
  <2>6. rsLine' \in Seq(Int) /\ rsRoom' \in Nat
    BY <1>r, <2>3, <2>4, <2>5
  <2>7. rsOut' \in Seq(Nat)
    <3>0. rsTx.sent \in Nat /\ fits \in Nat
      BY <1>r, <2>3
    <3>1. [i \in 1..fits |-> rsTx.sent + i] \in Seq(Nat)
      BY ONLY <3>0
    <3> QED
      BY <1>r, <2>5, <3>1
  <2>8. rsTx' \in RsTxType
    <3>1. \E n \in Nat, e \in BOOLEAN, st \in {"data", "crc"} :
             rsTx' = [rsTx EXCEPT !.sent = n, !.escape = e, !.bits = 0, !.state = st]
      <4>0. PICK n, e : n = (rsTx.sent + RsRun) /\ e = rsTx.escape
        OBVIOUS
      <4>1. rsTx' = RsDataSent(n, e) /\ n \in Nat /\ e \in BOOLEAN
        <5>1. rsTx' = RsDataSent(n, e)
          BY <1>4, <4>0, Zenon DEF RsSendRun
        <5>2. RsRun \in Nat /\ rsTx.sent \in Nat /\ rsTx.escape \in BOOLEAN
          BY <1>r, <2>1
        <5> QED
          BY ONLY <5>1, <4>0, <5>2
      <4>2. PICK st : st = IF n = Len(rsTx.frame) THEN "crc" ELSE "data"
        OBVIOUS
      <4>3. rsTx' = [rsTx EXCEPT !.sent = n, !.escape = e, !.bits = 0, !.state = st] /\ st \in {"data", "crc"}
        BY <4>1, <4>2 DEF RsDataSent
      <4> QED
        BY <4>1, <4>3
    <3>2. rsTx \in RsTxType
      BY DEF RsTypeOK
    <3> QED
      BY ONLY <3>1, <3>2 DEF RsTxType
  <2> QED
    BY <1>4, <2>6, <2>7, <2>8 DEF RsTypeOK, RsSendRun
<1>5. CASE RsSendSpecial
  <2>0. rsTx.state = "data" /\ rsTx.frame # <<>> /\ rsTx.sent < Len(rsTx.frame) /\ rsRoom > 0
    BY <1>5, <1>r DEF RsSendSpecial, RsSending, RsSenders
  <2>1. /\ RsRest \in Seq(Int) /\ Len(RsRest) = Len(rsTx.frame) - rsTx.sent
    BY <1>r, <2>0, RsRunIs
  <2>2. Head(RsRest) \in Int
    <3>1. rsTx.sent \in Nat /\ Len(rsTx.frame) \in Nat
      BY <1>r
    <3>2. Len(RsRest) > 0
      BY ONLY <2>0, <2>1, <3>1
    <3> QED
      BY ONLY <2>1, <3>2
  <2>3. RsEscaped(Head(RsRest)) \in Int
    BY <2>2, RsFlips DEF RsEscaped, RsEscape
  <2>4. rsLine' \in Seq(Int) /\ rsRoom' \in Nat
    BY <1>5, <1>r, <2>0, <2>3 DEF RsSendSpecial, RsEmit
  <2>5. rsTx' \in RsTxType
    <3>1. \E n \in Nat, e \in BOOLEAN, st \in {"data", "crc"} :
             rsTx' = [rsTx EXCEPT !.sent = n, !.escape = e, !.bits = 0, !.state = st]
      <4>0. PICK n, e : n = (IF rsTx.escape THEN rsTx.sent + 1 ELSE rsTx.sent) /\ e = ~rsTx.escape
        OBVIOUS
      <4>1. rsTx' = RsDataSent(n, e) /\ n \in Nat /\ e \in BOOLEAN
        <5>1. rsTx' = RsDataSent(n, e)
          BY <1>5, <4>0, Zenon DEF RsSendSpecial
        <5> QED
          BY <5>1, <4>0, <1>r
      <4>2. PICK st : st = IF n = Len(rsTx.frame) THEN "crc" ELSE "data"
        OBVIOUS
      <4>3. rsTx' = [rsTx EXCEPT !.sent = n, !.escape = e, !.bits = 0, !.state = st] /\ st \in {"data", "crc"}
        BY <4>1, <4>2 DEF RsDataSent
      <4> QED
        BY <4>1, <4>3
    <3>2. rsTx \in RsTxType
      BY DEF RsTypeOK
    <3> QED
      BY ONLY <3>1, <3>2 DEF RsTxType
  <2>6. rsOut' \in Seq(Nat)
    BY <1>5, <1>r DEF RsSendSpecial
  <2> QED
    BY <1>5, <2>4, <2>5, <2>6 DEF RsTypeOK, RsSendSpecial
<1>6. CASE RsSendCrc
  <2>1. RsCrcByte \in Int
    BY <1>r DEF RsCrcByte, RsCrc8
  <2>2. RsEscaped(RsCrcByte) \in Int
    BY <2>1, RsFlips DEF RsEscaped, RsEscape
  <2>3. rsLine' \in Seq(Int) /\ rsRoom' \in Nat
    <3>1. \E b \in Int : rsLine' = rsLine \o <<b>> /\ rsRoom' = rsRoom - Len(<<b>>)
      BY <1>6, <2>1, <2>2 DEF RsSendCrc, RsEmit
    <3>2. rsRoom > 0 /\ rsRoom \in Nat /\ rsLine \in Seq(Int)
      BY <1>6, <1>r DEF RsSendCrc, RsSending
    <3>3. PICK b \in Int : rsLine' = rsLine \o <<b>> /\ rsRoom' = rsRoom - Len(<<b>>)
      BY <3>1
    <3>4. <<b>> \in Seq(Int) /\ Len(<<b>>) = 1
      OBVIOUS
    <3> QED
      BY ONLY <3>2, <3>3, <3>4
  <2>4. rsTx' \in RsTxType
    <3>0. rsTx.bits \in {0, 8, 16, 24}
      BY <1>r DEF RsTypeOK, RsTxType
    <3>1. (rsTx.bits + 8) % 32 \in {0, 8, 16, 24}
      BY ONLY <3>0
    <3>2. \E e \in BOOLEAN, n \in {0, 8, 16, 24} : rsTx' = [rsTx EXCEPT !.escape = e, !.bits = n]
      <4>1. PICK plain, whole :
                rsTx' = [rsTx EXCEPT !.escape = IF plain THEN @ ELSE ~@,
                                     !.bits = IF whole THEN (@ + 8) % 32 ELSE @]
        BY <1>6, Zenon DEF RsSendCrc
      <4>2. PICK e, n : e = (IF plain THEN rsTx.escape ELSE ~rsTx.escape)
                        /\ n = IF whole THEN (rsTx.bits + 8) % 32 ELSE rsTx.bits
        OBVIOUS
      <4>3. e \in BOOLEAN /\ n \in {0, 8, 16, 24}
        BY <1>r, <3>1, <4>2, Zenon
      <4>4. rsTx' = [rsTx EXCEPT !.escape = e, !.bits = n]
        BY <4>1, <4>2
      <4> QED
        BY <4>3, <4>4
    <3>3. rsTx \in RsTxType
      BY DEF RsTypeOK
    <3> QED
      BY ONLY <3>2, <3>3 DEF RsTxType
  <2>5. rsPanic' \in BOOLEAN
    BY <1>6 DEF RsSendCrc
  <2> QED
    BY <1>6, <2>3, <2>4, <2>5 DEF RsTypeOK, RsSendCrc
<1>7. CASE RsSendCrcDone
  <2>1. rsTx' \in RsTxType
    BY <1>7, <1>r DEF RsTypeOK, RsSendCrcDone, RsTxType
  <2> QED
    BY <1>7, <2>1 DEF RsTypeOK, RsSendCrcDone
<1>8. CASE RsSendEnd
  <2>1. RsBytesAt(rsTx.frame, rsOut) \in Seq(Int)
    <3>1. rsTx.frame # <<>> /\ rsTx.sent = Len(rsTx.frame)
      BY <1>8 DEF RsSendEnd, RsSending, RsSenders
    <3>2. \A k \in DOMAIN rsOut : rsOut[k] \in 1..Len(rsTx.frame)
      BY <3>1 DEF RsPositions
    <3> QED
      BY <1>r, <3>2, RsBytesAtType
  <2>2. rsSent' \in Seq(Seq(Int)) /\ rsLine' \in Seq(Int) /\ rsRoom' \in Nat
    BY <1>8, <1>r, <2>1 DEF RsSendEnd, RsEmit, RsSending, RsFlag
  <2> QED
    BY <1>8, <1>r, <2>2 DEF RsTypeOK, RsSendEnd, RsTxNew, RsTxType
<1>9. CASE RsPeerStarts
  <2>1. rsLine' \in Seq(Int)
    BY <1>9, <1>r DEF RsPeerStarts, RsFlag
  <2> QED
    BY <1>9, <1>r, <1>f, <2>1 DEF RsTypeOK, RsPeerStarts
<1>10. CASE RsPeerByte
  <2>1. RsPeerBytes[rsPeer.sent + 1] \in Int
    <3>1. rsPeer.sent + 1 \in 1..Len(RsPeerBytes)
      <4>1. rsPeer.sent < Len(RsPeerBytes)
        BY <1>10 DEF RsPeerByte
      <4>2. Len(RsPeerBytes) \in Nat
        BY RsPeerBytesType
      <4> QED
        BY ONLY <1>r, <4>1, <4>2
    <3> QED
      BY <3>1, RsPeerBytesType
  <2>2. rsLine' \in Seq(Int)
    <3>1. \E b \in Int : rsLine' = Append(rsLine, b)
      BY <1>10, <2>1, RsFlips DEF RsPeerByte, RsEscape
    <3> QED
      BY <1>r, <3>1
  <2>3. rsPeer' \in [frame : Seq(Int), sent : Nat, escape : BOOLEAN]
    <3>1. PICK e : /\ e \in BOOLEAN
                   /\ rsPeer' = [rsPeer EXCEPT !.escape = e, !.sent = IF e THEN @ ELSE @ + 1]
      BY <1>10, Zenon DEF RsPeerByte
    <3>2. PICK n : n = IF e THEN rsPeer.sent ELSE rsPeer.sent + 1
      OBVIOUS
    <3>3. n \in Nat /\ rsPeer' = [rsPeer EXCEPT !.escape = e, !.sent = n]
      BY <1>r, <3>1, <3>2
    <3> QED
      BY <3>1, <3>3 DEF RsTypeOK
  <2> QED
    BY <1>10, <2>2, <2>3 DEF RsTypeOK, RsPeerByte
<1>11. CASE RsPeerEnds
  <2>1. rsLine' \in Seq(Int) /\ rsSent' \in Seq(Seq(Int))
    BY <1>11, <1>r DEF RsPeerEnds, RsFlag
  <2> QED
    BY <1>11, <1>r, <2>1 DEF RsTypeOK, RsPeerEnds, RsPeerIdle
<1>12. CASE RsRunRx
  <2>1. rsLine' \in Seq(Int) /\ Head(rsLine) \in Int
    BY <1>12, <1>r DEF RsRunRx
  <2>2. PICK b : b = Head(rsLine)
    OBVIOUS
  <2>3. RsFlip(b) \in Int
    BY <2>1, <2>2, RsFlips
  <2>4. RsNextBuffer \in Nat
    <3>1. rsRx.active \in Nat /\ RsMtu \in Nat
      BY <1>r, RsAssumption DEF RsTypeOK
    <3>2. RsPhysMtu \in Nat
      BY <3>1, RsFields
    <3> QED
      BY ONLY <3>1, <3>2 DEF RsNextBuffer
  <2>5. /\ rsRx' \in [state : {"start", "data"}, buf : Seq(Int), active : Nat, escape : BOOLEAN]
        /\ rsGot' \in Seq(Seq(Int)) /\ rsPanic' \in BOOLEAN
    <3>1. CASE RsReadStart(b)
      BY <1>r, <3>1 DEF RsReadStart, RsTypeOK, RsTxType
    <3>2. CASE RsReadData(b)
      <4>1. Append(rsRx.buf, RsFlip(b)) \in Seq(Int) /\ Append(rsRx.buf, b) \in Seq(Int)
        BY <1>r, <2>1, <2>2, <2>3
      <4>2. /\ rsGot' \in Seq(Seq(Int)) /\ rsPanic' \in BOOLEAN
        BY <3>2 DEF RsReadData, RsTypeOK, RsTxType
      <4> QED
        BY <1>r, <3>2, <4>1, <4>2 DEF RsReadData, RsTypeOK, RsTxType
    <3>3. CASE RsReadEnd(b)
      <4>1. SubSeq(rsRx.buf, 1, Len(rsRx.buf) - RsCrcField[rsCrc]) \in Seq(Int)
        BY <1>r, RsFields
      <4>2. rsGot' \in Seq(Seq(Int)) /\ rsPanic' \in BOOLEAN
        BY <1>r, <3>3, <4>1 DEF RsReadEnd, RsSumPanics
      <4>3. \E e \in BOOLEAN, st \in {"start", "data"}, a \in Nat :
                rsRx' = [rsRx EXCEPT !.escape = e, !.state = st, !.active = a]
        BY <1>r, <2>4, <3>3 DEF RsReadEnd
      <4> QED
        BY <4>2, <4>3 DEF RsTypeOK, RsTxType
    <3> QED
      BY <1>12, <2>2, <3>1, <3>2, <3>3 DEF RsRunRx
  <2> QED
    BY <1>12, <2>1, <2>5 DEF RsTypeOK, RsRunRx, rsTxVars
<1>13. CASE RsReset
  <2>1. rsTorn' \in BOOLEAN
    BY <1>13 DEF RsReset
  <2>2. rsTx' \in RsTxType
    BY <1>13, <1>r DEF RsTypeOK, RsReset, RsTxType
  <2> QED
    BY <1>13, <1>r, <2>1, <2>2 DEF RsTypeOK, RsReset
<1> QED
    BY <1>1, <1>2, <1>3, <1>4, <1>5, <1>6, <1>7, <1>8, <1>9, <1>10, <1>11, <1>12, <1>13 DEF RsNext

(* A new frame, or the end of one, leaves the positions in order. *)
LEMMA RsPositionsStep ==
    ASSUME RsTypeOK, RsSenders, RsPositions, RsNext
    PROVE  RsPositions'
<1>r. /\ rsTx.state \in {"start", "data", "crc", "end"} /\ rsTx.frame \in Seq(Int) /\ rsTx.sent \in Nat
      /\ Len(rsTx.frame) \in Nat
      /\ rsOut \in Seq(Nat) /\ Len(rsOut) \in Nat /\ DOMAIN rsOut = 1..Len(rsOut) /\ rsRoom \in Nat
    BY DEF RsTypeOK, RsTxType
<1>k. ASSUME rsTx'.frame = rsTx.frame, rsTx'.sent = rsTx.sent, rsOut' = rsOut
      PROVE  RsPositions'
    BY <1>k DEF RsPositions
<1>e. ASSUME rsTx'.frame = <<>>
      PROVE  RsPositions'
    BY <1>e DEF RsPositions
<1>1. CASE RsPut
  <2>1. rsTx'.sent = 0 /\ rsOut' = <<>>
    BY <1>1 DEF RsPut, RsTypeOK, RsTxType
  <2> QED
    BY <2>1 DEF RsPositions
<1>2. CASE RsRunTx \/ RsSendStart \/ RsSendCrc \/ RsSendCrcDone \/ RsPeerStarts \/ RsPeerByte \/ RsPeerEnds \/ RsRunRx
  <2>1. rsOut' = rsOut /\ rsTx'.frame = rsTx.frame /\ rsTx'.sent = rsTx.sent
    <3>1. CASE RsRunTx
      BY <3>1 DEF RsRunTx
    <3>2. CASE RsSendStart
      BY <3>2 DEF RsSendStart, RsTypeOK, RsTxType
    <3>3. CASE RsSendCrc
      BY <3>3 DEF RsSendCrc, RsTypeOK, RsTxType
    <3>4. CASE RsSendCrcDone
      BY <3>4 DEF RsSendCrcDone, RsTypeOK, RsTxType
    <3>5. CASE RsPeerStarts \/ RsPeerByte \/ RsPeerEnds
      BY <3>5 DEF RsPeerStarts, RsPeerByte, RsPeerEnds
    <3>6. CASE RsRunRx
      BY <3>6 DEF RsRunRx, rsTxVars
    <3> QED
      BY <1>2, <3>1, <3>2, <3>3, <3>4, <3>5, <3>6
  <2> QED
    BY <1>k, <2>1
<1>3. CASE RsSendEnd
    BY <1>e, <1>3 DEF RsSendEnd, RsTxNew
<1>4. CASE RsReset
    BY <1>e, <1>k, <1>4 DEF RsReset, RsTypeOK, RsTxType
<1>5. CASE RsSendRun
  <2>0. rsTx.state = "data" /\ rsTx.frame # <<>> /\ rsTx.sent < Len(rsTx.frame) /\ rsRoom > 0 /\ RsRun > 0
    BY <1>5, <1>r DEF RsSendRun, RsSending, RsSenders
  <2>1. PICK f, n, p, k : f = rsTx.frame /\ n = rsTx.sent /\ p = rsOut /\ k = RsRun
    OBVIOUS
  <2>2. PICK fits : fits = IF RsRun <= rsRoom THEN RsRun ELSE rsRoom
    OBVIOUS
  <2>3. /\ k \in Nat /\ n \in Nat /\ n + k <= Len(f) /\ fits \in 1..k /\ Len(f) \in Nat
        /\ \A i \in 1..k : f[n + i] \notin RsSpecial
    <3>1. /\ Len(RsRest) = Len(rsTx.frame) - rsTx.sent
          /\ \A i \in 1..Len(RsRest) : RsRest[i] = rsTx.frame[rsTx.sent + i]
          /\ RsRun \in 0..Len(RsRest)
          /\ \A i \in 1..RsRun : RsRest[i] \notin RsSpecial
      BY <1>r, <2>0, RsRunIs
    <3>2. k \in Nat /\ n \in Nat /\ n + k <= Len(f) /\ fits \in 1..k /\ Len(f) \in Nat
      BY <1>r, <2>0, <2>1, <2>2, <3>1
    <3>3. \A i \in 1..k : i \in 1..Len(RsRest)
      BY <1>r, <2>0, <2>1, <3>1
    <3> QED
      BY <2>1, <3>1, <3>2, <3>3
  <2>4. /\ rsOut' = p \o [i \in 1..fits |-> n + i]
        /\ rsTx'.frame = f /\ rsTx'.sent = n + k
    <3>1. rsTx' = RsDataSent(n + k, rsTx.escape) /\ rsOut' = p \o [i \in 1..fits |-> n + i]
      BY <1>5, <2>1, <2>2 DEF RsSendRun
    <3> QED
      BY <3>1, <2>1 DEF RsDataSent, RsTypeOK, RsTxType
  <2>5. PICK m, q : m = Len(p) /\ q = rsOut'
    OBVIOUS
  <2>6. /\ m \in Nat /\ Len(q) = m + fits /\ DOMAIN q = 1..(m + fits)
        /\ \A i \in 1..m : q[i] = p[i]
        /\ \A i \in (m + 1)..(m + fits) : q[i] = n + (i - m)
    <3>1. [i \in 1..fits |-> n + i] \in Seq(Nat) /\ Len([i \in 1..fits |-> n + i]) = fits
      BY <2>3
    <3>2. p \in Seq(Nat)
      BY <1>r, <2>1
    <3>3. q = p \o [i \in 1..fits |-> n + i] /\ m = Len(p) /\ m \in Nat
      BY <2>4, <2>5, <3>2
    <3>4. PICK z : z = [i \in 1..fits |-> n + i]
      OBVIOUS
    <3>5. Len(q) = m + fits /\ DOMAIN q = 1..(m + fits)
      BY <3>1, <3>2, <3>3, <3>4, <2>3
    <3>6. \A i \in 1..(m + fits) : q[i] = IF i <= m THEN p[i] ELSE z[i - m]
      BY <3>1, <3>2, <3>3, <3>4, <2>3
    <3>7. \A i \in 1..fits : z[i] = n + i
      BY <3>4
    <3>8. \A i \in 1..m : q[i] = p[i]
      BY ONLY <3>3, <3>6, <2>3
    <3>9. \A i \in (m + 1)..(m + fits) : q[i] = n + (i - m)
      BY ONLY <3>3, <3>6, <3>7, <2>3
    <3> QED
      BY ONLY <3>3, <3>5, <3>8, <3>9
  <2>7. /\ \A i \in 1..m : p[i] \in 1..n
        /\ m <= n
        /\ \A i, j \in 1..m : i < j => p[i] < p[j]
        /\ \A i \in 1..n : \/ \E j \in 1..m : p[j] = i
                           \/ i > 1 /\ {f[i - 1], f[i]} \cap RsSpecial = {}
    BY <1>r, <2>0, <2>1, <2>5 DEF RsPositions
  <2>8. \A i \in 1..(m + fits) : q[i] \in 1..(n + k)
    BY ONLY <2>3, <2>6, <2>7
  <2>9. m + fits <= n + k
    BY ONLY <2>3, <2>6, <2>7
  <2>10. \A i, j \in 1..(m + fits) : i < j => q[i] < q[j]
    <3> TAKE i, j \in 1..(m + fits)
    <3> HAVE i < j
    <3>1. CASE j <= m
      BY ONLY <2>3, <2>6, <2>7, <3>1, i < j, i \in 1..(m + fits), j \in 1..(m + fits)
    <3>2. CASE j > m
      <4>1. q[j] = n + (j - m)
        BY ONLY <2>3, <2>6, <3>2, j \in 1..(m + fits)
      <4>2. CASE i <= m
        <5>1. q[i] \in 1..n
          BY ONLY <2>6, <2>7, <4>2, i \in 1..(m + fits)
        <5> QED
          BY ONLY <4>1, <5>1, <3>2, <2>3, <2>6, j \in 1..(m + fits)
      <4>3. CASE i > m
        <5>1. q[i] = n + (i - m)
          BY ONLY <2>3, <2>6, <4>3, i \in 1..(m + fits)
        <5> QED
          BY ONLY <4>1, <5>1, <2>3, <2>6, i < j, i \in 1..(m + fits), j \in 1..(m + fits)
      <4> QED
        BY ONLY <4>2, <4>3, <2>6, i \in 1..(m + fits), <2>3
    <3> QED
      BY ONLY <3>1, <3>2, <2>6, j \in 1..(m + fits), <2>3
  <2>11. \A i \in 1..(n + k) : \/ \E j \in 1..(m + fits) : q[j] = i
                               \/ i > 1 /\ {f[i - 1], f[i]} \cap RsSpecial = {}
    <3> TAKE i \in 1..(n + k)
    <3>1. CASE i <= n
      <4>1. i \in 1..n
        BY ONLY <2>3, <3>1, i \in 1..(n + k)
      <4>2. CASE \E j \in 1..m : p[j] = i
        <5>1. PICK j \in 1..m : p[j] = i
          BY <4>2
        <5>2. j \in 1..(m + fits) /\ q[j] = i
          BY ONLY <5>1, <2>3, <2>6
        <5> QED
          BY ONLY <5>2
      <4> QED
        BY ONLY <4>1, <4>2, <2>7
    <3>2. CASE i > n /\ i <= n + fits
      <4>1. m + (i - n) \in (m + 1)..(m + fits) /\ m + (i - n) \in 1..(m + fits) /\ n + ((m + (i - n)) - m) = i
        BY ONLY <2>3, <2>6, <3>2, i \in 1..(n + k)
      <4>2. q[m + (i - n)] = i
        BY ONLY <4>1, <2>6
      <4> QED
        BY ONLY <4>1, <4>2
    <3>3. CASE i > n + fits
      <4>1. i - n \in 1..k /\ (i - n) - 1 \in 1..k /\ n + (i - n) = i /\ n + ((i - n) - 1) = i - 1 /\ i > 1
        BY ONLY <2>3, <3>3, i \in 1..(n + k)
      <4>2. f[n + (i - n)] \notin RsSpecial /\ f[n + ((i - n) - 1)] \notin RsSpecial
        BY ONLY <2>3, <4>1
      <4>3. f[i] \notin RsSpecial /\ f[i - 1] \notin RsSpecial
        BY ONLY <4>1, <4>2
      <4> QED
        BY ONLY <4>1, <4>3
    <3> QED
      BY ONLY <3>1, <3>2, <3>3, <2>3, i \in 1..(n + k)
  <2> QED
    BY <2>4, <2>5, <2>6, <2>8, <2>9, <2>10, <2>11 DEF RsPositions
<1>6. CASE RsSendSpecial
  <2>0. rsTx.state = "data" /\ rsTx.frame # <<>>
    BY <1>6, <1>r DEF RsSendSpecial, RsSending, RsSenders
  <2>1. /\ rsTx'.frame = rsTx.frame
        /\ rsTx'.sent = IF rsTx.escape THEN rsTx.sent + 1 ELSE rsTx.sent
        /\ rsOut' = IF rsTx.escape THEN Append(rsOut, rsTx.sent + 1) ELSE rsOut
    <3>1. PICK n, e : n = (IF rsTx.escape THEN rsTx.sent + 1 ELSE rsTx.sent) /\ e = ~rsTx.escape
      OBVIOUS
    <3>2. rsTx' = RsDataSent(n, e)
      BY <1>6, <3>1, Zenon DEF RsSendSpecial
    <3>3. rsTx'.frame = rsTx.frame /\ rsTx'.sent = n
      BY <3>2 DEF RsDataSent, RsTypeOK, RsTxType
    <3> QED
      BY <1>6, <3>1, <3>3 DEF RsSendSpecial
  <2>2. CASE ~rsTx.escape
    BY <1>k, <2>1, <2>2
  <2>3. CASE rsTx.escape
    <3>1. PICK f, n, p, m, q : f = rsTx.frame /\ n = rsTx.sent /\ p = rsOut /\ m = Len(rsOut) /\ q = rsOut'
      OBVIOUS
    <3>2. /\ n \in Nat /\ m \in Nat /\ Len(q) = m + 1 /\ DOMAIN q = 1..(m + 1)
          /\ \A i \in 1..m : q[i] = p[i]
          /\ q[m + 1] = n + 1
          /\ rsTx'.frame = f /\ rsTx'.sent = n + 1
      BY <1>r, <2>1, <2>3, <3>1
    <3>3. /\ \A i \in 1..m : p[i] \in 1..n
          /\ m <= n
          /\ \A i, j \in 1..m : i < j => p[i] < p[j]
          /\ \A i \in 1..n : \/ \E j \in 1..m : p[j] = i
                             \/ i > 1 /\ {f[i - 1], f[i]} \cap RsSpecial = {}
      BY <1>r, <2>0, <3>1 DEF RsPositions
    <3>4. \A i \in 1..(m + 1) : q[i] \in 1..(n + 1)
      BY ONLY <3>2, <3>3
    <3>5. \A i, j \in 1..(m + 1) : i < j => q[i] < q[j]
      BY ONLY <3>2, <3>3
    <3>6. \A i \in 1..(n + 1) : \/ \E j \in 1..(m + 1) : q[j] = i
                                \/ i > 1 /\ {f[i - 1], f[i]} \cap RsSpecial = {}
      <4> TAKE i \in 1..(n + 1)
      <4>1. CASE i = n + 1
        <5>1. m + 1 \in 1..(m + 1) /\ q[m + 1] = i
          BY ONLY <3>2, <4>1
        <5> QED
          BY ONLY <5>1
      <4>2. CASE i # n + 1
        <5>1. i \in 1..n
          BY ONLY <3>2, <4>2, i \in 1..(n + 1)
        <5>2. CASE \E j \in 1..m : p[j] = i
          <6>1. PICK j \in 1..m : p[j] = i
            BY <5>2
          <6>2. j \in 1..(m + 1) /\ q[j] = i
            BY ONLY <6>1, <3>2
          <6> QED
            BY ONLY <6>2
        <5> QED
          BY ONLY <5>1, <5>2, <3>3
      <4> QED
        BY <4>1, <4>2
    <3>7. m + 1 <= n + 1
      BY ONLY <3>2, <3>3
    <3> QED
      BY <3>1, <3>2, <3>4, <3>5, <3>6, <3>7 DEF RsPositions
  <2> QED
    BY <2>2, <2>3
<1> QED
    BY <1>1, <1>2, <1>3, <1>4, <1>5, <1>6 DEF RsNext

LEMMA RsSendersStep ==
    ASSUME RsTypeOK, RsSenders, RsNext
    PROVE  RsSenders'
<1>r. /\ rsTx.state \in {"start", "data", "crc", "end"} /\ rsTx.frame \in Seq(Int) /\ rsTx.sent \in Nat
      /\ rsTx.escape \in BOOLEAN /\ rsTx.bits \in {0, 8, 16, 24} /\ Len(rsTx.frame) \in Nat
      /\ rsTx = [state |-> rsTx.state, frame |-> rsTx.frame, sent |-> rsTx.sent,
                 escape |-> rsTx.escape, bits |-> rsTx.bits]
      /\ rsPeer.frame \in Seq(Int) /\ rsPeer.sent \in Nat /\ rsPeer.escape \in BOOLEAN
    BY DEF RsTypeOK, RsTxType
<1>m. RsMtu \in Nat /\ Len(<<>>) <= RsMtu
    BY RsAssumption
<1>1. CASE RsPut
  <2>1. PICK f \in RsFrames : rsTx' = [rsTx EXCEPT !.frame = f, !.sent = 0]
    BY <1>1 DEF RsPut
  <2>2. f \in Seq(Int) /\ Len(f) <= RsMtu /\ f # <<>>
    BY RsFrameTypes, <1>m
  <2>3. /\ rsTx.frame = <<>> /\ rsPeer = RsPeerIdle /\ rsPeer' = rsPeer /\ rsTx.state = "start"
        /\ rsTx'.state = "start" /\ rsTx'.frame = f /\ rsTx'.sent = 0
    BY <1>1, <1>r, <2>1 DEF RsPut, RsSenders
  <2> QED
    BY <1>m, <2>2, <2>3 DEF RsSenders, RsPeerIdle
<1>2. CASE RsRunTx \/ RsRunRx
    BY <1>2 DEF RsSenders, RsRunTx, RsRunRx, rsTxVars, RsPeerBytes
<1>3. CASE RsSendStart
  <2>1. /\ rsTx' = rsTx \/ (/\ rsTx.frame # <<>> /\ rsTx.state = "start"
                           /\ rsTx' = [rsTx EXCEPT !.state = "data", !.escape = FALSE])
        /\ rsPeer' = rsPeer /\ rsCrc' = rsCrc
    BY <1>3 DEF RsSendStart, RsSending
  <2>2. CASE rsTx' = rsTx
    BY <2>1, <2>2 DEF RsSenders, RsPeerBytes
  <2>3. CASE rsTx' # rsTx
    <3>1. /\ rsTx.frame # <<>> /\ rsTx.state = "start"
          /\ rsTx'.state = "data" /\ ~rsTx'.escape /\ rsTx'.frame = rsTx.frame /\ rsTx'.sent = rsTx.sent
      BY <1>r, <2>1, <2>3
    <3>2. rsTx.sent = 0 /\ Len(rsTx.frame) > 0 /\ rsPeer.frame = <<>>
      BY <1>r, <3>1 DEF RsSenders
    <3> QED
      BY <2>1, <3>1, <3>2 DEF RsSenders
  <2> QED
    BY <2>2, <2>3
<1>4. CASE RsSendRun
  <2>0. rsTx.state = "data" /\ rsTx.frame # <<>> /\ rsTx.sent < Len(rsTx.frame) /\ RsRun > 0 /\ rsPeer.frame = <<>>
    BY <1>4, <1>r DEF RsSendRun, RsSending, RsSenders
  <2>1. /\ Len(RsRest) = Len(rsTx.frame) - rsTx.sent
        /\ \A i \in 1..Len(RsRest) : RsRest[i] = rsTx.frame[rsTx.sent + i]
        /\ RsRun \in 0..Len(RsRest)
        /\ \A i \in 1..RsRun : RsRest[i] \notin RsSpecial
        /\ RsRun < Len(RsRest) => RsRest[RsRun + 1] \in RsSpecial
    BY <1>r, <2>0, RsRunIs
  <2>2. ~rsTx.escape
    <3>0. 1 \in 1..Len(RsRest) /\ 1 \in 1..RsRun
      <4>1. rsTx.sent \in Nat /\ Len(rsTx.frame) \in Nat
        BY <1>r
      <4>2. Len(RsRest) \in Nat /\ Len(RsRest) > 0
        BY ONLY <2>0, <2>1, <4>1
      <4> QED
        BY ONLY <2>0, <2>1, <4>2
    <3>1. RsRest[1] = rsTx.frame[rsTx.sent + 1] /\ RsRest[1] \notin RsSpecial
      BY ONLY <2>1, <3>0, Zenon
    <3> QED
      BY <2>0, <3>1 DEF RsSenders
  <2>3. PICK n : n = rsTx.sent + RsRun
    OBVIOUS
  <2>4. n \in Nat /\ n <= Len(rsTx.frame)
    BY <1>r, <2>0, <2>1, <2>3
  <2>5. rsTx' = RsDataSent(n, rsTx.escape) /\ rsPeer' = rsPeer /\ rsCrc' = rsCrc
    BY <1>4, <2>3 DEF RsSendRun
  <2>6. /\ rsTx'.frame = rsTx.frame /\ rsTx'.sent = n /\ ~rsTx'.escape /\ rsTx'.bits = 0
        /\ rsTx'.state = IF n = Len(rsTx.frame) THEN "crc" ELSE "data"
    BY <1>r, <2>2, <2>5 DEF RsDataSent
  <2> QED
    BY <1>r, <2>0, <2>4, <2>5, <2>6 DEF RsSenders
<1>5. CASE RsSendSpecial
  <2>0. rsTx.state = "data" /\ rsTx.frame # <<>> /\ rsTx.sent < Len(rsTx.frame) /\ RsRun = 0 /\ rsPeer.frame = <<>>
    BY <1>5, <1>r DEF RsSendSpecial, RsSending, RsSenders
  <2>1. /\ Len(RsRest) = Len(rsTx.frame) - rsTx.sent
        /\ \A i \in 1..Len(RsRest) : RsRest[i] = rsTx.frame[rsTx.sent + i]
        /\ RsRun < Len(RsRest) => RsRest[RsRun + 1] \in RsSpecial
    BY <1>r, <2>0, RsRunIs
  <2>2. rsTx.frame[rsTx.sent + 1] \in RsSpecial
    <3>1. rsTx.sent \in Nat /\ Len(rsTx.frame) \in Nat
      BY <1>r
    <3>2. Len(RsRest) \in Nat /\ RsRun < Len(RsRest) /\ RsRun + 1 = 1
      BY ONLY <2>0, <2>1, <3>1
    <3>3. 1 \in 1..Len(RsRest)
      BY ONLY <2>0, <3>2
    <3>4. RsRest[1] = rsTx.frame[rsTx.sent + 1]
      BY ONLY <2>1, <3>3, Zenon
    <3> QED
      BY ONLY <2>1, <3>2, <3>4
  <2>3. PICK n, e : n = (IF rsTx.escape THEN rsTx.sent + 1 ELSE rsTx.sent) /\ e = ~rsTx.escape
    OBVIOUS
  <2>4. rsTx' = RsDataSent(n, e) /\ rsPeer' = rsPeer /\ rsCrc' = rsCrc
    BY <1>5, <2>3, Zenon DEF RsSendSpecial
  <2>5. n \in Nat /\ n <= Len(rsTx.frame) /\ (e => n < Len(rsTx.frame) /\ rsTx.frame[n + 1] \in RsSpecial)
    <3>1. CASE rsTx.escape
      <4>1. n = rsTx.sent + 1
        BY <2>3, <3>1
      <4>2. ~e
        BY <2>3, <3>1, Zenon
      <4> QED
        BY <1>r, <2>0, <4>1, <4>2
    <3>2. CASE ~rsTx.escape
      BY <1>r, <2>0, <2>2, <2>3, <3>2
    <3> QED
      BY <3>1, <3>2
  <2>6. /\ rsTx'.frame = rsTx.frame /\ rsTx'.sent = n /\ rsTx'.escape = e /\ rsTx'.bits = 0
        /\ rsTx'.state = IF n = Len(rsTx.frame) THEN "crc" ELSE "data"
    BY <1>r, <2>4 DEF RsDataSent
  <2> QED
    BY <1>r, <2>0, <2>4, <2>5, <2>6 DEF RsSenders
<1>6. CASE RsSendCrc
  <2>1. /\ rsTx.state = "crc" /\ rsTx.bits # RsCrcField[rsCrc] /\ rsPeer' = rsPeer /\ rsCrc' = rsCrc
        /\ rsTx'.state = "crc" /\ rsTx'.frame = rsTx.frame /\ rsTx'.sent = rsTx.sent
    BY <1>6, <1>r DEF RsSendCrc, RsSending
  <2>2. rsTx.frame # <<>> /\ rsTx.sent = Len(rsTx.frame) /\ rsPeer.frame = <<>>
    BY <2>1 DEF RsSenders
  <2>3. rsCrc # "HdlcCrcOff"
    BY <2>1, <2>2, RsFields DEF RsSenders
  <2> QED
    BY <2>1, <2>2, <2>3 DEF RsSenders
<1>7. CASE RsSendCrcDone
  <2>1. /\ rsTx.state = "crc" /\ rsTx.bits = RsCrcField[rsCrc] /\ rsPeer' = rsPeer /\ rsCrc' = rsCrc
        /\ rsTx'.state = "end" /\ rsTx'.frame = rsTx.frame /\ rsTx'.sent = rsTx.sent /\ rsTx'.escape = rsTx.escape
    BY <1>7, <1>r DEF RsSendCrcDone, RsSending
  <2>2. rsTx.frame # <<>> /\ rsTx.sent = Len(rsTx.frame) /\ rsPeer.frame = <<>>
    BY <2>1 DEF RsSenders
  <2>3. rsCrc = "HdlcCrcOff"
    BY <1>r, <2>1, RsFields
  <2> QED
    BY <2>1, <2>2, <2>3 DEF RsSenders
<1>8. CASE RsSendEnd
  <2>1. rsTx' = RsTxNew /\ rsPeer' = rsPeer /\ rsCrc' = rsCrc /\ rsTx.state = "end"
    BY <1>8 DEF RsSendEnd, RsSending
  <2>2. rsPeer.frame = <<>>
    BY <2>1 DEF RsSenders
  <2> QED
    BY <1>m, <2>1, <2>2 DEF RsSenders, RsTxNew
<1>9. CASE RsPeerStarts
  <2>1. PICK f \in RsFrames : /\ rsCrc = "HdlcCrcOff" \/ Len(f) = 1
                              /\ rsPeer' = [frame |-> f, sent |-> 0, escape |-> FALSE]
    BY <1>9 DEF RsPeerStarts
  <2>2. f \in Seq(Int) /\ Len(f) <= RsMtu /\ f # <<>>
    BY RsFrameTypes, <1>m
  <2>3. rsTx' = rsTx /\ rsCrc' = rsCrc /\ rsTx.frame = <<>>
    BY <1>9 DEF RsPeerStarts
  <2>4. rsPeer'.frame = f /\ rsPeer'.sent = 0 /\ ~rsPeer'.escape
    BY <2>1
  <2>5. Len(RsPeerBytes)' \in Nat
    <3>1. RsCrc8(f) \in Int
      BY <2>2 DEF RsCrc8
    <3>2. Append(f, RsCrc8(f)) \in Seq(Int)
      BY <2>2, <3>1
    <3> QED
      BY <2>2, <2>3, <2>4, <3>2 DEF RsPeerBytes
  <2> QED
    BY <2>1, <2>2, <2>3, <2>4, <2>5 DEF RsSenders
<1>10. CASE RsPeerByte
  <2>1. rsTx' = rsTx /\ rsCrc' = rsCrc /\ rsPeer.frame # <<>> /\ rsPeer.sent < Len(RsPeerBytes)
    BY <1>10 DEF RsPeerByte, RsPeerSending
  <2>2. PICK b, e : /\ b = RsPeerBytes[rsPeer.sent + 1] /\ e = (b \in RsSpecial /\ ~rsPeer.escape)
                    /\ rsPeer' = [rsPeer EXCEPT !.escape = e, !.sent = IF e THEN @ ELSE @ + 1]
    BY <1>10, Zenon DEF RsPeerByte
  <2>3. /\ rsPeer'.frame = rsPeer.frame /\ rsPeer'.escape = e
        /\ rsPeer'.sent = IF e THEN rsPeer.sent ELSE rsPeer.sent + 1
    BY <2>2 DEF RsTypeOK
  <2>4. RsPeerBytes' = RsPeerBytes
    BY <2>1, <2>3 DEF RsPeerBytes
  <2>5. rsPeer'.sent <= Len(RsPeerBytes)
    BY <1>r, <2>1, <2>3, RsPeerBytesType
  <2>6. e => rsPeer'.sent < Len(RsPeerBytes) /\ RsPeerBytes[rsPeer'.sent + 1] \in RsSpecial
    BY <2>1, <2>2, <2>3
  <2> QED
    BY <2>1, <2>3, <2>4, <2>5, <2>6 DEF RsSenders
<1>11. CASE RsPeerEnds
  <2>1. rsTx' = rsTx /\ rsCrc' = rsCrc /\ rsPeer.frame # <<>> /\ rsPeer' = RsPeerIdle /\ rsTx.frame = <<>>
    BY <1>11 DEF RsPeerEnds, RsPeerSending, RsSenders
  <2> QED
    BY <1>m, <2>1 DEF RsSenders, RsPeerIdle
<1>12. CASE RsReset
  <2>1. rsPeer' = rsPeer /\ rsCrc' = rsCrc
    BY <1>12 DEF RsReset
  <2>2. CASE rsTx' = rsTx
    BY <2>1, <2>2 DEF RsSenders, RsPeerBytes
  <2>3. CASE rsTx' # rsTx
    <3>1. rsTx'.frame = <<>> /\ rsTx'.state = "start"
      BY <1>12, <1>r, <2>3 DEF RsReset
    <3> QED
      BY <1>m, <2>1, <3>1 DEF RsSenders, RsPeerBytes
  <2> QED
    BY <2>2, <2>3
<1> QED
    BY <1>1, <1>2, <1>3, <1>4, <1>5, <1>6, <1>7, <1>8, <1>9, <1>10, <1>11, <1>12 DEF RsNext

LEMMA RsBuffersStep ==
    ASSUME RsTypeOK, RsBuffers, RsNext
    PROVE  RsBuffers'
<1>1. RsPhysMtu' = RsPhysMtu
  <2>1. rsCrc' = rsCrc
    BY DEF RsNext, RsPut, RsRunTx, RsSendStart, RsSendRun, RsSendSpecial, RsSendCrc, RsSendCrcDone,
           RsSendEnd, RsPeerStarts, RsPeerByte, RsPeerEnds, RsRunRx, RsReset
  <2> QED
    BY <2>1 DEF RsPhysMtu
<1>2. CASE RsRunRx
  <2>1. rsRx'.active \in {rsRx.active, RsNextBuffer}
    <3>1. PICK b : b = Head(rsLine) /\ (RsReadStart(b) \/ RsReadData(b) \/ RsReadEnd(b))
      BY <1>2 DEF RsRunRx
    <3>2. CASE RsReadStart(b)
      BY <3>2 DEF RsReadStart, RsTypeOK
    <3>3. CASE RsReadData(b)
      BY <3>3 DEF RsReadData, RsTypeOK
    <3>4. CASE RsReadEnd(b)
      BY <3>4 DEF RsReadEnd, RsTypeOK
    <3> QED
      BY <3>1, <3>2, <3>3, <3>4
  <2>2. RsNextBuffer + RsPhysMtu <= RsBufSize
    <3>1. rsRx.active \in Nat /\ RsMtu \in Nat /\ RsBufSize \in Nat /\ RsMtu + 1 <= RsBufSize
      BY RsAssumption DEF RsTypeOK
    <3>2. RsPhysMtu \in Nat /\ RsPhysMtu <= RsMtu + 1
      BY <3>1, RsFields
    <3> QED
      BY ONLY <3>1, <3>2 DEF RsNextBuffer
  <2> QED
    BY <1>1, <2>1, <2>2 DEF RsBuffers
<1>3. CASE ~RsRunRx
  <2>1. rsRx'.active = rsRx.active
    <3>1. CASE RsReset
      BY <3>1 DEF RsReset, RsTypeOK
    <3> QED
      BY <1>3, <3>1 DEF RsNext, RsPut, RsRunTx, RsSendStart, RsSendRun, RsSendSpecial, RsSendCrc,
                        RsSendCrcDone, RsSendEnd, RsPeerStarts, RsPeerByte, RsPeerEnds
  <2> QED
    BY <1>1, <2>1 DEF RsBuffers
<1> QED
    BY <1>2, <1>3

(* Putting a frame, or calling run_tx, changes no target. *)
LEMMA RsWaitsStep ==
    ASSUME RsTypeOK, RsSenders, NEW CONSTANT R, RsWay(R), RsPut \/ RsRunTx
    PROVE  \E Q : RsWay(Q)'
<1>1. /\ rsLine' = rsLine /\ rsCrc' = rsCrc /\ rsRx' = rsRx /\ rsGot' = rsGot /\ rsPeer' = rsPeer
      /\ rsSent' = rsSent
    BY DEF RsPut, RsRunTx
<1>2. rsTx'.state = rsTx.state
    BY DEF RsPut, RsRunTx, RsTypeOK, RsTxType
<1>3. rsTx.state # "start" => rsTx' = rsTx /\ rsOut' = rsOut
    BY DEF RsPut, RsRunTx, RsSenders
<1>4. PICK v, n, l : v = R[Len(rsLine)] /\ n = Len(rsLine) /\ l = rsLine
    OBVIOUS
<1>5. RsTarget(v)'
    BY <1>1, <1>2, <1>3, <1>4 DEF RsWay, RsTarget, RsPeerBytes
<1>6. ASSUME NEW i \in 1..n
      PROVE  R[i] = RsAfter(R[i - 1], l[i])'
  <2>1. PICK w, b : w = R[i - 1] /\ b = l[i]
    OBVIOUS
  <2>2. R[i] = RsAfter(w, b)
    BY <1>4, <2>1 DEF RsWay
  <2> QED
    BY <1>1, <2>1, <2>2, RsAfterSame
<1>7. R \in [0..n -> RsViews] /\ R[0] = RsView'
    BY <1>1, <1>4 DEF RsWay, RsView
<1> QED
    BY <1>1, <1>4, <1>5, <1>6, <1>7 DEF RsWay

(* Between frames a reset changes nothing either. *)
LEMMA RsResetStep ==
    ASSUME RsTypeOK, NEW CONSTANT R, RsWay(R), RsReset, ~rsTorn'
    PROVE  \E Q : RsWay(Q)'
<1>1. /\ rsTx.state = "start" /\ rsPeer = RsPeerIdle /\ rsLine = <<>> /\ rsRx.state = "start"
      /\ rsLine' = rsLine /\ rsCrc' = rsCrc /\ rsPeer' = rsPeer /\ rsSent' = rsSent /\ rsGot' = rsGot
    BY DEF RsReset
<1>2. /\ rsTx'.state = "start"
      /\ RsView' \in RsViews /\ rsRx'.state = "start"
    BY <1>1 DEF RsReset, RsTypeOK, RsTxType, RsView, RsViews
<1>3. rsGot = rsSent
    BY <1>1 DEF RsWay, RsTarget, RsView
<1>4. PICK Q, v : Q = [i \in 0..0 |-> RsView'] /\ v = RsView'
    OBVIOUS
<1>5. Q \in [0..0 -> RsViews] /\ Q[0] = v /\ v.state = "start" /\ v.got = rsSent
    BY <1>1, <1>2, <1>3, <1>4 DEF RsView
<1>6. Len(rsLine') = 0
    BY <1>1
<1>7. RsTarget(v)'
    BY <1>1, <1>2, <1>5 DEF RsTarget, RsPeerIdle
<1> QED
    BY <1>4, <1>5, <1>6, <1>7 DEF RsWay

(* The first flag of a frame. *)
LEMMA RsStartStep ==
    ASSUME RsTypeOK, RsSenders, RsPositions, NEW CONSTANT R, RsWay(R), RsSendStart, ~rsPanic'
    PROVE  \E Q : RsWay(Q)'
<1>0. /\ rsCrc' = rsCrc /\ rsRx' = rsRx /\ rsGot' = rsGot /\ rsPeer' = rsPeer /\ rsSent' = rsSent
      /\ rsOut' = rsOut /\ rsTx.state = "start"
    BY DEF RsSendStart, RsSending
<1>1. CASE rsTx.frame = <<>>
  <2>1. rsTx' = rsTx /\ rsLine' = rsLine
    BY <1>1 DEF RsSendStart
  <2>2. PICK l : l = rsLine
    OBVIOUS
  <2>3. \A w, b : RsAfter(w, b)' = RsAfter(w, b)
    BY <1>0, RsAfterSame
  <2> QED
    BY <1>0, <2>1, <2>2, <2>3 DEF RsWay, RsTarget, RsView, RsPeerBytes
<1>2. CASE rsTx.frame # <<>>
  <2>1. /\ rsLine' = rsLine \o <<126>>
        /\ rsTx' = [rsTx EXCEPT !.state = "data", !.escape = FALSE]
    BY <1>2 DEF RsSendStart, RsEmit, RsFlag
  <2>2. rsLine' = Append(rsLine, 126)
    BY <2>1 DEF RsTypeOK
  <2>3. rsPeer.frame = <<>> /\ rsTx.sent = 0 /\ rsOut = <<>>
    <3>1. rsPeer.frame = <<>> /\ rsTx.sent = 0
      BY <1>0, <1>2 DEF RsSenders
    <3>2. Len(rsOut) <= 0 /\ rsOut \in Seq(Nat)
      BY <1>2, <3>1 DEF RsPositions, RsTypeOK
    <3> QED
      BY <3>1, <3>2
  <2>4. PICK v, w : v = R[Len(rsLine)] /\ w = RsAfter(R[Len(rsLine)], 126)
    OBVIOUS
  <2>5. v.state = "start" /\ v.got = rsSent
    BY <1>0, <2>3, <2>4 DEF RsWay, RsTarget
  <2>6. w = [state |-> "data", buf |-> <<>>, escape |-> FALSE, got |-> rsSent]
    BY <2>4, <2>5 DEF RsAfter, RsFlag
  <2>7. rsTx'.state = "data" /\ rsTx'.escape = FALSE
    BY <2>1 DEF RsTypeOK, RsTxType
  <2>8. RsBytesAt(rsTx.frame, rsOut)' = <<>>
    BY <1>0, <2>3 DEF RsBytesAt
  <2>9. RsTarget(w)'
    BY <1>0, <2>3, <2>6, <2>7, <2>8 DEF RsTarget
  <2> QED
    BY <1>0, <2>2, <2>4, <2>9, RsWayOnByte
<1> QED
    BY <1>1, <1>2

(* The C sender's frame: flag, bytes, flag. *)
LEMMA RsPeerStartStep ==
    ASSUME RsTypeOK, RsSenders, NEW CONSTANT R, RsWay(R), RsPeerStarts
    PROVE  \E Q : RsWay(Q)'
<1>0. /\ rsCrc' = rsCrc /\ rsRx' = rsRx /\ rsGot' = rsGot /\ rsTx' = rsTx /\ rsSent' = rsSent
      /\ rsOut' = rsOut /\ rsTx.frame = <<>> /\ rsPeer = RsPeerIdle /\ rsLine' = Append(rsLine, 126)
      /\ rsPeer'.sent = 0 /\ rsPeer'.escape = FALSE
    BY DEF RsPeerStarts, RsFlag
<1>1. rsTx.state = "start" /\ rsPeer.frame = <<>>
    BY <1>0 DEF RsSenders, RsPeerIdle
<1>2. PICK v, w : v = R[Len(rsLine)] /\ w = RsAfter(R[Len(rsLine)], 126)
    OBVIOUS
<1>3. v.state = "start" /\ v.got = rsSent
    BY <1>0, <1>1, <1>2 DEF RsWay, RsTarget
<1>4. w = [state |-> "data", buf |-> <<>>, escape |-> FALSE, got |-> rsSent]
    BY <1>2, <1>3 DEF RsAfter, RsFlag
<1>5. SubSeq(RsPeerBytes, 1, rsPeer.sent)' = <<>>
    BY <1>0, SubSeqEmpty
<1>6. rsPeer'.frame # <<>>
  <2>1. PICK f \in RsFrames : rsPeer' = [frame |-> f, sent |-> 0, escape |-> FALSE]
    BY DEF RsPeerStarts
  <2> QED
    BY <2>1, RsFrameTypes
<1>7. RsTarget(w)'
    BY <1>0, <1>1, <1>4, <1>5, <1>6 DEF RsTarget
<1> QED
    BY <1>0, <1>2, <1>7, RsWayOnByte

LEMMA RsPeerByteStep ==
    ASSUME RsTypeOK, RsSenders, NEW CONSTANT R, RsWay(R), RsPeerByte
    PROVE  \E Q : RsWay(Q)'
<1>0. /\ rsCrc' = rsCrc /\ rsRx' = rsRx /\ rsGot' = rsGot /\ rsTx' = rsTx /\ rsSent' = rsSent
      /\ rsOut' = rsOut /\ rsPeer.frame # <<>> /\ rsPeer.sent < Len(RsPeerBytes)
    BY DEF RsPeerByte, RsPeerSending
<1>1. PICK c, e, b : /\ c = RsPeerBytes[rsPeer.sent + 1] /\ e = (c \in RsSpecial /\ ~rsPeer.escape)
                     /\ b = (IF e THEN 125 ELSE IF rsPeer.escape THEN RsFlip(c) ELSE c)
                     /\ rsLine' = Append(rsLine, b)
                     /\ rsPeer' = [rsPeer EXCEPT !.escape = e, !.sent = IF e THEN @ ELSE @ + 1]
    BY Zenon DEF RsPeerByte, RsEscape
<1>2. /\ rsPeer.sent \in Nat /\ rsPeer.escape \in BOOLEAN /\ RsPeerBytes \in Seq(Int)
      /\ rsPeer.sent + 1 \in 1..Len(RsPeerBytes) /\ Len(RsPeerBytes) \in Nat
      /\ rsPeer.frame \in Seq(Int) /\ Len(rsPeer.frame) <= RsMtu
  <2>1. rsPeer.sent \in Nat /\ rsPeer.escape \in BOOLEAN /\ rsPeer.frame \in Seq(Int)
    BY DEF RsTypeOK
  <2>2. RsPeerBytes \in Seq(Int) /\ Len(RsPeerBytes) \in Nat
    BY RsPeerBytesType
  <2>3. rsPeer.sent + 1 \in 1..Len(RsPeerBytes)
    BY <1>0, <2>1, <2>2
  <2>4. Len(rsPeer.frame) <= RsMtu
    BY DEF RsSenders
  <2> QED
    BY <2>1, <2>2, <2>3, <2>4
<1>3. c \in Int
    BY <1>1, <1>2
<1>4. b \in Int
    BY <1>1, <1>3, RsFlips
<1>5. /\ rsPeer'.frame = rsPeer.frame /\ rsPeer'.escape = e
      /\ rsPeer'.sent = IF e THEN rsPeer.sent ELSE rsPeer.sent + 1
    BY <1>1 DEF RsTypeOK
<1>6. RsPeerBytes' = RsPeerBytes
    BY <1>0, <1>5 DEF RsPeerBytes
<1>7. PICK v, w, p, n : v = R[Len(rsLine)] /\ w = RsAfter(R[Len(rsLine)], b) /\ p = RsPeerBytes /\ n = rsPeer.sent
    OBVIOUS
<1>8. v.state = "data" /\ v.got = rsSent /\ v.buf = SubSeq(p, 1, n) /\ v.escape = rsPeer.escape
    BY <1>0, <1>7 DEF RsWay, RsTarget
<1>9. /\ SubSeq(p, 1, n) \in Seq(Int) /\ Len(SubSeq(p, 1, n)) = n
      /\ SubSeq(p, 1, n + 1) = Append(SubSeq(p, 1, n), p[n + 1])
    <2>1. p \in Seq(Int) /\ n \in Nat /\ n + 1 \in 1..Len(p)
      BY <1>2, <1>7
    <2> QED
      BY ONLY <2>1
<1>10. n < RsPhysMtu
  <2>1. Len(RsPeerBytes) = IF rsCrc = "HdlcCrcOff" THEN Len(rsPeer.frame) ELSE Len(rsPeer.frame) + 1
    BY RsPeerBytesType
  <2>2. RsPhysMtu = IF rsCrc = "HdlcCrcOff" THEN RsMtu ELSE RsMtu + 1
    BY RsFields
  <2>3. RsMtu \in Nat
    BY RsAssumption
  <2>4. n \in Nat /\ n < Len(RsPeerBytes) /\ Len(rsPeer.frame) \in Nat /\ Len(rsPeer.frame) <= RsMtu
    BY <1>0, <1>2, <1>7
  <2> QED
    BY ONLY <2>1, <2>2, <2>3, <2>4
<1>11. rsTx.state = "start"
    BY <1>0 DEF RsSenders
<1>12. CASE e
  <2>1. w = [state |-> "data", buf |-> v.buf, escape |-> TRUE, got |-> v.got]
    BY <1>1, <1>7, <1>8, <1>12 DEF RsAfter, RsFlag, RsEscape
  <2>2. rsPeer'.sent = n /\ rsPeer'.escape = TRUE
    BY <1>1, <1>5, <1>7, <1>12
  <2>3. RsTarget(w)'
    <3>1. w.state = "data" /\ w.buf = SubSeq(p, 1, n) /\ w.escape = TRUE /\ w.got = rsSent
      BY <1>8, <2>1
    <3>2. RsPeerBytes' = p /\ rsPeer'.frame # <<>> /\ rsTx'.state = "start" /\ rsSent' = rsSent
      BY <1>0, <1>5, <1>6, <1>7, <1>11
    <3> QED
      BY <2>2, <3>1, <3>2 DEF RsTarget
  <2> QED
    BY <1>0, <1>1, <1>4, <1>7, <2>3, RsWayOnByte
<1>13. CASE ~e
  <2>1. b \notin {125, 126} /\ c = IF rsPeer.escape THEN RsFlip(b) ELSE b
    <3>1. CASE rsPeer.escape
      <4>1. c \in {125, 126}
        BY <1>0, <1>1, <3>1 DEF RsSenders, RsSpecial, RsFlag, RsEscape
      <4>2. b = RsFlip(c)
        BY <1>1, <1>13, <3>1
      <4> QED
        BY <4>1, <4>2, <3>1, RsFlips
    <3>2. CASE ~rsPeer.escape
      <4>1. c \notin {125, 126} /\ b = c
        BY <1>1, <1>13, <3>2 DEF RsSpecial, RsFlag, RsEscape
      <4> QED
        BY <4>1, <3>2
    <3> QED
      BY <3>1, <3>2
  <2>2. w = [state |-> "data", buf |-> Append(v.buf, c), escape |-> FALSE, got |-> v.got]
    <3>1. Len(v.buf) < RsPhysMtu
      BY <1>8, <1>9, <1>10
    <3> QED
      BY <1>7, <1>8, <2>1, <3>1 DEF RsAfter, RsFlag, RsEscape
  <2>3. rsPeer'.sent = n + 1 /\ rsPeer'.escape = FALSE
    <3>1. e = FALSE
      BY <1>1, <1>13, Zenon
    <3> QED
      BY <1>5, <1>7, <3>1
  <2>4. w.buf = SubSeq(p, 1, n + 1)
    <3>1. w.buf = Append(v.buf, c)
      BY <2>2
    <3>2. c = p[n + 1]
      BY <1>1, <1>7
    <3> QED
      BY <1>8, <1>9, <3>1, <3>2
  <2>5. RsTarget(w)'
    <3>1. w.state = "data" /\ w.escape = FALSE /\ w.got = rsSent
      BY <1>8, <2>2
    <3>2. RsPeerBytes' = p /\ rsPeer'.frame # <<>> /\ rsTx'.state = "start" /\ rsSent' = rsSent
      BY <1>0, <1>5, <1>6, <1>7, <1>11
    <3> QED
      BY <2>3, <2>4, <3>1, <3>2 DEF RsTarget
  <2> QED
    BY <1>0, <1>1, <1>4, <1>7, <2>5, RsWayOnByte
<1> QED
    BY <1>12, <1>13

LEMMA RsPeerEndStep ==
    ASSUME RsTypeOK, RsSenders, NEW CONSTANT R, RsWay(R), RsPeerEnds
    PROVE  \E Q : RsWay(Q)'
<1>0. /\ rsCrc' = rsCrc /\ rsRx' = rsRx /\ rsGot' = rsGot /\ rsTx' = rsTx
      /\ rsSent' = Append(rsSent, rsPeer.frame)
      /\ rsOut' = rsOut /\ rsPeer.frame # <<>> /\ rsPeer.sent = Len(RsPeerBytes)
      /\ rsLine' = Append(rsLine, 126) /\ rsPeer' = RsPeerIdle
    BY DEF RsPeerEnds, RsPeerSending, RsFlag
<1>1. PICK v, w, f : v = R[Len(rsLine)] /\ w = RsAfter(R[Len(rsLine)], 126) /\ f = rsPeer.frame
    OBVIOUS
<1>2. v.state = "data" /\ v.got = rsSent /\ v.buf = SubSeq(RsPeerBytes, 1, Len(RsPeerBytes))
    BY <1>0, <1>1 DEF RsWay, RsTarget
<1>3. RsPeerBytes \in Seq(Int) /\ f \in Seq(Int) /\ f # <<>> /\ RsCrc8(f) \in Int /\ Len(f) \in Nat
    BY <1>0, <1>1, RsPeerBytesType DEF RsTypeOK
<1>4. v.buf = RsPeerBytes
    BY <1>2, <1>3
<1>5. /\ v.buf # <<>> /\ Len(v.buf) >= RsCrcField[rsCrc] /\ RsPayload(v) = f
      /\ ~RsSumPanics(Len(v.buf) - RsCrcField[rsCrc])
      /\ rsCrc = "HdlcCrcOff" \/ v.buf[Len(v.buf)] = RsCrc8(f)
  <2>1. CASE rsCrc = "HdlcCrcOff"
    <3>1. v.buf = f /\ RsCrcField[rsCrc] = 0
      BY <1>1, <1>4, <2>1, RsFields DEF RsPeerBytes
    <3> QED
      BY <1>3, <2>1, <3>1 DEF RsPayload, RsSumPanics
  <2>2. CASE rsCrc # "HdlcCrcOff"
    <3>1. v.buf = Append(f, RsCrc8(f)) /\ RsCrcField[rsCrc] = 1 /\ Len(f) = 1
      BY <1>0, <1>1, <1>4, <2>2, RsFields DEF RsPeerBytes, RsSenders
    <3>2. Len(v.buf) = Len(f) + 1 /\ v.buf # <<>> /\ v.buf[Len(v.buf)] = RsCrc8(f)
          /\ SubSeq(v.buf, 1, Len(v.buf) - 1) = f
      BY ONLY <1>3, <3>1, RsFrontOf
    <3> QED
      BY <3>1, <3>2 DEF RsPayload, RsSumPanics
  <2> QED
    BY <2>1, <2>2
<1>6. RsGood(v)
    BY <1>5 DEF RsGood
<1>7. w.state = "start" /\ w.got = Append(rsSent, f)
    BY <1>1, <1>2, <1>5, <1>6 DEF RsAfter, RsFlag
<1>8. rsTx.state = "start"
    BY <1>0 DEF RsSenders
<1>9. RsTarget(w)'
    BY <1>0, <1>1, <1>7, <1>8 DEF RsTarget, RsPeerIdle
<1> QED
    BY <1>0, <1>1, <1>9, RsWayOnByte

(* The first elements of a sequence, one by one. *)
LEMMA RsPrefixes ==
    ASSUME NEW t \in Seq(Int), NEW j \in 1..Len(t)
    PROVE  /\ SubSeq(t, 1, j - 1) \in Seq(Int) /\ Len(SubSeq(t, 1, j - 1)) = j - 1
           /\ SubSeq(t, 1, j) \in Seq(Int)
           /\ SubSeq(t, 1, j) = Append(SubSeq(t, 1, j - 1), t[j])
<1>1. Len(t) \in Nat /\ j \in Nat /\ j >= 1 /\ j <= Len(t)
    OBVIOUS
<1>2. PICK x, y : x = SubSeq(t, 1, j - 1) /\ y = SubSeq(t, 1, j)
    OBVIOUS
<1>3. x \in Seq(Int) /\ Len(x) = j - 1 /\ \A i \in 1..(j - 1) : x[i] = t[i]
    BY <1>1, <1>2
<1>4. y \in Seq(Int) /\ Len(y) = j /\ \A i \in 1..j : y[i] = t[i]
    BY <1>1, <1>2
<1>5. t[j] \in Int
    BY <1>1
<1>6. PICK z : z = Append(x, t[j])
    OBVIOUS
<1>7. z \in Seq(Int) /\ Len(z) = j /\ \A i \in 1..j : z[i] = t[i]
    BY <1>1, <1>3, <1>5, <1>6
<1>8. y = z
    BY ONLY <1>4, <1>7, SeqEqual
<1> QED
    BY <1>2, <1>3, <1>4, <1>6, <1>8

(* The bytes at the positions so far and at the next k. *)
RsMore(f, p, n, k, B, z) ==
    /\ f \in Seq(Int) /\ p \in Seq(Nat) /\ n \in Nat /\ k \in Nat /\ n + k <= Len(f)
    /\ \A i \in 1..Len(p) : p[i] \in 1..n
    /\ B \in Seq(Int) /\ Len(B) = k /\ \A i \in 1..k : B[i] = f[n + i]
    /\ z \in Seq(Nat) /\ Len(z) = k /\ \A i \in 1..k : z[i] = n + i

LEMMA RsMoreBytes ==
    ASSUME NEW f, NEW p, NEW n, NEW k, NEW B, NEW z, RsMore(f, p, n, k, B, z)
    PROVE  RsBytesAt(f, p \o z) = RsBytesAt(f, p) \o B
<1> USE DEF RsMore
<1>1. PICK m, b : m = Len(p) /\ b = RsBytesAt(f, p)
    OBVIOUS
<1>2. z \in Seq(Nat) /\ Len(z) = k /\ \A i \in 1..k : z[i] = n + i
    BY <1>1
<1>3. m \in Nat /\ Len(f) \in Nat /\ DOMAIN p = 1..m
    BY <1>1
<1>4. b \in Seq(Int) /\ Len(b) = m /\ \A i \in 1..m : b[i] = f[p[i]]
  <2>1. \A i \in DOMAIN p : p[i] \in 1..Len(f)
    BY <1>1, <1>3
  <2> QED
    BY <1>1, <1>3, <2>1, RsBytesAtType
<1>5. PICK q : q = p \o z
    OBVIOUS
<1>6. /\ q \in Seq(Nat) /\ Len(q) = m + k
      /\ \A i \in 1..(m + k) : q[i] = IF i <= m THEN p[i] ELSE z[i - m]
    BY ONLY <1>1, <1>2, <1>5, p \in Seq(Nat), ConcatProperties
<1>7. \A i \in 1..(m + k) : q[i] \in 1..Len(f)
  <2> TAKE i \in 1..(m + k)
  <2>1. \A j \in 1..m : p[j] \in 1..n
    BY <1>1
  <2>2. CASE i <= m
    <3>1. i \in 1..m /\ q[i] = p[i]
      BY ONLY <1>3, <1>6, <2>2, i \in 1..(m + k)
    <3> QED
      BY ONLY <1>3, <2>1, <3>1, n \in Nat, k \in Nat, n + k <= Len(f)
  <2>3. CASE ~(i <= m)
    <3>1. i - m \in 1..k
      BY ONLY <1>3, <2>3, i \in 1..(m + k), k \in Nat
    <3>2. q[i] = z[i - m] /\ z[i - m] = n + (i - m)
      BY ONLY <1>2, <1>6, <2>3, <3>1, i \in 1..(m + k)
    <3> QED
      BY ONLY <1>3, <3>1, <3>2, n \in Nat, k \in Nat, n + k <= Len(f)
  <2> QED
    BY <2>2, <2>3
<1>8. PICK x, y : x = RsBytesAt(f, q) /\ y = b \o B
    OBVIOUS
<1>9. x \in Seq(Int) /\ Len(x) = m + k /\ \A i \in 1..(m + k) : x[i] = f[q[i]]
  <2>1. DOMAIN q = 1..(m + k)
    BY ONLY <1>6, LenProperties
  <2> QED
    <3>1. \A i \in DOMAIN q : q[i] \in 1..Len(f)
      BY ONLY <1>7, <2>1
    <3>2. /\ RsBytesAt(f, q) \in Seq(Int) /\ Len(RsBytesAt(f, q)) = Len(q)
          /\ \A i \in 1..Len(q) : RsBytesAt(f, q)[i] = f[q[i]]
      BY ONLY <1>6, <3>1, f \in Seq(Int), RsBytesAtType
    <3> QED
      BY ONLY <1>6, <1>8, <3>2
<1>10. y \in Seq(Int) /\ Len(y) = m + k /\ \A i \in 1..(m + k) : y[i] = IF i <= m THEN b[i] ELSE B[i - m]
    BY ONLY <1>4, <1>8, B \in Seq(Int), Len(B) = k, ConcatProperties
<1>11. \A i \in 1..(m + k) : x[i] = y[i]
  <2> TAKE i \in 1..(m + k)
  <2>1. CASE i <= m
    <3>1. i \in 1..m
      BY ONLY <1>3, <2>1, i \in 1..(m + k), k \in Nat
    <3>2. x[i] = f[p[i]] /\ y[i] = b[i]
      BY ONLY <1>6, <1>9, <1>10, <2>1, i \in 1..(m + k)
    <3> QED
      BY ONLY <1>4, <3>1, <3>2
  <2>2. CASE ~(i <= m)
    <3>1. i - m \in 1..k
      BY ONLY <1>3, <2>2, i \in 1..(m + k), k \in Nat
    <3>2. x[i] = f[z[i - m]] /\ y[i] = B[i - m]
      BY ONLY <1>6, <1>9, <1>10, <2>2, i \in 1..(m + k)
    <3> QED
      BY ONLY <1>2, <3>1, <3>2, \A j \in 1..k : B[j] = f[n + j]
  <2> QED
    BY <2>1, <2>2
<1>12. x = y
    BY ONLY <1>9, <1>10, <1>11, SeqEqual
<1> QED
    BY <1>1, <1>5, <1>8, <1>12

(* A receiver that gets plain bytes. *)
LEMMA RsPlainWay ==
    ASSUME RsTypeOK, NEW v \in RsViews, v.state = "data", v.escape = FALSE,
           NEW B \in Seq(Int), \A i \in 1..Len(B) : B[i] \notin {125, 126},
           Len(v.buf) + Len(B) <= RsMtu
    PROVE  \E W \in [0..Len(B) -> RsViews] :
              /\ W[0] = v
              /\ \A i \in 1..Len(B) : W[i] = RsAfter(W[i - 1], B[i])
              /\ W[Len(B)] = [state |-> "data", buf |-> v.buf \o B, escape |-> FALSE, got |-> v.got]
<1>1. PICK m, k, t, g : m = Len(v.buf) /\ k = Len(B) /\ t = v.buf \o B /\ g = v.got
    OBVIOUS
<1>2. v.buf \in Seq(Int) /\ g \in Seq(Seq(Int)) /\ m \in Nat /\ k \in Nat
    BY <1>1 DEF RsViews
<1>3. t \in Seq(Int) /\ Len(t) = m + k /\ \A i \in 1..(m + k) : t[i] = IF i <= m THEN v.buf[i] ELSE B[i - m]
    BY ONLY <1>1, <1>2, B \in Seq(Int), ConcatProperties
<1>4. PICK W : W = [i \in 0..k |-> [state |-> "data", buf |-> SubSeq(t, 1, m + i),
                                   escape |-> FALSE, got |-> g]]
    OBVIOUS
<1>5. \A i \in 0..k : SubSeq(t, 1, m + i) \in Seq(Int) /\ Len(SubSeq(t, 1, m + i)) = m + i
  <2> TAKE i \in 0..k
  <2>1. m + i \in 0..Len(t)
    BY <1>2, <1>3
  <2> QED
    BY ONLY <1>3, <2>1
<1>6. \A i \in 0..k : /\ W[i] = [state |-> "data", buf |-> SubSeq(t, 1, m + i), escape |-> FALSE, got |-> g]
                      /\ W[i] \in RsViews
    BY ONLY <1>2, <1>4, <1>5 DEF RsViews
<1>7. W \in [0..Len(B) -> RsViews]
    BY ONLY <1>1, <1>4, <1>6
<1>8. W[0] = v
  <2>1. SubSeq(t, 1, m) = v.buf
    <3>1. PICK z : z = SubSeq(t, 1, m)
      OBVIOUS
    <3>2. z \in Seq(Int) /\ Len(z) = m /\ \A i \in 1..m : z[i] = t[i]
      BY ONLY <1>2, <1>3, <3>1
    <3>3. \A i \in 1..m : z[i] = v.buf[i]
      BY ONLY <1>2, <1>3, <3>2
    <3>4. z = v.buf
      BY ONLY <1>1, <1>2, <3>2, <3>3, SeqEqual
    <3> QED
      BY <3>1, <3>4
  <2>2. W[0] = [state |-> "data", buf |-> SubSeq(t, 1, m + 0), escape |-> FALSE, got |-> g] /\ m + 0 = m
    <3>1. 0 \in 0..k /\ m + 0 = m
      BY ONLY <1>2
    <3> QED
      BY ONLY <1>6, <3>1, Zenon
  <2>3. v = [state |-> v.state, buf |-> v.buf, escape |-> v.escape, got |-> v.got]
    BY DEF RsViews
  <2> QED
    BY <1>1, <2>1, <2>2, <2>3
<1>9. \A i \in 1..Len(B) : W[i] = RsAfter(W[i - 1], B[i])
  <2> TAKE i \in 1..Len(B)
  <2>1. /\ i \in 0..k /\ i - 1 \in 0..k /\ i \in 1..k /\ m + i \in 1..Len(t) /\ m + (i - 1) = (m + i) - 1
        /\ m + (i - 1) < RsMtu /\ RsMtu \in Nat /\ m + i \in 1..(m + k) /\ ~(m + i <= m) /\ (m + i) - m = i
    <3>1. m + k <= RsMtu /\ RsMtu \in Nat /\ i \in 1..k
      BY <1>1, RsAssumption
    <3> QED
      BY ONLY <1>2, <1>3, <3>1
  <2>2. t[m + i] = B[i]
    BY ONLY <1>3, <2>1
  <2>3. SubSeq(t, 1, m + i) = Append(SubSeq(t, 1, m + (i - 1)), B[i])
    BY ONLY <1>3, <2>1, <2>2, RsPrefixes
  <2>4. PICK u, c : u = W[i - 1] /\ c = B[i]
    OBVIOUS
  <2>5. /\ u.state = "data" /\ u.buf = SubSeq(t, 1, m + (i - 1)) /\ u.escape = FALSE /\ u.got = g
        /\ Len(u.buf) = m + (i - 1)
    <3>1. u = [state |-> "data", buf |-> SubSeq(t, 1, m + (i - 1)), escape |-> FALSE, got |-> g]
      BY ONLY <1>6, <2>1, <2>4, Zenon
    <3>2. Len(SubSeq(t, 1, m + (i - 1))) = m + (i - 1)
      BY ONLY <1>5, <2>1, Zenon
    <3> QED
      BY ONLY <3>1, <3>2
  <2>6. Len(u.buf) < RsPhysMtu
    <3>1. RsPhysMtu >= RsMtu /\ RsPhysMtu \in Nat
      BY <2>1, RsFields
    <3> QED
      BY <1>2, <2>1, <2>5, <3>1
  <2>7. c # 125 /\ c # 126
    BY <2>4
  <2>8. RsAfter(u, c) = [state |-> "data", buf |-> Append(u.buf, c), escape |-> FALSE, got |-> g]
    BY ONLY <2>5, <2>6, <2>7 DEF RsAfter, RsFlag, RsEscape
  <2>9. W[i] = [state |-> "data", buf |-> SubSeq(t, 1, m + i), escape |-> FALSE, got |-> g]
    BY <1>6, <2>1
  <2>10. SubSeq(t, 1, m + i) = Append(u.buf, c)
    BY ONLY <2>3, <2>4, <2>5
  <2>11. W[i] = RsAfter(u, c)
    BY ONLY <2>8, <2>9, <2>10
  <2> QED
    BY ONLY <2>4, <2>11
<1>10. W[Len(B)] = [state |-> "data", buf |-> v.buf \o B, escape |-> FALSE, got |-> v.got]
  <2>1. SubSeq(t, 1, m + k) = t
    BY ONLY <1>3, SubSeqFull
  <2>2. W[k] = [state |-> "data", buf |-> SubSeq(t, 1, m + k), escape |-> FALSE, got |-> g]
    <3>1. k \in 0..k
      BY ONLY <1>2
    <3> QED
      BY ONLY <1>6, <3>1, Zenon
  <2> QED
    BY <1>1, <2>1, <2>2
<1> QED
    BY <1>7, <1>8, <1>9, <1>10

(* A run of plain bytes, as far as it fits. *)
LEMMA RsRunStep ==
    ASSUME RsTypeOK, RsSenders, RsPositions, NEW CONSTANT R, RsWay(R), RsSendRun
    PROVE  \E Q : RsWay(Q)'
<1>0. /\ rsCrc' = rsCrc /\ rsRx' = rsRx /\ rsGot' = rsGot /\ rsPeer' = rsPeer /\ rsSent' = rsSent
      /\ rsTx.state = "data" /\ rsRoom > 0 /\ RsRun > 0
    BY DEF RsSendRun, RsSending
<1>r. /\ rsTx.frame \in Seq(Int) /\ rsTx.sent \in Nat /\ rsRoom \in Nat /\ rsTx.escape \in BOOLEAN
      /\ rsOut \in Seq(Nat) /\ Len(rsOut) \in Nat /\ DOMAIN rsOut = 1..Len(rsOut) /\ Len(rsTx.frame) \in Nat
    BY DEF RsTypeOK, RsTxType
<1>1. /\ rsTx.frame # <<>> /\ rsTx.sent < Len(rsTx.frame) /\ rsPeer.frame = <<>>
      /\ Len(rsTx.frame) <= RsMtu
    BY <1>0, <1>r DEF RsSenders
<1>2. /\ RsRest \in Seq(Int) /\ Len(RsRest) = Len(rsTx.frame) - rsTx.sent
      /\ \A i \in 1..Len(RsRest) : RsRest[i] = rsTx.frame[rsTx.sent + i]
      /\ RsRun \in 0..Len(RsRest)
      /\ \A i \in 1..RsRun : RsRest[i] \notin RsSpecial
    BY <1>1, <1>r, RsRunIs
<1>4. PICK k, f, n, p, rest, run : /\ k = (IF RsRun <= rsRoom THEN RsRun ELSE rsRoom)
                           /\ f = rsTx.frame /\ n = rsTx.sent /\ p = rsOut /\ rest = RsRest /\ run = RsRun
    OBVIOUS
<1>x. /\ f \in Seq(Int) /\ Len(f) \in Nat /\ n \in Nat /\ n < Len(f) /\ p \in Seq(Nat) /\ Len(f) <= RsMtu
      /\ rest \in Seq(Int) /\ Len(rest) = Len(f) - n
      /\ \A i \in 1..Len(rest) : rest[i] = f[n + i]
      /\ run \in 0..Len(rest) /\ run > 0
      /\ \A i \in 1..run : rest[i] \notin RsSpecial
    BY <1>0, <1>1, <1>2, <1>4, <1>r
<1>5. k \in 1..run /\ run \in Nat /\ run <= Len(rest)
    BY ONLY <1>0, <1>4, <1>r, <1>x
<1>3. ~rsTx.escape
  <2>0. 1 \in 1..Len(rest) /\ 1 \in 1..run
    BY ONLY <1>x
  <2>1. rest[1] = f[n + 1] /\ rest[1] \notin RsSpecial
    BY ONLY <1>x, <2>0, Zenon
  <2> QED
    BY <1>0, <1>1, <1>4, <2>1 DEF RsSenders
<1>6. PICK B : B = SubSeq(rest, 1, k)
    OBVIOUS
<1>7. /\ B \in Seq(Int) /\ Len(B) = k /\ k \in Nat /\ n + k <= Len(f)
      /\ \A i \in 1..k : B[i] = f[n + i]
      /\ \A i \in 1..Len(B) : B[i] \notin {125, 126}
  <2>0. Len(f) \in Nat /\ n \in Nat /\ n < Len(f) /\ Len(rest) = Len(f) - n
    BY ONLY <1>x
  <2>1. k \in 1..Len(rest) /\ k \in Nat /\ n + k <= Len(f)
    BY ONLY <2>0, <1>5
  <2>2. B \in Seq(Int) /\ Len(B) = k /\ \A i \in 1..k : B[i] = rest[i]
    <3>1. 1 \in Int /\ k \in Int /\ 1 <= k /\ k - 1 + 1 = k
      BY ONLY <2>1
    <3>2. \A i \in 1..k : rest[i] \in Int
      BY ONLY <1>x, <2>1
    <3>3. /\ B \in Seq(Int) /\ Len(B) = (IF 1 <= k THEN k - 1 + 1 ELSE 0)
          /\ \A i \in 1..(k - 1 + 1) : B[i] = rest[1 + i - 1]
      BY ONLY <1>6, <3>1, <3>2, SubSeqProperties
    <3>4. \A i \in 1..k : 1 + i - 1 = i
      OBVIOUS
    <3> QED
      BY ONLY <3>1, <3>3, <3>4
  <2>3. \A i \in 1..k : i \in 1..Len(rest) /\ i \in 1..run
    <3>1. k \in Nat /\ run \in Nat /\ Len(rest) \in Int /\ k <= run /\ k <= Len(rest)
      BY ONLY <1>5, <2>0, <2>1
    <3> QED
      BY ONLY <3>1
  <2>4. \A i \in 1..k : rest[i] = f[n + i] /\ rest[i] \notin {125, 126}
    BY ONLY <1>x, <2>3 DEF RsSpecial, RsFlag, RsEscape
  <2>5. \A i \in 1..k : B[i] = f[n + i] /\ B[i] \notin {125, 126}
    <3> TAKE i \in 1..k
    <3>1. B[i] = rest[i] /\ rest[i] = f[n + i] /\ rest[i] \notin {125, 126}
      BY ONLY <2>2, <2>4, i \in 1..k, Zenon
    <3> QED
      BY ONLY <3>1
  <2>6. \A i \in 1..Len(B) : B[i] \notin {125, 126}
    BY ONLY <2>2, <2>5, Zenon
  <2> QED
    BY ONLY <2>1, <2>2, <2>5, <2>6, Zenon
<1>8. /\ rsLine' = rsLine \o B
      /\ rsOut' = p \o [i \in 1..k |-> n + i]
      /\ rsTx' = RsDataSent(n + run, rsTx.escape)
    BY <1>4, <1>6 DEF RsSendRun, RsEmit
<1>9. /\ rsTx'.frame = f /\ rsTx'.escape = rsTx.escape /\ rsTx'.state \in {"data", "crc"}
    BY <1>4, <1>8 DEF RsDataSent, RsTypeOK, RsTxType
<1>10. (\A i \in 1..Len(p) : p[i] \in 1..n) /\ Len(p) <= n /\ Len(p) \in Nat
    BY <1>1, <1>4, <1>r DEF RsPositions
<1>12. PICK v, b : v = R[Len(rsLine)] /\ b = RsBytesAt(f, p)
    OBVIOUS
<1>13. v.state = "data" /\ v.got = rsSent /\ v.buf = b /\ v.escape = FALSE /\ v \in RsViews
  <2>1. R \in [0..Len(rsLine) -> RsViews] /\ Len(rsLine) \in Nat
    BY DEF RsWay, RsTypeOK
  <2> QED
    <3>1. RsTarget(v) /\ v \in RsViews
      BY <1>12, <2>1 DEF RsWay
    <3>2. rsTx.escape = FALSE
      BY <1>3, <1>r
    <3> QED
      BY <1>0, <1>4, <1>12, <3>1, <3>2 DEF RsTarget
<1>14. Len(b) = Len(p)
  <2>0. p \in Seq(Nat) /\ Len(f) \in Nat /\ n \in Nat /\ n < Len(f) /\ f \in Seq(Int) /\ DOMAIN p = 1..Len(p)
    BY <1>x
  <2>1. \A i \in DOMAIN p : p[i] \in 1..Len(f)
    BY ONLY <2>0, <1>10
  <2> QED
    BY ONLY <2>0, <1>12, <2>1, RsBytesAtType
<1>15. Len(v.buf) + Len(B) <= RsMtu
    BY <1>7, <1>10, <1>13, <1>14, <1>x, RsAssumption
<1>16. PICK W \in [0..Len(B) -> RsViews] :
              /\ W[0] = v
              /\ \A i \in 1..Len(B) : W[i] = RsAfter(W[i - 1], B[i])
              /\ W[Len(B)] = [state |-> "data", buf |-> v.buf \o B, escape |-> FALSE, got |-> v.got]
    BY <1>7, <1>13, <1>15, RsPlainWay, Zenon
<1>17. RsBytesAt(f, rsOut') = b \o B
  <2>1. f \in Seq(Int) /\ p \in Seq(Nat) /\ n \in Nat
    BY <1>x
  <2>2. PICK z : z = [i \in 1..k |-> n + i]
    OBVIOUS
  <2>3. /\ B \in Seq(Int) /\ Len(B) = k /\ k \in Nat /\ n + k <= Len(f)
        /\ \A i \in 1..k : B[i] = f[n + i]
        /\ \A i \in 1..Len(p) : p[i] \in 1..n
    BY ONLY <1>7, <1>10
  <2>4. RsBytesAt(f, p \o z) = RsBytesAt(f, p) \o B
    <3>1. z \in Seq(Nat) /\ Len(z) = k /\ \A i \in 1..k : z[i] = n + i
      BY ONLY <2>1, <2>2, <2>3
    <3> QED
      <4>1. RsMore(f, p, n, k, B, z)
        BY ONLY <2>1, <2>3, <3>1 DEF RsMore
      <4> QED
        BY ONLY <4>1, RsMoreBytes
  <2>5. rsOut' = p \o z
    BY ONLY <1>8, <2>2
  <2> QED
    BY ONLY <1>12, <2>4, <2>5
<1>18. RsTarget(W[Len(B)])'
  <2>1. PICK w : w = W[Len(B)]
    OBVIOUS
  <2>2. w.state = "data" /\ w.buf = b \o B /\ w.escape = FALSE /\ w.got = rsSent
    BY <1>13, <1>16, <2>1
  <2>3. rsTx'.escape = FALSE
    BY <1>3, <1>9, <1>r
  <2>4. RsTarget(w)'
    BY <1>0, <1>1, <1>9, <1>17, <2>2, <2>3 DEF RsTarget
  <2> QED
    BY <2>1, <2>4
<1>19. W[0] = R[Len(rsLine)]
    BY ONLY <1>12, <1>16
<1> QED
    BY <1>0, <1>7, <1>8, <1>16, <1>18, <1>19, RsWayOn

(* A byte that is escaped: the escape, and with the next step the byte. *)
LEMMA RsSpecialStep ==
    ASSUME RsTypeOK, RsSenders, RsPositions, NEW CONSTANT R, RsWay(R), RsSendSpecial
    PROVE  \E Q : RsWay(Q)'
<1>0. /\ rsCrc' = rsCrc /\ rsRx' = rsRx /\ rsGot' = rsGot /\ rsPeer' = rsPeer /\ rsSent' = rsSent
      /\ rsTx.state = "data" /\ rsRoom > 0 /\ RsRun = 0
    BY DEF RsSendSpecial, RsSending
<1>r. /\ rsTx.frame \in Seq(Int) /\ rsTx.sent \in Nat /\ rsTx.escape \in BOOLEAN /\ rsLine \in Seq(Int)
      /\ rsOut \in Seq(Nat) /\ Len(rsOut) \in Nat /\ DOMAIN rsOut = 1..Len(rsOut) /\ Len(rsTx.frame) \in Nat
    BY DEF RsTypeOK, RsTxType
<1>1. /\ rsTx.frame # <<>> /\ rsTx.sent < Len(rsTx.frame) /\ rsPeer.frame = <<>>
      /\ Len(rsTx.frame) <= RsMtu
    BY <1>0, <1>r DEF RsSenders
<1>2. PICK f, n, p, c, v, b : /\ f = rsTx.frame /\ n = rsTx.sent /\ p = rsOut /\ c = Head(RsRest)
                              /\ v = R[Len(rsLine)] /\ b = RsBytesAt(f, p)
    OBVIOUS
<1>3. c = f[n + 1] /\ c \in {125, 126}
  <2>1. /\ RsRest \in Seq(Int) /\ Len(RsRest) = Len(rsTx.frame) - rsTx.sent
        /\ \A i \in 1..Len(RsRest) : RsRest[i] = rsTx.frame[rsTx.sent + i]
        /\ RsRun < Len(RsRest) => RsRest[RsRun + 1] \in RsSpecial
    BY <1>1, <1>r, RsRunIs
  <2>2. Len(RsRest) > 0 /\ 1 \in 1..Len(RsRest) /\ Head(RsRest) = RsRest[1]
    BY <1>1, <1>r, <2>1
  <2> QED
    BY <1>0, <1>2, <2>1, <2>2 DEF RsSpecial, RsFlag, RsEscape
<1>4. /\ f \in Seq(Int) /\ p \in Seq(Nat) /\ n \in Nat /\ Len(f) \in Nat /\ n < Len(f) /\ Len(p) \in Nat
      /\ \A i \in 1..Len(p) : p[i] \in 1..n
      /\ Len(p) <= n /\ Len(f) <= RsMtu /\ DOMAIN p = 1..Len(p)
    BY <1>1, <1>2, <1>r DEF RsPositions
<1>5. b \in Seq(Int) /\ Len(b) = Len(p)
  <2>1. \A i \in DOMAIN p : p[i] \in 1..Len(f)
    BY ONLY <1>4
  <2> QED
    BY ONLY <1>2, <1>4, <2>1, RsBytesAtType
<1>6. v.state = "data" /\ v.got = rsSent /\ v.buf = b /\ v.escape = rsTx.escape
  <2>1. RsTarget(v)
    BY <1>2 DEF RsWay
  <2> QED
    BY <1>0, <1>2, <2>1 DEF RsTarget
<1>7. PICK x, w : x = RsEscaped(c) /\ w = RsAfter(R[Len(rsLine)], x)
    OBVIOUS
<1>8. rsLine' = Append(rsLine, x)
  <2>1. rsLine' = rsLine \o <<x>>
    BY <1>2, <1>7 DEF RsSendSpecial, RsEmit
  <2> QED
    BY <1>r, <2>1
<1>9. /\ rsOut' = IF rsTx.escape THEN Append(p, n + 1) ELSE p
      /\ \E j, e : rsTx' = RsDataSent(j, e) /\ e = ~rsTx.escape
    BY <1>2 DEF RsSendSpecial
<1>10. rsTx'.frame = f /\ rsTx'.escape = ~rsTx.escape /\ rsTx'.state \in {"data", "crc"}
  <2>1. PICK j, e : rsTx' = RsDataSent(j, e) /\ e = ~rsTx.escape
    BY <1>9
  <2> QED
    BY <1>2, <2>1 DEF RsDataSent, RsTypeOK, RsTxType
<1>11. CASE ~rsTx.escape
  <2>1. x = 125
    BY <1>7, <1>11 DEF RsEscaped, RsEscape
  <2>2. w = [state |-> "data", buf |-> b, escape |-> TRUE, got |-> rsSent]
    <3>1. w = RsAfter(v, 125)
      BY ONLY <1>2, <1>7, <2>1
    <3> QED
      BY ONLY <1>6, <3>1 DEF RsAfter, RsFlag, RsEscape
  <2>3. w.state = "data" /\ w.buf = b /\ w.escape = TRUE /\ w.got = rsSent
    BY <2>2
  <2>4. rsTx'.escape = TRUE /\ rsOut' = p
    BY <1>9, <1>10, <1>11
  <2>5. RsTarget(w)'
    BY <1>0, <1>1, <1>2, <1>10, <2>3, <2>4 DEF RsTarget
  <2> QED
    BY <1>0, <1>7, <1>8, <2>1, <2>5, RsWayOnByte
<1>12. CASE rsTx.escape
  <2>1. x = RsFlip(c)
    BY <1>7, <1>12 DEF RsEscaped
  <2>2. x \in Int /\ x # 125 /\ x # 126 /\ RsFlip(x) = c
    BY <1>3, <2>1, RsFlips
  <2>3. Len(v.buf) < RsPhysMtu
    <3>1. RsPhysMtu >= RsMtu /\ RsPhysMtu \in Nat /\ RsMtu \in Nat
      BY RsFields, RsAssumption
    <3> QED
      BY ONLY <1>4, <1>5, <1>6, <3>1
  <2>4. v.escape = TRUE
    BY <1>6, <1>12, <1>r
  <2>5. w = [state |-> "data", buf |-> Append(b, c), escape |-> FALSE, got |-> rsSent]
    BY <1>2, <1>6, <1>7, <2>2, <2>3, <2>4 DEF RsAfter, RsFlag, RsEscape
  <2>6. rsTx'.escape = FALSE /\ rsOut' = Append(p, n + 1)
    BY <1>9, <1>10, <1>12
  <2>7. RsBytesAt(f, Append(p, n + 1)) = Append(b, c)
    <3>1. PICK B, z : B = <<c>> /\ z = [i \in 1..1 |-> n + i]
      OBVIOUS
    <3>2. B \in Seq(Int) /\ Len(B) = 1 /\ \A i \in 1..1 : B[i] = f[n + i]
      BY <1>3, <3>1
    <3>3. RsBytesAt(f, p \o z) = b \o B
      <4>1. n + 1 <= Len(f) /\ 1 \in Nat
        BY ONLY <1>4
      <4> QED
        <5>1. z \in Seq(Nat) /\ Len(z) = 1 /\ \A i \in 1..1 : z[i] = n + i
          BY ONLY <1>4, <3>1
        <5>2. RsBytesAt(f, p \o z) = RsBytesAt(f, p) \o B
          <6>1. RsMore(f, p, n, 1, B, z)
            BY ONLY <1>4, <3>2, <4>1, <5>1 DEF RsMore
          <6> QED
            BY ONLY <6>1, RsMoreBytes
        <5> QED
          BY ONLY <1>2, <5>2
    <3>4. p \o z = Append(p, n + 1)
      <4>1. z = <<n + 1>>
        BY <1>4, <3>1
      <4> QED
        BY <1>4, <4>1
    <3>5. b \o B = Append(b, c)
      BY <1>3, <1>5, <3>1
    <3> QED
      BY <3>3, <3>4, <3>5
  <2>8. w.state = "data" /\ w.buf = Append(b, c) /\ w.escape = FALSE /\ w.got = rsSent
    BY <2>5
  <2>9. RsTarget(w)'
    BY <1>0, <1>1, <1>2, <1>10, <2>6, <2>7, <2>8 DEF RsTarget
  <2> QED
    BY <1>0, <1>7, <1>8, <2>2, <2>9, RsWayOnByte
<1> QED
    BY <1>11, <1>12

(* The checksum that does not end: whatever arrives is no flag. *)
LEMMA RsCrcStep ==
    ASSUME RsTypeOK, RsSenders, NEW CONSTANT R, RsWay(R), RsSendCrc
    PROVE  \E Q : RsWay(Q)'
<1>0. /\ rsCrc' = rsCrc /\ rsRx' = rsRx /\ rsGot' = rsGot /\ rsPeer' = rsPeer /\ rsSent' = rsSent
      /\ rsTx.state = "crc" /\ rsTx.bits # RsCrcField[rsCrc] /\ rsTx'.state = "crc"
    BY DEF RsSendCrc, RsSending, RsTypeOK, RsTxType
<1>1. rsTx.frame # <<>> /\ rsPeer.frame = <<>> /\ rsCrc # "HdlcCrcOff"
    BY <1>0, RsFields DEF RsSenders
<1>2. RsCrcByte \in Int
    BY DEF RsCrcByte, RsCrc8, RsTypeOK, RsTxType
<1>3. PICK x : x = IF RsCrcByte \notin RsSpecial THEN RsCrcByte ELSE RsEscaped(RsCrcByte)
    OBVIOUS
<1>4. x \in Int /\ x # 126
  <2>1. CASE RsCrcByte \notin RsSpecial
    BY <1>2, <1>3, <2>1 DEF RsSpecial, RsFlag, RsEscape
  <2>2. CASE RsCrcByte \in RsSpecial
    <3>1. RsCrcByte \in {125, 126} /\ x = RsEscaped(RsCrcByte)
      BY <1>3, <2>2 DEF RsSpecial, RsFlag, RsEscape
    <3> QED
      BY <3>1, RsFlips DEF RsEscaped, RsEscape
  <2> QED
    BY <2>1, <2>2
<1>5. rsLine' = Append(rsLine, x)
  <2>1. rsLine' = rsLine \o <<x>>
    BY <1>3 DEF RsSendCrc, RsEmit
  <2> QED
    BY <1>4, <2>1 DEF RsTypeOK
<1>6. PICK v, w : v = R[Len(rsLine)] /\ w = RsAfter(R[Len(rsLine)], x)
    OBVIOUS
<1>7. v.state = "data" /\ v.got = rsSent
  <2>1. RsTarget(v)
    BY <1>6 DEF RsWay
  <2> QED
    BY <1>0, <2>1 DEF RsTarget
<1>8. w.state = "data" /\ w.got = rsSent
    BY <1>4, <1>6, <1>7 DEF RsAfter, RsFlag
<1>9. RsTarget(w)'
    BY <1>0, <1>1, <1>8 DEF RsTarget
<1> QED
    BY <1>0, <1>4, <1>5, <1>6, <1>9, RsWayOnByte

(* The way does not change, and the target only in its name. *)
LEMMA RsWaySame ==
    ASSUME RsTypeOK, NEW CONSTANT R, RsWay(R),
           rsLine' = rsLine, rsCrc' = rsCrc, rsRx' = rsRx, rsGot' = rsGot,
           NEW CONSTANT v, v = R[Len(rsLine)], RsTarget(v)'
    PROVE  \E Q : RsWay(Q)'
<1>1. PICK n, l : n = Len(rsLine) /\ l = rsLine
    OBVIOUS
<1>2. ASSUME NEW i \in 1..n
      PROVE  R[i] = RsAfter(R[i - 1], l[i])'
  <2>1. PICK w, b : w = R[i - 1] /\ b = l[i]
    OBVIOUS
  <2>2. R[i] = RsAfter(w, b)
    BY <1>1, <2>1 DEF RsWay
  <2> QED
    BY <2>1, <2>2, RsAfterSame
<1>3. R \in [0..n -> RsViews] /\ R[0] = RsView'
    BY <1>1 DEF RsWay, RsView
<1> QED
    BY <1>1, <1>2, <1>3 DEF RsWay

LEMMA RsCrcDoneStep ==
    ASSUME RsTypeOK, RsSenders, NEW CONSTANT R, RsWay(R), RsSendCrcDone
    PROVE  \E Q : RsWay(Q)'
<1>0. /\ rsLine' = rsLine /\ rsCrc' = rsCrc /\ rsRx' = rsRx /\ rsGot' = rsGot /\ rsPeer' = rsPeer
      /\ rsSent' = rsSent /\ rsTx.state = "crc" /\ rsTx'.state = "end" /\ rsOut' = rsOut
      /\ rsTx'.frame = rsTx.frame /\ rsTx'.escape = rsTx.escape
    BY DEF RsSendCrcDone, RsSending, RsTypeOK, RsTxType
<1>1. rsTx.frame # <<>> /\ rsPeer.frame = <<>>
    BY <1>0 DEF RsSenders
<1>2. PICK v : v = R[Len(rsLine)]
    OBVIOUS
<1>3. RsTarget(v)
    BY <1>2 DEF RsWay
<1>4. RsTarget(v)'
    BY <1>0, <1>1, <1>3 DEF RsTarget
<1> QED
    BY <1>0, <1>2, <1>4, RsWaySame

(* The last flag of a frame without a checksum. *)
LEMMA RsEndStep ==
    ASSUME RsTypeOK, RsSenders, RsPositions, NEW CONSTANT R, RsWay(R), RsSendEnd
    PROVE  \E Q : RsWay(Q)'
<1>0. /\ rsCrc' = rsCrc /\ rsRx' = rsRx /\ rsGot' = rsGot /\ rsPeer' = rsPeer
      /\ rsTx.state = "end" /\ rsTx' = RsTxNew /\ rsLine' = rsLine \o <<126>>
      /\ rsSent' = Append(rsSent, RsBytesAt(rsTx.frame, rsOut))
    BY DEF RsSendEnd, RsSending, RsEmit, RsFlag
<1>1. rsTx.frame # <<>> /\ rsPeer.frame = <<>> /\ rsCrc = "HdlcCrcOff" /\ rsTx.sent = Len(rsTx.frame)
    BY <1>0 DEF RsSenders
<1>2. rsLine' = Append(rsLine, 126)
    BY <1>0 DEF RsTypeOK
<1>3. PICK v, w, b : v = R[Len(rsLine)] /\ w = RsAfter(R[Len(rsLine)], 126) /\ b = RsBytesAt(rsTx.frame, rsOut)
    OBVIOUS
<1>4. v.state = "data" /\ v.got = rsSent /\ v.buf = b
  <2>1. RsTarget(v)
    BY <1>3 DEF RsWay
  <2> QED
    BY <1>0, <1>1, <1>3, <2>1 DEF RsTarget
<1>5. b \in Seq(Int) /\ b # <<>>
  <2>1. /\ rsTx.frame \in Seq(Int) /\ rsOut \in Seq(Nat) /\ DOMAIN rsOut = 1..Len(rsOut)
        /\ Len(rsTx.frame) \in Nat /\ Len(rsOut) \in Nat /\ Len(rsTx.frame) > 0
    BY <1>1 DEF RsTypeOK, RsTxType
  <2>2. \A i \in DOMAIN rsOut : rsOut[i] \in 1..Len(rsTx.frame)
    BY <1>1 DEF RsPositions
  <2>3. \E k \in DOMAIN rsOut : rsOut[k] = 1
    <3>1. 1 \in 1..rsTx.sent
      BY <1>1, <2>1
    <3> QED
      BY <1>1, <3>1 DEF RsPositions
  <2>4. b \in Seq(Int) /\ Len(b) = Len(rsOut)
    BY <1>3, <2>1, <2>2, RsBytesAtType
  <2>5. Len(rsOut) # 0
    BY <2>1, <2>3
  <2> QED
    BY <2>4, <2>5
<1>6. RsCrcField[rsCrc] = 0
    BY <1>1, RsFields
<1>7. RsPayload(v) = b
    BY <1>4, <1>5, <1>6 DEF RsPayload
<1>8. RsGood(v)
    BY <1>1, <1>4, <1>5, <1>6 DEF RsGood, RsSumPanics
<1>9. w.state = "start" /\ w.got = Append(rsSent, b)
    BY <1>3, <1>4, <1>5, <1>7, <1>8 DEF RsAfter, RsFlag
<1>10. RsTarget(w)'
    BY <1>0, <1>1, <1>3, <1>9 DEF RsTarget, RsTxNew
<1> QED
    BY <1>0, <1>2, <1>3, <1>10, RsWayOnByte

LEMMA RsWayStep ==
    ASSUME RsTypeOK, RsTypeOK', RsSenders, RsPositions, RsOnItsWay, RsNext
    PROVE  RsOnItsWay'
<1> SUFFICES ASSUME ~rsTorn', ~rsPanic'
             PROVE  \E Q : RsWay(Q)'
    BY DEF RsOnItsWay
<1>1. ~rsTorn /\ ~rsPanic
  <2>1. CASE RsReset
    BY <2>1 DEF RsReset
  <2>2. CASE ~RsReset
    <3>1. ~rsPanic
      BY <2>2 DEF RsNext, RsPut, RsRunTx, RsSending, RsSendStart, RsSendRun, RsSendSpecial, RsSendCrc,
                  RsSendCrcDone, RsSendEnd, RsPeerStarts, RsPeerSending, RsPeerByte, RsPeerEnds, RsRunRx
    <3>2. rsTorn' = rsTorn
      BY <2>2 DEF RsNext, RsPut, RsRunTx, RsSendStart, RsSendRun, RsSendSpecial, RsSendCrc,
                  RsSendCrcDone, RsSendEnd, RsPeerStarts, RsPeerByte, RsPeerEnds, RsRunRx
    <3> QED
      BY <3>1, <3>2
  <2> QED
    BY <2>1, <2>2
<1>2. PICK R : RsWay(R)
    BY <1>1 DEF RsOnItsWay
<1>3. CASE RsPut \/ RsRunTx
    BY <1>2, <1>3, RsWaitsStep
<1>4. CASE RsSendStart
    BY <1>2, <1>4, RsStartStep
<1>5. CASE RsSendRun
    BY <1>2, <1>5, RsRunStep
<1>6. CASE RsSendSpecial
    BY <1>2, <1>6, RsSpecialStep
<1>7. CASE RsSendCrc
    BY <1>2, <1>7, RsCrcStep
<1>8. CASE RsSendCrcDone
    BY <1>2, <1>8, RsCrcDoneStep
<1>9. CASE RsSendEnd
    BY <1>2, <1>9, RsEndStep
<1>10. CASE RsPeerStarts
    BY <1>2, <1>10, RsPeerStartStep
<1>11. CASE RsPeerByte
    BY <1>2, <1>11, RsPeerByteStep
<1>12. CASE RsPeerEnds
    BY <1>2, <1>12, RsPeerEndStep
<1>13. CASE RsRunRx
    BY <1>2, <1>13, RsReceives
<1>14. CASE RsReset
    BY <1>2, <1>14, RsResetStep
<1> QED
    BY <1>3, <1>4, <1>5, <1>6, <1>7, <1>8, <1>9, <1>10, <1>11, <1>12, <1>13, <1>14 DEF RsNext

LEMMA RsInitOK == RsInit => RsInv
<1> SUFFICES ASSUME RsInit PROVE RsInv
    OBVIOUS
<1>1. RsTypeOK
  <2>1. \A S : <<>> \in Seq(S)
    OBVIOUS
  <2>2. rsCrc \in {"HdlcCrcOff", "HdlcCrc8"}
    BY DEF RsInit, RsCrcField
  <2>3. rsTx \in RsTxType
    BY <2>1 DEF RsInit, RsTxType, RsTxNew
  <2>4. /\ rsPeer \in [frame : Seq(Int), sent : Nat, escape : BOOLEAN]
        /\ rsRx \in [state : {"start", "data"}, buf : Seq(Int), active : Nat, escape : BOOLEAN]
    BY <2>1 DEF RsInit, RsPeerIdle
  <2>5. /\ rsRoom \in Nat /\ rsOut \in Seq(Nat) /\ rsLine \in Seq(Int) /\ rsPuts \in Nat
        /\ rsSent \in Seq(Seq(Int)) /\ rsGot \in Seq(Seq(Int)) /\ rsTorn \in BOOLEAN /\ rsPanic \in BOOLEAN
    BY <2>1 DEF RsInit
  <2> QED
    BY ONLY <2>2, <2>3, <2>4, <2>5 DEF RsTypeOK
<1>2. RsSenders /\ RsPositions
    BY RsAssumption DEF RsInit, RsSenders, RsPositions, RsTxNew, RsPeerIdle
<1>3. RsBuffers
    BY <1>1, RsFields, RsAssumption DEF RsInit, RsBuffers
<1>4. RsOnItsWay
  <2>1. PICK Q, v : Q = [i \in 0..0 |-> RsView] /\ v = RsView
    OBVIOUS
  <2>2. Q \in [0..0 -> RsViews] /\ Q[0] = RsView /\ Len(rsLine) = 0
    BY <1>1, <2>1, RsViewType DEF RsInit
  <2>3. RsTarget(v)
    BY <2>1 DEF RsInit, RsTarget, RsView, RsTxNew, RsPeerIdle
  <2>4. RsWay(Q)
    BY <2>1, <2>2, <2>3 DEF RsWay
  <2> QED
    BY <2>4 DEF RsOnItsWay
<1> QED
    BY <1>1, <1>2, <1>3, <1>4 DEF RsInv

LEMMA RsInvStep == RsInv /\ [RsNext]_rsVars => RsInv'
<1> SUFFICES ASSUME RsInv, [RsNext]_rsVars PROVE RsInv'
    OBVIOUS
<1>1. CASE RsNext
  <2>1. RsTypeOK' /\ RsSenders' /\ RsPositions' /\ RsBuffers'
    BY <1>1, RsTypeStep, RsSendersStep, RsPositionsStep, RsBuffersStep DEF RsInv
  <2>2. RsOnItsWay'
    BY <1>1, <2>1, RsWayStep DEF RsInv
  <2> QED
    BY <2>1, <2>2 DEF RsInv
<1>2. CASE UNCHANGED rsVars
  <2>0. /\ rsLine' = rsLine /\ rsCrc' = rsCrc /\ rsRx' = rsRx /\ rsGot' = rsGot /\ rsPeer' = rsPeer
        /\ rsSent' = rsSent /\ rsTx' = rsTx /\ rsOut' = rsOut /\ rsRoom' = rsRoom /\ rsPuts' = rsPuts
        /\ rsTorn' = rsTorn /\ rsPanic' = rsPanic
    BY <1>2 DEF rsVars, rsTxVars
  <2>1. RsTypeOK' /\ RsSenders' /\ RsPositions' /\ RsBuffers'
    <3>1. RsTypeOK'
      <4>1. RsTypeOK
        BY DEF RsInv
      <4> QED
        BY ONLY <4>1, <2>0 DEF RsTypeOK, RsTxType
    <3>2. RsSenders'
      BY ONLY RsInv, <2>0, Zenon DEF RsInv, RsSenders, RsPeerBytes
    <3>3. RsPositions'
      BY ONLY RsInv, <2>0, Zenon DEF RsInv, RsPositions
    <3>4. RsBuffers'
      BY ONLY RsInv, <2>0 DEF RsInv, RsBuffers, RsPhysMtu
    <3> QED
      BY <3>1, <3>2, <3>3, <3>4
  <2>2. RsOnItsWay'
    <3> SUFFICES ASSUME ~rsTorn', ~rsPanic'
                 PROVE  \E Q : RsWay(Q)'
      BY DEF RsOnItsWay
    <3>1. PICK R : RsWay(R)
      BY <2>0 DEF RsInv, RsOnItsWay
    <3>2. PICK v : v = R[Len(rsLine)]
      OBVIOUS
    <3>3. RsTarget(v)
      BY <3>1, <3>2 DEF RsWay
    <3>4. RsTarget(v)'
      BY <2>0, <3>3 DEF RsTarget, RsPeerBytes
    <3> QED
      BY <2>0, <3>1, <3>2, <3>4, RsWaySame DEF RsInv
  <2> QED
    BY <2>1, <2>2 DEF RsInv
<1> QED
    BY <1>1, <1>2

(* Whatever the output buffers of run_tx, every frame that was put on the  *)
(* line is received once and in order, lacks only ends of plain runs, and  *)
(* the receive buffers stay inside buf, for every frame of up to mtu bytes.*)
THEOREM RsAlwaysDelivers == RsSpec => []RsDelivers
<1>1. RsInv => RsDelivers
  <2> SUFFICES ASSUME RsInv PROVE RsDelivers
    OBVIOUS
  <2>1. ASSUME rsLine = <<>>, ~rsTorn, ~rsPanic
        PROVE  rsGot = rsSent
    <3>1. PICK R : RsWay(R)
      BY <2>1 DEF RsInv, RsOnItsWay
    <3>2. Len(rsLine) = 0
      BY <2>1
    <3> QED
      BY <3>1, <3>2 DEF RsWay, RsTarget, RsView
  <2> QED
    BY <2>1 DEF RsInv, RsDelivers, RsBuffers, RsPositions
<1> QED
    BY <1>1, RsInitOK, RsInvStep, PTL DEF RsSpec
=============================================================================
