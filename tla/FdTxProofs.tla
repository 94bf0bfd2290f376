---------------------------- MODULE FdTxProofs ----------------------------
(***************************************************************************)
(* Proofs about FdTx, for every window, queue size, set of threads and      *)
(* number of retries: type correctness, and no lost wake-up.  A free slot   *)
(* on a live link, room in the window and a frame to send are each          *)
(* signalled, unless the one who waits for the event has just consumed it   *)
(* and is about to act on it.                                               *)
(***************************************************************************)
EXTENDS FdTx, FiniteSetTheorems, SequenceTheorems, TLAPS

\* Hypotheses about the remote station that some of the theorems need.
NoRset == "RSET" \notin RemoteKinds
NoSrej == "SREJ" \notin RemoteKinds

-----------------------------------------------------------------------------
(* Sequence numbers *)

\* The successor of a sequence number is one: the mask wraps it.
LEMMA SeqNextType == \A n \in SeqNums : SeqNext(n) \in SeqNums
BY SeqModAssumption DEF SeqNums, SeqNext

LEMMA ZeroType == 0 \in SeqNums /\ 0 \in Slots
BY SeqModAssumption, WindowAssumption DEF SeqNums, Slots

-----------------------------------------------------------------------------
(* Type correctness *)

LEMMA AppIdleType == AppIdle \in AppType
BY PacketsAssumption DEF AppIdle, AppType

LEMMA RxIdleType == RxIdle \in RxType
BY ZeroType DEF RxIdle, RxType, SKinds

LEMMA QueueResetType == QueueReset(Window) \in [Slots -> SlotType]
BY DEF QueueReset, Slots, SlotType

LEMMA FreeType ==
  ASSUME NEW f \in [Slots -> SlotType], NEW i \in Slots
  PROVE  Free(f, i) \in [Slots -> SlotType]
BY DEF Free, SlotType

LEMMA ResetForType ==
  ASSUME NEW f \in [Slots -> SlotType]
  PROVE  ResetFor(f, Window, Addr) \in [Slots -> SlotType]
BY DEF ResetFor, Slots, SlotType

LEMMA LookupType == \A i \in Slots : LookupAfter(Window, i) \in Slots
BY WindowAssumption DEF LookupAfter, Slots

\* Queueing a service frame keeps the number of occupied slots within the queue.
LEMMA SuPutBounds ==
  ASSUME su \in 0 .. SuSize
  PROVE  SuPut \in 0 .. SuSize /\ SuPut >= su
BY SizesAssumption DEF SuPut

LEMMA SuPutType ==
  ASSUME su \in 0 .. SuSize, NEW wanted \in BOOLEAN, PutSuIf(wanted)
  PROVE  su' \in 0 .. SuSize /\ su' >= su
<1>1. su' = IF wanted THEN SuPut ELSE su
    BY Zenon DEF PutSuIf
<1> QED
    BY <1>1, SuPutBounds

LEMMA TypeInit == Init => TypeOK
<1> SUFFICES ASSUME Init PROVE TypeOK
    OBVIOUS
<1>1. app \in [Threads -> AppType]
    BY AppIdleType DEF Init
<1>2. frames \in [Slots -> SlotType]
    BY QueueResetType DEF Init
<1>3. rx \in RxType
    BY RxIdleType DEF Init
<1>4. EventsType
    BY Zenon DEF Init, EventsType
<1> QED
    BY <1>1, <1>2, <1>3, <1>4, ZeroType, SizesAssumption
    DEF Init, TypeOK, States, TxType

LEMMA EventsStep == EventsType /\ [Next]_vars => EventsType'
<1> SUFFICES ASSUME EventsType, [Next]_vars PROVE EventsType'
    OBVIOUS
<1> USE DEF EventsType
<1>1. ASSUME NEW t \in Threads, NEW p \in Packets, SendWaitAccept(t, p) PROVE EventsType'
    BY <1>1, Zenon DEF SendWaitAccept, events, PutSuIf, AvailableSu, SwitchToConnected,
       SwitchToDisconnected, ConfirmSlot, CanAcceptAfterLoop
<1>2. ASSUME NEW t \in Threads, SendWaitSlot(t) PROVE EventsType'
    BY <1>2, Zenon DEF SendWaitSlot, events, PutSuIf, AvailableSu, SwitchToConnected,
       SwitchToDisconnected, ConfirmSlot, CanAcceptAfterLoop
<1>3. ASSUME NEW t \in Threads, SendTimeout(t) PROVE EventsType'
    BY <1>3, Zenon DEF SendTimeout, events, PutSuIf, AvailableSu, SwitchToConnected,
       SwitchToDisconnected, ConfirmSlot, CanAcceptAfterLoop
<1>4. ASSUME NEW t \in Threads, NEW i \in Slots, SendPut(t, i) PROVE EventsType'
    BY <1>4, Zenon DEF SendPut, events, PutSuIf, AvailableSu, SwitchToConnected,
       SwitchToDisconnected, ConfirmSlot, CanAcceptAfterLoop
<1>5. ASSUME NEW t \in Threads, SendWrongFlag(t) PROVE EventsType'
    BY <1>5, Zenon DEF SendWrongFlag, events, PutSuIf, AvailableSu, SwitchToConnected,
       SwitchToDisconnected, ConfirmSlot, CanAcceptAfterLoop
<1>6. CASE SendUi
    BY <1>6, Zenon DEF SendUi, events, PutSuIf, AvailableSu, SwitchToConnected,
       SwitchToDisconnected, ConfirmSlot, CanAcceptAfterLoop
<1>7. CASE Disconnect
    BY <1>7, Zenon DEF Disconnect, events, PutSuIf, AvailableSu, SwitchToConnected,
       SwitchToDisconnected, ConfirmSlot, CanAcceptAfterLoop
<1>8. CASE TxReadState
    BY <1>8, Zenon DEF TxReadState, events, PutSuIf, AvailableSu, SwitchToConnected,
       SwitchToDisconnected, ConfirmSlot, CanAcceptAfterLoop
<1>9. CASE TxRetry
    BY <1>9, Zenon DEF TxRetry, events, PutSuIf, AvailableSu, SwitchToConnected,
       SwitchToDisconnected, ConfirmSlot, CanAcceptAfterLoop
<1>10. CASE TxGiveUp
    BY <1>10, Zenon DEF TxGiveUp, events, PutSuIf, AvailableSu, SwitchToConnected,
       SwitchToDisconnected, ConfirmSlot, CanAcceptAfterLoop
<1>11. CASE TxNoKeepAlive
    BY <1>11, Zenon DEF TxNoKeepAlive, events, PutSuIf, AvailableSu, SwitchToConnected,
       SwitchToDisconnected, ConfirmSlot, CanAcceptAfterLoop
<1>12. ASSUME NEW keepAlive \in BOOLEAN, TxIdleCheck(keepAlive) PROVE EventsType'
    BY <1>12, Zenon DEF TxIdleCheck, events, PutSuIf, AvailableSu, SwitchToConnected,
       SwitchToDisconnected, ConfirmSlot, CanAcceptAfterLoop
<1>13. ASSUME NEW expired \in BOOLEAN, TxConnectCheck(expired) PROVE EventsType'
    BY <1>13, Zenon DEF TxConnectCheck, events, PutSuIf, AvailableSu, SwitchToConnected,
       SwitchToDisconnected, ConfirmSlot, CanAcceptAfterLoop
<1>14. CASE TxWaitPointPassed
    BY <1>14, Zenon DEF TxWaitPointPassed, events, PutSuIf, AvailableSu,
       SwitchToConnected, SwitchToDisconnected, ConfirmSlot, CanAcceptAfterLoop
<1>15. CASE TxWaitData
    BY <1>15, Zenon DEF TxWaitData, events, PutSuIf, AvailableSu, SwitchToConnected,
       SwitchToDisconnected, ConfirmSlot, CanAcceptAfterLoop
<1>16. CASE TxFetchSu
    BY <1>16, Zenon DEF TxFetchSu, events, PutSuIf, AvailableSu, SwitchToConnected,
       SwitchToDisconnected, ConfirmSlot, CanAcceptAfterLoop
<1>17. CASE TxSentSu
    BY <1>17, Zenon DEF TxSentSu, events, PutSuIf, AvailableSu, SwitchToConnected,
       SwitchToDisconnected, ConfirmSlot, CanAcceptAfterLoop
<1>18. CASE TxFetchSrej
    BY <1>18, Zenon DEF TxFetchSrej, events, PutSuIf, AvailableSu, SwitchToConnected,
       SwitchToDisconnected, ConfirmSlot, CanAcceptAfterLoop
<1>19. CASE TxFetchI
    BY <1>19, Zenon DEF TxFetchI, events, PutSuIf, AvailableSu, SwitchToConnected,
       SwitchToDisconnected, ConfirmSlot, CanAcceptAfterLoop
<1>20. CASE TxFetchNothing
    BY <1>20, Zenon DEF TxFetchNothing, events, PutSuIf, AvailableSu, SwitchToConnected,
       SwitchToDisconnected, ConfirmSlot, CanAcceptAfterLoop
<1>21. ASSUME NEW kind \in RemoteKinds, RxNotConnected(kind) PROVE EventsType'
    BY <1>21, Zenon DEF RxNotConnected, events, PutSuIf, AvailableSu, SwitchToConnected,
       SwitchToDisconnected, ConfirmSlot, CanAcceptAfterLoop
<1>22. ASSUME NEW kind \in RemoteKinds, RxDown(kind) PROVE EventsType'
    BY <1>22, Zenon DEF RxDown, events, PutSuIf, AvailableSu, SwitchToConnected,
       SwitchToDisconnected, ConfirmSlot, CanAcceptAfterLoop
<1>23. ASSUME NEW kind \in RemoteKinds, NEW nr \in SeqNums, NEW rej \in BOOLEAN, RxNumbered(kind, nr, rej) PROVE EventsType'
    BY <1>23, Zenon DEF RxNumbered, events, PutSuIf, AvailableSu, SwitchToConnected,
       SwitchToDisconnected, ConfirmSlot, CanAcceptAfterLoop
<1>24. ASSUME NEW kind \in RemoteKinds, NEW command \in BOOLEAN, RxUDisconnected(kind, command) PROVE EventsType'
    BY <1>24, Zenon DEF RxUDisconnected, events, PutSuIf, AvailableSu,
       SwitchToConnected, SwitchToDisconnected, ConfirmSlot, CanAcceptAfterLoop
<1>25. ASSUME NEW i \in Slots, RxConfirm(i) PROVE EventsType'
    BY <1>25, Zenon DEF RxConfirm, events, PutSuIf, AvailableSu, SwitchToConnected,
       SwitchToDisconnected, ConfirmSlot, CanAcceptAfterLoop
<1>26. ASSUME NEW i \in Slots, RxCallback(i) PROVE EventsType'
    BY <1>26, Zenon DEF RxCallback, events, PutSuIf, AvailableSu, SwitchToConnected,
       SwitchToDisconnected, ConfirmSlot, CanAcceptAfterLoop
<1>27. CASE RxCallbackReturns
    BY <1>27, Zenon DEF RxCallbackReturns, events, PutSuIf, AvailableSu,
       SwitchToConnected, SwitchToDisconnected, ConfirmSlot, CanAcceptAfterLoop
<1>28. CASE RxCannotConfirm
    BY <1>28, Zenon DEF RxCannotConfirm, events, PutSuIf, AvailableSu,
       SwitchToConnected, SwitchToDisconnected, ConfirmSlot, CanAcceptAfterLoop
<1>29. ASSUME NEW answer \in BOOLEAN, RxEndRr(answer) PROVE EventsType'
    BY <1>29, Zenon DEF RxEndRr, events, PutSuIf, AvailableSu, SwitchToConnected,
       SwitchToDisconnected, ConfirmSlot, CanAcceptAfterLoop
<1>30. CASE RxEndRej
    BY <1>30, Zenon DEF RxEndRej, events, PutSuIf, AvailableSu, SwitchToConnected,
       SwitchToDisconnected, ConfirmSlot, CanAcceptAfterLoop
<1>31. CASE RxEndSrej
    BY <1>31, Zenon DEF RxEndSrej, events, PutSuIf, AvailableSu, SwitchToConnected,
       SwitchToDisconnected, ConfirmSlot, CanAcceptAfterLoop
<1>32. CASE RxEndI
    BY <1>32, Zenon DEF RxEndI, events, PutSuIf, AvailableSu, SwitchToConnected,
       SwitchToDisconnected, ConfirmSlot, CanAcceptAfterLoop
<1>33. ASSUME NEW rr \in BOOLEAN, RxReadReturns(rr) PROVE EventsType'
    BY <1>33, Zenon DEF RxReadReturns, events, PutSuIf, AvailableSu, SwitchToConnected,
       SwitchToDisconnected, ConfirmSlot, CanAcceptAfterLoop
<1>34. CASE RxSabmUp
    BY <1>34, Zenon DEF RxSabmUp, events, PutSuIf, AvailableSu, SwitchToConnected,
       SwitchToDisconnected, ConfirmSlot, CanAcceptAfterLoop
<1>35. CASE RxSabm
    BY <1>35, Zenon DEF RxSabm, events, PutSuIf, AvailableSu, SwitchToConnected,
       SwitchToDisconnected, ConfirmSlot, CanAcceptAfterLoop
<1>36. CASE RxUa
    BY <1>36, Zenon DEF RxUa, events, PutSuIf, AvailableSu, SwitchToConnected,
       SwitchToDisconnected, ConfirmSlot, CanAcceptAfterLoop
<1>37. CASE RxFrmr
    BY <1>37, Zenon DEF RxFrmr, events, PutSuIf, AvailableSu, SwitchToConnected,
       SwitchToDisconnected, ConfirmSlot, CanAcceptAfterLoop
<1>38. CASE RxFrmrReconnect
    BY <1>38, Zenon DEF RxFrmrReconnect, events, PutSuIf, AvailableSu,
       SwitchToConnected, SwitchToDisconnected, ConfirmSlot, CanAcceptAfterLoop
<1>39. CASE RxRset
    BY <1>39, Zenon DEF RxRset, events, PutSuIf, AvailableSu, SwitchToConnected,
       SwitchToDisconnected, ConfirmSlot, CanAcceptAfterLoop
<1>40. CASE UNCHANGED vars
    BY <1>40, Zenon DEF vars, events
<1> QED
    BY <1>1, <1>2, <1>3, <1>4, <1>5, <1>6, <1>7, <1>8, <1>9, <1>10, <1>11, <1>12, <1>13,
       <1>14, <1>15, <1>16, <1>17, <1>18, <1>19, <1>20, <1>21, <1>22, <1>23, <1>24,
       <1>25, <1>26, <1>27, <1>28, <1>29, <1>30, <1>31, <1>32, <1>33, <1>34, <1>35,
       <1>36, <1>37, <1>38, <1>39, <1>40 DEF Next, AppNext, TxNext, RxNext

\* What the actions share keeps the types.
LEMMA DownType ==
  ASSUME TypeOK, SwitchToDisconnected
  PROVE  /\ state' \in States /\ confirm_ns' \in SeqNums /\ next_ns' \in SeqNums
         /\ last_ns' \in SeqNums /\ srej_req_mask' \in SUBSET SeqNums
         /\ frames' \in [Slots -> SlotType]
BY ResetForType, ZeroType
DEF TypeOK, SwitchToDisconnected, ResetTransmit, FlushIQueue, window, States

LEMMA UpType ==
  ASSUME TypeOK, SwitchToConnected
  PROVE  /\ state' \in States /\ confirm_ns' \in SeqNums /\ next_ns' \in SeqNums
         /\ last_ns' \in SeqNums /\ srej_req_mask' \in SUBSET SeqNums
         /\ frames' \in [Slots -> SlotType]
BY ResetForType, ZeroType
DEF TypeOK, SwitchToConnected, ResetTransmit, FlushIQueue, window, States

LEMMA ConfirmType ==
  ASSUME TypeOK, NEW i \in Slots, ConfirmSlot(i)
  PROVE  /\ confirm_ns' \in SeqNums /\ retries' \in 0 .. Retries
         /\ frames' \in [Slots -> SlotType] /\ lookup_index' \in Slots
BY FreeType, LookupType, SeqNextType, SizesAssumption DEF TypeOK, ConfirmSlot

LEMMA SlotWritten ==
  ASSUME TypeOK, NEW t \in Threads, NEW i \in Slots
  PROVE  [frames EXCEPT ![i] = [type |-> "I", address |-> Addr, arg |-> last_ns,
                                data |-> app[t].packet]] \in [Slots -> SlotType]
BY DEF TypeOK, SlotType, ISlot, AppType

LEMMA TypeStep == TypeOK /\ [Next]_vars => TypeOK'
<1> SUFFICES ASSUME TypeOK, [Next]_vars PROVE TypeOK'
    OBVIOUS
<1>0. EventsType'
    BY EventsStep DEF TypeOK
<1> USE <1>0 DEF TypeOK, window, events, threads
<1>1. ASSUME NEW t \in Threads, NEW p \in Packets, SendWaitAccept(t, p)
      PROVE  TypeOK'
    BY <1>1 DEF SendWaitAccept, AppType
<1>2. ASSUME NEW t \in Threads, SendWaitSlot(t)
      PROVE  TypeOK'
    BY <1>2 DEF SendWaitSlot, AppType
<1>3. ASSUME NEW t \in Threads, SendTimeout(t)
      PROVE  TypeOK'
    BY <1>3, AppIdleType DEF SendTimeout
<1>4. ASSUME NEW t \in Threads, NEW i \in Slots, SendPut(t, i)
      PROVE  TypeOK'
    BY <1>4, AppIdleType, SeqNextType, SlotWritten DEF SendPut
<1>5. ASSUME NEW t \in Threads, SendWrongFlag(t)
      PROVE  TypeOK'
    BY <1>5, AppIdleType DEF SendWrongFlag
<1>6. CASE SendUi
    <2>1. su' = SuPut \/ su' = su
        BY <1>6, Zenon DEF SendUi, PutSuIf
    <2> QED
        BY <1>6, <2>1, SuPutBounds DEF SendUi
<1>7. CASE Disconnect
    <2>1. su' = SuPut \/ su' = su
        BY <1>7, Zenon DEF Disconnect, PutSuIf
    <2> QED
        BY <1>7, <2>1, SuPutBounds DEF Disconnect, States
<1>8. CASE TxReadState
    BY <1>8 DEF TxReadState, TxAt, TxType
<1>9. CASE TxRetry
    BY <1>9, SizesAssumption DEF TxRetry, TxAt, TxType, RewindTo
<1>10. CASE TxGiveUp
    BY <1>10, DownType DEF TxGiveUp, TxAt, TxType
<1>11. CASE TxNoKeepAlive
    BY <1>11, DownType DEF TxNoKeepAlive, TxAt, TxType
<1>12. ASSUME NEW keepAlive \in BOOLEAN, TxIdleCheck(keepAlive)
      PROVE  TypeOK'
    BY <1>12, SuPutType DEF TxIdleCheck, TxAt, TxType
<1>13. ASSUME NEW expired \in BOOLEAN, TxConnectCheck(expired)
      PROVE  TypeOK'
    BY <1>13, SuPutType DEF TxConnectCheck, TxAt, TxType, States
<1>14. CASE TxWaitPointPassed
    BY <1>14 DEF TxWaitPointPassed, TxAt, TxType
<1>15. CASE TxWaitData
    BY <1>15 DEF TxWaitData, TxAt, TxType
<1>16. CASE TxFetchSu
    BY <1>16, SizesAssumption DEF TxFetchSu, TxAt, TxType
<1>17. CASE TxSentSu
    BY <1>17, SizesAssumption DEF TxSentSu, TxAt, TxType
<1>18. CASE TxFetchSrej
    BY <1>18 DEF TxFetchSrej, TxAt, TxType
<1>19. CASE TxFetchI
    BY <1>19, SeqNextType DEF TxFetchI, TxAt, TxType
<1>20. CASE TxFetchNothing
    BY <1>20 DEF TxFetchNothing, TxAt, TxType
<1>21. ASSUME NEW kind \in RemoteKinds, RxNotConnected(kind)
      PROVE  TypeOK'
    <2>1. su' = SuPut \/ su' = su
        BY <1>21, Zenon DEF RxNotConnected, PutSuIf
    <2> QED
        BY <1>21, <2>1, SuPutBounds DEF RxNotConnected
<1>22. ASSUME NEW kind \in RemoteKinds, RxDown(kind)
      PROVE  TypeOK'
    <2>1. su' = SuPut \/ su' = su
        BY <1>22, Zenon DEF RxDown, PutSuIf
    <2> QED
        BY <1>22, <2>1, SuPutBounds, DownType DEF RxDown
<1>23. ASSUME NEW kind \in RemoteKinds, NEW nr \in SeqNums, NEW rej \in BOOLEAN, RxNumbered(kind, nr, rej)
      PROVE  TypeOK'
    BY <1>23, KindsAssumption, ZeroType, SuPutType DEF RxNumbered, RxType
<1>24. ASSUME NEW kind \in RemoteKinds, NEW command \in BOOLEAN, RxUDisconnected(kind, command)
      PROVE  TypeOK'
    BY <1>24, SuPutType DEF RxUDisconnected
<1>25. ASSUME NEW i \in Slots, RxConfirm(i)
      PROVE  TypeOK'
    BY <1>25, ConfirmType DEF RxConfirm
<1>26. ASSUME NEW i \in Slots, RxCallback(i)
      PROVE  TypeOK'
    BY <1>26 DEF RxCallback, RxType
<1>27. CASE RxCallbackReturns
    BY <1>27, ConfirmType, ZeroType DEF RxCallbackReturns, RxType
<1>28. CASE RxCannotConfirm
    BY <1>28, SeqNextType, SizesAssumption DEF RxCannotConfirm
<1>29. ASSUME NEW answer \in BOOLEAN, RxEndRr(answer)
      PROVE  TypeOK'
    BY <1>29, RxIdleType, SuPutType DEF RxEndRr
<1>30. CASE RxEndRej
    BY <1>30, RxIdleType, SuPutBounds DEF RxEndRej, RxType, RewindTo
<1>31. CASE RxEndSrej
    BY <1>31, RxIdleType DEF RxEndSrej, RxType
<1>32. CASE RxEndI
    BY <1>32, RxIdleType DEF RxEndI, RxType
<1>33. ASSUME NEW rr \in BOOLEAN, RxReadReturns(rr)
      PROVE  TypeOK'
    BY <1>33, RxIdleType, SuPutType DEF RxReadReturns
<1>34. CASE RxSabmUp
    <2>1. su' = SuPut \/ su' = su
        BY <1>34, Zenon DEF RxSabmUp, PutSuIf
    <2>2. rx' \in RxType
        BY <1>34 DEF RxSabmUp, RxType, UKinds
    <2> QED
        BY <1>34, <2>1, <2>2, SuPutBounds, DownType DEF RxSabmUp
<1>35. CASE RxSabm
    BY <1>35, RxIdleType, UpType, SuPutBounds DEF RxSabm
<1>36. CASE RxUa
    BY <1>36, UpType, DownType DEF RxUa
<1>37. CASE RxFrmr
    BY <1>37, DownType DEF RxFrmr, RxType, UKinds
<1>38. CASE RxFrmrReconnect
    <2>1. su' = SuPut \/ su' = su
        BY <1>38, Zenon DEF RxFrmrReconnect, PutSuIf
    <2> QED
        BY <1>38, <2>1, SuPutBounds, RxIdleType DEF RxFrmrReconnect, States
<1>39. CASE RxRset
    <2>1. su' = SuPut \/ su' = su
        BY <1>39, Zenon DEF RxRset, PutSuIf
    <2> QED
        BY <1>39, <2>1, SuPutBounds, ZeroType DEF RxRset, ResetTransmit
<1>40. CASE UNCHANGED vars
    BY <1>40 DEF vars
<1> QED
    BY <1>1, <1>2, <1>3, <1>4, <1>5, <1>6, <1>7, <1>8, <1>9, <1>10, <1>11, <1>12, <1>13,
       <1>14, <1>15, <1>16, <1>17, <1>18, <1>19, <1>20, <1>21, <1>22, <1>23, <1>24,
       <1>25, <1>26, <1>27, <1>28, <1>29, <1>30, <1>31, <1>32, <1>33, <1>34, <1>35,
       <1>36, <1>37, <1>38, <1>39, <1>40 DEF Next, AppNext, TxNext, RxNext

\* Type correctness: in every reachable state the numbers stay below SeqMod, the
\* slots and the lookup index within the window, the service queue within its
\* size, and the threads at one of the points the code can stop at.
THEOREM TypeCorrect == Spec => []TypeOK
BY TypeInit, TypeStep, PTL DEF Spec

-----------------------------------------------------------------------------
(* FD_EVENT_QUEUE_HAS_FREE_SLOTS *)

\* A step that touches neither the slots nor the event and does not connect.
LEMMA FreeCalm ==
  ASSUME FreeSlotsSignalled, UNCHANGED <<frames, has_free>>,
         state' = state \/ state' # "CONNECTED",
         app' = app
  PROVE  FreeSlotsSignalled'
BY DEF FreeSlotsSignalled

\* A step after which a free slot is signalled.
LEMMA FreeSet ==
  ASSUME HasFreeSlots(frames', Window) => has_free'
  PROVE  FreeSlotsSignalled'
BY DEF FreeSlotsSignalled

\* A step that ends outside CONNECTED.
LEMMA FreeDown ==
  ASSUME state' # "CONNECTED"
  PROVE  FreeSlotsSignalled'
BY DEF FreeSlotsSignalled

LEMMA FreeApp ==
  ASSUME TypeOK, FreeSlotsSignalled, AppNext
  PROVE  FreeSlotsSignalled'
<1>1. ASSUME NEW t \in Threads, NEW p \in Packets, SendWaitAccept(t, p)
      PROVE  FreeSlotsSignalled'
    <2>1. UNCHANGED <<state, frames, has_free>>
        BY <1>1 DEF SendWaitAccept, window
    <2>2. \A u \in Threads : app[u].pc = "put" => app'[u].pc = "put"
        BY <1>1 DEF SendWaitAccept, TypeOK
    <2> QED
        BY <2>1, <2>2 DEF FreeSlotsSignalled
<1>2. ASSUME NEW t \in Threads, SendWaitSlot(t)
      PROVE  FreeSlotsSignalled'
    <2>1. app'[t].pc = "put"
        BY <1>2 DEF SendWaitSlot, TypeOK, AppType
    <2> QED
        BY <2>1 DEF FreeSlotsSignalled
<1>3. ASSUME NEW t \in Threads, SendTimeout(t)
      PROVE  FreeSlotsSignalled'
    <2>1. UNCHANGED <<state, frames, has_free>>
        BY <1>3 DEF SendTimeout, window
    <2>2. \A u \in Threads : app[u].pc = "put" => app'[u].pc = "put"
        BY <1>3 DEF SendTimeout, TypeOK
    <2> QED
        BY <2>1, <2>2 DEF FreeSlotsSignalled
<1>4. ASSUME NEW t \in Threads, NEW i \in Slots, SendPut(t, i)
      PROVE  FreeSlotsSignalled'
    <2>1. HasFreeSlots(frames', Window) => has_free'
        BY <1>4, Zenon DEF SendPut
    <2> QED
        BY <2>1, FreeSet
<1>5. ASSUME NEW t \in Threads, SendWrongFlag(t)
      PROVE  FreeSlotsSignalled'
    <2>1. ~HasFreeSlots(frames, Window) /\ frames' = frames
        BY <1>5 DEF SendWrongFlag, window
    <2> QED
        BY <2>1, FreeSet
<1>6. CASE SendUi \/ Disconnect
    <2>1. UNCHANGED <<frames, has_free, app>> /\ (state' = state \/ state' = "DISCONNECTING")
        BY <1>6 DEF SendUi, Disconnect, window, threads
    <2> QED
        BY <2>1, FreeCalm
<1> QED
    BY <1>1, <1>2, <1>3, <1>4, <1>5, <1>6 DEF AppNext

LEMMA FreeTx ==
  ASSUME FreeSlotsSignalled, TxNext
  PROVE  FreeSlotsSignalled'
<1>1. CASE TxGiveUp \/ TxNoKeepAlive
    <2>1. SwitchToDisconnected
        BY <1>1 DEF TxGiveUp, TxNoKeepAlive
    <2>2. state' # "CONNECTED"
        BY <2>1 DEF SwitchToDisconnected
    <2> QED
        BY <2>2, FreeDown
<1>2. CASE TxReadState \/ TxRetry \/ TxWaitPointPassed \/ TxWaitData \/ TxFetchSu \/ TxSentSu
           \/ TxFetchSrej \/ TxFetchI \/ TxFetchNothing
    <2>1. UNCHANGED <<frames, has_free, app, state>>
        BY <1>2 DEF TxReadState, TxRetry, TxWaitPointPassed, TxWaitData, TxFetchSu,
           TxSentSu, TxFetchSrej, TxFetchI, TxFetchNothing, window, events
    <2> QED
        BY <2>1, FreeCalm
<1>3. ASSUME NEW b \in BOOLEAN, TxIdleCheck(b) \/ TxConnectCheck(b)
      PROVE  FreeSlotsSignalled'
    <2>1. UNCHANGED <<frames, has_free, app>> /\ (state' = state \/ state' = "CONNECTING")
        BY <1>3 DEF TxIdleCheck, TxConnectCheck, window
    <2> QED
        BY <2>1, FreeCalm
<1> QED
    BY <1>1, <1>2, <1>3 DEF TxNext

LEMMA FreeRx ==
  ASSUME FreeSlotsSignalled, RxNext
  PROVE  FreeSlotsSignalled'
<1>1. ASSUME NEW i, ConfirmSlot(i)
      PROVE  FreeSlotsSignalled'
    <2>1. HasFreeSlots(frames', Window) => has_free'
        BY <1>1, Zenon DEF ConfirmSlot
    <2> QED
        BY <2>1, FreeSet
<1>2. ASSUME SwitchToDisconnected
      PROVE  FreeSlotsSignalled'
    <2>1. state' # "CONNECTED"
        BY <1>2 DEF SwitchToDisconnected
    <2> QED
        BY <2>1, FreeDown
<1>3. ASSUME SwitchToConnected, app' = app
      PROVE  FreeSlotsSignalled'
    <2>1. CASE state # "CONNECTED"
        <3>1. HasFreeSlots(frames', Window) => has_free'
            BY <1>3, <2>1, Zenon DEF SwitchToConnected, FlushIQueue
        <3> QED
            BY <3>1, FreeSet
    <2>2. CASE state = "CONNECTED"
        BY <1>3, <2>2, FreeCalm DEF SwitchToConnected, window, events
    <2> QED
        BY <2>1, <2>2
<1>4. ASSUME NEW i \in Slots, RxConfirm(i) \/ RxCallback(i)
      PROVE  FreeSlotsSignalled'
    <2>1. CASE RxConfirm(i)
        BY <1>1, <2>1 DEF RxConfirm
    <2>2. CASE RxCallback(i)
        BY <2>2, FreeCalm DEF RxCallback, window, events
    <2> QED
        BY <1>4, <2>1, <2>2
<1>5. CASE RxCallbackReturns
    BY <1>1, <1>5 DEF RxCallbackReturns
<1>6. ASSUME NEW kind \in RemoteKinds, RxDown(kind)
      PROVE  FreeSlotsSignalled'
    BY <1>2, <1>6 DEF RxDown
<1>7. CASE RxSabmUp \/ RxFrmr
    BY <1>2, <1>7 DEF RxSabmUp, RxFrmr
<1>8. CASE RxSabm
    BY <1>3, <1>8 DEF RxSabm
<1>9. CASE RxUa
    BY <1>2, <1>3, <1>9 DEF RxUa, threads
<1>10. ASSUME NEW kind \in RemoteKinds, NEW nr, NEW b,
              RxNotConnected(kind) \/ RxNumbered(kind, nr, b) \/ RxUDisconnected(kind, b)
       PROVE  FreeSlotsSignalled'
    BY <1>10, FreeCalm DEF RxNotConnected, RxNumbered, RxUDisconnected, window, threads
<1>11. ASSUME NEW b \in BOOLEAN, RxEndRr(b) \/ RxReadReturns(b)
       PROVE  FreeSlotsSignalled'
    BY <1>11, FreeCalm DEF RxEndRr, RxReadReturns, window
<1>12. CASE RxEndRej \/ RxEndSrej \/ RxEndI \/ RxCannotConfirm \/ RxRset
    <2>1. UNCHANGED <<frames, has_free, app, state>>
        BY <1>12 DEF RxEndRej, RxEndSrej, RxEndI, RxCannotConfirm, RxRset, window, threads, events
    <2> QED
        BY <2>1, FreeCalm
<1>13. CASE RxFrmrReconnect
    BY <1>13, FreeDown DEF RxFrmrReconnect
<1> QED
    BY <1>4, <1>5, <1>6, <1>7, <1>8, <1>9, <1>10, <1>11, <1>12, <1>13 DEF RxNext

\* A sender never waits for a free slot that is there: no path of the code that
\* frees a slot on a live link leaves FD_EVENT_QUEUE_HAS_FREE_SLOTS unset, with
\* any number of senders, with or without on_send_cb, whatever the remote sends.
THEOREM FreeSlotsAlwaysSignalled == Spec => []FreeSlotsSignalled
<1>1. Init => FreeSlotsSignalled
    BY DEF Init, FreeSlotsSignalled
<1>2. TypeOK /\ FreeSlotsSignalled /\ [Next]_vars => FreeSlotsSignalled'
    <2>1. CASE Next
        BY <2>1, FreeApp, FreeTx, FreeRx DEF Next
    <2>2. CASE UNCHANGED vars
        BY <2>2, FreeCalm DEF vars, window, events, threads
    <2> QED
        BY <2>1, <2>2
<1> QED
    BY <1>1, <1>2, TypeCorrect, PTL DEF Spec

-----------------------------------------------------------------------------
(* FD_EVENT_CAN_ACCEPT_I_FRAMES *)

\* A step after which room in the window is signalled.
LEMMA RoomSet ==
  ASSUME can_accept' \/ TxFull(confirm_ns', last_ns')
  PROVE  RoomSignalled'
BY DEF RoomSignalled

\* A step that ends in a confirmation loop or outside CONNECTED.
LEMMA RoomExempt ==
  ASSUME rx'.pc \in {"confirm", "on_send_cb"} \/ state' # "CONNECTED"
  PROVE  RoomSignalled'
BY DEF RoomSignalled

\* A step that touches neither the window's ends nor the event, and no sender.
LEMMA RoomCalm ==
  ASSUME RoomSignalled, UNCHANGED <<confirm_ns, last_ns, can_accept, app>>,
         state' = state, rx.pc \notin {"confirm", "on_send_cb"} \/ rx' = rx
  PROVE  RoomSignalled'
BY DEF RoomSignalled, TxFull

LEMMA RoomApp ==
  ASSUME TypeOK, RoomSignalled, AppNext
  PROVE  RoomSignalled'
<1>1. ASSUME NEW t \in Threads, NEW p \in Packets, SendWaitAccept(t, p)
      PROVE  RoomSignalled'
    <2>1. app'[t].pc = "wait_slot"
        BY <1>1 DEF SendWaitAccept, TypeOK
    <2> QED
        BY <2>1 DEF RoomSignalled
<1>2. ASSUME NEW t \in Threads, SendWaitSlot(t)
      PROVE  RoomSignalled'
    <2>1. app'[t].pc = "put"
        BY <1>2 DEF SendWaitSlot, TypeOK, AppType
    <2> QED
        BY <2>1 DEF RoomSignalled
<1>3. ASSUME NEW t \in Threads, SendTimeout(t)
      PROVE  RoomSignalled'
    <2>1. can_accept'
        BY <1>3 DEF SendTimeout
    <2> QED
        BY <2>1, RoomSet
<1>4. ASSUME NEW t \in Threads, NEW i \in Slots, SendPut(t, i)
      PROVE  RoomSignalled'
    <2>1. can_accept' \/ TxFull(confirm_ns', last_ns')
        BY <1>4, Zenon DEF SendPut
    <2> QED
        BY <2>1, RoomSet
<1>5. ASSUME NEW t \in Threads, SendWrongFlag(t)
      PROVE  RoomSignalled'
    <2>1. can_accept' \/ TxFull(confirm_ns', last_ns')
        BY <1>5, Zenon DEF SendWrongFlag, window
    <2> QED
        BY <2>1, RoomSet
<1>6. CASE SendUi
    BY <1>6, RoomCalm DEF SendUi, window, threads
<1>7. CASE Disconnect
    BY <1>7, RoomExempt DEF Disconnect
<1> QED
    BY <1>1, <1>2, <1>3, <1>4, <1>5, <1>6, <1>7 DEF AppNext

LEMMA RoomTx ==
  ASSUME RoomSignalled, TxNext
  PROVE  RoomSignalled'
<1>1. CASE TxGiveUp \/ TxNoKeepAlive
    <2>1. SwitchToDisconnected
        BY <1>1 DEF TxGiveUp, TxNoKeepAlive
    <2> QED
        BY <2>1, RoomExempt DEF SwitchToDisconnected
<1>2. CASE TxReadState \/ TxRetry \/ TxWaitPointPassed \/ TxWaitData \/ TxFetchSu \/ TxSentSu
           \/ TxFetchSrej \/ TxFetchI \/ TxFetchNothing
    <2>1. UNCHANGED <<confirm_ns, last_ns, can_accept, app, state, rx>>
        BY <1>2 DEF TxReadState, TxRetry, TxWaitPointPassed, TxWaitData, TxFetchSu,
           TxSentSu, TxFetchSrej, TxFetchI, TxFetchNothing, window, events
    <2> QED
        BY <2>1, RoomCalm
<1>3. ASSUME NEW b \in BOOLEAN, TxIdleCheck(b) \/ TxConnectCheck(b)
      PROVE  RoomSignalled'
    <2>1. /\ UNCHANGED <<confirm_ns, last_ns, can_accept, app, rx>>
          /\ state' = state \/ state' = "CONNECTING"
        BY <1>3 DEF TxIdleCheck, TxConnectCheck, window
    <2> QED
        BY <2>1, RoomCalm, RoomExempt
<1> QED
    BY <1>1, <1>2, <1>3 DEF TxNext

LEMMA RoomRx ==
  ASSUME NoRset, TypeOK, RoomSignalled, RxNext
  PROVE  RoomSignalled'
<1>1. ASSUME CanAcceptAfterLoop, UNCHANGED <<confirm_ns, last_ns>>
      PROVE  RoomSignalled'
    <2>1. can_accept' \/ TxFull(confirm_ns', last_ns')
        BY <1>1, Zenon DEF CanAcceptAfterLoop
    <2> QED
        BY <2>1, RoomSet
<1>2. ASSUME SwitchToDisconnected
      PROVE  RoomSignalled'
    BY <1>2, RoomExempt DEF SwitchToDisconnected
<1>3. ASSUME SwitchToConnected, app' = app, rx.pc \notin {"confirm", "on_send_cb"}
      PROVE  RoomSignalled'
    <2>1. CASE state # "CONNECTED"
        <3>1. can_accept'
            BY <1>3, <2>1, Zenon DEF SwitchToConnected
        <3> QED
            BY <3>1, RoomSet
    <2>2. CASE state = "CONNECTED"
        BY <1>3, <2>2, RoomCalm DEF SwitchToConnected, window, events
    <2> QED
        BY <2>1, <2>2
<1>4. ASSUME NEW i \in Slots, RxConfirm(i) \/ RxCallback(i)
      PROVE  RoomSignalled'
    <2>1. rx'.pc \in {"confirm", "on_send_cb"}
        BY <1>4 DEF RxConfirm, RxCallback, TypeOK, RxType, threads
    <2> QED
        BY <2>1, RoomExempt
<1>5. CASE RxCallbackReturns \/ RxCannotConfirm
    <2>1. rx'.pc = "confirm"
        BY <1>5 DEF RxCallbackReturns, RxCannotConfirm, TypeOK, RxType, threads
    <2> QED
        BY <2>1, RoomExempt
<1>6. ASSUME NEW kind \in RemoteKinds, RxDown(kind)
      PROVE  RoomSignalled'
    BY <1>2, <1>6 DEF RxDown
<1>7. CASE RxSabmUp \/ RxFrmr
    BY <1>2, <1>7 DEF RxSabmUp, RxFrmr
<1>8. CASE RxSabm
    <2>1. SwitchToConnected /\ app' = app /\ rx.pc \notin {"confirm", "on_send_cb"}
        BY <1>8 DEF RxSabm, RxStart
    <2> QED
        BY <1>3, <2>1
<1>9. CASE RxUa
    <2>1. /\ SwitchToConnected \/ SwitchToDisconnected
          /\ app' = app /\ rx.pc \notin {"confirm", "on_send_cb"}
        BY <1>9 DEF RxUa, RxStart, threads
    <2> QED
        BY <1>2, <1>3, <2>1
<1>10. ASSUME NEW kind \in RemoteKinds, NEW b, RxNotConnected(kind) \/ RxUDisconnected(kind, b)
       PROVE  RoomSignalled'
    BY <1>10, RoomCalm DEF RxNotConnected, RxUDisconnected, window, threads
<1>11. ASSUME NEW kind \in RemoteKinds, NEW nr, NEW b, RxNumbered(kind, nr, b)
       PROVE  RoomSignalled'
    BY <1>11, RoomExempt DEF RxNumbered
<1>12. ASSUME NEW b \in BOOLEAN, RxEndRr(b)
       PROVE  RoomSignalled'
    BY <1>1, <1>12 DEF RxEndRr, window
<1>13. CASE RxEndRej \/ RxEndSrej \/ RxEndI
    BY <1>1, <1>13 DEF RxEndRej, RxEndSrej, RxEndI, window
<1>14. ASSUME NEW b \in BOOLEAN, RxReadReturns(b)
       PROVE  RoomSignalled'
    BY <1>14, RoomCalm DEF RxReadReturns, window
<1>15. CASE RxFrmrReconnect
    BY <1>15, RoomExempt DEF RxFrmrReconnect
<1>16. CASE RxRset
    BY <1>16 DEF RxRset, RxStart, NoRset
<1> QED
    BY <1>4, <1>5, <1>6, <1>7, <1>8, <1>9, <1>10, <1>11, <1>12, <1>13, <1>14, <1>15, <1>16
    DEF RxNext

\* Senders never all wait for a window that has room: once no call is in progress,
\* a connected link whose window is not full has FD_EVENT_CAN_ACCEPT_I_FRAMES set,
\* although each call clears it before it knows whether it will succeed.  RSET is
\* excluded: it empties the window without raising the event.
THEOREM RoomAlwaysSignalled ==
  ASSUME NoRset
  PROVE  Spec => []RoomSignalled
<1>1. Init => RoomSignalled
    BY DEF Init, RoomSignalled
<1>2. TypeOK /\ RoomSignalled /\ [Next]_vars => RoomSignalled'
    <2>1. CASE Next
        BY <2>1, RoomApp, RoomTx, RoomRx DEF Next
    <2>2. CASE UNCHANGED vars
        BY <2>2, RoomCalm DEF vars, window, events, threads
    <2> QED
        BY <2>1, <2>2
<1> QED
    BY <1>1, <1>2, TypeCorrect, PTL DEF Spec

-----------------------------------------------------------------------------
(* FD_EVENT_TX_DATA_AVAILABLE *)

\* The inductive invariant: the property, and that no SREJ request is pending or
\* being handled, which only a remote that sends SREJ could change.
DataInv ==
  /\ DataSignalled
  /\ srej_req_mask = {}
  /\ rx.kind # "SREJ"

HasData == su > 0 \/ (MaySendIFrames /\ ~NoIFrame(next_ns))

\* A step after which the event is set, or the Tx thread is about to look.
LEMMA DataSet ==
  ASSUME tx_available' \/ tx' = "fetch"
  PROVE  DataSignalled'
BY DEF DataSignalled

\* A step that brings no data and keeps the event.
LEMMA DataCalm ==
  ASSUME DataSignalled, HasData' => HasData, tx # "fetch" \/ tx' = "fetch",
         tx_available => tx_available'
  PROVE  DataSignalled'
BY DEF DataSignalled, HasData

\* A step that leaves no data at all.
LEMMA DataNone ==
  ASSUME ~HasData'
  PROVE  DataSignalled'
BY DEF DataSignalled, HasData

\* Queueing a service frame signals it; a full service queue was signalled before.
LEMMA DataPut ==
  ASSUME TypeOK, DataSignalled, PutSuIf(TRUE), tx # "fetch" \/ tx' = "fetch"
  PROVE  DataSignalled'
<1>1. CASE su < SuSize
    <2>1. tx_available'
        BY <1>1, Zenon DEF PutSuIf, AvailableSu
    <2> QED
        BY <2>1, DataSet
<1>2. CASE ~(su < SuSize)
    <2>1. su > 0
        BY <1>2, SizesAssumption DEF TypeOK
    <2>2. tx' = "fetch" \/ tx_available
        BY <2>1 DEF DataSignalled
    <2>3. tx_available => tx_available'
        BY Zenon DEF PutSuIf, AvailableSu
    <2> QED
        BY <2>2, <2>3, DataSet
<1> QED
    BY <1>1, <1>2

\* Whether a service frame is queued or not, when nothing else changes the data.
LEMMA DataPutIf ==
  ASSUME TypeOK, DataSignalled, NEW b \in BOOLEAN, PutSuIf(b),
         tx # "fetch" \/ tx' = "fetch",
         b \/ UNCHANGED <<state, next_ns, frames>>
  PROVE  DataSignalled'
<1>1. CASE b = TRUE
    BY <1>1, DataPut
<1>2. CASE b = FALSE
    <2>1. su' = su /\ tx_available' = tx_available
        BY <1>2, Zenon DEF PutSuIf
    <2>2. HasData' => HasData
        BY <1>2, <2>1 DEF HasData, MaySendIFrames, NoIFrame
    <2> QED
        BY <2>1, <2>2, DataCalm
<1> QED
    BY <1>1, <1>2

\* Freeing a slot leaves no frame to send that was not there before.
LEMMA DataConfirm ==
  ASSUME TypeOK, DataSignalled, NEW i \in Slots, ConfirmSlot(i),
         UNCHANGED <<state, next_ns, su, tx, tx_available>>
  PROVE  DataSignalled'
<1>1. frames' = Free(frames, i)
    BY DEF ConfirmSlot
<1>2. NoIFrame(next_ns) => NoIFrame(next_ns)'
    BY <1>1 DEF NoIFrame, GetNextIsNull, Matches, Free, FreeSlot, TypeOK, Slots
<1>3. HasData' => HasData
    BY <1>2 DEF HasData, MaySendIFrames
<1> QED
    BY <1>3, DataCalm

LEMMA DataApp ==
  ASSUME TypeOK, DataInv, AppNext
  PROVE  DataSignalled'
<1> USE DEF DataInv
<1>1. ASSUME NEW t \in Threads, NEW i \in Slots, SendPut(t, i)
      PROVE  DataSignalled'
    BY <1>1, DataSet DEF SendPut
<1>2. ASSUME UNCHANGED <<state, window, su, tx_available, tx>>
      PROVE  DataSignalled'
    <2>1. HasData' => HasData
        BY <1>2 DEF HasData, MaySendIFrames, NoIFrame, window
    <2> QED
        BY <1>2, <2>1, DataCalm
<1>3. ASSUME NEW t \in Threads, NEW p \in Packets, SendWaitAccept(t, p)
      PROVE  DataSignalled'
    BY <1>2, <1>3 DEF SendWaitAccept
<1>4. ASSUME NEW t \in Threads, SendWaitSlot(t) \/ SendTimeout(t) \/ SendWrongFlag(t)
      PROVE  DataSignalled'
    BY <1>2, <1>4 DEF SendWaitSlot, SendTimeout, SendWrongFlag
<1>5. CASE SendUi \/ Disconnect
    BY <1>5, DataPut DEF SendUi, Disconnect, threads
<1> QED
    BY <1>1, <1>3, <1>4, <1>5 DEF AppNext

\* A link that is down has nothing but service frames to send.
LEMMA DataDown ==
  ASSUME DataSignalled, SwitchToDisconnected, UNCHANGED <<su, tx_available>>,
         tx # "fetch" \/ tx' = "fetch"
  PROVE  DataSignalled'
<1>1. state' = "DISCONNECTED"
    BY DEF SwitchToDisconnected
<1>2. HasData' => HasData
    BY <1>1 DEF HasData, MaySendIFrames
<1> QED
    BY <1>2, DataCalm

LEMMA DataTx ==
  ASSUME TypeOK, DataInv, TxNext
  PROVE  DataSignalled'
<1> USE DEF DataInv
<1>1. CASE TxGiveUp \/ TxNoKeepAlive
    BY <1>1, DataDown DEF TxGiveUp, TxNoKeepAlive, TxAt
<1>2. CASE TxRetry \/ TxFetchSu \/ TxFetchI
    BY <1>2, DataSet DEF TxRetry, TxFetchSu, TxFetchI
<1>3. CASE TxReadState \/ TxWaitPointPassed
    <2>1. UNCHANGED <<state, next_ns, frames, su, tx_available>> /\ tx # "fetch"
        BY <1>3 DEF TxReadState, TxWaitPointPassed, TxAt, window, events
    <2>2. HasData' => HasData
        BY <2>1 DEF HasData, MaySendIFrames, NoIFrame
    <2> QED
        BY <2>1, <2>2, DataCalm
<1>4. CASE TxWaitData
    <2>1. UNCHANGED <<state, next_ns, frames, su>> /\ tx = "wait"
        BY <1>4 DEF TxWaitData, TxAt, window
    <2>2. CASE tx_available
        BY <1>4, <2>2, DataSet DEF TxWaitData
    <2>3. CASE ~tx_available
        <3>1. ~HasData
            BY <2>1, <2>3 DEF DataSignalled, HasData
        <3>2. ~HasData'
            BY <2>1, <3>1 DEF HasData, MaySendIFrames, NoIFrame
        <3> QED
            BY <3>2, DataNone
    <2> QED
        BY <2>2, <2>3
<1>5. CASE TxSentSu
    <2>1. /\ UNCHANGED <<state, next_ns, frames, tx_available>>
          /\ su' = su - 1 /\ tx = "sending_su"
        BY <1>5 DEF TxSentSu, TxAt, window, events
    <2>2. su > 0
        BY <2>1 DEF TypeOK
    <2>3. HasData
        BY <2>2 DEF HasData
    <2> QED
        BY <2>1, <2>3, DataCalm
<1>6. CASE TxFetchSrej
    BY <1>6 DEF TxFetchSrej
<1>7. CASE TxFetchNothing
    <2>1. UNCHANGED <<state, next_ns, frames, su>>
        BY <1>7 DEF TxFetchNothing, window
    <2>2. ~HasData
        BY <1>7 DEF TxFetchNothing, HasData
    <2>3. ~HasData'
        BY <2>1, <2>2 DEF HasData, MaySendIFrames, NoIFrame
    <2> QED
        BY <2>3, DataNone
<1>8. ASSUME NEW b \in BOOLEAN, TxIdleCheck(b)
      PROVE  DataSignalled'
    BY <1>8, DataPutIf DEF TxIdleCheck, TxAt, window
<1>9. ASSUME NEW b \in BOOLEAN, TxConnectCheck(b)
      PROVE  DataSignalled'
    BY <1>9, DataPutIf DEF TxConnectCheck, TxAt, window
<1> QED
    BY <1>1, <1>2, <1>3, <1>4, <1>5, <1>6, <1>7, <1>8, <1>9 DEF TxNext

LEMMA DataRx ==
  ASSUME TypeOK, DataInv, RxNext
  PROVE  DataSignalled'
<1> USE DEF DataInv
<1>1. ASSUME SwitchToConnected, su' = su \/ su' = SuPut, tx' = tx, state # "CONNECTED"
      PROVE  DataSignalled'
    <2>1. tx_available'
        BY <1>1, Zenon DEF SwitchToConnected
    <2> QED
        BY <2>1, DataSet
<1>2. ASSUME UNCHANGED <<state, next_ns, frames, su, tx_available, tx>>
      PROVE  DataSignalled'
    <2>1. HasData' => HasData
        BY <1>2 DEF HasData, MaySendIFrames, NoIFrame
    <2> QED
        BY <1>2, <2>1, DataCalm
<1>3. ASSUME NEW i \in Slots, RxConfirm(i)
      PROVE  DataSignalled'
    BY <1>3, DataConfirm DEF RxConfirm, threads
<1>4. ASSUME NEW i \in Slots, RxCallback(i)
      PROVE  DataSignalled'
    BY <1>2, <1>4 DEF RxCallback, window, events
<1>5. CASE RxCallbackReturns
    <2>1. rx.slot \in Slots
        BY DEF TypeOK, RxType
    <2> QED
        BY <1>5, <2>1, DataConfirm DEF RxCallbackReturns
<1>6. CASE RxCannotConfirm
    BY <1>2, <1>6 DEF RxCannotConfirm, events, threads
<1>7. ASSUME NEW kind \in RemoteKinds, RxDown(kind)
      PROVE  DataSignalled'
    <2>1. /\ SwitchToDisconnected /\ tx' = tx
          /\ PutSuIf(TRUE) \/ UNCHANGED <<su, tx_available>>
        <3>1. PutSuIf(kind = "DISC") => PutSuIf(TRUE) \/ UNCHANGED <<su, tx_available>>
            BY Zenon DEF PutSuIf
        <3> QED
            BY <1>7, <3>1 DEF RxDown, threads
    <2> QED
        BY <2>1, DataDown, DataPut
<1>8. CASE RxSabmUp
    BY <1>8, DataPut DEF RxSabmUp
<1>9. CASE RxFrmr
    BY <1>9, DataDown DEF RxFrmr
<1>10. CASE RxSabm
    <2>1. CASE state # "CONNECTED"
        BY <1>1, <1>10, <2>1 DEF RxSabm
    <2>2. CASE state = "CONNECTED"
        BY <1>2, <1>10, <2>2 DEF RxSabm, SwitchToConnected, window, events
    <2> QED
        BY <2>1, <2>2
<1>11. CASE RxUa
    <2>1. /\ su' = su /\ tx' = tx
          /\ \/ state # "CONNECTED" /\ SwitchToConnected
             \/ SwitchToDisconnected /\ tx_available' = tx_available
        BY <1>11 DEF RxUa, threads
    <2> QED
        BY <1>1, <2>1, DataDown
<1>12. ASSUME NEW kind \in RemoteKinds, RxNotConnected(kind)
       PROVE  DataSignalled'
    BY <1>12, DataPut DEF RxNotConnected, threads
<1>13. ASSUME NEW kind \in RemoteKinds, NEW b \in BOOLEAN, RxUDisconnected(kind, b)
       PROVE  DataSignalled'
    BY <1>13, DataPutIf DEF RxUDisconnected, window, threads
<1>14. ASSUME NEW kind \in RemoteKinds, NEW nr \in SeqNums, NEW b \in BOOLEAN,
              RxNumbered(kind, nr, b)
       PROVE  DataSignalled'
    BY <1>14, DataPutIf DEF RxNumbered, window
<1>15. ASSUME NEW b \in BOOLEAN, RxEndRr(b) \/ RxReadReturns(b)
       PROVE  DataSignalled'
    BY <1>15, DataPutIf DEF RxEndRr, RxReadReturns, window
<1>16. CASE RxEndRej \/ RxEndSrej
    BY <1>16, DataSet DEF RxEndRej, RxEndSrej
<1>17. CASE RxEndI
    BY <1>2, <1>17 DEF RxEndI, window
<1>18. CASE RxFrmrReconnect \/ RxRset
    BY <1>18, DataPut DEF RxFrmrReconnect, RxRset, threads
<1> QED
    BY <1>3, <1>4, <1>5, <1>6, <1>7, <1>8, <1>9, <1>10, <1>11, <1>12, <1>13, <1>14, <1>15,
       <1>16, <1>17, <1>18 DEF RxNext

\* Without SREJ from the remote no selective request is ever recorded.
LEMMA NoRequest ==
  ASSUME NoSrej, TypeOK, DataInv, [Next]_vars
  PROVE  srej_req_mask' = {} /\ rx'.kind # "SREJ"
<1> USE DEF DataInv
<1>1. ASSUME AppNext PROVE UNCHANGED <<srej_req_mask, rx>>
    BY <1>1 DEF AppNext, SendWaitAccept, SendWaitSlot, SendTimeout, SendPut, SendWrongFlag,
       SendUi, Disconnect, window, threads
<1>2. ASSUME SwitchToConnected \/ SwitchToDisconnected PROVE srej_req_mask' = {}
    BY <1>2 DEF SwitchToConnected, SwitchToDisconnected, ResetTransmit, window
<1>3. ASSUME TxNext PROVE srej_req_mask' = {} /\ rx' = rx
    <2>1. CASE TxGiveUp \/ TxNoKeepAlive
        BY <1>2, <2>1 DEF TxGiveUp, TxNoKeepAlive
    <2>2. CASE ~(TxGiveUp \/ TxNoKeepAlive)
        BY <1>3, <2>2 DEF TxNext, TxReadState, TxRetry, TxIdleCheck, TxConnectCheck,
           TxWaitPointPassed, TxWaitData, TxFetchSu, TxSentSu, TxFetchSrej, TxFetchI,
           TxFetchNothing, window
    <2> QED
        BY <2>1, <2>2
<1>4. ASSUME RxNext PROVE srej_req_mask' = {}
    <2>1. ASSUME RxEndSrej PROVE FALSE
        BY <2>1 DEF RxEndSrej
    <2>2. CASE (\E kind \in RemoteKinds : RxDown(kind)) \/ RxSabmUp \/ RxFrmr \/ RxSabm \/ RxUa
        BY <1>2, <2>2 DEF RxDown, RxSabmUp, RxFrmr, RxSabm, RxUa
    <2>3. CASE ~((\E kind \in RemoteKinds : RxDown(kind)) \/ RxSabmUp \/ RxFrmr \/ RxSabm \/ RxUa)
        BY <1>4, <2>1, <2>3 DEF RxNext, RxNotConnected, RxNumbered, RxUDisconnected, RxConfirm,
           RxCallback, RxCallbackReturns, RxCannotConfirm, RxEndRr, RxEndRej, RxEndI,
           RxReadReturns, RxFrmrReconnect, RxRset, ResetTransmit, window
    <2> QED
        BY <2>2, <2>3
<1>5. ASSUME RxNext PROVE rx'.kind # "SREJ"
    <2>1. CASE \E kind \in RemoteKinds, nr \in SeqNums, rej \in BOOLEAN : RxNumbered(kind, nr, rej)
        BY <2>1 DEF RxNumbered, NoSrej
    <2>2. CASE (\E i \in Slots : RxCallback(i)) \/ RxCallbackReturns \/ RxEndI
        <3>1. ASSUME NEW i \in Slots, RxCallback(i) PROVE rx'.kind = rx.kind
            BY <3>1 DEF RxCallback, TypeOK, RxType
        <3>2. CASE RxCallbackReturns
            BY <3>2 DEF RxCallbackReturns, TypeOK, RxType
        <3>3. CASE RxEndI
            BY <3>3 DEF RxEndI, TypeOK, RxType, RxIdle
        <3> QED
            BY <2>2, <3>1, <3>2, <3>3
    <2>3. CASE RxSabmUp \/ RxFrmr
        BY <2>3 DEF RxSabmUp, RxFrmr, TypeOK, RxType
    <2>4. CASE rx' = rx \/ rx' = RxIdle
        BY <2>4 DEF RxIdle
    <2>5. CASE \E kind \in RemoteKinds, b \in BOOLEAN :
                 RxNotConnected(kind) \/ RxDown(kind) \/ RxUDisconnected(kind, b)
        BY <2>4, <2>5 DEF RxNotConnected, RxDown, RxUDisconnected, threads
    <2>6. CASE \E b \in BOOLEAN : RxEndRr(b) \/ RxReadReturns(b)
        BY <2>4, <2>6 DEF RxEndRr, RxReadReturns
    <2>7. CASE (\E i \in Slots : RxConfirm(i)) \/ RxCannotConfirm \/ RxUa \/ RxRset
        BY <2>4, <2>7 DEF RxConfirm, RxCannotConfirm, RxUa, RxRset, threads
    <2>8. CASE RxEndRej \/ RxEndSrej \/ RxFrmrReconnect \/ RxSabm
        BY <2>4, <2>8 DEF RxEndRej, RxEndSrej, RxFrmrReconnect, RxSabm
    <2> QED
        BY <1>5, <2>1, <2>2, <2>3, <2>5, <2>6, <2>7, <2>8 DEF RxNext
<1> QED
    BY <1>1, <1>3, <1>4, <1>5 DEF Next, vars, window, threads

\* The Tx thread never sleeps on data it could send: whatever order senders, timers
\* and received frames come in, FD_EVENT_TX_DATA_AVAILABLE is set when a service
\* frame or the next I-frame is queued, unless the Tx thread has just consumed the
\* event.  SREJ is excluded: a request for a frame that is gone uses up the event.
THEOREM DataAlwaysSignalled ==
  ASSUME NoSrej
  PROVE  Spec => []DataSignalled
<1>1. Init => DataInv
    <2> SUFFICES ASSUME Init PROVE DataInv
        OBVIOUS
    <2>1. ~HasData
        BY DEF Init, HasData, MaySendIFrames
    <2> QED
        BY <2>1 DEF Init, DataInv, DataSignalled, HasData, RxIdle
<1>2. TypeOK /\ DataInv /\ [Next]_vars => DataInv'
    <2> SUFFICES ASSUME TypeOK, DataInv, [Next]_vars PROVE DataInv'
        OBVIOUS
    <2>1. CASE Next
        BY <2>1, DataApp, DataTx, DataRx, NoRequest DEF Next, DataInv
    <2>2. CASE UNCHANGED vars
        <3>1. DataSignalled'
            BY <2>2 DEF DataInv, DataSignalled, MaySendIFrames, NoIFrame, vars, window, events, threads
        <3> QED
            BY <3>1, NoRequest DEF DataInv
    <2> QED
        BY <2>1, <2>2
<1>3. DataInv => DataSignalled
    BY DEF DataInv
<1> QED
    BY <1>1, <1>2, <1>3, TypeCorrect, PTL DEF Spec

-----------------------------------------------------------------------------
(***************************************************************************)
(* The window and the slots agree, for every window size and any number of  *)
(* application threads, as long as the mutex is not given up in the middle  *)
(* of a confirmation while another thread may reset the window (on_send_cb  *)
(* together with separate Rx and Tx threads), and the remote never resets   *)
(* the numbers without the queue (RSET).  Without either hypothesis TLC     *)
(* finds the agreement broken.  Then the window implements the FIFO of      *)
(* module TxFifo: its packets, read from the slots in the order of their    *)
(* numbers, change only by a packet appended at the end, the first one      *)
(* removed, or all of them dropped.                                         *)
(***************************************************************************)

OneMutexHolder == ~(OnSendCb /\ TwoThreads)

\* The inductive invariant: the property itself, what makes a callback's return
\* safe, and the types.
WindowInv ==
  /\ TypeOK
  /\ WindowMatchesSlots
  /\ CallbackOwnsSlot
  /\ rx.pc = "on_send_cb" => OnSendCb

-----------------------------------------------------------------------------
(* Windows of sequence numbers *)

LEMMA DistType ==
  ASSUME NEW a \in SeqNums, NEW b \in SeqNums
  PROVE  Dist(a, b) \in SeqNums /\ (Dist(a, b) = 0 <=> a = b)
BY SeqModAssumption DEF Dist, SeqNums

\* An empty window holds no number.
LEMMA EmptyWin == \A c, s \in SeqNums : ~InWin(c, c, s)
BY SeqModAssumption DEF InWin, Dist, SeqNums

\* A window that is not empty holds its first number.
LEMMA FirstInWin == \A c, l \in SeqNums : c # l => InWin(c, l, c)
BY SeqModAssumption DEF InWin, Dist, SeqNums

\* Accepting a packet adds exactly the number last_ns, unless the window is full.
LEMMA WinGrows ==
  ASSUME NEW c \in SeqNums, NEW l \in SeqNums, NEW s \in SeqNums,
         Dist(c, l) < SeqMod - 1
  PROVE  InWin(c, SeqNext(l), s) <=> (InWin(c, l, s) \/ s = l)
BY SeqModAssumption DEF InWin, Dist, SeqNums, SeqNext

\* Confirming a frame removes exactly the number confirm_ns.
LEMMA WinShrinks ==
  ASSUME NEW c \in SeqNums, NEW l \in SeqNums, NEW s \in SeqNums, c # l
  PROVE  InWin(SeqNext(c), l, s) <=> (InWin(c, l, s) /\ s # c)
BY SeqModAssumption DEF InWin, Dist, SeqNums, SeqNext

\* The numbers at two different offsets below SeqMod differ.
LEMMA OffsetFacts ==
  ASSUME NEW c \in SeqNums, NEW l \in SeqNums,
         NEW k \in 1 .. Dist(c, l), NEW m \in 1 .. Dist(c, l)
  PROVE  /\ Offset(c, k - 1) \in SeqNums
         /\ InWin(c, l, Offset(c, k - 1))
         /\ Offset(c, k - 1) = Offset(c, m - 1) => k = m
BY SeqModAssumption DEF Offset, InWin, Dist, SeqNums

-----------------------------------------------------------------------------
(* A free slot means the window holds fewer frames than there are slots, and *)
(* the numbers are not used up: the frames of the window sit in different    *)
(* slots, none of them in the free one.                                      *)

LEMMA RoomIfFree ==
  ASSUME TypeOK, WindowMatchesSlots, NEW i \in Slots, ~IsIFrame(i)
  PROVE  Dist(confirm_ns, last_ns) < Window /\ Dist(confirm_ns, last_ns) < SeqMod - 1
<1> DEFINE D == 1 .. Dist(confirm_ns, last_ns)
           Holder(k) == CHOOSE j \in Slots :
                          IsIFrame(j) /\ frames[j].arg = Offset(confirm_ns, k - 1)
           g == [k \in D |-> Holder(k)]
<1>1. confirm_ns \in SeqNums /\ last_ns \in SeqNums /\ Dist(confirm_ns, last_ns) \in Nat
    BY DistType DEF TypeOK, SeqNums
<1>2. \A k \in D : /\ Holder(k) \in Slots \ {i}
                   /\ frames[Holder(k)].arg = Offset(confirm_ns, k - 1)
    <2> TAKE k \in D
    <2>1. Offset(confirm_ns, k - 1) \in SeqNums
          /\ InWin(confirm_ns, last_ns, Offset(confirm_ns, k - 1))
        BY <1>1, OffsetFacts
    <2>2. \E j \in Slots : IsIFrame(j) /\ frames[j].arg = Offset(confirm_ns, k - 1)
        BY <2>1 DEF WindowMatchesSlots
    <2> QED
        BY <2>2
<1>3. g \in [D -> Slots \ {i}]
    BY <1>2
<1>4. IsFiniteSet(D) /\ Cardinality(D) = Dist(confirm_ns, last_ns)
    BY <1>1, FS_Interval
<1>5. IsFiniteSet(Slots) /\ Cardinality(Slots) = Window
    BY WindowAssumption, FS_Interval DEF Slots
<1>6. IsFiniteSet(Slots \ {i}) /\ Cardinality(Slots \ {i}) = Window - 1
    BY <1>5, FS_RemoveElement
<1>7. ASSUME Dist(confirm_ns, last_ns) >= Window PROVE FALSE
    <2>1. Cardinality(Slots \ {i}) < Cardinality(D)
        BY <1>1, <1>4, <1>6, <1>7, WindowAssumption, SeqModAssumption
    <2>2. PICK x \in D, y \in D : x # y /\ g[x] = g[y]
        <3> HIDE DEF D, g
        <3> QED BY <1>3, <1>4, <1>6, <2>1, FS_PigeonHole
    <2>3. Offset(confirm_ns, x - 1) = Offset(confirm_ns, y - 1)
        BY <1>2, <2>2
    <2> QED
        BY <1>1, <2>2, <2>3, OffsetFacts
<1> QED
    BY <1>1, <1>7, SeqModAssumption, WindowAssumption

-----------------------------------------------------------------------------
(* What the pieces of the actions do to the agreement. *)

LEMMA Undisturbed ==
  ASSUME WindowMatchesSlots, UNCHANGED <<confirm_ns, last_ns, frames>>
  PROVE  WindowMatchesSlots'
BY DEF WindowMatchesSlots, IsIFrame

\* A reset empties the window and the slots together.
LEMMA ResetMatches ==
  ASSUME TypeOK, ResetTransmit, FlushIQueue
  PROVE  WindowMatchesSlots'
<1>1. confirm_ns' = 0 /\ last_ns' = 0
    BY DEF ResetTransmit
<1>2. \A j \in Slots : frames'[j] = FreeSlot
    BY DEF FlushIQueue, ResetFor, TypeOK, SlotType, ISlot, FreeSlot, Slots
<1>3. \A j \in Slots : ~IsIFrame(j)'
    BY <1>2 DEF IsIFrame, FreeSlot
<1> QED
    BY <1>1, <1>3, EmptyWin, ZeroType DEF WindowMatchesSlots

LEMMA DownMatches ==
  ASSUME TypeOK, WindowMatchesSlots, SwitchToDisconnected
  PROVE  WindowMatchesSlots'
BY ResetMatches, Undisturbed DEF SwitchToDisconnected, window

LEMMA UpMatches ==
  ASSUME TypeOK, WindowMatchesSlots, SwitchToConnected
  PROVE  WindowMatchesSlots'
BY ResetMatches, Undisturbed DEF SwitchToConnected, window

\* The slot search finds the I-frame with the number asked for.
LEMMA FoundIsIFrame ==
  ASSUME NEW ns, NEW i, FoundIFrame(ns, i)
  PROVE  i \in Slots /\ IsIFrame(i) /\ frames[i].arg = ns
BY DEF FoundIFrame, GetNextIs, Matches, IsIFrame, Slots

\* A new packet goes into a free slot and takes the number after the last one.
LEMMA PutMatches ==
  ASSUME WindowInv, NEW t \in Threads, NEW i \in Slots, SendPut(t, i)
  PROVE  WindowMatchesSlots' /\ ~IsIFrame(i)
<1> USE DEF WindowInv
<1>1. ~IsIFrame(i)
    BY DEF SendPut, GetNextIs, Matches, IsIFrame
<1>2. Dist(confirm_ns, last_ns) < SeqMod - 1
    BY <1>1, RoomIfFree
<1>3. confirm_ns \in SeqNums /\ last_ns \in SeqNums
    BY DEF TypeOK
<1>4. confirm_ns' = confirm_ns /\ last_ns' = SeqNext(last_ns)
    BY DEF SendPut
<1>5. /\ IsIFrame(i)' /\ frames'[i].arg = last_ns
      /\ \A j \in Slots \ {i} : frames'[j] = frames[j]
    BY DEF SendPut, TypeOK, IsIFrame
<1>6. \A s \in SeqNums : InWin(confirm_ns', last_ns', s)
                           <=> (InWin(confirm_ns, last_ns, s) \/ s = last_ns)
    BY <1>2, <1>3, <1>4, WinGrows
<1>7. ~InWin(confirm_ns, last_ns, last_ns)
    BY <1>3, SeqModAssumption DEF InWin, Dist, SeqNums
<1>8. \A j \in Slots : IsIFrame(j) => frames[j].arg \in SeqNums
    BY DEF TypeOK, SlotType, ISlot, IsIFrame, FreeSlot
<1>9. \A j \in Slots \ {i} : IsIFrame(j)' <=> IsIFrame(j)
    BY <1>5 DEF IsIFrame
<1>10. \A s \in SeqNums : InWin(confirm_ns', last_ns', s) =>
         \E j \in Slots : IsIFrame(j)' /\ frames'[j].arg = s
    <2> SUFFICES ASSUME NEW s \in SeqNums, InWin(confirm_ns', last_ns', s)
                 PROVE  \E j \in Slots : IsIFrame(j)' /\ frames'[j].arg = s
        OBVIOUS
    <2>1. CASE s = last_ns
        BY <1>5, <2>1
    <2>2. CASE InWin(confirm_ns, last_ns, s)
        <3>1. PICK j \in Slots : IsIFrame(j) /\ frames[j].arg = s
            BY <2>2 DEF WindowMatchesSlots
        <3>2. j # i
            BY <1>1, <3>1
        <3> QED
            BY <1>5, <1>9, <3>1, <3>2
    <2> QED
        BY <1>6, <2>1, <2>2
<1>11. \A j \in Slots : IsIFrame(j)' => InWin(confirm_ns', last_ns', frames'[j].arg)
    BY <1>3, <1>5, <1>6, <1>8, <1>9 DEF WindowMatchesSlots
<1>12. \A j, k \in Slots : IsIFrame(j)' /\ IsIFrame(k)' /\ frames'[j].arg = frames'[k].arg => j = k
    BY <1>5, <1>7, <1>9 DEF WindowMatchesSlots
<1> QED
    BY <1>1, <1>10, <1>11, <1>12 DEF WindowMatchesSlots

\* Freeing the slot of the first unconfirmed frame and moving confirm_ns on.
LEMMA ConfirmMatches ==
  ASSUME WindowInv, NEW i \in Slots, IsIFrame(i), frames[i].arg = confirm_ns,
         confirm_ns # last_ns, ConfirmSlot(i), last_ns' = last_ns
  PROVE  WindowMatchesSlots'
<1> USE DEF WindowInv
<1>1. confirm_ns \in SeqNums /\ last_ns \in SeqNums
    BY DEF TypeOK
<1>2. \A s \in SeqNums : InWin(confirm_ns', last_ns', s)
                           <=> (InWin(confirm_ns, last_ns, s) /\ s # confirm_ns)
    BY <1>1, WinShrinks DEF ConfirmSlot
<1>3. ~IsIFrame(i)' /\ \A j \in Slots \ {i} : frames'[j] = frames[j]
    BY DEF ConfirmSlot, Free, TypeOK, IsIFrame, FreeSlot
<1>4. \A j \in Slots : IsIFrame(j)' <=> (IsIFrame(j) /\ j # i)
    BY <1>3 DEF IsIFrame
<1>5. \A j \in Slots : IsIFrame(j) => frames[j].arg \in SeqNums
    BY DEF TypeOK, SlotType, ISlot, IsIFrame, FreeSlot
<1>6. \A s \in SeqNums : InWin(confirm_ns', last_ns', s) =>
        \E j \in Slots : IsIFrame(j)' /\ frames'[j].arg = s
    <2> SUFFICES ASSUME NEW s \in SeqNums, InWin(confirm_ns', last_ns', s)
                 PROVE  \E j \in Slots : IsIFrame(j)' /\ frames'[j].arg = s
        OBVIOUS
    <2>1. PICK j \in Slots : IsIFrame(j) /\ frames[j].arg = s
        BY <1>2 DEF WindowMatchesSlots
    <2>2. j # i
        BY <1>2, <2>1
    <2> QED
        BY <1>3, <1>4, <2>1, <2>2
<1>7. \A j \in Slots : IsIFrame(j)' => InWin(confirm_ns', last_ns', frames'[j].arg)
    BY <1>2, <1>3, <1>4, <1>5 DEF WindowMatchesSlots
<1>8. \A j, k \in Slots : IsIFrame(j)' /\ IsIFrame(k)' /\ frames'[j].arg = frames'[k].arg => j = k
    BY <1>3, <1>4 DEF WindowMatchesSlots
<1> QED
    BY <1>6, <1>7, <1>8 DEF WindowMatchesSlots

-----------------------------------------------------------------------------
(* The invariant is inductive. *)

LEMMA WindowInit == Init => WindowInv
<1> SUFFICES ASSUME Init PROVE WindowInv
    OBVIOUS
<1>1. \A j \in Slots : ~IsIFrame(j)
    BY DEF Init, QueueReset, Slots, IsIFrame, FreeSlot
<1>2. WindowMatchesSlots
    BY <1>1, EmptyWin, ZeroType DEF Init, WindowMatchesSlots
<1> QED
    BY <1>2, TypeInit DEF Init, WindowInv, CallbackOwnsSlot, RxIdle

\* A step that leaves the window alone and does not enter on_send_cb.
LEMMA CalmStep ==
  ASSUME WindowInv, TypeOK', UNCHANGED <<confirm_ns, last_ns, frames>>,
         rx' = rx \/ rx'.pc # "on_send_cb"
  PROVE  WindowInv'
BY Undisturbed DEF WindowInv, CallbackOwnsSlot, HasUnconfirmedFrames, IsIFrame

\* A step that resets the window, or not, outside on_send_cb.
LEMMA ResetStep ==
  ASSUME WindowInv, TypeOK', SwitchToDisconnected \/ SwitchToConnected,
         rx'.pc # "on_send_cb"
  PROVE  WindowInv'
BY DownMatches, UpMatches DEF WindowInv, CallbackOwnsSlot

LEMMA AppWindow ==
  ASSUME WindowInv, TypeOK', AppNext
  PROVE  WindowInv'
<1>1. ASSUME NEW t \in Threads, NEW i \in Slots, SendPut(t, i)
      PROVE  WindowInv'
    <2>1. WindowMatchesSlots' /\ ~IsIFrame(i)
        BY <1>1, PutMatches
    <2>2. rx' = rx /\ confirm_ns' = confirm_ns /\ last_ns' = SeqNext(last_ns)
          /\ \A j \in Slots \ {i} : frames'[j] = frames[j]
        BY <1>1 DEF SendPut, WindowInv, TypeOK
    <2>3. ASSUME rx.pc = "on_send_cb"
          PROVE  (HasUnconfirmedFrames /\ IsIFrame(rx.slot) /\ frames[rx.slot].arg = confirm_ns)'
        <3>1. rx.slot \in Slots \ {i} /\ IsIFrame(rx.slot) /\ frames[rx.slot].arg = confirm_ns
            BY <2>1, <2>3 DEF WindowInv, CallbackOwnsSlot, TypeOK, RxType
        <3>2. IsIFrame(rx.slot)' /\ frames'[rx.slot].arg = confirm_ns'
            BY <2>2, <3>1 DEF IsIFrame
        <3>3. confirm_ns' # last_ns'
            <4>1. InWin(confirm_ns', last_ns', confirm_ns')
                BY <2>1, <2>2, <3>1, <3>2 DEF WindowMatchesSlots
            <4> QED
                BY <4>1, EmptyWin DEF TypeOK
        <3> QED
            BY <2>2, <3>2, <3>3 DEF HasUnconfirmedFrames, IsIFrame
    <2> QED
        BY <2>1, <2>2, <2>3 DEF WindowInv, CallbackOwnsSlot
<1>2. ASSUME NEW t \in Threads, NEW p \in Packets, SendWaitAccept(t, p)
      PROVE  WindowInv'
    BY <1>2, CalmStep DEF SendWaitAccept, window
<1>3. ASSUME NEW t \in Threads, SendWaitSlot(t) \/ SendTimeout(t) \/ SendWrongFlag(t)
      PROVE  WindowInv'
    BY <1>3, CalmStep DEF SendWaitSlot, SendTimeout, SendWrongFlag, window
<1>4. CASE SendUi \/ Disconnect
    BY <1>4, CalmStep DEF SendUi, Disconnect, window, threads
<1> QED
    BY <1>1, <1>2, <1>3, <1>4 DEF AppNext

\* With one thread at a time the Tx side never runs inside on_send_cb.
LEMMA TxWindow ==
  ASSUME OneMutexHolder, WindowInv, TypeOK', TxNext
  PROVE  WindowInv'
<1>1. CASE TxGiveUp \/ TxNoKeepAlive
    <2>1. rx' = rx /\ TxTurn /\ SwitchToDisconnected
        BY <1>1 DEF TxGiveUp, TxNoKeepAlive, TxAt
    <2>2. rx.pc # "on_send_cb"
        BY <2>1 DEF TxTurn, OneMutexHolder, WindowInv
    <2> QED
        BY <2>1, <2>2, ResetStep
<1>2. CASE TxReadState \/ TxRetry \/ TxWaitPointPassed \/ TxWaitData \/ TxFetchSu \/ TxSentSu
           \/ TxFetchSrej \/ TxFetchI \/ TxFetchNothing
    BY <1>2, CalmStep DEF TxReadState, TxRetry, TxWaitPointPassed, TxWaitData, TxFetchSu,
       TxSentSu, TxFetchSrej, TxFetchI, TxFetchNothing, window
<1>3. ASSUME NEW b \in BOOLEAN, TxIdleCheck(b) \/ TxConnectCheck(b)
      PROVE  WindowInv'
    BY <1>3, CalmStep DEF TxIdleCheck, TxConnectCheck, window
<1> QED
    BY <1>1, <1>2, <1>3 DEF TxNext

LEMMA NoCannotConfirm ==
  ASSUME WindowInv, RxCannotConfirm
  PROVE  FALSE
<1>1. confirm_ns # last_ns /\ NoIFrame(confirm_ns)
    BY DEF RxCannotConfirm, LoopDone, HasUnconfirmedFrames
<1>2. InWin(confirm_ns, last_ns, confirm_ns) /\ confirm_ns \in SeqNums
    BY <1>1, FirstInWin DEF WindowInv, TypeOK
<1>3. PICK i \in Slots : IsIFrame(i) /\ frames[i].arg = confirm_ns
    BY <1>2 DEF WindowInv, WindowMatchesSlots
<1>4. frames[i].address = Addr
    BY <1>3 DEF WindowInv, TypeOK, SlotType, ISlot, FreeSlot, IsIFrame
<1> QED
    BY <1>1, <1>3, <1>4 DEF NoIFrame, GetNextIsNull, Matches, IsIFrame, Slots

LEMMA RxWindow ==
  ASSUME NoRset, WindowInv, TypeOK', RxNext
  PROVE  WindowInv'
<1>1. ASSUME NEW i \in Slots, RxConfirm(i)
      PROVE  WindowInv'
    <2>1. IsIFrame(i) /\ frames[i].arg = confirm_ns /\ confirm_ns # last_ns
        BY <1>1, FoundIsIFrame DEF RxConfirm, LoopDone, HasUnconfirmedFrames
    <2>2. WindowMatchesSlots'
        BY <1>1, <2>1, ConfirmMatches DEF RxConfirm
    <2> QED
        BY <1>1, <2>2 DEF WindowInv, CallbackOwnsSlot, RxConfirm, threads
<1>2. ASSUME NEW i \in Slots, RxCallback(i)
      PROVE  WindowInv'
    <2>1. IsIFrame(i) /\ frames[i].arg = confirm_ns /\ confirm_ns # last_ns /\ OnSendCb
        BY <1>2, FoundIsIFrame DEF RxCallback, LoopDone, HasUnconfirmedFrames
    <2>2. rx'.slot = i /\ UNCHANGED <<confirm_ns, last_ns, frames>>
        BY <1>2 DEF RxCallback, window, WindowInv, TypeOK, RxType
    <2>3. WindowMatchesSlots'
        BY <2>2, Undisturbed DEF WindowInv
    <2> QED
        BY <2>1, <2>2, <2>3 DEF WindowInv, CallbackOwnsSlot, HasUnconfirmedFrames, IsIFrame
<1>3. CASE RxCallbackReturns
    <2>1. /\ rx.slot \in Slots /\ IsIFrame(rx.slot) /\ frames[rx.slot].arg = confirm_ns
          /\ confirm_ns # last_ns
        BY <1>3 DEF RxCallbackReturns, WindowInv, CallbackOwnsSlot, HasUnconfirmedFrames,
           TypeOK, RxType
    <2>2. WindowMatchesSlots'
        BY <1>3, <2>1, ConfirmMatches DEF RxCallbackReturns
    <2>3. rx'.pc = "confirm"
        BY <1>3 DEF RxCallbackReturns, WindowInv, TypeOK, RxType
    <2> QED
        BY <2>2, <2>3 DEF WindowInv, CallbackOwnsSlot
<1>4. CASE RxCannotConfirm
    BY <1>4, NoCannotConfirm
<1>5. CASE RxRset
    BY <1>5 DEF RxRset, RxStart, NoRset
<1>6. ASSUME NEW kind \in RemoteKinds, RxDown(kind)
      PROVE  WindowInv'
    BY <1>6, ResetStep DEF RxDown, RxStart, threads
<1>7. CASE RxSabmUp \/ RxFrmr
    <2>1. rx'.pc = "on_connect_cb" /\ SwitchToDisconnected
        BY <1>7 DEF RxSabmUp, RxFrmr, WindowInv, TypeOK, RxType
    <2> QED
        BY <2>1, ResetStep
<1>8. CASE RxSabm
    BY <1>8, ResetStep DEF RxSabm, RxIdle
<1>9. CASE RxUa
    BY <1>9, ResetStep DEF RxUa, RxStart, threads
<1>10. ASSUME NEW kind \in RemoteKinds, RxNotConnected(kind)
       PROVE  WindowInv'
    BY <1>10, CalmStep DEF RxNotConnected, window, threads
<1>11. ASSUME NEW kind \in RemoteKinds, NEW nr \in SeqNums, NEW rej \in BOOLEAN,
              RxNumbered(kind, nr, rej)
       PROVE  WindowInv'
    BY <1>11, CalmStep DEF RxNumbered, window
<1>12. ASSUME NEW kind \in RemoteKinds, NEW command \in BOOLEAN, RxUDisconnected(kind, command)
       PROVE  WindowInv'
    BY <1>12, CalmStep DEF RxUDisconnected, window, threads
<1>13. ASSUME NEW b \in BOOLEAN, RxEndRr(b) \/ RxReadReturns(b)
       PROVE  WindowInv'
    BY <1>13, CalmStep DEF RxEndRr, RxReadReturns, window, RxIdle
<1>14. CASE RxEndRej \/ RxEndSrej \/ RxFrmrReconnect
    <2>1. rx' = RxIdle /\ UNCHANGED <<confirm_ns, last_ns, frames>>
        BY <1>14 DEF RxEndRej, RxEndSrej, RxFrmrReconnect, window
    <2> QED
        BY <2>1, CalmStep DEF RxIdle
<1>15. CASE RxEndI
    <2>1. rx'.pc # "on_send_cb"
        BY <1>15 DEF RxEndI, RxIdle, WindowInv, TypeOK, RxType
    <2> QED
        BY <1>15, <2>1, CalmStep DEF RxEndI, window
<1> QED
    BY <1>1, <1>2, <1>3, <1>4, <1>5, <1>6, <1>7, <1>8, <1>9, <1>10, <1>11, <1>12, <1>13,
       <1>14, <1>15 DEF RxNext

LEMMA WindowStep ==
  ASSUME OneMutexHolder, NoRset, WindowInv, [Next]_vars
  PROVE  WindowInv'
<1>1. TypeOK'
    BY TypeStep DEF WindowInv
<1>2. CASE Next
    BY <1>1, <1>2, AppWindow, TxWindow, RxWindow DEF Next
<1>3. CASE UNCHANGED vars
    BY <1>1, <1>3, CalmStep DEF vars, window, threads
<1> QED
    BY <1>2, <1>3

LEMMA WindowInvariant ==
  ASSUME OneMutexHolder, NoRset
  PROVE  Spec => []WindowInv
<1>1. Init => WindowInv
    BY WindowInit
<1>2. WindowInv /\ [Next]_vars => WindowInv'
    BY WindowStep
<1> QED
    BY <1>1, <1>2, PTL DEF Spec

\* The numbers of the window and the slots agree in every reachable state: the
\* numbers the transmitter may send or confirm are exactly those of the frames
\* in i_queue, each in one slot, for every window_frames the code accepts.
THEOREM WindowAlwaysMatchesSlots ==
  ASSUME OneMutexHolder, NoRset
  PROVE  Spec => []WindowMatchesSlots
<1>1. WindowInv => WindowMatchesSlots
    BY DEF WindowInv
<1> QED
    BY <1>1, WindowInvariant, PTL

\* While on_send_cb runs without the mutex, the slot it was given stays the slot
\* of the first unconfirmed frame.
THEOREM CallbackAlwaysOwnsSlot ==
  ASSUME OneMutexHolder, NoRset
  PROVE  Spec => []CallbackOwnsSlot
<1>1. WindowInv => CallbackOwnsSlot
    BY DEF WindowInv
<1> QED
    BY <1>1, WindowInvariant, PTL

\* "This should never happen !!!" in __i_queue_control_confirm_sent_frames never
\* does: whatever N(R) the remote sends, every frame the loop confirms has a slot.
THEOREM CannotConfirmNeverTaken ==
  ASSUME OneMutexHolder, NoRset
  PROVE  Spec => NeverCannotConfirm
<1>1. WindowInv /\ [Next]_vars => [~RxCannotConfirm]_vars
    BY NoCannotConfirm
<1> QED
    BY <1>1, WindowInvariant, PTL DEF Spec, NeverCannotConfirm

-----------------------------------------------------------------------------
(* Sequences given as functions *)

LEMMA FunctionIsSeq ==
  ASSUME NEW S, NEW n \in Nat, NEW q \in [1 .. n -> S]
  PROVE  q \in Seq(S) /\ Len(q) = n
BY SeqDef

LEMMA IsAppend ==
  ASSUME NEW S, NEW n \in Nat, NEW q \in [1 .. n -> S], NEW r \in [1 .. n + 1 -> S],
         \A k \in 1 .. n : r[k] = q[k]
  PROVE  r = Append(q, r[n + 1])
<1>1. q \in Seq(S) /\ Len(q) = n /\ r \in Seq(S) /\ Len(r) = n + 1
    BY FunctionIsSeq
<1>2. r[n + 1] \in S
    OBVIOUS
<1>3. /\ Append(q, r[n + 1]) \in Seq(S)
      /\ Len(Append(q, r[n + 1])) = n + 1
      /\ \A k \in 1 .. n : Append(q, r[n + 1])[k] = q[k]
      /\ Append(q, r[n + 1])[n + 1] = r[n + 1]
    BY <1>1, <1>2, AppendProperties
<1>4. \A k \in 1 .. n + 1 : Append(q, r[n + 1])[k] = r[k]
    BY <1>3
<1> QED
    BY <1>1, <1>3, <1>4, SeqEqual

LEMMA IsTail ==
  ASSUME NEW S, NEW n \in Nat, NEW q \in [1 .. n + 1 -> S], NEW r \in [1 .. n -> S],
         \A k \in 1 .. n : r[k] = q[k + 1]
  PROVE  q # <<>> /\ r = Tail(q)
<1>1. q \in Seq(S) /\ Len(q) = n + 1 /\ r \in Seq(S) /\ Len(r) = n
    BY FunctionIsSeq
<1>2. q # <<>>
    BY <1>1, EmptySeq
<1>3. /\ Tail(q) \in Seq(S) /\ Len(Tail(q)) = n
      /\ \A k \in 1 .. n : Tail(q)[k] = q[k + 1]
    BY <1>1, <1>2, HeadTailProperties
<1> QED
    BY <1>1, <1>2, <1>3, SeqEqual

-----------------------------------------------------------------------------
(* The packets of the window *)

\* The packet with the number of an occupied slot is the one in that slot.
PacketInSlot ==
  \A i \in Slots : \A ns : IsIFrame(i) /\ frames[i].arg = ns =>
    PacketAt(ns) = frames[i].data /\ frames[i].data \in Packets

LEMMA PacketsInSlots == WindowInv => PacketInSlot
<1> SUFFICES ASSUME WindowInv, NEW i \in Slots, NEW ns, IsIFrame(i), frames[i].arg = ns
             PROVE  PacketAt(ns) = frames[i].data /\ frames[i].data \in Packets
    BY DEF PacketInSlot
<1>1. \A j \in Slots : IsIFrame(j) /\ frames[j].arg = ns => j = i
    BY DEF WindowInv, WindowMatchesSlots
<1>2. (CHOOSE j \in Slots : IsIFrame(j) /\ frames[j].arg = ns) = i
    BY <1>1
<1>3. PacketAt(ns) = frames[i].data
    BY <1>2 DEF PacketAt
<1>4. frames[i] \in ISlot
    BY DEF WindowInv, TypeOK, SlotType, FreeSlot, IsIFrame
<1> QED
    BY <1>3, <1>4 DEF ISlot

\* Every position of the window has its slot.
LEMMA SlotOfPosition ==
  WindowInv => \A k \in 1 .. Dist(confirm_ns, last_ns) : \E j \in Slots :
                 IsIFrame(j) /\ frames[j].arg = Offset(confirm_ns, k - 1)
<1> SUFFICES ASSUME WindowInv, NEW k \in 1 .. Dist(confirm_ns, last_ns)
             PROVE  \E j \in Slots : IsIFrame(j) /\ frames[j].arg = Offset(confirm_ns, k - 1)
    OBVIOUS
<1>1. confirm_ns \in SeqNums /\ last_ns \in SeqNums
    BY DEF WindowInv, TypeOK
<1>2. Offset(confirm_ns, k - 1) \in SeqNums
      /\ InWin(confirm_ns, last_ns, Offset(confirm_ns, k - 1))
    BY <1>1, OffsetFacts
<1> QED
    BY <1>2 DEF WindowInv, WindowMatchesSlots

QueueIsOfPackets ==
  /\ Dist(confirm_ns, last_ns) \in Nat
  /\ Queue \in [1 .. Dist(confirm_ns, last_ns) -> Packets]

LEMMA QueueType == WindowInv => QueueIsOfPackets
<1> SUFFICES ASSUME WindowInv PROVE QueueIsOfPackets
    OBVIOUS
<1>1. \A k \in 1 .. Dist(confirm_ns, last_ns) : PacketAt(Offset(confirm_ns, k - 1)) \in Packets
    BY SlotOfPosition, PacketsInSlots DEF PacketInSlot
<1>2. Dist(confirm_ns, last_ns) \in Nat
    BY DistType DEF WindowInv, TypeOK, SeqNums
<1> QED
    BY <1>1, <1>2 DEF Queue, QueueIsOfPackets

\* Both hold after a step that keeps the invariant.
LEMMA AfterStep ==
  ASSUME WindowInv'
  PROVE  PacketInSlot' /\ QueueIsOfPackets'
<1>1. WindowInv' => PacketInSlot' /\ QueueIsOfPackets'
    BY PacketsInSlots, QueueType, PTL
<1> QED
    BY <1>1

\* A packet whose slot is not touched keeps its number.
LEMMA PacketStays ==
  ASSUME WindowInv, WindowInv', NEW j \in Slots, NEW ns,
         IsIFrame(j), frames[j].arg = ns, frames'[j] = frames[j]
  PROVE  PacketAt(ns)' = PacketAt(ns)
<1>1. IsIFrame(j)' /\ frames'[j].arg = ns
    BY DEF IsIFrame
<1>2. PacketAt(ns)' = frames'[j].data
    BY <1>1, AfterStep DEF PacketInSlot
<1>3. PacketAt(ns) = frames[j].data
    BY PacketsInSlots DEF PacketInSlot
<1> QED
    BY <1>2, <1>3

-----------------------------------------------------------------------------
(* The steps of the FIFO *)

\* A packet accepted is appended.
LEMMA PutIsAppend ==
  ASSUME WindowInv, WindowInv', NEW t \in Threads, NEW i \in Slots, SendPut(t, i)
  PROVE  Fifo!Put(app[t].packet) /\ app[t].packet \in Packets
<1> DEFINE n == Dist(confirm_ns, last_ns)
<1>1. ~IsIFrame(i)
    BY PutMatches
<1>2. n < Window /\ n < SeqMod - 1
    BY <1>1, RoomIfFree DEF WindowInv
<1>3. confirm_ns \in SeqNums /\ last_ns \in SeqNums
    BY DEF WindowInv, TypeOK
<1>4. confirm_ns' = confirm_ns /\ last_ns' = SeqNext(last_ns)
    BY DEF SendPut
<1>5. Dist(confirm_ns', last_ns') = n + 1 /\ Offset(confirm_ns, (n + 1) - 1) = last_ns
    BY <1>2, <1>3, <1>4, SeqModAssumption DEF Dist, SeqNext, SeqNums, Offset
<1>6. /\ n \in Nat /\ Queue \in [1 .. n -> Packets]
      /\ Queue' \in [1 .. n + 1 -> Packets]
    BY <1>5, QueueType, AfterStep DEF QueueIsOfPackets
<1>7. \A k \in 1 .. n + 1 : \A ns : ns = Offset(confirm_ns, k - 1) => Queue'[k] = PacketAt(ns)'
    BY <1>4, <1>5, <1>6 DEF Queue, Offset
<1>8. \A k \in 1 .. n : Queue'[k] = Queue[k]
    <2> SUFFICES ASSUME NEW k \in 1 .. n PROVE Queue'[k] = Queue[k]
        OBVIOUS
    <2>1. PICK j \in Slots : IsIFrame(j) /\ frames[j].arg = Offset(confirm_ns, k - 1)
        BY SlotOfPosition
    <2>2. frames'[j] = frames[j]
        BY <1>1, <2>1 DEF SendPut, WindowInv, TypeOK
    <2>3. \A ns : ns = Offset(confirm_ns, k - 1) => PacketAt(ns)' = PacketAt(ns)
        BY <2>1, <2>2, PacketStays
    <2> QED
        BY <1>6, <1>7, <2>3 DEF Queue
<1>9. Queue'[n + 1] = app[t].packet /\ app[t].packet \in Packets
    <2>1. IsIFrame(i)' /\ frames'[i].arg = last_ns /\ frames'[i].data = app[t].packet
        BY DEF SendPut, IsIFrame, WindowInv, TypeOK
    <2>2. \A ns : ns = last_ns => PacketAt(ns)' = app[t].packet
        BY <2>1, AfterStep DEF PacketInSlot
    <2>3. app[t].packet \in Packets
        BY DEF WindowInv, TypeOK, AppType
    <2>4. \A ns : ns = last_ns => Queue'[n + 1] = PacketAt(ns)'
        BY <1>5, <1>6, <1>7
    <2> QED
        BY <2>2, <2>3, <2>4
<1>10. Queue' = Append(Queue, app[t].packet) /\ Len(Queue) = n
    <2> HIDE DEF n
    <2> QED
        BY <1>6, <1>8, <1>9, IsAppend, FunctionIsSeq
<1> QED
    BY <1>2, <1>9, <1>10 DEF Fifo!Put

\* Confirming the first frame of the window removes the first packet.
LEMMA ConfirmIsTail ==
  ASSUME WindowInv, WindowInv', NEW i \in Slots, IsIFrame(i), frames[i].arg = confirm_ns,
         confirm_ns # last_ns, ConfirmSlot(i), last_ns' = last_ns
  PROVE  Fifo!Get
<1> DEFINE n == Dist(confirm_ns', last_ns')
<1>1. confirm_ns \in SeqNums /\ last_ns \in SeqNums
    BY DEF WindowInv, TypeOK
<1>2. confirm_ns' = SeqNext(confirm_ns)
    BY DEF ConfirmSlot
<1>3. /\ Dist(confirm_ns, last_ns) = n + 1
      /\ \A k \in 1 .. n : /\ Offset(confirm_ns', k - 1) = Offset(confirm_ns, (k + 1) - 1)
                           /\ Offset(confirm_ns, (k + 1) - 1) # confirm_ns
    BY <1>1, <1>2, SeqModAssumption DEF Dist, SeqNext, SeqNums, Offset
<1>4. /\ n \in Nat /\ Queue' \in [1 .. n -> Packets]
      /\ Queue \in [1 .. n + 1 -> Packets]
    BY <1>3, QueueType, AfterStep DEF QueueIsOfPackets
<1>5. \A k \in 1 .. n : Queue'[k] = Queue[k + 1]
    <2> SUFFICES ASSUME NEW k \in 1 .. n PROVE Queue'[k] = Queue[k + 1]
        OBVIOUS
    <2>1. k + 1 \in 1 .. Dist(confirm_ns, last_ns)
        BY <1>3, <1>4
    <2>2. PICK j \in Slots : IsIFrame(j) /\ frames[j].arg = Offset(confirm_ns, (k + 1) - 1)
        BY <2>1, SlotOfPosition
    <2>3. j # i
        BY <1>3, <2>2
    <2>4. frames'[j] = frames[j]
        BY <2>3 DEF ConfirmSlot, Free, WindowInv, TypeOK
    <2>5. \A ns : ns = Offset(confirm_ns, (k + 1) - 1) => PacketAt(ns)' = PacketAt(ns)
        BY <2>2, <2>4, PacketStays
    <2>6. \A ns : ns = Offset(confirm_ns', k - 1) => Queue'[k] = PacketAt(ns)'
        BY DEF Queue
    <2>7. Queue[k + 1] = PacketAt(Offset(confirm_ns, (k + 1) - 1))
        BY <2>1 DEF Queue
    <2> QED
        BY <1>3, <2>5, <2>6, <2>7
<1>6. Queue # <<>> /\ Queue' = Tail(Queue)
    <2> HIDE DEF n
    <2> QED
        BY <1>4, <1>5, IsTail
<1> QED
    BY <1>6 DEF Fifo!Get

\* A step that leaves window and slots alone is a stuttering step.
LEMMA CalmStutters ==
  ASSUME UNCHANGED <<confirm_ns, last_ns, frames>>
  PROVE  Queue' = Queue
<1>1. \A ns : PacketAt(ns)' = PacketAt(ns)
    BY DEF PacketAt, IsIFrame
<1> QED
    BY <1>1 DEF Queue, Offset

\* A state switch drops all packets, or changes nothing.
LEMMA SwitchFlushes ==
  ASSUME SwitchToConnected \/ SwitchToDisconnected
  PROVE  Fifo!Flush \/ Queue' = Queue
<1>1. CASE ResetTransmit
    <2>1. Dist(confirm_ns', last_ns') = 0
        BY <1>1 DEF ResetTransmit, Dist
    <2>2. Queue' = <<>>
        BY <2>1 DEF Queue
    <2> QED
        BY <2>2 DEF Fifo!Flush
<1>2. CASE UNCHANGED window
    BY <1>2, CalmStutters DEF window
<1> QED
    BY <1>1, <1>2 DEF SwitchToConnected, SwitchToDisconnected

LEMMA FifoApp ==
  ASSUME WindowInv, WindowInv', AppNext
  PROVE  Fifo!Next \/ Queue' = Queue
<1>1. ASSUME NEW t \in Threads, NEW i \in Slots, SendPut(t, i)
      PROVE  Fifo!Next
    BY <1>1, PutIsAppend DEF Fifo!Next
<1>2. ASSUME NEW t \in Threads, NEW p \in Packets, SendWaitAccept(t, p)
      PROVE  Queue' = Queue
    BY <1>2, CalmStutters DEF SendWaitAccept, window
<1>3. ASSUME NEW t \in Threads, SendWaitSlot(t) \/ SendTimeout(t) \/ SendWrongFlag(t)
      PROVE  Queue' = Queue
    BY <1>3, CalmStutters DEF SendWaitSlot, SendTimeout, SendWrongFlag, window
<1>4. CASE SendUi \/ Disconnect
    BY <1>4, CalmStutters DEF SendUi, Disconnect, window
<1> QED
    BY <1>1, <1>2, <1>3, <1>4 DEF AppNext

LEMMA FifoTx ==
  ASSUME TxNext
  PROVE  Fifo!Flush \/ Queue' = Queue
<1>1. CASE TxGiveUp \/ TxNoKeepAlive
    BY <1>1, SwitchFlushes DEF TxGiveUp, TxNoKeepAlive
<1>2. CASE TxReadState \/ TxRetry \/ TxWaitPointPassed \/ TxWaitData \/ TxFetchSu \/ TxSentSu
           \/ TxFetchSrej \/ TxFetchI \/ TxFetchNothing
    BY <1>2, CalmStutters DEF TxReadState, TxRetry, TxWaitPointPassed, TxWaitData, TxFetchSu,
       TxSentSu, TxFetchSrej, TxFetchI, TxFetchNothing, window
<1>3. ASSUME NEW b \in BOOLEAN, TxIdleCheck(b) \/ TxConnectCheck(b)
      PROVE  Queue' = Queue
    BY <1>3, CalmStutters DEF TxIdleCheck, TxConnectCheck, window
<1> QED
    BY <1>1, <1>2, <1>3 DEF TxNext

LEMMA FifoRx ==
  ASSUME NoRset, WindowInv, WindowInv', RxNext
  PROVE  Fifo!Next \/ Fifo!Flush \/ Queue' = Queue
<1>1. ASSUME NEW i \in Slots, RxConfirm(i)
      PROVE  Fifo!Get
    <2>1. IsIFrame(i) /\ frames[i].arg = confirm_ns /\ confirm_ns # last_ns
        BY <1>1, FoundIsIFrame DEF RxConfirm, LoopDone, HasUnconfirmedFrames
    <2> QED
        BY <1>1, <2>1, ConfirmIsTail DEF RxConfirm
<1>2. CASE RxCallbackReturns
    <2>1. /\ rx.slot \in Slots /\ IsIFrame(rx.slot) /\ frames[rx.slot].arg = confirm_ns
          /\ confirm_ns # last_ns
        BY <1>2 DEF RxCallbackReturns, WindowInv, CallbackOwnsSlot, HasUnconfirmedFrames,
           TypeOK, RxType
    <2>2. Fifo!Get
        BY <1>2, <2>1, ConfirmIsTail DEF RxCallbackReturns
    <2> QED
        BY <2>2 DEF Fifo!Next
<1>3. CASE RxCannotConfirm
    BY <1>3, NoCannotConfirm
<1>4. CASE RxRset
    BY <1>4 DEF RxRset, RxStart, NoRset
<1>5. CASE \E kind \in RemoteKinds : RxDown(kind)
    BY <1>5, SwitchFlushes DEF RxDown
<1>6. CASE RxSabmUp \/ RxFrmr \/ RxSabm \/ RxUa
    BY <1>6, SwitchFlushes DEF RxSabmUp, RxFrmr, RxSabm, RxUa
<1>7. ASSUME NEW kind \in RemoteKinds, NEW nr, NEW b,
             RxNotConnected(kind) \/ RxNumbered(kind, nr, b) \/ RxUDisconnected(kind, b)
      PROVE  Queue' = Queue
    BY <1>7, CalmStutters DEF RxNotConnected, RxNumbered, RxUDisconnected, window
<1>8. ASSUME NEW i \in Slots, RxCallback(i)
      PROVE  Queue' = Queue
    BY <1>8, CalmStutters DEF RxCallback, window
<1>9. ASSUME NEW b \in BOOLEAN, RxEndRr(b) \/ RxReadReturns(b)
      PROVE  Queue' = Queue
    BY <1>9, CalmStutters DEF RxEndRr, RxReadReturns, window
<1>10. CASE RxEndRej \/ RxEndSrej \/ RxEndI \/ RxFrmrReconnect
    BY <1>10, CalmStutters DEF RxEndRej, RxEndSrej, RxEndI, RxFrmrReconnect, window
<1> QED
    BY <1>1, <1>2, <1>3, <1>4, <1>5, <1>6, <1>7, <1>8, <1>9, <1>10 DEF RxNext, Fifo!Next

\* The transmit window refines the FIFO of TxFifo: whatever the threads and the
\* remote do, packets leave the window in the order tiny_fd_send_packet_to took
\* them, none twice, none skipped, at most window_frames at a time, and a lost
\* connection drops all of them together.
THEOREM WindowImplementsFifo ==
  ASSUME OneMutexHolder, NoRset
  PROVE  Spec => ImplementsFifo
<1>1. Init => Fifo!Init
    BY DEF Init, Fifo!Init, Queue, Dist
<1>2. WindowInv /\ WindowInv' /\ [Next]_vars => [Fifo!Next \/ Fifo!Flush]_Queue
    <2> SUFFICES ASSUME WindowInv, WindowInv', [Next]_vars
                 PROVE  Fifo!Next \/ Fifo!Flush \/ Queue' = Queue
        OBVIOUS
    <2>1. CASE Next
        BY <2>1, FifoApp, FifoTx, FifoRx DEF Next
    <2>2. CASE UNCHANGED vars
        BY <2>2, CalmStutters DEF vars, window
    <2> QED
        BY <2>1, <2>2
<1> QED
    BY <1>1, <1>2, WindowInvariant, PTL DEF Spec, ImplementsFifo, Fifo!TxFifoSpec
=============================================================================
