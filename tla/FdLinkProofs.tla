---------------------------- MODULE FdLinkProofs ----------------------------
(***************************************************************************)
(* Packets are delivered in order and once (InOrderOnce), for any window,   *)
(* modulus, line, number of losses, timers and resets: both directions of   *)
(* the link keep the invariant Dir of FdPeerProofs.                         *)
(*                                                                          *)
(* What is confirmed was delivered (ConfirmedWasDelivered): the second half *)
(* of the module, where both directions are looked at together.             *)
(***************************************************************************)
EXTENDS FdLink, FdPeerProofs

Types ==
  /\ peer \in [Stations -> PeerType]
  /\ line \in [Stations -> Seq(Frames)]
  /\ accepted \in [Stations -> Nat]
  /\ delivered \in [Stations -> Seq(Nat)]

LinkInv ==
  /\ Types
  /\ \A s \in Stations :
       Dir(peer[Other(s)], accepted[Other(s)], line[s], s, peer[s], delivered[s], cut)

-----------------------------------------------------------------------------
(* The steps of the link *)

LEMMA TwoStations ==
  ASSUME NEW s \in Stations
  PROVE  /\ Other(s) \in Stations /\ Other(s) # s /\ Other(Other(s)) = s
         /\ \A t \in Stations : t = s \/ t = Other(s)
<1>1. PICK a \in Stations, b \in Stations : a # b /\ Stations = {a, b}
    BY LinkAssumption
<1>2. Other(a) = b /\ Other(b) = a
    BY <1>1 DEF Other
<1> QED
    BY <1>1, <1>2

\* Both directions of station t: what it sends and what it receives.
LEMMA BothWays ==
  ASSUME LinkInv, NEW t \in Stations
  PROVE  /\ Dir(peer[t], accepted[t], line[Other(t)], Other(t), peer[Other(t)], delivered[Other(t)], cut)
         /\ Dir(peer[Other(t)], accepted[Other(t)], line[t], t, peer[t], delivered[t], cut)
         /\ PeerOK(peer[t], accepted[t]) /\ PeerOK(peer[Other(t)], accepted[Other(t)])
         /\ peer[t] \in PeerType /\ line[t] \in Seq(Frames) /\ accepted[t] \in Nat
         /\ delivered[t] \in Seq(Nat)
         /\ peer[Other(t)] \in PeerType /\ line[Other(t)] \in Seq(Frames)
         /\ accepted[Other(t)] \in Nat /\ delivered[Other(t)] \in Seq(Nat)
<1>1. Other(t) \in Stations /\ Other(Other(t)) = t
    BY TwoStations
<1>2. /\ Dir(peer[Other(Other(t))], accepted[Other(Other(t))], line[Other(t)], Other(t),
             peer[Other(t)], delivered[Other(t)], cut)
      /\ Dir(peer[Other(t)], accepted[Other(t)], line[t], t, peer[t], delivered[t], cut)
    BY <1>1 DEF LinkInv
<1>3. /\ Dir(peer[t], accepted[t], line[Other(t)], Other(t), peer[Other(t)], delivered[Other(t)], cut)
      /\ Dir(peer[Other(t)], accepted[Other(t)], line[t], t, peer[t], delivered[t], cut)
    BY <1>1, <1>2
<1>4. PeerOK(peer[t], accepted[t]) /\ PeerOK(peer[Other(t)], accepted[Other(t)])
    BY <1>3 DEF Dir
<1> QED
    BY <1>1, <1>3, <1>4 DEF LinkInv, Types

LEMMA BothWaysBack ==
  ASSUME NEW t \in Stations, Types',
         Dir(peer[t], accepted[t], line[Other(t)], Other(t), peer[Other(t)], delivered[Other(t)], cut)',
         Dir(peer[Other(t)], accepted[Other(t)], line[t], t, peer[t], delivered[t], cut)'
  PROVE  LinkInv'
<1> SUFFICES ASSUME NEW s \in Stations
             PROVE  Dir(peer[Other(s)], accepted[Other(s)], line[s], s, peer[s], delivered[s], cut)'
    BY DEF LinkInv
<1>1. s = t \/ (s = Other(t) /\ Other(s) = t)
    BY TwoStations
<1> QED
    BY <1>1

\* A step of station t that only changes its record.
LEMMA RecordStep ==
  ASSUME LinkInv, NEW t \in Stations, NEW q, PeerOK(q, accepted[t]), SenderStep(peer[t], q),
         peer' = [peer EXCEPT ![t] = q], UNCHANGED <<line, accepted, delivered>>,
         cut \subseteq cut',
         t \notin cut' => (LinkUp(q) => LinkUp(peer[t]) /\ q.next_nr = peer[t].next_nr)
  PROVE  LinkInv'
<1> DEFINE o == Other(t)
<1>0. o \in Stations /\ o # t
    BY TwoStations
<1>1. /\ Dir(peer[t], accepted[t], line[o], o, peer[o], delivered[o], cut)
      /\ Dir(peer[o], accepted[o], line[t], t, peer[t], delivered[t], cut)
      /\ line[o] \in Seq(Frames) /\ accepted[t] \in Nat /\ delivered[o] \in Seq(Nat)
    BY BothWays
<1> HIDE DEF o
<1>2. Dir(q, accepted[t], line[o], o, peer[o], delivered[o], cut)
    BY <1>1, SenderMoves
<1>3. Dir(q, accepted[t], line[o], o, peer[o], delivered[o], cut')
    BY <1>2, ReceiverMoves
<1>4. Dir(peer[o], accepted[o], line[t], t, q, delivered[t], cut')
    BY <1>1, ReceiverMoves
<1>5. q \in PeerType
    BY DEF PeerOK
<1>6. peer'[t] = q /\ peer'[o] = peer[o] /\ Types'
    BY <1>0, <1>5 DEF LinkInv, Types
<1> QED
    BY <1>3, <1>4, <1>6, BothWaysBack DEF o

LEMMA InitLinkInv == Init => LinkInv
<1> SUFFICES ASSUME Init PROVE LinkInv
    OBVIOUS
<1>1. Types
    BY InitPeerOK DEF Init, Types
<1>2. ASSUME NEW s \in Stations
      PROVE  Dir(peer[Other(s)], accepted[Other(s)], line[s], s, peer[s], delivered[s], cut)
    BY InitDir, TwoStations DEF Init
<1> QED
    BY <1>1, <1>2 DEF LinkInv

LEMMA DisconnectStep ==
  ASSUME LinkInv, NEW t \in Stations, Disconnect(t)
  PROVE  LinkInv'
<1> DEFINE p == peer[t]
           m == PutUS(p, U("DISC"))
           q == [m EXCEPT !.state = "DISCONNECTING"]
<1>1. PeerOK(p, accepted[t]) /\ p \in PeerType
    BY BothWays
<1>2. U("DISC") \in Frames /\ U("DISC").type # "I" /\ ~Barrier(U("DISC"))
    BY FrameTypesOf DEF UTypes, Barrier
<1>3. peer' = [peer EXCEPT ![t] = q] /\ UNCHANGED <<line, accepted, delivered>>
    BY DEF Disconnect
<1>4. cut \subseteq cut' /\ (t \notin cut' => LinkUp(p))
    BY DEF Disconnect
<1> HIDE DEF p
<1>5. PeerOK(m, accepted[t]) /\ SenderStep(p, m) /\ m.next_nr = p.next_nr
    BY <1>1, <1>2, PutOK
<1>6. m \in PeerType
    BY <1>5 DEF PeerOK
<1> HIDE DEF m
<1>7. /\ q \in PeerType /\ q.window = m.window /\ q.last_ns = m.last_ns /\ q.confirm_ns = m.confirm_ns
      /\ q.s_queue = m.s_queue /\ q.can_accept = m.can_accept /\ q.state = "DISCONNECTING"
      /\ q.next_nr = m.next_nr
    BY <1>6 DEF PeerType, States
<1> HIDE DEF q
<1>8. LinkUp(q)
    BY <1>7 DEF LinkUp
<1>9. PeerOK(q, accepted[t]) /\ SenderStep(m, q)
    BY <1>5, <1>7, <1>8, OtherFields
<1>10. SenderStep(p, q)
    BY <1>1, <1>5, <1>6, <1>7, <1>9, SenderSteps
<1> QED
    BY <1>3, <1>4, <1>5, <1>7, <1>9, <1>10, RecordStep DEF p

LEMMA ConnectStep ==
  ASSUME LinkInv, NEW t \in Stations, ConnectTimer(t)
  PROVE  LinkInv'
<1> DEFINE p == peer[t]
           m == PutUS(p, U("SABM"))
           q == [m EXCEPT !.state = "CONNECTING"]
<1>1. PeerOK(p, accepted[t]) /\ p \in PeerType
    BY BothWays
<1>2. U("SABM") \in Frames /\ U("SABM").type # "I"
    BY FrameTypesOf DEF UTypes
<1>3. /\ peer' = [peer EXCEPT ![t] = q] /\ UNCHANGED <<line, accepted, delivered, cut>> /\ ~LinkUp(p)
    BY DEF ConnectTimer
<1> HIDE DEF p
<1>4. p.window = <<>>
    BY <1>1, <1>3 DEF PeerOK
<1>5. PeerOK(m, accepted[t]) /\ m.window = p.window /\ m.state = p.state
    BY <1>1, <1>2, PutOK
<1>6. m \in PeerType
    BY <1>5 DEF PeerOK
<1> HIDE DEF m
<1>7. /\ q \in PeerType /\ q.window = m.window /\ q.last_ns = m.last_ns /\ q.confirm_ns = m.confirm_ns
      /\ q.s_queue = m.s_queue /\ q.can_accept = m.can_accept /\ q.state = "CONNECTING"
    BY <1>6 DEF PeerType, States
<1> HIDE DEF q
<1>8. ~LinkUp(q) /\ ~LinkUp(m)
    BY <1>3, <1>5, <1>7 DEF LinkUp
<1>9. PeerOK(q, accepted[t])
    BY <1>5, <1>7, <1>8, OtherFields
<1>10. SenderStep(p, q)
    BY <1>4, <1>5, <1>7 DEF SenderStep
<1> QED
    BY <1>3, <1>8, <1>9, <1>10, RecordStep DEF p

\* A station gives up the connection.
LEMMA GiveUpStep ==
  ASSUME LinkInv, NEW t \in Stations, peer' = [peer EXCEPT ![t] = SwitchToDisconnected(peer[t])],
         UNCHANGED <<line, accepted, delivered, cut>>
  PROVE  LinkInv'
<1> DEFINE q == SwitchToDisconnected(peer[t])
<1>1. PeerOK(q, accepted[t]) /\ Len(q.window) = 0 /\ q.state = "DISCONNECTED"
    BY BothWays, DownOK
<1> HIDE DEF q
<1>2. ~LinkUp(q) /\ SenderStep(peer[t], q)
    BY <1>1 DEF LinkUp, SenderStep
<1> QED
    BY <1>1, <1>2, RecordStep DEF q

LEMMA RetryStep ==
  ASSUME LinkInv, NEW t \in Stations, RetryTimer(t)
  PROVE  LinkInv'
<1> DEFINE p == peer[t]
           m == [p EXCEPT !.retries = @ - 1]
           q == ResendFrom(m, p.confirm_ns)
<1>1. PeerOK(p, accepted[t]) /\ p \in PeerType
    BY BothWays
<1>2. CASE p.retries > 0
    <2>1. peer' = [peer EXCEPT ![t] = q] /\ UNCHANGED <<line, accepted, delivered, cut>>
        BY <1>2 DEF RetryTimer
    <2> HIDE DEF p
    <2>2. p.retries - 1 \in Nat /\ p.confirm_ns \in SeqNums
        BY <1>1, <1>2 DEF PeerType
    <2>3. /\ m \in PeerType /\ m.window = p.window /\ m.last_ns = p.last_ns /\ m.confirm_ns = p.confirm_ns
          /\ m.s_queue = p.s_queue /\ m.can_accept = p.can_accept /\ m.state = p.state
          /\ m.next_nr = p.next_nr
        BY <1>1, <2>2 DEF PeerType
    <2> HIDE DEF m
    <2>4. LinkUp(p) => LinkUp(m)
        BY <2>3 DEF LinkUp
    <2>5. PeerOK(m, accepted[t]) /\ SenderStep(p, m)
        BY <1>1, <2>3, <2>4, OtherFields
    <2>6. PeerOK(q, accepted[t]) /\ SenderStep(m, q) /\ q.next_nr = p.next_nr /\ q.state = p.state
        BY <2>2, <2>3, <2>5, ResendOK
    <2>7. q \in PeerType
        BY <2>6 DEF PeerOK
    <2> HIDE DEF q
    <2>8. SenderStep(p, q)
        BY <1>1, <2>3, <2>5, <2>6, <2>7, SenderSteps
    <2>9. LinkUp(q) => LinkUp(p)
        BY <2>6 DEF LinkUp
    <2> QED
        BY <2>1, <2>6, <2>8, <2>9, RecordStep DEF p
<1>3. CASE ~(p.retries > 0)
    <2>1. peer' = [peer EXCEPT ![t] = SwitchToDisconnected(peer[t])]
        BY <1>3 DEF RetryTimer
    <2>2. UNCHANGED <<line, accepted, delivered, cut>>
        BY DEF RetryTimer
    <2> QED
        BY <2>1, <2>2, GiveUpStep
<1> QED
    BY <1>2, <1>3

LEMMA KeepAliveStep ==
  ASSUME LinkInv, NEW t \in Stations, KeepAliveTimer(t)
  PROVE  LinkInv'
<1> DEFINE p == peer[t]
           m == [p EXCEPT !.ka_confirmed = FALSE]
           f == S("RR", p.next_nr)
           q == PutUS(m, f)
<1>1. PeerOK(p, accepted[t]) /\ p \in PeerType /\ p.next_nr \in SeqNums
    BY BothWays DEF PeerType
<1>2. peer' = [peer EXCEPT ![t] = q] /\ UNCHANGED <<line, accepted, delivered, cut>>
    BY DEF KeepAliveTimer
<1>3. f \in Frames /\ f.type # "I" /\ ~Barrier(f)
    BY <1>1, FrameTypesOf DEF STypes, Barrier
<1> HIDE DEF p, f
<1>4. /\ m \in PeerType /\ m.window = p.window /\ m.last_ns = p.last_ns /\ m.confirm_ns = p.confirm_ns
      /\ m.s_queue = p.s_queue /\ m.can_accept = p.can_accept /\ m.state = p.state
      /\ m.next_nr = p.next_nr
    BY <1>1 DEF PeerType
<1> HIDE DEF m
<1>5. LinkUp(p) => LinkUp(m)
    BY <1>4 DEF LinkUp
<1>6. PeerOK(m, accepted[t]) /\ SenderStep(p, m)
    BY <1>1, <1>4, <1>5, OtherFields
<1>7. PeerOK(q, accepted[t]) /\ SenderStep(m, q) /\ q.next_nr = p.next_nr /\ q.state = p.state
    BY <1>3, <1>4, <1>6, PutOK
<1>8. q \in PeerType
    BY <1>7 DEF PeerOK
<1> HIDE DEF q
<1>9. SenderStep(p, q)
    BY <1>1, <1>4, <1>6, <1>7, <1>8, SenderSteps
<1>10. LinkUp(q) => LinkUp(p)
    BY <1>7 DEF LinkUp
<1> QED
    BY <1>2, <1>7, <1>9, <1>10, RecordStep DEF p

LEMMA SendStep ==
  ASSUME LinkInv, NEW t \in Stations, Send(t)
  PROVE  LinkInv'
<1> DEFINE o == Other(t)
           p == peer[t]
           n == accepted[t]
           m == [p EXCEPT !.window = Append(@, n + 1), !.last_ns = SeqNext(@)]
           q == [m EXCEPT !.can_accept = ~TxFull(m)]
<1>0. o \in Stations /\ o # t
    BY TwoStations
<1>1. /\ Dir(p, n, line[o], o, peer[o], delivered[o], cut)
      /\ Dir(peer[o], accepted[o], line[t], t, p, delivered[t], cut)
      /\ PeerOK(p, n) /\ p \in PeerType /\ n \in Nat
      /\ line[o] \in Seq(Frames) /\ delivered[o] \in Seq(Nat) /\ peer[o] \in PeerType
    BY BothWays
<1>2. /\ p.can_accept
      /\ peer' = [peer EXCEPT ![t] = q] /\ accepted' = [accepted EXCEPT ![t] = n + 1]
      /\ UNCHANGED <<line, delivered, cut>>
    BY DEF Send
<1> HIDE DEF p, n, o
<1>3. q = Accepting(Appended(p, n)) /\ p.can_accept = TRUE
    BY <1>1, <1>2 DEF Appended, Accepting, PeerType
<1> HIDE DEF m, q
<1>4. /\ PeerOK(q, n + 1) /\ LinkUp(p) /\ LinkUp(q) /\ Len(q.window) = Len(p.window) + 1
      /\ q.last_ns = SeqNext(p.last_ns) /\ q.s_queue = p.s_queue /\ q.next_nr = p.next_nr
    BY <1>1, <1>3, SendOK
<1>5. q \in PeerType /\ n + 1 \in Nat
    BY <1>1, <1>4 DEF PeerOK
<1>6. Dir(q, n + 1, line[o], o, peer[o], delivered[o], cut)
    BY <1>1, <1>4, Enqueue
<1>7. Dir(peer[o], accepted[o], line[t], t, q, delivered[t], cut)
    BY <1>1, <1>4, ReceiverMoves
<1>8. /\ peer'[t] = q /\ peer'[o] = peer[o] /\ accepted'[t] = n + 1 /\ accepted'[o] = accepted[o]
      /\ Types'
    BY <1>0, <1>2, <1>5 DEF LinkInv, Types
<1> QED
    BY <1>2, <1>6, <1>7, <1>8, BothWaysBack DEF o

\* A transmission: frame f of station t goes to the line and its record becomes q.
LEMMA TransmitStep ==
  ASSUME LinkInv, NEW t \in Stations, NEW q, NEW f \in Frames, Transmit(t, f, q), PeerOK(q, accepted[t]),
         Dir(q, accepted[t], Append(line[Other(t)], f), Other(t), peer[Other(t)], delivered[Other(t)], cut),
         q.state = peer[t].state, q.next_nr = peer[t].next_nr
  PROVE  LinkInv'
<1> DEFINE o == Other(t)
<1>0. o \in Stations /\ o # t
    BY TwoStations
<1>1. /\ Dir(peer[o], accepted[o], line[t], t, peer[t], delivered[t], cut)
      /\ line[o] \in Seq(Frames) /\ q \in PeerType
    BY BothWays DEF PeerOK
<1>2. /\ line' = [line EXCEPT ![o] = Append(line[o], f)] /\ peer' = [peer EXCEPT ![t] = q]
      /\ UNCHANGED <<accepted, delivered, cut>>
    BY DEF Transmit
<1>3. LinkUp(q) => LinkUp(peer[t])
    BY DEF LinkUp
<1> HIDE DEF o
<1>4. Dir(peer[o], accepted[o], line[t], t, q, delivered[t], cut)
    BY <1>1, <1>3, ReceiverMoves
<1>5. Append(line[o], f) \in Seq(Frames)
    BY <1>1, AppendToLine
<1>6. /\ peer'[t] = q /\ peer'[o] = peer[o] /\ line'[t] = line[t] /\ line'[o] = Append(line[o], f)
      /\ Types'
    BY <1>0, <1>1, <1>2, <1>5 DEF LinkInv, Types
<1> QED
    BY <1>2, <1>4, <1>6, BothWaysBack DEF o

LEMMA TransmitSUStep ==
  ASSUME LinkInv, NEW t \in Stations, TransmitSU(t)
  PROVE  LinkInv'
<1> DEFINE o == Other(t)
           p == peer[t]
           n == accepted[t]
           f == Head(p.s_queue)
           x == IF f.type \in {"RR", "REJ"} THEN f.nr ELSE p.sent_nr
           q == [p EXCEPT !.s_queue = Tail(@), !.sent_nr = IF f.type \in {"RR", "REJ"} THEN f.nr ELSE @]
<1>1. /\ Dir(p, n, line[o], o, peer[o], delivered[o], cut)
      /\ PeerOK(p, n) /\ p \in PeerType /\ n \in Nat /\ p.s_queue \in Seq(Frames)
      /\ line[o] \in Seq(Frames) /\ delivered[o] \in Seq(Nat)
    BY BothWays DEF PeerType
<1>2. p.s_queue # <<>> /\ Transmit(t, f, q)
    BY DEF TransmitSU
<1>3. /\ Tail(p.s_queue) \in Seq(Frames) /\ f \in Frames
      /\ \A i \in DOMAIN Tail(p.s_queue) : i + 1 \in DOMAIN p.s_queue /\ Tail(p.s_queue)[i] = p.s_queue[i + 1]
    BY <1>1, <1>2, TailOfLine, HeadTailProperties
<1>4. x \in SeqNums
    BY <1>1, <1>3 DEF Frames, PeerType
<1>5. /\ q \in PeerType /\ q.window = p.window /\ q.last_ns = p.last_ns /\ q.confirm_ns = p.confirm_ns
      /\ q.s_queue = Tail(p.s_queue) /\ q.can_accept = p.can_accept /\ q.state = p.state
      /\ q.next_nr = p.next_nr
    <2>1. q = [p EXCEPT !.s_queue = Tail(p.s_queue), !.sent_nr = x]
        BY <1>1 DEF PeerType
    <2> HIDE DEF q, x, p
    <2> QED
        BY <2>1, <1>1, <1>3, <1>4 DEF PeerType
<1> HIDE DEF q, p, n, o
<1>6. \A i \in DOMAIN q.s_queue : q.s_queue[i].type # "I"
    BY <1>1, <1>3, <1>5 DEF PeerOK
<1>7. PeerOK(q, n)
    BY <1>1, <1>5, <1>6 DEF PeerOK, LinkUp
<1>8. Dir(q, n, Append(line[o], f), o, peer[o], delivered[o], cut)
    BY <1>1, <1>2, <1>5, <1>7, MoveService
<1> HIDE DEF f
<1> QED
    BY <1>2, <1>3, <1>5, <1>7, <1>8, TransmitStep DEF o, p, n

LEMMA TransmitIStep ==
  ASSUME LinkInv, NEW t \in Stations, TransmitI(t)
  PROVE  LinkInv'
<1> DEFINE o == Other(t)
           p == peer[t]
           n == accepted[t]
           f == I(p.next_ns, p.next_nr, p.window[NextOffset(p) + 1])
           q == [p EXCEPT !.next_ns = SeqNext(@), !.sent_nr = p.next_nr]
<1>1. /\ Dir(p, n, line[o], o, peer[o], delivered[o], cut)
      /\ PeerOK(p, n) /\ p \in PeerType /\ n \in Nat /\ p.next_ns \in SeqNums /\ p.next_nr \in SeqNums
      /\ line[o] \in Seq(Frames) /\ delivered[o] \in Seq(Nat) /\ peer[o] \in PeerType
    BY BothWays DEF PeerType
<1>2. p.s_queue = <<>> /\ HasIFrame(p) /\ Transmit(t, f, q)
    BY DEF TransmitI
<1>3. p.window[NextOffset(p) + 1] \in Nat
    BY <1>1, <1>2, NextFrame
<1>4. f \in Frames /\ f.type = "I" /\ f.ns = p.next_ns /\ f.data = p.window[NextOffset(p) + 1]
    BY <1>1, <1>3, FrameTypesOf
<1>5. /\ q \in PeerType /\ q.window = p.window /\ q.last_ns = p.last_ns /\ q.confirm_ns = p.confirm_ns
      /\ q.s_queue = p.s_queue /\ q.can_accept = p.can_accept /\ q.state = p.state
      /\ q.next_nr = p.next_nr
    BY <1>1, SeqNextType DEF PeerType
<1> HIDE DEF q, p, n, o, f
<1>6. LinkUp(p) => LinkUp(q)
    BY <1>5 DEF LinkUp
<1>7. PeerOK(q, n)
    BY <1>1, <1>5, <1>6, OtherFields
<1>8. Dir(q, n, Append(line[o], f), o, peer[o], delivered[o], cut)
    BY <1>1, <1>2, <1>4, <1>5, <1>7, MoveNumbered
<1> QED
    BY <1>2, <1>4, <1>5, <1>7, <1>8, TransmitStep DEF o, p, n

LEMMA LoseStep ==
  ASSUME LinkInv, NEW t \in Stations, Lose(t)
  PROVE  LinkInv'
<1> DEFINE o == Other(t)
<1>0. o \in Stations /\ o # t
    BY TwoStations
<1>1. /\ Dir(peer[t], accepted[t], line[o], o, peer[o], delivered[o], cut)
      /\ Dir(peer[o], accepted[o], line[t], t, peer[t], delivered[t], cut)
      /\ line[t] \in Seq(Frames)
    BY BothWays
<1>2. /\ line[t] # <<>> /\ line' = [line EXCEPT ![t] = Tail(line[t])]
      /\ UNCHANGED <<peer, accepted, delivered, cut>>
    BY DEF Lose
<1> HIDE DEF o
<1>3. Dir(peer[o], accepted[o], Tail(line[t]), t, peer[t], delivered[t], cut)
    BY <1>1, <1>2, Drop
<1>4. Tail(line[t]) \in Seq(Frames)
    BY <1>1, <1>2, TailOfLine
<1>5. line'[t] = Tail(line[t]) /\ line'[o] = line[o] /\ Types'
    BY <1>0, <1>2, <1>4 DEF LinkInv, Types
<1> QED
    BY <1>1, <1>2, <1>3, <1>5, BothWaysBack DEF o

LEMMA ReceiveStep ==
  ASSUME LinkInv, NEW t \in Stations, Receive(t)
  PROVE  LinkInv'
<1> DEFINE o == Other(t)
           p == peer[t]
           f == Head(line[t])
           q == OnFrameRead(p, f)
           fresh == LinkUp(p) /\ f.type = "I" /\ f.ns = p.next_nr
           del == IF fresh THEN Append(delivered[t], f.data) ELSE delivered[t]
<1>0. o \in Stations /\ o # t
    BY TwoStations
<1>1. /\ Dir(p, accepted[t], line[o], o, peer[o], delivered[o], cut)
      /\ Dir(peer[o], accepted[o], line[t], t, p, delivered[t], cut)
      /\ PeerOK(p, accepted[t]) /\ p \in PeerType /\ accepted[t] \in Nat /\ accepted[o] \in Nat
      /\ line[t] \in Seq(Frames) /\ line[o] \in Seq(Frames)
      /\ delivered[t] \in Seq(Nat) /\ delivered[o] \in Seq(Nat)
    BY BothWays
<1>2. /\ line[t] # <<>> /\ line' = [line EXCEPT ![t] = Tail(line[t])]
      /\ peer' = [peer EXCEPT ![t] = q]
      /\ UNCHANGED <<accepted, cut>>
    BY DEF Receive
<1>3. delivered' = [delivered EXCEPT ![t] = del]
    <2>1. CASE fresh
        BY <2>1 DEF Receive
    <2>2. CASE ~fresh
        <3>1. delivered' = delivered
            BY <2>2 DEF Receive
        <3>2. delivered = [delivered EXCEPT ![t] = delivered[t]]
            BY DEF LinkInv, Types
        <3> QED
            BY <2>2, <3>1, <3>2
    <2> QED
        BY <2>1, <2>2
<1>4. f \in Frames /\ Tail(line[t]) \in Seq(Frames)
    BY <1>1, <1>2, HeadTailProperties
<1>5. /\ PeerOK(q, accepted[t]) /\ SenderStep(p, q)
      /\ LinkUp(q) /\ ~Barrier(f) => LinkUp(p) /\ q.next_nr = NextNr(p, f)
    BY <1>1, <1>4, OnFrameReadOK
<1>6. q \in PeerType
    BY <1>5 DEF PeerOK
<1> HIDE DEF q, p, o
<1>7. Dir(q, accepted[t], line[o], o, peer[o], delivered[o], cut)
    BY <1>1, <1>5, SenderMoves
<1>8. Dir(peer[o], accepted[o], Tail(line[t]), t, q, del, cut) /\ del \in Seq(Nat)
    <2>1. CASE Barrier(f)
        <3>1. del = delivered[t]
            BY <2>1 DEF Barrier
        <3> QED
            BY <1>1, <1>2, <2>1, <3>1, DropBarrier
    <2>2. CASE ~Barrier(f) /\ fresh
        <3>1. LinkUp(q) => q.next_nr = SeqNext(p.next_nr)
            BY <1>5, <2>2 DEF NextNr
        <3>2. del = Append(delivered[t], f.data)
            BY <2>2
        <3>3. f.data \in Nat
            BY <1>4 DEF Frames
        <3> QED
            BY <1>1, <1>2, <2>2, <3>1, <3>2, <3>3, Deliver, AppendIncreases
    <2>3. CASE ~Barrier(f) /\ ~fresh
        <3>1. del = delivered[t]
            BY <2>3
        <3>2. LinkUp(q) => LinkUp(p) /\ q.next_nr = p.next_nr
            BY <1>5, <2>3 DEF NextNr
        <3>3. Dir(peer[o], accepted[o], Tail(line[t]), t, p, delivered[t], cut)
            BY <1>1, <1>2, Drop
        <3>4. Dir(peer[o], accepted[o], Tail(line[t]), t, q, delivered[t], cut)
            BY <3>2, <3>3, ReceiverMoves
        <3> QED
            BY <1>1, <3>1, <3>4
    <2> QED
        BY <2>1, <2>2, <2>3
<1> HIDE DEF del
<1>9. /\ peer'[t] = q /\ peer'[o] = peer[o] /\ line'[t] = Tail(line[t]) /\ line'[o] = line[o]
      /\ delivered'[t] = del /\ delivered'[o] = delivered[o] /\ Types'
    BY <1>0, <1>2, <1>3, <1>4, <1>6, <1>8 DEF LinkInv, Types
<1> QED
    BY <1>2, <1>7, <1>8, <1>9, BothWaysBack DEF o

LEMMA LinkInvariant == Spec => []LinkInv
<1>1. LinkInv /\ [Next]_vars => LinkInv'
    <2> SUFFICES ASSUME LinkInv, [Next]_vars PROVE LinkInv'
        OBVIOUS
    <2>1. ASSUME NEW s \in Stations, KeepAliveExpired(s)
          PROVE  LinkInv'
        BY <2>1, GiveUpStep DEF KeepAliveExpired
    <2>2. CASE Next
        BY <2>1, <2>2, SendStep, DisconnectStep, ConnectStep, RetryStep, KeepAliveStep,
           TransmitSUStep, TransmitIStep, ReceiveStep, LoseStep DEF Next
    <2>3. CASE UNCHANGED vars
        BY <2>3 DEF vars, LinkInv, Types
    <2> QED
        BY <2>2, <2>3
<1> QED
    BY <1>1, InitLinkInv, PTL DEF Spec

\* on_read_cb never sees a packet twice nor out of order, for every window,
\* modulus, queue and line, whatever is lost, repeated by a timer or reset by
\* either side, as long as its application does not call tiny_fd_disconnect on a
\* link that is down.
THEOREM AlwaysInOrderOnce == Spec => []InOrderOnce
<1>1. LinkInv => InOrderOnce
    BY DEF LinkInv, Dir, InOrderOnce
<1> QED
    BY <1>1, LinkInvariant, PTL

-----------------------------------------------------------------------------
(* What was confirmed was delivered (ConfirmedWasDelivered), on a link that     *)
(* neither tiny_fd_disconnect nor a keep-alive timer resets and whose           *)
(* connection timer exceeds the round trip.                                     *)
(*                                                                              *)
(* The frames on their way to a station are one sequence, the line and behind   *)
(* it the service queue of the other station.  An N(R) among them is harmless   *)
(* when it lies between confirm_ns and what was delivered, and when no older    *)
(* one follows: a number outside the window would confirm everything.  What is  *)
(* hard is that both stations count from 0 again after a reset.  With a slow    *)
(* connection timer SABM is only sent when nothing is on its way, so there is   *)
(* one SABM or UA at a time; its receiver's packets of the old connection run   *)
(* before the UA, into a station that is down.                                  *)

Numbered(f) == f.type \in STypes \cup {"I"}
Silent(q) == \A i \in DOMAIN q : ~Numbered(q[i])
Got(del, d) == \E i \in DOMAIN del : del[i] = d

\* nr confirms packets of the window that were delivered.
Acks(p, nr, del) ==
  /\ Dist(p.confirm_ns, nr) <= Len(p.window)
  /\ \A k \in 1 .. Dist(p.confirm_ns, nr) : Got(del, p.window[k])

\* The sender's record p, the receiver's record r, the frames a on their way to
\* the sender and the frames b on their way to the receiver.

\* No DISC and no FRMR, and at most one SABM or UA.
OneBarrier(a, b) ==
  /\ \A i \in DOMAIN a : a[i].type \in {"SABM", "UA", "DM", "RR", "REJ", "I"}
  /\ \A i, j \in DOMAIN a : Barrier(a[i]) /\ Barrier(a[j]) => i = j
  /\ ClearFrom(a, 0) \/ ClearFrom(b, 0)

\* Who sent SABM is down and has sent nothing since; who answers with UA has
\* confirmed nothing; who gets UA is still down, and what comes behind it
\* confirms nothing.
Calls(p, b) ==
  \A i \in DOMAIN b : /\ b[i].type = "SABM" => ~LinkUp(p) /\ Silent(b)
                      /\ b[i].type = "UA" /\ LinkUp(p) => p.confirm_ns = 0
Answered(p, r, a, b) ==
  \A i \in DOMAIN a : a[i].type = "UA" =>
    /\ ~LinkUp(p) /\ Silent(b)
    /\ \A j \in DOMAIN a : j > i /\ Numbered(a[j]) => a[j].nr = 0
    /\ LinkUp(r) => r.next_nr = 0

\* The acknowledgements on their way are good and in order, and the receiver's
\* next one comes behind them.
GoodAcks(p, a, del) ==
  LinkUp(p) =>
    /\ \A i \in DOMAIN a : Numbered(a[i]) => Acks(p, a[i].nr, del)
    /\ \A i, j \in DOMAIN a : i < j /\ Numbered(a[i]) /\ Numbered(a[j]) =>
         Dist(p.confirm_ns, a[i].nr) <= Dist(p.confirm_ns, a[j].nr)
GoodNext(p, r, a, del) ==
  LinkUp(p) /\ LinkUp(r) =>
    /\ Acks(p, r.next_nr, del)
    /\ \A i \in DOMAIN a : Numbered(a[i]) =>
         Dist(p.confirm_ns, a[i].nr) <= Dist(p.confirm_ns, r.next_nr)

\* A packet that will reach the receiver in this connection is in the window, or
\* it was delivered.
OnTheWay(p, n, r, b, del) ==
  LinkUp(p) /\ (LinkUp(r) \/ \E i \in DOMAIN b : b[i].type = "UA") =>
    \A i \in DOMAIN b : b[i].type = "I" /\ ClearFrom(b, i) =>
      n - b[i].data < Len(p.window) \/ Got(del, b[i].data)

AckDir(p, n, r, a, b, del, conf) ==
  /\ p.state # "DISCONNECTING"
  /\ OneBarrier(a, b)
  /\ Calls(p, b)
  /\ Answered(p, r, a, b)
  /\ GoodAcks(p, a, del)
  /\ GoodNext(p, r, a, del)
  /\ OnTheWay(p, n, r, b, del)
  /\ \A d \in conf : Got(del, d)

\* The frames on their way to station s.
Coming(s) == line[s] \o peer[Other(s)].s_queue

Undisturbed == disconnects = 0 /\ keepalives = 0

AckWay(s) ==
  AckDir(peer[s], accepted[s], peer[Other(s)], Coming(s), Coming(Other(s)),
         delivered[Other(s)], confirmed[s])

Counts == disconnects \in Nat /\ keepalives \in Nat /\ DOMAIN confirmed = Stations

AckInv ==
  /\ Counts
  /\ Undisturbed => cut = {} /\ \A s \in Stations : AckWay(s)

-----------------------------------------------------------------------------
(* A frame leaves or joins the way *)

IsTail(a, t) ==
  /\ 1 \in DOMAIN a
  /\ \A i \in DOMAIN t : i + 1 \in DOMAIN a /\ t[i] = a[i + 1] /\ i \in Nat /\ i > 0
  /\ \A i \in DOMAIN a : i \in Nat /\ (i > 1 => i - 1 \in DOMAIN t /\ t[i - 1] = a[i])

IsAppend(a, f, t) ==
  /\ \A i \in DOMAIN a : i \in Nat /\ i > 0 /\ i \in DOMAIN t /\ t[i] = a[i]
  /\ \E m \in DOMAIN t : /\ m \in Nat /\ m > 0 /\ t[m] = f /\ m \notin DOMAIN a
                         /\ \A i \in DOMAIN a : i < m
                         /\ \A i \in DOMAIN t : i \in DOMAIN a \/ i = m

LEMMA TailClear ==
  ASSUME NEW a, NEW t, IsTail(a, t)
  PROVE  /\ ClearFrom(a, 0) => ClearFrom(t, 0)
         /\ \A i \in DOMAIN t : ClearFrom(t, i) => ClearFrom(a, i + 1)
         /\ Silent(a) => Silent(t)
<1>1. ClearFrom(a, 0) => ClearFrom(t, 0)
    BY DEF IsTail, ClearFrom
<1>2. ASSUME NEW i \in DOMAIN t, ClearFrom(t, i), NEW j \in DOMAIN a, j > i + 1
      PROVE  ~Barrier(a[j])
    <2>1. i \in Nat /\ j \in Nat /\ i > 0 /\ j > 1
        BY <1>2 DEF IsTail
    <2>2. j - 1 \in DOMAIN t /\ t[j - 1] = a[j] /\ j - 1 > i
        BY <1>2, <2>1 DEF IsTail
    <2> QED
        BY <1>2, <2>2 DEF ClearFrom
<1>3. Silent(a) => Silent(t)
    BY DEF IsTail, Silent
<1> QED
    BY <1>1, <1>2, <1>3 DEF ClearFrom

\* A frame on its way to the sender is lost or handled.
LEMMA DropIn ==
  ASSUME NEW p, NEW n, NEW r, NEW a, NEW b, NEW del, NEW conf, NEW t,
         AckDir(p, n, r, a, b, del, conf), IsTail(a, t)
  PROVE  AckDir(p, n, r, t, b, del, conf)
<1>0. \A i \in DOMAIN t : i + 1 \in DOMAIN a /\ t[i] = a[i + 1] /\ i \in Nat /\ i > 0
    BY DEF IsTail
<1>1. OneBarrier(t, b)
    <2>1. \A i \in DOMAIN t : t[i].type \in {"SABM", "UA", "DM", "RR", "REJ", "I"}
        BY <1>0 DEF AckDir, OneBarrier
    <2>2. ASSUME NEW i \in DOMAIN t, NEW j \in DOMAIN t, Barrier(t[i]), Barrier(t[j]) PROVE i = j
        <3>1. i + 1 = j + 1
            BY <1>0, <2>2 DEF AckDir, OneBarrier
        <3> QED
            BY <1>0, <3>1
    <2> QED
        BY <2>1, <2>2, TailClear DEF AckDir, OneBarrier
<1>2. Answered(p, r, t, b)
    <2> SUFFICES ASSUME NEW i \in DOMAIN t, t[i].type = "UA"
                 PROVE  /\ ~LinkUp(p) /\ Silent(b)
                        /\ \A j \in DOMAIN t : j > i /\ Numbered(t[j]) => t[j].nr = 0
                        /\ LinkUp(r) => r.next_nr = 0
        BY DEF Answered
    <2>1. /\ ~LinkUp(p) /\ Silent(b)
          /\ \A j \in DOMAIN a : j > i + 1 /\ Numbered(a[j]) => a[j].nr = 0
          /\ LinkUp(r) => r.next_nr = 0
        BY <1>0 DEF AckDir, Answered
    <2>2. \A j \in DOMAIN t : j > i => j + 1 > i + 1
        BY <1>0
    <2> QED
        BY <1>0, <2>1, <2>2
<1>3. GoodAcks(p, t, del)
    <2> SUFFICES ASSUME LinkUp(p) PROVE GoodAcks(p, t, del)
        BY DEF GoodAcks
    <2>1. \A i \in DOMAIN t : Numbered(t[i]) => Acks(p, t[i].nr, del)
        BY <1>0 DEF AckDir, GoodAcks
    <2>2. ASSUME NEW i \in DOMAIN t, NEW j \in DOMAIN t, i < j, Numbered(t[i]), Numbered(t[j])
          PROVE  Dist(p.confirm_ns, t[i].nr) <= Dist(p.confirm_ns, t[j].nr)
        <3>1. i + 1 < j + 1
            BY <1>0, <2>2
        <3> QED
            BY <1>0, <2>2, <3>1 DEF AckDir, GoodAcks
    <2> QED
        BY <2>1, <2>2 DEF GoodAcks
<1>4. GoodNext(p, r, t, del)
    BY <1>0 DEF AckDir, GoodNext
<1> QED
    BY <1>1, <1>2, <1>3, <1>4 DEF AckDir

\* A frame on its way to the receiver is lost or handled.
LEMMA DropOut ==
  ASSUME NEW p, NEW n, NEW r, NEW a, NEW b, NEW del, NEW conf, NEW t,
         AckDir(p, n, r, a, b, del, conf), IsTail(b, t)
  PROVE  AckDir(p, n, r, a, t, del, conf)
<1>0. \A i \in DOMAIN t : i + 1 \in DOMAIN b /\ t[i] = b[i + 1] /\ i \in Nat /\ i > 0
    BY DEF IsTail
<1>1. OneBarrier(a, t)
    BY TailClear DEF AckDir, OneBarrier
<1>2. Calls(p, t)
    BY <1>0, TailClear DEF AckDir, Calls
<1>3. Answered(p, r, a, t)
    BY TailClear DEF AckDir, Answered
<1>4. OnTheWay(p, n, r, t, del)
    <2> SUFFICES ASSUME LinkUp(p), LinkUp(r) \/ \E i \in DOMAIN t : t[i].type = "UA",
                        NEW i \in DOMAIN t, t[i].type = "I", ClearFrom(t, i)
                 PROVE  n - t[i].data < Len(p.window) \/ Got(del, t[i].data)
        BY DEF OnTheWay
    <2>1. LinkUp(r) \/ \E j \in DOMAIN b : b[j].type = "UA"
        BY <1>0
    <2>2. i + 1 \in DOMAIN b /\ b[i + 1] = t[i] /\ ClearFrom(b, i + 1)
        BY <1>0, TailClear
    <2> QED
        BY <2>1, <2>2 DEF AckDir, OnTheWay
<1> QED
    BY <1>1, <1>2, <1>3, <1>4 DEF AckDir

\* Frames that join: DM from anyone, a numbered frame from a station that is up.
LEMMA AppendClear ==
  ASSUME NEW a, NEW f, NEW t, IsAppend(a, f, t), ~Barrier(f)
  PROVE  /\ ClearFrom(a, 0) => ClearFrom(t, 0)
         /\ \A i \in DOMAIN a : ClearFrom(t, i) => ClearFrom(a, i)
         /\ ~Numbered(f) /\ Silent(a) => Silent(t)
         /\ \A i \in DOMAIN t : t[i] = f \/ (i \in DOMAIN a /\ t[i] = a[i])
<1>1. \A i \in DOMAIN t : t[i] = f \/ (i \in DOMAIN a /\ t[i] = a[i])
    BY DEF IsAppend
<1>2. \A i \in DOMAIN a : i \in DOMAIN t /\ t[i] = a[i]
    BY DEF IsAppend
<1> QED
    BY <1>1, <1>2 DEF ClearFrom, Silent

LEMMA JoinIn ==
  ASSUME NEW p \in PeerType, NEW n, NEW r \in PeerType, NEW a, NEW b, NEW del, NEW conf, NEW f, NEW t,
         AckDir(p, n, r, a, b, del, conf), IsAppend(a, f, t), f.type \in {"DM", "RR", "REJ", "I"},
         Numbered(f) => LinkUp(r) /\ f.nr = r.next_nr
  PROVE  AckDir(p, n, r, t, b, del, conf)
<1>0. PICK m \in DOMAIN t : /\ m \in Nat /\ m > 0 /\ t[m] = f /\ m \notin DOMAIN a
                            /\ \A i \in DOMAIN a : i < m
                            /\ \A i \in DOMAIN t : i \in DOMAIN a \/ i = m
    BY DEF IsAppend
<1>1. /\ \A i \in DOMAIN t : i = m \/ (i \in DOMAIN a /\ t[i] = a[i])
      /\ \A i \in DOMAIN a : i \in Nat /\ ~(m < i)
    BY <1>0 DEF IsAppend
<1>2. ~Barrier(f) /\ f.type # "UA"
    BY DEF Barrier
<1>3. OneBarrier(t, b)
    <2>1. \A i \in DOMAIN t : t[i].type \in {"SABM", "UA", "DM", "RR", "REJ", "I"}
        BY <1>0, <1>1 DEF AckDir, OneBarrier
    <2>2. \A i, j \in DOMAIN t : Barrier(t[i]) /\ Barrier(t[j]) => i = j
        BY <1>0, <1>1, <1>2 DEF AckDir, OneBarrier
    <2> QED
        BY <1>2, <2>1, <2>2, AppendClear DEF AckDir, OneBarrier
<1>4. Answered(p, r, t, b)
    <2> SUFFICES ASSUME NEW i \in DOMAIN t, t[i].type = "UA"
                 PROVE  /\ ~LinkUp(p) /\ Silent(b)
                        /\ \A j \in DOMAIN t : j > i /\ Numbered(t[j]) => t[j].nr = 0
                        /\ LinkUp(r) => r.next_nr = 0
        BY DEF Answered
    <2>1. /\ ~LinkUp(p) /\ Silent(b)
          /\ \A j \in DOMAIN a : j > i /\ Numbered(a[j]) => a[j].nr = 0
          /\ LinkUp(r) => r.next_nr = 0
        BY <1>0, <1>1, <1>2 DEF AckDir, Answered
    <2> QED
        BY <1>0, <1>1, <2>1
<1>5. ASSUME LinkUp(p), Numbered(f)
      PROVE  /\ Acks(p, f.nr, del)
             /\ \A i \in DOMAIN a : Numbered(a[i]) =>
                  Dist(p.confirm_ns, a[i].nr) <= Dist(p.confirm_ns, f.nr)
    BY <1>5 DEF AckDir, GoodNext
<1>6. GoodAcks(p, t, del)
    <2> SUFFICES ASSUME LinkUp(p) PROVE GoodAcks(p, t, del)
        BY DEF GoodAcks
    <2>1. \A i \in DOMAIN t : Numbered(t[i]) => Acks(p, t[i].nr, del)
        BY <1>0, <1>1, <1>5 DEF AckDir, GoodAcks
    <2>2. ASSUME NEW i \in DOMAIN t, NEW j \in DOMAIN t, i < j, Numbered(t[i]), Numbered(t[j])
          PROVE  Dist(p.confirm_ns, t[i].nr) <= Dist(p.confirm_ns, t[j].nr)
        <3>1. i # m
            BY <1>0, <1>1, <2>2
        <3> QED
            BY <1>0, <1>1, <1>5, <2>2, <3>1 DEF AckDir, GoodAcks
    <2> QED
        BY <2>1, <2>2 DEF GoodAcks
<1>7. GoodNext(p, r, t, del)
    <2> SUFFICES ASSUME LinkUp(p), LinkUp(r) PROVE GoodNext(p, r, t, del)
        BY DEF GoodNext
    <2>1. /\ Acks(p, r.next_nr, del)
          /\ \A i \in DOMAIN a : Numbered(a[i]) =>
               Dist(p.confirm_ns, a[i].nr) <= Dist(p.confirm_ns, r.next_nr)
        BY DEF AckDir, GoodNext
    <2>2. Dist(p.confirm_ns, r.next_nr) <= Dist(p.confirm_ns, r.next_nr)
        BY DistType DEF PeerType
    <2> QED
        BY <1>0, <1>1, <2>1, <2>2 DEF GoodNext
<1> QED
    BY <1>3, <1>4, <1>6, <1>7 DEF AckDir

LEMMA JoinOut ==
  ASSUME NEW p, NEW n, NEW r, NEW a, NEW b, NEW del, NEW conf, NEW f, NEW t,
         AckDir(p, n, r, a, b, del, conf), IsAppend(b, f, t), f.type \in {"DM", "RR", "REJ", "I"},
         Numbered(f) => LinkUp(p), f.type = "I" => n - f.data < Len(p.window)
  PROVE  AckDir(p, n, r, a, t, del, conf)
<1>1. ~Barrier(f) /\ f.type # "UA" /\ f.type # "SABM"
    BY DEF Barrier
<1>2. /\ \A i \in DOMAIN t : t[i] = f \/ (i \in DOMAIN b /\ t[i] = b[i])
      /\ ~Numbered(f) /\ Silent(b) => Silent(t)
      /\ \A i \in DOMAIN b : ClearFrom(t, i) => ClearFrom(b, i)
      /\ ClearFrom(b, 0) => ClearFrom(t, 0)
    BY <1>1, AppendClear
<1>3. OneBarrier(a, t)
    BY <1>2 DEF AckDir, OneBarrier
<1>4. Calls(p, t)
    BY <1>1, <1>2 DEF AckDir, Calls
<1>5. Answered(p, r, a, t)
    BY <1>2 DEF AckDir, Answered
<1>6. OnTheWay(p, n, r, t, del)
    <2> SUFFICES ASSUME LinkUp(p), LinkUp(r) \/ \E i \in DOMAIN t : t[i].type = "UA",
                        NEW i \in DOMAIN t, t[i].type = "I", ClearFrom(t, i)
                 PROVE  n - t[i].data < Len(p.window) \/ Got(del, t[i].data)
        BY DEF OnTheWay
    <2>1. LinkUp(r) \/ \E j \in DOMAIN b : b[j].type = "UA"
        BY <1>1, <1>2
    <2> QED
        BY <1>2, <2>1 DEF AckDir, OnTheWay
<1> QED
    BY <1>3, <1>4, <1>5, <1>6 DEF AckDir

\* The sender, or the receiver, goes down or stays as it is.
LEMMA SenderDown ==
  ASSUME NEW p, NEW n, NEW r, NEW a, NEW b, NEW del, NEW conf, NEW q, NEW m,
         AckDir(p, n, r, a, b, del, conf), q.state \in {"DISCONNECTED", "CONNECTING"}
  PROVE  AckDir(q, m, r, a, b, del, conf)
BY DEF AckDir, Calls, Answered, GoodAcks, GoodNext, OnTheWay, LinkUp

LEMMA ReceiverDown ==
  ASSUME NEW p, NEW n, NEW r, NEW a, NEW b, NEW del, NEW conf, NEW q,
         AckDir(p, n, r, a, b, del, conf), LinkUp(q) => LinkUp(r) /\ q.next_nr = r.next_nr
  PROVE  AckDir(p, n, q, a, b, del, conf)
BY DEF AckDir, Answered, GoodNext, OnTheWay

LEMMA SenderSame ==
  ASSUME NEW p, NEW n, NEW r, NEW a, NEW b, NEW del, NEW conf, NEW q,
         AckDir(p, n, r, a, b, del, conf),
         q.state = p.state, q.confirm_ns = p.confirm_ns, q.window = p.window
  PROVE  AckDir(q, n, r, a, b, del, conf)
BY DEF AckDir, Calls, Answered, GoodAcks, GoodNext, OnTheWay, LinkUp, Acks

LEMMA WindowPlace ==
  ASSUME NEW n \in Nat, NEW d \in Nat, NEW w \in Nat, NEW k \in Nat, k <= w,
         n - d < w, ~(n - d < w - k)
  PROVE  /\ (w - n) + d \in 1 .. k /\ (w - n) + d \in 1 .. w
         /\ (n - w) + ((w - n) + d) = d
OBVIOUS

\* The sender takes the acknowledgement at the head of the way: nr becomes
\* confirm_ns, and the packets before it leave the window.
LEMMA TakeAck ==
  ASSUME NEW p \in PeerType, NEW n \in Nat, NEW r \in PeerType, NEW a \in Seq(Frames), NEW b \in Seq(Frames),
         NEW del \in Seq(Nat), NEW conf, NEW q \in PeerType, NEW k \in Nat,
         AckDir(p, n, r, a, b, del, conf), 1 \in DOMAIN a, Numbered(a[1]), LinkUp(p),
         PeerOK(p, n), k = Dist(p.confirm_ns, a[1].nr),
         q.state = p.state, q.confirm_ns = a[1].nr, Len(q.window) = Len(p.window) - k,
         \A j \in 1 .. Len(p.window) - k : q.window[j] = p.window[k + j],
         \A i \in DOMAIN b : b[i].type # "UA"
  PROVE  /\ k <= Len(p.window)
         /\ \A t : IsTail(a, t) =>
              AckDir(q, n, r, t, b, del, conf \cup {p.window[j] : j \in 1 .. k})
<1>1. /\ Acks(p, a[1].nr, del) /\ k <= Len(p.window) /\ \A j \in 1 .. k : Got(del, p.window[j])
      /\ Len(p.window) \in Nat /\ LinkUp(q)
      /\ p.confirm_ns \in SeqNums /\ a[1].nr \in SeqNums
    <2>1. Acks(p, a[1].nr, del)
        BY DEF AckDir, GoodAcks
    <2>2. k <= Len(p.window) /\ \A j \in 1 .. k : Got(del, p.window[j])
        BY <2>1 DEF Acks
    <2>3. p.window \in Seq(Nat) /\ p.confirm_ns \in SeqNums
        BY DEF PeerType
    <2>4. a[1] \in Frames
        OBVIOUS
    <2>5. a[1].nr \in SeqNums
        BY <2>4 DEF Frames
    <2>6. LinkUp(q)
        BY DEF LinkUp
    <2> QED
        BY <2>1, <2>2, <2>3, <2>5, <2>6
<1> SUFFICES ASSUME NEW t, IsTail(a, t)
             PROVE  AckDir(q, n, r, t, b, del, conf \cup {p.window[j] : j \in 1 .. k})
    BY <1>1
<1>2. AckDir(p, n, r, t, b, del, conf)
    BY DropIn
<1>3. ASSUME NEW nr \in SeqNums, Acks(p, nr, del), k <= Dist(p.confirm_ns, nr)
      PROVE  Acks(q, nr, del) /\ Dist(q.confirm_ns, nr) = Dist(p.confirm_ns, nr) - k
    <2>1. Dist(q.confirm_ns, nr) = Dist(p.confirm_ns, nr) - k
        BY <1>1, <1>3, DistAfter
    <2>2. Dist(p.confirm_ns, nr) \in Nat /\ Dist(p.confirm_ns, nr) <= Len(p.window)
        BY <1>1, <1>3, DistType, SeqModAssumption DEF Acks
    <2>3. Dist(q.confirm_ns, nr) <= Len(q.window)
        BY <1>1, <2>1, <2>2
    <2>4. ASSUME NEW j \in 1 .. Dist(q.confirm_ns, nr) PROVE Got(del, q.window[j])
        <3>1. j \in 1 .. Len(p.window) - k /\ k + j \in 1 .. Dist(p.confirm_ns, nr)
            BY <1>1, <2>1, <2>2, SMTT(20)
        <3>2. Got(del, p.window[k + j])
            BY <1>3, <3>1 DEF Acks
        <3> QED
            BY <3>1, <3>2
    <2> QED
        BY <2>1, <2>3, <2>4 DEF Acks
<1>4. \A i \in DOMAIN t : /\ i + 1 \in DOMAIN a /\ t[i] = a[i + 1] /\ 1 < i + 1 /\ t[i].nr \in SeqNums
    <2> SUFFICES ASSUME NEW i \in DOMAIN t
                 PROVE  i + 1 \in DOMAIN a /\ t[i] = a[i + 1] /\ 1 < i + 1 /\ t[i].nr \in SeqNums
        OBVIOUS
    <2>1. i + 1 \in DOMAIN a /\ t[i] = a[i + 1] /\ 1 < i + 1
        BY DEF IsTail
    <2>2. a[i + 1] \in Frames
        BY <2>1
    <2> QED
        BY <2>1, <2>2 DEF Frames
<1>5. \A i \in DOMAIN t : Numbered(t[i]) =>
         Acks(p, t[i].nr, del) /\ k <= Dist(p.confirm_ns, t[i].nr) /\ Dist(p.confirm_ns, t[i].nr) \in Nat
    <2> SUFFICES ASSUME NEW i \in DOMAIN t, Numbered(t[i])
                 PROVE  Acks(p, t[i].nr, del) /\ k <= Dist(p.confirm_ns, t[i].nr)
                        /\ Dist(p.confirm_ns, t[i].nr) \in Nat
        OBVIOUS
    <2>1. Acks(p, t[i].nr, del)
        BY <1>2 DEF AckDir, GoodAcks
    <2>2. k <= Dist(p.confirm_ns, t[i].nr)
        BY <1>4 DEF AckDir, GoodAcks
    <2>3. Dist(p.confirm_ns, t[i].nr) \in Nat
        BY <1>1, <1>4, DistType, SeqModAssumption
    <2> QED
        BY <2>1, <2>2, <2>3
<1>6. GoodAcks(q, t, del)
    <2>1. \A i \in DOMAIN t : Numbered(t[i]) => Acks(q, t[i].nr, del)
        BY <1>3, <1>4, <1>5
    <2>2. ASSUME NEW i \in DOMAIN t, NEW j \in DOMAIN t, i < j, Numbered(t[i]), Numbered(t[j])
          PROVE  Dist(q.confirm_ns, t[i].nr) <= Dist(q.confirm_ns, t[j].nr)
        <3>1. Dist(p.confirm_ns, t[i].nr) <= Dist(p.confirm_ns, t[j].nr)
            BY <1>2, <2>2 DEF AckDir, GoodAcks
        <3>2. /\ Dist(q.confirm_ns, t[i].nr) = Dist(p.confirm_ns, t[i].nr) - k
              /\ Dist(q.confirm_ns, t[j].nr) = Dist(p.confirm_ns, t[j].nr) - k
            BY <1>3, <1>4, <1>5, <2>2
        <3> QED
            BY <1>5, <2>2, <3>1, <3>2
    <2> QED
        BY <2>1, <2>2 DEF GoodAcks
<1>7. GoodNext(q, r, t, del)
    <2> SUFFICES ASSUME LinkUp(r) PROVE GoodNext(q, r, t, del)
        BY DEF GoodNext
    <2>1. r.next_nr \in SeqNums /\ Acks(p, r.next_nr, del)
        BY DEF AckDir, GoodNext, PeerType
    <2>2. k <= Dist(p.confirm_ns, r.next_nr)
        BY DEF AckDir, GoodNext
    <2>3. Acks(q, r.next_nr, del) /\ Dist(q.confirm_ns, r.next_nr) = Dist(p.confirm_ns, r.next_nr) - k
        BY <1>3, <2>1, <2>2
    <2>4. ASSUME NEW i \in DOMAIN t, Numbered(t[i])
          PROVE  Dist(q.confirm_ns, t[i].nr) <= Dist(q.confirm_ns, r.next_nr)
        <3>1. Dist(p.confirm_ns, t[i].nr) <= Dist(p.confirm_ns, r.next_nr)
            BY <1>2, <2>4 DEF AckDir, GoodNext
        <3>2. Dist(q.confirm_ns, t[i].nr) = Dist(p.confirm_ns, t[i].nr) - k
            BY <1>3, <1>4, <1>5, <2>4
        <3>3. Dist(p.confirm_ns, r.next_nr) \in Nat
            BY <1>1, <2>1, DistType, SeqModAssumption
        <3> QED
            BY <1>5, <2>3, <2>4, <3>1, <3>2, <3>3
    <2> QED
        BY <2>3, <2>4 DEF GoodNext
<1>8. OnTheWay(q, n, r, b, del)
    <2> SUFFICES ASSUME LinkUp(r) \/ \E i \in DOMAIN b : b[i].type = "UA",
                        NEW i \in DOMAIN b, b[i].type = "I", ClearFrom(b, i)
                 PROVE  n - b[i].data < Len(q.window) \/ Got(del, b[i].data)
        BY DEF OnTheWay
    <2>1. n - b[i].data < Len(p.window) \/ Got(del, b[i].data)
        BY DEF AckDir, OnTheWay
    <2>2. b[i].data \in Nat /\ Len(p.window) <= n /\ Len(p.window) \in Nat
        <3>1. b[i] \in Frames
            OBVIOUS
        <3> QED
            BY <3>1, <1>1 DEF Frames, PeerOK
    <2>3. PICK d \in Nat, w \in Nat : d = b[i].data /\ w = Len(p.window)
        BY <2>2
    <2>4. w <= n /\ k <= w
        BY <1>1, <2>2, <2>3
    <2>5. ASSUME n - d < w, ~(n - d < w - k)
          PROVE  /\ (w - n) + d \in 1 .. k /\ (w - n) + d \in 1 .. w
                 /\ (n - w) + ((w - n) + d) = d
        BY <2>4, <2>5, WindowPlace
    <2>6. CASE n - d < w /\ ~(n - d < w - k)
        <3>1. p.window[(w - n) + d] = (n - w) + ((w - n) + d)
            BY <2>3, <2>5, <2>6 DEF PeerOK
        <3>2. p.window[(w - n) + d] = d
            BY <2>5, <2>6, <3>1
        <3> QED
            BY <1>1, <2>3, <2>5, <2>6, <3>2
    <2> QED
        BY <2>1, <2>3, <2>6
<1>9. Calls(q, b) /\ Answered(q, r, t, b)
    BY <1>1, <1>2 DEF AckDir, Calls, Answered
<1>10. \A d \in conf \cup {p.window[j] : j \in 1 .. k} : Got(del, d)
    BY <1>1 DEF AckDir
<1> QED
    BY <1>2, <1>6, <1>7, <1>8, <1>9, <1>10 DEF AckDir

-----------------------------------------------------------------------------
(* The way to a station: the line, and behind it a service queue *)

LEMMA TailIndices ==
  ASSUME NEW x \in Nat, x > 0
  PROVE  /\ 1 \in 1 .. x
         /\ \A i \in 1 .. x - 1 : i + 1 \in 1 .. x /\ i \in Nat /\ i > 0
         /\ \A i \in 1 .. x : i \in Nat /\ (i > 1 => i - 1 \in 1 .. x - 1 /\ (i - 1) + 1 = i)
OBVIOUS

LEMMA IsTailOf ==
  ASSUME NEW a \in Seq(Frames), NEW t \in Seq(Frames), Len(a) > 0, Len(t) = Len(a) - 1,
         \A i \in 1 .. Len(a) - 1 : t[i] = a[i + 1]
  PROVE  IsTail(a, t)
<1>1. PICK x \in Nat : x = Len(a)
    OBVIOUS
<1>2. DOMAIN a = 1 .. x /\ DOMAIN t = 1 .. x - 1 /\ x > 0
    BY <1>1
<1>3. \A i \in 1 .. x - 1 : t[i] = a[i + 1]
    BY <1>1
<1> QED
    BY <1>2, <1>3, TailIndices DEF IsTail

LEMMA IsAppendOf ==
  ASSUME NEW a \in Seq(Frames), NEW f \in Frames
  PROVE  IsAppend(a, f, Append(a, f))
<1> DEFINE t == Append(a, f)
<1>1. /\ \A i \in DOMAIN a : i \in Nat /\ i > 0 /\ i \in DOMAIN t /\ t[i] = a[i] /\ i < Len(a) + 1
      /\ \A i \in DOMAIN t : i \in DOMAIN a \/ i = Len(a) + 1
    BY AppendToLine
<1>2. t \in Seq(Frames) /\ Len(t) = Len(a) + 1 /\ t[Len(a) + 1] = f /\ Len(a) \in Nat
    BY AppendProperties
<1>3. Len(a) + 1 \in DOMAIN t /\ Len(a) + 1 \notin DOMAIN a
    BY <1>2
<1> QED
    BY <1>1, <1>2, <1>3 DEF IsAppend

LEMMA WayTail ==
  ASSUME NEW l \in Seq(Frames), l # <<>>, NEW u \in Seq(Frames)
  PROVE  /\ IsTail(l \o u, Tail(l) \o u) /\ 1 \in DOMAIN (l \o u) /\ (l \o u)[1] = Head(l)
         /\ l \o u \in Seq(Frames) /\ Tail(l) \o u \in Seq(Frames)
<1>1. /\ Tail(l) \in Seq(Frames) /\ Len(Tail(l)) = Len(l) - 1 /\ Head(l) = l[1]
      /\ \A i \in 1 .. Len(l) - 1 : Tail(l)[i] = l[i + 1]
    BY HeadTailProperties
<1>2. Len(l) \in Nat /\ Len(l) > 0 /\ Len(u) \in Nat
    BY EmptySeq
<1>3. /\ l \o u \in Seq(Frames) /\ Len(l \o u) = Len(l) + Len(u)
      /\ \A i \in 1 .. Len(l) + Len(u) : (l \o u)[i] = IF i <= Len(l) THEN l[i] ELSE u[i - Len(l)]
    BY ConcatProperties
<1>4. /\ Tail(l) \o u \in Seq(Frames) /\ Len(Tail(l) \o u) = Len(Tail(l)) + Len(u)
      /\ \A i \in 1 .. Len(Tail(l)) + Len(u) :
           (Tail(l) \o u)[i] = IF i <= Len(Tail(l)) THEN Tail(l)[i] ELSE u[i - Len(Tail(l))]
    BY <1>1, ConcatProperties
<1>5. PICK x \in Nat, y \in Nat : x = Len(l) /\ y = Len(u)
    BY <1>2
<1>6. ASSUME NEW i \in 1 .. (x + y) - 1 PROVE (Tail(l) \o u)[i] = (l \o u)[i + 1]
    <2>1. i \in 1 .. (x - 1) + y /\ i + 1 \in 1 .. x + y /\ i - (x - 1) = (i + 1) - x
        BY <1>6
    <2>2. (Tail(l) \o u)[i] = IF i <= x - 1 THEN Tail(l)[i] ELSE u[i - (x - 1)]
        BY <1>1, <1>4, <1>5, <2>1
    <2>3. (l \o u)[i + 1] = IF i + 1 <= x THEN l[i + 1] ELSE u[(i + 1) - x]
        BY <1>3, <1>5, <2>1
    <2>4. i <= x - 1 <=> i + 1 <= x
        BY <1>6
    <2>5. CASE i <= x - 1
        <3>1. i \in 1 .. x - 1
            BY <1>6, <2>5
        <3> QED
            BY <1>1, <1>5, <2>2, <2>3, <2>4, <2>5, <3>1
    <2>6. CASE ~(i <= x - 1)
        BY <2>1, <2>2, <2>3, <2>4, <2>6
    <2> QED
        BY <2>5, <2>6
<1>7. /\ Len(l \o u) > 0 /\ Len(Tail(l) \o u) = Len(l \o u) - 1
      /\ \A i \in 1 .. Len(l \o u) - 1 : (Tail(l) \o u)[i] = (l \o u)[i + 1]
    BY <1>1, <1>2, <1>3, <1>4, <1>5, <1>6
<1>8. IsTail(l \o u, Tail(l) \o u)
    BY <1>3, <1>4, <1>7, IsTailOf
<1>9. 1 \in 1 .. Len(l) + Len(u) /\ 1 <= Len(l)
    BY <1>2
<1>10. 1 \in DOMAIN (l \o u) /\ (l \o u)[1] = Head(l)
    BY <1>1, <1>3, <1>9
<1> QED
    BY <1>3, <1>4, <1>8, <1>10

LEMMA WayAppend ==
  ASSUME NEW l \in Seq(Frames), NEW u \in Seq(Frames), NEW f \in Frames
  PROVE  /\ l \o Append(u, f) = Append(l \o u, f)
         /\ IsAppend(l \o u, f, l \o Append(u, f))
         /\ l \o u \in Seq(Frames) /\ l \o Append(u, f) \in Seq(Frames)
<1>1. Append(u, f) = u \o <<f>> /\ Append(l \o u, f) = (l \o u) \o <<f>> /\ l \o u \in Seq(Frames)
    <2>1. l \o u \in Seq(Frames)
        BY ConcatProperties
    <2>2. Append(l \o u, f) = (l \o u) \o <<f>>
        BY <2>1, AppendIsConcat
    <2>3. Append(u, f) = u \o <<f>>
        BY AppendIsConcat
    <2> QED
        BY <2>1, <2>2, <2>3
<1>2. <<f>> \in Seq(Frames)
    OBVIOUS
<1>3. l \o (u \o <<f>>) = (l \o u) \o <<f>>
    BY <1>2, ConcatAssociative
<1>4. l \o Append(u, f) = Append(l \o u, f)
    BY <1>1, <1>3
<1>5. IsAppend(l \o u, f, Append(l \o u, f)) /\ Append(l \o u, f) \in Seq(Frames)
    BY <1>1, IsAppendOf, AppendProperties
<1> QED
    BY <1>1, <1>4, <1>5

LEMMA WayMove ==
  ASSUME NEW l \in Seq(Frames), NEW u \in Seq(Frames), u # <<>>
  PROVE  Append(l, Head(u)) \o Tail(u) = l \o u
<1>1. Head(u) \in Frames /\ Tail(u) \in Seq(Frames)
    BY HeadTailProperties
<1>2. Append(l, Head(u)) = l \o <<Head(u)>> /\ <<Head(u)>> \in Seq(Frames)
    BY <1>1, AppendIsConcat
<1>3. (l \o <<Head(u)>>) \o Tail(u) = l \o (<<Head(u)>> \o Tail(u))
    BY <1>1, <1>2, ConcatAssociative
<1>4. <<Head(u)>> \o Tail(u) = u
    OBVIOUS
<1> QED
    BY <1>2, <1>3, <1>4

LEMMA WayDirect ==
  ASSUME NEW l \in Seq(Frames), NEW f \in Frames
  PROVE  /\ Append(l, f) \o <<>> = Append(l \o <<>>, f)
         /\ IsAppend(l \o <<>>, f, Append(l, f) \o <<>>)
<1>1. l \o <<>> = l /\ Append(l, f) \in Seq(Frames)
    BY ConcatEmptySeq, AppendProperties
<1>2. Append(l, f) \o <<>> = Append(l, f)
    BY <1>1, ConcatEmptySeq
<1> QED
    BY <1>1, <1>2, IsAppendOf

-----------------------------------------------------------------------------
(* What a step does to the acknowledgements of one direction *)

LEMMA MoreDelivered ==
  ASSUME NEW del \in Seq(Nat), NEW x \in Nat
  PROVE  /\ \A d : Got(del, d) => Got(Append(del, x), d)
         /\ Got(Append(del, x), x)
<1>1. /\ Append(del, x) \in Seq(Nat) /\ Len(Append(del, x)) = Len(del) + 1 /\ Len(del) \in Nat
      /\ \A i \in 1 .. Len(del) : Append(del, x)[i] = del[i]
      /\ Append(del, x)[Len(del) + 1] = x
    BY AppendProperties
<1>2. /\ DOMAIN del = 1 .. Len(del) /\ DOMAIN Append(del, x) = 1 .. Len(del) + 1
    BY <1>1
<1>3. \A i \in DOMAIN del : i \in DOMAIN Append(del, x)
    BY <1>1, <1>2
<1>4. Len(del) + 1 \in DOMAIN Append(del, x)
    BY <1>1, <1>2
<1> HIDE DEF Got
<1>5. ASSUME NEW d, Got(del, d) PROVE Got(Append(del, x), d)
    <2>1. PICK i \in DOMAIN del : del[i] = d
        BY <1>5 DEF Got
    <2> QED
        BY <1>1, <1>2, <1>3, <2>1 DEF Got
<1> QED
    BY <1>1, <1>4, <1>5 DEF Got

\* What was delivered is not newer than the packet delivered last.
LEMMA GotIsOld ==
  ASSUME NEW del \in Seq(Nat), Increasing(del), NEW d, Got(del, d)
  PROVE  d \in Nat /\ d <= LastOf(del)
<1>1. PICK i \in DOMAIN del : del[i] = d
    BY DEF Got
<1>2. Len(del) \in Nat /\ DOMAIN del = 1 .. Len(del) /\ del # <<>> /\ del[i] \in Nat
    BY <1>1
<1>3. i = Len(del) \/ (i < Len(del) /\ Len(del) \in DOMAIN del)
    BY <1>2
<1>4. CASE i = Len(del)
    BY <1>1, <1>2, <1>4 DEF LastOf
<1>5. CASE i < Len(del) /\ Len(del) \in DOMAIN del
    <2>1. del[i] < del[Len(del)] /\ del[Len(del)] \in Nat
        BY <1>5 DEF Increasing
    <2> QED
        BY <1>1, <1>2, <2>1 DEF LastOf
<1> QED
    BY <1>3, <1>4, <1>5

\* The place of the packet with the number waited for.
LEMMA PacketPlace ==
  ASSUME NEW n \in Nat, NEW d \in Nat, NEW w \in Nat, NEW x \in Nat, NEW m \in Nat,
         w <= m, n - d < w, d <= n, x = w - ((n - d) + 1)
  PROVE  /\ x + 1 \in 1 .. w /\ x + 1 <= w /\ x < m /\ (n - w) + (x + 1) = d
         /\ (n - d) + 1 <= w
OBVIOUS

\* The receiver takes the packet with the number it waits for: l[1] is the head
\* of the line and of the way b.
LEMMA TakePacket ==
  ASSUME NEW p, NEW n \in Nat, NEW r \in PeerType, NEW a, NEW b, NEW l \in Seq(Frames),
         NEW del \in Seq(Nat), NEW conf, NEW q, NEW s,
         AckDir(p, n, r, a, b, del, conf), Dir(p, n, l, s, r, del, {}),
         1 \in DOMAIN b, 1 \in DOMAIN l, l[1] = b[1], b[1].type = "I", b[1].ns = r.next_nr,
         LinkUp(r), LinkUp(q), q.next_nr = SeqNext(r.next_nr),
         \A i \in DOMAIN b : b[i].type # "UA", \A i \in DOMAIN a : Numbered(a[i]) => a[i].nr \in SeqNums
  PROVE  \A t : IsTail(b, t) => AckDir(p, n, q, a, t, Append(del, b[1].data), conf)
<1> SUFFICES ASSUME NEW t, IsTail(b, t)
             PROVE  AckDir(p, n, q, a, t, Append(del, b[1].data), conf)
    OBVIOUS
<1> DEFINE d == b[1].data
           e == Append(del, d)
<1>1. AckDir(p, n, r, a, t, del, conf)
    BY DropOut
<1>2. PeerOK(p, n) /\ LineWindow(p, n, l) /\ Increasing(del) /\ LastLine(r, LastOf(del), l)
    BY DEF Dir
<1>3. /\ p \in PeerType /\ p.confirm_ns \in SeqNums /\ p.last_ns \in SeqNums /\ r.next_nr \in SeqNums
      /\ Len(p.window) \in Nat /\ Len(p.window) <= n /\ Len(p.window) <= MaxWindow
      /\ Dist(p.confirm_ns, p.last_ns) = Len(p.window)
    BY <1>2 DEF PeerOK, PeerType
<1>4. d \in Nat /\ d <= n
    BY <1>2 DEF LineWindow
<1>5. /\ \A x : Got(del, x) => Got(e, x)
      /\ Got(e, d)
    BY <1>4, MoreDelivered
<1>6. Numbered(b[1]) /\ ~Silent(b)
    BY DEF Numbered, Silent
<1>7. \A i \in DOMAIN a : a[i].type # "UA"
    BY <1>6 DEF AckDir, Answered
<1>8. \A nr : Acks(p, nr, del) => Acks(p, nr, e)
    BY <1>5 DEF Acks
<1> HIDE DEF e
<1>9. ASSUME LinkUp(p)
      PROVE  /\ Acks(p, q.next_nr, e)
             /\ Dist(p.confirm_ns, q.next_nr) = Dist(p.confirm_ns, r.next_nr) + 1
    <2>1. ClearFrom(b, 1)
        <3>1. \A i \in DOMAIN b : b[i].type # "SABM"
            BY <1>9 DEF AckDir, Calls
        <3> QED
            BY <3>1 DEF ClearFrom, Barrier
    <2>2. n - d < Len(p.window) \/ Got(del, d)
        BY <1>9, <2>1 DEF AckDir, OnTheWay
    <2>3. ~Got(del, d)
        <3> SUFFICES ASSUME Got(del, d) PROVE FALSE
            OBVIOUS
        <3>1. d <= LastOf(del) /\ LastOf(del) \in Nat
            BY <1>2, GotIsOld, LastIsNat
        <3>2. Dist(b[1].ns, r.next_nr) = (LastOf(del) - d) + 1
            BY <1>2, <3>1 DEF LastLine
        <3>3. Dist(b[1].ns, r.next_nr) = 0
            BY <1>3, DistType
        <3> QED
            BY <1>4, <3>1, <3>2, <3>3
    <2>4. Dist(r.next_nr, p.last_ns) = (n - d) + 1
        BY <1>2, <2>2, <2>3 DEF LineWindow
    <2>5. PICK w \in Nat : w = Len(p.window)
        BY <1>3
    <2>6. (n - d) + 1 <= w
        BY <1>4, <2>2, <2>3, <2>5
    <2>7. Dist(p.confirm_ns, r.next_nr) = w - ((n - d) + 1)
        BY <1>3, <2>4, <2>5, <2>6, DistSub
    <2>8. PICK x \in Nat : x = Dist(p.confirm_ns, r.next_nr)
        BY <1>3, DistType, SeqModAssumption
    <2>9. PICK m \in Nat : m = SeqMod - 1 /\ w <= m
        BY <1>3, <2>5, MaxWindowFacts, SeqModAssumption
    <2>10. x + 1 \in 1 .. w /\ x + 1 <= w /\ x < m /\ (n - w) + (x + 1) = d
        <3>1. n - d < w /\ x = w - ((n - d) + 1)
            BY <2>2, <2>3, <2>5, <2>7, <2>8
        <3> HIDE DEF d
        <3> QED
            BY <1>4, <2>9, <3>1, PacketPlace
    <2>11. Dist(p.confirm_ns, q.next_nr) = x + 1
        BY <1>3, <2>8, <2>9, <2>10, DistNext
    <2>12. p.window[x + 1] = d
        BY <1>2, <2>5, <2>10 DEF PeerOK
    <2>13. ASSUME NEW k \in 1 .. x + 1 PROVE Got(e, p.window[k])
        <3>1. CASE k = x + 1
            BY <1>5, <2>12, <3>1
        <3>2. CASE k # x + 1
            <4>1. k \in 1 .. x
                BY <3>2
            <4>2. Acks(p, r.next_nr, del)
                BY <1>9 DEF AckDir, GoodNext
            <4> QED
                BY <1>5, <2>8, <4>1, <4>2 DEF Acks
        <3> QED
            BY <3>1, <3>2
    <2> QED
        BY <2>5, <2>8, <2>10, <2>11, <2>13 DEF Acks
<1>10. OneBarrier(a, t) /\ Calls(p, t) /\ Answered(p, q, a, t)
    BY <1>1, <1>7 DEF AckDir, Answered
<1>11. GoodAcks(p, a, e)
    BY <1>8 DEF AckDir, GoodAcks
<1>12. GoodNext(p, q, a, e)
    <2> SUFFICES ASSUME LinkUp(p), NEW i \in DOMAIN a, Numbered(a[i])
                 PROVE  Dist(p.confirm_ns, a[i].nr) <= Dist(p.confirm_ns, q.next_nr)
        BY <1>9 DEF GoodNext
    <2>1. Dist(p.confirm_ns, a[i].nr) <= Dist(p.confirm_ns, r.next_nr)
        BY DEF AckDir, GoodNext
    <2>2. Dist(p.confirm_ns, a[i].nr) \in Nat /\ Dist(p.confirm_ns, r.next_nr) \in Nat
        BY <1>3, DistType, SeqModAssumption
    <2> QED
        BY <1>9, <2>1, <2>2
<1>13. OnTheWay(p, n, q, t, e)
    BY <1>1, <1>5 DEF AckDir, OnTheWay
<1>14. \A x \in conf : Got(e, x)
    BY <1>5 DEF AckDir
<1> QED
    BY <1>1, <1>10, <1>11, <1>12, <1>13, <1>14 DEF AckDir, e

\* The application of the sender hands over a packet.
LEMMA SendMore ==
  ASSUME NEW p \in PeerType, NEW n \in Nat, NEW r, NEW a, NEW b \in Seq(Frames), NEW del, NEW conf, NEW q,
         AckDir(p, n, r, a, b, del, conf), q.state = p.state, q.confirm_ns = p.confirm_ns,
         Len(q.window) = Len(p.window) + 1, \A k \in 1 .. Len(p.window) : q.window[k] = p.window[k],
         \A i \in DOMAIN a : Numbered(a[i]) => a[i].nr \in SeqNums, r \in PeerType
  PROVE  AckDir(q, n + 1, r, a, b, del, conf)
<1>1. Len(p.window) \in Nat /\ p.confirm_ns \in SeqNums /\ (LinkUp(q) <=> LinkUp(p))
    BY DEF PeerType, LinkUp
<1>2. ASSUME NEW nr \in SeqNums, Acks(p, nr, del) PROVE Acks(q, nr, del)
    <2>1. Dist(p.confirm_ns, nr) \in Nat /\ Dist(p.confirm_ns, nr) <= Len(p.window)
        BY <1>1, <1>2, DistType, SeqModAssumption DEF Acks
    <2>2. Dist(q.confirm_ns, nr) <= Len(q.window)
        BY <1>1, <2>1
    <2>3. \A k \in 1 .. Dist(p.confirm_ns, nr) : k \in 1 .. Len(p.window)
        BY <1>1, <2>1
    <2> QED
        BY <1>2, <2>2, <2>3 DEF Acks
<1>3. Calls(q, b) /\ Answered(q, r, a, b)
    BY <1>1 DEF AckDir, Calls, Answered
<1>4. GoodAcks(q, a, del)
    BY <1>1, <1>2 DEF AckDir, GoodAcks
<1>5. GoodNext(q, r, a, del)
    <2>1. r.next_nr \in SeqNums
        BY DEF PeerType
    <2> QED
        BY <1>1, <1>2, <2>1 DEF AckDir, GoodNext
<1>6. OnTheWay(q, n + 1, r, b, del)
    <2> SUFFICES ASSUME LinkUp(q), LinkUp(r) \/ \E i \in DOMAIN b : b[i].type = "UA",
                        NEW i \in DOMAIN b, b[i].type = "I", ClearFrom(b, i)
                 PROVE  (n + 1) - b[i].data < Len(q.window) \/ Got(del, b[i].data)
        BY DEF OnTheWay
    <2>1. n - b[i].data < Len(p.window) \/ Got(del, b[i].data)
        BY <1>1 DEF AckDir, OnTheWay
    <2>2. b[i] \in Frames
        OBVIOUS
    <2>3. PICK d \in Nat, w \in Nat : d = b[i].data /\ w = Len(p.window)
        BY <1>1, <2>2 DEF Frames
    <2>4. n - d < w => (n + 1) - d < w + 1
        OBVIOUS
    <2> QED
        BY <2>1, <2>3, <2>4
<1> QED
    BY <1>3, <1>4, <1>5, <1>6 DEF AckDir

\* SABM is sent when nothing is on its way.
LEMMA CallOut ==
  ASSUME NEW p, NEW n, NEW r, NEW a, NEW b, NEW del, NEW conf, NEW t,
         AckDir(p, n, r, a, b, del, conf), DOMAIN a = {}, DOMAIN b = {}, IsAppend(b, U("SABM"), t),
         p.state \in {"DISCONNECTED", "CONNECTING"}
  PROVE  AckDir(p, n, r, a, t, del, conf) 
<1>1. \A i \in DOMAIN t : t[i] = U("SABM")
    BY DEF IsAppend
<1>2. ~LinkUp(p) /\ Silent(t)
    BY <1>1 DEF LinkUp, Silent, Numbered, U, STypes
<1> QED
    BY <1>1, <1>2 DEF AckDir, OneBarrier, Calls, Answered, GoodAcks, GoodNext, OnTheWay, ClearFrom

LEMMA CallIn ==
  ASSUME NEW p, NEW n, NEW r, NEW a, NEW b, NEW del, NEW conf, NEW t,
         AckDir(p, n, r, a, b, del, conf), DOMAIN a = {}, DOMAIN b = {}, IsAppend(a, U("SABM"), t),
         ~LinkUp(r)
  PROVE  AckDir(p, n, r, t, b, del, conf) 
<1>1. PICK m \in DOMAIN t : \A i \in DOMAIN t : i = m /\ t[i] = U("SABM")
    BY DEF IsAppend
<1>2. Silent(t) /\ \A i \in DOMAIN t : t[i].type = "SABM" /\ ~Numbered(t[i])
    BY <1>1 DEF Silent, Numbered, U, STypes
<1>3. OneBarrier(t, b)
    BY <1>1, <1>2 DEF OneBarrier, ClearFrom
<1> QED
    BY <1>2, <1>3 DEF AckDir, Calls, Answered, GoodAcks, GoodNext, OnTheWay

\* A connected station that has just counted from 0.
Fresh(q) == /\ q.state = "CONNECTED" /\ q.confirm_ns = 0 /\ q.next_nr = 0 /\ Len(q.window) = 0

LEMMA FreshAcks ==
  ASSUME NEW q, q.confirm_ns = 0, Len(q.window) \in Nat, NEW del
  PROVE  Acks(q, 0, del) /\ Dist(q.confirm_ns, 0) <= Dist(q.confirm_ns, 0)
<1>1. Dist(q.confirm_ns, 0) = 0
    BY DEF Dist
<1> QED
    BY <1>1 DEF Acks

LEMMA BarrierAtHead ==
  ASSUME NEW a, NEW b, NEW t, OneBarrier(a, b), IsTail(a, t), Barrier(a[1])
  PROVE  ClearFrom(b, 0) /\ ClearFrom(t, 0) /\ \A i \in DOMAIN t : ~Barrier(t[i])
<1>1. 1 \in DOMAIN a /\ \A i \in DOMAIN t : i \in Nat /\ i > 0 /\ i + 1 \in DOMAIN a /\ t[i] = a[i + 1]
    BY DEF IsTail
<1>2. ClearFrom(b, 0)
    BY <1>1 DEF OneBarrier, ClearFrom
<1>3. ASSUME NEW i \in DOMAIN t PROVE ~Barrier(t[i])
    <2>1. i + 1 # 1
        BY <1>1
    <2> QED
        BY <1>1, <2>1 DEF OneBarrier
<1> QED
    BY <1>2, <1>3 DEF ClearFrom

\* The sender gets the UA it waits for and starts to count from 0.
LEMMA TakeUAIn ==
  ASSUME NEW p, NEW n, NEW r, NEW a, NEW b, NEW del, NEW conf, NEW q, NEW t,
         AckDir(p, n, r, a, b, del, conf), IsTail(a, t), a[1].type = "UA", Fresh(q), \A i \in DOMAIN b : ~Barrier(b[i])
  PROVE  AckDir(q, n, r, t, b, del, conf)
<1>0. /\ 1 \in DOMAIN a /\ \A i \in DOMAIN t : i + 1 \in DOMAIN a /\ t[i] = a[i + 1] /\ i + 1 > 1
    BY DEF IsTail
<1>1. AckDir(p, n, r, t, b, del, conf)
    BY DropIn
<1>2. \A i \in DOMAIN t : ~Barrier(t[i])
    BY BarrierAtHead DEF AckDir, Barrier
<1>3. Silent(b) /\ (\A j \in DOMAIN t : Numbered(t[j]) => t[j].nr = 0) /\ (LinkUp(r) => r.next_nr = 0)
    BY <1>0 DEF AckDir, Answered
<1>4. Acks(q, 0, del) /\ Dist(q.confirm_ns, 0) <= Dist(q.confirm_ns, 0)
    BY FreshAcks DEF Fresh
<1>5. GoodAcks(q, t, del) /\ GoodNext(q, r, t, del)
    BY <1>3, <1>4 DEF GoodAcks, GoodNext
<1>6. Answered(q, r, t, b)
    BY <1>2 DEF Answered, Barrier
<1>7. OnTheWay(q, n, r, b, del)
    BY <1>3 DEF OnTheWay, Silent, Numbered
<1>8. Calls(q, b)
    BY DEF Calls, Barrier
<1> QED
    BY <1>1, <1>5, <1>6, <1>7, <1>8 DEF AckDir, Fresh

\* The receiver gets the UA it waits for and starts to count from 0.
LEMMA TakeUAOut ==
  ASSUME NEW p \in PeerType, NEW n, NEW r, NEW a, NEW b, NEW del, NEW conf, NEW q, NEW t,
         AckDir(p, n, r, a, b, del, conf), IsTail(b, t), b[1].type = "UA", Fresh(q),
         \A i \in DOMAIN a : ~Barrier(a[i]), Silent(a), \A i \in DOMAIN t : ~Barrier(t[i])
  PROVE  AckDir(p, n, q, a, t, del, conf)
<1>1. AckDir(p, n, r, a, t, del, conf) /\ 1 \in DOMAIN b
    BY DropOut DEF IsTail
<1>2. /\ LinkUp(p) => p.confirm_ns = 0
      /\ Len(p.window) \in Nat
    BY <1>1 DEF AckDir, Calls, PeerType
<1>3. LinkUp(p) => Acks(p, 0, del)
    BY <1>2, FreshAcks
<1>4. GoodNext(p, q, a, del)
    BY <1>3 DEF GoodNext, Fresh, Silent
<1>5. Answered(p, q, a, t)
    BY DEF Answered, Barrier
<1>6. OnTheWay(p, n, q, t, del)
    <2>0. \A i \in DOMAIN t : i + 1 \in DOMAIN b /\ t[i] = b[i + 1]
        BY DEF IsTail
    <2> SUFFICES ASSUME LinkUp(p), NEW i \in DOMAIN t, t[i].type = "I", ClearFrom(t, i)
                 PROVE  n - t[i].data < Len(p.window) \/ Got(del, t[i].data)
        BY DEF OnTheWay
    <2>1. i + 1 \in DOMAIN b /\ b[i + 1] = t[i] /\ ClearFrom(b, i + 1)
        BY <2>0, TailClear
    <2> QED
        BY <1>1, <2>1 DEF AckDir, OnTheWay
<1> QED
    BY <1>1, <1>4, <1>5, <1>6 DEF AckDir

\* The sender gets SABM, resets and answers with UA if its queue has room.
LEMMA TakeSABMIn ==
  ASSUME NEW p, NEW n, NEW r, NEW a, NEW b, NEW del, NEW conf, NEW q, NEW t, NEW u,
         AckDir(p, n, r, a, b, del, conf), IsTail(a, t), a[1].type = "SABM", Fresh(q),
         \A i \in DOMAIN b : ~Barrier(b[i]), Silent(a), ~LinkUp(r), u = b \/ IsAppend(b, U("UA"), u)
  PROVE  AckDir(q, n, r, t, u, del, conf)
<1>1. AckDir(p, n, r, t, b, del, conf) /\ Silent(t)
    BY DropIn, TailClear
<1>2. \A i \in DOMAIN t : ~Barrier(t[i])
    BY BarrierAtHead DEF AckDir, Barrier
<1>3. OneBarrier(t, u)
    BY <1>1, <1>2 DEF AckDir, OneBarrier, ClearFrom
<1>4. Calls(q, u)
    <2>1. \A i \in DOMAIN u : u[i].type # "SABM"
        BY DEF IsAppend, Barrier, U
    <2> QED
        BY <2>1 DEF Calls, Fresh
<1>5. Answered(q, r, t, u)
    BY <1>2 DEF Answered, Barrier
<1>6. GoodAcks(q, t, del) /\ GoodNext(q, r, t, del)
    BY <1>1 DEF GoodAcks, GoodNext, Silent
<1>7. OnTheWay(q, n, r, u, del)
    <2>1. CASE u = b
        BY <2>1 DEF OnTheWay, Barrier
    <2>2. CASE IsAppend(b, U("UA"), u)
        <3>1. PICK m \in DOMAIN u : /\ u[m] = U("UA") /\ \A i \in DOMAIN b : i < m
                                    /\ m \in Nat /\ \A i \in DOMAIN u : i \in DOMAIN b \/ i = m
            BY <2>2 DEF IsAppend
        <3>2. Barrier(u[m]) /\ u[m].type # "I" /\ \A i \in DOMAIN b : i \in Nat
            BY <2>2, <3>1 DEF Barrier, U, IsAppend
        <3>3. \A i \in DOMAIN b : m > i
            BY <3>1, <3>2
        <3>4. \A i \in DOMAIN u : u[i].type = "I" => ~ClearFrom(u, i)
            BY <3>1, <3>2, <3>3 DEF ClearFrom
        <3> QED
            BY <3>4 DEF OnTheWay
    <2> QED
        BY <2>1, <2>2
<1> QED
    BY <1>1, <1>3, <1>4, <1>5, <1>6, <1>7 DEF AckDir, Fresh

\* The receiver gets SABM.
LEMMA TakeSABMOut ==
  ASSUME NEW p, NEW n, NEW r, NEW a, NEW b, NEW del, NEW conf, NEW q, NEW t, NEW u,
         AckDir(p, n, r, a, b, del, conf), IsTail(b, t), b[1].type = "SABM", Fresh(q),
         \A i \in DOMAIN a : ~Barrier(a[i]), \A i \in DOMAIN t : ~Barrier(t[i]),
         u = a \/ IsAppend(a, U("UA"), u)
  PROVE  AckDir(p, n, q, u, t, del, conf)
<1>1. AckDir(p, n, r, a, t, del, conf) /\ ~LinkUp(p) /\ Silent(t)
    <2>1. 1 \in DOMAIN b
        BY DEF IsTail
    <2>2. ~LinkUp(p) /\ Silent(b)
        BY <2>1 DEF AckDir, Calls
    <2> QED
        BY <2>2, DropOut, TailClear
<1>2. \A i \in DOMAIN u : (i \in DOMAIN a /\ u[i] = a[i]) \/ u[i] = U("UA")
    BY DEF IsAppend
<1>3. OneBarrier(u, t)
    <2>1. \A i \in DOMAIN u : u[i].type \in {"SABM", "UA", "DM", "RR", "REJ", "I"}
        BY <1>1, <1>2 DEF AckDir, OneBarrier, U
    <2>2. ASSUME NEW i \in DOMAIN u, NEW j \in DOMAIN u, Barrier(u[i]), Barrier(u[j]) PROVE i = j
        <3>1. CASE u = a
            BY <2>2, <3>1
        <3>2. CASE IsAppend(a, U("UA"), u)
            BY <2>2, <3>2 DEF IsAppend
        <3> QED
            BY <3>1, <3>2
    <2> QED
        BY <2>1, <2>2 DEF OneBarrier, ClearFrom
<1>4. Calls(p, t)
    BY DEF Calls, Barrier
<1>5. Answered(p, q, u, t)
    <2> SUFFICES ASSUME NEW i \in DOMAIN u, u[i].type = "UA"
                 PROVE  \A j \in DOMAIN u : ~(j > i)
        BY <1>1 DEF Answered, Fresh
    <2>1. CASE u = a
        BY <2>1 DEF Barrier
    <2>2. CASE IsAppend(a, U("UA"), u)
        <3>1. PICK m \in DOMAIN u : /\ \A k \in DOMAIN a : k < m
                                    /\ m \in Nat /\ \A k \in DOMAIN u : k \in DOMAIN a \/ k = m
            BY <2>2 DEF IsAppend
        <3>2. \A k \in DOMAIN a : k \in Nat /\ u[k] = a[k]
            BY <2>2 DEF IsAppend
        <3>3. i = m
            BY <3>1, <3>2 DEF Barrier
        <3> QED
            BY <3>1, <3>2, <3>3
    <2> QED
        BY <2>1, <2>2
<1>6. GoodAcks(p, u, del) /\ GoodNext(p, q, u, del) /\ OnTheWay(p, n, q, t, del)
    BY <1>1 DEF GoodAcks, GoodNext, OnTheWay
<1> QED
    BY <1>1, <1>3, <1>4, <1>5, <1>6 DEF AckDir

-----------------------------------------------------------------------------
(* What on_frame_read does to the numbers, to the window and to the queue *)

\* The record but for its timers and its queue.
SameNumbers(p, q) ==
  q.state = p.state /\ q.confirm_ns = p.confirm_ns /\ q.window = p.window /\ q.next_nr = p.next_nr

\* At most frame g was queued.
Queued(p, q, g) == q.s_queue = p.s_queue \/ q.s_queue = Append(p.s_queue, g)

LEMMA PutUSFields ==
  ASSUME NEW p \in PeerType, NEW f \in Frames
  PROVE  /\ PutUS(p, f) \in PeerType /\ SameNumbers(p, PutUS(p, f)) /\ Queued(p, PutUS(p, f), f)
         /\ PutUS(p, f).next_ns = p.next_ns /\ PutUS(p, f).last_ns = p.last_ns
         /\ PutUS(p, f).sent_nr = p.sent_nr
<1>1. p.s_queue \in Seq(Frames)
    BY DEF PeerType
<1>2. Append(p.s_queue, f) \in Seq(Frames)
    BY <1>1, AppendProperties
<1>3. CASE PutUS(p, f) = p
    BY <1>3 DEF SameNumbers, Queued
<1>4. CASE PutUS(p, f) = [p EXCEPT !.s_queue = Append(@, f)]
    BY <1>2, <1>4 DEF PeerType, SameNumbers, Queued
<1> QED
    BY <1>3, <1>4 DEF PutUS

LEMMA ResetFields ==
  ASSUME NEW p \in PeerType, NEW state \in States
  PROVE  /\ Reset(p, state) \in PeerType /\ Reset(p, state).s_queue = p.s_queue
         /\ Reset(p, state).state = state /\ Reset(p, state).confirm_ns = 0
         /\ Reset(p, state).next_nr = 0 /\ Len(Reset(p, state).window) = 0
<1>1. <<>> \in Seq(Nat) /\ Len(<<>>) = 0 /\ 0 \in SeqNums /\ (state = "CONNECTED") \in BOOLEAN
    BY ZeroIsNumber
<1> QED
    BY <1>1 DEF Reset, PeerType

LEMMA ReadMark ==
  ASSUME NEW p \in PeerType
  PROVE  /\ [p EXCEPT !.ka_confirmed = TRUE] \in PeerType
         /\ SameNumbers(p, [p EXCEPT !.ka_confirmed = TRUE])
         /\ [p EXCEPT !.ka_confirmed = TRUE].s_queue = p.s_queue
         /\ [p EXCEPT !.ka_confirmed = TRUE].next_ns = p.next_ns
         /\ [p EXCEPT !.ka_confirmed = TRUE].last_ns = p.last_ns
BY DEF PeerType, SameNumbers

LEMMA ReadDM ==
  ASSUME NEW p \in PeerType, NEW f, f.type = "DM"
  PROVE  OnFrameRead(p, f).state = "DISCONNECTED" /\ OnFrameRead(p, f).s_queue = p.s_queue
<1> DEFINE m == [p EXCEPT !.ka_confirmed = TRUE]
<1>1. m \in PeerType /\ m.s_queue = p.s_queue /\ m.state \in States
    BY ReadMark DEF PeerType
<1>2. OnFrameRead(p, f) = OnUFrame(m, f)
    BY DEF OnFrameRead, UTypes
<1> HIDE DEF m
<1>3. CASE m.state = "DISCONNECTED"
    <2>1. OnUFrame(m, f) = m
        BY <1>3 DEF OnUFrame
    <2> QED
        BY <1>1, <1>2, <1>3, <2>1
<1>4. CASE m.state # "DISCONNECTED"
    <2>1. OnUFrame(m, f) = Reset(m, "DISCONNECTED")
        BY <1>4 DEF OnUFrame, SwitchToDisconnected
    <2> QED
        BY <1>1, <1>2, <2>1, ResetFields DEF States
<1> QED
    BY <1>3, <1>4

LEMMA ReadUA ==
  ASSUME NEW p \in PeerType, NEW f, f.type = "UA", p.state # "DISCONNECTING"
  PROVE  /\ OnFrameRead(p, f).s_queue = p.s_queue
         /\ Fresh(OnFrameRead(p, f)) \/ SameNumbers(p, OnFrameRead(p, f))
<1> DEFINE m == [p EXCEPT !.ka_confirmed = TRUE]
<1>1. m \in PeerType /\ m.s_queue = p.s_queue /\ SameNumbers(p, m)
    BY ReadMark
<1>2. OnFrameRead(p, f) = OnUFrame(m, f)
    BY DEF OnFrameRead, UTypes
<1> HIDE DEF m
<1>3. m.state # "DISCONNECTING"
    BY <1>1 DEF SameNumbers
<1>4. CASE m.state = "CONNECTING"
    <2>1. OnUFrame(m, f) = Reset(m, "CONNECTED")
        BY <1>4 DEF OnUFrame, SwitchToConnected
    <2> QED
        BY <1>1, <1>2, <2>1, ResetFields DEF States, Fresh
<1>5. CASE m.state # "CONNECTING"
    <2>1. OnUFrame(m, f) = m
        BY <1>3, <1>5 DEF OnUFrame
    <2> QED
        BY <1>1, <1>2, <2>1
<1> QED
    BY <1>4, <1>5

LEMMA ReadSABM ==
  ASSUME NEW p \in PeerType, NEW f, f.type = "SABM"
  PROVE  Fresh(OnFrameRead(p, f)) /\ Queued(p, OnFrameRead(p, f), U("UA"))
<1> DEFINE m == [p EXCEPT !.ka_confirmed = TRUE]
           k == PutUS(m, U("UA"))
           d == Reset(k, "DISCONNECTED")
<1>0. U("UA") \in Frames
    BY FrameTypesOf DEF UTypes
<1>1. m \in PeerType /\ m.s_queue = p.s_queue /\ SameNumbers(p, m)
    BY ReadMark
<1>2. OnFrameRead(p, f) = OnUFrame(m, f)
    BY DEF OnFrameRead, UTypes
<1> HIDE DEF m
<1>3. k \in PeerType /\ k.state = m.state /\ Queued(m, k, U("UA"))
    BY <1>0, <1>1, PutUSFields DEF SameNumbers
<1>4. OnUFrame(m, f) = SwitchToConnected(IF LinkUp(m) THEN SwitchToDisconnected(k) ELSE k)
    BY DEF OnUFrame
<1> HIDE DEF k
<1>5. d \in PeerType /\ d.state = "DISCONNECTED" /\ d.s_queue = k.s_queue
    BY <1>3, ResetFields DEF States
<1>6. CASE LinkUp(m)
    <2>1. SwitchToDisconnected(k) = d
        BY <1>3, <1>6 DEF SwitchToDisconnected, LinkUp
    <2> HIDE DEF d
    <2>2. OnUFrame(m, f) = Reset(d, "CONNECTED")
        BY <1>4, <1>5, <1>6, <2>1 DEF SwitchToConnected
    <2> QED
        BY <1>1, <1>2, <1>3, <1>5, <2>2, ResetFields DEF States, Fresh, Queued
<1>7. CASE ~LinkUp(m)
    <2>1. OnUFrame(m, f) = Reset(k, "CONNECTED")
        BY <1>3, <1>4, <1>7 DEF SwitchToConnected, LinkUp
    <2> QED
        BY <1>1, <1>2, <1>3, <2>1, ResetFields DEF States, Fresh, Queued
<1> QED
    BY <1>6, <1>7

LEMMA ReadDown ==
  ASSUME NEW p \in PeerType, NEW f, Numbered(f), ~LinkUp(p)
  PROVE  SameNumbers(p, OnFrameRead(p, f)) /\ Queued(p, OnFrameRead(p, f), U("DM"))
<1> DEFINE m == [p EXCEPT !.ka_confirmed = TRUE]
<1>0. U("DM") \in Frames
    BY FrameTypesOf DEF UTypes
<1>1. m \in PeerType /\ m.s_queue = p.s_queue /\ SameNumbers(p, m)
    BY ReadMark
<1>2. ~LinkUp(m) /\ f.type \notin UTypes
    BY <1>1 DEF LinkUp, SameNumbers, Numbered, UTypes, STypes
<1>3. OnFrameRead(p, f) = PutUS(m, U("DM"))
    BY <1>2 DEF OnFrameRead, UTypes
<1> HIDE DEF m
<1> QED
    BY <1>0, <1>1, <1>3, PutUSFields DEF SameNumbers, Queued

LEMMA ConfirmFields ==
  ASSUME NEW p, NEW n, PeerOK(p, n), NEW nr \in SeqNums, Dist(p.confirm_ns, nr) <= Len(p.window)
  PROVE  LET k == Dist(p.confirm_ns, nr)
             q == ConfirmSentFrames(p, nr)
         IN  /\ k \in Nat /\ q.confirm_ns = nr /\ Len(q.window) = Len(p.window) - k
             /\ \A j \in 1 .. Len(p.window) - k : q.window[j] = p.window[k + j]
             /\ q.s_queue = p.s_queue /\ q.next_ns = p.next_ns
             /\ Confirms(p, nr) = k
<1> DEFINE k == Dist(p.confirm_ns, nr)
           c == IF p.confirm_ns + k >= SeqMod THEN (p.confirm_ns + k) - SeqMod ELSE p.confirm_ns + k
           w == SubSeq(p.window, k + 1, Len(p.window))
           t == IF k > 0 THEN Retries ELSE p.retries
           q == [p EXCEPT !.confirm_ns = c, !.window = w, !.retries = t]
           r == [q EXCEPT !.can_accept = @ \/ ~TxFull(q)]
<1>1. /\ p \in PeerType /\ p.window \in Seq(Nat) /\ Len(p.window) \in Nat
      /\ p.confirm_ns \in SeqNums
    BY DEF PeerOK, PeerType
<1>2. k \in Nat /\ k <= Len(p.window)
    BY <1>1, DistType, SeqModAssumption
<1>3. Confirms(p, nr) = k
    BY DEF Confirms
<1>4. c = nr
    BY <1>1, SeqModAssumption DEF SeqNums, Dist
<1>5. ConfirmSentFrames(p, nr) = r
    <2>1. q = [p EXCEPT !.confirm_ns = IF p.confirm_ns + Confirms(p, nr) >= SeqMod
                                         THEN (p.confirm_ns + Confirms(p, nr)) - SeqMod
                                         ELSE p.confirm_ns + Confirms(p, nr),
                     !.window = SubSeq(@, Confirms(p, nr) + 1, Len(@)),
                     !.retries = IF Confirms(p, nr) > 0 THEN Retries ELSE @]
        BY <1>1, <1>3 DEF PeerType
    <2> QED
        BY <2>1 DEF ConfirmSentFrames
<1>6. /\ Len(w) = Len(p.window) - k
      /\ \A j \in 1 .. Len(p.window) - k : w[j] = p.window[k + j]
    <2> HIDE DEF k
    <2> QED
        BY <1>1, <1>2, SubSeqProperties, SMTT(20)
<1> HIDE DEF k, c, w, t
<1>7. /\ r.confirm_ns = c /\ r.window = w /\ r.s_queue = p.s_queue /\ r.next_ns = p.next_ns
    BY <1>1 DEF PeerType
<1> HIDE DEF r
<1> QED
    BY <1>2, <1>3, <1>4, <1>5, <1>6, <1>7 DEF k

LEMMA CheckFields ==
  ASSUME NEW p \in PeerType, NEW ns \in SeqNums
  PROVE  LET m == CheckReceived(p, ns)
         IN  /\ m.window = p.window /\ m.confirm_ns = p.confirm_ns
             /\ Queued(p, m, S("REJ", p.next_nr)) /\ (ns = p.next_nr => m.s_queue = p.s_queue)
<1>1. CASE ns = p.next_nr
    <2>1. CheckReceived(p, ns) = [p EXCEPT !.next_nr = SeqNext(@), !.sent_reject = FALSE]
        BY <1>1 DEF CheckReceived
    <2> QED
        BY <2>1 DEF PeerType, Queued
<1>2. CASE ns # p.next_nr /\ p.sent_reject
    <2>1. CheckReceived(p, ns) = p
        BY <1>2 DEF CheckReceived
    <2> QED
        BY <1>2, <2>1 DEF Queued
<1>3. CASE ns # p.next_nr /\ ~p.sent_reject
    <2> DEFINE m == [p EXCEPT !.sent_reject = TRUE]
               f == S("REJ", p.next_nr)
    <2>1. CheckReceived(p, ns) = PutUS(m, f)
        BY <1>3 DEF CheckReceived
    <2>2. m \in PeerType /\ SameNumbers(p, m) /\ m.s_queue = p.s_queue
        BY DEF PeerType, SameNumbers
    <2>3. f \in Frames
        BY FrameTypesOf DEF PeerType, STypes
    <2> HIDE DEF m, f
    <2>4. PutUS(m, f) \in PeerType /\ SameNumbers(m, PutUS(m, f)) /\ Queued(m, PutUS(m, f), f)
        BY <2>2, <2>3, PutUSFields
    <2> QED
        BY <1>3, <2>1, <2>2, <2>4 DEF SameNumbers, Queued, f
<1> QED
    BY <1>1, <1>2, <1>3

\* A numbered frame is handled by a station that is up, and its N(R) is in the
\* window.
TookNumbered(p, f, q) ==
  LET k == Dist(p.confirm_ns, f.nr)
  IN  /\ q.state = p.state /\ q.confirm_ns = f.nr /\ Len(q.window) = Len(p.window) - k
      /\ \A j \in 1 .. Len(p.window) - k : q.window[j] = p.window[k + j]
      /\ \E g \in Frames : g.type \in STypes /\ g.nr = q.next_nr /\ Queued(p, q, g)

LEMMA ReadS ==
  ASSUME NEW p, NEW n, PeerOK(p, n), LinkUp(p), NEW f \in Frames, f.type \in STypes,
         Dist(p.confirm_ns, f.nr) <= Len(p.window)
  PROVE  TookNumbered(p, f, OnSFrame(p, f))
<1> DEFINE k == Dist(p.confirm_ns, f.nr)
           m == ConfirmSentFrames(p, f.nr)
           q == OnSFrame(p, f)
<1>1. f.nr \in SeqNums
    BY DEF Frames
<1>2. PeerOK(m, n) /\ m.next_nr = p.next_nr /\ m.state = p.state
    BY <1>1, ConfirmOK
<1>3. /\ k \in Nat /\ m.confirm_ns = f.nr /\ Len(m.window) = Len(p.window) - k
      /\ \A j \in 1 .. Len(p.window) - k : m.window[j] = p.window[k + j]
      /\ m.s_queue = p.s_queue
    BY <1>1, ConfirmFields
<1>4. m \in PeerType /\ m.next_nr \in SeqNums /\ Dist(f.nr, m.next_ns) \in Nat
    <2>1. m \in PeerType /\ m.next_ns \in SeqNums /\ m.next_nr \in SeqNums
        BY <1>2 DEF PeerOK, PeerType
    <2> HIDE DEF m
    <2> QED
        BY <1>1, <2>1, DistType, SeqModAssumption
<1>5. q = m \/ q = [m EXCEPT !.next_ns = f.nr]
    <2>1. q = m \/ q = ResendFrom(m, f.nr)
        BY DEF OnSFrame
    <2> HIDE DEF m, q
    <2>2. ResendFrom(m, f.nr) = [m EXCEPT !.next_ns = f.nr]
        BY <1>3, <1>4 DEF ResendFrom
    <2> QED
        BY <2>1, <2>2
<1> HIDE DEF m, q, k
<1>6. SameNumbers(m, q) /\ q.s_queue = m.s_queue
    BY <1>4, <1>5 DEF SameNumbers, PeerType
<1>7. S("RR", q.next_nr) \in Frames /\ S("RR", q.next_nr).type = "RR" /\ S("RR", q.next_nr).nr = q.next_nr
    BY <1>4, <1>6, FrameTypesOf DEF SameNumbers, STypes, S
<1>8. \E g \in Frames : g.type \in STypes /\ g.nr = q.next_nr /\ Queued(p, q, g)
    BY <1>3, <1>6, <1>7 DEF Queued, STypes
<1> QED
    BY <1>2, <1>3, <1>6, <1>8 DEF TookNumbered, SameNumbers, k, q

LEMMA ReadI ==
  ASSUME NEW p, NEW n, PeerOK(p, n), LinkUp(p), NEW f \in Frames, f.type = "I",
         Dist(p.confirm_ns, f.nr) <= Len(p.window)
  PROVE  TookNumbered(p, f, OnIFrame(p, f))
<1> DEFINE k == Dist(p.confirm_ns, f.nr)
           c == CheckReceived(p, f.ns)
           m == ConfirmSentFrames(c, f.nr)
           h == S("RR", m.next_nr)
           q == OnIFrame(p, f)
           j == S("REJ", p.next_nr)
<1>1. f.nr \in SeqNums /\ f.ns \in SeqNums /\ p \in PeerType /\ p.next_nr \in SeqNums
    BY DEF Frames, PeerOK, PeerType
<1>2. /\ PeerOK(c, n) /\ c.state = p.state
      /\ c.next_nr = IF f.ns = p.next_nr THEN SeqNext(p.next_nr) ELSE p.next_nr
    BY <1>1, CheckReceivedOK
<1>3. /\ c.window = p.window /\ c.confirm_ns = p.confirm_ns
      /\ Queued(p, c, j) /\ (f.ns = p.next_nr => c.s_queue = p.s_queue)
    BY <1>1, CheckFields
<1> HIDE DEF c
<1>4. LinkUp(c)
    BY <1>2 DEF LinkUp
<1>5. PeerOK(m, n) /\ m.next_nr = c.next_nr /\ m.state = c.state
    BY <1>1, <1>2, <1>4, ConfirmOK
<1>6. /\ k \in Nat /\ m.confirm_ns = f.nr /\ Len(m.window) = Len(p.window) - k
      /\ \A i \in 1 .. Len(p.window) - k : m.window[i] = p.window[k + i]
      /\ m.s_queue = c.s_queue
    BY <1>1, <1>2, <1>3, ConfirmFields
<1>7. m \in PeerType /\ m.next_nr \in SeqNums
    BY <1>5 DEF PeerOK, PeerType
<1>8. q = m \/ (f.ns = p.next_nr /\ q = PutUS(m, h))
    BY DEF OnIFrame, c
<1> HIDE DEF m, q, k
<1>9. /\ h \in Frames /\ h.type \in STypes /\ h.nr = m.next_nr
      /\ j \in Frames /\ j.type \in STypes /\ j.nr = p.next_nr
    BY <1>1, <1>7, FrameTypesOf DEF STypes, S
<1> HIDE DEF h, j
<1>10. SameNumbers(m, q) /\ (q.s_queue = m.s_queue \/ (f.ns = p.next_nr /\ Queued(m, q, h)))
    BY <1>7, <1>8, <1>9, PutUSFields DEF SameNumbers
<1>11. CASE f.ns = p.next_nr
    <2>1. Queued(p, q, h) /\ h.nr = q.next_nr
        BY <1>3, <1>6, <1>9, <1>10, <1>11 DEF Queued, SameNumbers
    <2> QED
        BY <1>2, <1>5, <1>6, <1>9, <1>10, <2>1 DEF TookNumbered, SameNumbers, k, q
<1>12. CASE f.ns # p.next_nr
    <2>1. Queued(p, q, j) /\ j.nr = q.next_nr
        BY <1>2, <1>3, <1>5, <1>6, <1>9, <1>10, <1>12 DEF Queued, SameNumbers
    <2> QED
        BY <1>2, <1>5, <1>6, <1>9, <1>10, <2>1 DEF TookNumbered, SameNumbers, k, q
<1> QED
    BY <1>11, <1>12

LEMMA ReadUp ==
  ASSUME NEW p, NEW n, PeerOK(p, n), LinkUp(p), NEW f \in Frames, Numbered(f),
         Dist(p.confirm_ns, f.nr) <= Len(p.window)
  PROVE  TookNumbered(p, f, OnFrameRead(p, f))
<1> DEFINE m == [p EXCEPT !.ka_confirmed = TRUE]
<1>1. p \in PeerType
    BY DEF PeerOK
<1>2. m \in PeerType /\ m.s_queue = p.s_queue /\ SameNumbers(p, m) /\ m.last_ns = p.last_ns
    BY <1>1, ReadMark
<1>3. m.can_accept = p.can_accept
    BY <1>1 DEF PeerType
<1>4. OnFrameRead(p, f) = CASE f.type \in UTypes -> OnUFrame(m, f)
            [] f.type \notin UTypes /\ ~LinkUp(m) -> PutUS(m, U("DM"))
            [] f.type = "I" /\ LinkUp(m) -> OnIFrame(m, f)
            [] f.type \in {"RR", "REJ"} /\ LinkUp(m) -> OnSFrame(m, f)
    BY DEF OnFrameRead
<1> HIDE DEF m
<1>5. LinkUp(m)
    BY <1>2 DEF LinkUp, SameNumbers
<1>6. PeerOK(m, n)
    BY <1>2, <1>3, <1>5, OtherFields DEF SameNumbers
<1>7. Dist(m.confirm_ns, f.nr) <= Len(m.window)
    BY <1>2 DEF SameNumbers
<1>8. TookNumbered(m, f, OnFrameRead(p, f))
    <2>1. CASE f.type = "I"
        <3>1. OnFrameRead(p, f) = OnIFrame(m, f)
            BY <1>4, <1>5, <2>1 DEF UTypes
        <3> QED
            BY <1>5, <1>6, <1>7, <2>1, <3>1, ReadI
    <2>2. CASE f.type \in STypes
        <3>1. OnFrameRead(p, f) = OnSFrame(m, f)
            BY <1>4, <1>5, <2>2 DEF UTypes, STypes
        <3> QED
            BY <1>5, <1>6, <1>7, <2>2, <3>1, ReadS
    <2> QED
        BY <2>1, <2>2 DEF Numbered
<1> QED
    BY <1>2, <1>8 DEF TookNumbered, SameNumbers, Queued

-----------------------------------------------------------------------------
(* The steps of an undisturbed link *)

LEMMA AckWays ==
  ASSUME LinkInv, AckInv, Undisturbed, NEW t \in Stations, NEW o, o = Other(t)
  PROVE  /\ cut = {} /\ Counts /\ o \in Stations /\ o # t /\ t = Other(o)
         /\ AckDir(peer[t], accepted[t], peer[o], line[t] \o peer[o].s_queue, line[o] \o peer[t].s_queue,
                   delivered[o], confirmed[t])
         /\ AckDir(peer[o], accepted[o], peer[t], line[o] \o peer[t].s_queue, line[t] \o peer[o].s_queue,
                   delivered[t], confirmed[o])
         /\ peer[t] \in PeerType /\ peer[o] \in PeerType
         /\ peer[t].s_queue \in Seq(Frames) /\ peer[o].s_queue \in Seq(Frames)
         /\ line[t] \in Seq(Frames) /\ line[o] \in Seq(Frames)
         /\ line[t] \o peer[o].s_queue \in Seq(Frames) /\ line[o] \o peer[t].s_queue \in Seq(Frames)
         /\ peer[t].state # "DISCONNECTING" /\ peer[o].state # "DISCONNECTING"
<1>1. o \in Stations /\ o # t /\ Other(o) = t
    BY TwoStations
<1>2. cut = {} /\ Counts /\ AckWay(t) /\ AckWay(o)
    BY <1>1 DEF AckInv
<1>3. /\ AckDir(peer[t], accepted[t], peer[o], line[t] \o peer[o].s_queue, line[o] \o peer[t].s_queue,
                delivered[o], confirmed[t])
      /\ AckDir(peer[o], accepted[o], peer[t], line[o] \o peer[t].s_queue, line[t] \o peer[o].s_queue,
                delivered[t], confirmed[o])
    BY <1>1, <1>2 DEF AckWay, Coming
<1>4. /\ peer[t] \in PeerType /\ peer[o] \in PeerType
      /\ line[t] \in Seq(Frames) /\ line[o] \in Seq(Frames)
    BY BothWays
<1>5. peer[t].s_queue \in Seq(Frames) /\ peer[o].s_queue \in Seq(Frames)
    BY <1>4 DEF PeerType
<1>6. line[t] \o peer[o].s_queue \in Seq(Frames) /\ line[o] \o peer[t].s_queue \in Seq(Frames)
    BY <1>4, <1>5, ConcatProperties
<1>7. peer[t].state # "DISCONNECTING" /\ peer[o].state # "DISCONNECTING"
    BY <1>3 DEF AckDir
<1> QED
    BY <1>1, <1>2, <1>3, <1>4, <1>5, <1>6, <1>7

LEMMA AckWaysBack ==
  ASSUME NEW t \in Stations, NEW o, o = Other(t), cut' = {}, Counts',
         AckDir(peer'[t], accepted'[t], peer'[o], line'[t] \o peer'[o].s_queue,
                line'[o] \o peer'[t].s_queue, delivered'[o], confirmed'[t]),
         AckDir(peer'[o], accepted'[o], peer'[t], line'[o] \o peer'[t].s_queue,
                line'[t] \o peer'[o].s_queue, delivered'[t], confirmed'[o])
  PROVE  AckInv'
<1>1. o \in Stations /\ o # t /\ Other(o) = t
    BY TwoStations
<1>2. AckWay(t)' /\ AckWay(o)'
    BY <1>1 DEF AckWay, Coming
<1>3. \A s \in Stations : s = t \/ s = o
    BY TwoStations
<1> QED
    BY <1>2, <1>3 DEF AckInv

\* A step of station t that changes its record to q and leaves the lines alone.
LEMMA AckRecord ==
  ASSUME LinkInv, AckInv, Undisturbed, NEW t \in Stations, NEW o, o = Other(t), NEW q,
         peer' = [peer EXCEPT ![t] = q],
         UNCHANGED <<line, delivered, confirmed, cut, disconnects, keepalives>>,
         accepted'[o] = accepted[o],
         AckDir(q, accepted'[t], peer[o], line[t] \o peer[o].s_queue, line[o] \o q.s_queue,
                delivered[o], confirmed[t]),
         AckDir(peer[o], accepted[o], q, line[o] \o q.s_queue, line[t] \o peer[o].s_queue,
                delivered[t], confirmed[o])
  PROVE  AckInv'
<1>1. o \in Stations /\ o # t /\ cut = {} /\ Counts
    BY AckWays
<1>2. peer'[t] = q /\ peer'[o] = peer[o]
    BY <1>1 DEF LinkInv, Types
<1>3. Counts' /\ cut' = {}
    BY <1>1 DEF Counts
<1> QED
    BY <1>2, <1>3, AckWaysBack

\* Its numbers stay, or it goes down, and it queues nothing.
LEMMA AckQuietRecord ==
  ASSUME LinkInv, AckInv, Undisturbed, NEW t \in Stations, NEW q,
         peer' = [peer EXCEPT ![t] = q],
         UNCHANGED <<line, accepted, delivered, confirmed, cut, disconnects, keepalives>>,
         q.s_queue = peer[t].s_queue, SameNumbers(peer[t], q) \/ q.state = "DISCONNECTED"
  PROVE  AckInv'
<1> DEFINE p == peer[t]
           o == Other(t)
           r == peer[o]
           a == line[t] \o r.s_queue
           b == line[o] \o p.s_queue
<1>1. /\ AckDir(p, accepted[t], r, a, b, delivered[o], confirmed[t])
      /\ AckDir(r, accepted[o], p, b, a, delivered[t], confirmed[o])
    BY AckWays
<1> HIDE DEF a, b, p, r
<1>2. LinkUp(q) => LinkUp(p) /\ q.next_nr = p.next_nr
    BY DEF LinkUp, SameNumbers, p
<1>3. AckDir(q, accepted[t], r, a, b, delivered[o], confirmed[t])
    <2>1. CASE SameNumbers(p, q)
        BY <1>1, <2>1, SenderSame DEF SameNumbers
    <2>2. CASE q.state = "DISCONNECTED"
        BY <1>1, <2>2, SenderDown
    <2> QED
        BY <2>1, <2>2 DEF p
<1>4. AckDir(r, accepted[o], q, b, a, delivered[t], confirmed[o])
    BY <1>1, <1>2, ReceiverDown
<1>5. line[o] \o q.s_queue = b
    BY DEF b, p
<1> QED
    BY <1>3, <1>4, <1>5, AckRecord DEF a, r

LEMMA AckRetry ==
  ASSUME LinkInv, AckInv, Undisturbed, NEW t \in Stations, RetryTimer(t)
  PROVE  AckInv'
<1> DEFINE p == peer[t]
           m == [p EXCEPT !.retries = @ - 1]
           q == IF p.retries > 0 THEN ResendFrom(m, p.confirm_ns) ELSE SwitchToDisconnected(p)
<1>1. p \in PeerType
    BY AckWays
<1>2. /\ peer' = [peer EXCEPT ![t] = q] /\ LinkUp(p)
      /\ UNCHANGED <<line, accepted, delivered, confirmed, cut, disconnects, keepalives>>
    BY DEF RetryTimer, bounds
<1> HIDE DEF p
<1>3. CASE p.retries > 0
    <2>1. m \in PeerType /\ SameNumbers(p, m) /\ m.s_queue = p.s_queue /\ m.next_ns \in SeqNums
        <3>1. p.retries - 1 \in Nat
            BY <1>1, <1>3 DEF PeerType
        <3> QED
            BY <1>1, <3>1 DEF PeerType, SameNumbers
    <2> HIDE DEF m
    <2>2. Dist(p.confirm_ns, m.next_ns) \in Nat /\ m.confirm_ns = p.confirm_ns
        BY <1>1, <2>1, DistType, SeqModAssumption DEF PeerType, SameNumbers
    <2>3. q = [m EXCEPT !.next_ns = p.confirm_ns]
        BY <1>3, <2>2 DEF ResendFrom
    <2>4. SameNumbers(p, q) /\ q.s_queue = p.s_queue
        BY <2>1, <2>3 DEF SameNumbers, PeerType
    <2> HIDE DEF q
    <2> QED
        BY <1>2, <2>4, AckQuietRecord DEF p
<1>4. CASE ~(p.retries > 0)
    <2>1. q = Reset(p, "DISCONNECTED")
        BY <1>2, <1>4 DEF SwitchToDisconnected, LinkUp
    <2>2. q.state = "DISCONNECTED" /\ q.s_queue = p.s_queue
        BY <1>1, <2>1, ResetFields DEF States
    <2> HIDE DEF q
    <2> QED
        BY <1>2, <2>2, AckQuietRecord DEF p
<1> QED
    BY <1>3, <1>4

LEMMA AckConnect ==
  ASSUME LinkInv, AckInv, Undisturbed, NEW t \in Stations, ConnectTimer(t), SlowConnect
  PROVE  AckInv'
<1> DEFINE p == peer[t]
           o == Other(t)
           r == peer[o]
           m == PutUS(p, U("SABM"))
           q == [m EXCEPT !.state = "CONNECTING"]
           a == line[t] \o r.s_queue
           b == line[o] \o p.s_queue
           u == line[o] \o q.s_queue
<1>1. /\ AckDir(p, accepted[t], r, a, b, delivered[o], confirmed[t])
      /\ AckDir(r, accepted[o], p, b, a, delivered[t], confirmed[o])
      /\ p \in PeerType /\ line[o] \in Seq(Frames) /\ o \in Stations
      /\ p.s_queue \in Seq(Frames) /\ Counts
    BY AckWays
<1>2. /\ peer' = [peer EXCEPT ![t] = q] /\ Quiet
      /\ UNCHANGED <<line, accepted, delivered, confirmed, cut, disconnects, keepalives>>
    BY DEF ConnectTimer, bounds
<1>3. line[t] = <<>> /\ r.s_queue = <<>> /\ line[o] = <<>> /\ p.s_queue = <<>>
    BY <1>1, <1>2 DEF Quiet
<1>4. DOMAIN a = {} /\ DOMAIN b = {}
    <2>1. <<>> \in Seq(Frames) /\ <<>> \o <<>> = <<>> /\ DOMAIN <<>> = {}
        BY ConcatEmptySeq
    <2> QED
        BY <1>3, <2>1
<1>5. U("SABM") \in Frames
    BY FrameTypesOf DEF UTypes
<1> HIDE DEF p, r
<1>6. m \in PeerType /\ m.s_queue = Append(p.s_queue, U("SABM"))
    <2>1. Len(p.s_queue) < SuSize
        BY <1>3, PeerAssumption
    <2>2. m = [p EXCEPT !.s_queue = Append(@, U("SABM"))]
        BY <2>1 DEF PutUS
    <2> QED
        BY <1>1, <1>5, <2>2, PutUSFields DEF PeerType
<1> HIDE DEF m
<1>7. q.state = "CONNECTING" /\ q.s_queue = m.s_queue
    BY <1>6 DEF PeerType
<1>8. IsAppend(b, U("SABM"), u)
    <2>1. u = line[o] \o Append(p.s_queue, U("SABM"))
        BY <1>6, <1>7
    <2> HIDE DEF q, u, o
    <2> QED
        BY <1>1, <1>5, <2>1, WayAppend
<1> HIDE DEF q, a, b, u
<1>9. AckDir(q, accepted[t], r, a, b, delivered[o], confirmed[t])
    BY <1>1, <1>7, SenderDown
<1>10. AckDir(q, accepted[t], r, a, u, delivered[o], confirmed[t])
    BY <1>4, <1>7, <1>8, <1>9, CallOut
<1>11. ~LinkUp(q)
    BY <1>7 DEF LinkUp
<1>12. AckDir(r, accepted[o], q, b, a, delivered[t], confirmed[o])
    BY <1>1, <1>11, ReceiverDown
<1>13. AckDir(r, accepted[o], q, u, a, delivered[t], confirmed[o])
    BY <1>4, <1>8, <1>11, <1>12, CallIn
<1> QED
    BY <1>2, <1>10, <1>13, AckRecord DEF u, a, r

LEMMA AckSend ==
  ASSUME LinkInv, AckInv, Undisturbed, NEW t \in Stations, Send(t)
  PROVE  AckInv'
<1> DEFINE p == peer[t]
           n == accepted[t]
           o == Other(t)
           r == peer[o]
           a == line[t] \o r.s_queue
           b == line[o] \o p.s_queue
           w == Append(p.window, n + 1)
           m == [p EXCEPT !.window = Append(@, accepted[t] + 1), !.last_ns = SeqNext(@)]
           q == [m EXCEPT !.can_accept = ~TxFull(m)]
<1>1. /\ AckDir(p, n, r, a, b, delivered[o], confirmed[t])
      /\ AckDir(r, accepted[o], p, b, a, delivered[t], confirmed[o])
      /\ p \in PeerType /\ r \in PeerType /\ o \in Stations /\ o # t
      /\ a \in Seq(Frames) /\ b \in Seq(Frames)
    BY AckWays
<1>2. accepted[t] \in Nat /\ p.window \in Seq(Nat)
    BY <1>1, BothWays DEF PeerType
<1>3. /\ peer' = [peer EXCEPT ![t] = q] /\ accepted' = [accepted EXCEPT ![t] = n + 1]
      /\ UNCHANGED <<line, delivered, confirmed, cut, disconnects, keepalives>>
    BY DEF Send, bounds
<1>4. /\ Len(w) = Len(p.window) + 1 /\ \A k \in 1 .. Len(p.window) : w[k] = p.window[k]
    BY <1>2, AppendProperties
<1>5. /\ q.window = w /\ q.confirm_ns = p.confirm_ns /\ q.state = p.state
      /\ q.next_nr = p.next_nr /\ q.s_queue = p.s_queue
    BY <1>1 DEF PeerType
<1> HIDE DEF q, w, p, r, a, b
<1>6. \A i \in DOMAIN a : a[i] \in Frames
    BY <1>1
<1>7. \A i \in DOMAIN a : a[i].nr \in SeqNums
    BY <1>6 DEF Frames
<1>8. AckDir(q, n + 1, r, a, b, delivered[o], confirmed[t])
    BY <1>1, <1>2, <1>4, <1>5, <1>7, SendMore
<1>9. LinkUp(q) => LinkUp(p)
    BY <1>5 DEF LinkUp
<1>10. AckDir(r, accepted[o], q, b, a, delivered[t], confirmed[o])
    BY <1>1, <1>5, <1>9, ReceiverDown
<1>11. accepted'[t] = n + 1 /\ accepted'[o] = accepted[o] /\ line[o] \o q.s_queue = b
    BY <1>1, <1>3, <1>5 DEF LinkInv, Types, b
<1> QED
    BY <1>3, <1>8, <1>10, <1>11, AckRecord DEF a, r

\* A frame of the service queue goes to the line: the way stays as it is.
LEMMA AckTransmitSU ==
  ASSUME LinkInv, AckInv, Undisturbed, NEW t \in Stations, TransmitSU(t)
  PROVE  AckInv'
<1> DEFINE p == peer[t]
           o == Other(t)
           r == peer[o]
           f == Head(p.s_queue)
           a == line[t] \o r.s_queue
           b == line[o] \o p.s_queue
           q == [p EXCEPT !.s_queue = Tail(@), !.sent_nr = IF f.type \in {"RR", "REJ"} THEN f.nr ELSE @]
<1>1. /\ AckDir(p, accepted[t], r, a, b, delivered[o], confirmed[t])
      /\ AckDir(r, accepted[o], p, b, a, delivered[t], confirmed[o])
      /\ p \in PeerType /\ line[o] \in Seq(Frames) /\ o \in Stations /\ o # t
      /\ p.s_queue \in Seq(Frames) /\ Counts /\ cut = {}
    BY AckWays
<1>2. /\ peer' = [peer EXCEPT ![t] = q] /\ p.s_queue # <<>>
      /\ line' = [line EXCEPT ![o] = Append(line[o], f)]
      /\ UNCHANGED <<accepted, delivered, confirmed, cut, disconnects, keepalives>>
    BY DEF TransmitSU, Transmit, bounds
<1>3. SameNumbers(p, q) /\ q.s_queue = Tail(p.s_queue)
    BY <1>1 DEF SameNumbers, PeerType
<1>4. Append(line[o], f) \o q.s_queue = b
    BY <1>1, <1>2, <1>3, WayMove
<1> HIDE DEF q
<1>5. /\ peer'[t] = q /\ peer'[o] = r /\ line'[t] = line[t] /\ line'[o] = Append(line[o], f)
    BY <1>1, <1>2 DEF LinkInv, Types
<1> HIDE DEF p, r, a, b, f
<1>6. AckDir(q, accepted[t], r, a, b, delivered[o], confirmed[t])
    BY <1>1, <1>3, SenderSame DEF SameNumbers
<1>7. LinkUp(q) => LinkUp(p) /\ q.next_nr = p.next_nr
    BY <1>3 DEF SameNumbers, LinkUp
<1>8. AckDir(r, accepted[o], q, b, a, delivered[t], confirmed[o])
    BY <1>1, <1>7, ReceiverDown
<1>9. Counts' /\ cut' = {}
    BY <1>1, <1>2 DEF Counts
<1>10. a = line'[t] \o peer'[o].s_queue /\ b = line'[o] \o peer'[t].s_queue
    BY <1>4, <1>5 DEF a, r
<1> QED
    BY <1>2, <1>5, <1>6, <1>8, <1>9, <1>10, AckWaysBack

\* A frame of the window goes to the line, with the N(R) of now.
LEMMA AckTransmitI ==
  ASSUME LinkInv, AckInv, Undisturbed, NEW t \in Stations, TransmitI(t)
  PROVE  AckInv'
<1> DEFINE p == peer[t]
           n == accepted[t]
           o == Other(t)
           r == peer[o]
           f == I(p.next_ns, p.next_nr, p.window[NextOffset(p) + 1])
           a == line[t] \o r.s_queue
           b == line[o] \o p.s_queue
           q == [p EXCEPT !.next_ns = SeqNext(@), !.sent_nr = p.next_nr]
           u == Append(line[o], f) \o q.s_queue
<1>1. /\ AckDir(p, n, r, a, b, delivered[o], confirmed[t])
      /\ AckDir(r, accepted[o], p, b, a, delivered[t], confirmed[o])
      /\ p \in PeerType /\ r \in PeerType /\ line[o] \in Seq(Frames) /\ o \in Stations /\ o # t
      /\ Counts /\ cut = {}
    BY AckWays
<1>2. /\ peer' = [peer EXCEPT ![t] = q] /\ p.s_queue = <<>> /\ HasIFrame(p)
      /\ line' = [line EXCEPT ![o] = Append(line[o], f)]
      /\ UNCHANGED <<accepted, delivered, confirmed, cut, disconnects, keepalives>>
    BY DEF TransmitI, Transmit, bounds
<1>3. PeerOK(p, n)
    BY BothWays
<1>4. SameNumbers(p, q) /\ q.s_queue = p.s_queue
    BY <1>1 DEF SameNumbers, PeerType
<1> HIDE DEF q
<1>5. /\ peer'[t] = q /\ peer'[o] = r /\ line'[t] = line[t] /\ line'[o] = Append(line[o], f)
    BY <1>1, <1>2 DEF LinkInv, Types
<1> HIDE DEF p, r, n
<1>6. p.window[NextOffset(p) + 1] \in Nat /\ n - p.window[NextOffset(p) + 1] < Len(p.window)
    BY <1>2, <1>3, NextFrame
<1>7. /\ f \in Frames /\ f.type = "I" /\ f.nr = p.next_nr /\ f.data = p.window[NextOffset(p) + 1]
    BY <1>1, <1>6, FrameTypesOf DEF PeerType, I
<1> HIDE DEF f
<1>8. LinkUp(p) /\ LinkUp(q)
    BY <1>2, <1>4 DEF HasIFrame, LinkUp, SameNumbers
<1>9. IsAppend(b, f, u)
    BY <1>1, <1>2, <1>4, <1>7, WayDirect
<1> HIDE DEF a, b, u
<1>10. AckDir(p, n, r, a, u, delivered[o], confirmed[t])
    BY <1>1, <1>6, <1>7, <1>8, <1>9, JoinOut
<1>11. AckDir(q, n, r, a, u, delivered[o], confirmed[t])
    BY <1>4, <1>10, SenderSame DEF SameNumbers
<1>12. AckDir(r, accepted[o], p, u, a, delivered[t], confirmed[o])
    BY <1>1, <1>7, <1>8, <1>9, JoinIn
<1>13. AckDir(r, accepted[o], q, u, a, delivered[t], confirmed[o])
    BY <1>4, <1>8, <1>12, ReceiverDown DEF SameNumbers
<1>14. Counts' /\ cut' = {}
    BY <1>1, <1>2 DEF Counts
<1>15. a = line'[t] \o peer'[o].s_queue /\ u = line'[o] \o peer'[t].s_queue
    BY <1>5 DEF a, r, u
<1> QED
    BY <1>2, <1>5, <1>11, <1>13, <1>14, <1>15, AckWaysBack DEF n

LEMMA AckLose ==
  ASSUME LinkInv, AckInv, Undisturbed, NEW t \in Stations, Lose(t)
  PROVE  AckInv'
<1> DEFINE p == peer[t]
           o == Other(t)
           r == peer[o]
           a == line[t] \o r.s_queue
           b == line[o] \o p.s_queue
           u == Tail(line[t]) \o r.s_queue
<1>1. /\ AckDir(p, accepted[t], r, a, b, delivered[o], confirmed[t])
      /\ AckDir(r, accepted[o], p, b, a, delivered[t], confirmed[o])
      /\ line[t] \in Seq(Frames) /\ r.s_queue \in Seq(Frames) /\ o \in Stations /\ o # t
      /\ Counts /\ cut = {}
    BY AckWays
<1>2. /\ line[t] # <<>> /\ line' = [line EXCEPT ![t] = Tail(line[t])]
      /\ UNCHANGED <<peer, accepted, delivered, confirmed, cut, disconnects, keepalives>>
    BY DEF Lose
<1>3. line'[t] = Tail(line[t]) /\ line'[o] = line[o]
    BY <1>1, <1>2 DEF LinkInv, Types
<1>4. IsTail(a, u)
    BY <1>1, <1>2, WayTail
<1> HIDE DEF a, b, u
<1>5. AckDir(p, accepted[t], r, u, b, delivered[o], confirmed[t])
    BY <1>1, <1>4, DropIn
<1>6. AckDir(r, accepted[o], p, b, u, delivered[t], confirmed[o])
    BY <1>1, <1>4, DropOut
<1>7. Counts' /\ cut' = {}
    BY <1>1, <1>2 DEF Counts
<1> QED
    BY <1>2, <1>3, <1>5, <1>6, <1>7, AckWaysBack DEF b, u

\* Station t handles frame a[1]: its record p becomes q, the way to it becomes u
\* and the way from it v.
Handles(p, n, r, m, a, b, u, v, q) ==
  /\ p \in PeerType /\ r \in PeerType /\ n \in Nat /\ m \in Nat
  /\ a \in Seq(Frames) /\ b \in Seq(Frames)
  /\ PeerOK(p, n) /\ IsTail(a, u) /\ 1 \in DOMAIN a /\ a[1] \in Frames
  /\ q = OnFrameRead(p, a[1]) /\ q \in PeerType
  /\ q.s_queue = p.s_queue => v = b
  /\ \A g \in Frames : q.s_queue = Append(p.s_queue, g) => IsAppend(b, g, v)

LEMMA NoBarrier ==
  ASSUME NEW b \in Seq(Frames), ClearFrom(b, 0)
  PROVE  \A i \in DOMAIN b : ~Barrier(b[i])
BY DEF ClearFrom

LEMMA GetUnnumbered ==
  ASSUME NEW p, NEW n, NEW r, NEW m, NEW a, NEW b, NEW u, NEW v, NEW q,
         NEW deli, NEW delo, NEW confi, NEW confo,
         Handles(p, n, r, m, a, b, u, v, q), ~Numbered(a[1]) \/ ~LinkUp(p),
         AckDir(p, n, r, a, b, delo, confi), AckDir(r, m, p, b, a, deli, confo)
  PROVE  AckDir(q, n, r, u, v, delo, confi) /\ AckDir(r, m, q, v, u, deli, confo)
<1> DEFINE f == a[1]
<1>1. /\ p \in PeerType /\ r \in PeerType /\ IsTail(a, u) /\ 1 \in DOMAIN a /\ f \in Frames
      /\ q = OnFrameRead(p, f) /\ q \in PeerType /\ (q.s_queue = p.s_queue => v = b)
      /\ \A g \in Frames : q.s_queue = Append(p.s_queue, g) => IsAppend(b, g, v)
      /\ b \in Seq(Frames)
    BY DEF Handles
<1>2. AckDir(p, n, r, u, b, delo, confi)
    BY <1>1, DropIn
<1>3. AckDir(r, m, p, b, u, deli, confo)
    BY <1>1, DropOut
<1>4. f.type \in {"SABM", "UA", "DM", "RR", "REJ", "I"} /\ p.state # "DISCONNECTING"
    BY <1>1 DEF AckDir, OneBarrier
<1>5. ASSUME Barrier(f)
      PROVE  (\A i \in DOMAIN b : ~Barrier(b[i])) /\ (\A i \in DOMAIN u : ~Barrier(u[i]))
    <2>1. ClearFrom(b, 0) /\ (\A i \in DOMAIN u : ~Barrier(u[i]))
        BY <1>1, <1>5, BarrierAtHead DEF AckDir
    <2> QED
        BY <1>1, <2>1, NoBarrier
<1>6. CASE f.type = "DM"
    <2>1. q.state = "DISCONNECTED" /\ v = b
        BY <1>1, <1>6, ReadDM
    <2>2. ~LinkUp(q)
        BY <2>1 DEF LinkUp
    <2> QED
        BY <1>2, <1>3, <2>1, <2>2, SenderDown, ReceiverDown
<1>7. ASSUME SameNumbers(p, q)
      PROVE  AckDir(q, n, r, u, b, delo, confi) /\ AckDir(r, m, q, b, u, deli, confo)
    <2>1. LinkUp(q) => LinkUp(p) /\ q.next_nr = p.next_nr
        BY <1>7 DEF LinkUp, SameNumbers
    <2>2. AckDir(q, n, r, u, b, delo, confi)
        BY <1>2, <1>7, SenderSame DEF SameNumbers
    <2>3. AckDir(r, m, q, b, u, deli, confo)
        BY <1>3, <2>1, ReceiverDown
    <2> QED
        BY <2>2, <2>3
<1>8. CASE f.type = "UA"
    <2>1. v = b /\ (Fresh(q) \/ SameNumbers(p, q))
        BY <1>1, <1>4, <1>8, ReadUA
    <2>2. CASE Fresh(q)
        <3>1. Silent(b)
            BY <1>1, <1>8 DEF AckDir, Answered
        <3>2. Barrier(f)
            BY <1>8 DEF Barrier
        <3>3. AckDir(q, n, r, u, b, delo, confi)
            BY <1>1, <1>5, <1>8, <2>2, <3>2, TakeUAIn
        <3>4. AckDir(r, m, q, b, u, deli, confo)
            BY <1>1, <1>5, <1>8, <2>2, <3>1, <3>2, TakeUAOut
        <3> QED
            BY <2>1, <3>3, <3>4
    <2> QED
        BY <1>7, <2>1, <2>2
<1>9. CASE f.type = "SABM"
    <2>1. Fresh(q) /\ Queued(p, q, U("UA")) /\ U("UA") \in Frames
        BY <1>1, <1>9, ReadSABM, FrameTypesOf DEF UTypes
    <2>2. v = b \/ IsAppend(b, U("UA"), v)
        BY <1>1, <2>1 DEF Queued
    <2>3. Silent(a) /\ ~LinkUp(r) /\ Barrier(f)
        BY <1>1, <1>9 DEF AckDir, Calls, Barrier
    <2>4. AckDir(q, n, r, u, v, delo, confi)
        BY <1>1, <1>5, <1>9, <2>1, <2>2, <2>3, TakeSABMIn
    <2>5. AckDir(r, m, q, v, u, deli, confo)
        BY <1>1, <1>5, <1>9, <2>1, <2>2, <2>3, TakeSABMOut
    <2> QED
        BY <2>4, <2>5
<1>10. CASE f.type \in {"RR", "REJ", "I"}
    <2>1. SameNumbers(p, q) /\ Queued(p, q, U("DM"))
        BY <1>1, <1>10, ReadDown DEF Numbered, STypes
    <2>2. U("DM") \in Frames /\ U("DM").type = "DM" /\ ~Numbered(U("DM"))
        BY FrameTypesOf DEF UTypes, Numbered, STypes
    <2>3. v = b \/ IsAppend(b, U("DM"), v)
        BY <1>1, <2>1, <2>2 DEF Queued
    <2>4. AckDir(q, n, r, u, b, delo, confi) /\ AckDir(r, m, q, b, u, deli, confo)
        BY <1>7, <2>1
    <2>5. CASE IsAppend(b, U("DM"), v)
        <3>1. AckDir(q, n, r, u, v, delo, confi)
            BY <2>2, <2>4, <2>5, JoinOut
        <3>2. AckDir(r, m, q, v, u, deli, confo)
            BY <1>1, <2>2, <2>4, <2>5, JoinIn
        <3> QED
            BY <3>1, <3>2
    <2> QED
        BY <2>3, <2>4, <2>5
<1> QED
    BY <1>4, <1>6, <1>8, <1>9, <1>10

\* The frame is numbered and the station is up: l is the line to it, del what
\* it has delivered afterwards and conf what was confirmed to it.
HandlesNumbered(p, n, r, m, a, b, u, v, q, l, s, deli, delo, confi, confo, del, conf) ==
  /\ Handles(p, n, r, m, a, b, u, v, q) /\ Numbered(a[1]) /\ LinkUp(p)
  /\ l \in Seq(Frames) /\ deli \in Seq(Nat) /\ delo \in Seq(Nat)
  /\ AckDir(p, n, r, a, b, delo, confi) /\ AckDir(r, m, p, b, a, deli, confo)
  /\ Dir(r, m, l, s, p, deli, {}) /\ 1 \in DOMAIN l /\ l[1] = a[1]
  /\ del = IF a[1].type = "I" /\ a[1].ns = p.next_nr THEN Append(deli, a[1].data) ELSE deli
  /\ conf = confi \cup {p.window[j] : j \in 1 .. Confirms(p, a[1].nr)}

LEMMA GetNumbered ==
  ASSUME NEW p, NEW n, NEW r, NEW m, NEW a, NEW b, NEW u, NEW v, NEW q, NEW l, NEW s,
         NEW deli, NEW delo, NEW confi, NEW confo, NEW del, NEW conf,
         HandlesNumbered(p, n, r, m, a, b, u, v, q, l, s, deli, delo, confi, confo, del, conf)
  PROVE  AckDir(q, n, r, u, v, delo, conf) /\ AckDir(r, m, q, v, u, del, confo)
<1> DEFINE f == a[1]
           k == Dist(p.confirm_ns, f.nr)
<1>0. /\ Handles(p, n, r, m, a, b, u, v, q) /\ Numbered(a[1]) /\ LinkUp(p)
      /\ l \in Seq(Frames) /\ deli \in Seq(Nat) /\ delo \in Seq(Nat)
      /\ AckDir(p, n, r, a, b, delo, confi) /\ AckDir(r, m, p, b, a, deli, confo)
      /\ Dir(r, m, l, s, p, deli, {}) /\ 1 \in DOMAIN l /\ l[1] = a[1]
      /\ del = IF a[1].type = "I" /\ a[1].ns = p.next_nr THEN Append(deli, a[1].data) ELSE deli
      /\ conf = confi \cup {p.window[j] : j \in 1 .. Confirms(p, a[1].nr)}
    BY DEF HandlesNumbered
<1>1. /\ p \in PeerType /\ r \in PeerType /\ n \in Nat /\ m \in Nat /\ a \in Seq(Frames) /\ b \in Seq(Frames)
      /\ PeerOK(p, n) /\ IsTail(a, u) /\ 1 \in DOMAIN a /\ f \in Frames
      /\ q = OnFrameRead(p, f) /\ q \in PeerType /\ (q.s_queue = p.s_queue => v = b)
      /\ \A g \in Frames : q.s_queue = Append(p.s_queue, g) => IsAppend(b, g, v)
    BY <1>0 DEF Handles
<1>2. k <= Len(p.window) /\ f.nr \in SeqNums
    <2>1. Acks(p, f.nr, delo)
        BY <1>0, <1>1 DEF AckDir, GoodAcks
    <2> QED
        BY <1>1, <2>1 DEF Acks, Frames
<1>3. TookNumbered(p, f, q)
    BY <1>0, <1>1, <1>2, ReadUp
<1>4. /\ q.state = p.state /\ q.confirm_ns = f.nr /\ Len(q.window) = Len(p.window) - k
      /\ \A j \in 1 .. Len(p.window) - k : q.window[j] = p.window[k + j]
    BY <1>3 DEF TookNumbered
<1>5. PICK g \in Frames : g.type \in STypes /\ g.nr = q.next_nr /\ Queued(p, q, g)
    BY <1>3 DEF TookNumbered
<1>6. k \in Nat /\ Confirms(p, f.nr) = k
    <2>1. p.confirm_ns \in SeqNums
        BY <1>1 DEF PeerType
    <2>2. k \in Nat
        BY <1>2, <2>1, DistType, SeqModAssumption
    <2> QED
        BY <1>2, <2>2 DEF Confirms
<1>7. /\ \A i \in DOMAIN b : b[i].type # "UA"
      /\ \A i \in DOMAIN a : a[i].type # "UA"
    <2>1. ~Silent(a)
        BY <1>0, <1>1 DEF Silent
    <2> QED
        BY <1>0, <2>1 DEF AckDir, Answered
<1>8. LinkUp(q) /\ q.next_nr = NextNr(p, f)
    <2>1. LinkUp(q) /\ ~Barrier(f)
        BY <1>0, <1>4 DEF LinkUp, Barrier, Numbered, STypes
    <2> QED
        BY <1>0, <1>1, <2>1, OnFrameReadOK
<1> HIDE DEF k
<1>9. AckDir(q, n, r, u, b, delo, conf)
    <2>1. AckDir(q, n, r, u, b, delo, confi \cup {p.window[j] : j \in 1 .. k})
        BY <1>0, <1>1, <1>4, <1>6, <1>7, TakeAck DEF k
    <2> QED
        BY <1>0, <1>6, <2>1
<1>10. AckDir(r, m, q, b, u, del, confo)
    <2>1. CASE f.type = "I" /\ f.ns = p.next_nr
        <3>1. q.next_nr = SeqNext(p.next_nr)
            BY <1>8, <2>1 DEF NextNr
        <3>2. \A i \in DOMAIN b : b[i] \in Frames
            BY <1>1
        <3>3. \A i \in DOMAIN b : b[i].nr \in SeqNums
            BY <3>2 DEF Frames
        <3>4. AckDir(r, m, q, b, u, Append(deli, a[1].data), confo)
            <4>1. /\ AckDir(r, m, p, b, a, deli, confo) /\ Dir(r, m, l, s, p, deli, {}) /\ IsTail(a, u)
                  /\ 1 \in DOMAIN a /\ 1 \in DOMAIN l /\ l[1] = a[1] /\ a[1].type = "I"
                  /\ a[1].ns = p.next_nr /\ LinkUp(p) /\ LinkUp(q) /\ q.next_nr = SeqNext(p.next_nr)
                  /\ m \in Nat /\ p \in PeerType /\ l \in Seq(Frames) /\ deli \in Seq(Nat)
                BY <1>0, <1>1, <1>8, <2>1, <3>1
            <4> QED
                BY <1>7, <3>3, <4>1, TakePacket
        <3> QED
            BY <1>0, <2>1, <3>4
    <2>2. CASE ~(f.type = "I" /\ f.ns = p.next_nr)
        <3>1. q.next_nr = p.next_nr
            BY <1>8, <2>2 DEF NextNr
        <3>2. AckDir(r, m, p, b, u, deli, confo)
            BY <1>0, <1>1, DropOut
        <3>3. AckDir(r, m, q, b, u, deli, confo)
            BY <1>0, <3>1, <3>2, ReceiverDown
        <3> QED
            BY <1>0, <2>2, <3>3
    <2> QED
        BY <2>1, <2>2
<1>11. CASE q.s_queue = p.s_queue
    BY <1>1, <1>9, <1>10, <1>11
<1>12. CASE q.s_queue = Append(p.s_queue, g)
    <2>1. IsAppend(b, g, v) /\ g.type \in {"DM", "RR", "REJ", "I"} /\ g.type # "I"
        BY <1>1, <1>5, <1>12 DEF STypes
    <2>2. AckDir(q, n, r, u, v, delo, conf)
        BY <1>8, <1>9, <2>1, JoinOut
    <2>3. AckDir(r, m, q, v, u, del, confo)
        BY <1>1, <1>5, <1>8, <1>10, <2>1, JoinIn
    <2> QED
        BY <2>2, <2>3
<1> QED
    BY <1>5, <1>11, <1>12 DEF Queued

LEMMA AckReceive ==
  ASSUME LinkInv, AckInv, Undisturbed, NEW t \in Stations, Receive(t)
  PROVE  AckInv'
<1> DEFINE p == peer[t]
           n == accepted[t]
           o == Other(t)
           r == peer[o]
           m == accepted[o]
           a == line[t] \o r.s_queue
           b == line[o] \o p.s_queue
           f == Head(line[t])
           q == OnFrameRead(p, f)
           u == Tail(line[t]) \o r.s_queue
           v == line[o] \o q.s_queue
           up == LinkUp(p) /\ Numbered(f)
           del == IF up /\ f.type = "I" /\ f.ns = p.next_nr THEN Append(delivered[t], f.data)
                                                             ELSE delivered[t]
           conf == IF up THEN confirmed[t] \cup {p.window[k] : k \in 1 .. Confirms(p, f.nr)}
                         ELSE confirmed[t]
<1>1. /\ AckDir(p, n, r, a, b, delivered[o], confirmed[t])
      /\ AckDir(r, m, p, b, a, delivered[t], confirmed[o])
      /\ p \in PeerType /\ r \in PeerType /\ a \in Seq(Frames) /\ b \in Seq(Frames)
      /\ line[t] \in Seq(Frames) /\ line[o] \in Seq(Frames) /\ r.s_queue \in Seq(Frames)
      /\ p.s_queue \in Seq(Frames) /\ o \in Stations /\ o # t /\ Counts /\ cut = {}
    BY AckWays
<1>2. /\ n \in Nat /\ m \in Nat /\ PeerOK(p, n) /\ delivered[t] \in Seq(Nat) /\ delivered[o] \in Seq(Nat)
      /\ Dir(r, m, line[t], t, p, delivered[t], {})
    BY <1>1, BothWays
<1>3. /\ line[t] # <<>> /\ line' = [line EXCEPT ![t] = Tail(line[t])] /\ peer' = [peer EXCEPT ![t] = q]
      /\ UNCHANGED <<accepted, cut, disconnects, keepalives>>
    BY DEF Receive, bounds
<1>4. f.type \in {"I", "RR", "REJ"} <=> Numbered(f)
    BY DEF Numbered, STypes
<1>5. delivered'[t] = del /\ delivered'[o] = delivered[o]
    <2>1. CASE up /\ f.type = "I" /\ f.ns = p.next_nr
        <3>1. delivered' = [delivered EXCEPT ![t] = Append(@, f.data)]
            BY <1>4, <2>1 DEF Receive
        <3> QED
            BY <1>1, <2>1, <3>1 DEF LinkInv, Types
    <2>2. CASE ~(up /\ f.type = "I" /\ f.ns = p.next_nr)
        <3>1. delivered' = delivered
            BY <1>4, <2>2 DEF Receive
        <3> QED
            BY <2>2, <3>1
    <2> QED
        BY <2>1, <2>2
<1>6. confirmed'[t] = conf /\ confirmed'[o] = confirmed[o] /\ DOMAIN confirmed' = Stations
    <2>1. CASE up
        <3>1. confirmed' = [confirmed EXCEPT ![t] = @ \cup {p.window[k] : k \in 1 .. Confirms(p, f.nr)}]
            BY <1>4, <2>1 DEF Receive
        <3> QED
            BY <1>1, <2>1, <3>1 DEF Counts
    <2>2. CASE ~up
        <3>1. confirmed' = confirmed
            BY <1>4, <2>2 DEF Receive
        <3> QED
            BY <1>1, <2>2, <3>1 DEF Counts
    <2> QED
        BY <2>1, <2>2
<1>7. /\ IsTail(a, u) /\ 1 \in DOMAIN a /\ a[1] = f /\ f \in Frames
      /\ 1 \in DOMAIN line[t] /\ line[t][1] = f
    <2>1. f \in Frames
        BY <1>1, <1>3, HeadTailProperties
    <2>2. 1 \in DOMAIN line[t] /\ line[t][1] = f
        BY <1>1, <1>3, TailOfLine
    <2>3. IsTail(a, u) /\ 1 \in DOMAIN a /\ a[1] = f
        BY <1>1, <1>3, WayTail
    <2> QED
        BY <2>1, <2>2, <2>3
<1>8. q \in PeerType
    BY <1>2, <1>7, OnFrameReadOK DEF PeerOK
<1>9. \A g \in Frames : q.s_queue = Append(p.s_queue, g) => IsAppend(b, g, v)
    <2> HIDE DEF q, p
    <2> QED
        BY <1>1, WayAppend
<1>10. Handles(p, n, r, m, a, b, u, v, q)
    BY <1>1, <1>2, <1>7, <1>8, <1>9 DEF Handles
<1>11. /\ peer'[t] = q /\ peer'[o] = r /\ line'[t] = Tail(line[t]) /\ line'[o] = line[o]
    BY <1>1, <1>3 DEF LinkInv, Types
<1> HIDE DEF p, r, n, m, a, b, u, v, q, f
<1>12. /\ AckDir(q, n, r, u, v, delivered[o], conf)
       /\ AckDir(r, m, q, v, u, del, confirmed[o])
    <2>1. CASE up
        <3>1. del = IF a[1].type = "I" /\ a[1].ns = p.next_nr THEN Append(delivered[t], a[1].data)
                                                               ELSE delivered[t]
            BY <1>7, <2>1
        <3>2. conf = confirmed[t] \cup {p.window[k] : k \in 1 .. Confirms(p, a[1].nr)}
            BY <1>7, <2>1
        <3>3. Numbered(a[1]) /\ LinkUp(p)
            BY <1>7, <2>1
        <3> HIDE DEF del, conf, o
        <3>4. /\ AckDir(p, n, r, a, b, delivered[o], confirmed[t])
              /\ AckDir(r, m, p, b, a, delivered[t], confirmed[o])
              /\ line[t] \in Seq(Frames) /\ 1 \in DOMAIN line[t] /\ line[t][1] = a[1]
              /\ delivered[t] \in Seq(Nat) /\ delivered[o] \in Seq(Nat)
              /\ Dir(r, m, line[t], t, p, delivered[t], {})
            BY <1>1, <1>2, <1>7
        <3> QED
            <4>1. HandlesNumbered(p, n, r, m, a, b, u, v, q, line[t], t, delivered[t], delivered[o],
                                  confirmed[t], confirmed[o], del, conf)
                BY <1>10, <3>1, <3>2, <3>3, <3>4 DEF HandlesNumbered
            <4> QED
                BY <4>1, GetNumbered
    <2>2. CASE ~up
        BY <1>1, <1>7, <1>10, <2>2, GetUnnumbered
    <2> QED
        BY <2>1, <2>2
<1> HIDE DEF conf, del
<1>13. Counts' /\ cut' = {}
    BY <1>1, <1>3, <1>6 DEF Counts
<1>14. u = line'[t] \o peer'[o].s_queue /\ v = line'[o] \o peer'[t].s_queue
    BY <1>11 DEF u, v, r
<1>15. accepted'[t] = n /\ accepted'[o] = m
    BY <1>3 DEF n, m
<1> QED
    BY <1>5, <1>6, <1>11, <1>12, <1>13, <1>14, <1>15, AckWaysBack

LEMMA InitAckInv == Init => AckInv
<1> SUFFICES ASSUME Init PROVE AckInv
    OBVIOUS
<1>1. Counts /\ cut = {}
    BY DEF Init, Counts
<1>2. ASSUME NEW s \in Stations PROVE AckWay(s)
    <2>1. Other(s) \in Stations /\ Other(Other(s)) = s
        BY TwoStations
    <2>2. /\ peer[s] = InitPeer /\ peer[Other(s)] = InitPeer /\ confirmed[s] = {}
          /\ line[s] = <<>> /\ line[Other(s)] = <<>>
        BY <2>1 DEF Init
    <2>3. /\ InitPeer.state = "DISCONNECTED" /\ InitPeer.s_queue = <<>>
        BY DEF InitPeer
    <2>4. <<>> \o <<>> = <<>> /\ DOMAIN <<>> = {}
        OBVIOUS
    <2>5. DOMAIN Coming(s) = {} /\ DOMAIN Coming(Other(s)) = {}
        BY <2>1, <2>2, <2>3, <2>4 DEF Coming
    <2>6. ~LinkUp(peer[s]) /\ peer[s].state # "DISCONNECTING"
        BY <2>2, <2>3 DEF LinkUp
    <2> QED
        BY <2>2, <2>5, <2>6 DEF AckWay, AckDir, OneBarrier, Calls, Answered, GoodAcks, GoodNext, OnTheWay,
           ClearFrom
<1> QED
    BY <1>1, <1>2 DEF AckInv

\* Where the connection timer exceeds the round trip, on_send_cb is only called
\* for packets the other application has received, for every window, modulus,
\* queue and line, whatever the line loses and the retry timer repeats, as long as
\* neither tiny_fd_disconnect nor a keep-alive timer is involved.
THEOREM ConfirmedAlwaysDelivered ==
  ASSUME SlowConnect
  PROVE  Spec => []ConfirmedWasDelivered
<1>1. LinkInv /\ AckInv /\ [Next]_vars => AckInv'
    <2> SUFFICES ASSUME LinkInv, AckInv, [Next]_vars PROVE AckInv'
        OBVIOUS
    <2>1. Counts
        BY DEF AckInv
    <2>2. CASE UNCHANGED vars
        BY <2>2 DEF vars, AckInv, Counts, Undisturbed, AckWay, Coming
    <2>3. CASE Next
        <3>1. PICK t \in Stations :
                \/ Send(t) \/ Disconnect(t) \/ ConnectTimer(t) \/ RetryTimer(t) \/ KeepAliveTimer(t)
                \/ KeepAliveExpired(t) \/ TransmitSU(t) \/ TransmitI(t) \/ Receive(t) \/ Lose(t)
            BY <2>3 DEF Next
        <3>2. CASE Disconnect(t) \/ KeepAliveTimer(t) \/ KeepAliveExpired(t)
            <4>1. Counts' /\ (disconnects' = disconnects + 1 \/ keepalives' = keepalives + 1)
                BY <2>1, <3>2 DEF Disconnect, KeepAliveTimer, KeepAliveExpired, Counts
            <4>2. ~Undisturbed'
                BY <2>1, <4>1 DEF Undisturbed, Counts
            <4> QED
                BY <4>1, <4>2 DEF AckInv
        <3>3. CASE \/ Send(t) \/ ConnectTimer(t) \/ RetryTimer(t) \/ TransmitSU(t) \/ TransmitI(t)
                   \/ Receive(t) \/ Lose(t)
            <4>1. /\ disconnects' = disconnects /\ keepalives' = keepalives
                  /\ DOMAIN confirmed' = DOMAIN confirmed
                BY <3>3 DEF Send, ConnectTimer, RetryTimer, TransmitSU, TransmitI, Transmit, Receive, Lose,
                   bounds
            <4>2. CASE ~Undisturbed
                BY <2>1, <4>1, <4>2 DEF AckInv, Counts, Undisturbed
            <4>3. CASE Undisturbed
                BY <3>3, <4>3, AckSend, AckConnect, AckRetry, AckTransmitSU, AckTransmitI, AckReceive,
                   AckLose
            <4> QED
                BY <4>2, <4>3
        <3> QED
            BY <3>1, <3>2, <3>3
    <2> QED
        BY <2>2, <2>3
<1>2. AckInv => ConfirmedWasDelivered
    BY DEF AckInv, AckWay, AckDir, Got, Undisturbed, ConfirmedWasDelivered
<1> QED
    BY <1>1, <1>2, InitAckInv, LinkInvariant, PTL DEF Spec
=============================================================================
