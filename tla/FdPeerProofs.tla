---------------------------- MODULE FdPeerProofs ----------------------------
(***************************************************************************)
(* One direction of a connection: a sender with its window, the frames on   *)
(* their way, and the receiver.  The lemmas say what the handlers of FdPeer *)
(* do to a station's record, and what each of the moves a connection can    *)
(* make does to the direction's invariant Dir.  FdLinkProofs uses them for  *)
(* the two stations of ABM, FdNrmProofs for every pair on the bus of NRM.   *)
(*                                                                          *)
(* Resets make it hard: each side may drop the connection alone, and frames *)
(* of the old one are still on the line.  The argument is about barriers.   *)
(* Only SABM and UA let a station that is down accept numbered frames, and  *)
(* whoever queues one of them has emptied its window in the same step.  So  *)
(* the packets behind a barrier are newer than all packets before it and    *)
(* than all delivered ones, and a station that starts to count at 0 behind  *)
(* it cannot meet an old packet.  Between two barriers the numbers of two   *)
(* frames differ as their packets do, by less than the window; so a packet  *)
(* that was delivered never carries the number the receiver waits for.      *)
(* Nothing is assumed of the other direction: a wrong N(R), which makes the *)
(* sender drop packets, can lose them but not reorder them.                 *)
(***************************************************************************)
EXTENDS FdPeer, SequenceTheorems, TLAPS

STypes == {"RR", "REJ"}
FrameTypes == UTypes \cup STypes \cup {"I"}

Frames == [type : FrameTypes, ns : SeqNums, nr : SeqNums, data : Nat]
States == {"DISCONNECTED", "CONNECTING", "CONNECTED", "DISCONNECTING"}
PeerType ==
  [state : States, confirm_ns : SeqNums, next_ns : SeqNums, last_ns : SeqNums,
   window : Seq(Nat), next_nr : SeqNums, sent_nr : SeqNums, sent_reject : BOOLEAN,
   retries : Nat, ka_confirmed : BOOLEAN, can_accept : BOOLEAN, s_queue : Seq(Frames)]

Barrier(f) == f.type \in {"SABM", "UA"}
\* No barrier in q behind position i.
ClearFrom(q, i) == \A j \in DOMAIN q : j > i => ~Barrier(q[j])

\* The most frames a window can hold: SeqNext(last_ns) must not be confirm_ns.
MaxWindow == SeqMod - 1

\* What holds of a station's record p when its application has sent n packets:
\* the window holds the newest of them and ends at last_ns, and it is empty
\* while the link is down, and it takes packets only if it is not full.  A service
\* queue holds no I-frame.
PeerOK(p, n) ==
  /\ p \in PeerType
  /\ n \in Nat /\ Len(p.window) <= n /\ Len(p.window) <= MaxWindow
  /\ \A k \in 1 .. Len(p.window) : p.window[k] = (n - Len(p.window)) + k
  /\ Dist(p.confirm_ns, p.last_ns) = Len(p.window)
  /\ ~LinkUp(p) => p.window = <<>> /\ ~p.can_accept
  /\ p.can_accept => Len(p.window) < MaxWindow
  /\ \A i \in DOMAIN p.s_queue : p.s_queue[i].type # "I"

\* The packet delivered last.
LastOf(q) == IF q = <<>> THEN 0 ELSE q[Len(q)]

\* Sender's record p with n packets sent, the line l from it: a packet on the
\* line that is still in the window has the number it has there, and no barrier
\* is behind it.
LineWindow(p, n, l) ==
  \A i \in DOMAIN l :
    l[i].type = "I" =>
      /\ l[i].data \in 1 .. n
      /\ n - l[i].data < Len(p.window) =>
           /\ ClearFrom(l, i) /\ ClearFrom(p.s_queue, 0)
           /\ Dist(l[i].ns, p.last_ns) = (n - l[i].data) + 1

\* Packets on the line: one that is not newer than a packet before it is its
\* repetition, or less than a window older, and no barrier is between them.
LinePairs(l) ==
  \A i, j \in DOMAIN l :
    i < j /\ l[i].type = "I" /\ l[j].type = "I" /\ l[j].data <= l[i].data =>
      /\ \A b \in DOMAIN l : i < b /\ b < j => ~Barrier(l[b])
      /\ l[i].data - l[j].data < MaxWindow
      /\ Dist(l[j].ns, l[i].ns) = l[i].data - l[j].data

\* Receiver's record r, its newest packet d, and the line: a packet that is not
\* newer has a number before the one the receiver waits for.
LastLine(r, d, l) ==
  \A j \in DOMAIN l :
    l[j].type = "I" /\ l[j].data <= d =>
      /\ \A b \in DOMAIN l : b < j => ~Barrier(l[b])
      /\ LinkUp(r) => d - l[j].data < MaxWindow /\ Dist(l[j].ns, r.next_nr) = (d - l[j].data) + 1

\* The same for the packets in the sender's window.
LastWindow(r, d, p, n, l) ==
  n - d < Len(p.window) =>
    /\ ClearFrom(l, 0) /\ ClearFrom(p.s_queue, 0)
    /\ LinkUp(r) => Dist(r.next_nr, p.last_ns) = n - d

\* One direction: the sender's record p with n packets sent, the line l, the
\* receiver s with its record r, the packets del it delivered, and the cut set c.
Dir(p, n, l, s, r, del, c) ==
  /\ PeerOK(p, n)
  /\ LineWindow(p, n, l)
  /\ LinePairs(l)
  /\ LastOf(del) <= n
  /\ s \notin c =>
       /\ Increasing(del)
       /\ LastLine(r, LastOf(del), l)
       /\ LastWindow(r, LastOf(del), p, n, l)

-----------------------------------------------------------------------------
(* Numbers *)

LEMMA MaxWindowFacts == MaxWindow \in Nat /\ MaxWindow >= 2 /\ MaxWindow < SeqMod
BY SeqModAssumption DEF MaxWindow

LEMMA DistType ==
  ASSUME NEW a \in SeqNums, NEW b \in SeqNums
  PROVE  /\ Dist(a, b) \in 0 .. SeqMod - 1 /\ Dist(a, b) \in SeqNums
         /\ (Dist(a, b) = 0 <=> a = b)
BY SeqModAssumption DEF SeqNums, Dist

LEMMA SeqNextType ==
  ASSUME NEW a \in SeqNums
  PROVE  SeqNext(a) \in SeqNums
BY SeqModAssumption DEF SeqNums, SeqNext

LEMMA DistNext ==
  ASSUME NEW a \in SeqNums, NEW b \in SeqNums, Dist(a, b) < SeqMod - 1
  PROVE  Dist(a, SeqNext(b)) = Dist(a, b) + 1
BY SeqModAssumption DEF SeqNums, SeqNext, Dist

\* A window that is not full has room for one more.
LEMMA NotFull ==
  ASSUME NEW a \in SeqNums, NEW b \in SeqNums, SeqNext(b) # a
  PROVE  Dist(a, b) < MaxWindow
BY SeqModAssumption DEF SeqNums, SeqNext, Dist, MaxWindow

LEMMA DistPrev ==
  ASSUME NEW a \in SeqNums, NEW b \in SeqNums, Dist(a, b) > 0
  PROVE  Dist(SeqNext(a), b) = Dist(a, b) - 1
BY SeqModAssumption DEF SeqNums, SeqNext, Dist

LEMMA DistSub ==
  ASSUME NEW a \in SeqNums, NEW b \in SeqNums, NEW c \in SeqNums, Dist(b, c) <= Dist(a, c)
  PROVE  Dist(a, b) = Dist(a, c) - Dist(b, c)
BY SeqModAssumption DEF SeqNums, Dist

LEMMA DistAfter ==
  ASSUME NEW a \in SeqNums, NEW b \in SeqNums, NEW c \in SeqNums, Dist(a, b) <= Dist(a, c)
  PROVE  Dist(b, c) = Dist(a, c) - Dist(a, b)
BY SeqModAssumption DEF SeqNums, Dist

(* The place of a window entry is the same counted from the end of the longer
   window. *)
LEMMA Places ==
    \A n, x, k \in Nat : /\ (n - x) + k = ((n + 1) - (x + 1)) + k
                        /\ ((n + 1) - (x + 1)) + (x + 1) = n + 1
OBVIOUS

LEMMA Ages == \A n, x, y \in Nat : ((n - x) + 1) - ((n - y) + 1) = y - x
OBVIOUS

LEMMA DistPlus ==
  ASSUME NEW a \in SeqNums, NEW b \in SeqNums, NEW k \in Nat, k <= Dist(a, b)
  PROVE  /\ (IF a + k >= SeqMod THEN (a + k) - SeqMod ELSE a + k) \in SeqNums
         /\ Dist(IF a + k >= SeqMod THEN (a + k) - SeqMod ELSE a + k, b) = Dist(a, b) - k
BY SeqModAssumption DEF SeqNums, Dist

-----------------------------------------------------------------------------
(* What the handlers do to a station's record *)

LEMMA FrameTypesOf ==
  /\ \A type \in UTypes : U(type) \in Frames /\ U(type).type = type
  /\ \A type \in STypes, nr \in SeqNums : S(type, nr) \in Frames /\ S(type, nr).type = type
  /\ \A ns \in SeqNums, nr \in SeqNums, d \in Nat :
       /\ I(ns, nr, d) \in Frames /\ I(ns, nr, d).type = "I"
       /\ I(ns, nr, d).ns = ns /\ I(ns, nr, d).data = d
BY SeqModAssumption DEF U, S, I, Frames, FrameTypes, SeqNums

LEMMA ZeroIsNumber == 0 \in SeqNums
BY SeqModAssumption DEF SeqNums

\* From record p to record q the sender's side keeps its numbers and confirms
\* some packets, or drops all of them; only then a barrier may be queued.
SenderStep(p, q) ==
  \/ Len(q.window) = 0
  \/ /\ q.last_ns = p.last_ns /\ Len(q.window) <= Len(p.window)
     /\ ClearFrom(p.s_queue, 0) => ClearFrom(q.s_queue, 0)

LEMMA EmptyWindow ==
  ASSUME NEW q \in Seq(Nat)
  PROVE  q = <<>> <=> Len(q) = 0
BY EmptySeq

LEMMA PutOK ==
  ASSUME NEW p, NEW n, PeerOK(p, n), NEW f \in Frames, f.type # "I"
  PROVE  /\ PeerOK(PutUS(p, f), n)
         /\ PutUS(p, f).window = p.window /\ PutUS(p, f).last_ns = p.last_ns
         /\ PutUS(p, f).next_nr = p.next_nr /\ PutUS(p, f).state = p.state
         /\ ~Barrier(f) => SenderStep(p, PutUS(p, f))
<1> DEFINE q == PutUS(p, f)
<1>1. CASE q = p
    BY <1>1 DEF SenderStep, PeerOK, PeerType
<1>2. CASE q = [p EXCEPT !.s_queue = Append(p.s_queue, f)]
    <2>1. /\ Append(p.s_queue, f) \in Seq(Frames)
          /\ DOMAIN Append(p.s_queue, f) = 1 .. Len(p.s_queue) + 1
          /\ \A i \in 1 .. Len(p.s_queue) : Append(p.s_queue, f)[i] = p.s_queue[i]
          /\ Append(p.s_queue, f)[Len(p.s_queue) + 1] = f
          /\ p.s_queue \in Seq(Frames) /\ DOMAIN p.s_queue = 1 .. Len(p.s_queue) /\ Len(p.s_queue) \in Nat
        BY AppendProperties DEF PeerOK, PeerType
    <2>2. \A i \in DOMAIN Append(p.s_queue, f) :
            \/ i \in DOMAIN p.s_queue /\ Append(p.s_queue, f)[i] = p.s_queue[i]
            \/ Append(p.s_queue, f)[i] = f
        BY <2>1
    <2>3. /\ q \in PeerType /\ q.window = p.window /\ q.last_ns = p.last_ns /\ q.next_nr = p.next_nr
          /\ q.state = p.state /\ q.s_queue = Append(p.s_queue, f) /\ q.confirm_ns = p.confirm_ns
          /\ q.can_accept = p.can_accept
        BY <1>2, <2>1 DEF PeerOK, PeerType
    <2> HIDE DEF q
    <2>4. \A i \in DOMAIN q.s_queue : q.s_queue[i].type # "I"
        BY <2>2, <2>3 DEF PeerOK
    <2>5. PeerOK(q, n)
        BY <2>3, <2>4 DEF PeerOK, LinkUp
    <2>6. ASSUME ~Barrier(f), ClearFrom(p.s_queue, 0)
          PROVE  ClearFrom(q.s_queue, 0)
        BY <2>6, <2>2, <2>3, <2>1 DEF ClearFrom
    <2>7. Len(q.window) <= Len(p.window)
        BY <2>3 DEF PeerOK, PeerType
    <2> QED
        BY <2>3, <2>5, <2>6, <2>7 DEF SenderStep, q
<1> QED
    BY <1>1, <1>2 DEF PutUS

LEMMA ResetOK ==
  ASSUME NEW p, NEW n, PeerOK(p, n), NEW st \in {"CONNECTED", "DISCONNECTED"}
  PROVE  /\ PeerOK(Reset(p, st), n)
         /\ Len(Reset(p, st).window) = 0 /\ Reset(p, st).state = st
<1> DEFINE q == Reset(p, st)
<1>0. p \in PeerType /\ <<>> \in Seq(Nat) /\ (st = "CONNECTED") \in BOOLEAN /\ st \in States
    BY DEF PeerOK, States
<1>1. /\ q \in PeerType /\ q.window = <<>> /\ q.confirm_ns = 0 /\ q.last_ns = 0 /\ q.state = st
      /\ q.can_accept = (st = "CONNECTED") /\ q.s_queue = p.s_queue
    BY <1>0, ZeroIsNumber DEF Reset, PeerType
<1> HIDE DEF q
<1>2. Len(q.window) = 0
    BY <1>1
<1>3. Dist(q.confirm_ns, q.last_ns) = 0
    BY <1>1 DEF Dist
<1>4. ~LinkUp(q) => q.window = <<>> /\ ~q.can_accept
    BY <1>1 DEF LinkUp
<1>5. n \in Nat /\ MaxWindow \in Nat /\ Len(q.window) <= n /\ Len(q.window) <= MaxWindow
    BY <1>2, MaxWindowFacts DEF PeerOK
<1>6. \A i \in DOMAIN q.s_queue : q.s_queue[i].type # "I"
    BY <1>1 DEF PeerOK
<1>7. Len(q.window) < MaxWindow
    BY <1>2, MaxWindowFacts
<1>8. PeerOK(q, n)
    BY <1>1, <1>2, <1>3, <1>4, <1>5, <1>6, <1>7 DEF PeerOK
<1> QED
    BY <1>1, <1>2, <1>8 DEF q

LEMMA DownOK ==
  ASSUME NEW p, NEW n, PeerOK(p, n)
  PROVE  /\ PeerOK(SwitchToDisconnected(p), n)
         /\ Len(SwitchToDisconnected(p).window) = 0
         /\ SwitchToDisconnected(p).state = "DISCONNECTED"
<1>1. CASE p.state = "DISCONNECTED"
    <2>1. SwitchToDisconnected(p) = p
        BY <1>1 DEF SwitchToDisconnected
    <2>2. p.window = <<>>
        BY <1>1 DEF PeerOK, LinkUp
    <2> QED
        BY <1>1, <2>1, <2>2
<1>2. CASE p.state # "DISCONNECTED"
    BY <1>2, ResetOK DEF SwitchToDisconnected
<1> QED
    BY <1>1, <1>2

LEMMA UpOK ==
  ASSUME NEW p, NEW n, PeerOK(p, n), p.state # "CONNECTED"
  PROVE  /\ PeerOK(SwitchToConnected(p), n)
         /\ Len(SwitchToConnected(p).window) = 0
BY ResetOK DEF SwitchToConnected

\* Fields the invariant does not mention may change.
LEMMA OtherFields ==
  ASSUME NEW p, NEW n, PeerOK(p, n), NEW q \in PeerType,
         q.window = p.window, q.last_ns = p.last_ns, q.confirm_ns = p.confirm_ns,
         q.s_queue = p.s_queue, q.can_accept = p.can_accept, LinkUp(p) => LinkUp(q)
  PROVE  PeerOK(q, n) /\ SenderStep(p, q)
<1>1. PeerOK(q, n)
    BY DEF PeerOK
<1>2. Len(q.window) <= Len(p.window)
    BY DEF PeerOK, PeerType
<1> QED
    BY <1>1, <1>2 DEF SenderStep

LEMMA SenderSteps ==
  ASSUME NEW p, NEW q, NEW r, p \in PeerType, q \in PeerType, r \in PeerType,
         SenderStep(p, q), SenderStep(q, r)
  PROVE  SenderStep(p, r)
<1>1. Len(p.window) \in Nat /\ Len(q.window) \in Nat /\ Len(r.window) \in Nat
    BY DEF PeerType
<1>2. CASE Len(r.window) = 0
    BY <1>2 DEF SenderStep
<1>3. CASE Len(r.window) # 0
    BY <1>1, <1>3 DEF SenderStep
<1> QED
    BY <1>2, <1>3

LEMMA ConfirmOK ==
  ASSUME NEW p, NEW n, PeerOK(p, n), LinkUp(p), NEW nr \in SeqNums
  PROVE  /\ PeerOK(ConfirmSentFrames(p, nr), n)
         /\ SenderStep(p, ConfirmSentFrames(p, nr))
         /\ ConfirmSentFrames(p, nr).next_nr = p.next_nr
         /\ ConfirmSentFrames(p, nr).state = p.state
<1> DEFINE k == Confirms(p, nr)
           c == IF p.confirm_ns + k >= SeqMod THEN (p.confirm_ns + k) - SeqMod ELSE p.confirm_ns + k
           w == SubSeq(p.window, k + 1, Len(p.window))
           t == IF k > 0 THEN Retries ELSE p.retries
           q == [p EXCEPT !.confirm_ns = c, !.window = SubSeq(@, k + 1, Len(@)),
                          !.retries = IF k > 0 THEN Retries ELSE @]
           b == q.can_accept \/ ~TxFull(q)
           r == [q EXCEPT !.can_accept = @ \/ ~TxFull(q)]
<1>1. p \in PeerType /\ p.window \in Seq(Nat) /\ Len(p.window) \in Nat
    BY DEF PeerOK, PeerType
<1>2. k \in 0 .. Len(p.window)
    BY <1>1, DistType DEF Confirms, PeerType
<1> HIDE DEF k
<1>3. c \in SeqNums /\ Dist(c, p.last_ns) = Len(p.window) - k
    <2>1. p.confirm_ns \in SeqNums /\ p.last_ns \in SeqNums
        BY <1>1 DEF PeerType
    <2>2. k \in Nat /\ Dist(p.confirm_ns, p.last_ns) = Len(p.window) /\ k <= Len(p.window)
        BY <1>1, <1>2 DEF PeerOK
    <2> QED
        BY <2>1, <2>2, DistPlus
<1>4. /\ w \in Seq(Nat) /\ Len(w) = Len(p.window) - k
      /\ \A j \in 1 .. Len(p.window) - k : w[j] = p.window[k + j]
    BY <1>1, <1>2, SubSeqProperties
<1>5. t \in Nat
    BY <1>1, PeerAssumption DEF PeerType
<1> HIDE DEF c, w, t
<1>6. /\ q \in PeerType /\ q.confirm_ns = c /\ q.window = w /\ q.last_ns = p.last_ns
      /\ q.next_nr = p.next_nr /\ q.state = p.state /\ q.s_queue = p.s_queue
    <2>1. q = [p EXCEPT !.confirm_ns = c, !.window = w, !.retries = t]
        BY <1>1 DEF PeerType, w, t
    <2> QED
        BY <2>1, <1>1, <1>3, <1>4, <1>5 DEF PeerType
<1>7. b \in BOOLEAN
    BY <1>6 DEF PeerType
<1> HIDE DEF q, b
<1>8. /\ r \in PeerType /\ r.confirm_ns = c /\ r.window = w /\ r.last_ns = p.last_ns
      /\ r.next_nr = p.next_nr /\ r.state = p.state /\ r.s_queue = p.s_queue
    <2>1. r = [q EXCEPT !.can_accept = b]
        BY DEF b
    <2> QED
        BY <2>1, <1>6, <1>7 DEF PeerType
<1>9. ConfirmSentFrames(p, nr) = r
    BY DEF ConfirmSentFrames, r, q, c, k
<1> HIDE DEF r
<1>10. LinkUp(r)
    BY <1>8 DEF LinkUp
<1>11. n \in Nat /\ Len(p.window) <= n /\ Len(p.window) <= MaxWindow /\ MaxWindow \in Nat
    BY MaxWindowFacts DEF PeerOK
<1>12. Len(r.window) <= Len(p.window) /\ Len(r.window) <= n /\ Len(r.window) <= MaxWindow
    BY <1>1, <1>2, <1>4, <1>8, <1>11
<1>13. ASSUME NEW j \in 1 .. Len(r.window)
       PROVE  r.window[j] = (n - Len(r.window)) + j
    <2>1. k + j \in 1 .. Len(p.window) /\ j \in 1 .. Len(p.window) - k
        BY <1>1, <1>2, <1>4, <1>8
    <2>2. p.window[k + j] = (n - Len(p.window)) + (k + j)
        BY <2>1 DEF PeerOK
    <2>3. (n - Len(p.window)) + (k + j) = (n - (Len(p.window) - k)) + j
        BY <1>1, <1>2, <1>11
    <2> QED
        BY <2>1, <2>2, <2>3, <1>4, <1>8
<1>14. Dist(r.confirm_ns, r.last_ns) = Len(r.window)
    BY <1>3, <1>4, <1>8
<1>15. \A i \in DOMAIN r.s_queue : r.s_queue[i].type # "I"
    BY <1>8 DEF PeerOK
<1>16. r.can_accept => Len(r.window) < MaxWindow
    <2>1. r.can_accept => p.can_accept \/ ~TxFull(q)
        <3>1. r = [q EXCEPT !.can_accept = b]
            BY DEF r, b
        <3>2. r.can_accept = b
            BY <3>1, <1>6 DEF PeerType
        <3>3. q.can_accept = p.can_accept
            BY <1>1 DEF q, PeerType
        <3> QED
            BY <3>2, <3>3 DEF b
    <2>2. ASSUME ~TxFull(q)
          PROVE  Len(r.window) < MaxWindow
        <3>1. r.confirm_ns \in SeqNums /\ r.last_ns \in SeqNums /\ SeqNext(r.last_ns) # r.confirm_ns
            BY <2>2, <1>6, <1>8 DEF TxFull, PeerType
        <3> QED
            BY <3>1, <1>14, NotFull
    <2>3. p.can_accept => Len(p.window) < MaxWindow
        BY DEF PeerOK
    <2>4. Len(r.window) \in Nat
        BY <1>8 DEF PeerType
    <2> QED
        BY <1>1, <1>11, <1>12, <2>1, <2>2, <2>3, <2>4
<1>17. PeerOK(r, n)
    BY <1>8, <1>10, <1>11, <1>12, <1>13, <1>14, <1>15, <1>16 DEF PeerOK
<1>18. SenderStep(p, r)
    BY <1>8, <1>12 DEF SenderStep
<1> QED
    BY <1>8, <1>9, <1>17, <1>18

\* Only the rewound next_ns and a FRMR are new.
LEMMA ResendOK ==
  ASSUME NEW p, NEW n, PeerOK(p, n), NEW nr \in SeqNums
  PROVE  /\ PeerOK(ResendFrom(p, nr), n)
         /\ SenderStep(p, ResendFrom(p, nr))
         /\ ResendFrom(p, nr).next_nr = p.next_nr
         /\ ResendFrom(p, nr).state = p.state
<1> DEFINE Rewound(x) == [p EXCEPT !.next_ns = x]
<1>1. p \in PeerType
    BY DEF PeerOK
<1>2. ASSUME NEW x \in SeqNums
      PROVE  /\ PeerOK(Rewound(x), n) /\ SenderStep(p, Rewound(x)) /\ Rewound(x) \in PeerType
             /\ Rewound(x).next_nr = p.next_nr /\ Rewound(x).state = p.state
    <2>1. /\ Rewound(x) \in PeerType
          /\ Rewound(x).window = p.window /\ Rewound(x).last_ns = p.last_ns
          /\ Rewound(x).confirm_ns = p.confirm_ns /\ Rewound(x).s_queue = p.s_queue
          /\ Rewound(x).can_accept = p.can_accept
          /\ Rewound(x).next_nr = p.next_nr /\ Rewound(x).state = p.state
        BY <1>1 DEF PeerType
    <2> HIDE DEF Rewound
    <2>2. LinkUp(p) => LinkUp(Rewound(x))
        BY <2>1 DEF LinkUp
    <2> QED
        BY <2>1, <2>2, OtherFields
<1>3. p.confirm_ns \in SeqNums
    BY <1>1 DEF PeerType
<1>4. U("FRMR") \in Frames /\ U("FRMR").type # "I" /\ ~Barrier(U("FRMR"))
    BY FrameTypesOf DEF UTypes, Barrier
<1> HIDE DEF Rewound
<1>5. CASE ResendFrom(p, nr) = Rewound(nr)
    BY <1>2, <1>5
<1>6. CASE ResendFrom(p, nr) = PutUS(Rewound(p.confirm_ns), U("FRMR"))
    <2> DEFINE m == Rewound(p.confirm_ns)
               q == PutUS(m, U("FRMR"))
    <2>1. /\ PeerOK(m, n) /\ SenderStep(p, m) /\ m \in PeerType
          /\ m.next_nr = p.next_nr /\ m.state = p.state
        BY <1>2, <1>3
    <2> HIDE DEF m
    <2>2. PeerOK(q, n) /\ SenderStep(m, q) /\ q.next_nr = m.next_nr /\ q.state = m.state
        BY <2>1, <1>4, PutOK
    <2>3. q \in PeerType
        BY <2>2 DEF PeerOK
    <2> HIDE DEF q
    <2>4. SenderStep(p, q)
        BY <1>1, <2>1, <2>2, <2>3, SenderSteps
    <2> QED
        BY <1>6, <2>1, <2>2, <2>4 DEF q, m
<1> QED
    BY <1>5, <1>6 DEF ResendFrom, Rewound

NextNr(p, f) == IF f.type = "I" /\ f.ns = p.next_nr THEN SeqNext(p.next_nr) ELSE p.next_nr

LEMMA CheckReceivedOK ==
  ASSUME NEW p, NEW n, PeerOK(p, n), NEW ns \in SeqNums
  PROVE  /\ PeerOK(CheckReceived(p, ns), n)
         /\ SenderStep(p, CheckReceived(p, ns))
         /\ CheckReceived(p, ns).state = p.state
         /\ CheckReceived(p, ns).next_nr = IF ns = p.next_nr THEN SeqNext(p.next_nr) ELSE p.next_nr
<1>1. p \in PeerType /\ p.next_nr \in SeqNums /\ SeqNext(p.next_nr) \in SeqNums
    BY SeqNextType DEF PeerOK, PeerType
<1>2. CASE ns = p.next_nr
    <2> DEFINE q == [p EXCEPT !.next_nr = SeqNext(@), !.sent_reject = FALSE]
    <2>1. CheckReceived(p, ns) = q
        BY <1>2 DEF CheckReceived
    <2>2. /\ q \in PeerType /\ q.window = p.window /\ q.last_ns = p.last_ns
          /\ q.confirm_ns = p.confirm_ns /\ q.s_queue = p.s_queue /\ q.can_accept = p.can_accept
          /\ q.state = p.state /\ q.next_nr = SeqNext(p.next_nr)
        BY <1>1 DEF PeerType
    <2> HIDE DEF q
    <2>3. LinkUp(p) => LinkUp(q)
        BY <2>2 DEF LinkUp
    <2> QED
        BY <1>2, <2>1, <2>2, <2>3, OtherFields
<1>3. CASE ns # p.next_nr /\ p.sent_reject
    <2>1. CheckReceived(p, ns) = p
        BY <1>3 DEF CheckReceived
    <2>2. SenderStep(p, p)
        BY <1>1, OtherFields
    <2> QED
        BY <1>3, <2>1, <2>2
<1>4. CASE ns # p.next_nr /\ ~p.sent_reject
    <2> DEFINE m == [p EXCEPT !.sent_reject = TRUE]
               f == S("REJ", p.next_nr)
               q == PutUS(m, f)
    <2>1. CheckReceived(p, ns) = q
        BY <1>4 DEF CheckReceived
    <2>2. /\ m \in PeerType /\ m.window = p.window /\ m.last_ns = p.last_ns
          /\ m.confirm_ns = p.confirm_ns /\ m.s_queue = p.s_queue /\ m.can_accept = p.can_accept
          /\ m.state = p.state /\ m.next_nr = p.next_nr
        BY <1>1 DEF PeerType
    <2>3. f \in Frames /\ f.type # "I" /\ ~Barrier(f)
        BY <1>1, FrameTypesOf DEF STypes, Barrier
    <2> HIDE DEF m, f
    <2>4. LinkUp(p) => LinkUp(m)
        BY <2>2 DEF LinkUp
    <2>5. PeerOK(m, n) /\ SenderStep(p, m)
        BY <2>2, <2>4, OtherFields
    <2>6. PeerOK(q, n) /\ SenderStep(m, q) /\ q.next_nr = p.next_nr /\ q.state = p.state
        BY <2>2, <2>3, <2>5, PutOK
    <2>7. q \in PeerType
        BY <2>6 DEF PeerOK
    <2> HIDE DEF q
    <2>8. SenderStep(p, q)
        BY <1>1, <2>2, <2>5, <2>6, <2>7, SenderSteps
    <2> QED
        BY <1>4, <2>1, <2>6, <2>8
<1> QED
    BY <1>2, <1>3, <1>4

\* A numbered frame moves next_nr when it carries the number waited for, and
\* nothing else of the receiver's side.
LEMMA OnIFrameOK ==
  ASSUME NEW p, NEW n, PeerOK(p, n), LinkUp(p), NEW f \in Frames, f.type = "I"
  PROVE  /\ PeerOK(OnIFrame(p, f), n)
         /\ SenderStep(p, OnIFrame(p, f))
         /\ OnIFrame(p, f).next_nr = NextNr(p, f)
<1> DEFINE m == CheckReceived(p, f.ns)
           q == ConfirmSentFrames(m, f.nr)
           r == PutUS(q, S("RR", q.next_nr))
<1>1. f.ns \in SeqNums /\ f.nr \in SeqNums /\ p \in PeerType
    BY DEF Frames, PeerOK
<1>2. PeerOK(m, n) /\ SenderStep(p, m) /\ m.state = p.state /\ m.next_nr = NextNr(p, f)
    BY <1>1, CheckReceivedOK DEF NextNr
<1>3. LinkUp(m) /\ m \in PeerType
    BY <1>2 DEF LinkUp, PeerOK
<1> HIDE DEF m
<1>4. PeerOK(q, n) /\ SenderStep(m, q) /\ q.next_nr = NextNr(p, f)
    BY <1>1, <1>2, <1>3, ConfirmOK
<1>5. q \in PeerType /\ q.next_nr \in SeqNums
    BY <1>4 DEF PeerOK, PeerType
<1> HIDE DEF q
<1>6. SenderStep(p, q)
    BY <1>1, <1>2, <1>3, <1>4, <1>5, SenderSteps
<1>7. S("RR", q.next_nr) \in Frames /\ S("RR", q.next_nr).type # "I" /\ ~Barrier(S("RR", q.next_nr))
    BY <1>5, FrameTypesOf DEF STypes, Barrier
<1>8. PeerOK(r, n) /\ SenderStep(q, r) /\ r.next_nr = NextNr(p, f)
    BY <1>4, <1>7, PutOK
<1>9. r \in PeerType
    BY <1>8 DEF PeerOK
<1> HIDE DEF r
<1>10. SenderStep(p, r)
    BY <1>1, <1>5, <1>6, <1>8, <1>9, SenderSteps
<1>11. OnIFrame(p, f) \in {q, r}
    BY DEF OnIFrame, q, r, m
<1> QED
    BY <1>4, <1>6, <1>8, <1>10, <1>11

LEMMA OnSFrameOK ==
  ASSUME NEW p, NEW n, PeerOK(p, n), LinkUp(p), NEW f \in Frames, f.type \in STypes
  PROVE  /\ PeerOK(OnSFrame(p, f), n)
         /\ SenderStep(p, OnSFrame(p, f))
         /\ OnSFrame(p, f).next_nr = p.next_nr
<1> DEFINE q == ConfirmSentFrames(p, f.nr)
           r == ResendFrom(q, f.nr)
<1>1. f.nr \in SeqNums /\ p \in PeerType
    BY DEF Frames, PeerOK
<1>2. PeerOK(q, n) /\ SenderStep(p, q) /\ q.next_nr = p.next_nr
    BY <1>1, ConfirmOK
<1>3. q \in PeerType
    BY <1>2 DEF PeerOK
<1> HIDE DEF q
<1>4. PeerOK(r, n) /\ SenderStep(q, r) /\ r.next_nr = p.next_nr
    BY <1>1, <1>2, ResendOK
<1>5. r \in PeerType
    BY <1>4 DEF PeerOK
<1> HIDE DEF r
<1>6. SenderStep(p, r)
    BY <1>1, <1>2, <1>3, <1>4, <1>5, SenderSteps
<1>7. OnSFrame(p, f) \in {q, r}
    BY DEF OnSFrame, q, r
<1> QED
    BY <1>2, <1>4, <1>6, <1>7

\* A U-frame: next_nr only restarts behind a barrier, or the link is down.
LEMMA OnUFrameOK ==
  ASSUME NEW p, NEW n, PeerOK(p, n), NEW f \in Frames, f.type \in UTypes
  PROVE  /\ PeerOK(OnUFrame(p, f), n)
         /\ SenderStep(p, OnUFrame(p, f))
         /\ LinkUp(OnUFrame(p, f)) /\ ~Barrier(f) =>
              LinkUp(p) /\ OnUFrame(p, f).next_nr = p.next_nr
<1> DEFINE r == OnUFrame(p, f)
<1>1. p \in PeerType /\ p.state \in States
    BY DEF PeerOK, PeerType
<1>2. \A t \in UTypes : U(t) \in Frames /\ U(t).type = t /\ U(t).type # "I"
    BY FrameTypesOf DEF UTypes
<1>3. SenderStep(p, p)
    BY <1>1, OtherFields
<1>4. CASE p.state = "DISCONNECTED" /\ f.type \notin {"SABM", "UI"}
    <2>0. U("DM") \in Frames /\ U("DM").type # "I" /\ ~Barrier(U("DM"))
        BY <1>2 DEF UTypes, Barrier
    <2>1. /\ PeerOK(PutUS(p, U("DM")), n) /\ SenderStep(p, PutUS(p, U("DM")))
          /\ PutUS(p, U("DM")).state = p.state
        BY <2>0, PutOK
    <2>2. r \in {p, PutUS(p, U("DM"))}
        BY <1>4 DEF OnUFrame
    <2>3. ~LinkUp(r)
        BY <1>4, <2>1, <2>2 DEF LinkUp
    <2> HIDE DEF r
    <2> QED
        BY <1>3, <2>1, <2>2, <2>3 DEF r
<1>5. CASE f.type = "SABM"
    <2> DEFINE m == PutUS(p, U("UA"))
               k == IF LinkUp(p) THEN SwitchToDisconnected(m) ELSE m
    <2>1. r = SwitchToConnected(k)
        BY <1>5 DEF OnUFrame
    <2>2. PeerOK(m, n) /\ m.state = p.state
        BY <1>2, PutOK DEF UTypes
    <2> HIDE DEF m
    <2>3. PeerOK(k, n) /\ k.state # "CONNECTED"
        BY <2>2, DownOK DEF LinkUp
    <2> HIDE DEF k, r
    <2>4. PeerOK(r, n) /\ Len(r.window) = 0
        BY <2>1, <2>3, UpOK
    <2> QED
        BY <1>5, <2>4 DEF r, SenderStep, Barrier
<1>6. CASE p.state # "DISCONNECTED" /\ f.type = "DISC"
    <2> DEFINE m == PutUS(p, U("UA"))
    <2>1. r = SwitchToDisconnected(m)
        BY <1>6 DEF OnUFrame
    <2>2. PeerOK(m, n)
        BY <1>2, PutOK DEF UTypes
    <2> HIDE DEF m, r
    <2>3. PeerOK(r, n) /\ Len(r.window) = 0 /\ ~LinkUp(r)
        BY <2>1, <2>2, DownOK DEF LinkUp
    <2> QED
        BY <2>3 DEF r, SenderStep
<1>7. CASE p.state # "DISCONNECTED" /\ f.type = "FRMR"
    <2> DEFINE k == SwitchToDisconnected(p)
               m == PutUS(k, U("SABM"))
    <2>1. r = [m EXCEPT !.state = "CONNECTING"]
        BY <1>7 DEF OnUFrame
    <2>2. PeerOK(k, n) /\ Len(k.window) = 0 /\ k.state = "DISCONNECTED"
        BY DownOK
    <2> HIDE DEF k
    <2>3. PeerOK(m, n) /\ m.window = k.window /\ m.state = k.state
        BY <1>2, <2>2, PutOK DEF UTypes
    <2> HIDE DEF m
    <2>4. m \in PeerType
        BY <2>3 DEF PeerOK
    <2>5. /\ r \in PeerType /\ r.window = m.window /\ r.last_ns = m.last_ns /\ r.confirm_ns = m.confirm_ns
          /\ r.s_queue = m.s_queue /\ r.can_accept = m.can_accept /\ r.state = "CONNECTING"
        BY <2>1, <2>4 DEF PeerType, States
    <2> HIDE DEF r
    <2>6. ~LinkUp(m) /\ ~LinkUp(r)
        BY <2>2, <2>3, <2>5 DEF LinkUp
    <2>7. PeerOK(r, n)
        BY <2>3, <2>5, <2>6, OtherFields
    <2>8. Len(r.window) = 0
        BY <2>2, <2>3, <2>5
    <2> QED
        BY <2>6, <2>7, <2>8 DEF r, SenderStep
<1>8. CASE f.type = "UA" /\ p.state = "CONNECTING"
    <2>1. r = SwitchToConnected(p)
        BY <1>8 DEF OnUFrame
    <2>2. PeerOK(r, n) /\ Len(r.window) = 0
        BY <1>8, <2>1, UpOK
    <2> QED
        BY <1>8, <2>2 DEF SenderStep, Barrier
<1>9. CASE (f.type = "UA" /\ p.state = "DISCONNECTING") \/ (p.state # "DISCONNECTED" /\ f.type = "DM")
    <2>1. r = SwitchToDisconnected(p)
        BY <1>9 DEF OnUFrame
    <2> HIDE DEF r
    <2>2. PeerOK(r, n) /\ Len(r.window) = 0 /\ ~LinkUp(r)
        BY <2>1, DownOK DEF LinkUp
    <2> QED
        BY <2>2 DEF r, SenderStep
<1>10. CASE f.type = "UI" \/ (f.type = "UA" /\ p.state = "CONNECTED")
    <2>1. r = p
        BY <1>10 DEF OnUFrame
    <2> QED
        BY <1>3, <2>1
<1> QED
    BY <1>1, <1>4, <1>5, <1>6, <1>7, <1>8, <1>9, <1>10 DEF UTypes, States

\* on_frame_read as a whole.
LEMMA OnFrameReadOK ==
  ASSUME NEW p, NEW n, PeerOK(p, n), NEW f \in Frames
  PROVE  /\ PeerOK(OnFrameRead(p, f), n)
         /\ SenderStep(p, OnFrameRead(p, f))
         /\ LinkUp(OnFrameRead(p, f)) /\ ~Barrier(f) =>
              LinkUp(p) /\ OnFrameRead(p, f).next_nr = NextNr(p, f)
<1> DEFINE q == [p EXCEPT !.ka_confirmed = TRUE]
           r == OnFrameRead(p, f)
<1>1. p \in PeerType /\ f.type \in FrameTypes
    BY DEF PeerOK, Frames
<1>2. /\ q \in PeerType /\ q.window = p.window /\ q.last_ns = p.last_ns
      /\ q.confirm_ns = p.confirm_ns /\ q.s_queue = p.s_queue /\ q.can_accept = p.can_accept
      /\ q.state = p.state /\ q.next_nr = p.next_nr
    BY <1>1 DEF PeerType
<1>3. r = CASE f.type \in UTypes -> OnUFrame(q, f)
            [] f.type \notin UTypes /\ ~LinkUp(q) -> PutUS(q, U("DM"))
            [] f.type = "I" /\ LinkUp(q) -> OnIFrame(q, f)
            [] f.type \in {"RR", "REJ"} /\ LinkUp(q) -> OnSFrame(q, f)
    BY DEF OnFrameRead
<1> HIDE DEF q, r
<1>4. LinkUp(q) <=> LinkUp(p)
    BY <1>2 DEF LinkUp
<1>5. PeerOK(q, n) /\ SenderStep(p, q)
    BY <1>2, <1>4, OtherFields
<1>6. NextNr(q, f) = NextNr(p, f)
    BY <1>2 DEF NextNr
<1>7. SUFFICES /\ PeerOK(r, n) /\ SenderStep(q, r)
               /\ LinkUp(r) /\ ~Barrier(f) => LinkUp(q) /\ r.next_nr = NextNr(q, f)
    <2>1. ASSUME PeerOK(r, n), SenderStep(q, r) PROVE SenderStep(p, r)
        BY <2>1, <1>1, <1>2, <1>5, SenderSteps DEF PeerOK
    <2> QED
        BY <2>1, <1>4, <1>6 DEF r
<1>8. CASE f.type \in UTypes
    <2>1. r = OnUFrame(q, f)
        BY <1>3, <1>8 DEF UTypes
    <2>2. NextNr(q, f) = q.next_nr
        BY <1>8 DEF NextNr, UTypes
    <2> QED
        BY <1>5, <1>8, <2>1, <2>2, OnUFrameOK
<1>9. CASE f.type \notin UTypes /\ ~LinkUp(q)
    <2>1. r = PutUS(q, U("DM"))
        BY <1>3, <1>9
    <2>2. U("DM") \in Frames /\ U("DM").type # "I" /\ ~Barrier(U("DM"))
        BY FrameTypesOf DEF UTypes, Barrier
    <2>3. PeerOK(r, n) /\ SenderStep(q, r) /\ r.state = q.state
        BY <1>5, <2>1, <2>2, PutOK
    <2>4. ~LinkUp(r)
        BY <1>9, <2>3 DEF LinkUp
    <2> QED
        BY <2>3, <2>4
<1>10. CASE f.type = "I" /\ LinkUp(q)
    <2>1. r = OnIFrame(q, f)
        BY <1>3, <1>10 DEF UTypes
    <2> QED
        BY <1>5, <1>10, <2>1, OnIFrameOK
<1>11. CASE f.type \in STypes /\ LinkUp(q)
    <2>1. r = OnSFrame(q, f)
        BY <1>3, <1>11 DEF UTypes, STypes
    <2>2. NextNr(q, f) = q.next_nr
        BY <1>11 DEF NextNr, STypes
    <2> QED
        BY <1>5, <1>11, <2>1, <2>2, OnSFrameOK
<1> QED
    BY <1>1, <1>8, <1>9, <1>10, <1>11 DEF FrameTypes

\* The application queues packet n + 1, which can_accept allows.
Appended(p, n) == [p EXCEPT !.window = Append(@, n + 1), !.last_ns = SeqNext(@)]
Accepting(m) == [m EXCEPT !.can_accept = ~TxFull(m)]

LEMMA SendOK ==
  ASSUME NEW p, NEW n, PeerOK(p, n), p.can_accept = TRUE, NEW q, q = Accepting(Appended(p, n))
  PROVE  /\ PeerOK(q, n + 1) /\ LinkUp(p) /\ LinkUp(q) /\ Len(q.window) = Len(p.window) + 1
         /\ q.last_ns = SeqNext(p.last_ns) /\ q.s_queue = p.s_queue /\ q.next_nr = p.next_nr
<1> DEFINE w == Append(p.window, n + 1)
           m == Appended(p, n)
<1>0. q = [m EXCEPT !.can_accept = ~TxFull(m)]
    BY DEF Accepting
<1>1. p \in PeerType /\ n \in Nat /\ n + 1 \in Nat
    BY DEF PeerOK
<1>2. /\ w \in Seq(Nat) /\ Len(w) = Len(p.window) + 1 /\ Len(p.window) \in Nat
      /\ \A k \in 1 .. Len(p.window) : w[k] = p.window[k]
      /\ w[Len(p.window) + 1] = n + 1
    BY <1>1, AppendProperties, SMTT(20) DEF PeerType
<1>3. p.last_ns \in SeqNums /\ SeqNext(p.last_ns) \in SeqNums /\ p.confirm_ns \in SeqNums
    BY <1>1, SeqNextType DEF PeerType
<1>4. /\ m \in PeerType /\ m.window = w /\ m.last_ns = SeqNext(p.last_ns)
      /\ m.confirm_ns = p.confirm_ns /\ m.s_queue = p.s_queue /\ m.state = p.state
      /\ m.next_nr = p.next_nr
    <2>1. m = [p EXCEPT !.window = w, !.last_ns = SeqNext(p.last_ns)]
        BY <1>1 DEF PeerType, Appended
    <2> HIDE DEF w, m
    <2> QED
        BY <2>1, <1>1, <1>2, <1>3 DEF PeerType
<1>5. (~TxFull(m)) \in BOOLEAN
    OBVIOUS
<1> HIDE DEF w, m
<1>6. /\ q \in PeerType /\ q.window = w /\ q.last_ns = SeqNext(p.last_ns)
      /\ q.confirm_ns = p.confirm_ns /\ q.s_queue = p.s_queue /\ q.state = p.state
      /\ q.next_nr = p.next_nr
    BY <1>0, <1>4, <1>5 DEF PeerType
<1>7. LinkUp(p) /\ LinkUp(q)
    BY <1>6 DEF PeerOK, LinkUp
<1>8. /\ Len(p.window) <= n /\ MaxWindow \in Nat /\ MaxWindow < SeqMod /\ SeqMod \in Nat
      /\ Len(p.window) < MaxWindow
      /\ Dist(p.confirm_ns, p.last_ns) = Len(p.window)
    BY MaxWindowFacts, SeqModAssumption DEF PeerOK
<1>9. Dist(q.confirm_ns, q.last_ns) = Len(q.window)
    <2>1. Dist(p.confirm_ns, p.last_ns) < SeqMod - 1
        BY <1>2, <1>8
    <2>2. Dist(p.confirm_ns, SeqNext(p.last_ns)) = Dist(p.confirm_ns, p.last_ns) + 1
        BY <1>3, <2>1, DistNext
    <2> QED
        BY <1>2, <1>6, <1>8, <2>2
<1>10. ASSUME NEW k \in 1 .. Len(q.window)
       PROVE  q.window[k] = ((n + 1) - Len(q.window)) + k
    <2>1. CASE k \in 1 .. Len(p.window)
        <3>1. p.window[k] = (n - Len(p.window)) + k
            BY <2>1 DEF PeerOK
        <3>2. n \in Nat /\ Len(p.window) \in Nat /\ k \in Nat
            BY <1>1, <1>2, <2>1
        <3>3. (n - Len(p.window)) + k = ((n + 1) - (Len(p.window) + 1)) + k
            BY <3>2, Places
        <3> QED
            BY <2>1, <3>1, <3>3, <1>2, <1>6
    <2>2. CASE k = Len(p.window) + 1
        <3>1. n \in Nat /\ Len(p.window) \in Nat /\ k \in Nat
            BY <1>1, <1>2, <2>2
        <3>2. ((n + 1) - (Len(p.window) + 1)) + (Len(p.window) + 1) = n + 1
            BY <3>1, Places
        <3> QED
            BY <2>2, <3>2, <1>2, <1>6
    <2> QED
        BY <1>2, <1>6, <2>1, <2>2
<1>11. \A i \in DOMAIN q.s_queue : q.s_queue[i].type # "I"
    BY <1>1, <1>6 DEF PeerOK
<1>12. n + 1 \in Nat /\ Len(q.window) <= n + 1 /\ Len(q.window) <= MaxWindow
    BY <1>1, <1>2, <1>6, <1>8
<1>13. PeerOK(q, n + 1)
    <2>1. q.can_accept => Len(q.window) < MaxWindow
        <3>1. q.can_accept = (~TxFull(m))
            BY <1>0, <1>4, <1>5 DEF PeerType
        <3>2. TxFull(m) <=> SeqNext(q.last_ns) = q.confirm_ns
            BY <1>4, <1>6 DEF TxFull
        <3>3. q.last_ns \in SeqNums /\ q.confirm_ns \in SeqNums
            BY <1>6 DEF PeerType
        <3> QED
            BY <1>9, <3>1, <3>2, <3>3, NotFull
    <2> QED
        BY <2>1, <1>6, <1>7, <1>9, <1>10, <1>11, <1>12 DEF PeerOK
<1> QED
    BY <1>2, <1>6, <1>7, <1>13

-----------------------------------------------------------------------------
(* What a step does to one direction *)

LEMMA LastIsNat ==
  ASSUME NEW del \in Seq(Nat)
  PROVE  LastOf(del) \in Nat
<1>1. CASE del = <<>>
    BY <1>1 DEF LastOf
<1>2. CASE del # <<>>
    <2>1. Len(del) \in 1 .. Len(del)
        BY <1>2, EmptySeq
    <2> QED
        BY <1>2, <2>1 DEF LastOf
<1> QED
    BY <1>1, <1>2

\* The sender confirms packets or resets.
LEMMA SenderMoves ==
  ASSUME NEW p, NEW q, NEW n \in Nat, NEW l \in Seq(Frames), NEW s, NEW r,
         NEW del \in Seq(Nat), NEW c, Dir(p, n, l, s, r, del, c), PeerOK(q, n), SenderStep(p, q)
  PROVE  Dir(q, n, l, s, r, del, c)
<1>1. Len(p.window) \in Nat /\ Len(q.window) \in Nat
    BY DEF Dir, PeerOK, PeerType
<1>2. LastOf(del) \in Nat /\ LastOf(del) <= n
    BY LastIsNat DEF Dir
<1>3. ASSUME NEW d \in Nat, d <= n, n - d < Len(q.window)
      PROVE  /\ n - d < Len(p.window) /\ q.last_ns = p.last_ns
             /\ ClearFrom(p.s_queue, 0) => ClearFrom(q.s_queue, 0)
    BY <1>1, <1>3 DEF SenderStep
<1>4. LineWindow(q, n, l)
    <2> SUFFICES ASSUME NEW i \in DOMAIN l, l[i].type = "I"
                 PROVE  /\ l[i].data \in 1 .. n
                        /\ n - l[i].data < Len(q.window) =>
                             /\ ClearFrom(l, i) /\ ClearFrom(q.s_queue, 0)
                             /\ Dist(l[i].ns, q.last_ns) = (n - l[i].data) + 1
        BY DEF LineWindow
    <2>1. /\ l[i].data \in 1 .. n
          /\ n - l[i].data < Len(p.window) =>
                             /\ ClearFrom(l, i) /\ ClearFrom(p.s_queue, 0)
                             /\ Dist(l[i].ns, p.last_ns) = (n - l[i].data) + 1
        BY DEF Dir, LineWindow
    <2>2. l[i].data \in Nat /\ l[i].data <= n
        BY <2>1
    <2> QED
        BY <1>3, <2>1, <2>2
<1>5. ASSUME s \notin c
      PROVE  LastWindow(r, LastOf(del), q, n, l)
    <2>1. LastWindow(r, LastOf(del), p, n, l)
        BY <1>5 DEF Dir
    <2> QED
        BY <2>1, <1>2, <1>3 DEF LastWindow
<1> QED
    BY <1>4, <1>5 DEF Dir

\* The receiver's numbers stay, or it goes down.
LEMMA ReceiverMoves ==
  ASSUME NEW p, NEW n, NEW l, NEW s, NEW r, NEW q, NEW del, NEW c, NEW e,
         Dir(p, n, l, s, r, del, c),
         s \notin e => s \notin c /\ (LinkUp(q) => LinkUp(r) /\ q.next_nr = r.next_nr)
  PROVE  Dir(p, n, l, s, q, del, e)
<1>1. ASSUME s \notin e
      PROVE  /\ Increasing(del) /\ LastLine(q, LastOf(del), l)
             /\ LastWindow(q, LastOf(del), p, n, l)
    <2>1. /\ Increasing(del) /\ LastLine(r, LastOf(del), l)
          /\ LastWindow(r, LastOf(del), p, n, l)
          /\ LinkUp(q) => LinkUp(r) /\ q.next_nr = r.next_nr
        BY <1>1 DEF Dir
    <2>2. LastLine(q, LastOf(del), l)
        BY <2>1 DEF LastLine
    <2>3. LastWindow(q, LastOf(del), p, n, l)
        BY <2>1 DEF LastWindow
    <2> QED
        BY <2>1, <2>2, <2>3
<1> QED
    BY <1>1 DEF Dir

LEMMA TailOfLine ==
  ASSUME NEW l \in Seq(Frames), l # <<>>
  PROVE  /\ Tail(l) \in Seq(Frames)
         /\ Head(l) = l[1] /\ 1 \in DOMAIN l
         /\ \A i \in DOMAIN Tail(l) : i + 1 \in DOMAIN l /\ Tail(l)[i] = l[i + 1] /\ i \in Nat /\ i > 0
         /\ \A i \in DOMAIN l : i \in Nat /\ (i > 1 => i - 1 \in DOMAIN Tail(l) /\ Tail(l)[i - 1] = l[i])
<1>1. /\ Tail(l) \in Seq(Frames) /\ Len(Tail(l)) = Len(l) - 1 /\ Head(l) = l[1]
      /\ \A i \in 1 .. Len(Tail(l)) : Tail(l)[i] = l[i + 1]
    BY HeadTailProperties
<1>2. Len(l) \in Nat /\ Len(l) # 0
    BY EmptySeq
<1>3. DOMAIN l = 1 .. Len(l) /\ DOMAIN Tail(l) = 1 .. Len(l) - 1
    BY <1>1
<1> QED
    BY <1>1, <1>2, <1>3

\* The first frame leaves the line.
LEMMA DropLine ==
  ASSUME NEW p, NEW n, NEW l \in Seq(Frames), l # <<>>, LineWindow(p, n, l), LinePairs(l)
  PROVE  LineWindow(p, n, Tail(l)) /\ LinePairs(Tail(l))
<1> DEFINE t == Tail(l)
<1>0. /\ \A i \in DOMAIN t : i + 1 \in DOMAIN l /\ t[i] = l[i + 1] /\ i \in Nat
    BY TailOfLine
<1> HIDE DEF t
<1>1. ASSUME NEW i \in DOMAIN t, t[i].type = "I"
      PROVE  /\ t[i].data \in 1 .. n
             /\ n - t[i].data < Len(p.window) =>
                  /\ ClearFrom(t, i) /\ ClearFrom(p.s_queue, 0)
                  /\ Dist(t[i].ns, p.last_ns) = (n - t[i].data) + 1
    <2>1. i + 1 \in DOMAIN l /\ l[i + 1] = t[i]
        BY <1>0
    <2>2. ClearFrom(l, i + 1) => ClearFrom(t, i)
        BY <1>0 DEF ClearFrom
    <2> QED
        BY <1>1, <2>1, <2>2 DEF LineWindow
<1>2. ASSUME NEW i \in DOMAIN t, NEW j \in DOMAIN t, i < j, t[i].type = "I", t[j].type = "I",
             t[j].data <= t[i].data
      PROVE  /\ \A b \in DOMAIN t : i < b /\ b < j => ~Barrier(t[b])
             /\ t[i].data - t[j].data < MaxWindow
             /\ Dist(t[j].ns, t[i].ns) = t[i].data - t[j].data
    <2>1. /\ i + 1 \in DOMAIN l /\ l[i + 1] = t[i] /\ j + 1 \in DOMAIN l /\ l[j + 1] = t[j]
          /\ i + 1 < j + 1
        BY <1>0, <1>2
    <2>2. /\ \A b \in DOMAIN l : i + 1 < b /\ b < j + 1 => ~Barrier(l[b])
          /\ l[i + 1].data - l[j + 1].data < MaxWindow
          /\ Dist(l[j + 1].ns, l[i + 1].ns) = l[i + 1].data - l[j + 1].data
        BY <1>2, <2>1 DEF LinePairs
    <2>3. \A b \in DOMAIN t : i < b /\ b < j => ~Barrier(t[b])
        BY <1>0, <2>2
    <2> QED
        BY <2>1, <2>2, <2>3
<1>3. LineWindow(p, n, t) /\ LinePairs(t)
    BY <1>1, <1>2 DEF LineWindow, LinePairs
<1> QED
    BY <1>3 DEF t

LEMMA Drop ==
  ASSUME NEW p, NEW n, NEW l \in Seq(Frames), l # <<>>, NEW s, NEW r, NEW del, NEW c,
         Dir(p, n, l, s, r, del, c)
  PROVE  Dir(p, n, Tail(l), s, r, del, c)
<1> DEFINE t == Tail(l)
           d == LastOf(del)
<1>0. /\ \A i \in DOMAIN t : i + 1 \in DOMAIN l /\ t[i] = l[i + 1] /\ i \in Nat /\ i > 0
    BY TailOfLine
<1>1. LineWindow(p, n, t) /\ LinePairs(t)
    BY DropLine DEF Dir
<1> HIDE DEF t, d
<1>2. ASSUME s \notin c
      PROVE  LastLine(r, d, t) /\ LastWindow(r, d, p, n, t)
    <2>1. LastLine(r, d, l) /\ LastWindow(r, d, p, n, l)
        BY <1>2 DEF Dir, d
    <2>2. ASSUME NEW j \in DOMAIN t, t[j].type = "I", t[j].data <= d
          PROVE  /\ \A b \in DOMAIN t : b < j => ~Barrier(t[b])
                 /\ LinkUp(r) => d - t[j].data < MaxWindow /\ Dist(t[j].ns, r.next_nr) = (d - t[j].data) + 1
        <3>1. j + 1 \in DOMAIN l /\ l[j + 1] = t[j]
            BY <1>0
        <3>2. /\ \A b \in DOMAIN l : b < j + 1 => ~Barrier(l[b])
              /\ LinkUp(r) => d - t[j].data < MaxWindow /\ Dist(t[j].ns, r.next_nr) = (d - t[j].data) + 1
            BY <2>1, <2>2, <3>1 DEF LastLine
        <3>3. \A b \in DOMAIN t : b < j => ~Barrier(t[b])
            BY <1>0, <3>2
        <3> QED
            BY <3>2, <3>3
    <2>3. ClearFrom(l, 0) => ClearFrom(t, 0)
        BY <1>0 DEF ClearFrom
    <2> QED
        BY <2>1, <2>2, <2>3 DEF LastLine, LastWindow
<1> QED
    BY <1>1, <1>2 DEF Dir, t, d

\* A barrier arrives: all that follows is newer than what was delivered, so any
\* number is right.
LEMMA DropBarrier ==
  ASSUME NEW p, NEW n, NEW l \in Seq(Frames), l # <<>>, NEW s, NEW r, NEW q, NEW del, NEW c,
         Dir(p, n, l, s, r, del, c), Barrier(Head(l))
  PROVE  Dir(p, n, Tail(l), s, q, del, c)
<1> DEFINE t == Tail(l)
           d == LastOf(del)
<1>0. /\ \A i \in DOMAIN t : i + 1 \in DOMAIN l /\ t[i] = l[i + 1] /\ i \in Nat /\ i > 0
      /\ 1 \in DOMAIN l /\ Barrier(l[1])
    BY TailOfLine
<1>1. LineWindow(p, n, t) /\ LinePairs(t)
    BY DropLine DEF Dir
<1> HIDE DEF t, d
<1>2. ASSUME s \notin c
      PROVE  LastLine(q, d, t) /\ LastWindow(q, d, p, n, t)
    <2>1. LastLine(r, d, l) /\ LastWindow(r, d, p, n, l)
        BY <1>2 DEF Dir, d
    <2>2. ASSUME NEW j \in DOMAIN t, t[j].type = "I", t[j].data <= d
          PROVE  FALSE
        <3>1. j + 1 \in DOMAIN l /\ l[j + 1] = t[j] /\ 1 < j + 1
            BY <1>0
        <3>2. \A b \in DOMAIN l : b < j + 1 => ~Barrier(l[b])
            BY <2>1, <2>2, <3>1 DEF LastLine
        <3> QED
            BY <1>0, <3>1, <3>2
    <2>3. ~ClearFrom(l, 0)
        BY <1>0 DEF ClearFrom
    <2> QED
        BY <2>1, <2>2, <2>3 DEF LastLine, LastWindow
<1> QED
    BY <1>1, <1>2 DEF Dir, t, d

LEMMA AppendIncreases ==
  ASSUME NEW del \in Seq(Nat), NEW x \in Nat
  PROVE  /\ Append(del, x) \in Seq(Nat) /\ LastOf(Append(del, x)) = x
         /\ Increasing(del) /\ LastOf(del) < x => Increasing(Append(del, x))
<1> DEFINE e == Append(del, x)
<1>1. /\ e \in Seq(Nat) /\ Len(e) = Len(del) + 1 /\ Len(del) \in Nat
      /\ \A i \in 1 .. Len(del) : e[i] = del[i]
      /\ e[Len(del) + 1] = x
    BY AppendProperties
<1>2. DOMAIN e = 1 .. Len(del) + 1 /\ DOMAIN del = 1 .. Len(del)
    BY <1>1
<1> HIDE DEF e
<1>3. e # <<>>
    BY <1>1, EmptySeq
<1>4. LastOf(e) = x
    BY <1>1, <1>3 DEF LastOf
<1>5. ASSUME Increasing(del), LastOf(del) < x
      PROVE  Increasing(e)
    <2>1. ASSUME NEW i \in 1 .. Len(del)
          PROVE  del[i] < x
        <3>1. del # <<>> /\ Len(del) \in 1 .. Len(del) /\ del[Len(del)] \in Nat /\ del[i] \in Nat
            BY <1>1, <2>1, EmptySeq
        <3>2. del[Len(del)] < x
            BY <1>5, <3>1 DEF LastOf
        <3>3. i = Len(del) \/ del[i] < del[Len(del)]
            <4>1. i = Len(del) \/ i < Len(del)
                BY <1>1
            <4>2. i \in DOMAIN del /\ Len(del) \in DOMAIN del
                BY <1>2, <3>1
            <4> QED
                BY <4>1, <4>2, <1>5 DEF Increasing
        <3> QED
            BY <3>1, <3>2, <3>3
    <2> SUFFICES ASSUME NEW i \in 1 .. Len(del) + 1, NEW j \in 1 .. Len(del) + 1, i < j
                 PROVE  e[i] < e[j]
        BY <1>2 DEF Increasing
    <2>2. i \in 1 .. Len(del)
        BY <1>1
    <2>3. CASE j \in 1 .. Len(del)
        BY <1>1, <1>2, <1>5, <2>2, <2>3 DEF Increasing
    <2>4. CASE j = Len(del) + 1
        BY <1>1, <2>1, <2>2, <2>4
    <2> QED
        BY <1>1, <2>3, <2>4, SMTT(20)
<1> QED
    BY <1>1, <1>4, <1>5 DEF e

\* The frame with the number waited for is newer than all that was delivered.
LEMMA Deliver ==
  ASSUME NEW p, NEW n \in Nat, NEW l \in Seq(Frames), l # <<>>, NEW s, NEW r \in PeerType, NEW q,
         NEW del \in Seq(Nat), NEW c, Dir(p, n, l, s, r, del, c),
         LinkUp(r), Head(l).type = "I", Head(l).ns = r.next_nr,
         LinkUp(q) => q.next_nr = SeqNext(r.next_nr)
  PROVE  Dir(p, n, Tail(l), s, q, Append(del, Head(l).data), c)
<1> DEFINE t == Tail(l)
           f == Head(l)
           d == LastOf(del)
           e == Append(del, f.data)
<1>0. /\ \A i \in DOMAIN t : i + 1 \in DOMAIN l /\ t[i] = l[i + 1] /\ i \in Nat /\ i > 0
      /\ 1 \in DOMAIN l /\ f = l[1]
    BY TailOfLine
<1>1. LineWindow(p, n, t) /\ LinePairs(t)
    BY DropLine DEF Dir
<1>2. /\ f.data \in 1 .. n
      /\ n - f.data < Len(p.window) =>
           /\ ClearFrom(l, 1) /\ ClearFrom(p.s_queue, 0)
           /\ Dist(f.ns, p.last_ns) = (n - f.data) + 1
    BY <1>0 DEF Dir, LineWindow
<1>3. f.data \in Nat /\ f.ns \in SeqNums /\ d \in Nat /\ e \in Seq(Nat) /\ LastOf(e) = f.data
    BY <1>2, LastIsNat, AppendIncreases DEF PeerType
<1>4. p.last_ns \in SeqNums /\ MaxWindow \in Nat /\ MaxWindow < SeqMod /\ SeqMod \in Nat
    BY MaxWindowFacts, SeqModAssumption DEF Dir, PeerOK, PeerType
<1>5. \A j \in DOMAIN t : t[j].ns \in SeqNums /\ t[j].data \in Nat
    <2>1. \A i \in DOMAIN l : l[i] \in Frames
        OBVIOUS
    <2>2. \A j \in DOMAIN t : t[j] \in Frames
        BY <1>0, <2>1
    <2> QED
        BY <2>2 DEF Frames
<1> HIDE DEF t, f, d, e
<1>6. ASSUME s \notin c
      PROVE  Increasing(e) /\ LastLine(q, f.data, t) /\ LastWindow(q, f.data, p, n, t)
    <2>1. Increasing(del) /\ LastLine(r, d, l)
        BY <1>6 DEF Dir, d
    <2>2. ~(f.data <= d)
        <3>1. SUFFICES ASSUME f.data <= d PROVE FALSE
            OBVIOUS
        <3>2. Dist(f.ns, r.next_nr) = (d - f.data) + 1
            BY <1>0, <2>1, <3>1 DEF LastLine, f
        <3>3. Dist(f.ns, r.next_nr) = 0
            BY <1>3, DistType DEF f
        <3> QED
            BY <1>3, <3>1, <3>2, <3>3
    <2>3. Increasing(e)
        BY <1>3, <2>1, <2>2, AppendIncreases DEF e, d
    <2>4. ASSUME NEW j \in DOMAIN t, t[j].type = "I", t[j].data <= f.data
          PROVE  /\ \A b \in DOMAIN t : b < j => ~Barrier(t[b])
                 /\ LinkUp(q) => /\ f.data - t[j].data < MaxWindow
                                 /\ Dist(t[j].ns, q.next_nr) = (f.data - t[j].data) + 1
        <3>1. j + 1 \in DOMAIN l /\ l[j + 1] = t[j] /\ 1 < j + 1
            BY <1>0
        <3>2. /\ \A b \in DOMAIN l : 1 < b /\ b < j + 1 => ~Barrier(l[b])
              /\ f.data - t[j].data < MaxWindow
              /\ Dist(t[j].ns, f.ns) = f.data - t[j].data
            BY <1>0, <2>4, <3>1 DEF Dir, LinePairs, f
        <3>3. \A b \in DOMAIN t : b < j => ~Barrier(t[b])
            BY <1>0, <3>2
        <3>4. Dist(t[j].ns, f.ns) < SeqMod - 1
            BY <1>3, <1>4, <1>5, <3>2
        <3>5. Dist(t[j].ns, SeqNext(f.ns)) = (f.data - t[j].data) + 1
            BY <1>3, <1>5, <3>2, <3>4, DistNext
        <3> QED
            BY <3>2, <3>3, <3>5 DEF f
    <2>5. ASSUME n - f.data < Len(p.window)
          PROVE  /\ ClearFrom(t, 0) /\ ClearFrom(p.s_queue, 0)
                 /\ LinkUp(q) => Dist(q.next_nr, p.last_ns) = n - f.data
        <3>1. /\ ClearFrom(l, 1) /\ ClearFrom(p.s_queue, 0)
              /\ Dist(f.ns, p.last_ns) = (n - f.data) + 1
            BY <1>2, <2>5
        <3>2. ClearFrom(t, 0)
            BY <1>0, <3>1 DEF ClearFrom
        <3>3. n - f.data \in Nat
            BY <1>2
        <3>4. Dist(SeqNext(f.ns), p.last_ns) = n - f.data
            BY <1>3, <1>4, <3>1, <3>3, DistPrev, SMTT(20)
        <3> QED
            BY <3>1, <3>2, <3>4 DEF f
    <2> QED
        BY <2>3, <2>4, <2>5 DEF LastLine, LastWindow
<1>7. PeerOK(p, n) /\ LastOf(e) <= n
    BY <1>2, <1>3 DEF Dir
<1>8. Dir(p, n, t, s, q, e, c)
    BY <1>1, <1>3, <1>6, <1>7 DEF Dir
<1> QED
    BY <1>8 DEF t, e, f

LEMMA AppendToLine ==
  ASSUME NEW l \in Seq(Frames), NEW f \in Frames
  PROVE  /\ Append(l, f) \in Seq(Frames)
         /\ \A i \in DOMAIN l : i \in DOMAIN Append(l, f) /\ Append(l, f)[i] = l[i] /\ i < Len(l) + 1
         /\ \A i \in DOMAIN Append(l, f) : i \in DOMAIN l \/ (i = Len(l) + 1 /\ Append(l, f)[i] = f)
         /\ \A i \in DOMAIN l : i \in Nat /\ i > 0
         /\ Len(l) \in Nat /\ \A i \in DOMAIN l : ~(i > Len(l))
BY AppendProperties

\* A service frame goes to the line: a barrier only from the service queue, or
\* while the window is empty.
LEMMA MoveFrame ==
  ASSUME NEW p, NEW q, NEW n \in Nat, NEW l \in Seq(Frames), NEW s, NEW r, NEW del \in Seq(Nat), NEW c,
         NEW f \in Frames, f.type # "I", Dir(p, n, l, s, r, del, c),
         PeerOK(q, n), q.window = p.window, q.last_ns = p.last_ns,
         Len(p.window) = 0 \/ (ClearFrom(p.s_queue, 0) => ClearFrom(q.s_queue, 0) /\ ~Barrier(f))
  PROVE  Dir(q, n, Append(l, f), s, r, del, c)
<1> DEFINE m == Append(l, f)
           d == LastOf(del)
<1>1. Len(p.window) \in Nat /\ d \in Nat /\ d <= n
    BY LastIsNat DEF Dir, PeerOK, PeerType
<1>2. ASSUME NEW x \in Nat, x <= n, n - x < Len(p.window)
      PROVE  Len(p.window) # 0
    BY <1>1, <1>2
<1>3. ASSUME ClearFrom(p.s_queue, 0), Len(p.window) # 0
      PROVE  ClearFrom(q.s_queue, 0) /\ ~Barrier(f)
    BY <1>3
<1>4. /\ m \in Seq(Frames)
      /\ \A i \in DOMAIN l : i \in DOMAIN m /\ m[i] = l[i] /\ i < Len(l) + 1
      /\ \A i \in DOMAIN m : i \in DOMAIN l \/ (i = Len(l) + 1 /\ m[i] = f)
      /\ \A i \in DOMAIN l : i \in Nat /\ i > 0
      /\ Len(l) \in Nat /\ \A i \in DOMAIN l : ~(i > Len(l))
    BY AppendToLine
<1> HIDE DEF m, d
<1>5. \A i \in DOMAIN m : m[i].type = "I" => i \in DOMAIN l /\ m[i] = l[i]
    BY <1>4
<1>6. ASSUME NEW i, ClearFrom(l, i), ClearFrom(p.s_queue, 0), Len(p.window) # 0
      PROVE  ClearFrom(m, i)
    BY <1>3, <1>4, <1>6 DEF ClearFrom
<1>7. LineWindow(q, n, m)
    <2> SUFFICES ASSUME NEW i \in DOMAIN m, m[i].type = "I"
                 PROVE  /\ m[i].data \in 1 .. n
                        /\ n - m[i].data < Len(q.window) =>
                             /\ ClearFrom(m, i) /\ ClearFrom(q.s_queue, 0)
                             /\ Dist(m[i].ns, q.last_ns) = (n - m[i].data) + 1
        BY DEF LineWindow
    <2>1. i \in DOMAIN l /\ m[i] = l[i]
        BY <1>5
    <2>2. /\ l[i].data \in 1 .. n
          /\ n - l[i].data < Len(p.window) =>
               /\ ClearFrom(l, i) /\ ClearFrom(p.s_queue, 0)
               /\ Dist(l[i].ns, p.last_ns) = (n - l[i].data) + 1
        BY <2>1 DEF Dir, LineWindow
    <2>3. l[i].data \in Nat /\ l[i].data <= n
        BY <2>2
    <2> QED
        BY <2>1, <2>2, <2>3, <1>2, <1>3, <1>6
<1>8. LinePairs(m)
    <2> SUFFICES ASSUME NEW i \in DOMAIN m, NEW j \in DOMAIN m,
                        i < j, m[i].type = "I", m[j].type = "I", m[j].data <= m[i].data
                 PROVE  /\ \A b \in DOMAIN m : i < b /\ b < j => ~Barrier(m[b])
                        /\ m[i].data - m[j].data < MaxWindow
                        /\ Dist(m[j].ns, m[i].ns) = m[i].data - m[j].data
        BY DEF LinePairs
    <2>1. i \in DOMAIN l /\ m[i] = l[i] /\ j \in DOMAIN l /\ m[j] = l[j]
        BY <1>5
    <2>2. /\ \A b \in DOMAIN l : i < b /\ b < j => ~Barrier(l[b])
          /\ l[i].data - l[j].data < MaxWindow
          /\ Dist(l[j].ns, l[i].ns) = l[i].data - l[j].data
        BY <2>1 DEF Dir, LinePairs
    <2>3. \A b \in DOMAIN m : b < j => b \in DOMAIN l /\ m[b] = l[b]
        BY <1>4, <2>1
    <2> QED
        BY <2>1, <2>2, <2>3
<1>9. ASSUME s \notin c
      PROVE  LastLine(r, d, m) /\ LastWindow(r, d, q, n, m)
    <2>1. LastLine(r, d, l) /\ LastWindow(r, d, p, n, l)
        BY <1>9 DEF Dir, d
    <2>2. ASSUME NEW j \in DOMAIN m, m[j].type = "I", m[j].data <= d
          PROVE  /\ \A b \in DOMAIN m : b < j => ~Barrier(m[b])
                 /\ LinkUp(r) => d - m[j].data < MaxWindow /\ Dist(m[j].ns, r.next_nr) = (d - m[j].data) + 1
        <3>1. j \in DOMAIN l /\ m[j] = l[j]
            BY <1>5, <2>2
        <3>2. /\ \A b \in DOMAIN l : b < j => ~Barrier(l[b])
              /\ LinkUp(r) => d - l[j].data < MaxWindow /\ Dist(l[j].ns, r.next_nr) = (d - l[j].data) + 1
            BY <2>1, <2>2, <3>1 DEF LastLine
        <3>3. \A b \in DOMAIN m : b < j => b \in DOMAIN l /\ m[b] = l[b]
            BY <1>4, <3>1
        <3> QED
            BY <3>1, <3>2, <3>3
    <2> QED
        BY <2>1, <2>2, <1>1, <1>2, <1>3, <1>6 DEF LastLine, LastWindow
<1>10. Dir(q, n, m, s, r, del, c)
    BY <1>7, <1>8, <1>9 DEF Dir, d
<1> QED
    BY <1>10 DEF m

\* The first frame of the service queue goes to the line.
LEMMA MoveService ==
  ASSUME NEW p, NEW q, NEW n \in Nat, NEW l \in Seq(Frames), NEW s, NEW r,
         NEW del \in Seq(Nat), NEW c,
         Dir(p, n, l, s, r, del, c), p.s_queue \in Seq(Frames), p.s_queue # <<>>,
         PeerOK(q, n), q.window = p.window, q.last_ns = p.last_ns, q.s_queue = Tail(p.s_queue)
  PROVE  Dir(q, n, Append(l, Head(p.s_queue)), s, r, del, c)
<1> DEFINE f == Head(p.s_queue)
<1>1. /\ 1 \in DOMAIN p.s_queue /\ f = p.s_queue[1] /\ f \in Frames
      /\ \A i \in DOMAIN q.s_queue : i + 1 \in DOMAIN p.s_queue /\ q.s_queue[i] = p.s_queue[i + 1] /\ i \in Nat
    BY TailOfLine, HeadTailProperties
<1>2. f.type # "I"
    BY <1>1 DEF Dir, PeerOK
<1>3. ASSUME ClearFrom(p.s_queue, 0)
      PROVE  ClearFrom(q.s_queue, 0) /\ ~Barrier(f)
    <2>1. \A i \in DOMAIN q.s_queue : i + 1 > 0
        BY <1>1
    <2>2. \A j \in DOMAIN p.s_queue : j > 0 => ~Barrier(p.s_queue[j])
        BY <1>3 DEF ClearFrom
    <2>3. \A i \in DOMAIN q.s_queue : ~Barrier(q.s_queue[i])
        BY <1>1, <2>1, <2>2
    <2>4. ~Barrier(f)
        BY <1>1, <2>2
    <2> QED
        BY <2>3, <2>4 DEF ClearFrom
<1> HIDE DEF f
<1>4. Dir(q, n, Append(l, f), s, r, del, c)
    BY <1>1, <1>2, <1>3, MoveFrame
<1> QED
    BY <1>4 DEF f

\* The packet numbered next_ns, which the window holds.
LEMMA NextFrame ==
  ASSUME NEW p, NEW n, PeerOK(p, n), HasIFrame(p)
  PROVE  LET x == p.window[NextOffset(p) + 1]
         IN  /\ x \in 1 .. n /\ n - x < Len(p.window)
             /\ Dist(p.next_ns, p.last_ns) = (n - x) + 1
<1>1. /\ p.confirm_ns \in SeqNums /\ p.next_ns \in SeqNums /\ p.last_ns \in SeqNums
      /\ Len(p.window) \in Nat /\ n \in Nat /\ Len(p.window) <= n
      /\ Dist(p.confirm_ns, p.last_ns) = Len(p.window)
    BY DEF PeerOK, PeerType
<1> DEFINE o == Dist(p.confirm_ns, p.next_ns)
<1>2. o \in Nat /\ o < Len(p.window)
    BY <1>1, DistType DEF HasIFrame, NextOffset
<1>3. Dist(p.next_ns, p.last_ns) = Len(p.window) - o
    BY <1>1, <1>2, DistAfter
<1> HIDE DEF o
<1>4. o + 1 \in 1 .. Len(p.window)
    BY <1>1, <1>2
<1>5. p.window[o + 1] = (n - Len(p.window)) + (o + 1)
    BY <1>4 DEF PeerOK
<1>6. /\ p.window[o + 1] \in 1 .. n /\ n - p.window[o + 1] < Len(p.window)
      /\ Dist(p.next_ns, p.last_ns) = (n - p.window[o + 1]) + 1
    BY <1>1, <1>2, <1>3, <1>5
<1> QED
    BY <1>6 DEF NextOffset, o

\* A frame of the window goes to the line, for the first time or again.
LEMMA MoveNumbered ==
  ASSUME NEW p, NEW q, NEW n \in Nat, NEW l \in Seq(Frames), NEW s, NEW r \in PeerType,
         NEW del \in Seq(Nat), NEW c, NEW f \in Frames,
         Dir(p, n, l, s, r, del, c), p.s_queue = <<>>, HasIFrame(p),
         f.type = "I", f.ns = p.next_ns, f.data = p.window[NextOffset(p) + 1],
         PeerOK(q, n), q.window = p.window, q.last_ns = p.last_ns, q.s_queue = p.s_queue
  PROVE  Dir(q, n, Append(l, f), s, r, del, c)
<1> DEFINE m == Append(l, f)
           d == LastOf(del)
<1>1. /\ f.data \in 1 .. n /\ n - f.data < Len(p.window)
      /\ Dist(f.ns, p.last_ns) = (n - f.data) + 1
    BY NextFrame DEF Dir
<1>2. ~Barrier(f) /\ ClearFrom(q.s_queue, 0)
    BY DEF Barrier, ClearFrom
<1>3. /\ f.ns \in SeqNums /\ f.data \in Nat /\ p.last_ns \in SeqNums /\ r.next_nr \in SeqNums
      /\ Len(p.window) \in Nat /\ Len(p.window) <= MaxWindow /\ MaxWindow \in Nat
      /\ d \in Nat /\ d <= n
    BY MaxWindowFacts, LastIsNat, SMTT(20) DEF Dir, PeerOK, PeerType, Frames
<1>4. /\ m \in Seq(Frames)
      /\ \A i \in DOMAIN l : i \in DOMAIN m /\ m[i] = l[i] /\ i < Len(l) + 1
      /\ \A i \in DOMAIN m : i \in DOMAIN l \/ (i = Len(l) + 1 /\ m[i] = f)
      /\ \A i \in DOMAIN l : i \in Nat /\ i > 0
      /\ Len(l) \in Nat /\ \A i \in DOMAIN l : ~(i > Len(l))
    BY AppendToLine
<1>5. \A i \in DOMAIN l : l[i].ns \in SeqNums /\ l[i].data \in Nat
    <2>1. \A i \in DOMAIN l : l[i] \in Frames
        OBVIOUS
    <2> QED
        BY <2>1 DEF Frames
<1> HIDE DEF m, d
<1>6. ASSUME NEW i, ClearFrom(l, i)
      PROVE  ClearFrom(m, i)
    BY <1>2, <1>4, <1>6 DEF ClearFrom
<1>7. LineWindow(q, n, m)
    <2> SUFFICES ASSUME NEW i \in DOMAIN m, m[i].type = "I"
                 PROVE  /\ m[i].data \in 1 .. n
                        /\ n - m[i].data < Len(q.window) =>
                             /\ ClearFrom(m, i) /\ ClearFrom(q.s_queue, 0)
                             /\ Dist(m[i].ns, q.last_ns) = (n - m[i].data) + 1
        BY DEF LineWindow
    <2>1. CASE i \in DOMAIN l
        <3>1. m[i] = l[i]
            BY <1>4, <2>1
        <3>2. /\ l[i].data \in 1 .. n
              /\ n - l[i].data < Len(p.window) =>
                   /\ ClearFrom(l, i) /\ ClearFrom(p.s_queue, 0)
                   /\ Dist(l[i].ns, p.last_ns) = (n - l[i].data) + 1
            BY <2>1, <3>1 DEF Dir, LineWindow
        <3> QED
            BY <3>1, <3>2, <1>2, <1>6
    <2>2. CASE i = Len(l) + 1 /\ m[i] = f
        <3>1. ClearFrom(m, i)
            BY <1>4, <2>2 DEF ClearFrom
        <3> QED
            BY <3>1, <2>2, <1>1, <1>2
    <2> QED
        BY <2>1, <2>2, <1>4
<1>8. LinePairs(m)
    <2> SUFFICES ASSUME NEW i \in DOMAIN m, NEW j \in DOMAIN m,
                        i < j, m[i].type = "I", m[j].type = "I", m[j].data <= m[i].data
                 PROVE  /\ \A b \in DOMAIN m : i < b /\ b < j => ~Barrier(m[b])
                        /\ m[i].data - m[j].data < MaxWindow
                        /\ Dist(m[j].ns, m[i].ns) = m[i].data - m[j].data
        BY DEF LinePairs
    <2>1. i \in DOMAIN l /\ m[i] = l[i]
        BY <1>4
    <2>2. \A b \in DOMAIN m : b < j => b \in DOMAIN l /\ m[b] = l[b]
        BY <1>4
    <2>3. CASE j \in DOMAIN l
        <3>1. m[j] = l[j]
            BY <1>4, <2>3
        <3>2. /\ \A b \in DOMAIN l : i < b /\ b < j => ~Barrier(l[b])
              /\ l[i].data - l[j].data < MaxWindow
              /\ Dist(l[j].ns, l[i].ns) = l[i].data - l[j].data
            BY <2>1, <2>3, <3>1 DEF Dir, LinePairs
        <3> QED
            BY <2>1, <2>2, <3>1, <3>2
    <2>4. CASE m[j] = f
        <3>1. l[i].data \in 1 .. n /\ f.data <= l[i].data /\ l[i].type = "I"
            BY <2>1, <2>4 DEF Dir, LineWindow
        <3>2. n - l[i].data < Len(p.window)
            BY <1>1, <1>3, <3>1, SMTT(20)
        <3>3. ClearFrom(l, i) /\ Dist(l[i].ns, p.last_ns) = (n - l[i].data) + 1
            BY <2>1, <3>1, <3>2 DEF Dir, LineWindow
        <3>4. Dist(l[i].ns, p.last_ns) <= Dist(f.ns, p.last_ns)
            BY <1>1, <3>1, <3>3, SMTT(20)
        <3>5. Dist(f.ns, l[i].ns) = Dist(f.ns, p.last_ns) - Dist(l[i].ns, p.last_ns)
            BY <1>3, <1>5, <2>1, <3>4, DistSub
        <3>6. Dist(f.ns, l[i].ns) = l[i].data - f.data /\ l[i].data - f.data < MaxWindow
            <4>0. l[i].data \in Nat /\ l[i].data <= n
                BY <3>1
            <4>1. ((n - f.data) + 1) - ((n - l[i].data) + 1) = l[i].data - f.data
                BY <1>3, <4>0, Ages, ZenonT(30)
            <4>2. l[i].data - f.data < MaxWindow
                BY <1>1, <1>3, <4>0, SMTT(20)
            <4> QED
                BY <1>1, <3>3, <3>5, <4>1, <4>2
        <3>7. \A b \in DOMAIN m : i < b /\ b < j => ~Barrier(m[b])
            BY <2>2, <3>3 DEF ClearFrom
        <3> QED
            BY <2>1, <2>4, <3>6, <3>7
    <2> QED
        BY <2>3, <2>4, <1>4
<1>9. ASSUME s \notin c
      PROVE  LastLine(r, d, m) /\ LastWindow(r, d, q, n, m)
    <2>1. LastLine(r, d, l) /\ LastWindow(r, d, p, n, l)
        BY <1>9 DEF Dir, d
    <2>2. ASSUME NEW j \in DOMAIN m, m[j].type = "I", m[j].data <= d
          PROVE  /\ \A b \in DOMAIN m : b < j => ~Barrier(m[b])
                 /\ LinkUp(r) => d - m[j].data < MaxWindow /\ Dist(m[j].ns, r.next_nr) = (d - m[j].data) + 1
        <3>0. \A b \in DOMAIN m : b < j => b \in DOMAIN l /\ m[b] = l[b]
            <4>1. j \in Nat /\ ~(Len(l) + 1 < j)
                BY <1>4
            <4> QED
                BY <1>4, <4>1
        <3>1. CASE j \in DOMAIN l
            <4>1. m[j] = l[j]
                BY <1>4, <3>1
            <4>2. /\ \A b \in DOMAIN l : b < j => ~Barrier(l[b])
                  /\ LinkUp(r) => d - l[j].data < MaxWindow /\ Dist(l[j].ns, r.next_nr) = (d - l[j].data) + 1
                BY <2>1, <2>2, <3>1, <4>1 DEF LastLine
            <4> QED
                BY <3>0, <4>1, <4>2
        <3>2. CASE m[j] = f
            <4>1. f.data <= d /\ n - d < Len(p.window)
                BY <1>1, <1>3, <2>2, <3>2
            <4>2. ClearFrom(l, 0) /\ (LinkUp(r) => Dist(r.next_nr, p.last_ns) = n - d)
                BY <2>1, <4>1 DEF LastWindow
            <4>3. \A b \in DOMAIN m : b < j => ~Barrier(m[b])
                BY <1>4, <3>0, <4>2 DEF ClearFrom
            <4>4. ASSUME LinkUp(r)
                  PROVE  d - f.data < MaxWindow /\ Dist(f.ns, r.next_nr) = (d - f.data) + 1
                <5>1. Dist(r.next_nr, p.last_ns) = n - d
                    BY <4>2, <4>4
                <5>2. Dist(r.next_nr, p.last_ns) <= Dist(f.ns, p.last_ns)
                    BY <1>1, <1>3, <4>1, <5>1
                <5>3. Dist(f.ns, r.next_nr) = Dist(f.ns, p.last_ns) - Dist(r.next_nr, p.last_ns)
                    BY <1>3, <5>2, DistSub
                <5>4. ((n - f.data) + 1) - (n - d) = (d - f.data) + 1
                    BY <1>3
                <5>5. d - f.data < MaxWindow
                    BY <1>1, <1>3, <4>1
                <5> QED
                    BY <1>1, <5>1, <5>3, <5>4, <5>5
            <4> QED
                BY <3>2, <4>3, <4>4
        <3> QED
            BY <3>1, <3>2, <1>4
    <2> QED
        BY <2>1, <2>2, <1>2, <1>6 DEF LastLine, LastWindow
<1>10. Dir(q, n, m, s, r, del, c)
    BY <1>7, <1>8, <1>9 DEF Dir, d
<1> QED
    BY <1>10 DEF m

\* A new packet enters the window.
LEMMA Enqueue ==
  ASSUME NEW p, NEW q, NEW n \in Nat, NEW l \in Seq(Frames), NEW s, NEW r \in PeerType,
         NEW del \in Seq(Nat), NEW c, Dir(p, n, l, s, r, del, c),
         PeerOK(q, n + 1), Len(q.window) = Len(p.window) + 1,
         q.last_ns = SeqNext(p.last_ns), q.s_queue = p.s_queue
  PROVE  Dir(q, n + 1, l, s, r, del, c)
<1> DEFINE d == LastOf(del)
<1>1. /\ Len(p.window) \in Nat /\ Len(q.window) <= MaxWindow /\ MaxWindow \in Nat /\ MaxWindow < SeqMod
      /\ SeqMod \in Nat /\ d \in Nat /\ d <= n /\ p.last_ns \in SeqNums /\ r.next_nr \in SeqNums
    BY MaxWindowFacts, SeqModAssumption, LastIsNat DEF Dir, PeerOK, PeerType
<1>2. \A i \in DOMAIN l : l[i].ns \in SeqNums
    <2>1. \A i \in DOMAIN l : l[i] \in Frames
        OBVIOUS
    <2> QED
        BY <2>1 DEF Frames
<1> HIDE DEF d
<1>3. LineWindow(q, n + 1, l)
    <2> SUFFICES ASSUME NEW i \in DOMAIN l, l[i].type = "I"
                 PROVE  /\ l[i].data \in 1 .. n + 1
                        /\ (n + 1) - l[i].data < Len(q.window) =>
                             /\ ClearFrom(l, i) /\ ClearFrom(q.s_queue, 0)
                             /\ Dist(l[i].ns, q.last_ns) = ((n + 1) - l[i].data) + 1
        BY DEF LineWindow
    <2>1. /\ l[i].data \in 1 .. n
          /\ n - l[i].data < Len(p.window) =>
               /\ ClearFrom(l, i) /\ ClearFrom(p.s_queue, 0)
               /\ Dist(l[i].ns, p.last_ns) = (n - l[i].data) + 1
        BY DEF Dir, LineWindow
    <2>2. ASSUME (n + 1) - l[i].data < Len(q.window)
          PROVE  /\ ClearFrom(l, i) /\ ClearFrom(q.s_queue, 0)
                 /\ Dist(l[i].ns, q.last_ns) = ((n + 1) - l[i].data) + 1
        <3>1. n - l[i].data < Len(p.window)
            BY <1>1, <2>1, <2>2
        <3>2. Dist(l[i].ns, p.last_ns) = (n - l[i].data) + 1
            BY <2>1, <3>1
        <3>3. Dist(l[i].ns, p.last_ns) < SeqMod - 1
            BY <1>1, <2>1, <2>2, <3>2
        <3>4. Dist(l[i].ns, SeqNext(p.last_ns)) = Dist(l[i].ns, p.last_ns) + 1
            BY <1>1, <1>2, <3>3, DistNext
        <3>5. Dist(l[i].ns, q.last_ns) = ((n + 1) - l[i].data) + 1
            BY <2>1, <3>2, <3>4
        <3> QED
            BY <2>1, <3>1, <3>5
    <2> QED
        BY <2>1, <2>2
<1>4. ASSUME s \notin c
      PROVE  LastWindow(r, d, q, n + 1, l)
    <2>1. LastWindow(r, d, p, n, l)
        BY <1>4 DEF Dir, d
    <2>2. ASSUME (n + 1) - d < Len(q.window)
          PROVE  /\ ClearFrom(l, 0) /\ ClearFrom(q.s_queue, 0)
                 /\ LinkUp(r) => Dist(r.next_nr, q.last_ns) = (n + 1) - d
        <3>1. n - d < Len(p.window)
            BY <1>1, <2>2
        <3>2. /\ ClearFrom(l, 0) /\ ClearFrom(p.s_queue, 0)
              /\ LinkUp(r) => Dist(r.next_nr, p.last_ns) = n - d
            BY <2>1, <3>1 DEF LastWindow
        <3>3. ASSUME LinkUp(r)
              PROVE  Dist(r.next_nr, q.last_ns) = (n + 1) - d
            <4>1. Dist(r.next_nr, p.last_ns) = n - d
                BY <3>2, <3>3
            <4>2. Dist(r.next_nr, p.last_ns) < SeqMod - 1
                BY <1>1, <2>2, <4>1
            <4>3. Dist(r.next_nr, SeqNext(p.last_ns)) = Dist(r.next_nr, p.last_ns) + 1
                BY <1>1, <4>2, DistNext
            <4> QED
                BY <1>1, <4>1, <4>3
        <3> QED
            BY <3>2, <3>3
    <2> QED
        BY <2>2 DEF LastWindow
<1>5. d <= n + 1
    BY <1>1
<1> QED
    BY <1>3, <1>4, <1>5 DEF Dir, d

-----------------------------------------------------------------------------
(* A new connection *)

LEMMA InitPeerOK == PeerOK(InitPeer, 0) /\ InitPeer \in PeerType
<1>1. InitPeer \in PeerType /\ InitPeer.window = <<>> /\ InitPeer.s_queue = <<>> /\ InitPeer.confirm_ns = 0
      /\ InitPeer.last_ns = 0 /\ InitPeer.can_accept = FALSE
    BY PeerAssumption, ZeroIsNumber DEF InitPeer, PeerType, States
<1>2. Len(InitPeer.window) = 0 /\ MaxWindow \in Nat
    BY <1>1, MaxWindowFacts
<1>3. Dist(0, 0) = 0
    BY DEF Dist
<1> QED
    BY <1>1, <1>2, <1>3 DEF PeerOK

LEMMA InitDir == \A s, c : Dir(InitPeer, 0, <<>>, s, InitPeer, <<>>, c)
<1>1. LineWindow(InitPeer, 0, <<>>) /\ LinePairs(<<>>) /\ LastLine(InitPeer, 0, <<>>)
    BY DEF LineWindow, LinePairs, LastLine
<1>2. LastOf(<<>>) = 0 /\ Increasing(<<>>)
    BY DEF LastOf, Increasing
<1>3. LastWindow(InitPeer, 0, InitPeer, 0, <<>>)
    <2>1. ~(0 - 0 < Len(InitPeer.window))
        BY DEF InitPeer
    <2> QED
        BY <2>1 DEF LastWindow
<1> QED
    BY <1>1, <1>2, <1>3, InitPeerOK DEF Dir

\* Both ends change their records at once, and no frame moves.
LEMMA BothMove ==
  ASSUME NEW p, NEW q, NEW n \in Nat, NEW l \in Seq(Frames), NEW s, NEW r, NEW w,
         NEW del \in Seq(Nat), NEW c, NEW e, Dir(p, n, l, s, r, del, c),
         PeerOK(q, n), SenderStep(p, q),
         s \notin e => s \notin c /\ (LinkUp(w) => LinkUp(r) /\ w.next_nr = r.next_nr)
  PROVE  Dir(q, n, l, s, w, del, e)
<1>1. Dir(q, n, l, s, r, del, c)
    BY SenderMoves
<1> QED
    BY <1>1, ReceiverMoves
=============================================================================
