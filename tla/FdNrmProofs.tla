---------------------------- MODULE FdNrmProofs ----------------------------
(***************************************************************************)
(* Proofs about the bus of FdNrm, for any number of secondaries, slots and  *)
(* packets and any bus size.                                                *)
(*                                                                          *)
(* Two stations never hold the marker.  "The number of markers is at most   *)
(* one" is a sum of two cardinalities; the invariant says instead that any  *)
(* two holders, and any two frames with the P/F bit, are the same, and that *)
(* there is no holder while such a frame is on its way.                     *)
(*                                                                          *)
(* Free I-frame slots are signalled while every registered peer is up.  The *)
(* invariant needs the types (a peer's window shrinks without a signal only *)
(* if the link goes down, which a look at every handler shows), and that a  *)
(* peer that is not registered is down, unless the application disconnected *)
(* it, and no frame names one.                                              *)
(*                                                                          *)
(* Packets arrive once and in order.  A connection of the primary with a    *)
(* secondary is a link of FdPeerProofs: each end has a view of the other    *)
(* (View), and the frames of the bus, those of other connections shown as   *)
(* UI frames, are its line (Way).  OrderInv says Dir of both directions of  *)
(* every connection.  A SABM or UA that waits in the shared service queue   *)
(* for a peer is a barrier of that peer's connection (Waits).  Each step is *)
(* a step of one connection and changes nothing the others depend on.       *)
(***************************************************************************)
EXTENDS FdNrm, FdPeerProofs, FiniteSetTheorems, WellFoundedInduction

-----------------------------------------------------------------------------
\* A set of numbers has a least one.
LEMMA LeastOf ==
  ASSUME NEW T, T \subseteq Nat, T # {}
  PROVE  \E n \in T : \A m \in T : n <= m
<1> DEFINE R == OpToRel(<, Nat)
<1>1. IsWellFoundedOn(R, Nat)
    BY NatLessThanWellFounded
<1>2. \A m, n \in Nat : <<m, n>> \in R <=> m < n
    BY DEF OpToRel
<1> HIDE DEF R
<1>3. PICK n \in T : \A y \in T : ~(<<y, n>> \in R)
    BY <1>1, WFMin
<1>4. \A m \in T : ~(m < n)
    BY <1>2, <1>3, Zenon
<1> QED
    BY <1>4

-----------------------------------------------------------------------------
(* What the handlers of FdPeer do to a peer's window and state *)

\* q is p after a step that leaves the window alone.
Kept(p, q) ==
  /\ q \in PeerType
  /\ q.window = p.window /\ q.state = p.state /\ q.confirm_ns = p.confirm_ns

LEMMA PutKeeps ==
  ASSUME NEW p \in PeerType, NEW f \in Frames
  PROVE  Kept(p, PutUS(p, f))
<1>1. Append(p.s_queue, f) \in Seq(Frames)
    BY AppendProperties DEF PeerType
<1>2. PutUS(p, f) = p \/ PutUS(p, f) = [p EXCEPT !.s_queue = Append(p.s_queue, f)]
    BY DEF PutUS
<1> QED
    BY <1>1, <1>2 DEF Kept, PeerType

LEMMA ResetType ==
  ASSUME NEW p \in PeerType, NEW st \in {"CONNECTED", "DISCONNECTED"}
  PROVE  Reset(p, st) \in PeerType /\ Reset(p, st).state = st
<1>1. <<>> \in Seq(Nat) /\ (st = "CONNECTED") \in BOOLEAN /\ st \in States
    BY DEF States
<1> QED
    BY <1>1, ZeroIsNumber DEF Reset, PeerType

LEMMA DownType ==
  ASSUME NEW p \in PeerType
  PROVE  /\ SwitchToDisconnected(p) \in PeerType
         /\ SwitchToDisconnected(p).state = "DISCONNECTED"
BY ResetType DEF SwitchToDisconnected

LEMMA UpType ==
  ASSUME NEW p \in PeerType
  PROVE  /\ SwitchToConnected(p) \in PeerType
         /\ SwitchToConnected(p).state = "CONNECTED"
BY ResetType DEF SwitchToConnected

LEMMA ConfirmType ==
  ASSUME NEW p \in PeerType, NEW nr \in SeqNums
  PROVE  /\ ConfirmSentFrames(p, nr) \in PeerType
         /\ ConfirmSentFrames(p, nr).state = p.state
         /\ ~(Confirms(p, nr) > 0) => ConfirmSentFrames(p, nr).window = p.window
<1> DEFINE k == Confirms(p, nr)
           c == IF p.confirm_ns + k >= SeqMod THEN (p.confirm_ns + k) - SeqMod ELSE p.confirm_ns + k
           w == SubSeq(p.window, k + 1, Len(p.window))
           t == IF k > 0 THEN Retries ELSE p.retries
           q == [p EXCEPT !.confirm_ns = c, !.window = SubSeq(@, k + 1, Len(@)),
                          !.retries = IF k > 0 THEN Retries ELSE @]
           b == q.can_accept \/ ~TxFull(q)
           r == [q EXCEPT !.can_accept = @ \/ ~TxFull(q)]
<1>1. /\ p.window \in Seq(Nat) /\ Len(p.window) \in Nat
      /\ p.confirm_ns \in SeqNums /\ Dist(p.confirm_ns, nr) \in SeqNums
    BY DistType DEF PeerType
<1>2. k \in Nat /\ k <= Len(p.window) /\ k <= Dist(p.confirm_ns, nr)
    <2>1. CASE Dist(p.confirm_ns, nr) <= Len(p.window)
        BY <1>1, <2>1 DEF Confirms, SeqNums
    <2>2. CASE ~(Dist(p.confirm_ns, nr) <= Len(p.window))
        BY <1>1, <2>2 DEF Confirms, SeqNums
    <2> QED
        BY <2>1, <2>2
<1>3. c \in SeqNums
    <2>1. k < SeqMod
        BY <1>1, <1>2, SeqModAssumption DEF SeqNums
    <2> HIDE DEF k
    <2> QED
        BY <1>1, <1>2, <2>1, SeqModAssumption DEF SeqNums
<1> HIDE DEF k
<1>4. w \in Seq(Nat) /\ (~(k > 0) => w = p.window)
    <2>1. /\ w \in Seq(Nat) /\ Len(w) = Len(p.window) - k
          /\ \A j \in 1 .. Len(p.window) - k : w[j] = p.window[k + j]
        <3>1. k \in 0 .. Len(p.window)
            BY <1>1, <1>2
        <3>2. \A i \in k + 1 .. Len(p.window) : p.window[i] \in Nat
            BY <1>1, <3>1
        <3> QED
            BY <1>1, <3>1, <3>2, SubSeqProperties
    <2> HIDE DEF w
    <2>2. CASE k = 0
        <3>1. Len(w) = Len(p.window) /\ \A j \in 1 .. Len(p.window) : w[j] = p.window[j]
            BY <1>1, <2>1, <2>2
        <3>2. w = p.window
            BY <1>1, <2>1, <3>1, SeqEqual
        <3> QED
            BY <2>1, <3>2
    <2> QED
        BY <1>2, <2>1, <2>2
<1>5. t \in Nat
    BY PeerAssumption DEF PeerType
<1> HIDE DEF c, w, t
<1>6. q \in PeerType /\ q.window = w /\ q.state = p.state
    <2>1. q = [p EXCEPT !.confirm_ns = c, !.window = w, !.retries = t]
        BY DEF PeerType, w, t
    <2> QED
        BY <2>1, <1>3, <1>4, <1>5 DEF PeerType
<1>7. b \in BOOLEAN
    BY <1>6 DEF PeerType
<1> HIDE DEF q, b
<1>8. r \in PeerType /\ r.window = w /\ r.state = p.state
    <2>1. r = [q EXCEPT !.can_accept = b]
        BY DEF b
    <2> QED
        BY <2>1, <1>6, <1>7 DEF PeerType
<1>9. ConfirmSentFrames(p, nr) = r
    BY DEF ConfirmSentFrames, r, q, c, k
<1> HIDE DEF r
<1> QED
    BY <1>4, <1>8, <1>9 DEF k

LEMMA ResendKeeps ==
  ASSUME NEW p \in PeerType, NEW nr \in SeqNums
  PROVE  Kept(p, ResendFrom(p, nr))
<1> DEFINE Rewound(x) == [p EXCEPT !.next_ns = x]
<1>1. \A x \in SeqNums : Kept(p, Rewound(x))
    BY DEF Kept, PeerType
<1>2. p.confirm_ns \in SeqNums /\ U("FRMR") \in Frames
    BY FrameTypesOf DEF PeerType, UTypes
<1>3. Kept(p, Rewound(nr)) /\ Kept(p, Rewound(p.confirm_ns))
    BY <1>1, <1>2
<1> HIDE DEF Rewound
<1>4. Kept(Rewound(p.confirm_ns), PutUS(Rewound(p.confirm_ns), U("FRMR")))
    BY <1>2, <1>3, PutKeeps DEF Kept
<1>5. ResendFrom(p, nr) \in {Rewound(nr), PutUS(Rewound(p.confirm_ns), U("FRMR"))}
    BY DEF ResendFrom, Rewound
<1> QED
    BY <1>3, <1>4, <1>5 DEF Kept

LEMMA CheckReceivedKeeps ==
  ASSUME NEW p \in PeerType, NEW ns \in SeqNums
  PROVE  Kept(p, CheckReceived(p, ns))
<1>1. CASE ns = p.next_nr
    <2>1. SeqNext(p.next_nr) \in SeqNums
        BY SeqNextType DEF PeerType
    <2>2. CheckReceived(p, ns) = [p EXCEPT !.next_nr = SeqNext(p.next_nr), !.sent_reject = FALSE]
        BY <1>1 DEF CheckReceived, PeerType
    <2> QED
        BY <2>1, <2>2 DEF Kept, PeerType
<1>2. CASE ns # p.next_nr /\ p.sent_reject
    BY <1>2 DEF CheckReceived, Kept
<1>3. CASE ns # p.next_nr /\ ~p.sent_reject
    <2> DEFINE m == [p EXCEPT !.sent_reject = TRUE]
    <2>1. Kept(p, m)
        BY DEF Kept, PeerType
    <2>2. S("REJ", p.next_nr) \in Frames
        BY FrameTypesOf DEF PeerType, STypes
    <2>3. CheckReceived(p, ns) = PutUS(m, S("REJ", p.next_nr))
        BY <1>3 DEF CheckReceived
    <2> HIDE DEF m
    <2> QED
        BY <2>1, <2>2, <2>3, PutKeeps DEF Kept
<1> QED
    BY <1>1, <1>2, <1>3

\* An I- or S-frame changes the window only by what its N(R) confirms.
Acknowledged(p, f, q) ==
  /\ q \in PeerType /\ q.state = p.state
  /\ ~(Confirms(p, f.nr) > 0) => q.window = p.window

LEMMA OnIFrameAcks ==
  ASSUME NEW p \in PeerType, NEW f \in Frames
  PROVE  Acknowledged(p, f, OnIFrame(p, f))
<1> DEFINE m == CheckReceived(p, f.ns)
           q == ConfirmSentFrames(m, f.nr)
           r == PutUS(q, S("RR", q.next_nr))
<1>1. f.ns \in SeqNums /\ f.nr \in SeqNums
    BY DEF Frames
<1>2. Kept(p, m)
    BY <1>1, CheckReceivedKeeps
<1>3. OnIFrame(p, f) \in {q, r}
    BY DEF OnIFrame
<1> HIDE DEF m
<1>4. m \in PeerType /\ Confirms(m, f.nr) = Confirms(p, f.nr)
    BY <1>2 DEF Kept, Confirms
<1>5. Acknowledged(p, f, q)
    BY <1>1, <1>2, <1>4, ConfirmType DEF Acknowledged, Kept
<1>6. q \in PeerType /\ S("RR", q.next_nr) \in Frames
    BY <1>5, FrameTypesOf DEF Acknowledged, PeerType, STypes
<1> HIDE DEF q
<1>7. Kept(q, r)
    BY <1>6, PutKeeps
<1> QED
    BY <1>3, <1>5, <1>7 DEF Acknowledged, Kept

LEMMA OnSFrameAcks ==
  ASSUME NEW p \in PeerType, NEW f \in Frames
  PROVE  Acknowledged(p, f, OnSFrame(p, f))
<1> DEFINE q == ConfirmSentFrames(p, f.nr)
           r == ResendFrom(q, f.nr)
<1>1. f.nr \in SeqNums
    BY DEF Frames
<1>2. Acknowledged(p, f, q)
    BY <1>1, ConfirmType DEF Acknowledged
<1>3. OnSFrame(p, f) \in {q, r}
    BY DEF OnSFrame
<1> HIDE DEF q
<1>4. Kept(q, r)
    BY <1>1, <1>2, ResendKeeps DEF Acknowledged
<1> QED
    BY <1>2, <1>3, <1>4 DEF Acknowledged, Kept

\* What a received frame f can do to the record p: afterwards the link is down,
\* it has just been connected, N(R) has confirmed a frame, or nothing has left
\* the window of a link that was up.
Connects(p, f, q) == q.state = "CONNECTED" /\ (p.state # "CONNECTED" \/ f.type = "SABM")
Confirming(p, f)  == LinkUp(p) /\ f.type \in {"I", "RR", "REJ"} /\ Confirms(p, f.nr) > 0
Outcome(p, f, q) ==
  \/ ~LinkUp(q)
  \/ Connects(p, f, q)
  \/ Confirming(p, f)
  \/ LinkUp(p) /\ q.window = p.window

LEMMA OnUFrameOutcome ==
  ASSUME NEW p \in PeerType, NEW f \in Frames, f.type \in UTypes
  PROVE  OnUFrame(p, f) \in PeerType /\ Outcome(p, f, OnUFrame(p, f))
<1>1. \A t \in UTypes : U(t) \in Frames
    BY FrameTypesOf
<1>2. Kept(p, PutUS(p, U("DM"))) /\ Kept(p, PutUS(p, U("UA")))
    BY <1>1, PutKeeps DEF UTypes
<1>3. CASE p.state = "DISCONNECTED" /\ f.type \notin {"SABM", "UI"}
    <2>1. OnUFrame(p, f) \in {p, PutUS(p, U("DM"))}
        BY <1>3 DEF OnUFrame
    <2>2. OnUFrame(p, f) \in PeerType /\ OnUFrame(p, f).state = "DISCONNECTED"
        BY <1>2, <1>3, <2>1 DEF Kept
    <2> QED
        BY <2>2 DEF Outcome, LinkUp
<1>4. CASE f.type = "SABM"
    <2> DEFINE m == PutUS(p, U("UA"))
    <2>1. m \in PeerType /\ SwitchToDisconnected(m) \in PeerType
        BY <1>2, DownType DEF Kept
    <2>2. OnUFrame(p, f) \in {SwitchToConnected(m), SwitchToConnected(SwitchToDisconnected(m))}
        BY <1>4 DEF OnUFrame
    <2> HIDE DEF m
    <2>3. OnUFrame(p, f) \in PeerType /\ OnUFrame(p, f).state = "CONNECTED"
        BY <2>1, <2>2, UpType
    <2> QED
        BY <1>4, <2>3 DEF Outcome, Connects
<1> DEFINE up == ~(p.state = "DISCONNECTED" /\ f.type \notin {"SABM", "UI"})
<1>5. CASE up /\ f.type = "DISC"
    <2>1. OnUFrame(p, f) = SwitchToDisconnected(PutUS(p, U("UA")))
        BY <1>5 DEF OnUFrame
    <2>2. OnUFrame(p, f) \in PeerType /\ OnUFrame(p, f).state = "DISCONNECTED"
        BY <1>2, <2>1, DownType DEF Kept
    <2> QED
        BY <2>2 DEF Outcome, LinkUp
<1>6. CASE up /\ f.type = "FRMR"
    <2> DEFINE m == PutUS(SwitchToDisconnected(p), U("SABM"))
    <2>1. U("SABM") \in Frames
        BY <1>1 DEF UTypes
    <2>2. m \in PeerType
        BY <2>1, DownType, PutKeeps DEF Kept
    <2>3. OnUFrame(p, f) = [m EXCEPT !.state = "CONNECTING"]
        BY <1>6 DEF OnUFrame
    <2> HIDE DEF m
    <2>4. OnUFrame(p, f) \in PeerType /\ OnUFrame(p, f).state = "CONNECTING"
        BY <2>2, <2>3 DEF PeerType, States
    <2> QED
        BY <2>4 DEF Outcome, LinkUp
<1>7. CASE up /\ f.type = "UA" /\ p.state = "CONNECTING"
    <2>1. OnUFrame(p, f) = SwitchToConnected(p)
        BY <1>7 DEF OnUFrame
    <2> QED
        BY <1>7, <2>1, UpType DEF Outcome, Connects
<1>8. CASE up /\ (f.type = "DM" \/ (f.type = "UA" /\ p.state = "DISCONNECTING"))
    <2>1. OnUFrame(p, f) = SwitchToDisconnected(p)
        BY <1>8 DEF OnUFrame
    <2> QED
        BY <2>1, DownType DEF Outcome, LinkUp
<1>9. CASE up /\ (f.type = "UI" \/ (f.type = "UA" /\ p.state \notin {"CONNECTING", "DISCONNECTING"}))
    <2>1. OnUFrame(p, f) = p
        BY <1>9 DEF OnUFrame
    <2> QED
        BY <2>1 DEF Outcome
<1>10. f.type \in {"SABM", "DISC", "FRMR", "UA", "DM", "UI"}
    BY DEF UTypes
<1>11. CASE up
    <2> HIDE DEF up
    <2>1. CASE f.type = "UA"
        BY <1>7, <1>8, <1>9, <1>11, <2>1
    <2>2. CASE f.type # "UA"
        BY <1>4, <1>5, <1>6, <1>8, <1>9, <1>10, <1>11, <2>2
    <2> QED
        BY <2>1, <2>2
<1> QED
    BY <1>3, <1>11

LEMMA OnFrameReadOutcome ==
  ASSUME NEW p \in PeerType, NEW f \in Frames
  PROVE  OnFrameRead(p, f) \in PeerType /\ Outcome(p, f, OnFrameRead(p, f))
<1> DEFINE q == [p EXCEPT !.ka_confirmed = TRUE]
<1>1. Kept(p, q)
    BY DEF Kept, PeerType
<1>2. q \in PeerType /\ q.state = p.state /\ LinkUp(q) = LinkUp(p) /\ q.window = p.window
      /\ Confirms(q, f.nr) = Confirms(p, f.nr)
    BY <1>1 DEF Kept, LinkUp, Confirms
<1>3. f.type \in FrameTypes
    BY DEF Frames
<1>4. OnFrameRead(p, f) = CASE f.type \in UTypes -> OnUFrame(q, f)
                            [] f.type \notin UTypes /\ ~LinkUp(q) -> PutUS(q, U("DM"))
                            [] f.type = "I" /\ LinkUp(q) -> OnIFrame(q, f)
                            [] f.type \in {"RR", "REJ"} /\ LinkUp(q) -> OnSFrame(q, f)
    BY DEF OnFrameRead
<1> HIDE DEF q
<1>5. CASE f.type \in UTypes
    <2>1. OnFrameRead(p, f) = OnUFrame(q, f)
        BY <1>4, <1>5 DEF UTypes
    <2>2. OnUFrame(q, f) \in PeerType /\ Outcome(q, f, OnUFrame(q, f))
        BY <1>2, <1>5, OnUFrameOutcome
    <2> QED
        BY <2>1, <2>2, <1>2 DEF Outcome, Connects, Confirming
<1>6. CASE f.type \notin UTypes /\ ~LinkUp(q)
    <2>1. OnFrameRead(p, f) = PutUS(q, U("DM"))
        BY <1>4, <1>6
    <2>2. U("DM") \in Frames
        BY FrameTypesOf DEF UTypes
    <2>3. Kept(q, PutUS(q, U("DM")))
        BY <1>2, <2>2, PutKeeps
    <2> QED
        BY <1>6, <2>1, <2>3 DEF Outcome, LinkUp, Kept
<1>7. CASE f.type = "I" /\ LinkUp(q)
    <2>1. OnFrameRead(p, f) = OnIFrame(q, f)
        BY <1>4, <1>7 DEF UTypes
    <2>2. Acknowledged(q, f, OnIFrame(q, f))
        BY <1>2, OnIFrameAcks
    <2> QED
        BY <1>2, <1>7, <2>1, <2>2 DEF Outcome, Acknowledged, Confirming
<1>8. CASE f.type \in {"RR", "REJ"} /\ LinkUp(q)
    <2>1. OnFrameRead(p, f) = OnSFrame(q, f)
        BY <1>4, <1>8 DEF UTypes
    <2>2. Acknowledged(q, f, OnSFrame(q, f))
        BY <1>2, OnSFrameAcks
    <2> QED
        BY <1>2, <1>8, <2>1, <2>2 DEF Outcome, Acknowledged, Confirming
<1> QED
    BY <1>3, <1>5, <1>6, <1>7, <1>8 DEF FrameTypes, STypes

-----------------------------------------------------------------------------
(* Stations *)

SlotType == {FreeSlot} \cup [type : {"SU"}, address : 0 .. 255, arg : {0}, data : Frames]

StationType(P) ==
  [peers : [P -> PeerType], addr : [P -> 0 .. 255], next_peer : P, peer : P,
   held : BOOLEAN, marker : BOOLEAN,
   free_slots : BOOLEAN, frames : [0 .. SuSize - 1 -> SlotType], lookup : 0 .. SuSize - 1]

\* A secondary knows its only peer.
Registered(s, h) == s # Primary => h.addr[0] # NoAddr

StationInv(s, h) == h \in StationType(PeersOf(s)) /\ Registered(s, h)

\* A peer that is not registered is down, unless it was disconnected.
UnknownDown(s, h) == \A k \in PeersOf(s) : h.addr[k] # NoAddr \/ ~LinkUp(h.peers[k])

\* SlotsSignalled, for one station.
OkSlots(s, h) ==
  /\ UnknownDown(s, h)
  /\ FreeSlots(h) /\ ~h.free_slots
       => \E k \in PeersOf(s) : h.addr[k] # NoAddr /\ ~LinkUp(h.peers[k])

LEMMA SlotFacts ==
  /\ FreeSlot \in SlotType
  /\ \A slot \in SlotType : slot.type = "SU" => slot.data \in Frames
  /\ \A a \in 0 .. 255, f \in Frames :
       [type |-> "SU", address |-> a, arg |-> 0, data |-> f] \in SlotType
<1> DEFINE Used == [type : {"SU"}, address : 0 .. 255, arg : {0}, data : Frames]
<1>1. FreeSlot.type = "FREE"
    BY DEF FreeSlot
<1>2. \A slot \in Used : slot.data \in Frames
    OBVIOUS
<1>3. \A a \in 0 .. 255, f \in Frames :
        [type |-> "SU", address |-> a, arg |-> 0, data |-> f] \in Used
    OBVIOUS
<1>4. SlotType = {FreeSlot} \cup Used
    BY DEF SlotType
<1> HIDE DEF Used
<1>5. \A slot \in SlotType : slot = FreeSlot \/ slot \in Used
    BY <1>4
<1>6. \A slot \in SlotType : slot.type = "SU" => slot.data \in Frames
    BY <1>1, <1>2, <1>5
<1>7. FreeSlot \in SlotType
    BY <1>4
<1> QED
    BY <1>3, <1>4, <1>6, <1>7

LEMMA PeersFinite ==
  /\ IsFiniteSet(Secondaries) /\ Cardinality(Secondaries) \in Nat \ {0}
  /\ IsFiniteSet(All)
<1>0. \A a, b \in Int : IsFiniteSet(a .. b)
    BY FS_Interval
<1>1. IsFiniteSet(1 .. 62) /\ IsFiniteSet(0 .. 62)
    <2>1. 0 \in Int /\ 1 \in Int /\ 62 \in Int
        OBVIOUS
    <2> QED
        BY <1>0, <2>1, Zenon
<1>2. IsFiniteSet(Secondaries)
    BY <1>1, NrmAssumption, FS_Subset
<1>3. Cardinality(Secondaries) \in Nat /\ Cardinality(Secondaries) # 0
    BY <1>2, NrmAssumption, FS_CardinalityType, FS_EmptySet
<1>4. All \subseteq 0 .. 62
    BY NrmAssumption DEF All, Primary
<1>5. IsFiniteSet(All)
    BY <1>1, <1>4, FS_Subset
<1> QED
    BY <1>2, <1>3, <1>5

LEMMA PeersOfFacts ==
  /\ \A s : 0 \in PeersOf(s)
  /\ \A s : \A k \in PeersOf(s) : k \in Nat
BY PeersFinite DEF PeersOf

\* A secondary's only peer has an index the primary uses too.
LEMMA PeersOfPrimary == \A s : PeersOf(s) \subseteq PeersOf(Primary)
BY PeersFinite DEF PeersOf

LEMMA FieldFacts ==
  /\ \A a \in All : Field(a) \in 0 .. 255
  /\ \A a \in All : Field(a) # NoAddr
  /\ \A a \in All : Field(Field(a)) # NoAddr
<1>1. \A a \in All : a \in 0 .. 62
    BY NrmAssumption DEF All, Primary
<1>2. \A a \in 0 .. 62 : a * 4 + 1 \in 0 .. 254
    OBVIOUS
<1>3. \A n \in 0 .. 254 : n % 256 = n
    OBVIOUS
<1>4. \A a \in All : Field(a) \in 0 .. 254
    BY <1>1, <1>2, <1>3 DEF Field
<1>5. \A n \in 0 .. 254 : (n * 4 + 1) % 256 # 255
    OBVIOUS
<1>6. \A a \in All : Field(Field(a)) # NoAddr
    BY <1>4, <1>5 DEF Field, NoAddr
<1> QED
    BY <1>4, <1>6 DEF NoAddr

\* The search of tiny_fd_queue_get_next finds a matching slot if there is one.
LEMMA SearchFinds ==
  ASSUME NEW frames, NEW lookup \in 0 .. SuSize - 1, NEW types, NEW address, NEW arg,
         ~GetNextIsNull(frames, SuSize, types, address, arg)
  PROVE  \E i \in 0 .. SuSize - 1 : GetNextIs(frames, SuSize, lookup, types, address, arg, i)
<1> DEFINE found == {i \in 0 .. SuSize - 1 : Matches(frames[i], types, address, arg)}
           way == {Passed(SuSize, lookup, i) : i \in found}
<1>1. found # {} /\ found \subseteq 0 .. SuSize - 1
    BY DEF GetNextIsNull
<1>2. SuSize \in Nat
    BY PeerAssumption
<1>3. \A i \in 0 .. SuSize - 1 : Passed(SuSize, lookup, i) \in Nat
    BY <1>2 DEF Passed
<1>4. way # {} /\ way \subseteq Nat
    BY <1>1, <1>3
<1>5. PICK n \in way : \A m \in way : n <= m
    BY <1>4, LeastOf
<1>6. PICK i \in found : n = Passed(SuSize, lookup, i)
    BY <1>5
<1>7. \A j \in found : Passed(SuSize, lookup, i) <= Passed(SuSize, lookup, j)
    BY <1>5, <1>6
<1>8. /\ i \in 0 .. SuSize - 1 /\ Matches(frames[i], types, address, arg)
      /\ \A j \in 0 .. SuSize - 1 : Matches(frames[j], types, address, arg)
           => Passed(SuSize, lookup, i) <= Passed(SuSize, lookup, j)
    BY <1>6, <1>7
<1> QED
    BY <1>8 DEF GetNextIs

LEMMA LookupType == \A i \in 0 .. SuSize - 1 : LookupAfter(SuSize, i) \in 0 .. SuSize - 1
BY PeerAssumption DEF LookupAfter

LEMMA FreeServiceSlotType ==
  ASSUME NEW P, NEW h \in StationType(P), HasFreeSlots(h.frames, SuSize)
  PROVE  FreeServiceSlot(h) \in 0 .. SuSize - 1
<1>1. h.lookup \in 0 .. SuSize - 1
    BY DEF StationType
<1>2. ~GetNextIsNull(h.frames, SuSize, {"FREE"}, 0, 0)
    BY DEF HasFreeSlots, GetNextIsNull, Matches
<1>3. \E i \in 0 .. SuSize - 1 : GetNextIs(h.frames, SuSize, h.lookup, {"FREE"}, 0, 0, i)
    BY <1>1, <1>2, SearchFinds
<1> QED
    BY <1>3 DEF FreeServiceSlot

LEMMA ServiceSlotType ==
  ASSUME NEW P, NEW h \in StationType(P), NEW k \in P, HasService(h, k)
  PROVE  ServiceSlot(h, k) \in 0 .. SuSize - 1 /\ h.frames[ServiceSlot(h, k)].data \in Frames
<1>1. h.lookup \in 0 .. SuSize - 1 /\ h.frames \in [0 .. SuSize - 1 -> SlotType]
    BY DEF StationType
<1>2. \E i \in 0 .. SuSize - 1 : GetNextIs(h.frames, SuSize, h.lookup, {"SU"}, h.addr[k], 0, i)
    BY <1>1, SearchFinds DEF HasService
<1> DEFINE i == ServiceSlot(h, k)
<1>3. i \in 0 .. SuSize - 1 /\ GetNextIs(h.frames, SuSize, h.lookup, {"SU"}, h.addr[k], 0, i)
    BY <1>2 DEF ServiceSlot
<1> HIDE DEF i
<1>4. h.frames[i].type = "SU" /\ h.frames[i] \in SlotType
    BY <1>1, <1>3 DEF GetNextIs, Matches
<1>5. h.frames[i].data \in Frames
    BY <1>4, SlotFacts
<1> QED
    BY <1>3, <1>5 DEF i

\* The primary turns to a peer of its table.
LEMMA NextPeerType ==
  ASSUME NEW addr, NEW k, NEW n \in Nat, DOMAIN addr = 0 .. n - 1, k \in 0 .. n - 1,
         NEW c \in 0 .. n - 1, addr[c] # NoAddr
  PROVE  NextPeer(addr, k) \in 0 .. n - 1
<1> DEFINE Ahead(j) == IF j > k THEN j - k ELSE (j + n) - k
           valid == {j \in DOMAIN addr : addr[j] # NoAddr}
           way == {Ahead(j) : j \in valid}
<1>1. Cardinality(DOMAIN addr) = n
    BY FS_Interval
<1>2. c \in valid /\ valid \subseteq 0 .. n - 1
    OBVIOUS
<1>3. \A j \in 0 .. n - 1 : Ahead(j) \in Nat
    OBVIOUS
<1>4. way # {} /\ way \subseteq Nat
    BY <1>2, <1>3
<1>5. PICK a \in way : \A b \in way : a <= b
    BY <1>4, LeastOf
<1>6. PICK j \in valid : a = Ahead(j)
    BY <1>5
<1>7. \A i \in valid : Ahead(j) <= Ahead(i)
    BY <1>5, <1>6
<1>8. NextPeer(addr, k) = CHOOSE x \in valid : \A i \in valid : Ahead(x) <= Ahead(i)
    BY <1>1 DEF NextPeer
<1> HIDE DEF Ahead, valid
<1>9. \E x \in valid : \A i \in valid : Ahead(x) <= Ahead(i)
    BY <1>6, <1>7
<1>10. NextPeer(addr, k) \in valid
    BY <1>8, <1>9
<1> QED
    BY <1>2, <1>10

\* The rest of a station when a frame is queued, a slot freed or a timer runs.
SameRest(h, g) ==
  /\ g.addr = h.addr /\ g.next_peer = h.next_peer /\ g.marker = h.marker

LEMMA PutServiceType ==
  ASSUME NEW P, NEW h \in StationType(P), NEW k \in P, NEW f \in Frames
  PROVE  /\ PutService(h, k, f) \in StationType(P) /\ SameRest(h, PutService(h, k, f))
         /\ PutService(h, k, f).peers = h.peers
         /\ PutService(h, k, f).free_slots = h.free_slots
<1> DEFINE slot == [type |-> "SU", address |-> h.addr[k], arg |-> 0, data |-> f]
           fr == [h.frames EXCEPT ![FreeServiceSlot(h)] = slot]
<1>1. h.addr[k] \in 0 .. 255 /\ h.frames \in [0 .. SuSize - 1 -> SlotType]
    BY DEF StationType
<1>2. slot \in SlotType
    BY <1>1, SlotFacts
<1> HIDE DEF slot
<1>3. fr \in [0 .. SuSize - 1 -> SlotType]
    BY <1>1, <1>2
<1>4. PutService(h, k, f) = h \/ PutService(h, k, f) = [h EXCEPT !.frames = fr]
    BY DEF PutService, slot, StationType
<1> HIDE DEF fr
<1>5. CASE PutService(h, k, f) = h
    BY <1>5 DEF SameRest
<1>6. CASE PutService(h, k, f) = [h EXCEPT !.frames = fr]
    <2> DEFINE g == [h EXCEPT !.frames = fr]
    <2>1. g \in StationType(P)
        BY <1>3 DEF StationType
    <2>2. /\ g.addr = h.addr /\ g.next_peer = h.next_peer /\ g.marker = h.marker
          /\ g.peers = h.peers /\ g.free_slots = h.free_slots
        BY DEF StationType
    <2> HIDE DEF g
    <2> QED
        BY <1>6, <2>1, <2>2 DEF SameRest, g
<1> QED
    BY <1>4, <1>5, <1>6

\* Peer k's record becomes q; the sizes of the windows decide what is free.
Swapped(h, k, q) == [h.peers EXCEPT ![k] = [q EXCEPT !.s_queue = <<>>]]

LEMMA WithPeerType ==
  ASSUME NEW P, NEW h \in StationType(P), NEW k \in P, NEW q \in PeerType,
         NEW signal \in BOOLEAN
  PROVE  /\ WithPeer(h, k, q, signal) \in StationType(P)
         /\ SameRest(h, WithPeer(h, k, q, signal))
         /\ WithPeer(h, k, q, signal).peers = Swapped(h, k, q)
         /\ h.free_slots => WithPeer(h, k, q, signal).free_slots
         /\ signal /\ FreeSlots(WithPeer(h, k, q, signal)) => WithPeer(h, k, q, signal).free_slots
<1> DEFINE m == [h EXCEPT !.peers = Swapped(h, k, q)]
           v == h.free_slots \/ (signal /\ FreeSlots(m))
           g == [m EXCEPT !.free_slots = v]
<1>1. Swapped(h, k, q) \in [P -> PeerType]
    <2>1. [q EXCEPT !.s_queue = <<>>] \in PeerType
        <3>1. <<>> \in Seq(Frames)
            OBVIOUS
        <3> QED
            BY <3>1 DEF PeerType
    <2> QED
        BY <2>1 DEF Swapped, StationType
<1>2. m \in StationType(P) /\ SameRest(h, m) /\ m.peers = Swapped(h, k, q)
      /\ m.free_slots = h.free_slots /\ h.free_slots \in BOOLEAN
    BY <1>1 DEF StationType, SameRest
<1>3. m = [h EXCEPT !.peers[k] = [q EXCEPT !.s_queue = <<>>]]
    BY DEF Swapped, StationType
<1>4. Signal(m, signal) = g
    BY <1>2 DEF Signal, StationType
<1> HIDE DEF m
<1>5. v \in BOOLEAN
    BY <1>2, Zenon DEF FreeSlots
<1> HIDE DEF v
<1>6. g \in StationType(P) /\ SameRest(h, g) /\ g.peers = Swapped(h, k, q) /\ g.free_slots = v
    BY <1>2, <1>5, ZenonT(30) DEF StationType, SameRest
<1>7. WithPeer(h, k, q, signal) = IF q.s_queue = <<>> THEN g ELSE PutService(g, k, Head(q.s_queue))
    BY <1>3, <1>4 DEF WithPeer
<1> HIDE DEF g
<1> DEFINE w == WithPeer(h, k, q, signal)
<1>8. w \in StationType(P) /\ SameRest(h, w) /\ w.peers = Swapped(h, k, q) /\ w.free_slots = v
    <2>1. CASE q.s_queue = <<>>
        BY <1>6, <1>7, <2>1
    <2>2. CASE q.s_queue # <<>>
        <3>1. Head(q.s_queue) \in Frames
            BY <2>2, HeadTailProperties DEF PeerType
        <3>2. w = PutService(g, k, Head(q.s_queue))
            BY <1>7, <2>2
        <3> QED
            BY <1>6, <3>1, <3>2, PutServiceType DEF SameRest
    <2> QED
        BY <2>1, <2>2
<1> HIDE DEF w
<1>9. FreeSlots(w) = FreeSlots(m)
    BY <1>2, <1>8 DEF FreeSlots, UsedSlots, WindowSizes
<1>10. h.free_slots => v
    BY DEF v
<1>11. signal /\ FreeSlots(m) => v
    BY DEF v
<1> QED
    BY <1>8, <1>9, <1>10, <1>11 DEF w

\* What the exchange of a registered peer's record does to the invariant.
LEMMA PeerChange ==
  ASSUME NEW s, NEW h, StationInv(s, h), NEW k \in PeersOf(s), h.addr[k] # NoAddr,
         NEW q \in PeerType, NEW signal \in BOOLEAN
  PROVE  /\ StationInv(s, WithPeer(h, k, q, signal))
         /\ WithPeer(h, k, q, signal).marker = h.marker
         /\ /\ OkSlots(s, h)
            /\ signal \/ ~LinkUp(q) \/ (LinkUp(h.peers[k]) /\ q.window = h.peers[k].window)
            => OkSlots(s, WithPeer(h, k, q, signal))
<1> DEFINE g == WithPeer(h, k, q, signal)
           r == [q EXCEPT !.s_queue = <<>>]
<1>1. h \in StationType(PeersOf(s)) /\ Registered(s, h)
    BY DEF StationInv
<1>2. /\ g \in StationType(PeersOf(s)) /\ SameRest(h, g) /\ g.peers = Swapped(h, k, q)
      /\ h.free_slots => g.free_slots
      /\ signal /\ FreeSlots(g) => g.free_slots
    BY <1>1, WithPeerType
<1> HIDE DEF g
<1>3. r.state = q.state /\ r.window = q.window
    BY DEF PeerType
<1>4. h.peers \in [PeersOf(s) -> PeerType]
    BY <1>1 DEF StationType
<1>5. g.peers[k] = r /\ \A j \in PeersOf(s) : j # k => g.peers[j] = h.peers[j]
    BY <1>2, <1>4 DEF Swapped
<1> HIDE DEF r
<1>6. Registered(s, g)
    BY <1>1, <1>2, <1>5 DEF Registered, SameRest
<1>0. UnknownDown(s, h) => UnknownDown(s, g)
    BY <1>2, <1>5 DEF UnknownDown, SameRest
<1>7. ASSUME OkSlots(s, h), signal
      PROVE  OkSlots(s, g)
    BY <1>0, <1>2, <1>7 DEF OkSlots
<1>8. ASSUME OkSlots(s, h), ~LinkUp(q)
      PROVE  OkSlots(s, g)
    <2>1. g.addr[k] # NoAddr /\ ~LinkUp(g.peers[k])
        BY <1>2, <1>3, <1>5, <1>8 DEF SameRest, LinkUp
    <2> QED
        BY <1>0, <1>8, <2>1 DEF OkSlots
<1>9. ASSUME OkSlots(s, h), LinkUp(h.peers[k]), q.window = h.peers[k].window
      PROVE  OkSlots(s, g)
    <2>1. \A j \in PeersOf(s) : g.peers[j].window = h.peers[j].window
        BY <1>3, <1>5, <1>9
    <2>2. DOMAIN g.peers = PeersOf(s) /\ DOMAIN h.peers = PeersOf(s)
        BY <1>1, <1>2 DEF StationType
    <2>3. WindowSizes(g) = WindowSizes(h)
        BY <2>1, <2>2 DEF WindowSizes
    <2>4. FreeSlots(g) = FreeSlots(h)
        BY <2>3 DEF FreeSlots, UsedSlots
    <2>5. \A j \in PeersOf(s) : h.addr[j] # NoAddr /\ ~LinkUp(h.peers[j])
                               => g.addr[j] # NoAddr /\ ~LinkUp(g.peers[j])
        BY <1>2, <1>5, <1>9 DEF SameRest
    <2> QED
        BY <1>0, <1>2, <1>9, <2>4, <2>5 DEF OkSlots
<1> QED
    BY <1>2, <1>6, <1>7, <1>8, <1>9 DEF StationInv, SameRest, g

\* A step that leaves windows, addresses and the event alone, and no link goes
\* up or down.
SameSlots(s, h, g) ==
  /\ g.addr = h.addr /\ g.free_slots = h.free_slots
  /\ \A k \in PeersOf(s) : g.peers[k].window = h.peers[k].window
                           /\ (LinkUp(g.peers[k]) <=> LinkUp(h.peers[k]))

LEMMA SlotsUntouched ==
  ASSUME NEW s, NEW h, StationInv(s, h), NEW g \in StationType(PeersOf(s)), SameSlots(s, h, g)
  PROVE  StationInv(s, g) /\ (OkSlots(s, h) => OkSlots(s, g))
<1>1. DOMAIN g.peers = PeersOf(s) /\ DOMAIN h.peers = PeersOf(s)
    BY DEF StationType, StationInv
<1>2. WindowSizes(g) = WindowSizes(h)
    BY <1>1 DEF WindowSizes, SameSlots
<1>3. FreeSlots(g) = FreeSlots(h)
    BY <1>2 DEF FreeSlots, UsedSlots
<1>4. \A j \in PeersOf(s) : LinkUp(g.peers[j]) <=> LinkUp(h.peers[j])
    BY DEF SameSlots
<1>5. UnknownDown(s, h) => UnknownDown(s, g)
    BY <1>4 DEF UnknownDown, SameSlots
<1> QED
    BY <1>3, <1>4, <1>5 DEF StationInv, Registered, OkSlots, SameSlots

-----------------------------------------------------------------------------
(* The invariant *)

BusType == [from : All, field : 0 .. 254, frame : Frames, pf : BOOLEAN]

\* Station s holds the marker.
Holds(s) == Live(s) /\ station[s].marker

\* There is one marker: with a station, or on its way.
OneMarker ==
  /\ \A s, t \in All : Holds(s) /\ Holds(t) => s = t
  /\ \A i, j \in DOMAIN bus : bus[i].pf /\ bus[j].pf => i = j
  /\ \A s \in All : Holds(s) => \A i \in DOMAIN bus : ~bus[i].pf

NrmInv ==
  /\ station = [s \in All |-> station[s]]
  /\ \A s \in All : StationInv(s, station[s])
  /\ \A s \in All \ cut : OkSlots(s, station[s])
  /\ bus \in Seq(BusType)
  /\ sent \in [All -> [PeersOf(Primary) -> Nat]]
  /\ OneMarker

\* The record of one station changes.
LEMMA OneStation ==
  ASSUME NrmInv, NEW s \in All, NEW g, station' = [station EXCEPT ![s] = g],
         StationInv(s, g), s \notin cut' => OkSlots(s, g), cut \subseteq cut',
         bus' \in Seq(BusType), sent' \in [All -> [PeersOf(Primary) -> Nat]], OneMarker'
  PROVE  NrmInv'
<1>1. /\ station'[s] = g /\ \A t \in All : t # s => station'[t] = station[t]
      /\ station' = [t \in All |-> station'[t]]
    BY DEF NrmInv
<1>2. \A t \in All : StationInv(t, station'[t])
    BY <1>1 DEF NrmInv
<1>3. \A t \in All \ cut' : OkSlots(t, station'[t])
    BY <1>1 DEF NrmInv
<1>4. (\A t \in All : StationInv(t, station[t]))' <=> \A t \in All : StationInv(t, station'[t])
    BY DEF StationInv, StationType, Registered, All, LinkUp
<1>5. (\A t \in All \ cut : OkSlots(t, station[t]))'
         <=> \A t \in All \ cut' : OkSlots(t, station'[t])
    BY DEF OkSlots, UnknownDown, All, LinkUp
<1> QED
    BY <1>1, <1>2, <1>3, <1>4, <1>5 DEF NrmInv, All

\* No marker moves.
LEMMA MarkersStay ==
  ASSUME NrmInv, NEW s \in All, NEW g, station' = [station EXCEPT ![s] = g],
         g.marker = station[s].marker, stopped' = stopped, bus' = bus
  PROVE  OneMarker'
<1>1. \A t \in All : station'[t].marker = station[t].marker
    BY DEF NrmInv
<1>2. \A t \in All : Holds(t)' <=> Holds(t)
    BY <1>1 DEF Holds, Live
<1> QED
    BY <1>2 DEF NrmInv, OneMarker, All

\* A calm step of one station: no marker, frame or packet moves.
LEMMA CalmStep ==
  ASSUME NrmInv, NEW s \in All, NEW g, station' = [station EXCEPT ![s] = g],
         StationInv(s, g), g.marker = station[s].marker,
         s \notin cut' => OkSlots(s, g), cut \subseteq cut',
         UNCHANGED <<bus, stopped>>, sent' \in [All -> [PeersOf(Primary) -> Nat]]
  PROVE  NrmInv'
<1>1. OneMarker'
    BY MarkersStay
<1>2. bus' \in Seq(BusType)
    BY DEF NrmInv
<1> QED
    BY <1>1, <1>2, OneStation

\* What holds of the station that takes the step.
LEMMA StationFacts ==
  ASSUME NrmInv, NEW s \in All
  PROVE  /\ StationInv(s, station[s]) /\ (s \notin cut => OkSlots(s, station[s]))
         /\ station[s] \in StationType(PeersOf(s))
         /\ station[s].peers \in [PeersOf(s) -> PeerType]
         /\ station[s].addr \in [PeersOf(s) -> 0 .. 255]
         /\ station[s].next_peer \in PeersOf(s) /\ station[s].peer \in PeersOf(s)
         /\ station[s].marker \in BOOLEAN /\ station[s].free_slots \in BOOLEAN
         /\ station[s].peers[station[s].peer] \in PeerType
         /\ sent \in [All -> [PeersOf(Primary) -> Nat]]
<1>1. StationInv(s, station[s]) /\ (s \notin cut => OkSlots(s, station[s]))
    BY DEF NrmInv
<1>2. station[s] \in StationType(PeersOf(s))
    BY <1>1 DEF StationInv
<1>3. /\ station[s].peers \in [PeersOf(s) -> PeerType]
      /\ station[s].addr \in [PeersOf(s) -> 0 .. 255]
      /\ station[s].next_peer \in PeersOf(s) /\ station[s].peer \in PeersOf(s)
      /\ station[s].marker \in BOOLEAN /\ station[s].free_slots \in BOOLEAN
    BY <1>2 DEF StationType
<1> QED
    BY <1>1, <1>2, <1>3 DEF NrmInv

LEMMA InitNrmInv == NrmInit => NrmInv
<1> SUFFICES ASSUME NrmInit PROVE NrmInv
    OBVIOUS
<1>1. station = [s \in All |-> InitStation(s)] /\ bus = <<>> /\ stopped = {} /\ cut = {}
      /\ sent = [s \in All |-> [k \in PeersOf(Primary) |-> 0]]
    BY DEF NrmInit
<1>2. InitPeer \in PeerType
    <2>1. <<>> \in Seq(Nat) /\ <<>> \in Seq(Frames)
        OBVIOUS
    <2> QED
        BY <2>1, ZeroIsNumber, PeerAssumption DEF InitPeer, PeerType, States
<1>3. QueueReset(SuSize) \in [0 .. SuSize - 1 -> SlotType]
    BY SlotFacts DEF QueueReset
<1>4. ASSUME NEW s \in All
      PROVE  StationInv(s, station[s]) /\ OkSlots(s, station[s])
    <2> DEFINE h == InitStation(s)
               ad == [k \in PeersOf(s) |-> IF s = Primary THEN NoAddr ELSE Field(s)]
    <2>1. 0 \in PeersOf(s) /\ 0 \in 0 .. SuSize - 1 /\ (s = Primary) \in BOOLEAN
        BY PeersOfFacts, PeerAssumption
    <2>2. ad \in [PeersOf(s) -> 0 .. 255]
        BY FieldFacts DEF NoAddr
    <2>3. /\ h \in StationType(PeersOf(s)) /\ h.addr = ad /\ h.free_slots = TRUE
          /\ h.peers = [k \in PeersOf(s) |-> InitPeer]
        <3> HIDE DEF ad
        <3>1. h = [peers |-> [k \in PeersOf(s) |-> InitPeer], addr |-> ad, next_peer |-> 0,
                   peer |-> 0, held |-> FALSE, marker |-> (s = Primary), free_slots |-> TRUE,
                   frames |-> QueueReset(SuSize), lookup |-> 0]
            BY DEF InitStation, ad
        <3>2. [k \in PeersOf(s) |-> InitPeer] \in [PeersOf(s) -> PeerType]
            BY <1>2
        <3> QED
            BY <1>3, <2>1, <2>2, <3>1, <3>2 DEF StationType
    <2> HIDE DEF h
    <2>4. Registered(s, h) /\ UnknownDown(s, h)
        <3>1. \A k \in PeersOf(s) : ~LinkUp(h.peers[k])
            BY <2>3 DEF LinkUp, InitPeer
        <3>2. s # Primary => h.addr[0] # NoAddr
            BY <2>1, <2>3, FieldFacts
        <3> QED
            BY <3>1, <3>2 DEF Registered, UnknownDown
    <2>5. station[s] = h
        BY <1>1 DEF h
    <2> QED
        BY <2>3, <2>4, <2>5 DEF StationInv, OkSlots
<1>5. \A s \in All : station[s].marker => s = Primary
    BY <1>1 DEF InitStation
<1>6. OneMarker
    BY <1>1, <1>5 DEF OneMarker, Holds
<1>7. bus \in Seq(BusType) /\ sent \in [All -> [PeersOf(Primary) -> Nat]]
    BY <1>1
<1>8. station = [s \in All |-> station[s]]
    BY <1>1
<1> QED
    BY <1>4, <1>6, <1>7, <1>8 DEF NrmInv

-----------------------------------------------------------------------------
(* The application's calls *)

LEMMA AddressedPeer ==
  ASSUME NEW s, NEW h, StationInv(s, h), NEW field, AddressFieldToPeer(s, h, field) # NoPeer
  PROVE  /\ AddressFieldToPeer(s, h, field) \in PeersOf(s)
         /\ field # NoAddr => h.addr[AddressFieldToPeer(s, h, field)] # NoAddr
<1>1. CASE s # Primary
    <2>1. AddressFieldToPeer(s, h, field) = 0
        BY <1>1 DEF AddressFieldToPeer
    <2> QED
        BY <1>1, <2>1, PeersOfFacts DEF StationInv, Registered
<1>2. CASE s = Primary
    <2>1. \E k \in PeersOf(s) : h.addr[k] = field
        BY <1>2 DEF AddressFieldToPeer
    <2>2. AddressFieldToPeer(s, h, field) = CHOOSE k \in PeersOf(s) : h.addr[k] = field
        BY <1>2, <2>1 DEF AddressFieldToPeer
    <2>3. /\ AddressFieldToPeer(s, h, field) \in PeersOf(s)
          /\ h.addr[AddressFieldToPeer(s, h, field)] = field
        BY <2>1, <2>2
    <2> QED
        BY <2>3
<1> QED
    BY <1>1, <1>2

LEMMA RegisterStep ==
  ASSUME NrmInv, NEW a \in Secondaries, RegisterPeer(a)
  PROVE  NrmInv'
<1> DEFINE s == Primary
           h == station[s]
           k == CHOOSE k \in DOMAIN h.addr :
                  h.addr[k] = NoAddr /\ \A j \in DOMAIN h.addr : j < k => h.addr[j] # NoAddr
           ad == [h.addr EXCEPT ![k] = Field(a)]
           g == [h EXCEPT !.addr = ad]
<1>1. s \in All /\ a \in All
    BY DEF All
<1>2. /\ StationInv(s, h) /\ (s \notin cut => OkSlots(s, h)) /\ h \in StationType(PeersOf(s))
      /\ h.addr \in [PeersOf(s) -> 0 .. 255] /\ sent \in [All -> [PeersOf(Primary) -> Nat]]
    BY <1>1, StationFacts
<1>3. Field(a) \in 0 .. 255 /\ Field(a) # NoAddr
    BY <1>1, FieldFacts
<1>4. station' = [station EXCEPT ![s] = g] /\ UNCHANGED <<bus, sent, stopped, cut>>
    BY <1>1, <1>2 DEF RegisterPeer, StationType, NrmInv
<1> HIDE DEF k
<1>5. /\ ad \in [PeersOf(s) -> 0 .. 255]
      /\ \A j \in PeersOf(s) : h.addr[j] # NoAddr => ad[j] # NoAddr
    BY <1>2, <1>3
<1> HIDE DEF h, ad
<1>6. /\ g \in StationType(PeersOf(s)) /\ g.addr = ad /\ g.peers = h.peers
      /\ g.free_slots = h.free_slots /\ g.marker = h.marker
    BY <1>2, <1>5 DEF StationType
<1> HIDE DEF g
<1>7. StationInv(s, g)
    BY <1>2, <1>5, <1>6 DEF StationInv, Registered
<1>8. FreeSlots(g) = FreeSlots(h)
    BY <1>6 DEF FreeSlots, UsedSlots, WindowSizes
<1>9. OkSlots(s, h) => OkSlots(s, g)
    BY <1>5, <1>6, <1>8 DEF OkSlots, UnknownDown
<1>10. g.marker = station[s].marker
    BY <1>6 DEF h
<1> HIDE DEF s
<1> QED
    BY <1>1, <1>2, <1>4, <1>7, <1>9, <1>10, CalmStep

LEMMA SendUiStep ==
  ASSUME NrmInv, NEW a \in Secondaries, SendUiPacketTo(a)
  PROVE  NrmInv'
<1> DEFINE s == Primary
           h == station[s]
           k == PeerOfAddress(s, h, a)
           g == PutService(h, k, U("UI"))
<1>1. s \in All
    BY DEF All
<1>2. /\ StationInv(s, h) /\ (s \notin cut => OkSlots(s, h)) /\ h \in StationType(PeersOf(s))
      /\ sent \in [All -> [PeersOf(Primary) -> Nat]]
    BY <1>1, StationFacts
<1>3. station' = [station EXCEPT ![s] = g] /\ UNCHANGED <<bus, sent, stopped, cut>> /\ k # NoPeer
    BY DEF SendUiPacketTo
<1>4. k \in PeersOf(s)
    BY <1>2, <1>3, AddressedPeer DEF PeerOfAddress
<1>5. U("UI") \in Frames
    BY FrameTypesOf DEF UTypes
<1> HIDE DEF h, k
<1>6. /\ g \in StationType(PeersOf(s)) /\ SameRest(h, g) /\ g.peers = h.peers
      /\ g.free_slots = h.free_slots
    BY <1>2, <1>4, <1>5, PutServiceType
<1> HIDE DEF g
<1>7. SameSlots(s, h, g)
    BY <1>6 DEF SameSlots, SameRest
<1>8. StationInv(s, g) /\ (OkSlots(s, h) => OkSlots(s, g))
    BY <1>2, <1>6, <1>7, SlotsUntouched
<1>9. g.marker = station[s].marker
    BY <1>6 DEF h, SameRest
<1> HIDE DEF s
<1> QED
    BY <1>1, <1>2, <1>3, <1>8, <1>9, CalmStep

LEMMA DisconnectStep ==
  ASSUME NrmInv, NEW s \in All, NrmDisconnect(s)
  PROVE  NrmInv'
<1> DEFINE h == station[s]
           m == PutService(h, 0, U("DISC"))
           pe == [m.peers EXCEPT ![0] = [@ EXCEPT !.state = "DISCONNECTING"]]
           g == [m EXCEPT !.peers = pe]
<1>2. /\ StationInv(s, h) /\ (s \notin cut => OkSlots(s, h)) /\ h \in StationType(PeersOf(s))
      /\ h.peers \in [PeersOf(s) -> PeerType] /\ sent \in [All -> [PeersOf(Primary) -> Nat]]
    BY StationFacts
<1>3. U("DISC") \in Frames /\ 0 \in PeersOf(s)
    BY FrameTypesOf, PeersOfFacts DEF UTypes
<1>4. /\ station' = [station EXCEPT ![s] = [m EXCEPT !.peers[0].state = "DISCONNECTING"]]
      /\ UNCHANGED <<bus, sent, stopped>>
      /\ cut' = IF LinkUp(h.peers[0]) THEN cut ELSE cut \cup {s}
    BY DEF NrmDisconnect
<1> HIDE DEF h
<1>5. /\ m \in StationType(PeersOf(s)) /\ SameRest(h, m) /\ m.peers = h.peers
      /\ m.free_slots = h.free_slots
    BY <1>2, <1>3, PutServiceType
<1> HIDE DEF m
<1>6. station' = [station EXCEPT ![s] = g]
    BY <1>4, <1>5 DEF StationType
<1>7. /\ pe \in [PeersOf(s) -> PeerType]
      /\ LinkUp(pe[0]) /\ pe[0].window = h.peers[0].window
      /\ \A j \in PeersOf(s) : j # 0 => pe[j] = h.peers[j]
    <2>1. [h.peers[0] EXCEPT !.state = "DISCONNECTING"] \in PeerType
        BY <1>2, <1>3, ZenonT(30) DEF PeerType, States
    <2>2. h.peers[0] \in PeerType
        BY <1>2, <1>3
    <2>3. /\ [h.peers[0] EXCEPT !.state = "DISCONNECTING"].state = "DISCONNECTING"
          /\ [h.peers[0] EXCEPT !.state = "DISCONNECTING"].window = h.peers[0].window
        BY <2>2 DEF PeerType
    <2>4. pe = [h.peers EXCEPT ![0] = [h.peers[0] EXCEPT !.state = "DISCONNECTING"]]
        BY <1>5
    <2> QED
        BY <1>2, <1>3, <2>1, <2>3, <2>4 DEF LinkUp
<1> HIDE DEF pe
<1>8. /\ g \in StationType(PeersOf(s)) /\ g.peers = pe /\ g.addr = h.addr
      /\ g.free_slots = h.free_slots /\ g.marker = h.marker
    BY <1>5, <1>7 DEF StationType, SameRest
<1> HIDE DEF g
<1>9. StationInv(s, g)
    BY <1>2, <1>4, <1>7, <1>8 DEF StationInv, Registered
<1>10. ASSUME s \notin cut'
       PROVE  OkSlots(s, g)
    <2>1. LinkUp(h.peers[0]) /\ s \notin cut
        BY <1>4, <1>10
    <2>2. SameSlots(s, h, g)
        <3>1. \A j \in PeersOf(s) : /\ g.peers[j].window = h.peers[j].window
                                   /\ (LinkUp(g.peers[j]) <=> LinkUp(h.peers[j]))
            BY <1>7, <1>8, <2>1
        <3> QED
            BY <1>8, <3>1 DEF SameSlots
    <2> QED
        BY <1>2, <1>8, <2>1, <2>2, SlotsUntouched
<1>11. g.marker = station[s].marker
    BY <1>8 DEF h
<1>12. cut \subseteq cut'
    BY <1>4
<1> QED
    BY <1>2, <1>4, <1>6, <1>9, <1>10, <1>11, <1>12, CalmStep

LEMMA SendPacketStep ==
  ASSUME NrmInv, NEW s \in All, NEW address \in All, SendPacketTo(s, address)
  PROVE  NrmInv'
<1> DEFINE h == station[s]
           k == PeerOfAddress(s, h, address)
           p == h.peers[k]
           w == Append(p.window, sent[s][k] + 1)
           q == [p EXCEPT !.window = Append(@, sent[s][k] + 1), !.last_ns = SeqNext(@)]
           r == [q EXCEPT !.can_accept = ~TxFull(q)]
           x == [p EXCEPT !.can_accept = ~TxFull(p)]
           g == IF FreeSlots(h) THEN [h EXCEPT !.peers[k] = r]
                                ELSE [h EXCEPT !.peers[k].can_accept = ~TxFull(p)]
           v == FreeSlots(h) /\ FreeSlots(g)
           e == [g EXCEPT !.free_slots = v]
<1>1. /\ StationInv(s, h) /\ h \in StationType(PeersOf(s))
      /\ h.peers \in [PeersOf(s) -> PeerType] /\ sent \in [All -> [PeersOf(Primary) -> Nat]]
    BY StationFacts
<1>2. /\ station' = [station EXCEPT ![s] = e]
      /\ k # NoPeer /\ UNCHANGED <<bus, stopped, cut>>
      /\ sent' = IF FreeSlots(h) THEN [sent EXCEPT ![s][k] = @ + 1] ELSE sent
    BY DEF SendPacketTo
<1>3. k \in PeersOf(s)
    BY <1>1, <1>2, AddressedPeer DEF PeerOfAddress
<1>4. sent[s][k] \in Nat /\ sent' \in [All -> [PeersOf(Primary) -> Nat]]
    <2>1. k \in PeersOf(Primary)
        BY <1>3, PeersOfPrimary
    <2> HIDE DEF k
    <2> QED
        BY <1>1, <1>2, <2>1
<1> HIDE DEF h, k
<1>5. p \in PeerType /\ p.window \in Seq(Nat) /\ SeqNext(p.last_ns) \in SeqNums
    BY <1>1, <1>3, SeqNextType DEF PeerType
<1> HIDE DEF p
<1>6. w \in Seq(Nat)
    BY <1>4, <1>5, AppendProperties
<1>7. q \in PeerType /\ q.state = p.state
    <2>1. q = [p EXCEPT !.window = w, !.last_ns = SeqNext(p.last_ns)]
        BY <1>5 DEF PeerType
    <2> HIDE DEF w, q
    <2> QED
        BY <1>5, <1>6, <2>1 DEF PeerType
<1> HIDE DEF q
<1>8. r \in PeerType /\ r.state = p.state
    <2>1. (~TxFull(q)) \in BOOLEAN
        OBVIOUS
    <2> QED
        BY <1>7, <2>1 DEF PeerType
<1>9. x \in PeerType /\ x.state = p.state /\ x.window = p.window
    <2>1. (~TxFull(p)) \in BOOLEAN
        OBVIOUS
    <2> QED
        BY <1>5, <2>1 DEF PeerType
<1> DEFINE y == IF FreeSlots(h) THEN r ELSE x
           pe == [h.peers EXCEPT ![k] = y]
<1>10. g = [h EXCEPT !.peers = pe]
    <2>1. CASE FreeSlots(h)
        BY <1>1, <2>1 DEF StationType
    <2>2. CASE ~FreeSlots(h)
        BY <1>1, <1>3, <2>2 DEF StationType, p
    <2> QED
        BY <2>1, <2>2
<1>11. y \in PeerType /\ y.state = p.state /\ (~FreeSlots(h) => y.window = p.window)
    BY <1>8, <1>9
<1> HIDE DEF g, y
<1>12. /\ pe \in [PeersOf(s) -> PeerType] /\ pe[k] = y
       /\ \A j \in PeersOf(s) : j # k => pe[j] = h.peers[j]
    BY <1>1, <1>3, <1>11
<1> HIDE DEF pe
<1>13. v \in BOOLEAN
    BY DEF FreeSlots
<1> HIDE DEF v
<1>14. /\ e \in StationType(PeersOf(s)) /\ e.peers = pe /\ g.peers = pe /\ e.addr = h.addr
       /\ e.free_slots = v /\ e.marker = h.marker
    BY <1>1, <1>10, <1>12, <1>13, ZenonT(30) DEF StationType
<1> HIDE DEF e
<1>15. \A j \in PeersOf(s) : LinkUp(e.peers[j]) <=> LinkUp(h.peers[j])
    BY <1>11, <1>12, <1>14 DEF LinkUp, p
<1>16. StationInv(s, e)
    BY <1>1, <1>14, <1>15 DEF StationInv, Registered
<1>17. FreeSlots(e) = FreeSlots(g)
    BY <1>14 DEF FreeSlots, UsedSlots, WindowSizes
<1>18. s \notin cut => OkSlots(s, e)
    <2> SUFFICES ASSUME s \notin cut PROVE OkSlots(s, e)
        OBVIOUS
    <2>0. UnknownDown(s, e)
        <3>1. UnknownDown(s, h)
            BY StationFacts DEF OkSlots, h
        <3> QED
            BY <1>14, <1>15, <3>1 DEF UnknownDown
    <2>1. CASE FreeSlots(h)
        BY <1>14, <1>17, <2>0, <2>1 DEF OkSlots, v
    <2>2. CASE ~FreeSlots(h)
        <3>1. \A j \in PeersOf(s) : e.peers[j].window = h.peers[j].window
            BY <1>11, <1>12, <1>14, <2>2 DEF p
        <3>2. DOMAIN e.peers = PeersOf(s) /\ DOMAIN h.peers = PeersOf(s)
            BY <1>1, <1>12, <1>14
        <3>3. WindowSizes(e) = WindowSizes(h)
            BY <3>1, <3>2 DEF WindowSizes
        <3>4. ~FreeSlots(e)
            BY <2>2, <3>3 DEF FreeSlots, UsedSlots
        <3> QED
            BY <2>0, <3>4 DEF OkSlots
    <2> QED
        BY <2>1, <2>2
<1>19. e.marker = station[s].marker
    BY <1>14 DEF h
<1> QED
    BY <1>2, <1>4, <1>16, <1>18, <1>19, CalmStep

-----------------------------------------------------------------------------
(* The timers *)

LEMMA ConnectTimerStep ==
  ASSUME NrmInv, NrmConnectTimer
  PROVE  NrmInv'
<1> DEFINE s == Primary
           h == station[s]
           k == Cur(h)
           m == PutUS(h.peers[k], U("SABM"))
           q == [m EXCEPT !.state = "CONNECTING"]
           g == WithPeer(h, k, q, FALSE)
<1>1. s \in All
    BY DEF All
<1>2. /\ StationInv(s, h) /\ (s \notin cut => OkSlots(s, h)) /\ sent \in [All -> [PeersOf(Primary) -> Nat]]
      /\ k \in PeersOf(s) /\ h.peers[k] \in PeerType
    BY <1>1, StationFacts DEF Cur
<1>3. /\ station' = [station EXCEPT ![s] = g] /\ UNCHANGED <<bus, sent, stopped, cut>>
      /\ h.addr[k] # NoAddr
    BY DEF NrmConnectTimer, TimerStep
<1>4. U("SABM") \in Frames
    BY FrameTypesOf DEF UTypes
<1> HIDE DEF h, k
<1>5. m \in PeerType
    BY <1>2, <1>4, PutKeeps DEF Kept
<1> HIDE DEF m
<1>6. q \in PeerType /\ ~LinkUp(q)
    BY <1>5 DEF PeerType, States, LinkUp
<1> HIDE DEF q
<1>7. FALSE \in BOOLEAN
    OBVIOUS
<1>8. StationInv(s, g) /\ g.marker = h.marker /\ (OkSlots(s, h) => OkSlots(s, g))
    BY <1>2, <1>3, <1>6, <1>7, PeerChange
<1>9. g.marker = station[s].marker
    BY <1>8 DEF h
<1> HIDE DEF g, s
<1> QED
    BY <1>1, <1>2, <1>3, <1>8, <1>9, CalmStep

LEMMA RetryTimerStep ==
  ASSUME NrmInv, NEW s \in All, NrmRetryTimer(s)
  PROVE  NrmInv'
<1> DEFINE h == station[s]
           k == Cur(h)
           p == h.peers[k]
           m == [p EXCEPT !.retries = @ - 1]
           q == IF p.retries > 0 THEN ResendFrom(m, p.confirm_ns) ELSE SwitchToDisconnected(p)
           g == WithPeer(h, k, q, FALSE)
<1>2. /\ StationInv(s, h) /\ (s \notin cut => OkSlots(s, h)) /\ sent \in [All -> [PeersOf(Primary) -> Nat]]
      /\ k \in PeersOf(s) /\ p \in PeerType
    BY StationFacts DEF Cur
<1>3. /\ station' = [station EXCEPT ![s] = g] /\ UNCHANGED <<bus, sent, stopped, cut>>
      /\ LinkUp(p)
    BY DEF NrmRetryTimer, TimerStep
<1>4. h.addr[k] # NoAddr
    BY DEF NrmRetryTimer, TimerStep
<1> HIDE DEF h, k
<1>5. q \in PeerType /\ (~LinkUp(q) \/ q.window = p.window)
    <2>1. CASE p.retries > 0
        <3>1. Kept(p, m)
            <4>1. p.retries - 1 \in Nat
                BY <1>2, <2>1 DEF PeerType
            <4> QED
                BY <1>2, <4>1 DEF Kept, PeerType
        <3>2. p.confirm_ns \in SeqNums
            BY <1>2 DEF PeerType
        <3> HIDE DEF m
        <3>3. Kept(m, ResendFrom(m, p.confirm_ns))
            BY <3>1, <3>2, ResendKeeps DEF Kept
        <3> QED
            BY <2>1, <3>1, <3>3 DEF Kept
    <2>2. CASE ~(p.retries > 0)
        BY <1>2, <2>2, DownType DEF LinkUp
    <2> QED
        BY <2>1, <2>2
<1> HIDE DEF q
<1>6. FALSE \in BOOLEAN
    OBVIOUS
<1>7. StationInv(s, g) /\ g.marker = h.marker /\ (OkSlots(s, h) => OkSlots(s, g))
    BY <1>2, <1>3, <1>4, <1>5, <1>6, PeerChange
<1>8. g.marker = station[s].marker
    BY <1>7 DEF h
<1> HIDE DEF g
<1> QED
    BY <1>2, <1>3, <1>7, <1>8, CalmStep

LEMMA KeepAliveStep ==
  ASSUME NrmInv, NEW s \in All, NrmKeepAlive(s)
  PROVE  NrmInv'
<1> DEFINE h == station[s]
           k == Cur(h)
           p == h.peers[k]
           d == SwitchToDisconnected(p)
           m == [p EXCEPT !.ka_confirmed = FALSE]
           r == PutUS(m, S("RR", p.next_nr))
<1>1. /\ StationInv(s, h) /\ (s \notin cut => OkSlots(s, h)) /\ sent \in [All -> [PeersOf(Primary) -> Nat]]
      /\ k \in PeersOf(s) /\ p \in PeerType
    BY StationFacts DEF Cur
<1>2. LinkUp(p) /\ (TimerStep(s, WithPeer(h, k, d, FALSE)) \/ TimerStep(s, WithPeer(h, k, r, FALSE)))
    BY DEF NrmKeepAlive
<1>3. d \in PeerType /\ ~LinkUp(d)
    BY <1>1, DownType DEF LinkUp
<1>4. r \in PeerType /\ r.window = p.window
    <2>1. m \in PeerType /\ m.window = p.window
        BY <1>1 DEF PeerType
    <2>2. S("RR", p.next_nr) \in Frames
        BY <1>1, FrameTypesOf DEF PeerType, STypes
    <2> HIDE DEF m
    <2> QED
        BY <2>1, <2>2, PutKeeps DEF Kept
<1> HIDE DEF d, r
<1>5. ASSUME NEW q \in PeerType, ~LinkUp(q) \/ q.window = p.window,
             TimerStep(s, WithPeer(h, k, q, FALSE))
      PROVE  NrmInv'
    <2> DEFINE g == WithPeer(h, k, q, FALSE)
    <2>1. /\ station' = [station EXCEPT ![s] = g] /\ UNCHANGED <<bus, sent, stopped, cut>>
          /\ h.addr[k] # NoAddr
        BY <1>5 DEF TimerStep
    <2>2. FALSE \in BOOLEAN
        OBVIOUS
    <2> HIDE DEF h, k
    <2>3. StationInv(s, g) /\ g.marker = h.marker /\ (OkSlots(s, h) => OkSlots(s, g))
        BY <1>1, <1>2, <1>5, <2>1, <2>2, PeerChange
    <2>4. g.marker = station[s].marker
        BY <2>3 DEF h
    <2> HIDE DEF g
    <2> QED
        BY <1>1, <2>1, <2>3, <2>4, CalmStep
<1> QED
    BY <1>2, <1>3, <1>4, <1>5

LEMMA NextCallStep ==
  ASSUME NrmInv, NEW s \in All, NextCall(s)
  PROVE  NrmInv'
<1> DEFINE h == station[s]
           n == h.next_peer
           g == [h EXCEPT !.held = FALSE, !.peer = n]
<1>1. /\ StationInv(s, h) /\ (s \notin cut => OkSlots(s, h)) /\ sent \in [All -> [PeersOf(Primary) -> Nat]]
      /\ h \in StationType(PeersOf(s)) /\ n \in PeersOf(s)
    BY StationFacts
<1>2. station' = [station EXCEPT ![s] = g] /\ UNCHANGED <<bus, sent, stopped, cut>>
    BY DEF NextCall, NrmInv
<1> HIDE DEF h, n
<1>3. /\ g \in StationType(PeersOf(s)) /\ g.addr = h.addr /\ g.free_slots = h.free_slots
      /\ g.peers = h.peers /\ g.marker = h.marker
    BY <1>1 DEF StationType
<1> HIDE DEF g
<1>4. SameSlots(s, h, g)
    BY <1>3 DEF SameSlots
<1>5. StationInv(s, g) /\ (OkSlots(s, h) => OkSlots(s, g))
    BY <1>1, <1>3, <1>4, SlotsUntouched
<1>6. g.marker = station[s].marker
    BY <1>3 DEF h
<1> QED
    BY <1>1, <1>2, <1>5, <1>6, CalmStep

LEMMA ReturnMarkerStep ==
  ASSUME NrmInv, ReturnMarker
  PROVE  NrmInv'
<1> DEFINE s == Primary
           h == station[s]
           g == [h EXCEPT !.marker = TRUE]
<1>1. s \in All
    BY DEF All
<1>2. /\ StationInv(s, h) /\ (s \notin cut => OkSlots(s, h)) /\ sent \in [All -> [PeersOf(Primary) -> Nat]]
      /\ h \in StationType(PeersOf(s))
    BY <1>1, StationFacts
<1>3. /\ station' = [station EXCEPT ![s] = g] /\ UNCHANGED <<bus, sent, stopped, cut>>
      /\ bus = <<>> /\ \A t \in Secondaries : Live(t) => ~station[t].marker
    BY DEF ReturnMarker, TimerStep
<1>4. \A t \in All : t # s => t \in Secondaries /\ station'[t] = station[t]
    BY <1>3 DEF All, NrmInv
<1>5. \A t \in All : Holds(t)' => t = s
    BY <1>3, <1>4 DEF Holds, Live
<1>6. DOMAIN bus' = {}
    BY <1>3
<1>7. OneMarker'
    BY <1>5, <1>6 DEF OneMarker, All
<1> HIDE DEF h
<1>8. g \in StationType(PeersOf(s)) /\ g.addr = h.addr /\ g.free_slots = h.free_slots /\ g.peers = h.peers
    BY <1>2 DEF StationType
<1> HIDE DEF g
<1>9. SameSlots(s, h, g)
    BY <1>8 DEF SameSlots
<1>10. StationInv(s, g) /\ (OkSlots(s, h) => OkSlots(s, g))
    BY <1>2, <1>8, <1>9, SlotsUntouched
<1>11. bus' \in Seq(BusType) /\ sent' \in [All -> [PeersOf(Primary) -> Nat]] /\ cut \subseteq cut'
    BY <1>2, <1>3 DEF NrmInv
<1>12. s \notin cut' => OkSlots(s, g)
    BY <1>2, <1>3, <1>10
<1> HIDE DEF s
<1> QED
    BY <1>1, <1>3, <1>7, <1>10, <1>11, <1>12, OneStation

-----------------------------------------------------------------------------
(* Transmission: the marker stays, or goes with the frame *)

\* The address field of a registered peer.
LEMMA RegisteredField ==
  ASSUME NEW P, NEW addr \in [P -> 0 .. 255], NEW k \in P, addr[k] # NoAddr
  PROVE  addr[k] \in 0 .. 254
BY DEF NoAddr

LEMMA PutStep ==
  ASSUME NrmInv, NEW s \in All, NEW f \in Frames, NEW pf \in BOOLEAN,
         NEW h \in StationType(PeersOf(s)), SameSlots(s, station[s], h),
         h.next_peer = station[s].next_peer, MayTransmit(s), Put(s, f, pf, h)
  PROVE  NrmInv'
<1> DEFINE o == station[s]
           m == [from |-> s, field |-> o.addr[Cur(o)], frame |-> f, pf |-> pf]
           n == IF pf /\ s = Primary THEN NextPeer(o.addr, o.next_peer) ELSE o.next_peer
           e == OnFrameSend(s, h, pf)
<1>1. /\ StationInv(s, o) /\ (s \notin cut => OkSlots(s, o)) /\ sent \in [All -> [PeersOf(Primary) -> Nat]]
      /\ o.addr \in [PeersOf(s) -> 0 .. 255] /\ o.next_peer \in PeersOf(s) /\ o.peer \in PeersOf(s)
    BY StationFacts
<1>2. o.marker /\ o.addr[o.peer] # NoAddr
    BY DEF MayTransmit, Cur
<1>3. /\ Live(s) /\ bus' = Append(bus, m) /\ station' = [station EXCEPT ![s] = e]
      /\ UNCHANGED <<sent, stopped, cut>>
    BY DEF Put
<1>4. m \in BusType
    <2>1. o.addr[Cur(o)] \in 0 .. 254
        <3>1. o.addr[o.peer] \in 0 .. 254
            <4> HIDE DEF o
            <4> QED
                BY <1>1, <1>2, RegisteredField
        <3> QED
            BY <3>1 DEF Cur
    <2> QED
        BY <2>1 DEF BusType
<1>5. n \in PeersOf(s)
    <2>1. CASE pf /\ s = Primary
        <3> DEFINE c == Cardinality(Secondaries)
        <3>1. c \in Nat /\ PeersOf(s) = 0 .. c - 1
            BY <2>1, PeersFinite DEF PeersOf
        <3>2. DOMAIN o.addr = 0 .. c - 1 /\ o.next_peer \in 0 .. c - 1 /\ o.peer \in 0 .. c - 1
            BY <1>1, <3>1
        <3> HIDE DEF c, o
        <3>3. NextPeer(o.addr, o.next_peer) \in 0 .. c - 1
            BY <1>2, <3>1, <3>2, NextPeerType
        <3> QED
            BY <2>1, <3>1, <3>3
    <2>2. CASE ~(pf /\ s = Primary)
        BY <1>1, <2>2
    <2> QED
        BY <2>1, <2>2
<1> DEFINE y == s = Primary
<1>6. e = [h EXCEPT !.marker = ~pf, !.held = y, !.next_peer = n] /\ y \in BOOLEAN
    BY DEF OnFrameSend, StationType
<1> HIDE DEF n, e, y
<1>7. /\ e \in StationType(PeersOf(s)) /\ e.peers = h.peers /\ e.addr = h.addr
      /\ e.free_slots = h.free_slots /\ e.marker = (~pf)
    BY <1>5, <1>6, ZenonT(30) DEF StationType
<1>8. SameSlots(s, o, e)
    BY <1>7 DEF SameSlots
<1> HIDE DEF m
<1>9. /\ bus \in Seq(BusType) /\ bus' \in Seq(BusType)
      /\ Len(bus) \in Nat /\ DOMAIN bus = 1 .. Len(bus) /\ DOMAIN bus' = 1 .. Len(bus) + 1
      /\ \A i \in 1 .. Len(bus) : bus'[i] = bus[i]
      /\ bus'[Len(bus) + 1] = m
    BY <1>3, <1>4, AppendProperties DEF NrmInv
<1>10. station'[s] = e /\ \A t \in All : t # s => station'[t] = station[t]
    BY <1>3 DEF NrmInv
<1>11. OneMarker'
    <2>1. Holds(s)
        BY <1>2, <1>3 DEF Holds
    <2>2. \A t \in All : Holds(t) => t = s
        BY <2>1 DEF NrmInv, OneMarker
    <2>3. \A i \in DOMAIN bus : ~bus[i].pf
        BY <2>1 DEF NrmInv, OneMarker
    <2>4. \A t \in All : Holds(t)' => t = s
        BY <1>3, <1>10, <2>2 DEF Holds, Live
    <2>5. Holds(s)' => ~pf
        BY <1>7, <1>10 DEF Holds
    <2>6. m.pf = pf
        BY DEF m
    <2>7. \A i \in DOMAIN bus' : bus'[i].pf => i = Len(bus) + 1 /\ pf
        <3> SUFFICES ASSUME NEW i \in 1 .. Len(bus) + 1, bus'[i].pf
                     PROVE  i = Len(bus) + 1 /\ pf
            BY <1>9
        <3>1. CASE i \in 1 .. Len(bus)
            BY <1>9, <2>3, <3>1
        <3>2. CASE i = Len(bus) + 1
            BY <1>9, <2>6, <3>2
        <3> QED
            BY <1>9, <3>1, <3>2
    <2> QED
        BY <2>4, <2>5, <2>7 DEF OneMarker, All
<1> HIDE DEF o
<1>12. StationInv(s, e) /\ (OkSlots(s, o) => OkSlots(s, e))
    BY <1>1, <1>7, <1>8, SlotsUntouched
<1> QED
    BY <1>1, <1>3, <1>9, <1>11, <1>12, OneStation

LEMMA SentNrKeeps ==
  ASSUME NEW p \in PeerType, NEW f \in Frames
  PROVE  Kept(p, SentNr(p, f))
<1> DEFINE v == IF f.type \in {"RR", "REJ"} THEN f.nr ELSE p.sent_nr
<1>1. v \in SeqNums
    BY DEF PeerType, Frames
<1>2. SentNr(p, f) = [p EXCEPT !.sent_nr = v]
    BY DEF SentNr, PeerType
<1> HIDE DEF v
<1> QED
    BY <1>1, <1>2 DEF Kept, PeerType

\* The transmitting station's record h, except for the marker and the next peer.
Sending(o, k, q, fr, lk) ==
  [o EXCEPT !.frames = fr, !.lookup = lk, !.peers = [o.peers EXCEPT ![k] = q]]

LEMMA SentRecord ==
  ASSUME NEW s, NEW o \in StationType(PeersOf(s)), NEW k \in PeersOf(s),
         NEW q, Kept(o.peers[k], q),
         NEW fr \in [0 .. SuSize - 1 -> SlotType], NEW lk \in 0 .. SuSize - 1
  PROVE  /\ Sending(o, k, q, fr, lk) \in StationType(PeersOf(s))
         /\ SameSlots(s, o, Sending(o, k, q, fr, lk))
         /\ Sending(o, k, q, fr, lk).next_peer = o.next_peer
<1> DEFINE pe == [o.peers EXCEPT ![k] = q]
           h == Sending(o, k, q, fr, lk)
<1>1. o.peers \in [PeersOf(s) -> PeerType]
    BY DEF StationType
<1>2. /\ pe \in [PeersOf(s) -> PeerType]
      /\ \A j \in PeersOf(s) : pe[j].window = o.peers[j].window /\ pe[j].state = o.peers[j].state
    BY <1>1 DEF Kept
<1> HIDE DEF pe
<1>3. /\ h \in StationType(PeersOf(s)) /\ h.peers = pe /\ h.addr = o.addr
      /\ h.free_slots = o.free_slots /\ h.next_peer = o.next_peer
    <2>1. h = [o EXCEPT !.frames = fr, !.lookup = lk, !.peers = pe]
        BY DEF pe, Sending
    <2>2. h = [peers |-> pe, addr |-> o.addr, next_peer |-> o.next_peer, peer |-> o.peer,
               held |-> o.held, marker |-> o.marker,
               free_slots |-> o.free_slots, frames |-> fr, lookup |-> lk]
        BY <2>1 DEF StationType
    <2> HIDE DEF h
    <2>3. /\ h.peers = pe /\ h.addr = o.addr
          /\ h.free_slots = o.free_slots /\ h.next_peer = o.next_peer
        BY <2>2
    <2>4. h \in StationType(PeersOf(s))
        BY <1>2, <2>2 DEF StationType
    <2> QED
        BY <2>3, <2>4
<1> HIDE DEF h
<1> QED
    BY <1>2, <1>3 DEF SameSlots, LinkUp, h

LEMMA TransmitServiceStep ==
  ASSUME NrmInv, NEW s \in All, TransmitService(s)
  PROVE  NrmInv'
<1> DEFINE o == station[s]
           k == Cur(o)
           i == ServiceSlot(o, k)
           f == o.frames[i].data
           q == SentNr(o.peers[k], f)
           h == [o EXCEPT !.frames = Free(@, i), !.lookup = LookupAfter(SuSize, i),
                          !.peers[k] = SentNr(@, f)]
<1>1. /\ o \in StationType(PeersOf(s)) /\ k \in PeersOf(s) /\ o.peers[k] \in PeerType
      /\ o.frames \in [0 .. SuSize - 1 -> SlotType]
    BY StationFacts DEF Cur, StationType
<1>2. MayTransmit(s) /\ HasService(o, k) /\ Put(s, f, TRUE, h)
    BY DEF TransmitService
<1>3. i \in 0 .. SuSize - 1 /\ f \in Frames
    BY <1>1, <1>2, ServiceSlotType
<1> HIDE DEF o, k, i, f
<1>4. Free(o.frames, i) \in [0 .. SuSize - 1 -> SlotType]
    BY <1>1, SlotFacts DEF Free
<1>5. LookupAfter(SuSize, i) \in 0 .. SuSize - 1
    BY <1>3, LookupType
<1>6. Kept(o.peers[k], q)
    BY <1>1, <1>3, SentNrKeeps
<1> HIDE DEF q
<1>7. h = Sending(o, k, q, Free(o.frames, i), LookupAfter(SuSize, i))
    BY <1>1 DEF StationType, Sending, q
<1> HIDE DEF h
<1>8. h \in StationType(PeersOf(s)) /\ SameSlots(s, o, h) /\ h.next_peer = o.next_peer
    BY <1>1, <1>4, <1>5, <1>6, <1>7, SentRecord
<1>9. TRUE \in BOOLEAN
    OBVIOUS
<1> QED
    BY <1>2, <1>3, <1>8, <1>9, PutStep DEF o

LEMMA TransmitNumberedStep ==
  ASSUME NrmInv, NEW s \in All, TransmitNumbered(s)
  PROVE  NrmInv'
<1> DEFINE o == station[s]
           k == Cur(o)
           p == o.peers[k]
           q == [p EXCEPT !.next_ns = SeqNext(@), !.sent_nr = p.next_nr]
           f == I(p.next_ns, p.next_nr, p.window[NextOffset(p) + 1])
           h == [o EXCEPT !.peers[k] = q]
<1>1. o \in StationType(PeersOf(s)) /\ k \in PeersOf(s) /\ p \in PeerType
    BY StationFacts DEF Cur
<1>2. MayTransmit(s) /\ HasIFrame(p) /\ Put(s, f, LastOfTurn(q), h)
    BY DEF TransmitNumbered
<1> HIDE DEF o, k
<1>3. f \in Frames
    <2>1. /\ p.next_ns \in SeqNums /\ p.next_nr \in SeqNums /\ p.confirm_ns \in SeqNums
          /\ p.window \in Seq(Nat)
        BY <1>1 DEF PeerType
    <2>2. NextOffset(p) \in Nat /\ NextOffset(p) < Len(p.window)
        BY <1>2, <2>1, DistType DEF HasIFrame, NextOffset
    <2> HIDE DEF p
    <2>3. NextOffset(p) + 1 \in 1 .. Len(p.window)
        BY <2>1, <2>2
    <2>4. p.window[NextOffset(p) + 1] \in Nat
        BY <2>1, <2>3
    <2> QED
        BY <2>1, <2>4, FrameTypesOf
<1>4. Kept(p, q)
    <2>1. SeqNext(p.next_ns) \in SeqNums /\ p.next_nr \in SeqNums
        BY <1>1, SeqNextType DEF PeerType
    <2>2. q = [p EXCEPT !.next_ns = SeqNext(p.next_ns), !.sent_nr = p.next_nr]
        BY <1>1 DEF PeerType
    <2> QED
        BY <1>1, <2>1, <2>2 DEF Kept, PeerType
<1>5. LastOfTurn(q) \in BOOLEAN
    BY DEF LastOfTurn, AllFramesAreSent
<1> HIDE DEF q
<1>6. o.frames \in [0 .. SuSize - 1 -> SlotType] /\ o.lookup \in 0 .. SuSize - 1
    BY <1>1 DEF StationType
<1>7. h = Sending(o, k, q, o.frames, o.lookup)
    BY <1>1 DEF StationType, Sending
<1> HIDE DEF h, f
<1>8. h \in StationType(PeersOf(s)) /\ SameSlots(s, o, h) /\ h.next_peer = o.next_peer
    BY <1>1, <1>4, <1>6, <1>7, SentRecord
<1> QED
    BY <1>2, <1>3, <1>5, <1>8, PutStep DEF o

LEMMA PassMarkerStep ==
  ASSUME NrmInv, NEW s \in All, PassMarker(s)
  PROVE  NrmInv'
<1> DEFINE o == station[s]
           k == Cur(o)
           f == IF s = Primary /\ ~LinkUp(o.peers[k]) THEN U("SABM") ELSE S("RR", o.peers[k].next_nr)
           q == SentNr(o.peers[k], f)
           l == LookupAfter(SuSize, FreeServiceSlot(o))
           h == [o EXCEPT !.lookup = LookupAfter(SuSize, FreeServiceSlot(o)),
                          !.peers[k] = SentNr(@, f)]
<1>1. /\ o \in StationType(PeersOf(s)) /\ k \in PeersOf(s) /\ o.peers[k] \in PeerType
      /\ o.frames \in [0 .. SuSize - 1 -> SlotType]
    BY StationFacts DEF Cur, StationType
<1>2. MayTransmit(s) /\ HasFreeSlots(o.frames, SuSize) /\ Put(s, f, TRUE, h)
    BY DEF PassMarker
<1> HIDE DEF o, k
<1>3. f \in Frames
    <2>1. U("SABM") \in Frames /\ o.peers[k].next_nr \in SeqNums
        BY <1>1, FrameTypesOf DEF PeerType, UTypes
    <2>2. S("RR", o.peers[k].next_nr) \in Frames
        BY <2>1, FrameTypesOf DEF STypes
    <2> QED
        BY <2>1, <2>2
<1> HIDE DEF f
<1>4. l \in 0 .. SuSize - 1
    BY <1>1, <1>2, FreeServiceSlotType, LookupType
<1>5. Kept(o.peers[k], q)
    BY <1>1, <1>3, SentNrKeeps
<1>6. h = [o EXCEPT !.lookup = l, !.peers = [o.peers EXCEPT ![k] = q]]
    BY <1>1 DEF StationType
<1> HIDE DEF q, l, h
<1>7. h = Sending(o, k, q, o.frames, l)
    BY <1>1, <1>6 DEF StationType, Sending
<1>8. h \in StationType(PeersOf(s)) /\ SameSlots(s, o, h) /\ h.next_peer = o.next_peer
    BY <1>1, <1>4, <1>5, <1>7, SentRecord
<1>9. TRUE \in BOOLEAN
    OBVIOUS
<1> QED
    BY <1>2, <1>3, <1>8, <1>9, PutStep DEF o

-----------------------------------------------------------------------------
(* Reception and losses *)

LEMMA HeadGone ==
  ASSUME NrmInv, bus # <<>>, bus' = Tail(bus)
  PROVE  /\ Head(bus) \in BusType /\ bus' \in Seq(BusType)
         /\ 1 \in DOMAIN bus /\ Head(bus) = bus[1]
         /\ \A i \in DOMAIN bus' : i + 1 \in DOMAIN bus /\ i + 1 # 1 /\ bus'[i] = bus[i + 1]
         /\ \A i, j \in DOMAIN bus' : i + 1 = j + 1 => i = j
<1>1. bus \in Seq(BusType)
    BY DEF NrmInv
<1>2. /\ Head(bus) \in BusType /\ bus' \in Seq(BusType) /\ Len(bus') = Len(bus) - 1
      /\ \A i \in 1 .. Len(bus') : bus'[i] = bus[i + 1]
    BY <1>1, HeadTailProperties
<1>3. Len(bus) \in Nat \ {0} /\ DOMAIN bus = 1 .. Len(bus) /\ DOMAIN bus' = 1 .. Len(bus')
    BY <1>1, <1>2, EmptySeq, LenProperties
<1>4. Head(bus) = bus[1]
    OBVIOUS
<1> QED
    BY <1>2, <1>3, <1>4

\* A frame disappears from the bus, and its marker with it.
LEMMA FrameLost ==
  ASSUME NrmInv, bus # <<>>, bus' = Tail(bus), UNCHANGED <<station, sent, stopped, cut>>
  PROVE  NrmInv'
<1>1. /\ bus' \in Seq(BusType)
      /\ \A i \in DOMAIN bus' : i + 1 \in DOMAIN bus /\ bus'[i] = bus[i + 1]
      /\ \A i, j \in DOMAIN bus' : i + 1 = j + 1 => i = j
    BY HeadGone
<1>2. \A t \in All : Holds(t)' <=> Holds(t)
    BY DEF Holds, Live
<1>3. OneMarker'
    BY <1>1, <1>2 DEF NrmInv, OneMarker, All
<1> QED
    BY <1>1, <1>3, ZenonT(30) DEF NrmInv, StationInv, StationType, Registered, OkSlots, UnknownDown, All, LinkUp

LEMMA CrashStep ==
  ASSUME NrmInv, NEW a \in Secondaries, Crash(a)
  PROVE  NrmInv'
<1>1. UNCHANGED <<station, bus, sent, cut>> /\ stopped' = stopped \cup {a}
    BY DEF Crash
<1>2. \A t \in All : Holds(t)' => Holds(t)
    BY <1>1 DEF Holds, Live
<1>3. OneMarker'
    BY <1>1, <1>2 DEF NrmInv, OneMarker, All
<1> QED
    BY <1>1, <1>3, ZenonT(30) DEF NrmInv, StationInv, StationType, Registered, OkSlots, UnknownDown, All, LinkUp

LEMMA ReceiveStep ==
  ASSUME NrmInv, NEW s \in All, Receive(s)
  PROVE  NrmInv'
<1> DEFINE m == Head(bus)
           h == station[s]
           k == AddressFieldToPeer(s, h, m.field)
           p == h.peers[k]
           f == m.frame
           q == OnFrameRead(p, f)
           numbered == LinkUp(p) /\ f.type \in {"I", "RR", "REJ"}
           signal == \/ q.state = "CONNECTED" /\ (p.state # "CONNECTED" \/ f.type = "SABM")
                     \/ numbered /\ Confirms(p, f.nr) > 0
           g == WithPeer(h, k, q, signal)
           mk == g.marker \/ m.pf
           e == [g EXCEPT !.marker = @ \/ m.pf]
<1>1. /\ StationInv(s, h) /\ (s \notin cut => OkSlots(s, h)) /\ sent \in [All -> [PeersOf(Primary) -> Nat]]
      /\ h.peers \in [PeersOf(s) -> PeerType] /\ h.marker \in BOOLEAN
    BY StationFacts
<1>2. /\ bus # <<>> /\ bus' = Tail(bus) /\ k # NoPeer /\ Live(s)
      /\ station' = [station EXCEPT ![s] = e] /\ UNCHANGED <<sent, stopped, cut>>
    BY DEF Receive, Complete
<1>3. /\ m \in BusType /\ bus' \in Seq(BusType) /\ 1 \in DOMAIN bus /\ m = bus[1]
      /\ \A i \in DOMAIN bus' : i + 1 \in DOMAIN bus /\ i + 1 # 1 /\ bus'[i] = bus[i + 1]
      /\ \A i, j \in DOMAIN bus' : i + 1 = j + 1 => i = j
    BY <1>2, HeadGone
<1>4. f \in Frames /\ m.field # NoAddr /\ m.pf \in BOOLEAN
    <2> HIDE DEF m
    <2>1. m.frame \in Frames /\ m.field \in 0 .. 254 /\ m.pf \in BOOLEAN
        BY <1>3 DEF BusType
    <2> QED
        BY <2>1 DEF NoAddr
<1> HIDE DEF m, h
<1>5. k \in PeersOf(s) /\ h.addr[k] # NoAddr
    BY <1>1, <1>2, <1>4, AddressedPeer
<1> HIDE DEF k, f
<1>6. p \in PeerType
    BY <1>1, <1>5
<1>7. q \in PeerType /\ Outcome(p, f, q)
    BY <1>4, <1>6, OnFrameReadOutcome
<1>8. signal <=> Connects(p, f, q) \/ Confirming(p, f)
    BY DEF Connects, Confirming
<1>9. signal \in BOOLEAN
    OBVIOUS
<1> HIDE DEF q, signal
<1>10. signal \/ ~LinkUp(q) \/ (LinkUp(p) /\ q.window = p.window)
    BY <1>7, <1>8 DEF Outcome
<1>11. StationInv(s, g) /\ g.marker = h.marker /\ (OkSlots(s, h) => OkSlots(s, g))
    BY <1>1, <1>5, <1>7, <1>9, <1>10, PeerChange
<1> HIDE DEF g
<1>12. g \in StationType(PeersOf(s)) /\ mk \in BOOLEAN
    BY <1>1, <1>4, <1>11 DEF StationInv
<1>13. e = [g EXCEPT !.marker = mk]
    BY <1>12 DEF StationType
<1> HIDE DEF mk, e
<1>14. /\ e \in StationType(PeersOf(s)) /\ e.marker = mk /\ e.peers = g.peers /\ e.addr = g.addr
       /\ e.free_slots = g.free_slots
    BY <1>12, <1>13 DEF StationType
<1>15. SameSlots(s, g, e)
    BY <1>14 DEF SameSlots
<1>16. StationInv(s, e) /\ (OkSlots(s, g) => OkSlots(s, e))
    BY <1>11, <1>14, <1>15, SlotsUntouched
<1>17. station'[s] = e /\ \A t \in All : t # s => station'[t] = station[t]
    BY <1>2 DEF NrmInv
<1>18. OneMarker'
    <2>1. CASE m.pf
        <3>1. \A t \in All : ~Holds(t)
            BY <1>3, <2>1 DEF NrmInv, OneMarker
        <3>2. \A i \in DOMAIN bus' : ~bus'[i].pf
            BY <1>3, <2>1 DEF NrmInv, OneMarker
        <3>3. \A t \in All : Holds(t)' => t = s
            BY <1>2, <1>17, <3>1 DEF Holds, Live
        <3> QED
            BY <3>2, <3>3 DEF OneMarker, All
    <2>2. CASE ~m.pf
        <3>1. mk => h.marker
            BY <1>11, <2>2 DEF mk
        <3>2. \A t \in All : Holds(t)' => Holds(t)
            BY <1>2, <1>14, <1>17, <3>1 DEF Holds, Live, h
        <3> QED
            BY <1>3, <3>2 DEF NrmInv, OneMarker, All
    <2> QED
        BY <2>1, <2>2
<1>19. (s \notin cut' => OkSlots(s, e)) /\ cut \subseteq cut' /\ sent' \in [All -> [PeersOf(Primary) -> Nat]]
    BY <1>1, <1>2, <1>11, <1>16
<1> QED
    BY <1>2, <1>3, <1>16, <1>18, <1>19, OneStation

-----------------------------------------------------------------------------
(* Order of delivery.  Both directions of every connection keep Dir, where the *)
(* line is the frames on the bus that belong to the connection.                *)

Linked(s, t) == s # t /\ (s = Primary \/ t = Primary)

\* The secondary of the connection, and the index station s has for the other end.
Sec(s, t) == IF s = Primary THEN t ELSE s
Knows(s, h, t) == \E k \in PeersOf(s) : h.addr[k] = Field(Sec(s, t))
At(s, h, t) == CHOOSE k \in PeersOf(s) : h.addr[k] = Field(Sec(s, t))

\* A barrier for peer k waits in the service queue.
Waits(h, k) ==
  \E i \in 0 .. SuSize - 1 :
    /\ h.frames[i].type = "SU" /\ h.frames[i].address = h.addr[k]
    /\ Barrier(h.frames[i].data)

\* Peer k's record, with the part of the service queue Dir looks at.
Seen(h, k) == [h.peers[k] EXCEPT !.s_queue = IF Waits(h, k) THEN <<U("UA")>> ELSE <<>>]

View(s, h, t) == IF Knows(s, h, t) THEN Seen(h, At(s, h, t)) ELSE InitPeer
Count(s, h, n, t) == IF Knows(s, h, t) THEN n[At(s, h, t)] ELSE 0

\* The bus as a line from s to t: a frame of another connection is like a UI frame.
Shown(m, s, t) == IF m.from = s /\ m.field = Field(Sec(s, t)) THEN m.frame ELSE U("UI")
Way(b, s, t) == [i \in DOMAIN b |-> Shown(b[i], s, t)]

\* What holds of the record h of station s that sent n[k] packets to peer k.
StationOrder(s, h, n) ==
  /\ StationInv(s, h)
  /\ \A k \in PeersOf(s) : PeerOK(h.peers[k], n[k]) /\ h.peers[k].s_queue = <<>>
  /\ \A k \in PeersOf(s) : h.addr[k] = NoAddr => n[k] = 0
  /\ \A k \in PeersOf(s) : h.addr[k] # NoAddr =>
       \E t \in All : Linked(s, t) /\ h.addr[k] = Field(Sec(s, t))
  /\ \A j, k \in PeersOf(s) : h.addr[j] = h.addr[k] /\ h.addr[k] # NoAddr => j = k
  /\ \A i \in 0 .. SuSize - 1 : h.frames[i].type = "SU" => h.frames[i].data.type # "I"

Pair(st, b, sn, gt, c, s, t) ==
  Dir(View(s, st[s], t), Count(s, st[s], sn[s], t), Way(b, s, t), t,
      View(t, st[t], s), gt[s][t], c)

Order(st, b, sn, gt, c) ==
  /\ \A s \in All : StationOrder(s, st[s], sn[s])
  /\ b \in Seq(BusType)
  /\ \A i \in DOMAIN b : b[i].from # Primary => b[i].field = Field(b[i].from)
  /\ gt \in [All -> [All -> Seq(Nat)]]
  /\ \A s, t \in All : ~Linked(s, t) => gt[s][t] = <<>>
  /\ \A s, t \in All : Linked(s, t) => Pair(st, b, sn, gt, c, s, t)

OrderInv == Order(station, bus, sent, got, cut)

LEMMA Fields ==
  /\ Primary \in All
  /\ \A a, b \in All : Field(a) = Field(b) => a = b
  /\ \A a \in All : Field(a) \in 0 .. 254
<1>1. \A a \in All : a \in 0 .. 62
    BY NrmAssumption DEF All, Primary
<1>2. \A a \in 0 .. 62 : a * 4 + 1 \in 0 .. 254
    OBVIOUS
<1>3. \A n \in 0 .. 254 : n % 256 = n
    OBVIOUS
<1>4. \A a \in All : Field(a) = a * 4 + 1 /\ Field(a) \in 0 .. 254
    BY <1>1, <1>2, <1>3 DEF Field
<1>5. \A a, b \in 0 .. 62 : a * 4 + 1 = b * 4 + 1 => a = b
    OBVIOUS
<1>6. Primary \in All
    BY DEF All
<1> QED
    BY <1>1, <1>4, <1>5, <1>6

LEMMA Links ==
  ASSUME NEW s \in All, NEW t \in All, Linked(s, t)
  PROVE  /\ Linked(t, s) /\ Sec(t, s) = Sec(s, t) /\ Sec(s, t) \in All /\ Sec(s, t) # Primary
         /\ \A x \in All : Linked(s, x) /\ Sec(s, x) = Sec(s, t) => x = t
BY DEF Linked, Sec

\* Where station s keeps the record of t.
LEMMA AtFacts ==
  ASSUME NEW s, NEW h, NEW t, Knows(s, h, t)
  PROVE  At(s, h, t) \in PeersOf(s) /\ h.addr[At(s, h, t)] = Field(Sec(s, t))
BY DEF Knows, At

LEMMA AtOnly ==
  ASSUME NEW s \in All, NEW h, NEW n, StationOrder(s, h, n), NEW t \in All, Linked(s, t),
         NEW k \in PeersOf(s), h.addr[k] = Field(Sec(s, t))
  PROVE  Knows(s, h, t) /\ At(s, h, t) = k
<1>1. Knows(s, h, t)
    BY DEF Knows
<1>2. At(s, h, t) \in PeersOf(s) /\ h.addr[At(s, h, t)] = h.addr[k]
    BY <1>1, AtFacts
<1>3. h.addr[k] # NoAddr
    <2>1. Sec(s, t) \in All
        BY Links
    <2> QED
        BY <2>1, FieldFacts
<1> QED
    BY <1>1, <1>2, <1>3 DEF StationOrder

LEMMA SeenFacts ==
  ASSUME NEW h, NEW k, h.peers[k] \in PeerType
  PROVE  /\ Seen(h, k) \in PeerType /\ Seen(h, k).can_accept = h.peers[k].can_accept
         /\ Seen(h, k).window = h.peers[k].window /\ Seen(h, k).state = h.peers[k].state
         /\ Seen(h, k).last_ns = h.peers[k].last_ns /\ Seen(h, k).next_nr = h.peers[k].next_nr
         /\ Seen(h, k).confirm_ns = h.peers[k].confirm_ns /\ Seen(h, k).next_ns = h.peers[k].next_ns
         /\ (ClearFrom(Seen(h, k).s_queue, 0) <=> ~Waits(h, k))
         /\ (Seen(h, k).s_queue = <<>> <=> ~Waits(h, k))
<1> DEFINE p == h.peers[k]
           v == IF Waits(h, k) THEN <<U("UA")>> ELSE <<>>
           q == [p EXCEPT !.s_queue = v]
<1>1. p \in PeerType
    OBVIOUS
<1>2. U("UA") \in Frames /\ U("UA").type = "UA"
    BY FrameTypesOf DEF UTypes
<1>3. <<U("UA")>> \in Seq(Frames) /\ <<>> \in Seq(Frames)
    BY <1>2
<1>4. v \in Seq(Frames) /\ (\A i \in DOMAIN v : v[i].type # "I") /\ (v = <<>> <=> ~Waits(h, k))
      /\ (ClearFrom(v, 0) <=> ~Waits(h, k))
    <2>1. CASE Waits(h, k)
        <3>1. v = <<U("UA")>>
            BY <2>1
        <3>2. 1 \in DOMAIN v /\ v[1] = U("UA") /\ (\A i \in DOMAIN v : i = 1) /\ v # <<>>
            BY <3>1
        <3> HIDE DEF v
        <3>3. ~ClearFrom(v, 0)
            BY <1>2, <3>2 DEF ClearFrom, Barrier
        <3>4. v \in Seq(Frames)
            BY <1>3, <3>1
        <3> QED
            BY <1>2, <2>1, <3>2, <3>3, <3>4
    <2>2. CASE ~Waits(h, k)
        <3>1. v = <<>>
            BY <2>2
        <3> HIDE DEF v
        <3> QED
            BY <1>3, <2>2, <3>1 DEF ClearFrom
    <2> QED
        BY <2>1, <2>2
<1>5. Seen(h, k) = q
    BY DEF Seen
<1> HIDE DEF v
<1>6. /\ q \in PeerType /\ q.s_queue = v
      /\ q.window = p.window /\ q.state = p.state /\ q.last_ns = p.last_ns /\ q.next_nr = p.next_nr
      /\ q.confirm_ns = p.confirm_ns /\ q.next_ns = p.next_ns /\ q.can_accept = p.can_accept
    BY <1>1, <1>4 DEF PeerType
<1> QED
    BY <1>4, <1>5, <1>6

LEMMA SeenOK ==
  ASSUME NEW h, NEW k, NEW n, PeerOK(h.peers[k], n)
  PROVE  PeerOK(Seen(h, k), n) /\ Seen(h, k) \in PeerType /\ h.peers[k] \in PeerType
<1> DEFINE p == h.peers[k]
           q == Seen(h, k)
<1>1. p \in PeerType
    BY DEF PeerOK
<1>2. /\ q \in PeerType /\ q.can_accept = p.can_accept
      /\ q.window = p.window /\ q.state = p.state /\ q.last_ns = p.last_ns
      /\ q.confirm_ns = p.confirm_ns
    BY <1>1, SeenFacts
<1>3. \A i \in DOMAIN q.s_queue : q.s_queue[i].type # "I"
    <2>1. q.s_queue = IF Waits(h, k) THEN <<U("UA")>> ELSE <<>>
        BY <1>1 DEF Seen, PeerType
    <2>2. U("UA").type = "UA"
        BY FrameTypesOf DEF UTypes
    <2> QED
        BY <2>1, <2>2
<1> HIDE DEF q
<1>4. PeerOK(p, n)
    OBVIOUS
<1> HIDE DEF p
<1>5. PeerOK(q, n)
    BY <1>2, <1>3, <1>4 DEF PeerOK, LinkUp
<1> QED
    BY <1>1, <1>2, <1>5 DEF p, q

LEMMA Typed ==
  ASSUME NEW p, NEW n, PeerOK(p, n)
  PROVE  p \in PeerType
BY DEF PeerOK

LEMMA ViewFacts ==
  ASSUME NEW s, NEW h, NEW n, StationOrder(s, h, n), NEW t
  PROVE  /\ PeerOK(View(s, h, t), Count(s, h, n, t)) /\ View(s, h, t) \in PeerType
         /\ Count(s, h, n, t) \in Nat
<1>1. CASE Knows(s, h, t)
    <2>1. At(s, h, t) \in PeersOf(s)
        BY <1>1, AtFacts
    <2>2. PeerOK(h.peers[At(s, h, t)], n[At(s, h, t)])
        BY <2>1 DEF StationOrder
    <2>3. PeerOK(Seen(h, At(s, h, t)), n[At(s, h, t)])
        BY <2>2, SeenOK
    <2>4. PeerOK(View(s, h, t), Count(s, h, n, t))
        BY <1>1, <2>3 DEF View, Count
    <2> QED
        BY <2>4 DEF PeerOK
<1>2. CASE ~Knows(s, h, t)
    BY <1>2, InitPeerOK DEF View, Count
<1> QED
    BY <1>1, <1>2

\* A step of station s from record h to g that moves no frame: the sender's side.
Calm(s, h, g) == /\ g.addr = h.addr
                 /\ \A k \in PeersOf(s) : SenderStep(Seen(h, k), Seen(g, k))
\* The receiver's side.
Steady(s, h, g) ==
  \A k \in PeersOf(s) :
    LinkUp(g.peers[k]) => LinkUp(h.peers[k]) /\ g.peers[k].next_nr = h.peers[k].next_nr
SteadyBut(s, i, h, g) ==
  \A k \in PeersOf(s) \ {i} :
    LinkUp(g.peers[k]) => LinkUp(h.peers[k]) /\ g.peers[k].next_nr = h.peers[k].next_nr

LEMMA StepFromInit == SenderStep(InitPeer, InitPeer)
BY DEF SenderStep, InitPeer

LEMMA CalmView ==
  ASSUME NEW s, NEW h, NEW g, NEW n, Calm(s, h, g), NEW t
  PROVE  SenderStep(View(s, h, t), View(s, g, t)) /\ Count(s, g, n, t) = Count(s, h, n, t)
<1>1. (Knows(s, g, t) <=> Knows(s, h, t)) /\ At(s, g, t) = At(s, h, t)
    BY DEF Calm, Knows, At
<1>2. Knows(s, h, t) => SenderStep(Seen(h, At(s, h, t)), Seen(g, At(s, h, t)))
    BY AtFacts DEF Calm
<1> QED
    BY <1>1, <1>2, StepFromInit DEF View, Count

LEMMA SteadyView ==
  ASSUME NEW s, NEW h, NEW g, NEW n, NEW m, StationOrder(s, h, n), StationOrder(s, g, m),
         g.addr = h.addr, Steady(s, h, g), NEW t
  PROVE  LinkUp(View(s, g, t)) =>
           LinkUp(View(s, h, t)) /\ View(s, g, t).next_nr = View(s, h, t).next_nr
<1>1. (Knows(s, g, t) <=> Knows(s, h, t)) /\ At(s, g, t) = At(s, h, t)
    BY DEF Knows, At
<1>2. CASE Knows(s, h, t)
    <2> DEFINE k == At(s, h, t)
    <2>1. k \in PeersOf(s)
        BY <1>2, AtFacts
    <2>2. PeerOK(h.peers[k], n[k]) /\ PeerOK(g.peers[k], m[k])
        BY <2>1 DEF StationOrder
    <2>3. /\ Seen(h, k).state = h.peers[k].state /\ Seen(h, k).next_nr = h.peers[k].next_nr
          /\ Seen(g, k).state = g.peers[k].state /\ Seen(g, k).next_nr = g.peers[k].next_nr
        BY <2>2, SeenFacts, Typed
    <2>4. View(s, h, t) = Seen(h, k) /\ View(s, g, t) = Seen(g, k)
        BY <1>1, <1>2 DEF View
    <2> HIDE DEF k
    <2> QED
        BY <2>1, <2>3, <2>4 DEF Steady, LinkUp
<1>3. CASE ~Knows(s, h, t)
    BY <1>1, <1>3 DEF View
<1> QED
    BY <1>2, <1>3

LEMMA ShownFacts ==
  ASSUME NEW m \in BusType, NEW s, NEW t
  PROVE  Shown(m, s, t) \in Frames
<1>1. U("UI") \in Frames
    BY FrameTypesOf DEF UTypes
<1>2. m.frame \in Frames
    BY DEF BusType
<1> QED
    BY <1>1, <1>2 DEF Shown

LEMMA WayFacts ==
  ASSUME NEW b \in Seq(BusType), NEW s, NEW t
  PROVE  /\ Way(b, s, t) \in Seq(Frames)
         /\ \A m \in BusType : Way(Append(b, m), s, t) = Append(Way(b, s, t), Shown(m, s, t))
         /\ b # <<>> => /\ Way(b, s, t) # <<>> /\ Way(Tail(b), s, t) = Tail(Way(b, s, t))
                        /\ Head(Way(b, s, t)) = Shown(Head(b), s, t)
                        /\ Head(b) \in BusType /\ Tail(b) \in Seq(BusType)
<1> DEFINE w == Way(b, s, t)
<1>1. Len(b) \in Nat /\ DOMAIN b = 1 .. Len(b)
    BY LenProperties
<1>2. \A i \in 1 .. Len(b) : b[i] \in BusType
    BY <1>1
<1>3. w = [i \in 1 .. Len(b) |-> Shown(b[i], s, t)]
    BY <1>1 DEF Way
<1> HIDE DEF w
<1>4. w \in Seq(Frames) /\ Len(w) = Len(b)
    <2>1. \A i \in 1 .. Len(b) : Shown(b[i], s, t) \in Frames
        BY <1>2, ShownFacts
    <2>2. w \in [1 .. Len(b) -> Frames]
        BY <1>3, <2>1
    <2> QED
        BY <1>1, <2>2, <1>3, SeqDef, LenProperties
<1>5. ASSUME NEW m \in BusType
      PROVE  Way(Append(b, m), s, t) = Append(w, Shown(m, s, t))
    <2> DEFINE x == Append(b, m)
               y == Append(w, Shown(m, s, t))
    <2>1. /\ x \in Seq(BusType) /\ Len(x) = Len(b) + 1 /\ DOMAIN x = 1 .. Len(b) + 1
          /\ \A i \in 1 .. Len(b) : x[i] = b[i]
          /\ x[Len(b) + 1] = m
        BY AppendProperties
    <2>2. Shown(m, s, t) \in Frames
        BY ShownFacts
    <2>3. /\ y \in Seq(Frames) /\ Len(y) = Len(b) + 1
          /\ \A i \in 1 .. Len(b) : y[i] = w[i]
          /\ y[Len(b) + 1] = Shown(m, s, t)
        BY <1>4, <2>2, AppendProperties
    <2>4. DOMAIN y = 1 .. Len(b) + 1
        BY <2>3, LenProperties
    <2> HIDE DEF x, y
    <2>5. Way(x, s, t) = [i \in 1 .. Len(b) + 1 |-> Shown(x[i], s, t)]
        BY <2>1 DEF Way
    <2>6. \A i \in 1 .. Len(b) + 1 : y[i] = Shown(x[i], s, t)
        <3> SUFFICES ASSUME NEW i \in 1 .. Len(b) + 1
                     PROVE  y[i] = Shown(x[i], s, t)
            OBVIOUS
        <3>1. CASE i \in 1 .. Len(b)
            BY <1>3, <2>1, <2>3, <3>1
        <3>2. CASE i = Len(b) + 1
            BY <2>1, <2>3, <3>2
        <3> QED
            BY <1>1, <3>1, <3>2
    <2>7. y = [i \in 1 .. Len(b) + 1 |-> y[i]]
        BY <2>3, <2>4
    <2>8. y = Way(x, s, t)
        BY <2>5, <2>6, <2>7
    <2> QED
        BY <2>8 DEF x, y
<1>6. ASSUME b # <<>>
      PROVE  /\ w # <<>> /\ Way(Tail(b), s, t) = Tail(w) /\ Head(w) = Shown(Head(b), s, t)
             /\ Head(b) \in BusType /\ Tail(b) \in Seq(BusType)
    <2>1. Len(b) # 0
        BY <1>6, EmptySeq
    <2>2. w # <<>>
        BY <1>4, <2>1, EmptySeq
    <2>3. /\ Head(b) \in BusType /\ Tail(b) \in Seq(BusType) /\ Len(Tail(b)) = Len(b) - 1
          /\ \A i \in 1 .. Len(Tail(b)) : Tail(b)[i] = b[i + 1]
          /\ Head(b) = b[1]
        BY <1>6, HeadTailProperties
    <2>4. /\ Tail(w) \in Seq(Frames) /\ Len(Tail(w)) = Len(b) - 1
          /\ \A i \in 1 .. Len(Tail(w)) : Tail(w)[i] = w[i + 1]
          /\ Head(w) = w[1]
        BY <1>4, <2>2, HeadTailProperties
    <2>5. Head(w) = Shown(Head(b), s, t)
        BY <1>1, <1>3, <2>1, <2>3, <2>4
    <2>6. DOMAIN Tail(b) = 1 .. Len(b) - 1 /\ DOMAIN Tail(w) = 1 .. Len(b) - 1
        BY <2>3, <2>4, LenProperties
    <2>7. Way(Tail(b), s, t) = [i \in 1 .. Len(b) - 1 |-> Shown(Tail(b)[i], s, t)]
        BY <2>6 DEF Way
    <2>8. \A i \in 1 .. Len(b) - 1 : Tail(w)[i] = Shown(Tail(b)[i], s, t)
        BY <1>1, <1>3, <2>3, <2>4
    <2>9. /\ Way(Tail(b), s, t) \in Seq(Frames) /\ Len(Way(Tail(b), s, t)) = Len(b) - 1
          /\ \A i \in 1 .. Len(b) - 1 : Way(Tail(b), s, t)[i] = Shown(Tail(b)[i], s, t)
        <3>1. \A i \in 1 .. Len(b) - 1 : Shown(Tail(b)[i], s, t) \in Frames
            BY <2>4, <2>8, ElementOfSeq
        <3>2. Len(b) - 1 \in Nat
            BY <2>3, LenProperties
        <3> QED
            BY <2>7, <3>1, <3>2
    <2>10. Tail(w) = Way(Tail(b), s, t)
        BY <2>4, <2>8, <2>9, SeqEqual
    <2> QED
        BY <2>2, <2>3, <2>5, <2>10
<1> QED
    BY <1>4, <1>5, <1>6 DEF w

\* What Dir is about, for one connection.
LEMMA PairFacts ==
  ASSUME NEW st, NEW b, NEW sn, NEW gt, NEW c, Order(st, b, sn, gt, c),
         NEW s \in All, NEW t \in All, Linked(s, t)
  PROVE  /\ Pair(st, b, sn, gt, c, s, t)
         /\ PeerOK(View(s, st[s], t), Count(s, st[s], sn[s], t))
         /\ Count(s, st[s], sn[s], t) \in Nat
         /\ View(s, st[s], t) \in PeerType /\ View(t, st[t], s) \in PeerType
         /\ Way(b, s, t) \in Seq(Frames) /\ gt[s][t] \in Seq(Nat)
<1>1. /\ StationOrder(s, st[s], sn[s]) /\ StationOrder(t, st[t], sn[t]) /\ b \in Seq(BusType)
      /\ Pair(st, b, sn, gt, c, s, t) /\ gt[s][t] \in Seq(Nat)
    BY DEF Order
<1> QED
    BY <1>1, ViewFacts, WayFacts

\* The record of station s becomes g.
Replaced(st, s, g, new) == new[s] = g /\ \A x \in All : x # s => new[x] = st[x]

LEMMA Unmoved ==
  ASSUME NEW s, NEW h, NEW n, StationOrder(s, h, n)
  PROVE  Calm(s, h, h) /\ Steady(s, h, h)
<1>1. ASSUME NEW k \in PeersOf(s)
      PROVE  SenderStep(Seen(h, k), Seen(h, k))
    <2>1. PeerOK(h.peers[k], n[k])
        BY DEF StationOrder
    <2>2. Seen(h, k) \in PeerType
        BY <2>1, SeenFacts, Typed
    <2>3. Len(Seen(h, k).window) \in Nat
        BY <2>2 DEF PeerType
    <2> QED
        BY <2>3 DEF SenderStep
<1> QED
    BY <1>1 DEF Calm, Steady

\* One connection, while no frame moves.
LEMMA PairMoves ==
  ASSUME NEW st, NEW b, NEW sn, NEW gt, NEW c, Order(st, b, sn, gt, c),
         NEW new, NEW x \in All, NEW y \in All, Linked(x, y), NEW l \in Seq(Frames), NEW d,
         Dir(View(x, st[x], y), Count(x, st[x], sn[x], y), l, y, View(y, st[y], x), gt[x][y], c),
         StationOrder(x, new[x], sn[x]), Calm(x, st[x], new[x]),
         y \notin d => y \notin c /\ (LinkUp(View(y, new[y], x)) =>
                                       /\ LinkUp(View(y, st[y], x))
                                       /\ View(y, new[y], x).next_nr = View(y, st[y], x).next_nr)
  PROVE  Dir(View(x, new[x], y), Count(x, new[x], sn[x], y), l, y, View(y, new[y], x), gt[x][y], d)
<1>1. /\ SenderStep(View(x, st[x], y), View(x, new[x], y))
      /\ Count(x, new[x], sn[x], y) = Count(x, st[x], sn[x], y)
    BY CalmView
<1>2. PeerOK(View(x, new[x], y), Count(x, st[x], sn[x], y))
    BY <1>1, ViewFacts
<1>3. Count(x, st[x], sn[x], y) \in Nat /\ gt[x][y] \in Seq(Nat)
    BY PairFacts
<1> QED
    BY <1>1, <1>2, <1>3, BothMove

\* The record of one station changes and no frame moves.
LEMMA CalmOrder ==
  ASSUME NEW st, NEW b, NEW sn, NEW gt, NEW c, Order(st, b, sn, gt, c), NEW d, c \subseteq d,
         NEW s \in All, NEW g, NEW new, Replaced(st, s, g, new),
         StationOrder(s, g, sn[s]), Calm(s, st[s], g), s \notin d => Steady(s, st[s], g)
  PROVE  Order(new, b, sn, gt, d)
<1>1. ASSUME NEW x \in All
      PROVE  /\ StationOrder(x, st[x], sn[x]) /\ StationOrder(x, new[x], sn[x])
             /\ Calm(x, st[x], new[x]) /\ (x \notin d => Steady(x, st[x], new[x]))
    <2>1. StationOrder(x, st[x], sn[x])
        BY DEF Order
    <2> QED
        BY <2>1, Unmoved DEF Replaced
<1>2. ASSUME NEW x \in All, NEW y \in All, Linked(x, y)
      PROVE  Pair(new, b, sn, gt, d, x, y)
    <2>1. y \notin d => (LinkUp(View(y, new[y], x)) =>
                           /\ LinkUp(View(y, st[y], x))
                           /\ View(y, new[y], x).next_nr = View(y, st[y], x).next_nr)
        BY <1>1, SteadyView DEF Calm
    <2>2. Pair(st, b, sn, gt, c, x, y) /\ Way(b, x, y) \in Seq(Frames)
        BY <1>2, PairFacts
    <2> QED
        BY <1>1, <1>2, <2>1, <2>2, PairMoves DEF Pair
<1> QED
    BY <1>1, <1>2 DEF Order

\* The first frame leaves the bus: what every connection loses of its line.
LEMMA TailPair ==
  ASSUME NEW st, NEW b, NEW sn, NEW gt, NEW c, Order(st, b, sn, gt, c), b # <<>>,
         NEW x \in All, NEW y \in All, Linked(x, y)
  PROVE  /\ Way(Tail(b), x, y) \in Seq(Frames) /\ Way(b, x, y) # <<>>
         /\ Way(Tail(b), x, y) = Tail(Way(b, x, y)) /\ Head(Way(b, x, y)) = Shown(Head(b), x, y)
         /\ Dir(View(x, st[x], y), Count(x, st[x], sn[x], y), Way(Tail(b), x, y), y,
                View(y, st[y], x), gt[x][y], c)
<1>1. b \in Seq(BusType)
    BY DEF Order
<1>2. /\ Tail(b) \in Seq(BusType) /\ Way(b, x, y) # <<>>
      /\ Way(Tail(b), x, y) = Tail(Way(b, x, y)) /\ Head(Way(b, x, y)) = Shown(Head(b), x, y)
    BY <1>1, WayFacts
<1>3. Way(Tail(b), x, y) \in Seq(Frames) /\ Way(b, x, y) \in Seq(Frames)
    BY <1>1, <1>2, WayFacts
<1>4. Dir(View(x, st[x], y), Count(x, st[x], sn[x], y), Way(b, x, y), y, View(y, st[y], x), gt[x][y], c)
    BY PairFacts DEF Pair
<1> QED
    BY <1>2, <1>3, <1>4, Drop

LEMMA TailFrames ==
  ASSUME NEW st, NEW b, NEW sn, NEW gt, NEW c, Order(st, b, sn, gt, c), b # <<>>
  PROVE  /\ Head(b) \in BusType /\ Tail(b) \in Seq(BusType)
         /\ Head(b).from # Primary => Head(b).field = Field(Head(b).from)
         /\ \A i \in DOMAIN Tail(b) : Tail(b)[i].from # Primary => Tail(b)[i].field = Field(Tail(b)[i].from)
<1>1. b \in Seq(BusType) /\ Len(b) \in Nat /\ DOMAIN b = 1 .. Len(b) /\ Len(b) # 0
    BY LenProperties, EmptySeq DEF Order
<1>2. /\ Head(b) \in BusType /\ Tail(b) \in Seq(BusType) /\ Len(Tail(b)) = Len(b) - 1
      /\ \A i \in 1 .. Len(Tail(b)) : Tail(b)[i] = b[i + 1]
      /\ Head(b) = b[1]
    BY <1>1, HeadTailProperties
<1>3. \A i \in DOMAIN Tail(b) : i + 1 \in DOMAIN b /\ Tail(b)[i] = b[i + 1]
    BY <1>1, <1>2, LenProperties
<1>4. 1 \in DOMAIN b
    BY <1>1
<1> QED
    BY <1>2, <1>3, <1>4 DEF Order

LEMMA LoseOrder ==
  ASSUME NEW st, NEW b, NEW sn, NEW gt, NEW c, Order(st, b, sn, gt, c), b # <<>>
  PROVE  Order(st, Tail(b), sn, gt, c)
<1>1. \A x, y \in All : Linked(x, y) => Pair(st, Tail(b), sn, gt, c, x, y)
    BY TailPair DEF Pair
<1> QED
    BY <1>1, TailFrames DEF Order

\* Only the record for x changes as a receiver's.
LEMMA OtherSteady ==
  ASSUME NEW s \in All, NEW h, NEW g, NEW n, NEW m, StationOrder(s, h, n), StationOrder(s, g, m),
         g.addr = h.addr, NEW x \in All, Linked(x, s), Knows(s, h, x),
         SteadyBut(s, At(s, h, x), h, g), NEW y \in All, Linked(y, s), y # x
  PROVE  LinkUp(View(s, g, y)) =>
           LinkUp(View(s, h, y)) /\ View(s, g, y).next_nr = View(s, h, y).next_nr
<1> DEFINE k == At(s, h, y)
<1>1. (Knows(s, g, y) <=> Knows(s, h, y)) /\ At(s, g, y) = k
    BY DEF Knows, At
<1>2. CASE Knows(s, h, y)
    <2>1. k \in PeersOf(s) /\ h.addr[k] = Field(Sec(s, y)) /\ h.addr[At(s, h, x)] = Field(Sec(s, x))
        BY <1>2, AtFacts
    <2>2. Linked(s, x) /\ Linked(s, y)
        BY Links
    <2>3. Sec(s, x) \in All /\ Sec(s, y) \in All /\ Sec(s, x) # Sec(s, y)
        BY <2>2, Links
    <2>4. k # At(s, h, x)
        BY <2>1, <2>3, Fields
    <2>5. PeerOK(h.peers[k], n[k]) /\ PeerOK(g.peers[k], m[k])
        BY <2>1 DEF StationOrder
    <2>6. /\ Seen(h, k).state = h.peers[k].state /\ Seen(h, k).next_nr = h.peers[k].next_nr
          /\ Seen(g, k).state = g.peers[k].state /\ Seen(g, k).next_nr = g.peers[k].next_nr
        BY <2>5, SeenFacts, Typed
    <2>7. View(s, h, y) = Seen(h, k) /\ View(s, g, y) = Seen(g, k)
        BY <1>1, <1>2 DEF View
    <2> HIDE DEF k
    <2> QED
        BY <2>1, <2>4, <2>6, <2>7 DEF LinkUp, SteadyBut
<1>3. CASE ~Knows(s, h, y)
    BY <1>1, <1>3 DEF View
<1> QED
    BY <1>2, <1>3

\* Station s takes the first frame of the bus, which x sent, its record becomes g.
\* The receiver's record r becomes w; its application may take the frame's packet.
Takes(r, w, f) == LinkUp(w) /\ ~Barrier(f) => LinkUp(r) /\ w.next_nr = NextNr(r, f)
Taken(gt, gt2, x, s, r, f) ==
  /\ gt2 \in [All -> [All -> Seq(Nat)]]
  /\ gt2[x][s] = IF LinkUp(r) /\ f.type = "I" /\ f.ns = r.next_nr
                   THEN Append(gt[x][s], f.data) ELSE gt[x][s]
  /\ \A y, z \in All : ~(y = x /\ z = s) => gt2[y][z] = gt[y][z]
Sent(m, x, s, f) == m.from = x /\ m.field = Field(Sec(x, s)) /\ m.frame = f

LEMMA TakeOrder ==
  ASSUME NEW st, NEW b, NEW sn, NEW gt, NEW c, Order(st, b, sn, gt, c), b # <<>>,
         NEW s \in All, NEW h, h = st[s], NEW n, n = sn[s], NEW x \in All, Linked(x, s), Knows(s, h, x),
         NEW f, Sent(Head(b), x, s, f), NEW g, NEW new, Replaced(st, s, g, new),
         StationOrder(s, g, n), Calm(s, h, g), SteadyBut(s, At(s, h, x), h, g),
         Takes(View(s, h, x), View(s, g, x), f), NEW gt2, Taken(gt, gt2, x, s, View(s, h, x), f)
  PROVE  Order(new, Tail(b), sn, gt2, c)
<1> DEFINE r == View(s, h, x)
           w == View(s, g, x)
<1>0. /\ Head(b).from = x /\ Head(b).field = Field(Sec(x, s)) /\ f = Head(b).frame
      /\ Knows(s, st[s], x) /\ StationOrder(s, g, sn[s]) /\ Calm(s, st[s], g)
      /\ SteadyBut(s, At(s, st[s], x), st[s], g) /\ r = View(s, st[s], x) /\ w = View(s, g, x)
    BY DEF Sent
<1>6. /\ LinkUp(w) /\ ~Barrier(f) => LinkUp(r) /\ w.next_nr = NextNr(r, f)
    BY DEF Takes
<1>7. /\ gt2 \in [All -> [All -> Seq(Nat)]]
      /\ gt2[x][s] = IF LinkUp(r) /\ f.type = "I" /\ f.ns = r.next_nr
                       THEN Append(gt[x][s], f.data) ELSE gt[x][s]
      /\ \A y, z \in All : ~(y = x /\ z = s) => gt2[y][z] = gt[y][z]
    BY DEF Taken
<1>8. ASSUME NEW y \in All, Linked(y, s), y # x
      PROVE  LinkUp(View(s, g, y)) =>
               LinkUp(View(s, h, y)) /\ View(s, g, y).next_nr = View(s, h, y).next_nr
    <2>1. StationOrder(s, h, n) /\ g.addr = h.addr
        BY DEF Order, Calm
    <2> QED
        BY <1>8, <2>1, OtherSteady
<1> HIDE DEF r, w
<1> USE <1>0, <1>6, <1>7
<1>1. ASSUME NEW y \in All
      PROVE  StationOrder(y, st[y], sn[y]) /\ StationOrder(y, new[y], sn[y]) /\ Calm(y, st[y], new[y])
    <2>1. StationOrder(y, st[y], sn[y])
        BY DEF Order
    <2> QED
        BY <2>1, Unmoved DEF Replaced
<1>2. Pair(new, Tail(b), sn, gt2, c, x, s)
    <2> DEFINE p == View(x, st[x], s)
               ct == Count(x, st[x], sn[x], s)
               l == Way(b, x, s)
    <2>1. /\ Dir(p, ct, l, s, r, gt[x][s], c) /\ ct \in Nat /\ l \in Seq(Frames)
          /\ r \in PeerType /\ gt[x][s] \in Seq(Nat)
        BY PairFacts DEF Pair
    <2>2. /\ l # <<>> /\ Way(Tail(b), x, s) = Tail(l) /\ Head(l) = f
          /\ Dir(p, ct, Tail(l), s, r, gt[x][s], c)
        <3> HIDE DEF p, ct
        <3>1. Shown(Head(b), x, s) = f
            BY DEF Shown
        <3>2. /\ Way(Tail(b), x, s) \in Seq(Frames) /\ Way(b, x, s) # <<>>
              /\ Way(Tail(b), x, s) = Tail(Way(b, x, s)) /\ Head(Way(b, x, s)) = Shown(Head(b), x, s)
              /\ Dir(View(x, st[x], s), Count(x, st[x], sn[x], s), Way(Tail(b), x, s), s,
                     View(s, st[s], x), gt[x][s], c)
            BY TailPair
        <3> QED
            BY <3>1, <3>2 DEF p, ct
    <2>3. new[x] = st[x] /\ new[s] = g
        BY DEF Replaced, Linked
    <2> HIDE DEF p, ct, l
    <2>4. Dir(p, ct, Tail(l), s, w, gt2[x][s], c)
        <3>1. CASE Barrier(f)
            <4>1. gt2[x][s] = gt[x][s]
                BY <3>1 DEF Barrier
            <4> QED
                BY <2>1, <2>2, <3>1, <4>1, DropBarrier
        <3>2. CASE ~Barrier(f) /\ LinkUp(r) /\ f.type = "I" /\ f.ns = r.next_nr
            <4>1. LinkUp(w) => w.next_nr = SeqNext(r.next_nr)
                BY <3>2 DEF NextNr
            <4>2. gt2[x][s] = Append(gt[x][s], f.data)
                BY <3>2
            <4>3. Head(l).type = "I" /\ Head(l).ns = r.next_nr /\ LinkUp(r)
                BY <2>2, <3>2
            <4>4. Dir(p, ct, Tail(l), s, w, Append(gt[x][s], Head(l).data), c)
                BY <2>1, <2>2, <4>1, <4>3, Deliver
            <4> QED
                BY <2>2, <4>2, <4>4
        <3>3. CASE ~Barrier(f) /\ ~(LinkUp(r) /\ f.type = "I" /\ f.ns = r.next_nr)
            <4>1. LinkUp(w) => LinkUp(r) /\ w.next_nr = r.next_nr
                BY <3>3 DEF NextNr
            <4>2. gt2[x][s] = gt[x][s]
                BY <3>3
            <4> QED
                BY <2>2, <4>1, <4>2, ReceiverMoves
        <3> QED
            BY <3>1, <3>2, <3>3
    <2> QED
        BY <2>2, <2>3, <2>4 DEF Pair, p, ct
<1>3. ASSUME NEW y \in All, NEW z \in All, Linked(y, z), ~(y = x /\ z = s)
      PROVE  Pair(new, Tail(b), sn, gt2, c, y, z)
    <2>1. LinkUp(View(z, new[z], y)) =>
            LinkUp(View(z, st[z], y)) /\ View(z, new[z], y).next_nr = View(z, st[z], y).next_nr
        <3>1. CASE z # s
            BY <3>1 DEF Replaced
        <3>2. CASE z = s
            <4>1. Linked(y, s) /\ y # x /\ new[z] = g /\ st[z] = h
                BY <1>3, <3>2 DEF Replaced
            <4> QED
                BY <1>8, <3>2, <4>1
        <3> QED
            BY <3>1, <3>2
    <2>2. /\ Way(Tail(b), y, z) \in Seq(Frames)
          /\ Dir(View(y, st[y], z), Count(y, st[y], sn[y], z), Way(Tail(b), y, z), z,
                 View(z, st[z], y), gt[y][z], c)
        BY <1>3, TailPair
    <2>3. gt2[y][z] = gt[y][z]
        BY <1>3
    <2>4. Dir(View(y, new[y], z), Count(y, new[y], sn[y], z), Way(Tail(b), y, z), z,
              View(z, new[z], y), gt[y][z], c)
        BY <1>1, <1>3, <2>1, <2>2, PairMoves
    <2> QED
        BY <2>3, <2>4 DEF Pair
<1>4. \A y, z \in All : Linked(y, z) => Pair(new, Tail(b), sn, gt2, c, y, z)
    BY <1>2, <1>3
<1>5. ASSUME NEW y \in All, NEW z \in All, ~Linked(y, z)
      PROVE  gt2[y][z] = <<>>
    <2>1. ~(y = x /\ z = s)
        BY <1>5
    <2>2. gt2[y][z] = gt[y][z]
        BY <2>1
    <2>3. gt[y][z] = <<>>
        BY <1>5 DEF Order
    <2> QED
        BY <2>2, <2>3
<1> QED
    BY <1>1, <1>4, <1>5, TailFrames DEF Order

\* The record p of a sender becomes q when frame f is transmitted.
Transmits(p, q, f) ==
  /\ q.window = p.window /\ q.last_ns = p.last_ns
  /\ \/ /\ f.type # "I"
        /\ Len(p.window) = 0 \/ (ClearFrom(p.s_queue, 0) => ClearFrom(q.s_queue, 0) /\ ~Barrier(f))
     \/ /\ f.type = "I" /\ p.s_queue = <<>> /\ q.s_queue = <<>> /\ HasIFrame(p)
        /\ f.ns = p.next_ns /\ f.data = p.window[NextOffset(p) + 1]

\* Station s puts frame m for its peer k on the bus, and its record becomes g.
LEMMA PutOrder ==
  ASSUME NEW st, NEW b, NEW sn, NEW gt, NEW c, Order(st, b, sn, gt, c),
         NEW s \in All, NEW k \in PeersOf(s), st[s].addr[k] # NoAddr,
         NEW m \in BusType, m.from = s, m.field = st[s].addr[k],
         NEW g, NEW new, Replaced(st, s, g, new), StationOrder(s, g, sn[s]),
         g.addr = st[s].addr, Steady(s, st[s], g),
         \A j \in PeersOf(s) \ {k} : SenderStep(Seen(st[s], j), Seen(g, j)),
         Transmits(Seen(st[s], k), Seen(g, k), m.frame)
  PROVE  Order(new, Append(b, m), sn, gt, c)
<1>1. ASSUME NEW x \in All
      PROVE  /\ StationOrder(x, st[x], sn[x]) /\ StationOrder(x, new[x], sn[x])
             /\ new[x].addr = st[x].addr /\ Steady(x, st[x], new[x])
             /\ x # s => Calm(x, st[x], new[x])
    <2>1. StationOrder(x, st[x], sn[x])
        BY DEF Order
    <2> QED
        BY <2>1, Unmoved DEF Replaced
<1>2. ASSUME NEW x \in All, NEW y \in All, Linked(x, y)
      PROVE  Pair(new, Append(b, m), sn, gt, c, x, y)
    <2> DEFINE p == View(x, st[x], y)
               q == View(x, new[x], y)
               n == Count(x, st[x], sn[x], y)
               l == Way(b, x, y)
               f == Shown(m, x, y)
               r == View(y, st[y], x)
    <2>1. /\ Dir(p, n, l, y, r, gt[x][y], c) /\ n \in Nat /\ l \in Seq(Frames)
          /\ p \in PeerType /\ r \in PeerType /\ gt[x][y] \in Seq(Nat)
        BY <1>2, PairFacts DEF Pair
    <2>2. (Knows(x, new[x], y) <=> Knows(x, st[x], y)) /\ At(x, new[x], y) = At(x, st[x], y)
        BY <1>1 DEF Knows, At
    <2>3. Count(x, new[x], sn[x], y) = n
        BY <2>2 DEF Count
    <2>4. PeerOK(q, n) /\ q \in PeerType
        BY <1>1, <2>3, ViewFacts
    <2>5. f \in Frames /\ Way(Append(b, m), x, y) = Append(l, f)
        <3>1. b \in Seq(BusType)
            BY DEF Order
        <3> QED
            BY <3>1, ShownFacts, WayFacts
    <2>6. Dir(q, n, Append(l, f), y, r, gt[x][y], c)
        <3>1. CASE x = s /\ m.field = Field(Sec(x, y))
            <4>1. Knows(s, st[s], y) /\ At(s, st[s], y) = k
                <5>1. /\ StationOrder(s, st[s], sn[s]) /\ Linked(s, y)
                      /\ st[s].addr[k] = Field(Sec(s, y))
                    BY <1>1, <1>2, <3>1
                <5> QED
                    BY <5>1, AtOnly
            <4>2. p = Seen(st[s], k) /\ q = Seen(g, k) /\ f = m.frame
                BY <2>2, <3>1, <4>1 DEF View, Replaced, Shown
            <4>3. Transmits(p, q, f)
                BY <4>2
            <4> HIDE DEF p, q, n, l, f, r
            <4>4. CASE f.type # "I"
                BY <2>1, <2>4, <2>5, <4>3, <4>4, MoveFrame DEF Transmits
            <4>5. CASE f.type = "I"
                BY <2>1, <2>4, <2>5, <4>3, <4>5, MoveNumbered DEF Transmits
            <4> QED
                BY <4>4, <4>5
        <3>2. CASE ~(x = s /\ m.field = Field(Sec(x, y)))
            <4>1. f = U("UI")
                BY <3>2 DEF Shown
            <4>2. f.type # "I" /\ ~Barrier(f)
                BY <4>1, FrameTypesOf DEF UTypes, Barrier
            <4>3. SenderStep(p, q)
                <5>1. CASE x # s
                    BY <1>1, <5>1, CalmView
                <5>2. CASE x = s /\ Knows(s, st[s], y)
                    <6>1. At(s, st[s], y) \in PeersOf(s) /\ At(s, st[s], y) # k
                        BY <3>2, <5>2, AtFacts
                    <6>2. SenderStep(Seen(st[s], At(s, st[s], y)), Seen(g, At(s, st[s], y)))
                        BY <6>1
                    <6> QED
                        BY <2>2, <5>2, <6>2 DEF View, Replaced
                <5>3. CASE x = s /\ ~Knows(s, st[s], y)
                    BY <2>2, <5>3, StepFromInit DEF View, Replaced
                <5> QED
                    BY <5>1, <5>2, <5>3
            <4> HIDE DEF p, q, n, l, f, r
            <4>4. Dir(q, n, l, y, r, gt[x][y], c)
                BY <2>1, <2>4, <4>3, SenderMoves
            <4> QED
                BY <2>1, <2>4, <2>5, <4>2, <4>4, MoveFrame
        <3> QED
            BY <3>1, <3>2
    <2>7. LinkUp(View(y, new[y], x)) => LinkUp(r) /\ View(y, new[y], x).next_nr = r.next_nr
        BY <1>1, SteadyView
    <2> HIDE DEF p, q, n, l, f, r
    <2>8. Dir(q, n, Append(l, f), y, View(y, new[y], x), gt[x][y], c)
        BY <2>6, <2>7, ReceiverMoves
    <2> QED
        BY <2>3, <2>5, <2>8 DEF Pair, q
<1>3. /\ Append(b, m) \in Seq(BusType)
      /\ \A i \in DOMAIN Append(b, m) :
           Append(b, m)[i].from # Primary => Append(b, m)[i].field = Field(Append(b, m)[i].from)
    <2>1. /\ b \in Seq(BusType) /\ Len(b) \in Nat /\ DOMAIN b = 1 .. Len(b)
          /\ \A i \in DOMAIN b : b[i].from # Primary => b[i].field = Field(b[i].from)
        BY LenProperties DEF Order
    <2>2. /\ Append(b, m) \in Seq(BusType) /\ DOMAIN Append(b, m) = 1 .. Len(b) + 1
          /\ \A i \in 1 .. Len(b) : Append(b, m)[i] = b[i]
          /\ Append(b, m)[Len(b) + 1] = m
        BY <2>1, AppendProperties
    <2>3. s # Primary => m.field = Field(s)
        <3>1. StationOrder(s, st[s], sn[s])
            BY <1>1
        <3>2. PICK t \in All : Linked(s, t) /\ st[s].addr[k] = Field(Sec(s, t))
            BY <3>1 DEF StationOrder
        <3> QED
            BY <3>2 DEF Sec
    <2>4. ASSUME NEW i \in 1 .. Len(b) + 1
          PROVE  Append(b, m)[i].from # Primary => Append(b, m)[i].field = Field(Append(b, m)[i].from)
        <3>1. CASE i \in 1 .. Len(b)
            BY <2>1, <2>2, <3>1
        <3>2. CASE i = Len(b) + 1
            BY <2>2, <2>3, <3>2
        <3> QED
            BY <2>1, <3>1, <3>2
    <2> QED
        BY <2>2, <2>4
<1> QED
    BY <1>1, <1>2, <1>3 DEF Order

\* The application of station s sends a packet to its peer k.
LEMMA SendOrder ==
  ASSUME NEW st, NEW b, NEW sn, NEW gt, NEW c, Order(st, b, sn, gt, c),
         NEW s \in All, NEW k \in PeersOf(s), st[s].addr[k] # NoAddr,
         NEW g, NEW new, Replaced(st, s, g, new), g.addr = st[s].addr, Steady(s, st[s], g),
         NEW sn2, sn2[s][k] = sn[s][k] + 1, \A j \in PeersOf(s) \ {k} : sn2[s][j] = sn[s][j],
         \A x \in All \ {s} : sn2[x] = sn[x],
         StationOrder(s, g, sn2[s]), \A j \in PeersOf(s) \ {k} : Seen(g, j) = Seen(st[s], j),
         Len(Seen(g, k).window) = Len(Seen(st[s], k).window) + 1,
         Seen(g, k).last_ns = SeqNext(Seen(st[s], k).last_ns),
         Seen(g, k).s_queue = Seen(st[s], k).s_queue
  PROVE  Order(new, b, sn2, gt, c)
<1>1. ASSUME NEW x \in All
      PROVE  /\ StationOrder(x, st[x], sn[x]) /\ StationOrder(x, new[x], sn2[x])
             /\ new[x].addr = st[x].addr /\ Steady(x, st[x], new[x])
    <2>1. StationOrder(x, st[x], sn[x])
        BY DEF Order
    <2> QED
        BY <2>1, Unmoved DEF Replaced
<1>2. ASSUME NEW x \in All, NEW y \in All, Linked(x, y)
      PROVE  Pair(new, b, sn2, gt, c, x, y)
    <2> DEFINE p == View(x, st[x], y)
               q == View(x, new[x], y)
               n == Count(x, st[x], sn[x], y)
               u == Count(x, new[x], sn2[x], y)
               l == Way(b, x, y)
               r == View(y, st[y], x)
    <2>1. /\ Dir(p, n, l, y, r, gt[x][y], c) /\ n \in Nat /\ l \in Seq(Frames)
          /\ p \in PeerType /\ r \in PeerType /\ gt[x][y] \in Seq(Nat)
        BY <1>2, PairFacts DEF Pair
    <2>2. (Knows(x, new[x], y) <=> Knows(x, st[x], y)) /\ At(x, new[x], y) = At(x, st[x], y)
        BY <1>1 DEF Knows, At
    <2>3. PeerOK(q, u)
        BY <1>1, ViewFacts
    <2>4. Dir(q, u, l, y, r, gt[x][y], c)
        <3>1. CASE x = s /\ Knows(s, st[s], y) /\ At(s, st[s], y) = k
            <4>1. /\ p = Seen(st[s], k) /\ q = Seen(g, k) /\ n = sn[s][k] /\ u = sn[s][k] + 1
                BY <2>2, <3>1 DEF View, Count, Replaced
            <4>2. /\ u = n + 1 /\ Len(q.window) = Len(p.window) + 1 /\ q.last_ns = SeqNext(p.last_ns)
                  /\ q.s_queue = p.s_queue
                BY <4>1
            <4> HIDE DEF p, q, n, u, l, r
            <4> QED
                BY <2>1, <2>3, <4>2, Enqueue
        <3>2. CASE ~(x = s /\ Knows(s, st[s], y) /\ At(s, st[s], y) = k)
            <4>1. CASE x # s
                BY <2>1, <4>1 DEF Replaced
            <4>2. CASE x = s /\ ~Knows(s, st[s], y)
                BY <2>1, <2>2, <4>2 DEF View, Count
            <4>3. CASE x = s /\ Knows(s, st[s], y)
                <5>1. At(s, st[s], y) \in PeersOf(s) \ {k}
                    BY <3>2, <4>3, AtFacts
                <5>2. /\ sn2[s][At(s, st[s], y)] = sn[s][At(s, st[s], y)]
                      /\ Seen(g, At(s, st[s], y)) = Seen(st[s], At(s, st[s], y))
                    BY <5>1
                <5> QED
                    BY <2>1, <2>2, <4>3, <5>2 DEF View, Count, Replaced
            <4> QED
                BY <4>1, <4>2, <4>3
        <3> QED
            BY <3>1, <3>2
    <2>5. LinkUp(View(y, new[y], x)) => LinkUp(r) /\ View(y, new[y], x).next_nr = r.next_nr
        BY <1>1, SteadyView
    <2> HIDE DEF p, q, n, u, l, r
    <2>6. Dir(q, u, l, y, View(y, new[y], x), gt[x][y], c)
        BY <2>4, <2>5, ReceiverMoves
    <2> QED
        BY <2>6 DEF Pair, q, u, l
<1> QED
    BY <1>1, <1>2 DEF Order

\* The primary registers secondary a at place k of its table.
LEMMA RegisterOrder ==
  ASSUME NEW st, NEW b, NEW sn, NEW gt, NEW c, Order(st, b, sn, gt, c),
         Primary \notin c => UnknownDown(Primary, st[Primary]),
         NEW a \in Secondaries, ~Knows(Primary, st[Primary], a),
         NEW k \in PeersOf(Primary), st[Primary].addr[k] = NoAddr,
         NEW g, NEW new, Replaced(st, Primary, g, new), StationInv(Primary, g),
         g.addr = [st[Primary].addr EXCEPT ![k] = Field(a)],
         g.peers = st[Primary].peers, g.frames = st[Primary].frames
  PROVE  Order(new, b, sn, gt, c)
<1> DEFINE h == st[Primary]
           n == sn[Primary]
<1>1. Primary \in All /\ a \in All /\ Linked(Primary, a) /\ Field(a) # NoAddr
    BY NrmAssumption, Fields, FieldFacts DEF All, Linked, Primary
<1>2. StationOrder(Primary, h, n)
    BY <1>1 DEF Order
<1>3. h.addr \in [PeersOf(Primary) -> 0 .. 255]
    BY <1>2 DEF StationOrder, StationInv, StationType
<1>4. /\ new[Primary] = g /\ \A x \in All : x # Primary => new[x] = st[x]
      /\ g.addr = [h.addr EXCEPT ![k] = Field(a)] /\ g.peers = h.peers /\ g.frames = h.frames
      /\ ~Knows(Primary, h, a) /\ h.addr[k] = NoAddr
    BY DEF Replaced
<1> HIDE DEF h, n
<1>5. g.addr[k] = Field(a) /\ \A j \in PeersOf(Primary) : j # k => g.addr[j] = h.addr[j]
    BY <1>3, <1>4
<1>6. \A j \in PeersOf(Primary) : h.addr[j] # Field(a)
    BY <1>4 DEF Knows, Sec
<1>7. StationOrder(Primary, g, n)
    <2>1. \A j \in PeersOf(Primary) : PeerOK(g.peers[j], n[j]) /\ g.peers[j].s_queue = <<>>
        BY <1>2, <1>4 DEF StationOrder
    <2>2. \A j \in PeersOf(Primary) : g.addr[j] = NoAddr => n[j] = 0
        BY <1>1, <1>2, <1>5 DEF StationOrder
    <2>3. \A j \in PeersOf(Primary) : g.addr[j] # NoAddr =>
            \E t \in All : Linked(Primary, t) /\ g.addr[j] = Field(Sec(Primary, t))
        BY <1>1, <1>2, <1>5 DEF StationOrder, Sec
    <2>4. \A i, j \in PeersOf(Primary) : g.addr[i] = g.addr[j] /\ g.addr[j] # NoAddr => i = j
        BY <1>1, <1>2, <1>5, <1>6 DEF StationOrder
    <2>5. \A i \in 0 .. SuSize - 1 : g.frames[i].type = "SU" => g.frames[i].data.type # "I"
        BY <1>2, <1>4 DEF StationOrder
    <2> QED
        BY <2>1, <2>2, <2>3, <2>4, <2>5 DEF StationOrder
<1>8. \A j \in PeersOf(Primary) \ {k} : Seen(g, j) = Seen(h, j)
    BY <1>4, <1>5 DEF Seen, Waits
<1>9. ASSUME NEW y \in All, Linked(Primary, y)
      PROVE  /\ Count(Primary, g, n, y) = Count(Primary, h, n, y)
             /\ \/ View(Primary, g, y) = View(Primary, h, y)
                \/ /\ View(Primary, g, y).window = <<>>
                   /\ Primary \notin c => ~LinkUp(View(Primary, g, y))
    <2>0. Sec(Primary, y) = y
        BY DEF Sec
    <2>1. CASE y = a
        <3>1. Knows(Primary, g, a) /\ At(Primary, g, a) = k
            BY <1>1, <1>5, <1>7, <2>0, <2>1, AtOnly
        <3>2. n[k] = 0 /\ PeerOK(h.peers[k], n[k]) /\ (Primary \notin c => ~LinkUp(h.peers[k]))
            BY <1>2, <1>4 DEF StationOrder, UnknownDown, h
        <3>6. h.peers[k].window = <<>>
            BY <3>2, EmptySeq DEF PeerOK, PeerType
        <3>3. Count(Primary, g, n, y) = 0 /\ Count(Primary, h, n, y) = 0 /\ View(Primary, g, y) = Seen(g, k)
            BY <1>4, <2>1, <3>1, <3>2 DEF Count, View
        <3>4. Seen(g, k).state = h.peers[k].state /\ Seen(g, k).window = h.peers[k].window
            BY <1>4, <3>2, SeenFacts, Typed
        <3>5. Seen(g, k).window = <<>> /\ (Primary \notin c => ~LinkUp(Seen(g, k)))
            BY <3>2, <3>4, <3>6 DEF LinkUp
        <3> QED
            BY <3>3, <3>5
    <2>2. CASE y # a /\ Knows(Primary, g, y)
        <3> DEFINE j == At(Primary, g, y)
        <3>1. j \in PeersOf(Primary) /\ g.addr[j] = Field(y)
            <4>1. j \in PeersOf(Primary) /\ g.addr[j] = Field(Sec(Primary, y))
                BY <2>2, AtFacts
            <4> QED
                BY <2>0, <4>1
        <3>2. j # k
            BY <1>1, <1>5, <2>2, <3>1, Fields
        <3>3. h.addr[j] = Field(y)
            BY <1>5, <3>1, <3>2
        <3>4. Knows(Primary, h, y) /\ At(Primary, h, y) = j
            <4> HIDE DEF j
            <4> QED
                BY <1>1, <1>2, <1>9, <2>0, <3>1, <3>3, AtOnly
        <3>5. Seen(g, j) = Seen(h, j)
            BY <1>8, <3>1, <3>2
        <3> HIDE DEF j
        <3> QED
            BY <2>2, <3>4, <3>5 DEF View, Count, j
    <2>3. CASE y # a /\ ~Knows(Primary, g, y)
        <3>1. ~Knows(Primary, h, y)
            <4> SUFFICES ASSUME NEW j \in PeersOf(Primary), h.addr[j] = Field(Sec(Primary, y))
                         PROVE  FALSE
                BY DEF Knows
            <4>1. j # k
                BY <1>4, <2>0, FieldFacts
            <4>2. g.addr[j] = Field(Sec(Primary, y))
                BY <1>5, <4>1
            <4> QED
                BY <2>3, <4>2 DEF Knows
        <3> QED
            BY <2>3, <3>1 DEF View, Count
    <2> QED
        BY <2>1, <2>2, <2>3
<1>10. ASSUME NEW x \in All, NEW y \in All, Linked(x, y)
       PROVE  Pair(new, b, sn, gt, c, x, y)
    <2> DEFINE p == View(x, st[x], y)
               q == View(x, new[x], y)
               m == Count(x, st[x], sn[x], y)
               l == Way(b, x, y)
               r == View(y, st[y], x)
               w == View(y, new[y], x)
    <2>1. /\ Dir(p, m, l, y, r, gt[x][y], c) /\ m \in Nat /\ l \in Seq(Frames)
          /\ p \in PeerType /\ r \in PeerType /\ gt[x][y] \in Seq(Nat) /\ PeerOK(p, m)
        BY <1>10, PairFacts DEF Pair
    <2>2. Count(x, new[x], sn[x], y) = m
        BY <1>4, <1>9, <1>10 DEF h, n
    <2>3. PeerOK(q, m) /\ SenderStep(p, q)
        <3>1. q = p \/ q.window = <<>>
            BY <1>4, <1>9, <1>10 DEF h
        <3>2. StationOrder(x, new[x], sn[x])
            BY <1>4, <1>7 DEF Order, n
        <3>3. PeerOK(q, m)
            BY <2>2, <3>2, ViewFacts
        <3> HIDE DEF p, q, m
        <3>4. Len(p.window) \in Nat
            BY <2>1 DEF PeerType
        <3>5. SenderStep(p, q)
            BY <3>1, <3>4 DEF SenderStep
        <3> QED
            BY <3>3, <3>5
    <2>4. y \notin c /\ LinkUp(w) => w = r
        <3>1. CASE y = Primary
            <4>1. Linked(Primary, x)
                BY <1>10, <3>1, Links
            <4> QED
                BY <1>4, <1>9, <3>1, <4>1 DEF h
        <3>2. CASE y # Primary
            BY <1>4, <3>2
        <3> QED
            BY <3>1, <3>2
    <2> HIDE DEF p, q, m, l, r, w
    <2>5. Dir(q, m, l, y, w, gt[x][y], c)
        BY <2>1, <2>3, <2>4, BothMove
    <2> QED
        BY <2>2, <2>5 DEF Pair, q, l, w
<1> QED
    BY <1>4, <1>7, <1>10 DEF Order, n

-----------------------------------------------------------------------------
(* What the steps do to the record of a station *)

\* A slot of the service queue is as it was, or holds frame f for peer k.
Added(h, g, k, f) ==
  \A i \in 0 .. SuSize - 1 :
    g.frames[i] = h.frames[i] \/ (g.frames[i].address = h.addr[k] /\ g.frames[i].data = f)
NoIFrames(h) ==
  \A i \in 0 .. SuSize - 1 : h.frames[i].type = "SU" => h.frames[i].data.type # "I"

LEMMA AddedFacts ==
  ASSUME NEW h, NEW g, NEW k, NEW f, g.addr = h.addr, Added(h, g, k, f)
  PROVE  /\ \A j : Waits(g, j) => Waits(h, j) \/ (Barrier(f) /\ h.addr[j] = h.addr[k])
         /\ NoIFrames(h) /\ f.type # "I" => NoIFrames(g)
BY DEF Added, Waits, NoIFrames

LEMMA PutServiceAdds ==
  ASSUME NEW P, NEW h \in StationType(P), NEW k, NEW f
  PROVE  Added(h, PutService(h, k, f), k, f)
<1> DEFINE slot == [type |-> "SU", address |-> h.addr[k], arg |-> 0, data |-> f]
           g == [h EXCEPT !.frames[FreeServiceSlot(h)] = slot]
<1>1. h.frames \in [0 .. SuSize - 1 -> SlotType]
    BY DEF StationType
<1>2. g.frames = [h.frames EXCEPT ![FreeServiceSlot(h)] = slot]
    BY DEF StationType
<1>3. slot.address = h.addr[k] /\ slot.data = f
    OBVIOUS
<1>4. PutService(h, k, f) = h \/ PutService(h, k, f) = g
    BY DEF PutService
<1> HIDE DEF slot, g
<1>5. Added(h, g, k, f)
    BY <1>1, <1>2, <1>3 DEF Added
<1>6. Added(h, h, k, f)
    BY DEF Added
<1> QED
    BY <1>4, <1>5, <1>6

LEMMA WithPeerAdds ==
  ASSUME NEW P, NEW h \in StationType(P), NEW k \in P, NEW q \in PeerType, NEW signal \in BOOLEAN
  PROVE  /\ q.s_queue = <<>> => WithPeer(h, k, q, signal).frames = h.frames
         /\ q.s_queue # <<>> => Added(h, WithPeer(h, k, q, signal), k, Head(q.s_queue))
<1> DEFINE m == [h EXCEPT !.peers[k] = [q EXCEPT !.s_queue = <<>>]]
           g == Signal(m, signal)
           w == WithPeer(h, k, q, signal)
<1>0. [q EXCEPT !.s_queue = <<>>] \in PeerType
    <2>1. <<>> \in Seq(Frames)
        OBVIOUS
    <2> QED
        BY <2>1 DEF PeerType
<1>1. m \in StationType(P) /\ m.addr = h.addr /\ m.frames = h.frames
    BY <1>0 DEF StationType
<1> HIDE DEF m
<1>2. g \in StationType(P) /\ g.addr = h.addr /\ g.frames = h.frames
    <2> DEFINE v == m.free_slots \/ (signal /\ FreeSlots(m))
    <2>1. v \in BOOLEAN
        BY <1>1 DEF StationType, FreeSlots
    <2>2. g = [m EXCEPT !.free_slots = v]
        BY DEF Signal
    <2> HIDE DEF v, g
    <2> QED
        BY <1>1, <2>1, <2>2, ZenonT(30) DEF StationType
<1> HIDE DEF g
<1>3. w = IF q.s_queue = <<>> THEN g ELSE PutService(g, k, Head(q.s_queue))
    BY DEF WithPeer, m, g
<1> HIDE DEF w
<1>4. ASSUME q.s_queue # <<>>
      PROVE  Added(h, w, k, Head(q.s_queue))
    <2>1. w = PutService(g, k, Head(q.s_queue))
        BY <1>3, <1>4
    <2>2. Added(g, w, k, Head(q.s_queue))
        BY <1>2, <2>1, PutServiceAdds
    <2> QED
        BY <1>2, <2>2 DEF Added
<1> QED
    BY <1>2, <1>3, <1>4 DEF w

\* A handler exchanges the record of peer k for q, whose own queue moves to the slots.
LEMMA SwapOrder ==
  ASSUME NEW s \in All, NEW h, NEW n, StationOrder(s, h, n), NEW k \in PeersOf(s),
         h.addr[k] # NoAddr, NEW q, PeerOK(q, n[k]), SenderStep(h.peers[k], q),
         NEW signal \in BOOLEAN, NEW g, g = WithPeer(h, k, q, signal)
  PROVE  /\ StationOrder(s, g, n) /\ Calm(s, h, g) /\ g.addr = h.addr
         /\ g.peers[k] = [q EXCEPT !.s_queue = <<>>]
         /\ \A j \in PeersOf(s) \ {k} : g.peers[j] = h.peers[j]
<1> DEFINE r == [q EXCEPT !.s_queue = <<>>]
<1>1. /\ StationInv(s, h) /\ h \in StationType(PeersOf(s)) /\ q \in PeerType
      /\ h.peers \in [PeersOf(s) -> PeerType] /\ h.peers[k] \in PeerType
      /\ PeerOK(h.peers[k], n[k]) /\ h.peers[k].s_queue = <<>>
    BY DEF StationOrder, StationInv, StationType, PeerOK
<1>2. /\ StationInv(s, g) /\ g.addr = h.addr /\ g.peers = Swapped(h, k, q)
    BY <1>1, PeerChange, WithPeerType DEF SameRest
<1>3. /\ q.s_queue = <<>> => g.frames = h.frames
      /\ q.s_queue # <<>> => Added(h, g, k, Head(q.s_queue))
    BY <1>1, WithPeerAdds
<1> HIDE DEF r
<1>4. g.peers[k] = r /\ \A j \in PeersOf(s) \ {k} : g.peers[j] = h.peers[j]
    BY <1>1, <1>2 DEF Swapped, r
<1>5. /\ r \in PeerType /\ r.window = q.window /\ r.last_ns = q.last_ns /\ r.confirm_ns = q.confirm_ns
      /\ r.can_accept = q.can_accept /\ r.state = q.state /\ r.s_queue = <<>>
    BY <1>1 DEF r, PeerType
<1>6. PeerOK(r, n[k])
    BY <1>5 DEF PeerOK, LinkUp
<1>7. ASSUME q.s_queue # <<>>
      PROVE  /\ 1 \in DOMAIN q.s_queue /\ Head(q.s_queue) = q.s_queue[1] /\ Head(q.s_queue).type # "I"
             /\ ClearFrom(q.s_queue, 0) => ~Barrier(Head(q.s_queue))
    <2>1. q.s_queue \in Seq(Frames)
        BY <1>1 DEF PeerType
    <2>2. 1 \in DOMAIN q.s_queue /\ Head(q.s_queue) = q.s_queue[1]
        BY <1>7, <2>1, EmptySeq
    <2> QED
        BY <2>2 DEF PeerOK, ClearFrom
<1>8. NoIFrames(h)
    BY DEF StationOrder, NoIFrames
<1>9. NoIFrames(g)
    <2>1. CASE q.s_queue = <<>>
        BY <1>3, <1>8, <2>1 DEF NoIFrames
    <2>2. CASE q.s_queue # <<>>
        BY <1>2, <1>3, <1>7, <1>8, <2>2, AddedFacts
    <2> QED
        BY <2>1, <2>2
<1>10. StationOrder(s, g, n)
    <2>1. \A j \in PeersOf(s) : PeerOK(g.peers[j], n[j]) /\ g.peers[j].s_queue = <<>>
        BY <1>4, <1>5, <1>6 DEF StationOrder
    <2> QED
        BY <1>2, <1>9, <2>1 DEF StationOrder, NoIFrames
\* A barrier waits in g for another peer only if it did so before.
<1>11. ASSUME NEW j \in PeersOf(s), Waits(g, j), ~Waits(h, j)
       PROVE  j = k /\ q.s_queue # <<>> /\ Barrier(Head(q.s_queue))
    <2>1. CASE q.s_queue = <<>>
        BY <1>2, <1>3, <1>11, <2>1 DEF Waits
    <2>2. CASE q.s_queue # <<>>
        <3>1. Barrier(Head(q.s_queue)) /\ h.addr[j] = h.addr[k]
            BY <1>2, <1>3, <1>11, <2>2, AddedFacts
        <3>2. j = k
            BY <3>1 DEF StationOrder
        <3> QED
            BY <2>2, <3>1, <3>2
    <2> QED
        BY <2>1, <2>2
<1>12. ASSUME NEW j \in PeersOf(s)
       PROVE  SenderStep(Seen(h, j), Seen(g, j))
    <2>1. /\ Seen(h, j).window = h.peers[j].window /\ Seen(h, j).last_ns = h.peers[j].last_ns
          /\ ClearFrom(Seen(h, j).s_queue, 0) <=> ~Waits(h, j)
        BY SeenFacts, Typed DEF StationOrder
    <2>2. /\ Seen(g, j).window = g.peers[j].window /\ Seen(g, j).last_ns = g.peers[j].last_ns
          /\ ClearFrom(Seen(g, j).s_queue, 0) <=> ~Waits(g, j)
        BY <1>10, SeenFacts, Typed DEF StationOrder
    <2>3. CASE j # k
        <3>1. g.peers[j] = h.peers[j] /\ Len(h.peers[j].window) \in Nat
            BY <1>1, <1>4, <2>3 DEF PeerType
        <3> QED
            BY <1>11, <2>1, <2>2, <2>3, <3>1 DEF SenderStep
    <2>4. CASE j = k
        <3>1. Seen(g, j).window = q.window /\ Seen(g, j).last_ns = q.last_ns
            BY <1>4, <1>5, <2>2, <2>4
        <3>2. ClearFrom(h.peers[k].s_queue, 0)
            BY <1>1 DEF ClearFrom
        <3>3. ASSUME ClearFrom(q.s_queue, 0), ~Waits(h, k)
              PROVE  ~Waits(g, k)
            BY <1>7, <1>11, <3>3
        <3> QED
            BY <2>1, <2>2, <2>4, <3>1, <3>2, <3>3 DEF SenderStep
    <2> QED
        BY <2>3, <2>4
<1> QED
    BY <1>2, <1>4, <1>10, <1>12 DEF Calm, r

\* A service frame that is no barrier is queued for peer k, and records change.
LEMMA QueueOrder ==
  ASSUME NEW s \in All, NEW h, NEW n, StationOrder(s, h, n), NEW k \in PeersOf(s),
         NEW f \in Frames, f.type # "I", ~Barrier(f),
         NEW g, StationInv(s, g), g.addr = h.addr, g.frames = PutService(h, k, f).frames,
         \A j \in PeersOf(s) : /\ PeerOK(g.peers[j], n[j]) /\ g.peers[j].s_queue = <<>>
                               /\ g.peers[j].window = h.peers[j].window
                               /\ g.peers[j].last_ns = h.peers[j].last_ns
  PROVE  StationOrder(s, g, n) /\ Calm(s, h, g)
<1>1. h \in StationType(PeersOf(s))
    BY DEF StationOrder, StationInv
<1>2. Added(h, g, k, f)
    BY <1>1, PutServiceAdds DEF Added
<1>3. NoIFrames(g) /\ \A j : Waits(g, j) => Waits(h, j)
    <2>1. NoIFrames(h)
        BY DEF StationOrder, NoIFrames
    <2> QED
        BY <1>2, <2>1, AddedFacts
<1>4. StationOrder(s, g, n)
    BY <1>3 DEF StationOrder, NoIFrames
<1>5. ASSUME NEW j \in PeersOf(s)
      PROVE  SenderStep(Seen(h, j), Seen(g, j))
    <2>1. /\ Seen(h, j).window = h.peers[j].window /\ Seen(h, j).last_ns = h.peers[j].last_ns
          /\ ClearFrom(Seen(h, j).s_queue, 0) <=> ~Waits(h, j) /\ h.peers[j] \in PeerType
        BY SeenFacts, Typed DEF StationOrder, PeerOK
    <2>2. /\ Seen(g, j).window = g.peers[j].window /\ Seen(g, j).last_ns = g.peers[j].last_ns
          /\ ClearFrom(Seen(g, j).s_queue, 0) <=> ~Waits(g, j)
        BY SeenFacts, Typed
    <2>3. Len(h.peers[j].window) \in Nat
        BY <2>1 DEF PeerType
    <2> QED
        BY <1>3, <2>1, <2>2, <2>3 DEF SenderStep
<1> QED
    BY <1>4, <1>5 DEF Calm

-----------------------------------------------------------------------------
(* The steps of the bus keep the order *)

LEMMA OrderNext ==
  ASSUME Order(station', bus', sent', got', cut')
  PROVE  OrderInv'
BY DEF OrderInv

LEMMA OrderFacts ==
  ASSUME NrmInv, OrderInv, NEW s \in All
  PROVE  /\ Order(station, bus, sent, got, cut)
         /\ StationOrder(s, station[s], sent[s]) /\ StationInv(s, station[s])
         /\ \A g : station' = [station EXCEPT ![s] = g] => Replaced(station, s, g, station')
<1>1. Order(station, bus, sent, got, cut) /\ StationOrder(s, station[s], sent[s])
    BY DEF OrderInv, Order
<1>2. ASSUME NEW g, station' = [station EXCEPT ![s] = g]
      PROVE  Replaced(station, s, g, station')
    BY <1>2 DEF NrmInv, Replaced
<1> QED
    BY <1>1, <1>2 DEF StationOrder

\* One station changes its record, and no frame or packet moves.
LEMMA CalmNext ==
  ASSUME NrmInv, OrderInv, NEW s \in All, NEW g, station' = [station EXCEPT ![s] = g],
         StationOrder(s, g, sent[s]), Calm(s, station[s], g), cut \subseteq cut',
         s \notin cut' => Steady(s, station[s], g), UNCHANGED <<bus, sent, got>>
  PROVE  OrderInv'
<1>1. Order(station, bus, sent, got, cut) /\ Replaced(station, s, g, station')
    BY OrderFacts
<1>2. Order(station', bus, sent, got, cut')
    BY <1>1, CalmOrder
<1> QED
    BY <1>2, OrderNext

LEMMA SecondaryCount ==
  /\ Cardinality(Secondaries) \in 1 .. 62
  /\ PeersOf(Primary) = 0 .. Cardinality(Secondaries) - 1
  /\ NoPeer \notin PeersOf(Primary)
  /\ IsFiniteSet(PeersOf(Primary)) /\ Cardinality(PeersOf(Primary)) = Cardinality(Secondaries)
<1>0. \A a \in Int, b \in Int :
        IsFiniteSet(a .. b) /\ Cardinality(a .. b) = IF a > b THEN 0 ELSE b - a + 1
    BY FS_Interval
<1>1. IsFiniteSet(1 .. 62) /\ Cardinality(1 .. 62) = 62
    <2>1. 1 \in Int /\ 62 \in Int /\ ~(1 > 62) /\ 62 - 1 + 1 = 62
        OBVIOUS
    <2> QED
        BY <1>0, <2>1
<1>2. Cardinality(Secondaries) <= 62
    BY <1>1, NrmAssumption, FS_Subset
<1> DEFINE c == Cardinality(Secondaries)
<1>3. c \in 1 .. 62
    BY <1>2, PeersFinite
<1>4. PeersOf(Primary) = 0 .. c - 1
    BY DEF PeersOf
<1> HIDE DEF c
<1>5. /\ 0 \in Int /\ c - 1 \in Int /\ (IF 0 > c - 1 THEN 0 ELSE (c - 1) - 0 + 1) = c
      /\ NoPeer \notin 0 .. c - 1
    BY <1>3 DEF NoPeer
<1>6. IsFiniteSet(0 .. c - 1) /\ Cardinality(0 .. c - 1) = c
    BY <1>0, <1>5, Zenon
<1> QED
    BY <1>3, <1>4, <1>5, <1>6 DEF c

\* A secondary that is not known finds a place in the primary's table.
LEMMA FreePlace ==
  ASSUME NEW h, NEW n, StationOrder(Primary, h, n), NEW a \in Secondaries,
         ~Knows(Primary, h, a)
  PROVE  \E k \in PeersOf(Primary) : h.addr[k] = NoAddr
<1> SUFFICES ASSUME \A k \in PeersOf(Primary) : h.addr[k] # NoAddr PROVE FALSE
    OBVIOUS
<1> DEFINE P == PeersOf(Primary)
           T == Secondaries \ {a}
           f == [k \in P |-> CHOOSE t \in T : h.addr[k] = Field(t)]
<1>1. ASSUME NEW k \in P
      PROVE  f[k] \in T /\ h.addr[k] = Field(f[k])
    <2>1. PICK t \in All : Linked(Primary, t) /\ h.addr[k] = Field(Sec(Primary, t))
        BY DEF StationOrder
    <2>2. t \in Secondaries /\ Sec(Primary, t) = t
        BY <2>1 DEF Linked, All, Sec
    <2>3. t # a
        BY <2>1, <2>2 DEF Knows, Sec
    <2>4. \E x \in T : h.addr[k] = Field(x)
        BY <2>1, <2>2, <2>3
    <2> QED
        BY <2>4
<1>2. f \in [P -> T]
    BY <1>1
<1> HIDE DEF f
<1>3. /\ IsFiniteSet(P) /\ Cardinality(P) = Cardinality(Secondaries)
    BY SecondaryCount
<1>4. IsFiniteSet(T) /\ Cardinality(T) = Cardinality(Secondaries) - 1
    BY PeersFinite, FS_RemoveElement
<1>5. Cardinality(T) < Cardinality(P)
    <2>1. Cardinality(Secondaries) \in Nat
        BY PeersFinite
    <2> HIDE DEF T, P
    <2> QED
        BY <1>3, <1>4, <2>1
<1> HIDE DEF T, P
<1>6. PICK i \in P, j \in P : i # j /\ f[i] = f[j]
    BY <1>2, <1>3, <1>4, <1>5, FS_PigeonHole
<1>7. h.addr[i] = h.addr[j] /\ h.addr[j] # NoAddr
    BY <1>1, <1>6 DEF P
<1> QED
    BY <1>6, <1>7 DEF StationOrder, P

LEMMA RegisterNext ==
  ASSUME NrmInv, OrderInv, NEW a \in Secondaries, RegisterPeer(a)
  PROVE  OrderInv'
<1> DEFINE s == Primary
           h == station[s]
           Free1(k) == h.addr[k] = NoAddr /\ \A j \in DOMAIN h.addr : j < k => h.addr[j] # NoAddr
           k == CHOOSE k \in DOMAIN h.addr : Free1(k)
           ad == [h.addr EXCEPT ![k] = Field(a)]
           g == [h EXCEPT !.addr = ad]
<1>1. s \in All /\ a \in All
    BY DEF All
<1>2. /\ Order(station, bus, sent, got, cut) /\ StationOrder(s, h, sent[s]) /\ StationInv(s, h)
      /\ \A x : station' = [station EXCEPT ![s] = x] => Replaced(station, s, x, station')
      /\ h \in StationType(PeersOf(s)) /\ h.addr \in [PeersOf(s) -> 0 .. 255]
    BY <1>1, OrderFacts, StationFacts
<1>3. /\ AddressFieldToPeer(s, h, Field(a)) = NoPeer
      /\ station' = [station EXCEPT ![s].addr[k] = Field(a)] /\ UNCHANGED <<bus, sent, got, cut>>
    BY DEF RegisterPeer
<1>4. station' = [station EXCEPT ![s] = g]
    BY <1>1, <1>2, <1>3 DEF StationType, NrmInv
<1>5. ~Knows(s, h, a)
    <2>1. SUFFICES ASSUME NEW j \in PeersOf(s), h.addr[j] = Field(a) PROVE FALSE
        BY DEF Knows, Sec
    <2>2. AddressFieldToPeer(s, h, Field(a)) \in PeersOf(s)
        BY <2>1 DEF AddressFieldToPeer
    <2> QED
        BY <1>3, <2>2, SecondaryCount
<1>6. k \in PeersOf(s) /\ h.addr[k] = NoAddr
    <2> DEFINE E == {j \in PeersOf(s) : h.addr[j] = NoAddr}
    <2>1. E # {} /\ E \subseteq Nat /\ DOMAIN h.addr = PeersOf(s)
        BY <1>2, <1>5, FreePlace, PeersOfFacts
    <2>2. PICK x \in E : \A y \in E : x <= y
        BY <2>1, LeastOf
    <2>3. Free1(x)
        <3>1. ASSUME NEW j \in DOMAIN h.addr, j < x
              PROVE  h.addr[j] # NoAddr
            BY <2>1, <2>2, <3>1
        <3> QED
            BY <2>2, <3>1
    <2>4. x \in DOMAIN h.addr
        BY <2>1, <2>2
    <2>5. k \in DOMAIN h.addr /\ Free1(k)
        BY <2>3, <2>4
    <2> HIDE DEF k
    <2> QED
        BY <2>1, <2>5
<1> HIDE DEF k
<1>7. Field(a) \in 0 .. 255 /\ Field(a) # NoAddr
    BY <1>1, FieldFacts
<1>8. /\ ad \in [PeersOf(s) -> 0 .. 255]
      /\ \A j \in PeersOf(s) : h.addr[j] # NoAddr => ad[j] # NoAddr
    BY <1>2, <1>7
<1> HIDE DEF h, ad
<1>9. /\ g \in StationType(PeersOf(s)) /\ g.addr = ad /\ g.peers = h.peers /\ g.frames = h.frames
    BY <1>2, <1>8 DEF StationType
<1> HIDE DEF g
<1>10. StationInv(s, g)
    BY <1>2, <1>8, <1>9 DEF StationInv, Registered
<1>11. Replaced(station, s, g, station')
    BY <1>2, <1>4
<1>12. g.addr = [station[Primary].addr EXCEPT ![k] = Field(a)]
    BY <1>9 DEF ad, h
<1>0. Primary \notin cut => UnknownDown(Primary, station[Primary])
    BY <1>1, StationFacts DEF OkSlots
<1>13. Order(station', bus, sent, got, cut)
    BY <1>0, <1>2, <1>5, <1>6, <1>9, <1>10, <1>11, <1>12, RegisterOrder DEF h
<1> QED
    BY <1>3, <1>13, OrderNext

LEMMA SendUiNext ==
  ASSUME NrmInv, OrderInv, NEW a \in Secondaries, SendUiPacketTo(a)
  PROVE  OrderInv'
<1> DEFINE s == Primary
           h == station[s]
           k == PeerOfAddress(s, h, a)
           g == PutService(h, k, U("UI"))
<1>1. s \in All
    BY DEF All
<1>2. /\ StationOrder(s, h, sent[s]) /\ StationInv(s, h) /\ h \in StationType(PeersOf(s))
    BY <1>1, OrderFacts, StationFacts
<1>3. station' = [station EXCEPT ![s] = g] /\ UNCHANGED <<bus, sent, got, cut>> /\ k # NoPeer
    BY DEF SendUiPacketTo
<1>4. k \in PeersOf(s)
    BY <1>2, <1>3, AddressedPeer DEF PeerOfAddress
<1>5. U("UI") \in Frames /\ U("UI").type # "I" /\ ~Barrier(U("UI"))
    BY FrameTypesOf DEF UTypes, Barrier
<1> HIDE DEF h, k
<1>6. /\ g \in StationType(PeersOf(s)) /\ SameRest(h, g) /\ g.peers = h.peers
    BY <1>2, <1>4, <1>5, PutServiceType
<1>7. g.frames = PutService(h, k, U("UI")).frames
    OBVIOUS
<1> HIDE DEF g
<1>8. StationInv(s, g) /\ g.addr = h.addr
    BY <1>2, <1>6 DEF StationInv, Registered, SameRest
<1>9. StationOrder(s, g, sent[s]) /\ Calm(s, h, g)
    <2>1. \A j \in PeersOf(s) : PeerOK(g.peers[j], sent[s][j]) /\ g.peers[j].s_queue = <<>>
        BY <1>2, <1>6 DEF StationOrder
    <2> HIDE DEF s
    <2> QED
        BY <1>1, <1>2, <1>4, <1>5, <1>6, <1>7, <1>8, <2>1, QueueOrder
<1>10. Steady(s, h, g)
    BY <1>6 DEF Steady
<1> HIDE DEF s
<1> QED
    BY <1>1, <1>3, <1>9, <1>10, CalmNext DEF h

LEMMA DisconnectNext ==
  ASSUME NrmInv, OrderInv, NEW s \in All, NrmDisconnect(s)
  PROVE  OrderInv'
<1> DEFINE h == station[s]
           p == h.peers[0]
           m == PutService(h, 0, U("DISC"))
           r == [p EXCEPT !.state = "DISCONNECTING"]
           pe == [h.peers EXCEPT ![0] = r]
           g == [m EXCEPT !.peers = pe]
<1>1. /\ StationOrder(s, h, sent[s]) /\ StationInv(s, h) /\ h \in StationType(PeersOf(s))
      /\ h.peers \in [PeersOf(s) -> PeerType] /\ 0 \in PeersOf(s)
      /\ PeerOK(p, sent[s][0]) /\ p.s_queue = <<>>
    BY OrderFacts, StationFacts, PeersOfFacts DEF StationOrder
<1>2. U("DISC") \in Frames /\ U("DISC").type # "I" /\ ~Barrier(U("DISC"))
    BY FrameTypesOf DEF UTypes, Barrier
<1>3. /\ station' = [station EXCEPT ![s] = [m EXCEPT !.peers[0].state = "DISCONNECTING"]]
      /\ UNCHANGED <<bus, sent, got>>
      /\ cut' = IF LinkUp(p) THEN cut ELSE cut \cup {s}
    BY DEF NrmDisconnect
<1>4. /\ m \in StationType(PeersOf(s)) /\ SameRest(h, m) /\ m.peers = h.peers
    BY <1>1, <1>2, PutServiceType
<1>5. m.frames = PutService(h, 0, U("DISC")).frames
    OBVIOUS
<1> HIDE DEF h, m
<1>6. station' = [station EXCEPT ![s] = g]
    BY <1>3, <1>4 DEF StationType
<1>7. /\ r \in PeerType /\ LinkUp(r) /\ r.window = p.window /\ r.last_ns = p.last_ns
      /\ r.confirm_ns = p.confirm_ns /\ r.s_queue = p.s_queue /\ r.can_accept = p.can_accept
      /\ r.next_nr = p.next_nr
    <2>1. p \in PeerType
        BY <1>1
    <2> HIDE DEF p
    <2> QED
        BY <2>1 DEF PeerType, States, LinkUp
<1> HIDE DEF r
<1>8. PeerOK(r, sent[s][0])
    BY <1>1, <1>7, OtherFields
<1>9. /\ pe \in [PeersOf(s) -> PeerType] /\ pe[0] = r
      /\ \A j \in PeersOf(s) : j # 0 => pe[j] = h.peers[j]
    BY <1>1, <1>7
<1> HIDE DEF pe
<1>10. /\ g \in StationType(PeersOf(s)) /\ g.peers = pe /\ g.addr = h.addr /\ g.frames = m.frames
    BY <1>4, <1>9 DEF StationType, SameRest
<1> HIDE DEF g
<1>11. StationInv(s, g)
    BY <1>1, <1>3, <1>9, <1>10 DEF StationInv, Registered
<1>12. \A j \in PeersOf(s) : /\ PeerOK(g.peers[j], sent[s][j]) /\ g.peers[j].s_queue = <<>>
                             /\ g.peers[j].window = h.peers[j].window
                             /\ g.peers[j].last_ns = h.peers[j].last_ns
    BY <1>1, <1>7, <1>8, <1>9, <1>10 DEF StationOrder, p
<1>13. StationOrder(s, g, sent[s]) /\ Calm(s, h, g)
    BY <1>1, <1>2, <1>5, <1>10, <1>11, <1>12, QueueOrder
<1>14. ASSUME s \notin cut' PROVE Steady(s, h, g)
    BY <1>3, <1>7, <1>9, <1>10, <1>14 DEF Steady, p
<1>15. cut \subseteq cut'
    BY <1>3
<1> QED
    BY <1>3, <1>6, <1>13, <1>14, <1>15, CalmNext DEF h

\* A peer's record changes on a timer.
LEMMA TimerNext ==
  ASSUME NrmInv, OrderInv, NEW s \in All, NEW k \in PeersOf(s), station[s].addr[k] # NoAddr,
         NEW q, PeerOK(q, sent[s][k]), SenderStep(station[s].peers[k], q),
         LinkUp(q) => LinkUp(station[s].peers[k]) /\ q.next_nr = station[s].peers[k].next_nr,
         TimerStep(s, WithPeer(station[s], k, q, FALSE))
  PROVE  OrderInv'
<1> DEFINE h == station[s]
           g == WithPeer(h, k, q, FALSE)
<1>1. /\ StationOrder(s, h, sent[s]) /\ h.peers \in [PeersOf(s) -> PeerType]
      /\ station' = [station EXCEPT ![s] = g] /\ UNCHANGED <<bus, sent, got, cut>>
    BY OrderFacts, StationFacts DEF TimerStep
<1>2. FALSE \in BOOLEAN /\ q \in PeerType
    BY DEF PeerOK
<1>3. /\ StationOrder(s, g, sent[s]) /\ Calm(s, h, g)
      /\ g.peers[k] = [q EXCEPT !.s_queue = <<>>]
      /\ \A j \in PeersOf(s) \ {k} : g.peers[j] = h.peers[j]
    <2> DEFINE n == sent[s]
               no == FALSE
    <2>1. /\ StationOrder(s, h, n) /\ h.addr[k] # NoAddr /\ PeerOK(q, n[k]) /\ SenderStep(h.peers[k], q)
          /\ no \in BOOLEAN /\ g = WithPeer(h, k, q, no)
        BY <1>1, <1>2
    <2> HIDE DEF n, no, h, g
    <2>2. /\ StationOrder(s, g, n) /\ Calm(s, h, g) /\ g.peers[k] = [q EXCEPT !.s_queue = <<>>]
          /\ \A j \in PeersOf(s) \ {k} : g.peers[j] = h.peers[j]
        BY <2>1, SwapOrder
    <2> QED
        BY <2>2 DEF n
<1> HIDE DEF g
<1>4. Steady(s, h, g)
    <2>1. [q EXCEPT !.s_queue = <<>>].state = q.state /\ [q EXCEPT !.s_queue = <<>>].next_nr = q.next_nr
        BY <1>2 DEF PeerType
    <2> QED
        BY <1>3, <2>1 DEF Steady, LinkUp
<1> QED
    BY <1>1, <1>3, <1>4, CalmNext

LEMMA ConnectTimerNext ==
  ASSUME NrmInv, OrderInv, NrmConnectTimer
  PROVE  OrderInv'
<1> DEFINE s == Primary
           h == station[s]
           k == Cur(h)
           p == h.peers[k]
           m == PutUS(p, U("SABM"))
           q == [m EXCEPT !.state = "CONNECTING"]
<1>1. s \in All
    BY DEF All
<1>2. /\ StationOrder(s, h, sent[s]) /\ k \in PeersOf(s) /\ PeerOK(p, sent[s][k])
    BY <1>1, OrderFacts, StationFacts DEF Cur, StationOrder
<1>3. /\ TimerStep(s, WithPeer(h, k, q, FALSE)) /\ h.addr[k] # NoAddr /\ ~LinkUp(p)
    BY DEF NrmConnectTimer, TimerStep
<1>4. U("SABM") \in Frames /\ U("SABM").type # "I"
    BY FrameTypesOf DEF UTypes
<1>5. PeerOK(m, sent[s][k]) /\ m.window = p.window /\ m.state = p.state
    BY <1>2, <1>4, PutOK
<1>6. p.window = <<>>
    BY <1>2, <1>3 DEF PeerOK
<1> HIDE DEF s, h, k, p, m
<1>7. /\ q \in PeerType /\ q.window = m.window /\ q.last_ns = m.last_ns /\ q.confirm_ns = m.confirm_ns
      /\ q.s_queue = m.s_queue /\ q.can_accept = m.can_accept /\ q.state = "CONNECTING"
    BY <1>5 DEF PeerOK, PeerType, States
<1> HIDE DEF q
<1>8. ~LinkUp(m) /\ ~LinkUp(q)
    BY <1>3, <1>5, <1>7 DEF LinkUp
<1>9. PeerOK(q, sent[s][k])
    BY <1>5, <1>7, <1>8, OtherFields
<1>10. SenderStep(p, q)
    BY <1>5, <1>6, <1>7 DEF SenderStep
<1> QED
    BY <1>1, <1>2, <1>3, <1>8, <1>9, <1>10, TimerNext DEF h, p

LEMMA RetryTimerNext ==
  ASSUME NrmInv, OrderInv, NEW s \in All, NrmRetryTimer(s)
  PROVE  OrderInv'
<1> DEFINE h == station[s]
           k == Cur(h)
           p == h.peers[k]
           m == [p EXCEPT !.retries = @ - 1]
           q == IF p.retries > 0 THEN ResendFrom(m, p.confirm_ns) ELSE SwitchToDisconnected(p)
           n == sent[s][k]
<1>1. /\ StationInv(s, h) /\ k \in PeersOf(s) /\ PeerOK(p, n)
    BY OrderFacts, StationFacts DEF Cur, StationOrder
<1>2. /\ TimerStep(s, WithPeer(h, k, q, FALSE)) /\ LinkUp(p)
    BY DEF NrmRetryTimer
<1>3. h.addr[k] # NoAddr
    BY <1>2 DEF TimerStep
<1> HIDE DEF h, k, n
<1>4. /\ PeerOK(q, n) /\ SenderStep(p, q)
      /\ LinkUp(q) => q.next_nr = p.next_nr
    <2>0. p \in PeerType /\ p.confirm_ns \in SeqNums
        BY <1>1 DEF PeerOK, PeerType
    <2> HIDE DEF p
    <2>1. CASE p.retries > 0
        <3>1. /\ m \in PeerType /\ m.window = p.window /\ m.last_ns = p.last_ns
              /\ m.confirm_ns = p.confirm_ns /\ m.s_queue = p.s_queue /\ m.can_accept = p.can_accept
              /\ m.state = p.state /\ m.next_nr = p.next_nr
            <4>1. p.retries - 1 \in Nat
                BY <2>0, <2>1 DEF PeerType
            <4> QED
                BY <2>0, <4>1 DEF PeerType
        <3> HIDE DEF m
        <3>2. LinkUp(p) => LinkUp(m)
            BY <3>1 DEF LinkUp
        <3>3. PeerOK(m, n) /\ SenderStep(p, m)
            BY <1>1, <3>1, <3>2, OtherFields
        <3> DEFINE r == ResendFrom(m, p.confirm_ns)
        <3>4. PeerOK(r, n) /\ SenderStep(m, r) /\ r.next_nr = m.next_nr
            BY <2>0, <3>3, ResendOK
        <3>5. q = r
            BY <2>1
        <3> HIDE DEF q, r
        <3>6. r \in PeerType
            BY <3>4 DEF PeerOK
        <3>7. SenderStep(p, r)
            BY <2>0, <3>1, <3>3, <3>4, <3>6, SenderSteps
        <3> QED
            BY <3>1, <3>4, <3>5, <3>7
    <2>2. CASE ~(p.retries > 0)
        <3>1. /\ PeerOK(SwitchToDisconnected(p), n) /\ Len(SwitchToDisconnected(p).window) = 0
              /\ SwitchToDisconnected(p).state = "DISCONNECTED"
            BY <1>1, DownOK
        <3>2. q = SwitchToDisconnected(p)
            BY <2>2
        <3> QED
            BY <3>1, <3>2 DEF SenderStep, LinkUp
    <2> QED
        BY <2>1, <2>2
<1> HIDE DEF q
<1> QED
    BY <1>1, <1>2, <1>3, <1>4, TimerNext DEF h, n, p

LEMMA KeepAliveNext ==
  ASSUME NrmInv, OrderInv, NEW s \in All, NrmKeepAlive(s)
  PROVE  OrderInv'
<1> DEFINE h == station[s]
           k == Cur(h)
           p == h.peers[k]
           n == sent[s][k]
           d == SwitchToDisconnected(p)
           m == [p EXCEPT !.ka_confirmed = FALSE]
           f == S("RR", p.next_nr)
           r == PutUS(m, f)
<1>1. k \in PeersOf(s) /\ PeerOK(p, n) /\ p \in PeerType
    BY OrderFacts, StationFacts DEF Cur, StationOrder
<1>2. LinkUp(p) /\ (TimerStep(s, WithPeer(h, k, d, FALSE)) \/ TimerStep(s, WithPeer(h, k, r, FALSE)))
    BY DEF NrmKeepAlive
<1>3. h.addr[k] # NoAddr
    BY <1>2 DEF TimerStep
<1>4. PeerOK(d, n) /\ SenderStep(p, d) /\ ~LinkUp(d)
    <2> HIDE DEF p, n
    <2>1. /\ PeerOK(d, n) /\ Len(d.window) = 0 /\ d.state = "DISCONNECTED"
        BY <1>1, DownOK
    <2> QED
        BY <2>1 DEF SenderStep, LinkUp
<1>5. PeerOK(r, n) /\ SenderStep(p, r) /\ r.next_nr = p.next_nr
    <2>1. /\ m \in PeerType /\ m.window = p.window /\ m.last_ns = p.last_ns
          /\ m.confirm_ns = p.confirm_ns /\ m.s_queue = p.s_queue /\ m.can_accept = p.can_accept
          /\ m.state = p.state /\ m.next_nr = p.next_nr
        BY <1>1 DEF PeerType
    <2>2. p.next_nr \in SeqNums
        BY <1>1 DEF PeerType
    <2> HIDE DEF m, p, n
    <2>3. LinkUp(p) => LinkUp(m)
        BY <2>1 DEF LinkUp
    <2>4. PeerOK(m, n) /\ SenderStep(p, m)
        BY <1>1, <2>1, <2>3, OtherFields
    <2>5. f \in Frames /\ f.type # "I" /\ ~Barrier(f)
        BY <2>2, FrameTypesOf DEF STypes, Barrier
    <2> HIDE DEF f
    <2>6. PeerOK(r, n) /\ SenderStep(m, r) /\ r.next_nr = m.next_nr
        BY <2>4, <2>5, PutOK
    <2>7. r \in PeerType
        BY <2>6 DEF PeerOK
    <2> HIDE DEF r
    <2> QED
        BY <1>1, <2>1, <2>4, <2>6, <2>7, SenderSteps
<1> HIDE DEF d, r
<1> QED
    BY <1>1, <1>2, <1>3, <1>4, <1>5, TimerNext DEF h, n, p

LEMMA ReturnMarkerNext ==
  ASSUME NrmInv, OrderInv, ReturnMarker
  PROVE  OrderInv'
<1> DEFINE s == Primary
           h == station[s]
           g == [h EXCEPT !.marker = TRUE]
<1>1. s \in All
    BY DEF All
<1>2. /\ StationOrder(s, h, sent[s]) /\ StationInv(s, h) /\ h \in StationType(PeersOf(s))
    BY <1>1, OrderFacts, StationFacts
<1>3. station' = [station EXCEPT ![s] = g] /\ UNCHANGED <<bus, sent, got, cut>>
    BY DEF ReturnMarker, TimerStep
<1> HIDE DEF h
<1>4. g \in StationType(PeersOf(s)) /\ g.addr = h.addr /\ g.peers = h.peers /\ g.frames = h.frames
    BY <1>2 DEF StationType
<1> HIDE DEF g
<1>5. StationOrder(s, g, sent[s])
    BY <1>2, <1>4 DEF StationOrder, StationInv, Registered
<1>6. \A k : Seen(g, k) = Seen(h, k)
    BY <1>4 DEF Seen, Waits
<1>7. Calm(s, h, g) /\ Steady(s, h, g)
    BY <1>2, <1>4, <1>6, Unmoved DEF Calm, Steady
<1> HIDE DEF s
<1> QED
    BY <1>1, <1>3, <1>5, <1>7, CalmNext DEF h

LEMMA NextCallNext ==
  ASSUME NrmInv, OrderInv, NEW s \in All, NextCall(s)
  PROVE  OrderInv'
<1> DEFINE h == station[s]
           n == h.next_peer
           g == [h EXCEPT !.held = FALSE, !.peer = n]
<1>1. /\ StationOrder(s, h, sent[s]) /\ StationInv(s, h) /\ h \in StationType(PeersOf(s))
      /\ n \in PeersOf(s)
    BY OrderFacts, StationFacts
<1>2. station' = [station EXCEPT ![s] = g] /\ UNCHANGED <<bus, sent, got, cut>>
    BY DEF NextCall, NrmInv
<1> HIDE DEF h, n
<1>3. g \in StationType(PeersOf(s)) /\ g.addr = h.addr /\ g.peers = h.peers /\ g.frames = h.frames
    BY <1>1 DEF StationType
<1> HIDE DEF g
<1>4. StationOrder(s, g, sent[s])
    BY <1>1, <1>3 DEF StationOrder, StationInv, Registered
<1>5. \A k : Seen(g, k) = Seen(h, k)
    BY <1>3 DEF Seen, Waits
<1>6. Calm(s, h, g) /\ Steady(s, h, g)
    BY <1>1, <1>3, <1>5, Unmoved DEF Calm, Steady
<1> QED
    BY <1>2, <1>4, <1>6, CalmNext DEF h

LEMMA SameNext ==
  ASSUME OrderInv, UNCHANGED <<station, bus, sent, got, cut>>
  PROVE  OrderInv'
<1>1. Order(station', bus', sent', got', cut')
    BY DEF OrderInv
<1> QED
    BY <1>1, OrderNext

LEMMA LoseNext ==
  ASSUME OrderInv, bus # <<>>, bus' = Tail(bus), UNCHANGED <<station, sent, got, cut>>
  PROVE  OrderInv'
<1>1. Order(station, Tail(bus), sent, got, cut)
    BY LoseOrder DEF OrderInv
<1>2. Order(station', bus', sent', got', cut')
    BY <1>1
<1> QED
    BY <1>2, OrderNext

LEMMA SendPacketNext ==
  ASSUME NrmInv, OrderInv, NEW s \in All, NEW address \in All, SendPacketTo(s, address)
  PROVE  OrderInv'
<1> DEFINE h == station[s]
           k == PeerOfAddress(s, h, address)
           p == h.peers[k]
           n == sent[s][k]
           m == [p EXCEPT !.window = Append(@, n + 1), !.last_ns = SeqNext(@)]
           r == [m EXCEPT !.can_accept = ~TxFull(m)]
           x == [p EXCEPT !.can_accept = ~TxFull(p)]
           f == IF FreeSlots(h) THEN [h EXCEPT !.peers[k] = r]
                                ELSE [h EXCEPT !.peers[k].can_accept = ~TxFull(p)]
           v == FreeSlots(h) /\ FreeSlots(f)
           g == [f EXCEPT !.free_slots = v]
           y == IF FreeSlots(h) THEN r ELSE x
           pe == [h.peers EXCEPT ![k] = y]
<1>1. /\ StationOrder(s, h, sent[s]) /\ StationInv(s, h) /\ h \in StationType(PeersOf(s))
      /\ h.peers \in [PeersOf(s) -> PeerType] /\ sent \in [All -> [PeersOf(Primary) -> Nat]]
    BY OrderFacts, StationFacts
<1>2. /\ station' = [station EXCEPT ![s] = g]
      /\ k # NoPeer /\ UNCHANGED <<bus, got, cut>> /\ p.can_accept
      /\ sent' = IF FreeSlots(h) THEN [sent EXCEPT ![s][k] = @ + 1] ELSE sent
    BY DEF SendPacketTo
<1>3. k \in PeersOf(s) /\ k \in PeersOf(Primary)
    BY <1>1, <1>2, AddressedPeer, PeersOfPrimary DEF PeerOfAddress
<1>0. h.addr[k] # NoAddr
    <2> DEFINE field == Field(IF s # Primary /\ address = Primary THEN Field(s) ELSE address)
    <2>1. field # NoAddr
        BY FieldFacts
    <2>2. k = AddressFieldToPeer(s, h, field)
        BY DEF PeerOfAddress
    <2> HIDE DEF field, h
    <2> QED
        BY <1>1, <1>2, <2>1, <2>2, AddressedPeer
<1> HIDE DEF h, k
<1>4. /\ p \in PeerType /\ PeerOK(p, n) /\ p.s_queue = <<>> /\ n \in Nat
    BY <1>1, <1>3 DEF StationOrder
<1>5. LinkUp(p) /\ h.addr[k] # NoAddr
    BY <1>0, <1>2, <1>4 DEF PeerOK
<1>6. f = [h EXCEPT !.peers = pe]
    <2>1. CASE FreeSlots(h)
        BY <1>1, <2>1 DEF StationType
    <2>2. CASE ~FreeSlots(h)
        BY <1>1, <1>3, <2>2 DEF StationType
    <2> QED
        BY <2>1, <2>2
<1>7. /\ x \in PeerType /\ x.state = p.state /\ x.window = p.window /\ x.last_ns = p.last_ns
      /\ x.confirm_ns = p.confirm_ns /\ x.s_queue = p.s_queue /\ x.next_nr = p.next_nr
      /\ x.can_accept => ~TxFull(p)
    <2>1. (~TxFull(p)) \in BOOLEAN
        OBVIOUS
    <2> HIDE DEF p
    <2> QED
        BY <1>4, <2>1 DEF PeerType
<1>8. PeerOK(x, n)
    <2>1. p.last_ns \in SeqNums /\ p.confirm_ns \in SeqNums
        BY <1>4 DEF PeerType
    <2>2. ~TxFull(p) => Dist(p.confirm_ns, p.last_ns) < MaxWindow
        BY <2>1, NotFull DEF TxFull
    <2> HIDE DEF p, n, x
    <2> QED
        BY <1>4, <1>5, <1>7, <2>2 DEF PeerOK, LinkUp
<1>9. /\ PeerOK(r, n + 1) /\ LinkUp(r) /\ Len(r.window) = Len(p.window) + 1
      /\ r.last_ns = SeqNext(p.last_ns) /\ r.s_queue = p.s_queue /\ r.next_nr = p.next_nr
    <2>1. r = Accepting(Appended(p, n))
        BY DEF Appended, Accepting
    <2>2. PeerOK(p, n) /\ p.can_accept = TRUE
        BY <1>2, <1>4 DEF PeerType
    <2> HIDE DEF p, n, m, r
    <2> QED
        BY <2>1, <2>2, SendOK
<1>10. r \in PeerType
    BY <1>9 DEF PeerOK
<1> HIDE DEF p, n, r, x
<1>11. y \in PeerType /\ y.s_queue = <<>> /\ LinkUp(y) /\ y.next_nr = p.next_nr
    BY <1>4, <1>5, <1>7, <1>9, <1>10 DEF LinkUp
<1> HIDE DEF f, y
<1>12. /\ pe \in [PeersOf(s) -> PeerType] /\ pe[k] = y
       /\ \A j \in PeersOf(s) : j # k => pe[j] = h.peers[j]
    BY <1>1, <1>3, <1>11
<1> HIDE DEF pe
<1>13. v \in BOOLEAN
    BY DEF FreeSlots
<1> HIDE DEF v
<1>14. /\ g \in StationType(PeersOf(s)) /\ g.peers = pe /\ g.addr = h.addr /\ g.frames = h.frames
    BY <1>1, <1>6, <1>12, <1>13, ZenonT(30) DEF StationType
<1> HIDE DEF g
<1>15. StationInv(s, g) /\ Steady(s, h, g)
    BY <1>1, <1>5, <1>11, <1>12, <1>14 DEF StationInv, Registered, LinkUp, Steady, p
<1>16. \A j : Waits(g, j) <=> Waits(h, j)
    BY <1>14 DEF Waits
<1>17. \A j \in PeersOf(s) : j # k => Seen(g, j) = Seen(h, j)
    BY <1>12, <1>14, <1>16 DEF Seen
<1>18. CASE FreeSlots(h)
    <2>1. /\ sent' = [sent EXCEPT ![s][k] = @ + 1] /\ y = r
        BY <1>2, <1>18 DEF y
    <2>2. /\ sent'[s][k] = n + 1 /\ \A j \in PeersOf(s) \ {k} : sent'[s][j] = sent[s][j]
          /\ \A z \in All \ {s} : sent'[z] = sent[z]
        BY <1>1, <1>3, <2>1 DEF n
    <2>3. \A j \in PeersOf(s) : PeerOK(g.peers[j], sent'[s][j]) /\ g.peers[j].s_queue = <<>>
        BY <1>1, <1>9, <1>11, <1>12, <1>14, <2>1, <2>2 DEF StationOrder
    <2>4. StationOrder(s, g, sent'[s])
        BY <1>1, <1>5, <1>14, <1>15, <2>2, <2>3 DEF StationOrder
    <2>5. PeerOK(h.peers[k], n) /\ PeerOK(g.peers[k], n + 1)
        BY <1>4, <1>9, <1>12, <1>14, <2>1 DEF p
    <2>6. /\ Len(Seen(g, k).window) = Len(Seen(h, k).window) + 1
          /\ Seen(g, k).last_ns = SeqNext(Seen(h, k).last_ns)
        <3>1. h.peers[k] = p /\ g.peers[k] = r /\ h.peers[k] \in PeerType /\ g.peers[k] \in PeerType
            BY <1>4, <1>10, <1>12, <1>14, <2>1 DEF p
        <3>2. /\ Seen(g, k).window = r.window /\ Seen(h, k).window = p.window
              /\ Seen(g, k).last_ns = r.last_ns /\ Seen(h, k).last_ns = p.last_ns
            BY <3>1, SeenFacts
        <3> QED
            BY <1>9, <3>2
    <2>7. Seen(g, k).s_queue = Seen(h, k).s_queue
        <3>1. h.peers[k] \in PeerType /\ g.peers[k] \in PeerType
            BY <2>5 DEF PeerOK
        <3> QED
            BY <1>16, <3>1 DEF Seen, PeerType
    <2>8. Order(station, bus, sent, got, cut) /\ Replaced(station, s, g, station')
        BY <1>2, OrderFacts
    <2>9. Order(station', bus, sent', got, cut)
        BY <1>3, <1>5, <1>14, <1>15, <1>17, <2>2, <2>4, <2>6, <2>7, <2>8, SendOrder DEF h, n
    <2> QED
        BY <1>2, <2>9, OrderNext
<1>19. CASE ~FreeSlots(h)
    <2>1. sent' = sent /\ y = x
        BY <1>2, <1>19 DEF y
    <2>2. \A j \in PeersOf(s) : PeerOK(g.peers[j], sent[s][j]) /\ g.peers[j].s_queue = <<>>
        BY <1>1, <1>8, <1>11, <1>12, <1>14, <2>1 DEF StationOrder, n
    <2>3. StationOrder(s, g, sent[s])
        BY <1>1, <1>14, <1>15, <2>2 DEF StationOrder
    <2>4. Calm(s, h, g)
        <3> SUFFICES ASSUME NEW j \in PeersOf(s) PROVE SenderStep(Seen(h, j), Seen(g, j))
            BY <1>14 DEF Calm
        <3>1. CASE j # k
            BY <1>1, <1>17, <3>1, Unmoved DEF Calm
        <3>2. CASE j = k
            <4>1. /\ Seen(h, k).window = p.window /\ Seen(h, k).last_ns = p.last_ns
                  /\ ClearFrom(Seen(h, k).s_queue, 0) <=> ~Waits(h, k)
                BY <1>4, SeenFacts, Typed DEF p
            <4>2. /\ Seen(g, k).window = p.window /\ Seen(g, k).last_ns = p.last_ns
                  /\ ClearFrom(Seen(g, k).s_queue, 0) <=> ~Waits(g, k)
                BY <1>3, <1>7, <1>12, <1>14, <2>1, <2>2, SeenFacts, Typed
            <4>3. Len(p.window) \in Nat
                BY <1>4 DEF PeerType
            <4> QED
                BY <1>16, <3>2, <4>1, <4>2, <4>3 DEF SenderStep
        <3> QED
            BY <3>1, <3>2
    <2> QED
        BY <1>2, <1>15, <2>1, <2>3, <2>4, CalmNext DEF h
<1> QED
    BY <1>18, <1>19

LEMMA StationInvNext ==
  ASSUME NrmInv', NEW s \in All
  PROVE  StationInv(s, station'[s])
<1>1. (\A t \in All : StationInv(t, station[t]))' <=> \A t \in All : StationInv(t, station'[t])
    BY DEF StationInv, StationType, Registered, All, LinkUp
<1> QED
    BY <1>1 DEF NrmInv

\* The record q of the current peer when frame f of station record o is sent.
Sendable(o, k, q, f) ==
  LET p == o.peers[k]
  IN  /\ Kept(p, q) /\ q.s_queue = <<>> /\ q.last_ns = p.last_ns /\ q.next_nr = p.next_nr
      /\ q.can_accept = p.can_accept
      /\ \/ f.type # "I" /\ (Len(p.window) = 0 \/ Waits(o, k) \/ ~Barrier(f))
         \/ /\ f.type = "I" /\ ~Waits(o, k) /\ HasIFrame(p)
            /\ f.ns = p.next_ns /\ f.data = p.window[NextOffset(p) + 1]
\* Slots are freed, at most.
Freed(frames, fr) ==
  /\ fr \in [0 .. SuSize - 1 -> SlotType]
  /\ \A i \in 0 .. SuSize - 1 : fr[i] = frames[i] \/ fr[i] = FreeSlot

LEMMA TransmitNext ==
  ASSUME NrmInv, NrmInv', OrderInv, NEW s \in All, NEW k, k = Cur(station[s]),
         NEW f \in Frames, NEW pf \in BOOLEAN, NEW q, Sendable(station[s], k, q, f),
         NEW fr, Freed(station[s].frames, fr), NEW lk \in 0 .. SuSize - 1,
         MayTransmit(s), Put(s, f, pf, Sending(station[s], k, q, fr, lk))
  PROVE  OrderInv'
<1> DEFINE o == station[s]
           p == o.peers[k]
           n == sent[s]
           h == Sending(o, k, q, fr, lk)
           m == [from |-> s, field |-> o.addr[k], frame |-> f, pf |-> pf]
           g == OnFrameSend(s, h, pf)
<1>1. /\ Order(station, bus, sent, got, cut) /\ StationOrder(s, o, n)
      /\ \A x : station' = [station EXCEPT ![s] = x] => Replaced(station, s, x, station')
      /\ o \in StationType(PeersOf(s)) /\ k \in PeersOf(s) /\ o.peers \in [PeersOf(s) -> PeerType]
      /\ o.addr \in [PeersOf(s) -> 0 .. 255]
    BY OrderFacts, StationFacts DEF Cur
<1>2. o.addr[k] # NoAddr
    BY DEF MayTransmit
<1>3. /\ bus' = Append(bus, m) /\ station' = [station EXCEPT ![s] = g] /\ UNCHANGED <<sent, got, cut>>
    BY DEF Put
<1>4. Replaced(station, s, g, station') /\ StationInv(s, g)
    <2>1. Replaced(station, s, g, station')
        BY <1>1, <1>3
    <2> QED
        BY <2>1, StationInvNext DEF Replaced
<1>5. m \in BusType /\ m.from = s /\ m.field = o.addr[k] /\ m.frame = f
    <2>1. o.addr[k] \in 0 .. 254
        BY <1>1, <1>2, RegisteredField
    <2> QED
        BY <2>1 DEF BusType
<1> DEFINE pe == [o.peers EXCEPT ![k] = q]
<1>6. g.peers = pe /\ g.addr = o.addr /\ g.frames = fr
    <2>1. h = [peers |-> pe, addr |-> o.addr, next_peer |-> o.next_peer, peer |-> o.peer,
               held |-> o.held, marker |-> o.marker,
               free_slots |-> o.free_slots, frames |-> fr, lookup |-> lk]
        <3>1. h = [o EXCEPT !.frames = fr, !.lookup = lk, !.peers = pe]
            BY DEF Sending
        <3> HIDE DEF h, pe, o
        <3> QED
            BY <1>1, <3>1 DEF StationType
    <2> HIDE DEF h, pe, o
    <2> QED
        BY <2>1 DEF OnFrameSend
<1>7. g.peers[k] = q /\ \A j \in PeersOf(s) \ {k} : g.peers[j] = o.peers[j]
    BY <1>1, <1>6
<1> HIDE DEF g, h, m, o, n
<1>8. /\ q \in PeerType /\ q.window = p.window /\ q.state = p.state /\ q.confirm_ns = p.confirm_ns
      /\ q.s_queue = <<>> /\ q.last_ns = p.last_ns /\ q.next_nr = p.next_nr
      /\ q.can_accept = p.can_accept
    BY DEF Sendable, Kept, o
<1>9. PeerOK(p, n[k]) /\ PeerOK(q, n[k])
    <2>1. PeerOK(p, n[k]) /\ p.s_queue = <<>>
        BY <1>1 DEF StationOrder
    <2>2. LinkUp(p) => LinkUp(q)
        BY <1>8 DEF LinkUp
    <2> QED
        BY <1>8, <2>1, <2>2, OtherFields
<1>10. \A j : Waits(g, j) => Waits(o, j)
    <2>1. FreeSlot.type # "SU"
        BY DEF FreeSlot
    <2> QED
        BY <1>6, <2>1 DEF Waits, Freed, o
<1>11. StationOrder(s, g, n)
    <2>1. NoIFrames(g)
        <3>1. FreeSlot.type # "SU"
            BY DEF FreeSlot
        <3>2. NoIFrames(o)
            BY <1>1 DEF StationOrder, NoIFrames
        <3> QED
            BY <1>6, <3>1, <3>2 DEF NoIFrames, Freed, o
    <2>2. \A j \in PeersOf(s) : PeerOK(g.peers[j], n[j]) /\ g.peers[j].s_queue = <<>>
        BY <1>1, <1>7, <1>8, <1>9 DEF StationOrder
    <2> QED
        BY <1>1, <1>4, <1>6, <2>1, <2>2 DEF StationOrder, NoIFrames
<1>12. Steady(s, o, g)
    BY <1>7, <1>8 DEF Steady, LinkUp
<1>13. ASSUME NEW j \in PeersOf(s) \ {k}
       PROVE  SenderStep(Seen(o, j), Seen(g, j))
    <2>1. /\ Seen(o, j).window = o.peers[j].window /\ Seen(o, j).last_ns = o.peers[j].last_ns
          /\ ClearFrom(Seen(o, j).s_queue, 0) <=> ~Waits(o, j)
        BY <1>1, SeenFacts, Typed DEF StationOrder
    <2>2. /\ Seen(g, j).window = g.peers[j].window /\ Seen(g, j).last_ns = g.peers[j].last_ns
          /\ ClearFrom(Seen(g, j).s_queue, 0) <=> ~Waits(g, j)
        BY <1>11, SeenFacts, Typed DEF StationOrder
    <2>3. g.peers[j] = o.peers[j] /\ Len(o.peers[j].window) \in Nat
        BY <1>1, <1>7 DEF PeerType
    <2> QED
        BY <1>10, <2>1, <2>2, <2>3 DEF SenderStep
<1>14. Transmits(Seen(o, k), Seen(g, k), f)
    <2>1. /\ Seen(o, k).window = p.window /\ Seen(o, k).last_ns = p.last_ns /\ Seen(o, k).state = p.state
          /\ Seen(o, k).confirm_ns = p.confirm_ns /\ Seen(o, k).next_ns = p.next_ns
          /\ ClearFrom(Seen(o, k).s_queue, 0) <=> ~Waits(o, k)
          /\ Seen(o, k).s_queue = <<>> <=> ~Waits(o, k)
        BY <1>9, SeenFacts, Typed
    <2>2. PeerOK(g.peers[k], n[k])
        BY <1>7, <1>9
    <2>3. /\ Seen(g, k).window = p.window /\ Seen(g, k).last_ns = p.last_ns
          /\ ClearFrom(Seen(g, k).s_queue, 0) <=> ~Waits(g, k)
          /\ Seen(g, k).s_queue = <<>> <=> ~Waits(g, k)
        BY <1>7, <1>8, <2>2, SeenFacts, Typed
    <2>4. \/ f.type # "I" /\ (Len(p.window) = 0 \/ Waits(o, k) \/ ~Barrier(f))
          \/ /\ f.type = "I" /\ ~Waits(o, k) /\ HasIFrame(p)
             /\ f.ns = p.next_ns /\ f.data = p.window[NextOffset(p) + 1]
        BY DEF Sendable, o
    <2>5. NextOffset(Seen(o, k)) = NextOffset(p) /\ (HasIFrame(p) => HasIFrame(Seen(o, k)))
        BY <2>1 DEF NextOffset, HasIFrame, LinkUp
    <2> HIDE DEF p
    <2>6. CASE f.type # "I"
        BY <1>10, <2>1, <2>3, <2>4, <2>6 DEF Transmits
    <2>7. CASE f.type = "I"
        BY <1>10, <2>1, <2>3, <2>4, <2>5, <2>7 DEF Transmits
    <2> QED
        BY <2>6, <2>7
<1>15. Order(station', Append(bus, m), sent, got, cut)
    BY <1>1, <1>2, <1>4, <1>5, <1>6, <1>11, <1>12, <1>13, <1>14, PutOrder DEF o, n
<1> QED
    BY <1>3, <1>15, OrderNext

\* The other fields of the record when an S-frame has told N(R).
LEMMA SentNrSame ==
  ASSUME NEW p \in PeerType, NEW f \in Frames
  PROVE  /\ Kept(p, SentNr(p, f)) /\ SentNr(p, f).s_queue = p.s_queue /\ SentNr(p, f).last_ns = p.last_ns
         /\ SentNr(p, f).next_nr = p.next_nr /\ SentNr(p, f).can_accept = p.can_accept
<1> DEFINE v == IF f.type \in {"RR", "REJ"} THEN f.nr ELSE p.sent_nr
<1>1. SentNr(p, f) = [p EXCEPT !.sent_nr = v]
    BY DEF SentNr, PeerType
<1> HIDE DEF v
<1>2. /\ SentNr(p, f).s_queue = p.s_queue /\ SentNr(p, f).last_ns = p.last_ns
      /\ SentNr(p, f).next_nr = p.next_nr /\ SentNr(p, f).can_accept = p.can_accept
    BY <1>1 DEF PeerType
<1> QED
    BY <1>2, SentNrKeeps

LEMMA TransmitServiceNext ==
  ASSUME NrmInv, NrmInv', OrderInv, NEW s \in All, TransmitService(s)
  PROVE  OrderInv'
<1> DEFINE o == station[s]
           k == Cur(o)
           i == ServiceSlot(o, k)
           f == o.frames[i].data
           q == SentNr(o.peers[k], f)
           h == [o EXCEPT !.frames = Free(@, i), !.lookup = LookupAfter(SuSize, i),
                          !.peers[k] = SentNr(@, f)]
<1>1. /\ StationOrder(s, o, sent[s]) /\ o \in StationType(PeersOf(s)) /\ k \in PeersOf(s)
      /\ o.peers[k] \in PeerType /\ o.frames \in [0 .. SuSize - 1 -> SlotType]
    BY OrderFacts, StationFacts DEF Cur, StationType
<1>2. MayTransmit(s) /\ HasService(o, k) /\ Put(s, f, TRUE, h)
    BY DEF TransmitService
<1>3. i \in 0 .. SuSize - 1 /\ f \in Frames
    BY <1>1, <1>2, ServiceSlotType
<1>4. o.frames[i].type = "SU" /\ o.frames[i].address = o.addr[k]
    <2>1. o.lookup \in 0 .. SuSize - 1 /\ ~GetNextIsNull(o.frames, SuSize, {"SU"}, o.addr[k], 0)
        BY <1>1, <1>2 DEF StationType, HasService
    <2>2. \E j \in 0 .. SuSize - 1 : GetNextIs(o.frames, SuSize, o.lookup, {"SU"}, o.addr[k], 0, j)
        BY <2>1, SearchFinds
    <2>3. GetNextIs(o.frames, SuSize, o.lookup, {"SU"}, o.addr[k], 0, i)
        BY <2>2 DEF ServiceSlot
    <2>4. o.frames[i].type = "SU"
        BY <2>3 DEF GetNextIs, Matches
    <2> QED
        BY <2>3, <2>4 DEF GetNextIs, Matches
<1>5. f.type # "I" /\ (Waits(o, k) \/ ~Barrier(f))
    BY <1>1, <1>3, <1>4 DEF StationOrder, Waits
<1> HIDE DEF i, f, k
<1>6. Freed(o.frames, Free(o.frames, i))
    BY <1>1, <1>3, SlotFacts DEF Freed, Free
<1>7. LookupAfter(SuSize, i) \in 0 .. SuSize - 1
    BY <1>3, LookupType
<1>8. Sendable(o, k, q, f)
    <2>1. o.peers[k].s_queue = <<>>
        BY <1>1 DEF StationOrder
    <2> QED
        BY <1>1, <1>3, <1>5, <2>1, SentNrSame DEF Sendable
<1> HIDE DEF q
<1>9. h = Sending(o, k, q, Free(o.frames, i), LookupAfter(SuSize, i))
    BY <1>1 DEF StationType, Sending, q
<1> HIDE DEF h
<1>10. TRUE \in BOOLEAN /\ k = Cur(o)
    BY DEF k
<1> QED
    BY <1>2, <1>3, <1>6, <1>7, <1>8, <1>9, <1>10, TransmitNext

LEMMA TransmitNumberedNext ==
  ASSUME NrmInv, NrmInv', OrderInv, NEW s \in All, TransmitNumbered(s)
  PROVE  OrderInv'
<1> DEFINE o == station[s]
           k == Cur(o)
           p == o.peers[k]
           q == [p EXCEPT !.next_ns = SeqNext(@), !.sent_nr = p.next_nr]
           d == p.window[NextOffset(p) + 1]
           f == I(p.next_ns, p.next_nr, d)
           h == [o EXCEPT !.peers[k] = q]
<1>1. /\ StationOrder(s, o, sent[s]) /\ o \in StationType(PeersOf(s)) /\ k \in PeersOf(s)
      /\ p \in PeerType /\ p.s_queue = <<>>
    BY OrderFacts, StationFacts DEF Cur, StationOrder
<1>2. MayTransmit(s) /\ ~HasService(o, k) /\ HasIFrame(p) /\ Put(s, f, LastOfTurn(q), h)
    BY DEF TransmitNumbered
<1>3. ~Waits(o, k)
    <2>1. \A slot : slot.type = "SU" /\ slot.address = o.addr[k] => Matches(slot, {"SU"}, o.addr[k], 0)
        BY DEF Matches
    <2> QED
        BY <1>2, <2>1 DEF HasService, GetNextIsNull, Waits
<1> HIDE DEF o, k
<1>4. f \in Frames /\ f.type = "I" /\ f.ns = p.next_ns /\ f.data = d
    <2>1. /\ p.next_ns \in SeqNums /\ p.next_nr \in SeqNums /\ p.confirm_ns \in SeqNums
          /\ p.window \in Seq(Nat)
        BY <1>1 DEF PeerType
    <2>2. NextOffset(p) \in Nat /\ NextOffset(p) < Len(p.window)
        BY <1>2, <2>1, DistType DEF HasIFrame, NextOffset
    <2> HIDE DEF p
    <2>3. NextOffset(p) + 1 \in 1 .. Len(p.window)
        BY <2>1, <2>2
    <2>4. d \in Nat
        BY <2>1, <2>3
    <2> HIDE DEF d
    <2> QED
        BY <2>1, <2>4, FrameTypesOf
<1>5. Sendable(o, k, q, f)
    <2>1. SeqNext(p.next_ns) \in SeqNums /\ p.next_nr \in SeqNums
        BY <1>1, SeqNextType DEF PeerType
    <2>2. q = [p EXCEPT !.next_ns = SeqNext(p.next_ns), !.sent_nr = p.next_nr]
        BY <1>1 DEF PeerType
    <2>3. /\ Kept(p, q) /\ q.s_queue = p.s_queue /\ q.last_ns = p.last_ns /\ q.next_nr = p.next_nr
          /\ q.can_accept = p.can_accept
        BY <1>1, <2>1, <2>2 DEF Kept, PeerType
    <2> HIDE DEF q, f
    <2> QED
        BY <1>1, <1>2, <1>3, <1>4, <2>3 DEF Sendable
<1>6. LastOfTurn(q) \in BOOLEAN
    BY DEF LastOfTurn, AllFramesAreSent
<1> HIDE DEF q
<1>7. Freed(o.frames, o.frames) /\ o.lookup \in 0 .. SuSize - 1
    BY <1>1 DEF StationType, Freed
<1>8. h = Sending(o, k, q, o.frames, o.lookup)
    BY <1>1 DEF StationType, Sending
<1> HIDE DEF h, f
<1>9. k = Cur(o)
    BY DEF k
<1> QED
    BY <1>2, <1>4, <1>5, <1>6, <1>7, <1>8, <1>9, TransmitNext DEF o

LEMMA PassMarkerNext ==
  ASSUME NrmInv, NrmInv', OrderInv, NEW s \in All, PassMarker(s)
  PROVE  OrderInv'
<1> DEFINE o == station[s]
           k == Cur(o)
           f == IF s = Primary /\ ~LinkUp(o.peers[k]) THEN U("SABM") ELSE S("RR", o.peers[k].next_nr)
           q == SentNr(o.peers[k], f)
           l == LookupAfter(SuSize, FreeServiceSlot(o))
           h == [o EXCEPT !.lookup = LookupAfter(SuSize, FreeServiceSlot(o)),
                          !.peers[k] = SentNr(@, f)]
<1>1. /\ StationOrder(s, o, sent[s]) /\ o \in StationType(PeersOf(s)) /\ k \in PeersOf(s)
      /\ o.peers[k] \in PeerType /\ PeerOK(o.peers[k], sent[s][k]) /\ o.peers[k].s_queue = <<>>
    BY OrderFacts, StationFacts DEF Cur, StationOrder
<1>2. MayTransmit(s) /\ HasFreeSlots(o.frames, SuSize) /\ Put(s, f, TRUE, h)
    BY DEF PassMarker
<1> HIDE DEF o, k
<1>3. /\ f \in Frames /\ f.type # "I"
      /\ Len(o.peers[k].window) = 0 \/ ~Barrier(f)
    <2>1. /\ U("SABM") \in Frames /\ U("SABM").type # "I" /\ o.peers[k].next_nr \in SeqNums
        BY <1>1, FrameTypesOf DEF PeerType, UTypes
    <2>2. /\ S("RR", o.peers[k].next_nr) \in Frames /\ S("RR", o.peers[k].next_nr).type # "I"
          /\ ~Barrier(S("RR", o.peers[k].next_nr))
        BY <2>1, FrameTypesOf DEF STypes, Barrier
    <2>3. ~LinkUp(o.peers[k]) => Len(o.peers[k].window) = 0
        BY <1>1 DEF PeerOK
    <2> QED
        BY <2>1, <2>2, <2>3
<1> HIDE DEF f
<1>4. l \in 0 .. SuSize - 1
    BY <1>1, <1>2, FreeServiceSlotType, LookupType
<1>5. Sendable(o, k, q, f)
    BY <1>1, <1>3, SentNrSame DEF Sendable
<1>6. h = [o EXCEPT !.lookup = l, !.peers = [o.peers EXCEPT ![k] = q]]
    BY <1>1 DEF StationType
<1> HIDE DEF q, l, h
<1>7. h = Sending(o, k, q, o.frames, l)
    BY <1>1, <1>6 DEF StationType, Sending
<1>8. Freed(o.frames, o.frames)
    BY <1>1 DEF StationType, Freed
<1>9. TRUE \in BOOLEAN /\ k = Cur(o)
    BY DEF k
<1> QED
    BY <1>2, <1>3, <1>4, <1>5, <1>7, <1>8, <1>9, TransmitNext DEF o

\* Who sent the frame that station s takes for its peer k: the other end of the
\* connection whose record k is.
LEMMA SenderOf ==
  ASSUME NEW s \in All, NEW h, NEW n, StationOrder(s, h, n), NEW m \in BusType, s # m.from,
         m.from # Primary => m.field = Field(m.from),
         NEW k, k = AddressFieldToPeer(s, h, m.field), k # NoPeer
  PROVE  /\ m.from \in All /\ Linked(m.from, s) /\ m.field = Field(Sec(m.from, s))
         /\ k \in PeersOf(s) /\ h.addr[k] # NoAddr
         /\ Knows(s, h, m.from) /\ At(s, h, m.from) = k
<1> DEFINE x == m.from
<1>1. m.field \in 0 .. 254 /\ x \in All
    BY DEF BusType
<1>2. m.field # NoAddr /\ StationInv(s, h)
    <2>1. m.field # NoAddr
        BY <1>1 DEF NoAddr
    <2> QED
        BY <2>1 DEF StationOrder
<1>3. k \in PeersOf(s) /\ h.addr[k] # NoAddr
    BY <1>2, AddressedPeer
<1> HIDE DEF x
<1>4. Linked(x, s) /\ m.field = Field(Sec(x, s)) /\ h.addr[k] = Field(Sec(s, x))
    <2>1. CASE s = Primary
        <3>1. x # Primary /\ m.field = Field(x)
            BY <2>1 DEF x
        <3>2. h.addr[k] = m.field
            <4>1. \E j \in PeersOf(s) : h.addr[j] = m.field
                BY <2>1 DEF AddressFieldToPeer
            <4> QED
                BY <2>1, <4>1 DEF AddressFieldToPeer
        <3> QED
            BY <2>1, <3>1, <3>2 DEF Linked, Sec
    <2>2. CASE s # Primary
        <3>1. m.field = Field(s)
            BY <2>2 DEF AddressFieldToPeer
        <3>2. x = Primary
            BY <1>1, <3>1, Fields DEF x
        <3>3. h.addr[k] = Field(s)
            <4>1. PICK t \in All : Linked(s, t) /\ h.addr[k] = Field(Sec(s, t))
                BY <1>3 DEF StationOrder
            <4> QED
                BY <2>2, <4>1 DEF Sec
        <3> QED
            BY <2>2, <3>1, <3>2, <3>3 DEF Linked, Sec
    <2> QED
        BY <2>1, <2>2
<1>5. Linked(s, x)
    BY <1>4 DEF Linked
<1>6. Knows(s, h, x) /\ At(s, h, x) = k
    BY <1>1, <1>3, <1>4, <1>5, AtOnly DEF x
<1> QED
    BY <1>1, <1>3, <1>4, <1>6 DEF x

LEMMA ReceiveNext ==
  ASSUME NrmInv, NrmInv', OrderInv, NEW s \in All, Receive(s)
  PROVE  OrderInv'
<1> DEFINE m == Head(bus)
           x == m.from
           h == station[s]
           n == sent[s]
           k == AddressFieldToPeer(s, h, m.field)
           p == h.peers[k]
           f == m.frame
           q == OnFrameRead(p, f)
           numbered == LinkUp(p) /\ f.type \in {"I", "RR", "REJ"}
           signal == \/ q.state = "CONNECTED" /\ (p.state # "CONNECTED" \/ f.type = "SABM")
                     \/ numbered /\ Confirms(p, f.nr) > 0
           g == WithPeer(h, k, q, signal)
           e == [g EXCEPT !.marker = @ \/ m.pf]
<1>1. /\ Order(station, bus, sent, got, cut) /\ StationOrder(s, h, n)
      /\ \A y : station' = [station EXCEPT ![s] = y] => Replaced(station, s, y, station')
    BY OrderFacts
<1>2. /\ bus # <<>> /\ bus' = Tail(bus) /\ k # NoPeer /\ s # x
      /\ station' = [station EXCEPT ![s] = e] /\ UNCHANGED <<sent, cut>>
      /\ got' = IF numbered /\ f.type = "I" /\ f.ns = p.next_nr
                  THEN [got EXCEPT ![x][s] = Append(@, f.data)] ELSE got
    BY DEF Receive, Complete
<1>3. m \in BusType /\ (x # Primary => m.field = Field(x))
    BY <1>1, <1>2, TailFrames
<1>4. f \in Frames /\ f.data \in Nat
    <2> HIDE DEF m
    <2>1. m.frame \in Frames
        BY <1>3 DEF BusType
    <2> QED
        BY <2>1 DEF Frames
<1>5. /\ x \in All /\ Linked(x, s) /\ m.field = Field(Sec(x, s))
      /\ k \in PeersOf(s) /\ h.addr[k] # NoAddr /\ Knows(s, h, x) /\ At(s, h, x) = k
    <2> HIDE DEF m, h
    <2> QED
        BY <1>1, <1>2, <1>3, SenderOf
<1>6. PeerOK(p, n[k]) /\ p.s_queue = <<>>
    BY <1>1, <1>5 DEF StationOrder
<1> HIDE DEF m, h, n, k, f, x
<1>7. /\ PeerOK(q, n[k]) /\ SenderStep(p, q) /\ q \in PeerType
      /\ LinkUp(q) /\ ~Barrier(f) => LinkUp(p) /\ q.next_nr = NextNr(p, f)
    <2>1. PeerOK(q, n[k])
        BY <1>4, <1>6, OnFrameReadOK
    <2> QED
        BY <1>4, <1>6, <2>1, OnFrameReadOK DEF PeerOK
<1>8. signal \in BOOLEAN
    OBVIOUS
<1> HIDE DEF q, signal
<1>9. /\ StationOrder(s, g, n) /\ Calm(s, h, g) /\ g.addr = h.addr
      /\ g.peers[k] = [q EXCEPT !.s_queue = <<>>]
      /\ \A j \in PeersOf(s) \ {k} : g.peers[j] = h.peers[j]
    BY <1>1, <1>5, <1>7, <1>8, SwapOrder
<1> HIDE DEF g
\* The marker may come with the frame.
<1>10. /\ e.peers = g.peers /\ e.addr = g.addr /\ e.frames = g.frames
    BY <1>9 DEF StationOrder, StationInv, StationType
<1>11. Replaced(station, s, e, station') /\ StationInv(s, e)
    <2>1. Replaced(station, s, e, station')
        BY <1>1, <1>2
    <2> QED
        BY <2>1, StationInvNext DEF Replaced
<1> HIDE DEF e
<1>12. StationOrder(s, e, n)
    BY <1>9, <1>10, <1>11 DEF StationOrder
<1>13. \A j : Seen(e, j) = Seen(g, j)
    BY <1>10 DEF Seen, Waits
<1>14. Calm(s, h, e)
    BY <1>9, <1>10, <1>13 DEF Calm
<1>15. e.peers[k].state = q.state /\ e.peers[k].next_nr = q.next_nr /\ PeerOK(e.peers[k], n[k])
    <2>1. [q EXCEPT !.s_queue = <<>>].state = q.state /\ [q EXCEPT !.s_queue = <<>>].next_nr = q.next_nr
        BY <1>7 DEF PeerType
    <2> QED
        BY <1>5, <1>9, <1>10, <1>12, <2>1 DEF StationOrder
<1> DEFINE r == View(s, h, x)
           w == View(s, e, x)
<1>16. (LinkUp(r) <=> LinkUp(p)) /\ r.next_nr = p.next_nr
    <2>1. r = Seen(h, k)
        BY <1>5 DEF View
    <2> QED
        BY <1>6, <2>1, SeenFacts, Typed DEF LinkUp, p
<1>17. (LinkUp(w) <=> LinkUp(q)) /\ w.next_nr = q.next_nr
    <2>1. Knows(s, e, x) /\ At(s, e, x) = k
        BY <1>5, <1>9, <1>10 DEF Knows, At
    <2>2. w = Seen(e, k)
        BY <2>1 DEF View
    <2> QED
        BY <1>15, <2>2, SeenFacts, Typed DEF LinkUp
<1>18. LinkUp(w) /\ ~Barrier(f) => LinkUp(r) /\ w.next_nr = NextNr(r, f)
    BY <1>7, <1>16, <1>17 DEF NextNr
<1>19. /\ got' \in [All -> [All -> Seq(Nat)]]
       /\ got'[x][s] = IF LinkUp(r) /\ f.type = "I" /\ f.ns = r.next_nr
                         THEN Append(got[x][s], f.data) ELSE got[x][s]
       /\ \A y, z \in All : ~(y = x /\ z = s) => got'[y][z] = got[y][z]
    <2>1. got \in [All -> [All -> Seq(Nat)]] /\ got[x][s] \in Seq(Nat)
        BY <1>1, <1>5 DEF Order
    <2>2. Append(got[x][s], f.data) \in Seq(Nat)
        BY <1>4, <2>1, AppendProperties
    <2>3. got' = IF LinkUp(r) /\ f.type = "I" /\ f.ns = r.next_nr
                   THEN [got EXCEPT ![x][s] = Append(got[x][s], f.data)] ELSE got
        BY <1>2, <1>5, <1>16, <2>1
    <2> HIDE DEF r, p
    <2> QED
        BY <1>5, <2>1, <2>2, <2>3
<1>20. SteadyBut(s, At(s, h, x), h, e)
    BY <1>5, <1>9, <1>10 DEF SteadyBut
<1>21. Order(station', Tail(bus), sent, got', cut)
    <2>1. /\ station[s] = h /\ sent[s] = n /\ Head(bus).from = x /\ Head(bus).field = Field(Sec(x, s))
          /\ f = Head(bus).frame /\ r = View(s, station[s], x) /\ w = View(s, e, x)
        BY <1>5 DEF m, x, h, n, f
    <2> HIDE DEF r, w
    <2> DEFINE gt2 == got'
               new == station'
    <2>2. Taken(got, gt2, x, s, View(s, h, x), f)
        BY <1>19, <2>1 DEF Taken
    <2>3. Replaced(station, s, e, new) /\ Sent(Head(bus), x, s, f) /\ Takes(View(s, h, x), View(s, e, x), f)
        BY <1>11, <1>18, <2>1 DEF Sent, Takes
    <2>4. /\ Order(station, bus, sent, got, cut) /\ bus # <<>> /\ x \in All /\ Linked(x, s)
          /\ h = station[s] /\ n = sent[s] /\ Knows(s, h, x) /\ StationOrder(s, e, n) /\ Calm(s, h, e)
          /\ SteadyBut(s, At(s, h, x), h, e)
        BY <1>1, <1>2, <1>5, <1>12, <1>14, <1>20, <2>1
    <2> HIDE DEF gt2, new
    <2>5. Order(new, Tail(bus), sent, gt2, cut)
        BY <2>2, <2>3, <2>4, TakeOrder
    <2> QED
        BY <2>5 DEF gt2, new
<1> QED
    BY <1>2, <1>21, OrderNext

LEMMA InitOrder == NrmInit => OrderInv
<1> SUFFICES ASSUME NrmInit PROVE OrderInv
    OBVIOUS
<1>1. /\ station = [s \in All |-> InitStation(s)] /\ bus = <<>>
      /\ sent = [s \in All |-> [k \in PeersOf(Primary) |-> 0]]
      /\ got = [s \in All |-> [a \in All |-> <<>>]]
    BY DEF NrmInit
<1>2. NrmInv
    BY InitNrmInv
<1>3. ASSUME NEW s \in All
      PROVE  /\ station[s].peers = [k \in PeersOf(s) |-> InitPeer]
             /\ station[s].addr = [k \in PeersOf(s) |-> IF s = Primary THEN NoAddr ELSE Field(s)]
             /\ station[s].frames = [i \in 0 .. SuSize - 1 |-> FreeSlot]
             /\ \A k \in PeersOf(s) : sent[s][k] = 0
    BY <1>1, PeersOfPrimary DEF InitStation, QueueReset
<1>4. FreeSlot.type # "SU"
    BY DEF FreeSlot
<1>5. ASSUME NEW s \in All
      PROVE  StationOrder(s, station[s], sent[s])
    <2> DEFINE h == station[s]
    <2>1. StationInv(s, h)
        BY <1>2 DEF NrmInv
    <2>2. \A k \in PeersOf(s) : PeerOK(h.peers[k], sent[s][k]) /\ h.peers[k].s_queue = <<>>
        <3>1. InitPeer.s_queue = <<>>
            BY DEF InitPeer
        <3> QED
            BY <1>3, <3>1, InitPeerOK
    <2>3. \A k \in PeersOf(s) : h.addr[k] # NoAddr => s # Primary /\ h.addr[k] = Field(s) /\ k = 0
        <3>1. h.addr = [k \in PeersOf(s) |-> IF s = Primary THEN NoAddr ELSE Field(s)]
            BY <1>3
        <3> HIDE DEF h
        <3>2. s # Primary => PeersOf(s) = {0}
            BY DEF PeersOf
        <3> QED
            BY <3>1, <3>2
    <2>4. s # Primary => Linked(s, Primary) /\ Sec(s, Primary) = s
        BY DEF Linked, Sec
    <2>5. \A k \in PeersOf(s) : h.addr[k] # NoAddr =>
            \E t \in All : Linked(s, t) /\ h.addr[k] = Field(Sec(s, t))
        BY <2>3, <2>4, Fields
    <2>6. \A j, k \in PeersOf(s) : h.addr[j] = h.addr[k] /\ h.addr[k] # NoAddr => j = k
        BY <2>3
    <2>7. \A i \in 0 .. SuSize - 1 : h.frames[i].type # "SU"
        BY <1>3, <1>4
    <2> QED
        BY <1>3, <2>1, <2>2, <2>5, <2>6, <2>7 DEF StationOrder
<1>6. ASSUME NEW s \in All, NEW t
      PROVE  View(s, station[s], t) = InitPeer /\ Count(s, station[s], sent[s], t) = 0
    <2>1. CASE Knows(s, station[s], t)
        <3> DEFINE k == At(s, station[s], t)
        <3>1. k \in PeersOf(s)
            BY <2>1, AtFacts
        <3> HIDE DEF k
        <3>2. station[s].peers[k] = InitPeer /\ sent[s][k] = 0 /\ ~Waits(station[s], k)
            <4>1. \A i \in 0 .. SuSize - 1 : station[s].frames[i] = FreeSlot
                BY <1>3
            <4>2. ~Waits(station[s], k)
                BY <1>4, <4>1 DEF Waits
            <4>3. station[s].peers[k] = InitPeer /\ sent[s][k] = 0
                <5>1. /\ station[s].peers = [j \in PeersOf(s) |-> InitPeer]
                      /\ \A j \in PeersOf(s) : sent[s][j] = 0
                    BY <1>3
                <5> QED
                    BY <3>1, <5>1
            <4> QED
                BY <4>2, <4>3
        <3>3. InitPeer \in PeerType /\ InitPeer.s_queue = <<>>
            BY InitPeerOK DEF InitPeer
        <3>4. [InitPeer EXCEPT !.s_queue = <<>>] = InitPeer
            BY <3>3 DEF PeerType
        <3>5. Seen(station[s], k) = InitPeer
            BY <3>2, <3>4 DEF Seen
        <3> QED
            BY <2>1, <3>2, <3>5 DEF View, Count, k
    <2>2. CASE ~Knows(s, station[s], t)
        BY <2>2 DEF View, Count
    <2> QED
        BY <2>1, <2>2
<1>7. ASSUME NEW s \in All, NEW t \in All
      PROVE  Pair(station, bus, sent, got, cut, s, t)
    <2>1. Way(bus, s, t) = <<>> /\ got[s][t] = <<>>
        BY <1>1 DEF Way
    <2> QED
        BY <1>6, <2>1, InitDir DEF Pair
<1>8. bus \in Seq(BusType) /\ DOMAIN bus = {} /\ got \in [All -> [All -> Seq(Nat)]]
    BY <1>1
<1> QED
    BY <1>1, <1>5, <1>7, <1>8 DEF OrderInv, Order

LEMMA OrderStep ==
  ASSUME NrmInv, NrmInv', OrderInv, [NrmNext]_nrmVars
  PROVE  OrderInv'
<1>1. ASSUME NEW a \in Secondaries, RegisterPeer(a) \/ SendUiPacketTo(a) \/ Crash(a)
      PROVE  OrderInv'
    <2>1. CASE Crash(a)
        BY <2>1, SameNext DEF Crash
    <2> QED
        BY <1>1, <2>1, RegisterNext, SendUiNext
<1>2. CASE NrmConnectTimer
    BY <1>2, ConnectTimerNext
<1>3. ASSUME NEW s \in All, NEW a \in All, SendPacketTo(s, a)
      PROVE  OrderInv'
    BY <1>3, SendPacketNext
<1>4. ASSUME NEW s \in All, NrmDisconnect(s) \/ NrmRetryTimer(s) \/ NrmKeepAlive(s)
      PROVE  OrderInv'
    BY <1>4, DisconnectNext, RetryTimerNext, KeepAliveNext
<1>5. CASE LoseOnBus \/ Ignored
    BY <1>5, LoseNext DEF LoseOnBus, Ignored, Complete
<1>6. CASE ReturnMarker
    BY <1>6, ReturnMarkerNext
<1>7. ASSUME NEW s \in All, Transmit(s) \/ NextCall(s)
      PROVE  OrderInv'
    BY <1>7, TransmitServiceNext, TransmitNumberedNext, PassMarkerNext, NextCallNext DEF Transmit
<1>8. ASSUME NEW s \in All, Receive(s)
      PROVE  OrderInv'
    BY <1>8, ReceiveNext
<1>9. CASE UNCHANGED nrmVars
    BY <1>9, SameNext DEF nrmVars
<1> QED
    BY <1>1, <1>2, <1>3, <1>4, <1>5, <1>6, <1>7, <1>8, <1>9 DEF NrmNext, BusStep

-----------------------------------------------------------------------------
(* Theorems *)

LEMMA NrmInvariant == NrmSpec => []NrmInv
<1>1. ASSUME NrmInv, [NrmNext]_nrmVars
      PROVE  NrmInv'
    <2>1. ASSUME NEW a \in Secondaries, RegisterPeer(a) \/ SendUiPacketTo(a) \/ Crash(a)
          PROVE  NrmInv'
        BY <1>1, <2>1, RegisterStep, SendUiStep, CrashStep
    <2>2. CASE NrmConnectTimer
        BY <1>1, <2>2, ConnectTimerStep
    <2>3. ASSUME NEW s \in All, NEW a \in All, SendPacketTo(s, a)
          PROVE  NrmInv'
        BY <1>1, <2>3, SendPacketStep
    <2>4. ASSUME NEW s \in All, NrmDisconnect(s) \/ NrmRetryTimer(s) \/ NrmKeepAlive(s)
          PROVE  NrmInv'
        BY <1>1, <2>4, DisconnectStep, RetryTimerStep, KeepAliveStep
    <2>5. CASE LoseOnBus
        BY <1>1, <2>5, FrameLost DEF LoseOnBus, Complete
    <2>6. CASE ReturnMarker
        BY <1>1, <2>6, ReturnMarkerStep
    <2>7. CASE Ignored
        BY <1>1, <2>7, FrameLost DEF Ignored, Complete
    <2>8. ASSUME NEW s \in All, Transmit(s) \/ NextCall(s)
          PROVE  NrmInv'
        BY <1>1, <2>8, TransmitServiceStep, TransmitNumberedStep, PassMarkerStep, NextCallStep DEF Transmit
    <2>9. ASSUME NEW s \in All, Receive(s)
          PROVE  NrmInv'
        BY <1>1, <2>9, ReceiveStep
    <2>10. CASE UNCHANGED nrmVars
        <3>1. UNCHANGED <<station, bus, sent, stopped, cut>>
            BY <2>10 DEF nrmVars
        <3>2. \A t \in All : Holds(t)' <=> Holds(t)
            BY <3>1 DEF Holds, Live
        <3>3. OneMarker'
            BY <1>1, <3>1, <3>2 DEF NrmInv, OneMarker, All
        <3> QED
            BY <1>1, <3>1, <3>3, ZenonT(30) DEF NrmInv, StationInv, StationType, Registered, OkSlots, UnknownDown, All, LinkUp
    <2> QED
        BY <1>1, <2>1, <2>2, <2>3, <2>4, <2>5, <2>6, <2>7, <2>8, <2>9, <2>10
           DEF NrmNext, BusStep
<1> QED
    BY <1>1, InitNrmInv, PTL DEF NrmSpec

\* At most one station may transmit on the bus, however many secondaries there
\* are, whatever the bus loses and whichever of them stop: FD_EVENT_HAS_MARKER is
\* set at one station, or the P/F bit travels in one frame, never both.
THEOREM MarkerAlwaysUnique == NrmSpec => []MarkerUnique
<1>1. NrmInv => MarkerUnique
    <2> SUFFICES ASSUME NrmInv PROVE MarkerUnique
        OBVIOUS
    <2> DEFINE H == {s \in All : Live(s) /\ station[s].marker}
               B == {i \in DOMAIN bus : bus[i].pf}
    <2>1. ASSUME NEW T, \A x, y \in T : x = y
          PROVE  IsFiniteSet(T) /\ (Cardinality(T) = 0 \/ Cardinality(T) = 1)
        <3>1. CASE T = {}
            BY <3>1, FS_EmptySet
        <3>2. CASE T # {}
            <4>1. PICK x \in T : TRUE
                BY <3>2
            <4>2. T = {x}
                BY <2>1, <4>1
            <4> QED
                BY <4>2, FS_Singleton
        <3> QED
            BY <3>1, <3>2
    <2>2. \A x, y \in H : x = y
        BY DEF NrmInv, OneMarker, Holds
    <2>3. \A x, y \in B : x = y
        BY DEF NrmInv, OneMarker
    <2>4. H = {} \/ B = {}
        BY DEF NrmInv, OneMarker, Holds
    <2> HIDE DEF H, B
    <2>5. Cardinality({}) = 0
        BY FS_EmptySet
    <2>6. Cardinality(H) + Cardinality(B) <= 1
        <3>1. Cardinality(H) = 0 \/ Cardinality(H) = 1
            BY <2>1, <2>2
        <3>2. Cardinality(B) = 0 \/ Cardinality(B) = 1
            BY <2>1, <2>3
        <3>3. Cardinality(H) = 0 \/ Cardinality(B) = 0
            BY <2>4, <2>5
        <3> QED
            BY <3>1, <3>2, <3>3
    <2> QED
        BY <2>6 DEF MarkerUnique, H, B
<1> QED
    BY <1>1, NrmInvariant, PTL

\* FD_EVENT_QUEUE_HAS_FREE_SLOTS is set whenever there are free I-frame slots and
\* all registered peers are up, on the primary with all its peers and on every
\* secondary, unless its application disconnected a link that was down.
THEOREM SlotsAlwaysSignalled == NrmSpec => []SlotsSignalled
<1>1. NrmInv => SlotsSignalled
    BY DEF NrmInv, SlotsSignalled, OkSlots
<1> QED
    BY <1>1, NrmInvariant, PTL

LEMMA OrderInvariant == NrmSpec => []OrderInv
<1>1. NrmInv /\ NrmInv' /\ OrderInv /\ [NrmNext]_nrmVars => OrderInv'
    BY OrderStep
<1>2. NrmInit => OrderInv
    BY InitOrder
<1> QED
    BY <1>1, <1>2, NrmInvariant, PTL DEF NrmSpec

\* on_read_cb gets the packets of every connection on the bus once and in the order
\* in which they were sent, however many secondaries share the primary's slots and
\* service queue, whatever the bus loses and whichever of them stop, unless the
\* receiver disconnected a link that was down.
THEOREM NrmAlwaysInOrderOnce == NrmSpec => []NrmInOrderOnce
<1>1. OrderInv => NrmInOrderOnce
    <2> SUFFICES ASSUME OrderInv, NEW s \in All, NEW a \in All \ cut
                 PROVE  Increasing(got[s][a])
        BY DEF NrmInOrderOnce
    <2>1. CASE Linked(s, a)
        BY <2>1 DEF OrderInv, Order, Pair, Dir
    <2>2. CASE ~Linked(s, a)
        <3>1. got[s][a] = <<>>
            BY <2>2 DEF OrderInv, Order
        <3> QED
            BY <3>1 DEF Increasing
    <2> QED
        BY <2>1, <2>2
<1> QED
    BY <1>1, OrderInvariant, PTL
=============================================================================
