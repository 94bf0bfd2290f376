----------------------------- MODULE ClassProofs -----------------------------
(***************************************************************************)
(* The layers around the protocol engines, for any number of threads,      *)
(* messages and packets: the C++ class Proto, the Python classes Hdlc and  *)
(* Fd, the light protocol's read buffer and the frames it may lose, the    *)
(* serial links, the list of the HAL, the C++ packet, and what             *)
(* tiny_fd_init makes of the buffer an owner gives it.                     *)
(***************************************************************************)
EXTENDS Proto, PyHdlc, PyFd, TinyLight, SerialLink, TinyList, TinyPacket,
        FdInit, SequenceTheorems, FiniteSetTheorems, TLAPS

(***************************************************************************)
(* tinyproto::Proto: the event and the life cycle.                         *)
(***************************************************************************)

PrReaderType == prReader \in [PrReaders -> {"idle", "wait", "take", "late"}]

(* No reader of Proto::read sleeps on a filled queue: PROTO_RX_MESSAGE is  *)
(* set, or a reader that took it is about to look.                         *)
THEOREM PrNeverLosesWakeup == PrSpec => []PrNoLostWakeup
<1> DEFINE Inv == PrReaderType /\ PrNoLostWakeup
<1>1. PrInit => Inv
    BY DEF PrInit, PrReaderType, PrNoLostWakeup
<1>2. Inv /\ [PrNext]_prVars => Inv'
    <2> SUFFICES ASSUME Inv, [PrNext]_prVars PROVE Inv'
        OBVIOUS
    <2> USE DEF PrReaderType, PrNoLostWakeup
    <2>1. ASSUME PrOnRead, prReader' = prReader PROVE Inv'
        BY <2>1 DEF PrOnRead, prLists
    <2>2. CASE PrBegin \/ PrEndCall \/ PrEndJoined
        BY <2>2 DEF PrBegin, PrEndCall, PrEndJoined, prLists
    <2>3. ASSUME NEW t \in {"rx", "tx"}, PrThreadTurn(t) \/ PrThreadBack(t) PROVE Inv'
        BY <2>1, <2>3 DEF PrThreadTurn, PrThreadBack, prLists
    <2>4. ASSUME NEW r \in PrReaders, PrRead(r) PROVE Inv'
        BY <2>4 DEF PrRead, PrGoto, prLists
    <2>5. ASSUME NEW r \in PrReaders, PrWait(r) PROVE Inv'
        <3>1. prReader'[r] = "take" /\ PrReaderType'
            BY <2>5 DEF PrWait, PrGoto
        <3> QED
            BY <3>1
    <2>6. ASSUME NEW r \in PrReaders, PrTake(r) PROVE Inv'
        <3>1. CASE prQueue # PrNil
            <4>1. /\ prQueue' = prNext[prQueue] /\ prEvent' = PrMore(prNext[prQueue])
                  /\ prReader' = [prReader EXCEPT ![r] = "idle"]
                BY <2>6, <3>1 DEF PrTake, PrGoto
            <4> QED
                BY <4>1 DEF PrMore
        <3>2. CASE prQueue = PrNil
            BY <2>6, <3>2 DEF PrTake, PrGoto
        <3> QED
            BY <3>1, <3>2
    <2>7. ASSUME NEW r \in PrReaders, PrLate(r) PROVE Inv'
        <3>1. /\ PrReaderType'
              /\ \A q \in PrReaders : prReader[q] = "take" => prReader'[q] = "take"
            BY <2>7 DEF PrLate, PrGoto
        <3>2. \/ UNCHANGED <<prQueue, prEvent>>
              \/ prEvent'
              \/ prQueue' = prQueue /\ prEvent' = prEvent
            BY <2>7 DEF PrLate, PrOnRead, prLists
        <3> QED
            BY <3>1, <3>2
    <2>8. ASSUME NEW p \in PrPackets, PrRelease(p) PROVE Inv'
        BY <2>8 DEF PrRelease
    <2>9. CASE UNCHANGED prVars
        BY <2>9 DEF prVars
    <2> QED
        BY <2>2, <2>3, <2>4, <2>5, <2>6, <2>7, <2>8, <2>9 DEF PrNext
<1> QED
    BY <1>1, <1>2, PTL DEF PrSpec

PrThreadType == prThread \in [{"rx", "tx"} -> {"none", "loop", "link", "exited"}]

(* A thread that has not left its loop has the link under it. *)
PrRunning == \A t \in {"rx", "tx"} : prThread[t] \in {"loop", "link"} => prLink = "open"

(* Proto::end joins both threads before it closes the link, so that no     *)
(* thread is inside a link that is closed, whatever begin and end do.      *)
THEOREM PrLinkAlwaysOutlivesThreads == PrSpec => []PrLinkOutlivesThreads
<1> DEFINE Inv == PrThreadType /\ PrRunning
<1>1. PrInit => Inv
    BY DEF PrInit, PrThreadType, PrRunning
<1>2. Inv /\ [PrNext]_prVars => Inv'
    <2> SUFFICES ASSUME Inv, [PrNext]_prVars PROVE Inv'
        OBVIOUS
    <2> USE DEF PrThreadType, PrRunning
    <2>1. CASE PrBegin
        BY <2>1 DEF PrBegin
    <2>2. CASE PrEndCall \/ PrEndJoined
        BY <2>2 DEF PrEndCall, PrEndJoined, PrJoined
    <2>3. ASSUME NEW t \in {"rx", "tx"}, PrThreadTurn(t) PROVE Inv'
        BY <2>3 DEF PrThreadTurn
    <2>4. ASSUME NEW t \in {"rx", "tx"}, PrThreadBack(t) PROVE Inv'
        BY <2>4 DEF PrThreadBack
    <2>5. CASE \/ \E r \in PrReaders : PrRead(r) \/ PrWait(r) \/ PrTake(r) \/ PrLate(r)
               \/ \E p \in PrPackets : PrRelease(p)
        BY <2>5 DEF PrRead, PrWait, PrTake, PrLate, PrRelease, prLife
    <2>6. CASE UNCHANGED prVars
        BY <2>6 DEF prVars
    <2> QED
        BY <2>1, <2>2, <2>3, <2>4, <2>5, <2>6 DEF PrNext
<1>3. Inv => PrLinkOutlivesThreads
    BY DEF PrRunning, PrLinkOutlivesThreads
<1> QED
    BY <1>1, <1>2, <1>3, PTL DEF PrSpec

(***************************************************************************)
(* tinyproto::Proto: packets and frames.                                   *)
(***************************************************************************)

PrListTypes ==
    /\ prNext \in [PrPackets -> PrPackets \cup {PrNil}]
    /\ prFrame \in [PrPackets -> Nat]
    /\ prGot \in Seq(Nat) /\ prArrived \in Nat /\ prLost \in Nat

(* PrCounted in its parts, and no frame is newer than the last to arrive. *)
PrOrdered(q) ==
    /\ Len(prGot) + Len(q) + prLost = prArrived
    /\ \A i, j \in 1..Len(prGot) : i < j => prGot[i] < prGot[j]
    /\ \A i, j \in 1..Len(q) : i < j => prFrame[q[i]] < prFrame[q[j]]
    /\ \A i \in 1..Len(prGot), j \in 1..Len(q) : prGot[i] < prFrame[q[j]]
    /\ \A i \in 1..Len(prGot) : prGot[i] <= prArrived
    /\ \A j \in 1..Len(q) : prFrame[q[j]] <= prArrived

PrInv == PrListTypes /\ \E q, p \in Seq(PrPackets) : PrPlaced(q, p) /\ PrOrdered(q)

(* Indices and members of a list. *)
LEMMA PrMembers ==
    ASSUME NEW l \in Seq(PrPackets)
    PROVE  /\ DOMAIN l = 1..Len(l) /\ Len(l) \in Nat
           /\ \A i \in 1..Len(l) : l[i] \in PrPackets /\ l[i] \in PrOn(l)
           /\ PrOn(l) \subseteq PrPackets
           /\ \A x \in PrOn(l) : \E i \in 1..Len(l) : x = l[i]
BY DEF PrOn

(* PrIsList, link by link. *)
LEMMA PrListLinks ==
    ASSUME NEW next, NEW head, NEW l \in Seq(PrPackets), PrIsList(next, head, l)
    PROVE  /\ head = IF Len(l) = 0 THEN PrNil ELSE l[1]
           /\ \A i \in 1..Len(l) : i # Len(l) => next[l[i]] = l[i + 1]
           /\ Len(l) > 0 => next[l[Len(l)]] = PrNil
           /\ \A i, j \in 1..Len(l) : l[i] = l[j] => i = j
<1>1. DOMAIN l = 1..Len(l) /\ Len(l) \in Nat /\ (l = <<>> <=> Len(l) = 0)
    BY PrMembers, EmptySeq
<1>2. Len(l) > 0 => Len(l) \in 1..Len(l)
    BY <1>1
<1> QED
    BY <1>1, <1>2 DEF PrIsList

(* A list without its first packet. *)
LEMMA PrListTail ==
    ASSUME NEW next, NEW head, NEW l \in Seq(PrPackets), PrIsList(next, head, l), head # PrNil
    PROVE  /\ l # <<>> /\ head = l[1] /\ head \in PrPackets /\ Len(l) > 0
           /\ Tail(l) \in Seq(PrPackets) /\ Len(Tail(l)) = Len(l) - 1
           /\ \A i \in 1..Len(l) - 1 : Tail(l)[i] = l[i + 1]
           /\ PrIsList(next, next[head], Tail(l))
           /\ PrOn(Tail(l)) = PrOn(l) \ {head}
<1> DEFINE t == Tail(l)
<1>1. l # <<>> /\ head = l[1]
    BY DEF PrIsList
<1>2. /\ t \in Seq(PrPackets) /\ Len(t) = Len(l) - 1
      /\ \A i \in 1..Len(l) - 1 : t[i] = l[i + 1]
    BY <1>1, HeadTailProperties
<1> HIDE DEF t
<1>3. Len(l) > 0 /\ Len(l) \in Nat /\ 1 \in 1..Len(l) /\ head \in PrPackets
    BY <1>1, EmptySeq, PrMembers
<1>4. DOMAIN t = 1..Len(l) - 1 /\ DOMAIN l = 1..Len(l)
    BY <1>2, PrMembers
<1>5. next[head] = IF t = <<>> THEN PrNil ELSE t[1]
    <2>1. CASE Len(l) = 1
        <3>1. t = <<>>
            BY <1>2, <2>1, EmptySeq
        <3> QED
            BY <1>1, <1>3, <2>1, <3>1, PrListLinks
    <2>2. CASE Len(l) # 1
        <3>1. t # <<>>
            BY <1>2, <1>3, <2>2, EmptySeq
        <3>2. t[1] = l[1 + 1]
            BY <1>2, <1>3, <2>2
        <3>3. next[l[1]] = l[1 + 1]
            <4>1. \A i \in 1..Len(l) : i # Len(l) => next[l[i]] = l[i + 1]
                BY PrListLinks
            <4> QED
                BY <1>3, <2>2, <4>1
        <3> QED
            BY <1>1, <3>1, <3>2, <3>3
    <2> QED
        BY <2>1, <2>2
<1>6. \A i \in 1..Len(l) - 1 :
         next[t[i]] = IF i = Len(t) THEN PrNil ELSE t[i + 1]
    <2> SUFFICES ASSUME NEW i \in 1..Len(l) - 1
                 PROVE  next[t[i]] = IF i = Len(t) THEN PrNil ELSE t[i + 1]
        OBVIOUS
    <2>1. i + 1 \in 1..Len(l) /\ t[i] = l[i + 1]
        BY <1>2, <1>3
    <2>2. next[l[i + 1]] = IF i + 1 = Len(l) THEN PrNil ELSE l[i + 1 + 1]
        BY <1>3, <2>1, PrListLinks
    <2>3. i # Len(l) - 1 => t[i + 1] = l[i + 1 + 1]
        BY <1>2, <1>3
    <2> QED
        BY <1>2, <1>3, <2>1, <2>2, <2>3
<1>7. \A i, j \in 1..Len(l) - 1 : t[i] = t[j] => i = j
    <2> SUFFICES ASSUME NEW i \in 1..Len(l) - 1, NEW j \in 1..Len(l) - 1, l[i + 1] = l[j + 1]
                 PROVE  i = j
        BY <1>2
    <2>1. i + 1 \in 1..Len(l) /\ j + 1 \in 1..Len(l)
        BY <1>3
    <2>2. i + 1 = j + 1
        BY <2>1, PrListLinks
    <2> QED
        BY <1>3, <2>2
<1>8. PrOn(t) = PrOn(l) \ {head}
    <2>1. ASSUME NEW x \in PrOn(t) PROVE x \in PrOn(l) \ {head}
        <3>1. PICK i \in 1..Len(l) - 1 : x = l[i + 1]
            BY <1>2, <2>1, PrMembers
        <3>2. i + 1 \in 1..Len(l) /\ i + 1 # 1
            BY <1>3
        <3> QED
            BY <1>1, <1>3, <3>1, <3>2, PrMembers, PrListLinks
    <2>2. ASSUME NEW x \in PrOn(l) \ {head} PROVE x \in PrOn(t)
        <3>1. PICK i \in 1..Len(l) : x = l[i]
            BY <2>2, PrMembers
        <3>2. i - 1 \in 1..Len(l) - 1 /\ t[i - 1] = l[(i - 1) + 1] /\ (i - 1) + 1 = i
            BY <1>1, <1>2, <1>3, <2>2, <3>1
        <3> QED
            BY <1>2, <1>4, <3>1, <3>2, PrMembers
    <2> QED
        BY <2>1, <2>2
<1> QED
    BY <1>1, <1>2, <1>3, <1>4, <1>5, <1>6, <1>7, <1>8 DEF PrIsList, t

(* A list whose packets keep their m_next. *)
LEMMA PrListKept ==
    ASSUME NEW next, NEW next2, NEW head, NEW l \in Seq(PrPackets), PrIsList(next, head, l),
           \A x \in PrOn(l) : next2[x] = next[x]
    PROVE  PrIsList(next2, head, l)
BY PrMembers DEF PrIsList

(* A packet behind the last one. *)
LEMMA PrListAppend ==
    ASSUME NEW next \in [PrPackets -> PrPackets \cup {PrNil}], NEW head,
           NEW l \in Seq(PrPackets), PrIsList(next, head, l),
           NEW x \in PrPackets \ PrOn(l), NEW next2,
           next2 = IF l = <<>> THEN [next EXCEPT ![x] = PrNil]
                   ELSE [next EXCEPT ![x] = PrNil, ![l[Len(l)]] = x]
    PROVE  /\ Append(l, x) \in Seq(PrPackets) /\ Len(Append(l, x)) = Len(l) + 1
           /\ Append(l, x) # <<>> /\ Append(l, x)[Len(l) + 1] = x
           /\ \A i \in 1..Len(l) : Append(l, x)[i] = l[i]
           /\ PrIsList(next2, IF head = PrNil THEN x ELSE head, Append(l, x))
           /\ PrOn(Append(l, x)) = PrOn(l) \cup {x}
<1> DEFINE a == Append(l, x)
<1>1. /\ a \in Seq(PrPackets) /\ Len(a) = Len(l) + 1 /\ a # <<>> /\ a[Len(l) + 1] = x
      /\ \A i \in 1..Len(l) : a[i] = l[i]
    BY AppendProperties
<1> HIDE DEF a
<1>2. /\ DOMAIN a = 1..Len(l) + 1 /\ DOMAIN l = 1..Len(l) /\ Len(l) \in Nat
      /\ \A i \in 1..Len(l) : l[i] \in PrPackets /\ l[i] # x
      /\ (l = <<>> <=> Len(l) = 0)
    BY <1>1, PrMembers, EmptySeq
<1>3. (IF head = PrNil THEN x ELSE head) = a[1]
    <2>1. CASE l = <<>>
        BY <1>1, <1>2, <2>1 DEF PrIsList
    <2>2. CASE l # <<>>
        <3>1. 1 \in 1..Len(l) /\ head = l[1] /\ head # PrNil
            BY <1>2, <2>2, PrAssumption DEF PrIsList
        <3> QED
            BY <1>1, <3>1
    <2> QED
        BY <2>1, <2>2
<1>4. \A i \in 1..Len(l) + 1 : next2[a[i]] = IF i = Len(a) THEN PrNil ELSE a[i + 1]
    <2> SUFFICES ASSUME NEW i \in 1..Len(l) + 1
                 PROVE  next2[a[i]] = IF i = Len(a) THEN PrNil ELSE a[i + 1]
        OBVIOUS
    <2>1. CASE i = Len(l) + 1
        <3>1. l # <<>> => l[Len(l)] # x /\ l[Len(l)] \in PrPackets
            BY <1>2
        <3>2. next2[x] = PrNil
            BY <3>1
        <3> QED
            BY <1>1, <2>1, <3>2
    <2>2. CASE i \in 1..Len(l) - 1
        <3>1. l[i] # l[Len(l)] /\ l # <<>> /\ l[i] # x /\ l[i] \in PrPackets
            BY <1>2, <2>2, PrListLinks
        <3>2. next2[l[i]] = next[l[i]] /\ next[l[i]] = l[i + 1]
            BY <1>2, <2>2, <3>1, PrListLinks
        <3>3. a[i] = l[i] /\ a[i + 1] = l[i + 1] /\ i # Len(a)
            BY <1>1, <1>2, <2>2
        <3> QED
            BY <3>2, <3>3
    <2>3. CASE i = Len(l)
        <3>1. l # <<>> /\ l[Len(l)] # x /\ l[Len(l)] \in PrPackets /\ a[i] = l[Len(l)]
            BY <1>1, <1>2, <2>3
        <3>2. next2[l[Len(l)]] = x
            BY <3>1
        <3>3. a[i + 1] = x /\ i # Len(a)
            BY <1>1, <1>2, <2>3
        <3> QED
            BY <3>1, <3>2, <3>3
    <2> QED
        <3>1. i = Len(l) + 1 \/ i = Len(l) \/ i \in 1..Len(l) - 1
            <4>1. Len(l) \in Nat
                BY LenProperties
            <4> QED
                BY <4>1
        <3> QED
            BY <2>1, <2>2, <2>3, <3>1
<1>5. \A i, j \in 1..Len(l) + 1 : a[i] = a[j] => i = j
    <2> SUFFICES ASSUME NEW i \in 1..Len(l) + 1, NEW j \in 1..Len(l) + 1, a[i] = a[j] PROVE i = j
        OBVIOUS
    <2>1. CASE i \in 1..Len(l) /\ j \in 1..Len(l)
        BY <1>1, <2>1, PrListLinks
    <2>2. CASE i = Len(l) + 1 \/ j = Len(l) + 1
        BY <1>1, <1>2, <2>2
    <2> QED
        BY <1>2, <2>1, <2>2
<1>6. PrOn(a) = PrOn(l) \cup {x}
    <2>1. ASSUME NEW y \in PrOn(a) PROVE y \in PrOn(l) \cup {x}
        <3>1. PICK i \in 1..Len(l) + 1 : y = a[i]
            BY <1>1, <2>1, PrMembers
        <3> QED
            BY <1>1, <1>2, <3>1, PrMembers
    <2>2. ASSUME NEW y \in PrOn(l) \cup {x} PROVE y \in PrOn(a)
        <3>1. \E i \in 1..Len(l) + 1 : y = a[i]
            <4>1. CASE y = x
                BY <1>1, <1>2, <4>1
            <4>2. CASE y # x
                <5>1. PICK i \in 1..Len(l) : y = l[i]
                    BY <2>2, <4>2, PrMembers
                <5> QED
                    BY <1>1, <1>2, <5>1
            <4> QED
                BY <4>1, <4>2
        <3> QED
            BY <1>2, <3>1 DEF PrOn
    <2> QED
        BY <2>1, <2>2
<1> QED
    BY <1>1, <1>2, <1>3, <1>4, <1>5, <1>6 DEF PrIsList, a

(* A packet before the first one. *)
LEMMA PrListPush ==
    ASSUME NEW next, NEW head, NEW l \in Seq(PrPackets), PrIsList(next, head, l),
           NEW x \in PrPackets, x \notin PrOn(l), NEW a \in Seq(PrPackets), Len(a) = Len(l) + 1,
           a[1] = x, \A i \in 1..Len(l) : a[i + 1] = l[i],
           NEW next2, next2[x] = head, \A y \in PrOn(l) : next2[y] = next[y]
    PROVE  PrIsList(next2, x, a) /\ PrOn(a) = PrOn(l) \cup {x}
<1>1. /\ DOMAIN a = 1..Len(l) + 1 /\ DOMAIN l = 1..Len(l) /\ Len(l) \in Nat
      /\ \A i \in 1..Len(l) : l[i] \in PrPackets /\ l[i] # x
      /\ (l = <<>> <=> Len(l) = 0) /\ a # <<>>
    BY PrMembers, EmptySeq
<1>2. \A i \in 1..Len(l) + 1 : i # 1 => i - 1 \in 1..Len(l) /\ a[i] = l[i - 1]
    <2> SUFFICES ASSUME NEW i \in 1..Len(l) + 1, i # 1
                 PROVE  i - 1 \in 1..Len(l) /\ a[i] = l[i - 1]
        OBVIOUS
    <2>1. i - 1 \in 1..Len(l) /\ (i - 1) + 1 = i
        BY <1>1
    <2> QED
        BY <2>1
<1>3. next2[x] = head /\ \A i \in 1..Len(l) : next2[l[i]] = next[l[i]]
    BY PrMembers
<1>4. \A i \in 1..Len(l) + 1 : next2[a[i]] = IF i = Len(a) THEN PrNil ELSE a[i + 1]
    <2> SUFFICES ASSUME NEW i \in 1..Len(l) + 1
                 PROVE  next2[a[i]] = IF i = Len(a) THEN PrNil ELSE a[i + 1]
        OBVIOUS
    <2>1. CASE i = 1
        <3>1. CASE l = <<>>
            BY <1>1, <1>3, <2>1, <3>1 DEF PrIsList
        <3>2. CASE l # <<>>
            <4>1. 1 \in 1..Len(l) /\ 1 # Len(a)
                BY <1>1, <3>2
            <4>2. a[1 + 1] = l[1] /\ head = l[1]
                BY <3>2, <4>1 DEF PrIsList
            <4> QED
                BY <1>3, <2>1, <4>1, <4>2
        <3> QED
            BY <3>1, <3>2
    <2>2. CASE i # 1
        <3>1. i - 1 \in 1..Len(l) /\ (i - 1) + 1 = i
            BY <1>1, <2>2
        <3>2. next2[a[i]] = IF i - 1 = Len(l) THEN PrNil ELSE l[(i - 1) + 1]
            <4>1. next2[a[i]] = next[l[i - 1]]
                BY <1>2, <1>3, <2>2, <3>1
            <4> QED
                BY <1>1, <3>1, <4>1 DEF PrIsList
        <3>3. i # Len(l) + 1 => a[i + 1] = l[i]
            BY <1>1, <1>2, <2>2
        <3> QED
            BY <1>1, <3>1, <3>2, <3>3
    <2> QED
        BY <2>1, <2>2
<1>5. \A i, j \in 1..Len(l) + 1 : a[i] = a[j] => i = j
    <2> SUFFICES ASSUME NEW i \in 1..Len(l) + 1, NEW j \in 1..Len(l) + 1, a[i] = a[j] PROVE i = j
        OBVIOUS
    <2>1. \A k \in 1..Len(l) + 1 : k = 1 \/ k - 1 \in 1..Len(l)
        BY <1>1
    <2>2. CASE i = 1 \/ j = 1
        BY <1>1, <1>2, <2>1, <2>2
    <2>3. CASE i # 1 /\ j # 1
        <3>1. i - 1 \in 1..Len(l) /\ j - 1 \in 1..Len(l) /\ l[i - 1] = l[j - 1]
            BY <1>1, <1>2, <2>1, <2>3
        <3>2. i - 1 = j - 1
            BY <3>1, PrListLinks
        <3> QED
            BY <1>1, <3>2
    <2> QED
        BY <2>2, <2>3
<1>6. PrOn(a) = PrOn(l) \cup {x}
    <2>1. ASSUME NEW y \in PrOn(a) PROVE y \in PrOn(l) \cup {x}
        <3>1. PICK i \in 1..Len(l) + 1 : y = a[i]
            BY <1>1, <2>1 DEF PrOn
        <3>2. i = 1 \/ (i - 1 \in 1..Len(l) /\ y = l[i - 1])
            BY <1>1, <1>2, <3>1
        <3> QED
            BY <1>2, <3>1, <3>2, PrMembers
    <2>2. ASSUME NEW y \in PrOn(l) \cup {x} PROVE y \in PrOn(a)
        <3>1. \E i \in 1..Len(l) + 1 : y = a[i]
            <4>1. CASE y = x
                BY <1>1, <1>2, <4>1
            <4>2. CASE y # x
                <5>1. PICK i \in 1..Len(l) : y = l[i]
                    BY <2>2, <4>2, PrMembers
                <5>2. i + 1 \in 1..Len(l) + 1
                    BY <1>1
                <5> QED
                    BY <1>2, <5>1, <5>2
            <4> QED
                BY <4>1, <4>2
        <3> QED
            BY <1>1, <3>1 DEF PrOn
    <2> QED
        BY <2>1, <2>2
<1> QED
    BY <1>1, <1>2, <1>4, <1>5, <1>6 DEF PrIsList

(* The invariant gives PrConserved: a list without repetitions is not      *)
(* longer than there are packets, so it is one of PrOrders.                *)
LEMMA PrInvConserves == PrInv => PrConserved
<1> SUFFICES ASSUME PrListTypes, NEW q \in Seq(PrPackets), NEW p \in Seq(PrPackets),
                    PrPlaced(q, p), PrOrdered(q)
             PROVE  PrConserved
    BY DEF PrInv
<1>1. \A l \in Seq(PrPackets) : (\A i, j \in 1..Len(l) : l[i] = l[j] => i = j) => l \in PrOrders
    <2> SUFFICES ASSUME NEW l \in Seq(PrPackets), \A i, j \in 1..Len(l) : l[i] = l[j] => i = j
                 PROVE  l \in PrOrders
        OBVIOUS
    <2>1. Len(l) \in Nat /\ l \in [1..Len(l) -> PrPackets]
        BY LenProperties
    <2>2. IsFiniteSet(1..Len(l)) /\ Cardinality(1..Len(l)) = Len(l)
        <3>1. /\ IsFiniteSet(1..Len(l))
              /\ Cardinality(1..Len(l)) = IF 1 > Len(l) THEN 0 ELSE Len(l) - 1 + 1
            <4>1. 1 \in Int /\ Len(l) \in Int
                BY <2>1
            <4> QED
                BY <4>1, FS_Interval, Zenon
        <3> QED
            BY <2>1, <3>1
    <2>3. l \in Injection(1..Len(l), PrPackets)
        BY <2>1 DEF Injection, IsInjective
    <2>4. Len(l) <= Cardinality(PrPackets) /\ Cardinality(PrPackets) \in Nat
        BY <2>2, <2>3, FS_Injection, FS_CardinalityType, PrAssumption
    <2> QED
        BY <2>1, <2>4 DEF PrOrders
<1>2. q \in PrOrders /\ p \in PrOrders
    BY <1>1, PrListLinks DEF PrPlaced
<1>3. PrCounted(q)
    <2> DEFINE tail == [i \in 1..Len(q) |-> prFrame[q[i]]]
               frames == prGot \o tail
    <2>1. /\ Len(q) \in Nat /\ Len(prGot) \in Nat
          /\ \A i \in 1..Len(q) : q[i] \in PrPackets /\ prFrame[q[i]] \in Nat
          /\ \A i \in 1..Len(prGot) : prGot[i] \in Nat
        BY PrMembers DEF PrListTypes
    <2>2. tail \in Seq(Nat) /\ Len(tail) = Len(q) /\ \A i \in 1..Len(q) : tail[i] = prFrame[q[i]]
        BY <2>1
    <2> HIDE DEF tail
    <2>3. /\ frames \in Seq(Nat) /\ Len(frames) = Len(prGot) + Len(q)
          /\ \A i \in 1..Len(prGot) + Len(q) :
               frames[i] = IF i <= Len(prGot) THEN prGot[i] ELSE tail[i - Len(prGot)]
        <3>1. prGot \in Seq(Nat)
            BY DEF PrListTypes
        <3>2. /\ frames \in Seq(Nat) /\ Len(frames) = Len(prGot) + Len(tail)
              /\ \A i \in 1..Len(prGot) + Len(tail) :
                   frames[i] = IF i <= Len(prGot) THEN prGot[i] ELSE tail[i - Len(prGot)]
            BY <2>2, <3>1, ConcatProperties
        <3> HIDE DEF frames
        <3> QED
            BY <2>2, <3>2
    <2> HIDE DEF frames
    <2>4. DOMAIN frames = 1..Len(prGot) + Len(q)
        BY <2>3, LenProperties
    <2>5. ASSUME NEW i \in 1..Len(prGot) + Len(q), NEW j \in 1..Len(prGot) + Len(q), i < j
          PROVE  frames[i] < frames[j]
        <3>1. CASE j <= Len(prGot)
            <4>1. i \in 1..Len(prGot) /\ j \in 1..Len(prGot)
                BY <2>1, <2>5, <3>1
            <4>2. frames[i] = prGot[i] /\ frames[j] = prGot[j]
                BY <2>1, <2>3, <4>1
            <4> QED
                BY <2>5, <4>1, <4>2 DEF PrOrdered
        <3>2. CASE i <= Len(prGot) /\ j > Len(prGot)
            <4>1. i \in 1..Len(prGot) /\ j - Len(prGot) \in 1..Len(q)
                BY <2>1, <3>2
            <4>2. frames[i] = prGot[i] /\ frames[j] = prFrame[q[j - Len(prGot)]]
                <5>1. i <= Len(prGot) /\ ~(j <= Len(prGot))
                    BY <2>1, <3>2
                <5> QED
                    BY <2>2, <2>3, <4>1, <5>1
            <4> QED
                BY <4>1, <4>2 DEF PrOrdered
        <3>3. CASE i > Len(prGot)
            <4>1. /\ i - Len(prGot) \in 1..Len(q) /\ j - Len(prGot) \in 1..Len(q)
                  /\ i - Len(prGot) < j - Len(prGot) /\ ~(i <= Len(prGot)) /\ ~(j <= Len(prGot))
                BY <2>1, <2>5, <3>3
            <4>2. /\ frames[i] = prFrame[q[i - Len(prGot)]]
                  /\ frames[j] = prFrame[q[j - Len(prGot)]]
                BY <2>2, <2>3, <4>1
            <4> QED
                BY <4>1, <4>2 DEF PrOrdered
        <3> QED
            BY <2>1, <3>1, <3>2, <3>3
    <2>6. Len(frames) + prLost = prArrived
        BY <2>3 DEF PrOrdered
    <2> QED
        BY <2>4, <2>5, <2>6 DEF PrCounted, frames, tail
<1> QED
    BY <1>2, <1>3 DEF PrConserved

(* addRxPool has put every packet into the pool. *)
LEMMA PrInitInv == PrInit => PrInv
<1> SUFFICES ASSUME PrInit PROVE PrInv
    OBVIOUS
<1> DEFINE n == Cardinality(PrPackets)
<1>1. n \in Nat
    BY FS_CardinalityType, PrAssumption
<1>2. PICK order \in [1..n -> PrPackets] :
        /\ \A p \in PrPackets : \E i \in DOMAIN order : order[i] = p
        /\ \A i, j \in DOMAIN order : order[i] = order[j] => i = j
        /\ prNext = [p \in PrPackets |->
               LET i == CHOOSE i \in DOMAIN order : order[i] = p
               IN IF i = Len(order) THEN PrNil ELSE order[i + 1]]
        /\ prPool = IF order = <<>> THEN PrNil ELSE order[1]
    BY DEF PrInit
<1> HIDE DEF n
<1>3. order \in Seq(PrPackets) /\ Len(order) = n /\ DOMAIN order = 1..n
    BY <1>1
<1>4. \A i \in 1..n : prNext[order[i]] = IF i = n THEN PrNil ELSE order[i + 1]
    <2> SUFFICES ASSUME NEW i \in 1..n
                 PROVE  prNext[order[i]] = IF i = n THEN PrNil ELSE order[i + 1]
        OBVIOUS
    <2>1. i = CHOOSE k \in DOMAIN order : order[k] = order[i]
        BY <1>2, <1>3
    <2>2. order[i] \in PrPackets
        BY <1>3
    <2> QED
        BY <1>2, <1>3, <2>1, <2>2
<1>5. prNext \in [PrPackets -> PrPackets \cup {PrNil}]
    <2> SUFFICES ASSUME NEW p \in PrPackets
                 PROVE  prNext[p] \in PrPackets \cup {PrNil}
        BY <1>2
    <2>1. PICK i \in 1..n : order[i] = p
        BY <1>2, <1>3
    <2>2. i # n => i + 1 \in 1..n
        BY <1>1
    <2> QED
        BY <1>3, <1>4, <2>1, <2>2
<1>6. PrIsList(prNext, prPool, order)
    BY <1>2, <1>3, <1>4 DEF PrIsList
<1>7. <<>> \in Seq(PrPackets) /\ Len(<<>>) = 0 /\ DOMAIN <<>> = {}
    BY EmptySeq
<1>8. PrIsList(prNext, prQueue, <<>>) /\ PrOn(<<>>) = {}
    BY <1>7 DEF PrIsList, PrOn, PrInit
<1>9. PrOn(order) = PrPackets
    BY <1>2, <1>3 DEF PrOn
<1>10. PrPlaced(<<>>, order)
    BY <1>6, <1>8, <1>9 DEF PrPlaced, PrInit
<1>11. PrOrdered(<<>>)
    BY <1>7 DEF PrOrdered, PrInit
<1>12. PrListTypes
    BY <1>5 DEF PrListTypes, PrInit
<1> QED
    BY <1>3, <1>7, <1>10, <1>11, <1>12 DEF PrInv

(* onRead takes the first packet of the pool to the end of the queue. *)
LEMMA PrOnReadInv ==
    ASSUME PrInv, PrOnRead, UNCHANGED <<prHeld, prGot>>
    PROVE  PrInv'
<1>1. PICK q \in Seq(PrPackets), p \in Seq(PrPackets) : PrPlaced(q, p) /\ PrOrdered(q)
    BY DEF PrInv
<1>t. PrListTypes
    BY DEF PrInv
<1>2. CASE prPool = PrNil
    <2>1. UNCHANGED <<prLists, prHeld, prGot>> /\ prLost' = prLost + 1 /\ prArrived' = prArrived + 1
        BY <1>2 DEF PrOnRead
    <2>2. PrListTypes' /\ PrPlaced(q, p)'
        BY <1>1, <1>t, <2>1 DEF PrListTypes, PrPlaced, prLists
    <2>3. Len(q) \in Nat /\ \A j \in 1..Len(q) : q[j] \in PrPackets
        BY PrMembers
    <2>4. PrOrdered(q)'
        BY <1>1, <1>t, <2>1, <2>3 DEF PrListTypes, PrOrdered, prLists
    <2> QED
        BY <2>2, <2>4 DEF PrInv
<1>3. CASE prPool # PrNil
    <2>x. PICK x : x = prPool
        OBVIOUS
    <2>1. /\ prArrived' = prArrived + 1 /\ prPool' = prNext[x] /\ prNext' = PrAppend(x)
          /\ prLast' = x /\ prQueue' = IF prQueue = PrNil THEN x ELSE prQueue
          /\ prFrame' = [prFrame EXCEPT ![x] = prArrived + 1]
          /\ prLost' = prLost /\ prHeld' = prHeld /\ prGot' = prGot
        BY <1>3, <2>x DEF PrOnRead
    <2>2. PrIsList(prNext, prQueue, q) /\ PrIsList(prNext, prPool, p)
        BY <1>1 DEF PrPlaced
    <2>3. /\ x = p[1] /\ x \in PrPackets /\ Len(p) > 0
          /\ Tail(p) \in Seq(PrPackets) /\ PrIsList(prNext, prNext[x], Tail(p))
          /\ PrOn(Tail(p)) = PrOn(p) \ {x}
        BY <1>3, <2>2, <2>x, PrListTail
    <2>4. x \in PrOn(p) /\ x \notin PrOn(q)
        <3>1. 1 \in 1..Len(p)
            BY <2>3, LenProperties
        <3> QED
            BY <1>1, <2>3, <3>1, PrMembers DEF PrPlaced
    <2>5. prNext' = IF q = <<>> THEN [prNext EXCEPT ![x] = PrNil]
                    ELSE [prNext EXCEPT ![x] = PrNil, ![q[Len(q)]] = x]
        <3>1. CASE q = <<>>
            BY <1>1, <2>1, <3>1 DEF PrAppend, PrPlaced
        <3>2. CASE q # <<>>
            <4>1. Len(q) \in 1..Len(q)
                BY <3>2, EmptySeq
            <4>2. q[Len(q)] # PrNil
                BY <4>1, PrMembers, PrAssumption
            <4> QED
                BY <1>1, <2>1, <3>2, <4>2 DEF PrAppend, PrPlaced
        <3> QED
            BY <3>1, <3>2
    <2> DEFINE a == Append(q, x)
    <2>6. /\ a \in Seq(PrPackets) /\ Len(a) = Len(q) + 1 /\ a # <<>> /\ a[Len(q) + 1] = x
          /\ \A i \in 1..Len(q) : a[i] = q[i]
          /\ PrIsList(prNext', prQueue', a) /\ PrOn(a) = PrOn(q) \cup {x}
        <3>1. prNext \in [PrPackets -> PrPackets \cup {PrNil}] /\ x \in PrPackets \ PrOn(q)
            BY <1>t, <2>3, <2>4 DEF PrListTypes
        <3>2. PrIsList(prNext', IF prQueue = PrNil THEN x ELSE prQueue, a)
            BY <2>2, <2>5, <3>1, PrListAppend
        <3> QED
            BY <2>1, <2>2, <2>5, <3>1, <3>2, PrListAppend
    <2>7. PrIsList(prNext', prPool', Tail(p))
        <3>1. ASSUME NEW y \in PrOn(Tail(p)) PROVE prNext'[y] = prNext[y]
            <4>1. y \in PrPackets /\ y # x /\ y \notin PrOn(q)
                BY <1>1, <2>3, PrMembers DEF PrPlaced
            <4>2. q # <<>> => q[Len(q)] \in PrOn(q)
                BY PrMembers, EmptySeq
            <4> QED
                BY <1>t, <2>5, <4>1, <4>2 DEF PrListTypes
        <3> QED
            BY <2>1, <2>3, <3>1, PrListKept
    <2> HIDE DEF a
    <2>8. PrPlaced(a, Tail(p))'
        <3>1. prLast' = IF a = <<>> THEN PrNil ELSE a[Len(a)]
            BY <2>1, <2>6
        <3>2. PrOn(a) \cap PrOn(Tail(p)) = {} /\ PrOn(a) \cup PrOn(Tail(p)) = PrOn(q) \cup PrOn(p)
            BY <1>1, <2>3, <2>4, <2>6 DEF PrPlaced
        <3> QED
            BY <1>1, <2>1, <2>6, <2>7, <3>1, <3>2 DEF PrPlaced
    <2>9. PrListTypes'
        <3>1. q # <<>> => q[Len(q)] \in PrPackets
            BY PrMembers, EmptySeq
        <3>2. prNext' \in [PrPackets -> PrPackets \cup {PrNil}]
            BY <1>t, <2>3, <2>5, <3>1 DEF PrListTypes
        <3> QED
            BY <1>t, <2>1, <2>3, <3>2 DEF PrListTypes
    <2>10. PrOrdered(a)'
        <3>1. Len(q) \in Nat /\ Len(prGot) \in Nat /\ prArrived \in Nat
            BY <1>t, LenProperties DEF PrListTypes
        <3>2. \A j \in 1..Len(q) : /\ prFrame'[a[j]] = prFrame[q[j]] /\ prFrame[q[j]] \in Nat
                                   /\ prFrame[q[j]] <= prArrived
            <4> SUFFICES ASSUME NEW j \in 1..Len(q)
                         PROVE  /\ prFrame'[a[j]] = prFrame[q[j]] /\ prFrame[q[j]] \in Nat
                                /\ prFrame[q[j]] <= prArrived
                OBVIOUS
            <4>1. q[j] \in PrPackets /\ q[j] # x /\ a[j] = q[j]
                BY <2>4, <2>6, PrMembers
            <4>2. prFrame'[q[j]] = prFrame[q[j]] /\ prFrame[q[j]] \in Nat
                BY <1>t, <2>1, <4>1 DEF PrListTypes
            <4> QED
                BY <1>1, <4>1, <4>2 DEF PrOrdered
        <3>3. prFrame'[a[Len(q) + 1]] = prArrived + 1
            BY <1>t, <2>1, <2>3, <2>6 DEF PrListTypes
        <3>4. \A i \in 1..Len(prGot) : prGot[i] \in Nat /\ prGot[i] <= prArrived
            <4>1. \A i \in 1..Len(prGot) : prGot[i] \in Nat
                BY <1>t DEF PrListTypes
            <4> QED
                BY <1>1, <4>1 DEF PrOrdered
        <3>5. Len(prGot) + Len(a) + prLost' = prArrived'
            <4>1. Len(prGot) + Len(q) + prLost = prArrived /\ prLost \in Nat
                BY <1>1, <1>t DEF PrListTypes, PrOrdered
            <4>2. Len(a) = Len(q) + 1 /\ prLost' = prLost /\ prArrived' = prArrived + 1
                BY <2>1, <2>6
            <4> QED
                BY <3>1, <4>1, <4>2
        <3>6. \A j \in 1..Len(a) : j \in 1..Len(q) \/ j = Len(q) + 1
            BY <2>6, <3>1
        <3>7. \A i, j \in 1..Len(a) : i < j => prFrame'[a[i]] < prFrame'[a[j]]
            <4> SUFFICES ASSUME NEW i \in 1..Len(a), NEW j \in 1..Len(a), i < j
                         PROVE  prFrame'[a[i]] < prFrame'[a[j]]
                OBVIOUS
            <4>1. i \in 1..Len(q)
                BY <2>6, <3>1
            <4>2. CASE j \in 1..Len(q)
                BY <1>1, <3>2, <4>1, <4>2 DEF PrOrdered
            <4>3. CASE j = Len(q) + 1
                BY <3>1, <3>2, <3>3, <4>1, <4>3, SMTT(20)
            <4> QED
                BY <3>6, <4>2, <4>3
        <3>8. \A i \in 1..Len(prGot), j \in 1..Len(a) : prGot[i] < prFrame'[a[j]]
            <4> SUFFICES ASSUME NEW i \in 1..Len(prGot), NEW j \in 1..Len(a)
                         PROVE  prGot[i] < prFrame'[a[j]]
                OBVIOUS
            <4>1. CASE j \in 1..Len(q)
                BY <1>1, <3>2, <4>1 DEF PrOrdered
            <4>2. CASE j = Len(q) + 1
                BY <3>1, <3>3, <3>4, <4>2
            <4> QED
                BY <3>6, <4>1, <4>2
        <3>9. \A j \in 1..Len(a) : prFrame'[a[j]] <= prArrived'
            <4> SUFFICES ASSUME NEW j \in 1..Len(a) PROVE prFrame'[a[j]] <= prArrived'
                OBVIOUS
            <4>1. CASE j \in 1..Len(q)
                BY <2>1, <3>1, <3>2, <4>1
            <4>2. CASE j = Len(q) + 1
                BY <2>1, <3>1, <3>3, <4>2
            <4> QED
                BY <3>6, <4>1, <4>2
        <3>10. \A i \in 1..Len(prGot) : prGot[i] <= prArrived'
            BY <2>1, <3>1, <3>4
        <3> QED
            BY <1>1, <2>1, <3>5, <3>7, <3>8, <3>9, <3>10 DEF PrOrdered
    <2> QED
        BY <2>3, <2>6, <2>8, <2>9, <2>10 DEF PrInv
<1> QED
    BY <1>2, <1>3

(* read takes the first packet of the queue to the application. *)
LEMMA PrTakeInv ==
    ASSUME PrInv, NEW r \in PrReaders, PrTake(r)
    PROVE  PrInv'
<1>1. PICK q \in Seq(PrPackets), p \in Seq(PrPackets) : PrPlaced(q, p) /\ PrOrdered(q)
    BY DEF PrInv
<1>t. PrListTypes
    BY DEF PrInv
<1>2. CASE prQueue = PrNil
    BY <1>2 DEF PrTake, PrInv, PrListTypes, PrPlaced, PrOrdered
<1>3. CASE prQueue # PrNil
    <2> DEFINE x == prQueue
               t == Tail(q)
    <2>1. /\ prHeld' = prHeld \cup {x} /\ prGot' = Append(prGot, prFrame[x])
          /\ prQueue' = prNext[x] /\ prLast' = IF prNext[x] = PrNil THEN PrNil ELSE prLast
          /\ prNext' = prNext /\ prPool' = prPool /\ prFrame' = prFrame
          /\ prArrived' = prArrived /\ prLost' = prLost
        BY <1>3 DEF PrTake
    <2>2. /\ x = q[1] /\ x \in PrPackets /\ Len(q) > 0
          /\ t \in Seq(PrPackets) /\ Len(t) = Len(q) - 1
          /\ \A i \in 1..Len(q) - 1 : t[i] = q[i + 1]
          /\ PrIsList(prNext, prNext[x], t) /\ PrOn(t) = PrOn(q) \ {x}
        BY <1>1, <1>3, PrListTail DEF PrPlaced
    <2> HIDE DEF t
    <2>3. Len(q) \in Nat /\ 1 \in 1..Len(q) /\ x \in PrOn(q) /\ x \notin PrOn(p)
        <3>1. Len(q) \in Nat
            BY LenProperties
        <3>2. 1 \in 1..Len(q)
            BY <2>2, <3>1
        <3> QED
            BY <1>1, <2>2, <3>1, <3>2, PrMembers DEF PrPlaced
    <2>4. PrPlaced(t, p)'
        <3>1. prLast' = IF t = <<>> THEN PrNil ELSE t[Len(t)]
            <4>1. CASE t = <<>>
                BY <2>1, <2>2, <4>1 DEF PrIsList
            <4>2. CASE t # <<>>
                <5>1. Len(t) \in Nat /\ 1 \in 1..Len(t) /\ Len(t) \in 1..Len(t)
                    BY <2>2, <4>2, EmptySeq
                <5>2. prNext[x] # PrNil
                    BY <2>2, <4>2, <5>1, PrMembers, PrAssumption DEF PrIsList
                <5>3. t[Len(t)] = q[Len(q)] /\ q # <<>>
                    BY <2>2, <2>3, <5>1
                <5> QED
                    BY <1>1, <2>1, <4>2, <5>2, <5>3 DEF PrPlaced
            <4> QED
                BY <4>1, <4>2
        <3>2. PrOn(t) \cap PrOn(p) = {}
            BY <1>1, <2>2 DEF PrPlaced
        <3>3. prHeld' = PrPackets \ (PrOn(t) \cup PrOn(p))
            BY <1>1, <2>1, <2>2, <2>3 DEF PrPlaced
        <3> QED
            BY <1>1, <2>1, <2>2, <3>1, <3>2, <3>3 DEF PrPlaced
    <2> DEFINE g == Append(prGot, prFrame[x])
    <2>5. /\ g \in Seq(Nat) /\ Len(g) = Len(prGot) + 1 /\ g[Len(prGot) + 1] = prFrame[x]
          /\ \A i \in 1..Len(prGot) : g[i] = prGot[i]
        <3>1. prGot \in Seq(Nat) /\ prFrame[x] \in Nat
            BY <1>t, <2>2 DEF PrListTypes
        <3> QED
            BY <3>1, AppendProperties
    <2>6. prGot' = g
        BY <2>1
    <2> HIDE DEF g
    <2>7. PrListTypes'
        BY <1>t, <2>1, <2>5, <2>6 DEF PrListTypes
    <2>8. PrOrdered(t)'
        <3>1. Len(prGot) \in Nat /\ Len(q) \in Nat /\ prLost \in Nat
            BY <1>t, <2>3, LenProperties DEF PrListTypes
        <3>2. \A i \in 1..Len(g) : i \in 1..Len(prGot) \/ i = Len(prGot) + 1
            BY <2>5, <3>1
        <3>3. \A j \in 1..Len(t) : j + 1 \in 1..Len(q) /\ t[j] = q[j + 1] /\ 1 < j + 1
            BY <2>2, <3>1
        <3>4. Len(g) + Len(t) + prLost = prArrived
            BY <1>1, <2>2, <2>5, <3>1 DEF PrOrdered
        <3>5. \A i, j \in 1..Len(g) : i < j => g[i] < g[j]
            <4> SUFFICES ASSUME NEW i \in 1..Len(g), NEW j \in 1..Len(g), i < j PROVE g[i] < g[j]
                OBVIOUS
            <4>1. i \in 1..Len(prGot)
                BY <2>5, <3>1
            <4>2. CASE j \in 1..Len(prGot)
                BY <1>1, <2>5, <4>1, <4>2 DEF PrOrdered
            <4>3. CASE j = Len(prGot) + 1
                BY <1>1, <2>2, <2>3, <2>5, <4>1, <4>3 DEF PrOrdered
            <4> QED
                BY <3>2, <4>2, <4>3
        <3>6. \A i, j \in 1..Len(t) : i < j => prFrame[t[i]] < prFrame[t[j]]
            <4> SUFFICES ASSUME NEW i \in 1..Len(t), NEW j \in 1..Len(t), i < j
                         PROVE  prFrame[t[i]] < prFrame[t[j]]
                OBVIOUS
            <4>1. i + 1 < j + 1 /\ i + 1 \in 1..Len(q) /\ j + 1 \in 1..Len(q)
                BY <3>1, <3>3
            <4>2. prFrame[q[i + 1]] < prFrame[q[j + 1]]
                BY <1>1, <4>1 DEF PrOrdered
            <4> QED
                BY <3>3, <4>2
        <3>7. \A i \in 1..Len(g), j \in 1..Len(t) : g[i] < prFrame[t[j]]
            <4> SUFFICES ASSUME NEW i \in 1..Len(g), NEW j \in 1..Len(t)
                         PROVE  g[i] < prFrame[t[j]]
                OBVIOUS
            <4>1. CASE i \in 1..Len(prGot)
                BY <1>1, <2>5, <3>3, <4>1 DEF PrOrdered
            <4>2. CASE i = Len(prGot) + 1
                BY <1>1, <2>2, <2>3, <2>5, <3>3, <4>2 DEF PrOrdered
            <4> QED
                BY <3>2, <4>1, <4>2
        <3>8. \A i \in 1..Len(g) : g[i] <= prArrived
            BY <1>1, <2>2, <2>3, <2>5, <3>2 DEF PrOrdered
        <3>9. \A j \in 1..Len(t) : prFrame[t[j]] <= prArrived
            BY <1>1, <3>3 DEF PrOrdered
        <3> QED
            BY <2>1, <2>6, <3>4, <3>5, <3>6, <3>7, <3>8, <3>9 DEF PrOrdered
    <2> QED
        BY <2>2, <2>4, <2>7, <2>8 DEF PrInv
<1> QED
    BY <1>2, <1>3

(* release puts a packet before the first one of the pool. *)
LEMMA PrReleaseInv ==
    ASSUME PrInv, NEW x \in PrPackets, PrRelease(x)
    PROVE  PrInv'
<1>1. PICK q \in Seq(PrPackets), p \in Seq(PrPackets) : PrPlaced(q, p) /\ PrOrdered(q)
    BY DEF PrInv
<1>t. PrListTypes
    BY DEF PrInv
<1>2. /\ x \in prHeld /\ prHeld' = prHeld \ {x} /\ prNext' = [prNext EXCEPT ![x] = prPool]
      /\ prPool' = x /\ prQueue' = prQueue /\ prLast' = prLast /\ prFrame' = prFrame
      /\ prArrived' = prArrived /\ prLost' = prLost /\ prGot' = prGot
    BY DEF PrRelease
<1>3. x \in PrPackets \ PrOn(p) /\ x \notin PrOn(q)
    BY <1>1, <1>2 DEF PrPlaced
<1>a. PICK a \in Seq(PrPackets) : /\ Len(a) = Len(p) + 1 /\ a[1] = x
                                 /\ \A i \in 1..Len(p) : a[i + 1] = p[i]
    <2>1. /\ <<x>> \o p \in Seq(PrPackets) /\ Len(<<x>> \o p) = Len(p) + 1
          /\ (<<x>> \o p)[1] = x /\ \A i \in 1..Len(p) : (<<x>> \o p)[i + 1] = p[i]
        OBVIOUS
    <2> QED
        BY <2>1
<1>4. PrIsList(prNext', x, a) /\ PrOn(a) = PrOn(p) \cup {x}
    <2>1. prNext \in [PrPackets -> PrPackets \cup {PrNil}] /\ PrIsList(prNext, prPool, p)
        BY <1>1, <1>t DEF PrListTypes, PrPlaced
    <2>2. prNext'[x] = prPool /\ \A y \in PrOn(p) : prNext'[y] = prNext[y]
        BY <1>2, <1>3, <2>1, PrMembers
    <2> QED
        BY <1>a, <1>3, <2>1, <2>2, PrListPush
<1>5. PrIsList(prNext', prQueue, q)
    <2>1. \A y \in PrOn(q) : prNext'[y] = prNext[y]
        BY <1>2, <1>3, <1>t, PrMembers DEF PrListTypes
    <2> QED
        BY <1>1, <2>1, PrListKept DEF PrPlaced
<1>6. PrPlaced(q, a)'
    BY <1>1, <1>2, <1>3, <1>4, <1>5 DEF PrPlaced
<1>7. prPool \in PrPackets \cup {PrNil}
    <2>1. p # <<>> => p[1] \in PrPackets
        BY PrMembers, EmptySeq
    <2> QED
        BY <1>1, <2>1 DEF PrPlaced, PrIsList
<1>8. PrListTypes'
    BY <1>2, <1>7, <1>t DEF PrListTypes
<1>9. PrOrdered(q)'
    BY <1>1, <1>2 DEF PrOrdered
<1> QED
    BY <1>4, <1>6, <1>8, <1>9 DEF PrInv

(* No packet and no frame is lost uncounted, duplicated or reordered       *)
(* between onRead, read and release, with any number of packets, readers   *)
(* and frames.                                                             *)
THEOREM PrAlwaysConserved == PrSpec => []PrConserved
<1>1. PrInv /\ [PrNext]_prVars => PrInv'
    <2> SUFFICES ASSUME PrInv, [PrNext]_prVars PROVE PrInv'
        OBVIOUS
    <2>1. ASSUME UNCHANGED <<prLists, prHeld, prGot, prArrived, prLost>> PROVE PrInv'
        BY <2>1 DEF PrInv, PrListTypes, PrPlaced, PrOrdered, prLists
    <2>2. CASE PrBegin \/ PrEndCall \/ PrEndJoined
        BY <2>1, <2>2 DEF PrBegin, PrEndCall, PrEndJoined
    <2>3. ASSUME NEW t \in {"rx", "tx"}, PrThreadTurn(t) \/ PrThreadBack(t) PROVE PrInv'
        BY <2>1, <2>3, PrOnReadInv DEF PrThreadTurn, PrThreadBack
    <2>4. ASSUME NEW r \in PrReaders, PrRead(r) \/ PrWait(r) PROVE PrInv'
        BY <2>1, <2>4 DEF PrRead, PrWait
    <2>5. ASSUME NEW r \in PrReaders, PrTake(r) PROVE PrInv'
        BY <2>5, PrTakeInv
    <2>6. ASSUME NEW r \in PrReaders, PrLate(r) PROVE PrInv'
        BY <2>1, <2>6, PrOnReadInv DEF PrLate
    <2>7. ASSUME NEW p \in PrPackets, PrRelease(p) PROVE PrInv'
        BY <2>7, PrReleaseInv
    <2>8. CASE UNCHANGED prVars
        BY <2>1, <2>8 DEF prVars, prLists
    <2> QED
        BY <2>2, <2>3, <2>4, <2>5, <2>6, <2>7, <2>8 DEF PrNext
<1> QED
    BY <1>1, PrInitInv, PrInvConserves, PTL DEF PrSpec

(***************************************************************************)
(* tinyproto.Hdlc: the message hdlc_ll sends from.                         *)
(***************************************************************************)

PhTypes ==
    /\ phPins \in [PhMessages -> Int]
    /\ phUser \in PhMessages \cup {PhNull}
    /\ phTx \in PhMessages \cup {PhNull}

(* In the callback of end() a frame is still in hdlc_ll, so put() is refused. *)
PhEnding == phCallback = "end" => phTx # PhNull

PhInv == PhTypes /\ PhEnding /\ PhPinned

(* What PyBuffer_Release leaves: no message is pinned any more. *)
LEMMA PhReleasedAll ==
    ASSUME PhInv
    PROVE  /\ PhReleased(phPins) \in [PhMessages -> Int]
           /\ \A m \in PhMessages : PhReleased(phPins)[m] = 0
BY PhAssumption DEF PhInv, PhTypes, PhPinned, PhReleased

(* Hdlc.put keeps a Py_buffer on what hdlc_ll sends from, and on nothing   *)
(* else, also when on_send puts the next message from inside the callback  *)
(* and when end() reports a frame that never left.                         *)
THEOREM PhAlwaysPinned == PhSpec => []PhPinned
<1>1. PhInit => PhInv
    BY PhAssumption DEF PhInit, PhInv, PhTypes, PhEnding, PhPinned
<1>2. PhInv /\ [PhNext]_phVars => PhInv'
    <2> SUFFICES ASSUME PhInv, [PhNext]_phVars PROVE PhInv'
        OBVIOUS
    <2> USE PhAssumption DEF PhInv, PhTypes, PhEnding, PhPinned
    <2>1. CASE PhBegin
        BY <2>1 DEF PhBegin
    <2>2. CASE PhSetOnSend
        BY <2>2 DEF PhSetOnSend
    <2>3. ASSUME PhFree PROVE phUser' = PhNull /\ phPins' \in [PhMessages -> Int]
                             /\ \A m \in PhMessages : phPins'[m] = 0
        BY <2>3, PhReleasedAll DEF PhFree
    <2>4. CASE PhTxComplete
        BY <2>3, <2>4 DEF PhTxComplete
    <2>5. CASE PhEnd
        BY <2>3, <2>5 DEF PhEnd
    <2>6. CASE PhCallbackReturns
        BY <2>6 DEF PhCallbackReturns
    <2>7. ASSUME NEW m \in PhMessages, PhPut(m) PROVE PhInv'
        <3>1. CASE ~phHandle \/ phTx # PhNull
            BY <2>7, <3>1 DEF PhPut
        <3>2. CASE ~(~phHandle \/ phTx # PhNull)
            <4>1. /\ phUser' = m /\ phCallback' = phCallback
                  /\ phTx' = IF m = PhEmpty THEN PhNull ELSE m
                  /\ phPins' = [PhReleased(phPins) EXCEPT ![m] = @ + 1]
                BY <2>7, <3>2 DEF PhPut
            <4>2. /\ phPins' \in [PhMessages -> Int]
                  /\ \A n \in PhMessages : phPins'[n] = IF n = m THEN 1 ELSE 0
                BY <4>1, PhReleasedAll
            <4> QED
                BY <3>2, <4>1, <4>2
        <3> QED
            BY <3>1, <3>2
    <2>8. CASE UNCHANGED phVars
        BY <2>8 DEF phVars
    <2> QED
        BY <2>1, <2>2, <2>4, <2>5, <2>6, <2>7, <2>8 DEF PhNext
<1>3. PhInv => PhPinned
    BY DEF PhInv
<1> QED
    BY <1>1, <1>2, <1>3, PTL DEF PhSpec

(***************************************************************************)
(* tinyproto.Fd: the error flag shared by run_rx and run_tx.               *)
(***************************************************************************)

PyTypes ==
    /\ pyPc \in [PyThreads -> {"idle", "lib", "locked", "ensure", "python", "func",
                               "ensure_func", "resume_func", "call_func", "python_func", "leave"}]
    /\ DOMAIN pyMethod = PyThreads /\ DOMAIN pyBad = PyThreads /\ DOMAIN pyRaised = PyThreads

(* Only run_rx and run_tx call the functions they were given, and what     *)
(* went wrong there is still in error_flag when the call returns.          *)
PyFlagged == \A t \in PyThreads :
    /\ pyPc[t] \in {"func", "ensure_func", "resume_func", "call_func", "python_func"}
           => PyRuns(pyMethod[t])
    /\ pyBad[t] => PyRuns(pyMethod[t])
    /\ pyBad[t] /\ pyPc[t] # "idle" => pyError
    /\ pyBad[t] /\ pyPc[t] = "idle" => pyRaised[t]

PyInv == PyTypes /\ PyFlagged

LEMMA PyStepInv ==
    ASSUME PyInv, NEW t \in PyThreads, PyStep(t)
    PROVE  PyInv'
<1> USE DEF PyInv, PyTypes, PyFlagged, PyGoto
<1>1. CASE PyLock(t) \/ PyToCallback(t) \/ PyUnlock(t)
    BY <1>1 DEF PyLock, PyToCallback, PyUnlock
<1>2. CASE PyGenerated(t) \/ PyToFunction(t)
    BY <1>2 DEF PyGenerated, PyToFunction, PyRuns
<1>3. CASE PyEnsure(t) \/ PySwitch(t) \/ PyInvoke(t)
    BY <1>3 DEF PyEnsure, PySwitch, PyInvoke
<1>4. CASE PyInvokeNull(t) \/ PyBack(t) \/ PyFunctionBack(t) \/ PyFunctionBad(t)
    <2>1. /\ pyPc[t] \in {"call_func", "python", "python_func"}
          /\ \/ pyPc' = [pyPc EXCEPT ![t] = "lib"] \/ pyPc' = [pyPc EXCEPT ![t] = "leave"]
             \/ pyPc' = [pyPc EXCEPT ![t] = "func"] /\ pyPc[t] = "python_func"
          /\ UNCHANGED <<pyMethod, pyRaised>>
        BY <1>4 DEF PyInvokeNull, PyBack, PyFunctionBack, PyFunctionBad
    <2>2. \/ UNCHANGED <<pyError, pyBad>>
          \/ pyError' = TRUE /\ UNCHANGED pyBad
          \/ /\ PyRuns(pyMethod[t]) /\ pyError' = TRUE
             /\ pyBad' = [pyBad EXCEPT ![t] = TRUE]
        BY <1>4 DEF PyInvokeNull, PyBack, PyFunctionBack, PyFunctionBad
    <2> QED
        BY <2>1, <2>2
<1>5. CASE PyReturn(t)
    <2>1. /\ pyPc[t] = "leave" /\ pyPc' = [pyPc EXCEPT ![t] = "idle"]
          /\ UNCHANGED <<pyMethod, pyError, pyBad>>
          /\ pyRaised' = [pyRaised EXCEPT ![t] = PyRuns(pyMethod[t]) /\ pyError]
        BY <1>5 DEF PyReturn
    <2> QED
        BY <2>1
<1> QED
    BY <1>1, <1>2, <1>3, <1>4, <1>5 DEF PyStep

(* Fd.run_rx and Fd.run_tx raise RuntimeError when the function given to   *)
(* them returned a wrong type, whatever other threads do with the flag     *)
(* they share: nothing but __init__ clears it.                             *)
THEOREM PyErrorAlwaysReported == PySpec => []PyErrorReported
<1>1. PyInit => PyInv
    BY DEF PyInit, PyInv, PyTypes, PyFlagged
<1>2. PyInv /\ [PyNext]_pyVars => PyInv'
    <2> SUFFICES ASSUME PyInv, [PyNext]_pyVars PROVE PyInv'
        OBVIOUS
    <2>1. ASSUME NEW t \in PyThreads, NEW m \in pyRoles[t], PyCall(t, m) PROVE PyInv'
        BY <2>1 DEF PyCall, PyErrorOnEntry, PyRuns, PyInv, PyTypes, PyFlagged, PyGoto
    <2>2. CASE UNCHANGED pyVars
        BY <2>2 DEF pyVars, PyInv, PyTypes, PyFlagged
    <2> QED
        BY <2>1, <2>2, PyStepInv DEF PyNext
<1>3. PyInv => PyErrorReported
    BY DEF PyInv, PyFlagged, PyErrorReported
<1> QED
    BY <1>1, <1>2, <1>3, PTL DEF PySpec

(***************************************************************************)
(* tiny_light: the buffer of the read in progress.                         *)
(***************************************************************************)

(* An application either reads into one buffer or has a read_func that     *)
(* never fails: after a failure the receiver keeps pointing into the       *)
(* buffer of the call that failed.                                         *)
LtBuffersKept ==
    \A c \in LtScenarios : c.readErrors = 0 \/ \E b : c.buffers = {b}

LtShape ==
    /\ ltSetup \in LtScenarios
    /\ ltFaults \in [timeouts : Nat, writeErrors : Nat, readErrors : Nat]
    /\ ltRx = [state |-> ltRx.state, buf |-> ltRx.buf, owner |-> ltRx.owner]

(* With one buffer the receiver writes nowhere else. *)
LtOneBuffer == \A b : ltSetup.buffers = {b} =>
    ltReading \in {<<>>, <<b>>} /\ (ltRx.state = "data" => ltRx.owner = <<b>>)

(* Without failures of read_func a call ends outside a frame, and the next *)
(* frame finds the buffer of its own call.                                 *)
LtNoFailure == ltSetup.readErrors = 0 =>
    (ltRx.state = "data" => ltReading # <<>> /\ ltRx.owner = ltReading)

LtInv == LtShape /\ LtOneBuffer /\ LtNoFailure

(* What the receiver does with a byte. *)
LEMMA LtReadByteRx ==
    ASSUME LtShape, LtReadByte
    PROVE  /\ ltReading # <<>> /\ ltReading' \in {<<>>, ltReading}
           /\ \/ ltRx'.state = "data" /\ ltRx'.owner = ltReading /\ ltReading' = ltReading
              \/ ltRx' = ltRx /\ ltReading' = ltReading
              \/ /\ ltRx.state = "data" /\ ltRx'.state = "data" /\ ltRx'.owner = ltRx.owner
                 /\ ltReading' = ltReading
              \/ ltRx'.state = "start"
           /\ ltRx' = [state |-> ltRx'.state, buf |-> ltRx'.buf, owner |-> ltRx'.owner]
<1> DEFINE flag == Head(ltLine) = LtFlag
           opens == flag /\ ltRx.state = "start"
           closes == flag /\ ltRx.state = "data"
           empty == ltRx.buf = <<>> /\ ltRx.owner = ltReading
<1>1. /\ ltReading # <<>>
      /\ ltReading' = IF closes /\ ~empty THEN <<>> ELSE ltReading
      /\ ltRx' = CASE opens -> [state |-> "data", buf |-> <<>>, owner |-> ltReading]
                   [] closes /\ empty -> ltRx
                   [] closes /\ ~empty -> [ltRx EXCEPT !.state = "start", !.buf = <<>>]
                   [] ~flag /\ ltRx.state = "data" -> [ltRx EXCEPT !.buf = Append(@, Head(ltLine))]
                   [] OTHER -> ltRx
    BY DEF LtReadByte, LtAlignment
<1> HIDE DEF flag, empty
<1>2. CASE opens
    BY <1>1, <1>2
<1>3. CASE closes /\ empty
    BY <1>1, <1>3 DEF LtShape
<1>4. CASE closes /\ ~empty
    BY <1>1, <1>4 DEF LtShape
<1>5. CASE ~flag /\ ltRx.state = "data"
    BY <1>1, <1>5 DEF LtShape
<1>6. CASE ~opens /\ ~closes /\ ~(~flag /\ ltRx.state = "data")
    BY <1>1, <1>6 DEF LtShape
<1> QED
    BY <1>2, <1>3, <1>4, <1>5, <1>6

LEMMA LtNextInv ==
    ASSUME LtInv, [LtNext]_ltVars
    PROVE  LtInv'
<1> USE DEF LtInv, LtShape, LtOneBuffer, LtNoFailure
<1>1. CASE LtSend \/ LtWrite \/ UNCHANGED ltVars
    BY <1>1 DEF LtSend, LtWrite, ltVars
<1>2. CASE LtWriteError \/ LtWriteTimeout
    <2>1. ltFaults' \in [timeouts : Nat, writeErrors : Nat, readErrors : Nat]
        BY <1>2 DEF LtWriteError, LtWriteTimeout, LtFault
    <2> QED
        BY <1>2, <2>1 DEF LtWriteError, LtWriteTimeout, LtFault
<1>3. ASSUME NEW b \in ltSetup.buffers, LtRead(b) PROVE LtInv'
    BY <1>3 DEF LtRead
<1>4. CASE LtReadByte
    <2>1. ltSetup' = ltSetup /\ ltFaults' = ltFaults
        BY <1>4 DEF LtReadByte
    <2> QED
        BY <1>4, <2>1, LtReadByteRx
<1>5. CASE LtReadError
    <2>1. /\ ltSetup.readErrors # 0
          /\ ltFaults' \in [timeouts : Nat, writeErrors : Nat, readErrors : Nat]
        BY <1>5 DEF LtReadError, LtFault
    <2>2. ltReading' = <<>> /\ UNCHANGED <<ltRx, ltSetup>>
        BY <1>5 DEF LtReadError, LtFault
    <2> QED
        BY <2>1, <2>2
<1>6. CASE LtReadTimeout
    <2>1. ltFaults' \in [timeouts : Nat, writeErrors : Nat, readErrors : Nat]
        BY <1>6 DEF LtReadTimeout, LtFault
    <2>2. ltReading' = <<>> /\ ltRx' = [ltRx EXCEPT !.state = "start", !.buf = <<>>] /\ ltSetup' = ltSetup
        BY <1>6 DEF LtReadTimeout, LtFault, LtRxGiveUp
    <2> QED
        BY <2>1, <2>2
<1> QED
    BY <1>1, <1>2, <1>3, <1>4, <1>5, <1>6 DEF LtNext

(* tiny_light_read stores only into the buffer of its own call, with time  *)
(* limits that pass in the middle of a frame and a new buffer every time.  *)
THEOREM LtAlwaysOwnBuffer ==
    ASSUME LtBuffersKept
    PROVE  LtSpec => []LtOwnBuffer
<1>1. LtInit => LtInv
    BY DEF LtInit, LtInv, LtShape, LtOneBuffer, LtNoFailure
<1>2. LtInv => LtOwnBuffer
    BY DEF LtInv, LtShape, LtOneBuffer, LtNoFailure, LtOwnBuffer, LtBuffersKept
<1> QED
    BY <1>1, <1>2, LtNextInv, PTL DEF LtSpec

(***************************************************************************)
(* tiny_light: frames lost.  A torn frame, a read given up and a frame in  *)
(* the buffer of another call each cost one frame, and the argument counts *)
(* them before the loss shows: the frames missing, the torn ones still on  *)
(* the way, a receiver in the middle of a frame and a receiver whose       *)
(* frame belongs to another call are together no more than the faults.     *)
(***************************************************************************)

LtSymbols == {LtFlag} \cup ((1..LtMaxSends) \X (1..LtBytes))

(* What the receiver still has to do with: the flag that opened its frame, *)
(* the bytes it has stored, and the line.                                  *)
LtStreamOf(state, buf, line) == IF state = "data" THEN <<LtFlag>> \o buf \o line ELSE line
LtStream == LtStreamOf(ltRx.state, ltRx.buf, ltLine)

(* Behind a flag comes another one or the first byte of a frame, behind a  *)
(* byte the next one of its frame or a flag.                               *)
LtLinked(v) == \A i \in 1..Len(v) - 1 : v[i + 1][1] # 0 =>
    /\ v[i][1] = 0 => v[i + 1][2] = 1
    /\ v[i][1] # 0 => v[i + 1][1] = v[i][1] /\ v[i + 1][2] = v[i][2] + 1

LtOnce(v) == \A i, j \in 1..Len(v) : v[i][1] = v[j][1] /\ v[i][2] = 1 /\ v[j][2] = 1 => i = j

(* A frame that went out is there to its last byte, with its own closing   *)
(* flag: what follows that flag is another one.                            *)
LtWhole(v, pos, out) == \A i \in 1..Len(v) : v[i][1] \in out =>
    /\ i < Len(v)
    /\ v[i][2] < LtBytes => v[i + 1][1] # 0
    /\ v[i][2] = LtBytes =>
        /\ i + 1 = Len(v) => pos = 0
        /\ i + 1 < Len(v) => v[i + 2][1] = 0

(* The frame being sent is at the end, up to the byte before tx.pos. *)
LtLast(v, frame, pos) ==
    /\ \A i \in 1..Len(v) : v[i][1] # 0 /\ v[i][1] = frame =>
        /\ v[i][2] < pos
        /\ i < Len(v) => v[i + 1][1] # 0
    /\ v # <<>> /\ pos > 0 =>
        v[Len(v)][2] = pos - 1 /\ v[Len(v)][1] = IF pos = 1 THEN 0 ELSE frame

LtKnown(v, sends) == \A i \in 1..Len(v) : v[i][1] <= sends

LtFlow(v, frame, pos, sends, out) ==
    /\ LtLinked(v) /\ LtOnce(v) /\ LtWhole(v, pos, out) /\ LtLast(v, frame, pos)
    /\ LtKnown(v, sends)

LtSender ==
    /\ ltSends \in 0..LtMaxSends
    /\ ltOk \subseteq ltOut /\ ltOut \subseteq 1..ltSends
    /\ ltTx = [frame |-> ltTx.frame, pos |-> ltTx.pos]
    /\ \/ ltSending = 0 /\ ltTx.frame = 0 /\ ltTx.pos = 0
       \/ /\ ltSending = ltSends /\ ltTx.frame = ltSends /\ ltTx.pos \in 0..LtBytes + 1
          /\ ltSends > 0 /\ ltSends \notin ltOut

LtReceiver ==
    /\ ltLine \in Seq(LtSymbols) /\ ltRx.buf \in Seq(LtSymbols) /\ ltGot \in Seq(0..LtMaxSends)
    /\ ltRx.state \in {"start", "data"}
    /\ ltRx.state = "data" => ltRx.owner # <<>>
    /\ \A k \in 1..Len(ltRx.buf) : ltRx.buf[k] = <<ltRx.buf[1][1], k>> /\ ltRx.buf[1][1] # 0

LtIn(f, k, v) == \E i \in 1..Len(v) : v[i][1] = f /\ v[i][2] = k

(* Reported as sent, and neither received nor on the way. *)
LtMissing == {f \in ltOk : (\A i \in 1..Len(ltGot) : ltGot[i] # f) /\ ~LtIn(f, LtBytes, LtStream)}

(* Given up, and the receiver has not seen its end. *)
LtTorn == {f \in 1..ltSends : f \notin ltOut /\ f # ltTx.frame /\ LtIn(f, 1, LtStream)}

(* The receiver looks for a flag in the middle of a frame. *)
LtSkewed ==
    /\ ltRx.state = "start"
    /\ IF ltLine = <<>> THEN ltTx.pos > 0 ELSE Head(ltLine)[1] # 0

(* The receiver's frame is in the buffer of another call. *)
LtAstray == ltRx.state = "data" /\ ltRx.owner # ltReading

LtOwed == (IF LtSkewed THEN 1 ELSE 0) + (IF LtAstray THEN 1 ELSE 0)

LtAccount ==
    Cardinality(LtMissing) + Cardinality(LtTorn) + LtOwed
        <= ltFaults.timeouts + ltFaults.readErrors

LtLossInv == LtSender /\ LtReceiver /\ LtFlow(LtStream, ltTx.frame, ltTx.pos, ltSends, ltOut) /\ LtAccount

LEMMA LtSymbol ==
    ASSUME NEW x \in LtSymbols
    PROVE  /\ x[1] \in 0..LtMaxSends /\ x[2] \in 0..LtBytes
           /\ (x[1] = 0 <=> x[2] = 0) /\ (x = LtFlag <=> x[1] = 0)
           /\ x = <<x[1], x[2]>>
BY LtAssumption DEF LtSymbols, LtFlag

LEMMA LtFlowSuffix ==
    ASSUME NEW frame, NEW pos, NEW sends, NEW out,
           NEW v \in Seq(LtSymbols), NEW w \in Seq(LtSymbols), NEW d \in 0..Len(v),
           Len(w) = Len(v) - d, \A i \in 1..Len(w) : w[i] = v[i + d],
           LtFlow(v, frame, pos, sends, out)
    PROVE  LtFlow(w, frame, pos, sends, out)
<1>1. LtLinked(w)
    <2>1. ASSUME NEW i \in 1..Len(w) - 1, w[i + 1][1] # 0
          PROVE  /\ w[i][1] = 0 => w[i + 1][2] = 1
                 /\ w[i][1] # 0 => w[i + 1][1] = w[i][1] /\ w[i + 1][2] = w[i][2] + 1
        <3>1. PICK j \in 1..Len(v) - 1 : j = i + d
            OBVIOUS
        <3>2. w[i] = v[j] /\ w[i + 1] = v[j + 1]
            <4>1. i + 1 \in 1..Len(w) /\ (i + 1) + d = j + 1
                BY <3>1
            <4>2. w[i + 1] = v[(i + 1) + d]
                BY <4>1
            <4>3. i \in 1..Len(w) /\ w[i] = v[i + d]
                OBVIOUS
            <4> QED
                BY <3>1, <4>1, <4>2, <4>3
        <3> QED
            BY <2>1, <3>1, <3>2 DEF LtFlow, LtLinked
    <2> QED
        BY <2>1 DEF LtLinked
<1>2. LtOnce(w)
    <2>1. ASSUME NEW i \in 1..Len(w), NEW j \in 1..Len(w),
                 w[i][1] = w[j][1], w[i][2] = 1, w[j][2] = 1
          PROVE  i = j
        <3>1. PICK k, l \in 1..Len(v) : k = i + d /\ l = j + d
            OBVIOUS
        <3>2. w[i] = v[k] /\ w[j] = v[l]
            BY <3>1
        <3>3. k = l
            BY <2>1, <3>2 DEF LtFlow, LtOnce
        <3> QED
            BY <3>1, <3>3
    <2> QED
        BY <2>1 DEF LtOnce
<1>3. LtWhole(w, pos, out)
    <2> SUFFICES ASSUME NEW i \in 1..Len(w), w[i][1] \in out
                 PROVE  /\ i < Len(w)
                        /\ w[i][2] < LtBytes => w[i + 1][1] # 0
                        /\ w[i][2] = LtBytes =>
                            /\ i + 1 = Len(w) => pos = 0
                            /\ i + 1 < Len(w) => w[i + 2][1] = 0
        BY DEF LtWhole
    <2>1. PICK j \in 1..Len(v) : j = i + d
        OBVIOUS
    <2>2. /\ j < Len(v)
          /\ v[j][2] < LtBytes => v[j + 1][1] # 0
          /\ v[j][2] = LtBytes =>
                            /\ j + 1 = Len(v) => pos = 0
                            /\ j + 1 < Len(v) => v[j + 2][1] = 0
        BY <2>1 DEF LtFlow, LtWhole
    <2>3. i < Len(w) /\ w[i + 1] = v[j + 1] /\ (i + 1 < Len(w) => w[i + 2] = v[j + 2])
        <3>1. i < Len(w) /\ (i + 1) + d = j + 1 /\ (i + 2) + d = j + 2
            BY <2>1, <2>2
        <3>2. w[i + 1] = v[(i + 1) + d]
            <4>0. Len(w) \in Nat
                OBVIOUS
            <4>1. i + 1 \in 1..Len(w)
                BY ONLY <3>1, <4>0, i \in 1..Len(w)
            <4> QED
                BY <4>1
        <3>3. ASSUME i + 1 < Len(w) PROVE w[i + 2] = v[(i + 2) + d]
            <4>0. Len(w) \in Nat
                OBVIOUS
            <4>1. i + 2 \in 1..Len(w)
                BY ONLY <3>3, <4>0, i \in 1..Len(w)
            <4> QED
                BY <4>1
        <3> QED
            BY <3>1, <3>2, <3>3
    <2>4. w[i] = v[j] /\ Len(v) = Len(w) + d /\ Len(w) \in Nat /\ d \in Nat
        BY <2>1
    <2>5. (i + 1 = Len(w) => j + 1 = Len(v)) /\ (i + 1 < Len(w) => j + 1 < Len(v))
        BY <2>1, <2>4
    <2> QED
        BY <2>2, <2>3, <2>4, <2>5
<1>4. LtLast(w, frame, pos)
    <2>1. ASSUME NEW i \in 1..Len(w), w[i][1] # 0, w[i][1] = frame
          PROVE  w[i][2] < pos /\ (i < Len(w) => w[i + 1][1] # 0)
        <3>1. PICK j \in 1..Len(v) : j = i + d
            OBVIOUS
        <3>2. v[j][2] < pos /\ (j < Len(v) => v[j + 1][1] # 0)
            BY <2>1, <3>1 DEF LtFlow, LtLast
        <3> QED
            BY <3>1, <3>2
    <2>2. w # <<>> => w[Len(w)] = v[Len(v)] /\ v # <<>>
        BY EmptySeq
    <2> QED
        BY <2>1, <2>2 DEF LtFlow, LtLast
<1>5. LtKnown(w, sends)
    BY DEF LtFlow, LtKnown
<1> QED
    BY <1>1, <1>2, <1>3, <1>4, <1>5 DEF LtFlow

LEMMA LtFlowDrop ==
    ASSUME NEW v \in Seq(LtSymbols), NEW frame, NEW pos, NEW sends, NEW out,
           LtFlow(v, frame, pos, sends, out)
    PROVE  LtFlow(v, 0, 0, sends, out)
BY DEF LtFlow, LtWhole, LtLast

LEMMA LtFlowPut ==
    ASSUME NEW v \in Seq(LtSymbols), NEW sends \in Nat, NEW out,
           LtFlow(v, 0, 0, sends, out)
    PROVE  LtFlow(v, sends + 1, 0, sends + 1, out)
<1>1. \A i \in 1..Len(v) : v[i][1] \in Nat /\ v[i][1] <= sends
    BY LtSymbol DEF LtFlow, LtKnown
<1> QED
    BY <1>1 DEF LtFlow, LtKnown, LtWhole, LtLast

LEMMA LtFlowEmit ==
    ASSUME NEW v \in Seq(LtSymbols), NEW frame \in 1..LtMaxSends, NEW pos \in 0..LtBytes, NEW out,
           frame \notin out, 0 \notin out,
           NEW b \in LtSymbols, b = IF pos = 0 THEN LtFlag ELSE <<frame, pos>>,
           LtFlow(v, frame, pos, frame, out)
    PROVE  LtFlow(Append(v, b), frame, pos + 1, frame, out)
<1> DEFINE w == Append(v, b)
           n == Len(v)
<1>1. /\ w \in Seq(LtSymbols) /\ Len(w) = n + 1 /\ w[n + 1] = b /\ n \in Nat
      /\ \A i \in 1..n : w[i] = v[i]
    BY AppendProperties
<1>2. b[2] = pos /\ b[1] = IF pos = 0 THEN 0 ELSE frame
    BY DEF LtFlag
<1>3. \A i \in 1..n : v[i] \in LtSymbols
    OBVIOUS
<1>4. \A i \in 1..n : v[i][1] \in Nat /\ v[i][2] \in Nat /\ v[i][1] <= frame /\ (v[i][1] = 0 <=> v[i][2] = 0)
    BY <1>3, LtSymbol DEF LtFlow, LtKnown
<1> HIDE DEF w
<1>l. n > 0 /\ pos > 0 => v[n][2] = pos - 1 /\ v[n][1] = IF pos = 1 THEN 0 ELSE frame
    BY EmptySeq DEF LtFlow, LtLast
<1>f. \A i \in 1..n : v[i][1] # 0 /\ v[i][1] = frame =>
            v[i][2] < pos /\ (i < n => v[i + 1][1] # 0)
    BY DEF LtFlow, LtLast
<1>5. LtLinked(w)
    <2> SUFFICES ASSUME NEW i \in 1..n, w[i + 1][1] # 0
                 PROVE  /\ w[i][1] = 0 => w[i + 1][2] = 1
                        /\ w[i][1] # 0 => w[i + 1][1] = w[i][1] /\ w[i + 1][2] = w[i][2] + 1
        <3>1. 1..Len(w) - 1 = 1..n
            BY <1>1
        <3> HIDE DEF n
        <3> QED
            BY <3>1 DEF LtLinked
    <2>1. CASE i < n
        BY <2>1, <1>1 DEF LtFlow, LtLinked
    <2>2. CASE i = n
        BY <2>2, <1>1, <1>2, <1>l
    <2> QED
        BY <2>1, <2>2
<1>6. LtOnce(w)
    <2>1. ASSUME NEW i \in 1..n, w[i][2] = 1, w[n + 1][2] = 1, w[i][1] = w[n + 1][1]
          PROVE  FALSE
        BY <2>1, <1>1, <1>2, <1>f
    <2>2. ASSUME NEW i \in 1..n + 1, NEW j \in 1..n + 1,
                 w[i][1] = w[j][1], w[i][2] = 1, w[j][2] = 1
          PROVE  i = j
        <3>1. CASE i \in 1..n /\ j \in 1..n
            BY <2>2, <3>1, <1>1 DEF LtFlow, LtOnce
        <3>2. CASE i = n + 1 \/ j = n + 1
            BY <2>1, <2>2, <3>2
        <3> QED
            BY <3>1, <3>2
    <2> QED
        BY <2>2, <1>1 DEF LtOnce
<1>7. LtWhole(w, pos + 1, out)
    <2> SUFFICES ASSUME NEW i \in 1..n + 1, w[i][1] \in out
                 PROVE  /\ i < n + 1
                        /\ w[i][2] < LtBytes => w[i + 1][1] # 0
                        /\ w[i][2] = LtBytes => i < n /\ w[i + 2][1] = 0
        <3>1. Len(w) = n + 1 /\ n \in Nat
            BY <1>1
        <3> HIDE DEF n
        <3> QED
            BY <3>1 DEF LtWhole
    <2>1. i \in 1..n /\ v[i][1] \in out /\ w[i] = v[i]
        BY <1>1, <1>2
    <2>2. /\ i < n
          /\ v[i][2] < LtBytes => v[i + 1][1] # 0
          /\ v[i][2] = LtBytes =>
                            /\ i + 1 = n => pos = 0
                            /\ i + 1 < n => v[i + 2][1] = 0
        BY <2>1 DEF LtFlow, LtWhole
    <2>3. w[i + 1] = v[i + 1] /\ (i + 1 < n => w[i + 2] = v[i + 2]) /\ (i + 1 = n => w[i + 2] = b)
        <3>1. w[i + 1] = v[i + 1]
            BY <2>2, <1>1
        <3>2. ASSUME i + 1 < n PROVE w[i + 2] = v[i + 2]
            <4>1. i + 2 \in 1..n
                BY <3>2
            <4> QED
                BY <4>1, <1>1
        <3>3. i + 1 = n => w[i + 2] = b
            BY <1>1
        <3> QED
            BY <3>1, <3>2, <3>3
    <2> QED
        BY <2>1, <2>2, <2>3, <1>2
<1>8. LtLast(w, frame, pos + 1)
    <2>1. ASSUME NEW i \in 1..n, v[i][1] # 0, v[i][1] = frame
          PROVE  v[i][2] < pos + 1 /\ w[i + 1][1] # 0
        <3>1. v[i][2] < pos /\ (i < n => v[i + 1][1] # 0)
            BY <2>1, <1>f
        <3>2. pos > 0
            BY <3>1, <1>4
        <3> QED
            <4>1. v[i][2] < pos + 1
                BY <3>1, <1>4
            <4>2. CASE i < n
                BY <3>1, <4>1, <4>2, <1>1
            <4>3. CASE i = n
                BY <3>2, <4>1, <4>3, <1>1, <1>2
            <4> QED
                BY <4>2, <4>3
    <2>2. ASSUME NEW i \in 1..n + 1, w[i][1] # 0, w[i][1] = frame
          PROVE  w[i][2] < pos + 1 /\ (i < n + 1 => w[i + 1][1] # 0)
        <3>1. CASE i = n + 1
            BY <3>1, <1>1, <1>2
        <3>2. CASE i \in 1..n
            BY <3>2, <2>1, <2>2, <1>1
        <3> QED
            BY <3>1, <3>2
    <2>3. w[n + 1][2] = (pos + 1) - 1 /\ w[n + 1][1] = IF pos + 1 = 1 THEN 0 ELSE frame
        BY <1>1, <1>2
    <2> QED
        BY <2>2, <2>3, <1>1 DEF LtLast
<1>9. LtKnown(w, frame)
    BY <1>1, <1>2, <1>4 DEF LtKnown
<1> QED
    BY <1>5, <1>6, <1>7, <1>8, <1>9 DEF LtFlow, w

LEMMA LtFlowEnd ==
    ASSUME NEW v \in Seq(LtSymbols), NEW frame \in 1..LtMaxSends, NEW out,
           frame \notin out, 0 \notin out,
           LtFlow(v, frame, LtBytes + 1, frame, out)
    PROVE  /\ LtFlow(Append(v, LtFlag), 0, 0, frame, out \cup {frame})
           /\ v # <<>> => LtIn(frame, LtBytes, v)
<1> DEFINE w == Append(v, LtFlag)
           n == Len(v)
<1>0. LtFlag \in LtSymbols /\ LtFlag[1] = 0 /\ LtFlag[2] = 0 /\ LtBytes \in Nat \ {0}
    BY LtAssumption DEF LtSymbols, LtFlag
<1>1. /\ w \in Seq(LtSymbols) /\ Len(w) = n + 1 /\ w[n + 1] = LtFlag /\ n \in Nat
      /\ \A i \in 1..n : w[i] = v[i]
    BY <1>0, AppendProperties
<1>3. \A i \in 1..n : v[i] \in LtSymbols
    OBVIOUS
<1>4. \A i \in 1..n : v[i][1] \in Nat /\ v[i][2] \in 0..LtBytes /\ v[i][1] <= frame /\ (v[i][1] = 0 <=> v[i][2] = 0)
    BY <1>3, LtSymbol DEF LtFlow, LtKnown
<1> HIDE DEF w
<1>l. n > 0 => v[n][2] = LtBytes /\ v[n][1] = frame
    BY <1>0, EmptySeq DEF LtFlow, LtLast
<1>f. \A i \in 1..n : v[i][1] # 0 /\ v[i][1] = frame =>
            (i < n => v[i + 1][1] # 0)
    BY DEF LtFlow, LtLast
<1>5. LtLinked(w)
    BY <1>0, <1>1 DEF LtLinked, LtFlow
<1>6. LtOnce(w)
    BY <1>0, <1>1 DEF LtFlow, LtOnce
<1>7. LtWhole(w, 0, out \cup {frame})
    <2> SUFFICES ASSUME NEW i \in 1..n + 1, w[i][1] \in out \cup {frame}
                 PROVE  /\ i < n + 1
                        /\ w[i][2] < LtBytes => w[i + 1][1] # 0
                        /\ w[i][2] = LtBytes => (i < n => w[i + 2][1] = 0)
        <3>1. Len(w) = n + 1 /\ n \in Nat
            BY <1>1
        <3> HIDE DEF n
        <3> QED
            BY <3>1 DEF LtWhole
    <2>1. i \in 1..n /\ w[i] = v[i]
        BY <1>0, <1>1
    <2>2. CASE v[i][1] \in out
        <3>2. /\ i < n
              /\ v[i][2] < LtBytes => v[i + 1][1] # 0
              /\ v[i][2] = LtBytes => i + 1 < n /\ v[i + 2][1] = 0
            BY <2>1, <2>2, <1>0 DEF LtFlow, LtWhole
        <3> QED
            BY <2>1, <3>2, <1>1
    <2>3. CASE v[i][1] = frame
        <3>1. CASE i = n
            BY <3>1, <2>1, <1>l, <1>0, <1>1
        <3>2. CASE i < n
            <4>1. v[i + 1][1] # 0 /\ w[i + 1] = v[i + 1]
                BY <3>2, <2>3, <2>1, <1>f, <1>1
            <4>2. v[i + 1][2] = v[i][2] + 1 /\ v[i + 1][2] <= LtBytes
                <5>1. i \in 1..Len(v) - 1 /\ i + 1 \in 1..n /\ v[i][1] # 0
                    BY <3>2, <2>1, <2>3
                <5>2. v[i + 1][2] = v[i][2] + 1
                    BY <4>1, <5>1 DEF LtFlow, LtLinked
                <5> QED
                    BY <5>1, <5>2, <1>4
            <4> QED
                BY <4>1, <4>2, <2>1, <1>4, <1>0, <3>2
        <3> QED
            BY <3>1, <3>2, <2>1
    <2> QED
        BY <2>1, <2>2, <2>3
<1>8. LtLast(w, 0, 0)
    BY DEF LtLast
<1>9. LtKnown(w, frame)
    BY <1>0, <1>1, <1>4 DEF LtKnown
<1>10. v # <<>> => n > 0
    BY EmptySeq
<1> QED
    BY <1>5, <1>6, <1>7, <1>8, <1>9, <1>10, <1>l DEF LtFlow, w, LtIn

LtLaid(v, state, buf, line) ==
    /\ v \in Seq(LtSymbols)
    /\ state # "data" => v = line
    /\ state = "data" =>
        /\ Len(v) = 1 + Len(buf) + Len(line)
        /\ v[1] = LtFlag
        /\ \A k \in 1..Len(buf) : v[1 + k] = buf[k]
        /\ \A k \in 1..Len(line) : v[1 + Len(buf) + k] = line[k]

LEMMA LtStreamOfIs ==
    ASSUME NEW state, NEW buf \in Seq(LtSymbols), NEW line \in Seq(LtSymbols)
    PROVE  LtLaid(LtStreamOf(state, buf, line), state, buf, line)
<1>1. LtFlag \in LtSymbols
    BY DEF LtSymbols
<1>2. line \in Seq(LtSymbols) /\ buf \in Seq(LtSymbols)
    OBVIOUS
<1> DEFINE head == <<LtFlag>> \o buf
<1>3. /\ <<LtFlag>> \in Seq(LtSymbols) /\ Len(<<LtFlag>>) = 1 /\ <<LtFlag>>[1] = LtFlag
    BY <1>1
<1>4. /\ head \in Seq(LtSymbols) /\ Len(head) = 1 + Len(buf) /\ head[1] = LtFlag
      /\ \A k \in 1..Len(buf) : head[1 + k] = buf[k]
    <2>1. head \in Seq(LtSymbols) /\ Len(head) = 1 + Len(buf)
          /\ \A i \in 1..Len(<<LtFlag>>) + Len(buf) : head[i] =
                IF i <= Len(<<LtFlag>>) THEN <<LtFlag>>[i] ELSE buf[i - Len(<<LtFlag>>)]
        BY <1>2, <1>3, ConcatProperties
    <2> QED
        BY <2>1, <1>2, <1>3
<1> HIDE DEF head
<1>5. /\ head \o line \in Seq(LtSymbols) /\ Len(head \o line) = Len(head) + Len(line)
      /\ \A i \in 1..Len(head) + Len(line) : (head \o line)[i] =
                IF i <= Len(head) THEN head[i] ELSE line[i - Len(head)]
    <2>1. head \in Seq(LtSymbols) /\ line \in Seq(LtSymbols)
        BY <1>2, <1>4
    <2> QED
        BY ONLY <2>1, ConcatProperties
<1>6. state = "data" => LtStreamOf(state, buf, line) = head \o line
    BY DEF LtStreamOf, head
<1>7. ASSUME state = "data"
      PROVE  /\ Len(LtStreamOf(state, buf, line)) = 1 + Len(buf) + Len(line)
             /\ LtStreamOf(state, buf, line)[1] = LtFlag
             /\ \A k \in 1..Len(buf) : LtStreamOf(state, buf, line)[1 + k] = buf[k]
             /\ \A k \in 1..Len(line) : LtStreamOf(state, buf, line)[1 + Len(buf) + k] = line[k]
    <2>1. \A k \in 1..Len(buf) : 1 + k \in 1..Len(head) + Len(line) /\ 1 + k <= Len(head)
        BY <1>2, <1>4
    <2>2. \A k \in 1..Len(line) : /\ 1 + Len(buf) + k \in 1..Len(head) + Len(line)
                                    /\ ~(1 + Len(buf) + k <= Len(head))
                                    /\ (1 + Len(buf) + k) - Len(head) = k
        BY <1>2, <1>4
    <2>3. 1 \in 1..Len(head) + Len(line) /\ 1 <= Len(head)
        BY <1>2, <1>4
    <2> HIDE DEF LtStreamOf
    <2>4. Len(head \o line) = 1 + Len(buf) + Len(line) /\ (head \o line)[1] = LtFlag
        BY <1>2, <1>4, <1>5, <2>3
    <2>5. \A k \in 1..Len(buf) : (head \o line)[1 + k] = buf[k]
        BY <1>4, <1>5, <2>1
    <2>6. \A k \in 1..Len(line) : (head \o line)[1 + Len(buf) + k] = line[k]
        BY <1>5, <2>2
    <2> QED
        BY <1>6, <1>7, <2>4, <2>5, <2>6
<1>8. state # "data" => LtStreamOf(state, buf, line) = line
    BY DEF LtStreamOf
<1> HIDE DEF LtStreamOf
<1> QED
    BY <1>2, <1>5, <1>6, <1>7, <1>8 DEF LtLaid

LEMMA LtStreamIs ==
    ASSUME LtReceiver
    PROVE  /\ LtStream \in Seq(LtSymbols) /\ ltLine \in Seq(LtSymbols) /\ ltRx.buf \in Seq(LtSymbols)
           /\ ltRx.state # "data" => LtStream = ltLine
           /\ ltRx.state = "data" =>
                /\ Len(LtStream) = 1 + Len(ltRx.buf) + Len(ltLine)
                /\ LtStream[1] = LtFlag
                /\ \A k \in 1..Len(ltRx.buf) : LtStream[1 + k] = ltRx.buf[k]
                /\ \A k \in 1..Len(ltLine) : LtStream[1 + Len(ltRx.buf) + k] = ltLine[k]
<1>1. ltLine \in Seq(LtSymbols) /\ ltRx.buf \in Seq(LtSymbols)
    BY DEF LtReceiver
<1>2. LtLaid(LtStream, ltRx.state, ltRx.buf, ltLine)
    BY <1>1, LtStreamOfIs DEF LtStream
<1> QED
    BY <1>1, <1>2 DEF LtLaid

(* A byte written goes to the end of the stream. *)
LEMMA LtStreamGrows ==
    ASSUME LtReceiver, NEW b \in LtSymbols, ltLine' = Append(ltLine, b), ltRx' = ltRx
    PROVE  LtStream' = Append(LtStream, b)
<1>1. CASE ltRx.state # "data"
    BY <1>1 DEF LtStream, LtStreamOf
<1>2. CASE ltRx.state = "data"
    <2> DEFINE head == <<LtFlag>> \o ltRx.buf
    <2>0. LtFlag \in LtSymbols /\ ltRx.buf \in Seq(LtSymbols) /\ ltLine \in Seq(LtSymbols)
        BY DEF LtSymbols, LtReceiver
    <2>1. head \in Seq(LtSymbols)
        BY <2>0
    <2>2. LtStream = head \o ltLine /\ LtStream' = head \o Append(ltLine, b)
        BY <1>2 DEF LtStream, LtStreamOf
    <2> HIDE DEF head
    <2>3. head \o Append(ltLine, b) = Append(head \o ltLine, b)
        BY <2>0, <2>1
    <2> QED
        BY <2>2, <2>3
<1> QED
    BY <1>1, <1>2

LEMMA LtCounts ==
    ASSUME NEW n \in Nat, NEW A \in SUBSET (1..n), NEW B \in SUBSET (1..n)
    PROVE  /\ Cardinality(A) \in Nat /\ Cardinality(B) \in Nat
           /\ B \subseteq A => Cardinality(B) <= Cardinality(A)
           /\ \A x : B \subseteq A \cup {x} => Cardinality(B) <= Cardinality(A) + 1
           /\ \A x \in A : B \subseteq A \ {x} => Cardinality(B) <= Cardinality(A) - 1
<1>1. IsFiniteSet(1..n)
    BY FS_Interval
<1>2. IsFiniteSet(A) /\ IsFiniteSet(B) /\ Cardinality(A) \in Nat /\ Cardinality(B) \in Nat
    BY <1>1, FS_Subset, FS_CardinalityType
<1>3. B \subseteq A => Cardinality(B) <= Cardinality(A)
    BY <1>2, FS_Subset
<1>4. ASSUME NEW x, B \subseteq A \cup {x} PROVE Cardinality(B) <= Cardinality(A) + 1
    <2>1. /\ IsFiniteSet(A \cup {x})
          /\ Cardinality(A \cup {x}) = IF x \in A THEN Cardinality(A) ELSE Cardinality(A) + 1
        BY <1>2, FS_AddElement
    <2>2. Cardinality(B) <= Cardinality(A \cup {x})
        BY <2>1, <1>4, FS_Subset
    <2> QED
        BY <2>1, <2>2, <1>2
<1>5. ASSUME NEW x \in A, B \subseteq A \ {x} PROVE Cardinality(B) <= Cardinality(A) - 1
    <2>1. /\ IsFiniteSet(A \ {x})
          /\ Cardinality(A \ {x}) = Cardinality(A) - 1
        BY <1>2, FS_RemoveElement
    <2>2. Cardinality(B) <= Cardinality(A \ {x})
        BY <2>1, <1>5, FS_Subset
    <2> QED
        BY <2>1, <2>2, <1>2
<1> QED
    BY <1>2, <1>3, <1>4, <1>5

LEMMA LtSets ==
    ASSUME LtSender
    PROVE  /\ LtMissing \in SUBSET (1..LtMaxSends) /\ LtTorn \in SUBSET (1..LtMaxSends)
           /\ LtMaxSends \in Nat
BY LtAssumption DEF LtSender, LtMissing, LtTorn

LEMMA LtSetsNext ==
    ASSUME LtSender'
    PROVE  LtMissing' \in SUBSET (1..LtMaxSends) /\ LtTorn' \in SUBSET (1..LtMaxSends)
BY LtAssumption DEF LtSender, LtMissing, LtTorn

LEMMA LtSendLoss ==
    ASSUME LtShape, LtLossInv, LtSend
    PROVE  LtLossInv'
<1>0. LtSender /\ LtReceiver /\ LtAccount /\ LtFlow(LtStream, ltTx.frame, ltTx.pos, ltSends, ltOut)
    BY DEF LtLossInv
<1>1. /\ ltSends \in Nat /\ ltSends < LtMaxSends /\ ltTx.frame = 0 /\ ltTx.pos = 0
      /\ ltSends' = ltSends + 1 /\ ltSending' = ltSends + 1
      /\ ltTx' = [frame |-> ltSends + 1, pos |-> 0]
      /\ UNCHANGED <<ltSetup, ltLine, ltRx, ltReading, ltOk, ltOut, ltGot, ltFaults>>
    BY <1>0 DEF LtSend, LtSender, LtNoFrame
<1>2. LtStream' = LtStream
    BY <1>1 DEF LtStream
<1>3. LtSender'
    BY <1>0, <1>1, LtAssumption DEF LtSender
<1>4. LtReceiver'
    BY <1>0, <1>1 DEF LtReceiver
<1>5. LtFlow(LtStream, ltSends + 1, 0, ltSends + 1, ltOut)
    <2>1. LtFlow(LtStream, 0, 0, ltSends, ltOut)
        BY <1>0, <1>1
    <2> QED
        BY <2>1, <1>0, <1>1, LtStreamIs, LtFlowPut
<1>6. LtMissing' \subseteq LtMissing /\ LtTorn' \subseteq LtTorn
    <2>1. LtMissing' \subseteq LtMissing
        BY <1>1, <1>2 DEF LtMissing, LtIn
    <2>2. LtTorn' \subseteq LtTorn
        BY <1>1, <1>2 DEF LtTorn, LtIn
    <2> QED
        BY <2>1, <2>2
<1>7. LtOwed' = LtOwed
    <2>1. LtSkewed' <=> LtSkewed
        BY <1>1 DEF LtSkewed
    <2>2. LtAstray' <=> LtAstray
        BY <1>1 DEF LtAstray
    <2> QED
        BY <2>1, <2>2 DEF LtOwed
<1>8. LtAccount'
    <2>1. /\ Cardinality(LtMissing') <= Cardinality(LtMissing) /\ Cardinality(LtTorn') <= Cardinality(LtTorn)
          /\ Cardinality(LtMissing) \in Nat /\ Cardinality(LtTorn) \in Nat
          /\ Cardinality(LtMissing') \in Nat /\ Cardinality(LtTorn') \in Nat
        BY <1>0, <1>3, <1>6, LtSets, LtSetsNext, LtCounts
    <2>2. LtOwed \in Nat /\ ltFaults.timeouts + ltFaults.readErrors \in Nat
        BY DEF LtOwed, LtShape
    <2> QED
        BY <1>0, <1>1, <1>7, <2>1, <2>2 DEF LtAccount
<1> QED
    BY <1>1, <1>2, <1>3, <1>4, <1>5, <1>8 DEF LtLossInv

(* The byte hdlc_ll_run_tx gives. *)
LEMMA LtByteIs ==
    ASSUME LtSender, ltSending # 0
    PROVE  /\ ltTx.frame = ltSends /\ ltSends \in 1..LtMaxSends /\ ltSends \notin ltOut /\ 0 \notin ltOut
           /\ ltTx.pos \in 0..LtBytes + 1 /\ LtBytes \in Nat \ {0}
           /\ LtByte \in LtSymbols
           /\ LtEnds => LtByte = LtFlag
           /\ ~LtEnds => ltTx.pos \in 0..LtBytes
           /\ ~LtEnds => LtByte = IF ltTx.pos = 0 THEN LtFlag ELSE <<ltSends, ltTx.pos>>
           /\ LtByte[1] \in {0, ltSends} /\ (LtByte[1] # 0 => ltTx.pos > 0)
<1>1. /\ ltTx.frame = ltSends /\ ltSends \in 1..LtMaxSends /\ ltSends \notin ltOut /\ 0 \notin ltOut
      /\ ltTx.pos \in 0..LtBytes + 1 /\ LtBytes \in Nat \ {0}
    BY LtAssumption DEF LtSender
<1>2. CASE ltTx.pos \in 1..LtBytes
    BY <1>1, <1>2 DEF LtByte, LtEnds, LtSymbols
<1>3. CASE ltTx.pos \notin 1..LtBytes
    BY <1>1, <1>3 DEF LtByte, LtEnds, LtSymbols, LtFlag
<1> QED
    BY <1>1, <1>2, <1>3

(* Does the receiver see the frame being sent from the middle, it does so  *)
(* before and after a byte is written.                                     *)
LEMMA LtWriteSkew ==
    ASSUME LtSender, LtReceiver, ltSending # 0, ltLine' = Append(ltLine, LtByte), ltRx' = ltRx,
           ltReading' = ltReading
    PROVE  /\ LtSkewed' => LtSkewed
           /\ LtAstray' <=> LtAstray
           /\ LtStream = <<>> => ltRx.state = "start" /\ ltLine = <<>>
           /\ LtEnds /\ LtStream = <<>> => LtSkewed /\ ~LtSkewed'
<1>1. ltLine \in Seq(LtSymbols) /\ LtByte \in LtSymbols /\ ltRx.state \in {"start", "data"}
    BY LtByteIs DEF LtReceiver
<1>2. /\ Append(ltLine, LtByte) # <<>>
      /\ Head(Append(ltLine, LtByte)) = IF ltLine = <<>> THEN LtByte ELSE Head(ltLine)
    BY <1>1
<1>3. LtSkewed' => LtSkewed
    BY <1>1, <1>2, LtByteIs DEF LtSkewed
<1>4. LtStream = <<>> => ltRx.state = "start" /\ ltLine = <<>>
    <2>1. ltRx.state = "data" => Len(LtStream) # 0
        BY LtStreamIs
    <2>2. Len(<<>>) = 0
        OBVIOUS
    <2> QED
        BY <2>1, <2>2, <1>1 DEF LtStream, LtStreamOf
<1>5. LtEnds /\ ltRx.state = "start" /\ ltLine = <<>> => LtSkewed /\ ~LtSkewed'
    <2>1. LtEnds => ltTx.pos > 0 /\ LtByte[1] = 0
        BY LtByteIs DEF LtEnds, LtFlag
    <2> QED
        BY <2>1, <1>2 DEF LtSkewed
<1> QED
    BY <1>3, <1>4, <1>5 DEF LtAstray

LEMMA LtOwedIs ==
    /\ LtOwed \in 0..2 /\ LtOwed' \in 0..2
    /\ (LtSkewed' => LtSkewed) /\ (LtAstray' => LtAstray) => LtOwed' <= LtOwed
    /\ LtSkewed /\ ~LtSkewed' /\ (LtAstray' => LtAstray) => LtOwed' <= LtOwed - 1
    /\ LtAstray /\ ~LtAstray' /\ (LtSkewed' => LtSkewed) => LtOwed' <= LtOwed - 1
    /\ (LtSkewed' => LtSkewed) => LtOwed' <= LtOwed + 1
    /\ (LtAstray' => LtAstray) => LtOwed' <= LtOwed + 1
    /\ LtAstray /\ ~LtAstray' => LtOwed' <= LtOwed
BY DEF LtOwed

(* What a step adds to the account it pays for. *)
LEMMA LtSettled ==
    ASSUME LtShape, LtShape', LtSender, LtSender', LtAccount,
           NEW a \in Int, NEW b \in Int, NEW c \in Int, NEW d \in Int,
           Cardinality(LtMissing') <= Cardinality(LtMissing) + a,
           Cardinality(LtTorn') <= Cardinality(LtTorn) + b,
           LtOwed' <= LtOwed + c, a + b + c <= d,
           ltFaults'.timeouts + ltFaults'.readErrors = ltFaults.timeouts + ltFaults.readErrors + d
    PROVE  LtAccount'
<1>1. /\ Cardinality(LtMissing) \in Nat /\ Cardinality(LtTorn) \in Nat
      /\ Cardinality(LtMissing') \in Nat /\ Cardinality(LtTorn') \in Nat
    BY LtSets, LtSetsNext, LtCounts
<1>2. /\ LtOwed \in Nat /\ LtOwed' \in Nat
    BY LtOwedIs
<1>3. ltFaults.timeouts \in Nat /\ ltFaults.readErrors \in Nat /\ ltFaults'.timeouts \in Nat /\ ltFaults'.readErrors \in Nat
    BY DEF LtShape
<1> QED
    BY <1>1, <1>2, <1>3 DEF LtAccount

LEMMA LtCardinals ==
    ASSUME LtSender, LtSender'
    PROVE  /\ LtMissing' \subseteq LtMissing => Cardinality(LtMissing') <= Cardinality(LtMissing)
           /\ LtTorn' \subseteq LtTorn => Cardinality(LtTorn') <= Cardinality(LtTorn)
           /\ \A x : LtMissing' \subseteq LtMissing \cup {x} =>
                        Cardinality(LtMissing') <= Cardinality(LtMissing) + 1
           /\ \A x : LtTorn' \subseteq LtTorn \cup {x} =>
                        Cardinality(LtTorn') <= Cardinality(LtTorn) + 1
           /\ \A x \in LtTorn : LtTorn' \subseteq LtTorn \ {x} =>
                        Cardinality(LtTorn') <= Cardinality(LtTorn) - 1
           /\ Cardinality(LtMissing) \in Nat /\ Cardinality(LtTorn) \in Nat
           /\ Cardinality(LtMissing') \in Nat /\ Cardinality(LtTorn') \in Nat
<1>1. /\ LtMissing \in SUBSET (1..LtMaxSends) /\ LtTorn \in SUBSET (1..LtMaxSends)
      /\ LtMissing' \in SUBSET (1..LtMaxSends) /\ LtTorn' \in SUBSET (1..LtMaxSends)
      /\ LtMaxSends \in Nat
    BY LtSets, LtSetsNext
<1> HIDE DEF LtMissing, LtTorn
<1> QED
    BY <1>1, LtCounts

LEMMA LtInAppend ==
    ASSUME NEW v \in Seq(LtSymbols), NEW b \in LtSymbols, NEW f, NEW k
    PROVE  LtIn(f, k, Append(v, b)) <=> LtIn(f, k, v) \/ (b[1] = f /\ b[2] = k)
<1>1. /\ Len(Append(v, b)) = Len(v) + 1 /\ Append(v, b)[Len(v) + 1] = b /\ Len(v) \in Nat
      /\ \A i \in 1..Len(v) : Append(v, b)[i] = v[i]
    BY AppendProperties
<1> QED
    BY <1>1 DEF LtIn

LEMMA LtWriteLoss ==
    ASSUME LtShape, LtShape', LtLossInv, LtWrite
    PROVE  LtLossInv'
<1>0. LtSender /\ LtReceiver /\ LtAccount /\ LtFlow(LtStream, ltTx.frame, ltTx.pos, ltSends, ltOut)
    BY DEF LtLossInv
<1>1. /\ ltSending # 0 /\ ltLine' = Append(ltLine, LtByte) /\ ltTx' = LtAdvance
      /\ ltSending' = (IF LtEnds THEN 0 ELSE ltSending)
      /\ ltOk' = (IF LtEnds THEN ltOk \cup {ltSending} ELSE ltOk)
      /\ ltOut' = (IF LtEnds THEN ltOut \cup {ltTx.frame} ELSE ltOut)
      /\ UNCHANGED <<ltSetup, ltSends, ltRx, ltReading, ltGot, ltFaults>>
    BY DEF LtWrite
<1>2. /\ ltTx.frame = ltSends /\ ltSends \in 1..LtMaxSends /\ ltSends \notin ltOut /\ 0 \notin ltOut
      /\ ltTx.pos \in 0..LtBytes + 1 /\ LtBytes \in Nat \ {0}
      /\ LtByte \in LtSymbols
      /\ LtByte[1] \in {0, ltSends}
      /\ ltSending = ltSends
    BY <1>0, <1>1, LtByteIs DEF LtSender
<1>3. LtStream' = Append(LtStream, LtByte) /\ LtStream \in Seq(LtSymbols)
    BY <1>0, <1>1, <1>2, LtStreamGrows, LtStreamIs
<1>4. LtReceiver'
    <2>1. Append(ltLine, LtByte) \in Seq(LtSymbols)
        BY <1>0, <1>2 DEF LtReceiver
    <2> QED
        BY <1>0, <1>1, <2>1 DEF LtReceiver
<1>5. /\ LtSkewed' => LtSkewed
      /\ LtAstray' <=> LtAstray
      /\ LtEnds /\ LtStream = <<>> => LtSkewed /\ ~LtSkewed'
    BY <1>0, <1>1, LtWriteSkew
<1>6. \A f, k : LtIn(f, k, LtStream') <=> LtIn(f, k, LtStream) \/ (LtByte[1] = f /\ LtByte[2] = k)
    BY <1>2, <1>3, LtInAppend
<1>7. ltFaults'.timeouts + ltFaults'.readErrors = ltFaults.timeouts + ltFaults.readErrors + 0
    BY <1>1 DEF LtShape
<1>8. CASE ~LtEnds
    <2>1. /\ ltTx.pos \in 0..LtBytes
          /\ LtByte = IF ltTx.pos = 0 THEN LtFlag ELSE <<ltSends, ltTx.pos>>
        BY <1>0, <1>1, <1>8, LtByteIs
    <2>2. ltTx' = [frame |-> ltSends, pos |-> ltTx.pos + 1]
        BY <1>0, <1>1, <1>2, <1>8 DEF LtAdvance, LtSender
    <2>3. LtSender'
        BY <1>0, <1>1, <1>2, <1>8, <2>1, <2>2 DEF LtSender
    <2>4. LtFlow(Append(LtStream, LtByte), ltSends, ltTx.pos + 1, ltSends, ltOut)
        BY <1>0, <1>2, <1>3, <2>1, LtFlowEmit
    <2>5. LtMissing' \subseteq LtMissing /\ LtTorn' \subseteq LtTorn
        <3>1. LtMissing' \subseteq LtMissing
            BY <1>1, <1>6, <1>8 DEF LtMissing
        <3>2. LtTorn' \subseteq LtTorn
            BY <1>1, <1>2, <1>6, <1>8, <2>2 DEF LtTorn
        <3> QED
            BY <3>1, <3>2
    <2>6. LtOwed' <= LtOwed + 0
        BY <1>5, LtOwedIs
    <2>7. LtAccount'
        <3>1. Cardinality(LtMissing') <= Cardinality(LtMissing) + 0 /\ Cardinality(LtTorn') <= Cardinality(LtTorn) + 0
            BY <1>0, <2>3, <2>5, LtCardinals
        <3>2. 0 + 0 + 0 <= 0 /\ 0 \in Int
            OBVIOUS
        <3> QED
            BY <1>0, <1>7, <2>3, <2>6, <3>1, <3>2, LtSettled
    <2> QED
        BY <1>1, <1>3, <1>4, <1>8, <2>2, <2>3, <2>4, <2>7 DEF LtLossInv
<1>9. CASE LtEnds
    <2>1. ltTx.pos = LtBytes + 1 /\ LtByte = LtFlag /\ ltTx' = [frame |-> 0, pos |-> 0]
        BY <1>0, <1>1, <1>9, LtByteIs DEF LtEnds, LtAdvance, LtNoFrame
    <2>2. LtSender'
        BY <1>0, <1>1, <1>2, <1>9, <2>1 DEF LtSender
    <2>3. /\ LtFlow(Append(LtStream, LtByte), 0, 0, ltSends, ltOut \cup {ltSends})
          /\ LtStream # <<>> => LtIn(ltSends, LtBytes, LtStream)
        BY <1>0, <1>2, <1>3, <2>1, LtFlowEnd
    <2>4. LtTorn' \subseteq LtTorn
        <3>1. ASSUME NEW f \in 1..ltSends, f \notin ltOut \cup {ltSends}, LtIn(f, 1, LtStream')
              PROVE  f \in LtTorn
            <4>1. LtIn(f, 1, LtStream)
                BY <3>1, <1>2, <1>6
            <4> QED
                BY <3>1, <1>2, <4>1 DEF LtTorn
        <3> QED
            BY <3>1, <1>1, <1>2, <1>9 DEF LtTorn
    <2>5. LtMissing' \subseteq LtMissing \cup {ltSends} /\ (LtStream # <<>> => LtMissing' \subseteq LtMissing)
        BY <1>1, <1>2, <1>6, <1>9, <2>3 DEF LtMissing
    <2>6. Cardinality(LtTorn') <= Cardinality(LtTorn) + 0
        BY <1>0, <2>2, <2>4, LtCardinals
    <2>7. CASE LtStream # <<>>
        <3>1. Cardinality(LtMissing') <= Cardinality(LtMissing) + 0
            BY <1>0, <2>2, <2>5, <2>7, LtCardinals
        <3>2. 0 + 0 + 0 <= 0 /\ 0 \in Int
            OBVIOUS
        <3>3. LtOwed' <= LtOwed + 0
            BY <1>5, LtOwedIs
        <3>4. LtAccount'
            BY <1>0, <1>7, <2>2, <2>6, <3>1, <3>2, <3>3, LtSettled
        <3> QED
            BY <1>1, <1>2, <1>3, <1>4, <1>9, <2>1, <2>2, <2>3, <3>4 DEF LtLossInv
    <2>8. CASE LtStream = <<>>
        <3>1. Cardinality(LtMissing') <= Cardinality(LtMissing) + 1
            BY <1>0, <2>2, <2>5, LtCardinals
        <3>2. 1 + 0 + (-1) <= 0 /\ 0 \in Int /\ 1 \in Int /\ -1 \in Int
            OBVIOUS
        <3>3. LtOwed' <= LtOwed + (-1)
            BY <1>5, <1>9, <2>8, LtOwedIs
        <3>4. LtAccount'
            BY <1>0, <1>7, <2>2, <2>6, <3>1, <3>2, <3>3, LtSettled
        <3> QED
            BY <1>1, <1>2, <1>3, <1>4, <1>9, <2>1, <2>2, <2>3, <3>4 DEF LtLossInv
    <2> QED
        BY <2>7, <2>8
<1> QED
    BY <1>8, <1>9

LEMMA LtWriteTimeoutLoss ==
    ASSUME LtShape, LtShape', LtLossInv, LtWriteTimeout
    PROVE  LtLossInv'
<1>0. LtSender /\ LtReceiver /\ LtAccount /\ LtFlow(LtStream, ltTx.frame, ltTx.pos, ltSends, ltOut)
    BY DEF LtLossInv
<1>1. /\ ltSending # 0 /\ ltTx' = [frame |-> 0, pos |-> 0] /\ ltSending' = 0
      /\ ltFaults' = [ltFaults EXCEPT !.timeouts = @ + 1]
      /\ \/ ltLine' = ltLine /\ ltOut' = ltOut
         \/ /\ ltLine' = Append(ltLine, LtByte)
            /\ ltOut' = IF LtEnds THEN ltOut \cup {ltTx.frame} ELSE ltOut
      /\ UNCHANGED <<ltSetup, ltSends, ltRx, ltReading, ltOk, ltGot>>
    BY DEF LtWriteTimeout, LtFault, LtGiveUp, LtNoFrame
<1>2. /\ ltTx.frame = ltSends /\ ltSends \in 1..LtMaxSends /\ ltSends \notin ltOut /\ 0 \notin ltOut
      /\ ltTx.pos \in 0..LtBytes + 1 /\ LtBytes \in Nat \ {0}
      /\ LtByte \in LtSymbols
      /\ LtByte[1] \in {0, ltSends}
    BY <1>0, <1>1, LtByteIs
<1>3. LtStream \in Seq(LtSymbols)
    BY <1>0, LtStreamIs
<1>4. LtSender'
    BY <1>0, <1>1, <1>2 DEF LtSender
<1>5. ltFaults'.timeouts + ltFaults'.readErrors = ltFaults.timeouts + ltFaults.readErrors + 1
    BY <1>1 DEF LtShape
<1>6. CASE ltLine' = ltLine /\ ltOut' = ltOut
    <2>1. LtStream' = LtStream
        BY <1>1, <1>6 DEF LtStream, LtStreamOf
    <2>2. LtFlow(LtStream, 0, 0, ltSends, ltOut)
        BY <1>0, <1>3, LtFlowDrop
    <2>3. LtReceiver'
        BY <1>0, <1>1, <1>6 DEF LtReceiver
    <2>4. LtMissing' \subseteq LtMissing /\ LtTorn' \subseteq LtTorn \cup {ltSends}
        <3>1. LtMissing' \subseteq LtMissing
            BY <1>1, <2>1 DEF LtMissing
        <3>2. LtTorn' \subseteq LtTorn \cup {ltSends}
            BY <1>1, <1>2, <1>6, <2>1 DEF LtTorn
        <3> QED
            BY <3>1, <3>2
    <2>5. LtOwed' <= LtOwed + 0
        <3>1. (LtSkewed' => LtSkewed) /\ (LtAstray' => LtAstray)
            BY <1>1, <1>6 DEF LtSkewed, LtAstray
        <3> QED
            BY <3>1, LtOwedIs
    <2>6. LtAccount'
        <3>1. Cardinality(LtMissing') <= Cardinality(LtMissing) + 0 /\ Cardinality(LtTorn') <= Cardinality(LtTorn) + 1
            BY <1>0, <1>4, <2>4, LtCardinals
        <3>2. 0 + 1 + 0 <= 1 /\ 0 \in Int /\ 1 \in Int
            OBVIOUS
        <3> QED
            BY <1>0, <1>4, <1>5, <2>5, <3>1, <3>2, LtSettled
    <2> QED
        BY <1>1, <1>4, <1>6, <2>1, <2>2, <2>3, <2>6 DEF LtLossInv
<1>7. CASE /\ ltLine' = Append(ltLine, LtByte)
           /\ ltOut' = IF LtEnds THEN ltOut \cup {ltTx.frame} ELSE ltOut
    <2>1. LtStream' = Append(LtStream, LtByte)
        BY <1>0, <1>1, <1>2, <1>7, LtStreamGrows
    <2>2. LtFlow(LtStream', 0, 0, ltSends, ltOut')
        <3>1. CASE LtEnds
            <4>1. ltTx.pos = LtBytes + 1 /\ LtByte = LtFlag
                BY <1>0, <1>1, <3>1, LtByteIs DEF LtEnds
            <4> QED
                BY <1>0, <1>2, <1>3, <1>7, <2>1, <3>1, <4>1, LtFlowEnd
        <3>2. CASE ~LtEnds
            <4>1. /\ ltTx.pos \in 0..LtBytes
                  /\ LtByte = IF ltTx.pos = 0 THEN LtFlag ELSE <<ltSends, ltTx.pos>>
                BY <1>0, <1>1, <3>2, LtByteIs
            <4>2. LtFlow(Append(LtStream, LtByte), ltSends, ltTx.pos + 1, ltSends, ltOut)
                BY <1>0, <1>2, <1>3, <4>1, LtFlowEmit
            <4>3. Append(LtStream, LtByte) \in Seq(LtSymbols)
                BY <1>2, <1>3
            <4> QED
                BY <1>7, <2>1, <3>2, <4>2, <4>3, LtFlowDrop
        <3> QED
            BY <3>1, <3>2
    <2>3. LtReceiver'
        <3>1. Append(ltLine, LtByte) \in Seq(LtSymbols)
            BY <1>0, <1>2 DEF LtReceiver
        <3> QED
            BY <1>0, <1>1, <1>7, <3>1 DEF LtReceiver
    <2>4. LtMissing' \subseteq LtMissing /\ LtTorn' \subseteq LtTorn \cup {ltSends}
        <3>0. \A f, k : LtIn(f, k, LtStream') <=> LtIn(f, k, LtStream) \/ (LtByte[1] = f /\ LtByte[2] = k)
            BY <1>2, <1>3, <2>1, LtInAppend
        <3>1. LtMissing' \subseteq LtMissing
            BY <1>1, <3>0 DEF LtMissing
        <3>2. ASSUME NEW f \in LtTorn', f # ltSends PROVE f \in LtTorn
            <4>1. f \in 1..ltSends /\ f \notin ltOut /\ LtIn(f, 1, LtStream')
                BY <1>1, <1>7 DEF LtTorn
            <4>2. LtIn(f, 1, LtStream)
                BY <4>1, <3>0, <3>2, <1>2
            <4> QED
                BY <1>2, <3>2, <4>1, <4>2 DEF LtTorn
        <3> QED
            BY <3>1, <3>2
    <2>5. LtOwed' <= LtOwed + 0
        <3>1. (LtSkewed' => LtSkewed) /\ (LtAstray' => LtAstray)
            BY <1>0, <1>1, <1>7, LtWriteSkew
        <3> QED
            BY <3>1, LtOwedIs
    <2>6. LtAccount'
        <3>1. Cardinality(LtMissing') <= Cardinality(LtMissing) + 0 /\ Cardinality(LtTorn') <= Cardinality(LtTorn) + 1
            BY <1>0, <1>4, <2>4, LtCardinals
        <3>2. 0 + 1 + 0 <= 1 /\ 0 \in Int /\ 1 \in Int
            OBVIOUS
        <3> QED
            BY <1>0, <1>4, <1>5, <2>5, <3>1, <3>2, LtSettled
    <2> QED
        BY <1>1, <1>4, <2>2, <2>3, <2>6 DEF LtLossInv
<1> QED
    BY <1>1, <1>6, <1>7

(* The steps of the receiver take bytes from the front of the stream. *)
LtDrops(d) ==
    /\ d \in 0..Len(LtStream) /\ Len(LtStream') = Len(LtStream) - d
    /\ \A i \in 1..Len(LtStream') : LtStream'[i] = LtStream[i + d]
    /\ LtStream' \in Seq(LtSymbols)

LEMMA LtDropped ==
    ASSUME LtSender, LtReceiver, NEW d \in Nat, LtDrops(d),
           LtFlow(LtStream, ltTx.frame, ltTx.pos, ltSends, ltOut),
           UNCHANGED <<ltTx, ltSends, ltOut, ltOk, ltSending>>,
           \A i \in 1..Len(ltGot) : \E j \in 1..Len(ltGot') : ltGot'[j] = ltGot[i]
    PROVE  /\ LtSender' /\ LtFlow(LtStream', ltTx'.frame, ltTx'.pos, ltSends', ltOut')
           /\ LtTorn' \subseteq LtTorn
           /\ \A f \in LtMissing' : \/ f \in LtMissing
                                    \/ f \in ltOk /\ \E i \in 1..d : LtStream[i][1] = f /\ LtStream[i][2] = LtBytes
<1>1. LtSender'
    BY DEF LtSender
<1>2. LtFlow(LtStream', ltTx.frame, ltTx.pos, ltSends, ltOut)
    BY LtStreamIs, LtFlowSuffix DEF LtDrops
<1>3. LtTorn' \subseteq LtTorn
    <2>1. ASSUME NEW f, LtIn(f, 1, LtStream') PROVE LtIn(f, 1, LtStream)
        <3>1. PICK i \in 1..Len(LtStream') : LtStream'[i][1] = f /\ LtStream'[i][2] = 1
            BY <2>1 DEF LtIn
        <3>2. PICK j \in 1..Len(LtStream) : j = i + d
            BY LtStreamIs DEF LtDrops
        <3>3. LtStream[j] = LtStream'[i]
            BY <3>2 DEF LtDrops
        <3> QED
            BY <3>1, <3>3 DEF LtIn
    <2> QED
        BY <2>1 DEF LtTorn
<1>4. ASSUME NEW f \in LtMissing', f \notin LtMissing
      PROVE  f \in ltOk /\ \E i \in 1..d : LtStream[i][1] = f /\ LtStream[i][2] = LtBytes
    <2>1. f \in ltOk /\ (\A i \in 1..Len(ltGot) : ltGot[i] # f) /\ ~LtIn(f, LtBytes, LtStream')
        BY DEF LtMissing
    <2>2. LtIn(f, LtBytes, LtStream)
        BY <1>4, <2>1 DEF LtMissing
    <2>3. PICK j \in 1..Len(LtStream) : LtStream[j][1] = f /\ LtStream[j][2] = LtBytes
        BY <2>2 DEF LtIn
    <2>4. ASSUME j > d PROVE FALSE
        <3>1. PICK i \in 1..Len(LtStream') : j = i + d
            <4>1. j - d \in 1..Len(LtStream') /\ j = (j - d) + d
                BY <2>4, LtStreamIs DEF LtDrops
            <4> QED
                BY <4>1
        <3>2. LtStream[j] = LtStream'[i]
            BY <3>1 DEF LtDrops
        <3> QED
            BY <2>1, <2>3, <3>2 DEF LtIn
    <2> QED
        BY <2>1, <2>3, <2>4
<1> QED
    BY <1>1, <1>2, <1>3, <1>4

LEMMA LtStreamNext ==
    ASSUME ltRx'.buf \in Seq(LtSymbols), ltLine' \in Seq(LtSymbols)
    PROVE  LtLaid(LtStream', ltRx'.state, ltRx'.buf, ltLine')
BY LtStreamOfIs DEF LtStream

(* What hdlc_ll_run_rx does with a byte, in five cases. *)
LtOpens ==
    /\ ltRx.state = "start" /\ Head(ltLine) = LtFlag
    /\ ltRx' = [state |-> "data", buf |-> <<>>, owner |-> ltReading]
    /\ UNCHANGED <<ltReading, ltGot>>
LtAligns ==
    /\ ltRx.state = "data" /\ Head(ltLine) = LtFlag
    /\ ltRx.buf = <<>> /\ ltRx.owner = ltReading
    /\ UNCHANGED <<ltRx, ltReading, ltGot>>
LtCloses ==
    /\ ltRx.state = "data" /\ Head(ltLine) = LtFlag
    /\ ~(ltRx.buf = <<>> /\ ltRx.owner = ltReading)
    /\ ltRx' = [state |-> "start", buf |-> <<>>, owner |-> ltRx.owner]
    /\ ltReading' = <<>>
    /\ ltGot' = IF LtComplete(ltRx.buf) /\ ltRx.owner = ltReading
                THEN Append(ltGot, ltRx.buf[1][1]) ELSE ltGot
LtStores ==
    /\ ltRx.state = "data" /\ Head(ltLine) # LtFlag
    /\ ltRx' = [state |-> "data", buf |-> Append(ltRx.buf, Head(ltLine)), owner |-> ltRx.owner]
    /\ UNCHANGED <<ltReading, ltGot>>
LtSkips ==
    /\ ltRx.state = "start" /\ Head(ltLine) # LtFlag
    /\ UNCHANGED <<ltRx, ltReading, ltGot>>

LEMMA LtReadCases ==
    ASSUME LtShape, LtReceiver, LtReadByte
    PROVE  /\ ltReading # <<>> /\ ltLine # <<>> /\ ltLine' = Tail(ltLine)
           /\ UNCHANGED <<ltSetup, ltTx, ltSending, ltSends, ltOk, ltOut, ltFaults>>
           /\ LtOpens \/ LtAligns \/ LtCloses \/ LtStores \/ LtSkips
<1> DEFINE flag == Head(ltLine) = LtFlag
           opens == flag /\ ltRx.state = "start"
           closes == flag /\ ltRx.state = "data"
           empty == ltRx.buf = <<>> /\ ltRx.owner = ltReading
           good == LtComplete(ltRx.buf) /\ ltRx.owner = ltReading
<1>1. /\ ltReading # <<>> /\ ltLine # <<>> /\ ltLine' = Tail(ltLine)
      /\ UNCHANGED <<ltSetup, ltTx, ltSending, ltSends, ltOk, ltOut, ltFaults>>
      /\ ltReading' = IF closes /\ ~empty THEN <<>> ELSE ltReading
      /\ ltGot' = IF closes /\ ~empty /\ good THEN Append(ltGot, ltRx.buf[1][1]) ELSE ltGot
      /\ ltRx' = CASE opens -> [state |-> "data", buf |-> <<>>, owner |-> ltReading]
                   [] closes /\ empty -> ltRx
                   [] closes /\ ~empty -> [ltRx EXCEPT !.state = "start", !.buf = <<>>]
                   [] ~flag /\ ltRx.state = "data" -> [ltRx EXCEPT !.buf = Append(@, Head(ltLine))]
                   [] OTHER -> ltRx
    BY DEF LtReadByte, LtAlignment
<1>s. ltRx.state \in {"start", "data"} /\ ltRx = [state |-> ltRx.state, buf |-> ltRx.buf, owner |-> ltRx.owner]
    BY DEF LtShape, LtReceiver
<1>2. CASE opens
    BY <1>1, <1>2 DEF LtOpens
<1>3. CASE closes /\ empty
    BY <1>1, <1>3 DEF LtAligns
<1>4. CASE closes /\ ~empty
    BY <1>1, <1>4, <1>s DEF LtCloses
<1>5. CASE ~flag /\ ltRx.state = "data"
    BY <1>1, <1>5, <1>s DEF LtStores
<1>6. CASE ~flag /\ ltRx.state = "start"
    BY <1>1, <1>6 DEF LtSkips
<1> QED
    BY <1>1, <1>2, <1>3, <1>4, <1>5, <1>6, <1>s

(* What the cases have in common. *)
LtReads ==
    /\ LtShape /\ LtShape' /\ LtSender /\ LtReceiver /\ LtAccount
    /\ LtFlow(LtStream, ltTx.frame, ltTx.pos, ltSends, ltOut)
    /\ ltReading # <<>> /\ ltLine # <<>> /\ ltLine' = Tail(ltLine)
    /\ UNCHANGED <<ltSetup, ltTx, ltSending, ltSends, ltOk, ltOut, ltFaults>>

LEMMA LtReadsTail ==
    ASSUME LtReads
    PROVE  /\ ltLine \in Seq(LtSymbols) /\ ltLine' \in Seq(LtSymbols) /\ ltRx.buf \in Seq(LtSymbols)
           /\ Len(ltLine) \in Nat \ {0} /\ Len(ltLine') = Len(ltLine) - 1
           /\ \A i \in 1..Len(ltLine') : ltLine'[i] = ltLine[i + 1]
           /\ Head(ltLine) = ltLine[1] /\ ltLine[1] \in LtSymbols
           /\ (Head(ltLine) = LtFlag <=> Head(ltLine)[1] = 0)
           /\ ltLine' # <<>> <=> Len(ltLine) > 1
           /\ ltLine' # <<>> => Head(ltLine') = ltLine[2]
           /\ ltFaults'.timeouts + ltFaults'.readErrors = ltFaults.timeouts + ltFaults.readErrors + 0
<1>1. ltLine \in Seq(LtSymbols) /\ ltLine # <<>> /\ ltRx.buf \in Seq(LtSymbols) /\ ltLine' = Tail(ltLine)
    BY DEF LtReads, LtReceiver
<1>2. /\ Len(ltLine) \in Nat \ {0} /\ ltLine' \in Seq(LtSymbols) /\ Len(ltLine') = Len(ltLine) - 1
      /\ \A i \in 1..Len(ltLine') : ltLine'[i] = ltLine[i + 1]
      /\ Head(ltLine) = ltLine[1] /\ ltLine[1] \in LtSymbols
    BY <1>1
<1>3. ltLine' # <<>> <=> Len(ltLine') # 0
    BY <1>2, EmptySeq
<1>4. ltLine' # <<>> => Head(ltLine') = ltLine[2]
    BY <1>2, <1>3
<1>5. ltFaults'.timeouts + ltFaults'.readErrors = ltFaults.timeouts + ltFaults.readErrors + 0
    BY DEF LtReads, LtShape
<1>6. Head(ltLine) = LtFlag <=> Head(ltLine)[1] = 0
    BY <1>2, LtSymbol
<1> QED
    BY <1>1, <1>2, <1>3, <1>4, <1>5, <1>6

(* A step that drops flags only. *)
LEMMA LtFlagsDropped ==
    ASSUME LtShape, LtShape', LtSender, LtReceiver, LtReceiver', LtAccount, NEW d \in Nat, LtDrops(d),
           LtFlow(LtStream, ltTx.frame, ltTx.pos, ltSends, ltOut),
           UNCHANGED <<ltTx, ltSends, ltOut, ltOk, ltSending, ltGot>>,
           NEW c \in Int, LtOwed' <= LtOwed + c,
           ltFaults'.timeouts + ltFaults'.readErrors = ltFaults.timeouts + ltFaults.readErrors + c,
           \A i \in 1..d : LtStream[i][1] \notin ltOk
    PROVE  LtLossInv'
<1>1. \A i \in 1..Len(ltGot) : \E j \in 1..Len(ltGot') : ltGot'[j] = ltGot[i]
    OBVIOUS
<1>2. /\ LtSender' /\ LtFlow(LtStream', ltTx'.frame, ltTx'.pos, ltSends', ltOut')
      /\ LtTorn' \subseteq LtTorn
      /\ \A f \in LtMissing' : \/ f \in LtMissing
                               \/ f \in ltOk /\ \E i \in 1..d : LtStream[i][1] = f /\ LtStream[i][2] = LtBytes
    BY <1>1, LtDropped
<1>3. LtMissing' \subseteq LtMissing
    BY <1>2
<1>4. Cardinality(LtMissing') <= Cardinality(LtMissing) + 0 /\ Cardinality(LtTorn') <= Cardinality(LtTorn) + 0
    BY <1>2, <1>3, LtCardinals
<1>5. 0 + 0 + c <= c /\ 0 \in Int
    OBVIOUS
<1>6. LtAccount'
    BY <1>2, <1>4, <1>5, LtSettled
<1> QED
    BY <1>2, <1>6 DEF LtLossInv

LEMMA LtOpensLoss ==
    ASSUME LtReads, LtOpens
    PROVE  LtLossInv'
<1>1. LtReceiver'
    BY LtReadsTail DEF LtReads, LtReceiver, LtOpens
<1>2. LtLaid(LtStream', "data", <<>>, ltLine')
    <2>1. ltRx'.buf \in Seq(LtSymbols) /\ ltRx'.state = "data" /\ ltRx'.buf = <<>>
        BY DEF LtOpens
    <2> QED
        BY <2>1, LtReadsTail, LtStreamNext
<1>3. LtStream = ltLine
    BY LtStreamIs DEF LtReads, LtOpens
<1>4. LtDrops(0)
    <2>1. Len(LtStream') = Len(ltLine) /\ LtStream'[1] = LtFlag /\ \A k \in 1..Len(ltLine') : LtStream'[1 + k] = ltLine'[k]
        BY <1>2, LtReadsTail DEF LtLaid
    <2>2. \A i \in 1..Len(LtStream') : LtStream'[i] = LtStream[i + 0]
        <3> TAKE i \in 1..Len(LtStream')
        <3>1. CASE i = 1
            BY <3>1, <2>1, <1>3, LtReadsTail DEF LtOpens
        <3>2. CASE i # 1
            <4>1. PICK k \in 1..Len(ltLine') : i = 1 + k
                <5>1. i - 1 \in 1..Len(ltLine') /\ i = 1 + (i - 1)
                    BY <3>2, <2>1, LtReadsTail
                <5> QED
                    BY <5>1
            <4> QED
                BY <4>1, <2>1, <1>3, LtReadsTail
        <3> QED
            BY <3>1, <3>2
    <2> QED
        BY <2>1, <2>2, <1>2, <1>3, LtReadsTail DEF LtDrops, LtLaid
<1>5. LtOwed' <= LtOwed + 0
    <2>1. ~LtSkewed' /\ ~LtAstray'
        BY DEF LtSkewed, LtAstray, LtOpens
    <2> QED
        BY <2>1, LtOwedIs
<1> QED
    BY <1>1, <1>4, <1>5, LtReadsTail, LtFlagsDropped DEF LtReads, LtOpens

LEMMA LtAlignsLoss ==
    ASSUME LtReads, LtAligns
    PROVE  LtLossInv'
<1>1. LtReceiver'
    BY LtReadsTail DEF LtReads, LtReceiver, LtAligns
<1>2. LtLaid(LtStream', "data", <<>>, ltLine') /\ LtLaid(LtStream, "data", <<>>, ltLine)
    <2>1. ltRx'.buf \in Seq(LtSymbols) /\ ltRx'.state = "data" /\ ltRx'.buf = <<>>
        BY LtReadsTail DEF LtAligns
    <2>2. ltRx.buf \in Seq(LtSymbols) /\ ltRx.state = "data" /\ ltRx.buf = <<>>
        BY LtReadsTail DEF LtAligns
    <2> QED
        BY <2>1, <2>2, LtReadsTail, LtStreamNext, LtStreamOfIs DEF LtStream
<1>4. LtDrops(1)
    <2>1. /\ Len(LtStream') = Len(ltLine) /\ LtStream'[1] = LtFlag /\ \A k \in 1..Len(ltLine') : LtStream'[1 + k] = ltLine'[k]
          /\ Len(LtStream) = Len(ltLine) + 1 /\ \A k \in 1..Len(ltLine) : LtStream[1 + k] = ltLine[k]
        BY <1>2, LtReadsTail DEF LtLaid
    <2>2. \A i \in 1..Len(LtStream') : LtStream'[i] = LtStream[i + 1]
        <3> TAKE i \in 1..Len(LtStream')
        <3>0. LtStream[1 + i] = ltLine[i]
            BY <2>1
        <3>1. CASE i = 1
            BY <3>0, <3>1, <2>1, LtReadsTail DEF LtAligns
        <3>2. CASE i # 1
            <4>1. PICK k \in 1..Len(ltLine') : i = 1 + k
                <5>1. i - 1 \in 1..Len(ltLine') /\ i = 1 + (i - 1)
                    BY <3>2, <2>1, LtReadsTail
                <5> QED
                    BY <5>1
            <4>2. LtStream'[i] = ltLine'[k]
                BY <4>1, <2>1
            <4>3. ltLine'[k] = ltLine[k + 1] /\ k + 1 = i /\ 1 + i = i + 1
                BY <4>1, LtReadsTail
            <4> QED
                BY <3>0, <4>2, <4>3
        <3> QED
            BY <3>1, <3>2
    <2> QED
        BY <2>1, <2>2, <1>2, LtReadsTail DEF LtDrops, LtLaid
<1>5. LtOwed' <= LtOwed + 0
    <2>1. ~LtSkewed' /\ ~LtAstray'
        BY DEF LtSkewed, LtAstray, LtAligns
    <2> QED
        BY <2>1, LtOwedIs
<1>6. \A i \in 1..1 : LtStream[i][1] \notin ltOk
    BY <1>2 DEF LtLaid, LtFlag, LtReads, LtSender
<1> QED
    BY <1>1, <1>4, <1>5, <1>6, LtReadsTail, LtFlagsDropped DEF LtReads, LtAligns

LEMMA LtStoresLoss ==
    ASSUME LtReads, LtStores
    PROVE  LtLossInv'
<1> DEFINE n == Len(ltRx.buf)
           h == Head(ltLine)
<1>0. /\ ltRx.buf \in Seq(LtSymbols) /\ n \in Nat /\ h \in LtSymbols /\ h[1] # 0 /\ h = <<h[1], h[2]>>
      /\ ltRx'.buf = Append(ltRx.buf, h)
    <2>1. ltRx.buf \in Seq(LtSymbols) /\ h \in LtSymbols /\ h # LtFlag
        BY LtReadsTail DEF LtStores
    <2>2. n \in Nat
        BY <2>1
    <2>3. h[1] # 0 /\ h = <<h[1], h[2]>>
        BY <2>1, LtSymbol
    <2> QED
        BY <2>1, <2>2, <2>3 DEF LtStores
<1>m. PICK m \in Nat \ {0} : m = Len(ltLine)
    BY LtReadsTail
<1>n. n \in Nat
    BY <1>0
<1> HIDE DEF n
<1>1. /\ ltRx'.buf \in Seq(LtSymbols) /\ Len(ltRx'.buf) = n + 1 /\ ltRx'.buf[n + 1] = h
      /\ \A i \in 1..n : ltRx'.buf[i] = ltRx.buf[i]
    BY <1>0, AppendProperties DEF n
<1>2. LtLaid(LtStream', "data", ltRx'.buf, ltLine') /\ LtLaid(LtStream, "data", ltRx.buf, ltLine)
    <2>1. ltRx'.state = "data" /\ ltRx.state = "data"
        BY DEF LtStores
    <2> QED
        BY <1>0, <1>1, <2>1, LtReadsTail, LtStreamNext, LtStreamOfIs DEF LtStream
<1>3. /\ Len(LtStream') = 1 + (n + 1) + (Len(ltLine) - 1) /\ Len(LtStream) = 1 + n + Len(ltLine)
      /\ LtStream'[1] = LtFlag /\ LtStream[1] = LtFlag
      /\ \A k \in 1..n + 1 : LtStream'[1 + k] = ltRx'.buf[k]
      /\ \A k \in 1..n : LtStream[1 + k] = ltRx.buf[k]
      /\ \A k \in 1..Len(ltLine) - 1 : LtStream'[1 + (n + 1) + k] = ltLine'[k]
      /\ \A k \in 1..Len(ltLine) : LtStream[1 + n + k] = ltLine[k]
      /\ LtStream' \in Seq(LtSymbols)
    BY <1>1, <1>2, LtReadsTail DEF LtLaid, n
<1>4. LtStream[1 + n + 1] = h
    <2>1. 1 \in 1..Len(ltLine) /\ ltLine[1] = h
        BY LtReadsTail
    <2> QED
        BY <1>3, <2>1
<1>5. LtDrops(0)
    <2>1. Len(LtStream') = 1 + n + m
        BY <1>0, <1>3, <1>m
    <2>2. ASSUME NEW i \in 1..1 + n + m PROVE LtStream'[i] = LtStream[i]
        <3>1. CASE i = 1
            BY <3>1, <1>3
        <3>2. CASE i \in 2..n + 1
            <4>1. PICK k \in 1..n : i = 1 + k
                <5>1. i - 1 \in 1..n /\ i = 1 + (i - 1)
                    BY <1>0, <3>2
                <5> QED
                    BY <5>1
            <4>2. k \in 1..n + 1
                BY <1>0
            <4> QED
                BY <4>1, <4>2, <1>1, <1>3
        <3>3. CASE i = n + 2
            <4>1. n + 1 \in 1..n + 1 /\ i = 1 + (n + 1) /\ i = 1 + n + 1
                BY <1>0, <3>3
            <4>2. LtStream'[1 + (n + 1)] = h
                BY <4>1, <1>1, <1>3
            <4> QED
                BY <4>1, <4>2, <1>4
        <3>4. CASE i > n + 2
            <4>1. PICK k \in 1..Len(ltLine) - 1 : i = 1 + (n + 1) + k
                <5>1. i - (n + 2) \in 1..Len(ltLine) - 1 /\ i = 1 + (n + 1) + (i - (n + 2))
                    BY <1>n, <1>m, <3>4
                <5> QED
                    BY <5>1
            <4>2. k \in 1..Len(ltLine') /\ k + 1 \in 1..Len(ltLine) /\ i = 1 + n + (k + 1)
                <5>1. Len(ltLine') = m - 1 /\ k \in 1..m - 1
                    BY <4>1, <1>m, LtReadsTail
                <5> QED
                    BY <4>1, <1>n, <1>m, <5>1
            <4>3. LtStream[1 + n + (k + 1)] = ltLine[k + 1]
                BY <4>2, <1>3
            <4>4. LtStream'[i] = ltLine'[k] /\ ltLine'[k] = ltLine[k + 1]
                BY <4>1, <4>2, <1>3, LtReadsTail
            <4> QED
                BY <4>2, <4>3, <4>4
        <3> QED
            BY <3>1, <3>2, <3>3, <3>4, <1>0
    <2>3. Len(LtStream') = Len(LtStream) - 0 /\ 0 \in 0..Len(LtStream)
        BY <1>0, <1>3, LtReadsTail
    <2>4. \A i \in 1..Len(LtStream') : i + 0 = i
        BY <2>1, <1>0
    <2> QED
        BY <2>1, <2>2, <2>3, <2>4, <1>3 DEF LtDrops
<1>6. LtReceiver'
    <2>1. LtLinked(LtStream) /\ n + 1 \in 1..Len(LtStream) - 1
        BY <1>0, <1>3, LtReadsTail DEF LtFlow, LtReads
    <2>2. /\ LtStream[n + 1][1] = 0 => h[2] = 1
          /\ LtStream[n + 1][1] # 0 => h[1] = LtStream[n + 1][1] /\ h[2] = LtStream[n + 1][2] + 1
        <3>1. (n + 1) + 1 = 1 + n + 1
            BY <1>0
        <3> QED
            BY <2>1, <3>1, <1>0, <1>4 DEF LtLinked
    <2>3. \A k \in 1..n + 1 : ltRx'.buf[k] = <<ltRx'.buf[1][1], k>> /\ ltRx'.buf[1][1] # 0
        <3>1. CASE n = 0
            <4>1. LtStream[n + 1][1] = 0
                BY <3>1, <1>3 DEF LtFlag
            <4> QED
                BY <3>1, <4>1, <2>2, <1>0, <1>1
        <3>2. CASE n > 0
            <4>1. /\ \A k \in 1..n : ltRx.buf[k] = <<ltRx.buf[1][1], k>> /\ ltRx.buf[1][1] # 0
                BY DEF LtReads, LtReceiver, n
            <4>2. n \in 1..n /\ 1 \in 1..n /\ LtStream[1 + n] = ltRx.buf[n] /\ 1 + n = n + 1
                <5>1. n \in 1..n /\ 1 \in 1..n /\ 1 + n = n + 1
                    BY <1>0, <3>2
                <5> QED
                    BY <5>1, <1>3
            <4>3. ltRx.buf[n][1] = ltRx.buf[1][1] /\ ltRx.buf[n][2] = n /\ ltRx.buf[1][1] # 0
                BY <4>1, <4>2
            <4>4. h = <<ltRx.buf[1][1], n + 1>>
                BY <4>2, <4>3, <2>2, <1>0
            <4> QED
                BY <4>1, <4>2, <4>3, <4>4, <1>1, <1>0
        <3> QED
            BY <3>1, <3>2, <1>n
    <2> QED
        BY <2>3, <1>1, LtReadsTail DEF LtReads, LtReceiver, LtStores
<1>7. LtOwed' <= LtOwed + 0
    <2>1. ~LtSkewed' /\ (LtAstray' => LtAstray)
        BY DEF LtSkewed, LtAstray, LtStores
    <2> QED
        BY <2>1, LtOwedIs
<1> QED
    BY <1>5, <1>6, <1>7, LtReadsTail, LtFlagsDropped DEF LtReads, LtStores

(* Behind the last byte of a frame that went out is its closing flag. *)
LEMMA LtClosed ==
    ASSUME NEW v \in Seq(LtSymbols), NEW frame, NEW pos, NEW sends, NEW out,
           LtFlow(v, frame, pos, sends, out), NEW i \in 1..Len(v),
           v[i][1] \in out, 0 \notin out, v[i][2] = LtBytes
    PROVE  /\ i < Len(v) /\ v[i + 1][1] = 0
           /\ i + 1 = Len(v) => pos = 0
           /\ i + 1 < Len(v) => v[i + 2][1] = 0
<1>1. /\ i < Len(v)
      /\ i + 1 = Len(v) => pos = 0
      /\ i + 1 < Len(v) => v[i + 2][1] = 0
    BY DEF LtFlow, LtWhole
<1>2. i + 1 \in 1..Len(v) /\ i \in 1..Len(v) - 1
    BY <1>1
<1>3. v[i + 1] \in LtSymbols
    BY <1>2
<1>4. v[i + 1][2] \in 0..LtBytes /\ LtBytes \in Nat
    BY <1>3, LtSymbol, LtAssumption
<1>5. v[i + 1][1] # 0 => v[i + 1][2] = LtBytes + 1
    BY <1>2 DEF LtFlow, LtLinked
<1> QED
    BY <1>1, <1>4, <1>5

LEMMA LtSkipsLoss ==
    ASSUME LtReads, LtSkips
    PROVE  LtLossInv'
<1> DEFINE f == ltLine[1][1]
<1>1. LtReceiver'
    BY LtReadsTail DEF LtReads, LtReceiver, LtSkips
<1>2. LtStream = ltLine /\ LtStream' = ltLine'
    <2>1. ltRx.state # "data" /\ ltRx'.state # "data"
        BY DEF LtSkips
    <2> QED
        BY <2>1 DEF LtStream, LtStreamOf
<1>3. LtDrops(1)
    BY <1>2, LtReadsTail DEF LtDrops
<1>4. LtSkewed /\ ~LtAstray /\ ~LtAstray'
    <2>1. Head(ltLine)[1] # 0
        BY LtReadsTail DEF LtSkips
    <2> QED
        BY <2>1 DEF LtSkips, LtSkewed, LtAstray, LtReads
<1>5. /\ LtSender' /\ LtFlow(LtStream', ltTx'.frame, ltTx'.pos, ltSends', ltOut')
      /\ LtTorn' \subseteq LtTorn
      /\ \A g \in LtMissing' : \/ g \in LtMissing
                               \/ g \in ltOk /\ \E i \in 1..1 : LtStream[i][1] = g /\ LtStream[i][2] = LtBytes
    <2>1. \A i \in 1..Len(ltGot) : \E j \in 1..Len(ltGot') : ltGot'[j] = ltGot[i]
        BY DEF LtSkips
    <2>2. 1 \in Nat
        OBVIOUS
    <2> QED
        BY <1>3, <2>1, <2>2, LtDropped DEF LtReads
<1>6. \A g \in LtMissing' : g \in LtMissing \/ (g \in ltOk /\ g = f /\ ltLine[1][2] = LtBytes)
    BY <1>2, <1>5
<1>7. Cardinality(LtTorn') <= Cardinality(LtTorn) + 0
    BY <1>5, LtCardinals DEF LtReads
<1>8. ltFaults'.timeouts + ltFaults'.readErrors = ltFaults.timeouts + ltFaults.readErrors + 0
    BY LtReadsTail
<1>9. CASE f \in ltOk /\ ltLine[1][2] = LtBytes
    <2>1. ~LtSkewed'
        <3>1. 1 < Len(ltLine) /\ ltLine[1 + 1][1] = 0
            <4>1. 1 \in 1..Len(ltLine) /\ ltOk \subseteq ltOut /\ 0 \notin ltOut
                BY LtReadsTail DEF LtReads, LtSender
            <4> QED
                BY <1>2, <1>9, <4>1, LtClosed, LtReadsTail DEF LtReads
        <3>2. ltLine' # <<>> /\ Head(ltLine') = ltLine[2]
            BY <3>1, LtReadsTail
        <3> QED
            BY <3>1, <3>2 DEF LtSkewed
    <2>2. LtOwed' <= LtOwed + (-1)
        BY <2>1, <1>4, LtOwedIs
    <2>3. Cardinality(LtMissing') <= Cardinality(LtMissing) + 1
        <3>1. LtMissing' \subseteq LtMissing \cup {f}
            BY <1>6
        <3> QED
            BY <3>1, <1>5, LtCardinals DEF LtReads
    <2>4. 1 + 0 + (-1) <= 0 /\ 0 \in Int /\ 1 \in Int /\ -1 \in Int
        OBVIOUS
    <2>5. LtAccount'
        BY <1>5, <1>7, <1>8, <2>2, <2>3, <2>4, LtSettled DEF LtReads
    <2> QED
        BY <1>1, <1>5, <2>5 DEF LtLossInv
<1>10. CASE ~(f \in ltOk /\ ltLine[1][2] = LtBytes)
    <2>1. LtOwed' <= LtOwed + 0
        BY <1>4, LtOwedIs
    <2>2. Cardinality(LtMissing') <= Cardinality(LtMissing) + 0
        <3>1. LtMissing' \subseteq LtMissing
            BY <1>6, <1>10
        <3> QED
            BY <3>1, <1>5, LtCardinals DEF LtReads
    <2>4. 0 + 0 + 0 <= 0 /\ 0 \in Int
        OBVIOUS
    <2>5. LtAccount'
        BY <1>5, <1>7, <1>8, <2>1, <2>2, <2>4, LtSettled DEF LtReads
    <2> QED
        BY <1>1, <1>5, <2>5 DEF LtLossInv
<1> QED
    BY <1>9, <1>10

(* The stream while the receiver stores a frame. *)
LEMMA LtStored ==
    ASSUME LtSender, LtReceiver, LtFlow(LtStream, ltTx.frame, ltTx.pos, ltSends, ltOut), ltRx.state = "data"
    PROVE  /\ LtStream \in Seq(LtSymbols) /\ ltLine \in Seq(LtSymbols)
           /\ Len(ltRx.buf) \in Nat /\ Len(ltLine) \in Nat
           /\ Len(LtStream) = 1 + Len(ltRx.buf) + Len(ltLine)
           /\ LtStream[1][1] = 0
           /\ \A k \in 1..Len(ltRx.buf) :
                LtStream[1 + k][1] = ltRx.buf[1][1] /\ LtStream[1 + k][2] = k /\ ltRx.buf[k] = <<ltRx.buf[1][1], k>>
           /\ \A k \in 1..Len(ltLine) : LtStream[1 + Len(ltRx.buf) + k] = ltLine[k]
           /\ ltRx.buf # <<>> => /\ Len(ltRx.buf) \in 1..LtBytes
                                 /\ ltRx.buf[1][1] \in 1..ltSends
           /\ 0 \notin ltOk /\ 0 \notin ltOut
<1> DEFINE n == Len(ltRx.buf)
<1>1. /\ LtStream \in Seq(LtSymbols) /\ ltLine \in Seq(LtSymbols) /\ ltRx.buf \in Seq(LtSymbols)
      /\ Len(LtStream) = 1 + n + Len(ltLine)
      /\ LtStream[1] = LtFlag
      /\ \A k \in 1..n : LtStream[1 + k] = ltRx.buf[k]
      /\ \A k \in 1..Len(ltLine) : LtStream[1 + n + k] = ltLine[k]
    BY LtStreamIs
<1>2. n \in Nat /\ Len(ltLine) \in Nat
    BY <1>1
<1>3. \A k \in 1..n : ltRx.buf[k] = <<ltRx.buf[1][1], k>>
    BY DEF LtReceiver
<1>4. \A k \in 1..n : LtStream[1 + k][1] = ltRx.buf[1][1] /\ LtStream[1 + k][2] = k
    <2> TAKE k \in 1..n
    <2>1. LtStream[1 + k] = ltRx.buf[k]
        BY <1>1
    <2>2. ltRx.buf[k] = <<ltRx.buf[1][1], k>>
        BY <1>3
    <2> QED
        BY <2>1, <2>2
<1>5. ASSUME ltRx.buf # <<>> PROVE n \in 1..LtBytes /\ ltRx.buf[1][1] \in 1..ltSends
    <2>1. n > 0
        BY <1>5, <1>1, EmptySeq
    <2>2. ltRx.buf[n] \in LtSymbols /\ ltRx.buf[n][2] = n /\ ltRx.buf[1][1] # 0 /\ ltRx.buf[1] \in LtSymbols
        <3>1. n \in 1..n /\ 1 \in 1..n
            BY <1>2, <2>1
        <3>2. ltRx.buf[n] \in LtSymbols /\ ltRx.buf[1] \in LtSymbols
            BY <1>1, <3>1
        <3>3. ltRx.buf[n] = <<ltRx.buf[1][1], n>>
            BY <1>3, <3>1
        <3>4. ltRx.buf[1][1] # 0
            BY <3>1 DEF LtReceiver
        <3> QED
            BY <3>2, <3>3, <3>4
    <2>3. n \in 1..LtBytes /\ ltRx.buf[1][1] \in Nat
        BY <2>1, <2>2, <1>2, LtSymbol
    <2>4. LtStream[1 + 1][1] <= ltSends
        <3>1. 1 + 1 \in 1..Len(LtStream)
            BY <1>1, <1>2, <2>1
        <3> QED
            BY <3>1 DEF LtFlow, LtKnown
    <2>5. LtStream[1 + 1][1] = ltRx.buf[1][1]
        BY <1>2, <1>4, <2>1
    <2> QED
        BY <2>2, <2>3, <2>4, <2>5 DEF LtSender
<1>6. LtStream[1][1] = 0
    BY <1>1 DEF LtFlag
<1> QED
    BY <1>1, <1>2, <1>3, <1>4, <1>5, <1>6 DEF LtSender

(* Of a stored frame given up, only the last byte counts. *)
LEMMA LtStoredMissing ==
    ASSUME LtSender, LtReceiver, LtFlow(LtStream, ltTx.frame, ltTx.pos, ltSends, ltOut), ltRx.state = "data",
           NEW g \in ltOk, NEW d \in Nat, d \in {1 + Len(ltRx.buf), 2 + Len(ltRx.buf)},
           d = 2 + Len(ltRx.buf) => ltLine # <<>> /\ ltLine[1][1] = 0,
           NEW i \in 1..d, LtStream[i][1] = g, LtStream[i][2] = LtBytes
    PROVE  ltRx.buf # <<>> /\ g = ltRx.buf[1][1] /\ Len(ltRx.buf) = LtBytes
<1> DEFINE n == Len(ltRx.buf)
<1>1. n \in Nat /\ g # 0 /\ LtStream[1][1] = 0
    BY LtStored
<1>2. i # 1
    BY <1>1
<1>3. ASSUME i = 2 + n PROVE FALSE
    <2>1. d = 2 + n
        BY <1>1, <1>3
    <2>2. 1 \in 1..Len(ltLine) /\ 1 + n + 1 = i
        BY <2>1, <1>1, <1>3, EmptySeq DEF LtReceiver
    <2>3. LtStream[1 + n + 1] = ltLine[1]
        BY <2>2, LtStored
    <2> QED
        BY <2>1, <2>2, <2>3, <1>1
<1>4. PICK k \in 1..n : i = 1 + k
    <2>1. i - 1 \in 1..n /\ i = 1 + (i - 1)
        BY <1>1, <1>2, <1>3
    <2> QED
        BY <2>1
<1>5. LtStream[1 + k][1] = ltRx.buf[1][1] /\ LtStream[1 + k][2] = k
    BY LtStored
<1>6. ltRx.buf # <<>>
    <2>1. n # 0
        BY <1>4, <1>1
    <2> QED
        BY <2>1
<1>7. n \in 1..LtBytes /\ k = LtBytes
    BY <1>4, <1>5, <1>6, LtStored
<1> QED
    BY <1>1, <1>4, <1>5, <1>6, <1>7

LEMMA LtClosesDrops ==
    ASSUME LtReads, LtCloses
    PROVE  LtDrops(2 + Len(ltRx.buf)) /\ LtReceiver' /\ LtStream' = ltLine'
           /\ LtStream[1 + Len(ltRx.buf) + 1][1] = 0
           /\ 2 + Len(ltRx.buf) \in Nat
           /\ Len(LtStream) = (2 + Len(ltRx.buf)) + Len(ltLine')
<1> DEFINE n == Len(ltRx.buf)
<1>1. LtStream' = ltLine'
    BY DEF LtStream, LtStreamOf, LtCloses
<1>2. /\ n \in Nat /\ Len(LtStream) = 1 + n + Len(ltLine)
      /\ \A k \in 1..Len(ltLine) : LtStream[1 + n + k] = ltLine[k]
    BY LtStored DEF LtReads, LtCloses
<1>m. PICK m \in Nat : m = Len(ltLine')
    BY LtReadsTail
<1>3. ltLine' \in Seq(LtSymbols) /\ Len(ltLine) = m + 1 /\ \A i \in 1..m : ltLine'[i] = ltLine[i + 1]
    BY <1>m, LtReadsTail
<1> HIDE DEF n
<1>4. ASSUME NEW i \in 1..m PROVE ltLine'[i] = LtStream[i + (2 + n)]
    <2>1. i + 1 \in 1..Len(ltLine) /\ 1 + n + (i + 1) = i + (2 + n)
        BY <1>2, <1>3
    <2>2. LtStream[1 + n + (i + 1)] = ltLine[i + 1]
        BY <2>1, <1>2
    <2> QED
        BY <2>1, <2>2, <1>3
<1>5. LtDrops(2 + n)
    <2>1. 2 + n \in 0..Len(LtStream) /\ Len(LtStream') = Len(LtStream) - (2 + n)
        BY <1>1, <1>2, <1>3, <1>m
    <2> QED
        BY <2>1, <1>1, <1>3, <1>4, <1>m DEF LtDrops
<1>6. LtReceiver'
    <2>1. ltGot' \in Seq(0..LtMaxSends)
        <3>1. CASE LtComplete(ltRx.buf)
            <4>1. ltRx.buf # <<>>
                <5>1. PICK g \in 1..LtMaxSends : ltRx.buf = [k \in 1..LtBytes |-> <<g, k>>]
                    BY <3>1 DEF LtComplete
                <5>2. Len(ltRx.buf) = LtBytes
                    BY <5>1, LtAssumption
                <5> QED
                    BY <5>2, LtAssumption
            <4>2. ltRx.buf[1][1] \in 0..LtMaxSends
                <5>1. ltRx.buf[1][1] \in 1..ltSends
                    BY <4>1, LtStored DEF LtReads, LtCloses
                <5>2. ltSends \in 0..LtMaxSends
                    BY DEF LtReads, LtSender
                <5> QED
                    BY <5>1, <5>2, LtAssumption
            <4>3. ltGot \in Seq(0..LtMaxSends)
                BY DEF LtReads, LtReceiver
            <4>4. ltGot' \in {ltGot, Append(ltGot, ltRx.buf[1][1])}
                BY DEF LtCloses
            <4>5. Append(ltGot, ltRx.buf[1][1]) \in Seq(0..LtMaxSends)
                BY <4>2, <4>3, AppendProperties, Zenon
            <4> QED
                BY <4>3, <4>4, <4>5, Zenon
        <3>2. CASE ~LtComplete(ltRx.buf)
            BY <3>2 DEF LtCloses, LtReads, LtReceiver
        <3> QED
            BY <3>1, <3>2
    <2> QED
        BY <2>1, <1>3 DEF LtReceiver, LtCloses
<1>7. LtStream[1 + n + 1][1] = 0
    <2>1. 1 \in 1..Len(ltLine) /\ ltLine[1] = LtFlag
        BY <1>3, LtReadsTail DEF LtCloses
    <2> QED
        BY <2>1, <1>2 DEF LtFlag
<1>8. 2 + n \in Nat /\ Len(LtStream) = (2 + n) + Len(ltLine')
    BY <1>2, <1>3, <1>m
<1> QED
    BY <1>1, <1>5, <1>6, <1>7, <1>8 DEF n

LEMMA LtClosesLoss ==
    ASSUME LtReads, LtCloses
    PROVE  LtLossInv'
<1> DEFINE n == Len(ltRx.buf)
           f == ltRx.buf[1][1]
<1>1. /\ LtDrops(2 + n) /\ LtReceiver' /\ LtStream' = ltLine' /\ LtStream[1 + n + 1][1] = 0
      /\ 2 + n \in Nat /\ Len(LtStream) = (2 + n) + Len(ltLine')
    BY LtClosesDrops
<1>2. LtShape /\ LtShape' /\ LtSender /\ LtReceiver /\ LtAccount /\ ltRx.state = "data"
      /\ LtFlow(LtStream, ltTx.frame, ltTx.pos, ltSends, ltOut)
      /\ UNCHANGED <<ltTx, ltSends, ltOut, ltOk, ltSending>>
    BY DEF LtReads, LtCloses
<1>g. /\ ltGot \in Seq(0..LtMaxSends) /\ ltGot' = (IF LtComplete(ltRx.buf) /\ ltRx.owner = ltReading
                THEN Append(ltGot, f) ELSE ltGot)
    BY DEF LtReads, LtCloses, LtReceiver
<1>3. /\ \A i \in 1..Len(ltGot) : \E j \in 1..Len(ltGot') : ltGot'[j] = ltGot[i]
    <2>1. CASE ltGot' = Append(ltGot, f)
        BY <2>1, <1>g
    <2>2. CASE ltGot' = ltGot
        BY <2>2
    <2> QED
        BY <2>1, <2>2, <1>g
<1>4. /\ LtSender' /\ LtFlow(LtStream', ltTx'.frame, ltTx'.pos, ltSends', ltOut')
      /\ LtTorn' \subseteq LtTorn
      /\ \A g \in LtMissing' : \/ g \in LtMissing
                               \/ g \in ltOk /\ \E i \in 1..2 + n : LtStream[i][1] = g /\ LtStream[i][2] = LtBytes
    BY <1>1, <1>2, <1>3, LtDropped
<1>5. ASSUME NEW g \in LtMissing', g \notin LtMissing
      PROVE  g \in ltOk /\ ltRx.buf # <<>> /\ g = f /\ n = LtBytes
    <2>1. PICK i \in 1..2 + n : LtStream[i][1] = g /\ LtStream[i][2] = LtBytes /\ g \in ltOk
        BY <1>4, <1>5
    <2>2. ltLine # <<>> /\ ltLine[1][1] = 0
        BY LtReadsTail DEF LtReads, LtCloses
    <2> QED
        BY <1>1, <1>2, <2>1, <2>2, LtStoredMissing
<1>6. ~LtAstray' /\ ~LtSkewed /\ (LtSkewed' => (ltLine' = <<>> /\ ltTx.pos > 0) \/ (ltLine' # <<>> /\ ltLine'[1][1] # 0))
    <2>1. ltLine' # <<>> => Head(ltLine') = ltLine'[1]
        BY LtReadsTail
    <2> QED
        <3>1. ltRx.state = "data" /\ ltRx'.state = "start" /\ ltTx' = ltTx
            BY DEF LtReads, LtCloses
        <3> QED
            BY <2>1, <3>1 DEF LtAstray, LtSkewed
<1>7. ltFaults'.timeouts + ltFaults'.readErrors = ltFaults.timeouts + ltFaults.readErrors + 0
    BY LtReadsTail
<1>t. Cardinality(LtTorn') <= Cardinality(LtTorn) + 0
    BY <1>2, <1>4, LtCardinals
<1>z. 0 \in Int /\ 1 \in Int /\ -1 \in Int /\ 0 + 0 + 0 <= 0 /\ 1 + 0 + (-1) <= 0 /\ 0 + (-1) + 1 <= 0
    OBVIOUS
<1>8. CASE ltRx.buf = <<>>
    <2>1. LtAstray
        BY <1>2, <1>8 DEF LtCloses, LtAstray
    <2>2. LtOwed' <= LtOwed + 0
        BY <2>1, <1>6, LtOwedIs
    <2>3. Cardinality(LtMissing') <= Cardinality(LtMissing) + 0
        <3>1. LtMissing' \subseteq LtMissing
            BY <1>5, <1>8
        <3> QED
            BY <3>1, <1>2, <1>4, LtCardinals
    <2>4. LtAccount'
        BY <1>2, <1>4, <1>7, <1>t, <1>z, <2>2, <2>3, LtSettled
    <2> QED
        BY <1>1, <1>4, <2>4 DEF LtLossInv
<1>9. ASSUME ltRx.buf # <<>> PROVE
        /\ n \in 1..LtBytes /\ f \in 1..ltSends /\ f # 0
        /\ LtStream[1 + n][1] = f /\ LtStream[1 + n][2] = n
        /\ 1 + n \in 1..Len(LtStream) /\ 1 + n < Len(LtStream)
        /\ LtStream[1 + 1][1] = f /\ LtStream[1 + 1][2] = 1 /\ 1 + 1 \in 1..2 + n
        /\ LtStream \in Seq(LtSymbols) /\ 0 \notin ltOut
        /\ \A k \in 1..n : ltRx.buf[k] = <<f, k>>
    <2>1. n \in 1..LtBytes /\ f \in 1..ltSends /\ LtBytes \in Nat /\ ltSends \in Nat
          /\ LtStream \in Seq(LtSymbols) /\ 0 \notin ltOut
        BY <1>2, <1>9, LtStored, LtAssumption DEF LtSender
    <2>2. n \in 1..n /\ 1 \in 1..n
        BY <2>1
    <2>3. LtStream[1 + n][1] = f /\ LtStream[1 + n][2] = n /\ LtStream[1 + 1][1] = f /\ LtStream[1 + 1][2] = 1
          /\ \A k \in 1..n : ltRx.buf[k] = <<f, k>>
        BY <1>2, <2>2, LtStored
    <2>4. Len(ltLine') \in Nat
        BY LtReadsTail
    <2>5. /\ 1 + n \in 1..Len(LtStream) /\ 1 + n < Len(LtStream) /\ 1 + 1 \in 1..2 + n
          /\ n \in 1..LtBytes /\ f \in 1..ltSends /\ f # 0
        BY ONLY <1>1, <2>1, <2>4
    <2> QED
        BY ONLY <2>1, <2>3, <2>5
<1>10. CASE ltRx.buf # <<>> /\ f \in ltOut
    <2>1. n = LtBytes
        <3>1. LtStream[1 + n][2] < LtBytes => LtStream[(1 + n) + 1][1] # 0
            BY <1>2, <1>9, <1>10 DEF LtFlow, LtWhole
        <3>2. (1 + n) + 1 = 1 + n + 1
            BY <1>9, <1>10
        <3> QED
            BY <1>1, <1>9, <1>10, <3>1, <3>2, LtAssumption
    <2>2. ~LtSkewed'
        <3>1. /\ (1 + n) + 1 = Len(LtStream) => ltTx.pos = 0
              /\ (1 + n) + 1 < Len(LtStream) => LtStream[(1 + n) + 2][1] = 0
            BY <1>2, <1>9, <1>10, <2>1, LtClosed
        <3>2. ltLine' = <<>> => ltTx.pos = 0
            <4>1. ltLine' = <<>> => Len(ltLine') = 0
                OBVIOUS
            <4> QED
                BY <3>1, <4>1, <1>1, <1>9, <1>10
        <3>3. ASSUME ltLine' # <<>> PROVE ltLine'[1][1] = 0
            <4>1. Len(ltLine') \in Nat \ {0}
                BY <3>3, LtReadsTail, EmptySeq
            <4>2. ltLine'[1] = LtStream[1 + (2 + n)]
                BY <4>1, <1>1 DEF LtDrops
            <4> QED
                BY <3>1, <4>1, <4>2, <1>1, <1>9, <1>10
        <3> QED
            BY <3>2, <3>3, <1>6
    <2>3. CASE ltRx.owner = ltReading
        <3>1. LtComplete(ltRx.buf)
            <4>1. ltRx.buf \in Seq(LtSymbols) /\ Len(ltRx.buf) = LtBytes /\ f \in 1..LtMaxSends
                <5>1. ltRx.buf \in Seq(LtSymbols)
                    BY <1>2 DEF LtReceiver
                <5>2. ltSends \in 0..LtMaxSends /\ f \in 1..ltSends
                    BY <1>2, <1>9, <1>10 DEF LtSender
                <5> QED
                    BY <5>1, <5>2, <2>1, LtAssumption
            <4>2. ltRx.buf = [k \in 1..LtBytes |-> <<f, k>>]
                <5>1. \A k \in 1..LtBytes : ltRx.buf[k] = <<f, k>>
                    BY <1>9, <1>10, <2>1
                <5>2. ltRx.buf = [k \in 1..Len(ltRx.buf) |-> ltRx.buf[k]]
                    BY <4>1
                <5> QED
                    BY <4>1, <5>1, <5>2
            <4> QED
                BY <4>1, <4>2 DEF LtComplete
        <3>2. ltGot' = Append(ltGot, f)
            BY <3>1, <2>3, <1>g
        <3>3. f \notin LtMissing'
            <4>1. Len(ltGot') = Len(ltGot) + 1 /\ ltGot'[Len(ltGot) + 1] = f /\ Len(ltGot) \in Nat
                <5>1. ltGot \in Seq(0..LtMaxSends) /\ f \in 0..LtMaxSends
                    <6>1. ltSends \in 0..LtMaxSends /\ f \in 1..ltSends
                        BY <1>2, <1>9, <1>10 DEF LtSender
                    <6> QED
                        BY <1>g, <6>1, LtAssumption
                <5> HIDE DEF f
                <5> QED
                    BY <3>2, <5>1, AppendProperties
            <4> QED
                BY <4>1 DEF LtMissing
        <3>4. LtMissing' \subseteq LtMissing
            BY <3>3, <1>5
        <3>5. Cardinality(LtMissing') <= Cardinality(LtMissing) + 0
            BY <3>4, <1>2, <1>4, LtCardinals
        <3>6. LtOwed' <= LtOwed + 0
            BY <1>6, <2>2, LtOwedIs
        <3>7. LtAccount'
            BY <1>2, <1>4, <1>7, <1>t, <1>z, <3>5, <3>6, LtSettled
        <3> QED
            BY <1>1, <1>4, <3>7 DEF LtLossInv
    <2>4. CASE ltRx.owner # ltReading
        <3>1. LtAstray
            BY <1>2, <2>4 DEF LtAstray
        <3>4. LtMissing' \subseteq LtMissing \cup {f}
            BY <1>5
        <3>5. Cardinality(LtMissing') <= Cardinality(LtMissing) + 1
            BY <3>4, <1>2, <1>4, LtCardinals
        <3>6. LtOwed' <= LtOwed + (-1)
            BY <1>6, <2>2, <3>1, LtOwedIs
        <3>7. LtAccount'
            BY <1>2, <1>4, <1>7, <1>t, <1>z, <3>5, <3>6, LtSettled
        <3> QED
            BY <1>1, <1>4, <3>7 DEF LtLossInv
    <2> QED
        BY <2>3, <2>4
<1>11. CASE ltRx.buf # <<>> /\ f \notin ltOut
    <2>1. LtMissing' \subseteq LtMissing
        BY <1>5, <1>11, <1>2 DEF LtSender
    <2>2. f # ltTx.frame
        <3>1. (1 + n) + 1 = 1 + n + 1
            BY <1>9, <1>11
        <3>2. f = ltTx.frame => LtStream[(1 + n) + 1][1] # 0
            BY <1>2, <1>9, <1>11 DEF LtFlow, LtLast
        <3> QED
            BY <1>1, <3>1, <3>2
    <2>3. f \in LtTorn
        <3>1. LtIn(f, 1, LtStream)
            <4>1. 1 + 1 \in 1..Len(LtStream)
                BY <1>9, <1>11
            <4> QED
                BY <4>1, <1>9, <1>11 DEF LtIn
        <3> QED
            BY <3>1, <2>2, <1>9, <1>11 DEF LtTorn
    <2>4. f \notin LtTorn'
        <3> SUFFICES ASSUME LtIn(f, 1, LtStream') PROVE FALSE
            BY DEF LtTorn
        <3>1. PICK i \in 1..Len(LtStream') : LtStream'[i][1] = f /\ LtStream'[i][2] = 1
            BY DEF LtIn
        <3>2. PICK j \in 1..Len(LtStream) : j = i + (2 + n) /\ LtStream[j] = LtStream'[i]
            <4>1. LtStream[i + (2 + n)] = LtStream'[i]
                BY <1>1 DEF LtDrops
            <4>2. i + (2 + n) \in 1..Len(LtStream)
                <5>1. Len(ltLine') \in Nat /\ i \in 1..Len(ltLine')
                    BY <1>1, LtReadsTail
                <5> HIDE DEF n
                <5> QED
                    BY <1>1, <5>1
            <4> QED
                BY <4>1, <4>2
        <3>3. 2 \in 1..Len(LtStream) /\ LtStream[2][1] = f /\ LtStream[2][2] = 1
            BY <1>9, <1>11
        <3>4. j = 2
            <4>1. LtOnce(LtStream)
                BY <1>2 DEF LtFlow
            <4>2. LtStream[j][1] = LtStream[2][1] /\ LtStream[j][2] = 1 /\ LtStream[2][2] = 1
                BY <3>1, <3>2, <3>3
            <4> QED
                BY <3>3, <4>1, <4>2 DEF LtOnce
        <3>5. i \in Nat \ {0} /\ n \in Nat
            <4>1. i \in Nat \ {0}
                <5>1. Len(ltLine') \in Nat
                    BY LtReadsTail
                <5> QED
                    BY <1>1, <5>1
            <4>2. n \in Nat
                BY <1>9, <1>11
            <4> QED
                BY <4>1, <4>2
        <3> QED
            BY <3>2, <3>4, <3>5
    <2>5. Cardinality(LtTorn') <= Cardinality(LtTorn) + (-1)
        <3>1. LtTorn' \subseteq LtTorn \ {f}
            BY <1>4, <2>4
        <3>2. Cardinality(LtTorn') <= Cardinality(LtTorn) - 1 /\ Cardinality(LtTorn) \in Nat
            BY <1>2, <1>4, <2>3, <3>1, LtCardinals
        <3> QED
            BY <3>2
    <2>6. Cardinality(LtMissing') <= Cardinality(LtMissing) + 0
        BY <1>2, <1>4, <2>1, LtCardinals
    <2>7. LtOwed' <= LtOwed + 1
        BY <1>6, LtOwedIs
    <2>8. LtAccount'
        BY <1>2, <1>4, <1>7, <1>z, <2>5, <2>6, <2>7, LtSettled
    <2> QED
        BY <1>1, <1>4, <2>8 DEF LtLossInv
<1> QED
    BY <1>8, <1>10, <1>11

LEMMA LtReadTimeoutLoss ==
    ASSUME LtShape, LtShape', LtLossInv, LtReadTimeout
    PROVE  LtLossInv'
<1> DEFINE n == Len(ltRx.buf)
           f == ltRx.buf[1][1]
<1>0. LtSender /\ LtReceiver /\ LtAccount /\ LtFlow(LtStream, ltTx.frame, ltTx.pos, ltSends, ltOut)
    BY DEF LtLossInv
<1>1. /\ ltRx' = [state |-> "start", buf |-> <<>>, owner |-> ltRx.owner]
      /\ ltFaults' = [ltFaults EXCEPT !.timeouts = @ + 1]
      /\ UNCHANGED <<ltTx, ltSending, ltSends, ltLine, ltOk, ltOut, ltGot>>
    BY DEF LtReadTimeout, LtFault, LtRxGiveUp, LtShape
<1>2. LtStream' = ltLine /\ LtReceiver'
    BY <1>0, <1>1 DEF LtStream, LtStreamOf, LtReceiver
<1>3. ltFaults'.timeouts + ltFaults'.readErrors = ltFaults.timeouts + ltFaults.readErrors + 1
    BY <1>1 DEF LtShape
<1>4. ltLine \in Seq(LtSymbols) /\ Len(ltLine) \in Nat
    BY <1>0 DEF LtReceiver
<1>z. 0 \in Int /\ 1 \in Int /\ 0 + 0 + 0 <= 1 /\ 1 + 0 + 0 <= 1 /\ 0 + 0 + 1 <= 1
    OBVIOUS
<1>g. \A i \in 1..Len(ltGot) : \E j \in 1..Len(ltGot') : ltGot'[j] = ltGot[i]
    BY <1>1
<1>a. ~LtAstray' /\ (LtSkewed' <=> IF ltLine = <<>> THEN ltTx.pos > 0 ELSE ltLine[1][1] # 0)
    <2>1. ltLine # <<>> => Head(ltLine) = ltLine[1]
        BY <1>4
    <2> QED
        BY <1>1, <2>1 DEF LtAstray, LtSkewed
<1>5. CASE ltRx.state # "data"
    <2>1. LtStream = ltLine
        BY <1>5 DEF LtStream, LtStreamOf
    <2>2. LtDrops(0) /\ 0 \in Nat
        BY <1>2, <1>4, <2>1 DEF LtDrops
    <2>3. /\ LtSender' /\ LtFlow(LtStream', ltTx'.frame, ltTx'.pos, ltSends', ltOut')
          /\ LtTorn' \subseteq LtTorn
          /\ \A g \in LtMissing' : \/ g \in LtMissing
                                   \/ g \in ltOk /\ \E i \in 1..0 : LtStream[i][1] = g /\ LtStream[i][2] = LtBytes
        BY <1>0, <1>1, <1>g, <2>2, LtDropped
    <2>4. LtMissing' \subseteq LtMissing
        BY <2>3
    <2>5. Cardinality(LtMissing') <= Cardinality(LtMissing) + 0 /\ Cardinality(LtTorn') <= Cardinality(LtTorn) + 0
        BY <1>0, <2>3, <2>4, LtCardinals
    <2>6. LtOwed' <= LtOwed + 1
        BY <1>a, LtOwedIs
    <2>7. LtAccount'
        BY <1>0, <1>3, <1>z, <2>3, <2>5, <2>6, LtSettled
    <2> QED
        BY <1>2, <2>3, <2>7 DEF LtLossInv
<1>6. CASE ltRx.state = "data"
    <2>1. /\ n \in Nat /\ Len(LtStream) = 1 + n + Len(ltLine)
          /\ \A k \in 1..Len(ltLine) : LtStream[1 + n + k] = ltLine[k]
        BY <1>0, <1>6, LtStored
    <2>2. LtDrops(1 + n) /\ 1 + n \in Nat
        <3> HIDE DEF n
        <3>1. \A i \in 1..Len(ltLine) : ltLine[i] = LtStream[i + (1 + n)]
            <4> TAKE i \in 1..Len(ltLine)
            <4>1. 1 + n + i = i + (1 + n)
                BY <1>4, <2>1
            <4>2. LtStream[1 + n + i] = ltLine[i]
                BY <2>1
            <4> QED
                BY <4>1, <4>2
        <3>2. 1 + n \in 0..Len(LtStream) /\ Len(ltLine) = Len(LtStream) - (1 + n)
            BY <1>4, <2>1
        <3> QED
            BY <1>2, <1>4, <2>1, <3>1, <3>2 DEF LtDrops
    <2>3. /\ LtSender' /\ LtFlow(LtStream', ltTx'.frame, ltTx'.pos, ltSends', ltOut')
          /\ LtTorn' \subseteq LtTorn
          /\ \A g \in LtMissing' : \/ g \in LtMissing
                                   \/ g \in ltOk /\ \E i \in 1..1 + n : LtStream[i][1] = g /\ LtStream[i][2] = LtBytes
        BY <1>0, <1>1, <1>g, <2>2, LtDropped
    <2>4. ASSUME NEW g \in LtMissing', g \notin LtMissing
          PROVE  g \in ltOk /\ ltRx.buf # <<>> /\ g = f /\ n = LtBytes
        <3>1. PICK i \in 1..1 + n : LtStream[i][1] = g /\ LtStream[i][2] = LtBytes /\ g \in ltOk
            BY <2>3, <2>4
        <3>2. 1 + n # 2 + n
            BY <2>1
        <3> QED
            BY <1>0, <1>6, <2>2, <3>1, <3>2, LtStoredMissing
    <2>5. Cardinality(LtTorn') <= Cardinality(LtTorn) + 0
        BY <1>0, <2>3, LtCardinals
    <2>6. CASE LtMissing' \subseteq LtMissing
        <3>1. Cardinality(LtMissing') <= Cardinality(LtMissing) + 0
            BY <1>0, <2>3, <2>6, LtCardinals
        <3>2. LtOwed' <= LtOwed + 1
            BY <1>a, LtOwedIs
        <3>3. LtAccount'
            BY <1>0, <1>3, <1>z, <2>3, <2>5, <3>1, <3>2, LtSettled
        <3> QED
            BY <1>2, <2>3, <3>3 DEF LtLossInv
    <2>7. CASE ~(LtMissing' \subseteq LtMissing)
        <3>1. f \in ltOk /\ ltRx.buf # <<>> /\ n = LtBytes /\ LtMissing' \subseteq LtMissing \cup {f}
            BY <2>4, <2>7
        <3>2. Cardinality(LtMissing') <= Cardinality(LtMissing) + 1
            BY <1>0, <2>3, <3>1, LtCardinals
        <3>3. ~LtSkewed'
            <4>1. n \in 1..n /\ LtBytes \in Nat \ {0} /\ f \in ltOut /\ 0 \notin ltOut
                BY <1>0, <2>1, <3>1, LtAssumption DEF LtSender
            <4>2. LtStream[1 + n][1] = f /\ LtStream[1 + n][2] = n /\ LtStream \in Seq(LtSymbols)
                BY <1>0, <1>6, <4>1, LtStored
            <4>3. 1 + n \in 1..Len(LtStream)
                BY <1>4, <2>1
            <4>4. 1 + n < Len(LtStream) /\ LtStream[(1 + n) + 1][1] = 0
                BY <1>0, <3>1, <4>1, <4>2, <4>3, LtClosed
            <4>5. 1 \in 1..Len(ltLine) /\ (1 + n) + 1 = 1 + n + 1
                BY <1>4, <2>1, <4>4
            <4>6. ltLine[1][1] = 0
                BY <2>1, <4>4, <4>5
            <4>7. ltLine # <<>>
                BY <4>5
            <4> QED
                BY <1>a, <4>6, <4>7
        <3>4. LtOwed' <= LtOwed + 0
            BY <1>a, <3>3, LtOwedIs
        <3>5. LtAccount'
            BY <1>0, <1>3, <1>z, <2>3, <2>5, <3>2, <3>4, LtSettled
        <3> QED
            BY <1>2, <2>3, <3>5 DEF LtLossInv
    <2> QED
        BY <2>6, <2>7
<1> QED
    BY <1>5, <1>6

LEMMA LtReadErrorLoss ==
    ASSUME LtShape, LtShape', LtLossInv, LtReadError
    PROVE  LtLossInv'
<1>0. LtSender /\ LtReceiver /\ LtAccount /\ LtFlow(LtStream, ltTx.frame, ltTx.pos, ltSends, ltOut)
    BY DEF LtLossInv
<1>1. /\ ltFaults' = [ltFaults EXCEPT !.readErrors = @ + 1] /\ ltReading' = <<>>
      /\ UNCHANGED <<ltTx, ltSending, ltSends, ltLine, ltRx, ltOk, ltOut, ltGot>>
    BY DEF LtReadError, LtFault
<1>2. LtStream' = LtStream /\ LtReceiver' /\ LtSender'
    BY <1>0, <1>1 DEF LtStream, LtStreamOf, LtReceiver, LtSender
<1>3. LtMissing' \subseteq LtMissing /\ LtTorn' \subseteq LtTorn
    BY <1>1, <1>2 DEF LtMissing, LtTorn
<1>4. Cardinality(LtMissing') <= Cardinality(LtMissing) + 0 /\ Cardinality(LtTorn') <= Cardinality(LtTorn) + 0
    BY <1>0, <1>2, <1>3, LtCardinals
<1>5. LtOwed' <= LtOwed + 1
    <2>1. LtSkewed' => LtSkewed
        BY <1>1 DEF LtSkewed
    <2> QED
        BY <2>1, LtOwedIs
<1>6. ltFaults'.timeouts + ltFaults'.readErrors = ltFaults.timeouts + ltFaults.readErrors + 1
    BY <1>1 DEF LtShape
<1>7. LtAccount'
    <2>1. 0 \in Int /\ 1 \in Int /\ 0 + 0 + 1 <= 1
        OBVIOUS
    <2> QED
        BY <1>0, <1>2, <1>4, <1>5, <1>6, <2>1, LtSettled
<1> QED
    BY <1>0, <1>1, <1>2, <1>7 DEF LtLossInv

LEMMA LtReadLoss ==
    ASSUME LtShape, LtShape', LtLossInv, NEW b, LtRead(b)
    PROVE  LtLossInv'
<1>0. LtSender /\ LtReceiver /\ LtAccount /\ LtFlow(LtStream, ltTx.frame, ltTx.pos, ltSends, ltOut)
    BY DEF LtLossInv
<1>1. /\ ltReading = <<>>
      /\ UNCHANGED <<ltTx, ltSending, ltSends, ltLine, ltRx, ltOk, ltOut, ltGot, ltFaults>>
    BY DEF LtRead
<1>2. LtStream' = LtStream /\ LtReceiver' /\ LtSender'
    BY <1>0, <1>1 DEF LtStream, LtStreamOf, LtReceiver, LtSender
<1>3. LtMissing' \subseteq LtMissing /\ LtTorn' \subseteq LtTorn
    BY <1>1, <1>2 DEF LtMissing, LtTorn
<1>4. Cardinality(LtMissing') <= Cardinality(LtMissing) + 0 /\ Cardinality(LtTorn') <= Cardinality(LtTorn) + 0
    BY <1>0, <1>2, <1>3, LtCardinals
<1>5. LtOwed' <= LtOwed + 0
    <2>1. (LtSkewed' => LtSkewed) /\ (LtAstray' => LtAstray)
        BY <1>0, <1>1 DEF LtSkewed, LtAstray, LtReceiver
    <2> QED
        BY <2>1, LtOwedIs
<1>6. ltFaults'.timeouts + ltFaults'.readErrors = ltFaults.timeouts + ltFaults.readErrors + 0
    BY <1>1 DEF LtShape
<1>7. LtAccount'
    <2>1. 0 \in Int /\ 0 + 0 + 0 <= 0
        OBVIOUS
    <2> QED
        BY <1>0, <1>2, <1>4, <1>5, <1>6, <2>1, LtSettled
<1> QED
    BY <1>0, <1>1, <1>2, <1>7 DEF LtLossInv

LEMMA LtReadByteLoss ==
    ASSUME LtShape, LtShape', LtLossInv, LtReadByte
    PROVE  LtLossInv'
<1>1. /\ ltReading # <<>> /\ ltLine # <<>> /\ ltLine' = Tail(ltLine)
      /\ UNCHANGED <<ltSetup, ltTx, ltSending, ltSends, ltOk, ltOut, ltFaults>>
      /\ LtOpens \/ LtAligns \/ LtCloses \/ LtStores \/ LtSkips
    BY LtReadCases DEF LtLossInv
<1>2. LtReads
    BY <1>1 DEF LtReads, LtLossInv
<1> QED
    BY <1>1, <1>2, LtOpensLoss, LtAlignsLoss, LtClosesLoss, LtStoresLoss, LtSkipsLoss

(* Until a write fails. *)
LtLossGuard == LtShape /\ (LtWriteFailed \/ LtLossInv)

LEMMA LtShapeNext ==
    ASSUME LtShape, [LtNext]_ltVars
    PROVE  LtShape'
<1>1. CASE LtSend \/ LtWrite \/ (\E b \in ltSetup.buffers : LtRead(b)) \/ UNCHANGED ltVars
    BY <1>1 DEF LtSend, LtWrite, LtRead, ltVars, LtShape
<1>2. CASE LtWriteError \/ LtWriteTimeout \/ LtReadError \/ LtReadTimeout
    <2>1. ltFaults' \in [timeouts : Nat, writeErrors : Nat, readErrors : Nat]
        BY <1>2 DEF LtWriteError, LtWriteTimeout, LtReadError, LtReadTimeout, LtFault, LtShape
    <2>2. ltSetup' = ltSetup /\ (ltRx' = ltRx \/ ltRx' = [ltRx EXCEPT !.state = "start", !.buf = <<>>])
        BY <1>2 DEF LtWriteError, LtWriteTimeout, LtReadError, LtReadTimeout, LtFault, LtRxGiveUp
    <2> QED
        BY <2>1, <2>2 DEF LtShape
<1>3. CASE LtReadByte
    <2>1. ltSetup' = ltSetup /\ ltFaults' = ltFaults
        BY <1>3 DEF LtReadByte
    <2> QED
        BY <1>3, <2>1, LtReadByteRx DEF LtShape
<1> QED
    BY <1>1, <1>2, <1>3 DEF LtNext

LEMMA LtLossNext ==
    ASSUME LtLossGuard, [LtNext]_ltVars
    PROVE  LtLossGuard'
<1>1. LtShape /\ LtShape'
    BY LtShapeNext DEF LtLossGuard
<1>2. CASE LtWriteFailed
    <2>1. ltFaults'.writeErrors >= ltFaults.writeErrors
        <3>1. CASE LtWriteError \/ LtWriteTimeout \/ LtReadError \/ LtReadTimeout
            BY <1>1, <3>1 DEF LtWriteError, LtWriteTimeout, LtReadError, LtReadTimeout, LtFault, LtShape
        <3>2. CASE LtSend \/ LtWrite \/ (\E b \in ltSetup.buffers : LtRead(b)) \/ LtReadByte \/ UNCHANGED ltVars
            <4>1. ltFaults' = ltFaults
                BY <3>2 DEF LtSend, LtWrite, LtRead, LtReadByte, ltVars
            <4> QED
                BY <1>1, <4>1 DEF LtShape
        <3> QED
            BY <3>1, <3>2 DEF LtNext
    <2>2. LtWriteFailed'
        BY <1>1, <1>2, <2>1 DEF LtWriteFailed, LtShape
    <2> QED
        BY <1>1, <2>2 DEF LtLossGuard
<1>3. CASE ~LtWriteFailed
    <2>0. LtLossInv
        BY <1>3 DEF LtLossGuard
    <2>1. CASE LtSend
        BY <1>1, <2>0, <2>1, LtSendLoss DEF LtLossGuard
    <2>2. CASE LtWrite
        BY <1>1, <2>0, <2>2, LtWriteLoss DEF LtLossGuard
    <2>3. CASE LtWriteError
        <3>1. LtWriteFailed'
            BY <1>1, <2>3 DEF LtWriteError, LtFault, LtShape, LtWriteFailed
        <3> QED
            BY <1>1, <3>1 DEF LtLossGuard
    <2>4. CASE LtWriteTimeout
        BY <1>1, <2>0, <2>4, LtWriteTimeoutLoss DEF LtLossGuard
    <2>5. ASSUME NEW b \in ltSetup.buffers, LtRead(b) PROVE LtLossGuard'
        BY <1>1, <2>0, <2>5, LtReadLoss DEF LtLossGuard
    <2>6. CASE LtReadByte
        BY <1>1, <2>0, <2>6, LtReadByteLoss DEF LtLossGuard
    <2>7. CASE LtReadError
        BY <1>1, <2>0, <2>7, LtReadErrorLoss DEF LtLossGuard
    <2>8. CASE LtReadTimeout
        BY <1>1, <2>0, <2>8, LtReadTimeoutLoss DEF LtLossGuard
    <2>9. CASE UNCHANGED ltVars
        <3>1. LtLossInv'
            BY <2>0, <2>9 DEF ltVars, LtLossInv, LtSender, LtReceiver, LtAccount, LtMissing, LtTorn, LtOwed,
                LtSkewed, LtAstray, LtStream
        <3> QED
            BY <1>1, <3>1 DEF LtLossGuard
    <2> QED
        BY <2>1, <2>2, <2>3, <2>4, <2>5, <2>6, <2>7, <2>8, <2>9 DEF LtNext
<1> QED
    BY <1>2, <1>3

LEMMA LtInvBounds == LtLossGuard => LtLossBounded
<1> SUFFICES ASSUME LtShape, LtLossInv PROVE LtLossBounded
    BY DEF LtLossGuard, LtLossBounded
<1>0. LtSender /\ LtReceiver /\ LtAccount /\ LtFlow(LtStream, ltTx.frame, ltTx.pos, ltSends, ltOut)
    BY DEF LtLossInv
<1>1. ltOk \subseteq ltOut
    BY <1>0 DEF LtSender
<1> DEFINE lost == {f \in ltOk : \A i \in DOMAIN ltGot : ltGot[i] # f}
<1>2. ASSUME ltLine = <<>> PROVE Cardinality(lost) <= ltFaults.timeouts + ltFaults.readErrors
    <2>1. ASSUME NEW f \in lost PROVE f \in LtMissing
        <3>1. f \in ltOut /\ f \in ltOk /\ 0 \notin ltOut
            BY <1>1, <1>0 DEF LtSender
        <3>2. ASSUME LtIn(f, LtBytes, LtStream) PROVE FALSE
            <4>1. PICK i \in 1..Len(LtStream) : LtStream[i][1] = f /\ LtStream[i][2] = LtBytes
                BY <3>2 DEF LtIn
            <4>2. LtStream \in Seq(LtSymbols) /\ Len(ltLine) = 0
                BY <1>0, <1>2, LtStreamIs
            <4>3. i < Len(LtStream) /\ LtStream[i + 1][1] = 0
                BY <1>0, <3>1, <4>1, <4>2, LtClosed
            <4>4. ltRx.state = "data"
                <5>1. ltRx.state # "data" => Len(LtStream) = 0
                    BY <4>2 DEF LtStream, LtStreamOf
                <5> QED
                    BY <4>1, <5>1
            <4>5. /\ Len(ltRx.buf) \in Nat /\ Len(LtStream) = 1 + Len(ltRx.buf)
                  /\ \A k \in 1..Len(ltRx.buf) : LtStream[1 + k][1] = ltRx.buf[1][1] /\ ltRx.buf[k] = <<ltRx.buf[1][1], k>>
                BY <1>0, <4>2, <4>4, LtStored
            <4>6. i \in 1..Len(ltRx.buf) /\ i + 1 = 1 + i
                BY <4>3, <4>5
            <4>7. LtStream[1 + i][1] # 0
                BY <1>0, <4>5, <4>6 DEF LtReceiver
            <4> QED
                BY <4>3, <4>6, <4>7
        <3>3. \A i \in 1..Len(ltGot) : ltGot[i] # f
            BY <1>0, <2>1 DEF LtReceiver
        <3> QED
            BY <3>1, <3>2, <3>3 DEF LtMissing
    <2>2. Cardinality(lost) <= Cardinality(LtMissing) /\ Cardinality(LtMissing) \in Nat /\ Cardinality(LtTorn) \in Nat /\ Cardinality(lost) \in Nat
        <3>1. lost \subseteq LtMissing
            BY <2>1
        <3>2. lost \in SUBSET (1..LtMaxSends)
            BY <3>1, <1>0, LtSets
        <3> HIDE DEF lost
        <3> QED
            BY <1>0, <3>1, <3>2, LtSets, LtCounts
    <2>3. LtOwed \in 0..2
        BY DEF LtOwed
    <2>4. ltFaults.timeouts \in Nat /\ ltFaults.readErrors \in Nat
        BY DEF LtShape
    <2> QED
        BY <1>0, <2>2, <2>3, <2>4 DEF LtAccount
<1> QED
    BY <1>1, <1>2 DEF LtLossBounded

(* What tiny_light_send reports as sent went out whole, and of those       *)
(* frames the receiver misses no more than there were timeouts and failing *)
(* reads.                                                                  *)
THEOREM LtLossAlwaysBounded == LtSpec => []LtLossBounded
<1>1. LtInit => LtLossGuard
    <2> SUFFICES ASSUME LtInit PROVE LtLossGuard
        OBVIOUS
    <2>1. LtStream = <<>> /\ LtReceiver /\ LtSender /\ LtShape
        BY LtAssumption DEF LtInit, LtStream, LtStreamOf, LtReceiver, LtSender, LtNoFrame, LtShape
    <2>2. LtFlow(<<>>, 0, 0, 0, {})
        BY DEF LtFlow, LtLinked, LtOnce, LtWhole, LtLast, LtKnown
    <2>3. LtAccount
        <3>1. LtMissing = {} /\ LtTorn = {} /\ ~LtSkewed /\ ~LtAstray
            BY DEF LtInit, LtMissing, LtTorn, LtSkewed, LtAstray, LtNoFrame
        <3>2. Cardinality({}) = 0
            BY FS_EmptySet
        <3> QED
            BY <3>1, <3>2 DEF LtAccount, LtOwed, LtInit
    <2>4. LtFlow(LtStream, ltTx.frame, ltTx.pos, ltSends, ltOut)
        BY <2>1, <2>2 DEF LtInit, LtNoFrame
    <2> QED
        BY <2>1, <2>3, <2>4 DEF LtLossGuard, LtLossInv
<1> QED
    BY <1>1, LtLossNext, LtInvBounds, PTL DEF LtSpec

(***************************************************************************)
(* The serial links: handles, buffers and bytes.                           *)
(***************************************************************************)

(* The two halves of SlResources: the port, and the buffer. *)
SlPortOwned ==
    ~slDriver.closes => ~slTwice /\ slPorts = (IF slUp THEN {slHandle} ELSE {})
SlBufferOwned ==
    /\ slHeap \in Int /\ slFailed \in Int
    /\ slHeap = slFailed + (IF slUp THEN SlBuffer ELSE 0)

SlLifeInv == SlPortOwned /\ SlBufferOwned

LEMMA SlKept ==
    ASSUME SlLifeInv, slDriver' = slDriver, slPump' = slPump, slLife' = slLife
    PROVE  SlLifeInv'
<1>1. SlPortOwned'
    BY DEF SlLifeInv, SlPortOwned, slLife
<1>2. SlBufferOwned'
    BY DEF SlLifeInv, SlBufferOwned, SlBuffer, slLife
<1> QED
    BY <1>1, <1>2 DEF SlLifeInv

(* A driver that closes nothing by itself leaves the port to its owner. *)
LEMMA SlPortLeft ==
    ASSUME SlLifeInv, SlPortKept \/ SlPortClosed,
           UNCHANGED <<slDriver, slPump, slUp, slHandle, slHeap, slFailed>>
    PROVE  SlLifeInv'
<1>1. SlPortOwned'
    BY Zenon DEF SlLifeInv, SlPortOwned, SlPortKept, SlPortClosed
<1>2. SlBufferOwned'
    BY DEF SlLifeInv, SlBufferOwned, SlBuffer
<1> QED
    BY <1>1, <1>2 DEF SlLifeInv

(* The port belongs to the link between a successful begin() and end(), no *)
(* handle is closed twice, and what stays allocated is what failed calls   *)
(* of begin() left, for every driver whose functions do not close handles. *)
THEOREM SlResourcesAlwaysKept == SlSpec => []SlResources
<1>1. SlInit => SlLifeInv
    <2> SUFFICES ASSUME SlInit PROVE SlLifeInv
        OBVIOUS
    <2>1. SlPortOwned
        BY Zenon DEF SlInit, SlPortOwned
    <2>2. SlBufferOwned
        BY DEF SlInit, SlBufferOwned
    <2> QED
        BY <2>1, <2>2 DEF SlLifeInv
<1>2. SlLifeInv /\ [SlNext]_slVars => SlLifeInv'
    <2> SUFFICES ASSUME SlLifeInv, [SlNext]_slVars PROVE SlLifeInv'
        OBVIOUS
    <2>1. CASE SlBegin
        <3>1. /\ ~slUp /\ UNCHANGED <<slDriver, slPump>>
              /\ slHeap' = slHeap + SlBuffer
            BY <2>1 DEF SlBegin
        <3>2. CASE SlPortOpens(slBegins')
            <4>1. SlPortOwned'
                BY <3>1, <3>2 DEF SlPortOpens, SlLifeInv, SlPortOwned
            <4>2. SlBufferOwned'
                BY <3>1, <3>2 DEF SlPortOpens, SlLifeInv, SlBufferOwned, SlBuffer
            <4> QED
                BY <4>1, <4>2 DEF SlLifeInv
        <3>3. CASE SlPortRefused
            <4>1. ~slDriver.closes => ~slTwice'
                BY <3>1, <3>3, Zenon DEF SlPortRefused, SlLifeInv, SlPortOwned
            <4>2. SlPortOwned'
                BY <3>1, <3>3, <4>1 DEF SlPortRefused, SlLifeInv, SlPortOwned
            <4>3. SlBufferOwned'
                BY <3>1, <3>3 DEF SlPortRefused, SlLifeInv, SlBufferOwned, SlBuffer
            <4> QED
                BY <4>2, <4>3 DEF SlLifeInv
        <3> QED
            BY <2>1, <3>2, <3>3 DEF SlBegin
    <2>2. CASE SlEnd
        <3>1. SlPortOwned'
            BY <2>2 DEF SlEnd, SlClose, SlLifeInv, SlPortOwned
        <3>2. SlBufferOwned'
            BY <2>2 DEF SlEnd, SlFree, SlLifeInv, SlBufferOwned, SlBuffer
        <3> QED
            BY <3>1, <3>2 DEF SlLifeInv
    <2>3. CASE SlGetData \/ SlWriteSome \/ SlWriteNone \/ SlParse
        BY <2>3, SlKept DEF SlGetData, SlWriteSome, SlWriteNone, SlParse
    <2>4. CASE SlWriteError
        BY <2>4, SlPortLeft DEF SlWriteError
    <2>5. CASE SlRead
        BY <2>5, SlPortLeft DEF SlRead
    <2>6. CASE UNCHANGED slVars
        BY <2>6, SlKept DEF slVars
    <2> QED
        BY <2>1, <2>2, <2>3, <2>4, <2>5, <2>6 DEF SlNext
<1>3. SlLifeInv => SlResources
    BY DEF SlLifeInv, SlPortOwned, SlBufferOwned, SlBuffer, SlResources
<1> QED
    BY <1>1, <1>2, <1>3, PTL DEF SlSpec

(* The receiving loop: what the parser took and what is left of the block  *)
(* are the bytes of the port, in order.                                    *)
SlRxInv ==
    /\ slGot \in Nat /\ slParsed \in Seq(Nat) /\ slInput \in Seq(Nat)
    /\ Len(slParsed) + Len(slInput) = slGot
    /\ \A k \in 1..Len(slParsed) : slParsed[k] = k
    /\ \A k \in 1..Len(slInput) : slInput[k] = Len(slParsed) + k

(* The bytes before the block: each is on the wire or was given up. *)
SlBase == slMade - Len(slBlock)

(* The sending loop: the block is the last bytes made, and the wire is an  *)
(* increasing part of those before it.                                     *)
SlTxTypes ==
    /\ slMade \in Nat /\ slBlock \in Seq(Nat) /\ slWire \in Seq(Nat)
    /\ slPump \in SlPumps /\ SlBase >= 0
    /\ \A k \in 1..Len(slBlock) : slBlock[k] = SlBase + k
SlWireIncreases == \A i, j \in 1..Len(slWire) : i < j => slWire[i] < slWire[j]
SlAccounted ==
    /\ \A i \in 1..Len(slWire) : slWire[i] \in 1..SlBase /\ slWire[i] \notin slLost
    /\ slLost \subseteq 1..SlBase
    /\ \A b \in 1..SlBase : b \in slLost \/ \E i \in 1..Len(slWire) : slWire[i] = b
SlKeepsTrying == slPump.retry /\ "error" \notin slDriver.sends => slLost = {}
SlTxInv == SlTxTypes /\ SlWireIncreases /\ SlAccounted /\ SlKeepsTrying

(* A block cut after n bytes. *)
LEMMA SlCut ==
    ASSUME NEW s \in Seq(Nat), NEW n \in 1..Len(s)
    PROVE  /\ SubSeq(s, 1, n) \in Seq(Nat) /\ Len(SubSeq(s, 1, n)) = n
           /\ \A k \in 1..n : SubSeq(s, 1, n)[k] = s[k]
           /\ SlRest(s, n) \in Seq(Nat) /\ Len(SlRest(s, n)) = Len(s) - n
           /\ \A k \in 1..Len(s) - n : SlRest(s, n)[k] = s[n + k]
<1>1. Len(s) \in Nat /\ n \in Nat /\ \A i \in 1..Len(s) : s[i] \in Nat
    BY ElementOfSeq
<1>2. /\ SubSeq(s, 1, n) \in Seq(Nat) /\ Len(SubSeq(s, 1, n)) = n
      /\ \A k \in 1..n : SubSeq(s, 1, n)[k] = s[k]
    <2>1. \A i \in 1..n : s[i] \in Nat
        BY <1>1
    <2>2. /\ SubSeq(s, 1, n) \in Seq(Nat)
          /\ Len(SubSeq(s, 1, n)) = IF 1 <= n THEN n - 1 + 1 ELSE 0
          /\ \A i \in 1..n - 1 + 1 : SubSeq(s, 1, n)[i] = s[1 + i - 1]
        BY <1>1, <2>1, SubSeqProperties
    <2> QED
        BY <1>1, <2>2
<1>3. /\ SlRest(s, n) \in Seq(Nat) /\ Len(SlRest(s, n)) = Len(s) - n
      /\ \A k \in 1..Len(s) - n : SlRest(s, n)[k] = s[n + k]
    <2>1. \A i \in n + 1..Len(s) : s[i] \in Nat
        BY <1>1
    <2>2. /\ SubSeq(s, n + 1, Len(s)) \in Seq(Nat)
          /\ Len(SubSeq(s, n + 1, Len(s))) = IF n + 1 <= Len(s) THEN Len(s) - (n + 1) + 1 ELSE 0
          /\ \A i \in 1..Len(s) - (n + 1) + 1 : SubSeq(s, n + 1, Len(s))[i] = s[n + 1 + i - 1]
        BY <1>1, <2>1, SubSeqProperties
    <2> QED
        <3>1. n + 1 <= Len(s) <=> Len(s) - n > 0
            BY <1>1
        <3>2. Len(SlRest(s, n)) = Len(s) - n
            BY <1>1, <2>2, <3>1 DEF SlRest
        <3>3. \A k \in 1..Len(s) - n : SlRest(s, n)[k] = s[n + k]
            <4> SUFFICES ASSUME NEW k \in 1..Len(s) - n PROVE SlRest(s, n)[k] = s[n + k]
                OBVIOUS
            <4>1. k \in 1..Len(s) - (n + 1) + 1 /\ n + 1 + k - 1 = n + k
                BY <1>1
            <4> QED
                BY <2>2, <4>1 DEF SlRest
        <3> QED
            BY <2>2, <3>2, <3>3 DEF SlRest
<1> QED
    BY <1>2, <1>3

(* A new block of n bytes after the first m. *)
LEMMA SlFresh ==
    ASSUME NEW m \in Nat, NEW n \in Nat
    PROVE  LET b == [i \in 1..n |-> m + i]
           IN  b \in Seq(Nat) /\ Len(b) = n /\ \A k \in 1..n : b[k] = m + k
<1> DEFINE b == [i \in 1..n |-> m + i]
<1>1. b \in [1..n -> Nat] /\ \A k \in 1..n : b[k] = m + k
    OBVIOUS
<1>2. b \in Seq(Nat)
    BY <1>1, SeqDef
<1>3. Len(b) = n
    BY <1>2, LenProperties
<1> QED
    BY <1>1, <1>2, <1>3

LEMMA SlRxStep ==
    ASSUME SlRxInv, SlTxTypes, SlRead \/ SlParse
    PROVE  SlRxInv'
<1>1. CASE SlRead
    <2>1. slParsed' = slParsed /\ slInput = <<>>
        BY <1>1 DEF SlRead, slTx
    <2>2. CASE UNCHANGED <<slGot, slInput>>
        BY <2>1, <2>2 DEF SlRxInv
    <2>3. ASSUME NEW n \in 1..slPump.block, slGot' = slGot + n,
                 slInput' = [i \in 1..n |-> slGot + i]
          PROVE  SlRxInv'
        <3>1. n \in Nat /\ slGot \in Nat /\ Len(slInput) = 0 /\ Len(slParsed) = slGot
            BY <2>1, SlAssumption DEF SlTxTypes, SlRxInv
        <3>2. /\ slInput' \in Seq(Nat) /\ Len(slInput') = n
              /\ \A k \in 1..n : slInput'[k] = slGot + k
            BY <2>3, <3>1, SlFresh
        <3> QED
            BY <2>1, <2>3, <3>1, <3>2 DEF SlRxInv
    <2> QED
        BY <1>1, <2>2, <2>3 DEF SlRead
<1>2. CASE SlParse
    <2>1. PICK n \in 1..Len(slInput) :
             /\ slParsed' = slParsed \o SubSeq(slInput, 1, n)
             /\ slInput' = SlRest(slInput, n)
        BY <1>2 DEF SlParse, SlUnparsed
    <2>2. /\ slGot' = slGot /\ Len(slInput) \in Nat /\ Len(slParsed) \in Nat
          /\ n \in Nat /\ 1 <= n /\ n <= Len(slInput)
        BY <1>2, <2>1 DEF SlParse, SlRxInv
    <2> DEFINE front == SubSeq(slInput, 1, n)
    <2>3. /\ front \in Seq(Nat) /\ Len(front) = n
          /\ \A k \in 1..n : front[k] = slInput[k]
          /\ slInput' \in Seq(Nat) /\ Len(slInput') = Len(slInput) - n
          /\ \A k \in 1..Len(slInput) - n : slInput'[k] = slInput[n + k]
        BY <2>1, SlCut DEF SlRxInv
    <2> HIDE DEF front
    <2>4. /\ slParsed' \in Seq(Nat) /\ Len(slParsed') = Len(slParsed) + n
          /\ \A i \in 1..Len(slParsed) + n :
                slParsed'[i] = IF i <= Len(slParsed) THEN slParsed[i] ELSE front[i - Len(slParsed)]
        <3>1. slParsed \in Seq(Nat) /\ slParsed' = slParsed \o front
            BY <2>1 DEF SlRxInv, front
        <3>2. /\ slParsed \o front \in Seq(Nat) /\ Len(slParsed \o front) = Len(slParsed) + Len(front)
              /\ \A i \in 1..Len(slParsed) + Len(front) :
                    (slParsed \o front)[i] =
                        IF i <= Len(slParsed) THEN slParsed[i] ELSE front[i - Len(slParsed)]
            BY <2>3, <3>1, ConcatProperties
        <3> QED
            BY <2>3, <3>1, <3>2
    <2>5. /\ Len(slParsed') = Len(slParsed) + n /\ Len(slInput') = Len(slInput) - n
          /\ Len(slParsed) + Len(slInput) = slGot
        BY <2>3, <2>4 DEF SlRxInv
    <2>6. \A k \in 1..Len(slParsed) : slParsed[k] = k
        BY DEF SlRxInv
    <2>7. \A k \in 1..Len(slInput) : slInput[k] = Len(slParsed) + k
        BY DEF SlRxInv
    <2>8. ASSUME NEW i \in 1..Len(slParsed') PROVE slParsed'[i] = i
        <3>1. i \in 1..Len(slParsed) + n
            BY <2>5
        <3>2. CASE i <= Len(slParsed)
            <4>1. i \in 1..Len(slParsed)
                BY <2>2, <3>1, <3>2
            <4> QED
                BY <2>4, <2>6, <3>1, <3>2, <4>1
        <3>3. CASE ~(i <= Len(slParsed))
            <4>1. i - Len(slParsed) \in 1..n /\ i - Len(slParsed) \in 1..Len(slInput)
                BY <2>2, <3>1, <3>3
            <4>2. slParsed'[i] = slInput[i - Len(slParsed)]
                BY <2>3, <2>4, <3>1, <3>3, <4>1
            <4> QED
                BY <2>2, <2>7, <3>1, <4>1, <4>2
        <3> QED
            BY <3>2, <3>3
    <2>9. ASSUME NEW k \in 1..Len(slInput') PROVE slInput'[k] = Len(slParsed') + k
        <3>1. k \in 1..Len(slInput) - n /\ n + k \in 1..Len(slInput)
            BY <2>2, <2>5
        <3>2. slInput'[k] = Len(slParsed) + (n + k)
            BY <2>3, <2>7, <3>1
        <3> QED
            BY <2>2, <2>5, <3>1, <3>2
    <2>10. Len(slParsed') + Len(slInput') = slGot'
        BY <2>2, <2>5
    <2> QED
        BY <2>2, <2>3, <2>4, <2>8, <2>9, <2>10 DEF SlRxInv
<1> QED
    BY <1>1, <1>2

(* The rest of a block is given up. *)
LEMMA SlGivenUp ==
    ASSUME SlTxInv, slBlock # <<>>, slLost' = slLost \cup ToSet(slBlock), slBlock' = <<>>,
           UNCHANGED <<slDriver, slPump, slMade, slWire>>,
           ~(slPump.retry /\ "error" \notin slDriver.sends)
    PROVE  SlTxInv'
<1>1. /\ Len(slBlock) \in Nat /\ slMade \in Nat /\ SlBase \in Nat
      /\ SlBase = slMade - Len(slBlock) /\ DOMAIN slBlock = 1..Len(slBlock)
    BY DEF SlTxInv, SlTxTypes, SlBase
<1>2. \A k \in 1..Len(slBlock) : slBlock[k] = SlBase + k
    BY DEF SlTxInv, SlTxTypes
<1>3. slBlock' \in Seq(Nat) /\ Len(slBlock') = 0
    BY EmptySeq
<1>4. SlBase' = slMade
    BY <1>1, <1>3 DEF SlBase
<1>5. ToSet(slBlock) = SlBase + 1..slMade
    <2>1. \A b \in SlBase + 1..slMade : b - SlBase \in 1..Len(slBlock) /\ b = SlBase + (b - SlBase)
        BY <1>1
    <2>2. \A k \in 1..Len(slBlock) : SlBase + k \in SlBase + 1..slMade
        BY <1>1
    <2>3. ToSet(slBlock) = {slBlock[k] : k \in 1..Len(slBlock)}
        BY <1>1 DEF ToSet
    <2> QED
        BY <1>2, <2>1, <2>2, <2>3
<1>6. SlTxTypes'
    BY <1>1, <1>3, <1>4 DEF SlTxInv, SlTxTypes
<1>7. SlAccounted'
    <2>1. \A i \in 1..Len(slWire) : slWire[i] \in 1..SlBase /\ slWire[i] \notin slLost
        BY DEF SlTxInv, SlAccounted
    <2>2. \A i \in 1..Len(slWire) : slWire[i] \in 1..slMade /\ slWire[i] \notin slLost'
        BY <1>1, <1>5, <2>1
    <2>3. slLost' \subseteq 1..slMade
        <3>1. slLost \subseteq 1..SlBase
            BY DEF SlTxInv, SlAccounted
        <3>2. 1..SlBase \subseteq 1..slMade /\ SlBase + 1..slMade \subseteq 1..slMade
            BY <1>1
        <3> QED
            BY <1>5, <3>1, <3>2
    <2>4. \A b \in 1..slMade : b \in 1..SlBase \/ b \in SlBase + 1..slMade
        BY <1>1
    <2>5. \A b \in 1..slMade : b \in slLost' \/ \E i \in 1..Len(slWire) : slWire[i] = b
        BY <1>5, <2>4 DEF SlTxInv, SlAccounted
    <2> QED
        BY <1>4, <2>2, <2>3, <2>5 DEF SlAccounted
<1> QED
    BY <1>6, <1>7 DEF SlTxInv, SlWireIncreases, SlKeepsTrying

LEMMA SlGetDataTx ==
    ASSUME SlTxInv, SlGetData
    PROVE  SlTxInv'
<1>1. PICK n \in 1..slPump.block : slMade' = slMade + n /\ slBlock' = [i \in 1..n |-> slMade + i]
    BY DEF SlGetData
<1>2. slBlock = <<>> /\ UNCHANGED <<slDriver, slPump, slWire, slLost>>
    BY DEF SlGetData
<1>3. n \in Nat /\ slMade \in Nat
    BY <1>1, SlAssumption DEF SlTxInv, SlTxTypes
<1>4. slBlock' \in Seq(Nat) /\ Len(slBlock') = n /\ \A k \in 1..n : slBlock'[k] = slMade + k
    BY <1>1, <1>3, SlFresh
<1>5. SlBase = slMade /\ SlBase' = slMade
    BY <1>1, <1>2, <1>3, <1>4, EmptySeq DEF SlBase
<1>6. SlTxTypes'
    BY <1>1, <1>2, <1>3, <1>4, <1>5 DEF SlTxInv, SlTxTypes
<1>7. SlAccounted'
    BY <1>2, <1>5 DEF SlTxInv, SlAccounted
<1> QED
    BY <1>2, <1>6, <1>7 DEF SlTxInv, SlWireIncreases, SlKeepsTrying

LEMMA SlWriteSomeTx ==
    ASSUME SlTxInv, SlWriteSome
    PROVE  SlTxInv'
<1>1. PICK n \in 1..Len(slBlock) :
         slWire' = slWire \o SubSeq(slBlock, 1, n) /\ slBlock' = SlRest(slBlock, n)
    BY DEF SlWriteSome
<1>2. UNCHANGED <<slDriver, slPump, slMade, slLost>>
    BY DEF SlWriteSome
<1>3. /\ Len(slBlock) \in Nat /\ slMade \in Nat /\ SlBase \in Nat /\ Len(slWire) \in Nat
      /\ SlBase = slMade - Len(slBlock) /\ n \in Nat /\ 1 <= n /\ n <= Len(slBlock)
    BY <1>1 DEF SlTxInv, SlTxTypes, SlBase
<1> DEFINE front == SubSeq(slBlock, 1, n)
<1>4. /\ front \in Seq(Nat) /\ Len(front) = n
      /\ \A k \in 1..n : front[k] = slBlock[k]
      /\ slBlock' \in Seq(Nat) /\ Len(slBlock') = Len(slBlock) - n
      /\ \A k \in 1..Len(slBlock) - n : slBlock'[k] = slBlock[n + k]
    BY <1>1, SlCut DEF SlTxInv, SlTxTypes
<1> HIDE DEF front
<1>5. /\ slWire' \in Seq(Nat) /\ Len(slWire') = Len(slWire) + n
      /\ \A i \in 1..Len(slWire) + n :
            slWire'[i] = IF i <= Len(slWire) THEN slWire[i] ELSE front[i - Len(slWire)]
    BY <1>1, <1>4, ConcatProperties DEF SlTxInv, SlTxTypes, front
<1>6. SlBase' = SlBase + n
    BY <1>2, <1>3, <1>4 DEF SlBase
<1>7. \A k \in 1..Len(slBlock) : slBlock[k] = SlBase + k
    BY DEF SlTxInv, SlTxTypes
<1>8. ASSUME NEW i \in 1..Len(slWire)
      PROVE  slWire'[i] = slWire[i] /\ slWire[i] \in 1..SlBase /\ slWire[i] \notin slLost
    <2>1. i \in 1..Len(slWire) + n /\ i <= Len(slWire)
        BY <1>3
    <2>2. slWire'[i] = slWire[i]
        BY <1>5, <2>1
    <2> QED
        BY <2>2 DEF SlTxInv, SlAccounted
<1>9. ASSUME NEW k \in 1..n
      PROVE  slWire'[Len(slWire) + k] = SlBase + k
    <2>1. Len(slWire) + k \in 1..Len(slWire) + n /\ ~(Len(slWire) + k <= Len(slWire))
        BY <1>3
    <2>2. (Len(slWire) + k) - Len(slWire) = k /\ k \in 1..Len(slBlock)
        BY <1>3
    <2>3. slWire'[Len(slWire) + k] = front[k]
        BY <1>5, <2>1, <2>2
    <2> QED
        BY <1>4, <1>7, <2>2, <2>3
<1>10. ASSUME NEW i \in 1..Len(slWire')
       PROVE  i \in 1..Len(slWire) \/ \E k \in 1..n : i = Len(slWire) + k
    <2>1. i \in 1..Len(slWire) \/ (i - Len(slWire) \in 1..n /\ i = Len(slWire) + (i - Len(slWire)))
        BY <1>3, <1>5
    <2> QED
        BY <2>1
<1>11. SlTxTypes'
    <2>1. ASSUME NEW k \in 1..Len(slBlock') PROVE slBlock'[k] = SlBase' + k
        <3>1. k \in 1..Len(slBlock) - n /\ n + k \in 1..Len(slBlock)
            BY <1>3, <1>4
        <3>2. slBlock'[k] = SlBase + (n + k)
            BY <1>4, <1>7, <3>1
        <3> QED
            BY <1>3, <1>6, <3>1, <3>2
    <2>2. SlBase' >= 0
        BY <1>3, <1>6
    <2> QED
        BY <1>2, <1>4, <1>5, <2>1, <2>2 DEF SlTxInv, SlTxTypes
<1>12. SlWireIncreases'
    <2> SUFFICES ASSUME NEW i \in 1..Len(slWire'), NEW j \in 1..Len(slWire'), i < j
                 PROVE  slWire'[i] < slWire'[j]
        BY DEF SlWireIncreases
    <2>1. CASE i \in 1..Len(slWire) /\ j \in 1..Len(slWire)
        BY <1>8, <2>1 DEF SlTxInv, SlWireIncreases
    <2>2. ASSUME i \in 1..Len(slWire), NEW k \in 1..n, j = Len(slWire) + k
          PROVE  slWire'[i] < slWire'[j]
        <3>1. slWire'[i] \in 1..SlBase /\ slWire'[j] = SlBase + k
            BY <1>8, <1>9, <2>2
        <3> QED
            BY <1>3, <3>1
    <2>3. ASSUME NEW k \in 1..n, NEW l \in 1..n, i = Len(slWire) + k, j = Len(slWire) + l
          PROVE  slWire'[i] < slWire'[j]
        <3>1. slWire'[i] = SlBase + k /\ slWire'[j] = SlBase + l
            BY <1>9, <2>3
        <3> QED
            BY <1>3, <2>3, <3>1
    <2>4. ASSUME NEW k \in 1..n, i = Len(slWire) + k PROVE j \notin 1..Len(slWire)
        BY <1>3, <2>4
    <2> QED
        BY <1>10, <2>1, <2>2, <2>3, <2>4
<1>13. SlAccounted'
    <2>1. ASSUME NEW i \in 1..Len(slWire')
          PROVE  slWire'[i] \in 1..SlBase' /\ slWire'[i] \notin slLost'
        <3>1. CASE i \in 1..Len(slWire)
            BY <1>2, <1>3, <1>6, <1>8, <3>1
        <3>2. ASSUME NEW k \in 1..n, i = Len(slWire) + k
              PROVE  slWire'[i] \in 1..SlBase' /\ slWire'[i] \notin slLost'
            <4>1. slWire'[i] = SlBase + k
                BY <1>9, <3>2
            <4>2. SlBase + k \notin 1..SlBase /\ SlBase + k \in 1..SlBase + n
                BY <1>3
            <4> QED
                BY <1>2, <1>6, <4>1, <4>2 DEF SlTxInv, SlAccounted
        <3> QED
            BY <1>10, <3>1, <3>2
    <2>2. slLost' \subseteq 1..SlBase'
        BY <1>2, <1>3, <1>6 DEF SlTxInv, SlAccounted
    <2>3. ASSUME NEW b \in 1..SlBase'
          PROVE  b \in slLost' \/ \E i \in 1..Len(slWire') : slWire'[i] = b
        <3>1. CASE b \in 1..SlBase
            <4>1. b \in slLost \/ \E i \in 1..Len(slWire) : slWire[i] = b
                BY <3>1 DEF SlTxInv, SlAccounted
            <4>2. \A i \in 1..Len(slWire) : i \in 1..Len(slWire')
                BY <1>3, <1>5
            <4> QED
                BY <1>2, <1>8, <4>1, <4>2
        <3>2. CASE b \notin 1..SlBase
            <4>1. b - SlBase \in 1..n /\ SlBase + (b - SlBase) = b
                  /\ Len(slWire) + (b - SlBase) \in 1..Len(slWire')
                BY <1>3, <1>5, <1>6, <3>2
            <4> QED
                BY <1>9, <4>1
        <3> QED
            BY <3>1, <3>2
    <2> QED
        BY <2>1, <2>2, <2>3 DEF SlAccounted
<1> QED
    BY <1>2, <1>11, <1>12, <1>13 DEF SlTxInv, SlKeepsTrying

LEMMA SlBytesNext ==
    ASSUME SlRxInv, SlTxInv, [SlNext]_slVars
    PROVE  SlRxInv' /\ SlTxInv'
<1>1. ASSUME UNCHANGED <<slDriver, slPump, slTx>> PROVE SlTxInv'
    BY <1>1 DEF slTx, SlTxInv, SlTxTypes, SlBase, SlWireIncreases, SlAccounted, SlKeepsTrying
<1>2. ASSUME UNCHANGED slRx PROVE SlRxInv'
    BY <1>2 DEF slRx, SlRxInv
<1>3. CASE SlBegin \/ SlEnd \/ UNCHANGED slVars
    BY <1>1, <1>2, <1>3 DEF SlBegin, SlEnd, slVars
<1>4. CASE SlRead \/ SlParse
    <2>1. UNCHANGED <<slDriver, slPump, slTx>>
        BY <1>4 DEF SlRead, SlParse
    <2> QED
        BY <1>1, <1>4, <2>1, SlRxStep DEF SlTxInv
<1>5. CASE SlGetData
    BY <1>2, <1>5, SlGetDataTx DEF SlGetData
<1>6. CASE SlWriteSome
    BY <1>2, <1>6, SlWriteSomeTx DEF SlWriteSome
<1>7. CASE SlWriteNone
    BY <1>2, <1>7, SlGivenUp DEF SlWriteNone
<1>8. CASE SlWriteError
    BY <1>2, <1>8, SlGivenUp DEF SlWriteError
<1> QED
    BY <1>3, <1>4, <1>5, <1>6, <1>7, <1>8 DEF SlNext

LEMMA SlBytesKept ==
    ASSUME SlRxInv, SlTxInv
    PROVE  SlBytesInOrder
<1>1. slParsed \o slInput = [i \in 1..slGot |-> i]
    <2> DEFINE id == [i \in 1..slGot |-> i]
    <2>1. slGot \in Nat /\ Len(slParsed) \in Nat /\ Len(slInput) \in Nat
          /\ Len(slParsed) + Len(slInput) = slGot
        BY DEF SlRxInv
    <2>2. id \in Seq(Nat) /\ Len(id) = slGot /\ \A k \in 1..slGot : id[k] = k
        <3>1. id \in [1..slGot -> Nat]
            BY <2>1
        <3>2. id \in Seq(Nat)
            BY <2>1, <3>1, SeqDef
        <3> QED
            BY <2>1, <3>2, LenProperties
    <2>3. /\ slParsed \o slInput \in Seq(Nat)
          /\ Len(slParsed \o slInput) = Len(slParsed) + Len(slInput)
          /\ \A i \in 1..Len(slParsed) + Len(slInput) : (slParsed \o slInput)[i] =
                IF i <= Len(slParsed) THEN slParsed[i] ELSE slInput[i - Len(slParsed)]
        BY ConcatProperties DEF SlRxInv
    <2>4. ASSUME NEW i \in 1..slGot PROVE (slParsed \o slInput)[i] = i
        <3>1. CASE i <= Len(slParsed)
            <4>1. i \in 1..Len(slParsed)
                BY <2>1, <3>1
            <4>2. slParsed[i] = i
                BY <4>1 DEF SlRxInv
            <4> QED
                BY <2>1, <2>3, <3>1, <4>2
        <3>2. CASE ~(i <= Len(slParsed))
            <4>1. i - Len(slParsed) \in 1..Len(slInput)
                BY <2>1, <3>2
            <4>2. slInput[i - Len(slParsed)] = Len(slParsed) + (i - Len(slParsed))
                BY <4>1 DEF SlRxInv
            <4>3. (slParsed \o slInput)[i] = slInput[i - Len(slParsed)]
                BY <2>1, <2>3, <3>2
            <4> QED
                BY <2>1, <4>2, <4>3
        <3> QED
            BY <3>1, <3>2
    <2> HIDE DEF id
    <2>5. slParsed \o slInput = id
        BY <2>1, <2>2, <2>3, <2>4, SeqEqual
    <2> QED
        BY <2>5 DEF id
<1>2. /\ Len(slBlock) \in Nat /\ slMade \in Nat /\ SlBase \in Nat
      /\ SlBase = slMade - Len(slBlock)
      /\ DOMAIN slWire = 1..Len(slWire) /\ DOMAIN slBlock = 1..Len(slBlock)
    BY DEF SlTxInv, SlTxTypes, SlBase
<1>3. \A i, j \in DOMAIN slWire : i < j => slWire[i] < slWire[j]
    BY <1>2 DEF SlTxInv, SlWireIncreases
<1>4. /\ \A x : x \in ToSet(slWire) <=> \E i \in 1..Len(slWire) : slWire[i] = x
      /\ \A x : x \in ToSet(slBlock) <=> \E k \in 1..Len(slBlock) : slBlock[k] = x
    BY <1>2 DEF ToSet
<1>5. \A k \in 1..Len(slBlock) : slBlock[k] = SlBase + k
    BY DEF SlTxInv, SlTxTypes
<1>6. ToSet(slBlock) = SlBase + 1..slMade
    <2>1. \A b \in SlBase + 1..slMade : b - SlBase \in 1..Len(slBlock) /\ b = SlBase + (b - SlBase)
        BY <1>2
    <2>2. \A k \in 1..Len(slBlock) : SlBase + k \in SlBase + 1..slMade
        BY <1>2
    <2>3. ASSUME NEW x \in ToSet(slBlock) PROVE x \in SlBase + 1..slMade
        BY <1>4, <1>5, <2>2, <2>3
    <2>4. ASSUME NEW b \in SlBase + 1..slMade PROVE b \in ToSet(slBlock)
        BY <1>4, <1>5, <2>1, <2>4
    <2> QED
        BY <2>3, <2>4
<1>7. ToSet(slWire) \cup slLost = 1..SlBase /\ ToSet(slWire) \cap slLost = {}
    BY <1>4 DEF SlTxInv, SlAccounted
<1>8. 1..slMade = 1..SlBase \cup (SlBase + 1..slMade) /\ (SlBase + 1..slMade) \cap 1..SlBase = {}
    BY <1>2
<1>9. /\ ToSet(slWire) \cup ToSet(slBlock) \cup slLost = 1..slMade
      /\ ToSet(slWire) \cap slLost = {} /\ ToSet(slBlock) \cap slLost = {}
    BY <1>6, <1>7, <1>8
<1> QED
    BY <1>1, <1>3, <1>9 DEF SlBytesInOrder, SlTxInv, SlKeepsTrying

(* Short writes, refusals and errors of a serial driver never repeat or    *)
(* reorder a byte: what the protocol made is on the wire, still in the     *)
(* block or given up with the rest of its block, and the parser gets what  *)
(* the port delivered, once; with any drivers, block sizes and lengths.    *)
THEOREM SlBytesAlwaysInOrder == SlSpec => []SlBytesInOrder
<1>1. SlInit => SlRxInv /\ SlTxInv
    <2> SUFFICES ASSUME SlInit PROVE SlRxInv /\ SlTxInv
        OBVIOUS
    <2>1. <<>> \in Seq(Nat) /\ Len(<<>>) = 0
        BY EmptySeq
    <2>2. SlRxInv
        BY <2>1 DEF SlInit, SlRxInv
    <2>3. slMade = 0 /\ slBlock = <<>> /\ slWire = <<>> /\ slLost = {} /\ slPump \in SlPumps
        BY DEF SlInit
    <2>4. SlBase = 0 /\ Len(slWire) = 0 /\ Len(slBlock) = 0
        <3>1. Len(slWire) = 0 /\ Len(slBlock) = 0
            BY <2>1, <2>3, Zenon
        <3>2. slMade = 0
            BY <2>3
        <3> QED
            BY <3>1, <3>2 DEF SlBase
    <2>5. SlTxTypes
        BY <2>1, <2>3, <2>4 DEF SlTxTypes
    <2>6. SlWireIncreases /\ SlAccounted
        BY <2>3, <2>4 DEF SlWireIncreases, SlAccounted
    <2> QED
        BY <2>2, <2>3, <2>5, <2>6 DEF SlTxInv, SlKeepsTrying
<1> QED
    BY <1>1, SlBytesNext, SlBytesKept, PTL DEF SlSpec

(***************************************************************************)
(* hal/tiny_list.c.                                                        *)
(***************************************************************************)

(* The links of the list m: head leads to the first element, every pnext   *)
(* to the element behind and every pprev to the one before, and no element *)
(* is there twice.                                                         *)
TlChain(m, head, next, prev) ==
    /\ head = IF Len(m) = 0 THEN TlNil ELSE m[1]
    /\ \A i \in 1..Len(m) : next[m[i]] = IF i = Len(m) THEN TlNil ELSE m[i + 1]
    /\ \A i \in 1..Len(m) : prev[m[i]] = IF i = 1 THEN TlNil ELSE m[i - 1]
    /\ \A i, j \in 1..Len(m) : m[i] = m[j] => i = j

(* The enumeration is at the element behind the last one it showed. *)
TlWalkOK ==
    /\ tlSeen \in Seq(TlElements)
    /\ tlLoop # "idle" => /\ Len(tlSeen) <= Len(tlMembers)
                          /\ \A i \in 1..Len(tlSeen) : tlSeen[i] = tlMembers[i]
    /\ tlLoop = "loop" =>
           tlAt = IF Len(tlSeen) = Len(tlMembers) THEN TlNil ELSE tlMembers[Len(tlSeen) + 1]

TlInv ==
    /\ tlMembers \in Seq(TlElements)
    /\ TlChain(tlMembers, tlHead, tlNext, tlPrev)
    /\ tlNext \in [TlElements -> TlElements \cup {TlNil}]
    /\ tlPrev \in [TlElements -> TlElements \cup {TlNil}]
    /\ TlWalkOK

LEMMA TlElementsOf ==
    ASSUME NEW m \in Seq(TlElements)
    PROVE  /\ Len(m) \in Nat /\ DOMAIN m = 1..Len(m)
           /\ \A i \in 1..Len(m) : m[i] \in TlElements /\ m[i] # TlNil
BY TlAssumption

(* m2, n2 and p2 are the list m and its links once e is added to it. *)
TlAdded(m, head, next, prev, e, m2, n2, p2) ==
    /\ m \in Seq(TlElements) /\ m2 \in Seq(TlElements) /\ e \in TlElements
    /\ TlChain(m, head, next, prev)
    /\ \A i \in 1..Len(m) : m[i] # e
    /\ Len(m2) = Len(m) + 1 /\ m2[1] = e /\ \A i \in 1..Len(m) : m2[i + 1] = m[i]
    /\ n2[e] = head /\ \A x \in TlElements : x # e => n2[x] = next[x]
    /\ p2[e] = TlNil
    /\ \A x \in TlElements : x # e => p2[x] = IF x = head THEN e ELSE prev[x]

(* tiny_list_add keeps the links. *)
LEMMA TlAddKeeps ==
    ASSUME NEW m, NEW head, NEW next, NEW prev, NEW e, NEW m2, NEW n2, NEW p2,
           TlAdded(m, head, next, prev, e, m2, n2, p2)
    PROVE  TlChain(m2, e, n2, p2)
<1> USE DEF TlAdded
<1>1. /\ Len(m) \in Nat /\ \A i \in 1..Len(m) : m[i] \in TlElements /\ m[i] # TlNil
      /\ n2[e] = head /\ p2[e] = TlNil
      /\ \A i \in 1..Len(m) : n2[m[i]] = next[m[i]]
      /\ \A i \in 1..Len(m) : p2[m[i]] = IF m[i] = head THEN e ELSE prev[m[i]]
    BY TlElementsOf
<1>2. \A i \in 1..Len(m) + 1 : i = 1 \/ (i - 1 \in 1..Len(m) /\ m2[i] = m[i - 1])
    <2> SUFFICES ASSUME NEW i \in 1..Len(m) + 1, i # 1 PROVE i - 1 \in 1..Len(m) /\ m2[i] = m[i - 1]
        OBVIOUS
    <2>1. i - 1 \in 1..Len(m) /\ (i - 1) + 1 = i
        BY <1>1
    <2> QED
        BY <2>1
<1>3. ASSUME NEW i \in 1..Len(m) + 1
      PROVE  /\ n2[m2[i]] = IF i = Len(m) + 1 THEN TlNil ELSE m2[i + 1]
             /\ p2[m2[i]] = IF i = 1 THEN TlNil ELSE m2[i - 1]
    <2>1. CASE i = 1
        <3>1. i # Len(m) + 1 => 1 \in 1..Len(m) /\ m2[1 + 1] = m[1]
            BY <1>1, <2>1
        <3> QED
            BY <1>1, <2>1, <3>1 DEF TlChain
    <2>2. CASE i # 1
        <3>1. i - 1 \in 1..Len(m) /\ m2[i] = m[i - 1] /\ (i - 1) + 1 = i
            BY <1>1, <1>2, <2>2
        <3>2. n2[m2[i]] = IF i - 1 = Len(m) THEN TlNil ELSE m[i]
            BY <1>1, <3>1 DEF TlChain
        <3>3. i # Len(m) + 1 => m2[i + 1] = m[i]
            BY <1>1, <2>2
        <3>4. p2[m2[i]] = m2[i - 1]
            <4>1. CASE i = 2
                <5>1. m[i - 1] = head
                    BY <1>1, <3>1, <4>1 DEF TlChain
                <5> QED
                    BY <1>1, <3>1, <4>1, <5>1
            <4>2. CASE i # 2
                <5>1. i - 1 # 1 /\ (i - 1) - 1 \in 1..Len(m) /\ 1 \in 1..Len(m) /\ Len(m) # 0
                    BY <1>1, <3>1, <4>2
                <5>2. m[i - 1] # head
                    BY <3>1, <5>1 DEF TlChain
                <5>3. prev[m[i - 1]] = m[(i - 1) - 1] /\ m2[((i - 1) - 1) + 1] = m[(i - 1) - 1]
                    BY <3>1, <5>1 DEF TlChain
                <5>4. ((i - 1) - 1) + 1 = i - 1
                    BY <1>1
                <5> QED
                    BY <1>1, <3>1, <5>2, <5>3, <5>4
            <4> QED
                BY <4>1, <4>2
        <3> QED
            BY <1>1, <2>2, <3>1, <3>2, <3>3, <3>4
    <2> QED
        BY <2>1, <2>2
<1>4. ASSUME NEW i \in 1..Len(m) + 1, NEW j \in 1..Len(m) + 1, m2[i] = m2[j] PROVE i = j
    <2>1. CASE i = 1 \/ j = 1
        BY <1>2, <1>4, <2>1
    <2>2. CASE i # 1 /\ j # 1
        <3>1. /\ i - 1 \in 1..Len(m) /\ j - 1 \in 1..Len(m) /\ m[i - 1] = m[j - 1]
            BY <1>2, <1>4, <2>2
        <3>2. i - 1 = j - 1
            BY <3>1 DEF TlChain
        <3> QED
            BY <1>1, <3>2
    <2> QED
        BY <2>1, <2>2
<1>5. 1 \in 1..Len(m) + 1 /\ Len(m) + 1 # 0
    BY <1>1
<1> QED
    BY <1>1, <1>3, <1>4, <1>5 DEF TlChain

(* m2, h2, n2 and p2 are the list m and its links once its r-th element e   *)
(* is removed.                                                             *)
TlRemoved(m, head, next, prev, r, e, m2, h2, n2, p2) ==
    /\ m \in Seq(TlElements) /\ m2 \in Seq(TlElements) /\ r \in 1..Len(m) /\ e = m[r]
    /\ TlChain(m, head, next, prev)
    /\ Len(m2) = Len(m) - 1
    /\ \A i \in 1..Len(m) - 1 : m2[i] = m[IF i < r THEN i ELSE i + 1]
    /\ h2 = IF e = head THEN next[e] ELSE head
    /\ \A x \in TlElements :
         x # e => n2[x] = IF e # head /\ x = prev[e] THEN next[e] ELSE next[x]
    /\ \A x \in TlElements :
         x # e => p2[x] = IF x = next[e] THEN (IF e = head THEN TlNil ELSE prev[e]) ELSE prev[x]

(* tiny_list_remove keeps the links of the elements that stay. *)
LEMMA TlRemoveKeeps ==
    ASSUME NEW m, NEW head, NEW next, NEW prev, NEW r, NEW e, NEW m2, NEW h2, NEW n2, NEW p2,
           TlRemoved(m, head, next, prev, r, e, m2, h2, n2, p2)
    PROVE  TlChain(m2, h2, n2, p2)
<1> USE DEF TlRemoved
<1> DEFINE old(i) == IF i < r THEN i ELSE i + 1
<1>1. /\ Len(m) \in Nat /\ \A i \in 1..Len(m) : m[i] \in TlElements /\ m[i] # TlNil
      /\ \A i, j \in 1..Len(m) : m[i] = m[j] => i = j
      /\ e \in TlElements /\ (e = head <=> r = 1) /\ 1 \in 1..Len(m) /\ head = m[1]
      /\ next[e] = IF r = Len(m) THEN TlNil ELSE m[r + 1]
      /\ prev[e] = IF r = 1 THEN TlNil ELSE m[r - 1]
    <2>1. Len(m) \in Nat /\ \A i \in 1..Len(m) : m[i] \in TlElements /\ m[i] # TlNil
        BY TlElementsOf
    <2>2. 1 \in 1..Len(m) /\ Len(m) # 0
        BY <2>1
    <2> QED
        BY <2>1, <2>2 DEF TlChain
<1>2. \A i \in 1..Len(m) :
         i # r => /\ n2[m[i]] = IF i + 1 = r THEN next[e] ELSE next[m[i]]
                  /\ p2[m[i]] = IF i = r + 1 THEN (IF r = 1 THEN TlNil ELSE m[r - 1]) ELSE prev[m[i]]
    <2> SUFFICES ASSUME NEW i \in 1..Len(m), i # r
                 PROVE  /\ n2[m[i]] = IF i + 1 = r THEN next[e] ELSE next[m[i]]
                        /\ p2[m[i]] = IF i = r + 1 THEN (IF r = 1 THEN TlNil ELSE m[r - 1])
                                      ELSE prev[m[i]]
        OBVIOUS
    <2>1. m[i] # e /\ m[i] \in TlElements /\ m[i] # TlNil
        BY <1>1
    <2>2. (r # 1 /\ m[i] = prev[e]) <=> i + 1 = r
        <3>1. r # 1 => r - 1 \in 1..Len(m) /\ prev[e] = m[r - 1]
            BY <1>1
        <3>2. r # 1 => (m[i] = m[r - 1] <=> i = r - 1)
            BY <1>1, <3>1
        <3> QED
            BY <1>1, <3>1, <3>2
    <2>3. m[i] = next[e] <=> i = r + 1
        <3>1. r # Len(m) => r + 1 \in 1..Len(m) /\ next[e] = m[r + 1]
            BY <1>1
        <3>2. r # Len(m) => (m[i] = m[r + 1] <=> i = r + 1)
            BY <1>1, <3>1
        <3>3. r = Len(m) => i # r + 1 /\ m[i] # next[e]
            BY <1>1, <2>1
        <3> QED
            BY <3>1, <3>2, <3>3
    <2>4. n2[m[i]] = IF r # 1 /\ m[i] = prev[e] THEN next[e] ELSE next[m[i]]
        BY <1>1, <2>1
    <2>5. p2[m[i]] = IF m[i] = next[e] THEN (IF r = 1 THEN TlNil ELSE prev[e]) ELSE prev[m[i]]
        BY <1>1, <2>1
    <2>6. r # 1 => prev[e] = m[r - 1]
        BY <1>1
    <2> HIDE DEF TlRemoved
    <2> QED
        BY <2>2, <2>3, <2>4, <2>5, <2>6
<1>3. \A i \in 1..Len(m) - 1 :
         old(i) \in 1..Len(m) /\ old(i) # r /\ m2[i] = m[old(i)]
    BY <1>1
<1>4. /\ \A k \in 1..Len(m) : next[m[k]] = IF k = Len(m) THEN TlNil ELSE m[k + 1]
      /\ \A k \in 1..Len(m) : prev[m[k]] = IF k = 1 THEN TlNil ELSE m[k - 1]
    BY Zenon DEF TlChain
<1>5. Len(m2) = Len(m) - 1 /\ (h2 = IF e = head THEN next[e] ELSE head) /\ r \in 1..Len(m)
    OBVIOUS
<1> HIDE DEF TlRemoved
<1>6. ASSUME NEW i \in 1..Len(m) - 1
      PROVE  n2[m2[i]] = IF i = Len(m) - 1 THEN TlNil ELSE m2[i + 1]
    <2>1. i # Len(m) - 1 => m2[i + 1] = m[old(i + 1)]
        BY <1>1, <1>5, <1>3
    <2>2. CASE i + 1 = r
        <3>1. n2[m2[i]] = IF r = Len(m) THEN TlNil ELSE m[r + 1]
            BY <1>1, <1>5, <1>2, <1>3, <2>2
        <3> QED
            BY <1>1, <1>5, <2>1, <2>2, <3>1
    <2>3. CASE i + 1 # r
        <3>1. PICK k \in 1..Len(m) : k = old(i) /\ k # r /\ m2[i] = m[k]
            BY <1>3
        <3>2. k + 1 # r
            BY <1>1, <1>5, <2>3, <3>1
        <3>3. n2[m[k]] = next[m[k]] /\ next[m[k]] = IF k = Len(m) THEN TlNil ELSE m[k + 1]
            BY <1>2, <1>4, <3>1, <3>2
        <3>4. (k = Len(m) <=> i = Len(m) - 1) /\ (i # Len(m) - 1 => old(i + 1) = k + 1)
            BY <1>1, <1>5, <2>3, <3>1
        <3> QED
            BY <2>1, <3>1, <3>3, <3>4
    <2> QED
        BY <2>2, <2>3
<1>7. ASSUME NEW i \in 1..Len(m) - 1
      PROVE  p2[m2[i]] = IF i = 1 THEN TlNil ELSE m2[i - 1]
    <2>1. i # 1 => m2[i - 1] = m[old(i - 1)]
        BY <1>1, <1>5, <1>3
    <2>2. CASE i = r
        <3>1. old(i) = r + 1 /\ (i # 1 => old(i - 1) = r - 1)
            BY <1>1, <1>5, <2>2
        <3>2. p2[m2[i]] = IF r = 1 THEN TlNil ELSE m[r - 1]
            BY <1>2, <1>3, <3>1
        <3> QED
            BY <2>1, <2>2, <3>1, <3>2
    <2>3. CASE i # r
        <3>1. PICK k \in 1..Len(m) : k = old(i) /\ k # r /\ m2[i] = m[k]
            BY <1>3
        <3>2. k # r + 1
            BY <1>1, <1>5, <2>3, <3>1
        <3>3. p2[m[k]] = prev[m[k]] /\ prev[m[k]] = IF k = 1 THEN TlNil ELSE m[k - 1]
            BY <1>2, <1>4, <3>1, <3>2
        <3>4. (k = 1 <=> i = 1) /\ (i # 1 => old(i - 1) = k - 1)
            BY <1>1, <1>5, <2>3, <3>1
        <3> QED
            BY <2>1, <3>1, <3>3, <3>4
    <2> QED
        BY <2>2, <2>3
<1>8. ASSUME NEW i \in 1..Len(m) - 1, NEW j \in 1..Len(m) - 1, m2[i] = m2[j] PROVE i = j
    <2>1. PICK k \in 1..Len(m) : k = old(i) /\ m2[i] = m[k]
        BY <1>3
    <2>2. PICK l \in 1..Len(m) : l = old(j) /\ m2[j] = m[l]
        BY <1>3
    <2>3. m[k] = m[l]
        BY <1>8, <2>1, <2>2
    <2>4. k = l
        BY <1>1, <1>5, <2>3
    <2> QED
        BY <1>1, <1>5, <2>1, <2>2, <2>4
<1>9. h2 = IF Len(m) - 1 = 0 THEN TlNil ELSE m2[1]
    <2>1. Len(m) - 1 # 0 => m2[1] = m[old(1)]
        BY <1>1, <1>5, <1>3
    <2> QED
        BY <1>1, <1>5, <2>1
<1> QED
    BY <1>6, <1>7, <1>8, <1>9, <1>5 DEF TlChain

(* Whatever is added, removed and cleared, an enumeration shows exactly    *)
(* the elements of the list, newest first (tiny_list_enumerate after any   *)
(* tiny_list_add, tiny_list_remove and tiny_list_clear), for any number of *)
(* elements.  The invariant is the doubly linked chain: a removal is right *)
(* because pprev of the removed element is right.                          *)
THEOREM TlAlwaysEnumerates == TlSpec => []TlEnumerates
<1>1. TlInit => TlInv
    <2> SUFFICES ASSUME TlInit PROVE TlInv
        OBVIOUS
    <2>1. Len(<<>>) = 0 /\ <<>> \in Seq(TlElements)
        OBVIOUS
    <2>2. TlChain(<<>>, TlNil, tlNext, tlPrev)
        BY <2>1 DEF TlChain
    <2> QED
        BY <2>1, <2>2 DEF TlInit, TlInv, TlWalkOK
<1>2. TlInv /\ [TlNextStep]_tlVars => TlInv'
    <2> SUFFICES ASSUME TlInv, [TlNextStep]_tlVars PROVE TlInv'
        OBVIOUS
    <2>0. /\ Len(tlMembers) \in Nat /\ DOMAIN tlMembers = 1..Len(tlMembers)
          /\ \A i \in 1..Len(tlMembers) : tlMembers[i] \in TlElements /\ tlMembers[i] # TlNil
          /\ tlHead \in TlElements \cup {TlNil}
        <3>1. /\ Len(tlMembers) \in Nat /\ DOMAIN tlMembers = 1..Len(tlMembers)
              /\ \A i \in 1..Len(tlMembers) : tlMembers[i] \in TlElements /\ tlMembers[i] # TlNil
            BY TlElementsOf DEF TlInv
        <3>2. Len(tlMembers) # 0 => 1 \in 1..Len(tlMembers)
            BY <3>1
        <3> QED
            BY <3>1, <3>2 DEF TlInv, TlChain
    <2>1. CASE TlClear
        <3>1. Len(<<>>) = 0 /\ <<>> \in Seq(TlElements)
            OBVIOUS
        <3>2. TlChain(<<>>, TlNil, tlNext, tlPrev)
            BY <3>1 DEF TlChain
        <3> QED
            BY <2>1, <3>1, <3>2 DEF TlInv, TlClear, TlWalkOK, tlWalk
    <2>2. ASSUME NEW e \in TlElements, TlAdd(e) PROVE TlInv'
        <3> USE <2>2 DEF TlAdd
        <3>1. /\ <<e>> \o tlMembers \in Seq(TlElements)
              /\ Len(<<e>> \o tlMembers) = Len(tlMembers) + 1
              /\ (<<e>> \o tlMembers)[1] = e
              /\ \A i \in 1..Len(tlMembers) : (<<e>> \o tlMembers)[i + 1] = tlMembers[i]
            BY <2>0 DEF TlInv
        <3>2. /\ tlMembers' \in Seq(TlElements) /\ Len(tlMembers') = Len(tlMembers) + 1
              /\ tlMembers'[1] = e
              /\ \A i \in 1..Len(tlMembers) : tlMembers'[i + 1] = tlMembers[i]
            BY <3>1
        <3>3. \A i \in 1..Len(tlMembers) : tlMembers[i] # e
            BY <2>0 DEF TlIsMember
        <3>4. PICK m2, n2, p2 : m2 = tlMembers' /\ n2 = tlNext' /\ p2 = tlPrev'
            OBVIOUS
        <3>5. TlChain(tlMembers', tlHead', tlNext', tlPrev')
            <4>1. m2 \in Seq(TlElements) /\ Len(m2) = Len(tlMembers) + 1 /\ m2[1] = e
                BY <3>2, <3>4
            <4>2. \A i \in 1..Len(tlMembers) : m2[i + 1] = tlMembers[i]
                BY <3>2, <3>4
            <4>3. /\ n2[e] = tlHead /\ \A x \in TlElements : x # e => n2[x] = tlNext[x]
                  /\ p2[e] = TlNil
                  /\ \A x \in TlElements : x # e => p2[x] = IF x = tlHead THEN e ELSE tlPrev[x]
                BY <3>4 DEF TlInv
            <4>4. /\ tlMembers \in Seq(TlElements) /\ TlChain(tlMembers, tlHead, tlNext, tlPrev)
                  /\ tlNext \in [TlElements -> TlElements \cup {TlNil}]
                  /\ tlPrev \in [TlElements -> TlElements \cup {TlNil}]
                BY DEF TlInv
            <4>5. TlAdded(tlMembers, tlHead, tlNext, tlPrev, e, m2, n2, p2)
                BY <3>3, <4>1, <4>2, <4>3, <4>4 DEF TlAdded
            <4>6. TlChain(m2, e, n2, p2)
                BY <4>5, TlAddKeeps
            <4> QED
                BY <3>4, <4>6
        <3>6. /\ tlNext' \in [TlElements -> TlElements \cup {TlNil}]
              /\ tlPrev' \in [TlElements -> TlElements \cup {TlNil}]
            BY <2>0 DEF TlInv
        <3>7. TlWalkOK'
            BY DEF TlInv, TlWalkOK, tlWalk
        <3> QED
            BY <3>2, <3>5, <3>6, <3>7 DEF TlInv
    <2>3. ASSUME NEW r \in DOMAIN tlMembers, TlRemove(r) PROVE TlInv'
        <3> USE <2>3 DEF TlRemove
        <3> DEFINE e == tlMembers[r]
        <3>1. /\ r \in 1..Len(tlMembers) /\ e \in TlElements
            BY <2>0
        <3>2. /\ tlMembers' \in Seq(TlElements) /\ Len(tlMembers') = Len(tlMembers) - 1
              /\ \A i \in 1..Len(tlMembers) - 1 : tlMembers'[i] = tlMembers[IF i < r THEN i ELSE i + 1]
            <4>1. Len(tlMembers) - 1 \in Nat
                BY <2>0, <3>1
            <4>2. \A i \in 1..Len(tlMembers) - 1 : tlMembers[IF i < r THEN i ELSE i + 1] \in TlElements
                BY <2>0, <3>1
            <4> QED
                BY <4>1, <4>2
        <3>3. PICK m2, h2, n2, p2 :
                 m2 = tlMembers' /\ h2 = tlHead' /\ n2 = tlNext' /\ p2 = tlPrev'
            OBVIOUS
        <3>4. TlChain(tlMembers', tlHead', tlNext', tlPrev')
            <4>1. m2 \in Seq(TlElements) /\ Len(m2) = Len(tlMembers) - 1
                BY <3>2, <3>3
            <4>2. \A i \in 1..Len(tlMembers) - 1 : m2[i] = tlMembers[IF i < r THEN i ELSE i + 1]
                BY <3>2, <3>3
            <4>3. /\ h2 = IF e = tlHead THEN tlNext[e] ELSE tlHead
                  /\ \A x \in TlElements :
                       x # e => n2[x] = IF e # tlHead /\ x = tlPrev[e] THEN tlNext[e] ELSE tlNext[x]
                  /\ \A x \in TlElements :
                       x # e => p2[x] = IF x = tlNext[e] THEN (IF e = tlHead THEN TlNil ELSE tlPrev[e])
                                        ELSE tlPrev[x]
                BY <3>3 DEF TlUnlinkPrev
            <4>4. /\ tlMembers \in Seq(TlElements) /\ TlChain(tlMembers, tlHead, tlNext, tlPrev)
                  /\ tlNext \in [TlElements -> TlElements \cup {TlNil}]
                  /\ tlPrev \in [TlElements -> TlElements \cup {TlNil}]
                BY DEF TlInv
            <4>5. TlRemoved(tlMembers, tlHead, tlNext, tlPrev, r, e, m2, h2, n2, p2)
                BY <3>1, <4>1, <4>2, <4>3, <4>4 DEF TlRemoved
            <4>6. TlChain(m2, h2, n2, p2)
                BY <4>5, TlRemoveKeeps
            <4> QED
                BY <3>3, <4>6
        <3>5. /\ tlNext' \in [TlElements -> TlElements \cup {TlNil}]
              /\ tlPrev' \in [TlElements -> TlElements \cup {TlNil}]
            BY <3>1 DEF TlInv, TlUnlinkPrev
        <3>6. TlWalkOK'
            BY DEF TlInv, TlWalkOK, tlWalk
        <3> QED
            BY <3>2, <3>4, <3>5, <3>6 DEF TlInv
    <2>4. CASE TlEnumerate \/ TlReturn
        <3>1. Len(<<>>) = 0 /\ <<>> \in Seq(TlElements) /\ (0 = Len(tlMembers) <=> Len(tlMembers) = 0)
            BY <2>0
        <3>2. tlHead = IF Len(tlMembers) = 0 THEN TlNil ELSE tlMembers[0 + 1]
            BY DEF TlInv, TlChain
        <3>3. TlWalkOK'
            <4>1. CASE TlEnumerate
                <5>1. tlSeen' = <<>> /\ tlAt' = tlHead /\ tlMembers' = tlMembers /\ tlLoop' = "loop"
                    BY <4>1 DEF TlEnumerate, tlLinks
                <5>2. tlSeen' \in Seq(TlElements) /\ Len(tlSeen') = 0
                    BY <3>1, <5>1
                <5>3. tlAt' = IF Len(tlSeen') = Len(tlMembers') THEN TlNil
                              ELSE tlMembers'[Len(tlSeen') + 1]
                    BY <2>0, <3>2, <5>1, <5>2
                <5> QED
                    BY <2>0, <5>1, <5>2, <5>3 DEF TlWalkOK
            <4>2. CASE TlReturn
                BY <3>1, <4>2 DEF TlWalkOK, TlReturn
            <4> QED
                BY <2>4, <4>1, <4>2
        <3> QED
            BY <2>4, <3>3 DEF TlInv, TlEnumerate, TlReturn, tlLinks
    <2>5. CASE TlVisit
        <3>1. /\ tlLoop = "loop" /\ tlAt # TlNil /\ tlSeen \in Seq(TlElements)
              /\ Len(tlSeen) \in Nat /\ Len(tlSeen) + 1 \in 1..Len(tlMembers)
              /\ tlAt = tlMembers[Len(tlSeen) + 1] /\ tlAt \in TlElements
            BY <2>0, <2>5, LenProperties DEF TlVisit, TlInv, TlWalkOK
        <3>2. /\ tlSeen' \in Seq(TlElements) /\ Len(tlSeen') = Len(tlSeen) + 1
              /\ tlSeen'[Len(tlSeen) + 1] = tlAt
              /\ \A i \in 1..Len(tlSeen) : tlSeen'[i] = tlSeen[i]
            BY <2>5, <3>1, AppendProperties DEF TlVisit
        <3>3. Len(tlSeen') <= Len(tlMembers) /\ \A i \in 1..Len(tlSeen') : tlSeen'[i] = tlMembers[i]
            BY <2>0, <3>1, <3>2 DEF TlInv, TlWalkOK
        <3>4. tlLoop' = "loop" =>
                 tlAt' = IF Len(tlSeen) + 1 = Len(tlMembers) THEN TlNil
                         ELSE tlMembers[Len(tlSeen) + 1 + 1]
            BY <2>5, <3>1 DEF TlVisit, TlInv, TlChain
        <3>5. TlWalkOK'
            BY <2>5, <3>2, <3>3, <3>4 DEF TlWalkOK, TlVisit, tlLinks
        <3> QED
            BY <2>5, <3>5 DEF TlInv, TlVisit, tlLinks
    <2>6. CASE UNCHANGED tlVars
        BY <2>6 DEF tlVars, tlLinks, tlWalk, TlInv, TlWalkOK
    <2> QED
        BY <2>1, <2>2, <2>3, <2>4, <2>5, <2>6 DEF TlNextStep
<1>3. TlInv => TlEnumerates
    <2> SUFFICES ASSUME TlInv PROVE TlEnumerates
        OBVIOUS
    <2>1. /\ Len(tlMembers) \in Nat /\ Len(tlSeen) \in Nat
          /\ \A i \in 1..Len(tlMembers) : tlMembers[i] # TlNil
        BY TlElementsOf DEF TlInv, TlWalkOK
    <2>2. Len(tlSeen) <= Len(tlMembers) /\ Len(tlSeen) # Len(tlMembers)
              => Len(tlSeen) + 1 \in 1..Len(tlMembers)
        BY <2>1
    <2> QED
        BY <2>1, <2>2 DEF TlInv, TlWalkOK, TlEnumerates
<1> QED
    BY <1>1, <1>2, <1>3, PTL DEF TlSpec

(***************************************************************************)
(* tinyproto::IPacket.  Every value put has its place in the buffer: where *)
(* it starts, the bytes it takes, and what they say.  A put writes behind  *)
(* the places there are, and a get reads the place of the value it is for. *)
(***************************************************************************)

PkWidth(item) ==
    CASE item.kind = "u8" -> 1
      [] item.kind = "u16" -> 2
      [] item.kind = "i16" -> 2
      [] item.kind = "u32" -> 4
      [] item.kind = "str" -> Len(item.val) + 1

PkLow(v) == v % 65536
PkHigh(v) == v \div 65536
PkWord(buf, p) == buf[p] + 256 * buf[p + 1]
PkStored(buf, p, item) ==
    CASE item.kind = "u8" -> buf[p] = item.val
      [] item.kind = "u16" -> PkWord(buf, p) = item.val
      [] item.kind = "i16" -> PkWord(buf, p) = PkLow(item.val)
      [] item.kind = "u32" -> PkWord(buf, p) = PkLow(item.val) /\ PkWord(buf, p + 2) = PkHigh(item.val)
      [] item.kind = "str" -> /\ \A k \in 1..Len(item.val) : buf[p + k - 1] = item.val[k]
                              /\ buf[p + Len(item.val)] = 0

PkItems == {x \in [kind : {"u8", "u16", "i16", "u32", "str"}, val : Int \cup Seq(PkChars)] : PkItem(x)}
PkGots == [kind : {"u8", "u16", "i16", "u32", "str"}, val : Int \cup Seq(Nat)]
PkBase ==
    /\ pkBuf \in [0..PkSize - 1 -> Nat]
    /\ pkOrder \in {"left", "right"} /\ pkLen \in 0..PkSize
PkTypes ==
    /\ PkBase
    /\ pkPut \in Seq(PkItems) /\ pkGot \in Seq(PkGots)
    /\ Len(pkGot) <= Len(pkPut)

\* Item i starts at pos[i], which nothing written later reaches.
PkPlace(put, buf, pos, i) ==
    /\ pos[i + 1] = pos[i] + PkWidth(put[i])
    /\ pos[i + 1] <= pkLen
    /\ PkStored(buf, pos[i], put[i])
PkPlaces(pos) ==
    /\ pos \in [1..Len(pkPut) + 1 -> Nat]
    /\ pos[1] = 0 /\ pos[Len(pkPut) + 1] = pkLen /\ pos[Len(pkGot) + 1] = pkP
    /\ \A i \in 1..Len(pkPut) : PkPlace(pkPut, pkBuf, pos, i)

\* What was read, except for a u32 whose halves were fetched in the wrong order.
PkReads ==
    \A i \in 1..Len(pkGot) : (pkOrder = "right" /\ pkPut[i].kind = "u32") \/ pkGot[i] = pkPut[i]

PkSound == PkTypes /\ PkReads /\ \E pos : PkPlaces(pos)
PkInv == PkBase /\ (pkLost \/ (PkSound /\ ~pkGone))

LEMMA PkItemCases ==
    ASSUME NEW item \in PkItems
    PROVE  /\ item = [kind |-> item.kind, val |-> item.val]
           /\ item.kind \in {"u8", "u16", "i16", "u32", "str"}
           /\ item.kind = "u8" => item.val \in Nat /\ item.val <= 255
           /\ item.kind = "u16" => item.val \in Nat /\ item.val <= 65535
           /\ item.kind = "i16" => item.val \in Int /\ -32768 <= item.val /\ item.val <= 32767
           /\ item.kind = "u32" => item.val \in Nat /\ item.val \div 65536 <= 65535
           /\ item.kind = "str" => item.val \in Seq(PkChars)
<1>1. PkItem(item)
  BY Zenon DEF PkItems
<1>2. /\ item.kind = "u8" => item.val \in Nat /\ item.val <= 255
      /\ item.kind = "u16" => item.val \in Nat /\ item.val <= 65535
      /\ item.kind = "i16" => item.val \in Int /\ -32768 <= item.val /\ item.val <= 32767
  BY <1>1, SMT DEF PkItem
<1>3. /\ item.kind = "u32" => item.val \in Nat /\ item.val \div 65536 <= 65535
      /\ item.kind = "str" => item.val \in Seq(PkChars)
  BY <1>1, SMT DEF PkItem
<1>4. item.kind \in {"u8", "u16", "i16", "u32", "str"}
  BY <1>1, SMT DEF PkItem
<1>5. item = [kind |-> item.kind, val |-> item.val]
  BY <1>1, SMT DEF PkItem
<1> QED BY <1>2, <1>3, <1>4, <1>5, SMT

LEMMA PkIsItem ==
    ASSUME NEW item, PkItem(item)
    PROVE  item \in PkItems
<1>1. item = [kind |-> item.kind, val |-> item.val] /\ item.kind \in {"u8", "u16", "i16", "u32", "str"}
  BY SMT DEF PkItem
<1>2. item.val \in Int \/ item.val \in Seq(PkChars)
  BY SMT DEF PkItem
<1>3. item.val \in Int \cup Seq(PkChars)
  BY <1>2, Zenon
<1>4. item \in [kind : {"u8", "u16", "i16", "u32", "str"}, val : Int \cup Seq(PkChars)]
  BY <1>1, <1>3, Zenon
<1> QED BY <1>4, Zenon DEF PkItems

LEMMA PkWidths ==
    ASSUME NEW item \in PkItems
    PROVE  PkWidth(item) \in Nat \ {0}
<1>1. CASE item.kind = "str"
  <2>1. PkWidth(item) = Len(item.val) + 1
    BY <1>1 DEF PkWidth
  <2>2. Len(item.val) \in Nat
    BY <1>1, PkItemCases, LenProperties
  <2> QED BY <2>1, <2>2
<1>2. CASE item.kind # "str"
  BY <1>2, PkItemCases DEF PkWidth
<1> QED BY <1>1, <1>2

\* A u16 in two bytes.
LEMMA PkHalves ==
    ASSUME NEW v \in Nat, v <= 65535
    PROVE  /\ v % 256 \in 0..255 /\ v \div 256 \in 0..255
           /\ (v % 256) + 256 * (v \div 256) = v
<1>1. (v % 256) + 256 * (v \div 256) = v
  BY SMT
<1>2. v % 256 \in 0..255 /\ v \div 256 \in Nat
  BY SMT
<1>3. v \div 256 <= 255
  BY SMT
<1> QED BY <1>1, <1>2, <1>3, SMT

\* A u32 in two words.
LEMMA PkLong ==
    ASSUME NEW v \in Nat
    PROVE  /\ v % 65536 \in Nat /\ v % 65536 <= 65535 /\ v \div 65536 \in Nat
           /\ (v % 65536) + 65536 * (v \div 65536) = v
BY SMT

\* An int16_t and back.
LEMMA PkSigned ==
    ASSUME NEW v \in Int, -32768 <= v, v <= 32767
    PROVE  /\ v % 65536 \in Nat /\ v % 65536 <= 65535
           /\ v % 65536 < 32768 => v % 65536 = v
           /\ ~(v % 65536 < 32768) => (v % 65536) - 65536 = v
<1>1. CASE v >= 0
  BY <1>1, SMT
<1>2. CASE v < 0
  BY <1>2, SMT
<1> QED BY <1>1, <1>2, SMT

\* What is written behind pkLen leaves the values before it.
LEMMA PkKept ==
    ASSUME NEW item \in PkItems, NEW p \in Nat, NEW len \in Nat, p + PkWidth(item) <= len,
           NEW buf, NEW new, \A i \in 0..len - 1 : new[i] = buf[i], PkStored(buf, p, item)
    PROVE  PkStored(new, p, item)
<1>1. CASE item.kind = "u8"
  <2> PkWidth(item) = 1
    BY <1>1 DEF PkWidth
  <2> p \in 0..len - 1
    OBVIOUS
  <2> QED BY <1>1 DEF PkStored
<1>2. CASE item.kind \in {"u16", "i16"}
  <2> PkWidth(item) = 2
    BY <1>2 DEF PkWidth
  <2> p \in 0..len - 1 /\ p + 1 \in 0..len - 1
    OBVIOUS
  <2>1. PkWord(new, p) = PkWord(buf, p)
    BY DEF PkWord
  <2>2. CASE item.kind = "u16"
    BY <2>1, <2>2 DEF PkStored
  <2>3. CASE item.kind = "i16"
    BY <2>1, <2>3, SMT DEF PkStored
  <2> QED BY <1>2, <2>2, <2>3
<1>3. CASE item.kind = "u32"
  <2> PkWidth(item) = 4
    BY <1>3 DEF PkWidth
  <2> p \in 0..len - 1 /\ p + 1 \in 0..len - 1 /\ p + 2 \in 0..len - 1 /\ (p + 2) + 1 \in 0..len - 1
    OBVIOUS
  <2> PkWord(new, p) = PkWord(buf, p) /\ PkWord(new, p + 2) = PkWord(buf, p + 2)
    BY DEF PkWord
  <2> QED BY <1>3 DEF PkStored
<1>4. CASE item.kind = "str"
  <2>1. item.val \in Seq(PkChars)
    BY <1>4, PkItemCases
  <2> PICK n \in Nat : n = Len(item.val)
    BY <2>1
  <2>2. p + n + 1 <= len
    <3> PkWidth(item) = n + 1
      BY <1>4 DEF PkWidth
    <3> QED OBVIOUS
  <2>3. p + n \in 0..len - 1
    BY <2>2
  <2>4. \A k \in 1..n : p + k - 1 \in 0..len - 1
    BY <2>2
  <2>5. (\A k \in 1..n : buf[p + k - 1] = item.val[k]) /\ buf[p + n] = 0
    BY <1>4 DEF PkStored
  <2>6. (\A k \in 1..n : new[p + k - 1] = item.val[k]) /\ new[p + n] = 0
    BY <2>3, <2>4, <2>5
  <2> QED BY <1>4, <2>6 DEF PkStored
<1> QED BY <1>1, <1>2, <1>3, <1>4, PkItemCases

\* Two halves of two bytes.
LEMMA PkPairs ==
    ASSUME NEW a \in Seq(Nat), NEW b \in Seq(Nat), Len(a) = 2, Len(b) = 2
    PROVE  /\ a \o b \in Seq(Nat) /\ Len(a \o b) = 4
           /\ (a \o b)[1] = a[1] /\ (a \o b)[2] = a[2] /\ (a \o b)[3] = b[1] /\ (a \o b)[4] = b[2]
<1>1. /\ a \o b \in Seq(Nat) /\ Len(a \o b) = Len(a) + Len(b)
      /\ \A i \in 1..Len(a) + Len(b) : (a \o b)[i] = IF i <= Len(a) THEN a[i] ELSE b[i - Len(a)]
  BY ConcatProperties
<1>2. \A i \in 1..4 : (a \o b)[i] = IF i <= 2 THEN a[i] ELSE b[i - 2]
  BY <1>1
<1> QED BY <1>1, <1>2

\* The bytes of a number.
LEMMA PkEncoded ==
    ASSUME NEW item \in PkItems, item.kind # "str"
    PROVE  /\ PkEncode(item) \in Seq(Nat) /\ Len(PkEncode(item)) = PkWidth(item)
           /\ \A p \in Nat : \A buf :
                (\A k \in 1..PkWidth(item) : buf[p + k - 1] = PkEncode(item)[k]) => PkStored(buf, p, item)
<1> USE PkItemCases
<1>1. ASSUME NEW v \in Nat, v <= 65535
      PROVE  PkBytes16(v) \in Seq(Nat) /\ Len(PkBytes16(v)) = 2
             /\ PkBytes16(v)[1] + 256 * PkBytes16(v)[2] = v
  BY ONLY <1>1, PkHalves, SMT DEF PkBytes16
<1>2. ASSUME NEW p \in Nat, NEW buf, NEW v \in Nat, v <= 65535, buf[p] = PkBytes16(v)[1], buf[p + 1] = PkBytes16(v)[2]
      PROVE  PkWord(buf, p) = v
  BY ONLY <1>1, <1>2, SMT DEF PkWord
<1>3. CASE item.kind = "u8"
  <2>1. PkWidth(item) = 1 /\ PkEncode(item) = <<item.val>> /\ item.val \in Nat
    BY <1>3 DEF PkWidth, PkEncode
  <2>2. ASSUME NEW p \in Nat, NEW buf, \A k \in 1..PkWidth(item) : buf[p + k - 1] = PkEncode(item)[k]
        PROVE  PkStored(buf, p, item)
    <3>1. buf[p + 1 - 1] = item.val
      BY <2>1, <2>2
    <3>2. p + 1 - 1 = p
      OBVIOUS
    <3> QED BY <1>3, <3>1, <3>2 DEF PkStored
  <2> QED BY <2>1, <2>2
<1>4. ASSUME NEW v \in Nat, v <= 65535, PkWidth(item) = 2, PkEncode(item) = PkBytes16(v),
             \A p \in Nat : \A buf : PkWord(buf, p) = v => PkStored(buf, p, item)
      PROVE  /\ PkEncode(item) \in Seq(Nat) /\ Len(PkEncode(item)) = PkWidth(item)
             /\ \A p \in Nat : \A buf :
                  (\A k \in 1..PkWidth(item) : buf[p + k - 1] = PkEncode(item)[k]) => PkStored(buf, p, item)
  <2>1. PkEncode(item) \in Seq(Nat) /\ Len(PkEncode(item)) = PkWidth(item)
    BY ONLY <1>1, <1>4
  <2>2. ASSUME NEW p \in Nat, NEW buf, \A k \in 1..PkWidth(item) : buf[p + k - 1] = PkEncode(item)[k]
        PROVE  PkStored(buf, p, item)
    <3>1. buf[p + 1 - 1] = PkBytes16(v)[1] /\ buf[p + 2 - 1] = PkBytes16(v)[2]
      BY ONLY <1>4, <2>2
    <3>2. p + 1 - 1 = p /\ p + 2 - 1 = p + 1
      OBVIOUS
    <3>3. buf[p] = PkBytes16(v)[1] /\ buf[p + 1] = PkBytes16(v)[2]
      BY ONLY <3>1, <3>2
    <3>4. PkWord(buf, p) = v
      BY ONLY <1>2, <1>4, <3>3
    <3> QED BY ONLY <1>4, <3>4
  <2> QED BY ONLY <2>1, <2>2
<1>5. CASE item.kind = "u16"
  <2>1. PkWidth(item) = 2 /\ PkEncode(item) = PkBytes16(item.val)
    BY <1>5 DEF PkWidth, PkEncode
  <2>2. \A p \in Nat : \A buf : PkWord(buf, p) = item.val => PkStored(buf, p, item)
    BY <1>5 DEF PkStored
  <2>3. item.val \in Nat /\ item.val <= 65535
    BY <1>5
  <2> QED BY ONLY <1>4, <2>1, <2>2, <2>3
<1>6. CASE item.kind = "i16"
  <2>1. PkWidth(item) = 2 /\ PkEncode(item) = PkBytes16(item.val % 65536)
    BY <1>6, SMT DEF PkWidth, PkEncode
  <2>2. \A p \in Nat : \A buf : PkWord(buf, p) = item.val % 65536 => PkStored(buf, p, item)
    BY <1>6, SMT DEF PkStored, PkLow
  <2>3. item.val % 65536 \in Nat /\ item.val % 65536 <= 65535
    BY <1>6, PkSigned
  <2> QED BY ONLY <1>4, <2>1, <2>2, <2>3
<1>7. CASE item.kind = "u32"
  <2> PICK lo \in Nat : lo = item.val % 65536 /\ lo <= 65535
    BY <1>7, PkLong
  <2> PICK hi \in Nat : hi = item.val \div 65536 /\ hi <= 65535
    BY <1>7, PkLong
  <2>1. PkWidth(item) = 4 /\ PkEncode(item) = PkBytes16(lo) \o PkBytes16(hi)
    BY <1>7, SMT DEF PkWidth, PkEncode
  <2>2. PkBytes16(lo) \in Seq(Nat) /\ Len(PkBytes16(lo)) = 2 /\ PkBytes16(hi) \in Seq(Nat) /\ Len(PkBytes16(hi)) = 2
    BY ONLY <1>1, lo <= 65535, hi <= 65535
  <2>3. /\ PkEncode(item) \in Seq(Nat) /\ Len(PkEncode(item)) = 4
        /\ PkEncode(item)[1] = PkBytes16(lo)[1] /\ PkEncode(item)[2] = PkBytes16(lo)[2]
        /\ PkEncode(item)[3] = PkBytes16(hi)[1] /\ PkEncode(item)[4] = PkBytes16(hi)[2]
    <3> QED BY ONLY <2>1, <2>2, PkPairs
  <2>4. ASSUME NEW p \in Nat, NEW buf, \A k \in 1..PkWidth(item) : buf[p + k - 1] = PkEncode(item)[k]
        PROVE  PkStored(buf, p, item)
    <3>1. /\ buf[p + 1 - 1] = PkBytes16(lo)[1] /\ buf[p + 2 - 1] = PkBytes16(lo)[2]
          /\ buf[p + 3 - 1] = PkBytes16(hi)[1] /\ buf[p + 4 - 1] = PkBytes16(hi)[2]
      <4>1. 1 \in 1..4 /\ 2 \in 1..4 /\ 3 \in 1..4 /\ 4 \in 1..4
        OBVIOUS
      <4>2. \A k \in 1..4 : buf[p + k - 1] = PkEncode(item)[k]
        BY ONLY <2>1, <2>4, Zenon
      <4>3. buf[p + 1 - 1] = PkEncode(item)[1] /\ buf[p + 2 - 1] = PkEncode(item)[2]
            /\ buf[p + 3 - 1] = PkEncode(item)[3] /\ buf[p + 4 - 1] = PkEncode(item)[4]
        BY ONLY <4>1, <4>2, Zenon
      <4> QED BY ONLY <4>3, <2>3, Zenon
    <3>2. p + 1 - 1 = p /\ p + 2 - 1 = p + 1 /\ p + 3 - 1 = p + 2 /\ p + 4 - 1 = (p + 2) + 1 /\ p + 2 \in Nat
      OBVIOUS
    <3>3. /\ buf[p] = PkBytes16(lo)[1] /\ buf[p + 1] = PkBytes16(lo)[2]
          /\ buf[p + 2] = PkBytes16(hi)[1] /\ buf[(p + 2) + 1] = PkBytes16(hi)[2]
      BY ONLY <3>1, <3>2
    <3>4. PkWord(buf, p) = lo /\ PkWord(buf, p + 2) = hi
      BY ONLY <1>2, lo <= 65535, hi <= 65535, <3>2, <3>3
    <3> QED BY <1>7, <3>4, SMT DEF PkStored, PkLow, PkHigh
  <2> QED BY ONLY <2>1, <2>3, <2>4
<1> QED BY <1>3, <1>5, <1>6, <1>7

\* Bytes written behind what is there.
LEMMA PkWritten ==
    ASSUME PkBase, NEW bytes \in Seq(Nat), pkLen + Len(bytes) <= PkSize
    PROVE  /\ PkWrite(bytes) \in [0..PkSize - 1 -> Nat]
           /\ \A i \in 0..pkLen - 1 : PkWrite(bytes)[i] = pkBuf[i]
           /\ \A k \in 1..Len(bytes) : PkWrite(bytes)[pkLen + k - 1] = bytes[k]
<1> PkSize \in Nat
  BY PkAssumption
<1> PICK n \in Nat : n = Len(bytes)
  OBVIOUS
<1>0. pkBuf \in [0..PkSize - 1 -> Nat] /\ pkLen \in 0..PkSize
  BY DEF PkBase
<1>1. \A i \in 0..PkSize - 1 : PkWrite(bytes)[i] =
        IF i \in pkLen..pkLen + n - 1 THEN bytes[i - pkLen + 1] ELSE pkBuf[i]
  BY DEF PkWrite
<1>2. \A i \in 0..PkSize - 1 : i \in pkLen..pkLen + n - 1 => i - pkLen + 1 \in 1..n
  BY <1>0
<1>3. \A k \in 1..n : bytes[k] \in Nat
  OBVIOUS
<1>4. \A i \in 0..PkSize - 1 : PkWrite(bytes)[i] \in Nat
  BY <1>0, <1>1, <1>2, <1>3
<1>5. PkWrite(bytes) \in [0..PkSize - 1 -> Nat]
  <2>1. PkWrite(bytes) = [i \in 0..PkSize - 1 |-> PkWrite(bytes)[i]]
    BY DEF PkWrite
  <2> QED BY ONLY <1>4, <2>1
<1>6. \A i \in 0..pkLen - 1 : i \in 0..PkSize - 1 /\ i \notin pkLen..pkLen + n - 1
  BY <1>0
<1>7. ASSUME NEW k \in 1..n PROVE PkWrite(bytes)[pkLen + k - 1] = bytes[k]
  <2>1. pkLen + k - 1 \in 0..PkSize - 1 /\ pkLen + k - 1 \in pkLen..pkLen + n - 1 /\ (pkLen + k - 1) - pkLen + 1 = k
    BY <1>0
  <2> QED BY <1>1, <2>1
<1> QED BY <1>1, <1>5, <1>6, <1>7

\* A put: the value takes its place behind the others.
LEMMA PkAppended ==
    ASSUME PkTypes, PkReads, NEW pos, PkPlaces(pos), NEW item \in PkItems,
           pkLen + PkWidth(item) <= PkSize, pkLen' = pkLen + PkWidth(item),
           pkBuf' \in [0..PkSize - 1 -> Nat], \A i \in 0..pkLen - 1 : pkBuf'[i] = pkBuf[i],
           PkStored(pkBuf', pkLen, item), pkPut' = Append(pkPut, item),
           UNCHANGED <<pkOrder, pkP, pkGot>>
    PROVE  PkSound'
<1> PkSize \in Nat
  BY PkAssumption
<1>0. pkLen \in 0..PkSize /\ pkPut \in Seq(PkItems) /\ pkGot \in Seq(PkGots)
      /\ Len(pkGot) <= Len(pkPut)
  BY DEF PkTypes, PkBase
<1> PICK n \in Nat : n = Len(pkPut)
  BY <1>0
<1> PICK g \in Nat : g = Len(pkGot)
  BY <1>0
<1> PICK w \in Nat : w = PkWidth(item)
  BY PkWidths
<1>1. pkPut' \in Seq(PkItems) /\ Len(pkPut') = n + 1 /\ pkPut'[n + 1] = item
      /\ \A i \in 1..n : pkPut'[i] = pkPut[i]
  BY <1>0
<1>2. PkTypes'
  <2>1. pkLen' \in 0..PkSize
    BY <1>0
  <2>2. Len(pkGot') <= Len(pkPut')
    BY <1>0, <1>1
  <2> QED BY <1>0, <1>1, <2>1, <2>2 DEF PkTypes, PkBase
<1>3. PkReads'
  <2>1. \A i \in 1..g : i \in 1..n
    BY <1>0
  <2> QED BY <1>1, <2>1 DEF PkReads
<1> PICK new : new = [i \in 1..n + 2 |-> IF i = n + 2 THEN pkLen + w ELSE pos[i]]
  OBVIOUS
<1>4. /\ pos \in [1..n + 1 -> Nat] /\ pos[1] = 0 /\ pos[n + 1] = pkLen /\ pos[g + 1] = pkP
      /\ \A i \in 1..n : PkPlace(pkPut, pkBuf, pos, i)
  BY DEF PkPlaces
<1>5. new \in [1..(n + 1) + 1 -> Nat] /\ new[(n + 1) + 1] = pkLen + w
      /\ \A i \in 1..n + 1 : new[i] = pos[i]
  <2> DEFINE New(i) == IF i = n + 2 THEN pkLen + w ELSE pos[i]
  <2>1. (n + 1) + 1 = n + 2 /\ n + 2 \in 1..n + 2 /\ \A i \in 1..n + 1 : i \in 1..n + 2 /\ i # n + 2
    BY ONLY n \in Nat
  <2>2. pkLen + w \in Nat
    BY ONLY <1>0, w \in Nat, PkSize \in Nat
  <2>3. \A i \in 1..n + 2 : i = n + 2 \/ i \in 1..n + 1
    BY ONLY n \in Nat
  <2>4. \A i \in 1..n + 2 : New(i) \in Nat
    BY ONLY <1>4, <2>2, <2>3
  <2>5. New(n + 2) = pkLen + w /\ \A i \in 1..n + 1 : New(i) = pos[i]
    BY ONLY <2>1
  <2> HIDE DEF New
  <2>6. new = [i \in 1..n + 2 |-> New(i)]
    BY DEF New
  <2> QED BY ONLY <2>1, <2>4, <2>5, <2>6
<1>6. new[1] = 0 /\ new[g + 1] = pkP
  <2>1. 1 \in 1..n + 1 /\ g + 1 \in 1..n + 1
    BY <1>0
  <2> QED BY <1>4, <1>5, <2>1
<1>7. ASSUME NEW i \in 1..n + 1 PROVE PkPlace(pkPut, pkBuf, new, i)'
  <2>1. CASE i = n + 1
    <3>1. new[i] = pkLen /\ new[i + 1] = pkLen + w
      BY <1>4, <1>5, <2>1
    <3>2. pkPut'[i] = item /\ pkLen + w <= pkLen'
      BY <1>0, <1>1, <2>1
    <3> QED BY <3>1, <3>2 DEF PkPlace
  <2>2. CASE i \in 1..n
    <3>1. PkPlace(pkPut, pkBuf, pos, i)
      BY <1>4, <2>2
    <3>2. new[i] = pos[i] /\ new[i + 1] = pos[i + 1] /\ pos[i] \in Nat /\ pos[i + 1] \in Nat
      <4>1. i \in 1..n + 1 /\ i + 1 \in 1..n + 1
        BY <2>2
      <4> QED BY <1>4, <1>5, <4>1
    <3>3. pkPut'[i] = pkPut[i] /\ pkPut[i] \in PkItems
      BY <1>0, <1>1, <2>2
    <3>4. PkWidth(pkPut[i]) \in Nat
      BY <3>3, PkWidths
    <3>5. pos[i + 1] = pos[i] + PkWidth(pkPut[i]) /\ pos[i + 1] <= pkLen /\ PkStored(pkBuf, pos[i], pkPut[i])
      BY <3>1 DEF PkPlace
    <3>6. pos[i] + PkWidth(pkPut[i]) <= pkLen /\ pkLen \in Nat
      BY <1>0, <3>5
    <3>7. PkStored(pkBuf', pos[i], pkPut[i])
      BY ONLY <3>2, <3>3, <3>5, <3>6, PkKept, \A j \in 0..pkLen - 1 : pkBuf'[j] = pkBuf[j]
    <3>8. pos[i + 1] <= pkLen'
      BY <1>0, <3>2, <3>5
    <3>9. /\ new[i + 1] = new[i] + PkWidth(pkPut'[i]) /\ new[i + 1] <= pkLen'
          /\ PkStored(pkBuf', new[i], pkPut'[i])
      <4>1. pos[i + 1] = pos[i] + PkWidth(pkPut[i])
        BY ONLY <3>5
      <4> QED BY ONLY <3>2, <3>3, <3>7, <3>8, <4>1, Zenon
    <3> QED BY ONLY <3>9, Zenon DEF PkPlace
  <2>3. i = n + 1 \/ i \in 1..n
    BY ONLY n \in Nat, i \in 1..n + 1
  <2> QED BY ONLY <2>1, <2>2, <2>3, Zenon
<1>8. PkPlaces(new)'
  <2>1. Len(pkPut)' = n + 1 /\ Len(pkGot)' = g
    BY <1>1
  <2> QED BY <1>5, <1>6, <1>7, <2>1 DEF PkPlaces
<1> QED BY <1>2, <1>3, <1>8 DEF PkSound

LEMMA PkPutNumberStep ==
    ASSUME PkBase, NEW item \in PkValues, PkPutNumber(item)
    PROVE  PkBase' /\ (PkSound => PkSound')
<1> PkSize \in Nat
  BY PkAssumption
<1>2. item \in PkItems
  BY PkAssumption, PkIsItem
<1> PICK bytes : bytes = PkEncode(item)
  OBVIOUS
<1>3. /\ item.kind # "str" /\ Len(bytes) <= PkSize - pkLen /\ pkBuf' = PkWrite(bytes)
      /\ pkLen' = pkLen + Len(bytes) /\ pkPut' = Append(pkPut, item)
      /\ UNCHANGED <<pkOrder, pkP, pkGot>>
  BY DEF PkPutNumber
<1>4. /\ bytes \in Seq(Nat) /\ Len(bytes) = PkWidth(item)
      /\ \A p \in Nat : \A buf :
           (\A k \in 1..Len(bytes) : buf[p + k - 1] = bytes[k]) => PkStored(buf, p, item)
  BY <1>2, <1>3, PkEncoded
<1>5. pkLen \in Nat /\ pkLen + Len(bytes) <= PkSize
  <2>1. pkLen \in 0..PkSize
    BY DEF PkBase
  <2>2. Len(bytes) \in Nat
    BY <1>4
  <2> QED BY <1>3, <2>1, <2>2
<1>6. /\ pkBuf' \in [0..PkSize - 1 -> Nat] /\ \A i \in 0..pkLen - 1 : pkBuf'[i] = pkBuf[i]
      /\ \A k \in 1..Len(bytes) : pkBuf'[pkLen + k - 1] = bytes[k]
  BY <1>3, <1>4, <1>5, PkWritten
<1>7. PkStored(pkBuf', pkLen, item)
  BY ONLY <1>4, <1>5, <1>6
<1>8. PkBase'
  <2>1. pkLen' \in 0..PkSize
    <3>1. Len(bytes) \in Nat
      BY ONLY <1>4
    <3> QED BY ONLY <1>3, <1>5, <3>1, PkSize \in Nat
  <2> QED BY ONLY <1>3, <1>6, <2>1, PkBase DEF PkBase
<1>9. ASSUME PkSound PROVE PkSound'
  <2> PICK pos : PkPlaces(pos)
    BY <1>9 DEF PkSound
  <2>1. PkTypes /\ PkReads
    BY <1>9 DEF PkSound
  <2> QED BY ONLY <1>2, <1>3, <1>4, <1>5, <1>6, <1>7, <2>1, PkPlaces(pos), PkAppended
<1> QED BY <1>8, <1>9

LEMMA PkCharsBytes == \A c \in PkChars : c \in Nat /\ c # 0
BY DEF PkChars

LEMMA PkPutStringStep ==
    ASSUME PkBase, NEW item \in PkValues, PkPutString(item)
    PROVE  PkBase' /\ (PkSound => PkSound')
<1> PkSize \in Nat
  BY PkAssumption
<1>1. PkBase
  OBVIOUS
<1>2. item.kind = "str" /\ PkSize - pkLen > 1
  <2>1. item.kind = "str" /\ PkSize - pkLen - 1 > 0
    BY DEF PkPutString, PkRoom
  <2>2. pkLen \in Nat
    BY DEF PkBase
  <2> QED BY <2>1, <2>2
<1>3. item.val \in Seq(PkChars)
  BY <1>2, PkAssumption, PkIsItem, PkItemCases
<1>4. pkLen \in Nat /\ pkBuf \in [0..PkSize - 1 -> Nat]
  BY <1>1 DEF PkBase
<1> PICK room \in Nat : room = PkRoom /\ pkLen + room + 1 = PkSize
  BY <1>2, <1>4 DEF PkRoom
<1> PICK len \in Nat : len = Len(item.val)
  BY <1>3
<1> PICK n \in Nat : n = (IF len < room THEN len ELSE room) /\ n <= len /\ n <= room
  OBVIOUS
<1> PICK kept : kept = SubSeq(item.val, 1, n)
  OBVIOUS
<1>5. kept \in Seq(PkChars) /\ Len(kept) = n
  BY <1>3, SubSeqProperties
<1>6. kept \in Seq(Nat)
  <2>1. \A k \in 1..n : kept[k] \in Nat
    BY ONLY <1>5, PkCharsBytes
  <2>2. kept = [k \in 1..n |-> kept[k]]
    BY <1>5
  <2> QED BY ONLY <2>1, <2>2, n \in Nat
<1> PICK zeros : zeros = [i \in 1..room - n |-> 0]
  OBVIOUS
<1>7. zeros \in Seq(Nat) /\ Len(zeros) = room - n
  <2>1. room - n \in Nat
    OBVIOUS
  <2> QED BY <2>1
<1> PICK bytes : bytes = kept \o zeros
  OBVIOUS
<1>8. bytes \in Seq(Nat) /\ Len(bytes) = room /\ \A k \in 1..n : bytes[k] = kept[k]
  <2>1. /\ bytes \in Seq(Nat) /\ Len(bytes) = Len(kept) + Len(zeros)
        /\ \A i \in 1..Len(kept) + Len(zeros) : bytes[i] = IF i <= Len(kept) THEN kept[i] ELSE zeros[i - Len(kept)]
    BY ONLY <1>6, <1>7, bytes = kept \o zeros, ConcatProperties
  <2>2. Len(kept) + Len(zeros) = room
    BY <1>5, <1>7
  <2>3. Len(bytes) = room /\ \A i \in 1..room : i <= n => bytes[i] = kept[i]
    BY ONLY <1>5, <2>1, <2>2, n \in Nat, room \in Nat
  <2>4. \A k \in 1..n : k \in 1..room /\ k <= n
    BY ONLY n \in Nat, room \in Nat, n <= room
  <2> QED BY ONLY <2>1, <2>3, <2>4
<1> PICK put : put = [kind |-> "str", val |-> kept]
  OBVIOUS
<1>9. put \in PkItems /\ put.kind = "str" /\ put.val = kept /\ PkWidth(put) = n + 1
  <2>1. put.kind = "str" /\ put.val = kept /\ put = [kind |-> put.kind, val |-> put.val]
    OBVIOUS
  <2>2. PkItem(put)
    BY <1>5, <2>1, SMT DEF PkItem
  <2>3. PkWidth(put) = n + 1
    BY <1>5, <2>1 DEF PkWidth
  <2> QED BY <2>1, <2>2, <2>3, PkIsItem
<1>10. /\ pkBuf' = [PkWrite(bytes) EXCEPT ![pkLen + n] = 0]
       /\ pkLen' = pkLen + n + 1 /\ pkPut' = Append(pkPut, put) /\ UNCHANGED <<pkOrder, pkP, pkGot>>
  BY <1>5 DEF PkPutString
<1>11. /\ PkWrite(bytes) \in [0..PkSize - 1 -> Nat] /\ \A i \in 0..pkLen - 1 : PkWrite(bytes)[i] = pkBuf[i]
       /\ \A k \in 1..room : PkWrite(bytes)[pkLen + k - 1] = bytes[k]
  <2>1. pkLen + Len(bytes) <= PkSize
    BY <1>4, <1>8
  <2>2. Len(bytes) = room
    BY <1>8
  <2>3. /\ PkWrite(bytes) \in [0..PkSize - 1 -> Nat] /\ \A i \in 0..pkLen - 1 : PkWrite(bytes)[i] = pkBuf[i]
        /\ \A k \in 1..Len(bytes) : PkWrite(bytes)[pkLen + k - 1] = bytes[k]
    BY ONLY <1>1, <1>8, <2>1, PkWritten
  <2> QED BY ONLY <2>2, <2>3
<1>12. pkBuf' \in [0..PkSize - 1 -> Nat] /\ pkBuf'[pkLen + n] = 0
       /\ \A i \in 0..PkSize - 1 : i # pkLen + n => pkBuf'[i] = PkWrite(bytes)[i]
  <2>1. pkLen + n \in 0..PkSize - 1
    BY ONLY <1>4, n \in Nat, room \in Nat, n <= room, pkLen + room + 1 = PkSize
  <2> QED BY ONLY <1>10, <1>11, <2>1
<1>13. \A i \in 0..pkLen - 1 : pkBuf'[i] = pkBuf[i]
  <2>1. \A i \in 0..pkLen - 1 : i \in 0..PkSize - 1 /\ i # pkLen + n
    BY <1>4
  <2> QED BY ONLY <1>11, <1>12, <2>1
<1>14. \A k \in 1..n : pkBuf'[pkLen + k - 1] = kept[k]
  <2>1. \A k \in 1..n : pkLen + k - 1 \in 0..PkSize - 1 /\ pkLen + k - 1 # pkLen + n /\ k \in 1..room
    BY <1>4
  <2> QED BY ONLY <1>8, <1>11, <1>12, <2>1
<1>15. PkStored(pkBuf', pkLen, put)
  <2>1. Len(put.val) = n /\ put.val = kept /\ put.kind = "str"
    BY <1>5, <1>9
  <2>2. (\A k \in 1..Len(put.val) : pkBuf'[pkLen + k - 1] = put.val[k]) /\ pkBuf'[pkLen + Len(put.val)] = 0
    BY ONLY <1>12, <1>14, <2>1
  <2> QED BY ONLY <2>1, <2>2 DEF PkStored
<1>16. pkLen' = pkLen + PkWidth(put) /\ pkLen + PkWidth(put) <= PkSize
  <2>1. PkWidth(put) = n + 1 /\ pkLen' = pkLen + n + 1
    BY <1>9, <1>10
  <2> QED BY ONLY <1>4, <2>1, n \in Nat, room \in Nat, n <= room, pkLen + room + 1 = PkSize
<1>17. PkBase'
  <2>1. pkLen' \in 0..PkSize
    BY ONLY <1>4, <1>10, n \in Nat, room \in Nat, n <= room, pkLen + room + 1 = PkSize, PkSize \in Nat
  <2> QED BY ONLY <1>1, <1>10, <1>12, <2>1 DEF PkBase
<1>18. ASSUME PkSound PROVE PkSound'
  <2> PICK pos : PkPlaces(pos)
    BY <1>18 DEF PkSound
  <2>1. PkTypes /\ PkReads
    BY <1>18 DEF PkSound
  <2> QED BY ONLY <2>1, <1>9, <1>10, <1>12, <1>13, <1>15, <1>16, PkPlaces(pos), PkAppended
<1> QED BY <1>17, <1>18

\* strlen finds the terminator of the string stored at pkP.
LEMMA PkStrlenFinds ==
    ASSUME PkTypes, pkP \in Nat, NEW item \in PkItems, item.kind = "str",
           PkStored(pkBuf, pkP, item), pkP + PkWidth(item) <= pkLen
    PROVE  PkStrlen = Len(item.val)
<1> PkSize \in Nat
  BY PkAssumption
<1>1. item.val \in Seq(PkChars)
  BY PkItemCases
<1> PICK n \in Nat : n = Len(item.val)
  BY <1>1
<1>2. pkLen \in Nat /\ pkLen <= PkSize
  BY DEF PkTypes, PkBase
<1>3. pkP + n + 1 <= PkSize
  <2>1. PkWidth(item) = n + 1
    BY DEF PkWidth
  <2> QED BY <1>2, <2>1
<1>4. (\A k \in 1..n : pkBuf[pkP + k - 1] = item.val[k]) /\ pkBuf[pkP + n] = 0
  BY DEF PkStored
<1>5. \A k \in 0..n - 1 : pkBuf[pkP + k] # 0
  <2> TAKE k \in 0..n - 1
  <2>1. k + 1 \in 1..n /\ pkP + (k + 1) - 1 = pkP + k
    OBVIOUS
  <2>2. item.val[k + 1] # 0
    <3>1. item.val[k + 1] \in PkChars
      BY ONLY <1>1, <2>1, n = Len(item.val)
    <3> QED BY ONLY <3>1, PkCharsBytes
  <2> QED BY <1>4, <2>1, <2>2
<1> DEFINE Ends(m) == /\ \A k \in 0..m - 1 : pkBuf[pkP + k] # 0
                      /\ pkP + m < PkSize => pkBuf[pkP + m] = 0
<1>6. n \in 0..PkSize - pkP /\ Ends(n)
  BY <1>3, <1>4, <1>5
<1>7. ASSUME NEW m \in 0..PkSize - pkP, Ends(m) PROVE m = n
  <2>1. CASE m < n
    <3>1. m \in 0..n - 1 /\ pkP + m < PkSize
      BY <1>3, <2>1
    <3> QED BY <1>5, <1>7, <3>1
  <2>2. CASE n < m
    <3>1. n \in 0..m - 1
      BY <2>2
    <3> QED BY <1>4, <1>7, <3>1
  <2> QED BY <2>1, <2>2
<1>8. PkStrlen = CHOOSE m \in 0..PkSize - pkP : Ends(m)
  BY DEF PkStrlen
<1> HIDE DEF Ends
<1> QED BY <1>6, <1>7, <1>8

\* What a get returns, and how far it goes.
LEMMA PkDecoded ==
    ASSUME PkTypes, pkP \in Nat, NEW item \in PkItems,
           PkStored(pkBuf, pkP, item), pkP + PkWidth(item) <= pkLen
    PROVE  /\ PkSpan(item.kind) = PkWidth(item)
           /\ [kind |-> item.kind, val |-> PkDecode(item.kind)] \in PkGots
           /\ \/ pkOrder = "right" /\ item.kind = "u32"
              \/ [kind |-> item.kind, val |-> PkDecode(item.kind)] = item
<1> PkSize \in Nat
  BY PkAssumption
<1> PICK w \in Nat : w = PkWidth(item) /\ w > 0
  BY PkWidths
<1>0. pkLen \in Nat /\ pkLen <= PkSize /\ pkBuf \in [0..PkSize - 1 -> Nat]
  BY DEF PkTypes, PkBase
<1>1. \A k \in 0..w - 1 : pkBuf[pkP + k] \in Nat
  <2>1. \A k \in 0..w - 1 : pkP + k \in 0..PkSize - 1
    BY <1>0
  <2> QED BY ONLY <1>0, <2>1
<1>2. item = [kind |-> item.kind, val |-> item.val] /\ item.kind \in {"u8", "u16", "i16", "u32", "str"}
  BY PkItemCases
<1> DEFINE Good(v) == v \in Int \cup Seq(Nat)
<1>3. ASSUME NEW v, PkDecode(item.kind) = v, PkSpan(item.kind) = PkWidth(item), Good(v),
             (pkOrder = "right" /\ item.kind = "u32") \/ v = item.val
      PROVE  /\ PkSpan(item.kind) = PkWidth(item)
             /\ [kind |-> item.kind, val |-> PkDecode(item.kind)] \in PkGots
             /\ \/ pkOrder = "right" /\ item.kind = "u32"
                \/ [kind |-> item.kind, val |-> PkDecode(item.kind)] = item
  <2>2. [kind |-> item.kind, val |-> v] \in PkGots
    BY ONLY <1>2, <1>3, Zenon DEF PkGots
  <2> QED BY ONLY <1>2, <1>3, <2>2
<1> HIDE DEF Good
<1>4. ASSUME NEW v \in Int PROVE Good(v)
  BY Zenon DEF Good
<1>5. CASE item.kind = "u8"
  <2>1. PkWidth(item) = 1 /\ pkBuf[pkP] = item.val /\ PkDecode(item.kind) = pkBuf[pkP] /\ PkSpan(item.kind) = 1
    BY <1>5, SMT DEF PkWidth, PkStored, PkDecode, PkSpan
  <2>2. item.val \in Int
    BY <1>5, PkItemCases, SMT
  <2> QED BY ONLY <1>3, <1>4, <2>1, <2>2
<1>6. CASE item.kind = "u16"
  <2>1. PkWidth(item) = 2 /\ PkWord(pkBuf, pkP) = item.val /\ PkDecode(item.kind) = PkGet16(pkP) /\ PkSpan(item.kind) = 2
    BY <1>6, SMT DEF PkWidth, PkStored, PkDecode, PkSpan
  <2>2. item.val \in Int
    BY <1>6, PkItemCases, SMT
  <2>3. PkGet16(pkP) = item.val
    BY ONLY <2>1 DEF PkGet16, PkWord
  <2> QED BY ONLY <1>3, <1>4, <2>1, <2>2, <2>3
<1>7. CASE item.kind = "i16"
  <2>1. PkWidth(item) = 2 /\ PkWord(pkBuf, pkP) = PkLow(item.val)
    BY <1>7, SMT DEF PkWidth, PkStored
  <2>2. PkDecode(item.kind) = (IF PkGet16(pkP) < 32768 THEN PkGet16(pkP) ELSE PkGet16(pkP) - 65536) /\ PkSpan(item.kind) = 2
    BY <1>7, SMT DEF PkDecode, PkSpan
  <2>3. item.val \in Int /\ -32768 <= item.val /\ item.val <= 32767
    BY <1>7, PkItemCases, SMT
  <2>4. PkGet16(pkP) = item.val % 65536
    BY ONLY <2>1, SMT DEF PkGet16, PkWord, PkLow
  <2>5. PkDecode(item.kind) = item.val /\ PkSpan(item.kind) = 2
    <3>1. /\ item.val % 65536 < 32768 => item.val % 65536 = item.val
          /\ ~(item.val % 65536 < 32768) => (item.val % 65536) - 65536 = item.val
      BY ONLY <2>3, PkSigned, SMT
    <3> QED BY ONLY <2>2, <2>4, <3>1, SMT
  <2> QED BY ONLY <1>3, <1>4, <2>1, <2>3, <2>5, SMT
<1>8. CASE item.kind = "u32"
  <2>1. PkWidth(item) = 4 /\ PkWord(pkBuf, pkP) = PkLow(item.val) /\ PkWord(pkBuf, pkP + 2) = PkHigh(item.val)
    BY <1>8, SMT DEF PkWidth, PkStored
  <2>2. PkGet16(pkP) = item.val % 65536 /\ PkGet16(pkP + 2) = item.val \div 65536
    BY ONLY <2>1, SMT DEF PkGet16, PkWord, PkLow, PkHigh
  <2> PICK lo \in Nat : lo = item.val % 65536
    BY <1>8, PkItemCases, PkLong, SMT
  <2> PICK hi \in Nat : hi = item.val \div 65536
    BY <1>8, PkItemCases, PkLong, SMT
  <2>3. lo + 65536 * hi = item.val
    BY <1>8, PkItemCases, PkLong, SMT
  <2>4. CASE pkOrder = "left"
    <3>1. PkDecode(item.kind) = PkGet16(pkP) + 65536 * PkGet16(pkP + 2) /\ PkSpan(item.kind) = 4
      BY <1>8, <2>4, SMT DEF PkDecode, PkSpan
    <3>2. PkDecode(item.kind) = item.val /\ PkSpan(item.kind) = 4 /\ item.val \in Int
      BY ONLY <2>2, <2>3, <3>1, lo \in Nat, lo = item.val % 65536, hi \in Nat, hi = item.val \div 65536, SMT
    <3> QED BY ONLY <1>3, <1>4, <2>1, <3>2, SMT
  <2>5. CASE pkOrder # "left"
    <3>1. PkDecode(item.kind) = PkGet16(pkP + 2) + 65536 * PkGet16(pkP) /\ PkSpan(item.kind) = 4
      BY <1>8, <2>5, SMT DEF PkDecode, PkSpan
    <3>2. PICK v \in Int : v = hi + 65536 * lo
      BY SMT
    <3>3. PkDecode(item.kind) = v /\ PkSpan(item.kind) = 4
      BY ONLY <2>2, <3>1, <3>2, lo = item.val % 65536, hi = item.val \div 65536, SMT
    <3>4. pkOrder = "right"
      BY <2>5 DEF PkTypes, PkBase
    <3> QED BY ONLY <1>3, <1>4, <1>8, <2>1, <3>3, <3>4, v \in Int, SMT
  <2> QED BY <2>4, <2>5
<1>9. CASE item.kind = "str"
  <2>1. PkStrlen = Len(item.val)
    BY <1>9, PkStrlenFinds
  <2>2. item.val \in Seq(PkChars)
    BY <1>9, PkItemCases, SMT
  <2> PICK n \in Nat : n = Len(item.val)
    BY <2>2
  <2>3. PkWidth(item) = n + 1 /\ \A k \in 1..n : pkBuf[pkP + k - 1] = item.val[k]
    BY <1>9 DEF PkWidth, PkStored
  <2>4. PkDecode(item.kind) = [k \in 1..n |-> pkBuf[pkP + k - 1]] /\ PkSpan(item.kind) = n + 1
    <3>1. PkDecode(item.kind) = PkString /\ PkSpan(item.kind) = PkStrlen + 1
      BY <1>9, SMT DEF PkDecode, PkSpan
    <3>2. PkStrlen = n
      BY <2>1
    <3> QED BY ONLY <3>1, <3>2, Zenon DEF PkString
  <2>5. [k \in 1..n |-> pkBuf[pkP + k - 1]] = item.val
    <3>1. item.val = [k \in 1..n |-> item.val[k]]
      BY <2>2
    <3> QED BY ONLY <2>3, <3>1
  <2>6. item.val \in Seq(Nat)
    <3>1. \A k \in 1..n : item.val[k] \in Nat
      BY ONLY <2>2, n = Len(item.val), PkCharsBytes
    <3>2. item.val = [k \in 1..n |-> item.val[k]]
      BY <2>2
    <3> QED BY ONLY <3>1, <3>2, n \in Nat
  <2>7. Good(item.val)
    BY ONLY <2>6, Zenon DEF Good
  <2>8. PkDecode(item.kind) = item.val /\ PkSpan(item.kind) = n + 1
    BY ONLY <2>4, <2>5, Zenon
  <2> QED BY ONLY <1>3, <2>3, <2>7, <2>8
<1> QED BY <1>2, <1>5, <1>6, <1>7, <1>8, <1>9

LEMMA PkGetStep ==
    ASSUME PkSound, PkGet, ~pkGone
    PROVE  PkSound' /\ ~pkGone'
<1> PICK pos : PkPlaces(pos)
  BY DEF PkSound
<1>1. PkTypes /\ PkReads
  BY DEF PkSound
<1>2. pkPut \in Seq(PkItems) /\ pkGot \in Seq(PkGots) /\ pkLen \in 0..PkSize
  BY <1>1 DEF PkTypes, PkBase
<1> PICK n \in Nat : n = Len(pkPut)
  BY <1>2
<1> PICK g \in Nat : g = Len(pkGot)
  BY <1>2
<1>3. g < n /\ UNCHANGED <<pkOrder, pkBuf, pkLen, pkPut>>
  BY DEF PkGet
<1> PICK item : item = pkPut[g + 1]
  OBVIOUS
<1>4. item \in PkItems /\ g + 1 \in 1..n /\ g + 1 \in 1..n + 1 /\ (g + 1) + 1 \in 1..n + 1
  BY <1>2, <1>3
<1> PICK got : got = [kind |-> item.kind, val |-> PkDecode(item.kind)]
  OBVIOUS
<1>6. /\ pos \in [1..n + 1 -> Nat] /\ pos[1] = 0 /\ pos[n + 1] = pkLen /\ pos[g + 1] = pkP
      /\ \A i \in 1..n : PkPlace(pkPut, pkBuf, pos, i)
  BY DEF PkPlaces
<1>7. pkP \in Nat /\ pos[(g + 1) + 1] = pkP + PkWidth(item) /\ pkP + PkWidth(item) <= pkLen
      /\ PkStored(pkBuf, pkP, item)
  <2>1. PkPlace(pkPut, pkBuf, pos, g + 1)
    BY <1>4, <1>6
  <2>2. pos[(g + 1) + 1] = pos[g + 1] + PkWidth(item) /\ pos[(g + 1) + 1] <= pkLen /\ PkStored(pkBuf, pos[g + 1], item)
    BY ONLY <2>1, item = pkPut[g + 1] DEF PkPlace
  <2>3. pos[g + 1] \in Nat
    BY ONLY <1>4, <1>6
  <2> QED BY ONLY <1>6, <2>2, <2>3
<1>8. /\ PkSpan(item.kind) = PkWidth(item) /\ got \in PkGots
      /\ (pkOrder = "right" /\ item.kind = "u32") \/ got = item
  BY ONLY <1>1, <1>4, <1>7, got = [kind |-> item.kind, val |-> PkDecode(item.kind)], PkDecoded
<1>5. pkP' = pkP + PkSpan(item.kind) /\ pkGot' = Append(pkGot, got) /\ UNCHANGED pkGone
  <2>1. PkInside(item.kind)
    <3>1. PkWidth(item) \in Nat /\ PkWidth(item) > 0
      BY <1>4, PkWidths
    <3>2. PkSize \in Nat
      BY PkAssumption
    <3>3. pkP < PkSize /\ pkP + PkSpan(item.kind) <= PkSize
      BY ONLY <1>2, <1>7, <1>8, <3>1, <3>2
    <3> QED BY <3>3 DEF PkInside
  <2> QED BY <2>1 DEF PkGet
<1>9. pkGot' \in Seq(PkGots) /\ Len(pkGot') = g + 1 /\ pkGot'[g + 1] = got /\ \A i \in 1..g : pkGot'[i] = pkGot[i]
  BY ONLY <1>2, <1>5, <1>8, g = Len(pkGot)
<1>10. PkTypes'
  <2>1. Len(pkGot') <= Len(pkPut')
    BY <1>3, <1>9
  <2> QED BY ONLY <1>1, <1>3, <1>9, <2>1 DEF PkTypes, PkBase
<1>11. PkReads'
  <2> SUFFICES ASSUME NEW i \in 1..g + 1
               PROVE  (pkOrder = "right" /\ pkPut[i].kind = "u32") \/ pkGot'[i] = pkPut[i]
    BY <1>3, <1>9 DEF PkReads
  <2>1. CASE i = g + 1
    BY ONLY <1>8, <1>9, <2>1, item = pkPut[g + 1]
  <2>2. CASE i \in 1..g
    <3>1. (pkOrder = "right" /\ pkPut[i].kind = "u32") \/ pkGot[i] = pkPut[i]
      BY <1>1, <2>2 DEF PkReads
    <3> QED BY ONLY <1>9, <2>2, <3>1
  <2> QED BY <2>1, <2>2
<1>12. PkPlaces(pos)'
  <2>1. pos[(g + 1) + 1] = pkP'
    BY <1>5, <1>7, <1>8
  <2>2. \A i \in 1..n : PkPlace(pkPut, pkBuf, pos, i)'
    BY ONLY <1>3, <1>6 DEF PkPlace
  <2>3. Len(pkPut)' = n /\ Len(pkGot)' = g + 1
    BY <1>3, <1>9
  <2> QED BY ONLY <1>3, <1>6, <2>1, <2>2, <2>3 DEF PkPlaces
<1> QED BY ONLY <1>5, <1>10, <1>11, <1>12, ~pkGone DEF PkSound

LEMMA PkStarts ==
    ASSUME PkInit
    PROVE  PkInv
<1>1. PkSize \in Nat /\ pkOrder \in {"left", "right"}
  BY PkAssumption DEF PkInit
<1>2. pkBuf \in [0..PkSize - 1 -> Nat] /\ pkLen = 0 /\ pkP = 0 /\ pkPut = <<>> /\ pkGot = <<>>
  BY <1>1 DEF PkInit
<1>3. Len(pkPut) = 0 /\ Len(pkGot) = 0
  BY <1>2
<1>4. PkTypes
  BY <1>1, <1>2, <1>3 DEF PkTypes, PkBase
<1>5. PkReads
  BY <1>3 DEF PkReads
<1> PICK pos : pos = [i \in 1..1 |-> 0]
  OBVIOUS
<1>6. PkPlaces(pos)
  BY ONLY <1>2, <1>3, pos = [i \in 1..1 |-> 0] DEF PkPlaces
<1>7. PkBase /\ ~pkGone
  BY <1>4 DEF PkInit, PkTypes
<1> QED BY <1>4, <1>5, <1>6, <1>7 DEF PkInv, PkSound

LEMMA PkStep ==
    ASSUME PkInv, [PkNext]_pkVars
    PROVE  PkInv'
<1>0. PkBase
  BY DEF PkInv
<1>1. CASE PkClear
  <2>1. pkOrder \in {"left", "right"} /\ pkBuf \in [0..PkSize - 1 -> Nat]
    BY <1>0 DEF PkBase
  <2>2. pkLen' = 0 /\ pkP' = 0 /\ pkPut' = <<>> /\ pkGot' = <<>> /\ UNCHANGED <<pkOrder, pkBuf>>
    BY <1>1 DEF PkClear
  <2>3. /\ pkOrder' \in {"left", "right"} /\ pkBuf' \in [0..PkSize - 1 -> Nat]
        /\ pkLen' = 0 /\ pkP' = 0 /\ pkPut' = <<>> /\ pkGot' = <<>>
    BY ONLY <2>1, <2>2
  <2>4. PkSize \in Nat
    BY PkAssumption
  <2>5. Len(pkPut') = 0 /\ Len(pkGot') = 0
    BY ONLY <2>3
  <2>6. PkTypes'
    BY ONLY <2>3, <2>4, <2>5 DEF PkTypes, PkBase
  <2>7. PkReads'
    BY ONLY <2>5 DEF PkReads
  <2> PICK pos : pos = [i \in 1..1 |-> 0]
    OBVIOUS
  <2>8. PkPlaces(pos)'
    BY ONLY <2>3, <2>5, pos = [i \in 1..1 |-> 0] DEF PkPlaces
  <2>9. PkBase' /\ ~pkGone'
    BY <1>1, <2>6 DEF PkTypes, PkClear
  <2> QED BY ONLY <2>6, <2>7, <2>8, <2>9 DEF PkSound, PkInv
<1>2. CASE PkGet
  <2>1. PkBase' /\ pkLost' = pkLost
    BY <1>0, <1>2 DEF PkGet, PkBase
  <2> QED BY <1>2, <2>1, PkGetStep DEF PkInv
<1>3. ASSUME NEW item \in PkValues, PkPutNumber(item) PROVE PkInv'
  <2>1. pkLost' = pkLost /\ pkGone' = pkGone
    BY <1>3 DEF PkPutNumber
  <2> QED BY <1>0, <1>3, <2>1, PkPutNumberStep DEF PkInv
<1>4. ASSUME NEW item \in PkValues, PkPutString(item) PROVE PkInv'
  <2>1. pkLost' = pkLost /\ pkGone' = pkGone
    BY <1>4 DEF PkPutString
  <2> QED BY <1>0, <1>4, <2>1, PkPutStringStep DEF PkInv
<1>5. ASSUME NEW item \in PkValues, PkPutNoRoom(item) PROVE PkInv'
  BY <1>0, <1>5 DEF PkPutNoRoom, PkInv, PkBase
<1>6. CASE UNCHANGED pkVars
  BY <1>6 DEF pkVars, PkInv, PkSound, PkTypes, PkBase, PkReads, PkPlaces, PkPlace
<1> QED BY <1>1, <1>2, <1>3, <1>4, <1>5, <1>6 DEF PkNext

LEMMA PkSoundComesBack ==
    ASSUME PkSound, ~pkGone
    PROVE  PkComesBack
<1> PICK pos : PkPlaces(pos)
  BY DEF PkSound
<1>1. PkTypes /\ PkReads
  BY DEF PkSound
<1>2. pkPut \in Seq(PkItems) /\ pkGot \in Seq(PkGots) /\ pkLen \in Nat /\ pkLen <= PkSize /\ Len(pkGot) <= Len(pkPut)
  BY <1>1, PkAssumption DEF PkTypes, PkBase
<1> PICK n \in Nat : n = Len(pkPut)
  BY <1>2
<1> PICK g \in Nat : g = Len(pkGot)
  BY <1>2
<1>3. pkP <= pkLen
  <2>1. /\ pos \in [1..n + 1 -> Nat] /\ pos[1] = 0 /\ pos[g + 1] = pkP
        /\ \A i \in 1..n : PkPlace(pkPut, pkBuf, pos, i)
    BY DEF PkPlaces
  <2>2. CASE g = 0
    BY <1>2, <2>1, <2>2
  <2>3. CASE g # 0
    <3>1. g \in 1..n
      BY <1>2, <2>3
    <3> QED BY <2>1, <3>1 DEF PkPlace
  <2> QED BY <2>2, <2>3
<1>4. CASE PkMixedUp
  BY <1>2, <1>3, <1>4 DEF PkComesBack
<1>5. CASE ~PkMixedUp
  <2>1. \A i \in 1..g : i \in 1..n /\ i \in DOMAIN pkPut
    BY <1>2
  <2>2. \A i \in 1..g : pkGot[i] = pkPut[i]
    BY <1>1, <1>5, <2>1 DEF PkReads, PkMixedUp
  <2>3. pkGot = SubSeq(pkPut, 1, g)
    <3>1. pkGot = [i \in 1..g |-> pkGot[i]]
      BY <1>2
    <3>2. SubSeq(pkPut, 1, g) = [i \in 1..g |-> pkPut[i]]
      <4>1. /\ SubSeq(pkPut, 1, g) \in Seq(PkItems) /\ Len(SubSeq(pkPut, 1, g)) = g
            /\ \A i \in 1..g : SubSeq(pkPut, 1, g)[i] = pkPut[i]
        BY <1>2
      <4>2. SubSeq(pkPut, 1, g) = [i \in 1..g |-> SubSeq(pkPut, 1, g)[i]]
        BY ONLY <4>1
      <4> QED BY ONLY <4>1, <4>2
    <3> QED BY ONLY <2>2, <3>1, <3>2
  <2> QED BY <1>2, <1>3, <2>3 DEF PkComesBack
<1> QED BY <1>4, <1>5

(* PkRoundTrip: whatever a caller puts into a packet of any size comes     *)
(* back, in order and in value, for every interleaving of puts, gets and   *)
(* clear(), numbers and strings cut at the end of the buffer included, and *)
(* no get leaves the buffer, until a string is put with less than two      *)
(* bytes free; save for the value of a getUint32 compiled to fetch its     *)
(* right half first.                                                       *)
THEOREM PkAlwaysRoundTrips == PkSpec => []PkRoundTrip
<1>1. PkInit => PkInv
  BY PkStarts
<1>2. PkInv /\ [PkNext]_pkVars => PkInv'
  BY PkStep
<1>3. PkInv => PkRoundTrip
  BY PkSoundComesBack DEF PkInv, PkRoundTrip
<1> QED BY <1>1, <1>2, <1>3, PTL DEF PkSpec

(***************************************************************************)
(* tiny_fd_init.  The areas are multiples of a word and lengths between    *)
(* them; alignment only ever adds, by less than a word.                    *)
(***************************************************************************)

LEMMA FiWordPositive == FiWord \in Nat /\ FiWord > 0
BY FiAssumption

LEMMA FiAligned ==
    ASSUME NEW x \in Int
    PROVE  FiAlign(x) \in Int /\ x <= FiAlign(x) /\ FiAlign(x) % FiWord = 0
<1> PICK w \in Nat : w = FiWord /\ w > 0
  BY FiWordPositive
<1> PICK y \in Int : y = x + w - 1
  OBVIOUS
<1>1. FiAlign(x) = (y \div w) * w
  BY DEF FiAlign
<1>2. PICK q \in Int : q = y \div w
  BY SMT
<1>3. y < q * w + w
  BY <1>2, SMT
<1>4. (q * w) % w = 0
  BY SMT
<1>5. q * w \in Int /\ x <= q * w
  BY <1>3, SMT
<1> QED BY <1>1, <1>2, <1>4, <1>5

\* Behind a whole word an area is aligned as it is from 0 on.
LEMMA FiAlignBehind ==
    ASSUME NEW x \in Int, NEW y \in Int, x % FiWord = 0
    PROVE  FiAlign(x + y) = x + FiAlign(y)
<1> PICK w \in Nat : w = FiWord /\ w > 0
  BY FiWordPositive
<1>1. PICK q \in Int : q = x \div w
  BY SMT
<1>2. x = q * w
  BY <1>1, SMT
<1>3. PICK z \in Int : z = y + w - 1
  OBVIOUS
<1>4. (q * w + z) \div w = q + z \div w
  BY SMT
<1>5. FiAlign(x + y) = ((q * w + z) \div w) * w
  <2>1. (x + y) + w - 1 = q * w + z
    BY <1>2, <1>3, SMT
  <2> QED BY <2>1 DEF FiAlign
<1>6. FiAlign(y) = (z \div w) * w
  BY <1>3 DEF FiAlign
<1>7. PICK r \in Int : r = z \div w
  BY SMT
<1>8. (q + r) * w = q * w + r * w
  BY SMT
<1> QED BY <1>2, <1>4, <1>5, <1>6, <1>7, <1>8

LEMMA FiAlignZero == FiAlign(0) = 0
<1> PICK w \in Nat : w = FiWord /\ w > 0
  BY FiWordPositive
<1>1. (0 + w - 1) \div w = 0
  BY SMT
<1>2. 0 * w = 0
  BY SMT
<1> QED BY <1>1, <1>2 DEF FiAlign

LEMMA FiAlignWhole ==
    ASSUME NEW x \in Int, x % FiWord = 0
    PROVE  FiAlign(x) = x
<1>1. FiAlign(x + 0) = x + FiAlign(0)
  BY FiAlignBehind
<1> QED BY <1>1, FiAlignZero

LEMMA FiWholeSum ==
    ASSUME NEW x \in Int, NEW y \in Int, x % FiWord = 0, y % FiWord = 0
    PROVE  (x + y) % FiWord = 0
<1> PICK w \in Nat : w = FiWord /\ w > 0
  BY FiWordPositive
<1>1. PICK q \in Int : q = x \div w
  BY SMT
<1>2. PICK r \in Int : r = y \div w
  BY SMT
<1>3. x = q * w /\ y = r * w
  BY <1>1, <1>2, SMT
<1>4. x + y = (q + r) * w
  BY <1>3, SMT
<1>5. ((q + r) * w) % w = 0
  BY SMT
<1> QED BY <1>4, <1>5

\* Whole words of a size.
LEMMA FiWholeWords ==
    ASSUME NEW x \in Int
    PROVE  /\ (x \div FiWord) * FiWord \in Int /\ (x \div FiWord) * FiWord <= x
           /\ x < (x \div FiWord) * FiWord + FiWord /\ ((x \div FiWord) * FiWord) % FiWord = 0
<1> PICK w \in Nat : w = FiWord /\ w > 0
  BY FiWordPositive
<1>1. PICK q \in Int : q = x \div w
  BY SMT
<1>2. q * w <= x /\ x < q * w + w
  BY <1>1, SMT
<1>3. (q * w) % w = 0 /\ q * w \in Int
  BY SMT
<1> QED BY <1>1, <1>2, <1>3

\* The state: settings in their ranges, and a station that is what tiny_fd_init
\* makes of them.
FiRange ==
    /\ fiSetup \in FiSetups /\ fiCrc \in FiCrcs
    /\ fiPeers \in 0..63 /\ fiAddr \in 0..62 /\ fiOffset \in Nat
FiMade ==
    /\ fiResult # "none" => fiResult = FiOutcome(FiInitOf)
    /\ fiStation.up =>
        /\ fiResult # "none"
        /\ fiStation = [up |-> TRUE, init |-> FiInitOf, layout |-> FiLayoutOf(FiInitOf)]
        /\ FiOutcome(FiInitOf) = "SUCCESS"
    /\ fiStation.up \in BOOLEAN
    /\ fiEvents = IF fiStation.up THEN FiPeersCount(FiInitOf.peers) + 1 ELSE 0
FiInv == FiRange /\ FiMade

FiInitTyped(i) ==
    /\ i.size \in Nat /\ i.mtu \in Nat /\ i.window \in Nat /\ i.crc \in FiCrcs
    /\ i.peers \in 0..63 /\ i.send \in Nat /\ i.retry \in Nat

LEMMA FiCrcFields == \A crc \in FiCrcs : FiCrcField[crc] \in 0..4
BY DEF FiCrcs, FiCrcField

LEMMA FiU16Range ==
    ASSUME NEW x \in Nat
    PROVE  FiU16(x) \in Nat /\ FiU16(x) < 65536 /\ \E q \in Nat : x = FiU16(x) + 65536 * q
<1>1. (x % 65536) + 65536 * (x \div 65536) = x
  BY SMT
<1>2. x \div 65536 \in Nat /\ x % 65536 \in Nat /\ x % 65536 < 65536
  BY SMT
<1>3. FiU16(x) = x % 65536
  BY SMT DEF FiU16
<1> PICK q \in Nat : q = x \div 65536
  BY <1>2
<1> QED BY <1>1, <1>2, <1>3, SMT

LEMMA FiSlots ==
    ASSUME NEW m \in Nat
    PROVE  FiSlot(m) \in Nat /\ m <= FiSlot(m)
BY FiAssumption DEF FiSlot, FiPayload

LEMMA FiPeersRange ==
    ASSUME NEW p \in 0..63
    PROVE  FiPeersCount(p) \in Nat /\ FiPeersCount(p) * FiPeerInfo \in Nat
<1>1. FiPeersCount(p) \in Nat
  BY DEF FiPeersCount
<1>2. FiPeerInfo \in Nat
  BY FiAssumption
<1> QED BY <1>1, <1>2

LEMMA FiSizeIs ==
    ASSUME NEW p \in 0..63, NEW m \in Nat, NEW w \in Nat, NEW crc \in FiCrcs, NEW k \in Nat
    PROVE  /\ FiBufferSize(p, m, w, crc, k) \in Nat
           /\ FiBufferSize(p, m, w, crc, k) =
                FiFdData + FiWord - 1 + FiPeersCount(p) * FiPeerInfo
                + ((FiCrcField[crc] + (m + 2)) * k + FiLlData + FiWord - 1)
                + FiSlot(m) * w + FiSlot(2) * 4
<1>1. FiBufferSize(p, m, w, crc, k) =
                FiFdData + FiWord - 1 + FiPeersCount(p) * FiPeerInfo
                + ((FiCrcField[crc] + (m + 2)) * k + FiLlData + FiWord - 1)
                + FiSlot(m) * w + FiSlot(2) * 4
  BY DEF FiBufferSize, FiLlBufSize, FiPayload, FiServiceSlots, FiHeader
<1>2. PICK a \in Nat : a = FiPeersCount(p) * FiPeerInfo
  BY FiPeersRange
<1>3. PICK b \in Nat : b = (FiCrcField[crc] + (m + 2)) * k
  <2>1. FiCrcField[crc] \in Nat
    BY FiCrcFields
  <2>2. FiCrcField[crc] + (m + 2) \in Nat
    BY <2>1
  <2> QED BY ONLY <2>2, k \in Nat
<1>4. PICK c \in Nat : c = FiSlot(m) * w
  BY FiSlots
<1>5. PICK d \in Nat : d = FiSlot(2) * 4
  BY FiSlots
<1>6. FiFdData \in Nat /\ FiLlData \in Nat /\ FiWord \in Nat /\ FiWord > 0
  BY FiAssumption
<1>7. FiFdData + FiWord - 1 + a + (b + FiLlData + FiWord - 1) + c + d \in Nat
  BY ONLY <1>6, a \in Nat, b \in Nat, c \in Nat, d \in Nat
<1> QED BY ONLY <1>1, <1>2, <1>3, <1>4, <1>5, <1>7

LEMMA FiSizeNat ==
    ASSUME NEW p \in 0..63, NEW m \in Nat, NEW w \in Nat, NEW crc \in FiCrcs, NEW k \in Nat
    PROVE  FiBufferSize(p, m, w, crc, k) \in Nat
BY FiSizeIs

LEMMA FiSetupIs ==
    ASSUME FiRange
    PROVE  /\ fiSetup.owner \in {"c", "IFd", "SerialFdLink", "python"} /\ fiSetup.mtu \in Nat /\ fiSetup.mtu # 0
           /\ fiSetup.window \in Nat /\ fiSetup.timeout \in Nat /\ fiSetup.spare \in Nat
BY FiAssumption DEF FiRange

FiPassed(i, size, mtu, crc, peers) ==
    /\ FiInitTyped(i) /\ i.size = FiU16(size) /\ i.mtu = mtu
    /\ i.window = fiSetup.window /\ i.crc = crc /\ i.peers = peers

LEMMA FiStructTyped ==
    ASSUME FiRange, NEW size \in Nat, NEW mtu \in Nat, NEW crc \in FiCrcs, NEW peers \in 0..63,
           NEW send \in Nat, NEW retry \in Nat
    PROVE  FiPassed(FiInitStruct(size, mtu, crc, peers, send, retry), size, mtu, crc, peers)
<1> PICK s \in Nat : s = FiU16(size)
  BY FiU16Range
<1> PICK t \in Nat : t = FiU16(send)
  BY FiU16Range
<1> PICK r \in Nat : r = FiU16(retry)
  BY FiU16Range
<1>1. FiInitStruct(size, mtu, crc, peers, send, retry) =
        [size |-> s, mtu |-> mtu, window |-> fiSetup.window, crc |-> crc, peers |-> peers, send |-> t, retry |-> r]
  BY DEF FiInitStruct
<1>2. fiSetup.window \in Nat
  BY FiSetupIs
<1> QED BY <1>1, <1>2 DEF FiInitTyped, FiPassed

\* What an owner passes.
LEMMA FiInitOfIs ==
    ASSUME FiRange
    PROVE  /\ FiInitTyped(FiInitOf)
           /\ fiSetup.owner \in {"SerialFdLink", "python"} =>
                /\ FiInitOf.mtu = fiSetup.mtu /\ FiInitOf.window = fiSetup.window /\ FiInitOf.crc = fiCrc
                /\ FiInitOf.size = FiU16(FiBufferSize(FiInitOf.peers, fiSetup.mtu, fiSetup.window, fiCrc, FiRxWindow))
<1>0. fiCrc \in FiCrcs /\ fiPeers \in 0..63 /\ "CRC_16" \in FiCrcs
  BY DEF FiRange, FiCrcs, FiCrcField
<1> PICK mtu \in Nat : mtu = fiSetup.mtu
  BY FiSetupIs
<1> PICK window \in Nat : window = fiSetup.window
  BY FiSetupIs
<1> PICK timeout \in Nat : timeout = fiSetup.timeout
  BY FiSetupIs
<1> PICK spare \in Nat : spare = fiSetup.spare
  BY FiSetupIs
<1> PICK p \in 0..63 : p = fiPeers
  BY <1>0
<1> PICK none \in 0..63, one \in 0..63 : none = 0 /\ one = 1
  OBVIOUS
<1> PICK k1 \in Nat, k2 \in Nat, k3 \in Nat : k1 = 1 /\ k2 = 2 /\ k3 = 3
  OBVIOUS
<1> PICK t0 \in Nat, t1 \in Nat, t2 \in Nat : t0 = 0 /\ t1 = 1000 /\ t2 = 200
  OBVIOUS
<1>1. CASE fiSetup.owner = "c"
  <2>1. FiBufferSize(p, mtu, window, fiCrc, k1) \in Nat
    BY ONLY <1>0, mtu \in Nat, window \in Nat, p \in 0..63, none \in 0..63, one \in 0..63, k1 \in Nat, k2 \in Nat, k3 \in Nat, FiSizeNat
  <2>2. PICK size \in Nat : size = FiBufferSize(p, mtu, window, fiCrc, k1) + spare
    BY <2>1
  <2>3. FiInitOf = FiInitStruct(size, mtu, fiCrc, p, timeout, t0)
    BY <1>1, <2>2 DEF FiInitOf, FiByHand
  <2>4. FiPassed(FiInitOf, size, mtu, fiCrc, p)
    BY ONLY FiRange, <1>0, <2>3, size \in Nat, mtu \in Nat, timeout \in Nat, p \in 0..63, none \in 0..63, t0 \in Nat, t1 \in Nat, t2 \in Nat, FiStructTyped
  <2> QED BY <1>1, <2>4 DEF FiPassed
<1>2. CASE fiSetup.owner = "IFd"
  <2>1. FiBufferSize(none, mtu, window, "CRC_16", k1) \in Nat
    BY ONLY <1>0, mtu \in Nat, window \in Nat, p \in 0..63, none \in 0..63, one \in 0..63, k1 \in Nat, k2 \in Nat, k3 \in Nat, FiSizeNat
  <2>2. PICK size \in Nat : size = FiBufferSize(none, mtu, window, "CRC_16", k1) + spare
    BY <2>1
  <2>3. FiInitOf = FiInitStruct(size, t0, fiCrc, none, timeout, t2)
    BY <1>2, <2>2 DEF FiInitOf, FiIFd
  <2>4. FiPassed(FiInitOf, size, t0, fiCrc, none)
    BY ONLY FiRange, <1>0, <2>3, size \in Nat, timeout \in Nat, p \in 0..63, none \in 0..63, t0 \in Nat, t1 \in Nat, t2 \in Nat, FiStructTyped
  <2> QED BY <1>2, <2>4 DEF FiPassed
<1>3. CASE fiSetup.owner = "SerialFdLink"
  <2>1. PICK size \in Nat : size = FiBufferSize(one, mtu, window, fiCrc, k3)
    BY ONLY <1>0, mtu \in Nat, window \in Nat, p \in 0..63, none \in 0..63, one \in 0..63, k1 \in Nat, k2 \in Nat, k3 \in Nat, FiSizeNat
  <2>2. PICK retry \in Nat : retry = (IF timeout = 0 THEN 100 ELSE timeout \div 4)
    OBVIOUS
  <2>3. FiInitOf = FiInitStruct(size, mtu, fiCrc, none, timeout, retry)
    BY <1>3, <2>1, <2>2 DEF FiInitOf, FiSerialFdLink
  <2>4. size = FiBufferSize(none, mtu, window, fiCrc, k3)
    <3>1. FiPeersCount(one) = FiPeersCount(none)
      BY DEF FiPeersCount
    <3> QED BY ONLY <2>1, <3>1, Zenon DEF FiBufferSize
  <2>5. FiRxWindow = k3
    BY <1>3 DEF FiRxWindow
  <2>6. FiPassed(FiInitOf, size, mtu, fiCrc, none)
    BY ONLY FiRange, <1>0, <2>3, size \in Nat, mtu \in Nat, timeout \in Nat, retry \in Nat, p \in 0..63, none \in 0..63, t0 \in Nat, t1 \in Nat, t2 \in Nat, FiStructTyped
  <2> QED BY ONLY <2>4, <2>5, <2>6, mtu = fiSetup.mtu, window = fiSetup.window DEF FiPassed
<1>4. CASE fiSetup.owner = "python"
  <2>1. PICK size \in Nat : size = FiBufferSize(p, mtu, window, fiCrc, k2)
    BY ONLY <1>0, mtu \in Nat, window \in Nat, p \in 0..63, none \in 0..63, one \in 0..63, k1 \in Nat, k2 \in Nat, k3 \in Nat, FiSizeNat
  <2>2. FiInitOf = FiInitStruct(size, mtu, fiCrc, p, t1, t2)
    BY <1>4, <2>1 DEF FiInitOf, FiPython
  <2>3. FiRxWindow = k2
    BY <1>4 DEF FiRxWindow
  <2>4. FiPassed(FiInitOf, size, mtu, fiCrc, p)
    BY ONLY FiRange, <1>0, <2>2, size \in Nat, mtu \in Nat, p \in 0..63, none \in 0..63, t0 \in Nat, t1 \in Nat, t2 \in Nat, FiStructTyped
  <2> QED BY ONLY <2>1, <2>3, <2>4, mtu = fiSetup.mtu, window = fiSetup.window DEF FiPassed
<1> QED BY <1>1, <1>2, <1>3, <1>4, FiSetupIs

LEMMA FiValidated ==
    ASSUME NEW i, FiInitTyped(i), FiValidate(i) = "SUCCESS"
    PROVE  /\ i.window \in 2..7 /\ FiMtu(i) \in Nat
           /\ FiBufferSize(i.peers, FiMtu(i), i.window, i.crc, 1) <= i.size
<1> PICK k \in Nat, z \in Nat : k = 1 /\ z = 0
  OBVIOUS
<1> PICK w \in Nat : w = i.window
  BY DEF FiInitTyped
<1> PICK size \in Nat : size = i.size
  BY DEF FiInitTyped
<1>0. i.peers \in 0..63 /\ i.crc \in FiCrcs /\ i.mtu \in Nat
  BY DEF FiInitTyped
<1>1. /\ ~((i.mtu = 0 /\ FiMtu(i) < 2) \/ size < FiBufferSize(i.peers, FiMtu(i), w, i.crc, k))
      /\ w \in 2..FiSeqMask
  BY DEF FiValidate
<1>2. w \in 2..7
  BY <1>1 DEF FiSeqMask
<1>3. FiMtu(i) \in Nat
  <2>1. CASE i.mtu # 0
    BY <1>0, <2>1 DEF FiMtu
  <2>2. CASE i.mtu = 0
    <3>1. PICK s \in Nat : s = FiBufferSize(i.peers, z, w, i.crc, k)
      BY ONLY <1>0, z \in Nat, w \in Nat, k \in Nat, FiSizeNat
    <3>2. FiMtu(i) = (size - s) \div (w + 1)
      BY <2>2, <3>1 DEF FiMtu
    <3>3. (size - s) \div (w + 1) \in Int
      <4>1. ASSUME NEW x \in Int, NEW y \in Nat, y > 0 PROVE x \div y \in Int
        BY <4>1, SMT
      <4>2. size - s \in Int /\ w + 1 \in Nat /\ w + 1 > 0
        BY <3>1
      <4> QED BY ONLY <4>1, <4>2
    <3>4. ~(FiMtu(i) < 2)
      BY <1>1, <2>2
    <3> QED BY ONLY <3>2, <3>3, <3>4
  <2> QED BY <2>1, <2>2
<1>4. PICK s \in Nat : s = FiBufferSize(i.peers, FiMtu(i), w, i.crc, k)
  BY ONLY <1>0, <1>3, w \in Nat, k \in Nat, FiSizeNat
<1>5. s <= size
  BY <1>1, <1>4
<1> QED BY ONLY <1>2, <1>3, <1>4, <1>5, w = i.window, size = i.size, k = 1

\* The areas, one behind the other.
FiChain(i, l) ==
    /\ l.data = FiAlign(fiOffset)
    /\ l.ll = FiAlign(l.data + FiFdData) /\ l.rxBuf = l.ll + FiLlData
    /\ l.rxEnd = l.data + FiFdData + FiLlSize(i, l.data + FiFdData)
    /\ l.iQueue = FiAlign(l.rxEnd) /\ l.iEnd = l.iQueue + FiSlot(FiMtu(i)) * i.window
    /\ l.sQueue = FiAlign(l.iEnd) /\ l.sEnd = l.sQueue + FiSlot(2) * 4
    /\ l.peers = FiAlign(l.sEnd) /\ l.end = l.peers + FiPeersCount(i.peers) * FiPeerInfo
    /\ l.physMtu = FiMtu(i) + 2 + FiCrcField[IF i.crc = "OFF" THEN "DEFAULT" ELSE i.crc]
    /\ l.peersCount = FiPeersCount(i.peers) /\ l.addr = fiAddr * 4 + 1

LEMMA FiLayoutChain == \A i : FiChain(i, FiLayoutOf(i))
<1> TAKE i
<1> PICK l : l = FiLayoutOf(i)
  OBVIOUS
<1>1. l.data = FiAlign(fiOffset) /\ l.ll = FiAlign(FiAlign(fiOffset) + FiFdData) /\ l.rxBuf = FiAlign(FiAlign(fiOffset) + FiFdData) + FiLlData
  BY DEF FiLayoutOf
<1>2. l.rxEnd = FiAlign(fiOffset) + FiFdData + FiLlSize(i, FiAlign(fiOffset) + FiFdData)
  BY DEF FiLayoutOf
<1>3. l.iQueue = FiAlign(l.rxEnd) /\ l.iEnd = l.iQueue + FiSlot(FiMtu(i)) * i.window
  BY DEF FiLayoutOf
<1>4. l.sQueue = FiAlign(l.iEnd) /\ l.sEnd = l.sQueue + FiSlot(2) * 4
  BY DEF FiLayoutOf, FiPayload, FiServiceSlots
<1>5. l.peers = FiAlign(l.sEnd) /\ l.end = l.peers + FiPeersCount(i.peers) * FiPeerInfo
  BY DEF FiLayoutOf
<1>6. /\ l.physMtu = FiMtu(i) + 2 + FiCrcField[IF i.crc = "OFF" THEN "DEFAULT" ELSE i.crc]
      /\ l.peersCount = FiPeersCount(i.peers) /\ l.addr = fiAddr * 4 + 1
  BY DEF FiLayoutOf, FiHeader
<1> QED BY ONLY <1>1, <1>2, <1>3, <1>4, <1>5, <1>6, l = FiLayoutOf(i) DEF FiChain

\* What is known of the numbers of a layout.
FiNumbers(i, a, b, p) ==
    /\ a \in Nat /\ a = FiSlot(FiMtu(i)) * i.window
    /\ b \in Nat /\ b = FiSlot(2) * 4
    /\ p \in Nat /\ p = FiPeersCount(i.peers) * FiPeerInfo

LEMMA FiNumbersExist ==
    ASSUME NEW i, FiInitTyped(i), FiMtu(i) \in Nat
    PROVE  \E a, b, p : FiNumbers(i, a, b, p)
<1>1. PICK a \in Nat : a = FiSlot(FiMtu(i)) * i.window
  <2>1. FiSlot(FiMtu(i)) \in Nat
    BY FiSlots
  <2>2. i.window \in Nat
    BY DEF FiInitTyped
  <2> QED BY ONLY <2>1, <2>2
<1>2. PICK b \in Nat : b = FiSlot(2) * 4
  BY FiSlots
<1>3. PICK p \in Nat : p = FiPeersCount(i.peers) * FiPeerInfo
  BY FiPeersRange DEF FiInitTyped
<1> QED BY <1>1, <1>2, <1>3 DEF FiNumbers

\* The words left to the framing layer.
LEMMA FiLlWords ==
    ASSUME NEW i, FiInitTyped(i), FiMtu(i) \in Nat, NEW a, NEW b, NEW p, FiNumbers(i, a, b, p), NEW start \in Int, fiOffset \in Nat
    PROVE  /\ FiLlSize(i, start) \in Int /\ FiLlSize(i, start) % FiWord = 0
           /\ FiLlSize(i, start) <= fiOffset + i.size - start - 4 - a - b - p
           /\ fiOffset + i.size - start - 4 - a - b - p < FiLlSize(i, start) + FiWord
<1> PICK size \in Nat : size = i.size
  BY DEF FiInitTyped
<1>0. a \in Nat /\ b \in Nat /\ p \in Nat
  BY DEF FiNumbers
<1> PICK x \in Int : x = fiOffset + size - start - 4 - a - b - p
  BY <1>0
<1>1. FiLlSize(i, start) = (x \div FiWord) * FiWord
  <2>1. i.window * FiSlot(FiMtu(i)) = a
    <3>1. FiSlot(FiMtu(i)) \in Int /\ i.window \in Int
      BY FiSlots DEF FiInitTyped
    <3>2. FiSlot(FiMtu(i)) * i.window = a
      BY DEF FiNumbers
    <3> QED BY ONLY <3>1, <3>2
  <2>2. FiServiceSlots * FiSlot(FiPayload) = b
    BY FiSlots DEF FiNumbers, FiServiceSlots, FiPayload
  <2>3. FiPeersCount(i.peers) * FiPeerInfo = p
    BY DEF FiNumbers
  <2> QED BY ONLY <2>1, <2>2, <2>3, size = i.size, x = fiOffset + size - start - 4 - a - b - p DEF FiLlSize
<1> PICK f : f = (x \div FiWord) * FiWord
  OBVIOUS
<1>2. f \in Int /\ f <= x /\ x < f + FiWord /\ f % FiWord = 0
  BY ONLY x \in Int, f = (x \div FiWord) * FiWord, FiWholeWords
<1> QED BY ONLY <1>1, <1>2, size = i.size, f = (x \div FiWord) * FiWord, x = fiOffset + size - start - 4 - a - b - p

\* The areas of a layout follow one another, each aligned.
FiOrdered(l) ==
    /\ {l.data, l.ll, l.rxBuf, l.rxEnd, l.iQueue, l.iEnd, l.sQueue, l.sEnd, l.peers, l.end} \subseteq Int
    /\ fiOffset <= l.data /\ l.ll = l.data + FiFdData /\ l.rxEnd = l.iQueue
    /\ l.iEnd <= l.sQueue /\ l.sEnd <= l.peers
    /\ l.data % FiWord = 0 /\ l.ll % FiWord = 0 /\ l.iQueue % FiWord = 0 /\ l.sQueue % FiWord = 0
    /\ l.peers % FiWord = 0

LEMMA FiChainOrdered ==
    ASSUME fiOffset \in Nat, NEW i, FiInitTyped(i), FiMtu(i) \in Nat, NEW a, NEW b, NEW p, FiNumbers(i, a, b, p), NEW l, FiChain(i, l)
    PROVE  FiOrdered(l)
<1>0. FiFdData \in Int /\ FiFdData % FiWord = 0 /\ FiLlData \in Int
  BY FiAssumption
<1>1. l.data \in Int /\ fiOffset <= l.data /\ l.data % FiWord = 0
  <2>1. l.data = FiAlign(fiOffset)
    BY DEF FiChain
  <2> QED BY ONLY <2>1, fiOffset \in Nat, FiAligned
<1>2. l.data + FiFdData \in Int /\ (l.data + FiFdData) % FiWord = 0
  <2>1. (l.data + FiFdData) % FiWord = 0
    BY ONLY <1>0, <1>1, FiWholeSum, Zenon
  <2>2. l.data + FiFdData \in Int
    BY ONLY <1>0, <1>1
  <2> QED BY ONLY <2>1, <2>2, Zenon
<1>3. l.ll = l.data + FiFdData /\ l.rxBuf \in Int
  <2>1. l.ll = FiAlign(l.data + FiFdData) /\ l.rxBuf = l.ll + FiLlData
    BY DEF FiChain
  <2>2. l.ll = l.data + FiFdData
    BY ONLY <1>2, <2>1, FiAlignWhole
  <2> QED BY ONLY <1>0, <1>2, <2>1, <2>2
<1> PICK start \in Int : start = l.data + FiFdData
  BY <1>2
<1>4. FiLlSize(i, start) \in Int /\ FiLlSize(i, start) % FiWord = 0
  BY ONLY fiOffset \in Nat, FiInitTyped(i), FiMtu(i) \in Nat, FiNumbers(i, a, b, p), start \in Int, FiLlWords
<1>5. l.rxEnd \in Int /\ l.rxEnd % FiWord = 0
  <2>1. l.rxEnd = start + FiLlSize(i, start)
    BY DEF FiChain
  <2>2. start % FiWord = 0
    BY ONLY <1>2, start = l.data + FiFdData
  <2>3. (start + FiLlSize(i, start)) % FiWord = 0
    BY ONLY <1>4, <2>2, start \in Int, FiWholeSum, Zenon
  <2>4. start + FiLlSize(i, start) \in Int
    BY ONLY <1>4, start \in Int
  <2> QED BY ONLY <2>1, <2>3, <2>4, Zenon
<1>6. l.iQueue = l.rxEnd
  <2>1. l.iQueue = FiAlign(l.rxEnd)
    BY DEF FiChain
  <2> QED BY ONLY <1>5, <2>1, FiAlignWhole
<1>7. l.iEnd \in Int
  <2>1. l.iEnd = l.iQueue + a /\ a \in Nat
    BY DEF FiChain, FiNumbers
  <2> QED BY ONLY <1>5, <1>6, <2>1
<1>8. l.sQueue \in Int /\ l.iEnd <= l.sQueue /\ l.sQueue % FiWord = 0
  <2>1. l.sQueue = FiAlign(l.iEnd)
    BY DEF FiChain
  <2> QED BY ONLY <1>7, <2>1, FiAligned
<1>9. l.sEnd \in Int
  <2>1. l.sEnd = l.sQueue + b /\ b \in Nat
    BY DEF FiChain, FiNumbers
  <2> QED BY ONLY <1>8, <2>1
<1>10. l.peers \in Int /\ l.sEnd <= l.peers /\ l.peers % FiWord = 0
  <2>1. l.peers = FiAlign(l.sEnd)
    BY DEF FiChain
  <2> QED BY ONLY <1>9, <2>1, FiAligned
<1>11. l.end \in Int
  <2>1. l.end = l.peers + p /\ p \in Nat
    BY DEF FiChain, FiNumbers
  <2> QED BY ONLY <1>10, <2>1
<1>12. l.ll \in Int /\ l.ll % FiWord = 0 /\ l.iQueue \in Int /\ l.iQueue % FiWord = 0
  BY ONLY <1>2, <1>3, <1>5, <1>6
<1> QED BY ONLY <1>1, <1>3, <1>5, <1>6, <1>7, <1>8, <1>9, <1>10, <1>11, <1>12 DEF FiOrdered

\* In an aligned buffer: room for k received frames, when it was made for k.
LEMMA FiRxRoom ==
    ASSUME fiOffset = 0, FiWord > 4, NEW i, FiInitTyped(i), FiMtu(i) \in Nat, NEW l, FiChain(i, l),
           NEW k \in Nat, FiBufferSize(i.peers, FiMtu(i), i.window, i.crc, k) <= i.size
    PROVE  (FiCrcField[i.crc] + (FiMtu(i) + 2)) * k <= l.rxEnd - l.rxBuf
<1> PICK a, b, p : FiNumbers(i, a, b, p)
  BY FiNumbersExist
<1> PICK size \in Nat : size = i.size
  BY DEF FiInitTyped
<1>0. a \in Nat /\ b \in Nat /\ p \in Nat
  BY DEF FiNumbers
<1>1. FiFdData \in Nat /\ FiLlData \in Nat /\ FiWord \in Nat
  BY FiAssumption
<1> PICK r \in Nat : r = (FiCrcField[i.crc] + (FiMtu(i) + 2)) * k
  <2>1. FiCrcField[i.crc] \in Nat
    BY FiCrcFields DEF FiInitTyped
  <2>2. FiCrcField[i.crc] + (FiMtu(i) + 2) \in Nat
    BY <2>1
  <2> QED BY ONLY <2>2, k \in Nat
<1>2. FiFdData + FiWord - 1 + p + (r + FiLlData + FiWord - 1) + a + b <= size
  <2>1. i.peers \in 0..63 /\ i.window \in Nat /\ i.crc \in FiCrcs
    BY DEF FiInitTyped
  <2>2. FiBufferSize(i.peers, FiMtu(i), i.window, i.crc, k) =
                FiFdData + FiWord - 1 + FiPeersCount(i.peers) * FiPeerInfo
                + ((FiCrcField[i.crc] + (FiMtu(i) + 2)) * k + FiLlData + FiWord - 1)
                + FiSlot(FiMtu(i)) * i.window + FiSlot(2) * 4
    BY DEF FiBufferSize, FiLlBufSize, FiPayload, FiServiceSlots, FiHeader
  <2>3. FiBufferSize(i.peers, FiMtu(i), i.window, i.crc, k) =
                FiFdData + FiWord - 1 + p + (r + FiLlData + FiWord - 1) + a + b
    BY ONLY <2>2, FiNumbers(i, a, b, p), r = (FiCrcField[i.crc] + (FiMtu(i) + 2)) * k, Zenon DEF FiNumbers
  <2> QED BY <2>3
<1>3. FiOrdered(l)
  BY FiChainOrdered
<1>4. l.data = 0
  <2>1. l.data = FiAlign(0)
    BY DEF FiChain
  <2> QED BY ONLY <2>1, FiAlignZero
<1>5. l.rxBuf = FiFdData + FiLlData /\ l.rxEnd = FiFdData + FiLlSize(i, FiFdData)
  <2>1. l.ll = 0 + FiFdData
    BY <1>3, <1>4 DEF FiOrdered
  <2>2. l.rxBuf = l.ll + FiLlData /\ l.rxEnd = 0 + FiFdData + FiLlSize(i, 0 + FiFdData)
    BY <1>4 DEF FiChain
  <2>3. 0 + FiFdData = FiFdData
    BY <1>1
  <2> QED BY ONLY <2>1, <2>2, <2>3
<1>6. /\ FiLlSize(i, FiFdData) \in Int
      /\ fiOffset + i.size - FiFdData - 4 - a - b - p < FiLlSize(i, FiFdData) + FiWord
  <2>1. fiOffset \in Nat /\ FiFdData \in Int
    BY <1>1
  <2> QED BY ONLY <2>1, FiInitTyped(i), FiMtu(i) \in Nat, FiNumbers(i, a, b, p), FiLlWords
<1> PICK s \in Int : s = FiLlSize(i, FiFdData)
  BY <1>6
<1>7. 0 + size - FiFdData - 4 - a - b - p < s + FiWord
  BY ONLY <1>6, fiOffset = 0, size = i.size, s = FiLlSize(i, FiFdData)
<1>8. r + FiLlData <= s
  BY ONLY <1>0, <1>1, <1>2, <1>7, FiWord > 4, size \in Nat, s \in Int, r \in Nat
<1>9. r <= (FiFdData + s) - (FiFdData + FiLlData)
  BY ONLY <1>1, <1>8, s \in Int, r \in Nat
<1> QED BY ONLY <1>5, <1>9, s = FiLlSize(i, FiFdData), r = (FiCrcField[i.crc] + (FiMtu(i) + 2)) * k

\* An aligned buffer that was accepted is large enough, but for the padding.
LEMMA FiNotRefused ==
    ASSUME fiOffset = 0, FiWord > 4, NEW i, FiInitTyped(i), FiValidate(i) = "SUCCESS", ~(FiPad(i) > 4)
    PROVE  FiFits(i, FiLayoutOf(i)) = "SUCCESS"
<1> PICK l : l = FiLayoutOf(i) /\ FiChain(i, l)
  BY FiLayoutChain
<1>1. FiMtu(i) \in Nat /\ FiBufferSize(i.peers, FiMtu(i), i.window, i.crc, 1) <= i.size
  BY FiValidated
<1> PICK a, b, p : FiNumbers(i, a, b, p)
  BY <1>1, FiNumbersExist
<1> PICK size \in Nat : size = i.size
  BY DEF FiInitTyped
<1>2. a \in Nat /\ b \in Nat /\ p \in Nat
  BY DEF FiNumbers
<1>3. fiOffset \in Nat /\ FiFdData \in Nat /\ FiWord \in Nat
  BY FiAssumption
<1>4. FiOrdered(l)
  BY ONLY <1>1, <1>3, FiInitTyped(i), FiNumbers(i, a, b, p), FiChain(i, l), FiChainOrdered
<1>5. l.rxBuf <= l.rxEnd
  <2> PICK k \in Nat : k = 1
    OBVIOUS
  <2>1. (FiCrcField[i.crc] + (FiMtu(i) + 2)) * k <= l.rxEnd - l.rxBuf
    BY ONLY <1>1, k = 1, k \in Nat, fiOffset = 0, FiWord > 4, FiInitTyped(i), FiChain(i, l), FiRxRoom
  <2>2. FiCrcField[i.crc] \in Nat
    BY FiCrcFields DEF FiInitTyped
  <2>3. (FiCrcField[i.crc] + (FiMtu(i) + 2)) * k \in Nat
    BY ONLY <1>1, <2>2, k = 1
  <2>4. l.rxBuf \in Int /\ l.rxEnd \in Int
    BY ONLY <1>4 DEF FiOrdered
  <2> QED BY ONLY <2>1, <2>3, <2>4
<1>6. l.iQueue \in Int /\ l.iQueue % FiWord = 0 /\ l.iQueue + a + b + p + 4 <= size
  <2>1. l.iQueue \in Int /\ l.iQueue % FiWord = 0 /\ l.iQueue = l.rxEnd /\ l.data \in Int
    BY ONLY <1>4 DEF FiOrdered
  <2>2. PICK start \in Int : start = l.data + FiFdData
    BY ONLY <1>3, <2>1
  <2>3. l.rxEnd = start + FiLlSize(i, start)
    BY <2>2 DEF FiChain
  <2>4. FiLlSize(i, start) \in Int /\ FiLlSize(i, start) <= fiOffset + i.size - start - 4 - a - b - p
    BY ONLY <1>1, <1>3, start \in Int, FiInitTyped(i), FiNumbers(i, a, b, p), FiLlWords
  <2>5. PICK s \in Int : s = FiLlSize(i, start)
    BY <2>4
  <2>6. s <= 0 + size - start - 4 - a - b - p
    BY ONLY <2>4, <2>5, fiOffset = 0, size = i.size
  <2>7. l.iQueue = start + s
    BY ONLY <2>1, <2>3, <2>5
  <2>8. start + s + a + b + p + 4 <= size
    BY ONLY <1>2, <2>6, s \in Int, start \in Int, size \in Nat
  <2> QED BY ONLY <2>1, <2>7, <2>8
<1> PICK g \in Int : g = FiAlign(a) - a /\ FiAlign(a) \in Int /\ g <= 4
  <2>1. FiPad(i) = FiAlign(a) - a
    BY ONLY FiNumbers(i, a, b, p) DEF FiPad, FiNumbers
  <2>2. FiAlign(a) \in Int
    BY ONLY <1>2, FiAligned
  <2> QED BY <1>2, <2>1, <2>2
<1>7. l.sQueue = l.iQueue + a + g
  <2>1. l.iEnd = l.iQueue + a /\ l.sQueue = FiAlign(l.iEnd)
    BY DEF FiChain, FiNumbers
  <2>2. FiAlign(l.iQueue + a) = l.iQueue + FiAlign(a)
    BY ONLY <1>2, <1>6, FiAlignBehind
  <2> QED BY ONLY <1>2, <1>6, <2>1, <2>2, g \in Int, g = FiAlign(a) - a, FiAlign(a) \in Int
<1>8. l.peers = l.sQueue + b /\ l.sEnd = l.sQueue + b
  <2>1. l.sQueue \in Int /\ l.sQueue % FiWord = 0
    BY ONLY <1>4 DEF FiOrdered
  <2>2. b % FiWord = 0
    <3>1. FiWord \in Nat /\ FiWord > 0 /\ FiFrameInfo \in Nat /\ (4 * FiFrameInfo) % FiWord = 0
      BY FiAssumption
    <3> PICK w \in Nat : w = FiWord /\ w > 0
      BY <3>1
    <3>2. b = 4 * w + 4 * FiFrameInfo
      BY <3>1 DEF FiNumbers, FiSlot, FiPayload
    <3>3. (4 * w) % w = 0
      BY ONLY w \in Nat, w > 0, SMT
    <3>4. 4 * w \in Int /\ 4 * FiFrameInfo \in Int
      BY <3>1
    <3>5. (4 * w) % FiWord = 0
      BY ONLY <3>3, w = FiWord
    <3> QED BY ONLY <3>1, <3>2, <3>4, <3>5, FiWholeSum
  <2>3. l.sEnd = l.sQueue + b /\ l.peers = FiAlign(l.sEnd)
    BY DEF FiChain, FiNumbers
  <2>4. (l.sQueue + b) % FiWord = 0
    <3>1. b \in Int
      BY ONLY <1>2
    <3> QED BY ONLY <3>1, <2>1, <2>2, FiWholeSum, Zenon
  <2>5. l.sQueue + b \in Int
    BY ONLY <1>2, <2>1
  <2> QED BY ONLY <2>3, <2>4, <2>5, FiAlignWhole
<1>9. l.end = l.peers + p /\ l.iEnd = l.iQueue + a
  BY DEF FiChain, FiNumbers
<1>10. l.end <= size /\ l.sEnd <= size /\ l.iEnd <= size
  <2>0. 0 <= g
    BY ONLY <1>2, FiAligned, g = FiAlign(a) - a, FiAlign(a) \in Int
  <2> PICK x \in Int : x = l.iQueue
    BY <1>6
  <2>1. l.sEnd = x + a + g + b /\ l.end = x + a + g + b + p /\ l.iEnd = x + a
    BY ONLY <1>7, <1>8, <1>9, x = l.iQueue
  <2>2. x + a + g + b + p <= size /\ x + a + g + b <= size /\ x + a <= size
    BY ONLY <1>2, <1>6, <2>0, x \in Int, x = l.iQueue, g \in Int, g <= 4, size \in Nat
  <2> QED BY ONLY <2>1, <2>2
<1>11. ~(l.iEnd > 0 + size) /\ ~(l.sEnd > 0 + size) /\ ~(l.end > 0 + size) /\ ~(l.rxEnd < l.rxBuf)
  <2>1. l.iEnd \in Int /\ l.sEnd \in Int /\ l.end \in Int /\ l.rxEnd \in Int /\ l.rxBuf \in Int
    BY ONLY <1>4 DEF FiOrdered
  <2> QED BY ONLY <1>5, <1>10, <2>1, size \in Nat
<1> QED BY ONLY <1>11, l = FiLayoutOf(i), fiOffset = 0, size = i.size DEF FiFits

\* The size of the owner's buffer was not cut to 16 bits, or it was refused.
LEMMA FiRoomAsked ==
    ASSUME FiRange, FiValidate(FiInitOf) = "SUCCESS"
    PROVE  /\ FiRxWindow \in Nat
           /\ FiBufferSize(FiInitOf.peers, FiMtu(FiInitOf), FiInitOf.window, FiInitOf.crc, FiRxWindow) <= FiInitOf.size
<1> PICK i : i = FiInitOf
  OBVIOUS
<1>0. FiInitTyped(i)
  BY FiInitOfIs
<1>1. i.window \in 2..7 /\ FiMtu(i) \in Nat /\ FiBufferSize(i.peers, FiMtu(i), i.window, i.crc, 1) <= i.size
  BY <1>0, FiValidated
<1>2. CASE fiSetup.owner \notin {"SerialFdLink", "python"}
  <2>1. FiRxWindow = 1
    BY <1>2 DEF FiRxWindow
  <2> QED BY <1>1, <2>1
<1>3. CASE fiSetup.owner \in {"SerialFdLink", "python"}
  <2>1. /\ i.mtu = fiSetup.mtu /\ i.window = fiSetup.window /\ i.crc = fiCrc
        /\ i.size = FiU16(FiBufferSize(i.peers, fiSetup.mtu, fiSetup.window, fiCrc, FiRxWindow))
    BY <1>3, FiInitOfIs
  <2>2. FiMtu(i) = i.mtu /\ i.mtu \in Nat
    BY <2>1, FiSetupIs DEF FiMtu
  <2> PICK m \in Nat : m = i.mtu
    BY <2>2
  <2> PICK k \in Nat : k = FiRxWindow /\ (k = 2 \/ k = 3)
    BY <1>3 DEF FiRxWindow
  <2> PICK p \in 0..63 : p = i.peers
    BY <1>0 DEF FiInitTyped
  <2> PICK w \in 2..7 : w = i.window
    BY <1>1
  <2> PICK crc \in FiCrcs : crc = i.crc
    BY <1>0 DEF FiInitTyped
  <2> PICK one \in Nat : one = 1
    OBVIOUS
  <2> PICK c \in 0..4 : c = FiCrcField[crc]
    BY FiCrcFields
  <2> PICK slot \in Nat : slot = FiSlot(m) /\ m <= slot
    BY FiSlots
  <2> PICK rest \in Nat : rest = FiFdData + FiWord - 1 + FiPeersCount(p) * FiPeerInfo + FiLlData + FiWord - 1 + FiSlot(2) * 4
    <3>1. PICK x \in Nat : x = FiPeersCount(p) * FiPeerInfo
      BY FiPeersRange
    <3>2. PICK y \in Nat : y = FiSlot(2) * 4
      BY FiSlots
    <3>3. FiFdData \in Nat /\ FiLlData \in Nat /\ FiWord \in Nat /\ FiWord > 0
      BY FiAssumption
    <3>4. FiFdData + FiWord - 1 + x + FiLlData + FiWord - 1 + y \in Nat
      BY ONLY <3>3, x \in Nat, y \in Nat
    <3> QED BY ONLY <3>1, <3>2, <3>4
  <2> PICK a \in Nat : a = slot * w /\ 2 * m <= a
    <3>1. w = 2 \/ w = 3 \/ w = 4 \/ w = 5 \/ w = 6 \/ w = 7
      OBVIOUS
    <3>2. slot * w \in Nat /\ 2 * m <= slot * w
      BY ONLY <3>1, slot \in Nat, m \in Nat, m <= slot
    <3> QED BY ONLY <3>2
  <2>3. \A j \in Nat : FiBufferSize(p, m, w, crc, j) = rest + (c + (m + 2)) * j + a
    <3> TAKE j \in Nat
    <3>1. FiBufferSize(p, m, w, crc, j) =
                FiFdData + FiWord - 1 + FiPeersCount(p) * FiPeerInfo
                + ((FiCrcField[crc] + (m + 2)) * j + FiLlData + FiWord - 1)
                + FiSlot(m) * w + FiSlot(2) * 4
      BY DEF FiBufferSize, FiLlBufSize, FiPayload, FiServiceSlots, FiHeader
    <3>2. PICK x \in Nat : x = FiPeersCount(p) * FiPeerInfo
      BY FiPeersRange
    <3>3. PICK y \in Nat : y = FiSlot(2) * 4
      BY FiSlots
    <3>4. PICK z \in Nat : z = (c + (m + 2)) * j
      BY ONLY c \in 0..4, m \in Nat, j \in Nat
    <3>5. FiFdData \in Nat /\ FiLlData \in Nat /\ FiWord \in Nat
      BY FiAssumption
    <3>6. FiBufferSize(p, m, w, crc, j) = FiFdData + FiWord - 1 + x + (z + FiLlData + FiWord - 1) + a + y
      BY ONLY <3>1, <3>2, <3>3, <3>4, c = FiCrcField[crc], slot = FiSlot(m), a = slot * w, Zenon
    <3>7. rest = FiFdData + FiWord - 1 + x + FiLlData + FiWord - 1 + y
      BY ONLY <3>2, <3>3, rest = FiFdData + FiWord - 1 + FiPeersCount(p) * FiPeerInfo + FiLlData + FiWord - 1 + FiSlot(2) * 4, Zenon
    <3>8. FiFdData + FiWord - 1 + x + (z + FiLlData + FiWord - 1) + a + y
            = (FiFdData + FiWord - 1 + x + FiLlData + FiWord - 1 + y) + z + a
      BY ONLY <3>5, x \in Nat, y \in Nat, z \in Nat, a \in Nat
    <3> QED BY ONLY <3>4, <3>6, <3>7, <3>8
  <2> PICK e \in Nat : e = c + (m + 2) /\ e <= m + 6
    OBVIOUS
  <2> PICK asked \in Nat : asked = rest + e * k + a
    OBVIOUS
  <2>4. i.size = FiU16(asked)
    <3>1. FiBufferSize(i.peers, fiSetup.mtu, fiSetup.window, fiCrc, FiRxWindow) = asked
      BY <2>1, <2>3
    <3> QED BY <2>1, <3>1
  <2> PICK size \in Nat : size = i.size /\ size < 65536
    BY <2>4, FiU16Range, SMT
  <2>5. PICK q \in Nat : asked = size + 65536 * q
    BY ONLY <2>4, asked \in Nat, size = i.size, FiU16Range, SMT
  <2>6. rest + e * 1 + a <= size
    <3>1. FiBufferSize(p, m, w, crc, one) <= size
      BY <1>1, <2>2
    <3>2. FiBufferSize(p, m, w, crc, one) = rest + e * one + a
      BY <2>3
    <3> QED BY <3>1, <3>2
  <2>7. q = 0
    <3> SUFFICES ASSUME q >= 1 PROVE FALSE
      BY SMT
    <3>1. e * k - e >= 65536
      BY ONLY <2>5, <2>6, asked = rest + e * k + a, k = 2 \/ k = 3, q >= 1, q \in Nat, size \in Nat, rest \in Nat, e \in Nat, a \in Nat, SMT
    <3>2. 2 * e >= 65536
      BY ONLY <3>1, k = 2 \/ k = 3, e \in Nat, SMT
    <3> QED BY ONLY <2>6, <3>2, 2 * m <= a, e <= m + 6, rest \in Nat, a \in Nat, m \in Nat, e \in Nat, size \in Nat, size < 65536, SMT
  <2>8. asked = size
    BY ONLY <2>5, <2>7, size \in Nat, SMT
  <2>9. FiBufferSize(i.peers, FiMtu(i), i.window, i.crc, FiRxWindow) = asked
    BY <2>2, <2>3
  <2> QED BY ONLY <2>8, <2>9, size = i.size, i = FiInitOf, k = FiRxWindow, k \in Nat, size \in Nat
<1> QED BY <1>2, <1>3

LEMMA FiInitOfKept ==
    ASSUME UNCHANGED <<fiSetup, fiSettings, fiOffset>>
    PROVE  /\ FiInitOf' = FiInitOf /\ FiLayoutOf(FiInitOf)' = FiLayoutOf(FiInitOf)
           /\ FiOutcome(FiInitOf)' = FiOutcome(FiInitOf)
<1>1. fiSetup' = fiSetup /\ fiCrc' = fiCrc /\ fiPeers' = fiPeers /\ fiAddr' = fiAddr /\ fiMode' = fiMode /\ fiOffset' = fiOffset
  BY DEF fiSettings
<1>2. FiInitOf' = FiInitOf
  BY ONLY <1>1 DEF FiInitOf, FiByHand, FiIFd, FiSerialFdLink, FiPython, FiInitStruct
<1>3. ASSUME NEW i, NEW x PROVE FiLlSize(i, x)' = FiLlSize(i, x)
  BY ONLY <1>1 DEF FiLlSize
<1>4. ASSUME NEW i PROVE FiLayoutOf(i)' = FiLayoutOf(i)
  BY ONLY <1>1, <1>3 DEF FiLayoutOf
<1>5. ASSUME NEW i, NEW l PROVE FiFits(i, l)' = FiFits(i, l)
  BY ONLY <1>1 DEF FiFits
<1>6. FiLayoutOf(FiInitOf)' = FiLayoutOf(FiInitOf)
  BY ONLY <1>2, <1>4
<1>7. FiFits(FiInitOf, FiLayoutOf(FiInitOf))' = FiFits(FiInitOf, FiLayoutOf(FiInitOf))
  BY ONLY <1>2, <1>5, <1>6
<1>8. FiValidate(FiInitOf)' = FiValidate(FiInitOf)
  BY ONLY <1>2
<1> QED BY ONLY <1>2, <1>6, <1>7, <1>8 DEF FiOutcome

LEMMA FiStarts ==
    ASSUME FiInit
    PROVE  FiInv
<1>1. FiRange
  <2>1. fiCrc \in FiCrcs
    BY DEF FiInit, FiCrcs, FiCrcField
  <2>2. fiOffset \in Nat
    BY FiWordPositive DEF FiInit
  <2> QED BY <2>1, <2>2 DEF FiInit, FiRange
<1>2. fiResult = "none" /\ fiStation.up = FALSE /\ fiEvents = 0
  BY DEF FiInit, FiNoStation
<1> QED BY ONLY <1>1, <1>2 DEF FiInv, FiMade

LEMMA FiStep ==
    ASSUME FiInv, [FiNext]_fiVars
    PROVE  FiInv'
<1>0. FiRange /\ FiMade
  BY DEF FiInv
<1>1. ASSUME fiResult = "none", UNCHANGED <<fiResult, fiStation, fiEvents>>, FiRange' PROVE FiInv'
  <2>1. ~fiStation.up /\ fiEvents = 0 /\ fiStation.up \in BOOLEAN
    BY ONLY <1>0, <1>1 DEF FiMade
  <2> QED BY ONLY <1>1, <2>1 DEF FiInv, FiMade
<1>2. CASE FiSetCrc
  BY <1>0, <1>1, <1>2 DEF FiSetCrc, FiRange
<1>3. CASE FiSetMode
  BY <1>0, <1>1, <1>3 DEF FiSetMode, FiRange
<1>4. CASE FiSetPeersCount
  BY <1>0, <1>1, <1>4 DEF FiSetPeersCount, FiRange
<1>5. CASE FiSetAddr
  BY <1>0, <1>1, <1>5 DEF FiSetAddr, FiRange
<1>6. ASSUME UNCHANGED <<fiSetup, fiSettings, fiOffset>>
      PROVE  FiRange' /\ FiInitOf' = FiInitOf /\ FiLayoutOf(FiInitOf)' = FiLayoutOf(FiInitOf)
             /\ FiOutcome(FiInitOf)' = FiOutcome(FiInitOf)
  BY <1>0, <1>6, FiInitOfKept DEF FiRange, fiSettings
<1>7. CASE FiBegin
  <2>1. /\ ~fiStation.up /\ fiResult' = FiOutcome(FiInitOf) /\ UNCHANGED <<fiSetup, fiSettings, fiOffset>>
        /\ IF FiOutcome(FiInitOf) = "SUCCESS"
           THEN /\ fiStation' = [up |-> TRUE, init |-> FiInitOf, layout |-> FiLayoutOf(FiInitOf)]
                /\ fiEvents' = fiEvents + FiPeersCount(FiInitOf.peers) + 1
           ELSE UNCHANGED <<fiStation, fiEvents>>
    BY ONLY <1>7 DEF FiBegin
  <2>2. FiRange' /\ FiInitOf' = FiInitOf /\ FiLayoutOf(FiInitOf)' = FiLayoutOf(FiInitOf)
        /\ FiOutcome(FiInitOf)' = FiOutcome(FiInitOf)
    BY ONLY <1>6, <2>1
  <2>3. fiEvents = 0 /\ fiStation.up \in BOOLEAN
    BY ONLY <1>0, <2>1 DEF FiMade
  <2>4. CASE FiOutcome(FiInitOf) = "SUCCESS"
    <3>1. fiStation'.up = TRUE /\ fiStation' = [up |-> TRUE, init |-> FiInitOf, layout |-> FiLayoutOf(FiInitOf)]
      BY ONLY <2>1, <2>4
    <3>2. FiPeersCount(FiInitOf.peers) \in Nat
      <4>1. FiInitOf.peers \in 0..63
        BY ONLY <1>0, FiInitOfIs DEF FiInitTyped
      <4> QED BY ONLY <4>1, FiPeersRange
    <3>3. fiEvents' = FiPeersCount(FiInitOf.peers) + 1
      BY ONLY <2>1, <2>3, <2>4, <3>2
    <3> QED BY ONLY <2>1, <2>2, <2>4, <3>1, <3>3 DEF FiInv, FiMade
  <2>5. CASE FiOutcome(FiInitOf) # "SUCCESS"
    <3>1. fiStation' = fiStation /\ fiEvents' = 0
      BY ONLY <2>1, <2>3, <2>5
    <3> QED BY ONLY <2>1, <2>2, <2>3, <3>1 DEF FiInv, FiMade
  <2> QED BY <2>4, <2>5
<1>8. CASE FiClose
  <2>1. /\ fiStation.up /\ fiStation' = FiNoStation /\ fiEvents' = fiEvents - (fiStation.layout.peersCount + 1)
        /\ UNCHANGED <<fiSetup, fiSettings, fiOffset, fiResult>>
    BY ONLY <1>8 DEF FiClose
  <2>2. FiRange' /\ FiInitOf' = FiInitOf /\ FiOutcome(FiInitOf)' = FiOutcome(FiInitOf)
    BY ONLY <1>6, <2>1
  <2>3. fiEvents = FiPeersCount(FiInitOf.peers) + 1 /\ fiStation.layout = FiLayoutOf(FiInitOf)
    BY ONLY <1>0, <2>1 DEF FiMade
  <2>4. fiStation.layout.peersCount = FiPeersCount(FiInitOf.peers)
    BY ONLY <2>3, FiLayoutChain DEF FiChain
  <2>5. FiPeersCount(FiInitOf.peers) \in Nat
    <3>1. FiInitOf.peers \in 0..63
      BY ONLY <1>0, FiInitOfIs DEF FiInitTyped
    <3> QED BY ONLY <3>1, FiPeersRange
  <2>6. fiEvents' = 0
    BY ONLY <2>1, <2>3, <2>4, <2>5
  <2>7. fiStation'.up = FALSE
    BY ONLY <2>1 DEF FiNoStation
  <2>8. fiResult' # "none" => fiResult' = FiOutcome(FiInitOf)
    BY ONLY <1>0, <2>1 DEF FiMade
  <2> QED BY ONLY <2>2, <2>6, <2>7, <2>8 DEF FiInv, FiMade
<1>9. CASE UNCHANGED fiVars
  <2>1. UNCHANGED <<fiSetup, fiSettings, fiOffset>> /\ UNCHANGED <<fiResult, fiStation, fiEvents>>
    BY ONLY <1>9 DEF fiVars
  <2>2. FiRange' /\ FiInitOf' = FiInitOf /\ FiLayoutOf(FiInitOf)' = FiLayoutOf(FiInitOf)
        /\ FiOutcome(FiInitOf)' = FiOutcome(FiInitOf)
    BY ONLY <1>6, <2>1
  <2> QED BY ONLY <1>0, <2>1, <2>2 DEF FiInv, FiMade
<1> QED BY <1>2, <1>3, <1>4, <1>5, <1>7, <1>8, <1>9 DEF FiNext

LEMMA FiInvLaysOut ==
    ASSUME FiWord > 4, FiInv
    PROVE  FiLayout
<1> PICK i : i = FiInitOf
  OBVIOUS
<1>0. FiRange /\ FiMade /\ fiOffset \in Nat
  BY DEF FiInv, FiRange
<1>1. FiInitTyped(i)
  BY <1>0, FiInitOfIs
<1>2. FiRefusedForPadding
  <2> SUFFICES ASSUME fiOffset = 0, fiResult # "none", FiValidate(i) = "SUCCESS", ~(FiPad(i) > 4)
               PROVE  fiResult = "SUCCESS"
    BY DEF FiRefusedForPadding
  <2>1. FiFits(i, FiLayoutOf(i)) = "SUCCESS"
    BY <1>1, FiNotRefused
  <2>2. fiResult = FiOutcome(i)
    BY <1>0 DEF FiMade
  <2> QED BY <2>1, <2>2 DEF FiOutcome
<1>3. CASE ~fiStation.up
  <2>1. fiEvents = 0
    BY ONLY <1>0, <1>3 DEF FiMade
  <2> QED BY ONLY <1>2, <1>3, <2>1 DEF FiLayout
<1>4. CASE fiStation.up
  <2> PICK l : l = FiLayoutOf(i) /\ FiChain(i, l)
    BY FiLayoutChain
  <2>1. fiStation.layout = l /\ fiStation.init = i /\ FiOutcome(i) = "SUCCESS" /\ fiEvents = FiPeersCount(i.peers) + 1
    BY ONLY <1>0, <1>4, i = FiInitOf, l = FiLayoutOf(i) DEF FiMade
  <2>2. FiValidate(i) = "SUCCESS" /\ FiFits(i, l) = "SUCCESS"
    BY ONLY <2>1, l = FiLayoutOf(i) DEF FiOutcome
  <2>3. FiMtu(i) \in Nat
    BY ONLY <1>1, <2>2, FiValidated
  <2>4. FiOrdered(l)
    <3>1. PICK a, b, p : FiNumbers(i, a, b, p)
      BY ONLY <1>1, <2>3, FiNumbersExist
    <3> QED BY ONLY <1>0, <1>1, <2>3, <3>1, FiChain(i, l), FiChainOrdered
  <2>5. FiAreasApart(i, l)
    <3>1. ~(l.end > fiOffset + i.size) /\ ~(l.rxEnd < l.rxBuf)
      BY ONLY <2>2 DEF FiFits
    <3>2. i.size \in Nat /\ FiFdData \in Nat
      BY <1>1, FiAssumption DEF FiInitTyped
    <3>3. l.end \in Int /\ l.rxEnd \in Int /\ l.rxBuf \in Int /\ l.data \in Int
      BY ONLY <2>4 DEF FiOrdered
    <3>4. l.end <= fiOffset + i.size /\ l.rxBuf <= l.rxEnd
      BY ONLY <1>0, <3>1, <3>2, <3>3
    <3>5. l.data + FiFdData <= l.ll /\ l.rxEnd <= l.iQueue
      BY ONLY <2>4, <3>2, <3>3 DEF FiOrdered
    <3> QED BY ONLY <2>4, <3>4, <3>5 DEF FiAreasApart, FiOrdered
  <2>6. FiAreasAligned(l)
    BY ONLY <2>4 DEF FiAreasAligned, FiOrdered
  <2>7. FiInvalidPeer \notin {l.addr, l.addr + 2}
    <3>1. l.addr = fiAddr * 4 + 1 /\ fiAddr \in 0..62
      BY <1>0 DEF FiChain, FiRange
    <3> QED BY ONLY <3>1 DEF FiInvalidPeer
  <2>8. ASSUME fiOffset = 0, i.crc # "OFF" PROVE FiRxWindow * l.physMtu <= l.rxEnd - l.rxBuf
    <3>1. FiRxWindow \in Nat /\ FiBufferSize(i.peers, FiMtu(i), i.window, i.crc, FiRxWindow) <= i.size
      BY ONLY <1>0, <2>2, i = FiInitOf, FiRoomAsked
    <3>2. (FiCrcField[i.crc] + (FiMtu(i) + 2)) * FiRxWindow <= l.rxEnd - l.rxBuf
      BY ONLY <1>1, <2>3, <2>8, <3>1, FiWord > 4, FiChain(i, l), FiRxRoom
    <3>3. l.physMtu = FiMtu(i) + 2 + FiCrcField[i.crc]
      BY ONLY <2>8, FiChain(i, l) DEF FiChain
    <3>4. FiCrcField[i.crc] \in Nat
      BY <1>1, FiCrcFields DEF FiInitTyped
    <3>5. FiRxWindow * l.physMtu = (FiCrcField[i.crc] + (FiMtu(i) + 2)) * FiRxWindow
      BY ONLY <2>3, <3>1, <3>3, <3>4
    <3> QED BY ONLY <3>2, <3>5
  <2>9. fiEvents = l.peersCount + 1
    BY ONLY <2>1, FiChain(i, l) DEF FiChain
  <2> QED BY ONLY <1>2, <1>4, <2>1, <2>5, <2>6, <2>7, <2>8, <2>9 DEF FiLayout
<1> QED BY <1>3, <1>4

(* FiLayout: whatever an owner asks tiny_fd_init for, the areas of a       *)
(* station that comes up lie apart and aligned inside its buffer, no       *)
(* address is the one of no peer, an aligned buffer holds the received     *)
(* frames it was made for, and one that passed the validation is refused   *)
(* only for the padding behind the I-frames.  Words have more than four    *)
(* bytes: with four, the four bytes tiny_fd_init keeps back are a word     *)
(* that the receive buffer lacks.                                          *)
THEOREM FiAlwaysLaysOut ==
    ASSUME FiWord > 4
    PROVE  FiSpec => []FiLayout
<1>1. FiInit => FiInv
  BY FiStarts
<1>2. FiInv /\ [FiNext]_fiVars => FiInv'
  BY FiStep
<1>3. FiInv => FiLayout
  BY FiInvLaysOut
<1> QED BY <1>1, <1>2, <1>3, PTL DEF FiSpec
==============================================================================
