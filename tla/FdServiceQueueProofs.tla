------------------------ MODULE FdServiceQueueProofs ------------------------
(***************************************************************************)
(* With one peer the service queue implements BoundedFifo.  The code keeps  *)
(* no order of arrival: it searches the slots circularly from lookup_index. *)
(* The invariant says why this is enough: the occupied slots are always the *)
(* first ones of the search order, so a new frame lands right behind them   *)
(* and the frame being transmitted is in the slot lookup_index.             *)
(***************************************************************************)
EXTENDS FdServiceQueue, SequenceTheorems, FiniteSetTheorems, TLAPS

\* Both ends of an ABM link have one peer, so every frame carries one address.
OneAddress == \A a, b \in Addresses : a = b

\* The occupied slots are the first n that the search looks at.
Occupied(n) == \A k \in Slots : frames[Place(k)].type # "FREE" <=> k < n

SlotStates == {FreeSlot} \cup {Slot(a, f) : a \in Addresses, f \in ServiceFrames}

SqTypes ==
  /\ frames \in [Slots -> SlotStates]
  /\ lookup_index \in Slots
  /\ sending \in {-1, lookup_index}

SqInv ==
  /\ SqTypes
  /\ \E n \in 0 .. SuSize : Occupied(n) /\ (sending # -1 => n > 0)

-----------------------------------------------------------------------------
(* Slots and places in the search order *)

LEMMA FilledSlot ==
  ASSUME NEW a \in Addresses, NEW f \in ServiceFrames
  PROVE  /\ Slot(a, f).type = "SU" /\ Slot(a, f).address = a /\ Slot(a, f).data = f
         /\ Slot(a, f) \in SlotStates
BY DEF Slot, SlotStates

LEMMA EmptySlot == FreeSlot.type = "FREE" /\ FreeSlot \in SlotStates
BY DEF FreeSlot, SlotStates

\* An occupied slot holds a frame.
LEMMA SlotTypes ==
  ASSUME SqTypes, NEW i \in Slots
  PROVE  /\ frames[i].type \in {"FREE", "SU"}
         /\ frames[i].type = "SU" => frames[i].address \in Addresses /\ frames[i].data \in ServiceFrames
         /\ frames[i].type = "FREE" => frames[i] = FreeSlot
<1>1. CASE frames[i] = FreeSlot
    BY <1>1 DEF FreeSlot
<1>2. CASE \E a \in Addresses, f \in ServiceFrames : frames[i] = Slot(a, f)
    BY <1>2, FilledSlot DEF Slot
<1> QED
    BY <1>1, <1>2 DEF SqTypes, SlotStates

\* Passed is the inverse of Place.
LEMMA PlacePassed ==
  ASSUME SqTypes
  PROVE  /\ \A k \in Slots : Place(k) \in Slots /\ Passed(SuSize, lookup_index, Place(k)) = k
         /\ \A i \in Slots : /\ Passed(SuSize, lookup_index, i) \in Slots
                             /\ Place(Passed(SuSize, lookup_index, i)) = i
         /\ Place(0) = lookup_index
BY SuSizeAssumption DEF SqTypes, Slots, Place, Passed

LEMMA PlacesDiffer ==
  ASSUME SqTypes, NEW j \in Slots, NEW k \in Slots, Place(j) = Place(k)
  PROVE  j = k
BY PlacePassed

-----------------------------------------------------------------------------
(* The queue of the refinement, without cardinalities *)

LEMMA NthOfInterval ==
  ASSUME NEW n \in Nat, NEW m \in 1 .. n
  PROVE  (CHOOSE k \in 0 .. n - 1 : Cardinality({j \in 0 .. n - 1 : j < k}) = m - 1) = m - 1
<1>1. ASSUME NEW k \in 0 .. n - 1
      PROVE  Cardinality({j \in 0 .. n - 1 : j < k}) = k
    <2>1. {j \in 0 .. n - 1 : j < k} = 0 .. k - 1
        OBVIOUS
    <2>2. Cardinality(0 .. k - 1) = k
        BY FS_Interval, k - 1 \in Int
    <2> QED
        BY <2>1, <2>2
<1>2. m - 1 \in 0 .. n - 1
    OBVIOUS
<1> QED
    BY <1>1, <1>2

QueueFrom(n) == [m \in 1 .. n |-> frames[Place(m - 1)].data]

QueueShape == \A n \in 0 .. SuSize : Occupied(n) => Queue = QueueFrom(n)

LEMMA QueueHasShape == SqTypes => QueueShape
<1> SUFFICES ASSUME SqTypes, NEW n \in 0 .. SuSize, Occupied(n)
             PROVE  Queue = QueueFrom(n)
    BY DEF QueueShape
<1>1. n \in Nat
    BY SuSizeAssumption
<1>2. Waiting = 0 .. n - 1
    BY SuSizeAssumption DEF Waiting, Occupied, Slots
<1>3. Cardinality(Waiting) = n
    BY <1>1, <1>2, FS_Interval, n - 1 \in Int
<1>4. \A m \in 1 .. n : Nth(m) = m - 1
    BY <1>1, <1>2, NthOfInterval DEF Nth
<1> QED
    BY <1>3, <1>4 DEF Queue, QueueFrom

LEMMA QueueOfFrames ==
  ASSUME SqTypes, NEW n \in 0 .. SuSize, Occupied(n)
  PROVE  QueueFrom(n) \in [1 .. n -> ServiceFrames]
<1> SUFFICES ASSUME NEW m \in 1 .. n
             PROVE  frames[Place(m - 1)].data \in ServiceFrames
    BY DEF QueueFrom
<1>1. m - 1 \in Slots /\ m - 1 < n
    BY SuSizeAssumption DEF Slots
<1>2. frames[Place(m - 1)].type # "FREE"
    BY <1>1 DEF Occupied
<1> QED
    BY <1>1, <1>2, PlacePassed, SlotTypes

-----------------------------------------------------------------------------
(* What the searches find *)

\* A free slot is looked for: the first one behind the occupied ones.
LEMMA PutFindsEnd ==
  ASSUME SqTypes, NEW n \in 0 .. SuSize, Occupied(n), NEW a, NEW i \in Slots,
         GetNextIs(frames, SuSize, lookup_index, {"FREE"}, a, 0, i)
  PROVE  n < SuSize /\ i = Place(n)
<1> DEFINE P == Passed(SuSize, lookup_index, i)
<1>1. P \in Slots /\ Place(P) = i
    BY PlacePassed
<1>2. frames[Place(P)].type = "FREE"
    BY <1>1 DEF GetNextIs, Matches
<1>3. ~(P < n)
    BY <1>1, <1>2 DEF Occupied
<1>4. n < SuSize /\ n \in Slots
    BY <1>1, <1>3, SuSizeAssumption DEF Slots
<1>5. frames[Place(n)].type = "FREE" /\ Place(n) \in Slots
    BY <1>4, PlacePassed, SuSizeAssumption DEF Occupied, Slots
<1>6. Matches(frames[Place(n)], {"FREE"}, a, 0)
    BY <1>5 DEF Matches
<1>7. P <= Passed(SuSize, lookup_index, Place(n))
    BY <1>5, <1>6 DEF GetNextIs, Slots
<1>8. Passed(SuSize, lookup_index, Place(n)) = n
    BY <1>4, PlacePassed
<1>9. P = n
    BY <1>1, <1>3, <1>7, <1>8, SuSizeAssumption DEF Slots
<1> QED
    BY <1>1, <1>4, <1>9

\* A frame is looked for: the one in slot lookup_index.
LEMMA FetchFindsHead ==
  ASSUME OneAddress, SqTypes, NEW n \in 0 .. SuSize, Occupied(n), NEW a \in Addresses,
         NEW i \in Slots, GetNextIs(frames, SuSize, lookup_index, {"SU"}, a, 0, i)
  PROVE  n > 0 /\ i = lookup_index
<1> DEFINE P == Passed(SuSize, lookup_index, i)
<1>1. P \in Slots /\ Place(P) = i
    BY PlacePassed
<1>2. frames[Place(P)].type = "SU"
    BY <1>1 DEF GetNextIs, Matches
<1>3. P < n
    BY <1>1, <1>2 DEF Occupied
<1>4. n > 0 /\ 0 \in Slots
    BY <1>1, <1>3, SuSizeAssumption DEF Slots
<1>5. frames[lookup_index].type = "SU" /\ lookup_index \in Slots
    BY <1>4, PlacePassed, SlotTypes DEF Occupied, SqTypes
<1>6. frames[lookup_index].address = a
    BY <1>5, SlotTypes DEF OneAddress
<1>7. Matches(frames[lookup_index], {"SU"}, a, 0)
    BY <1>5, <1>6 DEF Matches
<1>8. P <= Passed(SuSize, lookup_index, lookup_index)
    BY <1>5, <1>7 DEF GetNextIs, Slots
<1>9. P <= 0
    BY <1>4, <1>8, PlacePassed
<1>10. P = 0
    BY <1>1, <1>9, SuSizeAssumption DEF Slots
<1> QED
    BY <1>1, <1>4, <1>10, PlacePassed

-----------------------------------------------------------------------------
(* The steps *)

LEMMA PutStep ==
  ASSUME SqTypes, NEW n \in 0 .. SuSize, Occupied(n),
         NEW a \in Addresses, NEW f \in ServiceFrames, NEW i \in Slots, Put(a, f, i)
  PROVE  /\ SqTypes'
         /\ n + 1 \in 0 .. SuSize
         /\ Occupied(n + 1)'
         /\ \A k \in 1 .. n : QueueFrom(n + 1)'[k] = QueueFrom(n)[k]
         /\ QueueFrom(n + 1)'[n + 1] = f
<1>1. n < SuSize /\ i = Place(n) /\ n \in Slots /\ i \in Slots
    BY PutFindsEnd, SuSizeAssumption DEF Put, Slots
<1>2. SqTypes'
    BY FilledSlot DEF Put, SqTypes
<1>3. \A k \in Slots : Place(k)' = Place(k)
    BY DEF Put, Place
<1>4. \A k \in Slots : k # n => frames'[Place(k)] = frames[Place(k)]
    BY <1>1, PlacesDiffer, PlacePassed DEF Put, SqTypes
<1>5. frames'[Place(n)] = Slot(a, f)
    BY <1>1 DEF Put, SqTypes
<1>6. Occupied(n + 1)'
    <2> SUFFICES ASSUME NEW k \in Slots
                 PROVE  frames'[Place(k)].type # "FREE" <=> k < n + 1
        BY <1>3 DEF Occupied
    <2>1. CASE k = n
        BY <2>1, <1>5, FilledSlot, SuSizeAssumption
    <2>2. CASE k # n
        <3>1. frames[Place(k)].type # "FREE" <=> k < n
            BY DEF Occupied
        <3>2. k < n <=> k < n + 1
            BY <2>2, SuSizeAssumption DEF Slots
        <3> QED
            BY <2>2, <3>1, <3>2, <1>4
    <2> QED
        BY <2>1, <2>2
<1>7. ASSUME NEW k \in 1 .. n
      PROVE  QueueFrom(n + 1)'[k] = QueueFrom(n)[k]
    <2>1. k - 1 \in Slots /\ k - 1 # n /\ k \in 1 .. n + 1
        BY SuSizeAssumption DEF Slots
    <2> QED
        BY <2>1, <1>3, <1>4 DEF QueueFrom
<1>8. QueueFrom(n + 1)'[n + 1] = f
    <2>1. n + 1 \in 1 .. n + 1 /\ (n + 1) - 1 = n
        BY SuSizeAssumption
    <2>2. QueueFrom(n + 1)'[n + 1] = frames'[Place(n)'].data
        BY <2>1 DEF QueueFrom
    <2> QED
        BY <2>2, <1>1, <1>3, <1>5, FilledSlot
<1>9. n + 1 \in 0 .. SuSize
    BY <1>1, SuSizeAssumption
<1> QED
    BY <1>2, <1>6, <1>7, <1>8, <1>9

LEMMA SentStep ==
  ASSUME SqTypes, NEW n \in 0 .. SuSize, Occupied(n), n > 0, Sent
  PROVE  /\ SqTypes'
         /\ n - 1 \in 0 .. SuSize
         /\ Occupied(n - 1)'
         /\ \A k \in 1 .. n - 1 : QueueFrom(n - 1)'[k] = QueueFrom(n)[k + 1]
<1>1. /\ sending = lookup_index /\ lookup_index \in Slots
      /\ frames' = [frames EXCEPT ![lookup_index] = FreeSlot]
      /\ lookup_index' = LookupAfter(SuSize, lookup_index)
      /\ sending' = -1
    BY DEF Sent, SqTypes, Free
<1>2. lookup_index' \in Slots
    BY <1>1, SuSizeAssumption DEF LookupAfter, Slots
<1>3. SqTypes'
    BY <1>1, <1>2, EmptySlot DEF SqTypes
<1>4. \A k \in Slots : k + 1 < SuSize => Place(k)' = Place(k + 1) /\ k + 1 \in Slots
    <2>1. CASE lookup_index + 1 >= SuSize
        BY <2>1, <1>1, SuSizeAssumption DEF Place, LookupAfter, Slots
    <2>2. CASE ~(lookup_index + 1 >= SuSize)
        BY <2>2, <1>1, SuSizeAssumption DEF Place, LookupAfter, Slots
    <2> QED
        BY <2>1, <2>2
<1>5. \A k \in Slots : ~(k + 1 < SuSize) => Place(k)' = lookup_index
    <2>1. CASE lookup_index + 1 >= SuSize
        BY <2>1, <1>1, SuSizeAssumption DEF Place, LookupAfter, Slots
    <2>2. CASE ~(lookup_index + 1 >= SuSize)
        BY <2>2, <1>1, SuSizeAssumption DEF Place, LookupAfter, Slots
    <2> QED
        BY <2>1, <2>2
<1>6. \A k \in Slots : k # 0 => frames'[Place(k)] = frames[Place(k)]
    <2> SUFFICES ASSUME NEW k \in Slots, k # 0
                 PROVE  frames'[Place(k)] = frames[Place(k)]
        OBVIOUS
    <2>1. 0 \in Slots
        BY SuSizeAssumption DEF Slots
    <2>2. Place(k) # lookup_index /\ Place(k) \in Slots
        BY <2>1, PlacePassed, PlacesDiffer
    <2> QED
        BY <2>2, <1>1 DEF SqTypes
<1>7. Occupied(n - 1)'
    <2> SUFFICES ASSUME NEW k \in Slots
                 PROVE  frames'[Place(k)'].type # "FREE" <=> k < n - 1
        BY DEF Occupied
    <2>1. CASE k + 1 < SuSize
        <3>1. k + 1 \in Slots /\ k + 1 # 0 /\ Place(k)' = Place(k + 1)
            BY <2>1, <1>4, SuSizeAssumption DEF Slots
        <3>2. frames'[Place(k)'] = frames[Place(k + 1)]
            BY <3>1, <1>6
        <3>3. frames[Place(k + 1)].type # "FREE" <=> k + 1 < n
            BY <3>1 DEF Occupied
        <3>4. k + 1 < n <=> k < n - 1
            BY SuSizeAssumption DEF Slots
        <3> QED
            BY <3>2, <3>3, <3>4
    <2>2. CASE ~(k + 1 < SuSize)
        <3>1. frames'[Place(k)'] = FreeSlot
            BY <2>2, <1>5, <1>1 DEF SqTypes
        <3>2. ~(k < n - 1)
            BY <2>2, SuSizeAssumption DEF Slots
        <3> QED
            BY <3>1, <3>2 DEF FreeSlot
    <2> QED
        BY <2>1, <2>2
<1>8. ASSUME NEW k \in 1 .. n - 1
      PROVE  QueueFrom(n - 1)'[k] = QueueFrom(n)[k + 1]
    <2>1. /\ k - 1 \in Slots /\ (k - 1) + 1 < SuSize /\ (k - 1) + 1 = k /\ k \in Slots /\ k # 0
          /\ k + 1 \in 1 .. n /\ (k + 1) - 1 = k
        BY SuSizeAssumption DEF Slots
    <2>2. Place(k - 1)' = Place(k)
        BY <2>1, <1>4
    <2>3. QueueFrom(n - 1)'[k] = frames'[Place(k - 1)'].data
        BY DEF QueueFrom
    <2>4. QueueFrom(n)[k + 1] = frames[Place(k)].data
        BY <2>1 DEF QueueFrom
    <2> QED
        BY <2>1, <2>2, <2>3, <2>4, <1>6
<1>9. n - 1 \in 0 .. SuSize
    BY SuSizeAssumption
<1> QED
    BY <1>3, <1>7, <1>8, <1>9

\* A step that leaves the slots and lookup_index alone leaves the queue alone.
LEMMA QueueStays ==
  ASSUME UNCHANGED <<frames, lookup_index>>
  PROVE  Queue' = Queue /\ \A n : Occupied(n)' <=> Occupied(n)
<1>1. \A k : Place(k)' = Place(k)
    BY DEF Place
<1>2. Waiting' = Waiting
    BY <1>1 DEF Waiting
<1>3. \A n : Nth(n)' = Nth(n)
    BY <1>2 DEF Nth
<1>4. Queue' = Queue
    BY <1>1, <1>2, <1>3, Zenon DEF Queue
<1> QED
    BY <1>1, <1>4 DEF Occupied

-----------------------------------------------------------------------------
(* The invariant *)

LEMMA SqInitInv == SqInit => SqInv
<1> SUFFICES ASSUME SqInit PROVE SqInv
    OBVIOUS
<1>1. SqTypes
    BY SuSizeAssumption, EmptySlot DEF SqInit, SqTypes, QueueReset, Slots
<1>2. Occupied(0)
    <2> SUFFICES ASSUME NEW k \in Slots
                 PROVE  frames[Place(k)].type = "FREE" /\ ~(k < 0)
        BY DEF Occupied
    <2>1. Place(k) \in Slots
        BY <1>1, PlacePassed
    <2> QED
        BY <2>1, SuSizeAssumption DEF SqInit, QueueReset, FreeSlot, Slots
<1> QED
    BY <1>1, <1>2, SuSizeAssumption DEF SqInit, SqInv

\* One step, with the number of occupied slots before it.
LEMMA SqStep ==
  ASSUME OneAddress, SqTypes, NEW n \in 0 .. SuSize, Occupied(n), sending # -1 => n > 0, SqNext
  PROVE  SqInv'
<1>1. ASSUME NEW a \in Addresses, NEW f \in ServiceFrames, NEW i \in Slots, Put(a, f, i)
      PROVE  SqInv'
    <2>1. SqTypes' /\ n + 1 \in 0 .. SuSize /\ Occupied(n + 1)'
        BY <1>1, PutStep
    <2>2. n + 1 > 0
        BY SuSizeAssumption
    <2> QED
        BY <2>1, <2>2 DEF SqInv
<1>2. ASSUME NEW a \in Addresses, NEW i \in Slots, Fetch(a, i)
      PROVE  SqInv'
    <2>1. n > 0 /\ i = lookup_index
        BY <1>2, FetchFindsHead DEF Fetch
    <2>2. SqTypes'
        BY <1>2, <2>1 DEF Fetch, SqTypes
    <2>3. Occupied(n)'
        BY <1>2, QueueStays DEF Fetch
    <2> QED
        BY <2>1, <2>2, <2>3 DEF SqInv
<1>3. CASE Sent
    <2>1. n > 0
        BY <1>3 DEF Sent
    <2>2. SqTypes' /\ n - 1 \in 0 .. SuSize /\ Occupied(n - 1)'
        BY <1>3, <2>1, SentStep
    <2>3. sending' = -1
        BY <1>3 DEF Sent
    <2> QED
        BY <2>2, <2>3 DEF SqInv
<1> QED
    BY <1>1, <1>2, <1>3 DEF SqNext

LEMMA SqInvariant ==
  ASSUME OneAddress
  PROVE  SqSpec => []SqInv
<1>1. SqInv /\ [SqNext]_sqVars => SqInv'
    <2> SUFFICES ASSUME SqInv, [SqNext]_sqVars PROVE SqInv'
        OBVIOUS
    <2>1. PICK n \in 0 .. SuSize : Occupied(n) /\ (sending # -1 => n > 0)
        BY DEF SqInv
    <2>2. CASE SqNext
        BY <2>1, <2>2, SqStep DEF SqInv
    <2>3. CASE UNCHANGED sqVars
        <3>1. SqTypes'
            BY <2>3 DEF SqInv, SqTypes, sqVars
        <3>2. Occupied(n)'
            BY <2>1, <2>3, QueueStays DEF sqVars
        <3>3. sending' # -1 => n > 0
            BY <2>1, <2>3 DEF sqVars
        <3> QED
            BY <2>1, <3>1, <3>2, <3>3 DEF SqInv
    <2> QED
        BY <2>2, <2>3
<1> QED
    BY <1>1, SqInitInv, PTL DEF SqSpec

-----------------------------------------------------------------------------
(* The refinement *)

\* A frame that was put is at the end of the queue.
LEMMA PutAppends ==
  ASSUME SqTypes, QueueShape, QueueShape', NEW n \in 0 .. SuSize, Occupied(n),
         NEW a \in Addresses, NEW f \in ServiceFrames, NEW i \in Slots, Put(a, f, i)
  PROVE  Fifo!Put(f)
<1> DEFINE q == QueueFrom(n)
           r == QueueFrom(n + 1)'
<1>1. /\ SqTypes' /\ n + 1 \in 0 .. SuSize /\ Occupied(n + 1)'
      /\ \A k \in 1 .. n : r[k] = q[k]
      /\ r[n + 1] = f
    BY PutStep
<1>2. Queue = q
    BY DEF QueueShape
<1>3. Queue' = r
    BY <1>1 DEF QueueShape
<1>4. n \in Nat /\ n < SuSize
    BY <1>1, SuSizeAssumption
<1>5. q \in [1 .. n -> ServiceFrames]
    BY QueueOfFrames
<1>6. r \in [1 .. n + 1 -> ServiceFrames]
    <2>1. \A m \in 1 .. n + 1 : r[m] \in ServiceFrames
        <3> TAKE m \in 1 .. n + 1
        <3>1. m \in 1 .. n \/ m = n + 1
            BY <1>4
        <3> QED
            BY <3>1, <1>1, <1>5
    <2> QED
        BY <2>1 DEF QueueFrom
<1> HIDE DEF q, r
<1>7. Len(q) = n /\ q \in Seq(ServiceFrames)
    BY <1>4, <1>5, SeqDef
<1>8. Len(r) = n + 1 /\ r \in Seq(ServiceFrames)
    BY <1>4, <1>6, SeqDef
<1>9. /\ Append(q, f) \in Seq(ServiceFrames) /\ Len(Append(q, f)) = n + 1
      /\ \A k \in 1 .. n : Append(q, f)[k] = q[k]
      /\ Append(q, f)[n + 1] = f
    BY <1>7, AppendProperties
<1>10. \A k \in 1 .. n + 1 : r[k] = Append(q, f)[k]
    BY <1>1, <1>4, <1>9
<1>11. r = Append(q, f)
    BY <1>8, <1>9, <1>10, SeqEqual
<1> QED
    BY <1>2, <1>3, <1>4, <1>7, <1>11 DEF Fifo!Put

\* The frame that was transmitted was the first.
LEMMA SentIsTail ==
  ASSUME SqTypes, SqTypes', QueueShape, QueueShape', NEW n \in 0 .. SuSize, Occupied(n), n > 0, Sent
  PROVE  Fifo!Get
<1> DEFINE q == QueueFrom(n)
           r == QueueFrom(n - 1)'
<1>1. /\ n - 1 \in 0 .. SuSize /\ Occupied(n - 1)'
      /\ \A k \in 1 .. n - 1 : r[k] = q[k + 1]
    BY SentStep
<1>2. Queue = q
    BY DEF QueueShape
<1>3. Queue' = r
    BY <1>1 DEF QueueShape
<1>4. n \in Nat /\ n - 1 \in Nat
    BY SuSizeAssumption
<1>5. q \in [1 .. n -> ServiceFrames]
    BY QueueOfFrames
<1>6. r \in [1 .. n - 1 -> ServiceFrames]
    <2>1. \A m \in 1 .. n - 1 : r[m] \in ServiceFrames
        <3> TAKE m \in 1 .. n - 1
        <3>1. m + 1 \in 1 .. n
            BY <1>4
        <3> QED
            BY <3>1, <1>1, <1>5
    <2> QED
        BY <2>1 DEF QueueFrom
<1> HIDE DEF q, r
<1>7. Len(q) = n /\ q \in Seq(ServiceFrames)
    BY <1>4, <1>5, SeqDef
<1>8. Len(r) = n - 1 /\ r \in Seq(ServiceFrames)
    BY <1>4, <1>6, SeqDef
<1>9. q # <<>>
    BY <1>7, EmptySeq
<1>10. /\ Tail(q) \in Seq(ServiceFrames) /\ Len(Tail(q)) = n - 1
       /\ \A k \in 1 .. n - 1 : Tail(q)[k] = q[k + 1]
    BY <1>7, <1>9, HeadTailProperties
<1>11. r = Tail(q)
    BY <1>1, <1>8, <1>10, SeqEqual
<1> QED
    BY <1>2, <1>3, <1>9, <1>11 DEF Fifo!Get

\* With one peer the service queue refines BoundedFifo: S- and U-frames go out in
\* the order __put_u_s_frame_to_tx_queue took them, none twice and none skipped,
\* and at most SuSize wait, for every queue size and every choice of frames.
THEOREM ServiceQueueImplementsFifo ==
  ASSUME OneAddress
  PROVE  SqSpec => ImplementsFifo
<1>1. SqInit => Fifo!Init
    <2> SUFFICES ASSUME SqInit PROVE Queue = <<>>
        BY DEF Fifo!Init
    <2>1. SqTypes
        BY SqInitInv DEF SqInv
    <2>2. \A k \in Slots : frames[Place(k)].type = "FREE"
        BY <2>1, PlacePassed DEF SqInit, QueueReset, FreeSlot, Slots
    <2>3. Waiting = {}
        BY <2>2 DEF Waiting
    <2>4. Cardinality(Waiting) = 0
        BY <2>3, FS_EmptySet
    <2> QED
        BY <2>4 DEF Queue
<1>2. SqInv => QueueShape
    BY QueueHasShape DEF SqInv
<1>3. /\ SqInv /\ SqInv' /\ QueueShape /\ QueueShape' /\ [SqNext]_sqVars
      => [Fifo!Next]_Queue
    <2> SUFFICES ASSUME SqInv, SqInv', QueueShape, QueueShape', [SqNext]_sqVars
                 PROVE  Fifo!Next \/ Queue' = Queue
        OBVIOUS
    <2>1. PICK n \in 0 .. SuSize : Occupied(n) /\ (sending # -1 => n > 0)
        BY DEF SqInv
    <2>2. ASSUME NEW a \in Addresses, NEW f \in ServiceFrames, NEW i \in Slots, Put(a, f, i)
          PROVE  Fifo!Next
        BY <2>1, <2>2, PutAppends DEF SqInv, Fifo!Next
    <2>3. ASSUME NEW a \in Addresses, NEW i \in Slots, Fetch(a, i)
          PROVE  Queue' = Queue
        BY <2>3, QueueStays DEF Fetch
    <2>4. CASE Sent
        <3>1. n > 0
            BY <2>1, <2>4 DEF Sent
        <3>2. Fifo!Get
            BY <2>1, <2>4, <3>1, SentIsTail DEF SqInv
        <3> QED
            BY <3>2 DEF Fifo!Next
    <2>5. CASE UNCHANGED sqVars
        BY <2>5, QueueStays DEF sqVars
    <2> QED
        BY <2>2, <2>3, <2>4, <2>5 DEF SqNext
<1> QED
    BY <1>1, <1>2, <1>3, SqInvariant, PTL DEF SqSpec, ImplementsFifo, Fifo!Spec
=============================================================================
