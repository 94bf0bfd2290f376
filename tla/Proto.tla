-------------------------------- MODULE Proto --------------------------------
(***************************************************************************)
(* The receiving side and the life cycle of tinyproto::Proto               *)
(* (TinyProtocol.cpp).  Frames come from the link through onRead, which    *)
(* takes a packet from the pool and appends it to the queue; read() takes  *)
(* the first of the queue, release() puts it back in the pool.  Pool and   *)
(* queue are linked lists through m_next.  In multithread mode two threads *)
(* run the link between begin() and end(); otherwise read() does.          *)
(***************************************************************************)
EXTENDS Naturals, Sequences, FiniteSets

CONSTANTS
    PrPackets,      \* the packets given with addRxPool
    PrReaders,      \* threads that call read()
    PrModes,        \* values of m_multithread to check
    PrMaxFrames,    \* bound on the frames that arrive
    PrMaxBegins     \* bound on the calls of begin()

PrNil == "nullptr"

ASSUME PrAssumption ==
    /\ IsFiniteSet(PrPackets) /\ PrNil \notin PrPackets
    /\ PrModes \subseteq BOOLEAN /\ PrMaxFrames \in Nat /\ PrMaxBegins \in Nat

VARIABLES
    prMulti,    \* m_multithread
    prNext,     \* m_next of every packet
    prPool,     \* m_pool
    prQueue,    \* m_queue
    prLast,     \* m_last
    prFrame,    \* the frame stored in every packet
    prEvent,    \* PROTO_RX_MESSAGE
    prReader,   \* where each reader is in read()
    prHeld,     \* packets read() returned and release() has not got back
    prArrived,  \* frames the link has delivered
    prLost,     \* frames counted in m_lostRxFrames
    prGot,      \* frames read() returned, in order
    prLink,     \* whether the link layer is open
    prTerm,     \* m_terminate
    prThread,   \* m_sendThread and m_readThread
    prEnd,      \* where end() is
    prBegins    \* calls of begin() so far

prVars == <<prMulti, prNext, prPool, prQueue, prLast, prFrame, prEvent, prReader, prHeld,
            prArrived, prLost, prGot, prLink, prTerm, prThread, prEnd, prBegins>>
prLists == <<prNext, prPool, prQueue, prLast, prFrame>>
prLife == <<prLink, prTerm, prThread, prEnd, prBegins>>

(* The constructor, and one addRxPool for every packet. *)
PrInit ==
    /\ prMulti \in PrModes
    /\ \E order \in [1..Cardinality(PrPackets) -> PrPackets] :
        /\ \A p \in PrPackets : \E i \in DOMAIN order : order[i] = p
        /\ \A i, j \in DOMAIN order : order[i] = order[j] => i = j
        /\ prNext = [p \in PrPackets |->
               LET i == CHOOSE i \in DOMAIN order : order[i] = p
               IN IF i = Len(order) THEN PrNil ELSE order[i + 1]]
        /\ prPool = IF order = <<>> THEN PrNil ELSE order[1]
    /\ prQueue = PrNil /\ prLast = PrNil
    /\ prFrame = [p \in PrPackets |-> 0]
    /\ prEvent = FALSE
    /\ prReader = [r \in PrReaders |-> "idle"]
    /\ prHeld = {}
    /\ prArrived = 0 /\ prLost = 0 /\ prGot = <<>>
    /\ prLink = "closed" /\ prTerm = TRUE /\ prEnd = "idle" /\ prBegins = 0
    /\ prThread = [t \in {"rx", "tx"} |-> "none"]

(* Mutant: the new packet is linked behind a stale m_last. *)
PrAppendForgets(p) == [prNext EXCEPT ![p] = PrNil]

(* p->m_next = nullptr, m_last->m_next = p *)
PrAppend(p) == IF prLast = PrNil THEN [prNext EXCEPT ![p] = PrNil]
               ELSE [prNext EXCEPT ![p] = PrNil, ![prLast] = p]

(* Proto::onRead, under m_mutex. *)
PrOnRead ==
    /\ prArrived < PrMaxFrames
    /\ prArrived' = prArrived + 1
    /\ \/ /\ prPool = PrNil
          /\ prLost' = prLost + 1
          /\ UNCHANGED <<prLists, prEvent>>
       \/ /\ prPool # PrNil
          /\ prPool' = prNext[prPool]
          /\ prNext' = PrAppend(prPool)
          /\ prLast' = prPool
          /\ prQueue' = IF prQueue = PrNil THEN prPool ELSE prQueue
          /\ prFrame' = [prFrame EXCEPT ![prPool] = prArrived + 1]
          /\ prEvent' = TRUE
          /\ UNCHANGED prLost

(***************************************************************************)
(* read() and release().                                                   *)
(***************************************************************************)

PrGoto(r, pc) == prReader' = [prReader EXCEPT ![r] = pc]

PrRead(r) ==
    /\ prReader[r] = "idle" /\ prBegins > 0
    /\ PrGoto(r, "wait")
    /\ UNCHANGED <<prMulti, prLists, prEvent, prHeld, prArrived, prLost, prGot, prLife>>

(* tiny_events_wait: the bit is taken, or the time is over; either way the *)
(* queue is looked at.                                                     *)
PrWait(r) ==
    /\ prReader[r] = "wait"
    /\ prEvent' \in {FALSE, prEvent}
    /\ PrGoto(r, "take")
    /\ UNCHANGED <<prMulti, prLists, prHeld, prArrived, prLost, prGot, prLife>>

(* Mutant: the bit is not set again for the packets that are left. *)
PrMoreForgotten(head) == prEvent

(* tiny_events_set when the queue is not empty yet. *)
PrMore(head) == prEvent \/ head # PrNil

(* Under m_mutex: the first packet leaves the queue. *)
PrTake(r) ==
    /\ prReader[r] = "take"
    /\ IF prQueue # PrNil
       THEN /\ prHeld' = prHeld \cup {prQueue}
            /\ prGot' = Append(prGot, prFrame[prQueue])
            /\ prQueue' = prNext[prQueue]
            /\ prLast' = IF prNext[prQueue] = PrNil THEN PrNil ELSE prLast
            /\ prEvent' = PrMore(prNext[prQueue])
            /\ PrGoto(r, "idle")
       ELSE PrGoto(r, "late") /\ UNCHANGED <<prHeld, prGot, prQueue, prLast, prEvent>>
    /\ UNCHANGED <<prMulti, prNext, prPool, prFrame, prArrived, prLost, prLife>>

(* Without threads the link takes its turn here, before the clock is       *)
(* looked at: nullptr, or one more round.                                  *)
PrLate(r) ==
    /\ prReader[r] = "late"
    /\ \/ UNCHANGED <<prLists, prEvent, prArrived, prLost>>
       \/ ~prMulti /\ prLink = "open" /\ PrOnRead
    /\ \E pc \in {"idle", "wait"} : PrGoto(r, pc)
    /\ UNCHANGED <<prMulti, prHeld, prGot, prLife>>

(* release(), addRxPool() *)
PrRelease(p) ==
    /\ p \in prHeld
    /\ prHeld' = prHeld \ {p}
    /\ prNext' = [prNext EXCEPT ![p] = prPool]
    /\ prPool' = p
    /\ UNCHANGED <<prMulti, prQueue, prLast, prFrame, prEvent, prReader, prArrived, prLost,
                   prGot, prLife>>

(***************************************************************************)
(* begin(), end() and the two threads.                                     *)
(***************************************************************************)

(* The link may fail to open; only multithread mode clears m_terminate. *)
PrBegin ==
    /\ prBegins < PrMaxBegins /\ prLink = "closed" /\ prEnd = "idle"
    /\ prBegins' = prBegins + 1
    /\ \/ prTerm' = TRUE /\ UNCHANGED <<prLink, prThread>>
       \/ /\ prLink' = "open"
          /\ prTerm' = (IF prMulti THEN FALSE ELSE prTerm)
          /\ prThread' = [t \in {"rx", "tx"} |-> IF prMulti THEN "loop" ELSE "none"]
    /\ UNCHANGED <<prMulti, prLists, prEvent, prReader, prHeld, prArrived, prLost, prGot, prEnd>>

(* runRx, runTx: one turn of the link while m_terminate is not seen. *)
PrThreadTurn(t) ==
    /\ prThread[t] = "loop"
    /\ prThread' = [prThread EXCEPT ![t] = IF prTerm THEN "exited" ELSE "link"]
    /\ UNCHANGED <<prMulti, prLists, prEvent, prReader, prHeld, prArrived, prLost, prGot,
                   prLink, prTerm, prEnd, prBegins>>

(* The link returns, with frames on the receiving side. *)
PrThreadBack(t) ==
    /\ prThread[t] = "link"
    /\ \/ prThread' = [prThread EXCEPT ![t] = "loop"]
          /\ UNCHANGED <<prLists, prEvent, prArrived, prLost>>
       \/ t = "rx" /\ PrOnRead /\ UNCHANGED prThread
    /\ UNCHANGED <<prMulti, prReader, prHeld, prGot, prLink, prTerm, prEnd, prBegins>>

(* Mutant: the link is closed without waiting for the reading thread. *)
PrJoinedSend == prThread["tx"] = "exited"

(* m_sendThread->join(), then m_readThread->join() *)
PrJoined == \A t \in {"rx", "tx"} : prThread[t] = "exited"

PrEndCall ==
    /\ prEnd = "idle" /\ ~prTerm
    /\ prTerm' = TRUE
    /\ prEnd' = "join"
    /\ UNCHANGED <<prMulti, prLists, prEvent, prReader, prHeld, prArrived, prLost, prGot, prLink,
                   prThread, prBegins>>

PrEndJoined ==
    /\ prEnd = "join" /\ PrJoined
    /\ prLink' = "closed"
    /\ prEnd' = "idle"
    /\ UNCHANGED <<prMulti, prLists, prEvent, prReader, prHeld, prArrived, prLost, prGot, prTerm,
                   prThread, prBegins>>

PrNext ==
    \/ PrBegin \/ PrEndCall \/ PrEndJoined
    \/ \E t \in {"rx", "tx"} : PrThreadTurn(t) \/ PrThreadBack(t)
    \/ \E r \in PrReaders : PrRead(r) \/ PrWait(r) \/ PrTake(r) \/ PrLate(r)
    \/ \E p \in PrPackets : PrRelease(p)

PrSpec == PrInit /\ [][PrNext]_prVars

(***************************************************************************)
(* Properties.                                                             *)
(***************************************************************************)

PrOn(l) == {l[i] : i \in DOMAIN l}

PrOrders == UNION {[1..n -> PrPackets] : n \in 0..Cardinality(PrPackets)}

(* The packets l, each once, are the list that starts at head. *)
PrIsList(next, head, l) ==
    /\ head = IF l = <<>> THEN PrNil ELSE l[1]
    /\ \A i \in DOMAIN l : next[l[i]] = IF i = Len(l) THEN PrNil ELSE l[i + 1]
    /\ \A i, j \in DOMAIN l : l[i] = l[j] => i = j

(* Every packet is in the queue, which ends at m_last, in the pool or with *)
(* the application, and only in one of them.                               *)
PrPlaced(queue, pool) ==
    /\ PrIsList(prNext, prQueue, queue) /\ PrIsList(prNext, prPool, pool)
    /\ prLast = IF queue = <<>> THEN PrNil ELSE queue[Len(queue)]
    /\ PrOn(queue) \cap PrOn(pool) = {}
    /\ prHeld = PrPackets \ (PrOn(queue) \cup PrOn(pool))

(* The frames read, then those in the queue, are in the order they arrived *)
(* and, with m_lostRxFrames, are all of them.                              *)
PrCounted(queue) ==
    LET frames == prGot \o [i \in 1..Len(queue) |-> prFrame[queue[i]]]
    IN /\ \A i, j \in DOMAIN frames : i < j => frames[i] < frames[j]
       /\ Len(frames) + prLost = prArrived

(* No packet and no frame is lost uncounted, duplicated or reordered       *)
(* between onRead, read and release.                                       *)
PrConserved == \E queue, pool \in PrOrders : PrPlaced(queue, pool) /\ PrCounted(queue)

(* No reader sleeps on a filled queue: PROTO_RX_MESSAGE is set, or a       *)
(* reader that took it is about to look.                                   *)
PrNoLostWakeup ==
    prQueue # PrNil => prEvent \/ \E r \in PrReaders : prReader[r] = "take"

(* The link is open as long as a thread may be inside it. *)
PrLinkOutlivesThreads ==
    \A t \in {"rx", "tx"} : prThread[t] = "link" => prLink = "open"
=============================================================================
