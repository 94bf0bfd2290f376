--------------------------- MODULE TinyEventsProofs ---------------------------
(***************************************************************************)
(* The event object of every HAL, for any number of threads, bits and      *)
(* calls: no wake-up is lost, and each platform implements the atomic      *)
(* object of EventBits.  The invariant says who is inside the lock, what   *)
(* the copy of the bits it works on is worth, and why each thread sleeps.  *)
(***************************************************************************)
EXTENDS TinyEvents, TLAPS

EvPcs == {"idle", "lock", "load", "store", "unlock", "missed", "late", "blocked",
          "expired", "kernel", "release", "return"}
EvInside == {"load", "store", "unlock", "missed", "release"}

EvTypes ==
    /\ evPc \in [EvThreads -> EvPcs]
    /\ evCall \in [EvThreads -> EvCalls]
    /\ evLoc \in [EvThreads -> SUBSET EvBits]
    /\ evLeft \in [EvThreads -> Nat]
    /\ evMore \in [EvThreads -> Nat]
    /\ evBits \in SUBSET EvBits
    /\ evLock \in EvThreads \cup {EvFree}

(* The lock is held by the one thread that is between lock and unlock. *)
EvHolder == \A t \in EvThreads : evPc[t] \in EvInside <=> evLock = t

(* The two styles of locking do not mix. *)
EvStyles == \A t \in EvThreads :
    /\ evPc[t] \in {"kernel", "release"} => hal.style = "group"
    /\ evPc[t] \in EvInside \ {"release"} => hal.style # "group"
    /\ evPc[t] \in {"lock", "late"} => hal.style # "group"

(* What a thread has established under the lock still holds when it acts. *)
EvCopies == \A t \in EvThreads :
    /\ evPc[t] \in {"store", "missed"} => evLoc[t] = evBits
    /\ evPc[t] = "store" /\ EvWaits(t) => EvHit(t) /\ evCall[t].clear
    /\ evPc[t] = "missed" => ~EvHit(t)
    /\ evPc[t] = "release" => evCall[t].op = "set"
    /\ evPc[t] \in {"missed", "late", "blocked", "expired"} => EvWaits(t)

(* A wait for ever never runs out of time, and one that expired has. *)
EvTimes == \A t \in EvThreads :
    /\ evPc[t] # "idle" /\ evCall[t].timeout = "forever" => evLeft[t] = EvNever
    /\ evPc[t] = "expired" => evLeft[t] = 0

(* A sleeping thread has none of its bits set, but for the moment in which *)
(* the kernel walks the waiting tasks.                                     *)
EvAsleep == \A t \in EvThreads :
    evPc[t] = "blocked" /\ EvHit(t) => hal.style = "group" /\ evLock # EvFree

EvInv == EvTypes /\ EvHolder /\ EvStyles /\ EvCopies /\ EvTimes /\ EvAsleep

LEMMA EvInitInv == EvInit => EvInv
<1> SUFFICES ASSUME EvInit PROVE EvInv
    OBVIOUS
<1>1. (CHOOSE c \in EvCalls : TRUE) \in EvCalls
    BY EvAssumption
<1>2. evMore \in [EvThreads -> Nat]
    BY EvAssumption DEF EvInit
<1>3. EvTypes
    BY <1>1, <1>2 DEF EvInit, EvTypes, EvPcs
<1>4. \A t \in EvThreads : evPc[t] = "idle" /\ evLock # t
    BY EvAssumption DEF EvInit
<1> QED
    BY <1>3, <1>4 DEF EvInv, EvHolder, EvStyles, EvCopies, EvTimes, EvAsleep, EvInside

(* A call begins with the ticks its timeout says. *)
LEMMA EvDeadline ==
    ASSUME NEW c \in EvCalls
    PROVE  LET d == [zero |-> 0, finite |-> EvTicks, forever |-> EvNever][c.timeout]
           IN  d \in Nat /\ (c.timeout = "forever" => d = EvNever)
<1>1. c.timeout \in {"zero", "finite", "forever"} /\ EvTicks \in Nat
    BY EvAssumption
<1>2. CASE c.timeout = "zero"
    BY <1>1, <1>2 DEF EvNever
<1>3. CASE c.timeout = "finite"
    BY <1>1, <1>3 DEF EvNever
<1>4. CASE c.timeout = "forever"
    BY <1>1, <1>4 DEF EvNever
<1> QED
    BY <1>1, <1>2, <1>3, <1>4

LEMMA EvEnterInv ==
    ASSUME EvInv, NEW t \in EvThreads, EvEnter(t)
    PROVE  EvInv'
<1>1. PICK c \in EvCalls :
        /\ evCall' = [evCall EXCEPT ![t] = c]
        /\ evLeft' = [evLeft EXCEPT ![t] =
               [zero |-> 0, finite |-> EvTicks, forever |-> EvNever][c.timeout]]
    BY DEF EvEnter
<1>2. evLeft' \in [EvThreads -> Nat] /\ (c.timeout = "forever" => evLeft'[t] = EvNever)
    BY <1>1, EvDeadline DEF EvInv, EvTypes
<1>3. /\ evPc' = [evPc EXCEPT ![t] = IF hal.style = "group" THEN "kernel" ELSE "lock"]
      /\ evPc[t] = "idle" /\ UNCHANGED <<hal, evBits, evLock, evLoc>>
      /\ evMore[t] > 0 /\ evMore' = [evMore EXCEPT ![t] = @ - 1]
    BY DEF EvEnter, EvGoto
<1>4. \A u \in EvThreads \ {t} :
        evPc'[u] = evPc[u] /\ evCall'[u] = evCall[u] /\ evLeft'[u] = evLeft[u]
    BY <1>1, <1>3 DEF EvInv, EvTypes
<1>5. evCall'[t] = c /\ evPc'[t] = IF hal.style = "group" THEN "kernel" ELSE "lock"
    BY <1>1, <1>3 DEF EvInv, EvTypes
<1>6. EvTypes'
    BY <1>1, <1>2, <1>3 DEF EvInv, EvTypes, EvPcs
<1>7. EvHolder'
    BY <1>3, <1>4, <1>5 DEF EvInv, EvHolder, EvInside
<1>8. EvStyles'
    BY <1>3, <1>4, <1>5 DEF EvInv, EvStyles, EvInside
<1>9. EvCopies'
    BY <1>3, <1>4, <1>5 DEF EvInv, EvCopies, EvWaits, EvHit
<1>10. EvTimes'
    BY <1>2, <1>3, <1>4, <1>5 DEF EvInv, EvTimes
<1>11. EvAsleep'
    BY <1>3, <1>4, <1>5 DEF EvInv, EvAsleep, EvHit
<1> QED
    BY <1>6, <1>7, <1>8, <1>9, <1>10, <1>11 DEF EvInv

LEMMA EvLockInv ==
    ASSUME EvInv, NEW t \in EvThreads, EvLock(t)
    PROVE  EvInv'
<1> USE DEF EvInv, EvLock, EvGoto
<1>1. EvTypes'
    BY DEF EvTypes, EvPcs
<1>2. EvHolder'
    BY EvAssumption DEF EvTypes, EvHolder, EvInside
<1>3. EvStyles'
    BY DEF EvTypes, EvStyles, EvInside
<1>4. EvCopies'
    BY DEF EvTypes, EvCopies, EvWaits, EvHit
<1>5. EvTimes'
    BY DEF EvTypes, EvTimes
<1>6. EvAsleep'
    BY DEF EvTypes, EvStyles, EvAsleep, EvHit
<1> QED
    BY <1>1, <1>2, <1>3, <1>4, <1>5, <1>6

LEMMA EvLoadInv ==
    ASSUME EvInv, NEW t \in EvThreads, EvLoad(t)
    PROVE  EvInv'
<1>1. evPc[t] = "load" /\ hal.style # "group" /\ evLock = t
    BY DEF EvInv, EvLoad, EvStyles, EvHolder, EvInside
<1>2. /\ UNCHANGED <<hal, evBits, evCall, evLeft, evMore>>
      /\ evLoc' = [evLoc EXCEPT ![t] = evBits]
    BY DEF EvLoad
<1>3. \/ /\ EvWaits(t) /\ ~EvHit(t)
         /\ evPc' = [evPc EXCEPT ![t] = "blocked"] /\ evLock' = EvFree
      \/ /\ EvWaits(t) /\ ~EvHit(t)
         /\ evPc' = [evPc EXCEPT ![t] = "missed"] /\ evLock' = evLock
      \/ /\ evPc' = [evPc EXCEPT ![t] = "unlock"] /\ evLock' = evLock
      \/ /\ EvWaits(t) => EvHit(t) /\ evCall[t].clear
         /\ evPc' = [evPc EXCEPT ![t] = "store"] /\ evLock' = evLock
    BY DEF EvLoad, EvGoto
<1>4. \A u \in EvThreads \ {t} : evPc'[u] = evPc[u] /\ evLoc'[u] = evLoc[u] /\ evLock # u
    BY <1>1, <1>2, <1>3 DEF EvInv, EvTypes
<1>5. evLoc'[t] = evBits
    BY <1>2 DEF EvInv, EvTypes
<1>6. evPc'[t] \in {"blocked", "missed", "unlock", "store"}
    BY <1>3 DEF EvInv, EvTypes
<1>7. EvTypes'
    BY <1>2, <1>3 DEF EvInv, EvTypes, EvPcs
<1>8. EvHolder'
    BY <1>1, <1>3, <1>4, EvAssumption DEF EvInv, EvTypes, EvHolder, EvInside
<1>9. EvStyles'
    BY <1>1, <1>2, <1>4, <1>6 DEF EvInv, EvStyles, EvInside
<1>10. EvCopies'
    BY <1>2, <1>3, <1>4, <1>5 DEF EvInv, EvTypes, EvCopies, EvWaits, EvHit
<1>11. EvTimes'
    BY <1>1, <1>2, <1>4, <1>6 DEF EvInv, EvTimes
<1>12. EvAsleep'
    BY <1>1, <1>2, <1>3, <1>4 DEF EvInv, EvTypes, EvAsleep, EvHit
<1> QED
    BY <1>7, <1>8, <1>9, <1>10, <1>11, <1>12 DEF EvInv

LEMMA EvStoreInv ==
    ASSUME EvInv, NEW t \in EvThreads, EvStore(t)
    PROVE  EvInv'
<1>1. /\ evPc[t] = "store" /\ hal.style # "group" /\ evLock = t
      /\ UNCHANGED <<hal, evLock, evCall, evLoc, evLeft, evMore>>
    BY DEF EvInv, EvStore, EvStyles, EvHolder, EvInside
<1>2. /\ evPc'[t] = "unlock"
      /\ \A u \in EvThreads \ {t} :
            \/ evPc'[u] = evPc[u] /\ (evPc[u] = "blocked" => evCall[t].op # "set")
            \/ evPc[u] = "blocked" /\ evPc'[u] = "lock"
      /\ evPc' \in [EvThreads -> EvPcs]
    BY DEF EvStore, EvBroadcast, EvInv, EvTypes, EvPcs
<1>3. /\ evCall[t].op # "set" => evBits' \subseteq evBits
      /\ evBits' \in SUBSET EvBits
    BY <1>1, EvAssumption DEF EvStore, EvInv, EvTypes, EvCopies
<1>4. EvTypes'
    BY <1>1, <1>2, <1>3 DEF EvInv, EvTypes
<1>5. EvHolder'
    BY <1>1, <1>2 DEF EvInv, EvHolder, EvInside
<1>6. EvStyles'
    BY <1>1, <1>2 DEF EvInv, EvStyles, EvInside
<1>7. EvCopies'
    BY <1>1, <1>2 DEF EvInv, EvCopies, EvHolder, EvInside, EvWaits
<1>8. EvTimes'
    BY <1>1, <1>2 DEF EvInv, EvTimes
<1>9. EvAsleep'
    BY <1>1, <1>2, <1>3 DEF EvInv, EvAsleep, EvHit
<1> QED
    BY <1>4, <1>5, <1>6, <1>7, <1>8, <1>9 DEF EvInv

LEMMA EvUnlockInv ==
    ASSUME EvInv, NEW t \in EvThreads, EvUnlock(t)
    PROVE  EvInv'
<1>1. /\ evPc[t] \in {"unlock", "missed"} /\ hal.style # "group" /\ evLock = t
      /\ evLock' = EvFree /\ UNCHANGED <<hal, evBits, evCall, evLoc, evLeft, evMore>>
    BY DEF EvInv, EvUnlock, EvStyles, EvHolder, EvInside
<1>2. \/ evPc[t] = "missed" /\ evPc' = [evPc EXCEPT ![t] = "late"]
      \/ evPc' = [evPc EXCEPT ![t] = "return"]
    BY DEF EvUnlock, EvGoto
<1>3. /\ evPc'[t] = "return" \/ (evPc[t] = "missed" /\ evPc'[t] = "late")
      /\ \A u \in EvThreads \ {t} : evPc'[u] = evPc[u]
    BY <1>2 DEF EvInv, EvTypes
<1>4. EvTypes'
    BY <1>1, <1>2 DEF EvInv, EvTypes, EvPcs
<1>5. EvHolder'
    BY <1>1, <1>3, EvAssumption DEF EvInv, EvHolder, EvInside
<1>6. EvStyles'
    BY <1>1, <1>3 DEF EvInv, EvStyles, EvInside
<1>7. EvCopies'
    BY <1>1, <1>3 DEF EvInv, EvCopies, EvWaits, EvHit
<1>8. EvTimes'
    BY <1>1, <1>3 DEF EvInv, EvTimes
<1>9. EvAsleep'
    BY <1>1, <1>3 DEF EvInv, EvAsleep, EvHit
<1> QED
    BY <1>4, <1>5, <1>6, <1>7, <1>8, <1>9 DEF EvInv

LEMMA EvLateInv ==
    ASSUME EvInv, NEW t \in EvThreads, EvLate(t)
    PROVE  EvInv'
<1>1. /\ evPc[t] = "late" /\ UNCHANGED <<hal, evBits, evLock, evCall, evMore>>
      /\ evLoc' \in [EvThreads -> SUBSET EvBits]
      /\ \A u \in EvThreads \ {t} : evLoc'[u] = evLoc[u]
      /\ evPc' = [evPc EXCEPT ![t] = IF evLeft[t] = 0 THEN "return" ELSE "lock"]
    BY DEF EvLate, EvGoto, EvInv, EvTypes
<1>2. /\ evPc'[t] \in {"return", "lock"}
      /\ \A u \in EvThreads \ {t} : evPc'[u] = evPc[u]
    BY <1>1 DEF EvInv, EvTypes
<1>3. /\ evLeft' \in [EvThreads -> Nat]
      /\ \A u \in EvThreads \ {t} : evLeft'[u] = evLeft[u]
      /\ evLeft[t] = EvNever => evLeft'[t] = EvNever
    BY DEF EvLate, EvInv, EvTypes, EvNever
<1>4. EvTypes'
    BY <1>1, <1>3 DEF EvInv, EvTypes, EvPcs
<1>5. EvHolder'
    BY <1>1, <1>2 DEF EvInv, EvHolder, EvInside
<1>6. EvStyles'
    BY <1>1, <1>2 DEF EvInv, EvStyles, EvInside
<1>7. EvCopies'
    BY <1>1, <1>2 DEF EvInv, EvCopies, EvWaits, EvHit
<1>8. EvTimes'
    BY <1>1, <1>2, <1>3 DEF EvInv, EvTimes
<1>9. EvAsleep'
    BY <1>1, <1>2 DEF EvInv, EvAsleep, EvHit
<1> QED
    BY <1>4, <1>5, <1>6, <1>7, <1>8, <1>9 DEF EvInv

(* The steps that only move one thread, outside the lock. *)
LEMMA EvMoveInv ==
    ASSUME EvInv, NEW t \in EvThreads,
           EvExpire(t) \/ EvExpired(t) \/ SpuriousWake(t) \/ EvReturn(t)
    PROVE  EvInv'
<1>1. /\ UNCHANGED <<hal, evBits, evLock, evCall, evLeft, evMore>>
      /\ evLoc' \in [EvThreads -> SUBSET EvBits]
      /\ \A u \in EvThreads \ {t} : evLoc'[u] = evLoc[u]
    BY DEF EvExpire, EvExpired, SpuriousWake, EvReturn, EvInv, EvTypes
<1> DEFINE Moves(pc) ==
        /\ evPc' = [evPc EXCEPT ![t] = pc]
        /\ evPc[t] \in {"blocked", "expired", "return"}
        /\ pc = "expired" => evPc[t] = "blocked" /\ evLeft[t] = 0
        /\ pc = "lock" => hal.style # "group"
<1>2. PICK pc \in {"expired", "return", "lock", "idle"} : Moves(pc)
    <2>1. CASE EvExpire(t)
        BY <2>1 DEF EvExpire, EvGoto
    <2>2. CASE EvExpired(t)
        BY <2>2 DEF EvExpired, EvGoto
    <2>3. CASE SpuriousWake(t)
        BY <2>3 DEF SpuriousWake, EvGoto
    <2>4. CASE EvReturn(t)
        BY <2>4 DEF EvReturn, EvGoto
    <2> QED
        BY <2>1, <2>2, <2>3, <2>4
<1>3. evPc'[t] = pc /\ \A u \in EvThreads \ {t} : evPc'[u] = evPc[u]
    BY <1>2 DEF EvInv, EvTypes
<1>4. EvTypes'
    BY <1>1, <1>2 DEF EvInv, EvTypes, EvPcs
<1>5. EvHolder'
    BY <1>1, <1>2, <1>3 DEF EvInv, EvHolder, EvInside
<1>6. EvStyles'
    BY <1>1, <1>2, <1>3 DEF EvInv, EvStyles, EvInside
<1>7. EvCopies'
    BY <1>1, <1>2, <1>3 DEF EvInv, EvCopies, EvWaits, EvHit
<1>8. EvTimes'
    BY <1>1, <1>2, <1>3 DEF EvInv, EvTimes
<1>9. EvAsleep'
    BY <1>1, <1>2, <1>3 DEF EvInv, EvAsleep, EvHit
<1> QED
    BY <1>4, <1>5, <1>6, <1>7, <1>8, <1>9 DEF EvInv

LEMMA GroupWaitInv ==
    ASSUME EvInv, NEW t \in EvThreads, GroupWait(t)
    PROVE  EvInv'
<1>1. /\ evPc[t] \in {"kernel", "expired"} /\ EvWaits(t) /\ hal.style = "group"
      /\ evLock = EvFree /\ UNCHANGED <<hal, evLock, evCall, evLeft, evMore>>
      /\ evLoc' = [evLoc EXCEPT ![t] = evBits \cap evCall[t].bits]
    BY DEF EvInv, GroupWait, EvStyles, EvCopies
<1>2. \/ evPc' = [evPc EXCEPT ![t] = "blocked"] /\ ~EvHit(t)
      \/ evPc' = [evPc EXCEPT ![t] = "return"]
    BY DEF GroupWait, EvGoto
<1>3. /\ evPc'[t] = "return" \/ (evPc'[t] = "blocked" /\ ~EvHit(t))
      /\ \A u \in EvThreads \ {t} : evPc'[u] = evPc[u]
    <2>1. CASE evPc' = [evPc EXCEPT ![t] = "blocked"] /\ ~EvHit(t)
        BY <2>1 DEF EvInv, EvTypes
    <2>2. CASE evPc' = [evPc EXCEPT ![t] = "return"]
        BY <2>2 DEF EvInv, EvTypes
    <2> QED
        BY <1>2, <2>1, <2>2
<1>4. evBits' \subseteq evBits
    BY DEF GroupWait
<1>5. EvTypes'
    BY <1>1, <1>2, <1>4 DEF EvInv, EvTypes, EvPcs
<1>6. EvHolder'
    BY <1>1, <1>3, EvAssumption DEF EvInv, EvHolder, EvInside
<1>7. EvStyles'
    BY <1>1, <1>3 DEF EvInv, EvStyles, EvInside
<1>8. EvCopies'
    BY <1>1, <1>3 DEF EvInv, EvStyles, EvInside, EvCopies, EvWaits
<1>9. EvTimes'
    BY <1>1, <1>3 DEF EvInv, EvTimes
<1>10. EvAsleep'
    BY <1>1, <1>3, <1>4 DEF EvInv, EvAsleep, EvHit
<1> QED
    BY <1>5, <1>6, <1>7, <1>8, <1>9, <1>10 DEF EvInv

LEMMA GroupClearInv ==
    ASSUME EvInv, NEW t \in EvThreads, GroupClear(t)
    PROVE  EvInv'
<1>1. /\ evPc[t] = "kernel" /\ hal.style = "group" /\ evLock = EvFree
      /\ UNCHANGED <<hal, evLock, evCall, evLoc, evLeft, evMore>>
      /\ evPc' = [evPc EXCEPT ![t] = "return"] /\ evBits' \subseteq evBits
    BY DEF EvInv, GroupClear, EvStyles, EvGoto
<1>2. evPc'[t] = "return" /\ \A u \in EvThreads \ {t} : evPc'[u] = evPc[u]
    BY <1>1 DEF EvInv, EvTypes
<1>3. EvTypes'
    BY <1>1 DEF EvInv, EvTypes, EvPcs
<1>4. EvHolder'
    BY <1>1, <1>2, EvAssumption DEF EvInv, EvHolder, EvInside
<1>5. EvStyles'
    BY <1>1, <1>2 DEF EvInv, EvStyles, EvInside
<1>6. EvCopies'
    BY <1>1, <1>2 DEF EvInv, EvStyles, EvInside, EvCopies, EvWaits
<1>7. EvTimes'
    BY <1>1, <1>2 DEF EvInv, EvTimes
<1>8. EvAsleep'
    BY <1>1, <1>2 DEF EvInv, EvAsleep, EvHit
<1> QED
    BY <1>3, <1>4, <1>5, <1>6, <1>7, <1>8 DEF EvInv

LEMMA GroupSetInv ==
    ASSUME EvInv, NEW t \in EvThreads, GroupSet(t)
    PROVE  EvInv'
<1>1. /\ evPc[t] = "kernel" /\ hal.style = "group" /\ evLock = EvFree
      /\ UNCHANGED <<hal, evCall, evLeft, evMore>>
      /\ evCall[t].op = "set" /\ evLoc' = [evLoc EXCEPT ![t] = {}]
      /\ evLock' = t /\ evPc' = [evPc EXCEPT ![t] = "release"]
    BY DEF EvInv, GroupSet, EvStyles, EvGoto
<1>2. evPc'[t] = "release" /\ \A u \in EvThreads \ {t} : evPc'[u] = evPc[u]
    BY <1>1 DEF EvInv, EvTypes
<1>3. evBits' \in SUBSET EvBits
    BY EvAssumption DEF GroupSet, EvInv, EvTypes
<1>4. EvTypes'
    BY <1>1, <1>3 DEF EvInv, EvTypes, EvPcs
<1>5. EvHolder'
    BY <1>1, <1>2, EvAssumption DEF EvInv, EvHolder, EvInside
<1>6. EvStyles'
    BY <1>1, <1>2 DEF EvInv, EvStyles, EvInside
<1>7. EvCopies'
    BY <1>1, <1>2 DEF EvInv, EvStyles, EvInside, EvCopies, EvWaits
<1>8. EvTimes'
    BY <1>1, <1>2 DEF EvInv, EvTimes
<1>9. EvAsleep'
    BY <1>1, EvAssumption DEF EvAsleep
<1> QED
    BY <1>4, <1>5, <1>6, <1>7, <1>8, <1>9 DEF EvInv

LEMMA GroupReleaseInv ==
    ASSUME EvInv, NEW t \in EvThreads, NEW u \in EvThreads, GroupRelease(t, u)
    PROVE  EvInv'
<1>1. /\ evPc[t] = "release" /\ evPc[u] = "blocked" /\ hal.style = "group" /\ evLock = t
      /\ UNCHANGED <<hal, evBits, evLock, evCall, evLeft, evMore>>
      /\ evPc' = [evPc EXCEPT ![u] = "return"]
    BY DEF EvInv, GroupRelease, EvStyles, EvHolder, EvInside, EvGoto
<1>2. evPc'[u] = "return" /\ \A r \in EvThreads \ {u} : evPc'[r] = evPc[r]
    BY <1>1 DEF EvInv, EvTypes
<1>3. evLoc' \in [EvThreads -> SUBSET EvBits]
    <2>1. evCall[u].bits \subseteq EvBits
        BY EvAssumption DEF EvInv, EvTypes
    <2> QED
        BY <2>1 DEF GroupRelease, EvInv, EvTypes
<1>4. EvTypes'
    BY <1>1, <1>3 DEF EvInv, EvTypes, EvPcs
<1>5. EvHolder'
    BY <1>1, <1>2 DEF EvInv, EvHolder, EvInside
<1>6. EvStyles'
    BY <1>1, <1>2 DEF EvInv, EvStyles, EvInside
<1>7. EvCopies'
    BY <1>1, <1>2 DEF EvInv, EvStyles, EvInside, EvCopies, EvWaits
<1>8. EvTimes'
    BY <1>1, <1>2 DEF EvInv, EvTimes
<1>9. EvAsleep'
    BY <1>1, EvAssumption DEF EvAsleep
<1> QED
    BY <1>4, <1>5, <1>6, <1>7, <1>8, <1>9 DEF EvInv

LEMMA GroupDoneInv ==
    ASSUME EvInv, NEW t \in EvThreads, GroupDone(t)
    PROVE  EvInv'
<1>1. /\ evPc[t] = "release" /\ hal.style = "group" /\ evLock = t /\ evLock' = EvFree
      /\ UNCHANGED <<hal, evCall, evLoc, evLeft, evMore>>
      /\ evPc' = [evPc EXCEPT ![t] = "return"] /\ evBits' \subseteq evBits
      /\ \A u \in EvThreads : evPc[u] = "blocked" => ~EvHit(u)
    BY DEF EvInv, GroupDone, EvBlocked, EvStyles, EvHolder, EvInside, EvGoto
<1>2. evPc'[t] = "return" /\ \A u \in EvThreads \ {t} : evPc'[u] = evPc[u]
    BY <1>1 DEF EvInv, EvTypes
<1>3. EvTypes'
    BY <1>1 DEF EvInv, EvTypes, EvPcs
<1>4. EvHolder'
    BY <1>1, <1>2, EvAssumption DEF EvInv, EvHolder, EvInside
<1>5. EvStyles'
    BY <1>1, <1>2 DEF EvInv, EvStyles, EvInside
<1>6. EvCopies'
    BY <1>1, <1>2 DEF EvInv, EvStyles, EvInside, EvCopies, EvWaits
<1>7. EvTimes'
    BY <1>1, <1>2 DEF EvInv, EvTimes
<1>8. EvAsleep'
    BY <1>1, <1>2 DEF EvAsleep, EvHit
<1> QED
    BY <1>3, <1>4, <1>5, <1>6, <1>7, <1>8 DEF EvInv

LEMMA EvTickInv ==
    ASSUME EvInv, EvTick
    PROVE  EvInv'
<1>1. UNCHANGED <<hal, evBits, evLock, evPc, evCall, evLoc, evMore>>
    BY DEF EvTick
<1>2. /\ evLeft' \in [EvThreads -> Nat]
      /\ \A t \in EvThreads : evLeft[t] \in {0, EvNever} => evLeft'[t] = evLeft[t]
    BY DEF EvTick, EvInv, EvTypes
<1> QED
    BY <1>1, <1>2 DEF EvInv, EvTypes, EvHolder, EvStyles, EvCopies, EvTimes, EvAsleep,
       EvWaits, EvHit

LEMMA EvNextInv ==
    ASSUME EvInv, [EvNext]_evVars
    PROVE  EvInv'
<1>1. CASE UNCHANGED evVars
    BY <1>1 DEF evVars, EvInv, EvTypes, EvHolder, EvStyles, EvCopies, EvTimes, EvAsleep,
       EvWaits, EvHit
<1>2. CASE EvTick
    BY <1>2, EvTickInv
<1>3. ASSUME NEW t \in EvThreads, EvEnter(t) \/ EvStep(t) \/ SpuriousWake(t) PROVE EvInv'
    BY <1>3, EvEnterInv, EvLockInv, EvLoadInv, EvStoreInv, EvUnlockInv, EvLateInv, EvMoveInv,
       GroupWaitInv, GroupClearInv, GroupSetInv, GroupReleaseInv, GroupDoneInv DEF EvStep
<1> QED
    BY <1>1, <1>2, <1>3 DEF EvNext

(* No wake-up is lost, on any platform: a thread asleep in                 *)
(* tiny_events_wait, with nobody inside the object to wake it, waits for   *)
(* bits that are all clear.                                                *)
THEOREM EvNeverLosesWakeup == EvSpec => []EvNoLostWakeup
<1>1. EvInv => EvNoLostWakeup
    BY DEF EvInv, EvAsleep, EvNoLostWakeup, EvBlocked
<1> QED
    BY <1>1, EvInitInv, EvNextInv, PTL DEF EvSpec

(***************************************************************************)
(* The refinement of EventBits.  A call takes effect when its thread goes  *)
(* from EvPending to EvDone; a set of an event group takes effect at once  *)
(* for all whom its walk is going to release.                              *)
(***************************************************************************)

EvPending == {"lock", "load", "store", "missed", "late", "blocked", "expired", "kernel"}
EvDone == {"unlock", "release", "return"}

EvBase(pc) == CASE pc = "idle" -> "idle" [] pc \in EvDone -> "done" [] OTHER -> "pending"

EvBitsLeft == evBits \ EvLeaving
EvPhases == [t \in EvThreads |-> EvPhase(t)]
EvGots == [t \in EvThreads |-> EvGot(t)]

LEMMA EvPhaseOf ==
    /\ EvBase("idle") = "idle"
    /\ \A pc \in EvPending : EvBase(pc) = "pending"
    /\ \A pc \in EvDone : EvBase(pc) = "done"
    /\ \A t \in EvThreads : ~EvServed(t) => EvPhase(t) = EvBase(evPc[t])
    /\ \A t \in EvThreads : EvServed(t) => EvPhase(t) = "done"
BY DEF EvBase, EvPending, EvDone, EvPhase, EvServed

LEMMA EvPhaseNext ==
    /\ \A t \in EvThreads : ~EvServed(t)' => EvPhase(t)' = EvBase(evPc'[t])
    /\ \A t \in EvThreads : EvServed(t)' => EvPhase(t)' = "done"
BY DEF EvBase, EvDone, EvPhase, EvServed

(* Outside the walk of an event group nobody is half served. *)
EvCalm == hal.style # "group" \/ evLock = EvFree
EvNoWalk == EvLeaving = {} /\ \A t \in EvThreads : ~EvServed(t)

LEMMA EvCalmNoWalk ==
    ASSUME EvInv, EvCalm
    PROVE  EvNoWalk
<1>1. \A t \in EvThreads : ~EvServed(t)
    BY DEF EvInv, EvAsleep, EvCalm, EvServed
<1>2. \A t \in EvThreads : evPc[t] # "release"
    BY EvAssumption DEF EvInv, EvHolder, EvStyles, EvInside, EvCalm
<1> QED
    BY <1>1, <1>2 DEF EvNoWalk, EvLeaving

LEMMA EvCalmNoWalkNext ==
    ASSUME EvInv', EvCalm'
    PROVE  EvNoWalk'
<1>1. \A t \in EvThreads : ~EvServed(t)'
    BY DEF EvInv, EvAsleep, EvCalm, EvServed
<1>2. \A t \in EvThreads : evPc'[t] # "release"
    BY EvAssumption DEF EvInv, EvHolder, EvStyles, EvInside, EvCalm
<1> QED
    BY <1>1, <1>2 DEF EvNoWalk, EvLeaving

(* A step that moves no thread from one phase to another, and leaves the   *)
(* bits and the calls alone, is a stutter of the abstract object.          *)
LEMMA EvStutters ==
    ASSUME EvInv, EvInv', EvCalm, EvCalm', UNCHANGED <<hal, evBits, evCall>>,
           \A t \in EvThreads : EvBase(evPc'[t]) = EvBase(evPc[t]),
           \A t \in EvThreads : EvBase(evPc[t]) = "done" => evLoc'[t] = evLoc[t]
    PROVE  UNCHANGED Eb!ebVars
<1>1. EvNoWalk /\ EvNoWalk'
    BY EvCalmNoWalk, EvCalmNoWalkNext
<1>2. \A t \in EvThreads : EvPhase(t)' = EvPhase(t) /\ EvPhase(t) = EvBase(evPc[t])
    BY <1>1, EvPhaseOf, EvPhaseNext DEF EvNoWalk
<1>3. \A t \in EvThreads : EvGot(t)' = EvGot(t)
    BY <1>1, <1>2 DEF EvGot, EvWaits, EvNoWalk
<1>4. EvBitsLeft' = EvBitsLeft
    BY <1>1 DEF EvNoWalk, EvBitsLeft
<1> QED
    BY <1>2, <1>3, <1>4 DEF Eb!ebVars, EvBitsLeft

(* Every way a pending call takes effect by itself is a step of the        *)
(* abstract object.                                                        *)
LEMMA EvEffect ==
    ASSUME EvInv, EvInv', EvCalm, EvCalm', UNCHANGED <<hal, evCall>>,
           NEW t \in EvThreads, evPc[t] \in EvPending, evPc'[t] \in EvDone,
           \A u \in EvThreads \ {t} : EvBase(evPc'[u]) = EvBase(evPc[u]) /\ evLoc'[u] = evLoc[u],
           \/ evCall[t].op = "set" /\ evBits' = evBits \cup evCall[t].bits
           \/ evCall[t].op = "clear" /\ evBits' = evBits \ evCall[t].bits
           \/ /\ EvWaits(t) /\ EvHit(t)
              /\ evBits \cap evCall[t].bits \subseteq evLoc'[t] /\ evLoc'[t] \subseteq evBits
              /\ evBits' = IF evCall[t].clear THEN evBits \ evCall[t].bits ELSE evBits
           \/ /\ EvWaits(t) /\ evCall[t].timeout # "forever" /\ evBits' = evBits
              /\ evLoc'[t] = {} \/ (evCall[t].op # "wait"
                                        /\ evLoc'[t] \subseteq evBits \ evCall[t].bits)
    PROVE  Eb!EbNext
<1>1. EvNoWalk /\ EvNoWalk'
    BY EvCalmNoWalk, EvCalmNoWalkNext
<1>2. EvBitsLeft = evBits /\ EvBitsLeft' = evBits'
    BY <1>1 DEF EvNoWalk, EvBitsLeft
<1>3. /\ EvPhase(t) = "pending" /\ EvPhase(t)' = "done"
      /\ \A u \in EvThreads \ {t} : EvPhase(u)' = EvPhase(u)
    BY <1>1, EvPhaseOf, EvPhaseNext DEF EvNoWalk
<1>4. /\ EvGot(t) = {} /\ EvGot(t)' = IF EvWaits(t) THEN evLoc'[t] ELSE {}
      /\ \A u \in EvThreads \ {t} : EvGot(u)' = EvGot(u)
    BY <1>1, <1>3 DEF EvGot, EvWaits, EvNoWalk
<1>5. EvPhases' = [EvPhases EXCEPT ![t] = "done"] /\ EvPhases[t] = "pending"
    BY <1>3 DEF EvPhases
<1>6. /\ EvGots' = [EvGots EXCEPT ![t] = IF EvWaits(t) THEN evLoc'[t] ELSE {}]
      /\ ~EvWaits(t) => EvGots' = EvGots
    BY <1>4 DEF EvGots
<1>7. Eb!EbDone(t)
    BY <1>5 DEF Eb!EbDone, EvPhases
<1>8. CASE evCall[t].op = "set" /\ evBits' = evBits \cup evCall[t].bits
    <2>1. Eb!EbCleared({}) = {}
        BY DEF Eb!EbCleared
    <2>2. EvGots' = EvGots
        BY <1>6, <1>8 DEF EvWaits
    <2>3. Eb!EbSet(t)
        BY <1>2, <1>3, <1>4, <1>5, <1>8, <2>1, <2>2
           DEF Eb!EbSet, EvBitsLeft, EvPhases, EvGots
    <2> QED
        BY <2>3 DEF Eb!EbNext
<1>9. CASE evCall[t].op = "clear" /\ evBits' = evBits \ evCall[t].bits
    <2>1. EvGots' = EvGots
        BY <1>6, <1>9 DEF EvWaits
    <2>2. Eb!EbClear(t)
        BY <1>2, <1>5, <1>7, <1>9, <2>1 DEF Eb!EbClear, EvBitsLeft, EvPhases, EvGots
    <2> QED
        BY <2>2 DEF Eb!EbNext
<1>10. CASE /\ EvWaits(t) /\ EvHit(t)
            /\ evBits \cap evCall[t].bits \subseteq evLoc'[t] /\ evLoc'[t] \subseteq evBits
            /\ evBits' = IF evCall[t].clear THEN evBits \ evCall[t].bits ELSE evBits
    <2>1. Eb!EbCleared({t}) = IF evCall[t].clear THEN evCall[t].bits ELSE {}
        BY DEF Eb!EbCleared
    <2>2. Eb!EbWaits(t) /\ EvBitsLeft \cap evCall[t].bits # {}
        BY <1>2, <1>5, <1>10 DEF Eb!EbWaits, EvWaits, EvHit, EvPhases
    <2>3. EvBitsLeft' = EvBitsLeft \ Eb!EbCleared({t})
        BY <1>2, <1>10, <2>1
    <2>4. \E got \in SUBSET EvBitsLeft :
            EvBitsLeft \cap evCall[t].bits \subseteq got /\ EvGots' = [EvGots EXCEPT ![t] = got]
        BY <1>2, <1>6, <1>10
    <2>5. Eb!EbTake(t)
        BY <1>7, <2>2, <2>3, <2>4 DEF Eb!EbTake, EvBitsLeft, EvGots
    <2> QED
        BY <2>5 DEF Eb!EbNext
<1>11. CASE /\ EvWaits(t) /\ evCall[t].timeout # "forever" /\ evBits' = evBits
            /\ evLoc'[t] = {} \/ (evCall[t].op # "wait"
                                      /\ evLoc'[t] \subseteq evBits \ evCall[t].bits)
    <2>1. Eb!EbWaits(t)
        BY <1>5, <1>11 DEF Eb!EbWaits, EvWaits, EvPhases
    <2>2. \E got \in SUBSET (EvBitsLeft \ evCall[t].bits) :
            (evCall[t].op = "wait" => got = {}) /\ EvGots' = [EvGots EXCEPT ![t] = got]
        BY <1>2, <1>6, <1>11
    <2>3. Eb!EbGiveUp(t)
        BY <1>2, <1>7, <1>11, <2>1, <2>2 DEF Eb!EbGiveUp, EvBitsLeft, EvGots
    <2> QED
        BY <2>3 DEF Eb!EbNext
<1> QED
    BY <1>8, <1>9, <1>10, <1>11

(* A step of a thread that neither sleeps nor walks the list may come in   *)
(* the middle of a walk: it leaves the others as they are.                 *)
LEMMA EvAside ==
    ASSUME EvInv, NEW t \in EvThreads, UNCHANGED <<hal, evBits>>,
           evPc[t] \notin {"blocked", "release"}, evPc'[t] \notin {"blocked", "release"},
           \A u \in EvThreads \ {t} :
               evPc'[u] = evPc[u] /\ evCall'[u] = evCall[u] /\ evLoc'[u] = evLoc[u]
    PROVE  /\ EvBitsLeft' = EvBitsLeft
           /\ EvPhase(t) = EvBase(evPc[t]) /\ EvPhase(t)' = EvBase(evPc'[t])
           /\ \A u \in EvThreads \ {t} : EvPhase(u)' = EvPhase(u) /\ EvGot(u)' = EvGot(u)
<1>1. /\ ~EvServed(t) /\ ~EvServed(t)'
      /\ \A u \in EvThreads \ {t} : EvServed(u)' <=> EvServed(u)
    BY DEF EvServed, EvHit
<1>2. EvLeaving' = EvLeaving
    BY <1>1 DEF EvLeaving
<1>3. EvPhase(t) = EvBase(evPc[t]) /\ EvPhase(t)' = EvBase(evPc'[t])
    BY <1>1, EvPhaseOf, EvPhaseNext
<1>4. \A u \in EvThreads \ {t} : EvPhase(u)' = EvPhase(u)
    BY <1>1 DEF EvPhase
<1>5. \A u \in EvThreads \ {t} : EvGot(u)' = EvGot(u)
    BY <1>1, <1>4 DEF EvGot, EvWaits, EvServed, EvHit
<1> QED
    BY <1>2, <1>3, <1>4, <1>5 DEF EvBitsLeft

LEMMA EvEnterBegins ==
    ASSUME EvInv, NEW t \in EvThreads, EvEnter(t)
    PROVE  Eb!EbNext
<1>1. /\ evPc[t] = "idle" /\ evPc'[t] \in {"kernel", "lock"} /\ UNCHANGED <<hal, evBits>>
      /\ \A u \in EvThreads \ {t} :
            evPc'[u] = evPc[u] /\ evCall'[u] = evCall[u] /\ evLoc'[u] = evLoc[u]
    BY DEF EvEnter, EvGoto, EvInv, EvTypes
<1>2. EvBase(evPc[t]) = "idle" /\ EvBase(evPc'[t]) = "pending"
    BY <1>1, EvPhaseOf DEF EvPending
<1>3. /\ EvBitsLeft' = EvBitsLeft /\ EvPhase(t) = "idle" /\ EvPhase(t)' = "pending"
      /\ \A u \in EvThreads \ {t} : EvPhase(u)' = EvPhase(u) /\ EvGot(u)' = EvGot(u)
    BY <1>1, <1>2, EvAside
<1>4. EvGot(t) = {} /\ EvGot(t)' = {}
    BY <1>3 DEF EvGot
<1>5. EvPhases' = [EvPhases EXCEPT ![t] = "pending"] /\ EvPhases[t] = "idle" /\ EvGots' = EvGots
    BY <1>3, <1>4 DEF EvPhases, EvGots
<1>6. Eb!EbBegin(t)
    BY <1>1, <1>3, <1>5 DEF Eb!EbBegin, EvPhases, EvGots, EvBitsLeft, EvEnter
<1> QED
    BY <1>6 DEF Eb!EbNext

LEMMA EvReturnEnds ==
    ASSUME EvInv, NEW t \in EvThreads, EvReturn(t)
    PROVE  Eb!EbNext
<1>1. /\ evPc[t] = "return" /\ evPc'[t] = "idle" /\ UNCHANGED <<hal, evBits, evCall>>
      /\ \A u \in EvThreads \ {t} :
            evPc'[u] = evPc[u] /\ evCall'[u] = evCall[u] /\ evLoc'[u] = evLoc[u]
    BY DEF EvReturn, EvGoto, EvInv, EvTypes
<1>2. EvBase(evPc[t]) = "done" /\ EvBase(evPc'[t]) = "idle"
    BY <1>1, EvPhaseOf DEF EvDone
<1>3. /\ EvBitsLeft' = EvBitsLeft /\ EvPhase(t) = "done" /\ EvPhase(t)' = "idle"
      /\ \A u \in EvThreads \ {t} : EvPhase(u)' = EvPhase(u) /\ EvGot(u)' = EvGot(u)
    BY <1>1, <1>2, EvAside
<1>4. EvGot(t)' = {}
    BY <1>3 DEF EvGot
<1>5. /\ EvPhases' = [EvPhases EXCEPT ![t] = "idle"] /\ EvPhases[t] = "done"
      /\ EvGots' = [EvGots EXCEPT ![t] = {}]
    BY <1>3, <1>4 DEF EvPhases, EvGots
<1>6. Eb!EbEnd(t)
    BY <1>1, <1>3, <1>5 DEF Eb!EbEnd, EvPhases, EvGots, EvBitsLeft
<1> QED
    BY <1>6 DEF Eb!EbNext

LEMMA EvLoadRefines ==
    ASSUME EvInv, EvInv', NEW t \in EvThreads, EvLoad(t)
    PROVE  Eb!EbNext \/ UNCHANGED Eb!ebVars
<1>1. /\ evPc[t] = "load" /\ UNCHANGED <<hal, evBits, evCall>> /\ hal.style # "group"
      /\ \A u \in EvThreads \ {t} : evPc'[u] = evPc[u] /\ evLoc'[u] = evLoc[u]
      /\ evLoc'[t] = evBits
    BY DEF EvLoad, EvGoto, EvInv, EvTypes, EvStyles, EvInside
<1>2. EvCalm /\ EvCalm'
    BY <1>1 DEF EvCalm
<1>3. \/ evPc'[t] \in {"blocked", "missed", "store"}
      \/ evPc'[t] = "unlock" /\ EvWaits(t) /\ EvHit(t) /\ ~evCall[t].clear
    BY DEF EvLoad, EvGoto, EvInv, EvTypes
<1>4. EvBase(evPc[t]) = "pending"
    BY <1>1, EvPhaseOf DEF EvPending
<1>5. CASE evPc'[t] \in {"blocked", "missed", "store"}
    <2>1. EvBase(evPc'[t]) = EvBase(evPc[t])
        BY <1>4, <1>5, EvPhaseOf DEF EvPending
    <2> QED
        BY <1>1, <1>2, <1>4, <2>1, EvStutters
<1>6. CASE evPc'[t] = "unlock" /\ EvWaits(t) /\ EvHit(t) /\ ~evCall[t].clear
    <2>1. evPc[t] \in EvPending /\ evPc'[t] \in EvDone
        BY <1>1, <1>6 DEF EvPending, EvDone
    <2> QED
        BY <1>1, <1>2, <1>6, <2>1, EvEffect
<1> QED
    BY <1>3, <1>5, <1>6

LEMMA EvStoreRefines ==
    ASSUME EvInv, EvInv', NEW t \in EvThreads, EvStore(t)
    PROVE  Eb!EbNext
<1>1. /\ evPc[t] = "store" /\ evPc'[t] = "unlock" /\ UNCHANGED <<hal, evCall, evLoc>>
      /\ hal.style # "group"
      /\ \A u \in EvThreads \ {t} :
            evPc'[u] = evPc[u] \/ (evPc[u] = "blocked" /\ evPc'[u] = "lock")
    BY DEF EvStore, EvBroadcast, EvInv, EvTypes, EvStyles, EvInside
<1>2. EvCalm /\ EvCalm'
    BY <1>1 DEF EvCalm
<1>3. \A u \in EvThreads \ {t} : EvBase(evPc'[u]) = EvBase(evPc[u])
    BY <1>1, EvPhaseOf DEF EvPending
<1>4. evLoc[t] = evBits /\ (EvWaits(t) => EvHit(t) /\ evCall[t].clear)
    BY <1>1 DEF EvInv, EvCopies
<1>5. \/ evCall[t].op = "set" /\ evBits' = evBits \cup evCall[t].bits
      \/ evCall[t].op = "clear" /\ evBits' = evBits \ evCall[t].bits
      \/ EvWaits(t) /\ EvHit(t) /\ evCall[t].clear /\ evBits' = evBits \ evCall[t].bits
    <2>1. evCall[t].op \in {"wait", "check", "set", "clear"}
        BY EvAssumption DEF EvInv, EvTypes
    <2> QED
        BY <1>4, <2>1 DEF EvStore, EvWaits
<1>6. evPc[t] \in EvPending /\ evPc'[t] \in EvDone
    BY <1>1 DEF EvPending, EvDone
<1>7. evLoc'[t] = evBits
    BY <1>1, <1>4
<1> QED
    BY <1>1, <1>2, <1>3, <1>5, <1>6, <1>7, EvEffect

(* What a failed poll returns, the deadline and ETIMEDOUT: a wait that     *)
(* fails, and never one for ever.                                          *)
LEMMA EvFailureRefines ==
    ASSUME EvInv, EvInv', NEW t \in EvThreads,
           EvUnlock(t) \/ EvLate(t) \/ EvExpire(t) \/ EvExpired(t)
    PROVE  Eb!EbNext \/ UNCHANGED Eb!ebVars
<1>1. /\ UNCHANGED <<hal, evBits, evCall>>
      /\ \A u \in EvThreads \ {t} : evPc'[u] = evPc[u] /\ evLoc'[u] = evLoc[u]
    BY DEF EvUnlock, EvLate, EvExpire, EvExpired, EvGoto, EvInv, EvTypes
<1>2. EvCalm /\ EvCalm'
    BY DEF EvUnlock, EvLate, EvExpire, EvExpired, EvInv, EvStyles, EvInside, EvCalm
<1>3. \/ evPc[t] = "unlock" /\ evPc'[t] = "return" /\ evLoc'[t] = evLoc[t]
      \/ evPc[t] \in {"missed", "late", "blocked"} /\ evPc'[t] \in {"late", "lock", "expired"}
      \/ /\ evPc[t] = "missed" /\ evPc'[t] = "return" /\ evCall[t].op # "wait"
         /\ evLoc'[t] = evLoc[t]
      \/ evPc[t] = "late" /\ evPc'[t] = "return" /\ evLeft[t] = 0 /\ evLoc'[t] = {}
      \/ evPc[t] = "expired" /\ evPc'[t] = "return" /\ evLoc'[t] = {}
    BY DEF EvUnlock, EvLate, EvExpire, EvExpired, EvGoto, EvInv, EvTypes
<1>4. CASE evPc[t] = "unlock" /\ evPc'[t] = "return" /\ evLoc'[t] = evLoc[t]
    <2>1. EvBase(evPc'[t]) = EvBase(evPc[t])
        BY <1>4, EvPhaseOf DEF EvDone
    <2> QED
        BY <1>1, <1>2, <1>4, <2>1, EvStutters
<1>5. CASE evPc[t] \in {"missed", "late", "blocked"} /\ evPc'[t] \in {"late", "lock", "expired"}
    <2>1. EvBase(evPc'[t]) = EvBase(evPc[t]) /\ EvBase(evPc[t]) = "pending"
        BY <1>5, EvPhaseOf DEF EvPending
    <2> QED
        BY <1>1, <1>2, <2>1, EvStutters
<1>6. CASE evPc[t] \in {"missed", "late", "expired"} /\ evPc'[t] = "return"
    <2>1. EvWaits(t)
        BY <1>6 DEF EvInv, EvCopies
    <2>2. evCall[t] \in EvCalls /\ EvNever # 0
        BY EvAssumption DEF EvInv, EvTypes, EvNever
    <2>3. evCall[t].timeout # "forever"
        <3>1. CASE evPc[t] = "missed"
            BY <1>3, <1>6, <2>1, <2>2, <3>1, EvAssumption DEF EvWaits
        <3>2. CASE evPc[t] \in {"late", "expired"}
            BY <1>3, <1>6, <2>2, <3>2 DEF EvInv, EvTimes
        <3> QED
            BY <1>6, <3>1, <3>2
    <2>4. evPc[t] \in EvPending /\ evPc'[t] \in EvDone
        BY <1>6 DEF EvPending, EvDone
    <2>5. \A u \in EvThreads \ {t} : EvBase(evPc'[u]) = EvBase(evPc[u])
        BY <1>1
    <2>6. evLoc'[t] = {} \/ (evCall[t].op # "wait" /\ evLoc'[t] \subseteq evBits \ evCall[t].bits)
        BY <1>3, <1>6 DEF EvInv, EvCopies, EvHit
    <2> QED
        BY <1>1, <1>2, <2>1, <2>3, <2>4, <2>5, <2>6, EvEffect
<1> QED
    BY <1>3, <1>4, <1>5, <1>6

LEMMA GroupWaitRefines ==
    ASSUME EvInv, EvInv', NEW t \in EvThreads, GroupWait(t)
    PROVE  Eb!EbNext \/ UNCHANGED Eb!ebVars
<1>1. /\ evPc[t] \in {"kernel", "expired"} /\ EvWaits(t) /\ UNCHANGED <<hal, evCall, evLock>>
      /\ evLock = EvFree /\ evLoc'[t] = evBits \cap evCall[t].bits
      /\ \A u \in EvThreads \ {t} : evPc'[u] = evPc[u] /\ evLoc'[u] = evLoc[u]
    BY DEF GroupWait, EvGoto, EvInv, EvTypes, EvCopies
<1>2. EvCalm /\ EvCalm'
    BY <1>1 DEF EvCalm
<1>3. \/ evPc'[t] = "blocked" /\ evBits' = evBits
      \/ /\ evPc'[t] = "return" /\ EvHit(t)
         /\ evBits' = IF evCall[t].clear THEN evBits \ evCall[t].bits ELSE evBits
      \/ evPc'[t] = "return" /\ evLeft[t] = 0 /\ evBits' = evBits /\ ~EvHit(t)
    <2>1. /\ evBits' = IF EvHit(t) /\ evCall[t].clear THEN evBits \ evCall[t].bits ELSE evBits
          /\ evPc'[t] = IF EvHit(t) \/ evLeft[t] = 0 THEN "return" ELSE "blocked"
        BY DEF GroupWait, EvGoto, EvInv, EvTypes
    <2> QED
        BY <2>1 DEF EvHit
<1>4. EvBase(evPc[t]) = "pending" /\ evPc[t] \in EvPending
    BY <1>1, EvPhaseOf DEF EvPending
<1>5. CASE evPc'[t] = "blocked" /\ evBits' = evBits
    <2>1. EvBase(evPc'[t]) = EvBase(evPc[t])
        BY <1>4, <1>5, EvPhaseOf DEF EvPending
    <2> QED
        BY <1>1, <1>2, <1>4, <1>5, <2>1, EvStutters
<1>6. CASE evPc'[t] = "return"
    <2>1. evPc'[t] \in EvDone
        BY <1>6 DEF EvDone
    <2>2. evLeft[t] = 0 => evCall[t].timeout # "forever"
        BY <1>1, EvAssumption DEF EvInv, EvTimes, EvNever
    <2>3. \A u \in EvThreads \ {t} : EvBase(evPc'[u]) = EvBase(evPc[u])
        BY <1>1
    <2>4. CASE EvHit(t)
        <3>1. evBits' = IF evCall[t].clear THEN evBits \ evCall[t].bits ELSE evBits
            BY <1>3, <1>6, <2>4
        <3> QED
            BY <1>1, <1>2, <1>4, <2>1, <2>3, <2>4, <3>1, EvEffect
    <2>5. CASE ~EvHit(t)
        <3>1. evBits' = evBits /\ evLeft[t] = 0 /\ evLoc'[t] = {}
            BY <1>1, <1>3, <1>6, <2>5 DEF EvHit
        <3> QED
            BY <1>1, <1>2, <1>4, <2>1, <2>2, <2>3, <3>1, EvEffect
    <2> QED
        BY <2>4, <2>5
<1> QED
    BY <1>3, <1>5, <1>6

LEMMA GroupClearRefines ==
    ASSUME EvInv, EvInv', NEW t \in EvThreads, GroupClear(t)
    PROVE  Eb!EbNext
<1>1. /\ evPc[t] = "kernel" /\ evPc'[t] = "return" /\ UNCHANGED <<hal, evCall, evLoc, evLock>>
      /\ evLock = EvFree /\ evCall[t].op = "clear" /\ evBits' = evBits \ evCall[t].bits
      /\ \A u \in EvThreads \ {t} : evPc'[u] = evPc[u]
    BY DEF GroupClear, EvGoto, EvInv, EvTypes
<1>2. EvCalm /\ EvCalm'
    BY <1>1 DEF EvCalm
<1>3. evPc[t] \in EvPending /\ evPc'[t] \in EvDone
    BY <1>1 DEF EvPending, EvDone
<1> QED
    BY <1>1, <1>2, <1>3, EvEffect

(* The set of an event group takes effect, here and for all it will wake. *)
LEMMA GroupSetRefines ==
    ASSUME EvInv, EvInv', NEW t \in EvThreads, GroupSet(t)
    PROVE  Eb!EbNext
<1>1. /\ evPc[t] = "kernel" /\ evPc'[t] = "release" /\ UNCHANGED <<hal, evCall>>
      /\ hal.style = "group" /\ evLock = EvFree /\ evCall[t].op = "set"
      /\ evBits' = evBits \cup evCall[t].bits /\ evLoc'[t] = {}
      /\ \A u \in EvThreads \ {t} : evPc'[u] = evPc[u] /\ evLoc'[u] = evLoc[u]
    BY DEF GroupSet, EvGoto, EvInv, EvTypes, EvStyles
<1>2. EvNoWalk
    BY <1>1, EvCalmNoWalk DEF EvCalm
<1> DEFINE W == {u \in EvThreads : EvServed(u)'}
<1>3. \A u \in W : u # t /\ evPc[u] = "blocked" /\ EvWaits(u) /\ evBits' \cap evCall[u].bits # {}
    BY <1>1 DEF EvServed, EvHit, EvInv, EvCopies
<1>4. /\ EvPhase(t) = "pending" /\ EvPhase(t)' = "done"
      /\ \A u \in W : EvPhase(u) = "pending" /\ EvPhase(u)' = "done"
      /\ \A u \in EvThreads : u # t /\ u \notin W => EvPhase(u)' = EvPhase(u)
    <2>1. EvBase(evPc[t]) = "pending" /\ EvBase(evPc'[t]) = "done" /\ EvBase("blocked") = "pending"
        BY <1>1, EvPhaseOf DEF EvPending, EvDone
    <2>2. \A u \in EvThreads : EvPhase(u) = EvBase(evPc[u])
        BY <1>2, EvPhaseOf DEF EvNoWalk
    <2>3. t \notin W
        BY <1>3
    <2> QED
        BY <1>1, <1>3, <2>1, <2>2, <2>3, EvPhaseNext
<1>5. /\ ~EvWaits(t)
      /\ \A u \in W : EvGot(u)' = evBits' \cap evCall[u].bits
      /\ \A u \in EvThreads : u # t /\ u \notin W => EvGot(u)' = EvGot(u)
      /\ EvGot(t) = {} /\ EvGot(t)' = {}
    <2>1. ~EvWaits(t) /\ ~EvWaits(t)'
        BY <1>1 DEF EvWaits
    <2>2. EvGot(t) = {} /\ EvGot(t)' = {}
        BY <2>1 DEF EvGot
    <2>3. ASSUME NEW u \in W PROVE EvGot(u)' = evBits' \cap evCall[u].bits
        <3>1. EvWaits(u)' /\ EvPhase(u)' = "done" /\ EvServed(u)'
            BY <1>1, <1>3, <1>4, <2>3 DEF EvWaits
        <3> QED
            BY <1>1, <3>1 DEF EvGot
    <2>4. ASSUME NEW u \in EvThreads, u # t, u \notin W PROVE EvGot(u)' = EvGot(u)
        <3>1. ~EvServed(u) /\ ~EvServed(u)' /\ EvPhase(u)' = EvPhase(u) /\ evLoc'[u] = evLoc[u]
            BY <1>1, <1>2, <1>4, <2>4 DEF EvNoWalk
        <3>2. evCall' = evCall
            BY <1>1
        <3> QED
            BY <3>1, <3>2 DEF EvGot, EvWaits
    <2> QED
        BY <2>1, <2>2, <2>3, <2>4
<1>6. EvBitsLeft = evBits
    BY <1>2 DEF EvNoWalk, EvBitsLeft
<1>7. EvBitsLeft' = evBits' \ Eb!EbCleared(W)
    <2>1. evBits' \subseteq EvBits
        BY DEF EvInv, EvTypes
    <2>2. \A b : b \in Eb!EbCleared(W) <=> \E u \in W : evCall[u].clear /\ b \in evCall[u].bits
        BY DEF Eb!EbCleared
    <2>3. \A u \in EvThreads : evPc'[u] = "release" => u = t
        BY <1>1, EvAssumption DEF EvInv, EvHolder, EvInside
    <2>4. \A b \in EvBits : b \in EvLeaving' <=> b \in Eb!EbCleared(W)
        BY <1>1, <2>2, <2>3 DEF EvLeaving
    <2> QED
        BY <2>1, <2>4 DEF EvBitsLeft
<1>8. W \in SUBSET Eb!EbSatisfied(evBits')
    BY <1>3, <1>4 DEF Eb!EbSatisfied, Eb!EbWaits, EvWaits
<1>9. EvPhases' = [u \in EvThreads |-> IF u = t \/ u \in W THEN "done" ELSE EvPhases[u]]
    BY <1>4 DEF EvPhases
<1>10. EvGots' = [u \in EvThreads |-> IF u \in W THEN evBits' \cap evCall[u].bits ELSE EvGots[u]]
    BY <1>5 DEF EvGots
<1>11. EvPhases[t] = "pending"
    BY <1>4 DEF EvPhases
<1> HIDE DEF W
<1>12. Eb!EbSet(t)
    <2>1. EvBitsLeft \cup evCall[t].bits = evBits'
        BY <1>1, <1>6
    <2>2. \E X \in SUBSET Eb!EbSatisfied(EvBitsLeft \cup evCall[t].bits) :
            /\ X # {} => (hal.style = "group")
            /\ EvBitsLeft' = (EvBitsLeft \cup evCall[t].bits) \ Eb!EbCleared(X)
            /\ EvPhases' = [u \in EvThreads |-> IF u = t \/ u \in X THEN "done" ELSE EvPhases[u]]
            /\ EvGots' = [u \in EvThreads |->
                   IF u \in X THEN (EvBitsLeft \cup evCall[t].bits) \cap evCall[u].bits
                   ELSE EvGots[u]]
        BY <1>1, <1>7, <1>8, <1>9, <1>10, <2>1
    <2> QED
        BY <1>1, <1>11, <2>2 DEF Eb!EbSet, EvPhases, EvGots, EvBitsLeft
<1> QED
    BY <1>12 DEF Eb!EbNext

(* The walk itself only carries out what has been decided. *)
LEMMA GroupReleaseStutters ==
    ASSUME EvInv, NEW t \in EvThreads, NEW u \in EvThreads, GroupRelease(t, u)
    PROVE  UNCHANGED Eb!ebVars
<1>1. /\ evPc[t] = "release" /\ evPc[u] = "blocked" /\ t # u /\ EvServed(u)
      /\ UNCHANGED <<hal, evBits, evCall>>
      /\ evPc'[u] = "return" /\ \A r \in EvThreads \ {u} : evPc'[r] = evPc[r]
      /\ evLoc'[u] = evBits \cap evCall[u].bits
      /\ evLoc'[t] = IF evCall[u].clear THEN evLoc[t] \cup evCall[u].bits ELSE evLoc[t]
      /\ \A r \in EvThreads \ {t, u} : evLoc'[r] = evLoc[r]
    BY DEF GroupRelease, EvGoto, EvInv, EvTypes, EvServed
<1>2. /\ ~EvServed(u)' /\ \A r \in EvThreads \ {u} : EvServed(r)' <=> EvServed(r)
      /\ evCall[t].op = "set"
    BY <1>1 DEF EvServed, EvHit, EvInv, EvCopies
<1>3. EvLeaving' = EvLeaving
    <2>1. ASSUME NEW b \in EvBits PROVE b \in EvLeaving' <=> b \in EvLeaving
        <3>1. ASSUME b \in EvLeaving PROVE b \in EvLeaving'
            <4>1. PICK r \in EvThreads :
                    \/ evPc[r] = "release" /\ b \in evLoc[r]
                    \/ EvServed(r) /\ evCall[r].clear /\ b \in evCall[r].bits
                BY <3>1 DEF EvLeaving
            <4>2. CASE r = u
                BY <1>1, <4>1, <4>2 DEF EvLeaving
            <4>3. CASE r # u
                BY <1>1, <1>2, <4>1, <4>3 DEF EvLeaving
            <4> QED
                BY <4>2, <4>3
        <3>2. ASSUME b \in EvLeaving' PROVE b \in EvLeaving
            <4>1. PICK r \in EvThreads :
                    \/ evPc'[r] = "release" /\ b \in evLoc'[r]
                    \/ EvServed(r)' /\ evCall'[r].clear /\ b \in evCall'[r].bits
                BY <3>2 DEF EvLeaving
            <4>2. r # u
                BY <1>1, <1>2, <4>1
            <4> QED
                BY <1>1, <1>2, <4>1, <4>2 DEF EvLeaving
        <3> QED
            BY <3>1, <3>2
    <2> QED
        BY <2>1 DEF EvLeaving
<1>4. \A r \in EvThreads : EvPhase(r)' = EvPhase(r)
    <2>1. EvPhase(u) = "done" /\ EvPhase(u)' = "done"
        BY <1>1, <1>2, EvPhaseOf, EvPhaseNext DEF EvDone
    <2>2. ASSUME NEW r \in EvThreads \ {u} PROVE EvPhase(r)' = EvPhase(r)
        BY <1>1, <1>2 DEF EvPhase
    <2> QED
        BY <2>1, <2>2
<1>5. \A r \in EvThreads : EvGot(r)' = EvGot(r)
    <2>1. EvGot(u)' = EvGot(u)
        BY <1>1, <1>2, <1>4 DEF EvGot, EvWaits
    <2>2. EvGot(t)' = EvGot(t)
        BY <1>1, <1>2 DEF EvGot, EvWaits
    <2>3. ASSUME NEW r \in EvThreads \ {t, u} PROVE EvGot(r)' = EvGot(r)
        BY <1>1, <1>2, <1>4 DEF EvGot, EvWaits
    <2> QED
        BY <2>1, <2>2, <2>3
<1> QED
    BY <1>1, <1>3, <1>4, <1>5 DEF Eb!ebVars

LEMMA GroupDoneStutters ==
    ASSUME EvInv, EvInv', NEW t \in EvThreads, GroupDone(t)
    PROVE  UNCHANGED Eb!ebVars
<1>1. /\ evPc[t] = "release" /\ evPc'[t] = "return" /\ UNCHANGED <<hal, evCall, evLoc>>
      /\ evLock' = EvFree /\ evBits' = evBits \ evLoc[t]
      /\ \A u \in EvThreads \ {t} : evPc'[u] = evPc[u]
      /\ \A u \in EvThreads : ~EvServed(u)
    BY DEF GroupDone, EvGoto, EvBlocked, EvServed, EvInv, EvTypes
<1>2. EvNoWalk'
    BY <1>1, EvCalmNoWalkNext DEF EvCalm
<1>3. evBits' \ EvLeaving' = evBits \ EvLeaving
    <2>1. \A u \in EvThreads : evPc[u] = "release" => u = t
        BY <1>1 DEF EvInv, EvHolder, EvInside
    <2>2. evBits \subseteq EvBits
        BY DEF EvInv, EvTypes
    <2>3. \A b \in EvBits : b \in EvLeaving <=> b \in evLoc[t]
        BY <1>1, <2>1 DEF EvLeaving
    <2> QED
        BY <1>1, <1>2, <2>2, <2>3 DEF EvNoWalk
<1>4. \A u \in EvThreads : EvPhase(u)' = EvPhase(u)
    <2>1. \A u \in EvThreads : EvPhase(u) = EvBase(evPc[u]) /\ EvPhase(u)' = EvBase(evPc'[u])
        BY <1>1, <1>2, EvPhaseOf, EvPhaseNext DEF EvNoWalk
    <2>2. EvBase(evPc'[t]) = EvBase(evPc[t])
        BY <1>1, EvPhaseOf DEF EvDone
    <2> QED
        BY <1>1, <2>1, <2>2
<1>5. \A u \in EvThreads : EvGot(u)' = EvGot(u)
    BY <1>1, <1>2, <1>4 DEF EvGot, EvWaits, EvNoWalk
<1> QED
    BY <1>1, <1>3, <1>4, <1>5 DEF Eb!ebVars

(* The steps that take no effect. *)
LEMMA EvMoveStutters ==
    ASSUME EvInv, EvInv', NEW t \in EvThreads, EvLock(t) \/ SpuriousWake(t)
    PROVE  UNCHANGED Eb!ebVars
<1>1. /\ UNCHANGED <<hal, evBits, evCall, evLoc>> /\ hal.style # "group"
      /\ \A u \in EvThreads \ {t} : evPc'[u] = evPc[u]
    BY DEF EvLock, SpuriousWake, EvGoto, EvInv, EvTypes, EvStyles
<1>2. evPc[t] \in {"lock", "blocked"} /\ evPc'[t] \in {"load", "lock"}
    BY DEF EvLock, SpuriousWake, EvGoto, EvInv, EvTypes
<1>3. EvBase(evPc'[t]) = EvBase(evPc[t])
    BY <1>2, EvPhaseOf DEF EvPending
<1>4. EvCalm /\ EvCalm'
    BY <1>1 DEF EvCalm
<1> QED
    BY <1>1, <1>3, <1>4, EvStutters

LEMMA EvTickStutters ==
    ASSUME UNCHANGED <<hal, evBits, evPc, evCall, evLoc>>
    PROVE  UNCHANGED Eb!ebVars
<1>1. \A t \in EvThreads : EvServed(t)' <=> EvServed(t)
    BY DEF EvServed, EvHit
<1>2. EvLeaving' = EvLeaving
    BY <1>1 DEF EvLeaving
<1>3. \A t \in EvThreads : EvPhase(t)' = EvPhase(t)
    BY <1>1 DEF EvPhase
<1>4. \A t \in EvThreads : EvGot(t)' = EvGot(t)
    BY <1>1, <1>3 DEF EvGot, EvWaits
<1> QED
    BY <1>2, <1>3, <1>4 DEF Eb!ebVars

(* Every platform implements the atomic event object of EventBits: each    *)
(* call of tiny_events_wait, check_int, set and clear takes effect at one  *)
(* moment, a wait returns the requested bits that are set at that moment,  *)
(* only an event group gives a bit to several waiters, those it wakes by   *)
(* one set, and a wait for ever never returns 0, however threads, timeouts *)
(* and spurious wake-ups interleave.                                       *)
THEOREM EveryHalImplementsEventBits == EvSpec => ImplementsEventBits
<1>1. EvInit => Eb!EbInit
    <2> SUFFICES ASSUME EvInit PROVE Eb!EbInit
        OBVIOUS
    <2>1. (CHOOSE c \in EvCalls : TRUE) \in EvCalls
        BY EvAssumption
    <2>2. \A t \in EvThreads : EvPhase(t) = "idle" /\ EvGot(t) = {}
        BY DEF EvInit, EvPhase, EvGot, EvServed
    <2>3. (hal.style = "group") \in BOOLEAN
        OBVIOUS
    <2> QED
        BY <2>1, <2>2, <2>3 DEF EvInit, Eb!EbInit
<1>2. EvInv /\ EvInv' /\ [EvNext]_evVars => [Eb!EbNext]_Eb!ebVars
    <2> SUFFICES ASSUME EvInv, EvInv', [EvNext]_evVars PROVE Eb!EbNext \/ UNCHANGED Eb!ebVars
        OBVIOUS
    <2>1. CASE UNCHANGED evVars \/ EvTick
        BY <2>1, EvTickStutters DEF evVars, EvTick
    <2>2. ASSUME NEW t \in EvThreads, EvEnter(t) \/ EvStep(t) \/ SpuriousWake(t)
          PROVE  Eb!EbNext \/ UNCHANGED Eb!ebVars
        BY <2>2, EvEnterBegins, EvReturnEnds, EvLoadRefines, EvStoreRefines, EvFailureRefines,
           GroupWaitRefines, GroupClearRefines, GroupSetRefines, GroupReleaseStutters,
           GroupDoneStutters, EvMoveStutters DEF EvStep
    <2> QED
        BY <2>1, <2>2 DEF EvNext
<1> QED
    BY <1>1, <1>2, EvInitInv, EvNextInv, PTL DEF EvSpec, ImplementsEventBits, Eb!EbSpec
=============================================================================
