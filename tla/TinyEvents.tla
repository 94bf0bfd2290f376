----------------------------- MODULE TinyEvents -----------------------------
(***************************************************************************)
(* The event object of the hardware abstraction layer (src/src/hal): the   *)
(* primitive the FD and HDLC engines use to wake a thread.  Every platform *)
(* has its own implementation.  They fall into three styles: a condition   *)
(* variable under a mutex, polling under a lock, and the event groups of   *)
(* FreeRTOS.  A platform is a record that says how its code differs; the   *)
(* platform under test is chosen in the initial state.                     *)
(***************************************************************************)
EXTENDS Naturals

CONSTANTS
    EvThreads,      \* the threads that share the event object
    EvBits,         \* the bits in use
    EvPlatforms,    \* the platforms to check
    EvCalls,        \* the calls a thread may make
    EvBudgets,      \* bounds on the calls of the threads, functions of EvThreads
    EvTicks         \* how many clock ticks a finite timeout lasts

EvFree == "free"

ASSUME EvAssumption ==
    /\ EvFree \notin EvThreads /\ EvCalls # {}
    /\ EvBudgets \subseteq [EvThreads -> Nat] /\ EvTicks \in Nat \ {0}
    /\ \A c \in EvCalls :
        /\ c.op \in {"wait", "check", "set", "clear"}
        /\ c.bits \subseteq EvBits /\ c.clear \in BOOLEAN
        /\ c.timeout \in {"zero", "finite", "forever"}
        /\ c.op = "check" => c.timeout = "zero"

(***************************************************************************)
(* The platforms.  "style" is the way tiny_events_wait blocks; "check" says*)
(* whether tiny_events_check_int is a wait of zero ms or a read of its own;*)
(* "clock" says what drives tiny_millis.                                   *)
(***************************************************************************)

LinuxHal == [style |-> "condvar", check |-> "wait", clock |-> "runs"]

(* gettimeofday: the deadline moves with the wall clock, which here only runs. *)
MacosHal == [style |-> "condvar", check |-> "wait", clock |-> "runs"]

Mingw32Hal == [style |-> "condvar", check |-> "wait", clock |-> "runs"]

(* The timeout is relative: what has elapsed is subtracted after every wake-up. *)
Win32Hal == [style |-> "condvar", check |-> "wait", clock |-> "runs"]

(* ATOMIC_BLOCK of the ARM cores: interrupts off, or a spin lock. *)
ArduinoHal == [style |-> "poll", check |-> "read", clock |-> "runs"]

(* Without Arduino's millis() the AVR clock reads 0 for ever. *)
AvrHal(arduino) == [style |-> "poll", check |-> "read",
                    clock |-> IF arduino THEN "runs" ELSE "stopped"]

FreertosHal == [style |-> "group", check |-> "wait", clock |-> "runs"]

Esp32Hal == [style |-> "group", check |-> "wait", clock |-> "runs"]

(* The default millis() counts its calls. *)
NoPlatformHal == [style |-> "poll", check |-> "read", clock |-> "calls"]

(* tiny_hal_init replaces the entries the application supplies. *)
TinyHalInit(supplied) ==
    [NoPlatformHal EXCEPT !.clock = IF "millis" \in supplied THEN "runs" ELSE @]

VARIABLES
    hal,        \* the platform
    evBits,     \* events->bits
    evLock,     \* who holds the object's mutex (or ATOMIC_BLOCK, or the scheduler)
    evPc,       \* where each thread is
    evCall,     \* the call it is in
    evLoc,      \* its copy of the bits, in the end what the call returns
    evLeft,     \* ticks left of its timeout
    evMore      \* calls it may still make

evVars == <<hal, evBits, evLock, evPc, evCall, evLoc, evLeft, evMore>>

EvNever == EvTicks + 1

(* tiny_events_create. *)
EvInit ==
    /\ hal \in EvPlatforms
    /\ evBits = {}
    /\ evLock = EvFree
    /\ evPc = [t \in EvThreads |-> "idle"]
    /\ evCall = [t \in EvThreads |-> CHOOSE c \in EvCalls : TRUE]
    /\ evLoc = [t \in EvThreads |-> {}]
    /\ evLeft = [t \in EvThreads |-> 0]
    /\ evMore \in EvBudgets

EvGoto(t, pc) == evPc' = [evPc EXCEPT ![t] = pc]
EvWaits(t) == evCall[t].op \in {"wait", "check"}
EvHit(t) == evBits \cap evCall[t].bits # {}
EvBlocked == {t \in EvThreads : evPc[t] = "blocked"}

(* Entering a call: the deadline is fixed before the lock is taken. *)
EvEnter(t) ==
    /\ evPc[t] = "idle" /\ evMore[t] > 0
    /\ \E c \in EvCalls :
        /\ evCall' = [evCall EXCEPT ![t] = c]
        /\ evLeft' = [evLeft EXCEPT ![t] =
               [zero |-> 0, finite |-> EvTicks, forever |-> EvNever][c.timeout]]
    /\ evMore' = [evMore EXCEPT ![t] = @ - 1]
    /\ EvGoto(t, IF hal.style = "group" THEN "kernel" ELSE "lock")
    /\ UNCHANGED <<hal, evBits, evLock, evLoc>>

(* pthread_mutex_lock, EnterCriticalSection, ATOMIC_BLOCK, tiny_mutex_lock. *)
EvLock(t) ==
    /\ evPc[t] = "lock" /\ evLock = EvFree
    /\ evLock' = t
    /\ EvGoto(t, "load")
    /\ UNCHANGED <<hal, evBits, evCall, evLoc, evLeft, evMore>>

(* The bits are read.  A wait that finds none of its bits blocks on the    *)
(* condition variable, which gives the mutex back, or ends its round of    *)
(* polling; one that finds a bit clears what it asked for.                 *)
EvLoad(t) ==
    /\ evPc[t] = "load"
    /\ evLoc' = [evLoc EXCEPT ![t] = evBits]
    /\ LET blocks == EvWaits(t) /\ ~EvHit(t) /\ hal.style = "condvar"
       IN /\ EvGoto(t, CASE blocks -> "blocked"
                       [] EvWaits(t) /\ ~EvHit(t) /\ ~blocks -> "missed"
                       [] EvWaits(t) /\ EvHit(t) /\ ~evCall[t].clear -> "unlock"
                       [] OTHER -> "store")
          /\ evLock' = IF blocks THEN EvFree ELSE evLock
    /\ UNCHANGED <<hal, evBits, evCall, evLeft, evMore>>

(* Mutant: tiny_events_set does not wake the waiters. *)
EvWakeNobody(t) == EvGoto(t, "unlock")

(* pthread_cond_broadcast: who waits contends for the mutex again. *)
EvBroadcast(t) ==
    evPc' = [u \in EvThreads |->
               CASE u = t -> "unlock"
                 [] u # t /\ evPc[u] = "blocked" /\ evCall[t].op = "set" -> "lock"
                 [] OTHER -> evPc[u]]

(* events->bits |= bits, or &= ~bits. *)
EvStore(t) ==
    /\ evPc[t] = "store"
    /\ evBits' = IF evCall[t].op = "set" THEN evLoc[t] \cup evCall[t].bits
                                        ELSE evLoc[t] \ evCall[t].bits
    /\ EvBroadcast(t)
    /\ UNCHANGED <<hal, evLock, evCall, evLoc, evLeft, evMore>>

(* A poll that missed leaves the lock and looks at the clock, or, in       *)
(* tiny_events_check_int, returns the bits it read, requested or not       *)
(* (tiny_types.h promises "0 if no any of requested bits are set").        *)
EvUnlock(t) ==
    /\ evPc[t] \in {"unlock", "missed"}
    /\ evLock' = EvFree
    /\ EvGoto(t, IF evPc[t] = "missed" /\ (evCall[t].op = "wait" \/ hal.check = "wait")
               THEN "late" ELSE "return")
    /\ UNCHANGED <<hal, evBits, evCall, evLoc, evLeft, evMore>>

(* Mutant: the polling loop forgets to look at the clock. *)
EvLateForgotten(t) ==
    /\ evPc[t] = "late"
    /\ EvGoto(t, "lock")
    /\ UNCHANGED <<hal, evBits, evLock, evCall, evLoc, evLeft, evMore>>

(* (uint32_t)(tiny_millis() - ts) >= timeout, outside the lock: a bit set  *)
(* since the read is left for the next caller, and the call returns 0.     *)
EvLate(t) ==
    /\ evPc[t] = "late"
    /\ EvGoto(t, IF evLeft[t] = 0 THEN "return" ELSE "lock")
    /\ evLoc' = IF evLeft[t] = 0 THEN [evLoc EXCEPT ![t] = {}] ELSE evLoc
    /\ evLeft' = IF hal.clock = "calls" /\ evLeft[t] \notin {0, EvNever}
                 THEN [evLeft EXCEPT ![t] = @ - 1] ELSE evLeft
    /\ UNCHANGED <<hal, evBits, evLock, evCall, evMore>>

(* ETIMEDOUT: the waiter leaves the queue, a bit set meanwhile included in *)
(* what it ignores, and takes the mutex once more on its way out.  The     *)
(* kernel's tick takes a task off the list unless the scheduler is         *)
(* suspended; GroupWait says how it goes on.                               *)
EvExpire(t) ==
    /\ evPc[t] = "blocked" /\ evLeft[t] = 0
    /\ hal.style = "group" => evLock = EvFree
    /\ EvGoto(t, "expired")
    /\ UNCHANGED <<hal, evBits, evLock, evCall, evLoc, evLeft, evMore>>

EvExpired(t) ==
    /\ evPc[t] = "expired" /\ hal.style = "condvar" /\ evLock = EvFree
    /\ evLoc' = [evLoc EXCEPT ![t] = {}]
    /\ EvGoto(t, "return")
    /\ UNCHANGED <<hal, evBits, evLock, evCall, evLeft, evMore>>

(* A condition variable may wake a thread for no reason. *)
SpuriousWake(t) ==
    /\ evPc[t] = "blocked" /\ hal.style = "condvar" /\ evLeft[t] > 0
    /\ EvGoto(t, "lock")
    /\ UNCHANGED <<hal, evBits, evLock, evCall, evLoc, evLeft, evMore>>

(***************************************************************************)
(* The event groups of FreeRTOS run with the scheduler suspended.          *)
(***************************************************************************)

(* xEventGroupWaitBits, when called and again when its ticks are over. *)
GroupWait(t) ==
    /\ \/ evPc[t] = "kernel" /\ EvWaits(t)
       \/ evPc[t] = "expired" /\ hal.style = "group"
    /\ evLock = EvFree
    /\ evLoc' = [evLoc EXCEPT ![t] = evBits \cap evCall[t].bits]
    /\ evBits' = IF EvHit(t) /\ evCall[t].clear THEN evBits \ evCall[t].bits ELSE evBits
    /\ EvGoto(t, IF EvHit(t) \/ evLeft[t] = 0 THEN "return" ELSE "blocked")
    /\ UNCHANGED <<hal, evLock, evCall, evLeft, evMore>>

(* xEventGroupClearBits. *)
GroupClear(t) ==
    /\ evPc[t] = "kernel" /\ evCall[t].op = "clear" /\ evLock = EvFree
    /\ evBits' = evBits \ evCall[t].bits
    /\ EvGoto(t, "return")
    /\ UNCHANGED <<hal, evLock, evCall, evLoc, evLeft, evMore>>

(* xEventGroupSetBits sets the bits, walks the waiting tasks and releases  *)
(* every one that waits for a bit that is set, and only then clears what   *)
(* those tasks asked to clear: evLoc of the caller collects it.            *)
GroupSet(t) ==
    /\ evPc[t] = "kernel" /\ evCall[t].op = "set" /\ evLock = EvFree
    /\ evBits' = evBits \cup evCall[t].bits
    /\ evLoc' = [evLoc EXCEPT ![t] = {}]
    /\ evLock' = t
    /\ EvGoto(t, "release")
    /\ UNCHANGED <<hal, evCall, evLeft, evMore>>

GroupRelease(t, u) ==
    /\ evPc[t] = "release" /\ evPc[u] = "blocked" /\ EvHit(u)
    /\ evLoc' = [evLoc EXCEPT ![u] = evBits \cap evCall[u].bits,
                             ![t] = IF evCall[u].clear THEN @ \cup evCall[u].bits ELSE @]
    /\ EvGoto(u, "return")
    /\ UNCHANGED <<hal, evBits, evLock, evCall, evLeft, evMore>>

(* Mutant: the bits of the released tasks are not cleared. *)
GroupDoneKeeps(t) ==
    /\ evPc[t] = "release"
    /\ \A u \in EvBlocked : ~EvHit(u)
    /\ evLock' = EvFree
    /\ EvGoto(t, "return")
    /\ UNCHANGED <<hal, evBits, evCall, evLoc, evLeft, evMore>>

GroupDone(t) ==
    /\ evPc[t] = "release"
    /\ \A u \in EvBlocked : ~EvHit(u)
    /\ evBits' = evBits \ evLoc[t]
    /\ evLock' = EvFree
    /\ EvGoto(t, "return")
    /\ UNCHANGED <<hal, evCall, evLoc, evLeft, evMore>>

EvReturn(t) ==
    /\ evPc[t] = "return"
    /\ EvGoto(t, "idle")
    /\ UNCHANGED <<hal, evBits, evLock, evCall, evLoc, evLeft, evMore>>

(* tiny_millis, or the kernel's tick. *)
EvTick ==
    /\ hal.clock = "runs"
    /\ \E t \in EvThreads : evPc[t] # "idle" /\ evLeft[t] \notin {0, EvNever}
    /\ evLeft' = [t \in EvThreads |->
                    IF evLeft[t] \in {0, EvNever} THEN evLeft[t] ELSE evLeft[t] - 1]
    /\ UNCHANGED <<hal, evBits, evLock, evPc, evCall, evLoc, evMore>>

EvStep(t) ==
    \/ EvLock(t) \/ EvLoad(t) \/ EvStore(t) \/ EvUnlock(t) \/ EvLate(t) \/ EvExpire(t) \/ EvExpired(t)
    \/ GroupWait(t) \/ GroupClear(t) \/ GroupSet(t) \/ GroupDone(t) \/ EvReturn(t)
    \/ \E u \in EvThreads : GroupRelease(t, u)

EvNext == EvTick \/ \E t \in EvThreads : EvEnter(t) \/ EvStep(t) \/ SpuriousWake(t)

(* Threads keep running, and the one that keeps asking for the mutex gets it. *)
EvFairness ==
    /\ WF_evVars(EvTick)
    /\ \A t \in EvThreads :
           WF_evVars(EvStep(t)) /\ SF_evVars(EvLock(t) \/ EvExpired(t))

EvSpec == EvInit /\ [][EvNext]_evVars /\ EvFairness

(***************************************************************************)
(* Properties.                                                             *)
(***************************************************************************)

(* No wake-up is lost: a thread asleep in tiny_events_wait, with nobody    *)
(* inside the object to wake it, waits for bits that are all clear.        *)
EvNoLostWakeup ==
    \A t \in EvBlocked : evLock = EvFree /\ evLeft[t] > 0 => ~EvHit(t)

(* A timed wait comes to an end on every platform whose clock runs: the    *)
(* polling loops and the condition variables agree with the timeout that   *)
(* tiny_fd_send and hdlc_send rely on.                                     *)
EvTimedWaitEnds == \A t \in EvThreads :
    (evPc[t] # "idle" /\ evCall[t].timeout # "forever" /\ hal.clock # "stopped")
        ~> (evPc[t] = "idle")

(* The calls the walk of a set is about to release, and the bits it will   *)
(* clear: for everybody else that has happened when the bits were set.     *)
EvServed(t) == evPc[t] = "blocked" /\ EvHit(t)
EvLeaving == {b \in EvBits : \E t \in EvThreads :
    \/ evPc[t] = "release" /\ b \in evLoc[t]
    \/ EvServed(t) /\ evCall[t].clear /\ b \in evCall[t].bits}

EvPhase(t) ==
    CASE evPc[t] = "idle" -> "idle"
      [] evPc[t] \in {"unlock", "release", "return"} \/ EvServed(t) -> "done"
      [] OTHER -> "pending"

EvGot(t) ==
    IF ~EvWaits(t) \/ EvPhase(t) # "done" THEN {}
    ELSE IF EvServed(t) THEN evBits \cap evCall[t].bits
    ELSE evLoc[t]

Eb == INSTANCE EventBits WITH
    EbThreads <- EvThreads, EbCalls <- EvCalls, ebBits <- evBits \ EvLeaving, ebCall <- evCall,
    ebPhase <- [t \in EvThreads |-> EvPhase(t)], ebGot <- [t \in EvThreads |-> EvGot(t)],
    ebGroup <- (hal.style = "group")

(* Every platform implements the atomic event object: each call takes      *)
(* effect at one moment, and what a wait returns tells whether and which   *)
(* of its bits were set at that moment.  No bit is taken by two waiters    *)
(* but by those whom one xEventGroupSetBits releases together, and a wait  *)
(* for ever never returns 0.                                               *)
ImplementsEventBits == Eb!EbSpec
=============================================================================
