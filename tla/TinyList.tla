------------------------------ MODULE TinyList ------------------------------
(***************************************************************************)
(* hal/tiny_list.c: a doubly linked list whose links are kept in the       *)
(* elements.  Every function runs under s_mutex; add, remove and clear are *)
(* one action each, and tiny_list_enumerate is its loop, one action per    *)
(* call of the callback, with every other function locked out meanwhile.   *)
(* The caller reads head for the enumeration; the only user of the list    *)
(* (unittest/hal_tests.cpp) calls it from one thread, so nothing happens   *)
(* between that and the lock.  tiny_list_clear leaves the links of the     *)
(* elements as they are.                                                   *)
(***************************************************************************)
EXTENDS Naturals, Sequences

CONSTANT TlElements     \* list_element objects

TlNil == "0"

ASSUME TlAssumption == TlNil \notin TlElements

VARIABLES
    tlHead,     \* the caller's head pointer
    tlNext,     \* pnext of every element
    tlPrev,     \* pprev of every element
    tlLoop,     \* the enumeration: "idle", in its "loop", or past a "break"
    tlAt,       \* its own head, the element it is at
    tlSeen,     \* what its callback was called with
    tlMembers   \* what the list holds by the calls made, newest first

tlLinks == <<tlHead, tlNext, tlPrev, tlMembers>>
tlWalk == <<tlLoop, tlAt, tlSeen>>
tlVars == <<tlLinks, tlWalk>>

TlIsMember(e) == \E i \in DOMAIN tlMembers : tlMembers[i] = e

TlInit ==
    /\ tlHead = TlNil
    /\ tlNext = [e \in TlElements |-> TlNil]
    /\ tlPrev = [e \in TlElements |-> TlNil]
    /\ tlLoop = "idle" /\ tlAt = TlNil /\ tlSeen = <<>>
    /\ tlMembers = <<>>

(* tiny_list_add, of an element that is in no list. *)
TlAdd(e) ==
    /\ tlLoop = "idle" /\ ~TlIsMember(e)
    /\ tlNext' = [tlNext EXCEPT ![e] = tlHead]
    /\ tlPrev' = [x \in TlElements |-> IF x = e THEN TlNil
                                       ELSE IF x = tlHead THEN e ELSE tlPrev[x]]
    /\ tlHead' = e
    /\ tlMembers' = <<e>> \o tlMembers
    /\ UNCHANGED tlWalk

(* Mutant: the element behind the removed one keeps pointing at it. *)
TlUnlinkPrevStale(e) ==
    [x \in TlElements |-> IF x = e THEN TlNil ELSE tlPrev[x]]

(* pprev of every element once e is out. *)
TlUnlinkPrev(e) ==
    [x \in TlElements |->
        IF x = e THEN TlNil
        ELSE IF x = tlNext[e] THEN (IF e = tlHead THEN TlNil ELSE tlPrev[e])
        ELSE tlPrev[x]]

(* tiny_list_remove, of the i-th element of this list. *)
TlRemove(i) ==
    LET e == tlMembers[i]
    IN /\ tlLoop = "idle"
       /\ tlHead' = IF e = tlHead THEN tlNext[e] ELSE tlHead
       /\ tlNext' = [x \in TlElements |->
              IF x = e THEN TlNil
              ELSE IF e # tlHead /\ x = tlPrev[e] THEN tlNext[e] ELSE tlNext[x]]
       /\ tlPrev' = TlUnlinkPrev(e)
       /\ tlMembers' = [k \in 1..Len(tlMembers) - 1 |-> tlMembers[IF k < i THEN k ELSE k + 1]]
       /\ UNCHANGED tlWalk

(* tiny_list_clear *)
TlClear ==
    /\ tlLoop = "idle"
    /\ tlHead' = TlNil
    /\ tlMembers' = <<>>
    /\ UNCHANGED <<tlNext, tlPrev, tlWalk>>

(* tiny_list_enumerate takes s_mutex. *)
TlEnumerate ==
    /\ tlLoop = "idle"
    /\ tlLoop' = "loop" /\ tlAt' = tlHead /\ tlSeen' = <<>>
    /\ UNCHANGED tlLinks

(* One turn of its loop; a callback that returns 0 breaks it. *)
TlVisit ==
    /\ tlLoop = "loop" /\ tlAt # TlNil
    /\ tlSeen' = Append(tlSeen, tlAt)
    /\ \/ tlAt' = tlNext[tlAt] /\ UNCHANGED tlLoop
       \/ tlLoop' = "break" /\ UNCHANGED tlAt
    /\ UNCHANGED tlLinks

(* The loop is over and s_mutex is given back. *)
TlReturn ==
    /\ tlLoop = "break" \/ (tlLoop = "loop" /\ tlAt = TlNil)
    /\ tlLoop' = "idle" /\ tlAt' = TlNil /\ tlSeen' = <<>>
    /\ UNCHANGED tlLinks

TlNextStep ==
    \/ TlClear
    \/ \E e \in TlElements : TlAdd(e)
    \/ \E i \in DOMAIN tlMembers : TlRemove(i)
    \/ TlEnumerate \/ TlVisit \/ TlReturn

TlSpec == TlInit /\ [][TlNextStep]_tlVars

(* An enumeration calls back for the elements that were added and not      *)
(* removed since the last clear, each once and the newest first, whatever  *)
(* stale links tiny_list_clear left in them; unless its callback stops it, *)
(* it ends when it has shown all of them and not before.                   *)
TlEnumerates ==
    tlLoop # "idle" =>
        /\ Len(tlSeen) <= Len(tlMembers)
        /\ \A i \in 1..Len(tlSeen) : tlSeen[i] = tlMembers[i]
        /\ tlLoop = "loop" => (tlAt = TlNil <=> Len(tlSeen) = Len(tlMembers))
=============================================================================
