------------------------------ MODULE MCEvents -------------------------------
(***************************************************************************)
(* The event object of the platforms, with small sets of calls.            *)
(***************************************************************************)
EXTENDS TinyEvents, TLC

CONSTANTS t1, t2, t3    \* threads

(* Every HAL. *)
MCEvPlatforms ==
    {LinuxHal, MacosHal, Mingw32Hal, Win32Hal, ArduinoHal, AvrHal(TRUE), AvrHal(FALSE),
     FreertosHal, Esp32Hal, NoPlatformHal, TinyHalInit({"millis"})}

(* Waits with and without a limit, of one bit and of two, and calls that   *)
(* set, clear and poll.                                                    *)
MCEvCall(op, b, c, t) == [op |-> op, bits |-> b, clear |-> c, timeout |-> t]
MCEvCalls ==
    {MCEvCall("wait", {1}, TRUE, "finite"), MCEvCall("wait", {1, 2}, TRUE, "forever"),
     MCEvCall("check", {2}, TRUE, "zero"), MCEvCall("set", {1}, FALSE, "zero"),
     MCEvCall("clear", {1}, FALSE, "zero")}

MCEvTwice == {[t \in EvThreads |-> 2]}
=============================================================================
