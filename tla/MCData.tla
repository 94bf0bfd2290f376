------------------------------- MODULE MCData --------------------------------
(***************************************************************************)
(* The components that carry, frame and keep data, checked in one run:     *)
(* part says which of them the behaviour is about, and the others keep     *)
(* their first initial state.                                              *)
(***************************************************************************)
EXTENDS HdlcLL, FdServiceQueue, TinyLight, HdlcHigh, Proto, TinyList, TinyPacket, SerialLink, PyHdlc,
    FdInit, RustHdlc, HdlcLink, MCEvents

VARIABLE part

mcVars == <<part, vars, sqVars, ltVars, hhVars, prVars, tlVars, pkVars, slVars, phVars, fiVars, rsVars,
    hlVars, evVars>>
MCParts == {"hdlc_ll", "s_queue", "light", "hdlc", "proto", "list", "packet", "serial", "python", "init",
            "rust", "link", "events"}

(* Frames with flags and escapes in every place: in the payload, at its    *)
(* end, and as the checksum (255 - 129 is the flag).                       *)
MCFrames == {<<126, 125>>, <<129>>, <<65, 94>>}

(* tiny_light: a limit on the time of a send and of a read, a failing      *)
(* write, and two read buffers.                                            *)
MCLtScenario(b, t, w, r) ==
    [buffers |-> b, timeouts |-> t, writeErrors |-> w, readErrors |-> r]
MCLtScenarios ==
    {MCLtScenario({1}, 1, 0, 1), MCLtScenario({1}, 0, 1, 0), MCLtScenario({1, 2}, 2, 0, 0)}

(* hdlc: one sender with a pump thread, two of them, and one without threads. *)
MCHhScenarios ==
    {[multithread |-> TRUE, senders |-> {1}], [multithread |-> TRUE, senders |-> {1, 2}],
     [multithread |-> FALSE, senders |-> {1}]}

MCSlDrivers ==
    {LinuxSerial, MacosSerial, Win32Serial, Esp32Serial, ArduinoSerial, NoPlatformSerial}
MCSlPumps == {FdPump, IFdPump, LinkPump}

(* tiny_fd_init: buffers of the minimum size and larger at every address,  *)
(* and what the classes pass: the mtu by default, which is too large for   *)
(* uint16_t, windows that are refused, and timeouts that do not fit.       *)
MCFiSetup(o, m, w, t, s) ==
    [owner |-> o, mtu |-> m, window |-> w, timeout |-> t, spare |-> s]
MCFiLink(m, w, t) == MCFiSetup("SerialFdLink", m, w, t, 0)
MCFiSetups ==
    {MCFiSetup("c", m, w, 1000, s) : m \in {2, 3, 9, 64}, w \in {2, 3}, s \in {0, 5, 16}}
    \cup {MCFiSetup("IFd", m, w, 0, s) : m \in 2..9, w \in {1, 2, 7}, s \in {0, 16}}
    \cup {MCFiLink(m, w, t) : m \in 1..9 \cup {16, 16384}, w \in {1, 2, 7, 8}, t \in {0, 3, 262144}}
    \cup {MCFiSetup("python", m, w, 0, 0) : m \in 1..9 \cup {1500}, w \in {1, 2, 7}}

(* The link of the classes: one sender with a transmitting thread, two of  *)
(* them, and one without.                                                  *)
MCHlScenario(n, m, f) ==
    [senders |-> DOMAIN n, sends |-> n, multithread |-> m, fresh |-> f, empties |-> f]
MCHlScenarios ==
    {MCHlScenario(<<2>>, TRUE, TRUE), MCHlScenario(<<2, 2>>, TRUE, FALSE),
     MCHlScenario(<<2>>, FALSE, TRUE)}

(* Packets: values of every kind; the strings fill one, or hold nothing. *)
MCPkValue(k, v) == [kind |-> k, val |-> v]
MCPkValues ==
    {MCPkValue("u8", 7), MCPkValue("u16", 259), MCPkValue("i16", -2), MCPkValue("u32", 66051),
     MCPkValue("str", <<65, 66, 67>>), MCPkValue("str", <<>>)}

(* Two threads with two calls each on every HAL; and, where a set may      *)
(* release several waiters, three with a call each: two can be asleep when *)
(* the third sets a bit.                                                   *)
MCEvMoreCalls == MCEvCalls \cup {MCEvCall("wait", {1}, FALSE, "forever")}
MCEvBudgets == {t1 :> 2 @@ t2 :> 2 @@ t3 :> 0, t1 :> 1 @@ t2 :> 1 @@ t3 :> 1}

(* Rust: a plain run, special bytes, and a checksum that is the flag. *)
MCRsFrames == {<<65, 66>>, <<126, 65>>, <<129>>}

MCInit ==
    /\ part \in MCParts
    /\ Init /\ SqInit /\ TlInit /\ PhInit
    /\ LtInit /\ (part = "light" \/ ltSetup = CHOOSE c \in LtScenarios : TRUE)
    /\ HhInit /\ (part = "hdlc" \/ hhSetup = CHOOSE c \in HhScenarios : TRUE)
    /\ PrInit /\ (part = "proto" \/ (prMulti /\ prPool = CHOOSE p \in PrPackets : TRUE))
    /\ PkInit /\ (part = "packet" \/ pkOrder = "left")
    /\ FiInit /\ (part = "init" \/ (fiSetup = MCFiLink(16, 2, 0)))
    /\ RsInit /\ (part = "rust" \/ rsCrc = "HdlcCrcOff")
    /\ HlInit /\ (part = "link" \/ hlSetup = CHOOSE c \in HlScenarios : TRUE)
    /\ EvInit /\ (evMore[t3] > 0 => hal \in {FreertosHal, LinuxHal})
    /\ (part = "events" \/ (hal = LinuxHal /\ evMore[t3] > 0))
    /\ SlInit /\ (part = "serial" \/ (slDriver = LinuxSerial /\ slPump = FdPump))

MCNext ==
    /\ UNCHANGED part
    /\ \/ part = "hdlc_ll" /\ Next
          /\ UNCHANGED <<sqVars, ltVars, hhVars, prVars, tlVars, pkVars, slVars,
                         phVars, fiVars, rsVars, hlVars, evVars>>
       \/ part = "s_queue" /\ SqNext
          /\ UNCHANGED <<vars, ltVars, hhVars, prVars, tlVars, pkVars, slVars,
                         phVars, fiVars, rsVars, hlVars, evVars>>
       \/ part = "light" /\ LtNext
          /\ UNCHANGED <<vars, sqVars, hhVars, prVars, tlVars, pkVars, slVars,
                         phVars, fiVars, rsVars, hlVars, evVars>>
       \/ part = "hdlc" /\ HhNext
          /\ UNCHANGED <<vars, sqVars, ltVars, prVars, tlVars, pkVars, slVars,
                         phVars, fiVars, rsVars, hlVars, evVars>>
       \/ part = "proto" /\ PrNext
          /\ UNCHANGED <<vars, sqVars, ltVars, hhVars, tlVars, pkVars, slVars,
                         phVars, fiVars, rsVars, hlVars, evVars>>
       \/ part = "list" /\ TlNextStep
          /\ UNCHANGED <<vars, sqVars, ltVars, hhVars, prVars, pkVars, slVars,
                         phVars, fiVars, rsVars, hlVars, evVars>>
       \/ part = "packet" /\ PkNext
          /\ UNCHANGED <<vars, sqVars, ltVars, hhVars, prVars, tlVars, slVars,
                         phVars, fiVars, rsVars, hlVars, evVars>>
       \/ part = "serial" /\ SlNext
          /\ UNCHANGED <<vars, sqVars, ltVars, hhVars, prVars, tlVars, pkVars,
                         phVars, fiVars, rsVars, hlVars, evVars>>
       \/ part = "python" /\ PhNext
          /\ UNCHANGED <<vars, sqVars, ltVars, hhVars, prVars, tlVars, pkVars,
                         slVars, fiVars, rsVars, hlVars, evVars>>
       \/ part = "init" /\ FiNext
          /\ UNCHANGED <<vars, sqVars, ltVars, hhVars, prVars, tlVars, pkVars,
                         slVars, phVars, rsVars, hlVars, evVars>>
       \/ part = "rust" /\ RsNext
          /\ UNCHANGED <<vars, sqVars, ltVars, hhVars, prVars, tlVars, pkVars,
                         slVars, phVars, fiVars, hlVars, evVars>>
       \/ part = "link" /\ HlNext
          /\ UNCHANGED <<vars, sqVars, ltVars, hhVars, prVars, tlVars, pkVars,
                         slVars, phVars, fiVars, rsVars, evVars>>
       \/ part = "events" /\ EvNext
          /\ UNCHANGED <<vars, sqVars, ltVars, hhVars, prVars, tlVars, pkVars,
                         slVars, phVars, fiVars, rsVars, hlVars>>

MCSpec == MCInit /\ [][MCNext]_mcVars
=============================================================================
