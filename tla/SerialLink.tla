----------------------------- MODULE SerialLink -----------------------------
(***************************************************************************)
(* A protocol on a serial port: the loops that carry its bytes             *)
(* (tiny_fd_run_tx and tiny_fd_run_rx, IFd::run_tx and IFd::run_rx,        *)
(* ISerialLinkLayer::runTx and runRx), the life cycle of the Serial*Link   *)
(* classes, and the serial drivers below.  A byte is its position in the   *)
(* stream it belongs to.                                                   *)
(*                                                                         *)
(* A driver is what its functions may answer: opens is what                *)
(* tiny_serial_open may give, sends and reads are the kinds of results of  *)
(* tiny_serial_send_timeout and tiny_serial_read_timeout, and closes says  *)
(* that a call that cannot configure the port closes it by itself.         *)
(* A pump is one of the three pairs of loops: its block size, and whether  *)
(* a send that takes no byte is tried again.                               *)
(***************************************************************************)
EXTENDS Integers, Sequences, FiniteSets, SequencesExt

CONSTANTS
    SlDrivers, SlPumps,     \* the drivers and pumps to check
    SlMaxBytes,             \* bound on the bytes of each direction
    SlMaxBegins             \* bound on the calls of begin()

ASSUME SlAssumption ==
    SlMaxBytes \in Nat /\ SlMaxBegins \in Nat /\ \A p \in SlPumps : p.block \in Nat

(***************************************************************************)
(* The drivers.                                                            *)
(***************************************************************************)

(* poll() says when the port can take or has bytes: none of them in time,  *)
(* EAGAIN and EINTR give 0, anything else that fails gives -1.  The port   *)
(* opens only if it takes its attributes and its speed; an unknown speed   *)
(* becomes 9600.                                                           *)
LinuxSerial == [opens |-> BOOLEAN, sends |-> {"some", "none", "error"},
                reads |-> {"some", "none", "error"}, closes |-> FALSE]

(* The same poll(), write() and read() on macOS; a speed the port refuses  *)
(* is only reported there.                                                 *)
MacosPolled == {"some", "none", "error"}
MacosSerial == [opens |-> BOOLEAN, sends |-> MacosPolled, reads |-> MacosPolled, closes |-> FALSE]

(* Every send and read sets its timeout first; if that fails the handle is *)
(* closed under its owner.                                                 *)
Win32Serial == [opens |-> BOOLEAN, sends |-> {"some", "none", "error"},
                reads |-> {"some", "none", "error"}, closes |-> TRUE]

(* The send loops over uart_tx_chars until the time is over and reports    *)
(* what went out, an error as nothing.                                     *)
Esp32Serial == [opens |-> BOOLEAN, sends |-> {"some", "none"},
                reads |-> {"some", "none", "error"}, closes |-> FALSE]

ArduinoSerial == [opens |-> {TRUE}, sends |-> {"some", "none"},
                  reads |-> {"some", "none"}, closes |-> FALSE]

NoPlatformSerial == [opens |-> {FALSE}, sends |-> {"error"}, reads |-> {"error"},
                     closes |-> FALSE]

(***************************************************************************)
(* The loops; block sizes are scaled down by 16 from 64 and 32.            *)
(***************************************************************************)
FdPump == [name |-> "tiny_fd_run_tx", block |-> 4, retry |-> TRUE, heap |-> FALSE]
IFdPump == [name |-> "IFd::run_tx", block |-> 4, retry |-> FALSE, heap |-> FALSE]
LinkPump == [name |-> "ISerialLinkLayer", block |-> 2, retry |-> FALSE, heap |-> TRUE]

VARIABLES
    slDriver, slPump,   \* of this run
    slUp,               \* whether the last begin() succeeded
    slHandle,           \* m_handle of Serial, 0 if invalid
    slPorts,            \* handles open in the system
    slTwice,            \* a handle was closed twice
    slHeap,             \* buffers allocated and not freed
    slFailed,           \* calls of begin() that failed after the allocation
    slBegins,           \* calls of begin() so far
    slMade,             \* bytes the protocol has handed to the pump
    slBlock,            \* bytes from ptr on in the sending loop
    slWire,             \* bytes the port took
    slLost,             \* bytes the sending loop gave up
    slGot,              \* bytes read from the port
    slInput,            \* bytes from p on in the receiving loop
    slParsed            \* bytes the parser has taken

slLife == <<slUp, slHandle, slPorts, slTwice, slHeap, slFailed, slBegins>>
slTx == <<slMade, slBlock, slWire, slLost>>
slRx == <<slGot, slInput, slParsed>>
slVars == <<slDriver, slPump, slLife, slTx, slRx>>

SlInit ==
    /\ slDriver \in SlDrivers /\ slPump \in SlPumps
    /\ slUp = FALSE /\ slHandle = 0 /\ slPorts = {} /\ slTwice = FALSE
    /\ slHeap = 0 /\ slFailed = 0 /\ slBegins = 0
    /\ slMade = 0 /\ slBlock = <<>> /\ slWire = <<>> /\ slLost = {}
    /\ slGot = 0 /\ slInput = <<>> /\ slParsed = <<>>

(***************************************************************************)
(* begin() and end().                                                      *)
(***************************************************************************)

(* CloseHandle, close(): a handle that is not open is closed twice. *)
SlClose(h, ports) == [ports |-> ports \ {h}, twice |-> slTwice \/ (h # 0 /\ h \notin ports)]

(* m_buffer of SerialFdLink and SerialHdlcLink; the other pumps have none. *)
SlBuffer == IF slPump.heap THEN 1 ELSE 0

(* Serial::begin gets handle n. *)
SlPortOpens(n) ==
    /\ TRUE \in slDriver.opens
    /\ slHandle' = n /\ slPorts' = slPorts \cup {n}
    /\ slUp' = TRUE
    /\ UNCHANGED <<slTwice, slFailed>>

(* The port is refused; Win32 may have opened it and closes it once in     *)
(* tiny_serial_settings and once more in tiny_serial_open.                 *)
SlPortRefused ==
    /\ FALSE \in slDriver.opens
    /\ slHandle' = 0 /\ slUp' = FALSE
    /\ slFailed' = slFailed + SlBuffer
    /\ slTwice' \in {slTwice, slTwice \/ slDriver.closes}
    /\ UNCHANGED slPorts

(* SerialFdLink::begin, SerialHdlcLink::begin: allocate the buffer, start  *)
(* the protocol in it, open the port.  Nothing is undone if the last fails.*)
SlBegin ==
    /\ ~slUp /\ slBegins < SlMaxBegins
    /\ slBegins' = slBegins + 1
    /\ slHeap' = slHeap + SlBuffer
    /\ SlPortOpens(slBegins') \/ SlPortRefused
    /\ UNCHANGED <<slDriver, slPump, slTx, slRx>>

(* Mutant: the buffer of the protocol is not freed. *)
SlFreeForgotten == slHeap' = slHeap

SlFree == slHeap' = slHeap - SlBuffer

(* Serial::end, the protocol's end, free; no loop is running. *)
SlEnd ==
    /\ slUp /\ slBlock = <<>> /\ slInput = <<>>
    /\ LET c == SlClose(slHandle, slPorts) IN slPorts' = c.ports /\ slTwice' = c.twice
    /\ slHandle' = 0
    /\ slUp' = FALSE
    /\ SlFree
    /\ UNCHANGED <<slDriver, slPump, slFailed, slBegins, slTx, slRx>>

(***************************************************************************)
(* Sending.                                                                *)
(***************************************************************************)

(* getData, tiny_fd_get_tx_data: a block of what the protocol has to send. *)
SlGetData ==
    /\ slUp /\ slBlock = <<>>
    /\ \E n \in 1..slPump.block :
        /\ slMade + n <= SlMaxBytes
        /\ slMade' = slMade + n
        /\ slBlock' = [i \in 1..n |-> slMade + i]
    /\ UNCHANGED <<slDriver, slPump, slLife, slWire, slLost, slRx>>

(* Mutant: what is left after a short write is sent from the start of the  *)
(* block again.                                                            *)
SlRestStart(block, n) == SubSeq(block, 1, Len(block) - n)

(* ptr += sent, len -= sent *)
SlRest(block, n) == SubSeq(block, n + 1, Len(block))

SlWriteSome ==
    /\ slBlock # <<>> /\ "some" \in slDriver.sends
    /\ \E n \in 1..Len(slBlock) :
        /\ slWire' = slWire \o SubSeq(slBlock, 1, n)
        /\ slBlock' = SlRest(slBlock, n)
    /\ UNCHANGED <<slDriver, slPump, slLife, slMade, slLost, slRx>>

(* A result of 0: again, or the rest of the block is given up. *)
SlWriteNone ==
    /\ slBlock # <<>> /\ "none" \in slDriver.sends /\ ~slPump.retry
    /\ slLost' = slLost \cup ToSet(slBlock)
    /\ slBlock' = <<>>
    /\ UNCHANGED <<slDriver, slPump, slLife, slMade, slWire, slRx>>

(* A driver that closes the port when it cannot be configured. *)
SlPortKept == UNCHANGED <<slPorts, slTwice>>
SlPortClosed ==
    /\ slDriver.closes
    /\ LET c == SlClose(slHandle, slPorts) IN slPorts' = c.ports /\ slTwice' = c.twice

(* A negative result ends every loop. *)
SlWriteError ==
    /\ slBlock # <<>> /\ "error" \in slDriver.sends
    /\ slLost' = slLost \cup ToSet(slBlock)
    /\ slBlock' = <<>>
    /\ SlPortKept \/ SlPortClosed
    /\ UNCHANGED <<slDriver, slPump, slUp, slHandle, slHeap, slFailed, slBegins,
                   slMade, slWire, slRx>>

(***************************************************************************)
(* Receiving.                                                              *)
(***************************************************************************)

(* readBytes, read_func; 0 and errors end the loop with nothing read. *)
SlRead ==
    /\ slUp /\ slInput = <<>>
    /\ \/ /\ "some" \in slDriver.reads
          /\ \E n \in 1..slPump.block :
              /\ slGot + n <= SlMaxBytes
              /\ slGot' = slGot + n
              /\ slInput' = [i \in 1..n |-> slGot + i]
          /\ SlPortKept
       \/ "error" \in slDriver.reads /\ SlPortClosed /\ UNCHANGED <<slGot, slInput>>
    /\ UNCHANGED <<slDriver, slPump, slUp, slHandle, slHeap, slFailed, slBegins,
                   slTx, slParsed>>

(* p += temp, len -= temp *)
SlUnparsed(input, n) == SlRest(input, n)

(* parseData, hdlc_ll_run_rx: some of the bytes, all of them unless a      *)
(* frame with an error ends before them.                                   *)
SlParse ==
    /\ slInput # <<>>
    /\ \E n \in 1..Len(slInput) :
        /\ slParsed' = slParsed \o SubSeq(slInput, 1, n)
        /\ slInput' = SlUnparsed(slInput, n)
    /\ UNCHANGED <<slDriver, slPump, slLife, slTx, slGot>>

SlNext ==
    \/ SlBegin \/ SlEnd
    \/ SlGetData \/ SlWriteSome \/ SlWriteNone \/ SlWriteError
    \/ SlRead \/ SlParse

SlSpec == SlInit /\ [][SlNext]_slVars

(***************************************************************************)
(* Properties.                                                             *)
(***************************************************************************)

(* Short writes, refusals and errors never repeat or reorder a byte, and   *)
(* every byte the protocol produced is on the wire, still in the block, or *)
(* was given up with the rest of its block: after a refused byte the wire  *)
(* goes on with the next block, never inside the same one.  The parser is  *)
(* given every byte the port delivered, once, however frames split blocks. *)
SlBytesInOrder ==
    /\ slParsed \o slInput = [i \in 1..slGot |-> i]
    /\ \A i, j \in DOMAIN slWire : i < j => slWire[i] < slWire[j]
    /\ ToSet(slWire) \cup ToSet(slBlock) \cup slLost = 1..slMade
    /\ ToSet(slWire) \cap slLost = {} /\ ToSet(slBlock) \cap slLost = {}
    /\ slPump.retry /\ "error" \notin slDriver.sends => slLost = {}

(* The port belongs to the link between a successful begin() and end(), no *)
(* handle is closed twice, and end() releases the buffer: what is left     *)
(* allocated is what failed calls of begin() left.  Win32 is excepted from *)
(* the first two: there the driver closes handles by itself.               *)
SlResources ==
    /\ ~slDriver.closes => ~slTwice /\ slPorts = (IF slUp THEN {slHandle} ELSE {})
    /\ slHeap = slFailed + (IF slUp /\ slPump.heap THEN 1 ELSE 0)
=============================================================================
