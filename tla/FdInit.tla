------------------------------- MODULE FdInit -------------------------------
(***************************************************************************)
(* How a tiny_fd station comes to life: the settings its owner may choose, *)
(* the size of the buffer the owner provides, and how tiny_fd_init and     *)
(* hdlc_ll_init share that buffer out: tiny_fd_data_t, the receive buffer  *)
(* of the framing layer, the two frame queues and the peers, one after the *)
(* other.  Sizes and addresses are bytes.                                  *)
(*                                                                         *)
(* fiOwner is who calls tiny_fd_init: C code, which computes the buffer    *)
(* itself and may place it anywhere, or one of the three classes.          *)
(***************************************************************************)
EXTENDS Integers

CONSTANTS
    FiWord,         \* TINY_ALIGN_STRUCT_VALUE, and the size of a pointer
    FiFdData,       \* sizeof(tiny_fd_data_t)
    FiPeerInfo,     \* sizeof(tiny_fd_peer_info_t)
    FiFrameInfo,    \* sizeof(tiny_fd_frame_info_t)
    FiLlData,       \* sizeof(hdlc_ll_data_t)
    FiSetups,       \* owners with mtu, window, timeout, and size to spare
    FiPeerCounts,   \* numbers of peers to try as a setting
    FiAddresses     \* station addresses to try as a setting

ASSUME FiAssumption ==
    /\ {FiWord, FiFdData, FiPeerInfo, FiFrameInfo, FiLlData} \subseteq Nat \ {0}
    /\ FiFdData % FiWord = 0 /\ FiLlData % FiWord = 0   \* both hold pointers
    /\ (4 * FiFrameInfo) % FiWord = 0                   \* it holds int fields
    /\ FiSetups \subseteq [owner : {"c", "IFd", "SerialFdLink", "python"}, mtu : Nat \ {0},
                           window : Nat, timeout : Nat, spare : Nat]

VARIABLES
    fiSetup,    \* the owner and what it does not change
    fiCrc, fiMode, fiPeers, fiAddr,     \* the settings
    fiOffset,   \* address of the buffer, from some aligned address on
    fiResult,   \* of the last tiny_fd_init, "none" before it
    fiStation,  \* what tiny_fd_init made
    fiEvents    \* tiny_events_t objects alive

fiSettings == <<fiCrc, fiMode, fiPeers, fiAddr>>
fiVars == <<fiSetup, fiSettings, fiOffset, fiResult, fiStation, fiEvents>>

FiHeader == 2           \* sizeof(tiny_frame_header_t)
FiPayload == 2          \* sizeof(payload) of tiny_fd_frame_info_t
FiServiceSlots == 4     \* TINY_FD_U_QUEUE_MAX_SIZE
FiSeqMask == 7          \* seq_bits_mask
FiInvalidPeer == 255    \* HDLC_INVALID_PEER_INDEX, the address of no peer

FiAlign(x) == ((x + FiWord - 1) \div FiWord) * FiWord   \* TINY_ALIGN_BUFFER
FiU16(x) == x % 65536                                   \* the uint16_t fields of tiny_fd_init_t

(***************************************************************************)
(* Sizes.                                                                  *)
(***************************************************************************)

(* get_crc_field_size *)
FiCrcField == [OFF |-> 0, DEFAULT |-> 4, CRC_8 |-> 1, CRC_16 |-> 2, CRC_32 |-> 4]

(* hdlc_crc_t, which Fd_set_crc tests *)
FiCrcs == DOMAIN FiCrcField

(* hdlc_ll_get_buf_size_ex *)
FiLlBufSize(mtu, crc, rxWindow) ==
    (FiCrcField[crc] + mtu) * rxWindow + FiLlData + FiWord - 1

(* A frame of a queue and the pointer to it. *)
FiSlot(mtu) == FiWord + FiFrameInfo + mtu - FiPayload

FiPeersCount(peers) == IF peers = 0 THEN 1 ELSE peers

(* tiny_fd_buffer_size_by_mtu_ex *)
FiBufferSize(peers, mtu, window, crc, rxWindow) ==
    FiFdData + FiWord - 1 + FiPeersCount(peers) * FiPeerInfo
        + FiLlBufSize(mtu + FiHeader, crc, rxWindow)
        + FiSlot(mtu) * window + FiSlot(FiPayload) * FiServiceSlots

(***************************************************************************)
(* The init structure of every owner.                                      *)
(***************************************************************************)
FiInitStruct(size, mtu, crc, peers, send, retry) ==
    [size |-> FiU16(size), mtu |-> mtu, window |-> fiSetup.window, crc |-> crc,
     peers |-> peers, send |-> FiU16(send), retry |-> FiU16(retry)]

(* An application that follows tiny_fd.h. *)
FiByHand ==
    FiInitStruct(FiBufferSize(fiPeers, fiSetup.mtu, fiSetup.window, fiCrc, 1) + fiSetup.spare,
                 fiSetup.mtu, fiCrc, fiPeers, fiSetup.timeout, 0)

(* IFd::begin: the application chose the size by tiny_fd_buffer_size_by_mtu, *)
(* the mtu is left to tiny_fd_init.                                          *)
FiIFd ==
    FiInitStruct(FiBufferSize(0, fiSetup.mtu, fiSetup.window, "CRC_16", 1) + fiSetup.spare,
                 0, fiCrc, 0, fiSetup.timeout, 200)

(* SerialFdLink::begin and IFdLinkLayer::begin: room for three received    *)
(* frames, and a retry after a quarter of the timeout.                     *)
FiSerialFdLink ==
    FiInitStruct(FiBufferSize(1, fiSetup.mtu, fiSetup.window, fiCrc, 3),
                 fiSetup.mtu, fiCrc, 0, fiSetup.timeout,
                 IF fiSetup.timeout = 0 THEN 100 ELSE fiSetup.timeout \div 4)

(* Fd_begin of the Python extension: room for two received frames. *)
FiPython ==
    FiInitStruct(FiBufferSize(fiPeers, fiSetup.mtu, fiSetup.window, fiCrc, 2),
                 fiSetup.mtu, fiCrc, fiPeers, 1000, 200)

FiInitOf ==
    CASE fiSetup.owner = "c" -> FiByHand
      [] fiSetup.owner = "IFd" -> FiIFd
      [] fiSetup.owner = "SerialFdLink" -> FiSerialFdLink
      [] fiSetup.owner = "python" -> FiPython

(***************************************************************************)
(* tiny_fd_init.                                                           *)
(***************************************************************************)
FiMtu(i) ==
    IF i.mtu # 0 THEN i.mtu
    ELSE (i.size - FiBufferSize(i.peers, 0, i.window, i.crc, 1)) \div (i.window + 1)

(* __tiny_fd_init_validate, its tests in their order *)
FiValidate(i) ==
    IF i.size = 0 THEN "INVALID_DATA"
    ELSE IF (i.mtu = 0 /\ FiMtu(i) < 2)
              \/ i.size < FiBufferSize(i.peers, FiMtu(i), i.window, i.crc, 1)
         THEN "OUT_OF_MEMORY"
    ELSE IF i.window \in 2..FiSeqMask /\ (i.send # 0 \/ i.retry # 0)
         THEN "SUCCESS" ELSE "INVALID_DATA"

(* Mutant: the four bytes for the padding are used up. *)
FiLlSizeNoReserve(i, start) ==
    ((fiOffset + i.size - start - i.window * FiSlot(FiMtu(i))
        - FiServiceSlots * FiSlot(FiPayload)
        - FiPeersCount(i.peers) * FiPeerInfo) \div FiWord) * FiWord

(* What the other areas leave to the framing layer, in whole words. *)
FiLlSize(i, start) ==
    ((fiOffset + i.size - start - 4 - i.window * FiSlot(FiMtu(i))
        - FiServiceSlots * FiSlot(FiPayload)
        - FiPeersCount(i.peers) * FiPeerInfo) \div FiWord) * FiWord

(* The areas in their order; hdlc_ll_init puts hdlc_ll_data_t and the      *)
(* receive buffer into its own, and takes a checksum that is switched off  *)
(* for the default one when it sizes a received frame.                     *)
FiLayoutOf(i) ==
    LET data == FiAlign(fiOffset)
        llArea == data + FiFdData
        llSize == FiLlSize(i, llArea)
        ll == FiAlign(llArea)
        iQueue == FiAlign(llArea + llSize)
        iEnd == iQueue + FiSlot(FiMtu(i)) * i.window
        sQueue == FiAlign(iEnd)
        sEnd == sQueue + FiSlot(FiPayload) * FiServiceSlots
        peers == FiAlign(sEnd)
    IN [data |-> data, ll |-> ll, rxBuf |-> ll + FiLlData,
        rxEnd |-> llArea + llSize, iQueue |-> iQueue, iEnd |-> iEnd,
        sQueue |-> sQueue, sEnd |-> sEnd, peers |-> peers,
        end |-> peers + FiPeersCount(i.peers) * FiPeerInfo,
        physMtu |-> FiMtu(i) + FiHeader
                      + FiCrcField[IF i.crc = "OFF" THEN "DEFAULT" ELSE i.crc],
        mtu |-> FiMtu(i), peersCount |-> FiPeersCount(i.peers),
        addr |-> fiAddr * 4 + 1,
        peerAddr |-> IF fiAddr # 0 \/ fiMode = "ABM" THEN fiAddr * 4 + 1 ELSE FiInvalidPeer,
        retry |-> IF i.retry # 0 THEN i.retry ELSE i.send \div 3]

(* The tests of tiny_fd_queue_init, tiny_fd_init and hdlc_ll_init. *)
FiFits(i, l) ==
    IF l.iEnd > fiOffset + i.size \/ l.sEnd > fiOffset + i.size THEN "INVALID_DATA"
    ELSE IF l.end > fiOffset + i.size \/ l.rxEnd < l.rxBuf THEN "OUT_OF_MEMORY"
    ELSE "SUCCESS"

FiNoStation == [up |-> FALSE]

FiInit ==
    /\ fiSetup \in FiSetups
    /\ fiCrc = (CASE fiSetup.owner = "IFd" -> "DEFAULT"
                  [] fiSetup.owner = "SerialFdLink" -> "CRC_8"
                  [] OTHER -> "CRC_16")
    /\ fiMode = "ABM" /\ fiPeers = 0 /\ fiAddr = 0
    /\ fiOffset \in IF fiSetup.owner = "c" THEN 0..FiWord - 1 ELSE {0}
    /\ fiResult = "none" /\ fiStation = FiNoStation /\ fiEvents = 0

(***************************************************************************)
(* Settings: the ranges of tiny_fd.h, which only Python tests.             *)
(***************************************************************************)

(* IFd::enableCrc and the like, setCrc, Fd_set_crc *)
FiSetCrc ==
    /\ fiResult = "none"
    /\ fiCrc' \in FiCrcs
    /\ UNCHANGED <<fiSetup, fiMode, fiPeers, fiAddr, fiOffset, fiResult, fiStation, fiEvents>>

FiSetMode ==
    /\ fiResult = "none" /\ fiSetup.owner \in {"c", "python"}
    /\ fiMode' \in {"ABM", "NRM"}
    /\ UNCHANGED <<fiSetup, fiCrc, fiPeers, fiAddr, fiOffset, fiResult, fiStation, fiEvents>>

FiSetPeersCount ==
    /\ fiResult = "none" /\ fiSetup.owner \in {"c", "python"}
    /\ \E n \in FiPeerCounts :
        /\ n \in 0..63
        /\ fiPeers' = n
    /\ UNCHANGED <<fiSetup, fiCrc, fiMode, fiAddr, fiOffset, fiResult, fiStation, fiEvents>>

FiSetAddr ==
    /\ fiResult = "none" /\ fiSetup.owner \in {"c", "python"}
    /\ \E a \in FiAddresses :
        /\ a \in 0..62
        /\ fiAddr' = a
    /\ UNCHANGED <<fiSetup, fiCrc, fiMode, fiPeers, fiOffset, fiResult, fiStation, fiEvents>>

(***************************************************************************)
(* Begin and end.                                                          *)
(***************************************************************************)
FiOutcome(i) == IF FiValidate(i) = "SUCCESS" THEN FiFits(i, FiLayoutOf(i)) ELSE FiValidate(i)

(* An event object for every peer and one for the station. *)
FiBegin ==
    /\ ~fiStation.up
    /\ LET i == FiInitOf
           result == FiOutcome(i)
       IN /\ fiResult' = result
          /\ IF result = "SUCCESS"
             THEN /\ fiStation' = [up |-> TRUE, init |-> i, layout |-> FiLayoutOf(i)]
                  /\ fiEvents' = fiEvents + FiPeersCount(i.peers) + 1
             ELSE UNCHANGED <<fiStation, fiEvents>>
    /\ UNCHANGED <<fiSetup, fiSettings, fiOffset>>

(* tiny_fd_close *)
FiClose ==
    /\ fiStation.up
    /\ fiStation' = FiNoStation
    /\ fiEvents' = fiEvents - (fiStation.layout.peersCount + 1)
    /\ UNCHANGED <<fiSetup, fiSettings, fiOffset, fiResult>>

FiNext ==
    FiSetCrc \/ FiSetMode \/ FiSetPeersCount \/ FiSetAddr \/ FiBegin \/ FiClose

FiSpec == FiInit /\ [][FiNext]_fiVars

(***************************************************************************)
(* Properties.                                                             *)
(***************************************************************************)

FiAreasApart(i, l) ==
    /\ fiOffset <= l.data /\ l.data + FiFdData <= l.ll
    /\ l.rxBuf <= l.rxEnd /\ l.rxEnd <= l.iQueue
    /\ l.iEnd <= l.sQueue /\ l.sEnd <= l.peers
    /\ l.end <= fiOffset + i.size

FiAreasAligned(l) ==
    \A a \in {l.data, l.ll, l.iQueue, l.sQueue, l.peers} : a % FiWord = 0

(* The frames the receive buffer was meant to hold. *)
FiRxWindow == CASE fiSetup.owner = "python" -> 2 [] fiSetup.owner = "SerialFdLink" -> 3 [] OTHER -> 1

(* The padding behind the I-frames. *)
FiPad(i) == FiAlign(FiSlot(FiMtu(i)) * i.window) - FiSlot(FiMtu(i)) * i.window

FiRefusedForPadding ==
    LET i == FiInitOf
    IN (fiOffset = 0 /\ fiResult # "none" /\ FiValidate(i) = "SUCCESS")
          => fiResult = "SUCCESS" \/ FiPad(i) > 4

(* Whatever size, address and mtu tiny_fd_init accepts, its areas follow   *)
(* each other inside the buffer, each aligned, and no address field, with  *)
(* its C/R bit or without, is the one of no peer.  When the buffer itself  *)
(* is aligned and a checksum is in use, as many received frames of the     *)
(* largest size the framing layer stores as the owner asked room for end   *)
(* before the I-frame queue begins.  (An unaligned buffer loses up to a    *)
(* word of padding, and with HDLC_CRC_OFF four bytes nobody counted.)  And *)
(* the bytes __tiny_fd_init_validate asks for are enough: an aligned       *)
(* buffer it accepts is refused later only for the padding behind the      *)
(* I-frames, when that is more than the four bytes kept back for it.       *)
FiLayout ==
    /\ FiRefusedForPadding
    /\ fiEvents = IF fiStation.up THEN fiStation.layout.peersCount + 1 ELSE 0
    /\ fiStation.up =>
        LET l == fiStation.layout
            i == fiStation.init
        IN /\ FiAreasApart(i, l) /\ FiAreasAligned(l)
           /\ FiInvalidPeer \notin {l.addr, l.addr + 2}
           /\ fiOffset = 0 /\ i.crc # "OFF" => FiRxWindow * l.physMtu <= l.rxEnd - l.rxBuf
=============================================================================
