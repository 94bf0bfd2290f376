----------------------------- MODULE TinyPacket -----------------------------
(***************************************************************************)
(* The packet of the C++ API (src/TinyPacket.h): a buffer, the length      *)
(* written and the read position.  Callers put values in one order and get *)
(* them in the same order.  The numeric puts do not look at the space      *)
(* left, so the caller must.  The string put looks: it cuts a string that  *)
(* does not fit, drops one for which only a byte is left, and in a full    *)
(* packet writes without a limit.                                          *)
(***************************************************************************)
EXTENDS Integers, Sequences

CONSTANTS
    PkSize,     \* m_size
    PkValues,   \* records [kind, val]: the values a caller puts
    PkMaxPuts,  \* bound on the values put
    PkOrders    \* in which order getUint32 evaluates its two calls

(* The parameters of the puts; a C string has no zero inside. *)
PkChars == 1..255
PkItem(item) ==
    /\ item = [kind |-> item.kind, val |-> item.val]
    /\ \/ item.kind = "u8" /\ item.val \in Nat /\ item.val <= 255
       \/ item.kind = "u16" /\ item.val \in Nat /\ item.val <= 65535
       \/ item.kind = "i16" /\ item.val \in Int /\ -32768 <= item.val /\ item.val <= 32767
       \/ item.kind = "u32" /\ item.val \in Nat /\ item.val \div 65536 <= 65535
       \/ item.kind = "str" /\ item.val \in Seq(PkChars)

ASSUME PkAssumption ==
    /\ PkSize \in Nat \ {0} /\ PkMaxPuts \in Nat /\ PkOrders \subseteq {"left", "right"}
    /\ \A item \in PkValues : PkItem(item)

VARIABLES
    pkOrder,    \* the compiler's choice
    pkBuf,      \* m_buf, from 0
    pkLen,      \* m_len
    pkP,        \* m_p
    pkPut,      \* the values put, strings as they were cut
    pkGot,      \* the values got back
    pkLost,     \* a string was put with no room for it
    pkGone      \* the program has left the buffer: nothing can be said of it

pkVars == <<pkOrder, pkBuf, pkLen, pkP, pkPut, pkGot, pkLost, pkGone>>

(* StaticPacket: its array is cleared. *)
PkInit ==
    /\ pkOrder \in PkOrders
    /\ pkBuf = [i \in 0..PkSize - 1 |-> 0]
    /\ pkLen = 0 /\ pkP = 0
    /\ pkPut = <<>> /\ pkGot = <<>>
    /\ pkLost = FALSE /\ pkGone = FALSE

(* clear(): the bytes stay. *)
PkClear ==
    /\ pkPut # <<>> /\ ~pkGone
    /\ pkLen' = 0 /\ pkP' = 0
    /\ pkPut' = <<>> /\ pkGot' = <<>> /\ pkLost' = FALSE
    /\ UNCHANGED <<pkOrder, pkBuf, pkGone>>

PkWrite(bytes) == [i \in 0..PkSize - 1 |->
    IF i \in pkLen..pkLen + Len(bytes) - 1 THEN bytes[i - pkLen + 1] ELSE pkBuf[i]]

PkBytes16(v) == <<v % 256, v \div 256>>

(* The integer puts: little endian; int16_t goes through uint16_t. *)
PkEncode(item) ==
    CASE item.kind = "u8" -> <<item.val>>
      [] item.kind = "u16" -> PkBytes16(item.val)
      [] item.kind = "i16" -> PkBytes16(item.val % 65536)
      [] item.kind = "u32" -> PkBytes16(item.val % 65536) \o PkBytes16(item.val \div 65536)

PkPutNumber(item) ==
    LET bytes == PkEncode(item) IN
    /\ item.kind # "str" /\ Len(pkPut) < PkMaxPuts /\ ~pkGone
    /\ Len(bytes) <= PkSize - pkLen
    /\ pkBuf' = PkWrite(bytes)
    /\ pkLen' = pkLen + Len(bytes)
    /\ pkPut' = Append(pkPut, item)
    /\ UNCHANGED <<pkOrder, pkP, pkGot, pkLost, pkGone>>

(* Mutant: the room for the terminator is forgotten. *)
PkRoomAll == PkSize - pkLen

PkRoom == PkSize - pkLen - 1

(* The put of a string: strncpy fills the whole room with zeros behind one *)
(* that fits; the terminator follows what was kept.                        *)
PkPutString(item) ==
    LET kept == SubSeq(item.val, 1, IF Len(item.val) < PkRoom THEN Len(item.val) ELSE PkRoom)
        zeros == [i \in 1..PkRoom - Len(kept) |-> 0]
    IN /\ item.kind = "str" /\ Len(pkPut) < PkMaxPuts /\ ~pkGone
       /\ PkRoom > 0
       /\ pkBuf' = [PkWrite(kept \o zeros) EXCEPT ![pkLen + Len(kept)] = 0]
       /\ pkLen' = pkLen + Len(kept) + 1
       /\ pkPut' = Append(pkPut, [kind |-> "str", val |-> kept])
       /\ UNCHANGED <<pkOrder, pkP, pkGot, pkLost, pkGone>>

(* if ( !room ) return: with one byte left nothing is put, not even the    *)
(* terminator, and nobody is told.  In a full packet room is -1, which     *)
(* passes, and strncpy takes it as its largest size: it pads with zeros    *)
(* far behind the buffer.                                                  *)
PkPutNoRoom(item) ==
    /\ item.kind = "str" /\ Len(pkPut) < PkMaxPuts /\ ~pkGone
    /\ PkRoom <= 0
    /\ pkPut' = Append(pkPut, [kind |-> "str", val |-> <<>>])
    /\ pkLost' = TRUE
    /\ pkGone' = (PkRoom < 0)
    /\ UNCHANGED <<pkOrder, pkBuf, pkLen, pkP, pkGot>>

PkGet16(p) == pkBuf[p] + 256 * pkBuf[p + 1]

(* strlen from m_p; nothing stops it at m_len. *)
PkStrlen == CHOOSE n \in 0..PkSize - pkP :
    /\ \A k \in 0..n - 1 : pkBuf[pkP + k] # 0
    /\ pkP + n < PkSize => pkBuf[pkP + n] = 0

PkString == [k \in 1..PkStrlen |-> pkBuf[pkP + k - 1]]

(* getByte, getUint16, getInt16, getUint32, getString: the bytes passed    *)
(* and the value.  The two halves of getUint32 are fetched in either order.*)
PkSpan(kind) ==
    CASE kind = "u8" -> 1
      [] kind = "u16" -> 2
      [] kind = "i16" -> 2
      [] kind = "u32" -> 4
      [] kind = "str" -> PkStrlen + 1

PkDecode(kind) ==
    CASE kind = "u8" -> pkBuf[pkP]
      [] kind = "u16" -> PkGet16(pkP)
      [] kind = "i16" -> IF PkGet16(pkP) < 32768 THEN PkGet16(pkP) ELSE PkGet16(pkP) - 65536
      [] kind = "u32" -> IF pkOrder = "left"
                         THEN PkGet16(pkP) + 65536 * PkGet16(pkP + 2)
                         ELSE PkGet16(pkP + 2) + 65536 * PkGet16(pkP)
      [] kind = "str" -> PkString

(* The reader asks for the kinds in the order they were put.  No get looks *)
(* at the length: one that leaves the buffer reads what is behind it.      *)
PkInside(kind) == pkP < PkSize /\ pkP + PkSpan(kind) <= PkSize

PkGet ==
    /\ Len(pkGot) < Len(pkPut) /\ ~pkGone
    /\ LET kind == pkPut[Len(pkGot) + 1].kind
       IN \/ /\ PkInside(kind)
             /\ pkP' = pkP + PkSpan(kind)
             /\ pkGot' = Append(pkGot, [kind |-> kind, val |-> PkDecode(kind)])
             /\ UNCHANGED pkGone
          \/ /\ ~PkInside(kind)
             /\ pkGone' = TRUE
             /\ UNCHANGED <<pkP, pkGot>>
    /\ UNCHANGED <<pkOrder, pkBuf, pkLen, pkPut, pkLost>>

PkNext ==
    \/ PkClear \/ PkGet
    \/ \E item \in PkValues : PkPutNumber(item) \/ PkPutString(item) \/ PkPutNoRoom(item)

PkSpec == PkInit /\ [][PkNext]_pkVars

(* getUint32 is right only when its left operand is evaluated first. *)
PkMixedUp == pkOrder = "right" /\ \E i \in DOMAIN pkPut : pkPut[i].kind = "u32"

PkComesBack ==
    /\ ~pkGone
    /\ pkP <= pkLen /\ pkLen <= PkSize
    /\ PkMixedUp \/ pkGot = SubSeq(pkPut, 1, Len(pkGot))

(* What was put comes back, in order and in value, whatever the packet     *)
(* held before clear(), for interleaved puts and gets and for strings cut  *)
(* at the end of the buffer; m_p never passes m_len and no get leaves the  *)
(* buffer - as long as no string is put with less than two bytes free.     *)
PkRoundTrip == pkLost \/ PkComesBack
=============================================================================
