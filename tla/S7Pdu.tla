------------------------------- MODULE S7Pdu -------------------------------
(***************************************************************************)
(* What client and server of the S7 protocol share: the PDU each           *)
(* connection carries in either direction and the arithmetic of word       *)
(* lengths, addresses and length fields.                                   *)
(*                                                                         *)
(* A connection carries one request and one answer at a time, which is     *)
(* what isoExchangeBuffer makes of it (module IsoExchange).  A PDU is a    *)
(* record whose field "fun" tells its kind; Nothing stands for no PDU.     *)
(* Header sizes are constants, so that a small PDU length leaves room for  *)
(* a few bytes of data only.                                               *)
(***************************************************************************)
EXTENDS Integers, Sequences, FiniteSets

CONSTANTS
  Conns,       \* connections
  ReqHead,     \* bytes of a request to read or write before its items: 12
  ItemHead,    \* bytes of one item's reference in a request: 12
  ResHead,     \* bytes of an answer to a read before its items: 14
  DataHead,    \* bytes before the data of an item: 4
  ListHead,    \* bytes of a list of blocks before its entries: 32
  ListEntry,   \* bytes of an entry: 4
  MaxVars      \* items of one request: 20

ASSUME S7PduAssumption ==
  /\ {ReqHead, ItemHead, ResHead, DataHead, ListHead} \subseteq Nat
  /\ {ListEntry, MaxVars} \subseteq Nat \ {0}

VARIABLES
  request,     \* request[c]: on its way to the server
  answer       \* answer[c]: on its way back

pduVars == <<request, answer>>

Nothing == [fun |-> "none"]

\* Bytes of a PDU with one item before its data: 18 in an answer, 28 in a request.
ReadHead == ResHead + DataHead
WriteHead == ReqHead + ItemHead + DataHead

-----------------------------------------------------------------------------
\* Bytes of an element.
DataSizeByte(wl) ==
  CASE wl \in {"Bit", "Byte", "Char"} -> 1
    [] wl \in {"Word", "Int", "Counter", "Timer"} -> 2
    [] wl \in {"DWord", "DInt", "Real"} -> 4
    [] OTHER -> 0

\* TransportSize of the data of an item.
TransportSize(wl) ==
  CASE wl = "Bit" -> "Bit"
    [] wl \in {"Int", "DInt"} -> "Int"
    [] wl = "Real" -> "Real"
    [] wl \in {"Char", "Counter", "Timer"} -> "Octet"
    [] OTHER -> "Byte"

\* DataLength counts bytes for these transport sizes and bits for the others.
CountsBytes(ts) == ts \in {"Octet", "Real", "Bit"}

DataLength(ts, size) == IF CountsBytes(ts) THEN size ELSE 8 * size

SizeOf(ts, length) == IF CountsBytes(ts) THEN length ELSE length \div 8

\* Bits, timers and counters are addressed as they are, bytes by their first bit.
ByIndex(wl) == wl \in {"Bit", "Timer", "Counter"}

Address(wl, start) == IF ByIndex(wl) THEN start ELSE 8 * start

\* S7 does not transfer an odd number of bytes before another item: a fill byte
\* follows.
Even(size) == size + (size % 2)

\* The data of a request to write whose k-th item has sizes[k] bytes: <<k, i>> is
\* the i-th byte of the k-th item, with its head before and a fill byte behind it.
Filled(sizes, k) == IF k = Len(sizes) THEN sizes[k] ELSE Even(sizes[k])
DataBytes(sizes) == UNION {{k} \X (1..DataHead + Filled(sizes, k)) : k \in DOMAIN sizes}
DataSize(sizes) == Cardinality(DataBytes(sizes))
=============================================================================
