------------------------------ MODULE S7Server ------------------------------
(***************************************************************************)
(* The S7 server: TSnap7Server with its registered areas and one TS7Worker *)
(* per connection (core/s7_server.cpp), and the application thread that    *)
(* registers, unregisters, locks and updates the areas.                    *)
(*                                                                         *)
(* A read or write is served item by item: the area is looked up and the   *)
(* request checked in one step, the data moved in another, when the area's *)
(* lock is free.  A byte is a record: who wrote it (by), in which update   *)
(* or request (n), for which place of its area it was meant (at), and the  *)
(* same of a bit written into it since (bit).                              *)
(* Accept and close of connections are in module TcpServer, events in      *)
(* EventQueue.  Areas served by a call-back (ResourceLess) are left out.   *)
(***************************************************************************)
EXTENDS S7Pdu

CONSTANTS
  DBNumbers,        \* data blocks the application may register
  MaxDB,            \* places in the table of data blocks, 2048
  AreaSize,         \* bytes of memory the application has for each area
  MinPduSize,       \* 240
  IsoPayload_Size,  \* 4096
  DefaultPdu,       \* FPDULength of a new worker, 2048
  SZLSize, SZLHead, \* bytes of each system status list the server has; header of its answer, 22
  ForcePDUs,        \* values of the parameter ForcePDU, 0: as the client proposes
  InitialDBs,       \* tables of data blocks the server starts with
  Shared,           \* bytes of an area the application updates together
  AppOps,           \* operations of the application ...
  MaxAppOps         \* ... and the bound on their number

SysAreas == {"PE", "MK", "TM"}
Areas == DBNumbers \cup SysAreas
Slots == 0..MaxDB - 1

\* Data blocks and other areas have names of their own.  The smallest PDU has room for
\* an entry of a list.
ASSUME S7ServerAssumption ==
  /\ MaxDB \in Nat \ {0}
  /\ InitialDBs \subseteq Seq(DBNumbers \cup {"none"})
  /\ \A s \in InitialDBs :
       /\ Len(s) <= MaxDB
       /\ \A i, j \in DOMAIN s : s[i] = s[j] /\ s[i] # "none" => i = j
  /\ DBNumbers \cap (SysAreas \cup {"CT", "none"}) = {}
  /\ AreaSize \in [Areas -> Nat]
  /\ {MinPduSize, IsoPayload_Size, MaxAppOps} \subseteq Nat
  /\ DefaultPdu \in MinPduSize..IsoPayload_Size
  /\ MinPduSize >= ListHead + ListEntry
  /\ ForcePDUs \subseteq {0} \cup MinPduSize..IsoPayload_Size
  /\ \A o \in AppOps : o.op = "register" => o.area \in Areas /\ o.size \in 0..AreaSize[o.area]

VARIABLES
  DB, DBCount, DBLimit, HA,   \* the tables of areas
  size,                       \* P->Size of a registered area
  mem,                        \* the application's memory
  lock,                       \* holder of the critical section of an area
  CpuStatus, ForcePDU,
  FPDULength, DBCnt, LastBlk, \* members of the worker of a connection
  worker,                     \* where it is in a request
  app, updates, appOps        \* the application: operation and place in it, number of its updates

tableVars == <<DB, DBCount, DBLimit, HA, size>>
workerVars == <<FPDULength, DBCnt, LastBlk, worker>>
appVars == <<app, updates, appOps>>
serverVars == <<tableVars, mem, lock, CpuStatus, ForcePDU, workerVars, appVars>>

NoBit == [by |-> "none", n |-> 0, at |-> 0]
Idle == [place |-> "idle"]
AppIdle == [place |-> "idle"]

\* Earlier calls have left the data blocks of s in the table, with holes.
InitServer ==
  /\ \E s \in InitialDBs :
       /\ DB = [i \in Slots |-> IF i < Len(s) THEN s[i + 1] ELSE "none"]
       /\ DBCount = Cardinality({i \in Slots : i < Len(s) /\ s[i + 1] # "none"})
       /\ DBLimit = IF s = <<>> THEN 0 ELSE Len(s) - 1
  /\ HA = {"TM"}
  /\ size = AreaSize
  /\ mem = [a \in Areas |-> [i \in 0..AreaSize[a] - 1 |-> [by |-> "init", n |-> 0, at |-> i, bit |-> NoBit]]]
  /\ lock = [a \in Areas |-> "none"]
  /\ CpuStatus = "run"
  /\ ForcePDU \in ForcePDUs
  /\ FPDULength = [c \in Conns |-> DefaultPdu]
  /\ DBCnt = [c \in Conns |-> 0]
  /\ LastBlk = [c \in Conns |-> "DB"]
  /\ worker = [c \in Conns |-> Idle]
  /\ app = AppIdle /\ updates = 0 /\ appOps \in {0, MaxAppOps}

-----------------------------------------------------------------------------
(* The worker of connection c: requests served in one step.                *)

\* A new connection gets a new TS7Worker; the old one has left its request.
NewWorker(c) ==
  /\ worker[c].place \in {"idle", "closed"}
  /\ FPDULength' = [FPDULength EXCEPT ![c] = DefaultPdu]
  /\ DBCnt' = [DBCnt EXCEPT ![c] = 0]
  /\ LastBlk' = [LastBlk EXCEPT ![c] = "DB"]
  /\ worker' = [worker EXCEPT ![c] = Idle]

\* Request f is taken from the connection by an idle worker.
Takes(c, f) ==
  /\ worker[c].place = "idle"
  /\ request[c].fun = f
  /\ request' = [request EXCEPT ![c] = Nothing]

Send(c, a) == answer' = [answer EXCEPT ![c] = a]

\* The ISO connection is confirmed.
ExecuteRecv(c) ==
  /\ Takes(c, "connect")
  /\ Send(c, [fun |-> "confirm"])
  /\ UNCHANGED serverVars

\* A request whose sizes do not fit its payload ends the connection.
IsoPerformCommand(c) ==
  /\ Takes(c, "malformed")
  /\ worker' = [worker EXCEPT ![c] = [place |-> "closed"]]
  /\ UNCHANGED <<answer, tableVars, mem, lock, CpuStatus, ForcePDU, FPDULength, DBCnt, LastBlk, appVars>>

\* Requests of these groups are left without answer.
PerformGroupProgrammer(c) ==
  /\ Takes(c, "programmer")
  /\ UNCHANGED <<answer, serverVars>>

\* Seeded fault: a small proposal is accepted as it is.
AgreedUnchecked(proposal) == IF ForcePDU # 0 THEN ForcePDU ELSE proposal
Agreed(proposal) ==
  IF ForcePDU # 0 THEN ForcePDU
  ELSE IF proposal < MinPduSize THEN MinPduSize
  ELSE IF proposal > IsoPayload_Size THEN IsoPayload_Size
  ELSE proposal

PerformFunctionNegotiate(c) ==
  /\ Takes(c, "negotiate")
  /\ FPDULength' = [FPDULength EXCEPT ![c] = Agreed(request[c].length)]
  /\ Send(c, [fun |-> "negotiate", error |-> "ok", whole |-> TRUE, length |-> Agreed(request[c].length)])
  /\ UNCHANGED <<tableVars, mem, lock, CpuStatus, ForcePDU, DBCnt, LastBlk, worker, appVars>>

\* The answer is sent first; pduStart has the number of pduControl, so that
\* compress, copy and delete are answered as if they had been done.
PerformFunctionControl(c) ==
  /\ \/ Takes(c, "start") \/ Takes(c, "stop")
  /\ Send(c, [fun |-> request[c].fun, error |-> "ok", para |-> 0])
  /\ worker' = [worker EXCEPT ![c] = [place |-> "control", code |-> request[c].code]]
  /\ UNCHANGED <<tableVars, mem, lock, CpuStatus, ForcePDU, FPDULength, DBCnt, LastBlk, appVars>>

NewStatus(code, status) ==
  IF code \in {"warm", "cold"} THEN "run" ELSE IF code = "stop" THEN "stop" ELSE status

SetCpuStatus(c) ==
  /\ worker[c].place = "control"
  /\ CpuStatus' = NewStatus(worker[c].code, CpuStatus)
  /\ worker' = [worker EXCEPT ![c] = Idle]
  /\ UNCHANGED <<pduVars, tableVars, mem, lock, ForcePDU, FPDULength, DBCnt, LastBlk, appVars>>

\* Upload and download are refused as by a protected CPU.
PerformFunctionUpload(c) ==
  /\ \/ Takes(c, "startupload") \/ Takes(c, "upload") \/ Takes(c, "endupload")
  /\ Send(c, [fun |-> "response", error |-> "NeedPassword"])
  /\ UNCHANGED serverVars

PerformFunctionDownload(c) ==
  /\ Takes(c, "reqdownload")
  /\ Send(c, [fun |-> "response", error |-> "NeedPassword"])
  /\ UNCHANGED serverVars

PerformGroupSecurity(c) ==
  /\ Takes(c, "password")
  /\ Send(c, [fun |-> "password", error |-> "ok"])
  /\ UNCHANGED serverVars

PerformGetClock(c) ==
  /\ Takes(c, "getclock")
  /\ Send(c, [fun |-> "getclock", error |-> "ok", ret |-> "ok"])
  /\ UNCHANGED serverVars

PerformSetClock(c) ==
  /\ Takes(c, "setclock")
  /\ Send(c, [fun |-> "setclock", error |-> "ok", ret |-> "NotAvailable"])
  /\ UNCHANGED serverVars

-----------------------------------------------------------------------------
(* System status lists and the directory of blocks.                        *)

FirstOnes(n) == [k \in 1..n |-> k]

\* SZLData: what does not fit into one PDU is cut off, and the answer is said
\* to be the end of the list.
SZLData(c, id) ==
  LET max == FPDULength[c] - SZLHead
  IN FirstOnes(IF SZLSize[id] > max THEN max ELSE SZLSize[id])

\* The data bank: a list with the state of the CPU, prebuilt ones, no others.
SZLAnswer(c, id) ==
  CASE id = "status" ->
         [fun |-> "szl", error |-> "ok", ret |-> "ok", more |-> FALSE, data |-> <<CpuStatus>>]
    [] id \in DOMAIN SZLSize ->
         [fun |-> "szl", error |-> "ok", ret |-> "ok", more |-> FALSE, data |-> SZLData(c, id)]
    [] OTHER ->
         [fun |-> "szl", error |-> "0x02D4", ret |-> "NotAvailable", more |-> FALSE, data |-> <<>>]

PerformGroupSZL(c) ==
  /\ Takes(c, "szl")
  /\ Send(c, SZLAnswer(c, request[c].id))
  /\ UNCHANGED serverVars

BLK_ListAll(c) ==
  /\ Takes(c, "listall")
  /\ Send(c, [fun |-> "listall", error |-> "ok", whole |-> TRUE, count |-> DBCount])
  /\ UNCHANGED serverVars

\* FindDB and GetArea: the place of a data block, up to DBLimit.
IndexOfDB(a) == {i \in Slots : i <= DBLimit /\ DB[i] = a}
Registered(a) == IF a \in DBNumbers THEN IndexOfDB(a) # {} ELSE a \in HA

\* The scan goes one place further than DBLimit; behind a full table is HA[0].
TableAt(i) == IF i \in Slots THEN DB[i] ELSE IF "PE" \in HA THEN "PE" ELSE "none"

\* The loop of BLK_ListBoT: used places behind "from", at most max of them.
Scanned(from, max) ==
  LET used == {i \in from + 1..DBLimit + 1 : TableAt(i) # "none"}
  IN {i \in used : Cardinality({j \in used : j < i}) < max}
InOrder(S) == [k \in 1..Cardinality(S) |-> CHOOSE i \in S : Cardinality({j \in S : j <= i}) = k]

\* Seeded fault: the scan goes on behind the place after the last entry.
ScanFromNext(c, first) == IF first THEN -1 ELSE DBCnt[c] + 1
\* Plen = 4 starts a sequence, anything else goes on with the last one.
ScanFrom(c, first) == IF first THEN -1 ELSE DBCnt[c]

\* The entries, the place reached and whether the list goes on.  A list that
\* ends with a full answer is continued by one without entries, which the
\* server can only answer with "no resource".
BLK_ListBoT(c) ==
  /\ Takes(c, "listbot")
  /\ LET first == request[c].first
         type  == IF first THEN request[c].type ELSE LastBlk[c]
         max   == (FPDULength[c] - ListHead) \div ListEntry
         found == IF type = "DB" /\ DBCount > 0 THEN Scanned(ScanFrom(c, first), max) ELSE {}
         items == InOrder(found)
         last  == IF Len(items) = max THEN items[max] ELSE DBLimit + 1
         done  == Len(items) < max \/ last = DBLimit + 1
     IN /\ Send(c, IF items # <<>>
                     THEN [fun |-> "listbot", error |-> "ok", more |-> ~done,
                           items |-> [k \in DOMAIN items |-> TableAt(items[k])]]
                     ELSE [fun |-> "listbot", error |-> "NoResource", more |-> FALSE, items |-> <<>>])
        /\ DBCnt' = [DBCnt EXCEPT ![c] = IF type # "DB" THEN @
                                          ELSE IF DBCount <= 0 THEN ScanFrom(c, first)
                                          ELSE IF done THEN 0 ELSE last]
        /\ LastBlk' = [LastBlk EXCEPT ![c] = type]
  /\ UNCHANGED <<tableVars, mem, lock, CpuStatus, ForcePDU, FPDULength, worker, appVars>>

BLK_GetBlkInfo(c) ==
  /\ Takes(c, "blkinfo")
  /\ LET a == request[c].area
     IN Send(c, IF request[c].type = "DB" /\ Registered(a)
                  THEN [fun |-> "blkinfo", error |-> "ok", whole |-> TRUE, ret |-> "ok", mc7 |-> size[a]]
                  ELSE [fun |-> "blkinfo", error |-> "NoResource", whole |-> TRUE, ret |-> "NotAvailable", mc7 |-> 0])
  /\ UNCHANGED serverVars

-----------------------------------------------------------------------------
(* Read and write.  The item in hand is the one after the last reply.      *)

Item(c) == worker[c].items[Len(worker[c].reply) + 1]
SizeOfItem(it) == DataSizeByte(it.wl) * it.length

\* The byte an item starts at: "1 Timer or Counter = 2 bytes".
StartByte(it) == IF it.wl \in {"Timer", "Counter"} THEN it.address \div 2 ELSE it.address \div 8

OutOfRange(it) == StartByte(it) + SizeOfItem(it) > size[it.area]

Incoherent(it) ==
  \/ (it.area = "TM") # (it.wl = "Timer")
  \/ (it.area = "CT") # (it.wl = "Counter")
BadAddress(it) ==
  \/ it.wl = "Bit" /\ SizeOfItem(it) > 1
  \/ ~ByIndex(it.wl) /\ it.address % 8 # 0

\* ReadArea up to the lock.  The subtraction is unsigned: an item is refused
\* when it fills what remains of the PDU exactly, and only then.
ReadAreaCheck(it, remainder) ==
  CASE ~Registered(it.area) -> "NotAvailable"
    [] DataSizeByte(it.wl) = 0 \/ Incoherent(it) -> "AddressOutOfRange"
    [] remainder - SizeOfItem(it) = 0 -> "0x85"
    [] BadAddress(it) \/ OutOfRange(it) -> "AddressOutOfRange"
    [] OTHER -> "ok"

Remaining(it, remainder) ==
  IF ~Registered(it.area) \/ DataSizeByte(it.wl) = 0 \/ Incoherent(it) \/ remainder = SizeOfItem(it)
    THEN remainder ELSE remainder - SizeOfItem(it)

WriteAreaCheck(it) ==
  CASE ~Registered(it.area) -> "NotAvailable"
    [] DataSizeByte(it.wl) = 0 -> "InvalidTransportSize"
    [] Incoherent(it) \/ BadAddress(it) \/ OutOfRange(it) -> "AddressOutOfRange"
    [] SizeOf(it.ts, it.dlen) # SizeOfItem(it) -> "WriteDataSizeMismatch"
    [] OTHER -> "ok"

\* The stored reply is the last one: the answer goes out.
ItemDone(c, r) ==
  LET reply == Append(worker[c].reply, r)
  IN IF Len(reply) = Len(worker[c].items)
       THEN /\ Send(c, [fun |-> worker[c].fun, error |-> "ok", items |-> reply])
            /\ worker' = [worker EXCEPT ![c] = Idle]
       ELSE /\ worker' = [worker EXCEPT ![c].reply = reply, ![c].place = "find",
                                        ![c].remainder = IF worker[c].fun = "read" THEN Remaining(Item(c), @) ELSE @]
            /\ UNCHANGED answer

Serving(f, c, items) ==
  /\ Takes(c, f)
  /\ worker' = [worker EXCEPT ![c] =
       [place |-> "find", fun |-> f, reply |-> <<>>, remainder |-> FPDULength[c], items |-> items]]
  /\ UNCHANGED <<answer, tableVars, mem, lock, CpuStatus, ForcePDU, FPDULength, DBCnt, LastBlk, appVars>>

\* What follows an item's data is found by this length, which is right for the
\* word lengths whose data is counted in bits and for Bit, Timer and Counter.
Skipped(it) == IF ByIndex(it.wl) THEN it.dlen ELSE it.dlen \div 8
Placed(items, k) ==
  \A j \in 1..k - 1 : Even(Skipped(items[j])) = Even(SizeOf(items[j].ts, items[j].dlen))

\* Behind a Real or Char item other bytes are taken for the item's length and data;
\* the server stores them at the place of the item.
Stray(it, fits) ==
  [it EXCEPT !.dlen = IF fits THEN @ ELSE @ + 8,
             !.data = [k \in DOMAIN it.data |-> [by |-> "stray", n |-> 0, at |-> StartByte(it) + k - 1, bit |-> NoBit]]]

Items(c) == SubSeq(request[c].items, 1, IF Len(request[c].items) > MaxVars THEN MaxVars ELSE Len(request[c].items))

PerformFunctionRead(c) == Serving("read", c, Items(c))
PerformFunctionWrite(c) ==
  \E fits \in BOOLEAN :
    Serving("write", c, [k \in DOMAIN request[c].items |->
      IF Placed(request[c].items, k) THEN request[c].items[k] ELSE Stray(request[c].items[k], fits)])

ReadFailed(code) == [ret |-> code, ts |-> "none", dlen |-> 4, data |-> <<>>]

ReadAreaFind(c) ==
  /\ worker[c].place = "find" /\ worker[c].fun = "read"
  /\ LET found == ReadAreaCheck(Item(c), worker[c].remainder)
     IN IF found = "ok"
          THEN worker' = [worker EXCEPT ![c].place = "copy"] /\ UNCHANGED answer
          ELSE ItemDone(c, ReadFailed(found))
  /\ UNCHANGED <<request, tableVars, mem, lock, CpuStatus, ForcePDU, FPDULength, DBCnt, LastBlk, appVars>>

\* Seeded fault: the data is copied without entering the critical section.
EnterNot(c) == TRUE
Enter(c) == lock[Item(c).area] = "none"

\* Enter, memcpy, Leave.
ReadAreaCopy(c) ==
  /\ worker[c].place = "copy" /\ worker[c].fun = "read"
  /\ Enter(c)
  /\ LET it == Item(c)
     IN ItemDone(c, [ret |-> "ok", ts |-> TransportSize(it.wl),
                     dlen |-> DataLength(TransportSize(it.wl), SizeOfItem(it)),
                     data |-> [k \in 1..SizeOfItem(it) |-> mem[it.area][StartByte(it) + k - 1]]])
  /\ UNCHANGED <<request, tableVars, mem, lock, CpuStatus, ForcePDU, FPDULength, DBCnt, LastBlk, appVars>>

WriteAreaFind(c) ==
  /\ worker[c].place = "find" /\ worker[c].fun = "write"
  /\ LET found == WriteAreaCheck(Item(c))
     IN IF found = "ok"
          THEN worker' = [worker EXCEPT ![c].place = "copy"] /\ UNCHANGED answer
          ELSE ItemDone(c, found)
  /\ UNCHANGED <<request, tableVars, mem, lock, CpuStatus, ForcePDU, FPDULength, DBCnt, LastBlk, appVars>>

WriteAreaCopy(c) ==
  /\ worker[c].place = "copy" /\ worker[c].fun = "write" /\ Item(c).wl # "Bit"
  /\ Enter(c)
  /\ LET it == Item(c)
         first == StartByte(it)
     IN mem' = [mem EXCEPT ![it.area] =
                  [i \in DOMAIN @ |-> IF i \in first..first + SizeOfItem(it) - 1 THEN it.data[i - first + 1] ELSE @[i]]]
  /\ ItemDone(c, "ok")
  /\ UNCHANGED <<request, tableVars, lock, CpuStatus, ForcePDU, FPDULength, DBCnt, LastBlk, appVars>>

\* A bit is set or reset in its byte without the lock: load and store.
WriteBitLoad(c) ==
  /\ worker[c].place = "copy" /\ worker[c].fun = "write" /\ Item(c).wl = "Bit"
  /\ worker' = [worker EXCEPT ![c] =
       [place |-> "store", fun |-> "write", reply |-> @.reply, items |-> @.items, remainder |-> @.remainder,
        byte |-> mem[Item(c).area][StartByte(Item(c))]]]
  /\ UNCHANGED <<pduVars, tableVars, mem, lock, CpuStatus, ForcePDU, FPDULength, DBCnt, LastBlk, appVars>>

WriteBitStore(c) ==
  /\ worker[c].place = "store"
  /\ LET cell == Item(c).data[1]
     IN mem' = [mem EXCEPT ![Item(c).area][StartByte(Item(c))] =
                  [worker[c].byte EXCEPT !.bit = [by |-> cell.by, n |-> cell.n, at |-> cell.at]]]
  /\ ItemDone(c, "ok")
  /\ UNCHANGED <<request, tableVars, lock, CpuStatus, ForcePDU, FPDULength, DBCnt, LastBlk, appVars>>

WorkerStep(c) ==
  \/ ExecuteRecv(c) \/ IsoPerformCommand(c) \/ PerformGroupProgrammer(c)
  \/ PerformFunctionNegotiate(c) \/ PerformFunctionControl(c) \/ SetCpuStatus(c)
  \/ PerformFunctionUpload(c) \/ PerformFunctionDownload(c)
  \/ PerformGroupSecurity(c) \/ PerformGetClock(c) \/ PerformSetClock(c)
  \/ PerformGroupSZL(c) \/ BLK_ListAll(c) \/ BLK_ListBoT(c) \/ BLK_GetBlkInfo(c)
  \/ PerformFunctionRead(c) \/ ReadAreaFind(c) \/ ReadAreaCopy(c)
  \/ PerformFunctionWrite(c) \/ WriteAreaFind(c) \/ WriteAreaCopy(c)
  \/ WriteBitLoad(c) \/ WriteBitStore(c)

-----------------------------------------------------------------------------
(* The application thread.                                                 *)

Calls == app.place = "idle" /\ appOps > 0 /\ appOps' = appOps - 1

FreeSlots == {i \in Slots : DB[i] = "none"}

\* Seeded fault: a number that exists is registered again.
MayRegisterAgain(a) == FreeSlots # {}
MayRegister(a) == ~Registered(a) /\ FreeSlots # {}

\* RegisterDB: the area is published, then counted, then the limit is raised.
RegisterDB(o) ==
  /\ o.op = "register" /\ o.area \in DBNumbers
  /\ Calls /\ MayRegister(o.area)
  /\ \E index \in FreeSlots :
       /\ \A j \in FreeSlots : index <= j
       /\ DB' = [DB EXCEPT ![index] = o.area]
       /\ app' = [place |-> "count", index |-> index]
  /\ size' = [size EXCEPT ![o.area] = o.size]
  /\ UNCHANGED <<pduVars, DBCount, DBLimit, HA, mem, lock, CpuStatus, ForcePDU, workerVars, updates>>

CountDB ==
  /\ app.place = "count"
  /\ DBCount' = DBCount + 1
  /\ app' = [app EXCEPT !.place = "limit"]
  /\ UNCHANGED <<pduVars, DB, DBLimit, HA, size, mem, lock, CpuStatus, ForcePDU, workerVars, updates, appOps>>

NewLimit(index) == IF DBLimit < index THEN index ELSE DBLimit

LimitDB ==
  /\ app.place = "limit"
  /\ DBLimit' = NewLimit(app.index)
  /\ app' = AppIdle
  /\ UNCHANGED <<pduVars, DB, DBCount, HA, size, mem, lock, CpuStatus, ForcePDU, workerVars, updates, appOps>>

RegisterSys(o) ==
  /\ o.op = "register" /\ o.area \in SysAreas \ HA
  /\ Calls
  /\ HA' = HA \cup {o.area}
  /\ size' = [size EXCEPT ![o.area] = o.size]
  /\ UNCHANGED <<pduVars, DB, DBCount, DBLimit, mem, lock, CpuStatus, ForcePDU, workerVars, app, updates>>

\* "Unregister should be done with the server in stop mode": the application
\* unregisters when no worker is inside a request.
Quiet == \A c \in Conns : worker[c].place \in {"idle", "closed"}

UnregisterDB(o) ==
  /\ o.op = "unregister" /\ o.area \in DBNumbers
  /\ Calls /\ Quiet
  /\ \E index \in IndexOfDB(o.area) : DB' = [DB EXCEPT ![index] = "none"]
  /\ app' = [place |-> "uncount"]
  /\ UNCHANGED <<pduVars, DBCount, DBLimit, HA, size, mem, lock, CpuStatus, ForcePDU, workerVars, updates>>

UncountDB ==
  /\ app.place = "uncount"
  /\ DBCount' = DBCount - 1
  /\ app' = AppIdle
  /\ UNCHANGED <<pduVars, DB, DBLimit, HA, size, mem, lock, CpuStatus, ForcePDU, workerVars, updates, appOps>>

UnregisterSys(o) ==
  /\ o.op = "unregister" /\ o.area \in HA
  /\ Calls /\ Quiet
  /\ HA' = HA \ {o.area}
  /\ UNCHANGED <<pduVars, DB, DBCount, DBLimit, size, mem, lock, CpuStatus, ForcePDU, workerVars, app, updates>>

\* The application changes the bytes of Shared one by one, under the lock.
LockArea(o) ==
  /\ o.op = "update"
  /\ Calls /\ Registered(o.area) /\ lock[o.area] = "none"
  /\ lock' = [lock EXCEPT ![o.area] = "app"]
  /\ updates' = updates + 1
  /\ app' = [place |-> "update", area |-> o.area, left |-> Shared]
  /\ UNCHANGED <<pduVars, tableVars, mem, CpuStatus, ForcePDU, workerVars>>

UpdateByte ==
  /\ app.place = "update"
  /\ \E i \in app.left :
        /\ \A j \in app.left : i <= j
        /\ mem' = [mem EXCEPT ![app.area][i] = [by |-> "app", n |-> updates, at |-> i, bit |-> NoBit]]
        /\ app' = [app EXCEPT !.left = @ \ {i}]
  /\ UNCHANGED <<pduVars, tableVars, lock, CpuStatus, ForcePDU, workerVars, updates, appOps>>

UnlockArea ==
  /\ app.place = "update" /\ app.left = {}
  /\ lock' = [lock EXCEPT ![app.area] = "none"]
  /\ app' = AppIdle
  /\ UNCHANGED <<pduVars, tableVars, mem, CpuStatus, ForcePDU, workerVars, updates, appOps>>

AppStep ==
  \/ \E o \in AppOps :
       \/ RegisterDB(o) \/ RegisterSys(o) \/ UnregisterDB(o) \/ UnregisterSys(o) \/ LockArea(o)
  \/ CountDB \/ LimitDB \/ UncountDB \/ UpdateByte \/ UnlockArea
=============================================================================
