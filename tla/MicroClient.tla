----------------------------- MODULE MicroClient -----------------------------
(***************************************************************************)
(* The jobs of the synchronous client, TSnap7MicroClient                   *)
(* (core/s7_micro_client.cpp), and the connection of its peer layer        *)
(* (core/s7_peer.cpp): what each job asks, slice by slice, what it makes   *)
(* of the answers and what it reports to its caller.                       *)
(*                                                                         *)
(* "run" is the exchange the client waits for, or "idle" or "off".  The    *)
(* job slot and its threads are in module ClientAsync, the exchange of one *)
(* PDU for another in IsoExchange.  A user buffer is a sequence of bytes;  *)
(* a byte the client writes tells the job and the place of the area it is  *)
(* meant for.  The number of a data block is part of the name of its area; *)
(* "none" stands for a number outside 0..65535.                            *)
(***************************************************************************)
EXTENDS S7Pdu

CONSTANTS
  Me,          \* the client's connection
  PDURequest,  \* the PDU length it proposes
  BlockHead,   \* bytes of a block's header, 36
  FullMin,     \* smallest block with header and footer, 78
  SliceHead,   \* bytes of a slice of a download before its data, 18
  WordMod,     \* values of a word, 65536
  Jobs,        \* the jobs applications submit
  MaxJobs      \* bound on their number

\* Arguments are C integers.  A caller gives the number of items and the size of a
\* block with the array and the block they count.
IsPart(it) ==
  /\ DOMAIN it = {"area", "wl", "start", "amount"}
  /\ it.start \in Nat /\ it.amount \in Nat \ {0}
IsJob(j) ==
  /\ j.op \in {"read", "write"} => j.start \in Int /\ j.amount \in Int
  /\ j.op \in {"dbget", "listbot"} => j.amount \in Int
  /\ j.op \in {"dbget", "dbfill"} => "wl" \notin DOMAIN j
  /\ j.op = "download" => j.amount \in Nat
  /\ j.op \in {"readmulti", "writemulti"} =>
       j.items # <<>> /\ j.items \in Seq({it \in {j.items[k] : k \in DOMAIN j.items} : IsPart(it)})

ASSUME MicroClientAssumption ==
  /\ Me \in Conns
  /\ {PDURequest, BlockHead, FullMin, SliceHead, MaxJobs} \subseteq Nat
  /\ WordMod \in Nat \ {0, 1}
  /\ \A j \in Jobs : IsJob(j)

VARIABLES
  job,         \* the job record
  run,         \* the exchange it waits for
  left, start, first,  \* TotElements (or Remainder), Start and First of its loop
  opData,      \* the internal buffer
  out,         \* what the caller's buffer got
  result,      \* Job.Result, "pending" before
  PDULength,
  jobs         \* jobs submitted

loopVars == <<left, start, first>>
clientVars == <<job, run, loopVars, opData, out, result, PDULength, jobs>>

\* PDULength is uninitialised until a first negotiation is answered in full.  The
\* client starts with the length of an earlier connection: a first connection whose
\* answer is not whole is left out.
InitClient ==
  /\ job = [op |-> "none"] /\ run = "off"
  /\ left = 0 /\ start = 0 /\ first = TRUE
  /\ opData = <<>> /\ out = <<>>
  /\ result = "none" /\ PDULength = PDURequest /\ jobs = 0

Least(m, n) == IF m < n THEN m ELSE n
Upto(s, n) == SubSeq(s, 1, Least(n, Len(s)))

\* isoExchangeBuffer: the request goes out, the client waits for an answer to it.
Ask(f, r) ==
  /\ run' = f
  /\ request' = [request EXCEPT ![Me] = r]
  /\ answer' = [answer EXCEPT ![Me] = Nothing]

Answered(f) == run = f /\ answer[Me] # Nothing

\* PerformOperation returns.
Returns(res) ==
  /\ run' = "idle" /\ result' = res
  /\ answer' = [answer EXCEPT ![Me] = Nothing]
  /\ UNCHANGED request

\* The slot is taken for job j.
Begins(j, ops) ==
  /\ run = "idle" /\ jobs < MaxJobs
  /\ j.op \in ops
  /\ jobs' = jobs + 1
  /\ out' = <<>> /\ opData' = <<>>
  /\ UNCHANGED PDULength

CpuError(code) ==
  CASE code = "ok" -> "ok"
    [] code = "AddressOutOfRange" -> "errCliAddressOutOfRange"
    [] code = "InvalidTransportSize" -> "errCliInvalidTransportSize"
    [] code = "WriteDataSizeMismatch" -> "errCliWriteDataSizeMismatch"
    [] code \in {"NotAvailable", "NoResource"} -> "errCliItemNotAvailable"
    [] code = "DataOverPDU" -> "errCliSizeOverPDU"
    [] code = "NeedPassword" -> "errCliNeedPassword"
    [] OTHER -> "errCliFunctionRefused"

\* Of a return code, 0xFF is "ok" and 0 is "zero": where another is expected, CpuError
\* does not know the one and takes the other for no error.
ReturnError(ret) ==
  CASE ret = "ok" -> "errCliFunctionRefused"
    [] ret = "zero" -> "ok"
    [] OTHER -> CpuError(ret)

-----------------------------------------------------------------------------
(* Connection.                                                             *)

PeerConnect ==
  /\ run = "off" /\ request[Me] = Nothing
  /\ jobs < MaxJobs
  /\ Ask("connect", [fun |-> "connect"])
  /\ UNCHANGED <<job, loopVars, opData, out, result, PDULength, jobs>>

NegotiatePDULength ==
  /\ Answered("connect")
  /\ Ask("negotiate", [fun |-> "negotiate", length |-> PDURequest])
  /\ UNCHANGED <<job, loopVars, opData, out, result, PDULength, jobs>>

\* Seeded fault: the client goes on with the length it proposed.
GrantedAsked(a) == PDURequest
Granted(a) == a.length

\* An answer that is not whole leaves the length as it was and is good all the same.
Negotiated ==
  /\ Answered("negotiate")
  /\ LET a == answer[Me]
     IN IF a.whole /\ a.error # "ok"
          THEN run' = "off" /\ UNCHANGED PDULength
          ELSE run' = "idle" /\ PDULength' = IF a.whole THEN Granted(a) ELSE PDULength
  /\ answer' = [answer EXCEPT ![Me] = Nothing]
  /\ UNCHANGED <<request, job, loopVars, opData, out, result, jobs>>

PeerDisconnect ==
  /\ run = "idle"
  /\ run' = "off"
  /\ UNCHANGED <<pduVars, job, loopVars, opData, out, result, PDULength, jobs>>

\* The connection is lost during an exchange: the request may have been
\* received all the same.
ExchangeFails ==
  /\ run \notin {"off", "idle"}
  /\ run' = "off"
  /\ result' = IF result = "pending" THEN "errIso" ELSE result
  /\ request' \in {request, [request EXCEPT ![Me] = Nothing]}
  /\ answer' = [answer EXCEPT ![Me] = Nothing]
  /\ UNCHANGED <<job, loopVars, opData, out, PDULength, jobs>>

-----------------------------------------------------------------------------
(* One area, in slices.                                                    *)

BadParams(j) ==
  CASE DataSizeByte(j.wl) = 0 -> "errCliInvalidWordLen"
    [] j.area = "none" \/ j.start < 0 \/ j.amount < 1 -> "errCliInvalidParams"
    [] j.wl = "Bit" /\ j.amount > 1 -> "errCliInvalidTransportSize"
    [] OTHER -> "ok"

\* Seeded fault: the elements still to do are kept in two bits less.
NumElementsNarrow(n, room) == Least(n % (WordMod \div 4), room)
\* NumElements, a word, is assigned before it is compared with MaxElements.
NumElements(n, room) == Least(n % WordMod, room)
RoomToRead(j) == (PDULength - ReadHead) \div DataSizeByte(j.wl)
RoomToWrite(j) == (PDULength - WriteHead) \div DataSizeByte(j.wl)

\* Seeded fault: the next slice starts as many bytes further on as elements were moved.
AdvanceElements(j, n) == n
Advance(j, n) == n * DataSizeByte(j.wl)

\* The reference of an item in a request.
Reference(j, at, n) ==
  [area |-> j.area, wl |-> j.wl, address |-> Address(j.wl, at), length |-> n,
   ts |-> "none", dlen |-> 0, data |-> <<>>]

ReadSlice(j, at, n) ==
  /\ left' = n /\ start' = at /\ result' = "pending"
  /\ Ask("read", [fun |-> "read", items |-> <<Reference(j, at, NumElements(n, RoomToRead(j)))>>])

opReadArea ==
  \E j \in Jobs :
    /\ Begins(j, {"read"}) /\ job' = j
    /\ IF BadParams(j) = "ok"
         THEN ReadSlice(j, j.start, j.amount)
         ELSE Returns(BadParams(j)) /\ UNCHANGED <<left, start>>
    /\ UNCHANGED first

\* A DB that does not fit the caller's buffer is read as far as it does (opDBGet).
WholeRead(j) == IF j.op = "dbget" /\ j.short THEN "errCliBufferTooSmall" ELSE "ok"

ReadSliceDone ==
  /\ Answered("read")
  /\ LET it == answer[Me].items[1]
         n  == NumElements(left, RoomToRead(job))
     IN IF it.ret # "ok"
          THEN Returns(CpuError(it.ret)) /\ UNCHANGED <<out, left, start>>
          ELSE /\ out' = out \o Upto(it.data, SizeOf(it.ts, it.dlen))
               /\ IF left - n > 0
                    THEN ReadSlice(job, start + Advance(job, n), left - n)
                    ELSE Returns(WholeRead(job)) /\ UNCHANGED <<left, start>>
  /\ UNCHANGED <<job, first, opData, PDULength, jobs>>

\* The place of its area an element starts at.
Place(wl, at) == CASE wl = "Bit" -> at \div 8 [] wl \in {"Timer", "Counter"} -> 2 * at [] OTHER -> at

\* n bytes of the caller's buffer of the id-th job, from byte k on.
Buffer(j, id, k, n) ==
  [i \in 1..n |-> [by |-> "client", n |-> id, at |-> Place(j.wl, j.start) + k + i - 1,
                   bit |-> [by |-> "none", n |-> 0, at |-> 0]]]

Data(j, id, k, n) ==
  LET size == n * DataSizeByte(j.wl)
  IN [Reference(j, j.start + k, n) EXCEPT
        !.ts = TransportSize(j.wl), !.dlen = DataLength(TransportSize(j.wl), size), !.data = Buffer(j, id, k, size)]

\* Start advances by the bytes moved, so that Offset is start - j.start.
WriteSlice(j, id, at, n) ==
  /\ left' = n /\ start' = at /\ result' = "pending"
  /\ Ask("write", [fun |-> "write", items |-> <<Data(j, id, at - j.start, NumElements(n, RoomToWrite(j)))>>])

opWriteArea ==
  \E j \in Jobs :
    /\ Begins(j, {"write"}) /\ job' = j
    /\ IF BadParams(j) = "ok"
         THEN WriteSlice(j, jobs + 1, j.start, j.amount)
         ELSE Returns(BadParams(j)) /\ UNCHANGED <<left, start>>
    /\ first' = TRUE

\* Seeded fault: the CPU's error is reported whatever was written before.
RefusedAsCpu(code) == CpuError(code)
\* Of a first slice the CPU's error is reported, later some data was written.
Refused(code) == IF first THEN CpuError(code) ELSE "errCliPartialDataWritten"

\* The answer's error, then the item's: of an answer refused as a whole the CPU's
\* error is reported, whatever was written before.
WriteError(a) ==
  CASE a.error # "ok" -> CpuError(a.error)
    [] a.error = "ok" /\ a.items[1] # "ok" -> Refused(a.items[1])
    [] OTHER -> "ok"

WriteSliceDone ==
  /\ Answered("write")
  /\ LET error == WriteError(answer[Me])
         n == NumElements(left, RoomToWrite(job))
     IN IF error # "ok"
          THEN Returns(error) /\ UNCHANGED <<left, start>>
          ELSE IF left - n > 0
            THEN WriteSlice(job, jobs, start + Advance(job, n), left - n)
            ELSE Returns("ok") /\ UNCHANGED <<left, start>>
  /\ first' = FALSE
  /\ UNCHANGED <<job, opData, out, PDULength, jobs>>

-----------------------------------------------------------------------------
(* Several items at once.                                                  *)

\* Timers and counters have the word length of their area.
Adjusted(it) ==
  [it EXCEPT !.wl = IF it.area = "CT" THEN "Counter" ELSE IF it.area = "TM" THEN "Timer" ELSE @]

\* Bytes of the request with these items.
MultiSize(items, data) ==
  ReqHead + Len(items) * ItemHead
    + IF data THEN DataSize([k \in DOMAIN items |-> items[k].amount * DataSizeByte(items[k].wl)]) ELSE 0

AdjustedItems(j) == [k \in DOMAIN j.items |-> Adjusted(j.items[k])]

\* The k-th item of the request of j, the id-th job.
ReadItem(j, k) == LET it == Adjusted(j.items[k]) IN Reference(it, it.start, it.amount)
WriteItem(j, id, k) == LET it == Adjusted(j.items[k]) IN Data(it, id, 0, it.amount)

\* opReadMultiVars and opWriteMultiVars up to the exchange of request r.
AskItems(j, f, r) ==
  LET size == MultiSize(AdjustedItems(j), f = "writemulti")
  IN IF Len(j.items) > MaxVars THEN Returns("errCliTooManyItems")
     ELSE IF size > PDULength THEN Returns("errCliSizeOverPDU")
     ELSE Ask(f, r) /\ result' = "pending"

opReadMultiVars ==
  \E j \in Jobs :
    /\ Begins(j, {"readmulti"}) /\ job' = j
    /\ AskItems(j, "readmulti",
         [fun |-> "read", items |-> [k \in DOMAIN j.items |-> ReadItem(j, k)]])
    /\ UNCHANGED loopVars

opWriteMultiVars ==
  \E j \in Jobs :
    /\ Begins(j, {"writemulti"}) /\ job' = j
    /\ AskItems(j, "writemulti",
         [fun |-> "write", items |-> [k \in DOMAIN j.items |-> WriteItem(j, jobs + 1, k)]])
    /\ UNCHANGED loopVars

MultiVarsDone ==
  /\ \/ Answered("readmulti") \/ Answered("writemulti")
  /\ LET items == answer[Me].items
     IN IF answer[Me].error # "ok"
          THEN Returns(CpuError(answer[Me].error)) /\ UNCHANGED out
        ELSE IF Len(items) # Len(job.items)
          THEN Returns("errCliInvalidPlcAnswer") /\ UNCHANGED out
          ELSE /\ out' = [k \in DOMAIN items |->
                    IF run = "writemulti" THEN [result |-> CpuError(items[k]), data |-> <<>>]
                    ELSE [result |-> CpuError(items[k].ret),
                          data |-> IF items[k].ret = "ok" THEN Upto(items[k].data, SizeOf(items[k].ts, items[k].dlen))
                                   ELSE <<>>]]
               /\ Returns("ok")
  /\ UNCHANGED <<job, loopVars, opData, PDULength, jobs>>

-----------------------------------------------------------------------------
(* The directory of blocks.                                                *)

opListBlocks ==
  \E j \in Jobs :
    /\ Begins(j, {"listall"}) /\ job' = j /\ result' = "pending"
    /\ Ask("listall", [fun |-> "listall"])
    /\ UNCHANGED loopVars

\* An answer is whole when its data has the length it should have.
ListError(a) == IF a.error = "ok" /\ ~a.whole THEN "errCliInvalidPlcAnswer" ELSE CpuError(a.error)

ListBlocksDone ==
  /\ Answered("listall")
  /\ Returns(ListError(answer[Me]))
  /\ out' = IF ListError(answer[Me]) = "ok" THEN <<answer[Me].count>> ELSE <<>>
  /\ UNCHANGED <<job, loopVars, opData, PDULength, jobs>>

opListBlocksOfType ==
  \E j \in Jobs :
    /\ Begins(j, {"listbot"}) /\ job' = j
    /\ IF j.amount < 1
         THEN Returns("errCliInvalidBlockSize")
         ELSE Ask("listbot", [fun |-> "listbot", first |-> TRUE, type |-> j.type]) /\ result' = "pending"
    /\ UNCHANGED loopVars

\* Entries go to the internal buffer; the caller gets them when the list is done.
ListSliceDone ==
  /\ Answered("listbot")
  /\ LET a   == answer[Me]
         got == opData \o a.items
     IN IF a.error # "ok"
          THEN Returns("errCliItemNotAvailable") /\ UNCHANGED <<opData, out>>
          ELSE /\ opData' = got
               /\ IF a.more
                    THEN /\ Ask("listbot", [fun |-> "listbot", first |-> FALSE])
                         /\ UNCHANGED <<result, out>>
                    ELSE /\ Returns(IF Len(got) > job.amount THEN "errCliPartialDataRead" ELSE "ok")
                         /\ out' = Upto(got, job.amount)
  /\ UNCHANGED <<job, loopVars, PDULength, jobs>>

\* The first exchange of opAgBlockInfo, opDBGet and opDBFill.
opAgBlockInfo ==
  \E j \in Jobs :
    /\ Begins(j, {"blkinfo", "dbget", "dbfill"}) /\ job' = j
    /\ IF j.op = "dbget" /\ j.amount <= 0
         THEN Returns("errCliInvalidBlockSize")
         ELSE Ask("blkinfo", [fun |-> "blkinfo", type |-> j.type, area |-> j.area]) /\ result' = "pending"
    /\ UNCHANGED loopVars

\* ErrNo, then the length, then the return value.
InfoError(a) ==
  CASE a.error # "ok" -> CpuError(a.error)
    [] a.error = "ok" /\ ~a.whole -> "errCliInvalidPlcAnswer"
    [] OTHER -> CpuError(a.ret)

AgBlockInfoDone ==
  /\ Answered("blkinfo")
  /\ job.op = "blkinfo" \/ InfoError(answer[Me]) # "ok"
  /\ Returns(InfoError(answer[Me]))
  /\ out' = IF InfoError(answer[Me]) = "ok" THEN <<answer[Me].mc7>> ELSE <<>>
  /\ UNCHANGED <<job, loopVars, opData, PDULength, jobs>>

\* MC7Size bytes of the DB are read, or as many as the caller's buffer holds.
opDBGet ==
  /\ Answered("blkinfo")
  /\ job.op = "dbget" /\ InfoError(answer[Me]) = "ok"
  /\ job' = [op |-> "dbget", type |-> "DB", area |-> job.area, wl |-> "Byte", start |-> 0,
             amount |-> Least(answer[Me].mc7, job.amount), short |-> answer[Me].mc7 > job.amount]
  /\ IF BadParams(job') = "ok"
       THEN ReadSlice(job', 0, job'.amount)
       ELSE Returns(BadParams(job')) /\ UNCHANGED <<left, start>>
  /\ UNCHANGED <<first, opData, out, PDULength, jobs>>

opDBFill ==
  /\ Answered("blkinfo")
  /\ job.op = "dbfill" /\ InfoError(answer[Me]) = "ok"
  /\ job' = [op |-> "dbfill", type |-> "DB", area |-> job.area, wl |-> "Byte", start |-> 0, amount |-> answer[Me].mc7]
  /\ first' = TRUE
  /\ UNCHANGED <<opData, out, PDULength, jobs>>
  /\ IF BadParams(job') = "ok"
       THEN WriteSlice(job', jobs, 0, job'.amount)
       ELSE Returns(BadParams(job')) /\ UNCHANGED <<left, start>>

-----------------------------------------------------------------------------
(* Upload and download of a block.  A block is a header of BlockHead       *)
(* bytes, the MC7 code and a footer.                                       *)

opUpload ==
  \E j \in Jobs :
    /\ Begins(j, {"upload"}) /\ job' = j
    /\ IF j.amount <= 0
         THEN Returns("errCliInvalidBlockSize")
         ELSE Ask("startupload", [fun |-> "startupload"]) /\ result' = "pending"
    /\ first' = TRUE
    /\ UNCHANGED <<left, start>>

StartUploadDone ==
  /\ Answered("startupload")
  /\ IF answer[Me].error = "ok"
       THEN Ask("upload", [fun |-> "upload"]) /\ UNCHANGED result
       ELSE Returns(CpuError(answer[Me].error))
  /\ UNCHANGED <<job, loopVars, opData, out, PDULength, jobs>>

\* The first slice starts with the header, which only a full upload keeps, and
\* tells the length of the code.
UploadSliceDone ==
  /\ Answered("upload")
  /\ LET a == answer[Me]
     IN IF a.error # "ok"
          THEN Returns("errCliUploadSequenceFailed") /\ UNCHANGED <<left, opData>>
          ELSE /\ opData' = opData \o IF first /\ ~job.full THEN SubSeq(a.data, BlockHead + 1, Len(a.data)) ELSE a.data
               /\ left' = IF first THEN a.mc7 ELSE left
               /\ IF a.eou THEN Ask("endupload", [fun |-> "endupload"]) ELSE Ask("upload", [fun |-> "upload"])
               /\ UNCHANGED result
  /\ first' = FALSE
  /\ UNCHANGED <<job, start, out, PDULength, jobs>>

\* Seeded fault: the size of an upload without header is what was received.
UploadedSizeAll == Len(opData)
\* opSize: everything of a full upload, else the code.
UploadedSize == IF job.full THEN Len(opData) ELSE left

EndUploadDone ==
  /\ Answered("endupload")
  /\ IF answer[Me].error # "ok"
       THEN Returns("errCliUploadSequenceFailed") /\ UNCHANGED out
       ELSE IF UploadedSize < IF job.full THEN FullMin ELSE 1
         THEN Returns("errCliInvalidDataSizeRecvd") /\ UNCHANGED out
         ELSE /\ out' = Upto(opData, Least(job.amount, UploadedSize))
              /\ Returns(IF job.amount < UploadedSize THEN "errCliPartialDataRead" ELSE "ok")
  /\ UNCHANGED <<job, loopVars, opData, PDULength, jobs>>

\* The block's own sizes must be the ones of the buffer.
CheckBlock(j) ==
  IF j.load # j.amount \/ j.mc7 + BlockHead >= j.amount THEN "errCliInvalidBlockSize" ELSE "ok"

opDownload ==
  \E j \in Jobs :
    /\ Begins(j, {"download"}) /\ job' = j
    /\ IF CheckBlock(j) = "ok"
         THEN Ask("reqdownload", [fun |-> "reqdownload"]) /\ result' = "pending"
         ELSE Returns(CheckBlock(j))
    /\ left' = j.amount /\ start' = 0
    /\ UNCHANGED first

\* From here on the PLC asks: "answer" carries its requests.
StartDownloadDone ==
  /\ Answered("reqdownload")
  /\ LET error == answer[Me].error
     IN IF error = "ok"
          THEN run' = "serve" /\ answer' = [answer EXCEPT ![Me] = Nothing] /\ UNCHANGED <<request, result>>
          ELSE Returns(IF error = "NeedPassword" THEN "errCliNeedPassword" ELSE "errCliDownloadSequenceFailed")
  /\ UNCHANGED <<job, loopVars, opData, out, PDULength, jobs>>

MaxSlice == PDULength - SliceHead

LastSlice(slice) == left <= slice

\* The k-th byte of the block of a download has number k.
DownloadSlice ==
  /\ Answered("serve")
  /\ LET slice == Least(left, MaxSlice)
     IN IF answer[Me].fun = "download"
          THEN /\ left' = left - slice /\ start' = start + slice
               /\ Ask(IF LastSlice(slice) THEN "ended" ELSE "serve",
                      [fun |-> "downloaded", data |-> [k \in 1..slice |-> start + k], eos |-> LastSlice(slice)])
               /\ UNCHANGED result
          ELSE Returns("errCliDownloadSequenceFailed") /\ UNCHANGED <<left, start>>
  /\ UNCHANGED <<job, first, opData, out, PDULength, jobs>>

DownloadEnded ==
  /\ Answered("ended")
  /\ IF answer[Me].fun = "downloadended"
       THEN Ask("insert", [fun |-> "ended"]) /\ UNCHANGED result
       ELSE Returns("errCliDownloadSequenceFailed")
  /\ UNCHANGED <<job, loopVars, opData, out, PDULength, jobs>>

InsertBlock ==
  /\ run = "insert" /\ request[Me] = Nothing /\ answer[Me] = Nothing
  /\ Ask("inserted", [fun |-> "start", code |-> "insert"])
  /\ UNCHANGED <<job, loopVars, opData, out, result, PDULength, jobs>>

InsertDone ==
  /\ Answered("inserted")
  /\ Returns(IF answer[Me].error = "ok" THEN "ok" ELSE "errCliInsertRefused")
  /\ UNCHANGED <<job, loopVars, opData, out, PDULength, jobs>>

-----------------------------------------------------------------------------
(* Control of the CPU.                                                     *)

AskControl(op, f, code) ==
  \E j \in Jobs :
    /\ Begins(j, {op}) /\ job' = j
    /\ IF op \in {"copyram", "compress"} /\ j.timeout <= 0
         THEN Returns("errCliInvalidParams")
         ELSE Ask("control", [fun |-> f, code |-> code]) /\ result' = "pending"
    /\ UNCHANGED loopVars

opPlcStop == AskControl("stop", "stop", "stop")
opPlcHotStart == AskControl("hotstart", "start", "warm")
opPlcColdStart == AskControl("coldstart", "start", "cold")
opCopyRamToRom == AskControl("copyram", "start", "copyram")
opCompress == AskControl("compress", "start", "compress")
opDelete == AskControl("delete", "start", "delete")

ControlResult(op, a) ==
  CASE a.error = "ok" -> "ok"
    [] op = "stop"  -> IF a.para = 7 THEN "errCliAlreadyStop" ELSE "errCliCannotStopPLC"
    [] op \in {"hotstart", "coldstart"} -> IF a.para = 3 THEN "errCliAlreadyRun" ELSE "errCliCannotStartPLC"
    [] op = "copyram" -> "errCliCannotCopyRamToRom"
    [] op = "compress" -> "errCliCannotCompress"
    [] op = "delete" -> IF a.error = "NeedPassword" THEN "errCliNeedPassword" ELSE "errCliDeleteRefused"

ControlDone ==
  /\ Answered("control")
  /\ Returns(ControlResult(job.op, answer[Me]))
  /\ UNCHANGED <<job, loopVars, opData, out, PDULength, jobs>>

-----------------------------------------------------------------------------
(* System status lists.                                                    *)

AskSZL(op) ==
  \E j \in Jobs :
    /\ Begins(j, {op}) /\ job' = j
    /\ Ask("szl", [fun |-> "szl", id |-> j.id, first |-> TRUE]) /\ result' = "pending"
    /\ UNCHANGED loopVars

opReadSZL == AskSZL("szl")
opReadSZLList == AskSZL("szllist")
opGetOrderCode == AskSZL("ordercode")
opGetCpuInfo == AskSZL("cpuinfo")
opGetCpInfo == AskSZL("cpinfo")
opGetPlcStatus == AskSZL("status")
opGetProtection == AskSZL("protection")

\* Only the first two have a caller's buffer that can be too small.
SZLRoom(got) == IF job.op \in {"szl", "szllist"} THEN job.amount ELSE Len(got)

MoreSZL == Ask("szl", [fun |-> "szl", id |-> job.id, first |-> FALSE]) /\ UNCHANGED result

\* What is no error and no data is asked for again.
SZLSliceDone ==
  /\ Answered("szl")
  /\ LET a   == answer[Me]
         got == opData \o a.data
     IN IF a.ret # "ok" \/ a.error # "ok"
          THEN /\ IF ReturnError(a.ret) = "ok" THEN MoreSZL ELSE Returns(ReturnError(a.ret))
               /\ UNCHANGED <<opData, out>>
          ELSE /\ opData' = got
               /\ IF a.more
                    THEN MoreSZL /\ UNCHANGED out
                    ELSE /\ out' = Upto(got, SZLRoom(got))
                         /\ Returns(IF Len(got) > SZLRoom(got) THEN "errCliBufferTooSmall" ELSE "ok")
  /\ UNCHANGED <<job, loopVars, PDULength, jobs>>

-----------------------------------------------------------------------------
(* Clock and password: one exchange each.                                  *)

AskSimple(op, f) ==
  \E j \in Jobs :
    /\ Begins(j, {op}) /\ job' = j
    /\ IF op = "setpassword" /\ j.length \notin 1..8
         THEN Returns("errCliInvalidParams")
         ELSE Ask("simple", [fun |-> f]) /\ result' = "pending"
    /\ UNCHANGED loopVars

opGetDateTime == AskSimple("getclock", "getclock")
opSetDateTime == AskSimple("setclock", "setclock")
opSetPassword == AskSimple("setpassword", "password")
opClearPassword == AskSimple("clearpassword", "password")

\* The answer to SetPlcDateTime has a return value too, which is not looked at.
SimpleDone ==
  /\ Answered("simple")
  /\ LET a == answer[Me]
     IN Returns(IF job.op = "getclock" /\ (a.error # "ok" \/ a.ret # "ok") THEN ReturnError(a.ret) ELSE CpuError(a.error))
  /\ UNCHANGED <<job, loopVars, opData, out, PDULength, jobs>>

ClientStep ==
  \/ NegotiatePDULength \/ Negotiated
  \/ ReadSliceDone \/ WriteSliceDone \/ MultiVarsDone
  \/ ListBlocksDone \/ ListSliceDone \/ AgBlockInfoDone \/ opDBGet \/ opDBFill
  \/ StartUploadDone \/ UploadSliceDone \/ EndUploadDone
  \/ StartDownloadDone \/ DownloadSlice \/ DownloadEnded \/ InsertBlock \/ InsertDone
  \/ ControlDone \/ SZLSliceDone \/ SimpleDone

Submit ==
  \/ opReadArea \/ opWriteArea \/ opReadMultiVars \/ opWriteMultiVars
  \/ opListBlocks \/ opListBlocksOfType \/ opAgBlockInfo \/ opUpload \/ opDownload
  \/ opPlcStop \/ opPlcHotStart \/ opPlcColdStart \/ opCopyRamToRom \/ opCompress \/ opDelete
  \/ opReadSZL \/ opReadSZLList \/ opGetOrderCode \/ opGetCpuInfo \/ opGetCpInfo \/ opGetPlcStatus \/ opGetProtection
  \/ opGetDateTime \/ opSetDateTime \/ opSetPassword \/ opClearPassword
=============================================================================
