------------------------------ MODULE S7Session ------------------------------
(***************************************************************************)
(* A synchronous client and a second station at an S7 server with its      *)
(* application (modules MicroClient and S7Server), or the client at a PLC. *)
(*                                                                         *)
(* The server refuses uploads and downloads and answers system status      *)
(* lists in one PDU, so the client's side of these is checked against a    *)
(* PLC that does them: it answers as the client expects it to, with any    *)
(* slices and any of the errors the client tells apart.  The second        *)
(* station sends requests of its own and is not modelled further.          *)
(***************************************************************************)
EXTENDS MicroClient, S7Server

CONSTANTS
  Peers,           \* "server", "plc" or both: what the client is connected to
  Station,         \* the second station's connection
  StationRequests, \* its requests
  ServerJobs,      \* jobs submitted to a server ...
  PlcJobs,         \* ... and to a PLC
  LoadSize, MC7,   \* bytes of the PLC's block: all of it, its code
  PlcSZL,          \* bytes of its status list
  BitAreas         \* areas in which bits are written, which is done without the lock

\* A byte as data of a request or in memory; the data of an item comes from one request.
IsByte(x) == DOMAIN x = {"by", "n", "at", "bit"}
Writers == {"client", "station", "stray"}
Numbers == 0..MaxJobs + MaxAppOps
OneWriter(data) ==
  \E who \in Writers, n \in Numbers :
    \A k \in DOMAIN data : IsByte(data[k]) /\ data[k].by = who /\ data[k].n = n

\* Items as they stand in a request: data to write is as long as the length says.
IsItem(f, it) ==
  /\ DOMAIN it = {"area", "wl", "address", "length", "ts", "dlen", "data"}
  /\ it.address \in Nat /\ it.length \in Int
  /\ f = "write" => /\ DOMAIN it.data = 1..SizeOfItem(it) /\ OneWriter(it.data)
                    /\ it.wl = "Bit" => it.area \in BitAreas /\ it.length >= 1
\* Bytes meant for the place the item has in its area.
InPlace(it) ==
  it.wl \notin {"Timer", "Counter"} => \A k \in DOMAIN it.data : it.data[k].at = StartByte(it) + k - 1
IsSeq(s) == s \in Seq({s[i] : i \in DOMAIN s})
IsRequest(r) ==
  /\ r.fun \in {"read", "write"} =>
       IsSeq(r.items) /\ r.items # <<>> /\ \A k \in DOMAIN r.items : IsItem(r.fun, r.items[k])
  /\ r.fun = "negotiate" => r.length \in Int

\* The smallest PDU has room for the headers and an element to write.  The length the
\* client asks for (480, unless SetParam says otherwise) is one servers grant: with
\* less than the headers a slice would have no room.  A block of the PLC is its
\* header, its MC7 code and its footer.  BitAreas has the areas jobs write bits in.
ASSUME S7SessionAssumption ==
  /\ Station \in Conns \ {Me}
  /\ \A r \in StationRequests :
       /\ IsRequest(r)
       /\ r.fun = "write" => \A k \in DOMAIN r.items :
            /\ InPlace(r.items[k])
            /\ \A i \in DOMAIN r.items[k].data : r.items[k].data[i].by = "station" /\ r.items[k].data[i].bit = NoBit
  /\ MinPduSize >= ReadHead /\ MinPduSize > WriteHead /\ MinPduSize >= SliceHead
  /\ PDURequest \in MinPduSize..IsoPayload_Size
  /\ {LoadSize, MC7, PlcSZL} \subseteq Nat /\ BlockHead + MC7 <= LoadSize
  /\ \A j \in Jobs :
       /\ j.op = "write" => WriteHead + DataSizeByte(j.wl) <= MinPduSize /\ (j.wl = "Bit" => j.area \in BitAreas)
       /\ j.op = "writemulti" => \A k \in DOMAIN j.items : j.items[k].wl = "Bit" => j.items[k].area \in BitAreas

VARIABLES
  peer,            \* fixed at the start
  asked,           \* the second station has sent its request
  plc,             \* the PLC: phase, place in its block or list, and the block it got
  written,         \* bytes of the areas that got data of the job in hand
  stable, seen,    \* data blocks registered all through the job, and in the table at some time in it
  gone             \* data blocks that were unregistered in it

plcVars == <<plc>>
history == <<written, stable, seen, gone>>
vars == <<pduVars, clientVars, serverVars, peer, asked, plcVars, history>>

RegisteredDBs == {a \in DBNumbers : Registered(a)}
TableDBs == {a \in DBNumbers : \E i \in Slots : DB[i] = a}

\* A bound on the instance: either the application does something while the
\* client's jobs are served or the second station sends its request, and nothing
\* of the server varies when the client is connected to a PLC.
Init ==
  /\ InitServer /\ InitClient
  /\ request = [c \in Conns |-> Nothing] /\ answer = [c \in Conns |-> Nothing]
  /\ peer \in {p \in Peers : p = "plc" => appOps = 0 /\ ForcePDU = 0}
  /\ asked = (peer = "plc" \/ appOps > 0)
  /\ plc = [phase |-> "idle", pos |-> 0, got |-> <<>>]
  /\ written = {} /\ stable = {} /\ seen = {} /\ gone = {}

\* Histories: a job starts when their count goes up.
ByJob(stamp) == stamp.by = "client" /\ stamp.n = jobs
Got(a, i) ==
  LET cell == mem'[a][i]
  IN IF cell = mem[a][i] THEN {}
     ELSE {<<a, i, stamp.at>> : stamp \in {stamp \in {cell.bit, [by |-> cell.by, n |-> cell.n, at |-> cell.at]} : ByJob(stamp)}}

\* The PLC's memory is not modelled: what it answers "ok" to, it has stored.
PlcStored ==
  IF /\ peer = "plc" /\ request[Me].fun = "write" /\ request'[Me] = Nothing
     /\ answer'[Me].fun = "write" /\ answer'[Me].items = <<"ok">>
    THEN LET it == request[Me].items[1]
         IN {<<it.area, StartByte(it) + k - 1, it.data[k].at>> : k \in {k \in DOMAIN it.data : ByJob(it.data[k])}}
    ELSE {}

Record ==
  IF jobs' # jobs
    THEN written' = {} /\ stable' = RegisteredDBs' /\ seen' = TableDBs' /\ gone' = {}
    ELSE /\ written' = IF mem' = mem THEN written \cup PlcStored
                       ELSE written \cup UNION {UNION {Got(a, i) : i \in DOMAIN mem[a]} : a \in Areas}
         /\ stable' = stable \cap RegisteredDBs'
         /\ seen' = seen \cup TableDBs'
         /\ gone' = gone \cup (TableDBs \ TableDBs')

-----------------------------------------------------------------------------
(* The PLC (external): what the client's code expects of it.               *)

PlcTakes(f) ==
  /\ peer = "plc" /\ request[Me].fun = f
  /\ request' = [request EXCEPT ![Me] = Nothing]

PlcSends(a) == answer' = [answer EXCEPT ![Me] = a]

PlcConnects ==
  /\ \/ PlcTakes("connect") /\ PlcSends([fun |-> "confirm"])
     \/ /\ PlcTakes("negotiate")
        /\ \E error \in {"ok", "refused"}, whole \in BOOLEAN, length \in {MinPduSize, request[Me].length} :
             PlcSends([fun |-> "negotiate", error |-> error, whole |-> whole, length |-> length])
  /\ plc' = [plc EXCEPT !.phase = "idle", !.pos = 0]

Slices == 1..3

PlcUploads ==
  \/ /\ PlcTakes("startupload")
     /\ \E error \in {"ok", "NeedPassword"} : PlcSends([fun |-> "startupload", error |-> error])
     /\ plc' = [plc EXCEPT !.pos = 0]
  \/ /\ PlcTakes("upload")
     /\ \/ PlcSends([fun |-> "upload", error |-> "refused"]) /\ UNCHANGED plc
        \/ \E n \in Slices, mc7 \in {0, MC7} :
             /\ plc.pos + n <= LoadSize /\ plc.pos + n >= BlockHead
             /\ plc' = [plc EXCEPT !.pos = @ + n]
             /\ PlcSends([fun |-> "upload", error |-> "ok", mc7 |-> mc7, eou |-> plc.pos + n = LoadSize,
                          data |-> [k \in 1..n |-> plc.pos + k]])
  \/ /\ PlcTakes("endupload")
     /\ \E error \in {"ok", "refused"} : PlcSends([fun |-> "endupload", error |-> error])
     /\ UNCHANGED plc

PlcDownloads ==
  \/ /\ PlcTakes("reqdownload")
     /\ \E error \in {"ok", "NeedPassword", "refused"} :
          /\ PlcSends([fun |-> "reqdownload", error |-> error])
          /\ plc' = [plc EXCEPT !.phase = IF error = "ok" THEN "pull" ELSE "idle", !.got = <<>>]
  \/ /\ peer = "plc" /\ plc.phase \in {"pull", "pulled"}
     /\ run \in {"serve", "ended"} /\ request[Me] = Nothing /\ answer[Me] = Nothing
     /\ \/ /\ PlcSends([fun |-> IF plc.phase = "pull" THEN "download" ELSE "downloadended"])
           /\ UNCHANGED plc
        \/ PlcSends([fun |-> "other"]) /\ plc' = [plc EXCEPT !.phase = "idle"]
     /\ UNCHANGED request
  \/ /\ PlcTakes("downloaded")
     /\ plc' = [plc EXCEPT !.got = @ \o request[Me].data, !.phase = IF request[Me].eos THEN "pulled" ELSE "pull"]
     /\ UNCHANGED answer
  \/ /\ PlcTakes("ended")
     /\ plc' = [plc EXCEPT !.phase = "idle"]
     /\ UNCHANGED answer

PlcControl ==
  /\ PlcTakes("start") \/ PlcTakes("stop")
  /\ \E error \in {"ok", "NeedPassword", "refused"}, para \in {0, 3, 7} :
       PlcSends([fun |-> request[Me].fun, error |-> error, para |-> para])
  /\ UNCHANGED plc

\* Follow-up requests carry no list: the PLC goes on with the last one.  Once in a
\* connection it answers with nothing.
PlcSZLSlices ==
  /\ PlcTakes("szl")
  /\ LET pos == IF request[Me].first THEN 0 ELSE plc.pos
     IN \/ /\ \E ret \in {"NotAvailable", "ok"} : PlcSends([fun |-> "szl", error |-> "refused", ret |-> ret])
           /\ UNCHANGED plc
        \/ /\ plc.phase = "idle"
           /\ plc' = [plc EXCEPT !.phase = "empty", !.pos = pos]
           /\ \E error \in {"ok", "refused"} : PlcSends([fun |-> "szl", error |-> error, ret |-> "zero"])
        \/ \E n \in Slices :
             /\ pos + n <= PlcSZL
             /\ plc' = [plc EXCEPT !.pos = pos + n]
             /\ PlcSends([fun |-> "szl", error |-> "ok", ret |-> "ok", more |-> pos + n < PlcSZL,
                          data |-> [k \in 1..n |-> pos + k]])

\* Other refusals the client can meet: all of a request refused, an item of it, an
\* answer that is not whole or has no items.  Of the requests to write one item some
\* are done, so that a later slice can be refused in either way.
OneItem == Len(request[Me].items) = 1
CanStore(it) == it.area \in Areas /\ ~Incoherent(it)

PlcRefuses ==
  /\ \/ PlcTakes("password") /\ PlcSends([fun |-> "password", error |-> "NeedPassword"])
     \/ /\ PlcTakes("getclock")
        /\ \E error \in {"ok", "refused"} :
             PlcSends([fun |-> "getclock", error |-> error, ret |-> IF error = "ok" THEN "refused" ELSE "ok"])
     \/ PlcTakes("setclock") /\ PlcSends([fun |-> "setclock", error |-> "refused", ret |-> "ok"])
     \/ /\ PlcTakes("listall")
        /\ \E whole \in BOOLEAN :
             PlcSends([fun |-> "listall", error |-> IF whole THEN "NoResource" ELSE "ok", whole |-> whole, count |-> 0])
     \/ /\ PlcTakes("blkinfo")
        /\ \E whole \in BOOLEAN :
             PlcSends([fun |-> "blkinfo", error |-> "ok", whole |-> whole, ret |-> "NeedPassword", mc7 |-> 0])
     \/ /\ PlcTakes("read")
        /\ \E error \in {"ok", "refused"} :
             PlcSends([fun |-> "read", error |-> error, items |-> IF OneItem THEN <<ReadFailed("refused")>> ELSE <<>>])
     \/ /\ PlcTakes("write")
        /\ \E error \in {"ok", "refused"}, item \in {"ok", "refused"} :
             /\ item = "ok" => error = "ok" /\ CanStore(request[Me].items[1])
             /\ PlcSends([fun |-> "write", error |-> error, items |-> IF OneItem THEN <<item>> ELSE <<>>])
  /\ UNCHANGED plc

PlcStep == PlcConnects \/ PlcUploads \/ PlcDownloads \/ PlcControl \/ PlcSZLSlices \/ PlcRefuses

-----------------------------------------------------------------------------

Connect ==
  /\ PeerConnect /\ NewWorker(Me)
  /\ UNCHANGED <<tableVars, mem, lock, CpuStatus, ForcePDU, appVars, peer, asked, plcVars>>

Perform ==
  /\ \/ Submit /\ job' \in (IF peer = "plc" THEN PlcJobs ELSE ServerJobs)
     \/ ClientStep \/ PeerDisconnect
  /\ UNCHANGED <<serverVars, peer, asked, plcVars>>

Fails == ExchangeFails /\ UNCHANGED <<serverVars, peer, asked, plcVars>>

Serve(c) ==
  /\ c = Me => peer = "server"
  /\ WorkerStep(c)
  /\ UNCHANGED <<clientVars, peer, asked, plcVars>>

Application == AppStep /\ UNCHANGED <<clientVars, peer, asked, plcVars>>

StationAsks ==
  /\ peer = "server" /\ ~asked /\ asked' = TRUE
  /\ \E r \in StationRequests : request' = [request EXCEPT ![Station] = r]
  /\ UNCHANGED <<answer, clientVars, serverVars, peer, plcVars>>

Plc == PlcStep /\ UNCHANGED <<clientVars, serverVars, peer, asked>>

Next ==
  /\ Connect \/ Perform \/ Fails \/ (\E c \in Conns : Serve(c)) \/ Application \/ StationAsks \/ Plc
  /\ Record

\* The client's thread, the worker that serves it and the application are
\* scheduled, and the PLC answers.  Nobody need submit a job, the second station
\* need not be served and no connection need be lost.
Fairness ==
  /\ WF_vars(ClientStep /\ Perform /\ Record)
  /\ WF_vars(Serve(Me) /\ Record)
  /\ WF_vars(Application /\ Record)
  /\ WF_vars(Plc /\ Record)

Spec == Init /\ [][Next]_vars /\ Fairness

-----------------------------------------------------------------------------
(* Properties.                                                             *)

Ended == run \in {"idle", "off"} /\ result # "none"
\* opDBGet and opDBFill have an area to read or write when they know its size.
OneArea == "wl" \in DOMAIN job
Bytes == job.amount * DataSizeByte(job.wl)

\* Types of what the other properties speak of.
TypeOK ==
  /\ \A c \in Conns :
       /\ worker[c].place \in {"idle", "closed", "control", "find", "copy", "store"}
       /\ worker[c].place \in {"find", "copy", "store"} => Len(worker[c].reply) < Len(worker[c].items)
  /\ \A a \in Areas : size[a] <= AreaSize[a] /\ DOMAIN mem[a] = 0..AreaSize[a] - 1
  /\ lock \in [Areas -> {"none", "app"}]
  /\ left \in Nat /\ start \in Nat /\ jobs \in 0..MaxJobs
  /\ run # "off" => PDULength \in 0..IsoPayload_Size
  /\ \A c \in Conns : FPDULength[c] \in MinPduSize..IsoPayload_Size

RequestSize(r) ==
  ReqHead + Len(r.items) * ItemHead
    + IF r.fun = "read" THEN 0 ELSE DataSize([k \in DOMAIN r.items |-> Len(r.items[k].data)])

\* Client and server keep to the PDU length they have agreed on: every request to
\* read or write and the answer to every slice of one area fit a PDU of the
\* server's worker.  (The answer to a multiple read may not, see the README.)
PduFits ==
  peer = "server" /\ run \notin {"off", "connect", "negotiate"} =>
    /\ request[Me].fun \in {"read", "write"} => RequestSize(request[Me]) <= FPDULength[Me]
    /\ answer[Me].fun = "read" /\ run = "read" => ReadHead + Len(answer[Me].items[1].data) <= FPDULength[Me]

\* The table of data blocks (RegisterDB, UnregisterDB): no number is in it
\* twice, outside of a call DBCount is the number of blocks, and every block is
\* in reach of DBLimit, so that FindDB and the directory see it.
TableInv ==
  /\ \A i, j \in Slots : DB[i] = DB[j] /\ DB[i] # "none" => i = j
  /\ app.place \notin {"count", "limit", "uncount"} =>
       DBCount = Cardinality({i \in Slots : DB[i] # "none"})
  /\ \A i \in Slots : DB[i] # "none" => i <= DBLimit \/ (app.place \in {"count", "limit"} /\ app.index = i)

\* Of bytes the application updates together under LockArea, an answer to a read
\* has those of one update, unless a station wrote one of them or a bit of it.
NoTornItem ==
  \A c \in Conns :
    answer[c].fun = "read" =>
      \A k \in DOMAIN answer[c].items :
        LET data == answer[c].items[k].data
        IN \A i, j \in DOMAIN data :
             (/\ data[i].at \in Shared /\ data[j].at \in Shared
              /\ data[i].by \in {"init", "app"} /\ data[j].by \in {"init", "app"}
              /\ data[i].bit = NoBit /\ data[j].bit = NoBit)
               => data[i].by = data[j].by /\ data[i].n = data[j].n

\* A read that is reported good gave the caller every byte of what was asked, in
\* order, whatever the slices were; a DB read into a small buffer its first
\* bytes; an item of a multiple read that is reported good all of the item.
\* (Timers and counters are another matter, see the README.)
ReadExact ==
  Ended =>
    /\ OneArea /\ job.op \in {"read", "dbget"}
         /\ result \in {"ok", "errCliBufferTooSmall"} /\ job.wl \notin {"Timer", "Counter"}
       => Len(out) = Bytes /\ \A k \in DOMAIN out : out[k].at = Place(job.wl, job.start) + k - 1
    /\ job.op = "readmulti" /\ result = "ok" =>
         \A k \in DOMAIN out :
           LET it == job.items[k]
           IN out[k].result = "ok" /\ it.area # "TM" =>
                /\ Len(out[k].data) = it.amount * DataSizeByte(it.wl)
                /\ \A i \in DOMAIN out[k].data : out[k].data[i].at = Place(it.wl, it.start) + i - 1

\* Places of n bytes of area a from byte f on, as the history has them.
Stretch(a, f, n) == {<<a, i, i>> : i \in f..f + n - 1}

\* What a write reports is what it did: all of it when good, some of it and from
\* the beginning when errCliPartialDataWritten, nothing of it when an error of
\* the CPU is reported: at a server, that is.  A PLC can refuse a later slice as a
\* whole, where the client reports the CPU's error although earlier slices are
\* written.  (The first slice of a multiple of 65536 elements is empty
\* and counts as written all the same.)  Of a multiple write the bytes of the items
\* reported good are written and no others, as far as the server finds the items
\* (see Placed).
WriteReported ==
  Ended =>
    /\ OneArea /\ job.op \in {"write", "dbfill"} /\ job.wl \notin {"Timer", "Counter"} =>
         LET from == Place(job.wl, job.start)
         IN CASE result = "ok" -> written = Stretch(job.area, from, Bytes)
              [] result = "errCliPartialDataWritten" ->
                   \E n \in 0..Bytes - 1 :
                     /\ written = Stretch(job.area, from, n)
                     /\ n = 0 => job.amount % WordMod = 0
              [] result = "errIso" -> \E n \in 0..Bytes : written = Stretch(job.area, from, n)
              [] OTHER -> \/ written = {}
                          \/ peer = "plc" /\ \E n \in 0..Bytes - 1 : written = Stretch(job.area, from, n)
    /\ job.op = "writemulti" /\ result = "ok" =>
         LET found == {k \in DOMAIN out : Placed([i \in DOMAIN job.items |-> WriteItem(job, jobs, i)], k)}
         IN {w \in written : w[1] # "TM"} =
              UNION {Stretch(job.items[k].area, Place(job.items[k].wl, job.items[k].start),
                             job.items[k].amount * DataSizeByte(job.items[k].wl)) :
                       k \in {k \in found : out[k].result = "ok" /\ job.items[k].area # "TM"}}

\* A list of data blocks that is reported good has every block that was there
\* all the time, none that never was, and none twice but one that was registered
\* anew, although blocks come and go between its slices.  One that is cut off to
\* the caller's room has no other blocks either.  A full table is the exception
\* of the scan, which takes the inputs behind it for a block (see TableAt).
ListComplete ==
  Ended /\ job.op = "listbot" =>
    LET listed == {out[k] : k \in DOMAIN out}
    IN /\ result = "ok" => stable \subseteq listed
       /\ listed \subseteq seen \cup {"PE"}
       /\ "PE" \in listed => DBLimit = MaxDB - 1
       /\ \A k, l \in DOMAIN out : out[k] = out[l] /\ out[k] \notin gone => k = l

\* An upload that is reported good gave the caller the block, with or without
\* its header and footer; after a good download the PLC has the block; a status
\* list that is reported good is whole.
BlockWhole ==
  Ended /\ peer = "plc" /\ result = "ok" =>
    /\ job.op = "upload" => out = IF job.full THEN FirstOnes(LoadSize) ELSE [k \in 1..MC7 |-> BlockHead + k]
    /\ job.op = "download" => plc.got = FirstOnes(job.amount)
    /\ job.op = "szl" => out = FirstOnes(PlcSZL)

\* LockArea, ReadArea and WriteArea implement an area memory in which updates
\* and items are single steps: an update counts as made when the lock is taken.
Guarded == Areas \ BitAreas
Committed(a) ==
  [i \in DOMAIN mem[a] |->
     IF app.place = "update" /\ app.area = a /\ i \in app.left
       THEN [by |-> "app", n |-> updates] ELSE [by |-> mem[a][i].by, n |-> mem[a][i].n]]
AreaMemory == INSTANCE AreaMemory WITH
  memory <- [a \in Guarded |-> Committed(a)], Size <- AreaSize
MemorySpec == AreaMemory!Spec

\* Every job ends: slices, lists and the sequences of upload and download come
\* to an end as long as the server or the PLC answers.
JobEnds == result = "pending" ~> result # "pending"
=============================================================================
