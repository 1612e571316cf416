------------------------- MODULE SessionTypeProofs -------------------------
(***************************************************************************)
(* The shapes of what a client, the workers of a server, its areas and its *)
(* application hand to each other, for any number of connections, areas,   *)
(* jobs, requests and updates.  SessionInv is inductive and implies        *)
(* TypeOK; BaseInv adds the job in hand, its loop over slices and that     *)
(* bytes lie at the places they were meant for.  The other invariants of   *)
(* S7Session rest on one or the other, and on the lemmas about what each   *)
(* step does to the memory, to requests and to answers.                    *)
(***************************************************************************)
EXTENDS S7Session, FiniteSetTheorems, SequenceTheorems, TLAPS

\* What the client takes from an answer.  Only refusals are plain responses.
AnswerOK(a) ==
  /\ a.fun = "negotiate" => a.length \in MinPduSize..IsoPayload_Size
  /\ a.fun = "blkinfo" => a.mc7 \in Nat
  /\ a.fun = "upload" /\ a.error = "ok" => a.mc7 \in Nat
  /\ a.fun = "response" => a.error # "ok"

\* The worker of c is between two items of a request, or inside one.
InRequest(c) == worker[c].place \in {"find", "copy", "store"}

\* An item lies inside the memory the application has registered.
InArea(it) == it.area \in Areas /\ StartByte(it) + SizeOfItem(it) <= AreaSize[it.area]

\* A worker has its request, the replies so far and, between load and store of a
\* bit, the byte it has loaded.
WorkerOK(w) ==
  /\ w.place \in {"idle", "closed", "control", "find", "copy", "store"}
  /\ w.place \in {"find", "copy", "store"} =>
       /\ {"place", "fun", "reply", "remainder", "items"} \subseteq DOMAIN w
       /\ w.fun \in {"read", "write"} /\ IsSeq(w.items) /\ w.items # <<>> /\ \A k \in DOMAIN w.items : IsItem(w.fun, w.items[k])
       /\ IsSeq(w.reply) /\ Len(w.reply) < Len(w.items)
  /\ w.place \in {"copy", "store"} => InArea(w.items[Len(w.reply) + 1])
  /\ w.place = "store" => /\ w.fun = "write" /\ w.items[Len(w.reply) + 1].wl = "Bit" /\ IsByte(w.byte)

\* Areas keep their bytes; what is registered of them is not more than they have.
AreaTypes ==
  /\ DOMAIN mem = Areas
  /\ \A a \in Areas : /\ mem[a] = [i \in 0..AreaSize[a] - 1 |-> mem[a][i]]
                      /\ \A i \in DOMAIN mem[a] : IsByte(mem[a][i])
  /\ size \in [Areas -> Nat] /\ \A a \in Areas : size[a] <= AreaSize[a]
  /\ HA \subseteq SysAreas

\* The application has the lock of an area exactly while it updates it.
AppTypes ==
  /\ app.place \in {"idle", "count", "limit", "uncount", "update"} /\ "place" \in DOMAIN app
  /\ app.place = "update" => /\ app = [place |-> "update", area |-> app.area, left |-> app.left]
                             /\ app.area \in Areas /\ app.left \subseteq Shared
  /\ lock = [a \in Areas |-> IF app.place = "update" /\ app.area = a THEN "app" ELSE "none"]
  /\ updates \in Nat /\ appOps \in Nat /\ updates + appOps <= MaxAppOps

\* What a client can wait for.
Waits == {"connect", "negotiate", "read", "write", "readmulti", "writemulti", "listall", "listbot", "blkinfo",
          "startupload", "upload", "endupload", "reqdownload", "serve", "ended", "insert", "inserted",
          "control", "szl", "simple"}

\* The loop variables of opReadArea and opWriteArea, and what a job in slices needs.
ClientTypes ==
  /\ run \in Waits \cup {"idle", "off"}
  /\ left \in Nat /\ start \in Nat /\ jobs \in 0..MaxJobs
  /\ PDULength \in MinPduSize..IsoPayload_Size
  /\ run \in {"read", "write"} => DataSizeByte(job.wl) # 0 /\ job.start \in Nat
  /\ run = "write" /\ job.wl = "Bit" => job.area \in BitAreas /\ left = 1
  /\ run = "blkinfo" /\ job.op = "dbget" => job.amount \in Int

\* Requests of a client that waits for f, and the answers it then may get.
AskedBy(f) ==
  CASE f \in {"read", "readmulti"} -> {"read"}
    [] f \in {"write", "writemulti"} -> {"write"}
    [] f = "control" -> {"start", "stop"}
    [] f = "simple" -> {"getclock", "setclock", "password"}
    [] f \in {"serve", "ended"} -> {"downloaded"}
    [] f = "insert" -> {"ended"}
    [] f = "inserted" -> {"start"}
    [] OTHER -> {f}
AnsweredBy(f) ==
  CASE f = "connect" -> {"confirm"}
    [] f \in {"startupload", "upload", "endupload", "reqdownload"} -> {f, "response"}
    [] f \in {"serve", "ended"} -> {"download", "downloadended", "other"}
    [] OTHER -> AskedBy(f)

\* A client has one request at most under way: waiting, in the worker, or answered.
Paired ==
  /\ run = "idle" => request[Me] = Nothing /\ answer[Me] = Nothing /\ ~InRequest(Me)
  /\ run \in Waits =>
       /\ request[Me] = Nothing \/ (request[Me].fun \in AskedBy(run) /\ answer[Me] = Nothing /\ ~InRequest(Me))
       /\ answer[Me] = Nothing \/ (answer[Me].fun \in AnsweredBy(run) /\ ~InRequest(Me))
       /\ InRequest(Me) => worker[Me].fun \in AskedBy(run)
  /\ request[Me].fun = "negotiate" => request[Me].length = PDURequest

\* Requests and answers.
PduTypes ==
  /\ DOMAIN request = Conns /\ DOMAIN answer = Conns
  /\ \A c \in Conns : IsRequest(request[c]) /\ AnswerOK(answer[c])

\* Workers and the PDU lengths they have agreed to.
WorkerTypes ==
  /\ DOMAIN worker = Conns /\ \A c \in Conns : WorkerOK(worker[c])
  /\ FPDULength \in [Conns -> MinPduSize..IsoPayload_Size]
  /\ ForcePDU \in {0} \cup MinPduSize..IsoPayload_Size

SessionInv == PduTypes /\ WorkerTypes /\ AreaTypes /\ AppTypes /\ ClientTypes /\ Paired

\* Sequences of anything.
LEMMA SeqFacts ==
  ASSUME NEW s, IsSeq(s)
  PROVE  Len(s) \in Nat /\ DOMAIN s = 1..Len(s) /\ (s # <<>> => Len(s) > 0)
BY EmptySeq DEF IsSeq

\* Appending to a sequence of anything.
LEMMA SeqAppend ==
  ASSUME NEW s, NEW r, IsSeq(s)
  PROVE  /\ IsSeq(Append(s, r)) /\ Len(Append(s, r)) = Len(s) + 1
         /\ \A i \in 1..Len(s) : Append(s, r)[i] = s[i]
         /\ Append(s, r)[Len(s) + 1] = r
<1> DEFINE S == {s[i] : i \in DOMAIN s} \cup {r}
           t == Append(s, r)
<1>1. s \in Seq(S)
  BY SeqFacts DEF IsSeq
<1>2. /\ t \in Seq(S) /\ Len(t) = Len(s) + 1
      /\ \A i \in 1..Len(s) : t[i] = s[i]
      /\ t[Len(s) + 1] = r
  BY <1>1, AppendProperties
<1>3. t \in Seq({t[i] : i \in DOMAIN t})
  BY <1>2
<1>4. QED
  BY <1>2, <1>3 DEF IsSeq

\* A function on 1..n is a sequence of n elements.
LEMMA SeqFunction ==
  ASSUME NEW n \in Nat, NEW t, t = [k \in 1..n |-> t[k]]
  PROVE  IsSeq(t) /\ Len(t) = n /\ (n > 0 => t # <<>>)
<1>1. t \in [1..n -> {t[i] : i \in DOMAIN t}]
  OBVIOUS
<1>2. t \in Seq({t[i] : i \in DOMAIN t})
  BY <1>1
<1>3. Len(t) = n
  BY <1>1, <1>2
<1>4. n > 0 => t # <<>>
  BY <1>1
<1>5. QED
  BY <1>2, <1>3, <1>4 DEF IsSeq

\* The first n elements of a sequence.
LEMMA SeqFront ==
  ASSUME NEW s, IsSeq(s), s # <<>>, NEW n \in Nat \ {0}, n <= Len(s)
  PROVE  /\ IsSeq(SubSeq(s, 1, n)) /\ SubSeq(s, 1, n) # <<>> /\ DOMAIN SubSeq(s, 1, n) = 1..n
         /\ \A k \in 1..n : k \in DOMAIN s /\ SubSeq(s, 1, n)[k] = s[k]
<1> DEFINE t == SubSeq(s, 1, n)
<1>1. s \in Seq({s[i] : i \in DOMAIN s}) /\ Len(s) \in Nat /\ DOMAIN s = 1..Len(s)
  BY SeqFacts DEF IsSeq
<1>2. t = [k \in 1..n |-> s[k]]
  BY <1>1
<1>3. t = [k \in 1..n |-> t[k]]
  BY <1>2
<1>4. IsSeq(t) /\ Len(t) = n /\ t # <<>>
  BY <1>3, SeqFunction
<1>5. QED
  BY <1>1, <1>2, <1>4

-----------------------------------------------------------------------------
\* Elements, slices and items.
LEMMA ElementBytes == \A wl : DataSizeByte(wl) \in {0, 1, 2, 4} /\ (wl = "Bit" => DataSizeByte(wl) = 1)
BY DEF DataSizeByte

\* What the assumptions of the modules say of headers, bounds and lengths.
LEMMA SessionConstants ==
  /\ {ReqHead, ItemHead, ResHead, DataHead, ListHead, SliceHead, MaxJobs, MaxAppOps} \subseteq Nat
  /\ {MinPduSize, IsoPayload_Size} \subseteq Nat /\ MinPduSize <= IsoPayload_Size
  /\ ReadHead \in Nat /\ WriteHead \in Nat /\ MinPduSize >= ReadHead /\ MinPduSize > WriteHead
  /\ MinPduSize >= SliceHead
<1>1. {ReqHead, ItemHead, ResHead, DataHead, ListHead} \subseteq Nat
  BY S7PduAssumption
<1>2. SliceHead \in Nat /\ MaxJobs \in Nat
  BY MicroClientAssumption
<1>3. MaxAppOps \in Nat /\ MinPduSize \in Nat /\ IsoPayload_Size \in Nat /\ DefaultPdu \in MinPduSize..IsoPayload_Size
  BY S7ServerAssumption
<1>4. MinPduSize >= ReadHead /\ MinPduSize > WriteHead /\ MinPduSize >= SliceHead
  BY S7SessionAssumption
<1>5. QED
  BY <1>1, <1>2, <1>3, <1>4 DEF ReadHead, WriteHead

\* Once a PDU length is agreed on, opReadArea and opWriteArea have room for data in
\* a PDU, and opWriteArea for a bit.
LEMMA RoomNat ==
  ASSUME NEW j, DataSizeByte(j.wl) # 0, ClientTypes, run \notin {"off", "connect", "negotiate"}
  PROVE  /\ RoomToRead(j) \in Nat /\ RoomToWrite(j) \in Nat
         /\ j.wl = "Bit" => RoomToWrite(j) >= 1
<1> DEFINE d == DataSizeByte(j.wl)
<1>1. d \in {1, 2, 4} /\ (j.wl = "Bit" => d = 1)
  BY ElementBytes
<1>2. PDULength - ReadHead \in Nat /\ PDULength - WriteHead \in Nat /\ PDULength - WriteHead >= 1
  BY SessionConstants DEF ClientTypes
<1>3. (PDULength - ReadHead) \div d \in Nat /\ (PDULength - WriteHead) \div d \in Nat
  BY <1>1, <1>2
<1>4. d = 1 => (PDULength - WriteHead) \div d >= 1
  BY <1>2
<1>5. QED
  BY <1>1, <1>3, <1>4 DEF RoomToRead, RoomToWrite

\* The number of elements in a slice is never negative; of a bit there is one slice.
LEMMA SliceElements ==
  ASSUME NEW n \in Nat, NEW room \in Nat
  PROVE  /\ NumElements(n, room) \in Nat
         /\ n = 1 /\ room >= 1 => NumElements(n, room) = 1
<1>1. WordMod \in Nat /\ WordMod > 1
  BY MicroClientAssumption
<1>2. n % WordMod \in Nat
  BY <1>1
<1>3. 1 % WordMod = 1
  BY <1>1
<1>4. QED
  BY <1>2, <1>3 DEF NumElements, Least

\* What opReadArea asks for is an item of a read request.
LEMMA ReferenceItem ==
  ASSUME NEW j, NEW at \in Nat, NEW n \in Int
  PROVE  IsItem("read", Reference(j, at, n))
<1>1. Address(j.wl, at) \in Nat
  BY DEF Address
<1>2. QED
  BY <1>1 DEF IsItem, Reference

\* What opWriteArea sends is an item of a write request: its data is as long as its
\* length says and comes from one job.
LEMMA DataItem ==
  ASSUME NEW j, NEW id \in 0..MaxJobs, NEW k, NEW n \in Int, j.start + k \in Nat,
         j.wl = "Bit" => j.area \in BitAreas /\ n >= 1
  PROVE  IsItem("write", Data(j, id, k, n))
<1> DEFINE r == Reference(j, j.start + k, n)
           it == Data(j, id, k, n)
           bytes == n * DataSizeByte(j.wl)
           data == Buffer(j, id, k, bytes)
<1>1. it = [r EXCEPT !.ts = TransportSize(j.wl), !.dlen = DataLength(TransportSize(j.wl), bytes), !.data = data]
  BY DEF Data
<1>2. /\ DOMAIN r = {"area", "wl", "address", "length", "ts", "dlen", "data"}
      /\ r.area = j.area /\ r.wl = j.wl /\ r.address = Address(j.wl, j.start + k) /\ r.length = n
  BY DEF Reference
<1> HIDE DEF r, data
<1>3. /\ DOMAIN it = {"area", "wl", "address", "length", "ts", "dlen", "data"}
      /\ it.area = j.area /\ it.wl = j.wl /\ it.address = Address(j.wl, j.start + k) /\ it.length = n
      /\ it.data = data
  BY <1>1, <1>2
<1> HIDE DEF it
<1>4. it.address \in Nat
  BY <1>3 DEF Address
<1>5. bytes = SizeOfItem(it)
  BY <1>3, ElementBytes DEF SizeOfItem
<1>6. OneWriter(data)
  <2>1. "client" \in Writers /\ id \in Numbers
    BY SessionConstants DEF Writers, Numbers
  <2>2. \A i \in DOMAIN data : IsByte(data[i]) /\ data[i].by = "client" /\ data[i].n = id
    BY DEF Buffer, IsByte, data
  <2>3. QED
    BY <2>1, <2>2 DEF OneWriter
<1>7. DOMAIN data = 1..bytes
  BY DEF Buffer, data
<1>8. QED
  BY <1>3, <1>4, <1>5, <1>6, <1>7 DEF IsItem, it

\* Items of a read or a write make a request.
LEMMA ItemsRequest ==
  ASSUME NEW f \in {"read", "write"}, NEW n \in Nat \ {0}, NEW items, items = [k \in 1..n |-> items[k]],
         \A k \in 1..n : IsItem(f, items[k])
  PROVE  IsRequest([fun |-> f, items |-> items])
<1>1. IsSeq(items) /\ items # <<>> /\ DOMAIN items = 1..n
  BY SeqFunction
<1>2. QED
  BY <1>1 DEF IsRequest

\* One item makes a request: the slices of opReadArea and opWriteArea have one.
LEMMA OneItemRequest ==
  ASSUME NEW f \in {"read", "write"}, NEW it, IsItem(f, it)
  PROVE  IsRequest([fun |-> f, items |-> <<it>>])
<1> DEFINE items == <<it>>
<1>1. items \in Seq({it}) /\ DOMAIN items = 1..1 /\ items[1] = it /\ items # <<>>
  OBVIOUS
<1> HIDE DEF items
<1>2. {items[k] : k \in DOMAIN items} = {it}
  BY <1>1
<1>3. IsSeq(items) /\ \A k \in DOMAIN items : IsItem(f, items[k])
  BY <1>1, <1>2 DEF IsSeq
<1>4. IsRequest([fun |-> f, items |-> items])
  BY <1>1, <1>3 DEF IsRequest
<1>5. QED
  BY <1>4 DEF items

-----------------------------------------------------------------------------
(* The client.                                                             *)

SentBy(f, r) ==
  /\ r.fun \in AskedBy(f) /\ IsRequest(r)
  /\ r.fun = "negotiate" => r.length = PDURequest

\* No operation that waits has asked for nothing or is answered by nothing.
LEMMA AskedFuns == \A f \in Waits : "none" \notin AskedBy(f) /\ "none" \notin AnsweredBy(f)
BY DEF Waits, AskedBy, AnsweredBy

\* The client asks.
LEMMA AskKeeps ==
  ASSUME SessionInv, UNCHANGED serverVars, NEW f \in Waits, NEW r, Ask(f, r), SentBy(f, r),
         ~InRequest(Me), ClientTypes'
  PROVE  SessionInv'
<1> USE DEF SessionInv
<1>1. Me \in Conns
  BY MicroClientAssumption
<1>2. /\ run' = f /\ request' = [request EXCEPT ![Me] = r] /\ answer' = [answer EXCEPT ![Me] = Nothing]
      /\ request'[Me] = r /\ answer'[Me] = Nothing
  BY <1>1 DEF Ask, PduTypes
<1>3. PduTypes'
  <2>1. AnswerOK(Nothing)
    BY DEF AnswerOK, Nothing
  <2>2. QED
    BY <1>2, <2>1 DEF PduTypes, SentBy
<1>4. WorkerTypes' /\ AreaTypes' /\ AppTypes'
  BY DEF WorkerTypes, AreaTypes, AppTypes, serverVars, tableVars, workerVars, appVars, InRequest
<1>5. InRequest(Me)' = InRequest(Me)
  BY DEF InRequest, serverVars, workerVars
<1>6. Paired'
  <2>1. f \notin {"idle", "off"}
    BY DEF Waits
  <2>2. QED
    BY <1>2, <1>5, <2>1 DEF Paired, SentBy
<1>7. QED
  BY <1>3, <1>4, <1>6

\* The client has its answer and asks no more.
LEMMA RestKeeps ==
  ASSUME SessionInv, UNCHANGED serverVars, run' \in {"idle", "serve"}, UNCHANGED request,
         answer' = [answer EXCEPT ![Me] = Nothing], request[Me] = Nothing, ~InRequest(Me), ClientTypes'
  PROVE  SessionInv'
<1> USE DEF SessionInv
<1>1. Me \in Conns
  BY MicroClientAssumption
<1>2. answer'[Me] = Nothing
  BY <1>1 DEF PduTypes
<1>3. PduTypes'
  <2>1. AnswerOK(Nothing)
    BY DEF AnswerOK, Nothing
  <2>2. QED
    BY <2>1 DEF PduTypes
<1>4. WorkerTypes' /\ AreaTypes' /\ AppTypes'
  BY DEF WorkerTypes, AreaTypes, AppTypes, serverVars, tableVars, workerVars, appVars, InRequest
<1>5. InRequest(Me)' = InRequest(Me)
  BY DEF InRequest, serverVars, workerVars
<1>6. Paired'
  BY <1>2, <1>5 DEF Paired, Nothing
<1>7. QED
  BY <1>3, <1>4, <1>6

\* An answer is there: nothing else is under way.
LEMMA AnsweredAlone ==
  ASSUME SessionInv, NEW f \in Waits, Answered(f)
  PROVE  /\ run = f /\ answer[Me].fun \in AnsweredBy(f) /\ AnswerOK(answer[Me])
         /\ request[Me] = Nothing /\ ~InRequest(Me)
BY MicroClientAssumption DEF SessionInv, Answered, Paired, PduTypes

\* A client that performs no job has no request at the server (isoExchangeBuffer
\* returns only after the answer).
LEMMA IdleAlone ==
  ASSUME SessionInv, run = "idle"
  PROVE  request[Me] = Nothing /\ ~InRequest(Me)
BY DEF SessionInv, Paired

\* Exchanges that have no loop variables to speak of.
Plain == Waits \ {"connect", "negotiate", "read", "write", "blkinfo"}

\* Operations without slices of elements in hand leave the client's types alone.
LEMMA PlainTypes ==
  ASSUME ClientTypes, run \in (Plain \cup {"idle", "read", "write", "blkinfo"}), run' \in Plain \cup {"idle"},
         left' \in Nat, start' \in Nat, jobs' \in 0..MaxJobs, PDULength' = PDULength
  PROVE  ClientTypes'
BY DEF ClientTypes, Plain, Waits

\* A client that asks for something else than a slice keeps the invariant.
LEMMA PlainAsk ==
  ASSUME SessionInv, UNCHANGED serverVars, run \in (Plain \cup {"idle", "read", "write", "blkinfo"}),
         request[Me] = Nothing, ~InRequest(Me),
         NEW f \in Plain, NEW r, Ask(f, r), SentBy(f, r),
         left' \in Nat, start' \in Nat, jobs' \in 0..MaxJobs, PDULength' = PDULength
  PROVE  SessionInv'
<1>1. run' = f /\ f \in Waits
  BY DEF Ask, Plain
<1>2. ClientTypes'
  BY <1>1, PlainTypes DEF SessionInv
<1>3. QED
  BY <1>1, <1>2, AskKeeps

\* A client that ends its job keeps the invariant.
LEMMA PlainReturn ==
  ASSUME SessionInv, UNCHANGED serverVars, run \in (Plain \cup {"idle", "read", "write", "blkinfo"}),
         request[Me] = Nothing, ~InRequest(Me),
         NEW res, Returns(res),
         left' \in Nat, start' \in Nat, jobs' \in 0..MaxJobs, PDULength' = PDULength
  PROVE  SessionInv'
<1>1. run' = "idle" /\ UNCHANGED request /\ answer' = [answer EXCEPT ![Me] = Nothing]
  BY DEF Returns
<1>2. ClientTypes'
  BY <1>1, PlainTypes DEF SessionInv
<1>3. QED
  BY <1>1, <1>2, RestKeeps

\* The next slice of opReadArea keeps the invariant.
LEMMA ReadSliceKeeps ==
  ASSUME SessionInv, UNCHANGED serverVars, run \notin {"off", "connect", "negotiate"},
         request[Me] = Nothing, ~InRequest(Me),
         NEW j, NEW at \in Nat, NEW n \in Nat, ReadSlice(j, at, n), job' = j,
         DataSizeByte(j.wl) # 0, j.start \in Nat, jobs' \in 0..MaxJobs, PDULength' = PDULength
  PROVE  SessionInv'
<1> DEFINE m == NumElements(n, RoomToRead(j))
           it == Reference(j, at, m)
           r == [fun |-> "read", items |-> <<it>>]
<1>1. RoomToRead(j) \in Nat
  BY RoomNat DEF SessionInv
<1>2. m \in Nat
  BY <1>1, SliceElements
<1>3. IsItem("read", it)
  <2> HIDE DEF m
  <2>1. m \in Int
    BY <1>2
  <2>2. QED
    BY <2>1, ReferenceItem
<1>4. Ask("read", r) /\ left' = n /\ start' = at
  BY DEF ReadSlice
<1> HIDE DEF it
<1>5. IsRequest(r)
  BY <1>3, OneItemRequest
<1>6. r.fun = "read"
  OBVIOUS
<1> HIDE DEF r
<1>7. "read" \in Waits /\ SentBy("read", r)
  BY <1>5, <1>6 DEF Waits, SentBy, AskedBy
<1>8. run' = "read"
  BY <1>4 DEF Ask
<1>9. ClientTypes'
  BY <1>4, <1>7, <1>8 DEF SessionInv, ClientTypes
<1>10. QED
  BY <1>4, <1>7, <1>9, AskKeeps

\* The next slice of opWriteArea keeps the invariant.
LEMMA WriteSliceKeeps ==
  ASSUME SessionInv, UNCHANGED serverVars, run \notin {"off", "connect", "negotiate"},
         request[Me] = Nothing, ~InRequest(Me),
         NEW j, NEW id \in 0..MaxJobs, NEW at \in Nat, NEW n \in Nat, WriteSlice(j, id, at, n), job' = j,
         DataSizeByte(j.wl) # 0, j.start \in Nat, j.wl = "Bit" => j.area \in BitAreas /\ n = 1,
         jobs' \in 0..MaxJobs, PDULength' = PDULength
  PROVE  SessionInv'
<1> DEFINE m == NumElements(n, RoomToWrite(j))
           k == at - j.start
           it == Data(j, id, k, m)
           r == [fun |-> "write", items |-> <<it>>]
<1>1. RoomToWrite(j) \in Nat /\ (j.wl = "Bit" => RoomToWrite(j) >= 1)
  BY RoomNat DEF SessionInv
<1>2. m \in Nat /\ (j.wl = "Bit" => m = 1)
  BY <1>1, SliceElements
<1>3. IsItem("write", it)
  <2> HIDE DEF m
  <2>1. m \in Int /\ (j.wl = "Bit" => j.area \in BitAreas /\ m >= 1)
    BY <1>2
  <2>2. j.start + k \in Nat
    OBVIOUS
  <2> HIDE DEF k
  <2>3. QED
    BY <2>1, <2>2, DataItem
<1>4. Ask("write", r) /\ left' = n /\ start' = at
  BY DEF WriteSlice
<1> HIDE DEF it
<1>5. IsRequest(r)
  BY <1>3, OneItemRequest
<1>6. r.fun = "write"
  OBVIOUS
<1> HIDE DEF r
<1>7. "write" \in Waits /\ SentBy("write", r)
  BY <1>5, <1>6 DEF Waits, SentBy, AskedBy
<1>8. run' = "write"
  BY <1>4 DEF Ask
<1>9. ClientTypes'
  BY <1>4, <1>7, <1>8 DEF SessionInv, ClientTypes
<1>10. QED
  BY <1>4, <1>7, <1>9, AskKeeps

\* The elements of an area job whose parameters are good.
LEMMA GoodParams ==
  ASSUME NEW j, BadParams(j) = "ok", j.start \in Int, j.amount \in Int
  PROVE  /\ DataSizeByte(j.wl) # 0 /\ j.start \in Nat /\ j.amount \in Nat \ {0}
         /\ j.wl = "Bit" => j.amount = 1
BY DEF BadParams

\* A job begins in an idle client that has asked for nothing (SetPending).
LEMMA JobBegins ==
  ASSUME SessionInv, NEW j \in Jobs, NEW ops, Begins(j, ops)
  PROVE  /\ run = "idle" /\ j.op \in ops /\ IsJob(j)
         /\ jobs' = jobs + 1 /\ jobs' \in 0..MaxJobs /\ PDULength' = PDULength
         /\ request[Me] = Nothing /\ ~InRequest(Me)
<1>1. jobs \in 0..MaxJobs /\ jobs < MaxJobs /\ jobs' = jobs + 1
  BY DEF Begins, SessionInv, ClientTypes
<1>2. jobs' \in 0..MaxJobs
  BY <1>1, SessionConstants
<1>3. QED
  BY <1>1, <1>2, IdleAlone, MicroClientAssumption DEF Begins

\* Jobs that ask one thing which needs no loop variables.
LEMMA SubmitAsks ==
  ASSUME SessionInv, UNCHANGED serverVars, NEW j \in Jobs, NEW ops, Begins(j, ops),
         left' \in Nat, start' \in Nat,
         \/ \E f \in Plain : \E r : Ask(f, r) /\ SentBy(f, r)
         \/ \E res : Returns(res)
  PROVE  SessionInv'
<1>1. /\ run = "idle" /\ request[Me] = Nothing /\ ~InRequest(Me)
      /\ jobs' \in 0..MaxJobs /\ PDULength' = PDULength
  BY JobBegins
<1>2. CASE \E f \in Plain : \E r : Ask(f, r) /\ SentBy(f, r)
  BY <1>1, <1>2, PlainAsk
<1>3. CASE \E res : Returns(res)
  BY <1>1, <1>3, PlainReturn
<1>4. QED
  BY <1>2, <1>3

\* opReadArea keeps the invariant, whichever of its checks fails.
LEMMA ReadAreaKeeps == SessionInv /\ UNCHANGED serverVars /\ opReadArea => SessionInv'
<1> SUFFICES ASSUME SessionInv, UNCHANGED serverVars, opReadArea PROVE SessionInv'
  OBVIOUS
<1>1. PICK j \in Jobs : /\ Begins(j, {"read"}) /\ job' = j
                        /\ IF BadParams(j) = "ok"
                             THEN ReadSlice(j, j.start, j.amount)
                             ELSE Returns(BadParams(j)) /\ UNCHANGED <<left, start>>
  BY DEF opReadArea
<1>2. /\ run = "idle" /\ request[Me] = Nothing /\ ~InRequest(Me) /\ j.op = "read" /\ IsJob(j)
      /\ jobs' \in 0..MaxJobs /\ PDULength' = PDULength
  BY <1>1, JobBegins
<1>3. j.start \in Int /\ j.amount \in Int
  BY <1>2 DEF IsJob
<1>4. CASE BadParams(j) = "ok"
  BY <1>1, <1>2, <1>3, <1>4, GoodParams, ReadSliceKeeps
<1>5. CASE BadParams(j) # "ok"
  <2>1. left' \in Nat /\ start' \in Nat
    BY <1>1, <1>5 DEF SessionInv, ClientTypes
  <2>2. QED
    BY <1>1, <1>2, <1>5, <2>1, PlainReturn
<1>6. QED
  BY <1>4, <1>5

\* opWriteArea keeps the invariant, whichever of its checks fails.
LEMMA WriteAreaKeeps == SessionInv /\ UNCHANGED serverVars /\ opWriteArea => SessionInv'
<1> SUFFICES ASSUME SessionInv, UNCHANGED serverVars, opWriteArea PROVE SessionInv'
  OBVIOUS
<1>1. PICK j \in Jobs : /\ Begins(j, {"write"}) /\ job' = j
                        /\ IF BadParams(j) = "ok"
                             THEN WriteSlice(j, jobs + 1, j.start, j.amount)
                             ELSE Returns(BadParams(j)) /\ UNCHANGED <<left, start>>
  BY DEF opWriteArea
<1>2. /\ run = "idle" /\ request[Me] = Nothing /\ ~InRequest(Me) /\ j.op = "write" /\ IsJob(j)
      /\ jobs' = jobs + 1 /\ jobs' \in 0..MaxJobs /\ PDULength' = PDULength
  BY <1>1, JobBegins
<1>3. j.start \in Int /\ j.amount \in Int
  BY <1>2 DEF IsJob
<1>4. j.wl = "Bit" => j.area \in BitAreas
  BY <1>2, S7SessionAssumption
<1>5. CASE BadParams(j) = "ok"
  <2>1. /\ DataSizeByte(j.wl) # 0 /\ j.start \in Nat /\ j.amount \in Nat
        /\ j.wl = "Bit" => j.area \in BitAreas /\ j.amount = 1
    BY <1>3, <1>4, <1>5, GoodParams
  <2>2. jobs + 1 \in 0..MaxJobs
    BY <1>2
  <2>3. WriteSlice(j, jobs + 1, j.start, j.amount) /\ job' = j
    BY <1>1, <1>5
  <2> DEFINE id == jobs + 1
  <2> HIDE DEF id
  <2>4. WriteSlice(j, id, j.start, j.amount) /\ id \in 0..MaxJobs
    BY <2>2, <2>3 DEF id
  <2>5. QED
    BY <1>2, <2>1, <2>3, <2>4, WriteSliceKeeps
<1>6. CASE BadParams(j) # "ok"
  <2>1. left' \in Nat /\ start' \in Nat
    BY <1>1, <1>6 DEF SessionInv, ClientTypes
  <2>2. QED
    BY <1>1, <1>2, <1>6, <2>1, PlainReturn
<1>7. QED
  BY <1>5, <1>6

\* The answer to a slice that was read keeps the invariant: what is left goes down.
LEMMA ReadSliceDoneKeeps == SessionInv /\ UNCHANGED serverVars /\ ReadSliceDone => SessionInv'
<1> SUFFICES ASSUME SessionInv, UNCHANGED serverVars, ReadSliceDone PROVE SessionInv'
  OBVIOUS
<1> DEFINE n == NumElements(left, RoomToRead(job))
           at == start + Advance(job, n)
           more == left - n
<1>1. run = "read" /\ request[Me] = Nothing /\ ~InRequest(Me)
  BY AnsweredAlone DEF ReadSliceDone, Waits
<1>2. /\ left \in Nat /\ start \in Nat /\ jobs' \in 0..MaxJobs /\ PDULength' = PDULength /\ job' = job
      /\ DataSizeByte(job.wl) # 0 /\ job.start \in Nat
  BY <1>1 DEF SessionInv, ClientTypes, ReadSliceDone
<1>3. \/ more > 0 /\ ReadSlice(job, at, more)
      \/ (\E res : Returns(res)) /\ UNCHANGED <<left, start>>
  BY DEF ReadSliceDone
<1>4. CASE more > 0 /\ ReadSlice(job, at, more)
  <2>1. n \in Nat /\ DataSizeByte(job.wl) \in {1, 2, 4}
    <3>1. RoomToRead(job) \in Nat
      BY <1>1, <1>2, RoomNat DEF SessionInv
    <3>2. QED
      BY <1>2, <3>1, SliceElements, ElementBytes
  <2>2. at \in Nat /\ more \in Nat
    BY <1>2, <1>4, <2>1 DEF Advance
  <2> HIDE DEF at, more
  <2>3. QED
    BY <1>1, <1>2, <1>4, <2>2, ReadSliceKeeps
<1>5. CASE (\E res : Returns(res)) /\ UNCHANGED <<left, start>>
  BY <1>1, <1>2, <1>5, PlainReturn
<1>6. QED
  BY <1>3, <1>4, <1>5

\* The answer to a slice that was written keeps the invariant.
LEMMA WriteSliceDoneKeeps == SessionInv /\ UNCHANGED serverVars /\ WriteSliceDone => SessionInv'
<1> SUFFICES ASSUME SessionInv, UNCHANGED serverVars, WriteSliceDone PROVE SessionInv'
  OBVIOUS
<1> DEFINE n == NumElements(left, RoomToWrite(job))
           at == start + Advance(job, n)
           more == left - n
<1>1. run = "write" /\ request[Me] = Nothing /\ ~InRequest(Me)
  BY AnsweredAlone DEF WriteSliceDone, Waits
<1>2. /\ left \in Nat /\ start \in Nat /\ jobs \in 0..MaxJobs /\ jobs' = jobs /\ PDULength' = PDULength /\ job' = job
      /\ DataSizeByte(job.wl) # 0 /\ job.start \in Nat
      /\ job.wl = "Bit" => left = 1
  BY <1>1 DEF SessionInv, ClientTypes, WriteSliceDone
<1>3. \/ more > 0 /\ WriteSlice(job, jobs, at, more)
      \/ (\E res : Returns(res)) /\ UNCHANGED <<left, start>>
  BY DEF WriteSliceDone
<1>4. CASE more > 0 /\ WriteSlice(job, jobs, at, more)
  <2>1. n \in Nat /\ DataSizeByte(job.wl) \in {1, 2, 4} /\ (job.wl = "Bit" => n = 1)
    <3>1. RoomToWrite(job) \in Nat /\ (job.wl = "Bit" => RoomToWrite(job) >= 1)
      BY <1>1, <1>2, RoomNat DEF SessionInv
    <3>2. QED
      BY <1>2, <3>1, SliceElements, ElementBytes
  <2>2. at \in Nat /\ more \in Nat /\ job.wl # "Bit"
    BY <1>2, <1>4, <2>1 DEF Advance
  <2> HIDE DEF at, more
  <2>3. QED
    BY <1>1, <1>2, <1>4, <2>2, WriteSliceKeeps
<1>5. CASE (\E res : Returns(res)) /\ UNCHANGED <<left, start>>
  BY <1>1, <1>2, <1>5, PlainReturn
<1>6. QED
  BY <1>3, <1>4, <1>5

\* The parts of a job with several items.
LEMMA Parts ==
  ASSUME NEW j, IsJob(j), j.op \in {"readmulti", "writemulti"}
  PROVE  /\ Len(j.items) \in Nat \ {0} /\ DOMAIN j.items = 1..Len(j.items)
         /\ \A k \in DOMAIN j.items :
              LET it == Adjusted(j.items[k])
              IN /\ it.start \in Nat /\ it.amount \in Nat \ {0} /\ it.area = j.items[k].area
                 /\ it.wl = "Bit" => j.items[k].wl = "Bit"
<1> DEFINE S == {it \in {j.items[k] : k \in DOMAIN j.items} : IsPart(it)}
<1>1. j.items # <<>> /\ j.items \in Seq(S)
  BY DEF IsJob
<1>2. Len(j.items) \in Nat /\ DOMAIN j.items = 1..Len(j.items) /\ \A k \in DOMAIN j.items : j.items[k] \in S
  BY <1>1
<1>3. Len(j.items) # 0
  BY <1>1, EmptySeq
<1>4. ASSUME NEW k \in DOMAIN j.items
      PROVE  LET it == Adjusted(j.items[k])
             IN /\ it.start \in Nat /\ it.amount \in Nat \ {0} /\ it.area = j.items[k].area
                /\ it.wl = "Bit" => j.items[k].wl = "Bit"
  <2>1. IsPart(j.items[k])
    BY <1>2, <1>4
  <2>2. QED
    BY <2>1 DEF IsPart, Adjusted
<1>5. QED
  BY <1>2, <1>3, <1>4

\* opReadMultiVars keeps the invariant.
LEMMA ReadMultiKeeps == SessionInv /\ UNCHANGED serverVars /\ opReadMultiVars => SessionInv'
<1> SUFFICES ASSUME SessionInv, UNCHANGED serverVars, opReadMultiVars PROVE SessionInv'
  OBVIOUS
<1> DEFINE R(j, k) == LET it == Adjusted(j.items[k]) IN Reference(it, it.start, it.amount)
<1>1. PICK j \in Jobs : /\ Begins(j, {"readmulti"}) /\ job' = j
                        /\ AskItems(j, "readmulti", [fun |-> "read", items |-> [k \in DOMAIN j.items |-> R(j, k)]])
                        /\ UNCHANGED loopVars
  BY DEF opReadMultiVars, ReadItem
<1> DEFINE items == [k \in DOMAIN j.items |-> R(j, k)]
           n == Len(j.items)
           r == [fun |-> "read", items |-> items]
<1>2. j.op = "readmulti" /\ IsJob(j)
  BY <1>1, JobBegins
<1>3. n \in Nat \ {0} /\ DOMAIN j.items = 1..n
  BY <1>2, Parts
<1>4. ASSUME NEW k \in 1..n PROVE IsItem("read", items[k])
  <2> DEFINE it == Adjusted(j.items[k])
  <2>1. it.start \in Nat /\ it.amount \in Int
    BY <1>2, <1>3, <1>4, Parts
  <2>2. items[k] = Reference(it, it.start, it.amount)
    BY <1>3, <1>4
  <2> HIDE DEF it
  <2>3. QED
    BY <2>1, <2>2, ReferenceItem
<1>5. AskItems(j, "readmulti", r)
  BY <1>1
<1>6. items = [k \in 1..n |-> items[k]]
  BY <1>3
<1> HIDE DEF items, n
<1>7. IsRequest(r) /\ r.fun = "read"
  BY <1>3, <1>4, <1>6, ItemsRequest
<1> HIDE DEF r
<1>8. "readmulti" \in Plain /\ SentBy("readmulti", r)
  BY <1>7 DEF Plain, Waits, SentBy, AskedBy
<1>9. \/ \E f \in Plain : \E q : Ask(f, q) /\ SentBy(f, q)
      \/ \E res : Returns(res)
  BY <1>5, <1>8 DEF AskItems
<1>10. left' \in Nat /\ start' \in Nat
  BY <1>1 DEF SessionInv, ClientTypes, loopVars
<1>11. QED
  BY <1>1, <1>9, <1>10, SubmitAsks

\* opWriteMultiVars keeps the invariant: every item has its data.
LEMMA WriteMultiKeeps == SessionInv /\ UNCHANGED serverVars /\ opWriteMultiVars => SessionInv'
<1> SUFFICES ASSUME SessionInv, UNCHANGED serverVars, opWriteMultiVars PROVE SessionInv'
  OBVIOUS
<1> DEFINE W(j, k) == LET it == Adjusted(j.items[k]) IN Data(it, jobs + 1, 0, it.amount)
<1>1. PICK j \in Jobs : /\ Begins(j, {"writemulti"}) /\ job' = j
                        /\ AskItems(j, "writemulti", [fun |-> "write", items |-> [k \in DOMAIN j.items |-> W(j, k)]])
                        /\ UNCHANGED loopVars
  BY DEF opWriteMultiVars, WriteItem
<1> DEFINE items == [k \in DOMAIN j.items |-> W(j, k)]
           n == Len(j.items)
           id == jobs + 1
           r == [fun |-> "write", items |-> items]
<1>2. j.op = "writemulti" /\ IsJob(j) /\ id \in 0..MaxJobs
  BY <1>1, JobBegins
<1>3. n \in Nat \ {0} /\ DOMAIN j.items = 1..n
  BY <1>2, Parts
<1>4. ASSUME NEW k \in 1..n PROVE IsItem("write", items[k])
  <2> DEFINE it == Adjusted(j.items[k])
  <2>1. it.start \in Nat /\ it.amount \in Nat \ {0} /\ it.area = j.items[k].area /\ (it.wl = "Bit" => j.items[k].wl = "Bit")
    BY <1>2, <1>3, <1>4, Parts
  <2>2. it.wl = "Bit" => it.area \in BitAreas
    BY <1>2, <1>3, <1>4, <2>1, S7SessionAssumption
  <2>3. items[k] = Data(it, id, 0, it.amount)
    BY <1>3, <1>4
  <2> HIDE DEF it, id
  <2>4. it.amount \in Int /\ it.start + 0 \in Nat /\ (it.wl = "Bit" => it.area \in BitAreas /\ it.amount >= 1)
    BY <2>1, <2>2
  <2>5. QED
    BY <1>2, <2>3, <2>4, DataItem
<1>5. AskItems(j, "writemulti", r)
  BY <1>1
<1>6. items = [k \in 1..n |-> items[k]]
  BY <1>3
<1> HIDE DEF items, n
<1>7. IsRequest(r) /\ r.fun = "write"
  BY <1>3, <1>4, <1>6, ItemsRequest
<1> HIDE DEF r
<1>8. "writemulti" \in Plain /\ SentBy("writemulti", r)
  BY <1>7 DEF Plain, Waits, SentBy, AskedBy
<1>9. \/ \E f \in Plain : \E q : Ask(f, q) /\ SentBy(f, q)
      \/ \E res : Returns(res)
  BY <1>5, <1>8 DEF AskItems
<1>10. left' \in Nat /\ start' \in Nat
  BY <1>1 DEF SessionInv, ClientTypes, loopVars
<1>11. QED
  BY <1>1, <1>9, <1>10, SubmitAsks

\* Requests without items.
LEMMA PlainRequest ==
  ASSUME NEW r, r.fun \notin {"read", "write", "negotiate"}
  PROVE  IsRequest(r)
BY DEF IsRequest

\* The client asks something without items, or returns.
Goes == \/ \E f \in Plain : \E r : Ask(f, r) /\ r.fun \in AskedBy(f) \ {"read", "write", "negotiate"}
        \/ \E res : Returns(res)

\* Jobs whose first request has no items.
LEMMA OtherJobs ==
  ASSUME SessionInv,
         \/ opListBlocks \/ opListBlocksOfType \/ opUpload \/ opDownload
         \/ opPlcStop \/ opPlcHotStart \/ opPlcColdStart \/ opCopyRamToRom \/ opCompress \/ opDelete
         \/ opReadSZL \/ opReadSZLList \/ opGetOrderCode \/ opGetCpuInfo \/ opGetCpInfo \/ opGetPlcStatus \/ opGetProtection
         \/ opGetDateTime \/ opSetDateTime \/ opSetPassword \/ opClearPassword
  PROVE  /\ run = "idle" /\ jobs' \in 0..MaxJobs /\ PDULength' = PDULength
         /\ left' \in Nat /\ start' \in Nat /\ Goes
<1> DEFINE Begun == /\ run = "idle" /\ jobs' \in 0..MaxJobs /\ PDULength' = PDULength
                    /\ left' \in Nat /\ start' \in Nat /\ Goes
<1>0. left \in Nat /\ start \in Nat
  BY DEF SessionInv, ClientTypes
<1>1. ASSUME NEW f \in Plain, NEW r, Ask(f, r), r.fun \in AskedBy(f) \ {"read", "write", "negotiate"}
      PROVE  Goes
  BY <1>1 DEF Goes
<1>2. ASSUME NEW j \in Jobs, NEW ops, Begins(j, ops), Goes, left' \in Nat, start' \in Nat
      PROVE  Begun
  BY <1>2, JobBegins
<1>3. ASSUME NEW res, Returns(res) PROVE Goes
  BY <1>3 DEF Goes
<1> HIDE DEF Begun
<1>4. ASSUME opListBlocks PROVE Begun
  BY <1>0, <1>1, <1>2, <1>4 DEF opListBlocks, loopVars, Plain, Waits, AskedBy
<1>5. ASSUME opListBlocksOfType PROVE Begun
  BY <1>0, <1>1, <1>2, <1>3, <1>5 DEF opListBlocksOfType, loopVars, Plain, Waits, AskedBy
<1>6. ASSUME opUpload PROVE Begun
  BY <1>0, <1>1, <1>2, <1>3, <1>6 DEF opUpload, Plain, Waits, AskedBy
<1>7. ASSUME opDownload PROVE Begun
  <2>1. PICK j \in Jobs : /\ Begins(j, {"download"})
                          /\ IF CheckBlock(j) = "ok"
                               THEN Ask("reqdownload", [fun |-> "reqdownload"])
                               ELSE Returns(CheckBlock(j))
                          /\ left' = j.amount /\ start' = 0
    BY <1>7 DEF opDownload
  <2>a. j.op = "download" /\ IsJob(j)
    BY <2>1, JobBegins
  <2>2. j.amount \in Nat
    BY <2>a DEF IsJob
  <2>3. QED
    BY <1>0, <1>1, <1>2, <1>3, <2>1, <2>2 DEF Plain, Waits, AskedBy
<1>8. ASSUME NEW op, NEW f \in {"start", "stop"}, NEW code, AskControl(op, f, code) PROVE Begun
  <2>1. PICK j \in Jobs : /\ Begins(j, {op})
                          /\ \/ \E res : Returns(res)
                             \/ Ask("control", [fun |-> f, code |-> code])
                          /\ UNCHANGED loopVars
    BY <1>8 DEF AskControl
  <2> DEFINE r == [fun |-> f, code |-> code]
  <2>2. r.fun = f
    OBVIOUS
  <2> HIDE DEF r
  <2>3. r.fun \in AskedBy("control") \ {"read", "write", "negotiate"} /\ "control" \in Plain
    BY <2>2 DEF AskedBy, Plain, Waits
  <2>4. Goes
    BY <1>1, <1>3, <2>1, <2>3 DEF r
  <2>5. QED
    BY <1>0, <1>2, <2>1, <2>4 DEF loopVars
<1>9. ASSUME NEW op, AskSZL(op) PROVE Begun
  BY <1>0, <1>1, <1>2, <1>9 DEF AskSZL, loopVars, Plain, Waits, AskedBy
<1>10. ASSUME NEW op, NEW f \in {"getclock", "setclock", "password"}, AskSimple(op, f) PROVE Begun
  BY <1>0, <1>1, <1>2, <1>3, <1>10 DEF AskSimple, loopVars, Plain, Waits, AskedBy
<1>11. ASSUME \/ opPlcStop \/ opPlcHotStart \/ opPlcColdStart \/ opCopyRamToRom \/ opCompress \/ opDelete PROVE Begun
  BY <1>8, <1>11 DEF opPlcStop, opPlcHotStart, opPlcColdStart, opCopyRamToRom, opCompress, opDelete
<1>12. ASSUME \/ opReadSZL \/ opReadSZLList \/ opGetOrderCode \/ opGetCpuInfo \/ opGetCpInfo \/ opGetPlcStatus \/ opGetProtection PROVE Begun
  BY <1>9, <1>12 DEF opReadSZL, opReadSZLList, opGetOrderCode, opGetCpuInfo, opGetCpInfo, opGetPlcStatus, opGetProtection
<1>13. ASSUME opGetDateTime \/ opSetDateTime \/ opSetPassword \/ opClearPassword PROVE Begun
  BY <1>10, <1>13 DEF opGetDateTime, opSetDateTime, opSetPassword, opClearPassword
<1>14. Begun
  BY <1>4, <1>5, <1>6, <1>7, <1>11, <1>12, <1>13
<1>15. QED
  BY <1>14 DEF Begun

\* They keep the invariant.
LEMMA OtherSubmits ==
  ASSUME SessionInv, UNCHANGED serverVars, run = "idle", jobs' \in 0..MaxJobs, PDULength' = PDULength,
         left' \in Nat, start' \in Nat, Goes
  PROVE  SessionInv'
<1>1. request[Me] = Nothing /\ ~InRequest(Me)
  BY IdleAlone
<1>2. ASSUME NEW f \in Plain, NEW r, Ask(f, r), r.fun \in AskedBy(f) \ {"read", "write", "negotiate"}
      PROVE  SessionInv'
  <2>1. SentBy(f, r)
    BY <1>2, PlainRequest DEF SentBy
  <2>2. QED
    BY <1>1, <1>2, <2>1, PlainAsk
<1>3. CASE \E res : Returns(res)
  BY <1>1, <1>3, PlainReturn
<1>4. QED
  BY <1>2, <1>3 DEF Goes

\* opAgBlockInfo, opDBGet, opDBFill: what waits for block information has a size.
LEMMA BlockInfoKeeps == SessionInv /\ UNCHANGED serverVars /\ opAgBlockInfo => SessionInv'
<1> SUFFICES ASSUME SessionInv, UNCHANGED serverVars, opAgBlockInfo PROVE SessionInv'
  OBVIOUS
<1> DEFINE R(j) == [fun |-> "blkinfo", type |-> j.type, area |-> j.area]
<1>1. PICK j \in Jobs : /\ Begins(j, {"blkinfo", "dbget", "dbfill"}) /\ job' = j
                        /\ UNCHANGED loopVars
                        /\ \/ \E res : Returns(res)
                           \/ Ask("blkinfo", R(j))
  BY DEF opAgBlockInfo
<1>2. /\ run = "idle" /\ request[Me] = Nothing /\ ~InRequest(Me)
      /\ jobs' \in 0..MaxJobs /\ PDULength' = PDULength /\ IsJob(j)
  BY <1>1, JobBegins
<1>3. left' \in Nat /\ start' \in Nat
  BY <1>1 DEF SessionInv, ClientTypes, loopVars
<1>4. CASE \E res : Returns(res)
  BY <1>2, <1>3, <1>4, PlainReturn
<1>5. CASE Ask("blkinfo", R(j))
  <2> DEFINE r == R(j)
  <2>1. r.fun = "blkinfo"
    OBVIOUS
  <2> HIDE DEF r
  <2>2. "blkinfo" \in Waits /\ SentBy("blkinfo", r)
    BY <2>1, PlainRequest DEF Waits, SentBy, AskedBy
  <2>3. run' = "blkinfo" /\ Ask("blkinfo", r)
    BY <1>5 DEF Ask, r
  <2>4. job'.op = "dbget" => job'.amount \in Int
    BY <1>1, <1>2 DEF IsJob
  <2>5. ClientTypes'
    BY <1>2, <1>3, <2>2, <2>3, <2>4 DEF SessionInv, ClientTypes
  <2>6. QED
    BY <1>2, <2>2, <2>3, <2>5, AskKeeps
<1>6. QED
  BY <1>1, <1>4, <1>5

\* opDBGet keeps the invariant, when it asks for the size and when it reads.
LEMMA DBGetKeeps == SessionInv /\ UNCHANGED serverVars /\ opDBGet => SessionInv'
<1> SUFFICES ASSUME SessionInv, UNCHANGED serverVars, opDBGet PROVE SessionInv'
  OBVIOUS
<1> USE DEF opDBGet
<1>1. run = "blkinfo" /\ request[Me] = Nothing /\ ~InRequest(Me) /\ answer[Me].mc7 \in Nat
  BY AnsweredAlone DEF Waits, AnsweredBy, AskedBy, AnswerOK
<1>2. job.amount \in Int
  BY <1>1 DEF SessionInv, ClientTypes
<1>3. /\ job'.wl = "Byte" /\ job'.start = 0 /\ job'.amount \in Int
  BY <1>1, <1>2 DEF Least
<1>4. jobs' \in 0..MaxJobs /\ PDULength' = PDULength
  BY DEF SessionInv, ClientTypes
<1>5. CASE BadParams(job') = "ok"
  <2>1. DataSizeByte(job'.wl) # 0 /\ job'.start \in Nat /\ job'.amount \in Nat
    BY <1>3, <1>5, GoodParams
  <2>2. ReadSlice(job', 0, job'.amount)
    BY <1>5
  <2> DEFINE j == job'
  <2>3. ReadSlice(j, 0, j.amount) /\ DataSizeByte(j.wl) # 0 /\ j.start \in Nat /\ j.amount \in Nat /\ job' = j
    BY <2>1, <2>2
  <2> HIDE DEF j
  <2>4. QED
    BY <1>1, <1>4, <2>3, ReadSliceKeeps
<1>6. CASE BadParams(job') # "ok"
  <2>1. Returns(BadParams(job')) /\ UNCHANGED <<left, start>>
    BY <1>6
  <2>2. left' \in Nat /\ start' \in Nat
    BY <2>1 DEF SessionInv, ClientTypes
  <2>3. \E res : Returns(res)
    BY <2>1
  <2>4. QED
    BY <1>1, <1>4, <2>2, <2>3, PlainReturn
<1>7. QED
  BY <1>5, <1>6

\* opDBFill keeps the invariant, when it asks for the size and when it writes.
LEMMA DBFillKeeps == SessionInv /\ UNCHANGED serverVars /\ opDBFill => SessionInv'
<1> SUFFICES ASSUME SessionInv, UNCHANGED serverVars, opDBFill PROVE SessionInv'
  OBVIOUS
<1> USE DEF opDBFill
<1>1. run = "blkinfo" /\ request[Me] = Nothing /\ ~InRequest(Me) /\ answer[Me].mc7 \in Nat
  BY AnsweredAlone DEF Waits, AnsweredBy, AskedBy, AnswerOK
<1>2. /\ job'.wl = "Byte" /\ job'.start = 0 /\ job'.amount \in Int
  BY <1>1
<1>3. jobs' \in 0..MaxJobs /\ jobs \in 0..MaxJobs /\ PDULength' = PDULength
  BY DEF SessionInv, ClientTypes
<1>4. CASE BadParams(job') = "ok"
  <2>1. DataSizeByte(job'.wl) # 0 /\ job'.start \in Nat /\ job'.amount \in Nat
    BY <1>2, <1>4, GoodParams
  <2>2. WriteSlice(job', jobs, 0, job'.amount)
    BY <1>4
  <2> DEFINE j == job'
  <2>3. WriteSlice(j, jobs, 0, j.amount) /\ DataSizeByte(j.wl) # 0 /\ j.start \in Nat /\ j.amount \in Nat /\ job' = j /\ j.wl # "Bit"
    BY <1>2, <2>1, <2>2
  <2> HIDE DEF j
  <2>4. QED
    BY <1>1, <1>3, <2>3, WriteSliceKeeps
<1>5. CASE BadParams(job') # "ok"
  <2>1. Returns(BadParams(job')) /\ UNCHANGED <<left, start>>
    BY <1>5
  <2>2. left' \in Nat /\ start' \in Nat
    BY <2>1 DEF SessionInv, ClientTypes
  <2>3. \E res : Returns(res)
    BY <2>1
  <2>4. QED
    BY <1>1, <1>3, <2>2, <2>3, PlainReturn
<1>6. QED
  BY <1>4, <1>5

\* An answer after which the client asks something without items or returns.
LEMMA AnswerKeeps ==
  ASSUME SessionInv, UNCHANGED serverVars, NEW f \in Plain \cup {"blkinfo"}, Answered(f),
         UNCHANGED <<jobs, PDULength>>, left' \in Nat, start' \in Nat,
         \/ \E g \in Plain : \E r : Ask(g, r) /\ r.fun \in AskedBy(g) \ {"read", "write", "negotiate"}
         \/ \E res : Returns(res)
  PROVE  SessionInv'
<1>1. f \in Waits
  BY DEF Plain, Waits
<1>2. run = f /\ request[Me] = Nothing /\ ~InRequest(Me)
  BY <1>1, AnsweredAlone
<1>3. jobs' \in 0..MaxJobs /\ PDULength' = PDULength
  BY DEF SessionInv, ClientTypes
<1>4. ASSUME NEW g \in Plain, NEW r, Ask(g, r), r.fun \in AskedBy(g) \ {"read", "write", "negotiate"}
      PROVE  SessionInv'
  <2>1. SentBy(g, r)
    BY <1>4, PlainRequest DEF SentBy
  <2>2. QED
    BY <1>2, <1>3, <1>4, <2>1, PlainAsk
<1>5. CASE \E res : Returns(res)
  BY <1>2, <1>3, <1>5, PlainReturn
<1>6. QED
  BY <1>4, <1>5

\* After every other answer the client asks something without items or returns.
LEMMA OtherReplies ==
  ASSUME SessionInv,
         \/ MultiVarsDone \/ ListBlocksDone \/ ListSliceDone \/ AgBlockInfoDone
         \/ StartUploadDone \/ EndUploadDone \/ DownloadEnded \/ InsertDone
         \/ ControlDone \/ SZLSliceDone \/ SimpleDone
  PROVE  \E f \in Plain \cup {"blkinfo"} : Answered(f) /\ UNCHANGED <<jobs, PDULength, left, start>> /\ Goes
<1> DEFINE Replied == \E f \in Plain \cup {"blkinfo"} : Answered(f) /\ UNCHANGED <<jobs, PDULength, left, start>> /\ Goes
<1>1. ASSUME NEW f \in Plain \cup {"blkinfo"}, Answered(f), UNCHANGED <<jobs, PDULength, loopVars>>, Goes
      PROVE  Replied
  BY <1>1 DEF loopVars
<1>2. ASSUME NEW g \in Plain, NEW r, Ask(g, r), r.fun \in AskedBy(g) \ {"read", "write", "negotiate"}
      PROVE  Goes
  BY <1>2 DEF Goes
<1>3. ASSUME NEW res, Returns(res) PROVE Goes
  BY <1>3 DEF Goes
<1> HIDE DEF Replied
<1>4. ASSUME MultiVarsDone PROVE Replied
  BY <1>1, <1>3, <1>4 DEF MultiVarsDone, Plain, Waits
<1>5. ASSUME ListBlocksDone PROVE Replied
  BY <1>1, <1>3, <1>5 DEF ListBlocksDone, Plain, Waits
<1>6. ASSUME ListSliceDone PROVE Replied
  BY <1>1, <1>2, <1>3, <1>6 DEF ListSliceDone, Plain, Waits, AskedBy
<1>7. ASSUME AgBlockInfoDone PROVE Replied
  BY <1>1, <1>3, <1>7 DEF AgBlockInfoDone
<1>8. ASSUME StartUploadDone PROVE Replied
  BY <1>1, <1>2, <1>3, <1>8 DEF StartUploadDone, Plain, Waits, AskedBy
<1>9. ASSUME EndUploadDone PROVE Replied
  BY <1>1, <1>3, <1>9 DEF EndUploadDone, Plain, Waits
<1>10. ASSUME DownloadEnded PROVE Replied
  BY <1>1, <1>2, <1>3, <1>10 DEF DownloadEnded, Plain, Waits, AskedBy
<1>11. ASSUME InsertDone PROVE Replied
  BY <1>1, <1>3, <1>11 DEF InsertDone, Plain, Waits
<1>12. ASSUME ControlDone PROVE Replied
  BY <1>1, <1>3, <1>12 DEF ControlDone, Plain, Waits
<1>13. ASSUME SZLSliceDone PROVE Replied
  BY <1>1, <1>2, <1>3, <1>13 DEF SZLSliceDone, MoreSZL, Plain, Waits, AskedBy
<1>14. ASSUME SimpleDone PROVE Replied
  BY <1>1, <1>3, <1>14 DEF SimpleDone, Plain, Waits
<1>15. Replied
  BY <1>4, <1>5, <1>6, <1>7, <1>8, <1>9, <1>10, <1>11, <1>12, <1>13, <1>14
<1>16. QED
  BY <1>15 DEF Replied

\* That keeps the invariant.
LEMMA OtherAnswers ==
  ASSUME SessionInv, UNCHANGED serverVars,
         \E f \in Plain \cup {"blkinfo"} : Answered(f) /\ UNCHANGED <<jobs, PDULength, left, start>> /\ Goes
  PROVE  SessionInv'
BY AnswerKeeps DEF Goes, SessionInv, ClientTypes

\* The size of an upload is the one its first slice tells.
LEMMA UploadSliceKeeps == SessionInv /\ UNCHANGED serverVars /\ UploadSliceDone => SessionInv'
<1> SUFFICES ASSUME SessionInv, UNCHANGED serverVars, UploadSliceDone PROVE SessionInv'
  OBVIOUS
<1> USE DEF UploadSliceDone
<1>1. answer[Me].fun \in {"upload", "response"} /\ AnswerOK(answer[Me])
  BY AnsweredAlone DEF Waits, AnsweredBy
<1>2. left \in Nat /\ start \in Nat
  BY DEF SessionInv, ClientTypes
<1>3. \/ answer[Me].error # "ok" /\ left' = left
      \/ answer[Me].error = "ok" /\ left' \in {answer[Me].mc7, left}
  OBVIOUS
<1>4. left' \in Nat /\ start' \in Nat
  BY <1>1, <1>2, <1>3 DEF AnswerOK
<1>5. \/ Ask("endupload", [fun |-> "endupload"])
      \/ Ask("upload", [fun |-> "upload"])
      \/ \E res : Returns(res)
  OBVIOUS
<1>6. Answered("upload") /\ UNCHANGED <<jobs, PDULength>>
  OBVIOUS
<1>7. {"upload", "endupload"} \subseteq Plain /\ "upload" \in AskedBy("upload") /\ "endupload" \in AskedBy("endupload")
  BY DEF Plain, Waits, AskedBy
<1>8. \/ \E g \in Plain : \E r : Ask(g, r) /\ r.fun \in AskedBy(g) \ {"read", "write", "negotiate"}
      \/ \E res : Returns(res)
  BY <1>5, <1>7
<1>9. QED
  BY <1>4, <1>6, <1>7, <1>8, AnswerKeeps

\* A slice of a download that the PLC asks for keeps the invariant.
LEMMA DownloadSliceKeeps == SessionInv /\ UNCHANGED serverVars /\ DownloadSlice => SessionInv'
<1> SUFFICES ASSUME SessionInv, UNCHANGED serverVars, DownloadSlice PROVE SessionInv'
  OBVIOUS
<1> DEFINE slice == Least(left, MaxSlice)
           data == [k \in 1..slice |-> start + k]
           r == [fun |-> "downloaded", data |-> data, eos |-> LastSlice(slice)]
           f == IF LastSlice(slice) THEN "ended" ELSE "serve"
<1>1. Answered("serve") /\ UNCHANGED <<jobs, PDULength>> /\ "serve" \in Plain
  BY DEF DownloadSlice, Plain, Waits
<1>2. left \in Nat /\ start \in Nat /\ MaxSlice \in Nat
  BY <1>1, SessionConstants DEF SessionInv, ClientTypes, MaxSlice, Answered
<1>3. slice \in Nat /\ slice <= left
  BY <1>2 DEF Least
<1>4. \/ left' = left - slice /\ start' = start + slice /\ Ask(f, r)
      \/ (\E res : Returns(res)) /\ UNCHANGED <<left, start>>
  BY DEF DownloadSlice
<1>5. r.fun = "downloaded" /\ f \in {"ended", "serve"}
  OBVIOUS
<1>6. left' \in Nat /\ start' \in Nat
  BY <1>2, <1>3, <1>4
<1> HIDE DEF r, f, slice
<1>7. r.fun \in AskedBy(f) \ {"read", "write", "negotiate"} /\ f \in Plain
  BY <1>5 DEF AskedBy, Plain, Waits
<1>8. \/ \E g \in Plain : \E q : Ask(g, q) /\ q.fun \in AskedBy(g) \ {"read", "write", "negotiate"}
      \/ \E res : Returns(res)
  BY <1>4, <1>7
<1>9. QED
  BY <1>1, <1>6, <1>8, AnswerKeeps

\* The exchanges of connecting, and the steps of a download that ask nothing new.
LEMMA ConnectionKeeps ==
  ASSUME SessionInv, UNCHANGED serverVars, NegotiatePDULength \/ Negotiated \/ StartDownloadDone \/ InsertBlock
  PROVE  SessionInv'
<1>1. CASE NegotiatePDULength
  <2> DEFINE r == [fun |-> "negotiate", length |-> PDURequest]
  <2>1. run = "connect" /\ request[Me] = Nothing /\ ~InRequest(Me)
    BY <1>1, AnsweredAlone DEF NegotiatePDULength, Waits
  <2>2. Ask("negotiate", r) /\ r.fun = "negotiate" /\ r.length = PDURequest
    BY <1>1 DEF NegotiatePDULength
  <2> HIDE DEF r
  <2>3. "negotiate" \in Waits /\ SentBy("negotiate", r)
    BY <2>2, MicroClientAssumption DEF Waits, SentBy, AskedBy, IsRequest
  <2>4. ClientTypes'
    BY <1>1, <2>2, <2>3 DEF NegotiatePDULength, loopVars, Ask, SessionInv, ClientTypes
  <2>5. QED
    BY <2>1, <2>2, <2>3, <2>4, AskKeeps
<1>2. CASE Negotiated
  <2>1. run = "negotiate" /\ request[Me] = Nothing /\ ~InRequest(Me) /\ AnswerOK(answer[Me]) /\ answer[Me].fun = "negotiate"
    BY <1>2, AnsweredAlone DEF Negotiated, Waits, AnsweredBy, AskedBy
  <2>2. /\ UNCHANGED request /\ answer' = [answer EXCEPT ![Me] = Nothing]
        /\ \/ run' = "idle" /\ PDULength' \in MinPduSize..IsoPayload_Size
           \/ run' \in {"idle", "off"} /\ PDULength' = PDULength
    BY <1>2, <2>1 DEF Negotiated, Granted, AnswerOK
  <2>3. ClientTypes'
    BY <1>2, <2>2, SessionConstants DEF Negotiated, loopVars, SessionInv, ClientTypes
  <2>4. run' \in {"idle", "off"}
    BY <2>2
  <2>5. PduTypes' /\ request' = request /\ InRequest(Me)' = InRequest(Me) /\ answer'[Me] = Nothing
    BY <2>2, MicroClientAssumption DEF SessionInv, PduTypes, AnswerOK, Nothing, InRequest, serverVars, workerVars
  <2>6. WorkerTypes' /\ AreaTypes' /\ AppTypes'
    BY DEF SessionInv, WorkerTypes, AreaTypes, AppTypes, serverVars, tableVars, workerVars, appVars, InRequest
  <2>7. Paired'
    BY <2>1, <2>4, <2>5 DEF SessionInv, Paired, Waits
  <2>8. QED
    BY <2>3, <2>5, <2>6, <2>7 DEF SessionInv
<1>3. CASE StartDownloadDone
  <2>1. run = "reqdownload" /\ request[Me] = Nothing /\ ~InRequest(Me)
    BY <1>3, AnsweredAlone DEF StartDownloadDone, Waits
  <2>2. UNCHANGED <<request, left, start, jobs, PDULength>> /\ answer' = [answer EXCEPT ![Me] = Nothing] /\ run' \in {"idle", "serve"}
    BY <1>3 DEF StartDownloadDone, Returns, loopVars
  <2>3. ClientTypes'
    BY <2>1, <2>2 DEF SessionInv, ClientTypes, Waits
  <2>4. QED
    BY <2>1, <2>2, <2>3, RestKeeps
<1>4. CASE InsertBlock
  <2> DEFINE r == [fun |-> "start", code |-> "insert"]
  <2>1. run = "insert" /\ request[Me] = Nothing /\ answer[Me] = Nothing
    BY <1>4 DEF InsertBlock
  <2>2. ~InRequest(Me)
    <3>1. InRequest(Me) => worker[Me].fun \in {"ended"} /\ worker[Me].fun \in {"read", "write"}
      BY <2>1, MicroClientAssumption DEF SessionInv, Paired, Waits, AskedBy, WorkerTypes, WorkerOK, InRequest
    <3>2. QED
      BY <3>1
  <2>3. Ask("inserted", r) /\ r.fun = "start"
    BY <1>4 DEF InsertBlock
  <2> HIDE DEF r
  <2>4. "inserted" \in Plain /\ SentBy("inserted", r)
    BY <2>3, PlainRequest DEF Plain, Waits, SentBy, AskedBy
  <2>5. left' \in Nat /\ start' \in Nat /\ jobs' \in 0..MaxJobs /\ PDULength' = PDULength
    BY <1>4 DEF InsertBlock, loopVars, SessionInv, ClientTypes
  <2>6. run \in Plain
    BY <2>1 DEF Plain, Waits
  <2>7. QED
    BY <2>1, <2>2, <2>3, <2>4, <2>5, <2>6, PlainAsk
<1>5. QED
  BY <1>1, <1>2, <1>3, <1>4

\* A lost connection and a failed exchange keep the invariant.
LEMMA LossKeeps ==
  ASSUME SessionInv, UNCHANGED serverVars, PeerDisconnect \/ ExchangeFails
  PROVE  SessionInv'
<1> USE MicroClientAssumption DEF SessionInv
<1>1. /\ run' = "off" /\ UNCHANGED <<left, start, jobs, PDULength>>
      /\ request' = request \/ request' = [request EXCEPT ![Me] = Nothing]
      /\ answer' = answer \/ answer' = [answer EXCEPT ![Me] = Nothing]
  BY DEF PeerDisconnect, ExchangeFails, pduVars, loopVars
<1>2. ClientTypes'
  BY <1>1 DEF ClientTypes, Waits
<1>3. AnswerOK(Nothing) /\ IsRequest(Nothing)
  BY DEF AnswerOK, IsRequest, Nothing
<1>4. PduTypes'
  <2>1. DOMAIN request' = Conns /\ \A c \in Conns : request'[c] \in {request[c], Nothing}
    BY <1>1 DEF PduTypes
  <2>2. DOMAIN answer' = Conns /\ \A c \in Conns : answer'[c] \in {answer[c], Nothing}
    BY <1>1 DEF PduTypes
  <2>3. QED
    BY <1>3, <2>1, <2>2 DEF PduTypes
<1>5. WorkerTypes' /\ AreaTypes' /\ AppTypes'
  BY DEF WorkerTypes, AreaTypes, AppTypes, serverVars, tableVars, workerVars, appVars, InRequest
<1>6. request'[Me] \in {request[Me], Nothing}
  BY <1>1 DEF PduTypes
<1>7. Paired'
  BY <1>1, <1>6 DEF Paired, Waits, Nothing
<1>8. QED
  BY <1>2, <1>4, <1>5, <1>7

\* A new connection has a new worker, which is not in a request.
LEMMA ConnectKeeps == SessionInv /\ Connect => SessionInv'
<1> SUFFICES ASSUME SessionInv, Connect PROVE SessionInv'
  OBVIOUS
<1> USE MicroClientAssumption DEF SessionInv
<1> DEFINE r == [fun |-> "connect"]
<1>1. /\ run = "off" /\ request[Me] = Nothing /\ UNCHANGED <<job, left, start, jobs, PDULength>>
      /\ Ask("connect", r)
      /\ worker' = [worker EXCEPT ![Me] = Idle] /\ FPDULength' = [FPDULength EXCEPT ![Me] = DefaultPdu]
      /\ UNCHANGED <<HA, size, mem, lock, ForcePDU, app, updates, appOps>>
  BY DEF Connect, PeerConnect, NewWorker, loopVars, tableVars, appVars
<1>2. r.fun = "connect"
  OBVIOUS
<1> HIDE DEF r
<1>3. /\ run' = "connect" /\ request' = [request EXCEPT ![Me] = r] /\ answer' = [answer EXCEPT ![Me] = Nothing]
      /\ request'[Me] = r /\ answer'[Me] = Nothing
  BY <1>1 DEF Ask, PduTypes
<1>4. ClientTypes'
  BY <1>1, <1>3 DEF ClientTypes, Waits
<1>5. PduTypes'
  <2>1. AnswerOK(Nothing) /\ IsRequest(r)
    BY <1>2, PlainRequest DEF AnswerOK, Nothing
  <2>2. QED
    BY <1>3, <2>1 DEF PduTypes
<1>6. WorkerTypes'
  <2>1. WorkerOK(Idle)
    BY DEF WorkerOK, Idle
  <2>2. DefaultPdu \in MinPduSize..IsoPayload_Size
    BY S7ServerAssumption
  <2>3. DOMAIN worker' = Conns /\ \A c \in Conns : worker'[c] \in {worker[c], Idle}
    BY <1>1 DEF WorkerTypes
  <2>4. \A c \in Conns : WorkerOK(worker'[c])
    BY <2>1, <2>3 DEF WorkerTypes
  <2>5. QED
    BY <1>1, <2>2, <2>3, <2>4 DEF WorkerTypes, WorkerOK
<1>7. AreaTypes' /\ AppTypes'
  BY <1>1 DEF AreaTypes, AppTypes
<1>8. ~InRequest(Me)'
  BY <1>1 DEF WorkerTypes, InRequest, Idle
<1>9. Paired'
  <2>1. "connect" \in AskedBy("connect")
    BY DEF AskedBy
  <2>2. QED
    BY <1>2, <1>3, <1>8, <2>1 DEF Paired
<1>10. QED
  BY <1>4, <1>5, <1>6, <1>7, <1>9

\* A call of the application keeps the invariant.
LEMMA SubmitKeeps == SessionInv /\ UNCHANGED serverVars /\ Submit => SessionInv'
BY ReadAreaKeeps, WriteAreaKeeps, ReadMultiKeeps, WriteMultiKeeps, BlockInfoKeeps, OtherJobs, OtherSubmits DEF Submit

\* The client's steps keep the invariant.
LEMMA ClientStepKeeps == SessionInv /\ UNCHANGED serverVars /\ ClientStep => SessionInv'
BY ReadSliceDoneKeeps, WriteSliceDoneKeeps, DBGetKeeps, DBFillKeeps, OtherReplies, OtherAnswers, UploadSliceKeeps,
   DownloadSliceKeeps, ConnectionKeeps DEF ClientStep

-----------------------------------------------------------------------------
(* The server.                                                             *)

othersAlone == <<HA, size, lock, ForcePDU, app, updates, appOps>>

\* A server's answer to f is one a client that asked f waits for.
LEMMA RightAnswer ==
  ASSUME NEW g \in Waits, NEW f \in AskedBy(g)
  PROVE  /\ f = "connect" => "confirm" \in AnsweredBy(g)
         /\ f \in {"startupload", "upload", "endupload", "reqdownload"} => "response" \in AnsweredBy(g)
         /\ f \in {"read", "write", "negotiate", "start", "stop", "password", "getclock", "setclock", "szl",
                   "listall", "listbot", "blkinfo"} => f \in AnsweredBy(g)
         /\ f # "malformed" /\ f # "programmer" /\ f # "none"
BY DEF Waits, AskedBy, AnsweredBy

\* A request is taken and not answered by the same worker in another way.
LEMMA Taken ==
  ASSUME SessionInv, UNCHANGED clientVars, NEW c \in Conns, NEW f, f # "none", Takes(c, f),
         NEW a, AnswerOK(a), answer' = [answer EXCEPT ![c] = a],
         \A g \in Waits : f \in AskedBy(g) => \/ a = Nothing /\ (InRequest(c)' => worker'[c].fun = f)
                                              \/ a.fun \in AnsweredBy(g) /\ ~InRequest(c)',
         \A d \in Conns \ {c} : worker'[d] = worker[d]
  PROVE  PduTypes' /\ Paired' /\ ClientTypes'
<1> USE MicroClientAssumption DEF SessionInv
<1>1. request' = [request EXCEPT ![c] = Nothing] /\ request[c].fun = f
  BY DEF Takes
<1>2. IsRequest(Nothing)
  BY DEF IsRequest, Nothing
<1>3. PduTypes'
  <2>1. DOMAIN request' = Conns /\ \A d \in Conns : request'[d] \in {request[d], Nothing}
    BY <1>1 DEF PduTypes
  <2>2. DOMAIN answer' = Conns /\ \A d \in Conns : answer'[d] \in {answer[d], a}
    BY DEF PduTypes
  <2>3. QED
    BY <1>2, <2>1, <2>2 DEF PduTypes
<1>4. run' = run
  BY DEF clientVars
<1>5. Paired'
  <2>1. CASE c # Me
    <3>1. request'[Me] = request[Me] /\ answer'[Me] = answer[Me] /\ worker'[Me] = worker[Me]
      BY <1>1, <2>1 DEF PduTypes
    <3>2. InRequest(Me)' = InRequest(Me)
      BY <3>1 DEF InRequest
    <3>3. QED
      BY <1>4, <3>1, <3>2 DEF Paired
  <2>2. CASE c = Me
    <3>1. request'[Me] = Nothing /\ answer'[Me] = a /\ Nothing.fun = "none"
      BY <1>1, <2>2 DEF PduTypes, Nothing
    <3>2. run # "idle"
      BY <1>1, <2>2 DEF Paired, Nothing
    <3>3. run \in Waits => f \in AskedBy(run)
      BY <1>1, <2>2 DEF Paired, Nothing
    <3>4. run \in Waits => \/ a = Nothing /\ (InRequest(Me)' => worker'[Me].fun \in AskedBy(run))
                           \/ a.fun \in AnsweredBy(run) /\ ~InRequest(Me)'
      BY <2>2, <3>3
    <3>5. QED
      BY <1>4, <3>1, <3>2, <3>4 DEF Paired
  <2>3. QED
    BY <2>1, <2>2
<1>6. ClientTypes'
  BY DEF ClientTypes, clientVars, loopVars
<1>7. QED
  BY <1>3, <1>5, <1>6

\* The worker of c is in no request after the step, the others are where they were.
Leaves(c) ==
  /\ DOMAIN worker' = Conns /\ worker'[c].place \in {"idle", "closed", "control"}
  /\ \A d \in Conns \ {c} : worker'[d] = worker[d]

\* A worker that is in no read or write request afterwards keeps its types.
LEMMA PlainWorker ==
  ASSUME WorkerTypes, NEW c \in Conns, Leaves(c),
         FPDULength' \in [Conns -> MinPduSize..IsoPayload_Size], UNCHANGED ForcePDU
  PROVE  WorkerTypes' /\ ~InRequest(c)' /\ \A d \in Conns \ {c} : worker'[d] = worker[d]
<1>1. WorkerOK(worker'[c])
  BY DEF WorkerOK, Leaves
<1>2. \A d \in Conns : WorkerOK(worker'[d])
  BY <1>1 DEF WorkerTypes, Leaves
<1>3. QED
  BY <1>2 DEF WorkerTypes, WorkerOK, InRequest, Leaves

\* Requests that are answered at once.
LEMMA AnsweredAtOnce ==
  ASSUME SessionInv, UNCHANGED clientVars, UNCHANGED othersAlone, UNCHANGED mem,
         NEW c \in Conns, NEW f, f # "none", Takes(c, f),
         NEW a, AnswerOK(a), Send(c, a), \A g \in Waits : f \in AskedBy(g) => a.fun \in AnsweredBy(g),
         UNCHANGED worker \/ Leaves(c),
         FPDULength' \in [Conns -> MinPduSize..IsoPayload_Size]
  PROVE  SessionInv'
<1> USE DEF SessionInv
<1>1. WorkerTypes /\ UNCHANGED ForcePDU /\ worker[c].place = "idle"
  BY DEF othersAlone, Takes
<1>2. Leaves(c)
  BY <1>1 DEF Leaves, WorkerTypes
<1>3. WorkerTypes' /\ ~InRequest(c)' /\ \A d \in Conns \ {c} : worker'[d] = worker[d]
  BY <1>1, <1>2, PlainWorker
<1>4. AreaTypes' /\ AppTypes'
  BY DEF AreaTypes, AppTypes, othersAlone
<1>5. PduTypes' /\ Paired' /\ ClientTypes'
  BY <1>3, Taken DEF Send
<1>6. QED
  BY <1>3, <1>4, <1>5

\* The PDU length a worker agrees to is one of its range.
LEMMA AgreedInRange ==
  ASSUME WorkerTypes, NEW p \in Int
  PROVE  Agreed(p) \in MinPduSize..IsoPayload_Size
BY SessionConstants DEF Agreed, WorkerTypes

\* What FindArea finds has a size the registered memory has room for.
LEMMA RegisteredArea ==
  ASSUME AreaTypes, NEW a, Registered(a)
  PROVE  a \in Areas /\ size[a] \in Nat /\ size[a] <= AreaSize[a]
BY DEF AreaTypes, Registered, Areas

\* Requests with answers that do not depend on what the server has.
LEMMA FixedAnswers ==
  ASSUME SessionInv, UNCHANGED clientVars, NEW c \in Conns,
         \/ ExecuteRecv(c) \/ PerformFunctionControl(c)
         \/ PerformFunctionUpload(c) \/ PerformFunctionDownload(c)
         \/ PerformGroupSecurity(c) \/ PerformGetClock(c) \/ PerformSetClock(c) \/ BLK_ListAll(c)
  PROVE  SessionInv'
<1>0. FPDULength \in [Conns -> MinPduSize..IsoPayload_Size]
  BY DEF SessionInv, WorkerTypes
<1>1. ASSUME NEW f, f # "none", Takes(c, f), NEW a, Send(c, a), UNCHANGED serverVars,
             a.fun \notin {"negotiate", "blkinfo", "upload"}, a.fun = "response" => a.error # "ok",
             \A g \in Waits : f \in AskedBy(g) => a.fun \in AnsweredBy(g)
      PROVE  SessionInv'
  <2>1. UNCHANGED othersAlone /\ UNCHANGED mem /\ UNCHANGED worker /\ FPDULength' = FPDULength
    BY <1>1 DEF othersAlone, serverVars, tableVars, workerVars, appVars
  <2>2. AnswerOK(a)
    BY <1>1 DEF AnswerOK
  <2>3. QED
    BY <1>0, <1>1, <2>1, <2>2, AnsweredAtOnce
<1>2. CASE ExecuteRecv(c)
  <2> DEFINE a == [fun |-> "confirm"]
  <2>1. Takes(c, "connect") /\ Send(c, a) /\ UNCHANGED serverVars /\ a.fun = "confirm"
    BY <1>2 DEF ExecuteRecv
  <2> HIDE DEF a
  <2>2. QED
    BY <1>1, <2>1, RightAnswer
<1>3. CASE PerformFunctionControl(c)
  <2>1. PICK f \in {"start", "stop"} : Takes(c, f)
    BY <1>3 DEF PerformFunctionControl
  <2> DEFINE a == [fun |-> f, error |-> "ok", para |-> 0]
             w == [place |-> "control", code |-> request[c].code]
  <2>2. Send(c, a) /\ worker' = [worker EXCEPT ![c] = w] /\ w.place = "control" /\ a.fun = f
    BY <1>3, <2>1 DEF PerformFunctionControl, Takes
  <2>3. UNCHANGED othersAlone /\ UNCHANGED mem /\ FPDULength' = FPDULength
    BY <1>3 DEF PerformFunctionControl, othersAlone, tableVars, appVars
  <2> HIDE DEF a, w
  <2>b. Leaves(c)
    BY <2>2 DEF Leaves, WorkerTypes, SessionInv
  <2>4. AnswerOK(a) /\ \A g \in Waits : f \in AskedBy(g) => a.fun \in AnsweredBy(g)
    BY <2>2, RightAnswer DEF AnswerOK
  <2>5. QED
    BY <1>0, <2>1, <2>2, <2>3, <2>4, <2>b, AnsweredAtOnce
<1>4. CASE PerformFunctionUpload(c) \/ PerformFunctionDownload(c)
  <2> DEFINE a == [fun |-> "response", error |-> "NeedPassword"]
  <2>1. PICK f \in {"startupload", "upload", "endupload", "reqdownload"} : Takes(c, f)
    BY <1>4 DEF PerformFunctionUpload, PerformFunctionDownload
  <2>2. Send(c, a) /\ UNCHANGED serverVars /\ a.fun = "response" /\ a.error # "ok"
    BY <1>4 DEF PerformFunctionUpload, PerformFunctionDownload
  <2> HIDE DEF a
  <2>3. \A g \in Waits : f \in AskedBy(g) => a.fun \in AnsweredBy(g)
    BY <2>2, RightAnswer
  <2>4. QED
    BY <1>1, <2>1, <2>2, <2>3
<1>5. CASE PerformGroupSecurity(c)
  <2> DEFINE a == [fun |-> "password", error |-> "ok"]
  <2>1. Takes(c, "password") /\ Send(c, a) /\ UNCHANGED serverVars /\ a.fun = "password"
    BY <1>5 DEF PerformGroupSecurity
  <2> HIDE DEF a
  <2>2. QED
    BY <1>1, <2>1, RightAnswer
<1>6. CASE PerformGetClock(c)
  <2> DEFINE a == [fun |-> "getclock", error |-> "ok", ret |-> "ok"]
  <2>1. Takes(c, "getclock") /\ Send(c, a) /\ UNCHANGED serverVars /\ a.fun = "getclock"
    BY <1>6 DEF PerformGetClock
  <2> HIDE DEF a
  <2>2. QED
    BY <1>1, <2>1, RightAnswer
<1>7. CASE PerformSetClock(c)
  <2> DEFINE a == [fun |-> "setclock", error |-> "ok", ret |-> "NotAvailable"]
  <2>1. Takes(c, "setclock") /\ Send(c, a) /\ UNCHANGED serverVars /\ a.fun = "setclock"
    BY <1>7 DEF PerformSetClock
  <2> HIDE DEF a
  <2>2. QED
    BY <1>1, <2>1, RightAnswer
<1>8. CASE BLK_ListAll(c)
  <2> DEFINE a == [fun |-> "listall", error |-> "ok", whole |-> TRUE, count |-> DBCount]
  <2>1. Takes(c, "listall") /\ Send(c, a) /\ UNCHANGED serverVars /\ a.fun = "listall"
    BY <1>8 DEF BLK_ListAll
  <2> HIDE DEF a
  <2>2. QED
    BY <1>1, <2>1, RightAnswer
<1>9. QED
  BY <1>2, <1>3, <1>4, <1>5, <1>6, <1>7, <1>8

\* Requests whose answer tells something of the server.
LEMMA TellingAnswers ==
  ASSUME SessionInv, UNCHANGED clientVars, NEW c \in Conns,
         PerformFunctionNegotiate(c) \/ PerformGroupSZL(c) \/ BLK_ListBoT(c) \/ BLK_GetBlkInfo(c)
  PROVE  SessionInv'
<1>0. FPDULength \in [Conns -> MinPduSize..IsoPayload_Size]
  BY DEF SessionInv, WorkerTypes
<1>1. CASE PerformFunctionNegotiate(c)
  <2> DEFINE n == Agreed(request[c].length)
             a == [fun |-> "negotiate", error |-> "ok", whole |-> TRUE, length |-> n]
  <2>1. /\ Takes(c, "negotiate") /\ Send(c, a) /\ FPDULength' = [FPDULength EXCEPT ![c] = n]
        /\ UNCHANGED othersAlone /\ UNCHANGED mem /\ UNCHANGED worker
        /\ a.fun = "negotiate" /\ a.length = n
    BY <1>1 DEF PerformFunctionNegotiate, othersAlone, tableVars, appVars
  <2>2. request[c].length \in Int
    BY <2>1 DEF Takes, SessionInv, PduTypes, IsRequest
  <2>3. n \in MinPduSize..IsoPayload_Size
    BY <2>2, AgreedInRange DEF SessionInv
  <2> HIDE DEF a, n
  <2>4. AnswerOK(a) /\ \A g \in Waits : "negotiate" \in AskedBy(g) => a.fun \in AnsweredBy(g)
    BY <2>1, <2>3, RightAnswer DEF AnswerOK
  <2>5. FPDULength' \in [Conns -> MinPduSize..IsoPayload_Size]
    BY <1>0, <2>1, <2>3
  <2>6. QED
    BY <2>1, <2>4, <2>5, AnsweredAtOnce
<1>2. CASE PerformGroupSZL(c)
  <2> DEFINE a == SZLAnswer(c, request[c].id)
  <2>1. Takes(c, "szl") /\ Send(c, a) /\ UNCHANGED serverVars
    BY <1>2 DEF PerformGroupSZL
  <2>2. a.fun = "szl"
    BY DEF SZLAnswer
  <2> HIDE DEF a
  <2>3. AnswerOK(a) /\ \A g \in Waits : "szl" \in AskedBy(g) => a.fun \in AnsweredBy(g)
    BY <2>2, RightAnswer DEF AnswerOK
  <2>4. UNCHANGED othersAlone /\ UNCHANGED mem /\ UNCHANGED worker /\ FPDULength' = FPDULength
    BY <2>1 DEF othersAlone, serverVars, tableVars, workerVars, appVars
  <2>5. QED
    BY <1>0, <2>1, <2>3, <2>4, AnsweredAtOnce
<1>3. CASE BLK_ListBoT(c)
  <2>1. PICK a : Takes(c, "listbot") /\ Send(c, a) /\ a.fun = "listbot"
    BY <1>3 DEF BLK_ListBoT
  <2>2. AnswerOK(a) /\ \A g \in Waits : "listbot" \in AskedBy(g) => a.fun \in AnsweredBy(g)
    BY <2>1, RightAnswer DEF AnswerOK
  <2>3. UNCHANGED othersAlone /\ UNCHANGED mem /\ UNCHANGED worker /\ FPDULength' = FPDULength
    BY <1>3 DEF BLK_ListBoT, othersAlone, tableVars, appVars
  <2>4. QED
    BY <1>0, <2>1, <2>2, <2>3, AnsweredAtOnce
<1>4. CASE BLK_GetBlkInfo(c)
  <2>1. PICK a : Takes(c, "blkinfo") /\ Send(c, a) /\ a.fun = "blkinfo" /\ (a.mc7 = 0 \/ (Registered(request[c].area) /\ a.mc7 = size[request[c].area]))
    BY <1>4 DEF BLK_GetBlkInfo
  <2>2. a.mc7 \in Nat
    BY <2>1, RegisteredArea DEF SessionInv
  <2>3. AnswerOK(a) /\ \A g \in Waits : "blkinfo" \in AskedBy(g) => a.fun \in AnsweredBy(g)
    BY <2>1, <2>2, RightAnswer DEF AnswerOK
  <2>4. UNCHANGED othersAlone /\ UNCHANGED mem /\ UNCHANGED worker /\ FPDULength' = FPDULength
    BY <1>4 DEF BLK_GetBlkInfo, othersAlone, serverVars, tableVars, workerVars, appVars
  <2>5. QED
    BY <1>0, <2>1, <2>3, <2>4, AnsweredAtOnce
<1>5. QED
  BY <1>1, <1>2, <1>3, <1>4

\* Requests without an answer, and what follows one.
LEMMA Unanswered ==
  ASSUME SessionInv, UNCHANGED clientVars, NEW c \in Conns,
         IsoPerformCommand(c) \/ PerformGroupProgrammer(c) \/ SetCpuStatus(c)
  PROVE  SessionInv'
<1> USE DEF SessionInv
<1>0. FPDULength \in [Conns -> MinPduSize..IsoPayload_Size] /\ WorkerTypes /\ ClientTypes'
  BY DEF WorkerTypes, ClientTypes, clientVars, loopVars
<1>a. UNCHANGED othersAlone /\ UNCHANGED <<mem, FPDULength>>
  BY DEF othersAlone, IsoPerformCommand, PerformGroupProgrammer, SetCpuStatus, serverVars, tableVars, workerVars, appVars
<1>1. AreaTypes' /\ AppTypes' /\ UNCHANGED <<ForcePDU, FPDULength>>
  BY <1>a DEF AreaTypes, AppTypes, othersAlone
<1>2. CASE PerformGroupProgrammer(c) \/ IsoPerformCommand(c)
  <2>1. PICK f \in {"programmer", "malformed"} : Takes(c, f)
    BY <1>2 DEF PerformGroupProgrammer, IsoPerformCommand
  <2>2. answer' = answer
    BY <1>2 DEF PerformGroupProgrammer, IsoPerformCommand
  <2>3. WorkerTypes' /\ ~InRequest(c)' /\ \A d \in Conns \ {c} : worker'[d] = worker[d]
    <3>1. CASE PerformGroupProgrammer(c)
      <4>1. UNCHANGED worker
        BY <3>1 DEF PerformGroupProgrammer, serverVars, workerVars
      <4>2. QED
        BY <1>0, <1>1, <2>1, <4>1 DEF WorkerTypes, InRequest, Takes
    <3>2. CASE IsoPerformCommand(c)
      <4> DEFINE w == [place |-> "closed"]
      <4>1. worker' = [worker EXCEPT ![c] = w] /\ w.place = "closed"
        BY <3>2 DEF IsoPerformCommand
      <4> HIDE DEF w
      <4>2. Leaves(c)
        BY <1>0, <4>1 DEF Leaves, WorkerTypes
      <4>3. QED
        BY <1>0, <1>1, <4>2, PlainWorker
    <3>3. QED
      BY <1>2, <3>1, <3>2
  <2>4. PduTypes' /\ Paired'
    <3>1. request' = [request EXCEPT ![c] = Nothing] /\ request[c].fun = f
      BY <2>1 DEF Takes
    <3>2. IsRequest(Nothing)
      BY DEF IsRequest, Nothing
    <3>3. PduTypes'
      BY <2>2, <3>1, <3>2 DEF PduTypes
    <3>4. run' = run
      BY DEF clientVars
    <3>5. Paired'
      <4>1. CASE c # Me
        <5>1. request'[Me] = request[Me] /\ worker'[Me] = worker[Me]
          BY <2>3, <3>1, <4>1, MicroClientAssumption DEF PduTypes
        <5>2. InRequest(Me)' = InRequest(Me)
          BY <5>1 DEF InRequest
        <5>3. QED
          BY <2>2, <3>4, <5>1, <5>2 DEF Paired
      <4>2. CASE c = Me
        <5>1. request'[Me] = Nothing /\ Nothing.fun = "none"
          BY <3>1, <4>2 DEF PduTypes, Nothing
        <5>2. run \notin Waits \cup {"idle"}
          BY <3>1, <4>2, RightAnswer DEF Paired, Nothing
        <5>3. QED
          BY <3>4, <5>1, <5>2 DEF Paired
      <4>3. QED
        BY <4>1, <4>2
    <3>6. QED
      BY <3>3, <3>5
  <2>5. QED
    BY <1>0, <1>1, <2>3, <2>4
<1>3. CASE SetCpuStatus(c)
  <2>1. worker[c].place = "control" /\ worker' = [worker EXCEPT ![c] = Idle] /\ UNCHANGED pduVars /\ Idle.place = "idle"
    BY <1>3 DEF SetCpuStatus, Idle
  <2>a. Leaves(c)
    BY <1>0, <2>1 DEF Leaves, WorkerTypes
  <2>2. WorkerTypes' /\ ~InRequest(c)' /\ \A d \in Conns \ {c} : worker'[d] = worker[d]
    BY <1>0, <1>1, <2>a, PlainWorker
  <2>3. \A d \in Conns : InRequest(d)' = InRequest(d)
    BY <2>1, <2>2 DEF InRequest
  <2>4. PduTypes' /\ run' = run
    BY <2>1 DEF PduTypes, pduVars, clientVars
  <2>5. InRequest(Me)' = InRequest(Me) /\ (InRequest(Me) => worker'[Me] = worker[Me])
    BY <2>1, <2>2, <2>3, MicroClientAssumption DEF InRequest
  <2>6. Paired'
    BY <2>1, <2>4, <2>5 DEF Paired, pduVars
  <2>7. QED
    BY <1>0, <1>1, <2>2, <2>4, <2>6
<1>4. QED
  BY <1>2, <1>3

\* A step of a worker in its request: it stays in it or sends its answer.
RequestGoesOn(c) ==
  /\ InRequest(c) /\ UNCHANGED request
  /\ DOMAIN worker' = Conns /\ WorkerOK(worker'[c]) /\ \A d \in Conns \ {c} : worker'[d] = worker[d]
  /\ \/ UNCHANGED answer /\ InRequest(c)' /\ worker'[c].fun = worker[c].fun
     \/ /\ DOMAIN answer' = Conns /\ answer'[c].fun = worker[c].fun /\ ~InRequest(c)'
        /\ \A d \in Conns \ {c} : answer'[d] = answer[d]

\* A worker that goes on with its read or write request keeps the invariant.
LEMMA RequestGoesOnKeeps ==
  ASSUME SessionInv, UNCHANGED clientVars, NEW c \in Conns, RequestGoesOn(c),
         UNCHANGED othersAlone, UNCHANGED FPDULength, AreaTypes'
  PROVE  SessionInv'
<1> USE MicroClientAssumption DEF SessionInv, RequestGoesOn
<1>1. ClientTypes' /\ AppTypes' /\ run' = run
  BY DEF ClientTypes, clientVars, loopVars, AppTypes, othersAlone
<1>2. worker[c].fun \in {"read", "write"}
  BY DEF WorkerTypes, WorkerOK, InRequest
<1>3. PduTypes'
  <2>1. DOMAIN answer' = Conns /\ \A d \in Conns : AnswerOK(answer'[d])
    BY <1>2 DEF PduTypes, AnswerOK
  <2>2. QED
    BY <2>1 DEF PduTypes
<1>4. WorkerTypes'
  <2>1. \A d \in Conns : WorkerOK(worker'[d])
    BY DEF WorkerTypes
  <2>2. QED
    BY <2>1 DEF WorkerTypes, WorkerOK, othersAlone
<1>5. Paired'
  <2>1. CASE c # Me
    <3>1. worker'[Me] = worker[Me] /\ answer'[Me] = answer[Me]
      BY <2>1
    <3>2. InRequest(Me)' = InRequest(Me)
      BY <3>1 DEF InRequest
    <3>3. QED
      BY <1>1, <3>1, <3>2 DEF Paired
  <2>2. CASE c = Me
    <3>1. run # "idle"
      BY <2>2 DEF Paired
    <3>2. run \in Waits => worker[Me].fun \in AskedBy(run) /\ request[Me] = Nothing /\ answer[Me] = Nothing
      BY <2>2 DEF Paired
    <3>3. run \in Waits => worker[Me].fun \in AnsweredBy(run)
      BY <1>2, <2>2, <3>2, RightAnswer
    <3>4. QED
      BY <1>1, <2>2, <3>1, <3>2, <3>3 DEF Paired
  <2>3. QED
    BY <2>1, <2>2
<1>6. QED
  BY <1>1, <1>3, <1>4, <1>5

\* What WorkerOK says of a worker in a request.
LEMMA WorkerInRequest ==
  ASSUME SessionInv, NEW c \in Conns, InRequest(c)
  PROVE  /\ WorkerOK(worker[c]) /\ DOMAIN worker = Conns /\ DOMAIN answer = Conns
         /\ {"place", "fun", "reply", "remainder", "items"} \subseteq DOMAIN worker[c]
         /\ worker[c].fun \in {"read", "write"}
         /\ IsSeq(worker[c].items) /\ IsSeq(worker[c].reply) /\ worker[c].items # <<>>
         /\ Len(worker[c].items) \in Nat /\ Len(worker[c].reply) \in Nat /\ Len(worker[c].reply) < Len(worker[c].items)
         /\ \A k \in DOMAIN worker[c].items : IsItem(worker[c].fun, worker[c].items[k])
         /\ IsItem(worker[c].fun, Item(c))
<1>1. WorkerOK(worker[c]) /\ DOMAIN worker = Conns /\ DOMAIN answer = Conns
  BY DEF SessionInv, WorkerTypes, PduTypes
<1>2. /\ {"place", "fun", "reply", "remainder", "items"} \subseteq DOMAIN worker[c]
      /\ worker[c].fun \in {"read", "write"}
      /\ IsSeq(worker[c].items) /\ IsSeq(worker[c].reply) /\ worker[c].items # <<>>
      /\ Len(worker[c].reply) < Len(worker[c].items)
      /\ \A k \in DOMAIN worker[c].items : IsItem(worker[c].fun, worker[c].items[k])
  BY <1>1 DEF WorkerOK, InRequest
<1>3. Len(worker[c].items) \in Nat /\ Len(worker[c].reply) \in Nat /\ DOMAIN worker[c].items = 1..Len(worker[c].items)
  BY <1>2, SeqFacts
<1>4. Len(worker[c].reply) + 1 \in DOMAIN worker[c].items
  BY <1>2, <1>3
<1>5. QED
  BY <1>1, <1>2, <1>3, <1>4 DEF Item

\* A worker that is done with an item, or with the request, keeps the invariant.
LEMMA ItemDoneKeeps ==
  ASSUME SessionInv, UNCHANGED clientVars, NEW c \in Conns, InRequest(c), UNCHANGED request,
         NEW r, ItemDone(c, r), UNCHANGED othersAlone, UNCHANGED FPDULength, AreaTypes'
  PROVE  SessionInv'
<1> DEFINE w == worker[c]
           v == worker'[c]
           reply == Append(w.reply, r)
<1>1. /\ DOMAIN worker = Conns /\ DOMAIN answer = Conns
      /\ {"place", "fun", "reply", "remainder", "items"} \subseteq DOMAIN w
      /\ w.fun \in {"read", "write"}
      /\ IsSeq(w.items) /\ IsSeq(w.reply) /\ w.items # <<>>
      /\ Len(w.items) \in Nat /\ Len(w.reply) \in Nat /\ Len(w.reply) < Len(w.items)
      /\ \A k \in DOMAIN w.items : IsItem(w.fun, w.items[k])
  BY WorkerInRequest
<1>2. IsSeq(reply) /\ Len(reply) = Len(w.reply) + 1
  BY <1>1, SeqAppend
<1> HIDE DEF reply
<1>3. CASE Len(reply) = Len(w.items)
  <2>1. worker' = [worker EXCEPT ![c] = Idle] /\ Send(c, [fun |-> w.fun, error |-> "ok", items |-> reply])
    BY <1>3 DEF ItemDone, reply
  <2>2. v.place = "idle" /\ DOMAIN worker' = Conns /\ \A d \in Conns \ {c} : worker'[d] = worker[d]
    BY <1>1, <2>1 DEF Idle
  <2>3. WorkerOK(v) /\ ~InRequest(c)'
    BY <2>2 DEF WorkerOK, InRequest
  <2>4. DOMAIN answer' = Conns /\ answer'[c].fun = w.fun /\ \A d \in Conns \ {c} : answer'[d] = answer[d]
    BY <1>1, <2>1 DEF Send
  <2>5. RequestGoesOn(c)
    BY <2>2, <2>3, <2>4 DEF RequestGoesOn
  <2>6. QED
    BY <2>5, RequestGoesOnKeeps
<1>4. CASE Len(reply) # Len(w.items)
  <2> DEFINE rest == IF w.fun = "read" THEN Remaining(Item(c), w.remainder) ELSE w.remainder
  <2>1. worker' = [worker EXCEPT ![c].reply = reply, ![c].place = "find", ![c].remainder = rest] /\ UNCHANGED answer
    BY <1>1, <1>4 DEF ItemDone, reply
  <2> HIDE DEF rest
  <2>2. DOMAIN worker' = Conns /\ \A d \in Conns \ {c} : worker'[d] = worker[d]
    BY <1>1, <2>1
  <2>3. v = [w EXCEPT !.reply = reply, !.place = "find", !.remainder = rest]
    BY <1>1, <2>1
  <2> HIDE DEF v
  <2>4. v.place = "find" /\ v.reply = reply /\ v.items = w.items /\ v.fun = w.fun /\ DOMAIN v = DOMAIN w
    BY <1>1, <2>3
  <2>5. WorkerOK(v)
    BY <1>1, <1>2, <1>4, <2>4 DEF WorkerOK
  <2>6. RequestGoesOn(c)
    BY <2>1, <2>2, <2>4, <2>5 DEF RequestGoesOn, InRequest, v
  <2>7. QED
    BY <2>6, RequestGoesOnKeeps
<1>5. QED
  BY <1>3, <1>4

\* A request to read or write that is taken: its items are those of the request,
\* or of a write what the server takes for them.
LEMMA ServingKeeps ==
  ASSUME SessionInv, UNCHANGED clientVars, NEW c \in Conns, NEW f \in {"read", "write"},
         NEW items, Serving(f, c, items),
         IsSeq(items), items # <<>>, \A k \in DOMAIN items : IsItem(f, items[k])
  PROVE  SessionInv'
<1> USE DEF SessionInv
<1> DEFINE w == [place |-> "find", fun |-> f, reply |-> <<>>, remainder |-> FPDULength[c], items |-> items]
<1>1. /\ Takes(c, f) /\ worker' = [worker EXCEPT ![c] = w] /\ UNCHANGED answer
      /\ UNCHANGED othersAlone /\ UNCHANGED <<mem, FPDULength>>
  BY DEF Serving, othersAlone, tableVars, appVars
<1>2. w.place = "find" /\ w.fun = f /\ w.reply = <<>> /\ w.items = items /\ DOMAIN w = {"place", "fun", "reply", "remainder", "items"}
  OBVIOUS
<1> HIDE DEF w
<1>3. WorkerOK(w)
  <2>1. Len(items) \in Nat /\ Len(items) > 0
    BY SeqFacts
  <2>2. IsSeq(w.reply) /\ Len(w.reply) = 0
    <3>1. IsSeq(<<>>) /\ Len(<<>>) = 0
      BY DEF IsSeq
    <3>2. QED
      BY <1>2, <3>1
  <2>3. QED
    BY <1>2, <2>1, <2>2 DEF WorkerOK
<1>4. DOMAIN worker' = Conns /\ worker'[c] = w /\ \A d \in Conns \ {c} : worker'[d] = worker[d]
  BY <1>1 DEF WorkerTypes
<1>5. WorkerTypes'
  <2>1. \A d \in Conns : WorkerOK(worker'[d])
    BY <1>3, <1>4 DEF WorkerTypes
  <2>2. QED
    BY <1>1, <1>4, <2>1 DEF WorkerTypes, WorkerOK, othersAlone
<1>6. AreaTypes' /\ AppTypes' /\ ClientTypes'
  BY <1>1 DEF AreaTypes, AppTypes, othersAlone, ClientTypes, clientVars, loopVars
<1>7. PduTypes' /\ Paired'
  <2>1. request' = [request EXCEPT ![c] = Nothing] /\ request[c].fun = f /\ IsRequest(Nothing)
    BY <1>1 DEF Takes, IsRequest, Nothing
  <2>2. PduTypes' /\ run' = run
    BY <1>1, <2>1 DEF PduTypes, clientVars
  <2>3. CASE c # Me
    <3>1. request'[Me] = request[Me] /\ worker'[Me] = worker[Me]
      BY <1>4, <2>1, <2>3, MicroClientAssumption DEF PduTypes
    <3>2. InRequest(Me)' = InRequest(Me)
      BY <3>1 DEF InRequest
    <3>3. QED
      BY <1>1, <2>2, <3>1, <3>2 DEF Paired
  <2>4. CASE c = Me
    <3>1. request'[Me] = Nothing /\ Nothing.fun = "none"
      BY <2>1, <2>4 DEF PduTypes, Nothing
    <3>2. run # "idle" /\ (run \in Waits => f \in AskedBy(run) /\ answer[Me] = Nothing)
      BY <2>1, <2>4 DEF Paired, Nothing
    <3>3. worker'[Me].fun = f
      BY <1>2, <1>4, <2>4
    <3>4. QED
      BY <1>1, <2>2, <3>1, <3>2, <3>3 DEF Paired
  <2>5. QED
    BY <2>2, <2>3, <2>4
<1>8. QED
  BY <1>5, <1>6, <1>7

\* PerformFunctionRead keeps the invariant: it has taken the request.
LEMMA ServeReadKeeps ==
  ASSUME SessionInv, UNCHANGED clientVars, NEW c \in Conns, PerformFunctionRead(c)
  PROVE  SessionInv'
<1> DEFINE s == request[c].items
           n == IF Len(s) > MaxVars THEN MaxVars ELSE Len(s)
           items == Items(c)
<1>1. request[c].fun = "read"
  BY DEF PerformFunctionRead, Serving, Takes
<1>2. IsSeq(s) /\ s # <<>> /\ \A k \in DOMAIN s : IsItem("read", s[k])
  BY <1>1 DEF SessionInv, PduTypes, IsRequest
<1>3. n \in Nat \ {0} /\ n <= Len(s)
  <2>1. Len(s) \in Nat /\ Len(s) > 0
    BY <1>2, SeqFacts
  <2>2. MaxVars \in Nat \ {0}
    BY S7PduAssumption
  <2>3. QED
    BY <2>1, <2>2
<1>4. items = SubSeq(s, 1, n)
  BY DEF Items
<1>5. Serving("read", c, items)
  BY DEF PerformFunctionRead
<1> HIDE DEF items, n, s
<1>6. IsSeq(items) /\ items # <<>> /\ DOMAIN items = 1..n /\ \A k \in 1..n : k \in DOMAIN s /\ items[k] = s[k]
  BY <1>2, <1>3, <1>4, SeqFront
<1>7. \A k \in DOMAIN items : IsItem("read", items[k])
  BY <1>2, <1>6
<1>8. QED
  BY <1>5, <1>6, <1>7, ServingKeeps

\* An item whose place the server takes from the wrong bytes of the request is still
\* an item.
LEMMA StrayItem ==
  ASSUME NEW it, NEW fits \in BOOLEAN, IsItem("write", it)
  PROVE  IsItem("write", Stray(it, fits))
<1> DEFINE data == [k \in DOMAIN it.data |-> [by |-> "stray", n |-> 0, at |-> StartByte(it) + k - 1, bit |-> NoBit]]
           dlen == IF fits THEN it.dlen ELSE it.dlen + 8
           t == Stray(it, fits)
<1>1. t = [it EXCEPT !.dlen = dlen, !.data = data]
  BY DEF Stray
<1>2. OneWriter(data)
  <2>1. 0 \in Numbers /\ "stray" \in Writers
    BY SessionConstants DEF Numbers, Writers
  <2>2. QED
    BY <2>1 DEF OneWriter, IsByte
<1>3. DOMAIN data = DOMAIN it.data
  OBVIOUS
<1> HIDE DEF data, dlen, t
<1>4. /\ DOMAIN t = DOMAIN it /\ t.area = it.area /\ t.wl = it.wl /\ t.address = it.address /\ t.length = it.length
      /\ t.data = data
  BY <1>1 DEF IsItem
<1>5. SizeOfItem(t) = SizeOfItem(it)
  BY <1>4 DEF SizeOfItem
<1>6. IsItem("write", t)
  BY <1>2, <1>3, <1>4, <1>5 DEF IsItem
<1>7. QED
  BY <1>6 DEF t

\* PerformFunctionWrite keeps the invariant, also when it takes items from the wrong
\* place.
LEMMA ServeWriteKeeps ==
  ASSUME SessionInv, UNCHANGED clientVars, NEW c \in Conns, PerformFunctionWrite(c)
  PROVE  SessionInv'
<1> DEFINE s == request[c].items
<1>1. PICK fits \in BOOLEAN :
        Serving("write", c, [k \in DOMAIN s |-> IF Placed(s, k) THEN s[k] ELSE Stray(s[k], fits)])
  BY DEF PerformFunctionWrite
<1> DEFINE items == [k \in DOMAIN s |-> IF Placed(s, k) THEN s[k] ELSE Stray(s[k], fits)]
           n == Len(s)
<1>2. request[c].fun = "write"
  BY <1>1 DEF Serving, Takes
<1>3. IsSeq(s) /\ s # <<>> /\ \A k \in DOMAIN s : IsItem("write", s[k])
  BY <1>2 DEF SessionInv, PduTypes, IsRequest
<1>4. n \in Nat /\ n > 0 /\ DOMAIN s = 1..n
  BY <1>3, SeqFacts
<1>5. items = [k \in 1..n |-> items[k]] /\ DOMAIN items = 1..n
  BY <1>4
<1>6. \A k \in DOMAIN items : IsItem("write", items[k])
  BY <1>3, <1>5, StrayItem
<1>7. Serving("write", c, items)
  BY <1>1
<1> HIDE DEF items, n
<1>8. IsSeq(items) /\ items # <<>>
  BY <1>4, <1>5, SeqFunction
<1>9. QED
  BY <1>6, <1>7, <1>8, ServingKeeps

\* An item that passes the checks lies inside the memory of its area.
LEMMA ItemInArea ==
  ASSUME AreaTypes, NEW f, NEW it, IsItem(f, it), Registered(it.area), ~OutOfRange(it)
  PROVE  InArea(it)
<1>1. it.area \in Areas /\ size[it.area] \in Nat /\ size[it.area] <= AreaSize[it.area] /\ AreaSize[it.area] \in Nat
  BY RegisteredArea, S7ServerAssumption
<1>2. StartByte(it) \in Nat
  BY DEF StartByte, IsItem
<1>3. SizeOfItem(it) \in Int
  BY ElementBytes DEF SizeOfItem, IsItem
<1>4. StartByte(it) + SizeOfItem(it) <= size[it.area]
  BY <1>1, <1>2, <1>3 DEF OutOfRange
<1>5. QED
  BY <1>1, <1>2, <1>3, <1>4 DEF InArea

\* FindArea and the checks of the bounds keep the invariant: an item that goes on
\* lies in its area.
LEMMA FindKeeps ==
  ASSUME SessionInv, UNCHANGED clientVars, NEW c \in Conns, ReadAreaFind(c) \/ WriteAreaFind(c)
  PROVE  SessionInv'
<1> DEFINE w == worker[c]
           v == worker'[c]
<1>1. w.place = "find" /\ InRequest(c)
  BY DEF ReadAreaFind, WriteAreaFind, InRequest
<1>2. UNCHANGED request /\ UNCHANGED othersAlone /\ UNCHANGED <<FPDULength, mem>> /\ AreaTypes'
  BY DEF ReadAreaFind, WriteAreaFind, othersAlone, tableVars, appVars, SessionInv, AreaTypes
<1>3. CASE \E r : ItemDone(c, r)
  BY <1>1, <1>2, <1>3, ItemDoneKeeps
<1>4. CASE /\ worker' = [worker EXCEPT ![c].place = "copy"] /\ UNCHANGED answer
           /\ Registered(Item(c).area) /\ ~OutOfRange(Item(c))
  <2>1. /\ DOMAIN worker = Conns /\ WorkerOK(w)
        /\ {"place", "fun", "reply", "remainder", "items"} \subseteq DOMAIN w
        /\ IsItem(w.fun, Item(c))
    BY <1>1, WorkerInRequest
  <2>2. InArea(Item(c))
    BY <1>4, <2>1, ItemInArea DEF SessionInv
  <2>3. DOMAIN worker' = Conns /\ v = [w EXCEPT !.place = "copy"] /\ \A d \in Conns \ {c} : worker'[d] = worker[d]
    BY <1>4, <2>1
  <2> HIDE DEF v
  <2>4. v.place = "copy" /\ v.fun = w.fun /\ v.items = w.items /\ v.reply = w.reply /\ DOMAIN v = DOMAIN w
    BY <2>1, <2>3
  <2>5. WorkerOK(v)
    BY <1>1, <2>1, <2>2, <2>4 DEF WorkerOK, Item
  <2>6. RequestGoesOn(c)
    BY <1>1, <1>2, <1>4, <2>3, <2>4, <2>5 DEF RequestGoesOn, InRequest, v
  <2>7. QED
    BY <1>2, <2>6, RequestGoesOnKeeps
<1>5. \/ \E r : ItemDone(c, r)
      \/ /\ worker' = [worker EXCEPT ![c].place = "copy"] /\ UNCHANGED answer
         /\ Registered(Item(c).area) /\ ~OutOfRange(Item(c))
  <2>1. CASE ReadAreaFind(c)
    BY <2>1 DEF ReadAreaFind, ReadAreaCheck
  <2>2. CASE WriteAreaFind(c)
    BY <2>2 DEF WriteAreaFind, WriteAreaCheck
  <2>3. QED
    BY <2>1, <2>2
<1>6. QED
  BY <1>3, <1>4, <1>5

\* The item a worker copies or stores lies inside its area.
LEMMA ItemInHand ==
  ASSUME SessionInv, NEW c \in Conns, worker[c].place \in {"copy", "store"}
  PROVE  /\ InRequest(c) /\ IsItem(worker[c].fun, Item(c)) /\ Item(c).area \in Areas
         /\ StartByte(Item(c)) \in Nat /\ SizeOfItem(Item(c)) \in Int
         /\ AreaSize[Item(c).area] \in Nat
         /\ StartByte(Item(c)) + SizeOfItem(Item(c)) <= AreaSize[Item(c).area]
<1>1. InRequest(c)
  BY DEF InRequest
<1>2. WorkerOK(worker[c]) /\ IsItem(worker[c].fun, Item(c))
  BY <1>1, WorkerInRequest
<1>3. InArea(Item(c))
  BY <1>2 DEF WorkerOK, Item
<1>4. StartByte(Item(c)) \in Nat
  BY <1>2 DEF StartByte, IsItem
<1>5. SizeOfItem(Item(c)) \in Int
  BY <1>2, ElementBytes DEF SizeOfItem, IsItem
<1>6. QED
  BY <1>1, <1>2, <1>3, <1>4, <1>5, S7ServerAssumption DEF InArea

\* Of a bit there is one byte.
LEMMA BitItem ==
  ASSUME NEW it, IsItem("write", it), it.wl = "Bit"
  PROVE  /\ SizeOfItem(it) >= 1 /\ it.area \in BitAreas /\ 1 \in DOMAIN it.data
         /\ SizeOfItem(it) = it.length
<1>1. SizeOfItem(it) = it.length /\ it.length \in Int /\ it.length >= 1
  BY ElementBytes DEF SizeOfItem, IsItem
<1>2. DOMAIN it.data = 1..SizeOfItem(it) /\ it.area \in BitAreas
  BY DEF IsItem
<1>3. QED
  BY <1>1, <1>2

\* One byte of one area changes, or several.
LEMMA AreaChanges ==
  ASSUME AreaTypes, NEW a \in Areas, UNCHANGED <<size, HA>>,
         DOMAIN mem' = Areas, \A b \in Areas \ {a} : mem'[b] = mem[b],
         mem'[a] = [i \in 0..AreaSize[a] - 1 |-> mem'[a][i]],
         \A i \in 0..AreaSize[a] - 1 : IsByte(mem'[a][i])
  PROVE  AreaTypes'
<1>1. \A b \in Areas : /\ mem'[b] = [i \in 0..AreaSize[b] - 1 |-> mem'[b][i]]
                       /\ \A i \in DOMAIN mem'[b] : IsByte(mem'[b][i])
  <2>1. ASSUME NEW b \in Areas, b # a
        PROVE  mem'[b] = [i \in 0..AreaSize[b] - 1 |-> mem'[b][i]] /\ \A i \in DOMAIN mem'[b] : IsByte(mem'[b][i])
    BY <2>1 DEF AreaTypes
  <2>2. QED
    BY <2>1
<1>2. QED
  BY <1>1 DEF AreaTypes, IsByte

\* A byte of an area changes.
LEMMA OneByteChanges ==
  ASSUME AreaTypes, NEW a \in Areas, NEW i, NEW x, IsByte(x), UNCHANGED <<size, HA>>,
         mem' = [mem EXCEPT ![a][i] = x]
  PROVE  AreaTypes'
<1>1. DOMAIN mem' = Areas /\ \A b \in Areas \ {a} : mem'[b] = mem[b]
  BY DEF AreaTypes
<1>2. mem[a] = [k \in 0..AreaSize[a] - 1 |-> mem[a][k]] /\ \A k \in 0..AreaSize[a] - 1 : IsByte(mem[a][k])
  BY DEF AreaTypes
<1>3. mem'[a] = [mem[a] EXCEPT ![i] = x]
  BY DEF AreaTypes
<1>4. mem'[a] = [k \in 0..AreaSize[a] - 1 |-> IF k = i THEN x ELSE mem[a][k]]
  BY <1>2, <1>3
<1>5. mem'[a] = [k \in 0..AreaSize[a] - 1 |-> mem'[a][k]] /\ \A k \in 0..AreaSize[a] - 1 : IsByte(mem'[a][k])
  BY <1>2, <1>4
<1>6. QED
  BY <1>1, <1>5, AreaChanges

\* ReadArea and WriteArea keep the invariant.
LEMMA CopyKeeps ==
  ASSUME SessionInv, UNCHANGED clientVars, NEW c \in Conns, ReadAreaCopy(c) \/ WriteAreaCopy(c)
  PROVE  SessionInv'
<1>1. worker[c].place = "copy" /\ InRequest(c)
  BY DEF ReadAreaCopy, WriteAreaCopy, InRequest
<1>2. UNCHANGED request /\ UNCHANGED othersAlone /\ UNCHANGED FPDULength
  BY DEF ReadAreaCopy, WriteAreaCopy, othersAlone, tableVars, appVars
<1>3. CASE ReadAreaCopy(c)
  <2>1. \E r : ItemDone(c, r)
    BY <1>3 DEF ReadAreaCopy
  <2>2. AreaTypes'
    BY <1>3 DEF ReadAreaCopy, tableVars, SessionInv, AreaTypes
  <2>3. QED
    BY <1>1, <1>2, <2>1, <2>2, ItemDoneKeeps
<1>4. CASE WriteAreaCopy(c)
  <2> DEFINE it == Item(c)
             at == StartByte(it)
             n == SizeOfItem(it)
             a == it.area
  <2>1. worker[c].fun = "write"
    BY <1>4 DEF WriteAreaCopy
  <2>2. a \in Areas /\ at \in Nat /\ n \in Int /\ IsItem("write", it)
    BY <1>1, <2>1, ItemInHand
  <2>3. mem' = [mem EXCEPT ![a] = [i \in DOMAIN @ |-> IF i \in at..at + n - 1 THEN it.data[i - at + 1] ELSE @[i]]]
    BY <1>4 DEF WriteAreaCopy
  <2>4. \A i \in at..at + n - 1 : IsByte(it.data[i - at + 1])
    <3>1. \A k \in 1..n : IsByte(it.data[k])
      BY <2>2 DEF IsItem, OneWriter
    <3> HIDE DEF it, at, n
    <3>2. \A i \in at..at + n - 1 : i - at + 1 \in 1..n
      BY <2>2
    <3>3. QED
      BY <3>1, <3>2
  <2>5. ItemDone(c, "ok") /\ UNCHANGED <<size, HA>>
    BY <1>4 DEF WriteAreaCopy, tableVars
  <2> HIDE DEF it, at, n, a
  <2>6. AreaTypes'
    <3>1. mem[a] = [k \in 0..AreaSize[a] - 1 |-> mem[a][k]] /\ (\A k \in 0..AreaSize[a] - 1 : IsByte(mem[a][k])) /\ DOMAIN mem = Areas
      BY <2>2 DEF SessionInv, AreaTypes
    <3>2. DOMAIN mem' = Areas /\ \A b \in Areas \ {a} : mem'[b] = mem[b]
      BY <2>2, <2>3, <3>1
    <3>3. mem'[a] = [i \in 0..AreaSize[a] - 1 |-> IF i \in at..at + n - 1 THEN it.data[i - at + 1] ELSE mem[a][i]]
      BY <2>2, <2>3, <3>1
    <3>4. mem'[a] = [i \in 0..AreaSize[a] - 1 |-> mem'[a][i]] /\ \A i \in 0..AreaSize[a] - 1 : IsByte(mem'[a][i])
      BY <2>4, <3>1, <3>3
    <3>5. QED
      BY <2>2, <2>5, <3>2, <3>4, AreaChanges DEF SessionInv
  <2>7. QED
    BY <1>1, <1>2, <2>5, <2>6, ItemDoneKeeps
<1>5. QED
  BY <1>3, <1>4

\* Load and store of a bit's byte keep the invariant.
LEMMA WriteBitKeeps ==
  ASSUME SessionInv, UNCHANGED clientVars, NEW c \in Conns, WriteBitLoad(c) \/ WriteBitStore(c)
  PROVE  SessionInv'
<1> DEFINE w == worker[c]
           v == worker'[c]
           it == Item(c)
           at == StartByte(it)
<1>1. w.place \in {"copy", "store"} /\ InRequest(c)
  BY DEF WriteBitLoad, WriteBitStore, InRequest
<1>2. UNCHANGED request /\ UNCHANGED othersAlone /\ UNCHANGED <<FPDULength, size, HA>>
  BY DEF WriteBitLoad, WriteBitStore, pduVars, othersAlone, tableVars, appVars
<1>3. /\ WorkerOK(w) /\ DOMAIN worker = Conns
      /\ IsItem(w.fun, it) /\ it.area \in Areas /\ at \in Nat /\ SizeOfItem(it) \in Int /\ AreaSize[it.area] \in Nat
      /\ at + SizeOfItem(it) <= AreaSize[it.area]
  BY <1>1, WorkerInRequest, ItemInHand
<1>4. w.fun = "write" /\ it.wl = "Bit"
  BY <1>1, <1>3 DEF WriteBitLoad, WriteBitStore, WorkerOK, Item
<1>5. SizeOfItem(it) >= 1
  BY <1>3, <1>4, BitItem
<1>6. at \in 0..AreaSize[it.area] - 1
  <2> HIDE DEF it, at
  <2>1. QED
    BY <1>3, <1>5
<1>7. CASE WriteBitLoad(c)
  <2>1. /\ w.place = "copy" /\ UNCHANGED answer /\ UNCHANGED mem
        /\ worker' = [worker EXCEPT ![c] =
             [place |-> "store", fun |-> "write", reply |-> @.reply, items |-> @.items, remainder |-> @.remainder,
              byte |-> mem[it.area][at]]]
    BY <1>7 DEF WriteBitLoad, pduVars
  <2>2. DOMAIN worker' = Conns /\ \A d \in Conns \ {c} : worker'[d] = worker[d]
    BY <1>3, <2>1
  <2>3. /\ v.place = "store" /\ v.fun = "write" /\ v.reply = w.reply /\ v.items = w.items /\ v.byte = mem[it.area][at]
        /\ DOMAIN v = {"place", "fun", "reply", "remainder", "items", "byte"}
    BY <1>3, <2>1
  <2>4. IsByte(v.byte)
    BY <1>3, <1>6, <2>3 DEF SessionInv, AreaTypes
  <2>5. AreaTypes'
    BY <1>2, <2>1 DEF SessionInv, AreaTypes
  <2> HIDE DEF v
  <2>6. WorkerOK(v)
    BY <1>3, <1>4, <2>1, <2>3, <2>4 DEF WorkerOK, Item
  <2>7. RequestGoesOn(c)
    BY <1>1, <1>2, <1>4, <2>1, <2>2, <2>3, <2>6 DEF RequestGoesOn, InRequest, v
  <2>8. QED
    BY <1>2, <2>5, <2>7, RequestGoesOnKeeps
<1>8. CASE WriteBitStore(c)
  <2> DEFINE x == [w.byte EXCEPT !.bit = [by |-> it.data[1].by, n |-> it.data[1].n, at |-> it.data[1].at]]
  <2>1. mem' = [mem EXCEPT ![it.area][at] = x] /\ ItemDone(c, "ok") /\ w.place = "store"
    BY <1>8 DEF WriteBitStore
  <2>2. IsByte(w.byte)
    BY <1>3, <2>1 DEF WorkerOK
  <2>3. IsByte(x)
    BY <2>2 DEF IsByte
  <2> HIDE DEF x
  <2>4. AreaTypes'
    BY <1>2, <1>3, <2>1, <2>3, OneByteChanges DEF SessionInv
  <2>5. QED
    BY <1>1, <1>2, <2>1, <2>4, ItemDoneKeeps
<1>9. QED
  BY <1>7, <1>8

\* A worker's steps keep the invariant.
LEMMA WorkerStepKeeps ==
  ASSUME SessionInv, UNCHANGED clientVars, NEW c \in Conns, WorkerStep(c)
  PROVE  SessionInv'
BY FixedAnswers, TellingAnswers, Unanswered, ServeReadKeeps, ServeWriteKeeps, FindKeeps, CopyKeeps, WriteBitKeeps
   DEF WorkerStep

-----------------------------------------------------------------------------
(* The application, the second station and the PLC.                        *)

\* A step of the application that keeps its own and the areas' types keeps the
\* invariant.
LEMMA AppTypesStay ==
  ASSUME SessionInv, UNCHANGED <<clientVars, pduVars, workerVars, ForcePDU>>, AreaTypes', AppTypes'
  PROVE  SessionInv'
<1> USE DEF SessionInv
<1>1. PduTypes' /\ ClientTypes' /\ WorkerTypes' /\ run' = run /\ UNCHANGED <<request, answer, worker>>
  BY DEF PduTypes, ClientTypes, WorkerTypes, WorkerOK, clientVars, loopVars, pduVars, workerVars
<1>2. Paired'
  BY <1>1 DEF Paired, InRequest
<1>3. QED
  BY <1>1, <1>2

\* The application's steps keep the invariant: it holds the lock of an area exactly
\* while it updates it.
LEMMA AppStepKeeps == SessionInv /\ AppStep /\ UNCHANGED clientVars => SessionInv'
<1> SUFFICES ASSUME SessionInv, AppStep, UNCHANGED clientVars PROVE SessionInv'
  OBVIOUS
<1> USE DEF SessionInv
<1>1. UNCHANGED <<pduVars, workerVars, ForcePDU>>
  BY DEF AppStep, RegisterDB, RegisterSys, UnregisterDB, UnregisterSys, LockArea, CountDB, LimitDB, UncountDB, UpdateByte, UnlockArea
<1>2. ASSUME NEW o \in AppOps, RegisterDB(o) \/ RegisterSys(o)
      PROVE  AreaTypes' /\ AppTypes'
  <2>1. o.area \in Areas /\ o.size \in Nat /\ o.size <= AreaSize[o.area]
    <3>1. o.op = "register"
      BY <1>2 DEF RegisterDB, RegisterSys
    <3>2. o.area \in Areas /\ o.size \in 0..AreaSize[o.area] /\ AreaSize[o.area] \in Nat
      BY <3>1, S7ServerAssumption
    <3>3. QED
      BY <3>2
  <2>2. size' = [size EXCEPT ![o.area] = o.size] /\ UNCHANGED <<mem, lock, updates>> /\ HA' \subseteq SysAreas
    BY <1>2 DEF RegisterDB, RegisterSys, AreaTypes
  <2>3. AreaTypes'
    BY <2>1, <2>2 DEF AreaTypes
  <2>4. appOps \in Nat /\ appOps > 0 /\ appOps' = appOps - 1 /\ app.place = "idle" /\ (app' = app \/ (app'.place = "count" /\ "place" \in DOMAIN app'))
    BY <1>2 DEF RegisterDB, RegisterSys, Calls, AppTypes
  <2>5. AppTypes'
    BY <2>2, <2>4, SessionConstants DEF AppTypes
  <2>6. QED
    BY <2>3, <2>5
<1>3. ASSUME NEW o \in AppOps, UnregisterDB(o) \/ UnregisterSys(o)
      PROVE  AreaTypes' /\ AppTypes'
  <2>1. UNCHANGED <<size, mem, lock, updates>> /\ HA' \subseteq SysAreas
    BY <1>3 DEF UnregisterDB, UnregisterSys, AreaTypes
  <2>2. appOps \in Nat /\ appOps > 0 /\ appOps' = appOps - 1 /\ app.place = "idle" /\ (app' = app \/ (app'.place = "uncount" /\ "place" \in DOMAIN app'))
    BY <1>3 DEF UnregisterDB, UnregisterSys, Calls, AppTypes
  <2>3. AreaTypes'
    BY <2>1 DEF AreaTypes
  <2>4. AppTypes'
    BY <2>1, <2>2, SessionConstants DEF AppTypes
  <2>5. QED
    BY <2>3, <2>4
<1>4. ASSUME NEW o \in AppOps, LockArea(o)
      PROVE  AreaTypes' /\ AppTypes'
  <2>1. /\ o.area \in Areas /\ UNCHANGED <<size, HA, mem>>
        /\ lock' = [lock EXCEPT ![o.area] = "app"] /\ updates' = updates + 1
        /\ appOps \in Nat /\ appOps > 0 /\ appOps' = appOps - 1 /\ app.place = "idle"
    BY <1>4, RegisteredArea DEF LockArea, Calls, AppTypes, tableVars
  <2>2. app' = [place |-> "update", area |-> o.area, left |-> Shared]
    BY <1>4 DEF LockArea
  <2>3. app'.place = "update" /\ app'.area = o.area /\ app'.left = Shared /\ app' = [place |-> "update", area |-> app'.area, left |-> app'.left]
    BY <2>2
  <2>4. lock = [a \in Areas |-> "none"]
    BY <2>1 DEF AppTypes
  <2>5. lock' = [a \in Areas |-> IF a = o.area THEN "app" ELSE "none"]
    BY <2>1, <2>4
  <2>6. AppTypes'
    BY <2>1, <2>3, <2>5, SessionConstants DEF AppTypes
  <2>7. QED
    BY <2>1, <2>6 DEF AreaTypes
<1>5. ASSUME CountDB \/ LimitDB \/ UncountDB
      PROVE  AreaTypes' /\ AppTypes'
  <2>1. UNCHANGED <<size, HA, mem, lock, updates, appOps>> /\ app.place \in {"count", "limit", "uncount"}
    BY <1>5 DEF CountDB, LimitDB, UncountDB
  <2>2. app'.place \in {"limit", "idle", app.place} /\ "place" \in DOMAIN app'
    BY <1>5, <2>1 DEF CountDB, LimitDB, UncountDB, AppIdle, AppTypes
  <2>3. AppTypes'
    BY <2>1, <2>2 DEF AppTypes
  <2>4. QED
    BY <2>1, <2>3 DEF AreaTypes
<1>6. ASSUME UpdateByte
      PROVE  AreaTypes' /\ AppTypes'
  <2>1. PICK i \in app.left : /\ mem' = [mem EXCEPT ![app.area][i] = [by |-> "app", n |-> updates, at |-> i, bit |-> NoBit]]
                              /\ app' = [app EXCEPT !.left = @ \ {i}]
    BY <1>6 DEF UpdateByte
  <2>2. app.place = "update" /\ UNCHANGED <<size, HA, lock, updates, appOps>>
    BY <1>6 DEF UpdateByte, tableVars
  <2>3. app = [place |-> "update", area |-> app.area, left |-> app.left] /\ app.area \in Areas /\ app.left \subseteq Shared
    BY <2>2 DEF AppTypes
  <2> DEFINE x == [by |-> "app", n |-> updates, at |-> i, bit |-> NoBit]
  <2>4. IsByte(x)
    BY DEF IsByte
  <2>5. mem' = [mem EXCEPT ![app.area][i] = x]
    BY <2>1
  <2> HIDE DEF x
  <2>6. AreaTypes'
    BY <2>2, <2>3, <2>4, <2>5, OneByteChanges
  <2>7. app' = [place |-> "update", area |-> app.area, left |-> app.left \ {i}]
    BY <2>1, <2>3
  <2>8. AppTypes'
    BY <2>2, <2>3, <2>7 DEF AppTypes
  <2>9. QED
    BY <2>6, <2>8
<1>7. ASSUME UnlockArea
      PROVE  AreaTypes' /\ AppTypes'
  <2>1. app.place = "update" /\ lock' = [lock EXCEPT ![app.area] = "none"] /\ app' = AppIdle /\ UNCHANGED <<size, HA, mem, updates, appOps>>
    BY <1>7 DEF UnlockArea, tableVars
  <2>2. lock' = [a \in Areas |-> "none"]
    BY <2>1 DEF AppTypes
  <2>3. AppTypes'
    BY <2>1, <2>2 DEF AppTypes, AppIdle
  <2>4. QED
    BY <2>1, <2>3 DEF AreaTypes
<1>8. AreaTypes' /\ AppTypes'
  BY <1>2, <1>3, <1>4, <1>5, <1>6, <1>7 DEF AppStep
<1>9. QED
  BY <1>1, <1>8, AppTypesStay

\* The second station's request keeps the invariant.
LEMMA StationKeeps == SessionInv /\ StationAsks => SessionInv'
<1> SUFFICES ASSUME SessionInv, StationAsks PROVE SessionInv'
  OBVIOUS
<1> USE DEF SessionInv
<1>1. PICK r \in StationRequests : request' = [request EXCEPT ![Station] = r]
  BY DEF StationAsks
<1>2. UNCHANGED answer /\ UNCHANGED clientVars /\ UNCHANGED serverVars
  BY DEF StationAsks
<1>3. Station \in Conns /\ Station # Me /\ Me \in Conns /\ IsRequest(r)
  BY S7SessionAssumption, MicroClientAssumption
<1>4. request'[Me] = request[Me] /\ PduTypes'
  BY <1>1, <1>2, <1>3 DEF PduTypes
<1>5. WorkerTypes' /\ AreaTypes' /\ AppTypes' /\ ClientTypes' /\ run' = run
  BY <1>2 DEF WorkerTypes, WorkerOK, AreaTypes, AppTypes, ClientTypes, serverVars, tableVars, workerVars, appVars, clientVars, loopVars
<1>6. InRequest(Me)' = InRequest(Me) /\ worker' = worker
  BY <1>2 DEF InRequest, serverVars, workerVars
<1>7. Paired'
  BY <1>2, <1>4, <1>5, <1>6 DEF Paired
<1>8. QED
  BY <1>4, <1>5, <1>7

\* The PLC leaves everything but the two PDUs of the client's connection alone.
LEMMA PlcKeeps ==
  ASSUME SessionInv, UNCHANGED clientVars, UNCHANGED serverVars,
         DOMAIN request' = Conns, DOMAIN answer' = Conns,
         \A c \in Conns \ {Me} : request'[c] = request[c] /\ answer'[c] = answer[c],
         request'[Me] = Nothing, AnswerOK(answer'[Me]), run # "idle",
         run \in Waits => ~InRequest(Me) /\ (answer'[Me] = Nothing \/ answer'[Me].fun \in AnsweredBy(run))
  PROVE  SessionInv'
<1> USE DEF SessionInv
<1>1. WorkerTypes' /\ AreaTypes' /\ AppTypes' /\ ClientTypes' /\ run' = run
  BY DEF WorkerTypes, WorkerOK, AreaTypes, AppTypes, ClientTypes, serverVars, tableVars, workerVars, appVars, clientVars, loopVars
<1>2. IsRequest(Nothing) /\ Nothing.fun = "none"
  BY DEF IsRequest, Nothing
<1>3. PduTypes'
  <2>1. \A c \in Conns : IsRequest(request'[c]) /\ AnswerOK(answer'[c])
    BY <1>2 DEF PduTypes
  <2>2. QED
    BY <2>1 DEF PduTypes, AnswerOK, IsRequest
<1>4. InRequest(Me)' = InRequest(Me)
  BY DEF InRequest, serverVars, workerVars
<1>5. Paired'
  BY <1>1, <1>2, <1>4 DEF Paired
<1>6. QED
  BY <1>1, <1>3, <1>5

\* The PLC takes a request only of a client that waits for its answer.
LEMMA PlcTakesAlone ==
  ASSUME SessionInv, NEW f, f # "none", PlcTakes(f)
  PROVE  /\ DOMAIN request' = Conns /\ request'[Me] = Nothing
         /\ \A c \in Conns \ {Me} : request'[c] = request[c]
         /\ run # "idle"
         /\ run \in Waits => f \in AskedBy(run) /\ ~InRequest(Me) /\ answer[Me] = Nothing
<1>1. request[Me].fun = f /\ request[Me] # Nothing /\ request' = [request EXCEPT ![Me] = Nothing]
  BY DEF PlcTakes, Nothing
<1>2. QED
  BY <1>1, MicroClientAssumption DEF SessionInv, PduTypes, Paired

\* An answer of the PLC that fits the request keeps the invariant.
LEMMA PlcAnswers ==
  ASSUME SessionInv, UNCHANGED clientVars, UNCHANGED serverVars, NEW f, f # "none", PlcTakes(f),
         NEW a, PlcSends(a), AnswerOK(a), \A g \in Waits : f \in AskedBy(g) => a.fun \in AnsweredBy(g)
  PROVE  SessionInv'
<1>1. DOMAIN answer' = Conns /\ answer'[Me] = a /\ \A c \in Conns \ {Me} : answer'[c] = answer[c]
  BY MicroClientAssumption DEF PlcSends, SessionInv, PduTypes
<1>2. QED
  BY <1>1, PlcTakesAlone, PlcKeeps

\* A request the PLC takes without an answer keeps the invariant.
LEMMA PlcSilent ==
  ASSUME SessionInv, UNCHANGED clientVars, UNCHANGED serverVars, NEW f, f # "none", PlcTakes(f), UNCHANGED answer
  PROVE  SessionInv'
<1>1. DOMAIN answer' = Conns /\ AnswerOK(answer'[Me]) /\ (run \in Waits => answer'[Me] = Nothing)
  BY PlcTakesAlone, MicroClientAssumption DEF SessionInv, PduTypes
<1>2. QED
  BY <1>1, PlcTakesAlone, PlcKeeps

\* An answer with the name of its request.
LEMMA NamedAnswer ==
  ASSUME NEW f \in {"negotiate", "startupload", "upload", "endupload", "reqdownload", "start", "stop", "szl",
                    "password", "getclock", "setclock", "listall", "blkinfo", "read", "write"},
         NEW g \in Waits, f \in AskedBy(g)
  PROVE  f \in AnsweredBy(g)
BY DEF Waits, AskedBy, AnsweredBy

\* The PLC's steps keep the invariant.
LEMMA PlcStepKeeps == SessionInv /\ UNCHANGED clientVars /\ UNCHANGED serverVars /\ PlcStep => SessionInv'
<1> SUFFICES ASSUME SessionInv, UNCHANGED clientVars, UNCHANGED serverVars, PlcStep PROVE SessionInv'
  OBVIOUS
<1> DEFINE Named == {"negotiate", "startupload", "upload", "endupload", "reqdownload", "start", "stop", "szl",
                     "password", "getclock", "setclock", "listall", "blkinfo", "read", "write"}
<1>1. ASSUME NEW f \in Named, PlcTakes(f), NEW a, PlcSends(a), a.fun = f, AnswerOK(a)
      PROVE  SessionInv'
  BY <1>1, NamedAnswer, PlcAnswers
<1>2. ASSUME NEW f \in Named \ {"negotiate", "upload", "blkinfo"}, PlcTakes(f), NEW a, PlcSends(a), a.fun = f
      PROVE  SessionInv'
  <2>1. AnswerOK(a)
    BY <1>2 DEF AnswerOK
  <2>2. QED
    BY <1>1, <1>2, <2>1
<1>3. CASE PlcConnects
  <2>1. CASE PlcTakes("connect") /\ PlcSends([fun |-> "confirm"])
    <3> DEFINE a == [fun |-> "confirm"]
    <3>1. a.fun = "confirm"
      OBVIOUS
    <3> HIDE DEF a
    <3>2. AnswerOK(a) /\ \A g \in Waits : "connect" \in AskedBy(g) => a.fun \in AnsweredBy(g)
      BY <3>1, RightAnswer DEF AnswerOK
    <3>3. PlcSends(a)
      BY <2>1 DEF a
    <3>4. QED
      BY <2>1, <3>2, <3>3, PlcAnswers
  <2>2. ASSUME PlcTakes("negotiate"), NEW error, NEW whole, NEW length \in {MinPduSize, request[Me].length},
               PlcSends([fun |-> "negotiate", error |-> error, whole |-> whole, length |-> length])
        PROVE  SessionInv'
    <3> DEFINE a == [fun |-> "negotiate", error |-> error, whole |-> whole, length |-> length]
    <3>1. a.fun = "negotiate" /\ a.length \in {MinPduSize, PDURequest}
      BY <2>2 DEF PlcTakes, SessionInv, Paired
    <3> HIDE DEF a
    <3>2. AnswerOK(a)
      BY <3>1, S7SessionAssumption, SessionConstants DEF AnswerOK
    <3>3. PlcSends(a)
      BY <2>2 DEF a
    <3>4. QED
      BY <1>1, <2>2, <3>1, <3>2, <3>3
  <2>3. QED
    BY <1>3, <2>1, <2>2 DEF PlcConnects
<1>4. CASE PlcUploads
  <2>1. ASSUME PlcTakes("startupload"), NEW error, PlcSends([fun |-> "startupload", error |-> error]) PROVE SessionInv'
    BY <1>2, <2>1
  <2>2. ASSUME PlcTakes("upload"), NEW a, PlcSends(a), a.fun = "upload", a.error = "ok" => a.mc7 \in {0, MC7}
        PROVE SessionInv'
    <3>1. AnswerOK(a)
      BY <2>2, S7SessionAssumption DEF AnswerOK
    <3>2. QED
      BY <1>1, <2>2, <3>1
  <2>3. ASSUME PlcTakes("endupload"), NEW error, PlcSends([fun |-> "endupload", error |-> error]) PROVE SessionInv'
    BY <1>2, <2>3
  <2>4. CASE PlcTakes("upload") /\ PlcSends([fun |-> "upload", error |-> "refused"])
    BY <2>2, <2>4
  <2>5. ASSUME PlcTakes("upload"), NEW n \in Slices, NEW mc7 \in {0, MC7},
               PlcSends([fun |-> "upload", error |-> "ok", mc7 |-> mc7, eou |-> plc.pos + n = LoadSize,
                         data |-> [k \in 1..n |-> plc.pos + k]])
        PROVE  SessionInv'
    BY <2>2, <2>5
  <2>6. QED
    BY <1>4, <2>1, <2>3, <2>4, <2>5 DEF PlcUploads
<1>5. CASE PlcDownloads
  <2>1. ASSUME PlcTakes("reqdownload"), NEW error, PlcSends([fun |-> "reqdownload", error |-> error]) PROVE SessionInv'
    BY <1>2, <2>1
  <2>2. ASSUME run \in {"serve", "ended"}, request[Me] = Nothing, answer[Me] = Nothing, UNCHANGED request,
               NEW a, PlcSends(a), a.fun \in {"download", "downloadended", "other"}
        PROVE  SessionInv'
    <3>1. Me \in Conns /\ run \in Waits /\ a.fun \in AnsweredBy(run) /\ AskedBy(run) = {"downloaded"}
      BY <2>2, MicroClientAssumption DEF Waits, AnsweredBy, AskedBy
    <3>2. ~InRequest(Me)
      <4>1. InRequest(Me) => worker[Me].fun \in {"downloaded"} /\ worker[Me].fun \in {"read", "write"}
        BY <3>1 DEF SessionInv, Paired, WorkerTypes, WorkerOK, InRequest
      <4>2. QED
        BY <4>1
    <3>3. AnswerOK(a)
      BY <2>2 DEF AnswerOK
    <3>4. DOMAIN answer' = Conns /\ answer'[Me] = a /\ \A c \in Conns \ {Me} : answer'[c] = answer[c]
      BY <2>2, <3>1 DEF PlcSends, SessionInv, PduTypes
    <3>5. DOMAIN request' = Conns /\ request'[Me] = Nothing /\ \A c \in Conns \ {Me} : request'[c] = request[c]
      BY <2>2 DEF SessionInv, PduTypes
    <3>6. run # "idle"
      BY <2>2
    <3>7. QED
      BY <3>1, <3>2, <3>3, <3>4, <3>5, <3>6, PlcKeeps
  <2>3. CASE PlcTakes("downloaded") /\ UNCHANGED answer
    BY <2>3, PlcSilent
  <2>4. CASE PlcTakes("ended") /\ UNCHANGED answer
    BY <2>4, PlcSilent
  <2>5. ASSUME run \in {"serve", "ended"}, request[Me] = Nothing, answer[Me] = Nothing, UNCHANGED request,
               NEW f \in {"download", "downloadended", "other"}, PlcSends([fun |-> f])
        PROVE  SessionInv'
    BY <2>2, <2>5
  <2>6. QED
    BY <1>5, <2>1, <2>3, <2>4, <2>5 DEF PlcDownloads
<1>6. CASE PlcControl
  <2>1. PICK f \in {"start", "stop"} : PlcTakes(f)
    BY <1>6 DEF PlcControl
  <2>2. PICK error, para : PlcSends([fun |-> request[Me].fun, error |-> error, para |-> para])
    BY <1>6 DEF PlcControl
  <2> DEFINE a == [fun |-> request[Me].fun, error |-> error, para |-> para]
  <2>3. PlcSends(a) /\ a.fun = f
    BY <2>1, <2>2 DEF PlcTakes
  <2> HIDE DEF a
  <2>4. QED
    BY <1>2, <2>1, <2>3
<1>7. CASE PlcSZLSlices
  <2>1. PlcTakes("szl")
    BY <1>7 DEF PlcSZLSlices
  <2> DEFINE pos == IF request[Me].first THEN 0 ELSE plc.pos
  <2>2. ASSUME NEW error, NEW ret, PlcSends([fun |-> "szl", error |-> error, ret |-> ret]) PROVE SessionInv'
    BY <1>2, <2>1, <2>2
  <2>3. ASSUME NEW n \in Slices,
               PlcSends([fun |-> "szl", error |-> "ok", ret |-> "ok", more |-> pos + n < PlcSZL,
                         data |-> [k \in 1..n |-> pos + k]])
        PROVE  SessionInv'
    BY <1>2, <2>1, <2>3
  <2>4. QED
    BY <1>7, <2>2, <2>3 DEF PlcSZLSlices
<1>8. CASE PlcRefuses
  <2>1. ASSUME PlcTakes("blkinfo"), NEW whole,
               PlcSends([fun |-> "blkinfo", error |-> "ok", whole |-> whole, ret |-> "NeedPassword", mc7 |-> 0])
        PROVE  SessionInv'
    <3> DEFINE a == [fun |-> "blkinfo", error |-> "ok", whole |-> whole, ret |-> "NeedPassword", mc7 |-> 0]
    <3>1. a.fun = "blkinfo" /\ a.mc7 = 0
      OBVIOUS
    <3> HIDE DEF a
    <3>2. AnswerOK(a) /\ PlcSends(a)
      BY <2>1, <3>1 DEF AnswerOK, a
    <3>3. QED
      BY <1>1, <2>1, <3>1, <3>2
  <2>2. CASE \E f \in Named \ {"negotiate", "upload", "blkinfo"} : \E a : PlcTakes(f) /\ PlcSends(a) /\ a.fun = f
    BY <1>2, <2>2
  <2>3. \/ /\ PlcTakes("blkinfo")
           /\ \E whole : PlcSends([fun |-> "blkinfo", error |-> "ok", whole |-> whole, ret |-> "NeedPassword", mc7 |-> 0])
        \/ \E f \in Named \ {"negotiate", "upload", "blkinfo"} : \E a : PlcTakes(f) /\ PlcSends(a) /\ a.fun = f
    <3> DEFINE Plainly == \E f \in Named \ {"negotiate", "upload", "blkinfo"} : \E a : PlcTakes(f) /\ PlcSends(a) /\ a.fun = f
    <3>1. ASSUME NEW f \in Named \ {"negotiate", "upload", "blkinfo"}, PlcTakes(f), NEW a, PlcSends(a), a.fun = f
          PROVE  Plainly
      BY <3>1
    <3> HIDE DEF Plainly
    <3>2. QED
      BY <1>8, <3>1 DEF PlcRefuses
  <2>4. QED
    BY <2>1, <2>2, <2>3
<1>9. QED
  BY <1>3, <1>4, <1>5, <1>6, <1>7, <1>8 DEF PlcStep

-----------------------------------------------------------------------------
\* The invariant holds in the beginning.
LEMMA InitSession == Init => SessionInv
<1> SUFFICES ASSUME Init PROVE SessionInv
  OBVIOUS
<1> USE DEF Init, InitServer, InitClient
<1>1. PduTypes
  BY DEF PduTypes, AnswerOK, IsRequest, Nothing
<1>2. WorkerTypes
  BY S7ServerAssumption DEF WorkerTypes, WorkerOK, Idle
<1>3. AreaTypes
  BY S7ServerAssumption DEF AreaTypes, IsByte, SysAreas
<1>4. AppTypes
  BY SessionConstants DEF AppTypes, AppIdle
<1>5. ClientTypes
  BY SessionConstants, S7SessionAssumption DEF ClientTypes, Waits
<1>6. Paired
  BY MicroClientAssumption DEF Paired, Waits, Nothing
<1>7. QED
  BY <1>1, <1>2, <1>3, <1>4, <1>5, <1>6 DEF SessionInv

\* Every step keeps the invariant.
LEMMA NextSession == SessionInv /\ [Next]_vars => SessionInv'
<1> SUFFICES ASSUME SessionInv, [Next]_vars PROVE SessionInv'
  OBVIOUS
<1>1. CASE Connect
  BY <1>1, ConnectKeeps
<1>2. CASE Perform
  <2>1. UNCHANGED serverVars /\ (Submit \/ ClientStep \/ PeerDisconnect)
    BY <1>2 DEF Perform
  <2>2. QED
    BY <2>1, SubmitKeeps, ClientStepKeeps, LossKeeps
<1>3. CASE Fails
  BY <1>3, LossKeeps DEF Fails
<1>4. ASSUME NEW c \in Conns, Serve(c) PROVE SessionInv'
  BY <1>4, WorkerStepKeeps DEF Serve
<1>5. CASE Application
  BY <1>5, AppStepKeeps DEF Application
<1>6. CASE StationAsks
  BY <1>6, StationKeeps
<1>7. CASE Plc
  BY <1>7, PlcStepKeeps DEF Plc
<1>8. CASE UNCHANGED vars
  <2>1. UNCHANGED <<clientVars, serverVars, request, answer>>
    BY <1>8 DEF vars, pduVars
  <2>2. PduTypes' /\ WorkerTypes' /\ AreaTypes' /\ AppTypes' /\ ClientTypes'
    BY <2>1 DEF SessionInv, PduTypes, WorkerTypes, WorkerOK, AreaTypes, AppTypes, ClientTypes, serverVars, tableVars, workerVars, appVars, clientVars, loopVars
  <2>3. Paired'
    BY <2>1 DEF SessionInv, Paired, InRequest, serverVars, workerVars, clientVars
  <2>4. QED
    BY <2>2, <2>3 DEF SessionInv
<1>9. QED
  BY <1>1, <1>2, <1>3, <1>4, <1>5, <1>6, <1>7, <1>8 DEF Next

\* The invariant has the parts of TypeOK.
LEMMA SessionTypes == SessionInv => TypeOK
<1> SUFFICES ASSUME SessionInv PROVE TypeOK
  OBVIOUS
<1> USE DEF SessionInv
<1>1. \A c \in Conns :
        /\ worker[c].place \in {"idle", "closed", "control", "find", "copy", "store"}
        /\ worker[c].place \in {"find", "copy", "store"} => Len(worker[c].reply) < Len(worker[c].items)
  BY DEF WorkerTypes, WorkerOK
<1>2. \A a \in Areas : size[a] <= AreaSize[a] /\ DOMAIN mem[a] = 0..AreaSize[a] - 1
  BY DEF AreaTypes
<1>3. lock \in [Areas -> {"none", "app"}]
  BY DEF AppTypes
<1>4. left \in Nat /\ start \in Nat /\ jobs \in 0..MaxJobs /\ PDULength \in 0..IsoPayload_Size
  BY SessionConstants DEF ClientTypes
<1>5. \A c \in Conns : FPDULength[c] \in MinPduSize..IsoPayload_Size
  BY DEF WorkerTypes
<1>6. QED
  BY <1>1, <1>2, <1>3, <1>4, <1>5 DEF TypeOK

\* Requests, answers, workers, areas and jobs keep their shapes, a client never has
\* more than one request at the server, whose answer fits what it waits for, and an
\* area is locked exactly while the application updates it (LockArea, UnlockArea).
THEOREM SessionInvHolds == Spec => []SessionInv
<1>1. QED
  BY InitSession, NextSession, PTL DEF Spec

\* TypeOK holds always: TS7Worker never goes past the last item of a request,
\* opReadArea and opWriteArea never have less than nothing left to transfer, and no
\* PDU length leaves its bounds, for every number of connections and jobs.
THEOREM SessionTypeOKHolds == Spec => []TypeOK
<1>1. QED
  BY SessionInvHolds, SessionTypes, PTL

-----------------------------------------------------------------------------
(* What steps do to the memory, to the replies and to the answers.         *)

\* Items without data.
Bare(items) == \A k \in DOMAIN items : items[k].data = <<>>

\* An answer to a read that is new and has data comes from a worker that reads.
AnswerStays(c) ==
  answer'[c] = answer[c] \/ answer'[c].fun # "read" \/ Bare(answer'[c].items)

Reading(c) == InRequest(c) /\ worker[c].fun = "read"

RepliesStay(c) ==
  Reading(c)' => \/ Reading(c) /\ worker'[c].reply = worker[c].reply
                 \/ worker'[c].reply = <<>>

QuietForReads == \A c \in Conns : AnswerStays(c) /\ RepliesStay(c)
MemoryStays ==
  /\ UNCHANGED <<mem, updates>>
  /\ app' = app \/ (app.place # "update" /\ app'.place # "update")

\* The client neither reads nor writes the memory.
LEMMA ClientAnswers ==
  ASSUME ClientStep \/ Submit \/ PeerDisconnect \/ PeerConnect \/ ExchangeFails
  PROVE  answer' = answer \/ answer' = [answer EXCEPT ![Me] = Nothing]
<1> DEFINE A == answer' = answer \/ answer' = [answer EXCEPT ![Me] = Nothing]
<1> SUFFICES A
  OBVIOUS
<1>1. ASSUME NEW f, NEW r, Ask(f, r) PROVE A
  BY <1>1 DEF Ask
<1>2. ASSUME NEW res, Returns(res) PROVE A
  BY <1>2 DEF Returns
<1>3. ASSUME NEW j, NEW at, NEW n, ReadSlice(j, at, n) PROVE A
  BY <1>1, <1>3 DEF ReadSlice
<1>4. ASSUME NEW j, NEW id, NEW at, NEW n, WriteSlice(j, id, at, n) PROVE A
  BY <1>1, <1>4 DEF WriteSlice
<1>5. ASSUME NEW j, NEW f, NEW r, AskItems(j, f, r) PROVE A
  BY <1>1, <1>2, <1>5 DEF AskItems
<1>6. CASE PeerDisconnect \/ PeerConnect \/ ExchangeFails
  BY <1>1, <1>6 DEF PeerDisconnect, PeerConnect, ExchangeFails, pduVars
<1> HIDE DEF A
<1>7. CASE opReadArea \/ opWriteArea \/ opReadMultiVars \/ opWriteMultiVars
  <2>1. CASE opReadArea
    BY <1>2, <1>3, <2>1 DEF opReadArea
  <2>2. CASE opWriteArea
    BY <1>2, <1>4, <2>2 DEF opWriteArea
  <2>3. CASE opReadMultiVars
    BY <1>5, <2>3 DEF opReadMultiVars
  <2>4. CASE opWriteMultiVars
    BY <1>5, <2>4 DEF opWriteMultiVars
  <2>5. QED
    BY <1>7, <2>1, <2>2, <2>3, <2>4
<1>8. CASE opListBlocks \/ opListBlocksOfType \/ opAgBlockInfo \/ opUpload \/ opDownload
  BY <1>1, <1>2, <1>8 DEF opListBlocks, opListBlocksOfType, opAgBlockInfo, opUpload, opDownload
<1>9. CASE \/ opPlcStop \/ opPlcHotStart \/ opPlcColdStart \/ opCopyRamToRom \/ opCompress \/ opDelete
  <2>1. ASSUME NEW op, NEW f, NEW code, AskControl(op, f, code) PROVE A
    BY <1>1, <1>2, <2>1 DEF AskControl
  <2>2. QED
    BY <1>9, <2>1 DEF opPlcStop, opPlcHotStart, opPlcColdStart, opCopyRamToRom, opCompress, opDelete
<1>10. CASE \/ opReadSZL \/ opReadSZLList \/ opGetOrderCode \/ opGetCpuInfo \/ opGetCpInfo \/ opGetPlcStatus \/ opGetProtection
  <2>1. ASSUME NEW op, AskSZL(op) PROVE A
    BY <1>1, <2>1 DEF AskSZL
  <2>2. QED
    BY <1>10, <2>1 DEF opReadSZL, opReadSZLList, opGetOrderCode, opGetCpuInfo, opGetCpInfo, opGetPlcStatus, opGetProtection
<1>11. CASE opGetDateTime \/ opSetDateTime \/ opSetPassword \/ opClearPassword
  <2>1. ASSUME NEW op, NEW f, AskSimple(op, f) PROVE A
    BY <1>1, <1>2, <2>1 DEF AskSimple
  <2>2. QED
    BY <1>11, <2>1 DEF opGetDateTime, opSetDateTime, opSetPassword, opClearPassword
<1>12. CASE ReadSliceDone \/ WriteSliceDone \/ opDBGet \/ opDBFill
  <2>1. CASE ReadSliceDone
    BY <1>2, <1>3, <2>1 DEF ReadSliceDone
  <2>2. CASE WriteSliceDone
    BY <1>2, <1>4, <2>2 DEF WriteSliceDone
  <2>3. CASE opDBGet
    BY <2>3 DEF opDBGet, ReadSlice, Ask, Returns, A
  <2>4. CASE opDBFill
    BY <2>4 DEF opDBFill, WriteSlice, Ask, Returns, A
  <2>5. QED
    BY <1>12, <2>1, <2>2, <2>3, <2>4
<1>13. CASE \/ NegotiatePDULength \/ Negotiated \/ StartDownloadDone \/ InsertBlock
  BY <1>13 DEF NegotiatePDULength, Negotiated, StartDownloadDone, InsertBlock, Ask, Returns, A
<1>14. CASE \/ MultiVarsDone \/ ListBlocksDone \/ ListSliceDone \/ AgBlockInfoDone \/ StartUploadDone
  BY <1>1, <1>2, <1>14 DEF MultiVarsDone, ListBlocksDone, ListSliceDone, AgBlockInfoDone, StartUploadDone
<1>15. CASE \/ UploadSliceDone \/ EndUploadDone \/ DownloadSlice \/ DownloadEnded
  BY <1>1, <1>2, <1>15 DEF UploadSliceDone, EndUploadDone, DownloadSlice, DownloadEnded
<1>16. CASE \/ InsertDone \/ ControlDone \/ SZLSliceDone \/ SimpleDone
  BY <1>1, <1>2, <1>16 DEF InsertDone, ControlDone, SZLSliceDone, MoreSZL, SimpleDone
<1>17. QED
  BY <1>6, <1>7, <1>8, <1>9, <1>10, <1>11, <1>12, <1>13, <1>14, <1>15, <1>16 DEF ClientStep, Submit

\* A step that leaves workers and answers alone, or whose answer is none to a read.
LEMMA QuietStep ==
  ASSUME SessionInv, NEW c \in Conns,
         \A d \in Conns \ {c} : worker'[d] = worker[d] /\ answer'[d] = answer[d],
         AnswerStays(c), RepliesStay(c)
  PROVE  QuietForReads
BY DEF QuietForReads, AnswerStays, RepliesStay, Reading, InRequest

\* A step that leaves the workers alone and sends no answer to a read.
LEMMA NothingQuiet ==
  ASSUME UNCHANGED worker,
         \A d \in Conns : answer'[d] = answer[d] \/ answer'[d].fun # "read" \/ Bare(answer'[d].items)
  PROVE  QuietForReads
BY DEF QuietForReads, AnswerStays, RepliesStay, Reading, InRequest

\* Steps of the client.
LEMMA ClientQuiet ==
  ASSUME SessionInv, UNCHANGED worker \/ worker' = [worker EXCEPT ![Me] = Idle],
         answer' = answer \/ answer' = [answer EXCEPT ![Me] = Nothing]
  PROVE  QuietForReads
<1> USE MicroClientAssumption DEF SessionInv
<1>1. DOMAIN worker = Conns /\ DOMAIN answer = Conns
  BY DEF WorkerTypes, PduTypes
<1>2. AnswerStays(Me) /\ RepliesStay(Me)
  BY <1>1 DEF AnswerStays, RepliesStay, Reading, InRequest, Nothing, Idle
<1>3. \A d \in Conns \ {Me} : worker'[d] = worker[d] /\ answer'[d] = answer[d]
  BY <1>1
<1>4. QED
  BY <1>2, <1>3, QuietStep

\* A worker that sends an answer to something else.
LEMMA SentQuiet ==
  ASSUME SessionInv, NEW c \in Conns, NEW a, a.fun # "read", answer' = [answer EXCEPT ![c] = a],
         UNCHANGED worker \/ \E w : w.place \notin {"find", "copy", "store"} /\ worker' = [worker EXCEPT ![c] = w]
  PROVE  QuietForReads
<1>1. DOMAIN worker = Conns /\ DOMAIN answer = Conns
  BY DEF SessionInv, WorkerTypes, PduTypes
<1>2. AnswerStays(c) /\ \A d \in Conns \ {c} : answer'[d] = answer[d]
  BY <1>1 DEF AnswerStays
<1>3. RepliesStay(c) /\ \A d \in Conns \ {c} : worker'[d] = worker[d]
  BY <1>1 DEF RepliesStay, Reading, InRequest
<1>4. QED
  BY <1>2, <1>3, QuietStep

\* A worker that is done with an item of a write request.
LEMMA WriteItemQuiet ==
  ASSUME SessionInv, NEW c \in Conns, InRequest(c), worker[c].fun = "write", NEW r, ItemDone(c, r)
  PROVE  QuietForReads
<1> DEFINE w == worker[c]
           v == worker'[c]
           reply == Append(w.reply, r)
<1>1. DOMAIN worker = Conns /\ DOMAIN answer = Conns /\ {"place", "fun", "reply", "remainder", "items"} \subseteq DOMAIN w
  BY WorkerInRequest
<1>2. CASE Len(reply) = Len(w.items)
  <2> DEFINE a == [fun |-> w.fun, error |-> "ok", items |-> reply]
  <2>1. worker' = [worker EXCEPT ![c] = Idle] /\ answer' = [answer EXCEPT ![c] = a] /\ a.fun = "write" /\ Idle.place = "idle"
    BY <1>2 DEF ItemDone, Send, Idle
  <2> HIDE DEF a
  <2>2. QED
    BY <2>1, SentQuiet
<1>3. CASE Len(reply) # Len(w.items)
  <2> DEFINE rest == IF w.fun = "read" THEN Remaining(Item(c), w.remainder) ELSE w.remainder
  <2>1. worker' = [worker EXCEPT ![c].reply = reply, ![c].place = "find", ![c].remainder = rest] /\ UNCHANGED answer
    BY <1>1, <1>3 DEF ItemDone
  <2> HIDE DEF rest, reply
  <2>2. v = [w EXCEPT !.reply = reply, !.place = "find", !.remainder = rest] /\ \A d \in Conns \ {c} : worker'[d] = worker[d]
    BY <1>1, <2>1
  <2> HIDE DEF v
  <2>3. v.fun = "write"
    BY <1>1, <2>2
  <2>4. AnswerStays(c) /\ RepliesStay(c)
    BY <2>1, <2>3 DEF AnswerStays, RepliesStay, Reading, v
  <2>5. QED
    BY <2>1, <2>2, <2>4, QuietStep
<1>4. QED
  BY <1>2, <1>3

\* A worker that takes a request has no reply yet.
LEMMA ServingQuiet ==
  ASSUME SessionInv, NEW c \in Conns, NEW f, NEW items, Serving(f, c, items)
  PROVE  QuietForReads
<1> DEFINE w == [place |-> "find", fun |-> f, reply |-> <<>>, remainder |-> FPDULength[c], items |-> items]
<1>1. worker' = [worker EXCEPT ![c] = w] /\ UNCHANGED answer /\ w.reply = <<>> /\ DOMAIN worker = Conns
  BY DEF Serving, SessionInv, WorkerTypes
<1> HIDE DEF w
<1>2. worker'[c].reply = <<>> /\ \A d \in Conns \ {c} : worker'[d] = worker[d]
  BY <1>1
<1>3. AnswerStays(c) /\ RepliesStay(c)
  BY <1>1, <1>2 DEF AnswerStays, RepliesStay
<1>4. QED
  BY <1>1, <1>2, <1>3, QuietStep

\* Of the worker's steps only ReadArea makes replies and answers with data.
LEMMA WorkerQuiet ==
  ASSUME SessionInv, NEW c \in Conns, WorkerStep(c)
  PROVE  QuietForReads \/ ReadAreaFind(c) \/ ReadAreaCopy(c)
<1>1. ASSUME NEW a, Send(c, a), a.fun # "read", UNCHANGED serverVars
      PROVE  QuietForReads
  BY <1>1, SentQuiet DEF Send, serverVars, workerVars
<1>2. CASE ExecuteRecv(c) \/ PerformGroupSecurity(c) \/ PerformGetClock(c) \/ PerformSetClock(c)
  BY <1>1, <1>2 DEF ExecuteRecv, PerformGroupSecurity, PerformGetClock, PerformSetClock
<1>3. CASE PerformFunctionUpload(c) \/ PerformFunctionDownload(c) \/ BLK_ListAll(c)
  BY <1>1, <1>3 DEF PerformFunctionUpload, PerformFunctionDownload, BLK_ListAll
<1>4. CASE PerformGroupSZL(c)
  <2> DEFINE a == SZLAnswer(c, request[c].id)
  <2>1. a.fun # "read" /\ Send(c, a) /\ UNCHANGED serverVars
    BY <1>4 DEF SZLAnswer, PerformGroupSZL
  <2> HIDE DEF a
  <2>2. QED
    BY <1>1, <2>1
<1>5. CASE BLK_GetBlkInfo(c)
  <2>1. PICK a : Send(c, a) /\ a.fun # "read"
    BY <1>5 DEF BLK_GetBlkInfo
  <2>2. QED
    BY <1>1, <1>5, <2>1 DEF BLK_GetBlkInfo
<1>6. CASE BLK_ListBoT(c)
  <2>1. PICK a : Send(c, a) /\ a.fun # "read"
    BY <1>6 DEF BLK_ListBoT
  <2>2. UNCHANGED worker
    BY <1>6 DEF BLK_ListBoT
  <2>3. QED
    BY <2>1, <2>2, SentQuiet DEF Send
<1>7. CASE PerformFunctionNegotiate(c)
  <2> DEFINE a == [fun |-> "negotiate", error |-> "ok", whole |-> TRUE, length |-> Agreed(request[c].length)]
  <2>1. Send(c, a) /\ a.fun # "read" /\ UNCHANGED worker
    BY <1>7 DEF PerformFunctionNegotiate
  <2> HIDE DEF a
  <2>2. QED
    BY <2>1, SentQuiet DEF Send
<1>8. CASE PerformFunctionControl(c)
  <2> DEFINE a == [fun |-> request[c].fun, error |-> "ok", para |-> 0]
             w == [place |-> "control", code |-> request[c].code]
  <2>1. Send(c, a) /\ a.fun # "read" /\ worker' = [worker EXCEPT ![c] = w] /\ w.place = "control"
    BY <1>8 DEF PerformFunctionControl, Takes
  <2> HIDE DEF a, w
  <2>2. QED
    BY <2>1, SentQuiet DEF Send
<1>9. CASE IsoPerformCommand(c) \/ PerformGroupProgrammer(c) \/ SetCpuStatus(c)
  <2>1. /\ UNCHANGED answer
        /\ UNCHANGED worker \/ \E w : w.place \in {"closed", "idle"} /\ worker' = [worker EXCEPT ![c] = w]
    <3>1. [place |-> "closed"].place = "closed" /\ Idle.place = "idle"
      BY DEF Idle
    <3>2. QED
      BY <1>9, <3>1 DEF IsoPerformCommand, PerformGroupProgrammer, SetCpuStatus, pduVars, serverVars, workerVars
  <2>2. DOMAIN worker = Conns
    BY DEF SessionInv, WorkerTypes
  <2>3. RepliesStay(c) /\ \A d \in Conns \ {c} : worker'[d] = worker[d]
    BY <2>1, <2>2 DEF RepliesStay, Reading, InRequest
  <2>4. AnswerStays(c) /\ \A d \in Conns \ {c} : answer'[d] = answer[d]
    BY <2>1 DEF AnswerStays
  <2>5. QED
    BY <2>3, <2>4, QuietStep
<1>10. CASE PerformFunctionRead(c) \/ PerformFunctionWrite(c)
  BY <1>10, ServingQuiet DEF PerformFunctionRead, PerformFunctionWrite
<1>11. CASE WriteAreaFind(c) \/ WriteAreaCopy(c) \/ WriteBitStore(c)
  <2>1. InRequest(c)
    BY <1>11 DEF WriteAreaFind, WriteAreaCopy, WriteBitStore, InRequest
  <2>2. worker[c].fun = "write"
    BY <1>11, <2>1, WorkerInRequest DEF WriteAreaFind, WriteAreaCopy, WriteBitStore, WorkerOK
  <2>3. CASE \E r : ItemDone(c, r)
    BY <2>1, <2>2, <2>3, WriteItemQuiet
  <2>4. CASE worker' = [worker EXCEPT ![c].place = "copy"] /\ UNCHANGED answer
    <3> DEFINE v == worker'[c]
    <3>1. DOMAIN worker = Conns /\ {"place", "fun"} \subseteq DOMAIN worker[c]
      BY <2>1, WorkerInRequest
    <3>2. v = [worker[c] EXCEPT !.place = "copy"] /\ \A d \in Conns \ {c} : worker'[d] = worker[d]
      BY <2>4, <3>1
    <3> HIDE DEF v
    <3>3. v.fun = "write"
      BY <2>2, <3>1, <3>2
    <3>4. AnswerStays(c) /\ RepliesStay(c)
      BY <2>4, <3>3 DEF AnswerStays, RepliesStay, Reading, v
    <3>5. QED
      BY <2>4, <3>2, <3>4, QuietStep
  <2>5. QED
    BY <1>11, <2>3, <2>4 DEF WriteAreaFind, WriteAreaCopy, WriteBitStore
<1>12. CASE WriteBitLoad(c)
  <2>1. DOMAIN worker = Conns
    BY DEF SessionInv, WorkerTypes
  <2>2. worker'[c].fun = "write" /\ UNCHANGED answer /\ \A d \in Conns \ {c} : worker'[d] = worker[d]
    BY <1>12, <2>1 DEF WriteBitLoad, pduVars
  <2>3. AnswerStays(c) /\ RepliesStay(c)
    BY <2>2 DEF AnswerStays, RepliesStay, Reading
  <2>4. QED
    BY <2>2, <2>3, QuietStep
<1>13. QED
  BY <1>2, <1>3, <1>4, <1>5, <1>6, <1>7, <1>8, <1>9, <1>10, <1>11, <1>12 DEF WorkerStep

\* The PLC's answers to reads have no items.
LEMMA PlcQuiet ==
  ASSUME SessionInv, PlcStep, UNCHANGED serverVars
  PROVE  QuietForReads
<1>1. DOMAIN answer = Conns /\ UNCHANGED worker /\ Me \in Conns
  BY MicroClientAssumption DEF SessionInv, PduTypes, serverVars, workerVars
<1>2. ASSUME NEW a, PlcSends(a), a.fun # "read" \/ Bare(a.items)
      PROVE  QuietForReads
  <2>1. answer'[Me] = a /\ \A d \in Conns \ {Me} : answer'[d] = answer[d]
    BY <1>1, <1>2 DEF PlcSends
  <2>2. QED
    BY <1>1, <1>2, <2>1, NothingQuiet
<1>3. CASE UNCHANGED answer
  BY <1>1, <1>3, NothingQuiet
<1>4. CASE PlcConnects
  BY <1>2, <1>4 DEF PlcConnects
<1>5. CASE PlcUploads
  BY <1>2, <1>5 DEF PlcUploads
<1>6. CASE PlcDownloads
  BY <1>2, <1>3, <1>6 DEF PlcDownloads
<1>7. CASE PlcControl
  <2>1. PICK error, para : PlcSends([fun |-> request[Me].fun, error |-> error, para |-> para])
    BY <1>7 DEF PlcControl
  <2>2. request[Me].fun # "read"
    BY <1>7 DEF PlcControl, PlcTakes
  <2>3. QED
    BY <1>2, <2>1, <2>2
<1>8. CASE PlcSZLSlices
  BY <1>2, <1>8 DEF PlcSZLSlices
<1>9. CASE PlcRefuses
  <2> DEFINE refused == IF OneItem THEN <<ReadFailed("refused")>> ELSE <<>>
  <2>1. Bare(refused)
    BY DEF Bare, ReadFailed
  <2> HIDE DEF refused
  <2>2. ASSUME NEW error, PlcSends([fun |-> "read", error |-> error, items |-> refused]) PROVE QuietForReads
    BY <1>2, <2>1, <2>2
  <2>3. QED
    BY <1>2, <1>9, <2>2 DEF PlcRefuses, refused
<1>10. QED
  BY <1>4, <1>5, <1>6, <1>7, <1>8, <1>9 DEF PlcStep

\* Every step but those of a worker that reads.
LEMMA QuietNext ==
  ASSUME SessionInv, [Next]_vars
  PROVE  QuietForReads \/ \E c \in Conns : ReadAreaFind(c) \/ ReadAreaCopy(c)
<1>1. CASE Connect
  <2>1. worker' = [worker EXCEPT ![Me] = Idle]
    BY <1>1 DEF Connect, NewWorker
  <2>2. answer' = answer \/ answer' = [answer EXCEPT ![Me] = Nothing]
    BY <1>1, ClientAnswers DEF Connect
  <2>3. QED
    BY <2>1, <2>2, ClientQuiet
<1>2. CASE Perform \/ Fails
  <2>1. UNCHANGED worker
    BY <1>2 DEF Perform, Fails, serverVars, workerVars
  <2>2. answer' = answer \/ answer' = [answer EXCEPT ![Me] = Nothing]
    BY <1>2, ClientAnswers DEF Perform, Fails
  <2>3. QED
    BY <2>1, <2>2, ClientQuiet
<1>3. ASSUME NEW c \in Conns, Serve(c) PROVE QuietForReads \/ ReadAreaFind(c) \/ ReadAreaCopy(c)
  BY <1>3, WorkerQuiet DEF Serve
<1>4. CASE Application
  <2>1. UNCHANGED answer /\ UNCHANGED worker
    BY <1>4 DEF Application, AppStep, RegisterDB, RegisterSys, UnregisterDB, UnregisterSys, LockArea,
                CountDB, LimitDB, UncountDB, UpdateByte, UnlockArea, pduVars, workerVars
  <2>2. QED
    BY <2>1, NothingQuiet
<1>5. CASE StationAsks
  <2>1. UNCHANGED answer /\ UNCHANGED worker
    BY <1>5 DEF StationAsks, serverVars, workerVars
  <2>2. QED
    BY <2>1, NothingQuiet
<1>6. CASE Plc
  BY <1>6, PlcQuiet DEF Plc
<1>7. CASE UNCHANGED vars
  <2>1. UNCHANGED answer /\ UNCHANGED worker
    BY <1>7 DEF vars, pduVars, serverVars, workerVars
  <2>2. QED
    BY <2>1, NothingQuiet
<1>8. QED
  BY <1>1, <1>2, <1>3, <1>4, <1>5, <1>6, <1>7 DEF Next

\* Every step but an update, a write and what locks and unlocks.
LEMMA MemoryNext ==
  ASSUME SessionInv, [Next]_vars
  PROVE  \/ MemoryStays
         \/ \E o \in AppOps : LockArea(o)
         \/ UpdateByte
         \/ UnlockArea
         \/ UNCHANGED <<app, updates, lock>> /\ \E c \in Conns : WriteAreaCopy(c) \/ WriteBitStore(c)
<1>1. CASE Connect \/ Perform \/ Fails \/ StationAsks \/ Plc
  BY <1>1 DEF Connect, Perform, Fails, StationAsks, Plc, MemoryStays, serverVars, appVars
<1>2. ASSUME NEW c \in Conns, Serve(c)
      PROVE  MemoryStays \/ (UNCHANGED <<app, updates, lock>> /\ (WriteAreaCopy(c) \/ WriteBitStore(c)))
  <2>1. UNCHANGED <<app, updates, lock>>
    BY <1>2 DEF Serve, WorkerStep, ExecuteRecv, IsoPerformCommand, PerformGroupProgrammer, PerformFunctionNegotiate,
                PerformFunctionControl, SetCpuStatus, PerformFunctionUpload, PerformFunctionDownload, PerformGroupSecurity,
                PerformGetClock, PerformSetClock, PerformGroupSZL, BLK_ListAll, BLK_ListBoT, BLK_GetBlkInfo,
                PerformFunctionRead, ReadAreaFind, ReadAreaCopy, PerformFunctionWrite, WriteAreaFind, WriteAreaCopy,
                WriteBitLoad, WriteBitStore, Serving, serverVars, appVars
  <2>2. UNCHANGED mem \/ WriteAreaCopy(c) \/ WriteBitStore(c)
    BY <1>2 DEF Serve, WorkerStep, ExecuteRecv, IsoPerformCommand, PerformGroupProgrammer, PerformFunctionNegotiate,
                PerformFunctionControl, SetCpuStatus, PerformFunctionUpload, PerformFunctionDownload, PerformGroupSecurity,
                PerformGetClock, PerformSetClock, PerformGroupSZL, BLK_ListAll, BLK_ListBoT, BLK_GetBlkInfo,
                PerformFunctionRead, ReadAreaFind, ReadAreaCopy, PerformFunctionWrite, WriteAreaFind,
                WriteBitLoad, Serving, serverVars
  <2>3. QED
    BY <2>1, <2>2 DEF MemoryStays
<1>3. CASE Application
  <2>1. ASSUME NEW o \in AppOps, RegisterDB(o) \/ RegisterSys(o) \/ UnregisterDB(o) \/ UnregisterSys(o)
        PROVE  MemoryStays
    BY <2>1 DEF RegisterDB, RegisterSys, UnregisterDB, UnregisterSys, Calls, MemoryStays
  <2>2. CASE CountDB \/ LimitDB \/ UncountDB
    <3>1. UNCHANGED <<mem, updates>> /\ app.place \in {"count", "limit", "uncount"}
      BY <2>2 DEF CountDB, LimitDB, UncountDB
    <3>2. app'.place # "update"
      BY <2>2 DEF CountDB, LimitDB, UncountDB, AppIdle, SessionInv, AppTypes
    <3>3. QED
      BY <3>1, <3>2 DEF MemoryStays
  <2>3. QED
    BY <1>3, <2>1, <2>2 DEF Application, AppStep
<1>4. CASE UNCHANGED vars
  BY <1>4 DEF vars, serverVars, appVars, MemoryStays
<1>5. QED
  BY <1>1, <1>2, <1>3, <1>4 DEF Next

\* Ask and Returns, seen from the client's connection.
LEMMA AskMe ==
  ASSUME SessionInv, NEW f, NEW r, Ask(f, r)
  PROVE  run' = f /\ request'[Me] = r /\ answer'[Me] = Nothing
BY MicroClientAssumption DEF SessionInv, PduTypes, Ask

\* The connection is free again when a job returns.
LEMMA ReturnsMe ==
  ASSUME SessionInv, NEW res, Returns(res), request[Me] = Nothing
  PROVE  run' = "idle" /\ result' = res /\ request'[Me] = Nothing /\ answer'[Me] = Nothing
BY MicroClientAssumption DEF SessionInv, PduTypes, Returns

\* The application sends and receives nothing.
LEMMA ApplicationPdu ==
  ASSUME AppStep
  PROVE  UNCHANGED pduVars
<1>1. ASSUME NEW o, RegisterDB(o) \/ RegisterSys(o) \/ UnregisterDB(o) \/ UnregisterSys(o) \/ LockArea(o)
      PROVE  UNCHANGED pduVars
  BY <1>1 DEF RegisterDB, RegisterSys, UnregisterDB, UnregisterSys, LockArea
<1>2. ASSUME CountDB \/ LimitDB \/ UncountDB \/ UpdateByte \/ UnlockArea
      PROVE  UNCHANGED pduVars
  BY <1>2 DEF CountDB, LimitDB, UncountDB, UpdateByte, UnlockArea
<1>3. QED
  BY <1>1, <1>2 DEF AppStep

-----------------------------------------------------------------------------
(* Reports: what a job that reads, writes or lists tells its caller.  The  *)
(* client's slices go on from where the last one ended, a reply has the    *)
(* bytes of its item, and so what is told is what was done.                *)

\* The client waits for nothing of a job.
NoJobRuns == {"idle", "off", "connect", "negotiate"}

\* The exchanges of the jobs whose reports are at stake, and these jobs.
Reported == {"read", "write", "readmulti", "writemulti", "listbot"}
Claimed == Reported \cup {"dbget", "dbfill"}
RunsOf(op) ==
  CASE op \in Reported -> {op}
    [] op = "dbget" -> {"blkinfo", "read"}
    [] op = "dbfill" -> {"blkinfo", "write"}
    [] OTHER -> Waits \ (Reported \cup NoJobRuns)

\* What the client waits for belongs to its job, which is pending; a job that needs
\* a block's information first has no area before it.
RunOfJob ==
  /\ run \notin NoJobRuns =>
       /\ result = "pending" /\ run \in RunsOf(job.op)
       /\ run = "blkinfo" /\ job.op # "blkinfo" => ~OneArea
  /\ run \in NoJobRuns /\ job.op \in Claimed => result # "pending"

\* A write whose connection was lost: the server may be at it all the same.
Lost == run \in NoJobRuns /\ result = "errIso" /\ job.op \in {"write", "dbfill"} /\ OneArea

\* Bytes moved of the job in hand, whose slices go on from where the last one ended.
MovedBytes == DataSizeByte(job.wl) * (job.amount - left)
LoopInv ==
  run \in {"read", "write"} \/ Lost =>
    /\ BadParams(job) = "ok" /\ job.start \in Nat /\ job.amount \in Nat
    /\ left \in 1..job.amount /\ start = job.start + MovedBytes

\* What a job can report before it has asked for anything.
StartErrors == {"errCliInvalidWordLen", "errCliInvalidParams", "errCliInvalidTransportSize",
                "errCliTooManyItems", "errCliSizeOverPDU", "errCliInvalidBlockSize"}

\* What BadParams can say.
LEMMA BadParamsCodes == \A j : BadParams(j) # "ok" => BadParams(j) \in StartErrors
BY DEF BadParams, StartErrors

\* A job that begins asks what belongs to it, or is refused at once.
LEMMA JobStarts ==
  ASSUME SessionInv, Submit
  PROVE  /\ run = "idle" /\ jobs' = jobs + 1 /\ PDULength' = PDULength /\ out' = <<>> /\ opData' = <<>>
         /\ job' \in Jobs /\ IsJob(job') /\ request[Me] = Nothing /\ ~InRequest(Me)
         /\ \/ run' = "idle" /\ result' \in StartErrors /\ request'[Me] = Nothing /\ answer'[Me] = Nothing
            \/ /\ run' \in RunsOf(job'.op) /\ run' \notin NoJobRuns /\ result' = "pending"
               /\ run' = "blkinfo" /\ job'.op # "blkinfo" => "wl" \notin DOMAIN job'
               /\ job'.op \in {"dbget", "dbfill"} => run' = "blkinfo"
               /\ run' = "blkinfo" => job'.op \in {"blkinfo", "dbget", "dbfill"}
<1> DEFINE Begun ==
         /\ run = "idle" /\ jobs' = jobs + 1 /\ PDULength' = PDULength /\ out' = <<>> /\ opData' = <<>>
         /\ job' \in Jobs /\ IsJob(job') /\ request[Me] = Nothing /\ ~InRequest(Me)
         /\ \/ run' = "idle" /\ result' \in StartErrors /\ request'[Me] = Nothing /\ answer'[Me] = Nothing
            \/ /\ run' \in RunsOf(job'.op) /\ run' \notin NoJobRuns /\ result' = "pending"
               /\ run' = "blkinfo" /\ job'.op # "blkinfo" => "wl" \notin DOMAIN job'
               /\ job'.op \in {"dbget", "dbfill"} => run' = "blkinfo"
               /\ run' = "blkinfo" => job'.op \in {"blkinfo", "dbget", "dbfill"}
<1>1. ASSUME NEW j \in Jobs, NEW ops, Begins(j, ops), job' = j, NEW f,
             f \notin NoJobRuns, \A op \in ops : f \in RunsOf(op),
             f = "blkinfo" => ops \subseteq {"blkinfo", "dbget", "dbfill"},
             f # "blkinfo" => ops \cap {"dbget", "dbfill"} = {},
             \/ \E r : Ask(f, r) /\ result' = "pending"
             \/ \E res \in StartErrors : Returns(res)
      PROVE  Begun
  <2>1. /\ run = "idle" /\ j.op \in ops /\ IsJob(j) /\ jobs' = jobs + 1 /\ PDULength' = PDULength
        /\ request[Me] = Nothing /\ ~InRequest(Me)
    BY <1>1, JobBegins
  <2>2. out' = <<>> /\ opData' = <<>>
    BY <1>1 DEF Begins
  <2>3. CASE \E r : Ask(f, r) /\ result' = "pending"
    <3>1. run' = f
      BY <2>3 DEF Ask
    <3>2. f = "blkinfo" /\ j.op # "blkinfo" => "wl" \notin DOMAIN j
      BY <1>1, <2>1 DEF IsJob
    <3>3. QED
      BY <1>1, <2>1, <2>2, <2>3, <3>1, <3>2
  <2>4. CASE \E res \in StartErrors : Returns(res)
    BY <1>1, <2>1, <2>2, <2>4, ReturnsMe
  <2>5. QED
    BY <1>1, <2>3, <2>4
<1> HIDE DEF Begun
<1> USE DEF RunsOf, Reported, Waits, NoJobRuns
<1>2. ASSUME opReadArea \/ opWriteArea PROVE Begun
  <2>1. PICK j \in Jobs, op \in {"read", "write"} :
          /\ Begins(j, {op}) /\ job' = j
          /\ (\E r : Ask(op, r) /\ result' = "pending") \/ (BadParams(j) # "ok" /\ Returns(BadParams(j)))
    BY <1>2 DEF opReadArea, opWriteArea, ReadSlice, WriteSlice
  <2>2. (\E r : Ask(op, r) /\ result' = "pending") \/ \E res \in StartErrors : Returns(res)
    BY <2>1, BadParamsCodes
  <2>3. QED
    BY <1>1, <2>1, <2>2
<1>3. ASSUME opReadMultiVars \/ opWriteMultiVars PROVE Begun
  <2>1. PICK j \in Jobs, op \in {"readmulti", "writemulti"} : Begins(j, {op}) /\ job' = j /\ \E r : AskItems(j, op, r)
    BY <1>3 DEF opReadMultiVars, opWriteMultiVars
  <2>2. (\E r : Ask(op, r) /\ result' = "pending") \/ \E res \in StartErrors : Returns(res)
    BY <2>1 DEF AskItems, StartErrors
  <2>3. QED
    BY <1>1, <2>1, <2>2
<1>4. ASSUME opListBlocks PROVE Begun
  BY <1>1, <1>4 DEF opListBlocks
<1>5. ASSUME opListBlocksOfType PROVE Begun
  BY <1>1, <1>5 DEF opListBlocksOfType, StartErrors
<1>6. ASSUME opAgBlockInfo PROVE Begun
  BY <1>1, <1>6 DEF opAgBlockInfo, StartErrors
<1>7. ASSUME opUpload PROVE Begun
  BY <1>1, <1>7 DEF opUpload, StartErrors
<1>8. ASSUME opDownload PROVE Begun
  BY <1>1, <1>8 DEF opDownload, CheckBlock, StartErrors
<1>9. ASSUME NEW op \in {"stop", "hotstart", "coldstart", "copyram", "compress", "delete"}, NEW f, NEW code, AskControl(op, f, code)
      PROVE  Begun
  BY <1>1, <1>9 DEF AskControl, StartErrors
<1>10. ASSUME NEW op \in {"szl", "szllist", "ordercode", "cpuinfo", "cpinfo", "status", "protection"}, AskSZL(op)
      PROVE  Begun
  BY <1>1, <1>10 DEF AskSZL
<1>11. ASSUME NEW op \in {"getclock", "setclock", "setpassword", "clearpassword"}, NEW f, AskSimple(op, f)
      PROVE  Begun
  BY <1>1, <1>11 DEF AskSimple, StartErrors
<1>12. Begun
  <2>1. CASE opPlcStop \/ opPlcHotStart \/ opPlcColdStart \/ opCopyRamToRom \/ opCompress \/ opDelete
    BY <1>9, <2>1 DEF opPlcStop, opPlcHotStart, opPlcColdStart, opCopyRamToRom, opCompress, opDelete
  <2>2. CASE opReadSZL \/ opReadSZLList \/ opGetOrderCode \/ opGetCpuInfo \/ opGetCpInfo \/ opGetPlcStatus \/ opGetProtection
    BY <1>10, <2>2 DEF opReadSZL, opReadSZLList, opGetOrderCode, opGetCpuInfo, opGetCpInfo, opGetPlcStatus, opGetProtection
  <2>3. CASE opGetDateTime \/ opSetDateTime \/ opSetPassword \/ opClearPassword
    BY <1>11, <2>3 DEF opGetDateTime, opSetDateTime, opSetPassword, opClearPassword
  <2>4. QED
    BY <1>2, <1>3, <1>4, <1>5, <1>6, <1>7, <1>8, <2>1, <2>2, <2>3 DEF Submit
<1>13. QED
  BY <1>12 DEF Begun

\* Steps of the client in jobs that are not at stake.
OtherClientStep ==
  \/ ListBlocksDone \/ StartUploadDone \/ UploadSliceDone \/ EndUploadDone
  \/ StartDownloadDone \/ DownloadSlice \/ DownloadEnded \/ InsertBlock \/ InsertDone
  \/ ControlDone \/ SZLSliceDone \/ SimpleDone

\* They go on with the job in hand, or end it.
LEMMA OtherRunsStay ==
  ASSUME OtherClientStep
  PROVE  /\ UNCHANGED <<job, jobs, PDULength>>
         /\ run \in Waits \ (Claimed \cup NoJobRuns \cup {"blkinfo"})
         /\ \/ run' \in Waits \ (Claimed \cup NoJobRuns \cup {"blkinfo"}) /\ result' = result
            \/ run' = "idle"
<1> USE DEF Waits, Claimed, Reported, NoJobRuns, Answered, Ask, Returns
<1>1. CASE ListBlocksDone \/ StartUploadDone \/ UploadSliceDone \/ EndUploadDone
  BY <1>1 DEF ListBlocksDone, StartUploadDone, UploadSliceDone, EndUploadDone
<1>2. CASE StartDownloadDone \/ DownloadSlice \/ DownloadEnded \/ InsertBlock \/ InsertDone
  BY <1>2 DEF StartDownloadDone, DownloadSlice, DownloadEnded, InsertBlock, InsertDone
<1>3. CASE ControlDone \/ SZLSliceDone \/ SimpleDone
  BY <1>3 DEF ControlDone, SZLSliceDone, MoreSZL, SimpleDone
<1>4. QED
  BY <1>1, <1>2, <1>3 DEF OtherClientStep

\* Steps of the connection.
ConnectionStep == PeerConnect \/ NegotiatePDULength \/ Negotiated \/ PeerDisconnect

\* They leave the job that was alone.
LEMMA ConnectionStays ==
  ASSUME SessionInv, ConnectionStep
  PROVE  /\ run \in NoJobRuns /\ run' \in NoJobRuns
         /\ UNCHANGED <<job, jobs, result, out, opData, left, start, first>>
         /\ request'[Me].fun \in {"none", "connect", "negotiate"} \/ request'[Me] = request[Me]
<1>1. CASE PeerConnect \/ NegotiatePDULength
  <2> DEFINE c == [fun |-> "connect"]
             n == [fun |-> "negotiate", length |-> PDURequest]
  <2>1. Ask("connect", c) \/ Ask("negotiate", n)
    BY <1>1 DEF PeerConnect, NegotiatePDULength
  <2>2. c.fun = "connect" /\ n.fun = "negotiate"
    OBVIOUS
  <2> HIDE DEF c, n
  <2>3. run' \in NoJobRuns /\ request'[Me].fun \in {"connect", "negotiate"}
    BY <2>1, <2>2, AskMe DEF NoJobRuns
  <2>4. QED
    BY <1>1, <2>3 DEF PeerConnect, NegotiatePDULength, Answered, NoJobRuns, loopVars
<1>2. CASE Negotiated \/ PeerDisconnect
  BY <1>2 DEF Negotiated, PeerDisconnect, Answered, NoJobRuns, pduVars, loopVars
<1>3. QED
  BY <1>1, <1>2 DEF ConnectionStep

-----------------------------------------------------------------------------
(* The steps of a worker, seen from its connection.                        *)

\* The data and head of a reply to a read (ReadArea).
Copied(c) ==
  [ret |-> "ok", ts |-> TransportSize(Item(c).wl), dlen |-> DataLength(TransportSize(Item(c).wl), SizeOfItem(Item(c))),
   data |-> [k \in 1..SizeOfItem(Item(c)) |-> mem[Item(c).area][StartByte(Item(c)) + k - 1]]]

\* Only c has a part in the step.
Alone(c) ==
  /\ \A d \in Conns \ {c} : request'[d] = request[d] /\ answer'[d] = answer[d] /\ worker'[d] = worker[d]
  /\ request'[c] = request[c] \/ request'[c] = Nothing

\* Requests that are neither read nor write.
Elsewhere(c) ==
  /\ ~InRequest(c) /\ ~InRequest(c)' /\ UNCHANGED mem
  /\ answer'[c] = answer[c] \/ answer'[c].fun \notin {"read", "write"}

\* A request to read or write is taken; an item is found or a byte loaded; an item is done.
TakesUp(c) ==
  /\ ~InRequest(c) /\ UNCHANGED <<mem, answer>> /\ request'[c] = Nothing
  /\ worker'[c].place = "find" /\ worker'[c].reply = <<>>
  /\ \/ request[c].fun = "read" /\ worker'[c].fun = "read" /\ worker'[c].items = Items(c)
     \/ /\ request[c].fun = "write" /\ worker'[c].fun = "write"
        /\ \E fits \in BOOLEAN :
             worker'[c].items = [k \in DOMAIN request[c].items |->
               IF Placed(request[c].items, k) THEN request[c].items[k] ELSE Stray(request[c].items[k], fits)]
GoesOn(c) ==
  /\ InRequest(c) /\ UNCHANGED <<request, answer, mem>>
  /\ worker'[c].fun = worker[c].fun /\ worker'[c].items = worker[c].items /\ worker'[c].reply = worker[c].reply
  /\ \/ worker'[c].place = "copy" /\ ~Incoherent(Item(c)) /\ ~BadAddress(Item(c))
     \/ /\ worker[c].place = "copy" /\ worker[c].fun = "write" /\ worker'[c].place = "store" /\ Item(c).wl = "Bit"
        /\ worker'[c].byte = mem[Item(c).area][StartByte(Item(c))]
Replies(c, r) ==
  /\ InRequest(c) /\ UNCHANGED request
  /\ \/ UNCHANGED mem /\ worker[c].fun = "read" /\ r.ret # "ok"
     \/ UNCHANGED mem /\ worker[c].fun = "read" /\ worker[c].place = "copy" /\ r = Copied(c)
     \/ UNCHANGED mem /\ worker[c].fun = "write" /\ r # "ok"
     \/ worker[c].fun = "write" /\ r = "ok" /\ (WriteAreaCopy(c) \/ WriteBitStore(c))
  /\ \/ /\ Len(worker[c].reply) + 1 = Len(worker[c].items)
        /\ answer'[c] = [fun |-> worker[c].fun, error |-> "ok", items |-> Append(worker[c].reply, r)]
        /\ ~InRequest(c)'
     \/ /\ Len(worker[c].reply) + 1 # Len(worker[c].items) /\ UNCHANGED answer
        /\ worker'[c].place = "find" /\ worker'[c].fun = worker[c].fun
        /\ worker'[c].items = worker[c].items /\ worker'[c].reply = Append(worker[c].reply, r)

\* A request is taken and answered at once, or not at all.
LEMMA TakesElsewhere ==
  ASSUME SessionInv, NEW c \in Conns, UNCHANGED mem, NEW f, Takes(c, f),
         UNCHANGED worker \/ (worker'[c].place \in {"closed", "control"} /\ \A d \in Conns \ {c} : worker'[d] = worker[d]),
         UNCHANGED answer \/ \E a : a.fun \notin {"read", "write"} /\ Send(c, a)
  PROVE  Alone(c) /\ Elsewhere(c)
<1>1. DOMAIN request = Conns /\ DOMAIN answer = Conns /\ DOMAIN worker = Conns
  BY DEF SessionInv, PduTypes, WorkerTypes
<1>2. worker[c].place = "idle" /\ request' = [request EXCEPT ![c] = Nothing]
  BY DEF Takes
<1>3. worker'[c].place \in {"idle", "closed", "control"} /\ \A d \in Conns \ {c} : worker'[d] = worker[d]
  BY <1>1, <1>2
<1>4. (answer'[c] = answer[c] \/ answer'[c].fun \notin {"read", "write"}) /\ \A d \in Conns \ {c} : answer'[d] = answer[d]
  BY <1>1 DEF Send
<1>5. request'[c] = Nothing /\ \A d \in Conns \ {c} : request'[d] = request[d]
  BY <1>1, <1>2
<1>6. QED
  BY <1>2, <1>3, <1>4, <1>5 DEF Alone, Elsewhere, InRequest

\* A reply is stored, or the answer goes out.
LEMMA ItemDoneKinds ==
  ASSUME SessionInv, NEW c \in Conns, InRequest(c), UNCHANGED request, NEW r, ItemDone(c, r),
         \/ UNCHANGED mem /\ worker[c].fun = "read" /\ r.ret # "ok"
         \/ UNCHANGED mem /\ worker[c].fun = "read" /\ worker[c].place = "copy" /\ r = Copied(c)
         \/ UNCHANGED mem /\ worker[c].fun = "write" /\ r # "ok"
         \/ worker[c].fun = "write" /\ r = "ok" /\ (WriteAreaCopy(c) \/ WriteBitStore(c))
  PROVE  Alone(c) /\ Replies(c, r)
<1> DEFINE w == worker[c]
           reply == Append(w.reply, r)
           rest == IF w.fun = "read" THEN Remaining(Item(c), w.remainder) ELSE w.remainder
           a == [fun |-> w.fun, error |-> "ok", items |-> reply]
           v == [w EXCEPT !.reply = reply, !.place = "find", !.remainder = rest]
<1>1. /\ DOMAIN worker = Conns /\ DOMAIN answer = Conns
      /\ {"place", "fun", "reply", "remainder", "items"} \subseteq DOMAIN w
      /\ Len(reply) = Len(w.reply) + 1
  BY WorkerInRequest, SeqAppend
<1>2. CASE Len(reply) = Len(w.items)
  <2>1. worker' = [worker EXCEPT ![c] = Idle] /\ answer' = [answer EXCEPT ![c] = a]
    BY <1>2 DEF ItemDone, Send
  <2> HIDE DEF a, reply, w
  <2>2. /\ worker'[c] = Idle /\ answer'[c] = a
        /\ \A d \in Conns \ {c} : worker'[d] = worker[d] /\ answer'[d] = answer[d]
    BY <1>1, <2>1
  <2>3. ~InRequest(c)'
    BY <2>2 DEF InRequest, Idle
  <2>4. Alone(c)
    BY <2>2 DEF Alone
  <2>5. Replies(c, r)
    BY <1>1, <1>2, <2>2, <2>3 DEF Replies, a, reply, w
  <2>6. QED
    BY <2>4, <2>5
<1>3. CASE Len(reply) # Len(w.items)
  <2>1. /\ worker' = [worker EXCEPT ![c].reply = reply, ![c].place = "find", ![c].remainder = rest]
        /\ UNCHANGED answer
    BY <1>3 DEF ItemDone
  <2>2. worker' = [worker EXCEPT ![c] = v]
    BY <1>1, <2>1
  <2>3. v.reply = reply /\ v.place = "find" /\ v.items = w.items /\ v.fun = w.fun
    BY <1>1
  <2> HIDE DEF v
  <2>4. worker'[c] = v /\ \A d \in Conns \ {c} : worker'[d] = worker[d]
    BY <1>1, <2>2
  <2>5. Alone(c)
    BY <2>1, <2>4 DEF Alone
  <2>6. Replies(c, r)
    BY <1>1, <1>3, <2>1, <2>3, <2>4 DEF Replies
  <2>7. QED
    BY <2>5, <2>6
<1>4. QED
  BY <1>2, <1>3

\* An item is found and will be copied, or a byte is loaded.
LEMMA GoesOnKinds ==
  ASSUME SessionInv, NEW c \in Conns, InRequest(c), UNCHANGED <<request, answer, mem>>,
         \/ worker' = [worker EXCEPT ![c].place = "copy"] /\ ~Incoherent(Item(c)) /\ ~BadAddress(Item(c))
         \/ WriteBitLoad(c)
  PROVE  Alone(c) /\ GoesOn(c)
<1>1. DOMAIN worker = Conns /\ {"place", "fun", "reply", "remainder", "items"} \subseteq DOMAIN worker[c]
  BY WorkerInRequest
<1> SUFFICES GoesOn(c) /\ \A d \in Conns \ {c} : worker'[d] = worker[d]
  BY DEF Alone
<1>2. CASE worker' = [worker EXCEPT ![c].place = "copy"] /\ ~Incoherent(Item(c)) /\ ~BadAddress(Item(c))
  <2> DEFINE v == [worker[c] EXCEPT !.place = "copy"]
  <2>1. worker'[c] = v /\ \A d \in Conns \ {c} : worker'[d] = worker[d]
    BY <1>1, <1>2
  <2>2. v.place = "copy" /\ v.fun = worker[c].fun /\ v.items = worker[c].items /\ v.reply = worker[c].reply
    BY <1>1
  <2> HIDE DEF v
  <2>3. QED
    BY <1>2, <2>1, <2>2 DEF GoesOn
<1>3. CASE WriteBitLoad(c)
  <2> DEFINE b == mem[Item(c).area][StartByte(Item(c))]
             v == [place |-> "store", fun |-> "write", reply |-> worker[c].reply, items |-> worker[c].items,
                   remainder |-> worker[c].remainder, byte |-> b]
  <2>1. /\ worker' = [worker EXCEPT ![c] = v]
        /\ worker[c].place = "copy" /\ worker[c].fun = "write" /\ Item(c).wl = "Bit"
    BY <1>3 DEF WriteBitLoad
  <2>2. v.place = "store" /\ v.fun = "write" /\ v.items = worker[c].items /\ v.reply = worker[c].reply /\ v.byte = b
    BY <1>1
  <2> HIDE DEF v
  <2>3. worker'[c] = v /\ \A d \in Conns \ {c} : worker'[d] = worker[d]
    BY <1>1, <2>1
  <2>4. QED
    BY <2>1, <2>2, <2>3 DEF GoesOn
<1>4. QED
  BY <1>2, <1>3

\* A request to read or write is taken.
LEMMA TakesUpKinds ==
  ASSUME SessionInv, NEW c \in Conns, PerformFunctionRead(c) \/ PerformFunctionWrite(c)
  PROVE  Alone(c) /\ TakesUp(c)
<1>1. DOMAIN request = Conns /\ DOMAIN worker = Conns
  BY DEF SessionInv, PduTypes, WorkerTypes
<1>2. ASSUME NEW f, NEW items, Serving(f, c, items)
      PROVE  /\ Alone(c) /\ ~InRequest(c) /\ UNCHANGED <<mem, answer>> /\ request'[c] = Nothing /\ request[c].fun = f
             /\ worker'[c].place = "find" /\ worker'[c].reply = <<>> /\ worker'[c].fun = f /\ worker'[c].items = items
  <2> DEFINE v == [place |-> "find", fun |-> f, reply |-> <<>>, remainder |-> FPDULength[c], items |-> items]
  <2>1. /\ worker' = [worker EXCEPT ![c] = v] /\ request' = [request EXCEPT ![c] = Nothing]
        /\ worker[c].place = "idle" /\ request[c].fun = f /\ UNCHANGED <<mem, answer>>
    BY <1>2 DEF Serving, Takes
  <2>2. v.place = "find" /\ v.fun = f /\ v.items = items /\ v.reply = <<>>
    OBVIOUS
  <2> HIDE DEF v
  <2>3. /\ worker'[c] = v /\ request'[c] = Nothing
        /\ \A d \in Conns \ {c} : worker'[d] = worker[d] /\ request'[d] = request[d]
    BY <1>1, <2>1
  <2>4. QED
    BY <2>1, <2>2, <2>3 DEF Alone, InRequest
<1>3. CASE PerformFunctionRead(c)
  BY <1>2, <1>3 DEF PerformFunctionRead, TakesUp
<1>4. CASE PerformFunctionWrite(c)
  <2>1. PICK fits \in BOOLEAN : Serving("write", c, [k \in DOMAIN request[c].items |->
          IF Placed(request[c].items, k) THEN request[c].items[k] ELSE Stray(request[c].items[k], fits)])
    BY <1>4 DEF PerformFunctionWrite
  <2>2. QED
    BY <1>2, <2>1 DEF TakesUp
<1>5. QED
  BY <1>3, <1>4

\* What a step of a worker can be.
LEMMA WorkerKinds ==
  ASSUME SessionInv, NEW c \in Conns, WorkerStep(c)
  PROVE  Alone(c) /\ (Elsewhere(c) \/ TakesUp(c) \/ GoesOn(c) \/ \E r : Replies(c, r))
<1> DEFINE Kinds == Alone(c) /\ (Elsewhere(c) \/ TakesUp(c) \/ GoesOn(c) \/ \E r : Replies(c, r))
<1>1. ASSUME NEW f, Takes(c, f), UNCHANGED serverVars,
             UNCHANGED answer \/ \E a : a.fun \notin {"read", "write"} /\ Send(c, a)
      PROVE  Kinds
  <2>1. UNCHANGED mem /\ UNCHANGED worker
    BY <1>1 DEF serverVars, workerVars
  <2>2. QED
    BY <1>1, <2>1, TakesElsewhere
<1>2. CASE ExecuteRecv(c) \/ PerformGroupSecurity(c) \/ PerformGetClock(c) \/ PerformSetClock(c)
           \/ PerformFunctionUpload(c) \/ PerformFunctionDownload(c) \/ BLK_ListAll(c)
  BY <1>1, <1>2 DEF ExecuteRecv, PerformGroupSecurity, PerformGetClock, PerformSetClock,
                    PerformFunctionUpload, PerformFunctionDownload, BLK_ListAll
<1>3. CASE PerformGroupSZL(c)
  <2> DEFINE a == SZLAnswer(c, request[c].id)
  <2>1. a.fun = "szl" /\ Send(c, a) /\ UNCHANGED serverVars /\ Takes(c, "szl")
    BY <1>3 DEF SZLAnswer, PerformGroupSZL
  <2> HIDE DEF a
  <2>2. QED
    BY <1>1, <2>1
<1>4. CASE BLK_GetBlkInfo(c)
  <2>1. PICK a : Send(c, a) /\ a.fun = "blkinfo"
    BY <1>4 DEF BLK_GetBlkInfo
  <2>2. QED
    BY <1>1, <1>4, <2>1 DEF BLK_GetBlkInfo
<1>5. CASE BLK_ListBoT(c)
  <2>1. \E a : a.fun \notin {"read", "write"} /\ Send(c, a)
    BY <1>5 DEF BLK_ListBoT
  <2>2. UNCHANGED mem /\ UNCHANGED worker /\ Takes(c, "listbot")
    BY <1>5 DEF BLK_ListBoT
  <2>3. QED
    BY <2>1, <2>2, TakesElsewhere
<1>6. CASE PerformFunctionNegotiate(c)
  <2> DEFINE a == [fun |-> "negotiate", error |-> "ok", whole |-> TRUE, length |-> Agreed(request[c].length)]
  <2>1. a.fun \notin {"read", "write"} /\ Send(c, a) /\ UNCHANGED mem /\ UNCHANGED worker /\ Takes(c, "negotiate")
    BY <1>6 DEF PerformFunctionNegotiate
  <2> HIDE DEF a
  <2>2. \E b : b.fun \notin {"read", "write"} /\ Send(c, b)
    BY <2>1
  <2>3. QED
    BY <2>1, <2>2, TakesElsewhere
<1>7. CASE PerformFunctionControl(c)
  <2> DEFINE a == [fun |-> request[c].fun, error |-> "ok", para |-> 0]
             w == [place |-> "control", code |-> request[c].code]
  <2>1. PICK f \in {"start", "stop"} : Takes(c, f)
    BY <1>7 DEF PerformFunctionControl
  <2>2. Send(c, a) /\ a.fun = f /\ UNCHANGED mem /\ worker' = [worker EXCEPT ![c] = w] /\ w.place \in {"closed", "control"}
    BY <1>7, <2>1 DEF PerformFunctionControl, Takes
  <2> HIDE DEF a, w
  <2>3. worker'[c].place \in {"closed", "control"} /\ \A d \in Conns \ {c} : worker'[d] = worker[d]
    BY <2>2 DEF SessionInv, WorkerTypes
  <2>4. \E b : b.fun \notin {"read", "write"} /\ Send(c, b)
    BY <2>1, <2>2
  <2>5. QED
    BY <2>1, <2>2, <2>3, <2>4, TakesElsewhere
<1>8. CASE IsoPerformCommand(c)
  <2> DEFINE w == [place |-> "closed"]
  <2>1. Takes(c, "malformed") /\ UNCHANGED <<mem, answer>> /\ worker' = [worker EXCEPT ![c] = w] /\ w.place \in {"closed", "control"}
    BY <1>8 DEF IsoPerformCommand
  <2> HIDE DEF w
  <2>2. worker'[c].place \in {"closed", "control"} /\ \A d \in Conns \ {c} : worker'[d] = worker[d]
    BY <2>1 DEF SessionInv, WorkerTypes
  <2>3. QED
    BY <2>1, <2>2, TakesElsewhere
<1>9. CASE PerformGroupProgrammer(c)
  BY <1>1, <1>9 DEF PerformGroupProgrammer
<1>10. CASE SetCpuStatus(c)
  <2>1. worker[c].place = "control" /\ worker' = [worker EXCEPT ![c] = Idle] /\ UNCHANGED <<request, answer, mem>>
    BY <1>10 DEF SetCpuStatus, pduVars
  <2>2. worker'[c] = Idle /\ \A d \in Conns \ {c} : worker'[d] = worker[d]
    BY <2>1 DEF SessionInv, WorkerTypes
  <2>3. QED
    BY <2>1, <2>2 DEF Alone, Elsewhere, InRequest, Idle
<1>11. CASE PerformFunctionRead(c) \/ PerformFunctionWrite(c)
  BY <1>11, TakesUpKinds
<1>12. CASE ReadAreaFind(c) \/ WriteAreaFind(c)
  <2>1. InRequest(c) /\ UNCHANGED <<request, mem>>
    BY <1>12 DEF ReadAreaFind, WriteAreaFind, InRequest
  <2>2. CASE ReadAreaFind(c)
    <3>1. CASE ReadAreaCheck(Item(c), worker[c].remainder) = "ok"
      <4>1. ~Incoherent(Item(c)) /\ ~BadAddress(Item(c))
        BY <3>1 DEF ReadAreaCheck
      <4>2. QED
        BY <2>1, <2>2, <3>1, <4>1, GoesOnKinds DEF ReadAreaFind
    <3>2. CASE ReadAreaCheck(Item(c), worker[c].remainder) # "ok"
      <4> DEFINE r == ReadFailed(ReadAreaCheck(Item(c), worker[c].remainder))
      <4>1. ItemDone(c, r) /\ worker[c].fun = "read" /\ r.ret # "ok"
        BY <2>2, <3>2 DEF ReadAreaFind, ReadFailed
      <4> HIDE DEF r
      <4>2. QED
        BY <2>1, <4>1, ItemDoneKinds
    <3>3. QED
      BY <3>1, <3>2
  <2>3. CASE WriteAreaFind(c)
    <3>1. CASE WriteAreaCheck(Item(c)) = "ok"
      <4>1. ~Incoherent(Item(c)) /\ ~BadAddress(Item(c))
        BY <3>1 DEF WriteAreaCheck
      <4>2. QED
        BY <2>1, <2>3, <3>1, <4>1, GoesOnKinds DEF WriteAreaFind
    <3>2. CASE WriteAreaCheck(Item(c)) # "ok"
      BY <2>1, <2>3, <3>2, ItemDoneKinds DEF WriteAreaFind
    <3>3. QED
      BY <3>1, <3>2
  <2>4. QED
    BY <1>12, <2>2, <2>3
<1>13. CASE ReadAreaCopy(c)
  <2>1. /\ InRequest(c) /\ UNCHANGED <<request, mem>> /\ worker[c].fun = "read" /\ worker[c].place = "copy"
        /\ ItemDone(c, Copied(c))
    BY <1>13 DEF ReadAreaCopy, InRequest, Copied
  <2>2. QED
    BY <2>1, ItemDoneKinds
<1>14. CASE WriteAreaCopy(c) \/ WriteBitStore(c)
  <2>1. InRequest(c) /\ UNCHANGED request /\ ItemDone(c, "ok")
    BY <1>14 DEF WriteAreaCopy, WriteBitStore, InRequest
  <2>2. worker[c].fun = "write"
    BY <1>14, <2>1, WorkerInRequest DEF WriteAreaCopy, WriteBitStore, WorkerOK
  <2>3. QED
    BY <1>14, <2>1, <2>2, ItemDoneKinds
<1>15. CASE WriteBitLoad(c)
  <2>1. InRequest(c) /\ UNCHANGED <<request, answer, mem>>
    BY <1>15 DEF WriteBitLoad, InRequest, pduVars
  <2>2. QED
    BY <1>15, <2>1, GoesOnKinds
<1>16. QED
  BY <1>2, <1>3, <1>4, <1>5, <1>6, <1>7, <1>8, <1>9, <1>10, <1>11, <1>12, <1>13, <1>14, <1>15 DEF WorkerStep

-----------------------------------------------------------------------------
(* The client's steps, and what they leave of the job in hand.             *)

\* The steps of the client that belong to a job.
JobStep ==
  \/ Submit \/ ReadSliceDone \/ WriteSliceDone \/ MultiVarsDone \/ ListSliceDone
  \/ AgBlockInfoDone \/ opDBGet \/ opDBFill \/ OtherClientStep

\* What the client can do in a step.
LEMMA NextClient ==
  ASSUME [Next]_vars
  PROVE  \/ UNCHANGED clientVars
         \/ ConnectionStep
         \/ ExchangeFails
         \/ UNCHANGED serverVars /\ UNCHANGED peer /\ JobStep
BY DEF Next, Connect, Perform, Fails, Serve, Application, StationAsks, Plc, vars, ClientStep,
       ConnectionStep, JobStep, OtherClientStep

\* Where a job is that asks, by the operation that asked.
LEMMA RunAfter ==
  ASSUME SessionInv, JobStep
  PROVE  /\ run' = "read" => opReadArea \/ ReadSliceDone \/ opDBGet
         /\ run' = "write" => opWriteArea \/ WriteSliceDone \/ opDBFill
         /\ run' = "readmulti" => opReadMultiVars
         /\ run' = "writemulti" => opWriteMultiVars
         /\ run' = "listbot" => opListBlocksOfType \/ ListSliceDone
         /\ run' = "blkinfo" => opAgBlockInfo
<1>1. CASE Submit
  <2> DEFINE op == job'.op
  <2>1. /\ run' = "idle" \/ run' \in RunsOf(op)
        /\ op \in {"dbget", "dbfill"} => run' \in {"idle", "blkinfo"}
        /\ run' = "blkinfo" => op \in {"blkinfo", "dbget", "dbfill"}
    BY <1>1, JobStarts
  <2>2. ASSUME NEW f, NEW code, NEW o, AskControl(o, f, code) PROVE op = o
    BY <2>2 DEF AskControl, Begins
  <2>3. ASSUME NEW o, AskSZL(o) PROVE op = o
    BY <2>3 DEF AskSZL, Begins
  <2>4. ASSUME NEW o, NEW f, AskSimple(o, f) PROVE op = o
    BY <2>4 DEF AskSimple, Begins
  <2>5. /\ opReadArea => op = "read"
        /\ opWriteArea => op = "write"
        /\ opReadMultiVars => op = "readmulti"
        /\ opWriteMultiVars => op = "writemulti"
        /\ opListBlocksOfType => op = "listbot"
        /\ opAgBlockInfo => op \in {"blkinfo", "dbget", "dbfill"}
    BY DEF opReadArea, opWriteArea, opReadMultiVars, opWriteMultiVars, opListBlocksOfType, opAgBlockInfo, Begins
  <2>6. \/ opReadArea \/ opWriteArea \/ opReadMultiVars \/ opWriteMultiVars \/ opListBlocksOfType \/ opAgBlockInfo
        \/ op \in {"listall", "upload", "download", "stop", "hotstart", "coldstart", "copyram", "compress", "delete",
                   "szl", "szllist", "ordercode", "cpuinfo", "cpinfo", "status", "protection",
                   "getclock", "setclock", "setpassword", "clearpassword"}
    <3>1. opListBlocks \/ opUpload \/ opDownload => op \in {"listall", "upload", "download"}
      BY DEF opListBlocks, opUpload, opDownload, Begins
    <3>2. opPlcStop \/ opPlcHotStart \/ opPlcColdStart \/ opCopyRamToRom \/ opCompress \/ opDelete
            => op \in {"stop", "hotstart", "coldstart", "copyram", "compress", "delete"}
      BY <2>2 DEF opPlcStop, opPlcHotStart, opPlcColdStart, opCopyRamToRom, opCompress, opDelete
    <3>3. opReadSZL \/ opReadSZLList \/ opGetOrderCode \/ opGetCpuInfo \/ opGetCpInfo \/ opGetPlcStatus \/ opGetProtection
            => op \in {"szl", "szllist", "ordercode", "cpuinfo", "cpinfo", "status", "protection"}
      BY <2>3 DEF opReadSZL, opReadSZLList, opGetOrderCode, opGetCpuInfo, opGetCpInfo, opGetPlcStatus, opGetProtection
    <3>4. opGetDateTime \/ opSetDateTime \/ opSetPassword \/ opClearPassword
            => op \in {"getclock", "setclock", "setpassword", "clearpassword"}
      BY <2>4 DEF opGetDateTime, opSetDateTime, opSetPassword, opClearPassword
    <3> HIDE DEF op
    <3>5. QED
      BY <1>1, <3>1, <3>2, <3>3, <3>4 DEF Submit
  <2>7. QED
    BY <2>1, <2>5, <2>6 DEF RunsOf, Reported, NoJobRuns, Waits
<1>2. CASE OtherClientStep
  BY <1>2, OtherRunsStay DEF Claimed, Reported
<1>3. QED
  BY <1>1, <1>2 DEF JobStep, ReadSliceDone, WriteSliceDone, MultiVarsDone, ListSliceDone, AgBlockInfoDone,
                    opDBGet, opDBFill, ReadSlice, WriteSlice, Ask, Returns

\* The job's own bookkeeping.
LEMMA RunOfJobNext ==
  ASSUME SessionInv, RunOfJob, [Next]_vars
  PROVE  RunOfJob'
<1> USE DEF NoJobRuns, Claimed, Reported
<1>1. CASE UNCHANGED clientVars
  BY <1>1 DEF RunOfJob, clientVars, OneArea
<1>2. CASE ConnectionStep
  BY <1>2, ConnectionStays DEF RunOfJob
<1>3. CASE ExchangeFails
  BY <1>3 DEF RunOfJob, ExchangeFails
<1>4. CASE Submit
  <2>1. run' = "idle" => result' # "pending"
    BY <1>4, JobStarts DEF StartErrors
  <2>2. QED
    BY <1>4, <2>1, JobStarts DEF RunOfJob, OneArea
<1>5. CASE OtherClientStep
  <2>1. job.op \notin Claimed
    BY <1>5, OtherRunsStay DEF RunOfJob, RunsOf, Waits
  <2>2. QED
    BY <1>5, <2>1, OtherRunsStay DEF RunOfJob, RunsOf, Waits
<1>6. CASE ReadSliceDone \/ WriteSliceDone
  <2>1. /\ run \in {"read", "write"} /\ job' = job
        /\ \/ run' = run /\ result' = "pending"
           \/ run' = "idle" /\ result' # "pending"
    BY <1>6 DEF ReadSliceDone, WriteSliceDone, Answered, ReadSlice, WriteSlice, Ask, Returns, WriteError, Refused, CpuError, WholeRead
  <2>2. QED
    BY <2>1 DEF RunOfJob
<1>7. CASE MultiVarsDone
  BY <1>7 DEF RunOfJob, MultiVarsDone, Returns, CpuError
<1>8. CASE ListSliceDone
  <2>1. /\ run = "listbot" /\ job' = job
        /\ \/ run' = run /\ result' = result
           \/ run' = "idle" /\ result' # "pending"
    BY <1>8 DEF ListSliceDone, Answered, Ask, Returns
  <2>2. QED
    BY <2>1 DEF RunOfJob
<1>9. CASE AgBlockInfoDone
  BY <1>9 DEF RunOfJob, AgBlockInfoDone, Returns, InfoError, CpuError
<1>10. CASE opDBGet \/ opDBFill
  <2>1. /\ job'.op \in {"dbget", "dbfill"}
        /\ \/ run' = (IF job'.op = "dbget" THEN "read" ELSE "write") /\ result' = "pending"
           \/ run' = "idle" /\ result' # "pending"
    BY <1>10 DEF opDBGet, opDBFill, ReadSlice, WriteSlice, Ask, Returns, BadParams
  <2>2. QED
    BY <2>1 DEF RunOfJob, RunsOf
<1>11. QED
  BY <1>1, <1>2, <1>3, <1>4, <1>5, <1>6, <1>7, <1>8, <1>9, <1>10, NextClient DEF JobStep

\* Of the elements not yet moved some go into a slice.
LEMMA SliceNat ==
  ASSUME SessionInv, run \in {"read", "write"}
  PROVE  /\ NumElements(left, RoomToRead(job)) \in Nat /\ NumElements(left, RoomToWrite(job)) \in Nat
         /\ DataSizeByte(job.wl) \in {1, 2, 4} /\ left \in Nat /\ start \in Nat
<1>1. ClientTypes /\ DataSizeByte(job.wl) # 0 /\ left \in Nat /\ start \in Nat
  BY DEF SessionInv, ClientTypes
<1>2. RoomToRead(job) \in Nat /\ RoomToWrite(job) \in Nat
  BY <1>1, RoomNat
<1>3. QED
  BY <1>1, <1>2, SliceElements, ElementBytes

\* A step of a job does not end it as a lost one.
LEMMA JobStepEnds ==
  ASSUME SessionInv, RunOfJob, JobStep
  PROVE  /\ ~Lost'
         /\ run' \in NoJobRuns => result' # "errIso" \/ job'.op \notin Claimed
<1>1. CASE Submit
  BY <1>1, JobStarts DEF Lost, StartErrors
<1>2. CASE OtherClientStep
  BY <1>2, OtherRunsStay DEF Lost, RunOfJob, RunsOf, Claimed, Reported, Waits, NoJobRuns
<1>3. CASE ReadSliceDone \/ WriteSliceDone \/ MultiVarsDone
  BY <1>3 DEF ReadSliceDone, WriteSliceDone, MultiVarsDone, ReadSlice, WriteSlice, Ask, Returns, Lost, NoJobRuns,
              WriteError, Refused, CpuError, WholeRead
<1>4. CASE AgBlockInfoDone \/ ListSliceDone
  BY <1>4 DEF AgBlockInfoDone, ListSliceDone, Ask, Returns, Lost, NoJobRuns, InfoError, CpuError
<1>5. CASE opDBGet \/ opDBFill
  BY <1>5 DEF opDBGet, opDBFill, ReadSlice, WriteSlice, Ask, Returns, Lost, NoJobRuns, BadParams
<1>6. QED
  BY <1>1, <1>2, <1>3, <1>4, <1>5 DEF JobStep

\* A job of one area is at its first element, or one slice further on.
LEMMA LoopInvNext ==
  ASSUME SessionInv, RunOfJob, LoopInv, [Next]_vars
  PROVE  LoopInv'
<1>1. CASE UNCHANGED clientVars
  BY <1>1 DEF LoopInv, Lost, MovedBytes, OneArea, clientVars, loopVars
<1>2. CASE ConnectionStep
  BY <1>2, ConnectionStays DEF LoopInv, Lost, MovedBytes, OneArea, NoJobRuns
<1>3. CASE ExchangeFails
  <2>1. Lost' => run \in {"read", "write"} \/ Lost
    BY <1>3 DEF ExchangeFails, Lost, RunOfJob, RunsOf, OneArea, NoJobRuns, Claimed, Reported
  <2>2. QED
    BY <1>3, <2>1 DEF ExchangeFails, LoopInv, MovedBytes, loopVars
<1>4. CASE UNCHANGED serverVars /\ JobStep
  <2>1. ~Lost'
    BY <1>4, JobStepEnds
  <2>2. ASSUME ReadSliceDone \/ WriteSliceDone, run' \in {"read", "write"} PROVE LoopInv'
    <3> DEFINE d == DataSizeByte(job.wl)
               n == IF ReadSliceDone THEN NumElements(left, RoomToRead(job)) ELSE NumElements(left, RoomToWrite(job))
    <3>1. /\ run \in {"read", "write"} /\ job' = job /\ left' = left - n /\ start' = start + n * d /\ left - n > 0
      BY <2>2 DEF ReadSliceDone, WriteSliceDone, Answered, ReadSlice, WriteSlice, Ask, Returns, Advance
    <3>2. n \in Nat /\ d \in {1, 2, 4}
      BY <3>1, SliceNat
    <3>3. /\ BadParams(job) = "ok" /\ job.start \in Nat /\ job.amount \in Nat
          /\ left \in 1..job.amount /\ start = job.start + d * (job.amount - left)
      BY <3>1 DEF LoopInv, MovedBytes
    <3> HIDE DEF n, d
    <3>4. left' \in 1..job.amount /\ start' = job.start + d * (job.amount - left')
      <4>1. d \in {1, 2, 4} /\ job.start \in Nat /\ job.amount \in Nat /\ left \in 1..job.amount /\ n \in Nat /\ left - n > 0
        BY <3>1, <3>2, <3>3
      <4>2. /\ left - n \in 1..job.amount
            /\ (job.start + d * (job.amount - left)) + n * d = job.start + d * (job.amount - (left - n))
        <5>1. d = 1 \/ d = 2 \/ d = 4
          BY <4>1
        <5>2. QED
          BY <4>1, <5>1
      <4>3. start' = (job.start + d * (job.amount - left)) + n * d
        BY <3>1, <3>3
      <4>4. QED
        BY <3>1, <4>2, <4>3
    <3>5. QED
      BY <3>1, <3>3, <3>4 DEF LoopInv, MovedBytes, d
  <2>3. ASSUME NEW j, job' = j, BadParams(j) = "ok", j.start \in Int, j.amount \in Int, start' = j.start, left' = j.amount
        PROVE  LoopInv'
    <3>1. j.start \in Nat /\ j.amount \in Nat \ {0} /\ DataSizeByte(j.wl) \in {1, 2, 4}
      BY <2>3, GoodParams, ElementBytes
    <3>2. DataSizeByte(j.wl) * (j.amount - j.amount) = 0
      BY <3>1
    <3> DEFINE m == DataSizeByte(j.wl) * (j.amount - j.amount)
    <3>3. j.start = j.start + m
      BY <3>1, <3>2
    <3>4. MovedBytes' = m
      BY <2>3 DEF MovedBytes
    <3> HIDE DEF m
    <3>5. QED
      BY <2>3, <3>1, <3>3, <3>4 DEF LoopInv
  <2>4. ASSUME opReadArea \/ opWriteArea, run' \in {"read", "write"} PROVE LoopInv'
    <3>1. PICK j \in Jobs, op \in {"read", "write"} :
            Begins(j, {op}) /\ job' = j /\ BadParams(j) = "ok" /\ start' = j.start /\ left' = j.amount
      BY <2>4 DEF opReadArea, opWriteArea, ReadSlice, WriteSlice, Returns
    <3>2. j.start \in Int /\ j.amount \in Int
      BY <3>1, JobBegins DEF IsJob
    <3>3. QED
      BY <2>3, <3>1, <3>2
  <2>5. ASSUME opDBGet \/ opDBFill, run' \in {"read", "write"} PROVE LoopInv'
    <3>1. answer[Me].mc7 \in Nat /\ (job.op = "dbget" => job.amount \in Int)
      <4>1. Answered("blkinfo") /\ "blkinfo" \in Waits
        BY <2>5 DEF opDBGet, opDBFill, Waits
      <4>2. QED
        BY <4>1, AnsweredAlone DEF AnsweredBy, AskedBy, AnswerOK, SessionInv, ClientTypes
    <3>2. /\ BadParams(job') = "ok" /\ job'.start = 0 /\ job'.amount \in Int
          /\ start' = 0 /\ left' = job'.amount
      BY <2>5, <3>1 DEF opDBGet, opDBFill, ReadSlice, WriteSlice, Returns, Least
    <3>3. QED
      BY <2>3, <3>2
  <2>6. run' \in {"read", "write"} => LoopInv'
    BY <1>4, <2>2, <2>4, <2>5, RunAfter
  <2>7. QED
    BY <2>1, <2>6 DEF LoopInv
<1>5. QED
  BY <1>1, <1>2, <1>3, <1>4, NextClient

-----------------------------------------------------------------------------
(* Bytes lie at the place they were meant for.                             *)

\* What the client has asked for: to read, and to write.
Wanted ==
  IF run = "read" THEN <<Reference(job, start, NumElements(left, RoomToRead(job)))>>
  ELSE [k \in DOMAIN job.items |-> ReadItem(job, k)]
Given ==
  IF job.op = "writemulti" THEN [k \in DOMAIN job.items |-> WriteItem(job, jobs, k)]
  ELSE <<Data(job, jobs, start - job.start, NumElements(left, RoomToWrite(job)))>>

\* In the memory (except timers), in requests to write and in the workers that
\* serve them.
MemPlaced == \A a \in Areas \ {"TM"} : \A i \in DOMAIN mem[a] : mem[a][i].at = i
RequestPlaced(c) == request[c].fun = "write" => \A k \in DOMAIN request[c].items : InPlace(request[c].items[k])
WorkerPlaced(c) ==
  /\ InRequest(c) /\ worker[c].fun = "write" => \A k \in DOMAIN worker[c].items : InPlace(worker[c].items[k])
  /\ worker[c].place \in {"copy", "store"} => ~Incoherent(Item(c)) /\ ~BadAddress(Item(c))
  /\ worker[c].place = "store" => worker[c].byte.at = StartByte(Item(c))
PlaceInv == MemPlaced /\ \A c \in Conns : RequestPlaced(c) /\ WorkerPlaced(c)

\* What opReadArea and opReadMultiVars ask for.
LEMMA ReadAsked ==
  ASSUME SessionInv, RunOfJob, opReadArea \/ ReadSliceDone \/ opDBGet \/ opReadMultiVars,
         run' \in {"read", "readmulti"}
  PROVE  request'[Me] = [fun |-> "read", items |-> Wanted'] /\ answer'[Me] = Nothing
<1>1. ASSUME NEW j, NEW at, NEW n, ReadSlice(j, at, n), job' = j, PDULength' = PDULength
      PROVE  request'[Me] = [fun |-> "read", items |-> Wanted'] /\ answer'[Me] = Nothing
  <2> DEFINE r == [fun |-> "read", items |-> <<Reference(j, at, NumElements(n, RoomToRead(j)))>>]
  <2>1. Ask("read", r) /\ left' = n /\ start' = at
    BY <1>1 DEF ReadSlice
  <2>2. Wanted' = <<Reference(j, at, NumElements(n, RoomToRead(j)))>>
    BY <1>1, <2>1 DEF Ask, Wanted, RoomToRead
  <2>3. r = [fun |-> "read", items |-> Wanted']
    BY <2>2
  <2> HIDE DEF r
  <2>4. QED
    BY <2>1, <2>3, AskMe
<1>2. CASE opReadArea
  BY <1>1, <1>2 DEF opReadArea, Begins, Returns
<1>3. CASE ReadSliceDone
  BY <1>1, <1>3 DEF ReadSliceDone, Returns
<1>4. CASE opDBGet
  BY <1>1, <1>4 DEF opDBGet, Returns
<1>5. CASE opReadMultiVars
  <2>1. PICK j \in Jobs : job' = j /\ AskItems(j, "readmulti", [fun |-> "read", items |-> [k \in DOMAIN j.items |-> ReadItem(j, k)]])
    BY <1>5 DEF opReadMultiVars
  <2> DEFINE r == [fun |-> "read", items |-> [k \in DOMAIN j.items |-> ReadItem(j, k)]]
  <2>2. Ask("readmulti", r)
    BY <2>1 DEF AskItems, Returns
  <2>3. Wanted' = [k \in DOMAIN j.items |-> ReadItem(j, k)]
    BY <2>1, <2>2 DEF Wanted, Ask
  <2>4. r = [fun |-> "read", items |-> Wanted']
    BY <2>3
  <2> HIDE DEF r
  <2>5. QED
    BY <2>2, <2>4, AskMe
<1>6. QED
  BY <1>2, <1>3, <1>4, <1>5

\* What opWriteArea and opWriteMultiVars ask for.
LEMMA WriteAsked ==
  ASSUME SessionInv, RunOfJob, opWriteArea \/ WriteSliceDone \/ opDBFill \/ opWriteMultiVars,
         run' \in {"write", "writemulti"}
  PROVE  request'[Me] = [fun |-> "write", items |-> Given'] /\ answer'[Me] = Nothing
<1>1. ASSUME NEW j, NEW at, NEW n, WriteSlice(j, jobs', at, n), job' = j, PDULength' = PDULength, j.op # "writemulti"
      PROVE  request'[Me] = [fun |-> "write", items |-> Given'] /\ answer'[Me] = Nothing
  <2> DEFINE r == [fun |-> "write", items |-> <<Data(j, jobs', at - j.start, NumElements(n, RoomToWrite(j)))>>]
  <2>1. Ask("write", r) /\ left' = n /\ start' = at
    BY <1>1 DEF WriteSlice
  <2>2. Given' = <<Data(j, jobs', at - j.start, NumElements(n, RoomToWrite(j)))>>
    BY <1>1, <2>1 DEF Given, RoomToWrite
  <2>3. r = [fun |-> "write", items |-> Given']
    BY <2>2
  <2> HIDE DEF r
  <2>4. QED
    BY <2>1, <2>3, AskMe
<1>2. CASE opWriteArea
  BY <1>1, <1>2 DEF opWriteArea, Begins, Returns
<1>3. CASE WriteSliceDone
  <2>1. job.op # "writemulti"
    BY <1>3 DEF WriteSliceDone, Answered, RunOfJob, RunsOf, NoJobRuns, Reported
  <2>2. QED
    BY <1>1, <1>3, <2>1 DEF WriteSliceDone, Returns
<1>4. CASE opDBFill
  BY <1>1, <1>4 DEF opDBFill, Returns
<1>5. CASE opWriteMultiVars
  <2>1. PICK j \in Jobs :
          /\ Begins(j, {"writemulti"}) /\ job' = j
          /\ AskItems(j, "writemulti", [fun |-> "write", items |-> [k \in DOMAIN j.items |-> WriteItem(j, jobs + 1, k)]])
    BY <1>5 DEF opWriteMultiVars
  <2> DEFINE r == [fun |-> "write", items |-> [k \in DOMAIN j.items |-> WriteItem(j, jobs + 1, k)]]
  <2>2. Ask("writemulti", r)
    BY <2>1 DEF AskItems, Returns
  <2>3. Given' = [k \in DOMAIN j.items |-> WriteItem(j, jobs + 1, k)]
    BY <2>1 DEF Given, Begins
  <2>4. r = [fun |-> "write", items |-> Given']
    BY <2>3
  <2> HIDE DEF r
  <2>5. QED
    BY <2>2, <2>4, AskMe
<1>6. QED
  BY <1>2, <1>3, <1>4, <1>5

\* Data of a job is meant for the place its item has in the area.
LEMMA DataPlace ==
  ASSUME NEW j, NEW id, NEW k \in Nat, NEW n, j.start \in Nat, j.wl = "Bit" => k = 0
  PROVE  InPlace(Data(j, id, k, n))
<1> DEFINE it == Data(j, id, k, n)
           bytes == n * DataSizeByte(j.wl)
<1>1. it.wl = j.wl /\ it.address = Address(j.wl, j.start + k) /\ it.data = Buffer(j, id, k, bytes)
  BY DEF Data, Reference
<1>2. ASSUME j.wl \notin {"Timer", "Counter"} PROVE StartByte(it) = Place(j.wl, j.start) + k
  <2>1. CASE j.wl = "Bit"
    BY <1>1, <2>1 DEF StartByte, Address, ByIndex, Place
  <2>2. CASE j.wl # "Bit"
    <3>1. StartByte(it) = (8 * (j.start + k)) \div 8
      BY <1>1, <1>2, <2>2 DEF StartByte, Address, ByIndex
    <3>2. Place(j.wl, j.start) = j.start
      BY <1>2, <2>2 DEF Place
    <3>3. QED
      BY <3>1, <3>2
  <2>3. QED
    BY <2>1, <2>2
<1>3. \A i \in DOMAIN Buffer(j, id, k, bytes) : Buffer(j, id, k, bytes)[i].at = Place(j.wl, j.start) + k + i - 1
  BY DEF Buffer
<1> HIDE DEF it, bytes
<1>4. QED
  BY <1>1, <1>2, <1>3 DEF InPlace, it

\* Requests of the client have their data in place.
LEMMA GivenPlaced ==
  ASSUME SessionInv, RunOfJob, SessionInv', LoopInv',
         opWriteArea \/ WriteSliceDone \/ opDBFill \/ opWriteMultiVars, run' \in {"write", "writemulti"}
  PROVE  \A k \in DOMAIN Given' : InPlace(Given'[k])
<1>1. CASE run' = "write" /\ job'.op # "writemulti"
  <2>1. /\ job'.start \in Nat /\ start' \in Nat /\ BadParams(job') = "ok" /\ left' \in 1..job'.amount /\ job'.amount \in Nat
        /\ start' = job'.start + DataSizeByte(job'.wl) * (job'.amount - left')
    BY <1>1 DEF LoopInv, SessionInv, ClientTypes, MovedBytes
  <2> DEFINE k == start' - job'.start
             n == NumElements(left', RoomToWrite(job)')
  <2>2. k \in Nat /\ (job'.wl = "Bit" => k = 0)
    <3>1. DataSizeByte(job'.wl) \in {1, 2, 4}
      BY <2>1, GoodParams, ElementBytes
    <3> DEFINE d == DataSizeByte(job'.wl)
               m == job'.amount - left'
    <3>2. m \in Nat /\ (job'.wl = "Bit" => m = 0)
      <4>1. job'.wl = "Bit" => job'.amount = 1
        BY <2>1, GoodParams
      <4>2. QED
        BY <2>1, <4>1
    <3>3. k = d * m
      <4>1. d * m \in Int
        <5>1. d = 1 \/ d = 2 \/ d = 4
          BY <3>1
        <5>2. QED
          BY <3>2, <5>1
      <4> DEFINE p == d * m
      <4>2. start' = job'.start + p
        BY <2>1
      <4> HIDE DEF p
      <4>3. k = p
        BY <2>1, <4>1, <4>2 DEF p
      <4>4. QED
        BY <4>3 DEF p
    <3>4. d = 1 \/ d = 2 \/ d = 4
      BY <3>1
    <3> HIDE DEF d, m, k
    <3>5. QED
      BY <3>2, <3>3, <3>4
  <2>3. Given' = <<Data(job', jobs', k, n)>>
    BY <1>1 DEF Given
  <2> HIDE DEF k, n
  <2>4. InPlace(Data(job', jobs', k, n))
    BY <2>1, <2>2, DataPlace
  <2> DEFINE it == Data(job', jobs', k, n)
  <2>5. DOMAIN Given' = {1} /\ Given'[1] = it
    BY <2>3
  <2> HIDE DEF it
  <2>6. QED
    BY <2>4, <2>5 DEF it
<1>2. CASE opWriteMultiVars
  <2>1. PICK j \in Jobs : job' = j /\ j.op = "writemulti" /\ IsJob(j)
    BY <1>2, JobBegins DEF opWriteMultiVars, Begins
  <2>2. Given' = [k \in DOMAIN j.items |-> WriteItem(j, jobs', k)]
    BY <2>1 DEF Given
  <2>3. ASSUME NEW k \in DOMAIN j.items PROVE InPlace(WriteItem(j, jobs', k))
    <3>1. Adjusted(j.items[k]).start \in Nat
      BY <2>1, Parts
    <3>2. QED
      BY <3>1, DataPlace DEF WriteItem
  <2>4. QED
    BY <2>2, <2>3
<1>3. QED
  <2>1. opWriteArea => job'.op = "write"
    BY DEF opWriteArea, Begins
  <2>2. opDBFill => job'.op = "dbfill"
    BY DEF opDBFill
  <2>3. WriteSliceDone => job'.op # "writemulti"
    BY DEF WriteSliceDone, Answered, RunOfJob, RunsOf, NoJobRuns, Reported
  <2>4. ~opWriteMultiVars => run' = "write"
    BY DEF opWriteArea, WriteSliceDone, opDBFill, WriteSlice, Ask, Returns
  <2>5. QED
    BY <1>1, <1>2, <2>1, <2>2, <2>3, <2>4

\* Bytes that are taken for the data of an item are stored in its place.
LEMMA StrayPlace ==
  ASSUME NEW it, NEW fits, IsItem("write", it)
  PROVE  InPlace(Stray(it, fits))
<1> DEFINE s == Stray(it, fits)
           data == [k \in DOMAIN it.data |-> [by |-> "stray", n |-> 0, at |-> StartByte(it) + k - 1, bit |-> NoBit]]
<1>1. s.wl = it.wl /\ s.address = it.address /\ s.data = data
  BY DEF Stray, IsItem
<1>2. StartByte(s) = StartByte(it)
  BY <1>1 DEF StartByte
<1>3. \A k \in DOMAIN data : data[k].at = StartByte(it) + k - 1
  OBVIOUS
<1> HIDE DEF s, data
<1>4. QED
  BY <1>1, <1>2, <1>3 DEF InPlace, s

\* What a worker has in hand in place stays in place.
LEMMA WorkerStaysPlaced ==
  ASSUME SessionInv, PlaceInv, NEW c \in Conns, WorkerStep(c)
  PROVE  WorkerPlaced(c)'
<1> USE DEF WorkerPlaced, InRequest
<1>1. WorkerPlaced(c) /\ RequestPlaced(c) /\ MemPlaced
  BY DEF PlaceInv
<1>2. CASE Elsewhere(c)
  BY <1>2 DEF Elsewhere
<1>3. CASE TakesUp(c)
  <2>1. worker'[c].place = "find"
    BY <1>3 DEF TakesUp
  <2>2. ASSUME NEW fits \in BOOLEAN, request[c].fun = "write",
               worker'[c].items = [k \in DOMAIN request[c].items |->
                 IF Placed(request[c].items, k) THEN request[c].items[k] ELSE Stray(request[c].items[k], fits)]
        PROVE  \A k \in DOMAIN worker'[c].items : InPlace(worker'[c].items[k])
    <3>1. \A k \in DOMAIN request[c].items : InPlace(request[c].items[k]) /\ IsItem("write", request[c].items[k])
      BY <1>1, <2>2 DEF RequestPlaced, SessionInv, PduTypes, IsRequest
    <3>2. QED
      BY <2>2, <3>1, StrayPlace
  <2>3. QED
    BY <1>3, <2>1, <2>2 DEF TakesUp
<1>4. CASE GoesOn(c)
  <2>1. Item(c)' = Item(c)
    BY <1>4 DEF GoesOn, Item
  <2>2. /\ worker'[c].fun = "write" => \A k \in DOMAIN worker'[c].items : InPlace(worker'[c].items[k])
        /\ ~Incoherent(Item(c)) /\ ~BadAddress(Item(c))
    BY <1>1, <1>4 DEF GoesOn
  <2>3. ~Incoherent(Item(c))' /\ ~BadAddress(Item(c))'
    BY <2>1, <2>2 DEF Incoherent, BadAddress, SizeOfItem
  <2>4. ASSUME worker'[c].place = "store" PROVE worker'[c].byte.at = StartByte(Item(c)')
    <3> DEFINE it == Item(c)
    <3>1. /\ worker[c].place = "copy" /\ worker[c].fun = "write" /\ it.wl = "Bit"
          /\ worker'[c].byte = mem[it.area][StartByte(it)]
      BY <1>4, <2>4 DEF GoesOn
    <3>2. /\ it.area \in Areas /\ StartByte(it) \in Nat /\ SizeOfItem(it) \in Int /\ AreaSize[it.area] \in Nat
          /\ StartByte(it) + SizeOfItem(it) <= AreaSize[it.area] /\ IsItem("write", it)
      BY <3>1, ItemInHand
    <3>3. SizeOfItem(it) >= 1
      BY <3>1, <3>2, BitItem
    <3>4. it.area # "TM"
      BY <2>2, <3>1 DEF Incoherent
    <3>5. DOMAIN mem[it.area] = 0..AreaSize[it.area] - 1
      BY <3>2 DEF SessionInv, AreaTypes
    <3> HIDE DEF it
    <3>6. StartByte(it) \in DOMAIN mem[it.area]
      BY <3>2, <3>3, <3>5
    <3>7. QED
      BY <1>1, <2>1, <3>1, <3>2, <3>4, <3>6 DEF MemPlaced, it
  <2>5. (StartByte(Item(c)))' = StartByte(Item(c)')
    BY DEF StartByte
  <2>6. QED
    BY <1>4, <2>2, <2>3, <2>4, <2>5 DEF GoesOn
<1>5. ASSUME NEW r, Replies(c, r) PROVE WorkerPlaced(c)'
  BY <1>1, <1>5 DEF Replies
<1>6. QED
  BY <1>2, <1>3, <1>4, <1>5, WorkerKinds

\* The memory stays in place, whoever writes.
LEMMA MemStaysPlaced ==
  ASSUME SessionInv, PlaceInv, [Next]_vars
  PROVE  MemPlaced'
<1>1. MemPlaced /\ DOMAIN mem = Areas
  BY DEF PlaceInv, SessionInv, AreaTypes
<1>2. CASE MemoryStays
  BY <1>1, <1>2 DEF MemPlaced, MemoryStays
<1>3. CASE UnlockArea \/ \E o \in AppOps : LockArea(o)
  BY <1>1, <1>3 DEF MemPlaced, UnlockArea, LockArea
<1>4. CASE UpdateByte
  <2>1. PICK i : mem' = [mem EXCEPT ![app.area][i] = [by |-> "app", n |-> updates, at |-> i, bit |-> NoBit]]
    BY <1>4 DEF UpdateByte
  <2> DEFINE b == [by |-> "app", n |-> updates, at |-> i, bit |-> NoBit]
  <2>2. b.at = i
    OBVIOUS
  <2>3. mem' = [mem EXCEPT ![app.area][i] = b]
    BY <2>1
  <2> HIDE DEF b
  <2>4. QED
    BY <1>1, <2>2, <2>3 DEF MemPlaced
<1>5. ASSUME NEW c \in Conns, WriteAreaCopy(c) \/ WriteBitStore(c)
      PROVE  MemPlaced'
  <2> DEFINE it == Item(c)
  <2>1. worker[c].place \in {"copy", "store"} /\ InRequest(c) /\ worker[c].fun = "write"
    BY <1>5 DEF WriteAreaCopy, WriteBitStore, InRequest, SessionInv, WorkerTypes, WorkerOK
  <2>2. /\ it.area \in Areas /\ StartByte(it) \in Nat /\ SizeOfItem(it) \in Int /\ IsItem("write", it)
        /\ it.area \notin {"CT"}
    BY <2>1, ItemInHand, S7ServerAssumption DEF Areas, SysAreas
  <2>3. InPlace(it) /\ ~Incoherent(it)
    <3>1. Len(worker[c].reply) + 1 \in DOMAIN worker[c].items
      BY <2>1, WorkerInRequest, SeqFacts
    <3>2. QED
      BY <2>1, <3>1 DEF PlaceInv, WorkerPlaced, Item
  <2>4. it.area # "TM" => \A k \in 1..SizeOfItem(it) : it.data[k].at = StartByte(it) + k - 1
    BY <2>2, <2>3 DEF InPlace, Incoherent, IsItem
  <2>5. CASE WriteAreaCopy(c)
    <3> DEFINE from == StartByte(it)
               n == SizeOfItem(it)
    <3>1. mem' = [mem EXCEPT ![it.area] =
                    [i \in DOMAIN @ |-> IF i \in from..from + n - 1 THEN it.data[i - from + 1] ELSE @[i]]]
      BY <2>5 DEF WriteAreaCopy
    <3>2. from \in Nat /\ n \in Int /\ (it.area # "TM" => \A k \in 1..n : it.data[k].at = from + k - 1)
      BY <2>2, <2>4
    <3> HIDE DEF from, n, it
    <3>3. \A a \in Areas \ {it.area} : mem'[a] = mem[a]
      BY <1>1, <3>1
    <3>4. mem'[it.area] = [i \in DOMAIN mem[it.area] |->
                             IF i \in from..from + n - 1 THEN it.data[i - from + 1] ELSE mem[it.area][i]]
      BY <1>1, <2>2, <3>1
    <3>5. ASSUME it.area # "TM", NEW i \in DOMAIN mem[it.area] PROVE mem'[it.area][i].at = i
      <4>1. CASE i \in from..from + n - 1
        <5>1. i - from + 1 \in 1..n /\ i = from + (i - from + 1) - 1
          BY <3>2, <4>1
        <5>2. it.data[i - from + 1].at = from + (i - from + 1) - 1
          BY <3>2, <3>5, <5>1
        <5>3. QED
          BY <3>4, <3>5, <4>1, <5>1, <5>2
      <4>2. CASE i \notin from..from + n - 1
        BY <1>1, <2>2, <3>4, <3>5, <4>2 DEF MemPlaced
      <4>3. QED
        BY <4>1, <4>2
    <3>6. QED
      BY <1>1, <3>3, <3>4, <3>5 DEF MemPlaced
  <2>6. CASE WriteBitStore(c)
    <3> DEFINE at == StartByte(it)
               cell == it.data[1]
               b == [worker[c].byte EXCEPT !.bit = [by |-> cell.by, n |-> cell.n, at |-> cell.at]]
    <3>1. mem' = [mem EXCEPT ![it.area][at] = b] /\ worker[c].place = "store"
      BY <2>6 DEF WriteBitStore
    <3>2. worker[c].byte.at = at /\ IsByte(worker[c].byte)
      BY <3>1 DEF PlaceInv, WorkerPlaced, SessionInv, WorkerTypes, WorkerOK
    <3>3. b.at = at
      BY <3>2 DEF IsByte
    <3> HIDE DEF b, at, it
    <3>4. QED
      BY <1>1, <3>1, <3>3 DEF MemPlaced
  <2>7. QED
    BY <1>5, <2>5, <2>6
<1>6. QED
  BY <1>2, <1>3, <1>4, <1>5, MemoryNext

\* What is on its way to the server: what was, something that is no write, what the
\* client asks to write, or what the station asks.
LEMMA RequestNext ==
  ASSUME SessionInv, RunOfJob, SessionInv', [Next]_vars, NEW c \in Conns
  PROVE  \/ request'[c] = request[c]
         \/ request'[c].fun # "write"
         \/ /\ c = Me /\ (opWriteArea \/ WriteSliceDone \/ opDBFill \/ opWriteMultiVars)
            /\ run' \in {"write", "writemulti"} /\ request'[Me].items = Given'
         \/ c = Station /\ request'[c] \in StationRequests
<1> DEFINE R == \/ request'[c] = request[c]
                \/ request'[c].fun # "write"
                \/ /\ c = Me /\ (opWriteArea \/ WriteSliceDone \/ opDBFill \/ opWriteMultiVars)
                   /\ run' \in {"write", "writemulti"} /\ request'[Me].items = Given'
                \/ c = Station /\ request'[c] \in StationRequests
<1>1. DOMAIN request = Conns /\ Me \in Conns /\ Nothing.fun = "none"
  BY MicroClientAssumption DEF SessionInv, PduTypes, Nothing
<1>2. ASSUME request'[c] = request[c] \/ request'[c] = Nothing
      PROVE  R
  BY <1>1, <1>2
<1>3. ASSUME NEW f, NEW r, Ask(f, r), c # Me PROVE request'[c] = request[c]
  BY <1>1, <1>3 DEF Ask
<1>4. CASE ConnectionStep
  <2>1. c # Me => request'[c] = request[c]
    BY <1>3, <1>4 DEF ConnectionStep, PeerConnect, NegotiatePDULength, Negotiated, PeerDisconnect, pduVars
  <2>2. CASE c = Me
    <3>1. request'[Me].fun \in {"none", "connect", "negotiate"} \/ request'[Me] = request[Me]
      BY <1>4, ConnectionStays
    <3>2. QED
      BY <1>1, <2>2, <3>1
  <2>3. QED
    BY <1>2, <2>1, <2>2
<1>5. CASE ExchangeFails
  BY <1>1, <1>2, <1>5 DEF ExchangeFails
<1>6. ASSUME Submit \/ ReadSliceDone \/ WriteSliceDone \/ MultiVarsDone \/ ListSliceDone
               \/ AgBlockInfoDone \/ opDBGet \/ opDBFill \/ OtherClientStep
      PROVE  R
  <2>1. CASE c # Me
    <3>1. UNCHANGED request \/ \E f, r : Ask(f, r)
      <4>1. CASE Submit
        <5>1. opReadArea \/ opWriteArea \/ opReadMultiVars \/ opWriteMultiVars \/ opAgBlockInfo => UNCHANGED request \/ \E f, r : Ask(f, r)
          BY DEF opReadArea, opWriteArea, opReadMultiVars, opWriteMultiVars, opAgBlockInfo, ReadSlice, WriteSlice, AskItems, Returns
        <5>2. opListBlocks \/ opListBlocksOfType \/ opUpload \/ opDownload => UNCHANGED request \/ \E f, r : Ask(f, r)
          BY DEF opListBlocks, opListBlocksOfType, opUpload, opDownload, Returns
        <5>3. ASSUME NEW o, NEW f, NEW code, AskControl(o, f, code) PROVE UNCHANGED request \/ \E g, r : Ask(g, r)
          BY <5>3 DEF AskControl, Returns
        <5>4. ASSUME NEW o, AskSZL(o) PROVE UNCHANGED request \/ \E g, r : Ask(g, r)
          BY <5>4 DEF AskSZL
        <5>5. ASSUME NEW o, NEW f, AskSimple(o, f) PROVE UNCHANGED request \/ \E g, r : Ask(g, r)
          BY <5>5 DEF AskSimple, Returns
        <5>6. QED
          BY <4>1, <5>1, <5>2, <5>3, <5>4, <5>5 DEF Submit, opPlcStop, opPlcHotStart, opPlcColdStart, opCopyRamToRom, opCompress,
                opDelete, opReadSZL, opReadSZLList, opGetOrderCode, opGetCpuInfo, opGetCpInfo, opGetPlcStatus, opGetProtection,
                opGetDateTime, opSetDateTime, opSetPassword, opClearPassword
      <4>2. CASE ReadSliceDone \/ WriteSliceDone \/ MultiVarsDone \/ ListSliceDone \/ AgBlockInfoDone \/ opDBGet \/ opDBFill
        BY <4>2 DEF ReadSliceDone, WriteSliceDone, MultiVarsDone, ListSliceDone, AgBlockInfoDone, opDBGet, opDBFill,
                    ReadSlice, WriteSlice, Returns
      <4>3. CASE OtherClientStep
        <5>1. CASE ListBlocksDone \/ StartUploadDone \/ UploadSliceDone \/ EndUploadDone \/ StartDownloadDone
          BY <5>1 DEF ListBlocksDone, StartUploadDone, UploadSliceDone, EndUploadDone, StartDownloadDone, Returns
        <5>2. CASE DownloadSlice \/ DownloadEnded \/ InsertBlock \/ InsertDone \/ ControlDone \/ SZLSliceDone \/ SimpleDone
          BY <5>2 DEF DownloadSlice, DownloadEnded, InsertBlock, InsertDone, ControlDone, SZLSliceDone, MoreSZL, SimpleDone,
                      Returns
        <5>3. QED
          BY <4>3, <5>1, <5>2 DEF OtherClientStep
      <4>4. QED
        BY <1>6, <4>1, <4>2, <4>3
    <3>2. QED
      BY <1>2, <1>3, <2>1, <3>1
  <2>2. CASE c = Me /\ run' \in {"write", "writemulti"}
    <3>1. opWriteArea \/ WriteSliceDone \/ opDBFill \/ opWriteMultiVars
      BY <1>6, <2>2, RunAfter DEF JobStep
    <3>2. request'[Me].items = Given'
      BY <2>2, <3>1, WriteAsked
    <3>3. QED
      BY <2>2, <3>1, <3>2
  <2>3. CASE c = Me /\ run' \notin {"write", "writemulti"}
    <3>1. run' # "off"
      <4>1. CASE Submit
        BY <4>1, JobStarts DEF NoJobRuns
      <4>2. CASE ReadSliceDone \/ WriteSliceDone \/ MultiVarsDone \/ ListSliceDone \/ AgBlockInfoDone \/ opDBGet \/ opDBFill
        BY <4>2 DEF ReadSliceDone, WriteSliceDone, MultiVarsDone, ListSliceDone, AgBlockInfoDone, opDBGet, opDBFill,
                    ReadSlice, WriteSlice, Returns, Ask
      <4>3. QED
        BY <1>6, <4>1, <4>2, OtherRunsStay DEF Waits
    <3>2. request'[Me].fun # "write"
      BY <1>1, <2>3, <3>1 DEF SessionInv, ClientTypes, Paired, AskedBy, Waits
    <3>3. QED
      BY <2>3, <3>2
  <2>4. QED
    BY <2>1, <2>2, <2>3
<1>7. CASE UNCHANGED clientVars
  <2>1. ASSUME NEW d \in Conns, WorkerStep(d) PROVE R
    <3>1. request'[c] = request[c] \/ request'[c] = Nothing
      BY <2>1, WorkerKinds DEF Alone
    <3>2. QED
      BY <1>2, <3>1
  <2>2. CASE StationAsks
    <3>1. PICK r \in StationRequests : request' = [request EXCEPT ![Station] = r]
      BY <2>2 DEF StationAsks
    <3>2. CASE c = Station
      BY <1>1, <3>1, <3>2
    <3>3. CASE c # Station
      BY <1>2, <3>1, <3>3
    <3>4. QED
      BY <3>2, <3>3
  <2>3. CASE Plc
    <3>1. request' = request \/ request' = [request EXCEPT ![Me] = Nothing]
      BY <2>3 DEF Plc, PlcStep, PlcConnects, PlcUploads, PlcDownloads, PlcControl, PlcSZLSlices, PlcRefuses, PlcTakes, PlcSends
    <3>2. QED
      BY <1>1, <1>2, <3>1
  <2>4. CASE AppStep
    BY <1>2, <2>4, ApplicationPdu DEF pduVars
  <2>5. CASE UNCHANGED vars
    BY <1>2, <2>5 DEF vars, pduVars
  <2>6. CASE Connect \/ Perform \/ Fails
    <3>1. ConnectionStep \/ ExchangeFails \/ Submit \/ ClientStep
      BY <2>6 DEF Connect, Perform, Fails, ConnectionStep
    <3>2. QED
      BY <1>4, <1>5, <1>6, <3>1 DEF ClientStep, OtherClientStep, ConnectionStep
  <2>7. QED
    BY <2>1, <2>2, <2>3, <2>4, <2>5, <2>6 DEF Next, Serve, Application
<1>8. QED
  BY <1>4, <1>5, <1>6, <1>7, NextClient DEF JobStep

\* What is on its way to the server is in place.
LEMMA RequestsStayPlaced ==
  ASSUME SessionInv, RunOfJob, PlaceInv, SessionInv', LoopInv', [Next]_vars, NEW c \in Conns
  PROVE  RequestPlaced(c)'
<1>1. CASE request'[c] = request[c] \/ request'[c].fun # "write"
  BY <1>1 DEF PlaceInv, RequestPlaced
<1>2. CASE /\ c = Me /\ (opWriteArea \/ WriteSliceDone \/ opDBFill \/ opWriteMultiVars)
           /\ run' \in {"write", "writemulti"} /\ request'[Me].items = Given'
  BY <1>2, GivenPlaced DEF RequestPlaced
<1>3. CASE c = Station /\ request'[c] \in StationRequests
  BY <1>3, S7SessionAssumption DEF RequestPlaced
<1>4. QED
  BY <1>1, <1>2, <1>3, RequestNext

\* What a worker may have in hand in a step of somebody else stays as it is.
LEMMA WorkersNext ==
  ASSUME SessionInv, [Next]_vars, NEW c \in Conns
  PROVE  worker'[c] = worker[c] \/ worker'[c] = Idle \/ WorkerStep(c)
<1>1. DOMAIN worker = Conns /\ Me \in Conns
  BY MicroClientAssumption DEF SessionInv, WorkerTypes
<1>2. CASE Connect
  BY <1>1, <1>2 DEF Connect, NewWorker
<1>3. CASE Perform \/ Fails \/ StationAsks \/ Plc \/ UNCHANGED vars
  BY <1>3 DEF Perform, Fails, StationAsks, Plc, vars, serverVars, workerVars
<1>4. CASE Application
  <2>1. ASSUME NEW o, RegisterDB(o) \/ RegisterSys(o) \/ UnregisterDB(o) \/ UnregisterSys(o) \/ LockArea(o)
        PROVE  UNCHANGED workerVars
    BY <2>1 DEF RegisterDB, RegisterSys, UnregisterDB, UnregisterSys, LockArea
  <2>2. ASSUME CountDB \/ LimitDB \/ UncountDB \/ UpdateByte \/ UnlockArea
        PROVE  UNCHANGED workerVars
    BY <2>2 DEF CountDB, LimitDB, UncountDB, UpdateByte, UnlockArea
  <2>3. QED
    BY <1>4, <2>1, <2>2 DEF Application, AppStep, workerVars
<1>5. ASSUME NEW d \in Conns, Serve(d) PROVE worker'[c] = worker[c] \/ WorkerStep(c)
  BY <1>5, WorkerKinds DEF Serve, Alone
<1>6. QED
  BY <1>2, <1>3, <1>4, <1>5 DEF Next

\* Every byte lies, or is on its way, where it was meant for.
LEMMA PlaceInvNext ==
  ASSUME SessionInv, RunOfJob, PlaceInv, SessionInv', LoopInv', [Next]_vars
  PROVE  PlaceInv'
<1>1. ASSUME NEW c \in Conns PROVE WorkerPlaced(c)'
  <2>1. CASE worker'[c] = worker[c]
    BY <2>1 DEF PlaceInv, WorkerPlaced, InRequest, Item, Incoherent, BadAddress, SizeOfItem, StartByte
  <2>2. CASE worker'[c] = Idle
    BY <2>2 DEF WorkerPlaced, InRequest, Idle
  <2>3. QED
    BY <2>1, <2>2, WorkersNext, WorkerStaysPlaced
<1>2. QED
  BY <1>1, MemStaysPlaced, RequestsStayPlaced DEF PlaceInv

\* What the proofs about reports start from.
BaseInv == SessionInv /\ RunOfJob /\ LoopInv /\ PlaceInv

\* Initially no job is in hand.
LEMMA InitBase == Init => BaseInv
<1> SUFFICES ASSUME Init PROVE RunOfJob /\ LoopInv /\ PlaceInv
  BY InitSession DEF BaseInv
<1>1. /\ job = [op |-> "none"] /\ run = "off" /\ result = "none"
      /\ request = [c \in Conns |-> Nothing] /\ worker = [c \in Conns |-> Idle]
      /\ mem = [a \in Areas |-> [i \in 0..AreaSize[a] - 1 |-> [by |-> "init", n |-> 0, at |-> i, bit |-> NoBit]]]
  BY DEF Init, InitServer, InitClient
<1>2. RunOfJob /\ LoopInv
  BY <1>1 DEF RunOfJob, LoopInv, Lost, NoJobRuns, Claimed, Reported
<1>3. MemPlaced
  BY <1>1 DEF MemPlaced
<1>4. \A c \in Conns : RequestPlaced(c) /\ WorkerPlaced(c)
  BY <1>1 DEF RequestPlaced, WorkerPlaced, InRequest, Idle, Nothing
<1>5. QED
  BY <1>2, <1>3, <1>4 DEF PlaceInv

\* Every step keeps it.
LEMMA NextBase == BaseInv /\ [Next]_vars => BaseInv'
BY NextSession, RunOfJobNext, LoopInvNext, PlaceInvNext DEF BaseInv
=============================================================================
