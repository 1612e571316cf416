# TLA+ verification of snap7 (plc4x-benchmarks, src/cpp/snap7)

The repository benchmarks four S7 client libraries against each other.  Its one
substantial program is the copy of **snap7**, a C++ library that speaks the S7
protocol over ISO-on-TCP (RFC 1006) as a client, a server and a peer-to-peer
partner.  The rest (the C++ and Java benchmark drivers) is sequential glue that
calls such a library in a loop and times it.  This directory verifies snap7.

Paths below are relative to `src/cpp/snap7/src/`.

## 1. Inventory

| part | state it keeps | operations | hard behaviour |
|---|---|---|---|
| threads, events, locks (`sys/snap_threads.cpp`, `sys/unix_threads.h`) | thread flags Started/Terminated/Closed; event State, auto or manual reset | Start, Terminate, WaitFor, Kill; Set, Reset, WaitFor, WaitForever | plain flags read by other threads; a timed wait consumes a signal only if it finds it on entry; threads killed where they stand |
| TCP socket (`sys/snap_msgsock.cpp`) | socket, Connected, LastTcpError | SckConnect, SendPacket, RecvPacket, PeekPacket, SckAccept, ... | time-outs, short reads, peer resets, purge after a time-out |
| ISO-on-TCP (`core/s7_isotcp.cpp`) | the PDU buffer, IsoPDUSize, ISO connection | isoConnect, isoDisconnect, isoSendBuffer, isoRecvBuffer, isoRecvPDU | reassembly of fragments, limits, confirm handshake |
| S7 peer (`core/s7_peer.cpp`) | PDULength, word counter | PeerConnect, NegotiatePDULength, GetNextWord | negotiated size, half-made connections |
| synchronous client (`core/s7_micro_client.cpp`) | the job record, the PDU and data buffers | 35 jobs: read, write, multi-variable, upload, download, block lists, SZL, clock, control, security | slicing by PDU length, several exchanges per job, answers that belong to an earlier request |
| asynchronous client (`core/s7_client.cpp`) | Job.Pending, EvtJob, EvtComplete, the worker thread | 24 As... calls, WaitAsCompletion, CheckAsCompletion, callback, Reset | two threads share a record with no lock |
| partner (`core/s7_partner.cpp`) | TxBuffer, RxBuffer, SendEvt, RecvEvt, FSendPending, FRecvPending, linked flag | Start, Stop, BSend, AsBSend, BRecv, Check/Wait..., the worker | two threads, two peers that may both send, reconnection |
| connection servers of passive partners (`core/s7_partner.cpp`) | server list, partner list | RegisterPartner, RemovePartner, Incoming | shared lists, listener thread against API |
| TCP server (`sys/snap_tcpsrvr.cpp`) | worker table, ClientsCount, event queue | Start, Stop, Incoming, Delete, DoEvent, PickEvent | listener, workers and API threads; time-outs that kill |
| S7 server (`core/s7_server.cpp`) | registered areas and DBs, CPU status | read, write, negotiate, control, block and SZL functions, RegisterArea, Lock/UnlockArea | several workers write the same areas |
| C interface (`lib/snap7_libmain.cpp`) | none (handles are pointers) | one call per method | - |
| texts, tables (`core/s7_text.cpp`, `core/s7_firmware.h`) | none | error texts, canned SZL answers | - |


How they interact.  Client, partner and server each own one ISO-on-TCP socket
object per connection and call it synchronously: `isoExchangeBuffer` sends a
request and returns the next PDU.  Asynchrony is built on top with threads: the
client has one worker for its job slot, the partner one worker per object, the
TCP server one listener and one worker per connection, each passive partner's
address one listener.  Threads talk through plain fields (`Job.Pending`,
`FSendPending`, `LastError`, `ClientsCount`, ...), a few events and three kinds of
critical sections.  Applications are called back from the worker threads.

What makes each part correct:

- asynchronous client: one job at a time, each performed once; a completion
  query or callback reports the job it belongs to; every job is reported;
- event queue: no undelivered event is overwritten, delivery in order, reporting
  threads get through;
- TCP server: the table holds exactly the workers that have not left it, the limit
  holds, after `Stop` nobody serves, `Stop` returns;
- ISO-on-TCP: an answer is the answer to the request, whole, in order; every
  exchange ends, the purge after a failed one included;
- partner: a block reported sent was received, whole and once; the link returns
  after a failure; no send stays pending;
- synchronous client and S7 server: a sliced read or write touches exactly the
  bytes asked for, for every amount and word length; what a reader sees under the
  area lock is what one writer wrote;
- connection servers: a partner that runs can be found, a server lives as long as
  a partner uses it.

## 2. Plan

| order | module | runs | theorems | state |
|---|---|---|---|---|
| 1 | `JobSlot`, `ClientAsync`, `ClientAsyncProofs` | client, client_stale_signal | invariant, four safety properties, refinement of JobSlot | done |
| 2 | `EventQueue`, `EventQueueProofs` | event_queue, event_queue_early | invariant, order of delivery | done |
| 3 | `TcpServer`, `TcpServerProofs` | tcp_server, tcp_server_scan | invariant, limit, Stop leaves nobody | done |
| 4 | `IsoExchange`, `IsoExchangeProofs` | iso_exchange, iso_exchange_order | types and limits, the lag is bounded by the failures, in step without failures, two fragments in order | done |
| 5 | `Partner`, `PartnerProofs` | partner, partner_collision | types and limits, no answer that nobody waits for; of applications that take turns, blocks whole, acknowledged and reported | done |
| 6 | `S7Pdu`, `MicroClient`, `S7Server`, `AreaMemory`, `S7Session`, `MCSession`, `SessionTypeProofs`, `S7SessionProofs` | s7_session | types, table of data blocks, requests and answers fit the PDU, no torn item, refinement of AreaMemory, blocks and lists whole, reads exact, writes as reported | done |
| 7 | `ConnectionServers`, `MCConnectionServers`, `ConnectionServersProofs` | connection_servers | table invariant, a stopped partner is given no connection | done |

Composition: `ClientAsync` rests on the exchange only through "a job ends"
(`ExchangeEnds`, `JobEnds`); `Partner` contains its own, smaller ISO layer because
its hazards come from which PDU is read next; `S7Session` composes `MicroClient`
and `S7Server` over a channel that carries one request and one answer per
connection, which is what `IsoExchange`'s `InStep` leaves of the stream as long as
no exchange has failed; after a failure the model's client connects again.
`S7Session` implements `AreaMemory`, as `ClientAsync` implements `JobSlot`.

## 3. Modules and their correspondence to the code

Conventions.  A variable has the name of the field it models where there is one.
One action is one handler, or the part of it up to the next point where another
thread can see or change what it uses; the string variables `worker`, `app`,
`listener`, `client` are the place in the code where a thread stands.  Operators
whose comment starts with "Seeded fault" are not used by the specifications: each
is a plausible bug of the definition that follows it, and shows that the property
it is meant for notices.

**ClientAsync** (`core/s7_client.cpp`, `PerformOperation` of
`core/s7_micro_client.cpp`, events of `sys/unix_threads.h`).  One application
thread, one worker.  `pending`, `jobOp`, `jobResult` are the job record; a job's
number stands for its operation and parameters.  Every access that the other
thread can interleave with is a step: `WorkerResult`, `WorkerClear`,
`WorkerSignal`, `WorkerNotify` are the four that end a job, in the code's order.
`WaitEnter`/`WaitWake` model the timed wait, which looks at the event when it is
called and then waits for the condition variable.  `paced` is chosen at the
start: TRUE for an application that starts a job only after the callback of the
previous one.  `gaveUp` records that the application disconnected, reset or
destroyed the client during a job or was refused for its parameters: after that
the promises of `JobSlot` end, and only `LastJobRuns` is still claimed.

**JobSlot** is the abstract specification: free, queued, running, free again with
the result of the last job, or abandoned.  `SlotSpec` is
`INSTANCE JobSlot WITH phase <- ..., job <- ..., result <- ...`.

**EventQueue** (`sys/snap_tcpsrvr.cpp`: `TMsgEventQueue`, `DoEvent`,
`PickEvent`, `EventsFlush`).  Reporting threads hold `CSEvent` from `Enter` to
`Leave`; `Insert` is three steps (test, index, copy) and `Extract` two (copy,
index) because they run without a common lock.  A copy out of a block that is
being copied in yields anything.

**TcpServer** (`sys/snap_tcpsrvr.cpp`: `TCustomMsgServer`, listener and worker
threads).  `Workers`, `ClientsCount`, `index` are the table, the count and each
worker's own index; `TerminateAll`, `ScanTest`, `ScanTell` are the unlocked walk
over it.  Threads that do not stop within `ThTimeout` or `WkTimeout` are killed
where they stand, keeping the locks they hold; `timely`, chosen at the start,
is TRUE for behaviours in which nobody is killed.  A worker begins in "start", the
time between `Start` and the first instruction of its thread: `ThreadProc` tests
`Terminated` before `Execute` (`sys/snap_threads.cpp:45`), so that a worker told to
terminate there never runs `Delete`.  Its object deletes itself (`FreeOnTerminate`)
and its entry and its count stay ("lost"): `TerminateAll` waits `WkTimeout` for a count
that cannot drop, and `KillAll` uses the deleted object, which ends the program
(`crashed`) or happens to work.  `ServerInv` counts these workers (`TableInv`),
says that they occur only in a `Stop` that has not returned, and that nothing else
leads to that crash when no thread is killed (`LostInv`).

**IsoExchange** (`core/s7_isotcp.cpp`, `RecvPacket`, `WaitForData`, `Purge` of
`sys/snap_msgsock.cpp`).  The stream is a sequence of headers and payload bytes;
each byte is a request number and a position, so that properties can tell an
answer from another one's and a gap from data.  `RecvHeader` and `RecvPayload`
are the two `RecvPacket`s of `isoRecvFragment`.  The PLC answers late, in one or
several fragments, or never.  A failed exchange purges what has arrived, not what
is still under way, and so does `isoDisconnect`.  `Purge` is a loop of recv calls of
at most `TrashSize` bytes (512) that ends with the first one that is not full:
`PurgeBegin` is its test for data, `PurgeRecv` one recv, which waits when nothing
is there.  When a multiple of `TrashSize` has arrived and no more follows, the client
stays in that recv (`Stuck`); what comes late frees it.  After a time-out the code
purges twice, in `RecvPacket` and in `isoRecvPDU`, and so does the model; `isoDisconnect`
and `DestroySocket` also purge twice.  The end of the connection at the peer
(`PlcCloses`) frees a purge that is under way after a disconnection.

**Partner** (`core/s7_partner.cpp`).  Two partners, active and passive, each with
a worker (`Execute` and what it calls) and an application (`BSend`, `BRecv`).
`chan[p]` holds the PDUs on their way to p; "closed" at its end is the end of the
connection.  `BlockSend` is `StartSend` and one `RecvAck` per slice, which takes
whatever PDU is next, as the code does.  `LastError` is one field for both
threads, and each place where the worker reads it back is a step of its own, so
that the application's `BRecv` may clear or set it in between: the loop of `BlockSend`
(line 733) is "loop", its end (805, 820, 823) "over", the report of the result "notify",
the test of `PerformFunctionNegotiate` (674) "linking", and the last two
reads of a received slice (893 and 896) "picked" and "report".  A send fails only when
the connection is broken (`Broken`).  A wait for an answer that cannot come
(`Unanswered`) ends by its time-out and is not counted against the bound on failures.
`wiped` records that `BRecv` has cleared the error of an exchange that
`BlockSend` had still to read (1145 between 803 and 805).  `manner` is "turns" for applications that take
turns on a connection that holds; otherwise anything may happen, and "stops" is
the history of a `Stop`.  `Stop` leaves `FSendPending` and `FRecvPending` as they are,
and kills a worker that waits for an answer.  Both partners run at the beginning.
Left out: the `Check...Completion` queries, PDUs no partner sends (`AnswersAwaited`
shows that `PickData` does not meet an answer between two partners as long as `wiped` is
FALSE; when it is TRUE the model refuses it as the code does), `LastTcpError`, which
the application's `ClrError` may clear before `Execute` tests it (1001), and the send
that marks a reset connection as closed at once (1026).

**S7Pdu** holds what both ends of the S7 protocol share: the PDU a connection
carries in either direction (`request[c]`, `answer[c]`), word lengths, transport
sizes, addresses and the length field that counts bits or bytes.

**MicroClient** (`core/s7_micro_client.cpp`, `core/s7_peer.cpp`).  Every job of
`PerformOperation`.  `run` names the exchange the job waits for, so that a job of
several exchanges is a chain of actions, each of them everything the code does
between an answer and the next request: `opReadArea` and `ReadSliceDone`,
`opUpload`, `StartUploadDone`, `UploadSliceDone` and `EndUploadDone`, and so on.
`left`, `start`, `first` are the loop's variables, `opData` the internal buffer,
`out` what the caller's buffer got.  `NumElements` keeps the code's word
(`WordMod`); bytes carry the place they are meant for or come from, so that a
property can tell a shifted slice.  An exchange may fail at any time
(`ExchangeFails`), before or after the peer has received the request; the code then
keeps the connection when it was a time-out, the model connects again (section 2).
`PDULength` is uninitialised until a first negotiation is answered in full: the model's
client starts with the length of an earlier connection, and goes on with it when
the answer has another size (`core/s7_peer.cpp:89`).

**S7Server** (`core/s7_server.cpp`).  One worker per connection and the
application.  Requests that touch one field, or none, are one action.  Read
and write go item by item: `ReadAreaFind` is the search and the checks,
`ReadAreaCopy` the copy under the area's lock, `WriteBitLoad` and `WriteBitStore`
the assignment to a byte that the code makes without the lock.  The application
registers (`RegisterDB`, `CountDB`, `LimitDB` are the three fields it sets, seen by
the workers one after the other), unregisters, and updates the bytes `Shared` of an
area one by one between `LockArea` and `UnlockArea`.  The directory is scanned as
the code does, one place further than `DBLimit`.

**S7Session** puts a client and a second station at such a server, or the client
at a PLC.  The PLC is external: this server refuses uploads and downloads and
sends system status lists in one PDU, so that the client's part of these is
checked against answers of any slicing and with the errors it tells apart.  The PLC
also refuses what the server never does: a request as a whole (`Answer->Error`), a
directory or block information of the wrong length, an answer without the items
asked for, a status list with a return code that is neither good nor an error.
Of the slices of a write it stores some and refuses others, in either way.
`written` (places of the areas that hold a byte of the job in hand, each with the
place the byte was meant for), `stable`, `seen` and `gone` (data blocks registered
all through the job, at some time in it, and unregistered in it) are histories for
the properties; at a PLC `written` has what it has answered as stored.

**AreaMemory** is the abstract specification of what the lock is for: updates of
several bytes and the data of an item reach an area in one step.  `MemorySpec` is
`INSTANCE AreaMemory WITH memory <- ...`; an update counts as made when the lock
is taken.  Areas in which bits are written are left out of it, because a bit
write takes no lock and undoes what is stored between its load and its store.

**ConnectionServers** (`core/s7_partner.cpp`: `TServersManager`,
`TConnectionServer`, `Start` and `Stop` of passive partners).  One application
thread, whose call is a chain of actions (`GetServer` ... `StartWorker`, `Stop` ...
`Disconnect`), and one listener per server: `Accept`, `IncomingFind` under the
lock, `IncomingTest` and `SetSocket` without it.  The walk over the table stops at
an empty place, whose use ends the program, as does the use of a deleted server
(`crashed`).  `Stopping` and `Destroying` start with any value, because no
constructor sets them; `Zeroed` names those that happen to be FALSE.

## 4. Runs

| run | expected | what it shows | bounds |
|---|---|---|---|
| client | pass | `ClientInv`, `OneJobAtATime`, `JobsRunOnce`, `CallbackReportsJob`, `OwnResult`, `EveryJobReported`, `LastJobRuns`, `SlotSpec` for an application that makes every call | 3 jobs, 1 reset: three jobs let a leftover signal of the first meet the second while the third is submitted |
| client_stale_signal | violation of `SignalIsOwn` | the wait for a job is woken by the end signal of the one before | 2 jobs |
| event_queue | pass | `RingInv`, `PickedInOrder`, `DoEventReturns` | small ring that wraps around and fills, two reporting threads |
| event_queue_early | violation of `PickedIsEvent` | an event is delivered before it was copied in | the same |
| tcp_server | pass | `ServerInv`, `LimitRespected`, `StopLeavesNone`, `StopReturns` | 2 places, limit 0 or 1, 4 connections: both places are reused, the table and the limit are reached, workers are lost before they first run |
| tcp_server_scan | violation of `FoundWorkerExists` | `TerminateAll` uses a worker that has deleted itself | the same |
| iso_exchange | pass | `TypeOK`, `InStep`, `LagBounded`, `TwoFragmentsInOrder`, `ExchangeEnds` | 3 requests, answers of 1, 2 or 4 fragments of 2 bytes, a buffer of 6 bytes and 2 fragments, a purge of 3 items at a time: two late answers can queue up, both limits are met, and what is purged is less than, equal to and more than one and two full recvs |
| iso_exchange_order | violation of `FragmentsInOrder` | the third fragment is stored behind a gap | answers of 3 fragments |
| partner | pass | `TypeOK`, `BlocksWhole`, `CalmSentIsReceived`, `AnswersAwaited`, `CalmResults`, `SendEnds`, `LinkReturns` | blocks of 1 or 2 slices, at most two of a side's blocks and failures (Stop among them) together: two blocks each way without a failure, a block each way and a failure, two failures; time-outs of waits that nothing can answer come on top |
| partner_collision | violation of `SentIsReceived` | partners that send at the same time lose both blocks and report success | one block each way |
| s7_session | pass | what a job reports is what it did (`ReadExact`, `WriteReported`, `ListComplete`, `BlockWhole`), both ends keep to the PDU length (`TypeOK`, `PduFits`), table and areas stay whole (`TableInv`, `NoTornItem`, `MemorySpec`), every job ends (`JobEnds`) | one job of some sixty, see below |
| connection_servers | pass | `ServersInv`, `StopDisconnects`, `PartnerReachable` | 3 partners, 2 addresses, 2 places at each table, 5 calls of Start and Stop, 1 connection on its way: servers are shared, made and deleted in turn, a partner is refused, a hole is met |

**s7_session.**  PDUs of 5 to 8 bytes with headers of 1 byte make a request of six
bytes take two or three slices, and a list of four blocks two.  A behaviour has
one job, because a job leaves nothing behind but the areas' contents and the
connection, whose initial states are any; beside it either the application
makes one call or the second station one request, which is enough for each pair
of threads to meet in an area or the table, and for either of them to come between
any two slices of the job.  Nothing of the server varies when the client is at
a PLC.  The four places for data blocks start with one block, or with three and a
hole.  The table that has a hole reaches its end, and one of the application's calls
registers the inputs, which a scan then takes for a block.  A word counts to 16
(`WordMod`), above every amount, so that the wrap of section 7 is not met; the
theorems of section 6 hold for it as well.

`CHECK_DEADLOCK FALSE` is set where a behaviour may really stop: the application
has made all its calls and the bound on jobs, connections, events or requests is
reached, or the program has crashed.  The partners' workers run for ever, so their
run checks deadlock.

Every property of a passing run is violated by at least one seeded fault
(PROJECT.json, "mutants").

## 5. Fairness

Weak fairness of the threads the operating system schedules, never of the
environment: the client's worker and an application inside a call
(`ClientAsync`), a thread inside `DoEvent` (`EventQueue`), listener, workers that
begin or are on their way out and the application inside Start or Stop (`TcpServer`), the client
thread including its clock (`IsoExchange`), both workers
(`Partner`, where a worker whose sequence is never completed also comes to
its time-out, since the clock runs on), the client's thread, the worker that serves it and the
application (`S7Session`), the application inside a call and each listener
(`ConnectionServers`).  `S7Session` also assumes that the PLC answers: without
it a job ends by the time-out that `ExchangeFails` stands for and `IsoExchange`
checks.  Nobody is obliged to submit a job, report or pick an event,
connect, leave, answer or send.  In `TcpServer` a lock is a guard: weak fairness
is enough because the locks' holders leave them without waiting for each other.

## 6. Proofs

Checked by TLAPS for every value of the constants:

| theorem | states | argument |
|---|---|---|
| `ClientAsyncProofs!ClientInvariant` | `Spec => []ClientInv` | while `gaveUp` is FALSE, `HolderInv`: `Job.Pending` is set exactly when one of caller, `EvtJob` and worker holds the job, and never two.  `OneJobAtATime` is not inductive: nothing in it says that a set `EvtJob` excludes a running caller |
| `OneJobAtATimeHolds`, `JobsRunOnceHolds` | the two safety properties | from the invariant: a second holder would need a clear `Job.Pending` |
| `CallbackReportsJobHolds`, `OwnResultHolds` | two more safety properties | `PacedInv`: an application that makes its calls one at a time submits nothing between the clearing of `Job.Pending` and the end of the callback, and leaves no signal behind when it waits for the next one |
| `ClientImplementsSlot` | `Spec => SlotSpec` | step by step: worker and application actions map to Begin, Finish, Submit, SubmitAndRun, Abandon or a stutter |
| `EventQueueProofs!RingInvariant` | `Spec => []RingInv` | `QueueInv` places the undelivered events behind IndexOut; `LockInv` keeps the room `Insert` found until it advances `IndexIn` |
| `PickedInOrderHolds` | action property | from the invariant in the copy step |
| `TcpServerProofs!ServerInvariant` | `Spec => []ServerInv` | `TableInv` ties table, count and workers together, those included that were terminated before they first ran; `LostInv` says that they occur in a `Stop` only, which does not return with one in the table; `PhaseInv` says that only the listener adds to the table, so room found by the unlocked test is still there |
| `LimitRespectedHolds`, `StopLeavesNoneHolds` | the two safety properties | from the invariant |
| `IsoExchangeProofs!TypeOKHolds`, `LagBoundedHolds` | types and limits; `LagBounded` | `LagIInv` speaks of the stream and the bytes still under way as one sequence, which arrival leaves alone: it is cut at headers only (`Framed`), requests appear in it in order (`Order`), and no request in it, unanswered, or of the fragment in hand is older than the failures allow (`Due`).  `LagBounded` says nothing of what is under way, and the next answer comes from there |
| `InStepHolds`, `TwoFragmentsInOrderHolds` | `InStep`, `TwoFragmentsInOrder` | `Fresh`: without a failure the sequence is a suffix of the answer to the request in hand, cut at the header of part `NumParts` or behind it (`Receiving`), and the first part is in the buffer when the second is received |
| `PartnerProofs!TypeOKHolds` | `Spec => []TypeOK` of two partners | `SlicesKept`: a block is not replaced while it is sent, since `FSendPending` is set from the call to the end |
| `AnswersAwaitedHolds` | `Spec => []AnswersAwaited` | `AnswersAwaited` looks at one worker in one place, and the answer was sent by the other one long before.  `Balance` counts: a connection that both have and neither has closed carries at most one PDU for each partner that waits for an answer or is about to leave; so the answerer finds its own sending direction empty (`First`), and an answer behind an end of the connection is never reached (`Clean`).  A partner whose exchange has failed still counts as one that leaves until it has read its error back (`Fault`); an application that clears the error before takes that away, which is what `wiped` excepts |
| `BlocksWholeHolds`, `CalmSentIsReceivedHolds`, `CalmResultsHolds` | `BlocksWhole`, `CalmSentIsReceived` and the action property `CalmResults` | `CalmIInv`: the three speak of what is complete, and whether a block gets there whole depends on every slice before.  `Phase` says of either partner's block where it is (`Quiet`: no slice of it under way; a slice on its way; its acknowledgement), and in each phase what the receiver has of it (`Got`: exactly the slices sent so far, in its buffer, being picked up or completed) and has completed (`Has`).  Nothing fails, so that no test of `LastError` on the way finds an error (`Sound`).  Taking turns keeps the two partners' phases apart (`OneBlock`): only one has a block, so that what is on the connection belongs to it.  `Announced`: from `RecvEvt` to the end of `BRecv` nobody writes `RxBuffer` and `FRecvLast`, because the peer may not send |
| `S7SessionProofs!TableInvHolds` | `Spec => []TableInv` | `TableIInv`: `TableInv` says nothing of `DBCount` while a call is under way; the invariant says by how much it is wrong at each place of it (`TableCounted`), and types the place.  The other threads leave the table alone |
| `SessionTypeProofs!SessionInvHolds`, `SessionTypeOKHolds` | `Spec => []SessionInv`, `Spec => []TypeOK` | `TypeOK` is not inductive: that a worker's reply is shorter than its request needs the request to have items, the slices need a PDU length that leaves room, and the answer the client takes up needs to be one to what it asked.  `SessionInv` types requests, answers, workers, areas and the application (`PduTypes`, `WorkerTypes`, `AreaTypes`, `AppTypes`, `ClientTypes`) and says that a client has at most one request waiting, at its worker or answered, all of the kind it waits for (`Paired`), which a lost connection leaves true because a new worker starts only when the old one has left its request |
| `S7SessionProofs!MemoryInvHolds`, `NoTornItemHolds` | `Spec => []MemoryInv`, `Spec => []NoTornItem` | `NoTornItem` looks at answers; what is in them was copied items ago.  `MemClean` speaks of the areas themselves: bytes updated together and not written since have one stamp, but for those an update in hand has yet to reach (`Pending`); `RepliesClean` and `AnswersClean` carry it to what workers have copied, which they do only while nobody has the lock |
| `ServerImplementsAreaMemory` | `Spec => MemorySpec` | `LockArea` maps to the update of all its bytes, the bytes that follow and `UnlockArea` to stutters; `WriteArea` maps to the store of an item: the area is not locked, so none of its bytes is pending, and the item's data comes from one request; bits are written in areas the abstract memory leaves out; every other step leaves what is committed alone |
| `BlockWholeHolds` | `Spec => []BlockWhole` | `BlockIInv` splits the block: before every exchange what the client has of it (`opData`, without the header unless asked for) is its first bytes up to the PLC's place, and with an answer under way the bytes of the answer follow (`UploadInv`, `Came`); a download's bytes at the PLC end where the request under way begins (`DownloadInv`), a list's where the answer begins (`SZLInv`).  The first request of a job resets the PLC's place.  `AfterJob` keeps the result between jobs: no request that would disturb it is under way |
| `ReadExactHolds` | `Spec => []ReadExact` | `ReadExact` looks at a result; what is in it was asked for, found, copied and sent slices ago.  `BaseInv`, on which this and the next two theorems rest, adds to `SessionInv` that the client waits for something of the job in hand (`RunOfJob`), that the slice in hand begins where the last one ended (`LoopInv`), and that every byte in an area, in a request and in a worker is at the place it was meant for (`PlaceInv`, without timers).  `ReadExchange` follows the request: it is what the client wants now, the worker has those items, and a good reply has all of its item (`GoodReply`); `ReadOut` says that the buffer has the bytes from the first one to the slice in hand |
| `ListCompleteHolds` | `Spec => []ListComplete` | `ListExchange` splits the table at the worker's place `DBCnt`: the entries so far have every block below it that has been there all the time, none twice, and none that was not in the table (`SoFar`), and a slice takes it one step further although blocks came and went (`ListGrows`).  A block can be listed twice only when it was taken out below that place and registered anew above, so that it is in `gone`.  It needs `TableIInv` and `StableInv`: a block that stays has one place, below `DBLimit` |
| `WriteReportedHolds` | `Spec => []WriteReported` | `written` is a history of the memory, and the property compares it with a result.  `StampInv`: the marks the job in hand has left in the areas, and in a byte a worker has loaded to set a bit in, are in `written` (`Marked`), and the client's data on its way is at its own worker only and has the job's number (`Stamped`); so a step adds to `written` exactly the marks of what it stores (`Mine`), also when a byte loaded before is stored over what another worker wrote.  `WriteExchange`: what is written is what was before the slice, and of its items those with a good reply, and of an item in hand nothing yet (`Landed`), at the server, in the answer, and also after the connection was lost, when the worker goes on (`Lost`).  `WriteSoFar`: the slices before are the first bytes of the request.  At a PLC, which has no memory in the model, a slice adds the places of its data when it is answered as stored (`PlcWrote`), and a slice refused as a whole leaves those of the slices before (`RefusedWhole`).  `WriteResult` is the property for every state in which nothing is waited for; `LeftBehind` keeps it true: only a job that reports `errIso` has left a request behind |
| `PduFitsHolds` | `Spec => []PduFits` | `FitIInv` = `SessionInv` and, at a server, `Fits`.  `PduFits` compares a length with what is under way now; the length was settled by a negotiation before, and the answer depends on the item asked for two steps before.  `LengthAgreed`: a connected client has its worker's length, and the answer under way to a negotiation tells it.  `RequestFits`: a request under way is no longer than that; for several items `opReadMultiVars` and `opWriteMultiVars` compare the size the request really has, since each item's data is as long as the item says.  `SliceFits`: a slice is one item, and what it asks for fits in the request, in the worker and in the answer |
| `ConnectionServersProofs!ServersInvHolds` | `Spec => []ServersInv` | `ServersIInv`: a new server's number is new because there is a call for each (`NumbersLeft`); a server is listed or being deleted, never both (`NoneLost`); a partner at a server is registered there and nowhere else, and the one whose call is in hand is not (`PartnersAgree`), without which a second registration could count twice |
| `StopDisconnectsHolds` | `Spec => []StopDisconnects` | `StopIInv` follows a connection from the listener's hands: one that holds a partner works for a server which has it registered, has gone on without it, or is being deleted and waits for this listener |

The only assumptions are the named ones on the constants.  For `S7Session` they
say that arguments are integers and counts natural (`MicroClientAssumption`), that
areas have names of their own, that a list in a PDU of the smallest length (240)
has room for an entry (`S7ServerAssumption`), that requests of the second station
are built as the client's are, with data of its own in the order of its places,
that a PDU of the smallest length has room for the headers and for an element to
write, that the length the client proposes (480 unless `SetParam` sets another) is
one servers grant, that a block of the PLC has room for its header and its MC7
code, and that the areas in which bits are written are known
(`S7SessionAssumption`): a client that proposes less than the headers would compute
slices without room.

Every safety property and action property of the passing runs is proved.  Only
model-checked: the liveness properties (`EveryJobReported`, `DoEventReturns`,
`StopReturns`, `ExchangeEnds`, `SendEnds`, `LinkReturns`, `JobEnds`,
`PartnerReachable`, `LastJobRuns`), which rest on fairness.  Three
properties except what the code does wrong in so many words, rather than that it is left
out of the model: `AnswersAwaited` (`wiped`), `ExchangeEnds` (`Stuck`) and `StopReturns`
(`crashed`).

## 7. Where code and comments disagree

Shown by a violation run:

- `client_stale_signal`: `StartAsyncJob` resets `EvtComplete` so that a wait is
  woken by its own job (`core/s7_client.cpp:462`), but `Job.Pending` is cleared
  before the previous job's `Set` (line 497).
- `event_queue_early`: `Insert` publishes `IndexIn` before it copies the event
  (`sys/snap_tcpsrvr.cpp:58`).
- `tcp_server_scan`: `TerminateAll` walks the list without the lock made for it
  (`sys/snap_tcpsrvr.cpp:272`).
- `iso_exchange_order`: fragments after the second are stored too far behind
  (`core/s7_isotcp.cpp:457` against the drawing at 419-439).
- `partner_collision`: simultaneous sends acknowledge each other
  (`core/s7_partner.cpp:796`).

Met while modelling and part of the models, without a run of their own:
calls refused for their parameters leave the job slot taken
(`core/s7_client.cpp:183`); after `Reset` a leftover job event makes the new
worker repeat a job (line 64); `CheckAsCompletion` reads `Job.Pending` twice
(line 145); a killed server thread keeps its lock (`sys/snap_tcpsrvr.cpp:299`);
a user callback that flushes the event queue blocks on the unix lock (line 348);
a late ISO answer is taken for the next one (`core/s7_isotcp.cpp:305`); a purge that
meets a multiple of 512 bytes waits in recv for more (`sys/snap_msgsock.cpp:171`:
`ExchangeEnds` excepts this, and TLC refutes it without the exception); a worker
terminated before its thread first runs is never counted out, and `KillAll` uses it
after it deleted itself (`sys/snap_threads.cpp:45`); the application's `BRecv` clears the
error of a failed exchange before `BlockSend` reads it back, which reports the block as
sent, keeps the connection and meets the late acknowledgement in `Execute`
(`core/s7_partner.cpp:805`: `AnswersAwaited` excepts this, and TLC refutes it without the
exception); a block
pending when the connection is lost is sent before the next handshake, and one
pending when a partner is stopped in the middle of another may be sent in the
middle of it, after which the passive partner is connected and never `Linked`: this
is why `LinkReturns` claims nothing after a `Stop` (`core/s7_partner.cpp:984`).

In the client and the server of `S7Session`:

- `NumElements`, a word, takes the number of elements before it is compared with
  the PDU: when a multiple of 65536 is left the slices are empty and never end
  (`core/s7_micro_client.cpp:95`).  An empty first slice counts as written, so that
  an error after it is reported as `errCliPartialDataWritten` although nothing was:
  `WriteReported` allows this for these amounts only.  `Start` advances by bytes also for counters and
  timers (line 154), and the server halves their addresses
  (`core/s7_server.cpp:407`), so that `ReadExact` and `WriteReported` speak of the
  other word lengths only.
- the comment at `core/s7_micro_client.cpp:290` says that a write reports the CPU's
  error for its first part only, and otherwise that some data were written; a later
  slice that is refused as a whole (line 284) is reported by the CPU's error although
  the earlier ones are written.  The server of this repository never refuses a write so,
  and `WriteReported` says that there such an error means that nothing was written; for
  a PLC it says that what is written are first slices of the job.
- a status list whose answer has a return code that is neither good nor an error (0)
  is asked for again (line 1720), as often as it is answered so.
- `PDURemainder-Size<=0` is unsigned and refuses an item only when it fills the
  PDU exactly (`core/s7_server.cpp:377`): the answer to a multiple read may exceed
  the PDU length, and `PduFits` leaves it out.
- a multiple write finds its items by length divided by 8, also behind items whose
  length counts bytes (line 743): `WriteReported` speaks of items that are found.
- a bit is written without the area's lock (lines 695-701).
- a directory whose last slice is full is continued by one without entries, which is
  answered "no resource" and reported as an error (line 1080); the scan looks one
  place behind the table (line 1053): when the last place is used it takes the inputs
  (PE) for a block, which `ListComplete` allows then and only then.  A block that is
  unregistered and registered anew between two slices may be listed twice.
- compress, copy and delete are answered as done without doing anything, because
  `pduStart` and `pduControl` are the same number; the CPU's state is set after
  the answer is sent.
- the server answers SetClock with a return value the client does not look at; an
  SZL that exceeds the PDU is cut off and said to be complete.
- an upload that is refused half-way is not ended; a download whose insertion is
  refused leaves the block in the PLC's memory.

In `ConnectionServers`: removal leaves holes in a table that the search walks
without looking for them (`core/s7_partner.cpp:136`); a partner that is refused keeps its
server, which may be deleted before it (line 453); `Stopping` and `Destroying` are
tested before anything has set them (line 351); a listener may hand a connection to a
partner that has stopped since, when its server goes on for others (line 352).

The hazards in PROJECT.json give the line and the
property that bears on each.

## 8. Not modelled

Within modelled parts: areas a server takes from call-backs (`ResourceLess`);
`GetParam` and `SetParam` while a client or server runs; the read and write event
call-backs of the server; unregistering an area while a worker is in it, which a
comment asks not to do (`core/s7_server.cpp:1891`); the partner's `Check...`
queries, and the flag `FRecvLast.Done` that only they read; several application
threads that start and stop partners; events flushed by one thread while another picks
one (`sys/snap_tcpsrvr.cpp:482`); a callback that calls back into the queue (line 348); a
destructor that deletes the list's lock while the last worker leaves it (line 364); the
fields of a socket that `Incoming` reads after its worker may have deleted it (line 390);
a TCP connection that the peer closes in the middle of a client's exchange.

Left out for good: the C interface (forwarding only), error texts and the contents
of the SZL tables (data), the benchmark drivers in C++ and Java (sequential loops
around a client), the raw-socket pinger, Windows and Solaris variants of the thread
primitives where they do what the unix ones do.
