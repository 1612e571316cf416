------------------------------ MODULE Partner ------------------------------
(***************************************************************************)
(* Two S7 partners, TSnap7Partner (core/s7_partner.cpp), that send blocks  *)
(* to each other.  Either side has an application thread, which hands      *)
(* blocks over and picks up received ones, and a worker thread, which      *)
(* connects, sends and receives; LastError, the pending flags, the buffers *)
(* and the two manual-reset events are plain fields shared by the two.     *)
(*                                                                         *)
(* A block travels in slices, each acknowledged before the next.  BlockSend*)
(* takes whatever PDU comes next for the acknowledgement.  The worker's    *)
(* tests of LastError are steps of their own: the application's calls may  *)
(* have set or cleared it since the worker wrote it.  Blocks are           *)
(* numbered per sender; block 0 stands for the empty result of a receive   *)
(* that brought none.                                                      *)
(***************************************************************************)
EXTENDS Naturals, Sequences

CONSTANTS
  MaxEvents,   \* bound: blocks sent by one side plus failures
  MaxSlices    \* slices of the largest block

ASSUME PartnerAssumption == MaxEvents \in Nat /\ MaxSlices \in Nat \ {0}

Node == {"active", "passive"}
Peer(p) == IF p = "active" THEN "passive" ELSE "active"

VARIABLES
  connected, linked, chan,           \* Connected, Linked, the PDUs on their way to a node
  sendPending, recvPending,          \* FSendPending, FRecvPending
  sendEvt, recvEvt, lastError,       \* SendEvt, RecvEvt, LastError ("ok" or "error")
  TxBuffer, RxBuffer, recvLast,      \* the block to send, the slices received, FRecvLast
  worker, sentSlices, result,        \* worker thread: where it is, its locals
  app, picked,                       \* application: where it is, what BRecv has read
  nBlocks, failures,                 \* blocks handed over by each side, failures so far
  manner,                            \* "turns": nothing fails and the applications take turns;
                                     \* "free": they do not; "stops": and one has been stopped
  wiped,                             \* history: an application has cleared the error of an exchange
                                     \* that its worker had still to read
  delivered                          \* history: blocks completed by each side

linkVars == <<connected, linked, chan>>
flagVars == <<sendPending, recvPending, sendEvt, recvEvt>>
bufVars == <<TxBuffer, RxBuffer, recvLast>>
wrkVars == <<worker, sentSlices, result>>
appVars == <<app, picked, nBlocks, manner, wiped>>
vars == <<linkVars, flagVars, lastError, bufVars, wrkVars, appVars, failures, delivered>>

NoBlock == [block |-> 0, slices |-> 0]
NoRecv == [done |-> FALSE, result |-> "ok", block |-> 0]
Pdu(kind) == [kind |-> kind, block |-> 0, slice |-> 0, last |-> FALSE]
Slice(b, n) == [kind |-> "slice", block |-> b.block, slice |-> n, last |-> n = b.slices]

\* Both have been started and have found each other.
Init ==
  /\ connected = [p \in Node |-> TRUE] /\ linked = [p \in Node |-> TRUE]
  /\ chan = [p \in Node |-> <<>>]
  /\ sendPending = [p \in Node |-> FALSE] /\ recvPending = [p \in Node |-> FALSE]
  /\ sendEvt = [p \in Node |-> FALSE] /\ recvEvt = [p \in Node |-> FALSE]
  /\ lastError = [p \in Node |-> "ok"]
  /\ TxBuffer = [p \in Node |-> NoBlock] /\ RxBuffer = [p \in Node |-> <<>>]
  /\ recvLast = [p \in Node |-> NoRecv]
  /\ worker = [p \in Node |-> "execute"] /\ sentSlices = [p \in Node |-> 0]
  /\ result = [p \in Node |-> TRUE]
  /\ app = [p \in Node |-> "idle"] /\ picked = [p \in Node |-> NoRecv]
  /\ nBlocks = [p \in Node |-> 0] /\ failures = 0
  /\ manner \in {"turns", "free"} /\ wiped = FALSE
  /\ delivered = [p \in Node |-> <<>>]

\* The bound, for another block of p's and for another failure: a connection
\* broken or left, a wait timed out, a call refused, a partner stopped.
MayStart(p) == nBlocks[p] + failures < MaxEvents
MayFail == manner # "turns" /\ \A p \in Node : MayStart(p)

Set(f, p, v) == [f EXCEPT ![p] = v]
WorkerGoes(p, from, to) == worker[p] = from /\ worker' = Set(worker, p, to)

-----------------------------------------------------------------------------
(* The connection.                                                         *)

\* The channels after p has taken a PDU and sent another: it is lost if the
\* peer has left the connection.
TakeAndSend(p, m) ==
  chan' = [chan EXCEPT ![p] = Tail(@),
                       ![Peer(p)] = IF connected[Peer(p)] THEN Append(@, m) ELSE @]
Take(p) == chan' = Set(chan, p, Tail(chan[p]))

\* The peer has left the connection, or the network has broken it: a send may fail.
Broken(p) == ~connected[p] \/ \E i \in 1..Len(chan[p]) : chan[p][i].kind = "closed"

\* Nothing is on its way, so that an answer will not come.
Unanswered(p) == chan[p] = <<>> /\ chan[Peer(p)] = <<>>

\* p closes its socket; the peer finds out when it has read what was sent before.
Close(p) ==
  /\ connected' = Set(connected, p, FALSE)
  /\ linked' = Set(linked, p, FALSE)
  /\ chan' = [chan EXCEPT ![p] = <<>>,
                          ![Peer(p)] = IF connected[Peer(p)] THEN Append(@, Pdu("closed")) ELSE @]

\* ConnectToPeer, SckConnect: the server takes the connection if the passive
\* partner has none (ConnectionServer::Incoming, SetSocket).
Connect ==
  /\ WorkerGoes("active", "connect", "CC")
  /\ ~connected["passive"] /\ worker["passive"] # "stopped"
  /\ connected' = [p \in Node |-> TRUE]
  /\ chan' = [chan EXCEPT !["active"] = <<>>, !["passive"] = <<Pdu("CR")>>]
  /\ lastError' = Set(lastError, "active", "ok")
  /\ UNCHANGED <<linked, flagVars, bufVars, sentSlices, result, appVars, failures, delivered>>

\* isoConnect gets the connection confirm, and NegotiatePDULength asks.
ConnectConfirmed ==
  /\ WorkerGoes("active", "CC", "negotiated")
  /\ chan["active"] # <<>> /\ Head(chan["active"]).kind = "CC"
  /\ TakeAndSend("active", Pdu("negotiate"))
  /\ lastError' = Set(lastError, "active", "ok")
  /\ UNCHANGED <<connected, linked, flagVars, bufVars, sentSlices, result, appVars, failures,
                 delivered>>

\* Whatever data PDU comes next ends the negotiation: Linked.
ConnectNegotiated ==
  /\ WorkerGoes("active", "negotiated", "execute")
  /\ chan["active"] # <<>> /\ Head(chan["active"]).kind # "closed"
  /\ Take("active")
  /\ linked' = Set(linked, "active", TRUE)
  /\ UNCHANGED <<connected, flagVars, lastError, bufVars, sentSlices, result, appVars, failures,
                 delivered>>

\* PeerConnect fails: the wrong PDU, the peer gone, no answer in time.
ConnectFailed ==
  /\ \E s \in {"CC", "negotiated"} : WorkerGoes("active", s, "connect")
  /\ IF chan["active"] = <<>>
       THEN IF Unanswered("active") THEN UNCHANGED failures ELSE MayFail /\ failures' = failures + 1
       ELSE /\ UNCHANGED failures
            /\ \/ Head(chan["active"]).kind = "closed"
               \/ worker["active"] = "CC" /\ Head(chan["active"]).kind # "CC"
  /\ Close("active")
  /\ lastError' = IF worker["active"] = "CC" THEN lastError ELSE Set(lastError, "active", "ok")
  /\ UNCHANGED <<flagVars, bufVars, sentSlices, result, appVars, delivered>>

\* The passive partner waits until it has been given a connection.
Accepted ==
  /\ WorkerGoes("passive", "connect", "execute")
  /\ connected["passive"]
  /\ UNCHANGED <<linkVars, flagVars, lastError, bufVars, sentSlices, result, appVars, failures,
                 delivered>>

\* The network breaks the connection: both sides will be told.
Break ==
  /\ MayFail
  /\ failures' = failures + 1
  /\ connected["active"] /\ connected["passive"]
  /\ chan' = [p \in Node |-> <<Pdu("closed")>>]
  /\ UNCHANGED <<connected, linked, flagVars, lastError, bufVars, wrkVars, appVars, delivered>>

-----------------------------------------------------------------------------
(* Execute, the sending half: BlockSend.                                   *)

MaySend(p) == sendPending[p] /\ ~recvPending[p]

\* ClrError
StartSend(p) ==
  /\ MaySend(p)
  /\ WorkerGoes(p, "execute", "loop")
  /\ lastError' = Set(lastError, p, "ok")
  /\ UNCHANGED <<linkVars, flagVars, bufVars, sentSlices, result, appVars, failures, delivered>>

SkipSend(p) ==
  /\ ~MaySend(p)
  /\ WorkerGoes(p, "execute", "recv")
  /\ UNCHANGED <<linkVars, flagVars, lastError, bufVars, sentSlices, result, appVars, failures,
                 delivered>>

\* Seeded fault: off by one.
MoreToSendOnce(p) == sentSlices[p] <= TxBuffer[p].slices
MoreToSend(p) == sentSlices[p] < TxBuffer[p].slices
GoesOn(p) == MoreToSend(p) /\ lastError[p] = "ok"

\* A round of the loop: the next slice is sent ...
NextSlice(p) ==
  /\ GoesOn(p)
  /\ WorkerGoes(p, "loop", "ack")
  /\ sentSlices' = Set(sentSlices, p, sentSlices[p] + 1)
  /\ chan' = [chan EXCEPT ![Peer(p)] = IF connected[Peer(p)]
                                         THEN Append(@, Slice(TxBuffer[p], sentSlices[p] + 1)) ELSE @]
  /\ UNCHANGED <<connected, linked, flagVars, lastError, bufVars, result, appVars, failures, delivered>>

\* ... or cannot be.
SliceFails(p) ==
  /\ GoesOn(p) /\ Broken(p)
  /\ WorkerGoes(p, "loop", "loop")
  /\ sentSlices' = Set(sentSlices, p, sentSlices[p] + 1)
  /\ lastError' = Set(lastError, p, "error")
  /\ UNCHANGED <<linkVars, flagVars, bufVars, result, appVars, failures, delivered>>

\* The next PDU is the acknowledgement, which is never a refusal.
RecvAck(p) ==
  /\ WorkerGoes(p, "ack", "loop")
  /\ chan[p] # <<>> /\ Head(chan[p]).kind # "closed"
  /\ Take(p)
  /\ UNCHANGED <<connected, linked, flagVars, lastError, bufVars, sentSlices, result, appVars, failures,
                 delivered>>

\* The connection is closed, or RecvTimeout passes.
AckFails(p) ==
  /\ WorkerGoes(p, "ack", "loop")
  /\ \/ /\ chan[p] = <<>>
        /\ IF ~connected[p] \/ Unanswered(p) THEN UNCHANGED failures
                                             ELSE MayFail /\ failures' = failures + 1
        /\ UNCHANGED <<connected, chan>>
     \/ /\ chan[p] # <<>> /\ Head(chan[p]).kind = "closed" /\ Take(p)
        /\ connected' = Set(connected, p, FALSE)
        /\ UNCHANGED failures
  /\ lastError' = Set(lastError, p, "error")
  /\ UNCHANGED <<linked, flagVars, bufVars, sentSlices, result, appVars, delivered>>

\* The loop is left because of LastError, which is read again below.
LoopBreaks(p) ==
  /\ MoreToSend(p) /\ lastError[p] # "ok"
  /\ WorkerGoes(p, "loop", "over")
  /\ sentSlices' = Set(sentSlices, p, 0)
  /\ UNCHANGED <<linkVars, flagVars, lastError, bufVars, result, appVars, failures, delivered>>

\* return LastError==0, and SendEvt->Set.
SendResult(p) ==
  /\ worker[p] = "over" \/ (worker[p] = "loop" /\ ~MoreToSend(p))
  /\ worker' = Set(worker, p, "notify")
  /\ result' = Set(result, p, lastError[p] = "ok")
  /\ sendEvt' = Set(sendEvt, p, TRUE)
  /\ sentSlices' = Set(sentSlices, p, 0)
  /\ UNCHANGED <<linkVars, sendPending, recvPending, recvEvt, lastError, bufVars, appVars, failures,
                 delivered>>

\* Seeded fault: FSendPending is left set.
SendFreedNot == TRUE
SendFreed == FALSE

\* OnBSend, then FSendPending=false.
SendDone(p) ==
  /\ WorkerGoes(p, "notify", IF result[p] THEN "recv" ELSE "check")
  /\ sendPending' = Set(sendPending, p, SendFreed)
  /\ UNCHANGED <<linkVars, recvPending, sendEvt, recvEvt, lastError, bufVars, sentSlices, result,
                 appVars, failures, delivered>>

-----------------------------------------------------------------------------
(* Execute, the receiving half.                                            *)

\* CanRead(WorkInterval) finds nothing.
NothingToRead(p) ==
  /\ chan[p] = <<>>
  /\ WorkerGoes(p, "recv", "check")
  /\ UNCHANGED <<linkVars, flagVars, lastError, bufVars, sentSlices, result, appVars, failures,
                 delivered>>

Incoming(p, kind) == chan[p] # <<>> /\ Head(chan[p]).kind = kind

\* isoRecvPDU: WSAECONNRESET
RecvClosed(p) ==
  /\ Incoming(p, "closed")
  /\ WorkerGoes(p, "recv", "check")
  /\ Take(p)
  /\ connected' = Set(connected, p, FALSE)
  /\ result' = Set(result, p, FALSE)
  /\ UNCHANGED <<linked, flagVars, lastError, bufVars, sentSlices, appVars, failures, delivered>>

\* ConnectionConfirm
RecvConnect(p) ==
  /\ Incoming(p, "CR")
  /\ WorkerGoes(p, "recv", "check")
  /\ TakeAndSend(p, Pdu("CC"))
  /\ recvPending' = Set(recvPending, p, FALSE)
  /\ UNCHANGED <<connected, linked, sendPending, sendEvt, recvEvt, lastError, bufVars, sentSlices,
                 result, appVars, failures, delivered>>

\* PerformFunctionNegotiate sends its answer ...
RecvNegotiate(p) ==
  /\ Incoming(p, "negotiate")
  /\ WorkerGoes(p, "recv", "linking")
  /\ recvPending' = Set(recvPending, p, FALSE)
  /\ \/ TakeAndSend(p, Pdu("negotiated")) /\ UNCHANGED lastError
     \/ Broken(p) /\ Take(p) /\ lastError' = Set(lastError, p, "error")
  /\ UNCHANGED <<connected, linked, sendPending, sendEvt, recvEvt, bufVars, sentSlices, result, appVars,
                 failures, delivered>>

\* ... and tests LastError, which may be an old one of the application's.
Link(p) ==
  /\ WorkerGoes(p, "linking", "check")
  /\ linked' = Set(linked, p, lastError[p] = "ok")
  /\ result' = Set(result, p, lastError[p] = "ok")
  /\ UNCHANGED <<connected, chan, flagVars, lastError, bufVars, sentSlices, appVars, failures, delivered>>

\* Seeded fault: every slice starts the block anew.
StartsBlockAlways(p) == TRUE
\* FRecvStatus.First: no sequence is under way.
StartsBlock(p) == ~recvPending[p]

\* History: the number of the block whose slices these are, all of them and in
\* order, or 0.
Whole(rx) ==
  IF \A i \in 1..Len(rx) : /\ rx[i].block = rx[1].block /\ rx[i].slice = i
                           /\ rx[i].last <=> i = Len(rx)
    THEN rx[1].block ELSE 0

\* A sequence starts with FRecvLast cleared.
BeginRecv(p) ==
  /\ recvPending' = Set(recvPending, p, TRUE)
  /\ recvLast' = Set(recvLast, p, IF recvPending[p] THEN recvLast[p] ELSE NoRecv)

\* PickData: ClrError, the slice is put into RxBuffer, and its answer sent.
RecvSlice(p) ==
  /\ Incoming(p, "slice")
  /\ WorkerGoes(p, "recv", "picked")
  /\ BeginRecv(p)
  /\ RxBuffer' = Set(RxBuffer, p, IF StartsBlock(p) THEN <<Head(chan[p])>>
                                                  ELSE Append(RxBuffer[p], Head(chan[p])))
  /\ \/ TakeAndSend(p, Pdu("ack")) /\ lastError' = Set(lastError, p, "ok")
     \/ Broken(p) /\ Take(p) /\ lastError' = Set(lastError, p, "error")
  /\ UNCHANGED <<connected, linked, sendPending, sendEvt, recvEvt, TxBuffer, sentSlices, result, appVars,
                 failures, delivered>>

\* What is no slice is refused: errParInvalidPDU.
PickRefused(p) ==
  /\ \E k \in {"ack", "negotiated"} : Incoming(p, k)
  /\ WorkerGoes(p, "recv", "report")
  /\ BeginRecv(p)
  /\ Take(p)
  /\ lastError' = Set(lastError, p, "error")
  /\ result' = Set(result, p, FALSE)
  /\ UNCHANGED <<connected, linked, sendPending, sendEvt, recvEvt, TxBuffer, RxBuffer, sentSlices, appVars,
                 failures, delivered>>

\* return LastError==0; the sequence goes on if it is and the slice was not the last.
BlockDone(p) == RxBuffer[p][Len(RxBuffer[p])].last
PickResult(p) ==
  /\ WorkerGoes(p, "picked", IF lastError[p] = "ok" /\ ~BlockDone(p) THEN "check" ELSE "report")
  /\ result' = Set(result, p, lastError[p] = "ok")
  /\ UNCHANGED <<linkVars, flagVars, lastError, bufVars, sentSlices, appVars, failures, delivered>>

\* FRecvLast takes the result, from LastError, and the block; RecvEvt is set;
\* OnBRecv, FRecvLast.Done=true, ClearRecv.
RecvReport(p) ==
  /\ WorkerGoes(p, "report", "check")
  /\ recvLast' = Set(recvLast, p, [done |-> TRUE, result |-> lastError[p],
                                   block |-> IF result[p] THEN RxBuffer[p][1].block ELSE 0])
  /\ recvEvt' = Set(recvEvt, p, TRUE)
  /\ recvPending' = Set(recvPending, p, FALSE)
  /\ delivered' = IF result[p] THEN Set(delivered, p, Append(delivered[p], Whole(RxBuffer[p]))) ELSE delivered
  /\ UNCHANGED <<linkVars, sendPending, sendEvt, lastError, TxBuffer, RxBuffer, sentSlices, result, appVars,
                 failures>>

\* Seeded fault: an exchange that failed does not end the connection.
KeepsAlways(p) == TRUE
Keeps(p) == result[p]

\* The end of Execute: a connection that failed is left, by Disconnect, which clears
\* LastError, unless it is known to be closed.  (After a send that finds it closed the
\* code finds out in the next round.)
LeaveOrKeep(p) ==
  /\ worker[p] = "check"
  /\ IF ~connected[p] THEN linked' = Set(linked, p, FALSE) /\ UNCHANGED <<connected, chan>>
     ELSE IF Keeps(p) THEN UNCHANGED linkVars ELSE Close(p)
  /\ result' = Set(result, p, TRUE)
  /\ worker' = Set(worker, p, IF connected'[p] THEN "execute" ELSE "connect")

Check(p) ==
  /\ LeaveOrKeep(p)
  /\ lastError' = IF connected[p] /\ ~Keeps(p) THEN Set(lastError, p, "ok") ELSE lastError
  /\ recvPending' = Set(recvPending, p, recvPending[p] /\ result[p])
  /\ UNCHANGED <<sendPending, sendEvt, recvEvt, bufVars, sentSlices, appVars, failures, delivered>>

\* The same when BRecvTimeout has passed since the first slice of a sequence, which
\* is bounded only as long as nothing else has failed.
CheckTimeout(p) ==
  /\ LeaveOrKeep(p)
  /\ recvPending[p]
  /\ IF failures = 0 THEN MayFail /\ failures' = 1 ELSE UNCHANGED failures
  /\ lastError' = Set(lastError, p, "error")
  /\ recvEvt' = Set(recvEvt, p, TRUE)
  /\ recvPending' = Set(recvPending, p, FALSE)
  /\ UNCHANGED <<sendPending, sendEvt, bufVars, sentSlices, appVars, delivered>>

\* The keep-alive ping of the active partner finds nobody: Disconnect.  A
\* sequence under way stays under way.
PingFails ==
  /\ WorkerGoes("active", "check", "connect")
  /\ connected["active"] /\ result["active"]
  /\ MayFail
  /\ failures' = failures + 1
  /\ Close("active")
  /\ lastError' = Set(lastError, "active", "ok")
  /\ UNCHANGED <<flagVars, bufVars, sentSlices, result, appVars, delivered>>

-----------------------------------------------------------------------------
(* The application.                                                        *)

\* Stop: the worker ends at the head of its loop, or is killed where it waits for
\* an answer, and the connection is left.  What is pending stays pending.
Stop(p) ==
  /\ app[p] = "idle"
  /\ MayFail /\ failures' = failures + 1
  /\ manner' = "stops"
  /\ \E s \in {"connect", "CC", "negotiated", "execute", "ack"} : WorkerGoes(p, s, "stopped")
  /\ sentSlices' = Set(sentSlices, p, 0)
  /\ IF connected[p] THEN Close(p) /\ lastError' = Set(lastError, p, "ok")
                     ELSE UNCHANGED <<linkVars, lastError>>
  /\ UNCHANGED <<flagVars, bufVars, result, app, picked, nBlocks, wiped, delivered>>

\* Start: a new worker.  The first PeerConnect of an active partner, which the
\* application makes before there is a worker, is taken for one of the worker's.
Start(p) ==
  /\ app[p] = "idle"
  /\ WorkerGoes(p, "stopped", "connect")
  /\ UNCHANGED <<linkVars, flagVars, lastError, bufVars, sentSlices, result, appVars, failures,
                 delivered>>

\* Taking turns: nobody sends before the other side has done with its block, and
\* before every block sent so far has been picked up.
Turn(p) ==
  /\ ~sendPending[Peer(p)] /\ app[Peer(p)] = "idle"
  /\ \A q \in Node : ~recvEvt[q] /\ Len(delivered[q]) = nBlocks[Peer(q)]

\* BSend, which waits for the end; or AsBSend, of which every BSend is one whose
\* application does nothing else meanwhile.  A call refused because another block is
\* pending (errParBusy) changes nothing and is left out.
BSend(p) ==
  /\ app[p] = "idle" /\ MayStart(p)
  /\ manner = "turns" => Turn(p)
  /\ linked[p] /\ ~sendPending[p]
  /\ nBlocks' = Set(nBlocks, p, nBlocks[p] + 1)
  /\ \E n \in 1..MaxSlices :
       TxBuffer' = Set(TxBuffer, p, [block |-> nBlocks[p] + 1, slices |-> n])
  /\ sendEvt' = Set(sendEvt, p, FALSE)
  /\ sendPending' = Set(sendPending, p, TRUE)
  /\ app' = Set(app, p, IF manner = "turns" THEN "wait" ELSE "idle")
  /\ UNCHANGED <<linkVars, recvPending, recvEvt, lastError, RxBuffer, recvLast, wrkVars, picked,
                 manner, wiped, failures, delivered>>

\* Refused without connection: errParNotLinked is left in LastError.
BSendNotLinked(p) ==
  /\ app[p] = "idle" /\ ~linked[p]
  /\ MayFail /\ failures' = failures + 1
  /\ lastError' = Set(lastError, p, "error")
  /\ UNCHANGED <<linkVars, flagVars, bufVars, wrkVars, appVars, delivered>>

\* The wait ends with SendEvt: LastError is the answer.
WaitSend(p) ==
  /\ app[p] = "wait" /\ sendEvt[p]
  /\ app' = Set(app, p, "idle")
  /\ UNCHANGED <<linkVars, flagVars, lastError, bufVars, wrkVars, picked, nBlocks, manner, wiped,
                 failures, delivered>>

\* BSendTimeout passes in WaitAsBSendCompletion: errParSendTimeout; the block stays
\* pending.
WaitSendTimeout(p) ==
  /\ app[p] = "idle" /\ nBlocks[p] > 0 /\ ~sendEvt[p]
  /\ MayFail /\ failures' = failures + 1
  /\ lastError' = Set(lastError, p, "error")
  /\ UNCHANGED <<linkVars, flagVars, bufVars, wrkVars, appVars, delivered>>

\* BRecv is woken by RecvEvt and reads FRecvLast ...
BRecv(p) ==
  /\ app[p] = "idle" /\ recvEvt[p]
  /\ app' = Set(app, p, "copy")
  /\ picked' = Set(picked, p, recvLast[p])
  /\ UNCHANGED <<linkVars, flagVars, lastError, bufVars, wrkVars, nBlocks, manner, wiped, failures,
                 delivered>>

\* The worker has yet to read the error of its exchange.
ErrorUnread(p) == worker[p] \in {"loop", "over"} /\ lastError[p] = "error"

\* ... copies RxBuffer, resets the event and sets LastError, or clears it.
BRecvCopy(p) ==
  /\ app[p] = "copy"
  /\ app' = Set(app, p, "idle")
  /\ picked' = Set(picked, p, NoRecv)
  /\ recvEvt' = Set(recvEvt, p, FALSE)
  /\ lastError' = Set(lastError, p, picked[p].result)
  /\ wiped' = (wiped \/ (ErrorUnread(p) /\ picked[p].result = "ok"))
  /\ UNCHANGED <<linkVars, sendPending, recvPending, sendEvt, bufVars, wrkVars, nBlocks, manner,
                 failures, delivered>>

\* Timeout passes: errParRecvTimeout.
BRecvTimeout(p) ==
  /\ app[p] = "idle" /\ ~recvEvt[p]
  /\ MayFail /\ failures' = failures + 1
  /\ lastError' = Set(lastError, p, "error")
  /\ UNCHANGED <<linkVars, flagVars, bufVars, wrkVars, appVars, delivered>>

-----------------------------------------------------------------------------
Worker(p) ==
  \/ StartSend(p) \/ SkipSend(p) \/ NextSlice(p) \/ SliceFails(p) \/ RecvAck(p) \/ AckFails(p)
  \/ LoopBreaks(p) \/ SendResult(p) \/ SendDone(p)
  \/ NothingToRead(p) \/ RecvClosed(p) \/ RecvConnect(p) \/ RecvNegotiate(p) \/ Link(p)
  \/ RecvSlice(p) \/ PickRefused(p) \/ PickResult(p) \/ RecvReport(p)
  \/ Check(p) \/ CheckTimeout(p)
  \/ p = "active" /\ \/ Connect \/ ConnectConfirmed \/ ConnectNegotiated \/ ConnectFailed
                      \/ PingFails
  \/ p = "passive" /\ Accepted

App(p) == \/ BSend(p) \/ BSendNotLinked(p) \/ WaitSend(p) \/ WaitSendTimeout(p)
          \/ BRecv(p) \/ BRecvCopy(p) \/ BRecvTimeout(p)
          \/ Stop(p) \/ Start(p)

Next == (\E p \in Node : Worker(p) \/ App(p)) \/ Break

\* Both worker threads run on; time passes, so that a worker cannot come to the end of
\* Execute for ever without BRecvTimeout.
Fairness == \A p \in Node : WF_vars(Worker(p)) /\ SF_vars(CheckTimeout(p))

Spec == Init /\ [][Next]_vars
FairSpec == Spec /\ Fairness

-----------------------------------------------------------------------------
(* Properties.                                                             *)

PduType == [kind: {"CR", "CC", "negotiate", "negotiated", "slice", "ack", "closed"},
            block: 0..MaxEvents, slice: 0..MaxSlices, last: BOOLEAN]
RecvType == [done: BOOLEAN, result: {"ok", "error"}, block: 0..MaxEvents]
IsPduSeq(s) == \A i \in 1..Len(s) : s[i] \in PduType

\* Types; never more slices than the block has.
TypeOK ==
  \A p \in Node :
    /\ connected[p] \in BOOLEAN /\ linked[p] \in BOOLEAN /\ IsPduSeq(chan[p])
    /\ sendPending[p] \in BOOLEAN /\ recvPending[p] \in BOOLEAN
    /\ sendEvt[p] \in BOOLEAN /\ recvEvt[p] \in BOOLEAN
    /\ lastError[p] \in {"ok", "error"}
    /\ TxBuffer[p] \in [block: 0..MaxEvents, slices: 0..MaxSlices]
    /\ IsPduSeq(RxBuffer[p]) /\ recvLast[p] \in RecvType
    /\ worker[p] \in {"connect", "CC", "negotiated", "execute", "loop", "ack", "over", "notify",
                      "recv", "linking", "picked", "report", "check", "stopped"}
    /\ sentSlices[p] \in 0..TxBuffer[p].slices /\ result[p] \in BOOLEAN
    /\ app[p] \in {"idle", "wait", "copy"} /\ picked[p] \in RecvType
    /\ nBlocks[p] \in 0..MaxEvents /\ wiped \in BOOLEAN

Calm == manner = "turns"

\* Between applications that take turns, on a connection that holds, every block
\* the receiver completes is one block of the sender's, whole, and no block is
\* skipped or completed twice.
BlocksWhole ==
  Calm => \A p \in Node : \A i \in 1..Len(delivered[p]) : delivered[p][i] = i

\* A block that BlockSend has sent with success has been completed by the peer, or is
\* whole in its RxBuffer: PickData answers before BlockRecv reports.
Completed(p) ==
  \/ \E i \in 1..Len(delivered[Peer(p)]) : delivered[Peer(p)][i] = TxBuffer[p].block
  \/ worker[Peer(p)] \in {"picked", "report"} /\ Whole(RxBuffer[Peer(p)]) = TxBuffer[p].block
SentIsReceived ==
  \A p \in Node : worker[p] = "notify" /\ result[p] => Completed(p)
CalmSentIsReceived == Calm => SentIsReceived

\* Neither worker finds in Execute an answer that nobody waits for: who gives up
\* waiting leaves the connection, unless an application's BRecv has cleared the error
\* before BlockSend came to read it.
AnswersAwaited ==
  ~wiped => \A p \in Node : worker[p] = "recv" /\ chan[p] # <<>>
                             => Head(chan[p]).kind \notin {"ack", "negotiated"}

\* On such a connection BSend returns no error, and what BRecv copies is the whole
\* block it announces, though the worker may already be busy with the next one.
SendReturns(p) == app[p] = "wait" /\ app'[p] = "idle"
RecvReturns(p) == app[p] = "copy" /\ app'[p] = "idle"
CalmResults ==
  [][Calm => \A p \in Node :
       /\ SendReturns(p) => lastError[p] = "ok"
       /\ RecvReturns(p) => /\ picked[p].result = "ok" /\ picked[p].block > 0
                            /\ Whole(RxBuffer[p]) = picked[p].block]_vars

\* A block handed over is eventually sent or given up, even if the connection is
\* lost and made again or the partners are stopped and started, unless one stays
\* stopped.
SomeStopped == \E p \in Node : worker[p] = "stopped"
SendEnds == \A p \in Node : sendPending[p] ~> ~sendPending[p] \/ SomeStopped

\* Two partners whose connection was lost find each other again.  This is not so when
\* one is stopped in the middle of a block while it has one to send: after Start the
\* pending block is sent in place of the answer to the negotiation.
LinkReturns == (\E p \in Node : ~linked[p]) ~> (\A p \in Node : linked[p]) \/ manner = "stops"
=============================================================================
