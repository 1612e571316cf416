--------------------------- MODULE PartnerProofs ---------------------------
(***************************************************************************)
(* What two partners guarantee for any number of blocks, slices and        *)
(* failures: types and limits, that nobody reads an answer that he does    *)
(* not wait for unless an application has cleared an error before its      *)
(* worker came to read it, and that between applications that take turns   *)
(* no block is lost, mixed with another or reported wrongly.               *)
(***************************************************************************)
EXTENDS Partner, SequenceTheorems, TLAPS

Places == {"connect", "CC", "negotiated", "execute", "loop", "ack", "over", "notify", "recv", "linking", "picked",
           "report", "check", "stopped"}

\* Types of the connection.
LinkTypes ==
  /\ connected \in [Node -> BOOLEAN] /\ linked \in [Node -> BOOLEAN]
  /\ chan \in [Node -> Seq(PduType)]

\* Types of the fields that worker and application share.
FieldTypes ==
  /\ sendPending \in [Node -> BOOLEAN] /\ recvPending \in [Node -> BOOLEAN]
  /\ sendEvt \in [Node -> BOOLEAN] /\ recvEvt \in [Node -> BOOLEAN]
  /\ lastError \in [Node -> {"ok", "error"}]
  /\ TxBuffer \in [Node -> [block: 0..MaxEvents, slices: 0..MaxSlices]]
  /\ RxBuffer \in [Node -> Seq(PduType)]
  /\ recvLast \in [Node -> RecvType]

\* Types of what each thread has for itself.
ThreadTypes ==
  /\ worker \in [Node -> Places] /\ sentSlices \in [Node -> Nat] /\ result \in [Node -> BOOLEAN]
  /\ app \in [Node -> {"idle", "wait", "copy"}] /\ picked \in [Node -> RecvType]
  /\ nBlocks \in [Node -> 0..MaxEvents] /\ failures \in Nat /\ wiped \in BOOLEAN

\* A block is not replaced while it is being sent.
SlicesKept ==
  \A p \in Node :
    /\ sentSlices[p] # 0 => worker[p] \in {"loop", "ack"}
    /\ worker[p] \in {"loop", "ack", "over", "notify"} => sendPending[p]
    /\ sendPending[p] => TxBuffer[p].slices > 0
    /\ sentSlices[p] <= TxBuffer[p].slices

\* What has been received is there when it is reported.
SlicesGot ==
  \A p \in Node : worker[p] = "picked" \/ (worker[p] = "report" /\ result[p]) => RxBuffer[p] # <<>>

TypeIInv == LinkTypes /\ FieldTypes /\ ThreadTypes /\ SlicesKept /\ SlicesGot

Answers == {"ack", "CC", "negotiated"}

\* An end of the connection is in s.  No answer is before it, or only as the first PDU.
Closed(s) == \E i \in 1..Len(s) : s[i].kind = "closed"
Clean(s) ==
  \A i \in 1..Len(s) : s[i].kind \in Answers => \E j \in 1..i - 1 : s[j].kind = "closed"
First(s) ==
  \A i \in 2..Len(s) : s[i].kind \in Answers => \E j \in 1..i - 1 : s[j].kind = "closed"

\* p's exchange has failed and the connection is going to be left: the error is still to
\* be read, or has become the result.
Fault(p) == ErrorUnread(p) \/ ~result[p]

\* p waits for an answer, or has given up.
Expects(p) == worker[p] \in Answers \/ Fault(p)
Weight(p) == IF Expects(p) THEN 1 ELSE 0

\* Where a worker may be when its last exchange has failed, and without connection.
Failed ==
  \A p \in Node :
    /\ ~result[p] => worker[p] \in {"notify", "report", "check"}
    /\ ~connected[p] => worker[p] \in {"connect", "stopped"} \/ Fault(p)

\* A connection that is broken is broken for both.
BothClosed ==
  \A p \in Node : connected[p] /\ connected[Peer(p)] /\ Closed(chan[Peer(p)]) => Closed(chan[p])

\* Each PDU on a sound connection is one that somebody waits for.
Balance ==
  \A p \in Node :
    connected[p] /\ connected[Peer(p)] /\ ~Closed(chan[p]) /\ ~Closed(chan[Peer(p)])
      => Len(chan[p]) + Len(chan[Peer(p)]) <= Weight(p) + Weight(Peer(p))

Awaited ==
  \A p \in Node : connected[p] => First(chan[p]) /\ (Expects(p) \/ Clean(chan[p]))

ChanInv == BothClosed /\ Balance /\ Awaited

\* Kept by every step that does not wipe an error; AnswersAwaited follows.
AnswerIInv == TypeIInv /\ Failed /\ ChanInv

-----------------------------------------------------------------------------
(* Channels.                                                               *)

\* There are two partners.
LEMMA Peers ==
  ASSUME NEW p \in Node
  PROVE  Peer(p) \in Node /\ Peer(p) # p /\ Peer(Peer(p)) = p /\ \A q \in Node : q = p \/ q = Peer(p)
  BY DEF Node, Peer

\* The PDUs that carry no data.
LEMMA PduTypes ==
  ASSUME NEW k \in {"CR", "CC", "negotiate", "negotiated", "slice", "ack", "closed"}
  PROVE  Pdu(k) \in PduType /\ Pdu(k).kind = k
<1>1. MaxEvents \in Nat /\ MaxSlices \in Nat
  BY PartnerAssumption
<1>2. 0 \in 0..MaxEvents /\ 0 \in 0..MaxSlices
  BY <1>1
<1>3. QED
  BY <1>2 DEF Pdu, PduType

\* ... and one that does.
LEMMA SliceTypes ==
  ASSUME NEW b \in [block: 0..MaxEvents, slices: 0..MaxSlices], NEW n \in 0..MaxSlices
  PROVE  Slice(b, n) \in PduType /\ Slice(b, n).kind = "slice"
<1>1. (n = b.slices) \in BOOLEAN /\ b.block \in 0..MaxEvents
  OBVIOUS
<1>2. ASSUME NEW l \in BOOLEAN, NEW c \in 0..MaxEvents
      PROVE  /\ [kind |-> "slice", block |-> c, slice |-> n, last |-> l] \in PduType
             /\ [kind |-> "slice", block |-> c, slice |-> n, last |-> l].kind = "slice"
  BY DEF PduType
<1>3. QED
  BY <1>1, <1>2 DEF Slice

\* The parts of a PDU.
LEMMA PduFields ==
  ASSUME NEW m \in PduType
  PROVE  /\ m.kind \in {"CR", "CC", "negotiate", "negotiated", "slice", "ack", "closed"}
         /\ m.block \in 0..MaxEvents /\ m.slice \in 0..MaxSlices /\ m.last \in BOOLEAN
  BY DEF PduType

\* Channel p loses its first PDU.
LEMMA TakeLemma ==
  ASSUME LinkTypes, NEW p \in Node, chan[p] # <<>>, Take(p)
  PROVE  /\ chan' \in [Node -> Seq(PduType)]
         /\ chan'[p] = Tail(chan[p]) /\ chan'[Peer(p)] = chan[Peer(p)]
         /\ Head(chan[p]) \in PduType
<1>1. chan \in [Node -> Seq(PduType)] /\ chan[p] \in Seq(PduType)
  BY DEF LinkTypes
<1>2. Tail(chan[p]) \in Seq(PduType) /\ Head(chan[p]) \in PduType
  BY <1>1, HeadTailProperties
<1>3. chan' = [chan EXCEPT ![p] = Tail(chan[p])]
  BY DEF Take, Set
<1>4. QED
  BY <1>1, <1>2, <1>3, Peers

\* ... and p answers, or sends its next slice.
LEMMA TakeAndSendLemma ==
  ASSUME LinkTypes, NEW p \in Node, chan[p] # <<>>, NEW m \in PduType, TakeAndSend(p, m)
  PROVE  /\ chan' \in [Node -> Seq(PduType)]
         /\ chan'[p] = Tail(chan[p])
         /\ chan'[Peer(p)] = IF connected[Peer(p)] THEN Append(chan[Peer(p)], m) ELSE chan[Peer(p)]
         /\ Head(chan[p]) \in PduType
<1>1. /\ chan \in [Node -> Seq(PduType)] /\ chan[p] \in Seq(PduType) /\ chan[Peer(p)] \in Seq(PduType)
      /\ Peer(p) \in Node /\ Peer(p) # p
  BY Peers DEF LinkTypes
<1>2. Tail(chan[p]) \in Seq(PduType) /\ Head(chan[p]) \in PduType
  BY <1>1, HeadTailProperties
<1>3. Append(chan[Peer(p)], m) \in Seq(PduType)
  BY <1>1, AppendProperties
<1> DEFINE t == IF connected[Peer(p)] THEN Append(chan[Peer(p)], m) ELSE chan[Peer(p)]
<1>4. chan' = [chan EXCEPT ![p] = Tail(chan[p]), ![Peer(p)] = t]
  BY <1>1 DEF TakeAndSend
<1>5. t \in Seq(PduType)
  BY <1>1, <1>3
<1> HIDE DEF t
<1>6. chan' \in [Node -> Seq(PduType)] /\ chan'[p] = Tail(chan[p]) /\ chan'[Peer(p)] = t
  BY <1>1, <1>2, <1>4, <1>5
<1>7. QED
  BY <1>2, <1>6 DEF t

\* p sends without having read.
LEMMA SendLemma ==
  ASSUME LinkTypes, NEW p \in Node, NEW m \in PduType,
         chan' = [chan EXCEPT ![Peer(p)] = IF connected[Peer(p)] THEN Append(@, m) ELSE @]
  PROVE  /\ chan' \in [Node -> Seq(PduType)]
         /\ chan'[p] = chan[p]
         /\ chan'[Peer(p)] = IF connected[Peer(p)] THEN Append(chan[Peer(p)], m) ELSE chan[Peer(p)]
<1>1. /\ chan \in [Node -> Seq(PduType)] /\ chan[Peer(p)] \in Seq(PduType)
      /\ Peer(p) \in Node /\ Peer(p) # p
  BY Peers DEF LinkTypes
<1>2. Append(chan[Peer(p)], m) \in Seq(PduType)
  BY <1>1, AppendProperties
<1> DEFINE t == IF connected[Peer(p)] THEN Append(chan[Peer(p)], m) ELSE chan[Peer(p)]
<1>3. t \in Seq(PduType) /\ chan' = [chan EXCEPT ![Peer(p)] = t]
  BY <1>1, <1>2
<1> HIDE DEF t
<1>4. chan' \in [Node -> Seq(PduType)] /\ chan'[p] = chan[p] /\ chan'[Peer(p)] = t
  BY <1>1, <1>3
<1>5. QED
  BY <1>4 DEF t

\* p leaves the connection.
LEMMA CloseLemma ==
  ASSUME LinkTypes, NEW p \in Node, Close(p)
  PROVE  /\ connected' \in [Node -> BOOLEAN] /\ linked' \in [Node -> BOOLEAN]
         /\ connected'[p] = FALSE /\ connected'[Peer(p)] = connected[Peer(p)]
         /\ chan' \in [Node -> Seq(PduType)]
         /\ chan'[p] = <<>>
         /\ chan'[Peer(p)] = IF connected[Peer(p)] THEN Append(chan[Peer(p)], Pdu("closed")) ELSE chan[Peer(p)]
<1>1. /\ chan \in [Node -> Seq(PduType)] /\ chan[Peer(p)] \in Seq(PduType)
      /\ Peer(p) \in Node /\ Peer(p) # p /\ Pdu("closed") \in PduType
  BY Peers, PduTypes DEF LinkTypes
<1>2. Append(chan[Peer(p)], Pdu("closed")) \in Seq(PduType) /\ <<>> \in Seq(PduType)
  BY <1>1, AppendProperties
<1> DEFINE t == IF connected[Peer(p)] THEN Append(chan[Peer(p)], Pdu("closed")) ELSE chan[Peer(p)]
<1>3. t \in Seq(PduType)
  BY <1>1, <1>2
<1>4. chan' = [chan EXCEPT ![p] = <<>>, ![Peer(p)] = t]
  BY <1>1 DEF Close
<1> HIDE DEF t
<1>5. chan' \in [Node -> Seq(PduType)] /\ chan'[p] = <<>> /\ chan'[Peer(p)] = t
  BY <1>1, <1>2, <1>3, <1>4
<1>6. /\ connected' \in [Node -> BOOLEAN] /\ linked' \in [Node -> BOOLEAN]
      /\ connected'[p] = FALSE /\ connected'[Peer(p)] = connected[Peer(p)]
  BY <1>1 DEF Close, Set, LinkTypes
<1>7. QED
  BY <1>5, <1>6 DEF t

-----------------------------------------------------------------------------
(* Types.                                                                  *)

\* Both have just been started.
LEMMA InitTypes == ASSUME Init PROVE TypeIInv
<1>1. MaxEvents \in Nat /\ MaxSlices \in Nat \ {0} /\ <<>> \in Seq(PduType)
  BY PartnerAssumption
<1>2. LinkTypes
  BY <1>1 DEF Init, LinkTypes
<1>3. FieldTypes
  BY <1>1 DEF Init, FieldTypes, NoBlock, NoRecv, RecvType
<1>4. ThreadTypes
  <2>1. wiped \in BOOLEAN
    BY DEF Init
  <2>2. NoRecv \in RecvType /\ 0 \in 0..MaxEvents
    BY <1>1 DEF NoRecv, RecvType
  <2>3. QED
    BY <2>1, <2>2 DEF Init, ThreadTypes, Places
<1>5. SlicesKept /\ SlicesGot
  BY <1>1 DEF Init, SlicesKept, SlicesGot, NoBlock
<1>6. QED
  BY <1>2, <1>3, <1>4, <1>5 DEF TypeIInv

\* A worker moves on and neither sends nor receives slices nor leaves some uncounted.
LEMMA WorkerMoves ==
  ASSUME TypeIInv, NEW p \in Node, NEW to \in Places, worker' = Set(worker, p, to),
         UNCHANGED <<sendPending, TxBuffer, sentSlices, RxBuffer>>,
         worker[p] \in {"loop", "ack"} => to \in {"loop", "ack"},
         to \in {"loop", "ack", "over", "notify"} => worker[p] \in {"loop", "ack", "over", "notify"},
         to \notin {"picked", "report"},
         \A n \in Node : n # p => result'[n] = result[n]
  PROVE  SlicesKept' /\ SlicesGot' /\ worker' \in [Node -> Places]
<1>1. worker \in [Node -> Places]
  BY DEF TypeIInv, ThreadTypes
<1>2. worker'[p] = to /\ \A n \in Node : n # p => worker'[n] = worker[n]
  BY <1>1 DEF Set
<1>3. SlicesKept'
  BY <1>2 DEF TypeIInv, SlicesKept
<1>4. SlicesGot'
  BY <1>2 DEF TypeIInv, SlicesGot
<1>5. QED
  BY <1>1, <1>3, <1>4 DEF Set

\* The connection is requested.
LEMMA ConnectTypes == ASSUME TypeIInv, Connect PROVE TypeIInv'
<1>1. <<>> \in Seq(PduType) /\ <<Pdu("CR")>> \in Seq(PduType) /\ "active" \in Node /\ "CC" \in Places
  BY PduTypes DEF Node, Places
<1>2. LinkTypes'
  BY <1>1 DEF TypeIInv, LinkTypes, Connect
<1>3. FieldTypes'
  BY <1>1 DEF TypeIInv, FieldTypes, Connect, flagVars, bufVars, Set
<1>4. SlicesKept' /\ SlicesGot' /\ worker' \in [Node -> Places]
  BY <1>1, WorkerMoves DEF Connect, WorkerGoes, flagVars, bufVars
<1>5. ThreadTypes'
  BY <1>4 DEF TypeIInv, ThreadTypes, Connect, appVars
<1>6. QED
  BY <1>2, <1>3, <1>4, <1>5 DEF TypeIInv

\* The connection is confirmed.
LEMMA ConfirmedTypes == ASSUME TypeIInv, ConnectConfirmed PROVE TypeIInv'
<1>1. "active" \in Node /\ "negotiated" \in Places /\ Pdu("negotiate") \in PduType
  BY PduTypes DEF Node, Places
<1>2. chan' \in [Node -> Seq(PduType)]
  BY <1>1, TakeAndSendLemma DEF TypeIInv, ConnectConfirmed
<1>3. LinkTypes' /\ FieldTypes'
  BY <1>1, <1>2 DEF TypeIInv, LinkTypes, FieldTypes, ConnectConfirmed, flagVars, bufVars, Set
<1>4. SlicesKept' /\ SlicesGot' /\ worker' \in [Node -> Places]
  BY <1>1, WorkerMoves DEF ConnectConfirmed, WorkerGoes, flagVars, bufVars
<1>5. ThreadTypes'
  BY <1>4 DEF TypeIInv, ThreadTypes, ConnectConfirmed, appVars
<1>6. QED
  BY <1>3, <1>4, <1>5 DEF TypeIInv

\* The length of PDUs is agreed.
LEMMA NegotiatedTypes == ASSUME TypeIInv, ConnectNegotiated PROVE TypeIInv'
<1>1. "active" \in Node /\ "execute" \in Places
  BY DEF Node, Places
<1>2. chan' \in [Node -> Seq(PduType)]
  BY <1>1, TakeLemma DEF TypeIInv, ConnectNegotiated
<1>3. LinkTypes' /\ FieldTypes'
  BY <1>1, <1>2 DEF TypeIInv, LinkTypes, FieldTypes, ConnectNegotiated, flagVars, bufVars, Set
<1>4. SlicesKept' /\ SlicesGot' /\ worker' \in [Node -> Places]
  BY <1>1, WorkerMoves DEF ConnectNegotiated, WorkerGoes, flagVars, bufVars
<1>5. ThreadTypes'
  BY <1>4 DEF TypeIInv, ThreadTypes, ConnectNegotiated, appVars
<1>6. QED
  BY <1>3, <1>4, <1>5 DEF TypeIInv

\* PeerConnect fails.
LEMMA FailedTypes == ASSUME TypeIInv, ConnectFailed PROVE TypeIInv'
<1>1. "active" \in Node /\ "connect" \in Places
  BY DEF Node, Places
<1>2. LinkTypes'
  BY <1>1, CloseLemma DEF TypeIInv, ConnectFailed, LinkTypes
<1>3. FieldTypes'
  BY <1>1 DEF TypeIInv, FieldTypes, ConnectFailed, flagVars, bufVars, Set
<1>4. SlicesKept' /\ SlicesGot' /\ worker' \in [Node -> Places]
  BY <1>1, WorkerMoves DEF ConnectFailed, WorkerGoes, flagVars, bufVars
<1>5. failures' \in Nat
  BY DEF TypeIInv, ThreadTypes, ConnectFailed
<1>6. ThreadTypes'
  BY <1>4, <1>5 DEF TypeIInv, ThreadTypes, ConnectFailed, appVars
<1>7. QED
  BY <1>2, <1>3, <1>4, <1>6 DEF TypeIInv

\* The active partner finds nobody with its ping.
LEMMA PingTypes == ASSUME TypeIInv, PingFails PROVE TypeIInv'
<1>1. "active" \in Node /\ "connect" \in Places
  BY DEF Node, Places
<1>2. LinkTypes'
  BY <1>1, CloseLemma DEF TypeIInv, PingFails, LinkTypes
<1>3. FieldTypes'
  BY <1>1 DEF TypeIInv, FieldTypes, PingFails, flagVars, bufVars, Set
<1>4. SlicesKept' /\ SlicesGot' /\ worker' \in [Node -> Places]
  BY <1>1, WorkerMoves DEF PingFails, WorkerGoes, flagVars, bufVars
<1>5. failures' \in Nat
  BY DEF TypeIInv, ThreadTypes, PingFails
<1>6. ThreadTypes'
  BY <1>4, <1>5 DEF TypeIInv, ThreadTypes, PingFails, appVars
<1>7. QED
  BY <1>2, <1>3, <1>4, <1>6 DEF TypeIInv

\* The passive partner has been given a connection.
LEMMA AcceptedTypes == ASSUME TypeIInv, Accepted PROVE TypeIInv'
<1>1. "passive" \in Node /\ "execute" \in Places
  BY DEF Node, Places
<1>2. LinkTypes' /\ FieldTypes'
  BY DEF TypeIInv, LinkTypes, FieldTypes, Accepted, linkVars, flagVars, bufVars
<1>3. SlicesKept' /\ SlicesGot' /\ worker' \in [Node -> Places]
  BY <1>1, WorkerMoves DEF Accepted, WorkerGoes, flagVars, bufVars
<1>4. ThreadTypes'
  BY <1>3 DEF TypeIInv, ThreadTypes, Accepted, appVars
<1>5. QED
  BY <1>2, <1>3, <1>4 DEF TypeIInv

\* The network breaks the connection.
LEMMA BreakTypes == ASSUME TypeIInv, Break PROVE TypeIInv'
<1>1. <<Pdu("closed")>> \in Seq(PduType)
  BY PduTypes
<1>2. LinkTypes'
  BY <1>1 DEF TypeIInv, LinkTypes, Break
<1>3. FieldTypes' /\ SlicesKept' /\ SlicesGot'
  BY DEF TypeIInv, FieldTypes, SlicesKept, SlicesGot, Break, flagVars, bufVars, wrkVars
<1>4. ThreadTypes'
  BY DEF TypeIInv, ThreadTypes, Break, wrkVars, appVars
<1>5. QED
  BY <1>2, <1>3, <1>4 DEF TypeIInv

\* BlockSend begins.
LEMMA StartSendTypes == ASSUME TypeIInv, NEW p \in Node, StartSend(p) PROVE TypeIInv'
<1>1. worker[p] = "execute" /\ worker' = Set(worker, p, "loop") /\ sendPending[p] /\ "loop" \in Places
  BY DEF StartSend, MaySend, WorkerGoes, Places
<1>2. LinkTypes' /\ FieldTypes'
  BY DEF TypeIInv, LinkTypes, FieldTypes, StartSend, linkVars, flagVars, bufVars, Set
<1>3. ThreadTypes'
  BY <1>1 DEF TypeIInv, ThreadTypes, StartSend, appVars, Set
<1>4. SlicesKept' /\ SlicesGot'
  BY <1>1 DEF TypeIInv, ThreadTypes, SlicesKept, SlicesGot, StartSend, flagVars, bufVars, Set
<1>5. QED
  BY <1>2, <1>3, <1>4 DEF TypeIInv

\* The worker within BlockSend: the block is still pending, and no more slices are counted
\* than it has.
LEMMA LoopMoves ==
  ASSUME TypeIInv, NEW p \in Node, NEW to \in {"loop", "ack", "over", "notify"}, NEW n \in Nat,
         worker[p] \in {"loop", "ack", "over"}, worker' = Set(worker, p, to),
         sentSlices' = Set(sentSlices, p, n), n <= TxBuffer[p].slices, n # 0 => to \in {"loop", "ack"},
         UNCHANGED <<sendPending, TxBuffer, RxBuffer>>,
         \A q \in Node : q # p => result'[q] = result[q]
  PROVE  /\ SlicesKept' /\ SlicesGot' /\ worker' \in [Node -> Places] /\ sentSlices' \in [Node -> Nat]
<1>1. worker \in [Node -> Places] /\ sentSlices \in [Node -> Nat] /\ to \in Places
  BY DEF TypeIInv, ThreadTypes, Places
<1>2. /\ worker'[p] = to /\ \A q \in Node : q # p => worker'[q] = worker[q]
      /\ sentSlices'[p] = n /\ \A q \in Node : q # p => sentSlices'[q] = sentSlices[q]
  BY <1>1 DEF Set
<1>3. SlicesKept'
  <2>1. ASSUME NEW q \in Node
        PROVE  /\ sentSlices'[q] # 0 => worker'[q] \in {"loop", "ack"}
               /\ worker'[q] \in {"loop", "ack", "over", "notify"} => sendPending'[q]
               /\ sendPending'[q] => TxBuffer'[q].slices > 0
               /\ sentSlices'[q] <= TxBuffer'[q].slices
    <3>1. CASE q = p
      BY <1>2, <3>1 DEF TypeIInv, SlicesKept
    <3>2. CASE q # p
      BY <1>2, <3>2 DEF TypeIInv, SlicesKept
    <3>3. QED
      BY <3>1, <3>2
  <2>2. QED
    BY <2>1 DEF SlicesKept
<1>4. SlicesGot'
  BY <1>2 DEF TypeIInv, SlicesGot
<1>5. QED
  BY <1>1, <1>3, <1>4 DEF Set

\* The numbers of BlockSend.
LEMMA LoopNumbers ==
  ASSUME TypeIInv, NEW p \in Node
  PROVE  /\ TxBuffer[p] \in [block: 0..MaxEvents, slices: 0..MaxSlices] /\ TxBuffer[p].slices \in Nat
         /\ sentSlices[p] \in Nat /\ sentSlices[p] <= TxBuffer[p].slices
         /\ MoreToSend(p) => sentSlices[p] + 1 \in 0..MaxSlices /\ sentSlices[p] + 1 <= TxBuffer[p].slices
<1>1. /\ TxBuffer[p] \in [block: 0..MaxEvents, slices: 0..MaxSlices] /\ sentSlices[p] \in Nat
      /\ sentSlices[p] <= TxBuffer[p].slices /\ MaxSlices \in Nat
  BY PartnerAssumption DEF TypeIInv, FieldTypes, ThreadTypes, SlicesKept
<1>2. QED
  BY <1>1 DEF MoreToSend

\* A slice is sent, or cannot be: a block never has more slices than TxBuffer holds.
LEMMA NextSliceTypes == ASSUME TypeIInv, NEW p \in Node, NextSlice(p) PROVE TypeIInv'
<1>1. /\ TxBuffer[p] \in [block: 0..MaxEvents, slices: 0..MaxSlices] /\ sentSlices[p] \in Nat
      /\ sentSlices[p] + 1 \in 0..MaxSlices /\ sentSlices[p] + 1 <= TxBuffer[p].slices
  BY LoopNumbers DEF NextSlice, GoesOn
<1>2. Slice(TxBuffer[p], sentSlices[p] + 1) \in PduType
  BY <1>1, SliceTypes
<1>3. PICK m \in PduType : m = Slice(TxBuffer[p], sentSlices[p] + 1)
  BY <1>2
<1>4. chan' = [chan EXCEPT ![Peer(p)] = IF connected[Peer(p)] THEN Append(@, m) ELSE @]
  BY <1>3 DEF NextSlice
<1>5. chan' \in [Node -> Seq(PduType)]
  BY <1>3, <1>4, SendLemma DEF TypeIInv
<1>6. LinkTypes' /\ FieldTypes'
  BY <1>5 DEF TypeIInv, LinkTypes, FieldTypes, NextSlice, flagVars, bufVars
<1>7. /\ worker[p] = "loop" /\ worker' = Set(worker, p, "ack") /\ sentSlices' = Set(sentSlices, p, sentSlices[p] + 1)
      /\ UNCHANGED <<sendPending, TxBuffer, RxBuffer, result, appVars, failures>>
  BY DEF NextSlice, WorkerGoes, flagVars, bufVars
<1>8. SlicesKept' /\ SlicesGot' /\ worker' \in [Node -> Places] /\ sentSlices' \in [Node -> Nat]
  BY <1>1, <1>7, LoopMoves
<1>9. ThreadTypes'
  BY <1>7, <1>8 DEF TypeIInv, ThreadTypes, appVars
<1>10. QED
  BY <1>6, <1>8, <1>9 DEF TypeIInv

\* ... cannot.
LEMMA SliceFailsTypes == ASSUME TypeIInv, NEW p \in Node, SliceFails(p) PROVE TypeIInv'
<1>1. /\ sentSlices[p] \in Nat /\ sentSlices[p] + 1 <= TxBuffer[p].slices
  BY LoopNumbers DEF SliceFails, GoesOn
<1>2. LinkTypes' /\ FieldTypes'
  BY DEF TypeIInv, LinkTypes, FieldTypes, SliceFails, linkVars, flagVars, bufVars, Set
<1>3. /\ worker[p] = "loop" /\ worker' = Set(worker, p, "loop") /\ sentSlices' = Set(sentSlices, p, sentSlices[p] + 1)
      /\ UNCHANGED <<sendPending, TxBuffer, RxBuffer, result, appVars, failures>>
  BY DEF SliceFails, WorkerGoes, flagVars, bufVars
<1>4. SlicesKept' /\ SlicesGot' /\ worker' \in [Node -> Places] /\ sentSlices' \in [Node -> Nat]
  BY <1>1, <1>3, LoopMoves
<1>5. ThreadTypes'
  BY <1>3, <1>4 DEF TypeIInv, ThreadTypes, appVars
<1>6. QED
  BY <1>2, <1>4, <1>5 DEF TypeIInv

\* It is acknowledged.
LEMMA RecvAckTypes == ASSUME TypeIInv, NEW p \in Node, RecvAck(p) PROVE TypeIInv'
<1>1. "loop" \in Places /\ chan[p] # <<>>
  BY DEF Places, RecvAck
<1>2. chan' \in [Node -> Seq(PduType)]
  BY <1>1, TakeLemma DEF TypeIInv, RecvAck
<1>3. LinkTypes' /\ FieldTypes'
  BY <1>2 DEF TypeIInv, LinkTypes, FieldTypes, RecvAck, flagVars, bufVars
<1>4. SlicesKept' /\ SlicesGot' /\ worker' \in [Node -> Places]
  BY <1>1, WorkerMoves DEF RecvAck, WorkerGoes, flagVars, bufVars
<1>5. ThreadTypes'
  BY <1>4 DEF TypeIInv, ThreadTypes, RecvAck, appVars
<1>6. QED
  BY <1>3, <1>4, <1>5 DEF TypeIInv

\* ... or not.
LEMMA AckFailsTypes == ASSUME TypeIInv, NEW p \in Node, AckFails(p) PROVE TypeIInv'
<1>1. connected' \in [Node -> BOOLEAN] /\ chan' \in [Node -> Seq(PduType)] /\ failures' \in Nat
  <2>1. CASE chan[p] = <<>>
    BY <2>1 DEF TypeIInv, LinkTypes, ThreadTypes, AckFails
  <2>2. CASE chan[p] # <<>>
    <3>1. chan' \in [Node -> Seq(PduType)]
      BY <2>2, TakeLemma DEF TypeIInv, AckFails
    <3>2. QED
      BY <2>2, <3>1 DEF TypeIInv, LinkTypes, ThreadTypes, AckFails, Set
  <2>3. QED
    BY <2>1, <2>2
<1>2. LinkTypes' /\ FieldTypes'
  BY <1>1 DEF TypeIInv, LinkTypes, FieldTypes, AckFails, flagVars, bufVars, Set
<1>3. "loop" \in Places
  BY DEF Places
<1>4. SlicesKept' /\ SlicesGot' /\ worker' \in [Node -> Places]
  BY <1>3, WorkerMoves DEF AckFails, WorkerGoes, flagVars, bufVars
<1>5. ThreadTypes'
  BY <1>1, <1>4 DEF TypeIInv, ThreadTypes, AckFails, appVars
<1>6. QED
  BY <1>2, <1>4, <1>5 DEF TypeIInv

\* BlockSend ends.
LEMMA SendEndTypes == ASSUME TypeIInv, NEW p \in Node, LoopBreaks(p) \/ SendResult(p) PROVE TypeIInv'
<1>1. PICK to \in {"over", "notify"} :
        /\ worker[p] \in {"loop", "over"} /\ worker' = Set(worker, p, to) /\ sentSlices' = Set(sentSlices, p, 0)
        /\ UNCHANGED <<sendPending, TxBuffer, RxBuffer, appVars, failures>>
  BY DEF LoopBreaks, SendResult, WorkerGoes, flagVars, bufVars
<1>2. 0 <= TxBuffer[p].slices
  BY LoopNumbers
<1>3. result' \in [Node -> BOOLEAN] /\ \A q \in Node : q # p => result'[q] = result[q]
  BY DEF TypeIInv, ThreadTypes, LoopBreaks, SendResult, Set
<1>4. SlicesKept' /\ SlicesGot' /\ worker' \in [Node -> Places] /\ sentSlices' \in [Node -> Nat]
  BY <1>1, <1>2, <1>3, LoopMoves
<1>5. ThreadTypes'
  BY <1>1, <1>3, <1>4 DEF TypeIInv, ThreadTypes, appVars
<1>6. LinkTypes' /\ FieldTypes'
  BY DEF TypeIInv, LinkTypes, FieldTypes, LoopBreaks, SendResult, linkVars, flagVars, bufVars, Set
<1>7. QED
  BY <1>4, <1>5, <1>6 DEF TypeIInv

\* The block is no longer pending.
LEMMA SendDoneTypes == ASSUME TypeIInv, NEW p \in Node, SendDone(p) PROVE TypeIInv'
<1>1. PICK to \in {"recv", "check"} : worker[p] = "notify" /\ worker' = Set(worker, p, to)
  BY DEF SendDone, WorkerGoes
<1>2. to \in Places
  BY DEF Places
<1>3. SlicesKept' /\ SlicesGot' /\ worker' \in [Node -> Places]
  BY <1>1, <1>2 DEF TypeIInv, FieldTypes, ThreadTypes, SlicesKept, SlicesGot, SendDone, bufVars, Set, SendFreed
<1>4. QED
  BY <1>3 DEF TypeIInv, LinkTypes, FieldTypes, ThreadTypes, SendDone, linkVars, bufVars, appVars, Set, SendFreed

\* Steps of the worker that leave the channels alone.
LEMMA QuietTypes ==
  ASSUME TypeIInv, NEW p \in Node, SkipSend(p) \/ NothingToRead(p) \/ Link(p)
  PROVE  TypeIInv'
<1>1. PICK to \in {"recv", "check"} : worker[p] \in {"execute", "recv", "linking"} /\ worker' = Set(worker, p, to)
  BY DEF SkipSend, NothingToRead, Link, WorkerGoes
<1>2. result' \in [Node -> BOOLEAN] /\ \A q \in Node : q # p => result'[q] = result[q]
  BY DEF TypeIInv, ThreadTypes, SkipSend, NothingToRead, Link, Set
<1>3. UNCHANGED <<connected, chan, flagVars, lastError, bufVars, sentSlices, appVars, failures>>
  BY DEF SkipSend, NothingToRead, Link, linkVars
<1>4. to \in Places
  BY DEF Places
<1>5. SlicesKept' /\ SlicesGot' /\ worker' \in [Node -> Places]
  BY <1>1, <1>2, <1>3, <1>4, WorkerMoves DEF flagVars, bufVars
<1>6. linked' \in [Node -> BOOLEAN]
  BY DEF TypeIInv, LinkTypes, SkipSend, NothingToRead, Link, linkVars, Set
<1>7. LinkTypes' /\ FieldTypes'
  BY <1>3, <1>6 DEF TypeIInv, LinkTypes, FieldTypes, flagVars, bufVars
<1>8. ThreadTypes'
  BY <1>2, <1>3, <1>5 DEF TypeIInv, ThreadTypes, appVars
<1>9. QED
  BY <1>5, <1>7, <1>8 DEF TypeIInv

\* The peer has closed the connection.
LEMMA RecvClosedTypes == ASSUME TypeIInv, NEW p \in Node, RecvClosed(p) PROVE TypeIInv'
<1>1. chan' \in [Node -> Seq(PduType)]
  BY TakeLemma DEF TypeIInv, RecvClosed, Incoming
<1>2. result' \in [Node -> BOOLEAN] /\ \A q \in Node : q # p => result'[q] = result[q]
  BY DEF TypeIInv, ThreadTypes, RecvClosed, Set
<1>3. SlicesKept' /\ SlicesGot' /\ worker' \in [Node -> Places]
  BY <1>2, WorkerMoves DEF RecvClosed, WorkerGoes, flagVars, bufVars, Places
<1>4. LinkTypes' /\ FieldTypes'
  BY <1>1 DEF TypeIInv, LinkTypes, FieldTypes, RecvClosed, flagVars, bufVars, Set
<1>5. ThreadTypes'
  BY <1>2, <1>3 DEF TypeIInv, ThreadTypes, RecvClosed, appVars
<1>6. QED
  BY <1>3, <1>4, <1>5 DEF TypeIInv

\* A connection request is answered.
LEMMA RecvConnectTypes == ASSUME TypeIInv, NEW p \in Node, RecvConnect(p) PROVE TypeIInv'
<1>1. chan' \in [Node -> Seq(PduType)]
  <2>1. Pdu("CC") \in PduType
    BY PduTypes
  <2>2. QED
    BY <2>1, TakeAndSendLemma DEF TypeIInv, RecvConnect, Incoming
<1>2. SlicesKept' /\ SlicesGot' /\ worker' \in [Node -> Places]
  BY WorkerMoves DEF RecvConnect, WorkerGoes, bufVars, Places
<1>3. LinkTypes' /\ FieldTypes'
  BY <1>1 DEF TypeIInv, LinkTypes, FieldTypes, RecvConnect, bufVars, Set
<1>4. ThreadTypes'
  BY <1>2 DEF TypeIInv, ThreadTypes, RecvConnect, appVars
<1>5. QED
  BY <1>2, <1>3, <1>4 DEF TypeIInv

\* What a request leaves in the channels and in LastError, answered or not.
LEMMA ReplyTypes ==
  ASSUME TypeIInv, NEW p \in Node, chan[p] # <<>>, NEW m \in PduType, NEW e, NEW f,
         e = lastError \/ e = Set(lastError, p, "ok"), f = Set(lastError, p, "error"),
         \/ TakeAndSend(p, m) /\ lastError' = e
         \/ Take(p) /\ lastError' = f
  PROVE  chan' \in [Node -> Seq(PduType)] /\ lastError' \in [Node -> {"ok", "error"}] /\ Head(chan[p]) \in PduType
<1>1. LinkTypes /\ lastError \in [Node -> {"ok", "error"}]
  BY DEF TypeIInv, FieldTypes
<1>2. chan' \in [Node -> Seq(PduType)] /\ Head(chan[p]) \in PduType
  BY <1>1, TakeLemma, TakeAndSendLemma
<1>3. QED
  BY <1>1, <1>2 DEF Set

\* ... a negotiation.
LEMMA RecvNegotiateTypes == ASSUME TypeIInv, NEW p \in Node, RecvNegotiate(p) PROVE TypeIInv'
<1>1. chan' \in [Node -> Seq(PduType)] /\ lastError' \in [Node -> {"ok", "error"}]
  <2>1. Pdu("negotiated") \in PduType /\ chan[p] # <<>>
    BY PduTypes DEF RecvNegotiate, Incoming
  <2>2. PICK f : f = Set(lastError, p, "error")
    OBVIOUS
  <2>3. \/ TakeAndSend(p, Pdu("negotiated")) /\ lastError' = lastError
        \/ Take(p) /\ lastError' = f
    BY <2>2 DEF RecvNegotiate
  <2>4. QED
    BY <2>1, <2>2, <2>3, ReplyTypes
<1>2. SlicesKept' /\ SlicesGot' /\ worker' \in [Node -> Places]
  BY WorkerMoves DEF RecvNegotiate, WorkerGoes, bufVars, Places
<1>3. recvPending' \in [Node -> BOOLEAN]
  BY DEF TypeIInv, FieldTypes, RecvNegotiate, Set
<1>4. UNCHANGED <<connected, linked, sendPending, sendEvt, recvEvt, bufVars, sentSlices, result, appVars, failures>>
  BY DEF RecvNegotiate
<1>5. LinkTypes' /\ FieldTypes'
  BY <1>1, <1>3, <1>4 DEF TypeIInv, LinkTypes, FieldTypes, bufVars
<1>6. ThreadTypes'
  BY <1>2, <1>4 DEF TypeIInv, ThreadTypes, appVars
<1>7. QED
  BY <1>2, <1>5, <1>6 DEF TypeIInv

\* A sequence begins or goes on.
LEMMA BeginTypes ==
  ASSUME TypeIInv, NEW p \in Node, BeginRecv(p)
  PROVE  recvPending' \in [Node -> BOOLEAN] /\ recvLast' \in [Node -> RecvType]
<1>1. NoRecv \in RecvType /\ recvLast[p] \in RecvType
  BY PartnerAssumption DEF TypeIInv, FieldTypes, NoRecv, RecvType
<1>2. QED
  BY <1>1 DEF BeginRecv, TypeIInv, FieldTypes, Set

\* A slice goes into RxBuffer.
LEMMA RecvSliceTypes == ASSUME TypeIInv, NEW p \in Node, RecvSlice(p) PROVE TypeIInv'
<1> DEFINE m == Head(chan[p])
           rx == IF StartsBlock(p) THEN <<m>> ELSE Append(RxBuffer[p], m)
<1>1. chan' \in [Node -> Seq(PduType)] /\ lastError' \in [Node -> {"ok", "error"}] /\ m \in PduType
  <2>1. Pdu("ack") \in PduType /\ chan[p] # <<>>
    BY PduTypes DEF RecvSlice, Incoming
  <2>2. PICK e : e = Set(lastError, p, "ok")
    OBVIOUS
  <2>3. PICK f : f = Set(lastError, p, "error")
    OBVIOUS
  <2>4. \/ TakeAndSend(p, Pdu("ack")) /\ lastError' = e
        \/ Take(p) /\ lastError' = f
    BY <2>2, <2>3 DEF RecvSlice
  <2>5. QED
    BY <2>1, <2>2, <2>3, <2>4, ReplyTypes
<1>2. rx \in Seq(PduType) /\ rx # <<>>
  <2>1. RxBuffer[p] \in Seq(PduType)
    BY DEF TypeIInv, FieldTypes
  <2>2. Append(RxBuffer[p], m) \in Seq(PduType) /\ Append(RxBuffer[p], m) # <<>>
    BY <1>1, <2>1, AppendProperties
  <2>3. <<m>> \in Seq(PduType) /\ <<m>> # <<>>
    BY <1>1
  <2>4. QED
    BY <2>2, <2>3
<1>3. /\ RxBuffer' = Set(RxBuffer, p, rx) /\ worker[p] = "recv" /\ worker' = Set(worker, p, "picked")
      /\ UNCHANGED <<connected, linked, sendPending, sendEvt, recvEvt, TxBuffer, sentSlices, result, appVars, failures>>
  BY DEF RecvSlice, WorkerGoes
<1>4. recvPending' \in [Node -> BOOLEAN] /\ recvLast' \in [Node -> RecvType]
  BY BeginTypes DEF RecvSlice
<1> HIDE DEF rx
<1>5. RxBuffer' \in [Node -> Seq(PduType)] /\ RxBuffer'[p] = rx /\ \A q \in Node : q # p => RxBuffer'[q] = RxBuffer[q]
  BY <1>2, <1>3 DEF TypeIInv, FieldTypes, Set
<1>6. worker' \in [Node -> Places] /\ worker'[p] = "picked" /\ \A q \in Node : q # p => worker'[q] = worker[q]
  BY <1>3 DEF TypeIInv, ThreadTypes, Set, Places
<1>7. SlicesKept'
  BY <1>3, <1>6 DEF TypeIInv, SlicesKept
<1>8. SlicesGot'
  BY <1>2, <1>3, <1>5, <1>6 DEF TypeIInv, SlicesGot
<1>9. LinkTypes' /\ FieldTypes'
  BY <1>1, <1>3, <1>4, <1>5 DEF TypeIInv, LinkTypes, FieldTypes
<1>10. ThreadTypes'
  BY <1>3, <1>6 DEF TypeIInv, ThreadTypes, appVars
<1>11. QED
  BY <1>7, <1>8, <1>9, <1>10 DEF TypeIInv

\* ... what is none is refused.
LEMMA PickRefusedTypes == ASSUME TypeIInv, NEW p \in Node, PickRefused(p) PROVE TypeIInv'
<1>1. chan' \in [Node -> Seq(PduType)]
  BY TakeLemma DEF TypeIInv, PickRefused, Incoming
<1>2. recvPending' \in [Node -> BOOLEAN] /\ recvLast' \in [Node -> RecvType]
  BY BeginTypes DEF PickRefused
<1>3. lastError' \in [Node -> {"ok", "error"}]
  BY DEF TypeIInv, FieldTypes, PickRefused, Set
<1>4. /\ UNCHANGED <<connected, linked, sendPending, sendEvt, recvEvt, TxBuffer, RxBuffer, sentSlices, appVars, failures>>
      /\ worker[p] = "recv" /\ worker' = Set(worker, p, "report") /\ result' = Set(result, p, FALSE)
  BY DEF PickRefused, WorkerGoes
<1>5. /\ worker' \in [Node -> Places] /\ worker'[p] = "report" /\ \A q \in Node : q # p => worker'[q] = worker[q]
      /\ result' \in [Node -> BOOLEAN] /\ ~result'[p] /\ \A q \in Node : q # p => result'[q] = result[q]
  BY <1>4 DEF TypeIInv, ThreadTypes, Set, Places
<1>6. SlicesKept' /\ SlicesGot'
  BY <1>4, <1>5 DEF TypeIInv, SlicesKept, SlicesGot
<1>7. LinkTypes' /\ FieldTypes'
  BY <1>1, <1>2, <1>3, <1>4 DEF TypeIInv, LinkTypes, FieldTypes
<1>8. ThreadTypes'
  BY <1>4, <1>5 DEF TypeIInv, ThreadTypes, appVars
<1>9. QED
  BY <1>6, <1>7, <1>8 DEF TypeIInv

\* PickData returns.
LEMMA PickResultTypes == ASSUME TypeIInv, NEW p \in Node, PickResult(p) PROVE TypeIInv'
<1>1. PICK to \in {"check", "report"} : worker[p] = "picked" /\ worker' = Set(worker, p, to)
  BY DEF PickResult, WorkerGoes
<1>2. /\ worker' \in [Node -> Places] /\ worker'[p] = to /\ \A q \in Node : q # p => worker'[q] = worker[q]
      /\ result' \in [Node -> BOOLEAN] /\ \A q \in Node : q # p => result'[q] = result[q]
  BY <1>1 DEF TypeIInv, ThreadTypes, PickResult, Set, Places
<1>3. UNCHANGED <<linkVars, flagVars, lastError, bufVars, sentSlices, appVars, failures>>
  BY DEF PickResult
<1>4. SlicesKept' /\ SlicesGot'
  BY <1>1, <1>2, <1>3 DEF TypeIInv, SlicesKept, SlicesGot, flagVars, bufVars
<1>5. LinkTypes' /\ FieldTypes'
  BY <1>3 DEF TypeIInv, LinkTypes, FieldTypes, linkVars, flagVars, bufVars
<1>6. ThreadTypes'
  BY <1>2, <1>3 DEF TypeIInv, ThreadTypes, appVars
<1>7. QED
  BY <1>4, <1>5, <1>6 DEF TypeIInv

\* FRecvLast takes the result.
LEMMA RecvReportTypes == ASSUME TypeIInv, NEW p \in Node, RecvReport(p) PROVE TypeIInv'
<1>1. PICK b : b = IF result[p] THEN RxBuffer[p][1].block ELSE 0
  OBVIOUS
<1>2. b \in 0..MaxEvents
  <2>1. CASE result[p]
    <3>1. RxBuffer[p] \in Seq(PduType) /\ RxBuffer[p] # <<>>
      BY <2>1 DEF TypeIInv, FieldTypes, SlicesGot, RecvReport, WorkerGoes
    <3>2. 1 \in 1..Len(RxBuffer[p])
      BY <3>1, EmptySeq, LenProperties
    <3>3. RxBuffer[p][1] \in PduType
      BY <3>1, <3>2, ElementOfSeq
    <3>4. QED
      BY <1>1, <2>1, <3>3, PduFields
  <2>2. CASE ~result[p]
    BY <1>1, <2>2, PartnerAssumption
  <2>3. QED
    BY <2>1, <2>2
<1>3. recvLast' = Set(recvLast, p, [done |-> TRUE, result |-> lastError[p], block |-> b])
  BY <1>1 DEF RecvReport
<1>4. recvLast' \in [Node -> RecvType]
  <2>1. lastError[p] \in {"ok", "error"}
    BY DEF TypeIInv, FieldTypes
  <2>2. [done |-> TRUE, result |-> lastError[p], block |-> b] \in RecvType
    BY <1>2, <2>1 DEF RecvType
  <2>3. QED
    BY <1>3, <2>2 DEF TypeIInv, FieldTypes, Set
<1>5. recvEvt' \in [Node -> BOOLEAN] /\ recvPending' \in [Node -> BOOLEAN]
  BY DEF TypeIInv, FieldTypes, RecvReport, Set
<1>6. /\ UNCHANGED <<linkVars, sendPending, sendEvt, lastError, TxBuffer, RxBuffer, sentSlices, result, appVars, failures>>
      /\ worker[p] = "report" /\ worker' = Set(worker, p, "check") /\ "check" \in Places
  BY DEF RecvReport, WorkerGoes, Places
<1>7. SlicesKept' /\ SlicesGot' /\ worker' \in [Node -> Places]
  BY <1>6, WorkerMoves
<1>8. LinkTypes' /\ FieldTypes'
  BY <1>4, <1>5, <1>6 DEF TypeIInv, LinkTypes, FieldTypes, linkVars
<1>9. ThreadTypes'
  BY <1>6, <1>7 DEF TypeIInv, ThreadTypes, appVars
<1>10. QED
  BY <1>7, <1>8, <1>9 DEF TypeIInv

\* The end of Execute.
LEMMA CheckTypes == ASSUME TypeIInv, NEW p \in Node, Check(p) \/ CheckTimeout(p) PROVE TypeIInv'
<1>1. /\ LeaveOrKeep(p)
      /\ UNCHANGED <<sendPending, sendEvt, bufVars, sentSlices, appVars>>
  BY DEF Check, CheckTimeout
<1>2. connected' \in [Node -> BOOLEAN] /\ linked' \in [Node -> BOOLEAN] /\ chan' \in [Node -> Seq(PduType)]
  <2>1. CASE ~connected[p]
    BY <1>1, <2>1 DEF TypeIInv, LinkTypes, LeaveOrKeep, Set
  <2>2. CASE connected[p] /\ Keeps(p)
    BY <1>1, <2>2 DEF TypeIInv, LinkTypes, LeaveOrKeep, linkVars
  <2>3. CASE connected[p] /\ ~Keeps(p)
    BY <1>1, <2>3, CloseLemma DEF TypeIInv, LeaveOrKeep
  <2>4. QED
    BY <2>1, <2>2, <2>3
<1>3. result' \in [Node -> BOOLEAN] /\ \A q \in Node : q # p => result'[q] = result[q]
  BY <1>1 DEF TypeIInv, ThreadTypes, LeaveOrKeep, Set
<1>4. PICK to \in {"execute", "connect"} : worker[p] = "check" /\ worker' = Set(worker, p, to)
  BY <1>1 DEF LeaveOrKeep
<1>5. SlicesKept' /\ SlicesGot' /\ worker' \in [Node -> Places]
  <2>1. to \in Places
    BY DEF Places
  <2>2. QED
    BY <1>1, <1>3, <1>4, <2>1, WorkerMoves DEF bufVars
<1>6. recvPending' \in [Node -> BOOLEAN] /\ recvEvt' \in [Node -> BOOLEAN]
  BY DEF TypeIInv, FieldTypes, Check, CheckTimeout, Set
<1>7. lastError' \in [Node -> {"ok", "error"}] /\ failures' \in Nat
  <2>1. lastError \in [Node -> {"ok", "error"}] /\ failures \in Nat
    BY DEF TypeIInv, FieldTypes, ThreadTypes
  <2>2. \A e \in {"ok", "error"} : Set(lastError, p, e) \in [Node -> {"ok", "error"}]
    BY <2>1 DEF Set
  <2>3. lastError' = lastError \/ \E e \in {"ok", "error"} : lastError' = Set(lastError, p, e)
    BY DEF Check, CheckTimeout
  <2>4. failures' = failures \/ failures' = 1
    BY DEF Check, CheckTimeout
  <2>5. QED
    BY <2>1, <2>2, <2>3, <2>4
<1>8. LinkTypes' /\ FieldTypes'
  BY <1>1, <1>2, <1>6, <1>7 DEF TypeIInv, LinkTypes, FieldTypes, bufVars
<1>9. ThreadTypes'
  BY <1>1, <1>3, <1>5, <1>7 DEF TypeIInv, ThreadTypes, appVars
<1>10. QED
  BY <1>5, <1>8, <1>9 DEF TypeIInv

\* The application's steps: a block is handed over when none is being sent.
LEMMA BSendTypes == ASSUME TypeIInv, NEW p \in Node, BSend(p) PROVE TypeIInv'
<1>1. /\ nBlocks[p] + 1 \in 0..MaxEvents /\ ~sendPending[p] /\ nBlocks[p] \in Nat
  BY PartnerAssumption DEF TypeIInv, ThreadTypes, BSend, MayStart
<1>2. PICK n \in 1..MaxSlices : TxBuffer' = Set(TxBuffer, p, [block |-> nBlocks[p] + 1, slices |-> n])
  BY DEF BSend
<1>3. TxBuffer' \in [Node -> [block: 0..MaxEvents, slices: 0..MaxSlices]]
  <2>1. n \in 0..MaxSlices
    BY PartnerAssumption
  <2>2. [block |-> nBlocks[p] + 1, slices |-> n] \in [block: 0..MaxEvents, slices: 0..MaxSlices]
    BY <1>1, <2>1
  <2>3. QED
    BY <1>2, <2>2 DEF TypeIInv, FieldTypes, Set
<1>4. SlicesKept' /\ SlicesGot'
  <2>1. sentSlices[p] = 0
    BY <1>1 DEF TypeIInv, SlicesKept
  <2>2. /\ TxBuffer'[p].slices = n /\ \A q \in Node : q # p => TxBuffer'[q] = TxBuffer[q]
        /\ sendPending'[p] /\ \A q \in Node : q # p => sendPending'[q] = sendPending[q]
        /\ sentSlices' = sentSlices /\ worker' = worker /\ RxBuffer' = RxBuffer /\ result' = result
    BY <1>2 DEF TypeIInv, FieldTypes, BSend, Set, wrkVars
  <2>3. ASSUME NEW q \in Node
        PROVE  /\ sentSlices'[q] # 0 => worker'[q] \in {"loop", "ack"}
               /\ worker'[q] \in {"loop", "ack", "over", "notify"} => sendPending'[q]
               /\ sendPending'[q] => TxBuffer'[q].slices > 0
               /\ sentSlices'[q] <= TxBuffer'[q].slices
    <3>1. CASE q = p
      BY <2>1, <2>2, <3>1, PartnerAssumption DEF TypeIInv, SlicesKept
    <3>2. CASE q # p
      BY <2>2, <3>2 DEF TypeIInv, SlicesKept
    <3>3. QED
      BY <3>1, <3>2
  <2>4. SlicesGot'
    BY <2>2 DEF TypeIInv, SlicesGot
  <2>5. QED
    BY <2>3, <2>4 DEF SlicesKept
<1>5. FieldTypes'
  BY <1>3 DEF TypeIInv, FieldTypes, BSend, Set
<1>6. LinkTypes' /\ ThreadTypes'
  BY <1>1 DEF TypeIInv, LinkTypes, ThreadTypes, BSend, linkVars, wrkVars, Set
<1>7. QED
  BY <1>4, <1>5, <1>6 DEF TypeIInv

\* Stop gives up a block that is being sent.
LEMMA StopTypes == ASSUME TypeIInv, NEW p \in Node, Stop(p) PROVE TypeIInv'
<1>1. LinkTypes' /\ lastError' \in [Node -> {"ok", "error"}]
  <2>1. CASE connected[p]
    <3>1. Close(p) /\ lastError' = Set(lastError, p, "ok")
      BY <2>1 DEF Stop
    <3>2. lastError' \in [Node -> {"ok", "error"}]
      BY <3>1 DEF TypeIInv, FieldTypes, Set
    <3>3. QED
      BY <3>1, <3>2, CloseLemma DEF TypeIInv, LinkTypes
  <2>2. CASE ~connected[p]
    BY <2>2 DEF TypeIInv, LinkTypes, FieldTypes, Stop, linkVars
  <2>3. QED
    BY <2>1, <2>2
<1>2. FieldTypes'
  BY <1>1 DEF TypeIInv, FieldTypes, Stop, flagVars, bufVars
<1>3. worker' = Set(worker, p, "stopped") /\ "stopped" \in Places /\ sentSlices' = Set(sentSlices, p, 0)
  BY DEF Stop, WorkerGoes, Places
<1>4. ThreadTypes'
  BY <1>3 DEF TypeIInv, ThreadTypes, Stop, Set
<1>5. SlicesKept' /\ SlicesGot'
  BY <1>3 DEF TypeIInv, FieldTypes, ThreadTypes, SlicesKept, SlicesGot, Stop, flagVars, bufVars, Set
<1>6. QED
  BY <1>1, <1>2, <1>4, <1>5 DEF TypeIInv

\* Start.
LEMMA StartTypes == ASSUME TypeIInv, NEW p \in Node, Start(p) PROVE TypeIInv'
<1>1. SlicesKept' /\ SlicesGot' /\ worker' \in [Node -> Places]
  BY WorkerMoves DEF Start, WorkerGoes, flagVars, bufVars, Places
<1>2. QED
  BY <1>1 DEF TypeIInv, LinkTypes, FieldTypes, ThreadTypes, Start, linkVars, flagVars, bufVars, appVars

\* The others do not touch TxBuffer.
LEMMA AppTypes ==
  ASSUME TypeIInv, NEW p \in Node,
         BSendNotLinked(p) \/ WaitSend(p) \/ WaitSendTimeout(p) \/ BRecv(p) \/ BRecvCopy(p) \/ BRecvTimeout(p)
  PROVE  TypeIInv'
<1>1. UNCHANGED <<linkVars, bufVars, wrkVars, nBlocks, sendPending, recvPending, sendEvt>>
  BY DEF BSendNotLinked, WaitSend, WaitSendTimeout, BRecv, BRecvCopy, BRecvTimeout, flagVars, appVars
<1>2. LinkTypes' /\ SlicesKept' /\ SlicesGot'
  BY <1>1 DEF TypeIInv, LinkTypes, SlicesKept, SlicesGot, linkVars, bufVars, wrkVars
<1>3. recvEvt' \in [Node -> BOOLEAN]
  BY DEF TypeIInv, FieldTypes, BSendNotLinked, WaitSend, WaitSendTimeout, BRecv, BRecvCopy, BRecvTimeout, flagVars, Set
<1>4. lastError' \in [Node -> {"ok", "error"}]
  <2>1. picked[p].result \in {"ok", "error"}
    BY DEF TypeIInv, ThreadTypes, RecvType
  <2>2. QED
    BY <2>1 DEF TypeIInv, FieldTypes, BSendNotLinked, WaitSend, WaitSendTimeout, BRecv, BRecvCopy, BRecvTimeout, Set
<1>5. FieldTypes'
  BY <1>1, <1>3, <1>4 DEF TypeIInv, FieldTypes, bufVars
<1>6. app' \in [Node -> {"idle", "wait", "copy"}] /\ failures' \in Nat
  BY DEF TypeIInv, ThreadTypes, BSendNotLinked, WaitSend, WaitSendTimeout, BRecv, BRecvCopy, BRecvTimeout, Set, appVars
<1>7. picked' \in [Node -> RecvType]
  <2>1. NoRecv \in RecvType /\ recvLast[p] \in RecvType
    BY PartnerAssumption DEF TypeIInv, FieldTypes, NoRecv, RecvType
  <2>2. QED
    BY <2>1 DEF TypeIInv, ThreadTypes, BSendNotLinked, WaitSend, WaitSendTimeout, BRecv, BRecvCopy, BRecvTimeout, Set, appVars
<1>8. wiped' \in BOOLEAN
  <2>1. CASE BRecvCopy(p)
    <3>1. (wiped \/ (ErrorUnread(p) /\ picked[p].result = "ok")) \in BOOLEAN
      OBVIOUS
    <3>2. QED
      BY <2>1, <3>1 DEF BRecvCopy
  <2>2. CASE ~BRecvCopy(p)
    <3>1. wiped' = wiped
      BY <2>2 DEF BSendNotLinked, WaitSend, WaitSendTimeout, BRecv, BRecvTimeout, appVars
    <3>2. QED
      BY <3>1 DEF TypeIInv, ThreadTypes
  <2>3. QED
    BY <2>1, <2>2
<1>9. ThreadTypes'
  BY <1>1, <1>6, <1>7, <1>8 DEF TypeIInv, ThreadTypes, wrkVars
<1>10. QED
  BY <1>2, <1>5, <1>9 DEF TypeIInv

\* Every step keeps the types.
LEMMA TypeStep == ASSUME TypeIInv, [Next]_vars PROVE TypeIInv'
<1>1. ASSUME NEW p \in Node, Worker(p) PROVE TypeIInv'
  BY <1>1, StartSendTypes, NextSliceTypes, SliceFailsTypes, RecvAckTypes, AckFailsTypes, SendEndTypes, SendDoneTypes,
     QuietTypes, RecvClosedTypes, RecvConnectTypes, RecvNegotiateTypes, RecvSliceTypes, PickRefusedTypes,
     PickResultTypes, RecvReportTypes, CheckTypes, ConnectTypes, ConfirmedTypes, NegotiatedTypes,
     FailedTypes, PingTypes, AcceptedTypes, Zenon DEF Worker
<1>2. ASSUME NEW p \in Node, App(p) PROVE TypeIInv'
  BY <1>2, BSendTypes, StopTypes, StartTypes, AppTypes DEF App
<1>3. CASE Break
  BY <1>3, BreakTypes
<1>4. CASE UNCHANGED vars
  BY <1>4 DEF TypeIInv, LinkTypes, FieldTypes, ThreadTypes, SlicesKept, SlicesGot, vars, linkVars, flagVars, bufVars,
              wrkVars, appVars
<1>5. QED
  BY <1>1, <1>2, <1>3, <1>4 DEF Next

\* The strengthening of the types holds in every state.
LEMMA TypeInvariant == Spec => []TypeIInv
<1>1. Init => TypeIInv
  BY InitTypes
<1>2. TypeIInv /\ [Next]_vars => TypeIInv'
  BY TypeStep
<1>3. QED
  BY <1>1, <1>2, PTL DEF Spec

\* For any number of blocks and failures every part of the state has its type, and
\* no more slices of a block are sent than it has.
THEOREM TypeOKHolds == Spec => []TypeOK
<1>1. ASSUME TypeIInv PROVE TypeOK
  <2> SUFFICES ASSUME NEW p \in Node
      PROVE /\ connected[p] \in BOOLEAN /\ linked[p] \in BOOLEAN /\ IsPduSeq(chan[p])
            /\ sendPending[p] \in BOOLEAN /\ recvPending[p] \in BOOLEAN
            /\ sendEvt[p] \in BOOLEAN /\ recvEvt[p] \in BOOLEAN
            /\ lastError[p] \in {"ok", "error"}
            /\ TxBuffer[p] \in [block: 0..MaxEvents, slices: 0..MaxSlices]
            /\ IsPduSeq(RxBuffer[p]) /\ recvLast[p] \in RecvType
            /\ worker[p] \in Places
            /\ sentSlices[p] \in 0..TxBuffer[p].slices /\ result[p] \in BOOLEAN
            /\ app[p] \in {"idle", "wait", "copy"} /\ picked[p] \in RecvType
            /\ nBlocks[p] \in 0..MaxEvents /\ wiped \in BOOLEAN
    BY DEF TypeOK, Places
  <2>1. chan[p] \in Seq(PduType) /\ RxBuffer[p] \in Seq(PduType)
    BY <1>1 DEF TypeIInv, LinkTypes, FieldTypes
  <2>2. IsPduSeq(chan[p]) /\ IsPduSeq(RxBuffer[p])
    BY <2>1, ElementOfSeq DEF IsPduSeq
  <2>3. sentSlices[p] \in 0..TxBuffer[p].slices
    BY <1>1 DEF TypeIInv, FieldTypes, ThreadTypes, SlicesKept
  <2>4. QED
    BY <1>1, <2>2, <2>3 DEF TypeIInv, LinkTypes, FieldTypes, ThreadTypes
<1>2. QED
  BY <1>1, TypeInvariant, PTL

-----------------------------------------------------------------------------
(* Answers.                                                                *)

\* The order of a channel when its first PDU is taken.
LEMMA TailOrder ==
  ASSUME NEW s \in Seq(PduType), s # <<>>, Head(s).kind # "closed"
  PROVE  /\ Closed(Tail(s)) <=> Closed(s)
         /\ First(s) => Clean(Tail(s))
         /\ Len(Tail(s)) + 1 = Len(s) /\ Len(Tail(s)) \in Nat
<1>1. /\ Len(s) \in Nat \ {0} /\ Len(Tail(s)) = Len(s) - 1 /\ Head(s) = s[1]
      /\ \A i \in 1..Len(s) - 1 : Tail(s)[i] = s[i + 1]
  BY HeadTailProperties, EmptySeq, LenProperties
<1>2. Closed(Tail(s)) => Closed(s)
  <2> SUFFICES ASSUME NEW i \in 1..Len(s) - 1, s[i + 1].kind = "closed" PROVE Closed(s)
    BY <1>1 DEF Closed
  <2>1. i + 1 \in 1..Len(s)
    BY <1>1
  <2>2. QED
    BY <2>1 DEF Closed
<1>3. Closed(s) => Closed(Tail(s))
  <2> SUFFICES ASSUME NEW i \in 1..Len(s), s[i].kind = "closed" PROVE Closed(Tail(s))
    BY DEF Closed
  <2>1. i # 1
    BY <1>1
  <2>2. i - 1 \in 1..Len(Tail(s)) /\ i - 1 \in 1..Len(s) - 1 /\ (i - 1) + 1 = i
    BY <1>1, <2>1
  <2>3. Tail(s)[i - 1].kind = "closed"
    BY <1>1, <2>2
  <2>4. QED
    BY <2>2, <2>3 DEF Closed
<1>4. First(s) => Clean(Tail(s))
  <2> SUFFICES ASSUME First(s), NEW i \in 1..Len(s) - 1, s[i + 1].kind \in Answers
               PROVE  \E j \in 1..i - 1 : Tail(s)[j].kind = "closed"
    BY <1>1 DEF Clean
  <2>1. i + 1 \in 2..Len(s)
    BY <1>1
  <2>2. PICK j \in 1..(i + 1) - 1 : s[j].kind = "closed"
    BY <2>1 DEF First
  <2>3. j # 1
    BY <1>1, <2>2
  <2>4. j - 1 \in 1..i - 1 /\ j - 1 \in 1..Len(s) - 1 /\ (j - 1) + 1 = j
    BY <1>1, <2>2, <2>3
  <2>5. Tail(s)[j - 1].kind = "closed"
    BY <1>1, <2>2, <2>4
  <2>6. QED
    BY <2>4, <2>5
<1>5. QED
  BY <1>1, <1>2, <1>3, <1>4

\* ... and when one is added.
LEMMA AppendOrder ==
  ASSUME NEW s \in Seq(PduType), NEW m \in PduType
  PROVE  /\ Closed(Append(s, m)) <=> Closed(s) \/ m.kind = "closed"
         /\ m.kind \notin Answers \/ Closed(s) =>
              /\ First(s) => First(Append(s, m))
              /\ Clean(s) => Clean(Append(s, m))
         /\ s = <<>> => First(Append(s, m))
         /\ Len(Append(s, m)) = Len(s) + 1 /\ Len(s) \in Nat
<1>1. PICK t : t = Append(s, m)
  OBVIOUS
<1>2. /\ Len(t) = Len(s) + 1 /\ Len(s) \in Nat /\ t[Len(s) + 1] = m
      /\ \A i \in 1..Len(s) : t[i] = s[i]
  BY <1>1, AppendProperties, LenProperties
<1>3. \A i \in 1..Len(t) : i \in 1..Len(s) \/ i = Len(s) + 1
  BY <1>2
<1>4. Closed(s) => Closed(t)
  <2> SUFFICES ASSUME NEW i \in 1..Len(s), s[i].kind = "closed" PROVE Closed(t)
    BY DEF Closed
  <2>1. i \in 1..Len(t) /\ t[i].kind = "closed"
    BY <1>2
  <2>2. QED
    BY <2>1 DEF Closed
<1>5. m.kind = "closed" => Closed(t)
  <2>1. Len(s) + 1 \in 1..Len(t)
    BY <1>2
  <2>2. QED
    BY <1>2, <2>1 DEF Closed
<1>6. Closed(t) => Closed(s) \/ m.kind = "closed"
  BY <1>2, <1>3 DEF Closed
<1>7. ASSUME m.kind \notin Answers \/ Closed(s), NEW i \in 1..Len(t), t[i].kind \in Answers,
             i \in 1..Len(s) => \E j \in 1..i - 1 : s[j].kind = "closed"
      PROVE  \E j \in 1..i - 1 : t[j].kind = "closed"
  <2>1. CASE i \in 1..Len(s)
    <3>1. PICK j \in 1..i - 1 : s[j].kind = "closed"
      BY <1>7, <2>1
    <3>2. j \in 1..Len(s)
      BY <1>2, <2>1
    <3>3. QED
      BY <1>2, <3>1, <3>2
  <2>2. CASE i = Len(s) + 1
    <3>1. PICK j \in 1..Len(s) : s[j].kind = "closed"
      BY <1>2, <1>7, <2>2 DEF Closed
    <3>2. j \in 1..i - 1 /\ t[j].kind = "closed"
      BY <1>2, <2>2, <3>1
    <3>3. QED
      BY <3>2
  <2>3. QED
    BY <1>3, <2>1, <2>2
<1>8. ASSUME m.kind \notin Answers \/ Closed(s), First(s) PROVE First(t)
  <2> SUFFICES ASSUME NEW i \in 2..Len(t), t[i].kind \in Answers
               PROVE  \E j \in 1..i - 1 : t[j].kind = "closed"
    BY DEF First
  <2>1. i \in 1..Len(t) /\ (i \in 1..Len(s) => i \in 2..Len(s))
    BY <1>2
  <2>2. ASSUME i \in 1..Len(s) PROVE \E j \in 1..i - 1 : s[j].kind = "closed"
    BY <1>2, <1>8, <2>1, <2>2 DEF First
  <2>3. QED
    BY <1>7, <1>8, <2>1, <2>2
<1>9. ASSUME m.kind \notin Answers \/ Closed(s), Clean(s) PROVE Clean(t)
  <2> SUFFICES ASSUME NEW i \in 1..Len(t), t[i].kind \in Answers
               PROVE  \E j \in 1..i - 1 : t[j].kind = "closed"
    BY DEF Clean
  <2>1. ASSUME i \in 1..Len(s) PROVE \E j \in 1..i - 1 : s[j].kind = "closed"
    BY <1>2, <1>9, <2>1 DEF Clean
  <2>2. QED
    BY <1>7, <1>9, <2>1
<1>10. s = <<>> => First(t)
  <2> SUFFICES ASSUME s = <<>>, NEW i \in 2..Len(t) PROVE FALSE
    BY DEF First
  <2>1. QED
    BY <1>2
<1>11. QED
  BY <1>1, <1>2, <1>4, <1>5, <1>6, <1>8, <1>9, <1>10

\* A clean channel needs nobody who waits.
LEMMA CleanFirst == ASSUME NEW s \in Seq(PduType), Clean(s) PROVE First(s)
<1>1. \A i \in 2..Len(s) : i \in 1..Len(s)
  BY LenProperties
<1>2. QED
  BY <1>1 DEF Clean, First

\* The connection alone, when nothing travels.
LEMMA QuietChan ==
  ASSUME TypeIInv, ChanInv, UNCHANGED <<connected, chan>>,
         \A p \in Node : connected[p] /\ Expects(p) => Expects(p)'
  PROVE  ChanInv'
<1>1. BothClosed'
  BY DEF ChanInv, BothClosed
<1>2. Awaited'
  BY DEF ChanInv, Awaited
<1>3. Balance'
  <2> SUFFICES ASSUME NEW p \in Node, connected[p], connected[Peer(p)],
                      ~Closed(chan[p]), ~Closed(chan[Peer(p)])
               PROVE  Len(chan[p]) + Len(chan[Peer(p)]) <= Weight(p)' + Weight(Peer(p))'
    BY DEF Balance, Weight, Expects
  <2>1. Len(chan[p]) + Len(chan[Peer(p)]) <= Weight(p) + Weight(Peer(p))
    BY DEF ChanInv, Balance
  <2>2. Weight(p) <= Weight(p)' /\ Weight(Peer(p)) <= Weight(Peer(p))'
    BY Peers DEF Weight
  <2>3. Weight(p) \in Nat /\ Weight(p)' \in Nat /\ Weight(Peer(p)) \in Nat /\ Weight(Peer(p))' \in Nat
    BY DEF Weight
  <2>4. chan[p] \in Seq(PduType) /\ chan[Peer(p)] \in Seq(PduType)
    BY Peers DEF TypeIInv, LinkTypes
  <2>5. Len(chan[p]) \in Nat /\ Len(chan[Peer(p)]) \in Nat
    BY <2>4, LenProperties
  <2>6. ASSUME NEW a \in Nat, NEW b \in Nat, NEW c \in Nat, NEW d \in Nat, a + b <= c + d,
               NEW e \in Nat, NEW f \in Nat, c <= e, d <= f
        PROVE  a + b <= e + f
    BY <2>6
  <2> HIDE DEF Weight
  <2>7. QED
    BY <2>1, <2>2, <2>3, <2>5, <2>6
<1>4. QED
  BY <1>1, <1>2, <1>3 DEF ChanInv

\* What has to be shown of a step of p, q being its peer.
LEMMA ChanStep ==
  ASSUME NEW p \in Node, NEW q \in Node, q = Peer(p), chan' \in [Node -> Seq(PduType)],
         connected'[p] /\ connected'[q] => (Closed(chan'[p]) <=> Closed(chan'[q])),
         connected'[p] /\ connected'[q] /\ ~Closed(chan'[p]) /\ ~Closed(chan'[q])
           => Len(chan'[p]) + Len(chan'[q])
                <= (IF Expects(p)' THEN 1 ELSE 0) + (IF Expects(q)' THEN 1 ELSE 0),
         connected'[p] => First(chan'[p]) /\ (Expects(p)' \/ Clean(chan'[p])),
         connected'[q] => First(chan'[q]) /\ (Expects(q)' \/ Clean(chan'[q]))
  PROVE  ChanInv'
<1>1. Peer(q) = p /\ \A n \in Node : n = p \/ n = q
  BY Peers
<1>2. BothClosed'
  BY <1>1 DEF BothClosed
<1>3. Awaited'
  <2>1. ASSUME NEW n \in Node, connected'[n]
        PROVE  First(chan'[n]) /\ (Expects(n)' \/ Clean(chan'[n]))
    <3>1. CASE n = p
      BY <2>1, <3>1
    <3>2. CASE n = q
      BY <2>1, <3>2
    <3>3. QED
      BY <1>1, <3>1, <3>2
  <2>2. QED
    BY <2>1 DEF Awaited
<1>4. Balance'
  <2>1. chan'[p] \in Seq(PduType) /\ chan'[q] \in Seq(PduType)
    OBVIOUS
  <2>2. Len(chan'[p]) \in Nat /\ Len(chan'[q]) \in Nat
    BY <2>1, LenProperties
  <2>3. Weight(p)' = (IF Expects(p)' THEN 1 ELSE 0) /\ Weight(q)' = (IF Expects(q)' THEN 1 ELSE 0)
        /\ Weight(p)' \in Nat /\ Weight(q)' \in Nat
    BY DEF Weight
  <2>4. ASSUME connected'[p], connected'[q], ~Closed(chan'[p]), ~Closed(chan'[q])
        PROVE  /\ Len(chan'[p]) + Len(chan'[q]) <= Weight(p)' + Weight(q)'
               /\ Len(chan'[q]) + Len(chan'[p]) <= Weight(q)' + Weight(p)'
    <3>1. Len(chan'[p]) + Len(chan'[q])
            <= (IF Expects(p)' THEN 1 ELSE 0) + (IF Expects(q)' THEN 1 ELSE 0)
      BY <2>4
    <3>2. Len(chan'[p]) + Len(chan'[q]) <= Weight(p)' + Weight(q)'
      BY <2>3, <3>1
    <3> HIDE DEF Weight
    <3>3. ASSUME NEW a \in Nat, NEW b \in Nat, NEW c \in Nat, NEW d \in Nat, a + b <= c + d
          PROVE  b + a <= d + c
      BY <3>3
    <3>4. QED
      BY <2>2, <2>3, <3>2, <3>3
  <2>5. ASSUME NEW n \in Node, connected'[n], connected'[Peer(n)], ~Closed(chan'[n]), ~Closed(chan'[Peer(n)])
        PROVE  Len(chan'[n]) + Len(chan'[Peer(n)]) <= Weight(n)' + Weight(Peer(n))'
    <3>1. CASE n = p
      BY <2>4, <2>5, <3>1
    <3>2. CASE n = q
      BY <1>1, <2>4, <2>5, <3>2
    <3>3. QED
      BY <1>1, <3>1, <3>2
  <2>6. QED
    BY <2>5 DEF Balance
<1>5. QED
  BY <1>2, <1>3, <1>4 DEF ChanInv

\* What holds before it.
LEMMA ChanFacts ==
  ASSUME TypeIInv, ChanInv, NEW p \in Node, NEW q \in Node, q = Peer(p)
  PROVE  /\ chan[p] \in Seq(PduType) /\ chan[q] \in Seq(PduType)
         /\ connected[p] /\ connected[q] => (Closed(chan[p]) <=> Closed(chan[q]))
         /\ connected[p] /\ connected[q] /\ ~Closed(chan[p]) /\ ~Closed(chan[q])
              => Len(chan[p]) + Len(chan[q])
                   <= (IF Expects(p) THEN 1 ELSE 0) + (IF Expects(q) THEN 1 ELSE 0)
         /\ connected[p] => First(chan[p]) /\ (Expects(p) \/ Clean(chan[p]))
         /\ connected[q] => First(chan[q]) /\ (Expects(q) \/ Clean(chan[q]))
<1>1. Peer(q) = p
  BY Peers
<1>2. chan[p] \in Seq(PduType) /\ chan[q] \in Seq(PduType)
  BY DEF TypeIInv, LinkTypes
<1>3. QED
  BY <1>1, <1>2 DEF ChanInv, BothClosed, Balance, Awaited, Weight

\* p sends a slice and waits for the answer.
LEMMA SendChan ==
  ASSUME TypeIInv, ChanInv, NEW p \in Node, NEW q \in Node, q = Peer(p), NEW m \in PduType,
         m.kind \notin Answers, m.kind # "closed",
         connected' = connected, chan' \in [Node -> Seq(PduType)], chan'[p] = chan[p],
         chan'[q] = IF connected[q] THEN Append(chan[q], m) ELSE chan[q],
         ~Expects(p), Expects(p)', Expects(q)' <=> Expects(q)
  PROVE  ChanInv'
<1>1. /\ chan[p] \in Seq(PduType) /\ chan[q] \in Seq(PduType)
      /\ connected[p] /\ connected[q] => (Closed(chan[p]) <=> Closed(chan[q]))
      /\ connected[p] /\ connected[q] /\ ~Closed(chan[p]) /\ ~Closed(chan[q])
           => Len(chan[p]) + Len(chan[q])
                <= (IF Expects(p) THEN 1 ELSE 0) + (IF Expects(q) THEN 1 ELSE 0)
      /\ connected[p] => First(chan[p]) /\ (Expects(p) \/ Clean(chan[p]))
      /\ connected[q] => First(chan[q]) /\ (Expects(q) \/ Clean(chan[q]))
  BY ChanFacts
<1>2. Len(chan[p]) \in Nat
  BY <1>1, LenProperties
<1>3. /\ Closed(Append(chan[q], m)) <=> Closed(chan[q])
      /\ First(chan[q]) => First(Append(chan[q], m))
      /\ Clean(chan[q]) => Clean(Append(chan[q], m))
      /\ Len(Append(chan[q], m)) = Len(chan[q]) + 1 /\ Len(chan[q]) \in Nat
  BY <1>1, AppendOrder
<1>4. connected'[p] /\ connected'[q] => (Closed(chan'[p]) <=> Closed(chan'[q]))
  BY <1>1, <1>3
<1>5. ASSUME connected'[p], connected'[q], ~Closed(chan'[p]), ~Closed(chan'[q])
      PROVE  Len(chan'[p]) + Len(chan'[q]) <= (IF Expects(p)' THEN 1 ELSE 0) + (IF Expects(q)' THEN 1 ELSE 0)
  <2>1. Len(chan[p]) + Len(chan[q]) <= 0 + (IF Expects(q) THEN 1 ELSE 0)
    BY <1>1, <1>3, <1>5
  <2>2. Len(chan'[p]) = Len(chan[p]) /\ Len(chan'[q]) = Len(chan[q]) + 1
    BY <1>3, <1>5
  <2>3. PICK w \in Nat : w = (IF Expects(q) THEN 1 ELSE 0)
    OBVIOUS
  <2>4. (IF Expects(p)' THEN 1 ELSE 0) = 1 /\ (IF Expects(q)' THEN 1 ELSE 0) = w
    BY <2>3
  <2>5. Len(chan[p]) + Len(chan[q]) <= 0 + w
    BY <2>1, <2>3
  <2>6. ASSUME NEW a \in Nat, NEW b \in Nat, NEW c \in Nat, a + b <= 0 + c PROVE a + (b + 1) <= 1 + c
    BY <2>6
  <2>7. Len(chan'[p]) + Len(chan'[q]) <= 1 + w
    BY <1>2, <1>3, <2>2, <2>5, <2>6
  <2>8. QED
    BY <2>4, <2>7
<1>6. connected'[p] => First(chan'[p]) /\ (Expects(p)' \/ Clean(chan'[p]))
  BY <1>1
<1>7. connected'[q] => First(chan'[q]) /\ (Expects(q)' \/ Clean(chan'[q]))
  BY <1>1, <1>3
<1>8. QED
  BY <1>4, <1>5, <1>6, <1>7, ChanStep

\* p reads a PDU, whatever it was waiting for.
LEMMA TakeChan ==
  ASSUME TypeIInv, ChanInv, NEW p \in Node, NEW q \in Node, q = Peer(p),
         chan[p] # <<>>, Head(chan[p]).kind # "closed",
         connected' = connected, chan' \in [Node -> Seq(PduType)], chan'[p] = Tail(chan[p]), chan'[q] = chan[q],
         Expects(q)' <=> Expects(q)
  PROVE  ChanInv'
<1>1. /\ chan[p] \in Seq(PduType) /\ chan[q] \in Seq(PduType)
      /\ connected[p] /\ connected[q] => (Closed(chan[p]) <=> Closed(chan[q]))
      /\ connected[p] /\ connected[q] /\ ~Closed(chan[p]) /\ ~Closed(chan[q])
           => Len(chan[p]) + Len(chan[q])
                <= (IF Expects(p) THEN 1 ELSE 0) + (IF Expects(q) THEN 1 ELSE 0)
      /\ connected[p] => First(chan[p]) /\ (Expects(p) \/ Clean(chan[p]))
      /\ connected[q] => First(chan[q]) /\ (Expects(q) \/ Clean(chan[q]))
  BY ChanFacts
<1>2. Len(chan[q]) \in Nat
  BY <1>1, LenProperties
<1>3. /\ Closed(Tail(chan[p])) <=> Closed(chan[p])
      /\ First(chan[p]) => Clean(Tail(chan[p]))
      /\ Len(Tail(chan[p])) + 1 = Len(chan[p]) /\ Len(Tail(chan[p])) \in Nat
  BY <1>1, TailOrder
<1>4. connected'[p] /\ connected'[q] => (Closed(chan'[p]) <=> Closed(chan'[q]))
  BY <1>1, <1>3
<1>5. ASSUME connected'[p], connected'[q], ~Closed(chan'[p]), ~Closed(chan'[q])
      PROVE  Len(chan'[p]) + Len(chan'[q]) <= (IF Expects(p)' THEN 1 ELSE 0) + (IF Expects(q)' THEN 1 ELSE 0)
  <2>1. Len(chan[p]) + Len(chan[q]) <= (IF Expects(p) THEN 1 ELSE 0) + (IF Expects(q) THEN 1 ELSE 0)
    BY <1>1, <1>3, <1>5
  <2>2. Len(chan'[p]) + 1 = Len(chan[p]) /\ Len(chan'[q]) = Len(chan[q]) /\ Len(chan'[p]) \in Nat
    BY <1>3
  <2>3. PICK v \in Nat : v = (IF Expects(p) THEN 1 ELSE 0)
    OBVIOUS
  <2>4. PICK w \in Nat : w = (IF Expects(q) THEN 1 ELSE 0)
    OBVIOUS
  <2>5. PICK z \in Nat : z = (IF Expects(p)' THEN 1 ELSE 0)
    OBVIOUS
  <2>6. (IF Expects(q)' THEN 1 ELSE 0) = w
    BY <2>4
  <2>7. Len(chan[p]) + Len(chan[q]) <= v + w
    BY <2>1, <2>3, <2>4
  <2>8. v <= 1
    BY <2>3
  <2>9. ASSUME NEW a \in Nat, NEW b \in Nat, NEW c \in Nat, NEW d \in Nat, NEW e \in Nat, NEW f \in Nat,
               a + b <= c + d, e + 1 = a, c <= 1
        PROVE  e + b <= f + d
    BY <2>9
  <2>10. PICK a : a = Len(chan[p])
    OBVIOUS
  <2>11. PICK b : b = Len(chan[q])
    OBVIOUS
  <2>12. PICK e : e = Len(chan'[p])
    OBVIOUS
  <2>13. a \in Nat /\ b \in Nat /\ e \in Nat /\ e + 1 = a /\ a + b <= v + w
    <3>1. e \in Nat /\ e + 1 = a
      BY <2>2, <2>10, <2>12, Zenon
    <3>2. a \in Nat
      BY <3>1
    <3>3. b \in Nat
      BY <1>2, <2>11, Zenon
    <3>4. a + b <= v + w
      BY <2>7, <2>10, <2>11, Zenon
    <3>5. QED
      BY <3>1, <3>2, <3>3, <3>4
  <2>14. e + b <= z + w
    BY <2>8, <2>9, <2>13
  <2>15. Len(chan'[p]) + Len(chan'[q]) <= z + w
    BY <2>2, <2>11, <2>12, <2>14
  <2>16. QED
    BY <2>5, <2>6, <2>15
<1>6. connected'[p] => First(chan'[p]) /\ (Expects(p)' \/ Clean(chan'[p]))
  <2>1. Tail(chan[p]) \in Seq(PduType)
    BY <1>1, HeadTailProperties
  <2>2. Clean(Tail(chan[p])) => First(Tail(chan[p]))
    BY <2>1, CleanFirst
  <2>3. QED
    BY <1>1, <1>3, <2>2
<1>7. connected'[q] => First(chan'[q]) /\ (Expects(q)' \/ Clean(chan'[q]))
  BY <1>1
<1>8. QED
  BY <1>4, <1>5, <1>6, <1>7, ChanStep

\* p reads one and sends one, an answer only if it waits for none itself.
LEMMA TakeSendChan ==
  ASSUME TypeIInv, ChanInv, NEW p \in Node, NEW q \in Node, q = Peer(p), NEW m \in PduType,
         chan[p] # <<>>, Head(chan[p]).kind # "closed", m.kind # "closed",
         m.kind \in Answers => ~Expects(p) /\ connected[p],
         connected' = connected, chan' \in [Node -> Seq(PduType)], chan'[p] = Tail(chan[p]),
         chan'[q] = IF connected[q] THEN Append(chan[q], m) ELSE chan[q],
         Expects(p) => Expects(p)', Expects(q)' <=> Expects(q)
  PROVE  ChanInv'
<1>1. /\ chan[p] \in Seq(PduType) /\ chan[q] \in Seq(PduType)
      /\ connected[p] /\ connected[q] => (Closed(chan[p]) <=> Closed(chan[q]))
      /\ connected[p] /\ connected[q] /\ ~Closed(chan[p]) /\ ~Closed(chan[q])
           => Len(chan[p]) + Len(chan[q])
                <= (IF Expects(p) THEN 1 ELSE 0) + (IF Expects(q) THEN 1 ELSE 0)
      /\ connected[p] => First(chan[p]) /\ (Expects(p) \/ Clean(chan[p]))
      /\ connected[q] => First(chan[q]) /\ (Expects(q) \/ Clean(chan[q]))
  BY ChanFacts
<1>2. /\ Closed(Tail(chan[p])) <=> Closed(chan[p])
      /\ First(chan[p]) => Clean(Tail(chan[p]))
      /\ Len(Tail(chan[p])) + 1 = Len(chan[p]) /\ Len(Tail(chan[p])) \in Nat
  BY <1>1, TailOrder
<1>3. /\ Closed(Append(chan[q], m)) <=> Closed(chan[q])
      /\ m.kind \notin Answers \/ Closed(chan[q]) =>
           /\ First(chan[q]) => First(Append(chan[q], m))
           /\ Clean(chan[q]) => Clean(Append(chan[q], m))
      /\ chan[q] = <<>> => First(Append(chan[q], m))
      /\ Len(Append(chan[q], m)) = Len(chan[q]) + 1 /\ Len(chan[q]) \in Nat
  BY <1>1, AppendOrder
<1>4. connected'[p] /\ connected'[q] => (Closed(chan'[p]) <=> Closed(chan'[q]))
  BY <1>1, <1>2, <1>3
<1>5. ASSUME connected'[p], connected'[q], ~Closed(chan'[p]), ~Closed(chan'[q])
      PROVE  Len(chan'[p]) + Len(chan'[q]) <= (IF Expects(p)' THEN 1 ELSE 0) + (IF Expects(q)' THEN 1 ELSE 0)
  <2>1. Len(chan[p]) + Len(chan[q]) <= (IF Expects(p) THEN 1 ELSE 0) + (IF Expects(q) THEN 1 ELSE 0)
    BY <1>1, <1>2, <1>3, <1>5
  <2>2. Len(chan'[p]) + 1 = Len(chan[p]) /\ Len(chan'[q]) = Len(chan[q]) + 1 /\ Len(chan'[p]) \in Nat
    BY <1>2, <1>3, <1>5
  <2>3. PICK v \in Nat : v = (IF Expects(p) THEN 1 ELSE 0)
    OBVIOUS
  <2>4. PICK w \in Nat : w = (IF Expects(q) THEN 1 ELSE 0)
    OBVIOUS
  <2>5. PICK z \in Nat : z = (IF Expects(p)' THEN 1 ELSE 0)
    OBVIOUS
  <2>6. (IF Expects(q)' THEN 1 ELSE 0) = w
    BY <2>4
  <2>7. Len(chan[p]) + Len(chan[q]) <= v + w
    BY <2>1, <2>3, <2>4
  <2>8. v <= z
    BY <2>3, <2>5
  <2>9. ASSUME NEW a \in Nat, NEW b \in Nat, NEW c \in Nat, NEW d \in Nat, NEW e \in Nat, NEW f \in Nat,
               a + b <= c + d, e + 1 = a, c <= f
        PROVE  e + (b + 1) <= f + d
    BY <2>9
  <2>10. PICK a : a = Len(chan[p])
    OBVIOUS
  <2>11. PICK b : b = Len(chan[q])
    OBVIOUS
  <2>12. PICK e : e = Len(chan'[p])
    OBVIOUS
  <2>13. a \in Nat /\ b \in Nat /\ e \in Nat /\ e + 1 = a /\ a + b <= v + w
    <3>1. e \in Nat /\ e + 1 = a
      BY <2>2, <2>10, <2>12, Zenon
    <3>2. a \in Nat
      BY <3>1
    <3>3. b \in Nat
      BY <1>3, <2>11, Zenon
    <3>4. a + b <= v + w
      BY <2>7, <2>10, <2>11, Zenon
    <3>5. QED
      BY <3>1, <3>2, <3>3, <3>4
  <2>14. e + (b + 1) <= z + w
    BY <2>8, <2>9, <2>13
  <2>15. Len(chan'[p]) + Len(chan'[q]) <= z + w
    BY <2>2, <2>11, <2>12, <2>14
  <2>16. QED
    BY <2>5, <2>6, <2>15
<1>6. connected'[p] => First(chan'[p]) /\ (Expects(p)' \/ Clean(chan'[p]))
  <2>1. Tail(chan[p]) \in Seq(PduType)
    BY <1>1, HeadTailProperties
  <2>2. Clean(Tail(chan[p])) => First(Tail(chan[p]))
    BY <2>1, CleanFirst
  <2>3. QED
    BY <1>1, <1>2, <2>2
<1>7. ASSUME connected'[q] PROVE First(chan'[q]) /\ (Expects(q)' \/ Clean(chan'[q]))
  <2>1. CASE m.kind \notin Answers \/ Closed(chan[q])
    BY <1>1, <1>3, <1>7, <2>1
  <2>2. CASE m.kind \in Answers /\ ~Closed(chan[q])
    <3>1. connected[p] /\ connected[q] /\ ~Closed(chan[p]) /\ ~Expects(p)
      BY <1>1, <1>7, <2>2
    <3>2. Len(chan[p]) + Len(chan[q]) <= 0 + (IF Expects(q) THEN 1 ELSE 0)
      BY <1>1, <2>2, <3>1
    <3>3. Expects(q) /\ Len(chan[q]) = 0
      <4>1. PICK e : e = Len(Tail(chan[p]))
        OBVIOUS
      <4>2. e \in Nat /\ Len(chan[p]) = e + 1
        BY <1>2, <4>1
      <4>3. PICK k : k = Len(chan[q])
        OBVIOUS
      <4>4. k \in Nat
        BY <1>3, <4>3
      <4>5. (e + 1) + k <= 0 + (IF Expects(q) THEN 1 ELSE 0)
        BY <3>2, <4>2, <4>3
      <4>6. Expects(q)
        <5>1. ASSUME ~Expects(q) PROVE FALSE
          <6>1. (e + 1) + k <= 0
            BY <4>5, <5>1
          <6>2. QED
            BY <4>2, <4>4, <6>1
        <5>2. QED
          BY <5>1
      <4>7. (e + 1) + k <= 1
        BY <4>5, <4>6
      <4>8. k = 0
        BY <4>2, <4>4, <4>7
      <4>9. QED
        BY <4>3, <4>6, <4>8
    <3>4. chan[q] = <<>>
      BY <1>1, <3>3, EmptySeq
    <3>5. QED
      BY <1>3, <1>7, <3>3, <3>4
  <2>3. QED
    BY <2>1, <2>2
<1>8. QED
  BY <1>4, <1>5, <1>6, <1>7, ChanStep

\* p is without connection; its peer keeps what has been sent, and may be told.
LEMMA LeaveChan ==
  ASSUME TypeIInv, ChanInv, NEW p \in Node, NEW q \in Node, q = Peer(p),
         ~connected'[p], connected'[q] = connected[q], chan' \in [Node -> Seq(PduType)],
         chan'[q] = chan[q] \/ chan'[q] = Append(chan[q], Pdu("closed")),
         Expects(q)' <=> Expects(q)
  PROVE  ChanInv'
<1>1. /\ chan[q] \in Seq(PduType)
      /\ connected[q] => First(chan[q]) /\ (Expects(q) \/ Clean(chan[q]))
  BY ChanFacts
<1>2. Pdu("closed") \in PduType /\ Pdu("closed").kind = "closed"
  BY PduTypes
<1>3. PICK m \in PduType : m = Pdu("closed")
  BY <1>2
<1>4. m.kind \notin Answers
  BY <1>2, <1>3 DEF Answers
<1>5. /\ First(chan[q]) => First(Append(chan[q], m))
      /\ Clean(chan[q]) => Clean(Append(chan[q], m))
  BY <1>1, <1>4, AppendOrder
<1>6. connected'[q] => First(chan'[q]) /\ (Expects(q)' \/ Clean(chan'[q]))
  BY <1>1, <1>3, <1>5
<1>7. QED
  BY <1>6, ChanStep

-----------------------------------------------------------------------------
(* Nobody reads an answer he does not wait for.                            *)

\* Both have just been started.
LEMMA InitAnswers == ASSUME Init PROVE AnswerIInv
<1>1. TypeIInv
  BY InitTypes
<1>2. \A p \in Node : connected[p] /\ result[p] /\ worker[p] = "execute" /\ chan[p] = <<>>
  BY DEF Init
<1>3. Failed
  BY <1>2 DEF Failed
<1>4. ~Closed(<<>>) /\ First(<<>>) /\ Clean(<<>>) /\ Len(<<>>) = 0
  BY DEF Closed, First, Clean
<1>5. BothClosed /\ Awaited
  BY <1>2, <1>4, Peers DEF BothClosed, Awaited
<1>6. Balance
  <2> SUFFICES ASSUME NEW p \in Node
               PROVE  Len(chan[p]) + Len(chan[Peer(p)]) <= Weight(p) + Weight(Peer(p))
    BY DEF Balance
  <2>1. Len(chan[p]) = 0 /\ Len(chan[Peer(p)]) = 0
    BY <1>2, <1>4, Peers
  <2>2. Weight(p) = 0 /\ Weight(Peer(p)) = 0
    BY <1>2, Peers DEF Weight, Expects, Answers, Fault, ErrorUnread
  <2>3. QED
    BY <2>1, <2>2
<1>7. QED
  BY <1>1, <1>3, <1>5, <1>6 DEF AnswerIInv, ChanInv

\* A worker that does something else than deal with a failure has a connection, or
\* is about to make one.
LEMMA WellConnected ==
  ASSUME Failed, NEW p \in Node, worker[p] \notin {"notify", "report", "check"}
  PROVE  /\ result[p]
         /\ ~ErrorUnread(p) => ~Fault(p) /\ (worker[p] \notin {"connect", "stopped"} => connected[p])
         /\ worker[p] \notin {"loop", "over"} => ~ErrorUnread(p)
  BY DEF Failed, Fault, ErrorUnread

\* A worker's step is its own, and no application's.
LEMMA Alone ==
  ASSUME TypeIInv, NEW p \in Node, NEW q \in Node, q = Peer(p), Worker(p) \/ Stop(p) \/ Start(p)
  PROVE  /\ worker'[q] = worker[q] /\ result'[q] = result[q] /\ lastError'[q] = lastError[q]
         /\ Expects(q)' <=> Expects(q)
         /\ Fault(q)' <=> Fault(q)
<1>1. /\ worker \in [Node -> Places] /\ result \in [Node -> BOOLEAN] /\ lastError \in [Node -> {"ok", "error"}]
      /\ q # p
  BY Peers DEF TypeIInv, ThreadTypes, FieldTypes
<1>2. ASSUME NEW f, NEW v PROVE Set(f, p, v) = [f EXCEPT ![p] = v]
  BY DEF Set
<1>3. /\ \A v : Set(worker, p, v)[q] = worker[q]
      /\ \A v : Set(result, p, v)[q] = result[q]
      /\ \A v : Set(lastError, p, v)[q] = lastError[q]
  BY <1>1 DEF Set
<1>4. worker' = worker \/ \E v : worker' = Set(worker, p, v)
  <2>1. CASE \/ StartSend(p) \/ SkipSend(p) \/ NextSlice(p) \/ SliceFails(p) \/ RecvAck(p) \/ AckFails(p)
             \/ LoopBreaks(p) \/ SendResult(p) \/ SendDone(p) \/ NothingToRead(p) \/ RecvClosed(p)
    BY <2>1 DEF StartSend, SkipSend, NextSlice, SliceFails, RecvAck, AckFails, LoopBreaks, SendResult, SendDone,
                NothingToRead, RecvClosed, WorkerGoes
  <2>2. CASE \/ RecvConnect(p) \/ RecvNegotiate(p) \/ Link(p) \/ RecvSlice(p) \/ PickRefused(p) \/ PickResult(p)
             \/ RecvReport(p) \/ Check(p) \/ CheckTimeout(p)
    BY <2>2 DEF RecvConnect, RecvNegotiate, Link, RecvSlice, PickRefused, PickResult, RecvReport, Check,
                CheckTimeout, LeaveOrKeep, WorkerGoes
  <2>3. CASE \/ p = "active" /\ (Connect \/ ConnectConfirmed \/ ConnectNegotiated \/ ConnectFailed \/ PingFails)
             \/ (p = "passive" /\ Accepted) \/ Stop(p) \/ Start(p)
    BY <2>3 DEF Connect, ConnectConfirmed, ConnectNegotiated, ConnectFailed, PingFails, Accepted, Stop, Start,
                WorkerGoes
  <2>4. QED
    BY <2>1, <2>2, <2>3 DEF Worker
<1>5. result' = result \/ \E v : result' = Set(result, p, v)
  <2>1. CASE \/ StartSend(p) \/ SkipSend(p) \/ NextSlice(p) \/ SliceFails(p) \/ RecvAck(p) \/ AckFails(p)
             \/ LoopBreaks(p) \/ SendResult(p) \/ SendDone(p) \/ NothingToRead(p) \/ RecvClosed(p)
    BY <2>1 DEF StartSend, SkipSend, NextSlice, SliceFails, RecvAck, AckFails, LoopBreaks, SendResult, SendDone,
                NothingToRead, RecvClosed
  <2>2. CASE \/ RecvConnect(p) \/ RecvNegotiate(p) \/ Link(p) \/ RecvSlice(p) \/ PickRefused(p) \/ PickResult(p)
             \/ RecvReport(p) \/ Check(p) \/ CheckTimeout(p)
    BY <2>2 DEF RecvConnect, RecvNegotiate, Link, RecvSlice, PickRefused, PickResult, RecvReport, Check,
                CheckTimeout, LeaveOrKeep
  <2>3. CASE \/ p = "active" /\ (Connect \/ ConnectConfirmed \/ ConnectNegotiated \/ ConnectFailed \/ PingFails)
             \/ (p = "passive" /\ Accepted) \/ Stop(p) \/ Start(p)
    BY <2>3 DEF Connect, ConnectConfirmed, ConnectNegotiated, ConnectFailed, PingFails, Accepted, Stop, Start
  <2>4. QED
    BY <2>1, <2>2, <2>3 DEF Worker
<1>6. lastError' = lastError \/ \E v : lastError' = Set(lastError, p, v)
  <2>1. CASE \/ StartSend(p) \/ SkipSend(p) \/ NextSlice(p) \/ SliceFails(p) \/ RecvAck(p) \/ AckFails(p)
             \/ LoopBreaks(p) \/ SendResult(p) \/ SendDone(p) \/ NothingToRead(p) \/ RecvClosed(p)
    BY <2>1 DEF StartSend, SkipSend, NextSlice, SliceFails, RecvAck, AckFails, LoopBreaks, SendResult, SendDone,
                NothingToRead, RecvClosed
  <2>2. CASE \/ RecvConnect(p) \/ RecvNegotiate(p) \/ Link(p) \/ RecvSlice(p) \/ PickRefused(p) \/ PickResult(p)
             \/ RecvReport(p) \/ Check(p) \/ CheckTimeout(p)
    BY <2>2 DEF RecvConnect, RecvNegotiate, Link, RecvSlice, PickRefused, PickResult, RecvReport, Check,
                CheckTimeout
  <2>3. CASE \/ p = "active" /\ (Connect \/ ConnectConfirmed \/ ConnectNegotiated \/ ConnectFailed \/ PingFails)
             \/ (p = "passive" /\ Accepted) \/ Stop(p) \/ Start(p)
    BY <2>3 DEF Connect, ConnectConfirmed, ConnectNegotiated, ConnectFailed, PingFails, Accepted, Stop, Start
  <2>4. QED
    BY <2>1, <2>2, <2>3 DEF Worker
<1>7. worker'[q] = worker[q] /\ result'[q] = result[q] /\ lastError'[q] = lastError[q]
  BY <1>3, <1>4, <1>5, <1>6
<1>8. QED
  BY <1>7 DEF Expects, Fault, ErrorUnread

\* Where a worker's step may leave it.
LEMMA FailedStep ==
  ASSUME Failed, NEW p \in Node, NEW q \in Node, q = Peer(p),
         worker'[q] = worker[q], result'[q] = result[q], Fault(q)' <=> Fault(q), connected[q] => connected'[q],
         ~result'[p] => worker'[p] \in {"notify", "report", "check"},
         ~connected'[p] => worker'[p] \in {"connect", "stopped"} \/ Fault(p)'
  PROVE  Failed'
<1>1. \A n \in Node : n = p \/ n = q
  BY Peers
<1>2. QED
  BY <1>1 DEF Failed

\* A worker's step that touches no channel.
LEMMA QuietAnswers ==
  ASSUME AnswerIInv, NEW p \in Node, Worker(p) \/ Start(p), UNCHANGED <<connected, chan>>,
         connected[p] /\ Expects(p) => Expects(p)',
         ~result'[p] => worker'[p] \in {"notify", "report", "check"},
         ~connected[p] => worker'[p] \in {"connect", "stopped"} \/ Fault(p)'
  PROVE  Failed' /\ ChanInv'
<1>1. PICK q : q = Peer(p)
  OBVIOUS
<1>2. TypeIInv /\ Failed /\ ChanInv /\ q \in Node /\ \A n \in Node : n = p \/ n = q
  BY <1>1, Peers DEF AnswerIInv
<1>3. worker'[q] = worker[q] /\ result'[q] = result[q] /\ (Expects(q)' <=> Expects(q)) /\ (Fault(q)' <=> Fault(q))
  BY <1>1, <1>2, Alone
<1>4. \A n \in Node : connected[n] /\ Expects(n) => Expects(n)'
  BY <1>2, <1>3
<1>5. ChanInv'
  BY <1>2, <1>4, QuietChan
<1>6. Failed'
  BY <1>1, <1>2, <1>3, FailedStep
<1>7. QED
  BY <1>5, <1>6

\* ... from where there was no failure.
LEMMA CalmAnswers ==
  ASSUME AnswerIInv, NEW p \in Node, StartSend(p) \/ SkipSend(p) \/ NothingToRead(p) \/ Link(p) \/ PickResult(p)
  PROVE  Failed' /\ ChanInv'
<1>1. TypeIInv /\ Failed
  BY DEF AnswerIInv
<1>2. worker[p] \in {"execute", "recv", "linking", "picked"} /\ UNCHANGED <<connected, chan>> /\ Worker(p)
  BY DEF StartSend, SkipSend, NothingToRead, Link, PickResult, WorkerGoes, linkVars, Worker
<1>3. result[p] /\ connected[p] /\ ~Expects(p)
  BY <1>1, <1>2, WellConnected DEF Expects, Answers
<1>4. ~result'[p] => worker'[p] \in {"notify", "report", "check"}
  <2>1. CASE StartSend(p) \/ SkipSend(p) \/ NothingToRead(p)
    BY <1>3, <2>1 DEF StartSend, SkipSend, NothingToRead
  <2>2. CASE Link(p)
    BY <1>1, <2>2 DEF TypeIInv, ThreadTypes, Link, WorkerGoes, Set
  <2>3. CASE PickResult(p)
    BY <1>1, <2>3 DEF TypeIInv, ThreadTypes, PickResult, WorkerGoes, Set
  <2>4. QED
    BY <2>1, <2>2, <2>3
<1>5. QED
  BY <1>2, <1>3, <1>4, QuietAnswers

\* The end of a sequence, and of a send.
LEMMA EndAnswers == ASSUME AnswerIInv, NEW p \in Node, RecvReport(p) \/ SendDone(p) PROVE Failed' /\ ChanInv'
<1>1. TypeIInv /\ Failed /\ worker \in [Node -> Places]
  BY DEF AnswerIInv, TypeIInv, ThreadTypes
<1>2. /\ worker[p] \in {"report", "notify"} /\ UNCHANGED <<connected, chan, result>> /\ Worker(p)
      /\ ~result[p] => worker' = Set(worker, p, "check")
  BY DEF RecvReport, SendDone, WorkerGoes, linkVars, Worker
<1>3. ~result[p] => worker'[p] = "check"
  BY <1>1, <1>2 DEF Set
<1>4. Expects(p) => ~result[p]
  BY <1>2 DEF Expects, Fault, ErrorUnread, Answers
<1>5. ~connected[p] => ~result[p]
  BY <1>1, <1>2 DEF Failed, Fault, ErrorUnread
<1>6. ~result[p] => Expects(p)' /\ Fault(p)'
  BY <1>2 DEF Expects, Fault
<1>7. QED
  BY <1>2, <1>3, <1>4, <1>5, <1>6, QuietAnswers

\* The loop of BlockSend ends; an error is still the reason.
LEMMA LoopBreaksAnswers == ASSUME AnswerIInv, NEW p \in Node, LoopBreaks(p) PROVE Failed' /\ ChanInv'
<1>1. TypeIInv /\ Failed /\ worker \in [Node -> Places] /\ lastError[p] \in {"ok", "error"}
  BY DEF AnswerIInv, TypeIInv, ThreadTypes, FieldTypes
<1>2. /\ worker[p] = "loop" /\ worker' = Set(worker, p, "over") /\ lastError[p] # "ok" /\ Worker(p)
      /\ UNCHANGED <<connected, chan, result, lastError>>
  BY DEF LoopBreaks, WorkerGoes, linkVars, Worker
<1>3. worker'[p] = "over" /\ result[p]
  BY <1>1, <1>2, WellConnected DEF Set
<1>4. Fault(p)' /\ Expects(p)'
  BY <1>1, <1>2, <1>3 DEF Expects, Fault, ErrorUnread
<1>5. QED
  BY <1>2, <1>3, <1>4, QuietAnswers

\* ... becomes the result.
LEMMA SendResultAnswers == ASSUME AnswerIInv, NEW p \in Node, SendResult(p) PROVE Failed' /\ ChanInv'
<1>1. TypeIInv /\ Failed /\ worker \in [Node -> Places] /\ result \in [Node -> BOOLEAN]
  BY DEF AnswerIInv, TypeIInv, ThreadTypes
<1>2. /\ worker[p] \in {"loop", "over"} /\ worker' = Set(worker, p, "notify") /\ Worker(p)
      /\ result' = Set(result, p, lastError[p] = "ok")
      /\ UNCHANGED <<connected, chan>>
  BY DEF SendResult, linkVars, Worker
<1>3. worker'[p] = "notify" /\ result[p] /\ (result'[p] <=> lastError[p] = "ok")
  BY <1>1, <1>2, WellConnected DEF Set
<1>4. CASE lastError[p] = "ok"
  <2>1. ~ErrorUnread(p)
    BY <1>4 DEF ErrorUnread
  <2>2. connected[p] /\ ~Fault(p)
    BY <1>1, <1>2, <2>1, WellConnected
  <2>3. ~Expects(p)
    BY <1>2, <2>2 DEF Expects, Answers
  <2>4. QED
    BY <1>2, <1>3, <1>4, <2>2, <2>3, QuietAnswers
<1>5. CASE lastError[p] # "ok"
  <2>1. Fault(p)' /\ Expects(p)'
    BY <1>3, <1>5 DEF Expects, Fault
  <2>2. QED
    BY <1>2, <1>3, <2>1, QuietAnswers
<1>6. QED
  BY <1>4, <1>5

\* A slice cannot be sent.
LEMMA SliceFailsAnswers == ASSUME AnswerIInv, NEW p \in Node, SliceFails(p) PROVE Failed' /\ ChanInv'
<1>1. TypeIInv /\ Failed /\ worker \in [Node -> Places] /\ lastError \in [Node -> {"ok", "error"}]
  BY DEF AnswerIInv, TypeIInv, ThreadTypes, FieldTypes
<1>2. /\ worker[p] = "loop" /\ worker' = Set(worker, p, "loop") /\ lastError' = Set(lastError, p, "error")
      /\ UNCHANGED <<connected, chan, result>> /\ Worker(p)
  BY DEF SliceFails, WorkerGoes, linkVars, Worker
<1>3. worker'[p] = "loop" /\ lastError'[p] = "error" /\ result[p]
  BY <1>1, <1>2, WellConnected DEF Set
<1>4. Fault(p)' /\ Expects(p)'
  BY <1>3 DEF Expects, Fault, ErrorUnread
<1>5. QED
  BY <1>2, <1>3, <1>4, QuietAnswers

\* It is sent: nothing has failed so far.
LEMMA NextSliceAnswers == ASSUME AnswerIInv, NEW p \in Node, NextSlice(p) PROVE Failed' /\ ChanInv'
<1> DEFINE q == Peer(p)
           m == Slice(TxBuffer[p], sentSlices[p] + 1)
<1>1. TypeIInv /\ LinkTypes /\ Failed /\ ChanInv /\ q \in Node /\ worker \in [Node -> Places]
  BY Peers DEF AnswerIInv, TypeIInv, ThreadTypes
<1>2. /\ worker[p] = "loop" /\ worker' = Set(worker, p, "ack") /\ result' = result /\ lastError[p] = "ok"
      /\ connected' = connected /\ Worker(p)
      /\ chan' = [chan EXCEPT ![Peer(p)] = IF connected[Peer(p)] THEN Append(@, m) ELSE @]
  BY DEF NextSlice, GoesOn, WorkerGoes, Worker
<1>3. m \in PduType /\ m.kind = "slice"
  <2>1. TxBuffer[p] \in [block: 0..MaxEvents, slices: 0..MaxSlices] /\ sentSlices[p] + 1 \in 0..MaxSlices
    BY <1>1, LoopNumbers DEF NextSlice, GoesOn
  <2>2. QED
    BY <2>1, SliceTypes
<1> HIDE DEF m
<1>4. /\ chan' \in [Node -> Seq(PduType)] /\ chan'[p] = chan[p]
      /\ chan'[Peer(p)] = IF connected[Peer(p)] THEN Append(chan[Peer(p)], m) ELSE chan[Peer(p)]
  BY <1>1, <1>2, <1>3, SendLemma
<1>5. worker'[q] = worker[q] /\ result'[q] = result[q] /\ (Expects(q)' <=> Expects(q)) /\ (Fault(q)' <=> Fault(q))
  BY <1>1, <1>2, Alone
<1>6. result[p] /\ connected[p] /\ ~Fault(p) /\ worker'[p] = "ack"
  BY <1>1, <1>2, WellConnected DEF ErrorUnread, Set
<1>7. ~Expects(p) /\ Expects(p)'
  BY <1>2, <1>6 DEF Expects, Answers
<1>8. Failed'
  BY <1>1, <1>2, <1>5, <1>6, FailedStep
<1>9. ChanInv'
  BY <1>1, <1>2, <1>3, <1>4, <1>5, <1>7, SendChan DEF Answers
<1>10. QED
  BY <1>8, <1>9

\* The acknowledgement.
LEMMA RecvAckAnswers == ASSUME AnswerIInv, NEW p \in Node, RecvAck(p) PROVE Failed' /\ ChanInv'
<1> DEFINE q == Peer(p)
<1>1. TypeIInv /\ LinkTypes /\ Failed /\ ChanInv /\ q \in Node
  BY Peers DEF AnswerIInv, TypeIInv
<1>2. /\ worker[p] = "ack" /\ connected' = connected /\ chan[p] # <<>> /\ Head(chan[p]).kind # "closed"
      /\ result' = result /\ Take(p) /\ Worker(p)
  BY DEF RecvAck, WorkerGoes, Worker
<1>3. result[p] /\ connected[p]
  BY <1>1, <1>2, WellConnected
<1>4. chan' \in [Node -> Seq(PduType)] /\ chan'[p] = Tail(chan[p]) /\ chan'[Peer(p)] = chan[Peer(p)]
  BY <1>1, <1>2, TakeLemma
<1>5. worker'[q] = worker[q] /\ result'[q] = result[q] /\ (Expects(q)' <=> Expects(q)) /\ (Fault(q)' <=> Fault(q))
  BY <1>1, <1>2, Alone
<1>6. ChanInv'
  BY <1>1, <1>2, <1>4, <1>5, TakeChan
<1>7. Failed'
  BY <1>1, <1>2, <1>3, <1>5, FailedStep
<1>8. QED
  BY <1>6, <1>7

\* ... that does not come.
LEMMA AckFailsAnswers == ASSUME AnswerIInv, NEW p \in Node, AckFails(p) PROVE Failed' /\ ChanInv'
<1> DEFINE q == Peer(p)
<1>1. /\ TypeIInv /\ LinkTypes /\ Failed /\ ChanInv /\ q \in Node /\ p # q
      /\ worker \in [Node -> Places] /\ lastError \in [Node -> {"ok", "error"}]
  BY Peers DEF AnswerIInv, TypeIInv, ThreadTypes, FieldTypes
<1>2. /\ worker' = Set(worker, p, "loop") /\ result' = result /\ lastError' = Set(lastError, p, "error")
      /\ worker[p] = "ack" /\ Worker(p)
  BY DEF AckFails, WorkerGoes, Worker
<1>3. worker'[q] = worker[q] /\ result'[q] = result[q] /\ (Expects(q)' <=> Expects(q)) /\ (Fault(q)' <=> Fault(q))
  BY <1>1, <1>2, Alone
<1>4. worker'[p] = "loop" /\ lastError'[p] = "error" /\ result[p]
  BY <1>1, <1>2, WellConnected DEF Set
<1>5. Fault(p)' /\ Expects(p)'
  BY <1>4 DEF Expects, Fault, ErrorUnread
<1>6. CASE chan[p] = <<>>
  <2>1. UNCHANGED <<connected, chan>>
    BY <1>6 DEF AckFails
  <2>2. QED
    BY <1>2, <1>4, <1>5, <2>1, QuietAnswers
<1>7. CASE chan[p] # <<>>
  <2>1. Take(p) /\ connected' = Set(connected, p, FALSE)
    BY <1>7 DEF AckFails
  <2>2. chan' \in [Node -> Seq(PduType)] /\ chan'[Peer(p)] = chan[Peer(p)]
    BY <1>1, <1>7, <2>1, TakeLemma
  <2>3. ~connected'[p] /\ connected'[q] = connected[q]
    BY <1>1, <2>1 DEF LinkTypes, Set
  <2>4. Failed'
    BY <1>1, <1>2, <1>3, <1>4, <1>5, <2>3, FailedStep
  <2>5. ChanInv'
    BY <1>1, <1>3, <2>2, <2>3, LeaveChan
  <2>6. QED
    BY <2>4, <2>5
<1>8. QED
  BY <1>6, <1>7

\* The connection is found closed.
LEMMA RecvClosedAnswers == ASSUME AnswerIInv, NEW p \in Node, RecvClosed(p) PROVE Failed' /\ ChanInv'
<1> DEFINE q == Peer(p)
<1>1. /\ TypeIInv /\ LinkTypes /\ Failed /\ ChanInv /\ q \in Node /\ p # q
      /\ worker \in [Node -> Places] /\ result \in [Node -> BOOLEAN]
  BY Peers DEF AnswerIInv, TypeIInv, ThreadTypes
<1>2. /\ worker' = Set(worker, p, "check") /\ result' = Set(result, p, FALSE) /\ Worker(p)
      /\ connected' = Set(connected, p, FALSE) /\ Take(p) /\ chan[p] # <<>>
  BY DEF RecvClosed, WorkerGoes, Incoming, Worker
<1>3. worker'[q] = worker[q] /\ result'[q] = result[q] /\ (Expects(q)' <=> Expects(q)) /\ (Fault(q)' <=> Fault(q))
  BY <1>1, <1>2, Alone
<1>4. worker'[p] = "check" /\ ~result'[p]
  BY <1>1, <1>2 DEF Set
<1>5. Fault(p)'
  BY <1>4 DEF Fault
<1>6. chan' \in [Node -> Seq(PduType)] /\ chan'[Peer(p)] = chan[Peer(p)]
  BY <1>1, <1>2, TakeLemma
<1>7. ~connected'[p] /\ connected'[q] = connected[q]
  BY <1>1, <1>2 DEF LinkTypes, Set
<1>8. Failed'
  BY <1>1, <1>3, <1>4, <1>5, <1>7, FailedStep
<1>9. ChanInv'
  BY <1>1, <1>3, <1>6, <1>7, LeaveChan
<1>10. QED
  BY <1>8, <1>9

\* A request is answered, or the answer cannot be sent.
LEMMA ReplyAnswers ==
  ASSUME AnswerIInv, NEW p \in Node, RecvConnect(p) \/ RecvNegotiate(p) \/ RecvSlice(p)
  PROVE  Failed' /\ ChanInv'
<1> DEFINE q == Peer(p)
<1>1. TypeIInv /\ LinkTypes /\ Failed /\ ChanInv /\ q \in Node
  BY Peers DEF AnswerIInv, TypeIInv
<1>2. /\ worker[p] = "recv" /\ connected' = connected /\ result' = result
      /\ chan[p] # <<>> /\ Head(chan[p]).kind # "closed" /\ Worker(p)
  BY DEF RecvConnect, RecvNegotiate, RecvSlice, Incoming, WorkerGoes, Worker
<1>3. result[p] /\ connected[p] /\ ~Fault(p)
  BY <1>1, <1>2, WellConnected
<1>4. worker'[q] = worker[q] /\ result'[q] = result[q] /\ (Expects(q)' <=> Expects(q)) /\ (Fault(q)' <=> Fault(q))
  BY <1>1, <1>2, Alone
<1>5. ~Expects(p)
  BY <1>2, <1>3 DEF Expects, Answers
<1>6. Failed'
  BY <1>1, <1>2, <1>3, <1>4, FailedStep
<1>7. Take(p) \/ \E k \in Answers : TakeAndSend(p, Pdu(k))
  BY DEF RecvConnect, RecvNegotiate, RecvSlice, Answers
<1>8. CASE Take(p)
  <2>1. chan' \in [Node -> Seq(PduType)] /\ chan'[p] = Tail(chan[p]) /\ chan'[Peer(p)] = chan[Peer(p)]
    BY <1>1, <1>2, <1>8, TakeLemma
  <2>2. ChanInv'
    BY <1>1, <1>2, <1>4, <2>1, TakeChan
  <2>3. QED
    BY <1>6, <2>2
<1>9. ASSUME NEW k \in Answers, TakeAndSend(p, Pdu(k)) PROVE ChanInv'
  <2>1. PICK m \in PduType : m = Pdu(k) /\ m.kind = k
    BY PduTypes DEF Answers
  <2>2. /\ chan' \in [Node -> Seq(PduType)] /\ chan'[p] = Tail(chan[p])
        /\ chan'[Peer(p)] = IF connected[Peer(p)] THEN Append(chan[Peer(p)], m) ELSE chan[Peer(p)]
    BY <1>1, <1>2, <1>9, <2>1, TakeAndSendLemma
  <2>3. m.kind # "closed"
    BY <2>1 DEF Answers
  <2>4. QED
    BY <1>1, <1>2, <1>3, <1>4, <1>5, <2>2, <2>3, TakeSendChan
<1>10. QED
  BY <1>6, <1>7, <1>8, <1>9

\* What BlockRecv reads is no answer.
LEMMA NoAnswerRead ==
  ASSUME AnswerIInv, NEW p \in Node, worker[p] = "recv", chan[p] # <<>>
  PROVE  Head(chan[p]).kind \notin Answers
<1>1. connected[p] /\ ~Fault(p)
  BY WellConnected DEF AnswerIInv
<1>2. Clean(chan[p])
  BY <1>1 DEF AnswerIInv, ChanInv, Awaited, Expects, Answers
<1>3. chan[p] \in Seq(PduType)
  BY DEF AnswerIInv, TypeIInv, LinkTypes
<1>4. 1 \in 1..Len(chan[p]) /\ Head(chan[p]) = chan[p][1]
  BY <1>3, HeadTailProperties, EmptySeq, LenProperties
<1>5. ~ \E j \in 1..1 - 1 : chan[p][j].kind = "closed"
  OBVIOUS
<1>6. QED
  BY <1>2, <1>4, <1>5 DEF Clean

\* So that it is never refused.
LEMMA PickRefusedAnswers == ASSUME AnswerIInv, NEW p \in Node, PickRefused(p) PROVE FALSE
  BY NoAnswerRead DEF PickRefused, WorkerGoes, Incoming, Answers

\* The end of Execute.
LEMMA CheckAnswers == ASSUME AnswerIInv, NEW p \in Node, Check(p) \/ CheckTimeout(p) PROVE Failed' /\ ChanInv'
<1> DEFINE q == Peer(p)
<1>1. /\ TypeIInv /\ LinkTypes /\ Failed /\ ChanInv /\ q \in Node /\ p # q
      /\ worker \in [Node -> Places] /\ result \in [Node -> BOOLEAN]
  BY Peers DEF AnswerIInv, TypeIInv, ThreadTypes
<1>2. LeaveOrKeep(p) /\ Worker(p)
  BY DEF Check, CheckTimeout, Worker
<1>3. /\ worker[p] = "check" /\ result' = Set(result, p, TRUE)
      /\ worker' = Set(worker, p, IF connected'[p] THEN "execute" ELSE "connect")
  BY <1>2 DEF LeaveOrKeep
<1>4. worker'[q] = worker[q] /\ result'[q] = result[q] /\ (Expects(q)' <=> Expects(q)) /\ (Fault(q)' <=> Fault(q))
  BY <1>1, <1>2, Alone
<1>5. worker'[p] = (IF connected'[p] THEN "execute" ELSE "connect") /\ result'[p]
  BY <1>1, <1>3 DEF Set
<1>6. CASE ~connected[p] \/ Keeps(p)
  <2>1. UNCHANGED <<connected, chan>>
    BY <1>2, <1>6 DEF LeaveOrKeep, linkVars
  <2>2. connected[p] => ~Expects(p)
    BY <1>3, <1>6 DEF Expects, Answers, Fault, ErrorUnread, Keeps
  <2>3. QED
    BY <1>2, <1>5, <2>1, <2>2, QuietAnswers
<1>7. CASE connected[p] /\ ~Keeps(p)
  <2>1. Close(p)
    BY <1>2, <1>7 DEF LeaveOrKeep
  <2>2. /\ ~connected'[p] /\ connected'[q] = connected[q] /\ chan' \in [Node -> Seq(PduType)]
        /\ chan'[q] = chan[q] \/ chan'[q] = Append(chan[q], Pdu("closed"))
    BY <1>1, <2>1, CloseLemma
  <2>3. Failed'
    BY <1>1, <1>4, <1>5, <2>2, FailedStep
  <2>4. ChanInv'
    BY <1>1, <1>4, <2>2, LeaveChan
  <2>5. QED
    BY <2>3, <2>4
<1>8. QED
  BY <1>6, <1>7

\* A new connection: nothing of the old one is left on it.
LEMMA ConnectAnswers == ASSUME AnswerIInv, Connect PROVE Failed' /\ ChanInv'
<1> DEFINE p == "active"
           q == "passive"
<1>1. TypeIInv /\ LinkTypes /\ Failed /\ p \in Node /\ q \in Node /\ q = Peer(p) /\ worker \in [Node -> Places]
  BY DEF AnswerIInv, TypeIInv, ThreadTypes, Node, Peer
<1>2. PICK m \in PduType : m = Pdu("CR") /\ m.kind = "CR"
  BY PduTypes
<1>3. /\ worker' = Set(worker, p, "CC") /\ result' = result /\ worker[p] = "connect" /\ Worker(p)
      /\ connected' = [n \in Node |-> TRUE] /\ chan' = [chan EXCEPT ![p] = <<>>, ![q] = <<m>>]
  BY <1>2 DEF Connect, WorkerGoes, Worker
<1>4. worker'[q] = worker[q] /\ result'[q] = result[q] /\ (Fault(q)' <=> Fault(q)) /\ worker'[p] = "CC"
  BY <1>1, <1>3, Alone DEF Set
<1>5. result[p]
  BY <1>1, <1>3, WellConnected
<1>6. Failed'
  BY <1>1, <1>3, <1>4, <1>5, FailedStep
<1>7. chan' \in [Node -> Seq(PduType)] /\ chan'[p] = <<>> /\ chan'[q] = <<m>>
  <2>1. <<>> \in Seq(PduType) /\ <<m>> \in Seq(PduType) /\ p # q
    OBVIOUS
  <2>2. QED
    BY <1>1, <1>3, <2>1 DEF LinkTypes
<1>8. ~Closed(<<>>) /\ First(<<>>) /\ Len(<<>>) = 0
  BY DEF Closed, First
<1>9. ~Closed(<<m>>) /\ First(<<m>>) /\ Clean(<<m>>) /\ Len(<<m>>) = 1
  BY <1>2 DEF Closed, First, Clean, Answers
<1>10. Expects(p)'
  BY <1>4 DEF Expects, Answers
<1>11. Len(chan'[p]) + Len(chan'[q]) <= (IF Expects(p)' THEN 1 ELSE 0) + (IF Expects(q)' THEN 1 ELSE 0)
  <2>1. Len(chan'[p]) = 0 /\ Len(chan'[q]) = 1
    BY <1>7, <1>8, <1>9
  <2>2. QED
    BY <1>10, <2>1
<1>12. ChanInv'
  BY <1>1, <1>7, <1>8, <1>9, <1>10, <1>11, ChanStep
<1>13. QED
  BY <1>6, <1>12

\* The answers of the passive partner.
LEMMA ConfirmedAnswers == ASSUME AnswerIInv, ConnectConfirmed PROVE Failed' /\ ChanInv'
<1> DEFINE p == "active"
           q == Peer(p)
<1>1. TypeIInv /\ LinkTypes /\ Failed /\ ChanInv /\ p \in Node /\ q \in Node /\ worker \in [Node -> Places]
  BY Peers DEF AnswerIInv, TypeIInv, ThreadTypes, Node
<1>2. PICK m \in PduType : m = Pdu("negotiate") /\ m.kind = "negotiate"
  BY PduTypes
<1>3. /\ worker' = Set(worker, p, "negotiated") /\ result' = result /\ connected' = connected /\ Worker(p)
      /\ worker[p] = "CC" /\ TakeAndSend(p, m) /\ chan[p] # <<>> /\ Head(chan[p]).kind # "closed"
  BY <1>2 DEF ConnectConfirmed, WorkerGoes, Worker
<1>4. /\ worker'[q] = worker[q] /\ result'[q] = result[q] /\ (Expects(q)' <=> Expects(q)) /\ (Fault(q)' <=> Fault(q))
      /\ worker'[p] = "negotiated"
  BY <1>1, <1>3, Alone DEF Set
<1>5. result[p] /\ connected[p]
  BY <1>1, <1>3, WellConnected
<1>6. /\ chan' \in [Node -> Seq(PduType)] /\ chan'[p] = Tail(chan[p])
      /\ chan'[Peer(p)] = IF connected[Peer(p)] THEN Append(chan[Peer(p)], m) ELSE chan[Peer(p)]
  BY <1>1, <1>3, TakeAndSendLemma
<1>7. Failed'
  BY <1>1, <1>3, <1>4, <1>5, FailedStep
<1>8. Expects(p)'
  BY <1>4 DEF Expects, Answers
<1>9. ChanInv'
  BY <1>1, <1>2, <1>3, <1>4, <1>6, <1>8, TakeSendChan DEF Answers
<1>10. QED
  BY <1>7, <1>9

\* ... the second of them.
LEMMA NegotiatedAnswers == ASSUME AnswerIInv, ConnectNegotiated PROVE Failed' /\ ChanInv'
<1> DEFINE p == "active"
           q == Peer(p)
<1>1. TypeIInv /\ LinkTypes /\ Failed /\ ChanInv /\ p \in Node /\ q \in Node
  BY Peers DEF AnswerIInv, TypeIInv, Node
<1>2. /\ result' = result /\ connected' = connected /\ Worker(p)
      /\ worker[p] = "negotiated" /\ Take(p) /\ chan[p] # <<>> /\ Head(chan[p]).kind # "closed"
  BY DEF ConnectNegotiated, WorkerGoes, Worker
<1>3. worker'[q] = worker[q] /\ result'[q] = result[q] /\ (Expects(q)' <=> Expects(q)) /\ (Fault(q)' <=> Fault(q))
  BY <1>1, <1>2, Alone
<1>4. result[p] /\ connected[p]
  BY <1>1, <1>2, WellConnected
<1>5. chan' \in [Node -> Seq(PduType)] /\ chan'[p] = Tail(chan[p]) /\ chan'[Peer(p)] = chan[Peer(p)]
  BY <1>1, <1>2, TakeLemma
<1>6. Failed'
  BY <1>1, <1>2, <1>3, <1>4, FailedStep
<1>7. ChanInv'
  BY <1>1, <1>2, <1>3, <1>5, TakeChan
<1>8. QED
  BY <1>6, <1>7

\* ... or their failure; or a ping that finds nobody.
LEMMA LeftAnswers == ASSUME AnswerIInv, ConnectFailed \/ PingFails PROVE Failed' /\ ChanInv'
<1> DEFINE p == "active"
           q == Peer(p)
<1>1. TypeIInv /\ LinkTypes /\ Failed /\ ChanInv /\ p \in Node /\ q \in Node /\ worker \in [Node -> Places]
  BY Peers DEF AnswerIInv, TypeIInv, ThreadTypes, Node
<1>2. /\ worker' = Set(worker, p, "connect") /\ result' = result
      /\ worker[p] \in {"CC", "negotiated"} \/ result[p]
      /\ Close(p) /\ Worker(p)
  BY DEF ConnectFailed, PingFails, WorkerGoes, Worker
<1>3. /\ worker'[q] = worker[q] /\ result'[q] = result[q] /\ (Expects(q)' <=> Expects(q)) /\ (Fault(q)' <=> Fault(q))
      /\ worker'[p] = "connect"
  BY <1>1, <1>2, Alone DEF Set
<1>4. result[p]
  BY <1>1, <1>2, WellConnected
<1>5. /\ ~connected'[p] /\ connected'[q] = connected[q] /\ chan' \in [Node -> Seq(PduType)]
      /\ chan'[q] = chan[q] \/ chan'[q] = Append(chan[q], Pdu("closed"))
  BY <1>1, <1>2, CloseLemma
<1>6. Failed'
  BY <1>1, <1>2, <1>3, <1>4, <1>5, FailedStep
<1>7. ChanInv'
  BY <1>1, <1>3, <1>5, LeaveChan
<1>8. QED
  BY <1>6, <1>7

\* The passive partner has been given a connection.
LEMMA AcceptedAnswers == ASSUME AnswerIInv, Accepted PROVE Failed' /\ ChanInv'
<1> DEFINE p == "passive"
<1>1. Failed /\ p \in Node
  BY DEF AnswerIInv, Node
<1>2. UNCHANGED <<connected, chan, result>> /\ worker[p] = "connect" /\ connected[p] /\ Worker(p)
  BY DEF Accepted, WorkerGoes, linkVars, Worker
<1>3. result[p] /\ ~Fault(p)
  BY <1>1, <1>2, WellConnected
<1>4. ~Expects(p)
  BY <1>2, <1>3 DEF Expects, Answers
<1>5. QED
  BY <1>1, <1>2, <1>3, <1>4, QuietAnswers

\* A partner is stopped, even while it waits for an answer.
LEMMA StopAnswers == ASSUME AnswerIInv, NEW p \in Node, Stop(p) PROVE Failed' /\ ChanInv'
<1> DEFINE q == Peer(p)
<1>1. TypeIInv /\ LinkTypes /\ Failed /\ ChanInv /\ q \in Node /\ worker \in [Node -> Places]
  BY Peers DEF AnswerIInv, TypeIInv, ThreadTypes
<1>2. /\ worker' = Set(worker, p, "stopped") /\ result' = result
      /\ worker[p] \in {"connect", "CC", "negotiated", "execute", "ack"}
  BY DEF Stop, WorkerGoes
<1>3. /\ worker'[q] = worker[q] /\ result'[q] = result[q] /\ (Expects(q)' <=> Expects(q)) /\ (Fault(q)' <=> Fault(q))
      /\ worker'[p] = "stopped"
  BY <1>1, <1>2, Alone DEF Set
<1>4. result[p]
  BY <1>1, <1>2, WellConnected
<1>5. /\ ~connected'[p] /\ connected'[q] = connected[q] /\ chan' \in [Node -> Seq(PduType)]
      /\ chan'[q] = chan[q] \/ chan'[q] = Append(chan[q], Pdu("closed"))
  <2>1. CASE connected[p]
    <3>1. Close(p)
      BY <2>1 DEF Stop
    <3>2. QED
      BY <1>1, <3>1, CloseLemma
  <2>2. CASE ~connected[p]
    BY <1>1, <2>2 DEF Stop, linkVars, LinkTypes
  <2>3. QED
    BY <2>1, <2>2
<1>6. Failed'
  BY <1>1, <1>2, <1>3, <1>4, <1>5, FailedStep
<1>7. ChanInv'
  BY <1>1, <1>3, <1>5, LeaveChan
<1>8. QED
  BY <1>6, <1>7

\* ... and started.
LEMMA StartAnswers == ASSUME AnswerIInv, NEW p \in Node, Start(p) PROVE Failed' /\ ChanInv'
<1>1. Failed /\ worker \in [Node -> Places]
  BY DEF AnswerIInv, TypeIInv, ThreadTypes
<1>2. /\ worker' = Set(worker, p, "connect") /\ worker[p] = "stopped"
      /\ UNCHANGED <<connected, chan, result>>
  BY DEF Start, WorkerGoes, linkVars
<1>3. result[p] /\ ~Fault(p) /\ worker'[p] = "connect"
  BY <1>1, <1>2, WellConnected DEF Set
<1>4. ~Expects(p)
  BY <1>2, <1>3 DEF Expects, Answers
<1>5. QED
  BY <1>2, <1>3, <1>4, QuietAnswers

\* The network.
LEMMA BreakAnswers == ASSUME AnswerIInv, Break PROVE Failed' /\ ChanInv'
<1>1. UNCHANGED <<connected, worker, result, lastError>>
  BY DEF Break, wrkVars
<1>2. Failed'
  BY <1>1 DEF AnswerIInv, Failed, Fault, ErrorUnread
<1>3. PICK m \in PduType : m = Pdu("closed") /\ m.kind = "closed"
  BY PduTypes
<1>4. chan' = [n \in Node |-> <<m>>] /\ <<m>> \in Seq(PduType)
  BY <1>3 DEF Break
<1>5. Closed(<<m>>) /\ First(<<m>>) /\ Clean(<<m>>)
  BY <1>3 DEF Closed, First, Clean, Answers
<1>6. PICK p \in Node, q \in Node : q = Peer(p)
  BY DEF Node, Peer
<1>7. chan' \in [Node -> Seq(PduType)] /\ chan'[p] = <<m>> /\ chan'[q] = <<m>>
  BY <1>4
<1>8. ChanInv'
  BY <1>5, <1>6, <1>7, ChanStep
<1>9. QED
  BY <1>2, <1>8

\* The applications, and nobody: no error is lost before the worker has read it.
LEMMA IdleAnswers ==
  ASSUME AnswerIInv, UNCHANGED <<connected, chan, worker, result>>,
         \A p \in Node : ErrorUnread(p) => lastError'[p] = "error"
  PROVE  Failed' /\ ChanInv'
<1>1. \A p \in Node : Fault(p) => Fault(p)'
  BY DEF Fault, ErrorUnread
<1>2. Failed'
  BY <1>1 DEF AnswerIInv, Failed
<1>3. \A p \in Node : connected[p] /\ Expects(p) => Expects(p)'
  BY <1>1 DEF Expects
<1>4. QED
  BY <1>2, <1>3, QuietChan DEF AnswerIInv

\* ... unless BRecv clears it.
LEMMA AppAnswers ==
  ASSUME AnswerIInv, ~wiped', NEW p \in Node, App(p), ~Stop(p), ~Start(p)
  PROVE  Failed' /\ ChanInv'
<1>1. UNCHANGED <<connected, chan, worker, result>>
  BY DEF App, BSend, BSendNotLinked, WaitSend, WaitSendTimeout, BRecv, BRecvCopy, BRecvTimeout, linkVars, wrkVars
<1>2. lastError \in [Node -> {"ok", "error"}] /\ picked[p].result \in {"ok", "error"}
  BY DEF AnswerIInv, TypeIInv, FieldTypes, ThreadTypes, RecvType
<1>3. CASE BRecvCopy(p)
  <2>1. lastError' = Set(lastError, p, picked[p].result) /\ ~(ErrorUnread(p) /\ picked[p].result = "ok")
    BY <1>3 DEF BRecvCopy
  <2>2. \A n \in Node : ErrorUnread(n) => lastError'[n] = "error"
    BY <1>2, <2>1 DEF Set, ErrorUnread
  <2>3. QED
    BY <1>1, <2>2, IdleAnswers
<1>4. CASE ~BRecvCopy(p)
  <2>1. lastError' = lastError \/ lastError' = Set(lastError, p, "error")
    BY <1>4 DEF App, BSend, BSendNotLinked, WaitSend, WaitSendTimeout, BRecv, BRecvTimeout
  <2>2. \A n \in Node : ErrorUnread(n) => lastError'[n] = "error"
    BY <1>2, <2>1 DEF Set, ErrorUnread
  <2>3. QED
    BY <1>1, <2>2, IdleAnswers
<1>5. QED
  BY <1>3, <1>4

\* What has been cleared is not forgotten.
LEMMA WipedStays == ASSUME [Next]_vars, ~wiped' PROVE ~wiped
<1>1. ASSUME NEW p \in Node, Worker(p) PROVE wiped' = wiped
  BY <1>1 DEF Worker, StartSend, SkipSend, NextSlice, SliceFails, RecvAck, AckFails, LoopBreaks, SendResult, SendDone,
              NothingToRead, RecvClosed, RecvConnect, RecvNegotiate, Link, RecvSlice, PickRefused, PickResult,
              RecvReport, Check, CheckTimeout, Connect, ConnectConfirmed, ConnectNegotiated, ConnectFailed, PingFails,
              Accepted, appVars
<1>2. ASSUME NEW p \in Node, App(p) PROVE wiped' = wiped \/ (wiped => wiped')
  BY <1>2 DEF App, BSend, BSendNotLinked, WaitSend, WaitSendTimeout, BRecv, BRecvCopy, BRecvTimeout, Stop, Start,
              appVars
<1>3. Break \/ UNCHANGED vars => wiped' = wiped
  BY DEF Break, vars, appVars
<1>4. QED
  BY <1>1, <1>2, <1>3 DEF Next

\* Every step keeps it.
LEMMA AnswerStep == ASSUME AnswerIInv, [Next]_vars, ~wiped' PROVE AnswerIInv'
<1>1. TypeIInv'
  BY TypeStep DEF AnswerIInv
<1>2. ASSUME NEW p \in Node, Worker(p) PROVE Failed' /\ ChanInv'
  BY <1>2, CalmAnswers, EndAnswers, LoopBreaksAnswers, SendResultAnswers, SliceFailsAnswers, NextSliceAnswers,
     RecvAckAnswers, AckFailsAnswers, RecvClosedAnswers, ReplyAnswers, PickRefusedAnswers, CheckAnswers,
     ConnectAnswers, ConfirmedAnswers, NegotiatedAnswers, LeftAnswers, AcceptedAnswers, Zenon DEF Worker
<1>3. ASSUME NEW p \in Node, App(p) PROVE Failed' /\ ChanInv'
  BY <1>3, StopAnswers, StartAnswers, AppAnswers
<1>4. ASSUME Break PROVE Failed' /\ ChanInv'
  BY <1>4, BreakAnswers
<1>5. ASSUME UNCHANGED vars PROVE Failed' /\ ChanInv'
  <2>1. UNCHANGED <<connected, chan, worker, result, lastError>>
    BY <1>5 DEF vars, linkVars, wrkVars
  <2>2. QED
    BY <2>1, IdleAnswers DEF ErrorUnread
<1>6. Failed' /\ ChanInv'
  BY <1>2, <1>3, <1>4, <1>5 DEF Next
<1>7. QED
  BY <1>1, <1>6 DEF AnswerIInv

\* For any number of blocks, slices and failures: what a worker reads in Execute is
\* never the answer to a request, its own or an earlier one's, since BlockSend and
\* PeerConnect leave a connection whose answer they have given up - as long as no BRecv
\* has cleared LastError between BlockSend's setting it and its reading it again.
THEOREM AnswersAwaitedHolds == Spec => []AnswersAwaited
<1>1. Init => (wiped \/ AnswerIInv)
  BY InitAnswers
<1>2. (wiped \/ AnswerIInv) /\ [Next]_vars => (wiped \/ AnswerIInv)'
  BY AnswerStep, WipedStays
<1>3. (wiped \/ AnswerIInv) => AnswersAwaited
  BY NoAnswerRead DEF AnswersAwaited, Answers
<1>4. QED
  BY <1>1, <1>2, <1>3, PTL DEF Spec

-----------------------------------------------------------------------------
(* Two partners whose applications take turns, on a connection that holds.   *)

\* q has nothing of a block that is not complete.
Between(q) == ~recvPending[q] /\ worker[q] \notin {"picked", "report"}

\* q has completed m blocks.
Has(q, m) == Len(delivered[q]) = m /\ \A i \in 1..m : delivered[q][i] = i

\* q is in the middle of p's block and has its first k slices: all of them when it is
\* about to report the block.
Part(q, p, k) ==
  /\ recvPending[q] /\ Len(RxBuffer[q]) = k
  /\ \A i \in 1..k : RxBuffer[q][i] = Slice(TxBuffer[p], i)
  /\ IF k = TxBuffer[p].slices THEN worker[q] \in {"picked", "report"} ELSE worker[q] # "report"

\* q has got k slices of p's block: the block is completed, or is the next one.
Got(q, p, k) ==
  \/ k = TxBuffer[p].slices /\ Has(q, nBlocks[p]) /\ Between(q)
  \/ /\ Has(q, nBlocks[p] - 1) /\ ~recvEvt[q]
     /\ IF k = 0 THEN TxBuffer[p].slices > 0 /\ Between(q) ELSE Part(q, p, k)

\* The slices that have been acknowledged, while no slice is under way.
Acked(p) == IF ~sendPending[p] \/ worker[p] = "notify" THEN TxBuffer[p].slices ELSE sentSlices[p]

\* Where p's block is: nothing of it is on its way, or a slice is, or its acknowledgement.
Quiet(p, q) == worker[p] # "ack" /\ Got(q, p, Acked(p))
SliceUnderWay(p, q) ==
  /\ worker[p] = "ack" /\ sentSlices[p] > 0
  /\ chan[q] = <<Slice(TxBuffer[p], sentSlices[p])>> /\ chan[p] = <<>>
  /\ Got(q, p, sentSlices[p] - 1)
AckUnderWay(p, q) ==
  /\ worker[p] = "ack" /\ sentSlices[p] > 0
  /\ chan[q] = <<>> /\ chan[p] = <<Pdu("ack")>>
  /\ Got(q, p, sentSlices[p])
Phase(p, q) == Quiet(p, q) \/ SliceUnderWay(p, q) \/ AckUnderWay(p, q)

CalmPlaces == {"execute", "loop", "ack", "notify", "recv", "picked", "report", "check"}

\* The connection holds and nothing fails.
Sound ==
  /\ failures = 0
  /\ \A p \in Node : connected[p] /\ linked[p] /\ lastError[p] = "ok" /\ result[p] /\ worker[p] \in CalmPlaces

\* One block at a time, and PDUs of it only.
OneBlock ==
  /\ \A p \in Node : sendPending[p] => ~sendPending[Peer(p)]
  /\ \A p \in Node : TxBuffer[p].block = nBlocks[p] /\ (sendPending[p] => nBlocks[p] > 0)
  /\ (\A p \in Node : worker[p] # "ack") => \A p \in Node : chan[p] = <<>>

\* What RecvEvt announces is the peer's last block.
Announced(p, q) ==
  /\ recvEvt[p] => /\ nBlocks[q] > 0 /\ Whole(RxBuffer[p]) = nBlocks[q]
                   /\ recvLast[p].block = nBlocks[q] /\ recvLast[p].result = "ok"
  /\ app[p] = "copy" => /\ recvEvt[p] /\ picked[p].block = nBlocks[q] /\ picked[p].result = "ok"

CalmState ==
  /\ Sound /\ OneBlock /\ delivered \in [Node -> Seq(Nat)]
  /\ \A p \in Node : Phase(p, Peer(p)) /\ Announced(p, Peer(p))

\* Inductive; BlocksWhole, CalmSentIsReceived and CalmResults follow.
CalmIInv == TypeIInv /\ (Calm => CalmState)

\* Two partners that take turns.
LEMMA Sides ==
  ASSUME NEW p \in Node, NEW q, q = Peer(p), CalmState, TypeIInv
  PROVE  /\ q \in Node /\ q # p /\ p = Peer(q) /\ \A r \in Node : r = p \/ r = q
         /\ Phase(p, q) /\ Phase(q, p) /\ Announced(p, q) /\ Announced(q, p)
         /\ sendPending[p] => ~sendPending[q]
         /\ worker[p] \in {"loop", "ack", "notify"} => sendPending[p]
         /\ worker[q] \in {"loop", "ack", "notify"} => sendPending[q]
         /\ connected[p] /\ connected[q] /\ result[p] /\ lastError[p] = "ok" /\ worker[p] \in CalmPlaces
         /\ chan[p] \in Seq(PduType) /\ chan[q] \in Seq(PduType)
         /\ worker[p] # "ack" /\ worker[q] # "ack" => chan[p] = <<>> /\ chan[q] = <<>>
         /\ TxBuffer[p].block = nBlocks[p] /\ TxBuffer[q].block = nBlocks[q]
<1>1. q \in Node /\ q # p /\ p = Peer(q) /\ \A r \in Node : r = p \/ r = q
  BY Peers
<1>3. Phase(p, q) /\ Phase(q, p) /\ Announced(p, q) /\ Announced(q, p)
  BY <1>1 DEF CalmState
<1>4. /\ sendPending[p] => ~sendPending[q]
      /\ worker[p] # "ack" /\ worker[q] # "ack" => chan[p] = <<>> /\ chan[q] = <<>>
      /\ TxBuffer[p].block = nBlocks[p] /\ TxBuffer[q].block = nBlocks[q]
  BY <1>1 DEF CalmState, OneBlock
<1>5. /\ worker[p] \in {"loop", "ack", "notify"} => sendPending[p]
      /\ worker[q] \in {"loop", "ack", "notify"} => sendPending[q]
      /\ chan[p] \in Seq(PduType) /\ chan[q] \in Seq(PduType)
  BY <1>1 DEF TypeIInv, SlicesKept, LinkTypes
<1>6. connected[p] /\ connected[q] /\ result[p] /\ lastError[p] = "ok" /\ worker[p] \in CalmPlaces
  BY <1>1 DEF CalmState, Sound
<1>7. QED
  BY <1>1, <1>3, <1>4, <1>5, <1>6

\* A step that changes nothing q has got of p's block.
LEMMA GotStays ==
  ASSUME NEW p \in Node, NEW q \in Node, NEW k,
         TxBuffer'[p] = TxBuffer[p], nBlocks'[p] = nBlocks[p], delivered'[q] = delivered[q],
         recvPending'[q] = recvPending[q], RxBuffer'[q] = RxBuffer[q], recvEvt'[q] => recvEvt[q],
         worker'[q] = worker[q] \/ {worker[q], worker'[q]} \cap {"picked", "report"} = {},
         Got(q, p, k)
  PROVE  Got(q, p, k)'
<1>1. \A m : Has(q, m)' <=> Has(q, m)
  BY DEF Has
<1>2. Between(q)' <=> Between(q)
  BY DEF Between
<1>3. \A i : Slice(TxBuffer[p], i)' = Slice(TxBuffer[p], i)
  BY DEF Slice
<1>4. Part(q, p, k) => Part(q, p, k)'
  <2>1. (recvPending[q] /\ Len(RxBuffer[q]) = k)' <=> (recvPending[q] /\ Len(RxBuffer[q]) = k)
    OBVIOUS
  <2>2. (\A i \in 1..k : RxBuffer[q][i] = Slice(TxBuffer[p], i))' <=>
        (\A i \in 1..k : RxBuffer[q][i] = Slice(TxBuffer[p], i))
    BY <1>3
  <2>3. QED
    BY <2>1, <2>2 DEF Part
<1>5. PICK m : m = nBlocks[p]
  OBVIOUS
<1>6. (Has(q, m)' <=> Has(q, m)) /\ (Has(q, m - 1)' <=> Has(q, m - 1))
  BY <1>1
<1>7. QED
  BY <1>2, <1>4, <1>5, <1>6 DEF Got

\* ... and none of p's that is on its way.
LEMMA PhaseStays ==
  ASSUME NEW p \in Node, NEW q \in Node, Phase(p, q), \A k : Got(q, p, k) => Got(q, p, k)',
         \/ worker[p] # "ack" /\ worker'[p] # "ack" /\ Acked(p)' = Acked(p)
         \/ /\ worker[p] = "ack" /\ worker'[p] = "ack" /\ sentSlices'[p] = sentSlices[p]
            /\ TxBuffer'[p] = TxBuffer[p] /\ chan'[p] = chan[p] /\ chan'[q] = chan[q]
  PROVE  Phase(p, q)'
<1>1. CASE worker[p] # "ack" /\ worker'[p] # "ack" /\ Acked(p)' = Acked(p)
  <2>1. PICK k : k = Acked(p)
    OBVIOUS
  <2>2. Got(q, p, k)'
    BY <1>1, <2>1 DEF Phase, Quiet, SliceUnderWay, AckUnderWay
  <2>3. Got(q, p, Acked(p))'
    BY <1>1, <2>1, <2>2
  <2>4. QED
    BY <1>1, <2>3 DEF Phase, Quiet
<1>2. CASE /\ worker[p] = "ack" /\ worker'[p] = "ack" /\ sentSlices'[p] = sentSlices[p]
           /\ TxBuffer'[p] = TxBuffer[p] /\ chan'[p] = chan[p] /\ chan'[q] = chan[q]
  <2>1. PICK k : k = sentSlices[p]
    OBVIOUS
  <2>2. Slice(TxBuffer[p], sentSlices[p])' = Slice(TxBuffer[p], sentSlices[p])
    BY <1>2 DEF Slice
  <2>3. CASE SliceUnderWay(p, q)
    <3>1. Got(q, p, k - 1)'
      BY <2>1, <2>3 DEF SliceUnderWay
    <3>2. Got(q, p, sentSlices[p] - 1)'
      BY <1>2, <2>1, <3>1
    <3>3. QED
      BY <1>2, <2>2, <2>3, <3>2 DEF SliceUnderWay, Phase
  <2>4. CASE AckUnderWay(p, q)
    <3>1. Got(q, p, k)'
      BY <2>1, <2>4 DEF AckUnderWay
    <3>2. Got(q, p, sentSlices[p])'
      BY <1>2, <2>1, <3>1
    <3>3. QED
      BY <1>2, <2>4, <3>2 DEF AckUnderWay, Phase
  <2>5. QED
    BY <1>2, <2>3, <2>4 DEF Phase, Quiet
<1>3. QED
  BY <1>1, <1>2

\* Something of the block has been got.
LEMMA SomethingGot ==
  ASSUME NEW p \in Node, NEW q \in Node, Phase(p, q)
  PROVE  \E k : Got(q, p, k)
BY DEF Phase, Quiet, SliceUnderWay, AckUnderWay

\* What RecvEvt announces stays.
LEMMA AnnouncedStays ==
  ASSUME NEW p \in Node, NEW q \in Node, Announced(p, q),
         recvEvt'[p] => recvEvt[p], nBlocks'[q] = nBlocks[q], RxBuffer'[p] = RxBuffer[p],
         recvLast'[p].block = recvLast[p].block, recvLast'[p].result = recvLast[p].result,
         app'[p] = "copy" => app[p] = "copy" /\ picked'[p] = picked[p] /\ (recvEvt[p] => recvEvt'[p])
  PROVE  Announced(p, q)'
BY DEF Announced, Whole

\* The parts of the invariant, side by side.
LEMMA BothSides ==
  ASSUME NEW p \in Node, NEW q, q = Peer(p), Sound', OneBlock', delivered' \in [Node -> Seq(Nat)],
         Phase(p, q)', Phase(q, p)', Announced(p, q)', Announced(q, p)'
  PROVE  CalmState'
<1>1. q \in Node /\ q # p /\ p = Peer(q) /\ \A r \in Node : r = p \/ r = q
  BY Peers
<1>2. ASSUME NEW r \in Node PROVE (Phase(r, Peer(r)) /\ Announced(r, Peer(r)))'
  BY <1>1, <1>2
<1>3. QED
  BY <1>2 DEF CalmState

\* Nothing fails in a step of p's.
LEMMA SoundStays ==
  ASSUME CalmState, NEW p \in Node, NEW q, q = Peer(p), UNCHANGED <<connected, linked, failures>>,
         result'[p], result'[q] = result[q], lastError'[p] = "ok", lastError'[q] = lastError[q],
         worker'[q] = worker[q], worker'[p] \in CalmPlaces
  PROVE  Sound'
<1>1. \A r \in Node : r = p \/ r = q
  BY Peers
<1>2. ASSUME NEW r \in Node
      PROVE  connected'[r] /\ linked'[r] /\ lastError'[r] = "ok" /\ result'[r] /\ worker'[r] \in CalmPlaces
  BY <1>1 DEF CalmState, Sound
<1>3. QED
  BY <1>2 DEF CalmState, Sound

\* A step that neither sends nor receives a PDU, nor completes or hands over a block.
LEMMA QuietCalm ==
  ASSUME TypeIInv, CalmState, NEW p \in Node,
         UNCHANGED <<connected, linked, chan, recvPending, TxBuffer, RxBuffer, nBlocks, delivered, failures>>,
         NEW q, q = Peer(p),
         result'[p], result'[q] = result[q], lastError'[p] = "ok", lastError'[q] = lastError[q],
         worker'[q] = worker[q], sendPending'[q] = sendPending[q], sentSlices'[q] = sentSlices[q],
         worker'[p] \in CalmPlaces, sendPending'[p] => sendPending[p],
         \/ worker[p] # "ack" /\ worker'[p] # "ack" /\ Acked(p)' = Acked(p)
         \/ worker[p] = "ack" /\ worker'[p] = "ack" /\ sentSlices'[p] = sentSlices[p],
         worker'[p] = worker[p] \/ {worker[p], worker'[p]} \cap {"picked", "report"} = {},
         recvEvt'[p] => recvEvt[p], recvEvt'[q] = recvEvt[q], recvLast'[q] = recvLast[q],
         app'[q] = app[q], picked'[q] = picked[q], Announced(p, q)'
  PROVE  CalmState'
<1>1. /\ q \in Node /\ q # p /\ p = Peer(q) /\ \A r \in Node : r = p \/ r = q
      /\ Phase(p, q) /\ Phase(q, p) /\ Announced(q, p)
  BY Sides
<1>2. Phase(p, q)'
  <2>1. \A k : Got(q, p, k) => Got(q, p, k)'
    BY <1>1, GotStays
  <2>2. QED
    BY <1>1, <2>1, PhaseStays
<1>3. Phase(q, p)'
  <2>1. \A k : Got(p, q, k) => Got(p, q, k)'
    BY <1>1, GotStays
  <2>2. Acked(q)' = Acked(q)
    BY DEF Acked
  <2>3. QED
    BY <1>1, <2>1, <2>2, PhaseStays
<1>4. Announced(q, p)'
  BY <1>1, AnnouncedStays
<1>5. Sound'
  BY SoundStays
<1>6. OneBlock'
  <2>1. ASSUME NEW r \in Node PROVE sendPending'[r] => sendPending[r]
    BY <1>1
  <2>2. (\A r \in Node : worker[r] # "ack")' => \A r \in Node : worker[r] # "ack"
    BY <1>1
  <2>3. ASSUME NEW r \in Node
        PROVE  /\ sendPending'[r] => ~sendPending'[Peer(r)]
               /\ TxBuffer'[r].block = nBlocks'[r] /\ (sendPending'[r] => nBlocks'[r] > 0)
    <3>1. Peer(r) \in Node
      BY Peers
    <3>2. QED
      BY <2>1, <3>1 DEF CalmState, OneBlock
  <2>4. QED
    BY <2>2, <2>3 DEF CalmState, OneBlock
<1>7. delivered' \in [Node -> Seq(Nat)]
  BY DEF CalmState
<1>8. QED
  BY <1>2, <1>3, <1>4, <1>5, <1>6, <1>7, BothSides

\* The worker goes on in Execute.
LEMMA WorkerCalm ==
  ASSUME TypeIInv, CalmState, NEW p \in Node,
         StartSend(p) \/ SkipSend(p) \/ NothingToRead(p) \/ Check(p)
  PROVE  CalmState'
<1>1. PICK q : q = Peer(p)
  OBVIOUS
<1>2. /\ q \in Node /\ q # p /\ p = Peer(q) /\ \A r \in Node : r = p \/ r = q
      /\ Announced(p, q) /\ connected[p] /\ result[p] /\ lastError[p] = "ok"
  BY <1>1, Sides
<1>3. /\ worker \in [Node -> Places] /\ result \in [Node -> BOOLEAN] /\ lastError \in [Node -> {"ok", "error"}]
      /\ recvPending \in [Node -> BOOLEAN] /\ recvPending[p] \in BOOLEAN
  BY DEF TypeIInv, ThreadTypes, FieldTypes
<1>4. UNCHANGED <<chan, connected, linked, sendPending, TxBuffer, RxBuffer, sentSlices, nBlocks, delivered, failures,
                  recvEvt, recvLast, app, picked>>
  <2>1. CASE Check(p)
    BY <1>2, <2>1 DEF Check, LeaveOrKeep, Keeps, linkVars, flagVars, bufVars, wrkVars, appVars
  <2>2. QED
    BY <2>1 DEF StartSend, SkipSend, NothingToRead, linkVars, flagVars, bufVars, wrkVars, appVars
<1>5. recvPending' = recvPending /\ result'[p] /\ result'[q] = result[q]
  <2>1. CASE Check(p)
    <3>1. recvPending' = [recvPending EXCEPT ![p] = recvPending[p] /\ result[p]]
      BY <2>1 DEF Check, Set
    <3>2. (recvPending[p] /\ result[p]) = recvPending[p]
      BY <1>2, <1>3
    <3>3. recvPending' = [recvPending EXCEPT ![p] = recvPending[p]]
      BY <3>1, <3>2
    <3>4. recvPending' = recvPending
      BY <1>3, <3>3
    <3>5. result' = [result EXCEPT ![p] = TRUE]
      BY <2>1 DEF Check, LeaveOrKeep, Set
    <3>6. QED
      BY <1>2, <1>3, <3>4, <3>5
  <2>2. QED
    BY <1>2, <2>1 DEF StartSend, SkipSend, NothingToRead, flagVars
<1>6. /\ worker'[q] = worker[q] /\ worker[p] \in {"execute", "recv", "check"}
      /\ worker'[p] \in {"loop", "recv", "check", "execute"}
  <2>1. CASE Check(p)
    <3>1. worker' = [worker EXCEPT ![p] = "execute"] /\ worker[p] = "check"
      BY <1>2, <1>4, <2>1 DEF Check, LeaveOrKeep, Set
    <3>2. QED
      BY <1>2, <1>3, <3>1
  <2>2. QED
    BY <1>2, <1>3, <2>1 DEF StartSend, SkipSend, NothingToRead, WorkerGoes, Set
<1>7. lastError'[p] = "ok" /\ lastError'[q] = lastError[q]
  <2>1. CASE Check(p)
    BY <1>2, <2>1 DEF Check, Keeps
  <2>2. QED
    BY <1>2, <1>3, <2>1 DEF StartSend, SkipSend, NothingToRead, Set
<1>8. Acked(p)' = Acked(p)
  BY <1>4, <1>6 DEF Acked
<1>9. Announced(p, q)'
  BY <1>2, <1>4, AnnouncedStays
<1>10. worker'[p] \in CalmPlaces /\ {worker[p], worker'[p]} \cap {"picked", "report"} = {}
  BY <1>6 DEF CalmPlaces
<1>11. QED
  BY <1>1, <1>2, <1>4, <1>5, <1>6, <1>7, <1>8, <1>9, <1>10, QuietCalm

\* The block has been acknowledged, is reported, and the next may come.
LEMMA SendEndCalm == ASSUME TypeIInv, CalmState, NEW p \in Node, SendResult(p) \/ SendDone(p) PROVE CalmState'
<1>1. PICK q : q = Peer(p)
  OBVIOUS
<1>2. /\ q \in Node /\ q # p /\ p = Peer(q) /\ \A r \in Node : r = p \/ r = q
      /\ Announced(p, q) /\ connected[p] /\ result[p] /\ lastError[p] = "ok" /\ worker[p] \in CalmPlaces
      /\ worker[p] \in {"loop", "ack", "notify"} => sendPending[p]
  BY <1>1, Sides
<1>3. /\ worker \in [Node -> Places] /\ result \in [Node -> BOOLEAN] /\ sentSlices \in [Node -> Nat]
      /\ sendPending \in [Node -> BOOLEAN]
      /\ TxBuffer[p].slices \in Nat /\ sentSlices[p] \in Nat /\ sentSlices[p] <= TxBuffer[p].slices
  BY PartnerAssumption DEF TypeIInv, ThreadTypes, FieldTypes, SlicesKept
<1>4. UNCHANGED <<chan, connected, linked, recvPending, TxBuffer, RxBuffer, nBlocks, delivered, failures,
                  recvEvt, recvLast, app, picked, lastError>>
  BY DEF SendResult, SendDone, linkVars, flagVars, bufVars, appVars
<1>5. /\ result'[p] /\ result'[q] = result[q] /\ worker'[q] = worker[q] /\ sentSlices'[q] = sentSlices[q]
      /\ sendPending'[q] = sendPending[q]
  <2>1. CASE SendResult(p)
    BY <1>2, <1>3, <2>1 DEF SendResult, Set
  <2>2. CASE SendDone(p)
    BY <1>2, <1>3, <2>2 DEF SendDone, Set, WorkerGoes
  <2>3. QED
    BY <2>1, <2>2
<1>6. /\ worker[p] \in {"loop", "notify"} /\ worker'[p] \in {"notify", "recv"}
      /\ Acked(p)' = Acked(p) /\ (sendPending'[p] => sendPending[p])
  <2>1. CASE SendResult(p)
    <3>1. worker[p] = "loop" /\ ~MoreToSend(p) /\ worker'[p] = "notify" /\ UNCHANGED sendPending
      BY <1>2, <1>3, <2>1 DEF SendResult, Set, CalmPlaces
    <3>2. sentSlices[p] = TxBuffer[p].slices
      BY <1>3, <3>1 DEF MoreToSend
    <3>3. QED
      BY <1>4, <3>1, <3>2 DEF Acked
  <2>2. CASE SendDone(p)
    <3>1. worker[p] = "notify" /\ worker'[p] = "recv" /\ sendPending'[p] = FALSE
      BY <1>2, <1>3, <2>2 DEF SendDone, WorkerGoes, Set, SendFreed
    <3>2. QED
      BY <1>4, <3>1 DEF Acked
  <2>3. QED
    BY <2>1, <2>2
<1>7. Announced(p, q)'
  BY <1>2, <1>4, AnnouncedStays
<1>8. worker'[p] \in CalmPlaces /\ {worker[p], worker'[p]} \cap {"picked", "report"} = {}
  BY <1>6 DEF CalmPlaces
<1>9. QED
  BY <1>1, <1>2, <1>4, <1>5, <1>6, <1>7, <1>8, QuietCalm

\* The application returns from BSend, or picks up a block.
LEMMA AppCalm ==
  ASSUME TypeIInv, CalmState, NEW p \in Node, WaitSend(p) \/ BRecv(p) \/ BRecvCopy(p)
  PROVE  CalmState'
<1>1. PICK q : q = Peer(p)
  OBVIOUS
<1>2. /\ q \in Node /\ q # p /\ p = Peer(q) /\ \A r \in Node : r = p \/ r = q
      /\ Announced(p, q) /\ result[p] /\ lastError[p] = "ok" /\ worker[p] \in CalmPlaces
  BY <1>1, Sides
<1>3. /\ app \in [Node -> {"idle", "wait", "copy"}] /\ picked \in [Node -> RecvType]
      /\ recvEvt \in [Node -> BOOLEAN] /\ lastError \in [Node -> {"ok", "error"}]
  BY DEF TypeIInv, ThreadTypes, FieldTypes
<1>4. UNCHANGED <<chan, connected, linked, sendPending, recvPending, TxBuffer, RxBuffer, sentSlices, nBlocks,
                  delivered, failures, recvLast, worker, result>>
  BY DEF WaitSend, BRecv, BRecvCopy, linkVars, flagVars, bufVars, wrkVars, appVars
<1>5. Acked(p)' = Acked(p)
  BY <1>4 DEF Acked
<1>6. app'[q] = app[q] /\ picked'[q] = picked[q]
  BY <1>2, <1>3 DEF WaitSend, BRecv, BRecvCopy, Set
<1>7. /\ recvEvt'[q] = recvEvt[q] /\ (recvEvt'[p] => recvEvt[p])
      /\ lastError'[q] = lastError[q] /\ lastError'[p] = "ok"
  <2>1. CASE BRecvCopy(p)
    BY <1>2, <1>3, <2>1 DEF BRecvCopy, Set, Announced
  <2>2. QED
    BY <1>2, <1>3, <2>1 DEF WaitSend, BRecv, flagVars
<1>8. Announced(p, q)'
  <2>1. CASE BRecv(p)
    BY <1>2, <1>3, <1>4, <2>1 DEF BRecv, Announced, flagVars, Set, Whole
  <2>2. CASE WaitSend(p) \/ BRecvCopy(p)
    <3>1. app'[p] = "idle"
      BY <1>3, <2>2 DEF WaitSend, BRecvCopy, Set
    <3>2. QED
      BY <1>2, <1>4, <1>7, <3>1, AnnouncedStays
  <2>3. QED
    BY <2>1, <2>2
<1>9. QED
  BY <1>1, <1>2, <1>4, <1>5, <1>6, <1>7, <1>8, QuietCalm

\* The next slice of p's block goes out: nobody else is sending, and nothing is under way.
LEMMA NextSliceCalm == ASSUME TypeIInv, CalmState, NEW p \in Node, NextSlice(p) PROVE CalmState'
<1>1. PICK q : q = Peer(p)
  OBVIOUS
<1>2. /\ q \in Node /\ q # p /\ p = Peer(q) /\ \A r \in Node : r = p \/ r = q
      /\ Phase(p, q) /\ Phase(q, p) /\ Announced(p, q) /\ Announced(q, p) /\ connected[q]
      /\ result[p] /\ lastError[p] = "ok"
      /\ sendPending[p] => ~sendPending[q]
      /\ worker[p] \in {"loop", "ack", "notify"} => sendPending[p]
      /\ worker[q] \in {"loop", "ack", "notify"} => sendPending[q]
      /\ worker[p] # "ack" /\ worker[q] # "ack" => chan[p] = <<>> /\ chan[q] = <<>>
  BY <1>1, Sides
<1>3. PICK k : k = sentSlices[p]
  OBVIOUS
<1>4. /\ worker[p] = "loop" /\ worker' = [worker EXCEPT ![p] = "ack"] /\ k < TxBuffer[p].slices
      /\ sentSlices' = [sentSlices EXCEPT ![p] = k + 1]
  BY <1>3 DEF NextSlice, GoesOn, MoreToSend, WorkerGoes, Set
<1>5. UNCHANGED <<connected, linked, sendPending, recvPending, recvEvt, lastError, TxBuffer, RxBuffer, recvLast, result, app,
                  picked, nBlocks, delivered, failures>>
  BY DEF NextSlice, flagVars, bufVars, appVars
<1>6. worker'[p] = "ack" /\ worker'[q] = worker[q] /\ worker[q] \notin {"loop", "ack", "notify"} /\ sendPending[p]
  BY <1>2, <1>4 DEF TypeIInv, ThreadTypes
<1>7. /\ TxBuffer[p] \in [block: 0..MaxEvents, slices: 0..MaxSlices] /\ k \in Nat /\ k + 1 \in 0..MaxSlices
      /\ k + 1 > 0 /\ k + 1 - 1 = k
      /\ sentSlices'[p] = k + 1 /\ sentSlices'[q] = sentSlices[q]
  <2>1. TxBuffer[p] \in [block: 0..MaxEvents, slices: 0..MaxSlices] /\ sentSlices \in [Node -> Nat]
    BY DEF TypeIInv, FieldTypes, ThreadTypes
  <2>2. k \in Nat /\ TxBuffer[p].slices \in 0..MaxSlices
    BY <1>3, <2>1
  <2>3. k + 1 \in 0..MaxSlices /\ k + 1 > 0 /\ k + 1 - 1 = k
    BY <1>4, <2>2, PartnerAssumption
  <2>4. QED
    BY <1>2, <1>4, <2>1, <2>2, <2>3
<1> DEFINE m == Slice(TxBuffer[p], k + 1)
<1>8. m \in PduType
  BY <1>7, SliceTypes
<1>9. chan' = [chan EXCEPT ![Peer(p)] = IF connected[Peer(p)] THEN Append(@, m) ELSE @]
  BY <1>3 DEF NextSlice
<1>10. chan'[p] = <<>> /\ chan'[q] = <<m>>
  <2> HIDE DEF m
  <2>1. chan'[p] = chan[p] /\ chan'[q] = Append(chan[q], m)
    BY <1>1, <1>2, <1>8, <1>9, SendLemma DEF TypeIInv
  <2>2. chan[p] = <<>> /\ chan[q] = <<>>
    BY <1>2, <1>4, <1>6
  <2>3. Append(<<>>, m) = <<m>>
    OBVIOUS
  <2>4. QED
    BY <2>1, <2>2, <2>3
<1>11. Phase(p, q)'
  <2>1. Got(q, p, k)
    BY <1>2, <1>3, <1>4, <1>6 DEF Phase, Quiet, SliceUnderWay, AckUnderWay, Acked
  <2>2. Got(q, p, k)'
    BY <1>2, <1>5, <1>6, <2>1, GotStays
  <2>3. Got(q, p, sentSlices[p] - 1)'
    BY <1>7, <2>2
  <2>4. Slice(TxBuffer[p], sentSlices[p])' = m
    BY <1>5, <1>7 DEF Slice
  <2>5. SliceUnderWay(p, q)'
    BY <1>6, <1>7, <1>10, <2>3, <2>4 DEF SliceUnderWay
  <2>6. QED
    BY <2>5 DEF Phase
<1>12. Phase(q, p)'
  <2>1. \A i : Got(p, q, i) => Got(p, q, i)'
    BY <1>2, <1>4, <1>5, <1>6, GotStays
  <2>2. Acked(q)' = Acked(q)
    BY <1>5, <1>6, <1>7 DEF Acked
  <2>3. QED
    BY <1>2, <1>6, <2>1, <2>2, PhaseStays
<1>13. Announced(p, q)' /\ Announced(q, p)'
  BY <1>2, <1>5, AnnouncedStays
<1>14. Sound'
  BY <1>1, <1>2, <1>5, <1>6, SoundStays DEF CalmPlaces
<1>15. OneBlock'
  BY <1>5, <1>6 DEF CalmState, OneBlock
<1>16. QED
  BY <1>1, <1>5, <1>11, <1>12, <1>13, <1>14, <1>15, BothSides DEF CalmState

\* A slice has been acknowledged.
LEMMA RecvAckCalm == ASSUME TypeIInv, CalmState, NEW p \in Node, RecvAck(p) PROVE CalmState'
<1>1. PICK q : q = Peer(p)
  OBVIOUS
<1>2. /\ q \in Node /\ q # p /\ p = Peer(q) /\ \A r \in Node : r = p \/ r = q
      /\ Phase(p, q) /\ Phase(q, p) /\ Announced(p, q) /\ Announced(q, p)
      /\ result[p] /\ lastError[p] = "ok"
      /\ sendPending[p] => ~sendPending[q]
      /\ worker[p] \in {"loop", "ack", "notify"} => sendPending[p]
      /\ worker[q] \in {"loop", "ack", "notify"} => sendPending[q]
  BY <1>1, Sides
<1>3. /\ worker[p] = "ack" /\ worker' = [worker EXCEPT ![p] = "loop"] /\ chan[p] # <<>> /\ sendPending[p]
      /\ ~sendPending[q] /\ Take(p)
  BY <1>2 DEF RecvAck, WorkerGoes, Set
<1>4. UNCHANGED <<connected, linked, sendPending, sentSlices, recvPending, recvEvt, TxBuffer, RxBuffer, recvLast, lastError,
                  result, app, picked, nBlocks, delivered, failures>>
  BY DEF RecvAck, flagVars, bufVars, appVars
<1>5. worker'[p] = "loop" /\ worker'[q] = worker[q] /\ worker[q] \notin {"loop", "ack", "notify"}
  BY <1>2, <1>3 DEF TypeIInv, ThreadTypes
<1>6. AckUnderWay(p, q)
  BY <1>2, <1>3 DEF Phase, Quiet, SliceUnderWay
<1>7. chan'[p] = <<>> /\ chan'[q] = <<>>
  <2>1. chan'[p] = Tail(chan[p]) /\ chan'[q] = chan[q]
    BY <1>1, <1>3, TakeLemma DEF TypeIInv
  <2>2. QED
    BY <1>6, <2>1, PduTypes DEF AckUnderWay
<1>8. Phase(p, q)'
  <2>1. PICK k : k = sentSlices[p]
    OBVIOUS
  <2>2. Got(q, p, k)
    BY <1>6, <2>1 DEF AckUnderWay
  <2>3. Got(q, p, k)'
    BY <1>2, <1>4, <1>5, <2>2, GotStays
  <2>4. Acked(p)' = k
    BY <1>3, <1>4, <1>5, <2>1 DEF Acked
  <2>5. Got(q, p, Acked(p))'
    BY <2>3, <2>4
  <2>6. QED
    BY <1>5, <2>5 DEF Phase, Quiet
<1>9. Phase(q, p)'
  <2>1. \A i : Got(p, q, i) => Got(p, q, i)'
    BY <1>2, <1>3, <1>4, <1>5, GotStays
  <2>2. Acked(q)' = Acked(q)
    BY <1>4, <1>5 DEF Acked
  <2>3. QED
    BY <1>2, <1>5, <2>1, <2>2, PhaseStays
<1>10. Announced(p, q)' /\ Announced(q, p)'
  BY <1>2, <1>4, AnnouncedStays
<1>11. Sound'
  BY <1>1, <1>2, <1>4, <1>5, SoundStays DEF CalmPlaces
<1>12. OneBlock'
  BY <1>2, <1>4, <1>7 DEF CalmState, OneBlock
<1>13. QED
  BY <1>1, <1>4, <1>8, <1>9, <1>10, <1>11, <1>12, BothSides DEF CalmState

\* The application hands over a block when nothing is under way.
LEMMA BSendCalm == ASSUME TypeIInv, CalmState, Calm, NEW p \in Node, BSend(p) PROVE CalmState'
<1>1. PICK q : q = Peer(p)
  OBVIOUS
<1>2. /\ q \in Node /\ q # p /\ p = Peer(q) /\ \A r \in Node : r = p \/ r = q
      /\ Phase(p, q) /\ Phase(q, p) /\ Announced(p, q) /\ Announced(q, p)
      /\ worker[p] \in {"loop", "ack", "notify"} => sendPending[p]
      /\ worker[q] \in {"loop", "ack", "notify"} => sendPending[q]
  BY <1>1, Sides
<1>3. /\ ~sendPending[p] /\ ~sendPending[q] /\ app[q] = "idle" /\ ~recvEvt[p] /\ ~recvEvt[q]
      /\ Len(delivered[q]) = nBlocks[p]
  BY <1>1, <1>2 DEF BSend, Turn, Calm
<1>4. /\ nBlocks' = [nBlocks EXCEPT ![p] = nBlocks[p] + 1]
      /\ sendPending' = [sendPending EXCEPT ![p] = TRUE]
      /\ app' = [app EXCEPT ![p] = "wait"]
  BY DEF BSend, Set, Calm
<1>5. PICK n \in 1..MaxSlices : TxBuffer' = [TxBuffer EXCEPT ![p] = [block |-> nBlocks[p] + 1, slices |-> n]]
  BY DEF BSend, Set
<1>6. UNCHANGED <<connected, linked, chan, recvPending, recvEvt, RxBuffer, recvLast, lastError, picked, worker,
                  sentSlices, result, delivered, failures>>
  BY DEF BSend, linkVars, wrkVars
<1>7. nBlocks \in [Node -> Nat] /\ sentSlices[p] = 0
  <2>1. nBlocks \in [Node -> Nat]
    BY PartnerAssumption DEF TypeIInv, ThreadTypes
  <2>2. sentSlices[p] = 0
    BY <1>2, <1>3 DEF TypeIInv, SlicesKept
  <2>3. QED
    BY <2>1, <2>2
<1>8. /\ nBlocks'[p] = nBlocks[p] + 1 /\ nBlocks'[q] = nBlocks[q] /\ sendPending'[p] = TRUE
      /\ sendPending'[q] = FALSE /\ app'[p] = "wait" /\ app'[q] = "idle"
      /\ TxBuffer'[q] = TxBuffer[q] /\ TxBuffer'[p].block = nBlocks[p] + 1 /\ TxBuffer'[p].slices = n
  BY <1>2, <1>3, <1>4, <1>5, <1>7 DEF TypeIInv, ThreadTypes, FieldTypes
<1>9. Has(q, nBlocks[p]) /\ Between(q)
  <2>1. PICK k : Got(q, p, k)
    BY <1>2, SomethingGot
  <2>2. ~Has(q, nBlocks[p] - 1)
    BY <1>3, <1>7 DEF Has
  <2>3. QED
    BY <2>1, <2>2 DEF Got
<1>10. Phase(p, q)'
  <2>1. nBlocks'[p] - 1 = nBlocks[p]
    BY <1>7, <1>8
  <2>2. Has(q, nBlocks[p] - 1)' /\ Between(q)'
    BY <1>6, <1>9, <2>1 DEF Has, Between
  <2>3. worker[p] \notin {"loop", "ack", "notify"}
    BY <1>2, <1>3
  <2>4. Got(q, p, 0)'
    BY <1>3, <1>6, <1>8, <2>2 DEF Got
  <2>5. Acked(p)' = 0
    BY <1>6, <1>7, <1>8, <2>3 DEF Acked
  <2>6. Got(q, p, Acked(p))'
    BY <2>4, <2>5
  <2>7. QED
    BY <1>6, <2>3, <2>6 DEF Phase, Quiet
<1>11. Phase(q, p)'
  <2>1. \A i : Got(p, q, i) => Got(p, q, i)'
    BY <1>2, <1>6, <1>8, GotStays
  <2>2. Acked(q)' = Acked(q)
    BY <1>3, <1>6, <1>8 DEF Acked
  <2>3. worker[q] # "ack" /\ worker'[q] # "ack"
    BY <1>2, <1>3, <1>6
  <2>4. QED
    BY <1>2, <2>1, <2>2, <2>3, PhaseStays
<1>12. Announced(p, q)' /\ Announced(q, p)'
  BY <1>3, <1>6, <1>8 DEF Announced
<1>13. Sound'
  BY <1>6 DEF CalmState, Sound
<1>14. OneBlock'
  <2>1. ASSUME NEW r \in Node
        PROVE  /\ sendPending'[r] => ~sendPending'[Peer(r)]
               /\ TxBuffer'[r].block = nBlocks'[r] /\ (sendPending'[r] => nBlocks'[r] > 0)
    <3>1. CASE r = p
      BY <1>1, <1>7, <1>8, <3>1
    <3>2. CASE r = q
      BY <1>2, <1>8, <3>2 DEF CalmState, OneBlock
    <3>3. QED
      BY <1>2, <3>1, <3>2
  <2>2. QED
    BY <1>6, <2>1 DEF CalmState, OneBlock
<1>15. QED
  BY <1>1, <1>6, <1>10, <1>11, <1>12, <1>13, <1>14, BothSides DEF CalmState

\* A connection on which there is at most a slice is not broken.
LEMMA NotBroken ==
  ASSUME NEW p \in Node, connected[p], NEW m, m.kind = "slice", chan[p] = <<>> \/ chan[p] = <<m>>
  PROVE  ~Broken(p)
<1>1. ASSUME NEW i \in 1..Len(chan[p]) PROVE chan[p][i].kind # "closed"
  <2>1. CASE chan[p] = <<>>
    <3>1. Len(<<>>) = 0 /\ i \in 1..Len(<<>>)
      BY <2>1
    <3>2. QED
      BY <3>1
  <2>2. CASE chan[p] = <<m>>
    <3>1. Len(<<m>>) = 1 /\ <<m>>[1] = m /\ i \in 1..Len(<<m>>)
      BY <2>2
    <3>2. QED
      BY <2>2, <3>1
  <2>3. QED
    BY <2>1, <2>2
<1>2. QED
  BY <1>1 DEF Broken

\* A slice arrives and is put to those that came before.
LEMMA RecvSliceCalm == ASSUME TypeIInv, CalmState, NEW p \in Node, RecvSlice(p) PROVE CalmState'
<1>1. PICK q : q = Peer(p)
  OBVIOUS
<1>2. /\ q \in Node /\ q # p /\ p = Peer(q) /\ \A r \in Node : r = p \/ r = q
      /\ Phase(p, q) /\ Phase(q, p) /\ Announced(p, q) /\ Announced(q, p)
      /\ connected[p] /\ connected[q] /\ result[p]
      /\ worker[q] \in {"loop", "ack", "notify"} => sendPending[q]
      /\ sendPending[p] => ~sendPending[q]
      /\ worker[p] # "ack" /\ worker[q] # "ack" => chan[p] = <<>> /\ chan[q] = <<>>
  BY <1>1, Sides
<1>3. worker[p] = "recv" /\ chan[p] # <<>>
  BY DEF RecvSlice, Incoming, WorkerGoes
<1>4. worker[q] = "ack" /\ sendPending[q] /\ ~sendPending[p]
  BY <1>2, <1>3
<1>5. SliceUnderWay(q, p)
  BY <1>2, <1>3, <1>4 DEF Phase, Quiet, AckUnderWay
<1>6. PICK k : k = sentSlices[q]
  OBVIOUS
<1>7. PICK m : m = Slice(TxBuffer[q], k)
  OBVIOUS
<1>8. /\ k \in Nat /\ k > 0 /\ k <= TxBuffer[q].slices /\ TxBuffer[q].slices \in 0..MaxSlices
      /\ k \in 0..MaxSlices /\ m \in PduType /\ m.kind = "slice"
  <2>1. k \in Nat /\ k > 0 /\ k <= TxBuffer[q].slices /\ TxBuffer[q] \in [block: 0..MaxEvents, slices: 0..MaxSlices]
    BY <1>2, <1>5, <1>6 DEF SliceUnderWay, TypeIInv, ThreadTypes, FieldTypes, SlicesKept
  <2>2. k \in 0..MaxSlices
    BY <2>1, PartnerAssumption
  <2>3. QED
    BY <1>7, <2>1, <2>2, SliceTypes
<1>9. chan[p] = <<m>> /\ chan[q] = <<>> /\ Got(p, q, k - 1) /\ Head(chan[p]) = m
  BY <1>5, <1>6, <1>7 DEF SliceUnderWay
<1>10. /\ Has(p, nBlocks[q] - 1) /\ ~recvEvt[p] /\ TxBuffer[q].slices > 0
       /\ IF k = 1 THEN Between(p) ELSE Part(p, q, k - 1)
  BY <1>8, <1>9 DEF Got
<1>11. PICK rx : rx = IF StartsBlock(p) THEN <<m>> ELSE Append(RxBuffer[p], m)
  OBVIOUS
<1>12. /\ TakeAndSend(p, Pdu("ack"))
       /\ RxBuffer' = [RxBuffer EXCEPT ![p] = rx]
       /\ recvPending' = [recvPending EXCEPT ![p] = TRUE]
       /\ lastError' = [lastError EXCEPT ![p] = "ok"]
       /\ worker' = [worker EXCEPT ![p] = "picked"]
       /\ \E v : recvLast' = [recvLast EXCEPT ![p] = v]
  <2>1. ~Broken(p)
    BY <1>2, <1>8, <1>9, NotBroken
  <2>2. QED
    BY <1>9, <1>11, <2>1 DEF RecvSlice, BeginRecv, WorkerGoes, Set
<1>13. UNCHANGED <<connected, linked, sendPending, recvEvt, TxBuffer, sentSlices, result, app, picked, nBlocks, failures,
                   delivered>>
  BY DEF RecvSlice, appVars
<1>14. /\ RxBuffer'[p] = rx /\ RxBuffer'[q] = RxBuffer[q] /\ recvPending'[p] = TRUE
       /\ recvPending'[q] = recvPending[q] /\ lastError'[p] = "ok" /\ lastError'[q] = lastError[q]
       /\ worker'[p] = "picked" /\ worker'[q] = worker[q] /\ recvLast'[q] = recvLast[q]
  <2>1. /\ worker \in [Node -> Places] /\ RxBuffer \in [Node -> Seq(PduType)] /\ recvPending \in [Node -> BOOLEAN]
        /\ lastError \in [Node -> {"ok", "error"}] /\ recvLast \in [Node -> RecvType]
    BY DEF TypeIInv, ThreadTypes, FieldTypes
  <2>2. recvLast'[q] = recvLast[q]
    BY <1>2, <1>12, <2>1
  <2>3. QED
    BY <1>2, <1>12, <2>1, <2>2
<1>15. chan'[p] = <<>> /\ chan'[q] = <<Pdu("ack")>>
  <2>1. Pdu("ack") \in PduType /\ LinkTypes
    BY PduTypes DEF TypeIInv
  <2>2. PICK a : a = Pdu("ack")
    OBVIOUS
  <2>3. chan'[p] = Tail(chan[p]) /\ chan'[q] = Append(chan[q], a)
    BY <1>1, <1>2, <1>3, <1>12, <2>1, <2>2, TakeAndSendLemma
  <2>4. Append(<<>>, a) = <<a>> /\ Tail(<<m>>) = <<>>
    OBVIOUS
  <2>5. QED
    BY <1>9, <2>2, <2>3, <2>4
<1>16. Len(rx) = k /\ \A i \in 1..k : rx[i] = Slice(TxBuffer[q], i)
  <2>1. CASE k = 1
    <3>1. rx = <<m>>
      BY <1>10, <1>11, <2>1 DEF Between, StartsBlock
    <3>2. QED
      BY <1>7, <2>1, <3>1
  <2>2. CASE k # 1
    <3>1. k - 1 # 0 /\ k - 1 \in Nat
      BY <1>8, <2>2
    <3>2. recvPending[p] /\ Len(RxBuffer[p]) = k - 1 /\ \A i \in 1..k - 1 : RxBuffer[p][i] = Slice(TxBuffer[q], i)
      BY <1>10, <2>2 DEF Part
    <3>3. rx = Append(RxBuffer[p], m) /\ RxBuffer[p] \in Seq(PduType)
      BY <1>11, <3>2 DEF StartsBlock, TypeIInv, FieldTypes
    <3>4. Len(rx) = k /\ rx[k] = m /\ \A i \in 1..k - 1 : rx[i] = RxBuffer[p][i]
      BY <1>8, <3>2, <3>3, AppendProperties
    <3>5. QED
      BY <1>7, <1>8, <3>2, <3>4
  <2>3. QED
    BY <2>1, <2>2
<1>17. Got(p, q, k)'
  <2>1. (\A i \in 1..k : RxBuffer[p][i] = Slice(TxBuffer[q], i))'
    <3>1. \A i : Slice(TxBuffer[q], i)' = Slice(TxBuffer[q], i)
      BY <1>13 DEF Slice
    <3>2. QED
      BY <1>14, <1>16, <3>1
  <2>2. Part(p, q, k)'
    BY <1>14, <1>16, <2>1 DEF Part
  <2>3. Has(p, nBlocks[q] - 1)'
    BY <1>10, <1>13 DEF Has
  <2>4. QED
    BY <1>8, <1>10, <1>13, <2>2, <2>3 DEF Got
<1>18. Phase(q, p)'
  <2>1. Got(p, q, sentSlices[q])'
    BY <1>6, <1>13, <1>17
  <2>2. AckUnderWay(q, p)'
    BY <1>4, <1>6, <1>8, <1>13, <1>14, <1>15, <2>1 DEF AckUnderWay
  <2>3. QED
    BY <2>2 DEF Phase
<1>19. Phase(p, q)'
  <2>1. \A i : Got(q, p, i) => Got(q, p, i)'
    BY <1>2, <1>13, <1>14, GotStays
  <2>2. Acked(p)' = Acked(p)
    BY <1>3, <1>13, <1>14 DEF Acked
  <2>3. QED
    BY <1>2, <1>3, <1>14, <2>1, <2>2, PhaseStays
<1>20. Announced(p, q)' /\ Announced(q, p)'
  <2>1. Announced(p, q)'
    BY <1>2, <1>10, <1>13 DEF Announced
  <2>2. QED
    BY <1>2, <1>13, <1>14, <2>1, AnnouncedStays
<1>21. Sound'
  BY <1>1, <1>2, <1>13, <1>14, SoundStays DEF CalmPlaces
<1>22. OneBlock'
  BY <1>2, <1>4, <1>13, <1>14 DEF CalmState, OneBlock
<1>23. QED
  BY <1>1, <1>13, <1>18, <1>19, <1>20, <1>21, <1>22, BothSides DEF CalmState

\* What PickData and BlockRecv find in RxBuffer: the slices of a block of q's that have
\* come so far, which is complete when its last one is there.
LEMMA SlicesFound ==
  ASSUME TypeIInv, CalmState, NEW p \in Node, NEW q, q = Peer(p), worker[p] \in {"picked", "report"}, NEW k, Got(p, q, k)
  PROVE  /\ Has(p, nBlocks[q] - 1) /\ ~recvEvt[p] /\ Part(p, q, k) /\ k # 0 /\ k \in Nat
         /\ BlockDone(p) <=> k = TxBuffer[q].slices
         /\ RxBuffer[p][1].block = nBlocks[q] /\ nBlocks[q] \in Nat /\ nBlocks[q] > 0
         /\ k = TxBuffer[q].slices => Whole(RxBuffer[p]) = nBlocks[q]
<1>1. q \in Node /\ TxBuffer[q].block = nBlocks[q]
  BY Sides
<1>2. Has(p, nBlocks[q] - 1) /\ ~recvEvt[p] /\ Part(p, q, k) /\ k # 0
  BY DEF Got, Between
<1>3. RxBuffer[p] \in Seq(PduType) /\ Len(RxBuffer[p]) = k /\ k \in Nat /\ k \in 1..k /\ 1 \in 1..k
  <2>1. RxBuffer[p] \in Seq(PduType) /\ Len(RxBuffer[p]) = k
    BY <1>2 DEF Part, TypeIInv, FieldTypes
  <2>2. k \in Nat
    BY <2>1
  <2>3. QED
    BY <1>2, <2>1, <2>2
<1>4. ASSUME NEW i \in 1..k
      PROVE  /\ RxBuffer[p][i].block = nBlocks[q] /\ RxBuffer[p][i].slice = i
             /\ (RxBuffer[p][i].last <=> i = TxBuffer[q].slices)
  <2>1. RxBuffer[p][i] = [kind |-> "slice", block |-> TxBuffer[q].block, slice |-> i, last |-> i = TxBuffer[q].slices]
    BY <1>2 DEF Part, Slice
  <2>2. RxBuffer[p][i].block = TxBuffer[q].block /\ RxBuffer[p][i].slice = i
        /\ RxBuffer[p][i].last = (i = TxBuffer[q].slices)
    BY <2>1
  <2>3. QED
    BY <1>1, <2>2
<1>5. BlockDone(p) <=> k = TxBuffer[q].slices
  BY <1>3, <1>4 DEF BlockDone
<1>6. nBlocks[q] \in Nat /\ nBlocks[q] > 0
  <2>1. nBlocks[q] \in Nat /\ delivered[p] \in Seq(Nat)
    BY <1>1, PartnerAssumption DEF TypeIInv, ThreadTypes, CalmState
  <2>2. Len(delivered[p]) = nBlocks[q] - 1
    BY <1>2 DEF Has
  <2>3. Len(delivered[p]) \in Nat
    BY <2>1
  <2>4. QED
    BY <2>1, <2>2, <2>3
<1>7. k = TxBuffer[q].slices => Whole(RxBuffer[p]) = nBlocks[q]
  <2>1. RxBuffer[p][1].block = nBlocks[q]
    BY <1>3, <1>4
  <2>2. k = TxBuffer[q].slices =>
          \A i \in 1..Len(RxBuffer[p]) : /\ RxBuffer[p][i].block = RxBuffer[p][1].block /\ RxBuffer[p][i].slice = i
                                         /\ (RxBuffer[p][i].last <=> i = Len(RxBuffer[p]))
    BY <1>3, <1>4, <2>1
  <2>3. QED
    BY <2>1, <2>2 DEF Whole
<1>8. QED
  BY <1>2, <1>3, <1>4, <1>5, <1>6, <1>7

\* The sequence goes on, or the block is reported.
LEMMA PickResultCalm == ASSUME TypeIInv, CalmState, NEW p \in Node, PickResult(p) PROVE CalmState'
<1>1. PICK q : q = Peer(p)
  OBVIOUS
<1>2. /\ q \in Node /\ q # p /\ p = Peer(q) /\ \A r \in Node : r = p \/ r = q
      /\ Phase(p, q) /\ Phase(q, p) /\ Announced(p, q) /\ Announced(q, p) /\ result[p] /\ lastError[p] = "ok"
  BY <1>1, Sides
<1>3. /\ worker[p] = "picked" /\ worker'[p] = (IF BlockDone(p) THEN "report" ELSE "check")
      /\ worker'[q] = worker[q] /\ result'[p] /\ result'[q] = result[q]
  <2>1. worker \in [Node -> Places] /\ result \in [Node -> BOOLEAN]
    BY DEF TypeIInv, ThreadTypes
  <2>2. result' = [result EXCEPT ![p] = lastError[p] = "ok"]
    BY DEF PickResult, Set
  <2>3. result'[p] /\ result'[q] = result[q]
    BY <1>2, <2>1, <2>2
  <2>4. worker[p] = "picked" /\ worker'[p] = (IF BlockDone(p) THEN "report" ELSE "check") /\ worker'[q] = worker[q]
    BY <1>2, <2>1 DEF PickResult, WorkerGoes, Set
  <2>5. QED
    BY <2>3, <2>4
<1>4. UNCHANGED <<connected, linked, chan, sendPending, recvPending, recvEvt, TxBuffer, RxBuffer, recvLast, lastError, sentSlices,
                  app, picked, nBlocks, delivered, failures>>
  BY DEF PickResult, linkVars, flagVars, bufVars, appVars
<1>5. Phase(q, p)'
  <2>1. ASSUME NEW k, Got(p, q, k) PROVE Got(p, q, k)'
    <3>1. /\ Has(p, nBlocks[q] - 1) /\ ~recvEvt[p] /\ Part(p, q, k) /\ k # 0
          /\ BlockDone(p) <=> k = TxBuffer[q].slices
      BY <1>1, <1>3, <2>1, SlicesFound
    <3>2. \A i : Slice(TxBuffer[q], i)' = Slice(TxBuffer[q], i)
      BY <1>4 DEF Slice
    <3>3. (\A i \in 1..k : RxBuffer[p][i] = Slice(TxBuffer[q], i))'
      BY <1>4, <3>1, <3>2 DEF Part
    <3>4. Part(p, q, k)'
      BY <1>3, <1>4, <3>1, <3>3 DEF Part
    <3>5. Has(p, nBlocks[q] - 1)'
      BY <1>4, <3>1 DEF Has
    <3>6. QED
      BY <1>4, <3>1, <3>4, <3>5 DEF Got
  <2>2. Acked(q)' = Acked(q)
    BY <1>3, <1>4 DEF Acked
  <2>3. QED
    BY <1>2, <1>3, <1>4, <2>1, <2>2, PhaseStays
<1>6. Phase(p, q)'
  <2>1. \A i : Got(q, p, i) => Got(q, p, i)'
    BY <1>2, <1>3, <1>4, GotStays
  <2>2. Acked(p)' = Acked(p)
    BY <1>3, <1>4 DEF Acked
  <2>3. QED
    BY <1>2, <1>3, <2>1, <2>2, PhaseStays
<1>7. Announced(p, q)' /\ Announced(q, p)'
  BY <1>2, <1>4, AnnouncedStays
<1>8. Sound'
  BY <1>1, <1>2, <1>3, <1>4, SoundStays DEF CalmPlaces
<1>9. OneBlock'
  <2>1. (\A r \in Node : worker[r] # "ack")' => \A r \in Node : worker[r] # "ack"
    BY <1>2, <1>3
  <2>2. QED
    BY <1>4, <2>1 DEF CalmState, OneBlock
<1>10. QED
  BY <1>1, <1>4, <1>5, <1>6, <1>7, <1>8, <1>9, BothSides DEF CalmState

\* The block is complete and is reported.
LEMMA RecvReportCalm == ASSUME TypeIInv, CalmState, NEW p \in Node, RecvReport(p) PROVE CalmState'
<1>1. PICK q : q = Peer(p)
  OBVIOUS
<1>2. /\ q \in Node /\ q # p /\ p = Peer(q) /\ \A r \in Node : r = p \/ r = q
      /\ Phase(p, q) /\ Phase(q, p) /\ Announced(p, q) /\ Announced(q, p) /\ result[p] /\ lastError[p] = "ok"
  BY <1>1, Sides
<1>3. PICK b : b = RxBuffer[p][1].block
  OBVIOUS
<1>4. PICK w : w = Whole(RxBuffer[p])
  OBVIOUS
<1>5. /\ worker[p] = "report" /\ worker' = [worker EXCEPT ![p] = "check"]
      /\ recvLast' = [recvLast EXCEPT ![p] = [done |-> TRUE, result |-> "ok", block |-> b]]
      /\ recvEvt' = [recvEvt EXCEPT ![p] = TRUE]
      /\ recvPending' = [recvPending EXCEPT ![p] = FALSE]
      /\ delivered' = [delivered EXCEPT ![p] = Append(delivered[p], w)]
  BY <1>2, <1>3, <1>4 DEF RecvReport, WorkerGoes, Set
<1>6. UNCHANGED <<connected, linked, chan, sendPending, TxBuffer, RxBuffer, lastError, sentSlices, result,
                  app, picked, nBlocks, failures>>
  BY DEF RecvReport, linkVars, appVars
<1>7. PICK j : Got(p, q, j)
  BY <1>2, SomethingGot
<1>8. /\ Has(p, nBlocks[q] - 1) /\ ~recvEvt[p] /\ j = TxBuffer[q].slices
      /\ b = nBlocks[q] /\ w = nBlocks[q] /\ nBlocks[q] \in Nat /\ nBlocks[q] > 0
  <2>1. /\ Has(p, nBlocks[q] - 1) /\ ~recvEvt[p] /\ Part(p, q, j) /\ b = nBlocks[q] /\ nBlocks[q] \in Nat /\ nBlocks[q] > 0
        /\ j = TxBuffer[q].slices => w = nBlocks[q]
    BY <1>1, <1>3, <1>4, <1>5, <1>7, SlicesFound
  <2>2. j = TxBuffer[q].slices
    BY <1>5, <2>1 DEF Part
  <2>3. QED
    BY <2>1, <2>2
<1>9. /\ worker'[p] = "check" /\ worker'[q] = worker[q] /\ recvPending'[p] = FALSE /\ recvPending'[q] = recvPending[q]
      /\ recvEvt'[p] = TRUE /\ recvEvt'[q] = recvEvt[q] /\ recvLast'[q] = recvLast[q]
      /\ recvLast'[p].block = nBlocks[q] /\ recvLast'[p].result = "ok"
  <2>1. /\ worker \in [Node -> Places] /\ recvPending \in [Node -> BOOLEAN] /\ recvEvt \in [Node -> BOOLEAN]
        /\ recvLast \in [Node -> RecvType]
    BY DEF TypeIInv, ThreadTypes, FieldTypes
  <2>2. QED
    BY <1>2, <1>5, <1>8, <2>1
<1>10. /\ delivered' \in [Node -> Seq(Nat)] /\ delivered'[q] = delivered[q]
       /\ Len(delivered'[p]) = nBlocks[q] /\ \A i \in 1..nBlocks[q] : delivered'[p][i] = i
  <2>1. delivered \in [Node -> Seq(Nat)] /\ delivered[p] \in Seq(Nat)
    BY DEF CalmState
  <2>2. PICK d : d = Append(delivered[p], nBlocks[q])
    OBVIOUS
  <2>3. Len(delivered[p]) = nBlocks[q] - 1 /\ \A i \in 1..nBlocks[q] - 1 : delivered[p][i] = i
    BY <1>8 DEF Has
  <2>4. /\ d \in Seq(Nat) /\ Len(d) = nBlocks[q] /\ d[nBlocks[q]] = nBlocks[q]
        /\ \A i \in 1..nBlocks[q] - 1 : d[i] = delivered[p][i]
    BY <1>8, <2>1, <2>2, <2>3, AppendProperties
  <2>5. ASSUME NEW i \in 1..nBlocks[q] PROVE d[i] = i
    <3>1. i = nBlocks[q] \/ i \in 1..nBlocks[q] - 1
      BY <1>8
    <3>2. QED
      BY <2>3, <2>4, <3>1
  <2>6. delivered' = [delivered EXCEPT ![p] = d]
    BY <1>5, <1>8, <2>2
  <2>7. delivered'[p] = d /\ delivered'[q] = delivered[q] /\ delivered' \in [Node -> Seq(Nat)]
    BY <1>2, <2>1, <2>4, <2>6
  <2>8. QED
    BY <2>4, <2>5, <2>7
<1>11. Phase(q, p)'
  <2>1. Has(p, nBlocks[q])' /\ Between(p)'
    BY <1>6, <1>9, <1>10 DEF Has, Between
  <2>2. ASSUME NEW k, Got(p, q, k) PROVE Got(p, q, k)'
    <3>1. Part(p, q, k)
      BY <1>1, <1>5, <2>2, SlicesFound
    <3>2. k = TxBuffer[q].slices
      BY <1>5, <3>1 DEF Part
    <3>3. QED
      BY <1>6, <2>1, <3>2 DEF Got
  <2>3. Acked(q)' = Acked(q)
    BY <1>6, <1>9 DEF Acked
  <2>4. QED
    BY <1>2, <1>6, <1>9, <2>2, <2>3, PhaseStays
<1>12. Phase(p, q)'
  <2>1. \A i : Got(q, p, i) => Got(q, p, i)'
    BY <1>2, <1>6, <1>9, <1>10, GotStays
  <2>2. Acked(p)' = Acked(p)
    BY <1>5, <1>6, <1>9 DEF Acked
  <2>3. QED
    BY <1>2, <1>5, <1>9, <2>1, <2>2, PhaseStays
<1>13. Announced(p, q)'
  <2>1. app[p] # "copy"
    BY <1>2, <1>8 DEF Announced
  <2>2. (Whole(RxBuffer[p]))' = nBlocks[q]
    BY <1>4, <1>6, <1>8 DEF Whole
  <2>3. QED
    BY <1>6, <1>8, <1>9, <2>1, <2>2 DEF Announced
<1>14. Announced(q, p)'
  BY <1>2, <1>6, <1>9, AnnouncedStays
<1>15. Sound'
  BY <1>1, <1>2, <1>6, <1>9, SoundStays DEF CalmPlaces
<1>16. OneBlock'
  <2>1. (\A r \in Node : worker[r] # "ack")' => \A r \in Node : worker[r] # "ack"
    BY <1>2, <1>5, <1>9
  <2>2. QED
    BY <1>6, <2>1 DEF CalmState, OneBlock
<1>17. QED
  BY <1>1, <1>10, <1>11, <1>12, <1>13, <1>14, <1>15, <1>16, BothSides

\* Nothing else happens.
LEMMA NothingFails ==
  ASSUME TypeIInv, CalmState, Calm, [Next]_vars
  PROVE  \/ UNCHANGED vars
         \/ \E p \in Node :
              \/ StartSend(p) \/ SkipSend(p) \/ NothingToRead(p) \/ Check(p)
              \/ WaitSend(p) \/ BRecv(p) \/ BRecvCopy(p) \/ NextSlice(p) \/ RecvAck(p)
              \/ SendResult(p) \/ SendDone(p) \/ RecvSlice(p) \/ PickResult(p) \/ RecvReport(p) \/ BSend(p)
<1>1. ~MayFail /\ failures = 0
  BY DEF MayFail, Calm, CalmState, Sound
<1>2. ASSUME NEW p \in Node
      PROVE  /\ linked[p] /\ connected[p] /\ result[p] /\ lastError[p] = "ok" /\ worker[p] \in CalmPlaces
             /\ worker[p] = "recv" /\ chan[p] # <<>> => Head(chan[p]).kind = "slice"
             /\ worker[p] = "ack" /\ chan[p] # <<>> => Head(chan[p]).kind # "closed"
             /\ worker[p] = "ack" => ~Unanswered(p)
             /\ worker[p] # "ack" => ~Broken(p)
  <2>1. PICK q : q = Peer(p)
    OBVIOUS
  <2>2. /\ q \in Node /\ Phase(p, q) /\ Phase(q, p)
        /\ worker[p] # "ack" /\ worker[q] # "ack" => chan[p] = <<>> /\ chan[q] = <<>>
        /\ worker[p] \in {"loop", "ack", "notify"} => sendPending[p]
        /\ worker[q] \in {"loop", "ack", "notify"} => sendPending[q]
    BY <2>1, Sides
  <2>3. PICK m : m = Slice(TxBuffer[q], sentSlices[q])
    OBVIOUS
  <2>4. worker[q] = "ack" => chan[p] = <<>> \/ chan[p] = <<m>>
    BY <2>2, <2>3 DEF Phase, Quiet, SliceUnderWay, AckUnderWay
  <2>5. worker[p] = "ack" => (chan[p] = <<>> /\ chan[q] # <<>>) \/ chan[p] = <<Pdu("ack")>>
    <3>1. PICK x : x = Slice(TxBuffer[p], sentSlices[p])
      OBVIOUS
    <3>2. <<x>> # <<>>
      OBVIOUS
    <3>3. worker[p] = "ack" => SliceUnderWay(p, q) \/ AckUnderWay(p, q)
      BY <2>2 DEF Phase, Quiet
    <3>4. SliceUnderWay(p, q) => chan[p] = <<>> /\ chan[q] # <<>>
      BY <3>1, <3>2 DEF SliceUnderWay
    <3>5. AckUnderWay(p, q) => chan[p] = <<Pdu("ack")>>
      BY DEF AckUnderWay
    <3>6. QED
      BY <3>3, <3>4, <3>5
  <2>6. Pdu("ack").kind = "ack" /\ m.kind = "slice"
    BY <2>3 DEF Pdu, Slice
  <2>7. linked[p] /\ connected[p] /\ result[p] /\ lastError[p] = "ok" /\ worker[p] \in CalmPlaces
    BY DEF CalmState, Sound
  <2>8. worker[p] = "ack" => ~Unanswered(p)
    BY <2>1, <2>5 DEF Unanswered
  <2>9. worker[p] # "ack" => ~Broken(p)
    <3>1. worker[p] # "ack" => chan[p] = <<>> \/ chan[p] = <<m>>
      BY <2>2, <2>4
    <3>2. QED
      BY <2>6, <2>7, <3>1, NotBroken
  <2>10. worker[p] = "recv" /\ chan[p] # <<>> => Head(chan[p]).kind = "slice"
    <3>1. Head(<<m>>) = m
      OBVIOUS
    <3>2. worker[p] = "recv" /\ chan[p] # <<>> => chan[p] = <<m>>
      BY <2>2, <2>4
    <3>3. QED
      BY <2>6, <3>1, <3>2
  <2>11. worker[p] = "ack" /\ chan[p] # <<>> => Head(chan[p]).kind # "closed"
    <3>1. PICK a : a = Pdu("ack")
      OBVIOUS
    <3>2. Head(<<a>>) = a
      OBVIOUS
    <3>3. QED
      BY <2>5, <2>6, <3>1, <3>2
  <2>12. QED
    BY <2>7, <2>8, <2>9, <2>10, <2>11
<1>3. ASSUME NEW p \in Node, SliceFails(p) \/ AckFails(p) \/ LoopBreaks(p) PROVE FALSE
  BY <1>1, <1>2, <1>3 DEF SliceFails, AckFails, LoopBreaks, WorkerGoes
<1>4. ASSUME NEW p \in Node,
             RecvClosed(p) \/ RecvConnect(p) \/ RecvNegotiate(p) \/ Link(p) \/ PickRefused(p) \/ CheckTimeout(p)
      PROVE  FALSE
  BY <1>1, <1>2, <1>4 DEF RecvClosed, RecvConnect, RecvNegotiate, Link, PickRefused, CheckTimeout, WorkerGoes, Incoming,
                          CalmPlaces
<1>5. ~Connect /\ ~ConnectConfirmed /\ ~ConnectNegotiated /\ ~ConnectFailed /\ ~PingFails /\ ~Accepted /\ ~Break
  <2>1. "active" \in Node /\ "passive" \in Node
    BY DEF Node
  <2>2. QED
    BY <1>1, <1>2, <2>1 DEF Connect, ConnectConfirmed, ConnectNegotiated, ConnectFailed, PingFails, Accepted, Break,
                            WorkerGoes, CalmPlaces
<1>6. ASSUME NEW p \in Node, BSendNotLinked(p) \/ WaitSendTimeout(p) \/ BRecvTimeout(p) \/ Stop(p) \/ Start(p)
      PROVE  FALSE
  BY <1>1, <1>2, <1>6 DEF BSendNotLinked, WaitSendTimeout, BRecvTimeout, Stop, Start, WorkerGoes, CalmPlaces
<1>7. QED
  BY <1>3, <1>4, <1>5, <1>6 DEF Next, Worker, App

\* Applications that do not take turns do not begin to.
LEMMA CalmStays == ASSUME [Next]_vars, Calm' PROVE Calm
<1>1. ASSUME NEW p \in Node, Worker(p) PROVE manner' = manner
  BY <1>1 DEF Worker, StartSend, SkipSend, NextSlice, SliceFails, RecvAck, AckFails, LoopBreaks, SendResult, SendDone,
              NothingToRead, RecvClosed, RecvConnect, RecvNegotiate, Link, RecvSlice, PickRefused, PickResult,
              RecvReport, Check, CheckTimeout, Connect, ConnectConfirmed, ConnectNegotiated, ConnectFailed,
              PingFails, Accepted, appVars
<1>2. ASSUME NEW p \in Node, App(p) PROVE manner' = manner \/ manner' = "stops"
  BY <1>2 DEF App, BSend, BSendNotLinked, WaitSend, WaitSendTimeout, BRecv, BRecvCopy, BRecvTimeout, Stop, Start,
              appVars
<1>3. Break \/ UNCHANGED vars => manner' = manner
  BY DEF Break, vars, appVars
<1>4. manner' = manner \/ manner' = "stops"
  BY <1>1, <1>2, <1>3 DEF Next
<1>5. QED
  BY <1>4 DEF Calm

\* Nothing changes.
LEMMA StutterCalm == ASSUME TypeIInv, CalmState, UNCHANGED vars PROVE CalmState'
<1>1. UNCHANGED <<linkVars, flagVars, lastError, bufVars, wrkVars, appVars, failures, delivered>>
  BY DEF vars
<1>2. UNCHANGED <<connected, linked, chan, sendPending, recvPending, recvEvt, TxBuffer, RxBuffer, recvLast, lastError,
                  sentSlices, worker, result, app, picked, nBlocks, delivered, failures>>
  BY <1>1 DEF linkVars, flagVars, bufVars, wrkVars, appVars
<1>3. Sound' /\ OneBlock' /\ delivered' \in [Node -> Seq(Nat)]
  BY <1>2 DEF CalmState, Sound, OneBlock
<1>4. ASSUME NEW p \in Node, NEW q \in Node, Phase(p, q) PROVE Phase(p, q)'
  <2>1. \A k : Got(q, p, k) => Got(q, p, k)'
    BY <1>2, GotStays
  <2>2. Acked(p)' = Acked(p)
    BY <1>2 DEF Acked
  <2>3. QED
    BY <1>2, <1>4, <2>1, <2>2, PhaseStays
<1>5. ASSUME NEW p \in Node PROVE Phase(p, Peer(p))' /\ Announced(p, Peer(p))'
  <2>1. PICK q : q = Peer(p)
    OBVIOUS
  <2>2. q \in Node /\ Phase(p, q) /\ Announced(p, q)
    BY <2>1, Sides
  <2>3. Phase(p, q)'
    BY <1>4, <2>2
  <2>4. Announced(p, q)'
    BY <1>2, <2>2, AnnouncedStays
  <2>5. QED
    BY <2>1, <2>3, <2>4
<1>6. QED
  BY <1>3, <1>5 DEF CalmState

\* A block is acknowledged when it has been received, and the next one handed over when
\* the last one has been picked up.
LEMMA CalmStep == ASSUME CalmIInv, [Next]_vars PROVE CalmIInv'
<1>1. TypeIInv /\ TypeIInv'
  BY TypeStep DEF CalmIInv
<1>2. Calm' => Calm
  BY CalmStays
<1>3. ASSUME Calm PROVE CalmState'
  <2>1. CalmState /\ Calm
    BY <1>3 DEF CalmIInv
  <2>2. CASE UNCHANGED vars
    BY <1>1, <2>1, <2>2, StutterCalm
  <2>3. ASSUME NEW p \in Node,
               \/ StartSend(p) \/ SkipSend(p) \/ NothingToRead(p) \/ Check(p)
               \/ WaitSend(p) \/ BRecv(p) \/ BRecvCopy(p) \/ NextSlice(p) \/ RecvAck(p)
               \/ SendResult(p) \/ SendDone(p) \/ RecvSlice(p) \/ PickResult(p) \/ RecvReport(p) \/ BSend(p)
        PROVE  CalmState'
    BY <1>1, <2>1, <2>3, WorkerCalm, AppCalm, NextSliceCalm, RecvAckCalm, SendEndCalm, RecvSliceCalm, PickResultCalm,
       RecvReportCalm, BSendCalm
  <2>4. QED
    BY <1>1, <2>1, <2>2, <2>3, NothingFails
<1>4. QED
  BY <1>1, <1>2, <1>3 DEF CalmIInv

\* Nothing has been sent.
LEMMA InitCalm == ASSUME Init PROVE CalmIInv
<1>1. TypeIInv
  BY InitTypes
<1>2. Sound /\ OneBlock /\ delivered \in [Node -> Seq(Nat)]
  BY DEF Init, Sound, OneBlock, NoBlock, Node, Peer, CalmPlaces
<1>3. ASSUME NEW p \in Node PROVE Phase(p, Peer(p)) /\ Announced(p, Peer(p))
  <2>1. Peer(p) \in Node
    BY Peers
  <2>2. Acked(p) = 0 /\ worker[p] # "ack" /\ TxBuffer[p].slices = 0
    BY DEF Init, Acked, NoBlock
  <2>3. Has(Peer(p), nBlocks[p]) /\ Between(Peer(p))
    BY <2>1 DEF Init, Has, Between
  <2>4. Phase(p, Peer(p))
    BY <2>2, <2>3 DEF Phase, Quiet, Got
  <2>5. Announced(p, Peer(p))
    BY <2>1 DEF Init, Announced
  <2>6. QED
    BY <2>4, <2>5
<1>4. QED
  BY <1>1, <1>2, <1>3 DEF CalmIInv, CalmState

\* Inductive.
LEMMA CalmInvariant == Spec => []CalmIInv
<1>1. Init => CalmIInv
  BY InitCalm
<1>2. CalmIInv /\ [Next]_vars => CalmIInv'
  BY CalmStep
<1>3. QED
  BY <1>1, <1>2, PTL DEF Spec

\* Between applications that take turns, every block that the receiver completes is the
\* next one of the sender's, whole: BlockSend, BlockRecv and PickData neither mix nor
\* skip nor repeat blocks, of whatever size and number.
THEOREM BlocksWholeHolds == Spec => []BlocksWhole
<1>1. CalmIInv => BlocksWhole
  <2>1. ASSUME CalmIInv, Calm, NEW p \in Node PROVE \A i \in 1..Len(delivered[p]) : delivered[p][i] = i
    <3>1. PICK q : q = Peer(p)
      OBVIOUS
    <3>2. Phase(q, p) /\ q \in Node
      BY <2>1, <3>1, Sides DEF CalmIInv
    <3>3. Has(p, nBlocks[q]) \/ Has(p, nBlocks[q] - 1)
      BY <3>2, SomethingGot DEF Got
    <3>4. QED
      BY <3>3 DEF Has
  <2>2. QED
    BY <2>1 DEF BlocksWhole
<1>2. QED
  BY <1>1, CalmInvariant, PTL

\* A block that BlockSend has sent with success has been completed by the peer, or is
\* whole in its RxBuffer, though BlockSend takes any PDU for the acknowledgement.
THEOREM CalmSentIsReceivedHolds == Spec => []CalmSentIsReceived
<1>1. CalmIInv => CalmSentIsReceived
  <2>1. ASSUME CalmIInv, Calm, NEW p \in Node, worker[p] = "notify"
        PROVE  Completed(p)
    <3>1. PICK q : q = Peer(p)
      OBVIOUS
    <3>2. /\ Phase(p, q) /\ sendPending[p] /\ TxBuffer[p].block = nBlocks[p] /\ q \in Node /\ p = Peer(q)
          /\ TypeIInv /\ CalmState
      BY <2>1, <3>1, Sides DEF CalmIInv
    <3>3. TxBuffer[p].slices # 0 /\ nBlocks[p] \in Nat /\ nBlocks[p] > 0
      BY <3>2, PartnerAssumption DEF TypeIInv, ThreadTypes, CalmState, OneBlock, SlicesKept
    <3>4. PICK k : k = TxBuffer[p].slices
      OBVIOUS
    <3>5. Got(q, p, k)
      BY <2>1, <3>2, <3>4 DEF Phase, Quiet, SliceUnderWay, AckUnderWay, Acked
    <3>6. CASE Has(q, nBlocks[p])
      <4>1. nBlocks[p] \in 1..Len(delivered[q]) /\ delivered[q][nBlocks[p]] = TxBuffer[p].block
        BY <3>2, <3>3, <3>6 DEF Has
      <4>2. QED
        BY <3>1, <4>1 DEF Completed
    <3>7. CASE ~Has(q, nBlocks[p])
      <4>1. worker[q] \in {"picked", "report"}
        BY <3>3, <3>4, <3>5, <3>7 DEF Got, Part
      <4>2. Whole(RxBuffer[q]) = TxBuffer[p].block
        BY <3>2, <3>4, <3>5, <4>1, SlicesFound
      <4>3. QED
        BY <3>1, <4>1, <4>2 DEF Completed
    <3>8. QED
      BY <3>6, <3>7
  <2>2. QED
    BY <2>1 DEF CalmSentIsReceived, SentIsReceived
<1>2. QED
  BY <1>1, CalmInvariant, PTL

\* ... BSend returns no error, and BRecv copies the whole block that FRecvLast announces:
\* the worker does not touch RxBuffer and FRecvLast between the two halves of BRecv.
THEOREM CalmResultsHolds == Spec => CalmResults
<1>1. ASSUME CalmIInv, [Next]_vars
      PROVE  [Calm => \A p \in Node :
                /\ SendReturns(p) => lastError[p] = "ok"
                /\ RecvReturns(p) => /\ picked[p].result = "ok" /\ picked[p].block > 0
                                     /\ Whole(RxBuffer[p]) = picked[p].block]_vars
  <2>1. ASSUME Calm, NEW p \in Node
        PROVE  /\ lastError[p] = "ok"
               /\ app[p] = "copy" => /\ picked[p].result = "ok" /\ picked[p].block > 0
                                     /\ Whole(RxBuffer[p]) = picked[p].block
    <3>1. PICK q : q = Peer(p)
      OBVIOUS
    <3>2. lastError[p] = "ok" /\ Announced(p, q)
      BY <1>1, <2>1, <3>1, Sides DEF CalmIInv
    <3>3. QED
      BY <3>2 DEF Announced
  <2>2. QED
    BY <2>1 DEF SendReturns, RecvReturns
<1>2. QED
  BY <1>1, CalmInvariant, PTL DEF Spec, CalmResults
=============================================================================
