---------------------------- MODULE IsoExchange ----------------------------
(***************************************************************************)
(* Request and answer over ISO on TCP: isoExchangeBuffer of TIsoTcpSocket  *)
(* (core/s7_isotcp.cpp) on the socket of TMsgSocket (sys/snap_msgsock.cpp),*)
(* as every operation of the client uses it.                               *)
(*                                                                         *)
(* The client sends a request and reassembles the next PDU on the stream,  *)
(* whatever request it answers: the Sequence field of the S7 header is     *)
(* never compared.  The PLC answers late or not at all and splits its      *)
(* answers into fragments.  On the wire a fragment is a header, received   *)
(* by one RecvPacket, followed by the bytes of its payload, received by    *)
(* another; each payload byte is a <<request, position>> pair.  An exchange *)
(* that fails ends with a Purge, a loop of blocking recv calls.            *)
(***************************************************************************)
EXTENDS Naturals, Sequences, FiniteSets

CONSTANTS
  Fragmentations,   \* how the PLC may split an answer: 1 is a one-fragment answer, ...
  FragmentSize,     \* payload bytes of a fragment
  PayloadSize,      \* IsoPayload_Size, 4096: bytes of PDU.Payload
  IsoMaxFragments,  \* 64 in the program
  TrashSize,        \* what a recv of Purge takes at most, 512 bytes in the program
  MaxRequests       \* bound: requests in a behaviour

ASSUME ExchangeAssumption ==
  /\ Fragmentations \subseteq Nat \ {0}
  /\ FragmentSize \in Nat \ {0}
  /\ PayloadSize \in Nat /\ IsoMaxFragments \in Nat \ {0}
  /\ TrashSize \in Nat \ {0}
  /\ MaxRequests \in Nat

VARIABLES
  client,                  \* where the client is: idle, in RecvPacket of head or body, or at
                           \* one of the calls of Purge
  purging,                 \* TRUE: inside recv of that Purge
  request,                 \* number of requests sent
  payload, place, offset,  \* PDU.Payload, pData, Offset
  numParts, fragment,      \* NumParts, the header received
  tosend, inFlight, stream,\* requests the PLC has still to answer, answers under way, arrived
  answer,                  \* history: the last PDU returned, 0 if the exchange failed
  failures                 \* history: exchanges that failed since the connection

recvVars == <<payload, place, offset, numParts, fragment>>
netVars == <<tosend, inFlight, stream>>
hisVars == <<answer, failures>>
vars == <<client, purging, request, recvVars, netVars, hisVars>>

Requests == 1..MaxRequests
Cells == 1..PayloadSize   \* what is written behind the buffer is left out
Blank == <<0, 0>>
NoFragment == [kind |-> "none"]
NoAnswer == [request |-> 0, bytes |-> <<>>]

Init ==
  /\ client = "idle" /\ purging = FALSE /\ request = 0
  /\ payload = [b \in Cells |-> Blank] /\ place = 0 /\ offset = 0
  /\ numParts = 1 /\ fragment = NoFragment
  /\ tosend = <<>> /\ inFlight = <<>> /\ stream = <<>>
  /\ answer = NoAnswer /\ failures = 0

Header(r, eot) == [kind |-> "head", request |-> r, eot |-> eot]
Byte(r, n) == [kind |-> "body", request |-> r, n |-> n]

-----------------------------------------------------------------------------
(* The network and the PLC.                                                *)

\* The answer to request r in n fragments: where their headers are, and the bytes
\* numbered without them.
HeaderAt(f) == (f - 1) * (FragmentSize + 1) + 1

Answer(r, n) ==
  LET heads == {HeaderAt(f) : f \in 1..n}
  IN [i \in 1..n * (FragmentSize + 1) |->
        IF i \in heads THEN Header(r, i = HeaderAt(n))
        ELSE Byte(r, i - Cardinality({h \in heads : h < i}))]

PlcAnswers ==
  /\ tosend # <<>>
  /\ \E n \in Fragmentations : inFlight' = inFlight \o Answer(Head(tosend), n)
  /\ tosend' = Tail(tosend)
  /\ UNCHANGED <<client, purging, request, recvVars, stream, hisVars>>

Arrive ==
  /\ inFlight # <<>>
  /\ stream' = Append(stream, Head(inFlight))
  /\ inFlight' = Tail(inFlight)
  /\ UNCHANGED <<client, purging, request, recvVars, tosend, hisVars>>

-----------------------------------------------------------------------------
(* The client.                                                             *)

\* isoSendBuffer, and the first lines of isoRecvPDU.
Send ==
  /\ client = "idle"
  /\ request < MaxRequests
  /\ request' = request + 1
  /\ tosend' = Append(tosend, request + 1)
  /\ client' = "head"
  /\ place' = 0 /\ offset' = 0 /\ numParts' = 1 /\ fragment' = NoFragment
  /\ UNCHANGED <<purging, payload, inFlight, stream, hisVars>>

\* An error: the exchange has failed, and purges before the caller returns the
\* error.
Fail(where, rest) ==
  /\ client' = where
  /\ stream' = rest
  /\ answer' = NoAnswer
  /\ failures' = failures + 1

\* RecvPacket(&PDU, DataHeaderSize) and the checks of the header.  What is left
\* of a fragment whose beginning was purged does not pass them.
RecvHeader ==
  /\ client = "head"
  /\ stream # <<>>
  /\ IF Head(stream).kind = "head"
       THEN IF FragmentSize <= PayloadSize - offset
              THEN /\ fragment' = Head(stream)
                   /\ stream' = Tail(stream)
                   /\ client' = "body"
                   /\ UNCHANGED hisVars
              ELSE Fail("failed", Tail(stream)) /\ UNCHANGED fragment  \* errIsoPduOverflow
       ELSE Fail("failed", Tail(stream)) /\ UNCHANGED fragment    \* errIsoInvalidPDU
  /\ UNCHANGED <<purging, request, payload, place, offset, numParts, tosend, inFlight>>

\* RecvPacket(From, DataLength): memory from pData on.
Received ==
  [b \in Cells |-> IF b \in place + 1..place + FragmentSize
                     THEN <<stream[b - place].request, stream[b - place].n>>
                     ELSE payload[b]]

\* Seeded fault: the first fragment is taken for the last one.
CompleteAtOnce == TRUE
\* The EoT flag.
Complete == fragment.eot

\* Seeded fault: pData is not advanced.
NextPlaceSame == place
\* pData=pData+Offset, with the Offset of all fragments so far.
NextPlace == place + offset + FragmentSize

\* Seeded fault: neither the buffer nor IsoMaxFragments bounds a PDU.
TooManyNever(parts, size) == FALSE
\* There must be room, and a part left, for another fragment.
TooMany(parts, size) == parts > IsoMaxFragments \/ size >= PayloadSize

\* The rest of a fragment: the next one, or the end of the PDU.
RecvPayload ==
  /\ client = "body"
  /\ Len(stream) >= FragmentSize
  /\ LET rest == SubSeq(stream, FragmentSize + 1, Len(stream)) IN
     IF Complete
       THEN /\ client' = "idle"
            /\ stream' = rest
            /\ payload' = Received
            /\ answer' = [request |-> fragment.request,
                          bytes |-> [b \in 1..(offset + FragmentSize) |-> Received[b]]]
            /\ UNCHANGED <<place, offset, numParts, failures>>
       ELSE /\ payload' = Received
            /\ offset' = offset + FragmentSize
            /\ numParts' = numParts + 1
            /\ place' = NextPlace
            /\ IF TooMany(numParts', offset')
                 THEN Fail("failed", rest)                        \* errIsoTooManyFragments
                 ELSE client' = "head" /\ stream' = rest /\ UNCHANGED hisVars
  /\ UNCHANGED <<purging, request, fragment, tosend, inFlight>>

\* Seeded fault: WaitForData does not look at the clock.
ExpiredNever == FALSE
\* WaitForData: less has arrived than RecvPacket wants.
Expired == \/ client = "head" /\ stream = <<>>
           \/ client = "body" /\ Len(stream) < FragmentSize

\* After RecvTimeout RecvPacket purges, and then isoRecvPDU again.
Timeout ==
  /\ Expired
  /\ Fail("timedOut", stream)
  /\ UNCHANGED <<purging, request, recvVars, tosend, inFlight>>

\* isoDisconnect purges, and DestroySocket again.
Disconnect ==
  /\ client = "idle"
  /\ failures > 0
  /\ client' = "leaving"
  /\ UNCHANGED <<purging, request, recvVars, netVars, hisVars>>

\* The calls of Purge: of RecvPacket, isoRecvPDU, isoDisconnect and DestroySocket,
\* and where each returns to.
AfterPurge == [timedOut |-> "failed", failed |-> "idle", leaving |-> "closing", closing |-> "idle"]
AtPurge == client \in DOMAIN AfterPurge

\* The socket is closed and Connect opens a new one: a new stream, with a PLC that
\* has nothing to answer.
NewStream ==
  /\ tosend' = <<>> /\ inFlight' = <<>> /\ stream' = <<>>
  /\ answer' = NoAnswer /\ failures' = 0

\* Purge returns.
Purged(rest) ==
  /\ client' = AfterPurge[client]
  /\ purging' = FALSE
  /\ IF client = "closing" THEN NewStream
     ELSE stream' = rest /\ UNCHANGED <<tosend, inFlight, hisVars>>

\* CanRead(0)
PurgeBegin ==
  /\ AtPurge /\ ~purging
  /\ \/ stream = <<>> /\ Purged(stream)
     \/ stream # <<>> /\ purging' = TRUE /\ UNCHANGED <<client, netVars, hisVars>>
  /\ UNCHANGED <<request, recvVars>>

Read == IF Len(stream) < TrashSize THEN Len(stream) ELSE TrashSize

\* do recv while (Read==512).  recv waits, without a time-out, until something has
\* arrived: after a full buffer with nothing behind it Purge is stuck until then.
PurgeRecv ==
  /\ AtPurge /\ purging
  /\ stream # <<>>
  /\ LET rest == SubSeq(stream, Read + 1, Len(stream)) IN
     \/ Read < TrashSize /\ Purged(rest)
     \/ Read = TrashSize /\ stream' = rest /\ UNCHANGED <<client, purging, tosend, inFlight, hisVars>>
  /\ UNCHANGED <<request, recvVars>>

\* The PLC closes its side in answer to the shutdown of DestroySocket, and recv
\* returns.
PlcCloses ==
  /\ client = "closing" /\ purging
  /\ stream = <<>>
  /\ Purged(<<>>)
  /\ UNCHANGED <<request, recvVars>>

ClientStep == RecvHeader \/ RecvPayload \/ Timeout \/ PurgeBegin \/ PurgeRecv

Next == PlcAnswers \/ Arrive \/ PlcCloses \/ Send \/ ClientStep \/ Disconnect

\* The clock runs and the client's thread with it; the PLC need not answer.
Fairness == WF_vars(ClientStep)

Spec == Init /\ [][Next]_vars
FairSpec == Spec /\ Fairness

-----------------------------------------------------------------------------
(* Properties.                                                             *)

\* Types; the fragments received stay within the buffer and within
\* IsoMaxFragments.
TypeOK ==
  /\ client \in {"idle", "head", "body", "timedOut", "failed", "leaving", "closing"}
  /\ purging \in BOOLEAN
  /\ request \in 0..MaxRequests
  /\ payload \in [Cells -> {Blank} \cup (Requests \X Nat)]
  /\ place \in Nat /\ offset \in 0..PayloadSize
  /\ numParts \in 1..IsoMaxFragments + 1
  /\ fragment = NoFragment \/ fragment.kind = "head"
  /\ \A i \in 1..Len(tosend) : tosend[i] \in Requests
  /\ answer.request \in 0..MaxRequests
  /\ failures \in Nat

\* A connection on which no exchange has failed is in step: between exchanges
\* nothing is under way, and an answer returned is the answer to the request
\* just sent, though nobody compares the two.
InStep ==
  client = "idle" /\ failures = 0
    => /\ tosend = <<>> /\ inFlight = <<>> /\ stream = <<>>
       /\ answer.request \in {0, request}

\* Each failed exchange can leave at most one answer behind: the answers returned
\* lag behind the requests by at most the number of failures since Connect.
LagBounded ==
  client = "idle" /\ answer.request # 0 => request - answer.request <= failures

Whole(bytes, r) == bytes = [b \in 1..Len(bytes) |-> <<r, b>>]

\* On such a connection an answer of at most two fragments is returned whole and
\* in order.
TwoFragmentsInOrder ==
  failures = 0 /\ answer.request # 0 /\ Len(answer.bytes) <= 2 * FragmentSize
    => Whole(answer.bytes, answer.request)

\* The receive schema drawn above isoRecvPDU: the fragments of a PDU follow each
\* other in the buffer, however many there are.
FragmentsInOrder ==
  failures = 0 /\ answer.request # 0 => Whole(answer.bytes, answer.request)

\* The client is in recv of a Purge that has read all there was.
Stuck == AtPurge /\ purging /\ stream = <<>>

\* Every exchange and every disconnection ends, whatever the PLC sends or fails to
\* send, except in a Purge that met a multiple of its buffer size, nothing less
\* behind it and nothing ever after: it waits in recv for good.
ExchangeEnds == client # "idle" ~> (client = "idle" \/ []Stuck)
=============================================================================
