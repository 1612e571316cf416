------------------------- MODULE IsoExchangeProofs -------------------------
(***************************************************************************)
(* What IsoExchange guarantees for any number of requests, any splitting   *)
(* of answers and any sizes: types and limits, how far answers may lag     *)
(* behind requests, and that nothing lags while no exchange has failed.    *)
(***************************************************************************)
EXTENDS IsoExchange, FiniteSetTheorems, SequenceTheorems, TLAPS

\* What travels: headers and payload bytes.
Item ==
  [kind : {"head"}, request : Requests, eot : BOOLEAN]
    \cup [kind : {"body"}, request : Requests, n : Nat]

\* What is under way to the client, and a sequence without its first k elements.
Wire == stream \o inFlight
Rest(s, k) == SubSeq(s, k + 1, Len(s))

\* A header is followed by the whole of its payload.
Framed(w) ==
  \A i \in DOMAIN w : w[i].kind = "head" =>
    \A j \in i + 1..i + FragmentSize : j \in DOMAIN w /\ w[j].kind = "body"

\* What follows the last fragment of an answer belongs to later ones.
Ordered(w) ==
  \A i, j \in DOMAIN w :
    w[i].kind = "head" /\ w[i].eot /\ i + FragmentSize < j => w[i].request < w[j].request

\* Between the request and its answer, or a failure.
InExchange == client \in {"head", "body"}

\* Types of what is under way, cut off nowhere but at its beginning.
WireTypes ==
  /\ stream \in Seq(Item) /\ inFlight \in Seq(Item) /\ tosend \in Seq(Requests)
  /\ Framed(Wire)
  /\ client \in {"idle", "head", "body", "timedOut", "failed", "leaving", "closing"}
  /\ purging \in BOOLEAN /\ request \in 0..MaxRequests
  /\ failures \in Nat
  /\ InExchange => request > 0

\* The reassembly stays within its limits.
RecvRange ==
  /\ payload \in [Cells -> {Blank} \cup (Requests \X Nat)]
  /\ place \in Nat /\ offset \in 0..PayloadSize
  /\ numParts \in 1..IsoMaxFragments + 1
  /\ answer.request \in 0..MaxRequests
  /\ fragment = NoFragment \/ fragment \in [kind : {"head"}, request : Requests, eot : BOOLEAN]

\* In an exchange there is a part left, and behind a header room and bytes for it.
RecvTypes ==
  /\ RecvRange
  /\ InExchange => numParts <= IsoMaxFragments
  /\ client = "body" =>
       /\ fragment # NoFragment /\ offset + FragmentSize <= PayloadSize
       /\ \A j \in 1..FragmentSize : j \in DOMAIN Wire /\ Wire[j].kind = "body"

\* The oldest answer the next exchange may take for its own.
Due(r) == r + failures >= request + IF InExchange THEN 0 ELSE 1

\* Nothing under way, and no answer in hand, is older than that.
UnderWayLags ==
  /\ \A i \in DOMAIN Wire : Due(Wire[i].request) /\ Wire[i].request <= request
  /\ \A i \in DOMAIN tosend : Due(tosend[i]) /\ tosend[i] <= request

Lags ==
  /\ UnderWayLags
  /\ client = "body" => Due(fragment.request) /\ fragment.request <= request
  /\ answer.request <= request
  /\ ~InExchange /\ answer.request # 0 => request <= answer.request + failures

\* Answers come in the order of their requests.
UnderWayOrder ==
  /\ Ordered(Wire)
  /\ \A i, j \in DOMAIN tosend : i < j => tosend[i] < tosend[j]
  /\ \A i \in DOMAIN Wire, j \in DOMAIN tosend : Wire[i].request < tosend[j]

Order ==
  /\ UnderWayOrder
  /\ client = "body" =>
       /\ \A j \in DOMAIN tosend : fragment.request < tosend[j]
       /\ fragment.eot => \A i \in DOMAIN Wire : FragmentSize < i => fragment.request < Wire[i].request

\* Inductive; TypeOK and LagBounded follow.
LagIInv == WireTypes /\ RecvTypes /\ Lags /\ Order

\* The answer to the request in hand, in n fragments, has been received up to
\* the header of fragment numParts, or with it.
Receiving(n) ==
  /\ numParts \in 1..n
  /\ Wire = Rest(Answer(request, n), HeaderAt(numParts) - IF client = "head" THEN 1 ELSE 0)
  /\ offset = (numParts - 1) * FragmentSize
  /\ client = "body" => fragment = Header(request, numParts = n)
  /\ numParts = 1 => place = 0
  /\ numParts = 2 => place = FragmentSize /\ \A b \in 1..FragmentSize : payload[b] = <<request, b>>

\* The request has not been answered yet.
Waiting ==
  /\ client = "head" /\ tosend = <<request>> /\ Wire = <<>>
  /\ numParts = 1 /\ offset = 0 /\ place = 0

\* Without a failure only the answer to the request in hand can be under way.
Fresh ==
  failures = 0 =>
    \/ client = "idle" /\ tosend = <<>> /\ Wire = <<>>
    \/ Waiting
    \/ InExchange /\ tosend = <<>> /\ \E n \in Fragmentations : Receiving(n)

\* Inductive; InStep and TwoFragmentsInOrder follow.
FreshIInv == LagIInv /\ Fresh /\ TwoFragmentsInOrder

-----------------------------------------------------------------------------
(* Sequences.                                                              *)

\* The fields of an item by its kind.
LEMMA ItemFields ==
  ASSUME NEW x \in Item
  PROVE  /\ x.kind \in {"head", "body"} /\ x.request \in Requests
         /\ x.kind = "head" => x \in [kind : {"head"}, request : Requests, eot : BOOLEAN] /\ x.eot \in BOOLEAN
         /\ x.kind = "body" => x.n \in Nat
  BY DEF Item

\* The rest of a sequence, element by element.
LEMMA RestProperties ==
  ASSUME NEW S, NEW s \in Seq(S), NEW k \in 0..Len(s)
  PROVE  /\ Rest(s, k) \in Seq(S) /\ Len(Rest(s, k)) = Len(s) - k
         /\ DOMAIN Rest(s, k) = 1..Len(s) - k
         /\ \A i \in 1..Len(s) - k : Rest(s, k)[i] = s[i + k]
<1>1. Len(s) \in Nat /\ \A i \in k + 1..Len(s) : s[i] \in S
  BY LenProperties, ElementOfSeq
<1>2. /\ Rest(s, k) \in Seq(S)
      /\ Len(Rest(s, k)) = IF k + 1 <= Len(s) THEN Len(s) - (k + 1) + 1 ELSE 0
      /\ \A i \in 1..Len(s) - (k + 1) + 1 : Rest(s, k)[i] = s[k + 1 + i - 1]
  BY <1>1, SubSeqProperties DEF Rest
<1>3. Len(Rest(s, k)) = Len(s) - k
  BY <1>1, <1>2
<1>4. \A i \in 1..Len(s) - k : Rest(s, k)[i] = s[i + k]
  BY <1>1, <1>2
<1>5. QED
  BY <1>2, <1>3, <1>4, LenProperties

\* What is cut off the arrived part is cut off all that is under way.
LEMMA RestConcat ==
  ASSUME NEW S, NEW s \in Seq(S), NEW t \in Seq(S), NEW k \in 0..Len(s)
  PROVE  /\ Rest(s, k) \o t = Rest(s \o t, k)
         /\ k \in 0..Len(s \o t)
<1>1. /\ Len(s) \in Nat /\ Len(t) \in Nat /\ s \o t \in Seq(S) /\ Len(s \o t) = Len(s) + Len(t)
      /\ \A i \in 1..Len(s) + Len(t) : (s \o t)[i] = IF i <= Len(s) THEN s[i] ELSE t[i - Len(s)]
  BY LenProperties, ConcatProperties
<1>2. /\ Rest(s, k) \in Seq(S) /\ Len(Rest(s, k)) = Len(s) - k
      /\ \A i \in 1..Len(s) - k : Rest(s, k)[i] = s[i + k]
  BY RestProperties
<1>3. /\ Rest(s, k) \o t \in Seq(S) /\ Len(Rest(s, k) \o t) = Len(s) - k + Len(t)
      /\ \A i \in 1..Len(s) - k + Len(t) :
           (Rest(s, k) \o t)[i] = IF i <= Len(s) - k THEN Rest(s, k)[i] ELSE t[i - (Len(s) - k)]
  <2>1. Rest(s, k) \in Seq(S)
    BY <1>2
  <2>2. /\ Rest(s, k) \o t \in Seq(S) /\ Len(Rest(s, k) \o t) = Len(Rest(s, k)) + Len(t)
        /\ \A i \in 1..Len(Rest(s, k)) + Len(t) :
             (Rest(s, k) \o t)[i] = IF i <= Len(Rest(s, k)) THEN Rest(s, k)[i] ELSE t[i - Len(Rest(s, k))]
    BY <2>1, ConcatProperties
  <2>3. Len(Rest(s, k)) = Len(s) - k
    BY <1>2
  <2>4. QED
    BY <2>2, <2>3
<1>4. k \in 0..Len(s \o t)
  BY <1>1
<1>5. /\ Rest(s \o t, k) \in Seq(S) /\ Len(Rest(s \o t, k)) = Len(s) + Len(t) - k
      /\ \A i \in 1..Len(s) + Len(t) - k : Rest(s \o t, k)[i] = (s \o t)[i + k]
  <2>1. s \o t \in Seq(S) /\ Len(s \o t) = Len(s) + Len(t)
    BY <1>1
  <2>2. /\ Rest(s \o t, k) \in Seq(S) /\ Len(Rest(s \o t, k)) = Len(s \o t) - k
        /\ \A i \in 1..Len(s \o t) - k : Rest(s \o t, k)[i] = (s \o t)[i + k]
    BY <1>4, <2>1, RestProperties
  <2>3. QED
    BY <2>1, <2>2
<1>6. ASSUME NEW i \in 1..Len(Rest(s, k) \o t) PROVE (Rest(s, k) \o t)[i] = Rest(s \o t, k)[i]
  <2>1. i \in 1..Len(s) + Len(t) - k /\ i \in 1..Len(s) - k + Len(t) /\ i + k \in 1..Len(s) + Len(t)
    BY <1>1, <1>3
  <2>2. CASE i <= Len(s) - k
    <3>1. (Rest(s, k) \o t)[i] = s[i + k]
      BY <1>1, <1>2, <1>3, <2>1, <2>2
    <3>2. Rest(s \o t, k)[i] = s[i + k]
      BY <1>1, <1>5, <2>1, <2>2
    <3>3. QED
      BY <3>1, <3>2
  <2>3. CASE ~(i <= Len(s) - k)
    <3>1. (Rest(s, k) \o t)[i] = t[i - (Len(s) - k)]
      BY <1>3, <2>1, <2>3
    <3>2. Rest(s \o t, k)[i] = t[i + k - Len(s)]
      BY <1>1, <1>5, <2>1, <2>3
    <3>3. i - (Len(s) - k) = i + k - Len(s)
      BY <1>1
    <3>4. QED
      BY <3>1, <3>2, <3>3
  <2>4. QED
    BY <2>2, <2>3
<1>7. Rest(s, k) \o t = Rest(s \o t, k)
  <2>1. PICK u \in Seq(S) : u = Rest(s, k) \o t
    BY <1>3
  <2>2. PICK v \in Seq(S) : v = Rest(s \o t, k)
    BY <1>5
  <2>3. Len(u) = Len(v) /\ \A i \in 1..Len(u) : u[i] = v[i]
    <3>1. Len(u) = Len(v)
      BY <1>1, <1>3, <1>5, <2>1, <2>2
    <3>2. QED
      BY <1>6, <2>1, <2>2, <3>1
  <2>4. u = v
    BY <2>3, SeqEqual
  <2>5. QED
    BY <2>1, <2>2, <2>4
<1>8. QED
  BY <1>4, <1>7

\* The first element's arrival changes nothing of what is under way.
LEMMA ArriveConcat ==
  ASSUME NEW S, NEW s \in Seq(S), NEW t \in Seq(S), t # <<>>
  PROVE  /\ Append(s, Head(t)) \in Seq(S) /\ Tail(t) \in Seq(S)
         /\ Append(s, Head(t)) \o Tail(t) = s \o t
<1> DEFINE u == Append(s, Head(t))
<1>1. /\ Len(s) \in Nat /\ Len(t) \in Nat /\ s \o t \in Seq(S) /\ Len(s \o t) = Len(s) + Len(t)
      /\ \A i \in 1..Len(s) + Len(t) : (s \o t)[i] = IF i <= Len(s) THEN s[i] ELSE t[i - Len(s)]
  BY LenProperties, ConcatProperties
<1>2. /\ Head(t) \in S /\ Head(t) = t[1] /\ Tail(t) \in Seq(S) /\ Len(Tail(t)) = Len(t) - 1
      /\ \A i \in 1..Len(t) - 1 : Tail(t)[i] = t[i + 1]
  BY HeadTailProperties
<1>3. /\ u \in Seq(S) /\ Len(u) = Len(s) + 1 /\ u[Len(s) + 1] = t[1]
      /\ \A i \in 1..Len(s) : u[i] = s[i]
  BY <1>1, <1>2
<1>4. Len(t) > 0
  BY <1>1, EmptySeq
<1> HIDE DEF u
<1>5. /\ u \o Tail(t) \in Seq(S) /\ Len(u \o Tail(t)) = Len(s) + Len(t)
      /\ \A i \in 1..Len(s) + Len(t) :
           (u \o Tail(t))[i] = IF i <= Len(s) + 1 THEN u[i] ELSE Tail(t)[i - (Len(s) + 1)]
  <2>1. u \in Seq(S) /\ Tail(t) \in Seq(S) /\ Len(u) = Len(s) + 1 /\ Len(Tail(t)) = Len(t) - 1
    BY <1>2, <1>3
  <2>2. /\ u \o Tail(t) \in Seq(S) /\ Len(u \o Tail(t)) = Len(u) + Len(Tail(t))
        /\ \A i \in 1..Len(u) + Len(Tail(t)) : (u \o Tail(t))[i] = IF i <= Len(u) THEN u[i] ELSE Tail(t)[i - Len(u)]
    BY <2>1, ConcatProperties
  <2>3. Len(u) + Len(Tail(t)) = Len(s) + Len(t)
    BY <1>1, <2>1
  <2>4. QED
    BY <2>1, <2>2, <2>3
<1>6. ASSUME NEW i \in 1..Len(s) + Len(t) PROVE (u \o Tail(t))[i] = (s \o t)[i]
  <2>1. CASE i <= Len(s)
    BY <1>1, <1>3, <1>5, <2>1
  <2>2. CASE i = Len(s) + 1
    <3>1. i - Len(s) = 1 /\ ~(i <= Len(s))
      BY <1>1, <2>2
    <3>2. QED
      BY <1>1, <1>3, <1>5, <2>2, <3>1
  <2>3. CASE i > Len(s) + 1
    <3>1. i - (Len(s) + 1) \in 1..Len(t) - 1 /\ i - (Len(s) + 1) + 1 = i - Len(s)
      BY <1>1, <2>3
    <3>2. QED
      BY <1>1, <1>2, <1>5, <2>3, <3>1
  <2>4. i \in Int /\ Len(s) \in Nat
    BY <1>1
  <2>5. i <= Len(s) \/ i = Len(s) + 1 \/ i > Len(s) + 1
    BY <2>4
  <2>6. QED
    BY <2>1, <2>2, <2>3, <2>5
<1>7. u \o Tail(t) = s \o t
  BY <1>1, <1>5, <1>6, SeqEqual
<1>8. QED
  BY <1>2, <1>3, <1>7 DEF u

\* The tail is the rest behind the first element.
LEMMA TailRest ==
  ASSUME NEW S, NEW s \in Seq(S), s # <<>>
  PROVE  Tail(s) = Rest(s, 1) /\ 1 \in 0..Len(s)
<1>1. Tail(s) = SubSeq(s, 2, Len(s))
  BY TailIsSubSeq
<1>2. Len(s) \in Nat \ {0}
  BY EmptySeq
<1>3. QED
  BY <1>1, <1>2 DEF Rest

\* Both orders of the stream survive the loss of its beginning.
LEMMA RestKeeps ==
  ASSUME NEW w \in Seq(Item), NEW k \in 0..Len(w), Framed(w), Ordered(w)
  PROVE  Framed(Rest(w, k)) /\ Ordered(Rest(w, k))
<1>1. /\ Len(w) \in Nat /\ DOMAIN w = 1..Len(w) /\ DOMAIN Rest(w, k) = 1..Len(w) - k
      /\ \A i \in 1..Len(w) - k : Rest(w, k)[i] = w[i + k]
  BY RestProperties, LenProperties
<1>2. FragmentSize \in Nat
  BY ExchangeAssumption
<1>3. Framed(Rest(w, k))
  <2> SUFFICES ASSUME NEW i \in 1..Len(w) - k, w[i + k].kind = "head", NEW j \in i + 1..i + FragmentSize
               PROVE  j \in 1..Len(w) - k /\ Rest(w, k)[j].kind = "body"
    BY <1>1 DEF Framed
  <2>1. i + k \in DOMAIN w /\ j + k \in (i + k) + 1..(i + k) + FragmentSize
    BY <1>1, <1>2
  <2>2. j + k \in 1..Len(w) /\ w[j + k].kind = "body"
    BY <1>1, <2>1 DEF Framed
  <2>3. j \in 1..Len(w) - k
    BY <1>1, <1>2, <2>2
  <2>4. QED
    BY <1>1, <2>2, <2>3
<1>4. Ordered(Rest(w, k))
  <2> SUFFICES ASSUME NEW i \in 1..Len(w) - k, NEW j \in 1..Len(w) - k,
                      w[i + k].kind = "head", w[i + k].eot, i + FragmentSize < j
               PROVE  w[i + k].request < w[j + k].request
    BY <1>1 DEF Ordered
  <2>1. i + k \in DOMAIN w /\ j + k \in DOMAIN w /\ (i + k) + FragmentSize < j + k
    BY <1>1, <1>2
  <2>2. QED
    BY <2>1 DEF Ordered
<1>5. QED
  BY <1>3, <1>4

\* What follows each other is found in its place.
LEMMA JoinParts ==
  ASSUME NEW S, NEW u \in Seq(S), NEW v \in Seq(S)
  PROVE  /\ Len(u) \in Nat /\ Len(v) \in Nat /\ DOMAIN u = 1..Len(u) /\ DOMAIN v = 1..Len(v)
         /\ u \o v \in Seq(S) /\ DOMAIN (u \o v) = 1..Len(u) + Len(v)
         /\ \A i \in 1..Len(u) : (u \o v)[i] = u[i]
         /\ \A i \in Len(u) + 1..Len(u) + Len(v) : i - Len(u) \in 1..Len(v) /\ (u \o v)[i] = v[i - Len(u)]
<1>1. /\ Len(u) \in Nat /\ Len(v) \in Nat /\ u \o v \in Seq(S) /\ Len(u \o v) = Len(u) + Len(v)
      /\ \A i \in 1..Len(u) + Len(v) : (u \o v)[i] = IF i <= Len(u) THEN u[i] ELSE v[i - Len(u)]
  BY LenProperties, ConcatProperties
<1>2. QED
  BY <1>1, LenProperties

\* ... and the arrival of an answer to a later request.
LEMMA JoinKeeps ==
  ASSUME NEW u \in Seq(Item), NEW v \in Seq(Item), Framed(u), Framed(v), Ordered(u), Ordered(v),
         \A i \in DOMAIN u, j \in DOMAIN v : u[i].request < v[j].request
  PROVE  Framed(u \o v) /\ Ordered(u \o v)
<1>1. /\ Len(u) \in Nat /\ Len(v) \in Nat /\ DOMAIN u = 1..Len(u) /\ DOMAIN v = 1..Len(v)
      /\ DOMAIN (u \o v) = 1..Len(u) + Len(v)
      /\ \A i \in 1..Len(u) : (u \o v)[i] = u[i]
      /\ \A i \in Len(u) + 1..Len(u) + Len(v) : i - Len(u) \in 1..Len(v) /\ (u \o v)[i] = v[i - Len(u)]
  BY JoinParts
<1>2. FragmentSize \in Nat
  BY ExchangeAssumption
<1>3. Framed(u \o v)
  <2> SUFFICES ASSUME NEW i \in 1..Len(u) + Len(v), (u \o v)[i].kind = "head", NEW j \in i + 1..i + FragmentSize
               PROVE  j \in 1..Len(u) + Len(v) /\ (u \o v)[j].kind = "body"
    BY <1>1 DEF Framed
  <2>1. CASE i \in 1..Len(u)
    <3>1. j \in DOMAIN u /\ u[j].kind = "body"
      BY <1>1, <2>1 DEF Framed
    <3>2. QED
      BY <1>1, <3>1
  <2>2. CASE i \in Len(u) + 1..Len(u) + Len(v)
    <3>1. i - Len(u) \in DOMAIN v /\ v[i - Len(u)].kind = "head"
          /\ j - Len(u) \in (i - Len(u)) + 1..(i - Len(u)) + FragmentSize
      BY <1>1, <1>2, <2>2
    <3>2. j - Len(u) \in 1..Len(v) /\ v[j - Len(u)].kind = "body"
      BY <1>1, <3>1 DEF Framed
    <3>3. j \in Len(u) + 1..Len(u) + Len(v)
      BY <1>1, <1>2, <3>2
    <3>4. QED
      BY <1>1, <3>2, <3>3
  <2>3. QED
    BY <1>1, <2>1, <2>2
<1>4. Ordered(u \o v)
  <2> SUFFICES ASSUME NEW i \in 1..Len(u) + Len(v), NEW j \in 1..Len(u) + Len(v),
                      (u \o v)[i].kind = "head", (u \o v)[i].eot, i + FragmentSize < j
               PROVE  (u \o v)[i].request < (u \o v)[j].request
    BY <1>1 DEF Ordered
  <2>1. CASE i \in 1..Len(u) /\ j \in 1..Len(u)
    BY <1>1, <2>1 DEF Ordered
  <2>2. CASE i \in 1..Len(u) /\ j \in Len(u) + 1..Len(u) + Len(v)
    BY <1>1, <2>2
  <2>3. CASE i \in Len(u) + 1..Len(u) + Len(v)
    <3>1. j \in Len(u) + 1..Len(u) + Len(v) /\ (i - Len(u)) + FragmentSize < j - Len(u)
      BY <1>1, <1>2, <2>3
    <3>2. i - Len(u) \in DOMAIN v /\ j - Len(u) \in DOMAIN v /\ v[i - Len(u)].kind = "head" /\ v[i - Len(u)].eot
      BY <1>1, <2>3, <3>1
    <3>3. v[i - Len(u)].request < v[j - Len(u)].request
      BY <3>1, <3>2 DEF Ordered
    <3>4. QED
      BY <1>1, <2>3, <3>1, <3>3
  <2>4. QED
    BY <1>1, <2>1, <2>2, <2>3
<1>5. QED
  BY <1>3, <1>4

-----------------------------------------------------------------------------
(* An answer on the wire.                                                  *)

\* Headers are a fragment apart.
LEMMA HeaderNext ==
  ASSUME NEW f \in Nat \ {0}
  PROVE  /\ HeaderAt(f) \in Nat \ {0} /\ HeaderAt(1) = 1
         /\ HeaderAt(f + 1) = HeaderAt(f) + FragmentSize + 1
         /\ f * (FragmentSize + 1) = HeaderAt(f) + FragmentSize
<1>1. FragmentSize + 1 \in Nat /\ f - 1 \in Nat
  BY ExchangeAssumption
<1>2. (f - 1) * (FragmentSize + 1) \in Nat
  BY <1>1
<1>3. HeaderAt(1) = 1
  BY <1>1 DEF HeaderAt
<1>4. f * (FragmentSize + 1) = (f - 1) * (FragmentSize + 1) + (FragmentSize + 1)
  BY <1>1
<1>5. f + 1 - 1 = f
  OBVIOUS
<1>6. QED
  BY <1>1, <1>2, <1>3, <1>4, <1>5, ExchangeAssumption DEF HeaderAt

\* The payload of a fragment ends before the next header.
LEMMA HeaderOrder ==
  ASSUME NEW f \in Nat \ {0}, NEW g \in Nat \ {0}, f < g
  PROVE  HeaderAt(f) + FragmentSize < HeaderAt(g)
<1> DEFINE d == FragmentSize + 1
<1>1. d \in Nat /\ f - 1 \in Nat /\ g - 1 - f \in Nat
  BY ExchangeAssumption
<1>2. (f - 1) * d \in Nat /\ (g - 1 - f) * d \in Nat /\ (g - 1) * d \in Nat
  BY <1>1
<1>3. (g - 1) * d = (f - 1) * d + d + (g - 1 - f) * d
  BY <1>1
<1>4. QED
  BY <1>1, <1>2, <1>3, ExchangeAssumption DEF HeaderAt

Heads(n) == {HeaderAt(f) : f \in 1..n}

\* The headers before a byte of fragment f are those of the first f fragments.
LEMMA HeadsBefore ==
  ASSUME NEW n \in Nat \ {0}, NEW f \in 1..n, NEW b \in 1..FragmentSize, NEW i, i = HeaderAt(f) + b
  PROVE  /\ i \notin Heads(n)
         /\ Cardinality({h \in Heads(n) : h < i}) = f
<1> DEFINE before == {h \in Heads(n) : h < i}
           at == [g \in 1..f |-> HeaderAt(g)]
<1>1. FragmentSize \in Nat \ {0} /\ HeaderAt(f) \in Nat
  BY HeaderNext, ExchangeAssumption
<1>2. ASSUME NEW g \in 1..n PROVE HeaderAt(g) \in Nat /\ (g <= f <=> HeaderAt(g) < i)
                                   /\ HeaderAt(g) # i
  <2>1. HeaderAt(g) \in Nat
    BY HeaderNext
  <2>2. CASE g < f
    <3>1. HeaderAt(g) + FragmentSize < HeaderAt(f)
      BY <2>2, HeaderOrder
    <3>2. QED
      BY <1>1, <2>1, <2>2, <3>1
  <2>3. CASE g = f
    BY <1>1, <2>3
  <2>4. CASE f < g
    <3>1. HeaderAt(f) + FragmentSize < HeaderAt(g)
      BY <2>4, HeaderOrder
    <3>2. QED
      BY <1>1, <2>1, <2>4, <3>1
  <2>5. QED
    BY <2>2, <2>3, <2>4
<1>3. before = {HeaderAt(g) : g \in 1..f}
  <2>1. ASSUME NEW h \in before PROVE h \in {HeaderAt(g) : g \in 1..f}
    <3>1. PICK g \in 1..n : h = HeaderAt(g)
      BY DEF Heads
    <3>2. g <= f
      BY <1>2, <3>1
    <3>3. QED
      BY <3>1, <3>2
  <2>2. ASSUME NEW g \in 1..f PROVE HeaderAt(g) \in before
    <3>1. g \in 1..n /\ g <= f
      OBVIOUS
    <3>2. QED
      BY <1>2, <3>1 DEF Heads
  <2>3. QED
    BY <2>1, <2>2
<1>4. at \in Bijection(1..f, before)
  <2>1. ASSUME NEW g \in 1..f, NEW k \in 1..f, HeaderAt(g) = HeaderAt(k) PROVE g = k
    <3>1. HeaderAt(g) \in Nat /\ HeaderAt(k) \in Nat
      BY HeaderNext
    <3>2. ~(g < k) /\ ~(k < g)
      <4>1. g < k => HeaderAt(g) + FragmentSize < HeaderAt(k)
        BY HeaderOrder
      <4>2. k < g => HeaderAt(k) + FragmentSize < HeaderAt(g)
        BY HeaderOrder
      <4>3. QED
        BY <1>1, <2>1, <3>1, <4>1, <4>2
    <3>3. QED
      BY <3>2
  <2>2. at \in [1..f -> before]
    BY <1>3
  <2>3. \A h \in before : \E g \in 1..f : at[g] = h
    BY <1>3
  <2>4. QED
    BY <2>1, <2>2, <2>3 DEF Bijection, Injection, Surjection, IsInjective
<1>5. IsFiniteSet(1..f) /\ Cardinality(1..f) = f
  BY FS_Interval
<1>6. Cardinality(before) = f
  <2>1. ExistsBijection(1..f, before)
    BY <1>4 DEF ExistsBijection
  <2>2. QED
    BY <1>5, <2>1, FS_Bijection
<1>7. QED
  BY <1>2, <1>6 DEF Heads

\* What the PLC sends: n fragments, each a header and its bytes, numbered through.
LEMMA AnswerShape ==
  ASSUME NEW r \in Requests, NEW n \in Nat \ {0}
  PROVE  /\ Answer(r, n) \in Seq(Item)
         /\ Len(Answer(r, n)) = HeaderAt(n) + FragmentSize
         /\ DOMAIN Answer(r, n) = 1..HeaderAt(n) + FragmentSize
         /\ \A f \in 1..n : Answer(r, n)[HeaderAt(f)] = Header(r, f = n)
         /\ \A f \in 1..n : \A b \in 1..FragmentSize :
              Answer(r, n)[HeaderAt(f) + b] = Byte(r, (f - 1) * FragmentSize + b)
         /\ \A i \in DOMAIN Answer(r, n) : Answer(r, n)[i].request = r
         /\ Framed(Answer(r, n)) /\ Ordered(Answer(r, n))
<1> DEFINE a == Answer(r, n)
           size == HeaderAt(n) + FragmentSize
<1>1. /\ FragmentSize \in Nat \ {0} /\ HeaderAt(n) \in Nat \ {0} /\ size \in Nat
      /\ n * (FragmentSize + 1) = size
  BY HeaderNext, ExchangeAssumption
<1>2. a = [i \in 1..size |->
             IF i \in Heads(n) THEN Header(r, i = HeaderAt(n))
             ELSE Byte(r, i - Cardinality({h \in Heads(n) : h < i}))]
  BY <1>1 DEF Answer, Heads
<1> HIDE DEF a
<1>3. ASSUME NEW f \in 1..n, NEW b \in 0..FragmentSize
      PROVE  HeaderAt(f) + b \in 1..size
  <2>1. HeaderAt(f) \in Nat \ {0}
    BY HeaderNext
  <2>2. f < n => HeaderAt(f) + FragmentSize < HeaderAt(n)
    BY HeaderOrder
  <2>3. QED
    BY <1>1, <2>1, <2>2
<1>4. ASSUME NEW f \in 1..n PROVE a[HeaderAt(f)] = Header(r, f = n)
  <2>1. HeaderAt(f) \in 1..size
    <3>1. HeaderAt(f) + 0 \in 1..size /\ HeaderAt(f) \in Nat
      BY <1>1, <1>3, HeaderNext
    <3>2. QED
      BY <3>1
  <2>2. HeaderAt(f) \in Heads(n)
    BY DEF Heads
  <2>3. (HeaderAt(f) = HeaderAt(n)) = (f = n)
    <3>1. f < n => HeaderAt(f) + FragmentSize < HeaderAt(n)
      BY HeaderOrder
    <3>2. HeaderAt(f) \in Nat
      BY HeaderNext
    <3>3. QED
      BY <1>1, <3>1, <3>2
  <2>4. QED
    BY <1>2, <2>1, <2>2, <2>3
<1>5. ASSUME NEW f \in 1..n, NEW b \in 1..FragmentSize
      PROVE  a[HeaderAt(f) + b] = Byte(r, (f - 1) * FragmentSize + b)
  <2>1. HeaderAt(f) + b \in 1..size
    BY <1>3
  <2>2. PICK i \in 1..size : i = HeaderAt(f) + b
    BY <2>1
  <2>3. i \notin Heads(n) /\ Cardinality({h \in Heads(n) : h < i}) = f
    BY <2>2, HeadsBefore
  <2>4. a[i] = Byte(r, i - f)
    BY <1>2, <2>3
  <2>5. i - f = (f - 1) * FragmentSize + b
    BY <1>1, <2>2 DEF HeaderAt
  <2>6. QED
    BY <2>2, <2>4, <2>5
<1>6. ASSUME NEW i \in 1..size
      PROVE  /\ a[i] \in Item /\ a[i].request = r
             /\ a[i].kind = "head" => i \in Heads(n) /\ (a[i].eot => i = HeaderAt(n))
  <2>1. CASE i \in Heads(n)
    <3>1. a[i] = Header(r, i = HeaderAt(n))
      BY <1>2, <2>1
    <3>2. (i = HeaderAt(n)) \in BOOLEAN
      OBVIOUS
    <3>3. ASSUME NEW e \in BOOLEAN
          PROVE  /\ Header(r, e) \in Item /\ Header(r, e).request = r
                 /\ Header(r, e).eot = e
      BY DEF Header, Item
    <3>4. QED
      BY <2>1, <3>1, <3>2, <3>3
  <2>2. CASE i \notin Heads(n)
    <3>1. a[i] = Byte(r, i - Cardinality({h \in Heads(n) : h < i}))
      BY <1>2, <2>2
    <3>2. i - Cardinality({h \in Heads(n) : h < i}) \in Nat
      <4>1. {h \in Heads(n) : h < i} \subseteq 1..i
        <5> SUFFICES ASSUME NEW f \in 1..n, HeaderAt(f) < i PROVE HeaderAt(f) \in 1..i
          BY DEF Heads
        <5>1. HeaderAt(f) \in Nat \ {0}
          BY HeaderNext
        <5>2. QED
          BY <5>1
      <4>2. IsFiniteSet(1..i) /\ Cardinality(1..i) = i
        BY FS_Interval
      <4>3. /\ Cardinality({h \in Heads(n) : h < i}) <= i
            /\ Cardinality({h \in Heads(n) : h < i}) \in Nat
        BY <4>1, <4>2, FS_Subset, FS_CardinalityType
      <4>4. QED
        BY <4>3
    <3>3. QED
      BY <3>1, <3>2 DEF Byte, Item
  <2>3. QED
    BY <2>1, <2>2
<1>7. a \in Seq(Item) /\ Len(a) = size /\ DOMAIN a = 1..size
  <2>1. DOMAIN a = 1..size /\ a = [i \in 1..size |-> a[i]]
    BY <1>2
  <2>2. a \in [1..size -> Item]
    BY <1>6, <2>1
  <2>3. QED
    BY <1>1, <2>1, <2>2
<1>8. Framed(a)
  <2> SUFFICES ASSUME NEW i \in 1..size, a[i].kind = "head", NEW j \in i + 1..i + FragmentSize
               PROVE  j \in 1..size /\ a[j].kind = "body"
    BY <1>7 DEF Framed
  <2>1. PICK f \in 1..n : i = HeaderAt(f)
    BY <1>6 DEF Heads
  <2>2. j - i \in 1..FragmentSize /\ j = HeaderAt(f) + (j - i)
    BY <1>1, <2>1
  <2>3. j \in 1..size
    BY <1>1, <1>3, <2>2
  <2>4. a[j] = Byte(r, (f - 1) * FragmentSize + (j - i))
    BY <1>5, <2>2
  <2>5. QED
    BY <2>3, <2>4 DEF Byte
<1>9. Ordered(a)
  <2> SUFFICES ASSUME NEW i \in 1..size, NEW j \in 1..size, a[i].kind = "head", a[i].eot, i + FragmentSize < j
               PROVE  FALSE
    BY <1>7 DEF Ordered
  <2>1. i = HeaderAt(n)
    BY <1>6
  <2>2. QED
    BY <1>1, <2>1
<1>10. QED
  BY <1>4, <1>5, <1>6, <1>7, <1>8, <1>9 DEF a

-----------------------------------------------------------------------------
(* How far answers lag behind.                                             *)

\* The numbers the constants stand for.
LEMMA Sizes ==
  /\ FragmentSize \in Nat \ {0} /\ PayloadSize \in Nat /\ IsoMaxFragments \in Nat \ {0}
  /\ MaxRequests \in Nat /\ \A r \in Requests : r \in Nat /\ r > 0 /\ r <= MaxRequests
  BY ExchangeAssumption DEF Requests

\* The stream and what is under way, by place.
LEMMA WireParts ==
  ASSUME WireTypes
  PROVE  /\ Wire \in Seq(Item) /\ Len(Wire) = Len(stream) + Len(inFlight)
         /\ Len(stream) \in Nat /\ Len(inFlight) \in Nat /\ DOMAIN Wire = 1..Len(Wire)
         /\ \A i \in 1..Len(stream) : i \in DOMAIN Wire /\ Wire[i] = stream[i]
         /\ \A i \in DOMAIN Wire : Wire[i] \in Item /\ Wire[i].request \in Requests
<1>1. stream \in Seq(Item) /\ inFlight \in Seq(Item)
  BY DEF WireTypes
<1>2. /\ stream \o inFlight \in Seq(Item) /\ Len(stream \o inFlight) = Len(stream) + Len(inFlight)
      /\ Len(stream) \in Nat /\ Len(inFlight) \in Nat
      /\ \A i \in 1..Len(stream) + Len(inFlight) :
           (stream \o inFlight)[i] = IF i <= Len(stream) THEN stream[i] ELSE inFlight[i - Len(stream)]
  BY <1>1, LenProperties, ConcatProperties
<1>3. Wire \in Seq(Item)
  BY <1>2 DEF Wire
<1>4. DOMAIN Wire = 1..Len(Wire) /\ \A i \in 1..Len(Wire) : Wire[i] \in Item
  BY <1>3, LenProperties, ElementOfSeq
<1>5. \A i \in DOMAIN Wire : Wire[i].request \in Requests
  BY <1>4, ItemFields
<1>6. \A i \in 1..Len(stream) : i \in DOMAIN Wire /\ Wire[i] = stream[i]
  BY <1>2, <1>4 DEF Wire
<1>7. QED
  BY <1>2, <1>3, <1>4, <1>5, <1>6 DEF Wire

\* Reading k elements cuts them off all that is under way.
LEMMA WireCut ==
  ASSUME LagIInv, NEW k \in 0..Len(stream), stream' = Rest(stream, k), inFlight' = inFlight
  PROVE  /\ stream' \in Seq(Item) /\ inFlight' \in Seq(Item)
         /\ Wire' = Rest(Wire, k) /\ k \in 0..Len(Wire)
         /\ Framed(Wire') /\ Ordered(Wire')
         /\ DOMAIN Wire = 1..Len(Wire) /\ DOMAIN Wire' = 1..Len(Wire) - k /\ Len(Wire) \in Nat
         /\ \A i \in DOMAIN Wire' : i \in Nat /\ i + k \in DOMAIN Wire /\ Wire'[i] = Wire[i + k]
<1>1. /\ stream \in Seq(Item) /\ inFlight \in Seq(Item) /\ Framed(Wire) /\ Ordered(Wire)
      /\ Wire \in Seq(Item) /\ Len(Wire) \in Nat /\ DOMAIN Wire = 1..Len(Wire)
  <2>1. WireTypes
    BY DEF LagIInv
  <2>2. QED
    BY <2>1, WireParts DEF LagIInv, WireTypes, Order, UnderWayOrder
<1>2. Rest(stream, k) \in Seq(Item)
  BY <1>1, RestProperties
<1>3. Rest(stream, k) \o inFlight = Rest(Wire, k) /\ k \in 0..Len(Wire)
  BY <1>1, RestConcat DEF Wire
<1>4. Wire' = Rest(Wire, k)
  BY <1>3 DEF Wire
<1>5. Framed(Rest(Wire, k)) /\ Ordered(Rest(Wire, k))
  BY <1>1, <1>3, RestKeeps
<1>6. DOMAIN Rest(Wire, k) = 1..Len(Wire) - k /\ \A i \in 1..Len(Wire) - k : Rest(Wire, k)[i] = Wire[i + k]
  BY <1>1, <1>3, RestProperties
<1>7. \A i \in DOMAIN Wire' : i \in Nat /\ i + k \in DOMAIN Wire /\ Wire'[i] = Wire[i + k]
  <2>1. \A i \in 1..Len(Wire) - k : i \in Nat /\ i + k \in 1..Len(Wire)
    BY <1>1, <1>3
  <2>2. QED
    BY <1>1, <1>4, <1>6, <2>1
<1>8. Framed(Wire') /\ Ordered(Wire')
  BY <1>4, <1>5
<1>9. QED
  BY <1>1, <1>2, <1>3, <1>4, <1>6, <1>7, <1>8

\* What is left of the stream is also left of its lags.
LEMMA LagCut ==
  ASSUME LagIInv, NEW k \in 0..Len(stream), stream' = Rest(stream, k), inFlight' = inFlight,
         tosend' = tosend, request' = request, failures' \in Nat,
         failures' + (IF InExchange THEN 0 ELSE 1) >= failures + IF InExchange' THEN 0 ELSE 1
  PROVE  UnderWayLags' /\ UnderWayOrder'
<1>1. /\ \A i \in DOMAIN Wire' : i + k \in DOMAIN Wire /\ Wire'[i] = Wire[i + k]
      /\ Ordered(Wire')
  BY WireCut
<1>2. /\ \A i \in DOMAIN Wire : Wire[i].request \in Nat
      /\ \A i \in DOMAIN tosend : tosend[i] \in Nat
      /\ failures \in Nat /\ request \in Nat
  <2>1. WireTypes /\ tosend \in Seq(Requests) /\ failures \in Nat /\ request \in Nat
    <3>1. WireTypes
      BY DEF LagIInv
    <3>2. QED
      BY <3>1, Sizes DEF WireTypes
  <2>2. \A i \in DOMAIN tosend : tosend[i] \in Requests
    BY <2>1, ElementOfSeq, LenProperties
  <2>3. QED
    BY <2>1, <2>2, WireParts, Sizes
<1> DEFINE DueNext(r) == r + failures' >= request' + IF InExchange' THEN 0 ELSE 1
<1>3. \A r \in Nat : Due(r) => DueNext(r)
  <2> DEFINE now == IF InExchange THEN 0 ELSE 1
             then == IF InExchange' THEN 0 ELSE 1
  <2>1. now \in Nat /\ then \in Nat /\ failures' + now >= failures + then
    OBVIOUS
  <2>2. failures \in Nat /\ failures' \in Nat /\ request \in Nat
    BY <1>2
  <2> SUFFICES ASSUME NEW r \in Nat, r + failures >= request + now
               PROVE  r + failures' >= request + then
    BY DEF Due
  <2>3. ASSUME NEW f \in Nat, NEW g \in Nat, NEW q \in Nat, NEW b \in Nat, NEW c \in Nat,
               g + b >= f + c, r + f >= q + b
        PROVE  r + g >= q + c
    BY <2>3
  <2> HIDE DEF now, then
  <2>4. QED
    BY <2>1, <2>2, <2>3
<1> HIDE DEF DueNext
<1>4. \A i \in DOMAIN Wire : DueNext(Wire[i].request) /\ Wire[i].request <= request'
  BY <1>2, <1>3 DEF LagIInv, Lags, UnderWayLags
<1>5. \A i \in DOMAIN tosend' : DueNext(tosend'[i]) /\ tosend'[i] <= request'
  BY <1>2, <1>3 DEF LagIInv, Lags, UnderWayLags
<1>6. \A i \in DOMAIN Wire' : DueNext(Wire'[i].request) /\ Wire'[i].request <= request'
  BY <1>1, <1>4
<1>7. UnderWayLags'
  BY <1>5, <1>6 DEF UnderWayLags, Due, DueNext
<1>8. UnderWayOrder'
  BY <1>1 DEF LagIInv, Order, UnderWayOrder
<1>9. QED
  BY <1>7, <1>8

\* Nothing lags before the first request.
LEMMA InitLag == ASSUME Init PROVE LagIInv
<1>1. /\ <<>> \o <<>> = <<>> /\ <<>> \in Seq(Item) /\ <<>> \in Seq(Requests) /\ Len(<<>>) = 0
      /\ DOMAIN <<>> = {}
  OBVIOUS
<1>2. Wire = <<>>
  BY <1>1 DEF Wire, Init
<1>3. WireTypes
  <2>1. purging \in BOOLEAN /\ ~InExchange
    BY DEF Init, InExchange
  <2>2. QED
    BY <1>1, <1>2, <2>1, Sizes DEF WireTypes, Init, Framed
<1>4. RecvTypes
  <2>1. [b \in Cells |-> Blank] \in [Cells -> {Blank} \cup (Requests \X Nat)]
    OBVIOUS
  <2>2. RecvRange
    BY <2>1, Sizes DEF Init, RecvRange, NoAnswer
  <2>3. QED
    BY <2>2, Sizes DEF RecvTypes, Init
<1>5. Lags /\ Order
  BY <1>1, <1>2, Sizes DEF Lags, Order, UnderWayLags, UnderWayOrder, Ordered, Init, NoAnswer
<1>6. QED
  BY <1>3, <1>4, <1>5 DEF LagIInv

\* An exchange that fails gives what is under way one request more to lag behind,
\* and a purge cuts it short.
LEMMA AwayLag ==
  ASSUME LagIInv, client' \in {"idle", "timedOut", "failed", "leaving", "closing"},
         purging' \in BOOLEAN, NEW k \in 0..Len(stream), stream' = Rest(stream, k),
         \/ InExchange /\ answer' = NoAnswer /\ failures' = failures + 1
         \/ ~InExchange /\ answer' = answer /\ failures' = failures,
         UNCHANGED <<request, tosend, inFlight>>, RecvRange'
  PROVE  LagIInv'
<1>1. WireTypes /\ stream \in Seq(Item) /\ failures \in Nat /\ failures' \in Nat /\ ~InExchange'
  BY DEF LagIInv, WireTypes, InExchange
<1>2. UnderWayLags' /\ UnderWayOrder'
  <2>1. failures' + (IF InExchange THEN 0 ELSE 1) >= failures + (IF InExchange' THEN 0 ELSE 1)
    <3>1. CASE InExchange /\ failures' = failures + 1
      <4>1. (failures + 1) + 0 >= failures + 1
        BY <1>1
      <4>2. QED
        BY <1>1, <3>1, <4>1
    <3>2. CASE ~InExchange /\ failures' = failures
      BY <1>1, <3>2
    <3>3. QED
      BY <3>1, <3>2
  <2>2. QED
    BY <1>1, <2>1, LagCut
<1>3. WireTypes'
  <2>1. stream' \in Seq(Item) /\ inFlight' \in Seq(Item) /\ Framed(Wire')
    BY <1>1, WireCut
  <2>2. QED
    BY <1>1, <2>1 DEF WireTypes
<1>4. client' # "body"
  OBVIOUS
<1>5. RecvTypes'
  BY <1>1, <1>4 DEF RecvTypes
<1>6. Lags' /\ Order'
  <2>1. request \in Nat
    BY <1>1, Sizes DEF WireTypes
  <2>2. answer'.request <= request' /\ (answer'.request # 0 => request' <= answer'.request + failures')
    BY <2>1 DEF LagIInv, Lags, NoAnswer
  <2>3. QED
    BY <1>1, <1>2, <1>4, <2>2 DEF Lags, Order
<1>7. QED
  BY <1>3, <1>5, <1>6 DEF LagIInv

\* A sequence without its first 0 elements.
LEMMA RestNone == ASSUME NEW S, NEW q \in Seq(S) PROVE Rest(q, 0) = q /\ 0 \in 0..Len(q)
<1>1. Len(q) \in Nat /\ 0 \in 0..Len(q)
  BY LenProperties
<1>2. /\ Rest(q, 0) \in Seq(S) /\ Len(Rest(q, 0)) = Len(q) - 0
      /\ \A i \in 1..Len(q) - 0 : Rest(q, 0)[i] = q[i + 0]
  BY <1>1, RestProperties
<1>3. Len(Rest(q, 0)) = Len(q) /\ \A i \in 1..Len(q) : Rest(q, 0)[i] = q[i]
  BY <1>1, <1>2
<1>4. QED
  BY <1>1, <1>2, <1>3, SeqEqual

\* The PLC answers its oldest request.
LEMMA PlcLag == ASSUME LagIInv, PlcAnswers PROVE LagIInv'
<1> DEFINE r == Head(tosend)
<1>1. /\ WireTypes /\ tosend \in Seq(Requests) /\ tosend # <<>> /\ inFlight \in Seq(Item) /\ stream \in Seq(Item)
      /\ Wire \in Seq(Item) /\ Framed(Wire) /\ Ordered(Wire)
  <2>1. WireTypes
    BY DEF LagIInv
  <2>2. QED
    BY <2>1, WireParts DEF LagIInv, WireTypes, Order, UnderWayOrder, PlcAnswers
<1>2. /\ r \in Requests /\ 1 \in DOMAIN tosend /\ r = tosend[1] /\ Tail(tosend) \in Seq(Requests)
      /\ \A i \in DOMAIN Tail(tosend) :
           i \in Nat /\ i > 0 /\ i + 1 \in DOMAIN tosend /\ Tail(tosend)[i] = tosend[i + 1]
  <2>1. /\ Head(tosend) \in Requests /\ Head(tosend) = tosend[1]
        /\ Tail(tosend) \in Seq(Requests) /\ Len(Tail(tosend)) = Len(tosend) - 1
        /\ \A i \in 1..Len(tosend) - 1 : Tail(tosend)[i] = tosend[i + 1]
    BY <1>1, HeadTailProperties
  <2>2. Len(tosend) \in Nat \ {0} /\ DOMAIN tosend = 1..Len(tosend) /\ DOMAIN Tail(tosend) = 1..Len(Tail(tosend))
    BY <1>1, <2>1, EmptySeq, LenProperties
  <2>3. QED
    BY <2>1, <2>2
<1>3. PICK n \in Fragmentations : inFlight' = inFlight \o Answer(r, n)
  BY DEF PlcAnswers
<1> DEFINE a == Answer(r, n)
<1>4. /\ a \in Seq(Item) /\ Framed(a) /\ Ordered(a)
      /\ \A i \in DOMAIN a : a[i].request = r
  <2>1. n \in Nat \ {0}
    BY ExchangeAssumption
  <2>2. QED
    BY <1>2, <2>1, AnswerShape
<1> HIDE DEF a, r
<1>5. Wire' = Wire \o a /\ inFlight' \in Seq(Item)
  <2>1. inFlight' = inFlight \o a /\ stream' = stream
    BY <1>3 DEF a, PlcAnswers
  <2>2. stream \o (inFlight \o a) = (stream \o inFlight) \o a
    <3>1. stream \in Seq(Item) /\ inFlight \in Seq(Item) /\ a \in Seq(Item)
      BY <1>1, <1>4
    <3>2. (stream \o inFlight) \o a = stream \o (inFlight \o a)
      BY <3>1, ConcatAssociative
    <3>3. QED
      BY <3>2
  <2>3. inFlight \o a \in Seq(Item)
    BY <1>1, <1>4, ConcatProperties
  <2>4. QED
    BY <2>1, <2>2, <2>3 DEF Wire
<1>6. /\ DOMAIN Wire = 1..Len(Wire) /\ Len(Wire) \in Nat
      /\ \A i \in DOMAIN Wire : i \in DOMAIN Wire' /\ Wire'[i] = Wire[i]
      /\ \A i \in DOMAIN Wire' : i \in DOMAIN Wire \/ Wire'[i].request = r
  <2>1. /\ Len(Wire) \in Nat /\ Len(a) \in Nat /\ DOMAIN Wire = 1..Len(Wire) /\ DOMAIN a = 1..Len(a)
        /\ DOMAIN (Wire \o a) = 1..Len(Wire) + Len(a)
        /\ \A i \in 1..Len(Wire) : (Wire \o a)[i] = Wire[i]
        /\ \A i \in Len(Wire) + 1..Len(Wire) + Len(a) : i - Len(Wire) \in 1..Len(a) /\ (Wire \o a)[i] = a[i - Len(Wire)]
    BY <1>1, <1>4, JoinParts
  <2>2. \A i \in 1..Len(Wire) + Len(a) : i \in 1..Len(Wire) \/ i \in Len(Wire) + 1..Len(Wire) + Len(a)
    BY <2>1
  <2>3. \A i \in 1..Len(Wire) : i \in 1..Len(Wire) + Len(a)
    BY <2>1
  <2>4. QED
    BY <1>4, <1>5, <2>1, <2>2, <2>3
<1>7. Framed(Wire') /\ Ordered(Wire')
  <2>1. \A i \in DOMAIN Wire, j \in DOMAIN a : Wire[i].request < a[j].request
    BY <1>2, <1>4 DEF LagIInv, Order, UnderWayOrder
  <2>2. Framed(Wire \o a) /\ Ordered(Wire \o a)
    BY <1>1, <1>4, <2>1, JoinKeeps
  <2>3. QED
    BY <1>5, <2>2
<1>8. UNCHANGED <<client, purging, request, recvVars, stream, answer, failures>> /\ tosend' = Tail(tosend)
  BY DEF PlcAnswers, hisVars
<1>9. WireTypes'
  BY <1>1, <1>2, <1>5, <1>7, <1>8 DEF WireTypes, InExchange
<1>10. RecvTypes'
  <2>1. RecvRange'
    BY <1>8 DEF recvVars, LagIInv, RecvTypes, RecvRange
  <2>2. QED
    BY <1>6, <1>8, <2>1 DEF recvVars, LagIInv, RecvTypes, InExchange
<1> DEFINE DueNow(q) == q + failures >= request + IF InExchange THEN 0 ELSE 1
<1>11. /\ \A i \in DOMAIN Wire : DueNow(Wire[i].request) /\ Wire[i].request <= request
       /\ \A i \in DOMAIN tosend : DueNow(tosend[i]) /\ tosend[i] <= request
  BY DEF LagIInv, Lags, UnderWayLags, Due
<1>12. /\ \A i \in DOMAIN Wire' : DueNow(Wire'[i].request) /\ Wire'[i].request <= request
       /\ \A i \in DOMAIN tosend' : DueNow(tosend'[i]) /\ tosend'[i] <= request
  <2> HIDE DEF DueNow
  <2>1. QED
    BY <1>2, <1>6, <1>8, <1>11
<1>13. Lags'
  <2>1. UnderWayLags'
    BY <1>8, <1>12 DEF UnderWayLags, Due, InExchange
  <2>2. QED
    BY <1>8, <2>1 DEF Lags, LagIInv, Due, recvVars, InExchange
<1>14. Order'
  <2>1. \A i, j \in DOMAIN tosend : i < j => tosend[i] < tosend[j]
    BY DEF LagIInv, Order, UnderWayOrder
  <2>2. \A j \in DOMAIN Tail(tosend) : r < Tail(tosend)[j]
    <3>1. ASSUME NEW j \in DOMAIN Tail(tosend) PROVE r < Tail(tosend)[j]
      <4>1. j + 1 \in DOMAIN tosend /\ 1 < j + 1 /\ Tail(tosend)[j] = tosend[j + 1]
        BY <1>2
      <4>2. QED
        BY <1>2, <2>1, <4>1
    <3>2. QED
      BY <3>1
  <2>3. \A i, j \in DOMAIN Tail(tosend) : i < j => Tail(tosend)[i] < Tail(tosend)[j]
    <3>1. ASSUME NEW i \in DOMAIN Tail(tosend), NEW j \in DOMAIN Tail(tosend), i < j
          PROVE  Tail(tosend)[i] < Tail(tosend)[j]
      <4>1. i + 1 \in DOMAIN tosend /\ j + 1 \in DOMAIN tosend /\ i + 1 < j + 1
        BY <1>2, <3>1
      <4>2. QED
        BY <1>2, <2>1, <4>1
    <3>2. QED
      BY <3>1
  <2>4. \A i \in DOMAIN Wire', j \in DOMAIN Tail(tosend) : Wire'[i].request < Tail(tosend)[j]
    <3>1. \A i \in DOMAIN Wire, j \in DOMAIN Tail(tosend) : Wire[i].request < Tail(tosend)[j]
      BY <1>2 DEF LagIInv, Order, UnderWayOrder
    <3>2. QED
      BY <1>6, <2>2, <3>1
  <2>5. UnderWayOrder'
    BY <1>7, <1>8, <2>3, <2>4 DEF UnderWayOrder
  <2>6. ASSUME client = "body"
        PROVE  /\ \A j \in DOMAIN Tail(tosend) : fragment.request < Tail(tosend)[j]
               /\ fragment.eot => \A i \in DOMAIN Wire' : FragmentSize < i => fragment.request < Wire'[i].request
    <3>1. /\ \A j \in DOMAIN tosend : fragment.request < tosend[j]
          /\ fragment.eot => \A i \in DOMAIN Wire : FragmentSize < i => fragment.request < Wire[i].request
      BY <2>6 DEF LagIInv, Order
    <3>2. QED
      BY <1>2, <1>6, <3>1
  <2>7. QED
    BY <1>8, <2>5, <2>6 DEF Order, recvVars
<1>15. QED
  BY <1>9, <1>10, <1>13, <1>14 DEF LagIInv

\* A byte arrives.
LEMMA ArriveWire ==
  ASSUME LagIInv, Arrive
  PROVE  stream' \in Seq(Item) /\ inFlight' \in Seq(Item) /\ Wire' = Wire
<1>1. stream \in Seq(Item) /\ inFlight \in Seq(Item)
  BY DEF LagIInv, WireTypes
<1>2. inFlight # <<>> /\ stream' = Append(stream, Head(inFlight)) /\ inFlight' = Tail(inFlight)
  BY DEF Arrive
<1>3. /\ Append(stream, Head(inFlight)) \in Seq(Item) /\ Tail(inFlight) \in Seq(Item)
      /\ Append(stream, Head(inFlight)) \o Tail(inFlight) = stream \o inFlight
  BY <1>1, <1>2, ArriveConcat
<1>4. QED
  BY <1>2, <1>3 DEF Wire

\* ... or nothing happens.
LEMMA SameLag ==
  ASSUME LagIInv, stream' \in Seq(Item), inFlight' \in Seq(Item), Wire' = Wire,
         UNCHANGED <<client, purging, request, recvVars, tosend, hisVars>>
  PROVE  LagIInv'
<1>1. WireTypes'
  BY DEF LagIInv, WireTypes, InExchange, hisVars
<1>2. RecvTypes'
  BY DEF LagIInv, RecvTypes, RecvRange, InExchange, recvVars, hisVars
<1>3. Lags'
  BY DEF LagIInv, Lags, UnderWayLags, Due, InExchange, recvVars, hisVars
<1>4. Order'
  BY DEF LagIInv, Order, UnderWayOrder, recvVars
<1>5. QED
  BY <1>1, <1>2, <1>3, <1>4 DEF LagIInv

\* A request more, which all that is under way lags behind.
LEMMA SendLag == ASSUME LagIInv, Send PROVE LagIInv'
<1>1. /\ WireTypes /\ client = "idle" /\ request \in Nat /\ request + 1 \in Requests
      /\ tosend \in Seq(Requests) /\ failures \in Nat /\ failures' = failures
      /\ client' = "head" /\ request' = request + 1 /\ answer' = answer /\ Wire' = Wire
      /\ purging' = purging /\ ~InExchange /\ InExchange'
  <2>1. WireTypes
    BY DEF LagIInv
  <2>2. QED
    BY <2>1, Sizes DEF WireTypes, Send, hisVars, Requests, Wire, InExchange
<1>2. /\ tosend' \in Seq(Requests) /\ DOMAIN tosend' = 1..Len(tosend) + 1 /\ DOMAIN tosend = 1..Len(tosend)
      /\ Len(tosend) \in Nat /\ tosend'[Len(tosend) + 1] = request + 1
      /\ \A i \in 1..Len(tosend) : tosend'[i] = tosend[i]
  <2>1. tosend' = Append(tosend, request + 1)
    BY DEF Send
  <2>2. /\ Append(tosend, request + 1) \in Seq(Requests)
        /\ Len(Append(tosend, request + 1)) = Len(tosend) + 1
        /\ \A i \in 1..Len(tosend) : Append(tosend, request + 1)[i] = tosend[i]
        /\ Append(tosend, request + 1)[Len(tosend) + 1] = request + 1
    BY <1>1, AppendProperties
  <2>3. QED
    BY <1>1, <2>1, <2>2, LenProperties
<1>3. \A i \in DOMAIN tosend' :
        \/ i \in DOMAIN tosend /\ tosend'[i] = tosend[i]
        \/ i = Len(tosend) + 1 /\ tosend'[i] = request'
  <2>1. \A i \in 1..Len(tosend) + 1 : i \in 1..Len(tosend) \/ i = Len(tosend) + 1
    BY <1>2
  <2>2. QED
    BY <1>1, <1>2, <2>1
<1>4. /\ \A i \in DOMAIN Wire : Wire[i].request \in Nat
      /\ \A i \in DOMAIN tosend : tosend[i] \in Nat
  <2>1. \A i \in DOMAIN tosend : tosend[i] \in Requests
    BY <1>1, ElementOfSeq, LenProperties
  <2>2. QED
    BY <1>1, <2>1, WireParts, Sizes
<1>5. WireTypes'
  BY <1>1, <1>2, Sizes DEF WireTypes, Send, Requests
<1>6. RecvTypes'
  <2>1. RecvRange'
    BY Sizes DEF LagIInv, RecvTypes, RecvRange, Send, hisVars
  <2>2. client' = "head" /\ numParts' = 1 /\ 1 <= IsoMaxFragments
    BY Sizes DEF Send
  <2>3. QED
    BY <2>1, <2>2 DEF RecvTypes
<1>7. /\ \A i \in DOMAIN Wire : Wire[i].request + failures >= request + 1 /\ Wire[i].request <= request
      /\ \A i \in DOMAIN tosend : tosend[i] + failures >= request + 1 /\ tosend[i] <= request
  BY <1>1 DEF LagIInv, Lags, UnderWayLags, Due
<1>8. Lags'
  <2>1. \A i \in DOMAIN Wire' : Wire'[i].request + failures' >= request' + 0 /\ Wire'[i].request <= request'
    BY <1>1, <1>4, <1>7
  <2>2. \A i \in DOMAIN tosend' : tosend'[i] + failures' >= request' + 0 /\ tosend'[i] <= request'
    BY <1>1, <1>3, <1>4, <1>7
  <2>3. UnderWayLags'
    BY <1>1, <2>1, <2>2 DEF UnderWayLags, Due
  <2>4. answer'.request <= request'
    <3>1. answer.request <= request /\ answer.request \in Nat
      BY Sizes DEF LagIInv, Lags, RecvTypes, RecvRange
    <3>2. QED
      BY <1>1, <3>1
  <2>5. QED
    BY <1>1, <2>3, <2>4 DEF Lags
<1>9. Order'
  <2>1. /\ \A i, j \in DOMAIN tosend : i < j => tosend[i] < tosend[j]
        /\ \A i \in DOMAIN Wire, j \in DOMAIN tosend : Wire[i].request < tosend[j]
        /\ Ordered(Wire)
    BY DEF LagIInv, Order, UnderWayOrder
  <2>2. \A i, j \in DOMAIN tosend' : i < j => tosend'[i] < tosend'[j]
    <3>1. ASSUME NEW i \in DOMAIN tosend', NEW j \in DOMAIN tosend', i < j
          PROVE  tosend'[i] < tosend'[j]
      <4>1. i \in DOMAIN tosend /\ tosend'[i] = tosend[i]
        BY <1>2, <3>1
      <4>2. CASE j \in DOMAIN tosend /\ tosend'[j] = tosend[j]
        BY <2>1, <3>1, <4>1, <4>2
      <4>3. CASE tosend'[j] = request'
        BY <1>1, <1>4, <1>7, <4>1, <4>3
      <4>4. QED
        BY <1>3, <4>2, <4>3
    <3>2. QED
      BY <3>1
  <2>3. \A i \in DOMAIN Wire', j \in DOMAIN tosend' : Wire'[i].request < tosend'[j]
    <3>1. \A i \in DOMAIN Wire : Wire[i].request < request + 1
      BY <1>1, <1>4, <1>7
    <3>2. QED
      BY <1>1, <1>3, <2>1, <3>1
  <2>4. QED
    BY <1>1, <2>1, <2>2, <2>3 DEF Order, UnderWayOrder
<1>10. QED
  BY <1>5, <1>6, <1>8, <1>9 DEF LagIInv

\* A header: what follows on the stream is its payload.
LEMMA HeaderLag == ASSUME LagIInv, RecvHeader PROVE LagIInv'
<1>1. /\ WireTypes /\ stream \in Seq(Item) /\ stream # <<>> /\ client = "head"
      /\ UNCHANGED <<purging, request, payload, place, offset, numParts, tosend, inFlight>>
      /\ failures \in Nat /\ purging \in BOOLEAN /\ InExchange
  <2>1. WireTypes
    BY DEF LagIInv
  <2>2. QED
    BY <2>1 DEF WireTypes, RecvHeader, InExchange
<1>2. /\ Tail(stream) = Rest(stream, 1) /\ 1 \in 0..Len(stream) /\ Head(stream) = stream[1]
      /\ 1 \in DOMAIN Wire /\ Wire[1] = stream[1] /\ Wire[1] \in Item
  <2>1. Tail(stream) = Rest(stream, 1) /\ 1 \in 0..Len(stream) /\ Head(stream) = stream[1]
    BY <1>1, TailRest, HeadTailProperties
  <2>2. 1 \in 1..Len(stream)
    BY <1>1, <2>1, WireParts
  <2>3. QED
    BY <1>1, <2>1, <2>2, WireParts
<1>3. CASE /\ Head(stream).kind = "head" /\ FragmentSize <= PayloadSize - offset
           /\ fragment' = Head(stream) /\ stream' = Tail(stream) /\ client' = "body" /\ UNCHANGED hisVars
  <2>1. /\ Wire[1].kind = "head" /\ fragment' = Wire[1] /\ stream' = Rest(stream, 1) /\ inFlight' = inFlight
        /\ failures' = failures /\ answer' = answer /\ InExchange'
    BY <1>1, <1>2, <1>3 DEF hisVars, InExchange
  <2>2. /\ stream' \in Seq(Item) /\ inFlight' \in Seq(Item)
        /\ Framed(Wire') /\ Ordered(Wire')
        /\ DOMAIN Wire = 1..Len(Wire) /\ DOMAIN Wire' = 1..Len(Wire) - 1 /\ Len(Wire) \in Nat
        /\ \A i \in DOMAIN Wire' : i \in Nat /\ i + 1 \in DOMAIN Wire /\ Wire'[i] = Wire[i + 1]
    BY <1>2, <2>1, WireCut
  <2>3. UnderWayLags' /\ UnderWayOrder'
    <3>1. /\ failures' \in Nat
          /\ failures' + (IF InExchange THEN 0 ELSE 1) >= failures + (IF InExchange' THEN 0 ELSE 1)
      BY <1>1, <1>3, <2>1
    <3>2. QED
      BY <1>1, <1>2, <2>1, <3>1, LagCut
  <2>4. WireTypes'
    BY <1>1, <1>3, <2>1, <2>2 DEF WireTypes
  <2>5. fragment' \in [kind : {"head"}, request : Requests, eot : BOOLEAN]
    BY <1>2, <2>1, ItemFields
  <2>6. RecvTypes'
    <3>1. RecvRange'
      BY <1>1, <2>1, <2>5 DEF LagIInv, RecvTypes, RecvRange
    <3>2. fragment' # NoFragment
      BY <2>5 DEF NoFragment
    <3>3. offset' + FragmentSize <= PayloadSize
      BY <1>1, <1>3, Sizes DEF LagIInv, RecvTypes, RecvRange
    <3>4. ASSUME NEW j \in 1..FragmentSize PROVE j \in DOMAIN Wire' /\ Wire'[j].kind = "body"
      <4>1. j + 1 \in 1 + 1..1 + FragmentSize
        BY Sizes
      <4>2. j + 1 \in DOMAIN Wire /\ Wire[j + 1].kind = "body"
        BY <1>1, <1>2, <2>1, <4>1 DEF WireTypes, Framed
      <4>3. j \in DOMAIN Wire'
        BY <2>2, <4>2, Sizes
      <4>4. QED
        BY <2>2, <4>2, <4>3
    <3>5. numParts' <= IsoMaxFragments
      BY <1>1 DEF LagIInv, RecvTypes
    <3>6. QED
      BY <3>1, <3>2, <3>3, <3>4, <3>5 DEF RecvTypes
  <2>7. Lags'
    <3>1. Due(Wire[1].request) /\ Wire[1].request <= request
      BY <1>2 DEF LagIInv, Lags, UnderWayLags
    <3>2. Due(fragment.request)' /\ fragment'.request <= request'
      BY <1>1, <1>3, <2>1, <3>1 DEF Due
    <3>3. answer'.request <= request'
      BY <1>1, <2>1 DEF LagIInv, Lags
    <3>4. QED
      BY <1>3, <2>1, <2>3, <3>2, <3>3 DEF Lags
  <2>8. Order'
    <3>1. \A j \in DOMAIN tosend' : fragment'.request < tosend'[j]
      BY <1>1, <1>2, <2>1 DEF LagIInv, Order, UnderWayOrder
    <3>2. ASSUME fragment'.eot, NEW i \in DOMAIN Wire', FragmentSize < i
          PROVE  fragment'.request < Wire'[i].request
      <4>1. i \in Nat /\ i + 1 \in DOMAIN Wire /\ 1 + FragmentSize < i + 1
        BY <2>2, <3>2, Sizes
      <4>2. Wire[1].request < Wire[i + 1].request
        BY <1>2, <2>1, <3>2, <4>1 DEF LagIInv, Order, UnderWayOrder, Ordered
      <4>3. QED
        BY <2>1, <2>2, <4>2
    <3>3. QED
      BY <2>3, <3>1, <3>2 DEF Order
  <2>9. QED
    BY <2>4, <2>6, <2>7, <2>8 DEF LagIInv
<1>4. CASE Fail("failed", Tail(stream)) /\ UNCHANGED fragment
  <2>1. RecvRange'
    BY <1>1, <1>4, Sizes DEF LagIInv, RecvTypes, RecvRange, Fail, NoAnswer
  <2>2. /\ client' = "failed" /\ stream' = Rest(stream, 1) /\ answer' = NoAnswer
        /\ failures' = failures + 1 /\ UNCHANGED <<request, tosend, inFlight>>
        /\ purging' \in BOOLEAN
    BY <1>1, <1>2, <1>4 DEF Fail
  <2>3. QED
    BY <1>1, <1>2, <2>1, <2>2, AwayLag
<1>5. QED
  BY <1>3, <1>4 DEF RecvHeader

\* What a payload leaves in the buffer.
LEMMA ReceivedTypes ==
  ASSUME LagIInv, client = "body", Len(stream) >= FragmentSize
  PROVE  Received \in [Cells -> {Blank} \cup (Requests \X Nat)]
<1>1. WireTypes /\ place \in Nat /\ payload \in [Cells -> {Blank} \cup (Requests \X Nat)]
  BY DEF LagIInv, RecvTypes, RecvRange
<1>2. ASSUME NEW j \in 1..FragmentSize PROVE stream[j].request \in Requests /\ stream[j].n \in Nat
  <2>1. Wire[j].kind = "body" /\ j \in DOMAIN Wire
    BY DEF LagIInv, RecvTypes
  <2>2. j \in 1..Len(stream)
    BY <1>1, WireParts, Sizes
  <2>3. Wire[j] = stream[j] /\ Wire[j] \in Item
    BY <1>1, <2>1, <2>2, WireParts
  <2>4. Wire[j].n \in Nat /\ Wire[j].request \in Requests
    BY <2>1, <2>3, ItemFields
  <2>5. QED
    BY <2>3, <2>4
<1>3. ASSUME NEW b \in Cells, b \in place + 1..place + FragmentSize
      PROVE  <<stream[b - place].request, stream[b - place].n>> \in Requests \X Nat
  <2>1. b - place \in 1..FragmentSize
    BY <1>1, <1>3, Sizes DEF Cells
  <2>2. QED
    BY <1>2, <2>1
<1>4. QED
  BY <1>1, <1>3 DEF Received

\* A payload: the answer may be complete, and the next one lags less.
LEMMA PayloadLag == ASSUME LagIInv, RecvPayload PROVE LagIInv'
<1> DEFINE k == FragmentSize
<1>1. /\ WireTypes /\ stream \in Seq(Item) /\ client = "body"
      /\ UNCHANGED <<purging, request, fragment, tosend, inFlight>>
      /\ purging \in BOOLEAN /\ InExchange
      /\ failures \in Nat /\ request \in Nat /\ k \in 0..Len(stream) /\ Len(stream) >= FragmentSize
      /\ payload' = Received
  <2>1. WireTypes
    BY DEF LagIInv
  <2>2. Len(stream) \in Nat
    BY <2>1, WireParts
  <2>3. QED
    BY <2>1, <2>2, Sizes DEF WireTypes, RecvPayload, InExchange
<1>2. SubSeq(stream, FragmentSize + 1, Len(stream)) = Rest(stream, k)
  BY DEF Rest
<1>3. /\ RecvRange /\ offset \in Nat /\ numParts <= IsoMaxFragments /\ offset + FragmentSize <= PayloadSize
      /\ fragment \in [kind : {"head"}, request : Requests, eot : BOOLEAN]
  BY <1>1 DEF LagIInv, RecvTypes, RecvRange
<1>4. payload' \in [Cells -> {Blank} \cup (Requests \X Nat)]
  BY <1>1, ReceivedTypes
<1>5. fragment.request \in Nat /\ fragment.request \in Requests /\ fragment.request # 0
  BY <1>3, Sizes
<1>6. ASSUME ~Complete
      PROVE  RecvRange'
  <2>1. offset' = offset + FragmentSize /\ numParts' = numParts + 1 /\ place' = NextPlace
        /\ (answer' = answer \/ answer' = NoAnswer)
    BY <1>6 DEF RecvPayload, Fail, hisVars
  <2>2. offset' \in 0..PayloadSize /\ numParts' \in 1..IsoMaxFragments + 1 /\ place' \in Nat
    BY <1>3, <2>1, Sizes DEF NextPlace, RecvRange
  <2>3. answer'.request \in 0..MaxRequests
    BY <1>3, <2>1, Sizes DEF RecvRange, NoAnswer
  <2>4. QED
    BY <1>1, <1>3, <1>4, <2>2, <2>3 DEF RecvRange
<1>7. CASE Complete
  <2>1. /\ client' = "idle" /\ ~InExchange' /\ stream' = Rest(stream, k) /\ inFlight' = inFlight
        /\ answer'.request = fragment.request
        /\ UNCHANGED <<place, offset, numParts, failures>>
    <3>1. answer' = [request |-> fragment.request, bytes |-> [b \in 1..(offset + FragmentSize) |-> Received[b]]]
      BY <1>7 DEF RecvPayload
    <3>2. answer'.request = fragment.request
      BY <3>1
    <3>3. /\ client' = "idle" /\ stream' = Rest(stream, k)
          /\ UNCHANGED <<place, offset, numParts, failures>>
      BY <1>2, <1>7 DEF RecvPayload
    <3>4. QED
      BY <1>1, <3>2, <3>3 DEF InExchange
  <2>2. /\ stream' \in Seq(Item) /\ inFlight' \in Seq(Item)
        /\ Framed(Wire') /\ Ordered(Wire')
        /\ \A i \in DOMAIN Wire' : i \in Nat /\ i + k \in DOMAIN Wire /\ Wire'[i] = Wire[i + k]
    BY <1>1, <2>1, WireCut
  <2>3. /\ fragment.request + failures >= request /\ fragment.request <= request
        /\ \A j \in DOMAIN tosend : fragment.request < tosend[j] /\ tosend[j] <= request
        /\ \A i \in DOMAIN Wire : Wire[i].request <= request
        /\ \A i \in DOMAIN Wire : FragmentSize < i => fragment.request < Wire[i].request
    <3>1. Due(fragment.request) /\ fragment.request <= request
      BY <1>1 DEF LagIInv, Lags
    <3>2. /\ \A j \in DOMAIN tosend : fragment.request < tosend[j]
          /\ \A i \in DOMAIN Wire : FragmentSize < i => fragment.request < Wire[i].request
      BY <1>1, <1>7 DEF LagIInv, Order, Complete
    <3>3. QED
      BY <1>1, <1>5, <3>1, <3>2 DEF LagIInv, Lags, UnderWayLags, Due
  <2>4. ASSUME NEW q \in Nat, fragment.request < q
        PROVE  q + failures >= request + 1
    BY <1>1, <1>5, <2>3, <2>4
  <2>5. /\ \A i \in DOMAIN Wire : Wire[i].request \in Nat
        /\ \A j \in DOMAIN tosend : tosend[j] \in Nat
    <3>1. \A j \in DOMAIN tosend : tosend[j] \in Requests
      BY <1>1, ElementOfSeq, LenProperties DEF WireTypes
    <3>2. QED
      BY <1>1, <3>1, WireParts, Sizes
  <2>6. UnderWayLags'
    <3>1. \A i \in DOMAIN Wire' : Wire'[i].request + failures' >= request' + 1 /\ Wire'[i].request <= request'
      <4>1. ASSUME NEW i \in DOMAIN Wire'
            PROVE  Wire'[i].request + failures' >= request' + 1 /\ Wire'[i].request <= request'
        <5>1. i + k \in DOMAIN Wire /\ FragmentSize < i + k /\ Wire'[i] = Wire[i + k]
          <6>1. i \in Nat \ {0}
            <7>1. Wire' \in Seq(Item)
              BY <1>1, <2>1, <2>2, ConcatProperties DEF Wire
            <7>2. QED
              BY <7>1, LenProperties
          <6>2. QED
            BY <2>2, <6>1, Sizes
        <5>2. fragment.request < Wire[i + k].request /\ Wire[i + k].request <= request
          BY <2>3, <5>1
        <5>3. Wire[i + k].request \in Nat
          BY <2>5, <5>1
        <5>4. QED
          BY <1>1, <2>1, <2>4, <5>1, <5>2, <5>3
      <4>2. QED
        BY <4>1
    <3>2. \A j \in DOMAIN tosend : tosend[j] + failures >= request + 1 /\ tosend[j] <= request
      BY <2>3, <2>4, <2>5
    <3>3. QED
      BY <1>1, <2>1, <3>1, <3>2 DEF UnderWayLags, Due
  <2>7. UnderWayOrder'
    <3>1. /\ \A i, j \in DOMAIN tosend : i < j => tosend[i] < tosend[j]
          /\ \A i \in DOMAIN Wire, j \in DOMAIN tosend : Wire[i].request < tosend[j]
      BY DEF LagIInv, Order, UnderWayOrder
    <3>2. QED
      BY <1>1, <2>2, <3>1 DEF UnderWayOrder
  <2>8. WireTypes'
    BY <1>1, <2>1, <2>2 DEF WireTypes
  <2>9. RecvTypes'
    <3>1. RecvRange'
      BY <1>1, <1>3, <1>4, <1>5, <2>1, Sizes DEF RecvRange
    <3>2. QED
      BY <2>1, <3>1 DEF RecvTypes
  <2>10. Lags'
    BY <1>1, <1>5, <2>1, <2>3, <2>6 DEF Lags
  <2>11. Order'
    BY <2>1, <2>7 DEF Order
  <2>12. QED
    BY <2>8, <2>9, <2>10, <2>11 DEF LagIInv
<1>8. CASE ~Complete /\ ~TooMany(numParts', offset')
  <2>1. /\ client' = "head" /\ stream' = Rest(stream, k) /\ inFlight' = inFlight
        /\ failures' = failures /\ answer' = answer /\ numParts' = numParts + 1 /\ InExchange'
    BY <1>1, <1>2, <1>8 DEF RecvPayload, hisVars, InExchange
  <2>2. UnderWayLags' /\ UnderWayOrder'
    <3>1. /\ failures' \in Nat
          /\ failures' + (IF InExchange THEN 0 ELSE 1) >= failures + (IF InExchange' THEN 0 ELSE 1)
      BY <1>1, <2>1
    <3>2. QED
      BY <1>1, <2>1, <3>1, LagCut
  <2>3. stream' \in Seq(Item) /\ inFlight' \in Seq(Item) /\ Framed(Wire')
    BY <1>1, <2>1, WireCut
  <2>4. WireTypes'
    BY <1>1, <2>1, <2>3 DEF WireTypes
  <2>5. RecvTypes'
    <3>1. numParts' <= IsoMaxFragments
      BY <1>3, <1>8, <2>1, Sizes DEF TooMany, RecvRange
    <3>2. QED
      BY <1>6, <1>8, <2>1, <3>1 DEF RecvTypes
  <2>6. Lags'
    <3>1. answer'.request <= request'
      BY <1>1, <2>1 DEF LagIInv, Lags
    <3>2. QED
      BY <2>1, <2>2, <3>1 DEF Lags
  <2>7. Order'
    BY <2>1, <2>2 DEF Order
  <2>8. QED
    BY <2>4, <2>5, <2>6, <2>7 DEF LagIInv
<1>9. CASE ~Complete /\ TooMany(numParts', offset')
  <2>1. /\ client' = "failed" /\ stream' = Rest(stream, k) /\ answer' = NoAnswer
        /\ failures' = failures + 1
    BY <1>2, <1>9 DEF RecvPayload, Fail
  <2>2. UNCHANGED <<request, tosend, inFlight>> /\ RecvRange' /\ purging' \in BOOLEAN
    BY <1>1, <1>6, <1>9
  <2>3. QED
    BY <1>1, <2>1, <2>2, AwayLag
<1>10. QED
  BY <1>7, <1>8, <1>9

\* The clock ends an exchange.
LEMMA TimeoutLag == ASSUME LagIInv, Timeout PROVE LagIInv'
<1>1. /\ InExchange /\ client' = "timedOut" /\ stream' = stream /\ answer' = NoAnswer
      /\ failures' = failures + 1 /\ UNCHANGED <<purging, request, recvVars, tosend, inFlight>>
  BY DEF Timeout, Expired, Fail, InExchange
<1>2. RecvRange'
  BY <1>1, Sizes DEF LagIInv, RecvTypes, RecvRange, recvVars, NoAnswer
<1>3. stream' = Rest(stream, 0) /\ 0 \in 0..Len(stream) /\ purging' \in BOOLEAN
  <2>1. stream \in Seq(Item) /\ purging \in BOOLEAN
    BY DEF LagIInv, WireTypes
  <2>2. QED
    BY <1>1, <2>1, RestNone
<1>4. QED
  BY <1>1, <1>2, <1>3, AwayLag DEF recvVars

\* A new connection: nothing is under way.
LEMMA NewStreamLag ==
  ASSUME LagIInv, NewStream, client' = "idle", purging' = FALSE, UNCHANGED <<request, recvVars>>
  PROVE  LagIInv'
<1>1. /\ <<>> \o <<>> = <<>> /\ <<>> \in Seq(Item) /\ <<>> \in Seq(Requests) /\ DOMAIN <<>> = {}
  OBVIOUS
<1>2. /\ client' = "idle" /\ tosend' = <<>> /\ inFlight' = <<>> /\ stream' = <<>> /\ Wire' = <<>>
      /\ answer' = NoAnswer /\ failures' = 0 /\ UNCHANGED <<request, recvVars>> /\ ~InExchange'
  BY <1>1 DEF NewStream, Wire, InExchange
<1>3. request \in Nat /\ request \in 0..MaxRequests
  BY Sizes DEF LagIInv, WireTypes
<1>4. WireTypes'
  BY <1>1, <1>2, <1>3 DEF WireTypes, Framed
<1>5. RecvTypes'
  <2>1. RecvRange'
    BY <1>2, Sizes DEF LagIInv, RecvTypes, RecvRange, recvVars, NoAnswer
  <2>2. QED
    BY <1>2, <2>1 DEF RecvTypes
<1>6. UnderWayLags' /\ UnderWayOrder'
  BY <1>1, <1>2 DEF UnderWayLags, UnderWayOrder, Ordered
<1>7. Lags' /\ Order'
  BY <1>2, <1>3, <1>6 DEF Lags, Order, NoAnswer
<1>8. QED
  BY <1>4, <1>5, <1>7 DEF LagIInv

\* Where a purge returns to, no exchange goes on.
LEMMA PurgeReturns ==
  ASSUME AtPurge
  PROVE  /\ client \in {"timedOut", "failed", "leaving", "closing"} /\ ~InExchange
         /\ AfterPurge[client] \in {"idle", "failed", "closing"}
         /\ client = "closing" => AfterPurge[client] = "idle"
  BY DEF AtPurge, AfterPurge, InExchange

\* A purge that returns, of which only DestroySocket's is the end of the stream.
LEMMA PurgedLag ==
  ASSUME LagIInv, AtPurge, NEW k \in 0..Len(stream), Purged(Rest(stream, k)),
         UNCHANGED <<request, recvVars>>
  PROVE  LagIInv'
<1>1. client' = AfterPurge[client] /\ purging' = FALSE
  BY DEF Purged
<1>2. CASE client = "closing"
  BY <1>1, <1>2, PurgeReturns, NewStreamLag DEF Purged
<1>3. CASE client # "closing"
  <2>1. stream' = Rest(stream, k) /\ UNCHANGED <<tosend, inFlight, answer, failures>>
    BY <1>3 DEF Purged, hisVars
  <2>2. RecvRange'
    BY <2>1 DEF LagIInv, RecvTypes, RecvRange, recvVars
  <2>3. client' \in {"idle", "timedOut", "failed", "leaving", "closing"} /\ ~InExchange
        /\ purging' \in BOOLEAN
    BY <1>1, PurgeReturns
  <2>4. QED
    BY <2>1, <2>2, <2>3, AwayLag
<1>4. QED
  BY <1>2, <1>3

\* The steps of disconnection and of the purges.
LEMMA PurgeLag ==
  ASSUME LagIInv, Disconnect \/ PurgeBegin \/ PurgeRecv \/ PlcCloses
  PROVE  LagIInv'
<1>1. stream \in Seq(Item) /\ Len(stream) \in Nat /\ Rest(stream, 0) = stream /\ 0 \in 0..Len(stream)
  <2>1. stream \in Seq(Item)
    BY DEF LagIInv, WireTypes
  <2>2. QED
    BY <2>1, RestNone, LenProperties
<1>2. CASE Disconnect \/ (PurgeBegin /\ purging' = TRUE)
  <2>1. /\ ~InExchange /\ client' \in {"idle", "timedOut", "failed", "leaving", "closing"}
        /\ stream' = stream /\ purging' \in BOOLEAN
        /\ UNCHANGED <<request, recvVars, tosend, inFlight, answer, failures>>
    <3>1. CASE Disconnect
      BY <3>1 DEF Disconnect, InExchange, LagIInv, WireTypes, netVars, hisVars
    <3>2. CASE PurgeBegin /\ purging' = TRUE
      BY <3>2, PurgeReturns DEF PurgeBegin, Purged, netVars, hisVars
    <3>3. QED
      BY <1>2, <3>1, <3>2
  <2>2. RecvRange'
    BY <2>1 DEF LagIInv, RecvTypes, RecvRange, recvVars
  <2>3. QED
    BY <1>1, <2>1, <2>2, AwayLag DEF recvVars
<1>3. CASE (PurgeBegin /\ purging' # TRUE) \/ PlcCloses
  <2>1. AtPurge /\ Purged(stream) /\ UNCHANGED <<request, recvVars>>
    BY <1>3 DEF PurgeBegin, PlcCloses, AtPurge, AfterPurge
  <2>2. QED
    BY <1>1, <2>1, PurgedLag
<1>4. CASE PurgeRecv
  <2>1. Read \in 0..Len(stream)
    BY <1>1, ExchangeAssumption DEF Read
  <2>2. SubSeq(stream, Read + 1, Len(stream)) = Rest(stream, Read)
    BY DEF Rest
  <2>3. AtPurge /\ UNCHANGED <<request, recvVars>>
    BY <1>4 DEF PurgeRecv
  <2>4. CASE Purged(Rest(stream, Read))
    BY <2>1, <2>3, <2>4, PurgedLag
  <2>5. CASE stream' = Rest(stream, Read) /\ UNCHANGED <<client, purging, tosend, inFlight, hisVars>>
    <3>1. RecvRange'
      BY <2>3, <2>5 DEF LagIInv, RecvTypes, RecvRange, recvVars, hisVars
    <3>2. purging' \in BOOLEAN
      BY <2>5 DEF LagIInv, WireTypes
    <3>3. QED
      BY <2>1, <2>3, <2>5, <3>1, <3>2, PurgeReturns, AwayLag DEF hisVars
  <2>6. QED
    BY <1>4, <2>2, <2>4, <2>5 DEF PurgeRecv
<1>5. QED
  BY <1>2, <1>3, <1>4

\* Every step keeps the lag within its bound.
LEMMA LagStep == ASSUME LagIInv, [Next]_vars PROVE LagIInv'
<1>1. CASE PlcAnswers
  BY <1>1, PlcLag
<1>2. CASE Arrive
  <2>1. UNCHANGED <<client, purging, request, recvVars, tosend, hisVars>>
    BY <1>2 DEF Arrive
  <2>2. QED
    BY <1>2, <2>1, ArriveWire, SameLag
<1>3. CASE Send
  BY <1>3, SendLag
<1>4. CASE RecvHeader
  BY <1>4, HeaderLag
<1>5. CASE RecvPayload
  BY <1>5, PayloadLag
<1>6. CASE Timeout
  BY <1>6, TimeoutLag
<1>7. CASE Disconnect \/ PurgeBegin \/ PurgeRecv \/ PlcCloses
  BY <1>7, PurgeLag
<1>8. CASE UNCHANGED vars
  <2>1. UNCHANGED <<client, purging, request, recvVars, tosend, hisVars>> /\ UNCHANGED <<stream, inFlight>>
    BY <1>8 DEF vars, netVars
  <2>2. stream' \in Seq(Item) /\ inFlight' \in Seq(Item) /\ Wire' = Wire
    BY <2>1 DEF LagIInv, WireTypes, Wire
  <2>3. QED
    BY <2>1, <2>2, SameLag
<1>9. QED
  BY <1>1, <1>2, <1>3, <1>4, <1>5, <1>6, <1>7, <1>8 DEF Next, ClientStep

\* The strengthening holds in every state.
LEMMA LagInvariant == Spec => []LagIInv
<1>1. Init => LagIInv
  BY InitLag
<1>2. LagIInv /\ [Next]_vars => LagIInv'
  BY LagStep
<1>3. QED
  BY <1>1, <1>2, PTL DEF Spec

\* For any requests, splitting and sizes, fragments stay within the buffer and
\* within IsoMaxFragments, and every part of the state has its type.
THEOREM TypeOKHolds == Spec => []TypeOK
<1>1. ASSUME LagIInv PROVE TypeOK
  <2>1. /\ RecvRange /\ request \in 0..MaxRequests /\ failures \in Nat
        /\ client \in {"idle", "head", "body", "timedOut", "failed", "leaving", "closing"}
        /\ purging \in BOOLEAN /\ tosend \in Seq(Requests)
    BY <1>1 DEF LagIInv, WireTypes, RecvTypes
  <2>2. \A i \in 1..Len(tosend) : tosend[i] \in Requests
    BY <2>1, ElementOfSeq
  <2>3. fragment = NoFragment \/ fragment.kind = "head"
    BY <2>1 DEF RecvRange
  <2>4. QED
    BY <2>1, <2>2, <2>3 DEF TypeOK, RecvRange
<1>2. QED
  BY <1>1, LagInvariant, PTL

\* Whatever the PLC delays or loses, an answer returned belongs to a request at
\* most as far back as exchanges have failed since Connect.
THEOREM LagBoundedHolds == Spec => []LagBounded
<1>1. ASSUME LagIInv PROVE LagBounded
  <2>1. /\ client = "idle" /\ answer.request # 0 => request <= answer.request + failures
        /\ answer.request \in Nat /\ failures \in Nat /\ request \in Nat
    <3>1. /\ answer.request \in 0..MaxRequests /\ failures \in Nat /\ request \in 0..MaxRequests
      BY <1>1 DEF LagIInv, WireTypes, RecvTypes, RecvRange
    <3>2. QED
      BY <1>1, <3>1, Sizes DEF LagIInv, Lags, InExchange
  <2>2. QED
    BY <2>1 DEF LagBounded
<1>2. QED
  BY <1>1, LagInvariant, PTL

-----------------------------------------------------------------------------
(* No failure, no lag.                                                     *)

\* Cutting twice.
LEMMA RestRest ==
  ASSUME NEW S, NEW s \in Seq(S), NEW j \in 0..Len(s), NEW k \in 0..Len(s) - j
  PROVE  Rest(Rest(s, j), k) = Rest(s, j + k)
<1>1. /\ Rest(s, j) \in Seq(S) /\ Len(Rest(s, j)) = Len(s) - j
      /\ \A i \in 1..Len(s) - j : Rest(s, j)[i] = s[i + j]
  BY RestProperties
<1>2. Len(s) \in Nat /\ j \in Nat /\ k \in Nat /\ j + k \in 0..Len(s)
  BY LenProperties
<1>3. /\ Rest(s, j + k) \in Seq(S) /\ Len(Rest(s, j + k)) = Len(s) - (j + k)
      /\ \A i \in 1..Len(s) - (j + k) : Rest(s, j + k)[i] = s[i + (j + k)]
  BY <1>2, RestProperties
<1>4. PICK t \in Seq(S) : t = Rest(s, j)
  BY <1>1
<1>5. /\ Rest(t, k) \in Seq(S) /\ Len(Rest(t, k)) = Len(t) - k
      /\ \A i \in 1..Len(t) - k : Rest(t, k)[i] = t[i + k]
  <2>1. k \in 0..Len(t)
    BY <1>1, <1>4
  <2>2. QED
    BY <2>1, RestProperties
<1>6. Len(t) - k = Len(s) - (j + k)
  BY <1>1, <1>2, <1>4
<1>7. ASSUME NEW i \in 1..Len(s) - (j + k) PROVE Rest(t, k)[i] = Rest(s, j + k)[i]
  <2>1. i + k \in 1..Len(s) - j /\ i + k + j = i + (j + k) /\ i \in 1..Len(t) - k
    BY <1>2, <1>6
  <2>2. Rest(t, k)[i] = t[i + k]
    BY <1>5, <2>1
  <2>3. t[i + k] = s[i + k + j]
    BY <1>1, <1>4, <2>1
  <2>4. QED
    BY <1>3, <2>1, <2>2, <2>3
<1>8. Rest(t, k) = Rest(s, j + k)
  BY <1>3, <1>5, <1>6, <1>7, SeqEqual
<1>9. QED
  BY <1>4, <1>8

\* The fragments of an answer, as the client meets them.
LEMMA AnswerRest ==
  ASSUME NEW r \in Requests, NEW n \in Nat \ {0}, NEW f \in 1..n
  PROVE  /\ Rest(Answer(r, n), HeaderAt(1) - 1) = Answer(r, n)
         /\ Rest(Answer(r, n), HeaderAt(f) - 1)[1] = Header(r, f = n)
         /\ Rest(Rest(Answer(r, n), HeaderAt(f) - 1), 1) = Rest(Answer(r, n), HeaderAt(f))
         /\ \A b \in 1..FragmentSize :
              Rest(Answer(r, n), HeaderAt(f))[b] = Byte(r, (f - 1) * FragmentSize + b)
         /\ f = n => Rest(Rest(Answer(r, n), HeaderAt(f)), FragmentSize) = <<>>
         /\ f # n => Rest(Rest(Answer(r, n), HeaderAt(f)), FragmentSize)
                       = Rest(Answer(r, n), HeaderAt(f + 1) - 1)
<1>1. PICK a : a = Answer(r, n)
  OBVIOUS
<1>2. /\ a \in Seq(Item) /\ Len(a) = HeaderAt(n) + FragmentSize
      /\ a[HeaderAt(f)] = Header(r, f = n)
      /\ \A b \in 1..FragmentSize : a[HeaderAt(f) + b] = Byte(r, (f - 1) * FragmentSize + b)
  BY <1>1, AnswerShape
<1>3. /\ HeaderAt(f) \in Nat \ {0} /\ HeaderAt(n) \in Nat /\ HeaderAt(1) = 1
      /\ HeaderAt(f + 1) = HeaderAt(f) + FragmentSize + 1 /\ FragmentSize \in Nat \ {0}
      /\ HeaderAt(f) + FragmentSize <= Len(a)
  <2>1. /\ HeaderAt(f) \in Nat \ {0} /\ HeaderAt(n) \in Nat /\ HeaderAt(1) = 1
        /\ HeaderAt(f + 1) = HeaderAt(f) + FragmentSize + 1
    BY HeaderNext
  <2>2. f < n => HeaderAt(f) + FragmentSize < HeaderAt(n)
    BY HeaderOrder
  <2>3. f < n \/ f = n
    OBVIOUS
  <2>4. QED
    BY <1>2, <2>1, <2>2, <2>3, Sizes
<1>4. PICK h \in Nat \ {0} : h = HeaderAt(f)
  BY <1>3
<1>5. h - 1 \in 0..Len(a) /\ h \in 0..Len(a) /\ 0 \in 0..Len(a) /\ Len(a) \in Nat /\ Len(a) - h >= FragmentSize
  BY <1>2, <1>3, <1>4
<1>6. ASSUME NEW q \in 0..Len(a)
       PROVE  /\ Rest(a, q) \in Seq(Item) /\ Len(Rest(a, q)) = Len(a) - q
              /\ \A i \in 1..Len(a) - q : Rest(a, q)[i] = a[i + q]
  <2>1. a \in Seq(Item)
    BY <1>2
  <2>2. QED
    BY <2>1, RestProperties
<1>7. /\ \A i \in 1..Len(a) - (h - 1) : Rest(a, h - 1)[i] = a[i + (h - 1)]
      /\ \A i \in 1..Len(a) - h : Rest(a, h)[i] = a[i + h]
  BY <1>5, <1>6
<1>8. Rest(a, 0) = a
  <2>1. /\ Rest(a, 0) \in Seq(Item) /\ Len(Rest(a, 0)) = Len(a) - 0
        /\ \A i \in 1..Len(a) - 0 : Rest(a, 0)[i] = a[i + 0]
    BY <1>5, <1>6
  <2>2. Len(Rest(a, 0)) = Len(a) /\ \A i \in 1..Len(a) : Rest(a, 0)[i] = a[i]
    BY <1>5, <2>1
  <2>3. QED
    BY <1>2, <2>1, <2>2, SeqEqual
<1>9. Rest(a, h - 1)[1] = Header(r, f = n)
  <2>1. 1 \in 1..Len(a) - (h - 1) /\ 1 + (h - 1) = h
    BY <1>3, <1>5
  <2>2. Rest(a, h - 1)[1] = a[1 + (h - 1)]
    BY <1>7, <2>1
  <2>3. QED
    BY <1>2, <1>4, <2>1, <2>2
<1>10. Rest(Rest(a, h - 1), 1) = Rest(a, h)
  <2>1. 1 \in 0..Len(a) - (h - 1) /\ (h - 1) + 1 = h
    BY <1>3, <1>5
  <2>2. Rest(Rest(a, h - 1), 1) = Rest(a, (h - 1) + 1)
    BY <1>2, <1>5, <2>1, RestRest
  <2>3. QED
    BY <2>1, <2>2
<1>11. ASSUME NEW b \in 1..FragmentSize PROVE Rest(a, h)[b] = Byte(r, (f - 1) * FragmentSize + b)
  <2>1. b \in 1..Len(a) - h /\ b + h = h + b
    BY <1>3, <1>5
  <2>2. Rest(a, h)[b] = a[h + b]
    BY <1>7, <2>1
  <2>3. QED
    BY <1>2, <1>4, <2>2
<1>12. Rest(Rest(a, h), FragmentSize) = Rest(a, h + FragmentSize)
  <2>1. FragmentSize \in 0..Len(a) - h
    BY <1>3, <1>5
  <2>2. QED
    BY <1>2, <1>5, <2>1, RestRest
<1>13. f = n => Rest(a, h + FragmentSize) = <<>>
  <2> SUFFICES ASSUME f = n PROVE Rest(a, h + FragmentSize) = <<>>
    OBVIOUS
  <2>1. Len(a) = h + FragmentSize /\ Len(a) \in 0..Len(a)
    BY <1>2, <1>4, <1>5
  <2>2. Rest(a, Len(a)) \in Seq(Item) /\ Len(Rest(a, Len(a))) = Len(a) - Len(a)
    BY <2>1, <1>6
  <2>3. Len(Rest(a, Len(a))) = 0
    BY <1>5, <2>2
  <2>4. Rest(a, Len(a)) = <<>>
    BY <2>2, <2>3, EmptySeq
  <2>5. QED
    BY <2>1, <2>4
<1>14. HeaderAt(f + 1) - 1 = h + FragmentSize /\ HeaderAt(1) - 1 = 0
  BY <1>3, <1>4
<1>15. QED
  BY <1>1, <1>4, <1>8, <1>9, <1>10, <1>11, <1>12, <1>13, <1>14

\* A failed exchange ends the claim.
LEMMA FailFresh ==
  ASSUME LagIInv, failures' = failures + 1
  PROVE  Fresh' /\ TwoFragmentsInOrder'
<1>1. failures' # 0
  BY DEF LagIInv, WireTypes
<1>2. QED
  BY <1>1 DEF Fresh, TwoFragmentsInOrder

\* What an exchange in progress has to rely on.
LEMMA InProgress ==
  ASSUME LagIInv, InExchange
  PROVE  /\ request \in Requests /\ Wire \in Seq(Item) /\ stream \in Seq(Item)
         /\ \A n \in Fragmentations : n \in Nat \ {0}
<1>1. WireTypes
  BY DEF LagIInv
<1>2. request \in 0..MaxRequests /\ request > 0
  BY <1>1 DEF WireTypes
<1>3. request \in Requests
  BY <1>2, Sizes DEF Requests
<1>4. Wire \in Seq(Item) /\ stream \in Seq(Item)
  BY <1>1, WireParts DEF WireTypes
<1>5. \A n \in Fragmentations : n \in Nat \ {0}
  BY ExchangeAssumption
<1>6. QED
  BY <1>3, <1>4, <1>5

\* The answer to the only request under way.
LEMMA PlcFresh ==
  ASSUME LagIInv, Fresh, PlcAnswers, failures = 0
  PROVE  Fresh'
<1>1. Waiting /\ tosend = <<request>> /\ client = "head" /\ Wire = <<>>
  BY DEF Fresh, PlcAnswers, Waiting
<1>2. /\ Head(tosend) = request /\ Tail(tosend) = <<>>
  BY <1>1
<1>3. PICK n \in Fragmentations : inFlight' = inFlight \o Answer(request, n)
  BY <1>2 DEF PlcAnswers
<1>4. request \in Requests /\ n \in Nat \ {0} /\ stream \in Seq(Item) /\ inFlight \in Seq(Item)
  BY <1>1, InProgress DEF LagIInv, WireTypes, InExchange
<1>5. PICK a \in Seq(Item) : a = Answer(request, n)
  BY <1>4, AnswerShape
<1>6. Wire' = a
  <2>1. stream' = stream /\ inFlight' = inFlight \o a
    BY <1>3, <1>5 DEF PlcAnswers
  <2>2. stream \in Seq(Item) /\ inFlight \in Seq(Item) /\ a \in Seq(Item)
    BY <1>4
  <2>3. (stream \o inFlight) \o a = stream \o (inFlight \o a)
    BY <2>2, ConcatAssociative
  <2>4. <<>> \o a = a
    BY <2>2
  <2>5. QED
    BY <1>1, <2>1, <2>3, <2>4 DEF Wire
<1>7. Rest(a, HeaderAt(1) - 1) = a
  <2>1. 1 \in 1..n
    BY <1>4
  <2>2. QED
    BY <1>4, <1>5, <2>1, AnswerRest
<1>8. /\ client' = "head" /\ tosend' = <<>> /\ numParts' = 1 /\ offset' = 0 /\ place' = 0
      /\ request' = request /\ failures' = 0
  BY <1>1, <1>2 DEF PlcAnswers, Waiting, recvVars, hisVars
<1>9. Receiving(n)'
  <2>1. numParts' \in 1..n /\ (numParts' - 1) * FragmentSize = 0 /\ numParts' # 2
    BY <1>4, <1>8, Sizes
  <2>2. Wire' = Rest(Answer(request', n), HeaderAt(numParts') - 1)
    BY <1>5, <1>6, <1>7, <1>8
  <2>3. QED
    BY <1>8, <2>1, <2>2 DEF Receiving
<1>10. QED
  BY <1>8, <1>9 DEF Fresh, InExchange

\* Nothing the client looks at has changed.
LEMMA SameFresh ==
  ASSUME Fresh, TwoFragmentsInOrder, Wire' = Wire,
         UNCHANGED <<client, purging, request, recvVars, tosend, hisVars>>
  PROVE  Fresh' /\ TwoFragmentsInOrder'
<1>1. \A n : Receiving(n) => Receiving(n)'
  BY DEF Receiving, recvVars
<1>2. Fresh'
  BY <1>1 DEF Fresh, Waiting, InExchange, recvVars, hisVars
<1>3. TwoFragmentsInOrder'
  BY DEF TwoFragmentsInOrder, Whole, hisVars
<1>4. QED
  BY <1>2, <1>3

\* The header of the next fragment of the answer.
LEMMA HeaderFresh ==
  ASSUME LagIInv, Fresh, TwoFragmentsInOrder, RecvHeader
  PROVE  Fresh' /\ TwoFragmentsInOrder'
<1>1. /\ client = "head" /\ stream # <<>> /\ stream \in Seq(Item)
      /\ UNCHANGED <<request, payload, place, offset, numParts, tosend, inFlight>>
  BY InProgress DEF RecvHeader, InExchange
<1>2. CASE Fail("failed", Tail(stream))
  BY <1>2, FailFresh DEF Fail
<1>3. CASE /\ fragment' = Head(stream) /\ stream' = Tail(stream) /\ client' = "body" /\ UNCHANGED hisVars
  <2>1. TwoFragmentsInOrder'
    BY <1>3 DEF TwoFragmentsInOrder, Whole, hisVars
  <2> SUFFICES ASSUME failures = 0 PROVE Fresh'
    BY <1>3, <2>1 DEF Fresh, hisVars
  <2>2. /\ Tail(stream) = Rest(stream, 1) /\ 1 \in 0..Len(stream) /\ Head(stream) = stream[1]
        /\ Wire # <<>> /\ Wire[1] = stream[1]
    <3>1. Tail(stream) = Rest(stream, 1) /\ 1 \in 0..Len(stream) /\ Head(stream) = stream[1]
      BY <1>1, TailRest, HeadTailProperties
    <3>2. 1 \in 1..Len(stream) /\ WireTypes
      BY <3>1 DEF LagIInv
    <3>3. 1 \in DOMAIN Wire /\ Wire[1] = stream[1] /\ Wire \in Seq(Item) /\ DOMAIN Wire = 1..Len(Wire)
      BY <3>2, WireParts
    <3>4. Wire # <<>>
      BY <3>3
    <3>5. QED
      BY <3>1, <3>3, <3>4
  <2>3. tosend = <<>> /\ \E n \in Fragmentations : Receiving(n)
    BY <1>1, <2>2 DEF Fresh, Waiting
  <2>4. PICK n \in Fragmentations : Receiving(n)
    BY <2>3
  <2>5. n \in Nat \ {0} /\ request \in Requests /\ numParts \in 1..n
    BY <1>1, <2>4, InProgress DEF Receiving, InExchange
  <2>6. Wire = Rest(Answer(request, n), HeaderAt(numParts) - 1)
    BY <1>1, <2>4 DEF Receiving
  <2>7. /\ Wire[1] = Header(request, numParts = n)
        /\ Rest(Wire, 1) = Rest(Answer(request, n), HeaderAt(numParts))
    BY <2>5, <2>6, AnswerRest
  <2>8. Wire' = Rest(Wire, 1)
    <3>1. stream' = Rest(stream, 1) /\ inFlight' = inFlight
      BY <1>1, <1>3, <2>2
    <3>2. QED
      BY <2>2, <3>1, WireCut
  <2>9. fragment' = Header(request', numParts' = n)
    BY <1>1, <1>3, <2>2, <2>7
  <2>10. Wire' = Rest(Answer(request', n), HeaderAt(numParts') - 0)
    <3>1. HeaderAt(numParts) - 0 = HeaderAt(numParts)
      BY <2>5, HeaderNext
    <3>2. QED
      BY <1>1, <2>7, <2>8, <3>1
  <2>11. Receiving(n)'
    BY <1>1, <1>3, <2>4, <2>9, <2>10 DEF Receiving
  <2>12. QED
    BY <1>1, <1>3, <2>3, <2>11 DEF Fresh, InExchange
<1>4. QED
  BY <1>2, <1>3 DEF RecvHeader

\* The payload of a fragment of the answer: request and place of each byte.
LEMMA PayloadBytes ==
  ASSUME LagIInv, client = "body", Len(stream) >= FragmentSize, NEW n \in Nat \ {0}, Receiving(n)
  PROVE  /\ offset = (numParts - 1) * FragmentSize /\ offset + FragmentSize <= PayloadSize
         /\ \A b \in 1..FragmentSize :
              stream[b].request = request /\ stream[b].n = offset + b
         /\ numParts = 1 => \A b \in 1..FragmentSize : Received[b] = <<request, b>>
         /\ numParts = 2 => \A b \in 1..2 * FragmentSize : Received[b] = <<request, b>>
<1>1. /\ request \in Requests /\ numParts \in 1..n /\ WireTypes /\ offset = (numParts - 1) * FragmentSize
      /\ offset + FragmentSize <= PayloadSize
  BY InProgress DEF LagIInv, Receiving, RecvTypes, InExchange
<1>2. Wire = Rest(Answer(request, n), HeaderAt(numParts))
  <2>1. Wire = Rest(Answer(request, n), HeaderAt(numParts) - 0)
    BY DEF Receiving
  <2>2. HeaderAt(numParts) - 0 = HeaderAt(numParts)
    <3>1. numParts \in Nat \ {0}
      BY <1>1
    <3>2. HeaderAt(numParts) \in Nat
      BY <3>1, HeaderNext
    <3>3. QED
      BY <3>2
  <2>3. QED
    BY <2>1, <2>2
<1>3. ASSUME NEW b \in 1..FragmentSize
      PROVE  stream[b].request = request /\ stream[b].n = offset + b
  <2>1. Rest(Answer(request, n), HeaderAt(numParts))[b] = Byte(request, (numParts - 1) * FragmentSize + b)
    BY <1>1, AnswerRest
  <2>2. b \in 1..Len(stream)
    BY <1>1, WireParts, Sizes
  <2>3. stream[b] = Byte(request, offset + b)
    BY <1>1, <1>2, <2>1, <2>2, WireParts
  <2>4. QED
    BY <2>3 DEF Byte
<1>4. ASSUME numParts = 1, NEW b \in 1..FragmentSize PROVE Received[b] = <<request, b>>
  <2>1. place = 0 /\ offset = 0
    BY <1>1, <1>4, Sizes DEF Receiving
  <2>2. b \in Cells /\ b \in place + 1..place + FragmentSize /\ b - place = b /\ offset + b = b
    BY <1>1, <2>1, Sizes DEF Cells
  <2>3. Received[b] = <<stream[b].request, stream[b].n>>
    BY <2>2 DEF Received
  <2>4. QED
    BY <1>3, <2>2, <2>3
<1>5. ASSUME numParts = 2, NEW b \in 1..2 * FragmentSize PROVE Received[b] = <<request, b>>
  <2>1. place = FragmentSize /\ offset = FragmentSize /\ \A c \in 1..FragmentSize : payload[c] = <<request, c>>
    BY <1>1, <1>5, Sizes DEF Receiving
  <2>2. b \in Cells
    BY <1>1, <2>1, Sizes DEF Cells
  <2>3. CASE b \in 1..FragmentSize
    <3>1. b \notin place + 1..place + FragmentSize
      BY <2>1, <2>3, Sizes
    <3>2. QED
      BY <2>1, <2>2, <2>3, <3>1 DEF Received
  <2>4. CASE b \notin 1..FragmentSize
    <3>1. b \in place + 1..place + FragmentSize /\ b - place \in 1..FragmentSize
          /\ offset + (b - place) = b
      BY <2>1, <2>4, Sizes
    <3>2. Received[b] = <<stream[b - place].request, stream[b - place].n>>
      BY <2>2, <3>1 DEF Received
    <3>3. QED
      BY <1>3, <3>1, <3>2
  <2>5. QED
    BY <2>3, <2>4
<1>6. QED
  BY <1>1, <1>3, <1>4, <1>5

\* The end of the answer, or of one of its fragments.
LEMMA PayloadFresh ==
  ASSUME LagIInv, Fresh, TwoFragmentsInOrder, RecvPayload
  PROVE  Fresh' /\ TwoFragmentsInOrder'
<1>1. /\ client = "body" /\ Len(stream) >= FragmentSize /\ stream \in Seq(Item) /\ payload' = Received
      /\ UNCHANGED <<request, fragment, tosend, inFlight>>
  BY InProgress DEF RecvPayload, InExchange
<1>2. CASE failures' = failures + 1
  BY <1>2, FailFresh
<1>3. CASE failures' = failures /\ failures # 0
  BY <1>3 DEF Fresh, TwoFragmentsInOrder
<1>4. CASE failures' = failures /\ failures = 0
  <2>1. tosend = <<>> /\ \E n \in Fragmentations : Receiving(n)
    BY <1>1, <1>4 DEF Fresh, Waiting
  <2>2. PICK n \in Fragmentations : Receiving(n)
    BY <2>1
  <2>3. n \in Nat \ {0} /\ request \in Requests /\ numParts \in 1..n /\ FragmentSize \in Nat \ {0}
    BY <1>1, <2>2, InProgress, Sizes DEF Receiving, InExchange
  <2>4. Wire = Rest(Answer(request, n), HeaderAt(numParts))
    <3>1. Wire = Rest(Answer(request, n), HeaderAt(numParts) - 0)
      BY <1>1, <2>2 DEF Receiving
    <3>2. numParts \in Nat \ {0}
      BY <2>3
    <3>3. HeaderAt(numParts) \in Nat
      BY <3>2, HeaderNext
    <3>4. QED
      BY <3>1, <3>3
  <2>5. fragment = Header(request, numParts = n)
    BY <1>1, <2>2 DEF Receiving
  <2>6. /\ offset = (numParts - 1) * FragmentSize /\ offset + FragmentSize <= PayloadSize
        /\ numParts = 1 => \A b \in 1..FragmentSize : Received[b] = <<request, b>>
        /\ numParts = 2 => \A b \in 1..2 * FragmentSize : Received[b] = <<request, b>>
    BY <1>1, <2>2, <2>3, PayloadBytes
  <2>7. fragment.request = request /\ (Complete <=> numParts = n)
    BY <2>5 DEF Header, Complete
  <2>8. stream' = Rest(stream, FragmentSize) => Wire' = Rest(Wire, FragmentSize)
    <3>1. FragmentSize \in 0..Len(stream)
      BY <1>1, <2>3, LenProperties
    <3>2. QED
      BY <1>1, <3>1, WireCut
  <2>9. CASE Complete
    <3>1. answer' = [request |-> fragment.request, bytes |-> [b \in 1..(offset + FragmentSize) |-> Received[b]]]
      BY <2>9 DEF RecvPayload
    <3>2. answer'.request = request /\ answer'.bytes = [b \in 1..(offset + FragmentSize) |-> Received[b]]
      BY <2>7, <3>1
    <3>3. client' = "idle" /\ tosend' = <<>> /\ stream' = Rest(stream, FragmentSize)
      BY <1>1, <2>1, <2>9 DEF RecvPayload, Rest
    <3>4. Wire' = <<>>
      BY <2>3, <2>4, <2>7, <2>8, <2>9, <3>3, AnswerRest
    <3>5. offset + FragmentSize \in Nat /\ Len(answer'.bytes) = offset + FragmentSize
      <4>1. (numParts - 1) * FragmentSize \in Nat
        BY <2>3
      <4>2. offset + FragmentSize \in Nat
        BY <2>3, <2>6, <4>1
      <4>3. QED
        BY <3>2, <4>2
    <3>6. ASSUME Len(answer'.bytes) <= 2 * FragmentSize
          PROVE  \A b \in 1..Len(answer'.bytes) : Received[b] = <<request, b>>
      <4>1. numParts \in 1..2
        <5>1. SUFFICES ASSUME numParts > 2 PROVE FALSE
          BY <2>3
        <5>2. (numParts - 3) * FragmentSize \in Nat
          BY <2>3, <5>1
        <5>3. (numParts - 1) * FragmentSize = (numParts - 3) * FragmentSize + 2 * FragmentSize
          BY <2>3
        <5>4. QED
          BY <2>3, <2>6, <3>5, <3>6, <5>2, <5>3
      <4>2. CASE numParts = 1
        <5>1. Len(answer'.bytes) = FragmentSize
          BY <2>3, <2>6, <3>5, <4>2
        <5>2. QED
          BY <2>6, <4>2, <5>1
      <4>3. CASE numParts = 2
        <5>1. Len(answer'.bytes) = 2 * FragmentSize
          BY <2>3, <2>6, <3>5, <4>3
        <5>2. QED
          BY <2>6, <4>3, <5>1
      <4>4. QED
        BY <4>1, <4>2, <4>3
    <3>7. TwoFragmentsInOrder'
      BY <3>2, <3>5, <3>6 DEF TwoFragmentsInOrder, Whole
    <3>8. QED
      BY <3>3, <3>4, <3>7 DEF Fresh
  <2>10. CASE ~Complete
    <3>1. /\ client' = "head" /\ stream' = Rest(stream, FragmentSize) /\ UNCHANGED hisVars
          /\ offset' = offset + FragmentSize /\ numParts' = numParts + 1 /\ place' = NextPlace
      <4>1. failures' # failures + 1
        BY <1>4
      <4>2. QED
        BY <2>10, <4>1 DEF RecvPayload, Fail, Rest
    <3>2. Wire' = Rest(Answer(request, n), HeaderAt(numParts + 1) - 1)
      BY <2>3, <2>4, <2>7, <2>8, <2>10, <3>1, AnswerRest
    <3>3. numParts' \in 1..n /\ offset' = (numParts' - 1) * FragmentSize /\ numParts' # 1
      <4>1. numParts' \in 1..n /\ numParts' # 1 /\ numParts' - 1 = numParts
        BY <2>3, <2>7, <2>10, <3>1
      <4>2. (numParts - 1) * FragmentSize + FragmentSize = numParts * FragmentSize
        BY <2>3
      <4>3. QED
        BY <2>6, <3>1, <4>1, <4>2
    <3>4. ASSUME numParts' = 2
          PROVE  place' = FragmentSize /\ \A b \in 1..FragmentSize : payload'[b] = <<request', b>>
      <4>1. numParts = 1
        BY <2>3, <3>1, <3>4
      <4>2. place = 0 /\ offset = 0
        BY <2>2, <2>3, <2>6, <4>1 DEF Receiving
      <4>3. QED
        BY <1>1, <2>3, <2>6, <3>1, <4>1, <4>2 DEF NextPlace
    <3>5. Receiving(n)'
      BY <1>1, <3>1, <3>2, <3>3, <3>4 DEF Receiving
    <3>6. Fresh'
      BY <1>1, <2>1, <3>1, <3>5 DEF Fresh, InExchange
    <3>7. TwoFragmentsInOrder'
      BY <3>1 DEF TwoFragmentsInOrder, Whole, hisVars
    <3>8. QED
      BY <3>6, <3>7
  <2>11. QED
    BY <2>9, <2>10
<1>5. failures' = failures \/ failures' = failures + 1
  BY DEF RecvPayload, Fail, hisVars
<1>6. QED
  BY <1>2, <1>3, <1>4, <1>5

\* Every step keeps a connection without failures in step.
LEMMA FreshStep == ASSUME FreshIInv, [Next]_vars PROVE Fresh' /\ TwoFragmentsInOrder'
<1>1. LagIInv /\ Fresh /\ TwoFragmentsInOrder
  BY DEF FreshIInv
<1>2. CASE PlcAnswers
  <2>1. TwoFragmentsInOrder' /\ failures' = failures
    BY <1>1, <1>2 DEF PlcAnswers, TwoFragmentsInOrder, Whole, hisVars
  <2>2. Fresh'
    <3>1. CASE failures = 0
      BY <1>1, <1>2, <3>1, PlcFresh
    <3>2. CASE failures # 0
      BY <2>1, <3>2 DEF Fresh
    <3>3. QED
      BY <3>1, <3>2
  <2>3. QED
    BY <2>1, <2>2
<1>3. CASE Arrive
  <2>1. Wire' = Wire
    BY <1>1, <1>3, ArriveWire
  <2>2. UNCHANGED <<client, purging, request, recvVars, tosend, hisVars>>
    BY <1>3 DEF Arrive
  <2>3. QED
    BY <1>1, <2>1, <2>2, SameFresh
<1>4. CASE Send
  <2>1. TwoFragmentsInOrder' /\ failures' = failures
    BY <1>1, <1>4 DEF Send, TwoFragmentsInOrder, Whole, hisVars
  <2>2. ASSUME failures = 0 PROVE Waiting'
    <3>1. client = "idle" /\ tosend = <<>> /\ Wire = <<>>
      BY <1>1, <1>4, <2>2 DEF Fresh, Send, Waiting, InExchange
    <3>2. tosend' = <<request'>> /\ Wire' = Wire
      BY <1>4, <3>1 DEF Send, Wire
    <3>3. QED
      BY <1>4, <3>1, <3>2 DEF Send, Waiting
  <2>3. Fresh'
    BY <2>1, <2>2 DEF Fresh
  <2>4. QED
    BY <2>1, <2>3
<1>5. CASE RecvHeader
  BY <1>1, <1>5, HeaderFresh
<1>6. CASE RecvPayload
  BY <1>1, <1>6, PayloadFresh
<1>7. CASE Timeout
  BY <1>1, <1>7, FailFresh DEF Timeout, Fail
<1>8. CASE Disconnect \/ PurgeBegin \/ PurgeRecv \/ PlcCloses
  <2>1. CASE NewStream /\ client' = "idle"
    <3>1. tosend' = <<>> /\ Wire' = <<>> /\ answer'.request = 0
      BY <2>1 DEF NewStream, Wire, NoAnswer
    <3>2. QED
      BY <2>1, <3>1 DEF Fresh, TwoFragmentsInOrder
  <2>2. CASE UNCHANGED hisVars /\ failures # 0
    BY <2>2 DEF Fresh, TwoFragmentsInOrder, hisVars
  <2>3. Disconnect => UNCHANGED hisVars /\ failures # 0
    BY <1>1 DEF Disconnect, LagIInv, WireTypes
  <2>4. AtPurge => failures # 0
    BY <1>1, PurgeReturns DEF Fresh, Waiting, InExchange
  <2>5. ASSUME AtPurge, NEW rest, Purged(rest)
        PROVE  (NewStream /\ client' = "idle") \/ UNCHANGED hisVars
    BY <2>5, PurgeReturns DEF Purged
  <2>6. ASSUME PurgeBegin \/ PurgeRecv \/ PlcCloses
        PROVE  AtPurge /\ ((NewStream /\ client' = "idle") \/ UNCHANGED hisVars)
    <3>1. AtPurge
      BY <2>6 DEF PurgeBegin, PurgeRecv, PlcCloses, AtPurge, AfterPurge
    <3>2. QED
      BY <2>5, <2>6, <3>1 DEF PurgeBegin, PurgeRecv, PlcCloses
  <2>7. QED
    BY <1>8, <2>1, <2>2, <2>3, <2>4, <2>6
<1>9. CASE UNCHANGED vars
  <2>1. UNCHANGED <<client, purging, request, recvVars, tosend, hisVars>> /\ Wire' = Wire
    BY <1>9 DEF vars, netVars, Wire
  <2>2. QED
    BY <1>1, <2>1, SameFresh
<1>10. QED
  BY <1>2, <1>3, <1>4, <1>5, <1>6, <1>7, <1>8, <1>9 DEF Next, ClientStep

\* Both strengthenings together.
LEMMA FreshInvariant == Spec => []FreshIInv
<1>1. Init => FreshIInv
  <2> SUFFICES ASSUME Init PROVE FreshIInv
    OBVIOUS
  <2>1. LagIInv
    BY InitLag
  <2>2. Fresh
    BY DEF Init, Fresh, Wire
  <2>3. TwoFragmentsInOrder
    BY DEF Init, TwoFragmentsInOrder, NoAnswer
  <2>4. QED
    BY <2>1, <2>2, <2>3 DEF FreshIInv
<1>2. FreshIInv /\ [Next]_vars => FreshIInv'
  <2> SUFFICES ASSUME FreshIInv, [Next]_vars PROVE FreshIInv'
    OBVIOUS
  <2>1. LagIInv'
    BY LagStep DEF FreshIInv
  <2>2. Fresh' /\ TwoFragmentsInOrder'
    BY FreshStep
  <2>3. QED
    BY <2>1, <2>2 DEF FreshIInv
<1>3. QED
  BY <1>1, <1>2, PTL DEF Spec

\* On a connection without a failed exchange nothing is under way between two
\* exchanges, and an answer returned is the answer to the request just sent.
THEOREM InStepHolds == Spec => []InStep
<1>1. ASSUME FreshIInv PROVE InStep
  <2> SUFFICES ASSUME client = "idle", failures = 0
               PROVE  /\ tosend = <<>> /\ inFlight = <<>> /\ stream = <<>>
                      /\ answer.request \in {0, request}
    BY DEF InStep
  <2>1. tosend = <<>> /\ Wire = <<>>
    BY <1>1 DEF FreshIInv, Fresh, Waiting, InExchange
  <2>2. inFlight = <<>> /\ stream = <<>>
    <3>1. WireTypes /\ stream \in Seq(Item) /\ inFlight \in Seq(Item)
      BY <1>1 DEF FreshIInv, LagIInv, WireTypes
    <3>2. Len(stream) + Len(inFlight) = 0 /\ Len(stream) \in Nat /\ Len(inFlight) \in Nat
      BY <2>1, <3>1, WireParts
    <3>3. QED
      BY <3>1, <3>2, EmptySeq
  <2>3. answer.request \in {0, request}
    <3>1. answer.request \in 0..MaxRequests /\ request \in 0..MaxRequests
      BY <1>1 DEF FreshIInv, LagIInv, WireTypes, RecvTypes, RecvRange
    <3>2. answer.request <= request /\ (answer.request # 0 => request <= answer.request + 0)
      BY <1>1 DEF FreshIInv, LagIInv, Lags, InExchange
    <3>3. QED
      BY <3>1, <3>2, Sizes
  <2>4. QED
    BY <2>1, <2>2, <2>3
<1>2. QED
  BY <1>1, FreshInvariant, PTL

\* On such a connection an answer of one or two fragments, of whatever size, is
\* returned whole and in order.
THEOREM TwoFragmentsInOrderHolds == Spec => []TwoFragmentsInOrder
<1>1. ASSUME FreshIInv PROVE TwoFragmentsInOrder
  BY <1>1 DEF FreshIInv
<1>2. QED
  BY <1>1, FreshInvariant, PTL
=============================================================================
