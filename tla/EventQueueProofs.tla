-------------------------- MODULE EventQueueProofs -------------------------
(***************************************************************************)
(* What EventQueue guarantees for every capacity and any set of reporting  *)
(* threads.                                                                *)
(***************************************************************************)
EXTENDS EventQueue, TLAPS

\* The ring starts empty.
LEMMA InitRing == Init => RingInv
<1> SUFFICES ASSUME Init PROVE RingInv
  OBVIOUS
<1>1. 0 \in Blocks /\ Top \in Nat
  BY QueueAssumption DEF Blocks, Top
<1>2. TypeOK
  BY <1>1 DEF Init, TypeOK
<1>3. LockInv
  BY QueueAssumption DEF Init, LockInv, Full
<1>4. QueueInv
  BY <1>1 DEF Init, QueueInv, Block
<1>5. QED
  BY <1>2, <1>3, <1>4 DEF RingInv

\* A step that leaves the ring alone and moves one thread within the lock, other
\* than out of "copy" or into "index" or "copy", preserves the order of the blocks.
LEMMA QuietStep ==
  ASSUME QueueInv, UNCHANGED <<ringVars, inserted, picked>>, Writing' = Writing
  PROVE  QueueInv'
<1> USE DEF ringVars
<1>1. \A d : Block(d)' = Block(d)
  BY DEF Block
<1>2. QED
  BY <1>1 DEF QueueInv

\* The steps of DoEvent.
LEMMA DoEventInv ==
  ASSUME RingInv, NEW t \in Threads, DoEvent(t)
  PROVE  RingInv'
<1> USE DEF RingInv, ringVars
<1>0. t # "none" /\ Top \in Nat /\ Capacity = Top + 1
  BY QueueAssumption DEF Top
<1>1. CASE Enter(t)
  <2>1. TypeOK' /\ LockInv'
    BY <1>0, <1>1, QueueAssumption DEF Enter, TypeOK, LockInv, Full, Empty
  <2>2. Writing' = Writing
    BY <1>1 DEF Enter, TypeOK, Writing
  <2>3. QED
    BY <1>1, <2>1, <2>2, QuietStep DEF Enter
<1>2. CASE Callback(t)
  <2>1. TypeOK' /\ LockInv'
    BY <1>0, <1>2 DEF Callback, TypeOK, LockInv, Full, Empty
  <2>2. Writing' = Writing
    BY <1>2 DEF Callback, TypeOK, Writing
  <2>3. QED
    BY <1>2, <2>1, <2>2, QuietStep DEF Callback
<1>3. CASE InsertTest(t)
  <2>1. TypeOK' /\ LockInv'
    BY <1>0, <1>3 DEF InsertTest, Tested, TypeOK, LockInv, Full, Empty
  <2>2. Writing' = Writing
    BY <1>3 DEF InsertTest, Tested, TypeOK, Writing
  <2>3. QED
    BY <1>3, <2>1, <2>2, QuietStep DEF InsertTest
<1>4. CASE InsertIndex(t)
  <2>1. /\ ~Full /\ ~Writing /\ CSEvent = t
        /\ thread' = [thread EXCEPT ![t] = "copy"]
        /\ IndexIn' = Succ(IndexIn) /\ inserted' = inserted + 1
        /\ UNCHANGED <<IndexOut, Buffer, CSEvent, app, value, picked>>
    BY <1>0, <1>4 DEF InsertIndex, LockInv, Writing
  <2>2. IndexIn \in 0..Top /\ IndexOut \in 0..Top /\ inserted \in Nat /\ picked \in Nat
    BY DEF TypeOK, Blocks
  <2>3. TypeOK'
    BY <1>0, <2>1, <2>2 DEF TypeOK, Succ, Blocks
  <2>4. ~Empty'
    BY <1>0, <2>1, <2>2 DEF Full, Empty, Succ
  <2>5. LockInv'
    BY <1>0, <2>1, <2>4 DEF LockInv, TypeOK
  <2>6. inserted - picked < Top
    BY <1>0, <2>1, <2>2 DEF QueueInv, Full, Block
  <2>7. IndexIn' = Block(inserted - picked)'
    BY <1>0, <2>1, <2>2, <2>6 DEF QueueInv, Block, Succ
  <2>8. Writing'
    BY <2>1 DEF Writing, TypeOK
  <2>9. \A d : Block(d)' = Block(d)
    BY <2>1 DEF Block
  <2>10. \A d \in 1..(inserted' - picked') :
           Buffer'[Block(d)'] = picked' + d \/ (Writing' /\ d = inserted' - picked')
    <3> SUFFICES ASSUME NEW d \in 1..(inserted' - picked'), d # inserted' - picked'
                 PROVE  Buffer[Block(d)] = picked + d
      BY <2>1, <2>8, <2>9
    <3>1. d \in 1..(inserted - picked)
      BY <2>1, <2>2
    <3>2. QED
      BY <2>1, <3>1 DEF QueueInv
  <2>11. QED
    BY <1>0, <2>1, <2>2, <2>3, <2>5, <2>6, <2>7, <2>10 DEF QueueInv
<1>5. CASE InsertCopy(t)
  <2>1. /\ thread[t] = "copy" /\ CSEvent = t
        /\ thread' = [thread EXCEPT ![t] = "leave"]
        /\ Buffer' = [Buffer EXCEPT ![IndexIn] = inserted]
        /\ UNCHANGED <<IndexIn, IndexOut, CSEvent, app, value, inserted, picked>>
    BY <1>5 DEF InsertCopy, LockInv
  <2>2. IndexIn \in 0..Top /\ IndexOut \in 0..Top /\ inserted \in Nat /\ picked \in Nat
    BY DEF TypeOK, Blocks
  <2>3. TypeOK' /\ LockInv'
    BY <1>0, <2>1 DEF TypeOK, LockInv, Full, Empty
  <2>4. \A d : Block(d)' = Block(d)
    BY <2>1 DEF Block
  <2>5. ASSUME NEW d \in 1..(inserted - picked)
        PROVE  Buffer'[Block(d)] = picked + d
    <3>1. Block(d) \in Blocks
      BY <1>0, <2>2 DEF Block, QueueInv, Blocks
    <3>2. CASE d = inserted - picked
      <4>1. Block(d) = IndexIn
        BY <3>2 DEF QueueInv
      <4>2. Buffer'[IndexIn] = inserted
        BY <2>1, <2>2 DEF TypeOK, Blocks
      <4>3. QED
        BY <2>2, <3>2, <4>1, <4>2
    <3>3. CASE d # inserted - picked
      <4>1. Block(d) # IndexIn
        BY <1>0, <2>2, <3>3 DEF Block, QueueInv
      <4>2. Buffer[Block(d)] = picked + d
        BY <3>3 DEF QueueInv
      <4>3. QED
        BY <2>1, <3>1, <4>1, <4>2 DEF TypeOK
    <3>4. QED
      BY <3>2, <3>3
  <2>6. QueueInv'
    BY <2>1, <2>4, <2>5 DEF QueueInv
  <2>7. QED
    BY <2>3, <2>6
<1>6. CASE Leave(t)
  <2>1. TypeOK' /\ LockInv'
    BY <1>0, <1>6, QueueAssumption DEF Leave, TypeOK, LockInv, Full, Empty
  <2>2. Writing' = Writing
    BY <1>6 DEF Leave, TypeOK, Writing
  <2>3. QED
    BY <1>6, <2>1, <2>2, QuietStep DEF Leave
<1>7. QED
  BY <1>1, <1>2, <1>3, <1>4, <1>5, <1>6 DEF DoEvent

\* The steps of the application.
LEMMA AppInv ==
  ASSUME RingInv, PickEvent \/ EventsFlush
  PROVE  RingInv'
<1> USE DEF RingInv, ringVars
<1>0. Top \in Nat /\ Capacity = Top + 1
  BY QueueAssumption DEF Top
<1>1. IndexIn \in 0..Top /\ IndexOut \in 0..Top /\ inserted \in Nat /\ picked \in Nat
  BY DEF TypeOK, Blocks
<1>2. CASE PickTest
  <2>1. TypeOK' /\ LockInv'
    BY <1>2 DEF PickTest, TypeOK, LockInv, Full, Empty
  <2>2. QED
    BY <1>2, <2>1, QuietStep DEF PickTest, Writing
<1>3. CASE PickCopy
  <2>1. OutBlock \in Blocks
    BY <1>0, <1>1 DEF OutBlock, Succ, Blocks
  <2>2. TypeOK' /\ LockInv'
    BY <1>3, <2>1 DEF PickCopy, TypeOK, LockInv, Full, Empty
  <2>3. QED
    BY <1>3, <2>2, QuietStep DEF PickCopy, Writing
<1>4. CASE PickAdvance
  <2>1. /\ app' = "idle" /\ ~Empty
        /\ IndexOut' = Succ(IndexOut) /\ picked' = picked + 1
        /\ UNCHANGED <<IndexIn, Buffer, CSEvent, thread, value, inserted>>
    BY <1>4 DEF PickAdvance, LockInv
  <2>2. TypeOK'
    BY <1>0, <1>1, <2>1 DEF TypeOK, Succ, Blocks
  <2>3. ~Full'
    BY <1>0, <1>1, <2>1 DEF Full, Empty, Succ
  <2>4. LockInv'
    BY <2>1, <2>3 DEF LockInv
  <2>5. inserted - picked >= 1
    BY <1>0, <1>1, <2>1 DEF QueueInv, Empty, Block
  <2>6. \A d \in 0..(Top - 1) : Block(d)' = Block(d + 1)
    BY <1>0, <1>1, <2>1 DEF Block, Succ
  <2>7. IndexIn' = Block(inserted - picked)'
    BY <1>0, <1>1, <2>1, <2>5, <2>6 DEF QueueInv, Block, Succ
  <2>8. ASSUME NEW d \in 1..(inserted' - picked')
        PROVE  Buffer'[Block(d)'] = picked' + d \/ (Writing' /\ d = inserted' - picked')
    <3>1. d + 1 \in 1..(inserted - picked) /\ d \in 0..(Top - 1)
      BY <1>0, <1>1, <2>1, <2>5 DEF QueueInv
    <3>2. Block(d)' = Block(d + 1)
      BY <2>6, <3>1
    <3>3. Buffer[Block(d + 1)] = picked + (d + 1) \/ (Writing /\ d + 1 = inserted - picked)
      BY <3>1 DEF QueueInv
    <3>4. Writing' = Writing
      BY <2>1 DEF Writing
    <3>5. QED
      BY <1>1, <2>1, <3>1, <3>2, <3>3, <3>4
  <2>9. picked' <= inserted' /\ inserted' - picked' <= Top
    BY <1>0, <1>1, <2>1, <2>5 DEF QueueInv
  <2>10. QueueInv'
    BY <2>7, <2>8, <2>9 DEF QueueInv
  <2>11. QED
    BY <2>2, <2>4, <2>10
<1>5. CASE EventsFlush
  <2>1. /\ app = "idle" /\ CSEvent = "none" /\ app' = app
        /\ IndexIn' = 0 /\ IndexOut' = 0 /\ picked' = inserted
        /\ UNCHANGED <<Buffer, CSEvent, thread, app, value, inserted>>
    BY <1>5 DEF EventsFlush, Flush
  <2>2. TypeOK'
    BY <1>0, <2>1 DEF TypeOK, Blocks
  <2>3. LockInv'
    BY <2>1, QueueAssumption DEF LockInv
  <2>4. QueueInv'
    BY <1>0, <1>1, <2>1 DEF QueueInv, Block
  <2>5. QED
    BY <2>2, <2>3, <2>4
<1>6. QED
  BY <1>2, <1>3, <1>4, <1>5 DEF PickEvent

\* RingInv is inductive.
LEMMA StepRing ==
  ASSUME RingInv, [Next]_vars
  PROVE  RingInv'
<1>1. CASE UNCHANGED vars
  <2>1. \A d : Block(d)' = Block(d)
    BY <1>1 DEF vars, ringVars, Block
  <2>2. QED
    BY <1>1, <2>1 DEF vars, ringVars, RingInv, TypeOK, LockInv, QueueInv, Full, Empty,
                     Writing
<1>2. QED
  BY <1>1, DoEventInv, AppInv DEF Next

\* The lock admits one thread, and no undelivered event is ever overwritten,
\* whatever the capacity and however many threads report.
THEOREM RingInvariant == Spec => []RingInv
  BY InitRing, StepRing, PTL DEF Spec

\* PickEvent delivers the events in order, each whole unless it is still being
\* copied in.
THEOREM PickedInOrderHolds == Spec => PickedInOrder
<1>1. ASSUME RingInv, [Next]_vars
      PROVE  [app = "copy" /\ app' = "advance"
                => value' = picked + 1 \/ (Writing /\ picked + 1 = inserted)]_vars
  <2> SUFFICES ASSUME app = "copy", app' = "advance"
               PROVE  value' = picked + 1 \/ (Writing /\ picked + 1 = inserted)
    OBVIOUS
  <2>0. Top \in Nat /\ Capacity = Top + 1
    BY QueueAssumption DEF Top
  <2>1. IndexIn \in 0..Top /\ IndexOut \in 0..Top /\ inserted \in Nat /\ picked \in Nat
    BY <1>1 DEF RingInv, TypeOK, Blocks
  <2>2. PickCopy
    BY <1>1 DEF Next, DoEvent, Enter, Callback, InsertTest, InsertIndex,
                InsertCopy, Leave, PickEvent, PickTest, PickAdvance, EventsFlush, vars
  <2>3. inserted - picked >= 1
    BY <1>1, <2>0, <2>1 DEF RingInv, LockInv, QueueInv, Empty, Block
  <2>4. OutBlock = Block(1)
    BY <2>0, <2>1 DEF OutBlock, Succ, Block
  <2>5. Buffer[OutBlock] = picked + 1 \/ (Writing /\ picked + 1 = inserted)
    BY <1>1, <2>1, <2>3, <2>4 DEF RingInv, QueueInv
  <2>6. OutBlock = IndexIn => picked + 1 = inserted
    BY <1>1, <2>0, <2>1, <2>3, <2>4 DEF RingInv, QueueInv, Block
  <2>7. QED
    BY <2>2, <2>5, <2>6 DEF PickCopy
<1>2. QED
  BY <1>1, RingInvariant, PTL DEF Spec, PickedInOrder
=============================================================================
