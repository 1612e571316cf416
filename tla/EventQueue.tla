---------------------------- MODULE EventQueue -----------------------------
(***************************************************************************)
(* The event queue of the TCP server: TMsgEventQueue, a ring of blocks     *)
(* with one block always unused, as TCustomMsgServer uses it               *)
(* (sys/snap_tcpsrvr.cpp).                                                 *)
(*                                                                         *)
(* Any server thread reports an event with DoEvent, which calls the user   *)
(* callback and inserts the event while it holds CSEvent.  One application *)
(* thread picks events; PickEvent takes no lock and runs beside Insert.    *)
(* Events are numbered in the order in which IndexIn is advanced for them; *)
(* 0 is a block never written, or one read while it was being written.     *)
(***************************************************************************)
EXTENDS Naturals

CONSTANTS
  Threads,         \* the threads that report events
  Capacity,        \* FCapacity, 1500 (MaxEvents) in the server
  AppCalls,        \* what the application thread calls: "pick", "flush"
  MaxReported      \* bound: events inserted in a behaviour

ASSUME QueueAssumption ==
  /\ Capacity \in Nat \ {0}
  /\ AppCalls \subseteq {"pick", "flush"}
  /\ MaxReported \in Nat
  /\ "none" \notin Threads /\ "app" \notin Threads

VARIABLES
  IndexIn, IndexOut, Buffer,  \* the ring
  CSEvent,                    \* who holds the lock, or "none"
  thread,                     \* where each reporting thread is
  app, value,                 \* where the application is, what PickEvent copied out
  inserted,                   \* history: number of the last event inserted
  picked                      \* history: number of the last event picked or flushed

ringVars == <<IndexIn, IndexOut, Buffer>>
vars == <<ringVars, CSEvent, thread, app, value, inserted, picked>>

Top == Capacity - 1   \* Max, the last block
Blocks == 0..Top

Init ==
  /\ IndexIn = 0 /\ IndexOut = 0
  /\ Buffer = [b \in Blocks |-> 0]
  /\ CSEvent = "none"
  /\ thread = [t \in Threads |-> "idle"]
  /\ app = "idle" /\ value = 0
  /\ inserted = 0 /\ picked = 0

\* if (Index < Max) Index++; else Index = 0;
Succ(i) == IF i < Top THEN i + 1 ELSE 0

Empty == IndexIn = IndexOut

\* Seeded fault: the wrapped case is forgotten.
FullUnwrapped == IndexOut = IndexIn + 1
Full == IndexOut = IndexIn + 1 \/ (IndexIn = Top /\ IndexOut = 0)

\* Flush: every event not yet picked is dropped.
Flush ==
  /\ IndexIn' = 0 /\ IndexOut' = 0
  /\ picked' = inserted

-----------------------------------------------------------------------------
(* DoEvent.                                                                *)

\* CSEvent->Enter
Enter(t) ==
  /\ thread[t] = "idle"
  /\ inserted < MaxReported
  /\ CSEvent = "none"
  /\ CSEvent' = t
  /\ thread' = [thread EXCEPT ![t] = "callback"]
  /\ UNCHANGED <<ringVars, app, value, inserted, picked>>

\* OnEvent, user code that DoEvent only shields from exceptions.  It does not
\* call back into the queue.
Callback(t) ==
  /\ thread[t] = "callback"
  /\ thread' = [thread EXCEPT ![t] = "insert"]
  /\ UNCHANGED <<ringVars, CSEvent, app, value, inserted, picked>>

\* Seeded fault: an event that finds no room waits for it.
TestedWaits == IF Full THEN "insert" ELSE "index"
\* An event that finds no room is dropped.
Tested == IF Full THEN "leave" ELSE "index"

\* Insert tests Full.
InsertTest(t) ==
  /\ thread[t] = "insert"
  /\ thread' = [thread EXCEPT ![t] = Tested]
  /\ UNCHANGED <<ringVars, CSEvent, app, value, inserted, picked>>

\* Insert advances IndexIn ...
InsertIndex(t) ==
  /\ thread[t] = "index"
  /\ IndexIn' = Succ(IndexIn)
  /\ inserted' = inserted + 1
  /\ thread' = [thread EXCEPT ![t] = "copy"]
  /\ UNCHANGED <<IndexOut, Buffer, CSEvent, app, value, picked>>

\* ... and then copies the event into that block.
InsertCopy(t) ==
  /\ thread[t] = "copy"
  /\ Buffer' = [Buffer EXCEPT ![IndexIn] = inserted]
  /\ thread' = [thread EXCEPT ![t] = "leave"]
  /\ UNCHANGED <<IndexIn, IndexOut, CSEvent, app, value, inserted, picked>>

Leave(t) ==
  /\ thread[t] = "leave"
  /\ CSEvent' = "none"
  /\ thread' = [thread EXCEPT ![t] = "idle"]
  /\ UNCHANGED <<ringVars, app, value, inserted, picked>>

-----------------------------------------------------------------------------
(* The application: PickEvent and EventsFlush.                             *)

\* A thread is between the two steps of Insert.
Writing == \E t \in Threads : thread[t] = "copy"

\* Extract tests Empty.
PickTest ==
  /\ "pick" \in AppCalls
  /\ app = "idle"
  /\ ~Empty
  /\ app' = "copy"
  /\ UNCHANGED <<ringVars, CSEvent, thread, value, inserted, picked>>

\* Seeded fault: Extract copies the block it has already delivered.
OutBlockStale == IndexOut
\* The block after IndexOut.
OutBlock == Succ(IndexOut)

\* memcpy out of the block; beside a memcpy into it the result is a mixture.
PickCopy ==
  /\ app = "copy"
  /\ app' = "advance"
  /\ \/ value' = Buffer[OutBlock]
     \/ Writing /\ OutBlock = IndexIn /\ value' = 0
  /\ UNCHANGED <<ringVars, CSEvent, thread, inserted, picked>>

\* IndexOut = IdxOut
PickAdvance ==
  /\ app = "advance"
  /\ app' = "idle"
  /\ IndexOut' = Succ(IndexOut)
  /\ picked' = picked + 1
  /\ UNCHANGED <<IndexIn, Buffer, CSEvent, thread, value, inserted>>

\* EventsFlush: the lock, Flush, the unlock.  Only threads that would need the
\* lock, and this one, read the indices, so this is one step.
EventsFlush ==
  /\ "flush" \in AppCalls
  /\ app = "idle"
  /\ CSEvent = "none"
  /\ Flush
  /\ UNCHANGED <<Buffer, CSEvent, thread, app, value, inserted>>

-----------------------------------------------------------------------------
DoEvent(t) ==
  \/ Enter(t) \/ Callback(t) \/ InsertTest(t)
  \/ InsertIndex(t) \/ InsertCopy(t) \/ Leave(t)

PickEvent == PickTest \/ PickCopy \/ PickAdvance

Next == (\E t \in Threads : DoEvent(t)) \/ PickEvent \/ EventsFlush

\* A thread inside DoEvent runs on; nobody is obliged to report or to pick.
Fairness ==
  \A t \in Threads : WF_vars(DoEvent(t) /\ thread[t] # "idle")

Spec == Init /\ [][Next]_vars
FairSpec == Spec /\ Fairness

-----------------------------------------------------------------------------
(* Properties.                                                             *)

TypeOK ==
  /\ IndexIn \in Blocks
  /\ IndexOut \in Blocks
  /\ Buffer \in [Blocks -> Nat]
  /\ CSEvent \in Threads \cup {"none"}
  /\ thread \in [Threads -> {"idle", "callback", "insert", "index", "copy",
                             "leave"}]
  /\ app \in {"idle", "copy", "advance"}
  /\ value \in Nat
  /\ inserted \in Nat
  /\ picked \in Nat

\* The block d places after the one delivered last.
Block(d) == IF IndexOut + d <= Top THEN IndexOut + d ELSE IndexOut + d - Capacity

\* Insert never overwrites an event that PickEvent has not delivered, whatever
\* the two threads do between reading and advancing their indices: the blocks
\* after IndexOut, up to IndexIn, hold the undelivered events in order.
QueueInv ==
  /\ picked <= inserted
  /\ inserted - picked <= Top
  /\ IndexIn = Block(inserted - picked)
  /\ \A d \in 1..(inserted - picked) :
       Buffer[Block(d)] = picked + d \/ (Writing /\ d = inserted - picked)

\* The lock admits one thread, the one inside, and an Insert that has found
\* room still has it when it advances IndexIn.
LockInv ==
  /\ \A t \in Threads : thread[t] # "idle" <=> CSEvent = t
  /\ \A t \in Threads : thread[t] = "index" => ~Full
  /\ app # "idle" => ~Empty

RingInv == TypeOK /\ LockInv /\ QueueInv

\* An event copied out by PickEvent is the oldest one not yet delivered, unless
\* it is still being copied in.
PickedInOrder ==
  [][app = "copy" /\ app' = "advance"
       => value' = picked + 1 \/ (Writing /\ picked + 1 = inserted)]_vars

\* PickEvent delivers "an event from the circular queue", always the oldest.
PickedIsEvent == [][app = "copy" /\ app' = "advance" => value' = picked + 1]_vars

\* A thread that reports an event gets out of DoEvent again.
DoEventReturns == \A t \in Threads : thread[t] # "idle" ~> thread[t] = "idle"
=============================================================================
