----------------------------- MODULE AreaMemory -----------------------------
(***************************************************************************)
(* What LockArea and UnlockArea promise to the application and to the      *)
(* clients of the server: an update of several bytes and the data of an    *)
(* item reach an area as a whole, one after the other.                     *)
(***************************************************************************)
EXTENDS Integers

CONSTANTS
  Guarded,     \* areas
  Size,        \* their bytes
  Shared,      \* bytes of an area the application updates together
  Writers,     \* who else writes
  Numbers      \* numbers of updates and requests

VARIABLE memory \* memory[a][i]: who wrote byte i of area a, and in which update or request

Init == memory = [a \in Guarded |-> [i \in 0..Size[a] - 1 |-> [by |-> "init", n |-> 0]]]

Stamped(a, places, stamp) ==
  memory' = [memory EXCEPT ![a] = [i \in DOMAIN @ |-> IF i \in places THEN stamp ELSE @[i]]]

\* The application's bytes change together.
Update(a) == \E n \in Numbers : Stamped(a, Shared, [by |-> "app", n |-> n])

\* The data of an item: one stretch of bytes from one request.
Store(a) ==
  \E from, to \in DOMAIN memory[a], who \in Writers, n \in Numbers :
    Stamped(a, from..to, [by |-> who, n |-> n])

Next == \E a \in Guarded : memory'[a] # memory[a] /\ (Update(a) \/ Store(a))

Spec == Init /\ [][Next]_memory
=============================================================================
