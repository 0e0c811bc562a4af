---------------------------- MODULE BoundedQueue ----------------------------
(***************************************************************************)
(* What a KCircleList promises the two threads that share it: a first-in   *)
(* first-out queue of at most Capacity items whose Push, Pop and Pick each *)
(* happen at one moment between call and return.                           *)
(***************************************************************************)
EXTENDS Sequences, Integers

CONSTANTS Items, Capacity, None

VARIABLES
    queue,      \* what was pushed and not yet popped, oldest first
    pushed,     \* what the last Push returned
    popped      \* what the last Pop or Pick delivered, None if it returned false

vars == <<queue, pushed, popped>>

Init == queue = <<>> /\ pushed = TRUE /\ popped = None

Push(x) ==
    /\ Len(queue) < Capacity
    /\ queue' = Append(queue, x)
    /\ pushed' = TRUE
    /\ UNCHANGED popped

PushRefused ==
    /\ Len(queue) = Capacity
    /\ pushed' = FALSE
    /\ UNCHANGED <<queue, popped>>

Pop ==
    /\ Len(queue) > 0
    /\ popped' = Head(queue)
    /\ queue' = Tail(queue)
    /\ UNCHANGED pushed

Pick ==
    /\ Len(queue) > 0
    /\ popped' = Head(queue)
    /\ UNCHANGED <<queue, pushed>>

Empty ==
    /\ Len(queue) = 0
    /\ popped' = None
    /\ UNCHANGED <<queue, pushed>>

Next == (\E x \in Items : Push(x)) \/ PushRefused \/ Pop \/ Pick \/ Empty

Spec == Init /\ [][Next]_vars

=============================================================================
