----------------------------- MODULE CircleList -----------------------------
(***************************************************************************)
(* KCircleList<T, nSize>: the ring through which the main loop and the     *)
(* scene loading thread hand scene IDs to each other without a lock.  One  *)
(* thread calls Push, the other Pop and Pick.  The server is built without *)
(* optimisation for x86, so each access to memory is a step of its own and *)
(* the steps of one thread are seen in program order.                      *)
(***************************************************************************)
EXTENDS Integers, Sequences

CONSTANTS Items, Size, None

\* The constructor's assertion, and a value no item has.
ASSUME SizeAssumption == Size \in Nat /\ Size > 2
ASSUME NoneAssumption == None \notin Items

VARIABLES
    list,       \* m_ObjList
    head,       \* m_nHead: the slot the next Push fills
    tail,       \* m_nTail: the slot the next Pop empties
    writer,     \* where Push is, and its argument
    reader,     \* where Pop or Pick is, and the item it has copied
    pushed,     \* the result of the last Push
    popped      \* the result of the last Pop or Pick

vars == <<list, head, tail, writer, reader, pushed, popped>>

Slots == 0 .. Size - 1

TypeOK ==
    /\ list \in [Slots -> Items \cup {None}]
    /\ head \in Slots
    /\ tail \in Slots
    /\ writer \in [at : {"out", "write", "advance"}, obj : Items \cup {None}]
    /\ reader \in [at : {"out", "pop", "pick", "advance"}, obj : Items \cup {None}]
    /\ pushed \in BOOLEAN
    /\ popped \in Items \cup {None}

Init ==
    /\ list = [s \in Slots |-> None]
    /\ head = 0
    /\ tail = 0
    /\ writer = [at |-> "out", obj |-> None]
    /\ reader = [at |-> "out", obj |-> None]
    /\ pushed = TRUE
    /\ popped = None

\* Mutant: the last slot is never wrapped around to the first.
NextPosOverruns(s) == IF s > Size - 1 THEN 0 ELSE s + 1

NextPos(s) == (s + 1) % Size

-----------------------------------------------------------------------------

\* Mutant: only an empty list is told from a full one.
PushIntoLastSlot(x) ==
    /\ writer.at = "out"
    /\ writer' = [at |-> "write", obj |-> x]
    /\ UNCHANGED <<list, head, tail, reader, pushed, popped>>

\* Push reads both positions and decides.
PushCheck(x) ==
    /\ writer.at = "out"
    /\ IF NextPos(head) = tail
       THEN pushed' = FALSE /\ UNCHANGED writer
       ELSE writer' = [at |-> "write", obj |-> x] /\ UNCHANGED pushed
    /\ UNCHANGED <<list, head, tail, reader, popped>>

PushWrite ==
    /\ writer.at = "write"
    /\ list' = [list EXCEPT ![head] = writer.obj]
    /\ writer' = [writer EXCEPT !.at = "advance"]
    /\ UNCHANGED <<head, tail, reader, pushed, popped>>

PushAdvance ==
    /\ writer.at = "advance"
    /\ head' = NextPos(head)
    /\ writer' = [at |-> "out", obj |-> None]
    /\ pushed' = TRUE
    /\ UNCHANGED <<list, tail, reader, popped>>

\* Pop and Pick read both positions and decide.
PopCheck(call) ==
    /\ reader.at = "out"
    /\ IF tail = head
       THEN popped' = None /\ UNCHANGED reader
       ELSE reader' = [reader EXCEPT !.at = call] /\ UNCHANGED popped
    /\ UNCHANGED <<list, head, tail, writer, pushed>>

\* Pick leaves the item where it is.
PickRead ==
    /\ reader.at = "pick"
    /\ popped' = list[tail]
    /\ reader' = [at |-> "out", obj |-> None]
    /\ UNCHANGED <<list, head, tail, writer, pushed>>

PopRead ==
    /\ reader.at = "pop"
    /\ reader' = [at |-> "advance", obj |-> list[tail]]
    /\ UNCHANGED <<list, head, tail, writer, pushed, popped>>

\* Mutant: the slot is given back before it is copied.
PopCopiesLate ==
    /\ reader.at = "advance"
    /\ tail' = NextPos(tail)
    /\ popped' = list[NextPos(tail)]
    /\ reader' = [at |-> "out", obj |-> None]
    /\ UNCHANGED <<list, head, writer, pushed>>

PopAdvance ==
    /\ reader.at = "advance"
    /\ tail' = NextPos(tail)
    /\ popped' = reader.obj
    /\ reader' = [at |-> "out", obj |-> None]
    /\ UNCHANGED <<list, head, writer, pushed>>

Next ==
    \/ \E x \in Items : PushCheck(x)
    \/ PushWrite \/ PushAdvance
    \/ \E call \in {"pop", "pick"} : PopCheck(call)
    \/ PickRead \/ PopRead \/ PopAdvance

Spec == Init /\ [][Next]_vars

-----------------------------------------------------------------------------

\* How many items lie between tail and head, and which.
Count == IF head >= tail THEN head - tail ELSE head - tail + Size

SlotOf(k) == IF tail + k <= Size - 1 THEN tail + k ELSE tail + k - Size

Contents == [k \in 1 .. Count |-> list[SlotOf(k - 1)]]

Queue == INSTANCE BoundedQueue WITH queue <- Contents, Capacity <- Size - 1

\* "Safe for one thread that only reads and one that only writes" (the header's
\* comment): whatever the two threads' interleaving, the list behaves as a
\* first-in first-out queue of Size - 1 items, no item lost, doubled, overtaken or
\* seen half written, and refuses an item only when it really is full.
FifoQueue == Queue!Spec

\* "The slot m_nHead points at is always empty" (the header's comment): the slot
\* that Push fills is never the one Pop or Pick is about to copy or give back.
SlotNotShared ==
    (writer.at \in {"write", "advance"} /\ reader.at # "out") => head # tail

=============================================================================
