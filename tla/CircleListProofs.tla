-------------------------- MODULE CircleListProofs --------------------------
(* CircleList implements BoundedQueue, whatever its size and its items.    *)
EXTENDS CircleList, SequenceTheorems, TLAPS

USE SizeAssumption, NoneAssumption

\* The next position of a slot is a slot, without a remainder in it.
LEMMA NextPosFacts ==
    ASSUME NEW s \in Slots
    PROVE  NextPos(s) = (IF s = Size - 1 THEN 0 ELSE s + 1) /\ NextPos(s) \in Slots
  <1>1. CASE s = Size - 1
    <2>1. Size % Size = 0
      OBVIOUS
    <2> QED
      BY <1>1, <2>1 DEF NextPos, Slots
  <1>2. CASE s # Size - 1
    <2>1. s + 1 \in 0 .. Size - 1
      BY <1>2 DEF Slots
    <2>2. (s + 1) % Size = s + 1
      BY <2>1
    <2> QED
      BY <1>2, <2>1, <2>2 DEF NextPos, Slots
  <1> QED
    BY <1>1, <1>2

-----------------------------------------------------------------------------
(* The state of a call that has passed its check: the writer has a slot of *)
(* its own, the reader an item that is not yet given back.                 *)

Calls ==
    /\ writer.at # "out" => writer.obj \in Items /\ NextPos(head) # tail
    /\ writer.at = "advance" => list[head] = writer.obj
    /\ reader.at # "out" => head # tail
    /\ reader.at = "advance" => reader.obj = list[tail]

IInv == TypeOK /\ Calls

Values == Items \cup {None}

\* The number of items between two positions.
LEMMA CountFacts ==
    ASSUME head \in Slots, tail \in Slots
    PROVE  /\ Count \in 0 .. Size - 1
           /\ Count = 0 <=> head = tail
           /\ Count = Size - 1 <=> NextPos(head) = tail
  <1>1. NextPos(head) = IF head = Size - 1 THEN 0 ELSE head + 1
    BY NextPosFacts
  <1> QED
    BY <1>1 DEF Count, Slots

\* The slots between tail and head are distinct from head's.
LEMMA SlotFacts ==
    ASSUME head \in Slots, tail \in Slots, NEW k \in 0 .. Count - 1
    PROVE  SlotOf(k) \in Slots /\ SlotOf(k) # head
  BY DEF Count, SlotOf, Slots

LEMMA SameUpTo ==
    ASSUME NEW m \in Nat, NEW n \in Nat, 1 .. m = 1 .. n PROVE m = n
  <1>1. m < n => n \in 1 .. n /\ n \notin 1 .. m
    OBVIOUS
  <1>2. n < m => m \in 1 .. m /\ m \notin 1 .. n
    OBVIOUS
  <1> QED
    BY <1>1, <1>2

LEMMA ContentsSeq ==
    ASSUME TypeOK
    PROVE  Contents \in Seq(Values) /\ Len(Contents) = Count
  <1>1. Count \in Nat
    BY CountFacts DEF TypeOK
  <1>2. ASSUME NEW k \in 1 .. Count PROVE list[SlotOf(k - 1)] \in Values
    <2>1. k - 1 \in 0 .. Count - 1
      BY <1>1
    <2>2. SlotOf(k - 1) \in Slots
      BY <2>1, SlotFacts DEF TypeOK
    <2> QED
      BY <2>2 DEF TypeOK, Values
  <1>3. Contents \in [1 .. Count -> Values]
    BY <1>2 DEF Contents
  <1>4. Contents \in Seq(Values)
    BY <1>1, <1>3, SeqDef
  <1>5. DOMAIN Contents = 1 .. Len(Contents) /\ Len(Contents) \in Nat
    BY <1>4, LenProperties
  <1>6. 1 .. Len(Contents) = 1 .. Count
    BY <1>3, <1>5
  <1>7. Len(Contents) = Count
    BY <1>1, <1>5, <1>6, SameUpTo
  <1> QED
    BY <1>4, <1>7

\* A pushed item follows the others.
LEMMA PushContents ==
    ASSUME IInv, TypeOK', PushAdvance
    PROVE  Contents' = Append(Contents, writer.obj) /\ Count' = Count + 1
  <1>1. /\ head \in Slots /\ tail \in Slots /\ NextPos(head) # tail
        /\ writer.obj \in Values /\ list[head] = writer.obj
        /\ UNCHANGED <<list, tail>>
    BY DEF IInv, TypeOK, Calls, PushAdvance, Values
  <1>2. head' = (IF head = Size - 1 THEN 0 ELSE head + 1) /\ head' \in Slots
    BY <1>1, NextPosFacts DEF PushAdvance
  <1>3. NextPos(head) = head'
    BY DEF PushAdvance
  <1>4. Count' = Count + 1 /\ Count \in 0 .. Size - 2
    BY <1>1, <1>2, <1>3 DEF Count, Slots
  <1>5. \A k \in 0 .. Count : SlotOf(k)' = SlotOf(k)
    BY <1>1 DEF SlotOf
  <1>6. SlotOf(Count) = head
    BY <1>1 DEF SlotOf, Count, Slots
  <1>7. Contents \in Seq(Values) /\ Len(Contents) = Count
    BY ContentsSeq DEF IInv
  <1>8. Contents' \in Seq(Values) /\ Len(Contents') = Count'
    <2>1. ASSUME TypeOK' PROVE (Contents \in Seq(Values) /\ Len(Contents) = Count)'
      BY ContentsSeq, <2>1, PTL
    <2> QED
      BY <2>1 DEF Values
  <1>9. /\ Append(Contents, writer.obj) \in Seq(Values)
        /\ Len(Append(Contents, writer.obj)) = Count + 1
        /\ \A k \in 1 .. Count + 1 :
              Append(Contents, writer.obj)[k] = IF k <= Count THEN Contents[k] ELSE writer.obj
    BY <1>1, <1>7, AppendProperties
  <1>10. ASSUME NEW k \in 1 .. Count + 1
         PROVE  Contents'[k] = Append(Contents, writer.obj)[k]
    <2>1. k - 1 \in 0 .. Count
      BY <1>4
    <2>2. Contents'[k] = list[SlotOf(k - 1)]
      BY <1>1, <1>4, <1>5, <2>1 DEF Contents
    <2>3. CASE k <= Count
      BY <1>4, <1>9, <2>2, <2>3 DEF Contents
    <2>4. CASE k = Count + 1
      BY <1>1, <1>4, <1>6, <1>9, <2>2, <2>4
    <2>5. k <= Count \/ k = Count + 1
      BY <1>4
    <2> QED
      BY <2>3, <2>4, <2>5
  <1>11. Contents' = Append(Contents, writer.obj)
    BY <1>4, <1>8, <1>9, <1>10, SeqEqual
  <1> QED
    BY <1>4, <1>11

\* Popping removes the oldest item.
LEMMA PopContents ==
    ASSUME IInv, TypeOK', PopAdvance
    PROVE  /\ Contents # <<>> /\ Contents' = Tail(Contents)
           /\ reader.obj = Head(Contents) /\ Count' = Count - 1
           /\ \A k \in 0 .. Count - 2 : SlotOf(k)' = SlotOf(k + 1)
  <1>1. /\ head \in Slots /\ tail \in Slots /\ head # tail
        /\ reader.obj = list[tail] /\ UNCHANGED <<list, head>>
    BY DEF IInv, TypeOK, Calls, PopAdvance
  <1>2. tail' = (IF tail = Size - 1 THEN 0 ELSE tail + 1) /\ tail' \in Slots
    BY <1>1, NextPosFacts DEF PopAdvance
  <1>3. Count' = Count - 1 /\ Count \in 1 .. Size - 1
    BY <1>1, <1>2 DEF Count, Slots
  <1>4. \A k \in 0 .. Count - 2 : SlotOf(k)' = SlotOf(k + 1)
    BY <1>1, <1>2, <1>3 DEF SlotOf, Slots
  <1>5. SlotOf(0) = tail
    BY <1>1 DEF SlotOf, Slots
  <1>6. Contents \in Seq(Values) /\ Len(Contents) = Count
    BY ContentsSeq DEF IInv
  <1>7. Contents' \in Seq(Values) /\ Len(Contents') = Count'
    <2>1. ASSUME TypeOK' PROVE (Contents \in Seq(Values) /\ Len(Contents) = Count)'
      BY ContentsSeq, <2>1, PTL
    <2> QED
      BY <2>1 DEF Values
  <1>8. Contents # <<>>
    BY <1>3, <1>6
  <1>9. Head(Contents) = reader.obj
    <2>1. Head(Contents) = Contents[1]
      BY <1>6, <1>8
    <2>2. Contents[1] = list[SlotOf(0)]
      BY <1>3 DEF Contents
    <2> QED
      BY <1>1, <1>5, <2>1, <2>2
  <1>10. /\ Tail(Contents) \in Seq(Values) /\ Len(Tail(Contents)) = Count - 1
         /\ \A k \in 1 .. Count - 1 : Tail(Contents)[k] = Contents[k + 1]
    BY <1>6, <1>8, HeadTailProperties
  <1>11. ASSUME NEW k \in 1 .. Count - 1 PROVE Contents'[k] = Tail(Contents)[k]
    <2>1. k - 1 \in 0 .. Count - 2 /\ k + 1 \in 1 .. Count /\ k + 1 - 1 = k - 1 + 1
      BY <1>3
    <2>2. Contents'[k] = list[SlotOf(k - 1)']
      BY <1>1, <1>3 DEF Contents
    <2>3. SlotOf(k - 1)' = SlotOf(k - 1 + 1)
      BY <1>4, <2>1
    <2>4. Contents[k + 1] = list[SlotOf(k + 1 - 1)]
      BY <2>1 DEF Contents
    <2> QED
      BY <1>10, <2>1, <2>2, <2>3, <2>4
  <1>12. Contents' = Tail(Contents)
    BY <1>3, <1>7, <1>10, <1>11, SeqEqual
  <1> QED
    BY <1>3, <1>4, <1>8, <1>9, <1>12

\* Filling the free slot changes no item.
LEMMA WriteContents ==
    ASSUME IInv, PushWrite
    PROVE  Contents' = Contents
  <1>1. /\ head \in Slots /\ tail \in Slots /\ Count \in Nat
        /\ list' = [list EXCEPT ![head] = writer.obj] /\ list \in [Slots -> Values]
        /\ UNCHANGED <<head, tail>>
    BY CountFacts DEF IInv, TypeOK, PushWrite, Values
  <1>2. ASSUME NEW k \in 1 .. Count PROVE list'[SlotOf(k - 1)] = list[SlotOf(k - 1)]
    <2>1. k - 1 \in 0 .. Count - 1
      BY <1>1
    <2>2. SlotOf(k - 1) \in Slots /\ SlotOf(k - 1) # head
      BY <1>1, <2>1, SlotFacts
    <2> QED
      BY <1>1, <2>2
  <1>3. Count' = Count /\ \A k \in 1 .. Count : SlotOf(k - 1)' = SlotOf(k - 1)
    BY <1>1 DEF Count, SlotOf
  <1>4. Contents' = Contents
    BY <1>1, <1>2, <1>3 DEF Contents
  <1> QED
    BY <1>4

LEMMA SameContents == ASSUME UNCHANGED <<list, head, tail>> PROVE UNCHANGED <<Contents, Count>>
  BY DEF Contents, Count, SlotOf

-----------------------------------------------------------------------------

LEMMA InvInit == Init => IInv
  BY DEF Init, IInv, TypeOK, Calls, Slots

LEMMA InvStep == IInv /\ [Next]_vars => IInv'
  <1> SUFFICES ASSUME IInv, [Next]_vars PROVE IInv'
    OBVIOUS
  <1>1. /\ NextPos(head) \in Slots /\ NextPos(tail) \in Slots
        /\ head # tail => NextPos(head) # NextPos(tail)
    BY NextPosFacts DEF IInv, TypeOK, Slots
  <1>2. ASSUME NEW x \in Items, PushCheck(x) PROVE IInv'
    <2>1. UNCHANGED <<list, head, tail, reader, popped>> /\ writer.at = "out"
      BY <1>2 DEF PushCheck
    <2>2. CASE pushed' = FALSE /\ UNCHANGED writer
      BY <2>1, <2>2 DEF IInv, TypeOK, Calls, NextPos
    <2>3. CASE NextPos(head) # tail /\ writer' = [at |-> "write", obj |-> x] /\ UNCHANGED pushed
      BY <2>1, <2>3 DEF IInv, TypeOK, Calls, NextPos
    <2> QED
      BY <1>2, <2>2, <2>3 DEF PushCheck
  <1>3. CASE PushWrite
    BY <1>3 DEF IInv, TypeOK, Calls, PushWrite
  <1>4. CASE PushAdvance
    BY <1>1, <1>4 DEF IInv, TypeOK, Calls, PushAdvance
  <1>5. ASSUME NEW call \in {"pop", "pick"}, PopCheck(call) PROVE IInv'
    BY <1>5 DEF IInv, TypeOK, Calls, PopCheck
  <1>6. CASE PickRead
    BY <1>6 DEF IInv, TypeOK, Calls, PickRead
  <1>7. CASE PopRead
    BY <1>7 DEF IInv, TypeOK, Calls, PopRead
  <1>8. CASE PopAdvance
    BY <1>1, <1>8 DEF IInv, TypeOK, Calls, PopAdvance
  <1>9. CASE UNCHANGED vars
    BY <1>9 DEF IInv, TypeOK, Calls, vars, NextPos
  <1> QED
    BY <1>2, <1>3, <1>4, <1>5, <1>6, <1>7, <1>8, <1>9 DEF Next

\* However the two threads interleave and however often the ring wraps, for any
\* size of it, both positions stay inside it and only items come out.
THEOREM PositionsInside == Spec => []TypeOK
  <1>1. IInv => TypeOK
    BY DEF IInv
  <1> QED
    BY <1>1, InvInit, InvStep, PTL DEF Spec

\* In every interleaving of the two threads, for a ring of any size, the slot that
\* Push fills is never one that Pop or Pick is working on.
THEOREM SlotsApart == Spec => [](TypeOK /\ SlotNotShared)
  <1>1. IInv => TypeOK /\ SlotNotShared
    BY DEF IInv, Calls, SlotNotShared
  <1> QED
    BY <1>1, InvInit, InvStep, PTL DEF Spec

-----------------------------------------------------------------------------

LEMMA RefineInit == Init => Queue!Init
  <1> SUFFICES ASSUME Init PROVE Queue!Init
    OBVIOUS
  <1>1. IInv /\ head = tail
    BY InvInit DEF Init
  <1>2. Contents \in Seq(Values) /\ Len(Contents) = 0
    BY <1>1, ContentsSeq, CountFacts DEF IInv, TypeOK
  <1>3. Contents = <<>>
    BY <1>2, EmptySeq
  <1> QED
    BY <1>3 DEF Init, Queue!Init

LEMMA RefineStep == IInv /\ IInv' /\ [Next]_vars => [Queue!Next]_Queue!vars
  <1> SUFFICES ASSUME IInv, IInv', [Next]_vars PROVE [Queue!Next]_Queue!vars
    OBVIOUS
  <1>1. /\ TypeOK /\ TypeOK' /\ Contents \in Seq(Values) /\ Len(Contents) = Count
        /\ Count \in 0 .. Size - 1
        /\ Count = 0 <=> head = tail
        /\ Count = Size - 1 <=> NextPos(head) = tail
    BY ContentsSeq, CountFacts DEF IInv, TypeOK
  <1>2. ASSUME NEW x \in Items, PushCheck(x) PROVE [Queue!Next]_Queue!vars
    <2>1. UNCHANGED Contents
      BY <1>2, SameContents DEF PushCheck
    <2>2. CASE NextPos(head) = tail
      BY <1>1, <1>2, <2>1, <2>2 DEF PushCheck, Queue!Next, Queue!PushRefused
    <2>3. CASE NextPos(head) # tail
      BY <1>2, <2>1, <2>3 DEF PushCheck, Queue!vars
    <2> QED
      BY <2>2, <2>3
  <1>3. CASE PushWrite
    <2>1. UNCHANGED Contents
      BY <1>3, WriteContents
    <2> QED
      BY <1>3, <2>1 DEF PushWrite, Queue!vars
  <1>4. CASE PushAdvance
    <2>1. Contents' = Append(Contents, writer.obj)
      BY <1>1, <1>4, PushContents
    <2>2. writer.obj \in Items /\ NextPos(head) # tail
      BY <1>4 DEF IInv, Calls, PushAdvance
    <2>3. Len(Contents) < Size - 1
      BY <1>1, <2>2
    <2>4. Queue!Push(writer.obj)
      BY <1>4, <2>1, <2>3 DEF PushAdvance, Queue!Push
    <2> QED
      BY <2>2, <2>4 DEF Queue!Next
  <1>5. ASSUME NEW call \in {"pop", "pick"}, PopCheck(call) PROVE [Queue!Next]_Queue!vars
    <2>1. UNCHANGED Contents
      BY <1>5, SameContents DEF PopCheck
    <2>2. CASE tail = head
      BY <1>1, <1>5, <2>1, <2>2 DEF PopCheck, Queue!Next, Queue!Empty
    <2>3. CASE tail # head
      BY <1>5, <2>1, <2>3 DEF PopCheck, Queue!vars
    <2> QED
      BY <2>2, <2>3
  <1>6. CASE PickRead
    <2>1. UNCHANGED Contents
      BY <1>6, SameContents DEF PickRead
    <2>2. head # tail
      BY <1>6 DEF IInv, Calls, PickRead
    <2>3. SlotOf(0) = tail
      BY <1>1 DEF SlotOf, TypeOK, Slots
    <2>4. Count \in 1 .. Size - 1 /\ Contents # <<>>
      BY <1>1, <2>2
    <2>5. Head(Contents) = list[tail]
      <3>1. Head(Contents) = Contents[1]
        BY <1>1, <2>4
      <3> QED
        BY <2>3, <2>4, <3>1 DEF Contents
    <2> QED
      BY <1>1, <1>6, <2>1, <2>4, <2>5 DEF PickRead, Queue!Next, Queue!Pick
  <1>7. CASE PopRead
    <2>1. UNCHANGED Contents
      BY <1>7, SameContents DEF PopRead
    <2> QED
      BY <1>7, <2>1 DEF PopRead, Queue!vars
  <1>8. CASE PopAdvance
    <2>1. Contents # <<>> /\ Contents' = Tail(Contents) /\ reader.obj = Head(Contents)
      BY <1>1, <1>8, PopContents
    <2>2. Len(Contents) > 0
      BY <1>1, <2>1, EmptySeq
    <2> QED
      BY <1>8, <2>1, <2>2 DEF PopAdvance, Queue!Next, Queue!Pop
  <1>9. CASE UNCHANGED vars
    <2>1. UNCHANGED Contents
      BY <1>9, SameContents DEF vars
    <2> QED
      BY <1>9, <2>1 DEF vars, Queue!vars
  <1> QED
    BY <1>2, <1>3, <1>4, <1>5, <1>6, <1>7, <1>8, <1>9 DEF Next

\* The ring implements the first-in first-out queue of Size - 1 items, for every
\* size and every interleaving of one pushing and one popping thread.
THEOREM ImplementsQueue == Spec => FifoQueue
  BY RefineInit, RefineStep, InvInit, InvStep, PTL DEF Spec, FifoQueue, Queue!Spec

=============================================================================
