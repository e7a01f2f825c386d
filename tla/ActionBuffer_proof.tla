------------------------- MODULE ActionBuffer_proof -------------------------
(***************************************************************************)
(* Proofs about the ring buffer of Client/Buffer.h, for any number of      *)
(* slots, items and threads: types, no lost wake-up, and that the ring     *)
(* implements the bounded FIFO queue.                                      *)
(***************************************************************************)
EXTENDS ActionBuffer, SequenceTheorems, TLAPS

\* Where the modulo of the code leads: to the next slot, and from the last
\* slot back to the first.
LEMMA SuccIsWrap ==
  ASSUME NEW i \in Slot
  PROVE  Succ(i) = Wrap(i + 1) /\ Succ(i) \in Slot
<1>1. CASE i + 1 < MAX_SIZE
  BY <1>1, BufferAssumption DEF Slot, Succ, Wrap
<1>2. CASE i + 1 = MAX_SIZE
  BY <1>2, BufferAssumption DEF Slot, Succ, Wrap
<1>3. QED
  BY <1>1, <1>2, BufferAssumption DEF Slot

\* The ring and its sleepers: every variable keeps its type, and whoever sleeps
\* has nothing to do.  One lemma for each method of the class, and one for the
\* call of it.
Sound == TypeOK /\ NoLostWakeup

LEMMA EmptyRing == Init => Sound
<1> SUFFICES ASSUME Init PROVE Sound
  OBVIOUS
<1>1. 0 \in Slot /\ Idle \in Call
  BY BufferAssumption DEF Slot, Call, Idle
<1>2. buf \in [Slot -> Item \cup {nullopt}] /\ got \in [Consumer -> Item \cup {nullopt}]
  BY DEF Init
<1>3. call \in [Thread -> Call]
  BY <1>1 DEF Init
<1>4. QED
  BY <1>1, <1>2, <1>3 DEF Init, Sound, TypeOK, NoLostWakeup

LEMMA InvokeKeeps ==
  ASSUME Sound, NEW t \in Thread, NEW c \in Call, Invoke(t, c)
  PROVE  Sound'
<1>1. TypeOK'
  BY DEF Sound, TypeOK, Invoke, Thread
<1>2. NoLostWakeup'
  BY DEF Sound, TypeOK, NoLostWakeup, Invoke, Thread, Idle, HasRoom, HasItem, Succ
<1>3. QED
  BY <1>1, <1>2 DEF Sound

\* A push writes the slot at curr and wakes everybody, or goes to sleep.
LEMMA PushKeeps ==
  ASSUME Sound, NEW t \in Producer, push(t)
  PROVE  Sound'
<1> USE BufferAssumption DEF TypeOK, Return, Idle, Call, Thread
<1>1. CASE HasRoom
  <2>1. call[t].item \in Item /\ Succ(curr) \in Slot
    BY SuccIsWrap DEF Sound, push
  <2>2. buf' \in [Slot -> Item \cup {nullopt}]
    BY <1>1, <2>1 DEF Sound, push
  <2>3. TypeOK' /\ waiting' = {}
    BY <1>1, <2>1, <2>2 DEF Sound, push, notify_all
  <2>4. QED
    BY <2>3 DEF Sound, NoLostWakeup
<1>2. CASE ~HasRoom
  <2>1. TypeOK'
    BY <1>2 DEF Sound, push, Wait
  <2>2. NoLostWakeup'
    BY <1>2 DEF Sound, NoLostWakeup, push, Wait, HasRoom, HasItem, Succ
  <2>3. QED
    BY <2>1, <2>2 DEF Sound
<1>3. QED
  BY <1>1, <1>2

\* A pop takes the item at head and wakes everybody, finds the buffer empty for
\* good, or goes to sleep.
LEMMA PopKeeps ==
  ASSUME Sound, NEW t \in Consumer, pop(t)
  PROVE  Sound'
<1> USE BufferAssumption DEF TypeOK, Return, Idle, Call, Thread
<1>1. CASE HasItem
  <2>1. TypeOK' /\ waiting' = {}
    BY <1>1, SuccIsWrap DEF Sound, pop, notify_all
  <2>2. QED
    BY <2>1 DEF Sound, NoLostWakeup
<1>2. CASE ~HasItem /\ isTerminated
  <2>1. t \notin waiting /\ Return(t) /\ got' = [got EXCEPT ![t] = nullopt]
        /\ UNCHANGED <<buf, head, curr, isTerminated, waiting>>
    BY <1>2 DEF pop, Wait
  <2>2. call' \in [Thread -> Call] /\ got' \in [Consumer -> Item \cup {nullopt}]
    BY <2>1 DEF Sound
  <2>3. NoLostWakeup'
    BY <2>1 DEF Sound, NoLostWakeup, HasRoom, HasItem, Succ
  <2>4. QED
    BY <2>1, <2>2, <2>3 DEF Sound
<1>3. CASE ~HasItem /\ ~isTerminated
  <2>1. TypeOK'
    BY <1>3 DEF Sound, pop, Wait
  <2>2. NoLostWakeup'
    BY <1>3 DEF Sound, NoLostWakeup, pop, Wait, HasRoom, HasItem, Succ
  <2>3. QED
    BY <2>1, <2>2 DEF Sound
<1>4. QED
  BY <1>1, <1>2, <1>3

LEMMA TerminateKeeps ==
  ASSUME Sound, terminate
  PROVE  Sound'
BY DEF Sound, TypeOK, NoLostWakeup, terminate, notify_all

LEMMA AlwaysSound == Spec => []Sound
<1>1. Sound /\ Next => Sound'
  <2>1. \A x \in Item : PushCall(x) \in Call
    BY DEF PushCall, Call
  <2>2. PopCall \in Call
    BY DEF PopCall, Call
  <2>3. QED
    BY <2>1, <2>2, InvokeKeeps, PushKeeps, PopKeeps, TerminateKeeps DEF Next, Thread
<1>2. Sound /\ UNCHANGED vars => Sound'
  BY DEF Sound, TypeOK, NoLostWakeup, vars, HasRoom, HasItem, Succ
<1>3. QED
  BY EmptyRing, <1>1, <1>2, PTL DEF Spec

\* Every variable keeps its type: in particular head and curr stay inside the
\* array, whatever the order of pushes and pops.
THEOREM TypeCorrect == Spec => []TypeOK
BY AlwaysSound, PTL DEF Sound

\* A thread asleep in push or pop has nothing to do: every change that could
\* make its predicate true empties the set of sleepers.
THEOREM WakeupsNotLost == Spec => []NoLostWakeup
BY AlwaysSound, PTL DEF Sound

-----------------------------------------------------------------------------
\* The ring never holds more than MAX_SIZE - 1 items, and the two tests of the
\* code mean what they should of the queue it stands for.
LEMMA CountProperties ==
  ASSUME TypeOK
  PROVE  /\ Count \in 0 .. MAX_SIZE - 1
         /\ Contents \in Seq(Item \cup {nullopt})
         /\ Len(Contents) = Count
         /\ HasItem <=> Contents # <<>>
         /\ HasRoom <=> Count < MAX_SIZE - 1
<1>1. Count \in 0 .. MAX_SIZE - 1
  BY BufferAssumption DEF TypeOK, Count, Slot
<1>2. \A k \in 1 .. Count : Wrap(head + k - 1) \in Slot
  BY BufferAssumption DEF TypeOK, Count, Slot, Wrap
<1>3. Contents \in Seq(Item \cup {nullopt}) /\ Len(Contents) = Count
  BY <1>1, <1>2, BufferAssumption DEF TypeOK, Contents
<1>4. HasItem <=> Count # 0
  BY BufferAssumption DEF TypeOK, HasItem, Count, Slot
<1>5. HasRoom <=> Count < MAX_SIZE - 1
  <2>1. Succ(curr) = Wrap(curr + 1)
    BY SuccIsWrap DEF TypeOK
  <2>2. QED
    BY <2>1, BufferAssumption DEF TypeOK, HasRoom, Wrap, Count, Slot
<1>6. QED
  BY <1>1, <1>3, <1>4, <1>5

\* Writing the slot at curr and advancing curr appends to the queue.
LEMMA PushAppends ==
  ASSUME TypeOK, HasRoom, NEW x \in Item,
         buf' = [buf EXCEPT ![curr] = x], curr' = Succ(curr), head' = head
  PROVE  Contents' = Append(Contents, x)
<1>1. curr' = Wrap(curr + 1)
  BY SuccIsWrap DEF TypeOK
<1>2. Count' = Count + 1
  BY <1>1, BufferAssumption, CountProperties DEF TypeOK, Count, Wrap, Slot
<1>3. ASSUME NEW k \in 1 .. Count
      PROVE  Wrap(head + k - 1) \in Slot /\ Wrap(head + k - 1) # curr
  BY BufferAssumption, CountProperties DEF TypeOK, Count, Wrap, Slot
<1>4. Wrap(head + (Count + 1) - 1) = curr
  BY BufferAssumption DEF TypeOK, Count, Wrap, Slot
<1>5. Contents' = [k \in 1 .. Count + 1 |-> buf'[Wrap(head + k - 1)]]
  BY <1>2 DEF Contents, Wrap
<1>6. \A k \in 1 .. Count : buf'[Wrap(head + k - 1)] = Contents[k]
  BY <1>3 DEF Contents, TypeOK
<1>7. buf'[Wrap(head + (Count + 1) - 1)] = x
  BY <1>4 DEF TypeOK
<1>8. /\ Append(Contents, x) \in Seq(Item \cup {nullopt})
      /\ Len(Append(Contents, x)) = Count + 1
      /\ \A k \in 1 .. Count + 1 :
           Append(Contents, x)[k] = IF k <= Count THEN Contents[k] ELSE x
  BY CountProperties
<1>9. /\ Contents' \in Seq(Item \cup {nullopt})
      /\ Len(Contents') = Count + 1
      /\ \A k \in 1 .. Count + 1 :
           Contents'[k] = IF k <= Count THEN Contents[k] ELSE x
  <2>1. \A k \in 1 .. Count + 1 : k <= Count => k \in 1 .. Count
    BY CountProperties
  <2>2. \A k \in 1 .. Count + 1 : ~(k <= Count) => k = Count + 1
    BY CountProperties
  <2>3. \A k \in 1 .. Count + 1 : Contents'[k] = IF k <= Count THEN Contents[k] ELSE x
    BY <1>5, <1>6, <1>7, <2>1, <2>2
  <2>4. \A k \in 1 .. Count : Contents[k] \in Item \cup {nullopt}
    BY CountProperties
  <2>5. \A k \in 1 .. Count + 1 : Contents'[k] \in Item \cup {nullopt}
    BY <2>1, <2>2, <2>3, <2>4
  <2>6. QED
    BY <1>5, <2>3, <2>5, CountProperties, BufferAssumption
<1>10. QED
  BY <1>8, <1>9, SeqEqual

\* Advancing head takes the oldest item off the queue, and buf[head] is it.
LEMMA PopTakesHead ==
  ASSUME TypeOK, HasItem, buf' = buf, head' = Succ(head), curr' = curr
  PROVE  Contents' = Tail(Contents) /\ buf[head] = Head(Contents)
<1>1. head' = Wrap(head + 1)
  BY SuccIsWrap DEF TypeOK
<1>2. Count' = Count - 1 /\ Count > 0
  BY <1>1, BufferAssumption DEF TypeOK, HasItem, Count, Wrap, Slot
<1>3. ASSUME NEW k \in 1 .. Count - 1
      PROVE  Wrap(Wrap(head + 1) + k - 1) = Wrap(head + (k + 1) - 1)
  BY BufferAssumption DEF TypeOK, Count, Wrap, Slot
<1>4. Contents' = [k \in 1 .. Count - 1 |-> buf[Wrap(Wrap(head + 1) + k - 1)]]
  BY <1>1, <1>2 DEF Contents, Wrap
<1>5. \A k \in 1 .. Count - 1 : buf[Wrap(Wrap(head + 1) + k - 1)] = Contents[k + 1]
  BY <1>2, <1>3, CountProperties, BufferAssumption DEF Contents
<1>6. /\ Tail(Contents) \in Seq(Item \cup {nullopt})
      /\ Len(Tail(Contents)) = Count - 1
      /\ \A k \in 1 .. Count - 1 : Tail(Contents)[k] = Contents[k + 1]
  BY <1>2, CountProperties, HeadTailProperties
<1>7. Contents' = Tail(Contents)
  <2>1. \A k \in 1 .. Count - 1 : Contents'[k] = Tail(Contents)[k]
    BY <1>4, <1>5, <1>6
  <2>2. \A k \in 1 .. Count - 1 : Contents'[k] \in Item \cup {nullopt}
    BY <1>6, <2>1
  <2>3. /\ Contents' \in Seq(Item \cup {nullopt})
        /\ Len(Contents') = Count - 1
    BY <1>2, <1>4, <2>2, CountProperties, BufferAssumption
  <2>4. QED
    BY <1>6, <2>1, <2>3, SeqEqual
<1>8. Wrap(head + 1 - 1) = head
  BY BufferAssumption DEF TypeOK, Wrap, Slot
<1>9. Head(Contents) = buf[head]
  BY <1>2, <1>8, CountProperties, BufferAssumption DEF Contents
<1>10. QED
  BY <1>7, <1>9

\* Client/Buffer.h is a bounded FIFO queue: each step of the ring is a step of
\* the queue or, when a thread goes to sleep, changes nothing of it.
THEOREM BufferImplementsQueue == Spec => ImplementsQueue
<1>1. Init => Queue!Init
  <2> SUFFICES ASSUME Init PROVE Contents = <<>>
    BY DEF Init, Queue!Init, Queue!Thread, Thread, Queue!Idle, Idle
  <2> QED
    BY BufferAssumption DEF Init, Contents, Count
<1>2. TypeOK /\ [Next]_vars => [Queue!Next]_(Queue!vars)
  <2> SUFFICES ASSUME TypeOK, [Next]_vars PROVE [Queue!Next]_(Queue!vars)
    OBVIOUS
  <2> USE DEF Queue!Next, Queue!vars, Queue!Idle, Idle, Return, Queue!Return
  <2>1. ASSUME UNCHANGED <<buf, head, curr>> PROVE Contents' = Contents
    BY <2>1 DEF Contents, Count, Wrap
  <2>2. ASSUME NEW t \in Producer, NEW x \in Item, Invoke(t, PushCall(x))
        PROVE  Queue!Next
    BY <2>1, <2>2 DEF Invoke, Queue!Invoke, PushCall, Queue!PushCall
  <2>3. ASSUME NEW t \in Consumer, Invoke(t, PopCall) PROVE Queue!Next
    BY <2>1, <2>3 DEF Invoke, Queue!Invoke, PopCall, Queue!PopCall
  <2>4. ASSUME NEW t \in Producer, push(t) PROVE [Queue!Next]_(Queue!vars)
    <3>1. CASE HasRoom
      <4>1. call[t].item \in Item
        BY <2>4 DEF push, TypeOK, Call, Thread
      <4>2. Contents' = Append(Contents, call[t].item)
        BY <2>4, <3>1, <4>1, PushAppends DEF push
      <4>3. Queue!Push(t)
        BY <2>4, <3>1, <4>2, CountProperties DEF push, Queue!Push
      <4>4. QED BY <4>3
    <3>2. CASE ~HasRoom
      BY <2>1, <2>4, <3>2 DEF push, Wait
    <3>3. QED BY <3>1, <3>2
  <2>5. ASSUME NEW t \in Consumer, pop(t) PROVE [Queue!Next]_(Queue!vars)
    <3>1. CASE HasItem
      <4>1. Contents' = Tail(Contents) /\ buf[head] = Head(Contents)
        BY <2>5, <3>1, PopTakesHead DEF pop
      <4>2. Queue!PopItem(t)
        BY <2>5, <3>1, <4>1, CountProperties DEF pop, Queue!PopItem
      <4>3. QED BY <4>2
    <3>2. CASE ~HasItem /\ isTerminated
      <4>1. Queue!PopNothing(t)
        BY <2>1, <2>5, <3>2, CountProperties DEF pop, Queue!PopNothing
      <4>2. QED BY <4>1
    <3>3. CASE ~HasItem /\ ~isTerminated
      BY <2>1, <2>5, <3>3 DEF pop, Wait
    <3>4. QED BY <3>1, <3>2, <3>3
  <2>6. CASE terminate
    BY <2>1, <2>6 DEF terminate, Queue!Terminate
  <2>7. CASE UNCHANGED vars
    BY <2>1, <2>7 DEF vars
  <2>8. QED
    BY <2>2, <2>3, <2>4, <2>5, <2>6, <2>7 DEF Next
<1>3. QED
  BY <1>1, <1>2, TypeCorrect, PTL DEF Spec, Queue!Spec, ImplementsQueue
=============================================================================
