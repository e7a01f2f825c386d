---------------------------- MODULE BoundedQueue ----------------------------
(***************************************************************************)
(* What Client/Buffer.h promises to the threads that share it: a FIFO      *)
(* queue of bounded length with blocking calls.  A push waits for room, a  *)
(* pop waits for an item, and once the queue is terminated a pop on an     *)
(* empty queue returns nullopt instead of waiting.                         *)
(***************************************************************************)
EXTENDS Naturals, Sequences

CONSTANTS
  Item,      \* what is queued
  Producer,  \* the threads that push
  Consumer,  \* the threads that pop
  Capacity,  \* how many items the queue holds
  nullopt    \* what a pop returns after termination

VARIABLES
  queue,     \* the items, oldest first
  closed,    \* terminate() was called
  call,      \* the call each thread is in
  got        \* what the last pop of each thread returned

vars == <<queue, closed, call, got>>

Thread == Producer \cup Consumer

Idle == [op |-> "idle", item |-> nullopt]
PopCall == [op |-> "pop", item |-> nullopt]
PushCall(x) == [op |-> "push", item |-> x]
Return(t) == call' = [call EXCEPT ![t] = Idle]

Init ==
  /\ queue = <<>>
  /\ closed = FALSE
  /\ call = [t \in Thread |-> Idle]
  /\ got = [t \in Consumer |-> nullopt]

Invoke(t, c) ==
  /\ call[t] = Idle
  /\ call' = [call EXCEPT ![t] = c]
  /\ UNCHANGED <<queue, closed, got>>

Push(t) ==
  /\ call[t].op = "push"
  /\ Len(queue) < Capacity
  /\ queue' = Append(queue, call[t].item)
  /\ Return(t)
  /\ UNCHANGED <<closed, got>>

PopItem(t) ==
  /\ call[t].op = "pop"
  /\ queue # <<>>
  /\ got' = [got EXCEPT ![t] = Head(queue)]
  /\ queue' = Tail(queue)
  /\ Return(t)
  /\ UNCHANGED closed

PopNothing(t) ==
  /\ call[t].op = "pop"
  /\ queue = <<>>
  /\ closed
  /\ got' = [got EXCEPT ![t] = nullopt]
  /\ Return(t)
  /\ UNCHANGED <<queue, closed>>

Terminate ==
  /\ closed' = TRUE
  /\ UNCHANGED <<queue, call, got>>

Next ==
  \/ \E t \in Producer : Push(t) \/ \E x \in Item : Invoke(t, PushCall(x))
  \/ \E t \in Consumer : Invoke(t, PopCall) \/ PopItem(t) \/ PopNothing(t)
  \/ Terminate

Spec == Init /\ [][Next]_vars

\* A call that can go on does go on: nobody sleeps through a free slot, an
\* item or the termination.
FairSpec ==
  /\ Spec
  /\ \A t \in Producer : WF_vars(Push(t))
  /\ \A t \in Consumer : WF_vars(PopItem(t) \/ PopNothing(t))
=============================================================================
