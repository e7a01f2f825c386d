---------------------------- MODULE ActionBuffer ----------------------------
(***************************************************************************)
(* Client/Buffer.h: the thread-safe ring buffer between the file watcher   *)
(* and the input watcher (push), the action consumer (pop) and the main    *)
(* thread (terminate).  One mutex, one condition variable.                 *)
(*                                                                         *)
(* A call runs under the mutex except while it sleeps in cv.wait, so a     *)
(* step is the stretch from acquiring the mutex to releasing it or going   *)
(* to sleep.  `waiting' holds the sleepers.  A spurious wake-up re-checks  *)
(* the predicate and goes back to sleep: it changes nothing and is not an  *)
(* action.                                                                 *)
(***************************************************************************)
EXTENDS Integers, Sequences

CONSTANTS
  Item,      \* the template parameter T
  Producer,  \* the threads that call push: file watcher, input watcher
  Consumer,  \* the threads that call pop: the action consumer
  MAX_SIZE,  \* number of slots; one of them always stays free
  nullopt    \* std::nullopt, also the unused content of a slot

ASSUME BufferAssumption ==
  /\ MAX_SIZE \in Nat /\ MAX_SIZE >= 2
  /\ nullopt \notin Item
  /\ Producer \cap Consumer = {}

VARIABLES
  buf, head, curr,  \* the slots, the oldest item, the next free slot
  isTerminated,
  waiting,          \* threads asleep in cv.wait
  call,             \* the call each thread is in
  got               \* what the last pop of each thread returned

vars == <<buf, head, curr, isTerminated, waiting, call, got>>

Thread == Producer \cup Consumer
Slot == 0 .. MAX_SIZE - 1
Idle == [op |-> "idle", item |-> nullopt]
PopCall == [op |-> "pop", item |-> nullopt]
PushCall(x) == [op |-> "push", item |-> x]
Return(t) == call' = [call EXCEPT ![t] = Idle]

\* Mutant: the index runs off the array.
SuccNoWrap(i) == i + 1
Succ(i) == (i + 1) % MAX_SIZE

\* Mutant: the slot that tells a full ring from an empty one is used too.
HasRoomAlways == TRUE
HasRoom == head # Succ(curr)

HasItem == head # curr

\* Mutant: the waiters are not woken.
NoNotify == UNCHANGED waiting
notify_all == waiting' = {}

Wait(t) ==
  /\ waiting' = waiting \cup {t}
  /\ UNCHANGED <<buf, head, curr, isTerminated, call, got>>

Init ==
  /\ buf = [i \in Slot |-> nullopt]
  /\ head = 0 /\ curr = 0
  /\ isTerminated = FALSE
  /\ waiting = {}
  /\ call = [t \in Thread |-> Idle]
  /\ got = [t \in Consumer |-> nullopt]

Invoke(t, c) ==
  /\ call[t] = Idle
  /\ call' = [call EXCEPT ![t] = c]
  /\ UNCHANGED <<buf, head, curr, isTerminated, waiting, got>>

\* push never looks at isTerminated: a full buffer blocks it for as long as
\* nobody pops.
push(t) ==
  /\ call[t].op = "push"
  /\ t \notin waiting
  /\ \/ ~HasRoom /\ Wait(t)
     \/ /\ HasRoom
        /\ buf' = [buf EXCEPT ![curr] = call[t].item]
        /\ curr' = Succ(curr)
        /\ notify_all
        /\ Return(t)
        /\ UNCHANGED <<head, isTerminated, got>>

pop(t) ==
  /\ call[t].op = "pop"
  /\ t \notin waiting
  /\ \/ ~HasItem /\ ~isTerminated /\ Wait(t)
     \/ /\ isTerminated /\ ~HasItem
        /\ got' = [got EXCEPT ![t] = nullopt]
        /\ Return(t)
        /\ UNCHANGED <<buf, head, curr, isTerminated, waiting>>
     \/ /\ HasItem
        /\ got' = [got EXCEPT ![t] = buf[head]]
        /\ head' = Succ(head)
        /\ notify_all
        /\ Return(t)
        /\ UNCHANGED <<buf, curr, isTerminated>>

\* Mutant: termination gives up the items still queued.
TerminateAndDrop ==
  /\ isTerminated' = TRUE
  /\ notify_all
  /\ head' = curr
  /\ UNCHANGED <<buf, curr, call, got>>

terminate ==
  /\ isTerminated' = TRUE
  /\ notify_all
  /\ UNCHANGED <<buf, head, curr, call, got>>

Next ==
  \/ \E t \in Producer : push(t) \/ \E x \in Item : Invoke(t, PushCall(x))
  \/ \E t \in Consumer : pop(t) \/ Invoke(t, PopCall)
  \/ terminate

Spec == Init /\ [][Next]_vars

\* Each thread is scheduled, and a mutex that is released is eventually taken.
FairSpec ==
  /\ Spec
  /\ \A t \in Producer : WF_vars(push(t))
  /\ \A t \in Consumer : WF_vars(pop(t))

-----------------------------------------------------------------------------
\* The queue that the ring stands for.
Wrap(i) == IF i < MAX_SIZE THEN i ELSE i - MAX_SIZE
Count == IF head <= curr THEN curr - head ELSE curr - head + MAX_SIZE
Contents == [k \in 1 .. Count |-> buf[Wrap(head + k - 1)]]

Queue == INSTANCE BoundedQueue WITH
  queue <- Contents, closed <- isTerminated, Capacity <- MAX_SIZE - 1

Call == [op : {"idle", "pop"}, item : {nullopt}] \cup [op : {"push"}, item : Item]

TypeOK ==
  /\ buf \in [Slot -> Item \cup {nullopt}]
  /\ head \in Slot /\ curr \in Slot
  /\ isTerminated \in BOOLEAN
  /\ waiting \in SUBSET Thread
  /\ call \in [Thread -> Call]
  /\ got \in [Consumer -> Item \cup {nullopt}]

\* No wake-up is lost: a thread that sleeps in push or pop has nothing to do.
\* notify_all follows every change that can make a predicate of a sleeper true.
NoLostWakeup ==
  \A t \in waiting :
    \/ call[t].op = "push" /\ ~HasRoom
    \/ call[t].op = "pop" /\ ~HasItem /\ ~isTerminated

\* The ring with its free slot, its wrap-around and its sleepers is a FIFO
\* queue of MAX_SIZE - 1 items: nothing is lost, duplicated or reordered, and
\* nullopt is returned only when a terminated buffer has been drained.
ImplementsQueue == Queue!Spec

\* It is also as live as the queue: a push that has room, and a pop that has
\* an item or a termination to see, return.
ImplementsFairQueue == Queue!FairSpec
=============================================================================
