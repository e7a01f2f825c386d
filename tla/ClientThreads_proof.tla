------------------------ MODULE ClientThreads_proof -------------------------
(***************************************************************************)
(* Proofs about the threads of the client, for any size of the buffer, any *)
(* number of attempts and any faults: the quit is behind every action, and *)
(* the attempts are counted as main.cpp says.                              *)
(***************************************************************************)
EXTENDS ClientThreads, SequenceTheorems, TLAPS

Threads == {"watcher", "consumer", "responder", "input"}

\* A thread that failed has set the flag, and so had the one whose failure
\* made join_threads throw.
Flagged ==
  /\ \A t \in Threads : pc[t] = "failed" => has_exception_occurred
  /\ pc.main = "unwind" => has_exception_occurred

\* join_threads waits in this order, and the destructors for all of them.
Joined ==
  /\ pc.main \in {"join_watcher", "join_consumer", "join_responder", "shutdown", "exit"} =>
       Ended("input")
  /\ pc.main \in {"join_consumer", "join_responder", "shutdown", "exit"} => Ended("watcher")
  /\ pc.main = "join_responder" => Ended("consumer")
  /\ pc.main \in {"shutdown", "connect", "catch", "retry", "exit", "gave_up"} =>
       \A t \in Threads : Ended(t)

\* Nobody pushes into a terminated buffer.
Terminated ==
  isTerminated =>
    /\ Ended("watcher") /\ Ended("input")
    /\ pc.main \notin {"connect", "join_input", "join_watcher"}

\* The consumer has come to the end of it.
Drained ==
  pc.consumer \in {"drained", "quit", "done"} /\ ~has_exception_occurred =>
    actions = <<>> /\ Ended("watcher") /\ Ended("input")

\* What is left of the attempts.
Attempts ==
  /\ try_again + streak = TRY_AGAIN_ATTEMPTS
  /\ pc.main \notin {"retry", "gave_up"} => streak < TRY_AGAIN_ATTEMPTS
  /\ pc.main = "gave_up" => streak = TRY_AGAIN_ATTEMPTS

Inv == TypeOK /\ Flagged /\ Joined /\ Terminated /\ Drained /\ Attempts

-----------------------------------------------------------------------------
LEMMA InitOK == Init => Inv
<1> SUFFICES ASSUME Init PROVE Inv
  OBVIOUS
<1> USE ThreadsAssumption DEF Init, Unstarted
<1>1. TypeOK
  <2>1. actions \in Seq({"file", "restore"}) /\ Len(actions) <= Capacity
    OBVIOUS
  <2>2. answers \in Seq({"file", "restore", "finish"})
    OBVIOUS
  <2>3. pc \in Pcs
    BY DEF Pcs
  <2>4. /\ isTerminated \in BOOLEAN /\ has_exception_occurred \in BOOLEAN
        /\ running_ \in BOOLEAN /\ pause_execution \in BOOLEAN
    OBVIOUS
  <2>5. QED
    BY <2>1, <2>2, <2>3, <2>4 DEF TypeOK
<1>2. Flagged /\ Joined /\ Terminated /\ Drained /\ Attempts
  BY DEF Flagged, Joined, Terminated, Drained, Attempts, Threads, Ended
<1>3. QED
  BY <1>1, <1>2 DEF Inv

\* What a push leaves in the buffer.
LEMMA PushKeepsType ==
  ASSUME TypeOK, NEW item \in {"file", "restore"}, push(item)
  PROVE  actions' \in Seq({"file", "restore"}) /\ Len(actions') <= Capacity
<1>1. /\ Append(actions, item) \in Seq({"file", "restore"})
      /\ Len(Append(actions, item)) = Len(actions) + 1
  BY AppendProperties DEF TypeOK
<1>2. QED
  BY <1>1, ThreadsAssumption DEF TypeOK, push

\* The answers are taken from the front, one by one, and added at the end.
LEMMA AnswersKeepType ==
  ASSUME TypeOK,
         \/ answers' = answers
         \/ answers # <<>> /\ answers' = Tail(answers)
         \/ \E answer \in {"file", "restore", "finish"} : answers' = Append(answers, answer)
  PROVE  answers' \in Seq({"file", "restore", "finish"})
<1> DEFINE Answer == {"file", "restore", "finish"}
<1>1. answers \in Seq(Answer)
  BY DEF TypeOK
<1> HIDE DEF Answer
<1>2. ASSUME answers # <<>>, answers' = Tail(answers) PROVE answers' \in Seq(Answer)
  BY <1>1, <1>2, HeadTailProperties
<1>3. ASSUME NEW answer \in Answer, answers' = Append(answers, answer) PROVE answers' \in Seq(Answer)
  BY <1>1, <1>3, AppendProperties
<1>4. answers' \in Seq(Answer)
  BY <1>1, <1>2, <1>3 DEF Answer
<1>5. QED
  BY <1>4 DEF Answer

\* What is written is answered, or not.
LEMMA WritesKeepsType ==
  ASSUME TypeOK, NEW item \in {"file", "restore", "finish"}, Writes(item)
  PROVE  answers' \in Seq({"file", "restore", "finish"}) /\ server' \in {"reads", "date", "garbled"}
<1>1. answers' = answers \/ answers' = Append(answers, item)
  BY Zenon DEF Writes
<1>2. answers' \in Seq({"file", "restore", "finish"})
  BY <1>1, AnswersKeepType
<1>3. server' \in {"reads", "date", "garbled"}
  BY DEF Writes
<1>4. QED
  BY <1>2, <1>3

\* The steps of the file watcher.
LEMMA FileWatcherKeeps == Inv /\ FileWatcher => Inv'
<1> SUFFICES ASSUME Inv, FileWatcher PROVE Inv'
  OBVIOUS
<1> USE ThreadsAssumption DEF FileWatcher, WatcherFinds, WatcherPush, WatcherPassEnds, WatcherWakes,
  WatcherThrows, Fail, Goto, mainVars
<1>1. TypeOK'
  <2>1. actions' \in Seq({"file", "restore"}) /\ Len(actions') <= Capacity
    BY PushKeepsType DEF Inv, TypeOK
  <2>2. pc' \in Pcs
    BY DEF Inv, TypeOK, Pcs
  <2>3. /\ isTerminated' \in BOOLEAN /\ has_exception_occurred' \in BOOLEAN
        /\ running_' \in BOOLEAN /\ pause_execution' \in BOOLEAN
    BY DEF Inv, TypeOK
  <2>4. QED
    BY <2>1, <2>2, <2>3 DEF Inv, TypeOK
<1>2. Flagged' /\ Joined' /\ Attempts'
  BY DEF Inv, TypeOK, Pcs, Flagged, Joined, Attempts, Threads, Ended
<1>3. Terminated' /\ Drained'
  BY DEF Inv, TypeOK, Pcs, Terminated, Drained, Ended, push
<1>4. QED
  BY <1>1, <1>2, <1>3 DEF Inv

\* The steps of the action consumer: it finds the buffer empty and terminated
\* before it sends the quit.
LEMMA ActionsConsumerKeeps == Inv /\ ActionsConsumer => Inv'
<1> SUFFICES ASSUME Inv, ActionsConsumer PROVE Inv'
  OBVIOUS
<1> USE DEF mainVars, Goto
<1>1. CASE ConsumerPop
  <2>1. actions # <<>> => /\ Head(actions) \in {"file", "restore"}
                          /\ Tail(actions) \in Seq({"file", "restore"})
                          /\ Len(Tail(actions)) <= Capacity
    BY HeadTailProperties, ThreadsAssumption DEF Inv, TypeOK
  <2>2. TypeOK'
    <3>1. pc' \in Pcs
      BY <1>1, <2>1 DEF Inv, TypeOK, Pcs, ConsumerPop, Prepared
    <3>2. QED
      BY <1>1, <2>1, <3>1 DEF Inv, TypeOK, ConsumerPop, ActionsConsumer
  <2>3. CASE actions = <<>>
    BY <1>1, <2>1, <2>2, <2>3 DEF Inv, TypeOK, Pcs, ConsumerPop, ActionsConsumer, Flagged, Joined,
      Terminated, Drained, Attempts, Threads, Ended
  <2>4. CASE actions # <<>>
    BY <1>1, <2>1, <2>2, <2>4 DEF Inv, TypeOK, Pcs, ConsumerPop, Prepared, ActionsConsumer, Flagged, Joined,
      Terminated, Drained, Attempts, Threads, Ended
  <2>5. QED
    BY <2>3, <2>4
<1>2. CASE ConsumerSend \/ ConsumerLoop \/ ConsumerQuit \/ ConsumerThrows
  <2> USE <1>2 DEF ActionsConsumer, ConsumerSend, ConsumerLoop, ConsumerQuit, ConsumerThrows, Fail
  <2>1. pc' \in Pcs
    BY DEF Inv, TypeOK, Pcs
  <2>2. answers' \in Seq({"file", "restore", "finish"}) /\ server' \in {"reads", "date", "garbled"}
    <3>1. CASE \E item \in {"file", "restore", "finish"} : Writes(item)
      BY <3>1, WritesKeepsType DEF Inv
    <3>2. CASE UNCHANGED <<answers, server>>
      BY <3>2 DEF Inv, TypeOK
    <3>3. QED
      BY <3>1, <3>2
  <2>3. has_exception_occurred' \in BOOLEAN
    BY DEF Inv, TypeOK
  <2>4. TypeOK'
    BY <2>1, <2>2, <2>3 DEF Inv, TypeOK
  <2>5. Flagged' /\ Joined' /\ Attempts'
    BY DEF Inv, TypeOK, Pcs, Flagged, Joined, Attempts, Threads, Ended
  <2>6. Terminated' /\ Drained'
    BY DEF Inv, TypeOK, Pcs, Terminated, Drained, Ended
  <2>7. QED
    BY <2>4, <2>5, <2>6 DEF Inv
<1>3. QED
  BY <1>1, <1>2 DEF ActionsConsumer

\* The steps of the response consumer.
LEMMA ResponseConsumerKeeps == Inv /\ ResponseConsumer => Inv'
<1> SUFFICES ASSUME Inv, ResponseConsumer PROVE Inv'
  OBVIOUS
<1> USE DEF ResponseConsumer, Goto, mainVars, Fail
<1>1. answers' \in Seq({"file", "restore", "finish"})
  <2>1. CASE ReadResponse
    BY <2>1, AnswersKeepType DEF ReadResponse, Inv
  <2>2. CASE ResponderLoop \/ action_restore \/ RestoreDone \/ RestoreThrows \/ ResponderThrows
    BY <2>2, AnswersKeepType DEF ResponderLoop, action_restore, RestoreDone, RestoreThrows,
      ResponderThrows, Inv
  <2>3. QED
    BY <2>1, <2>2
<1> USE DEF ResponderLoop, ReadResponse, action_restore, RestoreDone, RestoreThrows, ResponderThrows
<1>2. pc' \in Pcs
  BY DEF Inv, TypeOK, Pcs
<1>3. /\ has_exception_occurred' \in BOOLEAN /\ pause_execution' \in BOOLEAN
      /\ link' \in {"up", "unread", "full", "lost"} /\ server' \in {"reads", "date", "garbled"}
  BY DEF Inv, TypeOK
<1>4. TypeOK'
  BY <1>1, <1>2, <1>3 DEF Inv, TypeOK
<1>5. Flagged' /\ Joined' /\ Attempts'
  BY DEF Inv, TypeOK, Pcs, Flagged, Joined, Attempts, Threads, Ended
<1>6. Terminated' /\ Drained'
  BY DEF Inv, TypeOK, Pcs, Terminated, Drained, Ended
<1>7. QED
  BY <1>4, <1>5, <1>6 DEF Inv

\* The steps of the input watcher and of its user.
LEMMA InputWatcherKeeps == Inv /\ (User \/ InputWatcher) => Inv'
<1> SUFFICES ASSUME Inv, (User \/ InputWatcher) PROVE Inv'
  OBVIOUS
<1> USE ThreadsAssumption DEF User, InputCommand, InputTakenBack, command_quit, command_restore,
  InputWatcher, InputNothing, InputLoop, InputPush, InputThrows, InputKeeps, Fail, Goto, mainVars
<1>1. TypeOK'
  <2>1. actions' \in Seq({"file", "restore"}) /\ Len(actions') <= Capacity
    BY PushKeepsType DEF Inv, TypeOK
  <2>2. answers' \in Seq({"file", "restore", "finish"})
    BY AppendProperties DEF Inv, TypeOK, Pcs
  <2>3. pc' \in Pcs
    BY DEF Inv, TypeOK, Pcs
  <2>4. /\ isTerminated' \in BOOLEAN /\ has_exception_occurred' \in BOOLEAN
        /\ running_' \in BOOLEAN /\ pause_execution' \in BOOLEAN
    BY DEF Inv, TypeOK
  <2>5. QED
    BY <2>1, <2>2, <2>3, <2>4 DEF Inv, TypeOK
<1>2. Flagged' /\ Joined' /\ Attempts'
  BY DEF Inv, TypeOK, Pcs, Flagged, Joined, Attempts, Threads, Ended
<1>3. Terminated' /\ Drained'
  BY DEF Inv, TypeOK, Pcs, Terminated, Drained, Ended
<1>4. QED
  BY <1>1, <1>2, <1>3 DEF Inv

\* The steps of the main thread.
LEMMA MainThreadKeeps == Inv /\ (Client \/ Main) => Inv'
<1> SUFFICES ASSUME Inv, Client \/ Main PROVE Inv'
  OBVIOUS
<1> USE ThreadsAssumption DEF Goto, MainKeeps, mainVars
<1>1. CASE Client
  <2> USE <1>1 DEF Client
  <2>1. pc' \in Pcs
    BY DEF Inv, TypeOK, Pcs
  <2>2. TypeOK'
    BY <2>1 DEF Inv, TypeOK
  <2>3. Flagged' /\ Joined'
    BY DEF Inv, TypeOK, Pcs, Flagged, Joined, Threads, Ended
  <2>4. Terminated' /\ Drained' /\ Attempts'
    BY DEF Inv, TypeOK, Pcs, Flagged, Joined, Terminated, Drained, Attempts, Ended, Threads
  <2>5. QED
    BY <2>2, <2>3, <2>4 DEF Inv
<1>2. CASE JoinThreads
  <2>1. PICK t \in Threads, here \in {"join_input", "join_watcher", "join_consumer", "join_responder"},
             next \in {"join_watcher", "join_consumer", "join_responder", "shutdown"} :
          /\ Join(t, here, next)
          /\ \/ t = "input" /\ here = "join_input" /\ next = "join_watcher"
             \/ t = "watcher" /\ here = "join_watcher" /\ next = "join_consumer"
             \/ t = "consumer" /\ here = "join_consumer" /\ next = "join_responder"
             \/ t = "responder" /\ here = "join_responder" /\ next = "shutdown"
    BY <1>2 DEF JoinThreads, join_threads, Threads
  <2>2. isTerminated' => isTerminated \/ here = "join_watcher"
    BY <1>2, <2>1, Zenon DEF JoinThreads, join_threads, Join
  <2>3. pc' \in Pcs
    BY <2>1 DEF Join, Inv, TypeOK, Pcs
  <2>4. UNCHANGED <<actions, has_exception_occurred, pause_execution, answers, link, server,
                    changes, restores, try_again, streak>>
    BY <1>2 DEF JoinThreads
  <2>5. isTerminated' \in BOOLEAN /\ running_' \in BOOLEAN
    BY <1>2, Zenon DEF JoinThreads, join_threads, Inv, TypeOK
  <2>6. TypeOK'
    BY <2>2, <2>3, <2>4, <2>5 DEF Inv, TypeOK
  <2>7. \A u \in Threads : pc'[u] = pc[u]
    BY <2>1 DEF Join, Inv, TypeOK, Pcs, Threads
  <2>8. pc'.main \in {"unwind", next} /\ (pc'.main = "unwind" => pc[t] = "failed")
    BY <2>1 DEF Join, Inv, TypeOK, Pcs
  <2>9. Flagged'
    BY <2>1, <2>4, <2>7, <2>8 DEF Inv, Flagged
  <2>10. Joined'
    <3>1. pc'.main # "unwind" => \/ next = "join_watcher" /\ Ended("input")
                                 \/ next = "join_consumer" /\ Ended("watcher") /\ Ended("input")
                                 \/ next = "join_responder" /\ Ended("watcher") /\ Ended("input")
                                    /\ Ended("consumer")
                                 \/ next = "shutdown" /\ \A u \in Threads : Ended(u)
      BY <2>1 DEF Inv, Joined, Join, Threads
    <3>2. \A u \in Threads : Ended(u) => pc'[u] \in {"done", "failed"}
      BY <2>7 DEF Ended
    <3>3. QED
      BY <2>8, <3>1, <3>2 DEF Joined, Ended, Threads
  <2>11. Terminated' /\ Drained' /\ Attempts'
    BY <2>1, <2>2, <2>4, <2>7, <2>8 DEF Inv, Joined, Terminated, Drained, Attempts, Join, Ended, Threads
  <2>12. QED
    BY <2>6, <2>9, <2>10, <2>11 DEF Inv
<1>3. CASE Unwind
  <2> USE <1>3 DEF Unwind
  <2>1. pc' \in Pcs
    BY DEF Inv, TypeOK, Pcs
  <2>2. TypeOK'
    BY <2>1 DEF Inv, TypeOK
  <2>3. Flagged' /\ Joined'
    BY DEF Inv, TypeOK, Pcs, Flagged, Joined, Threads, Ended
  <2>4. Terminated' /\ Drained' /\ Attempts'
    BY DEF Inv, TypeOK, Pcs, Flagged, Joined, Terminated, Drained, Attempts, Ended, Threads
  <2>5. QED
    BY <2>2, <2>3, <2>4 DEF Inv
<1>4. CASE Shutdown
  <2> USE <1>4 DEF Shutdown
  <2>1. pc' \in Pcs
    BY DEF Inv, TypeOK, Pcs
  <2>2. TypeOK'
    BY <2>1 DEF Inv, TypeOK
  <2>3. Flagged' /\ Joined'
    BY DEF Inv, TypeOK, Pcs, Flagged, Joined, Threads, Ended
  <2>4. Terminated' /\ Drained' /\ Attempts'
    BY DEF Inv, TypeOK, Pcs, Flagged, Joined, Terminated, Drained, Attempts, Ended, Threads
  <2>5. QED
    BY <2>2, <2>3, <2>4 DEF Inv
<1>5. CASE Catch
  <2> USE <1>5 DEF Catch, NextAttempt, Unstarted, clientVars
  <2>1. pc' \in Pcs
    BY DEF Inv, TypeOK, Pcs
  <2>2. TypeOK'
    BY <2>1 DEF Inv, TypeOK, Attempts
  <2>3. Flagged' /\ Joined'
    BY DEF Inv, TypeOK, Pcs, Flagged, Joined, Threads, Ended
  <2>4. Terminated' /\ Drained' /\ Attempts'
    BY DEF Inv, TypeOK, Pcs, Flagged, Joined, Terminated, Drained, Attempts, Ended, Threads
  <2>5. QED
    BY <2>2, <2>3, <2>4 DEF Inv
<1>6. CASE Retry
  <2> USE <1>6 DEF Retry, GoOn, Unstarted
  <2>1. pc' \in Pcs
    BY DEF Inv, TypeOK, Pcs
  <2>2. TypeOK'
    <3>1. actions' \in Seq({"file", "restore"}) /\ Len(actions') <= Capacity
      BY actions' = <<>>, ThreadsAssumption
    <3>2. answers' \in Seq({"file", "restore", "finish"})
      OBVIOUS
    <3>3. /\ isTerminated' \in BOOLEAN /\ has_exception_occurred' \in BOOLEAN
          /\ running_' \in BOOLEAN /\ pause_execution' \in BOOLEAN
      OBVIOUS
    <3>4. QED
      BY <2>1, <3>1, <3>2, <3>3 DEF Inv, TypeOK
  <2>3. Flagged' /\ Joined'
    BY DEF Inv, TypeOK, Pcs, Flagged, Joined, Threads, Ended
  <2>4. Terminated' /\ Drained' /\ Attempts'
    BY DEF Inv, TypeOK, Pcs, Flagged, Joined, Terminated, Drained, Attempts, Ended, Threads
  <2>5. QED
    BY <2>2, <2>3, <2>4 DEF Inv
<1>7. QED
  BY <1>1, <1>2, <1>3, <1>4, <1>5, <1>6 DEF Main

LEMMA Invariance == Spec => []Inv
<1>1. Inv /\ [Next]_vars => Inv'
  <2> SUFFICES ASSUME Inv, [Next]_vars PROVE Inv'
    OBVIOUS
  <2>1. CASE Disconnect \/ BuffersFill
    BY <2>1 DEF Disconnect, BuffersFill, LinkVars, mainVars, Inv, TypeOK, Flagged, Joined, Terminated, Drained, Attempts, Ended
  <2>2. CASE UNCHANGED vars
    BY <2>2 DEF vars, clientVars, mainVars, Inv, TypeOK, Flagged, Joined, Terminated, Drained,
      Attempts, Ended
  <2>3. QED
    BY <2>1, <2>2, FileWatcherKeeps, ActionsConsumerKeeps, ResponseConsumerKeeps, InputWatcherKeeps,
      MainThreadKeeps DEF Next
<1>2. QED
  BY <1>1, InitOK, PTL DEF Spec

\* The type invariant of the client's threads.
THEOREM TypeCorrect == Spec => []TypeOK
<1>1. Inv => TypeOK
  BY DEF Inv
<1>2. QED
  BY <1>1, Invariance, PTL

\* Client.cpp:205-219: join_threads terminates the buffer when both of its
\* producers have returned, so that the quit, which the consumer sends when it
\* finds the buffer empty and terminated, is behind every action.
THEOREM QuitBehindActions == Spec => []QuitIsLast
<1>1. Inv => QuitIsLast
  BY DEF Inv, Terminated, Drained, QuitIsLast
<1>2. QED
  BY <1>1, Invariance, PTL

\* main.cpp:22-50: the program gives up after TRY_AGAIN_ATTEMPTS failures each
\* of which came soon after the one before, and only then.
THEOREM AttemptsCounted == Spec => []GivesUpInTime
<1>1. Inv => GivesUpInTime
  BY ThreadsAssumption DEF Inv, TypeOK, Attempts, GivesUpInTime
<1>2. QED
  BY <1>1, Invariance, PTL
=============================================================================
