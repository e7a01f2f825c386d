--------------------------- MODULE ClientThreads ----------------------------
(***************************************************************************)
(* The process of the client: the loop of Client/main.cpp builds a Client, *)
(* whose constructor starts the file watcher, the action consumer, the     *)
(* response consumer and the input watcher, and waits for them in          *)
(* join_threads.  What the threads do for each other here is: fill and     *)
(* drain the buffer (BoundedQueue, which ActionBuffer implements), set and *)
(* poll has_exception_occurred, pause and stop the file watcher, terminate *)
(* the buffer.  What they send and receive is in BackupSession, what the   *)
(* file watcher finds in FileWatcher; here it finds changes, an action is  *)
(* sent or kept back, and the server answers what was sent, unless it has  *)
(* taken a header for the date of a restore.                               *)
(*                                                                         *)
(* The futures come from std::async: the constructor that leaves with an   *)
(* exception waits in their destructors for every thread.                  *)
(***************************************************************************)
EXTENDS Integers, Sequences

CONSTANTS
  Capacity,              \* of the buffer: MAX_SIZE - 1
  TRY_AGAIN_ATTEMPTS,
  MaxChanges,            \* bounds on what the watcher finds
  MaxRestores,           \* and the user asks for, in the life of a Client
  Faults                 \* what can go wrong, see the actions

ASSUME ThreadsAssumption ==
  /\ Capacity \in Nat \ {0} /\ TRY_AGAIN_ATTEMPTS \in Nat \ {0}
  /\ MaxChanges \in Nat /\ MaxRestores \in Nat
  /\ Faults \subseteq {"disconnect", "file_vanish", "scan_error", "stdin",
                       "restore_io", "restore_cleanup"}

VARIABLES
  pc,                      \* where each thread is
  actions, isTerminated,   \* Buffer.h
  has_exception_occurred,
  running_, pause_execution,  \* FileWatcher.h
  answers,                 \* what the response consumer can read
  link,                    \* the socket: up; unread, when nobody reads the rest of
                           \* a restore; full, when writes block; lost
  server,                  \* it reads headers, waits for the date of a restore, or
                           \* has taken something else for it
  changes, restores,       \* counted against the bounds
  try_again,               \* main.cpp: the attempts left
  streak                   \* the failures each of which followed soon on the last

clientVars == <<actions, isTerminated, has_exception_occurred, running_, pause_execution,
                answers, link, server, changes, restores>>
mainVars == <<try_again, streak>>
vars == <<pc, clientVars, mainVars>>

Goto(t, from, to) == pc[t] = from /\ pc' = [pc EXCEPT ![t] = to]
Ended(t) == pc[t] \in {"done", "failed"}

\* The catch of a thread.
Fail(t) ==
  /\ pc' = [pc EXCEPT ![t] = "failed"]
  /\ has_exception_occurred' = TRUE

push(item) == Len(actions) < Capacity /\ actions' = Append(actions, item)

Unstarted == [main |-> "connect", watcher |-> "done", consumer |-> "done",
              responder |-> "done", input |-> "done"]

Init ==
  /\ pc = Unstarted
  /\ actions = <<>> /\ isTerminated = FALSE
  /\ has_exception_occurred = FALSE
  /\ running_ = TRUE /\ pause_execution = FALSE
  /\ answers = <<>> /\ link = "up" /\ server = "reads"
  /\ changes = 0 /\ restores = 0
  /\ try_again = TRY_AGAIN_ATTEMPTS /\ streak = 0

-----------------------------------------------------------------------------
\* The file watcher holds its mutex from the end of the wait to the end of the
\* scan, and so while it waits in push; it does not in init_status.

Scanning == pc.watcher \in {"scan", "scan_push"}

WatcherFinds ==
  /\ changes < MaxChanges
  /\ \/ Goto("watcher", "init", "init_push") \/ Goto("watcher", "scan", "scan_push")
  /\ changes' = changes + 1
  /\ UNCHANGED <<actions, running_, has_exception_occurred>>

WatcherPush ==
  /\ \/ Goto("watcher", "init_push", "init") \/ Goto("watcher", "scan_push", "scan")
  /\ push("file")
  /\ UNCHANGED <<changes, has_exception_occurred>>

WatcherPassEnds ==
  /\ pc.watcher \in {"init", "scan"}
  /\ pc' = [pc EXCEPT !.watcher = IF running_ THEN "sleep" ELSE "done"]
  /\ UNCHANGED <<actions, changes, has_exception_occurred>>

WatcherWakes ==
  /\ ~pause_execution
  /\ Goto("watcher", "sleep", "scan")
  /\ UNCHANGED <<actions, changes, has_exception_occurred>>

\* The file system, under the directory iterator.
WatcherThrows ==
  /\ "scan_error" \in Faults /\ pc.watcher \in {"init", "scan"}
  /\ Fail("watcher")
  /\ UNCHANGED <<actions, changes>>

FileWatcher ==
  /\ WatcherFinds \/ WatcherPush \/ WatcherPassEnds \/ WatcherWakes \/ WatcherThrows
  /\ UNCHANGED <<isTerminated, running_, pause_execution, answers, link, server, restores, mainVars>>

-----------------------------------------------------------------------------
\* The action consumer.  Its program counter is the action it is to send.

\* What is written reaches the server.  Behind the header of a restore, without
\* its date, it is taken for the date, and from then on the server can answer or
\* not (ClientHandler.cpp:334-337).
Writes(item) ==
  /\ link \in {"up", "unread"}
  /\ server' = CASE server # "reads"  -> "garbled"
                  [] item = "restore"  -> "date"
                  [] OTHER             -> "reads"
  /\ IF server = "reads" THEN answers' = Append(answers, item)
                         ELSE answers' \in {answers, Append(answers, item)}

\* What comes of an action: it is sent, or it is not, because it is ignored or
\* its file is too large, or its file is not there.
Prepared(item) ==
  CASE item = "restore" -> {"restore"}
    [] item = "file"    -> {"file", "loop"} \cup (IF "file_vanish" \in Faults THEN {"vanished"} ELSE {})

ConsumerPop ==
  /\ pc.consumer = "pop"
  /\ \/ /\ actions # <<>>
        /\ \E next \in Prepared(Head(actions)) : pc' = [pc EXCEPT !.consumer = next]
        /\ actions' = Tail(actions)
     \/ /\ actions = <<>> /\ isTerminated
        /\ pc' = [pc EXCEPT !.consumer = "drained"]
        /\ UNCHANGED actions
  /\ UNCHANGED <<answers, server, has_exception_occurred>>

\* The writes of send_action.
ConsumerSend ==
  /\ pc.consumer \in {"file", "restore"} /\ Writes(pc.consumer)
  /\ pc' = [pc EXCEPT !.consumer = "loop"]
  /\ UNCHANGED <<actions, has_exception_occurred>>

\* The flag is looked at after an action, and before the quit.
ConsumerLoop ==
  /\ \/ Goto("consumer", "loop", IF has_exception_occurred THEN "done" ELSE "pop")
     \/ Goto("consumer", "drained", IF has_exception_occurred THEN "done" ELSE "quit")
  /\ UNCHANGED <<actions, answers, server, has_exception_occurred>>

ConsumerQuit ==
  /\ Goto("consumer", "quit", "done")
  /\ Writes("finish")
  /\ UNCHANGED <<actions, has_exception_occurred>>

ConsumerThrows ==
  /\ \/ pc.consumer \in {"file", "restore", "quit"} /\ link = "lost"
     \/ pc.consumer = "vanished"
  /\ Fail("consumer")
  /\ UNCHANGED <<actions, answers, server>>

ActionsConsumer ==
  /\ ConsumerPop \/ ConsumerSend \/ ConsumerLoop \/ ConsumerQuit \/ ConsumerThrows
  /\ UNCHANGED <<isTerminated, running_, pause_execution, link, changes, restores, mainVars>>

-----------------------------------------------------------------------------
\* The response consumer.

ResponderLoop ==
  /\ Goto("responder", "loop", IF has_exception_occurred THEN "done" ELSE "read")
  /\ UNCHANGED <<answers, link, server, pause_execution, has_exception_occurred>>

ReadResponse ==
  /\ pc.responder = "read" /\ answers # <<>>
  /\ answers' = Tail(answers)
  /\ pc' = [pc EXCEPT !.responder = CASE Head(answers) = "file"    -> "loop"
                                      [] Head(answers) = "restore" -> "pause"
                                      [] Head(answers) = "finish"  -> "done"]
  /\ UNCHANGED <<link, server, pause_execution, has_exception_occurred>>

\* fileWatcher.pause() takes the mutex that a scan holds; then the date is written.
action_restore ==
  /\ ~Scanning
  /\ Goto("responder", "pause", "restore")
  /\ pause_execution' = TRUE
  /\ server' = IF server = "date" THEN "reads" ELSE server
  /\ UNCHANGED <<answers, link, has_exception_occurred>>

RestoreDone ==
  /\ link = "up"
  /\ Goto("responder", "restore", "loop")
  /\ pause_execution' = FALSE
  /\ UNCHANGED <<answers, link, server, has_exception_occurred>>

\* The catch of action_restore removes the temporary directory, which can throw
\* again, and then restarts the watcher.  Nobody reads what is left of the restore.
RestoreThrows ==
  /\ pc.responder = "restore"
  /\ link = "lost" \/ "restore_io" \in Faults
  /\ link' = IF link = "up" THEN "unread" ELSE link
  /\ \/ pause_execution' = FALSE
     \/ "restore_cleanup" \in Faults /\ UNCHANGED pause_execution
  /\ Fail("responder")
  /\ UNCHANGED <<answers, server>>

ResponderThrows ==
  /\ pc.responder = "read" /\ link = "lost"
  /\ Fail("responder")
  /\ UNCHANGED <<answers, link, server, pause_execution>>

\* What the server sends need not be what the restore waits for.
RestoreAstray == pc.responder = "restore" /\ server = "garbled" /\ link # "lost"

ResponseConsumer ==
  /\ \/ ResponderLoop \/ ReadResponse \/ action_restore
     \/ RestoreDone \/ RestoreThrows \/ ResponderThrows
  /\ UNCHANGED <<actions, isTerminated, running_, changes, restores, mainVars>>

-----------------------------------------------------------------------------
\* The input watcher polls stdin for POLLING_DELAY, and the flag in between.

InputKeeps ==
  UNCHANGED <<isTerminated, running_, pause_execution, answers, link, server, changes, mainVars>>

\* The user types a command, and is in a dialogue;
InputCommand ==
  /\ \/ Goto("input", "poll", "quit?") /\ UNCHANGED restores
     \/ /\ restores < MaxRestores
        /\ Goto("input", "poll", "restore?")
        /\ restores' = restores + 1
  /\ UNCHANGED <<actions, has_exception_occurred>> /\ InputKeeps

\* he takes the command back,
InputTakenBack ==
  /\ pc.input \in {"quit?", "restore?"}
  /\ pc' = [pc EXCEPT !.input = "loop"]
  /\ UNCHANGED <<actions, has_exception_occurred, restores>> /\ InputKeeps

\* or goes through with it.  Both wait in getline for as long as he does.
command_quit ==
  /\ Goto("input", "quit?", "done")
  /\ UNCHANGED <<actions, has_exception_occurred, restores>> /\ InputKeeps

command_restore ==
  /\ Goto("input", "restore?", "push")
  /\ UNCHANGED <<actions, has_exception_occurred, restores>> /\ InputKeeps

User == InputCommand \/ InputTakenBack \/ command_quit \/ command_restore

\* The end of command_restore.
InputPush ==
  /\ Goto("input", "push", "loop") /\ push("restore")
  /\ UNCHANGED has_exception_occurred

\* The poll times out.
InputNothing ==
  /\ Goto("input", "poll", "loop")
  /\ UNCHANGED <<actions, has_exception_occurred>>


InputLoop ==
  /\ Goto("input", "loop", IF has_exception_occurred THEN "done" ELSE "poll")
  /\ UNCHANGED <<actions, has_exception_occurred>>

InputThrows ==
  /\ "stdin" \in Faults /\ pc.input = "poll"
  /\ Fail("input")
  /\ UNCHANGED actions

InputWatcher ==
  /\ InputNothing \/ InputLoop \/ InputPush \/ InputThrows
  /\ UNCHANGED restores /\ InputKeeps

-----------------------------------------------------------------------------
\* The main thread.

MainKeeps == UNCHANGED <<actions, has_exception_occurred, pause_execution, answers, link,
                         server, changes, restores, mainVars>>

\* login and get_init_file_from_server, which fail without a connection; then
\* the threads are started.
Client ==
  /\ pc.main = "connect"
  /\ \/ pc' = [main |-> "join_input", watcher |-> "init", consumer |-> "pop",
               responder |-> "loop", input |-> "poll"]
     \/ "disconnect" \in Faults /\ pc' = [pc EXCEPT !.main = "catch"]
  /\ UNCHANGED <<isTerminated, running_>> /\ MainKeeps

\* err = future.get(); if (err) throw
Join(t, here, next) ==
  /\ pc.main = here /\ Ended(t)
  /\ pc' = [pc EXCEPT !.main = IF pc[t] = "failed" THEN "unwind" ELSE next]

\* Mutant: the buffer is terminated before the file watcher has returned.
JoinTerminatesFirst ==
  \/ /\ Join("input", "join_input", "join_watcher")
     /\ running_' = FALSE /\ isTerminated' = TRUE
  \/ Join("watcher", "join_watcher", "join_consumer") /\ UNCHANGED <<running_, isTerminated>>
  \/ Join("consumer", "join_consumer", "join_responder") /\ UNCHANGED <<running_, isTerminated>>
  \/ Join("responder", "join_responder", "shutdown") /\ UNCHANGED <<running_, isTerminated>>


join_threads ==
  \/ /\ Join("input", "join_input", "join_watcher")
     /\ running_' = (pc.input = "failed")
     /\ UNCHANGED isTerminated
  \/ /\ Join("watcher", "join_watcher", "join_consumer")
     /\ isTerminated' = (pc.watcher = "done")
     /\ UNCHANGED running_
  \/ Join("consumer", "join_consumer", "join_responder") /\ UNCHANGED <<running_, isTerminated>>
  \/ Join("responder", "join_responder", "shutdown") /\ UNCHANGED <<running_, isTerminated>>

JoinThreads == join_threads /\ MainKeeps

\* The destructors of the futures.
Unwind ==
  /\ \A t \in {"watcher", "consumer", "responder", "input"} : Ended(t)
  /\ Goto("main", "unwind", "catch")
  /\ UNCHANGED <<isTerminated, running_>> /\ MainKeeps

\* socket_.shutdown throws on a connection that is gone.
Shutdown ==
  /\ \/ Goto("main", "shutdown", "exit")
     \/ link = "lost" /\ Goto("main", "shutdown", "catch")
  /\ UNCHANGED <<isTerminated, running_>> /\ MainKeeps

\* Mutant: the attempts left are never made up.
NextAttemptNoReset(soon) == try_again - 1
NextAttempt(soon) == (IF soon THEN try_again ELSE TRY_AGAIN_ATTEMPTS) - 1

\* The catch of main: soon is whether the last failure is at most
\* TRY_AGAIN_ATTEMPTS_RESET_SECONDS old; there is none before the first.
Catch ==
  /\ pc.main = "catch"
  /\ \E soon \in IF streak = 0 THEN {FALSE} ELSE BOOLEAN :
       /\ try_again' = NextAttempt(soon)
       /\ streak' = IF soon THEN streak + 1 ELSE 1
  /\ pc' = [Unstarted EXCEPT !.main = "retry"]
  /\ UNCHANGED clientVars

\* Mutant: while (!exit).
RetryForever == "connect"
GoOn == IF try_again = 0 THEN "gave_up" ELSE "connect"

\* The members of the Client of the next attempt.
Retry ==
  /\ pc.main = "retry"
  /\ pc' = [Unstarted EXCEPT !.main = GoOn]
  /\ actions' = <<>> /\ isTerminated' = FALSE
  /\ has_exception_occurred' = FALSE
  /\ running_' = TRUE /\ pause_execution' = FALSE
  /\ answers' = <<>> /\ link' = "up" /\ server' = "reads"
  /\ changes' = 0 /\ restores' = 0
  /\ UNCHANGED mainVars

Main == JoinThreads \/ Unwind \/ Shutdown \/ Catch \/ Retry

LinkVars == UNCHANGED <<pc, actions, isTerminated, has_exception_occurred, running_,
                        pause_execution, answers, server, changes, restores, mainVars>>

\* The connection is lost; a garbled server can also close it.
Disconnect ==
  /\ "disconnect" \in Faults \/ server = "garbled"
  /\ link # "lost" /\ pc.main # "connect"
  /\ link' = "lost"
  /\ LinkVars

\* The server is stuck in a write that nobody reads, or waits for what does not
\* come, and so do the client's writes.
BuffersFill ==
  /\ link = "unread" \/ (link = "up" /\ server = "garbled")
  /\ link' = "full"
  /\ LinkVars

Next ==
  \/ FileWatcher \/ ActionsConsumer \/ ResponseConsumer \/ User \/ InputWatcher
  \/ Client \/ Main \/ Disconnect \/ BuffersFill

Spec == Init /\ [][Next]_vars

\* Every thread that can go on does, and a garbled server need not.  Nothing is
\* assumed of the user, whom the dialogues and the login wait for, of the
\* connection or the other faults.
FairSpec ==
  /\ Spec
  /\ WF_vars(FileWatcher) /\ WF_vars(ActionsConsumer)
  /\ WF_vars(ResponseConsumer /\ ~RestoreAstray)
  /\ WF_vars(InputWatcher) /\ WF_vars(Main)

-----------------------------------------------------------------------------
Pcs ==
  [main : {"connect", "join_input", "join_watcher", "join_consumer", "join_responder",
           "shutdown", "unwind", "catch", "retry", "exit", "gave_up"},
   watcher : {"init", "init_push", "sleep", "scan", "scan_push", "done", "failed"},
   consumer : {"pop", "file", "vanished", "restore", "loop", "drained", "quit", "done", "failed"},
   responder : {"loop", "read", "pause", "restore", "done", "failed"},
   input : {"poll", "quit?", "restore?", "loop", "push", "done", "failed"}]

TypeOK ==
  /\ pc \in Pcs
  /\ actions \in Seq({"file", "restore"}) /\ Len(actions) <= Capacity
  /\ isTerminated \in BOOLEAN /\ has_exception_occurred \in BOOLEAN
  /\ running_ \in BOOLEAN /\ pause_execution \in BOOLEAN
  /\ answers \in Seq({"file", "restore", "finish"}) /\ link \in {"up", "unread", "full", "lost"}
  /\ server \in {"reads", "date", "garbled"}
  /\ changes \in 0 .. MaxChanges /\ restores \in 0 .. MaxRestores
  /\ try_again \in 0 .. TRY_AGAIN_ATTEMPTS /\ streak \in Nat

\* What join_threads relies on: a buffer that is terminated gets no more
\* actions, so that the quit which the consumer sends is behind all of them.
QuitIsLast ==
  /\ isTerminated => Ended("watcher") /\ Ended("input")
  /\ pc.consumer \in {"drained", "quit", "done"} /\ ~has_exception_occurred => actions = <<>>


\* main.cpp:31-32, 48: the program gives up when that many attempts have failed
\* in a row, each soon after the last one, and not before.
GivesUpInTime ==
  pc.main = "gave_up" <=> (pc.main \notin {"catch", "retry"} /\ streak = TRY_AGAIN_ATTEMPTS)

InDialogue == pc.input \in {"quit?", "restore?"}

\* Client.cpp:198-203: if an error occurs in a thread, all the others return, so
\* that the main thread can execute the join; once no dialogue is open.
ThreadsReturn == has_exception_occurred ~> (pc.main \in {"catch", "retry"} \/ InDialogue)

\* The ways in which the threads do not return: a user who stays in a dialogue,
\* which unlike the first letter of a command is not polled for;
\* a push on a full buffer that nobody empties,
FullForGood ==
  /\ Len(actions) = Capacity /\ Ended("consumer")
  /\ pc.watcher \in {"init_push", "scan_push"} \/ pc.input = "push"
\* a write to a server that does not read,
WriteBlocked == pc.consumer \in {"file", "restore", "quit"} /\ link = "full"
\* a read on a connection on which nothing will come,
NothingToRead ==
  \/ pc.responder = "read" /\ link # "lost" /\ answers = <<>> /\ Ended("consumer")
  \/ RestoreAstray
\* a file watcher that was left paused,
LeftPaused == pause_execution /\ Ended("responder") /\ pc.watcher = "sleep"
\* and an exception of join_threads before it has stopped the file watcher or
\* terminated the buffer.
NotTold ==
  /\ pc.main = "unwind"
  /\ \/ running_ /\ ~Ended("watcher")
     \/ ~isTerminated /\ pc.consumer = "pop"

Stuck ==
  InDialogue \/ FullForGood \/ WriteBlocked \/ NothingToRead \/ LeftPaused \/ NotTold

=============================================================================
