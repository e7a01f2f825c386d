--------------------------- MODULE BackupSession ----------------------------
(***************************************************************************)
(* One connection between a client and the server, from the end of the     *)
(* initialisation to the end of the session:                               *)
(*   - the action consumer of Client.cpp pops actions and sends them;      *)
(*   - the response consumer of Client.cpp reads the answers, and runs a   *)
(*     restore when it reads that the server has received one;             *)
(*   - the handler of ClientHandler.cpp reads and executes actions;        *)
(*   - DailyBackup is the database (Database.tla implements it).           *)
(* The two client threads share the socket, and the server cannot tell     *)
(* whose bytes it reads: it takes what comes next for what it expects.     *)
(*                                                                         *)
(* A frame is what one side writes at once.  A response is two integers,   *)
(* a restore is an integer, that many entries and a response, so that the  *)
(* client reads the wrong thing exactly where the code would.              *)
(***************************************************************************)
EXTENDS Integers, Sequences, FiniteSets, SequencesExt

CONSTANTS
  Path, Hash, LastDay, None,
  Before,      \* what earlier sessions left in the backup: [filename, hash]
  Leftover,    \* what a client that was killed in a restore left in the folder of
               \* the next one: [filename, hash]
  Pushed,      \* the types of the actions that are pushed
  MaxActions,  \* bound on the number of actions
  Faults,      \* what can go wrong, see the actions
  QuietRestore \* nothing is pushed while a restore is pending, and the user
               \* does not quit

FileAction == {"read_file", "create_folder", "delete_path", "ignore"}
Action == [type : FileAction, path : Path, date : {None}]
          \cup [type : {"restore"}, path : {None}, date : 0 .. LastDay]
Quit == [type |-> "quit", path |-> None, date |-> None]

ASSUME SessionAssumption ==
  /\ Pushed \subseteq FileAction \cup {"restore"}
  /\ MaxActions \in Nat /\ LastDay \in Nat /\ IsFiniteSet(Before)
  /\ Faults \subseteq {"disconnect", "db_write", "db_read", "too_large",
                       "file_vanish", "file_change", "restore_io"}
  /\ None \notin Action \cup Hash \cup (0 .. LastDay)

VARIABLES
  actions, isTerminated, pushed,        \* Buffer.h, and the actions pushed so far
  responseMap, current_index,           \* ResponseBuffer.h
  consumer, responder,                  \* the two threads of the client
  has_exception_occurred,
  folder, tmp_dir,                      \* the folder that is restored, and the one it is
                                        \* built in
  toServer, toClient, link,             \* the connection
  handler,                              \* the thread of the server
  backup, edited, today, current_date, req, result,  \* the database
  log                                   \* for each index, what became of the action

bufferVars == <<actions, isTerminated, pushed>>
responseVars == <<responseMap, current_index>>
diskVars == <<folder, tmp_dir>>
dbVars == <<backup, edited, today, current_date, req, result>>
clientVars == <<responseVars, consumer, responder, has_exception_occurred, diskVars>>
netVars == <<toServer, toClient, link>>
vars == <<bufferVars, clientVars, netVars, handler, dbVars, log>>

responses == INSTANCE ResponseBuffer
db == INSTANCE DailyBackup WITH Session <- {"handler"}

\* The values of enum ActionStatus that travel.
received == 2
completed == 3
error == 4
finish == 5

Int32(n) == [kind |-> "int", n |-> n]
Response(index, status) == <<Int32(index), Int32(status)>>
EntryFrame(e) == [kind |-> "entry", entry |-> e]

Gone == [index |-> None, content |-> {}]

Init ==
  /\ actions = <<>> /\ isTerminated = FALSE /\ pushed = 0
  /\ responses!Init
  /\ consumer = [pc |-> "pop", action |-> None, index |-> 0]
  /\ responder = [pc |-> "loop", index |-> 0, left |-> 0]
  /\ has_exception_occurred = FALSE
  /\ folder = Gone /\ tmp_dir = Leftover
  /\ toServer = <<>> /\ toClient = <<>> /\ link = "up"
  /\ handler = [pc |-> "read", index |-> 0, action |-> None, hash |-> None]
  /\ backup = [d \in 0 .. LastDay |-> Before]
  /\ edited = [p \in Path |-> {0 : e \in {e \in Before : e.filename = p}}]
  /\ today = 0
  /\ current_date = [s \in {"handler"} |-> None]
  /\ req = [s \in {"handler"} |-> None]
  /\ result = [s \in {"handler"} |-> "none"]
  /\ log = <<>>

-----------------------------------------------------------------------------
\* The producers of Buffer.h and the main thread.

RestorePending ==
  \/ \E i \in 1 .. Len(actions) : actions[i].type = "restore"
  \/ consumer.action # None /\ consumer.action.type = "restore"
  \/ \E i \in DOMAIN responseMap : responses!IsRestore(i)

push(a) ==
  /\ ~isTerminated /\ pushed < MaxActions
  /\ QuietRestore => ~RestorePending
  /\ pushed' = pushed + 1
  /\ actions' = Append(actions, a)
  /\ UNCHANGED <<isTerminated, clientVars, netVars, handler, dbVars, log>>

\* join_threads calls terminate when the user has quit, or when a thread has
\* failed (and not always then: ClientThreads).
terminate ==
  /\ ~isTerminated
  /\ QuietRestore => ~RestorePending \/ has_exception_occurred
  /\ isTerminated' = TRUE
  /\ UNCHANGED <<actions, pushed, clientVars, netVars, handler, dbVars, log>>

Disconnect ==
  /\ "disconnect" \in Faults
  /\ link = "up" /\ link' = "lost"
  /\ UNCHANGED <<bufferVars, clientVars, toServer, toClient, handler, dbVars, log>>

\* A write on a connection that is gone may still be taken by the kernel.
WriteToServer(fs) == toServer' = IF link = "up" THEN toServer \o fs ELSE toServer
WriteToClient(fs) == toClient' = IF link = "up" THEN toClient \o fs ELSE toClient

-----------------------------------------------------------------------------
\* The action consumer: Client.cpp, the lambda of actionsConsumer, send_action
\* and send_file.

OthersKeep == UNCHANGED <<responder, diskVars, toClient, link, handler, dbVars>>
ConsumerKeeps == UNCHANGED <<bufferVars, has_exception_occurred>> /\ OthersKeep
ConsumerGoto(pc) == consumer' = [consumer EXCEPT !.pc = pc]
ActionDone == consumer' = [pc |-> "loop", action |-> None, index |-> 0]

\* Mutant: a terminated buffer gives up the actions still queued.
PopUnlessTerminated ==
  /\ consumer.pc = "pop"
  /\ \/ /\ actions # <<>> /\ ~isTerminated
        /\ actions' = Tail(actions)
        /\ consumer' = [consumer EXCEPT !.pc = "add", !.action = Head(actions)]
     \/ /\ isTerminated
        /\ ConsumerGoto(IF has_exception_occurred THEN "done" ELSE "quit")
        /\ UNCHANGED actions
  /\ UNCHANGED <<isTerminated, pushed, responseVars, has_exception_occurred, toServer, log>>
  /\ OthersKeep

pop ==
  /\ consumer.pc = "pop"
  /\ \/ /\ actions # <<>>
        /\ actions' = Tail(actions)
        /\ consumer' = [consumer EXCEPT !.pc = "add", !.action = Head(actions)]
     \/ /\ actions = <<>> /\ isTerminated
        /\ ConsumerGoto(IF has_exception_occurred THEN "done" ELSE "quit")
        /\ UNCHANGED actions
  /\ UNCHANGED <<isTerminated, pushed, responseVars, has_exception_occurred, toServer, log>>
  /\ OthersKeep

\* while (action.has_value() && !has_exception_occurred.load())
ConsumerLoop ==
  /\ consumer.pc = "loop"
  /\ ConsumerGoto(IF has_exception_occurred THEN "done" ELSE "pop")
  /\ UNCHANGED <<responseVars, toServer, log>> /\ ConsumerKeeps

send_action_add ==
  /\ consumer.pc = "add"
  /\ responses!add(consumer.action)
  /\ consumer' = [consumer EXCEPT !.pc = "check", !.index = current_index]
  /\ log' = Append(log, [action |-> consumer.action, hash |-> None, outcome |-> "none"])
  /\ UNCHANGED toServer /\ ConsumerKeeps

\* An ignored action is completed on the spot, a file that is too large is an
\* error on the spot, and the others are ready to be sent.
send_action_check ==
  /\ consumer.pc = "check"
  /\ \/ /\ consumer.action.type = "ignore"
        /\ responses!completed(consumer.index)
        /\ ActionDone
        /\ log' = [log EXCEPT ![consumer.index + 1].outcome = "ignored"]
     \/ /\ consumer.action.type = "read_file" /\ "too_large" \in Faults
        /\ responses!signal_error(consumer.index)
        /\ ActionDone
        /\ log' = [log EXCEPT ![consumer.index + 1].outcome = "refused"]
     \/ /\ consumer.action.type # "ignore"
        /\ ConsumerGoto("header")
        /\ UNCHANGED <<responseVars, log>>
  /\ UNCHANGED toServer /\ ConsumerKeeps

send_action_header ==
  /\ consumer.pc = "header"
  /\ WriteToServer(<<[kind |-> "action", index |-> consumer.index, action |-> consumer.action]>>)
  /\ IF consumer.action.type = "read_file" THEN ConsumerGoto("size") ELSE ActionDone
  /\ UNCHANGED <<responseVars, log>> /\ ConsumerKeeps

send_file_size ==
  /\ consumer.pc = "size"
  /\ WriteToServer(<<[kind |-> "size"]>>)
  /\ ConsumerGoto("content")
  /\ UNCHANGED <<responseVars, log>> /\ ConsumerKeeps

ContentFrame(h) == [kind |-> "content", hash |-> h]
PartFrame == [kind |-> "part"]        \* fewer bytes than were announced
GarbageFrame == [kind |-> "garbage"]  \* bytes that no one means to send

\* Mutant: the last, incomplete, block of the file is not sent.
SendFileShort ==
  /\ consumer.pc = "content"
  /\ WriteToServer(<<PartFrame>>)
  /\ \E h \in Hash : log' = [log EXCEPT ![consumer.index + 1].hash = h]
  /\ ActionDone
  /\ UNCHANGED responseVars /\ ConsumerKeeps

\* The loop of send_file reads to the end of the file.  If the file has shrunk
\* or grown since tellg, that is not the number of bytes announced.
send_file_content ==
  /\ consumer.pc = "content"
  /\ \E h \in Hash :
       /\ \/ WriteToServer(<<ContentFrame(h)>>)
          \/ /\ "file_change" \in Faults
             /\ WriteToServer(<<PartFrame>>) \/ WriteToServer(<<ContentFrame(h), GarbageFrame>>)
       /\ log' = [log EXCEPT ![consumer.index + 1].hash = h]
  /\ ActionDone
  /\ UNCHANGED responseVars /\ ConsumerKeeps

\* Mutant: the server is not told that the client quits.
SendNoQuit ==
  /\ consumer.pc = "quit"
  /\ ConsumerGoto("done")
  /\ UNCHANGED <<responseVars, toServer, log>> /\ ConsumerKeeps

send_quit ==
  /\ consumer.pc = "quit"
  /\ WriteToServer(<<[kind |-> "action", index |-> 0, action |-> Quit]>>)
  /\ ConsumerGoto("done")
  /\ UNCHANGED <<responseVars, log>> /\ ConsumerKeeps

\* A write fails, or the file system on what was there when it was scanned: the
\* exception ends the thread.
ConsumerThrows ==
  /\ \/ consumer.pc \in {"header", "size", "content", "quit"} /\ link # "up"
     \/ /\ "file_vanish" \in Faults
        /\ \/ consumer.pc = "check" /\ consumer.action.type \in {"read_file", "create_folder"}
           \/ consumer.pc = "size"
  /\ ConsumerGoto("failed")
  /\ has_exception_occurred' = TRUE
  /\ UNCHANGED <<bufferVars, responseVars, toServer, log>> /\ OthersKeep

ActionsConsumer ==
  \/ pop \/ ConsumerLoop \/ send_action_add \/ send_action_check \/ send_action_header
  \/ send_file_size \/ send_file_content \/ send_quit \/ ConsumerThrows

-----------------------------------------------------------------------------
\* The response consumer: Client.cpp, the lambda of responseConsumer and
\* action_restore.

ResponderKeeps == UNCHANGED <<bufferVars, consumer, has_exception_occurred,
                              link, handler, dbVars, log>>
ResponderIdle(pc) == responder' = [pc |-> pc, index |-> 0, left |-> 0]
ResponderGoto(pc) == responder' = [responder EXCEPT !.pc = pc]
RestInput(n) == SubSeq(toClient, n + 1, Len(toClient))

ResponderLoop ==
  /\ responder.pc = "loop"
  /\ ResponderGoto(IF has_exception_occurred THEN "done" ELSE "read")
  /\ UNCHANGED <<responseVars, diskVars, toServer, toClient>> /\ ResponderKeeps

\* The switch on action_status.
Dispatch(index, status) ==
  CASE status = completed -> responses!completed(index)
    [] status = received  -> responses!receive(index)
    [] status = error     -> responses!signal_error(index)
    [] OTHER              -> UNCHANGED responseVars

ReadResponse ==
  /\ responder.pc = "read"
  /\ Len(toClient) >= 2
  /\ toClient' = RestInput(2)
  /\ IF toClient[1].kind # "int" \/ toClient[2].kind # "int"
     THEN ResponderGoto("garbled") /\ UNCHANGED responseVars
     ELSE LET index == toClient[1].n
              status == toClient[2].n IN
          IF status = received /\ responses!IsRestore(index)
          THEN /\ responder' = [responder EXCEPT !.pc = "date", !.index = index]
               /\ UNCHANGED responseVars
          ELSE /\ Dispatch(index, status)
               /\ ResponderGoto(IF status = finish THEN "done" ELSE "loop")
  /\ UNCHANGED <<diskVars, toServer>> /\ ResponderKeeps

\* output_buf and the socket are shared with the action consumer and nothing
\* guards them: if that thread writes too, what goes out is neither's frame.
action_restore_date ==
  /\ responder.pc = "date"
  /\ \E f \in {[kind |-> "date", date |-> responseMap[responder.index].action.date]} \cup
              {g \in {GarbageFrame} : consumer.pc \in {"header", "size", "content", "quit"}} :
       WriteToServer(<<f>>)
  /\ ResponderGoto("count")
  /\ UNCHANGED <<responseVars, diskVars, toClient>> /\ ResponderKeeps

action_restore_count ==
  /\ responder.pc = "count"
  /\ toClient # <<>>
  /\ toClient' = RestInput(1)
  /\ responder' = IF Head(toClient).kind = "int"
                  THEN [responder EXCEPT !.pc = "entries", !.left = Head(toClient).n]
                  ELSE [responder EXCEPT !.pc = "garbled"]
  /\ UNCHANGED <<responseVars, diskVars, toServer>> /\ ResponderKeeps

action_restore_entry ==
  /\ responder.pc = "entries" /\ responder.left > 0
  /\ toClient # <<>>
  /\ toClient' = RestInput(1)
  /\ IF Head(toClient).kind = "entry"
     THEN /\ responder' = [responder EXCEPT !.left = @ - 1]
          /\ tmp_dir' = tmp_dir \cup {Head(toClient).entry}
     ELSE ResponderGoto("garbled") /\ UNCHANGED tmp_dir
  /\ UNCHANGED <<responseVars, folder, toServer>> /\ ResponderKeeps

\* Mutant: the loop over the entries stops one short.
RemoveOneShort ==
  /\ responder.pc = "entries" /\ responder.left <= 1
  /\ ResponderGoto("rename")
  /\ folder' = Gone
  /\ UNCHANGED <<responseVars, tmp_dir, toServer, toClient>> /\ ResponderKeeps

\* remove_all(user_path),
action_restore_remove ==
  /\ responder.pc = "entries" /\ responder.left = 0
  /\ ResponderGoto("rename")
  /\ folder' = Gone
  /\ UNCHANGED <<responseVars, tmp_dir, toServer, toClient>> /\ ResponderKeeps

\* rename(tmp_dir, user_path); back in the loop of the thread, the switch marks
\* the restore as received.
action_restore_rename ==
  /\ responder.pc = "rename"
  /\ folder' = [index |-> responder.index, content |-> tmp_dir] /\ tmp_dir' = {}
  /\ Dispatch(responder.index, received)
  /\ ResponderIdle("loop")
  /\ UNCHANGED <<toServer, toClient>> /\ ResponderKeeps

\* A read fails when the connection is lost, or closed and read to its end; a
\* write fails when it is gone; a restore fails on the client's file system, and
\* removes what it had built.
ResponderThrows ==
  /\ \/ responder.pc \in {"read", "date", "count", "entries"} /\ link = "lost"
     \/ responder.pc = "read" /\ link = "closed" /\ Len(toClient) < 2
     \/ responder.pc = "date" /\ link = "closed"
     \/ responder.pc \in {"count", "entries"} /\ link = "closed" /\ toClient = <<>>
     \/ responder.pc \in {"entries", "rename"} /\ "restore_io" \in Faults
  /\ ResponderIdle("failed")
  /\ has_exception_occurred' = TRUE
  /\ tmp_dir' = IF responder.pc = "read" THEN tmp_dir ELSE {}
  /\ UNCHANGED <<bufferVars, responseVars, consumer, folder, netVars, handler, dbVars, log>>

ResponseConsumer ==
  \/ ResponderLoop \/ ReadResponse \/ action_restore_date \/ action_restore_count
  \/ action_restore_entry \/ action_restore_remove \/ action_restore_rename \/ ResponderThrows

-----------------------------------------------------------------------------
\* The server: ClientHandler.cpp, read_action and the actions it calls.

HandlerKeeps == UNCHANGED <<bufferVars, clientVars>>
Input == Head(toServer)
ReadFrame == toServer # <<>> /\ toServer' = Tail(toServer)
ToRead == handler' = [pc |-> "read", index |-> 0, action |-> None, hash |-> None]

read_action ==
  /\ handler.pc = "read"
  /\ ReadFrame
  /\ \/ /\ Input.kind = "action" /\ Input.action # Quit
        /\ WriteToClient(Response(Input.index, received))
        /\ db!Begin("handler")
        /\ handler' = [handler EXCEPT
             !.index = Input.index, !.action = Input.action,
             !.pc = CASE Input.action.type = "read_file" -> "size"
                      [] Input.action.type = "restore"   -> "date"
                      [] OTHER                           -> "addAction"]
        /\ UNCHANGED link
     \/ /\ Input.kind = "action" /\ Input.action = Quit
        /\ WriteToClient(Response(0, finish))
        /\ handler' = [handler EXCEPT !.pc = "closed"]
        /\ link' = IF link = "up" THEN "closed" ELSE link
        /\ UNCHANGED dbVars
     \/ /\ Input.kind # "action"
        /\ handler' = [handler EXCEPT !.pc = "garbled"]
        /\ UNCHANGED <<toClient, link, dbVars>>
  /\ UNCHANGED log /\ HandlerKeeps

read_file_size ==
  /\ handler.pc = "size"
  /\ ReadFrame
  /\ handler' = [handler EXCEPT !.pc = IF Input.kind = "size" THEN "content" ELSE "garbled"]
  /\ UNCHANGED <<toClient, link, dbVars, log>> /\ HandlerKeeps

\* As many bytes as were announced.  What is missing is made up from the next
\* frame, and what is left of that frame is taken for a header.
read_file_content ==
  /\ handler.pc = "content"
  /\ \/ /\ ReadFrame
        /\ Input.kind = "content"
        /\ handler' = [handler EXCEPT !.pc = "addAction", !.hash = Input.hash]
     \/ /\ ReadFrame
        /\ Input.kind \notin {"content", "part"}
        /\ handler' = [handler EXCEPT !.pc = "garbled"]
     \/ /\ Len(toServer) >= 2 /\ Input.kind = "part"
        /\ \/ /\ toServer' = <<PartFrame>> \o Tail(Tail(toServer))
              /\ UNCHANGED handler
           \/ /\ toServer' = <<GarbageFrame>> \o Tail(Tail(toServer))
              /\ handler' = [handler EXCEPT !.pc = "addAction", !.hash = "mixed"]
  /\ UNCHANGED <<toClient, link, dbVars, log>> /\ HandlerKeeps

\* Mutant: a deletion is stored with the code of a file.
EditOfAsFile(a, h) ==
  CASE a.type = "read_file"     -> [action |-> "read_file", hash |-> h]
    [] a.type = "create_folder" -> [action |-> "create_folder", hash |-> "dir"]
    [] a.type = "delete_path"   -> [action |-> "read_file", hash |-> ""]

EditOf(a, h) ==
  CASE a.type = "read_file"     -> [action |-> "read_file", hash |-> h]
    [] a.type = "create_folder" -> [action |-> "create_folder", hash |-> "dir"]
    [] a.type = "delete_path"   -> [action |-> "delete_path", hash |-> ""]

addAction ==
  /\ handler.pc = "addAction"
  /\ db!Ask("handler", handler.action.path, EditOf(handler.action, handler.hash))
  /\ handler' = [handler EXCEPT !.pc = "execute"]
  /\ UNCHANGED <<toServer, toClient, link, log>> /\ HandlerKeeps

\* Mutant: the client is told before the database is.
RespondCompletedAnyway ==
  /\ handler.pc = "execute"
  /\ \/ db!Apply("handler") /\ log' = [log EXCEPT ![handler.index + 1].outcome = "stored"]
     \/ /\ "db_write" \in Faults /\ db!Refuse("handler")
        /\ log' = [log EXCEPT ![handler.index + 1].outcome = "refused"]
  /\ WriteToClient(Response(handler.index, completed))
  /\ ToRead
  /\ UNCHANGED <<toServer, link>> /\ HandlerKeeps

\* addAction returns and the client is told; or it throws, and the catch of
\* read_action tells the client of an error.
execute ==
  /\ handler.pc = "execute"
  /\ \/ /\ db!Apply("handler")
        /\ WriteToClient(Response(handler.index, completed))
        /\ log' = [log EXCEPT ![handler.index + 1].outcome = "stored"]
     \/ /\ "db_write" \in Faults
        /\ db!Refuse("handler")
        /\ WriteToClient(Response(handler.index, error))
        /\ log' = [log EXCEPT ![handler.index + 1].outcome = "refused"]
  /\ ToRead
  /\ UNCHANGED <<toServer, link>> /\ HandlerKeeps

\* The snapshot of a date, in the order it is sent.  The digits of a header,
\* taken for a date, come before every timestamp.  An error while the rows are
\* fetched ends the loop as the last row does.
getRestoreEntries ==
  LET snapshot == IF Input.kind = "date" THEN backup[Input.date] ELSE {}
  IN  {SetToSeq(rows) : rows \in IF "db_read" \in Faults THEN SUBSET snapshot ELSE {snapshot}}

action_restore ==
  /\ handler.pc = "date"
  /\ ReadFrame
  /\ \/ /\ Input.kind \in {"date", "action"}
        /\ \E entries \in getRestoreEntries :
             WriteToClient(<<Int32(Len(entries))>>
                           \o [i \in 1 .. Len(entries) |-> EntryFrame(entries[i])]
                           \o Response(handler.index, completed))
        /\ log' = [log EXCEPT ![handler.index + 1].outcome = "served"]
        /\ IF Input.kind = "date" THEN ToRead
           ELSE handler' = [handler EXCEPT !.pc = "garbled"]
     \/ /\ Input.kind = "date" /\ "db_read" \in Faults
        /\ WriteToClient(Response(handler.index, error))
        /\ log' = [log EXCEPT ![handler.index + 1].outcome = "refused"]
        /\ ToRead
     \/ /\ Input.kind \notin {"date", "action"}
        /\ handler' = [handler EXCEPT !.pc = "garbled"]
        /\ UNCHANGED <<toClient, log>>
  /\ db!Leave("handler")
  /\ UNCHANGED link /\ HandlerKeeps

\* A read fails: the exception ends the loop and the socket is closed.
HandlerThrows ==
  /\ handler.pc \in {"read", "size", "content", "date", "garbled"}
  /\ link = "lost"
  /\ handler' = [pc |-> "closed", index |-> 0, action |-> None, hash |-> None]
  /\ IF current_date["handler"] = None THEN UNCHANGED dbVars ELSE db!Leave("handler")
  /\ UNCHANGED <<toServer, toClient, link, log>> /\ HandlerKeeps

ClientHandler ==
  \/ read_action \/ read_file_size \/ read_file_content \/ addAction \/ execute
  \/ action_restore \/ HandlerThrows

NextDay ==
  /\ db!NextDay
  /\ UNCHANGED <<bufferVars, clientVars, netVars, handler, log>>

Next ==
  \/ \E a \in Action : a.type \in Pushed /\ push(a)
  \/ terminate \/ Disconnect \/ NextDay
  \/ ActionsConsumer \/ ResponseConsumer \/ ClientHandler

Spec == Init /\ [][Next]_vars

\* Threads that can go on do; the user need not do anything.
FairSpec ==
  /\ Spec
  /\ WF_vars(ActionsConsumer) /\ WF_vars(ResponseConsumer) /\ WF_vars(ClientHandler)

-----------------------------------------------------------------------------
ClientPc == {"loop", "done", "failed"}
Outcome == {"none", "stored", "refused", "served", "ignored"}

TypeOK ==
  /\ actions \in Seq(Action) /\ isTerminated \in BOOLEAN
  /\ pushed \in 0 .. MaxActions
  /\ responses!TypeOK
  /\ consumer \in [pc : ClientPc \cup {"pop", "add", "check", "header", "size", "content", "quit"},
                   action : Action \cup {None}, index : 0 .. MaxActions]
  /\ responder.pc \in ClientPc \cup {"read", "date", "count", "entries", "rename", "garbled"}
  /\ has_exception_occurred \in BOOLEAN
  /\ link \in {"up", "closed", "lost"}
  /\ handler.pc \in {"read", "size", "content", "date", "addAction", "execute", "closed", "garbled"}
  /\ \A i \in 1 .. Len(log) :
       log[i] \in [action : Action, hash : Hash \cup {None}, outcome : Outcome]
  /\ current_index = Len(log)

\* Each side reads what the other wrote for it: no header is taken for a date,
\* no response for a number of entries, and every response is about an action
\* that was listed before it was sent.
InSync ==
  /\ handler.pc # "garbled" /\ responder.pc # "garbled"
  /\ DOMAIN responseMap \subseteq 0 .. current_index - 1

\* What the list of pending actions tells the user is true.  An action that is
\* off the list is in the backup (or needed nothing), and one that is shown as
\* an error is not.
TruthfulPending ==
  \A i \in 1 .. Len(log) :
    /\ i - 1 \notin DOMAIN responseMap => log[i].outcome \in {"stored", "served", "ignored"}
    /\ i - 1 \in DOMAIN responseMap /\ responseMap[i - 1].st = "error"
         => log[i].outcome = "refused"

\* The files that a sequence of sent actions should leave in the backup.
LastStored(actionLog, p) ==
  {i \in DOMAIN actionLog :
     /\ actionLog[i].outcome = "stored" /\ actionLog[i].action.path = p
     /\ \A j \in DOMAIN actionLog : j > i => ~( /\ actionLog[j].outcome = "stored"
                                              /\ actionLog[j].action.path = p )}
Replay(actionLog) ==
  {e \in Before : LastStored(actionLog, e.filename) = {}} \cup
  UNION {{[filename |-> p,
           hash |-> IF actionLog[i].action.type = "create_folder" THEN "dir"
                    ELSE actionLog[i].hash] : i \in {j \in LastStored(actionLog, p) : actionLog[j].action.type # "delete_path"}} :
         p \in Path}

\* The backup is what the actions, replayed in the order they were sent, make
\* of what was there: none is lost, repeated, reordered or given the content of
\* another, whatever failed in between and whenever midnight was.
BackupFollowsActions == backup[LastDay] = Replay(log)

\* A restore of the latest date leaves in its folder what the backup held when
\* the server reached it: all of the actions before it and none after.  Nothing
\* else is there but what was in the temporary folder before.
RestoreFaithful ==
  folder.index # None /\ log[folder.index + 1].action.date = LastDay =>
    LET snapshot == Replay(SubSeq(log, 1, folder.index)) IN
    snapshot \subseteq folder.content /\ folder.content \subseteq snapshot \cup Leftover

\* A client that has quit in good order has left nothing behind: every action
\* that was queued was sent, and answered.
NothingLeftBehind ==
  responder.pc = "done" /\ ~has_exception_occurred =>
    /\ actions = <<>>
    /\ \A i \in 1 .. Len(log) : log[i].outcome # "none"
    /\ \A i \in DOMAIN responseMap : responseMap[i].st = "error"

\* A quit ends the session, unless a thread fails.
QuitEnds ==
  isTerminated ~> ((responder.pc = "done" /\ consumer.pc = "done") \/ has_exception_occurred)

\* ClientHandler.cpp:155-159: read_action signals the end of every action whose
\* beginning it has signalled, as long as there is a connection.
BeginningAndEnd ==
  \A i \in 1 .. MaxActions :
    (i <= Len(log) /\ handler.index = i - 1 /\ handler.action # None)
      ~> ((i <= Len(log) /\ log[i].outcome # "none") \/ link # "up")
=============================================================================
