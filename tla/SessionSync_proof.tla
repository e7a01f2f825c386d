------------------------- MODULE SessionSync_proof --------------------------
(***************************************************************************)
(* What the client makes of the answers, if nothing is sent while a        *)
(* restore is pending.  Each side then reads what the other wrote for it:  *)
(* the handler a date after the header of a restore, and the response      *)
(* consumer responses, or the entries of its restore.  So a response is    *)
(* about an action that is on the list and has come to the end it tells.   *)
(***************************************************************************)
EXTENDS BackupSession_proof, FiniteSetTheorems

Threads ==
  /\ isTerminated \in BOOLEAN /\ has_exception_occurred \in BOOLEAN
  /\ pushed \in 0 .. MaxActions
  /\ Len(log) + Len(actions) + (IF consumer.pc = "add" THEN 1 ELSE 0) <= pushed
  /\ consumer.index <= Len(log)
  /\ responder \in [pc : ClientPc \cup {"read", "date", "count", "entries", "rename"},
                    index : Nat, left : Nat]
  /\ link \in {"up", "closed", "lost"}
  /\ IsSeq(toClient)
  /\ consumer.pc \in {"pop", "loop", "quit", "done"} => consumer.action = None
  /\ handler.pc = "closed" => link # "up"

\* The list of pending actions is a part of the log.
Fate(i) == log[i + 1].outcome
Restores(i) == responses!IsRestore(i)
MapOK ==
  \A i \in DOMAIN responseMap :
    /\ i \in 0 .. Len(log) - 1
    /\ responseMap[i] \in [action : {log[i + 1].action}, st : responses!ActionStatus]

\* Nothing comes after a restore as long as it is pending, and nothing after a
\* quit.
QuitFrame(k) == toServer[k].kind = "action" /\ toServer[k].action = Quit
QuietOK ==
  /\ \A i \in 1 .. Len(actions) : actions[i].type = "restore" => i = Len(actions)
  /\ consumer.action # None /\ consumer.action.type = "restore" => actions = <<>>
  /\ \A i \in DOMAIN responseMap : Restores(i) =>
       /\ actions = <<>> /\ i + 1 = Len(log)
       /\ consumer.pc \notin {"add", "quit"}
       /\ \A k \in Frames : ~QuitFrame(k)
  /\ isTerminated /\ RestorePending => has_exception_occurred
  /\ consumer.pc = "quit" => isTerminated /\ actions = <<>>
  /\ \A k \in Frames : QuitFrame(k) => consumer.pc = "done" /\ isTerminated /\ actions = <<>>

\* What comes after a frame, and what the handler waits for.
Follows(f) ==
  CASE f.kind = "action" /\ f.action # Quit ->
         (CASE f.action.type = "read_file" -> "size"
            [] f.action.type = "restore" -> "date"
            [] OTHER -> "action")
    [] f.kind = "size" -> "content"
    [] f.kind = "content" -> "action"
    [] OTHER -> "nothing"
Expects == IF handler.pc \in {"size", "content", "date"} THEN handler.pc ELSE "action"
Expected(k) == IF k = 0 THEN Expects ELSE Follows(toServer[k])

\* The server reads what it expects.
ServerOK ==
  /\ handler.pc # "garbled"
  /\ handler.pc # "closed" =>
       /\ \A k \in Frames : toServer[k].kind = Expected(k - 1) /\ toServer[k].kind # "nothing"
       /\ \A k \in Frames : toServer[k].kind = "date" =>
            /\ handler.pc = "date" /\ toServer[k].date = handler.action.date
            /\ responder.pc \in {"count", "failed"}
       /\ link = "up" =>
            /\ consumer.pc = "size" => Expected(Len(toServer)) = "size"
            /\ consumer.pc = "content" => Expected(Len(toServer)) = "content"
            /\ consumer.pc \in {"pop", "loop", "add", "check", "header", "quit"} =>
                 Expected(Len(toServer)) \notin {"size", "content"}

\* What is not answered yet is on the list.
Fresh(i) == i \in DOMAIN responseMap /\ responseMap[i].st = "sent" /\ Fate(i) = "none"
Open(i) == i \in DOMAIN responseMap /\ responseMap[i].st # "error" /\ Fate(i) = "none"
ListOK ==
  /\ Listed => Fresh(consumer.index)
  /\ \A k \in Frames : Header(k) => Fresh(Idx(k))
  /\ Busy => Open(handler.index) /\ (handler.pc = "date" <=> handler.action.type = "restore")

\* What the client will read next is responses, each a pair of integers that
\* tells what became of an action on the list ...
Pairs == {k \in 1 .. Len(toClient) : 2 * k <= Len(toClient)}
About(k) == toClient[2 * k - 1].n
Says(k) == toClient[2 * k].n
Reading == responder.pc \in {"loop", "read"}
Answer(i, status) ==
  /\ i \in DOMAIN responseMap /\ status \in {received, completed, error}
  /\ status = received => responseMap[i].st = "sent"
  /\ status = completed => Fate(i) \in {"stored", "served"} /\ responseMap[i].st # "error"
  /\ status = error => Fate(i) = "refused" /\ responseMap[i].st # "error"
AnswersOK ==
  Reading =>
    /\ \E n \in 0 .. Len(toClient) : Len(toClient) = 2 * n
    /\ \A j \in 1 .. Len(toClient) : toClient[j].kind = "int"
    /\ \A k \in Pairs : Says(k) # finish => Answer(About(k), Says(k))

\* ... in the order of the log; ...
OrderOK ==
  Reading =>
    \A k \in Pairs : Says(k) # finish =>
      /\ \A l \in Pairs : k < l /\ Says(l) # finish =>
           \/ About(k) < About(l)
           \/ About(k) = About(l) /\ Says(k) = received /\ Says(l) # received
      /\ Busy => About(k) <= handler.index /\ (Says(k) # received => About(k) < handler.index)
      /\ \A l \in Frames : Header(l) => About(k) < Idx(l)
      /\ Listed => About(k) < consumer.index

\* ... and if it is the beginning of a restore, the handler waits for the date.
AloneOK ==
  Reading =>
    \A k \in Pairs : Says(k) = received /\ Restores(About(k)) =>
      /\ 2 * k = Len(toClient)
      /\ handler.pc # "closed" =>
           handler.pc = "date" /\ toServer = <<>> /\ handler.index = About(k)

\* During a restore it is the entries of that restore, and then the response
\* that it is complete.
Restoring == responder.pc \in {"date", "count", "entries", "rename"}
Block(n, m) ==
  /\ Len(toClient) = m + n + 2
  /\ \A j \in m + 1 .. m + n : toClient[j].kind = "entry"
  /\ toClient[m + n + 1] = Int32(responder.index) /\ toClient[m + n + 2] = Int32(completed)
  /\ Fate(responder.index) = "served"
RestoreOK ==
  Restoring =>
    /\ Restores(responder.index) /\ responseMap[responder.index].st = "sent"
    /\ ~Listed /\ \A k \in Frames : ~Header(k)
    /\ Busy => /\ handler.index = responder.index /\ toClient = <<>>
               /\ responder.pc \in {"date", "count"}
    /\ responder.pc = "date" =>
         /\ toClient = <<>>
         /\ handler.pc # "closed" => handler.pc = "date" /\ toServer = <<>>
    /\ responder.pc = "count" /\ toClient # <<>> =>
         \E n \in 0 .. Len(toClient) : toClient[1] = Int32(n) /\ Block(n, 1)
    /\ responder.pc \in {"entries", "rename"} => Block(responder.left, 0)
    /\ responder.pc = "rename" => responder.left = 0

Sync ==
  /\ Inv /\ Threads /\ MapOK /\ QuietOK /\ ServerOK /\ ListOK
  /\ AnswersOK /\ OrderOK /\ AloneOK /\ RestoreOK /\ TruthfulPending

-----------------------------------------------------------------------------
\* The list.

LEMMA Listing ==
  ASSUME NEW i, NEW a, NEW st, responseMap' = responses!Put(i, a, st)
  PROVE  /\ DOMAIN responseMap' = DOMAIN responseMap \cup {i}
         /\ responseMap'[i] = [action |-> a, st |-> st]
         /\ \A j \in DOMAIN responseMap : j # i => responseMap'[j] = responseMap[j]
BY DEF responses!Put

LEMMA StatusSet ==
  ASSUME NEW i \in DOMAIN responseMap, NEW st, responses!SetStatus(i, st)
  PROVE  /\ DOMAIN responseMap' = DOMAIN responseMap
         /\ responseMap'[i] = [action |-> responseMap[i].action, st |-> st]
         /\ \A j \in DOMAIN responseMap : j # i => responseMap'[j] = responseMap[j]
         /\ current_index' = current_index
<1>1. PICK a : a = responseMap[i].action
  OBVIOUS
<1>2. responseMap' = responses!Put(i, a, st) /\ current_index' = current_index
  BY <1>1 DEF responses!SetStatus
<1>3. /\ DOMAIN responseMap' = DOMAIN responseMap \cup {i}
      /\ responseMap'[i] = [action |-> a, st |-> st]
      /\ \A j \in DOMAIN responseMap : j # i => responseMap'[j] = responseMap[j]
  BY <1>2, Listing
<1>4. QED
  BY <1>1, <1>2, <1>3

LEMMA OffList ==
  ASSUME NEW i, responses!completed(i)
  PROVE  /\ DOMAIN responseMap' = DOMAIN responseMap \ {i}
         /\ \A j \in DOMAIN responseMap : j # i => responseMap'[j] = responseMap[j]
         /\ current_index' = current_index
<1>1. /\ responseMap' = [j \in DOMAIN responseMap \ {i} |-> responseMap[j]]
      /\ current_index' = current_index
  BY DEF responses!completed
<1>2. QED
  BY <1>1

\* An action on the list is the one in the log.
LEMMA OnList ==
  ASSUME Types, MapOK, NEW i \in DOMAIN responseMap
  PROVE  /\ i \in Nat /\ i + 1 \in 1 .. Len(log) /\ i < Len(log) /\ Len(log) \in Nat
         /\ responseMap[i].action = log[i + 1].action /\ responseMap[i].action \in Action
         /\ responseMap[i].st \in {"sent", "received", "error"}
<1>1. Len(log) \in Nat
  BY LogFields DEF Types
<1>2. /\ i \in 0 .. Len(log) - 1
      /\ responseMap[i] \in [action : {log[i + 1].action}, st : responses!ActionStatus]
  BY DEF MapOK
<1>3. i + 1 \in 1 .. Len(log)
  BY <1>1, <1>2
<1>4. log[i + 1].action \in Action
  BY <1>3, LogFields DEF Types, Entry
<1>5. QED
  BY <1>1, <1>2, <1>3, <1>4 DEF responses!ActionStatus

\* A restore that is pending is the last action of the log, and the consumer
\* sends nothing after it.
LEMMA RestoreIsLast ==
  ASSUME Inv, MapOK, QuietOK, NEW i, Restores(i)
  PROVE  /\ i \in Nat /\ i + 1 = Len(log) /\ log[i + 1].action.type = "restore"
         /\ i \in DOMAIN responseMap /\ log[i + 1].action = responseMap[i].action
         /\ ~Sending /\ consumer.pc \notin {"add", "quit"} /\ actions = <<>>
         /\ Listed => consumer.index = i
         /\ \A k \in Frames : ~QuitFrame(k) /\ (Header(k) => Idx(k) <= i)
         /\ Busy => handler.index <= i
<1>1. /\ i \in DOMAIN responseMap /\ responseMap[i].action.type = "restore"
      /\ i \in Nat /\ i + 1 \in 1 .. Len(log) /\ Len(log) \in Nat
      /\ responseMap[i].action = log[i + 1].action
  BY OnList DEF Inv, Restores, responses!IsRestore
<1>2. /\ actions = <<>> /\ i + 1 = Len(log) /\ consumer.pc \notin {"add", "quit"}
      /\ \A k \in Frames : ~QuitFrame(k)
  BY <1>1 DEF QuietOK
<1>3. Listed \/ Sending => consumer.index = i /\ log[i + 1].action = consumer.action
  BY <1>1, <1>2 DEF Inv, ConsumerOK, Indexed
<1>4. ~Sending
  BY <1>1, <1>3 DEF Inv, ConsumerOK
<1>5. \A k \in Frames : Header(k) => Idx(k) <= i
  BY <1>1, <1>2 DEF Inv, HeadersOK, Indexed
<1>6. Busy => handler.index <= i
  BY <1>1, <1>2 DEF Inv, HandlerOK, Indexed
<1>7. QED
  BY <1>1, <1>2, <1>3, <1>4, <1>5, <1>6

-----------------------------------------------------------------------------
\* What comes after what.

LEMMA Following ==
  ASSUME NEW f
  PROVE  /\ f.kind = "action" /\ f.action = Quit => Follows(f) = "nothing"
         /\ f.kind = "action" /\ f.action # Quit =>
              /\ Follows(f) \in {"size", "date", "action"}
              /\ Follows(f) = "size" <=> f.action.type = "read_file"
              /\ Follows(f) = "date" <=> f.action.type = "restore"
         /\ f.kind = "size" => Follows(f) = "content"
         /\ f.kind = "content" => Follows(f) = "action"
         /\ f.kind = "date" => Follows(f) = "nothing"
         /\ Follows(f) \in {"size", "date", "action", "content", "nothing"}
BY DEF Follows

LEMMA ExpectedIs ==
  ASSUME Types
  PROVE  /\ Expected(0) = Expects
         /\ \A k \in Frames : k \in Nat /\ k # 0 /\ Expected(k) = Follows(toServer[k])
         /\ Len(toServer) \in Nat
<1>1. Len(toServer) \in Nat
  BY SeqLen DEF Types
<1>2. QED
  BY <1>1 DEF Expected, Frames

-----------------------------------------------------------------------------
\* Steps of the user, of the calendar, and of the action consumer when it
\* neither lists nor sends.

LEMMA NothingSaid ==
  ASSUME Sync, UNCHANGED <<responseMap, log, handler, toClient, responder, toServer>>,
         Listed' => Listed /\ consumer'.index = consumer.index
  PROVE  /\ MapOK' /\ ListOK' /\ AnswersOK' /\ OrderOK' /\ AloneOK' /\ RestoreOK'
         /\ TruthfulPending'
<1>1. /\ Frames' = Frames /\ Pairs' = Pairs /\ (Reading' <=> Reading) /\ (Restoring' <=> Restoring)
      /\ Busy' <=> Busy
      /\ \A k : /\ Header(k)' <=> Header(k)
                /\ Idx(k)' = Idx(k) /\ About(k)' = About(k) /\ Says(k)' = Says(k)
      /\ \A i : Fate(i)' = Fate(i) /\ (Restores(i)' <=> Restores(i))
                /\ (Fresh(i)' <=> Fresh(i)) /\ (Open(i)' <=> Open(i))
      /\ \A i, status : Answer(i, status)' <=> Answer(i, status)
      /\ \A n, m : Block(n, m)' <=> Block(n, m)
  BY DEF Frames, Pairs, Reading, Restoring, Busy, Header, Idx, About, Says, Fate, Restores,
         responses!IsRestore, Fresh, Open, Answer, Block
<1>2. MapOK' /\ TruthfulPending'
  BY DEF Sync, MapOK, TruthfulPending
<1>3. ListOK'
  BY <1>1 DEF Sync, ListOK
<1>4. AnswersOK' /\ OrderOK'
  BY <1>1 DEF Sync, AnswersOK, OrderOK
<1>5. AloneOK'
  BY <1>1 DEF Sync, AloneOK
<1>6. RestoreOK'
  BY <1>1 DEF Sync, RestoreOK
<1>7. QED
  BY <1>2, <1>3, <1>4, <1>5, <1>6

LEMMA ServerKept ==
  ASSUME ServerOK, UNCHANGED <<handler, toServer>>, link' = "up" => link = "up",
         responder.pc \in {"count", "failed"} => responder'.pc \in {"count", "failed"},
         \/ consumer'.pc = consumer.pc
         \/ consumer'.pc \notin {"size", "content", "pop", "loop", "add", "check", "header", "quit"}
         \/ /\ consumer'.pc \in {"pop", "loop", "add", "check", "header", "quit"}
            /\ consumer.pc \in {"pop", "loop", "add", "check", "header", "quit"}
  PROVE  ServerOK'
<1>1. Frames' = Frames /\ \A k : Expected(k)' = Expected(k)
  BY DEF Frames, Expected, Expects, Follows
<1>2. QED
  BY <1>1 DEF ServerOK

LEMMA SyncIs ==
  ASSUME Sync
  PROVE  /\ Inv /\ Threads /\ MapOK /\ QuietOK /\ ServerOK /\ ListOK
         /\ AnswersOK /\ OrderOK /\ AloneOK /\ RestoreOK /\ TruthfulPending
         /\ Types /\ Len(log) \in Nat /\ Len(actions) \in Nat /\ Len(toServer) \in Nat
         /\ Len(toClient) \in Nat
BY SeqLen, LenProperties DEF Sync, Inv, Types, Threads

LEMMA PushSync ==
  ASSUME Sync, Inv', QuietRestore, NEW a \in Action, push(a)
  PROVE  Sync'
<1>1. /\ UNCHANGED <<responseMap, log, handler, toClient, responder, toServer, link>>
      /\ UNCHANGED <<consumer, has_exception_occurred, isTerminated>>
      /\ ~isTerminated /\ pushed < MaxActions /\ ~RestorePending /\ pushed' = pushed + 1
      /\ actions' = Append(actions, a)
  BY DEF push, clientVars, netVars, responseVars
<1>2. /\ Len(actions') = Len(actions) + 1 /\ Len(actions) \in Nat
      /\ \A i \in 1 .. Len(actions) : actions'[i] = actions[i]
  BY <1>1, AppendProperties, SyncIs DEF Types
<1>3. Threads'
  <2>1. pushed' \in 0 .. MaxActions
    BY <1>1, SyncIs, SessionAssumption DEF Threads
  <2>2. Len(log') + Len(actions') + (IF consumer'.pc = "add" THEN 1 ELSE 0) <= pushed'
    BY <1>1, <1>2, SyncIs DEF Threads
  <2>3. QED
    BY <1>1, <2>1, <2>2, SyncIs DEF Threads
<1>4. QuietOK'
  <2>1. \A i \in DOMAIN responseMap : ~Restores(i)
    BY <1>1 DEF RestorePending, Restores
  <2>2. consumer.action # None => consumer.action.type # "restore"
    BY <1>1 DEF RestorePending
  <2>3. \A i \in 1 .. Len(actions) : actions[i].type # "restore"
    BY <1>1 DEF RestorePending
  <2>4. consumer.pc # "quit" /\ \A k \in Frames : ~QuitFrame(k)
    BY <1>1, SyncIs DEF QuietOK
  <2>5. \A i : Restores(i)' <=> Restores(i)
    BY <1>1 DEF Restores, responses!IsRestore
  <2>6. Frames' = Frames /\ \A k : QuitFrame(k)' <=> QuitFrame(k)
    BY <1>1 DEF Frames, QuitFrame
  <2>7. \A i \in 1 .. Len(actions') : actions'[i].type = "restore" => i = Len(actions')
    BY <1>2, <2>3
  <2>8. QED
    BY <1>1, <2>1, <2>2, <2>4, <2>5, <2>6, <2>7 DEF QuietOK
<1>5. ServerOK'
  BY <1>1, ServerKept, SyncIs
<1>6. QED
  BY <1>1, <1>3, <1>4, <1>5, NothingSaid DEF Sync, Listed

\* What RestorePending looks at.
LEMMA PendingKept ==
  ASSUME UNCHANGED <<responseMap, actions>>, consumer'.action = consumer.action \/ consumer'.action = None
  PROVE  RestorePending' => RestorePending
BY DEF RestorePending, responses!IsRestore

\* Steps that leave alone what is queued and what is sent.
LEMMA QuietKept ==
  ASSUME Sync, UNCHANGED <<responseMap, log, actions, toServer>>,
         consumer'.action = consumer.action \/ consumer'.action = None,
         consumer'.pc \in {"add", "quit"} => consumer'.pc = consumer.pc,
         consumer.pc = "done" => consumer'.pc = "done",
         isTerminated => isTerminated',
         isTerminated' /\ RestorePending => has_exception_occurred'
  PROVE  QuietOK'
<1>1. /\ \A i : Restores(i)' <=> Restores(i)
      /\ Frames' = Frames /\ \A k : QuitFrame(k)' <=> QuitFrame(k)
  BY DEF Restores, responses!IsRestore, Frames, QuitFrame
<1>2. RestorePending' => RestorePending
  BY PendingKept
<1>3. consumer'.pc = "quit" => consumer.pc = "quit"
  OBVIOUS
<1>4. consumer'.pc = "add" => consumer.pc = "add"
  OBVIOUS
<1>5. QED
  BY <1>1, <1>2, <1>3, <1>4 DEF Sync, QuietOK

LEMMA UserSync ==
  ASSUME Sync, Inv', QuietRestore, terminate \/ Disconnect \/ NextDay
  PROVE  Sync'
<1>1. /\ UNCHANGED <<responseMap, log, handler, toClient, responder, toServer, pushed>>
      /\ UNCHANGED <<consumer, has_exception_occurred, actions>>
  BY DEF terminate, Disconnect, NextDay, clientVars, netVars, responseVars, bufferVars
<1>2. /\ link' \in {link, "lost"}
      /\ isTerminated' \in {isTerminated, TRUE}
      /\ isTerminated => isTerminated'
      /\ isTerminated' # isTerminated => ~RestorePending \/ has_exception_occurred
  <2>1. CASE terminate
    BY <2>1 DEF terminate, netVars
  <2>2. CASE Disconnect \/ NextDay
    <3>1. isTerminated' = isTerminated
      BY <2>2 DEF Disconnect, NextDay, bufferVars
    <3>2. link' \in {link, "lost"}
      BY <2>2 DEF Disconnect, NextDay, netVars
    <3>3. QED
      BY <3>1, <3>2
  <2>3. QED
    BY <2>1, <2>2
<1>3. Threads'
  <2>1. isTerminated' \in BOOLEAN
    BY <1>2, SyncIs DEF Threads
  <2>2. link' \in {"up", "closed", "lost"} /\ (link # "up" => link' # "up")
    BY <1>2, SyncIs DEF Threads
  <2>3. QED
    BY <1>1, <2>1, <2>2, SyncIs DEF Threads
<1>4. QuietOK'
  <2>1. isTerminated' /\ RestorePending => has_exception_occurred'
    <3>1. isTerminated /\ RestorePending => has_exception_occurred
      BY SyncIs DEF QuietOK
    <3>2. QED
      BY <3>1, <1>1, <1>2
  <2>2. QED
    BY <1>1, <1>2, <2>1, QuietKept
<1>5. ServerOK'
  BY <1>1, <1>2, ServerKept, SyncIs
<1>6. QED
  BY <1>1, <1>3, <1>4, <1>5, NothingSaid DEF Sync, Listed

LEMMA PopSync ==
  ASSUME Sync, Inv', pop
  PROVE  Sync'
<1>1. /\ UNCHANGED <<responseMap, log, handler, toClient, responder, toServer, link>>
      /\ UNCHANGED <<pushed, isTerminated, has_exception_occurred>>
      /\ consumer.pc = "pop"
  BY DEF pop, OthersKeep, responseVars
<1>2. consumer.action = None /\ (\A k \in Frames : ~QuitFrame(k))
  BY <1>1, SyncIs DEF Threads, QuietOK
<1>3. /\ \A i : Restores(i)' <=> Restores(i)
      /\ Frames' = Frames /\ \A k : QuitFrame(k)' <=> QuitFrame(k)
  BY <1>1 DEF Restores, responses!IsRestore, Frames, QuitFrame
<1>4. CASE /\ actions # <<>> /\ actions' = Tail(actions)
           /\ consumer' = [consumer EXCEPT !.pc = "add", !.action = Head(actions)]
  <2>1. /\ Len(actions') = Len(actions) - 1 /\ Len(actions) >= 1 /\ Head(actions) = actions[1]
        /\ \A i \in 1 .. Len(actions') : actions'[i] = actions[i + 1]
        /\ Head(actions) \in Action /\ Len(actions) \in Nat
    BY <1>4, HeadTailProperties, EmptySeq, SyncIs DEF Types
  <2>2. /\ consumer'.pc = "add" /\ consumer'.action = actions[1] /\ consumer'.index = consumer.index
    BY <1>4, <2>1, SyncIs DEF Types
  <2>3. Threads'
    <3>1. Len(log') + Len(actions') + 1 <= pushed'
      BY <1>1, <2>1, SyncIs DEF Threads
    <3>2. QED
      BY <1>1, <2>2, <3>1, SyncIs DEF Threads
  <2>4. QuietOK'
    <3>1. RestorePending' => RestorePending
      <4>1. ASSUME NEW i \in 1 .. Len(actions'), actions'[i].type = "restore"
            PROVE  RestorePending
        <5>1. i + 1 \in 1 .. Len(actions) /\ actions[i + 1].type = "restore"
          BY <2>1, <4>1
        <5>2. QED
          BY <5>1 DEF RestorePending
      <4>2. actions[1].type = "restore" => RestorePending
        BY <2>1 DEF RestorePending
      <4>3. \A i : responses!IsRestore(i)' => responses!IsRestore(i)
        BY <1>1 DEF responses!IsRestore
      <4>4. QED
        BY <4>1, <4>2, <4>3, <1>1, <2>2 DEF RestorePending
    <3>2. \A i \in 1 .. Len(actions) : actions[i].type = "restore" => i = Len(actions)
      BY SyncIs DEF QuietOK
    <3>3. \A i \in 1 .. Len(actions') : actions'[i].type = "restore" => i = Len(actions')
      BY <3>2, <2>1
    <3>4. actions[1].type = "restore" => Len(actions') = 0
      BY <3>2, <2>1
    <3>5. actions' = <<>> <=> Len(actions') = 0
      BY EmptySeq DEF Inv, Types
    <3>6. \A i \in DOMAIN responseMap : ~Restores(i)
      BY <1>4, SyncIs DEF QuietOK
    <3>7. isTerminated /\ RestorePending => has_exception_occurred
      BY SyncIs DEF QuietOK
    <3>8. QED
      BY <1>1, <1>2, <1>3, <2>2, <3>1, <3>3, <3>4, <3>5, <3>6, <3>7 DEF QuietOK
  <2>5. ServerOK'
    BY <1>1, <2>2, ServerKept, SyncIs
  <2>6. ~Listed'
    BY <2>2 DEF Listed
  <2>7. QED
    BY <1>1, <2>3, <2>4, <2>5, <2>6, NothingSaid DEF Sync
<1>5. CASE /\ actions = <<>> /\ isTerminated /\ UNCHANGED actions
           /\ ConsumerGoto(IF has_exception_occurred THEN "done" ELSE "quit")
  <2>1. PICK pc \in {"done", "quit"} : ConsumerGoto(pc) /\ (pc = "quit" => ~has_exception_occurred)
    BY <1>5, SyncIs DEF Threads
  <2>2. consumer'.pc = pc /\ consumer'.action = None /\ consumer'.index = consumer.index
    BY <1>2, <2>1, ConsumerGoes, SyncIs DEF ConsumerPcs, ClientPc
  <2>3. Threads'
    BY <1>1, <1>5, <2>2, SyncIs DEF Threads
  <2>4. QuietOK'
    <3>1. RestorePending' => RestorePending
      BY <1>1, <1>5, <2>2, PendingKept
    <3>2. isTerminated /\ RestorePending => has_exception_occurred
      BY SyncIs DEF QuietOK
    <3>3. \A i \in DOMAIN responseMap : Restores(i) => RestorePending
      BY DEF Restores, RestorePending
    <3>4. consumer'.pc # "add"
      BY <2>2
    <3>5. QED
      BY <1>1, <1>2, <1>3, <1>5, <2>1, <2>2, <3>1, <3>2, <3>3, <3>4, SyncIs DEF QuietOK
  <2>5. ServerOK'
    BY <1>1, <2>2, ServerKept, SyncIs
  <2>6. ~Listed'
    BY <2>2 DEF Listed
  <2>7. QED
    BY <1>1, <2>3, <2>4, <2>5, <2>6, NothingSaid DEF Sync
<1>6. QED
  BY <1>4, <1>5, <1>1 DEF pop

\* The same for a step of its own loop, and for one that ends it.
LEMMA ConsumerMoves ==
  ASSUME Sync, Inv',
         UNCHANGED <<responseMap, log, handler, toClient, responder, toServer, link, actions, pushed,
                     isTerminated>>,
         has_exception_occurred' \in BOOLEAN, has_exception_occurred => has_exception_occurred',
         NEW pc \in {"done", "pop", "failed"}, ConsumerGoto(pc),
         consumer.pc \in {"loop", "check", "header", "size", "content", "quit"}, pc # "failed" => consumer.pc = "loop"
  PROVE  Sync'
<1>1. consumer'.pc = pc /\ consumer'.action = consumer.action /\ consumer'.index = consumer.index
  BY ConsumerGoes, SyncIs DEF ConsumerPcs, ClientPc
<1>2. Threads'
  BY <1>1, SyncIs DEF Threads
<1>3. QuietOK'
  <2>1. isTerminated /\ RestorePending => has_exception_occurred
    BY SyncIs DEF QuietOK
  <2>2. QED
    BY <1>1, <2>1, QuietKept
<1>4. ServerOK'
  BY <1>1, ServerKept, SyncIs
<1>5. ~Listed'
  BY <1>1 DEF Listed
<1>6. QED
  BY <1>2, <1>3, <1>4, <1>5, NothingSaid DEF Sync

LEMMA ConsumerLoopSync ==
  ASSUME Sync, Inv', ConsumerLoop
  PROVE  Sync'
<1>1. /\ UNCHANGED <<responseMap, log, handler, toClient, responder, toServer, link, actions, pushed,
                     isTerminated>>
      /\ has_exception_occurred' = has_exception_occurred /\ consumer.pc = "loop"
  BY DEF ConsumerLoop, ConsumerKeeps, OthersKeep, bufferVars, responseVars
<1>2. PICK pc \in {"done", "pop"} : ConsumerGoto(pc)
  BY DEF ConsumerLoop
<1>3. has_exception_occurred' \in BOOLEAN
  BY <1>1, SyncIs DEF Threads
<1>4. QED
  BY <1>1, <1>2, <1>3, ConsumerMoves

LEMMA ConsumerThrowsSync ==
  ASSUME Sync, Inv', ConsumerThrows
  PROVE  Sync'
<1>1. /\ UNCHANGED <<responseMap, log, handler, toClient, responder, toServer, link, actions, pushed,
                     isTerminated>>
      /\ has_exception_occurred' = TRUE /\ ConsumerGoto("failed")
      /\ consumer.pc \in {"check", "header", "size", "content", "quit"}
  BY DEF ConsumerThrows, OthersKeep, bufferVars, responseVars
<1>2. QED
  BY <1>1, ConsumerMoves

-----------------------------------------------------------------------------
\* The action consumer lists an action, or takes one that is not sent off the
\* list.

Same(i) == i \in DOMAIN responseMap' /\ responseMap'[i] = responseMap[i] /\ Fate(i)' = Fate(i)

LEMMA SameEntry ==
  ASSUME NEW i \in DOMAIN responseMap, Same(i)
  PROVE  /\ Fresh(i) => Fresh(i)'
         /\ Open(i) => Open(i)'
         /\ Restores(i)' <=> Restores(i)
         /\ \A status : Answer(i, status) => Answer(i, status)'
BY DEF Same, Fresh, Open, Restores, responses!IsRestore, Answer

\* If nothing is read or written, and the order stays, so do the answers.
LEMMA AnswersKept ==
  ASSUME AnswersOK, toClient' = toClient, Reading' => Reading,
         Reading => \A k \in Pairs : Says(k) # finish => Same(About(k))
  PROVE  AnswersOK'
<1>1. Pairs' = Pairs /\ \A k : About(k)' = About(k) /\ Says(k)' = Says(k)
  BY DEF Pairs, About, Says
<1>2. ASSUME Reading, NEW k \in Pairs, Says(k) # finish
      PROVE  Answer(About(k), Says(k))'
  <2>1. Answer(About(k), Says(k)) /\ Same(About(k)) /\ About(k) \in DOMAIN responseMap
    BY <1>2 DEF AnswersOK, Answer
  <2>2. QED
    BY <2>1, <1>1, SameEntry DEF Answer, Fate, Same
<1>3. QED
  BY <1>1, <1>2 DEF AnswersOK

LEMMA AddSync ==
  ASSUME Sync, Inv', send_action_add
  PROVE  Sync'
<1> DEFINE e == [action |-> consumer.action, hash |-> None, outcome |-> "none"]
<1>1. /\ UNCHANGED <<handler, toClient, responder, toServer, link, actions, pushed, isTerminated,
                     has_exception_occurred>>
      /\ responseMap' = responses!Put(current_index, consumer.action, "sent")
      /\ consumer' = [consumer EXCEPT !.pc = "check", !.index = current_index]
      /\ consumer.pc = "add" /\ log' = Append(log, e)
  BY DEF send_action_add, ConsumerKeeps, OthersKeep, bufferVars, responses!add
<1>2. PICK n, a : n = current_index /\ a = consumer.action
  OBVIOUS
<1>3. /\ n = Len(log) /\ n \in Nat /\ a \in Action /\ a # None
  BY <1>1, <1>2, SyncIs, SessionAssumption DEF Types, Inv, ConsumerOK
<1>4. /\ Len(log') = n + 1 /\ \A i \in 1 .. n : log'[i] = log[i]
      /\ log'[n + 1].action = a /\ log'[n + 1].outcome = "none"
  <2>1. e \in Entry /\ e.action = a /\ e.outcome = "none"
    BY <1>2, <1>3 DEF Entry, Outcome
  <2> HIDE DEF e
  <2>2. QED
    BY <2>1, <1>1, <1>3, LogAppended, SyncIs DEF Types
<1>5. /\ consumer'.pc = "check" /\ consumer'.index = n /\ consumer'.action = a
      /\ consumer.action = a
  BY <1>1, <1>2, SyncIs DEF Types
<1>6. /\ DOMAIN responseMap' = DOMAIN responseMap \cup {n}
      /\ responseMap'[n] = [action |-> a, st |-> "sent"]
      /\ n \notin DOMAIN responseMap
      /\ \A j \in DOMAIN responseMap : responseMap'[j] = responseMap[j]
  <2>1. responseMap' = responses!Put(n, a, "sent")
    BY <1>1, <1>2
  <2>2. n \notin DOMAIN responseMap
    BY <1>3, OnList, SyncIs
  <2>3. QED
    BY <2>1, <2>2, Listing
<1>7. \A j \in DOMAIN responseMap :
        /\ j \in Nat /\ j < n /\ Same(j)
        /\ responseMap[j].action = log[j + 1].action /\ log'[j + 1] = log[j + 1]
        /\ responseMap[j].st \in responses!ActionStatus
  <2> SUFFICES ASSUME NEW j \in DOMAIN responseMap
               PROVE  /\ j \in Nat /\ j < n /\ Same(j)
                      /\ responseMap[j].action = log[j + 1].action /\ log'[j + 1] = log[j + 1]
                      /\ responseMap[j].st \in responses!ActionStatus
    OBVIOUS
  <2>1. /\ j \in Nat /\ j + 1 \in 1 .. n /\ j < n /\ responseMap[j].action = log[j + 1].action
        /\ responseMap[j].st \in responses!ActionStatus
    BY <1>3, OnList, SyncIs DEF responses!ActionStatus
  <2>2. QED
    BY <2>1, <1>4, <1>6 DEF Same, Fate
<1>8. \A j \in DOMAIN responseMap : ~Restores(j)
  BY <1>1, SyncIs DEF QuietOK
<1>9. /\ ~Restoring /\ ~Listed /\ \A k \in Frames : ~QuitFrame(k)
  BY <1>1, <1>8, SyncIs DEF RestoreOK, Restores, responses!IsRestore, Listed, QuietOK
<1>10. Listed' /\ (Busy' <=> Busy) /\ (Reading' <=> Reading) /\ ~Restoring' /\ Frames' = Frames
       /\ \A k : (Header(k)' <=> Header(k)) /\ Idx(k)' = Idx(k) /\ (QuitFrame(k)' <=> QuitFrame(k))
  BY <1>1, <1>5, <1>9 DEF Listed, Busy, Reading, Restoring, Frames, Header, Idx, QuitFrame
<1>11. Threads'
  <2>1. Len(log') + Len(actions') <= pushed'
    BY <1>1, <1>3, <1>4, SyncIs DEF Threads
  <2>2. QED
    BY <2>1, <1>1, <1>3, <1>4, <1>5, SyncIs DEF Threads
<1>12. MapOK'
  <2>1. \A j \in DOMAIN responseMap : responseMap[j] \in [action : {log[j + 1].action}, st : responses!ActionStatus]
    BY SyncIs DEF MapOK
  <2>2. responseMap'[n] \in [action : {log'[n + 1].action}, st : responses!ActionStatus]
    BY <1>4, <1>6 DEF responses!ActionStatus
  <2>3. QED
    BY <2>1, <2>2, <1>3, <1>4, <1>6, <1>7 DEF MapOK
<1>13. QuietOK'
  <2>1. \A j \in DOMAIN responseMap' : Restores(j)' => j = n /\ a.type = "restore"
    BY <1>6, <1>8 DEF Restores, responses!IsRestore
  <2>2. a.type = "restore" => actions = <<>>
    BY <1>3, <1>5, SyncIs DEF QuietOK
  <2>3. RestorePending' => RestorePending
    <3>1. a.type = "restore" => RestorePending
      BY <1>3, <1>5 DEF RestorePending
    <3>2. \A j \in DOMAIN responseMap' : responses!IsRestore(j)' => a.type = "restore"
      BY <2>1 DEF Restores
    <3>3. \A i \in 1 .. Len(actions) : actions[i].type = "restore" => RestorePending
      BY DEF RestorePending
    <3>4. QED
      BY <3>1, <3>2, <3>3, <1>1, <1>5 DEF RestorePending
  <2>4. isTerminated /\ RestorePending => has_exception_occurred
    BY SyncIs DEF QuietOK
  <2>5. \A i \in 1 .. Len(actions) : actions[i].type = "restore" => i = Len(actions)
    BY SyncIs DEF QuietOK
  <2>6. QED
    BY <2>1, <2>2, <2>3, <2>4, <2>5, <1>1, <1>3, <1>4, <1>5, <1>9, <1>10 DEF QuietOK
<1>14. ServerOK'
  BY <1>1, <1>5, ServerKept, SyncIs
<1>15. ListOK'
  <2>1. Fresh(n)'
    BY <1>4, <1>6 DEF Fresh, Fate
  <2>2. \A k \in Frames : Header(k) => Fresh(Idx(k))'
    BY <1>1, <1>7, <1>10, SyncIs DEF ListOK, Fresh, Same, Fate
  <2>3. Busy => Open(handler.index)'
    BY <1>1, <1>7, SyncIs DEF ListOK, Open, Same, Fate
  <2>4. QED
    BY <2>1, <2>2, <2>3, <1>1, <1>5, <1>10, SyncIs DEF ListOK, Fresh
<1>16. AnswersOK'
  BY <1>1, <1>7, <1>10, AnswersKept, SyncIs DEF AnswersOK, Answer
<1>17. Pairs' = Pairs /\ \A k : About(k)' = About(k) /\ Says(k)' = Says(k)
  BY <1>1 DEF Pairs, About, Says
<1>18. Reading => \A k \in Pairs : Says(k) # finish => About(k) \in DOMAIN responseMap
  BY SyncIs DEF AnswersOK, Answer
<1>19. OrderOK'
  <2>1. Reading => \A k \in Pairs : Says(k) # finish => About(k) < n
    BY <1>7, <1>18
  <2>2. QED
    BY <2>1, <1>1, <1>5, <1>10, <1>17, SyncIs DEF OrderOK
<1>20. AloneOK'
  <2>1. Reading => \A k \in Pairs : Says(k) = received => ~Restores(About(k))'
    BY <1>7, <1>8, <1>17, <1>18 DEF received, finish, Restores, responses!IsRestore, Same
  <2>2. QED
    BY <2>1, <1>10, <1>17 DEF AloneOK, Restores, responses!IsRestore
<1>21. RestoreOK'
  BY <1>10 DEF RestoreOK
<1>22. TruthfulPending'
  <2>1. ASSUME NEW i \in 1 .. n
        PROVE  /\ i - 1 \notin DOMAIN responseMap' => log'[i].outcome \in {"stored", "served", "ignored"}
               /\ i - 1 \in DOMAIN responseMap' /\ responseMap'[i - 1].st = "error"
                    => log'[i].outcome = "refused"
    BY <2>1, <1>3, <1>4, <1>6, SyncIs DEF TruthfulPending
  <2>2. QED
    BY <2>1, <1>3, <1>4, <1>6 DEF TruthfulPending
<1>23. QED
  BY <1>11, <1>12, <1>13, <1>14, <1>15, <1>16, <1>19, <1>20, <1>21, <1>22 DEF Sync

LEMMA ActionDropped ==
  ASSUME Sync, Inv', NEW o \in {"ignored", "refused"}, NEW c, c = consumer.index,
         UNCHANGED <<handler, toClient, responder, toServer, link, actions, pushed, isTerminated,
                     has_exception_occurred>>,
         consumer.pc = "check", consumer.action.type # "restore", ActionDone,
         log' = [log EXCEPT ![c + 1].outcome = o],
         DOMAIN responseMap' \subseteq DOMAIN responseMap,
         \A j \in DOMAIN responseMap : j # c => j \in DOMAIN responseMap' /\ responseMap'[j] = responseMap[j],
         c \notin DOMAIN responseMap' => o = "ignored",
         c \in DOMAIN responseMap' =>
           o = "refused" /\ responseMap'[c] = [action |-> responseMap[c].action, st |-> "error"]
  PROVE  Sync'
<1>1. /\ c \in Nat /\ c + 1 \in 1 .. Len(log) /\ Len(log) \in Nat /\ Listed
      /\ log[c + 1].action = consumer.action
  BY SyncIs DEF Listed, Inv, ConsumerOK, Indexed
<1>2. /\ Len(log') = Len(log)
      /\ \A i \in 1 .. Len(log) :
           /\ log'[i].action = log[i].action
           /\ log'[i].outcome = IF i = c + 1 THEN o ELSE log[i].outcome
  <2>1. o \in Outcome /\ log \in Seq(Entry)
    BY SyncIs DEF Types, Outcome
  <2>2. PICK n : n = c + 1
    OBVIOUS
  <2>3. QED
    BY <1>1, <2>1, <2>2, LogOutcome
<1>3. consumer'.pc = "loop" /\ consumer'.action = None /\ consumer'.index = 0
  BY DEF ActionDone
<1>4. \A j \in DOMAIN responseMap :
        /\ j \in Nat /\ j + 1 \in 1 .. Len(log)
        /\ responseMap[j].action = log[j + 1].action /\ responseMap[j].st \in responses!ActionStatus
        /\ j # c => Same(j)
  <2>1. \A j \in DOMAIN responseMap :
          /\ j \in Nat /\ j + 1 \in 1 .. Len(log)
          /\ responseMap[j].action = log[j + 1].action /\ responseMap[j].st \in responses!ActionStatus
    BY OnList, SyncIs DEF responses!ActionStatus
  <2>2. QED
    BY <1>1, <1>2, <2>1 DEF Same, Fate
<1>5. \A j : ~Restores(j)
  BY <1>1, RestoreIsLast, SyncIs
<1>6. \A j : ~Restores(j)'
  BY <1>5, <1>4 DEF Restores, responses!IsRestore, Same
<1>7. ~Restoring /\ \A k \in Frames : ~QuitFrame(k)
  BY <1>5, SyncIs DEF RestoreOK, QuietOK
<1>8. /\ ~Listed' /\ (Busy' <=> Busy) /\ (Reading' <=> Reading) /\ ~Restoring' /\ Frames' = Frames
      /\ \A k : (Header(k)' <=> Header(k)) /\ Idx(k)' = Idx(k) /\ (QuitFrame(k)' <=> QuitFrame(k))
  BY <1>3, <1>7 DEF Listed, Busy, Reading, Restoring, Frames, Header, Idx, QuitFrame
<1>9. Threads'
  BY <1>2, <1>3, SyncIs DEF Threads
<1>10. MapOK'
  <2>1. \A j \in DOMAIN responseMap :
          responseMap[j] \in [action : {log[j + 1].action}, st : responses!ActionStatus] /\ j \in 0 .. Len(log) - 1
    BY SyncIs DEF MapOK
  <2>2. c \in DOMAIN responseMap' =>
          responseMap'[c] \in [action : {log[c + 1].action}, st : responses!ActionStatus]
    BY <1>4 DEF responses!ActionStatus
  <2>3. QED
    BY <2>1, <2>2, <1>2, <1>4 DEF MapOK, Same
<1>11. QuietOK'
  <2>1. RestorePending' => RestorePending
    BY <1>3, <1>6 DEF RestorePending, Restores
  <2>2. QED
    BY <2>1, <1>3, <1>6, <1>7, <1>8, SyncIs DEF QuietOK
<1>12. ServerOK'
  BY <1>3, ServerKept, SyncIs
<1>13. ListOK'
  <2>1. \A k \in Frames : Header(k) => Idx(k) # c
    BY <1>1, SyncIs DEF Inv, HeadersOK, Indexed
  <2>2. Busy => handler.index # c
    BY <1>1, SyncIs DEF Inv, HandlerOK, Indexed
  <2>3. \A k \in Frames : Header(k) => Fresh(Idx(k))'
    BY <1>4, <1>8, <2>1, SyncIs DEF ListOK, Fresh, Same, Fate
  <2>4. Busy => Open(handler.index)'
    BY <1>4, <2>2, SyncIs DEF ListOK, Open, Same, Fate
  <2>5. QED
    BY <2>3, <2>4, <1>8, SyncIs DEF ListOK
<1>14. Reading => \A k \in Pairs : Says(k) # finish => About(k) \in DOMAIN responseMap /\ About(k) # c
  BY <1>1, <1>4, SyncIs DEF AnswersOK, OrderOK, Answer
<1>15. AnswersOK'
  BY <1>4, <1>8, <1>14, AnswersKept, SyncIs
<1>16. Pairs' = Pairs /\ \A k : About(k)' = About(k) /\ Says(k)' = Says(k)
  BY DEF Pairs, About, Says
<1>17. OrderOK'
  BY <1>8, <1>16, SyncIs DEF OrderOK
<1>18. AloneOK'
  BY <1>6 DEF AloneOK, Restores, responses!IsRestore
<1>19. RestoreOK'
  BY <1>8 DEF RestoreOK
<1>20. TruthfulPending'
  <2>1. ASSUME NEW i \in 1 .. Len(log)
        PROVE  /\ i - 1 \notin DOMAIN responseMap' => log'[i].outcome \in {"stored", "served", "ignored"}
               /\ i - 1 \in DOMAIN responseMap' /\ responseMap'[i - 1].st = "error"
                    => log'[i].outcome = "refused"
    <3>1. CASE i = c + 1
      BY <3>1, <1>1, <1>2
    <3>2. CASE i # c + 1
      BY <3>2, <1>1, <1>2, SyncIs DEF TruthfulPending
    <3>3. QED
      BY <3>1, <3>2
  <2>2. QED
    BY <2>1, <1>2 DEF TruthfulPending
<1>21. QED
  BY <1>9, <1>10, <1>11, <1>12, <1>13, <1>15, <1>17, <1>18, <1>19, <1>20 DEF Sync

LEMMA CheckSync ==
  ASSUME Sync, Inv', send_action_check
  PROVE  Sync'
<1>1. /\ UNCHANGED <<handler, toClient, responder, toServer, link, actions, pushed, isTerminated,
                     has_exception_occurred>>
      /\ consumer.pc = "check"
  BY DEF send_action_check, ConsumerKeeps, OthersKeep, bufferVars
<1>2. PICK c : c = consumer.index
  OBVIOUS
<1>3. Fresh(c)
  BY <1>1, <1>2, SyncIs DEF ListOK, Listed
<1>4. CASE /\ consumer.action.type = "ignore" /\ responses!completed(consumer.index) /\ ActionDone
           /\ log' = [log EXCEPT ![consumer.index + 1].outcome = "ignored"]
  <2>1. responses!completed(c)
    BY <1>2, <1>4
  <2>2. DOMAIN responseMap' = DOMAIN responseMap \ {c}
    BY <2>1, OffList
  <2>3. \A j \in DOMAIN responseMap : j # c => responseMap'[j] = responseMap[j]
    BY <2>1, OffList
  <2>4. log' = [log EXCEPT ![c + 1].outcome = "ignored"]
    BY <1>2, <1>4
  <2>5. QED
    BY <2>2, <2>3, <2>4, <1>1, <1>2, <1>4, ActionDropped
<1>5. CASE /\ consumer.action.type = "read_file" /\ responses!signal_error(consumer.index) /\ ActionDone
           /\ log' = [log EXCEPT ![consumer.index + 1].outcome = "refused"]
  <2>1. responses!SetStatus(c, "error") /\ c \in DOMAIN responseMap
    BY <1>2, <1>3, <1>5 DEF Fresh, responses!signal_error
  <2>2. /\ DOMAIN responseMap' = DOMAIN responseMap
        /\ responseMap'[c] = [action |-> responseMap[c].action, st |-> "error"]
        /\ \A j \in DOMAIN responseMap : j # c => responseMap'[j] = responseMap[j]
    BY <2>1, StatusSet
  <2>3. log' = [log EXCEPT ![c + 1].outcome = "refused"]
    BY <1>2, <1>5
  <2>4. QED
    BY <2>1, <2>2, <2>3, <1>1, <1>2, <1>5, ActionDropped
<1>6. CASE ConsumerGoto("header") /\ UNCHANGED <<responseVars, log>>
  <2>1. responseMap' = responseMap /\ log' = log
    BY <1>6 DEF responseVars
  <2>2. consumer'.pc = "header" /\ consumer'.action = consumer.action /\ consumer'.index = consumer.index
    BY <1>6, ConsumerGoes, SyncIs DEF ConsumerPcs
  <2>3. Threads'
    BY <1>1, <2>1, <2>2, SyncIs DEF Threads
  <2>4. QuietOK'
    <3>1. isTerminated /\ RestorePending => has_exception_occurred
      BY SyncIs DEF QuietOK
    <3>2. QED
      BY <1>1, <2>1, <2>2, <3>1, QuietKept
  <2>5. ServerOK'
    BY <1>1, <2>2, ServerKept, SyncIs
  <2>6. Listed' => Listed /\ consumer'.index = consumer.index
    BY <1>1, <2>2 DEF Listed
  <2>7. QED
    BY <1>1, <2>1, <2>3, <2>4, <2>5, <2>6, NothingSaid DEF Sync
<1>7. QED
  BY <1>4, <1>5, <1>6 DEF send_action_check

-----------------------------------------------------------------------------
\* The action consumer sends.

\* While it does no restore is on its way, at the handler or at the client.
LEMMA NoRestore ==
  ASSUME Sync, consumer.pc \in {"header", "size", "content", "quit"}
  PROVE  /\ handler.pc # "date" /\ ~Restoring
         /\ \A k \in Frames : ~QuitFrame(k) /\ (Header(k) => toServer[k].action.type # "restore")
         /\ Reading => \A k \in Pairs : Says(k) = received => ~Restores(About(k))
         /\ handler.pc # "closed" => Expected(Len(toServer)) \in {"action", "size", "content"}
<1>1. \A i : Restores(i) => i + 1 = Len(log) /\ i \in Nat /\ Listed /\ consumer.index = i
  BY RestoreIsLast, SyncIs DEF Listed, Sending
<1>2. handler.pc # "date"
  <2> SUFFICES ASSUME handler.pc = "date" PROVE FALSE
    OBVIOUS
  <2>1. /\ Busy /\ handler.action.type = "restore" /\ handler.index \in DOMAIN responseMap
        /\ Indexed(handler.index, handler.action)
    BY SyncIs DEF Busy, ListOK, Open, Inv, HandlerOK
  <2>2. Restores(handler.index)
    BY <2>1, OnList, SyncIs DEF Restores, responses!IsRestore, Indexed
  <2>3. Listed => handler.index < consumer.index
    BY <2>1, SyncIs DEF Inv, HandlerOK
  <2>4. QED
    BY <2>2, <2>3, <1>1
<1>3. ~Restoring
  BY <1>1, SyncIs DEF RestoreOK
<1>4. \A k \in Frames : ~QuitFrame(k) /\ (Header(k) => toServer[k].action.type # "restore")
  <2>1. ASSUME NEW k \in Frames, Header(k), toServer[k].action.type = "restore"
        PROVE  FALSE
    <3>1. /\ Idx(k) \in DOMAIN responseMap /\ Indexed(Idx(k), toServer[k].action)
          /\ Listed => Idx(k) < consumer.index
      BY <2>1, SyncIs DEF ListOK, Fresh, Inv, HeadersOK
    <3>2. Restores(Idx(k))
      BY <2>1, <3>1, OnList, SyncIs DEF Restores, responses!IsRestore, Indexed
    <3>3. QED
      BY <3>1, <3>2, <1>1
  <2>2. \A k \in Frames : ~QuitFrame(k)
    BY SyncIs DEF QuietOK
  <2>3. QED
    BY <2>1, <2>2
<1>5. Reading => \A k \in Pairs : Says(k) = received => ~Restores(About(k))
  BY <1>1, SyncIs DEF OrderOK, received, finish
<1>6. handler.pc # "closed" => Expected(Len(toServer)) \in {"action", "size", "content"}
  <2> SUFFICES ASSUME handler.pc # "closed"
               PROVE  Expected(Len(toServer)) \in {"action", "size", "content"}
    OBVIOUS
  <2>1. CASE Len(toServer) = 0
    BY <2>1, <1>2, ExpectedIs, SyncIs DEF Expects
  <2>2. CASE Len(toServer) # 0
    <3>1. PICK n : n = Len(toServer) /\ n \in Frames
      BY <2>2, SyncIs DEF Frames
    <3>2. /\ toServer[n].kind = Expected(n - 1) /\ toServer[n].kind # "nothing"
          /\ toServer[n].kind # "date" /\ n \in Nat /\ n # 0
      BY <3>1, <1>2, SyncIs, ExpectedIs DEF ServerOK
    <3>3. toServer[n].kind \in {"action", "size", "content"}
      <4>1. CASE n = 1
        BY <4>1, <3>2, <1>2, ExpectedIs, SyncIs DEF Expects
      <4>2. CASE n # 1
        <5>1. n - 1 \in Frames
          BY <3>1, <3>2, <4>2 DEF Frames
        <5>2. Expected(n - 1) = Follows(toServer[n - 1])
          BY <5>1, ExpectedIs, SyncIs
        <5>3. Follows(toServer[n - 1]) \in {"size", "date", "action", "content", "nothing"}
          BY Following
        <5>4. QED
          BY <5>2, <5>3, <3>2
      <4>3. QED
        BY <4>1, <4>2
    <3>4. Expected(n) = Follows(toServer[n])
      BY <3>1, ExpectedIs, SyncIs
    <3>5. toServer[n].kind = "action" =>
            toServer[n].action # Quit /\ toServer[n].action.type # "restore"
      BY <3>1, <1>4 DEF Header, QuitFrame
    <3>6. QED
      BY <3>1, <3>3, <3>4, <3>5, Following
  <2>3. QED
    BY <2>1, <2>2
<1>7. QED
  BY <1>2, <1>3, <1>4, <1>5, <1>6

Sends(f) ==
  /\ WriteToServer(<<f>>)
  /\ \/ /\ consumer.pc = "header" /\ f.kind = "action"
        /\ f.action = consumer.action /\ f.action # Quit /\ f.index = consumer.index
        /\ \/ consumer.action.type = "read_file" /\ consumer'.pc = "size"
           \/ consumer.action.type # "read_file" /\ consumer'.pc = "loop"
     \/ consumer.pc = "size" /\ f.kind = "size" /\ consumer'.pc = "content"
     \/ consumer.pc = "content" /\ f.kind = "content" /\ consumer'.pc = "loop"
     \/ consumer.pc = "quit" /\ f.kind = "action" /\ f.action = Quit /\ consumer'.pc = "done"

LEMMA SendsExpected ==
  ASSUME Sync, NEW f, Sends(f), UNCHANGED <<handler, responder, link>>
  PROVE  ServerOK'
<1>1. consumer.pc \in {"header", "size", "content", "quit"}
  BY DEF Sends
<1>2. CASE link # "up" /\ toServer' = toServer
  <2>1. Frames' = Frames /\ \A k : Expected(k)' = Expected(k)
    BY <1>2 DEF Frames, Expected, Expects, Follows
  <2>2. QED
    BY <2>1, <1>2, SyncIs DEF ServerOK
<1>3. CASE /\ link = "up" /\ Len(toServer') = Len(toServer) + 1
           /\ \A i \in 1 .. Len(toServer) : toServer'[i] = toServer[i]
           /\ toServer'[Len(toServer) + 1] = f
  <2>1. PICK n \in Nat : n = Len(toServer)
    BY SyncIs
  <2>2. handler.pc # "closed" /\ handler.pc # "date" /\ handler.pc # "garbled"
    BY <1>1, <1>3, NoRestore, SyncIs DEF Threads, ServerOK
  <2>3. /\ \A k \in 1 .. n : toServer'[k] = toServer[k]
        /\ toServer'[n + 1] = f /\ Frames = 1 .. n /\ Frames' = 1 .. n + 1
        /\ Len(toServer') = n + 1
    BY <1>3, <2>1 DEF Frames
  <2>4. \A k \in 0 .. n : Expected(k)' = Expected(k)
    BY <2>1, <2>3 DEF Expected, Expects, Follows
  <2>5. Expected(n + 1)' = Follows(f)
    <3>1. n + 1 # 0
      BY <2>1
    <3>2. QED
      BY <2>3, <3>1 DEF Expected, Follows
  <2>6. Expected(n) = f.kind
    <3>1. Expected(n) \in {"action", "size", "content"}
      BY <1>1, <2>1, <2>2, NoRestore
    <3>2. /\ consumer.pc = "size" => Expected(n) = "size"
          /\ consumer.pc = "content" => Expected(n) = "content"
          /\ consumer.pc \in {"header", "quit"} => Expected(n) \notin {"size", "content"}
      BY <1>3, <2>1, <2>2, SyncIs DEF ServerOK
    <3>3. QED
      BY <3>1, <3>2 DEF Sends
  <2>7. \A k \in Frames' :
          /\ toServer'[k].kind = Expected(k - 1)' /\ toServer'[k].kind # "nothing"
          /\ toServer'[k].kind # "date"
    <3> SUFFICES ASSUME NEW k \in 1 .. n + 1
                 PROVE  /\ toServer'[k].kind = Expected(k - 1)' /\ toServer'[k].kind # "nothing"
                        /\ toServer'[k].kind # "date"
      BY <2>3
    <3>1. CASE k \in 1 .. n
      <4>1. /\ toServer[k].kind = Expected(k - 1) /\ toServer[k].kind # "nothing"
            /\ toServer[k].kind # "date"
        BY <3>1, <2>2, <2>3, SyncIs DEF ServerOK
      <4>2. k - 1 \in 0 .. n
        BY <3>1
      <4>3. QED
        BY <3>1, <4>1, <4>2, <2>3, <2>4
    <3>2. CASE k = n + 1
      <4>1. k - 1 = n /\ n \in 0 .. n
        BY <3>2
      <4>2. Expected(k - 1)' = f.kind
        BY <4>1, <2>4, <2>6
      <4>3. f.kind \notin {"nothing", "date"}
        BY DEF Sends
      <4>4. QED
        BY <3>2, <4>2, <4>3, <2>3
    <3>3. QED
      BY <3>1, <3>2
  <2>8. /\ consumer'.pc = "size" => Expected(n + 1)' = "size"
        /\ consumer'.pc = "content" => Expected(n + 1)' = "content"
        /\ consumer'.pc \in {"pop", "loop", "add", "check", "header", "quit"} =>
             Expected(n + 1)' \notin {"size", "content"}
    BY <2>5, Following DEF Sends
  <2>9. QED
    BY <2>2, <2>3, <2>7, <2>8 DEF ServerOK
<1>4. QED
  BY <1>2, <1>3, Written, SyncIs DEF Sends, Types

LEMMA FrameSent ==
  ASSUME Sync, Inv', NEW f, Sends(f),
         UNCHANGED <<responseMap, handler, toClient, responder, link, actions, pushed, isTerminated,
                     has_exception_occurred>>,
         Len(log') = Len(log),
         \A i \in 1 .. Len(log) : log'[i].action = log[i].action /\ log'[i].outcome = log[i].outcome,
         consumer'.action \in {consumer.action, None}, consumer'.index \in {consumer.index, 0},
         consumer'.pc \in {"loop", "done"} => consumer'.action = None
  PROVE  Sync'
<1>1. /\ consumer.pc \in {"header", "size", "content", "quit"}
      /\ consumer'.pc \in {"size", "content", "loop", "done"}
  BY DEF Sends
<1>2. /\ handler.pc # "date" /\ ~Restoring
      /\ \A k \in Frames : ~QuitFrame(k)
      /\ Reading => \A k \in Pairs : Says(k) = received => ~Restores(About(k))
  BY <1>1, NoRestore
<1>3. /\ \A k \in Frames' : (k \in Frames /\ toServer'[k] = toServer[k]) \/ toServer'[k] = f
      /\ toServer' = <<>> => toServer = <<>>
  <2>1. CASE toServer' = toServer
    BY <2>1 DEF Frames
  <2>2. CASE /\ Len(toServer') = Len(toServer) + 1
             /\ \A i \in 1 .. Len(toServer) : toServer'[i] = toServer[i]
             /\ toServer'[Len(toServer) + 1] = f
    <3>1. Len(toServer') # 0 /\ Len(<<>>) = 0
      BY <2>2, SyncIs
    <3>2. QED
      BY <2>2, <3>1, SyncIs DEF Frames
  <2>3. QED
    BY <2>1, <2>2, Written, SyncIs DEF Sends, Types
<1>4. \A i \in DOMAIN responseMap :
        /\ i \in 0 .. Len(log) - 1 /\ Same(i) /\ log'[i + 1].action = log[i + 1].action
        /\ log'[i + 1].outcome = log[i + 1].outcome
  <2>1. \A i \in DOMAIN responseMap : i \in 0 .. Len(log) - 1 /\ i + 1 \in 1 .. Len(log)
    BY OnList, SyncIs DEF MapOK
  <2>2. QED
    BY <2>1 DEF Same, Fate
<1>5. /\ ~Listed' /\ (Busy' <=> Busy) /\ (Reading' <=> Reading) /\ (Restoring' <=> Restoring)
      /\ Pairs' = Pairs /\ \A k : About(k)' = About(k) /\ Says(k)' = Says(k)
      /\ \A i : Restores(i)' <=> Restores(i)
  BY <1>1 DEF Listed, Busy, Reading, Restoring, Pairs, About, Says, Restores, responses!IsRestore
<1>6. \A k \in Frames' :
        /\ Header(k)' => \/ k \in Frames /\ Header(k) /\ Idx(k)' = Idx(k)
                         \/ Listed /\ Idx(k)' = consumer.index
        /\ QuitFrame(k)' => consumer.pc = "quit"
  <2> SUFFICES ASSUME NEW k \in Frames'
               PROVE  /\ Header(k)' => \/ k \in Frames /\ Header(k) /\ Idx(k)' = Idx(k)
                                       \/ Listed /\ Idx(k)' = consumer.index
                      /\ QuitFrame(k)' => consumer.pc = "quit"
    OBVIOUS
  <2>1. CASE k \in Frames /\ toServer'[k] = toServer[k]
    BY <2>1, <1>2 DEF Header, Idx, QuitFrame
  <2>2. CASE toServer'[k] = f
    BY <2>2 DEF Header, Idx, QuitFrame, Sends, Listed
  <2>3. QED
    BY <2>1, <2>2, <1>3
<1>7. Threads'
  BY <1>1, SyncIs DEF Threads
<1>8. MapOK'
  BY <1>4, SyncIs DEF MapOK
<1>9. QuietOK'
  <2>1. RestorePending' => RestorePending
    BY PendingKept
  <2>2. isTerminated /\ RestorePending => has_exception_occurred
    BY SyncIs DEF QuietOK
  <2>3. consumer.pc = "quit" => isTerminated /\ actions = <<>> /\ consumer'.pc = "done"
    BY SyncIs DEF QuietOK, Sends
  <2>4. \A i \in DOMAIN responseMap : Restores(i) => consumer.pc # "quit"
    BY SyncIs DEF QuietOK
  <2>5. QED
    BY <2>1, <2>2, <2>3, <2>4, <1>1, <1>5, <1>6, SyncIs DEF QuietOK
<1>10. ServerOK'
  BY SendsExpected
<1>11. ListOK'
  <2>1. Listed => Fresh(consumer.index)
    BY SyncIs DEF ListOK
  <2>2. \A k \in Frames : Header(k) => Fresh(Idx(k))
    BY SyncIs DEF ListOK
  <2>3. \A k \in Frames' : Header(k)' => Fresh(Idx(k))'
    <3> SUFFICES ASSUME NEW k \in Frames', Header(k)' PROVE Fresh(Idx(k))'
      OBVIOUS
    <3>1. PICK i : i = Idx(k)'
      OBVIOUS
    <3>2. Fresh(i)
      BY <1>6, <2>1, <2>2, <3>1
    <3>3. Fresh(i)'
      BY <3>2, <1>4 DEF Fresh, Same, Fate
    <3>4. QED
      BY <3>1, <3>3 DEF Fresh, Fate
  <2>4. Busy => Open(handler.index)'
    BY <1>4, SyncIs DEF ListOK, Open, Same, Fate
  <2>5. QED
    BY <2>3, <2>4, <1>5, SyncIs DEF ListOK
<1>12. AnswersOK'
  BY <1>4, <1>5, AnswersKept, SyncIs DEF AnswersOK, Answer
<1>13. OrderOK'
  <2>1. \A k \in Pairs : Reading /\ Says(k) # finish => \A l \in Frames' : Header(l)' => About(k) < Idx(l)'
    BY <1>6, SyncIs DEF OrderOK
  <2>2. QED
    BY <2>1, <1>5, SyncIs DEF OrderOK
<1>14. AloneOK'
  BY <1>2, <1>5 DEF AloneOK, Restores, responses!IsRestore
<1>15. RestoreOK'
  BY <1>2, <1>5 DEF RestoreOK
<1>16. TruthfulPending'
  BY SyncIs DEF TruthfulPending
<1>17. QED
  BY <1>7, <1>8, <1>9, <1>10, <1>11, <1>12, <1>13, <1>14, <1>15, <1>16 DEF Sync

LEMMA HeaderSync ==
  ASSUME Sync, Inv', send_action_header
  PROVE  Sync'
<1> DEFINE f == [kind |-> "action", index |-> consumer.index, action |-> consumer.action]
<1>1. PICK g : g = f
  OBVIOUS
<1>2. /\ UNCHANGED <<responseMap, handler, toClient, responder, link, actions, pushed, isTerminated,
                     has_exception_occurred, log>>
      /\ consumer.pc = "header" /\ WriteToServer(<<g>>)
      /\ IF consumer.action.type = "read_file" THEN ConsumerGoto("size") ELSE ActionDone
  BY <1>1 DEF send_action_header, ConsumerKeeps, OthersKeep, bufferVars, responseVars
<1>3. g.kind = "action" /\ g.action = consumer.action /\ g.index = consumer.index
  BY <1>1
<1>4. consumer.action \in Action /\ consumer.action # Quit
  <2>1. consumer.action \in Action
    BY <1>2, SyncIs DEF Inv, ConsumerOK, Listed, Indexed
  <2>2. Quit.type \notin FileAction \cup {"restore"}
    BY DEF Quit, FileAction
  <2>3. QED
    BY <2>1, <2>2 DEF Action
<1> HIDE DEF f
<1>5. CASE consumer.action.type = "read_file" /\ ConsumerGoto("size")
  <2>1. consumer'.pc = "size" /\ consumer'.action = consumer.action /\ consumer'.index = consumer.index
    BY <1>5, ConsumerGoes, SyncIs DEF ConsumerPcs
  <2>2. QED
    BY <1>2, <1>3, <1>4, <1>5, <2>1, FrameSent DEF Sends
<1>6. CASE consumer.action.type # "read_file" /\ ActionDone
  <2>1. consumer'.pc = "loop" /\ consumer'.action = None /\ consumer'.index = 0
    BY <1>6 DEF ActionDone
  <2>2. QED
    BY <1>2, <1>3, <1>4, <1>6, <2>1, FrameSent DEF Sends
<1>7. QED
  BY <1>2, <1>5, <1>6

LEMMA SizeSync ==
  ASSUME Sync, Inv', send_file_size
  PROVE  Sync'
<1>1. PICK g : g = [kind |-> "size"]
  OBVIOUS
<1>2. /\ UNCHANGED <<responseMap, handler, toClient, responder, link, actions, pushed, isTerminated,
                     has_exception_occurred, log>>
      /\ consumer.pc = "size" /\ WriteToServer(<<g>>) /\ ConsumerGoto("content")
  BY <1>1 DEF send_file_size, ConsumerKeeps, OthersKeep, bufferVars, responseVars
<1>3. consumer'.pc = "content" /\ consumer'.action = consumer.action /\ consumer'.index = consumer.index
  BY <1>2, ConsumerGoes, SyncIs DEF ConsumerPcs
<1>4. QED
  BY <1>1, <1>2, <1>3, FrameSent DEF Sends

LEMMA ContentSync ==
  ASSUME Sync, Inv', "file_change" \notin Faults, send_file_content
  PROVE  Sync'
<1>1. PICK h \in Hash : /\ WriteToServer(<<ContentFrame(h)>>)
                        /\ log' = [log EXCEPT ![consumer.index + 1].hash = h]
  BY DEF send_file_content
<1>2. PICK g : g = ContentFrame(h)
  OBVIOUS
<1>3. /\ UNCHANGED <<responseMap, handler, toClient, responder, link, actions, pushed, isTerminated,
                     has_exception_occurred>>
      /\ consumer.pc = "content" /\ WriteToServer(<<g>>) /\ ActionDone
  BY <1>1, <1>2 DEF send_file_content, ConsumerKeeps, OthersKeep, bufferVars, responseVars
<1>4. consumer'.pc = "loop" /\ consumer'.action = None /\ consumer'.index = 0
  BY <1>3 DEF ActionDone
<1>5. PICK n : n = consumer.index + 1
  OBVIOUS
<1>6. n \in 1 .. Len(log)
  BY <1>3, <1>5, SyncIs DEF Inv, ConsumerOK, Sending, Indexed
<1>7. /\ Len(log') = Len(log)
      /\ \A i \in 1 .. Len(log) : log'[i].action = log[i].action /\ log'[i].outcome = log[i].outcome
  BY <1>1, <1>5, <1>6, LogHash, SyncIs DEF Types
<1>8. g.kind = "content"
  BY <1>2 DEF ContentFrame
<1>9. QED
  BY <1>3, <1>4, <1>7, <1>8, FrameSent DEF Sends

LEMMA QuitSync ==
  ASSUME Sync, Inv', send_quit
  PROVE  Sync'
<1>1. PICK g : g = [kind |-> "action", index |-> 0, action |-> Quit]
  OBVIOUS
<1>2. /\ UNCHANGED <<responseMap, handler, toClient, responder, link, actions, pushed, isTerminated,
                     has_exception_occurred, log>>
      /\ consumer.pc = "quit" /\ WriteToServer(<<g>>) /\ ConsumerGoto("done")
  BY <1>1 DEF send_quit, ConsumerKeeps, OthersKeep, bufferVars, responseVars
<1>3. consumer'.pc = "done" /\ consumer'.action = consumer.action /\ consumer'.index = consumer.index
      /\ consumer.action = None
  BY <1>2, ConsumerGoes, SyncIs DEF ConsumerPcs, ClientPc, Threads
<1>4. g.kind = "action" /\ g.action = Quit
  BY <1>1
<1>5. QED
  BY <1>2, <1>3, <1>4, FrameSent DEF Sends

-----------------------------------------------------------------------------
\* The response consumer reads.

LEMMA SeqEmpty == ASSUME NEW s, IsSeq(s) PROVE s = <<>> <=> Len(s) = 0
<1>1. PICK S : s \in Seq(S)
  BY DEF IsSeq
<1>2. QED
  BY <1>1, EmptySeq

LEMMA InputRead ==
  ASSUME IsSeq(toClient), NEW n \in Nat, n <= Len(toClient), toClient' = RestInput(n)
  PROVE  /\ IsSeq(toClient') /\ Len(toClient) \in Nat /\ Len(toClient') = Len(toClient) - n
         /\ \A j \in 1 .. Len(toClient') : toClient'[j] = toClient[j + n]
<1> DEFINE S == {toClient[i] : i \in 1 .. Len(toClient)}
<1>1. toClient \in Seq(S) /\ Len(toClient) \in Nat
  BY SeqLen DEF IsSeq
<1> HIDE DEF S
<1>2. PICK m \in Nat : m = Len(toClient)
  BY <1>1
<1>3. n + 1 \in 1 .. m + 1 /\ m \in n + 1 - 1 .. m
  BY <1>2
<1>4. /\ SubSeq(toClient, n + 1, m) \in Seq(S)
      /\ Len(SubSeq(toClient, n + 1, m)) = m - (n + 1) + 1
      /\ \A i \in 1 .. m - (n + 1) + 1 : SubSeq(toClient, n + 1, m)[i] = toClient[n + 1 + i - 1]
  BY <1>1, <1>2, <1>3, SubSeqProperties
<1>5. toClient' = SubSeq(toClient, n + 1, m)
  BY <1>2 DEF RestInput
<1>6. IsSeq(toClient')
  BY <1>4, <1>5, SeqAny
<1>7. QED
  BY <1>2, <1>4, <1>5, <1>6

LEMMA PairTaken ==
  ASSUME IsSeq(toClient), Len(toClient) >= 2, toClient' = RestInput(2)
  PROVE  /\ IsSeq(toClient') /\ Len(toClient) \in Nat /\ Len(toClient') = Len(toClient) - 2
         /\ \A j \in 1 .. Len(toClient') : toClient'[j] = toClient[j + 2]
         /\ 1 \in Pairs /\ About(1) = toClient[1].n /\ Says(1) = toClient[2].n
         /\ \A k \in Pairs' : /\ k \in Nat /\ k >= 1 /\ k + 1 \in Pairs
                              /\ About(k)' = About(k + 1) /\ Says(k)' = Says(k + 1)
<1>1. 2 <= Len(toClient)
  BY SeqLen
<1>2. /\ IsSeq(toClient') /\ Len(toClient) \in Nat /\ Len(toClient') = Len(toClient) - 2
      /\ \A j \in 1 .. Len(toClient') : toClient'[j] = toClient[j + 2]
  BY <1>1, InputRead
<1>3. 1 \in Pairs /\ About(1) = toClient[1].n /\ Says(1) = toClient[2].n
  BY <1>2 DEF Pairs, About, Says
<1>4. ASSUME NEW k \in Pairs'
      PROVE  /\ k \in Nat /\ k >= 1 /\ k + 1 \in Pairs
             /\ About(k)' = About(k + 1) /\ Says(k)' = Says(k + 1)
  <2>1. /\ k \in Nat /\ k >= 1 /\ 2 * k <= Len(toClient')
        /\ 2 * k - 1 \in 1 .. Len(toClient') /\ 2 * k \in 1 .. Len(toClient')
    BY <1>2, <1>4 DEF Pairs
  <2>2. toClient'[2 * k - 1] = toClient[2 * (k + 1) - 1] /\ toClient'[2 * k] = toClient[2 * (k + 1)]
    <3>1. toClient'[2 * k - 1] = toClient[2 * k - 1 + 2] /\ toClient'[2 * k] = toClient[2 * k + 2]
      BY <1>2, <2>1
    <3>2. 2 * k - 1 + 2 = 2 * (k + 1) - 1 /\ 2 * k + 2 = 2 * (k + 1)
      BY <2>1
    <3>3. QED
      BY <3>1, <3>2
  <2>3. k + 1 \in Pairs
    BY <1>2, <2>1 DEF Pairs
  <2>4. QED
    BY <2>1, <2>2, <2>3 DEF About, Says
<1>5. QED
  BY <1>2, <1>3, <1>4

\* It goes on in its loop, or ends.
LEMMA ResponderMoves ==
  ASSUME Sync, Inv',
         UNCHANGED <<responseMap, log, toServer, toClient, handler, consumer, actions, pushed,
                     isTerminated, link>>,
         has_exception_occurred' \in BOOLEAN, has_exception_occurred => has_exception_occurred',
         responder' \in [pc : ClientPc \cup {"read"}, index : Nat, left : Nat],
         Reading' => Reading,
         responder.pc = "count" => responder'.pc = "failed", responder.pc # "failed"
  PROVE  Sync'
<1>1. Threads'
  BY SyncIs DEF Threads
<1>2. QuietOK'
  <2>1. isTerminated /\ RestorePending => has_exception_occurred
    BY SyncIs DEF QuietOK
  <2>2. QED
    BY <2>1, QuietKept
<1>3. ServerOK'
  BY ServerKept, SyncIs
<1>4. /\ Frames' = Frames /\ Pairs' = Pairs
      /\ (Busy' <=> Busy) /\ (Listed' <=> Listed)
      /\ \A k : /\ Header(k)' <=> Header(k)
                /\ Idx(k)' = Idx(k) /\ About(k)' = About(k) /\ Says(k)' = Says(k)
      /\ \A i : Fate(i)' = Fate(i) /\ (Restores(i)' <=> Restores(i))
                /\ (Fresh(i)' <=> Fresh(i)) /\ (Open(i)' <=> Open(i))
      /\ \A i, status : Answer(i, status)' <=> Answer(i, status)
  BY DEF Frames, Pairs, Reading, Restoring, Busy, Header, Idx, About, Says, Fate, Restores,
         responses!IsRestore, Fresh, Open, Answer, Listed
<1>5. MapOK' /\ TruthfulPending'
  BY SyncIs DEF MapOK, TruthfulPending
<1>6. ListOK'
  BY <1>4, SyncIs DEF ListOK
<1>7. AnswersOK'
  BY <1>4, SyncIs DEF AnswersOK
<1>8. OrderOK'
  BY <1>4, SyncIs DEF OrderOK
<1>9. AloneOK'
  BY <1>4, SyncIs DEF AloneOK
<1>10. RestoreOK'
  BY DEF RestoreOK, Restoring, ClientPc
<1>11. QED
  BY <1>1, <1>2, <1>3, <1>5, <1>6, <1>7, <1>8, <1>9, <1>10 DEF Sync

LEMMA ResponderGoes ==
  ASSUME Threads, NEW pc \in ClientPc \cup {"read", "date", "count", "entries", "rename"}, ResponderGoto(pc)
  PROVE  /\ responder' \in [pc : ClientPc \cup {"read", "date", "count", "entries", "rename"},
                            index : Nat, left : Nat]
         /\ responder'.pc = pc /\ responder'.index = responder.index /\ responder'.left = responder.left
BY DEF Threads, ResponderGoto

LEMMA ResponderLoopSync ==
  ASSUME Sync, Inv', ResponderLoop
  PROVE  Sync'
<1>1. PICK pc \in {"done", "read"} : ResponderGoto(pc)
  BY DEF ResponderLoop
<1>2. /\ UNCHANGED <<responseMap, log, toServer, toClient, handler, consumer, actions, pushed,
                     isTerminated, link>>
      /\ has_exception_occurred' = has_exception_occurred /\ responder.pc = "loop"
  BY DEF ResponderLoop, ResponderKeeps, responseVars, bufferVars
<1>3. has_exception_occurred' \in BOOLEAN
  BY <1>2, SyncIs DEF Threads
<1>4. responder' \in [pc : ClientPc \cup {"read"}, index : Nat, left : Nat]
  BY <1>1, SyncIs DEF Threads, ResponderGoto, ClientPc
<1>5. Reading
  BY <1>2 DEF Reading
<1>6. QED
  BY <1>2, <1>3, <1>4, <1>5, ResponderMoves

LEMMA ResponderThrowsSync ==
  ASSUME Sync, Inv', ResponderThrows
  PROVE  Sync'
<1>1. /\ UNCHANGED <<responseMap, log, toServer, toClient, handler, consumer, actions, pushed,
                     isTerminated, link>>
      /\ has_exception_occurred' = TRUE /\ responder.pc # "failed"
      /\ responder' = [pc |-> "failed", index |-> 0, left |-> 0]
  BY DEF ResponderThrows, ResponderIdle, responseVars, bufferVars, netVars
<1>2. responder' \in [pc : ClientPc \cup {"read"}, index : Nat, left : Nat] /\ ~Reading' /\ responder'.pc = "failed"
  BY <1>1 DEF ClientPc, Reading
<1>3. QED
  BY <1>1, <1>2, ResponderMoves

\* A response that is about i and tells of s is taken, and its action updated.
LEMMA ResponseTaken ==
  ASSUME Sync, Inv', responder.pc = "read", Len(toClient) >= 2, toClient' = RestInput(2),
         NEW i, i = toClient[1].n, NEW s, s = toClient[2].n,
         UNCHANGED <<log, toServer, handler, consumer, actions, pushed, isTerminated, link,
                     has_exception_occurred>>,
         NEW pc \in {"loop", "done"}, ResponderGoto(pc),
         DOMAIN responseMap' \subseteq DOMAIN responseMap,
         \A j \in DOMAIN responseMap : j # i => j \in DOMAIN responseMap' /\ responseMap'[j] = responseMap[j],
         s = finish => responseMap' = responseMap,
         s = completed => i \notin DOMAIN responseMap',
         s \in {received, error} => i \in DOMAIN responseMap',
         s = received => responseMap'[i] = [action |-> responseMap[i].action, st |-> "received"],
         s = error => responseMap'[i] = [action |-> responseMap[i].action, st |-> "error"]
  PROVE  Sync'
<1>1. /\ IsSeq(toClient') /\ Len(toClient) \in Nat /\ Len(toClient') = Len(toClient) - 2
      /\ \A j \in 1 .. Len(toClient') : toClient'[j] = toClient[j + 2]
      /\ 1 \in Pairs /\ About(1) = i /\ Says(1) = s
      /\ \A k \in Pairs' : /\ k \in Nat /\ k >= 1 /\ k + 1 \in Pairs
                           /\ About(k)' = About(k + 1) /\ Says(k)' = Says(k + 1)
  BY PairTaken, SyncIs DEF Threads
<1>2. /\ Reading /\ ~Restoring /\ ~Restoring' /\ (Busy' <=> Busy) /\ (Listed' <=> Listed) /\ Frames' = Frames
      /\ \A k : (Header(k)' <=> Header(k)) /\ Idx(k)' = Idx(k) /\ (QuitFrame(k)' <=> QuitFrame(k))
      /\ responder'.pc = pc
      /\ responder' \in [pc : ClientPc \cup {"read", "date", "count", "entries", "rename"},
                         index : Nat, left : Nat]
  <2>1. /\ responder'.pc = pc
        /\ responder' \in [pc : ClientPc \cup {"read", "date", "count", "entries", "rename"},
                           index : Nat, left : Nat]
    BY ResponderGoes, SyncIs DEF ClientPc
  <2>2. QED
    BY <2>1 DEF Reading, Restoring, Busy, Listed, Frames, Header, Idx, QuitFrame
<1>3. s # finish =>
        /\ i \in DOMAIN responseMap /\ s \in {received, completed, error}
        /\ s = completed => Fate(i) \in {"stored", "served"}
        /\ s = error => Fate(i) = "refused"
        /\ \A l \in Pairs : 1 < l /\ Says(l) # finish =>
             i < About(l) \/ (i = About(l) /\ s = received /\ Says(l) # received)
        /\ Busy => i <= handler.index /\ (s # received => i < handler.index)
        /\ \A l \in Frames : Header(l) => i < Idx(l)
        /\ Listed => i < consumer.index
  BY <1>1, <1>2, SyncIs DEF AnswersOK, OrderOK, Answer
<1>4. \A j \in DOMAIN responseMap :
        /\ j \in Nat /\ j + 1 \in 1 .. Len(log)
        /\ responseMap[j].action = log[j + 1].action
        /\ responseMap[j].st \in responses!ActionStatus
  BY OnList, SyncIs DEF responses!ActionStatus
<1>5. \A j \in DOMAIN responseMap : j # i \/ s = finish => Same(j)
  BY DEF Same, Fate
<1>6. \A j \in DOMAIN responseMap' :
        /\ j \in DOMAIN responseMap /\ responseMap'[j].action = responseMap[j].action
        /\ Restores(j)' <=> Restores(j)
  <2> SUFFICES ASSUME NEW j \in DOMAIN responseMap'
               PROVE  responseMap'[j].action = responseMap[j].action
    BY DEF Restores, responses!IsRestore
  <2>1. CASE j # i \/ s = finish
    BY <2>1
  <2>2. CASE j = i /\ s # finish
    BY <2>2, <1>3
  <2>3. QED
    BY <2>1, <2>2
<1>7. Threads'
  BY <1>1, <1>2, SyncIs DEF Threads
<1>8. MapOK'
  <2>1. \A j \in DOMAIN responseMap :
          responseMap[j] \in [action : {log[j + 1].action}, st : responses!ActionStatus] /\ j \in 0 .. Len(log) - 1
    BY SyncIs DEF MapOK
  <2>2. i \in DOMAIN responseMap' /\ s # finish =>
          responseMap'[i] \in [action : {log[i + 1].action}, st : responses!ActionStatus]
    BY <1>3, <1>4 DEF responses!ActionStatus
  <2>3. ASSUME NEW j \in DOMAIN responseMap'
        PROVE  responseMap'[j] \in [action : {log[j + 1].action}, st : responses!ActionStatus]
    BY <2>1, <2>2
  <2>4. QED
    BY <2>1, <2>3 DEF MapOK
<1>9. QuietOK'
  <2>1. RestorePending' => RestorePending
    BY <1>6 DEF RestorePending, Restores, responses!IsRestore
  <2>2. QED
    BY <2>1, <1>2, <1>6, SyncIs DEF QuietOK
<1>10. ServerOK'
  BY ServerKept, SyncIs
<1>11. ListOK'
  <2>1. Listed => consumer.index # i \/ s = finish
    BY <1>3, SyncIs DEF Inv, ConsumerOK, Indexed
  <2>2. \A k \in Frames : Header(k) => Idx(k) # i \/ s = finish
    BY <1>3, SyncIs DEF Inv, HeadersOK, Indexed
  <2>3. Busy => handler.index # i \/ s = finish \/ s = received
    BY <1>3, SyncIs DEF Inv, HandlerOK, Indexed
  <2>4. Listed => Fresh(consumer.index)'
    BY <1>5, <2>1, SyncIs DEF ListOK, Fresh, Same, Fate
  <2>5. \A k \in Frames : Header(k) => Fresh(Idx(k))'
    BY <1>5, <2>2, <1>2, SyncIs DEF ListOK, Fresh, Same, Fate
  <2>6. Busy => Open(handler.index)'
    BY <1>5, <2>3, SyncIs DEF ListOK, Open, Same, Fate
  <2>7. QED
    BY <2>4, <2>5, <2>6, <1>2, SyncIs DEF ListOK
<1>12. AnswersOK'
  <2>1. \E n \in 0 .. Len(toClient') : Len(toClient') = 2 * n
    <3>1. PICK n \in 0 .. Len(toClient) : Len(toClient) = 2 * n
      BY <1>2, SyncIs DEF AnswersOK
    <3>2. n - 1 \in 0 .. Len(toClient') /\ Len(toClient') = 2 * (n - 1)
      BY <3>1, <1>1
    <3>3. QED
      BY <3>2
  <2>2. \A j \in 1 .. Len(toClient') : toClient'[j].kind = "int"
    <3>1. \A j \in 1 .. Len(toClient) : toClient[j].kind = "int"
      BY <1>2, SyncIs DEF AnswersOK
    <3>2. \A j \in 1 .. Len(toClient') : j + 2 \in 1 .. Len(toClient)
      BY <1>1
    <3>3. QED
      BY <3>1, <3>2, <1>1
  <2>3. ASSUME NEW k \in Pairs', Says(k)' # finish
        PROVE  Answer(About(k), Says(k))'
    <3>1. PICK l, a, t : l = k + 1 /\ a = About(l) /\ t = Says(l) /\ a = About(k)' /\ t = Says(k)'
      BY <1>1, <2>3
    <3>2. l \in Pairs /\ 1 < l /\ t # finish /\ Answer(a, t)
      BY <1>1, <1>2, <2>3, <3>1, SyncIs DEF AnswersOK
    <3>3. Answer(a, t)'
      <4>1. CASE a # i \/ s = finish
        BY <4>1, <3>2, <1>5 DEF Answer, Same, Fate
      <4>2. CASE a = i /\ s # finish
        <5>1. a \in Nat /\ s = received /\ t # received
          BY <4>2, <3>1, <3>2, <1>3, <1>4
        <5>2. QED
          BY <5>1, <4>2, <3>2 DEF Answer, Fate, received, error, completed
      <4>3. QED
        BY <4>1, <4>2
    <3>4. QED
      BY <3>1, <3>3 DEF Answer, Fate
  <2>4. QED
    BY <2>1, <2>2, <2>3 DEF AnswersOK
<1>13. OrderOK'
  <2> SUFFICES ASSUME NEW k \in Pairs', Says(k)' # finish
               PROVE  /\ \A l \in Pairs' : k < l /\ Says(l)' # finish =>
                           \/ About(k)' < About(l)'
                           \/ About(k)' = About(l)' /\ Says(k)' = received /\ Says(l)' # received
                      /\ Busy => About(k)' <= handler.index /\ (Says(k)' # received => About(k)' < handler.index)
                      /\ \A l \in Frames : Header(l) => About(k)' < Idx(l)
                      /\ Listed => About(k)' < consumer.index
    BY <1>2 DEF OrderOK
  <2>1. k + 1 \in Pairs /\ Says(k + 1) # finish
    BY <1>1
  <2>2. \A l \in Pairs' : k < l => k + 1 < l + 1 /\ l + 1 \in Pairs
    BY <1>1
  <2>3. QED
    BY <2>1, <2>2, <1>1, <1>2, SyncIs DEF OrderOK
<1>14. AloneOK'
  <2>1. \A k \in Pairs' : Says(k)' = received /\ Restores(About(k))' => Restores(About(k + 1)) /\ Says(k + 1) = received
    BY <1>1, <1>6 DEF Restores, responses!IsRestore
  <2>2. \A k \in Pairs' : 2 * (k + 1) = Len(toClient) => 2 * k = Len(toClient')
    BY <1>1
  <2>3. QED
    BY <2>1, <2>2, <1>1, <1>2, SyncIs DEF AloneOK
<1>15. RestoreOK'
  BY <1>2 DEF RestoreOK
<1>16. TruthfulPending'
  <2>1. ASSUME NEW n \in 1 .. Len(log)
        PROVE  /\ n - 1 \notin DOMAIN responseMap' => log[n].outcome \in {"stored", "served", "ignored"}
               /\ n - 1 \in DOMAIN responseMap' /\ responseMap'[n - 1].st = "error"
                    => log[n].outcome = "refused"
    <3>1. CASE n - 1 # i \/ s = finish
      BY <3>1, SyncIs DEF TruthfulPending
    <3>2. CASE n - 1 = i /\ s # finish
      <4>1. Fate(i) = log[n].outcome
        <5>1. i + 1 = n
          BY <3>2
        <5>2. QED
          BY <5>1 DEF Fate
      <4>2. QED
        BY <4>1, <3>2, <1>3
    <3>3. QED
      BY <3>1, <3>2
  <2>2. QED
    BY <2>1 DEF TruthfulPending
<1>17. QED
  BY <1>7, <1>8, <1>9, <1>10, <1>11, <1>12, <1>13, <1>14, <1>15, <1>16 DEF Sync

LEMMA RestoreBegins ==
  ASSUME Sync, Inv', responder.pc = "read", Len(toClient) >= 2, toClient' = RestInput(2),
         NEW i, i = toClient[1].n, toClient[2].n = received, Restores(i),
         UNCHANGED <<responseMap, log, toServer, handler, consumer, actions, pushed, isTerminated, link,
                     has_exception_occurred>>,
         responder'.pc = "date", responder'.index = i,
         responder' \in [pc : ClientPc \cup {"read", "date", "count", "entries", "rename"},
                         index : Nat, left : Nat]
  PROVE  Sync'
<1>1. /\ IsSeq(toClient') /\ Len(toClient) \in Nat /\ Len(toClient') = Len(toClient) - 2
      /\ 1 \in Pairs /\ About(1) = i /\ Says(1) = received
  BY PairTaken, SyncIs DEF Threads
<1>2. Reading /\ received # finish
  BY DEF Reading, received, finish
<1>3. /\ 2 * 1 = Len(toClient)
      /\ handler.pc # "closed" => handler.pc = "date" /\ toServer = <<>> /\ handler.index = i
  BY <1>1, <1>2, SyncIs DEF AloneOK
<1>4. toClient' = <<>>
  <2>1. IsSeq(toClient') /\ Len(toClient') = 0
    <3>1. Len(toClient) = 2
      BY <1>3
    <3>2. Len(toClient') = 0
      BY <3>1, <1>1
    <3>3. QED
      BY <3>2, <1>1
  <2>2. PICK t : t = toClient'
    OBVIOUS
  <2>3. IsSeq(t) /\ Len(t) = 0
    BY <2>1, <2>2
  <2>4. t = <<>>
    BY <2>3, SeqEmpty, Zenon
  <2>5. QED
    BY <2>2, <2>4
<1>5. /\ responseMap[i].st = "sent" /\ i \in DOMAIN responseMap /\ i \in Nat
  <2>1. Answer(About(1), Says(1))
    BY <1>1, <1>2, SyncIs DEF AnswersOK
  <2>2. Answer(i, received)
    BY <2>1, <1>1
  <2>3. QED
    BY <2>2, RestoreIsLast, SyncIs DEF Answer
<1>7. ~Listed /\ \A k \in Frames : ~Header(k)
  <2>1. /\ Listed => i < consumer.index
        /\ \A k \in Frames : Header(k) => i < Idx(k)
    BY <1>1, <1>2, SyncIs DEF OrderOK
  <2>2. /\ Listed => consumer.index = i
        /\ \A k \in Frames : Header(k) => Idx(k) <= i /\ Idx(k) \in Nat
    BY RestoreIsLast, SyncIs DEF Inv, HeadersOK, Indexed
  <2>3. QED
    BY <2>1, <2>2, <1>5
<1>8. /\ (Busy' <=> Busy) /\ (Listed' <=> Listed) /\ Frames' = Frames /\ ~Reading'
      /\ \A k : (Header(k)' <=> Header(k)) /\ Idx(k)' = Idx(k)
      /\ \A j : (Restores(j)' <=> Restores(j)) /\ (Fresh(j)' <=> Fresh(j)) /\ (Open(j)' <=> Open(j))
  BY DEF Busy, Listed, Frames, Header, Idx, Reading, Restores, responses!IsRestore, Fresh, Open, Fate
<1>9. Threads'
  BY <1>1, SyncIs DEF Threads
<1>10. MapOK' /\ TruthfulPending'
  BY SyncIs DEF MapOK, TruthfulPending
<1>11. QuietOK'
  <2>1. isTerminated /\ RestorePending => has_exception_occurred
    BY SyncIs DEF QuietOK
  <2>2. QED
    BY <2>1, QuietKept
<1>12. ServerOK'
  BY ServerKept, SyncIs
<1>13. ListOK'
  BY <1>8, SyncIs DEF ListOK
<1>14. RestoreOK'
  <2>1. Busy => handler.index = i
    BY <1>3 DEF Busy
  <2>2. QED
    BY <2>1, <1>3, <1>4, <1>5, <1>7, <1>8 DEF RestoreOK
<1>15. QED
  BY <1>8, <1>9, <1>10, <1>11, <1>12, <1>13, <1>14 DEF Sync, AnswersOK, OrderOK, AloneOK

LEMMA Statuses ==
  /\ received # completed /\ received # error /\ received # finish
  /\ completed # error /\ completed # finish /\ error # finish
BY DEF received, completed, error, finish

LEMMA Dispatched ==
  ASSUME NEW i, NEW s, Dispatch(i, s)
  PROVE  /\ s = completed => responses!completed(i)
         /\ s = received => responses!SetStatus(i, "received")
         /\ s = error => responses!SetStatus(i, "error")
         /\ s \notin {received, completed, error} => responseMap' = responseMap
<1> DEFINE A == responses!completed(i)
           B == responses!receive(i)
           C == responses!signal_error(i)
           D == UNCHANGED responseVars
<1>1. (CASE s = completed -> A [] s = received -> B [] s = error -> C [] OTHER -> D)
  BY Zenon DEF Dispatch
<1> HIDE DEF A, B, C, D
<1>2. /\ s = completed => A
      /\ s = received => B
      /\ s = error => C
      /\ s \notin {received, completed, error} => D
  BY <1>1, Statuses
<1>3. QED
  BY <1>2 DEF A, B, C, D, responses!receive, responses!signal_error, responseVars

LEMMA ReadResponseSync ==
  ASSUME Sync, Inv', ReadResponse
  PROVE  Sync'
<1>1. /\ UNCHANGED <<log, toServer, handler, consumer, actions, pushed, isTerminated, link,
                     has_exception_occurred>>
      /\ responder.pc = "read" /\ Len(toClient) >= 2 /\ toClient' = RestInput(2)
  BY DEF ReadResponse, ResponderKeeps, bufferVars
<1>2. PICK i, s : i = toClient[1].n /\ s = toClient[2].n
  OBVIOUS
<1>3. /\ toClient[1].kind = "int" /\ toClient[2].kind = "int"
      /\ s # finish => Answer(i, s)
  <2>1. Reading /\ 1 \in Pairs /\ About(1) = i /\ Says(1) = s
    BY <1>1, <1>2, PairTaken, SyncIs DEF Reading, Threads
  <2>2. 1 \in 1 .. Len(toClient) /\ 2 \in 1 .. Len(toClient)
    BY <1>1, SyncIs
  <2>3. QED
    BY <2>1, <2>2, SyncIs DEF AnswersOK
<1>4. IF s = received /\ Restores(i)
      THEN responder' = [responder EXCEPT !.pc = "date", !.index = i] /\ UNCHANGED responseVars
      ELSE Dispatch(i, s) /\ ResponderGoto(IF s = finish THEN "done" ELSE "loop")
  BY <1>2, <1>3 DEF ReadResponse, Restores
<1>5. CASE s = received /\ Restores(i)
  <2>1. responseMap' = responseMap /\ responder' = [responder EXCEPT !.pc = "date", !.index = i]
    BY <1>4, <1>5 DEF responseVars
  <2>2. i \in Nat
    BY <1>5, RestoreIsLast, SyncIs
  <2>3. /\ responder'.pc = "date" /\ responder'.index = i
        /\ responder' \in [pc : ClientPc \cup {"read", "date", "count", "entries", "rename"},
                           index : Nat, left : Nat]
    BY <2>1, <2>2, SyncIs DEF Threads
  <2>4. QED
    BY <2>1, <2>3, <1>1, <1>2, <1>5, RestoreBegins
<1>6. CASE ~(s = received /\ Restores(i))
  <2>1. PICK pc \in {"loop", "done"} : ResponderGoto(pc)
    BY <1>4, <1>6
  <2>2. Dispatch(i, s)
    BY <1>4, <1>6
  <2>3. CASE s = finish
    <3>1. responseMap' = responseMap
      BY <2>2, <2>3, Dispatched, Statuses
    <3>2. s \notin {completed, received, error}
      BY <2>3, Statuses
    <3>3. QED
      BY <3>1, <3>2, <2>1, <2>3, <1>1, <1>2, ResponseTaken
  <2>4. CASE s = completed
    <3>1. responses!completed(i)
      BY <2>2, <2>4, Dispatched
    <3>2. DOMAIN responseMap' = DOMAIN responseMap \ {i}
      BY <3>1, OffList
    <3>3. \A j \in DOMAIN responseMap : j # i => responseMap'[j] = responseMap[j]
      BY <3>1, OffList
    <3>4. s \notin {received, error, finish}
      BY <2>4, Statuses
    <3>5. QED
      BY <3>2, <3>3, <3>4, <2>1, <2>4, <1>1, <1>2, ResponseTaken
  <2>5. CASE s = received \/ s = error
    <3>1. PICK st : /\ st = IF s = received THEN "received" ELSE "error"
                    /\ responses!SetStatus(i, st)
      BY <2>2, <2>5, Dispatched, Statuses
    <3>2. i \in DOMAIN responseMap
      BY <1>3, <2>5, Statuses DEF Answer
    <3>3. /\ DOMAIN responseMap' = DOMAIN responseMap
          /\ responseMap'[i] = [action |-> responseMap[i].action, st |-> st]
          /\ \A j \in DOMAIN responseMap : j # i => responseMap'[j] = responseMap[j]
      BY <3>1, <3>2, StatusSet
    <3>4. /\ s \notin {completed, finish}
          /\ s = received => st = "received"
          /\ s = error => st = "error"
      BY <2>5, <3>1, Statuses
    <3>5. /\ s = received => responseMap'[i] = [action |-> responseMap[i].action, st |-> "received"]
          /\ s = error => responseMap'[i] = [action |-> responseMap[i].action, st |-> "error"]
      BY <3>3, <3>4
    <3>6. \A j \in DOMAIN responseMap : j # i => j \in DOMAIN responseMap' /\ responseMap'[j] = responseMap[j]
      BY <3>3
    <3>7. DOMAIN responseMap' \subseteq DOMAIN responseMap /\ i \in DOMAIN responseMap'
      BY <3>2, <3>3
    <3>8. s # finish /\ s # completed
      BY <3>4
    <3>9. QED
      BY <3>5, <3>6, <3>7, <3>8, <2>1, <1>1, <1>2, ResponseTaken
  <2>6. QED
    BY <2>3, <2>4, <2>5, <1>3 DEF Answer
<1>7. QED
  BY <1>5, <1>6

-----------------------------------------------------------------------------
\* The response consumer restores.

\* While the handler is not busy no date is on its way.
LEMMA ServerIdle ==
  ASSUME ServerOK, ~Busy, UNCHANGED <<handler, toServer, link, consumer>>
  PROVE  ServerOK'
<1>1. Frames' = Frames /\ \A k : Expected(k)' = Expected(k)
  BY DEF Frames, Expected, Expects, Follows
<1>2. handler.pc # "date"
  BY DEF Busy
<1>3. QED
  BY <1>1, <1>2 DEF ServerOK

LEMMA RestoreGoes ==
  ASSUME Sync, Inv', Restoring, ~Busy,
         UNCHANGED <<responseMap, log, toServer, handler, consumer, actions, pushed, isTerminated, link,
                     has_exception_occurred>>,
         responder'.pc \in {"entries", "rename"}, responder'.index = responder.index,
         responder' \in [pc : ClientPc \cup {"read", "date", "count", "entries", "rename"},
                         index : Nat, left : Nat],
         responder'.pc = "rename" => responder'.left = 0,
         IsSeq(toClient'), NEW n, n = responder'.left, Len(toClient') = n + 2,
         \A j \in 1 .. n : toClient'[j].kind = "entry",
         toClient'[n + 1] = Int32(responder.index), toClient'[n + 2] = Int32(completed),
         Fate(responder.index) = "served"
  PROVE  Sync'
<1>1. n \in Nat
  OBVIOUS
<1>2. /\ (Busy' <=> Busy) /\ (Listed' <=> Listed) /\ Frames' = Frames /\ ~Reading'
      /\ \A k : (Header(k)' <=> Header(k)) /\ Idx(k)' = Idx(k)
      /\ \A j : (Restores(j)' <=> Restores(j)) /\ (Fresh(j)' <=> Fresh(j)) /\ (Open(j)' <=> Open(j))
  BY DEF Busy, Listed, Frames, Header, Idx, Reading, Restores, responses!IsRestore, Fresh, Open, Fate
<1>3. Threads'
  BY SyncIs DEF Threads
<1>4. MapOK' /\ TruthfulPending'
  BY SyncIs DEF MapOK, TruthfulPending
<1>5. QuietOK'
  <2>1. isTerminated /\ RestorePending => has_exception_occurred
    BY SyncIs DEF QuietOK
  <2>2. QED
    BY <2>1, QuietKept
<1>6. ServerOK'
  BY ServerIdle, SyncIs
<1>7. ListOK'
  BY <1>2, SyncIs DEF ListOK
<1>8. RestoreOK'
  <2>1. Block(responder.left, 0)'
    <3>1. 0 + 1 .. 0 + n = 1 .. n /\ 0 + n + 2 = n + 2 /\ 0 + n + 1 = n + 1
      BY <1>1
    <3>2. /\ Len(toClient') = 0 + n + 2
          /\ \A j \in 0 + 1 .. 0 + n : toClient'[j].kind = "entry"
          /\ toClient'[0 + n + 1] = Int32(responder'.index) /\ toClient'[0 + n + 2] = Int32(completed)
          /\ Fate(responder.index)' = "served"
      BY <3>1 DEF Fate
    <3>3. QED
      BY <3>2 DEF Block, Fate
  <2>2. /\ Restores(responder.index) /\ responseMap[responder.index].st = "sent"
        /\ ~Listed /\ \A k \in Frames : ~Header(k)
    BY SyncIs DEF RestoreOK
  <2>3. Restores(responder.index)'
    BY <2>2 DEF Restores, responses!IsRestore
  <2>4. QED
    BY <1>2, <2>1, <2>2, <2>3 DEF RestoreOK
<1>9. QED
  BY <1>2, <1>3, <1>4, <1>5, <1>6, <1>7, <1>8 DEF Sync, AnswersOK, OrderOK, AloneOK

LEMMA CountSync ==
  ASSUME Sync, Inv', action_restore_count
  PROVE  Sync'
<1>1. /\ UNCHANGED <<responseMap, log, toServer, handler, consumer, actions, pushed, isTerminated, link,
                     has_exception_occurred>>
      /\ responder.pc = "count" /\ toClient # <<>> /\ toClient' = RestInput(1)
      /\ responder' = IF Head(toClient).kind = "int"
                      THEN [responder EXCEPT !.pc = "entries", !.left = Head(toClient).n]
                      ELSE [responder EXCEPT !.pc = "garbled"]
  BY DEF action_restore_count, ResponderKeeps, responseVars, bufferVars
<1>2. Restoring
  BY <1>1 DEF Restoring
<1>3. PICK n \in 0 .. Len(toClient) : toClient[1] = Int32(n) /\ Block(n, 1)
  BY <1>1, <1>2, SyncIs DEF RestoreOK
<1>4. ~Busy
  BY <1>1, <1>2, SyncIs DEF RestoreOK
<1>5. /\ Len(toClient) = 1 + n + 2 /\ n \in Nat
      /\ \A j \in 2 .. 1 + n : toClient[j].kind = "entry"
      /\ toClient[1 + n + 1] = Int32(responder.index) /\ toClient[1 + n + 2] = Int32(completed)
      /\ Fate(responder.index) = "served"
  BY <1>3, SyncIs DEF Block
<1>6. IsSeq(toClient) /\ 1 <= Len(toClient)
  BY <1>5, SyncIs DEF Threads
<1>7. /\ IsSeq(toClient') /\ Len(toClient') = Len(toClient) - 1
      /\ \A j \in 1 .. Len(toClient') : toClient'[j] = toClient[j + 1]
  BY <1>1, <1>6, InputRead
<1>8. /\ Len(toClient') = n + 2
      /\ \A j \in 1 .. n : toClient'[j].kind = "entry"
      /\ toClient'[n + 1] = Int32(responder.index) /\ toClient'[n + 2] = Int32(completed)
  <2>1. Len(toClient') = n + 2
    BY <1>5, <1>7
  <2>2. \A j \in 1 .. n : j \in 1 .. Len(toClient') /\ j + 1 \in 2 .. 1 + n
    BY <1>5, <2>1
  <2>3. /\ n + 1 \in 1 .. Len(toClient') /\ n + 2 \in 1 .. Len(toClient')
        /\ n + 1 + 1 = 1 + n + 1 /\ n + 2 + 1 = 1 + n + 2
    BY <1>5, <2>1
  <2>4. QED
    BY <1>5, <1>7, <2>1, <2>2, <2>3
<1>9. Head(toClient) = toClient[1] /\ Head(toClient).kind = "int" /\ Head(toClient).n = n
  BY <1>1, <1>3, <1>6, SeqTail DEF Int32
<1>10. /\ responder'.pc = "entries" /\ responder'.index = responder.index /\ responder'.left = n
       /\ responder' \in [pc : ClientPc \cup {"read", "date", "count", "entries", "rename"},
                          index : Nat, left : Nat]
  <2>1. responder' = [responder EXCEPT !.pc = "entries", !.left = n]
    BY <1>1, <1>9
  <2>2. QED
    BY <2>1, <1>5, SyncIs DEF Threads
<1>11. QED
  BY <1>1, <1>2, <1>4, <1>5, <1>7, <1>8, <1>10, RestoreGoes

LEMMA EntrySync ==
  ASSUME Sync, Inv', action_restore_entry
  PROVE  Sync'
<1>1. /\ UNCHANGED <<responseMap, log, toServer, handler, consumer, actions, pushed, isTerminated, link,
                     has_exception_occurred>>
      /\ responder.pc = "entries" /\ responder.left > 0 /\ toClient # <<>> /\ toClient' = RestInput(1)
      /\ IF Head(toClient).kind = "entry"
         THEN responder' = [responder EXCEPT !.left = @ - 1]
         ELSE ResponderGoto("garbled")
  BY DEF action_restore_entry, ResponderKeeps, responseVars, bufferVars
<1>2. Restoring
  BY <1>1 DEF Restoring
<1>3. PICK m : m = responder.left
  OBVIOUS
<1>4. Block(m, 0) /\ m \in Nat /\ m > 0 /\ ~Busy
  BY <1>1, <1>2, <1>3, SyncIs DEF RestoreOK, Threads
<1>5. /\ Len(toClient) = m + 2
      /\ \A j \in 1 .. m : toClient[j].kind = "entry"
      /\ toClient[m + 1] = Int32(responder.index) /\ toClient[m + 2] = Int32(completed)
      /\ Fate(responder.index) = "served"
  BY <1>4 DEF Block
<1>6. IsSeq(toClient) /\ 1 <= Len(toClient)
  BY <1>4, <1>5, SyncIs DEF Threads
<1>7. /\ IsSeq(toClient') /\ Len(toClient') = Len(toClient) - 1
      /\ \A j \in 1 .. Len(toClient') : toClient'[j] = toClient[j + 1]
  BY <1>1, <1>6, InputRead
<1>8. PICK n \in Nat : n = m - 1
  BY <1>4
<1>9. /\ Len(toClient') = n + 2
      /\ \A j \in 1 .. n : toClient'[j].kind = "entry"
      /\ toClient'[n + 1] = Int32(responder.index) /\ toClient'[n + 2] = Int32(completed)
  <2>1. Len(toClient') = n + 2 /\ n + 1 = m
    BY <1>4, <1>5, <1>7, <1>8
  <2>2. \A j \in 1 .. n : j \in 1 .. Len(toClient') /\ j + 1 \in 1 .. m
    BY <1>4, <1>8, <2>1
  <2>3. /\ n + 1 \in 1 .. Len(toClient') /\ n + 2 \in 1 .. Len(toClient')
        /\ n + 1 + 1 = m + 1 /\ n + 2 + 1 = m + 2
    BY <1>8, <2>1
  <2>4. QED
    BY <1>5, <1>7, <2>1, <2>2, <2>3
<1>10. Head(toClient).kind = "entry"
  <2>1. 1 \in 1 .. m
    BY <1>4
  <2>2. QED
    BY <2>1, <1>1, <1>5, <1>6, SeqTail
<1>11. /\ responder'.pc = "entries" /\ responder'.index = responder.index /\ responder'.left = n
       /\ responder' \in [pc : ClientPc \cup {"read", "date", "count", "entries", "rename"},
                          index : Nat, left : Nat]
  <2>1. responder' = [responder EXCEPT !.left = n]
    BY <1>1, <1>3, <1>8, <1>10
  <2>2. QED
    BY <2>1, <1>1, SyncIs DEF Threads
<1>12. QED
  BY <1>1, <1>2, <1>4, <1>5, <1>7, <1>9, <1>11, RestoreGoes

LEMMA RemoveSync ==
  ASSUME Sync, Inv', action_restore_remove
  PROVE  Sync'
<1>1. /\ UNCHANGED <<responseMap, log, toServer, toClient, handler, consumer, actions, pushed,
                     isTerminated, link, has_exception_occurred>>
      /\ responder.pc = "entries" /\ responder.left = 0 /\ ResponderGoto("rename")
  BY DEF action_restore_remove, ResponderKeeps, responseVars, bufferVars
<1>2. Restoring
  BY <1>1 DEF Restoring
<1>3. Block(0, 0) /\ ~Busy
  BY <1>1, <1>2, SyncIs DEF RestoreOK
<1>4. /\ Len(toClient) = 0 + 2
      /\ \A j \in 1 .. 0 : toClient[j].kind = "entry"
      /\ toClient[0 + 1] = Int32(responder.index) /\ toClient[0 + 2] = Int32(completed)
      /\ Fate(responder.index) = "served"
  BY <1>3 DEF Block
<1>5. /\ responder'.pc = "rename" /\ responder'.index = responder.index /\ responder'.left = 0
      /\ responder' \in [pc : ClientPc \cup {"read", "date", "count", "entries", "rename"},
                         index : Nat, left : Nat]
  BY <1>1, ResponderGoes, SyncIs
<1>6. IsSeq(toClient')
  BY <1>1, SyncIs DEF Threads
<1>7. QED
  BY <1>1, <1>2, <1>3, <1>4, <1>5, <1>6, RestoreGoes

LEMMA RenameSync ==
  ASSUME Sync, Inv', action_restore_rename
  PROVE  Sync'
<1>1. /\ UNCHANGED <<log, toServer, toClient, handler, consumer, actions, pushed, isTerminated, link,
                     has_exception_occurred>>
      /\ responder.pc = "rename" /\ Dispatch(responder.index, received)
      /\ responder' = [pc |-> "loop", index |-> 0, left |-> 0]
  BY DEF action_restore_rename, ResponderKeeps, bufferVars, ResponderIdle
<1>2. PICK i : i = responder.index
  OBVIOUS
<1>3. /\ Restores(i) /\ i \in DOMAIN responseMap /\ i \in Nat
      /\ ~Listed /\ (\A k \in Frames : ~Header(k)) /\ ~Busy /\ Block(0, 0)
  <2>1. Restoring
    BY <1>1 DEF Restoring
  <2>2. /\ Restores(i) /\ ~Listed /\ (\A k \in Frames : ~Header(k)) /\ ~Busy /\ Block(0, 0)
    BY <2>1, <1>1, <1>2, SyncIs DEF RestoreOK
  <2>3. QED
    BY <2>2, RestoreIsLast, SyncIs
<1>4. /\ Len(toClient) = 2 /\ toClient[1] = Int32(i) /\ toClient[2] = Int32(completed)
      /\ Fate(i) = "served"
  BY <1>2, <1>3 DEF Block
<1>5. responses!SetStatus(i, "received")
  BY <1>1, <1>2, Dispatched
<1>6. /\ DOMAIN responseMap' = DOMAIN responseMap
      /\ responseMap'[i] = [action |-> responseMap[i].action, st |-> "received"]
      /\ \A j \in DOMAIN responseMap : j # i => responseMap'[j] = responseMap[j]
  BY <1>3, <1>5, StatusSet
<1>7. \A j : Restores(j)' <=> Restores(j)
  <2> SUFFICES ASSUME NEW j \in DOMAIN responseMap PROVE responseMap'[j].action = responseMap[j].action
    BY <1>6 DEF Restores, responses!IsRestore
  <2>1. CASE j = i
    BY <2>1, <1>6
  <2>2. CASE j # i
    BY <2>2, <1>6
  <2>3. QED
    BY <2>1, <2>2
<1>8. /\ ~Busy' /\ ~Listed' /\ Frames' = Frames /\ ~Restoring'
      /\ \A k : (Header(k)' <=> Header(k)) /\ (QuitFrame(k)' <=> QuitFrame(k))
      /\ Pairs' = {1} /\ About(1)' = i /\ Says(1)' = completed
  <2>1. Pairs' = {1}
    BY <1>1, <1>4 DEF Pairs
  <2>2. About(1)' = i /\ Says(1)' = completed
    BY <1>1, <1>4 DEF About, Says, Int32
  <2>3. QED
    BY <2>1, <2>2, <1>1, <1>3 DEF Busy, Listed, Frames, Restoring, Header, QuitFrame
<1>9. Threads'
  BY <1>1, SyncIs DEF Threads, ClientPc
<1>10. MapOK'
  <2>1. \A j \in DOMAIN responseMap :
          responseMap[j] \in [action : {log[j + 1].action}, st : responses!ActionStatus] /\ j \in 0 .. Len(log) - 1
    BY SyncIs DEF MapOK
  <2>2. responseMap'[i] \in [action : {log[i + 1].action}, st : responses!ActionStatus]
    BY <1>3, <1>6, <2>1 DEF responses!ActionStatus
  <2>3. ASSUME NEW j \in DOMAIN responseMap
        PROVE  responseMap'[j] \in [action : {log[j + 1].action}, st : responses!ActionStatus]
    BY <1>6, <2>1, <2>2
  <2>4. QED
    BY <1>1, <1>6, <2>1, <2>3 DEF MapOK
<1>11. QuietOK'
  <2>1. RestorePending' => RestorePending
    BY <1>1, <1>6, <1>7 DEF RestorePending, Restores, responses!IsRestore
  <2>2. QED
    BY <2>1, <1>1, <1>6, <1>7, <1>8, SyncIs DEF QuietOK
<1>12. ServerOK'
  <2>1. Frames' = Frames /\ \A k : Expected(k)' = Expected(k)
    BY <1>1 DEF Frames, Expected, Expects, Follows
  <2>2. handler.pc # "date"
    BY <1>3 DEF Busy
  <2>3. QED
    BY <1>1, <2>1, <2>2, SyncIs DEF ServerOK
<1>13. ListOK'
  BY <1>3, <1>8 DEF ListOK
<1>14. AnswersOK'
  <2>1. Answer(i, completed)'
    BY <1>1, <1>3, <1>4, <1>6, Statuses DEF Answer, Fate
  <2>2. \E n \in 0 .. Len(toClient') : Len(toClient') = 2 * n
    <3>1. 1 \in 0 .. Len(toClient') /\ Len(toClient') = 2 * 1
      BY <1>1, <1>4
    <3>2. QED
      BY <3>1
  <2>3. \A j \in 1 .. Len(toClient') : toClient'[j].kind = "int"
    <3>1. 1 .. Len(toClient') = {1, 2}
      BY <1>1, <1>4
    <3>2. QED
      BY <3>1, <1>1, <1>4 DEF Int32
  <2>4. \A k \in Pairs' : Answer(About(k), Says(k))'
    <3> SUFFICES ASSUME NEW k \in Pairs' PROVE Answer(About(k), Says(k))'
      OBVIOUS
    <3>1. About(k)' = i /\ Says(k)' = completed
      BY <1>8
    <3>2. QED
      BY <3>1, <2>1 DEF Answer, Fate
  <2>5. QED
    BY <2>2, <2>3, <2>4 DEF AnswersOK
<1>15. OrderOK'
  BY <1>3, <1>8 DEF OrderOK
<1>16. AloneOK'
  BY <1>8, Statuses DEF AloneOK
<1>17. RestoreOK'
  BY <1>8 DEF RestoreOK
<1>18. TruthfulPending'
  <2>1. ASSUME NEW n \in 1 .. Len(log), n - 1 \in DOMAIN responseMap, responseMap'[n - 1].st = "error"
        PROVE  responseMap[n - 1].st = "error"
    BY <1>6, <2>1
  <2>2. QED
    BY <2>1, <1>1, <1>6, SyncIs DEF TruthfulPending
<1>19. QED
  BY <1>9, <1>10, <1>11, <1>12, <1>13, <1>14, <1>15, <1>16, <1>17, <1>18 DEF Sync

LEMMA DateSync ==
  ASSUME Sync, Inv', action_restore_date
  PROVE  Sync'
<1>1. /\ UNCHANGED <<responseMap, log, toClient, handler, consumer, actions, pushed, isTerminated, link,
                     has_exception_occurred>>
      /\ responder.pc = "date" /\ ResponderGoto("count")
  BY DEF action_restore_date, ResponderKeeps, responseVars, bufferVars
<1>2. PICK i : i = responder.index
  OBVIOUS
<1>3. /\ Restores(i) /\ ~Listed /\ (\A k \in Frames : ~Header(k)) /\ toClient = <<>>
      /\ Busy => handler.index = i
      /\ handler.pc # "closed" => handler.pc = "date" /\ toServer = <<>>
  <2>1. Restoring
    BY <1>1 DEF Restoring
  <2>2. QED
    BY <2>1, <1>1, <1>2, SyncIs DEF RestoreOK
<1>4. /\ consumer.pc \notin {"header", "size", "content", "quit"}
      /\ i \in Nat /\ log[i + 1].action = responseMap[i].action
  BY <1>3, RestoreIsLast, SyncIs DEF Listed, Sending
<1>5. PICK f : f = [kind |-> "date", date |-> responseMap[responder.index].action.date]
  OBVIOUS
<1>6. WriteToServer(<<f>>)
  BY <1>4, <1>5 DEF action_restore_date
<1>7. f.kind = "date" /\ f.date = responseMap[i].action.date
  BY <1>2, <1>5
<1>8. /\ responder' \in [pc : ClientPc \cup {"read", "date", "count", "entries", "rename"},
                         index : Nat, left : Nat]
      /\ responder'.pc = "count" /\ responder'.index = responder.index
  BY <1>1, ResponderGoes, SyncIs
<1>9. \/ toServer' = toServer /\ link # "up"
      \/ /\ link = "up" /\ Len(toServer') = 1 /\ toServer'[1] = f
         /\ handler.pc = "date" /\ Frames' = {1}
  <2>1. \/ toServer' = toServer /\ link # "up"
        \/ /\ link = "up" /\ Len(toServer') = Len(toServer) + 1
           /\ toServer'[Len(toServer) + 1] = f
    BY <1>6, Written, SyncIs DEF Types
  <2>2. link = "up" => handler.pc = "date" /\ Len(toServer) = 0
    <3>1. Len(<<>>) = 0
      OBVIOUS
    <3>2. link = "up" => handler.pc # "closed"
      BY SyncIs DEF Threads
    <3>3. QED
      BY <3>1, <3>2, <1>3
  <2>3. CASE /\ link = "up" /\ Len(toServer') = Len(toServer) + 1
             /\ toServer'[Len(toServer) + 1] = f
    <3>1. Len(toServer') = 1 /\ toServer'[1] = f
      BY <2>2, <2>3
    <3>2. Frames' = {1}
      BY <3>1 DEF Frames
    <3>3. QED
      BY <3>1, <3>2, <2>2, <2>3
  <2>4. QED
    BY <2>1, <2>3
<1>10. \A k \in Frames' : ~Header(k)' /\ (QuitFrame(k)' => k \in Frames /\ QuitFrame(k))
  BY <1>3, <1>7, <1>9 DEF Header, QuitFrame, Frames
<1>11. /\ (Busy' <=> Busy) /\ (Listed' <=> Listed) /\ ~Reading'
       /\ \A j : (Restores(j)' <=> Restores(j)) /\ (Open(j)' <=> Open(j))
  BY <1>1, <1>8 DEF Busy, Listed, Reading, Restores, responses!IsRestore, Open, Fate
<1>12. Threads'
  BY <1>1, <1>8, SyncIs DEF Threads
<1>13. MapOK' /\ TruthfulPending'
  BY <1>1, SyncIs DEF MapOK, TruthfulPending
<1>14. QuietOK'
  <2>1. RestorePending' => RestorePending
    BY <1>1, PendingKept
  <2>2. QED
    BY <2>1, <1>1, <1>10, <1>11, SyncIs DEF QuietOK
<1>15. ServerOK'
  <2>1. CASE toServer' = toServer
    <3>1. responder.pc \notin {"count", "failed"} /\ link' = link /\ handler' = handler
      BY <1>1
    <3>2. QED
      BY <3>1, <2>1, <1>1, ServerKept, SyncIs
  <2>2. CASE Len(toServer') = 1 /\ toServer'[1] = f /\ handler.pc = "date" /\ Frames' = {1}
    <3>1. Expected(0)' = "date"
      BY <1>1, <2>2 DEF Expected, Expects
    <3>2. Follows(f) = "nothing"
      BY <1>7, Following
    <3>3. Expected(1)' = "nothing"
      BY <2>2, <3>2 DEF Expected, Follows
    <3>4. f.date = handler.action.date
      <4>1. handler.index = i /\ log[i + 1].action = handler.action
        BY <1>3, <2>2, SyncIs DEF Busy, Inv, HandlerOK, Indexed
      <4>2. QED
        BY <4>1, <1>4, <1>7
    <3>5. 1 - 1 = 0
      OBVIOUS
    <3>6. Expected(Len(toServer))' = "nothing"
      BY <2>2, <3>3 DEF Expected
    <3>7. \A k \in Frames' : /\ toServer'[k].kind = Expected(k - 1)' /\ toServer'[k].kind # "nothing"
                             /\ toServer'[k].kind = "date" /\ toServer'[k].date = handler'.action.date
      BY <1>1, <1>7, <2>2, <3>1, <3>4, <3>5
    <3>8. QED
      BY <1>1, <1>4, <1>8, <2>2, <3>6, <3>7 DEF ServerOK
  <2>3. QED
    BY <1>9, <2>1, <2>2
<1>16. ListOK'
  BY <1>1, <1>3, <1>10, <1>11, SyncIs DEF ListOK
<1>17. RestoreOK'
  <2>1. Restores(i)' /\ responseMap'[i].st = "sent"
    BY <1>1, <1>2, <1>3, <1>11, SyncIs DEF RestoreOK, Restoring
  <2>2. QED
    BY <2>1, <1>1, <1>2, <1>3, <1>8, <1>10, <1>11 DEF RestoreOK
<1>18. QED
  BY <1>11, <1>12, <1>13, <1>14, <1>15, <1>16, <1>17 DEF Sync, AnswersOK, OrderOK, AloneOK

-----------------------------------------------------------------------------
\* The handler reads.

\* The frame it takes is of the kind it waits for.
LEMMA FirstFrame ==
  ASSUME Sync, ReadFrame, handler.pc # "closed"
  PROVE  /\ Shift(1) /\ 1 \in Frames /\ Input = toServer[1] /\ Input.kind = Expects
         /\ Input.kind = "date" =>
              handler.pc = "date" /\ Input.date = handler.action.date /\ responder.pc \in {"count", "failed"}
         /\ handler.pc # "date" => \A k \in Frames : toServer[k].kind # "date"
<1>1. Shift(1) /\ 1 \in Frames /\ Input = toServer[1]
  BY OneTaken, SyncIs
<1>2. 1 - 1 = 0
  OBVIOUS
<1>3. QED
  BY <1>1, <1>2, ExpectedIs, SyncIs DEF ServerOK

\* What comes next is what follows that frame.
LEMMA ServerShift ==
  ASSUME Sync, Shift(1), 1 \in Frames, handler.pc # "closed",
         UNCHANGED <<consumer, link>>,
         handler'.pc \notin {"garbled", "closed"}, Expects' = Follows(toServer[1]),
         \A k \in Frames : k > 1 => toServer[k].kind # "date"
  PROVE  ServerOK'
<1>1. PICK n \in Nat : n = Len(toServer')
  BY DEF Shift
<1>2. /\ Len(toServer) = n + 1 /\ Frames' = 1 .. n /\ Frames = 1 .. n + 1
      /\ \A k \in 1 .. n : toServer'[k] = toServer[k + 1]
  BY <1>1 DEF Shift, Frames
<1>3. \A k \in 0 .. n : Expected(k)' = Expected(k + 1)
  <2> SUFFICES ASSUME NEW k \in 0 .. n PROVE Expected(k)' = Expected(k + 1)
    OBVIOUS
  <2>1. k + 1 # 0 /\ k + 1 \in 1 .. n + 1
    BY <1>1
  <2>2. Expected(k + 1) = Follows(toServer[k + 1])
    BY <2>1 DEF Expected
  <2>3. CASE k = 0
    BY <2>2, <2>3 DEF Expected
  <2>4. CASE k # 0
    <3>1. toServer'[k] = toServer[k + 1]
      BY <2>4, <1>2
    <3>2. Expected(k)' = Follows(toServer[k + 1])
      BY <2>4, <3>1 DEF Expected, Follows
    <3>3. QED
      BY <2>2, <3>2
  <2>5. QED
    BY <2>3, <2>4
<1>4. \A k \in Frames' : /\ toServer'[k].kind = Expected(k - 1)' /\ toServer'[k].kind # "nothing"
                         /\ toServer'[k].kind # "date"
  <2> SUFFICES ASSUME NEW k \in 1 .. n
               PROVE  /\ toServer'[k].kind = Expected(k - 1)' /\ toServer'[k].kind # "nothing"
                      /\ toServer'[k].kind # "date"
    BY <1>2
  <2>1. k + 1 \in Frames /\ k + 1 > 1 /\ k - 1 \in 0 .. n /\ k - 1 + 1 = k /\ k + 1 - 1 = k
    BY <1>1, <1>2
  <2>2. toServer[k + 1].kind = Expected(k) /\ toServer[k + 1].kind # "nothing"
    <3>1. PICK m : m = k + 1
      OBVIOUS
    <3>2. toServer[m].kind = Expected(m - 1) /\ toServer[m].kind # "nothing"
      BY <2>1, <3>1, SyncIs DEF ServerOK
    <3>3. m - 1 = k
      BY <2>1, <3>1
    <3>4. QED
      BY <3>1, <3>2, <3>3
  <2>3. Expected(k - 1)' = Expected(k)
    BY <2>1, <1>3
  <2>4. QED
    BY <2>1, <2>2, <2>3, <1>2
<1>5. Expected(n)' = Expected(Len(toServer))
  BY <1>1, <1>2, <1>3
<1>6. QED
  BY <1>1, <1>4, <1>5, SyncIs DEF ServerOK

\* Nothing is said to the client.
LEMMA HandlerQuiet ==
  ASSUME Sync, Inv', ServerOK', NEW d \in Nat, Shift(d),
         UNCHANGED <<responseMap, log, toClient, responder, consumer, actions, pushed, isTerminated,
                     has_exception_occurred, link>>,
         handler'.pc = "closed" => link # "up",
         ~Busy' => handler'.pc = "closed",
         Busy' => /\ Busy /\ handler'.index = handler.index /\ handler'.action = handler.action
                  /\ handler.pc # "date" /\ handler'.pc # "date"
  PROVE  Sync'
<1>1. /\ Pairs' = Pairs /\ (Listed' <=> Listed) /\ (Reading' <=> Reading) /\ (Restoring' <=> Restoring)
      /\ \A k : About(k)' = About(k) /\ Says(k)' = Says(k)
      /\ \A i : Fate(i)' = Fate(i) /\ (Restores(i)' <=> Restores(i))
                /\ (Fresh(i)' <=> Fresh(i)) /\ (Open(i)' <=> Open(i))
      /\ \A i, status : Answer(i, status)' <=> Answer(i, status)
      /\ \A n, m : Block(n, m)' <=> Block(n, m)
  BY DEF Pairs, Listed, Reading, Restoring, About, Says, Fate, Restores, responses!IsRestore, Fresh,
         Open, Answer, Block
<1>2. \A k \in Frames' : /\ k + d \in Frames /\ (Header(k)' <=> Header(k + d)) /\ Idx(k)' = Idx(k + d)
                         /\ QuitFrame(k)' <=> QuitFrame(k + d)
  BY Shifted DEF QuitFrame
<1>3. Threads'
  BY SyncIs DEF Threads
<1>4. MapOK' /\ TruthfulPending'
  BY SyncIs DEF MapOK, TruthfulPending
<1>5. QuietOK'
  <2>1. RestorePending' => RestorePending
    BY PendingKept
  <2>2. QED
    BY <2>1, <1>1, <1>2, SyncIs DEF QuietOK
<1>6. ListOK'
  <2>1. \A k \in Frames' : Header(k)' => Fresh(Idx(k))'
    <3> SUFFICES ASSUME NEW k \in Frames', Header(k)' PROVE Fresh(Idx(k))'
      OBVIOUS
    <3>1. PICK i : i = Idx(k)'
      OBVIOUS
    <3>2. Fresh(i)
      BY <1>2, <3>1, SyncIs DEF ListOK
    <3>3. Fresh(i)'
      BY <1>1, <3>2
    <3>4. QED
      BY <3>1, <3>3 DEF Fresh, Fate
  <2>2. Busy' => Open(handler.index)' /\ handler.action.type # "restore"
    <3>1. PICK i : i = handler.index
      OBVIOUS
    <3>2. Busy => Open(i) /\ (handler.pc # "date" => handler.action.type # "restore")
      BY <3>1, SyncIs DEF ListOK
    <3>3. Busy' => Open(i)' /\ handler'.index = i
      BY <1>1, <3>1, <3>2
    <3>4. QED
      BY <3>2, <3>3 DEF Open, Fate
  <2>3. QED
    BY <2>1, <2>2, <1>1, SyncIs DEF ListOK
<1>7. AnswersOK'
  BY <1>1, SyncIs DEF AnswersOK
<1>8. OrderOK'
  BY <1>1, <1>2, SyncIs DEF OrderOK
<1>9. AloneOK'
  <2>1. Busy' => handler.pc \notin {"closed", "date"}
    BY DEF Busy
  <2>2. QED
    BY <2>1, <1>1, SyncIs DEF AloneOK
<1>10. Restoring => ~Busy'
  <2> SUFFICES ASSUME Restoring, Busy' PROVE FALSE
    OBVIOUS
  <2>1. Restores(handler.index) /\ Indexed(handler.index, handler.action)
    BY SyncIs DEF RestoreOK, Inv, HandlerOK
  <2>2. handler.action.type = "restore"
    BY <2>1, RestoreIsLast, SyncIs DEF Indexed
  <2>3. QED
    BY <2>2, SyncIs DEF ListOK
<1>11. RestoreOK'
  <2>1. Restoring => Restores(responder.index)'
    BY <1>1, SyncIs DEF RestoreOK
  <2>2. Restoring => \A k \in Frames' : ~Header(k)'
    BY <1>2, SyncIs DEF RestoreOK
  <2>3. responder.pc = "count" /\ toClient # <<>> => Restoring /\ Reading = FALSE
    BY DEF Restoring, Reading
  <2>4. Restoring => ~Busy' /\ handler'.pc = "closed"
    BY <1>10
  <2>5. (responder.pc = "count" /\ toClient # <<>>) =>
           \E n \in 0 .. Len(toClient) : toClient[1] = Int32(n) /\ Block(n, 1)'
    BY <1>1, SyncIs DEF RestoreOK, Restoring
  <2>6. responder.pc \in {"entries", "rename"} => Block(responder.left, 0)'
    BY <1>1, SyncIs DEF RestoreOK, Restoring
  <2>7. QED
    BY <2>1, <2>2, <2>4, <2>5, <2>6, <1>1, SyncIs DEF RestoreOK
<1>12. QED
  BY <1>3, <1>4, <1>5, <1>6, <1>7, <1>8, <1>9, <1>11 DEF Sync

LEMMA ReadSizeSync ==
  ASSUME Sync, Inv', read_file_size
  PROVE  Sync'
<1>1. /\ UNCHANGED <<responseMap, log, toClient, responder, consumer, actions, pushed, isTerminated,
                     has_exception_occurred, link>>
      /\ ReadFrame /\ handler.pc = "size"
      /\ handler' = [handler EXCEPT !.pc = IF Input.kind = "size" THEN "content" ELSE "garbled"]
  BY DEF read_file_size, HandlerKeeps, bufferVars, clientVars, responseVars
<1>2. /\ Shift(1) /\ 1 \in Frames /\ Input = toServer[1] /\ Input.kind = "size"
      /\ \A k \in Frames : toServer[k].kind # "date"
  BY <1>1, FirstFrame DEF Expects
<1>3. handler' = [handler EXCEPT !.pc = "content"]
  BY <1>1, <1>2
<1>4. handler'.pc = "content" /\ handler'.index = handler.index /\ handler'.action = handler.action
  BY <1>3, HandlerGoes, SyncIs DEF HandlerPcs
<1>5. Busy /\ Busy'
  BY <1>1, <1>4 DEF Busy
<1>6. Expects' = Follows(toServer[1])
  BY <1>2, <1>4, Following DEF Expects
<1>7. ServerOK'
  BY <1>1, <1>2, <1>4, <1>6, ServerShift
<1>8. QED
  BY <1>1, <1>2, <1>4, <1>5, <1>7, HandlerQuiet

LEMMA ReadContentSync ==
  ASSUME Sync, Inv', read_file_content
  PROVE  Sync'
<1>1. /\ UNCHANGED <<responseMap, log, toClient, responder, consumer, actions, pushed, isTerminated,
                     has_exception_occurred, link>>
      /\ handler.pc = "content"
  BY DEF read_file_content, HandlerKeeps, bufferVars, clientVars, responseVars
<1>2. toServer # <<>>
  <2>1. Len(<<>>) = 0
    OBVIOUS
  <2>2. QED
    BY <2>1 DEF read_file_content, ReadFrame
<1>3. Input.kind = "content"
  <2>1. 1 \in Frames /\ Input = toServer[1]
    BY <1>2, SeqTail, SyncIs DEF Frames, Input, Types
  <2>2. 1 - 1 = 0
    OBVIOUS
  <2>3. toServer[1].kind = Expected(0)
    BY <1>1, <2>1, <2>2, SyncIs DEF ServerOK
  <2>4. QED
    BY <1>1, <2>1, <2>3, ExpectedIs, SyncIs DEF Expects
<1>4. ReadFrame /\ \E h : handler' = [handler EXCEPT !.pc = "addAction", !.hash = h]
  BY <1>3 DEF read_file_content
<1>5. /\ Shift(1) /\ 1 \in Frames /\ Input = toServer[1]
      /\ \A k \in Frames : toServer[k].kind # "date"
  BY <1>1, <1>4, FirstFrame
<1>6. handler'.pc = "addAction" /\ handler'.index = handler.index /\ handler'.action = handler.action
  BY <1>4, SyncIs DEF Types
<1>7. Busy /\ Busy'
  BY <1>1, <1>6 DEF Busy
<1>8. Expects' = Follows(toServer[1])
  BY <1>3, <1>5, <1>6, Following DEF Expects
<1>9. ServerOK'
  BY <1>1, <1>5, <1>6, <1>8, ServerShift
<1>10. QED
  BY <1>1, <1>5, <1>6, <1>7, <1>9, HandlerQuiet

\* The handler reads nothing, and expects what it did.
LEMMA ServerSame ==
  ASSUME Sync, toServer' = toServer, UNCHANGED <<consumer, responder, link>>,
         handler'.pc # "garbled", handler.pc \notin {"closed", "date"}, Expects' = Expects
  PROVE  ServerOK'
<1>1. Frames' = Frames /\ \A k : Expected(k)' = Expected(k)
  BY DEF Frames, Expected, Follows
<1>2. QED
  BY <1>1, SyncIs DEF ServerOK

LEMMA AddActionSync ==
  ASSUME Sync, Inv', addAction
  PROVE  Sync'
<1>1. /\ UNCHANGED <<responseMap, log, toClient, responder, consumer, actions, pushed, isTerminated,
                     has_exception_occurred, link, toServer>>
      /\ handler.pc = "addAction" /\ handler' = [handler EXCEPT !.pc = "execute"]
  BY DEF addAction, HandlerKeeps, bufferVars, clientVars, responseVars
<1>2. handler'.pc = "execute" /\ handler'.index = handler.index /\ handler'.action = handler.action
  BY <1>1, HandlerGoes, SyncIs DEF HandlerPcs
<1>3. Busy /\ Busy' /\ Expects' = Expects
  BY <1>1, <1>2 DEF Busy, Expects
<1>4. ServerOK'
  BY <1>1, <1>2, <1>3, ServerSame
<1>5. Shift(0)
  BY <1>1, NoneTaken, SyncIs
<1>6. QED
  BY <1>1, <1>2, <1>3, <1>4, <1>5, HandlerQuiet

LEMMA HandlerThrowsSync ==
  ASSUME Sync, Inv', HandlerThrows
  PROVE  Sync'
<1>1. /\ UNCHANGED <<responseMap, log, toClient, responder, consumer, actions, pushed, isTerminated,
                     has_exception_occurred, link, toServer>>
      /\ link = "lost" /\ handler'.pc = "closed"
  BY DEF HandlerThrows, HandlerKeeps, bufferVars, clientVars, responseVars
<1>2. ~Busy' /\ ServerOK'
  BY <1>1 DEF Busy, ServerOK
<1>3. Shift(0)
  BY <1>1, NoneTaken, SyncIs
<1>4. QED
  BY <1>1, <1>2, <1>3, HandlerQuiet

-----------------------------------------------------------------------------
\* The handler says something.

Old(k) == k \in Pairs /\ About(k)' = About(k) /\ Says(k)' = Says(k)

LEMMA ResponseIs ==
  \A i, s : /\ IsSeq(Response(i, s)) /\ Len(Response(i, s)) = 2
            /\ Response(i, s)[1] = Int32(i) /\ Response(i, s)[2] = Int32(s)
<1> SUFFICES ASSUME NEW i, NEW s
             PROVE  /\ IsSeq(Response(i, s)) /\ Len(Response(i, s)) = 2
                    /\ Response(i, s)[1] = Int32(i) /\ Response(i, s)[2] = Int32(s)
  OBVIOUS
<1>1. PICK a, b : a = Int32(i) /\ b = Int32(s)
  OBVIOUS
<1>2. <<a, b>> \in Seq({a, b}) /\ Len(<<a, b>>) = 2 /\ <<a, b>>[1] = a /\ <<a, b>>[2] = b
  OBVIOUS
<1>3. IsSeq(<<a, b>>)
  BY <1>2, SeqAny
<1>4. QED
  BY <1>1, <1>2, <1>3 DEF Response

LEMMA ResponseAdded ==
  ASSUME Sync, NEW i, NEW s, WriteToClient(Response(i, s))
  PROVE  /\ IsSeq(toClient')
         /\ Reading =>
              /\ \E n \in 0 .. Len(toClient') : Len(toClient') = 2 * n
              /\ \A j \in 1 .. Len(toClient') : toClient'[j].kind = "int"
              /\ \A k \in Pairs' : \/ Old(k)
                                   \/ 2 * k = Len(toClient') /\ About(k)' = i /\ Says(k)' = s
              /\ \A k \in Pairs', l \in Pairs' : k < l => Old(k)
<1>1. IsSeq(toClient) /\ Len(toClient) \in Nat
  BY SyncIs DEF Threads
<1>2. CASE toClient' = toClient
  <2>1. Pairs' = Pairs /\ \A k \in Pairs' : Old(k)
    BY <1>2 DEF Pairs, Old, About, Says
  <2>2. QED
    BY <2>1, <1>1, <1>2, SyncIs DEF AnswersOK
<1>3. CASE toClient' = toClient \o Response(i, s)
  <2> DEFINE t == Response(i, s)
  <2>1. IsSeq(t) /\ Len(t) = 2 /\ t[1] = Int32(i) /\ t[2] = Int32(s)
    BY ResponseIs
  <2> HIDE DEF t
  <2>2. /\ IsSeq(toClient \o t) /\ Len(toClient \o t) = Len(toClient) + Len(t)
        /\ \A j \in 1 .. Len(toClient) : (toClient \o t)[j] = toClient[j]
        /\ \A j \in 1 .. Len(t) : (toClient \o t)[Len(toClient) + j] = t[j]
    <3>1. IsSeq(toClient \o t)
      BY <1>1, <2>1, SeqConcat, Zenon
    <3>2. Len(toClient \o t) = Len(toClient) + Len(t)
      BY <1>1, <2>1, SeqConcat
    <3>3. \A j \in 1 .. Len(toClient) : (toClient \o t)[j] = toClient[j]
      BY <1>1, <2>1, SeqConcat
    <3>4. \A j \in 1 .. Len(t) : (toClient \o t)[Len(toClient) + j] = t[j]
      BY <1>1, <2>1, SeqConcat
    <3>5. QED
      BY <3>1, <3>2, <3>3, <3>4
  <2>3. toClient' = toClient \o t
    BY <1>3 DEF t
  <2>4. PICK m \in Nat : m = Len(toClient)
    BY <1>1
  <2>5. /\ IsSeq(toClient') /\ Len(toClient') = m + 2
        /\ \A j \in 1 .. m : toClient'[j] = toClient[j]
    BY <2>1, <2>2, <2>3, <2>4
  <2>6. toClient'[m + 1] = Int32(i) /\ toClient'[m + 2] = Int32(s)
    BY <2>1, <2>2, <2>3, <2>4
  <2>7. ASSUME Reading
        PROVE  /\ \E n \in 0 .. Len(toClient') : Len(toClient') = 2 * n
               /\ \A j \in 1 .. Len(toClient') : toClient'[j].kind = "int"
               /\ \A k \in Pairs' : \/ Old(k)
                                    \/ 2 * k = Len(toClient') /\ About(k)' = i /\ Says(k)' = s
               /\ \A k \in Pairs', l \in Pairs' : k < l => Old(k)
    <3>1. PICK n \in 0 .. m : m = 2 * n
      BY <2>4, <2>7, SyncIs DEF AnswersOK
    <3>2. \A j \in 1 .. m + 2 : toClient'[j].kind = "int"
      <4>1. \A j \in 1 .. m : toClient[j].kind = "int"
        BY <2>4, <2>7, SyncIs DEF AnswersOK
      <4>2. \A j \in 1 .. m + 2 : j \in 1 .. m \/ j = m + 1 \/ j = m + 2
        OBVIOUS
      <4>3. QED
        BY <4>1, <4>2, <2>5, <2>6 DEF Int32
    <3>3. \A k \in Pairs' : k \in 1 .. n + 1
      BY <2>5, <3>1 DEF Pairs
    <3>4. ASSUME NEW k \in 1 .. n PROVE Old(k)
      <4>1. k \in Pairs /\ 2 * k - 1 \in 1 .. m /\ 2 * k \in 1 .. m
        BY <2>4, <3>1 DEF Pairs
      <4>2. toClient'[2 * k - 1] = toClient[2 * k - 1] /\ toClient'[2 * k] = toClient[2 * k]
        BY <4>1, <2>5
      <4>3. QED
        BY <4>1, <4>2 DEF Old, About, Says
    <3>5. ASSUME NEW k, k = n + 1
          PROVE  2 * k = Len(toClient') /\ About(k)' = i /\ Says(k)' = s
      <4>1. 2 * k = m + 2 /\ 2 * k - 1 = m + 1
        BY <3>1, <3>5
      <4>2. QED
        BY <4>1, <2>5, <2>6 DEF About, Says, Int32
    <3>6. \A k \in Pairs' : k \in 1 .. n \/ k = n + 1
      BY <3>1, <3>3
    <3>7. \A k \in Pairs', l \in Pairs' : k < l => k \in 1 .. n
      BY <3>1, <3>3
    <3>8. n + 1 \in 0 .. Len(toClient') /\ Len(toClient') = 2 * (n + 1)
      BY <3>1, <2>5
    <3>9. \E p \in 0 .. Len(toClient') : Len(toClient') = 2 * p
      BY <3>8
    <3>10. \A j \in 1 .. Len(toClient') : toClient'[j].kind = "int"
      BY <2>5, <3>2
    <3>11. ASSUME NEW k \in Pairs'
           PROVE  Old(k) \/ (2 * k = Len(toClient') /\ About(k)' = i /\ Says(k)' = s)
      <4>1. CASE k \in 1 .. n
        BY <4>1, <3>4
      <4>2. CASE k = n + 1
        BY <4>2, <3>5
      <4>3. QED
        BY <4>1, <4>2, <3>6
    <3>12. \A k \in Pairs', l \in Pairs' : k < l => Old(k)
      BY <3>4, <3>7
    <3>13. QED
      BY <3>9, <3>10, <3>11, <3>12
  <2>8. QED
    BY <2>5, <2>7
<1>4. QED
  BY <1>2, <1>3 DEF WriteToClient

\* What it says comes after all that it has said, and before what it will say
\* about an action that it has not read yet.
LEMMA HandlerSays ==
  ASSUME Sync, Inv', ServerOK', NEW d \in Nat, Shift(d), ~Restoring,
         NEW i, NEW s, WriteToClient(Response(i, s)),
         UNCHANGED <<responseMap, responder, consumer, actions, pushed, isTerminated, has_exception_occurred>>,
         link' \in {"up", "closed", "lost"}, handler'.pc = "closed" => link' # "up",
         Len(log') = Len(log),
         \A n \in 1 .. Len(log) :
           /\ log'[n].action = log[n].action
           /\ log'[n].outcome = log[n].outcome \/ (n = i + 1 /\ s \in {completed, error}),
         s # finish =>
           /\ i \in Nat /\ Answer(i, s)'
           /\ Reading => \A k \in Pairs : Says(k) # finish =>
                About(k) < i \/ (About(k) = i /\ Says(k) = received /\ s # received)
           /\ \A k \in Frames : k > d /\ Header(k) => i < Idx(k)
           /\ Listed => i < consumer.index,
         Busy' => /\ Open(handler.index)' /\ (handler'.pc = "date" <=> handler'.action.type = "restore")
                  /\ s = received /\ handler'.index = i,
         Reading => \A k \in Pairs : Says(k) = received => ~Restores(About(k)),
         s = received /\ Restores(i) => handler'.pc = "date" /\ handler'.index = i /\ toServer' = <<>>
  PROVE  Sync'
<1>1. /\ (Listed' <=> Listed) /\ (Reading' <=> Reading) /\ ~Restoring'
      /\ \A j : Restores(j)' <=> Restores(j)
  BY DEF Listed, Reading, Restoring, Restores, responses!IsRestore
<1>2. \A k \in Frames' : /\ k + d \in Frames /\ k + d > d
                         /\ (Header(k)' <=> Header(k + d)) /\ Idx(k)' = Idx(k + d)
                         /\ QuitFrame(k)' <=> QuitFrame(k + d)
  BY Shifted DEF QuitFrame
<1>3. \A j \in DOMAIN responseMap :
        /\ j \in Nat /\ log'[j + 1].action = log[j + 1].action
        /\ j # i \/ s \in {received, finish} => Fate(j)' = Fate(j)
  <2> SUFFICES ASSUME NEW j \in DOMAIN responseMap
               PROVE  /\ j \in Nat /\ log'[j + 1].action = log[j + 1].action
                      /\ j # i \/ s \in {received, finish} => Fate(j)' = Fate(j)
    OBVIOUS
  <2>1. j \in Nat /\ j + 1 \in 1 .. Len(log)
    BY OnList, SyncIs
  <2>2. s \in {completed, error} => i \in Nat /\ s \notin {received, finish}
    BY Statuses
  <2>3. log'[j + 1].outcome = log[j + 1].outcome \/ (j + 1 = i + 1 /\ s \in {completed, error})
    BY <2>1
  <2>4. j + 1 = i + 1 /\ s \in {completed, error} => j = i /\ s \notin {received, finish}
    BY <2>1, <2>2
  <2>5. QED
    BY <2>1, <2>3, <2>4 DEF Fate
<1>4. /\ IsSeq(toClient')
      /\ Reading =>
           /\ \E n \in 0 .. Len(toClient') : Len(toClient') = 2 * n
           /\ \A j \in 1 .. Len(toClient') : toClient'[j].kind = "int"
           /\ \A k \in Pairs' : \/ Old(k)
                                \/ 2 * k = Len(toClient') /\ About(k)' = i /\ Says(k)' = s
           /\ \A k \in Pairs', l \in Pairs' : k < l => Old(k)
  BY ResponseAdded
<1>5. Threads'
  BY <1>4, SyncIs DEF Threads
<1>6. MapOK'
  BY <1>3, SyncIs DEF MapOK
<1>7. QuietOK'
  <2>1. RestorePending' => RestorePending
    BY PendingKept
  <2>2. QED
    BY <2>1, <1>1, <1>2, SyncIs DEF QuietOK
<1>8. ListOK'
  <2>1. ASSUME NEW j, Fresh(j), s = finish \/ i # j
        PROVE  Fresh(j)'
    BY <2>1, <1>3 DEF Fresh
  <2>2. \A k \in Frames' : Header(k)' => Fresh(Idx(k))'
    <3> SUFFICES ASSUME NEW k \in Frames', Header(k)' PROVE Fresh(Idx(k))'
      OBVIOUS
    <3>1. PICK j, l : j = Idx(k)' /\ l = k + d
      OBVIOUS
    <3>2. l \in Frames /\ l > d /\ Header(l) /\ Idx(l) = j
      BY <1>2, <3>1
    <3>3. Fresh(j) /\ (s # finish => i < j)
      BY <3>2, SyncIs DEF ListOK
    <3>4. j \in Nat
      BY <3>2, SyncIs DEF Inv, HeadersOK, Indexed
    <3>5. Fresh(j)'
      BY <2>1, <3>3, <3>4
    <3>6. QED
      BY <3>1, <3>5 DEF Fresh, Fate
  <2>3. Listed => Fresh(consumer.index)'
    <3> SUFFICES ASSUME Listed PROVE Fresh(consumer.index)'
      OBVIOUS
    <3>1. PICK j : j = consumer.index
      OBVIOUS
    <3>2. Fresh(j) /\ (s # finish => i < j) /\ j \in Nat
      BY <3>1, SyncIs DEF ListOK, Inv, Types
    <3>3. Fresh(j)' /\ consumer'.index = j
      BY <2>1, <3>1, <3>2
    <3>4. QED
      BY <3>3 DEF Fresh, Fate
  <2>4. QED
    BY <2>2, <2>3, <1>1 DEF ListOK
<1>9. AnswersOK'
  <2>1. ASSUME Reading, NEW k \in Pairs', Says(k)' # finish
        PROVE  Answer(About(k), Says(k))'
    <3>1. PICK a, t : a = About(k)' /\ t = Says(k)'
      OBVIOUS
    <3>2. CASE Old(k)
      <4>1. k \in Pairs /\ a = About(k) /\ t = Says(k)
        BY <3>1, <3>2 DEF Old
      <4>2. Answer(a, t)
        BY <2>1, <3>1, <4>1, SyncIs DEF AnswersOK
      <4>3. a \in DOMAIN responseMap
        BY <4>2 DEF Answer
      <4>4. CASE a # i \/ s \in {received, finish}
        <5>1. Fate(a)' = Fate(a)
          BY <4>3, <4>4, <1>3
        <5>2. Answer(a, t)'
          BY <4>2, <5>1 DEF Answer
        <5>3. QED
          BY <3>1, <5>2 DEF Answer, Fate
      <4>5. CASE a = i /\ s \notin {received, finish}
        <5>1. a < i \/ t = received
          BY <2>1, <3>1, <4>1, <4>5
        <5>2. i \in Nat /\ ~(a < i)
          BY <4>5
        <5>3. Answer(a, t)'
          BY <4>2, <5>1, <5>2, Statuses DEF Answer
        <5>4. QED
          BY <3>1, <5>3 DEF Answer, Fate
      <4>6. QED
        BY <4>4, <4>5
    <3>3. CASE About(k)' = i /\ Says(k)' = s
      <4>1. Answer(i, s)'
        BY <2>1, <3>3
      <4>2. QED
        BY <3>3, <4>1 DEF Answer, Fate
    <3>4. QED
      BY <2>1, <3>2, <3>3, <1>4
  <2>2. QED
    BY <2>1, <1>1, <1>4 DEF AnswersOK
<1>10. OrderOK'
  <2> SUFFICES ASSUME Reading, NEW k \in Pairs', Says(k)' # finish
               PROVE  /\ \A l \in Pairs' : k < l /\ Says(l)' # finish =>
                           \/ About(k)' < About(l)'
                           \/ About(k)' = About(l)' /\ Says(k)' = received /\ Says(l)' # received
                      /\ Busy' => About(k)' <= handler'.index
                                  /\ (Says(k)' # received => About(k)' < handler'.index)
                      /\ \A l \in Frames' : Header(l)' => About(k)' < Idx(l)'
                      /\ Listed => About(k)' < consumer.index
    BY <1>1 DEF OrderOK
  <2>1. ASSUME NEW l \in Pairs', k < l, Says(l)' # finish
        PROVE  \/ About(k)' < About(l)'
               \/ About(k)' = About(l)' /\ Says(k)' = received /\ Says(l)' # received
    <3>1. Old(k)
      BY <2>1, <1>4
    <3>2. CASE Old(l)
      BY <3>1, <3>2, <2>1, SyncIs DEF Old, OrderOK
    <3>3. CASE About(l)' = i /\ Says(l)' = s
      BY <3>1, <3>3, <2>1 DEF Old
    <3>4. QED
      BY <3>2, <3>3, <2>1, <1>4
  <2>2. CASE Old(k)
    <3>1. k \in Pairs /\ About(k)' = About(k) /\ Says(k)' = Says(k)
      BY <2>2 DEF Old
    <3>2. About(k) \in Nat
      <4>1. About(k) \in DOMAIN responseMap
        BY <3>1, SyncIs DEF AnswersOK, Answer
      <4>2. QED
        BY <4>1, <1>3
    <3>3. Busy' => About(k)' <= handler'.index /\ (Says(k)' # received => About(k)' < handler'.index)
      BY <3>1, <3>2, Statuses
    <3>4. \A l \in Frames' : Header(l)' => About(k)' < Idx(l)'
      BY <3>1, <1>2, SyncIs DEF OrderOK
    <3>5. Listed => About(k)' < consumer.index
      BY <3>1, SyncIs DEF OrderOK
    <3>6. QED
      BY <2>1, <3>3, <3>4, <3>5
  <2>3. CASE About(k)' = i /\ Says(k)' = s
    BY <2>1, <2>3, <1>2
  <2>4. QED
    BY <2>2, <2>3, <1>4
<1>11. AloneOK'
  <2> SUFFICES ASSUME Reading, NEW k \in Pairs', Says(k)' = received, Restores(About(k))'
               PROVE  /\ 2 * k = Len(toClient')
                      /\ handler'.pc # "closed" =>
                           handler'.pc = "date" /\ toServer' = <<>> /\ handler'.index = About(k)'
    BY <1>1 DEF AloneOK
  <2>1. PICK a : a = About(k)'
    OBVIOUS
  <2>2. Restores(a)
    BY <2>1 DEF Restores, responses!IsRestore
  <2>3. ~Old(k)
    BY <2>1, <2>2 DEF Old
  <2>4. 2 * k = Len(toClient') /\ a = i /\ s = received
    BY <2>1, <2>3, <1>4
  <2>5. QED
    BY <2>1, <2>2, <2>4
<1>12. RestoreOK'
  BY <1>1 DEF RestoreOK
<1>13. TruthfulPending'
  <2> SUFFICES ASSUME NEW n \in 1 .. Len(log)
               PROVE  /\ n - 1 \notin DOMAIN responseMap => log'[n].outcome \in {"stored", "served", "ignored"}
                      /\ n - 1 \in DOMAIN responseMap /\ responseMap[n - 1].st = "error"
                           => log'[n].outcome = "refused"
    BY DEF TruthfulPending
  <2>1. CASE log'[n].outcome = log[n].outcome
    BY <2>1, SyncIs DEF TruthfulPending
  <2>2. CASE n = i + 1 /\ s \in {completed, error}
    <3>1. s # finish /\ s # received
      BY <2>2, Statuses
    <3>2. i = n - 1
      BY <2>2, <3>1
    <3>3. i \in DOMAIN responseMap /\ responseMap[i].st # "error"
      BY <2>2, <3>1, Statuses DEF Answer
    <3>4. QED
      BY <3>2, <3>3
  <2>3. QED
    BY <2>1, <2>2
<1>14. QED
  BY <1>5, <1>6, <1>7, <1>8, <1>9, <1>10, <1>11, <1>12, <1>13 DEF Sync

\* The header of an action is read: the client is told that it is received.
LEMMA ReadHeaderSync ==
  ASSUME Sync, Inv', read_action, Input.kind = "action", Input.action # Quit
  PROVE  Sync'
<1>1. /\ UNCHANGED <<responseMap, log, responder, consumer, actions, pushed, isTerminated,
                     has_exception_occurred, link>>
      /\ ReadFrame /\ handler.pc = "read"
      /\ WriteToClient(Response(Input.index, received))
      /\ handler' = [handler EXCEPT
           !.index = Input.index, !.action = Input.action,
           !.pc = CASE Input.action.type = "read_file" -> "size"
                    [] Input.action.type = "restore"   -> "date"
                    [] OTHER                           -> "addAction"]
  BY DEF read_action, HandlerKeeps, bufferVars, clientVars, responseVars
<1>2. /\ Shift(1) /\ 1 \in Frames /\ Input = toServer[1] /\ Header(1) /\ Idx(1) = Input.index
      /\ \A k \in Frames : toServer[k].kind # "date"
  BY <1>1, FirstFrame DEF Header, Idx
<1>3. PICK i, a : i = Input.index /\ a = Input.action
  OBVIOUS
<1>4. /\ Indexed(i, a) /\ i \in Nat /\ a \in Action /\ Idx(1) = i
      /\ Listed => i < consumer.index
      /\ \A l \in Frames : l > 1 /\ Header(l) => i < Idx(l)
      /\ Fresh(i)
  <2>1. Fresh(Idx(1))
    BY <1>2, SyncIs DEF ListOK
  <2>2. QED
    BY <2>1, <1>2, <1>3, SyncIs DEF Inv, HeadersOK, Indexed
<1>5. PICK pc \in {"size", "date", "addAction"} :
        /\ handler' = [handler EXCEPT !.index = i, !.action = a, !.pc = pc]
        /\ pc = "size" <=> a.type = "read_file"
        /\ pc = "date" <=> a.type = "restore"
  BY <1>1, <1>3
<1>6. handler'.pc = pc /\ handler'.index = i /\ handler'.action = a
  BY <1>5, SyncIs DEF Types
<1>7. Restores(i) => a.type = "restore"
  BY <1>4, RestoreIsLast, SyncIs DEF Indexed
<1>8. ~Restoring
  BY <1>2, SyncIs DEF RestoreOK
<1>9. Expects' = Follows(toServer[1])
  <2>1. /\ Follows(toServer[1]) \in {"size", "date", "action"}
        /\ Follows(toServer[1]) = "size" <=> a.type = "read_file"
        /\ Follows(toServer[1]) = "date" <=> a.type = "restore"
    BY <1>2, <1>3, Following
  <2>2. QED
    BY <2>1, <1>5, <1>6 DEF Expects
<1>10. ServerOK'
  BY <1>1, <1>2, <1>5, <1>6, <1>9, ServerShift
<1>11. a.type = "restore" => toServer' = <<>>
  <2> SUFFICES ASSUME a.type = "restore" PROVE toServer' = <<>>
    OBVIOUS
  <2>1. Follows(toServer[1]) = "date"
    BY <1>2, <1>3, Following
  <2>2. ~(2 \in Frames)
    <3>1. 2 - 1 = 1 /\ Expected(1) = Follows(toServer[1])
      BY <1>2, ExpectedIs, SyncIs
    <3>2. 2 \in Frames => toServer[2].kind = Expected(1)
      BY <3>1, <1>1, SyncIs DEF ServerOK
    <3>3. QED
      BY <2>1, <3>1, <3>2, <1>2
  <2>3. IsSeq(toServer') /\ Len(toServer') = 0
    BY <2>2, <1>2 DEF Shift, Frames
  <2>4. PICK t : t = toServer'
    OBVIOUS
  <2>5. t = <<>>
    <3>1. IsSeq(t) /\ Len(t) = 0
      BY <2>3, <2>4
    <3>2. QED
      BY <3>1, SeqEmpty, Zenon
  <2>6. QED
    BY <2>4, <2>5
<1>12. Reading => \A k \in Pairs : Says(k) # finish => About(k) < i
  BY <1>2, <1>4, SyncIs DEF OrderOK
<1>13. Reading => \A k \in Pairs : Says(k) = received => ~Restores(About(k))
  BY <1>1, SyncIs DEF AloneOK
<1>14. Answer(i, received)'
  BY <1>1, <1>4, Statuses DEF Answer, Fresh
<1>15. Open(handler.index)'
  <2>1. Open(i)'
    BY <1>1, <1>4 DEF Fresh, Open, Fate
  <2>2. QED
    BY <2>1, <1>6 DEF Open, Fate
<1>16. WriteToClient(Response(i, received)) /\ received # finish
  BY <1>1, <1>3, Statuses
<1>17. link' \in {"up", "closed", "lost"} /\ handler'.pc # "closed"
  BY <1>1, <1>5, <1>6, SyncIs DEF Threads
<1>18. QED
  BY <1>1, <1>2, <1>4, <1>5, <1>6, <1>7, <1>8, <1>10, <1>11, <1>12, <1>13, <1>14, <1>15, <1>16,
     <1>17, HandlerSays

\* A quit is read: the client is told so, and that is the end.
LEMMA ReadQuitSync ==
  ASSUME Sync, Inv', read_action, Input.kind = "action", Input.action = Quit
  PROVE  Sync'
<1>1. /\ UNCHANGED <<responseMap, log, responder, consumer, actions, pushed, isTerminated,
                     has_exception_occurred>>
      /\ ReadFrame /\ handler.pc = "read" /\ WriteToClient(Response(0, finish))
      /\ handler' = [handler EXCEPT !.pc = "closed"]
      /\ link' = IF link = "up" THEN "closed" ELSE link
  BY DEF read_action, HandlerKeeps, bufferVars, clientVars, responseVars
<1>2. Shift(1) /\ 1 \in Frames /\ Input = toServer[1] /\ QuitFrame(1)
  BY <1>1, FirstFrame DEF QuitFrame
<1>3. handler'.pc = "closed" /\ ~Busy' /\ ServerOK'
  BY <1>1, HandlerGoes, SyncIs DEF HandlerPcs, Busy, ServerOK
<1>4. ~Restoring
  BY <1>2, RestoreIsLast, SyncIs DEF RestoreOK
<1>5. Reading => \A k \in Pairs : Says(k) = received => ~Restores(About(k))
  BY <1>1, SyncIs DEF AloneOK
<1>6. link' \in {"up", "closed", "lost"} /\ link' # "up"
  BY <1>1, SyncIs DEF Threads
<1>7. QED
  BY <1>1, <1>2, <1>3, <1>4, <1>5, <1>6, HandlerSays, Statuses

LEMMA ReadActionSync ==
  ASSUME Sync, Inv', read_action
  PROVE  Sync'
<1>1. Input.kind = "action"
  BY FirstFrame DEF read_action, Expects
<1>2. QED
  BY <1>1, ReadHeaderSync, ReadQuitSync

\* The action is stored, or refused, and the client is told.
LEMMA ExecuteSync ==
  ASSUME Sync, Inv', execute
  PROVE  Sync'
<1>1. /\ UNCHANGED <<responseMap, responder, consumer, actions, pushed, isTerminated,
                     has_exception_occurred, link, toServer>>
      /\ handler.pc = "execute" /\ ToRead
  BY DEF execute, HandlerKeeps, bufferVars, clientVars, responseVars
<1>2. PICK i : i = handler.index
  OBVIOUS
<1>3. PICK s, o : /\ (s = completed /\ o = "stored") \/ (s = error /\ o = "refused")
                  /\ WriteToClient(Response(i, s))
                  /\ log' = [log EXCEPT ![i + 1].outcome = o]
  BY <1>2 DEF execute
<1>4. Busy /\ handler'.pc = "read" /\ ~Busy' /\ Expects' = Expects
  BY <1>1, HandlerReads DEF Busy, Expects
<1>5. /\ Indexed(i, handler.action) /\ i \in Nat /\ i + 1 \in 1 .. Len(log)
      /\ Listed => i < consumer.index
      /\ \A k \in Frames : Header(k) => i < Idx(k)
      /\ Open(i) /\ handler.action.type # "restore"
  <2>1. Open(i) /\ handler.action.type # "restore"
    BY <1>1, <1>2, <1>4, SyncIs DEF ListOK
  <2>2. QED
    BY <2>1, <1>2, <1>4, SyncIs DEF Inv, HandlerOK, HeadersOK, Indexed
<1>6. s \in {completed, error} /\ s # finish /\ s # received
  BY <1>3, Statuses
<1>7. /\ Len(log') = Len(log)
      /\ \A n \in 1 .. Len(log) : /\ log'[n].action = log[n].action
                                 /\ log'[n].outcome = IF n = i + 1 THEN o ELSE log[n].outcome
  <2>1. PICK n : n = i + 1
    OBVIOUS
  <2>2. o \in Outcome /\ log \in Seq(Entry)
    BY <1>3, SyncIs DEF Outcome, Types
  <2>3. QED
    BY <2>1, <2>2, <1>3, <1>5, LogOutcome
<1>8. Shift(0)
  BY <1>1, NoneTaken, SyncIs
<1>9. ServerOK'
  BY <1>1, <1>4, ServerSame
<1>10. ~Restoring
  <2> SUFFICES ASSUME Restoring PROVE FALSE
    OBVIOUS
  <2>1. Restores(i)
    BY <1>2, <1>4, SyncIs DEF RestoreOK
  <2>2. QED
    BY <2>1, <1>5, RestoreIsLast, SyncIs DEF Indexed
<1>11. Reading => \A k \in Pairs : Says(k) # finish =>
         About(k) < i \/ (About(k) = i /\ Says(k) = received /\ s # received)
  <2> SUFFICES ASSUME Reading, NEW k \in Pairs, Says(k) # finish
               PROVE  About(k) < i \/ (About(k) = i /\ Says(k) = received)
    BY <1>6
  <2>1. About(k) <= i /\ (Says(k) # received => About(k) < i)
    BY <1>2, <1>4, SyncIs DEF OrderOK
  <2>2. About(k) \in Nat
    BY OnList, SyncIs DEF AnswersOK, Answer
  <2>3. QED
    BY <2>1, <2>2, <1>5
<1>12. Reading => \A k \in Pairs : Says(k) = received => ~Restores(About(k))
  BY <1>1, SyncIs DEF AloneOK
<1>13. Answer(i, s)'
  <2>1. i \in DOMAIN responseMap' /\ responseMap'[i].st # "error" /\ Fate(i)' = o
    BY <1>1, <1>5, <1>7 DEF Open, Fate
  <2>2. QED
    BY <2>1, <1>3, <1>6, Statuses DEF Answer
<1>14. link' \in {"up", "closed", "lost"}
  BY <1>1, SyncIs DEF Threads
<1>15. QED
  BY <1>1, <1>3, <1>4, <1>5, <1>6, <1>7, <1>8, <1>9, <1>10, <1>11, <1>12, <1>13, <1>14, HandlerSays

-----------------------------------------------------------------------------
\* A snapshot is finite, and is sent entry by entry.

Finite == \A d \in Day : IsFiniteSet(backup[d])

LEMMA FiniteStart == ASSUME Init PROVE Finite
BY SessionAssumption DEF Init, Finite, Day

LEMMA FiniteApplied ==
  ASSUME Finite, db!Apply("handler")
  PROVE  Finite'
<1> SUFFICES ASSUME NEW d \in Day PROVE IsFiniteSet(backup'[d])
  BY DEF Finite
<1>1. PICK r : r = req["handler"]
  OBVIOUS
<1>2. backup'[d] = backup[d] \/ backup'[d] = db!After(backup[d], r)
  BY <1>1 DEF db!Apply, db!Day, Day
<1>3. IsFiniteSet(db!After(backup[d], r))
  <2> DEFINE T == {entry \in backup[d] : entry.filename # r.filename}
  <2>1. T \in SUBSET backup[d] /\ IsFiniteSet(backup[d])
    BY DEF Finite
  <2> HIDE DEF T
  <2>2. IsFiniteSet(T)
    BY <2>1, FS_Subset
  <2>3. \A x : IsFiniteSet(T \cup {x})
    BY <2>2, FS_AddElement
  <2>4. db!After(backup[d], r) = T \cup IF r.action = "delete_path" THEN {}
                                        ELSE {[filename |-> r.filename, hash |-> r.hash]}
    BY DEF db!After, T
  <2>5. CASE r.action = "delete_path"
    <3>1. db!After(backup[d], r) = T
      BY <2>4, <2>5
    <3>2. QED
      BY <2>2, <3>1
  <2>6. CASE r.action # "delete_path"
    <3>1. PICK x : x = [filename |-> r.filename, hash |-> r.hash]
      OBVIOUS
    <3>2. db!After(backup[d], r) = T \cup {x}
      BY <2>4, <2>6, <3>1
    <3>3. QED
      BY <2>3, <3>2
  <2>7. QED
    BY <2>5, <2>6
<1>4. IsFiniteSet(backup[d])
  BY DEF Finite
<1>5. QED
  BY <1>2, <1>3, <1>4

LEMMA FiniteStep ==
  ASSUME Finite, [Next]_vars
  PROVE  Finite'
<1>1. UNCHANGED backup \/ db!Apply("handler")
  <2>1. CASE \E a \in Action : a.type \in Pushed /\ push(a)
    BY <2>1 DEF push, dbVars
  <2>2. CASE terminate \/ Disconnect \/ NextDay
    BY <2>2 DEF terminate, Disconnect, NextDay, db!NextDay, dbVars
  <2>3. CASE ActionsConsumer
    BY <2>3 DEF ActionsConsumer, pop, ConsumerLoop, send_action_add, send_action_check,
       send_action_header, send_file_size, send_file_content, send_quit, ConsumerThrows,
       ConsumerKeeps, OthersKeep, dbVars
  <2>4. CASE ResponseConsumer
    BY <2>4 DEF ResponseConsumer, ResponderLoop, ReadResponse, action_restore_date,
       action_restore_count, action_restore_entry, action_restore_remove, action_restore_rename,
       ResponderThrows, ResponderKeeps, dbVars
  <2>5. CASE ClientHandler
    BY <2>5 DEF ClientHandler, read_action, read_file_size, read_file_content, addAction, execute,
       action_restore, HandlerThrows, db!Begin, db!Ask, db!Refuse, db!Leave, dbVars
  <2>6. CASE UNCHANGED vars
    BY <2>6 DEF vars, dbVars
  <2>7. QED
    BY <2>1, <2>2, <2>3, <2>4, <2>5, <2>6 DEF Next
<1>2. CASE UNCHANGED backup
  BY <1>2 DEF Finite
<1>3. QED
  BY <1>1, <1>2, FiniteApplied

\* SetToSeq lists each member of a finite set.
LEMMA Enumerated ==
  ASSUME NEW S, IsFiniteSet(S)
  PROVE  /\ SetToSeq(S) \in Seq(S)
         /\ {SetToSeq(S)[i] : i \in 1 .. Len(SetToSeq(S))} = S
<1>1. PICK n \in Nat : n = Cardinality(S) /\ ExistsBijection(1 .. n, S)
  BY FS_CardinalityType
<1>2. \E f \in [1 .. n -> S] : IsInjective(f)
  BY <1>1 DEF ExistsBijection, Bijection, Injection
<1> DEFINE q == CHOOSE f \in [1 .. n -> S] : IsInjective(f)
<1>3. q \in [1 .. n -> S] /\ IsInjective(q)
  BY <1>2
<1>4. SetToSeq(S) = q
  BY <1>1 DEF SetToSeq
<1> HIDE DEF q
<1>5. q \in Injection(1 .. n, S)
  BY <1>3 DEF Injection
<1>6. Cardinality(1 .. n) = n
  BY FS_Interval
<1>7. q \in Surjection(1 .. n, S)
  BY <1>1, <1>5, <1>6, FS_Injection
<1>8. q \in Seq(S) /\ Len(q) = n
  BY <1>3
<1>9. \A t \in S : \E i \in 1 .. n : q[i] = t
  BY <1>7 DEF Surjection
<1>10. {q[i] : i \in 1 .. n} = S
  BY <1>3, <1>9
<1>11. QED
  BY <1>4, <1>8, <1>10

\* The number of entries, the entries, and the response that closes them.
RestoreAnswer(e, i) ==
  <<Int32(Len(e))>> \o [j \in 1 .. Len(e) |-> EntryFrame(e[j])] \o Response(i, completed)

LEMMA RestoreAnswerIs ==
  ASSUME NEW S, NEW e \in Seq(S), NEW i, NEW n, n = Len(e)
  PROVE  /\ IsSeq(RestoreAnswer(e, i)) /\ n \in Nat /\ Len(RestoreAnswer(e, i)) = n + 3
         /\ RestoreAnswer(e, i)[1] = Int32(n)
         /\ \A j \in 1 .. n : RestoreAnswer(e, i)[j + 1] = EntryFrame(e[j])
         /\ RestoreAnswer(e, i)[n + 2] = Int32(i) /\ RestoreAnswer(e, i)[n + 3] = Int32(completed)
<1>1. n \in Nat
  BY LenProperties
<1> DEFINE a == <<Int32(n)>>
           b == [j \in 1 .. n |-> EntryFrame(e[j])]
           c == Response(i, completed)
           ab == a \o b
           abc == ab \o c
<1>2. IsSeq(a) /\ Len(a) = 1 /\ a[1] = Int32(n)
  BY SeqOne
<1>3. IsSeq(b) /\ Len(b) = n /\ \A j \in 1 .. n : b[j] = EntryFrame(e[j])
  <2>1. b \in Seq({EntryFrame(e[j]) : j \in 1 .. n}) /\ Len(b) = n
    BY <1>1
  <2>2. IsSeq(b)
    BY <2>1, SeqAny
  <2>3. QED
    BY <2>1, <2>2
<1>4. IsSeq(c) /\ Len(c) = 2 /\ c[1] = Int32(i) /\ c[2] = Int32(completed)
  BY ResponseIs
<1>5. RestoreAnswer(e, i) = abc
  BY DEF RestoreAnswer
<1> HIDE DEF a, b, c
<1>6. IsSeq(ab) /\ Len(ab) = Len(a) + Len(b)
  <2>1. IsSeq(ab)
    BY <1>2, <1>3, SeqConcat, Zenon
  <2>2. Len(ab) = Len(a) + Len(b)
    BY <1>2, <1>3, SeqConcat
  <2>3. QED
    BY <2>1, <2>2
<1>7. /\ \A j \in 1 .. Len(a) : ab[j] = a[j]
      /\ \A j \in 1 .. Len(b) : ab[Len(a) + j] = b[j]
  <2>1. \A j \in 1 .. Len(a) : ab[j] = a[j]
    BY <1>2, <1>3, SeqConcat
  <2>2. \A j \in 1 .. Len(b) : ab[Len(a) + j] = b[j]
    <3>1. IsSeq(a) /\ IsSeq(b)
      BY <1>2, <1>3
    <3>2. QED
      BY <3>1, SeqConcat
  <2>3. QED
    BY <2>1, <2>2
<1> HIDE DEF ab
<1>8. IsSeq(abc) /\ Len(abc) = Len(ab) + Len(c)
  <2>1. IsSeq(abc)
    BY <1>4, <1>6, SeqConcat, Zenon
  <2>2. Len(abc) = Len(ab) + Len(c)
    BY <1>4, <1>6, SeqConcat
  <2>3. QED
    BY <2>1, <2>2
<1>9. /\ \A j \in 1 .. Len(ab) : abc[j] = ab[j]
      /\ \A j \in 1 .. Len(c) : abc[Len(ab) + j] = c[j]
  <2>1. \A j \in 1 .. Len(ab) : abc[j] = ab[j]
    BY <1>4, <1>6, SeqConcat
  <2>2. \A j \in 1 .. Len(c) : abc[Len(ab) + j] = c[j]
    <3>1. IsSeq(ab) /\ IsSeq(c)
      BY <1>4, <1>6
    <3>2. QED
      BY <3>1, SeqConcat
  <2>3. QED
    BY <2>1, <2>2
<1> HIDE DEF abc
<1>10. Len(ab) = n + 1 /\ Len(abc) = n + 3
  BY <1>1, <1>2, <1>3, <1>4, <1>6, <1>8
<1>11. abc[1] = Int32(n)
  BY <1>1, <1>2, <1>7, <1>9, <1>10
<1>12. ASSUME NEW j \in 1 .. n PROVE abc[j + 1] = EntryFrame(e[j])
  <2>1. j + 1 \in 1 .. Len(ab) /\ Len(a) + j = j + 1 /\ j \in 1 .. Len(b)
    BY <1>1, <1>2, <1>3, <1>10
  <2>2. abc[j + 1] = ab[j + 1] /\ ab[j + 1] = b[j]
    BY <2>1, <1>7, <1>9
  <2>3. QED
    BY <2>2, <1>3
<1>13. abc[n + 2] = Int32(i) /\ abc[n + 3] = Int32(completed)
  <2>1. 1 \in 1 .. Len(c) /\ 2 \in 1 .. Len(c) /\ Len(ab) + 1 = n + 2 /\ Len(ab) + 2 = n + 3
    BY <1>1, <1>4, <1>10
  <2>2. QED
    BY <2>1, <1>4, <1>9
<1>14. QED
  BY <1>1, <1>5, <1>8, <1>10, <1>11, <1>12, <1>13

\* The date is read: the client is sent what the backup holds of it.
LEMMA RestoreServed ==
  ASSUME Sync, Inv', Finite, "db_read" \notin Faults, action_restore
  PROVE  \E e, n, i :
           /\ n \in Nat /\ n = Len(e) /\ e = SetToSeq(backup[handler.action.date])
           /\ e \in Seq(backup[handler.action.date])
           /\ i = handler.index /\ i \in Nat /\ i + 1 \in 1 .. Len(log) /\ Open(i)
           /\ Indexed(i, handler.action) /\ handler.action.type = "restore"
           /\ Listed => i < consumer.index
           /\ WriteToClient(RestoreAnswer(e, i))
           /\ log' = [log EXCEPT ![i + 1].outcome = "served"]
           /\ toServer' = <<>> /\ ToRead /\ responder.pc \in {"count", "failed"}
<1>1. ReadFrame /\ handler.pc = "date" /\ Busy
  BY DEF action_restore, Busy
<1>2. /\ Shift(1) /\ 1 \in Frames /\ Input = toServer[1] /\ Input.kind = "date"
      /\ Input.date = handler.action.date /\ responder.pc \in {"count", "failed"}
  BY <1>1, FirstFrame DEF Expects
<1>3. PICK i : i = handler.index
  OBVIOUS
<1>4. /\ Indexed(i, handler.action) /\ i \in Nat /\ i + 1 \in 1 .. Len(log) /\ Open(i)
      /\ handler.action.type = "restore" /\ (Listed => i < consumer.index)
  <2>1. Open(i) /\ handler.action.type = "restore"
    BY <1>1, <1>3, SyncIs DEF ListOK
  <2>2. QED
    BY <2>1, <1>1, <1>3, SyncIs DEF Inv, HandlerOK, Indexed
<1>5. PICK D : D = backup[handler.action.date]
  OBVIOUS
<1>6. IsFiniteSet(D)
  <2>1. handler.action.date \in Day
    BY <1>4 DEF Indexed, Action, FileAction, Day
  <2>2. QED
    BY <2>1, <1>5 DEF Finite
<1>7. PICK e : /\ e \in getRestoreEntries /\ WriteToClient(RestoreAnswer(e, i))
               /\ log' = [log EXCEPT ![i + 1].outcome = "served"] /\ ToRead
  BY <1>2, <1>3 DEF action_restore, RestoreAnswer
<1>8. e = SetToSeq(D)
  BY <1>2, <1>5, <1>7 DEF getRestoreEntries
<1>9. e \in Seq(D)
  BY <1>6, <1>8, Enumerated
<1>10. Len(e) \in Nat
  BY <1>9, LenProperties
<1>11. toServer' = <<>>
  <2>1. Follows(toServer[1]) = "nothing"
    BY <1>2, Following
  <2>2. ~(2 \in Frames)
    <3>1. 2 - 1 = 1 /\ Expected(1) = Follows(toServer[1])
      BY <1>2, ExpectedIs, SyncIs
    <3>2. 2 \in Frames => toServer[2].kind = Expected(1) /\ toServer[2].kind # "nothing"
      BY <3>1, <1>1, SyncIs DEF ServerOK
    <3>3. QED
      BY <2>1, <3>1, <3>2
  <2>3. IsSeq(toServer') /\ Len(toServer') = 0
    BY <2>2, <1>2 DEF Shift, Frames
  <2>4. PICK t : t = toServer'
    OBVIOUS
  <2>5. t = <<>>
    <3>1. IsSeq(t) /\ Len(t) = 0
      BY <2>3, <2>4
    <3>2. QED
      BY <3>1, SeqEmpty, Zenon
  <2>6. QED
    BY <2>4, <2>5
<1>12. QED
  BY <1>2, <1>3, <1>4, <1>5, <1>7, <1>8, <1>9, <1>10, <1>11

LEMMA RestoreAnswerSync ==
  ASSUME Sync, Inv', Finite, "db_read" \notin Faults, action_restore
  PROVE  Sync'
<1>1. UNCHANGED <<responseMap, responder, consumer, actions, pushed, isTerminated,
                  has_exception_occurred, link>>
  BY DEF action_restore, HandlerKeeps, bufferVars, clientVars, responseVars
<1>2. PICK e, n, i :
        /\ n \in Nat /\ n = Len(e) /\ e \in Seq(backup[handler.action.date])
        /\ i = handler.index /\ i \in Nat /\ i + 1 \in 1 .. Len(log) /\ Open(i)
        /\ Indexed(i, handler.action) /\ handler.action.type = "restore"
        /\ Listed => i < consumer.index
        /\ WriteToClient(RestoreAnswer(e, i))
        /\ log' = [log EXCEPT ![i + 1].outcome = "served"]
        /\ toServer' = <<>> /\ ToRead /\ responder.pc \in {"count", "failed"}
  BY RestoreServed
<1>3. handler.pc = "date" /\ Busy /\ handler'.pc = "read" /\ ~Busy'
  BY <1>2, HandlerReads DEF action_restore, Busy
<1>4. /\ Len(log') = Len(log)
      /\ \A m \in 1 .. Len(log) : /\ log'[m].action = log[m].action
                                 /\ log'[m].outcome = IF m = i + 1 THEN "served" ELSE log[m].outcome
  <2>1. PICK m : m = i + 1
    OBVIOUS
  <2>2. "served" \in Outcome /\ log \in Seq(Entry)
    BY SyncIs DEF Outcome, Types
  <2>3. QED
    BY <2>1, <2>2, <1>2, LogOutcome
<1>5. /\ i \in DOMAIN responseMap /\ responseMap[i].st # "error" /\ Restores(i)
      /\ Fate(i)' = "served"
  <2>1. i \in DOMAIN responseMap /\ responseMap[i].st # "error"
    BY <1>2 DEF Open
  <2>2. responseMap[i].action = log[i + 1].action
    BY <2>1, OnList, SyncIs
  <2>3. Restores(i)
    BY <2>1, <2>2, <1>2 DEF Restores, responses!IsRestore, Indexed
  <2>4. QED
    BY <2>1, <2>3, <1>2, <1>4 DEF Fate
<1>6. /\ i + 1 = Len(log) /\ ~Sending /\ consumer.pc \notin {"add", "quit"} /\ actions = <<>>
      /\ ~Listed
  <2>1. /\ i + 1 = Len(log) /\ ~Sending /\ consumer.pc \notin {"add", "quit"} /\ actions = <<>>
        /\ Listed => consumer.index = i
    BY <1>5, RestoreIsLast, SyncIs
  <2>2. Listed => i < consumer.index /\ consumer.index \in Nat
    BY <1>2, SyncIs DEF Types
  <2>3. QED
    BY <2>1, <2>2, <1>2
<1>7. Frames' = {} /\ ~Reading /\ ~Reading'
  <2>1. Len(<<>>) = 0
    OBVIOUS
  <2>2. Frames' = 1 .. 0
    BY <2>1, <1>2 DEF Frames
  <2>3. QED
    BY <2>2, <1>1, <1>2 DEF Reading
<1>8. /\ IsSeq(RestoreAnswer(e, i)) /\ Len(RestoreAnswer(e, i)) = n + 3
      /\ RestoreAnswer(e, i)[1] = Int32(n)
      /\ \A j \in 1 .. n : RestoreAnswer(e, i)[j + 1] = EntryFrame(e[j])
      /\ RestoreAnswer(e, i)[n + 2] = Int32(i) /\ RestoreAnswer(e, i)[n + 3] = Int32(completed)
  <2>1. PICK S : e \in Seq(S)
    BY <1>2
  <2>2. n = Len(e)
    BY <1>2
  <2>3. QED
    BY <2>1, <2>2, RestoreAnswerIs
<1>9. PICK w : w = RestoreAnswer(e, i)
  OBVIOUS
<1>10. toClient' = IF link = "up" THEN toClient \o w ELSE toClient
  BY <1>2, <1>9 DEF WriteToClient
<1>11. IsSeq(toClient')
  <2>1. IsSeq(toClient) /\ IsSeq(w)
    BY <1>8, <1>9, SyncIs DEF Threads
  <2>2. IsSeq(toClient \o w)
    BY <2>1, SeqConcat, Zenon
  <2>3. QED
    BY <2>1, <2>2, <1>10
<1>12. Threads'
  BY <1>1, <1>3, <1>4, <1>11, SyncIs DEF Threads
<1>13. MapOK'
  <2>1. \A j \in DOMAIN responseMap : log'[j + 1].action = log[j + 1].action
    BY <1>4, OnList, SyncIs
  <2>2. QED
    BY <2>1, <1>1, <1>4, SyncIs DEF MapOK
<1>14. QuietOK'
  <2>1. RestorePending' => RestorePending
    BY <1>1, PendingKept
  <2>2. \A j : Restores(j)' <=> Restores(j)
    BY <1>1 DEF Restores, responses!IsRestore
  <2>3. QED
    BY <2>1, <2>2, <1>1, <1>4, <1>7, SyncIs DEF QuietOK
<1>15. ServerOK'
  <2>1. consumer.pc \notin {"size", "content"}
    BY <1>6 DEF Sending
  <2>2. Expected(Len(toServer))' = "action"
    <3>1. Len(<<>>) = 0
      OBVIOUS
    <3>2. QED
      BY <3>1, <1>2, <1>3 DEF Expected, Expects
  <2>3. QED
    BY <2>1, <2>2, <1>1, <1>3, <1>7 DEF ServerOK
<1>16. ListOK'
  BY <1>1, <1>3, <1>6, <1>7 DEF ListOK, Listed
<1>17. AnswersOK' /\ OrderOK' /\ AloneOK'
  BY <1>7 DEF AnswersOK, OrderOK, AloneOK
<1>18. RestoreOK'
  <2> SUFFICES ASSUME responder.pc = "count" PROVE RestoreOK'
    BY <1>1, <1>2 DEF RestoreOK, Restoring
  <2>1. /\ Restoring /\ Restores(responder.index) /\ responseMap[responder.index].st = "sent"
        /\ responder.index = i /\ toClient = <<>>
    BY <1>2, <1>3, SyncIs DEF RestoreOK, Restoring
  <2>2. Restores(responder.index)'
    BY <2>1, <1>1 DEF Restores, responses!IsRestore
  <2>3. ASSUME toClient' # <<>>
        PROVE  \E m \in 0 .. Len(toClient') : toClient'[1] = Int32(m) /\ Block(m, 1)'
    <3>1. toClient' = <<>> \o w
      BY <2>1, <2>3, <1>10
    <3>2. toClient' = w
      <4>1. PICK S : w \in Seq(S)
        BY <1>8, <1>9 DEF IsSeq
      <4>2. QED
        BY <3>1, <4>1, ConcatEmptySeq
    <3>3. /\ Len(toClient') = n + 3 /\ toClient'[1] = Int32(n)
          /\ \A j \in 1 .. n : toClient'[j + 1] = EntryFrame(e[j])
          /\ toClient'[n + 2] = Int32(i) /\ toClient'[n + 3] = Int32(completed)
      BY <3>2, <1>8, <1>9
    <3>4. Fate(responder.index)' = "served"
      BY <2>1, <1>1, <1>5 DEF Fate
    <3>5. \A j \in 1 + 1 .. 1 + n : toClient'[j].kind = "entry"
      <4> SUFFICES ASSUME NEW j \in 1 + 1 .. 1 + n PROVE toClient'[j].kind = "entry"
        OBVIOUS
      <4>1. j - 1 \in 1 .. n /\ (j - 1) + 1 = j
        BY <1>2
      <4>2. toClient'[j] = EntryFrame(e[j - 1])
        BY <4>1, <3>3
      <4>3. QED
        BY <4>2 DEF EntryFrame
    <3>6. 1 + n + 2 = n + 3 /\ 1 + n + 1 = n + 2 /\ n \in 0 .. Len(toClient')
      BY <3>3, <1>2
    <3>7. Block(n, 1)'
      BY <3>3, <3>4, <3>5, <3>6, <2>1, <1>1 DEF Block
    <3>8. QED
      BY <3>3, <3>6, <3>7
  <2>4. QED
    BY <2>1, <2>2, <2>3, <1>1, <1>3, <1>6, <1>7 DEF RestoreOK, Listed
<1>19. TruthfulPending'
  <2> SUFFICES ASSUME NEW m \in 1 .. Len(log)
               PROVE  /\ m - 1 \notin DOMAIN responseMap => log'[m].outcome \in {"stored", "served", "ignored"}
                      /\ m - 1 \in DOMAIN responseMap /\ responseMap[m - 1].st = "error"
                           => log'[m].outcome = "refused"
    BY <1>1, <1>4 DEF TruthfulPending
  <2>1. CASE m = i + 1
    <3>1. m - 1 = i
      BY <2>1, <1>2
    <3>2. QED
      BY <3>1, <1>5
  <2>2. CASE m # i + 1
    BY <2>2, <1>4, SyncIs DEF TruthfulPending
  <2>3. QED
    BY <2>1, <2>2
<1>20. QED
  BY <1>12, <1>13, <1>14, <1>15, <1>16, <1>17, <1>18, <1>19 DEF Sync

-----------------------------------------------------------------------------
\* The invariant.

LEMMA SyncStart ==
  ASSUME Init
  PROVE  Sync
<1>1. Inv
  BY Start
<1>2. /\ actions = <<>> /\ toServer = <<>> /\ toClient = <<>> /\ log = <<>>
      /\ isTerminated = FALSE /\ has_exception_occurred = FALSE /\ pushed = 0
      /\ consumer = [pc |-> "pop", action |-> None, index |-> 0]
      /\ responder = [pc |-> "loop", index |-> 0, left |-> 0]
      /\ handler = [pc |-> "read", index |-> 0, action |-> None, hash |-> None]
      /\ link = "up" /\ responseMap = [i \in {} |-> 0]
  BY DEF Init, responses!Init
<1>3. /\ Len(actions) = 0 /\ Len(toServer) = 0 /\ Len(toClient) = 0 /\ Len(log) = 0
      /\ DOMAIN responseMap = {}
  <2>1. Len(<<>>) = 0
    OBVIOUS
  <2>2. QED
    BY <2>1, <1>2
<1>4. Frames = {} /\ Pairs = {} /\ ~Busy /\ ~Listed /\ ~Restoring
  <2>1. Frames = 1 .. 0 /\ Pairs = {k \in 1 .. 0 : 2 * k <= 0}
    BY <1>3 DEF Frames, Pairs
  <2>2. QED
    BY <2>1, <1>2 DEF Busy, Listed, Restoring
<1>5. Threads
  <2>1. IsSeq(toClient)
    <3>1. <<>> \in Seq({})
      OBVIOUS
    <3>2. QED
      BY <3>1, <1>2, SeqAny
  <2>2. Len(log) + Len(actions) + (IF consumer.pc = "add" THEN 1 ELSE 0) <= pushed
    BY <1>2, <1>3
  <2>3. pushed \in 0 .. MaxActions
    BY <1>2, SessionAssumption
  <2>4. isTerminated \in BOOLEAN /\ has_exception_occurred \in BOOLEAN
    BY <1>2
  <2>5. responder \in [pc : ClientPc \cup {"read", "date", "count", "entries", "rename"},
                       index : Nat, left : Nat]
    BY <1>2 DEF ClientPc
  <2>6. consumer.index <= Len(log) /\ consumer.action = None /\ handler.pc # "closed"
    BY <1>2, <1>3
  <2>7. QED
    BY <2>1, <2>2, <2>3, <2>4, <2>5, <2>6, <1>2 DEF Threads
<1>6. MapOK
  BY <1>3 DEF MapOK
<1>7. QuietOK
  BY <1>2, <1>3, <1>4 DEF QuietOK
<1>8. ServerOK
  <2>1. Expected(Len(toServer)) = "action"
    BY <1>2, <1>3 DEF Expected, Expects
  <2>2. QED
    BY <2>1, <1>2, <1>4 DEF ServerOK
<1>9. ListOK
  BY <1>4 DEF ListOK
<1>10. AnswersOK
  <2>1. \E n \in 0 .. Len(toClient) : Len(toClient) = 2 * n
    <3>1. 0 \in 0 .. Len(toClient) /\ Len(toClient) = 2 * 0
      BY <1>3
    <3>2. QED
      BY <3>1
  <2>2. \A j \in 1 .. Len(toClient) : FALSE
    BY <1>3
  <2>3. QED
    BY <2>1, <2>2, <1>4 DEF AnswersOK
<1>11. OrderOK /\ AloneOK /\ RestoreOK
  BY <1>4 DEF OrderOK, AloneOK, RestoreOK
<1>12. TruthfulPending
  BY <1>3 DEF TruthfulPending
<1>13. QED
  BY <1>1, <1>5, <1>6, <1>7, <1>8, <1>9, <1>10, <1>11, <1>12 DEF Sync

LEMMA SyncStutter ==
  ASSUME Sync, UNCHANGED vars
  PROVE  Sync'
<1>1. Inv'
  BY Stutter, SyncIs
<1>2. /\ UNCHANGED <<responseMap, log, handler, toClient, responder, toServer, link>>
      /\ UNCHANGED <<consumer, has_exception_occurred, isTerminated, actions, pushed>>
  BY DEF vars, bufferVars, clientVars, responseVars, netVars
<1>3. Threads' /\ ServerOK'
  BY <1>2, ServerKept, SyncIs DEF Threads
<1>4. /\ MapOK' /\ ListOK' /\ AnswersOK' /\ OrderOK' /\ AloneOK' /\ RestoreOK'
      /\ TruthfulPending'
  BY <1>2, NothingSaid DEF Listed
<1>5. QuietOK'
  <2>1. Frames' = Frames /\ \A k : QuitFrame(k)' <=> QuitFrame(k)
    BY <1>2 DEF Frames, QuitFrame
  <2>2. \A i : Restores(i)' <=> Restores(i)
    BY <1>2 DEF Restores, responses!IsRestore
  <2>3. RestorePending' <=> RestorePending
    BY <1>2 DEF RestorePending, responses!IsRestore
  <2>4. QED
    BY <2>1, <2>2, <2>3, <1>2, SyncIs DEF QuietOK
<1>6. QED
  BY <1>1, <1>3, <1>4, <1>5 DEF Sync

LEMMA SyncStep ==
  ASSUME QuietRestore, "file_change" \notin Faults, "db_read" \notin Faults,
         Sync, Finite, Next
  PROVE  Sync'
<1>1. Inv'
  BY Step, SyncIs
<1>2. CASE \E a \in Action : a.type \in Pushed /\ push(a)
  BY <1>1, <1>2, PushSync
<1>3. CASE terminate \/ Disconnect \/ NextDay
  BY <1>1, <1>3, UserSync
<1>4. CASE ActionsConsumer
  BY <1>1, <1>4, PopSync, ConsumerLoopSync, AddSync, CheckSync, HeaderSync, SizeSync, ContentSync,
     QuitSync, ConsumerThrowsSync DEF ActionsConsumer
<1>5. CASE ResponseConsumer
  BY <1>1, <1>5, ResponderLoopSync, ReadResponseSync, DateSync, CountSync, EntrySync, RemoveSync,
     RenameSync, ResponderThrowsSync DEF ResponseConsumer
<1>6. CASE ClientHandler
  BY <1>1, <1>6, ReadActionSync, ReadSizeSync, ReadContentSync, AddActionSync, ExecuteSync,
     RestoreAnswerSync, HandlerThrowsSync DEF ClientHandler
<1>7. QED
  BY <1>2, <1>3, <1>4, <1>5, <1>6 DEF Next

LEMMA AlwaysInSync ==
  ASSUME QuietRestore, "file_change" \notin Faults, "db_read" \notin Faults
  PROVE  Spec => [](Sync /\ Finite)
<1>1. Init => Sync /\ Finite
  BY SyncStart, FiniteStart
<1>2. Sync /\ Finite /\ [Next]_vars => (Sync /\ Finite)'
  <2> SUFFICES ASSUME Sync, Finite, [Next]_vars PROVE Sync' /\ Finite'
    OBVIOUS
  <2>1. Finite'
    BY FiniteStep
  <2>2. CASE Next
    BY <2>1, <2>2, SyncStep
  <2>3. CASE UNCHANGED vars
    BY <2>1, <2>3, SyncStutter
  <2>4. QED
    BY <2>2, <2>3
<1>3. QED
  BY <1>1, <1>2, PTL DEF Spec

\* Whatever the actions, the faults and the order of the steps, if nothing is
\* pushed while a restore is pending and no file changes while it is sent, the
\* buffers, the list of pending actions, the threads and the log hold what
\* their types say: the list never counts past what was popped
\* (ResponseBuffer.cpp), nor the actions past what was pushed.
THEOREM SessionTypes ==
  ASSUME QuietRestore, "file_change" \notin Faults, "db_read" \notin Faults
  PROVE  Spec => []TypeOK
<1>1. Sync => TypeOK
  <2> SUFFICES ASSUME Sync PROVE TypeOK
    OBVIOUS
  <2>1. /\ actions \in Seq(Action) /\ isTerminated \in BOOLEAN /\ has_exception_occurred \in BOOLEAN
        /\ pushed \in 0 .. MaxActions /\ current_index = Len(log)
        /\ link \in {"up", "closed", "lost"} /\ handler.pc \in HandlerPcs
        /\ responder.pc \in ClientPc \cup {"read", "date", "count", "entries", "rename", "garbled"}
    BY SyncIs DEF Types, Threads
  <2>2. consumer \in [pc : ConsumerPcs, action : Action \cup {None}, index : 0 .. MaxActions]
    <3>1. consumer \in [pc : ConsumerPcs, action : Action \cup {None}, index : Nat]
      BY SyncIs DEF Types
    <3>2. consumer.index \in 0 .. MaxActions
      BY <3>1, SyncIs, SessionAssumption DEF Threads
    <3>3. QED
      BY <3>1, <3>2
  <2>3. \A i \in 1 .. Len(log) : log[i] \in Entry
    BY ElementOfSeq, SyncIs DEF Types
  <2>4. responses!TypeOK
    <3>1. current_index \in Nat
      BY <2>1, SyncIs
    <3>2. \A i \in DOMAIN responseMap :
            i \in Nat /\ responseMap[i] \in [action : Action, st : responses!ActionStatus]
      <4> SUFFICES ASSUME NEW i \in DOMAIN responseMap
                   PROVE  i \in Nat /\ responseMap[i] \in [action : Action, st : responses!ActionStatus]
        OBVIOUS
      <4>1. i \in Nat /\ log[i + 1].action \in Action
        BY OnList, SyncIs
      <4>2. QED
        BY <4>1, SyncIs DEF MapOK
    <3>3. QED
      BY <3>1, <3>2 DEF responses!TypeOK
  <2>5. QED
    BY <2>1, <2>2, <2>3, <2>4 DEF TypeOK, ConsumerPcs, HandlerPcs, Entry
<1>2. QED
  BY <1>1, AlwaysInSync, PTL

\* Under the same conditions each side reads what the other wrote for it: the
\* handler (ClientHandler.cpp) never takes a header for a date or for a file,
\* the response consumer (Client.cpp) never takes a response for a number of
\* entries, and every pending action was listed before it was sent.
THEOREM ReadsInSync ==
  ASSUME QuietRestore, "file_change" \notin Faults, "db_read" \notin Faults
  PROVE  Spec => []InSync
<1>1. Sync => InSync
  <2> SUFFICES ASSUME Sync PROVE InSync
    OBVIOUS
  <2>1. handler.pc # "garbled" /\ responder.pc # "garbled"
    BY SyncIs DEF ServerOK, Threads, ClientPc
  <2>2. DOMAIN responseMap \subseteq 0 .. Len(log) - 1
    BY SyncIs DEF MapOK
  <2>3. current_index = Len(log)
    BY SyncIs DEF Types
  <2>4. QED
    BY <2>1, <2>2, <2>3 DEF InSync
<1>2. QED
  BY <1>1, AlwaysInSync, PTL

\* Under the same conditions the list of pending actions (ResponseBuffer.cpp)
\* tells the user the truth: an action that is off the list is stored, served or
\* needed nothing, and one that is shown as an error was refused.
THEOREM PendingIsTruthful ==
  ASSUME QuietRestore, "file_change" \notin Faults, "db_read" \notin Faults
  PROVE  Spec => []TruthfulPending
<1>1. Sync => TruthfulPending
  BY DEF Sync
<1>2. QED
  BY <1>1, AlwaysInSync, PTL
=============================================================================
