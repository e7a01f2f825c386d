-------------------------- MODULE SessionEnd_proof --------------------------
(***************************************************************************)
(* What a session leaves behind: in the folder after a restore, and on the *)
(* list and in the buffer after a quit.  Both rest on the invariant Sync,  *)
(* by which each side reads what the other wrote for it.                   *)
(***************************************************************************)
EXTENDS SessionSync_proof

-----------------------------------------------------------------------------
\* What was stored before an action stays as it is, once everything that is on
\* its way is at least as late.

Past(n) == Replay(SubSeq(log, 1, n))
Ahead(n) ==
  /\ n \in 0 .. Len(log) - 1
  /\ Busy => n <= handler.index
  /\ Listed \/ Sending => n <= consumer.index
  /\ \A k \in Frames : Header(k) => n <= Idx(k)
PastFixed(n) == Ahead(n)' /\ Past(n)' = Past(n) /\ log'[n + 1].action = log[n + 1].action

LEMMA PrefixOf ==
  ASSUME NEW l \in Seq(Entry), NEW n \in 0 .. Len(l)
  PROVE  /\ SubSeq(l, 1, n) \in Seq(Entry) /\ Len(SubSeq(l, 1, n)) = n
         /\ \A i \in 1 .. n : SubSeq(l, 1, n)[i] = l[i]
<1>1. Len(l) \in Nat /\ n \in Nat /\ \A i \in 1 .. n : l[i] \in Entry
  BY LogFields
<1>2. /\ SubSeq(l, 1, n) \in Seq(Entry)
      /\ Len(SubSeq(l, 1, n)) = IF 1 <= n THEN n - 1 + 1 ELSE 0
      /\ \A i \in 1 .. n - 1 + 1 : SubSeq(l, 1, n)[i] = l[1 + i - 1]
  BY <1>1, SubSeqProperties
<1>3. QED
  BY <1>1, <1>2

LEMMA AheadIf ==
  ASSUME Types, Types', NEW n, Ahead(n), Len(log) <= Len(log'),
         \A i \in 1 .. Len(log) : log'[i].action = log[i].action,
         \A i \in 1 .. n : log'[i].hash = log[i].hash /\ log'[i].outcome = log[i].outcome,
         Busy' => n <= handler'.index,
         Listed' \/ Sending' => n <= consumer'.index,
         \A k \in Frames' : Header(k)' => n <= Idx(k)'
  PROVE  PastFixed(n)
<1>1. /\ log \in Seq(Entry) /\ log' \in Seq(Entry) /\ Len(log) \in Nat /\ Len(log') \in Nat
      /\ n \in 0 .. Len(log) - 1 /\ n \in 0 .. Len(log) /\ n \in 0 .. Len(log') - 1
      /\ n \in 0 .. Len(log') /\ n + 1 \in 1 .. Len(log) /\ 1 .. n \subseteq 1 .. Len(log)
  BY LogFields DEF Types, Ahead
<1>2. Ahead(n)'
  BY <1>1 DEF Ahead
<1>3. Past(n)' = Past(n)
  <2>1. PICK l1 : l1 = SubSeq(log, 1, n)
    OBVIOUS
  <2>2. PICK l2 : l2 = SubSeq(log', 1, n)
    OBVIOUS
  <2>3. /\ l1 \in Seq(Entry) /\ Len(l1) = n /\ \A i \in 1 .. n : l1[i] = log[i]
        /\ l2 \in Seq(Entry) /\ Len(l2) = n /\ \A i \in 1 .. n : l2[i] = log'[i]
    BY <2>1, <2>2, <1>1, PrefixOf
  <2>4. \A i \in 1 .. n : l2[i].action = l1[i].action /\ l2[i].hash = l1[i].hash
                          /\ l2[i].outcome = l1[i].outcome
    BY <2>3, <1>1
  <2>5. \A i \in n + 1 .. n : FALSE
    BY <1>1
  <2>6. n <= n
    BY <1>1
  <2>7. Replay(l2) = Replay(l1)
    BY <2>3, <2>4, <2>5, <2>6, ReplaySame
  <2>8. QED
    BY <2>1, <2>2, <2>7 DEF Past
<1>4. QED
  BY <1>1, <1>2, <1>3 DEF PastFixed

\* No header but a later one is sent; the handler takes the first frames.
LEMMA AheadSent ==
  ASSUME Types, NEW n, Ahead(n), NEW f, WriteToServer(<<f>>),
         f.kind = "action" /\ f.action # Quit => n <= f.index
  PROVE  \A k \in Frames' : Header(k)' => n <= Idx(k)'
<1>1. Len(toServer) \in Nat
  BY SeqLen DEF Types
<1>2. CASE toServer' = toServer
  BY <1>2 DEF Ahead, Frames, Header, Idx
<1>3. CASE /\ Len(toServer') = Len(toServer) + 1
           /\ \A i \in 1 .. Len(toServer) : toServer'[i] = toServer[i]
           /\ toServer'[Len(toServer) + 1] = f
  <2> SUFFICES ASSUME NEW k \in Frames', Header(k)' PROVE n <= Idx(k)'
    OBVIOUS
  <2>1. k \in Frames \/ k = Len(toServer) + 1
    BY <1>1, <1>3 DEF Frames
  <2>2. CASE k \in Frames
    BY <2>2, <1>3 DEF Ahead, Frames, Header, Idx
  <2>3. CASE k = Len(toServer) + 1
    BY <2>3, <1>3 DEF Header, Idx
  <2>4. QED
    BY <2>1, <2>2, <2>3
<1>4. QED
  BY <1>2, <1>3, Written DEF Types

LEMMA AheadShift ==
  ASSUME NEW n, Ahead(n), NEW d \in Nat, Shift(d)
  PROVE  \A k \in Frames' : Header(k)' => n <= Idx(k)'
BY Shifted DEF Ahead

\* The producers, the calendar and the response consumer.
LEMMA AheadOthers ==
  ASSUME Inv, Inv', NEW n, Ahead(n), UNCHANGED <<log, consumer, handler>>,
         \/ toServer' = toServer
         \/ \E f : WriteToServer(<<f>>) /\ f.kind # "action"
  PROVE  PastFixed(n)
<1>1. \A k \in Frames' : Header(k)' => n <= Idx(k)'
  <2>1. CASE toServer' = toServer
    BY <2>1 DEF Ahead, Frames, Header, Idx
  <2>2. CASE \E f : WriteToServer(<<f>>) /\ f.kind # "action"
    BY <2>2, AheadSent DEF Inv
  <2>3. QED
    BY <2>1, <2>2
<1>2. /\ Busy' => n <= handler'.index
      /\ Listed' \/ Sending' => n <= consumer'.index
  BY DEF Ahead, Busy, Listed, Sending
<1>3. Len(log) <= Len(log')
  BY LogFields DEF Inv, Types
<1>4. QED
  BY <1>1, <1>2, <1>3, AheadIf DEF Inv

\* The action consumer.
LEMMA AheadConsumer ==
  ASSUME Inv, Inv', "file_change" \notin Faults, NEW n, Ahead(n), ActionsConsumer
  PROVE  PastFixed(n)
<1>1. handler' = handler /\ (Busy' <=> Busy)
  BY DEF ActionsConsumer, pop, ConsumerLoop, send_action_add, send_action_check, send_action_header,
     send_file_size, send_file_content, send_quit, ConsumerThrows, ConsumerKeeps, OthersKeep, Busy
<1>2. Busy' => n <= handler'.index
  BY <1>1 DEF Ahead
<1>3. Len(log) \in Nat /\ n \in 0 .. Len(log) - 1
  BY LogFields DEF Inv, Types, Ahead
<1>4. CASE pop \/ ConsumerLoop \/ ConsumerThrows
  <2>1. toServer' = toServer /\ log' = log
    BY <1>4 DEF pop, ConsumerLoop, ConsumerThrows, ConsumerKeeps
  <2>2. ~Listed' /\ ~Sending'
    BY <1>4, ConsumerGoes DEF Inv, Types, pop, ConsumerLoop, ConsumerThrows, ConsumerGoto, Listed, Sending
  <2>3. \A k \in Frames' : Header(k)' => n <= Idx(k)'
    BY <2>1 DEF Ahead, Frames, Header, Idx
  <2>4. Len(log) <= Len(log')
    BY <2>1, <1>3
  <2>5. QED
    BY <1>2, <2>1, <2>2, <2>3, <2>4, AheadIf DEF Inv
<1>5. CASE send_action_add
  <2>1. /\ toServer' = toServer /\ consumer.pc = "add"
        /\ consumer' = [consumer EXCEPT !.pc = "check", !.index = current_index]
        /\ log' = Append(log, [action |-> consumer.action, hash |-> None, outcome |-> "none"])
    BY <1>5 DEF send_action_add
  <2>2. PICK e : e = [action |-> consumer.action, hash |-> None, outcome |-> "none"]
    OBVIOUS
  <2>3. e \in Entry
    BY <2>1, <2>2 DEF Inv, ConsumerOK, Entry, Outcome
  <2>4. Len(log') = Len(log) + 1 /\ \A i \in 1 .. Len(log) : log'[i] = log[i]
    BY <2>1, <2>2, <2>3, LogAppended DEF Inv, Types
  <2>5. consumer'.index = Len(log)
    BY <2>1 DEF Inv, Types
  <2>6. \A k \in Frames' : Header(k)' => n <= Idx(k)'
    BY <2>1 DEF Ahead, Frames, Header, Idx
  <2>7. Len(log) <= Len(log') /\ n <= consumer'.index /\ 1 .. n \subseteq 1 .. Len(log)
    BY <2>4, <2>5, <1>3
  <2>8. QED
    BY <1>2, <2>4, <2>6, <2>7, AheadIf DEF Inv
<1>6. CASE send_action_check
  <2>1. PICK j : j = consumer.index
    OBVIOUS
  <2>2. n <= j /\ j \in Nat /\ j + 1 \in 1 .. Len(log) /\ consumer.pc = "check"
    BY <1>3, <1>6, <2>1 DEF send_action_check, Ahead, Listed, Inv, ConsumerOK, Indexed
  <2>3. toServer' = toServer
    BY <1>6 DEF send_action_check
  <2>4. /\ Len(log') = Len(log)
        /\ \A i \in 1 .. Len(log) :
             /\ log'[i].action = log[i].action /\ log'[i].hash = log[i].hash
             /\ i # j + 1 => log'[i].outcome = log[i].outcome
    <3>1. CASE log' = log
      BY <3>1
    <3>2. CASE \E o \in {"ignored", "refused"} : log' = [log EXCEPT ![j + 1].outcome = o]
      <4>1. PICK m : m = j + 1
        OBVIOUS
      <4>2. PICK o \in {"ignored", "refused"} : log' = [log EXCEPT ![m].outcome = o]
        BY <3>2, <4>1
      <4>3. o \in Outcome /\ m \in 1 .. Len(log) /\ log \in Seq(Entry)
        BY <2>2, <4>1 DEF Outcome, Inv, Types
      <4>4. QED
        BY <4>1, <4>2, <4>3, LogOutcome
    <3>3. QED
      BY <1>6, <2>1, <3>1, <3>2 DEF send_action_check
  <2>5. Listed' \/ Sending' => n <= consumer'.index
    BY <1>6, <2>1, <2>2, ConsumerGoes, ConsumerDone DEF send_action_check, Inv, Types, ConsumerGoto
  <2>6. \A k \in Frames' : Header(k)' => n <= Idx(k)'
    BY <2>3 DEF Ahead, Frames, Header, Idx
  <2>7. Len(log) <= Len(log') /\ \A i \in 1 .. n : i \in 1 .. Len(log) /\ i # j + 1
    BY <2>2, <2>4, <1>3
  <2>8. QED
    BY <1>2, <2>4, <2>5, <2>6, <2>7, AheadIf DEF Inv
<1>7. CASE send_action_header \/ send_file_size \/ send_quit
  <2>1. log' = log
    BY <1>7 DEF send_action_header, send_file_size, send_quit
  <2>2. Listed \/ Sending \/ consumer.pc = "quit"
    BY <1>7 DEF send_action_header, send_file_size, send_quit, Listed, Sending
  <2>3. \A k \in Frames' : Header(k)' => n <= Idx(k)'
    <3>1. CASE send_action_header
      <4>1. PICK f : f = [kind |-> "action", index |-> consumer.index, action |-> consumer.action]
        OBVIOUS
      <4>2. WriteToServer(<<f>>) /\ n <= f.index
        BY <3>1, <4>1 DEF send_action_header, Ahead, Listed
      <4>3. QED
        BY <4>2, AheadSent DEF Inv
    <3>2. CASE send_file_size
      <4>1. PICK f : f = [kind |-> "size"]
        OBVIOUS
      <4>2. WriteToServer(<<f>>) /\ f.kind = "size"
        BY <3>2, <4>1 DEF send_file_size
      <4>3. QED
        BY <4>2, AheadSent DEF Inv
    <3>3. CASE send_quit
      <4>1. PICK f : f = [kind |-> "action", index |-> 0, action |-> Quit]
        OBVIOUS
      <4>2. WriteToServer(<<f>>) /\ f.action = Quit
        BY <3>3, <4>1 DEF send_quit
      <4>3. QED
        BY <4>2, AheadSent DEF Inv
    <3>4. QED
      BY <1>7, <3>1, <3>2, <3>3
  <2>4. Listed' \/ Sending' => (Listed \/ Sending) /\ consumer'.index = consumer.index
    BY <1>7, ConsumerDone DEF send_action_header, send_file_size, send_quit, ConsumerGoto, Listed, Sending,
       Inv, Types
  <2>5. Len(log) <= Len(log') /\ (Listed' \/ Sending' => n <= consumer'.index)
    BY <2>1, <2>4, <1>3 DEF Ahead
  <2>6. QED
    BY <1>2, <2>1, <2>3, <2>5, AheadIf DEF Inv
<1>8. CASE send_file_content
  <2>1. PICK h \in Hash : /\ WriteToServer(<<ContentFrame(h)>>)
                          /\ log' = [log EXCEPT ![consumer.index + 1].hash = h]
    BY <1>8 DEF send_file_content
  <2>2. PICK j : j = consumer.index + 1
    OBVIOUS
  <2>3. n < j /\ j \in 1 .. Len(log) /\ log \in Seq(Entry)
    BY <1>3, <1>8, <2>2 DEF send_file_content, Ahead, Sending, Inv, ConsumerOK, Indexed, Types
  <2>4. /\ Len(log') = Len(log)
        /\ \A i \in 1 .. Len(log) :
             /\ log'[i].action = log[i].action /\ log'[i].outcome = log[i].outcome
             /\ i # j => log'[i].hash = log[i].hash
    <3>1. log' = [log EXCEPT ![j].hash = h]
      BY <2>1, <2>2
    <3>2. QED
      BY <2>3, <3>1, LogHash
  <2>5. \A k \in Frames' : Header(k)' => n <= Idx(k)'
    <3>1. PICK f : f = ContentFrame(h)
      OBVIOUS
    <3>2. WriteToServer(<<f>>) /\ f.kind = "content"
      BY <2>1, <3>1 DEF ContentFrame
    <3>3. QED
      BY <3>2, AheadSent DEF Inv
  <2>6. ~Listed' /\ ~Sending'
    BY <1>8, ConsumerDone DEF send_file_content
  <2>7. Len(log) <= Len(log') /\ \A i \in 1 .. n : i \in 1 .. Len(log) /\ i # j
    BY <2>3, <2>4, <1>3
  <2>8. QED
    BY <1>2, <2>4, <2>5, <2>6, <2>7, AheadIf DEF Inv
<1>9. QED
  BY <1>4, <1>5, <1>6, <1>7, <1>8 DEF ActionsConsumer

\* The handler.
LEMMA AheadHandler ==
  ASSUME Inv, Inv', "file_change" \notin Faults, NEW n, Ahead(n), ClientHandler
  PROVE  PastFixed(n)
<1>1. UNCHANGED consumer
  BY HandlerKept DEF ClientHandler, read_action, read_file_size, read_file_content, addAction, execute,
     action_restore, HandlerThrows
<1>2. Listed' \/ Sending' => n <= consumer'.index
  BY <1>1 DEF Ahead, Listed, Sending
<1>3. Len(log) \in Nat /\ n \in 0 .. Len(log) - 1
  BY LogFields DEF Inv, Types, Ahead
<1>4. /\ \/ ReadFrame
         \/ toServer' = toServer
      /\ \A k \in Frames' : Header(k)' => n <= Idx(k)'
  <2>1. ReadFrame \/ toServer' = toServer
    <3>1. CASE read_file_content
      <4>1. toServer # <<>> => 1 \in Frames /\ Input = toServer[1]
        BY SeqTail DEF Frames, Input, Inv, Types
      <4>2. toServer # <<>> => Input.kind # "part"
        BY <4>1 DEF Inv, ContentsOK
      <4>3. Len(<<>>) = 0
        OBVIOUS
      <4>4. QED
        BY <3>1, <4>2, <4>3 DEF read_file_content
    <3>2. CASE ~read_file_content
      BY <3>2 DEF ClientHandler, read_action, read_file_size, addAction, execute, action_restore, HandlerThrows
    <3>3. QED
      BY <3>1, <3>2
  <2>2. CASE ReadFrame
    <3>1. Shift(1)
      BY <2>2, OneTaken DEF Inv
    <3>2. QED
      BY <2>2, <3>1, AheadShift
  <2>3. CASE toServer' = toServer
    BY <2>3 DEF Ahead, Frames, Header, Idx
  <2>4. QED
    BY <2>1, <2>2, <2>3
<1>5. CASE read_action
  <2>1. log' = log /\ ReadFrame
    BY <1>5 DEF read_action
  <2>2. 1 \in Frames /\ Input = toServer[1]
    BY <2>1, OneTaken DEF Inv
  <2>3. Busy' => n <= handler'.index
    <3>1. CASE Input.kind = "action" /\ Input.action # Quit
      <4>1. Header(1) /\ Idx(1) = Input.index
        BY <2>2, <3>1 DEF Header, Idx
      <4>2. n <= Input.index
        BY <2>2, <4>1 DEF Ahead
      <4>3. PICK i, a : i = Input.index /\ a = Input.action
        OBVIOUS
      <4>4. handler'.index = i
        <5>1. \E pc : handler' = [handler EXCEPT !.index = i, !.action = a, !.pc = pc]
          BY <1>5, <3>1, <4>3 DEF read_action
        <5>2. QED
          BY <5>1 DEF Inv, Types
      <4>5. QED
        BY <4>2, <4>3, <4>4
    <3>2. CASE ~(Input.kind = "action" /\ Input.action # Quit)
      <4>1. \E pc \in {"closed", "garbled"} : handler' = [handler EXCEPT !.pc = pc]
        BY <1>5, <3>2 DEF read_action
      <4>2. handler'.pc \in {"closed", "garbled"}
        BY <4>1 DEF Inv, Types
      <4>3. QED
        BY <4>2 DEF Busy
    <3>3. QED
      BY <3>1, <3>2
  <2>4. Len(log) <= Len(log')
    BY <2>1, <1>3
  <2>5. QED
    BY <1>2, <1>4, <2>1, <2>3, <2>4, AheadIf DEF Inv
<1>6. CASE read_file_size \/ read_file_content \/ addAction
  <2>1. log' = log /\ Busy
    BY <1>6 DEF read_file_size, read_file_content, addAction, Busy
  <2>2. handler'.index = handler.index
    <3>1. CASE read_file_size
      BY <3>1 DEF read_file_size, Inv, Types
    <3>2. CASE read_file_content
      BY <3>2 DEF read_file_content, Inv, Types
    <3>3. CASE addAction
      BY <3>3 DEF addAction, Inv, Types
    <3>4. QED
      BY <1>6, <3>1, <3>2, <3>3
  <2>3. Len(log) <= Len(log') /\ (Busy' => n <= handler'.index)
    BY <2>1, <2>2, <1>3 DEF Ahead
  <2>4. QED
    BY <1>2, <1>4, <2>1, <2>3, AheadIf DEF Inv
<1>7. CASE execute \/ action_restore
  <2>1. PICK j : j = handler.index
    OBVIOUS
  <2>2. n <= j /\ j \in Nat /\ j + 1 \in 1 .. Len(log)
    <3>1. Busy
      BY <1>7 DEF execute, action_restore, Busy
    <3>2. QED
      BY <1>3, <2>1, <3>1 DEF Ahead, Inv, HandlerOK, Indexed
  <2>3. ~Busy'
    <3>1. ToRead \/ handler' = [handler EXCEPT !.pc = "garbled"]
      BY <1>7 DEF execute, action_restore
    <3>2. handler'.pc \in {"read", "garbled"}
      BY <3>1 DEF ToRead, Inv, Types
    <3>3. QED
      BY <3>2 DEF Busy
  <2>4. /\ Len(log') = Len(log)
        /\ \A i \in 1 .. Len(log) :
             /\ log'[i].action = log[i].action /\ log'[i].hash = log[i].hash
             /\ i # j + 1 => log'[i].outcome = log[i].outcome
    <3>1. CASE log' = log
      BY <3>1
    <3>2. CASE \E o \in {"stored", "served", "refused"} : log' = [log EXCEPT ![j + 1].outcome = o]
      <4>1. PICK m : m = j + 1
        OBVIOUS
      <4>2. PICK o \in {"stored", "served", "refused"} : log' = [log EXCEPT ![m].outcome = o]
        BY <3>2, <4>1
      <4>3. o \in Outcome /\ m \in 1 .. Len(log) /\ log \in Seq(Entry)
        BY <2>2, <4>1 DEF Outcome, Inv, Types
      <4>4. QED
        BY <4>1, <4>2, <4>3, LogOutcome
    <3>3. QED
      <4>1. CASE execute
        BY <4>1, <2>1, <3>1, <3>2 DEF execute
      <4>2. CASE action_restore
        BY <4>2, <2>1, <3>1, <3>2 DEF action_restore
      <4>3. QED
        BY <1>7, <4>1, <4>2
  <2>5. Len(log) <= Len(log') /\ \A i \in 1 .. n : i \in 1 .. Len(log) /\ i # j + 1
    BY <2>2, <2>4, <1>3
  <2>6. QED
    BY <1>2, <1>4, <2>3, <2>4, <2>5, AheadIf DEF Inv
<1>8. CASE HandlerThrows
  <2>1. log' = log /\ ~Busy'
    BY <1>8 DEF HandlerThrows, Busy
  <2>2. Len(log) <= Len(log')
    BY <2>1, <1>3
  <2>3. QED
    BY <1>2, <1>4, <2>1, <2>2, AheadIf DEF Inv
<1>9. QED
  BY <1>5, <1>6, <1>7, <1>8 DEF ClientHandler

LEMMA AheadStep ==
  ASSUME Inv, Inv', "file_change" \notin Faults, NEW n, Ahead(n), [Next]_vars
  PROVE  PastFixed(n)
<1>1. CASE \E a \in Action : a.type \in Pushed /\ push(a)
  BY <1>1, AheadOthers DEF push, clientVars, netVars
<1>2. CASE terminate \/ Disconnect \/ NextDay
  BY <1>2, AheadOthers DEF terminate, Disconnect, NextDay, clientVars, netVars
<1>3. CASE ActionsConsumer
  BY <1>3, AheadConsumer
<1>4. CASE ResponseConsumer
  <2>1. UNCHANGED <<log, consumer, handler>>
    BY <1>4 DEF ResponseConsumer, ResponderLoop, ReadResponse, action_restore_date, action_restore_count,
       action_restore_entry, action_restore_remove, action_restore_rename, ResponderThrows, ResponderKeeps
  <2>2. CASE action_restore_date
    <3>1. PICK f \in {[kind |-> "date", date |-> responseMap[responder.index].action.date]} \cup {GarbageFrame} :
            WriteToServer(<<f>>)
      BY <2>2 DEF action_restore_date
    <3>2. f.kind # "action"
      BY DEF GarbageFrame
    <3>3. QED
      BY <2>1, <3>1, <3>2, AheadOthers
  <2>3. CASE ~action_restore_date
    <3>1. toServer' = toServer
      BY <1>4, <2>3 DEF ResponseConsumer, ResponderLoop, ReadResponse, action_restore_count,
         action_restore_entry, action_restore_remove, action_restore_rename, ResponderThrows, netVars
    <3>2. QED
      BY <2>1, <3>1, AheadOthers
  <2>4. QED
    BY <2>2, <2>3
<1>5. CASE ClientHandler
  BY <1>5, AheadHandler
<1>6. CASE UNCHANGED vars
  BY <1>6, AheadOthers DEF vars, clientVars, netVars
<1>7. QED
  BY <1>1, <1>2, <1>3, <1>4, <1>5, <1>6 DEF Next

-----------------------------------------------------------------------------
\* The folder that is restored, and the one it is built in.

Latest(n) == log[n + 1].action.date = LastDay
Holds(files, n) == Latest(n) => Past(n) \subseteq files /\ files \subseteq Past(n) \cup Leftover
Entries(m, n) == {toClient[j].entry : j \in m + 1 .. m + n}
FolderOK ==
  folder.index # None => Ahead(folder.index) /\ Holds(folder.content, folder.index)
BuildOK ==
  /\ responder.pc \notin {"entries", "rename"} => tmp_dir \subseteq Leftover
  /\ responder.pc = "count" /\ toClient # <<>> /\ Latest(responder.index) =>
       Entries(1, toClient[1].n) = Past(responder.index)
  /\ responder.pc \in {"entries", "rename"} =>
       Holds(tmp_dir \cup Entries(0, responder.left), responder.index)
Restored == FolderOK /\ BuildOK

\* Nothing on its way is before the action that is restored.
LEMMA RestoringAhead ==
  ASSUME Sync, Restoring
  PROVE  Ahead(responder.index)
<1>1. PICK i : i = responder.index
  OBVIOUS
<1>2. /\ Restores(i) /\ ~Listed /\ (\A k \in Frames : ~Header(k))
      /\ Busy => handler.index = i
  BY <1>1, SyncIs DEF RestoreOK
<1>3. i \in Nat /\ i + 1 = Len(log) /\ ~Sending
  BY <1>2, RestoreIsLast, SyncIs
<1>4. i \in 0 .. Len(log) - 1 /\ i <= i
  BY <1>3
<1>5. Ahead(i)
  BY <1>2, <1>3, <1>4 DEF Ahead
<1>6. QED
  BY <1>1, <1>5

LEMMA HoldsKept ==
  ASSUME NEW n, PastFixed(n), NEW files, Holds(files, n)
  PROVE  Holds(files, n)'
BY DEF PastFixed, Holds, Latest

LEMMA FolderKept ==
  ASSUME Inv, Inv', "file_change" \notin Faults, FolderOK, [Next]_vars, folder' = folder
  PROVE  FolderOK'
<1> SUFFICES ASSUME folder.index # None
             PROVE  Ahead(folder.index)' /\ Holds(folder.content, folder.index)'
  BY DEF FolderOK
<1>1. PICK n : n = folder.index
  OBVIOUS
<1>2. PICK files : files = folder.content
  OBVIOUS
<1>3. Ahead(n) /\ Holds(files, n)
  BY <1>1, <1>2 DEF FolderOK
<1>4. PastFixed(n)
  BY <1>3, AheadStep
<1>5. Ahead(n)' /\ Holds(files, n)'
  BY <1>3, <1>4, HoldsKept DEF PastFixed
<1>6. folder'.index = n /\ folder'.content = files
  BY <1>1, <1>2
<1>7. QED
  BY <1>5, <1>6 DEF Ahead, Holds, Latest, Past

\* The response consumer is not at a restore that is answered.
LEMMA NotBuilding ==
  ASSUME FolderOK', tmp_dir' \subseteq Leftover,
         responder'.pc \notin {"count", "entries", "rename"} \/ (responder'.pc = "count" /\ toClient' = <<>>)
  PROVE  Restored'
BY DEF Restored, BuildOK

\* Steps of other threads, and they say nothing to a client that restores.
LEMMA RestoredKept ==
  ASSUME Sync, Inv', "file_change" \notin Faults, Restored, [Next]_vars,
         UNCHANGED <<folder, tmp_dir, responder>>, UNCHANGED toClient \/ ~Restoring
  PROVE  Restored'
<1>1. FolderOK'
  BY FolderKept, SyncIs DEF Restored
<1>2. CASE ~Restoring
  <2>1. responder'.pc \notin {"count", "entries", "rename"} /\ tmp_dir' \subseteq Leftover
    BY <1>2 DEF Restored, BuildOK, Restoring
  <2>2. QED
    BY <1>1, <2>1, NotBuilding
<1>3. CASE Restoring /\ toClient' = toClient
  <2>1. PICK i, m, w : i = responder.index /\ m = responder.left /\ w = toClient[1].n
    OBVIOUS
  <2>2. PastFixed(i)
    BY <1>3, <2>1, RestoringAhead, AheadStep, SyncIs
  <2>3. \A k, l : Entries(k, l)' = Entries(k, l)
    BY <1>3 DEF Entries
  <2>4. responder'.pc \notin {"entries", "rename"} => tmp_dir' \subseteq Leftover
    BY DEF Restored, BuildOK
  <2>5. ASSUME responder.pc = "count", toClient # <<>>, Latest(responder.index)'
        PROVE  Entries(1, toClient[1].n)' = Past(responder.index)'
    <3>1. Latest(i)
      BY <2>1, <2>2, <2>5 DEF Latest, PastFixed
    <3>2. Entries(1, w) = Past(i)
      BY <2>1, <2>5, <3>1 DEF Restored, BuildOK
    <3>3. Past(i)' = Past(i) /\ Past(responder.index)' = Past(i)'
      BY <2>1, <2>2 DEF PastFixed, Past
    <3>4. Entries(1, toClient[1].n)' = Entries(1, w)
      BY <2>1, <1>3 DEF Entries
    <3>5. QED
      BY <3>2, <3>3, <3>4
  <2>6. ASSUME responder.pc \in {"entries", "rename"}
        PROVE  Holds(tmp_dir \cup Entries(0, responder.left), responder.index)'
    <3>1. PICK files : files = tmp_dir \cup Entries(0, m)
      OBVIOUS
    <3>2. Holds(files, i)
      BY <2>1, <2>6, <3>1 DEF Restored, BuildOK
    <3>3. Holds(files, i)'
      BY <2>2, <3>2, HoldsKept
    <3>4. (tmp_dir \cup Entries(0, responder.left))' = files
      BY <2>1, <3>1, <1>3 DEF Entries
    <3>5. QED
      BY <2>1, <3>3, <3>4 DEF Holds, Latest, Past
  <2>7. BuildOK'
    BY <2>4, <2>5, <2>6, <1>3 DEF BuildOK
  <2>8. QED
    BY <1>1, <2>7 DEF Restored
<1>4. QED
  BY <1>2, <1>3

\* The response consumer reads what it does not restore from.
LEMMA RestoredReader ==
  ASSUME Sync, Inv', "file_change" \notin Faults, Restored, [Next]_vars,
         ResponderLoop \/ ReadResponse \/ action_restore_date \/ ResponderThrows
  PROVE  Restored'
<1>1. FolderOK'
  <2>1. folder' = folder
    BY DEF ResponderLoop, ReadResponse, action_restore_date, ResponderThrows, diskVars
  <2>2. QED
    BY <2>1, FolderKept, SyncIs DEF Restored
<1>2. CASE ResponderLoop \/ ReadResponse
  <2>1. tmp_dir' \subseteq Leftover
    BY <1>2 DEF ResponderLoop, ReadResponse, diskVars, Restored, BuildOK
  <2>2. responder'.pc \notin {"count", "entries", "rename"}
    <3>1. CASE ResponderLoop
      <4>1. \E pc \in {"done", "read"} : responder' = [responder EXCEPT !.pc = pc]
        BY <3>1 DEF ResponderLoop, ResponderGoto
      <4>2. QED
        BY <4>1, SyncIs DEF Threads
    <3>2. CASE ReadResponse
      <4>1. \/ \E pc \in {"garbled", "done", "loop"} : responder' = [responder EXCEPT !.pc = pc]
            \/ \E i : responder' = [responder EXCEPT !.pc = "date", !.index = i]
        BY <3>2 DEF ReadResponse, ResponderGoto
      <4>2. QED
        BY <4>1, SyncIs DEF Threads
    <3>3. QED
      BY <1>2, <3>1, <3>2
  <2>3. QED
    BY <1>1, <2>1, <2>2, NotBuilding
<1>3. CASE action_restore_date
  <2>1. responder.pc = "date" /\ ResponderGoto("count") /\ tmp_dir' = tmp_dir /\ toClient' = toClient
    BY <1>3 DEF action_restore_date, diskVars
  <2>2. toClient = <<>>
    BY <2>1, SyncIs DEF RestoreOK, Restoring
  <2>3. responder'.pc = "count"
    BY <2>1, SyncIs DEF ResponderGoto, Threads
  <2>4. tmp_dir' \subseteq Leftover
    BY <2>1 DEF Restored, BuildOK
  <2>5. QED
    BY <1>1, <2>1, <2>2, <2>3, <2>4, NotBuilding
<1>4. CASE ResponderThrows
  <2>1. responder'.pc = "failed"
    BY <1>4 DEF ResponderThrows, ResponderIdle
  <2>2. tmp_dir' \subseteq Leftover
    BY <1>4 DEF ResponderThrows, Restored, BuildOK
  <2>3. QED
    BY <1>1, <2>1, <2>2, NotBuilding
<1>5. QED
  BY <1>2, <1>3, <1>4

\* The number of entries, and an entry, are read.
LEMMA RestoredCount ==
  ASSUME Sync, Inv', "file_change" \notin Faults, Restored, [Next]_vars, action_restore_count
  PROVE  Restored'
<1>1. /\ UNCHANGED <<log, folder, tmp_dir>>
      /\ responder.pc = "count" /\ toClient # <<>> /\ toClient' = RestInput(1)
      /\ responder' = IF Head(toClient).kind = "int"
                      THEN [responder EXCEPT !.pc = "entries", !.left = Head(toClient).n]
                      ELSE [responder EXCEPT !.pc = "garbled"]
  BY DEF action_restore_count, ResponderKeeps, diskVars
<1>2. PICK n \in 0 .. Len(toClient) : toClient[1] = Int32(n) /\ Block(n, 1)
  BY <1>1, SyncIs DEF RestoreOK, Restoring
<1>3. Len(toClient) = 1 + n + 2 /\ n \in Nat /\ IsSeq(toClient) /\ 1 <= Len(toClient)
  BY <1>2, SyncIs DEF Block, Threads
<1>4. \A j \in 1 .. Len(toClient') : toClient'[j] = toClient[j + 1]
  BY <1>1, <1>3, InputRead
<1>5. Len(toClient') = n + 2
  <2>1. Len(toClient') = Len(toClient) - 1
    BY <1>1, <1>3, InputRead
  <2>2. QED
    BY <2>1, <1>3
<1>6. Head(toClient).kind = "int" /\ Head(toClient).n = n /\ toClient[1].n = n
  BY <1>1, <1>2, <1>3, SeqTail DEF Int32
<1>7. responder'.pc = "entries" /\ responder'.index = responder.index /\ responder'.left = n
  <2>1. responder' = [responder EXCEPT !.pc = "entries", !.left = n]
    BY <1>1, <1>6
  <2>2. QED
    BY <2>1, SyncIs DEF Threads
<1>8. Entries(0, n)' = Entries(1, n)
  <2>1. \A j \in 1 .. n : j \in 1 .. Len(toClient') /\ toClient'[j] = toClient[j + 1]
    BY <1>3, <1>4, <1>5
  <2>2. {toClient'[j].entry : j \in 1 .. n} = {toClient[j].entry : j \in 2 .. 1 + n}
    <3>1. \A j \in 1 .. n : j + 1 \in 2 .. 1 + n
      BY <1>3
    <3>2. \A j \in 2 .. 1 + n : j - 1 \in 1 .. n /\ j - 1 + 1 = j
      BY <1>3
    <3>3. \A j \in 2 .. 1 + n : toClient[j] = toClient'[j - 1]
      BY <2>1, <3>2
    <3>4. \A j \in 1 .. n : toClient'[j].entry \in {toClient[k].entry : k \in 2 .. 1 + n}
      BY <2>1, <3>1
    <3>5. \A k \in 2 .. 1 + n : toClient[k].entry \in {toClient'[j].entry : j \in 1 .. n}
      BY <3>2, <3>3
    <3>6. QED
      BY <3>4, <3>5
  <2>3. 0 + 1 = 1 /\ 0 + n = n /\ 1 + 1 = 2
    BY <1>3
  <2>4. QED
    BY <2>2, <2>3 DEF Entries
<1>9. PICK i : i = responder.index
  OBVIOUS
<1>10. Holds(tmp_dir \cup Entries(1, n), i)
  <2>1. tmp_dir \subseteq Leftover
    BY <1>1 DEF Restored, BuildOK
  <2>2. Latest(i) => Entries(1, n) = Past(i)
    BY <1>1, <1>6, <1>9 DEF Restored, BuildOK
  <2>3. QED
    BY <2>1, <2>2 DEF Holds
<1>11. Holds(tmp_dir \cup Entries(0, responder.left), responder.index)'
  <2>1. PICK files : files = tmp_dir \cup Entries(1, n)
    OBVIOUS
  <2>2. Holds(files, i)'
    BY <1>1, <1>10, <2>1 DEF Holds, Latest, Past
  <2>3. (tmp_dir \cup Entries(0, responder.left))' = files
    BY <1>1, <1>7, <1>8, <2>1 DEF Entries
  <2>4. QED
    BY <2>2, <2>3, <1>7, <1>9 DEF Holds, Latest, Past
<1>12. FolderOK'
  BY <1>1, FolderKept, SyncIs DEF Restored
<1>13. QED
  BY <1>7, <1>11, <1>12 DEF Restored, BuildOK

LEMMA RestoredEntry ==
  ASSUME Sync, Inv', "file_change" \notin Faults, Restored, [Next]_vars, action_restore_entry
  PROVE  Restored'
<1>1. /\ UNCHANGED <<log, folder>>
      /\ responder.pc = "entries" /\ responder.left > 0 /\ toClient # <<>> /\ toClient' = RestInput(1)
      /\ IF Head(toClient).kind = "entry"
         THEN responder' = [responder EXCEPT !.left = @ - 1] /\ tmp_dir' = tmp_dir \cup {Head(toClient).entry}
         ELSE ResponderGoto("garbled")
  BY DEF action_restore_entry, ResponderKeeps
<1>2. PICK m : m = responder.left
  OBVIOUS
<1>3. Block(m, 0) /\ m \in Nat /\ m > 0
  BY <1>1, <1>2, SyncIs DEF RestoreOK, Threads, Restoring
<1>4. /\ Len(toClient) = m + 2 /\ IsSeq(toClient) /\ 1 <= Len(toClient)
      /\ \A j \in 1 .. m : toClient[j].kind = "entry"
  BY <1>3, SyncIs DEF Block, Threads
<1>5. \A j \in 1 .. Len(toClient') : toClient'[j] = toClient[j + 1]
  BY <1>1, <1>4, InputRead
<1>6. PICK n \in Nat : n = m - 1
  BY <1>3
<1>7. Len(toClient') = n + 2
  <2>1. Len(toClient') = Len(toClient) - 1
    BY <1>1, <1>4, InputRead
  <2>2. QED
    BY <2>1, <1>3, <1>4, <1>6
<1>8. Head(toClient) = toClient[1] /\ Head(toClient).kind = "entry"
  <2>1. 1 \in 1 .. m
    BY <1>3
  <2>2. QED
    BY <2>1, <1>1, <1>4, SeqTail
<1>9. /\ responder'.pc = "entries" /\ responder'.index = responder.index /\ responder'.left = n
      /\ tmp_dir' = tmp_dir \cup {toClient[1].entry}
  <2>1. responder' = [responder EXCEPT !.left = n] /\ tmp_dir' = tmp_dir \cup {toClient[1].entry}
    BY <1>1, <1>2, <1>6, <1>8
  <2>2. QED
    BY <2>1, <1>1, SyncIs DEF Threads
<1>10. Entries(0, m) = {toClient[1].entry} \cup Entries(0, n)'
  <2>1. \A j \in 1 .. n : /\ j \in 1 .. Len(toClient') /\ toClient'[j] = toClient[j + 1]
                          /\ j + 1 \in 1 .. m
    BY <1>5, <1>6, <1>7, <1>3
  <2>2. \A j \in 1 .. m : j = 1 \/ (j - 1 \in 1 .. n /\ j - 1 + 1 = j)
    BY <1>3, <1>6
  <2>3. \A j \in 1 .. m : j = 1 \/ toClient[j] = toClient'[j - 1]
    BY <2>1, <2>2
  <2>4. 1 \in 1 .. m
    BY <1>3
  <2>5. {toClient[j].entry : j \in 1 .. m} = {toClient[1].entry} \cup {toClient'[j].entry : j \in 1 .. n}
    BY <2>1, <2>2, <2>3, <2>4
  <2>6. 0 + 1 = 1 /\ 0 + n = n /\ 0 + m = m
    BY <1>3, <1>6
  <2>7. QED
    BY <2>5, <2>6 DEF Entries
<1>11. PICK i : i = responder.index
  OBVIOUS
<1>12. Holds(tmp_dir \cup Entries(0, m), i)
  BY <1>1, <1>2, <1>11 DEF Restored, BuildOK
<1>13. Holds(tmp_dir \cup Entries(0, responder.left), responder.index)'
  <2>1. PICK files : files = tmp_dir \cup Entries(0, m)
    OBVIOUS
  <2>2. Holds(files, i)'
    BY <1>1, <1>12, <2>1 DEF Holds, Latest, Past
  <2>3. (tmp_dir \cup Entries(0, responder.left))' = tmp_dir' \cup Entries(0, n)'
    BY <1>9 DEF Entries
  <2>4. tmp_dir' \cup Entries(0, n)' = files
    BY <1>9, <1>10, <2>1
  <2>5. QED
    BY <2>2, <2>3, <2>4, <1>9, <1>11 DEF Holds, Latest, Past
<1>14. FolderOK'
  BY <1>1, FolderKept, SyncIs DEF Restored
<1>15. QED
  BY <1>9, <1>13, <1>14 DEF Restored, BuildOK

\* The folder is removed, and the new one takes its place.
LEMMA RestoredRemove ==
  ASSUME Sync, Restored, action_restore_remove
  PROVE  Restored'
<1>1. /\ UNCHANGED <<log, tmp_dir, toClient>> /\ folder' = Gone
      /\ responder.pc = "entries" /\ responder.left = 0 /\ ResponderGoto("rename")
  BY DEF action_restore_remove, ResponderKeeps
<1>2. responder'.pc = "rename" /\ responder'.index = responder.index /\ responder'.left = responder.left
  BY <1>1, ResponderGoes, SyncIs
<1>3. FolderOK'
  BY <1>1 DEF FolderOK, Gone
<1>4. Holds(tmp_dir \cup Entries(0, responder.left), responder.index)'
  <2>1. PICK i, files : i = responder.index /\ files = tmp_dir \cup Entries(0, responder.left)
    OBVIOUS
  <2>2. Holds(files, i)
    BY <1>1, <2>1 DEF Restored, BuildOK
  <2>3. Holds(files, i)'
    BY <1>1, <2>2 DEF Holds, Latest, Past
  <2>4. (tmp_dir \cup Entries(0, responder.left))' = files
    BY <1>1, <1>2, <2>1 DEF Entries
  <2>5. QED
    BY <2>1, <2>3, <2>4, <1>2 DEF Holds, Latest, Past
<1>5. QED
  BY <1>2, <1>3, <1>4 DEF Restored, BuildOK

LEMMA RestoredRename ==
  ASSUME Sync, Inv', "file_change" \notin Faults, Restored, [Next]_vars, action_restore_rename
  PROVE  Restored'
<1>1. /\ UNCHANGED <<log>> /\ tmp_dir' = {} /\ ResponderIdle("loop") /\ responder.pc = "rename"
      /\ folder' = [index |-> responder.index, content |-> tmp_dir]
  BY DEF action_restore_rename, ResponderKeeps
<1>2. PICK i : i = responder.index
  OBVIOUS
<1>3. Ahead(i) /\ responder.left = 0
  BY <1>1, <1>2, RestoringAhead, SyncIs DEF Restoring, RestoreOK
<1>4. PastFixed(i)
  BY <1>3, AheadStep, SyncIs
<1>5. PICK files : files = tmp_dir
  OBVIOUS
<1>6. Holds(files, i)
  <2>1. \A j \in 1 .. 0 : FALSE
    OBVIOUS
  <2>2. Entries(0, 0) = {}
    BY <2>1 DEF Entries
  <2>3. Holds(tmp_dir \cup Entries(0, 0), i)
    BY <1>1, <1>2, <1>3 DEF Restored, BuildOK
  <2>4. tmp_dir \cup Entries(0, 0) = files
    BY <2>2, <1>5
  <2>5. QED
    BY <2>3, <2>4
<1>7. Ahead(i)' /\ Holds(files, i)'
  BY <1>4, <1>6, HoldsKept DEF PastFixed
<1>8. folder'.index = i /\ folder'.content = files
  BY <1>1, <1>2, <1>5
<1>9. FolderOK'
  BY <1>7, <1>8 DEF FolderOK, Ahead, Holds, Latest, Past
<1>10. responder'.pc = "loop" /\ tmp_dir' \subseteq Leftover
  BY <1>1 DEF ResponderIdle
<1>11. QED
  BY <1>9, <1>10, NotBuilding

\* What a date is answered with is the snapshot of the log up to the restore.
LEMMA NothingLater ==
  ASSUME Types, NEW n \in 0 .. Len(log), \A i \in n + 1 .. Len(log) : ~Stored(i)
  PROVE  Past(n) = Replay(log)
<1>1. PICK l : l = SubSeq(log, 1, n)
  OBVIOUS
<1>2. log \in Seq(Entry) /\ Len(log) \in Nat
  BY LogFields DEF Types
<1>3. l \in Seq(Entry) /\ Len(l) = n /\ \A i \in 1 .. n : l[i] = log[i]
  BY <1>1, <1>2, PrefixOf
<1>4. n <= Len(log)
  BY <1>2
<1>5. Replay(log) = Replay(l)
  BY <1>2, <1>3, <1>4, ReplaySame DEF Stored
<1>6. QED
  BY <1>1, <1>5 DEF Past

LEMMA RestoredAnswer ==
  ASSUME Sync, Inv', Finite, "db_read" \notin Faults, "file_change" \notin Faults, Restored,
         [Next]_vars, action_restore
  PROVE  Restored'
<1>1. UNCHANGED <<responder, folder, tmp_dir>> /\ handler.pc = "date" /\ Busy
  BY DEF action_restore, HandlerKeeps, clientVars, diskVars, Busy
<1>2. PICK e, n, i :
        /\ n \in Nat /\ n = Len(e) /\ e = SetToSeq(backup[handler.action.date])
        /\ e \in Seq(backup[handler.action.date])
        /\ i = handler.index /\ i \in Nat /\ i + 1 \in 1 .. Len(log)
        /\ Indexed(i, handler.action) /\ handler.action.type = "restore"
        /\ WriteToClient(RestoreAnswer(e, i))
        /\ responder.pc \in {"count", "failed"}
  BY RestoreServed
<1>3. FolderOK'
  BY <1>1, FolderKept, SyncIs DEF Restored
<1>4. tmp_dir' \subseteq Leftover
  BY <1>1, <1>2 DEF Restored, BuildOK
<1>5. CASE responder.pc = "failed" \/ toClient' = <<>>
  BY <1>1, <1>2, <1>3, <1>4, <1>5, NotBuilding
<1>6. CASE responder.pc = "count" /\ toClient' # <<>>
  <2>1. responder.index = i /\ toClient = <<>> /\ Restoring
    BY <1>1, <1>2, <1>6, SyncIs DEF RestoreOK, Restoring
  <2>2. PICK w : w = RestoreAnswer(e, i)
    OBVIOUS
  <2>3. /\ IsSeq(w) /\ Len(w) = n + 3 /\ w[1] = Int32(n)
        /\ \A j \in 1 .. n : w[j + 1] = EntryFrame(e[j])
    <3>1. PICK S : S = backup[handler.action.date]
      OBVIOUS
    <3>2. e \in Seq(S)
      BY <1>2, <3>1
    <3>3. n = Len(e)
      BY <1>2
    <3>4. /\ IsSeq(RestoreAnswer(e, i)) /\ n \in Nat /\ Len(RestoreAnswer(e, i)) = n + 3
          /\ RestoreAnswer(e, i)[1] = Int32(n)
          /\ \A j \in 1 .. n : RestoreAnswer(e, i)[j + 1] = EntryFrame(e[j])
          /\ RestoreAnswer(e, i)[n + 2] = Int32(i) /\ RestoreAnswer(e, i)[n + 3] = Int32(completed)
      BY <3>2, <3>3, RestoreAnswerIs
    <3>5. IsSeq(w)
      BY <2>2, <3>4, Zenon
    <3>6. Len(w) = n + 3 /\ w[1] = Int32(n)
      BY <2>2, <3>4
    <3>7. \A j \in 1 .. n : w[j + 1] = EntryFrame(e[j])
      BY <2>2, <3>4
    <3>8. QED
      BY <3>5, <3>6, <3>7
  <2>4. toClient' = w
    <3>1. toClient' = <<>> \o w
      BY <1>2, <1>6, <2>1, <2>2 DEF WriteToClient
    <3>2. PICK S : w \in Seq(S)
      BY <2>3 DEF IsSeq
    <3>3. QED
      BY <3>1, <3>2, ConcatEmptySeq
  <2>5. toClient'[1].n = n
    BY <2>3, <2>4 DEF Int32
  <2>6. ASSUME Latest(responder.index)'
        PROVE  Entries(1, toClient[1].n)' = Past(responder.index)'
    <3>1. PastFixed(i)
      BY <2>1, RestoringAhead, AheadStep, SyncIs
    <3>2. handler.action.date = LastDay
      <4>1. log'[i + 1].action.date = LastDay
        BY <2>1, <2>6, <1>1 DEF Latest
      <4>2. QED
        BY <4>1, <3>1, <1>2 DEF PastFixed, Indexed
    <3>3. PICK D : D = backup[LastDay]
      OBVIOUS
    <3>4. D = Past(i)
      <4>1. \A j \in i + 1 .. Len(log) : ~Stored(j)
        BY <1>1, <1>2, SyncIs DEF Inv, HandlerOK
      <4>2. i \in 0 .. Len(log)
        BY <1>2, SyncIs
      <4>3. Past(i) = Replay(log)
        BY <4>1, <4>2, NothingLater, SyncIs
      <4>4. QED
        BY <4>3, <3>3, SyncIs DEF Inv, BackupFollowsActions
    <3>5. IsFiniteSet(D) /\ e = SetToSeq(D)
      BY <1>2, <3>2, <3>3, SessionAssumption DEF Finite, Day
    <3>6. {e[j] : j \in 1 .. n} = D
      <4>1. {SetToSeq(D)[j] : j \in 1 .. Len(SetToSeq(D))} = D
        BY <3>5, Enumerated
      <4>2. n = Len(e)
        BY <1>2
      <4>3. QED
        BY <4>1, <4>2, <3>5
    <3>7. {toClient'[j].entry : j \in 2 .. 1 + n} = {e[j] : j \in 1 .. n}
      <4>1. \A j \in 1 .. n : j + 1 \in 2 .. 1 + n /\ toClient'[j + 1].entry = e[j]
        <5>1. n \in Nat
          BY <1>2
        <5>2. \A j \in 1 .. n : j + 1 \in 2 .. 1 + n
          BY <5>1
        <5>3. \A j \in 1 .. n : toClient'[j + 1] = EntryFrame(e[j])
          BY <2>3, <2>4
        <5>4. \A j \in 1 .. n : toClient'[j + 1].entry = e[j]
          <6>1. \A x : EntryFrame(x).entry = x
            BY DEF EntryFrame
          <6>2. QED
            BY <5>3, <6>1
        <5>5. QED
          BY <5>2, <5>4
      <4>2. \A j \in 2 .. 1 + n : j - 1 \in 1 .. n /\ j - 1 + 1 = j
        BY <1>2
      <4>3. \A j \in 2 .. 1 + n : toClient'[j].entry = e[j - 1]
        BY <4>1, <4>2
      <4>4. \A j \in 2 .. 1 + n : toClient'[j].entry \in {e[k] : k \in 1 .. n}
        BY <4>2, <4>3
      <4>5. \A k \in 1 .. n : e[k] \in {toClient'[j].entry : j \in 2 .. 1 + n}
        BY <4>1
      <4>6. QED
        BY <4>4, <4>5
    <3>8. Entries(1, toClient[1].n)' = {toClient'[j].entry : j \in 2 .. 1 + n}
      <4>1. 1 + 1 = 2
        OBVIOUS
      <4>2. QED
        BY <4>1, <2>5 DEF Entries
    <3>9. Past(responder.index)' = Past(i)
      BY <3>1, <2>1, <1>1 DEF PastFixed, Past
    <3>10. QED
      BY <3>4, <3>6, <3>7, <3>8, <3>9
  <2>7. responder'.pc = "count"
    BY <1>1, <1>6
  <2>8. QED
    BY <1>3, <1>4, <2>6, <2>7 DEF Restored, BuildOK
<1>7. QED
  BY <1>2, <1>5, <1>6

LEMMA RestoredStart ==
  ASSUME Init
  PROVE  Restored
<1>1. /\ folder = Gone /\ tmp_dir = Leftover
      /\ responder = [pc |-> "loop", index |-> 0, left |-> 0]
  BY DEF Init
<1>2. QED
  BY <1>1 DEF Restored, FolderOK, BuildOK, Gone

LEMMA RestoredStep ==
  ASSUME Sync, Inv', Finite, "db_read" \notin Faults, "file_change" \notin Faults, Restored,
         [Next]_vars
  PROVE  Restored'
<1>1. CASE \E a \in Action : a.type \in Pushed /\ push(a)
  BY <1>1, RestoredKept DEF push, clientVars, netVars, diskVars
<1>2. CASE terminate \/ Disconnect \/ NextDay
  BY <1>2, RestoredKept DEF terminate, Disconnect, NextDay, clientVars, netVars, diskVars
<1>3. CASE ActionsConsumer
  <2>1. UNCHANGED <<folder, tmp_dir, responder, toClient>>
    BY <1>3 DEF ActionsConsumer, pop, ConsumerLoop, send_action_add, send_action_check,
       send_action_header, send_file_size, send_file_content, send_quit, ConsumerThrows,
       ConsumerKeeps, OthersKeep, diskVars
  <2>2. QED
    BY <2>1, RestoredKept
<1>4. CASE ResponseConsumer
  BY <1>4, RestoredReader, RestoredCount, RestoredEntry, RestoredRemove, RestoredRename DEF ResponseConsumer
<1>5. CASE ClientHandler
  <2>1. UNCHANGED <<folder, tmp_dir, responder>>
    BY <1>5 DEF ClientHandler, read_action, read_file_size, read_file_content, addAction, execute,
       action_restore, HandlerThrows, HandlerKeeps, clientVars, diskVars
  <2>2. CASE read_action
    <3>1. ReadFrame /\ handler.pc = "read"
      BY <2>2 DEF read_action
    <3>2. 1 \in Frames /\ Input = toServer[1] /\ Input.kind = "action"
      BY <3>1, FirstFrame DEF Expects
    <3>3. ~Restoring
      <4>1. Restoring => ~Header(1)
        BY <3>2, SyncIs DEF RestoreOK
      <4>2. Restoring => ~QuitFrame(1)
        BY <3>2, RestoreIsLast, SyncIs DEF RestoreOK
      <4>3. QED
        BY <3>2, <4>1, <4>2 DEF Header, QuitFrame
    <3>4. QED
      BY <2>1, <3>3, RestoredKept
  <2>3. CASE execute
    <3>1. handler.pc = "execute" /\ Busy
      BY <2>3 DEF execute, Busy
    <3>2. ~Restoring
      <4>1. PICK i : i = handler.index
        OBVIOUS
      <4>2. handler.action.type # "restore" /\ Indexed(i, handler.action)
        BY <3>1, <4>1, SyncIs DEF ListOK, Inv, HandlerOK
      <4>3. Restoring => Restores(i)
        BY <3>1, <4>1, SyncIs DEF RestoreOK
      <4>4. QED
        BY <4>2, <4>3, RestoreIsLast, SyncIs DEF Indexed
    <3>3. QED
      BY <2>1, <3>2, RestoredKept
  <2>4. CASE action_restore
    BY <2>4, RestoredAnswer
  <2>5. CASE read_file_size \/ read_file_content \/ addAction \/ HandlerThrows
    <3>1. toClient' = toClient
      BY <2>5 DEF read_file_size, read_file_content, addAction, HandlerThrows
    <3>2. QED
      BY <2>1, <3>1, RestoredKept
  <2>6. QED
    BY <1>5, <2>2, <2>3, <2>4, <2>5 DEF ClientHandler
<1>6. CASE UNCHANGED vars
  BY <1>6, RestoredKept DEF vars, clientVars, netVars, diskVars
<1>7. QED
  BY <1>1, <1>2, <1>3, <1>4, <1>5, <1>6 DEF Next

\* A restore of the latest date (action_restore, getRestoreEntries of
\* ClientHandler.cpp, and action_restore of Client.cpp) leaves in its folder the
\* files of the backup as they were when the server reached it: all that the
\* actions before it stored and nothing of those after it, whatever was lost or
\* failed on the way, and nothing else but what was in the temporary folder
\* before.
THEOREM RestoreIsFaithful ==
  ASSUME QuietRestore, "file_change" \notin Faults, "db_read" \notin Faults
  PROVE  Spec => []RestoreFaithful
<1>1. Init => Sync /\ Finite /\ Restored
  BY SyncStart, FiniteStart, RestoredStart
<1>2. Sync /\ Finite /\ Restored /\ [Next]_vars => (Sync /\ Finite /\ Restored)'
  <2> SUFFICES ASSUME Sync, Finite, Restored, [Next]_vars PROVE Sync' /\ Finite' /\ Restored'
    OBVIOUS
  <2>1. Finite'
    BY FiniteStep
  <2>2. Sync'
    <3>1. CASE Next
      BY <3>1, SyncStep
    <3>2. CASE UNCHANGED vars
      BY <3>2, SyncStutter
    <3>3. QED
      BY <3>1, <3>2
  <2>3. Restored'
    BY <2>2, RestoredStep, SyncIs DEF Sync
  <2>4. QED
    BY <2>1, <2>2, <2>3
<1>3. Restored => RestoreFaithful
  BY DEF Restored, FolderOK, Holds, Latest, Past, RestoreFaithful
<1>4. QED
  BY <1>1, <1>2, <1>3, PTL DEF Spec

-----------------------------------------------------------------------------
\* What is left at the end of a session.

\* An action that nothing has become of is on its way to the server, or at one
\* end of it.
OnItsWay(i) ==
  \/ \E k \in Frames : Header(k) /\ Idx(k) = i
  \/ Busy /\ handler.index = i
  \/ Listed /\ consumer.index = i
WayOK ==
  link = "up" => \A i \in 0 .. Len(log) - 1 : Fate(i) = "none" => OnItsWay(i)

\* An action on the list that something has become of is due an answer, and the
\* answer is on its way to the client.  The answer to the quit is the last.
Due(i) == i \in DOMAIN responseMap /\ responseMap[i].st # "error" /\ Fate(i) # "none"
Told(i) == \E k \in Pairs : About(k) = i /\ Says(k) \in {completed, error}
Finished == \E k \in Pairs : Says(k) = finish
Over ==
  /\ actions = <<>> /\ isTerminated /\ consumer.pc = "done"
  /\ \A i \in 0 .. Len(log) - 1 : Fate(i) # "none"
DueOK ==
  /\ Reading =>
       /\ link = "up" \/ Finished => \A i \in DOMAIN responseMap : Due(i) => Told(i)
       /\ Finished => Over
       /\ \A k \in Pairs : Says(k) = finish => 2 * k = Len(toClient) /\ handler.pc = "closed"
  /\ Restoring /\ link = "up" => \A i \in DOMAIN responseMap : Due(i) => i = responder.index
  /\ responder.pc = "done" => Over /\ \A i \in DOMAIN responseMap : ~Due(i)
Answered == has_exception_occurred \/ (WayOK /\ DueOK)

\* Once it is over, only the response consumer still has something to do.
LEMMA OverIdle ==
  ASSUME Sync, Over
  PROVE  ~Busy /\ ~Listed /\ ~Sending
<1>1. Busy => Fate(handler.index) = "none" /\ handler.index \in 0 .. Len(log) - 1
  BY SyncIs DEF ListOK, Open, Inv, HandlerOK, Indexed
<1>2. QED
  BY <1>1 DEF Over, Listed, Sending

LEMMA OverKept ==
  ASSUME Sync, Over, [Next]_vars
  PROVE  Over'
<1>1. ~Busy /\ actions = <<>> /\ isTerminated /\ consumer.pc = "done"
  BY OverIdle DEF Over
<1>2. ~ActionsConsumer
  BY <1>1 DEF ActionsConsumer, pop, ConsumerLoop, send_action_add, send_action_check,
     send_action_header, send_file_size, send_file_content, send_quit, ConsumerThrows
<1>3. UNCHANGED <<actions, isTerminated, consumer, log>>
  <2>1. CASE \E a \in Action : a.type \in Pushed /\ push(a)
    BY <2>1, <1>1 DEF push
  <2>2. CASE terminate \/ Disconnect \/ NextDay
    BY <2>2, <1>1 DEF terminate, Disconnect, NextDay, clientVars, bufferVars
  <2>3. CASE ResponseConsumer
    BY <2>3 DEF ResponseConsumer, ResponderLoop, ReadResponse, action_restore_date, action_restore_count,
       action_restore_entry, action_restore_remove, action_restore_rename, ResponderThrows, ResponderKeeps,
       bufferVars
  <2>4. CASE ClientHandler
    <3>1. UNCHANGED <<actions, isTerminated, consumer>>
      BY <2>4 DEF ClientHandler, read_action, read_file_size, read_file_content, addAction, execute,
         action_restore, HandlerThrows, HandlerKeeps, clientVars, bufferVars
    <3>2. ~execute /\ ~action_restore
      BY <1>1 DEF execute, action_restore, Busy
    <3>3. log' = log
      BY <2>4, <3>2 DEF ClientHandler, read_action, read_file_size, read_file_content, addAction,
         HandlerThrows
    <3>4. QED
      BY <3>1, <3>3
  <2>5. CASE UNCHANGED vars
    BY <2>5 DEF vars, clientVars, bufferVars
  <2>6. QED
    BY <1>2, <2>1, <2>2, <2>3, <2>4, <2>5 DEF Next
<1>4. QED
  BY <1>3 DEF Over, Fate

\* An action stays on its way.
LEMMA WayKept ==
  ASSUME WayOK, link' = "up" => link = "up",
         \A i \in 0 .. Len(log') - 1 : Fate(i)' = "none" =>
           \/ OnItsWay(i)'
           \/ /\ i \in 0 .. Len(log) - 1 /\ Fate(i) = "none"
              /\ OnItsWay(i) => OnItsWay(i)'
  PROVE  WayOK'
BY DEF WayOK

LEMMA WaySame ==
  ASSUME WayOK, link' = "up" => link = "up", UNCHANGED <<log, consumer, handler>>,
         toServer' = toServer \/ \E f : WriteToServer(<<f>>), Types
  PROVE  WayOK'
<1>1. \A k \in Frames : k \in Frames' /\ toServer'[k] = toServer[k]
  <2>1. Len(toServer) \in Nat
    BY SeqLen DEF Types
  <2>2. CASE toServer' = toServer
    BY <2>2 DEF Frames
  <2>3. CASE \E f : WriteToServer(<<f>>)
    <3>1. \/ toServer' = toServer
          \/ /\ Len(toServer') = Len(toServer) + 1
             /\ \A i \in 1 .. Len(toServer) : toServer'[i] = toServer[i]
      BY <2>3, Written DEF Types
    <3>2. QED
      BY <2>1, <3>1 DEF Frames
  <2>4. QED
    BY <2>2, <2>3
<1>2. \A i : OnItsWay(i) => OnItsWay(i)'
  BY <1>1 DEF OnItsWay, Header, Idx, Busy, Listed
<1>3. \A i : Fate(i)' = Fate(i)
  BY DEF Fate
<1>4. QED
  BY <1>2, <1>3, WayKept

LEMMA WayConsumer ==
  ASSUME Sync, WayOK, ActionsConsumer, ~has_exception_occurred', "file_change" \notin Faults
  PROVE  WayOK'
<1>1. /\ handler' = handler /\ link' = link /\ (Busy' <=> Busy) /\ ~ConsumerThrows
      /\ ~has_exception_occurred
  BY DEF ActionsConsumer, pop, ConsumerLoop, send_action_add, send_action_check, send_action_header,
     send_file_size, send_file_content, send_quit, ConsumerThrows, ConsumerKeeps, OthersKeep, Busy
<1>2. log \in Seq(Entry) /\ Len(log) \in Nat /\ Len(log') \in Nat /\ Types
  BY SyncIs, LogFields DEF Types, Sync, Inv
<1>3. CASE send_action_add
  <2>1. /\ toServer' = toServer /\ consumer.pc = "add"
        /\ consumer' = [consumer EXCEPT !.pc = "check", !.index = current_index]
        /\ log' = Append(log, [action |-> consumer.action, hash |-> None, outcome |-> "none"])
    BY <1>3 DEF send_action_add
  <2>2. PICK e : e = [action |-> consumer.action, hash |-> None, outcome |-> "none"]
    OBVIOUS
  <2>3. e \in Entry
    BY <2>1, <2>2, SyncIs DEF Inv, ConsumerOK, Entry, Outcome
  <2>4. Len(log') = Len(log) + 1 /\ \A i \in 1 .. Len(log) : log'[i] = log[i]
    BY <2>1, <2>2, <2>3, <1>2, LogAppended
  <2>5. consumer'.index = Len(log) /\ consumer'.pc = "check" /\ ~Listed
    BY <2>1, SyncIs DEF Types, Listed
  <2>6. ASSUME NEW i \in 0 .. Len(log') - 1, Fate(i)' = "none"
        PROVE  \/ OnItsWay(i)'
               \/ i \in 0 .. Len(log) - 1 /\ Fate(i) = "none" /\ (OnItsWay(i) => OnItsWay(i)')
    <3>1. CASE i = Len(log)
      BY <3>1, <2>5 DEF OnItsWay, Listed
    <3>2. CASE i # Len(log)
      <4>1. i \in 0 .. Len(log) - 1 /\ Fate(i) = "none"
        BY <3>2, <2>4, <2>6, <1>2 DEF Fate
      <4>2. OnItsWay(i) => OnItsWay(i)'
        BY <1>1, <2>1, <2>5 DEF OnItsWay, Header, Idx, Frames
      <4>3. QED
        BY <4>1, <4>2
    <3>3. QED
      BY <3>1, <3>2
  <2>7. QED
    BY <2>6, <1>1, WayKept
<1>4. CASE send_action_check
  <2>1. PICK c : c = consumer.index
    OBVIOUS
  <2>2. c \in Nat /\ c + 1 \in 1 .. Len(log) /\ consumer.pc = "check" /\ toServer' = toServer
    BY <1>2, <1>4, <2>1, SyncIs DEF send_action_check, Listed, Inv, ConsumerOK, Indexed
  <2>3. CASE log' = log /\ ConsumerGoto("header")
    <3>1. Listed' /\ consumer'.index = consumer.index
      BY <2>3, ConsumerGoes, <1>2 DEF ConsumerPcs, Listed
    <3>2. \A i : OnItsWay(i) => OnItsWay(i)'
      BY <3>1, <1>1, <2>2 DEF OnItsWay, Header, Idx, Frames
    <3>3. QED
      BY <2>3, <3>2, <1>1, WayKept DEF Fate
  <2>4. CASE \E o \in {"ignored", "refused"} : log' = [log EXCEPT ![c + 1].outcome = o]
    <3>1. PICK n : n = c + 1
      OBVIOUS
    <3>2. PICK o \in {"ignored", "refused"} : log' = [log EXCEPT ![n].outcome = o]
      BY <2>4, <3>1
    <3>3. o \in Outcome /\ n \in 1 .. Len(log)
      BY <2>2, <3>1 DEF Outcome
    <3>4. /\ Len(log') = Len(log)
          /\ \A i \in 1 .. Len(log) : log'[i].outcome = IF i = n THEN o ELSE log[i].outcome
      BY <3>2, <3>3, <1>2, LogOutcome
    <3>5. ASSUME NEW i \in 0 .. Len(log') - 1, Fate(i)' = "none"
          PROVE  i \in 0 .. Len(log) - 1 /\ Fate(i) = "none" /\ (OnItsWay(i) => OnItsWay(i)')
      <4>1. i \in 0 .. Len(log) - 1 /\ i + 1 # n /\ Fate(i) = "none"
        BY <3>2, <3>4, <3>5, <1>2 DEF Fate
      <4>2. i # consumer.index
        BY <4>1, <3>1, <2>1
      <4>3. OnItsWay(i) => OnItsWay(i)'
        BY <4>2, <1>1, <2>2 DEF OnItsWay, Header, Idx, Frames
      <4>4. QED
        BY <4>1, <4>3
    <3>6. QED
      BY <3>5, <1>1, WayKept
  <2>5. QED
    BY <1>4, <2>1, <2>3, <2>4 DEF send_action_check
<1>5. CASE pop \/ ConsumerLoop
  <2>1. log' = log /\ toServer' = toServer /\ ~Listed
    BY <1>5 DEF pop, ConsumerLoop, Listed
  <2>2. \A i : OnItsWay(i) => OnItsWay(i)'
    BY <2>1, <1>1 DEF OnItsWay, Header, Idx, Frames
  <2>3. QED
    BY <2>1, <2>2, <1>1, WayKept DEF Fate
<1>6. CASE send_action_header \/ send_file_size \/ send_file_content \/ send_quit
  <2>1. \A i : Fate(i)' = "none" /\ i \in 0 .. Len(log') - 1 => i \in 0 .. Len(log) - 1 /\ Fate(i) = "none"
    <3>1. CASE send_file_content
      <4>1. PICK j, h : j = consumer.index + 1 /\ log' = [log EXCEPT ![j].hash = h] /\ h \in Hash
        BY <3>1 DEF send_file_content
      <4>2. j \in 1 .. Len(log)
        BY <1>2, <3>1, <4>1, SyncIs DEF send_file_content, Sending, Inv, ConsumerOK, Indexed
      <4>3. Len(log') = Len(log) /\ \A i \in 1 .. Len(log) : log'[i].outcome = log[i].outcome
        BY <4>1, <4>2, <1>2, LogHash
      <4>4. QED
        BY <4>3, <1>2 DEF Fate
    <3>2. CASE send_action_header \/ send_file_size \/ send_quit
      BY <3>2 DEF send_action_header, send_file_size, send_quit, Fate
    <3>3. QED
      BY <1>6, <3>1, <3>2
  <2>2. PICK f : /\ WriteToServer(<<f>>)
                 /\ Listed => f.kind = "action" /\ f.action # Quit /\ f.index = consumer.index
    <3>1. CASE send_action_header
      <4>1. PICK f : f = [kind |-> "action", index |-> consumer.index, action |-> consumer.action]
        OBVIOUS
      <4>2. WriteToServer(<<f>>) /\ f.kind = "action" /\ f.index = consumer.index /\ f.action = consumer.action
        BY <3>1, <4>1 DEF send_action_header
      <4>3. f.action # Quit
        <5>1. consumer.action \in Action
          BY <3>1, SyncIs DEF send_action_header, Listed, Inv, ConsumerOK, Indexed
        <5>2. QED
          BY <4>2, <5>1 DEF Action, FileAction, Quit
      <4>4. QED
        BY <4>2, <4>3
    <3>2. CASE send_file_size \/ send_file_content \/ send_quit
      <4>1. ~Listed
        BY <3>2 DEF send_file_size, send_file_content, send_quit, Listed
      <4>2. \E f : WriteToServer(<<f>>)
        <5>1. CASE send_file_content
          <6>1. PICK h \in Hash : WriteToServer(<<ContentFrame(h)>>)
            BY <5>1 DEF send_file_content
          <6>2. PICK f : f = ContentFrame(h)
            OBVIOUS
          <6>3. QED
            BY <6>1, <6>2
        <5>2. CASE send_file_size
          <6>1. PICK f : f = [kind |-> "size"]
            OBVIOUS
          <6>2. QED
            BY <5>2, <6>1 DEF send_file_size
        <5>3. CASE send_quit
          <6>1. PICK f : f = [kind |-> "action", index |-> 0, action |-> Quit]
            OBVIOUS
          <6>2. QED
            BY <5>3, <6>1 DEF send_quit
        <5>4. QED
          BY <3>2, <5>1, <5>2, <5>3
      <4>3. QED
        BY <4>1, <4>2
    <3>3. QED
      BY <1>6, <3>1, <3>2
  <2>3. CASE link # "up"
    BY <2>3, <1>1 DEF WayOK
  <2>4. CASE link = "up"
    <3>1. /\ Len(toServer') = Len(toServer) + 1 /\ Len(toServer) \in Nat
          /\ \A k \in Frames : k \in Frames' /\ toServer'[k] = toServer[k]
          /\ toServer'[Len(toServer) + 1] = f
      <4>1. Len(toServer) \in Nat
        BY SyncIs
      <4>2. /\ Len(toServer') = Len(toServer) + 1
            /\ \A i \in 1 .. Len(toServer) : toServer'[i] = toServer[i]
            /\ toServer'[Len(toServer) + 1] = f
        BY <2>2, <2>4, <1>2, Written DEF Types
      <4>3. QED
        BY <4>1, <4>2 DEF Frames
    <3>2. PICK n \in Frames' : toServer'[n] = f
      BY <3>1 DEF Frames
    <3>3. ASSUME NEW i, OnItsWay(i) PROVE OnItsWay(i)'
      <4>1. CASE \E k \in Frames : Header(k) /\ Idx(k) = i
        BY <4>1, <3>1 DEF OnItsWay, Header, Idx
      <4>2. CASE Busy /\ handler.index = i
        BY <4>2, <1>1 DEF OnItsWay
      <4>3. CASE Listed /\ consumer.index = i
        BY <4>3, <2>2, <3>2 DEF OnItsWay, Header, Idx
      <4>4. QED
        BY <3>3, <4>1, <4>2, <4>3 DEF OnItsWay
    <3>4. QED
      BY <2>1, <3>3, <1>1, WayKept
  <2>5. QED
    BY <2>3, <2>4
<1>7. QED
  BY <1>1, <1>3, <1>4, <1>5, <1>6 DEF ActionsConsumer

LEMMA WayShift ==
  ASSUME Shift(1), NEW k \in Frames, k # 1
  PROVE  k - 1 \in Frames' /\ (Header(k - 1)' <=> Header(k)) /\ Idx(k - 1)' = Idx(k)
<1>1. PICK l : l = k - 1
  OBVIOUS
<1>2. l \in Frames' /\ l + 1 = k
  BY <1>1 DEF Shift, Frames
<1>3. (Header(l)' <=> Header(l + 1)) /\ Idx(l)' = Idx(l + 1)
  BY <1>2, Shifted
<1>4. QED
  BY <1>1, <1>2, <1>3

LEMMA WayHandler ==
  ASSUME Sync, Sync', WayOK, ClientHandler, ~(Input.kind = "action" /\ Input.action = Quit) \/ ~read_action
  PROVE  WayOK'
<1>1. UNCHANGED consumer /\ (Listed' <=> Listed)
  BY HandlerKept DEF ClientHandler, read_action, read_file_size, read_file_content, addAction, execute,
     action_restore, HandlerThrows, Listed
<1>2. log \in Seq(Entry) /\ Len(log) \in Nat /\ Types
  BY SyncIs, LogFields DEF Types
<1>3. CASE read_action
  <2>1. /\ ReadFrame /\ handler.pc = "read" /\ log' = log
    BY <1>3 DEF read_action
  <2>2. /\ Shift(1) /\ 1 \in Frames /\ Input = toServer[1] /\ Input.kind = "action"
    BY <2>1, FirstFrame DEF Expects
  <2>3. Header(1) /\ Idx(1) = Input.index
    BY <1>3, <2>2 DEF Header, Idx
  <2>4. link' = link
    BY <1>3, <2>2 DEF read_action
  <2>5. PICK i, a : i = Input.index /\ a = Input.action
    OBVIOUS
  <2>6. PICK pc \in {"size", "date", "addAction"} :
          handler' = [handler EXCEPT !.index = i, !.action = a, !.pc = pc]
    BY <1>3, <2>2, <2>5 DEF read_action
  <2>7. Busy' /\ handler'.index = i
    BY <2>6, <1>2 DEF Types, Busy
  <2>8. ASSUME NEW j, OnItsWay(j) PROVE OnItsWay(j)'
    <3>1. CASE Listed /\ consumer.index = j
      BY <3>1, <1>1 DEF OnItsWay
    <3>2. CASE \E k \in Frames : Header(k) /\ Idx(k) = j
      BY <3>2, <2>2, <2>3, <2>5, <2>7, WayShift DEF OnItsWay
    <3>3. QED
      BY <2>1, <2>8, <3>1, <3>2 DEF OnItsWay, Busy
  <2>9. QED
    BY <2>1, <2>4, <2>8, WayKept DEF Fate
<1>4. CASE read_file_size \/ read_file_content
  <2>1. ReadFrame /\ log' = log /\ link' = link /\ Expects \in {"size", "content"} /\ handler.pc # "closed"
    <3>1. CASE read_file_size
      BY <3>1 DEF read_file_size, Expects
    <3>2. CASE read_file_content
      <4>1. toServer # <<>> /\ handler.pc = "content"
        <5>1. Len(<<>>) = 0
          OBVIOUS
        <5>2. QED
          BY <3>2, <5>1 DEF read_file_content, ReadFrame
      <4>2. 1 \in Frames /\ Input = toServer[1]
        BY <4>1, SeqTail, <1>2 DEF Frames, Input, Types
      <4>3. Input.kind = "content"
        <5>1. 1 - 1 = 0
          OBVIOUS
        <5>2. QED
          BY <5>1, <4>1, <4>2, ExpectedIs, SyncIs DEF ServerOK, Expects
      <4>4. QED
        BY <3>2, <4>1, <4>3 DEF read_file_content, Expects
    <3>3. QED
      BY <1>4, <3>1, <3>2
  <2>2. Shift(1) /\ 1 \in Frames /\ Input = toServer[1] /\ Input.kind = Expects
    BY <2>1, FirstFrame
  <2>3. ~Header(1)
    BY <2>1, <2>2 DEF Header
  <2>4. Busy' /\ handler'.index = handler.index
    <3>1. handler'.pc # "garbled"
      BY SyncIs DEF Sync, ServerOK
    <3>2. CASE read_file_size
      BY <3>1, <3>2, <1>2 DEF read_file_size, Types, Busy
    <3>3. CASE read_file_content
      BY <3>1, <3>3, <1>2 DEF read_file_content, Types, Busy
    <3>4. QED
      BY <1>4, <3>2, <3>3
  <2>5. ASSUME NEW j, OnItsWay(j) PROVE OnItsWay(j)'
    BY <2>5, <1>1, <2>2, <2>3, <2>4, WayShift DEF OnItsWay, Busy
  <2>6. QED
    BY <2>1, <2>5, WayKept DEF Fate
<1>5. CASE addAction
  <2>1. toServer' = toServer /\ log' = log /\ link' = link /\ Busy'
        /\ handler'.index = handler.index
    BY <1>5, <1>2 DEF addAction, Types, Busy
  <2>2. \A j : OnItsWay(j) => OnItsWay(j)'
    BY <2>1, <1>1, <1>5 DEF OnItsWay, Header, Idx, Frames, Busy, addAction
  <2>3. QED
    BY <2>1, <2>2, WayKept DEF Fate
<1>6. CASE execute \/ action_restore
  <2>1. PICK c : c = handler.index
    OBVIOUS
  <2>2. Busy /\ link' = link
    BY <1>6 DEF execute, action_restore, Busy
  <2>3. c \in Nat /\ c + 1 \in 1 .. Len(log)
    BY <1>2, <2>1, <2>2, SyncIs DEF Inv, HandlerOK, Indexed
  <2>4. /\ handler'.pc # "garbled"
        /\ action_restore => Input.kind \in {"date", "action"}
    <3>1. handler'.pc # "garbled"
      BY SyncIs DEF Sync, ServerOK
    <3>2. action_restore /\ Input.kind \notin {"date", "action"} => handler'.pc = "garbled"
      BY <1>2 DEF action_restore, Types
    <3>3. QED
      BY <3>1, <3>2
  <2>5. PICK o \in {"stored", "refused", "served"} : log' = [log EXCEPT ![c + 1].outcome = o]
    BY <1>6, <2>1, <2>4 DEF execute, action_restore
  <2>6. /\ Len(log') = Len(log)
        /\ \A i \in 1 .. Len(log) : log'[i].outcome = IF i = c + 1 THEN o ELSE log[i].outcome
    <3>1. PICK n : n = c + 1
      OBVIOUS
    <3>2. o \in Outcome /\ n \in 1 .. Len(log) /\ log' = [log EXCEPT ![n].outcome = o]
      BY <2>3, <2>5, <3>1 DEF Outcome
    <3>3. QED
      BY <3>1, <3>2, <1>2, LogOutcome
  <2>7. ASSUME NEW k \in Frames, Header(k)
        PROVE  \E l \in Frames' : Header(l)' /\ Idx(l)' = Idx(k)
    <3>1. CASE execute
      BY <3>1, <2>7 DEF execute, Frames, Header, Idx
    <3>2. CASE action_restore
      <4>1. handler.pc = "date" /\ ReadFrame
        BY <3>2 DEF action_restore
      <4>2. Shift(1) /\ Input = toServer[1] /\ Input.kind = "date"
        BY <4>1, FirstFrame DEF Expects
      <4>3. k # 1
        BY <4>2, <2>7 DEF Header
      <4>4. QED
        BY <4>2, <4>3, <2>7, WayShift
    <3>3. QED
      BY <1>6, <3>1, <3>2
  <2>8. ASSUME NEW i \in 0 .. Len(log') - 1, Fate(i)' = "none"
        PROVE  i \in 0 .. Len(log) - 1 /\ Fate(i) = "none" /\ (OnItsWay(i) => OnItsWay(i)')
    <3>1. i \in 0 .. Len(log) - 1 /\ i # c /\ Fate(i) = "none"
      BY <2>3, <2>6, <2>8, <1>2 DEF Fate
    <3>2. OnItsWay(i) => OnItsWay(i)'
      BY <3>1, <2>1, <2>7, <1>1 DEF OnItsWay
    <3>3. QED
      BY <3>1, <3>2
  <2>9. QED
    BY <2>2, <2>8, WayKept
<1>7. CASE HandlerThrows
  BY <1>7 DEF HandlerThrows, WayOK
<1>8. QED
  BY <1>3, <1>4, <1>5, <1>6, <1>7 DEF ClientHandler

\* Nothing is said, and nothing becomes due but the restore that is under way.
LEMMA DueKept ==
  ASSUME Sync, DueOK, [Next]_vars, link' = "up" => link = "up",
         toClient' = toClient \/ ~Reading', Reading' => Reading,
         Restoring' => Restoring /\ responder'.index = responder.index,
         responder'.pc = "done" => responder.pc = "done",
         handler.pc = "closed" => handler'.pc = "closed",
         \A i \in DOMAIN responseMap' : Due(i)' => Due(i) \/ (Restoring' /\ i = responder'.index)
  PROVE  DueOK'
<1>1. Over => Over'
  BY OverKept
<1>2. ASSUME Reading'
      PROVE  /\ link' = "up" \/ Finished' => \A i \in DOMAIN responseMap' : Due(i)' => Told(i)'
             /\ Finished' => Over'
             /\ \A k \in Pairs' : Says(k)' = finish => 2 * k = Len(toClient') /\ handler'.pc = "closed"
  <2>1. /\ Reading /\ toClient' = toClient /\ ~Restoring' /\ Pairs' = Pairs
        /\ \A k : About(k)' = About(k) /\ Says(k)' = Says(k)
    BY <1>2 DEF Reading, Restoring, Pairs, About, Says
  <2>2. (Finished' <=> Finished) /\ \A i : Told(i)' <=> Told(i)
    BY <2>1 DEF Finished, Told
  <2>3. /\ link = "up" \/ Finished => \A i \in DOMAIN responseMap : Due(i) => Told(i)
        /\ Finished => Over
        /\ \A k \in Pairs : Says(k) = finish => 2 * k = Len(toClient) /\ handler.pc = "closed"
    BY <2>1 DEF DueOK
  <2>4. \A i \in DOMAIN responseMap' : Due(i)' => i \in DOMAIN responseMap /\ Due(i)
    BY <2>1 DEF Due
  <2>5. QED
    BY <1>1, <2>1, <2>2, <2>3, <2>4
<1>3. ASSUME Restoring', link' = "up", NEW i \in DOMAIN responseMap', Due(i)'
      PROVE  i = responder'.index
  BY <1>3 DEF DueOK, Due
<1>4. ASSUME responder'.pc = "done"
      PROVE  Over' /\ \A i \in DOMAIN responseMap' : ~Due(i)'
  <2>1. ~Restoring'
    BY <1>4 DEF Restoring
  <2>2. QED
    BY <1>1, <1>4, <2>1 DEF DueOK, Due
<1>5. QED
  BY <1>2, <1>3, <1>4 DEF DueOK

\* What the handler says is added to what it has said.
LEMMA PairAdded ==
  ASSUME Sync, Reading, NEW i, NEW s, WriteToClient(Response(i, s)), link = "up"
  PROVE  /\ \A k \in Pairs : k \in Pairs' /\ Old(k)
         /\ \E k \in Pairs' : About(k)' = i /\ Says(k)' = s
<1> DEFINE t == Response(i, s)
<1>1. IsSeq(t) /\ Len(t) = 2 /\ t[1] = Int32(i) /\ t[2] = Int32(s)
  BY ResponseIs
<1>2. toClient' = toClient \o t
  BY DEF WriteToClient
<1> HIDE DEF t
<1>3. IsSeq(toClient)
  BY SyncIs DEF Threads
<1>4. PICK m \in Nat : m = Len(toClient)
  BY SyncIs
<1>5. Len(toClient \o t) = Len(toClient) + Len(t)
  BY <1>1, <1>3, SeqConcat
<1>6. \A j \in 1 .. Len(toClient) : (toClient \o t)[j] = toClient[j]
  BY <1>1, <1>3, SeqConcat
<1>7. \A j \in 1 .. Len(t) : (toClient \o t)[Len(toClient) + j] = t[j]
  BY <1>1, <1>3, SeqConcat
<1>8. /\ Len(toClient') = m + 2 /\ \A j \in 1 .. m : toClient'[j] = toClient[j]
      /\ toClient'[m + 1] = Int32(i) /\ toClient'[m + 2] = Int32(s)
  BY <1>1, <1>2, <1>4, <1>5, <1>6, <1>7
<1>9. PICK n \in 0 .. m : m = 2 * n
  BY <1>4, SyncIs DEF AnswersOK
<1>10. ASSUME NEW k \in Pairs PROVE k \in Pairs' /\ Old(k)
  <2>1. k \in Nat /\ 2 * k - 1 \in 1 .. m /\ 2 * k \in 1 .. m /\ k \in Pairs'
    BY <1>4, <1>8 DEF Pairs
  <2>2. toClient'[2 * k - 1] = toClient[2 * k - 1] /\ toClient'[2 * k] = toClient[2 * k]
    BY <2>1, <1>8
  <2>3. QED
    BY <2>1, <2>2 DEF Old, About, Says
<1>11. PICK k : k = n + 1
  OBVIOUS
<1>12. k \in Pairs' /\ 2 * k = m + 2 /\ 2 * k - 1 = m + 1
  BY <1>8, <1>9, <1>11 DEF Pairs
<1>13. About(k)' = i /\ Says(k)' = s
  BY <1>8, <1>12 DEF About, Says, Int32
<1>14. QED
  BY <1>10, <1>12, <1>13

\* The handler answers: what becomes due is told.
LEMMA DueSays ==
  ASSUME Sync, DueOK, [Next]_vars, handler.pc # "closed",
         NEW i, NEW s, WriteToClient(Response(i, s)), responder' = responder,
         link' = "up" => link = "up",
         \A j \in DOMAIN responseMap' : Due(j)' => Due(j) \/ (Busy /\ j = i /\ s \in {completed, error}),
         Busy => i = handler.index,
         s = finish /\ link = "up" => Over' /\ handler'.pc = "closed"
  PROVE  DueOK'
<1>1. /\ Over => Over' /\ ~Busy
      /\ (Reading' <=> Reading) /\ (Restoring' <=> Restoring)
  BY OverKept, OverIdle DEF Reading, Restoring
<1>2. ASSUME Reading'
      PROVE  /\ link' = "up" \/ Finished' => \A j \in DOMAIN responseMap' : Due(j)' => Told(j)'
             /\ Finished' => Over'
             /\ \A k \in Pairs' : Says(k)' = finish => 2 * k = Len(toClient') /\ handler'.pc = "closed"
  <2>1. Reading /\ ~Finished /\ (link = "up" => \A j \in DOMAIN responseMap : Due(j) => Told(j))
    BY <1>1, <1>2 DEF DueOK, Finished
  <2>2. CASE link = "up"
    <3>1. /\ \A k \in Pairs : k \in Pairs' /\ Old(k)
          /\ \E k \in Pairs' : About(k)' = i /\ Says(k)' = s
      BY <2>1, <2>2, PairAdded
    <3>2. \A k \in Pairs' : Old(k) \/ (2 * k = Len(toClient') /\ About(k)' = i /\ Says(k)' = s)
      BY <2>1, ResponseAdded
    <3>3. \A k \in Pairs' : Says(k)' = finish => s = finish /\ 2 * k = Len(toClient')
      BY <2>1, <3>2 DEF Old, Finished
    <3>4. Finished' => s = finish
      BY <3>3 DEF Finished
    <3>5. ASSUME NEW j \in DOMAIN responseMap', Due(j)' PROVE Told(j)'
      <4>1. CASE Due(j)
        <5>1. Told(j)
          BY <2>1, <2>2, <4>1 DEF Due
        <5>2. QED
          BY <5>1, <3>1 DEF Told, Old
      <4>2. CASE j = i /\ s \in {completed, error}
        BY <3>1, <4>2 DEF Told
      <4>3. QED
        BY <3>5, <4>1, <4>2
    <3>6. QED
      BY <2>2, <3>3, <3>4, <3>5
  <2>3. CASE link # "up"
    <3>1. toClient' = toClient
      BY <2>3 DEF WriteToClient
    <3>2. Pairs' = Pairs /\ \A k : Says(k)' = Says(k)
      BY <3>1 DEF Pairs, Says
    <3>3. ~Finished' /\ link' # "up"
      BY <2>1, <2>3, <3>2 DEF Finished
    <3>4. QED
      BY <3>3 DEF Finished
  <2>4. QED
    BY <2>2, <2>3
<1>3. ASSUME Restoring', link' = "up", NEW j \in DOMAIN responseMap', Due(j)'
      PROVE  j = responder'.index
  <2>1. CASE Due(j)
    BY <2>1, <1>1, <1>3 DEF DueOK, Due
  <2>2. CASE Busy /\ j = i
    BY <2>2, <1>1, <1>3, SyncIs DEF RestoreOK
  <2>3. QED
    BY <1>3, <2>1, <2>2
<1>4. ASSUME responder'.pc = "done"
      PROVE  Over' /\ \A j \in DOMAIN responseMap' : ~Due(j)'
  BY <1>1, <1>4 DEF DueOK, Due
<1>5. QED
  BY <1>2, <1>3, <1>4 DEF DueOK

\* A response is read, and its action is due no more.
LEMMA DueRead ==
  ASSUME Sync, DueOK, ReadResponse, [Next]_vars
  PROVE  DueOK'
<1>1. /\ UNCHANGED <<log, toServer, handler, consumer, actions, isTerminated, link>>
      /\ responder.pc = "read" /\ Len(toClient) >= 2 /\ toClient' = RestInput(2)
  BY DEF ReadResponse, ResponderKeeps, bufferVars
<1>2. PICK i, s : i = toClient[1].n /\ s = toClient[2].n
  OBVIOUS
<1>3. /\ Reading /\ 1 \in Pairs /\ About(1) = i /\ Says(1) = s
      /\ Len(toClient) \in Nat /\ Len(toClient') = Len(toClient) - 2
      /\ \A k \in Pairs' : /\ k \in Nat /\ k + 1 \in Pairs
                           /\ About(k)' = About(k + 1) /\ Says(k)' = Says(k + 1)
  BY <1>1, <1>2, PairTaken, SyncIs DEF Reading, Threads
<1>4. /\ toClient[1].kind = "int" /\ toClient[2].kind = "int"
      /\ s # finish => Answer(i, s)
  <2>1. 1 \in 1 .. Len(toClient) /\ 2 \in 1 .. Len(toClient)
    BY <1>1, <1>3
  <2>2. QED
    BY <2>1, <1>3, SyncIs DEF AnswersOK
<1>5. IF s = received /\ Restores(i)
      THEN responder' = [responder EXCEPT !.pc = "date", !.index = i] /\ UNCHANGED responseVars
      ELSE Dispatch(i, s) /\ ResponderGoto(IF s = finish THEN "done" ELSE "loop")
  BY <1>2, <1>4 DEF ReadResponse, Restores
<1>6. /\ link = "up" \/ Finished => \A j \in DOMAIN responseMap : Due(j) => Told(j)
      /\ Finished => Over
      /\ \A k \in Pairs : Says(k) = finish => 2 * k = Len(toClient) /\ handler.pc = "closed"
  BY <1>3 DEF DueOK
<1>7. ASSUME 2 * 1 = Len(toClient), NEW k \in Pairs
      PROVE  k = 1
  <2>1. Len(toClient) = 2
    BY <1>7
  <2>2. k \in 1 .. 2 /\ 2 * k <= 2
    BY <2>1 DEF Pairs
  <2>3. QED
    BY <2>2
<1>8. CASE s = received /\ Restores(i)
  <2>1. responseMap' = responseMap /\ responder' = [responder EXCEPT !.pc = "date", !.index = i]
    BY <1>5, <1>8 DEF responseVars
  <2>2. responder'.pc = "date"
    BY <2>1, SyncIs DEF Threads
  <2>3. \A k \in Pairs : Says(k) = received
    BY <1>3, <1>7, <1>8, SyncIs DEF AloneOK
  <2>4. \A j : ~Told(j)
    BY <2>3, Statuses DEF Told
  <2>5. link' = "up" => \A j \in DOMAIN responseMap : ~Due(j)
    BY <2>4, <1>1, <1>6
  <2>6. \A j : Due(j)' => Due(j)
    BY <2>1, <1>1 DEF Due, Fate
  <2>7. QED
    BY <2>1, <2>2, <2>5, <2>6 DEF DueOK, Reading
<1>9. CASE s = finish
  <2>1. Dispatch(i, s) /\ ResponderGoto("done")
    BY <1>5, <1>9, Statuses
  <2>2. responseMap' = responseMap /\ responder'.pc = "done"
    BY <2>1, <1>9, Dispatched, ResponderGoes, Statuses, SyncIs DEF ClientPc
  <2>3. Finished /\ \A k \in Pairs : Says(k) = finish
    BY <1>3, <1>6, <1>7, <1>9 DEF Finished
  <2>4. \A j : ~Told(j)
    BY <2>3, Statuses DEF Told
  <2>5. Over' /\ \A j \in DOMAIN responseMap : ~Due(j)
    BY <2>3, <2>4, <1>6, OverKept
  <2>6. \A j : Due(j)' => Due(j)
    BY <2>2, <1>1 DEF Due, Fate
  <2>7. QED
    BY <2>2, <2>5, <2>6 DEF DueOK, Reading, Restoring
<1>10. CASE s # finish /\ ~(s = received /\ Restores(i))
  <2>1. Dispatch(i, s) /\ ResponderGoto("loop")
    BY <1>5, <1>10
  <2>2. responder'.pc = "loop"
    BY <2>1, ResponderGoes, SyncIs DEF ClientPc
  <2>3. i \in DOMAIN responseMap /\ (s = received => responseMap[i].st = "sent") /\ s \in {received, completed, error}
    BY <1>4, <1>10 DEF Answer
  <2>4. ASSUME NEW j \in DOMAIN responseMap', Due(j)'
        PROVE  Due(j) /\ (j = i => s = received)
    <3>1. CASE s = completed
      <4>1. /\ DOMAIN responseMap' = DOMAIN responseMap \ {i}
            /\ \A l \in DOMAIN responseMap : l # i => responseMap'[l] = responseMap[l]
        BY <2>1, <3>1, Dispatched, OffList
      <4>2. QED
        BY <4>1, <2>4, <1>1 DEF Due, Fate
    <3>2. CASE s = received \/ s = error
      <4>1. PICK st : /\ st = IF s = received THEN "received" ELSE "error"
                      /\ responses!SetStatus(i, st)
        BY <2>1, <3>2, Dispatched, Statuses
      <4>2. /\ DOMAIN responseMap' = DOMAIN responseMap
            /\ responseMap'[i] = [action |-> responseMap[i].action, st |-> st]
            /\ \A l \in DOMAIN responseMap : l # i => responseMap'[l] = responseMap[l]
        BY <4>1, <2>3, StatusSet
      <4>3. CASE j # i
        BY <4>2, <4>3, <2>4, <1>1 DEF Due, Fate
      <4>4. CASE j = i
        <5>1. responseMap'[j].st = st
          BY <4>2, <4>4
        <5>2. s = received
          BY <5>1, <4>1, <3>2, <2>4 DEF Due
        <5>3. Due(j)
          BY <5>2, <4>4, <2>3, <2>4, <1>1 DEF Due, Fate
        <5>4. QED
          BY <5>2, <5>3
      <4>5. QED
        BY <4>3, <4>4
    <3>3. QED
      BY <2>3, <3>1, <3>2
  <2>5. \A k \in Pairs' : Says(k)' = finish => Finished /\ 2 * k = Len(toClient') /\ handler'.pc = "closed"
    <3> SUFFICES ASSUME NEW k \in Pairs', Says(k)' = finish
                 PROVE  Finished /\ 2 * k = Len(toClient') /\ handler'.pc = "closed"
      OBVIOUS
    <3>1. PICK l : l = k + 1
      OBVIOUS
    <3>2. l \in Pairs /\ Says(l) = finish
      BY <3>1, <1>3
    <3>3. Finished /\ 2 * l = Len(toClient) /\ handler.pc = "closed"
      BY <3>2, <1>6 DEF Finished
    <3>4. k \in Nat
      BY <1>3
    <3>5. QED
      BY <3>1, <3>3, <3>4, <1>1, <1>3
  <2>6. Finished' => Finished
    BY <2>5 DEF Finished
  <2>7. ASSUME NEW j \in DOMAIN responseMap', Due(j)', link' = "up" \/ Finished'
        PROVE  Told(j)'
    <3>1. Due(j) /\ (j = i => s = received)
      BY <2>4, <2>7
    <3>2. PICK k \in Pairs : About(k) = j /\ Says(k) \in {completed, error}
      BY <3>1, <2>6, <2>7, <1>1, <1>6 DEF Told, Due
    <3>3. k # 1
      BY <3>1, <3>2, <1>3, Statuses
    <3>4. PICK l : l = k - 1
      OBVIOUS
    <3>5. l \in Pairs' /\ l + 1 = k
      BY <3>3, <3>4, <1>3 DEF Pairs
    <3>6. About(l)' = j /\ Says(l)' \in {completed, error}
      BY <3>2, <3>5, <1>3
    <3>7. QED
      BY <3>5, <3>6 DEF Told
  <2>8. Finished' => Over'
    BY <2>6, <1>6, OverKept
  <2>9. QED
    BY <2>2, <2>5, <2>7, <2>8 DEF DueOK, Restoring
<1>11. QED
  BY <1>8, <1>9, <1>10, Statuses

\* A restore ends, and its answer is the next to be read.
LEMMA DueRename ==
  ASSUME Sync, DueOK, action_restore_rename
  PROVE  DueOK'
<1>1. /\ UNCHANGED <<log, toClient, link>>
      /\ responder.pc = "rename" /\ Dispatch(responder.index, received)
      /\ responder' = [pc |-> "loop", index |-> 0, left |-> 0]
  BY DEF action_restore_rename, ResponderKeeps, bufferVars, ResponderIdle
<1>2. PICK i : i = responder.index
  OBVIOUS
<1>3. Restoring /\ i \in DOMAIN responseMap /\ Block(0, 0) /\ responseMap[i].st = "sent"
  <2>1. Restoring
    BY <1>1 DEF Restoring
  <2>2. Restores(i) /\ Block(0, 0) /\ responseMap[i].st = "sent"
    BY <2>1, <1>1, <1>2, SyncIs DEF RestoreOK
  <2>3. QED
    BY <2>1, <2>2, RestoreIsLast, SyncIs
<1>4. /\ Len(toClient) = 2 /\ toClient[1] = Int32(i) /\ toClient[2] = Int32(completed)
  BY <1>2, <1>3 DEF Block
<1>5. Pairs' = {1} /\ About(1)' = i /\ Says(1)' = completed
  <2>1. Pairs' = {1}
    BY <1>1, <1>4 DEF Pairs
  <2>2. QED
    BY <2>1, <1>1, <1>4 DEF About, Says, Int32
<1>6. responses!SetStatus(i, "received")
  BY <1>1, <1>2, Dispatched
<1>7. /\ DOMAIN responseMap' = DOMAIN responseMap
      /\ responseMap'[i] = [action |-> responseMap[i].action, st |-> "received"]
      /\ \A j \in DOMAIN responseMap : j # i => responseMap'[j] = responseMap[j]
  BY <1>3, <1>6, StatusSet
<1>8. link = "up" => \A j \in DOMAIN responseMap : Due(j) => j = i
  BY <1>2, <1>3 DEF DueOK
<1>9. ASSUME link' = "up", NEW j \in DOMAIN responseMap', Due(j)' PROVE j = i
  <2>1. j # i => Due(j)
    BY <1>1, <1>7, <1>9 DEF Due, Fate
  <2>2. QED
    BY <2>1, <1>1, <1>7, <1>8, <1>9
<1>10. \A j : j = i => Told(j)'
  BY <1>5 DEF Told
<1>11. ~Finished' /\ \A k \in Pairs' : Says(k)' # finish
  BY <1>5, Statuses DEF Finished
<1>12. responder'.pc = "loop"
  BY <1>1
<1>13. QED
  BY <1>9, <1>10, <1>11, <1>12 DEF DueOK, Restoring

\* A quit is read behind everything else, so nothing is left to do.
LEMMA QuitIsTheEnd ==
  ASSUME Sync, WayOK, ReadFrame, handler.pc = "read", Input.kind = "action", Input.action = Quit,
         link = "up"
  PROVE  Over
<1>1. 1 \in Frames /\ Input = toServer[1] /\ QuitFrame(1) /\ ~Header(1)
  BY FirstFrame DEF QuitFrame, Header
<1>2. consumer.pc = "done" /\ isTerminated /\ actions = <<>>
  BY <1>1, SyncIs DEF QuietOK
<1>3. \A k \in Frames : k = 1
  <2>1. 2 - 1 = 1 /\ Expected(1) = "nothing"
    BY <1>1, ExpectedIs, Following, SyncIs
  <2>2. 2 \notin Frames
    BY <2>1, SyncIs DEF ServerOK
  <2>3. QED
    BY <2>2, SyncIs DEF Frames
<1>4. \A i : ~OnItsWay(i)
  BY <1>1, <1>2, <1>3 DEF OnItsWay, Busy, Listed
<1>5. QED
  BY <1>2, <1>4 DEF Over, WayOK

LEMMA DueHandler ==
  ASSUME Sync, WayOK, DueOK, ClientHandler, [Next]_vars
  PROVE  DueOK'
<1>1. UNCHANGED <<responseMap, responder>>
  BY DEF ClientHandler, read_action, read_file_size, read_file_content, addAction, execute,
     action_restore, HandlerThrows, HandlerKeeps, clientVars, responseVars
<1>2. (Reading' <=> Reading) /\ (Restoring' <=> Restoring)
  BY <1>1 DEF Reading, Restoring
<1>3. CASE read_action
  <2>1. log' = log /\ ReadFrame /\ handler.pc = "read"
    BY <1>3 DEF read_action
  <2>2. Input.kind = "action"
    BY <2>1, FirstFrame DEF Expects
  <2>3. \A j : Due(j)' => Due(j)
    BY <2>1, <1>1 DEF Due, Fate
  <2>4. CASE Input.action # Quit
    <3>1. WriteToClient(Response(Input.index, received)) /\ link' = link
      BY <2>2, <2>4, <1>3 DEF read_action
    <3>2. ~Busy /\ handler.pc # "closed" /\ received # finish
      BY <2>1, Statuses DEF Busy
    <3>3. QED
      BY <3>1, <3>2, <2>3, <1>1, DueSays
  <2>5. CASE Input.action = Quit
    <3>1. /\ WriteToClient(Response(0, finish)) /\ link' = IF link = "up" THEN "closed" ELSE link
          /\ handler' = [handler EXCEPT !.pc = "closed"]
      BY <2>2, <2>5, <1>3 DEF read_action
    <3>2. ~Busy /\ handler.pc # "closed" /\ handler'.pc = "closed" /\ (link' = "up" => link = "up")
      BY <2>1, <3>1, SyncIs DEF Busy, Types
    <3>3. link = "up" => Over'
      BY <2>1, <2>2, <2>5, QuitIsTheEnd, OverKept
    <3>4. QED
      BY <3>1, <3>2, <3>3, <2>3, <1>1, DueSays
  <2>6. QED
    BY <2>4, <2>5
<1>4. CASE execute
  <2>1. PICK i : i = handler.index
    OBVIOUS
  <2>2. PICK s, o : /\ s \in {completed, error} /\ o \in {"stored", "refused"}
                    /\ WriteToClient(Response(i, s))
                    /\ log' = [log EXCEPT ![i + 1].outcome = o]
    BY <1>4, <2>1 DEF execute
  <2>3. Busy /\ handler.pc # "closed" /\ link' = link /\ s # finish
    BY <1>4, <2>2, Statuses DEF execute, Busy
  <2>4. i \in Nat /\ i + 1 \in 1 .. Len(log) /\ log \in Seq(Entry) /\ Len(log) \in Nat
    BY <2>1, <2>3, SyncIs DEF Inv, HandlerOK, Indexed, Types
  <2>5. \A n \in 1 .. Len(log) : n # i + 1 => log'[n].outcome = log[n].outcome
    <3>1. PICK n : n = i + 1
      OBVIOUS
    <3>2. o \in Outcome /\ n \in 1 .. Len(log) /\ log' = [log EXCEPT ![n].outcome = o]
      BY <2>2, <2>4, <3>1 DEF Outcome
    <3>3. QED
      BY <3>1, <3>2, <2>4, LogOutcome
  <2>6. ASSUME NEW j \in DOMAIN responseMap', Due(j)' PROVE Due(j) \/ j = i
    <3>1. j \in Nat /\ j + 1 \in 1 .. Len(log)
      BY <2>6, <1>1, OnList, SyncIs
    <3>2. j # i => Fate(j)' = Fate(j)
      BY <3>1, <2>4, <2>5 DEF Fate
    <3>3. QED
      BY <3>2, <2>6, <1>1 DEF Due
  <2>7. QED
    BY <2>1, <2>2, <2>3, <2>6, <1>1, DueSays
<1>5. CASE action_restore
  <2>1. PICK i : i = handler.index
    OBVIOUS
  <2>2. Busy /\ handler.pc = "date" /\ ReadFrame /\ link' = link
    BY <1>5 DEF action_restore, Busy
  <2>3. i \in Nat /\ i + 1 \in 1 .. Len(log) /\ log \in Seq(Entry) /\ Len(log) \in Nat
    BY <2>1, <2>2, SyncIs DEF Inv, HandlerOK, Indexed, Types
  <2>4. Input.kind = "date" /\ responder.pc \in {"count", "failed"}
    BY <2>2, FirstFrame DEF Expects
  <2>5. /\ ~Reading /\ responder.pc # "done"
        /\ Restoring => i = responder.index
        /\ responder.pc = "count" <=> Restoring
    BY <2>1, <2>2, <2>4, SyncIs DEF Reading, Restoring, RestoreOK
  <2>6. CASE ~Restoring
    BY <2>5, <2>6, <1>1, <1>2 DEF DueOK
  <2>7. CASE Restoring
    <3>1. PICK o \in {"served", "refused"} : log' = [log EXCEPT ![i + 1].outcome = o]
      BY <1>5, <2>1, <2>4 DEF action_restore
    <3>2. \A n \in 1 .. Len(log) : n # i + 1 => log'[n].outcome = log[n].outcome
      <4>1. PICK n : n = i + 1
        OBVIOUS
      <4>2. o \in Outcome /\ n \in 1 .. Len(log) /\ log' = [log EXCEPT ![n].outcome = o]
        BY <2>3, <3>1, <4>1 DEF Outcome
      <4>3. QED
        BY <4>1, <4>2, <2>3, LogOutcome
    <3>3. ASSUME NEW j \in DOMAIN responseMap', Due(j)' PROVE Due(j) \/ j = i
      <4>1. j \in Nat /\ j + 1 \in 1 .. Len(log)
        BY <3>3, <1>1, OnList, SyncIs
      <4>2. j # i => Fate(j)' = Fate(j)
        BY <4>1, <2>3, <3>2 DEF Fate
      <4>3. QED
        BY <4>2, <3>3, <1>1 DEF Due
    <3>4. QED
      BY <3>3, <2>2, <2>5, <2>7, <1>1, <1>2, DueKept
  <2>8. QED
    BY <2>6, <2>7
<1>6. CASE read_file_size \/ read_file_content \/ addAction \/ HandlerThrows
  <2>1. log' = log /\ toClient' = toClient /\ link' = link
    BY <1>6 DEF read_file_size, read_file_content, addAction, HandlerThrows
  <2>2. handler.pc # "closed"
    BY <1>6 DEF read_file_size, read_file_content, addAction, HandlerThrows
  <2>3. \A j : Due(j)' => Due(j)
    BY <2>1, <1>1 DEF Due, Fate
  <2>4. QED
    BY <2>1, <2>2, <2>3, <1>1, <1>2, DueKept
<1>7. QED
  BY <1>3, <1>4, <1>5, <1>6 DEF ClientHandler

LEMMA DueConsumer ==
  ASSUME Sync, DueOK, ActionsConsumer, [Next]_vars
  PROVE  DueOK'
<1>1. UNCHANGED <<responder, toClient, link, handler>>
  BY DEF ActionsConsumer, pop, ConsumerLoop, send_action_add, send_action_check, send_action_header,
     send_file_size, send_file_content, send_quit, ConsumerThrows, ConsumerKeeps, OthersKeep
<1>2. (Reading' <=> Reading) /\ (Restoring' <=> Restoring)
  BY <1>1 DEF Reading, Restoring
<1>3. log \in Seq(Entry) /\ Len(log) \in Nat
  BY SyncIs DEF Types
<1>4. ASSUME NEW j \in DOMAIN responseMap', Due(j)' PROVE Due(j)
  <2>1. CASE send_action_add
    <3>1. PICK a, n : a = consumer.action /\ n = current_index
      OBVIOUS
    <3>2. /\ responseMap' = responses!Put(n, a, "sent") /\ consumer.pc = "add"
          /\ log' = Append(log, [action |-> a, hash |-> None, outcome |-> "none"])
      BY <2>1, <3>1 DEF send_action_add, responses!add
    <3>3. PICK e : e = [action |-> a, hash |-> None, outcome |-> "none"]
      OBVIOUS
    <3>4. e \in Entry /\ e.outcome = "none"
      BY <3>1, <3>2, <3>3, SyncIs DEF Inv, ConsumerOK, Entry, Outcome
    <3>5. /\ Len(log') = Len(log) + 1 /\ \A i \in 1 .. Len(log) : log'[i] = log[i]
          /\ log'[Len(log) + 1] = e
      BY <3>2, <3>3, <3>4, <1>3, LogAppended
    <3>6. n = Len(log)
      BY <3>1, SyncIs DEF Types
    <3>7. /\ DOMAIN responseMap' = DOMAIN responseMap \cup {n}
          /\ \A i \in DOMAIN responseMap : i # n => responseMap'[i] = responseMap[i]
      BY <3>2, Listing
    <3>8. j # n
      BY <3>4, <3>5, <3>6, <1>4 DEF Due, Fate
    <3>9. j \in DOMAIN responseMap /\ responseMap'[j] = responseMap[j] /\ j + 1 \in 1 .. Len(log)
      BY <3>7, <3>8, <1>4, OnList, SyncIs
    <3>10. QED
      BY <3>5, <3>9, <1>4 DEF Due, Fate
  <2>2. CASE send_action_check
    <3>1. PICK c : c = consumer.index
      OBVIOUS
    <3>2. c \in Nat /\ c + 1 \in 1 .. Len(log) /\ c \in DOMAIN responseMap
      BY <1>3, <2>2, <3>1, SyncIs DEF send_action_check, Listed, Inv, ConsumerOK, Indexed, ListOK, Fresh
    <3>3. CASE UNCHANGED <<responseVars, log>>
      BY <3>3, <1>4 DEF Due, Fate, responseVars
    <3>4. CASE \E o \in {"ignored", "refused"} :
                 /\ log' = [log EXCEPT ![c + 1].outcome = o]
                 /\ responses!completed(c) \/ responses!signal_error(c)
      <4>1. PICK n : n = c + 1
        OBVIOUS
      <4>2. PICK o \in {"ignored", "refused"} : log' = [log EXCEPT ![n].outcome = o]
        BY <3>4, <4>1
      <4>3. o \in Outcome /\ n \in 1 .. Len(log)
        BY <3>2, <4>1 DEF Outcome
      <4>4. \A i \in 1 .. Len(log) : i # n => log'[i].outcome = log[i].outcome
        BY <4>2, <4>3, <1>3, LogOutcome
      <4>5. /\ j # c /\ j \in DOMAIN responseMap /\ responseMap'[j] = responseMap[j]
        <5>1. CASE responses!completed(c)
          <6>1. DOMAIN responseMap' = DOMAIN responseMap \ {c}
            BY <5>1, OffList
          <6>2. \A i \in DOMAIN responseMap : i # c => responseMap'[i] = responseMap[i]
            BY <5>1, OffList
          <6>3. QED
            BY <6>1, <6>2, <1>4
        <5>2. CASE responses!signal_error(c)
          <6>1. /\ DOMAIN responseMap' = DOMAIN responseMap
                /\ responseMap'[c] = [action |-> responseMap[c].action, st |-> "error"]
                /\ \A i \in DOMAIN responseMap : i # c => responseMap'[i] = responseMap[i]
            BY <5>2, <3>2, StatusSet DEF responses!signal_error
          <6>2. j # c
            BY <6>1, <1>4 DEF Due
          <6>3. QED
            BY <6>1, <6>2, <1>4
        <5>3. QED
          BY <3>4, <5>1, <5>2
      <4>6. j \in Nat /\ j + 1 \in 1 .. Len(log) /\ j + 1 # n
        BY <4>1, <4>5, <3>2, OnList, SyncIs
      <4>7. QED
        BY <4>4, <4>5, <4>6, <1>4 DEF Due, Fate
    <3>5. QED
      BY <2>2, <3>1, <3>3, <3>4 DEF send_action_check
  <2>3. CASE send_file_content
    <3>1. PICK n, h : n = consumer.index + 1 /\ log' = [log EXCEPT ![n].hash = h] /\ h \in Hash
      BY <2>3 DEF send_file_content
    <3>2. n \in 1 .. Len(log) /\ responseMap' = responseMap
      BY <1>3, <2>3, <3>1, SyncIs DEF send_file_content, Sending, Inv, ConsumerOK, Indexed, responseVars
    <3>3. \A i \in 1 .. Len(log) : log'[i].outcome = log[i].outcome
      BY <3>1, <3>2, <1>3, LogHash
    <3>4. j + 1 \in 1 .. Len(log)
      BY <3>2, <1>4, OnList, SyncIs
    <3>5. QED
      BY <3>2, <3>3, <3>4, <1>4 DEF Due, Fate
  <2>4. CASE pop \/ ConsumerLoop \/ send_action_header \/ send_file_size \/ send_quit \/ ConsumerThrows
    <3>1. UNCHANGED <<responseMap, log>>
      BY <2>4 DEF pop, ConsumerLoop, send_action_header, send_file_size, send_quit, ConsumerThrows, responseVars
    <3>2. QED
      BY <3>1, <1>4 DEF Due, Fate
  <2>5. QED
    BY <2>1, <2>2, <2>3, <2>4 DEF ActionsConsumer
<1>5. QED
  BY <1>1, <1>2, <1>4, DueKept

\* The response consumer, when it neither takes a response nor ends a restore.
LEMMA DueResponder ==
  ASSUME Sync, DueOK, ResponseConsumer, ~has_exception_occurred', [Next]_vars
  PROVE  DueOK'
<1>1. CASE ReadResponse
  BY <1>1, DueRead
<1>2. CASE action_restore_rename
  BY <1>2, DueRename
<1>3. CASE \/ ResponderLoop \/ action_restore_date \/ action_restore_count
           \/ action_restore_entry \/ action_restore_remove
  <2>1. UNCHANGED <<responseMap, log, link, handler>> /\ ~has_exception_occurred
    BY <1>3 DEF ResponderLoop, action_restore_date, action_restore_count, action_restore_entry,
       action_restore_remove, ResponderKeeps, responseVars
  <2>2. \A j : Due(j)' => Due(j)
    BY <2>1 DEF Due, Fate
  <2>3. CASE ResponderLoop
    <3>1. ResponderGoto("read") /\ toClient' = toClient /\ responder.pc = "loop"
      BY <2>1, <2>3 DEF ResponderLoop
    <3>2. responder'.pc = "read"
      BY <3>1, ResponderGoes, SyncIs
    <3>3. QED
      BY <2>1, <2>2, <3>1, <3>2, DueKept DEF Reading, Restoring
  <2>4. CASE action_restore_date \/ action_restore_remove
    <3>1. PICK pc \in {"count", "rename"} : ResponderGoto(pc)
      BY <2>4 DEF action_restore_date, action_restore_remove
    <3>2. responder'.pc = pc /\ responder'.index = responder.index /\ Restoring
      BY <2>4, <3>1, ResponderGoes, SyncIs DEF action_restore_date, action_restore_remove, Restoring
    <3>3. QED
      BY <2>1, <2>2, <3>2, DueKept DEF Reading, Restoring
  <2>5. CASE action_restore_count \/ action_restore_entry
    <3>1. responder'.pc \in {"entries", "garbled"} /\ responder'.index = responder.index
      <4>1. CASE action_restore_count
        <5>1. PICK n : n = Head(toClient).n
          OBVIOUS
        <5>2. \/ responder' = [responder EXCEPT !.pc = "entries", !.left = n]
              \/ responder' = [responder EXCEPT !.pc = "garbled"]
          BY <4>1, <5>1 DEF action_restore_count
        <5>3. QED
          BY <5>2, SyncIs DEF Threads
      <4>2. CASE action_restore_entry
        <5>1. PICK n : n = responder.left - 1
          OBVIOUS
        <5>2. \/ responder' = [responder EXCEPT !.left = n] /\ responder.pc = "entries"
              \/ responder' = [responder EXCEPT !.pc = "garbled"]
          BY <4>2, <5>1 DEF action_restore_entry, ResponderGoto
        <5>3. QED
          BY <5>2, SyncIs DEF Threads
      <4>3. QED
        BY <2>5, <4>1, <4>2
    <3>2. Restoring
      BY <2>5 DEF action_restore_count, action_restore_entry, Restoring
    <3>3. QED
      BY <2>1, <2>2, <3>1, <3>2, DueKept DEF Reading, Restoring
  <2>6. QED
    BY <1>3, <2>3, <2>4, <2>5
<1>4. ~ResponderThrows
  BY DEF ResponderThrows
<1>5. QED
  BY <1>1, <1>2, <1>3, <1>4 DEF ResponseConsumer

LEMMA AnsweredStart ==
  ASSUME Init
  PROVE  Answered
<1>1. /\ log = <<>> /\ toClient = <<>> /\ Len(log) = 0 /\ Len(toClient) = 0
      /\ responder.pc = "loop"
  BY DEF Init
<1>2. DOMAIN responseMap = {}
  BY DEF Init, responses!Init
<1>3. Pairs = {} /\ 0 .. Len(log) - 1 = {}
  BY <1>1 DEF Pairs
<1>4. WayOK
  BY <1>3 DEF WayOK
<1>5. DueOK
  BY <1>1, <1>2, <1>3 DEF DueOK, Finished, Restoring
<1>6. QED
  BY <1>4, <1>5 DEF Answered

LEMMA AnsweredStep ==
  ASSUME "file_change" \notin Faults, Sync, Sync', Answered, [Next]_vars
  PROVE  Answered'
<1> SUFFICES ASSUME ~has_exception_occurred'
             PROVE  WayOK' /\ DueOK'
  BY DEF Answered
<1>1. CASE \/ \E a \in Action : a.type \in Pushed /\ push(a)
           \/ terminate \/ Disconnect \/ NextDay \/ UNCHANGED vars
  <2>1. /\ UNCHANGED <<responseMap, log, toClient, responder, toServer, handler, consumer,
                       has_exception_occurred>>
        /\ link' = "up" => link = "up"
    <3>1. CASE \E a \in Action : a.type \in Pushed /\ push(a)
      BY <3>1 DEF push, clientVars, netVars, responseVars
    <3>2. CASE terminate
      BY <3>2 DEF terminate, clientVars, netVars, responseVars
    <3>3. CASE Disconnect
      BY <3>3 DEF Disconnect, clientVars, responseVars
    <3>4. CASE NextDay
      BY <3>4 DEF NextDay, clientVars, netVars, responseVars
    <3>5. CASE UNCHANGED vars
      BY <3>5 DEF vars, clientVars, netVars, responseVars
    <3>6. QED
      BY <1>1, <3>1, <3>2, <3>3, <3>4, <3>5
  <2>2. WayOK /\ DueOK
    BY <2>1 DEF Answered
  <2>3. WayOK'
    BY <2>1, <2>2, WaySame, SyncIs
  <2>4. \A j : Due(j)' => Due(j)
    BY <2>1 DEF Due, Fate
  <2>5. DueOK'
    BY <2>1, <2>2, <2>4, DueKept DEF Reading, Restoring
  <2>6. QED
    BY <2>3, <2>5
<1>2. CASE ActionsConsumer
  <2>1. ~has_exception_occurred
    BY <1>2 DEF ActionsConsumer, pop, ConsumerLoop, send_action_add, send_action_check,
       send_action_header, send_file_size, send_file_content, send_quit, ConsumerThrows, ConsumerKeeps
  <2>2. QED
    BY <2>1, <1>2, WayConsumer, DueConsumer DEF Answered
<1>3. CASE ResponseConsumer
  <2>1. /\ ~has_exception_occurred /\ UNCHANGED <<log, consumer, handler, link>>
        /\ toServer' = toServer \/ \E f : WriteToServer(<<f>>)
    <3>1. ~ResponderThrows
      BY DEF ResponderThrows
    <3>2. ~has_exception_occurred /\ UNCHANGED <<log, consumer, handler, link>>
      BY <1>3, <3>1 DEF ResponseConsumer, ResponderLoop, ReadResponse, action_restore_date,
         action_restore_count, action_restore_entry, action_restore_remove, action_restore_rename,
         ResponderKeeps
    <3>3. toServer' = toServer \/ \E f : WriteToServer(<<f>>)
      <4>1. CASE action_restore_date
        BY <4>1 DEF action_restore_date
      <4>2. CASE ~action_restore_date
        BY <1>3, <3>1, <4>2 DEF ResponseConsumer, ResponderLoop, ReadResponse, action_restore_count,
           action_restore_entry, action_restore_remove, action_restore_rename
      <4>3. QED
        BY <4>1, <4>2
    <3>4. QED
      BY <3>2, <3>3
  <2>2. WayOK /\ DueOK
    BY <2>1 DEF Answered
  <2>3. WayOK'
    BY <2>1, <2>2, WaySame, SyncIs
  <2>4. QED
    BY <2>2, <2>3, <1>3, DueResponder
<1>4. CASE ClientHandler
  <2>1. ~has_exception_occurred
    BY <1>4 DEF ClientHandler, read_action, read_file_size, read_file_content, addAction, execute,
       action_restore, HandlerThrows, HandlerKeeps, clientVars
  <2>2. WayOK /\ DueOK
    BY <2>1 DEF Answered
  <2>3. WayOK'
    <3>1. CASE read_action /\ Input.kind = "action" /\ Input.action = Quit
      <4>1. link' = IF link = "up" THEN "closed" ELSE link
        BY <3>1 DEF read_action
      <4>2. QED
        BY <4>1 DEF WayOK
    <3>2. CASE ~(read_action /\ Input.kind = "action" /\ Input.action = Quit)
      BY <3>2, <2>2, <1>4, WayHandler
    <3>3. QED
      BY <3>1, <3>2
  <2>4. QED
    BY <2>2, <2>3, <1>4, DueHandler
<1>5. QED
  BY <1>1, <1>2, <1>3, <1>4 DEF Next

LEMMA AlwaysAnswered ==
  ASSUME QuietRestore, "file_change" \notin Faults, "db_read" \notin Faults
  PROVE  Spec => []Answered
<1>1. Init => Answered
  BY AnsweredStart
<1>2. Sync /\ Sync' /\ Answered /\ [Next]_vars => Answered'
  BY AnsweredStep
<1>3. Spec => []Sync
  BY AlwaysInSync, PTL
<1>4. QED
  BY <1>1, <1>2, <1>3, PTL DEF Spec

\* Under the same conditions, a client whose response consumer has read the
\* answer to the quit (Client.cpp, the loops of actionsConsumer and
\* responseConsumer; read_action of ClientHandler.cpp) leaves nothing behind: the
\* buffer is empty, every action that was popped has come to an end at the
\* server, and every answer was read, so that what is still on the list of
\* pending actions is what was refused.
THEOREM QuitLeavesNothing ==
  ASSUME QuietRestore, "file_change" \notin Faults, "db_read" \notin Faults
  PROVE  Spec => []NothingLeftBehind
<1>1. Sync /\ Answered => NothingLeftBehind
  <2> SUFFICES ASSUME Sync, Answered, responder.pc = "done", ~has_exception_occurred
               PROVE  /\ actions = <<>>
                      /\ \A i \in 1 .. Len(log) : log[i].outcome # "none"
                      /\ \A i \in DOMAIN responseMap : responseMap[i].st = "error"
    BY DEF NothingLeftBehind
  <2>1. Over /\ \A i \in DOMAIN responseMap : ~Due(i)
    BY DEF Answered, DueOK
  <2>2. ASSUME NEW i \in 1 .. Len(log) PROVE log[i].outcome # "none"
    <3>1. PICK j : j = i - 1
      OBVIOUS
    <3>2. j \in 0 .. Len(log) - 1 /\ j + 1 = i
      BY <3>1, SyncIs
    <3>3. Fate(j) # "none"
      BY <3>2, <2>1 DEF Over
    <3>4. QED
      BY <3>2, <3>3 DEF Fate
  <2>3. ASSUME NEW i \in DOMAIN responseMap PROVE responseMap[i].st = "error"
    <3>1. i \in 0 .. Len(log) - 1
      BY SyncIs DEF MapOK
    <3>2. QED
      BY <3>1, <2>1 DEF Over, Due
  <2>4. QED
    BY <2>1, <2>2, <2>3 DEF Over
<1>2. QED
  BY <1>1, AlwaysInSync, AlwaysAnswered, PTL
=============================================================================
