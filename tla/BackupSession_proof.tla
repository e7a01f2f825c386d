------------------------ MODULE BackupSession_proof -------------------------
(***************************************************************************)
(* What reaches the backup.  The invariant follows an action from the      *)
(* consumer that lists and sends it, through the frames on the connection, *)
(* to the handler that stores it: the indices only grow along that way, so *)
(* that what is stored next is later in the log than all that is stored;   *)
(* and a file's content travels behind its own header, so that it is       *)
(* stored with no other.  A read that takes the wrong frame ends the       *)
(* handler, and does no harm here.                                         *)
(***************************************************************************)
EXTENDS BackupSession, SequenceTheorems, TLAPS

Entry == [action : Action, hash : Hash \cup {None}, outcome : Outcome]
ConsumerPcs == ClientPc \cup {"pop", "add", "check", "header", "size", "content", "quit"}
HandlerPcs == {"read", "size", "content", "date", "addAction", "execute", "closed", "garbled"}
Day == 0 .. LastDay
Request == [filename : Path, timestamp : Day, action : {"read_file", "create_folder", "delete_path"},
            hash : Hash \cup {"dir", ""}]
IsSeq(s) == s \in Seq({s[i] : i \in 1 .. Len(s)})

Types ==
  /\ actions \in Seq(Action)
  /\ consumer \in [pc : ConsumerPcs, action : Action \cup {None}, index : Nat]
  /\ log \in Seq(Entry) /\ current_index = Len(log)
  /\ IsSeq(toServer)
  /\ handler \in [pc : HandlerPcs, index : Nat, action : Action \cup {None}, hash : Hash \cup {None}]
  /\ backup \in [Day -> SUBSET (Before \cup [filename : Path, hash : Hash \cup {"dir"}])]
  /\ edited \in [Path -> SUBSET Day] /\ today \in Day
  /\ current_date \in [{"handler"} -> Day \cup {None}]
  /\ req \in [{"handler"} -> Request \cup {None}]

\* The frames on the way to the server, and the entries of the log.
Frames == 1 .. Len(toServer)
Header(k) == toServer[k].kind = "action" /\ toServer[k].action # Quit
Idx(k) == toServer[k].index
Stored(i) == log[i].outcome = "stored"
Indexed(i, a) == i \in 0 .. Len(log) - 1 /\ log[i + 1].action = a /\ a \in Action

\* The consumer has an action to send, or sends its file; the handler has one to
\* execute, or receives its file.
Listed == consumer.pc \in {"check", "header"}
Sending == consumer.pc \in {"size", "content"}
Busy == handler.pc \in {"size", "content", "date", "addAction", "execute"}
Receiving == handler.pc \in {"size", "content"}

\* The action that is sent is the last of the log.
ConsumerOK ==
  /\ consumer.pc = "add" => consumer.action \in Action
  /\ Listed \/ Sending =>
       Indexed(consumer.index, consumer.action) /\ consumer.index + 1 = Len(log) /\ ~Stored(Len(log))
  /\ Sending \/ consumer.pc = "header" => consumer.action.type # "ignore"
  /\ Sending => consumer.action.type = "read_file"

\* The headers on the way are of later actions than any that is stored or
\* executed, in the order of the log.
HeadersOK ==
  \A k \in Frames : Header(k) =>
    /\ Indexed(Idx(k), toServer[k].action) /\ toServer[k].action.type # "ignore"
    /\ \A i \in Idx(k) + 1 .. Len(log) : ~Stored(i)
    /\ Listed => Idx(k) < consumer.index
    /\ Busy => handler.index < Idx(k)
    /\ \A l \in Frames : l > k /\ Header(l) => Idx(k) < Idx(l)

\* What the handler has read is what the log says was sent.
HandlerOK ==
  Busy =>
    /\ Indexed(handler.index, handler.action)
    /\ \A i \in handler.index + 1 .. Len(log) : ~Stored(i)
    /\ Listed => handler.index < consumer.index
    /\ Receiving => handler.action.type = "read_file"
    /\ handler.pc \in {"addAction", "execute"} =>
         /\ handler.action.type \in {"read_file", "create_folder", "delete_path"}
         /\ handler.action.type = "read_file" =>
              handler.hash \in Hash /\ handler.hash = log[handler.index + 1].hash

\* A content is of the action whose header is the last before it.
ContentsOK ==
  \A k \in Frames :
    /\ toServer[k].kind # "part"
    /\ toServer[k].kind = "content" =>
         /\ toServer[k].hash \in Hash
         /\ \A j \in 1 .. k - 1 : Header(j) /\ (\A i \in j + 1 .. k - 1 : ~Header(i))
              => toServer[k].hash = log[Idx(j) + 1].hash
         /\ Receiving /\ (\A i \in 1 .. k - 1 : ~Header(i))
              => toServer[k].hash = log[handler.index + 1].hash

\* While a file is sent its header is the last one sent, if what is written
\* arrives, and its content is not there yet.
UploadOK ==
  Sending =>
    /\ \A k, l \in Frames : Header(k) /\ Idx(k) = consumer.index /\ l > k => toServer[l].kind # "content"
    /\ Receiving /\ handler.index = consumer.index => \A l \in Frames : toServer[l].kind # "content"
    /\ handler.pc \in {"addAction", "execute"} => handler.index # consumer.index
    /\ link = "up" =>
         /\ \A k \in Frames : Header(k) /\ (\A l \in k + 1 .. Len(toServer) : ~Header(l))
              => Idx(k) = consumer.index
         /\ Receiving /\ (\A k \in Frames : ~Header(k)) => handler.index = consumer.index

\* The request is the handler's action, under a date that no edit is later than.
DbOK ==
  /\ handler.pc = "execute" =>
       req["handler"] = [filename |-> handler.action.path, timestamp |-> current_date["handler"],
                         action |-> EditOf(handler.action, handler.hash).action,
                         hash |-> EditOf(handler.action, handler.hash).hash]
  /\ Busy => current_date["handler"] \in Day /\ current_date["handler"] <= today
  /\ \A p \in Path : \A e \in edited[p] : e <= today /\ (Busy => e <= current_date["handler"])

Inv == /\ Types /\ ConsumerOK /\ HeadersOK /\ HandlerOK /\ ContentsOK /\ UploadOK /\ DbOK
       /\ BackupFollowsActions

-----------------------------------------------------------------------------
\* Sequences whose elements are of no set in particular.

LEMMA SeqLen == ASSUME NEW s, IsSeq(s) PROVE Len(s) \in Nat /\ DOMAIN s = 1 .. Len(s)
BY LenProperties DEF IsSeq

LEMMA SeqAny ==
  ASSUME NEW S, NEW s \in Seq(S)
  PROVE  IsSeq(s)
<1>1. s \in Seq(Range(s)) /\ Range(s) = {s[i] : i \in 1 .. Len(s)}
  BY SeqOfRange, RangeEquality
<1>2. QED
  BY <1>1 DEF IsSeq

LEMMA SeqOne == \A f : IsSeq(<<f>>) /\ Len(<<f>>) = 1 /\ <<f>>[1] = f
<1> SUFFICES ASSUME NEW f PROVE IsSeq(<<f>>) /\ Len(<<f>>) = 1 /\ <<f>>[1] = f
  OBVIOUS
<1>1. <<f>> \in Seq({f}) /\ Len(<<f>>) = 1 /\ <<f>>[1] = f
  OBVIOUS
<1>2. QED
  BY <1>1, SeqAny

LEMMA SeqConcat ==
  ASSUME NEW s, NEW t, IsSeq(s), IsSeq(t)
  PROVE  /\ IsSeq(s \o t) /\ Len(s \o t) = Len(s) + Len(t)
         /\ \A i \in 1 .. Len(s) : (s \o t)[i] = s[i]
         /\ \A i \in 1 .. Len(t) : (s \o t)[Len(s) + i] = t[i]
<1> DEFINE S == {s[i] : i \in 1 .. Len(s)}
           T == {t[i] : i \in 1 .. Len(t)}
           U == S \cup T
<1>1. s \in Seq(U) /\ t \in Seq(U)
  <2>1. s \in Seq(S) /\ S \subseteq U
    BY DEF IsSeq
  <2>2. t \in Seq(T) /\ T \subseteq U
    BY DEF IsSeq
  <2>3. QED
    BY <2>1, <2>2, SeqMonotonic
<1> HIDE DEF S, T, U
<1>2. /\ s \o t \in Seq(U) /\ Len(s \o t) = Len(s) + Len(t)
      /\ \A i \in 1 .. Len(s) + Len(t) : (s \o t)[i] = IF i <= Len(s) THEN s[i] ELSE t[i - Len(s)]
  BY <1>1, ConcatProperties
<1>3. IsSeq(s \o t)
  BY <1>2, SeqAny
<1>4. Len(s) \in Nat /\ Len(t) \in Nat
  BY SeqLen
<1>5. QED
  BY <1>2, <1>3, <1>4

LEMMA SeqTail ==
  ASSUME NEW s, IsSeq(s), s # <<>>
  PROVE  /\ IsSeq(Tail(s)) /\ Len(s) >= 1 /\ Len(Tail(s)) = Len(s) - 1
         /\ \A i \in 1 .. Len(s) - 1 : Tail(s)[i] = s[i + 1]
         /\ Head(s) = s[1]
<1> DEFINE S == {s[i] : i \in 1 .. Len(s)}
<1>1. s \in Seq(S)
  BY DEF IsSeq
<1> HIDE DEF S
<1>2. /\ Tail(s) \in Seq(S) /\ Len(Tail(s)) = Len(s) - 1 /\ Len(s) \in Nat \ {0}
      /\ \A i \in 1 .. Len(Tail(s)) : Tail(s)[i] = s[i + 1]
  BY <1>1, HeadTailProperties, EmptySeq
<1>3. IsSeq(Tail(s))
  BY <1>2, SeqAny
<1>4. Head(s) = s[1]
  BY <1>1
<1>5. QED
  BY <1>2, <1>3, <1>4

\* A frame is written, if the connection takes it, and one is read.
LEMMA Written ==
  ASSUME IsSeq(toServer), NEW f, WriteToServer(<<f>>)
  PROVE  /\ IsSeq(toServer')
         /\ \/ toServer' = toServer /\ link # "up"
            \/ /\ link = "up" /\ Len(toServer') = Len(toServer) + 1
               /\ \A i \in 1 .. Len(toServer) : toServer'[i] = toServer[i]
               /\ toServer'[Len(toServer) + 1] = f
<1>1. IsSeq(<<f>>) /\ Len(<<f>>) = 1 /\ <<f>>[1] = f
  BY SeqOne
<1>2. Len(toServer) \in Nat
  BY SeqLen
<1> DEFINE w == <<f>>
<1> HIDE DEF w
<1>3. /\ IsSeq(toServer \o w) /\ Len(toServer \o w) = Len(toServer) + 1
      /\ \A i \in 1 .. Len(toServer) : (toServer \o w)[i] = toServer[i]
      /\ (toServer \o w)[Len(toServer) + 1] = f
  <2>1. IsSeq(w) /\ Len(w) = 1 /\ w[1] = f
    BY <1>1 DEF w
  <2>2. 1 \in 1 .. Len(w)
    BY <2>1
  <2>3. IsSeq(toServer \o w)
    BY <2>1, SeqConcat, Zenon
  <2>4. \A i \in 1 .. Len(toServer) : (toServer \o w)[i] = toServer[i]
    BY <2>1, SeqConcat
  <2>5. (toServer \o w)[Len(toServer) + 1] = f
    BY <2>1, <2>2, SeqConcat
  <2>6. Len(toServer \o w) = Len(toServer) + 1
    BY <2>1, SeqConcat
  <2>7. QED
    BY <2>3, <2>4, <2>5, <2>6
<1>4. toServer' = IF link = "up" THEN toServer \o w ELSE toServer
  BY DEF WriteToServer, w
<1>5. QED
  BY <1>3, <1>4

LEMMA FrameRead ==
  ASSUME IsSeq(toServer), ReadFrame
  PROVE  /\ IsSeq(toServer') /\ Len(toServer) \in Nat /\ Len(toServer) >= 1
         /\ Len(toServer') = Len(toServer) - 1
         /\ \A i \in 1 .. Len(toServer') : toServer'[i] = toServer[i + 1]
         /\ Input = toServer[1]
BY SeqTail, SeqLen DEF ReadFrame, Input

\* What becomes of the log.
LEMMA LogAppended ==
  ASSUME log \in Seq(Entry), NEW e \in Entry, log' = Append(log, e)
  PROVE  /\ log' \in Seq(Entry) /\ Len(log) \in Nat /\ Len(log') = Len(log) + 1
         /\ \A i \in 1 .. Len(log) : log'[i] = log[i]
         /\ log'[Len(log) + 1] = e
BY AppendProperties, LenProperties

LEMMA LogOutcome ==
  ASSUME log \in Seq(Entry), NEW n \in 1 .. Len(log), NEW o \in Outcome,
         log' = [log EXCEPT ![n].outcome = o]
  PROVE  /\ log' \in Seq(Entry) /\ Len(log) \in Nat /\ Len(log') = Len(log)
         /\ \A i \in 1 .. Len(log) :
              /\ log'[i].action = log[i].action /\ log'[i].hash = log[i].hash
              /\ log'[i].outcome = IF i = n THEN o ELSE log[i].outcome
<1> DEFINE e == [log[n] EXCEPT !.outcome = o]
<1>1. log[n] \in Entry /\ Len(log) \in Nat
  BY ElementOfSeq, LenProperties
<1>2. e \in Entry /\ e.action = log[n].action /\ e.hash = log[n].hash /\ e.outcome = o
  BY <1>1 DEF Entry
<1> HIDE DEF e
<1>3. log' = [log EXCEPT ![n] = e]
  BY DEF e
<1>4. QED
  BY <1>1, <1>2, <1>3, ExceptSeq

LEMMA LogHash ==
  ASSUME log \in Seq(Entry), NEW n \in 1 .. Len(log), NEW h \in Hash,
         log' = [log EXCEPT ![n].hash = h]
  PROVE  /\ log' \in Seq(Entry) /\ Len(log) \in Nat /\ Len(log') = Len(log)
         /\ \A i \in 1 .. Len(log) :
              /\ log'[i].action = log[i].action /\ log'[i].outcome = log[i].outcome
              /\ log'[i].hash = IF i = n THEN h ELSE log[i].hash
<1> DEFINE e == [log[n] EXCEPT !.hash = h]
<1>1. log[n] \in Entry /\ Len(log) \in Nat
  BY ElementOfSeq, LenProperties
<1>2. e \in Entry /\ e.action = log[n].action /\ e.hash = h /\ e.outcome = log[n].outcome
  BY <1>1 DEF Entry
<1> HIDE DEF e
<1>3. log' = [log EXCEPT ![n] = e]
  BY DEF e
<1>4. QED
  BY <1>1, <1>2, <1>3, ExceptSeq

-----------------------------------------------------------------------------
\* The replay of a log.

LEMMA LogFields ==
  ASSUME NEW l \in Seq(Entry)
  PROVE  /\ Len(l) \in Nat /\ DOMAIN l = 1 .. Len(l)
         /\ \A i \in 1 .. Len(l) : l[i] \in Entry
BY LenProperties, ElementOfSeq

\* What is not stored does not count, and is replayed as nothing.
LEMMA ReplaySame ==
  ASSUME NEW l1 \in Seq(Entry), NEW l2 \in Seq(Entry), Len(l1) <= Len(l2),
         \A i \in 1 .. Len(l1) :
           /\ l2[i].outcome = "stored" <=> l1[i].outcome = "stored"
           /\ l1[i].outcome = "stored" => l2[i].action = l1[i].action /\ l2[i].hash = l1[i].hash,
         \A i \in Len(l1) + 1 .. Len(l2) : l2[i].outcome # "stored"
  PROVE  Replay(l2) = Replay(l1)
<1>1. /\ Len(l1) \in Nat /\ DOMAIN l1 = 1 .. Len(l1)
      /\ Len(l2) \in Nat /\ DOMAIN l2 = 1 .. Len(l2)
  BY LogFields
<1>2. \A i \in 1 .. Len(l2) : i \in 1 .. Len(l1) \/ i \in Len(l1) + 1 .. Len(l2)
  BY <1>1
<1>3. ASSUME NEW p PROVE LastStored(l2, p) = LastStored(l1, p)
  <2> DEFINE Of(l, i) == l[i].outcome = "stored" /\ l[i].action.path = p
  <2>1. \A i \in 1 .. Len(l2) : Of(l2, i) <=> i \in 1 .. Len(l1) /\ Of(l1, i)
    BY <1>1, <1>2
  <2>2. 1 .. Len(l1) \subseteq 1 .. Len(l2)
    BY <1>1
  <2>3. /\ LastStored(l1, p) =
             {i \in 1 .. Len(l1) : Of(l1, i) /\ \A j \in 1 .. Len(l1) : j > i => ~Of(l1, j)}
        /\ LastStored(l2, p) =
             {i \in 1 .. Len(l2) : Of(l2, i) /\ \A j \in 1 .. Len(l2) : j > i => ~Of(l2, j)}
    BY <1>1 DEF LastStored
  <2> HIDE DEF Of
  <2>4. QED
    BY <2>1, <2>2, <2>3
<1>4. \A p : \A i \in LastStored(l1, p) : l2[i].action = l1[i].action /\ l2[i].hash = l1[i].hash
  BY <1>1 DEF LastStored
<1> DEFINE Kept(l) == {e \in Before : LastStored(l, e.filename) = {}}
           File(l, p, i) == [filename |-> p,
                             hash |-> IF l[i].action.type = "create_folder" THEN "dir" ELSE l[i].hash]
           Files(l, p) == {File(l, p, i) : i \in {j \in LastStored(l, p) : l[j].action.type # "delete_path"}}
<1>5. Kept(l2) = Kept(l1)
  BY <1>3
<1>6. ASSUME NEW p PROVE Files(l2, p) = Files(l1, p)
  <2>1. \A i \in LastStored(l1, p) :
          File(l2, p, i) = File(l1, p, i) /\ l2[i].action.type = l1[i].action.type
    BY <1>4
  <2>2. LastStored(l2, p) = LastStored(l1, p)
    BY <1>3
  <2> HIDE DEF File
  <2>3. QED
    BY <2>1, <2>2
<1>7. \A l : Replay(l) = Kept(l) \cup UNION {Files(l, p) : p \in Path}
  BY DEF Replay
<1> HIDE DEF Kept, Files
<1>8. QED
  BY <1>5, <1>6, <1>7

\* One more action is stored, later than all that are.
LEMMA ReplayStore ==
  ASSUME NEW l1 \in Seq(Entry), NEW l2 \in Seq(Entry), Len(l1) = Len(l2),
         NEW n \in 1 .. Len(l1), l2[n].outcome = "stored",
         \A i \in n .. Len(l1) : l1[i].outcome # "stored",
         \A i \in 1 .. Len(l1) : /\ l2[i].action = l1[i].action /\ l2[i].hash = l1[i].hash
                                 /\ i # n => l2[i].outcome = l1[i].outcome,
         l1[n].action.path \in Path
  PROVE  \A e : e \in Replay(l2) <=>
           \/ e \in Replay(l1) /\ e.filename # l1[n].action.path
           \/ /\ l1[n].action.type # "delete_path"
              /\ e = [filename |-> l1[n].action.path,
                      hash |-> IF l1[n].action.type = "create_folder" THEN "dir" ELSE l1[n].hash]
<1> DEFINE p == l1[n].action.path
<1>1. /\ Len(l1) \in Nat /\ DOMAIN l1 = 1 .. Len(l1)
      /\ Len(l2) = Len(l1) /\ DOMAIN l2 = 1 .. Len(l1)
  BY LogFields
<1> DEFINE Of(l, q, i) == l[i].outcome = "stored" /\ l[i].action.path = q
<1>2. ASSUME NEW q
      PROVE  /\ LastStored(l1, q) =
                  {i \in 1 .. Len(l1) : Of(l1, q, i) /\ \A j \in 1 .. Len(l1) : j > i => ~Of(l1, q, j)}
             /\ LastStored(l2, q) =
                  {i \in 1 .. Len(l1) : Of(l2, q, i) /\ \A j \in 1 .. Len(l1) : j > i => ~Of(l2, q, j)}
  BY <1>1 DEF LastStored
<1>3. ASSUME NEW q, q # p PROVE LastStored(l2, q) = LastStored(l1, q)
  <2>1. \A i \in 1 .. Len(l1) : Of(l2, q, i) <=> Of(l1, q, i)
    BY <1>3
  <2>2. /\ LastStored(l1, q) =
             {i \in 1 .. Len(l1) : Of(l1, q, i) /\ \A j \in 1 .. Len(l1) : j > i => ~Of(l1, q, j)}
        /\ LastStored(l2, q) =
             {i \in 1 .. Len(l1) : Of(l2, q, i) /\ \A j \in 1 .. Len(l1) : j > i => ~Of(l2, q, j)}
    BY <1>2
  <2> HIDE DEF Of
  <2>3. QED
    BY <2>1, <2>2
<1>4. LastStored(l2, p) = {n}
  <2>1. Of(l2, p, n) /\ \A j \in 1 .. Len(l1) : j > n => ~Of(l2, p, j)
    BY <1>1
  <2>2. \A i \in 1 .. Len(l1) : i # n => i > n \/ n > i
    BY <1>1
  <2> HIDE DEF Of
  <2>3. QED
    BY <1>1, <1>2, <2>1, <2>2
<1> DEFINE Kept(l) == {e \in Before : LastStored(l, e.filename) = {}}
           File(l, q, i) == [filename |-> q,
                             hash |-> IF l[i].action.type = "create_folder" THEN "dir" ELSE l[i].hash]
           Files(l, q) == {File(l, q, i) : i \in {j \in LastStored(l, q) : l[j].action.type # "delete_path"}}
           New == IF l1[n].action.type = "delete_path" THEN {} ELSE {File(l1, p, n)}
<1>5. Kept(l2) = {e \in Kept(l1) : e.filename # p}
  BY <1>3, <1>4
<1>6. ASSUME NEW q \in Path, q # p PROVE Files(l2, q) = Files(l1, q)
  <2>1. \A i \in LastStored(l1, q) :
          File(l2, q, i) = File(l1, q, i) /\ l2[i].action.type = l1[i].action.type
    BY <1>1, <1>2
  <2>2. LastStored(l2, q) = LastStored(l1, q)
    BY <1>3, <1>6
  <2> HIDE DEF File
  <2>3. QED
    BY <2>1, <2>2
<1>7. Files(l2, p) = New
  <2>1. File(l2, p, n) = File(l1, p, n) /\ l2[n].action.type = l1[n].action.type
    BY <1>1
  <2> HIDE DEF File
  <2>2. QED
    BY <1>4, <2>1
<1>8. \A l, q : \A e \in Files(l, q) : e.filename = q
  OBVIOUS
<1>9. \A l : Replay(l) = Kept(l) \cup UNION {Files(l, q) : q \in Path}
  BY DEF Replay
<1>10. Replay(l2) = {e \in Replay(l1) : e.filename # p} \cup New
  <2> HIDE DEF Kept, Files, New, p
  <2>1. \A e : e \in Replay(l2) <=> e \in Kept(l2) \/ \E q \in Path : e \in Files(l2, q)
    BY <1>9
  <2>2. \A e : e \in Replay(l1) <=> e \in Kept(l1) \/ \E q \in Path : e \in Files(l1, q)
    BY <1>9
  <2>3. p \in Path
    BY DEF p
  <2>4. \A e \in Replay(l2) : e \in New \/ (e \in Replay(l1) /\ e.filename # p)
    BY <1>5, <1>6, <1>7, <1>8, <2>1, <2>2
  <2>5. \A e : e \in New => e \in Replay(l2)
    BY <1>7, <2>1, <2>3
  <2>6. \A e \in Replay(l1) : e.filename # p => e \in Replay(l2)
    BY <1>5, <1>6, <1>8, <2>1, <2>2
  <2>7. QED
    BY <2>4, <2>5, <2>6
<1>11. QED
  BY <1>10

-----------------------------------------------------------------------------
\* Steps that leave the invariant's parts alone, or almost.

SameStored == \A i \in 1 .. Len(log) : (log'[i].outcome = "stored") <=> (log[i].outcome = "stored")
LogKept ==
  /\ log' \in Seq(Entry) /\ Len(log') = Len(log)
  /\ \A i \in 1 .. Len(log) : log'[i].action = log[i].action /\ log'[i].hash = log[i].hash

LEMMA ReplayKept ==
  ASSUME log \in Seq(Entry), LogKept, SameStored
  PROVE  Replay(log') = Replay(log)
<1>1. \A i \in Len(log) + 1 .. Len(log') : log'[i].outcome # "stored"
  BY LogFields DEF LogKept
<1>2. QED
  BY <1>1, ReplaySame DEF LogKept, SameStored

\* Nothing that matters to the server is written, and the action consumer
\* lists and sends nothing that it did not already.
QuietWrite ==
  /\ IsSeq(toServer') /\ Len(toServer') \in Nat /\ Len(toServer') >= Len(toServer)
  /\ \A i \in 1 .. Len(toServer) : toServer'[i] = toServer[i]
  /\ \A i \in Len(toServer) + 1 .. Len(toServer') : 
       ~Header(i)' /\ toServer'[i].kind \notin {"content", "part"}

LEMMA QuietStep ==
  ASSUME Inv, Types', ConsumerOK', QuietWrite, LogKept, SameStored,
         UNCHANGED <<handler, dbVars>>, link' = "up" => link = "up",
         Listed' => Listed /\ consumer'.index = consumer.index,
         Sending' => Sending /\ consumer'.index = consumer.index
  PROVE  Inv'
<1>1. /\ Len(toServer) \in Nat /\ Len(toServer') \in Nat /\ Len(log) \in Nat /\ Len(log') = Len(log)
      /\ Frames = 1 .. Len(toServer) /\ Frames' = 1 .. Len(toServer') /\ Len(toServer) <= Len(toServer')
  BY SeqLen, LogFields DEF Inv, Types, LogKept, QuietWrite, Frames
<1>2. \A k \in Frames : /\ k \in Frames' /\ toServer'[k] = toServer[k]
                        /\ Header(k)' <=> Header(k)
                        /\ Idx(k)' = Idx(k)
  BY <1>1 DEF QuietWrite, Header, Idx
<1>3. \A k \in Frames' : /\ Header(k)' => k \in Frames
                         /\ toServer'[k].kind \in {"content", "part"} => k \in Frames
  BY <1>1 DEF QuietWrite
<1>4. \A i, a : Indexed(i, a) => Indexed(i, a)' /\ log'[i + 1].hash = log[i + 1].hash
  BY <1>1 DEF LogKept, Indexed
<1>5. \A i \in 1 .. Len(log) : Stored(i)' <=> Stored(i)
  BY DEF SameStored, Stored
<1>6. /\ Busy' <=> Busy
      /\ Receiving' <=> Receiving
      /\ handler' = handler
  BY DEF Busy, Receiving
<1>7. HeadersOK'
  <2> SUFFICES ASSUME NEW k \in Frames', Header(k)'
               PROVE  /\ Indexed(Idx(k), toServer[k].action)' /\ toServer'[k].action.type # "ignore"
                      /\ \A i \in Idx(k)' + 1 .. Len(log') : ~Stored(i)'
                      /\ Listed' => Idx(k)' < consumer'.index
                      /\ Busy' => handler'.index < Idx(k)'
                      /\ \A l \in Frames' : l > k /\ Header(l)' => Idx(k)' < Idx(l)'
    BY DEF HeadersOK
  <2>1. k \in Frames /\ Header(k) /\ Idx(k)' = Idx(k) /\ toServer'[k] = toServer[k]
    BY <1>2, <1>3
  <2>2. /\ Indexed(Idx(k), toServer[k].action) /\ toServer[k].action.type # "ignore"
        /\ \A i \in Idx(k) + 1 .. Len(log) : ~Stored(i)
        /\ Listed => Idx(k) < consumer.index
        /\ Busy => handler.index < Idx(k)
        /\ \A l \in Frames : l > k /\ Header(l) => Idx(k) < Idx(l)
    BY <2>1 DEF Inv, HeadersOK
  <2>3. Indexed(Idx(k), toServer[k].action)'
    BY <2>1, <2>2, <1>1 DEF LogKept, Indexed
  <2>4. \A i \in Idx(k)' + 1 .. Len(log') : ~Stored(i)'
    <3>1. Idx(k) \in Nat
      BY <2>2, <1>1 DEF Indexed
    <3>2. QED
      BY <2>1, <2>2, <1>1, <1>5, <3>1
  <2>5. \A l \in Frames' : l > k /\ Header(l)' => Idx(k)' < Idx(l)'
    BY <2>1, <2>2, <1>2, <1>3
  <2>6. QED
    BY <2>1, <2>2, <2>3, <2>4, <2>5, <1>6
<1>8. HandlerOK'
  <2> SUFFICES ASSUME Busy' PROVE HandlerOK'
    BY DEF HandlerOK
  <2>1. HandlerOK /\ Busy
    BY <1>6 DEF Inv
  <2>2. Indexed(handler.index, handler.action)' /\ log'[handler.index + 1].hash = log[handler.index + 1].hash
    BY <2>1, <1>6, <1>1 DEF HandlerOK, Indexed, LogKept
  <2>3. \A i \in handler.index + 1 .. Len(log') : ~Stored(i)'
    <3>1. handler.index \in Nat
      BY <2>1, <1>1 DEF HandlerOK, Indexed
    <3>2. QED
      BY <2>1, <1>1, <1>5, <3>1 DEF HandlerOK
  <2>4. QED
    BY <2>1, <2>2, <2>3, <1>6 DEF HandlerOK
<1>9. ContentsOK'
  <2> SUFFICES ASSUME NEW k \in Frames', toServer'[k].kind \in {"content", "part"}
               PROVE  /\ toServer'[k].kind = "content"
                      /\ toServer'[k].hash \in Hash
                      /\ \A j \in 1 .. k - 1 : Header(j)' /\ (\A i \in j + 1 .. k - 1 : ~Header(i)')
                           => toServer'[k].hash = log'[Idx(j)' + 1].hash
                      /\ Receiving' /\ (\A i \in 1 .. k - 1 : ~Header(i)')
                           => toServer'[k].hash = log'[handler'.index + 1].hash
    BY DEF ContentsOK
  <2>1. k \in Frames /\ toServer'[k] = toServer[k] /\ k - 1 < Len(toServer) /\ k \in Nat
    BY <1>1, <1>2, <1>3
  <2>2. \A i \in 1 .. k - 1 : i \in Frames /\ (Header(i)' <=> Header(i)) /\ Idx(i)' = Idx(i)
    BY <2>1, <1>1, <1>2
  <2>3. /\ toServer[k].kind = "content"
        /\ toServer[k].hash \in Hash
        /\ \A j \in 1 .. k - 1 : Header(j) /\ (\A i \in j + 1 .. k - 1 : ~Header(i))
             => toServer[k].hash = log[Idx(j) + 1].hash
        /\ Receiving /\ (\A i \in 1 .. k - 1 : ~Header(i))
             => toServer[k].hash = log[handler.index + 1].hash
    BY <2>1 DEF Inv, ContentsOK
  <2>4. \A j \in 1 .. k - 1 : Header(j) => log'[Idx(j) + 1].hash = log[Idx(j) + 1].hash
    BY <2>2, <1>4 DEF Inv, HeadersOK
  <2>5. Receiving => log'[handler.index + 1].hash = log[handler.index + 1].hash
    BY <1>4 DEF Inv, HandlerOK, Busy, Receiving
  <2>6. ASSUME NEW j \in 1 .. k - 1, Header(j)', \A i \in j + 1 .. k - 1 : ~Header(i)'
        PROVE  toServer'[k].hash = log'[Idx(j)' + 1].hash
    <3>1. \A i \in j + 1 .. k - 1 : ~Header(i)
      BY <2>6, <2>2, <2>1
    <3>2. QED
      BY <3>1, <2>6, <2>1, <2>2, <2>3, <2>4
  <2>7. QED
    BY <2>1, <2>2, <2>3, <2>5, <2>6, <1>6
<1>10. UploadOK'
  <2> SUFFICES ASSUME Sending' PROVE UploadOK'
    BY DEF UploadOK
  <2>1. Sending /\ consumer'.index = consumer.index /\ UploadOK
    BY DEF Inv
  <2>2. \A k, l \in Frames' : Header(k)' /\ Idx(k)' = consumer'.index /\ l > k => toServer'[l].kind # "content"
    BY <2>1, <1>2, <1>3 DEF UploadOK
  <2>3. Receiving' /\ handler'.index = consumer'.index => \A l \in Frames' : toServer'[l].kind # "content"
    BY <2>1, <1>2, <1>3, <1>6 DEF UploadOK
  <2>4. \A k \in Frames' : Header(k)' /\ (\A l \in k + 1 .. Len(toServer') : ~Header(l)') /\ link' = "up"
              => Idx(k)' = consumer'.index
    <3> SUFFICES ASSUME NEW k \in Frames', Header(k)', \A l \in k + 1 .. Len(toServer') : ~Header(l)', link' = "up"
                 PROVE  Idx(k) = consumer.index
      BY <2>1, <1>2, <1>3
    <3>1. k \in Frames /\ Header(k)
      BY <1>2, <1>3
    <3>2. \A l \in k + 1 .. Len(toServer) : l \in Frames /\ l \in k + 1 .. Len(toServer')
      BY <3>1, <1>1
    <3>3. \A l \in k + 1 .. Len(toServer) : ~Header(l)
      BY <3>2, <1>2
    <3>4. QED
      BY <3>1, <3>3, <2>1 DEF UploadOK
  <2>5. Receiving' /\ (\A k \in Frames' : ~Header(k)') /\ link' = "up" => handler'.index = consumer'.index
    BY <2>1, <1>2, <1>6 DEF UploadOK
  <2>6. handler'.pc \in {"addAction", "execute"} => handler'.index # consumer'.index
    BY <2>1, <1>6 DEF UploadOK
  <2>7. QED
    BY <2>2, <2>3, <2>4, <2>5, <2>6 DEF UploadOK
<1>11. DbOK'
  BY <1>6 DEF Inv, DbOK, dbVars
<1>12. BackupFollowsActions'
  BY ReplayKept DEF Inv, Types, BackupFollowsActions, dbVars
<1>13. QED
  BY <1>7, <1>8, <1>9, <1>10, <1>11, <1>12 DEF Inv

LEMMA NothingWritten ==
  ASSUME Types, toServer' = toServer
  PROVE  QuietWrite
<1>1. Len(toServer) \in Nat
  BY SeqLen DEF Types
<1>2. QED
  BY <1>1 DEF Types, QuietWrite

LEMMA FrameWritten ==
  ASSUME Types, NEW f, WriteToServer(<<f>>), f.kind \notin {"content", "part"},
         f.kind = "action" => f.action = Quit
  PROVE  QuietWrite
<1>1. Len(toServer) \in Nat
  BY SeqLen DEF Types
<1>2. CASE toServer' = toServer
  BY <1>2, NothingWritten
<1>3. CASE /\ Len(toServer') = Len(toServer) + 1
           /\ \A i \in 1 .. Len(toServer) : toServer'[i] = toServer[i]
           /\ toServer'[Len(toServer) + 1] = f
  <2>1. IsSeq(toServer')
    BY Written DEF Types
  <2>2. \A i \in Len(toServer) + 1 .. Len(toServer') : toServer'[i] = f
    BY <1>1, <1>3
  <2>3. QED
    BY <1>1, <1>3, <2>1, <2>2 DEF QuietWrite, Header
<1>4. QED
  BY <1>2, <1>3, Written DEF Types

LEMMA LogUnchanged ==
  ASSUME Types, log' = log
  PROVE  LogKept /\ SameStored
BY DEF Types, LogKept, SameStored


\* The producers, the response consumer and the calendar.
LEMMA QuietThreads ==
  ASSUME Inv, UNCHANGED <<consumer, handler, dbVars, log, current_index>>,
         actions' \in Seq(Action), QuietWrite, link' = "up" => link = "up"
  PROVE  Inv'
<1>1. Types'
  BY DEF Inv, Types, QuietWrite, dbVars
<1>2. ConsumerOK'
  BY DEF Inv, ConsumerOK, Listed, Sending, Indexed, Stored
<1>3. /\ Listed' => Listed /\ consumer'.index = consumer.index
      /\ Sending' => Sending /\ consumer'.index = consumer.index
  BY DEF Listed, Sending
<1>4. LogKept /\ SameStored
  BY LogUnchanged DEF Inv
<1>5. QED
  BY <1>1, <1>2, <1>3, <1>4, QuietStep

LEMMA PushStep ==
  ASSUME Inv, NEW a \in Action, push(a)
  PROVE  Inv'
<1>1. actions' \in Seq(Action)
  BY AppendProperties DEF Inv, Types, push
<1>2. QuietWrite
  BY NothingWritten DEF Inv, push, netVars
<1>3. QED
  BY <1>1, <1>2, QuietThreads DEF push, clientVars, netVars, responseVars

LEMMA UserStep ==
  ASSUME Inv, terminate \/ Disconnect
  PROVE  Inv'
<1>1. QuietWrite
  BY NothingWritten DEF Inv, terminate, Disconnect, netVars
<1>2. /\ actions' = actions /\ (link' = "up" => link = "up")
      /\ UNCHANGED <<consumer, handler, dbVars, log, current_index>>
  BY DEF terminate, Disconnect, clientVars, netVars, responseVars, bufferVars
<1>3. QED
  BY <1>1, <1>2, QuietThreads DEF Inv, Types

LEMMA ResponderStep ==
  ASSUME Inv, ResponseConsumer
  PROVE  Inv'
<1>1. UNCHANGED <<actions, consumer, handler, dbVars, log, link>>
  BY DEF ResponseConsumer, ResponderLoop, ReadResponse, action_restore_date, action_restore_count,
         action_restore_entry, action_restore_remove, action_restore_rename, ResponderThrows,
         ResponderKeeps, bufferVars, netVars
<1>2. current_index' = current_index
  <2>1. ASSUME NEW i, NEW st, Dispatch(i, st) PROVE current_index' = current_index
    <3>1. /\ responses!completed(i) => current_index' = current_index
          /\ responses!receive(i) => current_index' = current_index
          /\ responses!signal_error(i) => current_index' = current_index
          /\ UNCHANGED responseVars => current_index' = current_index
      BY DEF responses!completed, responses!receive, responses!signal_error,
             responses!SetStatus, responseVars
    <3>2. QED
      BY <2>1, <3>1 DEF Dispatch, completed, received, error
  <2>2. ASSUME ReadResponse PROVE current_index' = current_index
    BY <2>1, <2>2 DEF ReadResponse, responseVars
  <2>3. QED
    BY <2>1, <2>2 DEF ResponseConsumer, ResponderLoop, action_restore_date, action_restore_count,
           action_restore_entry, action_restore_remove, action_restore_rename, ResponderThrows,
           responseVars
<1>3. QuietWrite
  <2>1. CASE action_restore_date
    <3>1. PICK f : /\ WriteToServer(<<f>>)
                   /\ f.kind \in {"date", "garbage"}
      BY <2>1 DEF action_restore_date, GarbageFrame
    <3>2. QED
      BY <3>1, FrameWritten DEF Inv
  <2>2. CASE ~action_restore_date
    <3>1. toServer' = toServer
      BY <2>2 DEF ResponseConsumer, ResponderLoop, ReadResponse, action_restore_count,
         action_restore_entry, action_restore_remove, action_restore_rename, ResponderThrows, netVars
    <3>2. QED
      BY <3>1, NothingWritten DEF Inv
  <2>3. QED
    BY <2>1, <2>2
<1>4. QED
  BY <1>1, <1>2, <1>3, QuietThreads DEF Inv, Types

\* The steps of the action consumer that do not touch the log.
LEMMA QuietConsumer ==
  ASSUME Inv, UNCHANGED <<handler, dbVars, log, current_index, link>>,
         actions' \in Seq(Action), QuietWrite, ConsumerOK',
         consumer' \in [pc : ConsumerPcs, action : Action \cup {None}, index : Nat],
         Listed' => Listed /\ consumer'.index = consumer.index,
         Sending' => Sending /\ consumer'.index = consumer.index
  PROVE  Inv'
<1>1. Types'
  BY DEF Inv, Types, QuietWrite, dbVars
<1>2. LogKept /\ SameStored
  BY LogUnchanged DEF Inv
<1>3. QED
  BY <1>1, <1>2, QuietStep

LEMMA ConsumerGoes ==
  ASSUME Types, NEW pc \in ConsumerPcs, ConsumerGoto(pc)
  PROVE  /\ consumer' \in [pc : ConsumerPcs, action : Action \cup {None}, index : Nat]
         /\ consumer'.pc = pc /\ consumer'.index = consumer.index
         /\ consumer'.action = consumer.action
BY DEF Types, ConsumerGoto

LEMMA ConsumerDone ==
  ASSUME ActionDone
  PROVE  /\ consumer' \in [pc : ConsumerPcs, action : Action \cup {None}, index : Nat]
         /\ ~Listed' /\ ~Sending' /\ consumer'.pc # "add"
BY DEF ActionDone, Listed, Sending, ConsumerPcs, ClientPc

LEMMA PopStep ==
  ASSUME Inv, pop
  PROVE  Inv'
<1>1. UNCHANGED <<handler, dbVars, log, current_index, link, toServer>>
  BY DEF pop, OthersKeep, responseVars
<1>2. QuietWrite
  BY <1>1, NothingWritten DEF Inv
<1>3. CASE /\ actions # <<>> /\ actions' = Tail(actions)
           /\ consumer' = [consumer EXCEPT !.pc = "add", !.action = Head(actions)]
  <2>1. Head(actions) \in Action /\ Tail(actions) \in Seq(Action)
    BY <1>3 DEF Inv, Types
  <2>2. /\ consumer' \in [pc : ConsumerPcs, action : Action \cup {None}, index : Nat]
        /\ consumer'.pc = "add" /\ consumer'.action = Head(actions)
    BY <1>3, <2>1 DEF Inv, Types, ConsumerPcs
  <2>3. ~Listed' /\ ~Sending' /\ ConsumerOK'
    BY <2>1, <2>2 DEF Listed, Sending, ConsumerOK
  <2>4. actions' \in Seq(Action)
    BY <1>3, <2>1
  <2>5. QED
    BY <1>1, <1>2, <2>2, <2>3, <2>4, QuietConsumer
<1>4. CASE ConsumerGoto(IF has_exception_occurred THEN "done" ELSE "quit") /\ actions' = actions
  <2>1. PICK pc \in {"done", "quit"} : ConsumerGoto(pc)
    BY <1>4
  <2>2. /\ consumer' \in [pc : ConsumerPcs, action : Action \cup {None}, index : Nat]
        /\ consumer'.pc = pc
    BY <2>1, ConsumerGoes DEF Inv, ConsumerPcs, ClientPc
  <2>3. ~Listed' /\ ~Sending' /\ ConsumerOK'
    BY <2>2 DEF Listed, Sending, ConsumerOK
  <2>4. actions' \in Seq(Action)
    BY <1>4 DEF Inv, Types
  <2>5. QED
    BY <1>1, <1>2, <2>2, <2>3, <2>4, QuietConsumer
<1>5. QED
  BY <1>3, <1>4 DEF pop

LEMMA ConsumerLoopStep ==
  ASSUME Inv, ConsumerLoop
  PROVE  Inv'
<1>1. UNCHANGED <<handler, dbVars, log, current_index, link, toServer, actions>>
  BY DEF ConsumerLoop, ConsumerKeeps, OthersKeep, responseVars, bufferVars
<1>2. QuietWrite
  BY <1>1, NothingWritten DEF Inv
<1>3. PICK pc \in {"done", "pop"} : ConsumerGoto(pc)
  BY DEF ConsumerLoop
<1>4. /\ consumer' \in [pc : ConsumerPcs, action : Action \cup {None}, index : Nat]
      /\ consumer'.pc = pc
  BY <1>3, ConsumerGoes DEF Inv, ConsumerPcs, ClientPc
<1>5. ~Listed' /\ ~Sending' /\ ConsumerOK'
  BY <1>4 DEF Listed, Sending, ConsumerOK
<1>6. actions' \in Seq(Action)
  BY <1>1 DEF Inv, Types
<1>7. QED
  BY <1>1, <1>2, <1>4, <1>5, <1>6, QuietConsumer

LEMMA SizeStep ==
  ASSUME Inv, send_file_size
  PROVE  Inv'
<1>1. UNCHANGED <<handler, dbVars, log, current_index, link, actions>>
  BY DEF send_file_size, ConsumerKeeps, OthersKeep, responseVars, bufferVars
<1>2. QuietWrite
  <2>1. WriteToServer(<<[kind |-> "size"]>>)
    BY DEF send_file_size
  <2>2. QED
    BY <2>1, FrameWritten DEF Inv
<1>3. /\ consumer' \in [pc : ConsumerPcs, action : Action \cup {None}, index : Nat]
      /\ consumer'.pc = "content" /\ consumer'.index = consumer.index
      /\ consumer'.action = consumer.action
  BY ConsumerGoes DEF Inv, send_file_size, ConsumerPcs
<1>4. Sending /\ ~Listed'
  BY <1>3 DEF send_file_size, Sending, Listed
<1>5. ConsumerOK'
  BY <1>1, <1>3, <1>4 DEF Inv, ConsumerOK, Indexed, Stored, Sending, Listed
<1>6. actions' \in Seq(Action)
  BY <1>1 DEF Inv, Types
<1>7. QED
  BY <1>1, <1>2, <1>3, <1>4, <1>5, <1>6, QuietConsumer

LEMMA QuitStep ==
  ASSUME Inv, send_quit
  PROVE  Inv'
<1>1. UNCHANGED <<handler, dbVars, log, current_index, link, actions>>
  BY DEF send_quit, ConsumerKeeps, OthersKeep, responseVars, bufferVars
<1>2. QuietWrite
  <2> DEFINE f == [kind |-> "action", index |-> 0, action |-> Quit]
  <2>1. WriteToServer(<<f>>)
    BY DEF send_quit
  <2>2. f.kind = "action" /\ f.action = Quit
    OBVIOUS
  <2> HIDE DEF f
  <2>3. QED
    BY <2>1, <2>2, FrameWritten DEF Inv
<1>3. /\ consumer' \in [pc : ConsumerPcs, action : Action \cup {None}, index : Nat]
      /\ consumer'.pc = "done"
  BY ConsumerGoes DEF Inv, send_quit, ConsumerPcs, ClientPc
<1>4. ~Listed' /\ ~Sending' /\ ConsumerOK'
  BY <1>3 DEF Listed, Sending, ConsumerOK
<1>5. actions' \in Seq(Action)
  BY <1>1 DEF Inv, Types
<1>6. QED
  BY <1>1, <1>2, <1>3, <1>4, <1>5, QuietConsumer

LEMMA ConsumerThrowsStep ==
  ASSUME Inv, ConsumerThrows
  PROVE  Inv'
<1>1. UNCHANGED <<handler, dbVars, log, current_index, link, toServer, actions>>
  BY DEF ConsumerThrows, OthersKeep, responseVars, bufferVars
<1>2. QuietWrite
  BY <1>1, NothingWritten DEF Inv
<1>3. /\ consumer' \in [pc : ConsumerPcs, action : Action \cup {None}, index : Nat]
      /\ consumer'.pc = "failed"
  BY ConsumerGoes DEF Inv, ConsumerThrows, ConsumerPcs, ClientPc
<1>4. ~Listed' /\ ~Sending' /\ ConsumerOK'
  BY <1>3 DEF Listed, Sending, ConsumerOK
<1>5. actions' \in Seq(Action)
  BY <1>1 DEF Inv, Types
<1>6. QED
  BY <1>1, <1>2, <1>3, <1>4, <1>5, QuietConsumer

-----------------------------------------------------------------------------
\* An action is listed, sent, and its file read: the log grows, and nothing in
\* it is stored yet.

LEMMA AddStep ==
  ASSUME Inv, send_action_add
  PROVE  Inv'
<1> DEFINE e == [action |-> consumer.action, hash |-> None, outcome |-> "none"]
<1>1. /\ UNCHANGED <<handler, dbVars, link, toServer, actions>>
      /\ current_index' = current_index + 1
      /\ consumer' = [consumer EXCEPT !.pc = "check", !.index = current_index]
      /\ consumer.pc = "add"
  BY DEF send_action_add, ConsumerKeeps, OthersKeep, bufferVars, responses!add
<1>2. e \in Entry /\ consumer.action \in Action /\ e.outcome = "none" /\ e.action = consumer.action
  BY <1>1 DEF Inv, ConsumerOK, Entry, Outcome
<1>3. log' = Append(log, e)
  BY DEF send_action_add
<1> HIDE DEF e
<1>4. /\ log' \in Seq(Entry) /\ Len(log) \in Nat /\ Len(log') = Len(log) + 1
      /\ \A i \in 1 .. Len(log) : log'[i] = log[i]
      /\ log'[Len(log) + 1] = e
  BY <1>2, <1>3, LogAppended DEF Inv, Types
<1>5. /\ consumer' \in [pc : ConsumerPcs, action : Action \cup {None}, index : Nat]
      /\ consumer'.pc = "check" /\ consumer'.index = Len(log) /\ consumer'.action = consumer.action
  BY <1>1, <1>4 DEF Inv, Types, ConsumerPcs
<1>6. Types'
  BY <1>1, <1>4, <1>5 DEF Inv, Types, dbVars
<1>7. Listed' /\ ~Sending' /\ ~Listed /\ ~Sending
  BY <1>1, <1>5 DEF Listed, Sending
<1>8. \A i \in 1 .. Len(log') : Stored(i)' <=> i \in 1 .. Len(log) /\ Stored(i)
  BY <1>2, <1>4 DEF Stored
<1>9. \A i, a : Indexed(i, a) => Indexed(i, a)' /\ i + 1 \in 1 .. Len(log) /\ i \in Nat
  BY <1>4 DEF Indexed
<1>10. ConsumerOK'
  <2>1. Indexed(consumer.index, consumer.action)'
    BY <1>2, <1>4, <1>5 DEF Indexed
  <2>2. ~Stored(Len(log))'
    BY <1>4, <1>8
  <2>3. QED
    BY <1>4, <1>5, <1>7, <2>1, <2>2 DEF ConsumerOK
<1>11. HeadersOK'
  <2> SUFFICES ASSUME NEW k \in Frames, Header(k)
               PROVE  /\ Indexed(Idx(k), toServer[k].action)' /\ toServer[k].action.type # "ignore"
                      /\ \A i \in Idx(k) + 1 .. Len(log') : ~Stored(i)'
                      /\ Idx(k) < consumer'.index
                      /\ Busy => handler.index < Idx(k)
                      /\ \A l \in Frames : l > k /\ Header(l) => Idx(k) < Idx(l)
    BY <1>1 DEF HeadersOK, Frames, Header, Idx, Busy
  <2>1. /\ Indexed(Idx(k), toServer[k].action) /\ toServer[k].action.type # "ignore"
        /\ \A i \in Idx(k) + 1 .. Len(log) : ~Stored(i)
        /\ Busy => handler.index < Idx(k)
        /\ \A l \in Frames : l > k /\ Header(l) => Idx(k) < Idx(l)
    BY DEF Inv, HeadersOK
  <2>2. \A i \in Idx(k) + 1 .. Len(log') : ~Stored(i)'
    BY <2>1, <1>4, <1>8, <1>9
  <2>3. Indexed(Idx(k), toServer[k].action)'
    BY <2>1, <1>1, <1>4 DEF Indexed, Idx
  <2>4. Idx(k) < consumer'.index
    BY <2>1, <1>4, <1>5 DEF Indexed
  <2>5. QED
    BY <2>1, <2>2, <2>3, <2>4
<1>12. HandlerOK'
  <2> SUFFICES ASSUME Busy PROVE HandlerOK'
    BY <1>1 DEF HandlerOK, Busy
  <2>1. /\ Indexed(handler.index, handler.action)
        /\ \A i \in handler.index + 1 .. Len(log) : ~Stored(i)
    BY DEF Inv, HandlerOK
  <2>2. Indexed(handler.index, handler.action)' /\ log'[handler.index + 1] = log[handler.index + 1]
    BY <2>1, <1>1, <1>4 DEF Indexed
  <2>3. \A i \in handler'.index + 1 .. Len(log') : ~Stored(i)'
    BY <2>1, <1>1, <1>4, <1>8, <1>9
  <2>4. handler'.index < consumer'.index
    BY <2>1, <1>1, <1>4, <1>5 DEF Indexed
  <2>5. QED
    BY <2>2, <2>3, <2>4, <1>1 DEF Inv, HandlerOK, Receiving
<1>13. ContentsOK'
  <2>1. \A j \in Frames : Header(j) => log'[Idx(j) + 1] = log[Idx(j) + 1]
    BY <1>4, <1>9 DEF Inv, HeadersOK
  <2>2. Receiving => log'[handler.index + 1] = log[handler.index + 1]
    BY <1>4, <1>9 DEF Inv, HandlerOK, Busy, Receiving
  <2>3. /\ \A j : (Header(j)' <=> Header(j)) /\ Idx(j)' = Idx(j)
        /\ Frames' = Frames /\ toServer' = toServer /\ handler' = handler
        /\ Receiving' <=> Receiving
    BY <1>1 DEF Header, Idx, Frames, Receiving
  <2>4. \A k \in Frames : \A j \in 1 .. k - 1 : j \in Frames
    BY SeqLen DEF Inv, Types, Frames
  <2>5. QED
    BY <2>1, <2>2, <2>3, <2>4 DEF Inv, ContentsOK
<1>14. UploadOK'
  BY <1>7 DEF UploadOK
<1>15. DbOK'
  BY <1>1 DEF Inv, DbOK, dbVars, Busy
<1>16. BackupFollowsActions'
  <2>1. Replay(log') = Replay(log)
    <3>1. \A i \in Len(log) + 1 .. Len(log') : log'[i].outcome # "stored"
      BY <1>2, <1>4
    <3>2. /\ log \in Seq(Entry) /\ Len(log) <= Len(log')
          /\ \A i \in 1 .. Len(log) :
               /\ log'[i].outcome = "stored" <=> log[i].outcome = "stored"
               /\ log[i].outcome = "stored" =>
                    log'[i].action = log[i].action /\ log'[i].hash = log[i].hash
      BY <1>4 DEF Inv, Types
    <3>3. QED
      BY <3>1, <3>2, <1>4, ReplaySame
  <2>2. QED
    BY <2>1, <1>1 DEF Inv, BackupFollowsActions, dbVars
<1>17. QED
  BY <1>6, <1>10, <1>11, <1>12, <1>13, <1>14, <1>15, <1>16 DEF Inv

LEMMA CheckStep ==
  ASSUME Inv, send_action_check
  PROVE  Inv'
<1>1. /\ UNCHANGED <<handler, dbVars, link, toServer, actions, current_index>>
      /\ consumer.pc = "check"
  BY DEF send_action_check, ConsumerKeeps, OthersKeep, bufferVars, responseVars,
         responses!completed, responses!signal_error, responses!SetStatus
<1>2. QuietWrite
  BY <1>1, NothingWritten DEF Inv
<1>3. Listed /\ ~Sending
  BY <1>1 DEF Listed, Sending
<1>4. CASE ActionDone /\ \E o \in {"ignored", "refused"} : log' = [log EXCEPT ![consumer.index + 1].outcome = o]
  <2> DEFINE n == consumer.index + 1
  <2>1. PICK o \in {"ignored", "refused"} : log' = [log EXCEPT ![n].outcome = o]
    BY <1>4
  <2>2. n \in 1 .. Len(log) /\ ~Stored(n)
    BY <1>3, LogFields DEF Inv, Types, ConsumerOK, Indexed
  <2> HIDE DEF n
  <2>3. /\ log' \in Seq(Entry) /\ Len(log) \in Nat /\ Len(log') = Len(log)
        /\ \A i \in 1 .. Len(log) :
             /\ log'[i].action = log[i].action /\ log'[i].hash = log[i].hash
             /\ log'[i].outcome = IF i = n THEN o ELSE log[i].outcome
    <3>1. o \in Outcome /\ log \in Seq(Entry)
      BY DEF Outcome, Inv, Types
    <3>2. QED
      BY <3>1, <2>1, <2>2, LogOutcome
  <2>4. LogKept /\ SameStored
    BY <2>2, <2>3 DEF LogKept, SameStored, Stored
  <2>5. /\ consumer' \in [pc : ConsumerPcs, action : Action \cup {None}, index : Nat]
        /\ ~Listed' /\ ~Sending' /\ consumer'.pc # "add"
    BY <1>4, ConsumerDone
  <2>6. ConsumerOK'
    BY <2>5 DEF ConsumerOK, Listed
  <2>7. Types'
    BY <1>1, <1>2, <2>3, <2>5 DEF Inv, Types, dbVars
  <2>8. QED
    BY <1>1, <1>2, <2>4, <2>5, <2>6, <2>7, QuietStep
<1>5. CASE consumer.action.type # "ignore" /\ ConsumerGoto("header") /\ log' = log
  <2>1. /\ consumer' \in [pc : ConsumerPcs, action : Action \cup {None}, index : Nat]
        /\ consumer'.pc = "header" /\ consumer'.index = consumer.index
        /\ consumer'.action = consumer.action
    BY <1>5, ConsumerGoes DEF Inv, ConsumerPcs
  <2>2. Listed' /\ ~Sending'
    BY <2>1 DEF Listed, Sending
  <2>3. ConsumerOK'
    BY <1>3, <1>5, <2>1, <2>2 DEF Inv, ConsumerOK, Indexed, Stored
  <2>4. actions' \in Seq(Action)
    BY <1>1 DEF Inv, Types
  <2>5. QED
    BY <1>1, <1>2, <1>3, <1>5, <2>1, <2>2, <2>3, <2>4, QuietConsumer
<1>6. QED
  BY <1>4, <1>5 DEF send_action_check

LEMMA HeaderStep ==
  ASSUME Inv, send_action_header
  PROVE  Inv'
<1> DEFINE f == [kind |-> "action", index |-> consumer.index, action |-> consumer.action]
<1>0. PICK K : K = Len(toServer) + 1
  OBVIOUS
<1>1. /\ UNCHANGED <<handler, dbVars, log, current_index, link, actions>>
      /\ consumer.pc = "header" /\ Listed
      /\ Len(toServer) \in Nat /\ Len(log) \in Nat
  <2>1. UNCHANGED <<handler, dbVars, log, current_index, link, actions>>
    BY DEF send_action_header, ConsumerKeeps, OthersKeep, responseVars, bufferVars
  <2>2. consumer.pc = "header" /\ Listed
    BY DEF send_action_header, Listed
  <2>3. Len(toServer) \in Nat /\ Len(log) \in Nat
    BY SeqLen, LogFields DEF Inv, Types
  <2>4. QED
    BY <2>1, <2>2, <2>3
<1>2. /\ Indexed(consumer.index, consumer.action) /\ consumer.index + 1 = Len(log)
      /\ ~Stored(Len(log)) /\ consumer.action.type # "ignore" /\ consumer.action \in Action
      /\ consumer.index \in Nat
  BY <1>1 DEF Inv, ConsumerOK, Indexed, Types
<1>3. WriteToServer(<<f>>)
  BY DEF send_action_header
<1>4. f.kind = "action" /\ f.index = consumer.index /\ f.action = consumer.action /\ f.action # Quit
  <2>1. consumer.action # Quit
    BY <1>2 DEF Action, FileAction, Quit
  <2>2. QED
    BY <2>1
<1> HIDE DEF f
<1>5. /\ IsSeq(toServer')
      /\ \/ toServer' = toServer /\ link # "up"
         \/ /\ link = "up" /\ Len(toServer') = K
            /\ \A i \in 1 .. Len(toServer) : toServer'[i] = toServer[i]
            /\ toServer'[K] = f
  BY <1>0, <1>3, Written DEF Inv, Types
<1>6. /\ Len(toServer') \in Nat
      /\ \A k \in Frames : /\ k \in Frames' /\ toServer'[k] = toServer[k]
                           /\ Header(k)' <=> Header(k)
                           /\ Idx(k)' = Idx(k)
      /\ \A k \in Frames' : k \in Frames \/ /\ k = K /\ toServer'[k] = f /\ link = "up"
                                            /\ Header(k)' /\ Idx(k)' = consumer.index
  BY <1>0, <1>1, <1>4, <1>5 DEF Frames, Header, Idx
<1>8. /\ consumer' \in [pc : ConsumerPcs, action : Action \cup {None}, index : Nat]
      /\ ~Listed' /\ consumer'.pc \notin {"add", "header"}
      /\ Sending' => /\ consumer'.index = consumer.index /\ consumer'.action = consumer.action
                     /\ consumer.action.type = "read_file"
  <2>1. CASE consumer.action.type = "read_file" /\ ConsumerGoto("size")
    <3>1. /\ consumer' \in [pc : ConsumerPcs, action : Action \cup {None}, index : Nat]
          /\ consumer'.pc = "size" /\ consumer'.index = consumer.index
          /\ consumer'.action = consumer.action
      BY <2>1, ConsumerGoes DEF Inv, ConsumerPcs
    <3>2. QED
      BY <2>1, <3>1 DEF Listed
  <2>2. CASE ActionDone
    BY <2>2, ConsumerDone DEF Listed
  <2>3. QED
    BY <2>1, <2>2 DEF send_action_header
<1>9. Types'
  BY <1>1, <1>5, <1>8 DEF Inv, Types, dbVars
<1>10. ConsumerOK'
  BY <1>1, <1>2, <1>8 DEF ConsumerOK, Indexed, Stored
<1>11. \A k \in Frames : Header(k) => Idx(k) < consumer.index /\ Idx(k) \in Nat
  BY <1>1 DEF Inv, HeadersOK, Indexed
<1>12. Busy => handler.index < consumer.index
  BY <1>1 DEF Inv, HandlerOK
<1>13. HeadersOK'
  <2> SUFFICES ASSUME NEW k \in Frames', Header(k)'
               PROVE  /\ Indexed(Idx(k)', toServer'[k].action) /\ toServer'[k].action.type # "ignore"
                      /\ \A i \in Idx(k)' + 1 .. Len(log) : ~Stored(i)
                      /\ Busy => handler.index < Idx(k)'
                      /\ \A l \in Frames' : l > k /\ Header(l)' => Idx(k)' < Idx(l)'
    BY <1>1, <1>8 DEF HeadersOK, Busy, Indexed, Stored
  <2>1. CASE k \in Frames
    <3>1. Header(k) /\ Idx(k)' = Idx(k) /\ toServer'[k] = toServer[k]
      BY <2>1, <1>6
    <3>2. /\ Indexed(Idx(k), toServer[k].action) /\ toServer[k].action.type # "ignore"
          /\ \A i \in Idx(k) + 1 .. Len(log) : ~Stored(i)
          /\ Busy => handler.index < Idx(k)
          /\ \A l \in Frames : l > k /\ Header(l) => Idx(k) < Idx(l)
      BY <2>1, <3>1 DEF Inv, HeadersOK
    <3>3. \A l \in Frames' : l > k /\ Header(l)' => Idx(k)' < Idx(l)'
      BY <2>1, <3>1, <3>2, <1>6, <1>11
    <3>4. QED
      BY <3>1, <3>2, <3>3
  <2>2. CASE k = K /\ toServer'[k] = f /\ Idx(k)' = consumer.index
    <3>1. \A i \in Idx(k)' + 1 .. Len(log) : i = Len(log)
      BY <2>2, <1>1, <1>2
    <3>2. \A l \in Frames' : ~(l > k)
      BY <2>2, <1>0, <1>1, <1>5, <1>6 DEF Frames
    <3>3. QED
      BY <2>2, <3>1, <3>2, <1>2, <1>4, <1>12
  <2>3. QED
    BY <2>1, <2>2, <1>6
<1>14. HandlerOK'
  BY <1>1, <1>8 DEF Inv, HandlerOK, Busy, Receiving, Indexed, Stored
<1>15. ContentsOK'
  <2> SUFFICES ASSUME NEW k \in Frames', toServer'[k].kind \in {"content", "part"}
               PROVE  /\ toServer'[k].kind = "content"
                      /\ toServer'[k].hash \in Hash
                      /\ \A j \in 1 .. k - 1 : Header(j)' /\ (\A i \in j + 1 .. k - 1 : ~Header(i)')
                           => toServer'[k].hash = log[Idx(j)' + 1].hash
                      /\ Receiving /\ (\A i \in 1 .. k - 1 : ~Header(i)')
                           => toServer'[k].hash = log[handler.index + 1].hash
    BY <1>1 DEF ContentsOK, Receiving
  <2>1. k \in Frames /\ toServer'[k] = toServer[k] /\ k - 1 < Len(toServer) /\ k \in Nat
    BY <1>1, <1>4, <1>6 DEF Frames
  <2>2. \A i \in 1 .. k - 1 : i \in Frames /\ (Header(i)' <=> Header(i)) /\ Idx(i)' = Idx(i)
    BY <2>1, <1>1, <1>6 DEF Frames
  <2>3. /\ toServer[k].kind = "content"
        /\ toServer[k].hash \in Hash
        /\ \A j \in 1 .. k - 1 : Header(j) /\ (\A i \in j + 1 .. k - 1 : ~Header(i))
             => toServer[k].hash = log[Idx(j) + 1].hash
        /\ Receiving /\ (\A i \in 1 .. k - 1 : ~Header(i))
             => toServer[k].hash = log[handler.index + 1].hash
    BY <2>1 DEF Inv, ContentsOK
  <2>4. \A j \in 1 .. k - 1 : \A i \in j + 1 .. k - 1 : i \in 1 .. k - 1
    BY <2>1
  <2>5. QED
    BY <2>1, <2>2, <2>3, <2>4
<1>16. UploadOK'
  <2> SUFFICES ASSUME Sending' PROVE UploadOK'
    BY DEF UploadOK
  <2>1. consumer'.index = consumer.index
    BY <1>8
  <2>2. \A k \in Frames' : Header(k)' /\ Idx(k)' = consumer.index => k = K /\ K \in Frames'
    BY <1>0, <1>1, <1>6, <1>11, <1>2
  <2>3. \A k, l \in Frames' : Header(k)' /\ Idx(k)' = consumer.index => ~(l > k)
    BY <2>2, <1>0, <1>1, <1>5, <1>6 DEF Frames
  <2>4. link = "up" => K \in Frames' /\ Header(K)'
    BY <1>0, <1>1, <1>4, <1>5 DEF Frames, Header
  <2>5. \A k \in Frames' : Header(k)' /\ (\A l \in k + 1 .. Len(toServer') : ~Header(l)') /\ link = "up"
              => Idx(k)' = consumer.index
    <3> SUFFICES ASSUME NEW k \in Frames', Header(k)', link = "up",
                        \A l \in k + 1 .. Len(toServer') : ~Header(l)'
                 PROVE  Idx(k)' = consumer.index
      OBVIOUS
    <3>1. k \in Nat /\ K \in Nat /\ k <= K /\ Len(toServer') = K
      <4>1. Len(toServer') = K
        BY <1>5
      <4>2. k \in 1 .. K /\ K \in Nat
        BY <4>1, <1>0, <1>1 DEF Frames
      <4>3. QED
        BY <4>1, <4>2
    <3>2. k # K => K \in k + 1 .. Len(toServer')
      BY <3>1
    <3>3. k = K
      BY <3>2, <2>4
    <3>4. K \notin Frames
      BY <1>0, <1>1 DEF Frames
    <3>5. QED
      BY <3>3, <3>4, <1>6
  <2>6. Busy => handler.index # consumer.index
    BY <1>12, <1>2 DEF Inv, HandlerOK, Indexed
  <2>7. (Busy' <=> Busy) /\ (Receiving' => Busy') /\ (handler'.pc \in {"addAction", "execute"} => Busy')
    BY <1>1 DEF Busy, Receiving
  <2>8. QED
    BY <2>1, <2>3, <2>4, <2>5, <2>6, <2>7, <1>1 DEF UploadOK
<1>17. DbOK'
  BY <1>1 DEF Inv, DbOK, dbVars, Busy
<1>18. BackupFollowsActions'
  BY <1>1 DEF Inv, BackupFollowsActions, dbVars
<1>19. QED
  BY <1>9, <1>10, <1>13, <1>14, <1>15, <1>16, <1>17, <1>18 DEF Inv

LEMMA ContentStep ==
  ASSUME Inv, "file_change" \notin Faults, send_file_content
  PROVE  Inv'
<1>0. PICK K : K = Len(toServer) + 1
  OBVIOUS
<1>1. /\ UNCHANGED <<handler, dbVars, current_index, link, actions>>
      /\ Sending /\ ActionDone
      /\ Len(toServer) \in Nat /\ Len(log) \in Nat
  <2>1. UNCHANGED <<handler, dbVars, current_index, link, actions>>
    BY DEF send_file_content, ConsumerKeeps, OthersKeep, responseVars, bufferVars
  <2>2. Sending /\ ActionDone
    BY DEF send_file_content, Sending
  <2>3. Len(toServer) \in Nat /\ Len(log) \in Nat
    BY SeqLen, LogFields DEF Inv, Types
  <2>4. QED
    BY <2>1, <2>2, <2>3
<1>2. PICK h \in Hash : /\ WriteToServer(<<ContentFrame(h)>>)
                        /\ log' = [log EXCEPT ![consumer.index + 1].hash = h]
  BY DEF send_file_content
<1>3. PICK f : f = ContentFrame(h) /\ f.kind = "content" /\ f.hash = h
  <2>1. ContentFrame(h).kind = "content" /\ ContentFrame(h).hash = h
    BY DEF ContentFrame
  <2>2. QED
    BY <2>1
<1>4. /\ IsSeq(toServer')
      /\ \/ toServer' = toServer /\ link # "up"
         \/ /\ link = "up" /\ Len(toServer') = K
            /\ \A i \in 1 .. Len(toServer) : toServer'[i] = toServer[i]
            /\ toServer'[K] = f
  BY <1>0, <1>2, <1>3, Written DEF Inv, Types
<1>5. PICK n : n = consumer.index + 1
  OBVIOUS
<1>6. /\ n = Len(log) /\ n \in 1 .. Len(log) /\ ~Stored(n) /\ consumer.index \in Nat
      /\ log \in Seq(Entry)
  BY <1>1, <1>5 DEF Inv, Types, ConsumerOK, Indexed
<1>7. /\ log' \in Seq(Entry) /\ Len(log') = Len(log)
      /\ \A i \in 1 .. Len(log) :
           /\ log'[i].action = log[i].action /\ log'[i].outcome = log[i].outcome
           /\ log'[i].hash = IF i = n THEN h ELSE log[i].hash
  <2>1. log' = [log EXCEPT ![n].hash = h]
    BY <1>2, <1>5
  <2>2. QED
    BY <2>1, <1>6, LogHash
<1>8. /\ \A k \in Frames : /\ k \in Frames' /\ toServer'[k] = toServer[k]
                           /\ Header(k)' <=> Header(k)
                           /\ Idx(k)' = Idx(k)
      /\ \A k \in Frames' : k \in Frames \/ /\ k = K /\ toServer'[k] = f /\ link = "up"
                                            /\ ~Header(k)'
  <2>1. \A k \in Frames : k \in Frames' /\ toServer'[k] = toServer[k]
    BY <1>0, <1>1, <1>4 DEF Frames
  <2>2. \A k \in Frames' : k \in Frames \/ (k = K /\ toServer'[k] = f /\ link = "up")
    BY <1>0, <1>1, <1>4 DEF Frames
  <2>3. QED
    BY <2>1, <2>2, <1>3 DEF Header, Idx
<1>9. /\ consumer' \in [pc : ConsumerPcs, action : Action \cup {None}, index : Nat]
      /\ ~Listed' /\ ~Sending' /\ consumer'.pc # "add"
  BY <1>1, ConsumerDone
<1>10. Types'
  BY <1>1, <1>4, <1>7, <1>9 DEF Inv, Types, dbVars
<1>11. ConsumerOK'
  BY <1>9 DEF ConsumerOK, Listed
<1>12. \A i, a : Indexed(i, a) => Indexed(i, a)' /\ i \in Nat /\ i + 1 \in 1 .. Len(log)
  BY <1>1, <1>7 DEF Indexed
<1>13. \A i \in 1 .. Len(log) : Stored(i)' <=> Stored(i)
  BY <1>7 DEF Stored
<1>14. HeadersOK'
  <2> SUFFICES ASSUME NEW k \in Frames', Header(k)'
               PROVE  /\ Indexed(Idx(k), toServer[k].action)' /\ toServer'[k].action.type # "ignore"
                      /\ \A i \in Idx(k)' + 1 .. Len(log') : ~Stored(i)'
                      /\ Busy => handler.index < Idx(k)'
                      /\ \A l \in Frames' : l > k /\ Header(l)' => Idx(k)' < Idx(l)'
    BY <1>1, <1>9 DEF HeadersOK, Busy
  <2>1. k \in Frames /\ Header(k) /\ Idx(k)' = Idx(k) /\ toServer'[k] = toServer[k]
    BY <1>8
  <2>2. /\ Indexed(Idx(k), toServer[k].action) /\ toServer[k].action.type # "ignore"
        /\ \A i \in Idx(k) + 1 .. Len(log) : ~Stored(i)
        /\ Busy => handler.index < Idx(k)
        /\ \A l \in Frames : l > k /\ Header(l) => Idx(k) < Idx(l)
    BY <2>1 DEF Inv, HeadersOK
  <2>3. Indexed(Idx(k), toServer[k].action)'
    BY <2>1, <2>2, <1>1, <1>7 DEF Indexed
  <2>4. \A i \in Idx(k)' + 1 .. Len(log') : ~Stored(i)'
    BY <2>1, <2>2, <1>7, <1>12, <1>13
  <2>5. \A l \in Frames' : l > k /\ Header(l)' => Idx(k)' < Idx(l)'
    BY <2>1, <2>2, <1>8
  <2>6. QED
    BY <2>1, <2>2, <2>3, <2>4, <2>5
<1>15. HandlerOK'
  <2> SUFFICES ASSUME Busy PROVE HandlerOK'
    BY <1>1 DEF HandlerOK, Busy
  <2>1. HandlerOK
    BY DEF Inv
  <2>2. Indexed(handler.index, handler.action)'
    BY <2>1, <1>1, <1>7 DEF HandlerOK, Indexed
  <2>3. \A i \in handler'.index + 1 .. Len(log') : ~Stored(i)'
    BY <2>1, <1>1, <1>7, <1>12, <1>13 DEF HandlerOK
  <2>4. handler.pc \in {"addAction", "execute"} => log'[handler.index + 1].hash = log[handler.index + 1].hash
    <3>1. handler.pc \in {"addAction", "execute"} => handler.index # consumer.index
      BY <1>1 DEF Inv, UploadOK
    <3>2. handler.index \in Nat /\ handler.index + 1 \in 1 .. Len(log)
      BY <2>1, <1>12 DEF HandlerOK
    <3>3. QED
      BY <3>1, <3>2, <1>5, <1>6, <1>7
  <2>5. QED
    BY <2>1, <2>2, <2>3, <2>4, <1>1, <1>9 DEF HandlerOK, Receiving
<1>16. ContentsOK'
  <2> SUFFICES ASSUME NEW k \in Frames', toServer'[k].kind \in {"content", "part"}
               PROVE  /\ toServer'[k].kind = "content"
                      /\ toServer'[k].hash \in Hash
                      /\ \A j \in 1 .. k - 1 : Header(j)' /\ (\A i \in j + 1 .. k - 1 : ~Header(i)')
                           => toServer'[k].hash = log'[Idx(j)' + 1].hash
                      /\ Receiving /\ (\A i \in 1 .. k - 1 : ~Header(i)')
                           => toServer'[k].hash = log'[handler.index + 1].hash
    BY <1>1 DEF ContentsOK, Receiving
  <2>1. k \in Nat /\ \A i \in 1 .. k - 1 : i \in Frames /\ (Header(i)' <=> Header(i)) /\ Idx(i)' = Idx(i)
    <3>1. k \in Nat /\ k - 1 <= Len(toServer)
      BY <1>0, <1>1, <1>4, <1>8 DEF Frames
    <3>2. \A i \in 1 .. k - 1 : i \in Frames
      BY <3>1, <1>1 DEF Frames
    <3>3. QED
      BY <3>1, <3>2, <1>8
  <2>2. \A j \in 1 .. k - 1 : \A i \in j + 1 .. k - 1 : i \in 1 .. k - 1
    BY <2>1
  <2>3. \A j \in 1 .. k - 1 : Header(j) => Idx(j) \in Nat /\ Idx(j) + 1 \in 1 .. Len(log)
    BY <2>1, <1>12 DEF Inv, HeadersOK
  <2>4. Receiving => handler.index \in Nat /\ handler.index + 1 \in 1 .. Len(log)
    BY <1>12 DEF Inv, HandlerOK, Busy, Receiving
  <2>5. CASE k \in Frames
    <3>1. toServer'[k] = toServer[k]
      BY <2>5, <1>8
    <3>2. /\ toServer[k].kind = "content"
          /\ toServer[k].hash \in Hash
          /\ \A j \in 1 .. k - 1 : Header(j) /\ (\A i \in j + 1 .. k - 1 : ~Header(i))
               => toServer[k].hash = log[Idx(j) + 1].hash
          /\ Receiving /\ (\A i \in 1 .. k - 1 : ~Header(i))
               => toServer[k].hash = log[handler.index + 1].hash
      BY <2>5, <3>1 DEF Inv, ContentsOK
    <3>3. /\ \A j \in 1 .. k - 1 : Header(j) => Idx(j) # consumer.index
          /\ Receiving => handler.index # consumer.index
      <4>1. \A j \in 1 .. k - 1 : j < k
        BY <2>1
      <4>2. QED
        BY <4>1, <2>1, <2>5, <3>2, <1>1 DEF Inv, UploadOK
    <3>4. /\ \A j \in 1 .. k - 1 : Header(j) => log'[Idx(j) + 1].hash = log[Idx(j) + 1].hash
          /\ Receiving => log'[handler.index + 1].hash = log[handler.index + 1].hash
      <4>1. \A i \in 1 .. Len(log) : i # n => log'[i].hash = log[i].hash
        BY <1>7
      <4>2. \A j \in 1 .. k - 1 : Header(j) => Idx(j) + 1 \in 1 .. Len(log) /\ Idx(j) + 1 # n
        BY <3>3, <2>3, <1>5, <1>6
      <4>3. Receiving => handler.index + 1 \in 1 .. Len(log) /\ handler.index + 1 # n
        BY <3>3, <2>4, <1>5, <1>6
      <4>4. QED
        BY <4>1, <4>2, <4>3
    <3>5. QED
      BY <3>1, <3>2, <3>4, <2>1, <2>2
  <2>6. CASE k = K /\ toServer'[k] = f /\ link = "up"
    <3>1. log'[consumer.index + 1].hash = h
      BY <1>5, <1>6, <1>7
    <3>2. k - 1 = Len(toServer)
      BY <2>6, <1>0, <1>1
    <3>3. /\ \A j \in Frames : Header(j) /\ (\A i \in j + 1 .. k - 1 : ~Header(i)) => Idx(j) = consumer.index
          /\ Receiving /\ (\A i \in Frames : ~Header(i)) => handler.index = consumer.index
      BY <3>2, <2>6, <1>1 DEF Inv, UploadOK
    <3>4. Frames = 1 .. k - 1
      BY <3>2 DEF Frames
    <3>5. QED
      BY <3>1, <3>3, <3>4, <2>1, <2>2, <2>6, <1>3
  <2>7. QED
    BY <2>5, <2>6, <1>8
<1>17. UploadOK'
  BY <1>9 DEF UploadOK
<1>18. DbOK'
  BY <1>1 DEF Inv, DbOK, dbVars, Busy
<1>19. BackupFollowsActions'
  <2>1. Replay(log') = Replay(log)
    <3>1. /\ Len(log) <= Len(log')
          /\ \A i \in 1 .. Len(log) :
               /\ log'[i].outcome = "stored" <=> log[i].outcome = "stored"
               /\ log[i].outcome = "stored" =>
                    log'[i].action = log[i].action /\ log'[i].hash = log[i].hash
      BY <1>1, <1>6, <1>7 DEF Stored
    <3>2. \A i \in Len(log) + 1 .. Len(log') : log'[i].outcome # "stored"
      BY <1>1, <1>7
    <3>3. QED
      BY <3>1, <3>2, <1>6, <1>7, ReplaySame
  <2>2. QED
    BY <2>1, <1>1 DEF Inv, BackupFollowsActions, dbVars
<1>20. QED
  BY <1>10, <1>11, <1>14, <1>15, <1>16, <1>17, <1>18, <1>19 DEF Inv

-----------------------------------------------------------------------------
\* The handler takes the first d frames off the connection.

Shift(d) ==
  /\ IsSeq(toServer') /\ Len(toServer) \in Nat /\ Len(toServer') \in Nat
  /\ Len(toServer) = Len(toServer') + d
  /\ \A k \in 1 .. Len(toServer') : toServer'[k] = toServer[k + d]

LEMMA NoneTaken ==
  ASSUME Types, toServer' = toServer
  PROVE  Shift(0)
<1>1. Len(toServer) \in Nat
  BY SeqLen DEF Types
<1>2. QED
  BY <1>1 DEF Types, Shift

LEMMA OneTaken ==
  ASSUME Types, ReadFrame
  PROVE  Shift(1) /\ 1 \in Frames /\ Input = toServer[1]
<1>1. /\ IsSeq(toServer') /\ Len(toServer) \in Nat /\ Len(toServer) >= 1
      /\ Len(toServer') = Len(toServer) - 1
      /\ \A i \in 1 .. Len(toServer') : toServer'[i] = toServer[i + 1]
      /\ Input = toServer[1]
  BY FrameRead DEF Types
<1>2. QED
  BY <1>1 DEF Shift, Frames

LEMMA Shifted ==
  ASSUME NEW d \in Nat, Shift(d)
  PROVE  \A k \in Frames' :
           /\ k \in Nat /\ k + d \in Frames /\ k + d > d /\ toServer'[k] = toServer[k + d]
           /\ Header(k)' <=> Header(k + d)
           /\ Idx(k)' = Idx(k + d)
<1>1. \A k \in Frames' :
        k \in Nat /\ k + d \in Frames /\ k + d > d /\ toServer'[k] = toServer[k + d]
  BY DEF Shift, Frames
<1>2. QED
  BY <1>1 DEF Header, Idx

LEMMA ShiftHeaders ==
  ASSUME Inv, NEW d \in Nat, Shift(d), LogKept, consumer' = consumer,
         Busy' => \A k \in Frames : k > d /\ Header(k) => handler'.index < Idx(k),
         \A i \in 1 .. Len(log) : Stored(i)' =>
           Stored(i) \/ \A k \in Frames : k > d /\ Header(k) => i <= Idx(k)
  PROVE  HeadersOK'
<1> SUFFICES ASSUME NEW k \in Frames', Header(k)'
             PROVE  /\ Indexed(Idx(k), toServer[k].action)' /\ toServer'[k].action.type # "ignore"
                    /\ \A i \in Idx(k)' + 1 .. Len(log') : ~Stored(i)'
                    /\ Listed' => Idx(k)' < consumer'.index
                    /\ Busy' => handler'.index < Idx(k)'
                    /\ \A l \in Frames' : l > k /\ Header(l)' => Idx(k)' < Idx(l)'
  BY DEF HeadersOK
<1>1. PICK m : m = k + d
  OBVIOUS
<1>2. /\ m \in Frames /\ Header(m) /\ Idx(k)' = Idx(m) /\ toServer'[k] = toServer[m] /\ m > d
  BY <1>1, Shifted
<1>3. /\ Indexed(Idx(m), toServer[m].action) /\ toServer[m].action.type # "ignore"
      /\ \A i \in Idx(m) + 1 .. Len(log) : ~Stored(i)
      /\ Listed => Idx(m) < consumer.index
      /\ \A l \in Frames : l > m /\ Header(l) => Idx(m) < Idx(l)
  BY <1>2 DEF Inv, HeadersOK
<1>4. Len(log) \in Nat /\ Idx(m) \in Nat
  BY <1>3, LogFields DEF Inv, Types, Indexed
<1>5. Indexed(Idx(k), toServer[k].action)'
  BY <1>2, <1>3, <1>4 DEF Indexed, LogKept
<1>6. \A i \in Idx(k)' + 1 .. Len(log') : ~Stored(i)'
  <2> SUFFICES ASSUME NEW i \in Idx(k)' + 1 .. Len(log'), Stored(i)' PROVE FALSE
    OBVIOUS
  <2>1. i \in Idx(m) + 1 .. Len(log) /\ i \in 1 .. Len(log) /\ ~(i <= Idx(m))
    BY <1>2, <1>4 DEF LogKept
  <2>2. QED
    BY <2>1, <1>2, <1>3
<1>7. \A l \in Frames' : l > k /\ Header(l)' => Idx(k)' < Idx(l)'
  <2> SUFFICES ASSUME NEW l \in Frames', l > k, Header(l)' PROVE Idx(k)' < Idx(l)'
    OBVIOUS
  <2>1. /\ l + d \in Frames /\ Header(l + d) /\ Idx(l)' = Idx(l + d) /\ l \in Nat /\ k \in Nat
    BY Shifted
  <2>2. l + d > m
    BY <2>1, <1>1
  <2>3. QED
    BY <2>1, <2>2, <1>2, <1>3
<1>8. QED
  BY <1>2, <1>3, <1>5, <1>6, <1>7 DEF Listed

LEMMA ShiftContents ==
  ASSUME Inv, NEW d \in Nat, Shift(d), LogKept,
         Receiving' => \A k \in Frames :
           k > d /\ toServer[k].kind = "content" /\ (\A i \in d + 1 .. k - 1 : ~Header(i))
             => toServer[k].hash = log[handler'.index + 1].hash /\ handler'.index + 1 \in 1 .. Len(log)
  PROVE  ContentsOK'
<1> SUFFICES ASSUME NEW k \in Frames', toServer'[k].kind \in {"content", "part"}
             PROVE  /\ toServer'[k].kind = "content"
                    /\ toServer'[k].hash \in Hash
                    /\ \A j \in 1 .. k - 1 : Header(j)' /\ (\A i \in j + 1 .. k - 1 : ~Header(i)')
                         => toServer'[k].hash = log'[Idx(j)' + 1].hash
                    /\ Receiving' /\ (\A i \in 1 .. k - 1 : ~Header(i)')
                         => toServer'[k].hash = log'[handler'.index + 1].hash
  BY DEF ContentsOK
<1>1. PICK m : m = k + d
  OBVIOUS
<1>2. /\ m \in Frames /\ toServer'[k] = toServer[m] /\ m > d /\ k \in Nat /\ m \in Nat
  BY <1>1, Shifted
<1>3. /\ toServer[m].kind = "content" /\ toServer[m].hash \in Hash
      /\ \A j \in 1 .. m - 1 : Header(j) /\ (\A i \in j + 1 .. m - 1 : ~Header(i))
           => toServer[m].hash = log[Idx(j) + 1].hash
  BY <1>2 DEF Inv, ContentsOK
<1>4. \A i \in 1 .. k - 1 : i \in Frames' /\ i + d \in Frames
  BY <1>2, Shifted DEF Frames, Shift
<1>5. \A i \in 1 .. k - 1 : (Header(i)' <=> Header(i + d)) /\ Idx(i)' = Idx(i + d)
  BY <1>4, Shifted
<1>6. ASSUME NEW j \in 1 .. k - 1, Header(j)', \A i \in j + 1 .. k - 1 : ~Header(i)'
      PROVE  toServer'[k].hash = log'[Idx(j)' + 1].hash
  <2>1. j + d \in 1 .. m - 1 /\ Header(j + d) /\ Idx(j)' = Idx(j + d) /\ j + d \in Frames
    BY <1>1, <1>2, <1>4, <1>5, <1>6
  <2>2. ASSUME NEW i \in j + d + 1 .. m - 1 PROVE ~Header(i)
    <3>1. i - d \in j + 1 .. k - 1 /\ i - d \in 1 .. k - 1 /\ (i - d) + d = i
      BY <1>1, <1>2
    <3>2. QED
      BY <3>1, <1>5, <1>6
  <2>3. toServer[m].hash = log[Idx(j + d) + 1].hash
    BY <2>1, <2>2, <1>3
  <2>4. Idx(j + d) + 1 \in 1 .. Len(log)
    BY <2>1, LogFields DEF Inv, Types, HeadersOK, Indexed
  <2>5. QED
    BY <2>1, <2>3, <2>4, <1>2 DEF LogKept
<1>7. ASSUME Receiving', \A i \in 1 .. k - 1 : ~Header(i)'
      PROVE  toServer'[k].hash = log'[handler'.index + 1].hash
  <2>1. ASSUME NEW i \in d + 1 .. m - 1 PROVE ~Header(i)
    <3>1. i - d \in 1 .. k - 1 /\ (i - d) + d = i
      BY <1>1, <1>2
    <3>2. QED
      BY <3>1, <1>5, <1>7
  <2>2. toServer[m].hash = log[handler'.index + 1].hash /\ handler'.index + 1 \in 1 .. Len(log)
    BY <2>1, <1>2, <1>3, <1>7
  <2>3. QED
    BY <2>2, <1>2 DEF LogKept
<1>8. QED
  BY <1>2, <1>3, <1>6, <1>7

LEMMA ShiftUpload ==
  ASSUME Inv, NEW d \in Nat, Shift(d), consumer' = consumer, link' = "up" => link = "up",
         Sending =>
           /\ Receiving' /\ handler'.index = consumer.index =>
                \A l \in Frames : l > d => toServer[l].kind # "content"
           /\ handler'.pc \in {"addAction", "execute"} => handler'.index # consumer.index
           /\ link = "up" /\ Receiving' /\ (\A k \in Frames : k > d => ~Header(k)) =>
                handler'.index = consumer.index
  PROVE  UploadOK'
<1> SUFFICES ASSUME Sending PROVE UploadOK'
  BY DEF UploadOK, Sending
<1>1. /\ \A k, l \in Frames : Header(k) /\ Idx(k) = consumer.index /\ l > k => toServer[l].kind # "content"
      /\ link = "up" => \A k \in Frames : Header(k) /\ (\A l \in k + 1 .. Len(toServer) : ~Header(l))
              => Idx(k) = consumer.index
  BY DEF Inv, UploadOK
<1>2. \A k \in Frames' : /\ k \in Nat /\ k + d \in Frames /\ toServer'[k] = toServer[k + d]
                         /\ k + d > d
                         /\ Header(k)' <=> Header(k + d)
                         /\ Idx(k)' = Idx(k + d)
  BY Shifted
<1>3. \A k, l \in Frames' : Header(k)' /\ Idx(k)' = consumer'.index /\ l > k => toServer'[l].kind # "content"
  BY <1>1, <1>2
<1>4. Receiving' /\ handler'.index = consumer'.index => \A l \in Frames' : toServer'[l].kind # "content"
  BY <1>2
<1>5. ASSUME NEW k \in Frames', Header(k)', \A l \in k + 1 .. Len(toServer') : ~Header(l)', link' = "up"
      PROVE  Idx(k)' = consumer'.index
  <2>1. ASSUME NEW l \in k + d + 1 .. Len(toServer) PROVE ~Header(l)
    <3>1. l - d \in k + 1 .. Len(toServer') /\ l - d \in Frames' /\ (l - d) + d = l
      BY <1>2 DEF Shift, Frames
    <3>2. QED
      BY <3>1, <1>2, <1>5
  <2>2. k + d \in Frames /\ Header(k + d) /\ Idx(k)' = Idx(k + d)
    BY <1>2, <1>5
  <2>3. QED
    BY <2>1, <2>2, <1>1, <1>5
<1>6. ASSUME link' = "up", Receiving', \A k \in Frames' : ~Header(k)'
      PROVE  handler'.index = consumer'.index
  <2>1. ASSUME NEW k \in Frames, k > d PROVE ~Header(k)
    <3>1. k - d \in Frames' /\ (k - d) + d = k
      BY <2>1 DEF Shift, Frames
    <3>2. QED
      BY <3>1, <1>2, <1>6
  <2>2. QED
    BY <2>1, <1>6
<1>7. QED
  BY <1>3, <1>4, <1>5, <1>6 DEF UploadOK

-----------------------------------------------------------------------------
\* The handler is done with an action, or gives it up.

LEMMA ConsumerKept ==
  ASSUME Inv, consumer' = consumer, LogKept,
         Listed \/ Sending => ~Stored(Len(log))'
  PROVE  ConsumerOK'
<1>1. Len(log') = Len(log) /\ Len(log) \in Nat
  BY LogFields DEF Inv, Types, LogKept
<1>2. Indexed(consumer.index, consumer.action) => Indexed(consumer.index, consumer.action)'
  BY <1>1 DEF Indexed, LogKept
<1>3. QED
  BY <1>1, <1>2 DEF Inv, ConsumerOK, Listed, Sending

LEMMA HandlerDone ==
  ASSUME Inv, NEW d \in Nat, Shift(d), ~Busy', Types', DbOK', BackupFollowsActions',
         consumer' = consumer, link' = "up" => link = "up", LogKept,
         \A i \in 1 .. Len(log) :
           Stored(i)' => Stored(i) \/ (handler.pc = "execute" /\ i = handler.index + 1)
  PROVE  Inv'
<1>1. ~Receiving' /\ handler'.pc \notin {"addAction", "execute"}
  BY DEF Busy, Receiving
<1>2. Len(log) \in Nat /\ (handler.pc = "execute" => Busy)
  BY LogFields DEF Inv, Types, Busy
<1>3. Listed \/ Sending => ~Stored(Len(log))'
  <2> SUFFICES ASSUME Listed \/ Sending, Stored(Len(log))' PROVE FALSE
    OBVIOUS
  <2>1. PICK n \in 1 .. Len(log) : /\ consumer.index + 1 = n /\ consumer.index \in Nat
                                  /\ ~Stored(n) /\ Stored(n)'
    BY <1>2 DEF Inv, ConsumerOK, Indexed, LogKept, Stored
  <2>2. handler.pc = "execute" /\ n = handler.index + 1 /\ handler.index \in Nat
    BY <1>2, <2>1 DEF Inv, HandlerOK, Indexed
  <2>3. handler.index = consumer.index
    BY <2>1, <2>2
  <2>4. QED
    BY <1>2, <2>2, <2>3 DEF Inv, HandlerOK, UploadOK, Indexed
<1>4. ConsumerOK'
  BY <1>3, ConsumerKept
<1>5. HeadersOK'
  <2>1. ASSUME NEW i \in 1 .. Len(log), Stored(i)', ~Stored(i), NEW k \in Frames, Header(k)
        PROVE  i <= Idx(k)
    <3>1. Busy /\ i = handler.index + 1
      BY <1>2, <2>1
    <3>2. handler.index < Idx(k) /\ handler.index \in Nat /\ Idx(k) \in Nat
      BY <2>1, <3>1, <1>2 DEF Inv, HandlerOK, HeadersOK, Indexed
    <3>3. QED
      BY <3>1, <3>2
  <2>2. QED
    BY <2>1, ShiftHeaders
<1>6. HandlerOK'
  BY DEF HandlerOK
<1>7. ContentsOK'
  BY <1>1, ShiftContents
<1>8. UploadOK'
  BY <1>1, ShiftUpload
<1>9. QED
  BY <1>4, <1>5, <1>6, <1>7, <1>8 DEF Inv

\* The same, when the database is left alone.
LEMMA HandlerGivesUp ==
  ASSUME Inv, NEW d \in Nat, Shift(d), ~Busy', UNCHANGED <<consumer, actions, current_index>>,
         UNCHANGED <<backup, edited, today>>,
         handler' \in [pc : HandlerPcs, index : Nat, action : Action \cup {None}, hash : Hash \cup {None}],
         current_date' \in [{"handler"} -> Day \cup {None}],
         req' \in [{"handler"} -> Request \cup {None}],
         link' = "up" => link = "up", LogKept, SameStored
  PROVE  Inv'
<1>1. Types'
  BY DEF Inv, Types, LogKept, Shift
<1>2. DbOK'
  BY DEF Inv, DbOK, Busy
<1>3. BackupFollowsActions'
  BY ReplayKept DEF Inv, Types, BackupFollowsActions
<1>4. \A i \in 1 .. Len(log) : Stored(i)' => Stored(i)
  BY DEF SameStored, Stored
<1>5. QED
  BY <1>1, <1>2, <1>3, <1>4, HandlerDone

LEMMA HandlerKept ==
  ASSUME HandlerKeeps
  PROVE  UNCHANGED <<consumer, actions, current_index>>
BY DEF HandlerKeeps, bufferVars, clientVars, responseVars

LEMMA HandlerGoes ==
  ASSUME Types, NEW pc \in HandlerPcs, handler' = [handler EXCEPT !.pc = pc]
  PROVE  /\ handler' \in [pc : HandlerPcs, index : Nat, action : Action \cup {None},
                          hash : Hash \cup {None}]
         /\ handler'.pc = pc /\ handler'.index = handler.index
         /\ handler'.action = handler.action /\ handler'.hash = handler.hash
BY DEF Types

LEMMA HandlerReads ==
  ASSUME ToRead
  PROVE  /\ handler' \in [pc : HandlerPcs, index : Nat, action : Action \cup {None},
                          hash : Hash \cup {None}]
         /\ handler'.pc = "read"
BY DEF ToRead, HandlerPcs

LEMMA DbLeft ==
  ASSUME Types, db!Leave("handler")
  PROVE  /\ UNCHANGED <<backup, edited, today, req>>
         /\ current_date' \in [{"handler"} -> Day \cup {None}]
         /\ current_date'["handler"] = None
BY DEF Types, db!Leave

LEMMA HandlerThrowsStep ==
  ASSUME Inv, HandlerThrows
  PROVE  Inv'
<1>1. /\ UNCHANGED <<toServer, link, log>>
      /\ UNCHANGED <<consumer, actions, current_index>>
  BY HandlerKept DEF HandlerThrows
<1>2. Shift(0)
  BY <1>1, NoneTaken DEF Inv
<1>3. /\ handler' \in [pc : HandlerPcs, index : Nat, action : Action \cup {None}, hash : Hash \cup {None}]
      /\ ~Busy'
  BY DEF HandlerThrows, Busy, HandlerPcs
<1>4. /\ UNCHANGED <<backup, edited, today, req>>
      /\ current_date' \in [{"handler"} -> Day \cup {None}]
  <2>1. CASE UNCHANGED dbVars
    BY <2>1 DEF Inv, Types, dbVars
  <2>2. CASE db!Leave("handler")
    BY <2>2, DbLeft DEF Inv
  <2>3. QED
    BY <2>1, <2>2 DEF HandlerThrows
<1>5. LogKept /\ SameStored
  BY <1>1, LogUnchanged DEF Inv
<1>6. req' \in [{"handler"} -> Request \cup {None}]
  BY <1>4 DEF Inv, Types
<1>7. QED
  BY <1>1, <1>2, <1>3, <1>4, <1>5, <1>6, HandlerGivesUp

\* What is read is not what was expected.
LEMMA GarbledStep ==
  ASSUME Inv, ReadFrame, handler' = [handler EXCEPT !.pc = "garbled"],
         UNCHANGED <<link, dbVars, log>>, HandlerKeeps
  PROVE  Inv'
<1>1. UNCHANGED <<consumer, actions, current_index>>
  BY HandlerKept
<1>2. Shift(1)
  BY OneTaken DEF Inv
<1>3. /\ handler' \in [pc : HandlerPcs, index : Nat, action : Action \cup {None}, hash : Hash \cup {None}]
      /\ handler'.pc = "garbled"
  BY HandlerGoes DEF Inv, HandlerPcs
<1>4. ~Busy'
  BY <1>3 DEF Busy
<1>5. LogKept /\ SameStored
  BY LogUnchanged DEF Inv
<1>6. /\ UNCHANGED <<backup, edited, today>>
      /\ req' \in [{"handler"} -> Request \cup {None}]
      /\ current_date' \in [{"handler"} -> Day \cup {None}]
  BY DEF Inv, Types, dbVars
<1>7. QED
  BY <1>1, <1>2, <1>3, <1>4, <1>5, <1>6, HandlerGivesUp

\* A restore is answered.
LEMMA RestoreStep ==
  ASSUME Inv, action_restore
  PROVE  Inv'
<1>1. /\ UNCHANGED link /\ handler.pc = "date"
      /\ UNCHANGED <<consumer, actions, current_index>>
      /\ ReadFrame
      /\ UNCHANGED <<backup, edited, today, req>>
      /\ current_date' \in [{"handler"} -> Day \cup {None}]
  BY HandlerKept, DbLeft DEF Inv, action_restore
<1>2. Shift(1)
  BY <1>1, OneTaken DEF Inv
<1>3. /\ handler' \in [pc : HandlerPcs, index : Nat, action : Action \cup {None}, hash : Hash \cup {None}]
      /\ ~Busy'
  <2>1. CASE ToRead
    BY <2>1, HandlerReads DEF Busy
  <2>2. CASE handler' = [handler EXCEPT !.pc = "garbled"]
    <3>1. "garbled" \in HandlerPcs
      BY DEF HandlerPcs
    <3>2. QED
      BY <2>2, <3>1, HandlerGoes DEF Inv, Busy
  <2>3. QED
    BY <2>1, <2>2 DEF action_restore
<1>4. LogKept /\ SameStored
  <2>1. CASE log' = log
    BY <2>1, LogUnchanged DEF Inv
  <2>2. CASE \E o \in {"served", "refused"} : log' = [log EXCEPT ![handler.index + 1].outcome = o]
    <3> DEFINE n == handler.index + 1
    <3>1. PICK o \in {"served", "refused"} : log' = [log EXCEPT ![n].outcome = o]
      BY <2>2
    <3>2. n \in 1 .. Len(log) /\ Busy
      BY <1>1, LogFields DEF Inv, Types, HandlerOK, Busy, Indexed
    <3>3. \A i \in n .. Len(log) : ~Stored(i)
      BY <3>2 DEF Inv, HandlerOK
    <3>4. n \in n .. Len(log)
      BY <3>2
    <3> HIDE DEF n
    <3>5. o \in Outcome /\ log \in Seq(Entry)
      BY DEF Outcome, Inv, Types
    <3>6. /\ log' \in Seq(Entry) /\ Len(log') = Len(log)
          /\ \A i \in 1 .. Len(log) :
               /\ log'[i].action = log[i].action /\ log'[i].hash = log[i].hash
               /\ log'[i].outcome = IF i = n THEN o ELSE log[i].outcome
      BY <3>1, <3>2, <3>5, LogOutcome
    <3>7. QED
      BY <3>3, <3>4, <3>6 DEF LogKept, SameStored, Stored
  <2>3. QED
    BY <2>1, <2>2 DEF action_restore
<1>5. req' \in [{"handler"} -> Request \cup {None}]
  BY <1>1 DEF Inv, Types
<1>6. QED
  BY <1>1, <1>2, <1>3, <1>4, <1>5, HandlerGivesUp

-----------------------------------------------------------------------------
\* The handler takes an action, and its file.

LEMMA ReadHeaderStep ==
  ASSUME Inv, ReadFrame, Input.kind = "action", Input.action # Quit, db!Begin("handler"),
         handler' = [handler EXCEPT
           !.index = Input.index, !.action = Input.action,
           !.pc = CASE Input.action.type = "read_file" -> "size"
                    [] Input.action.type = "restore"   -> "date"
                    [] OTHER                           -> "addAction"],
         handler.pc = "read", UNCHANGED <<link, log>>, HandlerKeeps
  PROVE  Inv'
<1>1. /\ UNCHANGED <<consumer, actions, current_index>>
      /\ Shift(1) /\ 1 \in Frames /\ Input = toServer[1]
  BY HandlerKept, OneTaken DEF Inv
<1>2. Header(1) /\ Idx(1) = Input.index
  BY <1>1 DEF Header, Idx
<1>3. /\ Indexed(Idx(1), Input.action) /\ Input.action.type # "ignore"
      /\ \A i \in Idx(1) + 1 .. Len(log) : ~Stored(i)
      /\ Listed => Idx(1) < consumer.index
      /\ \A l \in Frames : l > 1 /\ Header(l) => Idx(1) < Idx(l)
  BY <1>1, <1>2 DEF Inv, HeadersOK
<1>4. /\ Idx(1) \in Nat /\ Input.action \in Action /\ Idx(1) + 1 \in 1 .. Len(log) /\ Len(log) \in Nat
  BY <1>3, LogFields DEF Inv, Types, Indexed
<1>5. PICK pc \in {"size", "date", "addAction"} :
        /\ handler' = [handler EXCEPT !.index = Input.index, !.action = Input.action, !.pc = pc]
        /\ pc = "size" <=> Input.action.type = "read_file"
        /\ pc = "addAction" => Input.action.type \notin {"read_file", "restore"}
  OBVIOUS
<1>6. /\ handler' \in [pc : HandlerPcs, index : Nat, action : Action \cup {None}, hash : Hash \cup {None}]
      /\ handler'.pc = pc /\ handler'.index = Idx(1) /\ handler'.action = Input.action
  <2>1. PICK i, a : i = Input.index /\ a = Input.action
    OBVIOUS
  <2>2. handler' = [handler EXCEPT !.index = i, !.action = a, !.pc = pc]
    BY <1>5, <2>1
  <2>3. i \in Nat /\ a \in Action /\ pc \in HandlerPcs
    BY <1>2, <1>4, <2>1 DEF HandlerPcs
  <2>4. handler \in [pc : HandlerPcs, index : Nat, action : Action \cup {None}, hash : Hash \cup {None}]
    BY DEF Inv, Types
  <2>5. QED
    BY <2>1, <2>2, <2>3, <2>4, <1>2
<1>7. Busy' /\ (Receiving' <=> pc = "size")
  BY <1>6 DEF Busy, Receiving
<1>8. LogKept /\ SameStored
  BY LogUnchanged DEF Inv
<1>9. /\ UNCHANGED <<backup, edited, today, req>>
      /\ current_date' \in [{"handler"} -> Day \cup {None}] /\ current_date'["handler"] = today
  BY DEF Inv, Types, db!Begin
<1>10. Types'
  BY <1>1, <1>6, <1>9 DEF Inv, Types, Shift
<1>11. ConsumerOK'
  BY <1>1, <1>8, ConsumerKept DEF Inv, ConsumerOK, Stored
<1>12. HeadersOK'
  BY <1>1, <1>3, <1>6, <1>8, ShiftHeaders DEF Stored
<1>13. HandlerOK'
  <2>1. pc = "addAction" => Input.action.type \in {"create_folder", "delete_path"}
    BY <1>3, <1>4, <1>5 DEF Action, FileAction
  <2>2. Indexed(handler.index, handler.action)'
    BY <1>3, <1>6 DEF Indexed
  <2>3. \A i \in handler'.index + 1 .. Len(log') : ~Stored(i)'
    BY <1>3, <1>6 DEF Stored
  <2>4. QED
    BY <2>1, <2>2, <2>3, <1>1, <1>3, <1>5, <1>6, <1>7 DEF HandlerOK, Listed
<1>14. ContentsOK'
  <2>1. ASSUME NEW k \in Frames, k > 1, toServer[k].kind = "content",
               \A i \in 1 + 1 .. k - 1 : ~Header(i)
        PROVE  toServer[k].hash = log[Idx(1) + 1].hash
    <3>1. 1 \in 1 .. k - 1
      BY <2>1 DEF Frames
    <3>2. QED
      BY <3>1, <2>1, <1>2 DEF Inv, ContentsOK
  <2>2. QED
    BY <2>1, <1>1, <1>4, <1>6, <1>8, ShiftContents
<1>15. UploadOK'
  <2>1. ASSUME Sending, Idx(1) = consumer.index
        PROVE  \A l \in Frames : l > 1 => toServer[l].kind # "content"
    BY <2>1, <1>1, <1>2 DEF Inv, UploadOK
  <2>2. ASSUME Sending, pc = "addAction"
        PROVE  Idx(1) # consumer.index
    BY <2>2, <1>3, <1>5 DEF Inv, ConsumerOK, Indexed
  <2>3. ASSUME Sending, link = "up", \A k \in Frames : k > 1 => ~Header(k)
        PROVE  Idx(1) = consumer.index
    <3>1. \A l \in 1 + 1 .. Len(toServer) : ~Header(l)
      BY <2>3 DEF Frames
    <3>2. QED
      BY <3>1, <2>3, <1>1, <1>2 DEF Inv, UploadOK
  <2>4. handler'.pc \in {"addAction", "execute"} => pc = "addAction"
    BY <1>5, <1>6
  <2>5. QED
    BY <2>1, <2>2, <2>3, <2>4, <1>1, <1>6, ShiftUpload
<1>16. DbOK'
  <2>1. today \in Nat
    BY DEF Inv, Types, Day
  <2>2. QED
    BY <2>1, <1>5, <1>6, <1>9 DEF Inv, Types, DbOK
<1>17. BackupFollowsActions'
  BY <1>9 DEF Inv, BackupFollowsActions
<1>18. QED
  BY <1>10, <1>11, <1>12, <1>13, <1>14, <1>15, <1>16, <1>17 DEF Inv

LEMMA ReadActionStep ==
  ASSUME Inv, read_action
  PROVE  Inv'
<1>1. UNCHANGED <<log>> /\ HandlerKeeps /\ ReadFrame /\ handler.pc = "read"
  BY DEF read_action
<1>2. CASE /\ Input.kind = "action" /\ Input.action # Quit
           /\ db!Begin("handler") /\ UNCHANGED link
           /\ handler' = [handler EXCEPT
                !.index = Input.index, !.action = Input.action,
                !.pc = CASE Input.action.type = "read_file" -> "size"
                         [] Input.action.type = "restore"   -> "date"
                         [] OTHER                           -> "addAction"]
  BY <1>1, <1>2, ReadHeaderStep
<1>3. CASE /\ handler' = [handler EXCEPT !.pc = "closed"]
           /\ link' = IF link = "up" THEN "closed" ELSE link
           /\ UNCHANGED dbVars
  <2>1. UNCHANGED <<consumer, actions, current_index>> /\ Shift(1)
    BY <1>1, HandlerKept, OneTaken DEF Inv
  <2>2. /\ handler' \in [pc : HandlerPcs, index : Nat, action : Action \cup {None}, hash : Hash \cup {None}]
        /\ handler'.pc = "closed"
    BY <1>3, HandlerGoes DEF Inv, HandlerPcs
  <2>3. ~Busy'
    BY <2>2 DEF Busy
  <2>4. LogKept /\ SameStored
    BY <1>1, LogUnchanged DEF Inv
  <2>5. /\ UNCHANGED <<backup, edited, today>>
        /\ req' \in [{"handler"} -> Request \cup {None}]
        /\ current_date' \in [{"handler"} -> Day \cup {None}]
    BY <1>3 DEF Inv, Types, dbVars
  <2>6. link' = "up" => link = "up"
    BY <1>3
  <2>7. QED
    BY <2>1, <2>2, <2>3, <2>4, <2>5, <2>6, HandlerGivesUp
<1>4. CASE handler' = [handler EXCEPT !.pc = "garbled"] /\ UNCHANGED <<toClient, link, dbVars>>
  BY <1>1, <1>4, GarbledStep
<1>5. QED
  BY <1>1, <1>2, <1>3, <1>4 DEF read_action

LEMMA ReadSizeStep ==
  ASSUME Inv, read_file_size
  PROVE  Inv'
<1>1. /\ ReadFrame /\ HandlerKeeps /\ UNCHANGED <<link, dbVars, log>> /\ handler.pc = "size"
      /\ UNCHANGED <<consumer, actions, current_index>>
      /\ Shift(1) /\ 1 \in Frames /\ Input = toServer[1]
  BY HandlerKept, OneTaken DEF Inv, read_file_size
<1>2. CASE handler' = [handler EXCEPT !.pc = "garbled"]
  BY <1>1, <1>2, GarbledStep
<1>3. CASE Input.kind = "size" /\ handler' = [handler EXCEPT !.pc = "content"]
  <2>1. /\ handler' \in [pc : HandlerPcs, index : Nat, action : Action \cup {None}, hash : Hash \cup {None}]
        /\ handler'.pc = "content" /\ handler'.index = handler.index
        /\ handler'.action = handler.action /\ handler'.hash = handler.hash
    BY <1>3, HandlerGoes DEF Inv, HandlerPcs
  <2>2. Busy' /\ Receiving' /\ Busy /\ Receiving
    BY <1>1, <2>1 DEF Busy, Receiving
  <2>3. LogKept /\ SameStored
    BY <1>1, LogUnchanged DEF Inv
  <2>4. ~Header(1) /\ toServer[1].kind # "content"
    BY <1>1, <1>3 DEF Header
  <2>5. \A k \in Frames : k > 1 \/ k = 1
    BY DEF Frames
  <2>6. Types'
    BY <1>1, <2>1 DEF Inv, Types, Shift, dbVars
  <2>7. ConsumerOK'
    BY <1>1, <2>3, ConsumerKept DEF Inv, ConsumerOK, Stored
  <2>8. HeadersOK'
    <3>1. \A k \in Frames : k > 1 /\ Header(k) => handler'.index < Idx(k)
      BY <2>1, <2>2 DEF Inv, HeadersOK
    <3>2. \A i \in 1 .. Len(log) : Stored(i)' => Stored(i)
      BY <1>1 DEF Stored
    <3>3. QED
      BY <1>1, <2>3, <3>1, <3>2, ShiftHeaders
  <2>9. HandlerOK'
    BY <1>1, <2>1, <2>2 DEF Inv, HandlerOK, Indexed, Stored, Listed
  <2>10. ContentsOK'
    <3>1. ASSUME NEW k \in Frames, toServer[k].kind = "content", \A i \in 1 + 1 .. k - 1 : ~Header(i)
          PROVE  toServer[k].hash = log[handler.index + 1].hash
      <4>1. \A i \in 1 .. k - 1 : ~Header(i)
        <5>1. \A i \in 1 .. k - 1 : i = 1 \/ i \in 1 + 1 .. k - 1
          BY DEF Frames
        <5>2. QED
          BY <5>1, <3>1, <2>4
      <4>2. QED
        BY <4>1, <3>1, <2>2 DEF Inv, ContentsOK
    <3>2. handler.index + 1 \in 1 .. Len(log)
      BY <2>2, LogFields DEF Inv, Types, HandlerOK, Indexed
    <3>3. QED
      BY <1>1, <2>1, <2>3, <3>1, <3>2, ShiftContents
  <2>11. UploadOK'
    <3>1. ASSUME Sending, handler'.index = consumer.index
          PROVE  \A l \in Frames : l > 1 => toServer[l].kind # "content"
      BY <3>1, <2>1, <2>2 DEF Inv, UploadOK
    <3>2. ASSUME Sending, link = "up", \A k \in Frames : k > 1 => ~Header(k)
          PROVE  handler'.index = consumer.index
      BY <3>2, <2>1, <2>2, <2>4, <2>5 DEF Inv, UploadOK
    <3>3. handler'.pc \notin {"addAction", "execute"}
      BY <2>1
    <3>4. QED
      BY <1>1, <3>1, <3>2, <3>3, ShiftUpload
  <2>12. DbOK'
    BY <1>1, <2>1, <2>2 DEF Inv, DbOK, dbVars
  <2>13. BackupFollowsActions'
    BY <1>1 DEF Inv, BackupFollowsActions, dbVars
  <2>14. QED
    BY <2>6, <2>7, <2>8, <2>9, <2>10, <2>11, <2>12, <2>13 DEF Inv
<1>4. QED
  BY <1>2, <1>3 DEF read_file_size

LEMMA ReadContentStep ==
  ASSUME Inv, read_file_content
  PROVE  Inv'
<1>1. /\ HandlerKeeps /\ UNCHANGED <<link, dbVars, log>> /\ handler.pc = "content"
      /\ UNCHANGED <<consumer, actions, current_index>>
      /\ Busy /\ Receiving
  BY HandlerKept DEF read_file_content, Busy, Receiving
<1>2. CASE ReadFrame /\ handler' = [handler EXCEPT !.pc = "garbled"]
  BY <1>1, <1>2, GarbledStep
<1>3. CASE /\ ReadFrame /\ Input.kind = "content"
           /\ handler' = [handler EXCEPT !.pc = "addAction", !.hash = Input.hash]
  <2>1. Shift(1) /\ 1 \in Frames /\ Input = toServer[1]
    BY <1>3, OneTaken DEF Inv
  <2>2. /\ Input.hash \in Hash /\ Input.hash = log[handler.index + 1].hash
    BY <1>1, <1>3, <2>1 DEF Inv, ContentsOK
  <2>3. /\ handler' \in [pc : HandlerPcs, index : Nat, action : Action \cup {None}, hash : Hash \cup {None}]
        /\ handler'.pc = "addAction" /\ handler'.index = handler.index
        /\ handler'.action = handler.action /\ handler'.hash = Input.hash
    <3>1. PICK h : h = Input.hash
      OBVIOUS
    <3>2. handler' = [handler EXCEPT !.pc = "addAction", !.hash = h] /\ h \in Hash
      BY <1>3, <2>2, <3>1
    <3>3. handler \in [pc : HandlerPcs, index : Nat, action : Action \cup {None}, hash : Hash \cup {None}]
      BY DEF Inv, Types
    <3>4. QED
      BY <3>1, <3>2, <3>3 DEF HandlerPcs
  <2>4. Busy' /\ ~Receiving'
    BY <2>3 DEF Busy, Receiving
  <2>5. LogKept /\ SameStored
    BY <1>1, LogUnchanged DEF Inv
  <2>6. Types'
    BY <1>1, <2>1, <2>3 DEF Inv, Types, Shift, dbVars
  <2>7. ConsumerOK'
    BY <1>1, <2>5, ConsumerKept DEF Inv, ConsumerOK, Stored
  <2>8. HeadersOK'
    <3>1. \A k \in Frames : k > 1 /\ Header(k) => handler'.index < Idx(k)
      BY <1>1, <2>3 DEF Inv, HeadersOK
    <3>2. \A i \in 1 .. Len(log) : Stored(i)' => Stored(i)
      BY <1>1 DEF Stored
    <3>3. QED
      BY <1>1, <2>1, <2>5, <3>1, <3>2, ShiftHeaders
  <2>9. HandlerOK'
    BY <1>1, <2>2, <2>3, <2>4 DEF Inv, HandlerOK, Indexed, Stored, Listed
  <2>10. ContentsOK'
    BY <2>1, <2>4, <2>5, ShiftContents
  <2>11. UploadOK'
    <3>1. Sending => handler'.index # consumer.index
      BY <1>1, <1>3, <2>1, <2>3 DEF Inv, UploadOK
    <3>2. QED
      BY <1>1, <2>1, <2>4, <3>1, ShiftUpload
  <2>12. DbOK'
    BY <1>1, <2>3, <2>4 DEF Inv, DbOK, dbVars
  <2>13. BackupFollowsActions'
    BY <1>1 DEF Inv, BackupFollowsActions, dbVars
  <2>14. QED
    BY <2>6, <2>7, <2>8, <2>9, <2>10, <2>11, <2>12, <2>13 DEF Inv
<1>4. ~(Len(toServer) >= 2 /\ Input.kind = "part")
  <2> SUFFICES ASSUME Len(toServer) >= 2, Input.kind = "part" PROVE FALSE
    OBVIOUS
  <2>1. Len(toServer) \in Nat
    BY SeqLen DEF Inv, Types
  <2>2. toServer # <<>>
    <3>1. Len(<<>>) = 0
      OBVIOUS
    <3>2. QED
      BY <2>1, <3>1
  <2>3. Input = toServer[1] /\ 1 \in Frames
    BY <2>1, <2>2, SeqTail DEF Inv, Types, Input, Frames
  <2>4. QED
    BY <2>3 DEF Inv, ContentsOK
<1>5. QED
  BY <1>2, <1>3, <1>4 DEF read_file_content

-----------------------------------------------------------------------------
\* The action is written to the database.

LEMMA Edits ==
  \A a, h :
    /\ a.type = "read_file" => EditOf(a, h).action = a.type /\ EditOf(a, h).hash = h
    /\ a.type = "create_folder" => EditOf(a, h).action = a.type /\ EditOf(a, h).hash = "dir"
    /\ a.type = "delete_path" => EditOf(a, h).action = a.type /\ EditOf(a, h).hash = ""
BY DEF EditOf

LEMMA AddActionStep ==
  ASSUME Inv, addAction
  PROVE  Inv'
<1>1. /\ UNCHANGED <<toServer, link, log, consumer, actions, current_index>>
      /\ handler.pc = "addAction" /\ Busy
      /\ db!Ask("handler", handler.action.path, EditOf(handler.action, handler.hash))
  BY HandlerKept DEF addAction, Busy
<1>2. /\ handler' \in [pc : HandlerPcs, index : Nat, action : Action \cup {None}, hash : Hash \cup {None}]
      /\ handler'.pc = "execute" /\ handler'.index = handler.index
      /\ handler'.action = handler.action /\ handler'.hash = handler.hash
  BY HandlerGoes DEF Inv, addAction, HandlerPcs
<1>3. Busy' /\ ~Receiving'
  BY <1>2 DEF Busy, Receiving
<1>4. /\ handler.action \in Action /\ handler.action.type \in {"read_file", "create_folder", "delete_path"}
      /\ handler.action.type = "read_file" => handler.hash \in Hash
  BY <1>1 DEF Inv, HandlerOK, Indexed
<1>5. handler.action.path \in Path
  BY <1>4 DEF Action, FileAction
<1>6. PICK e : /\ e = EditOf(handler.action, handler.hash)
               /\ e.action \in {"read_file", "create_folder", "delete_path"}
               /\ e.hash \in Hash \cup {"dir", ""}
  <2>1. /\ EditOf(handler.action, handler.hash).action \in {"read_file", "create_folder", "delete_path"}
        /\ EditOf(handler.action, handler.hash).hash \in Hash \cup {"dir", ""}
    BY <1>4, Edits, Zenon
  <2>2. QED
    BY <2>1
<1>7. PICK r : r = [filename |-> handler.action.path, timestamp |-> current_date["handler"],
                    action |-> e.action, hash |-> e.hash]
  OBVIOUS
<1>8. /\ UNCHANGED <<backup, edited, today, current_date>>
      /\ req' = [req EXCEPT !["handler"] = r]
  BY <1>1, <1>6, <1>7 DEF db!Ask
<1>9. r \in Request
  BY <1>1, <1>5, <1>6, <1>7 DEF Inv, DbOK, Request
<1>10. req' \in [{"handler"} -> Request \cup {None}] /\ req'["handler"] = r
  BY <1>8, <1>9 DEF Inv, Types
<1>11. Shift(0) /\ LogKept /\ SameStored
  BY <1>1, NoneTaken, LogUnchanged DEF Inv
<1>12. Types'
  BY <1>1, <1>2, <1>8, <1>10 DEF Inv, Types
<1>13. ConsumerOK'
  BY <1>1, <1>11, ConsumerKept DEF Inv, ConsumerOK, Stored
<1>14. HeadersOK'
  <2>1. \A k \in Frames : k > 0 /\ Header(k) => handler'.index < Idx(k)
    BY <1>1, <1>2 DEF Inv, HeadersOK
  <2>2. \A i \in 1 .. Len(log) : Stored(i)' => Stored(i)
    BY <1>1 DEF Stored
  <2>3. QED
    BY <1>1, <1>11, <2>1, <2>2, ShiftHeaders
<1>15. HandlerOK'
  BY <1>1, <1>2, <1>3 DEF Inv, HandlerOK, Indexed, Stored, Listed
<1>16. ContentsOK'
  BY <1>3, <1>11, ShiftContents
<1>17. UploadOK'
  <2>1. Sending => handler'.index # consumer.index
    BY <1>1, <1>2 DEF Inv, UploadOK
  <2>2. QED
    BY <1>1, <1>3, <1>11, <2>1, ShiftUpload
<1>18. DbOK'
  <2>1. req'["handler"] = [filename |-> handler'.action.path, timestamp |-> current_date'["handler"],
                         action |-> EditOf(handler'.action, handler'.hash).action,
                         hash |-> EditOf(handler'.action, handler'.hash).hash]
    BY <1>2, <1>6, <1>7, <1>8, <1>10
  <2>2. QED
    BY <1>1, <1>8, <2>1 DEF Inv, DbOK
<1>19. BackupFollowsActions'
  BY <1>1, <1>8 DEF Inv, BackupFollowsActions
<1>20. QED
  BY <1>12, <1>13, <1>14, <1>15, <1>16, <1>17, <1>18, <1>19 DEF Inv

\* The request of a handler that executes, and the log's entry it is about.
LEMMA Requested ==
  ASSUME Inv, handler.pc = "execute"
  PROVE  LET n == handler.index + 1
             r == req["handler"] IN
         /\ n \in 1 .. Len(log) /\ (\A i \in n .. Len(log) : ~Stored(i))
         /\ r.filename = log[n].action.path /\ r.filename \in Path
         /\ r.action = log[n].action.type
         /\ r.action \in {"read_file", "create_folder", "delete_path"}
         /\ r.action # "delete_path" =>
              /\ r.hash = IF r.action = "create_folder" THEN "dir" ELSE log[n].hash
              /\ r.hash \in Hash \cup {"dir"}
         /\ r.timestamp \in Day /\ r.timestamp <= today
         /\ \A e \in edited[r.filename] : e <= r.timestamp
<1>1. Busy
  BY DEF Busy
<1>2. /\ Indexed(handler.index, handler.action) /\ handler.action \in Action
      /\ \A i \in handler.index + 1 .. Len(log) : ~Stored(i)
      /\ handler.action.type \in {"read_file", "create_folder", "delete_path"}
      /\ handler.action.type = "read_file" =>
           handler.hash \in Hash /\ handler.hash = log[handler.index + 1].hash
  BY <1>1 DEF Inv, HandlerOK, Indexed
<1>3. PICK e : e = EditOf(handler.action, handler.hash)
  OBVIOUS
<1>4. /\ e.action = handler.action.type
      /\ handler.action.type = "read_file" => e.hash = handler.hash
      /\ handler.action.type = "create_folder" => e.hash = "dir"
  BY <1>2, <1>3, Edits, Zenon
<1>5. req["handler"] = [filename |-> handler.action.path, timestamp |-> current_date["handler"],
                        action |-> e.action, hash |-> e.hash]
  BY <1>3 DEF Inv, DbOK
<1>6. PICK r : r = req["handler"]
  OBVIOUS
<1>7. /\ r.filename = handler.action.path /\ r.timestamp = current_date["handler"]
      /\ r.action = e.action /\ r.hash = e.hash
  BY <1>5, <1>6
<1>8. handler.action.path \in Path
  BY <1>2 DEF Action, FileAction
<1>9. PICK n : n = handler.index + 1 /\ n \in 1 .. Len(log) /\ log[n].action = handler.action
  BY <1>2, LogFields DEF Inv, Types, Indexed
<1>10. r.timestamp \in Day /\ r.timestamp <= today /\ \A d \in edited[r.filename] : d <= r.timestamp
  BY <1>1, <1>7, <1>8 DEF Inv, DbOK
<1>11. /\ r.filename = log[n].action.path /\ r.filename \in Path
       /\ r.action = log[n].action.type
       /\ r.action \in {"read_file", "create_folder", "delete_path"}
  BY <1>2, <1>4, <1>7, <1>8, <1>9
<1>12. r.action # "delete_path" =>
         /\ r.hash = IF r.action = "create_folder" THEN "dir" ELSE log[n].hash
         /\ r.hash \in Hash \cup {"dir"}
  BY <1>2, <1>4, <1>7, <1>9
<1>13. QED
  BY <1>2, <1>6, <1>9, <1>10, <1>11, <1>12

LEMMA StoreStep ==
  ASSUME Inv, handler.pc = "execute", db!Apply("handler"), ToRead, HandlerKeeps,
         UNCHANGED <<toServer, link>>,
         log' = [log EXCEPT ![handler.index + 1].outcome = "stored"]
  PROVE  Inv'
<1>1. PICK n, r : n = handler.index + 1 /\ r = req["handler"]
  OBVIOUS
<1>2. /\ n \in 1 .. Len(log) /\ (\A i \in n .. Len(log) : ~Stored(i))
      /\ r.filename = log[n].action.path /\ r.filename \in Path
      /\ r.action = log[n].action.type
      /\ r.action \in {"read_file", "create_folder", "delete_path"}
      /\ r.action # "delete_path" =>
           /\ r.hash = IF r.action = "create_folder" THEN "dir" ELSE log[n].hash
           /\ r.hash \in Hash \cup {"dir"}
      /\ r.timestamp \in Day /\ r.timestamp <= today
      /\ \A e \in edited[r.filename] : e <= r.timestamp
  BY <1>1, Requested
<1>3. /\ log' \in Seq(Entry) /\ Len(log) \in Nat /\ Len(log') = Len(log)
      /\ \A i \in 1 .. Len(log) :
           /\ log'[i].action = log[i].action /\ log'[i].hash = log[i].hash
           /\ log'[i].outcome = IF i = n THEN "stored" ELSE log[i].outcome
  <2>1. log' = [log EXCEPT ![n].outcome = "stored"]
    BY <1>1
  <2>2. "stored" \in Outcome /\ log \in Seq(Entry)
    BY DEF Outcome, Inv, Types
  <2>3. QED
    BY <2>1, <2>2, <1>2, LogOutcome
<1>4. LogKept
  BY <1>3 DEF LogKept
<1>5. /\ UNCHANGED <<consumer, actions, current_index>> /\ Shift(0)
      /\ handler' \in [pc : HandlerPcs, index : Nat, action : Action \cup {None}, hash : Hash \cup {None}]
      /\ handler'.pc = "read" /\ ~Busy'
  BY HandlerKept, HandlerReads, NoneTaken DEF Inv, Busy
<1>6. /\ backup' = [d \in Day |-> IF d \in db!Reach(r.filename, r.timestamp)
                                  THEN db!After(backup[d], r) ELSE backup[d]]
      /\ edited' = [edited EXCEPT ![r.filename] = @ \cup {r.timestamp}]
      /\ today' = today
      /\ current_date' = [current_date EXCEPT !["handler"] = None]
      /\ req' = [req EXCEPT !["handler"] = None]
  BY <1>1 DEF db!Apply, db!Return, db!Day, Day
<1>7. Types'
  <2>1. backup' \in [Day -> SUBSET (Before \cup [filename : Path, hash : Hash \cup {"dir"}])]
    <3> DEFINE B == Before \cup [filename : Path, hash : Hash \cup {"dir"}]
    <3>1. \A d \in Day : backup[d] \subseteq B
      BY DEF Inv, Types
    <3>2. r.action # "delete_path" => [filename |-> r.filename, hash |-> r.hash] \in B
      BY <1>2
    <3> HIDE DEF B
    <3>3. \A d \in Day : db!After(backup[d], r) \subseteq B
      BY <3>1, <3>2 DEF db!After
    <3>4. \A d \in Day : (IF d \in db!Reach(r.filename, r.timestamp)
                          THEN db!After(backup[d], r) ELSE backup[d]) \in SUBSET B
      BY <3>1, <3>3
    <3>5. backup' \in [Day -> SUBSET B]
      BY <1>6, <3>4
    <3>6. QED
      BY <3>5 DEF B
  <2>2. edited' \in [Path -> SUBSET Day]
    BY <1>2, <1>6 DEF Inv, Types
  <2>3. /\ current_date' \in [{"handler"} -> Day \cup {None}]
        /\ req' \in [{"handler"} -> Request \cup {None}]
    BY <1>6 DEF Inv, Types
  <2>4. QED
    BY <2>1, <2>2, <2>3, <1>3, <1>5, <1>6 DEF Inv, Types, Shift
<1>8. DbOK'
  <2>1. \A p \in Path : \A e \in edited'[p] : e <= today
    BY <1>2, <1>6 DEF Inv, DbOK, Types
  <2>2. QED
    BY <2>1, <1>5, <1>6 DEF DbOK
<1>9. BackupFollowsActions'
  <2>1. LastDay \in Day /\ LastDay \in db!Reach(r.filename, r.timestamp)
    <3>1. LastDay \in Nat
      BY SessionAssumption DEF SessionAssumption
    <3>2. LastDay >= r.timestamp /\ \A e \in edited[r.filename] : ~(e > r.timestamp)
      <4>1. \A e \in edited[r.filename] : e \in Nat
        BY <1>2, <3>1 DEF Inv, Types, Day
      <4>2. QED
        BY <4>1, <1>2, <3>1 DEF Day
    <3>3. QED
      BY <3>1, <3>2 DEF Day, db!Reach, db!Day
  <2>2. backup'[LastDay] = db!After(backup[LastDay], r)
    BY <2>1, <1>6
  <2>3. \A e : e \in Replay(log') <=>
          \/ e \in Replay(log) /\ e.filename # r.filename
          \/ r.action # "delete_path" /\ e = [filename |-> r.filename, hash |-> r.hash]
    <3>1. /\ log'[n].outcome = "stored"
          /\ \A i \in n .. Len(log) : log[i].outcome # "stored"
          /\ \A i \in 1 .. Len(log) : /\ log'[i].action = log[i].action /\ log'[i].hash = log[i].hash
                                      /\ i # n => log'[i].outcome = log[i].outcome
          /\ log[n].action.path \in Path
      BY <1>2, <1>3 DEF Stored
    <3>2. log \in Seq(Entry) /\ log' \in Seq(Entry) /\ Len(log) = Len(log')
      BY <1>3 DEF Inv, Types
    <3>3. \A e : e \in Replay(log') <=>
            \/ e \in Replay(log) /\ e.filename # log[n].action.path
            \/ /\ log[n].action.type # "delete_path"
               /\ e = [filename |-> log[n].action.path,
                       hash |-> IF log[n].action.type = "create_folder" THEN "dir" ELSE log[n].hash]
      BY <3>1, <3>2, <1>2, ReplayStore
    <3>4. r.action # "delete_path" =>
            [filename |-> r.filename, hash |-> r.hash] =
            [filename |-> log[n].action.path,
             hash |-> IF log[n].action.type = "create_folder" THEN "dir" ELSE log[n].hash]
      BY <1>2
    <3>5. r.filename = log[n].action.path /\ r.action = log[n].action.type
      BY <1>2
    <3>6. PICK f, g :
            /\ f = [filename |-> r.filename, hash |-> r.hash]
            /\ g = [filename |-> log[n].action.path,
                    hash |-> IF log[n].action.type = "create_folder" THEN "dir" ELSE log[n].hash]
      OBVIOUS
    <3>7. r.action # "delete_path" => f = g
      BY <3>4, <3>6
    <3>8. \A e : e \in Replay(log') <=>
            (e \in Replay(log) /\ e.filename # r.filename) \/ (r.action # "delete_path" /\ e = g)
      BY <3>3, <3>5, <3>6
    <3>9. \A e : e \in Replay(log') <=>
            (e \in Replay(log) /\ e.filename # r.filename) \/ (r.action # "delete_path" /\ e = f)
      BY <3>7, <3>8
    <3>10. QED
      BY <3>6, <3>9
  <2>4. \A e : e \in db!After(backup[LastDay], r) <=>
          \/ e \in Replay(log) /\ e.filename # r.filename
          \/ r.action # "delete_path" /\ e = [filename |-> r.filename, hash |-> r.hash]
    BY DEF Inv, BackupFollowsActions, db!After
  <2>5. backup'[LastDay] = Replay(log')
    BY <2>2, <2>3, <2>4
  <2>6. QED
    BY <2>5 DEF BackupFollowsActions
<1>10. \A i \in 1 .. Len(log) : Stored(i)' => Stored(i) \/ (handler.pc = "execute" /\ i = handler.index + 1)
  BY <1>1, <1>3 DEF Stored
<1>11. QED
  BY <1>4, <1>5, <1>7, <1>8, <1>9, <1>10, HandlerDone

LEMMA RefuseStep ==
  ASSUME Inv, handler.pc = "execute", db!Refuse("handler"), ToRead, HandlerKeeps,
         UNCHANGED <<toServer, link>>,
         log' = [log EXCEPT ![handler.index + 1].outcome = "refused"]
  PROVE  Inv'
<1>1. PICK n : n = handler.index + 1
  OBVIOUS
<1>2. n \in 1 .. Len(log) /\ \A i \in n .. Len(log) : ~Stored(i)
  BY <1>1, Requested
<1>3. /\ log' \in Seq(Entry) /\ Len(log) \in Nat /\ Len(log') = Len(log)
      /\ \A i \in 1 .. Len(log) :
           /\ log'[i].action = log[i].action /\ log'[i].hash = log[i].hash
           /\ log'[i].outcome = IF i = n THEN "refused" ELSE log[i].outcome
  <2>1. log' = [log EXCEPT ![n].outcome = "refused"]
    BY <1>1
  <2>2. "refused" \in Outcome /\ log \in Seq(Entry)
    BY DEF Outcome, Inv, Types
  <2>3. QED
    BY <2>1, <2>2, <1>2, LogOutcome
<1>4. LogKept /\ SameStored
  <2>1. ~Stored(n)
    BY <1>2, <1>3
  <2>2. QED
    BY <2>1, <1>3 DEF LogKept, SameStored, Stored
<1>5. /\ UNCHANGED <<consumer, actions, current_index>> /\ Shift(0)
      /\ handler' \in [pc : HandlerPcs, index : Nat, action : Action \cup {None}, hash : Hash \cup {None}]
      /\ handler'.pc = "read" /\ ~Busy'
  BY HandlerKept, HandlerReads, NoneTaken DEF Inv, Busy
<1>6. /\ UNCHANGED <<backup, edited, today>>
      /\ current_date' \in [{"handler"} -> Day \cup {None}]
      /\ req' \in [{"handler"} -> Request \cup {None}]
  BY DEF Inv, Types, db!Refuse, db!Return
<1>7. QED
  BY <1>4, <1>5, <1>6, HandlerGivesUp

LEMMA ExecuteStep ==
  ASSUME Inv, execute
  PROVE  Inv'
BY StoreStep, RefuseStep DEF execute

LEMMA NextDayStep ==
  ASSUME Inv, NextDay
  PROVE  Inv'
<1>1. /\ UNCHANGED <<actions, consumer, toServer, link, handler, log, current_index>>
      /\ UNCHANGED <<backup, edited, current_date, req>>
      /\ today' = today + 1 /\ today < LastDay
  BY DEF NextDay, db!NextDay, bufferVars, clientVars, netVars, responseVars
<1>2. today \in Nat /\ today' \in Day
  BY <1>1, SessionAssumption DEF Inv, Types, Day, SessionAssumption
<1>3. Types'
  BY <1>1, <1>2 DEF Inv, Types
<1>4. ConsumerOK' /\ HandlerOK'
  BY <1>1 DEF Inv, ConsumerOK, HandlerOK, Listed, Sending, Busy, Receiving, Indexed, Stored
<1>5. HeadersOK'
  BY <1>1 DEF Inv, HeadersOK, Frames, Header, Idx, Listed, Busy, Indexed, Stored
<1>6. ContentsOK'
  BY <1>1 DEF Inv, ContentsOK, Frames, Header, Idx, Receiving
<1>7. UploadOK'
  BY <1>1 DEF Inv, UploadOK, Frames, Header, Idx, Sending, Receiving
<1>8. DbOK'
  <2>1. \A p \in Path : \A e \in edited[p] : e <= today'
    BY <1>1, <1>2 DEF Inv, DbOK, Types, Day
  <2>2. Busy => current_date["handler"] \in Day /\ current_date["handler"] <= today'
    BY <1>1, <1>2 DEF Inv, DbOK, Day
  <2>3. QED
    BY <2>1, <2>2, <1>1 DEF Inv, DbOK, Busy
<1>9. BackupFollowsActions'
  BY <1>1 DEF Inv, BackupFollowsActions
<1>10. QED
  BY <1>3, <1>4, <1>5, <1>6, <1>7, <1>8, <1>9 DEF Inv

-----------------------------------------------------------------------------
\* The theorem.

LEMMA Start == ASSUME Init PROVE Inv
<1>1. /\ actions = <<>> /\ toServer = <<>> /\ log = <<>> /\ current_index = 0
      /\ consumer = [pc |-> "pop", action |-> None, index |-> 0]
      /\ handler = [pc |-> "read", index |-> 0, action |-> None, hash |-> None]
      /\ backup = [d \in Day |-> Before]
      /\ edited = [p \in Path |-> {0 : e \in {e \in Before : e.filename = p}}]
      /\ today = 0
      /\ current_date = [s \in {"handler"} |-> None]
      /\ req = [s \in {"handler"} |-> None]
  BY DEF Init, responses!Init, Day
<1>2. LastDay \in Nat /\ 0 \in Day /\ LastDay \in Day
  BY SessionAssumption DEF SessionAssumption, Day
<1>3. Len(<<>>) = 0 /\ IsSeq(<<>>)
  <2>1. <<>> \in Seq({}) /\ Len(<<>>) = 0
    OBVIOUS
  <2>2. QED
    BY <2>1, SeqAny
<1>4. \A p \in Path : edited[p] \subseteq {0}
  BY <1>1
<1>5. Types
  <2>1. edited \in [Path -> SUBSET Day]
    BY <1>1, <1>2
  <2>2. backup \in [Day -> SUBSET (Before \cup [filename : Path, hash : Hash \cup {"dir"}])]
    BY <1>1
  <2>3. /\ consumer \in [pc : ConsumerPcs, action : Action \cup {None}, index : Nat]
        /\ handler \in [pc : HandlerPcs, index : Nat, action : Action \cup {None}, hash : Hash \cup {None}]
    BY <1>1 DEF ConsumerPcs, HandlerPcs
  <2>4. actions \in Seq(Action) /\ log \in Seq(Entry)
    BY <1>1
  <2>5. IsSeq(toServer) /\ current_index = Len(log)
    BY <1>1, <1>3
  <2>6. /\ current_date \in [{"handler"} -> Day \cup {None}]
        /\ req \in [{"handler"} -> Request \cup {None}]
    BY <1>1
  <2>7. QED
    BY <2>1, <2>2, <2>3, <2>4, <2>5, <2>6, <1>1, <1>2 DEF Types
<1>6. ~Listed /\ ~Sending /\ ~Busy /\ consumer.pc # "add" /\ handler.pc # "execute"
  BY <1>1 DEF Listed, Sending, Busy
<1>7. Frames = {}
  <2>1. Len(toServer) = 0
    BY <1>1, <1>3
  <2>2. QED
    BY <2>1 DEF Frames
<1>8. ConsumerOK /\ HandlerOK /\ UploadOK
  BY <1>6 DEF ConsumerOK, HandlerOK, UploadOK, Listed
<1>9. HeadersOK /\ ContentsOK
  BY <1>7 DEF HeadersOK, ContentsOK
<1>10. DbOK
  BY <1>1, <1>4, <1>6 DEF DbOK
<1>11. BackupFollowsActions
  <2>1. DOMAIN <<>> = {}
    OBVIOUS
  <2>2. \A p : LastStored(<<>>, p) = {}
    BY <2>1 DEF LastStored
  <2>3. Replay(<<>>) = Before
    BY <2>2 DEF Replay
  <2>4. QED
    BY <2>3, <1>1, <1>2 DEF BackupFollowsActions
<1>12. QED
  BY <1>5, <1>8, <1>9, <1>10, <1>11 DEF Inv

LEMMA Stutter == ASSUME Inv, UNCHANGED vars PROVE Inv'
<1>1. UNCHANGED <<consumer, handler, dbVars, log, current_index, actions, link, toServer>>
  BY DEF vars, bufferVars, clientVars, responseVars, netVars
<1>2. QuietWrite
  BY <1>1, NothingWritten DEF Inv
<1>3. QED
  BY <1>1, <1>2, QuietThreads DEF Inv, Types

LEMMA Step == ASSUME Inv, "file_change" \notin Faults, Next PROVE Inv'
<1>1. CASE \E a \in Action : a.type \in Pushed /\ push(a)
  BY <1>1, PushStep
<1>2. CASE terminate \/ Disconnect
  BY <1>2, UserStep
<1>3. CASE NextDay
  BY <1>3, NextDayStep
<1>4. CASE ActionsConsumer
  BY <1>4, PopStep, ConsumerLoopStep, AddStep, CheckStep, HeaderStep, SizeStep, ContentStep,
     QuitStep, ConsumerThrowsStep DEF ActionsConsumer
<1>5. CASE ResponseConsumer
  BY <1>5, ResponderStep
<1>6. CASE ClientHandler
  BY <1>6, ReadActionStep, ReadSizeStep, ReadContentStep, AddActionStep, ExecuteStep,
     RestoreStep, HandlerThrowsStep DEF ClientHandler
<1>7. QED
  BY <1>1, <1>2, <1>3, <1>4, <1>5, <1>6 DEF Next

\* The backup is the replay of the actions in the order they were sent, for any
\* paths, contents and number of actions, whatever fails and whatever a restore
\* that is raced does to the streams, if no file changes while it is sent
\* (Client.cpp, send_action and send_file; ClientHandler.cpp, read_action and
\* read_file; Database.cpp, addAction).
THEOREM StoredInOrder ==
  ASSUME "file_change" \notin Faults
  PROVE  Spec => []BackupFollowsActions
<1>1. Init => Inv
  BY Start
<1>2. Inv /\ [Next]_vars => Inv'
  BY Step, Stutter
<1>3. Inv => BackupFollowsActions
  BY DEF Inv
<1>4. QED
  BY <1>1, <1>2, <1>3, PTL DEF Spec
=============================================================================
