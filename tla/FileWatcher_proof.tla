------------------------- MODULE FileWatcher_proof --------------------------
(***************************************************************************)
(* Proofs about the file watcher, for any folder, any contents and any     *)
(* number of changes: it does not scan while a restore is under way, and   *)
(* what it has seen is sent, if the folder is left alone until the initial *)
(* comparison is done (~InitEdits).                                        *)
(***************************************************************************)
EXTENDS FileWatcher, SequenceTheorems, TLAPS

\* The path at hand.
AtHand ==
  /\ watcher.pc \in {"hashed", "record", "notify"} => watcher.path \in Path
  /\ watcher.pc = "notify" => watcher.found \in {"created", "modified"}

\* The clock: no change is yet to come.
Dated ==
  \A p \in Path :
    /\ p \in Existing => tree[p].time <= edits
    /\ paths_[p] # None => paths_[p] <= edits

\* Where the watcher is; the folder does not change while it is in init_status.
Comparing ==
  /\ watcher.pc \in {"hashed", "record"} => watcher.path \in Existing
  /\ watcher.pc = "hashed" => /\ watcher.found = tree[watcher.path].hash
                              /\ initial_status[watcher.path] # None
  /\ watcher.pc = "record" => initial_status[watcher.path] = None
  /\ watcher.pc = "notify" => watcher.path \in Recorded
  /\ watcher.pc \notin InitPc => \A p \in Path : initial_status[p] = None

\* What the server has of a path that was not compared yet, is what it had.
Untouched(p) ==
  initial_status[p] # None =>
    /\ backup[p] = initial_status[p]
    /\ paths_[p] = None
    /\ \A i \in 1 .. Len(actions) : actions[i].path # p

\* What becomes of a path of which the backup has b when the actions of s are
\* sent: the last of them that says something is of a type in T, and if there
\* is none, b is in B, or p is in the set r of those refused.
Says(s, i, p) == s[i].path = p /\ s[i].type # "ignore"
WillBe(s, r, b, p, T, B) ==
  /\ \A i \in 1 .. Len(s) :
       Says(s, i, p) /\ (\A j \in 1 .. Len(s) : j > i => ~Says(s, j, p)) => s[i].type \in T
  /\ (\A i \in 1 .. Len(s) : ~Says(s, i, p)) => b \in B \/ p \in r

\* The watcher has recorded p, or is about to, and has pushed what that means.
Known(p) ==
  \/ paths_[p] # None /\ ~(watcher.pc = "notify" /\ watcher.path = p /\ watcher.found = "created")
  \/ watcher.pc = "record" /\ watcher.path = p

\* What is known will be in the backup, and what is not will not.
Presence(p) ==
  initial_status[p] = None =>
    /\ Known(p) => WillBe(actions, refused, backup[p], p, {"read_file", "create_folder"}, Contents)
    /\ ~Known(p) => WillBe(actions, refused, backup[p], p, {"delete_path"}, {None})

\* The path has not changed since it was seen.
Seen(p) ==
  \/ paths_[p] = TimeAt(p) /\ ~(watcher.pc = "notify" /\ watcher.path = p)
  \/ watcher.pc = "record" /\ watcher.path = p

GoodTypes(p) ==
  {"read_file"} \cup {t \in {"create_folder"} : HashAt(p) = "dir"}
                \cup {t \in {"delete_path"} : HashAt(p) = None}
GoodContents(p) == {HashAt(p)} \cup {h \in Hash : HashAt(p) = "dir"}

\* What was seen will be in the backup as it is.
Faithful(p) ==
  initial_status[p] = None /\ Seen(p) =>
    WillBe(actions, refused, backup[p], p, GoodTypes(p), GoodContents(p))

Types == TypeOK /\ AtHand
PathOK(p) == Untouched(p) /\ Presence(p) /\ Faithful(p)
Good == Dated /\ Comparing /\ \A p \in Path : PathOK(p)
Inv == Types /\ (~failed => Good)

-----------------------------------------------------------------------------
\* A push that says nothing of p, or what it should.
LEMMA PushWillBe ==
  ASSUME NEW s \in Seq(Act), NEW a \in Act, NEW r, NEW b, NEW p, NEW T, NEW B,
         \/ a.path = p /\ a.type # "ignore" /\ a.type \in T
         \/ (a.path # p \/ a.type = "ignore") /\ WillBe(s, r, b, p, T, B)
  PROVE  WillBe(Append(s, a), r, b, p, T, B)
<1> DEFINE s2 == Append(s, a)
<1>1. /\ Len(s) \in Nat /\ Len(s2) = Len(s) + 1
      /\ \A i \in 1 .. Len(s) : s2[i] = s[i]
      /\ s2[Len(s) + 1] = a
  BY AppendProperties
<1> HIDE DEF s2
<1>2. ASSUME a.path = p, a.type # "ignore", a.type \in T
      PROVE  WillBe(s2, r, b, p, T, B)
  BY <1>1, <1>2 DEF WillBe, Says
<1>3. ASSUME a.path # p \/ a.type = "ignore", WillBe(s, r, b, p, T, B)
      PROVE  WillBe(s2, r, b, p, T, B)
  <2>1. \A i \in 1 .. Len(s2) : Says(s2, i, p) <=> i \in 1 .. Len(s) /\ Says(s, i, p)
    BY <1>1, <1>3 DEF Says
  <2>2. \A i \in 1 .. Len(s) : i \in 1 .. Len(s2)
    BY <1>1
  <2>3. QED
    BY <1>1, <1>3, <2>1, <2>2 DEF WillBe
<1>4. QED
  BY <1>2, <1>3 DEF s2

\* The oldest action is sent, and c and q are then what the backup has of p and
\* what was refused.
LEMMA SendWillBe ==
  ASSUME NEW s \in Seq(Act), s # <<>>, NEW r, NEW q, NEW b, NEW c, NEW p, NEW T, NEW B,
         WillBe(s, r, b, p, T, B),
         \/ Says(s, 1, p) /\ (s[1].type \in T => c \in B \/ p \in q)
         \/ ~Says(s, 1, p) /\ c = b /\ (p \in r => p \in q)
  PROVE  WillBe(Tail(s), q, c, p, T, B)
<1> DEFINE t == Tail(s)
<1>1. /\ Len(s) \in Nat \ {0} /\ Len(t) = Len(s) - 1
      /\ \A i \in 1 .. Len(t) : t[i] = s[i + 1]
  BY HeadTailProperties, EmptySeq
<1> HIDE DEF t
<1>2. \A i \in 1 .. Len(t) : i + 1 \in 1 .. Len(s) /\ (Says(t, i, p) <=> Says(s, i + 1, p))
  BY <1>1 DEF Says
<1>3. \A j \in 1 .. Len(s) : j = 1 \/ (j - 1 \in 1 .. Len(t) /\ j = (j - 1) + 1)
  BY <1>1
<1>4. ASSUME NEW i \in 1 .. Len(t), Says(t, i, p),
             \A j \in 1 .. Len(t) : j > i => ~Says(t, j, p)
      PROVE  t[i].type \in T
  <2>1. ASSUME NEW j \in 1 .. Len(s), j > i + 1 PROVE ~Says(s, j, p)
    <3>1. j - 1 \in 1 .. Len(t) /\ j - 1 > i /\ (j - 1) + 1 = j
      BY <1>1, <2>1
    <3>2. Says(t, j - 1, p) <=> Says(s, j, p)
      BY <1>2, <3>1, Zenon
    <3>3. QED
      BY <1>4, <3>1, <3>2
  <2>2. QED
    BY <1>1, <1>2, <1>4, <2>1 DEF WillBe
<1>5. ASSUME \A i \in 1 .. Len(t) : ~Says(t, i, p)
      PROVE  c \in B \/ p \in q
  <2>1. \A j \in 1 .. Len(s) : j # 1 => ~Says(s, j, p)
    BY <1>2, <1>3, <1>5
  <2>2. 1 \in 1 .. Len(s)
    BY <1>1
  <2>3. QED
    BY <2>1, <2>2 DEF WillBe
<1>6. QED
  BY <1>4, <1>5 DEF WillBe, t

LEMMA WillBeMore ==
  ASSUME NEW s, NEW r, NEW b, NEW p, NEW T, NEW B, NEW T2, NEW B2, WillBe(s, r, b, p, T, B),
         \A t \in T : t \in T2, \A c \in B : c \in B2
  PROVE  WillBe(s, r, b, p, T2, B2)
BY DEF WillBe

-----------------------------------------------------------------------------
\* An action is pushed with a type that the disk decides.
LEMMA Pushed ==
  ASSUME Types, NEW p \in Path, NEW fileStatus \in {"created", "modified", "erased"},
         action(p, fileStatus)
  PROVE  /\ [type |-> ActionType(p, fileStatus), path |-> p] \in Act
         /\ actions' \in Seq(Act)
<1>1. [type |-> ActionType(p, fileStatus), path |-> p] \in Act
  BY DEF ActionType, Act
<1>2. actions \in Seq(Act)
  BY DEF Types, TypeOK, Act
<1>3. QED
  BY <1>1, <1>2, AppendProperties DEF action

LEMMA TypesInit == Init => Types
<1> SUFFICES ASSUME Init PROVE Types
  OBVIOUS
<1> USE WatcherAssumption DEF Init, At, Contents
<1>1. tree \in [Path -> [hash : Contents, time : 0 .. MaxEdits] \cup {None}]
  OBVIOUS
<1>2. backup \in [Path -> Contents \cup {None}]
  OBVIOUS
<1>3. actions \in Seq(Act)
  OBVIOUS
<1>4. watcher \in Position
  BY DEF InitPc, Existing, Position
<1>5. AtHand
  BY DEF AtHand
<1>6. running_ \in BOOLEAN /\ pause_execution \in BOOLEAN /\ failed \in BOOLEAN
  OBVIOUS
<1>7. QED
  BY <1>1, <1>2, <1>3, <1>4, <1>5, <1>6 DEF Types, TypeOK

\* The places the watcher goes to.
LEMMA Positions ==
  ASSUME Types,
         NEW pc \in InitPc \cup ScanPc \cup {"sleep", "done", "failed"}
  PROVE  /\ \A todo, there \in SUBSET Path :
              /\ At(pc, todo, there) \in Position
              /\ At(pc, todo, there).pc = pc
         /\ [watcher EXCEPT !.pc = pc] \in Position
         /\ [watcher EXCEPT !.pc = pc].pc = pc
         /\ [watcher EXCEPT !.pc = pc].path = watcher.path
BY DEF At, Position, Types, TypeOK

LEMMA PositionsOf ==
  ASSUME Types, NEW p \in Path,
         NEW pc \in InitPc \cup ScanPc \cup {"sleep", "done", "failed"},
         NEW found \in Contents \cup {"created", "modified", None}
  PROVE  /\ [watcher EXCEPT !.pc = pc, !.path = p, !.found = found, !.todo = @ \ {p}] \in Position
         /\ [watcher EXCEPT !.pc = pc, !.path = p, !.found = found, !.todo = @ \ {p}].pc = pc
         /\ [watcher EXCEPT !.pc = pc, !.path = p, !.found = found, !.todo = @ \ {p}].path = p
         /\ [watcher EXCEPT !.pc = pc, !.path = p, !.found = found, !.todo = @ \ {p}].found = found
         /\ [watcher EXCEPT !.pc = pc, !.path = p, !.todo = @ \ {p}] \in Position
         /\ [watcher EXCEPT !.pc = pc, !.path = p, !.todo = @ \ {p}].pc = pc
         /\ [watcher EXCEPT !.pc = pc, !.path = p, !.todo = @ \ {p}].path = p
         /\ [watcher EXCEPT !.todo = @ \ {p}] \in Position
         /\ [watcher EXCEPT !.todo = @ \ {p}].pc = watcher.pc
         /\ [watcher EXCEPT !.todo = @ \ {p}].path = watcher.path
         /\ [watcher EXCEPT !.todo = @ \ {p}].found = watcher.found
BY DEF Position, Types, TypeOK

-----------------------------------------------------------------------------
\* A path that a step does not touch.
Handled(p) == watcher.pc \in {"record", "notify"} /\ watcher.path = p

LEMMA OthersStay ==
  ASSUME Types, NEW p \in Path, PathOK(p),
         initial_status'[p] = initial_status[p], paths_'[p] = paths_[p], backup'[p] = backup[p],
         refused' = refused,
         HashAt(p)' = HashAt(p), TimeAt(p)' = TimeAt(p),
         watcher' = watcher \/ (~Handled(p) /\ ~Handled(p)'),
         \/ actions' = actions
         \/ \E a \in Act : a.path # p /\ actions' = Append(actions, a)
  PROVE  PathOK(p)'
<1> DEFINE W(T, B) == WillBe(actions, refused, backup[p], p, T, B)
<1>1. actions \in Seq(Act)
  BY DEF Types, TypeOK
<1>2. ASSUME NEW T, NEW B, W(T, B) PROVE WillBe(actions', refused', backup'[p], p, T, B)
  <2>1. CASE actions' = actions
    BY <1>2, <2>1
  <2>2. ASSUME NEW a \in Act, a.path # p, actions' = Append(actions, a)
        PROVE  WillBe(actions', refused', backup'[p], p, T, B)
    BY <1>1, <1>2, <2>2, PushWillBe
  <2>3. QED
    BY <2>1, <2>2
<1>3. Untouched(p)'
  <2>1. CASE actions' = actions
    BY <2>1 DEF PathOK, Untouched
  <2>2. ASSUME NEW a \in Act, a.path # p, actions' = Append(actions, a)
        PROVE  Untouched(p)'
    BY <1>1, <2>2, AppendProperties DEF PathOK, Untouched
  <2>3. QED
    BY <2>1, <2>2
<1>4. Known(p)' <=> Known(p)
  BY DEF Known, Handled
<1>5. Seen(p)' <=> Seen(p)
  BY DEF Seen, Handled
<1>6. Presence(p)'
  BY <1>2, <1>4 DEF PathOK, Presence
<1>7. GoodTypes(p)' = GoodTypes(p) /\ GoodContents(p)' = GoodContents(p)
  BY DEF GoodTypes, GoodContents
<1>8. Faithful(p)'
  BY <1>2, <1>5, <1>7 DEF PathOK, Faithful
<1>9. QED
  BY <1>3, <1>6, <1>8 DEF PathOK

\* What a step of the watcher must show.
LEMMA TypesFrom ==
  ASSUME Types, WatcherKeeps, watcher' \in Position, AtHand', actions' \in Seq(Act),
         paths_' \in [Path -> (0 .. MaxEdits) \cup {None}],
         initial_status' \in [Path -> Contents \cup {None}],
         failed' = failed \/ failed' = TRUE
  PROVE  Types'
<1>1. /\ tree' = tree /\ edits' = edits /\ restores' = restores /\ backup' = backup
      /\ refused' = refused
      /\ running_' = running_ /\ pause_execution' = pause_execution
  BY DEF WatcherKeeps, folderVars, flagVars, serverVars
<1>2. running_' \in BOOLEAN /\ pause_execution' \in BOOLEAN
  BY <1>1 DEF Types, TypeOK
<1>3. failed' \in BOOLEAN
  BY DEF Types, TypeOK
<1>4. TypeOK'
  BY <1>1, <1>2, <1>3 DEF Types, TypeOK
<1>5. QED
  BY <1>4 DEF Types

LEMMA FolderStays ==
  ASSUME WatcherKeeps
  PROVE  /\ backup' = backup /\ refused' = refused /\ edits' = edits /\ tree' = tree /\ Existing' = Existing
         /\ \A p : /\ HashAt(p)' = HashAt(p) /\ TimeAt(p)' = TimeAt(p)
                   /\ IsDirectory(p)' <=> IsDirectory(p)
BY DEF WatcherKeeps, folderVars, serverVars, HashAt, TimeAt, Existing, IsDirectory

\* A step that passes a path by, or goes on to another part of the loop.
LEMMA MovesOn ==
  ASSUME Types, WatcherKeeps, watcher' \in Position,
         {watcher.pc, watcher'.pc} \cap {"record", "notify", "hashed"} = {},
         watcher'.pc \in InitPc => watcher.pc \in InitPc,
         watcher'.pc \in InitPc \/ watcher.pc \notin InitPc \/ \A p \in Path : initial_status[p] = None,
         UNCHANGED <<paths_, initial_status, actions, failed>>
  PROVE  Types' /\ (Inv => Inv')
<1>1. AtHand'
  BY DEF AtHand
<1>2. Types'
  BY <1>1, TypesFrom DEF Types, TypeOK
<1>3. ASSUME Good PROVE Good'
  <2>1. Dated'
    BY <1>3, FolderStays DEF Good, Dated
  <2>2. Comparing'
    BY <1>3 DEF Good, Comparing
  <2>3. ASSUME NEW p \in Path PROVE PathOK(p)'
    BY <1>3, FolderStays, OthersStay DEF Good, Handled
  <2>4. QED
    BY <2>1, <2>2, <2>3 DEF Good
<1>4. QED
  BY <1>2, <1>3 DEF Inv

\* The end of init_status, and that of a pass.
LEMMA Rests ==
  ASSUME Types, watcher' = At(IF running_ THEN "sleep" ELSE "done", {}, {})
  PROVE  watcher' \in Position /\ watcher'.pc \in {"sleep", "done"}
<1>1. At("sleep", {}, {}) \in Position /\ At("sleep", {}, {}).pc = "sleep"
  BY {} \in SUBSET Path, "sleep" \in InitPc \cup ScanPc \cup {"sleep", "done", "failed"},
     Positions, Zenon
<1>2. At("done", {}, {}) \in Position /\ At("done", {}, {}).pc = "done"
  BY {} \in SUBSET Path, "done" \in InitPc \cup ScanPc \cup {"sleep", "done", "failed"},
     Positions, Zenon
<1>3. CASE running_
  BY <1>1, <1>3
<1>4. CASE ~running_
  BY <1>2, <1>4
<1>5. QED
  BY <1>3, <1>4

LEMMA Throws ==
  ASSUME Types, Throw, WatcherKeeps
  PROVE  Types' /\ (Inv => Inv')
<1>1. watcher' \in Position /\ watcher'.pc = "failed"
  <2>1. At("failed", {}, {}) \in Position /\ At("failed", {}, {}).pc = "failed"
    BY {} \in SUBSET Path, "failed" \in InitPc \cup ScanPc \cup {"sleep", "done", "failed"},
       Positions, Zenon
  <2>2. QED
    BY <2>1 DEF Throw
<1>2. AtHand'
  BY <1>1 DEF AtHand
<1>3. Types'
  BY <1>1, <1>2, TypesFrom DEF Types, TypeOK, Throw
<1>4. QED
  BY <1>3 DEF Throw, Inv

-----------------------------------------------------------------------------
\* init_status

LEMMA InitStatusKeeps ==
  ASSUME Types, NEW p \in Path, init_status(p)
  PROVE  Types' /\ (Inv => Inv')
<1> USE DEF InitPc
<1>1. p \in watcher.todo /\ WatcherKeeps /\ watcher.pc = "init"
  BY DEF init_status, Visited, Skip, PassedBy, Vanished
<1>2. CASE /\ Visited(p) /\ initial_status[p] # None
           /\ watcher' = [watcher EXCEPT !.pc = "hashed", !.path = p, !.found = tree[p].hash,
                                      !.todo = @ \ {p}]
           /\ UNCHANGED <<paths_, initial_status, actions, failed>>
  <2>1. tree[p].hash \in Contents
    BY <1>2 DEF Visited, Existing, Types, TypeOK
  <2>2. /\ watcher' \in Position /\ watcher'.pc = "hashed" /\ watcher'.path = p
        /\ watcher'.found = tree[p].hash
    BY <1>2, <2>1 DEF Position, Types, TypeOK
  <2>3. AtHand'
    BY <2>2 DEF AtHand
  <2>4. Types'
    BY <1>1, <1>2, <2>2, <2>3, TypesFrom DEF Types, TypeOK
  <2>5. ASSUME Good PROVE Good'
    <3>1. Dated'
      BY <1>1, <1>2, <2>5, FolderStays DEF Good, Dated
    <3>2. Comparing'
      BY <1>1, <1>2, <2>2, FolderStays DEF Comparing, Visited
    <3>3. ASSUME NEW q \in Path PROVE PathOK(q)'
      BY <1>1, <1>2, <2>2, <2>5, FolderStays, OthersStay DEF Good, Handled
    <3>4. QED
      BY <3>1, <3>2, <3>3 DEF Good
  <2>6. QED
    BY <1>2, <2>4, <2>5 DEF Inv
<1>3. CASE /\ Visited(p) /\ initial_status[p] = None
           /\ action(p, "created")
           /\ watcher' = [watcher EXCEPT !.pc = "record", !.path = p, !.todo = @ \ {p}]
           /\ UNCHANGED <<paths_, initial_status, failed>>
  <2> DEFINE a == [type |-> ActionType(p, "created"), path |-> p]
  <2>1. /\ watcher' \in Position /\ watcher'.pc = "record" /\ watcher'.path = p
    BY <1>3, PositionsOf
  <2>2. /\ a \in Act /\ actions' \in Seq(Act) /\ actions \in Seq(Act)
        /\ actions' = Append(actions, a)
    BY <1>3, Pushed DEF action, Types, TypeOK
  <2>3. AtHand'
    BY <2>1 DEF AtHand
  <2>4. Types'
    BY <1>1, <1>3, <2>1, <2>2, <2>3, TypesFrom DEF Types, TypeOK
  <2>5. ASSUME Good PROVE Good'
    <3>1. Dated'
      BY <1>1, <1>3, <2>5, FolderStays DEF Good, Dated
    <3>2. Comparing'
      BY <1>1, <1>3, <2>1, FolderStays DEF Comparing, Visited
    <3>3. ASSUME NEW q \in Path, q # p PROVE PathOK(q)'
      BY <1>1, <1>3, <2>1, <2>2, <2>5, <3>3, FolderStays, OthersStay DEF Good, Handled
    <3>4. PathOK(p)'
      <4>1. ActionType(p, "created") = IF HashAt(p) = "dir" THEN "create_folder" ELSE "read_file"
        BY <1>3 DEF ActionType, IsDirectory, HashAt, Visited
      <4>2. /\ a.type \in GoodTypes(p)' /\ a.type \in {"read_file", "create_folder"}
            /\ a.type # "ignore" /\ a.path = p
        BY <1>1, <4>1, FolderStays DEF GoodTypes
      <4>3. /\ WillBe(actions', refused', backup'[p], p, {"read_file", "create_folder"}, Contents)
            /\ WillBe(actions', refused', backup'[p], p, GoodTypes(p)', GoodContents(p)')
        BY <2>2, <4>2, PushWillBe
      <4>4. Untouched(p)'
        BY <1>3 DEF Untouched
      <4>5. Presence(p)'
        BY <2>1, <4>3 DEF Presence, Known
      <4>6. Faithful(p)'
        BY <4>3 DEF Faithful
      <4>7. QED
        BY <4>4, <4>5, <4>6 DEF PathOK
    <3>5. QED
      BY <3>1, <3>2, <3>3, <3>4 DEF Good
  <2>6. QED
    BY <1>3, <2>4, <2>5 DEF Inv
<1>4. CASE Skip(p)
  <2>1. /\ watcher' \in Position /\ watcher'.pc = "init"
        /\ UNCHANGED <<paths_, initial_status, actions, failed>>
    BY <1>1, <1>4, PositionsOf DEF Skip
  <2>2. QED
    BY <1>1, <2>1, MovesOn
<1>5. CASE Throw
  BY <1>1, <1>5, Throws
<1>6. QED
  BY <1>2, <1>3, <1>4, <1>5 DEF init_status

LEMMA InitCompareKeeps ==
  ASSUME Types, init_compare
  PROVE  Types' /\ (Inv => Inv')
<1>1. PICK p \in Path : p = watcher.path /\ WatcherKeeps /\ watcher.pc = "hashed"
  BY DEF init_compare, Types, AtHand
<1> DEFINE a == [type |-> ActionType(p, "modified"), path |-> p]
<1>2. CASE /\ p \in Existing
           /\ IF watcher.found # initial_status[p] THEN action(p, "modified") ELSE UNCHANGED actions
           /\ initial_status' = [initial_status EXCEPT ![p] = None]
           /\ watcher' = [watcher EXCEPT !.pc = "record"]
           /\ UNCHANGED <<paths_, failed>>
  <2>1. watcher' \in Position /\ watcher'.pc = "record" /\ watcher'.path = p
    BY <1>1, <1>2, Positions DEF InitPc
  <2>2. /\ actions \in Seq(Act) /\ actions' \in Seq(Act)
        /\ \/ a \in Act /\ actions' = Append(actions, a) /\ watcher.found # initial_status[p]
           \/ actions' = actions /\ watcher.found = initial_status[p]
    <3>1. actions \in Seq(Act)
      BY DEF Types, TypeOK
    <3>2. CASE watcher.found # initial_status[p]
      BY <1>1, <1>2, <3>1, <3>2, Pushed DEF action
    <3>3. CASE watcher.found = initial_status[p]
      BY <1>2, <3>1, <3>3
    <3>4. QED
      BY <3>2, <3>3
  <2>3. AtHand'
    BY <1>1, <2>1 DEF AtHand
  <2>4. /\ initial_status' \in [Path -> Contents \cup {None}] /\ initial_status'[p] = None
        /\ \A q \in Path : q # p => initial_status'[q] = initial_status[q]
    BY <1>1, <1>2 DEF Types, TypeOK
  <2>5. Types'
    BY <1>1, <1>2, <2>1, <2>2, <2>3, <2>4, TypesFrom DEF Types, TypeOK
  <2>6. ASSUME Good PROVE Good'
    <3>1. Dated'
      BY <1>1, <1>2, <2>6, FolderStays DEF Good, Dated
    <3>2. Comparing'
      BY <1>1, <1>2, <2>1, <2>4, FolderStays DEF Comparing, InitPc
    <3>3. ASSUME NEW q \in Path, q # p PROVE PathOK(q)'
      <4>1. ~Handled(q) /\ ~Handled(q)' /\ PathOK(q)
        BY <1>1, <2>1, <2>6, <3>3 DEF Handled, Good
      <4>2. actions' = actions \/ \E c \in Act : c.path # q /\ actions' = Append(actions, c)
        BY <2>2, <3>3
      <4>3. QED
        BY <1>1, <1>2, <2>4, <3>3, <4>1, <4>2, FolderStays, OthersStay
    <3>4. PathOK(p)'
      <4>1. /\ HashAt(p) = watcher.found /\ HashAt(p) \in Contents
            /\ backup[p] = initial_status[p] /\ backup[p] \in Contents
            /\ \A i \in 1 .. Len(actions) : actions[i].path # p
        BY <1>1, <1>2, <2>6 DEF Good, Comparing, PathOK, Untouched, HashAt, Existing, Types, TypeOK
      <4>2. \A T, B : backup[p] \in B => WillBe(actions, refused, backup[p], p, T, B)
        BY <4>1 DEF WillBe, Says
      <4>3. \A T, B : /\ {"read_file", "create_folder"} \cap GoodTypes(p) \subseteq T
                      /\ Contents \cap GoodContents(p) \subseteq B
                      => WillBe(actions', refused', backup'[p], p, T, B)
        <5>1. SUFFICES ASSUME NEW T, NEW B,
                              {"read_file", "create_folder"} \cap GoodTypes(p) \subseteq T,
                              Contents \cap GoodContents(p) \subseteq B
                       PROVE  WillBe(actions', refused', backup'[p], p, T, B)
          OBVIOUS
        <5>2. backup' = backup /\ refused' = refused /\ "read_file" \in T
          BY <1>1, <5>1, FolderStays DEF GoodTypes
        <5>3. CASE watcher.found = initial_status[p]
          BY <2>2, <4>1, <4>2, <5>1, <5>2, <5>3 DEF GoodContents
        <5>4. CASE watcher.found # initial_status[p] /\ IsDirectory(p)
          <6>1. backup[p] \in GoodContents(p) /\ a.type = "ignore"
            BY <4>1, <5>4 DEF GoodContents, Contents, IsDirectory, HashAt, ActionType
          <6>2. WillBe(actions, refused, backup[p], p, T, B)
            BY <4>1, <4>2, <5>1, <6>1
          <6>3. QED
            BY <2>2, <5>2, <5>4, <6>1, <6>2, PushWillBe
        <5>5. CASE watcher.found # initial_status[p] /\ ~IsDirectory(p)
          <6>1. a.type = "read_file" /\ a.path = p
            BY <5>5 DEF ActionType
          <6>2. QED
            BY <2>2, <5>2, <5>5, <6>1, PushWillBe
        <5>6. QED
          BY <5>3, <5>4, <5>5
      <4>4. GoodTypes(p)' = GoodTypes(p) /\ GoodContents(p)' = GoodContents(p)
        BY <1>1, FolderStays DEF GoodTypes, GoodContents
      <4>5. Presence(p)'
        BY <2>1, <4>3 DEF Presence, Known
      <4>6. Faithful(p)'
        BY <4>3, <4>4 DEF Faithful
      <4>7. Untouched(p)'
        BY <2>4 DEF Untouched
      <4>8. QED
        BY <4>5, <4>6, <4>7 DEF PathOK
    <3>5. QED
      BY <3>1, <3>2, <3>3, <3>4 DEF Good
  <2>7. QED
    BY <1>2, <2>5, <2>6 DEF Inv
<1>3. QED
  BY <1>1, <1>2, Throws DEF init_compare

LEMMA InitRecordKeeps ==
  ASSUME Types, init_record
  PROVE  Types' /\ (Inv => Inv')
<1>1. PICK p \in Path : p = watcher.path /\ WatcherKeeps /\ watcher.pc = "record"
  BY DEF init_record, Types, AtHand
<1>2. CASE /\ p \in Existing
           /\ paths_' = [paths_ EXCEPT ![p] = tree[p].time]
           /\ watcher' = At("init", watcher.todo, watcher.there)
           /\ UNCHANGED <<initial_status, actions, failed>>
  <2>1. watcher' \in Position /\ watcher'.pc = "init"
    <3>1. watcher.todo \in SUBSET Path /\ watcher.there \in SUBSET Path
      BY DEF Types, TypeOK, Position
    <3>2. QED
      BY <1>2, <3>1, Positions DEF InitPc
  <2>2. AtHand'
    BY <2>1 DEF AtHand
  <2>3. tree[p].time \in 0 .. MaxEdits /\ tree[p].time # None
    BY <1>2, WatcherAssumption DEF Types, TypeOK, Existing
  <2>4. /\ paths_' \in [Path -> (0 .. MaxEdits) \cup {None}] /\ paths_'[p] = tree[p].time
        /\ \A q \in Path : q # p => paths_'[q] = paths_[q]
    BY <1>2, <2>3 DEF Types, TypeOK
  <2>5. Types'
    BY <1>1, <1>2, <2>1, <2>2, <2>4, TypesFrom DEF Types, TypeOK
  <2>6. ASSUME Good PROVE Good'
    <3>1. Dated'
      BY <1>1, <1>2, <2>4, <2>6, FolderStays DEF Good, Dated
    <3>2. Comparing'
      BY <2>1 DEF Comparing, InitPc
    <3>3. ASSUME NEW q \in Path, q # p PROVE PathOK(q)'
      <4>1. ~Handled(q) /\ ~Handled(q)' /\ PathOK(q)
        BY <1>1, <2>1, <2>6, <3>3 DEF Handled, Good
      <4>2. QED
        BY <1>1, <1>2, <2>4, <3>3, <4>1, FolderStays, OthersStay
    <3>4. PathOK(p)'
      <4>1. initial_status[p] = None /\ Presence(p) /\ Faithful(p) /\ Known(p) /\ Seen(p)
        BY <1>1, <2>6 DEF Good, Comparing, PathOK, Known, Seen
      <4>2. /\ GoodTypes(p)' = GoodTypes(p) /\ GoodContents(p)' = GoodContents(p)
            /\ backup' = backup /\ refused' = refused
        BY <1>1, FolderStays DEF GoodTypes, GoodContents
      <4>3. Known(p)'
        BY <2>1, <2>3, <2>4 DEF Known
      <4>4. Untouched(p)' /\ Presence(p)' /\ Faithful(p)'
        BY <1>2, <4>1, <4>2, <4>3 DEF Untouched, Presence, Faithful
      <4>5. QED
        BY <4>4 DEF PathOK
    <3>5. QED
      BY <3>1, <3>2, <3>3, <3>4 DEF Good
  <2>7. QED
    BY <1>2, <2>5, <2>6 DEF Inv
<1>3. QED
  BY <1>1, <1>2, Throws DEF init_record

LEMMA InitErasedKeeps ==
  ASSUME Types, init_erased
  PROVE  Types' /\ (Inv => Inv')
<1>1. WatcherKeeps /\ watcher.pc = "init"
  BY DEF init_erased
<1>2. ASSUME NEW p \in Path,
             initial_status[p] # None, action(p, "erased"),
             initial_status' = [initial_status EXCEPT ![p] = None],
             UNCHANGED <<watcher, paths_, failed>>
      PROVE  Types' /\ (Inv => Inv')
  <2> DEFINE a == [type |-> ActionType(p, "erased"), path |-> p]
  <2>1. /\ a \in Act /\ actions \in Seq(Act) /\ actions' \in Seq(Act)
        /\ actions' = Append(actions, a)
    BY <1>2, Pushed DEF action, Types, TypeOK
  <2>2. /\ initial_status' \in [Path -> Contents \cup {None}] /\ initial_status'[p] = None
        /\ \A q \in Path : q # p => initial_status'[q] = initial_status[q]
    BY <1>2 DEF Types, TypeOK
  <2>3. AtHand'
    BY <1>2 DEF AtHand, Types
  <2>4. Types'
    BY <1>1, <1>2, <2>1, <2>2, <2>3, TypesFrom DEF Types, TypeOK
  <2>5. ASSUME Good PROVE Good'
    <3>1. Dated'
      BY <1>1, <1>2, <2>5, FolderStays DEF Good, Dated
    <3>2. Comparing'
      BY <1>1, <1>2 DEF Comparing, InitPc
    <3>3. ASSUME NEW q \in Path, q # p PROVE PathOK(q)'
      <4>1. ~Handled(q) /\ ~Handled(q)' /\ PathOK(q)
        BY <1>1, <1>2, <2>5 DEF Handled, Good
      <4>2. a.path # q
        BY <3>3
      <4>3. QED
        BY <1>1, <1>2, <2>1, <2>2, <3>3, <4>1, <4>2, FolderStays, OthersStay
    <3>4. PathOK(p)'
      <4>1. paths_[p] = None /\ ~Known(p)'
        BY <1>1, <1>2, <2>5 DEF Good, PathOK, Untouched, Known
      <4>2. a.type = "delete_path" /\ a.path = p
        BY DEF ActionType
      <4>3. \A T, B : "delete_path" \in T => WillBe(actions', refused', backup'[p], p, T, B)
        BY <2>1, <4>2, PushWillBe
      <4>4. Seen(p)' => HashAt(p)' = None
        BY <1>1, <1>2, <4>1, FolderStays, WatcherAssumption
        DEF Seen, TimeAt, HashAt, Existing, Types, TypeOK
      <4>5. Presence(p)'
        BY <4>1, <4>3 DEF Presence
      <4>6. Seen(p)' => "delete_path" \in GoodTypes(p)'
        BY <4>4 DEF GoodTypes
      <4>7. Faithful(p)'
        BY <4>3, <4>6 DEF Faithful
      <4>8. QED
        BY <2>2, <4>5, <4>7 DEF PathOK, Untouched
    <3>5. QED
      BY <3>1, <3>2, <3>3, <3>4 DEF Good
  <2>6. QED
    BY <1>2, <2>4, <2>5 DEF Inv
<1>3. ASSUME \A p \in Path : initial_status[p] = None,
             watcher' = At(IF running_ THEN "sleep" ELSE "done", {}, {}),
             UNCHANGED <<initial_status, actions, paths_, failed>>
      PROVE  Types' /\ (Inv => Inv')
  BY <1>1, <1>3, Rests, MovesOn DEF InitPc
<1>4. QED
  BY <1>2, <1>3 DEF init_erased

-----------------------------------------------------------------------------
\* The loop of start()

LEMMA WakeKeeps ==
  ASSUME Types, wake
  PROVE  Types' /\ (Inv => Inv')
<1>1. Recorded \in SUBSET Path /\ {} \in SUBSET Path
  BY DEF Recorded
<1>2. watcher' \in Position /\ watcher'.pc = "erase"
  BY <1>1, Positions DEF wake, ScanPc
<1>3. QED
  BY <1>2, MovesOn DEF wake, InitPc

LEMMA ScanErasedKeeps ==
  ASSUME Types, scan_erased
  PROVE  Types' /\ (Inv => Inv')
<1>1. WatcherKeeps /\ watcher.pc = "erase" /\ UNCHANGED <<initial_status, failed>>
  BY DEF scan_erased
<1>2. ASSUME NEW p \in Path,
             p \notin Existing, action(p, "erased"),
             watcher' = [watcher EXCEPT !.todo = @ \ {p}],
             paths_' = [paths_ EXCEPT ![p] = None]
      PROVE  Types' /\ (Inv => Inv')
  <2> DEFINE a == [type |-> ActionType(p, "erased"), path |-> p]
  <2>1. /\ a \in Act /\ actions \in Seq(Act) /\ actions' \in Seq(Act)
        /\ actions' = Append(actions, a)
    BY <1>2, Pushed DEF action, Types, TypeOK
  <2>2. /\ paths_' \in [Path -> (0 .. MaxEdits) \cup {None}] /\ paths_'[p] = None
        /\ \A q \in Path : q # p => paths_'[q] = paths_[q]
    BY <1>2 DEF Types, TypeOK
  <2>3. watcher' \in Position /\ watcher'.pc = "erase" /\ AtHand'
    BY <1>1, <1>2, PositionsOf DEF AtHand
  <2>4. Types'
    BY <1>1, <1>2, <2>1, <2>2, <2>3, TypesFrom DEF Types, TypeOK
  <2>5. ASSUME Good PROVE Good'
    <3>1. Dated'
      BY <1>1, <2>2, <2>5, FolderStays DEF Good, Dated
    <3>2. Comparing'
      BY <1>1, <2>3, <2>5 DEF Good, Comparing, InitPc
    <3>3. ASSUME NEW q \in Path, q # p PROVE PathOK(q)'
      <4>1. ~Handled(q) /\ ~Handled(q)' /\ PathOK(q)
        BY <1>1, <2>3, <2>5 DEF Handled, Good
      <4>2. a.path # q
        BY <3>3
      <4>3. QED
        BY <1>1, <2>1, <2>2, <3>3, <4>1, <4>2, FolderStays, OthersStay
    <3>4. PathOK(p)'
      <4>1. initial_status'[p] = None /\ ~Known(p)'
        BY <1>1, <2>2, <2>3, <2>5 DEF Good, Comparing, InitPc, Known
      <4>2. a.type = "delete_path" /\ a.path = p
        BY DEF ActionType
      <4>3. \A T, B : "delete_path" \in T => WillBe(actions', refused', backup'[p], p, T, B)
        BY <2>1, <4>2, PushWillBe
      <4>4. HashAt(p)' = None
        BY <1>1, <1>2, FolderStays DEF HashAt
      <4>5. Presence(p)'
        BY <4>1, <4>3 DEF Presence
      <4>6. "delete_path" \in GoodTypes(p)'
        BY <4>4 DEF GoodTypes
      <4>7. Faithful(p)'
        BY <4>3, <4>6 DEF Faithful
      <4>8. QED
        BY <4>1, <4>5, <4>7 DEF PathOK, Untouched
    <3>5. QED
      BY <3>1, <3>2, <3>3, <3>4 DEF Good
  <2>6. QED
    BY <1>1, <2>4, <2>5 DEF Inv
<1>3. ASSUME NEW p \in Path,
             watcher' = [watcher EXCEPT !.todo = @ \ {p}],
             UNCHANGED <<paths_, actions>>
      PROVE  Types' /\ (Inv => Inv')
  <2>1. watcher' \in Position /\ watcher'.pc = "erase"
    BY <1>1, <1>3, PositionsOf
  <2>2. QED
    BY <1>1, <1>3, <2>1, MovesOn DEF InitPc
<1>4. ASSUME watcher' = At("scan", Path, Existing),
             UNCHANGED <<paths_, actions>>
      PROVE  Types' /\ (Inv => Inv')
  <2>1. Path \in SUBSET Path /\ Existing \in SUBSET Path
    BY DEF Existing
  <2>2. watcher' \in Position /\ watcher'.pc = "scan"
    BY <1>4, <2>1, Positions DEF ScanPc
  <2>3. QED
    BY <1>1, <1>4, <2>2, MovesOn DEF InitPc
<1>5. watcher.todo \subseteq Path
  BY DEF Types, TypeOK, Position
<1>6. QED
  BY <1>2, <1>3, <1>4, <1>5 DEF scan_erased

LEMMA ScanKeeps ==
  ASSUME Types, NEW p \in Path, scan(p)
  PROVE  Types' /\ (Inv => Inv')
<1>1. WatcherKeeps /\ watcher.pc = "scan"
  BY DEF scan
<1>2. CASE /\ Visited(p) /\ paths_[p] # tree[p].time
           /\ paths_' = [paths_ EXCEPT ![p] = tree[p].time]
           /\ watcher' = [watcher EXCEPT !.pc = "notify", !.path = p,
                            !.found = IF paths_[p] = None THEN "created" ELSE "modified",
                            !.todo = @ \ {p}]
           /\ UNCHANGED <<initial_status, actions, failed>>
  <2>1. /\ watcher' \in Position /\ watcher'.pc = "notify" /\ watcher'.path = p
        /\ watcher'.found = IF paths_[p] = None THEN "created" ELSE "modified"
    BY <1>2 DEF Position, Types, TypeOK, ScanPc
  <2>2. AtHand'
    BY <2>1 DEF AtHand
  <2>3. tree[p].time \in 0 .. MaxEdits /\ tree[p].time # None
    BY <1>2, WatcherAssumption DEF Types, TypeOK, Existing, Visited
  <2>4. /\ paths_' \in [Path -> (0 .. MaxEdits) \cup {None}] /\ paths_'[p] = tree[p].time
        /\ \A q \in Path : q # p => paths_'[q] = paths_[q]
    BY <1>2, <2>3 DEF Types, TypeOK
  <2>5. Types'
    BY <1>1, <1>2, <2>1, <2>2, <2>4, TypesFrom DEF Types, TypeOK
  <2>6. ASSUME Good PROVE Good'
    <3>1. Dated'
      BY <1>1, <1>2, <2>4, <2>6, FolderStays DEF Good, Dated, Visited
    <3>2. Comparing'
      BY <1>1, <1>2, <2>1, <2>3, <2>4, <2>6 DEF Good, Comparing, InitPc, Recorded
    <3>3. ASSUME NEW q \in Path, q # p PROVE PathOK(q)'
      <4>1. ~Handled(q) /\ ~Handled(q)' /\ PathOK(q)
        BY <1>1, <2>1, <2>6, <3>3 DEF Handled, Good
      <4>2. QED
        BY <1>1, <1>2, <2>4, <3>3, <4>1, FolderStays, OthersStay
    <3>4. PathOK(p)'
      <4>1. initial_status'[p] = None /\ Presence(p)
        BY <1>1, <1>2, <2>6 DEF Good, Comparing, InitPc, PathOK
      <4>2. Known(p)' <=> Known(p)
        BY <1>1, <2>1, <2>3, <2>4 DEF Known
      <4>3. ~Seen(p)'
        BY <2>1 DEF Seen
      <4>4. Presence(p)'
        BY <1>1, <1>2, <4>1, <4>2, FolderStays DEF Presence
      <4>5. QED
        BY <4>1, <4>3, <4>4 DEF PathOK, Untouched, Faithful
    <3>5. QED
      BY <3>1, <3>2, <3>3, <3>4 DEF Good
  <2>7. QED
    BY <1>2, <2>5, <2>6 DEF Inv
<1>3. ASSUME watcher' = [watcher EXCEPT !.todo = @ \ {p}],
             UNCHANGED <<paths_, initial_status, actions, failed>>
      PROVE  Types' /\ (Inv => Inv')
  <2>1. watcher' \in Position /\ watcher'.pc = "scan"
    BY <1>1, <1>3, PositionsOf
  <2>2. QED
    BY <1>1, <1>3, <2>1, MovesOn DEF InitPc
<1>4. QED
  BY <1>1, <1>2, <1>3, Throws DEF scan, Skip

LEMMA ScanNotifyKeeps ==
  ASSUME Types, scan_notify
  PROVE  Types' /\ (Inv => Inv')
<1>1. PICK p \in Path, fileStatus \in {"created", "modified"} :
        /\ p = watcher.path /\ fileStatus = watcher.found
        /\ WatcherKeeps /\ watcher.pc = "notify" /\ action(p, fileStatus)
        /\ watcher' = At("scan", watcher.todo, watcher.there)
        /\ UNCHANGED <<paths_, initial_status, failed>>
  BY DEF scan_notify, Types, AtHand
<1> DEFINE a == [type |-> ActionType(p, fileStatus), path |-> p]
<1>2. /\ a \in Act /\ actions \in Seq(Act) /\ actions' \in Seq(Act)
      /\ actions' = Append(actions, a)
  BY <1>1, Pushed DEF action, Types, TypeOK
<1>3. watcher' \in Position /\ watcher'.pc = "scan"
  <2>1. watcher.todo \in SUBSET Path /\ watcher.there \in SUBSET Path
    BY DEF Types, TypeOK, Position
  <2>2. QED
    BY <1>1, <2>1, Positions DEF ScanPc
<1>4. AtHand'
  BY <1>3 DEF AtHand
<1>5. Types'
  BY <1>1, <1>2, <1>3, <1>4, TypesFrom DEF Types, TypeOK
<1>6. ASSUME Good PROVE Good'
  <2>1. Dated'
    BY <1>1, <1>6, FolderStays DEF Good, Dated
  <2>2. Comparing'
    BY <1>1, <1>3, <1>6 DEF Good, Comparing, InitPc
  <2>3. ASSUME NEW q \in Path, q # p PROVE PathOK(q)'
    <3>1. ~Handled(q) /\ ~Handled(q)' /\ PathOK(q)
      BY <1>1, <1>3, <1>6, <2>3 DEF Handled, Good
    <3>2. a.path # q
      BY <2>3
    <3>3. QED
      BY <1>1, <1>2, <2>3, <3>1, <3>2, FolderStays, OthersStay
  <2>4. PathOK(p)'
    <3>1. /\ initial_status'[p] = None /\ initial_status[p] = None
          /\ Presence(p) /\ paths_'[p] # None /\ paths_[p] # None
      BY <1>1, <1>6 DEF Good, Comparing, InitPc, PathOK, Recorded
    <3>2. Known(p)'
      BY <1>3, <3>1 DEF Known
    <3>3. IsDirectory(p) => HashAt(p) = "dir"
      BY DEF IsDirectory, HashAt
    <3>4. \A T, B : /\ {"read_file", "create_folder"} \cap GoodTypes(p) \subseteq T
                    /\ Contents \subseteq B \/ GoodContents(p) \subseteq B
                    => WillBe(actions', refused', backup'[p], p, T, B)
      <4>1. SUFFICES ASSUME NEW T, NEW B,
                            {"read_file", "create_folder"} \cap GoodTypes(p) \subseteq T,
                            Contents \subseteq B \/ GoodContents(p) \subseteq B
                     PROVE  WillBe(actions', refused', backup'[p], p, T, B)
        OBVIOUS
      <4>2. backup' = backup /\ refused' = refused /\ "read_file" \in T
        BY <1>1, <4>1, FolderStays DEF GoodTypes
      <4>3. CASE a.type # "ignore"
        <5>1. a.type \in {"read_file", "create_folder"} /\ a.type \in GoodTypes(p)
          BY <1>1, <3>3, <4>3 DEF ActionType, GoodTypes
        <5>2. QED
          BY <1>2, <4>1, <4>3, <5>1, PushWillBe
      <4>4. CASE a.type = "ignore"
        <5>1. IsDirectory(p) /\ fileStatus = "modified"
          BY <1>1, <4>4 DEF ActionType
        <5>2. WillBe(actions, refused, backup[p], p, {"read_file", "create_folder"}, Contents)
          BY <1>1, <3>1, <5>1 DEF Presence, Known
        <5>3. {"read_file", "create_folder"} \subseteq T /\ Contents \subseteq B
          BY <3>3, <4>1, <5>1 DEF GoodTypes, GoodContents, Contents
        <5>4. WillBe(actions, refused, backup[p], p, T, B)
          BY <5>2, <5>3, WillBeMore
        <5>5. QED
          BY <1>2, <4>2, <4>4, <5>4, PushWillBe
      <4>5. QED
        BY <4>3, <4>4
    <3>5. GoodTypes(p)' = GoodTypes(p) /\ GoodContents(p)' = GoodContents(p)
      BY <1>1, FolderStays DEF GoodTypes, GoodContents
    <3>6. Presence(p)'
      BY <3>2, <3>4 DEF Presence
    <3>7. Faithful(p)'
      BY <3>4, <3>5 DEF Faithful
    <3>8. QED
      BY <3>1, <3>6, <3>7 DEF PathOK, Untouched
  <2>5. QED
    BY <2>1, <2>2, <2>3, <2>4 DEF Good
<1>7. QED
  BY <1>1, <1>5, <1>6 DEF Inv

LEMMA ScanEndKeeps ==
  ASSUME Types, scan_end
  PROVE  Types' /\ (Inv => Inv')
BY Rests, MovesOn DEF scan_end, InitPc

LEMMA WatcherStepKeeps ==
  ASSUME Types, Watcher
  PROVE  Types' /\ (Inv => Inv')
BY InitStatusKeeps, InitCompareKeeps, InitRecordKeeps, InitErasedKeeps, WakeKeeps,
   ScanErasedKeeps, ScanKeeps, ScanNotifyKeeps, ScanEndKeeps DEF Watcher

-----------------------------------------------------------------------------
\* The folder changes, and what the watcher has recorded is not what it was.

LEMMA EditTypes ==
  ASSUME Types, NEW p \in Path, NEW content \in Content[p] \cup {None}, Edit(p, content)
  PROVE  Types'
<1> DEFINE entry == IF content = None THEN None ELSE [hash |-> content, time |-> edits + 1]
<1>1. edits' = edits + 1 /\ edits' \in 0 .. MaxEdits
  BY WatcherAssumption DEF Edit, Types, TypeOK
<1>2. content \in Contents \cup {None}
  BY WatcherAssumption DEF Contents
<1>3. entry \in [hash : Contents, time : 0 .. MaxEdits] \cup {None}
  BY <1>1, <1>2
<1>4. tree' = [tree EXCEPT ![p] = entry]
  BY DEF Edit
<1>5. tree' \in [Path -> [hash : Contents, time : 0 .. MaxEdits] \cup {None}]
  BY <1>3, <1>4 DEF Types, TypeOK
<1>6. /\ UNCHANGED <<initial_status, paths_, watcher, actions, backup, refused, restores>>
      /\ running_' = running_ /\ pause_execution' = pause_execution /\ failed' = failed
  BY DEF Edit, flagVars, serverVars
<1>7. running_' \in BOOLEAN /\ pause_execution' \in BOOLEAN /\ failed' \in BOOLEAN
  BY <1>6 DEF Types, TypeOK
<1>8. TypeOK'
  BY <1>1, <1>5, <1>6, <1>7 DEF Types, TypeOK
<1>9. AtHand'
  BY <1>6 DEF Types, AtHand
<1>10. QED
  BY <1>8, <1>9 DEF Types

LEMMA EditKeeps ==
  ASSUME Types, Good, ~InitEdits,
         NEW p \in Path, NEW content \in Content[p] \cup {None}, Edit(p, content)
  PROVE  Good'
<1>1. /\ watcher.pc \notin InitPc /\ edits' = edits + 1 /\ edits \in Nat
      /\ UNCHANGED <<initial_status, paths_, watcher, actions, backup, refused, failed>>
  BY WatcherAssumption DEF Edit, serverVars, Types, TypeOK
<1>2. /\ content = None => tree'[p] = None
      /\ content # None => tree'[p] = [hash |-> content, time |-> edits + 1]
      /\ \A q \in Path : q # p => tree'[q] = tree[q]
  BY DEF Edit, Types, TypeOK
<1>3. \A q \in Path : paths_[q] # None => paths_[q] \in Nat /\ paths_[q] <= edits
  BY WatcherAssumption DEF Good, Dated, Types, TypeOK
<1>4. Dated'
  <2>1. ASSUME NEW q \in Path PROVE q \in Existing' => tree'[q].time <= edits + 1
    <3>1. CASE q = p
      BY <1>1, <1>2, <3>1 DEF Existing
    <3>2. CASE q # p
      <4>1. q \in Existing' => q \in Existing /\ tree[q].time \in Nat /\ tree[q].time <= edits
        BY <1>2, <3>2, WatcherAssumption DEF Existing, Good, Dated, Types, TypeOK
      <4>2. QED
        BY <1>1, <1>2, <3>2, <4>1
    <3>3. QED
      BY <3>1, <3>2
  <2>2. QED
    BY <1>1, <1>3, <2>1 DEF Dated
<1>5. Comparing'
  BY <1>1 DEF Good, Comparing, InitPc, Recorded
<1>6. ASSUME NEW q \in Path, q # p PROVE PathOK(q)'
  <2>1. HashAt(q)' = HashAt(q) /\ TimeAt(q)' = TimeAt(q)
    BY <1>2, <1>6 DEF HashAt, TimeAt, Existing
  <2>2. QED
    BY <1>1, <2>1, OthersStay DEF Good
<1>7. PathOK(p)'
  <2>1. /\ initial_status[p] = None /\ watcher.pc # "record" /\ Presence(p)
        /\ (Known(p)' <=> Known(p))
    BY <1>1 DEF Good, Comparing, InitPc, PathOK, Known
  <2>2. Presence(p)' /\ Untouched(p)'
    BY <1>1, <2>1 DEF Presence, Untouched
  <2>3. ASSUME Seen(p)' PROVE HashAt(p)' = None /\ ~Known(p)
    <3>1. paths_[p] = TimeAt(p)'
      BY <1>1, <2>1, <2>3 DEF Seen
    <3>2. p \notin Existing'
      <4>1. SUFFICES ASSUME p \in Existing' PROVE FALSE
        OBVIOUS
      <4>2. TimeAt(p)' = edits + 1
        BY <1>2, <4>1 DEF Existing, TimeAt
      <4>3. edits + 1 \in Nat /\ edits + 1 # None /\ ~(edits + 1 <= edits)
        BY <1>1, WatcherAssumption
      <4>4. QED
        BY <1>3, <3>1, <4>2, <4>3
    <3>3. HashAt(p)' = None /\ paths_[p] = None
      BY <3>1, <3>2 DEF HashAt, TimeAt
    <3>4. QED
      BY <2>1, <3>3 DEF Known
  <2>4. ASSUME Seen(p)'
        PROVE  WillBe(actions', refused', backup'[p], p, GoodTypes(p)', GoodContents(p)')
    <3>1. WillBe(actions', refused', backup'[p], p, {"delete_path"}, {None})
      BY <1>1, <2>1, <2>3, <2>4 DEF Presence
    <3>2. "delete_path" \in GoodTypes(p)' /\ None \in GoodContents(p)'
      BY <2>3, <2>4 DEF GoodTypes, GoodContents
    <3>3. QED
      BY <3>1, <3>2, WillBeMore
  <2>5. QED
    BY <2>2, <2>4 DEF PathOK, Faithful
<1>8. QED
  BY <1>4, <1>5, <1>6, <1>7 DEF Good

-----------------------------------------------------------------------------
\* The oldest action reaches the backup, or is refused.

LEMMA SendTypes ==
  ASSUME Types, Send
  PROVE  Types'
<1> DEFINE a == Head(actions)
<1>1. /\ UNCHANGED <<tree, edits, initial_status, paths_, watcher, restores>>
      /\ running_' = running_ /\ pause_execution' = pause_execution
  BY DEF Send, folderVars, flagVars
<1>2. running_' \in BOOLEAN /\ pause_execution' \in BOOLEAN
  BY <1>1 DEF Types, TypeOK
<1>3. failed' \in BOOLEAN
  <2>1. failed' = TRUE \/ failed' = failed
    BY DEF Send
  <2>2. QED
    BY <2>1 DEF Types, TypeOK
<1>4. actions \in Seq(Act) /\ actions # <<>> /\ actions' = Tail(actions)
  BY DEF Send, Types, TypeOK
<1>5. actions' \in Seq(Act) /\ a \in Act
  BY <1>4, HeadTailProperties
<1>6. backup' \in [Path -> Contents \cup {None}]
  <2>1. a.path \in Existing => tree[a.path].hash \in Contents
    BY <1>5 DEF Act, Existing, Types, TypeOK
  <2>2. CASE UNCHANGED backup
    BY <2>2 DEF Types, TypeOK
  <2>3. ASSUME backup' # backup
        PROVE  /\ ~Unsendable(a)
               /\ backup' = [backup EXCEPT ![a.path] =
                    CASE a.type = "read_file"     -> tree[a.path].hash
                      [] a.type = "create_folder" -> "dir"
                      [] a.type = "delete_path"   -> None
                      [] a.type = "ignore"        -> @]
    BY <2>3 DEF Send, serverVars
  <2>4. CASE backup' # backup /\ a.type = "read_file"
    BY <1>5, <2>1, <2>3, <2>4 DEF Unsendable, Types, TypeOK
  <2>5. CASE backup' # backup /\ a.type # "read_file"
    BY <1>5, <2>3, <2>5 DEF Act, Contents, Types, TypeOK
  <2>6. QED
    BY <2>2, <2>4, <2>5
<1>7. refused' \subseteq Path
  <2>1. refused' = refused \/ refused' = refused \ {a.path} \/ refused' = refused \cup {a.path}
    BY DEF Send, serverVars
  <2>2. refused \subseteq Path /\ a.path \in Path
    BY <1>5 DEF Act, Types, TypeOK
  <2>3. QED
    BY <2>1, <2>2
<1>8. TypeOK'
  BY <1>1, <1>2, <1>3, <1>5, <1>6, <1>7 DEF Types, TypeOK
<1>9. QED
  BY <1>1, <1>8 DEF Types, AtHand

LEMMA SendKeeps ==
  ASSUME Types, Good, Send, ~failed'
  PROVE  Good'
<1> DEFINE a == Head(actions)
<1>1. /\ UNCHANGED <<tree, edits, initial_status, paths_, watcher>>
      /\ actions \in Seq(Act) /\ actions # <<>> /\ actions' = Tail(actions)
  BY DEF Send, folderVars, Types, TypeOK
<1>2. /\ a \in Act /\ a = actions[1] /\ 1 \in 1 .. Len(actions) /\ Len(actions) \in Nat
      /\ Len(actions') = Len(actions) - 1
      /\ \A i \in 1 .. Len(actions') : actions'[i] = actions[i + 1]
  BY <1>1, HeadTailProperties, EmptySeq
<1> DEFINE Stored ==
             /\ a.type = "read_file" =>
                  /\ a.path \in Existing
                  /\ backup' = [backup EXCEPT ![a.path] = tree[a.path].hash]
             /\ a.type = "create_folder" => backup' = [backup EXCEPT ![a.path] = "dir"]
             /\ a.type = "delete_path" => backup' = [backup EXCEPT ![a.path] = None]
             /\ a.type = "ignore" => backup' = backup
             /\ refused' = IF a.type = "ignore" THEN refused ELSE refused \ {a.path}
           Refused ==
             a.type # "ignore" /\ backup' = backup /\ refused' = refused \cup {a.path}
<1>3. Stored \/ Refused
  <2>1. backup = [backup EXCEPT ![a.path] = @]
    BY <1>2 DEF Act, Types, TypeOK
  <2>2. CASE ~Unsendable(a) /\ Refuses(a) /\ refused' = refused \cup {a.path} /\ backup' = backup
    BY <2>2 DEF Refuses
  <2>3. CASE /\ ~Unsendable(a)
             /\ backup' = [backup EXCEPT ![a.path] =
                  CASE a.type = "read_file"     -> tree[a.path].hash
                    [] a.type = "create_folder" -> "dir"
                    [] a.type = "delete_path"   -> None
                    [] a.type = "ignore"        -> @]
             /\ refused' = IF a.type = "ignore" THEN refused ELSE refused \ {a.path}
    BY <2>1, <2>3 DEF Unsendable
  <2>4. QED
    BY <2>2, <2>3 DEF Send
<1>4. Dated' /\ Comparing'
  BY <1>1 DEF Good, Dated, Comparing, Existing, Recorded
<1>5. ASSUME NEW p \in Path PROVE PathOK(p)'
  <2>1. /\ HashAt(p)' = HashAt(p) /\ (Known(p)' <=> Known(p)) /\ (Seen(p)' <=> Seen(p))
        /\ GoodTypes(p)' = GoodTypes(p) /\ GoodContents(p)' = GoodContents(p)
    BY <1>1 DEF HashAt, TimeAt, Existing, Known, Seen, GoodTypes, GoodContents
  <2>2. ~Says(actions, 1, p) => backup'[p] = backup[p] /\ (p \in refused => p \in refused')
    BY <1>2, <1>3 DEF Says, Act, Types, TypeOK
  <2>3. ASSUME Says(actions, 1, p), p \notin refused'
        PROVE  /\ a.type = "read_file" => backup'[p] = HashAt(p) /\ HashAt(p) \in Contents
               /\ a.type = "create_folder" => backup'[p] = "dir"
               /\ a.type = "delete_path" => backup'[p] = None
               /\ a.type # "ignore"
    <3>1. a.path = p /\ a.type # "ignore" /\ Stored
      BY <1>2, <1>3, <2>3 DEF Says
    <3>2. QED
      BY <3>1 DEF HashAt, Existing, Types, TypeOK
  <2>4. Untouched(p)'
    <3>1. ASSUME initial_status[p] # None PROVE ~Says(actions, 1, p)
      BY <1>2, <1>5, <3>1 DEF Good, PathOK, Untouched, Says
    <3>2. QED
      BY <1>1, <1>2, <2>2, <3>1, <1>5 DEF Good, PathOK, Untouched
  <2>5. ASSUME NEW T, NEW B, WillBe(actions, refused, backup[p], p, T, B),
               Says(actions, 1, p) /\ p \notin refused' /\ a.type \in T => backup'[p] \in B
        PROVE  WillBe(actions', refused', backup'[p], p, T, B)
    BY <1>1, <1>2, <2>2, <2>5, SendWillBe
  <2>6. Presence(p)'
    <3>1. ASSUME initial_status[p] = None, Known(p)
          PROVE  WillBe(actions', refused', backup'[p], p, {"read_file", "create_folder"}, Contents)
      BY <2>3, <2>5, <3>1 DEF Good, PathOK, Presence, Contents
    <3>2. ASSUME initial_status[p] = None, ~Known(p)
          PROVE  WillBe(actions', refused', backup'[p], p, {"delete_path"}, {None})
      BY <2>3, <2>5, <3>2 DEF Good, PathOK, Presence
    <3>3. QED
      BY <1>1, <2>1, <3>1, <3>2 DEF Presence
  <2>7. Faithful(p)'
    <3>1. Says(actions, 1, p) /\ p \notin refused' /\ a.type \in GoodTypes(p)
            => backup'[p] \in GoodContents(p)
      BY <2>3 DEF GoodTypes, GoodContents
    <3>2. ASSUME initial_status[p] = None, Seen(p)
          PROVE  WillBe(actions', refused', backup'[p], p, GoodTypes(p), GoodContents(p))
      BY <2>5, <3>1, <3>2 DEF Good, PathOK, Faithful
    <3>3. QED
      BY <1>1, <2>1, <3>2 DEF Faithful
  <2>8. QED
    BY <2>4, <2>6, <2>7 DEF PathOK
<1>6. QED
  BY <1>4, <1>5 DEF Good

-----------------------------------------------------------------------------
\* The flags, and every step.

LEMMA FlagsTypes ==
  ASSUME Types, pause \/ restart \/ stop
  PROVE  Types'
<1>1. UNCHANGED <<tree, edits, initial_status, paths_, watcher, actions, backup, refused, failed>>
  BY DEF pause, restart, stop, FlagsKeep, folderVars, serverVars
<1>2. failed' \in BOOLEAN
  BY <1>1 DEF Types, TypeOK
<1>3. running_' \in BOOLEAN
  BY DEF pause, restart, stop, Types, TypeOK, flagVars
<1>4. pause_execution' \in BOOLEAN
  BY DEF pause, restart, stop, Types, TypeOK, flagVars
<1>5. restores' \in 0 .. MaxRestores
  BY WatcherAssumption DEF pause, restart, stop, Types, TypeOK, flagVars
<1>6. TypeOK'
  BY <1>1, <1>2, <1>3, <1>4, <1>5 DEF Types, TypeOK
<1>7. QED
  BY <1>1, <1>6 DEF Types, AtHand

LEMMA GoodUnchanged ==
  ASSUME Good,
         UNCHANGED <<tree, edits, initial_status, paths_, watcher, actions, backup, refused>>
  PROVE  Good'
<1>1. Dated' /\ Comparing'
  BY DEF Good, Dated, Comparing, Existing, Recorded
<1>2. ASSUME NEW p \in Path PROVE PathOK(p)'
  <2>1. GoodTypes(p)' = GoodTypes(p) /\ GoodContents(p)' = GoodContents(p)
    BY DEF GoodTypes, GoodContents, HashAt, Existing
  <2>2. (Known(p)' <=> Known(p)) /\ (Seen(p)' <=> Seen(p))
    BY DEF Known, Seen, TimeAt, Existing
  <2>3. Untouched(p)' /\ Presence(p)' /\ Faithful(p)'
    BY <2>1, <2>2 DEF Good, PathOK, Untouched, Presence, Faithful
  <2>4. QED
    BY <2>3 DEF PathOK
<1>3. QED
  BY <1>1, <1>2 DEF Good

LEMMA NextTypes ==
  ASSUME Types, [Next]_vars
  PROVE  Types'
<1>1. CASE \E p \in Path : \E content \in Content[p] \cup {None} : Edit(p, content)
  BY <1>1, EditTypes
<1>2. CASE Watcher
  BY <1>2, WatcherStepKeeps
<1>3. CASE pause \/ restart \/ stop
  BY <1>3, FlagsTypes
<1>4. CASE Send
  BY <1>4, SendTypes
<1>5. CASE UNCHANGED vars
  BY <1>5 DEF vars, Types, TypeOK, AtHand
<1>6. QED
  BY <1>1, <1>2, <1>3, <1>4, <1>5 DEF Next

LEMMA NextKeeps ==
  ASSUME ~InitEdits, Inv, [Next]_vars
  PROVE  Inv'
<1>1. Types /\ Types'
  BY NextTypes DEF Inv
<1>2. ASSUME ~failed', Good, ~Watcher PROVE Good'
  <2>1. CASE \E p \in Path : \E content \in Content[p] \cup {None} : Edit(p, content)
    BY <1>1, <1>2, <2>1, EditKeeps
  <2>2. CASE pause \/ restart \/ stop
    BY <1>2, <2>2, GoodUnchanged DEF pause, restart, stop, FlagsKeep, folderVars, serverVars
  <2>3. CASE Send
    BY <1>1, <1>2, <2>3, SendKeeps
  <2>4. CASE UNCHANGED vars
    BY <1>2, <2>4, GoodUnchanged DEF vars
  <2>5. QED
    BY <1>2, <2>1, <2>2, <2>3, <2>4 DEF Next
<1>3. ~Watcher /\ ~failed' => ~failed
  BY DEF Next, Edit, pause, restart, stop, FlagsKeep, Send, vars
<1>4. CASE Watcher
  BY <1>1, <1>4, WatcherStepKeeps
<1>5. CASE ~Watcher
  BY <1>1, <1>2, <1>3, <1>5 DEF Inv
<1>6. QED
  BY <1>4, <1>5

LEMMA InitGood == Init => Good
<1> SUFFICES ASSUME Init PROVE Good
  OBVIOUS
<1>1. /\ edits = 0 /\ actions = <<>> /\ initial_status = backup
      /\ watcher.pc = "init" /\ \A p \in Path : paths_[p] = None
  BY DEF Init, At
<1>2. \A p \in Path : p \in Existing => tree[p].time = 0
  BY DEF Init, Existing
<1>3. Dated /\ Comparing
  BY <1>1, <1>2 DEF Dated, Comparing, InitPc
<1>4. ASSUME NEW p \in Path PROVE PathOK(p)
  <2>1. Untouched(p) /\ ~Known(p)
    BY <1>1 DEF Untouched, Known
  <2>2. \A b, T, B : b \in B => WillBe(actions, refused, b, p, T, B)
    BY <1>1 DEF WillBe, Says
  <2>3. Presence(p)
    BY <1>1, <2>1, <2>2 DEF Presence
  <2>4. Seen(p) => HashAt(p) = None
    BY <1>1, <1>2, WatcherAssumption DEF Seen, TimeAt, HashAt
  <2>5. Faithful(p)
    BY <1>1, <2>2, <2>4 DEF Faithful, GoodContents
  <2>6. QED
    BY <2>1, <2>3, <2>5 DEF PathOK
<1>5. QED
  BY <1>3, <1>4 DEF Good

\* Every variable has its type (FileWatcher.cpp), however the folder
\* changes during init_status.
THEOREM TypeCorrect == Spec => []TypeOK
<1>1. Types => TypeOK
  BY DEF Types
<1>2. QED
  BY TypesInit, NextTypes, <1>1, PTL DEF Spec

\* Once paused, the watcher is never in a pass of the loop.
PausedBetweenPasses == pause_execution => watcher.pc \notin ScanPc

\* A step of the watcher while it is paused outside the initial comparison, or of
\* anybody else at any time, records nothing and queues nothing.
LEMMA StepOverlooks ==
  ASSUME Types, PausedBetweenPasses, Next, pause_execution, watcher.pc \notin InitPc
  PROVE  Overlooks
<1>1. Len(actions) \in Nat /\ actions \in Seq(Act)
  BY DEF Types, TypeOK
<1>2. ~Watcher
  BY DEF PausedBetweenPasses, Watcher, init_status, init_compare, init_record, init_erased, wake,
         scan_erased, scan, scan_notify, scan_end, InitPc, ScanPc
<1>3. CASE Send
  <2>1. paths_' = paths_ /\ actions # <<>> /\ actions' = Tail(actions)
    BY <1>3 DEF Send
  <2>2. Len(actions') = Len(actions) - 1
    BY <1>1, <2>1, HeadTailProperties
  <2>3. QED
    BY <1>1, <2>1, <2>2 DEF Overlooks
<1>4. CASE ~Send
  <2>1. paths_' = paths_ /\ actions' = actions
    BY <1>2, <1>4 DEF Next, Edit, pause, restart, stop, FlagsKeep
  <2>2. QED
    BY <1>1, <2>1 DEF Overlooks
<1>5. QED
  BY <1>3, <1>4

\* FileWatcher.cpp:67-69: from pause to restart nothing is seen or queued, however
\* often the watcher is paused and wherever its pass was, however the folder
\* changes; all this once the initial comparison, which goes on when paused, is done.
THEOREM PausedAtRest == Spec => RestoreExcludesScan
<1>1. Init => PausedBetweenPasses
  BY DEF Init, PausedBetweenPasses
<1>2. Types /\ PausedBetweenPasses /\ [Next]_vars => PausedBetweenPasses'
  <2> SUFFICES ASSUME Types, PausedBetweenPasses, [Next]_vars PROVE PausedBetweenPasses'
    OBVIOUS
  <2>1. CASE pause
    BY <2>1 DEF pause, FlagsKeep, PausedBetweenPasses
  <2>2. CASE Watcher
    <3>1. pause_execution' = pause_execution
      BY <2>2 DEF Watcher, init_status, init_compare, init_record, init_erased, wake,
                  scan_erased, scan, scan_notify, scan_end, WatcherKeeps, flagVars
    <3>2. pause_execution => watcher.pc \in InitPc
      BY <2>2 DEF Watcher, init_status, init_compare, init_record, init_erased, wake,
                  scan_erased, scan, scan_notify, scan_end, InitPc, ScanPc, PausedBetweenPasses
    <3>3. ASSUME watcher.pc \in InitPc PROVE watcher'.pc \notin ScanPc
      <4>1. watcher \in Position
        BY DEF Types, TypeOK
      <4>2. ASSUME NEW p \in Path, init_status(p) PROVE watcher'.pc \notin ScanPc
        <5>1. CASE watcher' = [watcher EXCEPT !.todo = @ \ {p}]
          BY <3>3, <4>1, <5>1 DEF InitPc, ScanPc, Position
        <5>2. CASE watcher' = At("failed", {}, {})
          BY <5>2 DEF At, ScanPc
        <5>3. CASE watcher' = [watcher EXCEPT !.pc = "record", !.path = p, !.todo = @ \ {p}]
          BY <4>1, <5>3 DEF ScanPc, Position
        <5>4. CASE watcher' = [watcher EXCEPT !.pc = "hashed", !.path = p,
                                             !.found = tree[p].hash, !.todo = @ \ {p}]
          BY <4>1, <5>4 DEF ScanPc, Position
        <5>5. QED
          BY <4>2, <5>1, <5>2, <5>3, <5>4 DEF init_status, Skip, Throw
      <4>3. CASE init_compare \/ init_record \/ init_erased
        BY <4>1, <4>3 DEF init_compare, init_record, init_erased, Throw, At, ScanPc, Position
      <4>4. QED
        BY <2>2, <3>3, <4>2, <4>3 DEF Watcher, wake, scan_erased, scan, scan_notify, scan_end, InitPc
    <3>4. QED
      BY <3>1, <3>2, <3>3 DEF PausedBetweenPasses
  <2>3. CASE restart \/ stop
    BY <2>3 DEF restart, stop, FlagsKeep, PausedBetweenPasses
  <2>4. CASE UNCHANGED <<watcher, pause_execution>>
    BY <2>4 DEF PausedBetweenPasses
  <2>5. QED
    BY <2>1, <2>2, <2>3, <2>4 DEF Next, Edit, Send, vars, flagVars
<1>3. Types /\ PausedBetweenPasses /\ [Next]_vars
        => [pause_execution /\ watcher.pc \notin InitPc => Overlooks]_vars
  BY StepOverlooks
<1>4. QED
  BY TypesInit, NextTypes, <1>1, <1>2, <1>3, PTL DEF Spec, RestoreExcludesScan

\* FileWatcher.cpp:20-64, 88-121: between two passes, with nothing queued, what has
\* the recorded time is backed up as it is, or was refused the last time it was
\* sent, whatever the order of the changes, the visits and the sending, if the
\* folder is left alone until the initial comparison is done.
THEOREM SeenGetsSent ==
  ASSUME ~InitEdits PROVE Spec => []SeenIsSent
<1>1. Init => Inv
  BY TypesInit, InitGood DEF Inv
<1>2. Inv /\ [Next]_vars => Inv'
  BY NextKeeps
<1>3. Inv => SeenIsSent
  <2> SUFFICES ASSUME Inv, watcher.pc \in {"sleep", "done"}, actions = <<>>, ~failed,
                      NEW p \in Path, paths_[p] = TimeAt(p)
               PROVE  Settled(p)
    BY DEF SeenIsSent
  <2>1. initial_status[p] = None /\ Faithful(p)
    BY DEF Inv, Good, Comparing, InitPc, PathOK
  <2>2. Seen(p)
    BY DEF Seen
  <2>3. backup[p] \in GoodContents(p) \/ p \in refused
    BY <2>1, <2>2 DEF Faithful, WillBe, Says
  <2>4. HashAt(p) = "dir" => IsDirectory(p)
    BY WatcherAssumption DEF HashAt, IsDirectory
  <2>5. QED
    BY <2>3, <2>4 DEF GoodContents, StillAFile, UpToDate, Settled
<1>4. QED
  BY <1>1, <1>2, <1>3, PTL DEF Spec
=============================================================================
