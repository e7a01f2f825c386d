--------------------------- MODULE Database_proof ---------------------------
(***************************************************************************)
(* Proofs about the user's table of Server/Database.cpp, for any number of *)
(* sessions, paths, hashes and days: one version of a path per day, a      *)
(* snapshot per day, and days that stay as they are once they are over.    *)
(***************************************************************************)
EXTENDS Database, TLAPS

\* The inductive invariant: the primary key is what makes an UPDATE and an
\* INSERT the same replacement, and the clock is what makes today the latest.
Inv == TypeOK /\ OneVersionPerDay /\ NothingFromTheFuture

\* What the proofs need of days, rows and their construction.
LEMMA Days == 0 \in Day /\ Day \subseteq Nat /\ \A d \in Day : d <= d
BY LastDayAssumption DEF Day

LEMMA RowFields == \A r \in Row : r.filename \in Path /\ r.timestamp \in Day /\ r.timestamp \in Nat
<1>1. \A r \in Row : r.filename \in Path /\ r.timestamp \in Day
  BY DEF Row
<1>2. QED
  BY <1>1, Days

LEMMA MakeRow ==
  ASSUME NEW p \in Path, NEW t \in Day, NEW a \in Action, NEW h \in Hash \cup {"dir", ""}
  PROVE  /\ [filename |-> p, timestamp |-> t, action |-> a, hash |-> h] \in Row
         /\ [filename |-> p, timestamp |-> t, action |-> a, hash |-> h] # None
<1>1. [filename |-> p, timestamp |-> t, action |-> a, hash |-> h] \in Row
  BY DEF Row
<1>2. QED
  BY <1>1, NoneAssumption

\* UPDATE replaces the one row of the key, or does nothing to the others.
LEMMA UpdateReplaces ==
  ASSUME Inv, NEW s \in Session, pc[s] = "update"
  PROVE  /\ UpdateRows(table, req[s]) =
              {req[s]} \cup {q \in table : ~SameKey(q, req[s].filename, req[s].timestamp)}
         /\ req[s] \in Row
<1> DEFINE r == req[s]
<1>1. r \in Row
  BY NoneAssumption DEF Inv, TypeOK
<1>2. ASSUME NEW q \in table, SameKey(q, r.filename, r.timestamp)
      PROVE  [q EXCEPT !.action = r.action, !.hash = r.hash] = r
  BY <1>1, <1>2 DEF Inv, TypeOK, Row, SameKey
<1>3. \E q \in table : SameKey(q, r.filename, r.timestamp)
  BY DEF Inv, OneVersionPerDay, SameKey
<1>4. QED
  BY <1>1, <1>2, <1>3 DEF UpdateRows

\* INSERT adds the row of a key the table does not have.
LEMMA InsertReplaces ==
  ASSUME Inv, NEW s \in Session, insert(s)
  PROVE  /\ table' = {req[s]} \cup {q \in table : ~SameKey(q, req[s].filename, req[s].timestamp)}
         /\ req[s] \in Row
BY DEF insert, Inv, TypeOK

\* The invariant holds: addAction's SELECT may be stale when its INSERT runs,
\* and the primary key makes up for it.
THEOREM Invariance == Spec => []Inv
<1>1. Init => Inv
  BY Days DEF Init, Inv, TypeOK, OneVersionPerDay, NothingFromTheFuture
<1>2. Inv /\ [Next]_vars => Inv'
  <2> SUFFICES ASSUME Inv, [Next]_vars PROVE Inv'
    OBVIOUS
  <2>1. ASSUME NEW s \in Session, NEW p \in Path, NEW a \in Action,
               NEW h \in Hash \cup {"dir", ""}, addAction(s, p, a, h)
        PROVE  Inv'
    <3> DEFINE r == [filename |-> p, timestamp |-> current_date[s], action |-> a, hash |-> h]
    <3>1. r \in Row /\ r # None /\ r.timestamp = current_date[s]
      <4>1. current_date[s] \in Day
        BY <2>1 DEF addAction, Inv, TypeOK
      <4>2. QED
        BY <4>1, MakeRow
    <3> HIDE DEF r
    <3>2. pc[s] = "action" /\ req' = [req EXCEPT ![s] = r]
          /\ pc' = [pc EXCEPT ![s] = "checkKeyExist"]
          /\ UNCHANGED <<table, today, current_date, result>>
      BY <2>1 DEF addAction, r
    <3>3. TypeOK'
      <4>1. req' \in [Session -> Row \cup {None}]
        BY <3>1, <3>2 DEF Inv, TypeOK
      <4>2. \A u \in Session : u # s => req'[u] = req[u] /\ pc'[u] = pc[u]
        BY <3>2 DEF Inv, TypeOK
      <4>3. req'[s] = r /\ pc'[s] = "checkKeyExist"
        BY <3>2 DEF Inv, TypeOK
      <4>4. QED
        BY <3>1, <3>2, <4>1, <4>2, <4>3 DEF Inv, TypeOK
    <3>4. OneVersionPerDay'
      BY <3>2 DEF Inv, TypeOK, OneVersionPerDay
    <3>5. NothingFromTheFuture'
      BY <3>2 DEF Inv, TypeOK, NothingFromTheFuture
    <3>6. QED
      BY <3>3, <3>4, <3>5 DEF Inv
  <2>2. ASSUME NEW s \in Session, read_action(s) PROVE Inv'
    <3>1. today \in Day /\ today # None /\ today <= today
      BY Days, NoneAssumption DEF Inv, TypeOK
    <3>2. TypeOK'
      BY <2>2, <3>1 DEF read_action, Inv, TypeOK
    <3>3. OneVersionPerDay'
      BY <2>2 DEF read_action, Inv, TypeOK, OneVersionPerDay
    <3>4. NothingFromTheFuture'
      BY <2>2, <3>1 DEF read_action, Inv, TypeOK, NothingFromTheFuture
    <3>5. QED
      BY <3>2, <3>3, <3>4 DEF Inv
  <2>3. ASSUME NEW s \in Session, leave(s) PROVE Inv'
    BY <2>3 DEF leave, Inv, TypeOK, OneVersionPerDay, NothingFromTheFuture
  <2>4. ASSUME NEW s \in Session, checkKeyExist(s) PROVE Inv'
    <3>1. TypeOK'
      <4>1. \E next \in {"update", "insert"} : pc' = [pc EXCEPT ![s] = next]
        BY <2>4 DEF checkKeyExist
      <4>2. pc[s] # "idle" /\ pc[s] # "action" /\ UNCHANGED <<table, today, current_date, req, result>>
        BY <2>4 DEF checkKeyExist
      <4>3. QED
        BY <4>1, <4>2 DEF Inv, TypeOK
    <3>2. OneVersionPerDay'
      BY <2>4 DEF checkKeyExist, Inv, TypeOK, OneVersionPerDay, SameKey
    <3>3. NothingFromTheFuture'
      BY <2>4 DEF checkKeyExist, Inv, TypeOK, NothingFromTheFuture
    <3>4. QED
      BY <3>1, <3>2, <3>3 DEF Inv
  <2>5. ASSUME NEW s \in Session, NEW outcome \in {"completed", "error"},
               pc[s] \notin {"idle", "action"}, Return(s, outcome), today' = today,
               \/ table' = table
               \/ table' = {req[s]} \cup
                    {q \in table : ~SameKey(q, req[s].filename, req[s].timestamp)}
        PROVE  Inv'
    <3>1. req[s] \in Row /\ req[s].timestamp <= today
      BY <2>5 DEF Inv, TypeOK, NothingFromTheFuture
    <3>2. TypeOK'
      BY <2>5, <3>1 DEF Return, Inv, TypeOK
    <3>3. OneVersionPerDay'
      <4>1. \A r, q \in table' : r.filename = q.filename /\ r.timestamp = q.timestamp => r = q
        BY <2>5 DEF Inv, OneVersionPerDay, SameKey
      <4>2. ASSUME NEW r \in table
            PROVE  \E q \in table' : q.filename = r.filename /\ q.timestamp = r.timestamp
        BY <2>5 DEF SameKey
      <4>3. ASSUME NEW u \in Session, pc'[u] = "update"
            PROVE  pc[u] = "update" /\ req'[u] = req[u]
        BY <2>5, <4>3 DEF Return, Inv, TypeOK
      <4>4. QED
        BY <4>1, <4>2, <4>3 DEF Inv, OneVersionPerDay
    <3>4. NothingFromTheFuture'
      BY <2>5, <3>1 DEF Return, Inv, TypeOK, NothingFromTheFuture
    <3>5. QED
      BY <3>2, <3>3, <3>4 DEF Inv
  <2>6. ASSUME NEW s \in Session, insert(s) PROVE Inv'
    BY <2>5, <2>6, InsertReplaces DEF insert
  <2>7. ASSUME NEW s \in Session, update(s) PROVE Inv'
    BY <2>5, <2>7, UpdateReplaces DEF update
  <2>8. ASSUME NEW s \in Session, fail(s) PROVE Inv'
    BY <2>5, <2>8 DEF fail
  <2>9. CASE NextDay
    <3>1. today' \in Day /\ today' >= today /\ UNCHANGED <<table, pc, current_date, req, result>>
      BY <2>9, LastDayAssumption DEF NextDay, Inv, TypeOK, Day
    <3>2. TypeOK' /\ OneVersionPerDay'
      BY <3>1 DEF Inv, TypeOK, OneVersionPerDay, SameKey
    <3>3. NothingFromTheFuture'
      <4>1. \A r \in Row : r.timestamp \in Nat /\ (r.timestamp <= today => r.timestamp <= today')
        <5>1. today \in Nat /\ today' \in Nat
          BY <3>1, Days DEF Inv, TypeOK
        <5>2. QED
          BY <3>1, <5>1, RowFields
      <4>2. table \subseteq Row /\ \A s \in Session : pc[s] # "idle" => current_date[s] \in Day
        BY DEF Inv, TypeOK
      <4>3. \A d \in Day : d <= today => d <= today'
        <5>1. today \in Nat /\ today' \in Nat
          BY <3>1, Days DEF Inv, TypeOK
        <5>2. QED
          BY <3>1, <5>1, Days
      <4>4. QED
        BY <3>1, <4>1, <4>2, <4>3 DEF Inv, NothingFromTheFuture
    <3>4. QED
      BY <3>2, <3>3 DEF Inv
  <2>10. CASE UNCHANGED vars
    BY <2>10 DEF vars, Inv, TypeOK, OneVersionPerDay, NothingFromTheFuture, SameKey
  <2>11. QED
    BY <2>1, <2>2, <2>3, <2>4, <2>6, <2>7, <2>8, <2>9, <2>10 DEF Next, Action
<1>3. QED
  BY <1>1, <1>2, PTL DEF Spec

\* The rows, and what every session is doing with them, have their types: a
\* session that executes an action has a row and a date (Database.cpp:135-213).
THEOREM TypeCorrect == Spec => []TypeOK
<1>1. Inv => TypeOK
  BY DEF Inv
<1>2. QED
  BY <1>1, Invariance, PTL

\* Database.cpp:135-213: one row per path and day, whatever the SELECTs of
\* other sessions saw, and a session at its UPDATE has the row it found.
THEOREM KeysAreUnique == Spec => []OneVersionPerDay
<1>1. Inv => OneVersionPerDay
  BY DEF Inv
<1>2. QED
  BY <1>1, Invariance, PTL

-----------------------------------------------------------------------------
\* The days whose snapshot shows a version of p dated t.
Reach(rows, p, t) ==
  {d \in Day : d >= t /\ \A q \in rows : q.filename = p /\ q.timestamp > t => q.timestamp > d}

\* What getRestoreEntries makes of a replaced or added row: the days in reach
\* show it, or no longer show the path when it records a deletion, and the
\* other days and paths are as they were.
LEMMA WriteRow ==
  ASSUME NEW rows, rows \subseteq Row, NEW r \in Row, NEW d \in Day, NEW rows2,
         rows2 = {r} \cup {q \in rows : ~SameKey(q, r.filename, r.timestamp)}
  PROVE  getRestoreEntries(rows2, d) =
           IF d \in Reach(rows, r.filename, r.timestamp)
           THEN DailyBackup!After(getRestoreEntries(rows, d), r)
           ELSE getRestoreEntries(rows, d)
<1> USE RowFields, Days DEF SameKey
<1>1. rows2 \subseteq Row /\ r \in rows2
  OBVIOUS
<1>2. ASSUME NEW q \in rows, q.filename # r.filename
      PROVE  q \in rows2 /\ (Latest(rows2, q, d) <=> Latest(rows, q, d))
  BY <1>2 DEF Latest
<1>3. CASE d \in Reach(rows, r.filename, r.timestamp)
  <2>1. Latest(rows2, r, d)
    BY <1>1, <1>3 DEF Reach, Latest
  <2>2. ASSUME NEW q \in rows2, q.filename = r.filename, Latest(rows2, q, d) PROVE q = r
    <3>1. q.timestamp >= r.timestamp /\ q.timestamp <= d
      BY <2>1, <2>2 DEF Latest
    <3>2. q \in rows => q.timestamp <= r.timestamp
      BY <1>1, <1>3, <2>2, <3>1 DEF Reach
    <3>3. QED
      BY <1>1, <2>2, <3>1, <3>2
  <2>3. {q \in rows2 : q.action # "delete_path" /\ Latest(rows2, q, d)} =
          {q \in rows : q.filename # r.filename /\ q.action # "delete_path" /\ Latest(rows, q, d)}
          \cup IF r.action = "delete_path" THEN {} ELSE {r}
    BY <1>2, <2>1, <2>2
  <2>4. getRestoreEntries(rows2, d) = DailyBackup!After(getRestoreEntries(rows, d), r)
    BY <2>3 DEF getRestoreEntries, Entry, DailyBackup!After
  <2>5. QED
    BY <1>3, <2>4
<1>4. CASE d \notin Reach(rows, r.filename, r.timestamp)
  <2>1. ~Latest(rows2, r, d)
    BY <1>1, <1>4 DEF Reach, Latest
  <2>2. ASSUME NEW q \in rows, q.filename = r.filename, q.timestamp = r.timestamp
        PROVE  ~Latest(rows, q, d)
    BY <1>4, <2>2 DEF Reach, Latest
  <2>3. ASSUME NEW q \in rows, q.filename = r.filename, q.timestamp # r.timestamp
        PROVE  Latest(rows2, q, d) <=> Latest(rows, q, d)
    BY <1>4, <2>3 DEF Reach, Latest
  <2>4. {q \in rows2 : q.action # "delete_path" /\ Latest(rows2, q, d)} =
          {q \in rows : q.action # "delete_path" /\ Latest(rows, q, d)}
    BY <1>2, <2>1, <2>2, <2>3
  <2>5. QED
    BY <1>4, <2>4 DEF getRestoreEntries
<1>5. QED
  BY <1>3, <1>4

\* A write changes only days that are not over, or the day it is dated.
\* A day that is over, with no addAction of that day or earlier under way,
\* restores to the same files for ever.
THEOREM SettledDaysFixed == Spec => PastDaysFixed
<1>1. Inv /\ [Next]_vars =>
        [\A d \in Day : SettledDay(d) => getRestoreEntries(table', d) = getRestoreEntries(table, d)]_vars
  <2> SUFFICES ASSUME Inv, [Next]_vars, NEW d \in Day, SettledDay(d)
               PROVE  getRestoreEntries(table', d) = getRestoreEntries(table, d)
    OBVIOUS
  <2>1. CASE table' = table
    BY <2>1
  <2>2. ASSUME NEW s \in Session, pc[s] \notin {"idle", "action"}, req[s] \in Row,
               table' = {req[s]} \cup
                 {q \in table : ~SameKey(q, req[s].filename, req[s].timestamp)}
        PROVE  getRestoreEntries(table', d) = getRestoreEntries(table, d)
    <3>1. ~(d >= req[s].timestamp)
      <4>1. req[s].timestamp = current_date[s] /\ req[s].timestamp \in Nat
        BY <2>2, RowFields DEF Inv, TypeOK
      <4>2. req[s].timestamp > d /\ d \in Nat
        BY <2>2, <4>1, Days DEF SettledDay
      <4>3. QED
        BY <4>1, <4>2
    <3>2. d \notin Reach(table, req[s].filename, req[s].timestamp)
      BY <3>1 DEF Reach
    <3>3. table \subseteq Row
      BY DEF Inv, TypeOK
    <3>4. \A rows2 : rows2 = {req[s]} \cup
                        {q \in table : ~SameKey(q, req[s].filename, req[s].timestamp)} =>
                      getRestoreEntries(rows2, d) =
                        IF d \in Reach(table, req[s].filename, req[s].timestamp)
                        THEN DailyBackup!After(getRestoreEntries(table, d), req[s])
                        ELSE getRestoreEntries(table, d)
      BY <2>2, <3>3, WriteRow
    <3>5. QED
      BY <2>2, <3>2, <3>4
  <2>3. ASSUME NEW s \in Session, insert(s)
        PROVE  getRestoreEntries(table', d) = getRestoreEntries(table, d)
    BY <2>2, <2>3, InsertReplaces DEF insert
  <2>4. ASSUME NEW s \in Session, update(s)
        PROVE  getRestoreEntries(table', d) = getRestoreEntries(table, d)
    BY <2>2, <2>4, UpdateReplaces DEF update
  <2>5. QED
    BY <2>1, <2>3, <2>4 DEF Next, read_action, leave, addAction, checkKeyExist, fail, NextDay, vars
<1>2. QED
  BY <1>1, Invariance, PTL DEF Spec, PastDaysFixed

\* What the client is told at login is what a restore of today would give.
THEOREM InitialStatus == Spec => []InitialStatusIsToday
<1>1. Inv => InitialStatusIsToday
  <2> SUFFICES ASSUME Inv PROVE InitialStatusIsToday
    OBVIOUS
  <2>1. \A q \in table : q.timestamp <= today
    BY DEF Inv, NothingFromTheFuture
  <2>2. {r \in table : /\ r.action # "delete_path"
                       /\ \A q \in table : q.filename = r.filename => q.timestamp <= r.timestamp} =
        {r \in table : r.action # "delete_path" /\ Latest(table, r, today)}
    BY <2>1 DEF Latest
  <2>3. QED
    BY <2>2 DEF InitialStatusIsToday, getInitailizationEntries, getRestoreEntries
<1>2. QED
  BY <1>1, Invariance, PTL

\* addAction's statements, interleaved in any way among any number of
\* sessions, implement edits of daily snapshots that happen one at a time.
THEOREM TableImplementsBackup == Spec => ImplementsDailyBackup
<1>1. Init => DailyBackup!Init
  BY DEF Init, DailyBackup!Init, DailyBackup!Day, Day, getRestoreEntries
<1>2. Inv /\ [Next]_vars => [DailyBackup!Next]_(DailyBackup!vars)
  <2> SUFFICES ASSUME Inv, [Next]_vars PROVE [DailyBackup!Next]_(DailyBackup!vars)
    OBVIOUS
  <2> DEFINE backup == [d \in Day |-> getRestoreEntries(table, d)]
             edited == [p \in Path |-> {r.timestamp : r \in {q \in table : q.filename = p}}]
  <2>1. ASSUME table' = table PROVE backup' = backup /\ edited' = edited
    BY <2>1
  <2>2. ASSUME NEW s \in Session, NEW p \in Path, NEW e \in DailyBackup!Edit,
               addAction(s, p, e.action, e.hash)
        PROVE  DailyBackup!Ask(s, p, e)
    BY <2>1, <2>2 DEF addAction, DailyBackup!Ask, Inv, TypeOK
  <2>3. ASSUME NEW s \in Session, req[s] \in Row, req[s] # None,
               table' = {req[s]} \cup
                 {q \in table : ~SameKey(q, req[s].filename, req[s].timestamp)},
               Return(s, "completed"), today' = today
        PROVE  DailyBackup!Apply(s)
    <3> DEFINE r == req[s]
    <3>1. table \subseteq Row
      BY DEF Inv, TypeOK
    <3>2. DailyBackup!Reach(r.filename, r.timestamp) = Reach(table, r.filename, r.timestamp)
      <4>1. edited[r.filename] = {q.timestamp : q \in {q \in table : q.filename = r.filename}}
        BY <2>3, RowFields
      <4>2. \A d \in Day : (\A e \in edited[r.filename] : e > r.timestamp => e > d) <=>
              \A q \in table : q.filename = r.filename /\ q.timestamp > r.timestamp => q.timestamp > d
        BY <4>1
      <4>3. QED
        BY <4>2 DEF DailyBackup!Reach, Reach, DailyBackup!Day, Day
    <3>3. backup' = [d \in Day |-> IF d \in Reach(table, r.filename, r.timestamp)
                                   THEN DailyBackup!After(backup[d], r) ELSE backup[d]]
      <4>1. ASSUME NEW d \in Day
            PROVE  getRestoreEntries(table', d) =
                     IF d \in Reach(table, r.filename, r.timestamp)
                     THEN DailyBackup!After(getRestoreEntries(table, d), r)
                     ELSE getRestoreEntries(table, d)
        <5>1. r \in Row /\ table' = {r} \cup
                {q \in table : ~SameKey(q, r.filename, r.timestamp)}
          BY <2>3
        <5> HIDE DEF r
        <5>2. \A rows2 : rows2 = {r} \cup {q \in table : ~SameKey(q, r.filename, r.timestamp)} =>
                getRestoreEntries(rows2, d) =
                  IF d \in Reach(table, r.filename, r.timestamp)
                  THEN DailyBackup!After(getRestoreEntries(table, d), r)
                  ELSE getRestoreEntries(table, d)
          BY <5>1, <3>1, WriteRow
        <5>3. QED
          BY <5>1, <5>2
      <4>2. QED
        BY <4>1
    <3>4. edited' = [edited EXCEPT ![r.filename] = @ \cup {r.timestamp}]
      BY <2>3, <3>1, RowFields DEF SameKey
    <3>5. QED
      BY <2>3, <3>2, <3>3, <3>4 DEF DailyBackup!Apply, DailyBackup!Return, DailyBackup!Day, Day, Return
  <2>4. ASSUME NEW s \in Session, insert(s) PROVE DailyBackup!Apply(s)
    BY <2>3, <2>4, InsertReplaces DEF insert, Inv, TypeOK
  <2>5. ASSUME NEW s \in Session, update(s) PROVE DailyBackup!Apply(s)
    BY <2>3, <2>5, UpdateReplaces DEF update, Inv, TypeOK
  <2>6. ASSUME NEW s \in Session, fail(s) PROVE DailyBackup!Refuse(s)
    BY <2>1, <2>6 DEF fail, Return, DailyBackup!Refuse, DailyBackup!Return, Inv, TypeOK
  <2>7. ASSUME NEW s \in Session, checkKeyExist(s) PROVE UNCHANGED DailyBackup!vars
    BY <2>1, <2>7 DEF checkKeyExist, DailyBackup!vars
  <2>8. CASE NextDay
    BY <2>1, <2>8 DEF NextDay, DailyBackup!NextDay, DailyBackup!Next
  <2>9. CASE UNCHANGED vars
    BY <2>1, <2>9 DEF vars, DailyBackup!vars
  <2>10. ASSUME NEW s \in Session, NEW p \in Path, NEW h \in Hash,
                addAction(s, p, "read_file", h)
         PROVE  DailyBackup!Next
    <3>1. [action |-> "read_file", hash |-> h] \in DailyBackup!Edit
      BY DEF DailyBackup!Edit
    <3>2. QED
      BY <2>2, <2>10, <3>1 DEF DailyBackup!Next
  <2>11. ASSUME NEW s \in Session, NEW p \in Path,
                \/ addAction(s, p, "create_folder", "dir")
                \/ addAction(s, p, "delete_path", "")
         PROVE  DailyBackup!Next
    <3>1. /\ [action |-> "create_folder", hash |-> "dir"] \in DailyBackup!Edit
          /\ [action |-> "delete_path", hash |-> ""] \in DailyBackup!Edit
      BY DEF DailyBackup!Edit
    <3>2. QED
      BY <2>2, <2>11, <3>1 DEF DailyBackup!Next
  <2>12. ASSUME NEW s \in Session, read_action(s) PROVE DailyBackup!Begin(s)
    BY <2>1, <2>12 DEF read_action, DailyBackup!Begin, Inv, TypeOK
  <2>13. ASSUME NEW s \in Session, leave(s) PROVE DailyBackup!Leave(s)
    BY <2>1, <2>13 DEF leave, DailyBackup!Leave, Inv, TypeOK
  <2>14. QED
    BY <2>12, <2>13, <2>4, <2>5, <2>6, <2>7, <2>8, <2>9, <2>10, <2>11 DEF Next, DailyBackup!Next
<1>3. QED
  BY <1>1, <1>2, Invariance, PTL DEF Spec, ImplementsDailyBackup, DailyBackup!Spec
=============================================================================
