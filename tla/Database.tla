------------------------------ MODULE Database ------------------------------
(***************************************************************************)
(* Server/Database.cpp: the table of one user and the connections that use *)
(* it.  Every session of ClientHandler.cpp opens a connection of its own,  *)
(* and each SQL statement is a transaction of its own: addAction is a      *)
(* SELECT (checkKeyExist) and then an UPDATE or an INSERT, and statements  *)
(* of other sessions fall between the two.                                 *)
(*                                                                         *)
(* A date is the number of days since the first one.  `today' is the day   *)
(* clock of the server, which read_action reads before the body of a file  *)
(* arrives; it is assumed not to go back.                                  *)
(***************************************************************************)
EXTENDS Integers

CONSTANTS
  Session,    \* the connections of one user: a reconnected client can have
              \* two, while the server still works on the older one
  Path, Hash,
  LastDay,    \* bound on the calendar
  None

VARIABLES
  table,      \* the rows, with primary key (filename, timestamp)
  today,
  pc,         \* for each session: idle, in an action, at a statement of addAction
  current_date, \* for each session, the date of the action it works on
  req,        \* for each session, the arguments of addAction
  result      \* for each session, what the last addAction ended in

vars == <<table, today, pc, current_date, req, result>>

Day == 0 .. LastDay
Action == {"read_file", "create_folder", "delete_path"}
Row == [filename : Path, timestamp : Day, action : Action,
        hash : Hash \cup {"dir", ""}]

ASSUME LastDayAssumption == LastDay \in Nat
ASSUME NoneAssumption == None \notin Row \cup Day

Init ==
  /\ table = {}
  /\ today = 0
  /\ pc = [s \in Session |-> "idle"]
  /\ current_date = [s \in Session |-> None]
  /\ req = [s \in Session |-> None]
  /\ result = [s \in Session |-> "none"]

\* Mutant: the date is left out of the where clause.
SameFile(row, p, t) == row.filename = p
SameKey(row, p, t) == row.filename = p /\ row.timestamp = t

Return(s, outcome) ==
  /\ pc' = [pc EXCEPT ![s] = "idle"]
  /\ current_date' = [current_date EXCEPT ![s] = None]
  /\ req' = [req EXCEPT ![s] = None]
  /\ result' = [result EXCEPT ![s] = outcome]

\* read_action has the header of an action and takes the date.
read_action(s) ==
  /\ pc[s] = "idle"
  /\ pc' = [pc EXCEPT ![s] = "action"]
  /\ current_date' = [current_date EXCEPT ![s] = today]
  /\ result' = [result EXCEPT ![s] = "none"]
  /\ UNCHANGED <<table, today, req>>

\* The action is a restore, or the connection fails before the file is there.
leave(s) ==
  /\ pc[s] = "action"
  /\ pc' = [pc EXCEPT ![s] = "idle"]
  /\ current_date' = [current_date EXCEPT ![s] = None]
  /\ UNCHANGED <<table, today, req, result>>

\* Mutant: the date is taken after the body of the file has arrived.
addActionToday(s, p, a, h) ==
  /\ pc[s] = "action"
  /\ pc' = [pc EXCEPT ![s] = "checkKeyExist"]
  /\ req' = [req EXCEPT ![s] = [filename |-> p, timestamp |-> today,
                                action |-> a, hash |-> h]]
  /\ UNCHANGED <<table, today, current_date, result>>

addAction(s, p, a, h) ==
  /\ pc[s] = "action"
  /\ pc' = [pc EXCEPT ![s] = "checkKeyExist"]
  /\ req' = [req EXCEPT ![s] = [filename |-> p, timestamp |-> current_date[s],
                                action |-> a, hash |-> h]]
  /\ UNCHANGED <<table, today, current_date, result>>

checkKeyExist(s) ==
  /\ pc[s] = "checkKeyExist"
  /\ pc' = [pc EXCEPT ![s] =
             IF \E row \in table : SameKey(row, req[s].filename, req[s].timestamp)
             THEN "update" ELSE "insert"]
  /\ UNCHANGED <<table, today, current_date, req, result>>

\* Mutant: the table has no primary key.
InsertAnyKey(s) ==
  /\ pc[s] = "insert"
  /\ table' = table \cup {req[s]}
  /\ Return(s, "completed")
  /\ UNCHANGED today

\* No row of the key: another session may have inserted it since the SELECT,
\* and then the constraint of the table refuses the INSERT.
insert(s) ==
  /\ pc[s] = "insert"
  /\ ~\E row \in table : SameKey(row, req[s].filename, req[s].timestamp)
  /\ table' = table \cup {req[s]}
  /\ Return(s, "completed")
  /\ UNCHANGED today

UpdateRows(rows, r) ==
  {IF SameKey(row, r.filename, r.timestamp)
   THEN [row EXCEPT !.action = r.action, !.hash = r.hash] ELSE row : row \in rows}

update(s) ==
  /\ pc[s] = "update"
  /\ table' = UpdateRows(table, req[s])
  /\ Return(s, "completed")
  /\ UNCHANGED today

\* Any statement can fail (the file is locked by another connection, the disk
\* is full, the key exists): addAction throws and the table is as it was.
fail(s) ==
  /\ pc[s] \in {"checkKeyExist", "insert", "update"}
  /\ Return(s, "error")
  /\ UNCHANGED <<table, today>>

NextDay ==
  /\ today < LastDay
  /\ today' = today + 1
  /\ UNCHANGED <<table, pc, current_date, req, result>>

Next ==
  \/ \E s \in Session :
       \/ read_action(s)
       \/ leave(s)
       \/ \E p \in Path :
            \/ \E h \in Hash : addAction(s, p, "read_file", h)
            \/ addAction(s, p, "create_folder", "dir")
            \/ addAction(s, p, "delete_path", "")
       \/ checkKeyExist(s)
       \/ insert(s)
       \/ update(s)
       \/ fail(s)
  \/ NextDay

Spec == Init /\ [][Next]_vars

-----------------------------------------------------------------------------
\* Mutant: deleted entries are left out before the latest one is looked for.
LatestNotDeleted(rows, row, d) ==
  /\ row.timestamp <= d
  /\ \A other \in rows :
       other.filename = row.filename /\ other.timestamp <= d
         /\ other.action # "delete_path" => other.timestamp <= row.timestamp

\* timestamp = (SELECT MAX(timestamp) .. WHERE timestamp <= d)
Latest(rows, row, d) ==
  /\ row.timestamp <= d
  /\ \A other \in rows :
       other.filename = row.filename /\ other.timestamp <= d
         => other.timestamp <= row.timestamp

Entry(row) == [filename |-> row.filename, hash |-> row.hash]

getRestoreEntries(rows, d) ==
  {Entry(row) : row \in {r \in rows : r.action # "delete_path" /\ Latest(rows, r, d)}}

\* Mutant: the most recent live row of a path, though it was deleted since.
LatestLiveEntries(rows) ==
  {Entry(row) : row \in
    {r \in rows : /\ r.action # "delete_path"
                  /\ \A q \in rows : q.filename = r.filename /\ q.action # "delete_path"
                                       => q.timestamp <= r.timestamp}}

getInitailizationEntries(rows) ==
  {Entry(row) : row \in
    {r \in rows : /\ r.action # "delete_path"
                  /\ \A q \in rows : q.filename = r.filename => q.timestamp <= r.timestamp}}

-----------------------------------------------------------------------------
TypeOK ==
  /\ table \in SUBSET Row
  /\ today \in Day
  /\ pc \in [Session -> {"idle", "action", "checkKeyExist", "insert", "update"}]
  /\ current_date \in [Session -> Day \cup {None}]
  /\ req \in [Session -> Row \cup {None}]
  /\ result \in [Session -> {"none", "completed", "error"}]
  /\ \A s \in Session :
       /\ current_date[s] = None <=> pc[s] = "idle"
       /\ req[s] = None <=> pc[s] \in {"idle", "action"}
       /\ req[s] # None => req[s].timestamp = current_date[s]

\* However the sessions interleave their SELECTs, INSERTs and UPDATEs, a path
\* keeps one version per day, and the UPDATE of addAction finds its row.
OneVersionPerDay ==
  /\ \A r, q \in table : r.filename = q.filename /\ r.timestamp = q.timestamp => r = q
  /\ \A s \in Session : pc[s] = "update" =>
       \E r \in table : r.filename = req[s].filename /\ r.timestamp = req[s].timestamp

\* Nothing is dated in the future.
NothingFromTheFuture ==
  /\ \A r \in table : r.timestamp <= today
  /\ \A s \in Session : pc[s] # "idle" => current_date[s] <= today

\* The two queries agree: what a client is told at login is what a restore of
\* today would give it.
InitialStatusIsToday ==
  getInitailizationEntries(table) = getRestoreEntries(table, today)

\* The table, read by getRestoreEntries, is a snapshot per day: the sessions'
\* statements, in any order, across midnight and with failures, have the
\* effect of edits applied one at a time.
DailyBackup == INSTANCE DailyBackup WITH
  backup <- [d \in Day |-> getRestoreEntries(table, d)],
  edited <- [p \in Path |-> {r.timestamp : r \in {q \in table : q.filename = p}}]
ImplementsDailyBackup == DailyBackup!Spec

\* A day that is over is settled: once every action taken up on that day or
\* before is done with, a restore of it gives the same files for ever.
SettledDay(d) ==
  d < today /\ \A s \in Session : pc[s] # "idle" => current_date[s] > d
PastDaysFixed ==
  [][\A d \in Day : SettledDay(d) =>
       getRestoreEntries(table', d) = getRestoreEntries(table, d)]_vars
=============================================================================
