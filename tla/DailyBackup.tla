---------------------------- MODULE DailyBackup -----------------------------
(***************************************************************************)
(* What the server promises about one user's data, whatever the sessions   *)
(* that write it: a snapshot of the backed-up tree for every day.  An edit *)
(* made under the date t shows in the snapshots of t and of the days after *)
(* it, up to the next day on which the same path was edited; no other      *)
(* snapshot and no other path changes.  An edit is applied once, when it   *)
(* is reported completed, or not at all, when it is reported as an error.  *)
(***************************************************************************)
EXTENDS Integers

CONSTANTS
  Session,    \* the connections that write
  Path, Hash,
  LastDay,    \* bound on the calendar
  None

VARIABLES
  backup,     \* for each day, the set of [filename, hash] in its snapshot
  edited,     \* for each path, the days under which it was edited
  today,
  current_date, \* for each session, the date of the action it works on
  req,        \* for each session, the edit it has asked for
  result      \* for each session, how its last edit ended

vars == <<backup, edited, today, current_date, req, result>>

Day == 0 .. LastDay

Edit == [action : {"read_file"}, hash : Hash]
        \cup {[action |-> "create_folder", hash |-> "dir"],
              [action |-> "delete_path", hash |-> ""]}

Init ==
  /\ backup = [d \in Day |-> {}]
  /\ edited = [p \in Path |-> {}]
  /\ today = 0
  /\ current_date = [s \in Session |-> None]
  /\ req = [s \in Session |-> None]
  /\ result = [s \in Session |-> "none"]

\* A session takes up an action of its client, on the date of that moment.
Begin(s) ==
  /\ current_date[s] = None
  /\ current_date' = [current_date EXCEPT ![s] = today]
  /\ result' = [result EXCEPT ![s] = "none"]
  /\ UNCHANGED <<backup, edited, today, req>>

\* The action is not an edit, or the client is gone before it is complete.
Leave(s) ==
  /\ current_date[s] # None /\ req[s] = None
  /\ current_date' = [current_date EXCEPT ![s] = None]
  /\ UNCHANGED <<backup, edited, today, req, result>>

Ask(s, p, e) ==
  /\ current_date[s] # None /\ req[s] = None
  /\ req' = [req EXCEPT ![s] = [filename |-> p, timestamp |-> current_date[s],
                                action |-> e.action, hash |-> e.hash]]
  /\ UNCHANGED <<backup, edited, today, current_date, result>>

\* The snapshots an edit of p under the date t shows in.
Reach(p, t) == {d \in Day : d >= t /\ \A e \in edited[p] : e > t => e > d}

After(snapshot, r) ==
  {entry \in snapshot : entry.filename # r.filename} \cup
  IF r.action = "delete_path" THEN {}
  ELSE {[filename |-> r.filename, hash |-> r.hash]}

Return(s, outcome) ==
  /\ current_date' = [current_date EXCEPT ![s] = None]
  /\ req' = [req EXCEPT ![s] = None]
  /\ result' = [result EXCEPT ![s] = outcome]

Apply(s) ==
  LET r == req[s] IN
  /\ r # None
  /\ backup' = [d \in Day |-> IF d \in Reach(r.filename, r.timestamp)
                              THEN After(backup[d], r) ELSE backup[d]]
  /\ edited' = [edited EXCEPT ![r.filename] = @ \cup {r.timestamp}]
  /\ Return(s, "completed")
  /\ UNCHANGED today

Refuse(s) ==
  /\ req[s] # None
  /\ Return(s, "error")
  /\ UNCHANGED <<backup, edited, today>>

NextDay ==
  /\ today < LastDay
  /\ today' = today + 1
  /\ UNCHANGED <<backup, edited, current_date, req, result>>

Next ==
  \/ \E s \in Session :
       \/ Begin(s)
       \/ Leave(s)
       \/ \E p \in Path, e \in Edit : Ask(s, p, e)
       \/ Apply(s)
       \/ Refuse(s)
  \/ NextDay

Spec == Init /\ [][Next]_vars
=============================================================================
