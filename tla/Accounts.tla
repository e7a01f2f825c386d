------------------------------ MODULE Accounts ------------------------------
(***************************************************************************)
(* What the database owes its users: an account appears at once, its       *)
(* password and its table together, it stays, and only an account has      *)
(* actions stored.                                                         *)
(***************************************************************************)
EXTENDS Sequences

CONSTANTS Users, Passwords, Edits

VARIABLE disk    \* the rows of users, the users' tables, what these contain

Nobody == [users |-> [u \in Users |-> <<>>], tables |-> {}, stored |-> {}]

Init == disk = Nobody

createNewUser(u, p) ==
  /\ disk.users[u] = <<>> /\ u \notin disk.tables
  /\ disk' = [disk EXCEPT !.users[u] = <<p>>, !.tables = @ \cup {u}]

addAction(u, e) ==
  /\ u \in disk.tables
  /\ disk' = [disk EXCEPT !.stored = @ \cup {<<u, e>>}]

Next ==
  \E u \in Users :
    \/ \E p \in Passwords : createNewUser(u, p)
    \/ \E e \in Edits : addAction(u, e)

Spec == Init /\ [][Next]_disk
=============================================================================
