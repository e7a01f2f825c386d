------------------------------- MODULE Server -------------------------------
(***************************************************************************)
(* The server's process: the accept loop with its pool of io threads, the  *)
(* login dialogue with both of its ends, and the sessions, as far as they  *)
(* use the database, of which each has a connection of its own.            *)
(*                                                                         *)
(* start() does the dialogue on the io thread before the acceptor is armed *)
(* again, and the accept handler holds the only reference to the           *)
(* ClientHandler, whose destructor joins the session's thread: an io       *)
(* thread is taken from the accept to the end of the session.  Except for  *)
(* the first ClientHandler, which a local variable of start_server keeps   *)
(* until all the io threads are joined: its session takes no io thread,    *)
(* and its database connection stays open when its client has left.        *)
(*                                                                         *)
(* SQLite, as the code uses it: rollback journal, no busy handler.  A      *)
(* reader keeps others from committing from its first row to its last; one *)
(* connection at a time writes; a writer whose COMMIT finds a reader keeps *)
(* its transaction, and lets no other connection read.  A statement that   *)
(* is a transaction of its own is one step here, and its three ones are in *)
(* Database; so is what a session says to its client in BackupSession.     *)
(***************************************************************************)
EXTENDS Sequences, Naturals, FiniteSets

CONSTANTS
  Clients, Users, UserOf,      \* each client has a user, which several may share
  Passwords, Edits,
  thread_count,
  Faults,                      \* among db_error, accept_error, crash
  None

ASSUME ServerAssumption ==
  /\ UserOf \in [Clients -> Users]
  /\ IsFiniteSet(Clients) /\ thread_count \in Nat \ {0}
  /\ Faults \subseteq {"db_error", "accept_error", "crash"}
  /\ None \notin Clients \cup Passwords
  /\ {"new", "left"} \cap Clients = {}

VARIABLES
  st,                 \* where a client and its handler are
  backlog,            \* of the listening socket
  acceptor,           \* armed, or a login is under way, or not armed again, or down
  first,              \* who has the handler of start_server: nobody yet, a
                      \* client, or one that has left
  actual_password,    \* of login()
  disk,               \* the database that was committed
  writer, work,       \* the connection with an open transaction, and its database
  pending,            \* that transaction could not be committed
  told                \* the actions that were reported as completed

tx == <<writer, work, pending>>
vars == <<st, backlog, acceptor, first, actual_password, disk, tx, told>>

Contract == INSTANCE Accounts

Init ==
  /\ st = [c \in Clients |-> "away"]
  /\ backlog = <<>> /\ acceptor = "armed" /\ first = "new"
  /\ actual_password = [c \in Clients |-> None]
  /\ disk = Contract!Nobody
  /\ writer = None /\ work = Contract!Nobody /\ pending = FALSE
  /\ told = {}

LoginStates == {"name", "lookup", "new_password", "insert", "create", "commit",
                "password", "list", "listing", "sending"}
ServedStates == {"serving", "restoring"}
Busy == {c \in Clients : st[c] \in LoginStates \cup ServedStates \cup {"closing"}}

Goto(c, from, to) == st[c] = from /\ st' = [st EXCEPT ![c] = to]
View(c) == IF writer = c THEN work ELSE disk

-----------------------------------------------------------------------------
\* What the locks allow.

CanRead(c) == ~pending \/ writer = c
CanReserve(c) == CanRead(c) /\ writer \in {None, c}
CanCommit(c) == \A d \in Clients \ {c} : st[d] \notin {"listing", "restoring"}
Error == "db_error" \in Faults

NoTransaction == writer' = None /\ work' = Contract!Nobody /\ pending' = FALSE

-----------------------------------------------------------------------------
\* The accept loop.

\* The clients that an io thread is taken for.
OnIoThread == {c \in Busy : c = first => st[c] \in LoginStates}

\* Mutant: every session's thread keeps its handler alive, and frees the io thread.
AnyThread == TRUE
IdleThread == Cardinality(OnIoThread) < thread_count

\* Of the client's process: socket_.connect.
Connect(c) ==
  /\ acceptor # "down"
  /\ Goto(c, "away", "backlog")
  /\ backlog' = Append(backlog, c)
  /\ UNCHANGED <<acceptor, first, actual_password, disk, tx, told>>

\* handle_new_connection, which calls start().
Accept ==
  /\ acceptor = "armed" /\ backlog # <<>> /\ IdleThread
  /\ st' = [st EXCEPT ![Head(backlog)] = "name"]
  /\ backlog' = Tail(backlog)
  /\ acceptor' = "login"
  /\ first' = IF first = "new" THEN Head(backlog) ELSE first
  /\ UNCHANGED <<actual_password, disk, tx, told>>

\* if (error) return: nothing arms the acceptor again,
AcceptError ==
  /\ "accept_error" \in Faults
  /\ acceptor = "armed" /\ IdleThread
  /\ acceptor' = "failed"
  /\ UNCHANGED <<st, backlog, first, actual_password, disk, tx, told>>

\* and start_server returns when the sessions have ended; main makes another
\* Server.
NewServer ==
  /\ acceptor = "failed" /\ Busy = {}
  /\ st' = [c \in Clients |-> "away"]
  /\ backlog' = <<>> /\ acceptor' = "armed" /\ first' = "new"
  /\ UNCHANGED <<actual_password, disk, tx, told>>

\* The process is killed, or an io thread throws: the ClientHandler that
\* handle_new_connection makes could not open the database.
Crash ==
  /\ "crash" \in Faults /\ acceptor # "down"
  /\ st' = [c \in Clients |-> "away"]
  /\ backlog' = <<>> /\ acceptor' = "down" /\ first' = "new"
  /\ actual_password' = [c \in Clients |-> None]
  /\ NoTransaction
  /\ UNCHANGED <<disk, told>>

Restart ==
  /\ acceptor = "down" /\ acceptor' = "armed"
  /\ UNCHANGED <<st, backlog, first, actual_password, disk, tx, told>>

AcceptLoop == Accept \/ NewServer

-----------------------------------------------------------------------------
\* The login dialogue.

\* Mutant: start() lets the exception go, and the acceptor is not armed again.
RefusedForGood(c) ==
  /\ st' = [st EXCEPT ![c] = "closing"]
  /\ UNCHANGED acceptor

\* The catch of start(), and handle_new_connection goes on.
Refused(c) ==
  /\ st' = [st EXCEPT ![c] = "closing"]
  /\ acceptor' = "armed"

\* The client's name is there, and the query is prepared.
Name(c) ==
  /\ st[c] = "name"
  /\ \/ CanRead(c) /\ Goto(c, "name", "lookup") /\ UNCHANGED acceptor
     \/ (~CanRead(c) \/ Error) /\ Refused(c)
  /\ UNCHANGED <<actual_password, disk, tx, told>>

\* Whatever is not a row is taken for a user who has not signed up.
passwordFromUsername(c) ==
  LET rows == View(c).users[UserOf[c]]
      found == CanRead(c) /\ rows # <<>> IN
  /\ \/ /\ found
        /\ Goto(c, "lookup", "password")
        /\ actual_password' = [actual_password EXCEPT ![c] = Head(rows)]
     \/ /\ ~found \/ Error
        /\ Goto(c, "lookup", "new_password")
        /\ UNCHANGED actual_password
  /\ UNCHANGED <<acceptor, disk, tx, told>>

create_account_password(c, p) ==
  /\ Goto(c, "new_password", "insert")
  /\ actual_password' = [actual_password EXCEPT ![c] = p]
  /\ UNCHANGED <<acceptor, disk, tx, told>>

\* BEGIN, and the row of users.
insert_user(c) ==
  /\ st[c] = "insert"
  /\ \/ /\ CanReserve(c)
        /\ Goto(c, "insert", "create")
        /\ writer' = c
        /\ work' = [View(c) EXCEPT !.users[UserOf[c]] = Append(@, actual_password[c])]
        /\ UNCHANGED <<acceptor, pending>>
     \/ (~CanReserve(c) \/ Error) /\ Refused(c) /\ UNCHANGED tx
  /\ UNCHANGED <<actual_password, disk, told>>

\* Mutant: the user whose table exists already is let in.
CreateTableIfMissing(c) ==
  /\ Goto(c, "create", "commit")
  /\ work' = [work EXCEPT !.tables = @ \cup {UserOf[c]}]
  /\ UNCHANGED <<acceptor, actual_password, disk, writer, pending, told>>

\* CREATE TABLE, or the ROLLBACK of the catch.
create_table(c) ==
  /\ st[c] = "create"
  /\ \/ /\ UserOf[c] \notin work.tables
        /\ Goto(c, "create", "commit")
        /\ work' = [work EXCEPT !.tables = @ \cup {UserOf[c]}]
        /\ UNCHANGED <<acceptor, writer, pending>>
     \/ /\ UserOf[c] \in work.tables \/ Error
        /\ Refused(c)
        /\ NoTransaction
  /\ UNCHANGED <<actual_password, disk, told>>

\* COMMIT: whatever comes of it the user goes on, with a new account.
commit(c) ==
  /\ Goto(c, "commit", "password")
  /\ \/ CanCommit(c) /\ disk' = work /\ NoTransaction
     \/ ~CanCommit(c) /\ pending' = TRUE /\ UNCHANGED <<disk, writer, work>>
     \/ Error /\ NoTransaction /\ UNCHANGED disk
  /\ told' = {e \in told : e[1] # UserOf[c]}
  /\ UNCHANGED <<acceptor, actual_password>>

\* The client is asked again until its password is the right one.
Password(c) ==
  /\ Goto(c, "password", "list")
  /\ UNCHANGED <<acceptor, actual_password, disk, tx, told>>

\* Mutant: a query that cannot be prepared is an empty result.
ListAnyhow(c) ==
  /\ Goto(c, "list", "listing")
  /\ UNCHANGED <<acceptor, actual_password, disk, tx, told>>

\* getInitailizationEntries: a query that can be prepared and not executed is
\* an empty result.
getInitailizationEntries(c) ==
  /\ st[c] = "list"
  /\ \/ /\ UserOf[c] \in View(c).tables
        /\ Goto(c, "list", IF CanRead(c) THEN "listing" ELSE "sending")
        /\ UNCHANGED acceptor
     \/ (UserOf[c] \notin View(c).tables \/ Error) /\ Refused(c)
  /\ UNCHANGED <<actual_password, disk, tx, told>>

\* The rows have been fetched; the client has read them, and start() returns.
send_file_hash(c) ==
  /\ \/ Goto(c, "listing", "sending") /\ UNCHANGED acceptor
     \/ Goto(c, "sending", "serving") /\ acceptor' = "armed"
  /\ UNCHANGED <<actual_password, disk, tx, told>>

Login(c) ==
  \/ Name(c) \/ passwordFromUsername(c) \/ insert_user(c) \/ create_table(c) \/ commit(c)
  \/ getInitailizationEntries(c) \/ send_file_hash(c)

-----------------------------------------------------------------------------
\* The session.

\* Mutant: the result of the statement is not looked at.
AddActionIgnoresBusy(c, e) ==
  /\ st[c] = "serving"
  /\ IF CanReserve(c) /\ CanCommit(c) /\ writer # c
       THEN disk' = [disk EXCEPT !.stored = @ \cup {<<UserOf[c], e>>}] ELSE UNCHANGED disk
  /\ told' = told \cup {<<UserOf[c], e>>}
  /\ UNCHANGED <<st, acceptor, actual_password, tx>>

\* An action of the client on a file, and its response.
addAction(c, e) ==
  /\ st[c] = "serving"
  /\ \/ /\ writer = c
        /\ work' = [work EXCEPT !.stored = @ \cup {<<UserOf[c], e>>}]
        /\ told' = told \cup {<<UserOf[c], e>>}
        /\ UNCHANGED disk
     \/ /\ writer # c /\ CanReserve(c) /\ CanCommit(c)
        /\ disk' = [disk EXCEPT !.stored = @ \cup {<<UserOf[c], e>>}]
        /\ told' = told \cup {<<UserOf[c], e>>}
        /\ UNCHANGED work
     \/ /\ Error \/ (writer # c /\ ~(CanReserve(c) /\ CanCommit(c)))
        /\ UNCHANGED <<disk, work, told>>
  /\ UNCHANGED <<st, acceptor, actual_password, writer, pending>>

\* A query that cannot read is over at once, and the others are when their
\* rows have been fetched.
getRestoreEntries(c) ==
  /\ CanRead(c) /\ Goto(c, "serving", "restoring")
  /\ UNCHANGED <<acceptor, actual_password, disk, tx, told>>

restored(c) ==
  /\ Goto(c, "restoring", "serving")
  /\ UNCHANGED <<acceptor, actual_password, disk, tx, told>>

\* The client has quit, or its connection is lost: a read or a write fails.
Leave(c) ==
  /\ \/ Goto(c, "serving", "closing") /\ UNCHANGED acceptor
     \/ st[c] \in {"name", "new_password", "password", "sending"} /\ Refused(c)
  /\ UNCHANGED <<backlog, first, actual_password, disk, tx, told>>

\* ~ClientHandler on the io thread, sqlite3_close in it.  The first handler
\* and its connection stay; they leave no transaction open, because nobody else
\* is let in while the first client signs up.
close(c) ==
  /\ Goto(c, "closing", "away")
  /\ IF writer = c /\ c # first THEN NoTransaction ELSE UNCHANGED tx
  /\ first' = IF c = first THEN "left" ELSE first
  /\ actual_password' = [actual_password EXCEPT ![c] = None]
  /\ UNCHANGED <<backlog, acceptor, disk, told>>

Handler(c) == (Login(c) \/ restored(c)) /\ UNCHANGED <<backlog, first>>

\* What the client asks for, and when.
Request(c) ==
  /\ \/ \E p \in Passwords : create_account_password(c, p)
     \/ Password(c)
     \/ \E e \in Edits : addAction(c, e)
     \/ getRestoreEntries(c)
  /\ UNCHANGED <<backlog, first>>

Next ==
  \/ AcceptLoop \/ AcceptError \/ Crash \/ Restart
  \/ \E c \in Clients : Connect(c) \/ Handler(c) \/ Request(c) \/ Leave(c) \/ close(c)

Spec == Init /\ [][Next]_vars

\* The server's threads go on, and no client stays for ever: there is no timeout
\* on the server's side.
FairSpec ==
  /\ Spec
  /\ WF_vars(AcceptLoop)
  /\ \A c \in Clients : WF_vars(Handler(c)) /\ SF_vars(Leave(c)) /\ WF_vars(close(c))

-----------------------------------------------------------------------------
Databases == [users : [Users -> Seq(Passwords)], tables : SUBSET Users,
              stored : SUBSET (Users \X Edits)]

\* The types, and the pool: an io thread for every connection but the first when
\* its login is over, so that one more than thread_count can be served.
TypeOK ==
  /\ st \in [Clients -> {"away", "backlog", "closing"} \cup LoginStates \cup ServedStates]
  /\ backlog \in Seq(Clients)
  /\ acceptor \in {"armed", "login", "failed", "down"}
  /\ actual_password \in [Clients -> Passwords \cup {None}]
  /\ disk \in Databases /\ work \in Databases
  /\ first \in Clients \cup {"new", "left"}
  /\ writer \in Clients \cup {None} /\ pending \in BOOLEAN
  /\ told \subseteq Users \X Edits
  /\ Cardinality(OnIoThread) <= thread_count

\* createNewUser and addAction, statement by statement, under failures, a
\* crash, and commits that fail, change what is committed as Accounts allows.
ImplementsAccounts == Contract!Spec

\* Who is served has an account: in what his connection sees there is one row
\* with the password that he gave, and his table.
ServedHasAccount ==
  \A c \in Clients : st[c] \in ServedStates =>
    /\ View(c).users[UserOf[c]] = <<actual_password[c]>>
    /\ UserOf[c] \in View(c).tables

\* The actions that an account was told are completed are committed; they can
\* be lost only along with the account.
CompletedIsKept ==
  \A e \in told : e[1] \in disk.tables => e \in disk.stored

\* Whoever has connected is let in, or his connection is reset.
Served == \A c \in Clients : st[c] = "backlog" ~> st[c] # "backlog"

\* README.md:5: what is reported as stored is stored permanently.  (The code:
\* unless the account is new, see the result of COMMIT.)
PermanentlyStored ==
  \A e \in told : e \in disk.stored \cup work.stored
=============================================================================
