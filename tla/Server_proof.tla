---------------------------- MODULE Server_proof ----------------------------
(***************************************************************************)
(* Proofs about the server of Server.tla, for any clients, users and size  *)
(* of the pool: the accounts are made at once and kept, who is served has  *)
(* one, and a completed action is lost only with its account.              *)
(***************************************************************************)
EXTENDS Server, FiniteSetTheorems, TLAPS

\* TypeOK without the size of the pool.
Types ==
  /\ st \in [Clients -> {"away", "backlog", "closing"} \cup LoginStates \cup ServedStates]
  /\ backlog \in Seq(Clients)
  /\ acceptor \in {"armed", "login", "failed", "down"}
  /\ actual_password \in [Clients -> Passwords \cup {None}]
  /\ disk \in Databases /\ work \in Databases
  /\ first \in Clients \cup {"new", "left"}
  /\ writer \in Clients \cup {None} /\ pending \in BOOLEAN
  /\ told \subseteq Users \X Edits

\* Who waits in the backlog waits there once, and has no handler.
Waiting ==
  \A i, j \in 1 .. Len(backlog) :
    st[backlog[i]] = "backlog" /\ (backlog[i] = backlog[j] => i = j)

\* An account is a row of users and a table, and there is at most one row.
Whole ==
  \A u \in Users :
    IF u \in disk.tables THEN \E p \in Passwords : disk.users[u] = <<p>>
                         ELSE disk.users[u] = <<>>

\* The acceptor is not armed while a login is under way: there is one at a time.
OneLogin ==
  \A c \in Clients : st[c] \in LoginStates =>
    /\ acceptor = "login"
    /\ \A d \in Clients : st[d] \in LoginStates => d = c

\* Nobody is served before the first client is, and nobody else until it has
\* logged in.
Outside == {"away", "backlog"}
FirstAlone ==
  /\ first = "new" => \A c \in Clients : st[c] \in Outside
  /\ \A c \in Clients : c = first =>
       /\ st[c] \notin Outside
       /\ st[c] \in LoginStates => \A d \in Clients : d # c => st[d] \in Outside

\* Who has the transaction: a sign-up, or a connection whose COMMIT has failed.
Transaction ==
  /\ pending => writer # None
  /\ \A c \in Clients :
       /\ st[c] \in {"create", "commit"} => writer = c /\ ~pending
       /\ writer = c /\ ~pending => st[c] \in {"create", "commit"}
       /\ writer = c /\ pending =>
            /\ st[c] \in {"password", "list", "listing", "sending", "closing"} \cup ServedStates
            /\ c # first

\* What the transaction holds.
WithRow(c) == [disk EXCEPT !.users[UserOf[c]] = Append(@, actual_password[c])]
Work ==
  \A c \in Clients :
    /\ st[c] \in {"insert", "create", "commit"} => actual_password[c] \in Passwords
    /\ st[c] = "create" => work = WithRow(c)
    /\ st[c] = "commit" =>
         /\ UserOf[c] \notin disk.tables
         /\ work = [WithRow(c) EXCEPT !.tables = @ \cup {UserOf[c]}]
    /\ writer = c /\ pending => UserOf[c] \notin disk.tables

\* What a login has made sure of, and its session relies on.
LoggedIn ==
  \A c \in Clients :
    /\ st[c] \in {"password", "list"} /\ UserOf[c] \in View(c).tables =>
         View(c).users[UserOf[c]] = <<actual_password[c]>>
    /\ st[c] \in {"listing", "sending"} \cup ServedStates =>
         /\ View(c).users[UserOf[c]] = <<actual_password[c]>>
         /\ UserOf[c] \in View(c).tables

\* All of it but the size of the pool.
Data ==
  /\ Types /\ Waiting /\ Whole /\ OneLogin /\ FirstAlone /\ Transaction /\ Work /\ LoggedIn
  /\ CompletedIsKept
Inv == Data /\ Cardinality(OnIoThread) <= thread_count

-----------------------------------------------------------------------------
\* The edits of a database keep its type, and change what they say.
LEMMA EditsOfDatabases ==
  ASSUME NEW x \in Databases, NEW u \in Users
  PROVE  /\ \A p \in Passwords : [x EXCEPT !.users[u] = Append(@, p)] \in Databases
         /\ [x EXCEPT !.tables = @ \cup {u}] \in Databases
         /\ \A e \in Edits : [x EXCEPT !.stored = @ \cup {<<u, e>>}] \in Databases
         /\ Contract!Nobody \in Databases
<1>1. ASSUME NEW p \in Passwords
      PROVE  [x EXCEPT !.users[u] = Append(@, p)] \in Databases
  <2>1. Append(x.users[u], p) \in Seq(Passwords)
    BY DEF Databases
  <2>2. QED
    BY <2>1 DEF Databases
<1>2. [x EXCEPT !.tables = @ \cup {u}] \in Databases
  BY DEF Databases
<1>3. ASSUME NEW e \in Edits
      PROVE  [x EXCEPT !.stored = @ \cup {<<u, e>>}] \in Databases
  <2>1. x.stored \cup {<<u, e>>} \subseteq Users \X Edits
    BY DEF Databases
  <2>2. QED
    BY <2>1 DEF Databases
<1>4. Contract!Nobody \in Databases
  <2>1. <<>> \in Seq(Passwords)
    OBVIOUS
  <2>2. QED
    BY <2>1 DEF Databases, Contract!Nobody
<1>5. QED
  BY <1>1, <1>2, <1>3, <1>4

\* A handler's step leaves the backlog as it is.
LEMMA WaitingStays ==
  ASSUME Types, Waiting, NEW c \in Clients, st[c] # "backlog", backlog' = backlog,
         \A d \in Clients \ {c} : st'[d] = st[d]
  PROVE  Waiting'
<1>1. \A i \in 1 .. Len(backlog) : backlog[i] # c /\ backlog[i] \in Clients
  BY DEF Types, Waiting
<1>2. QED
  BY <1>1 DEF Waiting

\* The steps of a dialogue: they change neither the database nor what is told.
Talk(c) ==
  \/ /\ \/ Name(c) \/ passwordFromUsername(c) \/ getInitailizationEntries(c)
        \/ send_file_hash(c) \/ Password(c) \/ getRestoreEntries(c) \/ restored(c)
        \/ \E p \in Passwords : create_account_password(c, p)
     /\ UNCHANGED <<backlog, first>>
  \/ Leave(c) \/ Connect(c)

LEMMA TalkKeeps ==
  ASSUME Data, NEW c \in Clients, Talk(c)
  PROVE  Data' /\ OnIoThread' \subseteq OnIoThread
<1> USE ServerAssumption DEF Talk, Name, passwordFromUsername, getInitailizationEntries, send_file_hash,
      Password, getRestoreEntries, restored, create_account_password, Leave, Connect, Goto, Refused, tx
<1>1. UNCHANGED <<disk, writer, work, pending, told>>
  OBVIOUS
<1>2. \A d \in Clients : View(d)' = View(d)
  BY <1>1 DEF View
<1>3. ASSUME passwordFromUsername(c), st'[c] = "password"
      PROVE  /\ actual_password'[c] \in Passwords
             /\ UserOf[c] \in View(c).tables => View(c).users[UserOf[c]] = <<actual_password'[c]>>
  <2>1. View(c) = disk
    <3>1. st[c] = "lookup"
      BY <1>3
    <3>2. writer # c
      BY <3>1 DEF Data, Transaction, ServedStates
    <3>3. QED
      BY <3>2 DEF View
  <2>2. /\ disk.users[UserOf[c]] \in Seq(Passwords) /\ disk.users[UserOf[c]] # <<>>
        /\ actual_password'[c] = Head(disk.users[UserOf[c]])
    BY <1>3, <2>1 DEF Data, Types, Databases
  <2>3. QED
    BY <2>1, <2>2 DEF Data, Whole
<1>4. Types'
  <2>1. actual_password' \in [Clients -> Passwords \cup {None}]
    BY <1>3 DEF Data, Types
  <2>2. QED
    BY <1>1, <2>1 DEF Data, Types, LoginStates, ServedStates
<1>5. Whole'
  BY <1>1 DEF Data, Whole
<1>6. OneLogin' /\ FirstAlone'
  BY DEF Data, Types, OneLogin, LoginStates, ServedStates, FirstAlone, Outside
<1>7. Transaction'
  BY <1>1 DEF Data, Types, Transaction, ServedStates
<1>8. Work'
  <2>1. \A d \in Clients : st'[d] \in {"create", "commit"} => st'[d] = st[d] /\ actual_password'[d] = actual_password[d]
    BY DEF Data, Types
  <2>2. \A d \in Clients : st'[d] = "insert" => actual_password'[d] \in Passwords
    BY DEF Data, Types, Work
  <2>3. QED
    BY <1>1, <2>1, <2>2 DEF Data, Work, WithRow
<1>9. LoggedIn'
  <2>1. ASSUME NEW d \in Clients, d # c
        PROVE  st'[d] = st[d] /\ actual_password'[d] = actual_password[d]
    BY <2>1 DEF Data, Types
  <2>2. st'[c] \in {"password", "list"} /\ UserOf[c] \in View(c).tables =>
          View(c).users[UserOf[c]] = <<actual_password'[c]>>
    BY <1>3 DEF Data, Types, LoggedIn, ServedStates
  <2>3. st'[c] \in {"listing", "sending"} \cup ServedStates =>
          /\ View(c).users[UserOf[c]] = <<actual_password'[c]>>
          /\ UserOf[c] \in View(c).tables
    BY DEF Data, Types, LoggedIn, ServedStates
  <2>4. QED
    BY <1>2, <2>1, <2>2, <2>3 DEF Data, LoggedIn
<1>10. CompletedIsKept'
  BY <1>1 DEF Data, CompletedIsKept
<1>11. OnIoThread' \subseteq OnIoThread
  BY DEF Data, Types, OnIoThread, Busy, LoginStates, ServedStates
<1>12. Waiting'
  <2>1. CASE Connect(c)
    <3>1. /\ st[c] = "away" /\ st' = [st EXCEPT ![c] = "backlog"]
          /\ backlog \in Seq(Clients) /\ backlog' = Append(backlog, c)
      BY <2>1 DEF Data, Types
    <3>2. \A i \in 1 .. Len(backlog) : backlog[i] # c /\ backlog[i] \in Clients
      BY <3>1 DEF Data, Waiting
    <3>3. QED
      BY <3>1, <3>2 DEF Data, Types, Waiting
  <2>2. CASE ~Connect(c)
    <3>1. /\ backlog' = backlog /\ backlog \in Seq(Clients) /\ st[c] # "backlog"
          /\ \A d \in Clients \ {c} : st'[d] = st[d]
      BY <2>2 DEF Data, Types
    <3>2. QED
      BY <3>1, WaitingStays DEF Data
  <2>3. QED
    BY <2>1, <2>2
<1>13. QED
  BY <1>4, <1>5, <1>6, <1>7, <1>8, <1>9, <1>10, <1>11, <1>12 DEF Data

\* The row of a sign-up is written, or another connection is in the way.
LEMMA InsertKeeps ==
  ASSUME Data, NEW c \in Clients, insert_user(c), UNCHANGED <<backlog, first>>
  PROVE  Data' /\ OnIoThread' \subseteq OnIoThread
<1> USE ServerAssumption DEF insert_user, Goto, Refused, tx
<1>1. /\ st[c] = "insert" /\ UserOf[c] \in Users /\ actual_password[c] \in Passwords
      /\ writer # c /\ View(c) = disk
  BY DEF Data, Types, Transaction, Work, View, ServedStates
<1>2. \/ /\ st' = [st EXCEPT ![c] = "create"] /\ writer = None /\ writer' = c
         /\ work' = WithRow(c) /\ UNCHANGED <<acceptor, pending>>
      \/ st' = [st EXCEPT ![c] = "closing"] /\ acceptor' = "armed" /\ UNCHANGED tx
  BY <1>1 DEF CanReserve, WithRow
<1>3. UNCHANGED <<actual_password, disk, told, backlog, first>>
  OBVIOUS
<1> USE <1>1, <1>2, <1>3
<1>4. Types'
  <2>1. disk \in Databases /\ work \in Databases
    BY DEF Data, Types
  <2>2. WithRow(c) \in Databases
    BY <2>1, EditsOfDatabases DEF WithRow
  <2>3. QED
    BY <2>1, <2>2 DEF Data, Types, LoginStates, ServedStates
<1>5. Whole' /\ CompletedIsKept'
  BY DEF Data, Whole, CompletedIsKept
<1>6. OneLogin' /\ FirstAlone'
  BY DEF Data, Types, OneLogin, LoginStates, ServedStates, FirstAlone, Outside
<1>7. Transaction'
  BY DEF Data, Types, OneLogin, Transaction, LoginStates, ServedStates
<1>8. Work'
  <2>1. ASSUME NEW d \in Clients, st[d] \in {"insert", "create", "commit"}
        PROVE  d = c
    BY <2>1 DEF Data, OneLogin, LoginStates
  <2>2. \A d \in Clients : WithRow(d)' = WithRow(d)
    BY DEF WithRow
  <2>3. QED
    BY <2>1, <2>2 DEF Data, Types, Transaction, Work
<1>9. LoggedIn'
  <2>1. ASSUME NEW d \in Clients, d # c
        PROVE  View(d)' = View(d) /\ st'[d] = st[d]
    BY <2>1 DEF Data, Types, View
  <2>2. QED
    BY <2>1 DEF Data, Types, LoggedIn, ServedStates
<1>10. OnIoThread' \subseteq OnIoThread
  BY DEF Data, Types, OnIoThread, Busy, LoginStates, ServedStates
<1>11. Waiting'
  BY WaitingStays DEF Data, Types
<1>12. QED
  BY <1>4, <1>5, <1>6, <1>7, <1>8, <1>9, <1>10, <1>11 DEF Data

\* The table of a sign-up is made, or the sign-up is undone.
LEMMA CreateKeeps ==
  ASSUME Data, NEW c \in Clients, create_table(c), UNCHANGED <<backlog, first>>
  PROVE  Data' /\ OnIoThread' \subseteq OnIoThread
<1> USE ServerAssumption DEF create_table, Goto, Refused, tx, NoTransaction
<1>1. /\ st[c] = "create" /\ UserOf[c] \in Users /\ actual_password[c] \in Passwords
      /\ writer = c /\ ~pending /\ work = WithRow(c)
  BY DEF Data, Types, Transaction, Work
<1>2. \/ /\ st' = [st EXCEPT ![c] = "commit"] /\ UserOf[c] \notin disk.tables
         /\ work' = [WithRow(c) EXCEPT !.tables = @ \cup {UserOf[c]}]
         /\ UNCHANGED <<acceptor, writer, pending>>
      \/ /\ st' = [st EXCEPT ![c] = "closing"] /\ acceptor' = "armed"
         /\ writer' = None /\ work' = Contract!Nobody /\ pending' = FALSE
  BY <1>1 DEF Data, Types, Databases, WithRow
<1>3. UNCHANGED <<actual_password, disk, told, backlog, first>>
  OBVIOUS
<1> USE <1>1, <1>2, <1>3
<1>4. Types'
  <2>1. work \in Databases
    BY DEF Data, Types
  <2>2. /\ [work EXCEPT !.tables = @ \cup {UserOf[c]}] \in Databases
        /\ Contract!Nobody \in Databases
    BY <2>1, EditsOfDatabases
  <2>3. QED
    BY <2>2 DEF Data, Types, LoginStates, ServedStates
<1>5. Whole' /\ CompletedIsKept'
  BY DEF Data, Whole, CompletedIsKept
<1>6. OneLogin' /\ FirstAlone'
  BY DEF Data, Types, OneLogin, LoginStates, ServedStates, FirstAlone, Outside
<1>7. Transaction'
  BY DEF Data, Types, OneLogin, Transaction, LoginStates, ServedStates
<1>8. Work'
  <2>1. ASSUME NEW d \in Clients, st[d] \in {"insert", "create", "commit"}
        PROVE  d = c
    BY <2>1 DEF Data, OneLogin, LoginStates
  <2>2. \A d \in Clients : WithRow(d)' = WithRow(d)
    BY DEF WithRow
  <2>3. QED
    BY <2>1, <2>2 DEF Data, Types, Work
<1>9. LoggedIn'
  <2>1. ASSUME NEW d \in Clients, d # c
        PROVE  View(d)' = View(d) /\ st'[d] = st[d]
    BY <2>1 DEF Data, Types, View
  <2>2. QED
    BY <2>1 DEF Data, Types, LoggedIn, ServedStates
<1>10. OnIoThread' \subseteq OnIoThread
  BY DEF Data, Types, OnIoThread, Busy, LoginStates, ServedStates
<1>11. Waiting'
  BY WaitingStays DEF Data, Types
<1>12. QED
  BY <1>4, <1>5, <1>6, <1>7, <1>8, <1>9, <1>10, <1>11 DEF Data

\* A sign-up is committed, or its transaction stays, or is lost.
LEMMA CommitKeeps ==
  ASSUME Data, NEW c \in Clients, commit(c), UNCHANGED <<backlog, first>>
  PROVE  Data' /\ OnIoThread' \subseteq OnIoThread
<1> USE ServerAssumption DEF commit, Goto, tx, NoTransaction
<1> DEFINE u == UserOf[c]
<1>1. /\ st[c] = "commit" /\ u \in Users /\ actual_password[c] \in Passwords
      /\ writer = c /\ ~pending /\ u \notin disk.tables
      /\ work = [WithRow(c) EXCEPT !.tables = @ \cup {u}]
  BY DEF Data, Types, Transaction, Work
<1>2. /\ work.users = [disk.users EXCEPT ![u] = <<actual_password[c]>>]
      /\ work.tables = disk.tables \cup {u} /\ work.stored = disk.stored
  <2>1. disk.users[u] = <<>>
    BY <1>1 DEF Data, Whole
  <2>2. Append(disk.users[u], actual_password[c]) = <<actual_password[c]>>
    BY <1>1, <2>1
  <2>3. disk.users \in [Users -> Seq(Passwords)]
    BY DEF Data, Types, Databases
  <2>4. QED
    BY <1>1, <2>2, <2>3 DEF Data, Types, Databases, WithRow
<1>3. /\ UNCHANGED <<actual_password, acceptor, backlog, first>>
      /\ st' = [st EXCEPT ![c] = "password"]
      /\ told' = {e \in told : e[1] # u}
  OBVIOUS
<1>4. \/ disk' = work /\ writer' = None /\ work' = Contract!Nobody /\ pending' = FALSE
      \/ pending' = TRUE /\ UNCHANGED <<disk, writer, work>>
      \/ writer' = None /\ work' = Contract!Nobody /\ pending' = FALSE /\ UNCHANGED disk
  OBVIOUS
<1>5. Types'
  <2>1. work' \in Databases /\ disk' \in Databases
    BY <1>1, <1>4, EditsOfDatabases DEF Data, Types
  <2>2. QED
    BY <1>1, <1>3, <1>4, <2>1 DEF Data, Types, LoginStates, ServedStates
<1>6. Whole'
  <2>1. ASSUME disk' = work
        PROVE  Whole'
    <3>1. disk.users \in [Users -> Seq(Passwords)]
      BY DEF Data, Types, Databases
    <3>2. QED
      BY <1>1, <1>2, <2>1, <3>1 DEF Data, Whole
  <2>2. QED
    BY <1>4, <2>1 DEF Data, Whole
<1>7. OneLogin' /\ FirstAlone'
  BY <1>1, <1>3 DEF Data, Types, OneLogin, LoginStates, ServedStates, FirstAlone, Outside
<1>8. Transaction'
  <2>1. ASSUME pending'
        PROVE  c # first /\ writer' = c
    <3>1. ~CanCommit(c) /\ writer' = writer
      BY <1>1, <2>1
    <3>2. QED
      BY <1>1, <3>1 DEF Data, FirstAlone, CanCommit, LoginStates, Outside
  <2>2. \A d \in Clients : d # c => st'[d] = st[d] /\ st[d] \notin {"create", "commit"} /\ writer # d
    BY <1>1, <1>3 DEF Data, Types, OneLogin, LoginStates
  <2>3. QED
    BY <1>1, <1>3, <1>4, <2>1, <2>2 DEF Data, Types, Transaction, ServedStates
<1>9. Work'
  <2>1. ASSUME NEW d \in Clients
        PROVE  st'[d] \notin {"insert", "create", "commit"}
    BY <1>1, <1>3 DEF Data, Types, OneLogin, LoginStates
  <2>2. QED
    BY <1>1, <1>3, <1>4, <2>1 DEF Data, Types, Work
<1>10. LoggedIn'
  <2>1. \/ View(c)'.users[u] = <<actual_password[c]>> /\ u \in View(c)'.tables
        \/ u \notin View(c)'.tables
    <3>1. disk.users \in [Users -> Seq(Passwords)]
      BY DEF Data, Types, Databases
    <3>2. work.users[u] = <<actual_password[c]>> /\ u \in work.tables
      BY <1>1, <1>2, <3>1
    <3>3. /\ disk' = work => View(c)' = work
          /\ disk' = disk => View(c)' \in {disk, work}
      BY <1>1, <1>4 DEF View
    <3>4. QED
      BY <1>1, <1>4, <3>2, <3>3
  <2>2. ASSUME NEW d \in Clients, d # c
        PROVE  /\ st'[d] = st[d] /\ st[d] \notin {"password", "list", "listing", "sending"}
               /\ View(d) = disk /\ View(d)' = disk'
    BY <1>1, <1>3, <1>4, <2>2 DEF Data, Types, OneLogin, LoginStates, View
  <2>3. ASSUME NEW d \in Clients, d # c, st[d] \in ServedStates
        PROVE  /\ disk'.users[UserOf[d]] = <<actual_password[d]>>
               /\ UserOf[d] \in disk'.tables
    <3>1. disk.users[UserOf[d]] = <<actual_password[d]>> /\ UserOf[d] \in disk.tables
      BY <2>2, <2>3 DEF Data, LoggedIn
    <3>2. UserOf[d] # u
      BY <1>1, <3>1
    <3>3. disk.users \in [Users -> Seq(Passwords)]
      BY DEF Data, Types, Databases
    <3>4. QED
      BY <1>2, <1>4, <3>1, <3>2, <3>3
  <2>4. QED
    BY <1>1, <1>3, <2>1, <2>2, <2>3 DEF Data, Types, LoggedIn, ServedStates
<1>11. CompletedIsKept'
  BY <1>2, <1>3, <1>4 DEF Data, CompletedIsKept
<1>12. OnIoThread' \subseteq OnIoThread
  BY <1>1, <1>3 DEF Data, Types, OnIoThread, Busy, LoginStates, ServedStates
<1>13. Waiting'
  BY <1>1, <1>3, WaitingStays DEF Data, Types
<1>14. QED
  BY <1>5, <1>6, <1>7, <1>8, <1>9, <1>10, <1>11, <1>12, <1>13 DEF Data

\* An edit is stored where the connection looks: on the disk, or in the
\* transaction that its sign-up has left open.
LEMMA AddActionKeeps ==
  ASSUME Data, NEW c \in Clients, NEW e \in Edits, addAction(c, e), UNCHANGED <<backlog, first>>
  PROVE  Data' /\ OnIoThread' \subseteq OnIoThread
<1> USE ServerAssumption DEF addAction, tx
<1> DEFINE Stored(x) == [x EXCEPT !.stored = @ \cup {<<UserOf[c], e>>}]
<1>1. /\ st[c] = "serving" /\ UserOf[c] \in Users
      /\ UNCHANGED <<st, acceptor, actual_password, writer, pending, backlog, first>>
  OBVIOUS
<1>2. \/ /\ writer = c /\ pending
         /\ work' = Stored(work) /\ disk' = disk /\ told' = told \cup {<<UserOf[c], e>>}
      \/ /\ writer = None
         /\ work' = work /\ disk' = Stored(disk) /\ told' = told \cup {<<UserOf[c], e>>}
      \/ UNCHANGED <<disk, work, told>>
  <2>1. writer = c => pending
    BY <1>1 DEF Data, Transaction
  <2>2. QED
    BY <2>1 DEF CanReserve
<1>3. /\ disk \in Databases /\ work \in Databases
      /\ Stored(disk) \in Databases /\ Stored(work) \in Databases
  BY <1>1, EditsOfDatabases DEF Data, Types
<1>4. \A x \in {disk, work} :
        /\ Stored(x).users = x.users /\ Stored(x).tables = x.tables
        /\ Stored(x).stored = x.stored \cup {<<UserOf[c], e>>}
  BY <1>3 DEF Databases
<1>5. /\ disk'.users = disk.users /\ disk'.tables = disk.tables
      /\ work'.users = work.users /\ work'.tables = work.tables
  BY <1>2, <1>4
<1> HIDE DEF Stored, addAction
<1>6. Types'
  BY <1>1, <1>2, <1>3 DEF Data, Types
<1>7. Whole'
  BY <1>5 DEF Data, Whole
<1>8. OneLogin' /\ FirstAlone'
  BY <1>1 DEF Data, OneLogin, FirstAlone
<1>9. Transaction'
  BY <1>1 DEF Data, Transaction
<1>10. Work'
  <2>1. ASSUME UNCHANGED <<disk, work>>
        PROVE  Work'
    BY <1>1, <2>1 DEF Data, Work, WithRow
  <2>2. ASSUME writer = None \/ pending
        PROVE  \A d \in Clients : st'[d] \notin {"create", "commit"}
    BY <1>1, <2>2 DEF Data, Transaction
  <2>3. QED
    BY <1>1, <1>2, <1>5, <2>1, <2>2 DEF Data, Work
<1>11. LoggedIn'
  <2>1. \A d \in Clients : View(d)'.users = View(d).users /\ View(d)'.tables = View(d).tables
    BY <1>1, <1>5 DEF View
  <2>2. QED
    BY <1>1, <2>1 DEF Data, LoggedIn
<1>12. CompletedIsKept'
  <2>1. writer = c /\ pending => UserOf[c] \notin disk.tables
    BY DEF Data, Work
  <2>2. <<UserOf[c], e>>[1] = UserOf[c]
    OBVIOUS
  <2>3. QED
    BY <1>2, <1>4, <1>5, <2>1, <2>2 DEF Data, CompletedIsKept
<1>13. OnIoThread' \subseteq OnIoThread
  BY <1>1 DEF OnIoThread, Busy
<1>14. Waiting'
  BY <1>1, WaitingStays DEF Data, Types
<1>15. QED
  BY <1>6, <1>7, <1>8, <1>9, <1>10, <1>11, <1>12, <1>13, <1>14 DEF Data

\* A connection is closed, and rolls back the transaction that it had.
LEMMA CloseKeeps ==
  ASSUME Data, NEW c \in Clients, close(c)
  PROVE  Data' /\ OnIoThread' \subseteq OnIoThread
<1> USE ServerAssumption DEF close, Goto, tx, NoTransaction
<1>1. /\ st[c] = "closing" /\ st' = [st EXCEPT ![c] = "away"]
      /\ actual_password' = [actual_password EXCEPT ![c] = None]
      /\ UNCHANGED <<backlog, acceptor, disk, told>>
      /\ first' = IF c = first THEN "left" ELSE first
      /\ \/ writer' = None /\ work' = Contract!Nobody /\ pending' = FALSE /\ writer = c
         \/ writer # c /\ UNCHANGED <<writer, work, pending>>
  BY DEF Data, Transaction, ServedStates
<1>2. Types'
  <2>1. work \in Databases
    BY DEF Data, Types
  <2>2. UserOf[c] \in Users
    OBVIOUS
  <2>3. Contract!Nobody \in Databases
    BY <2>1, <2>2, EditsOfDatabases
  <2>4. QED
    BY <1>1, <2>3 DEF Data, Types
<1>3. Whole' /\ CompletedIsKept'
  BY <1>1 DEF Data, Whole, CompletedIsKept
<1>4. OneLogin' /\ FirstAlone'
  BY <1>1 DEF Data, Types, OneLogin, LoginStates, FirstAlone, Outside
<1>5. Transaction'
  BY <1>1 DEF Data, Types, Transaction
<1>6. Work'
  <2>1. ASSUME NEW d \in Clients, st'[d] \in {"insert", "create", "commit"}
        PROVE  /\ d # c /\ st[d] = st'[d] /\ actual_password'[d] = actual_password[d]
               /\ st[d] # "insert" => writer = d /\ work' = work
    BY <1>1, <2>1 DEF Data, Types, Transaction
  <2>2. QED
    BY <1>1, <2>1 DEF Data, Types, Work, WithRow
<1>7. LoggedIn'
  <2>1. ASSUME NEW d \in Clients, d # c
        PROVE  View(d)' = View(d) /\ st'[d] = st[d] /\ actual_password'[d] = actual_password[d]
    BY <1>1, <2>1 DEF Data, Types, View
  <2>2. QED
    BY <1>1, <2>1 DEF Data, Types, LoggedIn, ServedStates
<1>8. OnIoThread' \subseteq OnIoThread
  BY <1>1 DEF Data, Types, OnIoThread, Busy, LoginStates, ServedStates
<1>9. Waiting'
  BY <1>1, WaitingStays DEF Data, Types
<1>10. QED
  BY <1>2, <1>3, <1>4, <1>5, <1>6, <1>7, <1>8, <1>9 DEF Data

-----------------------------------------------------------------------------
\* A client is accepted while no login is under way.
LEMMA AcceptKeeps ==
  ASSUME Data, Accept
  PROVE  Data' /\ \E c \in Clients : OnIoThread' \subseteq OnIoThread \cup {c}
<1> USE ServerAssumption DEF Accept, tx
<1> DEFINE c == Head(backlog)
<1>1. /\ backlog \in Seq(Clients) /\ Len(backlog) \in Nat \ {0} /\ c = backlog[1] /\ st[c] = "backlog"
      /\ backlog' \in Seq(Clients) /\ Len(backlog') = Len(backlog) - 1
      /\ \A i \in 1 .. Len(backlog') : backlog'[i] = backlog[i + 1] /\ i + 1 \in 1 .. Len(backlog)
  BY DEF Data, Types, Waiting
<1>2. /\ c \in Clients /\ backlog' \in Seq(Clients) /\ acceptor = "armed" /\ acceptor' = "login"
      /\ st' = [st EXCEPT ![c] = "name"]
      /\ first' = IF first = "new" THEN c ELSE first
      /\ UNCHANGED <<actual_password, disk, writer, work, pending, told>>
  BY DEF Data, Types
<1>3. \A d \in Clients : st[d] \notin LoginStates
  BY <1>2 DEF Data, OneLogin
<1> HIDE DEF c, Accept
<1>4. Waiting'
  <2>1. ASSUME NEW i \in 1 .. Len(backlog')
        PROVE  backlog'[i] # c /\ st'[backlog'[i]] = "backlog"
    <3>1. /\ backlog'[i] = backlog[i + 1] /\ i + 1 \in 1 .. Len(backlog) /\ 1 \in 1 .. Len(backlog)
          /\ i + 1 # 1
      BY <1>1
    <3>2. backlog[i + 1] # c /\ st[backlog[i + 1]] = "backlog" /\ backlog[i + 1] \in Clients
      BY <1>1, <3>1 DEF Data, Types, Waiting
    <3>3. QED
      BY <1>2, <3>1, <3>2 DEF Data, Types
  <2>2. ASSUME NEW i \in 1 .. Len(backlog'), NEW j \in 1 .. Len(backlog'), backlog'[i] = backlog'[j]
        PROVE  i = j
    <3>1. i + 1 = j + 1
      BY <1>1, <2>2 DEF Data, Waiting
    <3>2. QED
      BY <3>1
  <2>3. QED
    BY <2>1, <2>2 DEF Waiting
<1>5. Types' /\ Whole' /\ CompletedIsKept'
  BY <1>2 DEF Data, Types, Whole, CompletedIsKept, LoginStates
<1>6. OneLogin' /\ FirstAlone'
  <2>1. OneLogin'
    BY <1>2, <1>3 DEF Data, Types, OneLogin
  <2>2. \A d \in Clients : d = first => d # c
    BY <1>1, <1>2 DEF Data, FirstAlone, Outside
  <2>3. \A d \in Clients : d # c => st'[d] = st[d]
    BY <1>2 DEF Data, Types
  <2>4. st'[c] = "name"
    BY <1>2 DEF Data, Types
  <2>5. CASE first = "new"
    <3>1. first' = c /\ c # "new" /\ \A d \in Clients : st[d] \in Outside
      BY <1>2, <2>5 DEF Data, FirstAlone
    <3>2. QED
      BY <2>1, <2>3, <2>4, <3>1 DEF FirstAlone, Outside
  <2>6. CASE first # "new"
    <3>1. first' = first
      BY <1>2, <2>6
    <3>2. QED
      BY <1>3, <2>1, <2>2, <2>3, <2>6, <3>1 DEF Data, FirstAlone
  <2>7. QED
    BY <2>1, <2>5, <2>6
<1>7. Transaction'
  BY <1>1, <1>2 DEF Data, Types, Transaction, ServedStates
<1>8. Work'
  BY <1>2, <1>3 DEF Data, Types, Work, WithRow, LoginStates
<1>9. LoggedIn'
  <2>1. \A d \in Clients : View(d)' = View(d)
    BY <1>2 DEF View
  <2>2. QED
    BY <1>2, <2>1 DEF Data, Types, LoggedIn, ServedStates
<1>10. OnIoThread' \subseteq OnIoThread \cup {c}
  BY <1>2 DEF Data, Types, OnIoThread, Busy
<1>11. QED
  BY <1>2, <1>4, <1>5, <1>6, <1>7, <1>8, <1>9, <1>10 DEF Data

\* The acceptor fails, or comes back; everyone is put off by a new Server, and
\* by a crash, which also undoes the open transaction.
LEMMA AcceptorKeeps ==
  ASSUME Data, AcceptError \/ NewServer \/ Crash \/ Restart
  PROVE  Data' /\ OnIoThread' \subseteq OnIoThread
<1> USE ServerAssumption DEF tx
<1>1. ASSUME AcceptError \/ Restart
      PROVE  Data' /\ OnIoThread' \subseteq OnIoThread
  <2>1. /\ acceptor # "login" /\ acceptor' \in {"failed", "armed"}
        /\ UNCHANGED <<st, backlog, first, actual_password, disk, tx, told>>
    BY <1>1 DEF AcceptError, Restart
  <2>2. \A d \in Clients : View(d)' = View(d) /\ WithRow(d)' = WithRow(d)
    BY <2>1 DEF View, WithRow
  <2>3. Types' /\ Waiting' /\ Whole' /\ OneLogin' /\ FirstAlone' /\ Transaction' /\ CompletedIsKept'
    BY <2>1 DEF Data, Types, Waiting, Whole, OneLogin, FirstAlone, Transaction, CompletedIsKept
  <2>4. Work' /\ LoggedIn'
    BY <2>1, <2>2 DEF Data, Work, LoggedIn
  <2>5. QED
    BY <2>1, <2>3, <2>4 DEF Data, OnIoThread, Busy
<1>2. ASSUME NewServer \/ Crash
      PROVE  Data' /\ OnIoThread' \subseteq OnIoThread
  <2>1. /\ st' = [c \in Clients |-> "away"] /\ backlog' = <<>> /\ acceptor' \in {"armed", "down"}
        /\ first' = "new"
        /\ UNCHANGED <<disk, told>>
    BY <1>2 DEF NewServer, Crash
  <2>2. /\ actual_password' \in [Clients -> Passwords \cup {None}]
        /\ writer' = None /\ ~pending' /\ work' \in Databases /\ pending' \in BOOLEAN
    <3>1. ASSUME NewServer
          PROVE  writer = None /\ ~pending
      BY <3>1 DEF NewServer, Data, Types, Transaction, OnIoThread, Busy, LoginStates, ServedStates
    <3>2. Contract!Nobody \in Databases
      BY DEF Contract!Nobody, Databases
    <3>3. CASE NewServer
      BY <3>1, <3>3 DEF NewServer, Data, Types
    <3>4. CASE Crash
      <4>1. /\ actual_password' = [c \in Clients |-> None]
            /\ writer' = None /\ pending' = FALSE /\ work' = Contract!Nobody
        BY <3>4 DEF Crash, NoTransaction
      <4>2. QED
        BY <3>2, <4>1
    <3>5. QED
      BY <1>2, <3>3, <3>4
  <2>3. Types' /\ Waiting' /\ Whole' /\ CompletedIsKept'
    BY <2>1, <2>2 DEF Data, Types, Waiting, Whole, CompletedIsKept
  <2>4. OneLogin' /\ FirstAlone' /\ Transaction' /\ Work' /\ LoggedIn'
    BY <2>1, <2>2 DEF OneLogin, FirstAlone, Outside, Transaction, Work, LoggedIn, LoginStates, ServedStates
  <2>5. OnIoThread' \subseteq OnIoThread
    BY <2>1 DEF OnIoThread, Busy, LoginStates, ServedStates
  <2>6. QED
    BY <2>3, <2>4, <2>5 DEF Data
<1>3. QED
  BY <1>1, <1>2

-----------------------------------------------------------------------------
\* The invariant holds: a login is alone, so that nobody else of its user can
\* make the account that it has not found.
THEOREM Invariance == Spec => []Inv
<1>1. Init => Inv
  <2>1. ASSUME Init
        PROVE  Types /\ Waiting /\ Whole /\ OneLogin /\ FirstAlone /\ Transaction /\ Work /\ LoggedIn /\ CompletedIsKept
    <3>1. Contract!Nobody \in Databases
      BY DEF Contract!Nobody, Databases
    <3>2. Types /\ Waiting /\ CompletedIsKept
      <4>1. Types
        <5>1. st \in [Clients -> {"away"}] /\ actual_password \in [Clients -> {None}]
          BY <2>1 DEF Init
        <5>2. disk \in Databases /\ work \in Databases
          BY <2>1, <3>1 DEF Init
        <5>3. /\ backlog \in Seq(Clients) /\ acceptor = "armed" /\ first = "new"
              /\ writer = None /\ pending = FALSE /\ told = {}
          BY <2>1 DEF Init
        <5>4. QED
          BY <5>1, <5>2, <5>3 DEF Types
      <4>2. Waiting
        BY <2>1 DEF Init, Waiting
      <4>3. CompletedIsKept
        BY <2>1 DEF Init, CompletedIsKept
      <4>4. QED
        BY <4>1, <4>2, <4>3
    <3>3. Whole
      BY <2>1 DEF Init, Whole, Contract!Nobody
    <3>4. OneLogin /\ FirstAlone /\ Transaction /\ Work /\ LoggedIn
      BY <2>1, ServerAssumption
         DEF Init, OneLogin, FirstAlone, Outside, Transaction, Work, LoggedIn, LoginStates, ServedStates
    <3>5. QED
      BY <3>2, <3>3, <3>4
  <2>2. ASSUME Init
        PROVE  Cardinality(OnIoThread) <= thread_count
    <3>1. OnIoThread = {}
      BY <2>2 DEF Init, OnIoThread, Busy, LoginStates, ServedStates
    <3>2. QED
      BY <3>1, FS_EmptySet, ServerAssumption
  <2>3. QED
    BY <2>1, <2>2 DEF Inv, Data
<1>2. Inv /\ [Next]_vars => Inv'
  <2> SUFFICES ASSUME Inv, [Next]_vars
               PROVE  Inv'
    OBVIOUS
  <2>1. Data
    BY DEF Inv
  <2>2. IsFiniteSet(OnIoThread) /\ Cardinality(OnIoThread) \in Nat
    BY ServerAssumption, FS_Subset, FS_CardinalityType DEF OnIoThread, Busy
  <2>3. ASSUME Data', OnIoThread' \subseteq OnIoThread
        PROVE  Inv'
    <3>1. Cardinality(OnIoThread') <= Cardinality(OnIoThread)
      BY <2>2, <2>3, FS_Subset
    <3>2. IsFiniteSet(OnIoThread') /\ Cardinality(OnIoThread') \in Nat
      BY <2>2, <2>3, FS_Subset, FS_CardinalityType
    <3>3. QED
      BY <2>2, <2>3, <3>1, <3>2, ServerAssumption DEF Inv
  <2>4. CASE Accept
    <3>1. PICK c \in Clients : OnIoThread' \subseteq OnIoThread \cup {c}
      BY <2>1, <2>4, AcceptKeeps
    <3>2. /\ IsFiniteSet(OnIoThread \cup {c}) /\ Cardinality(OnIoThread \cup {c}) \in Nat
          /\ Cardinality(OnIoThread \cup {c}) <= Cardinality(OnIoThread) + 1
      <4>1. /\ IsFiniteSet(OnIoThread \cup {c})
            /\ Cardinality(OnIoThread \cup {c}) =
                 IF c \in OnIoThread THEN Cardinality(OnIoThread) ELSE Cardinality(OnIoThread) + 1
        BY <2>2, FS_AddElement, Zenon
      <4>2. QED
        BY <2>2, <4>1
    <3>3. /\ Cardinality(OnIoThread') <= Cardinality(OnIoThread \cup {c}) /\ Cardinality(OnIoThread') \in Nat
      BY <3>1, <3>2, FS_Subset, FS_CardinalityType
    <3>4. Cardinality(OnIoThread) < thread_count
      BY <2>4 DEF Accept, IdleThread
    <3>5. QED
      BY <2>1, <2>2, <2>4, <3>2, <3>3, <3>4, AcceptKeeps, ServerAssumption DEF Inv
  <2>5. CASE AcceptError \/ NewServer \/ Crash \/ Restart
    BY <2>1, <2>3, <2>5, AcceptorKeeps
  <2>6. CASE \E c \in Clients : Connect(c) \/ Handler(c) \/ Request(c) \/ Leave(c) \/ close(c)
    <3>1. PICK c \in Clients : Connect(c) \/ Handler(c) \/ Request(c) \/ Leave(c) \/ close(c)
      BY <2>6
    <3>2. CASE Talk(c)
      BY <2>1, <2>3, <3>2, TalkKeeps
    <3>3. CASE insert_user(c) /\ UNCHANGED <<backlog, first>>
      BY <2>1, <2>3, <3>3, InsertKeeps
    <3>4. CASE create_table(c) /\ UNCHANGED <<backlog, first>>
      BY <2>1, <2>3, <3>4, CreateKeeps
    <3>5. CASE commit(c) /\ UNCHANGED <<backlog, first>>
      BY <2>1, <2>3, <3>5, CommitKeeps
    <3>6. CASE (\E e \in Edits : addAction(c, e)) /\ UNCHANGED <<backlog, first>>
      BY <2>1, <2>3, <3>6, AddActionKeeps
    <3>7. CASE close(c)
      BY <2>1, <2>3, <3>7, CloseKeeps
    <3>8. QED
      BY <3>1, <3>2, <3>3, <3>4, <3>5, <3>6, <3>7 DEF Handler, Login, Request, Talk
  <2>7. CASE UNCHANGED vars
    <3>1. \A d \in Clients : View(d)' = View(d) /\ WithRow(d)' = WithRow(d)
      BY <2>7 DEF vars, tx, View, WithRow
    <3>2. Types' /\ Waiting' /\ Whole' /\ OneLogin' /\ FirstAlone' /\ Transaction' /\ CompletedIsKept'
      BY <2>1, <2>7 DEF vars, tx, Data, Types, Waiting, Whole, OneLogin, FirstAlone, Transaction, CompletedIsKept
    <3>3. Work' /\ LoggedIn'
      BY <2>1, <2>7, <3>1 DEF vars, tx, Data, Work, LoggedIn
    <3>4. OnIoThread' = OnIoThread
      BY <2>7 DEF vars, OnIoThread, Busy
    <3>5. QED
      BY <2>3, <3>2, <3>3, <3>4 DEF Data
  <2>8. QED
    BY <2>4, <2>5, <2>6, <2>7 DEF Next, AcceptLoop
<1>3. QED
  BY <1>1, <1>2, PTL DEF Spec

\* The types, and the pool: every connection has an io thread, except the first
\* one of a Server once its login is over (Server.h:23, 57-66).
THEOREM TypeCorrect == Spec => []TypeOK
<1>1. Inv => TypeOK
  BY DEF Inv, Data, Types, TypeOK
<1>2. QED
  BY <1>1, Invariance, PTL

\* ClientHandler.cpp:75-136: who is served has an account, in what his
\* connection sees, with the password that he gave.
THEOREM ServedAccounts == Spec => []ServedHasAccount
<1>1. Inv => ServedHasAccount
  BY DEF Inv, Data, LoggedIn, ServedHasAccount
<1>2. QED
  BY <1>1, Invariance, PTL

\* An action that an account was told is completed is committed, or goes with
\* the account when its sign-up was not.
THEOREM CompletedActionsKept == Spec => []CompletedIsKept
<1>1. Inv => CompletedIsKept
  BY DEF Inv, Data
<1>2. QED
  BY <1>1, Invariance, PTL

\* The refinement.  A COMMIT that succeeds makes an account, an action that is
\* stored on the disk is one of an account, and nothing else is seen there.
THEOREM ServerImplementsAccounts == Spec => ImplementsAccounts
<1>1. Init => Contract!Init
  BY DEF Init, Contract!Init
<1>2. Inv /\ [Next]_vars => [Contract!Next]_disk
  <2> SUFFICES ASSUME Data, [Next]_vars, disk' # disk
               PROVE  Contract!Next
    BY DEF Inv
  <2>1. PICK c \in Clients : commit(c) \/ \E e \in Edits : addAction(c, e)
    BY DEF Next, AcceptLoop, Accept, NewServer, AcceptError, Crash, Restart, Handler, Request,
           Login, Connect, Leave, close, Name, passwordFromUsername, insert_user, create_table,
           getInitailizationEntries, send_file_hash, restored, getRestoreEntries, Password,
           create_account_password, vars
  <2>2. UserOf[c] \in Users
    BY ServerAssumption
  <2>3. CASE commit(c)
    <3>1. /\ actual_password[c] \in Passwords /\ UserOf[c] \notin disk.tables
          /\ disk.users[UserOf[c]] = <<>>
          /\ disk' = [WithRow(c) EXCEPT !.tables = @ \cup {UserOf[c]}]
      BY <2>2, <2>3 DEF commit, Goto, Data, Work, Whole, NoTransaction
    <3>2. disk' = [disk EXCEPT !.users[UserOf[c]] = <<actual_password[c]>>,
                               !.tables = @ \cup {UserOf[c]}]
      <4>1. Append(disk.users[UserOf[c]], actual_password[c]) = <<actual_password[c]>>
        BY <3>1
      <4>2. QED
        BY <2>2, <3>1, <4>1 DEF WithRow, Data, Types, Databases
    <3>3. Contract!createNewUser(UserOf[c], actual_password[c])
      BY <3>1, <3>2 DEF Contract!createNewUser
    <3>4. QED
      BY <2>2, <3>1, <3>3 DEF Contract!Next
  <2>4. ASSUME NEW e \in Edits, addAction(c, e)
        PROVE  Contract!Next
    <3>1. st[c] = "serving" /\ disk' = [disk EXCEPT !.stored = @ \cup {<<UserOf[c], e>>}] /\ writer # c
      BY <2>4 DEF addAction
    <3>2. UserOf[c] \in disk.tables
      BY <3>1 DEF Data, LoggedIn, View, ServedStates
    <3>3. QED
      BY <2>2, <3>1, <3>2 DEF Contract!Next, Contract!addAction
  <2>5. QED
    BY <2>1, <2>3, <2>4
<1>3. QED
  BY <1>1, <1>2, Invariance, PTL DEF Spec, ImplementsAccounts, Contract!Spec
=============================================================================
