---------------------------- MODULE FileWatcher -----------------------------
(***************************************************************************)
(* Client/FileWatcher.cpp: the watched folder is compared with what the    *)
(* server has, and then scanned again and again.  What a pass finds is     *)
(* pushed as an action; another thread sends the action, and reads the     *)
(* content of the file only then.  The folder changes all the while.       *)
(*                                                                         *)
(* The rest of the client and the server are one action, Send: the oldest  *)
(* action reaches the backup, as BackupSession shows of a session whose    *)
(* connection holds, or it is refused, and nothing sends it again.  A pass *)
(* visits the paths in any order; what is created or removed during the    *)
(* pass may be listed by the directory iterator or not.                    *)
(* Every change of a path gives it a new last_write_time.                  *)
(***************************************************************************)
EXTENDS Integers, Sequences

CONSTANTS
  Path, Hash, None,
  Content,    \* for each path, what can be there: in Hash \cup {"dir"}
  MaxEdits,   \* bound on the changes of the folder
  MaxRestores,
  InitEdits,  \* the folder can change during init_status
  Faults      \* why an action can be refused, see Refuses

ASSUME WatcherAssumption ==
  /\ MaxEdits \in Nat /\ MaxRestores \in Nat
  /\ None \notin Nat \cup Hash \cup {"dir"} \cup [hash : Hash \cup {"dir"}, time : Nat]
  /\ Content \in [Path -> SUBSET (Hash \cup {"dir"})]
  /\ InitEdits \in BOOLEAN
  /\ Faults \subseteq {"too_large", "db_write"}

VARIABLES
  tree,            \* what is on disk, for each path: [hash, time] or None
  edits,           \* the changes so far, which is also the clock
  initial_status,  \* what is left of the server's list, [path -> hash or None]
  paths_,          \* the last_write_time recorded for a path, or None
  watcher,         \* where start() is: pc, the paths of the pass that are to be
                   \* visited, those there when it began, the path at hand and
                   \* what it was found to be
  running_, pause_execution, restores,
  actions,         \* Buffer.h
  backup,          \* [path -> hash or None]
  refused,         \* the paths of which the last action sent was refused
  failed           \* an exception has ended a thread

vars == <<tree, edits, initial_status, paths_, watcher, running_, pause_execution,
          restores, actions, backup, refused, failed>>
folderVars == <<tree, edits>>
serverVars == <<backup, refused>>
flagVars == <<running_, pause_execution, restores>>

Existing == {p \in Path : tree[p] # None}
Recorded == {p \in Path : paths_[p] # None}
IsDirectory(p) == p \in Existing /\ tree[p].hash = "dir"

\* start() has no path at hand; a pass over the paths of todo begins.
At(pc, todo, there) ==
  [pc |-> pc, todo |-> todo, there |-> there, path |-> None, found |-> None]

Init ==
  /\ tree \in {t \in [Path -> [hash : Hash \cup {"dir"}, time : {0}] \cup {None}] :
                 \A p \in Path : t[p] = None \/ t[p].hash \in Content[p]}
  /\ edits = 0
  /\ backup \in {b \in [Path -> Hash \cup {"dir", None}] :
                   \A p \in Path : b[p] \in Content[p] \cup {None}}
  /\ initial_status = backup
  /\ refused = {}
  /\ paths_ = [p \in Path |-> None]
  /\ watcher = At("init", Path, Existing)
  /\ running_ = TRUE /\ pause_execution = FALSE /\ restores = 0
  /\ actions = <<>>
  /\ failed = FALSE

InitPc == {"init", "hashed", "record"}
ScanPc == {"erase", "scan", "notify"}   \* the mutex is held

-----------------------------------------------------------------------------
\* The folder.

Edit(p, content) ==
  /\ edits < MaxEdits
  /\ ~InitEdits => watcher.pc \notin InitPc
  /\ content # None \/ p \in Existing
  /\ edits' = edits + 1
  /\ tree' = [tree EXCEPT ![p] = IF content = None THEN None
                                 ELSE [hash |-> content, time |-> edits + 1]]
  /\ UNCHANGED <<initial_status, paths_, watcher, flagVars, actions, serverVars, failed>>

-----------------------------------------------------------------------------
\* The constructor of Action, which looks at the disk again, and push.

ActionType(p, fileStatus) ==
  CASE fileStatus = "created"  -> IF IsDirectory(p) THEN "create_folder" ELSE "read_file"
    [] fileStatus = "modified" -> IF IsDirectory(p) THEN "ignore" ELSE "read_file"
    [] fileStatus = "erased"   -> "delete_path"

\* Mutant: what is queued is the status of the file.
QueueStatus(p, fileStatus) ==
  actions' = Append(actions, [type |-> fileStatus, path |-> p])

action(p, fileStatus) ==
  actions' = Append(actions, [type |-> ActionType(p, fileStatus), path |-> p])

\* recursive_directory_iterator comes to p, or passes it by, or has listed it
\* and finds that it is gone.
Visited(p) == p \in watcher.todo /\ p \in Existing
PassedBy(p) == p \in watcher.todo /\ (p \notin Existing \/ p \notin watcher.there)
Vanished(p) == p \in watcher.todo /\ p \notin Existing /\ p \in watcher.there
Skip(p) ==
  /\ PassedBy(p)
  /\ watcher' = [watcher EXCEPT !.todo = @ \ {p}]
  /\ UNCHANGED <<paths_, initial_status, actions, failed>>

Throw ==
  /\ failed' = TRUE
  /\ watcher' = At("failed", {}, {})
  /\ UNCHANGED <<paths_, initial_status, actions>>

WatcherKeeps == UNCHANGED <<folderVars, flagVars, serverVars>>

-----------------------------------------------------------------------------
\* init_status.

init_status(p) ==
  /\ watcher.pc = "init"
  /\ \/ /\ Visited(p) /\ initial_status[p] # None
        /\ watcher' = [watcher EXCEPT !.pc = "hashed", !.path = p, !.found = tree[p].hash,
                                      !.todo = @ \ {p}]
        /\ UNCHANGED <<paths_, initial_status, actions, failed>>
     \/ /\ Visited(p) /\ initial_status[p] = None
        /\ action(p, "created")
        /\ watcher' = [watcher EXCEPT !.pc = "record", !.path = p, !.todo = @ \ {p}]
        /\ UNCHANGED <<paths_, initial_status, failed>>
     \/ Skip(p)
     \/ Vanished(p) /\ Throw
  /\ WatcherKeeps

\* Mutant: a path that was compared stays on the server's list.
CompareKeepsStatus ==
  LET p == watcher.path IN
  /\ watcher.pc = "hashed"
  /\ IF watcher.found # initial_status[p] THEN action(p, "modified") ELSE UNCHANGED actions
  /\ watcher' = [watcher EXCEPT !.pc = "record"]
  /\ UNCHANGED <<initial_status, paths_, failed>> /\ WatcherKeeps

\* The hash has been computed: the time is read, and the hash compared.
init_compare ==
  LET p == watcher.path IN
  /\ watcher.pc = "hashed"
  /\ \/ p \notin Existing /\ Throw
     \/ /\ p \in Existing
        /\ IF watcher.found # initial_status[p] THEN action(p, "modified") ELSE UNCHANGED actions
        /\ initial_status' = [initial_status EXCEPT ![p] = None]
        /\ watcher' = [watcher EXCEPT !.pc = "record"]
        /\ UNCHANGED <<paths_, failed>>
  /\ WatcherKeeps

\* The time is read (again), after the action was pushed.
init_record ==
  LET p == watcher.path IN
  /\ watcher.pc = "record"
  /\ \/ p \notin Existing /\ Throw
     \/ /\ p \in Existing
        /\ paths_' = [paths_ EXCEPT ![p] = tree[p].time]
        /\ watcher' = At("init", watcher.todo, watcher.there)
        /\ UNCHANGED <<initial_status, actions, failed>>
  /\ WatcherKeeps

\* What the server has and the pass has not found.
init_erased ==
  /\ watcher.pc = "init" /\ watcher.todo = {}
  /\ \/ \E p \in Path :
          /\ initial_status[p] # None
          /\ action(p, "erased")
          /\ initial_status' = [initial_status EXCEPT ![p] = None]
          /\ UNCHANGED watcher
     \/ /\ \A p \in Path : initial_status[p] = None
        /\ watcher' = At(IF running_ THEN "sleep" ELSE "done", {}, {})
        /\ UNCHANGED <<initial_status, actions>>
  /\ UNCHANGED <<paths_, failed>> /\ WatcherKeeps

-----------------------------------------------------------------------------
\* The loop of start().

\* Mutant: the watcher does not wait while it is paused.
WakeAnyhow ==
  /\ watcher.pc = "sleep"
  /\ watcher' = At("erase", Recorded, {})
  /\ UNCHANGED <<paths_, initial_status, actions, failed>> /\ WatcherKeeps

wake ==
  /\ watcher.pc = "sleep"
  /\ ~pause_execution
  /\ watcher' = At("erase", Recorded, {})
  /\ UNCHANGED <<paths_, initial_status, actions, failed>> /\ WatcherKeeps

scan_erased ==
  /\ watcher.pc = "erase"
  /\ \/ \E p \in watcher.todo :
          /\ watcher' = [watcher EXCEPT !.todo = @ \ {p}]
          /\ IF p \in Existing THEN UNCHANGED <<paths_, actions>>
             ELSE action(p, "erased") /\ paths_' = [paths_ EXCEPT ![p] = None]
     \/ /\ watcher.todo = {}
        /\ watcher' = At("scan", Path, Existing)
        /\ UNCHANGED <<paths_, actions>>
  /\ UNCHANGED <<initial_status, failed>> /\ WatcherKeeps

scan(p) ==
  /\ watcher.pc = "scan"
  /\ \/ /\ Visited(p) /\ paths_[p] # tree[p].time
        /\ paths_' = [paths_ EXCEPT ![p] = tree[p].time]
        /\ watcher' = [watcher EXCEPT !.pc = "notify", !.path = p,
                         !.found = IF paths_[p] = None THEN "created" ELSE "modified",
                         !.todo = @ \ {p}]
        /\ UNCHANGED <<initial_status, actions, failed>>
     \/ /\ Visited(p) /\ paths_[p] = tree[p].time
        /\ watcher' = [watcher EXCEPT !.todo = @ \ {p}]
        /\ UNCHANGED <<paths_, initial_status, actions, failed>>
     \/ Skip(p)
     \/ Vanished(p) /\ Throw
  /\ WatcherKeeps

scan_notify ==
  /\ watcher.pc = "notify"
  /\ action(watcher.path, watcher.found)
  /\ watcher' = At("scan", watcher.todo, watcher.there)
  /\ UNCHANGED <<paths_, initial_status, failed>> /\ WatcherKeeps

\* The mutex is released, and running_ is looked at.
scan_end ==
  /\ watcher.pc = "scan" /\ watcher.todo = {}
  /\ watcher' = At(IF running_ THEN "sleep" ELSE "done", {}, {})
  /\ UNCHANGED <<paths_, initial_status, actions, failed>> /\ WatcherKeeps

\* It goes on when another thread has failed.
Watcher ==
  \/ \E p \in Path : init_status(p) \/ scan(p)
  \/ init_compare \/ init_record \/ init_erased
  \/ wake \/ scan_erased \/ scan_notify \/ scan_end

-----------------------------------------------------------------------------
\* Calls of other threads: a restore pauses the watcher, join_threads stops it.
\* A scan holds the mutex, and init_status does not: it goes on when paused.

FlagsKeep == UNCHANGED <<folderVars, initial_status, paths_, watcher, actions, serverVars, failed>>

pause ==
  /\ restores < MaxRestores /\ ~pause_execution
  /\ watcher.pc \notin ScanPc
  /\ pause_execution' = TRUE /\ restores' = restores + 1
  /\ UNCHANGED running_ /\ FlagsKeep

\* Mutant: the flag is not reset.
RestartForgets ==
  /\ pause_execution
  /\ UNCHANGED flagVars /\ FlagsKeep

restart ==
  /\ pause_execution
  /\ pause_execution' = FALSE
  /\ UNCHANGED <<running_, restores>> /\ FlagsKeep

stop ==
  /\ running_
  /\ running_' = FALSE
  /\ UNCHANGED <<pause_execution, restores>> /\ FlagsKeep

-----------------------------------------------------------------------------
\* Why an action does not reach the backup: the file is above MAX_FILE_SIZE, or
\* the server answers error.
Refuses(a) ==
  \/ "too_large" \in Faults /\ a.type = "read_file"
  \/ "db_write" \in Faults /\ a.type # "ignore"

Unsendable(a) == a.type = "read_file" /\ (a.path \notin Existing \/ IsDirectory(a.path))

\* send_action throws for a file that is not there or is a directory.
Send ==
  LET a == Head(actions) IN
  /\ ~failed /\ actions # <<>>
  /\ actions' = Tail(actions)
  /\ \/ /\ Unsendable(a)
        /\ failed' = TRUE
        /\ UNCHANGED serverVars
     \/ /\ ~Unsendable(a)
        /\ backup' = [backup EXCEPT ![a.path] =
             CASE a.type = "read_file"     -> tree[a.path].hash
               [] a.type = "create_folder" -> "dir"
               [] a.type = "delete_path"   -> None
               [] a.type = "ignore"        -> @]
        /\ refused' = IF a.type = "ignore" THEN refused ELSE refused \ {a.path}
        /\ UNCHANGED failed
     \/ /\ ~Unsendable(a) /\ Refuses(a)
        /\ refused' = refused \cup {a.path}
        /\ UNCHANGED <<backup, failed>>
  /\ UNCHANGED <<folderVars, initial_status, paths_, watcher, flagVars>>

Next ==
  \/ \E p \in Path : \E content \in Content[p] \cup {None} : Edit(p, content)
  \/ Watcher \/ pause \/ restart \/ stop \/ Send

Spec == Init /\ [][Next]_vars

\* The watcher and the sender go on, and a restore ends.
FairSpec ==
  /\ Spec
  /\ WF_vars(Watcher) /\ WF_vars(Send) /\ WF_vars(restart)

-----------------------------------------------------------------------------
Contents == Hash \cup {"dir"}
Position == [pc : InitPc \cup ScanPc \cup {"sleep", "done", "failed"},
             todo : SUBSET Path, there : SUBSET Path, path : Path \cup {None},
             found : Contents \cup {"created", "modified", None}]
Act == [type : {"read_file", "create_folder", "delete_path", "ignore"}, path : Path]

TypeOK ==
  /\ tree \in [Path -> [hash : Contents, time : 0 .. MaxEdits] \cup {None}]
  /\ edits \in 0 .. MaxEdits
  /\ initial_status \in [Path -> Contents \cup {None}]
  /\ paths_ \in [Path -> (0 .. MaxEdits) \cup {None}]
  /\ watcher \in Position
  /\ running_ \in BOOLEAN /\ pause_execution \in BOOLEAN /\ restores \in 0 .. MaxRestores
  /\ actions \in Seq(Act)
  /\ backup \in [Path -> Contents \cup {None}]
  /\ refused \subseteq Path
  /\ failed \in BOOLEAN

HashAt(p) == IF p \in Existing THEN tree[p].hash ELSE None
TimeAt(p) == IF p \in Existing THEN tree[p].time ELSE None

\* A modified directory is ignored (Action.h:28-30), also when a file was there.
StillAFile(p) == backup[p] \in Hash /\ IsDirectory(p)

\* The backup has the path as it is, or the user has been told that it was
\* refused (Client.cpp:456-463, 128-130).
UpToDate(p) == backup[p] = HashAt(p) \/ StillAFile(p)
Settled(p) == UpToDate(p) \/ p \in refused

\* What the watcher has seen is in the backup, an action is on its way, or the
\* last one was refused: between two passes, with nothing queued, a path whose
\* recorded time is the one on disk is backed up as it is, and a path that is
\* neither recorded nor on disk is not in the backup.
SeenIsSent ==
  watcher.pc \in {"sleep", "done"} /\ actions = <<>> /\ ~failed =>
    \A p \in Path : paths_[p] = TimeAt(p) => Settled(p)

\* FileWatcher.cpp:67-69: nothing is seen or queued from pause to restart, so that
\* a restore into the watched folder is not read half done: pause() waits for the
\* end of a scan, and no other begins.  This is less than the comment says: the
\* initial comparison goes on when it is paused.
Overlooks == paths_' = paths_ /\ Len(actions') <= Len(actions)
RestoreExcludesScan == [][pause_execution /\ watcher.pc \notin InitPc => Overlooks]_vars

\* When the folder is left alone, the backup becomes equal to it and stays so,
\* unless the user quits or a thread has failed; but a file that was replaced by
\* a folder of the same name between two passes stays a file (Action.h:28-30),
\* and what was refused stays as it was: README.md:42-43 does not except it, but
\* nothing sends it again.
BackupConverges == <>[](failed \/ ~running_ \/ \A p \in Path : Settled(p))
=============================================================================
