--------------------------- MODULE ResponseBuffer ---------------------------
(***************************************************************************)
(* Client/ResponseBuffer.cpp: the actions sent and not yet completed, by   *)
(* index.  The action consumer adds, the response consumer updates and     *)
(* removes, and the input watcher lists them before it quits.  Every       *)
(* operation runs under the mutex and is one step.                         *)
(***************************************************************************)
EXTENDS Integers

CONSTANT Action

VARIABLES
  responseMap,   \* std::map<int, Action>, here the action and its status
  current_index

ActionStatus == {"sent", "received", "error"}

Put(index, a, st) ==
  [i \in DOMAIN responseMap \cup {index} |->
     IF i = index THEN [action |-> a, st |-> st] ELSE responseMap[i]]

Init ==
  /\ responseMap = [i \in {} |-> 0]
  /\ current_index = 0

\* Mutant: the index is not advanced.
AddSameIndex(a) ==
  /\ responseMap' = Put(current_index, a, "sent")
  /\ UNCHANGED current_index

add(a) ==
  /\ responseMap' = Put(current_index, a, "sent")
  /\ current_index' = current_index + 1

\* responseMap[index].st = st.  The operator [] of std::map inserts an Action
\* for an index that is not there, and Action() leaves its fields unset.
SetStatus(index, st) ==
  /\ \/ /\ index \in DOMAIN responseMap
        /\ responseMap' = Put(index, responseMap[index].action, st)
     \/ /\ index \notin DOMAIN responseMap
        /\ \E a \in Action : responseMap' = Put(index, a, st)
  /\ UNCHANGED current_index

receive(index) == SetStatus(index, "received")
signal_error(index) == SetStatus(index, "error")

completed(index) ==
  /\ responseMap' = [i \in DOMAIN responseMap \ {index} |-> responseMap[i]]
  /\ UNCHANGED current_index

\* get_action: the optional is empty when the index is not there.
IsRestore(index) ==
  index \in DOMAIN responseMap /\ responseMap[index].action.type = "restore"

TypeOK ==
  /\ current_index \in Nat
  /\ DOMAIN responseMap \subseteq Nat
  /\ \A i \in DOMAIN responseMap :
       responseMap[i] \in [action : Action, st : ActionStatus]
=============================================================================
