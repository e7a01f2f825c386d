-------------------------- MODULE MCClientThreads ---------------------------
(* Three attempts; in the life of a Client three changes of the folder and  *)
(* one restore on a buffer of two: it can be full for either of its         *)
(* producers.  client_threads_full has two attempts, a buffer of one and no *)
(* restore.                                                                 *)
EXTENDS ClientThreads
=============================================================================
