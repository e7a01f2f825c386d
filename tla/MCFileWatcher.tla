--------------------------- MODULE MCFileWatcher ----------------------------
(* A path that can be a file, with two contents, or a folder, and a folder. *)
EXTENDS FileWatcher

CONSTANTS f, d
MCContent == [p \in Path |-> IF p = f THEN Hash \cup {"dir"} ELSE {"dir"}]
=============================================================================
