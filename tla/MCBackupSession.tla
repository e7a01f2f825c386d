--------------------------- MODULE MCBackupSession --------------------------
(* One file and one content that earlier sessions backed up, and a second   *)
(* content for what this session sends.                                     *)
EXTENDS BackupSession

CONSTANTS p, q, h1
MCBefore == {[filename |-> p, hash |-> h1]}
MCLeftover == {[filename |-> q, hash |-> h1]}
=============================================================================
