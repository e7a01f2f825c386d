----------------------------- MODULE MCDatabase -----------------------------
(* Two sessions of one user, two paths and two days: keys that exist and    *)
(* keys that do not, both sessions on one key, a date taken before midnight *)
(* and written after it.                                                    *)
EXTENDS Database, TLC

Symmetry == Permutations(Session) \cup Permutations(Path)
=============================================================================
