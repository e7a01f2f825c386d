------------------------------ MODULE MCServer ------------------------------
(* Two clients of one user and one of another, on the two io threads of     *)
(* Server/main.cpp: the three are served if one of them was the first to    *)
(* come and is still there, and otherwise one has to wait.                  *)
EXTENDS Server, TLC

CONSTANTS a1, a2, b, alice, bob

MCUserOf == (a1 :> alice) @@ (a2 :> alice) @@ (b :> bob)
=============================================================================
