--------------------------- MODULE MCActionBuffer ---------------------------
(* The three threads of the client that share the buffer, on a ring of four *)
(* slots: it fills, drains and wraps around.                               *)
EXTENDS ActionBuffer
=============================================================================
