---- MODULE MCQueue ----
(* A small instance of MPSCQueue. *)
EXTENDS MPSCQueue
CONSTANTS p1, p2, p3

====
