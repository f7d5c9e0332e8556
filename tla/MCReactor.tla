---- MODULE MCReactor ----
(* Small instances of Reactor. *)
EXTENDS Reactor

Calls(fiber, one_way, pool, special) ==
    [fiber |-> fiber, one_way |-> one_way, pool |-> pool, special |-> special]

\* Three workers can be asked of the first reactor's pool of two; the reactors
\* call each other, and both use their pools.
MixedCalls == [r \in Reactors |-> IF r = 0 THEN Calls(1, 0, 1, 2) ELSE Calls(1, 1, 1, 0)]

\* One fiber on the second reactor uses its pool.
ExitCalls == [r \in Reactors |-> IF r = 0 THEN Calls(0, 1, 0, 0) ELSE Calls(0, 0, 1, 0)]

====
