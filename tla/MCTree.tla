---- MODULE MCTree ----
(***************************************************************************)
(* Instances of PersistentTree for TLC.                                    *)
(***************************************************************************)
EXTENDS PersistentTree

\* Four keys and nodes of two entries: trees of one to three levels.
Keys4 == 1..4

\* Eleven keys in ascending order fill three levels of nodes of four entries.
Keys11 == 1..11

====
