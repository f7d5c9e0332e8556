---- MODULE VersionedMap ----
(***************************************************************************)
(* What the persistent tree promises: every snapshot has its own map from  *)
(* keys to blocks.  A branch starts with the map of its parent, and after  *)
(* that no change of one snapshot is seen by another.                      *)
(***************************************************************************)
EXTENDS Integers
CONSTANTS Snapshots, First, Keys, Blocks
VARIABLES status, content

Absent == 0
Empty == [k \in Keys |-> Absent]
\* No snapshot has block b.
Unused(b) == \A s \in Snapshots, k \in Keys : content[s][k] # b

Init ==
    /\ status = [s \in Snapshots |-> IF s = First THEN "active" ELSE "none"]
    /\ content \in [Snapshots -> [Keys -> Blocks \cup {Absent}]]
    /\ \A s \in Snapshots \ {First} : content[s] = Empty

Branch(s, t) ==
    /\ status[s] = "committed" /\ status[t] = "none"
    /\ status' = [status EXCEPT ![t] = "active"]
    /\ content' = [content EXCEPT ![t] = content[s]]

\* A new block, which no snapshot has.
Assign(s, k) ==
    /\ status[s] = "active" /\ UNCHANGED status
    /\ \E b \in {content'[s][k]} \ {content[s][k]} :
        /\ b \in Blocks /\ Unused(b)
        /\ content' = [content EXCEPT ![s][k] = b]

Import(s, t, k) ==
    /\ status[s] = "active" /\ status[t] = "committed" /\ UNCHANGED status
    /\ content[t][k] \notin {Absent, content[s][k]}
    /\ content'[s][k] = content[t][k]
    /\ content' = [content EXCEPT ![s][k] = content[t][k]]

Remove(s, k) ==
    /\ status[s] = "active" /\ UNCHANGED status
    /\ content[s][k] # Absent /\ content'[s][k] = Absent
    /\ content' = [content EXCEPT ![s][k] = Absent]

Commit(s) ==
    /\ status[s] = "active"
    /\ status' = [status EXCEPT ![s] = "committed"]
    /\ UNCHANGED content

Drop(s) ==
    /\ status[s] # "none"
    /\ status' = [status EXCEPT ![s] = "none"]
    /\ content' = [content EXCEPT ![s] = Empty]

Next ==
    \E s \in Snapshots :
        \/ \E t \in Snapshots : Branch(s, t)
        \/ \E k \in Keys : Assign(s, k)
        \/ \E k \in Keys : Remove(s, k)
        \/ \E t \in Snapshots, k \in Keys : Import(s, t, k)
        \/ Commit(s) \/ Drop(s)

Spec == Init /\ [][Next]_<<status, content>>

====
