---- MODULE MemoryStoreInv ----
(***************************************************************************)
(* The inductive invariant of MemoryStore: the properties to be proved,    *)
(* and what has to be known besides for every step to keep them.           *)
(***************************************************************************)
EXTENDS MemoryStore

\* Calls that wait, pack or write own mutex_.
LocksHeld ==
    \A t \in Threads :
        /\ pc[t].at \in {"parent", "pack", "write", "wait", "timed_wait"} => mutex = t
        /\ pc[t].then = "write" => pc[t].at = "pack"

\* An active snapshot is a leaf, counted exactly, and open at most once.
ActiveAlone ==
    \A n \in LiveNodes : status[n] = "ACTIVE" =>
        /\ children[n] = {}
        /\ references[n] = handles[n] /\ handles[n] \in {0, 1}
        /\ \A t \in Threads : pc[t].self = n => handles[n] = 1

\* The node a call in progress holds is where the call expects it.
Holding == {"drop", "drop1", "forget", "drop2", "master", "parent"}
PlaceOf(t) ==
    /\ pc[t].at \in Holding => pc[t].node \in Snapshots
    /\ pc[t].at = "drop" => pc[t].self = pc[t].node
    /\ pc[t].at \in {"drop1", "forget"} =>
           \/ mem[pc[t].node] = "freed"
           \/ /\ Live(pc[t].node) /\ status[pc[t].node] = "ACTIVE"
              /\ handles[pc[t].node] = 0
    /\ pc[t].at = "drop2" => \/ mem[pc[t].node] = "freed"
                             \/ Live(pc[t].node) /\ status[pc[t].node] = "DROPPED"
    /\ pc[t].at = "parent" => Live(pc[t].node) /\ status[pc[t].node] # "ACTIVE"
PlaceKnown == \A t \in Threads : PlaceOf(t)

\* What pack() has still to visit is alive, and somebody is packing.
TodoLive == /\ todo \subseteq LiveNodes
            /\ todo # {} => \E t \in Threads : pc[t].at = "pack"

\* The root snapshot is never dropped, and what was dropped stays so.
RootKept == status[Root] = "COMMITTED"
DropsKept ==
    \A n \in locked_drops : \/ mem[n] = "freed"
                            \/ Live(n) /\ status[n] = "DROPPED"

\* Once the latch was seen at zero, it stays there while the image is written.
LatchStays == Storing => active_snapshots = 0

\* The file: nothing, a torn image, or a complete one.
FileOK ==
    \/ file.kind \in {"none", "partial"}
    \/ /\ file.kind = "image"
       /\ file.nodes \subseteq Snapshots
       /\ file.status \in [file.nodes -> Statuses \ {"DATA_LOCKED"}]
       /\ file.parent \in [file.nodes -> Snapshots \cup {NoNode}]
       /\ file.children \in [file.nodes -> SUBSET Snapshots]
       /\ file.root \subseteq file.nodes
       /\ file.named \in [Names -> Snapshots \cup {NoNode}]
       /\ file.master \in Snapshots
       /\ file.status[Root] = "COMMITTED"
       /\ \A n \in file.nodes : file.status[n] = "ACTIVE" => file.children[n] = {}

IInv ==
    /\ TypeOK /\ HistoryIsTree /\ RootKept
    /\ LocksHeld /\ ActiveAlone /\ PlaceKnown /\ TodoLive /\ DropsKept
    /\ HeadsCommitted /\ CommittedHasData
    /\ LatchCountsWriters /\ LatchStays
    /\ FileOK /\ ImageIsComplete

-----------------------------------------------------------------------------
\* What more holds when calls that race with destructors have one client only.

OneClient == \A t, u \in Threads : t = u

\* parent() counts a handle without the mutex of the snapshot it opens; master()
\* can open a locked snapshot that was dropped, while its data is being deleted.
ParentAlone == "parent" \in Calls => OneClient
MasterAlone == {"master", "lock_data"} \subseteq Calls => OneClient

\* A count that parent() has read is still the count when it is written back.
SeenIsNow ==
    \A t \in Threads : pc[t].at = "parent" =>
        OneClient /\ pc[t].seen = references[pc[t].node]

\* The snapshot whose data a destructor is about to delete is not open.
ClosedForGood == \A t \in Threads : pc[t].at = "drop2" => handles[pc[t].node] = 0

\* Nothing is locked unless lock_data_for_import() is called, and nobody is inside
\* master() unless it is called.
OnlyCalled ==
    /\ "lock_data" \notin Calls =>
           locked_drops = {} /\ \A n \in Snapshots : status[n] # "DATA_LOCKED"
    /\ \A t \in Threads : pc[t].at = "master" => "master" \in Calls

\* pack() works from the leaves up, and what it has left behind could not go.
PackInv ==
    \A t \in Threads : (pc[t].at = "pack" /\ locked_drops = {}) =>
        /\ \A n \in todo \ {Root} : parent[n] \in todo
        /\ \A n \in LiveNodes \ todo :
            Removable(n) => \E c, d \in children[n] : c # d

\* Neither a store() that waits for ever nor a call that keeps its locks is made.
CallsEnd == {"store", "linear_history"} \cap Calls = {}

\* A lock that is taken belongs to a call that needs no other one.
LocksInUse ==
    /\ leaks = {}
    /\ \A t \in Threads : pc[t].at # "wait"
    /\ mutex # NoThread => pc[mutex].at \in {"parent", "pack", "write", "timed_wait"}
    /\ store_mutex # NoThread =>
           /\ mutex = store_mutex
           /\ pc[mutex].at \in {"write", "timed_wait"} \/ pc[mutex].then = "write"

-----------------------------------------------------------------------------
\* The types of a node's fields.
NodesTyped ==
    /\ mem \in [Snapshots -> {"unused", "live", "freed"}]
    /\ status \in [Snapshots -> Statuses]
    /\ parent \in [Snapshots -> Snapshots \cup {NoNode}]
    /\ children \in [Snapshots -> SUBSET Snapshots]
    /\ root \subseteq Snapshots
====
