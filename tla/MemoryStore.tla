---- MODULE MemoryStore ----
(***************************************************************************)
(* The history tree of the in-memory store (threads variant): snapshots    *)
(* are branched, committed, dropped, opened and closed by several client   *)
(* threads, packed away, stored to a file and loaded back.                 *)
(*                                                                         *)
(* A history node is identified by its snapshot id.  A pointer is the id   *)
(* of the node it points to; it dangles when mem says that node is freed.  *)
(* Calls that run under the store mutex are one step.  Calls that wait, or *)
(* that release a lock half-way, are split where the code lets go.         *)
(*                                                                         *)
(* A behaviour that the language leaves undefined (a freed node used, a    *)
(* null tree root followed, a mutex unlocked by a thread that does not own *)
(* it) sets fault, and nothing is claimed of what follows.                 *)
(***************************************************************************)
EXTENDS Integers, FiniteSets

CONSTANTS
    Snapshots,   \* snapshot ids that can ever be drawn
    Root,        \* the id of the store's first snapshot (history_tree_)
    Names,       \* branch names
    Threads,     \* client threads
    Calls,       \* the API calls the clients make
    MaxHandles,  \* bound on open handles to one snapshot
    MaxDrift,    \* bound on lost updates of one count, before the last one
    NoNode,      \* null pointer
    NoThread     \* no owner

ASSUME RootAssumption == Root \in Snapshots
ASSUME NoNodeAssumption == NoNode \notin Snapshots
ASSUME NoThreadAssumption == NoThread \notin Threads
ASSUME FiniteAssumption == IsFiniteSet(Snapshots) /\ IsFiniteSet(Threads)
ASSUME BoundsAssumption == MaxHandles \in Nat /\ MaxDrift \in Nat

VARIABLES
    mem,              \* "unused", "live" or "freed": the node's memory
    status,           \* SnapshotStatus
    parent, children, \* parent_, children_
    root,             \* nodes whose root_ is not null: they have their data
    references,       \* references_
    handles,          \* open Snapshot objects on the node (the true count)
    snapshot_map,     \* ids in snapshot_map_
    named_branches,   \* named_branches_, NoNode for an absent name
    master,           \* master_
    active_snapshots, \* the value of the latch active_snapshots_
    mutex,            \* owner of mutex_
    store_mutex,      \* owner of store_mutex_
    leaks,            \* threads that returned without unlocking
    pc,               \* where each thread is in a call
    todo,             \* nodes do_pack has still to visit
    todo_names,       \* names do_pack has still to visit
    file,             \* the stored image
    fault,            \* first undefined behaviour met
    locked_drops      \* ghost: nodes dropped while DATA_LOCKED

node_vars == <<mem, status, parent, children, root>>
count_vars == <<references, handles>>
head_vars == <<snapshot_map, named_branches, master>>
lock_vars == <<mutex, store_mutex, leaks>>
pack_vars == <<todo, todo_names>>
rest_vars == <<file, fault, locked_drops>>
vars == <<node_vars, count_vars, head_vars, active_snapshots, lock_vars, pc,
          pack_vars, rest_vars>>

Statuses == {"ACTIVE", "COMMITTED", "DROPPED", "DATA_LOCKED"}
Places == {"idle", "drop", "drop1", "forget", "drop2", "master", "parent",
           "wait", "timed_wait", "pack", "write"}
Faults == {"none", "use_after_free", "null_root", "unlock_unowned"}

At(where, node, self, seen, then) ==
    [at |-> where, node |-> node, self |-> self, seen |-> seen, then |-> then]
IdleAt == At("idle", NoNode, NoNode, 0, "idle")

Live(n) == mem[n] = "live"
LiveNodes == {n \in Snapshots : Live(n)}
Idle(t) == pc[t].at = "idle"
Running == fault = "none"

\* A thread may take mutex_ (recursive) when it is free or already its own.
CanLock(t) == mutex \in {NoThread, t}
\* Snapshot mutexes outlast a step only inside parent().
CanLockSnapshot(t, n) ==
    \A u \in Threads \ {t} : ~(pc[u].at = "parent" /\ pc[u].self = n)
\* What a lock guard leaves behind: a leaked lock stays with its thread.
Unlocked(t) == IF t \in leaks THEN t ELSE NoThread

\* Handles of n that no call in progress is using.
FreeHandles(n) == handles[n] - Cardinality({t \in Threads : pc[t].self = n})

Goto(t, where) == pc' = [pc EXCEPT ![t] = where]
Fail(what) == /\ fault' = what
              /\ UNCHANGED <<node_vars, count_vars, head_vars, active_snapshots,
                             lock_vars, pc, pack_vars, file, locked_drops>>

\* delete of a node that has been taken out of the tree.  What its memory holds
\* from then on means nothing, so it is blanked.
Delete(n) ==
    /\ mem' = [mem EXCEPT ![n] = "freed"]
    /\ status' = [status EXCEPT ![n] = "ACTIVE"]
    /\ root' = root \ {n}

\* Faulty variants of a definition stand before it; no specification uses them.
\* Faulty: the only child keeps its pointer to the deleted node.
splice_keeps_parent(n) ==
    IF \E c, d \in children[n] : c # d
    THEN UNCHANGED node_vars
    ELSE /\ Delete(n)
         /\ children' = [children EXCEPT
                            ![parent[n]] = (@ \ {n}) \cup children[n], ![n] = {}]
         /\ parent' = [parent EXCEPT ![n] = NoNode]

\* Faulty: only a leaf is removed.
remove_only_leaf(n) ==
    IF children[n] # {}
    THEN UNCHANGED node_vars
    ELSE /\ Delete(n)
         /\ children' = [children EXCEPT ![parent[n]] = @ \ {n}]
         /\ parent' = [parent EXCEPT ![n] = NoNode]

\* do_remove_history_node: a node with two or more children stays; an only
\* child takes its place under the parent.  Neither snapshot_map_ nor master_
\* nor named_branches_ is told.
do_remove_history_node(n) ==
    IF \E c, d \in children[n] : c # d
    THEN UNCHANGED node_vars
    ELSE /\ Delete(n)
         /\ children' = [children EXCEPT
                            ![parent[n]] = (@ \ {n}) \cup children[n], ![n] = {}]
         /\ parent' = [c \in Snapshots |-> IF c \in children[n] THEN parent[n]
                                           ELSE IF c = n THEN NoNode
                                           ELSE parent[c]]

\* The nodes the loop of adjust_named_references looks at: the parent of n,
\* and the parent of every node looked at that is not committed.
WalkedFrom(n) ==
    {p \in Snapshots : \A S \in SUBSET Snapshots :
        ( /\ parent[n] \in S
          /\ \A x \in S : (status[x] # "COMMITTED" /\ parent[x] # NoNode)
                             => parent[x] \in S )
        => p \in S}

\* Faulty: the loop climbs one node too far.
adjust_past_parent(n) ==
    LET p == parent[parent[n]]
    IN  /\ named_branches' = [b \in Names |->
               IF named_branches[b] = n THEN p ELSE named_branches[b]]
        /\ master' = IF master = n THEN p ELSE master

\* Faulty: the heads stay.
adjust_nothing(n) == UNCHANGED <<named_branches, master>>

\* adjust_named_references: heads on n move to its nearest committed ancestor.
adjust_named_references(n) ==
    LET targets == {p \in WalkedFrom(n) : status[p] = "COMMITTED"}
    IN  IF targets = {}
        THEN UNCHANGED <<named_branches, master>>
        ELSE \E p \in targets :
                /\ named_branches' = [b \in Names |->
                       IF named_branches[b] = n THEN p ELSE named_branches[b]]
                /\ master' = IF master = n THEN p ELSE master

-----------------------------------------------------------------------------
\* The store's constructor: one snapshot, opened, committed and closed.
Init ==
    /\ mem = [n \in Snapshots |-> IF n = Root THEN "live" ELSE "unused"]
    /\ status = [n \in Snapshots |-> IF n = Root THEN "COMMITTED" ELSE "ACTIVE"]
    /\ parent = [n \in Snapshots |-> NoNode]
    /\ children = [n \in Snapshots |-> {}]
    /\ root = {Root}
    /\ references = [n \in Snapshots |-> 0]
    /\ handles = [n \in Snapshots |-> 0]
    /\ snapshot_map = {Root}
    /\ named_branches = [b \in Names |-> NoNode]
    /\ master = Root
    /\ active_snapshots = 0
    /\ mutex = NoThread /\ store_mutex = NoThread /\ leaks = {}
    /\ pc = [t \in Threads |-> IdleAt]
    /\ todo = {} /\ todo_names = {}
    /\ file = [kind |-> "none"]
    /\ fault = "none"
    /\ locked_drops = {}

-----------------------------------------------------------------------------
\* Calls on a snapshot handle.

\* branch(): a new ACTIVE child of a committed snapshot, registered and opened.
branch(t, n) ==
    /\ "branch" \in Calls /\ Idle(t) /\ CanLock(t)
    /\ handles[n] > 0 /\ Live(n) /\ status[n] = "COMMITTED"
    /\ \E c \in Snapshots :
        /\ mem[c] = "unused"
        /\ mem' = [mem EXCEPT ![c] = "live"]
        /\ status' = [status EXCEPT ![c] = "ACTIVE"]
        /\ parent' = [parent EXCEPT ![c] = n]
        /\ children' = [children EXCEPT ![n] = @ \cup {c}, ![c] = {}]
        /\ root' = IF n \in root THEN root \cup {c} ELSE root
        /\ references' = [references EXCEPT ![c] = 1]
        /\ handles' = [handles EXCEPT ![c] = 1]
        /\ snapshot_map' = snapshot_map \cup {c}
    /\ active_snapshots' = active_snapshots + 1
    /\ UNCHANGED <<named_branches, master, lock_vars, pc, pack_vars, rest_vars>>

\* Faulty: the latch is not counted down.
commit_uncounted(t, n) ==
    /\ "commit" \in Calls /\ Idle(t) /\ CanLockSnapshot(t, n)
    /\ handles[n] > 0 /\ Live(n) /\ status[n] \in {"ACTIVE", "DATA_LOCKED"}
    /\ status' = [status EXCEPT ![n] = "COMMITTED"]
    /\ UNCHANGED <<mem, parent, children, root, count_vars, head_vars,
                   active_snapshots, lock_vars, pc, pack_vars, rest_vars>>

\* commit(), under the snapshot mutex only.
commit(t, n) ==
    /\ "commit" \in Calls /\ Idle(t) /\ CanLockSnapshot(t, n)
    /\ handles[n] > 0 /\ Live(n) /\ status[n] \in {"ACTIVE", "DATA_LOCKED"}
    /\ status' = [status EXCEPT ![n] = "COMMITTED"]
    /\ active_snapshots' = active_snapshots - 1
    /\ UNCHANGED <<mem, parent, children, root, count_vars, head_vars, lock_vars,
                   pc, pack_vars, rest_vars>>

\* lock_data_for_import(), of a snapshot that has no open containers.
lock_data_for_import(t, n) ==
    /\ "lock_data" \in Calls /\ Idle(t) /\ CanLock(t)
    /\ handles[n] > 0 /\ Live(n) /\ status[n] = "ACTIVE"
    /\ status' = [status EXCEPT ![n] = "DATA_LOCKED"]
    /\ UNCHANGED <<mem, parent, children, root, count_vars, head_vars,
                   active_snapshots, lock_vars, pc, pack_vars, rest_vars>>

\* drop(): the call, which then waits for mutex_ ...
drop_call(t, n) ==
    /\ "drop" \in Calls /\ Idle(t) /\ handles[n] > 0 /\ Live(n)
    /\ Goto(t, At("drop", n, n, 0, "idle"))
    /\ UNCHANGED <<node_vars, count_vars, head_vars, active_snapshots, lock_vars,
                   pack_vars, rest_vars>>

\* ... and its body.  The root snapshot is refused.
drop(t) ==
    LET n == pc[t].node
    IN  /\ pc[t].at = "drop" /\ CanLock(t) /\ Live(n)
        /\ Goto(t, IdleAt)
        /\ IF parent[n] = NoNode
           THEN UNCHANGED <<node_vars, head_vars, active_snapshots, locked_drops>>
           ELSE /\ active_snapshots' = active_snapshots -
                       (IF status[n] = "ACTIVE" THEN 1 ELSE 0)
                /\ IF status[n] = "COMMITTED"
                   THEN adjust_named_references(n)
                   ELSE UNCHANGED <<named_branches, master>>
                /\ status' = [status EXCEPT ![n] = "DROPPED"]
                /\ locked_drops' = IF status[n] = "DATA_LOCKED"
                                   THEN locked_drops \cup {n} ELSE locked_drops
                /\ UNCHANGED <<mem, parent, children, root, snapshot_map>>
        /\ UNCHANGED <<count_vars, lock_vars, pack_vars, file, fault>>

\* Faulty: a handle of a dropped snapshot deletes its data, last or not.
close_clears_open(t, n) ==
    LET dying == references[n] = 1 /\ status[n] = "ACTIVE"
    IN  /\ "close" \in Calls /\ Idle(t) /\ CanLockSnapshot(t, n)
        /\ FreeHandles(n) > 0 /\ Live(n)
        /\ handles' = [handles EXCEPT ![n] = @ - 1]
        /\ references' = [references EXCEPT ![n] = @ - 1]
        /\ active_snapshots' = active_snapshots - (IF dying THEN 1 ELSE 0)
        /\ Goto(t, IF dying THEN At("drop1", n, NoNode, 0, "idle")
                   ELSE IF status[n] = "DROPPED"
                   THEN At("drop2", n, NoNode, 0, "idle")
                   ELSE IdleAt)
        /\ UNCHANGED <<node_vars, head_vars, lock_vars, pack_vars, rest_vars>>

\* Faulty: the last handle deletes the data of any snapshot that is not active.
close_clears_committed(t, n) ==
    LET last == references[n] = 1
    IN  /\ "close" \in Calls /\ Idle(t) /\ CanLockSnapshot(t, n)
        /\ FreeHandles(n) > 0 /\ Live(n)
        /\ handles' = [handles EXCEPT ![n] = @ - 1]
        /\ references' = [references EXCEPT ![n] = @ - 1]
        /\ active_snapshots' = active_snapshots -
               (IF last /\ status[n] = "ACTIVE" THEN 1 ELSE 0)
        /\ Goto(t, IF last
                   THEN At(IF status[n] = "ACTIVE" THEN "drop1" ELSE "drop2",
                           n, NoNode, 0, "idle")
                   ELSE IdleAt)
        /\ UNCHANGED <<node_vars, head_vars, lock_vars, pack_vars, rest_vars>>

\* The destructor of a handle, first part, under the snapshot mutex.
close(t, n) ==
    LET last == references[n] = 1
    IN  /\ "close" \in Calls /\ Idle(t) /\ CanLockSnapshot(t, n)
        /\ FreeHandles(n) > 0 /\ Live(n)
        /\ handles' = [handles EXCEPT ![n] = @ - 1]
        /\ references' = [references EXCEPT ![n] = @ - 1]
        /\ active_snapshots' = active_snapshots -
               (IF last /\ status[n] = "ACTIVE" THEN 1 ELSE 0)
        /\ Goto(t, IF last /\ status[n] = "ACTIVE"
                   THEN At("drop1", n, NoNode, 0, "idle")
                   ELSE IF last /\ status[n] = "DROPPED"
                   THEN At("drop2", n, NoNode, 0, "idle")
                   ELSE IdleAt)
        /\ UNCHANGED <<node_vars, head_vars, lock_vars, pack_vars, rest_vars>>

\* do_drop() of a snapshot that was never committed, with no lock held.
close_drop1(t) ==
    LET n == pc[t].node
    IN  /\ pc[t].at = "drop1" /\ Live(n)
        /\ root' = root \ {n}
        /\ Goto(t, At("forget", n, NoNode, 0, "idle"))
        /\ UNCHANGED <<mem, status, parent, children, count_vars, head_vars,
                       active_snapshots, lock_vars, pack_vars, rest_vars>>

\* forget_snapshot(), under mutex_.
forget_snapshot(t) ==
    LET n == pc[t].node
    IN  /\ pc[t].at = "forget" /\ CanLock(t) /\ Live(n)
        /\ snapshot_map' = snapshot_map \ {n}
        /\ children' = [children EXCEPT ![parent[n]] = @ \ {n}]
        /\ parent' = [parent EXCEPT ![n] = NoNode]
        /\ Delete(n)
        /\ Goto(t, IdleAt)
        /\ UNCHANGED <<count_vars, named_branches, master,
                       active_snapshots, lock_vars, pack_vars, rest_vars>>

\* do_drop() of a dropped snapshot, under store_mutex_ only.
close_drop2(t) ==
    LET n == pc[t].node
    IN  /\ pc[t].at = "drop2" /\ store_mutex = NoThread /\ Live(n)
        /\ IF n \in root
           THEN /\ root' = root \ {n}
                /\ Goto(t, IdleAt)
                /\ UNCHANGED <<mem, status, parent, children, count_vars, head_vars,
                               active_snapshots, lock_vars, pack_vars, rest_vars>>
           ELSE Fail("null_root")

-----------------------------------------------------------------------------
\* Faulty: the constructor of a handle does not count itself.
open_uncounted(t, n, counts) ==
    IF n \in root
    THEN /\ handles' = [handles EXCEPT ![n] = @ + 1]
         /\ UNCHANGED <<references, fault>>
    ELSE UNCHANGED <<count_vars, fault>>

\* Opening snapshots.  The constructor of a handle counts itself; post_init
\* cannot build the root map of a snapshot without data, and the destructor of
\* the failed handle then drops the data a second time if it was the only one.

Open(t, n, counts) ==
    IF n \in root
    THEN /\ handles' = [handles EXCEPT ![n] = @ + 1]
         /\ \E r \in counts : references' = [references EXCEPT ![n] = r]
         /\ UNCHANGED fault
    ELSE /\ fault' = IF references[n] = 0 /\ status[n] = "DROPPED"
                     THEN "null_root" ELSE fault
         /\ UNCHANGED count_vars

\* The bound on handles, the ones being opened included.
CanOpen(n) ==
    handles[n] + Cardinality({t \in Threads : /\ pc[t].at \in {"master", "parent"}
                                              /\ pc[t].node = n}) < MaxHandles

\* find(): only a committed snapshot is opened.
find(t, n) ==
    /\ "find" \in Calls /\ Idle(t) /\ CanLock(t)
    /\ n \in snapshot_map /\ Live(n) /\ status[n] = "COMMITTED"
    /\ CanOpen(n)
    /\ Open(t, n, {references[n] + 1})
    /\ UNCHANGED <<node_vars, head_vars, active_snapshots, lock_vars, pc, pack_vars,
                   file, locked_drops>>

\* find_branch(): also a locked snapshot that nobody has open.
find_branch(t, b) ==
    LET n == named_branches[b]
    IN  /\ "find_branch" \in Calls /\ Idle(t) /\ CanLock(t)
        /\ n # NoNode /\ Live(n)
        /\ \/ status[n] = "COMMITTED"
           \/ status[n] = "DATA_LOCKED" /\ references[n] = 0
        /\ CanOpen(n)
        /\ Open(t, n, {references[n] + 1})
        /\ UNCHANGED <<node_vars, head_vars, active_snapshots, lock_vars, pc,
                       pack_vars, file, locked_drops>>

\* master(): master_ is read to name the second mutex, before any is locked ...
master_read(t) ==
    /\ "master" \in Calls /\ Idle(t) /\ CanOpen(master)
    /\ Goto(t, At("master", master, NoNode, 0, "idle"))
    /\ UNCHANGED <<node_vars, count_vars, head_vars, active_snapshots, lock_vars,
                   pack_vars, rest_vars>>

\* ... and read again under mutex_; the guard then unlocks that node's mutex.
master_open(t) ==
    LET n == pc[t].node
    IN  /\ pc[t].at = "master" /\ CanLock(t) /\ Live(n)
        /\ IF master # n
           THEN Fail("unlock_unowned")
           ELSE /\ Open(t, n, {references[n] + 1})
                /\ Goto(t, IdleAt)
                /\ UNCHANGED <<node_vars, head_vars, active_snapshots, lock_vars,
                               pack_vars, file, locked_drops>>

\* parent(): mutex_ and the child's mutex are held, the parent's is not, so its
\* count is read ...
parent_read(t, s) ==
    /\ "parent" \in Calls /\ Idle(t) /\ CanLock(t)
    /\ handles[s] > 0 /\ Live(s) /\ parent[s] # NoNode
    /\ CanOpen(parent[s])
    /\ references[parent[s]] - handles[parent[s]] \in -MaxDrift..MaxDrift
    /\ mutex' = t
    /\ Goto(t, At("parent", parent[s], s, references[parent[s]], "idle"))
    /\ UNCHANGED <<node_vars, count_vars, head_vars, active_snapshots, store_mutex,
                   leaks, pack_vars, rest_vars>>

\* ... and written while a destructor may have changed it: either update can be
\* lost.
parent_open(t) ==
    LET p == pc[t].node
        now == references[p]
    IN  /\ pc[t].at = "parent"
        /\ Open(t, p, IF now = pc[t].seen THEN {now + 1}
                                          ELSE {now + 1, pc[t].seen + 1, now})
        /\ mutex' = Unlocked(t)
        /\ Goto(t, IdleAt)
        /\ UNCHANGED <<node_vars, head_vars, active_snapshots, store_mutex, leaks,
                       pack_vars, file, locked_drops>>

-----------------------------------------------------------------------------
\* Heads: the master and the named branches.

set_master(t, n) ==
    /\ "set_master" \in Calls /\ Idle(t) /\ CanLock(t)
    /\ n \in snapshot_map /\ Live(n) /\ status[n] \in {"COMMITTED", "DATA_LOCKED"}
    /\ master' = n
    /\ UNCHANGED <<node_vars, count_vars, snapshot_map, named_branches,
                   active_snapshots, lock_vars, pc, pack_vars, rest_vars>>

set_branch(t, b, n) ==
    /\ "set_branch" \in Calls /\ Idle(t) /\ CanLock(t)
    /\ n \in snapshot_map /\ Live(n) /\ status[n] \in {"COMMITTED", "DATA_LOCKED"}
    /\ named_branches' = [named_branches EXCEPT ![b] = n]
    /\ UNCHANGED <<node_vars, count_vars, snapshot_map, master, active_snapshots,
                   lock_vars, pc, pack_vars, rest_vars>>

remove_named_branch(t, b) ==
    /\ "remove_branch" \in Calls /\ Idle(t) /\ CanLock(t)
    /\ named_branches' = [named_branches EXCEPT ![b] = NoNode]
    /\ UNCHANGED <<node_vars, count_vars, snapshot_map, master, active_snapshots,
                   lock_vars, pc, pack_vars, rest_vars>>

-----------------------------------------------------------------------------
\* pack(): mutex_ is held while every node is visited, children first, and
\* then every named branch.

StartPack(t, then) ==
    /\ todo' = LiveNodes
    /\ todo_names' = {b \in Names : named_branches[b] # NoNode}
    /\ Goto(t, At("pack", NoNode, NoNode, 0, then))

pack(t) ==
    /\ "pack" \in Calls /\ Idle(t) /\ CanLock(t)
    /\ mutex' = t
    /\ StartPack(t, "idle")
    /\ UNCHANGED <<node_vars, count_vars, head_vars, active_snapshots, store_mutex,
                   leaks, rest_vars>>

\* Faulty: pack does not ask whether the node has its data.
unopened(n) == references[n] = 0 /\ parent[n] # NoNode

\* do_pack(node): a node without data and without handles goes, unless a branch
\* is named after it.
Removable(n) == n \notin root /\ references[n] = 0
do_pack(t, n) ==
    /\ pc[t].at = "pack" /\ n \in todo /\ children[n] \cap todo = {}
    /\ todo' = todo \ {n}
    /\ IF Removable(n) /\ \A b \in Names : named_branches[b] # n
       THEN do_remove_history_node(n)
       ELSE UNCHANGED node_vars
    /\ UNCHANGED <<count_vars, head_vars, active_snapshots, lock_vars, pc,
                   todo_names, rest_vars>>

do_pack_name(t, b) ==
    /\ pc[t].at = "pack" /\ todo = {} /\ b \in todo_names
    /\ named_branches[b] \in LiveNodes
    /\ todo_names' = todo_names \ {b}
    /\ IF Removable(named_branches[b])
       THEN do_remove_history_node(named_branches[b])
       ELSE UNCHANGED node_vars
    /\ UNCHANGED <<count_vars, head_vars, active_snapshots, lock_vars, pc, todo,
                   rest_vars>>

pack_end(t) ==
    /\ pc[t].at = "pack" /\ todo = {} /\ todo_names = {}
    /\ IF pc[t].then = "write"
       THEN /\ Goto(t, At("write", NoNode, NoNode, 0, "idle"))
            /\ UNCHANGED mutex
       ELSE /\ Goto(t, IdleAt)
            /\ mutex' = Unlocked(t)
    /\ UNCHANGED <<node_vars, count_vars, head_vars, active_snapshots, store_mutex,
                   leaks, pack_vars, rest_vars>>

-----------------------------------------------------------------------------
\* store(): both store-wide mutexes are taken, and kept while the call waits for
\* the latch to be zero: for ever, or until a timeout.

store(t, how) ==
    /\ Idle(t) /\ CanLock(t) /\ store_mutex = NoThread
    /\ \/ "store" \in Calls /\ how = "wait"
       \/ "store_timed" \in Calls /\ how = "timed_wait"
    /\ mutex' = t /\ store_mutex' = t
    /\ Goto(t, At(how, NoNode, NoNode, 0, "idle"))
    /\ UNCHANGED <<node_vars, count_vars, head_vars, active_snapshots, leaks,
                   pack_vars, rest_vars>>

\* Faulty: one writer is tolerated.
do_store_early(t) ==
    /\ pc[t].at \in {"wait", "timed_wait"} /\ active_snapshots \in 0..1
    /\ file' = [kind |-> "partial"]
    /\ UNCHANGED <<node_vars, count_vars, head_vars, active_snapshots, lock_vars,
                   fault, locked_drops>>
    /\ StartPack(t, "write")

\* The file is truncated when it is opened, and do_store packs first.
do_store(t) ==
    /\ pc[t].at \in {"wait", "timed_wait"} /\ active_snapshots = 0
    /\ file' = [kind |-> "partial"]
    /\ UNCHANGED <<node_vars, count_vars, head_vars, active_snapshots, lock_vars,
                   fault, locked_drops>>
    /\ StartPack(t, "write")

\* Faulty: the error return keeps the mutex.
timeout_keeps_mutex(t) ==
    /\ pc[t].at = "timed_wait" /\ active_snapshots # 0
    /\ store_mutex' = NoThread
    /\ Goto(t, IdleAt)
    /\ UNCHANGED <<node_vars, count_vars, head_vars, active_snapshots, mutex, leaks,
                   pack_vars, rest_vars>>

store_timeout(t) ==
    /\ pc[t].at = "timed_wait" /\ active_snapshots # 0
    /\ mutex' = Unlocked(t) /\ store_mutex' = NoThread
    /\ Goto(t, IdleAt)
    /\ UNCHANGED <<node_vars, count_vars, head_vars, active_snapshots, leaks,
                   pack_vars, rest_vars>>

\* The image: the metadata record and one record per history node.
Image ==
    [kind     |-> "image",
     nodes    |-> LiveNodes,
     status   |-> [n \in LiveNodes |-> status[n]],
     parent   |-> [n \in LiveNodes |-> parent[n]],
     children |-> [n \in LiveNodes |-> children[n]],
     root     |-> LiveNodes \cap root,
     named    |-> named_branches,
     master   |-> master]

HeadsLive == Live(master) /\ \A b \in Names :
                 named_branches[b] # NoNode => Live(named_branches[b])

write_image(t) ==
    /\ pc[t].at = "write" /\ HeadsLive
    /\ file' = Image
    /\ mutex' = Unlocked(t) /\ store_mutex' = NoThread
    /\ Goto(t, IdleAt)
    /\ UNCHANGED <<node_vars, count_vars, head_vars, active_snapshots, leaks,
                   pack_vars, fault, locked_drops>>

-----------------------------------------------------------------------------
\* A crash loses everything in memory.  The next process loads the image:
\* the history is rebuilt with no handle open, the data of dropped snapshots
\* is deleted (do_delete_dropped), and the tree is packed.
Restart ==
    /\ references' = [n \in Snapshots |-> 0]
    /\ handles' = [n \in Snapshots |-> 0]
    /\ active_snapshots' = 0
    /\ store_mutex' = NoThread /\ leaks' = {}
    /\ locked_drops' = {}
    /\ UNCHANGED <<file, fault>>

load(t) ==
    /\ "load" \in Calls /\ file.kind = "image"
    /\ Restart
    /\ mem' = [n \in Snapshots |-> IF n \in file.nodes THEN "live" ELSE "unused"]
    /\ status' = [n \in Snapshots |-> IF n \in file.nodes THEN file.status[n]
                                                          ELSE "ACTIVE"]
    /\ parent' = [n \in Snapshots |-> IF n \in file.nodes THEN file.parent[n]
                                                          ELSE NoNode]
    /\ children' = [n \in Snapshots |-> IF n \in file.nodes THEN file.children[n]
                                                            ELSE {}]
    /\ root' = {n \in file.root : file.status[n] # "DROPPED"}
    /\ snapshot_map' = file.nodes
    /\ named_branches' = file.named
    /\ master' = file.master
    /\ mutex' = t
    /\ todo' = file.nodes
    /\ todo_names' = {b \in Names : file.named[b] # NoNode}
    /\ pc' = [u \in Threads |->
                 IF u = t THEN At("pack", NoNode, NoNode, 0, "idle") ELSE IdleAt]

\* Without a complete image load() reports an error, and the process starts
\* with a new store.
create ==
    /\ "load" \in Calls /\ file.kind = "partial"
    /\ Restart
    /\ mem' = [n \in Snapshots |-> IF n = Root THEN "live" ELSE "unused"]
    /\ status' = [n \in Snapshots |-> IF n = Root THEN "COMMITTED" ELSE "ACTIVE"]
    /\ parent' = [n \in Snapshots |-> NoNode]
    /\ children' = [n \in Snapshots |-> {}]
    /\ root' = {Root}
    /\ snapshot_map' = {Root}
    /\ named_branches' = [b \in Names |-> NoNode]
    /\ master' = Root
    /\ mutex' = NoThread
    /\ todo' = {} /\ todo_names' = {}
    /\ pc' = [u \in Threads |-> IdleAt]

-----------------------------------------------------------------------------
\* Calls that report, and change something on the way.

\* memory_stat() opens every committed and dropped snapshot and closes it again;
\* closing the only handle of a dropped one deletes its data.
memory_stat(t) ==
    LET dropped == {n \in Snapshots : Live(n) /\ status[n] = "DROPPED"
                                      /\ references[n] = 0}
    IN  /\ "memory_stat" \in Calls /\ Idle(t) /\ CanLock(t) /\ dropped # {}
        /\ store_mutex = NoThread
        /\ IF dropped \subseteq root
           THEN /\ root' = root \ dropped
                /\ UNCHANGED <<mem, status, parent, children, count_vars, head_vars,
                               active_snapshots, lock_vars, pc, pack_vars, rest_vars>>
           ELSE Fail("null_root")

\* linear_history() locks both mutexes and never unlocks them.
linear_history(t) ==
    /\ "linear_history" \in Calls /\ Idle(t) /\ CanLock(t)
    /\ store_mutex = NoThread
    /\ mutex' = t /\ store_mutex' = t /\ leaks' = leaks \cup {t}
    /\ UNCHANGED <<node_vars, count_vars, head_vars, active_snapshots, pc, pack_vars,
                   rest_vars>>

\* Every way a freed node can be reached: through an open handle, an entry of
\* snapshot_map_, a head, or the pointer a call in progress holds.
use_freed(t) ==
    /\ \/ Idle(t) /\ \E n \in Snapshots : handles[n] > 0 /\ mem[n] = "freed"
       \/ /\ Idle(t) /\ CanLock(t)
          /\ Calls \cap {"find", "set_master", "set_branch"} # {}
          /\ \E n \in snapshot_map : mem[n] = "freed"
       \/ /\ Idle(t) /\ CanLock(t) /\ "find_branch" \in Calls
          /\ \E b \in Names : named_branches[b] # NoNode /\ ~Live(named_branches[b])
       \/ /\ pc[t].at \in {"drop", "forget", "master"} /\ CanLock(t)
          /\ ~Live(pc[t].node)
       \/ pc[t].at = "drop1" /\ ~Live(pc[t].node)
       \/ pc[t].at = "drop2" /\ store_mutex = NoThread /\ ~Live(pc[t].node)
       \/ /\ pc[t].at = "pack" /\ todo = {}
          /\ \E b \in todo_names : ~Live(named_branches[b])
       \/ pc[t].at = "write" /\ ~HeadsLive
    /\ Fail("use_after_free")

-----------------------------------------------------------------------------
\* A call in progress, and the steps that take it on.
Continue(t) ==
    \/ drop(t) \/ close_drop1(t) \/ forget_snapshot(t) \/ close_drop2(t)
    \/ master_open(t) \/ parent_open(t)
    \/ (\E n \in Snapshots : do_pack(t, n)) \/ (\E b \in Names : do_pack_name(t, b))
    \/ pack_end(t)
    \/ do_store(t) \/ store_timeout(t) \/ write_image(t)
    \/ use_freed(t)

Begin(t) ==
    \/ \E n \in Snapshots :
        \/ branch(t, n) \/ commit(t, n) \/ lock_data_for_import(t, n)
        \/ drop_call(t, n) \/ close(t, n) \/ find(t, n) \/ parent_read(t, n)
        \/ set_master(t, n)
        \/ \E b \in Names : set_branch(t, b, n)
    \/ \E b \in Names : find_branch(t, b) \/ remove_named_branch(t, b)
    \/ master_read(t) \/ pack(t) \/ memory_stat(t) \/ linear_history(t)
    \/ \E how \in {"wait", "timed_wait"} : store(t, how)

Next == /\ Running
        /\ \/ \E t \in Threads : Continue(t) \/ Begin(t) \/ load(t)
           \/ create

Spec == Init /\ [][Next]_vars

\* Threads are scheduled: a call that can take its next step takes it.  Clients
\* finish what they write: a snapshot left active is committed or closed.
FairSpec == /\ Spec
            /\ \A t \in Threads : WF_vars(Running /\ Continue(t))
            /\ \A n \in Snapshots :
                WF_vars(Running /\ \E t \in Threads : commit(t, n) \/ close(t, n))

-----------------------------------------------------------------------------
Writers == {n \in Snapshots : Live(n) /\ status[n] = "ACTIVE" /\ references[n] > 0}
DataLocked == {n \in Snapshots : Live(n) /\ status[n] = "DATA_LOCKED"}

PcType == [at: Places, node: Snapshots \cup {NoNode}, self: Snapshots \cup {NoNode},
           seen: Int, then: {"idle", "write"}]

\* Every variable has its type.
TypeOK ==
    /\ mem \in [Snapshots -> {"unused", "live", "freed"}]
    /\ status \in [Snapshots -> Statuses]
    /\ parent \in [Snapshots -> Snapshots \cup {NoNode}]
    /\ children \in [Snapshots -> SUBSET Snapshots]
    /\ root \subseteq Snapshots
    /\ references \in [Snapshots -> Int]
    /\ handles \in [Snapshots -> Int]
    /\ snapshot_map \subseteq Snapshots
    /\ named_branches \in [Names -> Snapshots \cup {NoNode}]
    /\ master \in Snapshots
    /\ active_snapshots \in Int
    /\ mutex \in Threads \cup {NoThread}
    /\ store_mutex \in Threads \cup {NoThread}
    /\ leaks \subseteq Threads
    /\ pc \in [Threads -> PcType]
    /\ todo \subseteq Snapshots /\ todo_names \subseteq Names
    /\ fault \in Faults
    /\ locked_drops \subseteq Snapshots

\* The links parent_ and children_ agree on every live node, and following
\* parent_ from any live node leads to the root: whatever branch, forget_snapshot
\* and pack's splicing do, the history stays one tree.
IsTree(nodes, up, down) ==
    /\ Root \in nodes /\ up[Root] = NoNode
    /\ \A n \in nodes \ {Root} : up[n] \in nodes /\ n \in down[up[n]]
    /\ \A n \in nodes : \A c \in down[n] : c \in nodes /\ up[c] = n
    /\ \A S \in SUBSET nodes :
        (S # {} /\ \A n \in S : up[n] # NoNode => up[n] \in S) => Root \in S
HistoryIsTree == IsTree(LiveNodes, parent, children)

\* The latch store() waits on counts the open writers, the locked snapshots, and
\* the locked snapshots that were dropped (which are never counted down).
LatchCountsWriters ==
    active_snapshots = Cardinality(Writers) + Cardinality(DataLocked)
                       + Cardinality(locked_drops)

\* While store() packs and writes, no snapshot can be written to by a client.
Storing == \E t \in Threads : pc[t].at = "write" \/ pc[t].then = "write"
StoreSeesNoWriter == Storing => Writers = {} /\ DataLocked = {}

\* The master and the named branches point to live snapshots that are committed
\* or locked; only a snapshot dropped while locked can be left as a head.
Heads == {master} \cup ({named_branches[b] : b \in Names} \ {NoNode})
HeadsCommitted ==
    \A n \in Heads : \/ Live(n) /\ status[n] \in {"COMMITTED", "DATA_LOCKED"}
                     \/ n \in locked_drops

\* A snapshot keeps its data until it is dropped, or closed while active: no
\* handle's destructor clears the data of a committed or locked snapshot.
CommittedHasData ==
    \A n \in Snapshots :
        Live(n) /\ (status[n] \in {"COMMITTED", "DATA_LOCKED"} \/ n \in Writers)
            => n \in root

\* An image on disk is complete: its nodes are one tree, its committed snapshots
\* have their data, and its heads are committed snapshots of it.
ImageIsComplete ==
    file.kind = "image" =>
        /\ IsTree(file.nodes, file.parent, file.children)
        /\ \A n \in file.nodes : file.status[n] = "COMMITTED" => n \in file.root
        /\ \A n \in {file.master} \cup ({file.named[b] : b \in Names} \ {NoNode}) :
            n \in file.nodes /\ file.status[n] = "COMMITTED"

\* The count that decides when data is deleted is the number of open handles.
ReferencesCountHandles ==
    \A n \in Snapshots : Live(n) => references[n] = handles[n]

\* The data a handle reads through exists while the handle is open.
OpenHandleHasData ==
    \A n \in Snapshots : handles[n] > 0 => Live(n) /\ n \in root

\* Some call in progress can always take a step: no set of calls waits for each
\* other's locks, or for the latch, for ever.
SomeCallCanProceed ==
    (fault = "none" /\ \E t \in Threads : ~Idle(t))
        => \E t \in Threads : ENABLED Continue(t)

\* The next step of t's call needs no lock of another thread, no commit of a
\* client, and in pack() a node all of whose children have been visited.
Ready(t) ==
    \/ pc[t].at \in {"drop", "forget", "master"} /\ CanLock(t)
    \/ pc[t].at = "drop2" /\ store_mutex = NoThread
    \/ pc[t].at = "wait" /\ active_snapshots = 0
    \/ pc[t].at = "pack" /\ (todo = {} \/ \E n \in todo : children[n] \cap todo = {})
    \/ pc[t].at \in {"drop1", "parent", "timed_wait", "write"}

\* The same, said of the locks and of pack()'s work: while calls are in progress,
\* one of them is not waiting, so the order in which store(), pack(), drop() and
\* the destructors take mutex_ and store_mutex_ has no cycle.
SomeCallReady == (\E t \in Threads : ~Idle(t)) => \E t \in Threads : Ready(t)

\* A store() that waits without a timeout returns once every snapshot active at
\* the time has been committed or closed: the handles' destructors count the
\* latch down before they ask for the mutex that store() holds.
StoreReturns ==
    \A t \in Threads : (pc[t].at \in {"wait", "timed_wait"}) ~> Idle(t)

\* A handle is never opened on a dropped snapshot whose data is gone.
NoClearedSnapshotOpened == fault # "null_root"

\* No call reaches a history node that has been deleted.
NoFreedNodeUsed == fault # "use_after_free"

\* What one step may do to the statuses, short of a crash.
CommittedStep ==
    \/ \A n \in Snapshots :
         /\ (Live(n) /\ status[n] = "COMMITTED") => mem'[n] = "live"
         /\ (Live(n) /\ status[n] = "DROPPED" /\ mem'[n] = "live")
              => status'[n] = "DROPPED"
    \/ create
    \/ \E t \in Threads : load(t)

\* Short of a crash, a committed snapshot leaves the history only after drop():
\* pack and forget_snapshot never take it, and nothing reopens a dropped one.
CommittedStays == [][CommittedStep]_vars

\* When pack() ends, a node without data and without handles is left only to
\* keep two or more branches together.
PackIsMinimal ==
    [][ (todo_names = {} /\ todo = {} /\ mutex # NoThread /\ mutex' = NoThread
         /\ (\E t \in Threads : pc[t].at = "pack") /\ locked_drops = {})
          => \A n \in Snapshots : Live(n) /\ Removable(n)
                => \E c, d \in children[n] : c # d ]_vars
====
