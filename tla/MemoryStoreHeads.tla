---- MODULE MemoryStoreHeads ----
(***************************************************************************)
(* Statuses, data, heads and the latch: the steps keep RootKept, DropsKept,*)
(* CommittedHasData, HeadsCommitted, LatchCountsWriters and LatchStays.    *)
(***************************************************************************)
EXTENDS MemoryStoreCalls

\* The prover of the leaves that name none, and its time limit.
USE ZenonT(60)

-----------------------------------------------------------------------------
(* Statuses, data and heads *)

\* Statuses: the root stays committed, what was dropped stays dropped.

\* pack() removing a node, and all that it leaves alone.
RemovalStep(n) ==
    /\ Removable(n) /\ do_remove_history_node(n)
    /\ UNCHANGED <<count_vars, head_vars, active_snapshots, file, locked_drops>>

\* A client moving a head.
HeadCall(t) ==
    \/ \E n \in Snapshots : set_master(t, n)
    \/ \E n \in Snapshots, b \in Names : set_branch(t, b, n)
    \/ \E b \in Names : remove_named_branch(t, b)

\* The steps that touch the memory or the status of nodes, or the heads.
LEMMA StatusSteps ==
  ASSUME TodoLive, [Next]_vars
  PROVE  \/ UNCHANGED <<mem, status, locked_drops, named_branches, master>>
         \/ \E t \in Threads, n \in Snapshots :
                branch(t, n) \/ commit(t, n) \/ lock_data_for_import(t, n)
         \/ \E t \in Threads : drop(t) \/ forget_snapshot(t) \/ load(t)
         \/ \E n \in LiveNodes : RemovalStep(n)
         \/ create
         \/ UNCHANGED <<mem, status, locked_drops>> /\ \E t \in Threads : HeadCall(t)
<1> USE DEF node_vars, rest_vars, head_vars, Fail
<1>1. ASSUME NEW t \in Threads, Continue(t)
      PROVE  \/ UNCHANGED <<mem, status, locked_drops, named_branches, master>>
             \/ drop(t) \/ forget_snapshot(t)
             \/ \E n \in LiveNodes : RemovalStep(n)
  <2>1. CASE \/ close_drop1(t) \/ parent_open(t) \/ pack_end(t) \/ do_store(t)
             \/ store_timeout(t) \/ write_image(t) \/ use_freed(t)
    BY <2>1 DEF close_drop1, parent_open, pack_end, do_store, store_timeout, write_image,
                use_freed
  <2>2. ASSUME NEW n \in Snapshots, do_pack(t, n)
        PROVE  \/ UNCHANGED <<mem, status, locked_drops, named_branches, master>>
               \/ n \in LiveNodes /\ RemovalStep(n)
    BY <2>2 DEF do_pack, TodoLive, RemovalStep
  <2>3. ASSUME NEW b \in Names, do_pack_name(t, b)
        PROVE  \/ UNCHANGED <<mem, status, locked_drops, named_branches, master>>
               \/ named_branches[b] \in LiveNodes /\ RemovalStep(named_branches[b])
    BY <2>3 DEF do_pack_name, RemovalStep
  <2>4. CASE close_drop2(t)
    BY <2>4 DEF close_drop2
  <2>5. CASE master_open(t)
    BY <2>5 DEF master_open
  <2> QED
    BY <1>1, <2>1, <2>2, <2>3, <2>4, <2>5 DEF Continue
<1>2. ASSUME NEW t \in Threads, Begin(t)
      PROVE  \/ UNCHANGED <<mem, status, locked_drops, named_branches, master>>
             \/ \E n \in Snapshots :
                    branch(t, n) \/ commit(t, n) \/ lock_data_for_import(t, n)
             \/ UNCHANGED <<mem, status, locked_drops>> /\ HeadCall(t)
  <2>1. ASSUME NEW n \in Snapshots,
               \/ drop_call(t, n) \/ close(t, n) \/ find(t, n) \/ parent_read(t, n)
        PROVE  UNCHANGED <<mem, status, locked_drops, named_branches, master>>
    BY <2>1 DEF drop_call, close, find, parent_read
  <2>2. ASSUME NEW b \in Names, find_branch(t, b)
        PROVE  UNCHANGED <<mem, status, locked_drops, named_branches, master>>
    BY <2>2 DEF find_branch
  <2>3. CASE \/ master_read(t) \/ pack(t) \/ memory_stat(t) \/ linear_history(t)
             \/ \E how \in {"wait", "timed_wait"} : store(t, how)
    BY <2>3 DEF master_read, pack, memory_stat, linear_history, store
  <2>4. ASSUME NEW n \in Snapshots,
               set_master(t, n) \/ \E b \in Names : set_branch(t, b, n)
        PROVE  UNCHANGED <<mem, status, locked_drops>> /\ HeadCall(t)
    BY <2>4 DEF set_master, set_branch, HeadCall
  <2>5. ASSUME NEW b \in Names, remove_named_branch(t, b)
        PROVE  UNCHANGED <<mem, status, locked_drops>> /\ HeadCall(t)
    <3>1. UNCHANGED <<mem, status, locked_drops>>
      BY <2>5 DEF remove_named_branch
    <3>2. HeadCall(t)
      BY <2>5 DEF HeadCall
    <3> QED
      BY <3>1, <3>2
  <2> QED
    BY <1>2, <2>1, <2>2, <2>3, <2>4, <2>5 DEF Begin
<1>3. CASE UNCHANGED vars
  BY <1>3 DEF vars
<1> QED
  BY <1>1, <1>2, <1>3 DEF Next

\* What a removal does to the status and the data of other nodes: nothing.
LEMMA RemovalEffect ==
  ASSUME TypeOK, NEW n \in LiveNodes, RemovalStep(n)
  PROVE  /\ n \in Snapshots
         /\ \/ UNCHANGED <<mem, status, root>>
            \/ /\ mem' = [mem EXCEPT ![n] = "freed"]
               /\ status' = [status EXCEPT ![n] = "ACTIVE"]
               /\ root' = root \ {n}
  BY DEF RemovalStep, do_remove_history_node, Delete, node_vars, LiveNodes

\* The root snapshot, and every committed or locked one, has its data and stays.
LEMMA RemovedNotCommitted ==
  ASSUME CommittedHasData, NEW n \in LiveNodes, Removable(n)
  PROVE  status[n] \notin {"COMMITTED", "DATA_LOCKED"}
  BY DEF CommittedHasData, Removable, LiveNodes

\* No step drops the root snapshot: drop() refuses it.
LEMMA RootStep ==
  ASSUME TypeOK, HistoryIsTree, RootKept, PlaceKnown, TodoLive, CommittedHasData, FileOK,
         ImageIsComplete, [Next]_vars
  PROVE  RootKept'
<1> USE RootAssumption DEF RootKept
<1>1. CASE UNCHANGED <<mem, status, locked_drops>>
  BY <1>1
<1>2. ASSUME NEW t \in Threads, NEW n \in Snapshots,
             branch(t, n) \/ commit(t, n) \/ lock_data_for_import(t, n)
      PROVE  RootKept'
  BY <1>2, SMTT(30) DEF branch, commit, lock_data_for_import, TypeOK, HistoryIsTree, IsTree,
              LiveNodes, Live
<1>3. ASSUME NEW t \in Threads, drop(t) PROVE RootKept'
  <2>1. pc[t].node \in Snapshots
    BY <1>3 DEF drop, PlaceKnown, PlaceOf, Holding
  <2>2. pc[t].node # Root \/ UNCHANGED status
    BY <1>3 DEF drop, HistoryIsTree, IsTree, node_vars
  <2> QED
    BY <1>3, <2>1, <2>2 DEF drop, TypeOK, node_vars
<1>4. ASSUME NEW t \in Threads, forget_snapshot(t) PROVE RootKept'
  BY <1>4 DEF forget_snapshot, Delete, PlaceKnown, PlaceOf, Holding, TypeOK, Live
<1>5. ASSUME NEW n \in LiveNodes, RemovalStep(n) PROVE RootKept'
  <2>1. n # Root
    BY <1>5, RemovedNotCommitted DEF RemovalStep
  <2> QED
    BY <1>5, <2>1, RemovalEffect DEF TypeOK
<1>6. ASSUME NEW t \in Threads, load(t) PROVE RootKept'
  BY <1>6 DEF load, FileOK, ImageIsComplete, IsTree
<1>7. CASE create
  BY <1>7 DEF create
<1> QED
  BY <1>1, <1>2, <1>3, <1>4, <1>5, <1>6, <1>7, StatusSteps

\* A locked snapshot that was dropped stays dropped until pack() frees it.
LEMMA DropsStep ==
  ASSUME TypeOK, PlaceKnown, TodoLive, DropsKept, [Next]_vars
  PROVE  DropsKept'
<1>1. CASE UNCHANGED <<mem, status, locked_drops>>
  BY <1>1 DEF DropsKept, Live
<1>2. ASSUME NEW t \in Threads, NEW n \in Snapshots,
             branch(t, n) \/ commit(t, n) \/ lock_data_for_import(t, n)
      PROVE  DropsKept'
  BY <1>2
     DEF branch, commit, lock_data_for_import, TypeOK, DropsKept, Live, rest_vars
<1>3. ASSUME NEW t \in Threads, drop(t) PROVE DropsKept'
  <2>1. pc[t].node \in Snapshots
    BY <1>3 DEF drop, PlaceKnown, PlaceOf, Holding
  <2> QED
    BY <1>3, <2>1, SMTT(30) DEF drop, TypeOK, DropsKept, Live, node_vars
<1>4. ASSUME NEW t \in Threads, forget_snapshot(t) PROVE DropsKept'
  BY <1>4 DEF forget_snapshot, Delete, PlaceKnown, PlaceOf, Holding, TypeOK, Live,
              DropsKept, rest_vars
<1>5. ASSUME NEW n \in LiveNodes, RemovalStep(n) PROVE DropsKept'
  <2>1. locked_drops' = locked_drops
    BY <1>5 DEF RemovalStep
  <2> QED
    BY <1>5, <2>1, RemovalEffect DEF TypeOK, DropsKept, Live
<1>6. ASSUME NEW t \in Threads, load(t) PROVE DropsKept'
  BY <1>6 DEF load, Restart, DropsKept
<1>7. CASE create
  BY <1>7 DEF create, Restart, DropsKept
<1> QED
  BY <1>1, <1>2, <1>3, <1>4, <1>5, <1>6, <1>7, StatusSteps

-----------------------------------------------------------------------------
\* Data: what is committed, locked or being written has its root_.

\* No step, lost updates of the count included, deletes the data of a snapshot
\* that is committed, locked or written to.
LEMMA DataStep ==
  ASSUME TypeOK, ActiveAlone, PlaceKnown, TodoLive, CommittedHasData, FileOK,
         ImageIsComplete, [Next]_vars
  PROVE  CommittedHasData'
<1> USE DEF CommittedHasData, Writers, Live, TypeOK
<1>1. CASE UNCHANGED <<mem, status, root, references>>
  BY <1>1
<1>2. ASSUME NEW t \in Threads, Continue(t) PROVE CommittedHasData'
  <2>1. CASE drop(t)
    <3>1. pc[t].node \in Snapshots
      BY <2>1 DEF drop, PlaceKnown, PlaceOf, Holding
    <3>2. UNCHANGED <<mem, root, references>>
      BY <2>1 DEF drop, node_vars, count_vars
    <3>3. UNCHANGED status \/ status' = [status EXCEPT ![pc[t].node] = "DROPPED"]
      BY <2>1 DEF drop, node_vars
    <3> QED
      BY <3>1, <3>2, <3>3
  <2>2. CASE close_drop1(t)
    <3>1. PICK n \in Snapshots : n = pc[t].node
      BY <2>2 DEF close_drop1, PlaceKnown, PlaceOf, Holding
    <3>2. status[n] = "ACTIVE" /\ references[n] = 0
      BY <2>2, <3>1 DEF close_drop1, PlaceKnown, PlaceOf, ActiveAlone, LiveNodes
    <3> QED
      BY <2>2, <3>1, <3>2, SMTT(30) DEF close_drop1, count_vars
  <2>3. CASE forget_snapshot(t)
    <3>1. PICK n \in Snapshots : n = pc[t].node
      BY <2>3 DEF forget_snapshot, PlaceKnown, PlaceOf, Holding
    <3> QED
      BY <2>3, <3>1 DEF forget_snapshot, Delete, count_vars
  <2>4. CASE close_drop2(t)
    <3>1. PICK n \in Snapshots : n = pc[t].node
      BY <2>4 DEF close_drop2, PlaceKnown, PlaceOf, Holding
    <3>2. status[n] = "DROPPED"
      BY <2>4, <3>1 DEF close_drop2, PlaceKnown, PlaceOf
    <3> QED
      BY <2>4, <3>1, <3>2 DEF close_drop2, count_vars, node_vars, Fail
  <2>5. CASE master_open(t) \/ parent_open(t)
    <3>1. PICK n \in Snapshots : n = pc[t].node
      BY <2>5 DEF master_open, parent_open, PlaceKnown, PlaceOf, Holding
    <3>2. UNCHANGED <<mem, status, root>>
      BY <2>5 DEF master_open, parent_open, node_vars, Fail
    <3>3. \/ UNCHANGED references
          \/ n \in root /\ \A m \in Snapshots \ {n} : references'[m] = references[m]
      BY <2>5, <3>1 DEF master_open, parent_open, Open, Fail, count_vars
    <3> QED
      BY <3>1, <3>2, <3>3
  <2>6. ASSUME NEW n \in LiveNodes, RemovalStep(n) PROVE CommittedHasData'
    <3>1. UNCHANGED references
      BY <2>6 DEF RemovalStep, count_vars
    <3> QED
      BY <2>6, <3>1, RemovalEffect
  <2>7. CASE (\E n \in Snapshots : do_pack(t, n)) \/ (\E b \in Names : do_pack_name(t, b))
    <3>1. UNCHANGED references
      BY <2>7 DEF do_pack, do_pack_name, count_vars
    <3>2. UNCHANGED <<mem, status, root>> \/ \E n \in LiveNodes : RemovalStep(n)
      BY <2>7 DEF do_pack, do_pack_name, RemovalStep, node_vars, TodoLive, rest_vars
    <3> QED
      BY <1>1, <2>6, <3>1, <3>2
  <2>8. CASE pack_end(t) \/ do_store(t) \/ store_timeout(t) \/ write_image(t) \/ use_freed(t)
    BY <1>1, <2>8
       DEF pack_end, do_store, store_timeout, write_image, use_freed, Fail,
                      node_vars, count_vars
  <2> QED
    BY <1>2, <2>1, <2>2, <2>3, <2>4, <2>5, <2>7, <2>8 DEF Continue
<1>3. ASSUME NEW t \in Threads, Begin(t) PROVE CommittedHasData'
  <2>1. ASSUME NEW n \in Snapshots, branch(t, n) PROVE CommittedHasData'
    BY <2>1, SMTT(30) DEF branch
  <2>2. ASSUME NEW n \in Snapshots, commit(t, n) \/ lock_data_for_import(t, n)
        PROVE  CommittedHasData'
    <3>1. n \in root
      BY <2>2 DEF commit, lock_data_for_import, ActiveAlone, LiveNodes
    <3> QED
      BY <2>2, <3>1, SMTT(30) DEF commit, lock_data_for_import, count_vars
  <2>3. ASSUME NEW n \in Snapshots, close(t, n) PROVE CommittedHasData'
    BY <2>3, SMTT(30) DEF close, node_vars
  <2>4. ASSUME NEW n \in Snapshots, \/ find(t, n)
                                    \/ \E b \in Names : /\ named_branches[b] = n
                                                        /\ find_branch(t, b)
        PROVE  CommittedHasData'
    <3>1. UNCHANGED <<mem, status, root>>
      BY <2>4 DEF find, find_branch, node_vars
    <3>2. \/ UNCHANGED references
          \/ n \in root /\ \A m \in Snapshots \ {n} : references'[m] = references[m]
      BY <2>4 DEF find, find_branch, Open, count_vars
    <3> QED
      BY <3>1, <3>2
  <2>5. ASSUME NEW b \in Names, find_branch(t, b)
        PROVE  named_branches[b] \in Snapshots
    BY <2>5 DEF find_branch
  <2>6. ASSUME NEW n \in Snapshots,
               drop_call(t, n) \/ parent_read(t, n) \/ set_master(t, n)
        PROVE  CommittedHasData'
    BY <1>1, <2>6 DEF drop_call, parent_read, set_master, node_vars, count_vars
  <2>7. ASSUME NEW n \in Snapshots, NEW b \in Names,
               set_branch(t, b, n) \/ remove_named_branch(t, b)
        PROVE  CommittedHasData'
    BY <1>1, <2>7 DEF set_branch, remove_named_branch, node_vars, count_vars
  <2>8. CASE memory_stat(t)
    BY <2>8 DEF memory_stat, Fail, node_vars, count_vars
  <2>9. CASE \/ master_read(t) \/ pack(t) \/ linear_history(t)
             \/ \E how \in {"wait", "timed_wait"} : store(t, how)
    BY <1>1, <2>9 DEF master_read, pack, linear_history, store, node_vars, count_vars
  <2> QED
    BY <1>3, <2>1, <2>2, <2>3, <2>4, <2>5, <2>6, <2>7, <2>8, <2>9, RootAssumption
       DEF Begin
<1>4. ASSUME NEW t \in Threads, load(t) PROVE CommittedHasData'
  <2>1. /\ file.kind = "image"
        /\ root' = {n \in file.root : file.status[n] # "DROPPED"}
    BY <1>4 DEF load
  <2>2. ASSUME NEW n \in Snapshots, mem'[n] = "live"
        PROVE  n \in file.nodes /\ status'[n] = file.status[n] /\ references'[n] = 0
    BY <1>4, <2>2 DEF load, Restart
  <2>3. \A n \in file.nodes : file.status[n] # "DATA_LOCKED"
    BY <2>1 DEF FileOK
  <2>4. \A n \in file.nodes : file.status[n] = "COMMITTED" => n \in file.root
    BY <2>1 DEF ImageIsComplete
  <2>5. ASSUME NEW n \in Snapshots, mem'[n] = "live",
               status'[n] \in {"COMMITTED", "DATA_LOCKED"} \/ n \in Writers'
        PROVE  n \in root'
    <3>1. n \in file.nodes /\ status'[n] = file.status[n] /\ references'[n] = 0
      BY <2>2, <2>5
    <3>2. n \notin Writers'
      BY <3>1, SMTT(30)
    <3>3. status'[n] = "COMMITTED"
      BY <2>3, <2>5, <3>1, <3>2
    <3> QED
      BY <2>1, <2>4, <3>1, <3>3
  <2> QED
    BY <2>5
<1>5. CASE create
  BY <1>5, RootAssumption DEF create, Restart
<1>6. CASE UNCHANGED vars
  BY <1>1, <1>6 DEF vars, node_vars, count_vars
<1> QED
  BY <1>2, <1>3, <1>4, <1>5, <1>6 DEF Next

-----------------------------------------------------------------------------
\* Heads: adjust_named_references always finds a committed ancestor.

\* The live nodes that are not below n are closed under parent_, and the parent
\* of n is one of them.
LEMMA NotBelow ==
  ASSUME TypeOK, HistoryIsTree, NEW n \in LiveNodes, n # Root
  PROVE  \E A \in SUBSET (LiveNodes \ {n}) :
            /\ parent[n] \in A
            /\ \A x \in A : parent[x] # NoNode => parent[x] \in A
<1> USE NoNodeAssumption
<1> DEFINE Closed(S) == n \in S /\ \A y \in LiveNodes : parent[y] \in S => y \in S
           D == {x \in LiveNodes : \A S \in SUBSET LiveNodes : Closed(S) => x \in S}
           A == LiveNodes \ D
<1>1. D \subseteq LiveNodes /\ n \in D
  OBVIOUS
<1>2. \A y \in LiveNodes : parent[y] \in D => y \in D
  OBVIOUS
<1>0. \A S \in SUBSET LiveNodes : Closed(S) => D \subseteq S
  OBVIOUS
<1> HIDE DEF D
<1>3. ASSUME NEW x \in D, x # n PROVE parent[x] \in D
  <2>1. SUFFICES ASSUME parent[x] \notin D PROVE FALSE
    OBVIOUS
  <2>2. Closed(D \ {x})
    BY <1>1, <1>2, <1>3, <2>1
  <2>3. D \ {x} \in SUBSET LiveNodes
    BY <1>1
  <2> HIDE DEF Closed
  <2>4. x \in D \ {x}
    BY <1>0, <2>2, <2>3
  <2> QED
    BY <2>4
<1>4. Root \notin D
  <2>1. parent[Root] = NoNode /\ NoNode \notin LiveNodes
    BY DEF HistoryIsTree, IsTree, LiveNodes
  <2> QED
    BY <1>1, <1>3, <2>1
<1>5. parent[n] \in LiveNodes
  BY DEF HistoryIsTree, IsTree
<1>6. parent[n] \notin D
  <2>1. SUFFICES ASSUME parent[n] \in D PROVE FALSE
    OBVIOUS
  <2>2. D \in SUBSET LiveNodes /\ D # {} /\ \A x \in D : parent[x] # NoNode => parent[x] \in D
    BY <1>1, <1>3, <2>1
  <2>3. Root \in D
    BY <2>2 DEF HistoryIsTree, IsTree
  <2> QED
    BY <1>4, <2>3
<1>7. ASSUME NEW x \in A, parent[x] # NoNode PROVE parent[x] \in A
  BY <1>2, <1>7 DEF HistoryIsTree, IsTree
<1>8. A \in SUBSET (LiveNodes \ {n}) /\ parent[n] \in A
  BY <1>1, <1>5, <1>6
<1> HIDE DEF A
<1> QED
  BY <1>7, <1>8

\* adjust_named_references moves every head off n, to a committed snapshot.
LEMMA AdjustHeads ==
  ASSUME TypeOK, HistoryIsTree, RootKept, NEW n \in LiveNodes, parent[n] # NoNode,
         adjust_named_references(n)
  PROVE  \E p \in LiveNodes \ {n} :
            /\ status[p] = "COMMITTED"
            /\ named_branches' = [b \in Names |->
                   IF named_branches[b] = n THEN p ELSE named_branches[b]]
            /\ master' = IF master = n THEN p ELSE master
<1> DEFINE W == WalkedFrom(n)
           Covers(S) == /\ parent[n] \in S
                        /\ \A x \in S : (status[x] # "COMMITTED" /\ parent[x] # NoNode)
                                           => parent[x] \in S
<1>0. W = {p \in Snapshots : \A S \in SUBSET Snapshots : Covers(S) => p \in S}
  BY DEF WalkedFrom
<1>1. n # Root /\ LiveNodes \subseteq Snapshots /\ parent[n] \in Snapshots
  BY DEF HistoryIsTree, IsTree, LiveNodes, TypeOK
<1>2. W \subseteq LiveNodes \ {n}
  <2>1. PICK A \in SUBSET (LiveNodes \ {n}) :
            /\ parent[n] \in A
            /\ \A x \in A : parent[x] # NoNode => parent[x] \in A
    BY <1>1, NotBelow
  <2>2. Covers(A) /\ A \in SUBSET Snapshots
    BY <1>1, <2>1
  <2> QED
    BY <1>0, <2>2
<1>3. parent[n] \in W
  BY <1>0, <1>1
<1>4. ASSUME NEW x \in W, status[x] # "COMMITTED", parent[x] # NoNode
      PROVE  parent[x] \in W
  <2>1. parent[x] \in Snapshots
    BY <1>0, <1>4 DEF TypeOK
  <2> QED
    BY <1>0, <1>4, <2>1
<1>5. \E p \in W : status[p] = "COMMITTED"
  <2> HIDE DEF W
  <2>1. SUFFICES ASSUME \A p \in W : status[p] # "COMMITTED" PROVE FALSE
    OBVIOUS
  <2>2. W \in SUBSET LiveNodes /\ W # {} /\ \A x \in W : parent[x] # NoNode => parent[x] \in W
    BY <1>2, <1>3, <1>4, <2>1
  <2>3. Root \in W
    BY <2>2 DEF HistoryIsTree, IsTree
  <2> QED
    BY <2>1, <2>3 DEF RootKept
<1>6. \E p \in W : /\ status[p] = "COMMITTED"
                   /\ named_branches' = [b \in Names |->
                          IF named_branches[b] = n THEN p ELSE named_branches[b]]
                   /\ master' = IF master = n THEN p ELSE master
  BY <1>5 DEF adjust_named_references
<1> QED
  BY <1>2, <1>6

\* A head is where it should be.
HeadOK(n) == \/ Live(n) /\ status[n] \in {"COMMITTED", "DATA_LOCKED"}
             \/ n \in locked_drops

\* Heads that do not move stay good while good nodes do.
LEMMA HeadsKept ==
  ASSUME TypeOK, HeadsCommitted, UNCHANGED <<named_branches, master>>,
         \A n \in Snapshots : n \in Heads /\ HeadOK(n) => HeadOK(n)'
  PROVE  HeadsCommitted'
<1>1. Heads' = Heads
  BY DEF Heads
<1>2. Heads \subseteq Snapshots
  BY SMTT(30) DEF Heads, TypeOK
<1> QED
  BY <1>1, <1>2 DEF HeadsCommitted, HeadOK

\* Every step leaves the master and the named branches on good nodes.
LEMMA HeadsStep ==
  ASSUME TypeOK, HistoryIsTree, RootKept, PlaceKnown, TodoLive, HeadsCommitted,
         CommittedHasData, FileOK, ImageIsComplete, [Next]_vars
  PROVE  HeadsCommitted'
<1> USE DEF Live
<1>1. CASE UNCHANGED <<mem, status, locked_drops>> /\ UNCHANGED <<named_branches, master>>
  BY <1>1, HeadsKept DEF HeadOK
<1>2. ASSUME NEW t \in Threads, NEW n \in Snapshots,
             branch(t, n) \/ commit(t, n) \/ lock_data_for_import(t, n)
      PROVE  HeadsCommitted'
  BY <1>2, HeadsKept, SMTT(30)
     DEF branch, commit, lock_data_for_import, TypeOK, HeadOK, rest_vars,
                         head_vars
<1>3. ASSUME NEW t \in Threads, drop(t) PROVE HeadsCommitted'
  <2>1. PICK n \in Snapshots : n = pc[t].node
    BY <1>3 DEF drop, PlaceKnown, PlaceOf, Holding
  <2>2. CASE parent[n] = NoNode
    <3>1. UNCHANGED <<mem, status, locked_drops>> /\ UNCHANGED <<named_branches, master>>
      BY <1>3, <2>1, <2>2 DEF drop, node_vars, head_vars
    <3> QED
      BY <1>1, <3>1
  <2>3. CASE parent[n] # NoNode
    <3>1. /\ Live(n) /\ UNCHANGED mem
          /\ status' = [status EXCEPT ![n] = "DROPPED"]
          /\ locked_drops' = IF status[n] = "DATA_LOCKED"
                             THEN locked_drops \cup {n} ELSE locked_drops
          /\ IF status[n] = "COMMITTED" THEN adjust_named_references(n)
                                        ELSE UNCHANGED <<named_branches, master>>
      BY <1>3, <2>1, <2>3 DEF drop
    <3>2. CASE status[n] # "COMMITTED"
      BY <3>1, <3>2, HeadsKept DEF HeadOK, TypeOK
    <3>3. CASE status[n] = "COMMITTED"
      <4>1. adjust_named_references(n) /\ n \in LiveNodes
        BY <3>1, <3>3 DEF LiveNodes
      <4>2. PICK p \in LiveNodes \ {n} :
                /\ status[p] = "COMMITTED"
                /\ named_branches' = [b \in Names |->
                       IF named_branches[b] = n THEN p ELSE named_branches[b]]
                /\ master' = IF master = n THEN p ELSE master
        BY <2>3, <4>1, AdjustHeads
      <4>3. Heads' \subseteq (Heads \ {n}) \cup {p}
        BY <4>2 DEF Heads, TypeOK
      <4>4. Heads \subseteq Snapshots
        BY SMTT(30) DEF Heads, TypeOK
      <4>5. \A m \in Snapshots \ {n} : mem'[m] = mem[m] /\ status'[m] = status[m]
        BY <3>1 DEF TypeOK
      <4>6. p \in Snapshots /\ Live(p)
        BY <4>2 DEF LiveNodes
      <4> QED
        BY <3>1, <4>2, <4>3, <4>4, <4>5, <4>6 DEF HeadsCommitted
    <3> QED
      BY <3>2, <3>3
  <2> QED
    BY <2>2, <2>3
<1>4. ASSUME NEW t \in Threads, forget_snapshot(t) PROVE HeadsCommitted'
  <2>1. PICK n \in Snapshots : n = pc[t].node
    BY <1>4 DEF forget_snapshot, PlaceKnown, PlaceOf, Holding
  <2>2. status[n] = "ACTIVE"
    BY <1>4, <2>1 DEF forget_snapshot, PlaceKnown, PlaceOf
  <2>3. UNCHANGED <<named_branches, master, locked_drops>>
    BY <1>4 DEF forget_snapshot, rest_vars
  <2>4. \A m \in Snapshots \ {n} : mem'[m] = mem[m] /\ status'[m] = status[m]
    BY <1>4, <2>1 DEF forget_snapshot, Delete, TypeOK
  <2> QED
    BY <2>2, <2>3, <2>4, HeadsKept DEF HeadOK
<1>5. ASSUME NEW n \in LiveNodes, RemovalStep(n) PROVE HeadsCommitted'
  <2>1. status[n] \notin {"COMMITTED", "DATA_LOCKED"}
    BY <1>5, RemovedNotCommitted DEF RemovalStep
  <2>2. UNCHANGED <<named_branches, master, locked_drops>>
    BY <1>5 DEF RemovalStep, head_vars
  <2>3. \A m \in Snapshots \ {n} : mem'[m] = mem[m] /\ status'[m] = status[m]
    BY <1>5, RemovalEffect, SMTT(30) DEF TypeOK
  <2> QED
    BY <2>1, <2>2, <2>3, HeadsKept DEF HeadOK
<1>6. ASSUME NEW t \in Threads, load(t) PROVE HeadsCommitted'
  <2>1. \A n \in Heads' : n \in file.nodes /\ file.status[n] = "COMMITTED"
    BY <1>6 DEF load, ImageIsComplete, Heads
  <2>2. file.nodes \subseteq Snapshots
    BY <1>6 DEF load, FileOK
  <2> QED
    BY <1>6, <2>1, <2>2 DEF load, HeadsCommitted
<1>7. CASE create
  <2>1. Heads' = {Root}
    BY <1>7 DEF create, Heads
  <2> QED
    BY <1>7, <2>1, RootAssumption DEF create, HeadsCommitted
<1>8. ASSUME NEW t \in Threads, NEW n \in Snapshots, NEW b \in Names,
             set_branch(t, b, n) \/ remove_named_branch(t, b)
      PROVE  HeadsCommitted'
  <2>1. /\ Heads' \subseteq Heads \cup {n} /\ UNCHANGED <<mem, status, locked_drops>>
        /\ set_branch(t, b, n) => Live(n) /\ status[n] \in {"COMMITTED", "DATA_LOCKED"}
        /\ remove_named_branch(t, b) => Heads' \subseteq Heads
    BY <1>8, SMTT(30)
       DEF set_branch, remove_named_branch, Heads, TypeOK, node_vars, rest_vars
  <2> QED
    BY <1>8, <2>1 DEF HeadsCommitted
<1>9. ASSUME NEW t \in Threads, NEW n \in Snapshots, set_master(t, n)
      PROVE  HeadsCommitted'
  <2>1. Heads' \subseteq Heads \cup {n} /\ UNCHANGED <<mem, status, locked_drops>>
    BY <1>9 DEF set_master, Heads, node_vars, rest_vars
  <2> QED
    BY <1>9, <2>1 DEF HeadsCommitted, set_master
<1>10. ASSUME NEW t \in Threads, HeadCall(t) PROVE HeadsCommitted'
  BY <1>8, <1>9, <1>10, RootAssumption DEF HeadCall
<1> QED
  BY <1>1, <1>2, <1>3, <1>4, <1>5, <1>6, <1>7, <1>10, StatusSteps

-----------------------------------------------------------------------------

-----------------------------------------------------------------------------
(* The latch *)

\* The latch: every step moves it by as much as the snapshots it counts.

\* The size of a finite set is a natural number, zero only for the empty set.
LEMMA CountNat ==
  ASSUME NEW S, S \subseteq Snapshots
  PROVE  IsFiniteSet(S) /\ Cardinality(S) \in Nat
<1>1. IsFiniteSet(S)
  BY FS_Subset, FiniteAssumption
<1> QED
  BY <1>1, FS_CardinalityType

\* A new element adds one to it.
LEMMA CountAdd ==
  ASSUME NEW S, S \subseteq Snapshots, NEW x \in Snapshots, x \notin S
  PROVE  Cardinality(S \cup {x}) = Cardinality(S) + 1
  BY CountNat, FS_AddElement

\* An element taken away subtracts one.
LEMMA CountRemove ==
  ASSUME NEW S, S \subseteq Snapshots, NEW x \in Snapshots, x \in S
  PROVE  Cardinality(S \ {x}) = Cardinality(S) - 1
  BY CountNat, FS_RemoveElement

\* The three sets the latch counts.
LEMMA LatchTyped ==
  ASSUME TypeOK
  PROVE  /\ Writers \subseteq Snapshots /\ DataLocked \subseteq Snapshots
         /\ locked_drops \subseteq Snapshots
         /\ Cardinality(Writers) \in Nat /\ Cardinality(DataLocked) \in Nat
         /\ Cardinality(locked_drops) \in Nat
<1>1. /\ Writers \subseteq Snapshots /\ DataLocked \subseteq Snapshots
      /\ locked_drops \subseteq Snapshots
  BY DEF Writers, DataLocked, TypeOK
<1>2. Cardinality(Writers) \in Nat
  BY <1>1, CountNat
<1>3. Cardinality(DataLocked) \in Nat
  BY <1>1, CountNat
<1>4. Cardinality(locked_drops) \in Nat
  BY <1>1, CountNat
<1> QED
  BY <1>1, <1>2, <1>3, <1>4

\* A step that moves neither the latch nor the sets it counts.
LEMMA LatchSame ==
  ASSUME LatchCountsWriters, UNCHANGED <<Writers, DataLocked, locked_drops, active_snapshots>>
  PROVE  LatchCountsWriters'
  BY DEF LatchCountsWriters

\* Opening a snapshot that is not active changes no count of writers.
LEMMA LatchOpen ==
  ASSUME TypeOK, LatchCountsWriters, NEW t \in Threads, NEW n \in Snapshots, NEW counts,
         Open(t, n, counts), status[n] # "ACTIVE",
         UNCHANGED <<mem, status, locked_drops, active_snapshots>>
  PROVE  LatchCountsWriters'
<1>1. \A x \in Snapshots \ {n} : references'[x] = references[x]
  BY DEF Open, TypeOK, count_vars
<1>2. UNCHANGED <<Writers, DataLocked>>
  BY <1>1 DEF Writers, DataLocked, Live
<1> QED
  BY <1>2, LatchSame

\* drop() of an active snapshot moves the latch and the writers, of a locked one
\* neither: locked_drops takes over.
LEMMA LatchDrop ==
  ASSUME TypeOK, ActiveAlone, PlaceKnown, DropsKept, LatchCountsWriters,
         NEW t \in Threads, drop(t)
  PROVE  LatchCountsWriters'
<1> USE DEF Live
<1>1. PICK n \in Snapshots : n = pc[t].node
  BY DEF drop, PlaceKnown, PlaceOf, Holding
<1>2. pc[t].self = n /\ Live(n) /\ UNCHANGED <<mem, references>>
  BY <1>1 DEF drop, PlaceKnown, PlaceOf, count_vars, node_vars
<1>3. CASE parent[n] = NoNode
  <2>1. UNCHANGED <<status, active_snapshots, locked_drops>>
    BY <1>1, <1>3 DEF drop, node_vars
  <2>2. UNCHANGED <<Writers, DataLocked>>
    BY <1>2, <2>1 DEF Writers, DataLocked
  <2> QED
    BY <2>1, <2>2, LatchSame
<1>4. CASE parent[n] # NoNode
  <2>1. /\ status' = [status EXCEPT ![n] = "DROPPED"]
        /\ active_snapshots' = active_snapshots - (IF status[n] = "ACTIVE" THEN 1 ELSE 0)
        /\ locked_drops' = IF status[n] = "DATA_LOCKED" THEN locked_drops \cup {n}
                                                        ELSE locked_drops
    BY <1>1, <1>4 DEF drop
  <2>2. status'[n] = "DROPPED" /\ \A x \in Snapshots \ {n} : status'[x] = status[x]
    BY <2>1 DEF TypeOK
  <2>3. CASE status[n] = "ACTIVE"
    <3>1. n \in Writers
      <4>1. references[n] = handles[n] /\ handles[n] = 1
        BY <1>2, <2>3 DEF ActiveAlone, LiveNodes
      <4>2. references[n] > 0
        <5> HIDE DEF Live
        <5> QED
          BY <4>1, SMTT(30)
      <4> QED
        BY <1>2, <2>3, <4>2 DEF Writers
    <3>2. Writers' = Writers \ {n} /\ DataLocked' = DataLocked
      BY <1>2, <2>2, <2>3 DEF Writers, DataLocked
    <3>3. Cardinality(Writers \ {n}) = Cardinality(Writers) - 1
      BY <3>1, LatchTyped, CountRemove
    <3>4. locked_drops' = locked_drops /\ active_snapshots' = active_snapshots - 1
      BY <2>1, <2>3
    <3> QED
      BY <3>2, <3>3, <3>4, LatchTyped, SMTT(30) DEF LatchCountsWriters
  <2>4. CASE status[n] = "DATA_LOCKED"
    <3>1. n \in DataLocked /\ n \notin locked_drops
      BY <1>2, <2>4 DEF DataLocked, DropsKept
    <3>2. DataLocked' = DataLocked \ {n} /\ Writers' = Writers
      BY <1>2, <2>2, <2>4 DEF Writers, DataLocked
    <3>3. Cardinality(DataLocked \ {n}) = Cardinality(DataLocked) - 1
      BY <3>1, LatchTyped, CountRemove
    <3>4. locked_drops' = locked_drops \cup {n} /\ active_snapshots' = active_snapshots
      BY <2>1, <2>4, SMTT(30) DEF TypeOK
    <3>5. Cardinality(locked_drops \cup {n}) = Cardinality(locked_drops) + 1
      BY <3>1, LatchTyped, CountAdd
    <3> QED
      BY <3>2, <3>3, <3>4, <3>5, LatchTyped, SMTT(30) DEF LatchCountsWriters
  <2>5. CASE status[n] \notin {"ACTIVE", "DATA_LOCKED"}
    <3>1. UNCHANGED <<Writers, DataLocked>>
      BY <1>2, <2>2, <2>5 DEF Writers, DataLocked
    <3>2. UNCHANGED <<locked_drops, active_snapshots>>
      BY <2>1, <2>5, SMTT(30) DEF TypeOK
    <3> QED
      BY <3>1, <3>2, LatchSame
  <2> QED
    BY <2>3, <2>4, <2>5
<1> QED
  BY <1>3, <1>4

\* The calls that a client begins.
LEMMA LatchBegin ==
  ASSUME TypeOK, ActiveAlone, LatchCountsWriters, NEW t \in Threads, NEW n \in Snapshots,
         \/ branch(t, n) \/ commit(t, n) \/ lock_data_for_import(t, n) \/ close(t, n)
  PROVE  LatchCountsWriters'
<1> USE DEF Live
<1>1. CASE branch(t, n)
  <2>1. PICK c \in Snapshots :
            /\ mem[c] = "unused" /\ mem' = [mem EXCEPT ![c] = "live"]
            /\ status' = [status EXCEPT ![c] = "ACTIVE"]
            /\ references' = [references EXCEPT ![c] = 1]
    BY <1>1 DEF branch
  <2>2. c \notin Writers /\ Writers' = Writers \cup {c} /\ DataLocked' = DataLocked
    BY <2>1, SMTT(30) DEF Writers, DataLocked, TypeOK
  <2>3. Cardinality(Writers \cup {c}) = Cardinality(Writers) + 1
    BY <2>2, LatchTyped, CountAdd
  <2>4. locked_drops' = locked_drops /\ active_snapshots' = active_snapshots + 1
    BY <1>1 DEF branch, rest_vars
  <2> QED
    BY <2>2, <2>3, <2>4, LatchTyped, SMTT(30) DEF LatchCountsWriters
<1>2. CASE commit(t, n)
  <2>1. /\ locked_drops' = locked_drops /\ active_snapshots' = active_snapshots - 1
        /\ UNCHANGED <<mem, references>>
    BY <1>2 DEF commit, rest_vars, count_vars
  <2>2. status'[n] = "COMMITTED" /\ \A x \in Snapshots \ {n} : status'[x] = status[x]
    BY <1>2 DEF commit, TypeOK
  <2>3. CASE status[n] = "ACTIVE"
    <3>1. n \in Writers
      BY <1>2, <2>3 DEF commit, Writers, ActiveAlone, LiveNodes
    <3>2. Writers' = Writers \ {n} /\ DataLocked' = DataLocked
      BY <2>1, <2>2, <2>3 DEF Writers, DataLocked
    <3>3. Cardinality(Writers \ {n}) = Cardinality(Writers) - 1
      BY <3>1, LatchTyped, CountRemove
    <3> QED
      BY <2>1, <3>2, <3>3, LatchTyped, SMTT(30) DEF LatchCountsWriters
  <2>4. CASE status[n] = "DATA_LOCKED"
    <3>1. n \in DataLocked
      BY <1>2, <2>4 DEF commit, DataLocked
    <3>2. DataLocked' = DataLocked \ {n} /\ Writers' = Writers
      BY <2>1, <2>2, <2>4 DEF Writers, DataLocked
    <3>3. Cardinality(DataLocked \ {n}) = Cardinality(DataLocked) - 1
      BY <3>1, LatchTyped, CountRemove
    <3> QED
      BY <2>1, <3>2, <3>3, LatchTyped, SMTT(30) DEF LatchCountsWriters
  <2> QED
    BY <1>2, <2>3, <2>4 DEF commit
<1>3. CASE lock_data_for_import(t, n)
  <2>1. /\ locked_drops' = locked_drops /\ active_snapshots' = active_snapshots
        /\ UNCHANGED <<mem, references>>
    BY <1>3 DEF lock_data_for_import, rest_vars, count_vars
  <2>2. status'[n] = "DATA_LOCKED" /\ \A x \in Snapshots \ {n} : status'[x] = status[x]
    BY <1>3 DEF lock_data_for_import, TypeOK
  <2>3. n \in Writers /\ n \notin DataLocked
    BY <1>3 DEF lock_data_for_import, Writers, DataLocked, ActiveAlone, LiveNodes
  <2>4. Writers' = Writers \ {n} /\ DataLocked' = DataLocked \cup {n}
    BY <2>1, <2>2, <2>3 DEF Writers, DataLocked
  <2>5. Cardinality(Writers \ {n}) = Cardinality(Writers) - 1
    BY <2>3, LatchTyped, CountRemove
  <2>6. Cardinality(DataLocked \cup {n}) = Cardinality(DataLocked) + 1
    BY <2>3, LatchTyped, CountAdd
  <2> QED
    BY <2>1, <2>4, <2>5, <2>6, LatchTyped, SMTT(30) DEF LatchCountsWriters
<1>4. CASE close(t, n)
  <2>1. UNCHANGED <<mem, status, locked_drops>> /\ Live(n) /\ FreeHandles(n) > 0
    BY <1>4 DEF close, node_vars, rest_vars
  <2>2. /\ references'[n] = references[n] - 1
        /\ \A x \in Snapshots \ {n} : references'[x] = references[x]
    BY <1>4 DEF close, TypeOK
  <2>3. CASE status[n] = "ACTIVE"
    <3>1. references[n] = 1
      <4>1. handles[n] > 0
        BY <2>1, FreeIsOpen
      <4>2. references[n] = handles[n] /\ handles[n] \in {0, 1}
        BY <2>1, <2>3 DEF ActiveAlone, LiveNodes
      <4> QED
        BY <4>1, <4>2, SMTT(30)
    <3>2. n \in Writers
      <4>1. references[n] > 0
        BY <3>1, SMTT(30)
      <4> QED
        BY <2>1, <2>3, <4>1 DEF Writers
    <3>3. active_snapshots' = active_snapshots - 1
      <4>1. active_snapshots' = active_snapshots -
                (IF references[n] = 1 /\ status[n] = "ACTIVE" THEN 1 ELSE 0)
        BY <1>4 DEF close
      <4> QED
        BY <2>3, <3>1, <4>1
    <3>4. Writers' = Writers \ {n} /\ DataLocked' = DataLocked
      <4>1. ~(references'[n] > 0)
        BY <2>2, <3>1, SMTT(30)
      <4> QED
        BY <2>1, <2>2, <2>3, <4>1 DEF Writers, DataLocked
    <3>5. Cardinality(Writers \ {n}) = Cardinality(Writers) - 1
      BY <3>2, LatchTyped, CountRemove
    <3> QED
      BY <2>1, <3>3, <3>4, <3>5, LatchTyped, SMTT(30) DEF LatchCountsWriters
  <2>4. CASE status[n] # "ACTIVE"
    <3>1. active_snapshots' = active_snapshots
      BY <1>4, <2>4, SMTT(30) DEF close, TypeOK
    <3>2. UNCHANGED <<Writers, DataLocked>>
      BY <2>1, <2>2, <2>4 DEF Writers, DataLocked
    <3> QED
      BY <2>1, <3>1, <3>2, LatchSame
  <2> QED
    BY <2>3, <2>4
<1> QED
  BY <1>1, <1>2, <1>3, <1>4

\* Nothing is active after a restart.
LEMMA LatchRestart ==
  ASSUME Restart, DataLocked' = {}
  PROVE  LatchCountsWriters'
<1>1. Writers' = {}
  BY SMTT(30) DEF Restart, Writers
<1> QED
  BY <1>1, FS_EmptySet, SMTT(30) DEF Restart, LatchCountsWriters

\* Every step moves the latch by as much as the sets it counts.
LEMMA LatchStep ==
  ASSUME TypeOK, ActiveAlone, PlaceKnown, TodoLive, DropsKept, HeadsCommitted,
         CommittedHasData, LatchCountsWriters, FileOK, [Next]_vars
  PROVE  LatchCountsWriters'
<1> USE DEF Live
<1>1. CASE UNCHANGED <<mem, status, references, locked_drops, active_snapshots>>
  <2>1. UNCHANGED <<Writers, DataLocked>>
    BY <1>1 DEF Writers, DataLocked
  <2> QED
    BY <1>1, <2>1, LatchSame
<1>2. ASSUME NEW t \in Threads, Continue(t) PROVE LatchCountsWriters'
  <2>1. CASE drop(t)
    BY <2>1, LatchDrop
  <2>2. CASE forget_snapshot(t)
    <3>1. PICK n \in Snapshots : n = pc[t].node
      BY <2>2 DEF forget_snapshot, PlaceKnown, PlaceOf, Holding
    <3>2. Live(n) /\ status[n] = "ACTIVE" /\ references[n] = 0
      BY <2>2, <3>1
         DEF forget_snapshot, PlaceKnown, PlaceOf, ActiveAlone, LiveNodes
    <3>3. /\ mem'[n] = "freed"
          /\ \A x \in Snapshots \ {n} : mem'[x] = mem[x] /\ status'[x] = status[x]
      BY <2>2, <3>1 DEF forget_snapshot, Delete, TypeOK
    <3>4. UNCHANGED <<references, locked_drops, active_snapshots>>
      BY <2>2 DEF forget_snapshot, count_vars, rest_vars
    <3>5. ~(references[n] > 0)
      BY <3>2, SMTT(30)
    <3>6. UNCHANGED <<Writers, DataLocked>>
      <4>1. n \notin Writers /\ n \notin DataLocked /\ n \notin Writers' /\ n \notin DataLocked'
        BY <3>2, <3>3, <3>5 DEF Writers, DataLocked
      <4>2. \A x \in Snapshots \ {n} : /\ x \in Writers <=> x \in Writers'
                                       /\ x \in DataLocked <=> x \in DataLocked'
        BY <3>3, <3>4 DEF Writers, DataLocked
      <4> QED
        BY <4>1, <4>2 DEF Writers, DataLocked
    <3> QED
      BY <3>4, <3>6, LatchSame
  <2>3. CASE master_open(t)
    <3>1. PICK n \in Snapshots : n = pc[t].node
      BY <2>3 DEF master_open, PlaceKnown, PlaceOf, Holding
    <3>2. CASE master # n
      BY <1>1, <2>3, <3>1, <3>2 DEF master_open, Fail, node_vars, count_vars
    <3>3. CASE master = n
      <4>1. status[n] # "ACTIVE"
        BY <2>3, <3>1, <3>3, HeadNotActive DEF master_open, LiveNodes, Heads
      <4>2. /\ Open(t, n, {references[n] + 1})
            /\ UNCHANGED <<mem, status, locked_drops, active_snapshots>>
        BY <2>3, <3>1, <3>3 DEF master_open, node_vars
      <4> QED
        BY <4>1, <4>2, LatchOpen
    <3> QED
      BY <3>2, <3>3
  <2>4. CASE parent_open(t)
    <3>1. PICK n \in Snapshots : n = pc[t].node
      BY <2>4 DEF parent_open, PlaceKnown, PlaceOf, Holding
    <3>2. status[n] # "ACTIVE"
      BY <2>4, <3>1 DEF parent_open, PlaceKnown, PlaceOf
    <3>3. UNCHANGED <<mem, status, locked_drops, active_snapshots>>
      BY <2>4 DEF parent_open, node_vars
    <3>4. PICK counts : Open(t, n, counts)
      BY <2>4, <3>1 DEF parent_open
    <3> QED
      BY <3>2, <3>3, <3>4, LatchOpen
  <2>5. ASSUME NEW n \in LiveNodes, RemovalStep(n) PROVE LatchCountsWriters'
    <3>1. status[n] \notin {"COMMITTED", "DATA_LOCKED"} /\ references[n] = 0
      BY <2>5, RemovedNotCommitted DEF RemovalStep, Removable
    <3>2. UNCHANGED <<references, locked_drops, active_snapshots>>
      BY <2>5 DEF RemovalStep, count_vars
    <3>3. /\ mem'[n] = "freed" \/ UNCHANGED <<mem, status>>
          /\ \A x \in Snapshots \ {n} : mem'[x] = mem[x] /\ status'[x] = status[x]
      BY <2>5, RemovalEffect, SMTT(30) DEF TypeOK
    <3>4. UNCHANGED <<Writers, DataLocked>>
      <4>1. n \notin Writers /\ n \notin DataLocked
        BY <3>1, SMTT(30) DEF Writers, DataLocked
      <4>2. n \notin Writers' /\ n \notin DataLocked'
        BY <3>1, <3>2, <3>3, SMTT(30) DEF Writers, DataLocked
      <4> QED
        BY <3>2, <3>3, <4>1, <4>2 DEF Writers, DataLocked
    <3> QED
      BY <3>2, <3>4, LatchSame
  <2>6. CASE (\E n \in Snapshots : do_pack(t, n)) \/ (\E b \in Names : do_pack_name(t, b))
    <3>1. UNCHANGED <<references, locked_drops, active_snapshots>>
      BY <2>6 DEF do_pack, do_pack_name, count_vars, rest_vars
    <3>2. UNCHANGED <<mem, status>> \/ \E n \in LiveNodes : RemovalStep(n)
      BY <2>6 DEF do_pack, do_pack_name, RemovalStep, node_vars, TodoLive, rest_vars
    <3> QED
      BY <1>1, <2>5, <3>1, <3>2
  <2>7. CASE \/ close_drop1(t) \/ pack_end(t) \/ do_store(t) \/ store_timeout(t)
             \/ write_image(t) \/ use_freed(t)
    <3>1. UNCHANGED <<mem, status, references, locked_drops, active_snapshots>>
      BY <2>7 DEF close_drop1, pack_end, do_store, store_timeout, write_image,
                  use_freed, Fail, node_vars, count_vars, rest_vars
    <3> QED
      BY <1>1, <3>1
  <2>8. CASE close_drop2(t)
    <3>1. UNCHANGED <<mem, status, references, locked_drops, active_snapshots>>
      BY <2>8 DEF close_drop2, Fail, node_vars, count_vars, rest_vars
    <3> QED
      BY <1>1, <3>1
  <2> QED
    BY <1>2, <2>1, <2>2, <2>3, <2>4, <2>6, <2>7, <2>8 DEF Continue
<1>3. ASSUME NEW t \in Threads, Begin(t) PROVE LatchCountsWriters'
  <2>1. ASSUME NEW n \in Snapshots,
               \/ branch(t, n) \/ commit(t, n) \/ lock_data_for_import(t, n) \/ close(t, n)
        PROVE  LatchCountsWriters'
    BY <2>1, LatchBegin
  <2>2. ASSUME NEW n \in Snapshots, find(t, n) PROVE LatchCountsWriters'
    BY <2>2, LatchOpen DEF find, node_vars
  <2>3. ASSUME NEW b \in Names, find_branch(t, b) PROVE LatchCountsWriters'
    <3>1. PICK n \in Snapshots : n = named_branches[b]
      BY <2>3 DEF find_branch, TypeOK
    <3>2. /\ Open(t, n, {references[n] + 1}) /\ status[n] # "ACTIVE"
          /\ UNCHANGED <<mem, status, locked_drops, active_snapshots>>
      BY <2>3, <3>1 DEF find_branch, node_vars
    <3> QED
      BY <3>2, LatchOpen
  <2>4. ASSUME NEW n \in Snapshots,
               drop_call(t, n) \/ parent_read(t, n) \/ set_master(t, n)
        PROVE  LatchCountsWriters'
    BY <1>1, <2>4
       DEF drop_call, parent_read, set_master, node_vars, count_vars, rest_vars
  <2>5. ASSUME NEW n \in Snapshots, NEW b \in Names,
               set_branch(t, b, n) \/ remove_named_branch(t, b)
        PROVE  LatchCountsWriters'
    BY <1>1, <2>5
       DEF set_branch, remove_named_branch, node_vars, count_vars, rest_vars
  <2>6. CASE memory_stat(t)
    BY <1>1, <2>6 DEF memory_stat, Fail, node_vars, count_vars, rest_vars
  <2>7. CASE \/ master_read(t) \/ pack(t) \/ linear_history(t)
             \/ \E how \in {"wait", "timed_wait"} : store(t, how)
    BY <1>1, <2>7 DEF master_read, pack, linear_history, store, node_vars, count_vars,
                      rest_vars
  <2> QED
    BY <1>3, <2>1, <2>2, <2>3, <2>4, <2>5, <2>6, <2>7, RootAssumption DEF Begin
<1>4. ASSUME NEW t \in Threads, load(t) PROVE LatchCountsWriters'
  <2>1. DataLocked' = {}
    BY <1>4 DEF load, DataLocked, FileOK
  <2> QED
    BY <1>4, <2>1, LatchRestart DEF load
<1>5. CASE create
  <2>1. DataLocked' = {}
    BY <1>5 DEF create, DataLocked
  <2> QED
    BY <1>5, <2>1, LatchRestart DEF create
<1>6. CASE UNCHANGED vars
  BY <1>1, <1>6 DEF vars, node_vars, count_vars, rest_vars
<1> QED
  BY <1>2, <1>3, <1>4, <1>5, <1>6 DEF Next

-----------------------------------------------------------------------------
\* The latch stays at zero while the image is written.

\* A latch at zero: no writers, no locked snapshots.
LEMMA ZeroMeansNone ==
  ASSUME TypeOK, LatchCountsWriters, active_snapshots = 0
  PROVE  Writers = {} /\ DataLocked = {} /\ locked_drops = {}
<1>1. /\ Cardinality(Writers) = 0 /\ Cardinality(DataLocked) = 0
      /\ Cardinality(locked_drops) = 0
  BY LatchTyped, SMTT(30) DEF LatchCountsWriters
<1>2. IsFiniteSet(Writers)
  BY LatchTyped, CountNat
<1>3. IsFiniteSet(DataLocked)
  BY LatchTyped, CountNat
<1>4. IsFiniteSet(locked_drops)
  BY LatchTyped, CountNat
<1> QED
  BY <1>1, <1>2, <1>3, <1>4, FS_EmptySet

\* A call that moves to a place other than "write" does not start storing.
LEMMA MoveStoring ==
  ASSUME TypeOK, NEW t \in Threads, NEW where, NEW node, NEW self, NEW seen,
         Goto(t, At(where, node, self, seen, "idle")), where # "write", Storing'
  PROVE  Storing
<1>1. \A u \in Threads \ {t} : pc'[u] = pc[u]
  BY DEF Goto, TypeOK
<1>2. pc'[t].at # "write" /\ pc'[t].then # "write"
  BY DEF Goto, TypeOK, At
<1> QED
  BY <1>1, <1>2 DEF Storing

\* Only do_store starts the packing that ends in a written image.
LEMMA StoringStarts ==
  ASSUME TypeOK, [Next]_vars, Storing', ~Storing
  PROVE  \E t \in Threads : do_store(t)
<1>1. pc' # pc
  BY DEF Storing
<1>2. ASSUME NEW t \in Threads, Continue(t) PROVE do_store(t)
  <2>1. ASSUME Goto(t, IdleAt) PROVE FALSE
    BY <2>1, MoveStoring DEF IdleAt
  <2>2. CASE drop(t) \/ forget_snapshot(t) \/ parent_open(t) \/ store_timeout(t) \/ write_image(t)
    BY <2>1, <2>2 DEF drop, forget_snapshot, parent_open, store_timeout, write_image
  <2>3. CASE close_drop2(t) \/ master_open(t)
    <3>1. Goto(t, IdleAt) \/ pc' = pc
      BY <2>3 DEF close_drop2, master_open, Fail
    <3> QED
      BY <1>1, <2>1, <3>1
  <2>4. CASE close_drop1(t)
    <3>1. Goto(t, At("forget", pc[t].node, NoNode, 0, "idle"))
      BY <2>4 DEF close_drop1
    <3> QED
      BY <3>1, MoveStoring
  <2>5. CASE (\E n \in Snapshots : do_pack(t, n)) \/ (\E b \in Names : do_pack_name(t, b))
    BY <1>1, <2>5 DEF do_pack, do_pack_name
  <2>6. CASE pack_end(t)
    <3>1. Goto(t, IdleAt) \/ pc[t].then = "write"
      BY <2>6 DEF pack_end
    <3> QED
      BY <2>1, <3>1 DEF Storing
  <2>7. CASE use_freed(t)
    BY <1>1, <2>7 DEF use_freed, Fail
  <2> QED
    BY <1>2, <2>2, <2>3, <2>4, <2>5, <2>6, <2>7 DEF Continue
<1>3. ASSUME NEW t \in Threads, Begin(t) PROVE FALSE
  <2>1. ASSUME NEW n \in Snapshots, drop_call(t, n) PROVE FALSE
    BY <2>1, MoveStoring DEF drop_call
  <2>2. ASSUME NEW n \in Snapshots, close(t, n) PROVE FALSE
    <3>1. \/ Goto(t, At("drop1", n, NoNode, 0, "idle"))
          \/ Goto(t, At("drop2", n, NoNode, 0, "idle"))
          \/ Goto(t, At("idle", NoNode, NoNode, 0, "idle"))
      BY <2>2 DEF close, IdleAt
    <3> QED
      BY <3>1, MoveStoring
  <2>3. ASSUME NEW n \in Snapshots, parent_read(t, n) PROVE FALSE
    <3>1. Goto(t, At("parent", parent[n], n, references[parent[n]], "idle"))
      BY <2>3 DEF parent_read
    <3> QED
      BY <3>1, MoveStoring
  <2>4. CASE master_read(t)
    BY <2>4, MoveStoring DEF master_read
  <2>5. CASE pack(t)
    BY <2>5, MoveStoring DEF pack, StartPack
  <2>6. CASE \E how \in {"wait", "timed_wait"} : store(t, how)
    BY <2>6, MoveStoring DEF store
  <2>7. ASSUME NEW n \in Snapshots,
               \/ branch(t, n) \/ commit(t, n) \/ lock_data_for_import(t, n)
               \/ find(t, n) \/ set_master(t, n) \/ \E b \in Names : set_branch(t, b, n)
        PROVE  FALSE
    BY <1>1, <2>7
       DEF branch, commit, lock_data_for_import, find, set_master, set_branch
  <2>8. ASSUME NEW b \in Names, find_branch(t, b) \/ remove_named_branch(t, b)
        PROVE  FALSE
    BY <1>1, <2>8 DEF find_branch, remove_named_branch
  <2>9. CASE memory_stat(t) \/ linear_history(t)
    BY <1>1, <2>9 DEF memory_stat, linear_history, Fail
  <2> QED
    BY <1>3, <2>1, <2>2, <2>3, <2>4, <2>5, <2>6, <2>7, <2>8, <2>9 DEF Begin
<1>4. ASSUME NEW t \in Threads, load(t) PROVE FALSE
  BY <1>4 DEF load, Storing, IdleAt, At
<1>5. CASE create
  BY <1>5 DEF create, Storing, IdleAt, At
<1>6. CASE UNCHANGED vars
  BY <1>1, <1>6 DEF vars
<1> QED
  BY <1>2, <1>3, <1>4, <1>5, <1>6 DEF Next

\* A thread that stores owns mutex_, so nobody else can take it.
LEMMA StoringLocks ==
  ASSUME LocksHeld, Storing, NEW t \in Threads, Idle(t)
  PROVE  ~CanLock(t)
<1>1. PICK u \in Threads : pc[u].at = "write" \/ pc[u].then = "write"
  BY DEF Storing
<1>2. mutex = u /\ u # t
  BY <1>1 DEF LocksHeld, Idle
<1> QED
  BY <1>2, NoThreadAssumption DEF CanLock

\* Closing a snapshot that is not active leaves the latch alone.
LEMMA CloseStill ==
  ASSUME TypeOK, NEW t \in Threads, NEW n \in Snapshots, close(t, n), status[n] # "ACTIVE"
  PROVE  active_snapshots' = active_snapshots
  BY SMTT(30) DEF close, TypeOK

\* While an image is being written no step moves the latch.
LEMMA StoringStill ==
  ASSUME TypeOK, LocksHeld, ActiveAlone, PlaceKnown, LatchCountsWriters, Storing,
         active_snapshots = 0, [Next]_vars
  PROVE  active_snapshots' = 0
<1>1. Writers = {} /\ DataLocked = {}
  BY ZeroMeansNone
<1>2. ASSUME NEW t \in Threads, Continue(t) PROVE active_snapshots' = 0
  <2>1. CASE drop(t)
    <3>1. PICK n \in Snapshots : n = pc[t].node
      BY <2>1 DEF drop, PlaceKnown, PlaceOf, Holding
    <3>2. status[n] # "ACTIVE"
      <4> SUFFICES ASSUME status[n] = "ACTIVE" PROVE FALSE
        OBVIOUS
      <4>1. n \in LiveNodes /\ pc[t].self = n
        BY <2>1, <3>1 DEF drop, PlaceKnown, PlaceOf, LiveNodes
      <4>2. references[n] = 1
        BY <4>1 DEF ActiveAlone
      <4> QED
        BY <1>1, <4>1, <4>2, SMTT(30) DEF Writers, LiveNodes
    <3>3. \/ UNCHANGED active_snapshots
          \/ active_snapshots' = active_snapshots -
                 (IF status[n] = "ACTIVE" THEN 1 ELSE 0)
      BY <2>1, <3>1 DEF drop
    <3> QED
      BY <3>2, <3>3, SMTT(30)
  <2>2. CASE \/ close_drop1(t) \/ forget_snapshot(t) \/ parent_open(t) \/ pack_end(t)
             \/ do_store(t) \/ store_timeout(t) \/ write_image(t) \/ use_freed(t)
    BY <2>2 DEF close_drop1, forget_snapshot, parent_open, pack_end, do_store,
                store_timeout, write_image, use_freed, Fail
  <2>3. CASE close_drop2(t) \/ master_open(t)
    BY <2>3 DEF close_drop2, master_open, Fail
  <2>4. CASE (\E n \in Snapshots : do_pack(t, n)) \/ (\E b \in Names : do_pack_name(t, b))
    <3>1. UNCHANGED active_snapshots
      BY <2>4 DEF do_pack, do_pack_name
    <3> QED
      BY <3>1
  <2> QED
    BY <1>2, <2>1, <2>2, <2>3, <2>4 DEF Continue
<1>3. ASSUME NEW t \in Threads, Begin(t) PROVE active_snapshots' = 0
  <2>1. ASSUME NEW n \in Snapshots, branch(t, n) PROVE FALSE
    BY <2>1, StoringLocks DEF branch
  <2>2. ASSUME NEW n \in Snapshots, commit(t, n) PROVE FALSE
    BY <1>1, <2>2 DEF commit, Writers, DataLocked, ActiveAlone, LiveNodes, Live
  <2>3. ASSUME NEW n \in Snapshots, close(t, n) PROVE active_snapshots' = 0
    <3>1. status[n] # "ACTIVE"
      BY <1>1, <2>3, FreeIsOpen DEF close, Writers, ActiveAlone, LiveNodes, Live
    <3>2. UNCHANGED active_snapshots
      BY <2>3, <3>1, CloseStill
    <3> QED
      BY <3>2
  <2>4. ASSUME NEW n \in Snapshots,
               \/ lock_data_for_import(t, n) \/ drop_call(t, n) \/ find(t, n)
               \/ parent_read(t, n) \/ set_master(t, n)
               \/ \E b \in Names : set_branch(t, b, n)
        PROVE  active_snapshots' = 0
    <3>1. UNCHANGED active_snapshots
      BY <2>4
         DEF lock_data_for_import, drop_call, find, parent_read, set_master, set_branch
    <3> QED
      BY <3>1
  <2>5. ASSUME NEW b \in Names, find_branch(t, b) \/ remove_named_branch(t, b)
        PROVE  active_snapshots' = 0
    BY <2>5 DEF find_branch, remove_named_branch
  <2>6. CASE \/ master_read(t) \/ pack(t) \/ memory_stat(t) \/ linear_history(t)
             \/ \E how \in {"wait", "timed_wait"} : store(t, how)
    BY <2>6 DEF master_read, pack, memory_stat, linear_history, store, Fail
  <2> QED
    BY <1>3, <2>1, <2>2, <2>3, <2>4, <2>5, <2>6 DEF Begin
<1>4. ASSUME NEW t \in Threads, load(t) PROVE active_snapshots' = 0
  BY <1>4 DEF load, Restart
<1>5. CASE create
  BY <1>5 DEF create, Restart
<1>6. CASE UNCHANGED vars
  BY <1>6 DEF vars
<1> QED
  BY <1>2, <1>3, <1>4, <1>5, <1>6 DEF Next

\* The latch seen at zero stays there until the image is written.
LEMMA StaysStep ==
  ASSUME TypeOK, LocksHeld, ActiveAlone, PlaceKnown, LatchCountsWriters, LatchStays,
         [Next]_vars
  PROVE  LatchStays'
<1>1. CASE Storing
  BY <1>1, StoringStill DEF LatchStays
<1>2. CASE ~Storing
  <2>1. Storing' => \E t \in Threads : do_store(t)
    BY <1>2, StoringStarts
  <2>2. Storing' => active_snapshots' = 0
    BY <2>1 DEF do_store
  <2> QED
    BY <2>2 DEF LatchStays
<1> QED
  BY <1>1, <1>2

====
