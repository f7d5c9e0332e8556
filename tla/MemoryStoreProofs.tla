---- MODULE MemoryStoreProofs ----
(***************************************************************************)
(* Proofs about MemoryStore, for any number of snapshots, names, threads,  *)
(* handles and lost updates.  IInv is the inductive invariant; each of its *)
(* conjuncts is preserved by a lemma of its own.                           *)
(***************************************************************************)
EXTENDS MemoryStoreHeads

\* The prover of the leaves that name none, and its time limit.
USE ZenonT(60)

\* The file holds a complete image, or none.

\* The steps that touch the file.
LEMMA FileSteps ==
  ASSUME [Next]_vars
  PROVE  \/ file' = file
         \/ \E t \in Threads : do_store(t) \/ write_image(t)
<1> USE DEF node_vars, count_vars, head_vars, lock_vars, pack_vars, rest_vars
<1>1. ASSUME NEW t \in Threads, Continue(t)
      PROVE  file' = file \/ do_store(t) \/ write_image(t)
  <2>1. CASE \/ drop(t) \/ close_drop1(t) \/ forget_snapshot(t) \/ parent_open(t)
             \/ pack_end(t) \/ store_timeout(t) \/ use_freed(t)
    BY <2>1
       DEF drop, close_drop1, forget_snapshot, parent_open, pack_end, store_timeout,
                use_freed, Fail
  <2>2. CASE close_drop2(t) \/ master_open(t)
    BY <2>2 DEF close_drop2, master_open, Fail
  <2>3. CASE (\E n \in Snapshots : do_pack(t, n)) \/ (\E b \in Names : do_pack_name(t, b))
    BY <2>3 DEF do_pack, do_pack_name
  <2> QED
    BY <1>1, <2>1, <2>2, <2>3 DEF Continue
<1>2. ASSUME NEW t \in Threads, Begin(t) PROVE file' = file
  <2>1. ASSUME NEW n \in Snapshots,
               \/ branch(t, n) \/ commit(t, n) \/ lock_data_for_import(t, n)
               \/ drop_call(t, n) \/ close(t, n)
        PROVE  file' = file
    BY <2>1 DEF branch, commit, lock_data_for_import, drop_call, close
  <2>2. ASSUME NEW n \in Snapshots,
               \/ find(t, n) \/ parent_read(t, n) \/ set_master(t, n)
               \/ \E b \in Names : set_branch(t, b, n)
        PROVE  file' = file
    BY <2>2 DEF find, parent_read, set_master, set_branch
  <2>3. ASSUME NEW b \in Names, find_branch(t, b) \/ remove_named_branch(t, b)
        PROVE  file' = file
    BY <2>3 DEF find_branch, remove_named_branch
  <2>4. CASE \/ master_read(t) \/ pack(t) \/ memory_stat(t) \/ linear_history(t)
             \/ \E how \in {"wait", "timed_wait"} : store(t, how)
    BY <2>4 DEF master_read, pack, memory_stat, linear_history, store, Fail
  <2> QED
    BY <1>2, <2>1, <2>2, <2>3, <2>4 DEF Begin
<1>3. ASSUME NEW t \in Threads, load(t) PROVE file' = file
  BY <1>3 DEF load, Restart
<1>4. CASE create
  BY <1>4 DEF create, Restart
<1>5. CASE UNCHANGED vars
  BY <1>5 DEF vars
<1> QED
  BY <1>1, <1>2, <1>3, <1>4, <1>5 DEF Next

\* What write_image writes.
LEMMA ImageWritten ==
  ASSUME TypeOK, HistoryIsTree, RootKept, ActiveAlone, HeadsCommitted, CommittedHasData,
         Writers = {}, DataLocked = {}, locked_drops = {}, file' = Image
  PROVE  FileOK' /\ ImageIsComplete'
<1> USE DEF Live
<1>1. /\ file'.kind = "image" /\ file'.nodes = LiveNodes
      /\ file'.status = [n \in LiveNodes |-> status[n]]
      /\ file'.parent = [n \in LiveNodes |-> parent[n]]
      /\ file'.children = [n \in LiveNodes |-> children[n]]
      /\ file'.root = LiveNodes \cap root
      /\ file'.named = named_branches /\ file'.master = master
  BY DEF Image
<1>2. LiveNodes \subseteq Snapshots /\ Root \in LiveNodes
  BY DEF LiveNodes, HistoryIsTree, IsTree
<1>3. file'.status \in [file'.nodes -> Statuses \ {"DATA_LOCKED"}]
  BY <1>1 DEF LiveNodes, DataLocked, TypeOK
<1>4. file'.status[Root] = "COMMITTED"
  BY <1>1, <1>2 DEF RootKept
<1>5. \A n \in file'.nodes : file'.status[n] = "ACTIVE" => file'.children[n] = {}
  BY <1>1, SMTT(30) DEF ActiveAlone
<1>6. FileOK'
  <2>1. /\ file'.parent \in [file'.nodes -> Snapshots \cup {NoNode}]
        /\ file'.children \in [file'.nodes -> SUBSET Snapshots]
    BY <1>1, <1>2 DEF TypeOK
  <2>2. /\ file'.named \in [Names -> Snapshots \cup {NoNode}]
        /\ file'.master \in Snapshots /\ file'.root \subseteq file'.nodes
    BY <1>1 DEF TypeOK
  <2> QED
    BY <1>1, <1>2, <1>3, <1>4, <1>5, <2>1, <2>2 DEF FileOK
<1>7. IsTree(file'.nodes, file'.parent, file'.children)
  <2> DEFINE up == [n \in LiveNodes |-> parent[n]]
             down == [n \in LiveNodes |-> children[n]]
  <2>1. \A n \in LiveNodes : up[n] = parent[n] /\ down[n] = children[n]
    OBVIOUS
  <2> HIDE DEF up, down
  <2>2. Root \in LiveNodes /\ up[Root] = NoNode
    BY <1>2, <2>1 DEF HistoryIsTree, IsTree
  <2>3. \A n \in LiveNodes \ {Root} : up[n] \in LiveNodes /\ n \in down[up[n]]
    BY <2>1 DEF HistoryIsTree, IsTree
  <2>4. \A n \in LiveNodes : \A c \in down[n] : c \in LiveNodes /\ up[c] = n
    BY <2>1 DEF HistoryIsTree, IsTree
  <2>5. ASSUME NEW S \in SUBSET LiveNodes, S # {},
               \A n \in S : up[n] # NoNode => up[n] \in S
        PROVE  Root \in S
    <3>1. \A n \in S : parent[n] # NoNode => parent[n] \in S
      BY <2>1, <2>5
    <3> QED
      BY <2>5, <3>1 DEF HistoryIsTree, IsTree
  <2>6. IsTree(LiveNodes, up, down)
    BY <2>2, <2>3, <2>4, <2>5 DEF IsTree
  <2> QED
    BY <1>1, <2>6 DEF up, down
<1>8. \A n \in file'.nodes : file'.status[n] = "COMMITTED" => n \in file'.root
  BY <1>1, <1>2 DEF CommittedHasData, LiveNodes
<1>9. \A n \in {file'.master} \cup ({file'.named[b] : b \in Names} \ {NoNode}) :
          n \in file'.nodes /\ file'.status[n] = "COMMITTED"
  <2>1. {file'.master} \cup ({file'.named[b] : b \in Names} \ {NoNode}) = Heads
    BY <1>1, SMTT(30) DEF Heads
  <2>2. Heads \subseteq Snapshots
    BY SMTT(30) DEF Heads, TypeOK
  <2>3. \A n \in Heads : Live(n) /\ status[n] = "COMMITTED"
    BY <2>2 DEF HeadsCommitted, DataLocked
  <2>4. file'.nodes = LiveNodes /\ \A n \in LiveNodes : file'.status[n] = status[n]
    BY <1>1
  <2>5. \A n \in Heads : n \in LiveNodes /\ status[n] = "COMMITTED"
    BY <2>2, <2>3 DEF LiveNodes
  <2> QED
    BY <2>1, <2>4, <2>5
<1> QED
  BY <1>6, <1>7, <1>8, <1>9 DEF ImageIsComplete, IsTree

\* Every step leaves a complete image, a torn one or none.
LEMMA FileStep ==
  ASSUME TypeOK, HistoryIsTree, RootKept, ActiveAlone, HeadsCommitted, CommittedHasData,
         LatchCountsWriters, LatchStays, FileOK, ImageIsComplete, [Next]_vars
  PROVE  FileOK' /\ ImageIsComplete'
<1>1. CASE file' = file
  BY <1>1, SMTT(30) DEF FileOK, ImageIsComplete, IsTree
<1>2. ASSUME NEW t \in Threads, do_store(t) PROVE FileOK' /\ ImageIsComplete'
  BY <1>2 DEF do_store, FileOK, ImageIsComplete
<1>3. ASSUME NEW t \in Threads, write_image(t) PROVE FileOK' /\ ImageIsComplete'
  <2>1. Writers = {} /\ DataLocked = {} /\ locked_drops = {}
    BY <1>3, ZeroMeansNone DEF LatchStays, Storing, write_image
  <2> QED
    BY <1>3, <2>1, ImageWritten DEF write_image
<1> QED
  BY <1>1, <1>2, <1>3, FileSteps

-----------------------------------------------------------------------------
\* The new store satisfies the invariant, and every step keeps it.

\* The invariant holds of a new store.
LEMMA InitInvariant == Init => IInv
<1> SUFFICES ASSUME Init PROVE IInv
  OBVIOUS
<1> USE RootAssumption, NoNodeAssumption, NoThreadAssumption
<1>1. TypeOK
  BY SMTT(30) DEF Init, TypeOK, PcType, Places, Statuses, Faults, IdleAt, At
<1>2. LiveNodes = {Root}
  BY DEF Init, LiveNodes, Live
<1>3. HistoryIsTree
  BY <1>2, SMTT(30) DEF Init, HistoryIsTree, IsTree
<1>4. RootKept
  BY DEF Init, RootKept
<1>5. \A t \in Threads : pc[t] = IdleAt
  BY DEF Init
<1>6. LocksHeld /\ PlaceKnown /\ ~Storing
  BY <1>5, SMTT(30) DEF LocksHeld, PlaceKnown, PlaceOf, Holding, Storing, IdleAt, At
<1>7. ActiveAlone
  BY <1>2 DEF Init, ActiveAlone
<1>8. TodoLive /\ DropsKept
  BY DEF Init, TodoLive, DropsKept
<1>9. HeadsCommitted
  <2>1. Heads = {Root}
    BY DEF Init, Heads
  <2> QED
    BY <2>1 DEF Init, HeadsCommitted, Live
<1>10. CommittedHasData
  BY DEF Init, CommittedHasData, Live, Writers
<1>11. LatchCountsWriters
  <2>1. Writers = {} /\ DataLocked = {} /\ locked_drops = {} /\ active_snapshots = 0
    BY DEF Init, Writers, DataLocked, Live
  <2> QED
    BY <2>1, FS_EmptySet, SMTT(30) DEF LatchCountsWriters
<1>12. LatchStays
  BY <1>6 DEF LatchStays
<1>13. FileOK /\ ImageIsComplete
  BY DEF Init, FileOK, ImageIsComplete
<1> QED
  BY <1>1, <1>3, <1>4, <1>6, <1>7, <1>8, <1>9, <1>10, <1>11, <1>12, <1>13
     DEF IInv

\* Every step keeps the invariant.
LEMMA NextInvariant == IInv /\ [Next]_vars => IInv'
<1> SUFFICES ASSUME IInv, [Next]_vars PROVE IInv'
  OBVIOUS
<1>0. /\ TypeOK /\ HistoryIsTree /\ RootKept
      /\ LocksHeld /\ ActiveAlone /\ PlaceKnown /\ TodoLive /\ DropsKept
      /\ HeadsCommitted /\ CommittedHasData
      /\ LatchCountsWriters /\ LatchStays
      /\ FileOK /\ ImageIsComplete
  BY DEF IInv
<1>1. TypeOK' /\ HistoryIsTree' /\ RootKept'
  BY <1>0, TypeStep, TreeStep, RootStep
<1>2. LocksHeld' /\ ActiveAlone' /\ PlaceKnown'
  BY <1>0, LocksStep, ActiveStep, PlaceStep
<1>3. TodoLive' /\ DropsKept' /\ HeadsCommitted' /\ CommittedHasData'
  BY <1>0, TodoStep, DropsStep, HeadsStep, DataStep
<1>4. LatchCountsWriters' /\ LatchStays' /\ FileOK' /\ ImageIsComplete'
  BY <1>0, LatchStep, StaysStep, FileStep
<1> QED
  BY <1>1, <1>2, <1>3, <1>4 DEF IInv

\* The inductive invariant holds in every reachable state.
THEOREM Invariant == Spec => []IInv
  BY InitInvariant, NextInvariant, PTL DEF Spec

\* Every variable keeps its type, whatever the clients call in whatever order.
THEOREM TypeCorrect == Spec => []TypeOK
<1>1. IInv => TypeOK
  BY DEF IInv
<1> QED
  BY <1>1, Invariant, PTL

\* branch(), forget_snapshot(), pack() and load() keep the history one tree.
THEOREM HistoryStaysTree == Spec => []HistoryIsTree
<1>1. IInv => HistoryIsTree
  BY DEF IInv
<1> QED
  BY <1>1, Invariant, PTL

\* drop(), commit(), lock_data_for_import(), the destructors and branch() keep the
\* latch active_snapshots_ equal to the number of snapshots it stands for.
THEOREM LatchIsExact == Spec => []LatchCountsWriters
<1>1. IInv => LatchCountsWriters
  BY DEF IInv
<1> QED
  BY <1>1, Invariant, PTL

\* adjust_named_references() always finds a committed ancestor, and pack() never
\* takes a head: heads stay committed snapshots.
THEOREM HeadsStayCommitted == Spec => []HeadsCommitted
<1>1. IInv => HeadsCommitted
  BY DEF IInv
<1> QED
  BY <1>1, Invariant, PTL

\* No destructor, in any interleaving, clears a committed or locked snapshot.
THEOREM CommittedKeepsData == Spec => []CommittedHasData
<1>1. IInv => CommittedHasData
  BY DEF IInv
<1> QED
  BY <1>1, Invariant, PTL

\* store() packs and writes only while no client can write.
THEOREM StoreIsExclusive == Spec => []StoreSeesNoWriter
<1>1. IInv => StoreSeesNoWriter
  BY ZeroMeansNone DEF IInv, LatchStays, StoreSeesNoWriter
<1> QED
  BY <1>1, Invariant, PTL

\* Whatever store() leaves in the file can be loaded whole.
THEOREM StoredImageIsComplete == Spec => []ImageIsComplete
<1>1. IInv => ImageIsComplete
  BY DEF IInv
<1> QED
  BY <1>1, Invariant, PTL

\* Only drop() ends the life of a committed snapshot, and it is final.
THEOREM CommittedSurvives == Spec => CommittedStays
<1>1. IInv /\ [Next]_vars => [CommittedStep]_vars
  <2> SUFFICES ASSUME IInv, [Next]_vars PROVE CommittedStep \/ UNCHANGED vars
    OBVIOUS
  <2> USE DEF Live
  <2>0. TypeOK /\ PlaceKnown /\ TodoLive /\ CommittedHasData
    BY DEF IInv
  <2>1. CASE UNCHANGED <<mem, status>>
    BY <2>1 DEF CommittedStep
  <2>2. ASSUME NEW t \in Threads, NEW n \in Snapshots,
               branch(t, n) \/ commit(t, n) \/ lock_data_for_import(t, n)
        PROVE  CommittedStep
    BY <2>0, <2>2
       DEF branch, commit, lock_data_for_import, TypeOK, CommittedStep
  <2>3. ASSUME NEW t \in Threads, drop(t) PROVE CommittedStep
    <3>1. PICK n \in Snapshots : n = pc[t].node
      BY <2>0, <2>3 DEF drop, PlaceKnown, PlaceOf, Holding
    <3>2. /\ UNCHANGED mem
          /\ UNCHANGED status \/ status' = [status EXCEPT ![n] = "DROPPED"]
      BY <2>3, <3>1 DEF drop, node_vars
    <3> QED
      BY <2>0, <3>2 DEF CommittedStep, TypeOK
  <2>4. ASSUME NEW t \in Threads, forget_snapshot(t) PROVE CommittedStep
    <3>1. PICK n \in Snapshots : n = pc[t].node
      BY <2>0, <2>4 DEF forget_snapshot, PlaceKnown, PlaceOf, Holding
    <3>2. status[n] = "ACTIVE"
      BY <2>0, <2>4, <3>1 DEF forget_snapshot, PlaceKnown, PlaceOf
    <3>3. \A m \in Snapshots \ {n} : mem'[m] = mem[m] /\ status'[m] = status[m]
      BY <2>0, <2>4, <3>1 DEF forget_snapshot, Delete, TypeOK
    <3> QED
      BY <3>2, <3>3 DEF CommittedStep
  <2>5. ASSUME NEW n \in LiveNodes, RemovalStep(n) PROVE CommittedStep
    <3>1. status[n] # "COMMITTED"
      BY <2>0, <2>5, RemovedNotCommitted DEF RemovalStep
    <3>2. /\ mem'[n] = "freed" \/ UNCHANGED <<mem, status>>
          /\ \A m \in Snapshots \ {n} : mem'[m] = mem[m] /\ status'[m] = status[m]
      BY <2>0, <2>5, RemovalEffect, SMTT(30) DEF TypeOK
    <3> QED
      BY <3>1, <3>2 DEF CommittedStep
  <2>6. CASE create \/ \E t \in Threads : load(t)
    BY <2>6 DEF CommittedStep
  <2> QED
    BY <2>0, <2>1, <2>2, <2>3, <2>4, <2>5, <2>6, StatusSteps
<1> QED
  BY <1>1, Invariant, PTL DEF Spec, CommittedStays

-----------------------------------------------------------------------------
\* Handles and counts, as long as parent() has one client.

\* The steps that open or close handles.
LEMMA CountSteps ==
  ASSUME [Next]_vars
  PROVE  \/ UNCHANGED count_vars
         \/ \E t \in Threads, n \in Snapshots : branch(t, n) \/ close(t, n) \/ find(t, n)
         \/ \E t \in Threads, b \in Names : find_branch(t, b)
         \/ \E t \in Threads : master_open(t) \/ parent_open(t) \/ load(t)
         \/ create
<1>1. ASSUME NEW t \in Threads, Continue(t)
      PROVE  UNCHANGED count_vars \/ master_open(t) \/ parent_open(t)
  <2>1. CASE \/ drop(t) \/ close_drop1(t) \/ forget_snapshot(t) \/ pack_end(t)
             \/ store_timeout(t) \/ use_freed(t)
    BY <2>1
       DEF drop, close_drop1, forget_snapshot, pack_end, store_timeout, use_freed, Fail
  <2>2. CASE close_drop2(t) \/ do_store(t) \/ write_image(t)
    BY <2>2 DEF close_drop2, do_store, write_image, Fail
  <2>3. CASE (\E n \in Snapshots : do_pack(t, n)) \/ (\E b \in Names : do_pack_name(t, b))
    BY <2>3 DEF do_pack, do_pack_name
  <2> QED
    BY <1>1, <2>1, <2>2, <2>3 DEF Continue
<1>2. ASSUME NEW t \in Threads, Begin(t)
      PROVE  \/ UNCHANGED count_vars
             \/ \E n \in Snapshots : branch(t, n) \/ close(t, n) \/ find(t, n)
             \/ \E b \in Names : find_branch(t, b)
  <2>1. ASSUME NEW n \in Snapshots,
               \/ commit(t, n) \/ lock_data_for_import(t, n) \/ drop_call(t, n)
               \/ parent_read(t, n) \/ set_master(t, n)
               \/ \E b \in Names : set_branch(t, b, n)
        PROVE  UNCHANGED count_vars
    BY <2>1
       DEF commit, lock_data_for_import, drop_call, parent_read, set_master, set_branch
  <2>2. ASSUME NEW b \in Names, remove_named_branch(t, b) PROVE UNCHANGED count_vars
    BY <2>2 DEF remove_named_branch
  <2>3. CASE \/ master_read(t) \/ pack(t) \/ memory_stat(t) \/ linear_history(t)
             \/ \E how \in {"wait", "timed_wait"} : store(t, how)
    BY <2>3 DEF master_read, pack, memory_stat, linear_history, store, Fail
  <2> QED
    BY <1>2, <2>1, <2>2, <2>3 DEF Begin
<1>3. CASE UNCHANGED vars
  BY <1>3 DEF vars
<1> QED
  BY <1>1, <1>2, <1>3 DEF Next

\* How a thread gets inside master(), parent() or pack(), or to the end of a
\* destructor.
LEMMA PlaceEntered ==
  ASSUME TypeOK, [Next]_vars, NEW u \in Threads,
         pc'[u].at \in {"master", "parent", "drop2", "pack"}, pc'[u] # pc[u]
  PROVE  \/ pc'[u].at = "master" /\ master_read(u)
         \/ pc'[u].at = "parent" /\ \E n \in Snapshots : parent_read(u, n)
         \/ pc'[u].at = "drop2" /\ \E n \in Snapshots : close(u, n)
         \/ pc'[u].at = "pack" /\ (pack(u) \/ do_store(u) \/ load(u))
<1> USE DEF TypeOK, Goto, IdleAt, At, Fail
<1>1. ASSUME NEW t \in Threads, Continue(t)
      PROVE  pc'[u].at = "pack" /\ do_store(u)
  <2>1. CASE drop(t) \/ forget_snapshot(t)
    <3>1. pc' = [pc EXCEPT ![t] = IdleAt]
      BY <2>1 DEF drop, forget_snapshot
    <3> QED
      BY <3>1
  <2>2. CASE close_drop1(t)
    <3>1. PICK n : pc' = [pc EXCEPT ![t] = At("forget", n, NoNode, 0, "idle")]
      BY <2>2 DEF close_drop1
    <3> QED
      BY <3>1
  <2>6. CASE close_drop2(t) \/ master_open(t) \/ parent_open(t)
    <3>1. pc' = pc \/ pc' = [pc EXCEPT ![t] = IdleAt]
      BY <2>6 DEF close_drop2, master_open, parent_open
    <3> QED
      BY <3>1, SMTT(30)
  <2>3. CASE (\E n \in Snapshots : do_pack(t, n)) \/ (\E b \in Names : do_pack_name(t, b))
    BY <2>3 DEF do_pack, do_pack_name
  <2>4. CASE pack_end(t) \/ store_timeout(t) \/ write_image(t) \/ use_freed(t)
    BY <2>4, SMTT(30) DEF pack_end, store_timeout, write_image, use_freed
  <2>5. CASE do_store(t)
    <3>1. pc' = [pc EXCEPT ![t] = At("pack", NoNode, NoNode, 0, "write")]
      BY <2>5 DEF do_store, StartPack
    <3>2. u = t
      BY <3>1
    <3> QED
      BY <2>5, <3>1, <3>2
  <2> QED
    BY <1>1, <2>1, <2>2, <2>3, <2>4, <2>5, <2>6 DEF Continue
<1>2. ASSUME NEW t \in Threads, Begin(t)
      PROVE  \/ pc'[u].at = "master" /\ master_read(u)
             \/ pc'[u].at = "parent" /\ \E n \in Snapshots : parent_read(u, n)
             \/ pc'[u].at = "drop2" /\ \E n \in Snapshots : close(u, n)
             \/ pc'[u].at = "pack" /\ pack(u)
  <2>1. ASSUME NEW n \in Snapshots,
               \/ branch(t, n) \/ commit(t, n) \/ lock_data_for_import(t, n)
               \/ find(t, n) \/ set_master(t, n)
               \/ \E b \in Names : set_branch(t, b, n)
        PROVE  FALSE
    BY <2>1
       DEF branch, commit, lock_data_for_import, find, set_master, set_branch
  <2>2. ASSUME NEW b \in Names, find_branch(t, b) \/ remove_named_branch(t, b)
        PROVE  FALSE
    BY <2>2 DEF find_branch, remove_named_branch
  <2>3. ASSUME NEW n \in Snapshots, drop_call(t, n) PROVE FALSE
    BY <2>3 DEF drop_call
  <2>4. ASSUME NEW n \in Snapshots, close(t, n) PROVE pc'[u].at = "drop2" /\ close(u, n)
    <3>1. \/ pc' = [pc EXCEPT ![t] = At("drop1", n, NoNode, 0, "idle")]
          \/ pc' = [pc EXCEPT ![t] = At("drop2", n, NoNode, 0, "idle")]
          \/ pc' = [pc EXCEPT ![t] = IdleAt]
      BY <2>4 DEF close
    <3>2. u = t
      BY <3>1
    <3> QED
      BY <2>4, <3>1, <3>2, SMTT(30)
  <2>5. ASSUME NEW n \in Snapshots, parent_read(t, n)
        PROVE  pc'[u].at = "parent" /\ parent_read(u, n)
    <3>1. pc' = [pc EXCEPT ![t] = At("parent", parent[n], n, references[parent[n]], "idle")]
      BY <2>5 DEF parent_read
    <3>2. u = t
      BY <3>1
    <3> QED
      BY <2>5, <3>1, <3>2
  <2>6. CASE pack(t)
    <3>1. pc' = [pc EXCEPT ![t] = At("pack", NoNode, NoNode, 0, "idle")]
      BY <2>6 DEF pack, StartPack
    <3>2. u = t
      BY <3>1
    <3> QED
      BY <2>6, <3>1, <3>2
  <2>7. CASE \/ memory_stat(t) \/ linear_history(t)
             \/ \E how \in {"wait", "timed_wait"} : store(t, how)
    <3>1. pc' = pc \/ \E how \in {"wait", "timed_wait"} :
                          pc' = [pc EXCEPT ![t] = At(how, NoNode, NoNode, 0, "idle")]
      BY <2>7 DEF memory_stat, linear_history, store
    <3> QED
      BY <3>1, SMTT(30)
  <2>8. CASE master_read(t)
    <3>1. pc' = [pc EXCEPT ![t] = At("master", master, NoNode, 0, "idle")]
      BY <2>8 DEF master_read
    <3>2. u = t
      BY <3>1
    <3> QED
      BY <2>8, <3>1, <3>2
  <2> QED
    BY <1>2, <2>1, <2>2, <2>3, <2>4, <2>5, <2>6, <2>7, <2>8 DEF Begin
<1>3. ASSUME NEW t \in Threads, load(t) PROVE pc'[u].at = "pack" /\ load(u)
  <2>1. pc'[u].at = IF u = t THEN "pack" ELSE "idle"
    BY <1>3 DEF load
  <2> QED
    BY <1>3, <2>1
<1>4. CASE create
  BY <1>4 DEF create
<1>5. CASE UNCHANGED vars
  BY <1>5 DEF vars
<1> QED
  BY <1>1, <1>2, <1>3, <1>4, <1>5 DEF Next

\* Opening a handle and counting it keeps the count exact.
LEMMA OpenCounts ==
  ASSUME TypeOK, ReferencesCountHandles, NEW t \in Threads, NEW m \in Snapshots,
         Open(t, m, {references[m] + 1}), UNCHANGED mem
  PROVE  ReferencesCountHandles'
<1>1. CASE m \notin root
  BY <1>1 DEF Open, count_vars, ReferencesCountHandles, Live
<1>2. CASE m \in root
  <2>1. /\ handles' = [handles EXCEPT ![m] = @ + 1]
        /\ references' = [references EXCEPT ![m] = references[m] + 1]
    BY <1>2 DEF Open
  <2> QED
    BY <2>1 DEF ReferencesCountHandles, Live, TypeOK
<1> QED
  BY <1>1, <1>2

\* Every step keeps the counts exact, and what parent() has read of them.
LEMMA CountsStep ==
  ASSUME ParentAlone, IInv, ReferencesCountHandles, SeenIsNow, [Next]_vars
  PROVE  ReferencesCountHandles' /\ SeenIsNow'
<1>0. TypeOK /\ PlaceKnown /\ TodoLive
  BY DEF IInv
<1>1. ReferencesCountHandles'
  <2>1. ASSUME NEW t \in Threads, NEW n \in Snapshots, branch(t, n)
        PROVE  ReferencesCountHandles'
    <3>1. PICK c \in Snapshots :
            /\ mem' = [mem EXCEPT ![c] = "live"]
            /\ references' = [references EXCEPT ![c] = 1]
            /\ handles' = [handles EXCEPT ![c] = 1]
      BY <2>1 DEF branch
    <3> QED
      BY <1>0, <3>1 DEF ReferencesCountHandles, Live, TypeOK
  <2>2. ASSUME NEW t \in Threads, NEW n \in Snapshots, close(t, n)
        PROVE  ReferencesCountHandles'
    <3>1. /\ handles' = [handles EXCEPT ![n] = @ - 1]
          /\ references' = [references EXCEPT ![n] = @ - 1]
          /\ UNCHANGED mem
      BY <2>2 DEF close, node_vars
    <3> QED
      BY <1>0, <3>1 DEF ReferencesCountHandles, Live, TypeOK
  <2>3. ASSUME NEW t \in Threads, NEW n \in Snapshots, find(t, n)
        PROVE  ReferencesCountHandles'
    BY <1>0, <2>3, OpenCounts DEF find, node_vars
  <2>4. ASSUME NEW t \in Threads, NEW b \in Names, find_branch(t, b)
        PROVE  ReferencesCountHandles'
    <3>1. PICK n \in Snapshots : n = named_branches[b]
      BY <1>0, <2>4 DEF find_branch, TypeOK
    <3> QED
      BY <1>0, <2>4, <3>1, OpenCounts DEF find_branch, node_vars
  <2>5. CASE UNCHANGED count_vars /\ ~(create \/ \E t \in Threads : load(t))
    <3>1. CASE \E t \in Threads, n \in Snapshots : branch(t, n)
      BY <2>1, <3>1
    <3>2. CASE ~ \E t \in Threads, n \in Snapshots : branch(t, n)
      <4>1. ASSUME NEW n \in Snapshots, mem'[n] = "live" PROVE mem[n] = "live"
        <5>1. ASSUME NEW t \in Threads, NEW m \in Snapshots,
                     commit(t, m) \/ lock_data_for_import(t, m)
              PROVE  UNCHANGED mem
          BY <5>1 DEF commit, lock_data_for_import
        <5>2. ASSUME NEW t \in Threads, drop(t) PROVE UNCHANGED mem
          BY <5>2 DEF drop, node_vars
        <5>3. ASSUME NEW t \in Threads, forget_snapshot(t) PROVE mem[n] = "live"
          BY <1>0, <4>1, <5>3 DEF forget_snapshot, Delete, TypeOK
        <5>4. ASSUME NEW m \in LiveNodes, RemovalStep(m) PROVE mem[n] = "live"
          BY <1>0, <4>1, <5>4, RemovalEffect DEF TypeOK
        <5> QED
          BY <1>0, <2>5, <3>2, <4>1, <5>1, <5>2, <5>3, <5>4, StatusSteps
      <4> QED
        BY <2>5, <4>1 DEF ReferencesCountHandles, Live, count_vars
    <3> QED
      BY <3>1, <3>2
  <2>6. ASSUME NEW t \in Threads, master_open(t)
        PROVE  ReferencesCountHandles'
    <3>1. PICK n \in Snapshots : n = pc[t].node
      BY <1>0, <2>6 DEF master_open, PlaceKnown, PlaceOf, Holding
    <3>2. CASE master # n
      BY <2>6, <3>1, <3>2
         DEF master_open, Fail, ReferencesCountHandles, Live, count_vars, node_vars
    <3>3. CASE master = n
      BY <1>0, <2>6, <3>1, <3>3, OpenCounts DEF master_open, node_vars
    <3> QED
      BY <3>2, <3>3
  <2>7. ASSUME NEW t \in Threads, parent_open(t)
        PROVE  ReferencesCountHandles'
    <3>1. PICK n \in Snapshots : n = pc[t].node
      BY <1>0, <2>7 DEF parent_open, PlaceKnown, PlaceOf, Holding
    <3>2. references[n] = pc[t].seen
      BY <2>7, <3>1 DEF parent_open, SeenIsNow
    <3>3. Open(t, n, {references[n] + 1}) /\ UNCHANGED mem
      BY <2>7, <3>1, <3>2 DEF parent_open, node_vars
    <3> QED
      BY <1>0, <3>3, OpenCounts
  <2>8. CASE create \/ \E t \in Threads : load(t)
    <3>1. Restart
      BY <2>8 DEF create, load
    <3> QED
      BY <3>1 DEF Restart, ReferencesCountHandles
  <2> QED
    BY <2>1, <2>2, <2>3, <2>4, <2>5, <2>6, <2>7, <2>8, CountSteps
<1>2. ASSUME NEW u \in Threads, pc'[u].at = "parent"
      PROVE  OneClient /\ pc'[u].seen = references'[pc'[u].node]
  <2>1. CASE pc'[u] = pc[u]
    <3>1. pc[u].at = "parent" /\ OneClient /\ pc[u].seen = references[pc[u].node]
      BY <1>2, <2>1 DEF SeenIsNow
    <3>2. \A t \in Threads : pc[t].at = "parent" /\ pc'[t].at = "parent"
      BY <1>2, <3>1 DEF OneClient
    <3>3. UNCHANGED count_vars
      <4>1. ASSUME NEW t \in Threads, NEW n \in Snapshots,
                   branch(t, n) \/ close(t, n) \/ find(t, n)
            PROVE  FALSE
        BY <3>2, <4>1 DEF branch, close, find, Idle
      <4>2. ASSUME NEW t \in Threads, NEW b \in Names, find_branch(t, b) PROVE FALSE
        BY <3>2, <4>2 DEF find_branch, Idle
      <4>3. ASSUME NEW t \in Threads, master_open(t) PROVE FALSE
        BY <3>2, <4>3 DEF master_open
      <4>4. ASSUME NEW t \in Threads, parent_open(t) PROVE FALSE
        BY <1>0, <3>2, <4>4 DEF parent_open, Goto, IdleAt, At, TypeOK
      <4>5. ASSUME NEW t \in Threads, load(t) PROVE FALSE
        BY <3>2, <4>5 DEF load, IdleAt, At
      <4>6. ~create
        <5>1. create => pc'[u] = IdleAt
          BY DEF create
        <5> QED
          BY <3>2, <5>1, SMTT(30) DEF IdleAt, At
      <4> QED
        BY <4>1, <4>2, <4>3, <4>4, <4>5, <4>6, CountSteps
    <3> QED
      BY <2>1, <3>1, <3>3 DEF count_vars
  <2>2. CASE pc'[u] # pc[u]
    <3>1. PICK s \in Snapshots : parent_read(u, s)
      BY <1>0, <1>2, <2>2, PlaceEntered
    <3>2. /\ pc' = [pc EXCEPT ![u] = At("parent", parent[s], s, references[parent[s]],
                                         "idle")]
          /\ UNCHANGED references /\ OneClient
      BY <3>1 DEF parent_read, Goto, count_vars, ParentAlone
    <3>3. pc'[u].node = parent[s] /\ pc'[u].seen = references[parent[s]]
      BY <1>0, <3>2 DEF TypeOK, At
    <3> QED
      BY <3>2, <3>3
  <2> QED
    BY <2>1, <2>2
<1>3. SeenIsNow'
  BY <1>2 DEF SeenIsNow, OneClient
<1> QED
  BY <1>1, <1>3

\* The count that decides when data is deleted is the number of open handles, for
\* any number of clients that do not call parent(), and for one that does: handles
\* are counted by their constructors and destructors under a mutex all of them take.
THEOREM CountsAreExact == ParentAlone => (Spec => []ReferencesCountHandles)
<1> SUFFICES ASSUME ParentAlone PROVE Spec => []ReferencesCountHandles
  OBVIOUS
<1> DEFINE J == ReferencesCountHandles /\ SeenIsNow
<1>1. Init => J
  BY SMTT(30) DEF Init, ReferencesCountHandles, SeenIsNow, IdleAt, At
<1>2. IInv /\ J /\ [Next]_vars => J'
  BY CountsStep
<1> HIDE DEF J
<1>3. Spec => []J
  BY <1>1, <1>2, Invariant, PTL DEF Spec
<1>4. J => ReferencesCountHandles
  BY DEF J
<1> QED
  BY <1>3, <1>4, PTL

-----------------------------------------------------------------------------
\* Data under open handles, as long as parent() has one client, and master() too
\* when snapshots are locked.

\* Without lock_data_for_import() nothing is locked, or dropped while locked; and
\* master() is entered by calling it.
LEMMA OnlyCalledStep ==
  ASSUME IInv, OnlyCalled, [Next]_vars PROVE OnlyCalled'
<1>9. ASSUME NEW t \in Threads, pc'[t].at = "master" PROVE "master" \in Calls
  <2>1. TypeOK
    BY DEF IInv
  <2>2. CASE pc'[t] = pc[t]
    BY <1>9, <2>2 DEF OnlyCalled
  <2>3. CASE master_read(t)
    BY <2>3 DEF master_read
  <2> QED
    BY <1>9, <2>1, <2>2, <2>3, PlaceEntered
<1> SUFFICES ASSUME "lock_data" \notin Calls
             PROVE  locked_drops' = {} /\ \A n \in Snapshots : status'[n] # "DATA_LOCKED"
  BY <1>9 DEF OnlyCalled
<1>0. /\ TypeOK /\ PlaceKnown /\ TodoLive /\ FileOK
      /\ locked_drops = {} /\ \A n \in Snapshots : status[n] # "DATA_LOCKED"
  BY DEF IInv, OnlyCalled
<1>1. CASE UNCHANGED <<status, locked_drops>>
  BY <1>0, <1>1
<1>2. ASSUME NEW t \in Threads, NEW n \in Snapshots, branch(t, n) \/ commit(t, n)
      PROVE  locked_drops' = {} /\ \A m \in Snapshots : status'[m] # "DATA_LOCKED"
  <2>1. PICK c \in Snapshots : \/ status' = [status EXCEPT ![c] = "ACTIVE"]
                               \/ status' = [status EXCEPT ![c] = "COMMITTED"]
    BY <1>2 DEF branch, commit
  <2>2. UNCHANGED locked_drops
    BY <1>2 DEF branch, commit, rest_vars
  <2> QED
    BY <1>0, <2>1, <2>2 DEF TypeOK
<1>3. ASSUME NEW t \in Threads, drop(t)
      PROVE  locked_drops' = {} /\ \A m \in Snapshots : status'[m] # "DATA_LOCKED"
  <2>1. PICK n \in Snapshots : n = pc[t].node
    BY <1>0, <1>3 DEF drop, PlaceKnown, PlaceOf, Holding
  <2>2. /\ UNCHANGED status \/ status' = [status EXCEPT ![n] = "DROPPED"]
        /\ UNCHANGED locked_drops
    BY <1>0, <1>3, <2>1 DEF drop, node_vars
  <2> QED
    BY <1>0, <2>2 DEF TypeOK
<1>4. ASSUME NEW t \in Threads, forget_snapshot(t)
      PROVE  locked_drops' = {} /\ \A m \in Snapshots : status'[m] # "DATA_LOCKED"
  <2>1. PICK n \in Snapshots : n = pc[t].node
    BY <1>0, <1>4 DEF forget_snapshot, PlaceKnown, PlaceOf, Holding
  <2>2. status' = [status EXCEPT ![n] = "ACTIVE"] /\ UNCHANGED locked_drops
    BY <1>4, <2>1 DEF forget_snapshot, Delete, rest_vars
  <2> QED
    BY <1>0, <2>2 DEF TypeOK
<1>5. ASSUME NEW n \in LiveNodes, RemovalStep(n)
      PROVE  locked_drops' = {} /\ \A m \in Snapshots : status'[m] # "DATA_LOCKED"
  <2>1. /\ n \in Snapshots /\ UNCHANGED locked_drops
        /\ UNCHANGED status \/ status' = [status EXCEPT ![n] = "ACTIVE"]
    BY <1>0, <1>5, RemovalEffect DEF RemovalStep
  <2> QED
    BY <1>0, <2>1 DEF TypeOK
<1>6. ASSUME NEW t \in Threads, load(t)
      PROVE  locked_drops' = {} /\ \A m \in Snapshots : status'[m] # "DATA_LOCKED"
  <2>1. /\ file.status \in [file.nodes -> Statuses \ {"DATA_LOCKED"}]
        /\ status' = [n \in Snapshots |-> IF n \in file.nodes THEN file.status[n]
                                                              ELSE "ACTIVE"]
        /\ locked_drops' = {}
    BY <1>0, <1>6 DEF load, FileOK, Restart
  <2>2. \A n \in file.nodes : file.status[n] # "DATA_LOCKED"
    BY <2>1
  <2> QED
    BY <2>1, <2>2
<1>7. CASE create
  BY <1>7 DEF create, Restart
<1>8. ASSUME NEW t \in Threads, NEW n \in Snapshots, lock_data_for_import(t, n)
      PROVE  FALSE
  BY <1>8 DEF lock_data_for_import
<1> QED
  BY <1>0, <1>1, <1>2, <1>3, <1>4, <1>5, <1>6, <1>7, <1>8, StatusSteps

\* Where parent(), master() or find() opens a snapshot, no destructor is about to
\* delete its data.
LEMMA OpenedIsKept ==
  ASSUME ParentAlone, MasterAlone, IInv, OnlyCalled, SeenIsNow, NEW t \in Threads,
         NEW n \in Snapshots,
         \/ find(t, n)
         \/ \E b \in Names : n = named_branches[b] /\ find_branch(t, b)
         \/ n = pc[t].node /\ n = master /\ master_open(t)
         \/ n = pc[t].node /\ parent_open(t),
         NEW u \in Threads, pc[u].at = "drop2"
  PROVE  pc[u].node # n
<1>0. TypeOK /\ PlaceKnown /\ HeadsCommitted /\ DropsKept
  BY DEF IInv
<1>1. \/ mem[pc[u].node] = "freed"
      \/ Live(pc[u].node) /\ status[pc[u].node] = "DROPPED"
  BY <1>0 DEF PlaceKnown, PlaceOf
<1>2. CASE find(t, n) \/ \E b \in Names : n = named_branches[b] /\ find_branch(t, b)
  <2>1. mem[n] = "live" /\ status[n] \in {"COMMITTED", "DATA_LOCKED"}
    BY <1>2 DEF find, find_branch, Live
  <2> QED
    BY <1>1, <2>1
<1>3. CASE n = pc[t].node /\ n = master /\ master_open(t)
  <2>1. u # t
    BY <1>3 DEF master_open
  <2>2. ~OneClient /\ (pc[t].at = "master")
    BY <1>3, <2>1 DEF OneClient, master_open
  <2>3. CASE "lock_data" \notin Calls
    <3>1. n \in Heads /\ n \notin locked_drops /\ status[n] # "DATA_LOCKED"
      BY <1>3, <2>3 DEF Heads, OnlyCalled
    <3>2. status[n] = "COMMITTED" /\ mem[n] = "live"
      BY <1>0, <3>1 DEF HeadsCommitted, Live
    <3> QED
      BY <1>1, <3>2
  <2>4. CASE "lock_data" \in Calls
    <3>1. "master" \in Calls
      BY <2>2 DEF OnlyCalled
    <3> QED
      BY <2>2, <2>4, <3>1 DEF MasterAlone
  <2> QED
    BY <2>3, <2>4
<1>4. CASE n = pc[t].node /\ parent_open(t)
  <2>1. pc[t].at = "parent" /\ OneClient
    BY <1>4 DEF parent_open, SeenIsNow
  <2>2. u = t
    BY <2>1 DEF OneClient
  <2> QED
    BY <2>1, <2>2
<1> QED
  BY <1>2, <1>3, <1>4

\* The steps that touch the memory or the data of nodes.
LEMMA DataSteps ==
  ASSUME TodoLive, [Next]_vars
  PROVE  \/ UNCHANGED <<mem, root>>
         \/ \E t \in Threads, n \in Snapshots : branch(t, n)
         \/ \E t \in Threads : \/ close_drop1(t) \/ forget_snapshot(t)
                               \/ close_drop2(t) \/ memory_stat(t) \/ load(t)
         \/ \E n \in LiveNodes : RemovalStep(n)
         \/ create
<1> USE DEF node_vars
<1>1. ASSUME NEW t \in Threads, Continue(t)
      PROVE  \/ UNCHANGED <<mem, root>>
             \/ close_drop1(t) \/ forget_snapshot(t) \/ close_drop2(t)
             \/ \E n \in LiveNodes : RemovalStep(n)
  <2>1. CASE drop(t) \/ master_open(t) \/ parent_open(t)
    BY <2>1 DEF drop, master_open, parent_open, Fail
  <2>2. CASE pack_end(t) \/ do_store(t) \/ store_timeout(t) \/ write_image(t) \/ use_freed(t)
    BY <2>2 DEF pack_end, do_store, store_timeout, write_image, use_freed, Fail
  <2>3. ASSUME NEW n \in Snapshots, do_pack(t, n)
        PROVE  UNCHANGED <<mem, root>> \/ (n \in LiveNodes /\ RemovalStep(n))
    BY <2>3 DEF do_pack, TodoLive, RemovalStep, rest_vars
  <2>4. ASSUME NEW b \in Names, do_pack_name(t, b)
        PROVE  \/ UNCHANGED <<mem, root>>
               \/ named_branches[b] \in LiveNodes /\ RemovalStep(named_branches[b])
    BY <2>4 DEF do_pack_name, RemovalStep, rest_vars
  <2> QED
    BY <1>1, <2>1, <2>2, <2>3, <2>4 DEF Continue
<1>2. ASSUME NEW t \in Threads, Begin(t)
      PROVE  \/ UNCHANGED <<mem, root>> \/ memory_stat(t)
             \/ \E n \in Snapshots : branch(t, n)
  <2>1. ASSUME NEW n \in Snapshots,
               \/ commit(t, n) \/ lock_data_for_import(t, n) \/ drop_call(t, n)
               \/ close(t, n) \/ find(t, n) \/ parent_read(t, n) \/ set_master(t, n)
               \/ \E b \in Names : set_branch(t, b, n)
        PROVE  UNCHANGED <<mem, root>>
    BY <2>1
       DEF commit, lock_data_for_import, drop_call, close, find, parent_read, set_master,
           set_branch
  <2>2. ASSUME NEW b \in Names, find_branch(t, b) \/ remove_named_branch(t, b)
        PROVE  UNCHANGED <<mem, root>>
    BY <2>2 DEF find_branch, remove_named_branch
  <2>3. CASE \/ master_read(t) \/ pack(t) \/ linear_history(t)
             \/ \E how \in {"wait", "timed_wait"} : store(t, how)
    BY <2>3 DEF master_read, pack, linear_history, store
  <2> QED
    BY <1>2, <2>1, <2>2, <2>3 DEF Begin
<1>3. CASE UNCHANGED vars
  BY <1>3 DEF vars
<1> QED
  BY <1>1, <1>2, <1>3 DEF Next

\* What opening a snapshot does to its handles.
LEMMA OpenEffect ==
  ASSUME NEW t, NEW n, NEW counts, Open(t, n, counts)
  PROVE  handles' = handles \/ (n \in root /\ handles' = [handles EXCEPT ![n] = @ + 1])
  BY DEF Open, count_vars

\* A step opens a live snapshot that has its data and that no destructor is about
\* to clear, closes one, makes one, starts afresh, or leaves the handles alone.
LEMMA HandleSteps ==
  ASSUME ParentAlone, MasterAlone, IInv, OnlyCalled, SeenIsNow, [Next]_vars
  PROVE  \/ handles' = handles
         \/ \E n \in root : /\ mem[n] = "live"
                            /\ handles' = [handles EXCEPT ![n] = @ + 1]
                            /\ \A u \in Threads : pc[u].at = "drop2" => pc[u].node # n
         \/ \E t \in Threads, n \in Snapshots : branch(t, n) \/ close(t, n)
         \/ create \/ \E t \in Threads : load(t)
<1> DEFINE Opened(n) == /\ mem[n] = "live"
                        /\ handles' = [handles EXCEPT ![n] = @ + 1]
                        /\ \A u \in Threads : pc[u].at = "drop2" => pc[u].node # n
<1>0. TypeOK /\ PlaceKnown
  BY DEF IInv
<1>1. ASSUME NEW t \in Threads, NEW n \in Snapshots, find(t, n)
      PROVE  handles' = handles \/ (n \in root /\ Opened(n))
  <2>1. \A u \in Threads : pc[u].at = "drop2" => pc[u].node # n
    BY <1>1, OpenedIsKept
  <2>2. mem[n] = "live"
    BY <1>1 DEF find, Live
  <2>3. handles' = handles \/ (n \in root /\ handles' = [handles EXCEPT ![n] = @ + 1])
    BY <1>1, OpenEffect DEF find
  <2> QED
    BY <2>1, <2>2, <2>3
<1>2. ASSUME NEW t \in Threads, NEW b \in Names, find_branch(t, b)
      PROVE  handles' = handles \/ \E n \in root : Opened(n)
  <2>1. PICK n \in Snapshots : n = named_branches[b]
    BY <1>0, <1>2 DEF find_branch, TypeOK
  <2>2. \A u \in Threads : pc[u].at = "drop2" => pc[u].node # n
    BY <1>2, <2>1, OpenedIsKept
  <2>3. mem[n] = "live"
    BY <1>2, <2>1 DEF find_branch, Live
  <2>4. handles' = handles \/ (n \in root /\ handles' = [handles EXCEPT ![n] = @ + 1])
    BY <1>2, <2>1, OpenEffect DEF find_branch
  <2> QED
    BY <2>2, <2>3, <2>4
<1>3. ASSUME NEW t \in Threads, master_open(t)
      PROVE  handles' = handles \/ \E n \in root : Opened(n)
  <2>1. PICK n \in Snapshots : n = pc[t].node
    BY <1>0, <1>3 DEF master_open, PlaceKnown, PlaceOf, Holding
  <2>2. CASE master # n
    BY <1>3, <2>1, <2>2 DEF master_open, Fail, count_vars
  <2>3. CASE master = n
    <3>1. \A u \in Threads : pc[u].at = "drop2" => pc[u].node # n
      BY <1>3, <2>1, <2>3, OpenedIsKept
    <3>2. mem[n] = "live"
      BY <1>3, <2>1 DEF master_open, Live
    <3>3. handles' = handles \/ (n \in root /\ handles' = [handles EXCEPT ![n] = @ + 1])
      BY <1>3, <2>1, <2>3, OpenEffect DEF master_open
    <3> QED
      BY <3>1, <3>2, <3>3
  <2> QED
    BY <2>2, <2>3
<1>4. ASSUME NEW t \in Threads, parent_open(t)
      PROVE  handles' = handles \/ \E n \in root : Opened(n)
  <2>1. PICK n \in Snapshots : n = pc[t].node
    BY <1>0, <1>4 DEF parent_open, PlaceKnown, PlaceOf, Holding
  <2>2. \A u \in Threads : pc[u].at = "drop2" => pc[u].node # n
    BY <1>4, <2>1, OpenedIsKept
  <2>3. mem[n] = "live"
    BY <1>0, <1>4, <2>1 DEF parent_open, PlaceKnown, PlaceOf, Live
  <2>4. handles' = handles \/ (n \in root /\ handles' = [handles EXCEPT ![n] = @ + 1])
    BY <1>4, <2>1, OpenEffect DEF parent_open
  <2> QED
    BY <2>2, <2>3, <2>4
<1>5. UNCHANGED count_vars => handles' = handles
  BY DEF count_vars
<1> QED
  BY <1>1, <1>2, <1>3, <1>4, <1>5, CountSteps

\* Every step leaves the snapshots with open handles alive, with their data.
LEMMA HandleDataStep ==
  ASSUME ParentAlone, MasterAlone, IInv, OnlyCalled, ReferencesCountHandles, SeenIsNow,
         OpenHandleHasData, ClosedForGood, [Next]_vars
  PROVE  OpenHandleHasData' /\ ClosedForGood'
<1>0. TypeOK /\ PlaceKnown /\ TodoLive /\ CommittedHasData
  BY DEF IInv
<1> DEFINE HasData(n) == mem'[n] = "live" /\ n \in root'
<1>1. ASSUME NEW t \in Threads, NEW m \in Snapshots, branch(t, m),
             NEW n \in Snapshots, handles'[n] > 0
      PROVE  HasData(n)
  <2>1. PICK c \in Snapshots :
          /\ mem[c] = "unused"
          /\ mem' = [mem EXCEPT ![c] = "live"]
          /\ handles' = [handles EXCEPT ![c] = 1]
          /\ root' = IF m \in root THEN root \cup {c} ELSE root
    BY <1>1 DEF branch
  <2>2. m \in root
    BY <1>0, <1>1 DEF branch, CommittedHasData
  <2>3. CASE n = c
    BY <1>0, <2>1, <2>2, <2>3 DEF TypeOK
  <2>4. CASE n # c
    <3>1. handles[n] > 0 /\ mem'[n] = mem[n]
      BY <1>0, <1>1, <2>1, <2>4 DEF TypeOK
    <3> QED
      BY <2>1, <2>2, <3>1 DEF OpenHandleHasData, Live
  <2> QED
    BY <2>3, <2>4
<1>2. ASSUME create \/ \E t \in Threads : load(t)
      PROVE  \A n \in Snapshots : handles'[n] = 0
  <2>1. Restart
    BY <1>2 DEF create, load
  <2> QED
    BY <2>1 DEF Restart
<1>3. ASSUME ~(create \/ \E t \in Threads : load(t)),
             ~ \E t \in Threads, n \in Snapshots : branch(t, n),
             NEW n \in Snapshots, handles'[n] > 0
      PROVE  handles[n] > 0 \/ (/\ n \in root /\ mem[n] = "live"
                                /\ handles' # handles
                                /\ ~ \E t \in Threads, m \in Snapshots : close(t, m))
  <2>1. CASE handles' = handles
    BY <1>3, <2>1
  <2>2. ASSUME NEW t \in Threads, NEW m \in Snapshots, close(t, m) PROVE handles[n] > 0
    <3>1. handles' = [handles EXCEPT ![m] = @ - 1]
      BY <2>2 DEF close
    <3> QED
      BY <1>0, <1>3, <3>1, SMTT(30) DEF TypeOK
  <2>3. ASSUME NEW m \in root, mem[m] = "live", handles' = [handles EXCEPT ![m] = @ + 1]
        PROVE  handles[n] > 0 \/ n = m
    BY <1>0, <1>3, <2>3 DEF TypeOK
  <2> QED
    BY <1>3, <2>1, <2>2, <2>3, HandleSteps
<1>4. ASSUME ~(create \/ \E t \in Threads : load(t)),
             ~ \E t \in Threads, n \in Snapshots : branch(t, n),
             NEW n \in Snapshots, handles'[n] > 0
      PROVE  HasData(n)
  <2>1. CASE UNCHANGED <<mem, root>>
    BY <1>3, <1>4, <2>1 DEF OpenHandleHasData, Live
  <2>2. ASSUME handles[n] > 0, handles' = handles, NEW m \in Snapshots, handles[m] <= 0,
               root' = root \ {m},
               mem' = mem \/ mem' = [mem EXCEPT ![m] = "freed"]
        PROVE  HasData(n)
    <3>1. n # m
      BY <1>0, <2>2, SMTT(30) DEF TypeOK
    <3>2. mem[n] = "live" /\ n \in root
      BY <2>2 DEF OpenHandleHasData, Live
    <3> QED
      BY <1>0, <2>2, <3>1, <3>2 DEF TypeOK
  <2>3. ASSUME NEW t \in Threads, close_drop1(t) \/ forget_snapshot(t) PROVE HasData(n)
    <3>1. PICK m \in Snapshots : m = pc[t].node
      BY <1>0, <2>3
         DEF close_drop1, forget_snapshot, PlaceKnown, PlaceOf, Holding
    <3>2. handles[m] = 0
      BY <1>0, <2>3, <3>1 DEF close_drop1, forget_snapshot, PlaceKnown, PlaceOf, Live
    <3>3. /\ handles' = handles /\ root' = root \ {m}
          /\ mem' = mem \/ mem' = [mem EXCEPT ![m] = "freed"]
      BY <2>3, <3>1 DEF close_drop1, forget_snapshot, Delete, count_vars
    <3>4. handles[m] <= 0
      BY <3>2, SMTT(30)
    <3> QED
      BY <1>4, <2>2, <3>3, <3>4
  <2>4. ASSUME NEW t \in Threads, close_drop2(t) PROVE HasData(n)
    <3>1. PICK m \in Snapshots : m = pc[t].node
      BY <1>0, <2>4 DEF close_drop2, PlaceKnown, PlaceOf, Holding
    <3>2. handles[m] = 0
      BY <2>4, <3>1 DEF close_drop2, ClosedForGood
    <3>3. /\ handles' = handles
          /\ mem' = mem /\ (root' = root \/ root' = root \ {m})
      BY <2>4, <3>1 DEF close_drop2, Fail, count_vars, node_vars
    <3>4. handles[m] <= 0
      BY <3>2, SMTT(30)
    <3> QED
      BY <1>4, <2>1, <2>2, <3>3, <3>4
  <2>5. ASSUME NEW m \in LiveNodes, RemovalStep(m) PROVE HasData(n)
    <3>1. /\ m \in Snapshots /\ handles' = handles /\ m \notin root
          /\ \/ UNCHANGED <<mem, root>>
             \/ mem' = [mem EXCEPT ![m] = "freed"] /\ root' = root \ {m}
      BY <1>0, <2>5, RemovalEffect DEF RemovalStep, Removable, count_vars
    <3>2. handles[m] <= 0
      BY <1>0, <3>1, SMTT(30) DEF OpenHandleHasData, TypeOK
    <3> QED
      BY <1>4, <2>1, <2>2, <3>1, <3>2
  <2>6. ASSUME NEW t \in Threads, memory_stat(t) PROVE HasData(n)
    <3> DEFINE dropped == {m \in Snapshots : Live(m) /\ status[m] = "DROPPED"
                                             /\ references[m] = 0}
    <3>1. handles' = handles /\ mem' = mem /\ (root' = root \/ root' = root \ dropped)
      BY <2>6 DEF memory_stat, Fail, count_vars, node_vars
    <3>2. n \notin dropped
      <4>1. handles[n] > 0 /\ (Live(n) => references[n] = handles[n])
        BY <1>4, <3>1 DEF ReferencesCountHandles
      <4>2. Live(n) => references[n] # 0
        BY <4>1, SMTT(30)
      <4> QED
        BY <4>2
    <3>3. mem[n] = "live" /\ n \in root
      BY <1>4, <3>1 DEF OpenHandleHasData, Live
    <3> HIDE DEF dropped
    <3> QED
      BY <3>1, <3>2, <3>3
  <2> QED
    BY <1>0, <1>4, <2>1, <2>3, <2>4, <2>5, <2>6, DataSteps
<1>5. OpenHandleHasData'
  <2>1. ASSUME NEW n \in Snapshots, handles'[n] > 0 PROVE HasData(n)
    <3>1. CASE create \/ \E t \in Threads : load(t)
      <4>1. handles'[n] = 0
        BY <1>2, <3>1
      <4> QED
        BY <2>1, <4>1, SMTT(30)
    <3>2. CASE \E t \in Threads, m \in Snapshots : branch(t, m)
      BY <1>1, <2>1, <3>2
    <3> QED
      BY <1>4, <2>1, <3>1, <3>2
  <2> QED
    BY <2>1 DEF OpenHandleHasData, Live
<1>6. ASSUME NEW u \in Threads, pc'[u].at = "drop2" PROVE handles'[pc'[u].node] = 0
  <2>1. CASE pc'[u] = pc[u]
    <3>1. PICK n \in Snapshots : n = pc[u].node
      BY <1>0, <1>6, <2>1 DEF PlaceKnown, PlaceOf, Holding
    <3>2. handles[n] = 0 /\ mem[n] # "unused" /\ pc[u].at = "drop2"
      BY <1>0, <1>6, <2>1, <3>1 DEF ClosedForGood, PlaceKnown, PlaceOf, Live
    <3>3. ASSUME NEW t \in Threads, NEW m \in Snapshots, branch(t, m) PROVE handles'[n] = 0
      <4>1. PICK c \in Snapshots : /\ mem[c] = "unused"
                                   /\ handles' = [handles EXCEPT ![c] = 1]
        BY <3>3 DEF branch
      <4> QED
        BY <1>0, <3>2, <4>1 DEF TypeOK
    <3>4. ASSUME NEW t \in Threads, NEW m \in Snapshots, close(t, m) PROVE handles'[n] = 0
      <4>1. handles' = [handles EXCEPT ![m] = @ - 1] /\ FreeHandles(m) > 0
        BY <3>4 DEF close
      <4>2. handles[m] > 0
        BY <1>0, <4>1, FreeIsOpen
      <4>3. handles \in [Snapshots -> Int]
        BY <1>0 DEF TypeOK
      <4>4. m # n
        BY <3>2, <4>2, SMTT(30)
      <4> QED
        BY <3>2, <4>1, <4>3, <4>4
    <3>5. ASSUME NEW m \in root, handles' = [handles EXCEPT ![m] = @ + 1],
                 \A v \in Threads : pc[v].at = "drop2" => pc[v].node # m
          PROVE  handles'[n] = 0
      BY <1>0, <3>1, <3>2, <3>5 DEF TypeOK
    <3>6. handles'[n] = 0
      BY <1>2, <3>2, <3>3, <3>4, <3>5, HandleSteps
    <3> QED
      BY <2>1, <3>1, <3>6
  <2>2. CASE pc'[u] # pc[u]
    <3>1. PICK n \in Snapshots : close(u, n)
      BY <1>0, <1>6, <2>2, PlaceEntered
    <3>2. /\ handles' = [handles EXCEPT ![n] = @ - 1] /\ Live(n)
          /\ \/ references[n] = 1 /\ pc' = [pc EXCEPT ![u] = At("drop2", n, NoNode, 0, "idle")]
             \/ pc' = [pc EXCEPT ![u] = At("drop1", n, NoNode, 0, "idle")]
             \/ pc' = [pc EXCEPT ![u] = IdleAt]
      BY <3>1 DEF close, Goto
    <3>3. references[n] = 1 /\ pc'[u].node = n
      BY <1>0, <1>6, <3>2, SMTT(30) DEF TypeOK, At, IdleAt
    <3>4. handles[n] = 1
      BY <3>2, <3>3 DEF ReferencesCountHandles
    <3>5. handles \in [Snapshots -> Int]
      BY <1>0 DEF TypeOK
    <3>6. handles'[n] = 0
      BY <3>2, <3>4, <3>5, SMTT(30)
    <3> QED
      BY <3>3, <3>6
  <2> QED
    BY <2>1, <2>2
<1> QED
  BY <1>5, <1>6 DEF ClosedForGood

\* An open handle reads through data that exists: no destructor, pack() or
\* memory_stat() deletes the data or the node under a handle that another client
\* has open.  The exceptions need two clients and parent(), or two clients and
\* master() with a snapshot dropped while it was locked.
THEOREM HandlesKeepData == ParentAlone /\ MasterAlone => (Spec => []OpenHandleHasData)
<1> SUFFICES ASSUME ParentAlone, MasterAlone PROVE Spec => []OpenHandleHasData
  OBVIOUS
<1> DEFINE J == /\ ReferencesCountHandles /\ SeenIsNow
                /\ OnlyCalled /\ OpenHandleHasData /\ ClosedForGood
<1>1. Init => J
  <2> SUFFICES ASSUME Init PROVE J
    OBVIOUS
  <2>1. /\ \A n \in Snapshots : /\ references[n] = 0 /\ handles[n] = 0
                                /\ status[n] # "DATA_LOCKED"
        /\ \A t \in Threads : pc[t].at = "idle"
        /\ locked_drops = {}
    BY DEF Init, IdleAt, At
  <2> QED
    BY <2>1, SMTT(30) DEF ReferencesCountHandles, SeenIsNow, OnlyCalled, OpenHandleHasData,
                ClosedForGood
<1>2. IInv /\ J /\ [Next]_vars => J'
  BY CountsStep, OnlyCalledStep, HandleDataStep
<1> HIDE DEF J
<1>3. Spec => []J
  BY <1>1, <1>2, Invariant, PTL DEF Spec
<1>4. J => OpenHandleHasData
  BY DEF J
<1> QED
  BY <1>3, <1>4, PTL

-----------------------------------------------------------------------------
\* pack() of a single client leaves nothing behind that it could remove.

\* A head has its data, unless it was dropped while locked.
LEMMA HeadHasData ==
  ASSUME IInv, locked_drops = {}, NEW n \in Heads PROVE n \in root
<1>1. HeadsCommitted /\ CommittedHasData /\ TypeOK
  BY DEF IInv
<1>2. Live(n) /\ status[n] \in {"COMMITTED", "DATA_LOCKED"}
  BY <1>1 DEF HeadsCommitted
<1>3. n \in Snapshots
  BY <1>1, SMTT(30) DEF Heads, TypeOK
<1> QED
  BY <1>1, <1>2, <1>3 DEF CommittedHasData

\* What the only client can do inside pack().
LEMMA PackSteps ==
  ASSUME TypeOK, OneClient, [Next]_vars, NEW u \in Threads, pc[u].at = "pack",
         pc'[u].at = "pack"
  PROVE  \/ UNCHANGED <<node_vars, references, todo, locked_drops>>
         \/ \E n \in Snapshots : do_pack(u, n)
         \/ \E b \in Names : do_pack_name(u, b)
         \/ load(u)
<1>1. \A t \in Threads : t = u
  BY DEF OneClient
<1>2. CASE Continue(u)
  <2>1. ~(drop(u) \/ close_drop1(u) \/ forget_snapshot(u) \/ close_drop2(u))
    BY DEF drop, close_drop1, forget_snapshot, close_drop2
  <2>2. ~(master_open(u) \/ parent_open(u))
    BY DEF master_open, parent_open
  <2>3. ~(do_store(u) \/ store_timeout(u) \/ write_image(u))
    BY DEF do_store, store_timeout, write_image
  <2>4. ~pack_end(u)
    <3> SUFFICES ASSUME pack_end(u) PROVE FALSE
      OBVIOUS
    <3>1. \/ pc' = [pc EXCEPT ![u] = At("write", NoNode, NoNode, 0, "idle")]
          \/ pc' = [pc EXCEPT ![u] = IdleAt]
      BY DEF pack_end, Goto
    <3> QED
      BY <3>1, SMTT(30) DEF TypeOK, At, IdleAt
  <2>5. CASE use_freed(u)
    BY <2>5 DEF use_freed, Fail, count_vars, pack_vars
  <2> QED
    BY <1>2, <2>1, <2>2, <2>3, <2>4, <2>5 DEF Continue
<1>3. ~Begin(u)
  <2>1. ~Idle(u)
    BY DEF Idle
  <2> QED
    BY <2>1
       DEF Begin, branch, commit, lock_data_for_import, drop_call, close, find, parent_read,
           set_master, set_branch, find_branch, remove_named_branch, master_read, pack,
           memory_stat, linear_history, store
<1>4. ~create
  BY SMTT(30) DEF create, IdleAt, At
<1>5. CASE UNCHANGED vars
  BY <1>5 DEF vars, count_vars, pack_vars, rest_vars
<1> QED
  BY <1>1, <1>2, <1>3, <1>4, <1>5 DEF Next

\* A step of pack() leaves the nodes to visit closed under parents, and nothing
\* removable behind.
LEMMA PackVisit ==
  ASSUME IInv, locked_drops = {}, NEW u \in Threads, NEW n \in Snapshots, do_pack(u, n),
         \A m \in todo \ {Root} : parent[m] \in todo,
         \A m \in LiveNodes \ todo : Removable(m) => \E c, d \in children[m] : c # d
  PROVE  /\ \A m \in todo' \ {Root} : parent'[m] \in todo'
         /\ \A m \in (LiveNodes \ todo)' :
                Removable(m)' => \E c, d \in children'[m] : c # d
<1>0. TypeOK /\ HistoryIsTree /\ RootKept /\ CommittedHasData /\ TodoLive
  BY DEF IInv
<1>1. /\ n \in todo /\ children[n] \cap todo = {} /\ todo' = todo \ {n}
      /\ references' = references
      /\ IF Removable(n) /\ \A b \in Names : named_branches[b] # n
         THEN do_remove_history_node(n)
         ELSE UNCHANGED node_vars
  BY DEF do_pack, count_vars
<1>2. todo \subseteq LiveNodes /\ LiveNodes \subseteq Snapshots
  BY <1>0 DEF TodoLive, LiveNodes
<1>3. ASSUME NEW m \in todo \ {Root} PROVE m \in children[parent[m]]
  BY <1>0, <1>2, <1>3 DEF HistoryIsTree, IsTree
<1>4. \A m \in todo' \ {Root} : /\ m \in todo /\ m # n /\ m \notin children[n]
                                /\ parent[m] \in todo /\ parent[m] # n
  BY <1>1, <1>3
<1>5. CASE UNCHANGED node_vars /\ (Removable(n) => \E c, d \in children[n] : c # d)
  <2>1. \A m \in todo' \ {Root} : parent'[m] \in todo'
    BY <1>1, <1>4, <1>5 DEF node_vars
  <2>2. /\ (LiveNodes \ todo)' \subseteq (LiveNodes \ todo) \cup {n}
        /\ \A m \in Snapshots : Removable(m)' => Removable(m)
        /\ children' = children
    BY <1>1, <1>5 DEF node_vars, LiveNodes, Live, Removable
  <2>3. ASSUME NEW m \in (LiveNodes \ todo)', Removable(m)'
        PROVE  \E c, d \in children'[m] : c # d
    <3>1. Removable(m) /\ (m = n \/ m \in LiveNodes \ todo)
      BY <1>2, <2>2, <2>3
    <3> QED
      BY <1>5, <2>2, <3>1
  <2> QED
    BY <2>1, <2>3
<1>6. CASE Removable(n) /\ ~ \E c, d \in children[n] : c # d
  <2>1. n \notin Heads
    BY <1>6, HeadHasData DEF Removable
  <2>2. do_remove_history_node(n)
    BY <1>1, <1>6, <2>1, RootAssumption, NoNodeAssumption DEF Heads
  <2>3. /\ mem' = [mem EXCEPT ![n] = "freed"]
        /\ root' = root \ {n}
        /\ children' = [children EXCEPT
                            ![parent[n]] = (@ \ {n}) \cup children[n], ![n] = {}]
        /\ parent' = [c \in Snapshots |-> IF c \in children[n] THEN parent[n]
                                          ELSE IF c = n THEN NoNode
                                          ELSE parent[c]]
    BY <1>6, <2>2 DEF do_remove_history_node, Delete
  <2>4. n # Root
    BY <1>0, <1>1, <1>2, <1>6 DEF Removable, RootKept, CommittedHasData, LiveNodes
  <2>5. parent[n] \in todo
    BY <1>1, <2>4
  <2>6. \A m \in todo' \ {Root} : parent'[m] \in todo'
    <3>1. ASSUME NEW m \in todo' \ {Root} PROVE parent'[m] = parent[m]
      <4>1. m \in Snapshots /\ m # n /\ m \notin children[n]
        BY <1>2, <1>4, <3>1
      <4> QED
        BY <2>3, <4>1
    <3> QED
      BY <1>1, <1>4, <3>1
  <2>7. ASSUME NEW m \in (LiveNodes \ todo)', Removable(m)'
        PROVE  \E c, d \in children'[m] : c # d
    <3>1. m \in Snapshots /\ mem'[m] = "live" /\ m \notin todo'
      BY <2>7 DEF LiveNodes, Live
    <3>2. m # n /\ mem[m] = "live"
      BY <1>0, <2>3, <3>1 DEF TypeOK
    <3>3. m \in LiveNodes \ todo
      BY <1>1, <3>1, <3>2 DEF LiveNodes, Live
    <3>4. Removable(m)
      BY <1>1, <2>3, <2>7, <3>2 DEF Removable
    <3>5. m # parent[n]
      BY <2>5, <3>3
    <3>6. children'[m] = children[m]
      BY <1>0, <2>3, <3>1, <3>2, <3>5 DEF TypeOK
    <3>7. \E c, d \in children[m] : c # d
      BY <3>3, <3>4
    <3> QED
      BY <3>6, <3>7
  <2> QED
    BY <2>6, <2>7
<1>7. CASE ~Removable(n)
  BY <1>1, <1>5, <1>7
<1>8. CASE Removable(n) /\ \E c, d \in children[n] : c # d
  <2>1. UNCHANGED node_vars
    BY <1>1, <1>8 DEF do_remove_history_node
  <2> QED
    BY <1>5, <1>8, <2>1
<1> QED
  BY <1>6, <1>7, <1>8

\* Every step keeps the invariant of pack().
LEMMA PackStep ==
  ASSUME OneClient, IInv, IInv', PackInv, [Next]_vars PROVE PackInv'
<1> SUFFICES ASSUME NEW u \in Threads, pc'[u].at = "pack", locked_drops' = {}
             PROVE  /\ \A m \in todo' \ {Root} : parent'[m] \in todo'
                    /\ \A m \in (LiveNodes \ todo)' :
                           Removable(m)' => \E c, d \in children'[m] : c # d
  BY DEF PackInv
<1>0. TypeOK /\ HistoryIsTree'
  BY DEF IInv
<1>1. CASE todo' = LiveNodes'
  <2>1. \A m \in todo' \ {Root} : parent'[m] \in todo'
    BY <1>0, <1>1 DEF HistoryIsTree, IsTree
  <2> QED
    BY <1>1, <2>1
<1>2. CASE pack(u) \/ do_store(u)
  <2>1. todo' = LiveNodes /\ UNCHANGED mem
    BY <1>2 DEF pack, do_store, StartPack, node_vars
  <2> QED
    BY <1>1, <2>1 DEF LiveNodes, Live
<1>3. CASE load(u)
  <2>1. /\ todo' = file.nodes /\ file.nodes \subseteq Snapshots
        /\ mem' = [n \in Snapshots |-> IF n \in file.nodes THEN "live" ELSE "unused"]
    BY <1>3 DEF load, IInv, FileOK
  <2> QED
    BY <1>1, <2>1 DEF LiveNodes, Live
<1>4. CASE pc'[u] # pc[u]
  BY <1>0, <1>2, <1>3, <1>4, PlaceEntered
<1>5. CASE pc'[u] = pc[u] /\ ~load(u)
  <2>1. pc[u].at = "pack"
    BY <1>5
  <2>2. \/ UNCHANGED <<node_vars, references, todo, locked_drops>>
        \/ \E n \in Snapshots : do_pack(u, n)
        \/ \E b \in Names : do_pack_name(u, b)
    BY <1>0, <1>5, <2>1, PackSteps
  <2>3. locked_drops = {}
    BY <2>2 DEF do_pack, do_pack_name, rest_vars
  <2>4. /\ \A m \in todo \ {Root} : parent[m] \in todo
        /\ \A m \in LiveNodes \ todo : Removable(m) => \E c, d \in children[m] : c # d
    BY <2>1, <2>3 DEF PackInv
  <2>5. CASE UNCHANGED <<node_vars, references, todo>>
    <3>1. /\ LiveNodes' = LiveNodes /\ todo' = todo
          /\ parent' = parent /\ children' = children
          /\ \A m \in LiveNodes : Removable(m)' => Removable(m)
      BY <2>5 DEF node_vars, LiveNodes, Live, Removable
    <3> QED
      BY <2>4, <3>1
  <2>6. ASSUME NEW n \in Snapshots, do_pack(u, n)
        PROVE  /\ \A m \in todo' \ {Root} : parent'[m] \in todo'
               /\ \A m \in (LiveNodes \ todo)' :
                      Removable(m)' => \E c, d \in children'[m] : c # d
    BY <2>3, <2>4, <2>6, PackVisit
  <2>7. ASSUME NEW b \in Names, do_pack_name(u, b)
        PROVE  UNCHANGED <<node_vars, references, todo>>
    <3>1. named_branches[b] \in Heads
      <4>1. named_branches[b] \in Snapshots
        BY <2>7 DEF do_pack_name, LiveNodes
      <4> QED
        BY <4>1, NoNodeAssumption DEF Heads
    <3>2. ~Removable(named_branches[b])
      BY <2>3, <3>1, HeadHasData DEF Removable
    <3> QED
      BY <2>7, <3>2 DEF do_pack_name, count_vars
  <2> QED
    BY <2>2, <2>5, <2>6, <2>7
<1> QED
  BY <1>3, <1>4, <1>5

\* A pack() that no other client disturbs does its whole work in one pass: when it
\* ends, a node without data and without handles is left only to keep two or more
\* branches together.
THEOREM PackDoesAll == OneClient => (Spec => PackIsMinimal)
<1> SUFFICES ASSUME OneClient PROVE Spec => PackIsMinimal
  OBVIOUS
<1>1. Init => PackInv
  <2> SUFFICES ASSUME Init PROVE \A t \in Threads : pc[t].at # "pack"
    BY DEF PackInv
  <2>1. \A t \in Threads : pc[t] = IdleAt
    BY DEF Init
  <2> QED
    BY <2>1, SMTT(30) DEF IdleAt, At
<1>2. IInv /\ IInv' /\ PackInv /\ [Next]_vars => PackInv'
  BY PackStep
<1>3. Spec => []PackInv
  BY <1>1, <1>2, Invariant, PTL DEF Spec
<1> DEFINE Ended == /\ todo_names = {} /\ todo = {} /\ mutex # NoThread
                    /\ mutex' = NoThread
                    /\ (\E t \in Threads : pc[t].at = "pack") /\ locked_drops = {}
           Minimal == \A n \in Snapshots : Live(n) /\ Removable(n)
                        => \E c, d \in children[n] : c # d
<1>4. PackInv => [Ended => Minimal]_vars
  <2> SUFFICES ASSUME PackInv, Ended PROVE Minimal
    OBVIOUS
  <2>1. todo = {} /\ locked_drops = {} /\ \E t \in Threads : pc[t].at = "pack"
    OBVIOUS
  <2>2. \A n \in LiveNodes \ todo : Removable(n) => \E c, d \in children[n] : c # d
    BY <2>1 DEF PackInv
  <2> QED
    BY <2>1, <2>2 DEF LiveNodes
<1> QED
  BY <1>3, <1>4, PTL DEF PackIsMinimal

\* Calls never wait for each other in a circle: unless somebody calls
\* linear_history(), which keeps its locks, or the store() that waits for ever,
\* whenever calls are in progress one of them can take its next step.  Each
\* holder of mutex_ or store_mutex_ is at a place where it needs no other lock,
\* and pack() always has a node whose children it has visited.
THEOREM CallsProceed == CallsEnd => (Spec => []SomeCallReady)
<1> SUFFICES ASSUME CallsEnd PROVE Spec => []SomeCallReady
  OBVIOUS
<1>1. Init => LocksInUse
  <2> SUFFICES ASSUME Init PROVE LocksInUse
    OBVIOUS
  <2>1. \A t \in Threads : pc[t] = IdleAt
    BY DEF Init
  <2>2. IdleAt.at = "idle"
    BY SMTT(30) DEF IdleAt, At
  <2> QED
    BY <2>1, <2>2 DEF Init, LocksInUse
<1>2. IInv /\ LocksInUse /\ [Next]_vars => LocksInUse'
  BY LocksInUseStep DEF IInv
<1>3. IInv /\ LocksInUse => SomeCallReady
  <2> SUFFICES ASSUME IInv, LocksInUse, NEW t \in Threads, ~Idle(t)
               PROVE  \E u \in Threads : Ready(u)
    BY DEF SomeCallReady
  <2>1. CASE mutex # NoThread
    <3>1. mutex \in Threads
      BY <2>1 DEF IInv, TypeOK
    <3>2. CASE pc[mutex].at = "pack"
      <4>1. todo = {} \/ \E n \in todo : children[n] \cap todo = {}
        BY PackHasLeaf DEF IInv, TodoLive
      <4> QED
        BY <3>1, <3>2, <4>1 DEF Ready
    <3>3. CASE pc[mutex].at # "pack"
      <4>1. pc[mutex].at \in {"parent", "write", "timed_wait"}
        BY <2>1, <3>3 DEF LocksInUse
      <4> QED
        BY <3>1, <4>1 DEF Ready
    <3> QED
      BY <3>2, <3>3
  <2>2. CASE mutex = NoThread
    <3>1. store_mutex = NoThread /\ CanLock(t)
      BY <2>2 DEF LocksInUse, CanLock
    <3>2. pc[t].at \in Places \ {"idle", "wait", "pack"}
      <4>1. pc[t].at \in Places
        BY DEF IInv, TypeOK, PcType
      <4>2. pc[t].at # "pack"
        BY <2>2, NoThreadAssumption DEF IInv, LocksHeld
      <4> QED
        BY <4>1, <4>2 DEF LocksInUse, Idle
    <3>3. Ready(t)
      BY <3>1, <3>2 DEF Ready, Places
    <3> QED
      BY <3>3
  <2> QED
    BY <2>1, <2>2
<1> QED
  BY <1>1, <1>2, <1>3, Invariant, PTL DEF Spec
====
