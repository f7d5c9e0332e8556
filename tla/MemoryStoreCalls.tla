---- MODULE MemoryStoreCalls ----
(***************************************************************************)
(* What calls in progress may rely on: the steps keep TypeOK,              *)
(* HistoryIsTree, LocksHeld, TodoLive, ActiveAlone and PlaceKnown, whatever*)
(* two calls that hold no common lock do to the same node; and, when every *)
(* call gives its locks back, LocksInUse.                                  *)
(***************************************************************************)
EXTENDS MemoryStoreInv, FiniteSetTheorems, TLAPS

\* The prover of the leaves that name none, and its time limit.
USE ZenonT(60)

-----------------------------------------------------------------------------
(* Types and the history tree *)

\* Deleting a node, and the types of the fields.

\* pack()'s removal of a node keeps the types of the fields.
LEMMA RemoveTyped ==
  ASSUME NodesTyped, NEW n \in Snapshots, do_remove_history_node(n)
  PROVE  NodesTyped'
<1> USE NoNodeAssumption DEF NodesTyped
<1>1. CASE \E c, d \in children[n] : c # d
  BY <1>1 DEF do_remove_history_node, node_vars
<1>2. CASE ~ \E c, d \in children[n] : c # d
  <2>1. Delete(n)
    BY <1>2 DEF do_remove_history_node
  <2>2. mem' \in [Snapshots -> {"unused", "live", "freed"}] /\ root' \subseteq Snapshots
    BY <2>1 DEF Delete
  <2>3. status' \in [Snapshots -> Statuses]
    BY <2>1 DEF Delete, Statuses
  <2>4. children' \in [Snapshots -> SUBSET Snapshots]
    <3> DEFINE A == [children EXCEPT ![parent[n]] = (@ \ {n}) \cup children[n]]
    <3>1. children' = [A EXCEPT ![n] = {}]
      BY <1>2 DEF do_remove_history_node
    <3>2. A \in [Snapshots -> SUBSET Snapshots]
      OBVIOUS
    <3> QED
      BY <3>1, <3>2
  <2>5. parent' \in [Snapshots -> Snapshots \cup {NoNode}]
    BY <1>2 DEF do_remove_history_node
  <2> QED
    BY <2>2, <2>3, <2>4, <2>5
<1> QED
  BY <1>1, <1>2

\* forget_snapshot() keeps them too.
LEMMA ForgetTyped ==
  ASSUME NodesTyped, NEW t \in Threads, pc[t].node \in Snapshots, forget_snapshot(t)
  PROVE  NodesTyped'
<1> DEFINE n == pc[t].node
<1>1. /\ Delete(n)
      /\ children' = [children EXCEPT ![parent[n]] = @ \ {n}]
      /\ parent' = [parent EXCEPT ![n] = NoNode]
  BY DEF forget_snapshot
<1>2. mem' \in [Snapshots -> {"unused", "live", "freed"}] /\ root' \subseteq Snapshots
  BY <1>1 DEF Delete, NodesTyped
<1>3. status' \in [Snapshots -> Statuses]
  BY <1>1 DEF Delete, Statuses, NodesTyped
<1>4. children' \in [Snapshots -> SUBSET Snapshots]
  BY <1>1 DEF NodesTyped
<1>5. parent' \in [Snapshots -> Snapshots \cup {NoNode}]
  BY <1>1 DEF NodesTyped
<1> QED
  BY <1>2, <1>3, <1>4, <1>5 DEF NodesTyped

\* adjust_named_references keeps the heads' types.
LEMMA AdjustTyped ==
  ASSUME named_branches \in [Names -> Snapshots \cup {NoNode}], master \in Snapshots,
         NEW n \in Snapshots, adjust_named_references(n)
  PROVE  /\ named_branches' \in [Names -> Snapshots \cup {NoNode}]
         /\ master' \in Snapshots
  BY DEF adjust_named_references, WalkedFrom

\* Every variable keeps its type under every call.
LEMMA TypeStep == ASSUME TypeOK, PlaceKnown, FileOK, [Next]_vars PROVE TypeOK'
<1> USE RootAssumption, NoNodeAssumption, NoThreadAssumption
<1> USE DEF TypeOK, PcType, Places, Statuses, Faults, At, IdleAt, Goto, Fail, Live,
            LiveNodes, Idle, CanLock, Unlocked, node_vars, count_vars, head_vars,
            lock_vars, pack_vars, rest_vars
<1>1. CASE UNCHANGED vars
  BY <1>1 DEF vars
<1>2. ASSUME NEW t \in Threads, Continue(t) PROVE TypeOK'
  <2>1. CASE drop(t)
    <3> DEFINE n == pc[t].node
    <3>0. n \in Snapshots
      BY <2>1 DEF drop, PlaceKnown, PlaceOf, Holding
    <3>1. CASE parent[n] = NoNode
      BY <2>1, <3>1, SMTT(30) DEF drop
    <3>2. CASE parent[n] # NoNode
      <4>1. /\ named_branches' \in [Names -> Snapshots \cup {NoNode}]
            /\ master' \in Snapshots
        BY <2>1, <3>0, <3>2, AdjustTyped DEF drop
      <4> QED
        BY <2>1, <3>0, <3>2, <4>1, SMTT(30) DEF drop
    <3> QED
      BY <3>1, <3>2
  <2>2. CASE close_drop1(t) \/ close_drop2(t)
    BY <2>2, SMTT(30) DEF close_drop1, close_drop2
  <2>3. CASE forget_snapshot(t)
    <3>1. NodesTyped'
      BY <2>3, ForgetTyped
         DEF forget_snapshot, PlaceKnown, PlaceOf, Holding, NodesTyped
    <3> QED
      BY <2>3, <3>1, SMTT(30) DEF forget_snapshot, NodesTyped
  <2>4. CASE master_open(t)
    BY <2>4, SMTT(30) DEF master_open, Open
  <2>5. CASE parent_open(t)
    BY <2>5, SMTT(30) DEF parent_open, Open
  <2>6. CASE \E n \in Snapshots : do_pack(t, n)
    <3> PICK n \in Snapshots : do_pack(t, n)
      BY <2>6
    <3>1. NodesTyped'
      BY RemoveTyped DEF do_pack, NodesTyped
    <3> QED
      BY <3>1 DEF do_pack, NodesTyped
  <2>7. CASE \E b \in Names : do_pack_name(t, b)
    <3> PICK b \in Names : do_pack_name(t, b)
      BY <2>7
    <3>1. NodesTyped'
      BY RemoveTyped DEF do_pack_name, NodesTyped
    <3> QED
      BY <3>1 DEF do_pack_name, NodesTyped
  <2>8. CASE pack_end(t) \/ store_timeout(t) \/ write_image(t) \/ use_freed(t)
    BY <2>8, SMTT(30) DEF pack_end, store_timeout, write_image, use_freed
  <2>9. CASE do_store(t)
    BY <2>9 DEF do_store, StartPack
  <2> QED
    BY <1>2, <2>1, <2>2, <2>3, <2>4, <2>5, <2>6, <2>7, <2>8, <2>9 DEF Continue
<1>3. ASSUME NEW t \in Threads, Begin(t) PROVE TypeOK'
  <2>1. ASSUME NEW n \in Snapshots, branch(t, n) PROVE TypeOK'
    BY <2>1, SMTT(30) DEF branch
  <2>2. ASSUME NEW n \in Snapshots,
               commit(t, n) \/ lock_data_for_import(t, n) \/ drop_call(t, n)
        PROVE  TypeOK'
    <3>1. CASE commit(t, n)
      BY <3>1, SMTT(30) DEF commit
    <3>2. CASE lock_data_for_import(t, n)
      BY <3>2 DEF lock_data_for_import
    <3>3. CASE drop_call(t, n)
      BY <3>3, SMTT(30) DEF drop_call
    <3> QED
      BY <2>2, <3>1, <3>2, <3>3
  <2>3. ASSUME NEW n \in Snapshots, close(t, n) PROVE TypeOK'
    BY <2>3, SMTT(30) DEF close
  <2>4. ASSUME NEW n \in Snapshots, find(t, n) \/ parent_read(t, n) PROVE TypeOK'
    BY <2>4, SMTT(30) DEF find, parent_read, Open
  <2>5. ASSUME NEW n \in Snapshots,
               set_master(t, n) \/ \E b \in Names : set_branch(t, b, n)
        PROVE  TypeOK'
    <3>1. CASE set_master(t, n)
      BY <3>1 DEF set_master
    <3>2. ASSUME NEW b \in Names, set_branch(t, b, n) PROVE TypeOK'
      BY <3>2 DEF set_branch
    <3> QED
      BY <2>5, <3>1, <3>2
  <2>6. ASSUME NEW b \in Names, find_branch(t, b) \/ remove_named_branch(t, b)
        PROVE  TypeOK'
    BY <2>6, SMTT(30) DEF find_branch, remove_named_branch, Open
  <2>7. CASE master_read(t) \/ linear_history(t) \/ memory_stat(t)
    BY <2>7, SMTT(30) DEF master_read, linear_history, memory_stat
  <2>8. CASE pack(t) \/ \E how \in {"wait", "timed_wait"} : store(t, how)
    BY <2>8, SMTT(30) DEF pack, StartPack, store
  <2> QED
    BY <1>3, <2>1, <2>2, <2>3, <2>4, <2>5, <2>6, <2>7, <2>8 DEF Begin
<1>4. ASSUME NEW t \in Threads, load(t) PROVE TypeOK'
  BY <1>4, SMTT(30) DEF load, Restart, FileOK
<1>5. CASE create
  BY <1>5, SMTT(30) DEF create, Restart
<1> QED
  BY <1>1, <1>2, <1>3, <1>4, <1>5 DEF Next

-----------------------------------------------------------------------------
\* The history stays a tree.

\* A node that is not the root has a parent other than itself.
LEMMA ParentOfNode ==
  ASSUME NodesTyped, HistoryIsTree, NEW n \in LiveNodes, n # Root
  PROVE  parent[n] \in LiveNodes /\ parent[n] # n /\ n \notin children[n]
<1>1. parent[n] \in LiveNodes
  BY DEF HistoryIsTree, IsTree
<1>2. ASSUME parent[n] = n PROVE FALSE
  <2> DEFINE S == {n}
  <2>1. S \in SUBSET LiveNodes /\ S # {}
    OBVIOUS
  <2>2. \A x \in S : parent[x] # NoNode => parent[x] \in S
    BY <1>2
  <2> HIDE DEF S
  <2>3. Root \in S
    BY <2>1, <2>2 DEF HistoryIsTree, IsTree
  <2> QED
    BY <2>3 DEF S
<1>3. n \notin children[n]
  BY <1>2 DEF HistoryIsTree, IsTree
<1> QED
  BY <1>1, <1>2, <1>3

\* Taking a node out, its only child (if any) taking its place, leaves a tree.
LEMMA TreeRemove ==
  ASSUME NodesTyped, HistoryIsTree, NEW n \in LiveNodes, n # Root,
         \A c, d \in children[n] : c = d,
         \A x \in Snapshots : mem'[x] = IF x = n THEN "freed" ELSE mem[x],
         children'[parent[n]] = (children[parent[n]] \ {n}) \cup children[n],
         \A x \in Snapshots : x # n /\ x # parent[n] => children'[x] = children[x],
         \A x \in Snapshots :
            parent'[x] = IF x \in children[n] THEN parent[n]
                         ELSE IF x = n THEN NoNode ELSE parent[x]
  PROVE  HistoryIsTree'
<1> USE RootAssumption, NoNodeAssumption
<1>1. parent[n] \in LiveNodes /\ parent[n] # n /\ n \notin children[n]
  BY ParentOfNode
<1>2. LiveNodes' = LiveNodes \ {n} /\ LiveNodes \subseteq Snapshots
  BY DEF LiveNodes, Live
<1>3. Root \in LiveNodes' /\ parent'[Root] = NoNode
  BY <1>1, <1>2, SMTT(30) DEF HistoryIsTree, IsTree
<1>4. ASSUME NEW x \in LiveNodes' \ {Root}
      PROVE  parent'[x] \in LiveNodes' /\ x \in children'[parent'[x]]
  <2>1. x \in LiveNodes \ {Root} /\ x # n /\ x \in Snapshots
    BY <1>2
  <2>2. parent[x] \in LiveNodes /\ x \in children[parent[x]]
    BY <2>1 DEF HistoryIsTree, IsTree
  <2>3. CASE x \in children[n]
    <3>1. parent'[x] = parent[n] /\ parent[n] \in Snapshots
      BY <1>1, <1>2, <2>1, <2>3
    <3>2. children'[parent[n]] = (children[parent[n]] \ {n}) \cup children[n]
      BY <1>1, <3>1
    <3> QED
      BY <1>1, <1>2, <2>3, <3>1, <3>2
  <2>4. CASE x \notin children[n]
    <3>1. parent'[x] = parent[x] /\ parent[x] \in Snapshots
      BY <1>2, <2>1, <2>2, <2>4
    <3>2. parent[x] # n
      BY <2>2, <2>4
    <3>3. children[parent[x]] \ {n} \subseteq children'[parent[x]]
      BY <3>1, <3>2
    <3> QED
      BY <1>2, <2>1, <2>2, <3>1, <3>2, <3>3
  <2> QED
    BY <2>3, <2>4
<1>5. ASSUME NEW x \in LiveNodes', NEW c \in children'[x]
      PROVE  c \in LiveNodes' /\ parent'[c] = x
  <2>1. x \in LiveNodes /\ x # n /\ x \in Snapshots
    BY <1>2
  <2>2. ASSUME NEW y \in LiveNodes, NEW d \in children[y]
        PROVE  d \in LiveNodes /\ d \in Snapshots /\ parent[d] = y
    BY <1>2 DEF HistoryIsTree, IsTree
  <2>3. CASE c \in children[n]
    <3>1. c \in LiveNodes /\ c \in Snapshots /\ parent[c] = n
      BY <2>2, <2>3
    <3>2. CASE x = parent[n]
      <4>1. c # n
        BY <1>1, <2>3
      <4> QED
        BY <1>2, <2>3, <3>1, <3>2, <4>1
    <3>3. CASE x # parent[n]
      <4>1. c \in children[x]
        BY <2>1, <3>3
      <4> QED
        BY <2>1, <2>2, <3>1, <4>1
    <3> QED
      BY <3>2, <3>3
  <2>4. CASE c \notin children[n]
    <3>1. c \in children[x] /\ (x = parent[n] => c # n)
      <4>1. CASE x = parent[n]
        <5>1. children'[x] = (children[x] \ {n}) \cup children[n]
          BY <2>1, <4>1
        <5> QED
          BY <2>4, <4>1, <5>1
      <4>2. CASE x # parent[n]
        BY <2>1, <4>2
      <4> QED
        BY <4>1, <4>2
    <3>2. c \in LiveNodes /\ c \in Snapshots /\ parent[c] = x
      BY <2>1, <2>2, <3>1
    <3>3. c # n
      BY <3>1, <3>2
    <3> QED
      BY <1>2, <2>4, <3>2, <3>3
  <2> QED
    BY <2>3, <2>4
<1>6. ASSUME NEW S \in SUBSET LiveNodes', S # {},
             \A x \in S : parent'[x] # NoNode => parent'[x] \in S
      PROVE  Root \in S
  <2> DEFINE T == IF S \cap children[n] = {} THEN S ELSE S \cup {n}
  <2>1. T \in SUBSET LiveNodes /\ T # {}
    BY <1>2, <1>6
  <2>2. ASSUME NEW x \in T, parent[x] # NoNode PROVE parent[x] \in T
    <3>1. CASE x = n
      <4>1. PICK c \in S : c \in children[n]
        BY <1>2, <3>1, <1>6
      <4>2. parent'[c] = parent[n]
        BY <1>2, <4>1
      <4> QED
        BY <1>6, <2>2, <3>1, <4>1, <4>2
    <3>2. CASE x # n /\ x \in children[n]
      <4>1. parent[x] = n
        BY <3>2 DEF HistoryIsTree, IsTree
      <4> QED
        BY <3>2, <4>1
    <3>3. CASE x # n /\ x \notin children[n]
      <4>1. x \in S /\ parent'[x] = parent[x]
        BY <1>2, <3>3
      <4> QED
        BY <1>6, <2>2, <4>1
    <3> QED
      BY <3>1, <3>2, <3>3
  <2>3. Root \in T
    BY <2>1, <2>2 DEF HistoryIsTree, IsTree
  <2> QED
    BY <2>3
<1> QED
  BY <1>3, <1>4, <1>5, <1>6 DEF HistoryIsTree, IsTree

\* A new leaf leaves a tree.
LEMMA TreeBranch ==
  ASSUME NodesTyped, HistoryIsTree, NEW n \in LiveNodes, NEW c \in Snapshots,
         mem[c] = "unused",
         \A x \in Snapshots : mem'[x] = IF x = c THEN "live" ELSE mem[x],
         \A x \in Snapshots : parent'[x] = IF x = c THEN n ELSE parent[x],
         children'[n] = children[n] \cup {c}, children'[c] = {},
         \A x \in Snapshots : x # n /\ x # c => children'[x] = children[x]
  PROVE  HistoryIsTree'
<1> USE RootAssumption, NoNodeAssumption
<1>1. /\ LiveNodes' = LiveNodes \cup {c} /\ LiveNodes \subseteq Snapshots
      /\ c \notin LiveNodes
  BY DEF LiveNodes, Live
<1>2. c # Root /\ Root \in LiveNodes' /\ parent'[Root] = NoNode
  BY <1>1 DEF HistoryIsTree, IsTree
<1>3. ASSUME NEW x \in LiveNodes' \ {Root}
      PROVE  parent'[x] \in LiveNodes' /\ x \in children'[parent'[x]]
  <2>1. CASE x = c
    BY <1>1, <2>1
  <2>2. CASE x # c
    <3>1. parent[x] \in LiveNodes /\ x \in children[parent[x]]
      BY <1>1, <2>2 DEF HistoryIsTree, IsTree
    <3>2. parent'[x] = parent[x] /\ children[parent[x]] \subseteq children'[parent[x]]
      BY <1>1, <2>2, <3>1
    <3> QED
      BY <1>1, <3>1, <3>2
  <2> QED
    BY <2>1, <2>2
<1>4. ASSUME NEW x \in LiveNodes', NEW d \in children'[x]
      PROVE  d \in LiveNodes' /\ parent'[d] = x
  <2>1. x # c
    BY <1>4
  <2>2. CASE d = c
    <3>1. c \notin children[x]
      BY <1>1, <2>1 DEF HistoryIsTree, IsTree
    <3>2. x = n
      BY <1>1, <2>1, <2>2, <3>1
    <3> QED
      BY <1>1, <2>2, <3>2
  <2>3. CASE d # c
    <3>1. d \in children[x] /\ x \in LiveNodes
      BY <1>1, <2>1, <2>3
    <3>2. d \in LiveNodes /\ parent[d] = x
      BY <3>1 DEF HistoryIsTree, IsTree
    <3> QED
      BY <1>1, <2>3, <3>2
  <2> QED
    BY <2>2, <2>3
<1>5. ASSUME NEW S \in SUBSET LiveNodes', S # {},
             \A x \in S : parent'[x] # NoNode => parent'[x] \in S
      PROVE  Root \in S
  <2> DEFINE T == S \ {c}
  <2>1. n \in T \/ c \notin S
    BY <1>1, <1>5
  <2>2. T \in SUBSET LiveNodes /\ T # {}
    BY <1>1, <1>5, <2>1, SMTT(30)
  <2>3. ASSUME NEW x \in T, parent[x] # NoNode PROVE parent[x] \in T
    <3>1. x \in LiveNodes /\ parent'[x] = parent[x] /\ x \in S
      BY <1>1, <2>2
    <3>2. parent[x] \in S
      BY <1>5, <2>3, <3>1
    <3>3. parent[x] # c
      BY <1>1, <1>2, <3>1, <2>3, SMTT(30) DEF HistoryIsTree, IsTree
    <3> QED
      BY <3>2, <3>3
  <2> HIDE DEF T
  <2>4. Root \in T
    BY <2>2, <2>3 DEF HistoryIsTree, IsTree
  <2> QED
    BY <2>4 DEF T
<1> QED
  BY <1>2, <1>3, <1>4, <1>5 DEF HistoryIsTree, IsTree

\* The steps that touch the memory or the links of nodes.
LEMMA LinkSteps ==
  ASSUME [Next]_vars
  PROVE  \/ UNCHANGED <<mem, parent, children>>
         \/ \E t \in Threads, n \in Snapshots : branch(t, n)
         \/ \E t \in Threads : forget_snapshot(t)
         \/ \E t \in Threads, n \in Snapshots :
                do_pack(t, n) /\ Removable(n) /\ do_remove_history_node(n)
         \/ \E t \in Threads, b \in Names :
                /\ do_pack_name(t, b) /\ Removable(named_branches[b])
                /\ do_remove_history_node(named_branches[b])
         \/ \E t \in Threads : load(t)
         \/ create
<1> USE DEF node_vars, Fail
<1>1. ASSUME NEW t \in Threads,
             Continue(t), ~forget_snapshot(t),
             ~ \E n \in Snapshots : do_pack(t, n), ~ \E b \in Names : do_pack_name(t, b)
      PROVE  UNCHANGED <<mem, parent, children>>
  <2>1. CASE drop(t) \/ close_drop1(t)
    BY <2>1 DEF drop, close_drop1
  <2>2. CASE close_drop2(t)
    BY <2>2 DEF close_drop2
  <2>3. CASE master_open(t)
    BY <2>3 DEF master_open
  <2>4. CASE parent_open(t) \/ pack_end(t) \/ do_store(t)
    BY <2>4 DEF parent_open, pack_end, do_store
  <2>5. CASE store_timeout(t) \/ write_image(t) \/ use_freed(t)
    BY <2>5 DEF store_timeout, write_image, use_freed
  <2> QED
    BY <1>1, <2>1, <2>2, <2>3, <2>4, <2>5 DEF Continue
<1>2. ASSUME NEW t \in Threads, Begin(t), ~ \E n \in Snapshots : branch(t, n)
      PROVE  UNCHANGED <<mem, parent, children>>
  <2>1. ASSUME NEW n \in Snapshots,
               \/ commit(t, n) \/ lock_data_for_import(t, n) \/ drop_call(t, n)
               \/ close(t, n) \/ find(t, n) \/ parent_read(t, n) \/ set_master(t, n)
        PROVE  UNCHANGED <<mem, parent, children>>
    BY <2>1 DEF commit, lock_data_for_import, drop_call, close, find, parent_read,
                set_master
  <2>2. ASSUME NEW b \in Names,
               \/ find_branch(t, b) \/ remove_named_branch(t, b)
               \/ \E n \in Snapshots : set_branch(t, b, n)
        PROVE  UNCHANGED <<mem, parent, children>>
    BY <2>2 DEF find_branch, remove_named_branch, set_branch
  <2>3. CASE \/ master_read(t) \/ pack(t) \/ memory_stat(t) \/ linear_history(t)
             \/ \E how \in {"wait", "timed_wait"} : store(t, how)
    BY <2>3 DEF master_read, pack, memory_stat, linear_history, store
  <2> QED
    BY <1>2, <2>1, <2>2, <2>3 DEF Begin
<1>3. ASSUME NEW t \in Threads, NEW n \in Snapshots, do_pack(t, n)
      PROVE  \/ UNCHANGED <<mem, parent, children>>
             \/ Removable(n) /\ do_remove_history_node(n)
  BY <1>3 DEF do_pack
<1>4. ASSUME NEW t \in Threads, NEW b \in Names, do_pack_name(t, b)
      PROVE  \/ UNCHANGED <<mem, parent, children>>
             \/ /\ Removable(named_branches[b])
                /\ do_remove_history_node(named_branches[b])
  BY <1>4 DEF do_pack_name
<1>5. CASE UNCHANGED vars
  BY <1>5 DEF vars
<1> QED
  BY <1>1, <1>2, <1>3, <1>4, <1>5 DEF Next

\* Every step keeps the history one tree.
LEMMA TreeStep ==
  ASSUME TypeOK, HistoryIsTree, RootKept, ActiveAlone, PlaceKnown, TodoLive,
         CommittedHasData, FileOK, ImageIsComplete, [Next]_vars
  PROVE  HistoryIsTree'
<1> USE RootAssumption, NoNodeAssumption
<1>0. NodesTyped
  BY DEF TypeOK, NodesTyped
<1>1. CASE UNCHANGED <<mem, parent, children>>
  BY <1>1 DEF HistoryIsTree, IsTree, LiveNodes, Live
<1>2. ASSUME NEW t \in Threads, NEW n \in Snapshots, branch(t, n) PROVE HistoryIsTree'
  <2>1. PICK c \in Snapshots :
          /\ mem[c] = "unused"
          /\ mem' = [mem EXCEPT ![c] = "live"]
          /\ parent' = [parent EXCEPT ![c] = n]
          /\ children' = [children EXCEPT ![n] = @ \cup {c}, ![c] = {}]
    BY <1>2 DEF branch
  <2>2. n \in LiveNodes /\ n # c
    BY <1>2, <2>1 DEF branch, LiveNodes, Live
  <2>3. /\ \A x \in Snapshots : mem'[x] = IF x = c THEN "live" ELSE mem[x]
        /\ \A x \in Snapshots : parent'[x] = IF x = c THEN n ELSE parent[x]
    BY <1>0, <2>1 DEF NodesTyped
  <2>4. /\ children'[n] = children[n] \cup {c} /\ children'[c] = {}
        /\ \A x \in Snapshots : x # n /\ x # c => children'[x] = children[x]
    BY <1>0, <2>1, <2>2 DEF NodesTyped
  <2> QED
    BY <1>0, <2>1, <2>2, <2>3, <2>4, TreeBranch
<1>3. ASSUME NEW t \in Threads, forget_snapshot(t) PROVE HistoryIsTree'
  <2> DEFINE n == pc[t].node
  <2>1. n \in LiveNodes /\ status[n] = "ACTIVE" /\ n # Root
    BY <1>3
       DEF forget_snapshot, PlaceKnown, PlaceOf, Holding, LiveNodes, Live, RootKept
  <2>2. children[n] = {}
    BY <2>1 DEF ActiveAlone
  <2>3. /\ mem' = [mem EXCEPT ![n] = "freed"]
        /\ children' = [children EXCEPT ![parent[n]] = @ \ {n}]
        /\ parent' = [parent EXCEPT ![n] = NoNode]
    BY <1>3 DEF forget_snapshot, Delete
  <2>4. n \in Snapshots /\ parent[n] \in Snapshots /\ parent[n] # n
    BY <1>0, <2>1, ParentOfNode DEF LiveNodes
  <2> HIDE DEF n
  <2>5. /\ \A x \in Snapshots : mem'[x] = IF x = n THEN "freed" ELSE mem[x]
        /\ \A x \in Snapshots : parent'[x] = IF x \in children[n] THEN parent[n]
                                             ELSE IF x = n THEN NoNode ELSE parent[x]
    BY <1>0, <2>2, <2>3, <2>4 DEF NodesTyped
  <2>6. /\ children'[parent[n]] = (children[parent[n]] \ {n}) \cup children[n]
        /\ \A x \in Snapshots : x # n /\ x # parent[n] => children'[x] = children[x]
    BY <1>0, <2>2, <2>3, <2>4 DEF NodesTyped
  <2> QED
    BY <1>0, <2>1, <2>2, <2>5, <2>6, TreeRemove
<1>4. ASSUME NEW n \in LiveNodes, Removable(n), do_remove_history_node(n)
      PROVE  HistoryIsTree'
  <2>1. CASE \E c, d \in children[n] : c # d
    BY <1>1, <1>4, <2>1 DEF do_remove_history_node, node_vars
  <2>2. CASE ~ \E c, d \in children[n] : c # d
    <3>1. n # Root /\ n \in Snapshots
      BY <1>4 DEF CommittedHasData, RootKept, Removable, LiveNodes
    <3>2. parent[n] \in Snapshots /\ parent[n] # n
      BY <1>0, <3>1, ParentOfNode DEF LiveNodes
    <3>3. /\ mem' = [mem EXCEPT ![n] = "freed"]
          /\ children' = [children EXCEPT
                            ![parent[n]] = (@ \ {n}) \cup children[n], ![n] = {}]
          /\ parent' = [c \in Snapshots |-> IF c \in children[n] THEN parent[n]
                                            ELSE IF c = n THEN NoNode ELSE parent[c]]
      BY <1>4, <2>2 DEF do_remove_history_node, Delete
    <3>4. \A x \in Snapshots : mem'[x] = IF x = n THEN "freed" ELSE mem[x]
      BY <1>0, <3>1, <3>3 DEF NodesTyped
    <3>5. \A x \in Snapshots : parent'[x] = IF x \in children[n] THEN parent[n]
                                            ELSE IF x = n THEN NoNode ELSE parent[x]
      BY <3>3
    <3>6. /\ children'[parent[n]] = (children[parent[n]] \ {n}) \cup children[n]
          /\ \A x \in Snapshots : x # n /\ x # parent[n] => children'[x] = children[x]
      BY <1>0, <3>1, <3>2, <3>3 DEF NodesTyped
    <3>7. \A c, d \in children[n] : c = d
      BY <2>2
    <3> QED
      BY <1>0, <1>4, <3>1, <3>4, <3>5, <3>6, <3>7, TreeRemove
  <2> QED
    BY <2>1, <2>2
<1>5. ASSUME NEW t \in Threads, load(t) PROVE HistoryIsTree'
  <2>1. file.kind = "image" /\ file.nodes \subseteq Snapshots
    BY <1>5 DEF load, FileOK
  <2>2. LiveNodes' = file.nodes
    BY <1>5, <2>1 DEF load, LiveNodes, Live
  <2>3. \A n \in file.nodes : parent'[n] = file.parent[n]
                              /\ children'[n] = file.children[n]
    BY <1>5, <2>1 DEF load
  <2>4. IsTree(file.nodes, file.parent, file.children)
    BY <2>1 DEF ImageIsComplete
  <2> QED
    BY <2>2, <2>3, <2>4 DEF HistoryIsTree, IsTree
<1>6. CASE create
  <2>1. /\ LiveNodes' = {Root}
        /\ parent'[Root] = NoNode /\ children'[Root] = {}
    BY <1>6 DEF create, LiveNodes, Live
  <2> QED
    BY <2>1, SMTT(30) DEF HistoryIsTree, IsTree
<1>7. ASSUME NEW t \in Threads, NEW n \in Snapshots, do_pack(t, n) PROVE n \in LiveNodes
  BY <1>7 DEF do_pack, TodoLive
<1>8. ASSUME NEW t \in Threads, NEW b \in Names, do_pack_name(t, b)
      PROVE  named_branches[b] \in LiveNodes
  BY <1>8 DEF do_pack_name
<1> QED
  BY <1>1, <1>2, <1>3, <1>4, <1>5, <1>6, <1>7, <1>8, LinkSteps

-----------------------------------------------------------------------------
(* The mutex, the work list of pack() and active snapshots *)

\* The mutex is owned by the thread that packs, waits or writes.
LEMMA LocksStep == ASSUME TypeOK, LocksHeld, [Next]_vars PROVE LocksHeld'
<1> USE NoThreadAssumption
<1>0. pc \in [Threads -> PcType]
  BY DEF TypeOK
<1> USE <1>0 DEF PcType, LocksHeld, At, IdleAt, Goto, Fail, Idle, CanLock, Unlocked,
            lock_vars
<1>1. CASE UNCHANGED vars
  BY <1>1 DEF vars
<1>2. ASSUME NEW t \in Threads, Continue(t) PROVE LocksHeld'
  <2>1. CASE drop(t) \/ close_drop1(t) \/ close_drop2(t) \/ forget_snapshot(t)
    BY <2>1, SMTT(30) DEF drop, close_drop1, close_drop2, forget_snapshot
  <2>2. CASE master_open(t) \/ parent_open(t)
    BY <2>2, SMTT(30) DEF master_open, parent_open
  <2>3. CASE \/ \E n \in Snapshots : do_pack(t, n)
             \/ \E b \in Names : do_pack_name(t, b)
    BY <2>3 DEF do_pack, do_pack_name
  <2>4. CASE pack_end(t) \/ do_store(t)
    BY <2>4, SMTT(30) DEF pack_end, do_store, StartPack
  <2>5. CASE store_timeout(t) \/ write_image(t) \/ use_freed(t)
    BY <2>5, SMTT(30) DEF store_timeout, write_image, use_freed
  <2> QED
    BY <1>2, <2>1, <2>2, <2>3, <2>4, <2>5 DEF Continue
<1>3. ASSUME NEW t \in Threads, Begin(t) PROVE LocksHeld'
  <2>1. ASSUME NEW n \in Snapshots,
               \/ branch(t, n) \/ commit(t, n) \/ lock_data_for_import(t, n)
               \/ find(t, n) \/ set_master(t, n)
               \/ \E b \in Names : set_branch(t, b, n)
        PROVE  LocksHeld'
    BY <2>1 DEF branch, commit, lock_data_for_import, find, set_master, set_branch
  <2>2. ASSUME NEW n \in Snapshots, drop_call(t, n) \/ close(t, n) PROVE LocksHeld'
    BY <2>2, SMTT(30) DEF drop_call, close
  <2>3. ASSUME NEW n \in Snapshots, parent_read(t, n) PROVE LocksHeld'
    BY <2>3 DEF parent_read
  <2>4. ASSUME NEW b \in Names, find_branch(t, b) \/ remove_named_branch(t, b)
        PROVE  LocksHeld'
    BY <2>4 DEF find_branch, remove_named_branch
  <2>5. CASE master_read(t) \/ memory_stat(t) \/ linear_history(t)
    BY <2>5, SMTT(30) DEF master_read, memory_stat, linear_history
  <2>6. CASE pack(t) \/ \E how \in {"wait", "timed_wait"} : store(t, how)
    BY <2>6, SMTT(30) DEF pack, StartPack, store
  <2> QED
    BY <1>3, <2>1, <2>2, <2>3, <2>4, <2>5, <2>6 DEF Begin
<1>4. ASSUME NEW t \in Threads, load(t) PROVE LocksHeld'
  BY <1>4 DEF load
<1>5. CASE create
  BY <1>5 DEF create
<1> QED
  BY <1>1, <1>2, <1>3, <1>4, <1>5 DEF Next

\* pack() visits live nodes: nobody deletes one behind its back.
LEMMA TodoStep ==
  ASSUME TypeOK, LocksHeld, TodoLive, PlaceKnown, FileOK, [Next]_vars PROVE TodoLive'
<1> USE NoThreadAssumption
<1> USE DEF TypeOK, PcType, TodoLive, LiveNodes, Live, At, IdleAt, Goto, Fail, Idle,
            CanLock, Unlocked, node_vars, pack_vars
<1>1. CASE UNCHANGED vars
  BY <1>1 DEF vars
<1>2. ASSUME NEW t \in Threads, Continue(t) PROVE TodoLive'
  <2>1. CASE drop(t) \/ close_drop1(t) \/ close_drop2(t)
    BY <2>1 DEF drop, close_drop1, close_drop2
  <2>2. CASE forget_snapshot(t)
    <3>1. todo = {}
      BY <2>2 DEF forget_snapshot, LocksHeld
    <3> QED
      BY <2>2, <3>1 DEF forget_snapshot
  <2>3. CASE master_open(t) \/ parent_open(t)
    BY <2>3 DEF master_open, parent_open
  <2>4. ASSUME NEW n \in Snapshots, do_pack(t, n) PROVE TodoLive'
    <3>1. mem' = mem \/ mem' = [mem EXCEPT ![n] = "freed"]
      BY <2>4 DEF do_pack, do_remove_history_node, Delete
    <3> QED
      BY <2>4, <3>1 DEF do_pack
  <2>5. ASSUME NEW b \in Names, do_pack_name(t, b) PROVE TodoLive'
    BY <2>5 DEF do_pack_name
  <2>6. CASE pack_end(t)
    BY <2>6 DEF pack_end
  <2>7. CASE do_store(t)
    BY <2>7 DEF do_store, StartPack
  <2>8. CASE store_timeout(t) \/ write_image(t) \/ use_freed(t)
    BY <2>8 DEF store_timeout, write_image, use_freed
  <2> QED
    BY <1>2, <2>1, <2>2, <2>3, <2>4, <2>5, <2>6, <2>7, <2>8 DEF Continue
<1>3. ASSUME NEW t \in Threads, Begin(t) PROVE TodoLive'
  <2>1. ASSUME NEW n \in Snapshots,
               \/ commit(t, n) \/ lock_data_for_import(t, n)
               \/ find(t, n) \/ set_master(t, n)
               \/ \E b \in Names : set_branch(t, b, n)
        PROVE  TodoLive'
    BY <2>1 DEF commit, lock_data_for_import, find, set_master, set_branch
  <2>2. ASSUME NEW n \in Snapshots, branch(t, n) PROVE TodoLive'
    BY <2>2, SMTT(30) DEF branch
  <2>3. ASSUME NEW n \in Snapshots, drop_call(t, n) \/ close(t, n) \/ parent_read(t, n)
        PROVE  TodoLive'
    BY <2>3 DEF drop_call, close, parent_read
  <2>4. ASSUME NEW b \in Names, find_branch(t, b) \/ remove_named_branch(t, b)
        PROVE  TodoLive'
    BY <2>4 DEF find_branch, remove_named_branch
  <2>5. CASE master_read(t) \/ memory_stat(t) \/ linear_history(t)
    BY <2>5 DEF master_read, memory_stat, linear_history
  <2>6. CASE pack(t)
    BY <2>6 DEF pack, StartPack
  <2>7. ASSUME NEW how \in {"wait", "timed_wait"}, store(t, how) PROVE TodoLive'
    BY <2>7 DEF store
  <2> QED
    BY <1>3, <2>1, <2>2, <2>3, <2>4, <2>5, <2>6, <2>7 DEF Begin
<1>4. ASSUME NEW t \in Threads, load(t) PROVE TodoLive'
  BY <1>4 DEF load, FileOK
<1>5. CASE create
  BY <1>5 DEF create
<1> QED
  BY <1>1, <1>2, <1>3, <1>4, <1>5 DEF Next

\* Active snapshots stay leaves, exactly counted and open at most once.

\* A handle that can be closed is open.
LEMMA FreeIsOpen ==
  ASSUME TypeOK, NEW n \in Snapshots, FreeHandles(n) > 0
  PROVE  handles[n] > 0
<1> DEFINE U == {t \in Threads : pc[t].self = n}
<1>1. IsFiniteSet(U)
  BY FS_Subset, FiniteAssumption
<1>2. Cardinality(U) \in Nat /\ handles[n] - Cardinality(U) > 0
  BY <1>1, FS_CardinalityType DEF FreeHandles
<1> QED
  BY <1>2, SMTT(30) DEF TypeOK

\* The only handle of a snapshot is used by no call in progress when it may close.
LEMMA FreeAlone ==
  ASSUME TypeOK, NEW n \in Snapshots, handles[n] = 1, FreeHandles(n) > 0
  PROVE  \A t \in Threads : pc[t].self # n
<1> DEFINE U == {t \in Threads : pc[t].self = n}
<1>1. IsFiniteSet(U)
  BY FS_Subset, FiniteAssumption
<1>2. Cardinality(U) \in Nat /\ 1 - Cardinality(U) > 0
  BY <1>1, FS_CardinalityType DEF FreeHandles
<1>3. Cardinality(U) = 0
  BY <1>2, SMTT(30)
<1>4. U = {}
  BY <1>1, <1>3, FS_EmptySet
<1> QED
  BY <1>4

\* Neither a head nor a parent is active: what is opened again is not active.
LEMMA HeadNotActive ==
  ASSUME TypeOK, HeadsCommitted, DropsKept, NEW n \in LiveNodes, n \in Heads
  PROVE  status[n] # "ACTIVE"
  BY DEF HeadsCommitted, DropsKept, LiveNodes, Live

\* Opening a snapshot that is not active leaves the active ones alone.
LEMMA OpenActive ==
  ASSUME TypeOK, ActiveAlone, NEW t \in Threads, NEW n \in Snapshots,
         NEW counts, Open(t, n, counts),
         Live(n), status[n] # "ACTIVE", UNCHANGED node_vars,
         pc' = pc \/ pc' = [pc EXCEPT ![t] = IdleAt]
  PROVE  ActiveAlone'
<1> USE NoNodeAssumption
<1>1. \A x \in Snapshots : x # n => handles'[x] = handles[x] /\ references'[x] = references[x]
  BY DEF Open, TypeOK, count_vars
<1>2. \A u \in Threads, x \in Snapshots : pc'[u].self = x => pc[u].self = x
  BY SMTT(30) DEF TypeOK, PcType, IdleAt, At
<1> QED
  BY <1>1, <1>2, SMTT(30) DEF ActiveAlone, LiveNodes, Live, node_vars

\* A call that goes on without a handle, or ends, uses no further handle.
LEMMA SelfKept ==
  ASSUME TypeOK, NEW t \in Threads, NEW where, NEW node, NEW seen, NEW then,
         Goto(t, At(where, node, NoNode, seen, then))
  PROVE  \A u \in Threads, x \in Snapshots : pc'[u].self = x => pc[u].self = x
  BY NoNodeAssumption DEF TypeOK, Goto, At

\* Removing a node gives its only child to a parent that is not active.
LEMMA RemoveActive ==
  ASSUME TypeOK, HistoryIsTree, RootKept, CommittedHasData, ActiveAlone,
         NEW n \in LiveNodes, Removable(n), do_remove_history_node(n),
         UNCHANGED <<references, handles, pc>>
  PROVE  ActiveAlone'
<1>1. CASE \E c, d \in children[n] : c # d
  BY <1>1 DEF do_remove_history_node, node_vars, ActiveAlone, LiveNodes, Live
<1>2. CASE ~ \E c, d \in children[n] : c # d
  <2>1. n # Root /\ n \in Snapshots /\ NodesTyped
    BY DEF CommittedHasData, RootKept, Removable, LiveNodes, TypeOK, NodesTyped
  <2>2. parent[n] \in LiveNodes /\ n \in children[parent[n]] /\ parent[n] \in Snapshots
    BY <2>1 DEF HistoryIsTree, IsTree, LiveNodes
  <2>3. status[parent[n]] # "ACTIVE"
    BY <2>2 DEF ActiveAlone
  <2>4. /\ mem' = [mem EXCEPT ![n] = "freed"]
        /\ status' = [status EXCEPT ![n] = "ACTIVE"]
        /\ children' = [children EXCEPT
                          ![parent[n]] = (@ \ {n}) \cup children[n], ![n] = {}]
    BY <1>2 DEF do_remove_history_node, Delete
  <2>5. ASSUME NEW x \in LiveNodes', status'[x] = "ACTIVE"
        PROVE  x \in LiveNodes /\ status[x] = "ACTIVE" /\ children'[x] = children[x]
    <3>1. x \in Snapshots /\ x # n /\ x \in LiveNodes
      BY <2>1, <2>4 DEF LiveNodes, Live, NodesTyped
    <3>2. status[x] = "ACTIVE"
      BY <2>1, <2>4, <2>5, <3>1 DEF NodesTyped
    <3>3. x # parent[n]
      BY <2>3, <3>2
    <3> QED
      BY <2>1, <2>4, <3>1, <3>2, <3>3 DEF NodesTyped
  <2> QED
    BY <2>5 DEF ActiveAlone
<1> QED
  BY <1>1, <1>2

\* Every step leaves active snapshots leaves, exactly counted, open at most once.
LEMMA ActiveStep ==
  ASSUME TypeOK, HistoryIsTree, RootKept, ActiveAlone, PlaceKnown, TodoLive, DropsKept,
         HeadsCommitted, CommittedHasData, FileOK, [Next]_vars
  PROVE  ActiveAlone'
<1> USE RootAssumption, NoNodeAssumption
<1> DEFINE Kept == /\ UNCHANGED <<mem, children, references, handles>>
                   /\ \A x \in Snapshots : status'[x] = "ACTIVE" => status[x] = "ACTIVE"
                   /\ \A u \in Threads, x \in Snapshots :
                          pc'[u].self = x => pc[u].self = x \/ handles[x] > 0
<1>0. Kept => ActiveAlone'
  BY SMTT(30) DEF ActiveAlone, LiveNodes, Live
<1> HIDE DEF Kept
<1>1. CASE UNCHANGED vars
  BY <1>0, <1>1 DEF Kept, vars, node_vars, count_vars
<1>2. ASSUME NEW t \in Threads, Continue(t) PROVE ActiveAlone'
  <2>1. CASE drop(t)
    <3>1. Kept
      BY <2>1 DEF Kept, drop, Goto, IdleAt, At, TypeOK, PcType, Statuses, node_vars,
                  count_vars
    <3> QED
      BY <1>0, <3>1
  <2>2. CASE close_drop1(t) \/ close_drop2(t)
    <3>1. UNCHANGED <<mem, status, children, references, handles>>
      BY <2>2 DEF close_drop1, close_drop2, Fail, node_vars, count_vars
    <3>2. \A u \in Threads, x \in Snapshots : pc'[u].self = x => pc[u].self = x
      BY <2>2, SelfKept DEF close_drop1, close_drop2, Fail, IdleAt
    <3> QED
      BY <1>0, <3>1, <3>2 DEF Kept
  <2>3. CASE forget_snapshot(t)
    <3> DEFINE n == pc[t].node
    <3>1. n \in Snapshots
      BY <2>3 DEF forget_snapshot, PlaceKnown, PlaceOf, Holding
    <3>2. /\ mem' = [mem EXCEPT ![n] = "freed"]
          /\ status' = [status EXCEPT ![n] = "ACTIVE"]
          /\ children' = [children EXCEPT ![parent[n]] = @ \ {n}]
          /\ pc' = [pc EXCEPT ![t] = IdleAt]
          /\ UNCHANGED <<references, handles>>
      BY <2>3 DEF forget_snapshot, Delete, Goto, count_vars
    <3>3. \A x \in LiveNodes' : x \in LiveNodes /\ status'[x] = status[x]
      BY <3>1, <3>2 DEF LiveNodes, Live, TypeOK
    <3>4. \A x \in Snapshots : children[x] = {} => children'[x] = {}
      BY <3>2 DEF TypeOK
    <3>5. \A u \in Threads, x \in Snapshots : pc'[u].self = x => pc[u].self = x
      BY <3>2 DEF TypeOK, PcType, IdleAt, At
    <3> QED
      BY <3>2, <3>3, <3>4, <3>5 DEF ActiveAlone, LiveNodes
  <2>4. CASE master_open(t)
    <3> DEFINE n == pc[t].node
    <3>1. CASE master # n
      BY <1>0, <2>4, <3>1 DEF Kept, master_open, Fail, node_vars, count_vars
    <3>2. CASE master = n
      <4>1. n \in LiveNodes /\ n \in Snapshots /\ n \in Heads
        BY <2>4, <3>2 DEF master_open, TypeOK, LiveNodes, Heads
      <4>2. status[n] # "ACTIVE"
        BY <4>1, HeadNotActive
      <4> QED
        BY <2>4, <3>2, <4>1, <4>2, OpenActive DEF master_open, Goto
    <3> QED
      BY <3>1, <3>2
  <2>5. CASE parent_open(t)
    <3>1. PICK p \in Snapshots : p = pc[t].node
      BY <2>5 DEF parent_open, PlaceKnown, PlaceOf, Holding
    <3>2. Live(p) /\ status[p] # "ACTIVE"
      BY <2>5, <3>1 DEF parent_open, PlaceKnown, PlaceOf, Holding
    <3>3. PICK counts : Open(t, p, counts)
      BY <2>5, <3>1 DEF parent_open
    <3>4. UNCHANGED node_vars /\ pc' = [pc EXCEPT ![t] = IdleAt]
      BY <2>5 DEF parent_open, Goto
    <3> QED
      BY <3>2, <3>3, <3>4, OpenActive
  <2>6. ASSUME NEW n \in Snapshots, do_pack(t, n) PROVE ActiveAlone'
    <3>1. n \in LiveNodes /\ UNCHANGED <<references, handles, pc>>
      BY <2>6 DEF do_pack, TodoLive, count_vars
    <3>2. \/ UNCHANGED node_vars
          \/ Removable(n) /\ do_remove_history_node(n)
      BY <2>6 DEF do_pack
    <3> QED
      BY <1>0, <3>1, <3>2, RemoveActive DEF Kept, node_vars
  <2>7. ASSUME NEW b \in Names, do_pack_name(t, b) PROVE ActiveAlone'
    <3> DEFINE n == named_branches[b]
    <3>1. n \in LiveNodes /\ UNCHANGED <<references, handles, pc>>
      BY <2>7 DEF do_pack_name, count_vars
    <3>2. \/ UNCHANGED node_vars
          \/ Removable(n) /\ do_remove_history_node(n)
      BY <2>7 DEF do_pack_name
    <3> QED
      BY <1>0, <3>1, <3>2, RemoveActive DEF Kept, node_vars
  <2>8. CASE pack_end(t) \/ do_store(t) \/ store_timeout(t) \/ write_image(t)
             \/ use_freed(t)
    <3>1. UNCHANGED <<mem, status, children, references, handles>>
      BY <2>8 DEF pack_end, do_store, store_timeout, write_image, use_freed, Fail,
                  node_vars, count_vars
    <3>2. \A u \in Threads, x \in Snapshots : pc'[u].self = x => pc[u].self = x
      BY <2>8, SelfKept
         DEF pack_end, do_store, StartPack, store_timeout, write_image,
                            use_freed, Fail, IdleAt
    <3> QED
      BY <1>0, <3>1, <3>2 DEF Kept
  <2> QED
    BY <1>2, <2>1, <2>2, <2>3, <2>4, <2>5, <2>6, <2>7, <2>8 DEF Continue
<1>3. ASSUME NEW t \in Threads, Begin(t) PROVE ActiveAlone'
  <2>1. ASSUME NEW n \in Snapshots, branch(t, n) PROVE ActiveAlone'
    <3>1. PICK c \in Snapshots :
            /\ mem[c] = "unused"
            /\ mem' = [mem EXCEPT ![c] = "live"]
            /\ status' = [status EXCEPT ![c] = "ACTIVE"]
            /\ children' = [children EXCEPT ![n] = @ \cup {c}, ![c] = {}]
            /\ references' = [references EXCEPT ![c] = 1]
            /\ handles' = [handles EXCEPT ![c] = 1]
      BY <2>1 DEF branch
    <3>2. n # c /\ status[n] = "COMMITTED" /\ pc' = pc
      BY <2>1, <3>1 DEF branch, Live
    <3>3. ASSUME NEW x \in LiveNodes', x # c, status'[x] = "ACTIVE"
          PROVE  /\ x \in LiveNodes /\ status[x] = "ACTIVE" /\ x # n
                 /\ references'[x] = references[x] /\ handles'[x] = handles[x]
                 /\ children'[x] = children[x]
      BY <3>1, <3>2, <3>3 DEF LiveNodes, Live, TypeOK
    <3>4. children'[c] = {} /\ references'[c] = 1 /\ handles'[c] = 1
      BY <3>1 DEF TypeOK
    <3> QED
      BY <3>2, <3>3, <3>4 DEF ActiveAlone
  <2>2. ASSUME NEW n \in Snapshots,
               \/ commit(t, n) \/ lock_data_for_import(t, n) \/ drop_call(t, n)
               \/ parent_read(t, n) \/ set_master(t, n)
               \/ \E b \in Names : set_branch(t, b, n)
        PROVE  ActiveAlone'
    <3>1. /\ UNCHANGED <<mem, children, references, handles>>
          /\ \A x \in Snapshots : status'[x] = "ACTIVE" => status[x] = "ACTIVE"
      BY <2>2 DEF commit, lock_data_for_import, drop_call, parent_read, set_master,
                  set_branch, TypeOK, node_vars, count_vars
    <3>2. \A u \in Threads, x \in Snapshots :
              pc'[u].self = x => pc[u].self = x \/ handles[x] > 0
      <4>1. \/ UNCHANGED pc
            \/ /\ handles[n] > 0
               /\ \/ pc' = [pc EXCEPT ![t] = At("drop", n, n, 0, "idle")]
                  \/ pc' = [pc EXCEPT ![t] = At("parent", parent[n], n,
                                                references[parent[n]], "idle")]
        BY <2>2 DEF commit, lock_data_for_import, drop_call, parent_read,
                           set_master, set_branch, Goto
      <4>2. CASE UNCHANGED pc
        BY <4>2
      <4>3. CASE pc' # pc
        <5>1. pc'[t].self = n /\ \A u \in Threads : u # t => pc'[u] = pc[u]
          BY <4>1, <4>3, SMTT(30) DEF At, TypeOK
        <5> QED
          BY <4>1, <4>3, <5>1
      <4> QED
        BY <4>2, <4>3
    <3> QED
      BY <1>0, <3>1, <3>2 DEF Kept
  <2>3. ASSUME NEW n \in Snapshots, close(t, n) PROVE ActiveAlone'
    <3>1. /\ handles' = [handles EXCEPT ![n] = @ - 1]
          /\ references' = [references EXCEPT ![n] = @ - 1]
          /\ UNCHANGED node_vars /\ Live(n) /\ FreeHandles(n) > 0
      BY <2>3 DEF close
    <3>2. \A u \in Threads, x \in Snapshots : pc'[u].self = x => pc[u].self = x
      BY <2>3, SelfKept DEF close, IdleAt
    <3>3. \A x \in Snapshots : x # n => handles'[x] = handles[x]
                                        /\ references'[x] = references[x]
      BY <3>1 DEF TypeOK
    <3>4. CASE status[n] # "ACTIVE"
      <4>1. ASSUME NEW x \in LiveNodes', status'[x] = "ACTIVE"
            PROVE  x \in LiveNodes /\ status[x] = "ACTIVE" /\ x # n
                   /\ children'[x] = children[x]
        BY <3>1, <3>4, <4>1 DEF LiveNodes, Live, node_vars
      <4>2. ASSUME NEW x \in LiveNodes', status'[x] = "ACTIVE"
            PROVE  /\ children'[x] = {}
                   /\ references'[x] = handles'[x] /\ handles'[x] \in {0, 1}
                   /\ \A u \in Threads : pc'[u].self = x => handles'[x] = 1
        <5>1. x \in LiveNodes /\ status[x] = "ACTIVE" /\ x # n /\ x \in Snapshots
              /\ children'[x] = children[x]
          BY <4>1, <4>2 DEF LiveNodes
        <5>2. handles'[x] = handles[x] /\ references'[x] = references[x]
          BY <3>3, <5>1
        <5> QED
          BY <3>2, <5>1, <5>2 DEF ActiveAlone
      <4> QED
        BY <4>2 DEF ActiveAlone
    <3>5. CASE status[n] = "ACTIVE"
      <4>1. handles[n] = 1
        <5>1. Cardinality({u \in Threads : pc[u].self = n}) \in Nat
          BY FS_Subset, FS_CardinalityType, FiniteAssumption
        <5>2. handles[n] \in {0, 1}
          BY <3>1, <3>5 DEF ActiveAlone, LiveNodes
        <5> QED
          BY <3>1, <5>1, <5>2, SMTT(30) DEF FreeHandles
      <4>2. \A u \in Threads : pc[u].self # n
        BY <3>1, <4>1, FreeAlone
      <4>3. references'[n] = 0 /\ handles'[n] = 0
        <5>1. references[n] = 1
          BY <3>1, <3>5, <4>1 DEF ActiveAlone, LiveNodes
        <5> QED
          BY <3>1, <4>1, <5>1, SMTT(30) DEF TypeOK
      <4>4. ASSUME NEW x \in LiveNodes', status'[x] = "ACTIVE"
            PROVE  /\ children'[x] = {}
                   /\ references'[x] = handles'[x] /\ handles'[x] \in {0, 1}
                   /\ \A u \in Threads : pc'[u].self = x => handles'[x] = 1
        <5>1. x \in LiveNodes /\ status[x] = "ACTIVE" /\ x \in Snapshots
              /\ children'[x] = children[x]
          BY <3>1, <4>4 DEF LiveNodes, Live, node_vars
        <5>2. CASE x = n
          BY <3>2, <4>2, <4>3, <5>1, <5>2 DEF ActiveAlone
        <5>3. CASE x # n
          <6>1. handles'[x] = handles[x] /\ references'[x] = references[x]
            BY <3>3, <5>1, <5>3
          <6> QED
            BY <3>2, <5>1, <6>1 DEF ActiveAlone
        <5> QED
          BY <5>2, <5>3
      <4> QED
        BY <4>4 DEF ActiveAlone
    <3> QED
      BY <3>4, <3>5
  <2>4. ASSUME NEW n \in Snapshots, find(t, n) PROVE ActiveAlone'
    BY <2>4, OpenActive DEF find
  <2>5. ASSUME NEW b \in Names, find_branch(t, b) PROVE ActiveAlone'
    BY <2>5, OpenActive DEF find_branch, TypeOK
  <2>6. ASSUME NEW b \in Names, remove_named_branch(t, b) PROVE ActiveAlone'
    BY <1>0, <2>6 DEF Kept, remove_named_branch, node_vars, count_vars
  <2>7. CASE \/ master_read(t) \/ pack(t) \/ memory_stat(t) \/ linear_history(t)
             \/ \E how \in {"wait", "timed_wait"} : store(t, how)
    <3>1. UNCHANGED <<mem, status, children, references, handles>>
      BY <2>7 DEF master_read, pack, memory_stat, linear_history, store, Fail,
                  node_vars, count_vars
    <3>2. \A u \in Threads, x \in Snapshots : pc'[u].self = x => pc[u].self = x
      BY <2>7, SelfKept
         DEF master_read, pack, StartPack, memory_stat, linear_history,
                            store, Fail
    <3> QED
      BY <1>0, <3>1, <3>2 DEF Kept
  <2> QED
    BY <1>3, <2>1, <2>2, <2>3, <2>4, <2>5, <2>6, <2>7 DEF Begin
<1>4. ASSUME NEW t \in Threads, load(t) PROVE ActiveAlone'
  <2>1. \A u \in Threads : pc'[u].self = NoNode
    BY <1>4 DEF load, IdleAt, At
  <2>2. \A x \in Snapshots : references'[x] = 0 /\ handles'[x] = 0
    BY <1>4 DEF load, Restart
  <2>3. \A x \in LiveNodes' : status'[x] = "ACTIVE" => children'[x] = {}
    BY <1>4 DEF load, FileOK, LiveNodes, Live
  <2> QED
    BY <2>1, <2>2, <2>3, SMTT(30) DEF ActiveAlone, LiveNodes
<1>5. CASE create
  <2>1. \A u \in Threads : pc'[u].self = NoNode
    BY <1>5 DEF create, IdleAt, At
  <2>2. \A x \in Snapshots : /\ references'[x] = 0 /\ handles'[x] = 0
                             /\ children'[x] = {}
    BY <1>5 DEF create, Restart
  <2> QED
    BY <2>1, <2>2 DEF ActiveAlone, LiveNodes
<1> QED
  BY <1>1, <1>2, <1>3, <1>4, <1>5 DEF Next

-----------------------------------------------------------------------------
\* The node held by a call stays as the call expects it.

\* A freed node stays freed; an active node without handles and a dropped node
\* stay so until they are freed.
StableNodes ==
    \A x \in Snapshots :
        /\ mem[x] = "freed" => mem'[x] = "freed"
        /\ (Live(x) /\ status[x] = "ACTIVE" /\ handles[x] = 0) =>
               \/ mem'[x] = "freed"
               \/ mem'[x] = "live" /\ status'[x] = "ACTIVE" /\ handles'[x] = 0
        /\ (Live(x) /\ status[x] = "DROPPED") =>
               \/ mem'[x] = "freed"
               \/ mem'[x] = "live" /\ status'[x] = "DROPPED"

\* Only active nodes may be freed.
KeptNodes ==
    \A x \in Snapshots :
        (Live(x) /\ status[x] # "ACTIVE") => mem'[x] = "live" /\ status'[x] # "ACTIVE"

-----------------------------------------------------------------------------
(* Where calls in progress stand *)

\* A call stays in its place while nodes are stable and it does not move itself.
LEMMA PlaceFrame ==
  ASSUME TypeOK, PlaceKnown, NEW t \in Threads, StableNodes,
         KeptNodes \/ \A u \in Threads : u # t => pc[u].at # "parent",
         \A u \in Threads : u # t => pc'[u] = pc[u],
         PlaceOf(t)'
  PROVE  PlaceKnown'
<1>1. ASSUME NEW u \in Threads, u # t PROVE PlaceOf(u)'
  <2>1. PlaceOf(u) /\ pc'[u] = pc[u]
    BY <1>1 DEF PlaceKnown
  <2>2. pc[u].at = "parent" => KeptNodes
    BY <1>1
  <2> DEFINE x == pc[u].node
  <2>3. CASE x \notin Snapshots
    BY <2>1, <2>3 DEF PlaceOf, Holding
  <2>4. CASE x \in Snapshots
    <3>1. /\ mem[x] = "freed" => mem'[x] = "freed"
          /\ (Live(x) /\ status[x] = "ACTIVE" /\ handles[x] = 0) =>
                 \/ mem'[x] = "freed"
                 \/ mem'[x] = "live" /\ status'[x] = "ACTIVE" /\ handles'[x] = 0
          /\ (Live(x) /\ status[x] = "DROPPED") =>
                 \/ mem'[x] = "freed"
                 \/ mem'[x] = "live" /\ status'[x] = "DROPPED"
      BY <2>4 DEF StableNodes
    <3>2. (pc[u].at = "parent" /\ Live(x) /\ status[x] # "ACTIVE") =>
              mem'[x] = "live" /\ status'[x] # "ACTIVE"
      BY <2>2, <2>4 DEF KeptNodes
    <3> QED
      BY <2>1, <2>4, <3>1, <3>2 DEF PlaceOf, Live, Holding
  <2> QED
    BY <2>3, <2>4
<1> QED
  BY <1>1 DEF PlaceKnown

\* A call that is over, or that holds no node, is vacuously in its place.
LEMMA PlaceIdle ==
  ASSUME NEW t \in Threads, pc'[t].at \notin Holding
  PROVE  PlaceOf(t)'
  BY DEF PlaceOf, Holding

\* Opening a snapshot that is not active moves no node from its place.
LEMMA OpenStable ==
  ASSUME TypeOK, NEW t \in Threads, NEW n \in Snapshots, NEW counts,
         Open(t, n, counts), Live(n), status[n] # "ACTIVE", UNCHANGED node_vars
  PROVE  StableNodes /\ KeptNodes
<1>1. \A x \in Snapshots : x # n => handles'[x] = handles[x]
  BY DEF Open, TypeOK, count_vars
<1>2. UNCHANGED <<mem, status>>
  BY DEF node_vars
<1>3. \A x \in Snapshots : status[x] = "ACTIVE" => handles'[x] = handles[x]
  BY <1>1
<1>4. StableNodes
  BY <1>2, <1>3 DEF StableNodes, Live
<1> QED
  BY <1>2, <1>4 DEF KeptNodes, Live

\* Removing a node moves no other node from its place.
LEMMA RemoveStable ==
  ASSUME TypeOK, NEW n \in LiveNodes, do_remove_history_node(n), UNCHANGED handles
  PROVE  StableNodes
<1>1. CASE UNCHANGED node_vars
  BY <1>1 DEF StableNodes, node_vars, Live
<1>2. CASE Delete(n)
  BY <1>2 DEF StableNodes, Delete, TypeOK, LiveNodes, Live
<1> QED
  BY <1>1, <1>2 DEF do_remove_history_node

\* Every step leaves the nodes held by calls where the calls expect them.
LEMMA PlaceStep ==
  ASSUME TypeOK, HistoryIsTree, RootKept, LocksHeld, ActiveAlone, PlaceKnown, TodoLive,
         DropsKept, HeadsCommitted, [Next]_vars
  PROVE  PlaceKnown'
<1> USE NoNodeAssumption
<1>1. CASE UNCHANGED vars
  BY <1>1 DEF vars, node_vars, count_vars, PlaceKnown, PlaceOf, Live
<1>2. ASSUME NEW t \in Threads, Continue(t) PROVE PlaceKnown'
  <2>1. CASE drop(t)
    <3>1. PICK n \in Snapshots : n = pc[t].node
      BY <2>1 DEF drop, PlaceKnown, PlaceOf, Holding
    <3>2. /\ mem' = mem /\ handles' = handles
          /\ status' = status \/ status' = [status EXCEPT ![n] = "DROPPED"]
      BY <2>1, <3>1 DEF drop, node_vars, count_vars
    <3>3. Live(n) /\ status[n] = "ACTIVE" => handles[n] = 1
      BY <2>1, <3>1 DEF drop, PlaceKnown, PlaceOf, ActiveAlone, LiveNodes
    <3>4. StableNodes /\ KeptNodes
      BY <3>2, <3>3, SMTT(30) DEF StableNodes, KeptNodes, Live, TypeOK
    <3>5. pc'[t].at \notin Holding /\ \A u \in Threads : u # t => pc'[u] = pc[u]
      BY <2>1 DEF drop, Goto, IdleAt, At, TypeOK, Holding
    <3> QED
      BY <3>4, <3>5, PlaceFrame, PlaceIdle
  <2>2. CASE close_drop1(t)
    <3>1. UNCHANGED <<mem, status, handles>>
      BY <2>2 DEF close_drop1, count_vars
    <3>2. StableNodes /\ KeptNodes
      BY <3>1 DEF StableNodes, KeptNodes, Live
    <3>3. /\ pc'[t].at = "forget" /\ pc'[t].node = pc[t].node /\ pc[t].at = "drop1"
          /\ \A u \in Threads : u # t => pc'[u] = pc[u]
      BY <2>2 DEF close_drop1, Goto, At, TypeOK
    <3>4. PlaceOf(t)'
      BY <3>1, <3>3 DEF PlaceKnown, PlaceOf, Holding, Live
    <3> QED
      BY <3>2, <3>3, <3>4, PlaceFrame
  <2>3. CASE close_drop2(t)
    <3>1. UNCHANGED <<mem, status, handles>>
      BY <2>3 DEF close_drop2, Fail, node_vars, count_vars
    <3>2. StableNodes /\ KeptNodes
      BY <3>1 DEF StableNodes, KeptNodes, Live
    <3>3. CASE pc' = pc
      BY <3>1, <3>3 DEF PlaceKnown, PlaceOf, Live
    <3>4. CASE pc' = [pc EXCEPT ![t] = IdleAt]
      <4>1. pc'[t].at \notin Holding /\ \A u \in Threads : u # t => pc'[u] = pc[u]
        BY <3>4 DEF IdleAt, At, TypeOK, Holding
      <4> QED
        BY <3>2, <4>1, PlaceFrame, PlaceIdle
    <3> QED
      BY <2>3, <3>3, <3>4 DEF close_drop2, Fail, Goto
  <2>4. CASE forget_snapshot(t)
    <3>1. PICK n \in Snapshots : n = pc[t].node
      BY <2>4 DEF forget_snapshot, PlaceKnown, PlaceOf, Holding
    <3>2. Delete(n) /\ handles' = handles
      BY <2>4, <3>1 DEF forget_snapshot, count_vars
    <3>3. StableNodes
      BY <3>2 DEF StableNodes, Delete, Live, TypeOK
    <3>4. \A u \in Threads : u # t => pc[u].at # "parent"
      BY <2>4, NoThreadAssumption DEF forget_snapshot, CanLock, LocksHeld
    <3>5. pc'[t].at \notin Holding /\ \A u \in Threads : u # t => pc'[u] = pc[u]
      BY <2>4 DEF forget_snapshot, Goto, IdleAt, At, TypeOK, Holding
    <3> QED
      BY <3>3, <3>4, <3>5, PlaceFrame, PlaceIdle
  <2>5. CASE master_open(t)
    <3>1. CASE master # pc[t].node
      BY <2>5, <3>1
         DEF master_open, Fail, node_vars, count_vars, PlaceKnown, PlaceOf,
                        Live
    <3>2. CASE master = pc[t].node
      <4>1. PICK n \in Snapshots : n = pc[t].node
        BY <3>2 DEF TypeOK
      <4>2. /\ Live(n) /\ UNCHANGED node_vars /\ Open(t, n, {references[n] + 1})
            /\ Goto(t, IdleAt)
        BY <2>5, <3>2, <4>1 DEF master_open
      <4>3. status[n] # "ACTIVE"
        BY <3>2, <4>1, <4>2, HeadNotActive DEF LiveNodes, Heads
      <4>4. StableNodes /\ KeptNodes
        BY <4>2, <4>3, OpenStable
      <4>5. pc'[t].at \notin Holding /\ \A u \in Threads : u # t => pc'[u] = pc[u]
        BY <4>2 DEF Goto, IdleAt, At, TypeOK, Holding
      <4> QED
        BY <4>4, <4>5, PlaceFrame, PlaceIdle
    <3> QED
      BY <3>1, <3>2
  <2>6. CASE parent_open(t)
    <3>1. PICK p \in Snapshots : p = pc[t].node
      BY <2>6 DEF parent_open, PlaceKnown, PlaceOf, Holding
    <3>2. Live(p) /\ status[p] # "ACTIVE"
      BY <2>6, <3>1 DEF parent_open, PlaceKnown, PlaceOf
    <3>3. PICK counts : Open(t, p, counts)
      BY <2>6, <3>1 DEF parent_open
    <3>4. UNCHANGED node_vars /\ Goto(t, IdleAt)
      BY <2>6 DEF parent_open
    <3>5. StableNodes /\ KeptNodes
      BY <3>2, <3>3, <3>4, OpenStable
    <3>6. pc'[t].at \notin Holding /\ \A u \in Threads : u # t => pc'[u] = pc[u]
      BY <3>4 DEF Goto, IdleAt, At, TypeOK, Holding
    <3> QED
      BY <3>5, <3>6, PlaceFrame, PlaceIdle
  <2>7. ASSUME pc[t].at = "pack", UNCHANGED <<handles, pc>>,
               NEW n \in LiveNodes, UNCHANGED node_vars \/ do_remove_history_node(n)
        PROVE  PlaceKnown'
    <3>1. StableNodes
      BY <2>7, RemoveStable DEF StableNodes, node_vars, Live
    <3>2. \A u \in Threads : u # t => pc[u].at # "parent"
      BY <2>7 DEF LocksHeld
    <3>3. pc'[t].at \notin Holding /\ \A u \in Threads : u # t => pc'[u] = pc[u]
      BY <2>7 DEF Holding
    <3> QED
      BY <3>1, <3>2, <3>3, PlaceFrame, PlaceIdle
  <2>8. ASSUME NEW n \in Snapshots, do_pack(t, n) PROVE PlaceKnown'
    BY <2>7, <2>8 DEF do_pack, TodoLive, count_vars
  <2>9. ASSUME NEW b \in Names, do_pack_name(t, b) PROVE PlaceKnown'
    <3>1. PICK n \in LiveNodes : n = named_branches[b]
      BY <2>9 DEF do_pack_name
    <3> QED
      BY <2>7, <2>9, <3>1 DEF do_pack_name, count_vars
  <2>10. CASE pack_end(t) \/ do_store(t) \/ store_timeout(t) \/ write_image(t)
    <3>1. UNCHANGED <<mem, status, handles>>
      BY <2>10
         DEF pack_end, do_store, store_timeout, write_image, node_vars, count_vars
    <3>2. StableNodes /\ KeptNodes
      BY <3>1 DEF StableNodes, KeptNodes, Live
    <3>3. pc'[t].at \notin Holding /\ \A u \in Threads : u # t => pc'[u] = pc[u]
      BY <2>10, SMTT(30)
         DEF pack_end, do_store, StartPack, store_timeout, write_image, Goto,
                   IdleAt, At, TypeOK, Holding
    <3> QED
      BY <3>2, <3>3, PlaceFrame, PlaceIdle
  <2>11. CASE use_freed(t)
    BY <2>11 DEF use_freed, Fail, node_vars, count_vars, PlaceKnown, PlaceOf, Live
  <2> QED
    BY <1>2, <2>1, <2>2, <2>3, <2>4, <2>5, <2>6, <2>8, <2>9, <2>10, <2>11
       DEF Continue
<1>3. ASSUME NEW t \in Threads, Begin(t) PROVE PlaceKnown'
  <2>1. ASSUME pc[t].at = "idle", pc' = pc, StableNodes, KeptNodes PROVE PlaceKnown'
    <3>1. pc'[t].at \notin Holding /\ \A u \in Threads : u # t => pc'[u] = pc[u]
      BY <2>1 DEF Holding
    <3> QED
      BY <2>1, <3>1, PlaceFrame, PlaceIdle
  <2>2. ASSUME UNCHANGED <<mem, status, handles>> PROVE StableNodes /\ KeptNodes
    BY <2>2 DEF StableNodes, KeptNodes, Live
  <2>3. ASSUME NEW n \in Snapshots, branch(t, n) PROVE PlaceKnown'
    <3>1. PICK c \in Snapshots :
            /\ mem[c] = "unused" /\ mem' = [mem EXCEPT ![c] = "live"]
            /\ status' = [status EXCEPT ![c] = "ACTIVE"]
            /\ handles' = [handles EXCEPT ![c] = 1]
      BY <2>3 DEF branch
    <3>2. StableNodes /\ KeptNodes
      BY <3>1 DEF StableNodes, KeptNodes, Live, TypeOK
    <3> QED
      BY <2>1, <2>3, <3>2 DEF branch, Idle
  <2>4. ASSUME NEW n \in Snapshots, commit(t, n) \/ lock_data_for_import(t, n)
        PROVE  PlaceKnown'
    <3>1. PICK new \in {"COMMITTED", "DATA_LOCKED"} :
            /\ mem' = mem /\ handles' = handles /\ pc' = pc
            /\ status' = [status EXCEPT ![n] = new]
            /\ handles[n] > 0 /\ status[n] # "DROPPED" /\ pc[t].at = "idle"
      BY <2>4 DEF commit, lock_data_for_import, count_vars, Idle
    <3>2. StableNodes /\ KeptNodes
      BY <3>1, SMTT(30) DEF StableNodes, KeptNodes, Live, TypeOK
    <3> QED
      BY <2>1, <3>1, <3>2
  <2>5. ASSUME NEW n \in Snapshots, drop_call(t, n) PROVE PlaceKnown'
    <3>1. UNCHANGED <<mem, status, handles>>
      BY <2>5 DEF drop_call, node_vars, count_vars
    <3>2. /\ pc'[t].at = "drop" /\ pc'[t].node = n /\ pc'[t].self = n
          /\ \A u \in Threads : u # t => pc'[u] = pc[u]
      BY <2>5 DEF drop_call, Goto, At, TypeOK
    <3>3. PlaceOf(t)'
      BY <3>2 DEF PlaceOf, Holding
    <3> QED
      BY <2>2, <3>1, <3>2, <3>3, PlaceFrame
  <2>6. ASSUME NEW n \in Snapshots, close(t, n) PROVE PlaceKnown'
    <3>1. /\ Live(n) /\ UNCHANGED <<mem, status>>
          /\ handles' = [handles EXCEPT ![n] = @ - 1]
      BY <2>6 DEF close, node_vars
    <3>2. handles[n] > 0
      <4>1. FreeHandles(n) > 0
        BY <2>6 DEF close
      <4> QED
        BY <4>1, FreeIsOpen
    <3>3. StableNodes
      BY <3>1, <3>2, SMTT(30) DEF StableNodes, Live, TypeOK
    <3>4. KeptNodes
      BY <3>1 DEF KeptNodes, Live
    <3>5. \A u \in Threads : u # t => pc'[u] = pc[u]
      BY <2>6 DEF close, Goto, TypeOK
    <3>6. CASE references[n] = 1 /\ status[n] = "ACTIVE"
      <4>1. pc'[t].at = "drop1" /\ pc'[t].node = n
        BY <2>6, <3>6 DEF close, Goto, At, TypeOK
      <4>2. handles'[n] = 0
        <5>1. references[n] = handles[n]
          BY <3>1, <3>6 DEF ActiveAlone, LiveNodes
        <5> QED
          BY <3>1, <3>6, <5>1, SMTT(30) DEF TypeOK
      <4>3. PlaceOf(t)'
        BY <3>1, <3>6, <4>1, <4>2 DEF PlaceOf, Holding, Live
      <4> QED
        BY <3>3, <3>4, <3>5, <4>3, PlaceFrame
    <3>7. CASE references[n] = 1 /\ status[n] = "DROPPED"
      <4>1. pc'[t].at = "drop2" /\ pc'[t].node = n
        BY <2>6, <3>7 DEF close, Goto, At, TypeOK
      <4>2. PlaceOf(t)'
        BY <3>1, <3>7, <4>1 DEF PlaceOf, Holding, Live
      <4> QED
        BY <3>3, <3>4, <3>5, <4>2, PlaceFrame
    <3>8. CASE ~(references[n] = 1 /\ status[n] \in {"ACTIVE", "DROPPED"})
      <4>1. pc'[t].at \notin Holding
        BY <2>6, <3>8 DEF close, Goto, IdleAt, At, TypeOK, Holding
      <4> QED
        BY <3>3, <3>4, <3>5, <4>1, PlaceFrame, PlaceIdle
    <3> QED
      BY <3>6, <3>7, <3>8
  <2>7. ASSUME NEW n \in Snapshots, find(t, n) PROVE PlaceKnown'
    <3>1. StableNodes /\ KeptNodes
      BY <2>7, OpenStable DEF find
    <3> QED
      BY <2>1, <2>7, <3>1 DEF find, Idle
  <2>8. ASSUME NEW b \in Names, find_branch(t, b) PROVE PlaceKnown'
    <3>1. PICK n \in Snapshots : n = named_branches[b]
      BY <2>8 DEF find_branch, TypeOK
    <3>2. StableNodes /\ KeptNodes
      BY <2>8, <3>1, OpenStable DEF find_branch
    <3> QED
      BY <2>1, <2>8, <3>2 DEF find_branch, Idle
  <2>9. ASSUME NEW s \in Snapshots, parent_read(t, s) PROVE PlaceKnown'
    <3>1. UNCHANGED <<mem, status, handles>>
      BY <2>9 DEF parent_read, node_vars, count_vars
    <3>2. /\ pc'[t].at = "parent" /\ pc'[t].node = parent[s]
          /\ \A u \in Threads : u # t => pc'[u] = pc[u]
      BY <2>9 DEF parent_read, Goto, At, TypeOK
    <3>3. parent[s] \in LiveNodes /\ s \in children[parent[s]]
      BY <2>9 DEF parent_read, HistoryIsTree, IsTree, LiveNodes
    <3>4. Live(parent[s]) /\ status[parent[s]] # "ACTIVE" /\ parent[s] \in Snapshots
      BY <3>3 DEF ActiveAlone, LiveNodes
    <3>5. PlaceOf(t)'
      BY <3>1, <3>2, <3>4 DEF PlaceOf, Holding, Live
    <3> QED
      BY <2>2, <3>1, <3>2, <3>5, PlaceFrame
  <2>10. ASSUME NEW n \in Snapshots, NEW b \in Names,
                set_branch(t, b, n) \/ remove_named_branch(t, b)
         PROVE  PlaceKnown'
    <3>1. UNCHANGED <<mem, status, handles, pc>> /\ pc[t].at = "idle"
      BY <2>10 DEF set_branch, remove_named_branch, node_vars, count_vars, Idle
    <3> QED
      BY <2>1, <2>2, <3>1
  <2>11. CASE memory_stat(t) \/ linear_history(t) \/ \E n \in Snapshots : set_master(t, n)
    <3>1. UNCHANGED <<mem, status, handles, pc>> /\ pc[t].at = "idle"
      BY <2>11
         DEF memory_stat, linear_history, set_master, Fail, node_vars, count_vars,
                   Idle
    <3> QED
      BY <2>1, <2>2, <3>1
  <2>12. CASE master_read(t)
    <3>1. UNCHANGED <<mem, status, handles>>
      BY <2>12 DEF master_read, node_vars, count_vars
    <3>2. /\ pc'[t].at = "master" /\ pc'[t].node = master
          /\ \A u \in Threads : u # t => pc'[u] = pc[u]
      BY <2>12 DEF master_read, Goto, At, TypeOK
    <3>3. PlaceOf(t)'
      BY <3>2 DEF PlaceOf, Holding, TypeOK
    <3> QED
      BY <2>2, <3>1, <3>2, <3>3, PlaceFrame
  <2>13. CASE pack(t) \/ \E how \in {"wait", "timed_wait"} : store(t, how)
    <3>1. UNCHANGED <<mem, status, handles>>
      BY <2>13 DEF pack, store, node_vars, count_vars
    <3>2. pc'[t].at \notin Holding /\ \A u \in Threads : u # t => pc'[u] = pc[u]
      BY <2>13, SMTT(30) DEF pack, store, StartPack, Goto, At, TypeOK, Holding
    <3> QED
      BY <2>2, <3>1, <3>2, PlaceFrame, PlaceIdle
  <2> QED
    BY <1>3, <2>3, <2>4, <2>5, <2>6, <2>7, <2>8, <2>9, <2>10, <2>11, <2>12, <2>13,
       RootAssumption DEF Begin
<1>4. ASSUME NEW t \in Threads, load(t) PROVE PlaceKnown'
  <2>1. \A u \in Threads : pc'[u].at \notin Holding
    BY <1>4 DEF load, IdleAt, At, Holding
  <2> QED
    BY <2>1, PlaceIdle DEF PlaceKnown
<1>5. CASE create
  <2>1. \A u \in Threads : pc'[u].at \notin Holding
    BY <1>5 DEF create, IdleAt, At, Holding
  <2> QED
    BY <2>1, PlaceIdle DEF PlaceKnown
<1> QED
  BY <1>1, <1>2, <1>3, <1>4, <1>5 DEF Next

-----------------------------------------------------------------------------
(* Deadlock: who owns a lock can go on *)

\* A call that owns no lock moves to a place where it owns none.
LEMMA LocksFrame ==
  ASSUME TypeOK, LocksInUse, NEW t \in Threads, NEW where,
         pc[t].at \notin {"parent", "pack", "write", "timed_wait"},
         where.at # "wait", UNCHANGED lock_vars, Goto(t, where)
  PROVE  LocksInUse'
<1>2. mutex # t
  BY NoThreadAssumption DEF LocksInUse
<1>3. pc \in [Threads -> PcType] /\ mutex \in Threads \cup {NoThread}
  BY DEF TypeOK
<1>4. pc'[t] = where /\ \A u \in Threads \ {t} : pc'[u] = pc[u]
  BY <1>3 DEF Goto
<1>5. mutex # NoThread => pc'[mutex] = pc[mutex]
  BY <1>2, <1>3, <1>4
<1>6. mutex' = mutex /\ store_mutex' = store_mutex /\ leaks' = leaks
  BY DEF lock_vars
<1>7. \A u \in Threads : pc'[u].at # "wait"
  BY <1>4 DEF LocksInUse
<1>8. store_mutex # NoThread => mutex # NoThread
  BY DEF LocksInUse
<1> QED
  BY <1>5, <1>6, <1>7, <1>8 DEF LocksInUse

\* An idle client finds mutex_ locked by somebody else, or both mutexes free.
LEMMA IdleLocks ==
  ASSUME TypeOK, LocksInUse, NEW t \in Threads, Idle(t), CanLock(t)
  PROVE  mutex = NoThread /\ store_mutex = NoThread
<1>1. mutex \in {NoThread, t}
  BY DEF CanLock
<1>2. pc[t].at = "idle"
  BY SMTT(30) DEF Idle, IdleAt, At
<1> QED
  BY <1>1, <1>2 DEF LocksInUse

\* Whatever was taken is given back.
LEMMA LocksGiven ==
  ASSUME TypeOK, LocksInUse, NEW t \in Threads,
         mutex' = Unlocked(t), store_mutex' = NoThread, leaks' = leaks, Goto(t, IdleAt)
  PROVE  LocksInUse'
<1>1. pc'[t] = IdleAt /\ \A u \in Threads \ {t} : pc'[u] = pc[u]
  BY DEF Goto, TypeOK
<1>2. IdleAt.at = "idle"
  BY SMTT(30) DEF IdleAt, At
<1>3. \A u \in Threads : pc'[u].at # "wait"
  BY <1>1, <1>2 DEF LocksInUse
<1>4. mutex' = NoThread
  BY DEF Unlocked, LocksInUse
<1> QED
  BY <1>3, <1>4 DEF LocksInUse

\* Every step of a call leaves the locks with calls that can go on.
LEMMA LocksInUseStep ==
  ASSUME CallsEnd, TypeOK, LocksHeld, LocksInUse, [Next]_vars PROVE LocksInUse'
<1> USE DEF lock_vars
<1>0. IdleAt.at = "idle"
  BY SMTT(30) DEF IdleAt, At
<1>1. CASE UNCHANGED <<lock_vars, pc>>
  BY <1>1 DEF LocksInUse
<1>2. ASSUME NEW t \in Threads, Continue(t) PROVE LocksInUse'
  <2>1. CASE drop(t) \/ forget_snapshot(t)
    <3>1. pc[t].at \in {"drop", "forget"} /\ Goto(t, IdleAt) /\ UNCHANGED lock_vars
      BY <2>1 DEF drop, forget_snapshot
    <3> QED
      BY <1>0, <3>1, LocksFrame
  <2>2. CASE close_drop1(t)
    <3>1. /\ pc[t].at = "drop1" /\ UNCHANGED lock_vars
          /\ Goto(t, At("forget", pc[t].node, NoNode, 0, "idle"))
      BY <2>2 DEF close_drop1
    <3>2. At("forget", pc[t].node, NoNode, 0, "idle").at = "forget"
      BY SMTT(30) DEF At
    <3> QED
      BY <3>1, <3>2, LocksFrame
  <2>3. CASE close_drop2(t) \/ master_open(t)
    <3>1. \/ UNCHANGED <<lock_vars, pc>>
          \/ /\ pc[t].at \in {"drop2", "master"} /\ Goto(t, IdleAt)
             /\ UNCHANGED lock_vars
      BY <2>3 DEF close_drop2, master_open, Fail
    <3> QED
      BY <1>0, <1>1, <3>1, LocksFrame
  <2>4. CASE parent_open(t)
    <3>1. pc[t].at = "parent" /\ pc[t].then # "write" /\ mutex = t
      BY <2>4 DEF parent_open, LocksHeld
    <3>2. store_mutex = NoThread
      BY <3>1 DEF LocksInUse
    <3> QED
      BY <2>4, <3>2, LocksGiven DEF parent_open
  <2>5. CASE \/ \E n \in Snapshots : do_pack(t, n)
             \/ \E b \in Names : do_pack_name(t, b)
             \/ use_freed(t)
    BY <1>1, <2>5 DEF do_pack, do_pack_name, use_freed, Fail
  <2>6. CASE pack_end(t) /\ pc[t].then # "write"
    <3>1. pc[t].at = "pack" /\ mutex = t
      BY <2>6 DEF pack_end, LocksHeld
    <3>2. store_mutex = NoThread
      BY <2>6, <3>1 DEF LocksInUse
    <3> QED
      BY <2>6, <3>2, LocksGiven DEF pack_end
  <2>7. CASE \/ pack_end(t) /\ pc[t].then = "write"
             \/ do_store(t)
    <3>1. /\ mutex = t /\ UNCHANGED lock_vars
          /\ \E w \in {"pack", "write"}, th \in {"idle", "write"} :
                 /\ Goto(t, At(w, NoNode, NoNode, 0, th))
                 /\ w = "write" \/ th = "write"
      BY <2>7 DEF pack_end, do_store, StartPack, LocksHeld
    <3>2. PICK w \in {"pack", "write"}, th \in {"idle", "write"} :
              /\ Goto(t, At(w, NoNode, NoNode, 0, th))
              /\ w = "write" \/ th = "write"
      BY <3>1
    <3>3. /\ pc'[t] = At(w, NoNode, NoNode, 0, th)
          /\ \A u \in Threads \ {t} : pc'[u] = pc[u]
      BY <3>2 DEF Goto, TypeOK
    <3>4. pc'[t].at = w /\ pc'[t].then = th
      BY <3>3, SMTT(30) DEF At
    <3>5. \A u \in Threads : pc'[u].at # "wait"
      BY <3>3, <3>4 DEF LocksInUse
    <3> QED
      BY <3>1, <3>2, <3>4, <3>5 DEF LocksInUse
  <2>8. CASE store_timeout(t) \/ write_image(t)
    BY <2>8, LocksGiven DEF store_timeout, write_image
  <2> QED
    BY <1>2, <2>1, <2>2, <2>3, <2>4, <2>5, <2>6, <2>7, <2>8 DEF Continue
<1>3. ASSUME NEW t \in Threads, Begin(t) PROVE LocksInUse'
  <2>1. ASSUME NEW n \in Snapshots,
               \/ branch(t, n) \/ commit(t, n) \/ lock_data_for_import(t, n)
               \/ find(t, n) \/ set_master(t, n)
               \/ \E b \in Names : set_branch(t, b, n)
        PROVE  LocksInUse'
    BY <1>1, <2>1
       DEF branch, commit, lock_data_for_import, find, set_master, set_branch
  <2>2. ASSUME NEW n \in Snapshots, drop_call(t, n) PROVE LocksInUse'
    <3>1. At("drop", n, n, 0, "idle").at = "drop"
      BY SMTT(30) DEF At
    <3> QED
      BY <2>2, <3>1, LocksFrame DEF drop_call, Idle
  <2>3. ASSUME NEW n \in Snapshots, close(t, n) PROVE LocksInUse'
    <3>1. /\ At("drop1", n, NoNode, 0, "idle").at = "drop1"
          /\ At("drop2", n, NoNode, 0, "idle").at = "drop2"
      BY SMTT(30) DEF At
    <3>2. /\ Idle(t) /\ UNCHANGED lock_vars
          /\ \/ Goto(t, At("drop1", n, NoNode, 0, "idle"))
             \/ Goto(t, At("drop2", n, NoNode, 0, "idle"))
             \/ Goto(t, IdleAt)
      BY <2>3 DEF close
    <3> QED
      BY <1>0, <3>1, <3>2, LocksFrame DEF Idle
  <2>4. ASSUME NEW n \in Snapshots, parent_read(t, n) PROVE LocksInUse'
    <3>1. At("parent", parent[n], n, references[parent[n]], "idle").at = "parent"
      BY SMTT(30) DEF At
    <3>2. store_mutex = NoThread
      BY <2>4, IdleLocks DEF parent_read
    <3>3. /\ mutex' = t /\ store_mutex' = NoThread /\ leaks' = leaks
          /\ Goto(t, At("parent", parent[n], n, references[parent[n]], "idle"))
      BY <2>4, <3>2 DEF parent_read
    <3>4. pc'[t].at = "parent" /\ \A u \in Threads \ {t} : pc'[u] = pc[u]
      BY <3>1, <3>3 DEF Goto, TypeOK
    <3>5. \A u \in Threads : pc'[u].at # "wait"
      BY <3>4 DEF LocksInUse
    <3> QED
      BY <3>3, <3>4, <3>5, NoThreadAssumption DEF LocksInUse
  <2>5. ASSUME NEW b \in Names, find_branch(t, b) \/ remove_named_branch(t, b)
        PROVE  LocksInUse'
    BY <1>1, <2>5 DEF find_branch, remove_named_branch
  <2>6. CASE master_read(t)
    <3>1. At("master", master, NoNode, 0, "idle").at = "master"
      BY SMTT(30) DEF At
    <3> QED
      BY <2>6, <3>1, LocksFrame DEF master_read, Idle
  <2>7. CASE memory_stat(t) \/ linear_history(t)
    BY <1>1, <2>7 DEF memory_stat, linear_history, Fail, CallsEnd
  <2>8. CASE pack(t)
    <3>1. At("pack", NoNode, NoNode, 0, "idle").at = "pack"
      BY SMTT(30) DEF At
    <3>2. store_mutex = NoThread
      BY <2>8, IdleLocks DEF pack
    <3>3. /\ mutex' = t /\ store_mutex' = NoThread /\ leaks' = leaks
          /\ Goto(t, At("pack", NoNode, NoNode, 0, "idle"))
      BY <2>8, <3>2 DEF pack, StartPack
    <3>4. pc'[t].at = "pack" /\ \A u \in Threads \ {t} : pc'[u] = pc[u]
      BY <3>1, <3>3 DEF Goto, TypeOK
    <3>5. \A u \in Threads : pc'[u].at # "wait"
      BY <3>4 DEF LocksInUse
    <3> QED
      BY <3>3, <3>4, <3>5, NoThreadAssumption DEF LocksInUse
  <2>9. ASSUME NEW how \in {"wait", "timed_wait"}, store(t, how) PROVE LocksInUse'
    <3>1. how = "timed_wait"
      BY <2>9 DEF store, CallsEnd
    <3>2. At(how, NoNode, NoNode, 0, "idle").at = how
      BY SMTT(30) DEF At
    <3>3. /\ mutex' = t /\ store_mutex' = t /\ leaks' = leaks
          /\ Goto(t, At(how, NoNode, NoNode, 0, "idle"))
      BY <2>9 DEF store
    <3>4. pc'[t].at = "timed_wait" /\ \A u \in Threads \ {t} : pc'[u] = pc[u]
      BY <3>1, <3>2, <3>3 DEF Goto, TypeOK
    <3>5. \A u \in Threads : pc'[u].at # "wait"
      BY <3>4 DEF LocksInUse
    <3> QED
      BY <3>3, <3>4, <3>5, NoThreadAssumption DEF LocksInUse
  <2> QED
    BY <1>3, <2>1, <2>2, <2>3, <2>4, <2>5, <2>6, <2>7, <2>8, <2>9 DEF Begin
<1>4. ASSUME NEW t \in Threads, load(t) PROVE LocksInUse'
  <2>1. /\ mutex' = t /\ store_mutex' = NoThread /\ leaks' = {}
        /\ pc' = [u \in Threads |->
                     IF u = t THEN At("pack", NoNode, NoNode, 0, "idle") ELSE IdleAt]
    BY <1>4 DEF load, Restart
  <2>2. At("pack", NoNode, NoNode, 0, "idle").at = "pack"
    BY SMTT(30) DEF At
  <2>3. pc'[t].at = "pack" /\ \A u \in Threads : pc'[u].at \in {"pack", "idle"}
    BY <1>0, <2>1, <2>2
  <2> QED
    BY <2>1, <2>3 DEF LocksInUse
<1>5. CASE create
  <2>1. /\ mutex' = NoThread /\ store_mutex' = NoThread /\ leaks' = {}
        /\ pc' = [u \in Threads |-> IdleAt]
    BY <1>5 DEF create, Restart
  <2> QED
    BY <1>0, <2>1 DEF LocksInUse
<1> QED
  BY <1>1, <1>2, <1>3, <1>4, <1>5 DEF Next, vars

\* What pack() has left to visit has a node whose children are all done: follow
\* the nodes of a tree down from any of them.
LEMMA PackHasLeaf ==
  ASSUME TypeOK, HistoryIsTree, todo \subseteq LiveNodes, todo # {}
  PROVE  \E n \in todo : children[n] \cap todo = {}
<1> SUFFICES ASSUME \A n \in todo : children[n] \cap todo # {} PROVE FALSE
  OBVIOUS
<1> DEFINE Y == {c \in todo : parent[c] \in todo}
           up == [c \in Y |-> parent[c]]
<1>1. IsFiniteSet(todo) /\ IsFiniteSet(Y)
  <2>1. todo \subseteq Snapshots /\ Y \subseteq Snapshots
    BY DEF TypeOK
  <2> QED
    BY <2>1, FiniteAssumption, FS_Subset
<1>2. up \in Surjection(Y, todo)
  <2>1. up \in [Y -> todo]
    OBVIOUS
  <2>2. ASSUME NEW n \in todo PROVE \E c \in Y : up[c] = n
    <3>1. PICK c \in todo : c \in children[n]
      OBVIOUS
    <3>2. parent[c] = n
      BY <3>1 DEF HistoryIsTree, IsTree
    <3> QED
      BY <3>2
  <2> QED
    BY <2>1, <2>2 DEF Surjection
<1>3. Cardinality(todo) <= Cardinality(Y)
  BY <1>1, <1>2, FS_Surjection
<1>4. Y = todo
  <2>1. Y \subseteq todo
    OBVIOUS
  <2>2. Cardinality(Y) <= Cardinality(todo) /\ (Cardinality(todo) = Cardinality(Y) => Y = todo)
    BY <1>1, <2>1, FS_Subset
  <2>3. Cardinality(Y) \in Nat /\ Cardinality(todo) \in Nat
    BY <1>1, FS_CardinalityType
  <2>4. Cardinality(todo) = Cardinality(Y)
    <3> HIDE DEF Y
    <3> QED
      BY <1>3, <2>2, <2>3, SMTT(30)
  <2> QED
    BY <2>2, <2>4
<1>5. \A n \in todo : parent[n] \in todo
  BY <1>4
<1>6. Root \in todo
  BY <1>5 DEF HistoryIsTree, IsTree
<1>7. parent[Root] = NoNode /\ NoNode \notin Snapshots
  BY NoNodeAssumption DEF HistoryIsTree, IsTree
<1> QED
  BY <1>5, <1>6, <1>7 DEF TypeOK
====
