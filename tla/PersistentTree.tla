---- MODULE PersistentTree ----
(***************************************************************************)
(* PersistentTree: the copy-on-write B+ tree that holds the blocks of the  *)
(* snapshots.  Snapshots share nodes; a node and a block count the nodes   *)
(* and roots that point to them.  The nodes and the blocks are one heap    *)
(*                                                                         *)
(*     [node |-> .., block |-> .., root |-> .., fault |-> ..]              *)
(*                                                                         *)
(* with the root of the snapshot at work, which the operations of the tree *)
(* transform; freed memory has type "free", resp. count 0.  A path is the  *)
(* sequence of nodes from a leaf up to the root.  Positions count from 1,  *)
(* and index_, which reindex rebuilds at each change, is read off keys_.   *)
(*                                                                         *)
(* A call is one step.  The nodes that are not shared belong to one        *)
(* writer, and the entries of shared ones never change.  Their counts do:  *)
(* update_path reads them and clones under the locks of PathLocker, and    *)
(* the unref of another snapshot's update or drop waits for these locks.   *)
(***************************************************************************)
EXTENDS Integers, Sequences, FiniteSets, FiniteSetsExt, SequencesExt
CONSTANTS Snapshots, First,     \* the snapshots, and the one the store starts with
          Keys,                 \* block ids
          NodeSize,             \* entries of a node
          NodeIndexSize,        \* keys under one entry of index_
          MaxNodes, MaxBlocks,  \* bounds: memory
          MaxCalls,             \* bound: calls of the snapshots
          Loaded                \* number of keys in First to begin with
VARIABLES node, block,          \* the heap
          root, size,           \* of each snapshot: its root and the root's metadata
          status,               \* of each snapshot
          fault,                \* how a call went wrong for good, or "none"
          calls                 \* number of calls so far
vars == <<node, block, root, size, status, fault, calls>>

Nil == 0
NullKey == 0                \* Key()
NodeIds == 1..MaxNodes
BlockIds == 1..MaxBlocks
Free == [type |-> "free", keys |-> <<>>, data |-> <<>>, refs |-> 0]

ASSUME TreeAssumption ==
    /\ First \in Snapshots /\ Keys \subseteq Nat \ {NullKey}
    /\ NodeSize \in Nat \ {0, 1} /\ NodeIndexSize \in Nat \ {0}
    /\ MaxNodes \in Nat /\ MaxBlocks \in Nat /\ MaxCalls \in Nat
    /\ 1..Loaded \subseteq Keys

(***************************************************************************)
(* Nodes                                                                   *)
(***************************************************************************)

Size(h, n) == Len(h.node[n].keys)
\* Mutant: one entry too many.
MutHasSpace(h, n) == Size(h, n) <= NodeSize
has_space(h, n) == Size(h, n) < NodeSize
capacity(h, n) == NodeSize - Size(h, n)
should_merge(h, n) == Size(h, n) <= NodeSize \div 2
IsLeaf(h, n) == h.node[n].type = "leaf"

\* keys_[size_ - 1]; an empty node reads the empty end of index_ instead.
max_key(h, n) == IF Size(h, n) = 0 THEN NullKey ELSE Last(h.node[n].keys)

\* index_[g]: the last key of the g-th group of keys, as reindex leaves it.
index(h, n, g) == h.node[n].keys[Min({g * NodeIndexSize, Size(h, n)})]

\* Mutant: a group whose last key is k is passed over.
MutFindKey(h, n, k) ==
    LET last_idx == (Size(h, n) + NodeIndexSize - 1) \div NodeIndexSize
        groups == {g \in 1..last_idx : k < index(h, n, g)}
        start == (Min(groups) - 1) * NodeIndexSize + 1
    IN IF groups = {} THEN Size(h, n) + 1
       ELSE Min({i \in start..Size(h, n) : k <= h.node[n].keys[i]})

\* The first group that reaches k, and in it the first key that does; or past the end.
find_key(h, n, k) ==
    LET last_idx == (Size(h, n) + NodeIndexSize - 1) \div NodeIndexSize
        groups == {g \in 1..last_idx : k <= index(h, n, g)}
        start == (Min(groups) - 1) * NodeIndexSize + 1
    IN IF groups = {} THEN Size(h, n) + 1
       ELSE Min({i \in start..Size(h, n) : k <= h.node[n].keys[i]})

find_child(h, n, k) == h.node[n].data[Min({find_key(h, n, k), Size(h, n)})]

\* 0 when the child is not there (-1 in the code).
find_child_node(h, n, child) == SelectInSeq(h.node[n].data, LAMBDA c : c = child)

\* key(i) = k; key(-1) falls into index_ and is lost.
set_key(h, n, i, k) == IF i = 0 THEN h ELSE [h EXCEPT !.node[n].keys[i] = k]

ref(h, n, d) == [h EXCEPT !.node[n].refs = @ + d]

insert(h, n, i, k, d) == [h EXCEPT !.node[n].keys = InsertAt(@, i, k),
                                   !.node[n].data = InsertAt(@, i, d)]

Alloc(h) == Min({n \in NodeIds : h.node[n].type = "free"})
Delete(h, n) == [h EXCEPT !.node[n] = Free]
create_node(h, n, type) == [h EXCEPT !.node[n] = [Free EXCEPT !.type = type]]

ref_block(h, b, d) == [h EXCEPT !.block[b] = @ + d]

\* Mutant: the blocks of a copied leaf are not counted.
MutRefChildren(h, n) ==
    FoldLeft(LAMBDA g, x : IF IsLeaf(h, n) THEN g ELSE ref(g, x, 1), h, h.node[n].data)

\* A copy n of a node is one more user of what it points to.
ref_children(h, n) ==
    FoldLeft(LAMBDA g, x : IF IsLeaf(h, n) THEN ref_block(g, x, 1) ELSE ref(g, x, 1),
             h, h.node[n].data)

clone_node(h, n, copy) ==
    ref_children([h EXCEPT !.node[copy] = [h.node[n] EXCEPT !.refs = 0]], copy)

\* HistoryNode::set_root
set_root(h, n) == ref([ref(h, h.root, -1) EXCEPT !.root = n], n, 1)

(***************************************************************************)
(* Paths.  p is [h |-> heap, path |-> path], and for split_path and        *)
(* merge_paths also next, a second path.                                   *)
(***************************************************************************)

RECURSIVE locate(_, _, _)
locate(h, path, k) ==
    IF IsLeaf(h, path[1]) THEN path
    ELSE locate(h, <<find_child(h, path[1], k)>> \o path, k)

find_value_in(h, r, k) ==
    LET descend[n \in NodeIds] == IF IsLeaf(h, n) THEN n ELSE descend[find_child(h, n, k)]
        value[n \in NodeIds] ==
            LET i == find_key(h, n, k)
            IN IF i <= Size(h, n) /\ h.node[n].keys[i] = k THEN h.node[n].data[i] ELSE Nil
    IN value[descend[r]]

\* Clones the nodes of levels top, top - 1 .. bottom; the root is never shared.
RECURSIVE clone_path(_, _, _)
clone_path(p, top, bottom) ==
    IF top < bottom THEN p
    ELSE LET n == p.path[top]
             parent == p.path[top + 1]
             i == find_child_node(p.h, parent, n)
             clone == Alloc(p.h)
             h1 == ref(clone_node(p.h, n, clone), n, -1)
             h2 == ref([h1 EXCEPT !.node[parent].data[i] = clone], clone, 1)
         IN clone_path([h |-> h2, path |-> [p.path EXCEPT ![top] = clone]], top - 1, bottom)

IsShared(p) == \E l \in 1..(Len(p.path) - 1) : p.h.node[p.path[l]].refs > 1

update_path(p) == IF IsShared(p) THEN clone_path(p, Len(p.path) - 1, 1) ELSE p

RECURSIVE update_keys_up(_, _, _, _)
update_keys_up(h, path, at, l) ==
    IF l = Len(path) \/ at < Size(h, path[l]) THEN h
    ELSE LET i == find_child_node(h, path[l + 1], path[l])
         IN update_keys_up(set_key(h, path[l + 1], i, max_key(h, path[l])), path, i, l + 1)

\* Mutant: the child does not count its new parent.
MutInsertChild(h, n, i, child) == insert(h, n, i, max_key(h, child), child)

insert_child_node(h, n, i, child) == ref(insert(h, n, i, max_key(h, child), child), child, 1)

split_node(h, n, right) ==
    LET at == Size(h, n) \div 2
        old == h.node[n]
    IN [create_node(h, right, old.type) EXCEPT
            !.node[n].keys = SubSeq(@, 1, at), !.node[n].data = SubSeq(@, 1, at),
            !.node[right].keys = SubSeq(old.keys, at + 1, Len(old.keys)),
            !.node[right].data = SubSeq(old.data, at + 1, Len(old.data))]

\* The root splits: a new root above both halves.
split_root(p, n, right) ==
    LET new == Alloc(p.h)
        h1 == create_node(p.h, new, "branch")
        h2 == insert_child_node(insert_child_node(h1, new, 1, n), new, 2, right)
    IN [h |-> set_root(h2, new), path |-> Append(p.path, new),
        next |-> Append([p.next EXCEPT ![Len(p.next)] = right], new)]

RECURSIVE split_path(_, _)
split_path(p, l) ==
    LET n == p.path[l]
        right == Alloc(p.h)
        h1 == split_node(p.h, n, right)
    IN IF l = Len(p.path) THEN split_root([p EXCEPT !.h = h1], n, right)
       ELSE LET parent == p.path[l + 1]
                i == find_child_node(h1, parent, n)
                h2 == update_keys_up(set_key(h1, parent, i, max_key(h1, n)), p.path, i, l + 1)
                link(h, path, q, at) ==
                    update_keys_up(insert_child_node(h, q, at, right), path, at, l + 1)
            IN IF has_space(h2, parent)
               THEN [p EXCEPT !.h = link(h2, p.path, parent, i + 1), !.next[l] = right]
               ELSE LET q == split_path([p EXCEPT !.h = h2], l + 1)
                        j == i - Size(q.h, parent)
                    IN IF j > 0
                       THEN [q EXCEPT !.h = link(q.h, q.next, q.next[l + 1], j + 1),
                                      !.path[l + 1] = q.next[l + 1], !.next[l] = right]
                       ELSE LET next == [q.next EXCEPT ![l + 1] = q.path[l + 1], ![l] = right]
                            IN [q EXCEPT !.h = link(q.h, q.path, parent, i + 1), !.next = next]

\* p after update_path
insert_to(p, i, k, b) ==
    IF has_space(p.h, p.path[1]) THEN insert(p.h, p.path[1], i, k, b)
    ELSE LET q == split_path([h |-> p.h, path |-> p.path, next |-> p.path], 1)
             j == i - Size(q.h, q.path[1])
             put(path, at) == update_keys_up(insert(q.h, path[1], at, k, b), path, at, 1)
         IN IF j > 0 THEN put(q.next, j) ELSE put(q.path, i)

\* The path to the node right (d = 1) or left (d = -1) of path's at level l, or <<>>.
RECURSIVE Neighbour(_, _, _, _)
Neighbour(h, path, l, d) ==
    IF l = Len(path) THEN <<>>
    ELSE LET children(n) == h.node[n].data
             i == find_child_node(h, path[l + 1], path[l]) + d
             up == Neighbour(h, path, l + 1, d)
         IN CASE i \in 1..Size(h, path[l + 1]) -> [path EXCEPT ![l] = children(path[l + 1])[i]]
              [] i \notin 1..Size(h, path[l + 1]) /\ up = <<>> -> <<>>
              [] OTHER -> [up EXCEPT ![l] = IF d = 1 THEN children(up[l + 1])[1]
                                                     ELSE Last(children(up[l + 1]))]
get_next_node(h, path) == Neighbour(h, path, 1, 1)
get_prev_node(h, path) == Neighbour(h, path, 1, -1)

RECURSIVE can_merge_paths(_, _, _, _)
can_merge_paths(h, path, next, l) ==
    /\ capacity(h, path[l]) >= Size(h, next[l])
    /\ IF path[l + 1] = next[l + 1]
       THEN find_child_node(h, path[l + 1], next[l]) = find_child_node(h, path[l + 1], path[l]) + 1
       ELSE can_merge_paths(h, path, next, l + 1)

\* merge_from, and the removal of the right node from the parent.  i is 0 when a
\* stale path makes n no child of parent: then its first entry is removed.
merge_from(h, n, right, parent, i) ==
    LET h1 == [h EXCEPT !.node[n].keys = @ \o h.node[right].keys,
                        !.node[n].data = @ \o h.node[right].data]
        h2 == set_key(h1, parent, i, max_key(h1, n))
    IN [Delete(h2, right) EXCEPT !.node[parent].keys = RemoveAt(@, i + 1),
                                 !.node[parent].data = RemoveAt(@, i + 1)]

\* The root has one child left, which becomes the root.
collapse_root(p, n, old) ==
    LET h == Delete(ref(set_root(p.h, n), n, -1), old)
    IN [h |-> [h EXCEPT !.fault = IF h.node[n].refs = 1 THEN @ ELSE "assertion"],
        path |-> Front(p.path), next |-> Front(p.next)]

\* Where the paths are stale (remove_from), a merge destroys the tree: what is
\* left is not followed further, and fault says how it ends.
RECURSIVE merge_paths(_, _)
merge_paths(p, l) ==
    LET q == IF p.path[l + 1] = p.next[l + 1] THEN p ELSE merge_paths(p, l + 1)
        n == q.path[l]
        right == q.next[l]
        parent == q.path[l + 1]
        i == find_child_node(q.h, parent, n)
        fault1 == CASE Size(q.h, n) + Size(q.h, right) > NodeSize -> "overflow"
                    [] find_child_node(q.h, parent, right) # i + 1 -> "stale"
                    [] OTHER -> "none"
        h1 == update_keys_up(merge_from(q.h, n, right, parent, i), q.path, i, l + 1)
        r == [q EXCEPT !.h = [h1 EXCEPT !.fault = fault1], !.next[l] = n]
    IN CASE q.h.fault # "none" -> q
         [] q.h.fault = "none" /\ fault1 = "overflow" -> [q EXCEPT !.h.fault = fault1]
         [] OTHER -> IF parent = r.h.root /\ Size(r.h, parent) = 1
                     THEN collapse_root(r, n, parent) ELSE r

\* p after update_path.  The second update_path may clone branches that both
\* paths go through; the first path then still holds the old ones.
merge_leaf(h, path) ==
    LET next == get_next_node(h, path)
        prev == get_prev_node(h, path)
        updated(q) == update_path([h |-> h, path |-> q])
    IN CASE next # <<>> /\ can_merge_paths(h, path, next, 1) ->
                LET q == updated(next)
                IN merge_paths([h |-> q.h, path |-> path, next |-> q.path], 1).h
         [] next = <<>> /\ prev # <<>> /\ can_merge_paths(h, prev, path, 1) ->
                LET q == updated(prev)
                IN merge_paths([h |-> q.h, path |-> q.path, next |-> path], 1).h
         [] OTHER -> h

\* A leaf that is empty and cannot be merged has the null key in the branches
\* above it.  When that is not their first key, find_key misses the keys before
\* it: nothing can be said of the tree from then on.
CheckOrder(h) ==
    IF h.fault = "none" /\ \E n \in NodeIds : \E i \in 1..(Size(h, n) - 1) :
                               h.node[n].keys[i] > h.node[n].keys[i + 1]
    THEN [h EXCEPT !.fault = "unordered"] ELSE h

remove_from(p, i) ==
    LET leaf == p.path[1]
        h1 == [p.h EXCEPT !.block[p.h.node[leaf].data[i]] = @ - 1,
                          !.node[leaf].keys = RemoveAt(@, i),
                          !.node[leaf].data = RemoveAt(@, i)]
        h2 == update_keys_up(h1, p.path, i, 1)
    IN CheckOrder(IF should_merge(h2, leaf) THEN merge_leaf(h2, p.path) ELSE h2)

\* delete_tree, with the blocks of each leaf
RECURSIVE delete_tree(_, _)
delete_tree(h, n) ==
    LET unref(g, x) == IF IsLeaf(h, n) THEN ref_block(g, x, -1) ELSE delete_tree(g, x)
        h1 == ref(h, n, -1)
    IN IF h1.node[n].refs # 0 THEN h1 ELSE Delete(FoldLeft(unref, h1, h.node[n].data), n)

(***************************************************************************)
(* The calls of the snapshots                                              *)
(***************************************************************************)

Heap(s) == [node |-> node, block |-> block, root |-> root[s], fault |-> "none"]

\* p: the path to k, after update_path
assign_at(p, k, b) ==
    LET leaf == p.path[1]
        i == find_key(p.h, leaf, k)
    IN IF i <= Size(p.h, leaf) /\ p.h.node[leaf].keys[i] = k
       THEN [p.h EXCEPT !.block[p.h.node[leaf].data[i]] = @ - 1, !.node[leaf].data[i] = b]
       ELSE insert_to(p, i, k, b)

PathTo(h, k) == [h |-> h, path |-> locate(h, <<h.root>>, k)]

\* Mutant: the path is not made private first.
MutAssigned(h, k, b) == assign_at(PathTo(ref_block(h, b, 1), k), k, b)

Assigned(h, k, b) == assign_at(update_path(PathTo(ref_block(h, b, 1), k)), k, b)

InitHeap ==
    FoldLeft(LAMBDA h, k : Assigned(h, k, k),
             [node |-> [n \in NodeIds |-> IF n = 1 THEN [Free EXCEPT !.type = "leaf", !.refs = 1]
                                                   ELSE Free],
              block |-> [b \in BlockIds |-> 0], root |-> 1, fault |-> "none"],
             [k \in 1..Loaded |-> k])

Init ==
    /\ node = InitHeap.node /\ block = InitHeap.block
    /\ root = [s \in Snapshots |-> IF s = First THEN InitHeap.root ELSE Nil]
    /\ size = [s \in Snapshots |-> IF s = First THEN Loaded ELSE 0]
    /\ status = [s \in Snapshots |-> IF s = First THEN "active" ELSE "none"]
    /\ fault = "none" /\ calls = 0

find(s, k) == IF status[s] = "none" THEN Nil ELSE find_value_in(Heap(s), root[s], k)
FreeBlocks == {b \in BlockIds : block[b] = 0}
NodesPerCall == 8       \* the most one call allocates in a tree of three levels
HasMemory == Cardinality({n \in NodeIds : node[n].type = "free"}) >= NodesPerCall
Writes(s) == fault = "none" /\ status[s] = "active" /\ HasMemory

\* The call leaves heap h and n more entries in s.  A call that faults ends the
\* behaviour: what it leaves in memory is not looked at.
Leaves(s, h, n) ==
    IF h.fault # "none" THEN fault' = h.fault /\ UNCHANGED <<node, block, root, size, status>>
    ELSE /\ node' = h.node /\ block' = h.block
         /\ root' = [root EXCEPT ![s] = h.root]
         /\ size' = [size EXCEPT ![s] = @ + n]
         /\ UNCHANGED <<status, fault>>

Added(s, k) == IF find(s, k) = Nil THEN 1 ELSE 0

\* ptree_set_new_block
assign(s, k) ==
    /\ Writes(s) /\ FreeBlocks # {}
    /\ Leaves(s, Assigned(Heap(s), k, Min(FreeBlocks)), Added(s, k))

\* import_new_ctr_from, import_ctr_from: the two snapshots share the block of t.
import(s, t, k) ==
    /\ Writes(s) /\ status[t] = "committed"
    /\ find(t, k) \notin {Nil, find(s, k)}
    /\ Leaves(s, Assigned(Heap(s), k, find(t, k)), Added(s, k))

\* removeBlock, releaseBlock; of a block the snapshot has
remove(s, k) ==
    /\ Writes(s) /\ find(s, k) # Nil
    /\ LET p == update_path(PathTo(Heap(s), k))
       IN Leaves(s, remove_from(p, find_key(p.h, p.path[1], k)), -1)

\* The constructor of PersistentTree for a new snapshot t.
branch(s, t) ==
    /\ fault = "none" /\ status[s] = "committed" /\ status[t] = "none" /\ HasMemory
    /\ LET n == Alloc(Heap(s))
           h == ref(clone_node(Heap(s), root[s], n), n, 1)
       IN /\ node' = h.node /\ block' = h.block
          /\ root' = [root EXCEPT ![t] = n]
          /\ size' = [size EXCEPT ![t] = size[s]]
    /\ status' = [status EXCEPT ![t] = "active"]
    /\ UNCHANGED fault

commit(s) ==
    /\ fault = "none" /\ status[s] = "active"
    /\ status' = [status EXCEPT ![s] = "committed"]
    /\ UNCHANGED <<node, block, root, size, fault>>

\* do_drop, delete_snapshot; the last handle of s is gone
do_drop(s) ==
    /\ fault = "none" /\ status[s] # "none"
    /\ LET h == delete_tree(Heap(s), root[s]) IN node' = h.node /\ block' = h.block
    /\ root' = [root EXCEPT ![s] = Nil]
    /\ size' = [size EXCEPT ![s] = 0]
    /\ status' = [status EXCEPT ![s] = "none"]
    /\ UNCHANGED fault

Next ==
    /\ calls < MaxCalls /\ calls' = calls + 1
    /\ \E s \in Snapshots :
        \/ \E k \in Keys : assign(s, k)
        \/ \E k \in Keys : remove(s, k)
        \/ \E t \in Snapshots, k \in Keys : import(s, t, k)
        \/ \E t \in Snapshots : branch(s, t)
        \/ commit(s)
        \/ do_drop(s)

Spec == Init /\ [][Next]_vars

(***************************************************************************)
(* Properties                                                              *)
(***************************************************************************)

Live == {s \in Snapshots : status[s] # "none"}
Allocated == {n \in NodeIds : node[n].type # "free"}
EntriesOf(type, x) ==
    Cardinality({e \in Allocated \X (1..NodeSize) :
        /\ node[e[1]].type = type /\ e[2] <= Len(node[e[1]].data) /\ node[e[1]].data[e[2]] = x})

\* The variables have their types: no node holds more than NodeSize entries, and
\* no count of references is negative (the assertion of NodeBase::unref).
TypeOK ==
    /\ \A n \in NodeIds :
        /\ node[n].type \in {"free", "leaf", "branch"} /\ node[n].refs \in Nat
        /\ Len(node[n].keys) = Len(node[n].data) /\ Len(node[n].data) <= NodeSize
    /\ block \in [BlockIds -> Nat]
    /\ root \in [Snapshots -> NodeIds \cup {Nil}] /\ size \in [Snapshots -> Nat]
    /\ status \in [Snapshots -> {"none", "active", "committed"}]
    /\ fault \in {"none", "overflow", "stale", "assertion", "unordered"}
    /\ calls \in 0..MaxCalls

\* A node counts exactly the branches and the snapshots that point to it, and no
\* pointer leads to freed memory, through every clone, split, merge and drop.
RefsExact ==
    /\ \A n \in NodeIds :
        node[n].refs = EntriesOf("branch", n) + Cardinality({s \in Live : root[s] = n})
    /\ \A n \in NodeIds : node[n].refs > 0 => n \in Allocated

\* A block counts exactly the leaf entries that hold it; so drop and remove
\* delete a block when its last entry goes, and not before.
BlocksExact == \A b \in BlockIds : block[b] = EntriesOf("leaf", b)

\* The keys under n, from left to right.
RECURSIVE KeysUnder(_)
KeysUnder(n) ==
    IF node[n].type = "leaf" THEN node[n].keys
    ELSE FoldLeft(LAMBDA ks, c : ks \o KeysUnder(c), <<>>, node[n].data)

RECURSIVE Depths(_)
Depths(n) ==
    IF node[n].type = "leaf" THEN {1}
    ELSE {d + 1 : d \in UNION {Depths(c) : c \in ToSet(node[n].data)}}

\* Every snapshot's tree stays a search tree with all leaves at one depth, and
\* the size in the root's metadata is the number of its entries: splits, merges
\* and the moves of the root lose, repeat or misplace no entry.
SearchTree ==
    \A s \in Live :
        LET ks == KeysUnder(root[s])
        IN /\ \A i \in 1..(Len(ks) - 1) : ks[i] < ks[i + 1]
           /\ Cardinality(Depths(root[s])) = 1
           /\ size[s] = Len(ks)

Map == INSTANCE VersionedMap WITH
           Blocks <- BlockIds,
           content <- [s \in Snapshots |-> [k \in Keys |-> find(s, k)]]

\* The tree implements one map per snapshot: a lookup in any snapshot returns
\* what that snapshot last assigned, imported or inherited under the key, and no
\* call in one snapshot is seen in another, whatever nodes they share.
Implements == Map!Spec

\* The assertion at the end of merge_paths holds: a node that becomes the root
\* has one reference.
RootHasOneReference == fault # "assertion"

====
