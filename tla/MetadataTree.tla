---------------------------- MODULE MetadataTree ----------------------------
(***************************************************************************)
(* The context tree (src/src/caliper/MetadataTree.cpp and                   *)
(* src/include/caliper/common/lockfree-tree.hpp).  All threads share one    *)
(* tree of nodes, each a label (attribute and value) under a parent.  Every *)
(* operation looks for a path and creates the nodes it does not find.  The  *)
(* nodes come from blocks that belong to one thread each; a new node is put *)
(* in front of its parent's list of children by compare-and-swap, without a *)
(* lock.                                                                    *)
(*                                                                          *)
(* A node is its id: block * nodes_per_block + index.  The bootstrap nodes  *)
(* are all children of the root here.  Memory for node data never runs out. *)
(***************************************************************************)
EXTENDS Integers, Sequences, FiniteSets

CONSTANTS
    Threads,
    Attrs, Vals,     \* a label is an attribute and a value
    nodes_per_block,
    num_blocks,
    Bootstrap,       \* the number of bootstrap nodes
    Ops,             \* the operations the threads call
    PathLength,      \* length of the paths of get_path and replace_all_in_path
    MaxCalls         \* bound of the model: calls of each thread

Root == -1
Nil == -2
NoBlock == -1

\* A block that is overrun writes nodes whose ids belong to the next block.
Ids == 0 .. num_blocks * nodes_per_block + PathLength
Labels == Attrs \X Vals
BootLabel == <<"type", "type">>
NoNode == [label |-> BootLabel, parent |-> Nil, next |-> Nil, maker |-> Nil]

ASSUME TreeAssumption ==
    /\ nodes_per_block \in Nat \ {0} /\ num_blocks \in Nat \ {0}
    /\ Bootstrap \in 0 .. nodes_per_block
    /\ PathLength \in Nat \ {0} /\ MaxCalls \in Nat
    /\ Nil \notin Threads

VARIABLES
    mG,         \* the global data exists
    head,       \* first child of every node and of the root
    node,       \* the nodes
    made,       \* ids at which a node was constructed
    next_block,
    index,      \* nodes used in each block
    m_nodeblock,\* the block of each thread
    pc,
    segs,       \* what is left of a call: lists of labels, each looked up by
                \* one get_path, get_child or get_or_copy_node
    parent,     \* the node the lookup is at
    cur,        \* the child it looks at, later the node it appends
    want,       \* history: the path the call asks for
    result,     \* what the last call returned
    got,        \* nodes that were returned to a caller
    calls

vars == <<mG, head, node, made, next_block, index, m_nodeblock, pc, segs,
          parent, cur, want, result, got, calls>>
pool == <<next_block, index, m_nodeblock>>
tree == <<head, node, made>>
local == <<segs, parent, cur, want>>

Init ==
    /\ mG = FALSE
    /\ head = [n \in Ids \cup {Root} |-> Nil]
    /\ node = [n \in Ids |-> NoNode]
    /\ made = {}
    /\ next_block = 1
    /\ index = [b \in 0 .. num_blocks - 1 |-> 0]
    /\ m_nodeblock = [t \in Threads |-> NoBlock]
    /\ pc = [t \in Threads |-> "new"]
    /\ segs = [t \in Threads |-> <<>>]
    /\ parent = [t \in Threads |-> Root]
    /\ cur = [t \in Threads |-> Nil]
    /\ want = [t \in Threads |-> <<>>]
    /\ result = [t \in Threads |-> Nil]
    /\ got = {}
    /\ calls = [t \in Threads |-> 0]

-----------------------------------------------------------------------------
(* MetadataTree(): threads that find no global data build their own and try *)
(* to install it.  The winner owns block 0 with the bootstrap nodes; the    *)
(* loser has no block yet.                                                  *)
LoadGlobal(t) ==
    /\ pc[t] = "new"
    /\ pc' = [pc EXCEPT ![t] = IF mG THEN "idle" ELSE "install"]
    /\ UNCHANGED <<mG, tree, pool, local, result, got, calls>>

(* The new global data is installed if there still is none.                 *)
InstallGlobal(t) ==
    /\ pc[t] = "install"
    /\ pc' = [pc EXCEPT ![t] = "idle"]
    /\ IF mG
       THEN UNCHANGED <<mG, tree, pool>>
       ELSE /\ mG' = TRUE
            /\ made' = 0 .. Bootstrap - 1
            /\ node' = [n \in Ids |->
                          IF n \in made'
                          THEN [label |-> BootLabel, parent |-> Root,
                                next |-> IF n = 0 THEN Nil ELSE n - 1, maker |-> Nil]
                          ELSE node[n]]
            /\ head' = [head EXCEPT ![Root] = IF Bootstrap = 0 THEN Nil ELSE Bootstrap - 1]
            /\ m_nodeblock' = [m_nodeblock EXCEPT ![t] = 0]
            /\ index' = [index EXCEPT ![0] = Bootstrap]
            /\ UNCHANGED next_block
    /\ UNCHANGED <<local, result, got, calls>>

-----------------------------------------------------------------------------
(* Parents of a node never change, so the walks to the root read one path.  *)

(* The labels from the root to a node.                                      *)
PathOf(n) ==
    LET path[m \in Ids] ==
            IF node[m].parent = Root THEN <<node[m].label>>
            ELSE Append(path[node[m].parent], node[m].label)
    IN  IF n \in Ids THEN path[n] ELSE <<>>

(* The nodes from the root to a node.                                       *)
NodesOf(n) ==
    LET nodes[m \in Ids] ==
            IF node[m].parent = Root THEN <<m>>
            ELSE Append(nodes[node[m].parent], m)
    IN  IF n \in Ids THEN nodes[n] ELSE <<>>

LabelsOf(nodes) == [i \in 1 .. Len(nodes) |-> node[nodes[i]].label]
Singles(labels) == [i \in 1 .. Len(labels) |-> <<labels[i]>>]
Data(attr, vals) == [i \in 1 .. Len(vals) |-> <<attr, vals[i]>>]

(* The nodes of a path that carry the attribute, as positions.              *)
With(attr, nodes) == {i \in 1 .. Len(nodes) : node[nodes[i]].label[1] = attr}

Above(nodes, i) == IF i = 1 THEN Root ELSE nodes[i - 1]

(* copy_path_without_attribute(): the labels after position i, except those *)
(* of the attribute.                                                        *)
Without(attr, nodes, i) ==
    LabelsOf(SelectSeq(SubSeq(nodes, i, Len(nodes)),
                       LAMBDA n : node[n].label[1] # attr))

(* A call that looks up lists of labels under a node.                       *)
Start(t, p, lists, path) ==
    /\ pc[t] = "idle" /\ calls[t] < MaxCalls
    /\ calls' = [calls EXCEPT ![t] = @ + 1]
    /\ want' = [want EXCEPT ![t] = path]
    /\ parent' = [parent EXCEPT ![t] = p]
    /\ segs' = [segs EXCEPT ![t] = lists]
    /\ cur' = [cur EXCEPT ![t] = Nil]
    /\ pc' = [pc EXCEPT ![t] = IF lists = <<>> THEN "return" ELSE "load"]
    /\ UNCHANGED <<mG, tree, pool, result, got>>

get_child(t, attr, val, p) ==
    /\ "get_child" \in Ops
    /\ Start(t, p, <<<<<<attr, val>>>>>>, Append(PathOf(p), <<attr, val>>))

(* get_path(attr, n, data, parent)                                          *)
get_path(t, attr, vals, p) ==
    /\ "get_path" \in Ops
    /\ Start(t, p, <<Data(attr, vals)>>, PathOf(p) \o Data(attr, vals))

(* get_path(n, nodelist, parent): get_or_copy_node() for each node.         *)
get_path_nodes(t, nodes, p) ==
    /\ "get_path_nodes" \in Ops
    /\ Start(t, p, Singles(LabelsOf(nodes)), PathOf(p) \o LabelsOf(nodes))

(* What the callers of the edits expect: the labels of a path without the   *)
(* last one of the attribute, and without all of them.                      *)
WithoutLast(attr, labels) ==
    LET found == {i \in 1 .. Len(labels) : labels[i][1] = attr}
        last == CHOOSE i \in found : \A j \in found : j <= i
    IN  IF found = {} THEN labels
        ELSE SubSeq(labels, 1, last - 1) \o SubSeq(labels, last + 1, Len(labels))

WithoutAll(attr, labels) == SelectSeq(labels, LAMBDA l : l[1] # attr)

(* Mutation: the path is copied below the first node of the attribute.      *)
RemovedFromTop(attr, nodes) ==
    LET found == With(attr, nodes)
        i == IF found = {} THEN 1 ELSE CHOOSE j \in found : \A k \in found : j <= k
    IN  [from |-> Above(nodes, i), labels |-> Without(attr, nodes, i)]

(* What remove_first_in_path() looks up: the path below the last node of    *)
(* the attribute, or all of it, and where that goes.                        *)
Removed(attr, nodes) ==
    LET found == With(attr, nodes)
        i == IF found = {} THEN 1 ELSE CHOOSE j \in found : \A k \in found : k <= j
    IN  [from |-> Above(nodes, i), labels |-> Without(attr, nodes, i)]

remove_first_in_path(t, path, attr) ==
    /\ "remove_first_in_path" \in Ops
    /\ LET r == Removed(attr, NodesOf(path)) IN
       Start(t, r.from, Singles(r.labels), WithoutLast(attr, PathOf(path)))

replace_first_in_path(t, path, attr, val) ==
    /\ "replace_first_in_path" \in Ops
    /\ LET r == Removed(attr, NodesOf(path)) IN
       Start(t, r.from, Singles(Append(r.labels, <<attr, val>>)),
             Append(WithoutLast(attr, PathOf(path)), <<attr, val>>))

(* All nodes of the attribute go: the copy starts above the first of them.  *)
replace_all_in_path(t, path, attr, vals) ==
    /\ "replace_all_in_path" \in Ops
    /\ LET nodes == NodesOf(path)
           found == With(attr, nodes)
           i == IF found # {} THEN CHOOSE j \in found : \A k \in found : j <= k
                ELSE IF nodes # <<>> THEN Len(nodes) ELSE 1
       IN  Start(t, Above(nodes, i),
                 Append(Singles(Without(attr, nodes, i)), Data(attr, vals)),
                 WithoutAll(attr, PathOf(path)) \o Data(attr, vals))

-----------------------------------------------------------------------------
(* The lookup of one list of labels below parent[t].                        *)

(* Mutation: the search starts at the second child.                         *)
LoadSecond(t) ==
    /\ pc[t] = "load"
    /\ cur' = [cur EXCEPT ![t] = IF head[parent[t]] = Nil THEN Nil
                                 ELSE node[head[parent[t]]].next]
    /\ pc' = [pc EXCEPT ![t] = "search"]
    /\ UNCHANGED <<mG, tree, pool, segs, parent, want, result, got, calls>>

(* first_child()                                                            *)
LoadHead(t) ==
    /\ pc[t] = "load"
    /\ cur' = [cur EXCEPT ![t] = head[parent[t]]]
    /\ pc' = [pc EXCEPT ![t] = "search"]
    /\ UNCHANGED <<mG, tree, pool, segs, parent, want, result, got, calls>>

(* The first label of the list was resolved to node n.                      *)
Descend(t, n) ==
    LET list == Head(segs[t])
        rest == IF Len(list) = 1 THEN Tail(segs[t])
                ELSE <<Tail(list)>> \o Tail(segs[t])
    IN  /\ parent' = [parent EXCEPT ![t] = n]
        /\ segs' = [segs EXCEPT ![t] = rest]

(* Node::equals()                                                           *)
Equals(n, label) == node[n].label = label

Match(t) ==
    /\ pc[t] = "search" /\ cur[t] # Nil
    /\ Equals(cur[t], Head(Head(segs[t])))
    /\ Descend(t, cur[t])
    /\ pc' = [pc EXCEPT ![t] = IF segs'[t] = <<>> THEN "return" ELSE "load"]
    /\ UNCHANGED <<mG, tree, pool, cur, want, result, got, calls>>

NextSibling(t) ==
    /\ pc[t] = "search" /\ cur[t] # Nil
    /\ ~Equals(cur[t], Head(Head(segs[t])))
    /\ cur' = [cur EXCEPT ![t] = node[cur[t]].next]
    /\ UNCHANGED <<mG, tree, pool, pc, segs, parent, want, result, got, calls>>

(* Mutation: one node is taken for free.                                    *)
NeedsBlockLate(t, n) ==
    m_nodeblock[t] # NoBlock => index[m_nodeblock[t]] + n > nodes_per_block + 1

(* The thread's block cannot take n more nodes.                             *)
NeedsBlock(t, n) ==
    m_nodeblock[t] # NoBlock => index[m_nodeblock[t]] + n >= nodes_per_block

(* A list that cannot be created yields a null node.  The next list, if     *)
(* there is one, is then looked up below the root.                          *)
GiveUp(t) ==
    /\ segs' = [segs EXCEPT ![t] = Tail(@)]
    /\ parent' = [parent EXCEPT ![t] = IF Len(segs[t]) = 1 THEN Nil ELSE Root]
    /\ pc' = [pc EXCEPT ![t] = IF Len(segs[t]) = 1 THEN "return" ELSE "load"]

(* have_free_nodeblock(n), called for what is left of the list.             *)
have_free_nodeblock(t) ==
    /\ pc[t] = "search" /\ cur[t] = Nil
    /\ \/ /\ ~NeedsBlock(t, Len(Head(segs[t])))
          /\ pc' = [pc EXCEPT ![t] = "create"]
          /\ UNCHANGED <<segs, parent>>
       \/ /\ NeedsBlock(t, Len(Head(segs[t])))
          /\ next_block >= num_blocks
          /\ GiveUp(t)
       \/ /\ NeedsBlock(t, Len(Head(segs[t])))
          /\ next_block < num_blocks
          /\ pc' = [pc EXCEPT ![t] = "take"]
          /\ UNCHANGED <<segs, parent>>
    /\ UNCHANGED <<mG, tree, pool, cur, want, result, got, calls>>

(* next_block++ and the check of the number that was drawn.                 *)
TakeBlock(t) ==
    /\ pc[t] = "take"
    /\ next_block' = next_block + 1
    /\ IF next_block >= num_blocks
       THEN GiveUp(t) /\ UNCHANGED <<index, m_nodeblock>>
       ELSE /\ m_nodeblock' = [m_nodeblock EXCEPT ![t] = next_block]
            /\ index' = [index EXCEPT ![next_block] = 0]
            /\ pc' = [pc EXCEPT ![t] = "create"]
            /\ UNCHANGED <<segs, parent>>
    /\ UNCHANGED <<mG, tree, cur, want, result, got, calls>>

(* Construct the node for the first label of the list, next = null.         *)
Construct(t) ==
    /\ pc[t] = "create"
    /\ LET b == m_nodeblock[t]
           id == b * nodes_per_block + index[b]
       IN  /\ index' = [index EXCEPT ![b] = @ + 1]
           /\ node' = [node EXCEPT ![id] =
                         [label |-> Head(Head(segs[t])), parent |-> parent[t],
                          next |-> Nil, maker |-> t]]
           /\ made' = made \cup {id}
           /\ cur' = [cur EXCEPT ![t] = id]
    /\ pc' = [pc EXCEPT ![t] = "append"]
    /\ UNCHANGED <<mG, head, next_block, m_nodeblock, segs, parent, want,
                   result, got, calls>>

(* The node is in the list: go on with the list's next label, whose node    *)
(* was accounted for, or with the next list.                                *)
Appended(t) ==
    /\ Descend(t, cur[t])
    /\ pc' = [pc EXCEPT ![t] = IF Len(Head(segs[t])) > 1 THEN "create"
                               ELSE IF segs'[t] = <<>> THEN "return" ELSE "load"]

(* Mutation: the node goes behind the first child.                          *)
AppendBehind(t) ==
    /\ pc[t] = "append"
    /\ LET h == head[parent[t]] IN
       IF h = Nil
       THEN head' = [head EXCEPT ![parent[t]] = cur[t]] /\ UNCHANGED node
       ELSE /\ node' = [node EXCEPT ![cur[t]].next = node[h].next, ![h].next = cur[t]]
            /\ UNCHANGED head
    /\ Appended(t)
    /\ UNCHANGED <<mG, made, pool, cur, want, result, got, calls>>

(* append(): compare_exchange_weak(next, sub) until it succeeds.  A failed  *)
(* exchange stores the current head in next.                                *)
append(t) ==
    /\ pc[t] = "append"
    /\ IF head[parent[t]] = node[cur[t]].next
       THEN /\ head' = [head EXCEPT ![parent[t]] = cur[t]]
            /\ Appended(t)
            /\ UNCHANGED node
       ELSE /\ node' = [node EXCEPT ![cur[t]].next = head[parent[t]]]
            /\ UNCHANGED <<head, segs, parent, pc>>
    /\ UNCHANGED <<mG, made, pool, cur, want, result, got, calls>>

Return(t) ==
    /\ pc[t] = "return"
    /\ result' = [result EXCEPT ![t] = parent[t]]
    /\ got' = got \cup ({parent[t]} \cap Ids)
    /\ pc' = [pc EXCEPT ![t] = "idle"]
    /\ UNCHANGED <<mG, tree, pool, local, calls>>

-----------------------------------------------------------------------------
Places == got \cup {Root}
Paths == [1 .. PathLength -> Vals]
NodeLists == [1 .. 2 -> got]

Call(t) ==
    \/ \E attr \in Attrs, val \in Vals, p \in Places :
          get_child(t, attr, val, p) \/ replace_first_in_path(t, p, attr, val)
    \/ \E attr \in Attrs, vals \in Paths, p \in Places :
          get_path(t, attr, vals, p) \/ replace_all_in_path(t, p, attr, vals)
    \/ \E nodes \in NodeLists, p \in Places : get_path_nodes(t, nodes, p)
    \/ \E attr \in Attrs, p \in Places : remove_first_in_path(t, p, attr)

Step(t) ==
    \/ LoadGlobal(t) \/ InstallGlobal(t)
    \/ LoadHead(t) \/ Match(t) \/ NextSibling(t)
    \/ have_free_nodeblock(t) \/ TakeBlock(t)
    \/ Construct(t) \/ append(t) \/ Return(t)

(* All calls the model allows were made.                                    *)
Finished ==
    /\ \A t \in Threads : pc[t] = "idle" /\ calls[t] = MaxCalls
    /\ UNCHANGED vars

Next == Finished \/ \E t \in Threads : Call(t) \/ Step(t)

Spec == Init /\ [][Next]_vars

-----------------------------------------------------------------------------
(* Types.  Between its construction and its exchange a node is private.     *)
Nodes == [label : Labels \cup {BootLabel}, parent : Ids \cup {Root, Nil},
          next : Ids \cup {Nil}, maker : Threads \cup {Nil}]

TypeOK ==
    /\ mG \in BOOLEAN
    /\ head \in [Ids \cup {Root} -> Ids \cup {Nil}]
    /\ node \in [Ids -> Nodes]
    /\ made \subseteq Ids
    /\ next_block \in Nat
    /\ index \in [0 .. num_blocks - 1 -> Nat]
    /\ m_nodeblock \in [Threads -> 0 .. num_blocks - 1 \cup {NoBlock}]
    /\ pc \in [Threads -> {"new", "install", "idle", "load", "search", "take",
                           "create", "append", "return"}]
    /\ parent \in [Threads -> Ids \cup {Root, Nil}]
    /\ cur \in [Threads -> Ids \cup {Nil}]
    /\ result \in [Threads -> Ids \cup {Root, Nil}]
    /\ got \subseteq Ids
    /\ calls \in [Threads -> 0 .. MaxCalls]

Private == {cur[t] : t \in {u \in Threads : pc[u] = "append"}}
Published == made \ Private

(* The children of p as first_child() and next_sibling() list them.         *)
Listed(p) ==
    LET from[n \in Ids \cup {Nil}] ==
            IF n = Nil THEN {} ELSE {n} \cup from[node[n].next]
    IN  from[head[p]]

(* A node is never constructed over one that is in the tree, and its label, *)
(* parent and sibling link never change: readers follow links without a     *)
(* lock (have_free_nodeblock gives a block to one thread).                  *)
PublishedFixed ==
    [][\A n \in Published : n \in Published' /\ node'[n] = node[n]]_vars

(* No append is lost, however the exchanges of threads interleave: the      *)
(* lists hold exactly the nodes that were appended to them.  Threads that   *)
(* create the same path at the same time may leave equal siblings           *)
(* ("redundant nodes", Caliper.cpp:748), but one thread never creates a     *)
(* second node for a path it created before (LockfreeIntrusiveTree::append; *)
(* get_path, get_child and get_or_copy_node search all children that were   *)
(* there when they began).                                                  *)
OneCopyPerThread ==
    /\ \A p \in Published \cup {Root} :
          Listed(p) = {n \in Published : node[n].parent = p}
    /\ \A m, n \in made :
          /\ node[m].maker = node[n].maker /\ node[m].maker # Nil
          /\ node[m].parent = node[n].parent
          /\ node[m].label = node[n].label
          => m = n

(* A call that returns a node returns one with exactly the path that was    *)
(* asked for, also when other threads extend that path at the same time;    *)
(* it fails only when all blocks have been handed out.                      *)
PathExact ==
    \A t \in Threads : pc[t] = "return" =>
        IF parent[t] = Nil THEN next_block >= num_blocks
        ELSE PathOf(parent[t]) = want[t]

(* The nodes of a block stay in the block: have_free_nodeblock(n) promises  *)
(* room for n nodes.                                                        *)
BlocksNotOverrun ==
    \A b \in 0 .. num_blocks - 1 : index[b] <= nodes_per_block

-----------------------------------------------------------------------------
(* The inductive invariant behind PublishedFixed and BlocksNotOverrun, for  *)
(* the operations that look up given labels.                                *)
Given == {"get_child", "get_path", "get_path_nodes"}
AllLabels == Labels \cup {BootLabel}
Lists == {l \in Seq(AllLabels) : Len(l) \in 1 .. PathLength}
Busy == {"load", "search", "take", "create", "append"}
Blocks == 0 .. num_blocks - 1

CallInv ==
    /\ TypeOK
    /\ segs \in [Threads -> Seq(Lists)]
    /\ \A t \in Threads : pc[t] \in Busy => segs[t] # <<>> /\ parent[t] # Nil

BlockInv ==
    /\ next_block >= 1
    /\ \A b \in Blocks : index[b] <= nodes_per_block
    /\ \A b \in Blocks : b >= next_block => index[b] = 0
    /\ \A t \in Threads : m_nodeblock[t] < next_block
    /\ \A t, u \in Threads : m_nodeblock[t] = m_nodeblock[u] /\ t # u
                             => m_nodeblock[t] = NoBlock
    /\ \A t \in Threads : pc[t] = "create" =>
          /\ m_nodeblock[t] # NoBlock
          /\ index[m_nodeblock[t]] + Len(Head(segs[t])) <= nodes_per_block
    /\ \A t \in Threads : pc[t] = "append" =>
          /\ m_nodeblock[t] # NoBlock
          /\ index[m_nodeblock[t]] + Len(Head(segs[t])) <= nodes_per_block + 1

NodeInv ==
    /\ \A n \in made : \E b \in Blocks :
          b * nodes_per_block <= n /\ n < b * nodes_per_block + index[b]
    /\ \A t \in Threads : pc[t] = "append" => cur[t] \in made
    /\ \A t, u \in Threads :
          pc[t] = "append" /\ pc[u] = "append" /\ t # u => cur[t] # cur[u]

NewInv ==
    ~mG => /\ made = {}
           /\ \A t \in Threads : pc[t] \in {"new", "install"} /\ m_nodeblock[t] = NoBlock
           /\ index[0] = 0

TreeInv == CallInv /\ BlockInv /\ NodeInv /\ NewInv

=============================================================================
