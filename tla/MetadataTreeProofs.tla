------------------------ MODULE MetadataTreeProofs -------------------------
(* Proofs about MetadataTree for any number of threads, labels, blocks and  *)
(* calls.  The operations are those that look up given labels (Given), and  *)
(* paths fit into a block: a longer path overruns it.                       *)
EXTENDS MetadataTree, SequenceTheorems, TLAPS

PCs == {"new", "install", "idle", "load", "search", "take", "create", "append", "return"}

Rest(s) == IF Len(Head(s)) = 1 THEN Tail(s) ELSE <<Tail(Head(s))>> \o Tail(s)

(* An index within a block gives an id.                                     *)
LEMMA IdInRange ==
    ASSUME NEW b \in Blocks, NEW i \in Nat, i < nodes_per_block
    PROVE  b * nodes_per_block + i \in Ids
<1>1. b \in Int /\ b >= 0 /\ b + 1 <= num_blocks /\ num_blocks \in Nat
      /\ nodes_per_block \in Nat /\ PathLength \in Nat
    BY TreeAssumption DEF Blocks
<1>2. b * nodes_per_block >= 0 /\ b * nodes_per_block \in Int
    BY <1>1
<1>3. (b + 1) * nodes_per_block <= num_blocks * nodes_per_block
    BY <1>1
<1>4. (b + 1) * nodes_per_block = b * nodes_per_block + nodes_per_block
    BY <1>1
<1>5. num_blocks * nodes_per_block \in Int
    BY <1>1
<1> QED BY <1>1, <1>2, <1>3, <1>4, <1>5 DEF Ids

(* Ids of two blocks differ.                                                *)
LEMMA BlocksApart ==
    ASSUME NEW b \in Blocks, NEW c \in Blocks, b # c,
           NEW i \in Nat, i < nodes_per_block,
           NEW n \in Int, c * nodes_per_block <= n,
           n < c * nodes_per_block + nodes_per_block
    PROVE  b * nodes_per_block + i # n
<1>1. b \in Int /\ c \in Int /\ nodes_per_block \in Nat
    BY TreeAssumption DEF Blocks
<1>2. CASE b < c
    <2>1. (b + 1) * nodes_per_block <= c * nodes_per_block
        BY <1>1, <1>2
    <2>2. (b + 1) * nodes_per_block = b * nodes_per_block + nodes_per_block
        BY <1>1
    <2> QED BY <1>1, <2>1, <2>2
<1>3. CASE c < b
    <2>1. (c + 1) * nodes_per_block <= b * nodes_per_block
        BY <1>1, <1>3
    <2>2. (c + 1) * nodes_per_block = c * nodes_per_block + nodes_per_block
        BY <1>1
    <2> QED BY <1>1, <2>1, <2>2
<1> QED BY <1>1, <1>2, <1>3

(* What is left after one label was resolved.                               *)
LEMMA RestTyped ==
    ASSUME NEW s \in Seq(Lists), s # <<>>
    PROVE  /\ Rest(s) \in Seq(Lists)
           /\ Head(s) \in Lists /\ Tail(s) \in Seq(Lists)
           /\ Len(Head(s)) > 1 => /\ Rest(s) # <<>>
                                  /\ Len(Head(Rest(s))) = Len(Head(s)) - 1
<1>1. Head(s) \in Lists /\ Tail(s) \in Seq(Lists)
    BY HeadTailProperties
<1>2. PICK l \in Seq(AllLabels), n \in 1 .. PathLength : l = Head(s) /\ n = Len(l)
    BY <1>1 DEF Lists
<1>3. CASE n = 1
    <2>1. Rest(s) = Tail(s)
        BY <1>2, <1>3 DEF Rest
    <2>2. ~(n > 1)
        BY <1>3
    <2> QED BY <1>1, <1>2, <2>1, <2>2
<1>4. CASE n # 1
    <2>1. n > 1
        BY <1>4, TreeAssumption
    <2>2. l # <<>>
        BY <1>2, <2>1, EmptySeq
    <2>3. Tail(l) \in Seq(AllLabels) /\ Len(Tail(l)) = n - 1
        BY <1>2, <2>2, HeadTailProperties
    <2>4. Tail(l) \in Lists
        BY <1>2, <2>1, <2>3, TreeAssumption DEF Lists
    <2>5. <<Tail(l)>> \in Seq(Lists)
        BY <2>4
    <2>6. Rest(s) = <<Tail(l)>> \o Tail(s)
        BY <1>2, <1>4 DEF Rest
    <2>7. Rest(s) \in Seq(Lists)
        BY <1>1, <2>5, <2>6, ConcatProperties
    <2>8. Rest(s) # <<>> /\ Head(Rest(s)) = Tail(l)
        BY <1>1, <2>4, <2>5, <2>6
    <2>9. Len(Head(Rest(s))) = Len(Head(s)) - 1
        BY <1>2, <2>3, <2>8
    <2> QED BY <1>1, <2>7, <2>8, <2>9
<1> QED BY <1>3, <1>4

(* The initial state satisfies the invariant.                               *)
LEMMA InitTreeInv == Init => TreeInv
<1> SUFFICES ASSUME Init PROVE TreeInv
    OBVIOUS
<1>1. CallInv
    <2>1. <<>> \in Seq(Lists)
        OBVIOUS
    <2>2. NoNode \in Nodes
        BY DEF NoNode, Nodes
    <2>3. TypeOK
        <3>1. node \in [Ids -> Nodes]
            BY <2>2 DEF Init
        <3>2. /\ calls \in [Threads -> 0 .. MaxCalls]
              /\ next_block \in Nat
              /\ index \in [0 .. num_blocks - 1 -> Nat]
            BY TreeAssumption DEF Init
        <3>3. /\ head \in [Ids \cup {Root} -> Ids \cup {Nil}]
              /\ m_nodeblock \in [Threads -> 0 .. num_blocks - 1 \cup {NoBlock}]
              /\ parent \in [Threads -> Ids \cup {Root, Nil}]
              /\ cur \in [Threads -> Ids \cup {Nil}]
              /\ result \in [Threads -> Ids \cup {Root, Nil}]
              /\ got \subseteq Ids
            BY DEF Init
        <3> QED BY <3>1, <3>2, <3>3 DEF Init, TypeOK
    <2> QED BY <2>1, <2>3 DEF Init, CallInv, Busy
<1>2. BlockInv
    BY TreeAssumption DEF Init, BlockInv, NoBlock, Blocks
<1>3. NodeInv /\ NewInv
    BY TreeAssumption DEF Init, NodeInv, NewInv, NoBlock
<1> QED BY <1>1, <1>2, <1>3 DEF TreeInv

(* A thread looks for the global data.                                      *)
LEMMA LoadGlobalInv ==
    ASSUME TreeInv, NEW t \in Threads, LoadGlobal(t)
    PROVE  TreeInv'
<1> USE DEF TreeInv
<1>1. CallInv'
    BY DEF LoadGlobal, CallInv, TypeOK, Busy, local, tree, pool
<1>2. BlockInv'
    BY DEF LoadGlobal, CallInv, TypeOK, BlockInv, local, tree, pool
<1>3. NodeInv'
    BY DEF LoadGlobal, CallInv, TypeOK, NodeInv, local, tree, pool
<1>4. NewInv'
    BY DEF LoadGlobal, CallInv, TypeOK, NewInv, local, tree, pool
<1> QED BY <1>1, <1>2, <1>3, <1>4

(* A thread loads the first child.                                          *)
LEMMA LoadHeadInv ==
    ASSUME TreeInv, NEW t \in Threads, LoadHead(t)
    PROVE  TreeInv'
<1> USE DEF TreeInv
<1>1. CallInv'
    BY DEF LoadHead, CallInv, TypeOK, Busy, local, tree, pool
<1>2. BlockInv'
    BY DEF LoadHead, CallInv, TypeOK, BlockInv, local, tree, pool
<1>3. NodeInv'
    BY DEF LoadHead, CallInv, TypeOK, NodeInv, local, tree, pool
<1>4. NewInv'
    BY DEF LoadHead, CallInv, TypeOK, NewInv, local, tree, pool
<1> QED BY <1>1, <1>2, <1>3, <1>4

(* A thread goes on to the next sibling.                                    *)
LEMMA NextSiblingInv ==
    ASSUME TreeInv, NEW t \in Threads, NextSibling(t)
    PROVE  TreeInv'
<1> USE DEF TreeInv
<1>1. CallInv'
    BY DEF NextSibling, CallInv, TypeOK, Nodes, Busy, local, tree, pool
<1>2. BlockInv'
    BY DEF NextSibling, CallInv, TypeOK, BlockInv, local, tree, pool
<1>3. NodeInv'
    BY DEF NextSibling, CallInv, TypeOK, NodeInv, local, tree, pool
<1>4. NewInv'
    BY DEF NextSibling, CallInv, TypeOK, NewInv, local, tree, pool
<1> QED BY <1>1, <1>2, <1>3, <1>4

(* A call returns.                                                          *)
LEMMA ReturnInv ==
    ASSUME TreeInv, NEW t \in Threads, Return(t)
    PROVE  TreeInv'
<1> USE DEF TreeInv
<1>1. CallInv'
    BY DEF Return, CallInv, TypeOK, Busy, local, tree, pool
<1>2. BlockInv'
    BY DEF Return, CallInv, TypeOK, BlockInv, local, tree, pool
<1>3. NodeInv'
    BY DEF Return, CallInv, TypeOK, NodeInv, local, tree, pool
<1>4. NewInv'
    BY DEF Return, CallInv, TypeOK, NewInv, local, tree, pool
<1> QED BY <1>1, <1>2, <1>3, <1>4

(* A child with the wanted label was found.                                 *)
LEMMA MatchInv ==
    ASSUME TreeInv, NEW t \in Threads, Match(t)
    PROVE  TreeInv'
<1> USE DEF TreeInv
<1>1. segs[t] \in Seq(Lists) /\ segs[t] # <<>>
    BY DEF CallInv, TypeOK, Match, Busy
<1>2. segs' = [segs EXCEPT ![t] = Rest(segs[t])] /\ Rest(segs[t]) \in Seq(Lists)
    BY <1>1, RestTyped DEF Match, Descend, Rest
<1>3. CallInv'
    BY <1>2 DEF Match, Descend, CallInv, TypeOK, Busy, tree, pool
<1>4. BlockInv'
    BY DEF Match, Descend, CallInv, TypeOK, BlockInv, tree, pool
<1>5. NodeInv'
    BY DEF Match, CallInv, TypeOK, NodeInv, tree, pool
<1>6. NewInv'
    BY DEF Match, CallInv, TypeOK, NewInv, tree, pool
<1> QED BY <1>3, <1>4, <1>5, <1>6

(* A lookup that cannot be completed keeps the types.                       *)
LEMMA GiveUpTyped ==
    ASSUME CallInv, NEW t \in Threads, GiveUp(t), pc[t] \in Busy
    PROVE  /\ segs' \in [Threads -> Seq(Lists)]
           /\ parent' \in [Threads -> Ids \cup {Root, Nil}]
           /\ pc' \in [Threads -> PCs] /\ pc'[t] \in {"load", "return"}
           /\ pc'[t] = "load" => segs'[t] # <<>> /\ parent'[t] # Nil
           /\ \A u \in Threads \ {t} :
                 segs'[u] = segs[u] /\ parent'[u] = parent[u] /\ pc'[u] = pc[u]
<1>1. segs[t] \in Seq(Lists) /\ segs[t] # <<>>
    BY DEF CallInv
<1>2. Tail(segs[t]) \in Seq(Lists) /\ Len(Tail(segs[t])) = Len(segs[t]) - 1
    BY <1>1, HeadTailProperties
<1>3. Len(segs[t]) # 1 => Tail(segs[t]) # <<>>
    <2>1. SUFFICES ASSUME Tail(segs[t]) = <<>> PROVE Len(segs[t]) = 1
        OBVIOUS
    <2>2. Len(Tail(segs[t])) = 0
        <3>1. \A q : q = <<>> => Len(q) = 0
            BY EmptySeq
        <3> QED BY <2>1, <3>1, Zenon
    <2>3. Len(segs[t]) \in Nat
        BY <1>1, LenProperties
    <2> HIDE <2>1
    <2> QED BY <1>2, <2>2, <2>3
<1>4. segs' \in [Threads -> Seq(Lists)] /\ segs'[t] = Tail(segs[t])
    BY <1>2 DEF GiveUp, CallInv
<1>5. parent' \in [Threads -> Ids \cup {Root, Nil}]
    BY DEF GiveUp, CallInv, TypeOK
<1>6. pc' \in [Threads -> PCs] /\ pc'[t] \in {"load", "return"}
    BY DEF GiveUp, CallInv, TypeOK, PCs
<1>7. pc'[t] = "load" => Len(segs[t]) # 1 /\ parent'[t] = Root
    BY DEF GiveUp, CallInv, TypeOK
<1>8. Root # Nil
    BY DEF Root, Nil
<1>9. \A u \in Threads \ {t} :
         segs'[u] = segs[u] /\ parent'[u] = parent[u] /\ pc'[u] = pc[u]
    BY DEF GiveUp, CallInv, TypeOK
<1> QED BY <1>3, <1>4, <1>5, <1>6, <1>7, <1>8, <1>9

(* The list that is looked up.                                              *)
LEMMA FirstList ==
    ASSUME CallInv, NEW t \in Threads, pc[t] \in Busy
    PROVE  /\ segs[t] \in Seq(Lists) /\ segs[t] # <<>>
           /\ Head(segs[t]) \in Lists /\ Head(segs[t]) # <<>>
           /\ Len(Head(segs[t])) \in 1 .. PathLength
<1>1. segs[t] \in Seq(Lists) /\ segs[t] # <<>>
    BY DEF CallInv
<1>2. Head(segs[t]) \in Lists
    BY <1>1, HeadTailProperties
<1>3. PICK l \in Lists : l = Head(segs[t])
    BY <1>2
<1>4. l \in Seq(AllLabels) /\ Len(l) \in 1 .. PathLength
    BY DEF Lists
<1>5. l # <<>>
    BY <1>4, EmptySeq
<1> QED BY <1>1, <1>3, <1>4, <1>5

(* The thread's block has room, or all blocks are gone, or it takes one.    *)
LEMMA have_free_nodeblockInv ==
    ASSUME TreeInv, NEW t \in Threads, have_free_nodeblock(t)
    PROVE  TreeInv'
<1> USE DEF TreeInv
<1>0. pc[t] = "search" /\ pc[t] \in Busy /\ UNCHANGED <<mG, tree, pool, cur, want, result, got, calls>>
    BY DEF have_free_nodeblock, Busy
<1>1. CASE GiveUp(t)
    <2>1. CallInv'
        BY <1>0, <1>1, GiveUpTyped DEF CallInv, TypeOK, Busy, tree, pool, PCs
    <2>2. BlockInv'
        BY <1>0, <1>1, GiveUpTyped DEF CallInv, TypeOK, BlockInv, tree, pool
    <2>3. NodeInv'
        BY <1>0, <1>1, GiveUpTyped DEF CallInv, TypeOK, NodeInv, tree, pool
    <2>4. NewInv'
        BY <1>0 DEF CallInv, TypeOK, NewInv, tree, pool
    <2> QED BY <2>1, <2>2, <2>3, <2>4
<1>2. CASE ~GiveUp(t)
    <2>1. CallInv'
        BY <1>2 DEF have_free_nodeblock, CallInv, TypeOK, Busy, tree, pool
    <2>2. BlockInv'
        <3>1. PICK n \in 1 .. PathLength : n = Len(Head(segs[t]))
            BY <1>0, FirstList
        <3>2. pc'[t] = "create" => ~NeedsBlock(t, n)
            BY <1>2, <3>1 DEF have_free_nodeblock, CallInv, TypeOK
        <3>3. pc'[t] = "create" => /\ m_nodeblock[t] # NoBlock
                                   /\ index[m_nodeblock[t]] + n <= nodes_per_block
            BY <3>2, TreeAssumption DEF NeedsBlock, CallInv, TypeOK
        <3>4. pc'[t] # "append" /\ \A u \in Threads \ {t} : pc'[u] = pc[u]
            BY <1>2 DEF have_free_nodeblock, CallInv, TypeOK
        <3>5. UNCHANGED <<segs, next_block, index, m_nodeblock>>
            BY <1>2 DEF have_free_nodeblock, pool
        <3> QED BY <3>1, <3>3, <3>4, <3>5 DEF BlockInv
    <2>3. NodeInv'
        BY <1>2 DEF have_free_nodeblock, CallInv, TypeOK, NodeInv, tree, pool
    <2>4. NewInv'
        BY <1>0 DEF CallInv, TypeOK, NewInv, tree, pool
    <2> QED BY <2>1, <2>2, <2>3, <2>4
<1> QED BY <1>1, <1>2

(* The block number a thread draws is nobody else's.                        *)
LEMMA TakeBlockInv ==
    ASSUME TreeInv, NEW t \in Threads, TakeBlock(t), PathLength <= nodes_per_block
    PROVE  TreeInv'
<1> USE DEF TreeInv
<1>0. /\ pc[t] = "take" /\ pc[t] \in Busy /\ next_block' = next_block + 1
      /\ UNCHANGED <<mG, tree, cur, want, result, got, calls>>
    BY DEF TakeBlock, Busy
<1>9. /\ next_block \in Nat /\ num_blocks \in Nat
      /\ \A u \in Threads : m_nodeblock[u] \in Int
    BY TreeAssumption DEF CallInv, TypeOK, NoBlock
<1>1. CASE next_block >= num_blocks
    <2>0. GiveUp(t) /\ UNCHANGED <<index, m_nodeblock>>
        BY <1>1 DEF TakeBlock
    <2>a. /\ segs' \in [Threads -> Seq(Lists)]
          /\ parent' \in [Threads -> Ids \cup {Root, Nil}]
          /\ pc' \in [Threads -> PCs] /\ pc'[t] \in {"load", "return"}
          /\ pc'[t] = "load" => segs'[t] # <<>> /\ parent'[t] # Nil
          /\ \A u \in Threads \ {t} :
                segs'[u] = segs[u] /\ parent'[u] = parent[u] /\ pc'[u] = pc[u]
        BY <1>0, <2>0, GiveUpTyped
    <2>b. next_block' \in Nat
        BY <1>0 DEF CallInv, TypeOK
    <2>1. CallInv'
        BY <1>0, <2>0, <2>a, <2>b DEF CallInv, TypeOK, Busy, tree, PCs
    <2>2. BlockInv'
        <3>1. /\ next_block' >= 1
              /\ \A b \in Blocks : b >= next_block' => index'[b] = 0
              /\ \A u \in Threads : m_nodeblock'[u] < next_block'
            BY <1>0, <1>9, <2>0 DEF BlockInv, Blocks
        <3> QED BY <2>0, <2>a, <3>1 DEF BlockInv
    <2>3. NodeInv'
        BY <1>0, <2>0, GiveUpTyped DEF CallInv, TypeOK, NodeInv, tree
    <2>4. NewInv'
        BY <1>0 DEF CallInv, TypeOK, NewInv, tree
    <2> QED BY <2>1, <2>2, <2>3, <2>4
<1>2. CASE next_block < num_blocks
    <2>0. /\ m_nodeblock' = [m_nodeblock EXCEPT ![t] = next_block]
          /\ index' = [index EXCEPT ![next_block] = 0]
          /\ pc' = [pc EXCEPT ![t] = "create"]
          /\ UNCHANGED <<segs, parent>> /\ next_block \in Blocks
        BY <1>2, TreeAssumption DEF TakeBlock, BlockInv, CallInv, TypeOK, Blocks
    <2>1. CallInv'
        <3>1. /\ m_nodeblock' \in [Threads -> 0 .. num_blocks - 1 \cup {NoBlock}]
              /\ index' \in [0 .. num_blocks - 1 -> Nat] /\ next_block' \in Nat
            BY <1>0, <2>0, TreeAssumption DEF CallInv, TypeOK, Blocks
        <3>2. /\ pc' \in [Threads -> PCs]
              /\ \A u \in Threads : pc'[u] \in Busy => pc[u] \in Busy
            BY <1>0, <2>0 DEF CallInv, TypeOK, Busy, PCs
        <3> QED BY <1>0, <2>0, <3>1, <3>2 DEF CallInv, TypeOK, Busy, PCs, tree
    <2>2. BlockInv'
        <3>1. PICK n \in 1 .. PathLength : n = Len(Head(segs[t]))
            BY <1>0, FirstList
        <3>2. index'[next_block] = 0 /\ m_nodeblock'[t] = next_block
            BY <2>0 DEF CallInv, TypeOK, Blocks
        <3>3. \A b \in Blocks : index'[b] <= nodes_per_block
            BY <2>0, TreeAssumption DEF CallInv, TypeOK, Blocks, BlockInv
        <3>4. \A b \in Blocks : b >= next_block' => index'[b] = 0
            BY <1>0, <2>0 DEF CallInv, TypeOK, Blocks, BlockInv
        <3>5. \A u \in Threads : m_nodeblock'[u] < next_block'
            BY <1>0, <1>9, <2>0 DEF CallInv, TypeOK, Blocks, BlockInv, NoBlock
        <3>6. \A u, v \in Threads : m_nodeblock'[u] = m_nodeblock'[v] /\ u # v
                                    => m_nodeblock'[u] = NoBlock
            BY <1>0, <2>0 DEF CallInv, TypeOK, Blocks, BlockInv, NoBlock
        <3>7. next_block # NoBlock /\ n <= nodes_per_block /\ n \in Nat
            BY <2>0, TreeAssumption DEF Blocks, NoBlock
        <3>8. ASSUME NEW u \in Threads, u # t
              PROVE  /\ pc'[u] = pc[u] /\ segs'[u] = segs[u] /\ m_nodeblock'[u] = m_nodeblock[u]
                     /\ m_nodeblock[u] # NoBlock => index'[m_nodeblock[u]] = index[m_nodeblock[u]]
            <4>1. m_nodeblock[u] # NoBlock => m_nodeblock[u] \in Blocks /\ m_nodeblock[u] # next_block
                BY <1>9 DEF CallInv, TypeOK, Blocks, BlockInv, NoBlock
            <4> QED BY <2>0, <3>8, <4>1 DEF CallInv, TypeOK, Blocks
        <3>9. pc'[t] = "create" /\ segs'[t] = segs[t]
            BY <2>0 DEF CallInv, TypeOK
        <3>10. \A u \in Threads : pc'[u] = "create" =>
                 /\ m_nodeblock'[u] # NoBlock
                 /\ index'[m_nodeblock'[u]] + Len(Head(segs'[u])) <= nodes_per_block
            BY <3>1, <3>2, <3>7, <3>8, <3>9 DEF BlockInv
        <3>11. \A u \in Threads : pc'[u] = "append" =>
                 /\ m_nodeblock'[u] # NoBlock
                 /\ index'[m_nodeblock'[u]] + Len(Head(segs'[u])) <= nodes_per_block + 1
            BY <3>8, <3>9 DEF BlockInv
        <3>12. next_block' >= 1
            BY <1>0 DEF CallInv, TypeOK
        <3> QED BY <3>3, <3>4, <3>5, <3>6, <3>10, <3>11, <3>12 DEF BlockInv
    <2>3. NodeInv'
        BY <1>0, <2>0 DEF CallInv, TypeOK, NodeInv, BlockInv, tree, Blocks
    <2>4. NewInv'
        BY <1>0, <2>0 DEF CallInv, TypeOK, NewInv, tree
    <2> QED BY <2>1, <2>2, <2>3, <2>4
<1> QED BY <1>1, <1>2, <1>9

(* A node is constructed at an id that was never used.                      *)
LEMMA ConstructFresh ==
    ASSUME TreeInv, NEW t \in Threads, pc[t] = "create"
    PROVE  /\ m_nodeblock[t] \in Blocks
           /\ index[m_nodeblock[t]] \in Nat
           /\ index[m_nodeblock[t]] < nodes_per_block
           /\ m_nodeblock[t] * nodes_per_block + index[m_nodeblock[t]] \in Ids \ made
<1> USE DEF TreeInv
<1>1. PICK n \in 1 .. PathLength : n = Len(Head(segs[t]))
    BY FirstList DEF Busy
<1>2. m_nodeblock[t] \in Blocks /\ index[m_nodeblock[t]] \in Nat
    BY DEF CallInv, TypeOK, BlockInv, Blocks
<1>3. index[m_nodeblock[t]] + n <= nodes_per_block
    BY <1>1 DEF BlockInv
<1>4. PICK b \in Blocks, i \in Nat : b = m_nodeblock[t] /\ i = index[b]
    BY <1>2
<1>5. i < nodes_per_block
    BY <1>3, <1>4, TreeAssumption
<1>6. b * nodes_per_block + i \in Ids
    BY <1>5, IdInRange
<1>7. ASSUME NEW m \in made PROVE m # b * nodes_per_block + i
    <2>1. PICK c \in Blocks : c * nodes_per_block <= m /\ m < c * nodes_per_block + index[c]
        BY DEF NodeInv
    <2>2. m \in Int /\ index[c] \in Nat /\ index[c] <= nodes_per_block
        BY DEF CallInv, TypeOK, BlockInv, Ids, Blocks
    <2>3. c * nodes_per_block \in Int /\ b * nodes_per_block \in Int
        BY TreeAssumption DEF Blocks
    <2>4. CASE c = b
        BY <1>4, <2>1, <2>2, <2>3, <2>4
    <2>5. CASE c # b
        <3>1. m < c * nodes_per_block + nodes_per_block
            BY <2>1, <2>2, <2>3, TreeAssumption
        <3> QED BY <1>5, <2>1, <2>2, <2>5, <3>1, BlocksApart
    <2> QED BY <2>4, <2>5
<1> QED BY <1>2, <1>4, <1>5, <1>6, <1>7

(* The construction of a node.                                              *)
LEMMA ConstructInv ==
    ASSUME TreeInv, NEW t \in Threads, Construct(t)
    PROVE  TreeInv'
<1> USE DEF TreeInv
<1> DEFINE b == m_nodeblock[t]
           id == b * nodes_per_block + index[b]
           new == [label |-> Head(Head(segs[t])), parent |-> parent[t],
                   next |-> Nil, maker |-> t]
<1>0. /\ pc[t] = "create" /\ pc[t] \in Busy
      /\ index' = [index EXCEPT ![b] = @ + 1]
      /\ node' = [node EXCEPT ![id] = new]
      /\ made' = made \cup {id}
      /\ cur' = [cur EXCEPT ![t] = id]
      /\ pc' = [pc EXCEPT ![t] = "append"]
      /\ UNCHANGED <<mG, head, next_block, m_nodeblock, segs, parent, want,
                     result, got, calls>>
    BY DEF Construct, Busy
<1>1. b \in Blocks /\ index[b] \in Nat /\ index[b] < nodes_per_block /\ id \in Ids \ made
    BY <1>0, ConstructFresh
<1>2. PICK n \in 1 .. PathLength : n = Len(Head(segs[t]))
    BY <1>0, FirstList
<1>3. new \in Nodes
    <2>1. PICK l \in Seq(AllLabels) : l = Head(segs[t]) /\ l # <<>>
        BY <1>0, FirstList DEF Lists
    <2>2. Head(l) \in AllLabels
        BY <2>1, HeadTailProperties
    <2>3. parent[t] \in Ids \cup {Root, Nil}
        BY DEF CallInv, TypeOK
    <2> QED BY <2>1, <2>2, <2>3 DEF Nodes, AllLabels
<1> HIDE DEF id, new, b
<1>4. \A c \in Blocks : index'[c] \in Nat /\ index'[c] = (IF c = b THEN index[b] + 1 ELSE index[c])
    BY <1>0, <1>1 DEF CallInv, TypeOK, Blocks
<1>5. CallInv'
    <2>1. index' \in [0 .. num_blocks - 1 -> Nat]
        BY <1>0, <1>1 DEF CallInv, TypeOK, Blocks
    <2>2. node' \in [Ids -> Nodes] /\ made' \subseteq Ids
        BY <1>0, <1>1, <1>3 DEF CallInv, TypeOK
    <2>3. pc' \in [Threads -> PCs] /\ cur' \in [Threads -> Ids \cup {Nil}]
        BY <1>0, <1>1 DEF CallInv, TypeOK, PCs
    <2> QED BY <1>0, <2>1, <2>2, <2>3 DEF CallInv, TypeOK, Busy, PCs
<1>6. BlockInv'
    <2>1. index[b] + n <= nodes_per_block
        BY <1>0, <1>2 DEF BlockInv, b
    <2>2. \A c \in Blocks : index'[c] <= nodes_per_block
        BY <1>1, <1>4, TreeAssumption DEF BlockInv
    <2>3. b < next_block
        BY DEF BlockInv, b
    <2>4. \A c \in Blocks : c >= next_block => index'[c] = 0
        BY <1>4, <1>1, <2>3 DEF BlockInv, Blocks, CallInv, TypeOK
    <2>5. \A u \in Threads \ {t} : m_nodeblock[u] # NoBlock =>
             m_nodeblock[u] \in Blocks /\ m_nodeblock[u] # b
        BY DEF BlockInv, Blocks, CallInv, TypeOK, b
    <2>6. pc'[t] = "append" /\ \A u \in Threads \ {t} : pc'[u] = pc[u]
        BY <1>0 DEF CallInv, TypeOK
    <2>7. \A u \in Threads : pc'[u] = "create" =>
            /\ m_nodeblock[u] # NoBlock
            /\ index'[m_nodeblock[u]] + Len(Head(segs[u])) <= nodes_per_block
        BY <1>4, <2>5, <2>6 DEF BlockInv
    <2>8. index'[b] + n <= nodes_per_block + 1 /\ b # NoBlock
        BY <1>1, <1>4, <2>1, TreeAssumption DEF Blocks, NoBlock
    <2>9. \A u \in Threads : pc'[u] = "append" =>
            /\ m_nodeblock[u] # NoBlock
            /\ index'[m_nodeblock[u]] + Len(Head(segs[u])) <= nodes_per_block + 1
        BY <1>2, <1>4, <2>5, <2>6, <2>8 DEF BlockInv, b
    <2> QED BY <1>0, <2>2, <2>4, <2>7, <2>9 DEF BlockInv
<1>7. NodeInv'
    <2>1. ASSUME NEW m \in made'
          PROVE  \E c \in Blocks : c * nodes_per_block <= m /\ m < c * nodes_per_block + index'[c]
        <3>1. CASE m = id
            <4>1. b * nodes_per_block \in Int
                BY <1>1, TreeAssumption DEF Blocks
            <4>2. b * nodes_per_block <= m /\ m < b * nodes_per_block + index'[b]
                BY <1>1, <1>4, <3>1, <4>1 DEF id
            <4> QED BY <1>1, <4>2
        <3>2. CASE m \in made
            <4>1. PICK c \in Blocks : c * nodes_per_block <= m /\ m < c * nodes_per_block + index[c]
                BY <3>2 DEF NodeInv
            <4>2. c * nodes_per_block \in Int /\ m \in Int
                BY <3>2, TreeAssumption DEF Blocks, CallInv, TypeOK, Ids
            <4>3. m < c * nodes_per_block + index'[c]
                BY <1>1, <1>4, <4>1, <4>2 DEF CallInv, TypeOK, Blocks
            <4> QED BY <4>1, <4>3
        <3> QED BY <1>0, <3>1, <3>2
    <2>2. cur'[t] = id /\ pc'[t] = "append"
          /\ \A u \in Threads \ {t} : cur'[u] = cur[u] /\ pc'[u] = pc[u]
        BY <1>0 DEF CallInv, TypeOK
    <2>3. \A u \in Threads : pc'[u] = "append" => cur'[u] \in made'
        BY <1>0, <2>2 DEF NodeInv
    <2>4. \A u, v \in Threads :
            pc'[u] = "append" /\ pc'[v] = "append" /\ u # v => cur'[u] # cur'[v]
        BY <1>1, <2>2 DEF NodeInv
    <2> QED BY <2>1, <2>3, <2>4 DEF NodeInv
<1>8. NewInv'
    BY <1>0 DEF NewInv
<1> QED BY <1>5, <1>6, <1>7, <1>8

(* An exchange, successful or not.                                          *)
LEMMA appendInv ==
    ASSUME TreeInv, NEW t \in Threads, append(t)
    PROVE  TreeInv'
<1> USE DEF TreeInv
<1>0. /\ pc[t] = "append" /\ pc[t] \in Busy
      /\ UNCHANGED <<mG, made, pool, cur, want, result, got, calls>>
    BY DEF append, Busy
<1>1. /\ segs[t] \in Seq(Lists) /\ segs[t] # <<>> /\ parent[t] \in Ids \cup {Root}
      /\ cur[t] \in Ids
    BY <1>0 DEF CallInv, TypeOK, NodeInv
<1>2. CASE head[parent[t]] = node[cur[t]].next
    <2>0. /\ head' = [head EXCEPT ![parent[t]] = cur[t]]
          /\ parent' = [parent EXCEPT ![t] = cur[t]]
          /\ segs' = [segs EXCEPT ![t] = Rest(segs[t])]
          /\ pc' = [pc EXCEPT ![t] = IF Len(Head(segs[t])) > 1 THEN "create"
                               ELSE IF segs'[t] = <<>> THEN "return" ELSE "load"]
          /\ node' = node
        BY <1>2 DEF append, Appended, Descend, Rest
    <2>1. /\ Rest(segs[t]) \in Seq(Lists)
          /\ Len(Head(segs[t])) > 1 => /\ Rest(segs[t]) # <<>>
                                       /\ Len(Head(Rest(segs[t]))) = Len(Head(segs[t])) - 1
        BY <1>1, RestTyped
    <2>2. segs'[t] = Rest(segs[t]) /\ segs' \in [Threads -> Seq(Lists)]
        BY <2>0, <2>1 DEF CallInv
    <2>3. /\ pc' \in [Threads -> PCs]
          /\ pc'[t] \in {"create", "return", "load"}
          /\ pc'[t] = "create" => Len(Head(segs[t])) > 1
          /\ pc'[t] = "load" => segs'[t] # <<>>
          /\ \A u \in Threads \ {t} : pc'[u] = pc[u] /\ segs'[u] = segs[u] /\ parent'[u] = parent[u]
        BY <2>0 DEF CallInv, TypeOK, PCs
    <2>4. CallInv'
        <3>1. /\ head' \in [Ids \cup {Root} -> Ids \cup {Nil}]
              /\ parent' \in [Threads -> Ids \cup {Root, Nil}] /\ parent'[t] = cur[t]
            BY <1>1, <2>0 DEF CallInv, TypeOK
        <3>2. cur[t] # Nil
            BY <1>1, TreeAssumption DEF Ids, Nil
        <3>3. \A u \in Threads : pc'[u] \in Busy => segs'[u] # <<>> /\ parent'[u] # Nil
            BY <2>1, <2>2, <2>3, <3>1, <3>2 DEF CallInv, Busy
        <3> QED BY <1>0, <2>0, <2>2, <2>3, <3>1, <3>3 DEF CallInv, TypeOK, PCs, pool
    <2>5. BlockInv'
        <3>1. PICK n \in 1 .. PathLength : n = Len(Head(segs[t]))
            BY <1>0, FirstList
        <3>2. index[m_nodeblock[t]] + n <= nodes_per_block + 1 /\ m_nodeblock[t] # NoBlock
            BY <1>0, <3>1 DEF BlockInv
        <3>3. index[m_nodeblock[t]] \in Nat
            BY <3>2 DEF CallInv, TypeOK
        <3>4. pc'[t] = "create" =>
                index[m_nodeblock[t]] + Len(Head(segs'[t])) <= nodes_per_block
            <4>1. SUFFICES ASSUME pc'[t] = "create"
                           PROVE  index[m_nodeblock[t]] + Len(Head(segs'[t])) <= nodes_per_block
                OBVIOUS
            <4>2. Len(Head(segs'[t])) = n - 1
                BY <2>1, <2>2, <2>3, <3>1, <4>1
            <4>3. PICK i \in Nat : i = index[m_nodeblock[t]]
                BY <3>3
            <4>4. i + n <= nodes_per_block + 1
                BY <3>2, <4>3
            <4>5. i + (n - 1) <= nodes_per_block
                BY <4>4, TreeAssumption
            <4> QED BY <4>2, <4>3, <4>5
        <3> QED BY <1>0, <2>3, <3>2, <3>4 DEF BlockInv, pool
    <2>6. NodeInv'
        BY <1>0, <2>3 DEF NodeInv, pool
    <2>7. NewInv'
        BY <1>0 DEF NewInv
    <2> QED BY <2>4, <2>5, <2>6, <2>7
<1>3. CASE head[parent[t]] # node[cur[t]].next
    <2>0. /\ node' = [node EXCEPT ![cur[t]].next = head[parent[t]]]
          /\ UNCHANGED <<head, segs, parent, pc>>
        BY <1>3 DEF append
    <2>1. head[parent[t]] \in Ids \cup {Nil}
        BY <1>1 DEF CallInv, TypeOK
    <2>2. node' \in [Ids -> Nodes]
        <3>1. node[cur[t]] \in Nodes /\ node \in [Ids -> Nodes]
            BY <1>1 DEF CallInv, TypeOK
        <3>2. [node[cur[t]] EXCEPT !.next = head[parent[t]]] \in Nodes
            BY <2>1, <3>1 DEF Nodes
        <3>3. node' = [node EXCEPT ![cur[t]] = [node[cur[t]] EXCEPT !.next = head[parent[t]]]]
            BY <2>0
        <3> QED BY <1>1, <3>1, <3>2, <3>3
    <2>3. CallInv'
        BY <1>0, <2>0, <2>2 DEF CallInv, TypeOK, pool
    <2>4. BlockInv' /\ NodeInv' /\ NewInv'
        BY <1>0, <2>0 DEF BlockInv, NodeInv, NewInv, pool
    <2> QED BY <2>3, <2>4
<1> QED BY <1>2, <1>3

(* The global data and its bootstrap nodes.                                 *)
LEMMA InstallGlobalInv ==
    ASSUME TreeInv, NEW t \in Threads, InstallGlobal(t)
    PROVE  TreeInv'
<1> USE DEF TreeInv
<1>0. pc[t] = "install" /\ pc' = [pc EXCEPT ![t] = "idle"] /\ UNCHANGED <<local, result, got, calls>>
    BY DEF InstallGlobal
<1>1. CASE mG
    <2>0. UNCHANGED <<mG, tree, pool>>
        BY <1>1 DEF InstallGlobal
    <2>1. CallInv'
        BY <1>0, <2>0 DEF CallInv, TypeOK, Busy, local, tree, pool
    <2>2. BlockInv'
        BY <1>0, <2>0 DEF CallInv, TypeOK, BlockInv, local, tree, pool
    <2>3. NodeInv'
        BY <1>0, <2>0 DEF CallInv, TypeOK, NodeInv, local, tree, pool
    <2>4. NewInv'
        BY <1>1, <2>0 DEF NewInv
    <2> QED BY <2>1, <2>2, <2>3, <2>4
<1>2. CASE ~mG
    <2> DEFINE boot(n) == [label |-> BootLabel, parent |-> Root,
                           next |-> IF n = 0 THEN Nil ELSE n - 1, maker |-> Nil]
    <2>0. /\ mG' = TRUE
          /\ made' = 0 .. Bootstrap - 1
          /\ node' = [n \in Ids |-> IF n \in made' THEN boot(n) ELSE node[n]]
          /\ head' = [head EXCEPT ![Root] = IF Bootstrap = 0 THEN Nil ELSE Bootstrap - 1]
          /\ m_nodeblock' = [m_nodeblock EXCEPT ![t] = 0]
          /\ index' = [index EXCEPT ![0] = Bootstrap]
          /\ next_block' = next_block
        BY <1>2 DEF InstallGlobal
    <2>1. 0 \in Blocks /\ Bootstrap \in Nat /\ Bootstrap <= nodes_per_block
        BY TreeAssumption DEF Blocks
    <2>2. \A i \in Nat : i < nodes_per_block => i \in Ids
        <3>1. \A i \in Nat : i < nodes_per_block => 0 * nodes_per_block + i \in Ids
            BY <2>1, IdInRange
        <3>2. 0 * nodes_per_block = 0
            BY TreeAssumption
        <3> QED BY <3>1, <3>2
    <2>3. made' \subseteq Ids
        <3>1. SUFFICES ASSUME NEW i \in 0 .. Bootstrap - 1 PROVE i \in Ids
            BY <2>0
        <3>2. i \in Nat /\ i < nodes_per_block
            BY <2>1, TreeAssumption
        <3> QED BY <2>2, <3>2
    <2>4. ASSUME NEW n \in made' PROVE boot(n) \in Nodes
        <3>1. n = 0 \/ n - 1 \in Ids
            <4>1. n \in 0 .. Bootstrap - 1
                BY <2>0, <2>4
            <4>2. n = 0 \/ (n - 1 \in Nat /\ n - 1 < nodes_per_block)
                BY <2>1, <4>1, TreeAssumption
            <4> QED BY <2>2, <4>2
        <3> QED BY <3>1 DEF Nodes
    <2> HIDE DEF boot
    <2>5. CallInv'
        <3>1. node' \in [Ids -> Nodes]
            BY <2>0, <2>4 DEF CallInv, TypeOK
        <3>2. head' \in [Ids \cup {Root} -> Ids \cup {Nil}]
            <4>1. Bootstrap # 0 => Bootstrap - 1 \in Ids
                BY <2>1, <2>2, TreeAssumption
            <4> QED BY <2>0, <4>1 DEF CallInv, TypeOK
        <3>3. /\ index' \in [0 .. num_blocks - 1 -> Nat]
              /\ m_nodeblock' \in [Threads -> 0 .. num_blocks - 1 \cup {NoBlock}]
            BY <2>0, <2>1 DEF CallInv, TypeOK, Blocks
        <3> QED BY <1>0, <2>0, <2>3, <3>1, <3>2, <3>3 DEF CallInv, TypeOK, Busy, local
    <2>6. /\ index'[0] = Bootstrap
          /\ \A c \in Blocks : c # 0 => index'[c] = index[c]
          /\ m_nodeblock'[t] = 0
          /\ \A u \in Threads \ {t} : m_nodeblock'[u] = NoBlock
          /\ \A u \in Threads : pc'[u] \in {"new", "install", "idle"}
        BY <1>0, <1>2, <2>0, <2>1 DEF CallInv, TypeOK, NewInv, Blocks
    <2>7. BlockInv'
        <3>1. \A c \in Blocks : index'[c] <= nodes_per_block
            BY <2>1, <2>6 DEF BlockInv
        <3>2. \A c \in Blocks : c >= next_block' => index'[c] = 0
            BY <2>0, <2>6 DEF BlockInv, CallInv, TypeOK, Blocks
        <3>3. \A u \in Threads : m_nodeblock'[u] < next_block'
            BY <2>0, <2>6 DEF BlockInv, CallInv, TypeOK, NoBlock
        <3> QED BY <2>0, <2>6, <3>1, <3>2, <3>3 DEF BlockInv
    <2>8. NodeInv'
        <3>1. ASSUME NEW m \in made'
              PROVE  0 * nodes_per_block <= m /\ m < 0 * nodes_per_block + index'[0]
            <4>1. 0 * nodes_per_block = 0
                BY TreeAssumption
            <4> QED BY <2>0, <2>1, <2>6, <4>1
        <3> QED BY <2>1, <2>6, <3>1 DEF NodeInv
    <2>9. NewInv'
        BY <2>0 DEF NewInv
    <2> QED BY <2>5, <2>7, <2>8, <2>9
<1> QED BY <1>1, <1>2

(* A call of one of the operations in Given.                                *)
LEMMA StartInv ==
    ASSUME TreeInv, NEW t \in Threads, NEW p \in Ids \cup {Root},
           NEW lists \in Seq(Lists), NEW path, Start(t, p, lists, path)
    PROVE  TreeInv'
<1> USE DEF TreeInv
<1>0. Root # Nil /\ Nil \notin Ids
    BY TreeAssumption DEF Root, Nil, Ids
<1>1. CallInv'
    <2>1. calls' \in [Threads -> 0 .. MaxCalls]
        BY TreeAssumption DEF Start, CallInv, TypeOK
    <2> QED BY <1>0, <2>1 DEF Start, CallInv, TypeOK, Busy, tree, pool
<1>2. BlockInv'
    BY DEF Start, CallInv, TypeOK, BlockInv, tree, pool
<1>3. NodeInv'
    BY DEF Start, CallInv, TypeOK, NodeInv, tree, pool
<1>4. NewInv'
    BY DEF Start, CallInv, TypeOK, NewInv, tree, pool
<1> QED BY <1>1, <1>2, <1>3, <1>4

LEMMA CallsInv ==
    ASSUME TreeInv, NEW t \in Threads, Call(t), Ops \subseteq Given
    PROVE  TreeInv'
<1> USE DEF TreeInv
<1>0. Places \subseteq Ids \cup {Root} /\ got \subseteq Ids /\ node \in [Ids -> Nodes]
    BY DEF Places, CallInv, TypeOK
<1>1. ASSUME NEW attr \in Attrs, NEW val \in Vals, NEW p \in Places, get_child(t, attr, val, p)
      PROVE  TreeInv'
    <2>1. <<<<attr, val>>>> \in Lists
        BY TreeAssumption DEF Lists, AllLabels, Labels
    <2>2. <<<<<<attr, val>>>>>> \in Seq(Lists)
        BY <2>1
    <2> QED BY <1>0, <1>1, <2>2, StartInv DEF get_child
<1>2. ASSUME NEW attr \in Attrs, NEW vals \in Paths, NEW p \in Places, get_path(t, attr, vals, p)
      PROVE  TreeInv'
    <2>1. Len(vals) = PathLength
        BY TreeAssumption DEF Paths
    <2>2. Data(attr, vals) \in Lists
        <3>1. Data(attr, vals) \in [1 .. PathLength -> AllLabels]
            BY <2>1 DEF Data, Paths, AllLabels, Labels
        <3> QED BY <3>1, TreeAssumption DEF Lists
    <2>3. <<Data(attr, vals)>> \in Seq(Lists)
        BY <2>2
    <2> QED BY <1>0, <1>2, <2>3, StartInv DEF get_path
<1>3. ASSUME NEW nodes \in NodeLists, NEW p \in Places, get_path_nodes(t, nodes, p)
      PROVE  TreeInv'
    <2>1. nodes \in [1 .. 2 -> got] /\ Len(nodes) = 2
        BY DEF NodeLists
    <2>2. \A i \in 1 .. 2 : node[nodes[i]].label \in AllLabels
        BY <1>0, <2>1 DEF Nodes, AllLabels
    <2>3. LabelsOf(nodes) \in [1 .. 2 -> AllLabels]
        BY <2>1, <2>2 DEF LabelsOf
    <2>4. Len(LabelsOf(nodes)) = 2
        BY <2>3
    <2>5. \A i \in 1 .. 2 : <<LabelsOf(nodes)[i]>> \in Lists
        BY <2>3, TreeAssumption DEF Lists
    <2>6. Singles(LabelsOf(nodes)) \in [1 .. 2 -> Lists]
        BY <2>4, <2>5 DEF Singles
    <2>7. Singles(LabelsOf(nodes)) \in Seq(Lists)
        <3>1. \A S : \A f \in [1 .. 2 -> S] : f \in Seq(S)
            BY SeqDef
        <3> QED BY <2>6, <3>1, Zenon
    <2> QED BY <1>0, <1>3, <2>7, StartInv DEF get_path_nodes
<1>4. ~(\E p, attr, val : replace_first_in_path(t, p, attr, val))
      /\ ~(\E p, attr, vals : replace_all_in_path(t, p, attr, vals))
      /\ ~(\E p, attr : remove_first_in_path(t, p, attr))
    BY DEF Given, replace_first_in_path, replace_all_in_path, remove_first_in_path
<1> QED BY <1>1, <1>2, <1>3, <1>4 DEF Call

(* Every step keeps the invariant.                                          *)
LEMMA NextTreeInv ==
    ASSUME TreeInv, [Next]_vars, Ops \subseteq Given, PathLength <= nodes_per_block
    PROVE  TreeInv'
<1>1. CASE UNCHANGED vars
    BY <1>1 DEF vars, TreeInv, CallInv, TypeOK, BlockInv, NodeInv, NewInv
<1>2. ASSUME NEW t \in Threads, Call(t) PROVE TreeInv'
    BY <1>2, CallsInv
<1>3. ASSUME NEW t \in Threads, Step(t) PROVE TreeInv'
    BY <1>3, LoadGlobalInv, InstallGlobalInv, LoadHeadInv, MatchInv, NextSiblingInv,
       have_free_nodeblockInv, TakeBlockInv, ConstructInv, appendInv, ReturnInv DEF Step
<1> QED BY <1>1, <1>2, <1>3 DEF Next, Finished

(* The invariant holds in every reachable state.                            *)
THEOREM TreeInvariant ==
    ASSUME Ops \subseteq Given, PathLength <= nodes_per_block
    PROVE  Spec => []TreeInv
<1>1. TreeInv /\ [Next]_vars => TreeInv'
    BY NextTreeInv
<1> QED BY <1>1, InitTreeInv, PTL DEF Spec

(* Paths that fit into a block never overrun it: have_free_nodeblock checks *)
(* for a whole path and create_path uses no more than it was given.         *)
THEOREM BlocksHold ==
    ASSUME Ops \subseteq Given, PathLength <= nodes_per_block
    PROVE  Spec => []BlocksNotOverrun
<1>1. TreeInv => BlocksNotOverrun
    BY DEF TreeInv, BlockInv, BlocksNotOverrun, Blocks
<1> QED BY <1>1, TreeInvariant, PTL

(* A node that is in the tree is never written again, for any number of     *)
(* threads: blocks have one owner, an id is used once, and the only links   *)
(* that append() changes are those of the node that is being appended.      *)
THEOREM NodesFixed ==
    ASSUME Ops \subseteq Given, PathLength <= nodes_per_block
    PROVE  Spec => PublishedFixed
<1> DEFINE Fixed == \A n \in Published : n \in Published' /\ node'[n] = node[n]
<1>1. ASSUME TreeInv, [Next]_vars PROVE Fixed
    <2>0. CallInv /\ TypeOK
        BY <1>1 DEF TreeInv, CallInv
    <2>1. CASE UNCHANGED vars
        BY <2>1 DEF vars, Published, Private
    <2>2. ASSUME NEW t \in Threads, UNCHANGED <<node, made>>, pc'[t] # "append" \/ pc'[t] = pc[t],
                 cur'[t] = cur[t] \/ pc'[t] # "append",
                 \A u \in Threads \ {t} : pc'[u] = pc[u] /\ cur'[u] = cur[u]
          PROVE  Fixed
        BY <2>2 DEF Published, Private
    <2>3. ASSUME NEW t \in Threads, Construct(t) PROVE Fixed
        <3>1. PICK id \in Ids \ made :
                 /\ node' = [node EXCEPT ![id] = [label |-> Head(Head(segs[t])), parent |-> parent[t],
                                                  next |-> Nil, maker |-> t]]
                 /\ made' = made \cup {id} /\ cur'[t] = id
            BY <1>1, <2>0, <2>3, ConstructFresh DEF Construct, TypeOK
        <3>2. \A u \in Threads \ {t} : pc'[u] = pc[u] /\ cur'[u] = cur[u]
            BY <2>0, <2>3 DEF Construct, TypeOK
        <3>3. \A n \in made : node'[n] = node[n] /\ n # id
            BY <2>0, <3>1 DEF TypeOK
        <3> QED BY <3>1, <3>2, <3>3 DEF Published, Private
    <2>4. ASSUME NEW t \in Threads, append(t) PROVE Fixed
        <3>1. cur' = cur /\ made' = made /\ pc[t] = "append"
            BY <2>4 DEF append
        <3>2. \A u \in Threads : pc'[u] = "append" => pc[u] = "append"
            BY <2>0, <2>4 DEF append, Appended, TypeOK
        <3>3. \A n \in Ids : n # cur[t] => node'[n] = node[n]
            BY <2>0, <2>4 DEF append, TypeOK
        <3> QED BY <2>0, <3>1, <3>2, <3>3 DEF Published, Private, TypeOK
    <2>5. ASSUME NEW t \in Threads, InstallGlobal(t) PROVE Fixed
        <3>1. CASE mG
            BY <2>0, <2>2, <2>5, <3>1 DEF InstallGlobal, local, tree, TypeOK
        <3>2. CASE ~mG
            BY <1>1, <3>2 DEF TreeInv, NewInv, Published
        <3> QED BY <3>1, <3>2
    <2>6. ASSUME NEW t \in Threads, Call(t) PROVE Fixed
        <3>1. PICK p, lists, path : Start(t, p, lists, path)
            BY <2>6 DEF Call, get_child, get_path, get_path_nodes, remove_first_in_path,
               replace_first_in_path, replace_all_in_path
        <3> QED BY <2>0, <2>2, <3>1 DEF Start, tree, TypeOK
    <2>7. ASSUME NEW t \in Threads,
                 LoadGlobal(t) \/ LoadHead(t) \/ Match(t) \/ NextSibling(t) \/ Return(t)
          PROVE  Fixed
        BY <2>0, <2>2, <2>7 DEF LoadGlobal, LoadHead, Match, NextSibling, Return, local, tree, TypeOK
    <2>8. ASSUME NEW t \in Threads, have_free_nodeblock(t) \/ TakeBlock(t) PROVE Fixed
        BY <2>0, <2>2, <2>8 DEF have_free_nodeblock, TakeBlock, GiveUp, tree, TypeOK
    <2> QED BY <1>1, <2>1, <2>3, <2>4, <2>5, <2>6, <2>7, <2>8 DEF Next, Finished, Step
<1>2. TreeInv /\ [Next]_vars => [Fixed]_vars
    BY <1>1
<1> QED BY <1>2, TreeInvariant, PTL DEF Spec, PublishedFixed

=============================================================================
