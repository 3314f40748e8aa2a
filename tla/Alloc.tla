-------------------------------- MODULE Alloc -------------------------------
(***************************************************************************)
(* The alloc service with the sysalloc hooks that feed it: threads         *)
(* allocate, reallocate and free memory; the hooks report the blocks to    *)
(* the channels; the service keeps the reported blocks in a splay tree     *)
(* (under one lock) and the amount of active memory with its high-water    *)
(* marks (under another lock), so a call passes through several steps that *)
(* interleave with those of other threads.                                 *)
(*                                                                         *)
(* Addresses are small numbers; 0 is the null pointer a failed allocation  *)
(* returns, which the hooks report like any other.  Labels, attributes and *)
(* the snapshots that announce a block are left out.                       *)
(***************************************************************************)
EXTENDS Integers, Sequences, FiniteSetsExt, TLC

CONSTANT AlConfigs    \* [threads, top: highest address, sizes, faults: bound on
                      \*  failed allocations and (de)activations, snaps: bound
                      \*  on snapshots, total: allocations after which no more start]

VARIABLES al_cfg,     \* the configuration of this behaviour
          heap,       \* the process's live blocks: address -> size
          tree,       \* g_tree
          mem,        \* [active, hwm, region_hwm] of the service
          tracked,    \* [cur, max, total, failed] counters
          al_active,  \* the channel is active
          call,       \* what each thread does
          snaps,      \* snapshots taken
          al_faults   \* faults so far

alvars == <<al_cfg, heap, tree, mem, tracked, al_active, call, snaps, al_faults>>

-----------------------------------------------------------------------------
(* SplayTree: nodes are identified by their key, the start address.  NIL   *)
(* is the null pointer.                                                    *)
NIL == -1
EmptyTree == [root |-> NIL, node |-> <<>>]
STNode(p, size, h) == [parent |-> p, left |-> NIL, right |-> NIL, size |-> size, hand |-> h]
Patch(node, k, f) == IF k = NIL THEN node ELSE [node EXCEPT ![k] = f @@ @]

rotate_left(node, n) ==
    LET p   == node[n].parent
        npp == node[p].parent
        a   == Patch(node, node[n].left, [parent |-> p, hand |-> "RIGHT"])
        b   == Patch(a, p, [parent |-> n, hand |-> "LEFT", right |-> node[n].left])
    IN Patch(b, n, [left |-> p, parent |-> npp,
                    hand |-> IF npp # NIL THEN node[p].hand ELSE "NA"])

rotate_right(node, n) ==
    LET p   == node[n].parent
        npp == node[p].parent
        a   == Patch(node, node[n].right, [parent |-> p, hand |-> "LEFT"])
        b   == Patch(a, p, [parent |-> n, hand |-> "RIGHT", left |-> node[n].right])
    IN Patch(b, n, [right |-> p, parent |-> npp,
                    hand |-> IF npp # NIL THEN node[p].hand ELSE "NA"])

\* One round of the loop of splay: a zig, a zig-zig or a zig-zag.
Rotate(node, n) == IF node[n].hand = "RIGHT" THEN rotate_left(node, n) ELSE rotate_right(node, n)
SplayRound(node, n) ==
    LET p == node[n].parent
    IN IF node[p].parent = NIL THEN Rotate(node, n)
       ELSE IF node[n].hand = node[p].hand THEN Rotate(Rotate(node, n), n)
       ELSE LET h == node[p].hand
                r == Rotate(node, n)
            IN IF h = "LEFT" THEN rotate_right(r, n) ELSE rotate_left(r, n)
RECURSIVE splay(_, _)
splay(node, n) == IF node[n].parent = NIL THEN node ELSE splay(SplayRound(node, n), n)

\* Where the search for key k ends: the node, or the one it would hang below.
RECURSIVE Descend(_, _, _)
Descend(node, n, k) ==
    LET next == IF k < n THEN node[n].left ELSE node[n].right
    IN IF k = n \/ next = NIL THEN n ELSE Descend(node, next, k)

\* insert; an entry with the same key is overwritten in place
tree_insert(t, k, size) ==
    IF t.root = NIL THEN [root |-> k, node |-> k :> STNode(NIL, size, "NA")]
    ELSE LET at == Descend(t.node, t.root, k)
             side == IF k < at THEN "left" ELSE "right"
             new == IF at = k THEN Patch(t.node, k, [size |-> size])
                    ELSE (k :> STNode(at, size, IF k < at THEN "LEFT" ELSE "RIGHT"))
                         @@ Patch(t.node, at, side :> k)
         IN [root |-> k, node |-> splay(new, k)]

RECURSIVE findMax(_, _)
findMax(node, n) == IF node[n].right = NIL THEN n ELSE findMax(node, node[n].right)

Without(node, k) == [x \in DOMAIN node \ {k} |-> node[x]]
tree_remove_noparent(t, k) ==
    LET top == splay(t.node, k)
        l   == top[k].left
        r   == top[k].right
        cut == Patch(top, l, [parent |-> NIL, hand |-> "NA"])
        m   == findMax(cut, l)
    IN IF l # NIL
       THEN [root |-> m, node |-> Without(Patch(splay(cut, m), m, [right |-> r]), k)]
       ELSE [root |-> r, node |-> Without(Patch(top, r, [parent |-> NIL, hand |-> "NA"]), k)]
tree_remove(t, k) ==
    LET top == splay(t.node, k)
        l   == top[k].left
        r   == top[k].right
        cut == Patch(top, l, [parent |-> NIL, hand |-> "NA"])
        m   == findMax(cut, l)
    IN IF l # NIL
       THEN [root |-> m,
             node |-> Without(Patch(Patch(splay(cut, m), m, [right |-> r]), r, [parent |-> m]), k)]
       ELSE [root |-> r, node |-> Without(Patch(top, r, [parent |-> NIL, hand |-> "NA"]), k)]

\* The three-way predicates on a node's block, and the search they steer.
ContainsAddress(a, n, size) == IF a < n THEN -1 ELSE IF a < n + size THEN 0 ELSE 1
HasStartAddress(a, n, size) == IF a < n THEN -1 ELSE IF a = n THEN 0 ELSE 1
ThreeWayPred(pred, a, n, size) ==
    IF pred = "contains" THEN ContainsAddress(a, n, size) ELSE HasStartAddress(a, n, size)
RECURSIVE FindFrom(_, _, _, _)
FindFrom(node, n, pred, a) ==
    IF n = NIL THEN NIL
    ELSE LET res == ThreeWayPred(pred, a, n, node[n].size)
         IN IF res < 0 THEN FindFrom(node, node[n].left, pred, a)
            ELSE IF res > 0 THEN FindFrom(node, node[n].right, pred, a)
            ELSE n
tree_find(t, pred, a) == FindFrom(t.node, t.root, pred, a)

-----------------------------------------------------------------------------
Idle == [at |-> "idle"]
Larger(a, b) == IF a < b THEN b ELSE a
Overlaps(a, n, b, m) == a < b + m /\ b < a + n
Room(h, size) == {a \in 1 .. al_cfg.top - size + 1 :
                    \A b \in DOMAIN h : ~Overlaps(a, size, b, h[b])}
Step(t, c) == call' = [call EXCEPT ![t] = c]
Faulty == al_faults < al_cfg.faults

AlInit ==
    /\ al_cfg \in AlConfigs
    /\ heap = <<>> /\ tree = EmptyTree
    /\ mem = [active |-> 0, hwm |-> 0, region_hwm |-> 0]
    /\ tracked = [cur |-> 0, max |-> 0, total |-> 0, failed |-> 0]
    /\ al_active = TRUE
    /\ call = [t \in al_cfg.threads |-> Idle]
    /\ snaps = 0 /\ al_faults = 0

\* The hooks after the original malloc, calloc or realloc returned block a:
\* report it if the channel is active.  memory_region_begin runs track_mem_cb.
Report(t, a, size) ==
    Step(t, IF al_active THEN [at |-> "track", addr |-> a, size |-> size] ELSE Idle)

cali_malloc_wrapper(t) ==
    /\ call[t] = Idle /\ tracked.total < al_cfg.total
    /\ \E size \in al_cfg.sizes :
         \/ \E a \in Room(heap, size) :
              heap' = (a :> size) @@ heap /\ Report(t, a, size) /\ UNCHANGED al_faults
         \/ /\ Faulty                            \* the allocation fails
            /\ al_faults' = al_faults + 1
            /\ Report(t, 0, size) /\ UNCHANGED heap
    /\ UNCHANGED <<al_cfg, tree, mem, tracked, al_active, snaps>>

\* track_mem_cb, first locked section
track_mem_hwm(t) ==
    /\ call[t].at = "track"
    /\ mem' = [active     |-> mem.active + call[t].size,
               hwm        |-> Larger(mem.hwm, mem.active + call[t].size),
               region_hwm |-> Larger(mem.region_hwm, mem.active + call[t].size)]
    /\ Step(t, [call[t] EXCEPT !.at = "insert"])
    /\ UNCHANGED <<al_cfg, heap, tree, tracked, al_active, snaps, al_faults>>

\* track_mem_cb, second locked section
track_mem_insert(t) ==
    /\ call[t].at = "insert"
    /\ tree' = tree_insert(tree, call[t].addr, call[t].size)
    /\ tracked' = [tracked EXCEPT !.cur = @ + 1, !.max = Larger(@, tracked.cur + 1), !.total = @ + 1]
    /\ Step(t, Idle)
    /\ UNCHANGED <<al_cfg, heap, mem, al_active, snaps, al_faults>>

\* The program frees or reallocates a block no other call is still handling.
\* The hook calls memory_region_end before the original function.
Free(t, a, new) ==
    /\ call[t] = Idle
    /\ \A u \in al_cfg.threads : "addr" \in DOMAIN call[u] => call[u].addr # a
    /\ Step(t, [at |-> IF al_active THEN "untrack" ELSE "orig", addr |-> a, size |-> 0, new |-> new])
    /\ UNCHANGED <<al_cfg, heap, tree, mem, tracked, al_active, snaps, al_faults>>
cali_free_wrapper(t) ==
    \E a \in DOMAIN heap \cup {0} : (a = 0 => tracked.failed < 1) /\ Free(t, a, 0)
cali_realloc_wrapper(t) == tracked.total < al_cfg.total /\ \E a \in DOMAIN heap : \E size \in al_cfg.sizes : Free(t, a, size)

\* untrack_mem_cb, first locked section
untrack_mem_remove(t) ==
    /\ call[t].at = "untrack"
    /\ LET n == tree_find(tree, "start", call[t].addr)
       IN IF n = NIL
          THEN /\ tracked' = [tracked EXCEPT !.failed = @ + 1]
               /\ Step(t, [call[t] EXCEPT !.at = "orig"]) /\ UNCHANGED tree
          ELSE /\ tree' = tree_remove(tree, n)
               /\ tracked' = [tracked EXCEPT !.cur = @ - 1]
               /\ Step(t, [call[t] EXCEPT !.at = "sub", !.size = tree.node[n].size])
    /\ UNCHANGED <<al_cfg, heap, mem, al_active, snaps, al_faults>>

\* untrack_mem_cb, second locked section
untrack_mem_hwm(t) ==
    /\ call[t].at = "sub"
    /\ mem' = [mem EXCEPT !.active = @ - call[t].size]
    /\ Step(t, [call[t] EXCEPT !.at = "orig", !.size = 0])
    /\ UNCHANGED <<al_cfg, heap, tree, tracked, al_active, snaps, al_faults>>

\* The original free or realloc.  A realloc that fails leaves the block alive.
orig_free(t) ==
    /\ call[t].at = "orig"
    /\ LET h == Without(heap, call[t].addr)
       IN IF call[t].new = 0 THEN heap' = h /\ Step(t, Idle) /\ UNCHANGED al_faults
          ELSE \/ \E a \in Room(h, call[t].new) :
                    /\ heap' = (a :> call[t].new) @@ h
                    /\ Report(t, a, call[t].new) /\ UNCHANGED al_faults
               \/ /\ Faulty
                  /\ al_faults' = al_faults + 1
                  /\ Report(t, 0, call[t].new) /\ UNCHANGED heap
    /\ UNCHANGED <<al_cfg, tree, mem, tracked, al_active, snaps>>

\* snapshot_cb reads the active memory without a lock, then takes and resets
\* the region's mark under it.
alloc_snapshot_cb(t) ==
    /\ call[t] = Idle /\ snaps < al_cfg.snaps
    /\ snaps' = snaps + 1
    /\ Step(t, [at |-> "hwm", active |-> mem.active])
    /\ UNCHANGED <<al_cfg, heap, tree, mem, tracked, al_active, al_faults>>
record_highwatermark(t) ==
    /\ call[t].at = "hwm"
    /\ mem' = [mem EXCEPT !.region_hwm = mem.active]
    /\ Step(t, Idle)
    /\ UNCHANGED <<al_cfg, heap, tree, tracked, al_active, snaps, al_faults>>

\* The program deactivates or activates the channel.
Toggle ==
    /\ Faulty
    /\ al_faults' = al_faults + 1
    /\ al_active' = ~al_active
    /\ UNCHANGED <<al_cfg, heap, tree, mem, tracked, call, snaps>>

AlNext ==
    \/ Toggle
    \/ \E t \in al_cfg.threads :
         \/ cali_malloc_wrapper(t) \/ track_mem_hwm(t) \/ track_mem_insert(t)
         \/ cali_free_wrapper(t) \/ cali_realloc_wrapper(t)
         \/ untrack_mem_remove(t) \/ untrack_mem_hwm(t) \/ orig_free(t)
         \/ alloc_snapshot_cb(t) \/ record_highwatermark(t)

-----------------------------------------------------------------------------
SizeIn(t) == MapThenSumSet(LAMBDA k : t.node[k].size, DOMAIN t.node)
InFlight == MapThenSumSet(LAMBDA t : call[t].size,
                          {t \in al_cfg.threads : call[t].at \in {"insert", "sub"}})
Quiet == \A t \in al_cfg.threads : call[t].at \in {"idle", "hwm"}

\* Active memory is the tracked blocks plus those a thread is just entering or
\* removing: the two locks of track_mem_cb and untrack_mem_cb are never held
\* together, yet the amount never wraps below zero, the marks are never below
\* it, and between calls it is the memory the process really has.  A failed
\* allocation or an inactive channel may leave it too high, never too low.
AccountExact ==
    /\ mem.active >= SizeIn(tree) + InFlight
    /\ mem.region_hwm >= mem.active /\ mem.hwm >= mem.region_hwm
    /\ al_faults = 0 =>
         /\ mem.active = SizeIn(tree) + InFlight
         /\ Quiet => /\ mem.active = MapThenSumSet(LAMBDA a : heap[a], DOMAIN heap)
                     /\ tracked.cur = Cardinality(DOMAIN heap)

RECURSIVE InOrder(_, _)
InOrder(node, n) ==
    IF n = NIL THEN <<>>
    ELSE InOrder(node, node[n].left) \o <<n>> \o InOrder(node, node[n].right)
WellLinked(t) ==
    \A n \in DOMAIN t.node :
       LET x == t.node[n]
       IN /\ x.left # NIL => t.node[x.left].parent = n /\ t.node[x.left].hand = "LEFT"
          /\ x.right # NIL => t.node[x.right].parent = n /\ t.node[x.right].hand = "RIGHT"
          /\ x.parent = NIL <=> n = t.root

\* The splay tree stays a search tree of all its entries through every rotation,
\* and while every block was reported an address is resolved to the block that
\* contains it, and to none if none does.
ResolveExact ==
    /\ WellLinked(tree)
    /\ LET order == InOrder(tree.node, tree.root)
       IN /\ Len(order) = Cardinality(DOMAIN tree.node)
          /\ \A i \in 1 .. Len(order) - 1 : order[i] < order[i + 1]
    /\ al_faults = 0 =>
         \A a \in 1 .. al_cfg.top :
            LET holders == {n \in DOMAIN tree.node : n <= a /\ a < n + tree.node[n].size}
            IN tree_find(tree, "contains", a) = (IF holders = {} THEN NIL ELSE Max(holders))
=============================================================================
