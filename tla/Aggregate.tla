----------------------------- MODULE Aggregate -----------------------------
(***************************************************************************)
(* The aggregation service (src/src/services/aggregate): every thread folds *)
(* its snapshots into an aggregation database of its own.  Any thread may   *)
(* flush the databases of all threads while their owners go on.             *)
(*                                                                          *)
(* A snapshot record is a sequence of entries: <<"ref", path>>, a node of   *)
(* the metadata tree as the labels <<attribute, value>> from the root, or   *)
(* <<"imm", attribute, value>>.  Numbers are scaled so that DblMin, the     *)
(* smallest positive double, lies between 0 and every other positive value. *)
(***************************************************************************)
EXTENDS Integers, Sequences, FiniteSets, FiniteSetsExt, SequencesExt

CONSTANTS
    Threads, Main, None,
    Snapshots,     \* the records that may be taken
    Configs,       \* the values of the key option, as sets of words
    Attributes,    \* the program's attributes: [name, store, aggregatable]
    Existing,      \* those that exist before the service, a sequence
    Nested,        \* names of the attributes with the nested property
    EntryHash(_),  \* node id, or attribute id plus value
    Buckets,       \* size of the hash table
    Reserve,       \* capacity the vectors start with
    MaxKeyLen,     \* MAX_KEYLEN
    MaxSnapshots,  \* bounds of the model on snapshots
    MaxFlushes     \* and on flushes and clears

DblMin == 1
DblMax == 1000
Skipped == <<"ref", <<<<"skipped.records", "SKIPPED">>>>>>
Raced == -1

ASSUME AggregateAssumption ==
    /\ Main \in Threads
    /\ Buckets \in Nat \ {0} /\ Reserve \in Nat /\ MaxKeyLen \in Nat
    /\ MaxSnapshots \in Nat /\ MaxFlushes \in Nat

VARIABLES
    info,      \* AttributeInfo, and the key_attribute_names not yet seen
    created,   \* attributes that exist
    db,        \* aggregation database of each thread, or None
    stopped, retired,  \* the flags of the ThreadDBs
    tdb_list,  \* threads whose databases are linked, newest first
    pc,
    arg,       \* the snapshot a thread is to process
    at,        \* the database a flush is at, or None
    taken, flushes,
    done,      \* history: the snapshots processed since the last clear
    before,    \* history: how many those were when a flush began
    got        \* history: how many a flush has read, by database

hist == <<done, before, got>>
vars == <<info, created, db, stopped, retired, tdb_list, pc, arg, at, taken,
          flushes, hist>>

-----------------------------------------------------------------------------
(* AggregationDB                                                            *)

NewEntry(key_idx, key_len, kernels_idx, num_kernels, next) ==
    [count |-> 0, key_idx |-> key_idx, key_len |-> key_len,
     kernels_idx |-> kernels_idx, num_kernels |-> num_kernels,
     next_entry_idx |-> next]

(* Entry 0 counts the snapshots that found no space.  m_key0 is the memory  *)
(* of the first key entry, which clear() leaves as it is.                   *)
NewDB ==
    [m_entries |-> <<NewEntry(0, 1, 0, 0, 0)>>, m_keyents |-> <<Skipped>>,
     m_kernels |-> <<>>, m_hashmap |-> [h \in 0 .. Buckets - 1 |-> 0],
     m_key0 |-> Skipped,
     cap |-> [entries |-> Reserve, keyents |-> Reserve, kernels |-> Reserve]]

NewKernel == [min |-> DblMax, max |-> DblMin, sum |-> 0, count |-> 0]

(* AggregateKernel::update()                                                *)
update(k, val) ==
    [min |-> IF val < k.min THEN val ELSE k.min,
     max |-> IF val > k.max THEN val ELSE k.max,
     sum |-> k.sum + val, count |-> k.count + 1]

(* Entries are numbered from 0.                                             *)
Ent(d, i) == d.m_entries[i + 1]
KeyOf(d, e) ==
    IF e.key_idx = 0 /\ e.key_len = 1 THEN <<d.m_key0>>
    ELSE SubSeq(d.m_keyents, e.key_idx + 1, e.key_idx + e.key_len)

IsRef(e) == e[1] = "ref"
Leaf(e) == Last(e[2])[1]

(* make_key_node(): the labels of the key attributes, attribute by          *)
(* attribute, each from the first entry of the record that has some.        *)
make_key_node(rec) ==
    LET labels(a) ==
            LET has == SelectSeq(rec, LAMBDA e : IsRef(e) /\ \E i \in DOMAIN e[2] : e[2][i][1] = a)
            IN  IF has = <<>> THEN <<>>
                ELSE SelectSeq(Head(has)[2], LAMBDA l : l[1] = a)
    IN  FlattenSeq([i \in DOMAIN info.ref_key_attrs |-> labels(info.ref_key_attrs[i])])

RefKey(rec) ==
    IF info.implicit_grouping THEN SelectSeq(rec, IsRef)
    ELSE LET nested == SelectSeq(rec, LAMBDA e : IsRef(e) /\ Leaf(e) \in Nested)
             node == make_key_node(rec)
         IN  (IF info.group_nested /\ nested # <<>> THEN <<Head(nested)>> ELSE <<>>)
             \o (IF node # <<>> THEN << <<"ref", node>> >> ELSE <<>>)

(* The first of the entries that a test selects, if there is one.           *)
FirstOf(rec, Test(_)) ==
    LET has == SelectSeq(rec, Test) IN SubSeq(has, 1, Min({1, Len(has)}))

get_immediate_entry(rec, a) == FirstOf(rec, LAMBDA e : e[1] = "imm" /\ e[2] = a)

(* The key entries process_snapshot() finds in a record; the key itself is  *)
(* cut to MaxKeyLen entries, its hash is not.                               *)
KeyEntries(rec) ==
    RefKey(rec) \o
    FlattenSeq([i \in DOMAIN info.imm_key_attrs |->
                  get_immediate_entry(rec, info.imm_key_attrs[i])])

Key(rec) == SubSeq(KeyEntries(rec), 1, Min({MaxKeyLen, Len(KeyEntries(rec))}))
Hash(rec) == FoldSeq(LAMBDA e, h : EntryHash(e) + h, 0, KeyEntries(rec)) % Buckets

(* The entries on the hash chain of a bucket.                               *)
Chain(d, h) ==
    LET from[i \in 0 .. Len(d.m_entries) - 1] ==
            IF i = 0 THEN <<>> ELSE <<i>> \o from[Ent(d, i).next_entry_idx]
    IN  from[d.m_hashmap[h]]

(* A vector that has to grow doubles.                                       *)
Grown(cap, size, n) == IF size + n <= cap THEN cap ELSE Max({2 * size, size + n})

(* No memory may be allocated in a signal handler.                          *)
Full(d, key, n) ==
    \/ Len(d.m_kernels) + n >= d.cap.kernels
    \/ Len(d.m_keyents) + Len(key) >= d.cap.keyents
    \/ Len(d.m_entries) + 1 >= d.cap.entries

(* Mutation: a new entry replaces the chain of its bucket.                  *)
AddAlone(d, key, h, n) ==
    [d EXCEPT
        !.m_kernels = @ \o [i \in 1 .. n |-> NewKernel],
        !.m_keyents = @ \o key,
        !.m_key0 = IF d.m_keyents = <<>> /\ key # <<>> THEN key[1] ELSE @,
        !.m_entries = Append(@, NewEntry(Len(d.m_keyents), Len(key),
                                         Len(d.m_kernels), n, 0)),
        !.m_hashmap[h] = Len(d.m_entries),
        !.cap = [entries |-> Grown(@.entries, Len(d.m_entries), 1),
                 keyents |-> Grown(@.keyents, Len(d.m_keyents), Len(key)),
                 kernels |-> Grown(@.kernels, Len(d.m_kernels), n)]]

(* A new entry goes to the head of its hash chain.                          *)
Add(d, key, h, n) ==
    [d EXCEPT
        !.m_kernels = @ \o [i \in 1 .. n |-> NewKernel],
        !.m_keyents = @ \o key,
        !.m_key0 = IF d.m_keyents = <<>> /\ key # <<>> THEN key[1] ELSE @,
        !.m_entries = Append(@, NewEntry(Len(d.m_keyents), Len(key),
                                         Len(d.m_kernels), n, d.m_hashmap[h])),
        !.m_hashmap[h] = Len(d.m_entries),
        !.cap = [entries |-> Grown(@.entries, Len(d.m_entries), 1),
                 keyents |-> Grown(@.keyents, Len(d.m_keyents), Len(key)),
                 kernels |-> Grown(@.kernels, Len(d.m_kernels), n)]]

(* The database with an entry for the record, and that entry's index.       *)
find_or_create_entry(d, rec, can_alloc) ==
    LET key == Key(rec)
        hits == SelectSeq(Chain(d, Hash(rec)), LAMBDA i : KeyOf(d, Ent(d, i)) = key)
        n == Len(info.aggr_attrs)
    IN  IF hits # <<>> THEN [d |-> d, entry |-> Head(hits)]
        ELSE IF ~can_alloc /\ Full(d, key, n) THEN [d |-> d, entry |-> 0]
        ELSE [d |-> Add(d, key, Hash(rec), n), entry |-> Len(d.m_entries)]

(* The count and the kernels of entry i after a record.                     *)
Updated(d, i, rec) ==
    LET e == Ent(d, i)
        n == Min({e.num_kernels, Len(info.aggr_attrs)})
        new(k) ==
            LET a == k - e.kernels_idx
                vals == IF a \in 1 .. n THEN get_immediate_entry(rec, info.aggr_attrs[a]) ELSE <<>>
            IN  IF vals = <<>> THEN d.m_kernels[k] ELSE update(d.m_kernels[k], vals[1][3])
    IN  [d EXCEPT !.m_entries[i + 1].count = @ + 1,
                  !.m_kernels = [k \in DOMAIN @ |-> new(k)]]

process_snapshot(d, rec, can_alloc) ==
    IF rec = <<>> THEN d
    ELSE LET f == find_or_create_entry(d, rec, can_alloc)
         IN  Updated(f.d, f.entry, rec)

(* clear(): the vectors keep their memory.                                  *)
clear(d) ==
    [d EXCEPT !.m_hashmap = [h \in DOMAIN @ |-> 0],
              !.m_entries = <<[@[1] EXCEPT !.count = 0]>>,
              !.m_kernels = <<>>, !.m_keyents = <<>>]

(* flush(): one row for each entry that was counted.                        *)
Row(d, e) ==
    [key |-> KeyOf(d, e), count |-> e.count,
     stats |-> [a \in {a \in 1 .. e.num_kernels : d.m_kernels[e.kernels_idx + a].count > 0}
                  |-> LET k == d.m_kernels[e.kernels_idx + a]
                      IN  [min |-> k.min, max |-> k.max, sum |-> k.sum, n |-> k.count]]]
flush(d) ==
    LET counted == SelectSeq(d.m_entries, LAMBDA e : e.count > 0)
    IN  [i \in DOMAIN counted |-> Row(d, counted[i])]

-----------------------------------------------------------------------------
(* The service                                                              *)

(* The words of the "key" option: "*", "path", "prop:nested" or a name.     *)
apply_key_config(words) ==
    [implicit_grouping |-> words = {} \/ "*" \in words,
     group_nested |-> words \cap {"path", "prop:nested"} # {},
     key_attribute_names |-> words \ {"*", "path", "prop:nested"},
     ref_key_attrs |-> <<>>, imm_key_attrs |-> <<>>, aggr_attrs |-> <<>>]

(* check_key_attribute() and check_aggregation_attribute()                  *)
Register(i, a) ==
    LET is_key == a.name \in i.key_attribute_names /\ a.store # "other"
    IN  [i EXCEPT
          !.key_attribute_names = IF is_key THEN @ \ {a.name} ELSE @,
          !.imm_key_attrs = IF is_key /\ a.store = "imm" THEN Append(@, a.name) ELSE @,
          !.ref_key_attrs = IF is_key /\ a.store = "ref" THEN Append(@, a.name) ELSE @,
          !.aggr_attrs = IF a.aggregatable /\ a.name \notin Range(@) THEN Append(@, a.name) ELSE @]

(* post_init_cb() registers the attributes that exist and makes the         *)
(* database of the initializing thread.                                     *)
Init ==
    /\ \E config \in Configs : info = FoldLeft(Register, apply_key_config(config), Existing)
    /\ created = Range(Existing)
    /\ db = [t \in Threads |-> IF t = Main THEN NewDB ELSE None]
    /\ stopped = [t \in Threads |-> FALSE]
    /\ retired = [t \in Threads |-> FALSE]
    /\ tdb_list = <<Main>>
    /\ pc = [t \in Threads |-> "idle"]
    /\ arg = [t \in Threads |-> None]
    /\ at = [t \in Threads |-> None]
    /\ taken = 0
    /\ flushes = 0
    /\ done = [t \in Threads |-> <<>>]
    /\ before = [t \in Threads |-> None]
    /\ got = [t \in Threads |-> None]

Quiet(t) == \A u \in Threads \ {t} : pc[u] \in {"idle", "gone"}

(* An attribute is created, or seen again.  Nothing protects the attribute  *)
(* lists, so no other thread may be in the service.                         *)
create_attribute_cb(t, a) ==
    /\ pc[t] = "idle" /\ Quiet(t)
    /\ created' = created \cup {a}
    /\ info' = Register(info, a)
    /\ UNCHANGED <<db, stopped, retired, tdb_list, pc, arg, at, taken, flushes, hist>>

(* Mutation: a thread that has a database gets another.                     *)
acquire_again(t, can_alloc) ==
    IF can_alloc
    THEN /\ db' = [db EXCEPT ![t] = NewDB]
         /\ tdb_list' = <<t>> \o tdb_list
    ELSE UNCHANGED <<db, tdb_list>>

(* acquire_tdb()                                                            *)
acquire_tdb(t, can_alloc) ==
    IF db[t] = None /\ can_alloc
    THEN /\ db' = [db EXCEPT ![t] = NewDB]
         /\ tdb_list' = <<t>> \o tdb_list
    ELSE UNCHANGED <<db, tdb_list>>

create_thread_cb(t) ==
    /\ pc[t] = "idle" /\ db[t] = None
    /\ acquire_tdb(t, TRUE)
    /\ UNCHANGED <<info, created, stopped, retired, pc, arg, at, taken, flushes, hist>>

(* A thread ends: its database stays in the list, retired.                  *)
release_thread_cb(t) ==
    /\ pc[t] = "idle" /\ t # Main
    /\ pc' = [pc EXCEPT ![t] = "gone"]
    /\ retired' = [retired EXCEPT ![t] = db[t] # None]
    /\ UNCHANGED <<info, created, db, stopped, tdb_list, arg, at, taken, flushes, hist>>

Names(rec) == UNION {IF IsRef(e) THEN {e[2][i][1] : i \in DOMAIN e[2]} ELSE {e[2]}
                       : e \in Range(rec)}

(* process_snapshot_cb(), up to its check of the stopped flag: a stopped    *)
(* database drops the snapshot, and so does a signal handler without one.   *)
process_snapshot_cb(t, rec, is_signal) ==
    /\ pc[t] = "idle" /\ taken < MaxSnapshots
    /\ Names(rec) \subseteq {a.name : a \in created}
    /\ taken' = taken + 1
    /\ acquire_tdb(t, ~is_signal)
    /\ IF db'[t] # None /\ ~stopped[t]
       THEN /\ pc' = [pc EXCEPT ![t] = "process"]
            /\ arg' = [arg EXCEPT ![t] = [rec |-> rec, is_signal |-> is_signal]]
       ELSE UNCHANGED <<pc, arg>>
    /\ UNCHANGED <<info, created, stopped, retired, at, flushes, hist>>

(* The call of AggregationDB::process_snapshot().  No other thread can see  *)
(* its intermediate states but a flush that races with it, see flush_read.  *)
Process(t) ==
    LET rec == arg[t].rec
        can_alloc == ~arg[t].is_signal
        e == find_or_create_entry(db[t], rec, can_alloc).entry
    IN  /\ pc[t] = "process"
        /\ db' = [db EXCEPT ![t] = process_snapshot(@, rec, can_alloc)]
        /\ done' = [done EXCEPT ![t] = IF rec = <<>> THEN @ ELSE
              Append(@, [rec |-> rec, skipped |-> e = 0, attrs |-> info.aggr_attrs])]
        /\ pc' = [pc EXCEPT ![t] = "idle"]
        /\ arg' = [arg EXCEPT ![t] = None]
        /\ UNCHANGED <<info, created, stopped, retired, tdb_list, at, taken, flushes,
                       before, got>>

(* flush_cb() walks the list from the head it had when it began.            *)
flush_begin(t) ==
    /\ pc[t] = "idle" /\ flushes < MaxFlushes
    /\ flushes' = flushes + 1
    /\ at' = [at EXCEPT ![t] = Head(tdb_list)]
    /\ pc' = [pc EXCEPT ![t] = "stop"]
    /\ before' = [before EXCEPT ![t] = [u \in Threads |-> Len(done[u])]]
    /\ got' = [got EXCEPT ![t] = [u \in Threads |-> None]]
    /\ UNCHANGED <<info, created, db, stopped, retired, tdb_list, arg, taken, done>>

flush_stop(t) ==
    /\ pc[t] = "stop"
    /\ stopped' = [stopped EXCEPT ![at[t]] = TRUE]
    /\ pc' = [pc EXCEPT ![t] = "read"]
    /\ UNCHANGED <<info, created, db, retired, tdb_list, arg, at, taken, flushes, hist>>

Counted(rows) == FoldSeq(LAMBDA r, n : r.count + n, 0, rows)

(* A read of a database that its owner is changing is undefined: Raced.     *)
flush_read(t) ==
    /\ pc[t] = "read"
    /\ got' = [got EXCEPT ![t][at[t]] =
          IF pc[at[t]] = "process" THEN Raced ELSE Counted(flush(db[at[t]]))]
    /\ pc' = [pc EXCEPT ![t] = "resume"]
    /\ UNCHANGED <<info, created, db, stopped, retired, tdb_list, arg, at, taken,
                   flushes, done, before>>

(* Mutation: the walk skips the database behind a retired one.              *)
resume_skip(t) ==
    LET i == CHOOSE i \in DOMAIN tdb_list : tdb_list[i] = at[t]
        last == i = Len(tdb_list) \/ retired[at[t]]
    IN  /\ pc[t] = "resume"
        /\ stopped' = [stopped EXCEPT ![at[t]] = FALSE]
        /\ at' = [at EXCEPT ![t] = IF last THEN None ELSE tdb_list[i + 1]]
        /\ pc' = [pc EXCEPT ![t] = IF last THEN "idle" ELSE "stop"]
        /\ before' = IF last THEN [before EXCEPT ![t] = None] ELSE before
        /\ got' = IF last THEN [got EXCEPT ![t] = None] ELSE got
        /\ UNCHANGED <<info, created, db, retired, tdb_list, arg, taken, flushes, done>>

flush_resume(t) ==
    LET i == CHOOSE i \in DOMAIN tdb_list : tdb_list[i] = at[t]
        last == i = Len(tdb_list)
    IN  /\ pc[t] = "resume"
        /\ stopped' = [stopped EXCEPT ![at[t]] = FALSE]
        /\ at' = [at EXCEPT ![t] = IF last THEN None ELSE tdb_list[i + 1]]
        /\ pc' = [pc EXCEPT ![t] = IF last THEN "idle" ELSE "stop"]
        /\ before' = IF last THEN [before EXCEPT ![t] = None] ELSE before
        /\ got' = IF last THEN [got EXCEPT ![t] = None] ELSE got
        /\ UNCHANGED <<info, created, db, retired, tdb_list, arg, taken, flushes, done>>

(* clear_cb() empties every database and deletes the retired ones.  It      *)
(* takes databases away from whoever uses them, so it is called while no    *)
(* other thread is in the service.                                          *)
clear_cb(t) ==
    /\ pc[t] = "idle" /\ Quiet(t) /\ flushes < MaxFlushes
    /\ flushes' = flushes + 1
    /\ db' = [u \in Threads |-> IF db[u] = None \/ retired[u] THEN None ELSE clear(db[u])]
    /\ stopped' = [u \in Threads |-> FALSE]
    /\ tdb_list' = SelectSeq(tdb_list, LAMBDA u : ~retired[u])
    /\ retired' = [u \in Threads |-> FALSE]
    /\ done' = [u \in Threads |-> <<>>]
    /\ UNCHANGED <<info, created, pc, arg, at, taken, before, got>>

Next ==
    \E t \in Threads :
        \/ \E a \in Attributes : create_attribute_cb(t, a)
        \/ create_thread_cb(t)
        \/ release_thread_cb(t)
        \/ \E rec \in Snapshots, is_signal \in BOOLEAN : process_snapshot_cb(t, rec, is_signal)
        \/ Process(t)
        \/ flush_begin(t)
        \/ flush_stop(t)
        \/ flush_read(t)
        \/ flush_resume(t)
        \/ clear_cb(t)

Spec == Init /\ [][Next]_vars

-----------------------------------------------------------------------------
(* What a flush should report                                               *)

(* The values of a key attribute in a record, outermost first.              *)
Values(rec, a) ==
    LET has == SelectSeq(rec, LAMBDA e : a \in Names(<<e>>))
    IN  IF has = <<>> THEN <<>>
        ELSE IF IsRef(has[1]) THEN SelectSeq(has[1][2], LAMBDA l : l[1] = a)
        ELSE <<has[1][3]>>

NestedPath(rec) ==
    LET nested == SelectSeq(rec, LAMBDA e : IsRef(e) /\ Leaf(e) \in Nested)
    IN  IF nested = <<>> THEN <<>> ELSE nested[1][2]

(* What the configuration groups snapshots by.                              *)
Group(rec) ==
    [refs |-> IF info.implicit_grouping THEN SelectSeq(rec, IsRef) ELSE <<>>,
     path |-> IF info.group_nested /\ ~info.implicit_grouping THEN NestedPath(rec) ELSE <<>>,
     keys |-> [a \in (IF info.implicit_grouping THEN {} ELSE Range(info.ref_key_attrs))
                     \cup Range(info.imm_key_attrs) |-> Values(rec, a)]]

Stats(vals) ==
    [min |-> Min(Range(vals)), max |-> Max(Range(vals)),
     sum |-> FoldSeq(LAMBDA v, n : v + n, 0, vals), n |-> Len(vals)]

(* The row for the snapshots ds of a group: the attributes reported are     *)
(* those that were known when the first of them was processed.              *)
GroupRow(ds) ==
    LET known == ds[1].attrs
        vals(a) == FlattenSeq([i \in DOMAIN ds |->
                     Values(SelectSeq(ds[i].rec, LAMBDA e : ~IsRef(e)), known[a])])
    IN  [group |-> Group(ds[1].rec), count |-> Len(ds),
         stats |-> [a \in {a \in DOMAIN known : vals(a) # <<>>} |-> Stats(vals(a))]]

Expected(u) ==
    LET kept == SelectSeq(done[u], LAMBDA d : ~d.skipped)
    IN  {GroupRow(SelectSeq(kept, LAMBDA d : Group(d.rec) = g))
           : g \in {Group(d.rec) : d \in Range(kept)}}

SkippedCount(u) == Len(SelectSeq(done[u], LAMBDA d : d.skipped))

Grouped(u) ==
    [i \in 1 .. Len(db[u].m_entries) - 1 |->
        LET r == Row(db[u], Ent(db[u], i))
        IN  [group |-> Group(r.key), count |-> r.count, stats |-> r.stats]]

-----------------------------------------------------------------------------
Linked == Range(tdb_list)

(* Types of the service's state; no attribute is registered twice.          *)
TypeOK ==
    /\ \A f \in {"aggr_attrs", "ref_key_attrs", "imm_key_attrs"} : IsInjective(info[f])
    /\ created \subseteq Attributes
    /\ stopped \in [Threads -> BOOLEAN] /\ retired \in [Threads -> BOOLEAN]
    /\ Linked \subseteq Threads
    /\ pc \in [Threads -> {"idle", "process", "stop", "read", "resume", "gone"}]
    /\ at \in [Threads -> Threads \cup {None}]
    /\ taken \in 0 .. MaxSnapshots /\ flushes \in 0 .. MaxFlushes

(* Whatever key, hash collisions, late attributes and clears a database has *)
(* seen, flush() reports each group of its snapshots exactly once, with the *)
(* group's count, minimum, maximum and sum, and entry 0 counts the          *)
(* snapshots skipped in signal handlers.                                    *)
AggregateExact ==
    \A u \in Linked :
        /\ Range(Grouped(u)) = Expected(u)
        /\ IsInjective(Grouped(u))
        /\ Ent(db[u], 0).count = SkippedCount(u)

(* The rows flush() reports for skipped snapshots carry the SKIPPED label   *)
(* the constructor gave to entry 0, also after clear().                     *)
SkippedLabelled ==
    \A u \in Linked : SkippedCount(u) > 0 => KeyOf(db[u], Ent(db[u], 0)) = <<Skipped>>

(* A flush reports every snapshot that any thread had processed when the    *)
(* flush began, those of ended threads included, unless the owner of a      *)
(* database was changing it while flush() read it.                          *)
FlushComplete ==
    [][\A t, u \in Threads :
          pc[t] = "resume" /\ pc'[t] = "idle" /\ before[t][u] > 0 =>
              /\ got[t][u] # None
              /\ got[t][u] # Raced => got[t][u] >= before[t][u]]_vars

(* Every database is linked once, until clear_cb() deletes it; a flush is   *)
(* never at a deleted one; and a database drops snapshots only while a      *)
(* flush is at it: flush_cb() never leaves the stopped flag set.            *)
ListExact ==
    /\ IsInjective(tdb_list)
    /\ Linked = {u \in Threads : db[u] # None}
    /\ \A t \in Threads : at[t] # None => at[t] \in Linked
    /\ \A u \in Threads : stopped[u] =>
          \E t \in Threads : at[t] = u /\ pc[t] \in {"read", "resume"}
=============================================================================
