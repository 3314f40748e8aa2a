------------------------------- MODULE Query -------------------------------
(***************************************************************************)
(* The offline query engine: the threads of cali-query                      *)
(* (src/src/tools/cali-query/cali-query.cpp), the ranks of mpi-caliquery    *)
(* (src/src/tools/mpi-caliquery/mpi-caliquery.cpp with                      *)
(* src/src/caliper/aggregate_over_mpi.cpp), or a report of the runtime      *)
(* (src/src/reader/QueryProcessor.cpp) read snapshot records into a         *)
(* metadata database, run the stages of a query on them, aggregate them     *)
(* (Aggregator.cpp) and hand the result to a formatter.                     *)
(*                                                                          *)
(* The threads of cali-query share one database and one aggregator.  What a *)
(* mutex protects is one step; merge_node, get_aggregation_entry and        *)
(* recursive_write_node take theirs several times.                          *)
(***************************************************************************)
EXTENDS QueryKernels, Formatters

CONSTANTS
    Threads,   \* 1..n: the threads, or the ranks, or the reporting thread
    Cases      \* what to run: [mode, query, input], with a mode of
               \* {"query", "mpi", "report"} and an input sequence of streams

VARIABLES
    mode, query, input, \* chosen at the start
    db,        \* the metadata database of each rank
    aggr,      \* the aggregator of each rank
    index,     \* the next file of cali-query
    th,        \* what each thread does
    out,       \* the records the CaliWriter has written
    written,   \* CaliWriter::m_written_nodes
    rows,      \* the records handed to the formatter
    fmt,       \* what a formatter keeps, and what it has printed
    buf        \* the message of pack_and_send

vars == <<mode, query, input, db, aggr, index, th, out, written, rows, fmt, buf>>

Rank(t) == IF mode = "mpi" THEN t ELSE 1

(* Only cali-query reads with more than one thread, at most one per file.   *)
Active == IF mode = "report" THEN {1} ELSE Threads \cap 1..Len(input)

do_aggregate == query.aggr # <<>>

Fresh == [pc |-> "idle", file |-> 0, stream |-> <<>>, raw |-> FALSE, idmap |-> <<>>, rec |-> <<>>,
          jobs |-> <<>>, own |-> 0, ent |-> 0, tmp |-> make_kernel, wq |-> <<>>, ret |-> "read"]

(* Aggregator::configure                                                    *)
NewAggregator(q) ==
    [key_strings |-> q.groupby.list, key_attrs |-> <<>>, entries |-> <<>>,
     total |-> [k \in DOMAIN q.aggr |-> 0]]

(* create_formatter: the names of FormatProcessor's table.                  *)
create_formatter(q) ==
    [cols |-> IF q.format.name = "table" THEN table_configure(q.format) ELSE <<>>,
     trows |-> <<>>, tree |-> <<>>, recs |-> <<>>, lines |-> <<>>, nodes |-> <<>>]

Init ==
    /\ \E c \in Cases : mode = c.mode /\ query = c.query /\ input = c.input
    /\ db = [r \in Threads |-> setup_bootstrap_nodes]
    /\ aggr = [r \in Threads |-> NewAggregator(query)]
    /\ index = 0
    /\ th = [t \in Threads |-> Fresh]
    /\ out = <<>> /\ written = {} /\ rows = <<>> /\ buf = <<>>
    /\ fmt = create_formatter(query)

Goto(t, upd) == th' = [th EXCEPT ![t] = upd]

-----------------------------------------------------------------------------
(* A report takes the records from the runtime and not from a file.         *)
Source(i) ==
    IF mode # "report" THEN input[i].stream
    ELSE [n \in DOMAIN input[i].recs |->
            [kind |-> "import", file |-> i, rec |-> input[i].recs[n]]]
         \o <<[kind |-> "import_globals", file |-> i]>>

(* thread_fn takes the next file, a rank of mpi-caliquery its own.          *)
TakeFile(t) ==
    /\ th[t].pc = "idle"
    /\ LET i == IF mode = "mpi" THEN t ELSE index + 1
       IN IF i \in DOMAIN input
          THEN Goto(t, [Fresh EXCEPT !.pc = "read", !.file = i, !.stream = Source(i)])
          ELSE Goto(t, [th[t] EXCEPT !.pc = "done"])
    /\ index' = IF mode = "mpi" THEN index ELSE index + 1
    /\ UNCHANGED <<mode, query, input, db, aggr, out, written, rows, fmt, buf>>

EndOfStream(t) ==
    /\ th[t].pc = "read" /\ th[t].stream = <<>>
    /\ Goto(t, [th[t] EXCEPT !.pc = IF mode = "mpi" THEN "done" ELSE "idle"])
    /\ UNCHANGED <<mode, query, input, db, aggr, index, out, written, rows, fmt, buf>>

At(t, kind) == th[t].pc = "read" /\ th[t].stream # <<>> /\ Head(th[t].stream).kind = kind

(* A node record: the node is found or created under m_node_lock.  The      *)
(* filter for duplicate nodes is copied along with the callback for every   *)
(* record, so that it never filters.                                        *)
read_node(t) ==
    /\ At(t, "node")
    /\ LET info == Head(th[t].stream)
           d == db[Rank(t)]
           attr == map_id(info.attr, th[t].idmap)
           r == IF th[t].raw
                THEN find_or_create(d, map_id(info.parent, th[t].idmap), attr, info.data)
                ELSE merge_node(d, info, th[t].idmap)
       IN /\ db' = [db EXCEPT ![Rank(t)] = r.db]
          /\ Goto(t, [th[t] EXCEPT !.stream = Tail(@),
                         !.idmap = map_insert(@, info.id, r.id),
                         !.ent = r.id,
                         !.pc = IF r.new /\ attr = NAME_ATTR THEN "name" ELSE "read"])
    /\ UNCHANGED <<mode, query, input, aggr, index, out, written, rows, fmt, buf>>

(* A new attribute node enters the name lookup, under m_attribute_lock.     *)
read_node_name(t) ==
    /\ th[t].pc = "name"
    /\ db' = [db EXCEPT ![Rank(t)] = insert_attribute(@, th[t].ent)]
    /\ Goto(t, [th[t] EXCEPT !.pc = "read"])
    /\ UNCHANGED <<mode, query, input, aggr, index, out, written, rows, fmt, buf>>

read_globals(t) ==
    /\ At(t, "globals")
    /\ LET g == Head(th[t].stream)
           r == Rank(t)
           step[i \in 0..Len(g.refs)] ==
               IF i = 0 THEN db[r] ELSE merge_global(step[i-1], g.refs[i], th[t].idmap)
           imm[i \in 0..Len(g.imms)] ==
               IF i = 0 THEN step[Len(g.refs)]
               ELSE set_global(imm[i-1], map_id(g.imms[i][1], th[t].idmap), g.imms[i][2])
       IN db' = [db EXCEPT ![r] = imm[Len(g.imms)]]
    /\ Goto(t, [th[t] EXCEPT !.stream = Tail(@)])
    /\ UNCHANGED <<mode, query, input, aggr, index, out, written, rows, fmt, buf>>

(* The stages of a query: QueryProcessor and cali-query run the LET         *)
(* operators before the filter, mpi-caliquery after it.                     *)
Staged(old, new) ==
    IF mode # "mpi" THEN [db |-> new.db, rec |-> new.rec, ok |-> pass(new.db, new.rec, query.where)]
    ELSE IF pass(old.db, old.rec, query.where) THEN [db |-> new.db, rec |-> new.rec, ok |-> TRUE]
    ELSE [db |-> old.db, rec |-> old.rec, ok |-> FALSE]

Stages(d, rec) == Staged([db |-> d, rec |-> rec], preprocess(d, rec, query.let))

(* A snapshot record of a stream, or of the runtime, goes through the       *)
(* stages.  The records of a message go to the aggregator as they are.      *)
Enter(t, d, rec) ==
    \E r \in {IF th[t].raw THEN [db |-> d, rec |-> rec, ok |-> TRUE] ELSE Stages(d, rec)} :
       /\ db' = [db EXCEPT ![Rank(t)] = r.db]
       /\ Goto(t, [th[t] EXCEPT !.stream = Tail(@), !.rec = r.rec, !.wq = <<>>,
                      !.pc = IF ~r.ok THEN "read"
                             ELSE IF do_aggregate THEN "keys" ELSE "format"])

read_snapshot(t) ==
    /\ At(t, "ctx")
    /\ LET c == Head(th[t].stream)
           d == db[Rank(t)]
       IN Enter(t, d, merge_snapshot(d, c.refs, c.imms, th[t].idmap))
    /\ UNCHANGED <<mode, query, input, aggr, index, out, written, rows, fmt, buf>>

(* A record of the runtime: its entries are merged one after the other.     *)
process_record(t) ==
    /\ At(t, "import")
    /\ LET entry == Head(th[t].stream).rec
           sofar == IF th[t].wq = <<>> THEN <<>> ELSE th[t].rec
       IN IF th[t].wq # entry
          THEN LET e == entry[Len(th[t].wq) + 1]
               IN \E r \in {recursive_merge_node(db[1], input[th[t].file].src, e.node)} :
                    /\ db' = [db EXCEPT ![1] = r.db]
                    /\ Goto(t, [th[t] EXCEPT !.wq = Append(@, e),
                                   !.rec = Append(sofar, [e EXCEPT !.node = r.id])])
          ELSE Enter(t, db[1], sofar)
    /\ UNCHANGED <<mode, query, input, aggr, index, out, written, rows, fmt, buf>>

flush_globals(t) ==
    /\ At(t, "import_globals")
    /\ db' = [db EXCEPT ![1] = import_globals(@, input[Head(th[t].stream).file].src)]
    /\ Goto(t, [th[t] EXCEPT !.stream = Tail(@)])
    /\ UNCHANGED <<mode, query, input, aggr, index, out, written, rows, fmt, buf>>

-----------------------------------------------------------------------------
(* Aggregator: the key of a record.                                         *)

(* update_key_attributes, under m_key_lock: names that have become known    *)
(* move to the list of key attributes.                                      *)
update_key_attributes(d, a) ==
    [a EXCEPT !.key_strings = SelectSeq(@, LAMBDA n : get_attribute(d, n) = Root),
              !.key_attrs = @ \o [i \in DOMAIN SelectSeq(a.key_strings,
                                            LAMBDA n : get_attribute(d, n) # Root) |->
                    get_attribute(d, SelectSeq(a.key_strings,
                                            LAMBDA n : get_attribute(d, n) # Root)[i])]]

is_key(d, key_attrs, a) ==
    \/ query.groupby.use_path /\ is_nested(d, a)
    \/ \E i \in DOMAIN key_attrs :
          \/ key_attrs[i] = a
          \/ \E j \in DOMAIN PathIds(d)[a] : d.nodes[PathIds(d)[a][j]].attr = key_attrs[i]

(* The nodes of all reference entries, each path from the leaf to the root. *)
Unravel(d, rec) ==
    FoldLeft(LAMBDA acc, e : IF is_reference(e) THEN acc \o PathIds(d)[e.node] ELSE acc,
             <<>>, rec)

(* The order of a stable sort: by attribute, and by position for the nodes  *)
(* of one attribute.                                                        *)
StableSort(s, key(_)) ==
    LET before(i, j) == key(s[i]) < key(s[j]) \/ (key(s[i]) = key(s[j]) /\ i <= j)
        rank(i) == Cardinality({j \in DOMAIN s : before(j, i)})
    IN [r \in DOMAIN s |-> s[CHOOSE i \in DOMAIN s : rank(i) = r]]

(* Nested nodes first, the others grouped by attribute; immediate entries   *)
(* by attribute.                                                            *)
KeyParts(d, rec, key_attrs) ==
    LET nodes == SelectSeq(Unravel(d, rec),
                    LAMBDA n : query.groupby.all \/ is_key(d, key_attrs, d.nodes[n].attr))
        nested == SelectSeq(nodes, LAMBDA n : is_nested(d, d.nodes[n].attr))
        others == SelectSeq(nodes, LAMBDA n : ~is_nested(d, d.nodes[n].attr))
        imms == SelectSeq(rec, LAMBDA e : is_immediate(e) /\ is_key(d, key_attrs, e.node))
    IN [nested |-> nested, others |-> StableSort(others, LAMBDA n : d.nodes[n].attr),
        imms |-> StableSort(imms, LAMBDA e : e.node)]

(* make_key starts from the node list in reverse.                           *)
KeyPath(d, nodes) ==
    [i \in DOMAIN nodes |->
        LET n == d.nodes[nodes[Len(nodes) + 1 - i]] IN <<n.attr, n.data>>]

(* The work of process() for a record: for every kernel the entry of the    *)
(* record, and for inclusive kernels the entries of all nested parents.     *)
Jobs(d, parts) ==
    LET from(i) == KeyPath(d, SubSeq(parts.nested, i, Len(parts.nested)) \o parts.others)
        job(i, k) == [path |-> from(i), imms |-> parts.imms, k |-> k, parent |-> i > 1]
        last(k) == IF is_inclusive(query.aggr[k]) /\ parts.nested # <<>>
                   THEN Len(parts.nested) ELSE 1
    IN FoldLeft(LAMBDA acc, k : acc \o [i \in 1..last(k) |-> job(i, k)],
                <<>>, [k \in DOMAIN query.aggr |-> k])

process(t) ==
    /\ th[t].pc = "keys"
    /\ LET r == Rank(t)
           a == update_key_attributes(db[r], aggr[r])
           parts == KeyParts(db[r], th[t].rec, a.key_attrs)
       IN /\ aggr' = [aggr EXCEPT ![r] = a]
          /\ Goto(t, [th[t] EXCEPT !.jobs = Jobs(db[r], parts), !.own = 0, !.pc = "lookup"])
    /\ UNCHANGED <<mode, query, input, db, index, out, written, rows, fmt, buf>>

make_key(d, job) ==
    LET r == make_tree_entry(d, job.path, Root)
    IN [db |-> r.db, key |-> (IF r.id = Root THEN <<>> ELSE <<Ref(r.id)>>) \o job.imms]

Lookup(a, key) == {i \in DOMAIN a.entries : a.entries[i].key = key}

(* The first part of get_aggregation_entry looks for the key under          *)
(* m_entries_lock.  The hash chain has the newest entry first.              *)
find_aggregation_entry(t) ==
    /\ th[t].pc = "lookup"
    /\ LET r == Rank(t)
           job == Head(th[t].jobs)
           known == ~job.parent /\ th[t].own # 0
       IN \E k \in {make_key(db[r], job)} :
          \E e \in {IF known THEN th[t].own ELSE Max(Lookup(aggr[r], k.key) \cup {0})} :
          /\ db' = IF known THEN db ELSE [db EXCEPT ![r] = k.db]
          /\ Goto(t, [th[t] EXCEPT !.ent = e, !.own = IF job.parent THEN @ ELSE e,
                         !.pc = IF e = 0 THEN "create" ELSE "apply"])
    /\ UNCHANGED <<mode, query, input, aggr, index, out, written, rows, fmt, buf>>

(* Its second part appends an entry, under m_entries_lock again.            *)
create_aggregation_entry(t) ==
    /\ th[t].pc = "create"
    /\ LET r == Rank(t)
           job == Head(th[t].jobs)
           e == Len(aggr[r].entries) + 1
       IN /\ aggr' = [aggr EXCEPT ![r].entries =
                         Append(@, [key |-> make_key(db[r], job).key,
                                    kern |-> [k \in DOMAIN query.aggr |-> make_kernel]])]
          /\ Goto(t, [th[t] EXCEPT !.ent = e, !.own = IF job.parent THEN @ ELSE e,
                         !.pc = "apply"])
    /\ UNCHANGED <<mode, query, input, db, index, out, written, rows, fmt, buf>>

(* The kernel's result attributes are created when it first aggregates.     *)
CreateResults(d, k) ==
    IF NeedsTarget(k) /\ get_attribute(d, k.tgt) = Root THEN d
    ELSE LET names == SetToSeq(ResultAttrs(k))
         IN FoldLeft(LAMBDA acc, n : create_attribute(acc, n, "asvalue"), d, names)

Finish(t) == [th[t] EXCEPT !.jobs = Tail(@), !.pc = IF Len(th[t].jobs) = 1 THEN "read" ELSE "lookup"]

(* aggregate and parent_aggregate of one kernel, under the kernel's lock.   *)
aggregate_kernel(t) ==
    /\ th[t].pc = "apply"
    /\ LET r == Rank(t)
           job == Head(th[t].jobs)
           k == query.aggr[job.k]
           old == aggr[r].entries[th[t].ent].kern[job.k]
       IN \E d \in {CreateResults(db[r], k)} :
          \E new \in {IF job.parent THEN parent_aggregate(k, old, th[t].rec, d.attrs)
                     ELSE aggregate(k, old, th[t].rec, d.attrs)},
             add \in {IF job.parent THEN 0 ELSE TotalAdded(k, th[t].rec, d.attrs)} :
          /\ db' = [db EXCEPT ![r] = d]
          /\ IF kernel_list(k.op) = "PercentTotal"
             THEN /\ Goto(t, [th[t] EXCEPT !.tmp = new, !.pc = "store"])
                  /\ aggr' = [aggr EXCEPT ![r].total[job.k] = @ + add]
             ELSE /\ Goto(t, Finish(t))
                  /\ aggr' = [aggr EXCEPT ![r].entries[th[t].ent].kern[job.k] = new]
    /\ UNCHANGED <<mode, query, input, index, out, written, rows, fmt, buf>>

(* PercentTotalKernel does not take its lock: the sums are read, and        *)
(* written later.                                                           *)
aggregate_store(t) ==
    /\ th[t].pc = "store"
    /\ aggr' = [aggr EXCEPT ![Rank(t)].entries[th[t].ent].kern[Head(th[t].jobs).k] = th[t].tmp]
    /\ Goto(t, Finish(t))
    /\ UNCHANGED <<mode, query, input, db, index, out, written, rows, fmt, buf>>

-----------------------------------------------------------------------------
(* FormatProcessor::process_record.  The CaliWriter writes the record's     *)
(* nodes first; a table updates its columns first; a tree and the split     *)
(* JSON keep the record until they are flushed; the others print it.        *)
tree_path(d, spec) ==
    IF spec.args = <<>> THEN {a \in NodeIds(d) : is_nested(d, a)}
    ELSE {get_attribute(d, spec.args[i]) : i \in DOMAIN spec.args}

PrintLine(d, rec, spec) ==
    CASE spec.name = "json" -> json_print(d, rec, spec)
      [] spec.name = "expand" -> expand_print(d, rec, spec)
      [] spec.name = "format" -> user_print(d, rec, spec)

format_record(t) ==
    /\ th[t].pc = "format"
    /\ rows' = Append(rows, th[t].rec)
    /\ LET d == db[1]
           rec == th[t].rec
           f == query.format
       IN CASE f.name = "cali" ->
                 /\ Goto(t, [th[t] EXCEPT !.wq = [i \in DOMAIN rec |-> <<"enter", rec[i].node>>],
                                !.pc = "write"])
                 /\ UNCHANGED fmt
            [] f.name = "table" ->
                 \E cols \in {update_columns(d, fmt.cols, rec, f)} :
                   /\ Goto(t, [th[t] EXCEPT !.wq = table_row(d, cols, rec), !.pc = "row"])
                   /\ fmt' = [fmt EXCEPT !.cols = cols]
            [] f.name = "tree" ->
                 /\ Goto(t, [th[t] EXCEPT !.pc = th[t].ret])
                 /\ fmt' = [fmt EXCEPT !.tree = add_snapshot(@, d, rec, tree_path(d, f))]
            [] f.name = "json-split" ->
                 /\ Goto(t, [th[t] EXCEPT !.pc = th[t].ret])
                 /\ fmt' = [fmt EXCEPT !.recs = Append(@, rec)]
            [] OTHER ->
                 /\ Goto(t, [th[t] EXCEPT !.pc = th[t].ret])
                 /\ fmt' = [fmt EXCEPT !.lines =
                        @ \o SelectSeq(<<PrintLine(d, rec, f)>>, LAMBDA l : l # <<>>)]
    /\ UNCHANGED <<mode, query, input, db, aggr, index, out, written, buf>>

(* The row of a table is added under another lock than the columns.         *)
add_row(t) ==
    /\ th[t].pc = "row"
    /\ fmt' = [fmt EXCEPT !.trows = IF is_active(th[t].wq) THEN Append(@, th[t].wq) ELSE @]
    /\ Goto(t, [th[t] EXCEPT !.wq = <<>>, !.pc = th[t].ret])
    /\ UNCHANGED <<mode, query, input, db, aggr, index, out, written, rows, buf>>

Work(t, what) == th[t].pc = "write" /\ th[t].wq # <<>> /\ Head(th[t].wq)[1] = what

Pop(t, more) == Goto(t, [th[t] EXCEPT !.wq = more \o Tail(@)])

(* Mutation: the node is marked before it is written.                       *)
recursive_write_node_early(t) ==
    /\ Work(t, "enter")
    /\ LET id == Head(th[t].wq)[2]
           n == db[Rank(t)].nodes[id]
       IN IF id <= PROP_ATTR \/ id \in written THEN Pop(t, <<>>) /\ UNCHANGED written
          ELSE /\ Pop(t, <<<<"enter", n.attr>>>>
                        \o (IF n.parent = Root THEN <<>> ELSE <<<<"enter", n.parent>>>>)
                        \o <<<<"emit", id>>>>)
               /\ written' = written \cup {id}
    /\ UNCHANGED <<mode, query, input, db, aggr, index, out, rows, fmt, buf>>

(* recursive_write_node: nothing to do for a node that is written; else the *)
(* attribute, the parent, the node and the mark follow, each under a lock   *)
(* of its own.                                                              *)
recursive_write_node(t) ==
    /\ Work(t, "enter")
    /\ LET id == Head(th[t].wq)[2]
           n == db[Rank(t)].nodes[id]
       IN Pop(t, IF id <= PROP_ATTR \/ id \in written THEN <<>>
                 ELSE <<<<"enter", n.attr>>>>
                      \o (IF n.parent = Root THEN <<>> ELSE <<<<"enter", n.parent>>>>)
                      \o <<<<"emit", id>>, <<"mark", id>>>>)
    /\ UNCHANGED <<mode, query, input, db, aggr, index, out, written, rows, fmt, buf>>

NodeRecord(d, id) ==
    [kind |-> "node", id |-> id, attr |-> d.nodes[id].attr, parent |-> d.nodes[id].parent,
     data |-> d.nodes[id].data]

write_node_content(t) ==
    /\ Work(t, "emit")
    /\ out' = Append(out, NodeRecord(db[Rank(t)], Head(th[t].wq)[2]))
    /\ Pop(t, <<>>)
    /\ UNCHANGED <<mode, query, input, db, aggr, index, written, rows, fmt, buf>>

mark_written(t) ==
    /\ Work(t, "mark")
    /\ written' = written \cup {Head(th[t].wq)[2]}
    /\ Pop(t, <<>>)
    /\ UNCHANGED <<mode, query, input, db, aggr, index, out, rows, fmt, buf>>

SnapshotRecord(kind, rec) ==
    LET refs == SelectSeq(rec, is_reference)
        imms == SelectSeq(rec, is_immediate)
    IN [kind |-> kind, refs |-> [i \in DOMAIN refs |-> refs[i].node],
        imms |-> [i \in DOMAIN imms |-> <<imms[i].node, imms[i].val>>]]

write_record_content(t) ==
    /\ th[t].pc = "write" /\ th[t].wq = <<>>
    /\ out' = Append(out, SnapshotRecord(IF th[t].ret = "end" THEN "globals" ELSE "ctx",
                                         th[t].rec))
    /\ Goto(t, [th[t] EXCEPT !.pc = th[t].ret])
    /\ UNCHANGED <<mode, query, input, db, aggr, index, written, rows, fmt, buf>>

-----------------------------------------------------------------------------
(* Aggregator::flush: the output records, and the database in which their   *)
(* attributes have been created.                                            *)
FlushRow(d, a, e) ==
    LET res == FoldLeft(LAMBDA acc, k : acc \o append_result(query.aggr[k], e.kern[k], a.total[k]),
                        <<>>, [k \in DOMAIN query.aggr |-> k])
    IN e.key \o [i \in DOMAIN res |-> [node |-> d.attrs[res[i].name], val |-> res[i].val]]

FlushDB(d) ==
    FoldLeft(LAMBDA acc, k : CreateResults(acc, k), d, query.aggr)

FlushRows(d, a) == [i \in DOMAIN a.entries |-> FlushRow(FlushDB(d), a, a.entries[i])]

(* recursive_append_path: the nodes a message needs, attributes and parents *)
(* first.                                                                   *)
RECURSIVE recursive_append_path(_, _, _)
recursive_append_path(d, id, sofar) ==
    IF id = Root \/ \E i \in DOMAIN sofar : sofar[i] = id THEN sofar
    ELSE LET n == d.nodes[id]
             a == IF n.attr < id THEN recursive_append_path(d, n.attr, sofar) ELSE sofar
             p == recursive_append_path(d, n.parent, a)
         IN IF \E i \in DOMAIN p : p[i] = id THEN p ELSE Append(p, id)

Message(d, recs) ==
    LET ids == FoldLeft(LAMBDA acc, rec :
                   FoldLeft(LAMBDA a, e : recursive_append_path(d, e.node, a), acc, rec),
                   <<>>, recs)
    IN [i \in DOMAIN ids |-> NodeRecord(d, ids[i])]
       \o [i \in DOMAIN recs |-> SnapshotRecord("ctx", recs[i])]

(* The second rank sends its aggregation result up, the first receives it.  *)
pack_and_send(t) ==
    /\ mode = "mpi" /\ t # 1 /\ th[t].pc = "done"
    /\ buf' = Message(FlushDB(db[t]), FlushRows(db[t], aggr[t]))
    /\ db' = [db EXCEPT ![t] = FlushDB(@)]
    /\ Goto(t, [th[t] EXCEPT !.pc = "end"])
    /\ UNCHANGED <<mode, query, input, aggr, index, out, written, rows, fmt>>

receive_and_merge ==
    /\ mode = "mpi" /\ th[1].pc = "done" /\ ~th[1].raw
    /\ Active # {1} /\ \A t \in Active \ {1} : th[t].pc = "end"
    /\ Goto(1, [Fresh EXCEPT !.pc = "read", !.raw = TRUE, !.stream = buf])
    /\ buf' = <<>>
    /\ UNCHANGED <<mode, query, input, db, aggr, index, out, written, rows, fmt>>

(* After the threads have joined, the aggregation result goes to the        *)
(* formatter record by record, and the formatter is flushed.                *)
flush ==
    /\ th[1].pc = "done" /\ (mode = "mpi" /\ Active # {1} => th[1].raw)
    /\ \A t \in Active \ {1} : th[t].pc \in {"done", "end"}
    /\ db' = [db EXCEPT ![1] = FlushDB(@)]
    /\ Goto(1, [Fresh EXCEPT !.pc = "flush", !.ret = "flush",
                   !.stream = IF do_aggregate THEN FlushRows(db[1], aggr[1]) ELSE <<>>])
    /\ UNCHANGED <<mode, query, input, aggr, index, out, written, rows, fmt, buf>>

flush_record ==
    /\ th[1].pc = "flush" /\ th[1].stream # <<>>
    /\ Goto(1, [th[1] EXCEPT !.pc = "format", !.rec = Head(th[1].stream),
                   !.stream = Tail(@)])
    /\ UNCHANGED <<mode, query, input, db, aggr, index, out, written, rows, fmt, buf>>

(* What the formatters print at the end; the CaliFormatter the globals.     *)
PrintSplit(cols, split) ==
    [fmt EXCEPT !.cols = cols, !.lines = split.data, !.nodes = split.nodes]

PrintColumns(cols) == PrintSplit(cols, json_split_flush(db[1], fmt.recs, cols))

PrintAll ==
    LET f == query.format
        results == [k \in DOMAIN query.aggr |-> get_aggregation_attribute_name(query.aggr[k])]
    IN CASE f.name = "table" -> [fmt EXCEPT !.lines = table_flush(fmt.cols, fmt.trows)]
         [] f.name = "tree" -> [fmt EXCEPT !.lines = tree_flush(fmt.tree, db[1], f)]
         [] f.name = "json-split" -> PrintColumns(init_columns(db[1], f, query.groupby, results))
         [] OTHER -> fmt

flush_formatter ==
    /\ th[1].pc = "flush" /\ th[1].stream = <<>>
    /\ Goto(1, IF query.format.name = "cali"
               THEN [th[1] EXCEPT !.pc = "write", !.ret = "end", !.rec = db[1].globals,
                        !.wq = [i \in DOMAIN db[1].globals |->
                                    <<"enter", db[1].globals[i].node>>]]
               ELSE [th[1] EXCEPT !.pc = "end"])
    /\ fmt' = PrintAll
    /\ UNCHANGED <<mode, query, input, db, aggr, index, out, written, rows, buf>>

Step(t) ==
    \/ TakeFile(t) \/ EndOfStream(t) \/ read_node(t) \/ read_node_name(t)
    \/ read_globals(t) \/ read_snapshot(t) \/ process_record(t) \/ flush_globals(t)
    \/ process(t) \/ find_aggregation_entry(t) \/ create_aggregation_entry(t)
    \/ aggregate_kernel(t) \/ aggregate_store(t) \/ format_record(t) \/ add_row(t)
    \/ recursive_write_node(t) \/ write_node_content(t) \/ mark_written(t)
    \/ write_record_content(t) \/ pack_and_send(t)

Main == receive_and_merge \/ flush \/ flush_record \/ flush_formatter

Finished == th[1].pc = "end"

(* The program ends when the formatter has been flushed.                    *)
Next == (\E t \in Active : Step(t)) \/ Main \/ (Finished /\ UNCHANGED vars)

Spec == Init /\ [][Next]_vars /\ WF_vars(Next)

=============================================================================
