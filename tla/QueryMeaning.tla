--------------------------- MODULE QueryMeaning ---------------------------
(***************************************************************************)
(* What a query means (doc/sphinx/calql.rst), for input records given as    *)
(* [paths, imms]: paths of <<attribute name, data>> pairs from the root,    *)
(* and <<attribute name, value>> pairs.  The properties of Query compare    *)
(* its result with this.                                                    *)
(***************************************************************************)
EXTENDS Query, FiniteSetsExt

CONSTANTS
    NestedNames,  \* the names of the attributes with CALI_ATTR_NESTED
    GlobalNames   \* the names of those with CALI_ATTR_GLOBAL

(* The value of an attribute in a record: that of the innermost region.     *)
ValueIn(r, name) ==
    LET inpath(i) == SelectSeq(r.paths[i], LAMBDA e : e[1] = name)
        paths == SelectSeq([i \in DOMAIN r.paths |-> inpath(i)], LAMBDA p : p # <<>>)
        imms == SelectSeq(r.imms, LAMBDA e : e[1] = name)
    IN IF paths # <<>> THEN <<paths[1][Len(paths[1])][2]>>
       ELSE IF imms # <<>> THEN imms[1][2] ELSE <<>>

Number(r, name) == ValueIn(r, name)[1]
Has(r, name) == ValueIn(r, name) # <<>>

AllValues(r, name) ==
    {r.imms[i][2] : i \in {j \in DOMAIN r.imms : r.imms[j][1] = name}}
    \cup UNION {{<<r.paths[i][j][2]>> : j \in {l \in DOMAIN r.paths[i] : r.paths[i][l][1] = name}}
                : i \in DOMAIN r.paths}

Holds(r, c) ==
    LET some(P(_)) == \E v \in AllValues(r, c.attr) : P(v)
    IN CASE c.op = "Exist" -> some(LAMBDA v : TRUE)
         [] c.op = "NotExist" -> ~some(LAMBDA v : TRUE)
         [] c.op = "Equal" -> some(LAMBDA v : v = c.val)
         [] c.op = "NotEqual" -> ~some(LAMBDA v : v = c.val)
         [] c.op = "LessThan" -> some(LAMBDA v : v[1] < c.val[1])
         [] c.op = "GreaterThan" -> some(LAMBDA v : v[1] > c.val[1])
         [] c.op = "LessOrEqual" -> some(LAMBDA v : v[1] <= c.val[1])
         [] c.op = "GreaterOrEqual" -> some(LAMBDA v : v[1] >= c.val[1])

HoldAll(r, cs) == \A i \in DOMAIN cs : Holds(r, cs[i])

(* LET a = f(...) IF cond                                                   *)
Leaf(r) ==
    LET nested == SelectSeq(r.paths[1], LAMBDA e : e[1] \in NestedNames)
    IN IF r.paths = <<>> THEN <<>> ELSE IF nested = <<>> THEN <<>> ELSE <<nested[Len(nested)][2]>>

LetValue(r, p) ==
    LET present == {i \in DOMAIN p.args : Has(r, p.args[i])}
        all == present = DOMAIN p.args
    IN CASE p.op = "leaf" -> IF p.args = <<>> THEN Leaf(r) ELSE ValueIn(r, p.args[1])
         [] p.op = "ratio" -> IF all /\ Number(r, p.args[2]) # 0
                              THEN <<p.scale * Number(r, p.args[1]), Number(r, p.args[2])>>
                              ELSE <<>>
         [] p.op = "scale" -> IF all THEN <<p.scale * Number(r, p.args[1]), 1>> ELSE <<>>
         [] p.op = "truncate" ->
                IF all THEN <<(Number(r, p.args[1]) \div p.scale) * p.scale, 1>> ELSE <<>>
         [] p.op = "first" -> IF present = {} THEN <<>>
                              ELSE ValueIn(r, p.args[Min(present)])
         [] p.op = "sum" -> IF present = {} THEN <<>>
                            ELSE <<MapThenSumSet(LAMBDA i : Number(r, p.args[i]), present), 1>>

WithLet(r, ops) ==
    FoldLeft(LAMBDA acc, p : IF HoldAll(acc, p.cond) /\ LetValue(acc, p) # <<>>
                             THEN [acc EXCEPT !.imms = Append(@, <<p.res, LetValue(acc, p)>>)]
                             ELSE acc, r, ops)

(* The records of all the streams that take part in the query.              *)
Filtered(q, recs) ==
    SelectSeq([i \in DOMAIN recs |-> WithLet(recs[i], q.let)], LAMBDA r : HoldAll(r, q.where))

AllRecords == FoldLeft(LAMBDA acc, f : acc \o f.abs, <<>>, input)

Selected == Filtered(query, AllRecords)

-----------------------------------------------------------------------------
(* GROUP BY: the nested regions in their order, the values of every other   *)
(* key attribute in theirs, and the immediate values.                       *)
InKey(name) ==
    \/ query.groupby.use_path /\ name \in NestedNames
    \/ \E i \in DOMAIN query.groupby.list : query.groupby.list[i] = name

Elements(r) == FoldLeft(LAMBDA acc, p : p \o acc, <<>>, r.paths)

KeyOf(r) ==
    LET used == SelectSeq(Elements(r), LAMBDA e : query.groupby.all \/ InKey(e[1]))
    IN [nested |-> SelectSeq(used, LAMBDA e : e[1] \in NestedNames),
        others |-> {SelectSeq(used, LAMBDA e : e[1] = n) :
                        n \in {used[i][1] : i \in DOMAIN used} \ NestedNames},
        imms |-> {r.imms[i] : i \in {j \in DOMAIN r.imms : InKey(r.imms[j][1])}}]

Below(key, group) ==
    /\ key.others = group.others /\ key.imms = group.imms
    /\ IsPrefix(group.nested, key.nested)

Group(recs, g) == {i \in DOMAIN recs : KeyOf(recs[i]) = g}

(* "value for a tree node plus all of its children"                         *)
InclusiveGroup(recs, g) ==
    {i \in DOMAIN recs : KeyOf(recs[i]) = g \/ (g.nested # <<>> /\ Below(KeyOf(recs[i]), g))}

Groups(recs) ==
    {KeyOf(recs[i]) : i \in DOMAIN recs}
    \cup (IF \E k \in DOMAIN query.aggr : is_inclusive(query.aggr[k])
          THEN UNION {{[KeyOf(recs[i]) EXCEPT !.nested = SubSeq(@, 1, n)] :
                            n \in 1..Len(KeyOf(recs[i]).nested)} : i \in DOMAIN recs}
          ELSE {})

Total(recs, S, name) ==
    MapThenSumSet(LAMBDA i : Number(recs[i], name), {i \in S : Has(recs[i], name)})

(* The result of a kernel for a group, as a set of admissible numbers; the  *)
(* empty set if the output record has no result.                            *)
ExpectedOf(k, recs, grp, S, with, sum, all) ==
    LET vals == {Number(recs[i], k.tgt) : i \in with}
        op == kernel_list(k.op)
    IN CASE op = "Count" -> IF grp = {} THEN {} ELSE {<<Cardinality(grp), 1>>}
         [] op = "ScaledCount" -> IF grp = {} THEN {} ELSE {<<k.scale * Cardinality(grp), 1>>}
         [] op = "Sum" -> IF with = {} THEN {} ELSE {<<sum, 1>>}
         [] op = "ScaledSum" -> IF with = {} THEN {} ELSE {<<k.scale * sum, 1>>}
         [] op = "Min" -> IF with = {} THEN {} ELSE {<<Min(vals), 1>>}
         [] op = "Max" -> IF with = {} THEN {} ELSE {<<Max(vals), 1>>}
         [] op = "Avg" -> IF with = {} THEN {} ELSE {<<sum, Cardinality(with)>>}
         [] op = "Any" -> {<<v, 1>> : v \in vals}
         [] op = "ScaledRatio" ->
                IF with = {} \/ Total(recs, S, k.tgt2) = 0 THEN {}
                ELSE {<<k.scale * sum, Total(recs, S, k.tgt2)>>}
         [] op = "PercentTotal" -> IF all = 0 THEN {} ELSE {<<100 * sum, all>>}
         [] op = "Variance" ->
                IF with = {} THEN {}
                ELSE LET n == Cardinality(with)
                         sq == MapThenSumSet(LAMBDA i : Number(recs[i], k.tgt)^2, with)
                     IN {<<n * sq - sum * sum, n * n>>}

Members(k, recs, g) == IF is_inclusive(k) THEN InclusiveGroup(recs, g) ELSE Group(recs, g)

Expected(k, recs, g) ==
    ExpectedOf(k, recs, Group(recs, g), Members(k, recs, g),
               {i \in Members(k, recs, g) : Has(recs[i], k.tgt)},
               Total(recs, Members(k, recs, g), k.tgt), Total(recs, DOMAIN recs, k.tgt))

-----------------------------------------------------------------------------
(* The output of Query in the same terms.                                   *)
RecordMeaning(d, rec) ==
    LET refs == SelectSeq(rec, is_reference)
        imms == SelectSeq(rec, is_immediate)
    IN [paths |-> [i \in DOMAIN refs |-> Meaning(d, refs[i].node)],
        imms |-> [i \in DOMAIN imms |-> <<name_of(d, imms[i].node), imms[i].val>>]]

RowResult(r, k) ==
    LET name == get_aggregation_attribute_name(k)
    IN {r.imms[i][2] : i \in {j \in DOMAIN r.imms : r.imms[j][1] = name}}

Output == [i \in DOMAIN rows |-> RecordMeaning(db[1], rows[i])]

(* Where the result of an aggregation is promised to be exact: one reader   *)
(* thread; in mpi-caliquery all kernels but those that add up inclusive     *)
(* values, and targets that the first rank knows from its own input.        *)
AddsInclusive == {"inclusive_sum", "inclusive_scale", "inclusive_ratio"}

Exact ==
    CASE mode = "report" -> TRUE
      [] mode = "query" -> Cardinality(Active) = 1
      [] mode = "mpi" ->
            /\ \A k \in DOMAIN query.aggr : query.aggr[k].op \notin AddsInclusive
            /\ \A k \in DOMAIN query.aggr :
                  NeedsTarget(query.aggr[k]) =>
                      \/ query.aggr[k].tgt \in input[1].names
                      \/ query.aggr[k].tgt \in {query.let[i].res : i \in DOMAIN query.let}
            /\ \A i \in DOMAIN query.where, j \in DOMAIN query.let :
                  query.where[i].attr # query.let[j].res

ResultExact(have, want) ==
    have \subseteq want /\ Cardinality(have) = (IF want = {} THEN 0 ELSE 1)

GroupsExact(o, keys, sel) ==
    /\ Range(keys) = Groups(sel)
    /\ IsInjective(keys)
    /\ \A i \in DOMAIN o, k \in DOMAIN query.aggr :
          ResultExact(RowResult(o[i], query.aggr[k]), Expected(query.aggr[k], sel, keys[i]))

(* GROUP BY yields one output record per combination of key values, and     *)
(* inclusive operators one for every enclosing region.  Each record has     *)
(* exactly the kernels' results over the input records of its group, or of  *)
(* the regions below it; also if partial results of two ranks are merged.   *)
(* Without aggregation the selected records come out in their order.        *)
QueryExact ==
    /\ Finished /\ ~do_aggregate /\ Exact => Output = Selected
    /\ Finished /\ do_aggregate /\ Exact =>
        GroupsExact(Output, [i \in DOMAIN rows |-> KeyOf(Output[i])], Selected)

(* Reader threads that create the same group at the same time lose no       *)
(* record: the counts of all output records add up to the input.            *)
EveryRecordCounted ==
    \A k \in DOMAIN query.aggr :
        Finished /\ query.aggr[k].op = "count" /\ query.where = <<>> =>
            MapThenSumSet(LAMBDA i : aggr[1].entries[i].kern[k].n, DOMAIN aggr[1].entries)
                = Len(AllRecords)

(* The statement of GROUP BY for any number of reader threads: "the         *)
(* aggregator will generate an aggregate record for each unique combination *)
(* of key values" (doc/sphinx/calql.rst).                                   *)
OneRecordPerKey ==
    Finished /\ do_aggregate =>
        \A i, j \in DOMAIN rows : i # j => KeyOf(Output[i]) # KeyOf(Output[j])

-----------------------------------------------------------------------------
(* Node ids differ between streams.  Whatever the other threads merge at    *)
(* the same time, a record read through the id map of its stream has the    *)
(* paths and values it was written with.                                    *)
RecordsResolved ==
    \A t \in Threads :
        th[t].file # 0 /\ th[t].pc \in {"keys", "lookup", "create", "apply", "format"} =>
            LET f == input[th[t].file]
                left == SelectSeq(th[t].stream, LAMBDA r : r.kind \in {"ctx", "import"})
                abs == f.abs[Len(f.abs) - Len(left)]
                r == RecordMeaning(db[Rank(t)], th[t].rec)
            IN r.paths = abs.paths /\ IsPrefix(abs.imms, r.imms)

(* A path has one node, whichever streams and threads it came from.         *)
OneNodePerPath ==
    \A r \in Threads : \A m, n \in NodeIds(db[r]) :
        m # n => db[r].nodes[m] # db[r].nodes[n]

Defined(i) == {0, NAME_ATTR, PROP_ATTR} \cup
              {out[j].id : j \in {l \in 1..(i - 1) : out[l].kind = "node"}}

(* The output stream can be read in one pass: nodes written by several      *)
(* threads appear before the records and nodes that refer to them.          *)
WrittenBeforeUse ==
    \A i \in DOMAIN out :
        IF out[i].kind = "node" THEN {out[i].attr, out[i].parent} \subseteq Defined(i)
        ELSE {out[i].refs[j] : j \in DOMAIN out[i].refs}
             \cup {out[i].imms[j][1] : j \in DOMAIN out[i].imms} \subseteq Defined(i)

(* What a CaliReader makes of a stream.                                     *)
ReadBack(stream) ==
    LET start == [db |-> setup_bootstrap_nodes, idmap |-> <<>>, recs |-> <<>>]
        next(st, r) ==
            IF r.kind = "node"
            THEN LET m == merge_node(st.db, r, st.idmap)
                 IN [st EXCEPT !.db = IF m.new /\ map_id(r.attr, st.idmap) = NAME_ATTR
                                      THEN insert_attribute(m.db, m.id) ELSE m.db,
                               !.idmap = map_insert(@, r.id, m.id)]
            ELSE [st EXCEPT !.recs = Append(@, [kind |-> r.kind,
                      rec |-> RecordMeaning(st.db,
                                  merge_snapshot(st.db, r.refs, r.imms, st.idmap))])]
    IN FoldLeft(next, start, stream).recs

Times(s, x) == Cardinality({i \in DOMAIN s : s[i] = x})

(* Reading the output stream back yields the records that were to be        *)
(* written, each as often as it was, and the globals.                       *)
RewrittenExact ==
    Finished /\ query.format.name = "cali" =>
        LET back == ReadBack(out)
            want == [i \in DOMAIN rows |-> [kind |-> "ctx", rec |-> Output[i]]]
                    \o <<[kind |-> "globals", rec |-> RecordMeaning(db[1], db[1].globals)]>>
        IN /\ Len(back) = Len(want)
           /\ \A i \in DOMAIN want : Times(back, want[i]) = Times(want, want[i])

-----------------------------------------------------------------------------
(* What the formatters are to print of the records they were given.         *)
NamesIn(r) == {Elements(r)[i][1] : i \in DOMAIN Elements(r)} \cup {r.imms[i][1] : i \in DOMAIN r.imms}

ValuesAlong(p, S) ==
    LET hits == SelectSeq(p, LAMBDA e : e[1] \in S) IN [i \in DOMAIN hits |-> hits[i][2]]

CellOf(r, n) ==
    LET ps == SelectSeq([i \in DOMAIN r.paths |-> ValuesAlong(r.paths[i], {n})], LAMBDA p : p # <<>>)
        vs == SelectSeq(r.imms, LAMBDA e : e[1] = n)
    IN IF ps # <<>> THEN PathCell(ps[1]) ELSE IF vs # <<>> THEN ValCell(vs[1][2]) ELSE NoCell

Listed(n) == \E i \in DOMAIN query.format.select.list : query.format.select.list[i] = n

Shown(r) ==
    {n \in NamesIn(r) : IF query.format.select.all THEN n \notin GlobalNames ELSE Listed(n)}

Titled(r, names) ==
    [t \in {Alias(query.format, n) : n \in names} |->
        CellOf(r, CHOOSE n \in names : Alias(query.format, n) = t)]

SameBag(s, t) ==
    Len(s) = Len(t) /\ \A i \in DOMAIN t : Times(s, t[i]) = Times(t, t[i])

(* The last sort criterion comes first, as in the example of the            *)
(* documentation; missing values are the least.                             *)
SortedBy(lines, sort) ==
    LET val(x, m) == IF Alias(query.format, sort[m].attr) \in DOMAIN x
                     THEN x[Alias(query.format, sort[m].attr)].val ELSE <<>>
        less(x, y, m) == IF sort[m].order = "asc" THEN ValLess(val(x, m), val(y, m))
                         ELSE ValLess(val(y, m), val(x, m))
        before(x, y) == \E m \in DOMAIN sort :
                            /\ less(x, y, m)
                            /\ \A l \in DOMAIN sort : l > m => val(x, l) = val(y, l)
    IN \A i, j \in DOMAIN lines : i < j => ~before(lines[j], lines[i])

TableLines(o) ==
    LET kept == SelectSeq(o, LAMBDA r : \/ Shown(r) # {}
                                        \/ \E i \in DOMAIN query.format.sort :
                                              query.format.sort[i].attr \in NamesIn(r))
    IN [i \in DOMAIN kept |-> Titled(kept[i], Shown(kept[i]))]

TreePath(n) == IF query.format.args = <<>> THEN n \in NestedNames
               ELSE \E i \in DOMAIN query.format.args : query.format.args[i] = n

(* The labels above a printed line and its own: the last line of each lower *)
(* level.                                                                   *)
LabelsOf(lines, i) ==
    [l \in 1..(lines[i].level + 1) |->
        lines[Max({j \in 1..i : lines[j].level = l - 1})].label[1]]

TreeEntries(lines) ==
    FoldLeft(LAMBDA acc, i : acc \o [k \in DOMAIN lines[i].recs |->
                                        <<LabelsOf(lines, i), lines[i].recs[k]>>],
             <<>>, [i \in DOMAIN lines |-> i])

TreeWanted(o) ==
    LET path(r) == ValuesAlong(Elements(r), {n \in NamesIn(r) : TreePath(n)})
        kept == SelectSeq(o, LAMBDA r : path(r) # <<>>)
    IN [i \in DOMAIN kept |->
            <<path(kept[i]), Titled(kept[i], {n \in Shown(kept[i]) : ~TreePath(n)})>>]

(* The labels on the way from a node of the split JSON's table to a root.   *)
NodeLabels(id) ==
    LET up[n \in 0..Len(fmt.nodes)] ==
            IF n = 0 THEN <<>> ELSE Append(up[fmt.nodes[n].parent], fmt.nodes[n].label)
    IN up[id]

SplitRowExact(line, r) ==
    \A c \in DOMAIN fmt.cols :
        LET names == {name_of(db[1], a) : a \in fmt.cols[c].attrs}
        IN IF fmt.cols[c].hierarchy
           THEN NodeLabels(line[c].id) = ValuesAlong(Elements(r), names)
           ELSE line[c].val = CellOf(r, CHOOSE n \in names : TRUE).val

JsonCell(r, k) ==
    IF k = "path" THEN PathCell(ValuesAlong(Elements(r), NestedNames \cap Shown(r)))
    ELSE Titled(r, Shown(r))[k]

(* A region profile from its definition: the sum for every key over the     *)
(* records with the metric whose region path has that key.                  *)
SumsExact(o, p, Keys(_)) ==
    LET used == {i \in DOMAIN o : Has(o[i], "time")}
        path(i) == ValuesAlong(Elements(o[i]), NestedNames)
        sum(S) == MapThenSumSet(LAMBDA i : Number(o[i], "time"), S)
    IN /\ p.total = sum(used)
       /\ p.total_reg = sum({i \in used : path(i) # <<>>})
       /\ DOMAIN p.reg = UNION {Keys(path(i)) : i \in used}
       /\ \A key \in DOMAIN p.reg : p.reg[key] = sum({i \in used : key \in Keys(path(i))})

ProfileExact(o, Targets(_), Keys(_)) ==
    SumsExact(o, profile_result(rows, get_attribute(db[1], "time"),
                                [i \in DOMAIN rows |-> Targets(rows[i])]), Keys)

(* The four region profiles of the records are exact: the time of a region  *)
(* is that of the records in it, and for the inclusive ones that of the     *)
(* records below it, by name or by path.                                    *)
ProfilesExact ==
    Finished /\ ~do_aggregate =>
        LET d == db[1]
            o == Output
            last(p) == IF p = <<>> THEN {} ELSE {<<p[Len(p)]>>}
            whole(p) == IF p = <<>> THEN {} ELSE {p}
        IN /\ ProfileExact(o, LAMBDA r : flat_exclusive(d, r, Root), last)
           /\ ProfileExact(o, LAMBDA r : nested_exclusive(d, r, Root), whole)
           /\ ProfileExact(o, LAMBDA r : flat_inclusive(d, r, Root), LAMBDA p : {<<p[i]>> : i \in DOMAIN p})
           /\ ProfileExact(o, LAMBDA r : nested_inclusive(d, r, Root),
                           LAMBDA p : {SubSeq(p, 1, i) : i \in DOMAIN p})

(* The output shows every record that has something to show, with all its   *)
(* values and under its whole path: as a sorted table, as a tree, as rows   *)
(* that refer to nodes, or as one line each.  The threads that hand over    *)
(* records add columns and rows at the same time.                           *)
PrintedExact ==
    Finished =>
        LET o == Output
            lines == fmt.lines
            name == query.format.name
        IN CASE name = "table" ->
                    SameBag(lines, TableLines(o)) /\ SortedBy(lines, query.format.sort)
             [] name = "tree" -> SameBag(TreeEntries(lines), TreeWanted(o))
             [] name = "json-split" ->
                    /\ Len(lines) = Len(o)
                    /\ \A i \in DOMAIN o : SplitRowExact(lines[i], o[i])
                    /\ \A r \in {o[i] : i \in DOMAIN o}, n \in NestedNames :
                          n \in NamesIn(r) /\ query.format.select.all =>
                              \E c \in DOMAIN fmt.cols : n \in {name_of(db[1], a) : a \in fmt.cols[c].attrs}
             [] name = "json" ->
                    LET shown == SelectSeq(o, LAMBDA r : Shown(r) # {})
                    IN /\ Len(lines) = Len(shown)
                       /\ \A i \in DOMAIN shown :
                             LET keys == {IF n \in NestedNames THEN "path" ELSE Alias(query.format, n) :
                                            n \in Shown(shown[i])}
                             IN lines[i] = [k \in keys |-> JsonCell(shown[i], k)]
             [] name = "expand" ->
                    \A i \in DOMAIN o : \A n \in NamesIn(o[i]) :
                        query.format.select.list = <<>> \/ Listed(n) =>
                            \E j \in DOMAIN lines : \E p \in DOMAIN lines[j] :
                                /\ lines[j][p].name = Alias(query.format, n)
                                /\ lines[j][p].cell = CellOf(o[i], n)
             [] name = "format" ->
                    SameBag(lines, [i \in DOMAIN o |-> [j \in DOMAIN query.format.args |->
                                        CellOf(o[i], query.format.args[j])]])
             [] name = "cali" -> TRUE

=============================================================================
