----------------------------- MODULE Formatters -----------------------------
(***************************************************************************)
(* The formatters of src/src/reader: what they keep of a record, and what   *)
(* they print when they are flushed.  Widths, padding and quoting are left  *)
(* out.  A printed value is a cell [path, val]: the values of an attribute  *)
(* along a path joined by "/", or one immediate value.                      *)
(*                                                                          *)
(* A format specification is [name, args, select, aliases, sort]: select    *)
(* is [all, path, list], sort a sequence of [attr, order].                  *)
(***************************************************************************)
EXTENDS Integers, SequencesExt, MetadataDB

PathCell(p) == [path |-> p, val |-> <<>>]
ValCell(v) == [path |-> <<>>, val |-> v]
NoCell == [path |-> <<>>, val |-> <<>>]

Visible(db, a) == Properties(db, a) \cap {"hidden", "global"} = {}

Alias(spec, name) == IF name \in DOMAIN spec.aliases THEN spec.aliases[name] ELSE name

(* The values of an attribute on the path of an entry, from the root.       *)
PathValues(db, e, Is(_)) ==
    IF ~is_reference(e) THEN <<>>
    ELSE LET ids == SelectSeq(PathIds(db)[e.node], LAMBDA n : Is(db.nodes[n].attr))
         IN [i \in DOMAIN ids |-> db.nodes[ids[Len(ids) + 1 - i]].data]

(* The cell of an attribute: from the first entry that has it.              *)
cell_value(db, rec, a) ==
    LET cell(e) == IF is_reference(e) THEN PathCell(PathValues(db, e, LAMBDA b : b = a))
                   ELSE IF e.node = a THEN ValCell(e.val) ELSE NoCell
        hits == SelectSeq([i \in DOMAIN rec |-> cell(rec[i])], LAMBDA c : c # NoCell)
    IN IF a = Root \/ hits = <<>> THEN NoCell ELSE hits[1]

(* The attributes of a record in the order they are met.                    *)
attributes_of(db, rec) ==
    FoldLeft(LAMBDA acc, e : IF is_immediate(e) THEN Append(acc, e.node)
                             ELSE IF ~is_reference(e) THEN acc
                             ELSE acc \o [i \in DOMAIN PathIds(db)[e.node] |->
                                            db.nodes[PathIds(db)[e.node][i]].attr],
             <<>>, rec)

-----------------------------------------------------------------------------
(* TableFormatter: the sort columns come first and are not printed.         *)
Column(name, alias, attr, print, order) ==
    [name |-> name, title |-> alias, attr |-> attr, print |-> print, order |-> order]

table_configure(spec) ==
    [i \in DOMAIN spec.sort |->
        Column(spec.sort[i].attr, spec.sort[i].attr, Root, FALSE, spec.sort[i].order)]
    \o (IF spec.select.all THEN <<>>
        ELSE [i \in DOMAIN spec.select.list |->
                Column(spec.select.list[i], Alias(spec, spec.select.list[i]), Root, TRUE, "none")])

update_column_attribute(db, cols, a, spec) ==
    IF \/ \E i \in DOMAIN cols : cols[i].order = "none" /\ cols[i].attr = a
       \/ ~Visible(db, a)
    THEN cols
    ELSE Append(cols, Column(name_of(db, a), Alias(spec, name_of(db, a)), a, TRUE, "none"))

(* Under m_col_lock: columns for new attributes, and the attributes of      *)
(* columns whose name has become known.                                     *)
update_columns(db, cols, rec, spec) ==
    LET auto == IF ~spec.select.all THEN cols
                ELSE FoldLeft(LAMBDA acc, a : update_column_attribute(db, acc, a, spec),
                              cols, attributes_of(db, rec))
    IN [i \in DOMAIN auto |->
            IF auto[i].attr # Root THEN auto[i]
            ELSE [auto[i] EXCEPT !.attr = get_attribute(db, auto[i].name)]]

table_row(db, cols, rec) == [c \in DOMAIN cols |-> cell_value(db, rec, cols[c].attr)]

is_active(row) == \E c \in DOMAIN row : row[c] # NoCell

(* Values of a sort column, which are strings that are converted back.      *)
(* The empty string is no number; the order of path strings is kept out of  *)
(* the instances.                                                           *)
CellLess(x, y) ==
    IF x = NoCell \/ y = NoCell THEN x = NoCell /\ y # NoCell
    ELSE x.val[1] * y.val[2] < y.val[1] * x.val[2]

RowLess(c, order, r, s) ==
    IF order = "asc"
    THEN IF c > Len(r) \/ c > Len(s) THEN Len(r) < Len(s) ELSE CellLess(r[c], s[c])
    ELSE IF c > Len(r) \/ c > Len(s) THEN Len(r) > Len(s) ELSE CellLess(s[c], r[c])

stable_sort(s, Less(_, _)) ==
    LET rank(i) == Cardinality({j \in DOMAIN s : Less(s[j], s[i]) \/ (~Less(s[i], s[j]) /\ j <= i)})
    IN [r \in DOMAIN s |-> s[CHOOSE i \in DOMAIN s : rank(i) = r]]

(* One stable sort per sort column, in the order of the columns.            *)
table_flush(cols, trows) ==
    LET by(acc, c) == IF cols[c].order = "none" THEN acc
                      ELSE stable_sort(acc, LAMBDA r, s : RowLess(c, cols[c].order, r, s))
        sorted == FoldLeft(by, trows, [c \in DOMAIN cols |-> c])
    IN [i \in DOMAIN sorted |->
            [t \in {cols[c].title : c \in {d \in DOMAIN sorted[i] : cols[d].print /\ sorted[i][d] # NoCell}} |->
                sorted[i][CHOOSE d \in DOMAIN sorted[i] : cols[d].print /\ cols[d].title = t
                                                          /\ sorted[i][d] # NoCell]]]

-----------------------------------------------------------------------------
(* SnapshotTree: nodes [label, parent, recs], in the order of creation.     *)
UnpackedEntries(db, rec) ==
    LET add(acc, e) ==
            IF is_immediate(e) THEN Append(acc, [attr |-> e.node, path |-> <<>>, val |-> e.val])
            ELSE IF ~is_reference(e) THEN acc
            ELSE acc \o [i \in DOMAIN PathIds(db)[e.node] |->
                            LET n == db.nodes[PathIds(db)[e.node][i]]
                            IN [attr |-> n.attr, path |-> <<n.data>>, val |-> <<>>]]
    IN FoldLeft(add, <<>>, rec)

FirstOfEach(data) ==
    [a \in {data[i].attr : i \in DOMAIN data} |->
        LET f == data[Min({i \in DOMAIN data : data[i].attr = a})]
        IN [path |-> f.path, val |-> f.val]]

SplitEntries(all, path_attrs) ==
    [path |-> SelectSeq(all, LAMBDA x : x.attr \in path_attrs),
     data |-> FirstOfEach(SelectSeq(all, LAMBDA x : x.attr \notin path_attrs))]

enter_child(st, lab) ==
    LET hits == {c \in DOMAIN st.t : st.t[c].parent = st.n /\ st.t[c].label = lab}
    IN IF hits # {} THEN [t |-> st.t, n |-> CHOOSE c \in hits : TRUE]
       ELSE [t |-> Append(st.t, [label |-> lab, parent |-> st.n, recs |-> <<>>]),
             n |-> Len(st.t) + 1]

add_record(at, data) ==
    IF at.n = 0 THEN at.t ELSE [at.t EXCEPT ![at.n].recs = Append(@, data)]

add_parts(tree, parts) ==
    add_record(FoldRight(LAMBDA lab, st : enter_child(st, lab), parts.path, [t |-> tree, n |-> 0]),
               parts.data)

add_snapshot(tree, db, rec, path_attrs) ==
    add_parts(tree, SplitEntries(UnpackedEntries(db, rec), path_attrs))

(* min_val and max_val: over the records of a node and of all its children, *)
(* <<>> where there is none.                                                *)
SubtreeIds(tree, n) ==
    LET up[c \in 0..Len(tree)] == c # 0 /\ (c = n \/ up[tree[c].parent])
    IN {c \in DOMAIN tree : up[c]}

SubtreeVals(tree, n, a) ==
    UNION {{tree[c].recs[i][a].val : i \in {j \in DOMAIN tree[c].recs : a \in DOMAIN tree[c].recs[j]}}
           : c \in SubtreeIds(tree, n)}

ValLess(v, w) == IF v = <<>> \/ w = <<>> THEN v = <<>> /\ w # <<>> ELSE v[1] * w[2] < w[1] * v[2]

min_val(tree, n, a) ==
    LET vs == SubtreeVals(tree, n, a)
    IN IF vs = {} THEN <<>> ELSE CHOOSE v \in vs : \A w \in vs : ~ValLess(w, v)
max_val(tree, n, a) ==
    LET vs == SubtreeVals(tree, n, a)
    IN IF vs = {} THEN <<>> ELSE CHOOSE v \in vs : \A w \in vs : ~ValLess(v, w)

get_sorted_child_nodes(tree, db, n, sort) ==
    LET children == SelectSeq([i \in DOMAIN tree |-> i], LAMBDA c : tree[c].parent = n)
        by(acc, s) ==
            LET a == get_attribute(db, s.attr)
            IN IF a = Root THEN acc
               ELSE IF s.order = "asc"
               THEN stable_sort(acc, LAMBDA x, y : ValLess(min_val(tree, x, a), min_val(tree, y, a)))
               ELSE stable_sort(acc, LAMBDA x, y : ValLess(max_val(tree, y, a), max_val(tree, x, a)))
    IN FoldLeft(by, children, sort)

(* SnapshotTreeNode::sort: records without the attribute come last.         *)
sort_records(recs, db, sort) ==
    LET by(acc, s) ==
            LET a == get_attribute(db, s.attr)
                less(r, q) == IF a \notin DOMAIN q THEN a \in DOMAIN r
                              ELSE /\ a \in DOMAIN r
                                   /\ IF s.order = "asc" THEN ValLess(r[a].val, q[a].val)
                                      ELSE ValLess(q[a].val, r[a].val)
            IN IF a = Root THEN acc ELSE stable_sort(acc, less)
    IN FoldLeft(by, recs, sort)

recursive_print_nodes(line, below) == <<line>> \o below

(* Mutation: the selection is not looked at.                                *)
tree_columns_all(db, a, spec) == Visible(db, a)

tree_columns(db, a, spec) ==
    IF spec.select.all THEN Visible(db, a)
    ELSE \E i \in DOMAIN spec.select.list : get_attribute(db, spec.select.list[i]) = a

(* The printed lines, a node before its children, with the values of the    *)
(* selected attributes.                                                     *)
tree_flush(tree, db, spec) ==
    LET line(n, level) ==
            LET sorted == sort_records(tree[n].recs, db, spec.sort)
            IN [level |-> level, label |-> tree[n].label.path,
             recs |-> [i \in DOMAIN sorted |->
                 LET r == sorted[i]
                     used == {a \in DOMAIN r : tree_columns(db, a, spec)}
                 IN [t \in {Alias(spec, name_of(db, a)) : a \in used} |->
                        r[CHOOSE a \in used : Alias(spec, name_of(db, a)) = t]]]]
        lines[k \in 0..Len(tree), level \in 0..Len(tree)] ==
            FoldLeft(LAMBDA acc, c : acc \o recursive_print_nodes(line(c, level), lines[c, level + 1]),
                     <<>>, get_sorted_child_nodes(tree, db, k, spec.sort))
    IN lines[0, 0]

-----------------------------------------------------------------------------
(* JsonSplitFormatter: the columns, and a table of nodes for the values of  *)
(* the columns that hold paths.                                             *)
init_columns(db, spec, groupby, results) ==
    LET explicit == ~spec.select.all \/ ~groupby.all
        names == IF ~spec.select.all THEN spec.select.list ELSE groupby.list \o results
        path == IF ~spec.select.all THEN spec.select.path ELSE groupby.use_path
        attrs == SelectSeq(SetToSeq({db.attrs[n] : n \in DOMAIN db.attrs} \ {NAME_ATTR, PROP_ATTR}),
                    LAMBDA a : IF explicit
                               THEN \/ path /\ is_nested(db, a)
                                    \/ \E i \in DOMAIN names : names[i] = name_of(db, a)
                               ELSE Visible(db, a))
        nested == SelectSeq(attrs, LAMBDA a : is_nested(db, a))
        single == SelectSeq(attrs, LAMBDA a : ~is_nested(db, a))
    IN [i \in DOMAIN single |->
            [title |-> Alias(spec, name_of(db, single[i])), attrs |-> {single[i]},
             hierarchy |-> ~store_as_value(db, single[i])]]
       \o (IF nested = <<>> THEN <<>>
           ELSE <<[title |-> "path", attrs |-> {nested[i] : i \in DOMAIN nested},
                   hierarchy |-> TRUE]>>)

(* Hierarchy::get_id: siblings are told apart by their label.               *)
get_id(hier, labels, column) ==
    LET step[i \in 0..Len(labels)] ==
            IF i = 0 THEN [h |-> hier, n |-> 0]
            ELSE LET st == step[i-1]
                     hits == {c \in DOMAIN st.h : st.h[c].parent = st.n /\ st.h[c].label = labels[i]}
                 IN IF hits # {} THEN [h |-> st.h, n |-> CHOOSE c \in hits : TRUE]
                    ELSE [h |-> Append(st.h, [label |-> labels[i], column |-> column, parent |-> st.n]),
                          n |-> Len(st.h) + 1]
    IN step[Len(labels)]

(* The path of a record in a column: the nodes of all entries from the      *)
(* leaf, in reverse.                                                        *)
write_hierarchy_entry(db, rec, attrs) ==
    FoldLeft(LAMBDA acc, e : PathValues(db, e, LAMBDA a : a \in attrs) \o acc, <<>>, rec)

write_immediate_entry(rec, attrs) ==
    LET hits == SelectSeq(rec, LAMBDA e : is_immediate(e) /\ e.node \in attrs)
    IN IF hits = <<>> THEN <<>> ELSE hits[1].val

(* A row has a node id (0: null) or a value for each column.                *)
json_split_flush(db, recs, cols) ==
    LET cell(acc, rec, c) ==
            IF ~c.hierarchy
            THEN [acc EXCEPT !.row = Append(@, [id |-> 0, val |-> write_immediate_entry(rec, c.attrs)])]
            ELSE LET r == get_id(acc.nodes, write_hierarchy_entry(db, rec, c.attrs), c.title)
                 IN [acc EXCEPT !.nodes = r.h, !.row = Append(@, [id |-> r.n, val |-> <<>>])]
        add(acc, rec) ==
            LET r == FoldLeft(LAMBDA a, c : cell(a, rec, c), [nodes |-> acc.nodes, row |-> <<>>], cols)
            IN [nodes |-> r.nodes, data |-> Append(acc.data, r.row)]
    IN FoldLeft(add, [nodes |-> <<>>, data |-> <<>>], recs)

-----------------------------------------------------------------------------
(* JsonFormatter: one object per record; nested attributes share a key.     *)
get_key(db, a, spec) ==
    LET name == name_of(db, a)
        selected == \E i \in DOMAIN spec.select.list : spec.select.list[i] = name
    IN IF ~selected /\ (spec.select.list # <<>> \/ ~Visible(db, a)) THEN ""
       ELSE IF is_nested(db, a) THEN "path" ELSE Alias(spec, name)

json_print(db, rec, spec) ==
    LET keys == {get_key(db, attributes_of(db, rec)[i], spec) : i \in DOMAIN attributes_of(db, rec)} \ {""}
        cell(k) ==
            LET imms == SelectSeq(rec, LAMBDA e : is_immediate(e) /\ get_key(db, e.node, spec) = k)
                path == FoldLeft(LAMBDA acc, e : PathValues(db, e, LAMBDA a : get_key(db, a, spec) = k) \o acc,
                                 <<>>, rec)
            IN IF imms = <<>> THEN PathCell(path) ELSE ValCell(imms[Len(imms)].val)
    IN [k \in keys |-> cell(k)]

(* Expand: name=value pairs, entry by entry, the values of an attribute on  *)
(* one path joined.                                                         *)
expand_print(db, rec, spec) ==
    LET use(a) == spec.select.list = <<>> \/ \E i \in DOMAIN spec.select.list :
                                                spec.select.list[i] = name_of(db, a)
        pairs(e) ==
            IF is_immediate(e)
            THEN IF use(e.node) THEN <<[name |-> Alias(spec, name_of(db, e.node)), cell |-> ValCell(e.val)]>>
                 ELSE <<>>
            ELSE LET attrs == {db.nodes[PathIds(db)[e.node][i]].attr : i \in DOMAIN PathIds(db)[e.node]}
                     order == SortSeq(SetToSeq({a \in attrs : use(a)}), LAMBDA a, b : a > b)
                 IN [i \in DOMAIN order |->
                        [name |-> Alias(spec, name_of(db, order[i])),
                         cell |-> PathCell(PathValues(db, e, LAMBDA a : a = order[i]))]]
    IN FoldLeft(LAMBDA acc, e : IF e = EmptyEntry THEN acc ELSE acc \o pairs(e), <<>>, rec)

(* UserFormatter: the fields of the format string.                          *)
user_print(db, rec, spec) ==
    [i \in DOMAIN spec.args |-> cell_value(db, rec, get_attribute(db, spec.args[i]))]

-----------------------------------------------------------------------------
(* The region profiles: for every record with the metric the regions, or    *)
(* the paths, to which its value is added.                                  *)
is_target_reg(db, region, a) == IF region = Root THEN is_nested(db, a) ELSE a = region

RegionsOf(db, e, region) == PathValues(db, e, LAMBDA a : is_target_reg(db, region, a))

(* The first reference entry whose own node is a region.                    *)
LeafRegion(db, rec, region) ==
    LET hits == SelectSeq(rec, LAMBDA e : is_reference(e) /\ is_target_reg(db, region, attr_of(db, e)))
    IN IF hits = <<>> THEN <<>> ELSE RegionsOf(db, hits[1], region)

flat_exclusive(db, rec, region) ==
    LET p == LeafRegion(db, rec, region) IN IF p = <<>> THEN <<>> ELSE <<<<p[Len(p)]>>>>

nested_exclusive(db, rec, region) ==
    LET p == LeafRegion(db, rec, region) IN IF p = <<>> THEN <<>> ELSE <<p>>

flat_inclusive(db, rec, region) ==
    FoldLeft(LAMBDA acc, e : acc \o [i \in DOMAIN RegionsOf(db, e, region) |->
                                        <<RegionsOf(db, e, region)[i]>>], <<>>, rec)

(* Every prefix of the path of the first entry that has regions.            *)
nested_inclusive(db, rec, region) ==
    LET ps == SelectSeq([i \in DOMAIN rec |-> RegionsOf(db, rec[i], region)], LAMBDA p : p # <<>>)
    IN IF ps = <<>> THEN <<>> ELSE [i \in DOMAIN ps[1] |-> SubSeq(ps[1], 1, i)]

(* The result: the sum for each region, for the records in regions, and for *)
(* all records.  targets[i] are the regions record i counts for.            *)
profile_result(recs, metric, targets) ==
    LET value(r) == LET v == SelectSeq(r, LAMBDA e : is_immediate(e) /\ e.node = metric)
                    IN IF v = <<>> THEN <<>> ELSE v[1].val
        used == SelectSeq([i \in DOMAIN recs |-> i], LAMBDA i : value(recs[i]) # <<>>)
        add(acc, i) ==
            LET t == targets[i]
                n == value(recs[i])[1]
                upd(p, key) == IF key \in DOMAIN p THEN [p EXCEPT ![key] = @ + n] ELSE p @@ (key :> n)
            IN [reg |-> FoldLeft(upd, acc.reg, t), total |-> acc.total + n,
                total_reg |-> IF t = <<>> THEN acc.total_reg ELSE acc.total_reg + n]
    IN FoldLeft(add, [reg |-> <<>>, total |-> 0, total_reg |-> 0], used)

=============================================================================
