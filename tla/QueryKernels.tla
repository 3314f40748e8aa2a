---------------------------- MODULE QueryKernels ----------------------------
(***************************************************************************)
(* The aggregation kernels of src/src/reader/Aggregator.cpp.  A kernel is   *)
(* configured by k = [op, tgt, tgt2, scale]; its state is                   *)
(*   n    m_count                                                           *)
(*   sum  m_sum, m_sum1                                                     *)
(*   sum2 m_sum2 of a ratio, m_sqsum of a variance, m_isum of a percentage  *)
(*   val  the value of min, max and any; <<>> is the empty Variant          *)
(* A kernel looks up its attributes by name: ids is the name lookup of the  *)
(* metadata database after the kernel has created its result attributes.    *)
(* Doubles are exact here; a quotient is kept as <<numerator, denominator>>.*)
(*                                                                          *)
(* Below them, the stages a record passes before it is aggregated or        *)
(* printed: the LET operators of src/src/reader/Preprocessor.cpp and the    *)
(* WHERE clauses of src/src/reader/RecordSelector.cpp.                      *)
(* A LET operator is [op, res, args, scale, cond], a clause [op, attr, val].*)
(* A value is <<n, d>> for the number n/d, <<s>> for the string s, and <<>> *)
(* for the empty Variant.                                                   *)
(***************************************************************************)
EXTENDS Integers, SequencesExt, MetadataDB

Inclusive == {"inclusive_sum", "inclusive_scale", "inclusive_percent_total",
              "inclusive_ratio", "inclusive_min", "inclusive_max"}

is_inclusive(k) == k.op \in Inclusive

(* kernel_list: the class behind an operator's name.                        *)
kernel_list(op) ==
    CASE op \in {"sum", "inclusive_sum"} -> "Sum"
      [] op \in {"scale", "inclusive_scale"} -> "ScaledSum"
      [] op \in {"percent_total", "inclusive_percent_total"} -> "PercentTotal"
      [] op \in {"ratio", "inclusive_ratio"} -> "ScaledRatio"
      [] op \in {"min", "inclusive_min"} -> "Min"
      [] op \in {"max", "inclusive_max"} -> "Max"
      [] op = "count" -> "Count"
      [] op = "scale_count" -> "ScaledCount"
      [] op = "avg" -> "Avg"
      [] op = "any" -> "Any"
      [] op = "variance" -> "Variance"

(* The attributes a kernel creates: those that carry its partial results,   *)
(* which it also accepts as input, and the one with the final result.       *)
Prefix(k, incl, excl) == IF is_inclusive(k) THEN incl ELSE excl

(* The names: the partial results [sum, sum2, count], "" for none, and the  *)
(* result.                                                                  *)
Names(sum, sum2, count, result) == [sum |-> sum, sum2 |-> sum2, count |-> count, result |-> result]

CountConfig(k) == Names("count", "", "", "count")
ScaledCountConfig(k) == Names("scount#", "", "", "scount")

SumConfig(k) ==
    LET sum == Prefix(k, "inclusive#", "sum#") \o k.tgt IN Names(sum, "", "", sum)

ScaledSumConfig(k) ==
    Names(Prefix(k, "iscsum#", "scsum#") \o k.tgt, "", "", Prefix(k, "iscale#", "scale#") \o k.tgt)

MinConfig(k) == LET min == Prefix(k, "imin#", "min#") \o k.tgt IN Names(min, "", "", min)
MaxConfig(k) == LET max == Prefix(k, "imax#", "max#") \o k.tgt IN Names(max, "", "", max)
AvgConfig(k) == Names("avg.sum#" \o k.tgt, "", "avg.count#" \o k.tgt, "avg#" \o k.tgt)

ScaledRatioConfig(k) ==
    Names(Prefix(k, "isr.sum#", "sr.sum#") \o k.tgt, Prefix(k, "isr.sum#", "sr.sum#") \o k.tgt2, "",
          Prefix(k, "iratio#", "ratio#") \o k.tgt \o "/" \o k.tgt2)

PercentTotalConfig(k) ==
    Names(Prefix(k, "ipct.sum#", "pct.sum#") \o k.tgt, "", "",
          Prefix(k, "ipercent_total#", "percent_total#") \o k.tgt)

AnyConfig(k) == Names("any#" \o k.tgt, "", "", "any#" \o k.tgt)

VarianceConfig(k) ==
    Names("var.sum#" \o k.tgt, "var.sqsum#" \o k.tgt, "var.count#" \o k.tgt, "variance#" \o k.tgt)

Config(k) ==
    LET kernel == kernel_list(k.op)
    IN CASE kernel = "Count" -> CountConfig(k)
         [] kernel = "ScaledCount" -> ScaledCountConfig(k)
         [] kernel = "Sum" -> SumConfig(k)
         [] kernel = "ScaledSum" -> ScaledSumConfig(k)
         [] kernel = "Min" -> MinConfig(k)
         [] kernel = "Max" -> MaxConfig(k)
         [] kernel = "Avg" -> AvgConfig(k)
         [] kernel = "ScaledRatio" -> ScaledRatioConfig(k)
         [] kernel = "PercentTotal" -> PercentTotalConfig(k)
         [] kernel = "Any" -> AnyConfig(k)
         [] kernel = "Variance" -> VarianceConfig(k)

SumAttr(k) == Config(k).sum
Sum2Attr(k) == Config(k).sum2
CountAttr(k) == Config(k).count
get_aggregation_attribute_name(k) == Config(k).result

ResultAttrs(k) == {SumAttr(k), Sum2Attr(k), CountAttr(k), get_aggregation_attribute_name(k)} \ {""}

make_kernel == [n |-> 0, sum |-> 0, sum2 |-> 0, val |-> <<>>]

-----------------------------------------------------------------------------
(* The values of the entries of a record that have one of the given names.  *)
ValuesOf(rec, ids, names) ==
    LET known == {ids[n] : n \in names \cap DOMAIN ids}
        hits == SelectSeq(rec, LAMBDA e : is_immediate(e) /\ e.node \in known)
    IN [i \in DOMAIN hits |-> hits[i].val[1]]

SumOf(s) == FoldLeft(LAMBDA a, b : a + b, 0, s)

FirstOf(s) == SubSeq(s, 1, IF s = <<>> THEN 0 ELSE 1)

(* m_min and m_max start empty and take the first value as it is.           *)
Extreme(better(_, _), val, s) ==
    FoldLeft(LAMBDA a, b : IF a = <<>> \/ better(b, a[1]) THEN <<b>> ELSE a, val, s)

(* Kernels that return early while their target attribute is unknown.       *)
NeedsTarget(k) ==
    kernel_list(k.op) \in {"Sum", "Min", "Max", "Avg", "PercentTotal", "Any", "Variance"}

(* The input of a kernel: values of the target, or partial results of the   *)
(* same kernel.                                                             *)
Raw(k, rec, ids) == ValuesOf(rec, ids, {k.tgt})
Partial(k, rec, ids) == ValuesOf(rec, ids, {SumAttr(k)})
Both(k, rec, ids) == ValuesOf(rec, ids, {k.tgt, SumAttr(k)})

(* Mutation: a partial count is taken for one record.                       *)
aggregate_count_one(s, given) == [s EXCEPT !.n = @ + 1]

aggregate_count(s, given) ==
    [s EXCEPT !.n = @ + (IF given = <<>> THEN 1 ELSE given[1])]

aggregate_sum(s, vals) ==
    [s EXCEPT !.sum = @ + SumOf(FirstOf(vals)), !.n = @ + Len(FirstOf(vals))]

aggregate_scaled_sum(s, vals) ==
    [s EXCEPT !.sum = @ + SumOf(vals), !.n = @ + Len(vals)]

aggregate_min(s, vals) == [s EXCEPT !.val = Extreme(LAMBDA a, b : a < b, @, vals)]
aggregate_max(s, vals) == [s EXCEPT !.val = Extreme(LAMBDA a, b : a > b, @, vals)]

aggregate_avg(s, raw, sums, counts) ==
    [s EXCEPT !.sum = @ + SumOf(raw) + SumOf(sums), !.n = @ + Len(raw) + SumOf(counts)]

aggregate_ratio(s, first, second) ==
    [s EXCEPT !.sum = @ + SumOf(first), !.n = @ + Len(first), !.sum2 = @ + SumOf(second)]

aggregate_any(s, vals) ==
    IF s.val # <<>> THEN s
    ELSE [s EXCEPT !.val = FirstOf(vals), !.n = @ + Len(FirstOf(vals))]

aggregate_variance(s, raw, sums, sqsums, counts) ==
    [s EXCEPT !.sum = @ + SumOf(raw) + SumOf(sums),
              !.sum2 = @ + SumOf([i \in DOMAIN raw |-> raw[i] * raw[i]]) + SumOf(sqsums),
              !.n = @ + Len(raw) + SumOf(counts)]

(* m_sum and m_isum of a percentage; the total is a member of the kernel's  *)
(* configuration, see TotalAdded.                                           *)
aggregate_percent(s, vals) ==
    [s EXCEPT !.sum = @ + SumOf(vals), !.sum2 = @ + SumOf(vals)]

aggregate(k, s, rec, ids) ==
    LET kernel == kernel_list(k.op)
    IN IF NeedsTarget(k) /\ k.tgt \notin DOMAIN ids THEN s
       ELSE CASE kernel \in {"Count", "ScaledCount"} ->
                    aggregate_count(s, Partial(k, rec, ids))
              [] kernel = "Sum" -> aggregate_sum(s, Both(k, rec, ids))
              [] kernel = "ScaledSum" -> aggregate_scaled_sum(s, Both(k, rec, ids))
              [] kernel = "Min" -> aggregate_min(s, Both(k, rec, ids))
              [] kernel = "Max" -> aggregate_max(s, Both(k, rec, ids))
              [] kernel = "Avg" ->
                    aggregate_avg(s, Raw(k, rec, ids), Partial(k, rec, ids),
                                  ValuesOf(rec, ids, {CountAttr(k)}))
              [] kernel = "ScaledRatio" ->
                    aggregate_ratio(s, Both(k, rec, ids),
                                    ValuesOf(rec, ids, {k.tgt2, Sum2Attr(k)}))
              [] kernel = "PercentTotal" -> aggregate_percent(s, Both(k, rec, ids))
              [] kernel = "Any" -> aggregate_any(s, Both(k, rec, ids))
              [] kernel = "Variance" ->
                    aggregate_variance(s, Raw(k, rec, ids), Partial(k, rec, ids),
                                       ValuesOf(rec, ids, {Sum2Attr(k)}),
                                       ValuesOf(rec, ids, {CountAttr(k)}))

(* What aggregate adds to the total of a percentage kernel's configuration. *)
TotalAdded(k, rec, ids) ==
    IF kernel_list(k.op) # "PercentTotal" \/ k.tgt \notin DOMAIN ids THEN 0
    ELSE SumOf(Both(k, rec, ids))

(* Only percentages treat the values of a child separately.                 *)
parent_aggregate(k, s, rec, ids) ==
    IF kernel_list(k.op) # "PercentTotal" THEN aggregate(k, s, rec, ids)
    ELSE IF k.tgt \notin DOMAIN ids THEN s
    ELSE [s EXCEPT !.sum2 = @ + SumOf(Both(k, rec, ids))]

-----------------------------------------------------------------------------
Out(name, num, den) == <<[name |-> name, val |-> <<num, den>>]>>
OutIf(given, name, num, den) == IF given THEN Out(name, num, den) ELSE <<>>

(* The entries a kernel adds to the output record of its group.             *)
append_count(k, s) == OutIf(s.n > 0, CountConfig(k).result, s.n, 1)

append_scaled_count(k, s) ==
    OutIf(s.n > 0, ScaledCountConfig(k).sum, s.n, 1)
    \o OutIf(s.n > 0, ScaledCountConfig(k).result, k.scale * s.n, 1)

append_sum(k, s) == OutIf(s.n > 0, SumConfig(k).result, s.sum, 1)

append_scaled_sum(k, s) ==
    OutIf(s.n > 0, ScaledSumConfig(k).sum, s.sum, 1)
    \o OutIf(s.n > 0, ScaledSumConfig(k).result, k.scale * s.sum, 1)

append_min(k, s) == IF s.val # <<>> THEN Out(MinConfig(k).result, s.val[1], 1) ELSE <<>>
append_max(k, s) == IF s.val # <<>> THEN Out(MaxConfig(k).result, s.val[1], 1) ELSE <<>>

append_avg(k, s) ==
    OutIf(s.n > 0, AvgConfig(k).result, s.sum, s.n)
    \o OutIf(s.n > 0, AvgConfig(k).sum, s.sum, 1)
    \o OutIf(s.n > 0, AvgConfig(k).count, s.n, 1)

append_ratio(k, s) ==
    OutIf(s.n > 0 /\ s.sum > 0, ScaledRatioConfig(k).sum, s.sum, 1)
    \o OutIf(s.sum2 > 0, ScaledRatioConfig(k).sum2, s.sum2, 1)
    \o OutIf(s.sum2 > 0 /\ s.n > 0, ScaledRatioConfig(k).result, k.scale * s.sum, s.sum2)

append_percent(k, s, total) ==
    OutIf(total > 0, PercentTotalConfig(k).sum, s.sum, 1)
    \o OutIf(total > 0, PercentTotalConfig(k).result, 100 * s.sum2, total)

append_any(k, s) == IF s.n > 0 THEN Out(AnyConfig(k).result, s.val[1], 1) ELSE <<>>

append_variance(k, s) ==
    OutIf(s.n > 0, VarianceConfig(k).result, s.sum2 * s.n - s.sum * s.sum, s.n * s.n)
    \o OutIf(s.n > 0, VarianceConfig(k).sum, s.sum, 1)
    \o OutIf(s.n > 0, VarianceConfig(k).sum2, s.sum2, 1)
    \o OutIf(s.n > 0, VarianceConfig(k).count, s.n, 1)

append_result(k, s, total) ==
    LET kernel == kernel_list(k.op)
    IN CASE kernel = "Count" -> append_count(k, s)
         [] kernel = "ScaledCount" -> append_scaled_count(k, s)
         [] kernel = "Sum" -> append_sum(k, s)
         [] kernel = "ScaledSum" -> append_scaled_sum(k, s)
         [] kernel = "Min" -> append_min(k, s)
         [] kernel = "Max" -> append_max(k, s)
         [] kernel = "Avg" -> append_avg(k, s)
         [] kernel = "ScaledRatio" -> append_ratio(k, s)
         [] kernel = "PercentTotal" -> append_percent(k, s, total)
         [] kernel = "Any" -> append_any(k, s)
         [] kernel = "Variance" -> append_variance(k, s)

-----------------------------------------------------------------------------
(* The values of a record                                                   *)

(* Entry::value(attribute): on a reference entry the node nearest the leaf. *)
entry_value(db, e, a) ==
    IF is_immediate(e) THEN IF e.node = a THEN e.val ELSE <<>>
    ELSE LET hits == SelectSeq(PathIds(db)[e.node], LAMBDA n : db.nodes[n].attr = a)
         IN IF hits = <<>> THEN <<>> ELSE <<db.nodes[hits[1]].data>>

(* The first entry of the record with a value for the attribute.            *)
get_value(db, name, rec) ==
    LET a == get_attribute(db, name)
        hits == SelectSeq(rec, LAMBDA e : entry_value(db, e, a) # <<>>)
    IN IF a = Root \/ hits = <<>> THEN <<>> ELSE entry_value(db, hits[1], a)

(* get_path_entry: the nested node nearest the leaf.                        *)
path_value(db, e) ==
    IF ~is_reference(e) THEN <<>>
    ELSE LET hits == SelectSeq(PathIds(db)[e.node],
                               LAMBDA n : is_nested(db, db.nodes[n].attr))
         IN IF hits = <<>> THEN <<>> ELSE <<db.nodes[hits[1]].data>>

Remainder(a, b) == IF a >= 0 THEN a % b ELSE -((-a) % b)

-----------------------------------------------------------------------------
(* The comparison of a clause, for attributes of the same type.             *)
Less(v, w) == v[1] * w[2] < w[1] * v[2]

compare(op, v, w) ==
    CASE op \in {"Exist", "NotExist"} -> TRUE
      [] op \in {"Equal", "NotEqual"} -> v = w
      [] op = "LessThan" -> Less(v, w)
      [] op = "GreaterThan" -> Less(w, v)
      [] op = "LessOrEqual" -> Less(v, w) \/ v = w
      [] op = "GreaterOrEqual" -> Less(w, v) \/ v = w

(* Every node on the path of a reference entry is compared.                 *)
have_match(db, e, a, c) ==
    IF is_reference(e)
    THEN \E i \in DOMAIN PathIds(db)[e.node] :
            LET n == db.nodes[PathIds(db)[e.node][i]]
            IN n.attr = a /\ compare(c.op, <<n.data>>, c.val)
    ELSE is_immediate(e) /\ e.node = a /\ compare(c.op, e.val, c.val)

Negated == {"NotExist", "NotEqual"}

clause_passes(db, rec, c) ==
    LET a == get_attribute(db, c.attr)
        match == a # Root /\ \E i \in DOMAIN rec : have_match(db, rec[i], a, c)
    IN c.op = "None" \/ (match <=> c.op \notin Negated)

pass(db, rec, clauses) ==
    \A i \in DOMAIN clauses : clause_passes(db, rec, clauses[i])

-----------------------------------------------------------------------------
(* The result of a LET operator for a record, <<>> if it has none.          *)
ratio_result(nom, dnm, scale) ==
    IF nom = <<>> \/ dnm = <<>> THEN <<>>
    ELSE IF dnm[1] = 0 THEN <<>>
    ELSE <<scale * nom[1] * dnm[2], nom[2] * dnm[1]>>

scale_result(v, scale) == IF v = <<>> THEN <<>> ELSE <<scale * v[1], v[2]>>

truncate_result(v, factor) ==
    IF v = <<>> THEN <<>> ELSE <<v[1] - Remainder(v[1], factor), 1>>

first_result(vals) ==
    LET hits == SelectSeq(vals, LAMBDA v : v # <<>>)
    IN IF hits = <<>> THEN <<>> ELSE hits[1]

sum_result(vals) ==
    LET hits == SelectSeq(vals, LAMBDA v : v # <<>>)
        sum[i \in 0..Len(hits)] == IF i = 0 THEN 0 ELSE sum[i-1] + hits[i][1]
    IN IF hits = <<>> THEN <<>> ELSE <<sum[Len(hits)], 1>>

leaf_result(db, p, rec) ==
    IF p.args = <<>>
    THEN first_result([i \in DOMAIN rec |-> path_value(db, rec[i])])
    ELSE get_value(db, p.args[1], rec)

let_result(db, p, rec) ==
    LET vals == [i \in DOMAIN p.args |-> get_value(db, p.args[i], rec)]
    IN CASE p.op = "ratio" -> ratio_result(vals[1], vals[2], p.scale)
         [] p.op = "scale" -> scale_result(vals[1], p.scale)
         [] p.op = "truncate" -> truncate_result(vals[1], p.scale)
         [] p.op = "first" -> first_result(vals)
         [] p.op = "sum" -> sum_result(vals)
         [] p.op = "leaf" -> leaf_result(db, p, rec)

(* One operator: if its condition passes and it has a result, the result    *)
(* attribute is created and an entry is added to the record.                *)
with_result(db, rec, name, val) ==
    [db |-> db, rec |-> Append(rec, [node |-> db.attrs[name], val |-> val])]

let_apply(st, p, val) ==
    IF ~pass(st.db, st.rec, p.cond) \/ val = <<>> THEN st
    ELSE with_result(create_attribute(st.db, p.res, "asvalue"), st.rec, p.res, val)

let_step(st, p) == let_apply(st, p, let_result(st.db, p, st.rec))

(* Preprocessor::process: the operators run in order, on the grown record.  *)
preprocess(db, rec, ops) ==
    FoldLeft(let_step, [db |-> db, rec |-> rec], ops)
=============================================================================
