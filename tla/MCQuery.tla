------------------------------ MODULE MCQuery ------------------------------
(* Small instances of Query: two streams with different node ids, written   *)
(* from two databases.                                                      *)
EXTENDS QueryMeaning

Props == [function |-> "nested", loop |-> "nested", rank |-> "plain", time |-> "asvalue",
          bytes |-> "asvalue", iter |-> "asvalue", run |-> "global"]


(* A database in which the attributes have been created in the given order, *)
(* and the paths of the records after them.                                 *)
SourcePath(d, p) ==
    make_tree_entry(d, [i \in DOMAIN p |-> <<d.attrs[p[i][1]], p[i][2]>>], Root)

WithGlobals(d, globals) ==
    [d EXCEPT !.globals = [i \in DOMAIN globals |-> Ref(SourcePath(d, globals[i]).id)]]

SourceDB(attrs, recs, globals) ==
    WithGlobals(FoldLeft(LAMBDA d, p : SourcePath(d, p).db,
                         FoldLeft(LAMBDA d, n : create_attribute(d, n, Props[n]),
                                  setup_bootstrap_nodes, attrs),
                         FlattenSeq([i \in DOMAIN recs |-> recs[i].paths]) \o globals),
                globals)

SourceRec(d, r) ==
    [i \in DOMAIN r.paths |-> Ref(SourcePath(d, r.paths[i]).id)]
    \o [i \in DOMAIN r.imms |-> [node |-> d.attrs[r.imms[i][1]], val |-> r.imms[i][2]]]

(* The stream a CaliWriter makes of them with one thread.                   *)
SourceStream(d, recs) ==
    LET grown(acc, ids, r) ==
            [ids |-> ids,
             s |-> acc.s \o [i \in 1..(Len(ids) - Len(acc.ids)) |->
                                NodeRecord(d, ids[Len(acc.ids) + i])]
                         \o <<SnapshotRecord(r.kind, r.rec)>>]
        add(acc, r) ==
            grown(acc, FoldLeft(LAMBDA a, e : recursive_append_path(d, e.node, a), acc.ids, r.rec), r)
    IN FoldLeft(add, [ids |-> <<1, 2>>, s |-> <<>>], recs).s

Written(d, attrs, abs, recs) ==
    [src |-> d, recs |-> recs, abs |-> abs, names |-> {attrs[i] : i \in DOMAIN attrs},
     stream |-> SourceStream(d, [i \in DOMAIN recs |-> [kind |-> "ctx", rec |-> recs[i]]]
                                \o <<[kind |-> "globals", rec |-> d.globals]>>)]

FileOf(d, attrs, abs) == Written(d, attrs, abs, [i \in DOMAIN abs |-> SourceRec(d, abs[i])])

File(attrs, abs, globals) == FileOf(SourceDB(attrs, abs, globals), attrs, abs)

Rec(path, time) == [paths |-> <<path>>, imms |-> <<<<"time", <<time, 1>>>>>>]
RecB(path, time, bytes) ==
    [paths |-> <<path>>, imms |-> <<<<"time", <<time, 1>>>>, <<"bytes", <<bytes, 1>>>>>>]
RecI(path, rank, iter, time) ==
    [paths |-> <<path, <<<<"rank", rank>>>>>>,
     imms |-> <<<<"iter", <<iter, 1>>>>, <<"time", <<time, 1>>>>>>]

F(s) == <<"function", s>>
L(s) == <<"loop", s>>

(* Nested regions, two attributes, a record without the target attribute.   *)
FileA == File(<<"function", "loop", "time", "bytes", "run">>,
              <<RecB(<<F("main"), F("foo")>>, 3, 2), Rec(<<F("main")>>, 1),
                [paths |-> <<<<F("main"), L("l")>>>>, imms |-> <<>>]>>, <<>>)

FileB == File(<<"bytes", "time", "loop", "function", "run">>,
              <<RecB(<<F("main"), L("l"), F("foo")>>, 4, 5), Rec(<<F("main"), F("foo")>>, 2)>>,
              <<>>)

K(op, tgt, tgt2, scale) == [op |-> op, tgt |-> tgt, tgt2 |-> tgt2, scale |-> scale]
K1(op) == K(op, "time", "bytes", 2)

ByPath == [all |-> FALSE, use_path |-> TRUE, list |-> <<>>]
By(names) == [all |-> FALSE, use_path |-> FALSE, list |-> names]
ByAll == [all |-> TRUE, use_path |-> FALSE, list |-> <<>>]

All == [all |-> TRUE, path |-> FALSE, list |-> <<>>]
Sel(names, path) == [all |-> FALSE, path |-> path, list |-> names]

Fmt(name, args, select, sort) ==
    [name |-> name, args |-> args, select |-> select, sort |-> sort,
     aliases |-> [n \in {"bytes"} |-> "Bytes"]]
Asc(n) == [attr |-> n, order |-> "asc"]
Desc(n) == [attr |-> n, order |-> "desc"]

Table == Fmt("table", <<>>, All, <<>>)
Cali == Fmt("cali", <<>>, All, <<>>)

Q(aggrs, groupby, let, where, format) ==
    [aggr |-> aggrs, groupby |-> groupby, let |-> let, where |-> where, format |-> format]

AllOps == <<"count", "sum", "min", "max", "avg", "percent_total", "ratio", "inclusive_sum",
            "scale", "inclusive_scale", "inclusive_percent_total", "any", "scale_count",
            "inclusive_ratio", "inclusive_min", "inclusive_max", "variance">>

(* Every kernel in every mode with one reader or one per rank.              *)
KernelCases ==
    {[mode |-> m, query |-> Q(<<K1(AllOps[i])>>, ByPath, <<>>, <<>>, Table), input |-> f] :
        i \in DOMAIN AllOps, m \in {"query", "report"}, f \in {<<FileA>>}}
    \cup
    {[mode |-> "mpi", query |-> Q(<<K1(AllOps[i])>>, ByPath, <<>>, <<>>, Table),
      input |-> <<FileA, FileB>>] : i \in DOMAIN AllOps}

(* A clause and an operator of each kind.                                   *)
C(op, attr, val) == [op |-> op, attr |-> attr, val |-> val]
P(op, args, scale) == [op |-> op, res |-> "r", args |-> args, scale |-> scale, cond |-> <<>>]

Lets ==
    {P("scale", <<"time">>, 3), P("truncate", <<"iter">>, 2), P("first", <<"bytes", "time">>, 1),
     P("sum", <<"iter", "time">>, 1)}

Wheres ==
    {C("Exist", "bytes", <<>>), C("NotExist", "bytes", <<>>), C("Equal", "function", <<"foo">>),
     C("NotEqual", "function", <<"foo">>), C("LessThan", "time", <<2, 1>>),
     C("LessOrEqual", "time", <<2, 1>>), C("GreaterThan", "time", <<2, 1>>),
     C("GreaterOrEqual", "time", <<2, 1>>)}

FileC == File(<<"iter", "function", "rank", "time", "run">>,
              <<RecI(<<F("main"), F("foo")>>, "0", 1, 3), RecI(<<F("main")>>, "1", 3, 1),
                RecI(<<F("main"), F("foo")>>, "1", 3, 2)>>, <<<<<<"run", "a">>>>>>)

FileD == File(<<"run", "time", "iter", "rank", "function">>,
              <<RecI(<<F("main"), F("foo")>>, "0", 3, 4), RecI(<<F("main"), F("foo")>>, "0", 3, 1)>>,
              <<<<<<"run", "b">>>>>>)

Count == <<K("count", "", "", 1)>>
SumOf1(a) == <<K("sum", a, "", 1)>>

Keys == {By(<<"function">>), By(<<"rank">>), By(<<"iter">>), By(<<"rank", "iter", "function">>),
         By(<<"r">>), By(<<"missing">>), ByAll, ByPath}

StageCases ==
    {[mode |-> m, query |-> Q(SumOf1("r"), ByPath, <<l>>, <<>>, Table), input |-> <<FileC>>] :
        m \in {"query", "report"}, l \in Lets}
    \cup
    {[mode |-> "query", query |-> Q(Count, ByPath, <<>>, <<w, C("Exist", "function", <<>>)>>, Table),
      input |-> <<FileA>>] : w \in Wheres}
    \cup
    {[mode |-> "query", query |-> Q(Count \o SumOf1("time"), k, <<P("leaf", <<"function">>, 1)>>,
                                   <<C("NotEqual", "r", <<"main">>)>>, Table),
      input |-> <<FileC>>] : k \in Keys}
    \cup
    {[mode |-> "mpi", query |-> Q(Count \o SumOf1("time"), k, <<>>, <<>>, Cali),
      input |-> <<FileC, FileD>>] : k \in Keys}

(* Records that are written as they are, with a ratio or a condition.       *)
WriteCases ==
    {[mode |-> m, query |-> Q(<<>>, ByPath, <<l>>, <<>>, Cali), input |-> <<FileA>>] :
        m \in {"query", "report"},
        l \in {P("ratio", <<"time", "bytes">>, 2),
               [P("leaf", <<>>, 1) EXCEPT !.cond = <<C("Exist", "bytes", <<>>)>>]}}

(* Every formatter, with selections, sort criteria and aliases.             *)
FormatCases ==
    {[mode |-> "query", query |-> Q(<<>>, ByAll, <<>>, <<>>, f), input |-> <<i>>] :
        i \in {FileA, FileC},
        f \in {Table, Fmt("table", <<>>, Sel(<<"function", "bytes", "iter">>, FALSE), <<Asc("bytes")>>),
               Fmt("table", <<>>, All, <<Desc("time"), Asc("iter")>>),
               Fmt("tree", <<>>, All, <<>>), Fmt("tree", <<>>, Sel(<<"time">>, FALSE), <<Desc("time")>>),
               Fmt("tree", <<"rank", "function">>, All, <<Asc("iter")>>),
               Fmt("json-split", <<>>, All, <<>>), Fmt("json-split", <<>>, Sel(<<"time", "rank">>, TRUE), <<>>),
               Fmt("json", <<>>, All, <<>>), Fmt("json", <<>>, Sel(<<"function", "iter", "bytes">>, FALSE), <<>>),
               Fmt("expand", <<>>, All, <<>>), Fmt("expand", <<>>, Sel(<<"loop", "time">>, FALSE), <<>>),
               Fmt("format", <<"function", "iter", "missing">>, All, <<>>)}}
    \cup
    {[mode |-> "query", query |-> Q(Count \o SumOf1("time"), ByPath, <<>>, <<>>, f), input |-> <<FileA>>] :
        f \in {Fmt("tree", <<>>, All, <<Desc("sum#time")>>), Fmt("json-split", <<>>, All, <<>>)}}

(* Two reader threads, with the attributes in different order.              *)
FileE == File(<<"function", "time">>, <<Rec(<<F("main")>>, 1)>>, <<>>)
FileF == File(<<"time", "function">>, <<Rec(<<F("main")>>, 2)>>, <<>>)

ThreadCases ==
    {[mode |-> "query", query |-> q, input |-> <<FileE, FileF>>] :
        q \in {Q(Count, ByPath, <<>>, <<>>, Table), Q(<<>>, ByPath, <<>>, <<>>, Table),
              Q(<<>>, ByPath, <<>>, <<>>, Cali)}}

CasesDef == KernelCases \cup StageCases \cup WriteCases \cup FormatCases \cup ThreadCases

=============================================================================
