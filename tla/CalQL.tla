------------------------------- MODULE CalQL -------------------------------
(***************************************************************************)
(* The parser of query expressions, src/src/reader/CalQLParser.cpp.  A text *)
(* is a sequence of tokens (module Tokens); keywords are in lower case.     *)
(*                                                                          *)
(* The parser keeps one clause open (ql_clause) and reads one item of its   *)
(* list per step.  A clause whose items have optional keywords may read the *)
(* keyword of the next clause too early and hands it on (ql_kw).            *)
(***************************************************************************)
EXTENDS Tokens, Integers, SequencesExt, FiniteSetsExt

CONSTANT Texts      \* what is parsed: [toks, ast, bad], and the command line's
                    \* options, a function from the names of those that are set

VARIABLES ql_text, ql_in, ql_clause, ql_kw, ql_spec, ql_error

qlVars == <<ql_text, ql_in, ql_clause, ql_kw, ql_spec, ql_error>>

(* The signatures of the functions: Aggregator::aggregation_defs,           *)
(* Preprocessor::preprocess_defs and FormatProcessor::formatter_defs.       *)
Sig(min, max, args) == [min |-> min, max |-> max, args |-> args]

aggregation_defs(f) ==
    CASE f = "count" -> Sig(0, 0, <<>>)
      [] f = "scale_count" -> Sig(1, 1, <<"scale">>)
      [] f \in {"ratio", "inclusive_ratio"} -> Sig(2, 3, <<"numerator", "denominator", "scale">>)
      [] f \in {"scale", "inclusive_scale"} -> Sig(2, 2, <<"attribute", "scale">>)
      [] f \in {"sum", "percent_total", "inclusive_sum", "min", "max", "avg", "any", "variance",
                "inclusive_percent_total", "inclusive_min", "inclusive_max"} ->
            Sig(1, 1, <<"attribute">>)
      [] OTHER -> Sig(1, 0, <<>>)

preprocess_defs(f) ==
    CASE f = "ratio" -> Sig(2, 3, <<"numerator", "denominator", "scale">>)
      [] f = "scale" -> Sig(2, 2, <<"attribute", "scale">>)
      [] f = "truncate" -> Sig(1, 2, <<"attribute", "scale">>)
      [] f \in {"first", "sum"} -> Sig(1, 8, <<"attribute0", "attribute1">>)
      [] f = "leaf" -> Sig(0, 1, <<"attribute", "scale">>)
      [] OTHER -> Sig(1, 0, <<>>)

formatter_defs(f) ==
    CASE f \in {"cali", "csv", "expand", "json-split"} -> Sig(0, 0, <<>>)
      [] f = "json" -> Sig(0, 6, <<"object", "pretty", "quote-all", "separate-nested", "records", "split">>)
      [] f = "format" -> Sig(1, 2, <<"format", "title">>)
      [] f = "table" -> Sig(0, 1, <<"column-width", "print-globals">>)
      [] f = "tree" -> Sig(0, 2, <<"path-attributes", "column-width", "print-globals">>)
      [] OTHER -> Sig(1, 0, <<>>)

Fits(sig, args) == sig.min <= Len(args) /\ Len(args) <= sig.max

-----------------------------------------------------------------------------
(* "(arg1, arg2, ...)" or nothing.  Empty arguments are left out.           *)
parse_arglist(in) ==
    LET stops == {i \in 2..Len(in) : \/ in[i][1] \notin {"w", ","}
                                     \/ in[i][1] = "w" /\ in[i-1][1] = "w"}
        end == Min(stops \cup {Len(in) + 1})
    IN IF read_char(in) # "(" THEN [ok |-> TRUE, args |-> <<>>, in |-> in]
       ELSE IF end <= Len(in) /\ in[end] = <<")">>
       THEN [ok |-> TRUE, args |-> SelectSeq(SubSeq(in, 2, end - 1), LAMBDA t : t[1] = "w"),
             in |-> SubSeq(in, end + 1, Len(in))]
       ELSE [ok |-> FALSE, args |-> <<>>, in |-> SubSeq(in, end, Len(in))]

Words(args) == [i \in DOMAIN args |-> args[i][2]]

(* A flag, a positional or a keyword argument of a formatter.               *)
make_kwarg(sig, args, i) ==
    IF Len(args[i]) = 3 THEN <<args[i][3], args[i][2]>>
    ELSE IF Contains(sig.args, args[i][2]) THEN <<args[i][2], "true">>
    ELSE <<sig.args[i], args[i][2]>>

make_kwargs(sig, args) ==
    [ok |-> \A i \in DOMAIN args : Len(args[i]) = 3 => Contains(sig.args, args[i][3]),
     map |-> {make_kwarg(sig, args, i) : i \in DOMAIN args}]

(* The first occurrence of each keyword leaves the list.                    *)
Erase(list, w) ==
    LET at == {i \in DOMAIN list : list[i] = w}
    IN IF at = {} THEN list ELSE RemoveAt(list, Min(at))

extract_path_keyword(list) ==
    [path |-> Contains(list, "path") \/ Contains(list, "prop:nested"),
     list |-> Erase(Erase(list, "path"), "prop:nested")]

(* Mutation: NOT a < b is taken for a > b.                                  *)
parse_filter_clause_strict(in) ==
    LET neg == read_word(in) = "not"
        i1 == IF neg THEN Tail(in) ELSE in
        c == read_char(SkipWord(i1))
        compares == c \in {"=", "<", ">"}
        op == CASE c = "=" -> IF neg THEN "NotEqual" ELSE "Equal"
                [] c = "<" -> IF neg THEN "GreaterThan" ELSE "LessThan"
                [] c = ">" -> IF neg THEN "LessThan" ELSE "GreaterThan"
                [] OTHER -> IF neg THEN "NotExist" ELSE "Exist"
        rest == Skip(SkipWord(i1))
    IN [ok |-> read_word(i1) # "" /\ (compares => read_word(rest) # ""),
        cond |-> [op |-> op, attr |-> read_word(i1), val |-> IF compares THEN read_word(rest) ELSE ""],
        in |-> IF compares THEN SkipWord(rest) ELSE SkipWord(i1)]
(* Condition: [NOT] attribute [(=|<|>) value].                              *)
parse_filter_clause(in) ==
    LET neg == read_word(in) = "not"
        i1 == IF neg THEN Tail(in) ELSE in
        attr == read_word(i1)
        i2 == SkipWord(i1)
        c == read_char(i2)
        val == read_word(Skip(i2))
        op == CASE c = "=" -> IF neg THEN "NotEqual" ELSE "Equal"
                [] c = "<" -> IF neg THEN "GreaterOrEqual" ELSE "LessThan"
                [] c = ">" -> IF neg THEN "LessOrEqual" ELSE "GreaterThan"
                [] OTHER -> IF neg THEN "NotExist" ELSE "Exist"
        compares == c \in {"=", "<", ">"}
    IN [ok |-> attr # "" /\ (compares => val # ""),
        cond |-> [op |-> op, attr |-> attr, val |-> IF compares THEN val ELSE ""],
        in |-> IF compares THEN SkipWord(Skip(i2)) ELSE i2]

-----------------------------------------------------------------------------
EmptySpec ==
    [aggregate |-> <<>>, groupby |-> [sel |-> "default", list |-> <<>>, path |-> FALSE],
     select |-> [sel |-> "default", list |-> <<>>, path |-> FALSE], aliases |-> {}, units |-> {},
     sort |-> <<>>, filter |-> <<>>, let |-> <<>>, format |-> [name |-> "", kwargs |-> {}]]

CalQLInit ==
    /\ ql_text = [toks |-> <<>>, ast |-> <<>>, bad |-> FALSE, opts |-> <<>>]
    /\ ql_in = <<>> /\ ql_clause = "start" /\ ql_kw = ""
    /\ ql_spec = EmptySpec /\ ql_error = FALSE

CalQLParser ==
    /\ ql_clause = "start"
    /\ \E x \in Texts : ql_text' = x /\ ql_in' = x.toks
    /\ ql_clause' = "none"
    /\ UNCHANGED <<ql_kw, ql_spec, ql_error>>

set_error ==
    /\ ql_error' = TRUE /\ ql_clause' = "end"
    /\ UNCHANGED <<ql_text, ql_in, ql_kw, ql_spec>>

(* The end of an item: "," continues the list.  kw is a word that was read  *)
(* and does not belong to the item.                                         *)
EndItem(in, kw, spec) ==
    /\ ql_spec' = spec /\ ql_kw' = kw
    /\ ql_in' = IF kw = "" /\ read_char(in) = "," THEN Tail(in) ELSE in
    /\ ql_clause' = IF kw = "" /\ read_char(in) = "," THEN ql_clause ELSE "none"
    /\ UNCHANGED <<ql_text, ql_error>>

Clauses == {"aggregate", "format", "group", "select", "order", "where", "let"}

(* parse and parse_clause_from_word: the keyword of the next clause, which  *)
(* the clause before may have read.                                         *)
parse_clause_from_word ==
    LET w == IF ql_kw # "" THEN ql_kw ELSE read_word(ql_in)
        in1 == IF ql_kw # "" THEN ql_in ELSE SkipWord(ql_in)
        by == w \in {"group", "order"}
    IN /\ ql_clause = "none" /\ w # ""
       /\ IF w \notin Clauses \/ (by /\ read_word(in1) # "by") THEN set_error
          ELSE /\ ql_clause' = w /\ ql_kw' = ""
               /\ ql_in' = IF by THEN SkipWord(in1) ELSE in1
               /\ UNCHANGED <<ql_text, ql_spec, ql_error>>

(* No word is left: anything else is an error.                              *)
parse_end ==
    /\ ql_clause = "none" /\ ql_kw = "" /\ read_word(ql_in) = ""
    /\ IF ql_in # <<>> THEN set_error
       ELSE /\ ql_clause' = "options"
            /\ UNCHANGED <<ql_text, ql_in, ql_kw, ql_spec, ql_error>>

parse_aggregate ==
    LET f == read_word(ql_in)
        a == parse_arglist(SkipWord(ql_in))
    IN /\ ql_clause = "aggregate"
       /\ IF ~a.ok \/ ~Fits(aggregation_defs(f), a.args) THEN set_error
          ELSE EndItem(a.in, "", [ql_spec EXCEPT !.aggregate =
                                    Append(@, [op |-> f, args |-> Words(a.args)])])

parse_format ==
    LET f == read_word(ql_in)
        sig == formatter_defs(f)
        a == parse_arglist(SkipWord(ql_in))
        kw == make_kwargs(sig, a.args)
    IN /\ ql_clause = "format"
       /\ IF ~a.ok \/ ~Fits(sig, a.args) \/ ~kw.ok THEN set_error
          ELSE /\ ql_spec' = [ql_spec EXCEPT !.format = [name |-> f, kwargs |-> kw.map]]
               /\ ql_in' = a.in /\ ql_clause' = "none"
               /\ UNCHANGED <<ql_text, ql_kw, ql_error>>

(* An empty item is skipped.  The keyword "path" leaves the list when the   *)
(* clause ends.                                                             *)
parse_groupby ==
    LET w == read_word(ql_in)
        in == SkipWord(ql_in)
        list == IF w = "" THEN ql_spec.groupby.list ELSE Append(ql_spec.groupby.list, w)
        last == extract_path_keyword(list)
    IN /\ ql_clause = "group"
       /\ EndItem(in, "", [ql_spec EXCEPT !.groupby =
              [sel |-> IF w = "" THEN @.sel ELSE "list",
               list |-> IF read_char(in) = "," THEN list ELSE last.list,
               path |-> IF read_char(in) = "," THEN @.path ELSE last.path]])

(* The name of the attribute of an aggregation in the output.               *)
ResultPrefix(op) ==
    CASE op = "inclusive_sum" -> "inclusive#" [] op = "inclusive_scale" -> "iscale#"
      [] op = "inclusive_percent_total" -> "ipercent_total#" [] op = "inclusive_ratio" -> "iratio#"
      [] op = "inclusive_min" -> "imin#" [] op = "inclusive_max" -> "imax#" [] OTHER -> op \o "#"

result_name(op, args) ==
    CASE op = "count" -> "count"
      [] op = "scale_count" -> "scount"
      [] op \in {"ratio", "inclusive_ratio"} -> ResultPrefix(op) \o args[1] \o "/" \o args[2]
      [] OTHER -> ResultPrefix(op) \o args[1]

(* What a selection is: *, an aggregation, or an attribute.                 *)
SelectOne(in) ==
    LET w == read_word(in)
        a == parse_arglist(SkipWord(in))
    IN IF read_char(in) = "*" THEN [kind |-> "all", ok |-> TRUE, name |-> "", args |-> <<>>, in |-> Tail(in)]
       ELSE IF read_char(SkipWord(in)) = "("
       THEN [kind |-> "aggr", ok |-> a.ok /\ Fits(aggregation_defs(w), a.args), name |-> w,
             args |-> Words(a.args), in |-> a.in]
       ELSE [kind |-> "attr", ok |-> w # "", name |-> w, args |-> <<>>, in |-> SkipWord(in)]

(* The optional AS alias and UNIT unit after it.                            *)
Labels(in) ==
    LET as == read_word(in) = "as"
        i1 == IF as THEN SkipWord(Tail(in)) ELSE in
        unit == read_word(i1) = "unit"
        i2 == IF unit THEN SkipWord(Tail(i1)) ELSE i1
    IN [ok |-> (as => read_word(Tail(in)) # "") /\ (unit => read_word(Tail(i1)) # ""),
        alias |-> IF as THEN {read_word(Tail(in))} ELSE {},
        unit |-> IF unit THEN {read_word(Tail(i1))} ELSE {},
        kw |-> read_word(i2), in |-> SkipWord(i2)]

parse_select ==
    LET s == SelectOne(ql_in)
        l == Labels(s.in)
        sel == ql_spec.select
        name == IF s.kind = "aggr" THEN result_name(s.name, s.args) ELSE s.name
        keep == s.kind = "all" \/ (s.kind = "aggr" /\ sel.sel = "all")
        list == IF keep THEN sel.list ELSE Append(sel.list, name)
        goes_on == l.kw = "" /\ read_char(l.in) = ","
        last == extract_path_keyword(list)
    IN /\ ql_clause = "select"
       /\ IF ~s.ok \/ ~l.ok THEN set_error
          ELSE EndItem(l.in, l.kw,
                [ql_spec EXCEPT
                    !.aggregate = IF s.kind = "aggr" THEN Append(@, [op |-> s.name, args |-> s.args]) ELSE @,
                    !.select = [sel |-> IF keep THEN "all" ELSE "list",
                                list |-> IF goes_on THEN list ELSE last.list,
                                path |-> IF goes_on THEN sel.path ELSE last.path],
                    !.aliases = {p \in @ : l.alias = {} \/ p[1] # name} \cup {<<name, x>> : x \in l.alias},
                    !.units = {p \in @ : l.unit = {} \/ p[1] # name} \cup {<<name, x>> : x \in l.unit}])

parse_sort ==
    LET attr == read_word(ql_in)
        i1 == SkipWord(ql_in)
        w == read_word(i1)
        order == IF w = "desc" THEN "desc" ELSE "asc"
    IN /\ ql_clause = "order"
       /\ IF attr = "" THEN set_error
          ELSE EndItem(SkipWord(i1), IF w \in {"asc", "desc"} THEN "" ELSE w,
                       [ql_spec EXCEPT !.sort = Append(@, [attr |-> attr, order |-> order])])

parse_where ==
    LET c == parse_filter_clause(ql_in)
    IN /\ ql_clause = "where"
       /\ IF ~c.ok THEN set_error
          ELSE EndItem(c.in, "", [ql_spec EXCEPT !.filter = Append(@, c.cond)])

NoCond == [op |-> "None", attr |-> "", val |-> ""]

(* target = operator(arguments) [IF condition]                              *)
parse_let ==
    LET target == read_word(ql_in)
        i1 == SkipWord(ql_in)
        f == read_word(Skip(i1))
        a == parse_arglist(SkipWord(Skip(i1)))
        w == read_word(a.in)
        c == parse_filter_clause(SkipWord(a.in))
        twice == \E i \in DOMAIN ql_spec.let : ql_spec.let[i].target = target
        cond == IF w = "if" THEN c.cond ELSE NoCond
    IN /\ ql_clause = "let"
       /\ IF \/ read_char(i1) # "=" \/ ~a.ok \/ ~Fits(preprocess_defs(f), a.args) \/ twice
             \/ (w = "if" /\ ~c.ok)
          THEN set_error
          ELSE EndItem(IF w = "if" THEN c.in ELSE SkipWord(a.in), IF w = "if" THEN "" ELSE w,
                       [ql_spec EXCEPT !.let = Append(@, [target |-> target, op |-> f,
                                                          args |-> Words(a.args), cond |-> cond])])

(* RecordSelector::parse_clause: [-]attribute[(<>=)value] of the option     *)
(* "select".  Only = compares.                                              *)
selector_clause(x) ==
    [op |-> IF x.attr = "" \/ (x.c # "" /\ x.val = "") THEN "None"
            ELSE IF x.c = "=" THEN IF x.neg THEN "NotEqual" ELSE "Equal"
            ELSE IF x.neg THEN "NotExist" ELSE "Exist",
     attr |-> x.attr, val |-> x.val]

RecordSelector_parse(list) ==
    SelectSeq([i \in DOMAIN list |-> selector_clause(list[i])], LAMBDA c : c.op # "None")

(* parse_functioncall: calls that do not fit their definition are skipped.  *)
parse_functioncalls(list) == SelectSeq(list, LAMBDA f : Fits(aggregation_defs(f.op), f.args))

is_set(o) == o \in DOMAIN ql_text.opts

(* The option "aggregate" without functions asks for the default, a count.  *)
aggregate_option(list) ==
    IF ql_text.opts["aggregate"] = <<>> THEN <<[op |-> "count", args |-> <<>>]>>
    ELSE list \o parse_functioncalls(ql_text.opts["aggregate"])

aggregate_key_option(g) ==
    IF ~is_set("aggregate-key") THEN [g EXCEPT !.sel = "default"]
    ELSE LET none == ql_text.opts["aggregate-key"] = <<"none">>
             keys == extract_path_keyword(g.list \o IF none THEN <<>> ELSE ql_text.opts["aggregate-key"])
         IN [sel |-> IF none THEN "none" ELSE "list", list |-> keys.list, path |-> keys.path]

(* A keyword of the command line replaces that of the query.                *)
formatter_option(f) ==
    LET o == ql_text.opts["formatter"]
    IN [name |-> o.name,
        kwargs |-> {p \in f.kwargs : \A q \in o.kwargs : q[1] # p[1]} \cup o.kwargs]

(* QueryArgsParser::parse_args of query_common.cpp: the options of the      *)
(* command line extend or replace what the query says.                      *)
parse_args ==
    LET opts == ql_text.opts
        format == IF is_set("formatter") THEN formatter_option(ql_spec.format) ELSE ql_spec.format
    IN /\ ql_clause = "options"
       /\ ql_spec' =
            [ql_spec EXCEPT
               !.filter = IF is_set("select") THEN RecordSelector_parse(opts["select"]) ELSE @,
               !.select = IF is_set("attributes")
                          THEN [@ EXCEPT !.sel = "list", !.list = @ \o opts["attributes"]] ELSE @,
               !.aggregate = IF is_set("aggregate") THEN aggregate_option(@) ELSE @,
               !.groupby = IF is_set("aggregate") THEN aggregate_key_option(@) ELSE @,
               !.sort = IF is_set("sort")
                        THEN @ \o [i \in DOMAIN opts["sort"] |-> [attr |-> opts["sort"][i], order |-> "asc"]]
                        ELSE @,
               !.format = format]
       /\ ql_error' = (is_set("formatter") /\ Cardinality(format.kwargs) < formatter_defs(format.name).min)
       /\ ql_clause' = "end"
       /\ UNCHANGED <<ql_text, ql_in, ql_kw>>

CalQLNext ==
    \/ CalQLParser \/ parse_clause_from_word \/ parse_end \/ parse_args
    \/ parse_aggregate \/ parse_format \/ parse_groupby \/ parse_select
    \/ parse_sort \/ parse_where \/ parse_let

-----------------------------------------------------------------------------
(* What a query says, clause by clause: a list of [kw, items] in the order  *)
(* in which its clauses are written.                                        *)
ItemsOf(ast, kw) == FlattenSeq([i \in DOMAIN ast |-> IF ast[i].kw = kw THEN ast[i].items ELSE <<>>])

Shown(item) == IF item.args = <<>> /\ item.kind = "attr" THEN item.name ELSE result_name(item.name, item.args)

Star(ast) == \E i \in DOMAIN ItemsOf(ast, "select") : ItemsOf(ast, "select")[i].kind = "all"

Meant(ast) ==
    LET sel == ItemsOf(ast, "select")
        aggr == SelectSeq(sel, LAMBDA x : x.kind = "aggr")
        plain == SelectSeq(sel, LAMBDA x : x.kind # "all" /\ x.name # "path")
        keys == ItemsOf(ast, "group")
        fmt == ItemsOf(ast, "format")
        op(x) == [op |-> x.name, args |-> x.args]
    IN [aggregate |-> FlattenSeq([i \in DOMAIN ast |->
            IF ast[i].kw = "aggregate" THEN ast[i].items
            ELSE IF ast[i].kw = "select" THEN [j \in DOMAIN aggr |-> op(aggr[j])] ELSE <<>>]),
        groupby |-> [sel |-> IF keys = <<>> THEN "default" ELSE "list",
                     list |-> SelectSeq(keys, LAMBDA x : x # "path"), path |-> Contains(keys, "path")],
        select |-> [sel |-> IF Star(ast) THEN "all" ELSE IF sel = <<>> THEN "default" ELSE "list",
                    list |-> IF Star(ast) THEN <<>> ELSE [i \in DOMAIN plain |-> Shown(plain[i])],
                    path |-> \E i \in DOMAIN sel : sel[i].kind = "attr" /\ sel[i].name = "path"],
        aliases |-> {<<Shown(sel[i]), sel[i].alias>> : i \in {j \in DOMAIN sel : sel[j].alias # ""}},
        units |-> {<<Shown(sel[i]), sel[i].unit>> : i \in {j \in DOMAIN sel : sel[j].unit # ""}},
        sort |-> ItemsOf(ast, "order"), filter |-> ItemsOf(ast, "where"), let |-> ItemsOf(ast, "let"),
        format |-> IF fmt = <<>> THEN EmptySpec.format ELSE fmt[1]]

(* What the options say wins over the query, and what they do not mention   *)
(* stays.                                                                   *)
Overridden(want, opts, got) ==
    /\ \A f \in {<<"select", "filter">>, <<"attributes", "select">>, <<"aggregate", "aggregate">>,
                  <<"aggregate", "groupby">>, <<"sort", "sort">>, <<"formatter", "format">>} :
            f[1] \notin DOMAIN opts => got[f[2]] = want[f[2]]
    /\ \A o \in {"attributes"} \cap DOMAIN opts : IsSuffix(opts[o], got.select.list) /\ got.select.sel = "list"
    /\ \A o \in {"sort"} \cap DOMAIN opts : IsPrefix(want.sort, got.sort) /\ Len(got.sort) > Len(want.sort)
    /\ \A o \in {"formatter"} \cap DOMAIN opts :
            got.format.name = opts[o].name /\ opts[o].kwargs \subseteq got.format.kwargs

(* The parser of CalQLParser.cpp reads what the query says: whatever the    *)
(* order of its clauses and the keywords an item leaves to the next clause, *)
(* it ends with the specification the text means, or with an error exactly  *)
(* when the text is malformed.                                              *)
ParseExact ==
    ql_clause = "end" =>
        /\ ql_error <=> ql_text.bad
        /\ ~ql_error /\ ql_text.opts = <<>> => ql_spec = Meant(ql_text.ast)
        /\ ~ql_error => Overridden(Meant(ql_text.ast), ql_text.opts, ql_spec)

=============================================================================
