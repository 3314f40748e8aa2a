------------------------------ MODULE MCCalQL ------------------------------
(* Queries to parse: clauses in many orders, with and without the optional  *)
(* keywords of their items, and malformed ones.                             *)
EXTENDS CalQL

W(s) == <<<<"w", s>>>>
Y(c) == <<<<c>>>>

Join(seqs) ==
    FlattenSeq([i \in DOMAIN seqs |-> IF i = 1 THEN seqs[i] ELSE Y(",") \o seqs[i]])
Call(f, args) ==
    W(f) \o (IF args = <<>> THEN <<>> ELSE Y("(") \o Join([i \in DOMAIN args |-> W(args[i])]) \o Y(")"))

(* The text of a condition, an item, a clause.                              *)
CondText(c) ==
    LET not == c.op \in {"NotEqual", "GreaterOrEqual", "LessOrEqual", "NotExist"}
        sym == CASE c.op \in {"Equal", "NotEqual"} -> Y("=")
                 [] c.op \in {"LessThan", "GreaterOrEqual"} -> Y("<")
                 [] c.op \in {"GreaterThan", "LessOrEqual"} -> Y(">")
                 [] OTHER -> <<>>
    IN (IF not THEN W("not") ELSE <<>>) \o W(c.attr)
       \o sym \o (IF sym = <<>> THEN <<>> ELSE W(c.val))

ItemText(kw, x) ==
    CASE kw = "select" ->
            (CASE x.kind = "all" -> Y("*") [] x.kind = "attr" -> W(x.name)
               [] x.kind = "aggr" -> IF x.args = <<>> THEN W(x.name) \o Y("(") \o Y(")")
                                     ELSE Call(x.name, x.args))
            \o (IF x.alias = "" THEN <<>> ELSE W("as") \o W(x.alias))
            \o (IF x.unit = "" THEN <<>> ELSE W("unit") \o W(x.unit))
      [] kw = "aggregate" -> Call(x.op, x.args)
      [] kw = "group" -> W(x)
      [] kw = "order" -> W(x.attr) \o (IF x.order = "desc" THEN W("desc") ELSE <<>>)
      [] kw = "where" -> CondText(x)
      [] kw = "let" -> W(x.target) \o Y("=") \o Call(x.op, x.args)
                       \o (IF x.cond.op = "None" THEN <<>> ELSE W("if") \o CondText(x.cond))
      [] kw = "format" ->
            W(x.name) \o (IF x.kwargs = {} THEN <<>>
                          ELSE Y("(") \o Join(SetToSeq({<<<<"w", p[2], p[1]>>>> : p \in x.kwargs})) \o Y(")"))

ClauseText(c) ==
    W(c.kw) \o (IF c.kw \in {"group", "order"} THEN W("by") ELSE <<>>)
    \o Join([i \in DOMAIN c.items |-> ItemText(c.kw, c.items[i])])

Text(ast) == FlattenSeq([i \in DOMAIN ast |-> ClauseText(ast[i])])

Cl(kw, items) == [kw |-> kw, items |-> items]
Attr(n, alias, unit) == [kind |-> "attr", name |-> n, args |-> <<>>, alias |-> alias, unit |-> unit]
Aggr(f, args, alias, unit) == [kind |-> "aggr", name |-> f, args |-> args, alias |-> alias, unit |-> unit]
StarItem == [kind |-> "all", name |-> "", args |-> <<>>, alias |-> "", unit |-> ""]
Cond(op, attr, val) == [op |-> op, attr |-> attr, val |-> val]
LetItem(t, f, args, c) == [target |-> t, op |-> f, args |-> args, cond |-> c]
Ord(a, o) == [attr |-> a, order |-> o]

Selects ==
    {Cl("select", s) : s \in
        {<<StarItem>>, <<StarItem, Aggr("count", <<>>, "n", "")>>,
         <<Attr("path", "", ""), Aggr("sum", <<"t">>, "T", "sec"), Attr("a", "A", "")>>,
         <<Aggr("inclusive_ratio", <<"t", "b", "2">>, "", "x"), Attr("a", "", "")>>}}

Lets == {Cl("let", l) : l \in
            {<<LetItem("r", "ratio", <<"t", "b">>, NoCond)>>,
             <<LetItem("r", "leaf", <<>>, Cond("LessThan", "t", "3")), LetItem("q", "first", <<"a", "b", "c">>, NoCond)>>}}

Wheres == {Cl("where", w) : w \in
            {<<Cond("Exist", "a", ""), Cond("GreaterOrEqual", "t", "5")>>,
             <<Cond("NotEqual", "a", "x")>>, <<Cond("LessOrEqual", "t", "2"), Cond("NotExist", "b", "")>>}}

Sorts == {Cl("order", s) : s \in {<<Ord("t", "asc")>>, <<Ord("a", "desc"), Ord("t", "asc")>>}}
Groups == {Cl("group", g) : g \in {<<"path">>, <<"a", "path", "b">>}}
Formats == {Cl("format", <<f>>) : f \in {[name |-> "tree", kwargs |-> {<<"column-width", "9">>}],
                                         [name |-> "expand", kwargs |-> {}]}}
Aggrs == {Cl("aggregate", <<[op |-> "scale", args |-> <<"t", "2">>]>>)}

(* The clauses that hand on a keyword come first, in the middle and last.   *)
Asts ==
    {<<s, g, f>> : s \in Selects, g \in Groups, f \in Formats}
    \cup {<<l, s, w>> : l \in Lets, s \in Selects, w \in Wheres}
    \cup {<<w, o, s>> : w \in Wheres, o \in Sorts, s \in Selects}
    \cup {<<o, l, g>> : o \in Sorts, l \in Lets, g \in Groups}
    \cup {<<f, a, w, o>> : f \in Formats, a \in Aggrs, w \in Wheres, o \in Sorts}
    \cup {<<g, l>> : g \in Groups, l \in Lets}

Good == {[toks |-> Text(a), ast |-> a, bad |-> FALSE, opts |-> <<>>] : a \in Asts}

BadToks ==
    {W("select"), W("select") \o Y(","), W("select") \o W("a") \o W("as"), W("select") \o W("a") \o W("b"),
     W("select") \o W("sum") \o Y("(") \o W("a"), W("select") \o W("sum") \o Y("(") \o Y(")"),
     W("group") \o W("a"), W("order") \o W("by"), W("where") \o W("a") \o Y("="), W("where") \o W("not"),
     W("let") \o W("x") \o W("y"), W("let") \o W("x") \o Y("=") \o W("foo"),
     W("let") \o W("x") \o Y("=") \o W("leaf") \o Y(",") \o W("x") \o Y("=") \o W("leaf"),
     W("format") \o W("xml"), W("format") \o W("format"), W("aggregate") \o W("a"), W("where") \o W("a") \o Y(")"),
     W("let") \o W("x") \o Y("=") \o W("leaf") \o W("if") \o Y("=")}

Bad == {[toks |-> t, ast |-> <<>>, bad |-> TRUE, opts |-> <<>>] : t \in BadToks}

Sel(neg, attr, c, val) == [neg |-> neg, attr |-> attr, c |-> c, val |-> val]
OptA == [o \in {"select", "attributes", "sort"} |->
            CASE o = "select" -> <<Sel(FALSE, "a", "=", "x"), Sel(TRUE, "b", "", ""), Sel(FALSE, "", "", "")>>
              [] o = "attributes" -> <<"c", "d">> [] o = "sort" -> <<"d">>]
OptB == [o \in {"aggregate", "aggregate-key", "formatter"} |->
            CASE o = "aggregate" -> <<[op |-> "sum", args |-> <<"t">>], [op |-> "nope", args |-> <<>>]>>
              [] o = "aggregate-key" -> <<"a", "path">>
              [] o = "formatter" -> [name |-> "tree", kwargs |-> {<<"column-width", "5">>}]]
OptC == [o \in {"aggregate", "aggregate-key", "formatter"} |->
            CASE o = "aggregate" -> <<>> [] o = "aggregate-key" -> <<"none">>
              [] o = "formatter" -> [name |-> "format", kwargs |-> {}]]
OptD == [o \in {"aggregate"} |-> <<>>]

Optioned ==
    {[toks |-> Text(a), ast |-> a, bad |-> o = OptC, opts |-> o] :
        a \in {<<>>, <<CHOOSE w \in Wheres : TRUE>>, <<Cl("order", <<Ord("t", "desc")>>)>>},
        o \in {OptA, OptB, OptC, OptD}}

TextsDef == Good \cup Bad \cup Optioned
=============================================================================
