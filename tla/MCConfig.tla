------------------------------ MODULE MCConfig ------------------------------
(* Configuration strings: every option of every configuration by itself, a  *)
(* few that interact over several calls, and malformed ones.                *)
EXTENDS ConfigManager

CONSTANT Single       \* strings with one option each

W(s) == <<<<"w", s>>>>
Y(c) == <<<<c>>>>

(* An argument <<k, v>> is written k or k=v.                                *)
ArgText(a) == W(a[1]) \o (IF a[2] = "true" THEN <<>> ELSE Y("=") \o W(a[2]))
Commas(seqs) ==
    FlattenSeq([i \in DOMAIN seqs |-> IF i = 1 THEN seqs[i] ELSE Y(",") \o seqs[i]])
Args(args) ==
    IF args = <<>> THEN <<>>
    ELSE Y("(") \o Commas([i \in DOMAIN args |-> ArgText(args[i])]) \o Y(")")

Cfg(name, args) == [kind |-> "config", name |-> name, args |-> args]
Default(k, v) == [kind |-> "option", name |-> k, args |-> <<<<k, v>>>>]
Extra(k, v) == [kind |-> "extra", name |-> k, args |-> <<<<k, v>>>>]
Load(f) == [kind |-> "load", name |-> f, args |-> <<>>]

ItemText(x) ==
    CASE x.kind = "config" -> W(x.name) \o Args(x.args)
      [] x.kind = "load" -> W("load") \o Y("(") \o W(x.name) \o Y(")")
      [] OTHER -> ArgText(x.args[1])

Str(items) == [items |-> items, toks |-> Commas([i \in DOMAIN items |-> ItemText(items[i])])]
Bad(toks) == [items |-> <<>>, toks |-> toks]

Value(o) == CASE o.type = "bool" -> "true" [] o.name = "output.format" -> "cali" [] OTHER -> "5"

Wide ==
    UNION {LET s == builtin_controllers_table[i]
               opts == SelectCategories(BuiltinOptions, s)
           IN  {Str(<<Cfg(s.name, <<>>)>>)}
               \cup {Str(<<Cfg(s.name, <<<<o, Value(opts[o])>>>>)>>) : o \in DOMAIN opts}
           : i \in DOMAIN builtin_controllers_table}

RR == "runtime-report"

MCStrings ==
    {Str(<<Cfg(RR, <<>>)>>),
     Str(<<Cfg(RR, <<<<"output", "a">>, <<"output", "b">>>>), Default("output", "c")>>),
     Str(<<Default("profile.mpi", "true"), Cfg("spot", <<<<"mpi.exclude", "x">>>>)>>),
     Str(<<Cfg("spot", <<<<"timeseries", "true">>, <<"timeseries.metrics", "io.bytes">>,
                         <<"timeseries.iteration_interval", "2">>>>), Cfg(RR, <<>>)>>),
     Str(<<Cfg("spot", <<<<"timeseries", "true">>, <<"timeseries.metrics", "output">>>>)>>),
     Str(<<Cfg(RR, <<<<"aggregate_across_ranks", "f">>, <<"calc.inclusive", "t">>>>)>>),
     Str(<<Cfg(RR, <<<<"calc.inclusive", "maybe">>>>)>>),
     Str(<<Cfg(RR, <<>>), Cfg("event-trace", <<<<"trace.kokkos", "true">>>>)>>),
     Str(<<Default("sample.frequency", "5"), Cfg("event-trace", <<<<"sampling", "true">>>>)>>),
     Str(<<Cfg(RR, <<>>), Extra("foo", "bar")>>),
     Str(<<Load("good"), Cfg("mine", <<<<"mine.opt", "true">>>>)>>),
     Str(<<Load("list"), Cfg("other", <<>>)>>), Str(<<Load("missing")>>),
     Bad(<<>>), Bad(W(RR) \o Y("(") \o W("output")), Bad(W(RR) \o Y("(") \o W("nope") \o Y(")")),
     Bad(W("output") \o Y("=")), Bad(W(RR) \o Y("=") \o W("x")), Bad(W("load")),
     Bad(W("load") \o Y("(") \o Y(")")), Bad(W("load") \o Y("(") \o W("good")),
     Bad(W(RR) \o Y("(") \o W("output") \o Y("=") \o Y(")"))}

User(name, svc, ok, optlist) ==
    [ok |-> ok, optlist |-> optlist, spec |-> ConfigSpec(name, {"metric"}, svc, <<>>, <<>>, {}, "Basic")]

MineOpt == [Opt("mine.opt", "bool", "metric") EXCEPT !.svc = <<"io">>, !.inherit = <<"io.bytes">>]
NoName == Opt("", "bool", "metric")

MCUserSpecs == {User(RR, {}, TRUE, <<>>), User("mine", {"nvtx"}, TRUE, <<>>), User("mine", {}, FALSE, <<>>),
                User("mine", {"event"}, TRUE, <<MineOpt, NoName>>)}
MCUserOpts == {<<MineOpt>>, <<MineOpt, NoName, Opt("late", "bool", "metric")>>}

File(kind, options, configs) == [kind |-> kind, options |-> options, configs |-> configs]
MCFiles ==
    "good" :> File("spec", <<>>, <<User("mine", {"event"}, TRUE, <<MineOpt>>)>>)
    @@ "list" :> File("lists", <<MineOpt>>, <<User("mine", {}, TRUE, <<>>), User("other", {"timer"}, TRUE, <<>>)>>)
    @@ "broken" :> File("bad", <<>>, <<>>)
    @@ "missing" :> File("missing", <<>>, <<>>)

MCParams == {<<"output", "p">>, <<"profile.mpi", "false">>}

WideAsked == cm_log # <<>> /\ cm_log[1].call = "add" /\ cm_log[1].str \in Single \ Strings

CMStep ==
    /\ \/ cm_log = <<>> /\ \E s \in Single : add(s, FALSE)
       \/ ~WideAsked /\ CMNext
    /\ UNCHANGED cm_tables
=============================================================================
