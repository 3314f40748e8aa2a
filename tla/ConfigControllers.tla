-------------------------- MODULE ConfigControllers --------------------------
(***************************************************************************)
(* The options a configuration is created with (class                       *)
(* ConfigManager::Options), the built-in configurations and the channel     *)
(* controllers they create (src/src/caliper/controllers/*Controller.cpp).   *)
(*   opts     [spec, args, enabled]: option records by name, the arguments  *)
(*            in order as <<key, value>>, the enabled options in order      *)
(*   channel  [name, svc, cfg, args, meta, local, cross, ts]: the           *)
(*            controller's configuration and the arguments it was created   *)
(*            with; the service list is a set, the two queries are          *)
(*            kept apart from the other variables.  cross = NoQuery if one  *)
(*            query serves both levels; ts is spot's time series channel.   *)
(***************************************************************************)
EXTENDS SequencesExt

CONSTANT Services       \* the services this build offers

(* --- The option tables of src/src/caliper/controllers/ ------------------- *)
(* An option is a record:                                                   *)
(*   name, type, cat    its name, data type and category                    *)
(*   svc, inherit       the services it needs and the options it implies    *)
(*   cfg                the configuration variables it sets; "{}" stands    *)
(*                      for the option's own value                          *)
(*   local, cross       what it adds to the per-process query and to the    *)
(*                      query over the merged results of all processes      *)
(* Of a query only the attributes are kept: a column is an aggregation      *)
(* kernel or a plain attribute (op = ""), a LET item is the attribute it    *)
(* defines.  Labels, units and scaling factors are left out.                *)
NoQuery == [let |-> <<>>, sel |-> <<>>, group |-> <<>>, where |-> <<>>,
            aggr |-> <<>>, order |-> <<>>]

Opt(name, type, cat) ==
    [name |-> name, type |-> type, cat |-> cat, svc |-> <<>>, inherit |-> <<>>,
     cfg |-> <<>>, local |-> NoQuery, cross |-> NoQuery]

K2(op, a, b) == [op |-> op, tgt |-> a, tgt2 |-> b]
K(op, a) == K2(op, a, "")
Col(a) == K("", a)
Each(ops, a) == [i \in DOMAIN ops |-> K(ops[i], a)]
Over(op, prefix, as) == [i \in DOMAIN as |-> K(op, prefix \o as[i])]

(* The usual metric: columns computed locally and columns over them.        *)
Metric(name, svc, let, loc, cross) ==
    [Opt(name, "bool", "metric") EXCEPT
        !.svc = svc, !.local = [NoQuery EXCEPT !.let = let, !.sel = loc],
        !.cross = [NoQuery EXCEPT !.sel = cross]]

(* --- region and event options -------------------------------------------- *)
profile_mpi ==
    [Opt("profile.mpi", "bool", "region") EXCEPT
        !.svc = <<"mpi">>, !.cfg = "MPI_BLACKLIST" :> "rank,size,wtick,wtime"]

profile_cuda == [Opt("profile.cuda", "bool", "region") EXCEPT !.svc = <<"cupti">>]

profile_hip ==
    [Opt("profile.hip", "bool", "region") EXCEPT
        !.svc = <<"roctracer">>, !.cfg = "ROCTRACER_TRACE_ACTIVITIES" :> "false"]

profile_kokkos == [Opt("profile.kokkos", "bool", "region") EXCEPT !.svc = <<"kokkostime">>]

main_thread_only ==
    [Opt("main_thread_only", "bool", "region") EXCEPT
        !.svc = <<"pthread">>, !.local.where = <<"pthread.is_master">>]

level == [Opt("level", "string", "event") EXCEPT !.cfg = "EVENT_REGION_LEVEL" :> "{}"]

include_branches ==
    [Opt("include_branches", "string", "event") EXCEPT !.cfg = "EVENT_INCLUDE_BRANCHES" :> "{}"]

include_regions ==
    [Opt("include_regions", "string", "event") EXCEPT !.cfg = "EVENT_INCLUDE_REGIONS" :> "{}"]

exclude_regions ==
    [Opt("exclude_regions", "string", "event") EXCEPT !.cfg = "EVENT_EXCLUDE_REGIONS" :> "{}"]

mpi_include == [Opt("mpi.include", "string", "region") EXCEPT !.cfg = "MPI_WHITELIST" :> "{}"]

mpi_exclude == [Opt("mpi.exclude", "string", "region") EXCEPT !.cfg = "MPI_BLACKLIST" :> "{}"]

(* --- metrics ------------------------------------------------------------- *)
region_count ==
    Metric("region.count", <<>>, <<"rc.count">>, <<K("sum", "rc.count")>>,
           Each(<<"min", "avg", "max", "sum">>, "sum#rc.count"))

region_stats ==
    [Metric("region.stats", <<"timer", "event">>,
            <<"rs.count", "rs.min", "rs.max", "rs.sum">>,
            <<K("sum", "rs.count"), K("min", "rs.min"), K2("ratio", "rs.sum", "rs.count"),
              K("max", "rs.max")>>,
            <<K("sum", "sum#rs.count"), K("min", "min#rs.min"),
              K2("ratio", "sum#rs.sum", "sum#rs.count"), K("max", "max#rs.max")>>)
     EXCEPT !.local.aggr = <<K("sum", "rs.sum")>>,
            !.cfg = "TIMER_INCLUSIVE_DURATION" :> "true" @@ "EVENT_ENABLE_SNAPSHOT_INFO" :> "true"]

node_order ==
    Metric("node.order", <<>>, <<>>, <<K("min", "aggregate.slot")>>,
           <<K("min", "min#aggregate.slot")>>)

(* A symbol lookup: group by the attribute on both levels and show it.      *)
Lookup(name, var, attr) ==
    LET q == [NoQuery EXCEPT !.group = <<attr>>, !.sel = <<Col(attr)>>]
    IN  [Opt(name, "bool", "sampling") EXCEPT
            !.svc = <<"symbollookup">>, !.cfg = var :> "true", !.local = q, !.cross = q]

source_module == Lookup("source.module", "SYMBOLLOOKUP_LOOKUP_MODULE", "module#cali.sampler.pc")

source_function ==
    Lookup("source.function", "SYMBOLLOOKUP_LOOKUP_FUNCTION", "source.function#cali.sampler.pc")

source_location ==
    Lookup("source.location", "SYMBOLLOOKUP_LOOKUP_SOURCELOC", "sourceloc#cali.sampler.pc")

cuda_memcpy ==
    [Metric("cuda.memcpy", <<>>, <<"cuda.memcpy.dtoh", "cuda.memcpy.htod">>,
            <<K("sum", "cuda.memcpy.htod"), K("sum", "cuda.memcpy.dtoh")>>,
            Each(<<"avg", "max">>, "sum#cuda.memcpy.htod")
            \o Each(<<"avg", "max">>, "sum#cuda.memcpy.dtoh"))
     EXCEPT !.cat = "cuptitrace.metric"]

cuda_gputime ==
    Metric("cuda.gputime", <<"cuptitrace">>, <<>>,
           <<K("inclusive_scale", "cupti.activity.duration")>>,
           Each(<<"avg", "min", "max", "sum">>, "iscale#cupti.activity.duration"))

rocm_gputime ==
    [Metric("rocm.gputime", <<"roctracer">>, <<>>,
            <<K("inclusive_scale", "sum#rocm.activity.duration")>>,
            Each(<<"avg", "min", "max", "sum">>, "iscale#sum#rocm.activity.duration"))
     EXCEPT !.cfg = "ROCTRACER_TRACE_ACTIVITIES" :> "true"
                    @@ "ROCTRACER_RECORD_KERNEL_NAMES" :> "false"]

MpiMsgTracing == "MPI_MSG_TRACING" :> "true" @@ "MPI_BLACKLIST" :> "rank,size,wtime"

mpi_message_size ==
    [Metric("mpi.message.size", <<"mpi">>, <<"mpimsg.min", "mpimsg.avg", "mpimsg.max">>,
            <<K("min", "mpimsg.min"), K("avg", "mpimsg.avg"), K("max", "mpimsg.max")>>,
            <<K("min", "min#mpimsg.min"), K("avg", "avg#mpimsg.avg"), K("max", "max#mpimsg.max")>>)
     EXCEPT !.cfg = MpiMsgTracing]

mpi_message_count ==
    [Metric("mpi.message.count", <<"mpi">>, <<"mpicount.recv", "mpicount.send", "mpicount.coll">>,
            Over("sum", "mpicount.", <<"send", "recv", "coll">>),
            Each(<<"avg", "max">>, "sum#mpicount.send") \o Each(<<"avg", "max">>, "sum#mpicount.recv")
            \o <<K("max", "sum#mpicount.coll")>>)
     EXCEPT !.cfg = MpiMsgTracing]

openmp_times ==
    Metric("openmp.times", <<"ompt", "timestamp">>,
           <<"t.omp.ns", "t.omp.work", "t.omp.sync", "t.omp.total">>,
           Over("sum", "t.omp.", <<"work", "sync">>),
           Over("avg", "sum#t.omp.", <<"work", "sync">>)
           \o Over("sum", "sum#t.omp.", <<"work", "sync">>))

openmp_efficiency ==
    [Metric("openmp.efficiency", <<>>, <<>>,
            <<K2("inclusive_ratio", "t.omp.work", "t.omp.total"),
              K2("inclusive_ratio", "t.omp.sync", "t.omp.total")>>,
            Each(<<"min", "avg">>, "iratio#t.omp.work/t.omp.total")
            \o Each(<<"avg", "max">>, "iratio#t.omp.sync/t.omp.total"))
     EXCEPT !.inherit = <<"openmp.times">>]

openmp_threads ==
    LET group == <<"omp.thread.id", "omp.thread.type">>
    IN  [Metric("openmp.threads", <<"ompt">>, <<"n.omp.threads">>,
                <<K("max", "n.omp.threads"), Col("omp.thread.id")>>,
                <<K("max", "max#n.omp.threads"), Col("omp.thread.id")>>)
         EXCEPT !.local.group = group, !.cross.group = group]

io_bytes_written ==
    Metric("io.bytes.written", <<"io">>, <<"ibw.bytes.written">>, <<K("sum", "ibw.bytes.written")>>,
           Each(<<"avg", "sum">>, "sum#ibw.bytes.written"))

io_bytes_read ==
    Metric("io.bytes.read", <<"io">>, <<"ibr.bytes.read">>, <<K("sum", "ibr.bytes.read")>>,
           Each(<<"avg", "sum">>, "sum#ibr.bytes.read"))

io_bytes ==
    [Metric("io.bytes", <<>>, <<>>, <<>>, <<>>) EXCEPT
        !.inherit = <<"io.bytes.read", "io.bytes.written">>]

io_read_bandwidth ==
    [Metric("io.read.bandwidth", <<"io">>, <<"irb.bytes.read", "irb.time.ns">>,
            <<Col("io.region"), K2("ratio", "irb.bytes.read", "irb.time.ns")>>,
            Each(<<"avg", "max">>, "ratio#irb.bytes_read/irb.time.ns"))
     EXCEPT !.local.group = <<"io.region">>]

io_write_bandwidth ==
    [Metric("io.write.bandwidth", <<"io">>, <<"iwb.bytes.written", "iwb.time.ns">>,
            <<Col("io.region"), K2("ratio", "iwb.bytes.written", "iwb.time.ns")>>,
            Each(<<"avg", "max">>, "ratio#iwb.bytes.written/iwb.time"))
     EXCEPT !.local.group = <<"io.region">>]

umpire_totals ==
    [Metric("umpire.totals", <<"umpire">>,
            <<"umpt.size.bytes", "umpt.count", "umpt.hwm.bytes", "umpt.size", "umpt.hwm">>,
            Over("inclusive_max", "umpt.", <<"size", "count", "hwm">>),
            Each(<<"avg", "max">>, "imax#umpt.size") \o Each(<<"avg", "max">>, "imax#umpt.count")
            \o <<K("max", "imax#umpt.hwm")>>)
     EXCEPT !.cfg = "UMPIRE_PER_ALLOCATOR_STATISTICS" :> "false"]

umpire_allocators ==
    LET group == <<"umpire.alloc.name">>
    IN  [Metric("umpire.allocators", <<"umpire">>,
                <<"ump.size.bytes", "ump.hwm.bytes", "ump.count", "ump.size", "ump.hwm">>,
                <<Col("umpire.alloc.name")>> \o Over("inclusive_max", "ump.", <<"size", "hwm", "count">>),
                <<Col("umpire.alloc.name")>> \o Over("avg", "imax#ump.", <<"size", "hwm", "count">>)
                \o Over("max", "imax#ump.", <<"size", "hwm", "count">>))
         EXCEPT !.cfg = "UMPIRE_PER_ALLOCATOR_STATISTICS" :> "true",
                !.local.group = group, !.cross.group = group]

umpire_filter ==
    [Opt("umpire.filter", "string", "metric") EXCEPT !.cfg = "UMPIRE_ALLOCATOR_FILTER" :> "{}"]

mem_pages ==
    Metric("mem.pages", <<"memstat">>, <<"mem.vmsize", "mem.vmrss", "mem.data">>,
           Over("max", "mem.", <<"vmsize", "vmrss", "data">>),
           Over("max", "max#mem.", <<"vmsize", "vmrss", "data">>))

mem_highwatermark ==
    [Metric("mem.highwatermark", <<"alloc", "sysalloc">>,
            <<"mem.highwatermark.bytes", "mem.highwatermark">>,
            <<K("max", "mem.highwatermark")>>, <<K("max", "max#mem.highwatermark")>>)
     EXCEPT !.cfg = "ALLOC_TRACK_ALLOCATIONS" :> "false" @@ "ALLOC_RECORD_HIGHWATERMARK" :> "true"]

mem_read_bandwidth ==
    Metric("mem.read.bandwidth", <<"pcp.memory">>, <<"mrb.time">>,
           <<K2("ratio", "mem.bytes.read", "mrb.time")>>,
           Each(<<"avg", "max", "sum">>, "ratio#mem.bytes.read/mrb.time"))

mem_write_bandwidth ==
    Metric("mem.write.bandwidth", <<"pcp.memory">>, <<"mwb.time">>,
           <<K2("ratio", "mem.bytes.written", "mwb.time")>>,
           Each(<<"avg", "max", "sum">>, "ratio#mem.bytes.written/mwb.time"))

mem_bandwidth ==
    [Metric("mem.bandwidth", <<>>, <<>>, <<>>, <<>>) EXCEPT
        !.inherit = <<"mem.read.bandwidth", "mem.write.bandwidth">>]

TopLevel == <<"retiring", "backend_bound", "frontend_bound", "bad_speculation">>

topdown_toplevel ==
    [Metric("topdown.toplevel", <<"topdown">>, <<>>, Over("any", "topdown.", TopLevel),
            Over("any", "any#topdown.", TopLevel))
     EXCEPT !.cfg = "TOPDOWN_LEVEL" :> "top"]

topdown_all ==
    LET all == TopLevel \o <<"branch_mispredict", "machine_clears", "frontend_latency",
                 "frontend_bandwidth", "memory_bound", "core_bound", "ext_mem_bound",
                 "l1_bound", "l2_bound", "l3_bound">>
    IN  [Metric("topdown.all", <<"topdown">>, <<>>, Over("any", "topdown.", all),
                Over("any", "any#topdown.", all))
         EXCEPT !.cfg = "TOPDOWN_LEVEL" :> "all"]

(* The counter names are told apart, not spelled out.                       *)
PapiCounters(name, set, counters) ==
    [Metric(name, <<"papi">>, <<>>, Over("inclusive_sum", "sum#papi.", counters),
            Over("sum", "inclusive#sum#papi.", counters))
     EXCEPT !.cfg = "PAPI_COUNTERS" :> set]

topdown_counters_toplevel ==
    PapiCounters("topdown-counters.toplevel", "toplevel",
        <<"CPU_CLK", "RETIRE_SLOTS", "ISSUED", "RECOVERY", "NOT_DELIVERED">>)

topdown_counters_all ==
    PapiCounters("topdown-counters.all", "all",
        <<"BR_MISP", "CPU_CLK", "NO_EXECUTE", "STALLS_L1D", "STALLS_L2", "STALLS_LDM",
          "NOT_DELIVERED", "CYCLES_0", "RECOVERY", "MACHINE_CLEARS", "L3_HIT", "L3_MISS",
          "GE_1", "GE_2", "ISSUED", "RETIRE_SLOTS">>)

output == Opt("output", "string", "output")

adiak_import_categories ==
    [Opt("adiak.import_categories", "string", "adiak") EXCEPT !.svc = <<"adiak_import">>]

max_column_width == Opt("max_column_width", "int", "treeformatter")

print_metadata == Opt("print.metadata", "bool", "treeformatter")

order_as_visited ==
    [Opt("order_as_visited", "bool", "treeformatter") EXCEPT
        !.local = [NoQuery EXCEPT !.let = <<"o_a_v.slot">>, !.aggr = <<K("min", "o_a_v.slot")>>,
                                  !.order = <<"min#o_a_v.slot">>],
        !.cross = [NoQuery EXCEPT !.aggr = <<K("min", "min#o_a_v.slot")>>,
                                  !.order = <<"min#min#o_a_v.slot">>]]

builtin_option_specs ==
    {profile_mpi, profile_cuda, profile_hip, profile_kokkos, main_thread_only, level,
     include_branches, include_regions, exclude_regions, mpi_include, mpi_exclude,
     region_count, region_stats, node_order, source_module, source_function, source_location,
     cuda_memcpy, cuda_gputime, rocm_gputime, mpi_message_size, mpi_message_count,
     openmp_times, openmp_efficiency, openmp_threads, io_bytes_written, io_bytes_read,
     io_bytes, io_read_bandwidth, io_write_bandwidth, umpire_totals, umpire_allocators,
     umpire_filter, mem_pages, mem_highwatermark, mem_read_bandwidth, mem_write_bandwidth,
     mem_bandwidth, topdown_toplevel, topdown_all, topdown_counters_toplevel,
     topdown_counters_all, output, adiak_import_categories, max_column_width,
     print_metadata, order_as_visited}

(* --- ConfigManager::Options ---------------------------------------------- *)
to_bool(v) == v \in {"true", "t", "1"}
is_bool(v) == v \in {"true", "t", "1", "false", "f", "0"}

find_arg(args, key) == SelectSeq(args, LAMBDA p : p[1] = key)

is_set(opts, key) == find_arg(opts.args, key) # <<>>

is_enabled(opts, key) == Contains(opts.enabled, key)

get(opts, key, default) ==
    IF is_set(opts, key) THEN find_arg(opts.args, key)[1][2] ELSE default

(* Depth first: what an option inherits comes before its inherited name.    *)
(* The options of the tables inherit without cycles.                        *)
RECURSIVE get_inherited_specs(_, _)
get_inherited_specs(spec, name) ==
    IF name \notin DOMAIN spec THEN <<>>
    ELSE FlattenSeq([i \in DOMAIN spec[name].inherit |->
            get_inherited_specs(spec, spec[name].inherit[i]) \o <<spec[name].inherit[i]>>])

find_enabled_options(spec, args) ==
    FoldLeft(LAMBDA vec, a :
        IF a[1] \in DOMAIN spec /\ (spec[a[1]].type = "bool" => to_bool(a[2]))
        THEN vec \o <<a[1]>> \o get_inherited_specs(spec, a[1]) ELSE vec,
        <<>>, args)

Options(spec, args) ==
    [spec |-> spec, args |-> args, enabled |-> find_enabled_options(spec, args)]

(* Enabled options the configuration knows, in order.                       *)
known(opts) == SelectSeq(opts.enabled, LAMBDA o : o \in DOMAIN opts.spec)

(* An option's arguments have their type and its services are there.        *)
check_types(opts) ==
    \A i \in DOMAIN opts.args :
        LET a == opts.args[i]
        IN  a[1] \in DOMAIN opts.spec /\ opts.spec[a[1]].type = "bool" => is_bool(a[2])

check_services(opts) ==
    \A i \in DOMAIN known(opts) : ToSet(opts.spec[known(opts)[i]].svc) \subseteq Services

opts_check(opts) == check_types(opts) /\ check_services(opts)

services(opts, svc) ==
    svc \cup UNION {ToSet(opts.spec[known(opts)[i]].svc) : i \in DOMAIN known(opts)}

(* Only an option that is itself an argument sets its variables; a later    *)
(* option of the list overwrites what an earlier one set.                   *)
expand_variables(value, arg) == IF value = "{}" THEN arg ELSE value

(* As if an enabled option could not be overwritten by a later one.         *)
append_config(opts, cfg) ==
    FoldLeft(LAMBDA c, o :
        IF is_set(opts, o)
        THEN [k \in DOMAIN opts.spec[o].cfg |->
                  expand_variables(opts.spec[o].cfg[k], get(opts, o, ""))] @@ c
        ELSE c,
        cfg, known(opts))

update_channel_metadata(opts) ==
    FoldLeft(LAMBDA m, a : (a[1] :> a[2]) @@ m, <<>>, opts.args)

Join(q, r) ==
    [let |-> q.let \o r.let, sel |-> q.sel \o r.sel, group |-> q.group \o r.group,
     where |-> q.where \o r.where, aggr |-> q.aggr \o r.aggr, order |-> q.order \o r.order]

build_query(opts, lvl, in) ==
    FoldLeft(LAMBDA q, o :
        Join(q, IF lvl = "local" THEN opts.spec[o].local ELSE opts.spec[o].cross),
        in, known(opts))

(* The end of every controller's constructor.                               *)
Channel(spec, opts, svc, cfg, local, cross) ==
    [name |-> spec.name, svc |-> services(opts, spec.svc \cup svc),
     cfg |-> append_config(opts, cfg @@ spec.cfg),
     args |-> opts.args, meta |-> update_channel_metadata(opts), local |-> local, cross |-> cross, ts |-> <<>>]

make_basic_channel_controller(spec, opts) ==
    LET out == get(opts, "output", "")
    IN  Channel(spec, opts, {},
                IF is_set(opts, "output")
                THEN "RECORDER_FILENAME" :> out @@ "REPORT_FILENAME" :> out
                     @@ "MPIREPORT_FILENAME" :> out
                ELSE <<>>,
                NoQuery, NoQuery)

(* --- The reports: one query per process, one across processes ------------ *)
build_tree_format_spec(opts) ==
    IF is_enabled(opts, "print.metadata") THEN {"adiak_import"} \cap Services ELSE {}

use_mpi(opts) ==
    /\ "mpireport" \in Services
    /\ to_bool(get(opts, "aggregate_across_ranks", "true"))

(* q: [let, group, local, serial, cross]; svc: services added before;       *)
(* append: the variables of the report's append mode.                       *)
append(opts) == "APPEND" :> get(opts, "output.append", "")

report(spec, opts, svc, cfg, q) ==
    LET In(sel) == [NoQuery EXCEPT !.let = q.let, !.sel = sel, !.group = q.group]
        files(p) == (p \o "_FILENAME") :> get(opts, "output", "stderr")
    IN  IF use_mpi(opts)
        THEN Channel(spec, opts, svc \cup {"mpi", "mpireport"},
                cfg @@ files("MPIREPORT") @@ "MPIREPORT_WRITE_ON_FINALIZE" :> "false",
                build_query(opts, "local", In(q.local)),
                build_query(opts, "cross",
                    [NoQuery EXCEPT !.sel = q.cross, !.group = q.group]))
        ELSE Channel(spec, opts, svc \cup {"report"}, cfg @@ files("REPORT"),
                build_query(opts, "local", In(q.serial)), NoQuery)

RuntimeReportController(spec, opts) ==
    LET incl == is_enabled(opts, "calc.inclusive")
        metric == IF incl THEN "inclusive#sum#time.duration" ELSE "sum#sum#time.duration"
    IN  report(spec, opts, build_tree_format_spec(opts), append(opts),
            [let |-> <<"sum#time.duration">>, group |-> <<"path">>,
             local |-> <<K("sum", "sum#time.duration")>>
                       \o IF incl THEN <<K("inclusive_sum", "sum#time.duration")>> ELSE <<>>,
             serial |-> Each(<<"sum", "inclusive_sum", "percent_total",
                               "inclusive_percent_total">>, "sum#time.duration"),
             cross |-> Each(<<"min", "max", "avg">>, metric)
                       \o <<K(IF incl THEN "inclusive_percent_total" ELSE "percent_total",
                              "sum#sum#time.duration")>>])

CudaActivityReportController(spec, opts) ==
    LET kernels == IF is_enabled(opts, "show_kernels") THEN <<"cupti.kernel.name">> ELSE <<>>
        show == [i \in DOMAIN kernels |-> Col(kernels[i])]
        durations == <<K("inclusive_scale", "sum#cupti.host.duration"),
                       K("inclusive_scale", "cupti.activity.duration")>>
    IN  report(spec, opts, build_tree_format_spec(opts), append(opts),
            [let |-> <<>>, group |-> <<"path">> \o kernels, local |-> durations,
             serial |-> show \o durations
                        \o <<K2("inclusive_ratio", "cupti.activity.duration", "sum#cupti.host.duration")>>,
             cross |-> show \o Each(<<"avg", "max">>, "iscale#sum#cupti.host.duration")
                       \o Each(<<"avg", "max">>, "iscale#cupti.activity.duration")
                       \o <<K2("ratio", "iscale#cupti.activity.duration",
                                        "iscale#sum#cupti.host.duration")>>])

RocmActivityReportController(spec, opts) ==
    LET kernels == IF is_enabled(opts, "show_kernels") THEN <<"rocm.kernel.name">> ELSE <<>>
        show == [i \in DOMAIN kernels |-> Col(kernels[i])]
        durations == <<K("inclusive_scale", "sum#time.duration.ns"),
                       K("inclusive_scale", "sum#rocm.activity.duration")>>
    IN  report(spec, opts, build_tree_format_spec(opts), append(opts),
            [let |-> <<>>, group |-> <<"path">> \o kernels, local |-> durations,
             serial |-> show \o durations
                        \o <<K2("inclusive_ratio", "sum#rocm.activity.duration", "sum#time.duration.ns")>>,
             cross |-> show \o Each(<<"avg", "max">>, "inclusive#scale#time.duration.ns")
                       \o Each(<<"avg", "max">>, "iscale#sum#rocm.activity.duration")
                       \o <<K2("ratio", "iscale#sum#rocm.activity.duration",
                                        "iscale#sum#time.duration.ns")>>])

(* std::to_string(std::max(1.0, std::stod(v))) of a small integer.          *)
freq(v) == (IF v = "0" THEN "1" ELSE v) \o ".000000"

SampleReportController(spec, opts) ==
    LET group == IF is_enabled(opts, "callpath") THEN <<"source.function#callpath.address">>
                 ELSE <<"path">>
        counts == <<K("count", ""), K("scale_count", "")>>
    IN  report(spec, opts, build_tree_format_spec(opts) \cup ({"pthread"} \cap Services),
            "SAMPLER_FREQUENCY" :> freq(get(opts, "sample.frequency", "200")) @@ append(opts),
            [let |-> <<>>, group |-> group, local |-> counts, serial |-> counts,
             cross |-> Each(<<"min", "max", "avg", "sum", "percent_total">>, "scount")])

OpenMPReportController(spec, opts) ==
    LET show(o, a) == IF is_enabled(opts, o) THEN <<a>> ELSE <<>>
        threads == show("show_threads", "omp.thread.id")
                   \o show("show_thread_type", "omp.thread.type")
        cols == [i \in DOMAIN threads |-> Col(threads[i])]
        group == threads \o show("show_regions", "path")
        base == <<K("max", "n.threads"), K("inclusive_sum", "t.initial"),
                  K("inclusive_sum", "sum#time.duration")>>
    IN  report(spec, opts, {}, <<>>,
            [let |-> <<"sum#time.duration", "n.threads", "t.initial">>,
             group |-> IF group = <<>> THEN <<"none">> ELSE group,
             local |-> base, serial |-> base \o cols,
             cross |-> <<K("max", "max#n.threads"), K("avg", "inclusive#t.initial"),
                         K("sum", "inclusive#sum#time.duration")>> \o cols])

(* --- The profiles: one query for both levels ----------------------------- *)
Allowed == {"cali", "json", "json-split", "hatchet"}

profile(spec, opts, svc, cfg, default, q) ==
    LET mpi == "mpireport" \in Services /\ (is_set(opts, "use.mpi") => is_enabled(opts, "use.mpi"))
        adiak == "adiak_import" \in Services
        file == get(opts, "output", default)
        group == q.group \o IF mpi THEN <<"mpi.rank">> ELSE <<>>
    IN  Channel(spec, opts,
            svc \cup (IF adiak THEN {"adiak_import"} ELSE {})
                \cup (IF mpi THEN {"mpi", "mpireport"} ELSE {"report"}),
            cfg @@ (IF adiak THEN "ADIAK_IMPORT_CATEGORIES" :> get(opts, "adiak.import_categories", "2,3")
                    ELSE <<>>)
                @@ (IF mpi THEN "MPIREPORT_FILENAME" :> file @@ "MPIREPORT_WRITE_ON_FINALIZE" :> "false"
                    ELSE "REPORT_FILENAME" :> file),
            build_query(opts, "local",
                [NoQuery EXCEPT !.let = q.let, !.sel = q.sel, !.group = group]),
            NoQuery)

HatchetRegionProfileController(spec, opts) ==
    profile(spec, opts, {},
            IF "mpireport" \in Services /\ (is_set(opts, "use.mpi") => is_enabled(opts, "use.mpi"))
            THEN "AGGREGATE_KEY" :> "*,mpi.rank" ELSE <<>>,
            "region_profile",
            [let |-> <<"sum#time.duration">>, sel |-> <<K("sum", "sum#time.duration")>>,
             group |-> <<"path">>])

HatchetSampleProfileController(spec, opts) ==
    profile(spec, opts, {"pthread"} \cap Services,
            "SAMPLER_FREQUENCY" :> get(opts, "sample.frequency", "200"), "sample_profile",
            [let |-> <<>>, sel |-> <<Col("path"), K("count", ""), K("scale_count", "")>>,
             group |-> <<"path">>])

GpuProfile(spec, opts, gpu, host, file, kernel, kind) ==
    profile(spec, opts, {},
            IF "mpireport" \in Services /\ (is_set(opts, "use.mpi") => is_enabled(opts, "use.mpi"))
            THEN "AGGREGATE_KEY" :> "*,mpi.rank" ELSE <<>>,
            file,
            [let |-> <<>>, sel |-> <<K("scale", gpu), K("scale", host)>>,
             group |-> <<"path", kernel, kind>>])

CudaActivityProfileController(spec, opts) ==
    GpuProfile(spec, opts, "cupti.activity.duration", "sum#cupti.host.duration", "cuda_profile",
               "cupti.kernel.name", "cupti.activity.kind")

RocmActivityProfileController(spec, opts) ==
    GpuProfile(spec, opts, "sum#rocm.activity.duration", "sum#time.duration.ns", "rocm_profile",
               "rocm.kernel.name", "rocm.activity.kind")

(* --- The controllers that write their own output ------------------------- *)
loop_interval(opts) ==
    (IF is_set(opts, "iteration_interval")
     THEN "LOOP_MONITOR_ITERATION_INTERVAL" :> get(opts, "iteration_interval", "")
     ELSE "LOOP_MONITOR_TIME_INTERVAL" :> get(opts, "time_interval", "0.5"))
    @@ (IF is_set(opts, "target_loops")
        THEN "LOOP_MONITOR_TARGET_LOOPS" :> get(opts, "target_loops", "") ELSE <<>>)

(* Its summary queries; the time series queries are built the same way.     *)
LoopReportController(spec, opts) ==
    Channel(spec, opts, {}, loop_interval(opts),
        build_query(opts, "local",
            [NoQuery EXCEPT !.let = <<"iter_per_sec">>, !.group = <<"loop">>, !.where = <<"loop">>,
                !.sel = <<Col("loop"), K("count", ""), K("sum", "loop.iterations"),
                          K("scale", "time.duration.ns")>>
                        \o Each(<<"min", "max", "avg">>, "iter_per_sec")]),
        build_query(opts, "cross",
            [NoQuery EXCEPT !.group = <<"loop">>, !.aggr = <<K("max", "count")>>,
                !.sel = <<Col("loop"), K("max", "sum#loop.iterations"),
                          K("max", "scale#time.duration.ns"), K("min", "min#iter_per_sec"),
                          K("max", "max#iter_per_sec"),
                          K2("ratio", "sum#loop.iterations", "scale#time.duration.ns")>>]))

SpotTimeseriesController(spec, opts) ==
    LET group == <<"cali.channel", "loop", "block">>
        cols == [i \in DOMAIN group |-> Col(group[i])]
    IN  [Channel(spec, opts, {}, loop_interval(opts),
            build_query(opts, "local",
                [NoQuery EXCEPT !.let = <<"block">>, !.group = group, !.where = <<"loop">>,
                    !.sel = cols \o <<K("scale", "time.duration.ns"), K("sum", "loop.iterations"),
                                      K2("ratio", "loop.iterations", "time.duration.ns")>>]),
            build_query(opts, "cross",
                [NoQuery EXCEPT !.group = group,
                    !.sel = cols \o <<K("max", "sum#loop.iterations"),
                                      K("max", "scale#time.duration.ns"),
                                      K("avg", "ratio#loop.iterations/time.duration.ns")>>]))
         EXCEPT !.meta = <<>>]

SpotController(spec, opts) ==
    LET adiak == "adiak_import" \in Services    \* CALIPER_HAVE_ADIAK
    IN  Channel(spec, opts, IF adiak THEN {"adiak_import"} ELSE {},
            IF adiak THEN "ADIAK_IMPORT_CATEGORIES" :> get(opts, "adiak.import_categories", "2,3")
            ELSE <<>>,
            build_query(opts, "local",
                [NoQuery EXCEPT !.let = <<"sum#time.duration">>, !.group = <<"path">>,
                    !.sel = <<K("inclusive_sum", "sum#time.duration")>>]),
            build_query(opts, "cross",
                [NoQuery EXCEPT !.group = <<"path">>,
                    !.sel = Each(<<"min", "max", "avg", "sum">>, "inclusive#sum#time.duration")]))

-----------------------------------------------------------------------------
(* The built-in configurations (the controller_spec tables and              *)
(* builtin_controllers_table).  A configuration is a record:                *)
(*   name, cats, svc    its name, option categories and services            *)
(*   cfg, defaults      its variables and default arguments                 *)
(*   opts               its own options by name                             *)
(*   make               the kind of controller it creates and of check it   *)
(*                      makes                                               *)
(* Variables that every configuration sets alike are left out.              *)

ByName(opts) ==
    [n \in {o.name : o \in opts} |-> CHOOSE o \in opts : o.name = n]

ConfigSpec(name, cats, svc, cfg, defaults, opts, make) ==
    [name |-> name, cats |-> cats, svc |-> svc, cfg |-> cfg,
     defaults |-> [i \in DOMAIN defaults |-> <<defaults[i], "true">>],
     opts |-> ByName(opts), make |-> make]

Flag(name) == Opt(name, "bool", "")
Text(name) == Opt(name, "string", "")
Number(name) == Opt(name, "int", "")

NoSnapshotInfo == "EVENT_ENABLE_SNAPSHOT_INFO" :> "false"

runtime_report_spec ==
    ConfigSpec("runtime-report", {"metric", "output", "region", "treeformatter", "event"},
         {"aggregate", "event", "timer"}, NoSnapshotInfo, <<"order_as_visited", "output.append">>,
         {Flag("calc.inclusive"), Flag("aggregate_across_ranks"), Flag("output.append"),
          [Flag("order_by_time") EXCEPT
              !.local.order = <<"sum#sum#time.duration">>,
              !.cross.aggr = <<K("sum", "sum#sum#time.duration")>>,
              !.cross.order = <<"sum#sum#sum#time.duration">>]},
         "RuntimeReport")

sample_report_spec ==
    ConfigSpec("sample-report", {"output", "sampling", "treeformatter", "region"}, {"sampler", "trace"},
         <<>>, <<"output.append", "source.function">>,
         {Number("sample.frequency"), Flag("aggregate_across_ranks"), Flag("output.append"),
          [Flag("callpath") EXCEPT !.svc = <<"callpath", "symbollookup">>]},
         "SampleReport")

openmp_report_spec ==
    ConfigSpec("openmp-report", {"output", "region", "metric", "event"}, {"aggregate", "ompt", "event"},
         NoSnapshotInfo, <<"openmp.efficiency", "openmp.times", "show_regions">>,
         {Flag("aggregate_across_ranks"), Flag("show_threads"), Flag("show_thread_type"),
          Flag("show_regions")},
         "OpenMPReport")

cuda_activity_report_spec ==
    ConfigSpec("cuda-activity-report", {"output", "region", "cuptitrace.metric", "treeformatter", "event"},
         {"aggregate", "cupti", "cuptitrace", "event"},
         "CUPTITRACE_SNAPSHOT_DURATION" :> "true" @@ NoSnapshotInfo,
         <<"order_as_visited", "output.append">>,
         {Flag("aggregate_across_ranks"), Flag("show_kernels"), Flag("output.append")},
         "CudaReport")

rocm_activity_report_spec ==
    ConfigSpec("rocm-activity-report", {"output", "region", "treeformatter", "event"},
         {"aggregate", "roctracer", "event", "timer"},
         "ROCTRACER_TRACE_ACTIVITIES" :> "true" @@ NoSnapshotInfo,
         <<"order_as_visited", "output.append">>,
         {Flag("aggregate_across_ranks"), Flag("output.append"),
          [Flag("show_kernels") EXCEPT !.cfg = "ROCTRACER_RECORD_KERNEL_NAMES" :> "true"]},
         "RocmReport")

ProfileOptions == {Text("output.format"), Flag("use.mpi")}

hatchet_region_profile_spec ==
    ConfigSpec("hatchet-region-profile", {"adiak", "metric", "output", "region", "event"},
         {"aggregate", "event", "timer"}, NoSnapshotInfo, <<"node.order">>,
         ProfileOptions \cup
         {[Opt("time.inclusive", "bool", "metric") EXCEPT
              !.local.sel = <<K("inclusive_scale", "sum#time.duration.ns")>>]},
         "RegionProfile")

hatchet_sample_profile_spec ==
    LET frame == "source.function#callpath.address"
    IN  ConfigSpec("hatchet-sample-profile", {"adiak", "sampling", "output"}, {"sampler", "trace"},
             <<>>, <<"callpath", "source.module">>,
             ProfileOptions \cup
             {Number("sample.frequency"),
              [Flag("callpath") EXCEPT !.svc = <<"callpath", "symbollookup">>,
                  !.local.group = <<frame>>, !.local.sel = <<Col(frame)>>]},
             "SampleProfile")

cuda_activity_profile_spec ==
    ConfigSpec("cuda-activity-profile", {"adiak", "metric", "cuptitrace.metric", "output", "region", "event"},
         {"aggregate", "cupti", "cuptitrace", "event"},
         "CUPTITRACE_SNAPSHOT_DURATION" :> "true" @@ NoSnapshotInfo, <<"node.order">>,
         ProfileOptions, "CudaProfile")

rocm_activity_profile_spec ==
    ConfigSpec("rocm-activity-profile", {"adiak", "metric", "output", "region", "event"},
         {"aggregate", "roctracer", "event", "timer"},
         "ROCTRACER_TRACE_ACTIVITIES" :> "true" @@ "ROCTRACER_RECORD_KERNEL_NAMES" :> "true"
         @@ "ROCTRACER_SNAPSHOT_DURATION" :> "false" @@ NoSnapshotInfo,
         <<"node.order">>, ProfileOptions, "RocmProfile")

loop_report_controller_spec ==
    ConfigSpec("loop-report", {"metric", "output"}, {"loop_monitor", "timer", "trace"}, <<>>, <<>>,
         {Flag("summary"), Flag("timeseries"), Number("iteration_interval"),
          Number("time_interval"), Number("timeseries.maxrows"), Text("target_loops")},
         "LoopReport")

spot_timeseries_spec ==
    ConfigSpec("spot.timeseries", {"metric"}, {"loop_monitor", "timer", "trace"}, <<>>, <<>>,
         {Number("iteration_interval"), Number("time_interval"), Text("target_loops")},
         "SpotTimeseries")

spot_controller_spec ==
    LET exc == "scale#sum#time.duration.ns"
    IN  ConfigSpec("spot", {"adiak", "metric", "output", "region", "event"},
             {"aggregate", "event", "timer"},
             "TIMER_INCLUSIVE_DURATION" :> "false" @@ NoSnapshotInfo,
             <<"node.order", "region.count", "time.exclusive">>,
             {[Opt("time.exclusive", "bool", "metric") EXCEPT
                  !.local.sel = <<K("scale", "sum#time.duration.ns")>>,
                  !.cross.sel = Each(<<"min", "max", "avg", "sum">>, exc)],
              [Opt("time.variance", "bool", "metric") EXCEPT
                  !.cross.sel = <<K("variance", "inclusive#sum#time.duration")>>],
              Flag("timeseries"), Number("timeseries.maxrows"),
              Number("timeseries.iteration_interval"), Number("timeseries.time_interval"),
              Text("timeseries.target_loops"), Text("timeseries.metrics"), Text("outdir")},
             "Spot")

event_trace_spec ==
    LET Trace(n, s) == [Flag(n) EXCEPT !.svc = <<s>>]
        Sets(o, var, v) == [o EXCEPT !.cfg = var :> v]
    IN  ConfigSpec("event-trace", {"output", "event"}, {"event", "recorder", "timer", "trace"}, <<>>, <<>>,
             {Sets(Text("outdir"), "RECORDER_DIRECTORY", "{}"), Trace("trace.io", "io"),
              Sets(Trace("trace.mpi", "mpi"), "MPI_BLACKLIST", "wtime,wtick,size,rank"),
              Trace("trace.cuda", "cupti"), Trace("trace.openmp", "ompt"),
              Trace("trace.kokkos", "kokkostime"), Flag("event.timestamps"),
              Sets(Flag("time.inclusive"), "TIMER_INCLUSIVE_DURATION", "true"),
              [Sets(Flag("sampling"), "SAMPLER_FREQUENCY", "200") EXCEPT
                  !.svc = <<"callpath", "pthread", "sampler", "symbollookup">>],
              [Sets(Number("sample.frequency"), "SAMPLER_FREQUENCY", "{}") EXCEPT
                  !.inherit = <<"sampling">>],
              [Sets(Text("papi.counters"), "PAPI_COUNTERS", "{}") EXCEPT !.svc = <<"papi">>],
              Sets(Trace("cuda.activities", "cuptitrace"), "CUPTITRACE_SNAPSHOT_TIMESTAMPS", "true"),
              Sets(Trace("rocm.activities", "roctracer"), "ROCTRACER_SNAPSHOT_TIMESTAMPS", "true"),
              Sets(Trace("umpire.totals", "umpire"), "UMPIRE_PER_ALLOCATOR_STATISTICS", "false"),
              Sets(Trace("umpire.allocators", "umpire"), "UMPIRE_PER_ALLOCATOR_STATISTICS", "true"),
              Sets(Text("umpire.filter"), "UMPIRE_ALLOCATOR_FILTER", "{}")},
             "Basic")

nvprof_spec == ConfigSpec("nvprof", {}, {"nvtx"}, <<>>, <<>>, {}, "Basic")
nvtx_spec == ConfigSpec("nvtx", {}, {"nvtx"}, <<>>, <<>>, {}, "Basic")
roctx_spec == ConfigSpec("roctx", {}, {"roctx"}, <<>>, <<>>, {}, "Basic")

(* Its query is a variable of its own.                                      *)
mpireport_spec ==
    ConfigSpec("mpi-report", {"event"}, {"aggregate", "event", "mpi", "mpireport", "timer"},
         "AGGREGATE_KEY" :> "mpi.function" @@ "EVENT_TRIGGER" :> "mpi.function"
         @@ "MPI_BLACKLIST" :> "size,rank,wtime" @@ "MPIREPORT_WRITE_ON_FINALIZE" :> "false"
         @@ "MPIREPORT_CONFIG" :> "own" @@ "TIMER_INCLUSIVE_DURATION" :> "false" @@ NoSnapshotInfo,
         <<>>, {}, "Basic")

builtin_controllers_table ==
    <<cuda_activity_profile_spec, cuda_activity_report_spec, event_trace_spec, nvprof_spec,
     nvtx_spec, roctx_spec, mpireport_spec, hatchet_region_profile_spec,
     hatchet_sample_profile_spec, loop_report_controller_spec, openmp_report_spec,
     rocm_activity_report_spec, rocm_activity_profile_spec, runtime_report_spec,
     sample_report_spec, spot_controller_spec>>

=============================================================================
