---------------------------- MODULE ConfigManager ----------------------------
(***************************************************************************)
(* class ConfigManager, src/src/caliper/ConfigManager.cpp: configuration    *)
(* strings are parsed into channel controllers, which start and stop their  *)
(* channels (src/src/caliper/ChannelController.cpp).                        *)
(*                                                                          *)
(* cm is the ConfigManagerImpl:                                             *)
(*   err        m_error and m_error_msg: "" or the kind of the last error   *)
(*   spec       m_spec, the known configurations by name; the built-in ones *)
(*              are among them once "imported"                              *)
(*   global     m_global_opts beyond the built-in ones, with its own error  *)
(*              flag globalErr                                              *)
(*   defaults   m_default_parameters; defaultsFor the per-configuration map *)
(*   extra      m_extra_vars                                                *)
(* cm_channels is m_channels with the state of each controller's channel,   *)
(* cm_log the calls that were made.                                         *)
(***************************************************************************)
EXTENDS Integers, ConfigControllers, Tokens

CONSTANTS
    Strings,    \* configuration strings: [toks, items], items for the reference
    Files,      \* what "load" finds by name
    Params,     \* <<key, value>> pairs for the set_default_parameter functions
    UserSpecs,  \* configurations for add_config_spec
    UserOpts,   \* option lists for add_option_spec
    MaxCalls

VARIABLES cm, cm_channels, cm_log,
          cm_tables   \* the static tables of this build: they never change

cmVars == <<cm, cm_channels, cm_log, cm_tables>>

set_error(m, what) == [m EXCEPT !.err = what]

(* --- Specifications ------------------------------------------------------ *)
(* OptionSpec::add: stops at the first option without a name (""); a later  *)
(* definition of an option replaces an earlier one.                         *)
GoodOptions(list) ==
    {i \in DOMAIN list : \A j \in 1..i : list[j].name # ""}

OptionSpec_add(data, list) ==
    FoldLeft(LAMBDA d, o : (o.name :> o) @@ d, data,
             [i \in GoodOptions(list) |-> list[i]])

add_global_option_specs(m, list) ==
    LET bad == GoodOptions(list) # DOMAIN list
    IN  IF m.globalErr THEN set_error(m, "option spec")
        ELSE [m EXCEPT !.global = OptionSpec_add(@, list), !.globalErr = bad,
                       !.err = IF bad THEN "option spec" ELSE @]

(* The built-in configurations whose services are there; one the program    *)
(* has added under the same name before stays.                              *)
AvailableBuiltins ==
    LET avail == SelectSeq(builtin_controllers_table, LAMBDA s : s.svc \subseteq Services)
    IN  [n \in {avail[i].name : i \in DOMAIN avail} |->
            CHOOSE s \in ToSet(avail) : s.name = n]

BuiltinOptions == ByName(builtin_option_specs)

Tables == [specs |-> AvailableBuiltins, options |-> BuiltinOptions, timeseries |-> spot_timeseries_spec]

m_spec(m) == IF m.imported THEN m.spec @@ cm_tables.specs ELSE m.spec
m_global_opts(m) == m.global @@ cm_tables.options

import_builtin_config_specs(m) == [m EXCEPT !.imported = @ \/ m.err = ""]

(* spec.ok: it parses and has a name; its options come as a list.  One that *)
(* needs services this build lacks is skipped without an error.             *)
add_config_spec(m, spec) ==
    IF spec.name \in DOMAIN m_spec(m) THEN set_error(m, "already exists")
    ELSE IF m.err # "" \/ ~(spec.svc \subseteq Services) THEN m
    ELSE [m EXCEPT !.spec = (spec.name :> spec) @@ @]

add_user_spec(m, u) ==
    IF ~u.ok THEN set_error(m, "spec parse error")
    ELSE add_config_spec(m, [u.spec EXCEPT !.opts = OptionSpec_add(<<>>, u.optlist)])

NewManager ==
    [err |-> "", spec |-> <<>>, imported |-> FALSE, global |-> <<>>, globalErr |-> FALSE,
     defaults |-> <<>>, defaultsFor |-> <<>>, extra |-> <<>>]

(* A file is missing, unreadable JSON, one configuration, or lists of       *)
(* options and configurations.                                              *)
parse_json_content(m, file) ==
    IF file.kind = "bad" THEN set_error(m, "parse error")
    ELSE FoldLeft(LAMBDA n, u : IF n.err # "" THEN n ELSE add_user_spec(n, u),
                  IF file.options = <<>> THEN m ELSE add_global_option_specs(m, file.options),
                  file.configs)

load_file(m, name) ==
    IF Files[name].kind = "missing" THEN set_error(m, "no file")
    ELSE parse_json_content(m, Files[name])

(* --- Parsing a configuration string -------------------------------------- *)
read_value(m, in) ==
    IF read_char(in) # "=" THEN [m |-> m, in |-> in, val |-> ""]
    ELSE LET v == read_word(Tail(in))
         IN  [m |-> IF v = "" THEN set_error(m, "value") ELSE m, in |-> SkipWord(Tail(in)), val |-> v]

true_if_empty(val) == IF val = "" THEN "true" ELSE val

(* A key and its value, or neither.                                         *)
read_arg(m, in) ==
    IF read_word(in) = "" THEN [m |-> m, in |-> in, val |-> "", key |-> ""]
    ELSE read_value(m, SkipWord(in)) @@ [key |-> read_word(in)]

(* The arguments after the opening parenthesis; r is the one read last.     *)
RECURSIVE read_args(_, _, _, _)
read_args(m, r, opts, args) ==
    LET more == IF r.key = "" THEN args ELSE Append(args, <<r.key, true_if_empty(r.val)>>)
        Fail(n) == [m |-> n, in |-> r.in, args |-> <<>>]
    IN  IF r.key # "" /\ r.key \notin DOMAIN opts THEN Fail(set_error(m, "option"))
        ELSE IF r.m.err # "" /\ r.key # "" THEN Fail(r.m)
        ELSE IF read_char(r.in) = "," THEN read_args(m, read_arg(m, Tail(r.in)), opts, more)
        ELSE IF read_char(r.in) = ")" THEN [m |-> m, in |-> Tail(r.in), args |-> more]
        ELSE Fail(set_error(m, ")"))

parse_arglist(m, in, opts) ==
    IF read_char(in) # "(" THEN [m |-> m, in |-> in, args |-> <<>>]
    ELSE read_args(m, read_arg(m, Tail(in)), opts, <<>>)

SelectCategories(all, spec) ==
    spec.opts @@ [n \in {o \in DOMAIN all : all[o].cat \in spec.cats} |-> all[n]]

options_for_config(m, spec) == SelectCategories(m_global_opts(m), spec)

is_option(m, key) ==
    \/ key \in DOMAIN m_global_opts(m)
    \/ \E s \in DOMAIN m_spec(m) : key \in DOMAIN m_spec(m)[s].opts

RECURSIVE read_files(_, _)
read_files(m, in) ==
    LET name == read_word(in)
        n == IF name = "" THEN set_error(m, "filename") ELSE load_file(m, name)
        rest == SkipWord(in)
    IN  IF n.err # "" THEN [m |-> n, in |-> rest]
        ELSE IF read_char(rest) = "," THEN read_files(n, Tail(rest))
        ELSE IF read_char(rest) = ")" THEN [m |-> n, in |-> Tail(rest)]
        ELSE [m |-> set_error(n, ")"), in |-> rest]

handle_load_command(m, in) ==
    IF read_char(in) # "(" THEN [m |-> set_error(m, "("), in |-> in]
    ELSE read_files(m, Tail(in))

(* A configuration with the arguments that were read.                       *)
config_item(r, spec) ==
    [m |-> r.m, in |-> r.in,
     found |-> IF r.m.err = "" THEN <<[spec |-> spec, args |-> r.args]>> ELSE <<>>]

(* A default parameter if the key is an option, else an extra variable.     *)
default_item(r, key) ==
    IF r.m.err # "" THEN r
    ELSE IF is_option(r.m, key) THEN [r EXCEPT !.m.defaults = Append(@, <<key, true_if_empty(r.val)>>)]
    ELSE [r EXCEPT !.m.extra = (key :> r.val) @@ @]

(* One item: [m, in, found] with the configuration it names, if any.        *)
read_item(m, in) ==
    LET key == read_word(in)
        rest == SkipWord(in)
        Found(r, f) == [m |-> r.m, in |-> r.in, found |-> f]
    IN  IF key = "load" THEN Found(handle_load_command(m, rest), <<>>)
        ELSE IF key \in DOMAIN m_spec(m)
        THEN config_item(parse_arglist(m, rest, options_for_config(m, m_spec(m)[key])), m_spec(m)[key])
        ELSE Found(default_item(read_value(m, rest), key), <<>>)

(* r is the item read last, ret what was found before it.                   *)
RECURSIVE read_items(_, _)
read_items(r, ret) ==
    IF r.m.err # "" THEN [m |-> r.m, ret |-> ret]
    ELSE IF r.in = <<>> THEN [m |-> r.m, ret |-> ret \o r.found]
    ELSE IF read_char(r.in) = "," THEN read_items(read_item(r.m, Tail(r.in)), ret \o r.found)
    ELSE [m |-> set_error(r.m, "char"), ret |-> ret \o r.found]

ParseItems(m, toks) ==
    IF toks = <<>> THEN [m |-> m, ret |-> <<>>] ELSE read_items(read_item(m, toks), <<>>)

parse_configstring(m, toks) == ParseItems(import_builtin_config_specs(m), toks)

(* --- From a parsed configuration to a controller ------------------------- *)
merge_new_elements(to, from) ==
    FoldLeft(LAMBDA l, p : IF find_arg(l, p[1]) = <<>> THEN Append(l, p) ELSE l, to, from)

DefaultsFor(m, name) == IF name \in DOMAIN m.defaultsFor THEN m.defaultsFor[name] ELSE <<>>

(* As if the general defaults came before those of the configuration.       *)
add_default_parameters_general(m, args, spec) ==
    merge_new_elements(merge_new_elements(merge_new_elements(args,
        m.defaults), DefaultsFor(m, spec.name)), spec.defaults)

add_default_parameters(m, args, spec) ==
    merge_new_elements(merge_new_elements(merge_new_elements(args,
        DefaultsFor(m, spec.name)), m.defaults), spec.defaults)

make_options(m, cfg) ==
    Options(options_for_config(m, cfg.spec), add_default_parameters(m, cfg.args, cfg.spec))

ts_options == <<"iteration_interval", "time_interval", "target_loops">>

(* The string spot builds for its own time series manager.                  *)
get_timeseries_config_string(opts) ==
    LET Given(o) == is_set(opts, "timeseries." \o o)
        Word(o) == <<"w", get(opts, "timeseries." \o o, "")>>
        items == (IF Given("metrics") THEN <<<<Word("metrics")>> >> ELSE <<>>)
                 \o [i \in DOMAIN SelectSeq(ts_options, Given) |->
                       LET o == SelectSeq(ts_options, Given)[i]
                       IN  <<<<"w", o>>, <<"=">>, Word(o)>>]
    IN  <<<<"w", "spot.timeseries">>, <<"(">> >>
        \o FlattenSeq([i \in DOMAIN items |-> IF i = 1 THEN items[i] ELSE <<<<",">> >> \o items[i]])
        \o <<<<")">> >>

timeseries_manager == add_config_spec(NewManager, cm_tables.timeseries)

parse_timeseries(opts) == parse_configstring(timeseries_manager, get_timeseries_config_string(opts))

AllCheck(r) == r.m.err = "" /\ \A i \in DOMAIN r.ret : opts_check(make_options(r.m, r.ret[i]))

check_spot_timeseries_args(opts) ==
    IF is_enabled(opts, "timeseries") THEN AllCheck(parse_timeseries(opts))
    ELSE \A o \in {"maxrows", "iteration_interval", "time_interval", "target_loops", "metrics"} :
            ~is_set(opts, "timeseries." \o o)

check_args(spec, opts) ==
    LET format == get(opts, "output.format", "json-split")
    IN  CASE spec.make \in {"RegionProfile", "CudaProfile", "RocmProfile"} -> format \in Allowed
          [] spec.make = "SampleProfile" -> "sampler" \in Services /\ format \in Allowed \ {"hatchet"}
          [] spec.make = "Spot" -> check_spot_timeseries_args(opts)
          [] OTHER -> TRUE

TimeseriesChannels(r) ==
    IF r.m.err # "" THEN <<>>
    ELSE [i \in DOMAIN r.ret |-> SpotTimeseriesController(r.ret[i].spec, make_options(r.m, r.ret[i]))]

create(spec, opts) ==
    CASE spec.make = "RuntimeReport" -> RuntimeReportController(spec, opts)
      [] spec.make = "SampleReport" -> SampleReportController(spec, opts)
      [] spec.make = "OpenMPReport" -> OpenMPReportController(spec, opts)
      [] spec.make = "CudaReport" -> CudaActivityReportController(spec, opts)
      [] spec.make = "RocmReport" -> RocmActivityReportController(spec, opts)
      [] spec.make = "RegionProfile" -> HatchetRegionProfileController(spec, opts)
      [] spec.make = "SampleProfile" -> HatchetSampleProfileController(spec, opts)
      [] spec.make = "CudaProfile" -> CudaActivityProfileController(spec, opts)
      [] spec.make = "RocmProfile" -> RocmActivityProfileController(spec, opts)
      [] spec.make = "LoopReport" -> LoopReportController(spec, opts)
      [] spec.make = "SpotTimeseries" -> SpotTimeseriesController(spec, opts)
      [] spec.make = "Basic" -> make_basic_channel_controller(spec, opts)
      [] spec.make = "Spot" ->
            [SpotController(spec, opts) EXCEPT !.ts =
                IF is_enabled(opts, "timeseries") THEN TimeseriesChannels(parse_timeseries(opts)) ELSE <<>>]

check_error(m, opts, spec) ==
    IF ~check_args(spec, opts) THEN set_error(m, "args")
    ELSE IF ~opts_check(opts) THEN set_error(m, "check") ELSE m

(* The controllers so far and one more, with the manager its checks left.   *)
AddController(ret, m, spec, opts) ==
    IF m.err # "" THEN [m |-> m, ret |-> <<>>]
    ELSE [m |-> m, ret |-> Append(ret, create(spec, opts))]

AddChecked(r, spec, opts) == AddController(r.ret, check_error(r.m, opts, spec), spec, opts)

AddAll(p) ==
    FoldLeft(LAMBDA r, cfg : IF r.m.err # "" THEN r ELSE AddChecked(r, cfg.spec, make_options(r.m, cfg)),
             [m |-> p.m, ret |-> <<>>], p.ret)

parse(m, toks) == AddAll(parse_configstring(m, toks))

Verdict(m, allow_extra_kv_pairs) ==
    IF ~allow_extra_kv_pairs /\ m.extra # <<>> THEN "unknown" ELSE m.err

(* As if check() looked at the syntax of the string only.                   *)
check_syntax(m, toks, allow_extra_kv_pairs) ==
    Verdict(parse_configstring(m, toks).m, allow_extra_kv_pairs)

CheckAll(p) ==
    FoldLeft(LAMBDA r, cfg : IF r.err # "" THEN r ELSE check_error(r, make_options(r, cfg), cfg.spec),
             p.m, p.ret)

check(m, toks, allow_extra_kv_pairs) ==
    Verdict(CheckAll(parse_configstring(m, toks)), allow_extra_kv_pairs)

(* --- The calls ----------------------------------------------------------- *)
(* A controller's channel, and the one of spot's time series manager: none  *)
(* yet, active or inactive.                                                 *)
Controllers(ret) ==
    [i \in DOMAIN ret |-> [conf |-> ret[i], chn |-> "none", ts |-> "none"]]

CMInit ==
    /\ cm_tables = Tables
    /\ cm = NewManager
    /\ cm_channels = <<>>
    /\ cm_log = <<>>

Log(call) == Len(cm_log) < MaxCalls /\ cm_log' = Append(cm_log, call)

(* The log keeps what check() said of the string, the error the string      *)
(* left behind and what add() returned.                                     *)
add(s, allow_extra_kv_pairs) ==
    \E r \in {parse(cm, s.toks)} :
    LET unknown == ~allow_extra_kv_pairs /\ r.m.extra # <<>>
    IN  /\ cm' = IF unknown THEN set_error(r.m, "unknown") ELSE r.m
        /\ cm_channels' = cm_channels \o Controllers(r.ret)
        /\ Log([call |-> "add", str |-> s, checked |-> check(cm, s.toks, allow_extra_kv_pairs),
                err |-> r.m.err, ok |-> cm'.err = ""])

set_default_parameter(p) ==
    /\ cm' = [cm EXCEPT !.defaults = Append(@, p)]
    /\ Log([call |-> "default", arg |-> p])
    /\ UNCHANGED cm_channels

set_default_parameter_for_config(name, p) ==
    /\ cm' = [cm EXCEPT !.defaultsFor = (name :> Append(DefaultsFor(cm, name), p)) @@ @]
    /\ Log([call |-> "default_for", config |-> name, arg |-> p])
    /\ UNCHANGED cm_channels

(* add_config_spec, add_option_spec and load.                               *)
extend(m) ==
    /\ cm' = m
    /\ Log([call |-> "extend"])
    /\ UNCHANGED cm_channels

(* ChannelController::start; creating spot's channel starts the time series *)
(* manager (on_create).                                                     *)
started(c) ==
    [c EXCEPT !.chn = "active", !.ts = IF c.chn = "none" /\ c.conf.ts # <<>> THEN "active" ELSE @]

start ==
    /\ cm_channels' = [i \in DOMAIN cm_channels |-> started(cm_channels[i])]
    /\ Log([call |-> "start"])
    /\ UNCHANGED cm

stop ==
    /\ cm_channels' = [i \in DOMAIN cm_channels |->
                          [cm_channels[i] EXCEPT !.chn = IF @ = "none" THEN @ ELSE "inactive"]]
    /\ Log([call |-> "stop"])
    /\ UNCHANGED cm

(* Caliper::release deletes the channels behind the controllers' backs.     *)
release ==
    /\ cm_channels' = [i \in DOMAIN cm_channels |->
                          [cm_channels[i] EXCEPT !.chn = "none", !.ts = "none"]]
    /\ Log([call |-> "release"])
    /\ UNCHANGED cm

CMNext ==
    \/ \E s \in Strings, allow \in BOOLEAN : add(s, allow)
    \/ \E p \in Params : set_default_parameter(p)
    \/ \E p \in Params, s \in {"runtime-report", "spot"} : set_default_parameter_for_config(s, p)
    \/ \E u \in UserSpecs : extend(add_user_spec(cm, u))
    \/ \E l \in UserOpts : extend(add_global_option_specs(cm, l))
    \/ \E f \in DOMAIN Files : extend(load_file(cm, f))
    \/ start
    \/ stop
    \/ release

-----------------------------------------------------------------------------
(* check() gives the same verdict as add() would: both accept the string or *)
(* both refuse it, in every state of the manager.                           *)
CheckPredictsAdd ==
    \A i \in DOMAIN cm_log :
        cm_log[i].call = "add" => (cm_log[i].checked = "") = cm_log[i].ok

(* What the calls ask for, from the items of the strings: [kind, name,      *)
(* args], where an option's arguments are its own name and value.           *)
DefaultsGiven(log) ==
    FlattenSeq([i \in DOMAIN log |->
        CASE log[i].call = "default" -> <<log[i].arg>>
          [] log[i].call = "add" ->
                LET os == SelectSeq(log[i].str.items, LAMBDA x : x.kind = "option")
                IN  [j \in DOMAIN os |-> os[j].args[1]]
          [] OTHER -> <<>>])

DefaultsGivenFor(log, name) ==
    LET ds == SelectSeq(log, LAMBDA e : e.call = "default_for" /\ e.config = name)
    IN  [i \in DOMAIN ds |-> ds[i].arg]

Asked(log) ==
    FlattenSeq([i \in DOMAIN log |->
        IF log[i].call # "add" \/ log[i].err # "" THEN <<>>
        ELSE LET cs == SelectSeq(log[i].str.items, LAMBDA x : x.kind = "config" /\ x.name \in DOMAIN m_spec(cm))
                 before == SubSeq(log, 1, i)
             IN  [j \in DOMAIN cs |->
                    [name |-> cs[j].name,
                     args |-> cs[j].args \o DefaultsGivenFor(before, cs[j].name)
                              \o DefaultsGiven(before) \o m_spec(cm)[cs[j].name].defaults]]])

(* The manager's channels are those the accepted strings name, in order,    *)
(* none of a refused one; an option of a channel has the value given with   *)
(* it, else the one set for its configuration, else the first general       *)
(* default, which may come later in the same string, else the built-in one. *)
ChannelsExact ==
    /\ Len(Asked(cm_log)) = Len(cm_channels)
    /\ \A i \in DOMAIN cm_channels :
        LET conf == cm_channels[i].conf
            want == Asked(cm_log)[i]
        IN  /\ conf.name = want.name
            /\ {conf.args[j][1] : j \in DOMAIN conf.args} = {want.args[j][1] : j \in DOMAIN want.args}
            /\ \A j \in DOMAIN conf.args :
                    find_arg(conf.args, conf.args[j][1])[1] = find_arg(want.args, conf.args[j][1])[1]

(* No channel asks for a service the build does not have: a configuration   *)
(* or an option that needs one is refused.                                  *)
ServicesAvailable ==
    \A i \in DOMAIN cm_channels :
        LET conf == cm_channels[i].conf
        IN  \A c \in {conf} \cup ToSet(conf.ts) : c.svc \subseteq Services

(* The attributes a query over merged results reads and those the           *)
(* per-process query produces.                                              *)
Kernels == INSTANCE QueryKernels

Computed(q) == SelectSeq(q.sel \o q.aggr, LAMBDA c : c.op # "")

Read(q) ==
    UNION {{k.tgt, k.tgt2} : k \in ToSet(Computed(q))} \ {""}

Produced(q) ==
    ToSet(q.group) \cup UNION {Kernels!ResultAttrs(k) : k \in ToSet(Computed(q))}

Unfed(conf) == IF conf.cross = NoQuery THEN {} ELSE Read(conf.cross) \ Produced(conf.local)

(* The queries over the merged results use the results of the per-process   *)
(* queries as their input (ConfigManager.h, add_option_spec).               *)
CrossUsesLocal ==
    \A i \in DOMAIN cm_channels : Unfed(cm_channels[i].conf) = {}

(* The attributes that CrossUsesLocal finds to have no source.              *)
UnfedAttributes ==
    {"ratio#irb.bytes_read/irb.time.ns", "ratio#iwb.bytes.written/iwb.time",
     "inclusive#scale#time.duration.ns"}

(* Every other attribute a query over merged results reads is a result of   *)
(* the per-process query, whatever options are combined.                    *)
CrossFed ==
    \A i \in DOMAIN cm_channels : Unfed(cm_channels[i].conf) \subseteq UnfedAttributes

(* stop() pauses all measurement channels.                                  *)
StopPauses ==
    cm_log # <<>> /\ cm_log[Len(cm_log)].call = "stop" =>
        \A i \in DOMAIN cm_channels : "active" \notin {cm_channels[i].chn, cm_channels[i].ts}

=============================================================================
