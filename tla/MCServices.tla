---------------------------- MODULE MCServices -----------------------------
(***************************************************************************)
(* The services and the interfaces of the runtime, one at a time: part     *)
(* says which one a behaviour is about, and the variables of the others    *)
(* stay 0; those of Samplers stay in an initial state.                     *)
(***************************************************************************)
EXTENDS Integers, Sequences, TLC, Samplers

CONSTANTS
    main_thread, worker1, worker2, NoData, MsThreads, MsMain, MsRegions, PapiComponent, PapiLists, MAX_COUNTERS,
    LibpfmEvents, MsMaxWork, MsMaxFaults, MsMaxOpen, MsSpawn,
    Program, Internal, MAX_PATH, CpConfigs, Symbols, CpMaxRecords, CpMaxFlushes,
    TdRecords, PmRecords, DataSources, Statms, Allocators, Powers,
    AlConfigs,
    MonConfigs, AttrInfo, MonMaxTime, MonMaxCount,
    ApiConfigs, NoAttr, ApiMaxObjs, ApiMaxChans,
    VlMax, IntMax, BlockSize, MaxEntries, MoveBlk, Slack, CodecConfigs,
    MpiConfigs, MpiMaxOps, World

VARIABLES
    part,
    svc, mode, life, work, td, inst, ms_pending, err, faults, sum, seen, open, said,
    cp_cfg, recs, links, cache, failed, out,
    job, input, result,
    al_cfg, heap, tree, mem, tracked, al_active, call, snaps, al_faults,
    mc, paths, errs, now, sv, last,
    ac, attribute_map, frame, board, stack_error, channels, objs, scope, got, globals_set,
    cx, cr, snapbuf, nodebuf, sent, received, conv, calls,
    mcx, mwcs, chan, wrap_count, depth, reqs, ops, req_map, comm_map, comm_id, pending, events, due

Ms == INSTANCE Measurements WITH pending <- ms_pending
Cp == INSTANCE Callpath
Dv == INSTANCE Derived
Al == INSTANCE Alloc
Mn == INSTANCE Monitors
Ap == INSTANCE Api
Co == INSTANCE MCCodec
CoData == INSTANCE MCCodec WITH CodecConfigs <- {}
Mp == INSTANCE MpiTrace

----------------------------------------------------------------------------
(* Measurements: a counter list in one or two components, with an unknown   *)
(* counter, or too long.                                                    *)
MsComps == [L1 |-> 1, L2 |-> 1, PWR |-> 2]
MsLists == {<<>>, <<"L1", "L2", "PWR">>, <<"L1", "XX">>, <<"L1", "L2", "PWR", "L1">>}
MsSpawned == [timer |-> {worker1}, papi |-> {worker1, worker2}, libpfm |-> {worker1},
              template |-> {worker1}, pcp |-> {worker1}]
MsLEvents == <<"cycles", "instr">>

(* Callpath: stacks through a library of Caliper, and one address without   *)
(* debug information.                                                       *)
CpStacks == { <<"main", "f", "lib", "h">>, <<"main", "g", "h">>, <<"main">>, <<"main", "g", "x">> }
CpDebug == [main |-> [module |-> "a.out", file |-> "m.c", function |-> "main", line |-> 1],
            f |-> [module |-> "a.out", file |-> "m.c", function |-> "f", line |-> 7],
            g |-> [module |-> "a.out", file |-> "g.c", function |-> "g", line |-> 7],
            h |-> [module |-> "h.so", file |-> "h.c", function |-> "h", line |-> 3]]
CpCfgs == { [skip_frames |-> k, skip_internal |-> i, what |-> s] :
              k \in {0, 1}, i \in BOOLEAN,
              s \in {{"module", "source.function", "sourceloc"}, {}, {"source.file", "source.line"}} }

(* Derived: every counter missing, zero or positive.                        *)
Known(f) == [x \in {y \in DOMAIN f : f[y] >= 0} |-> f[x]]
Small == {-1, 0, 1, 3}
DvTop == {Known(f) : f \in [{"clk", "retired", "issued", "recovery", "not_delivered"} -> Small]}
DvBack == {Known([clk |-> c, ldm |-> 2, noexec |-> 1, ge1 |-> 2, ge2 |-> 1, l3miss |-> mi,
                  l3hit |-> h, l2p |-> l2, l1p |-> 2, cycles0 |-> z, misp |-> p, clears |-> k]) :
             c \in {-1, 0, 1, 2, 4}, mi \in Small, h \in {-1, 0, 1}, l2 \in {-1, 1},
             z \in Small, p \in {-1, 0, 1}, k \in {-1, 0, 1}}
DvTd == DvTop \cup DvBack
DvPcp == {Known(f) : f \in [{"rd0", "rd1", "wr0", "wr1"} -> {-1, 0, 2}]}
DvBits == SUBSET {"LVL_NA", "LVL_L1", "LVL_L3", "LVL_HIT", "LVL_MISS", "OP_LOAD", "SNOOP_NONE", "TLB_L1"}
Digits == {<<"0">>, <<"1", "0">>, <<"4", "2">>}
DvTexts == [1 .. 6 -> Digits] \cup [1 .. 7 -> {<<"7">>}]
Allocator(n, k) == [name |-> n, size |-> k, actual |-> 2 * k, hwm |-> 3, count |-> k]
DvAllocs == [as : {<<Allocator("HOST", 1), Allocator("DEVICE", 2), Allocator("POOL", 4)>>, <<>>},
             filter : {<<>>, <<"HOST", "POOL">>, <<"UM">>}, each : BOOLEAN]
DvWatts == [domains : {<<"node">>, <<"node", "gpu">>}, watts : {[node |-> 90, gpu |-> 30], [gpu |-> 30]}]

(* Alloc: deep trees of one thread, two threads, failing allocations.       *)
AlCfgs == {[threads |-> {1}, top |-> 5, sizes |-> {1}, faults |-> 0, snaps |-> 0, total |-> 7],
           [threads |-> {1, 2}, top |-> 3, sizes |-> {1, 2}, faults |-> 0, snaps |-> 1, total |-> 3],
           [threads |-> {1, 2}, top |-> 2, sizes |-> {1}, faults |-> 2, snaps |-> 0, total |-> 3]}

(* Monitors: names are sequences of letters, so that prefixes and regular   *)
(* expressions differ.  MnBranchCfgs is the branch filter with two threads. *)
NA == <<"a">>
NAB == <<"a", "b">>
NC == <<"c">>
Comma == <<",">>
Filtering(k, ws) == <<<<k>>, <<"(">>>> \o ws \o <<<<")">>>>
Meaning(i, e, b) == [include |-> i, exclude |-> e, branch |-> b]
Match(names, starts, regex) == [match |-> names, startswith |-> starts, regex |-> regex]
NoMatch == Match({}, {}, {})
MnInfo(n, l, i, p) == [nested |-> n, level |-> l, skip |-> FALSE, iteration |-> i, process |-> p]
MnAttributes == [func |-> MnInfo(TRUE, 1, FALSE, FALSE), phase |-> MnInfo(TRUE, 4, FALSE, FALSE),
                 loop |-> MnInfo(TRUE, 1, FALSE, FALSE), iter |-> MnInfo(FALSE, 0, TRUE, FALSE),
                 flag |-> MnInfo(FALSE, 0, FALSE, FALSE), shared |-> MnInfo(FALSE, 0, FALSE, TRUE)]
MnVals == [func |-> {NA, NAB, NC}, phase |-> {NA}, loop |-> {NAB, NC}, iter |-> {<<0>>, <<1>>},
           flag |-> {NA, NC}, shared |-> {NA}]
MnBase == [svc |-> "event", threads |-> {1}, depth |-> 4, attrs |-> {"func", "phase"}, vals |-> MnVals,
           overlap |-> FALSE, triggers |-> {}, level |-> 0, include |-> <<>>, exclude |-> <<>>,
           branch |-> <<>>, meaning |-> Meaning(NoMatch, NoMatch, NoMatch),
           sets |-> {}, targets |-> {}, interval |-> 0, timed |-> FALSE, min |-> 0]
MnEvents ==
    {[MnBase EXCEPT !.branch = <<NA>>, !.meaning.branch = Match({NA}, {}, {})],
     [MnBase EXCEPT !.branch = Filtering("startswith", <<NA>>), !.exclude = <<NAB, Comma, NC>>,
                    !.meaning = Meaning(NoMatch, Match({NAB, NC}, {}, {}), Match({}, {NA}, {}))],
     [MnBase EXCEPT !.include = Filtering("match", <<NA, Comma, NC>>) \o <<Comma>>
                                  \o Filtering("regex", <<<<"a", "b", "*">>>>),
                    !.level = 2, !.meaning.include = Match({NA, NC}, {}, {<<"a", "b", "*">>})],
     [MnBase EXCEPT !.include = <<<<"match">>, <<"(">>, NA>>],      \* missing ): no filter
     [MnBase EXCEPT !.triggers = {"func", "flag"}, !.attrs = {"func", "phase", "flag"}, !.sets = {"flag"},
                    !.depth = 3]}
MnLoops ==
    {[MnBase EXCEPT !.svc = "loop", !.attrs = {"loop", "iter"}, !.targets = tg, !.interval = i, !.timed = t] :
       tg \in {{}, {NA}, {NC}}, i \in {0, 2}, t \in BOOLEAN}
MnOthers ==
    {[MnBase EXCEPT !.svc = "region", !.attrs = {"func"}, !.vals.func = {NA, NC}, !.depth = 3],
     [MnBase EXCEPT !.svc = "validator", !.attrs = {"func", "loop", "shared"}, !.vals.func = {NA, NC},
                    !.vals.loop = {NA}, !.depth = 2, !.overlap = TRUE, !.threads = {1, 2}],
     [MnBase EXCEPT !.svc = "binding", !.attrs = {"func", "flag"}, !.exclude = <<NC>>],
     [MnBase EXCEPT !.svc = "binding", !.attrs = {"func", "flag"}, !.triggers = {"flag", "func"}, !.include = <<NC>>]}
MnCfgs == MnEvents \cup MnLoops \cup MnOthers
MnBranchCfgs == {[MnBase EXCEPT !.threads = {1, 2}, !.depth = 2, !.branch = <<NA>>, !.attrs = {"func"},
                                !.meaning.branch = Match({NA}, {}, {})]}

(* Samplers.                                                                *)
Smc(s, j, ws) == [svc |-> s, workers |-> ws, faults |-> 1, ticks |-> 3, handlers |-> 3, joined |-> j]
SmCfgs == {Smc("sampler", TRUE, {"w"}), Smc("thread_monitor", FALSE, {"w"}), Smc("pthread", FALSE, {"w", "x"})}

(* Api.  ApShareCfgs has Annotation objects that two threads share.         *)
Ap_(calls_, thrs, names, types, share, deep) ==
    [ops |-> calls_, threads |-> thrs, names |-> names, types |-> types,
     presets |-> "p" :> {"asvalue", "global"}, scope |-> "thread", share |-> share, depth |-> deep]
ApCfgs == { Ap_({"byname"}, {1, 2}, {"a"}, {"int", "string"}, FALSE, 1),
            Ap_({"create", "channels"}, {1, 2}, {"a", "p"}, {"int", "string"}, FALSE, 1),
            Ap_({"globals", "channels", "regions"}, {1}, {"g", "p"}, {"int"}, FALSE, 2),
            Ap_({"objects"}, {1, 2}, {"a"}, {"int"}, FALSE, 3),
            Ap_({"objects", "annotations"}, {1}, {"a"}, {"int"}, FALSE, 4) }
ApShareCfgs == { Ap_({"annotations"}, {1, 2}, {"a"}, {"int"}, TRUE, 2) }

CoCfgs == CoData!CodecCfgs

(* MpiTrace.  MpSomeCfgs completes some of several requests; in MpReuseCfgs *)
(* another thread reuses the handle of a completed request at once.         *)
TraceAll == [white |-> <<"all">>, black |-> <<>>, tracing |-> TRUE]
Msg(p, n) == [peer |-> p, size |-> n]
MpBase == [threads |-> {"t1"}, chans |-> [c1 |-> TraceAll], fns |-> {}, handles |-> {"h1", "h2"},
           comms |-> {World}, msgs |-> {Msg(0, 1), Msg(1, 2)}, ops |-> {}, rank |-> 1, toggle |-> FALSE,
           reuse |-> TRUE]
Calling(fns, cfg) == [cfg EXCEPT !.ops = fns, !.fns = fns]
MpRequests == Calling({"Irecv", "Recv_init", "Start", "Wait", "Waitall", "Request_free"}, MpBase)
MpPersistent == Calling({"Send_init", "Recv_init", "Start", "Wait", "Waitany", "Request_free"}, MpBase)
MpColl == Calling({"Send", "Recv", "Sendrecv", "Bcast", "Gather", "Allreduce", "Barrier"},
                  [MpBase EXCEPT !.comms = {World, "sub"}])
MpToggle == Calling({"Irecv", "Wait", "Send", "Testsome"},
               [MpBase EXCEPT !.toggle = TRUE, !.reuse = FALSE, !.handles = {"h1", "h2", "h3"},
                              !.msgs = {Msg(0, 1)},
                              !.chans = [c1 |-> TraceAll,
                                         c2 |-> [white |-> <<>>, black |-> <<"Send">>, tracing |-> TRUE]]])
MpThreads == Calling({"Irecv", "Wait", "Send"},
               [MpBase EXCEPT !.threads = {"t1", "t2"}, !.reuse = FALSE, !.handles = {"h1", "h2", "h3"}])
MpCfgs == {MpRequests, MpPersistent, MpColl, MpToggle, MpThreads}
MpSomeCfgs == {Calling({"Irecv", "Waitsome"}, MpBase)}
MpReuseCfgs == {Calling({"Irecv", "Wait"}, [MpBase EXCEPT !.threads = {"t1", "t2"}, !.handles = {"h1"}])}

----------------------------------------------------------------------------
ms_vars == <<svc, mode, life, work, td, inst, ms_pending, err, faults, sum, seen, open, said>>
cp_vars == <<cp_cfg, recs, links, cache, failed, out>>
dv_vars == <<job, input, result>>
al_vars == <<al_cfg, heap, tree, mem, tracked, al_active, call, snaps, al_faults>>
mn_vars == <<mc, paths, errs, now, sv, last>>
ap_vars == <<ac, attribute_map, frame, board, stack_error, channels, objs, scope, got, globals_set>>
co_vars == <<cx, cr, snapbuf, nodebuf, sent, received, conv, calls>>
mp_vars == <<mcx, mwcs, chan, wrap_count, depth, reqs, ops, req_map, comm_map, comm_id, pending, events, due>>

NoMs == /\ svc = 0 /\ mode = 0 /\ life = 0 /\ work = 0 /\ td = 0 /\ inst = 0 /\ ms_pending = 0
        /\ err = 0 /\ faults = 0 /\ sum = 0 /\ seen = 0 /\ open = 0 /\ said = 0
NoCp == cp_cfg = 0 /\ recs = 0 /\ links = 0 /\ cache = 0 /\ failed = 0 /\ out = 0
NoDv == job = 0 /\ input = 0 /\ result = 0
NoAl == /\ al_cfg = 0 /\ heap = 0 /\ tree = 0 /\ mem = 0 /\ tracked = 0 /\ al_active = 0
        /\ call = 0 /\ snaps = 0 /\ al_faults = 0
NoMn == mc = 0 /\ paths = 0 /\ errs = 0 /\ now = 0 /\ sv = 0 /\ last = 0
NoSm == SmInit /\ sm = CHOOSE c \in SmConfigs : TRUE
NoAp == /\ ac = 0 /\ attribute_map = 0 /\ frame = 0 /\ board = 0 /\ stack_error = 0
        /\ channels = 0 /\ objs = 0 /\ scope = 0 /\ got = 0 /\ globals_set = 0
NoCo == /\ cx = 0 /\ cr = 0 /\ snapbuf = 0 /\ nodebuf = 0 /\ sent = 0 /\ received = 0
        /\ conv = 0 /\ calls = 0
NoMp == /\ mcx = 0 /\ mwcs = 0 /\ chan = 0 /\ wrap_count = 0 /\ depth = 0 /\ reqs = 0 /\ ops = 0
        /\ req_map = 0 /\ comm_map = 0 /\ comm_id = 0 /\ pending = 0 /\ events = 0 /\ due = 0

ServicesInit ==
    /\ part \in {"ms", "cp", "dv", "al", "mn", "sm", "ap", "co", "mp"}
    /\ IF part = "ms" THEN Ms!MsInit ELSE NoMs
    /\ IF part = "cp" THEN Cp!CpInit ELSE NoCp
    /\ IF part = "dv" THEN Dv!DvInit ELSE NoDv
    /\ IF part = "al" THEN Al!AlInit ELSE NoAl
    /\ IF part = "mn" THEN Mn!MonInit ELSE NoMn
    /\ IF part = "sm" THEN SmInit ELSE NoSm
    /\ IF part = "ap" THEN Ap!ApiInit ELSE NoAp
    /\ IF part = "co" THEN Co!CodecInit ELSE NoCo
    /\ IF part = "mp" THEN Mp!MpiInit ELSE NoMp

ServicesNext ==
    \/ part = "ms" /\ Ms!MsNext
       /\ UNCHANGED <<part, cp_vars, dv_vars, al_vars, mn_vars, smvars, ap_vars, co_vars, mp_vars>>
    \/ part = "cp" /\ Cp!CpNext
       /\ UNCHANGED <<part, ms_vars, dv_vars, al_vars, mn_vars, smvars, ap_vars, co_vars, mp_vars>>
    \/ part = "dv" /\ Dv!DvNext
       /\ UNCHANGED <<part, ms_vars, cp_vars, al_vars, mn_vars, smvars, ap_vars, co_vars, mp_vars>>
    \/ part = "al" /\ Al!AlNext
       /\ UNCHANGED <<part, ms_vars, cp_vars, dv_vars, mn_vars, smvars, ap_vars, co_vars, mp_vars>>
    \/ part = "mn" /\ Mn!MonNext
       /\ UNCHANGED <<part, ms_vars, cp_vars, dv_vars, al_vars, smvars, ap_vars, co_vars, mp_vars>>
    \/ part = "sm" /\ SmNext
       /\ UNCHANGED <<part, ms_vars, cp_vars, dv_vars, al_vars, mn_vars, ap_vars, co_vars, mp_vars>>
    \/ part = "ap" /\ Ap!ApiNext
       /\ UNCHANGED <<part, ms_vars, cp_vars, dv_vars, al_vars, mn_vars, smvars, co_vars, mp_vars>>
    \/ part = "co" /\ Co!CodecNext
       /\ UNCHANGED <<part, ms_vars, cp_vars, dv_vars, al_vars, mn_vars, smvars, ap_vars, mp_vars>>
    \/ part = "mp" /\ Mp!MpiNext
       /\ UNCHANGED <<part, ms_vars, cp_vars, dv_vars, al_vars, mn_vars, smvars, ap_vars, co_vars>>

----------------------------------------------------------------------------
(* The counter and timer services: what the records of a thread say adds up *)
(* to the work it did, also when reads fail, regions are timed inclusively  *)
(* or threads end, and the list of threads holds the living ones            *)
(* (Measurements).                                                          *)
MeasuredExact == part = "ms" => Ms!MeasuredExact /\ Ms!InclusiveExact /\ Ms!ThreadListExact

(* Symbol lookup names the functions of every address once, from a cache    *)
(* kept over flushes (Callpath).                                            *)
SymbolsExact == part = "cp" => Cp!SymbolsExact

(* Values derived from counters, data sources, /proc and allocators follow  *)
(* from what was read, and nothing is derived from what was not (Derived).  *)
DerivedSound == part = "dv" => Dv!DerivedSound

(* The tracked allocations are those that live, an address resolves to the  *)
(* one around it, and active and peak memory are exact (Alloc).             *)
MemoryExact == part = "al" => Al!AccountExact /\ Al!ResolveExact

(* The event, monitor, validator and binding services see the regions that  *)
(* are selected, in balance: triggers, iterations, times, verdicts and the  *)
(* state of a bound tool are those of the regions of the thread (Monitors). *)
MonitorsExact ==
    part = "mn" => /\ Mn!EventsSelected /\ Mn!IterationsExact /\ Mn!RegionTimesExact
                   /\ Mn!VerdictExact /\ Mn!ToolFollows

(* An attribute has one id, type and set of properties per name whichever   *)
(* call or thread asks first; queries agree with the regions that are open, *)
(* and scoped objects close what they opened (Api).                         *)
InterfaceExact == part = "ap" => Ap!AttributesExact /\ Ap!SnapshotAgrees /\ Ap!ScopesExact

(* Records, nodes and values survive encoding, decoding and conversion,     *)
(* and what does not fit a buffer is left out whole (Codec).                *)
CodecExact == part = "co" => Co!RecordExact /\ Co!StreamExact /\ Co!ConvertExact

(* Each message is reported once to each channel that traces it, when it    *)
(* was sent or its request completed, and functions are wrapped for as many *)
(* channels as enable them (MpiTrace).                                      *)
MessagesExact == part = "mp" => Mp!MessagesExact /\ Mp!WrapCounted
=============================================================================
