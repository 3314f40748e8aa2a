---------------------------- MODULE Measurements ----------------------------
(***************************************************************************)
(* The measurement services: callbacks that append counter values to every *)
(* snapshot of a channel.  timer, papi, libpfm (its counters) and the      *)
(* measurement template keep what they need per thread, pcp keeps it per   *)
(* process.  The model runs one of them (svc) under threads that work,     *)
(* enter and leave regions, are sampled from a signal handler, start and   *)
(* end; every call into a counter library may fail.                        *)
(*                                                                         *)
(* A counter is what it counts: work[t] for the per-thread counters, the   *)
(* clock (all work done) for timer, the template and pcp.                  *)
(***************************************************************************)
EXTENDS Integers, SequencesExt, FiniteSetsExt, TLC

CONSTANTS MsThreads,     \* the threads; MsMain calls the initialization
          MsMain,
          MsRegions,     \* region attributes
          PapiComponent, \* PAPI's event table: event -> component
          PapiLists,     \* configured papi.counters lists
          MAX_COUNTERS,
          LibpfmEvents,  \* libpfm.events, in order
          NoData,        \* a null thread data pointer
          MsMaxWork, MsMaxFaults, MsMaxOpen, \* bounds on a behaviour
          MsSpawn        \* service -> the threads a behaviour may start

VARIABLES svc,    \* the service under observation
          mode,   \* "registered", "running", "dropped", "finished", "dead"
          life,   \* thread -> "new", "live" or "gone"
          work,   \* thread -> events counted on it
          td,     \* thread -> its service data, or NoData
          inst,   \* the service instance: what the threads share
          pending,\* thread -> a pcp snapshot in progress
          err,    \* the error counters of the instance that are not zero
          faults, \* library calls that failed so far
          sum,    \* thread -> attribute -> total of the values recorded
          seen,   \* thread -> attribute -> counter at the last good reading
          open,   \* thread -> regions it is in, innermost last: [attr, at]
          said    \* inclusive durations: the last one recorded, and the true one

msvars == <<svc, mode, life, work, td, inst, pending, err, faults, sum, seen, open, said>>

Clock == MapThenSumSet(LAMBDA t : work[t], MsThreads)
CanFail == faults < MsMaxFaults
\* the name of a value attribute of a service, and what it measures
PcpMetric == "pcp.metric"
TimerAttr == "time.duration.ns"
TemplateAttr == "measurement.a"
MsAttrs == CASE svc = "papi"   -> DOMAIN PapiComponent
             [] svc = "libpfm" -> ToSet(LibpfmEvents)
             [] svc = "timer"  -> {TimerAttr}
             [] svc = "pcp"    -> {PcpMetric}
             [] OTHER          -> {TemplateAttr}

Zero == [x \in MsAttrs |-> 0]
Count(e, k) == e \cup {k}

-----------------------------------------------------------------------------
(* papi: PAPI event sets, one per component and thread, read and reset at  *)
(* every snapshot.                                                         *)

\* the events that are known, up to MAX_COUNTERS, grouped by component
setup_event_info(eventlist) ==
    LET known == SelectSeq(eventlist, LAMBDA e : e \in DOMAIN PapiComponent)
        taken == SubSeq(known, 1, IF Len(known) < MAX_COUNTERS THEN Len(known)
                                                              ELSE MAX_COUNTERS)
        groups == [c \in {PapiComponent[e] : e \in ToSet(taken)} |->
                     SelectSeq(taken, LAMBDA e : PapiComponent[e] = c)]
    IN [ok |-> Len(taken) = Len(eventlist), groups |-> groups]

\* Event sets for one thread: added[c] of the events of component c go in, and
\* a component that takes none makes the whole setup fail.
Short(groups, a) == Cardinality({c \in DOMAIN groups : a[c] < Len(groups[c])})
SetupChoices(groups, f) ==
    {a \in [DOMAIN groups -> 0 .. MAX_COUNTERS] :
       /\ \A c \in DOMAIN groups : a[c] <= Len(groups[c])
       /\ f + Short(groups, a) <= MsMaxFaults}
setup_thread_eventsets(a) ==
    IF \E c \in DOMAIN a : a[c] = 0 THEN NoData
    ELSE [c \in DOMAIN a |-> [n |-> a[c], on |-> FALSE, base |-> 0, from |-> 0]]

\* The doubly linked list of the threads' data.
Link(l, t) ==
    [head |-> t, next |-> [l.next EXCEPT ![t] = l.head],
     prev |-> IF l.head = NoData THEN l.prev ELSE [l.prev EXCEPT ![l.head] = t]]
unlink(l, t) ==
    [l EXCEPT !.prev = IF l.next[t] = NoData THEN @
                       ELSE [@ EXCEPT ![l.next[t]] = l.prev[t]],
              !.next = IF l.prev[t] = NoData THEN @
                       ELSE [@ EXCEPT ![l.prev[t]] = l.next[t]]]
\* the list's part of finish_thread_eventsets, and a version without the head
RemoveInfo(l, t) ==
    [unlink(l, t) EXCEPT !.head = IF @ = t THEN l.next[t] ELSE @]
NoList == [head |-> NoData, next |-> [t \in MsThreads |-> NoData],
           prev |-> [t \in MsThreads |-> NoData]]

\* Starts the event sets in order, until one of them (the first of `stopped`)
\* cannot be started.
start_thread_counting(d, t, stopped) ==
    [c \in DOMAIN d |-> [d[c] EXCEPT !.on = c \notin stopped,
                                     !.base = work[t], !.from = work[t]]]
Unstarted(d) == {{c \in DOMAIN d : c >= k} : k \in DOMAIN d}

\* One event set: a failed read returns before the reset; a reset that fails
\* leaves the values to be counted again.
read_events_always(es, now, failread, failreset) ==
    [delta |-> IF failread \/ ~es.on THEN 0 ELSE now - es.base,
     es    |-> IF failreset THEN es ELSE [es EXCEPT !.base = now]]
read_events(es, now, failread, failreset) ==
    [delta |-> IF failread \/ ~es.on THEN 0 ELSE now - es.base,
     es    |-> IF failread \/ failreset THEN es ELSE [es EXCEPT !.base = now]]

\* the events of thread t's event set for component c
EventsOf(t, c) == SubSeq(inst.groups[c], 1, td[t][c].n)

papi_register ==
    \E list \in PapiLists, lib \in {TRUE} \cup (IF CanFail THEN {FALSE} ELSE {}) :
       LET info == setup_event_info(list)
           f    == faults + (IF lib THEN 0 ELSE 1)
       IN IF list = <<>> \/ ~lib \/ ~info.ok
          THEN /\ mode' = "dropped"
               /\ faults' = f
               /\ UNCHANGED <<td, inst>>
          ELSE \E a \in SetupChoices(info.groups, f) :
               LET d == setup_thread_eventsets(a)
               IN /\ faults' = f + Short(info.groups, a)
                  /\ IF d = NoData
                     THEN /\ mode' = "dropped"
                          /\ UNCHANGED <<td, inst>>
                     ELSE /\ mode' = "registered"
                          /\ td' = [td EXCEPT ![MsMain] = d]
                          /\ inst' = [groups |-> info.groups, list |-> Link(NoList, MsMain)]

papi_start(d, t, f) ==
    \/ /\ td' = [td EXCEPT ![t] = start_thread_counting(d, t, {})]
       /\ faults' = f
       /\ UNCHANGED err
    \/ /\ f < MsMaxFaults
       /\ \E stopped \in Unstarted(d) :
            td' = [td EXCEPT ![t] = start_thread_counting(d, t, stopped)]
       /\ faults' = f + 1
       /\ err' = Count(err, "start")

papi_create_thread(t) ==
    \E a \in SetupChoices(inst.groups, faults) :
       LET d == setup_thread_eventsets(a)
           f == faults + Short(inst.groups, a)
       IN IF d = NoData
          THEN /\ faults' = f
               /\ UNCHANGED <<td, inst, err>>
          ELSE /\ inst' = [inst EXCEPT !.list = Link(@, t)]
               /\ papi_start(d, t, f)

\* finish_thread_eventsets: counts an error when there is nothing to finish
papi_release_thread(t) ==
    IF td[t] = NoData
    THEN /\ err' = Count(err, "acquire")
         /\ UNCHANGED <<td, inst>>
    ELSE /\ td' = [td EXCEPT ![t] = NoData]
         /\ inst' = [inst EXCEPT !.list = RemoveInfo(@, t)]
         /\ UNCHANGED err

\* The snapshot dereferences the thread's data even when there is none.
papi_snapshot(t) ==
    IF td[t] = NoData
    THEN /\ err' = Count(err, "acquire")
         /\ mode' = "dead"
         /\ UNCHANGED <<td, faults, sum, seen>>
    ELSE \E f \in {<<>>} \cup (IF CanFail THEN (DOMAIN td[t]) \X {"read", "reset"} ELSE {}) :
         LET Res(c) == read_events(td[t][c], work[t], f = <<c, "read">>, f = <<c, "reset">>)
             Comp(x) == PapiComponent[x]
             Reads(x) == /\ x \in DOMAIN PapiComponent
                         /\ Comp(x) \in DOMAIN td[t]
                         /\ Contains(EventsOf(t, Comp(x)), x)
                         /\ f # <<Comp(x), "read">>
         IN /\ td' = [td EXCEPT ![t] = [c \in DOMAIN @ |-> Res(c).es]]
            /\ sum' = [sum EXCEPT ![t] = [x \in MsAttrs |->
                         IF Reads(x) THEN @[x] + Res(Comp(x)).delta ELSE @[x]]]
            /\ seen' = [seen EXCEPT ![t] = [x \in MsAttrs |->
                          IF Reads(x) /\ td[t][Comp(x)].on
                          THEN work[t] - td[t][Comp(x)].from ELSE @[x]]]
            /\ faults' = faults + (IF f = <<>> THEN 0 ELSE 1)
            /\ err' = IF f = <<>> THEN err ELSE Count(err, f[2])
            /\ UNCHANGED mode

-----------------------------------------------------------------------------
(* libpfm: perf_event counters, one file per event and thread.             *)

\* setup_thread_events and begin_thread_sampling; an event that cannot be
\* attached is kept with an invalid file.
setup_thread_events(t, opened) ==
    [x \in ToSet(LibpfmEvents) |-> [on |-> x \in opened, base |-> work[t], from |-> work[t]]]
libpfm_start(t) ==
    \E closed \in {{}} \cup (IF CanFail THEN {{x} : x \in ToSet(LibpfmEvents)} ELSE {}) :
       /\ td' = [td EXCEPT ![t] = setup_thread_events(t, ToSet(LibpfmEvents) \ closed)]
       /\ faults' = faults + Cardinality(closed)

\* every event is read and then reset, whether or not the read succeeded
libpfm_snapshot(t) ==
    \E f \in {<<>>} \cup (IF CanFail /\ td[t] # NoData
                          THEN (DOMAIN td[t]) \X {"read", "reset"} ELSE {}) :
       LET evs      == IF td[t] = NoData THEN {} ELSE DOMAIN td[t]
           Reads(x) == x \in evs /\ td[t][x].on /\ f # <<x, "read">>
           Bad      == {x \in evs : ~td[t][x].on}
       IN /\ sum' = [sum EXCEPT ![t] = [x \in MsAttrs |->
                       IF Reads(x) THEN @[x] + work[t] - td[t][x].base ELSE @[x]]]
          /\ seen' = [seen EXCEPT ![t] = [x \in MsAttrs |->
                        IF Reads(x) THEN work[t] - td[t][x].from ELSE @[x]]]
          /\ td' = IF td[t] = NoData THEN td
                   ELSE [td EXCEPT ![t] = [x \in evs |->
                           IF f = <<x, "reset">> \/ x \in Bad THEN @[x]
                           ELSE [@[x] EXCEPT !.base = work[t]]]]
          /\ faults' = faults + (IF f = <<>> THEN 0 ELSE 1)
          /\ err' = err \cup (IF Bad = {} THEN {} ELSE {"read", "reset"})
                        \cup (IF f = <<>> THEN {} ELSE {f[2]})

-----------------------------------------------------------------------------
(* timer: time since the thread's previous snapshot, and inclusive times   *)
(* from a stack of begin times per region attribute.                       *)

NewTimerInfo == [prev |-> 0, stack |-> [a \in MsRegions |-> <<>>]]
acquire_timerinfo(t, signal) ==
    IF td[t] = NoData /\ ~signal THEN NewTimerInfo ELSE td[t]

TrueBegin(t, a) == open[t][SelectLastInSeq(open[t], LAMBDA r : r.attr = a)].at

timer_snapshot_cb(t, kind, a, signal) ==
    LET ti == acquire_timerinfo(t, signal)
        inclusive == kind # "none" /\ ~signal
    IN IF ti = NoData
       THEN UNCHANGED <<td, sum, seen, said, err>>
       ELSE /\ sum' = [sum EXCEPT ![t][TimerAttr] = @ + Clock - ti.prev]
            /\ seen' = [seen EXCEPT ![t][TimerAttr] = Clock]
            /\ LET new == [ti EXCEPT !.prev = Clock]
               IN CASE ~inclusive ->
                         /\ td' = [td EXCEPT ![t] = new]
                         /\ UNCHANGED <<said, err>>
                    [] inclusive /\ kind = "begin" ->
                         /\ td' = [td EXCEPT ![t] =
                                     [new EXCEPT !.stack[a] = Append(@, Clock)]]
                         /\ UNCHANGED <<said, err>>
                    [] inclusive /\ kind = "end" /\ ti.stack[a] = <<>> ->
                         /\ td' = [td EXCEPT ![t] = new]
                         /\ err' = Count(err, "stack")
                         /\ UNCHANGED said
                    [] OTHER ->
                         /\ td' = [td EXCEPT ![t] = [new EXCEPT !.stack[a] = Front(@)]]
                         /\ said' = [rec  |-> Clock - Last(ti.stack[a]),
                                     true |-> Clock - TrueBegin(t, a)]
                         /\ UNCHANGED err

-----------------------------------------------------------------------------
(* The measurement template: the previous value sits on the thread's       *)
(* blackboard and is exchanged for the new one.                            *)
template_snapshot_cb(t) ==
    LET prev == IF td[t] = NoData THEN 0 ELSE td[t]
    IN /\ td' = [td EXCEPT ![t] = Clock]
       /\ sum' = [sum EXCEPT ![t][TemplateAttr] = @ + Clock - prev]
       /\ seen' = [seen EXCEPT ![t][TemplateAttr] = Clock]

-----------------------------------------------------------------------------
(* pcp: one previous value for the whole process.  Fetching the metric,    *)
(* computing the difference and storing the value are steps that snapshots *)
(* of two threads can interleave.                                          *)
Idle == [at |-> "idle", val |-> 0]

\* The first values are fetched by post_init into a builder nobody reads; when
\* that fails the first difference is the whole counter.
pcp_post_init ==
    \/ /\ inst' = [inst EXCEPT !.prev = Clock, !.first = Clock]
       /\ UNCHANGED <<err, faults>>
    \/ /\ CanFail
       /\ err' = Count(err, "lookup")
       /\ faults' = faults + 1
       /\ UNCHANGED inst

pcp_fetch(t) ==
    \/ /\ pending' = [pending EXCEPT ![t] = [at |-> "diff", val |-> Clock]]
       /\ UNCHANGED <<err, faults>>
    \/ /\ CanFail
       /\ err' = Count(err, "lookup")
       /\ faults' = faults + 1
       /\ UNCHANGED pending

\* A metric none of whose values can be extracted appends nothing, and its
\* total of zero still becomes the previous value.
pcp_diff(t) ==
    /\ svc = "pcp" /\ pending[t].at = "diff"
    /\ \/ /\ sum' = [sum EXCEPT ![t][PcpMetric] = @ + pending[t].val - inst.prev]
          /\ pending' = [pending EXCEPT ![t].at = "store"]
          /\ inst' = [inst EXCEPT
               !.clean = @ /\ \A u \in MsThreads \ {t} : pending[u].at # "store"]
          /\ UNCHANGED faults
       \/ /\ CanFail
          /\ faults' = faults + 1
          /\ pending' = [pending EXCEPT ![t] = [at |-> "store", val |-> 0]]
          /\ inst' = [inst EXCEPT !.clean = FALSE]
          /\ UNCHANGED sum
    /\ UNCHANGED <<svc, mode, life, work, td, err, seen, open, said>>

pcp_store(t) ==
    /\ svc = "pcp" /\ pending[t].at = "store"
    /\ inst' = [inst EXCEPT !.prev = pending[t].val]
    /\ pending' = [pending EXCEPT ![t] = Idle]
    /\ UNCHANGED <<svc, mode, life, work, td, err, faults, sum, seen, open, said>>

-----------------------------------------------------------------------------
MsInit ==
    /\ svc \in {"timer", "papi", "libpfm", "template", "pcp"}
    /\ mode = "none"
    /\ life = [t \in MsThreads |-> IF t = MsMain THEN "live" ELSE "new"]
    /\ work = [t \in MsThreads |-> 0]
    /\ td = [t \in MsThreads |-> NoData]
    /\ inst = [groups |-> <<>>, list |-> NoList]
    /\ pending = [t \in MsThreads |-> Idle]
    /\ err = {}
    /\ faults = 0
    /\ sum = [t \in MsThreads |-> Zero]
    /\ seen = [t \in MsThreads |-> Zero]
    /\ open = [t \in MsThreads |-> <<>>]
    /\ said = [rec |-> 0, true |-> 0]

Service_register ==
    /\ mode = "none"
    /\ CASE svc = "papi" -> papi_register
         [] svc = "pcp"  -> /\ mode' = "registered"
                            /\ inst' = [prev |-> 0, first |-> 0, clean |-> TRUE]
                            /\ UNCHANGED <<td, faults>>
         [] OTHER        -> mode' = "registered" /\ UNCHANGED <<td, inst, faults>>
    /\ UNCHANGED <<svc, life, work, pending, err, sum, seen, open, said>>

\* post_init_evt on the main thread
post_init ==
    /\ mode = "registered"
    /\ mode' = "running"
    /\ CASE svc = "papi"   -> papi_start(td[MsMain], MsMain, faults) /\ UNCHANGED inst
         [] svc = "libpfm" -> libpfm_start(MsMain) /\ UNCHANGED <<err, inst>>
         [] svc = "timer"  -> /\ td' = [td EXCEPT ![MsMain] = acquire_timerinfo(MsMain, FALSE)]
                              /\ UNCHANGED <<err, faults, inst>>
         [] svc = "pcp"    -> pcp_post_init /\ UNCHANGED td
         [] OTHER          -> UNCHANGED <<td, err, faults, inst>>
    /\ UNCHANGED <<svc, life, work, pending, sum, seen, open, said>>

\* nobody but a pcp snapshot under way is between two steps
Ready(t) == mode = "running" /\ life[t] = "live" /\ pending[t] = Idle

create_thread(t) ==
    /\ mode = "running" /\ life[t] = "new" /\ t \in MsSpawn[svc]
    /\ life' = [life EXCEPT ![t] = "live"]
    /\ CASE svc = "papi"   -> papi_create_thread(t)
         [] svc = "libpfm" -> libpfm_start(t) /\ UNCHANGED <<inst, err>>
         [] svc = "timer"  -> /\ td' = [td EXCEPT ![t] = acquire_timerinfo(t, FALSE)]
                              /\ UNCHANGED <<inst, err, faults>>
         [] OTHER          -> UNCHANGED <<td, inst, err, faults>>
    /\ UNCHANGED <<svc, mode, work, pending, sum, seen, open, said>>

\* papi has a release_thread callback; libpfm's thread state has a destructor.
release_thread(t) ==
    /\ Ready(t) /\ t # MsMain
    /\ life' = [life EXCEPT ![t] = "gone"]
    /\ CASE svc = "papi"   -> papi_release_thread(t)
         [] svc = "libpfm" -> td' = [td EXCEPT ![t] = NoData] /\ UNCHANGED <<inst, err>>
         [] OTHER          -> UNCHANGED <<td, inst, err>>
    /\ UNCHANGED <<svc, mode, work, pending, faults, sum, seen, open, said>>

DoWork(t) ==
    /\ Ready(t) /\ Clock < MsMaxWork
    /\ work' = [work EXCEPT ![t] = @ + 1]
    /\ UNCHANGED <<svc, mode, life, td, inst, pending, err, faults, sum, seen, open, said>>

Snapshot(t, kind, a, signal) ==
    /\ CASE svc = "timer"    -> timer_snapshot_cb(t, kind, a, signal)
                                /\ UNCHANGED <<mode, pending, faults>>
         [] svc = "papi"     -> papi_snapshot(t) /\ UNCHANGED <<pending, said>>
         [] svc = "libpfm"   -> libpfm_snapshot(t) /\ UNCHANGED <<mode, pending, said>>
         [] svc = "template" -> template_snapshot_cb(t)
                                /\ UNCHANGED <<mode, pending, err, faults, said>>
         [] svc = "pcp"      -> pcp_fetch(t) /\ UNCHANGED <<mode, td, sum, seen, said>>
    /\ UNCHANGED <<svc, life, work, inst>>

\* A region is entered or left, and the event trigger takes a snapshot.  Only
\* timer looks at what triggered it; to the other services it is a sample.
begin_region(t, a) ==
    /\ Ready(t) /\ svc = "timer"
    /\ MapThenSumSet(LAMBDA u : Len(open[u]), MsThreads) < MsMaxOpen
    /\ Snapshot(t, "begin", a, FALSE)
    /\ open' = [open EXCEPT ![t] = Append(@, [attr |-> a, at |-> Clock])]
end_region(t, a) ==
    /\ Ready(t)
    /\ \E r \in ToSet(open[t]) : r.attr = a
    /\ Snapshot(t, "end", a, FALSE)
    /\ open' = [open EXCEPT ![t] =
                  RemoveAt(@, SelectLastInSeq(@, LAMBDA r : r.attr = a))]
\* a snapshot for any other reason, from a signal handler for instance
sample(t) ==
    /\ Ready(t)
    /\ Snapshot(t, "none", "", TRUE)
    /\ UNCHANGED open

\* the channel's finish_evt, on the main thread, when nobody takes a snapshot
finish ==
    /\ mode = "running" /\ \A t \in MsThreads : pending[t] = Idle
    /\ mode' = "finished"
    /\ CASE svc = "papi"   -> papi_release_thread(MsMain)
         [] svc = "libpfm" -> td' = [td EXCEPT ![MsMain] = NoData] /\ UNCHANGED <<inst, err>>
         [] OTHER          -> UNCHANGED <<td, inst, err>>
    /\ UNCHANGED <<svc, life, work, pending, faults, sum, seen, open, said>>

MsNext ==
    \/ Service_register \/ post_init \/ finish
    \/ \E t \in MsThreads :
         \/ create_thread(t) \/ release_thread(t) \/ DoWork(t) \/ sample(t)
         \/ pcp_diff(t) \/ pcp_store(t)
         \/ \E a \in MsRegions : begin_region(t, a) \/ end_region(t, a)

-----------------------------------------------------------------------------
Total(x) == MapThenSumSet(LAMBDA t : sum[t][x], MsThreads)

\* What the records of a thread say adds up to what its counters counted, for
\* every thread and every sequence of snapshots, failed readings and thread
\* ends: the differences recorded by timer, papi, libpfm and the template
\* telescope to the counter at the last good reading.  papi loses nothing when
\* a read fails, because the reset is skipped; libpfm counts an error whenever
\* it loses something.  pcp's differences telescope too, as long as no two
\* threads were between its difference and its store at once and every value
\* could be extracted (those two are silent).
MeasuredExact ==
    CASE svc = "papi"   -> "reset" \notin err => sum = seen
      [] svc = "libpfm" -> {"read", "reset"} \cap err = {} => sum = seen
      [] svc = "pcp"    -> mode = "running" /\ inst.clean
                             /\ (\A t \in MsThreads : pending[t].at # "store")
                           => Total(PcpMetric) = inst.prev - inst.first
      [] OTHER          -> sum = seen

\* An inclusive duration spans exactly the region that ends, for regions of
\* several attributes that overlap and for threads a signal handler samples in
\* between (TimerService::snapshot_cb keeps one stack per attribute and thread).
InclusiveExact == svc = "timer" => said.rec = said.true /\ "stack" \notin err

Chain[n \in 0 .. Cardinality(MsThreads)] ==
    IF n = 0 THEN inst.list.head
    ELSE IF Chain[n - 1] = NoData THEN NoData ELSE inst.list.next[Chain[n - 1]]

\* papi's list of thread data holds every thread that has event sets and no
\* other, and its prev pointers mirror its next pointers: what the destructor
\* deletes is exactly what no thread has released (linking and unlinking are in
\* setup_thread_eventsets and finish_thread_eventsets).
ThreadListExact ==
    svc = "papi" /\ mode \notin {"none", "dropped"} =>
       LET Owners == {t \in MsThreads : td[t] # NoData}
           l == inst.list
       IN /\ {Chain[n] : n \in 0 .. Cardinality(MsThreads)} = Owners \cup {NoData}
          /\ \A t \in Owners : l.next[t] # NoData => l.prev[l.next[t]] = t
          /\ l.head # NoData => l.prev[l.head] = NoData
=============================================================================
