------------------------------ MODULE Monitors ------------------------------
(***************************************************************************)
(* Services driven by the begin, end and set events of annotated regions:  *)
(* event (with its region filters), loop_monitor, region_monitor,          *)
(* validator, and the annotation bindings (nvtx, roctx, vtune, ...).       *)
(* A behaviour has one of them active in a channel, and threads that open  *)
(* and close regions.  Each service keeps its state in the service object, *)
(* which the threads share; only validator has a part for each thread.     *)
(*                                                                         *)
(* Names are sequences of characters, so that prefixes mean something.     *)
(* The runtime's own part (which calls raise events, and with which value) *)
(* is the thread's region slot: its path of open annotations.              *)
(***************************************************************************)
EXTENDS Integers, FiniteSets, SequencesExt, TLC

CONSTANTS MonConfigs,  \* one record for each service and configuration to run
          AttrInfo,    \* attribute -> [nested, level, skip, iteration, process]
          MonMaxTime,  \* bound on the clock
          MonMaxCount  \* bound on counted iterations and errors

VARIABLES mc,      \* the configuration
          paths,   \* the open annotations of each thread and of the process: <<[attr, val, t0], ...>>
          errs,    \* threads with stack_error
          now,     \* clock
          sv,      \* the service's state
          last     \* history: what the last event should and did trigger

monvars == <<mc, paths, errs, now, sv, last>>

-----------------------------------------------------------------------------
(* RegionFilter.  A configuration text is a sequence of tokens.            *)
IsPunct(t) == t \in {<<",">>, <<"(">>, <<")">>}
NoFilter == [match |-> {}, startswith |-> {}, regex |-> {}]

\* read_word: the next token unless it is a separator, then the empty word
read_word(ts) == IF ts = <<>> \/ IsPunct(Head(ts)) THEN <<<<>>, ts>> ELSE <<Head(ts), Tail(ts)>>
read_char(ts) == IF ts = <<>> THEN <<<<>>, ts>> ELSE <<Head(ts), Tail(ts)>>

RECURSIVE ArgumentListParser_parse(_, _)
ArgumentListParser_parse(ts, args) ==
    LET w == read_word(ts)
        all == IF w[1] = <<>> THEN args ELSE args \cup {w[1]}
        c == read_char(w[2])
    IN IF c[1] = <<",">> THEN ArgumentListParser_parse(c[2], all)
       ELSE [args |-> all, rest |-> c[2], error |-> c[1] # <<")">>]
Arguments(ts) ==
    IF ts # <<>> /\ Head(ts) = <<"(">> THEN ArgumentListParser_parse(Tail(ts), {})
    ELSE [args |-> {}, rest |-> ts, error |-> FALSE]

RECURSIVE parse_filter_config(_, _)
parse_filter_config(ts, f) ==
    LET w    == read_word(ts)
        kind == IF w[1] \in {<<"match">>, <<"startswith">>, <<"regex">>} THEN w[1][1] ELSE "word"
        a    == IF kind = "word" THEN [args |-> {w[1]} \ {<<>>}, rest |-> w[2], error |-> FALSE]
                ELSE Arguments(w[2])
        field == IF kind = "word" THEN "match" ELSE kind
        g    == [f EXCEPT ![field] = @ \cup a.args]
        c    == read_char(a.rest)
    IN IF a.error THEN [filter |-> NoFilter, error |-> TRUE]
       ELSE IF c[1] = <<",">> THEN parse_filter_config(c[2], g)
       ELSE [filter |-> g, error |-> FALSE]

RegexMatch(val, r) == IsPrefix(Front(r), val)     \* r ends in .*
filter_match(val, f) ==
    \/ \E w \in f.startswith : IsPrefix(w, val)
    \/ val \in f.match
    \/ \E r \in f.regex : RegexMatch(val, r)

\* An error in either text leaves a filter that passes everything.
from_config(include, exclude) ==
    LET i == parse_filter_config(include, NoFilter)
        e == parse_filter_config(exclude, NoFilter)
    IN IF i.error \/ e.error THEN [include |-> NoFilter, exclude |-> NoFilter]
       ELSE [include |-> i.filter, exclude |-> e.filter]
has_filters(f) == f.include # NoFilter \/ f.exclude # NoFilter
filter_pass(val, f) ==
    /\ ~(f.exclude # NoFilter /\ filter_match(val, f.exclude))
    /\ f.include # NoFilter => filter_match(val, f.include)

-----------------------------------------------------------------------------
(* event: a snapshot before a begin, set or end of a marked attribute      *)
event_marked(a) ==
    /\ ~AttrInfo[a].skip
    /\ mc.triggers # {} => a \in mc.triggers
    /\ AttrInfo[a].level >= mc.level
EventTrigger == [regions |-> from_config(mc.include, mc.exclude),
                 branches |-> from_config(mc.branch, <<>>), stack |-> <<>>]

\* Whether a snapshot is taken, and the branch stack afterwards
Trigger(took, stack) == [took |-> took, stack |-> stack]
event_pre_begin_cb(s, a, v) ==
    LET stack == IF filter_pass(v, s.branches) THEN Append(s.stack, v) ELSE s.stack
    IN IF ~event_marked(a) \/ ~filter_pass(v, s.regions) THEN Trigger(FALSE, s.stack)
       ELSE IF ~has_filters(s.branches) THEN Trigger(TRUE, s.stack)
       ELSE Trigger(stack # <<>>, stack)
event_pre_end_cb_keep(s, a, v) ==
    IF ~event_marked(a) \/ ~filter_pass(v, s.regions) THEN Trigger(FALSE, s.stack)
    ELSE IF ~has_filters(s.branches) THEN Trigger(TRUE, s.stack)
    ELSE Trigger(s.stack # <<>>, s.stack)
event_pre_end_cb(s, a, v) ==
    IF ~event_marked(a) \/ ~filter_pass(v, s.regions) THEN Trigger(FALSE, s.stack)
    ELSE IF ~has_filters(s.branches) THEN Trigger(TRUE, s.stack)
    ELSE IF s.stack = <<>> THEN Trigger(FALSE, s.stack)
    ELSE Trigger(TRUE, IF v = Last(s.stack) THEN Front(s.stack) ELSE s.stack)

\* What the options say: measured are the regions of the chosen attributes that
\* pass the region filter and are, or lie inside, a region of the branch filter.
Named(v, f) == v \in f.match \/ (\E w \in f.startswith : IsPrefix(w, v))
                             \/ (\E r \in f.regex : IsPrefix(Front(r), v))
EventWanted(path) ==
    LET Counted(e) == /\ event_marked(e.attr)
                      /\ mc.meaning.include # NoFilter => Named(e.val, mc.meaning.include)
                      /\ ~Named(e.val, mc.meaning.exclude)
    IN /\ Counted(Last(path))
       /\ mc.meaning.branch # NoFilter =>
            \E i \in 1 .. Len(path) : Counted(path[i]) /\ Named(path[i].val, mc.meaning.branch)

-----------------------------------------------------------------------------
(* loop_monitor                                                            *)
LoopMonitor == [loop |-> 0, target |-> -1, start |-> -1, num |-> 0]
is_target_loop(v) == mc.targets = {} \/ \E w \in mc.targets : IsPrefix(w, v)

\* The record of a snapshot, and the counters after it
LoopSnapshot(s) == [s |-> [s EXCEPT !.start = -1, !.num = 0], rec |-> <<s.num, s.start>>]
NoSnapshot(s) == [s |-> s, rec |-> <<>>]

loop_begin_cb(s, a, v) ==
    IF a = "loop"
    THEN IF s.target < 0 /\ is_target_loop(v)
         THEN LET r == LoopSnapshot([s EXCEPT !.target = s.loop + 1])
              IN [r EXCEPT !.s.loop = @ + 1]
         ELSE NoSnapshot([s EXCEPT !.loop = @ + 1])
    ELSE IF s.loop = s.target /\ AttrInfo[a].iteration
         THEN NoSnapshot([s EXCEPT !.num = @ + 1, !.start = IF @ < 0 THEN v[1] ELSE @])
    ELSE NoSnapshot(s)

\* late: more than time_interval since the last snapshot
loop_end_cb(s, a, late) ==
    IF a = "loop"
    THEN LET r == IF s.loop = s.target THEN LoopSnapshot(s) ELSE NoSnapshot(s)
         IN [r EXCEPT !.s.target = IF s.loop = s.target THEN -1 ELSE @, !.s.loop = @ - 1]
    ELSE IF s.loop = s.target /\ AttrInfo[a].iteration
            /\ ((mc.interval > 0 /\ s.num % mc.interval = 0) \/ (mc.timed /\ late))
         THEN LoopSnapshot(s)
    ELSE NoSnapshot(s)

\* The target loop is the outermost open loop that is selected; its iterations
\* are the ones begun while it is the innermost loop.
Loops(path) == SelectSeq(path, LAMBDA e : e.attr = "loop")
InTarget(path) ==
    LET l == Loops(path)
    IN l # <<>> /\ is_target_loop(Last(l).val)
       /\ \A i \in 1 .. Len(l) - 1 : ~is_target_loop(l[i].val)

-----------------------------------------------------------------------------
(* region_monitor                                                          *)
RegionMonitor == [info |-> <<>>, times |-> <<>>, measuring |-> FALSE, skip |-> 0, node |-> <<>>]
Node(path) == [i \in 1 .. Len(path) |-> path[i].val]      \* the region's tree node

region_post_begin_cb(s, path) ==
    LET n == Node(path)
        t == [s EXCEPT !.times = Append(@, now)]
    IN IF s.measuring THEN [s EXCEPT !.skip = @ + 1]
       ELSE IF n \in DOMAIN s.info /\ s.info[n].incl > 2 * s.info[n].child
            THEN [t EXCEPT !.measuring = TRUE, !.skip = 1, !.node = n]
       ELSE t

region_pre_end_cb(s, path) ==
    LET n == Node(path)
        d == now - Last(s.times)
        Info(m, i) == IF i \in DOMAIN m THEN m[i] ELSE [incl |-> 0, child |-> 0]
        own == (n :> [Info(s.info, n) EXCEPT !.incl = d]) @@ s.info
        up == IF Len(n) = 1 THEN own
              ELSE (Front(n) :> [Info(own, Front(n)) EXCEPT !.child = @ + d]) @@ own
    IN IF s.measuring /\ s.skip > 1 THEN [s EXCEPT !.skip = @ - 1]
       ELSE [s EXCEPT !.measuring = FALSE, !.skip = IF s.measuring THEN 0 ELSE @,
                      !.times = Front(@), !.info = IF d > mc.min THEN up ELSE @]

-----------------------------------------------------------------------------
(* validator: for each thread, and for the process, a stack of values for  *)
(* each attribute and a stack of the nested attributes                     *)
Process == 0              \* threads are positive numbers
StackValidator == [vals |-> <<>>, nested |-> <<>>, error |-> FALSE]
Validator == [stacks |-> [x \in mc.threads \cup {Process} |-> StackValidator], errors |-> 0]
StackOf(t, a) == IF AttrInfo[a].process THEN Process ELSE t
Vals(s, a) == IF a \in DOMAIN s.vals THEN s.vals[a] ELSE <<>>
check_begin(s, a, v) ==
    IF s.error THEN s
    ELSE [s EXCEPT !.vals = (a :> Append(Vals(s, a), v)) @@ @,
                   !.nested = IF AttrInfo[a].nested THEN Append(@, a) ELSE @]
check_end(s, a, v) ==
    IF s.error THEN s
    ELSE IF Vals(s, a) = <<>> THEN [s EXCEPT !.error = TRUE]
    ELSE LET top == Last(Vals(s, a))
             t == [s EXCEPT !.vals[a] = Front(@),
                            !.nested = IF AttrInfo[a].nested THEN Front(@) ELSE @]
         IN [t EXCEPT !.error = (AttrInfo[a].nested /\ Last(s.nested) # a) \/ v # top]
check_final(s) == s.error \/ \E a \in DOMAIN s.vals : s.vals[a] # <<>>
Count(s, x) == [s EXCEPT !.errors = @ + (IF s.stacks[x].error THEN 1 ELSE 0)]
validator_begin_cb(s, t, a, v) ==
    LET x == StackOf(t, a) IN Count([s EXCEPT !.stacks[x] = check_begin(@, a, v)], x)
validator_end_cb(s, t, a, v) ==
    LET x == StackOf(t, a) IN Count([s EXCEPT !.stacks[x] = check_end(@, a, v)], x)
validator_finalize_cb(s) == s.errors + Cardinality({x \in DOMAIN s.stacks : check_final(s.stacks[x])})

-----------------------------------------------------------------------------
(* AnnotationBinding: pushes and pops in the bound tool; a non-nested      *)
(* attribute has a stack (an nvtx domain) of its own                       *)
Binding == [filter |-> from_config(mc.include, mc.exclude), tool |-> <<>>]
has_marker(a) ==
    ~AttrInfo[a].skip /\ IF mc.triggers = {} THEN AttrInfo[a].nested ELSE a \in mc.triggers
Domain(a) == IF AttrInfo[a].nested THEN "default" ELSE a
ToolStack(s, a) == IF Domain(a) \in DOMAIN s.tool THEN s.tool[Domain(a)] ELSE <<>>
binding_begin_cb(s, a, v) ==
    IF ~has_marker(a) \/ ~filter_pass(v, s.filter) THEN s
    ELSE [s EXCEPT !.tool = (Domain(a) :> Append(ToolStack(s, a), v)) @@ @]
binding_end_cb(s, a, v) ==
    IF ~has_marker(a) \/ ~filter_pass(v, s.filter) \/ ToolStack(s, a) = <<>> THEN s
    ELSE [s EXCEPT !.tool = (Domain(a) :> Front(ToolStack(s, a))) @@ @]

-----------------------------------------------------------------------------
(* Annotation calls.  last records, for the last event, what the service   *)
(* should have done by the definitions above and what it did.              *)
Fresh(c) == CASE c = "event" -> EventTrigger [] c = "loop" -> LoopMonitor
              [] c = "region" -> RegionMonitor [] c = "validator" -> Validator
              [] c = "binding" -> Binding
MonInit ==
    /\ mc \in MonConfigs
    /\ paths = [t \in mc.threads \cup {Process} |-> <<>>]
    /\ errs = {} /\ now = 0
    /\ sv = Fresh(mc.svc)
    /\ last = [want |-> FALSE, did |-> FALSE, iters |-> <<>>, mistake |-> FALSE]

Open(path, a) == {i \in 1 .. Len(path) : path[i].attr = a}
NestedOpen(path) == {i \in 1 .. Len(path) : AttrInfo[path[i].attr].nested}
MaxOf(S) == CHOOSE x \in S : \A y \in S : y <= x

\* pre_begin_evt, the new annotation, post_begin_evt
mon_begin(t, a, v) ==
    /\ t \notin errs /\ Len(paths[StackOf(t, a)]) < mc.depth
    /\ ~AttrInfo[a].nested => Open(paths[StackOf(t, a)], a) = {}
    /\ Len(last.iters) < MonMaxCount /\ (mc.svc = "validator" => sv.errors < MonMaxCount)
    /\ LET path == Append(paths[StackOf(t, a)], [attr |-> a, val |-> v, t0 |-> now])
           e == event_pre_begin_cb(sv, a, v)
           l == loop_begin_cb(sv, a, v)
           n == IF l.rec # <<>> THEN <<>>
                ELSE IF AttrInfo[a].iteration /\ InTarget(path) THEN Append(last.iters, v[1])
                ELSE last.iters
       IN /\ paths' = [paths EXCEPT ![StackOf(t, a)] = path]
          /\ CASE mc.svc = "event" ->
                    /\ sv' = [sv EXCEPT !.stack = e.stack]
                    /\ last' = [last EXCEPT !.want = EventWanted(path), !.did = e.took]
               [] mc.svc = "loop" ->
                    /\ sv' = l.s
                    /\ last' = [last EXCEPT !.iters = n, !.want = (l.rec # <<>>) => last.iters = <<>>,
                                            !.did = (l.rec # <<>>) => l.rec = <<0, -1>>]
               [] mc.svc = "region" ->
                    /\ sv' = IF AttrInfo[a].nested THEN region_post_begin_cb(sv, path) ELSE sv
                    /\ UNCHANGED last
               [] mc.svc = "validator" -> sv' = validator_begin_cb(sv, t, a, v) /\ UNCHANGED last
               [] mc.svc = "binding" -> sv' = binding_begin_cb(sv, a, v) /\ UNCHANGED last
    /\ UNCHANGED <<mc, errs, now>>

\* An end that finds no value, or not the innermost region, stops the thread's
\* annotations; else pre_end_evt with the current value, then the removal.
mon_end(t, a) ==
    /\ t \notin errs
    /\ LET path == paths[StackOf(t, a)]
           here == Open(path, a)
           inner == ~AttrInfo[a].nested \/ MaxOf(here) = MaxOf(NestedOpen(path))
           i == MaxOf(here)
           v == path[i].val
           e == event_pre_end_cb(sv, a, v)
       IN IF here = {} \/ (~inner /\ ~mc.overlap)
          THEN /\ path # <<>> /\ mc.overlap            \* once is enough
               /\ errs' = errs \cup {t} /\ UNCHANGED <<paths, sv, last>>
          ELSE /\ paths' = [paths EXCEPT ![StackOf(t, a)] = RemoveAt(path, i)]
               /\ UNCHANGED errs
               /\ CASE mc.svc = "event" ->
                         /\ sv' = [sv EXCEPT !.stack = e.stack]
                         /\ last' = [last EXCEPT !.want = EventWanted(SubSeq(path, 1, i)), !.did = e.took]
                    [] mc.svc = "loop" ->
                         \E late \in (IF mc.timed THEN BOOLEAN ELSE {FALSE}) :
                           LET l == loop_end_cb(sv, a, late)
                               due == \/ a = "loop" /\ InTarget(path)
                                      \/ /\ AttrInfo[a].iteration /\ InTarget(path)
                                         /\ \/ mc.interval > 0 /\ Len(last.iters) % mc.interval = 0
                                            \/ mc.timed /\ late
                               first == IF last.iters = <<>> THEN -1 ELSE Head(last.iters)
                           IN /\ sv' = l.s
                              /\ last' = [last EXCEPT !.iters = IF l.rec # <<>> THEN <<>> ELSE @,
                                            !.want = due,
                                            !.did = l.rec # <<>> /\ l.rec = <<Len(last.iters), first>>]
                    [] mc.svc = "region" ->
                         /\ sv' = IF AttrInfo[a].nested THEN region_pre_end_cb(sv, path) ELSE sv
                         /\ UNCHANGED last
                    [] mc.svc = "validator" ->
                         /\ sv' = validator_end_cb(sv, t, a, v)
                         /\ last' = [last EXCEPT !.mistake = @ \/ ~inner]
                    [] mc.svc = "binding" -> sv' = binding_end_cb(sv, a, v) /\ UNCHANGED last
    /\ UNCHANGED <<mc, now>>

\* pre_set_evt of the event service is handled like a begin.
mon_set(t, a, v) ==
    /\ mc.svc = "event" /\ a \in mc.sets /\ t \notin errs
    /\ LET e == event_pre_begin_cb(sv, a, v)
       IN /\ sv' = [sv EXCEPT !.stack = e.stack]
          /\ last' = [last EXCEPT !.want = EventWanted(<<[attr |-> a, val |-> v]>>), !.did = e.took]
    /\ UNCHANGED <<mc, paths, errs, now>>

Tick == mc.svc = "region" /\ now < MonMaxTime /\ now' = now + 1 /\ UNCHANGED <<mc, paths, errs, sv, last>>

MonNext ==
    \/ Tick
    \/ \E t \in mc.threads : \E a \in mc.attrs :
         \/ \E v \in mc.vals[a] : mon_begin(t, a, v) \/ mon_set(t, a, v)
         \/ mon_end(t, a)

-----------------------------------------------------------------------------
\* RegionFiltering.rst: "Only take measurements for regions inside a given
\* branch" (and for the included, not for the excluded regions): every begin and
\* end event triggers a snapshot of the event service exactly if its region is
\* measured by the options as written.
EventsSelected == mc.svc = "event" => last.did = last.want

\* loop_monitor takes a snapshot at the end of the target loop and at the
\* iterations that are due, and each reports exactly the iterations of that loop
\* since the snapshot before, and the first of them; iterations of loops inside
\* it or outside it are never counted.
IterationsExact == mc.svc = "loop" => last.did = last.want

\* region_monitor: the time stack holds the begin times of the open regions
\* outside a measured one, so each end is timed from its own begin and the stack
\* never runs empty; while it measures, the measured region is open.
RegionTimesExact ==
    mc.svc = "region" =>
       LET path == paths[CHOOSE t \in mc.threads : TRUE]
           n == Len(path) - (IF sv.measuring THEN sv.skip - 1 ELSE 0)
       IN /\ sv.times = [i \in 1 .. n |-> path[i].t0]
          /\ sv.measuring => sv.node = Node(SubSeq(path, 1, n))

\* validator finds errors exactly if some thread ended a region that was not its
\* innermost one or regions are left open.
VerdictExact ==
    mc.svc = "validator" =>
       (validator_finalize_cb(sv) > 0) =
          (last.mistake \/ \E t \in DOMAIN paths : paths[t] # <<>>)

\* The tool an annotation binding drives is inside exactly the regions that are
\* open, bound and pass the filter, in their order: its pushes and pops match.
ToolFollows ==
    mc.svc = "binding" =>
       LET path == paths[CHOOSE t \in mc.threads : TRUE]
           bound(d) == SelectSeq(path, LAMBDA e : has_marker(e.attr) /\ Domain(e.attr) = d
                                                   /\ filter_pass(e.val, sv.filter))
       IN \A d \in DOMAIN sv.tool : sv.tool[d] = [i \in 1 .. Len(bound(d)) |-> bound(d)[i].val]
=============================================================================
