------------------------------ MODULE Derived -------------------------------
(***************************************************************************)
(* Services that derive values from others when a record is flushed or     *)
(* taken: topdown (from PAPI counters), pcp.memory (from PCP metrics),     *)
(* libpfm's decoding of the data source of a memory sample, memstat's      *)
(* parsing of /proc/self/statm and umpire's totals.  They are functions of *)
(* one record; a step of the module feeds one of them one input.           *)
(*                                                                         *)
(* A record maps attribute names to numbers; an attribute that is missing  *)
(* is not in its domain.  A floating-point result is the fraction <<p, q>>.*)
(***************************************************************************)
EXTENDS Integers, SequencesExt, FiniteSetsExt, TLC

CONSTANTS TdRecords,    \* counter records for topdown
          PmRecords,    \* metric records for pcp.memory
          DataSources,  \* sets of bits of a data source field
          Statms,       \* the fields of /proc/self/statm, as sequences of digits
          Allocators,   \* umpire: [as: allocators, filter, each]
          Powers        \* variorum: [domains, watts]

VARIABLES job, input, result

Val(rec, x) == IF x \in DOMAIN rec THEN rec[x] ELSE 0
AllIn(rec, xs) == xs \subseteq DOMAIN rec
NoResult == <<>>
Clamp(f) == IF f[1] < 0 THEN <<0, f[2]>> ELSE f

-----------------------------------------------------------------------------
(* topdown: the counters, under the names the formulas use                 *)
TopCounters == {"clk", "retired", "issued", "recovery", "not_delivered"}
AllCounters == TopCounters \cup
    {"ldm", "noexec", "ge1", "ge2", "l3miss", "l3hit", "l2p", "l1p", "cycles0", "misp", "clears"}

compute_toplevel(rec) ==
    LET slots == 4 * Val(rec, "clk")
        bad   == Val(rec, "issued") - Val(rec, "retired") + 4 * Val(rec, "recovery")
        used  == Val(rec, "retired") + bad + Val(rec, "not_delivered")
    IN IF ~AllIn(rec, TopCounters) \/ (\E x \in TopCounters : Val(rec, x) <= 0) THEN NoResult
       ELSE [retiring        |-> Clamp(<<rec.retired, slots>>),
             backend_bound   |-> Clamp(<<slots - used, slots>>),
             frontend_bound  |-> Clamp(<<rec.not_delivered, slots>>),
             bad_speculation |-> Clamp(<<bad, slots>>)]

BackendCounters == {"clk", "ldm", "noexec", "ge1", "ge2", "l3miss", "l3hit", "l2p", "l1p"}
compute_backend_bound(rec) ==
    LET clk == Val(rec, "clk")
        tot == Val(rec, "l3hit") + 7 * Val(rec, "l3miss")
        \* stalls times the fraction of L3 accesses, which is 0 without accesses
        Part(x) == IF tot > 0 THEN <<rec.l2p * rec[x], tot * clk>> ELSE <<0, clk>>
    IN IF ~AllIn(rec, BackendCounters) \/ ~(clk > 1) THEN NoResult
       ELSE [memory_bound  |-> <<rec.ldm, clk>>,
             core_bound    |-> <<rec.noexec + rec.ge1 - rec.ge2 - rec.ldm, clk>>,
             ext_mem_bound |-> Part("l3miss"),
             l1_bound      |-> <<rec.ldm - rec.l1p, clk>>,
             l2_bound      |-> <<rec.l1p - rec.l2p, clk>>,
             l3_bound      |-> Part("l3hit")]

compute_frontend_bound(rec) ==
    LET clk == Val(rec, "clk")
        uops == Val(rec, "cycles0")
    IN IF ~AllIn(rec, {"clk", "cycles0"}) \/ clk < 1 \/ uops > clk THEN NoResult
       ELSE [frontend_latency |-> <<uops, clk>>, frontend_bandwidth |-> <<clk - uops, clk>>]

compute_bad_speculation_any(rec) ==
    LET n == Val(rec, "misp") + Val(rec, "clears")
    IN IF ~AllIn(rec, {"misp", "clears"}) THEN NoResult
       ELSE [branch_mispredict |-> <<rec.misp, n>>, machine_clears |-> <<n - rec.misp, n>>]
compute_bad_speculation(rec) ==
    LET n == Val(rec, "misp") + Val(rec, "clears")
    IN IF ~AllIn(rec, {"misp", "clears"}) \/ ~(n > 1) THEN NoResult
       ELSE [branch_mispredict |-> <<rec.misp, n>>, machine_clears |-> <<n - rec.misp, n>>]

\* find_counter_attrs keeps the counters of the level; the others are never found
topdown_postprocess(rec, level) ==
    LET known == IF level = "all" THEN AllCounters ELSE TopCounters
        r     == [x \in DOMAIN rec \cap known |-> rec[x]]
        top   == compute_toplevel(r)
    IN IF level = "top" THEN top
       ELSE top @@ compute_backend_bound(r) @@ compute_frontend_bound(r)
                @@ compute_bad_speculation(r)

-----------------------------------------------------------------------------
(* pcp.memory: 64 bytes for each counted read or write of a memory         *)
(* controller; the sum over the metrics that are in the record.            *)
sum_attributes(rec, metrics) ==
    [sum   |-> MapThenSumSet(LAMBDA x : rec[x], metrics \cap DOMAIN rec),
     count |-> Cardinality(metrics \cap DOMAIN rec)]
RdMetrics == {"rd0", "rd1"}
WrMetrics == {"wr0", "wr1"}
pcpmem_postprocess(rec) ==
    LET rp == sum_attributes(rec, RdMetrics)
        wp == sum_attributes(rec, WrMetrics)
    IN (IF rp.count > 0 THEN "mem.bytes.read" :> 64 * rp.sum ELSE <<>>)
       @@ (IF wp.count > 0 THEN "mem.bytes.written" :> 64 * wp.sum ELSE <<>>)

-----------------------------------------------------------------------------
(* libpfm: the first bit of each field that is set, in a fixed order       *)
FirstSet(order, bits) ==
    LET hits == SelectSeq(order, LAMBDA e : e[1] \in bits)
    IN IF hits = <<>> THEN "Invalid" ELSE Head(hits)[2]
datasource_mem_lvl(bits) ==
    FirstSet(<< <<"LVL_NA", "Not Available">>, <<"LVL_L1", "L1">>, <<"LVL_LFB", "LFB">>,
        <<"LVL_L2", "L2">>, <<"LVL_L3", "L3">>, <<"LVL_LOC_RAM", "Local RAM">>,
        <<"LVL_REM_RAM1", "Remote RAM 1 Hop">>, <<"LVL_REM_RAM2", "Remote RAM 2 Hops">>,
        <<"LVL_REM_CCE1", "Remote Cache 1 Hops">>, <<"LVL_REM_CCE2", "Remote Cache 2 Hops">>,
        <<"LVL_IO", "I/O Memory">>, <<"LVL_UNC", "Uncached Memory">> >>, bits)
datasource_mem_hit(bits) ==
    FirstSet(<< <<"LVL_NA", "Not Available">>, <<"LVL_HIT", "Hit">>, <<"LVL_MISS", "Miss">> >>, bits)
datasource_mem_op(bits) ==
    FirstSet(<< <<"OP_NA", "Not Available">>, <<"OP_LOAD", "Load">>, <<"OP_STORE", "Store">>,
        <<"OP_PFETCH", "Prefetch">>, <<"OP_EXEC", "Exec">> >>, bits)
datasource_mem_snoop(bits) ==
    FirstSet(<< <<"SNOOP_NA", "Not Available">>, <<"SNOOP_NONE", "None">>, <<"SNOOP_HIT", "Hit">>,
        <<"SNOOP_MISS", "Miss">>, <<"SNOOP_HITM", "Hit Modified">> >>, bits)
datasource_mem_tlb(bits) ==
    FirstSet(<< <<"TLB_NA", "Not Available">>, <<"TLB_HIT", "Hit">>, <<"TLB_MISS", "Miss">>,
        <<"TLB_L1", "L1">>, <<"TLB_L2", "L2">>, <<"TLB_WK", "Hardware Walker">>,
        <<"TLB_OS", "OS Fault Handler">> >>, bits)
libpfm_postprocess(bits) ==
    << datasource_mem_lvl(bits), datasource_mem_hit(bits), datasource_mem_op(bits),
       datasource_mem_snoop(bits), datasource_mem_tlb(bits) >>

-----------------------------------------------------------------------------
(* umpire: statistics of the tracked allocators, as a record each and as   *)
(* totals.  An allocator is [name, size, actual, hwm, count].              *)
is_tracked_allocator(a, filter) == filter = <<>> \/ Contains(filter, a.name)
UmpireTotal(field, as) == FoldLeft(LAMBDA n, a : n + a[field], 0, as)
umpire_snapshot(as, filter, each) ==
    LET tracked == SelectSeq(as, LAMBDA a : is_tracked_allocator(a, filter))
    IN [records |-> IF each THEN tracked ELSE <<>>,
        size    |-> UmpireTotal("size", tracked),
        count   |-> UmpireTotal("count", tracked),
        hwm     |-> UmpireTotal("hwm", tracked)]

-----------------------------------------------------------------------------
(* variorum: a measured value for each configured power domain, and its    *)
(* average with the previous one.                                          *)

\* The attributes of the domain at position i of the list: the loop inside
\* create_measurement_info runs over the whole list again, and the attributes
\* of its last element stay.
create_measurement_info(domains, i) == [domain |-> domains[i], attr |-> Last(domains)]

\* watts: domain -> value measured; prev: attribute -> value on the blackboard
variorum_snapshot_cb(domains, watts, prev) ==
    LET Step(s, i) ==
            LET m == create_measurement_info(domains, i)
                old == IF m.attr \in DOMAIN s.prev THEN s.prev[m.attr] ELSE 0
            IN IF m.domain \notin DOMAIN watts THEN s   \* a failed measurement
               ELSE [prev |-> (m.attr :> watts[m.domain]) @@ s.prev,
                     rec  |-> Append(s.rec, [attr |-> m.attr, val |-> watts[m.domain],
                                             avg |-> (watts[m.domain] + old) \div 2])]
    IN FoldLeft(Step, [prev |-> prev, rec |-> <<>>], [i \in 1 .. Len(domains) |-> i])

-----------------------------------------------------------------------------
(* memstat: the numbers of a line of /proc/self/statm, of which the first, *)
(* second and sixth are recorded.                                          *)
Digit(c) == CHOOSE d \in 0 .. 9 : ToString(d) = c
IsDigit(c) == \E d \in 0 .. 9 : ToString(d) = c
parse_statm(text) ==
    LET Step(s, c) ==
            IF s.nn > 6 THEN s
            ELSE IF IsDigit(c) THEN [s EXCEPT !.numbers[s.nn] = @ * 10 + Digit(c)]
            ELSE IF c = " " THEN [s EXCEPT !.nn = @ + 1] ELSE s
        r == FoldLeft(Step, [nn |-> 1, numbers |-> [i \in 1 .. 6 |-> 0]], text)
    IN <<r.numbers[1], r.numbers[2], r.numbers[6]>>

-----------------------------------------------------------------------------
DvInit ==
    /\ result = NoResult
    /\ \/ job = "topdown"  /\ input \in [rec : TdRecords, level : {"top", "all"}]
       \/ job = "pcpmem"   /\ input \in [rec : PmRecords]
       \/ job = "libpfm"   /\ input \in [bits : DataSources]
       \/ job = "umpire"   /\ input \in Allocators
       \/ job = "variorum" /\ input \in Powers
       \/ job = "memstat"  /\ input \in [numbers : Statms]

Print6(ns) == FlattenSeq([i \in 1 .. Len(ns) |->
                 (IF i = 1 THEN <<>> ELSE <<" ">>) \o ns[i]])
DvNext ==
    /\ result = NoResult
    /\ result' = CASE job = "topdown"  -> << topdown_postprocess(input.rec, input.level) >>
                   [] job = "pcpmem"   -> << pcpmem_postprocess(input.rec) >>
                   [] job = "libpfm"   -> << libpfm_postprocess(input.bits) >>
                   [] job = "umpire"   -> << umpire_snapshot(input.as, input.filter, input.each) >>
                   [] job = "variorum" -> << variorum_snapshot_cb(input.domains, input.watts, <<>>) >>
                   [] job = "memstat"  -> << parse_statm(Print6(input.numbers) \o <<"\n">>) >>
    /\ UNCHANGED <<job, input>>

-----------------------------------------------------------------------------
Fractions(r) == {r[x] : x \in DOMAIN r}
Groups == {{"retiring", "backend_bound", "frontend_bound", "bad_speculation"},
           {"frontend_latency", "frontend_bandwidth"}, {"branch_mispredict", "machine_clears"}}
Sum1(r, g) == MapThenSumSet(LAMBDA x : r[x][1], g)
Number(digits) == FoldLeft(LAMBDA n, c : 10 * n + Digit(c), 0, digits)

\* Derived values are well defined and consistent whatever a record holds:
\* topdown never divides by zero, computes each group of shares from a complete
\* set of counters or not at all, its shares of a split add up to the whole, and
\* a clamped top level never adds up to less; pcp.memory counts no controller
\* twice and writes nothing for metrics that are missing; umpire's totals are
\* the sums over the records it writes; memstat reads fields one, two and six.
DerivedSound ==
    result # NoResult =>
    LET r == result[1]
    IN CASE job = "topdown" ->
              /\ \A f \in Fractions(r) : f[2] > 0
              /\ \A g \in Groups :
                   /\ g \subseteq DOMAIN r \/ g \cap DOMAIN r = {}
                   /\ g \subseteq DOMAIN r =>
                        LET q == r[CHOOSE x \in g : TRUE][2]
                        IN /\ \A x \in g : r[x][2] = q /\ r[x][1] >= 0
                           /\ IF "retiring" \in g THEN Sum1(r, g) >= q ELSE Sum1(r, g) = q
         [] job = "pcpmem" ->
              LET Bytes(x) == IF x \in DOMAIN r THEN r[x] ELSE 0
              IN Bytes("mem.bytes.read") + Bytes("mem.bytes.written")
                   = 64 * MapThenSumSet(LAMBDA x : input.rec[x], DOMAIN input.rec)
         [] job = "umpire" ->
              input.each =>
                /\ r.size = UmpireTotal("size", r.records)
                /\ r.count = UmpireTotal("count", r.records)
                /\ r.hwm = UmpireTotal("hwm", r.records)
         [] job = "memstat" ->
              r = <<Number(input.numbers[1]), Number(input.numbers[2]), Number(input.numbers[6])>>
         [] OTHER -> TRUE

\* The class comment of VariorumService: "For each domain, it appends a
\* "measurement.val.<name>" entry".  The value of a domain is found under the
\* domain's own attribute.
DomainsKeptApart ==
    job = "variorum" /\ result # NoResult =>
       \A d \in DOMAIN input.watts \cap ToSet(input.domains) :
          \E i \in 1 .. Len(result[1].rec) :
             result[1].rec[i].attr = d /\ result[1].rec[i].val = input.watts[d]
=============================================================================
