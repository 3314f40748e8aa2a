------------------------------ MODULE Callpath ------------------------------
(***************************************************************************)
(* Call paths and symbols.  The callpath service unwinds the stack at each *)
(* snapshot and stores the addresses as a path of the context tree; the    *)
(* sampler stores the program counter as a value.  When the channel is     *)
(* flushed, the symbollookup service walks the address path from the leaf  *)
(* up, turns every address into nodes for its module, file, function and   *)
(* line below the nodes of its caller, and appends the result to the       *)
(* record.  Lookups are cached by address, and a finished symbol node is   *)
(* remembered below the address node it belongs to.                        *)
(*                                                                         *)
(* A node of a tree is the path that leads to it: make_tree_entry returns  *)
(* the existing child when there is one.                                   *)
(***************************************************************************)
EXTENDS Integers, SequencesExt, TLC

CONSTANTS Program,       \* stacks the program can be in, outermost frame first
          Internal,      \* addresses inside the Caliper library
          MAX_PATH,
          CpConfigs,     \* [skip_frames, skip_internal, what], what: the kinds looked up
          Symbols,       \* debug information: address -> [module, file, function, line]
          CpMaxRecords, CpMaxFlushes

VARIABLES cp_cfg,
          recs,      \* snapshot records: [path, pc]
          links,     \* address path -> symbol node stored below it
          cache,     \* "callpath", "pc" -> address -> symbol node
          failed,    \* addresses whose lookup failed since the last flush began
          out        \* number of flushes, and the records the last one wrote

cpvars == <<cp_cfg, recs, links, cache, failed, out>>

NoPath == <<>>

-----------------------------------------------------------------------------
(* Callpath::snapshot_cb: skip_frames steps outwards, then the innermost   *)
(* MAX_PATH frames that are not internal, stored outermost first.          *)
callpath_snapshot_cb(frames) ==
    LET rest    == SubSeq(frames, 1, Len(frames) - cp_cfg.skip_frames)
        visible == SelectSeq(rest, LAMBDA ip : ~(cp_cfg.skip_internal /\ ip \in Internal))
    IN IF Len(frames) < cp_cfg.skip_frames THEN NoPath
       ELSE IF Len(visible) <= MAX_PATH THEN visible
       ELSE SubSeq(visible, Len(visible) - MAX_PATH + 1, Len(visible))

-----------------------------------------------------------------------------
(* symbollookup *)

Unknown == [module |-> "UNKNOWN", file |-> "UNKNOWN", function |-> "UNKNOWN", line |-> 0]

\* LookupImpl::lookup: what the debug information says about an address
Lookup_lookup(addr) ==
    IF addr \in DOMAIN Symbols THEN [result |-> Symbols[addr], success |-> TRUE]
    ELSE [result |-> Unknown, success |-> FALSE]

\* The nodes for one address, from coarse to fine, of the kinds configured.
SymbolNodes(r) ==
    SelectSeq(<< <<"module", r.module>>, <<"source.file", r.file>>,
                 <<"source.function", r.function>>, <<"source.line", ToString(r.line)>>,
                 <<"sourceloc", r.file \o ":" \o ToString(r.line)>> >>,
              LAMBDA e : e[1] \in cp_cfg.what)

\* st: the lookups of one attribute, [cache, links, failed], and the node found
perform_lookup_last(st, addr, parent) ==
    LET node == parent \o SymbolNodes(Lookup_lookup(addr).result)
    IN IF DOMAIN st.cache # {} THEN [st EXCEPT !.node = st.cache[CHOOSE a \in DOMAIN st.cache : TRUE]]
       ELSE [st EXCEPT !.node = node, !.cache = (addr :> node) @@ @]
perform_lookup(st, addr, parent) ==
    IF addr \in DOMAIN st.cache THEN [st EXCEPT !.node = st.cache[addr]]
    ELSE LET l    == Lookup_lookup(addr)
             node == parent \o SymbolNodes(l.result)
             s    == [st EXCEPT !.failed = IF l.success THEN @ ELSE @ \cup {addr}]
         IN IF node = parent THEN [s EXCEPT !.node = NoPath]
            ELSE [s EXCEPT !.node = node, !.cache = (addr :> node) @@ @]

\* The symbol node of an address path: the one remembered below the path's node,
\* or a lookup of its last address below the symbol node of the path's parent,
\* which is then remembered (find_symbol_node_entry, the recursion on the parent
\* and the symbollookup.node entry).
get_symbol_entry(st, path) ==
    LET linked == {n \in 1 .. Len(path) : SubSeq(path, 1, n) \in DOMAIN st.links}
        from   == IF linked = {} THEN 0
                  ELSE CHOOSE n \in linked : \A k \in linked : k <= n
        start  == [st EXCEPT !.node = IF from = 0 THEN NoPath ELSE st.links[SubSeq(path, 1, from)]]
        Step(s, n) ==
            LET l == perform_lookup(s, path[n], s.node)
            IN IF l.node = NoPath THEN l
               ELSE [l EXCEPT !.links = (SubSeq(path, 1, n) :> l.node) @@ @]
    IN FoldLeft(Step, start, [i \in 1 .. Len(path) - from |-> from + i])

-----------------------------------------------------------------------------
CpInit ==
    /\ cp_cfg \in CpConfigs
    /\ recs = <<>>
    /\ links = <<>>
    /\ cache = [callpath |-> <<>>, pc |-> <<>>]
    /\ failed = {}
    /\ out = [flushes |-> 0, records |-> <<>>]

\* a sample: the call path of the program and its program counter
cp_snapshot ==
    /\ Len(recs) < CpMaxRecords
    /\ \E frames \in Program :
         recs' = Append(recs, [path |-> callpath_snapshot_cb(frames), pc |-> Last(frames)])
    /\ UNCHANGED <<cp_cfg, links, cache, failed, out>>

\* Flush: process_snapshot on every record, one attribute after the other.
\* The records stay in their buffer and may be flushed again.
process_snapshot(st, rec) ==
    LET a == IF rec.path = NoPath THEN [st EXCEPT !.node = NoPath]
             ELSE get_symbol_entry(st, rec.path)
        b == perform_lookup([cache |-> a.pccache, links |-> <<>>, failed |-> a.failed, node |-> NoPath],
                            rec.pc, NoPath)
    IN [a EXCEPT !.pccache = b.cache, !.failed = b.failed,
                 !.written = Append(@, [rec |-> rec, path |-> a.node, pc |-> b.node])]
cp_flush ==
    /\ recs # <<>> /\ out.flushes < CpMaxFlushes
    /\ LET st == [cache |-> cache.callpath, pccache |-> cache.pc, links |-> links,
                  failed |-> {}, node |-> NoPath, written |-> <<>>]
           r  == FoldLeft(process_snapshot, st, recs)
       IN /\ cache' = [callpath |-> r.cache, pc |-> r.pccache]
          /\ links' = r.links
          /\ failed' = r.failed
          /\ out' = [flushes |-> out.flushes + 1, records |-> r.written]
    /\ UNCHANGED <<cp_cfg, recs>>

CpNext == cp_snapshot \/ cp_flush

-----------------------------------------------------------------------------
Meaning(addr) == SymbolNodes(Lookup_lookup(addr).result)
Chain(path) == FlattenSeq([i \in 1 .. Len(path) |-> Meaning(path[i])])

\* What a flush appends to a record names the right code, however many records
\* with other addresses went through the caches before and in whatever order:
\* the program counter's symbols are its own, and the symbols of a call path
\* end with those of its innermost frame (SymbolLookup::perform_lookup,
\* get_symbol_entry).
SymbolsExact ==
    \A i \in 1 .. Len(out.records) :
       LET w == out.records[i]
       IN /\ w.pc = Meaning(w.rec.pc)
          /\ w.rec.path # NoPath => IsSuffix(Meaning(Last(w.rec.path)), w.path)

\* doc/sphinx/services.rst says of symbollookup that it "appends symbol
\* attributes for each address attribute to the snapshots being flushed": the
\* functions of a call path are the functions of its addresses, caller by
\* caller.  The lookup cache is keyed by the address alone and returns the node
\* below the caller it was first seen under.
CallpathSymbolsExact ==
    \A i \in 1 .. Len(out.records) : out.records[i].path = Chain(out.records[i].rec.path)
=============================================================================
