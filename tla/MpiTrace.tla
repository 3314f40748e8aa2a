------------------------------ MODULE MpiTrace ------------------------------
(***************************************************************************)
(* The mpi service: wrapping of MPI functions for several channels         *)
(* (mpiwrap/Wrapper.w, MpiWrap.cpp) and the message tracing each channel   *)
(* does (MpiTracing.cpp), which follows non-blocking and persistent        *)
(* requests from the call that makes them to the one that completes them.  *)
(*                                                                         *)
(* MPI itself is external: a request is a handle that names an operation   *)
(* until it completes, and a handle may name another operation afterwards. *)
(* A wrapped call is two steps, the MPI call and what the wrapper does     *)
(* after it returned; calls of other threads come in between.  A message   *)
(* is [peer, size]; a datatype and a count are its size.                   *)
(***************************************************************************)
EXTENDS Integers, Sequences, SequencesExt, FiniteSets, Functions

CONSTANTS
  MpiConfigs,   \* [threads, chans, fns, handles, comms, msgs, ops, rank, toggle,
                \* reuse]; toggle: channels come, go and pause between calls; reuse: MPI
                \* gives a handle out again
  MpiMaxOps,    \* messages and requests made, at most
  World         \* MPI_COMM_WORLD

VARIABLES
  mcx,          \* the configuration
  mwcs,         \* MpiWrapperConfig list: the channels that wrap, newest first
  chan,         \* per channel [live, active]
  wrap_count,   \* per function
  depth,        \* per thread: open mpi.function regions
  reqs,         \* MPI: handle -> operation, or no entry
  ops,          \* operations made so far: [by, kind, comm, msg, h, started, seen]
  req_map,      \* per channel: handle -> RequestInfo
  comm_map,     \* per channel: communicator -> id
  comm_id,      \* per channel
  pending,      \* per thread: the MPI call that returned, its wrapper still at work
  events,       \* per channel: snapshots pushed
  due           \* per channel: the snapshots these calls should give

mpvars == <<mcx, mwcs, chan, wrap_count, depth, reqs, ops, req_map, comm_map, comm_id, pending, events, due>>

NoCall == [fn |-> "none"]
Drop(f, k) == [x \in DOMAIN f \ {k} |-> f[x]]
With(f, k, v) == [x \in DOMAIN f \cup {k} |-> IF x = k THEN v ELSE f[x]]
Recv_ == {"Irecv", "Recv_init"}
Persistent == {"Send_init", "Recv_init"}

(* setup_filter: what whitelist and blacklist enable; without either, no
   function is wrapped. *)
setup_filter(white, black) ==
  LET all == white # <<>> /\ Head(white) = "all"
      listed == ToSet(IF all THEN Tail(white) ELSE white)
      on == IF all \/ white = <<>> THEN mcx.fns ELSE listed
  IN  IF white = <<>> /\ black = <<>> THEN {} ELSE (on \cup listed) \ ToSet(black)

Enabled(c, fn) == fn \in setup_filter(mcx.chans[c].white, mcx.chans[c].black)

(* The test every wrapper makes before it calls into a channel's tracing *)
Traces(c, fn) == mcx.chans[c].tracing /\ Enabled(c, fn) /\ chan[c].active

push_mpifn(t, fn) == depth' = [depth EXCEPT ![t] = @ + (IF wrap_count[fn] > 0 THEN 1 ELSE 0)]
pop_mpifn(t, fn) == depth' = [depth EXCEPT ![t] = @ - (IF wrap_count[fn] > 0 THEN 1 ELSE 0)]

----------------------------------------------------------------------------
(* Channels: mpiwrap_init with the post_init and mpi_init callbacks, and the
   finish callback.  init_mpi makes entries for two communicators, and keeps
   neither. *)
Idle == \A t \in mcx.threads : pending[t].fn = "none"
mpiwrap_init(c) ==
  /\ Idle /\ ~chan[c].live
  /\ chan' = [chan EXCEPT ![c] = [live |-> TRUE, active |-> TRUE]]
  /\ mwcs' = <<c>> \o mwcs
  /\ wrap_count' = [f \in mcx.fns |-> wrap_count[f] + (IF Enabled(c, f) THEN 1 ELSE 0)]
  /\ comm_id' = [comm_id EXCEPT ![c] = IF mcx.chans[c].tracing THEN 2 ELSE 0]
  /\ req_map' = [req_map EXCEPT ![c] = <<>>] /\ comm_map' = [comm_map EXCEPT ![c] = <<>>]
  /\ ops' = [i \in DOMAIN ops |-> [ops[i] EXCEPT !.seen = @ \ {c}]]
  /\ events' = [events EXCEPT ![c] = <<>>] /\ due' = [due EXCEPT ![c] = <<>>]
  /\ UNCHANGED <<mcx, depth, reqs, pending>>

mpi_finish(c) ==
  /\ Idle /\ chan[c].live
  /\ chan' = [chan EXCEPT ![c] = [live |-> FALSE, active |-> FALSE]]
  /\ mwcs' = SelectSeq(mwcs, LAMBDA d : d # c)
  /\ wrap_count' = [f \in mcx.fns |-> wrap_count[f] - (IF Enabled(c, f) THEN 1 ELSE 0)]
  /\ UNCHANGED <<mcx, depth, reqs, ops, req_map, comm_map, comm_id, pending, events, due>>

toggle(c) ==
  /\ Idle /\ chan[c].live
  /\ chan' = [chan EXCEPT ![c].active = ~@]
  /\ UNCHANGED <<mcx, mwcs, wrap_count, depth, reqs, ops, req_map, comm_map, comm_id, pending, events, due>>

----------------------------------------------------------------------------
(* lookup_comm: the id the channel knows the communicator by *)
lookup_comm(c, comm) ==
  IF comm \in DOMAIN comm_map[c] THEN comm_map[c][comm] ELSE comm_id[c]
Known(c, comm) ==
  IF comm \in DOMAIN comm_map[c] THEN [m |-> comm_map[c], id |-> comm_id[c]]
  ELSE [m |-> With(comm_map[c], comm, comm_id[c]), id |-> comm_id[c] + 1]

Event(op, msg, id) == [op |-> op, peer |-> msg.peer, size |-> msg.size, comm |-> id]

(* Mutation: the size at the root of a collective and elsewhere swapped. *)
CollSize_swapped(fn, msg) ==
  CASE fn = "Bcast" -> IF mcx.rank # msg.peer THEN msg.size ELSE 0
    [] fn = "Gather" -> IF mcx.rank = msg.peer THEN msg.size ELSE 0
    [] OTHER -> msg.size

(* push_coll_event: N-to-1 and 1-to-N events carry size and root, N-to-N
   events the size. *)
CollSize(fn, msg) ==
  CASE fn = "Bcast" -> IF mcx.rank = msg.peer THEN msg.size ELSE 0
    [] fn = "Gather" -> IF mcx.rank # msg.peer THEN msg.size ELSE 0
    [] fn = "Allreduce" -> msg.size
    [] OTHER -> 0
push_coll_event(fn, msg, id) ==
  [op |-> fn, peer |-> IF fn \in {"Bcast", "Gather"} THEN msg.peer ELSE -1, size |-> CollSize(fn, msg), comm |-> id]

----------------------------------------------------------------------------
(* MPI: what a call returns.  A receive's message is any of mcx.msgs. *)
Fresh == {h \in mcx.handles : h \notin DOMAIN reqs /\ (mcx.reuse \/ \A i \in DOMAIN ops : ops[i].h # h)}
Made(t, kind, comm, msg, h) ==
  [by |-> t, kind |-> kind, comm |-> comm, msg |-> msg, h |-> h, started |-> kind \notin Persistent, seen |-> {}]
(* The requests a thread may start or complete: the ones it made *)
Own(t, h) == h \in DOMAIN reqs /\ ops[reqs[h]].by = t
(* Non-persistent requests are gone once complete; persistent ones rest. *)
After(hs) == [h \in {k \in DOMAIN reqs : k \notin hs \/ ops[reqs[k]].kind \in Persistent} |-> reqs[h]]
Rested(hs) == [i \in DOMAIN ops |->
                 IF \E h \in hs : reqs[h] = i /\ ops[i].kind \in Persistent THEN [ops[i] EXCEPT !.started = FALSE]
                 ELSE ops[i]]

Enter(t, call) ==
  /\ pending[t].fn = "none" /\ call.fn \in mcx.ops /\ \A c \in DOMAIN due : Len(due[c]) < MpiMaxOps
  /\ pending' = [pending EXCEPT ![t] = call]
  /\ push_mpifn(t, call.fn)
  /\ UNCHANGED <<mcx, mwcs, chan, wrap_count, req_map, comm_map, comm_id, events, due>>

(* MPI_Send and its variants, MPI_Recv, the collectives *)
Message(t, fn, comm, msg) ==
  /\ Len(ops) < MpiMaxOps /\ ops' = Append(ops, Made(t, fn, comm, msg, "none")) /\ UNCHANGED reqs
  /\ Enter(t, [fn |-> fn, comm |-> comm, msg |-> msg])
(* MPI_Irecv, MPI_Send_init, MPI_Recv_init: a new request *)
Post(t, fn, comm, msg, h) ==
  /\ Len(ops) < MpiMaxOps
  /\ ops' = Append(ops, Made(t, fn, comm, msg, h)) /\ reqs' = With(reqs, h, Len(ops) + 1)
  /\ Enter(t, [fn |-> fn, comm |-> comm, msg |-> msg, h |-> h, op |-> Len(ops) + 1])
(* MPI_Start, MPI_Startall on persistent requests at rest *)
Start(t, hs) ==
  /\ \A h \in hs : Own(t, h) /\ ~ops[reqs[h]].started
  /\ ops' = [i \in DOMAIN ops |-> IF \E h \in hs : reqs[h] = i THEN [ops[i] EXCEPT !.started = TRUE] ELSE ops[i]]
  /\ UNCHANGED reqs
  /\ Enter(t, [fn |-> "Start", hs |-> hs, op |-> [h \in hs |-> reqs[h]]])
(* MPI_Wait*, MPI_Test* on the requests list: done, in order, are the places
   in it that completed; the status of the k-th is at stat[k], or at its own
   place for the functions that complete all. *)
Complete(t, fn, list, done, msg) ==
  /\ \A k \in DOMAIN done : ops[reqs[list[done[k]]]].started
  /\ \A k \in DOMAIN list : Own(t, list[k])
  /\ reqs' = After({list[done[k]] : k \in DOMAIN done})
  /\ ops' = Rested({list[done[k]] : k \in DOMAIN done})
  /\ Enter(t, [fn |-> fn, list |-> list, done |-> done, stat |-> msg,
               op |-> [k \in DOMAIN done |-> reqs[list[done[k]]]]])

----------------------------------------------------------------------------
(* The second half of the wrapper, channel by channel *)
Tracers(fn) == {c \in Range(mwcs) : Traces(c, fn)}
Push(evs) == events' = [c \in DOMAIN events |-> events[c] \o evs[c]]
Owe(evs) == due' = [c \in DOMAIN due |-> due[c] \o evs[c]]
Leave(t) ==
  /\ pending' = [pending EXCEPT ![t] = NoCall] /\ pop_mpifn(t, pending[t].fn)
  /\ UNCHANGED <<mcx, mwcs, chan, wrap_count, reqs>>
LookUp(fn, comm) ==
  /\ comm_map' = [c \in DOMAIN comm_map |-> IF c \in Tracers(fn) THEN Known(c, comm).m ELSE comm_map[c]]
  /\ comm_id' = [c \in DOMAIN comm_id |-> IF c \in Tracers(fn) THEN Known(c, comm).id ELSE comm_id[c]]

(* handle_send, handle_recv, handle_12n, handle_n21, handle_n2n, handle_barrier *)
handle_message(t) ==
  LET p == pending[t]
      ev(c) == IF c \notin Tracers(p.fn) THEN <<>>
               ELSE CASE p.fn \in {"Send", "Recv"} -> <<Event(p.fn, p.msg, lookup_comm(c, p.comm))>>
                      [] p.fn = "Sendrecv" -> <<Event("Send", p.msg, lookup_comm(c, p.comm)), Event("Recv", p.msg, lookup_comm(c, p.comm))>>
                      [] OTHER -> <<push_coll_event(p.fn, p.msg, lookup_comm(c, p.comm))>>
      size == CASE p.fn = "Bcast" -> IF mcx.rank = p.msg.peer THEN p.msg.size ELSE 0
                [] p.fn = "Gather" -> IF mcx.rank = p.msg.peer THEN 0 ELSE p.msg.size
                [] p.fn = "Barrier" -> 0 [] OTHER -> p.msg.size
      owed(c) == IF c \notin Tracers(p.fn) THEN <<>>
                 ELSE IF p.fn = "Sendrecv" THEN <<[op |-> "Send", size |-> size, comm |-> p.comm],
                                                  [op |-> "Recv", size |-> size, comm |-> p.comm]>>
                 ELSE <<[op |-> p.fn, size |-> size, comm |-> p.comm]>>
  IN  /\ p.fn \in {"Send", "Recv", "Sendrecv", "Bcast", "Gather", "Allreduce", "Barrier"}
      /\ Push([c \in DOMAIN events |-> ev(c)]) /\ Owe([c \in DOMAIN due |-> owed(c)])
      /\ LookUp(p.fn, p.comm) /\ Leave(t) /\ UNCHANGED <<ops, req_map>>

(* handle_irecv, handle_send_init, handle_recv_init *)
handle_post(t) ==
  LET p == pending[t]
      info(c) == [op |-> IF p.fn \in Recv_ THEN "Recv" ELSE "Send", persistent |-> p.fn \in Persistent,
                  msg |-> p.msg, comm |-> lookup_comm(c, p.comm)]
  IN  /\ p.fn \in {"Irecv", "Send_init", "Recv_init"}
      /\ req_map' = [c \in DOMAIN req_map |->
                       IF c \in Tracers(p.fn) THEN With(req_map[c], p.h, info(c)) ELSE req_map[c]]
      /\ ops' = [ops EXCEPT ![p.op].seen = Tracers(p.fn)]
      /\ LookUp(p.fn, p.comm) /\ Leave(t) /\ UNCHANGED <<events, due>>

handle_start(t) ==
  LET p == pending[t]
      sends(c) == {h \in p.hs : h \in DOMAIN req_map[c] /\ req_map[c][h].op = "Send"}
      ev(c) == IF c \notin Tracers("Start") THEN <<>>
               ELSE SetToSeq({Event("Send", req_map[c][h].msg, req_map[c][h].comm) : h \in sends(c)})
      owed(c) == IF c \notin Tracers("Start") THEN <<>>
                 ELSE SetToSeq({[op |-> "Send", size |-> ops[p.op[h]].msg.size, comm |-> ops[p.op[h]].comm] :
                                  h \in {k \in p.hs : ops[p.op[k]].kind = "Send_init" /\ c \in ops[p.op[k]].seen}})
  IN  /\ p.fn = "Start"
      /\ Push([c \in DOMAIN events |-> ev(c)]) /\ Owe([c \in DOMAIN due |-> owed(c)])
      /\ Leave(t) /\ UNCHANGED <<ops, req_map, comm_map, comm_id>>

(* The status the wrapper hands on for the k-th completed request:
   MPI_Waitsome and MPI_Testsome fill the first places of the array, and the
   wrapper reads the place of the request; what MPI did not fill is any
   message at all. *)
StatusAt(p, k) == IF p.fn \in {"Waitsome", "Testsome"} THEN p.done[k] ELSE k
Statuses(p, k) ==
  LET at == StatusAt(p, k) IN IF at \in DOMAIN p.stat THEN {p.stat[at]} ELSE mcx.msgs

(* The requests handle_completion erases: those that are not persistent *)
Forget(m, hs) == [h \in {k \in DOMAIN m : k \notin hs \/ m[k].persistent} |-> m[h]]

handle_completion(t) ==
  LET p == pending[t]
      n == Len(p.done)
      h(k) == p.list[p.done[k]]
      recv(c, k) == h(k) \in DOMAIN req_map[c] /\ req_map[c][h(k)].op = "Recv"
      owes(c, k) == ops[p.op[k]].kind \in Recv_ /\ c \in ops[p.op[k]].seen
      owed(c) == [k \in 1 .. n |-> [op |-> "Recv", size |-> p.stat[k].size, comm |-> ops[p.op[k]].comm]]
  IN  /\ p.fn \in {"Wait", "Waitall", "Waitany", "Waitsome", "Testsome"}
      /\ \E s \in [1 .. n -> mcx.msgs] :
           /\ \A k \in 1 .. n : s[k] \in Statuses(p, k)
           /\ Push([c \in DOMAIN events |->
                IF c \notin Tracers(p.fn) THEN <<>>
                ELSE LET on == SelectSeq([k \in 1 .. n |-> k], LAMBDA k : recv(c, k))
                     IN  [i \in DOMAIN on |-> Event("Recv", s[on[i]], req_map[c][h(on[i])].comm)]])
      /\ Owe([c \in DOMAIN due |->
           IF c \notin Tracers(p.fn) THEN <<>>
           ELSE LET on == SelectSeq([k \in 1 .. n |-> k], LAMBDA k : owes(c, k))
                IN  [i \in DOMAIN on |-> owed(c)[on[i]]]])
      /\ req_map' = [c \in DOMAIN req_map |->
           IF c \in Tracers(p.fn) THEN Forget(req_map[c], {h(k) : k \in 1 .. n}) ELSE req_map[c]]
      /\ Leave(t) /\ UNCHANGED <<ops, comm_map, comm_id>>

(* MPI_Request_free: the wrapper works first, on a persistent request at rest *)
request_free(t, h) ==
  /\ pending[t].fn = "none" /\ "Request_free" \in mcx.ops
  /\ Own(t, h) /\ ~ops[reqs[h]].started
  /\ req_map' = [c \in DOMAIN req_map |-> IF c \in Tracers("Request_free") THEN Drop(req_map[c], h) ELSE req_map[c]]
  /\ reqs' = Drop(reqs, h)
  /\ UNCHANGED <<mcx, mwcs, chan, wrap_count, depth, ops, comm_map, comm_id, pending, events, due>>

----------------------------------------------------------------------------
MpiInit ==
  /\ mcx \in MpiConfigs
  /\ mwcs = <<>> /\ chan = [c \in DOMAIN mcx.chans |-> [live |-> FALSE, active |-> FALSE]]
  /\ wrap_count = [f \in mcx.fns |-> 0] /\ depth = [t \in mcx.threads |-> 0]
  /\ reqs = <<>> /\ ops = <<>>
  /\ req_map = [c \in DOMAIN mcx.chans |-> <<>>] /\ comm_map = [c \in DOMAIN mcx.chans |-> <<>>]
  /\ comm_id = [c \in DOMAIN mcx.chans |-> 0]
  /\ pending = [t \in mcx.threads |-> NoCall]
  /\ events = [c \in DOMAIN mcx.chans |-> <<>>] /\ due = [c \in DOMAIN mcx.chans |-> <<>>]

MpiCall(t) ==
  \/ \E fn \in mcx.ops \cap {"Send", "Recv", "Sendrecv", "Bcast", "Gather", "Allreduce", "Barrier"},
        comm \in mcx.comms, msg \in mcx.msgs : Message(t, fn, comm, msg)
  \/ \E fn \in mcx.ops \cap {"Irecv", "Send_init", "Recv_init"}, comm \in mcx.comms, msg \in mcx.msgs :
        Fresh # {} /\ Post(t, fn, comm, msg, CHOOSE h \in Fresh : TRUE)
  \/ \E hs \in SUBSET DOMAIN reqs \ {{}} : Start(t, hs)
  \/ \E h \in DOMAIN reqs, m \in mcx.msgs : Complete(t, "Wait", <<h>>, <<1>>, <<m>>)
  \/ \E h, k \in DOMAIN reqs, m, n \in mcx.msgs :
        /\ h # k
        /\ \/ Complete(t, "Waitall", <<h, k>>, <<1, 2>>, <<m, n>>)
           \/ \E i \in 1 .. 2 : Complete(t, "Waitany", <<h, k>>, <<i>>, <<m>>)
           \/ \E fn \in {"Waitsome", "Testsome"}, d \in {<<1>>, <<2>>, <<1, 2>>, <<2, 1>>} :
                 Complete(t, fn, <<h, k>>, d, IF Len(d) = 1 THEN <<m>> ELSE <<m, n>>)
           \/ Complete(t, "Testsome", <<h, k>>, <<>>, <<>>)
  \/ \E h \in DOMAIN reqs : request_free(t, h)

MpiNext ==
  \/ \E t \in mcx.threads :
       MpiCall(t) \/ handle_message(t) \/ handle_post(t) \/ handle_start(t) \/ handle_completion(t)
  \/ \E c \in DOMAIN mcx.chans :
       \/ (mcx.toggle \/ Len(ops) = 0) /\ mpiwrap_init(c)
       \/ mcx.toggle /\ (mpi_finish(c) \/ toggle(c))

----------------------------------------------------------------------------
Times(seq, e) == Cardinality({i \in DOMAIN seq : seq[i] = e})

(* Each tracing channel gets one event for every message its functions saw
   and no other: sends when sent or started, receives when the call that
   completes them returns, with the message that really arrived, the right
   share of a collective, and the id of the right communicator, whatever
   requests are in flight, reused or persistent.  An mpi.function region is
   open exactly while a thread is in a wrapped function. *)
MessagesExact ==
  /\ \A c \in DOMAIN mcx.chans :
       LET pushed == [i \in DOMAIN events[c] |-> [op |-> events[c][i].op, size |-> events[c][i].size, comm |-> events[c][i].comm]]
           owed == [i \in DOMAIN due[c] |-> [due[c][i] EXCEPT !.comm = comm_map[c][@]]]
       IN  /\ Len(pushed) = Len(owed)
           /\ \A i \in DOMAIN owed : Times(pushed, owed[i]) = Times(owed, owed[i])
           /\ IsInjective(comm_map[c])
  /\ \A t \in mcx.threads :
       depth[t] = IF pending[t].fn # "none" /\ wrap_count[pending[t].fn] > 0 THEN 1 ELSE 0

(* A function is wrapped for as many channels as enable it. *)
WrapCounted == \A f \in mcx.fns : wrap_count[f] = Cardinality({c \in Range(mwcs) : Enabled(c, f)})
============================================================================
