------------------------------- MODULE Trace -------------------------------
(***************************************************************************)
(* The trace service (src/src/services/trace): every thread stores its      *)
(* snapshots in a trace buffer of its own, a list of chunks of fixed size.  *)
(* Any thread may flush or clear the buffers of all threads.  Writers take  *)
(* no lock; a flush sets a buffer's "stopped" flag while it reads it.       *)
(*                                                                          *)
(* A chunk is an array of cells.  A record with n entries takes a header    *)
(* cell and n entry cells, which is also the estimate of fits().  The       *)
(* counters that are only logged are left out.                              *)
(***************************************************************************)
EXTENDS Integers, Sequences, FiniteSets

CONSTANTS
    Threads,
    NoThread,    \* nobody holds flush_lock
    Policies,    \* the buffer policies that may be configured
    buffersize,  \* cells of a chunk
    Sizes,       \* numbers of entries of snapshot records
    MayClear,    \* "never", "quiet": only while no other thread takes a
                 \* snapshot, "any": at any time
    MaxRecords,  \* bounds of the model on the snapshots
    MaxFlushes   \* and on the flushes and clears that users ask for

ASSUME TraceAssumption ==
    /\ buffersize \in Nat /\ Sizes \subseteq Nat \ {0}
    /\ \A n \in Sizes : 1 + n < buffersize
    /\ Policies \subseteq {"grow", "flush", "stop"}
    /\ MayClear \in {"never", "quiet", "any"}
    /\ MaxRecords \in Nat /\ MaxFlushes \in Nat
    /\ NoThread \notin Threads

Cells == 0 .. 2 * buffersize
Zero == <<"zero", 0, 0>>
EmptyChunk == [m_pos |-> 0, m_nrec |-> 0, m_data |-> [i \in Cells |-> Zero]]
NoBuffer == [live |-> FALSE, stopped |-> FALSE, retired |-> FALSE, chunks |-> <<>>]
NewBuffer == [live |-> TRUE, stopped |-> FALSE, retired |-> FALSE, chunks |-> <<EmptyChunk>>]

VARIABLES
    policy,
    tbuf,        \* the trace buffer of each thread
    tbuf_list,   \* threads whose buffers are linked, newest first
    flush_lock,
    pc,
    rec,         \* the record each thread stores: id, entries, entries written
    todo,        \* buffers a flush or clear has still to visit
    back,        \* where a flush returns to
    taken, flushes,
    saved,       \* history: records each buffer accepted since it was cleared
    full,        \* history: the buffers that were stopped since then
    read         \* history: the last buffer that was read by a flush

vars == <<policy, tbuf, tbuf_list, flush_lock, pc, rec, todo, back, taken, flushes, saved, full, read>>
hist == <<saved, full>>

NoRecord == [id |-> 0, n |-> 0, k |-> 0]

Init ==
    /\ policy \in Policies
    /\ tbuf = [t \in Threads |-> NoBuffer]
    /\ tbuf_list = <<>>
    /\ flush_lock = NoThread
    /\ pc = [t \in Threads |-> "idle"]
    /\ rec = [t \in Threads |-> NoRecord]
    /\ todo = [t \in Threads |-> <<>>]
    /\ back = [t \in Threads |-> "idle"]
    /\ taken = 0 /\ flushes = 0
    /\ saved = [t \in Threads |-> {}]
    /\ full = [t \in Threads |-> FALSE]
    /\ read = [want |-> {}, got |-> <<>>]

Goto(t, l) == pc' = [pc EXCEPT ![t] = l]

-----------------------------------------------------------------------------
(* Chunks                                                                   *)

fits(chunk, n) == chunk.m_pos + 1 + n < buffersize

(* Write a cell at m_pos and move on.                                       *)
Put(chunk, cell) ==
    [m_pos |-> chunk.m_pos + 1, m_nrec |-> chunk.m_nrec,
     m_data |-> [chunk.m_data EXCEPT ![chunk.m_pos] = cell]]

Garbage == 0

(* The record that starts at cell p: its id if all its entries are there.   *)
RecordAt(data, p) ==
    LET h == data[p] IN
    IF h[1] = "header" /\ \A k \in 1 .. h[3] : p + k \in Cells /\ data[p + k] = <<"entry", h[2], k>>
    THEN h[2] ELSE Garbage

(* TraceBufferChunk::flush() of one chunk: the next record starts after the *)
(* entries that the header announces.                                       *)
Decode(chunk) ==
    LET at[r \in 0 .. chunk.m_nrec] ==
            IF r = 0 THEN [p |-> 0, out |-> <<>>]
            ELSE LET a == at[r - 1] IN
                 [p |-> a.p + 1 + chunk.m_data[a.p][3],
                  out |-> Append(a.out, RecordAt(chunk.m_data, a.p))]
    IN  at[chunk.m_nrec].out

(* TraceBufferChunk::flush(): a chunk, then the chunks behind it.           *)
DecodeAll(chunks) ==
    LET from[i \in 1 .. Len(chunks) + 1] ==
            IF i > Len(chunks) THEN <<>> ELSE Decode(chunks[i]) \o from[i + 1]
    IN  from[1]

(* Mutation: the new chunk replaces the old one.                            *)
GrowReplaces(chunks) == <<EmptyChunk>>

(* The new chunk goes in front of the full ones.                            *)
Grow(chunks) == <<EmptyChunk>> \o chunks

(* TraceBufferChunk::reset(): the first chunk is emptied, the others are    *)
(* deleted.                                                                 *)
reset(chunks) == <<EmptyChunk>>

-----------------------------------------------------------------------------
(* process_snapshot_cb                                                      *)

Clearing == \E t \in Threads : pc[t] \in {"clear", "clearnext", "reset", "cleared"}
Storing(t) ==
    \/ pc[t] \in {"stopped?", "fits?", "header", "entry", "count"}
    \/ pc[t] \in {"flush", "flushnext", "read", "flushed"} /\ back[t] = "header"

(* acquire_tbuf(): the buffer is created at first use, but not in a signal  *)
(* handler.                                                                 *)
acquire_tbuf(t, can_alloc) ==
    IF ~tbuf[t].live /\ can_alloc
    THEN /\ tbuf' = [tbuf EXCEPT ![t] = NewBuffer]
         /\ tbuf_list' = <<t>> \o tbuf_list
    ELSE UNCHANGED <<tbuf, tbuf_list>>

process_snapshot_cb(t, n, is_signal) ==
    /\ pc[t] = "idle" /\ taken < MaxRecords
    /\ ~(MayClear = "quiet" /\ Clearing)
    /\ acquire_tbuf(t, ~is_signal)
    /\ taken' = taken + 1
    /\ rec' = [rec EXCEPT ![t] = [id |-> taken', n |-> n, k |-> 0]]
    /\ Goto(t, IF tbuf'[t].live THEN "stopped?" ELSE "idle")
    /\ UNCHANGED <<flush_lock, todo, back, flushes, hist, read>>

(* create_thread_cb                                                         *)
create_thread_cb(t) ==
    /\ pc[t] = "idle" /\ ~tbuf[t].live
    /\ acquire_tbuf(t, TRUE)
    /\ UNCHANGED <<flush_lock, pc, rec, todo, back, taken, flushes, hist, read>>

(* release_thread_cb: the thread ends.                                      *)
release_thread_cb(t) ==
    /\ pc[t] = "idle"
    /\ tbuf' = [tbuf EXCEPT ![t].retired = tbuf[t].live]
    /\ Goto(t, "gone")
    /\ UNCHANGED <<tbuf_list, flush_lock, rec, todo, back, taken, flushes, hist, read>>

CheckStopped(t) ==
    /\ pc[t] = "stopped?"
    /\ Goto(t, IF tbuf[t].stopped THEN "idle" ELSE "fits?")
    /\ UNCHANGED <<tbuf, tbuf_list, flush_lock, rec, todo, back, taken, flushes, hist, read>>

Fits(t) ==
    /\ pc[t] = "fits?" /\ fits(tbuf[t].chunks[1], rec[t].n)
    /\ Goto(t, "header")
    /\ UNCHANGED <<tbuf, tbuf_list, flush_lock, rec, todo, back, taken, flushes, hist, read>>

(* The buffer is full.                                                      *)
handle_overflow(t) ==
    /\ pc[t] = "fits?" /\ ~fits(tbuf[t].chunks[1], rec[t].n)
    /\ \/ /\ policy = "stop"
          /\ tbuf' = [tbuf EXCEPT ![t].stopped = TRUE]
          /\ full' = [full EXCEPT ![t] = TRUE]
          /\ Goto(t, "idle")
          /\ UNCHANGED back
       \/ /\ policy = "grow"
          /\ tbuf' = [tbuf EXCEPT ![t].chunks = Grow(@)]
          /\ Goto(t, "header")
          /\ UNCHANGED <<back, full>>
       \/ /\ policy = "flush"
          /\ back' = [back EXCEPT ![t] = "header"]
          /\ Goto(t, "flush")
          /\ UNCHANGED <<tbuf, full>>
    /\ UNCHANGED <<tbuf_list, flush_lock, rec, todo, taken, flushes, saved, read>>

(* save_snapshot(): the header, the entries, and the number of records.     *)
Header(t) ==
    /\ pc[t] = "header"
    /\ tbuf' = [tbuf EXCEPT ![t].chunks[1] = Put(@, <<"header", rec[t].id, rec[t].n>>)]
    /\ Goto(t, "entry")
    /\ UNCHANGED <<tbuf_list, flush_lock, rec, todo, back, taken, flushes, hist, read>>

Entry(t) ==
    /\ pc[t] = "entry"
    /\ tbuf' = [tbuf EXCEPT ![t].chunks[1] = Put(@, <<"entry", rec[t].id, rec[t].k + 1>>)]
    /\ rec' = [rec EXCEPT ![t].k = @ + 1]
    /\ Goto(t, IF rec[t].k + 1 = rec[t].n THEN "count" ELSE "entry")
    /\ UNCHANGED <<tbuf_list, flush_lock, todo, back, taken, flushes, hist, read>>

Count(t) ==
    /\ pc[t] = "count"
    /\ tbuf' = [tbuf EXCEPT ![t].chunks[1].m_nrec = @ + 1]
    /\ saved' = [saved EXCEPT ![t] = @ \cup {rec[t].id}]
    /\ UNCHANGED full
    /\ Goto(t, "idle")
    /\ UNCHANGED <<tbuf_list, flush_lock, rec, todo, back, taken, flushes, read>>

-----------------------------------------------------------------------------
(* flush_cb: a user's flush, or the flush policy's.                         *)

UserFlush(t) ==
    /\ pc[t] = "idle" /\ flushes < MaxFlushes
    /\ flushes' = flushes + 1
    /\ back' = [back EXCEPT ![t] = "idle"]
    /\ Goto(t, "flush")
    /\ UNCHANGED <<tbuf, tbuf_list, flush_lock, rec, todo, taken, hist, read>>

(* The lock, and the head of the list of buffers.                           *)
FlushLock(t) ==
    /\ pc[t] = "flush" /\ flush_lock = NoThread
    /\ flush_lock' = t
    /\ todo' = [todo EXCEPT ![t] = tbuf_list]
    /\ Goto(t, "flushnext")
    /\ UNCHANGED <<tbuf, tbuf_list, rec, back, taken, flushes, hist, read>>

FlushStop(t) ==
    /\ pc[t] = "flushnext" /\ todo[t] # <<>>
    /\ tbuf' = [tbuf EXCEPT ![Head(todo[t])].stopped = TRUE]
    /\ Goto(t, "read")
    /\ UNCHANGED <<tbuf_list, flush_lock, rec, todo, back, taken, flushes, hist, read>>

FlushRead(t) ==
    /\ pc[t] = "read"
    /\ read' = [want |-> saved[Head(todo[t])], got |-> DecodeAll(tbuf[Head(todo[t])].chunks)]
    /\ Goto(t, "flushed")
    /\ UNCHANGED <<tbuf, tbuf_list, flush_lock, rec, todo, back, taken, flushes, hist>>

FlushResume(t) ==
    /\ pc[t] = "flushed"
    /\ tbuf' = [tbuf EXCEPT ![Head(todo[t])].stopped = FALSE]
    /\ todo' = [todo EXCEPT ![t] = Tail(@)]
    /\ Goto(t, "flushnext")
    /\ UNCHANGED <<tbuf_list, flush_lock, rec, back, taken, flushes, hist, read>>

(* Mutation: the lock is kept.                                              *)
FlushKeepsLock(t) ==
    /\ pc[t] = "flushnext" /\ todo[t] = <<>>
    /\ Goto(t, back[t])
    /\ UNCHANGED <<tbuf, tbuf_list, flush_lock, rec, todo, back, taken, flushes, hist, read>>

FlushDone(t) ==
    /\ pc[t] = "flushnext" /\ todo[t] = <<>>
    /\ flush_lock' = NoThread
    /\ Goto(t, back[t])
    /\ UNCHANGED <<tbuf, tbuf_list, rec, todo, back, taken, flushes, hist, read>>

-----------------------------------------------------------------------------
(* clear_cb                                                                 *)

Clear(t) ==
    /\ pc[t] = "idle" /\ flushes < MaxFlushes
    /\ MayClear # "never"
    /\ MayClear = "quiet" => \A u \in Threads \ {t} : ~Storing(u)
    /\ flushes' = flushes + 1
    /\ Goto(t, "clear")
    /\ UNCHANGED <<tbuf, tbuf_list, flush_lock, rec, todo, back, taken, hist, read>>

ClearLock(t) ==
    /\ pc[t] = "clear" /\ flush_lock = NoThread
    /\ flush_lock' = t
    /\ todo' = [todo EXCEPT ![t] = tbuf_list]
    /\ Goto(t, "clearnext")
    /\ UNCHANGED <<tbuf, tbuf_list, rec, back, taken, flushes, hist, read>>

ClearStop(t) ==
    /\ pc[t] = "clearnext" /\ todo[t] # <<>>
    /\ tbuf' = [tbuf EXCEPT ![Head(todo[t])].stopped = TRUE]
    /\ Goto(t, "reset")
    /\ UNCHANGED <<tbuf_list, flush_lock, rec, todo, back, taken, flushes, hist, read>>

ClearReset(t) ==
    /\ pc[t] = "reset"
    /\ tbuf' = [tbuf EXCEPT ![Head(todo[t])].chunks = reset(@)]
    /\ saved' = [saved EXCEPT ![Head(todo[t])] = {}]
    /\ full' = [full EXCEPT ![Head(todo[t])] = FALSE]
    /\ Goto(t, "cleared")
    /\ UNCHANGED <<tbuf_list, flush_lock, rec, todo, back, taken, flushes, read>>

(* The buffer is unlinked from its neighbours.                              *)
Without(list, b) ==
    LET i == CHOOSE i \in 1 .. Len(list) : list[i] = b
    IN  SubSeq(list, 1, i - 1) \o SubSeq(list, i + 1, Len(list))

(* Mutation: only the head of the list can be unlinked.                     *)
ResumeUnlinksHead(t) ==
    /\ pc[t] = "cleared"
    /\ LET b == Head(todo[t]) IN
       IF tbuf[b].retired
       THEN /\ tbuf' = [tbuf EXCEPT ![b] = NoBuffer]
            /\ tbuf_list' = IF Head(tbuf_list) = b THEN Tail(tbuf_list) ELSE tbuf_list
       ELSE /\ tbuf' = [tbuf EXCEPT ![b].stopped = FALSE]
            /\ UNCHANGED tbuf_list
    /\ todo' = [todo EXCEPT ![t] = Tail(@)]
    /\ Goto(t, "clearnext")
    /\ UNCHANGED <<flush_lock, rec, back, taken, flushes, hist, read>>

(* Recording goes on; the buffer of a thread that ended is deleted.         *)
ClearResume(t) ==
    /\ pc[t] = "cleared"
    /\ LET b == Head(todo[t]) IN
       IF tbuf[b].retired
       THEN /\ tbuf' = [tbuf EXCEPT ![b] = NoBuffer]
            /\ tbuf_list' = Without(tbuf_list, b)
       ELSE /\ tbuf' = [tbuf EXCEPT ![b].stopped = FALSE]
            /\ UNCHANGED tbuf_list
    /\ todo' = [todo EXCEPT ![t] = Tail(@)]
    /\ Goto(t, "clearnext")
    /\ UNCHANGED <<flush_lock, rec, back, taken, flushes, hist, read>>

ClearDone(t) ==
    /\ pc[t] = "clearnext" /\ todo[t] = <<>>
    /\ flush_lock' = NoThread
    /\ Goto(t, "idle")
    /\ UNCHANGED <<tbuf, tbuf_list, rec, todo, back, taken, flushes, hist, read>>

-----------------------------------------------------------------------------
Store(t) ==
    \/ CheckStopped(t) \/ Fits(t) \/ handle_overflow(t)
    \/ Header(t) \/ Entry(t) \/ Count(t)

Flush(t) ==
    \/ FlushLock(t) \/ FlushStop(t) \/ FlushRead(t) \/ FlushResume(t) \/ FlushDone(t)

ClearStep(t) ==
    \/ ClearLock(t) \/ ClearStop(t) \/ ClearReset(t) \/ ClearResume(t) \/ ClearDone(t)

Request(t) ==
    /\ UNCHANGED policy
    /\ \/ \E n \in Sizes, is_signal \in BOOLEAN : process_snapshot_cb(t, n, is_signal)
       \/ create_thread_cb(t) \/ release_thread_cb(t)
       \/ UserFlush(t) \/ Clear(t)

Work(t) == UNCHANGED policy /\ (Store(t) \/ Flush(t) \/ ClearStep(t))

Next == \E t \in Threads : Request(t) \/ Work(t)

(* A thread that stores, flushes or clears goes on: nothing it does waits   *)
(* for another thread except flush_lock.                                    *)
FairSpec == Init /\ [][Next]_vars /\ \A t \in Threads : WF_vars(Work(t))

Spec == Init /\ [][Next]_vars

-----------------------------------------------------------------------------
TypeOK ==
    /\ flush_lock \in Threads \cup {NoThread}
    /\ \A t \in Threads :
          /\ tbuf[t].live \in BOOLEAN /\ tbuf[t].stopped \in BOOLEAN /\ tbuf[t].retired \in BOOLEAN
          /\ tbuf[t].live <=> tbuf[t].chunks # <<>>
          /\ saved[t] \subseteq 1 .. MaxRecords
    /\ taken \in 0 .. MaxRecords /\ flushes \in 0 .. MaxFlushes

(* Records stay within their chunk with every policy: process_snapshot_cb   *)
(* stores a record only where it fits or where handle_overflow made room    *)
(* ("Flush the buffer when it is full and continue recording",              *)
(* services.rst).                                                           *)
RoomMade ==
    \A t \in Threads : \A i \in 1 .. Len(tbuf[t].chunks) :
        tbuf[t].chunks[i].m_pos <= buffersize

(* A flush reads exactly the records that the buffer accepted since it was  *)
(* cleared, each once and intact, while the owner goes on storing           *)
(* ("writers won't block but just drop the snapshot", Trace.cpp:174); and   *)
(* with the grow and stop policies a record is stored only where it fits:   *)
(* handle_overflow puts a new chunk in front or drops the record.           *)
FlushExact ==
    /\ Len(read.got) = Cardinality(read.want)
    /\ {read.got[i] : i \in 1 .. Len(read.got)} = read.want
    /\ policy # "flush" => RoomMade

(* The list links exactly the buffers that exist, so that every buffer is   *)
(* flushed and the buffers of threads that ended are not lost.              *)
ListComplete ==
    /\ \A t \in Threads : tbuf[t].live <=> \E i \in 1 .. Len(tbuf_list) : tbuf_list[i] = t
    /\ Cardinality({tbuf_list[i] : i \in 1 .. Len(tbuf_list)}) = Len(tbuf_list)

(* Once a buffer of the stop policy is full, nothing is added to it until   *)
(* it is cleared ("Stop recording when the buffer is full", services.rst).  *)
StopIsFinal ==
    \A t \in Threads :
        policy = "stop" /\ full[t] => pc[t] \notin {"header", "entry", "count"}

(* Every flush, clear and store ends: the calling threads return.           *)
CallsEnd == \A t \in Threads : pc[t] # "idle" ~> pc[t] \in {"idle", "gone"}

=============================================================================
