---------------------------- MODULE TraceProofs ----------------------------
(***************************************************************************)
(* The trace buffers are all linked: the invariant of the list of buffers,  *)
(* the flush lock and the flags of the buffers, and why every step keeps it *)
(***************************************************************************)
EXTENDS Trace, TLAPS

(* The cells of a chunk: zero, or the kind, the record and a number.        *)
Cell == {"zero", "header", "entry"} \X Nat \X Nat

Chunk == [m_pos : Nat, m_nrec : Nat, m_data : [Cells -> Cell]]

(* The first element of a sequence and the others.                          *)
LEMMA HeadTail ==
    ASSUME NEW S, NEW s \in Seq(S), s # <<>>
    PROVE  /\ Head(s) \in S /\ Head(s) = s[1]
           /\ Tail(s) \in Seq(S) /\ Len(Tail(s)) = Len(s) - 1
           /\ \A i \in 1 .. Len(Tail(s)) : Tail(s)[i] = s[i + 1]
OBVIOUS

(* One element is replaced.                                                 *)
LEMMA SeqExcept ==
    ASSUME NEW S, NEW s \in Seq(S), NEW i \in 1 .. Len(s), NEW e \in S
    PROVE  /\ [s EXCEPT ![i] = e] \in Seq(S)
           /\ Len([s EXCEPT ![i] = e]) = Len(s)
           /\ \A j \in 1 .. Len(s) : [s EXCEPT ![i] = e][j] = IF j = i THEN e ELSE s[j]
OBVIOUS

(* A part of a sequence.                                                    *)
LEMMA SeqPart ==
    ASSUME NEW S, NEW s \in Seq(S), NEW m \in 1 .. Len(s) + 1, NEW n \in m - 1 .. Len(s)
    PROVE  /\ SubSeq(s, m, n) \in Seq(S) /\ Len(SubSeq(s, m, n)) = n - m + 1
           /\ \A i \in 1 .. n - m + 1 : SubSeq(s, m, n)[i] = s[m + i - 1]
OBVIOUS

(* One sequence behind the other.                                           *)
LEMMA SeqConcat ==
    ASSUME NEW S, NEW s \in Seq(S), NEW r \in Seq(S)
    PROVE  /\ s \o r \in Seq(S) /\ Len(s \o r) = Len(s) + Len(r)
           /\ \A i \in 1 .. Len(s) + Len(r) :
                 (s \o r)[i] = IF i <= Len(s) THEN s[i] ELSE r[i - Len(s)]
OBVIOUS

-----------------------------------------------------------------------------
(* Two sequences that differ at most in their first element have the same    *)
(* tail.                                                                     *)
LEMMA SameTail ==
    ASSUME NEW S, NEW s \in Seq(S), NEW r \in Seq(S), s # <<>>, r # <<>>,
           Len(s) = Len(r), \A i \in 2 .. Len(s) : r[i] = s[i]
    PROVE  Tail(r) = Tail(s)
<1>1. /\ Tail(s) \in Seq(S) /\ Tail(r) \in Seq(S) /\ Len(Tail(s)) = Len(Tail(r))
      /\ Len(Tail(s)) \in Nat /\ Len(Tail(s)) = Len(s) - 1
  OBVIOUS
<1>2. \A i \in 1 .. Len(Tail(s)) : Tail(r)[i] = r[i + 1] /\ Tail(s)[i] = s[i + 1]
  OBVIOUS
<1>3. \A i \in 1 .. Len(Tail(s)) : Tail(r)[i] = Tail(s)[i]
  BY <1>1, <1>2
<1> QED BY <1>1, <1>3

(* The lists                                                                *)

ChunkPc == {"stopped?", "fits?", "header", "entry", "count"}
FlushPc == {"flush", "flushnext", "read", "flushed"}
ClearPc == {"clear", "clearnext", "reset", "cleared"}
Visiting == {"read", "flushed", "reset", "cleared"}
Locking == Visiting \cup {"flushnext", "clearnext"}
Buffer == [live : BOOLEAN, stopped : BOOLEAN, retired : BOOLEAN, chunks : Seq(Chunk)]

TraceType ==
    /\ policy \in Policies
    /\ tbuf \in [Threads -> Buffer]
    /\ tbuf_list \in Seq(Threads)
    /\ flush_lock \in Threads \cup {NoThread}
    /\ pc \in [Threads -> {"idle", "gone"} \cup ChunkPc \cup FlushPc \cup ClearPc]
    /\ rec \in [Threads -> [id : Nat, n : Nat, k : Nat]]
    /\ todo \in [Threads -> Seq(Threads)]
    /\ back \in [Threads -> {"idle", "header"}]
    /\ taken \in Nat
    /\ saved \in [Threads -> SUBSET Nat]

Distinct(s) == \A i, j \in 1 .. Len(s) : i # j => s[i] # s[j]

Has(s, x) == \E i \in 1 .. Len(s) : s[i] = x

(* The list has every buffer once.                                          *)
ListInv ==
    /\ Distinct(tbuf_list)
    /\ \A t \in Threads : tbuf[t].live <=> Has(tbuf_list, t)
    /\ \A t \in Threads : tbuf[t].live <=> tbuf[t].chunks # <<>>

(* A thread that stores has a buffer, and the buffer of a thread is         *)
(* retired when the thread has ended.                                       *)
OwnerAt(t) ==
    /\ Storing(t) => tbuf[t].live
    /\ tbuf[t].retired => pc[t] = "gone"

(* A flush or clear holds flush_lock from the first buffer to the last, and *)
(* the buffers it has still to visit exist.                                 *)
WalkAt(t) ==
    /\ pc[t] \in Locking =>
          /\ flush_lock = t /\ Distinct(todo[t])
          /\ \A i \in 1 .. Len(todo[t]) : tbuf[todo[t][i]].live
    /\ pc[t] \in Visiting => todo[t] # <<>>

OwnerInv == \A t \in Threads : OwnerAt(t)
WalkInv == \A t \in Threads : WalkAt(t)

ListsInv == TraceType /\ ListInv /\ OwnerInv /\ WalkInv


USE DEF ChunkPc, FlushPc, ClearPc, Visiting, Locking

Front(t) == tbuf[t].chunks[1]

(* Setting a flag of a buffer.                                              *)
LEMMA SetStopped ==
    ASSUME tbuf \in [Threads -> Buffer], NEW x \in Threads, NEW v \in BOOLEAN,
           tbuf' = [tbuf EXCEPT ![x].stopped = v]
    PROVE  /\ tbuf' \in [Threads -> Buffer]
           /\ \A u \in Threads : /\ tbuf'[u].live <=> tbuf[u].live
                                 /\ tbuf'[u].retired <=> tbuf[u].retired
                                 /\ tbuf'[u].chunks = tbuf[u].chunks
BY DEF Buffer

(* Replacing the chunks of a buffer.                                        *)
LEMMA SetChunks ==
    ASSUME tbuf \in [Threads -> Buffer], NEW x \in Threads, NEW cs \in Seq(Chunk),
           tbuf' = [tbuf EXCEPT ![x].chunks = cs]
    PROVE  /\ tbuf' \in [Threads -> Buffer]
           /\ \A u \in Threads : /\ tbuf'[u].live <=> tbuf[u].live
                                 /\ tbuf'[u].retired <=> tbuf[u].retired
                                 /\ tbuf'[u].chunks = IF u = x THEN cs ELSE tbuf[u].chunks
BY Zenon DEF Buffer

(* The constants are chunks and buffers.                                    *)
LEMMA BuffersTyped ==
    /\ EmptyChunk \in Chunk /\ NoBuffer \in Buffer /\ NewBuffer \in Buffer
    /\ <<EmptyChunk>> \in Seq(Chunk) /\ <<EmptyChunk>> # <<>>
<1>1. Zero \in Cell
  BY DEF Zero, Cell
<1>2. EmptyChunk \in Chunk
  BY <1>1 DEF EmptyChunk, Chunk
<1> QED BY <1>2 DEF NoBuffer, NewBuffer, Buffer

(* What Put does to a chunk.                                                *)
LEMMA PutIs ==
    ASSUME NEW c \in Chunk, NEW cell \in Cell
    PROVE  /\ Put(c, cell) \in Chunk
           /\ Put(c, cell).m_pos = c.m_pos + 1 /\ Put(c, cell).m_nrec = c.m_nrec
           /\ \A i \in Cells : Put(c, cell).m_data[i] =
                  IF i = c.m_pos THEN cell ELSE c.m_data[i]
<1> DEFINE data == [c.m_data EXCEPT ![c.m_pos] = cell]
<1>1. /\ c.m_data \in [Cells -> Cell] /\ c.m_pos \in Nat /\ c.m_nrec \in Nat
      /\ c = [m_pos |-> c.m_pos, m_nrec |-> c.m_nrec, m_data |-> c.m_data]
  BY DEF Chunk
<1>2. /\ data \in [Cells -> Cell]
      /\ \A i \in Cells : data[i] = IF i = c.m_pos THEN cell ELSE c.m_data[i]
  BY <1>1, Zenon
<1> HIDE DEF data
<1>3. Put(c, cell) = [m_pos |-> c.m_pos + 1, m_nrec |-> c.m_nrec, m_data |-> data]
  BY Zenon DEF Put, data
<1>4. c.m_pos + 1 \in Nat
  BY <1>1
<1> QED BY <1>1, <1>2, <1>3, <1>4 DEF Chunk

(* The list and the buffers in it stay as they are.                         *)
SameLists ==
    /\ tbuf_list' = tbuf_list
    /\ \A u \in Threads : /\ tbuf'[u].live <=> tbuf[u].live
                          /\ tbuf'[u].retired <=> tbuf[u].retired
                          /\ tbuf'[u].chunks = <<>> <=> tbuf[u].chunks = <<>>

(* The list stays complete when no buffer appears or disappears.            *)
LEMMA SameListInv == ASSUME ListInv, SameLists PROVE ListInv'
BY DEF ListInv, SameLists, Distinct, Has

(* The other threads stay where they are.                                   *)
OnlyMoves(t) ==
    \A u \in Threads \ {t} : /\ pc'[u] = pc[u] /\ todo'[u] = todo[u]
                             /\ back'[u] = back[u]

(* A step of t keeps OwnerInv if it does for t and takes no buffer away     *)
(* from a thread that stores.                                               *)
LEMMA OwnerFrame ==
    ASSUME OwnerInv, NEW t \in Threads, OnlyMoves(t), OwnerAt(t)',
           \A u \in Threads \ {t} : /\ tbuf'[u].retired => tbuf[u].retired
                                    /\ Storing(u) /\ tbuf[u].live => tbuf'[u].live
    PROVE  OwnerInv'
<1> SUFFICES ASSUME NEW u \in Threads \ {t} PROVE OwnerAt(u)'
  BY DEF OwnerInv
<1>1. pc'[u] = pc[u] /\ back'[u] = back[u] /\ OwnerAt(u)
  BY DEF OnlyMoves, OwnerInv
<1> QED BY <1>1 DEF OwnerAt, Storing

(* A step of t keeps WalkInv if it does for t, takes no lock that another   *)
(* thread holds, and deletes buffers only under the lock.                   *)
LEMMA WalkFrame ==
    ASSUME TraceType, WalkInv, NEW t \in Threads, OnlyMoves(t), WalkAt(t)',
           flush_lock' = flush_lock \/ flush_lock \in {t, NoThread},
           flush_lock = t \/ \A u \in Threads : tbuf[u].live => tbuf'[u].live
    PROVE  WalkInv'
<1> SUFFICES ASSUME NEW u \in Threads \ {t} PROVE WalkAt(u)'
  BY DEF WalkInv
<1>1. pc'[u] = pc[u] /\ todo'[u] = todo[u] /\ WalkAt(u) /\ todo[u] \in Seq(Threads)
  BY DEF OnlyMoves, WalkInv, TraceType
<1>2. CASE pc[u] \in Locking
  <2>1. flush_lock = u /\ u # t /\ u # NoThread
    BY <1>1, <1>2, TraceAssumption DEF WalkAt
  <2>2. flush_lock' = u /\ \A x \in Threads : tbuf[x].live => tbuf'[x].live
    BY <2>1
  <2>3. \A i \in 1 .. Len(todo[u]) : todo[u][i] \in Threads
    BY <1>1
  <2> QED BY <1>1, <1>2, <2>2, <2>3 DEF WalkAt
<1>3. CASE pc[u] \notin Locking
  BY <1>1, <1>3 DEF WalkAt
<1> QED BY <1>2, <1>3

(* Initially there is no buffer.                                            *)
LEMMA ListsInit == ASSUME Init PROVE ListsInv
<1>1. TraceType
  BY DEF Init, TraceType, Buffer, NoBuffer, NoRecord
<1>2. ListInv
  BY DEF Init, ListInv, Distinct, Has, NoBuffer
<1>3. OwnerInv /\ WalkInv
  BY DEF Init, OwnerInv, WalkInv, OwnerAt, WalkAt, Storing, NoBuffer
<1> QED BY <1>1, <1>2, <1>3 DEF ListsInv

(* Steps that leave the buffers alone.                                      *)
LEMMA ListsMove ==
    ASSUME ListsInv, NEW t \in Threads, UNCHANGED <<policy, tbuf, tbuf_list>>,
           UserFlush(t) \/ Clear(t) \/ CheckStopped(t) \/ Fits(t) \/ FlushRead(t)
           \/ FlushDone(t) \/ ClearDone(t)
    PROVE  ListsInv'
<1> USE DEF UserFlush, Clear, CheckStopped, Fits, FlushRead, FlushDone, ClearDone, Goto, hist
<1>1. TraceType'
  BY Zenon DEF ListsInv, TraceType
<1>2. ListInv'
  BY DEF ListsInv, ListInv
<1>3. OnlyMoves(t) /\ OwnerAt(t)'
  BY Zenon DEF ListsInv, TraceType, OwnerInv, OwnerAt, Storing, OnlyMoves
<1>4. OwnerInv'
  BY <1>3, OwnerFrame DEF ListsInv
<1>5. WalkAt(t)' /\ (flush_lock' = flush_lock \/ flush_lock = t)
  BY Zenon DEF ListsInv, TraceType, WalkInv, WalkAt
<1>6. WalkInv'
  BY <1>3, <1>5, WalkFrame DEF ListsInv
<1> QED BY <1>1, <1>2, <1>4, <1>6 DEF ListsInv

(* A flush or clear starts at the head of the list.                         *)
LEMMA ListsLock ==
    ASSUME ListsInv, NEW t \in Threads, UNCHANGED policy, FlushLock(t) \/ ClearLock(t)
    PROVE  ListsInv'
<1> USE DEF FlushLock, ClearLock, Goto, hist
<1>1. TraceType'
  BY Zenon DEF ListsInv, TraceType
<1>2. ListInv'
  BY DEF ListsInv, ListInv
<1>3. OnlyMoves(t) /\ OwnerAt(t)'
  BY DEF ListsInv, TraceType, OwnerInv, OwnerAt, Storing, OnlyMoves
<1>4. OwnerInv'
  BY <1>3, OwnerFrame DEF ListsInv
<1>5. /\ todo'[t] = tbuf_list /\ flush_lock' = t /\ flush_lock = NoThread /\ tbuf' = tbuf
      /\ pc'[t] \in {"flushnext", "clearnext"}
  BY DEF ListsInv, TraceType
<1>6. \A i \in 1 .. Len(tbuf_list) : tbuf[tbuf_list[i]].live
  <2>1. \A i \in 1 .. Len(tbuf_list) : tbuf_list[i] \in Threads /\ Has(tbuf_list, tbuf_list[i])
    BY DEF ListsInv, TraceType, Has
  <2> QED BY <2>1 DEF ListsInv, ListInv
<1>7. WalkAt(t)'
  BY <1>5, <1>6 DEF WalkAt, ListsInv, ListInv
<1>8. WalkInv'
  BY <1>3, <1>5, <1>7, WalkFrame DEF ListsInv
<1> QED BY <1>1, <1>2, <1>4, <1>8 DEF ListsInv

(* The buffer that is visited exists.                                       *)
LEMMA Visited ==
    ASSUME TraceType, WalkInv, NEW t \in Threads,
           pc[t] \in Visiting \/ (pc[t] \in Locking /\ todo[t] # <<>>)
    PROVE  /\ todo[t] # <<>> /\ Head(todo[t]) \in Threads /\ tbuf[Head(todo[t])].live
           /\ Tail(todo[t]) \in Seq(Threads) /\ Distinct(Tail(todo[t]))
           /\ \A i \in 1 .. Len(Tail(todo[t])) :
                 /\ Tail(todo[t])[i] \in Threads /\ tbuf[Tail(todo[t])[i]].live
                 /\ Tail(todo[t])[i] # Head(todo[t])
<1>1. /\ todo[t] # <<>> /\ todo[t] \in Seq(Threads) /\ Distinct(todo[t])
      /\ \A i \in 1 .. Len(todo[t]) : tbuf[todo[t][i]].live
  BY DEF TraceType, WalkInv, WalkAt
<1>2. /\ Head(todo[t]) = todo[t][1] /\ Head(todo[t]) \in Threads
      /\ Tail(todo[t]) \in Seq(Threads) /\ Len(Tail(todo[t])) = Len(todo[t]) - 1
      /\ Len(todo[t]) \in Nat \ {0}
      /\ \A i \in 1 .. Len(Tail(todo[t])) : Tail(todo[t])[i] = todo[t][i + 1]
  BY <1>1, HeadTail
<1>3. ASSUME NEW i \in 1 .. Len(Tail(todo[t]))
      PROVE  /\ i + 1 \in 1 .. Len(todo[t]) /\ 1 \in 1 .. Len(todo[t])
             /\ todo[t][i + 1] # todo[t][1]
  <2>1. i + 1 \in 1 .. Len(todo[t]) /\ 1 \in 1 .. Len(todo[t]) /\ i + 1 # 1
    BY <1>2
  <2> QED BY <1>1, <2>1 DEF Distinct
<1>4. ASSUME NEW i \in 1 .. Len(Tail(todo[t])), NEW j \in 1 .. Len(Tail(todo[t])), i # j
      PROVE  Tail(todo[t])[i] # Tail(todo[t])[j]
  <2>1. i + 1 \in 1 .. Len(todo[t]) /\ j + 1 \in 1 .. Len(todo[t]) /\ i + 1 # j + 1
    BY <1>2, <1>4
  <2>2. todo[t][i + 1] # todo[t][j + 1]
    BY <1>1, <2>1, Zenon DEF Distinct
  <2> QED BY <1>2, <2>2
<1>5. Distinct(Tail(todo[t]))
  BY <1>4 DEF Distinct
<1>6. \A i \in 1 .. Len(Tail(todo[t])) : Tail(todo[t])[i] \in Threads
  BY <1>2
<1> QED BY <1>1, <1>2, <1>3, <1>5, <1>6

(* A flush or clear stops and resumes a buffer.                             *)
LEMMA ListsStop ==
    ASSUME ListsInv, NEW t \in Threads, UNCHANGED policy,
           FlushStop(t) \/ ClearStop(t) \/ FlushResume(t)
           \/ (ClearResume(t) /\ ~tbuf[Head(todo[t])].retired)
    PROVE  ListsInv'
<1>0. pc[t] \in Visiting \/ (pc[t] \in Locking /\ todo[t] # <<>>)
  BY DEF FlushStop, ClearStop, FlushResume, ClearResume
<1>1. /\ Head(todo[t]) \in Threads /\ todo[t] # <<>>
      /\ Tail(todo[t]) \in Seq(Threads) /\ Distinct(Tail(todo[t]))
      /\ \A i \in 1 .. Len(Tail(todo[t])) : tbuf[Tail(todo[t])[i]].live
  BY <1>0, Visited DEF ListsInv
<1>2. tbuf_list' = tbuf_list /\ \E v \in BOOLEAN : tbuf' = [tbuf EXCEPT ![Head(todo[t])].stopped = v]
  BY Zenon DEF FlushStop, ClearStop, FlushResume, ClearResume
<1>3. tbuf' \in [Threads -> Buffer] /\ SameLists
  BY <1>1, <1>2, SetStopped, Zenon DEF ListsInv, TraceType, SameLists
<1>5. ListInv'
  BY <1>3, SameListInv DEF ListsInv
<1>a. pc \in [Threads -> {"idle", "gone"} \cup ChunkPc \cup FlushPc \cup ClearPc]
      /\ todo \in [Threads -> Seq(Threads)]
  BY DEF ListsInv, TraceType
<1>b. OnlyMoves(t) /\ flush_lock' = flush_lock /\ back' = back
  BY <1>a DEF OnlyMoves, FlushStop, ClearStop, FlushResume, ClearResume, Goto
<1>c. \/ todo'[t] = todo[t] /\ pc[t] \in Locking /\ todo[t] # <<>>
      \/ todo'[t] = Tail(todo[t]) /\ pc[t] \in Visiting /\ pc'[t] \notin Visiting
  BY <1>a DEF FlushStop, ClearStop, FlushResume, ClearResume, Goto
<1>d. pc'[t] \in Locking /\ (pc[t] \in FlushPc <=> pc'[t] \in FlushPc)
  BY <1>a DEF FlushStop, ClearStop, FlushResume, ClearResume, Goto
<1>4. TraceType'
  <2>1. todo' \in [Threads -> Seq(Threads)]
    BY <1>1, <1>a, Zenon DEF FlushStop, ClearStop, FlushResume, ClearResume
  <2>2. pc' \in [Threads -> {"idle", "gone"} \cup ChunkPc \cup FlushPc \cup ClearPc]
    BY <1>a, Zenon DEF FlushStop, ClearStop, FlushResume, ClearResume, Goto
  <2>3. UNCHANGED <<tbuf_list, flush_lock, rec, back, taken, saved>>
    BY DEF FlushStop, ClearStop, FlushResume, ClearResume, hist
  <2> QED BY <1>3, <2>1, <2>2, <2>3, Zenon DEF ListsInv, TraceType
<1>6. /\ OnlyMoves(t) /\ flush_lock' = flush_lock /\ todo'[t] \in {todo[t], Tail(todo[t])}
      /\ pc[t] \in Locking /\ pc'[t] \in Locking /\ back' = back
      /\ pc'[t] \in Visiting => todo'[t] # <<>>
      /\ pc[t] \in FlushPc <=> pc'[t] \in FlushPc
  BY <1>b, <1>c, <1>d, Zenon
<1>7. OwnerInv'
  <2>1. OwnerAt(t)'
    BY <1>3, <1>6 DEF ListsInv, OwnerInv, OwnerAt, Storing, SameLists
  <2> QED BY <1>3, <1>6, <2>1, OwnerFrame DEF ListsInv, SameLists
<1>8. WalkInv'
  <2>1. \A i \in 1 .. Len(todo'[t]) : todo'[t][i] \in Threads /\ tbuf[todo'[t][i]].live
    <3>1. /\ todo[t] \in Seq(Threads)
          /\ \A i \in 1 .. Len(todo[t]) : tbuf[todo[t][i]].live
      BY <1>6 DEF ListsInv, TraceType, WalkInv, WalkAt
    <3>2. CASE todo'[t] = todo[t]
      BY <3>1, <3>2
    <3>3. CASE todo'[t] = Tail(todo[t])
      <4>1. \A i \in 1 .. Len(Tail(todo[t])) : Tail(todo[t])[i] \in Threads
        BY <1>1
      <4> QED BY <1>1, <3>3, <4>1
    <3> QED BY <1>6, <3>2, <3>3, Zenon
  <2>2. Distinct(todo'[t]) /\ flush_lock = t
    BY <1>1, <1>6, Zenon DEF ListsInv, WalkInv, WalkAt
  <2>3. WalkAt(t)'
    BY <1>3, <1>6, <2>1, <2>2 DEF WalkAt, SameLists
  <2> QED BY <1>3, <1>6, <2>3, WalkFrame DEF ListsInv, SameLists
<1> QED BY <1>4, <1>5, <1>7, <1>8 DEF ListsInv

(* Replacing the chunks of a buffer leaves the lists alone.                 *)
LEMMA KeepsLists ==
    ASSUME ListsInv, NEW x \in Threads, tbuf[x].live, NEW cs \in Seq(Chunk), cs # <<>>,
           tbuf' = [tbuf EXCEPT ![x].chunks = cs], tbuf_list' = tbuf_list
    PROVE  tbuf' \in [Threads -> Buffer] /\ SameLists
<1>1. tbuf \in [Threads -> Buffer] /\ tbuf[x].chunks # <<>>
  BY DEF ListsInv, TraceType, ListInv
<1>2. /\ tbuf' \in [Threads -> Buffer]
      /\ \A u \in Threads : /\ tbuf'[u].live <=> tbuf[u].live
                            /\ tbuf'[u].retired <=> tbuf[u].retired
                            /\ tbuf'[u].chunks = IF u = x THEN cs ELSE tbuf[u].chunks
  BY <1>1, SetChunks, Zenon
<1>3. \A u \in Threads : tbuf'[u].chunks = <<>> <=> tbuf[u].chunks = <<>>
  BY <1>1, <1>2
<1> QED BY <1>2, <1>3 DEF SameLists

(* What save_snapshot() and handle_overflow() write.                        *)
FrontWith(t, c) == [tbuf[t].chunks EXCEPT ![1] = c]
HeaderOf(t) == <<"header", rec[t].id, rec[t].n>>
EntryOf(t) == <<"entry", rec[t].id, rec[t].k + 1>>
Counted(c) == [c EXCEPT !.m_nrec = @ + 1]

(* The cells of a record.                                                   *)
LEMMA CellsTyped ==
    ASSUME TraceType, NEW t \in Threads PROVE HeaderOf(t) \in Cell /\ EntryOf(t) \in Cell
BY DEF TraceType, HeaderOf, EntryOf, Cell

(* What counting a record does to a chunk.                                  *)
LEMMA CountedIs ==
    ASSUME NEW c \in Chunk
    PROVE  /\ Counted(c) \in Chunk /\ Counted(c).m_pos = c.m_pos
           /\ Counted(c).m_nrec = c.m_nrec + 1 /\ Counted(c).m_data = c.m_data
BY DEF Counted, Chunk

(* The steps of save_snapshot() replace the first chunk of the thread.      *)
LEMMA StoreIs ==
    ASSUME TraceType, ListInv, OwnerInv, NEW t \in Threads
    PROVE  /\ Header(t) => tbuf' = [tbuf EXCEPT ![t].chunks = FrontWith(t, Put(Front(t), HeaderOf(t)))]
           /\ Entry(t) => tbuf' = [tbuf EXCEPT ![t].chunks = FrontWith(t, Put(Front(t), EntryOf(t)))]
           /\ Count(t) => tbuf' = [tbuf EXCEPT ![t].chunks = FrontWith(t, Counted(Front(t)))]
           /\ Header(t) \/ Entry(t) \/ Count(t) \/ handle_overflow(t) =>
                 /\ tbuf[t].live /\ Front(t) \in Chunk /\ tbuf[t].chunks # <<>>
                 /\ tbuf[t].chunks \in Seq(Chunk)
                 /\ \A c \in Chunk : /\ FrontWith(t, c) \in Seq(Chunk) /\ FrontWith(t, c) # <<>>
                                     /\ FrontWith(t, c)[1] = c
                                     /\ Tail(FrontWith(t, c)) = Tail(tbuf[t].chunks)
<1>1. Header(t) => tbuf' = [tbuf EXCEPT ![t].chunks = FrontWith(t, Put(Front(t), HeaderOf(t)))]
  BY DEF Header, FrontWith, Front, HeaderOf
<1>2. Entry(t) => tbuf' = [tbuf EXCEPT ![t].chunks = FrontWith(t, Put(Front(t), EntryOf(t)))]
  BY DEF Entry, FrontWith, Front, EntryOf
<1>3. Count(t) => tbuf' = [tbuf EXCEPT ![t].chunks = FrontWith(t, Counted(Front(t)))]
  BY DEF Count, FrontWith, Front, Counted
<1>4. ASSUME Header(t) \/ Entry(t) \/ Count(t) \/ handle_overflow(t)
      PROVE  /\ tbuf[t].live /\ Front(t) \in Chunk /\ tbuf[t].chunks # <<>>
             /\ tbuf[t].chunks \in Seq(Chunk)
             /\ \A c \in Chunk : /\ FrontWith(t, c) \in Seq(Chunk) /\ FrontWith(t, c) # <<>>
                                 /\ FrontWith(t, c)[1] = c
                                 /\ Tail(FrontWith(t, c)) = Tail(tbuf[t].chunks)
  <2>1. pc[t] \in ChunkPc
    BY <1>4 DEF Header, Entry, Count, handle_overflow
  <2>2. tbuf[t].live
    BY <2>1 DEF OwnerInv, OwnerAt, Storing
  <2>3. tbuf[t].chunks \in Seq(Chunk) /\ tbuf[t].chunks # <<>>
    BY <2>2 DEF TraceType, Buffer, ListInv
  <2>4. Front(t) \in Chunk
    BY <2>3 DEF Front
  <2> DEFINE s == tbuf[t].chunks
  <2>5. ASSUME NEW c \in Chunk
        PROVE  /\ FrontWith(t, c) \in Seq(Chunk) /\ FrontWith(t, c) # <<>>
               /\ FrontWith(t, c)[1] = c
               /\ Tail(FrontWith(t, c)) = Tail(s)
    <3> HIDE DEF s
    <3>1. 1 \in 1 .. Len(s) /\ Len(s) \in Nat
      BY <2>3 DEF s
    <3>2. /\ [s EXCEPT ![1] = c] \in Seq(Chunk) /\ Len([s EXCEPT ![1] = c]) = Len(s)
          /\ \A j \in 1 .. Len(s) : [s EXCEPT ![1] = c][j] = IF j = 1 THEN c ELSE s[j]
      BY <2>3, <3>1, SeqExcept DEF s
    <3> DEFINE w == [s EXCEPT ![1] = c]
    <3>3. w = FrontWith(t, c)
      BY DEF FrontWith, s
    <3> HIDE DEF w
    <3>4. /\ w \in Seq(Chunk) /\ Len(w) = Len(s)
          /\ \A j \in 1 .. Len(s) : w[j] = IF j = 1 THEN c ELSE s[j]
      BY <3>2 DEF w
    <3>5. w # <<>> /\ s # <<>> /\ s \in Seq(Chunk) /\ w[1] = c
      BY <3>1, <3>4, <2>3 DEF s
    <3>6. Tail(w) = Tail(s)
      <4>1. /\ Tail(w) \in Seq(Chunk) /\ Tail(s) \in Seq(Chunk) /\ Len(Tail(w)) = Len(Tail(s))
            /\ Len(Tail(w)) = Len(s) - 1
            /\ \A i \in 1 .. Len(Tail(w)) : Tail(w)[i] = w[i + 1] /\ Tail(s)[i] = s[i + 1]
        BY <3>4, <3>5, HeadTail
      <4>2. \A i \in 1 .. Len(Tail(w)) : w[i + 1] = s[i + 1]
        BY <3>1, <3>4, <4>1
      <4> QED BY <4>1, <4>2
    <3> QED BY <3>3, <3>4, <3>5, <3>6
  <2> QED BY <2>2, <2>3, <2>4, <2>5, Zenon
<1> QED BY <1>1, <1>2, <1>3, <1>4, Zenon

(* A thread stores a record, or finds its buffer full.                      *)
LEMMA ListsStore ==
    ASSUME ListsInv, NEW t \in Threads, UNCHANGED policy,
           Header(t) \/ Entry(t) \/ Count(t) \/ handle_overflow(t)
    PROVE  ListsInv'
<1>1. /\ tbuf[t].live /\ Front(t) \in Chunk /\ tbuf[t].chunks \in Seq(Chunk)
      /\ \A c \in Chunk : FrontWith(t, c) \in Seq(Chunk) /\ FrontWith(t, c) # <<>>
  BY StoreIs DEF ListsInv
<1>2. tbuf_list' = tbuf_list /\ flush_lock' = flush_lock /\ todo' = todo
  BY DEF Header, Entry, Count, handle_overflow
<1>3. tbuf' \in [Threads -> Buffer] /\ SameLists
  <2>1. CASE Header(t)
    <3>1. Put(Front(t), HeaderOf(t)) \in Chunk
      BY <1>1, CellsTyped, PutIs DEF ListsInv
    <3>2. tbuf' = [tbuf EXCEPT ![t].chunks = FrontWith(t, Put(Front(t), HeaderOf(t)))]
      BY <2>1, StoreIs DEF ListsInv
    <3> QED BY <1>1, <1>2, <3>1, <3>2, KeepsLists, Zenon
  <2>2. CASE Entry(t)
    <3>1. Put(Front(t), EntryOf(t)) \in Chunk
      BY <1>1, CellsTyped, PutIs DEF ListsInv
    <3>2. tbuf' = [tbuf EXCEPT ![t].chunks = FrontWith(t, Put(Front(t), EntryOf(t)))]
      BY <2>2, StoreIs DEF ListsInv
    <3> QED BY <1>1, <1>2, <3>1, <3>2, KeepsLists, Zenon
  <2>3. CASE Count(t)
    BY <1>1, <1>2, <2>3, StoreIs, KeepsLists, CountedIs, Zenon DEF ListsInv
  <2>4. CASE handle_overflow(t)
    <3>1. CASE tbuf' = [tbuf EXCEPT ![t].stopped = TRUE]
      BY <3>1, <1>2, SetStopped, Zenon DEF ListsInv, TraceType, SameLists
    <3>2. CASE tbuf' = [tbuf EXCEPT ![t].chunks = Grow(@)]
      <4>1. Grow(tbuf[t].chunks) \in Seq(Chunk) /\ Grow(tbuf[t].chunks) # <<>>
        BY <1>1, BuffersTyped DEF Grow
      <4> QED BY <3>2, <4>1, <1>1, <1>2, KeepsLists, Zenon
    <3>3. CASE tbuf' = tbuf
      BY <3>3, <1>2 DEF ListsInv, TraceType, SameLists
    <3> QED BY <2>4, <3>1, <3>2, <3>3 DEF handle_overflow
  <2> QED BY <2>1, <2>2, <2>3, <2>4
<1>4. /\ pc \in [Threads -> {"idle", "gone"} \cup ChunkPc \cup FlushPc \cup ClearPc]
      /\ rec \in [Threads -> [id : Nat, n : Nat, k : Nat]]
      /\ back \in [Threads -> {"idle", "header"}] /\ saved \in [Threads -> SUBSET Nat]
  BY DEF ListsInv, TraceType
<1>5. /\ OnlyMoves(t) /\ pc[t] \in ChunkPc
      /\ pc'[t] \in {"idle", "header", "entry", "count", "flush"}
      /\ back' \in [Threads -> {"idle", "header"}]
      /\ pc' \in [Threads -> {"idle", "gone"} \cup ChunkPc \cup FlushPc \cup ClearPc]
  BY <1>2, <1>4, Zenon DEF Header, Entry, Count, handle_overflow, Goto, OnlyMoves
<1>6. /\ rec' \in [Threads -> [id : Nat, n : Nat, k : Nat]]
      /\ saved' \in [Threads -> SUBSET Nat] /\ taken' = taken
  <2>1. rec' = rec \/ rec' = [rec EXCEPT ![t].k = @ + 1]
    BY DEF Header, Entry, Count, handle_overflow
  <2>2. saved' = saved \/ saved' = [saved EXCEPT ![t] = @ \cup {rec[t].id}]
    BY DEF Header, Entry, Count, handle_overflow, hist
  <2>3. taken' = taken
    BY DEF Header, Entry, Count, handle_overflow
  <2>4. rec[t].id \in Nat
    BY <1>4
  <2>5. rec' \in [Threads -> [id : Nat, n : Nat, k : Nat]]
    BY <1>4, <2>1
  <2> QED BY <1>4, <2>2, <2>3, <2>4, <2>5
<1>7. TraceType'
  BY <1>2, <1>3, <1>5, <1>6, Zenon DEF ListsInv, TraceType
<1>8. ListInv'
  BY <1>3, SameListInv DEF ListsInv
<1>9. OwnerInv'
  <2>1. OwnerAt(t)'
    BY <1>1, <1>3, <1>5 DEF ListsInv, OwnerInv, OwnerAt, SameLists
  <2> QED BY <1>3, <1>5, <2>1, OwnerFrame DEF ListsInv, SameLists
<1>10. WalkInv'
  <2>1. WalkAt(t)'
    BY <1>5 DEF WalkAt
  <2> QED BY <1>2, <1>3, <1>5, <2>1, WalkFrame DEF ListsInv, SameLists
<1> QED BY <1>7, <1>8, <1>9, <1>10 DEF ListsInv

(* A new buffer goes to the head of the list.                               *)
LEMMA AcquireIs ==
    ASSUME TraceType, ListInv, NEW t \in Threads, NEW can_alloc \in BOOLEAN,
           acquire_tbuf(t, can_alloc)
    PROVE  /\ tbuf' \in [Threads -> Buffer] /\ tbuf_list' \in Seq(Threads) /\ ListInv'
           /\ \A u \in Threads \ {t} : tbuf'[u] = tbuf[u]
           /\ tbuf[t].live => tbuf'[t] = tbuf[t]
           /\ ~tbuf[t].live => tbuf'[t] = NewBuffer \/ tbuf'[t] = tbuf[t]
<1>1. tbuf \in [Threads -> Buffer] /\ tbuf_list \in Seq(Threads)
  BY DEF TraceType
<1>2. CASE ~tbuf[t].live /\ can_alloc
  <2>1. tbuf' = [tbuf EXCEPT ![t] = NewBuffer] /\ tbuf_list' = <<t>> \o tbuf_list
    BY <1>2 DEF acquire_tbuf
  <2>2. /\ tbuf_list' \in Seq(Threads) /\ Len(tbuf_list') = Len(tbuf_list) + 1
        /\ \A i \in 1 .. Len(tbuf_list) + 1 :
              tbuf_list'[i] = IF i = 1 THEN t ELSE tbuf_list[i - 1]
    BY <1>1, <2>1
  <2>3. Distinct(tbuf_list)' /\ \A u \in Threads : Has(tbuf_list, u)' <=> u = t \/ Has(tbuf_list, u)
    <3>1. ~Has(tbuf_list, t) /\ Distinct(tbuf_list)
      BY <1>2 DEF ListInv
    <3>2. Distinct(tbuf_list)'
      <4> SUFFICES ASSUME NEW i \in 1 .. Len(tbuf_list) + 1, NEW j \in 1 .. Len(tbuf_list) + 1, i < j
                   PROVE  tbuf_list'[i] # tbuf_list'[j]
        BY <2>2, <1>1 DEF Distinct
      <4>1. CASE i = 1
        <5>1. tbuf_list'[i] = t /\ tbuf_list'[j] = tbuf_list[j - 1] /\ j - 1 \in 1 .. Len(tbuf_list)
          BY <1>1, <2>2, <4>1
        <5> QED BY <3>1, <5>1 DEF Has
      <4>2. CASE i # 1
        <5>1. /\ tbuf_list'[i] = tbuf_list[i - 1] /\ tbuf_list'[j] = tbuf_list[j - 1]
              /\ i - 1 \in 1 .. Len(tbuf_list) /\ j - 1 \in 1 .. Len(tbuf_list) /\ i - 1 # j - 1
          BY <1>1, <2>2, <4>2
        <5> QED BY <3>1, <5>1 DEF Distinct
      <4> QED BY <4>1, <4>2
    <3>3. ASSUME NEW u \in Threads PROVE Has(tbuf_list, u)' <=> u = t \/ Has(tbuf_list, u)
      <4>1. ASSUME Has(tbuf_list, u)' PROVE u = t \/ Has(tbuf_list, u)
        BY <1>1, <2>2, <4>1 DEF Has
      <4>2. ASSUME Has(tbuf_list, u) PROVE Has(tbuf_list, u)'
        <5>1. PICK i \in 1 .. Len(tbuf_list) : tbuf_list[i] = u
          BY <4>2 DEF Has
        <5>2. i + 1 \in 1 .. Len(tbuf_list') /\ tbuf_list'[i + 1] = u
          BY <1>1, <2>2, <5>1
        <5> QED BY <5>2 DEF Has
      <4>3. Has(tbuf_list, t)'
        BY <1>1, <2>2 DEF Has
      <4> QED BY <4>1, <4>2, <4>3
    <3> QED BY <3>2, <3>3
  <2>4. /\ tbuf' \in [Threads -> Buffer] /\ tbuf'[t] = NewBuffer
        /\ \A u \in Threads \ {t} : tbuf'[u] = tbuf[u]
    BY <1>1, <2>1, BuffersTyped
  <2>5. tbuf'[t].live /\ tbuf'[t].chunks # <<>>
    BY <2>4, BuffersTyped DEF NewBuffer
  <2>6. ListInv'
    BY <2>3, <2>4, <2>5 DEF ListInv
  <2> QED BY <1>2, <2>2, <2>4, <2>6
<1>3. CASE ~(~tbuf[t].live /\ can_alloc)
  BY <1>1, <1>3 DEF acquire_tbuf, ListInv
<1> QED BY <1>2, <1>3

(* A buffer is created and linked at the head of the list.                  *)
LEMMA ListsAcquire ==
    ASSUME ListsInv, NEW t \in Threads, UNCHANGED policy,
           \/ \E n \in Sizes, is_signal \in BOOLEAN : process_snapshot_cb(t, n, is_signal)
           \/ create_thread_cb(t)
    PROVE  ListsInv'
<1>1. \E can_alloc \in BOOLEAN : acquire_tbuf(t, can_alloc)
  BY Zenon DEF process_snapshot_cb, create_thread_cb
<1>2. /\ tbuf' \in [Threads -> Buffer] /\ tbuf_list' \in Seq(Threads) /\ ListInv'
      /\ \A u \in Threads \ {t} : tbuf'[u] = tbuf[u]
      /\ tbuf[t].live => tbuf'[t] = tbuf[t]
      /\ ~tbuf[t].live => tbuf'[t] = NewBuffer \/ tbuf'[t] = tbuf[t]
  BY <1>1, AcquireIs DEF ListsInv
<1>3. UNCHANGED <<flush_lock, todo, back, saved>>
  BY Zenon DEF process_snapshot_cb, create_thread_cb, hist
<1>4. /\ pc \in [Threads -> {"idle", "gone"} \cup ChunkPc \cup FlushPc \cup ClearPc]
      /\ rec \in [Threads -> [id : Nat, n : Nat, k : Nat]] /\ taken \in Nat
  BY DEF ListsInv, TraceType
<1>5. /\ pc' \in [Threads -> {"idle", "gone"} \cup ChunkPc \cup FlushPc \cup ClearPc]
      /\ pc[t] = "idle" /\ OnlyMoves(t)
      /\ pc'[t] = "idle" \/ (pc'[t] = "stopped?" /\ tbuf'[t].live)
  BY <1>3, <1>4, Zenon DEF process_snapshot_cb, create_thread_cb, Goto, OnlyMoves
<1>6. taken' \in Nat /\ rec' \in [Threads -> [id : Nat, n : Nat, k : Nat]]
  <2>1. CASE create_thread_cb(t)
    BY <1>4, <2>1 DEF create_thread_cb
  <2>2. ASSUME NEW n \in Sizes, NEW is_signal \in BOOLEAN, process_snapshot_cb(t, n, is_signal)
        PROVE  taken' \in Nat /\ rec' \in [Threads -> [id : Nat, n : Nat, k : Nat]]
    <3>1. n \in Nat
      BY TraceAssumption
    <3>2. /\ taken' = taken + 1
          /\ rec' = [rec EXCEPT ![t] = [id |-> taken', n |-> n, k |-> 0]]
      BY <2>2 DEF process_snapshot_cb
    <3> QED BY <1>4, <3>1, <3>2
  <2> QED BY <2>1, <2>2
<1>7. TraceType'
  BY <1>2, <1>3, <1>5, <1>6, Zenon DEF ListsInv, TraceType
<1>8. OwnerInv'
  <2>1. ~tbuf[t].retired
    BY <1>5 DEF ListsInv, OwnerInv, OwnerAt
  <2>2. ~tbuf'[t].retired
    BY <1>2, <2>1 DEF NewBuffer
  <2>3. OwnerAt(t)'
    BY <1>5, <2>2 DEF OwnerAt, Storing
  <2> QED BY <1>2, <1>5, <2>3, OwnerFrame DEF ListsInv
<1>9. WalkInv'
  <2>1. WalkAt(t)'
    BY <1>5 DEF WalkAt
  <2>2. \A u \in Threads : tbuf[u].live => tbuf'[u].live
    BY <1>2
  <2> QED BY <1>3, <1>5, <2>1, <2>2, WalkFrame DEF ListsInv
<1> QED BY <1>2, <1>7, <1>8, <1>9 DEF ListsInv

(* A thread ends: its buffer is retired, not unlinked.                      *)
LEMMA ListsRelease ==
    ASSUME ListsInv, NEW t \in Threads, UNCHANGED policy, release_thread_cb(t)
    PROVE  ListsInv'
<1>1. /\ tbuf \in [Threads -> Buffer]
      /\ pc \in [Threads -> {"idle", "gone"} \cup ChunkPc \cup FlushPc \cup ClearPc]
  BY DEF ListsInv, TraceType
<1>2. /\ tbuf' = [tbuf EXCEPT ![t].retired = tbuf[t].live] /\ pc[t] = "idle"
      /\ pc' = [pc EXCEPT ![t] = "gone"]
      /\ UNCHANGED <<tbuf_list, flush_lock, rec, todo, back, taken, saved>>
  BY DEF release_thread_cb, Goto, hist
<1>3. /\ tbuf' \in [Threads -> Buffer]
      /\ \A u \in Threads : /\ tbuf'[u].live <=> tbuf[u].live
                            /\ tbuf'[u].chunks = tbuf[u].chunks
      /\ \A u \in Threads \ {t} : tbuf'[u].retired <=> tbuf[u].retired
  BY <1>1, <1>2, Zenon DEF Buffer
<1>4. /\ pc' \in [Threads -> {"idle", "gone"} \cup ChunkPc \cup FlushPc \cup ClearPc]
      /\ OnlyMoves(t) /\ pc'[t] = "gone"
  BY <1>1, <1>2 DEF OnlyMoves
<1>5. TraceType'
  BY <1>2, <1>3, <1>4 DEF ListsInv, TraceType
<1>6. ListInv'
  BY <1>2, <1>3 DEF ListsInv, ListInv
<1>7. OwnerAt(t)' /\ WalkAt(t)'
  BY <1>4 DEF OwnerAt, WalkAt, Storing
<1>8. OwnerInv'
  BY <1>3, <1>4, <1>7, OwnerFrame DEF ListsInv
<1>9. WalkInv'
  BY <1>2, <1>3, <1>4, <1>7, WalkFrame DEF ListsInv
<1> QED BY <1>5, <1>6, <1>8, <1>9 DEF ListsInv

(* A clear empties the buffer it visits.                                    *)
LEMMA ListsReset ==
    ASSUME ListsInv, NEW t \in Threads, UNCHANGED policy, ClearReset(t)
    PROVE  ListsInv'
<1> DEFINE b == Head(todo[t])
<1>1. /\ pc[t] = "reset" /\ pc' = [pc EXCEPT ![t] = "cleared"]
      /\ tbuf' = [tbuf EXCEPT ![b].chunks = <<EmptyChunk>>]
      /\ saved' = [saved EXCEPT ![b] = {}]
      /\ UNCHANGED <<tbuf_list, flush_lock, rec, todo, back, taken>>
  BY DEF ClearReset, Goto, reset
<1>2. b \in Threads /\ tbuf[b].live
  BY <1>1, Visited DEF ListsInv
<1>3. tbuf' \in [Threads -> Buffer] /\ SameLists
  <2> HIDE DEF b
  <2> QED BY <1>1, <1>2, KeepsLists, BuffersTyped, Zenon
<1>4. /\ pc' \in [Threads -> {"idle", "gone"} \cup ChunkPc \cup FlushPc \cup ClearPc]
      /\ OnlyMoves(t) /\ pc'[t] = "cleared" /\ saved' \in [Threads -> SUBSET Nat]
  BY <1>1, Zenon DEF OnlyMoves, ListsInv, TraceType
<1>5. TraceType'
  BY <1>1, <1>3, <1>4, Zenon DEF ListsInv, TraceType
<1>6. ListInv'
  BY <1>3, SameListInv DEF ListsInv
<1>7. OwnerInv'
  <2>1. OwnerAt(t)'
    BY <1>1, <1>3, <1>4 DEF ListsInv, OwnerInv, OwnerAt, Storing, SameLists
  <2> QED BY <1>3, <1>4, <2>1, OwnerFrame DEF ListsInv, SameLists
<1>8. WalkInv'
  <2>1. /\ todo[t] \in Seq(Threads) /\ todo[t] # <<>> /\ flush_lock = t /\ Distinct(todo[t])
        /\ \A i \in 1 .. Len(todo[t]) : tbuf[todo[t][i]].live
    BY <1>1 DEF ListsInv, WalkInv, WalkAt, TraceType
  <2>2. \A i \in 1 .. Len(todo[t]) : todo[t][i] \in Threads
    BY <2>1
  <2>3. WalkAt(t)'
    BY <1>1, <1>3, <2>1, <2>2 DEF WalkAt, SameLists
  <2> QED BY <1>1, <1>3, <1>4, <2>3, WalkFrame DEF ListsInv, SameLists
<1> QED BY <1>5, <1>6, <1>7, <1>8 DEF ListsInv

(* The list without one of its elements.                                    *)
LEMMA WithoutIs ==
    ASSUME NEW s \in Seq(Threads), Distinct(s), NEW b \in Threads, Has(s, b)
    PROVE  /\ Without(s, b) \in Seq(Threads) /\ Distinct(Without(s, b))
           /\ \A u \in Threads : Has(Without(s, b), u) <=> u # b /\ Has(s, u)
<1> DEFINE p == CHOOSE i \in 1 .. Len(s) : s[i] = b
           w == SubSeq(s, 1, p - 1) \o SubSeq(s, p + 1, Len(s))
<1>1. p \in 1 .. Len(s) /\ s[p] = b
  BY DEF Has
<1>2. Without(s, b) = w
  BY DEF Without
<1> HIDE DEF p
<1>3. /\ w \in Seq(Threads) /\ Len(w) = Len(s) - 1 /\ Len(s) \in Nat
      /\ \A i \in 1 .. Len(s) - 1 : w[i] = IF i < p THEN s[i] ELSE s[i + 1]
  <2> DEFINE x == SubSeq(s, 1, p - 1)
             y == SubSeq(s, p + 1, Len(s))
  <2>1. /\ x \in Seq(Threads) /\ Len(x) = p - 1
        /\ \A i \in 1 .. p - 1 : x[i] = s[i]
    BY <1>1, SeqPart
  <2>2. /\ y \in Seq(Threads) /\ Len(y) = Len(s) - p
        /\ \A i \in 1 .. Len(s) - p : y[i] = s[p + i]
    BY <1>1, SeqPart
  <2>3. w = x \o y
    OBVIOUS
  <2> HIDE DEF x, y, w
  <2>4. /\ w \in Seq(Threads) /\ Len(w) = Len(s) - 1 /\ Len(s) \in Nat
        /\ \A i \in 1 .. Len(s) - 1 : w[i] = IF i <= Len(x) THEN x[i] ELSE y[i - Len(x)]
    <3>1. Len(s) \in Nat /\ Len(x) + Len(y) = Len(s) - 1
      BY <1>1, <2>1, <2>2
    <3>2. /\ w \in Seq(Threads) /\ Len(w) = Len(x) + Len(y)
          /\ \A i \in 1 .. Len(x) + Len(y) : w[i] = IF i <= Len(x) THEN x[i] ELSE y[i - Len(x)]
      BY <2>1, <2>2, <2>3, SeqConcat
    <3> QED BY <3>1, <3>2
  <2>5. ASSUME NEW i \in 1 .. Len(s) - 1 PROVE w[i] = IF i < p THEN s[i] ELSE s[i + 1]
    <3>1. CASE i < p
      BY <1>1, <2>1, <2>4, <3>1
    <3>2. CASE ~(i < p)
      <4>1. /\ i - (p - 1) \in 1 .. Len(s) - p /\ p + (i - (p - 1)) = i + 1 /\ ~(i <= p - 1)
        BY <1>1, <2>4, <3>2
      <4> QED BY <2>1, <2>2, <2>4, <3>2, <4>1, Zenon
    <3> QED BY <3>1, <3>2
  <2> QED BY <2>4, <2>5
<1> HIDE DEF w
<1>4. Distinct(w)
  <2> SUFFICES ASSUME NEW i \in 1 .. Len(s) - 1, NEW j \in 1 .. Len(s) - 1, i < j
               PROVE  w[i] # w[j]
    BY <1>3 DEF Distinct
  <2> DEFINE x == IF i < p THEN i ELSE i + 1
             y == IF j < p THEN j ELSE j + 1
  <2>1. x \in 1 .. Len(s) /\ y \in 1 .. Len(s) /\ x # y /\ w[i] = s[x] /\ w[j] = s[y]
    BY <1>1, <1>3
  <2> HIDE DEF x, y
  <2> QED BY <2>1 DEF Distinct
<1>5. ASSUME NEW u \in Threads, Has(w, u) PROVE u # b /\ Has(s, u)
  <2>1. PICK i \in 1 .. Len(s) - 1 : w[i] = u
    BY <1>3, <1>5 DEF Has
  <2> DEFINE x == IF i < p THEN i ELSE i + 1
  <2>2. x \in 1 .. Len(s) /\ s[x] = u /\ x # p
    BY <1>1, <1>3, <2>1
  <2> HIDE DEF x
  <2> QED BY <1>1, <2>2 DEF Has, Distinct
<1>6. ASSUME NEW u \in Threads, u # b, Has(s, u) PROVE Has(w, u)
  <2>1. PICK x \in 1 .. Len(s) : s[x] = u
    BY <1>6 DEF Has
  <2> DEFINE i == IF x < p THEN x ELSE x - 1
  <2>2. i \in 1 .. Len(s) - 1 /\ w[i] = u
    BY <1>1, <1>3, <1>6, <2>1
  <2> HIDE DEF i
  <2> QED BY <1>3, <2>2 DEF Has
<1> QED BY <1>2, <1>3, <1>4, <1>5, <1>6

(* A clear deletes the buffer of a thread that ended.                       *)
LEMMA ListsDelete ==
    ASSUME ListsInv, NEW t \in Threads, UNCHANGED policy,
           ClearResume(t), tbuf[Head(todo[t])].retired
    PROVE  ListsInv'
<1> DEFINE b == Head(todo[t])
<1>1. /\ pc[t] = "cleared" /\ pc' = [pc EXCEPT ![t] = "clearnext"]
      /\ tbuf' = [tbuf EXCEPT ![b] = NoBuffer] /\ tbuf_list' = Without(tbuf_list, b)
      /\ todo' = [todo EXCEPT ![t] = Tail(@)]
      /\ UNCHANGED <<flush_lock, rec, back, taken, saved>>
  BY DEF ClearResume, Goto, hist
<1>2. /\ b \in Threads /\ tbuf[b].live
      /\ Tail(todo[t]) \in Seq(Threads) /\ Distinct(Tail(todo[t]))
      /\ \A i \in 1 .. Len(Tail(todo[t])) :
            /\ Tail(todo[t])[i] \in Threads /\ tbuf[Tail(todo[t])[i]].live
            /\ Tail(todo[t])[i] # b
  BY <1>1, Visited DEF ListsInv
<1> HIDE DEF b
<1>3. /\ tbuf' \in [Threads -> Buffer] /\ tbuf'[b] = NoBuffer
      /\ \A u \in Threads \ {b} : tbuf'[u] = tbuf[u]
  BY <1>1, <1>2, BuffersTyped DEF ListsInv, TraceType
<1>4. /\ tbuf_list' \in Seq(Threads) /\ Distinct(tbuf_list')
      /\ \A u \in Threads : Has(tbuf_list', u) <=> u # b /\ Has(tbuf_list, u)
  BY <1>1, <1>2, WithoutIs, Zenon DEF ListsInv, ListInv, TraceType
<1>5. /\ pc' \in [Threads -> {"idle", "gone"} \cup ChunkPc \cup FlushPc \cup ClearPc]
      /\ todo' \in [Threads -> Seq(Threads)] /\ todo'[t] = Tail(todo[t])
      /\ pc'[t] = "clearnext" /\ OnlyMoves(t)
  BY <1>1, <1>2, Zenon DEF OnlyMoves, ListsInv, TraceType
<1>6. TraceType'
  BY <1>1, <1>3, <1>4, <1>5, Zenon DEF ListsInv, TraceType
<1>7. ListInv'
  <2>1. ~tbuf'[b].live /\ tbuf'[b].chunks = <<>>
    BY <1>3 DEF NoBuffer
  <2> QED BY <1>3, <1>4, <2>1, Zenon DEF ListsInv, ListInv
<1>8. OwnerInv'
  <2>1. pc[b] = "gone" /\ b # t
    BY <1>1, <1>2 DEF ListsInv, OwnerInv, OwnerAt, b
  <2>2. ~Storing(b) /\ ~tbuf'[b].retired
    BY <1>3, <2>1 DEF Storing, NoBuffer
  <2>3. OwnerAt(t)'
    BY <1>1, <1>3, <1>5, <2>1 DEF ListsInv, OwnerInv, OwnerAt, Storing
  <2> QED BY <1>3, <1>5, <2>2, <2>3, OwnerFrame, Zenon DEF ListsInv
<1>9. WalkInv'
  <2>1. flush_lock = t
    BY <1>1 DEF ListsInv, WalkInv, WalkAt
  <2>2. WalkAt(t)'
    BY <1>1, <1>2, <1>3, <1>5, <2>1 DEF WalkAt
  <2> QED BY <1>5, <2>1, <2>2, WalkFrame DEF ListsInv
<1> QED BY <1>6, <1>7, <1>8, <1>9 DEF ListsInv

(* Every step keeps the lists.                                              *)
LEMMA ListsStep == ASSUME ListsInv, [Next]_vars PROVE ListsInv'
<1>1. CASE UNCHANGED vars
  BY <1>1 DEF vars, ListsInv, TraceType, ListInv, OwnerInv, OwnerAt, WalkInv, WalkAt, Storing
<1>2. ASSUME NEW t \in Threads, Request(t) \/ Work(t) PROVE ListsInv'
  <2>1. UNCHANGED policy
    BY <1>2 DEF Request, Work
  <2>2. CASE \/ \E n \in Sizes, is_signal \in BOOLEAN : process_snapshot_cb(t, n, is_signal)
             \/ create_thread_cb(t)
    BY <2>1, <2>2, ListsAcquire
  <2>3. CASE release_thread_cb(t)
    BY <2>1, <2>3, ListsRelease
  <2>4. CASE UserFlush(t) \/ Clear(t) \/ CheckStopped(t) \/ Fits(t) \/ FlushRead(t)
             \/ FlushDone(t) \/ ClearDone(t)
    <3>1. UNCHANGED <<tbuf, tbuf_list>>
      BY <2>4 DEF UserFlush, Clear, CheckStopped, Fits, FlushRead, FlushDone, ClearDone
    <3> QED BY <2>1, <2>4, <3>1, ListsMove
  <2>5. CASE Header(t) \/ Entry(t) \/ Count(t) \/ handle_overflow(t)
    BY <2>1, <2>5, ListsStore
  <2>6. CASE FlushLock(t) \/ ClearLock(t)
    BY <2>1, <2>6, ListsLock
  <2>7. CASE FlushStop(t) \/ ClearStop(t) \/ FlushResume(t)
    BY <2>1, <2>7, ListsStop
  <2>8. CASE ClearReset(t)
    BY <2>1, <2>8, ListsReset
  <2>9. CASE ClearResume(t)
    BY <2>1, <2>9, ListsStop, ListsDelete
  <2> QED BY <1>2, <2>2, <2>3, <2>4, <2>5, <2>6, <2>7, <2>8, <2>9
          DEF Request, Work, Store, Flush, ClearStep
<1> QED BY <1>1, <1>2 DEF Next

=============================================================================
