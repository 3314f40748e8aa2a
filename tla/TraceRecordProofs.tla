------------------------- MODULE TraceRecordProofs -------------------------
(***************************************************************************)
(* The records in the trace buffers: the invariant of the cells of their    *)
(* chunks, and why every step keeps it.  What Decode and DecodeAll find in  *)
(* the chunks (DecodeFacts) is shown in TraceTheorems, with the theorems.   *)
(***************************************************************************)
EXTENDS TraceProofs

USE DEF ChunkPc, FlushPc, ClearPc, Visiting, Locking

(* A chunk holds the records ids: record r starts at cell st[r - 1] and has *)
(* sz[r] entries.                                                           *)
Laid(c, ids, st, sz) ==
    /\ ids \in Seq(Nat) /\ Len(ids) = c.m_nrec
    /\ st \in [0 .. c.m_nrec -> Nat] /\ st[0] = 0
    /\ sz \in [1 .. c.m_nrec -> Nat]
    /\ \A r \in 1 .. c.m_nrec :
          /\ st[r] = st[r - 1] + 1 + sz[r] /\ st[r] <= c.m_pos
          /\ c.m_data[st[r - 1]] = <<"header", ids[r], sz[r]>>
          /\ \A k \in 1 .. sz[r] : c.m_data[st[r - 1] + k] = <<"entry", ids[r], k>>

(* What a flush reads: the records of a chunk one after the other, and the  *)
(* first chunk before the others.                                           *)
DecodeFacts ==
    /\ \A c \in Chunk : \A ids, st, sz :
          Laid(c, ids, st, sz) /\ c.m_pos <= 2 * buffersize => Decode(c) = ids
    /\ DecodeAll(<<>>) = <<>>
    /\ \A cs \in Seq(Chunk) :
          cs # <<>> => DecodeAll(cs) = Decode(cs[1]) \o DecodeAll(Tail(cs))

-----------------------------------------------------------------------------
(* The records in the buffers                                               *)

(* The first k of the n entries of record id are written behind cell e.     *)
Written(c, e, id, n, k) ==
    /\ c.m_data[e] = <<"header", id, n>>
    /\ \A j \in 1 .. k : c.m_data[e + j] = <<"entry", id, j>>

(* A record that is being stored starts at cell e, where the records that   *)
(* are counted end.                                                         *)
AtEnd(t, c, e) ==
    IF pc[t] \in {"entry", "count"}
    THEN /\ c.m_pos = e + 1 + rec[t].k
         /\ e + 1 + rec[t].n < buffersize
         /\ pc[t] = "entry" => rec[t].k < rec[t].n
         /\ pc[t] = "count" => rec[t].k = rec[t].n
         /\ Written(c, e, rec[t].id, rec[t].n, rec[t].k)
    ELSE /\ c.m_pos = e
         /\ pc[t] = "header" => fits(c, rec[t].n)

FrontAt(t) ==
    tbuf[t].live =>
        \E st, sz : /\ Laid(Front(t), Decode(Front(t)), st, sz)
                    /\ AtEnd(t, Front(t), st[Front(t).m_nrec])

RoomAt(t) == \A i \in 1 .. Len(tbuf[t].chunks) : tbuf[t].chunks[i].m_pos <= buffersize

(* The records have different numbers.                                      *)
RecAt(t) ==
    /\ saved[t] \subseteq 1 .. taken
    /\ pc[t] \in ChunkPc => rec[t].id \in (1 .. taken) \ saved[t] /\ rec[t].n \in Sizes
    /\ pc[t] \in {"stopped?", "fits?", "header"} => rec[t].k = 0

(* A sequence lists a set, each element once.                               *)
Lists(got, want) == Distinct(got) /\ {got[i] : i \in 1 .. Len(got)} = want

(* What is in a buffer is what was accepted.                                *)
Rest(t) == DecodeAll(Tail(tbuf[t].chunks))
BufferAt(t) ==
    IF tbuf[t].live
    THEN Rest(t) \in Seq(Nat) /\ Lists(Decode(Front(t)) \o Rest(t), saved[t])
    ELSE saved[t] = {}

RecordsAt(t) == FrontAt(t) /\ RoomAt(t) /\ RecAt(t) /\ BufferAt(t)

(* Nothing is stored while a clear is under way.                            *)
QuietInv ==
    /\ \A t \in Threads : back[t] = "idle"
    /\ Clearing => MayClear = "quiet" /\ \A t \in Threads : pc[t] \notin ChunkPc
    /\ \A t \in Threads : pc[t] = "cleared" => saved[Head(todo[t])] = {}

ReadInv == read.got \in Seq(Nat) /\ Lists(read.got, read.want)

RecordsInv == QuietInv /\ ReadInv /\ \A t \in Threads : RecordsAt(t)

-----------------------------------------------------------------------------
(* The records of a chunk that is laid out are found.                       *)
LEMMA DecodeLaid ==
    ASSUME DecodeFacts, NEW c \in Chunk, NEW ids, NEW st, NEW sz,
           Laid(c, ids, st, sz), c.m_pos <= 2 * buffersize
    PROVE  Decode(c) = ids
BY DEF DecodeFacts

(* Writing a cell behind the records leaves them alone.                     *)
LEMMA LaidPut ==
    ASSUME NEW c \in Chunk, NEW ids, NEW st, NEW sz, Laid(c, ids, st, sz),
           NEW cell \in Cell, c.m_pos <= buffersize
    PROVE  Laid(Put(c, cell), ids, st, sz)
<1> DEFINE d == Put(c, cell)
           n == c.m_nrec
<1>1. /\ d \in Chunk /\ d.m_pos = c.m_pos + 1 /\ d.m_nrec = n
      /\ \A i \in Cells : d.m_data[i] = IF i = c.m_pos THEN cell ELSE c.m_data[i]
  BY PutIs
<1>2. n \in Nat /\ c.m_pos \in Nat /\ buffersize \in Nat
  BY TraceAssumption DEF Chunk
<1>3. /\ ids \in Seq(Nat) /\ Len(ids) = n
      /\ st \in [0 .. n -> Nat] /\ st[0] = 0 /\ sz \in [1 .. n -> Nat]
  BY Zenon DEF Laid
<1> HIDE DEF d
<1>4. ASSUME NEW r \in 1 .. n
      PROVE  /\ st[r] = st[r - 1] + 1 + sz[r] /\ st[r] <= d.m_pos
             /\ d.m_data[st[r - 1]] = <<"header", ids[r], sz[r]>>
             /\ \A k \in 1 .. sz[r] : d.m_data[st[r - 1] + k] = <<"entry", ids[r], k>>
  <2>1. /\ st[r] = st[r - 1] + 1 + sz[r] /\ st[r] <= c.m_pos
        /\ c.m_data[st[r - 1]] = <<"header", ids[r], sz[r]>>
        /\ \A k \in 1 .. sz[r] : c.m_data[st[r - 1] + k] = <<"entry", ids[r], k>>
    BY Zenon DEF Laid
  <2>2. r - 1 \in 0 .. n /\ r \in 0 .. n
    BY <1>2
  <2>3. st[r - 1] \in Nat /\ sz[r] \in Nat /\ st[r] \in Nat
    BY <1>3, <2>2, Zenon
  <2>4. /\ st[r] <= d.m_pos
        /\ st[r - 1] \in Cells /\ st[r - 1] # c.m_pos
        /\ \A k \in 1 .. sz[r] : st[r - 1] + k \in Cells /\ st[r - 1] + k # c.m_pos
    <3>1. st[r] = st[r - 1] + 1 + sz[r] /\ st[r] <= c.m_pos
      BY <2>1, Zenon
    <3> QED BY <1>1, <1>2, <2>3, <3>1 DEF Cells
  <2>5. d.m_data[st[r - 1]] = c.m_data[st[r - 1]]
    BY <1>1, <2>4
  <2>6. \A k \in 1 .. sz[r] : d.m_data[st[r - 1] + k] = c.m_data[st[r - 1] + k]
    BY <1>1, <2>4
  <2> QED BY <2>1, <2>4, <2>5, <2>6, Zenon
<1> QED BY <1>1, <1>3, <1>4, Zenon DEF Laid, d

(* The starts and the sizes of n records extended by those of one more.     *)
Extended(n, st, sz, p, k) ==
    \E st2 \in [0 .. n + 1 -> Nat], sz2 \in [1 .. n + 1 -> Nat] :
        /\ st2[0] = st[0] /\ st2[n] = st[n] /\ st2[n + 1] = p /\ sz2[n + 1] = k
        /\ \A r \in 1 .. n : st2[r] = st[r] /\ st2[r - 1] = st[r - 1] /\ sz2[r] = sz[r]

(* They can always be extended.                                             *)
LEMMA OneMore ==
    ASSUME NEW n \in Nat, NEW st \in [0 .. n -> Nat], NEW sz \in [1 .. n -> Nat],
           NEW p \in Nat, NEW k \in Nat
    PROVE  Extended(n, st, sz, p, k)
<1> DEFINE st2 == [r \in 0 .. n + 1 |-> IF r <= n THEN st[r] ELSE p]
           sz2 == [r \in 1 .. n + 1 |-> IF r <= n THEN sz[r] ELSE k]
<1>1. st2 \in [0 .. n + 1 -> Nat] /\ sz2 \in [1 .. n + 1 -> Nat]
  OBVIOUS
<1>2. st2[0] = st[0] /\ st2[n] = st[n] /\ st2[n + 1] = p /\ sz2[n + 1] = k
  OBVIOUS
<1>3. ASSUME NEW r \in 1 .. n PROVE st2[r] = st[r] /\ st2[r - 1] = st[r - 1] /\ sz2[r] = sz[r]
  OBVIOUS
<1> HIDE DEF st2, sz2
<1> QED BY <1>1, <1>2, <1>3, Zenon DEF Extended

(* Counting a record that is complete.                                      *)
LEMMA LaidCount ==
    ASSUME NEW c \in Chunk, NEW ids, NEW st, NEW sz, Laid(c, ids, st, sz),
           NEW id \in Nat, NEW k \in Nat, NEW e, e = st[c.m_nrec],
           c.m_pos = e + 1 + k, Written(c, e, id, k, k)
    PROVE  \E st2, sz2 : /\ Laid(Counted(c), Append(ids, id), st2, sz2)
                         /\ st2[Counted(c).m_nrec] = c.m_pos
<1> DEFINE d == Counted(c)
           n == c.m_nrec
           ids2 == Append(ids, id)
<1>1. d.m_pos = c.m_pos /\ d.m_nrec = n + 1 /\ d.m_data = c.m_data
  BY CountedIs
<1>2. n \in Nat /\ c.m_pos \in Nat
  BY DEF Chunk
<1>3. /\ ids \in Seq(Nat) /\ Len(ids) = n
      /\ st \in [0 .. n -> Nat] /\ st[0] = 0 /\ sz \in [1 .. n -> Nat]
  BY Zenon DEF Laid
<1>4. /\ ids2 \in Seq(Nat) /\ Len(ids2) = n + 1 /\ ids2[n + 1] = id
      /\ \A r \in 1 .. n : ids2[r] = ids[r]
  BY <1>2, <1>3
<1>5. PICK st2 \in [0 .. n + 1 -> Nat], sz2 \in [1 .. n + 1 -> Nat] :
         /\ st2[0] = st[0] /\ st2[n] = st[n] /\ st2[n + 1] = c.m_pos /\ sz2[n + 1] = k
         /\ \A r \in 1 .. n : st2[r] = st[r] /\ st2[r - 1] = st[r - 1] /\ sz2[r] = sz[r]
  <2>1. Extended(n, st, sz, c.m_pos, k)
    BY <1>2, <1>3, OneMore, Zenon
  <2> QED BY <2>1, Zenon DEF Extended
<1> HIDE DEF d, ids2
<1>6. ASSUME NEW r \in 1 .. n + 1
      PROVE  /\ st2[r] = st2[r - 1] + 1 + sz2[r] /\ st2[r] <= d.m_pos
             /\ d.m_data[st2[r - 1]] = <<"header", ids2[r], sz2[r]>>
             /\ \A j \in 1 .. sz2[r] : d.m_data[st2[r - 1] + j] = <<"entry", ids2[r], j>>
  <2>1. CASE r \in 1 .. n
    <3>1. /\ st[r] = st[r - 1] + 1 + sz[r] /\ st[r] <= c.m_pos
          /\ c.m_data[st[r - 1]] = <<"header", ids[r], sz[r]>>
          /\ \A j \in 1 .. sz[r] : c.m_data[st[r - 1] + j] = <<"entry", ids[r], j>>
      BY <2>1, Zenon DEF Laid
    <3>2. /\ st2[r] = st[r] /\ st2[r - 1] = st[r - 1] /\ sz2[r] = sz[r] /\ ids2[r] = ids[r]
      BY <1>4, <1>5, <2>1
    <3> QED BY <1>1, <3>1, <3>2, Zenon
  <2>2. CASE r = n + 1
    <3>1. r - 1 = n /\ st2[r] <= d.m_pos
      BY <1>1, <1>2, <1>5, <2>2
    <3>2. st2[r - 1] = e /\ sz2[r] = k /\ st2[r] = c.m_pos /\ ids2[r] = id /\ d.m_data = c.m_data
      BY <1>1, <1>4, <1>5, <2>2, <3>1, Zenon
    <3> QED BY <3>1, <3>2, Zenon DEF Written
  <2>3. r \in 1 .. n \/ r = n + 1
    BY <1>2
  <2> QED BY <2>1, <2>2, <2>3, Zenon
<1>7. Laid(d, ids2, st2, sz2)
  BY <1>1, <1>3, <1>4, <1>5, <1>6, Zenon DEF Laid
<1>8. st2[d.m_nrec] = c.m_pos
  BY <1>1, <1>5, Zenon
<1> QED BY <1>7, <1>8, Zenon DEF d, ids2

(* A chunk without records.                                                 *)
LEMMA EmptyLaid ==
    ASSUME DecodeFacts
    PROVE  /\ Decode(EmptyChunk) = <<>>
           /\ \E st, sz : Laid(EmptyChunk, <<>>, st, sz) /\ st[EmptyChunk.m_nrec] = 0
           /\ EmptyChunk.m_pos = 0 /\ EmptyChunk.m_nrec = 0
<1> DEFINE st == [r \in 0 .. 0 |-> 0]
           sz == [r \in 1 .. 0 |-> 0]
<1>1. EmptyChunk.m_pos = 0 /\ EmptyChunk.m_nrec = 0 /\ EmptyChunk \in Chunk
  BY BuffersTyped DEF EmptyChunk
<1>2. /\ <<>> \in Seq(Nat) /\ Len(<<>>) = 0 /\ st \in [0 .. 0 -> Nat] /\ st[0] = 0
      /\ sz \in [1 .. 0 -> Nat] /\ 1 .. 0 = {}
  OBVIOUS
<1> HIDE DEF st, sz
<1>3. Laid(EmptyChunk, <<>>, st, sz)
  BY <1>1, <1>2, Zenon DEF Laid
<1>4. buffersize \in Nat /\ EmptyChunk.m_pos <= 2 * buffersize
  BY <1>1, TraceAssumption
<1>5. Decode(EmptyChunk) = <<>>
  BY <1>1, <1>3, <1>4, DecodeLaid
<1> QED BY <1>1, <1>2, <1>3, <1>5, Zenon

(* A new record in the first chunk: it comes before those of the others.    *)
LEMMA ListsAdd ==
    ASSUME NEW ids \in Seq(Nat), NEW rest \in Seq(Nat), NEW want, NEW id \in Nat,
           Lists(ids \o rest, want), id \notin want
    PROVE  Lists(Append(ids, id) \o rest, want \cup {id})
<1> DEFINE m == Len(ids)
           a == ids \o rest
           b == Append(ids, id) \o rest
           q(i) == IF i <= m THEN i ELSE i - 1
<1>1. m \in Nat /\ Len(rest) \in Nat /\ Len(a) = m + Len(rest) /\ Len(b) = m + Len(rest) + 1
  OBVIOUS
<1>2. b[m + 1] = id
  OBVIOUS
<1>3. \A i \in 1 .. Len(b) : i # m + 1 => q(i) \in 1 .. Len(a) /\ b[i] = a[q(i)]
  <2> DEFINE x == Append(ids, id)
  <2>1. /\ x \in Seq(Nat) /\ Len(x) = m + 1 /\ \A i \in 1 .. m : x[i] = ids[i]
    OBVIOUS
  <2>2. \A i \in 1 .. Len(a) : a[i] = IF i <= m THEN ids[i] ELSE rest[i - m]
    OBVIOUS
  <2>3. b = x \o rest
    OBVIOUS
  <2> HIDE DEF x
  <2>4. \A i \in 1 .. Len(b) : b[i] = IF i <= m + 1 THEN x[i] ELSE rest[i - (m + 1)]
    BY <2>1, <2>3
  <2> HIDE DEF a, b, m
  <2> SUFFICES ASSUME NEW i \in 1 .. Len(b), i # m + 1
               PROVE  q(i) \in 1 .. Len(a) /\ b[i] = a[q(i)]
    OBVIOUS
  <2>5. CASE i <= m
    <3>1. q(i) = i /\ i \in 1 .. Len(a) /\ i <= m + 1 /\ i \in 1 .. m
      BY <1>1, <2>5
    <3> QED BY <2>1, <2>2, <2>4, <2>5, <3>1
  <2>6. CASE ~(i <= m)
    <3>1. i - (m + 1) = (i - 1) - m /\ ~(i - 1 <= m) /\ i - 1 \in 1 .. Len(a) /\ q(i) = i - 1
          /\ ~(i <= m + 1)
      BY <1>1, <2>6
    <3>2. b[i] = rest[i - (m + 1)] /\ a[i - 1] = rest[(i - 1) - m]
      BY <2>2, <2>4, <3>1, Zenon
    <3> QED BY <3>1, <3>2
  <2> QED BY <2>5, <2>6
<1>4. \A i \in 1 .. Len(a) : \E j \in 1 .. Len(b) : j # m + 1 /\ b[j] = a[i]
  <2> SUFFICES ASSUME NEW i \in 1 .. Len(a)
               PROVE  \E j \in 1 .. Len(b) : j # m + 1 /\ b[j] = a[i]
    OBVIOUS
  <2> HIDE DEF a, b
  <2>1. CASE i <= m
    <3>1. i \in 1 .. Len(b) /\ i # m + 1 /\ q(i) = i
      BY <1>1, <2>1
    <3> QED BY <1>3, <3>1, Zenon
  <2>2. CASE i > m
    <3>1. i + 1 \in 1 .. Len(b) /\ i + 1 # m + 1 /\ q(i + 1) = i
      BY <1>1, <2>2
    <3> QED BY <1>3, <3>1
  <2> QED BY <1>1, <2>1, <2>2
<1>5. \A i, j \in 1 .. Len(b) : i # m + 1 /\ j # m + 1 /\ i # j => q(i) # q(j)
  BY <1>1
<1> HIDE DEF a, b, q
<1>6. Distinct(a) /\ {a[i] : i \in 1 .. Len(a)} = want
  BY Zenon DEF Lists, a
<1>7. \A i \in 1 .. Len(b) : i # m + 1 => b[i] \in want
  BY <1>3, <1>6, Zenon
<1>8. Distinct(b)
  BY <1>2, <1>3, <1>5, <1>6, <1>7, Zenon DEF Distinct
<1>9. {b[i] : i \in 1 .. Len(b)} = want \cup {id}
  <2>1. m + 1 \in 1 .. Len(b)
    BY <1>1
  <2>2. \A x \in want : \E j \in 1 .. Len(b) : b[j] = x
    BY <1>4, <1>6, Zenon
  <2> QED BY <1>2, <1>7, <2>1, <2>2
<1> QED BY <1>8, <1>9, Zenon DEF Lists, b

-----------------------------------------------------------------------------
(* What a step of one thread leaves alone                                   *)

(* The first chunk of a thread that does not store.                         *)
LEMMA FrontFrame ==
    ASSUME NEW u \in Threads, FrontAt(u),
           tbuf'[u].chunks = tbuf[u].chunks, tbuf'[u].live => tbuf[u].live,
           \/ pc'[u] = pc[u] /\ rec'[u] = rec[u]
           \/ /\ pc[u] \notin {"entry", "count"}
              /\ pc'[u] \notin {"header", "entry", "count"}
    PROVE  FrontAt(u)'
<1> SUFFICES ASSUME tbuf'[u].live
             PROVE  \E st, sz : /\ Laid(Front(u)', Decode(Front(u)'), st, sz)
                                /\ AtEnd(u, Front(u), st[Front(u).m_nrec])'
  BY DEF FrontAt
<1>1. PICK st, sz : /\ Laid(Front(u), Decode(Front(u)), st, sz)
                    /\ AtEnd(u, Front(u), st[Front(u).m_nrec])
  BY DEF FrontAt
<1>2. Front(u)' = Front(u)
  BY DEF Front
<1>3. AtEnd(u, Front(u), st[Front(u).m_nrec])'
  <2>1. CASE pc'[u] = pc[u] /\ rec'[u] = rec[u]
    BY <1>1, <1>2, <2>1 DEF AtEnd
  <2>2. CASE /\ pc[u] \notin {"entry", "count"}
             /\ pc'[u] \notin {"header", "entry", "count"}
    BY <1>1, <1>2, <2>2 DEF AtEnd
  <2> QED BY <2>1, <2>2
<1> QED BY <1>1, <1>2, <1>3

(* The records of a buffer that does not change.                            *)
LEMMA BufferFrame ==
    ASSUME NEW u \in Threads, RoomAt(u), BufferAt(u), saved'[u] = saved[u],
           tbuf'[u].chunks = tbuf[u].chunks, tbuf'[u].live <=> tbuf[u].live
    PROVE  RoomAt(u)' /\ BufferAt(u)'
<1>1. Front(u)' = Front(u) /\ Rest(u)' = Rest(u)
  BY DEF Front, Rest
<1> QED BY <1>1 DEF RoomAt, BufferAt

(* All that is known of the records of a thread that does not store.        *)
LEMMA RecordsFrame ==
    ASSUME NEW u \in Threads, RecordsAt(u), taken \in Nat, taken' \in Nat, taken <= taken',
           tbuf'[u].chunks = tbuf[u].chunks, tbuf'[u].live <=> tbuf[u].live,
           saved'[u] = saved[u], rec'[u] = rec[u],
           \/ pc'[u] = pc[u]
           \/ /\ pc[u] \notin {"header", "entry", "count"}
              /\ pc'[u] \notin {"header", "entry", "count"}
              /\ pc'[u] \in ChunkPc => pc[u] \in ChunkPc
    PROVE  RecordsAt(u)'
<1>1. FrontAt(u)'
  BY FrontFrame DEF RecordsAt
<1>2. RoomAt(u)' /\ BufferAt(u)'
  BY BufferFrame DEF RecordsAt
<1>3. RecAt(u)'
  BY DEF RecordsAt, RecAt
<1> QED BY <1>1, <1>2, <1>3 DEF RecordsAt

(* Flags and places change, or a buffer is read.                            *)
LEMMA RecordsMove ==
    ASSUME DecodeFacts, ListsInv, RecordsInv, NEW t \in Threads,
           \/ UserFlush(t) \/ Clear(t) \/ CheckStopped(t) \/ release_thread_cb(t)
           \/ FlushLock(t) \/ FlushRead(t) \/ FlushDone(t) \/ ClearLock(t) \/ ClearDone(t)
           \/ FlushStop(t) \/ ClearStop(t) \/ FlushResume(t)
           \/ (ClearResume(t) /\ ~tbuf[Head(todo[t])].retired)
    PROVE  \A u \in Threads : RecordsAt(u)'
<1> DEFINE b == Head(todo[t])
<1>1. /\ tbuf \in [Threads -> Buffer] /\ taken \in Nat /\ back[t] = "idle"
      /\ pc \in [Threads -> {"idle", "gone"} \cup ChunkPc \cup FlushPc \cup ClearPc]
  BY DEF ListsInv, TraceType, RecordsInv, QuietInv
<1>2. UNCHANGED <<rec, taken, saved>>
  BY DEF UserFlush, Clear, CheckStopped, release_thread_cb, FlushLock, FlushRead, FlushDone,
         ClearLock, ClearDone, FlushStop, ClearStop, FlushResume, ClearResume, hist
<1>3. \A u \in Threads : tbuf'[u].chunks = tbuf[u].chunks /\ (tbuf'[u].live <=> tbuf[u].live)
  <2>1. CASE UserFlush(t) \/ Clear(t) \/ CheckStopped(t) \/ FlushLock(t) \/ FlushRead(t)
             \/ FlushDone(t) \/ ClearLock(t) \/ ClearDone(t)
    BY <2>1 DEF UserFlush, Clear, CheckStopped, FlushLock, FlushRead, FlushDone,
                ClearLock, ClearDone
  <2>2. CASE release_thread_cb(t)
    BY <1>1, <2>2 DEF release_thread_cb, Buffer
  <2>3. CASE \/ FlushStop(t) \/ ClearStop(t) \/ FlushResume(t)
             \/ (ClearResume(t) /\ ~tbuf[Head(todo[t])].retired)
    <3>1. /\ pc[t] \in Visiting \/ (pc[t] \in Locking /\ todo[t] # <<>>)
          /\ \E v \in BOOLEAN : tbuf' = [tbuf EXCEPT ![b].stopped = v]
      BY <2>3, Zenon DEF FlushStop, ClearStop, FlushResume, ClearResume
    <3>2. b \in Threads
      BY <3>1, Visited DEF ListsInv
    <3> HIDE DEF b
    <3> QED BY <1>1, <3>1, <3>2, SetStopped
  <2> QED BY <2>1, <2>2, <2>3
<1>4. /\ \A u \in Threads \ {t} : pc'[u] = pc[u]
      /\ pc'[t] \notin {"header", "entry", "count"} /\ pc[t] \notin {"header", "entry", "count"}
      /\ pc'[t] \in ChunkPc => pc[t] \in ChunkPc
  BY <1>1 DEF UserFlush, Clear, CheckStopped, release_thread_cb, FlushLock, FlushRead,
         FlushDone, ClearLock, ClearDone, FlushStop, ClearStop, FlushResume, ClearResume, Goto
<1>5. \A u \in Threads : RecordsAt(u)
  BY DEF RecordsInv
<1>6. taken' = taken /\ taken' \in Nat /\ taken <= taken'
  BY <1>1, <1>2
<1> QED BY <1>1, <1>2, <1>3, <1>4, <1>5, <1>6, RecordsFrame

(* A record is stored where it fits.                                        *)
LEMMA RecordsFits ==
    ASSUME DecodeFacts, ListsInv, RecordsInv, NEW t \in Threads, Fits(t)
    PROVE  \A u \in Threads : RecordsAt(u)'
<1>1. /\ pc \in [Threads -> {"idle", "gone"} \cup ChunkPc \cup FlushPc \cup ClearPc]
      /\ taken \in Nat
  BY DEF ListsInv, TraceType
<1>2. /\ pc[t] = "fits?" /\ fits(Front(t), rec[t].n) /\ pc' = [pc EXCEPT ![t] = "header"]
      /\ UNCHANGED <<tbuf, rec, taken, saved>>
  BY DEF Fits, Goto, hist, Front
<1>3. \A u \in Threads : RecordsAt(u)
  BY DEF RecordsInv
<1>4. taken' = taken /\ taken' \in Nat /\ taken <= taken'
  BY <1>1, <1>2
<1>5. \A u \in Threads \ {t} : RecordsAt(u)'
  <2>1. \A u \in Threads \ {t} : pc'[u] = pc[u]
    BY <1>1, <1>2
  <2> QED BY <1>1, <1>2, <1>3, <1>4, <2>1, RecordsFrame
<1>6. RecordsAt(t)'
  <2>1. pc'[t] = "header"
    BY <1>1, <1>2
  <2>2. RoomAt(t)' /\ BufferAt(t)'
    BY <1>2, <1>3, BufferFrame DEF RecordsAt
  <2>3. RecAt(t)'
    BY <1>2, <1>3, <2>1 DEF RecordsAt, RecAt
  <2>4. FrontAt(t)'
    <3>1. Front(t)' = Front(t) /\ tbuf[t].live
      BY <1>2 DEF Front, ListsInv, OwnerInv, OwnerAt, Storing
    <3>2. PICK st, sz : /\ Laid(Front(t), Decode(Front(t)), st, sz)
                        /\ AtEnd(t, Front(t), st[Front(t).m_nrec])
      BY <1>3, <3>1 DEF RecordsAt, FrontAt
    <3>3. AtEnd(t, Front(t), st[Front(t).m_nrec])'
      BY <1>2, <2>1, <3>1, <3>2 DEF AtEnd
    <3> QED BY <3>1, <3>2, <3>3 DEF FrontAt
  <2> QED BY <2>2, <2>3, <2>4 DEF RecordsAt
<1> QED BY <1>5, <1>6

-----------------------------------------------------------------------------
(* Storing a record                                                         *)

(* The first chunk of a buffer is replaced.                                 *)
LEMMA FrontIs ==
    ASSUME ListsInv, NEW t \in Threads, tbuf[t].live, NEW c \in Chunk,
           tbuf' = [tbuf EXCEPT ![t].chunks = FrontWith(t, c)]
    PROVE  /\ Front(t)' = c /\ Rest(t)' = Rest(t) /\ tbuf'[t].live
           /\ RoomAt(t) /\ c.m_pos <= buffersize => RoomAt(t)'
           /\ \A u \in Threads \ {t} : /\ tbuf'[u].chunks = tbuf[u].chunks
                                       /\ tbuf'[u].live <=> tbuf[u].live
<1> DEFINE cs == tbuf[t].chunks
           ds == FrontWith(t, c)
<1>1. tbuf \in [Threads -> Buffer] /\ cs \in Seq(Chunk) /\ cs # <<>>
  BY DEF ListsInv, TraceType, ListInv, Buffer
<1>2. /\ ds \in Seq(Chunk) /\ Len(ds) = Len(cs) /\ ds[1] = c /\ ds # <<>>
      /\ \A i \in 2 .. Len(cs) : ds[i] = cs[i]
  BY <1>1 DEF FrontWith
<1> HIDE DEF ds, cs
<1>3. Tail(ds) = Tail(cs)
  BY <1>1, <1>2, SameTail
<1> USE DEF cs
<1>4. /\ tbuf'[t].chunks = ds /\ (tbuf'[t].live <=> tbuf[t].live)
      /\ \A u \in Threads \ {t} : /\ tbuf'[u].chunks = tbuf[u].chunks
                                  /\ tbuf'[u].live <=> tbuf[u].live
  BY <1>1, <1>2, SetChunks DEF ds
<1>5. Front(t)' = c /\ Rest(t)' = Rest(t)
  BY <1>2, <1>3, <1>4, Zenon DEF Front, Rest
<1>6. RoomAt(t) /\ c.m_pos <= buffersize => RoomAt(t)'
  BY <1>1, <1>2, <1>4 DEF RoomAt
<1> QED BY <1>4, <1>5, <1>6

(* What is known of a thread that stores a record.                          *)
LEMMA StoringIs ==
    ASSUME DecodeFacts, ListsInv, RecordsInv, NEW t \in Threads, pc[t] \in ChunkPc
    PROVE  /\ tbuf[t].live /\ Front(t) \in Chunk /\ Front(t).m_pos \in Nat
           /\ Front(t).m_nrec \in Nat /\ Front(t).m_pos <= buffersize
           /\ Front(t).m_pos <= 2 * buffersize /\ buffersize \in Nat
           /\ rec[t].id \in Nat /\ rec[t].n \in Nat /\ rec[t].n # 0 /\ rec[t].n \in Sizes
           /\ rec[t].k \in Nat /\ rec[t].id \in 1 .. taken /\ rec[t].id \notin saved[t]
           /\ RecordsAt(t)
<1>1. RecordsAt(t)
  BY DEF RecordsInv
<1>2. tbuf[t].live /\ rec[t] \in [id : Nat, n : Nat, k : Nat]
  BY DEF ListsInv, TraceType, OwnerInv, OwnerAt, Storing
<1>3. tbuf[t].chunks \in Seq(Chunk) /\ tbuf[t].chunks # <<>>
  BY <1>2 DEF ListsInv, TraceType, ListInv, Buffer
<1>4. Front(t) \in Chunk /\ 1 \in 1 .. Len(tbuf[t].chunks)
  BY <1>3 DEF Front
<1>5. Front(t).m_pos <= buffersize
  BY <1>1, <1>4 DEF RecordsAt, RoomAt, Front
<1>6. Front(t).m_pos \in Nat /\ Front(t).m_nrec \in Nat
  BY <1>4 DEF Chunk
<1>7. rec[t].n \in Sizes /\ rec[t].id \in 1 .. taken /\ rec[t].id \notin saved[t]
  BY <1>1 DEF RecordsAt, RecAt
<1> QED BY <1>1, <1>2, <1>4, <1>5, <1>6, <1>7, TraceAssumption

(* save_snapshot() writes the header behind the records of the chunk.       *)
LEMMA RecordsHeader ==
    ASSUME DecodeFacts, ListsInv, RecordsInv, NEW t \in Threads, Header(t)
    PROVE  \A u \in Threads : RecordsAt(u)'
<1> DEFINE c == Front(t)
           d == Put(c, HeaderOf(t))
<1>1. /\ pc \in [Threads -> {"idle", "gone"} \cup ChunkPc \cup FlushPc \cup ClearPc]
      /\ taken \in Nat /\ HeaderOf(t) \in Cell
  BY CellsTyped DEF ListsInv, TraceType
<1>2. /\ pc[t] = "header" /\ pc' = [pc EXCEPT ![t] = "entry"]
      /\ UNCHANGED <<rec, taken, saved>>
  BY DEF Header, Goto, hist
<1>3. tbuf' = [tbuf EXCEPT ![t].chunks = FrontWith(t, d)]
  BY StoreIs DEF ListsInv
<1>4. /\ tbuf[t].live /\ c \in Chunk /\ c.m_pos \in Nat /\ c.m_nrec \in Nat
      /\ c.m_pos <= buffersize /\ buffersize \in Nat /\ c.m_pos <= 2 * buffersize
      /\ rec[t].n \in Nat /\ rec[t].n # 0 /\ RecordsAt(t)
  BY <1>2, StoringIs
<1> HIDE DEF c, d
<1>5. /\ d \in Chunk /\ d.m_pos = c.m_pos + 1 /\ d.m_nrec = c.m_nrec
      /\ \A i \in Cells : d.m_data[i] = IF i = c.m_pos THEN HeaderOf(t) ELSE c.m_data[i]
  BY <1>1, <1>4, PutIs DEF d
<1>6. PICK st, sz : /\ Laid(c, Decode(c), st, sz) /\ AtEnd(t, c, st[c.m_nrec])
  BY <1>4 DEF RecordsAt, FrontAt, c
<1>7. c.m_pos = st[c.m_nrec] /\ fits(c, rec[t].n) /\ rec[t].k = 0
  BY <1>2, <1>4, <1>6 DEF AtEnd, RecordsAt, RecAt
<1>8. c.m_pos + 1 + rec[t].n < buffersize
  BY <1>7 DEF fits
<1>9. Laid(d, Decode(c), st, sz) /\ Decode(d) = Decode(c)
  <2>1. Laid(d, Decode(c), st, sz)
    BY <1>1, <1>4, <1>6, LaidPut DEF d
  <2>2. d.m_pos <= 2 * buffersize
    BY <1>4, <1>5, <1>8
  <2> QED BY <1>4, <1>5, <2>1, <2>2, DecodeLaid
<1>10. /\ Front(t)' = d /\ Rest(t)' = Rest(t) /\ tbuf'[t].live
       /\ RoomAt(t) /\ d.m_pos <= buffersize => RoomAt(t)'
       /\ \A u \in Threads \ {t} : /\ tbuf'[u].chunks = tbuf[u].chunks
                                   /\ tbuf'[u].live <=> tbuf[u].live
  BY <1>3, <1>4, <1>5, FrontIs, Zenon
<1>11. pc'[t] = "entry" /\ \A u \in Threads \ {t} : pc'[u] = pc[u]
  BY <1>1, <1>2
<1>12. RoomAt(t)'
  BY <1>4, <1>5, <1>8, <1>10 DEF RecordsAt
<1>13. BufferAt(t)'
  BY <1>2, <1>4, <1>9, <1>10 DEF RecordsAt, BufferAt, c
<1>14. RecAt(t)'
  BY <1>2, <1>4, <1>11 DEF RecordsAt, RecAt
<1>15. FrontAt(t)'
  <2>1. Written(d, c.m_pos, rec[t].id, rec[t].n, 0)
    <3>1. c.m_pos \in Cells /\ 1 .. 0 = {}
      BY <1>4 DEF Cells
    <3>2. d.m_data[c.m_pos] = HeaderOf(t)
      BY <1>5, <3>1
    <3> QED BY <3>1, <3>2, Zenon DEF Written, HeaderOf
  <2>2. /\ d.m_pos = c.m_pos + 1 + rec[t].k /\ c.m_pos + 1 + rec[t].n < buffersize
        /\ rec[t].k < rec[t].n
    BY <1>4, <1>5, <1>7, <1>8
  <2>3. Front(t)' = d /\ st[d.m_nrec] = c.m_pos
    BY <1>5, <1>7, <1>10
  <2>4. AtEnd(t, Front(t), st[Front(t).m_nrec])'
    BY <1>2, <1>7, <1>11, <2>1, <2>2, <2>3 DEF AtEnd
  <2> QED BY <1>9, <1>10, <2>4 DEF FrontAt
<1>16. \A u \in Threads \ {t} : RecordsAt(u)'
  <2>1. taken' = taken /\ taken' \in Nat /\ taken <= taken'
    BY <1>1, <1>2
  <2>2. \A u \in Threads : RecordsAt(u)
    BY DEF RecordsInv
  <2> QED BY <1>1, <1>2, <1>10, <1>11, <2>1, <2>2, RecordsFrame
<1> QED BY <1>12, <1>13, <1>14, <1>15, <1>16 DEF RecordsAt

(* save_snapshot() writes the next entry of the record.                     *)
LEMMA RecordsEntry ==
    ASSUME DecodeFacts, ListsInv, RecordsInv, NEW t \in Threads, Entry(t)
    PROVE  \A u \in Threads : RecordsAt(u)'
<1> DEFINE c == Front(t)
           d == Put(c, EntryOf(t))
<1>1. /\ pc \in [Threads -> {"idle", "gone"} \cup ChunkPc \cup FlushPc \cup ClearPc]
      /\ rec \in [Threads -> [id : Nat, n : Nat, k : Nat]]
      /\ taken \in Nat /\ EntryOf(t) \in Cell
  BY CellsTyped DEF ListsInv, TraceType
<1>2. /\ pc[t] = "entry" /\ rec' = [rec EXCEPT ![t].k = @ + 1]
      /\ pc' = [pc EXCEPT ![t] = IF rec[t].k + 1 = rec[t].n THEN "count" ELSE "entry"]
      /\ UNCHANGED <<taken, saved>>
  BY DEF Entry, Goto, hist
<1>3. tbuf' = [tbuf EXCEPT ![t].chunks = FrontWith(t, d)]
  BY StoreIs DEF ListsInv
<1>4. /\ tbuf[t].live /\ c \in Chunk /\ c.m_pos \in Nat /\ c.m_nrec \in Nat
      /\ c.m_pos <= buffersize /\ buffersize \in Nat /\ c.m_pos <= 2 * buffersize
      /\ rec[t].n \in Nat /\ rec[t].k \in Nat /\ RecordsAt(t)
  BY <1>2, StoringIs
<1> HIDE DEF c, d
<1>5. /\ d \in Chunk /\ d.m_pos = c.m_pos + 1 /\ d.m_nrec = c.m_nrec
      /\ \A i \in Cells : d.m_data[i] = IF i = c.m_pos THEN EntryOf(t) ELSE c.m_data[i]
  BY <1>1, <1>4, PutIs DEF d
<1>6. PICK st, sz : /\ Laid(c, Decode(c), st, sz) /\ AtEnd(t, c, st[c.m_nrec])
  BY <1>4 DEF RecordsAt, FrontAt, c
<1> DEFINE e == st[c.m_nrec]
<1>7. /\ c.m_pos = e + 1 + rec[t].k /\ e + 1 + rec[t].n < buffersize /\ rec[t].k < rec[t].n
      /\ Written(c, e, rec[t].id, rec[t].n, rec[t].k)
  BY <1>2, <1>6 DEF AtEnd
<1>8. e \in Nat
  <2>1. st \in [0 .. c.m_nrec -> Nat]
    BY <1>6, Zenon DEF Laid
  <2>2. c.m_nrec \in 0 .. c.m_nrec
    BY <1>4
  <2> QED BY <2>1, <2>2, Zenon
<1> HIDE DEF e
<1>9. Laid(d, Decode(c), st, sz) /\ Decode(d) = Decode(c)
  <2>1. Laid(d, Decode(c), st, sz)
    BY <1>1, <1>4, <1>6, LaidPut DEF d
  <2>2. d.m_pos <= 2 * buffersize
    BY <1>4, <1>5, <1>7, <1>8
  <2> QED BY <1>4, <1>5, <2>1, <2>2, DecodeLaid
<1>10. /\ Front(t)' = d /\ Rest(t)' = Rest(t) /\ tbuf'[t].live
       /\ RoomAt(t) /\ d.m_pos <= buffersize => RoomAt(t)'
       /\ \A u \in Threads \ {t} : /\ tbuf'[u].chunks = tbuf[u].chunks
                                   /\ tbuf'[u].live <=> tbuf[u].live
  BY <1>3, <1>4, <1>5, FrontIs, Zenon
<1>11. /\ pc'[t] = IF rec[t].k + 1 = rec[t].n THEN "count" ELSE "entry"
       /\ rec'[t].k = rec[t].k + 1 /\ rec'[t].id = rec[t].id /\ rec'[t].n = rec[t].n
       /\ \A u \in Threads \ {t} : pc'[u] = pc[u] /\ rec'[u] = rec[u]
  BY <1>1, <1>2
<1>12. RoomAt(t)'
  BY <1>4, <1>5, <1>7, <1>8, <1>10 DEF RecordsAt
<1>13. BufferAt(t)'
  BY <1>2, <1>4, <1>9, <1>10 DEF RecordsAt, BufferAt, c
<1>14. RecAt(t)'
  BY <1>2, <1>4, <1>11 DEF RecordsAt, RecAt
<1>15. FrontAt(t)'
  <2>1. Written(d, e, rec[t].id, rec[t].n, rec[t].k + 1)
    <3>1. /\ e \in Cells /\ e # c.m_pos /\ c.m_pos \in Cells /\ c.m_pos = e + (rec[t].k + 1)
          /\ \A j \in 1 .. rec[t].k : e + j \in Cells /\ e + j # c.m_pos
          /\ \A j \in 1 .. rec[t].k + 1 : j \in 1 .. rec[t].k \/ j = rec[t].k + 1
      BY <1>4, <1>7, <1>8 DEF Cells
    <3>2. d.m_data[e] = c.m_data[e] /\ d.m_data[c.m_pos] = EntryOf(t)
      BY <1>5, <3>1
    <3>3. \A j \in 1 .. rec[t].k : d.m_data[e + j] = c.m_data[e + j]
      BY <1>5, <3>1
    <3>4. \A j \in 1 .. rec[t].k : d.m_data[e + j] = <<"entry", rec[t].id, j>>
      BY <1>7, <3>3, Zenon DEF Written
    <3>5. d.m_data[e + (rec[t].k + 1)] = <<"entry", rec[t].id, rec[t].k + 1>>
      BY <3>1, <3>2, Zenon DEF EntryOf
    <3>6. d.m_data[e] = <<"header", rec[t].id, rec[t].n>>
      BY <1>7, <3>2, Zenon DEF Written
    <3> QED BY <3>1, <3>4, <3>5, <3>6, Zenon DEF Written
  <2>2. /\ d.m_pos = e + 1 + (rec[t].k + 1) /\ e + 1 + rec[t].n < buffersize
        /\ rec[t].k + 1 # rec[t].n => rec[t].k + 1 < rec[t].n
    BY <1>4, <1>5, <1>7, <1>8
  <2>3. Front(t)' = d /\ st[d.m_nrec] = e
    BY <1>5, <1>10 DEF e
  <2>4. AtEnd(t, Front(t), st[Front(t).m_nrec])'
    BY <1>11, <2>1, <2>2, <2>3 DEF AtEnd
  <2> QED BY <1>9, <1>10, <2>4 DEF FrontAt
<1>16. \A u \in Threads \ {t} : RecordsAt(u)'
  <2>1. taken' = taken /\ taken' \in Nat /\ taken <= taken'
    BY <1>1, <1>2
  <2>2. \A u \in Threads : RecordsAt(u)
    BY DEF RecordsInv
  <2> QED BY <1>1, <1>2, <1>10, <1>11, <2>1, <2>2, RecordsFrame
<1> QED BY <1>12, <1>13, <1>14, <1>15, <1>16 DEF RecordsAt

(* save_snapshot() counts the record: from here on a flush finds it.        *)
LEMMA RecordsCount ==
    ASSUME DecodeFacts, ListsInv, RecordsInv, NEW t \in Threads, Count(t)
    PROVE  \A u \in Threads : RecordsAt(u)'
<1> DEFINE c == Front(t)
           d == Counted(c)
<1>1. /\ pc \in [Threads -> {"idle", "gone"} \cup ChunkPc \cup FlushPc \cup ClearPc]
      /\ saved \in [Threads -> SUBSET Nat] /\ taken \in Nat
  BY DEF ListsInv, TraceType
<1>2. /\ pc[t] = "count" /\ pc' = [pc EXCEPT ![t] = "idle"]
      /\ saved' = [saved EXCEPT ![t] = @ \cup {rec[t].id}] /\ UNCHANGED <<rec, taken>>
  BY DEF Count, Goto
<1>3. tbuf' = [tbuf EXCEPT ![t].chunks = FrontWith(t, d)]
  BY StoreIs DEF ListsInv
<1>4. /\ tbuf[t].live /\ c \in Chunk /\ c.m_pos \in Nat /\ c.m_nrec \in Nat
      /\ c.m_pos <= buffersize /\ buffersize \in Nat /\ c.m_pos <= 2 * buffersize
      /\ rec[t].n \in Nat /\ rec[t].id \in Nat /\ rec[t].id \in 1 .. taken
      /\ rec[t].id \notin saved[t] /\ RecordsAt(t)
  BY <1>2, StoringIs
<1> HIDE DEF c, d
<1>5. d \in Chunk /\ d.m_pos = c.m_pos
  BY <1>4, CountedIs DEF d
<1>6. PICK st, sz : /\ Laid(c, Decode(c), st, sz) /\ AtEnd(t, c, st[c.m_nrec])
  BY <1>4 DEF RecordsAt, FrontAt, c
<1>7. /\ c.m_pos = st[c.m_nrec] + 1 + rec[t].n
      /\ Written(c, st[c.m_nrec], rec[t].id, rec[t].n, rec[t].n)
  BY <1>2, <1>6 DEF AtEnd
<1>8. \E st2, sz2 : /\ Laid(d, Append(Decode(c), rec[t].id), st2, sz2)
                    /\ st2[d.m_nrec] = c.m_pos
  BY <1>4, <1>6, <1>7, LaidCount DEF d
<1>9. PICK st2, sz2 : /\ Laid(d, Append(Decode(c), rec[t].id), st2, sz2)
                      /\ st2[d.m_nrec] = c.m_pos
  BY <1>8
<1>10. Decode(d) = Append(Decode(c), rec[t].id)
  BY <1>4, <1>5, <1>9, DecodeLaid, Zenon
<1>11. /\ Front(t)' = d /\ Rest(t)' = Rest(t) /\ tbuf'[t].live
       /\ RoomAt(t) /\ d.m_pos <= buffersize => RoomAt(t)'
       /\ \A u \in Threads \ {t} : /\ tbuf'[u].chunks = tbuf[u].chunks
                                   /\ tbuf'[u].live <=> tbuf[u].live
  BY <1>3, <1>4, <1>5, FrontIs, Zenon
<1>12. /\ pc'[t] = "idle" /\ saved'[t] = saved[t] \cup {rec[t].id}
       /\ \A u \in Threads \ {t} : pc'[u] = pc[u] /\ saved'[u] = saved[u]
  BY <1>1, <1>2
<1>13. RoomAt(t)'
  BY <1>4, <1>5, <1>11 DEF RecordsAt
<1>14. BufferAt(t)'
  <2>1. Rest(t) \in Seq(Nat) /\ Lists(Decode(c) \o Rest(t), saved[t])
    BY <1>4 DEF RecordsAt, BufferAt, c
  <2>2. Decode(c) \in Seq(Nat)
    BY <1>6, Zenon DEF Laid
  <2>3. Lists(Append(Decode(c), rec[t].id) \o Rest(t), saved[t] \cup {rec[t].id})
    BY <1>4, <2>1, <2>2, ListsAdd, Zenon
  <2> QED BY <1>10, <1>11, <1>12, <2>1, <2>3, Zenon DEF BufferAt
<1>15. RecAt(t)'
  BY <1>2, <1>4, <1>12 DEF RecordsAt, RecAt
<1>16. FrontAt(t)'
  <2>1. AtEnd(t, Front(t), st2[Front(t).m_nrec])'
    BY <1>5, <1>9, <1>11, <1>12, Zenon DEF AtEnd
  <2> QED BY <1>9, <1>10, <1>11, <2>1, Zenon DEF FrontAt
<1>17. \A u \in Threads \ {t} : RecordsAt(u)'
  <2>1. taken' = taken /\ taken' \in Nat /\ taken <= taken'
    BY <1>1, <1>2
  <2>2. \A u \in Threads : RecordsAt(u)
    BY DEF RecordsInv
  <2> QED BY <1>1, <1>2, <1>11, <1>12, <2>1, <2>2, RecordsFrame
<1> QED BY <1>13, <1>14, <1>15, <1>16, <1>17 DEF RecordsAt

(* A flush reads the first chunk, then the others.                          *)
LEMMA ReadsAll ==
    ASSUME DecodeFacts, ListsInv, NEW t \in Threads, tbuf[t].live
    PROVE  DecodeAll(tbuf[t].chunks) = Decode(Front(t)) \o Rest(t)
<1>1. tbuf[t].chunks \in Seq(Chunk) /\ tbuf[t].chunks # <<>>
  BY DEF ListsInv, TraceType, ListInv, Buffer
<1> QED BY <1>1, Zenon DEF DecodeFacts, Front, Rest

(* The buffer is full: handle_overflow() stops it or puts a new chunk in    *)
(* front.                                                                   *)
LEMMA RecordsOverflow ==
    ASSUME DecodeFacts, ListsInv, RecordsInv, NEW t \in Threads, handle_overflow(t), policy # "flush"
    PROVE  \A u \in Threads : RecordsAt(u)'
<1>1. /\ pc \in [Threads -> {"idle", "gone"} \cup ChunkPc \cup FlushPc \cup ClearPc]
      /\ tbuf \in [Threads -> Buffer] /\ taken \in Nat
  BY DEF ListsInv, TraceType
<1>2. pc[t] = "fits?" /\ UNCHANGED <<rec, taken, saved>>
  BY DEF handle_overflow
<1>3. \A u \in Threads : RecordsAt(u)
  BY DEF RecordsInv
<1>4. taken' = taken /\ taken' \in Nat /\ taken <= taken'
  BY <1>1, <1>2
<1>5. CASE policy = "stop"
  <2>1. tbuf' = [tbuf EXCEPT ![t].stopped = TRUE] /\ pc' = [pc EXCEPT ![t] = "idle"]
    BY <1>5 DEF handle_overflow, Goto
  <2>2. \A u \in Threads : tbuf'[u].chunks = tbuf[u].chunks /\ (tbuf'[u].live <=> tbuf[u].live)
    BY <1>1, <2>1, SetStopped
  <2>3. pc'[t] = "idle" /\ \A u \in Threads \ {t} : pc'[u] = pc[u]
    BY <1>1, <2>1
  <2> QED BY <1>1, <1>2, <1>3, <1>4, <2>2, <2>3, RecordsFrame
<1>6. CASE policy = "grow"
  <2> DEFINE cs == tbuf[t].chunks
             ds == <<EmptyChunk>> \o cs
  <2>1. tbuf' = [tbuf EXCEPT ![t].chunks = ds] /\ pc' = [pc EXCEPT ![t] = "header"]
    BY <1>6 DEF handle_overflow, Goto, Grow
  <2>2. /\ tbuf[t].live /\ rec[t].n \in Nat /\ rec[t].n \in Sizes /\ buffersize \in Nat
        /\ RecordsAt(t)
    BY <1>2, StoringIs
  <2>3. cs \in Seq(Chunk) /\ cs # <<>>
    BY <2>2 DEF ListsInv, TraceType, ListInv, Buffer
  <2>4. /\ ds \in Seq(Chunk) /\ Len(ds) = Len(cs) + 1 /\ ds[1] = EmptyChunk
        /\ \A i \in 2 .. Len(cs) + 1 : ds[i] = cs[i - 1]
    BY <2>3, BuffersTyped
  <2>5. Tail(ds) = cs
    BY <2>3
  <2> HIDE DEF ds
  <2>6. /\ tbuf'[t].chunks = ds /\ (tbuf'[t].live <=> tbuf[t].live)
        /\ \A u \in Threads \ {t} : /\ tbuf'[u].chunks = tbuf[u].chunks
                                    /\ tbuf'[u].live <=> tbuf[u].live
    BY <1>1, <2>1, <2>4, SetChunks
  <2>7. Front(t)' = EmptyChunk /\ Rest(t)' = DecodeAll(cs)
    BY <2>4, <2>5, <2>6, Zenon DEF Front, Rest
  <2>8. pc'[t] = "header" /\ \A u \in Threads \ {t} : pc'[u] = pc[u]
    BY <1>1, <2>1
  <2>9. BufferAt(t)'
    <3>1. Rest(t) \in Seq(Nat) /\ Lists(Decode(Front(t)) \o Rest(t), saved[t])
      BY <2>2 DEF RecordsAt, BufferAt
    <3>2. Decode(Front(t)) \in Seq(Nat)
      BY <2>2, Zenon DEF RecordsAt, FrontAt, Laid
    <3>3. DecodeAll(cs) = Decode(Front(t)) \o Rest(t) /\ DecodeAll(cs) \in Seq(Nat)
      <4>1. DecodeAll(cs) = Decode(Front(t)) \o Rest(t)
        BY <2>2, ReadsAll
      <4>2. Decode(Front(t)) \o Rest(t) \in Seq(Nat)
        BY <3>1, <3>2, SeqConcat
      <4> QED BY <4>1, <4>2
    <3>4. <<>> \o DecodeAll(cs) = DecodeAll(cs)
      <4> HIDE DEF cs
      <4> QED BY <3>3
    <3>5. Decode(Front(t)') = <<>>
      BY <2>7, EmptyLaid
    <3> QED BY <1>2, <2>2, <2>6, <2>7, <3>1, <3>3, <3>4, <3>5 DEF BufferAt
  <2>10. RoomAt(t)'
    <3>1. \A i \in 1 .. Len(cs) : cs[i].m_pos <= buffersize
      BY <2>2 DEF RecordsAt, RoomAt
    <3>2. ASSUME NEW i \in 1 .. Len(ds) PROVE ds[i].m_pos <= buffersize
      <4>1. CASE i = 1
        BY <2>2, <2>4, <4>1, EmptyLaid
      <4>2. CASE i # 1
        <5>1. i \in 2 .. Len(cs) + 1 /\ i - 1 \in 1 .. Len(cs)
          BY <2>3, <2>4, <4>2
        <5> QED BY <2>4, <3>1, <5>1
      <4> QED BY <4>1, <4>2
    <3> QED BY <2>6, <3>2 DEF RoomAt
  <2>11. RecAt(t)'
    BY <1>2, <2>2, <2>8 DEF RecordsAt, RecAt
  <2>12. FrontAt(t)'
    <3>1. PICK st, sz : Laid(EmptyChunk, <<>>, st, sz) /\ st[EmptyChunk.m_nrec] = 0
      BY EmptyLaid
    <3>2. fits(EmptyChunk, rec[t].n)
      BY <2>2, EmptyLaid, TraceAssumption DEF fits
    <3>3. AtEnd(t, Front(t), st[Front(t).m_nrec])'
      BY <1>2, <2>7, <2>8, <3>1, <3>2, EmptyLaid DEF AtEnd
    <3> QED BY <2>7, <3>1, <3>3, EmptyLaid DEF FrontAt
  <2>13. \A u \in Threads \ {t} : RecordsAt(u)'
    BY <1>1, <1>2, <1>3, <1>4, <2>6, <2>8, RecordsFrame
  <2> QED BY <2>9, <2>10, <2>11, <2>12, <2>13 DEF RecordsAt
<1> QED BY <1>5, <1>6 DEF handle_overflow

-----------------------------------------------------------------------------
(* New, emptied and deleted buffers                                         *)

(* A buffer that is new or was emptied.                                     *)
LEMMA RecordsFresh ==
    ASSUME DecodeFacts, NEW u \in Threads, tbuf'[u].live, tbuf'[u].chunks = <<EmptyChunk>>,
           saved'[u] = {}, RecAt(u)', pc'[u] \notin {"header", "entry", "count"}
    PROVE  RecordsAt(u)'
<1>1. Front(u)' = EmptyChunk /\ Rest(u)' = <<>>
  <2>1. Tail(<<EmptyChunk>>) = <<>> /\ <<EmptyChunk>>[1] = EmptyChunk
    OBVIOUS
  <2> QED BY <2>1, Zenon DEF DecodeFacts, Front, Rest
<1>2. BufferAt(u)'
  <2>1. /\ <<>> \in Seq(Nat) /\ <<>> \o <<>> = <<>> /\ Lists(<<>>, {})
    BY DEF Lists, Distinct
  <2> QED BY <1>1, <2>1, EmptyLaid DEF BufferAt
<1>3. RoomAt(u)'
  <2>1. Len(<<EmptyChunk>>) = 1 /\ \A i \in 1 .. 1 : <<EmptyChunk>>[i] = EmptyChunk
    OBVIOUS
  <2>2. EmptyChunk.m_pos <= buffersize
    BY EmptyLaid, TraceAssumption
  <2> QED BY <2>1, <2>2 DEF RoomAt
<1>4. FrontAt(u)'
  <2>1. PICK st, sz : Laid(EmptyChunk, <<>>, st, sz) /\ st[EmptyChunk.m_nrec] = 0
    BY EmptyLaid
  <2>2. AtEnd(u, Front(u), st[Front(u).m_nrec])'
    BY <1>1, <2>1, EmptyLaid DEF AtEnd
  <2> QED BY <1>1, <2>1, <2>2, EmptyLaid DEF FrontAt
<1> QED BY <1>2, <1>3, <1>4 DEF RecordsAt

(* A snapshot takes a new number; its thread may get a buffer.              *)
LEMMA RecordsAcquire ==
    ASSUME DecodeFacts, ListsInv, RecordsInv, NEW t \in Threads,
           \/ \E n \in Sizes, is_signal \in BOOLEAN : process_snapshot_cb(t, n, is_signal)
           \/ create_thread_cb(t)
    PROVE  \A u \in Threads : RecordsAt(u)'
<1>1. /\ pc \in [Threads -> {"idle", "gone"} \cup ChunkPc \cup FlushPc \cup ClearPc]
      /\ rec \in [Threads -> [id : Nat, n : Nat, k : Nat]] /\ taken \in Nat
  BY DEF ListsInv, TraceType
<1>2. \E can_alloc \in BOOLEAN : acquire_tbuf(t, can_alloc)
  BY Zenon DEF process_snapshot_cb, create_thread_cb
<1>3. /\ \A u \in Threads \ {t} : tbuf'[u] = tbuf[u]
      /\ tbuf[t].live => tbuf'[t] = tbuf[t]
      /\ ~tbuf[t].live => tbuf'[t] = NewBuffer \/ tbuf'[t] = tbuf[t]
  BY <1>2, AcquireIs DEF ListsInv
<1>4. saved' = saved
  BY Zenon DEF process_snapshot_cb, create_thread_cb, hist
<1>5. /\ taken' \in Nat /\ taken <= taken' /\ pc[t] = "idle"
      /\ \A u \in Threads \ {t} : pc'[u] = pc[u] /\ rec'[u] = rec[u]
      /\ \/ pc'[t] = "idle"
         \/ /\ pc'[t] = "stopped?" /\ taken' = taken + 1
            /\ rec'[t].id = taken' /\ rec'[t].n \in Sizes /\ rec'[t].k = 0
  <2>1. CASE create_thread_cb(t)
    BY <1>1, <2>1 DEF create_thread_cb
  <2>2. ASSUME NEW n \in Sizes, NEW is_signal \in BOOLEAN, process_snapshot_cb(t, n, is_signal)
        PROVE  <1>5!:
    <3>1. /\ taken' = taken + 1 /\ pc[t] = "idle"
          /\ rec' = [rec EXCEPT ![t] = [id |-> taken', n |-> n, k |-> 0]]
          /\ pc' = [pc EXCEPT ![t] = "stopped?"] \/ pc' = [pc EXCEPT ![t] = "idle"]
      BY <2>2, Zenon DEF process_snapshot_cb, Goto
    <3> QED BY <1>1, <3>1
  <2> QED BY <2>1, <2>2
<1>6. \A u \in Threads : RecordsAt(u)
  BY DEF RecordsInv
<1>7. \A u \in Threads \ {t} : RecordsAt(u)'
  BY <1>1, <1>3, <1>4, <1>5, <1>6, RecordsFrame
<1>8. RecAt(t)'
  BY <1>1, <1>4, <1>5, <1>6 DEF RecordsAt, RecAt
<1>9. CASE tbuf'[t] = tbuf[t]
  <2>1. FrontAt(t)'
    BY <1>5, <1>6, <1>9, FrontFrame DEF RecordsAt
  <2>2. RoomAt(t)' /\ BufferAt(t)'
    BY <1>4, <1>6, <1>9, BufferFrame DEF RecordsAt
  <2> QED BY <1>7, <1>8, <2>1, <2>2 DEF RecordsAt
<1>10. CASE ~tbuf[t].live /\ tbuf'[t] = NewBuffer
  <2>1. saved'[t] = {}
    BY <1>4, <1>6, <1>10 DEF RecordsAt, BufferAt
  <2>2. tbuf'[t].live /\ tbuf'[t].chunks = <<EmptyChunk>>
    BY <1>10 DEF NewBuffer
  <2>3. RecordsAt(t)'
    BY <1>5, <1>8, <2>1, <2>2, RecordsFresh
  <2> QED BY <1>7, <2>3
<1> QED BY <1>3, <1>9, <1>10

(* A clear empties a buffer while nobody stores.                            *)
LEMMA RecordsReset ==
    ASSUME DecodeFacts, ListsInv, RecordsInv, NEW t \in Threads, ClearReset(t)
    PROVE  \A u \in Threads : RecordsAt(u)'
<1>0. PICK b : b = Head(todo[t])
  OBVIOUS
<1>1. /\ pc[t] = "reset" /\ pc' = [pc EXCEPT ![t] = "cleared"]
      /\ tbuf' = [tbuf EXCEPT ![b].chunks = <<EmptyChunk>>]
      /\ saved' = [saved EXCEPT ![b] = {}] /\ UNCHANGED <<rec, taken>>
  BY <1>0 DEF ClearReset, Goto, reset
<1>2. /\ pc \in [Threads -> {"idle", "gone"} \cup ChunkPc \cup FlushPc \cup ClearPc]
      /\ tbuf \in [Threads -> Buffer] /\ saved \in [Threads -> SUBSET Nat] /\ taken \in Nat
  BY DEF ListsInv, TraceType
<1>3. b \in Threads /\ tbuf[b].live
  BY <1>0, <1>1, Visited DEF ListsInv
<1>4. \A u \in Threads : pc[u] \notin ChunkPc
  BY <1>0, <1>1 DEF RecordsInv, QuietInv, Clearing
<1>5. /\ tbuf'[b].chunks = <<EmptyChunk>> /\ (tbuf'[b].live <=> tbuf[b].live)
      /\ \A u \in Threads \ {b} : /\ tbuf'[u].chunks = tbuf[u].chunks
                                  /\ tbuf'[u].live <=> tbuf[u].live
  BY <1>1, <1>2, <1>3, SetChunks, BuffersTyped
<1>6. saved'[b] = {} /\ \A u \in Threads \ {b} : saved'[u] = saved[u]
  BY <1>1, <1>2, <1>3
<1>7. \A u \in Threads : pc'[u] \notin ChunkPc
  BY <1>1, <1>2, <1>4
<1>8. \A u \in Threads : RecordsAt(u)
  BY DEF RecordsInv
<1>9. taken' = taken /\ taken' \in Nat /\ taken <= taken'
  BY <1>1, <1>2
<1>10. \A u \in Threads \ {b} : RecordsAt(u)'
  BY <1>1, <1>2, <1>4, <1>5, <1>6, <1>7, <1>8, <1>9, RecordsFrame
<1>11. RecAt(b)'
  BY <1>3, <1>6, <1>7 DEF RecAt
<1>12. RecordsAt(b)'
  BY <1>3, <1>5, <1>6, <1>7, <1>11, RecordsFresh
<1> QED BY <1>10, <1>12

(* A clear deletes the buffer of a thread that ended, once it is empty.     *)
LEMMA RecordsDelete ==
    ASSUME DecodeFacts, ListsInv, RecordsInv, NEW t \in Threads, ClearResume(t), tbuf[Head(todo[t])].retired
    PROVE  \A u \in Threads : RecordsAt(u)'
<1>0. PICK b : b = Head(todo[t])
  OBVIOUS
<1>1. /\ pc[t] = "cleared" /\ pc' = [pc EXCEPT ![t] = "clearnext"]
      /\ tbuf' = [tbuf EXCEPT ![b] = NoBuffer] /\ UNCHANGED <<rec, taken, saved>>
  BY <1>0 DEF ClearResume, Goto, hist
<1>2. /\ pc \in [Threads -> {"idle", "gone"} \cup ChunkPc \cup FlushPc \cup ClearPc]
      /\ tbuf \in [Threads -> Buffer] /\ taken \in Nat
  BY DEF ListsInv, TraceType
<1>3. b \in Threads
  BY <1>0, <1>1, Visited DEF ListsInv
<1>4. saved[b] = {} /\ \A u \in Threads : pc[u] \notin ChunkPc
  BY <1>0, <1>1 DEF RecordsInv, QuietInv, Clearing
<1>5. tbuf'[b] = NoBuffer /\ \A u \in Threads \ {b} : tbuf'[u] = tbuf[u]
  BY <1>1, <1>2, <1>3
<1>6. \A u \in Threads : pc'[u] \notin ChunkPc
  BY <1>1, <1>2, <1>4
<1>7. \A u \in Threads : RecordsAt(u)
  BY DEF RecordsInv
<1>8. taken' = taken /\ taken' \in Nat /\ taken <= taken'
  BY <1>1, <1>2
<1>9. \A u \in Threads \ {b} : RecordsAt(u)'
  BY <1>1, <1>2, <1>4, <1>5, <1>6, <1>7, <1>8, RecordsFrame
<1>10. RecordsAt(b)'
  <2>1. ~tbuf'[b].live /\ tbuf'[b].chunks = <<>> /\ Len(<<>>) = 0
    BY <1>5 DEF NoBuffer
  <2>2. RecAt(b)'
    BY <1>1, <1>3, <1>6, <1>7 DEF RecordsAt, RecAt
  <2>3. RoomAt(b)'
    BY <2>1 DEF RoomAt
  <2> QED BY <1>1, <1>4, <2>1, <2>2, <2>3 DEF RecordsAt, FrontAt, BufferAt
<1> QED BY <1>9, <1>10

(* Nothing is stored while a clear is under way.                            *)
LEMMA QuietStep ==
    ASSUME DecodeFacts, ListsInv, RecordsInv, policy # "flush", MayClear # "any", NEW t \in Threads,
           Request(t) \/ Work(t)
    PROVE  QuietInv'
<1> USE TraceAssumption
<1>1. /\ pc \in [Threads -> {"idle", "gone"} \cup ChunkPc \cup FlushPc \cup ClearPc]
      /\ todo \in [Threads -> Seq(Threads)] /\ back \in [Threads -> {"idle", "header"}]
      /\ saved \in [Threads -> SUBSET Nat]
  BY DEF ListsInv, TraceType
<1>2. QuietInv /\ \A u \in Threads : back[u] = "idle"
  BY DEF RecordsInv, QuietInv
<1>3. \A u \in Threads : back'[u] = "idle"
  <2>1. back' = back \/ back' = [back EXCEPT ![t] = "idle"]
    BY Zenon DEF Request, Work, Store, Flush, ClearStep, process_snapshot_cb, create_thread_cb,
       release_thread_cb, UserFlush, Clear, CheckStopped, Fits, handle_overflow, Header, Entry,
       Count, FlushLock, FlushStop, FlushRead, FlushResume, FlushDone, ClearLock, ClearStop,
       ClearReset, ClearResume, ClearDone
  <2> QED BY <1>1, <1>2, <2>1
<1>4. /\ \A u \in Threads \ {t} : pc'[u] = pc[u] /\ todo'[u] = todo[u]
      /\ \/ pc'[t] \notin ChunkPc \cup ClearPc
         \/ pc'[t] \in ClearPc /\ pc[t] \in ClearPc
         \/ pc'[t] \in ChunkPc /\ pc[t] \in ChunkPc
         \/ pc'[t] = "clear" /\ pc[t] = "idle" /\ Clear(t)
         \/ pc'[t] = "stopped?" /\ pc[t] = "idle" /\ ~(MayClear = "quiet" /\ Clearing)
  <2>1. CASE \/ \E n \in Sizes, is_signal \in BOOLEAN : process_snapshot_cb(t, n, is_signal)
             \/ create_thread_cb(t) \/ release_thread_cb(t)
    BY <1>1, <2>1, Zenon DEF process_snapshot_cb, create_thread_cb, release_thread_cb, Goto
  <2>2. CASE UserFlush(t) \/ Clear(t)
    BY <1>1, <2>2 DEF UserFlush, Clear, Goto
  <2>3. CASE Store(t)
    BY <1>1, <2>3 DEF Store, CheckStopped, Fits, handle_overflow, Header, Entry, Count, Goto
  <2>4. CASE Flush(t)
    BY <1>1, <1>2, <2>4 DEF Flush, FlushLock, FlushStop, FlushRead, FlushResume, FlushDone, Goto
  <2>5. CASE ClearStep(t)
    BY <1>1, <2>5 DEF ClearStep, ClearLock, ClearStop, ClearReset, ClearResume, ClearDone, Goto
  <2> QED BY <2>1, <2>2, <2>3, <2>4, <2>5, Zenon DEF Request, Work
<1>5. Clearing' => MayClear = "quiet" /\ \A u \in Threads : pc'[u] \notin ChunkPc
  <2> SUFFICES ASSUME Clearing' PROVE MayClear = "quiet" /\ \A u \in Threads : pc'[u] \notin ChunkPc
    OBVIOUS
  <2>1. CASE Clear(t) /\ pc'[t] = "clear" /\ pc[t] = "idle"
    <3>1. MayClear = "quiet" /\ \A u \in Threads \ {t} : ~Storing(u)
      BY <2>1 DEF Clear
    <3> QED BY <1>4, <2>1, <3>1 DEF Storing
  <2>2. CASE Clearing
    BY <1>2, <1>4, <2>2 DEF QuietInv
  <2>3. CASE ~Clearing
    <3>1. \A u \in Threads : pc[u] \notin ClearPc
      BY <2>3 DEF Clearing
    <3>2. pc'[t] \in ClearPc
      BY <1>4, <3>1 DEF Clearing
    <3> QED BY <1>4, <2>1, <3>1, <3>2
  <2> QED BY <2>2, <2>3
<1>6. \A u \in Threads : pc'[u] = "cleared" => saved'[Head(todo'[u])] = {}
  <2> SUFFICES ASSUME NEW u \in Threads, pc'[u] = "cleared" PROVE saved'[Head(todo'[u])] = {}
    OBVIOUS
  <2>1. CASE ClearReset(t)
    <3>1. /\ saved' = [saved EXCEPT ![Head(todo[t])] = {}] /\ todo' = todo /\ pc[t] = "reset"
      BY <2>1 DEF ClearReset
    <3>2. Head(todo[t]) \in Threads
      BY <3>1, Visited DEF ListsInv
    <3>3. CASE u = t
      BY <1>1, <3>1, <3>2, <3>3
    <3>4. CASE u # t
      BY <1>1, <1>2, <1>4, <3>1, <3>2, <3>4 DEF QuietInv
    <3> QED BY <3>3, <3>4
  <2>2. CASE ~ClearReset(t)
    <3>1. pc'[t] # "cleared"
      <4>1. CASE Store(t) \/ Flush(t)
        BY <1>1, <1>2, <4>1 DEF Store, CheckStopped, Fits, handle_overflow, Header, Entry, Count,
           Flush, FlushLock, FlushStop, FlushRead, FlushResume, FlushDone, Goto
      <4>2. CASE ClearStep(t)
        BY <1>1, <2>2, <4>2 DEF ClearStep, ClearLock, ClearStop, ClearResume, ClearDone, Goto
      <4>3. CASE Request(t)
        BY <1>1, <4>3, Zenon DEF Request, process_snapshot_cb, create_thread_cb, release_thread_cb,
           UserFlush, Clear, Goto
      <4> QED BY <4>1, <4>2, <4>3 DEF Work
    <3>2. u # t /\ pc[u] = "cleared" /\ todo'[u] = todo[u] /\ Clearing
      BY <1>4, <3>1 DEF Clearing
    <3>3. saved' = saved
      <4>1. pc[t] # "count"
        BY <1>2, <3>2 DEF QuietInv
      <4> QED BY <2>2, <4>1, Zenon DEF Request, Work, Store, Flush, ClearStep, process_snapshot_cb,
         create_thread_cb, release_thread_cb, UserFlush, Clear, CheckStopped, Fits,
         handle_overflow, Header, Entry, Count, FlushLock, FlushStop, FlushRead, FlushResume,
         FlushDone, ClearLock, ClearStop, ClearResume, ClearDone, hist
    <3> QED BY <1>2, <3>2, <3>3 DEF QuietInv
  <2> QED BY <2>1, <2>2
<1> QED BY <1>3, <1>5, <1>6 DEF QuietInv

(* A flush reads what was accepted.                                         *)
LEMMA ReadStep ==
    ASSUME DecodeFacts, ListsInv, RecordsInv, NEW t \in Threads, Request(t) \/ Work(t)
    PROVE  ReadInv'
<1>1. CASE FlushRead(t)
  <2> DEFINE b == Head(todo[t])
  <2>1. /\ pc[t] = "read"
        /\ read' = [want |-> saved[b], got |-> DecodeAll(tbuf[b].chunks)]
    BY <1>1 DEF FlushRead
  <2>2. b \in Threads /\ tbuf[b].live
    BY <2>1, Visited DEF ListsInv
  <2> HIDE DEF b
  <2>3. RecordsAt(b)
    BY <2>2 DEF RecordsInv
  <2>4. Rest(b) \in Seq(Nat) /\ Lists(Decode(Front(b)) \o Rest(b), saved[b])
    BY <2>2, <2>3 DEF RecordsAt, BufferAt
  <2>5. Decode(Front(b)) \in Seq(Nat)
    BY <2>2, <2>3, Zenon DEF RecordsAt, FrontAt, Laid
  <2>6. DecodeAll(tbuf[b].chunks) = Decode(Front(b)) \o Rest(b)
    BY <2>2, ReadsAll
  <2>7. Decode(Front(b)) \o Rest(b) \in Seq(Nat)
    BY <2>4, <2>5, SeqConcat
  <2>8. read'.want = saved[b] /\ read'.got = Decode(Front(b)) \o Rest(b)
    BY <2>1, <2>6
  <2> QED BY <2>4, <2>7, <2>8 DEF ReadInv
<1>2. CASE ~FlushRead(t)
  <2>1. read' = read
    BY <1>2, Zenon DEF Request, Work, Store, Flush, ClearStep, process_snapshot_cb, create_thread_cb,
       release_thread_cb, UserFlush, Clear, CheckStopped, Fits, handle_overflow, Header, Entry,
       Count, FlushLock, FlushStop, FlushResume, FlushDone, ClearLock, ClearStop,
       ClearReset, ClearResume, ClearDone
  <2> QED BY <2>1 DEF RecordsInv, ReadInv
<1> QED BY <1>1, <1>2

(* Initially no record was accepted.                                        *)
LEMMA RecordsInit == ASSUME Init PROVE RecordsInv
<1>1. QuietInv
  BY DEF Init, QuietInv, Clearing
<1>2. Lists(<<>>, {}) /\ <<>> \in Seq(Nat)
  BY DEF Lists, Distinct
<1>3. ReadInv
  BY <1>2 DEF Init, ReadInv
<1>4. ASSUME NEW t \in Threads PROVE RecordsAt(t)
  <2>1. ~tbuf[t].live /\ tbuf[t].chunks = <<>> /\ Len(<<>>) = 0
    BY DEF Init, NoBuffer
  <2> QED BY <2>1 DEF Init, RecordsAt, FrontAt, RoomAt, RecAt, BufferAt
<1> QED BY <1>1, <1>3, <1>4 DEF RecordsInv

(* Every step keeps the records.                                            *)
LEMMA RecordsStep ==
    ASSUME DecodeFacts, ListsInv, RecordsInv, "flush" \notin Policies, MayClear # "any", [Next]_vars
    PROVE  RecordsInv'
<1>1. policy # "flush"
  BY DEF ListsInv, TraceType
<1>2. ASSUME NEW t \in Threads, Request(t) \/ Work(t) PROVE RecordsInv'
  <2>1. QuietInv' /\ ReadInv'
    BY <1>1, <1>2, QuietStep, ReadStep
  <2>2. CASE \/ \E n \in Sizes, is_signal \in BOOLEAN : process_snapshot_cb(t, n, is_signal)
             \/ create_thread_cb(t)
    BY <2>1, <2>2, RecordsAcquire DEF RecordsInv
  <2>3. CASE \/ UserFlush(t) \/ Clear(t) \/ CheckStopped(t) \/ release_thread_cb(t)
             \/ FlushLock(t) \/ FlushRead(t) \/ FlushDone(t) \/ ClearLock(t) \/ ClearDone(t)
             \/ FlushStop(t) \/ ClearStop(t) \/ FlushResume(t)
    BY <2>1, <2>3, RecordsMove DEF RecordsInv
  <2>4. CASE Fits(t)
    BY <2>1, <2>4, RecordsFits DEF RecordsInv
  <2>5. CASE handle_overflow(t)
    BY <1>1, <2>1, <2>5, RecordsOverflow DEF RecordsInv
  <2>6. CASE Header(t)
    BY <2>1, <2>6, RecordsHeader DEF RecordsInv
  <2>7. CASE Entry(t)
    BY <2>1, <2>7, RecordsEntry DEF RecordsInv
  <2>8. CASE Count(t)
    BY <2>1, <2>8, RecordsCount DEF RecordsInv
  <2>9. CASE ClearReset(t)
    BY <2>1, <2>9, RecordsReset DEF RecordsInv
  <2>10. CASE ClearResume(t)
    BY <2>1, <2>10, RecordsMove, RecordsDelete DEF RecordsInv
  <2> QED BY <1>2, <2>2, <2>3, <2>4, <2>5, <2>6, <2>7, <2>8, <2>9, <2>10
          DEF Request, Work, Store, Flush, ClearStep
<1>3. CASE UNCHANGED vars
  <2>1. UNCHANGED <<tbuf, pc, rec, todo, back, taken, saved, read>>
    BY <1>3 DEF vars
  <2>2. QuietInv' /\ ReadInv'
    BY <2>1 DEF RecordsInv, QuietInv, ReadInv, Clearing
  <2>3. taken \in Nat /\ taken' \in Nat /\ taken <= taken'
    BY <2>1 DEF ListsInv, TraceType
  <2>4. \A u \in Threads : RecordsAt(u)
    BY DEF RecordsInv
  <2>5. \A u \in Threads : RecordsAt(u)'
    BY <2>1, <2>3, <2>4, RecordsFrame
  <2> QED BY <2>2, <2>5 DEF RecordsInv
<1> QED BY <1>2, <1>3 DEF Next

=============================================================================
