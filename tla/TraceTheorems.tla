--------------------------- MODULE TraceTheorems ---------------------------
(***************************************************************************)
(* The theorems about the trace service: the list of buffers is complete,   *)
(* and a flush reads exactly what was stored.  The invariants are those of  *)
(* TraceProofs and TraceRecordProofs; here are the facts that need          *)
(* induction, on what Decode and DecodeAll compute.                         *)
(***************************************************************************)
EXTENDS TraceRecordProofs, FunctionTheorems, SequenceTheorems, FiniteSetTheorems

-----------------------------------------------------------------------------
(* Induction over the natural numbers, for sets                             *)

(* The order of the natural numbers as a relation.                          *)
Less == {ss \in Nat \X Nat : ss[1] < ss[2]}

(* Every nonempty set of natural numbers has a least element.               *)
LEMMA LeastNat ==
    ASSUME NEW T, T \subseteq Nat, T # {}
    PROVE  \E x \in T : \A y \in T : x <= y
<1>1. OpToRel(<, Nat) = Less
  BY Zenon DEF OpToRel, Less
<1>2. IsWellFoundedOn(Less, Nat)
  BY NatLessThanWellFounded, <1>1, Zenon
<1>3. PICK x \in T : \A y \in T : ~ (<<y, x>> \in Less)
  BY <1>2, WFMin, Zenon
<1>4. ASSUME NEW y \in Nat, y < x, x \in Nat PROVE <<y, x>> \in Less
  <2>1. <<y, x>> \in Nat \X Nat
    BY <1>4
  <2>2. <<y, x>>[1] = y /\ <<y, x>>[2] = x
    OBVIOUS
  <2> QED BY <1>4, <2>1, <2>2, Zenon DEF Less
<1>5. \A y \in T : ~(y < x)
  BY <1>3, <1>4, Zenon
<1> QED BY <1>5

(* A set with 0 and the successors of its numbers has them all.             *)
LEMMA NatSetInduction ==
    ASSUME NEW S, 0 \in S, \A n \in Nat : n \in S => n + 1 \in S
    PROVE  Nat \subseteq S
<1> SUFFICES ASSUME Nat \ S # {} PROVE FALSE
  OBVIOUS
<1>1. PICK x \in Nat \ S : \A y \in Nat \ S : x <= y
  BY LeastNat, Zenon
<1> QED BY <1>1, x - 1 \in Nat \/ x = 0

-----------------------------------------------------------------------------
(* Reading a chunk back                                                     *)

(* flush() finds the records of a chunk one after the other.                *)
LEMMA DecodeChunk ==
    ASSUME NEW c \in Chunk, NEW ids, NEW st, NEW sz,
           Laid(c, ids, st, sz), c.m_pos <= 2 * buffersize, buffersize \in Nat
    PROVE  Decode(c) = ids
<1> DEFINE n == c.m_nrec
           Step(g) == [r \in 0 .. n |->
                         IF r = 0 THEN [p |-> 0, out |-> <<>>]
                         ELSE LET a == g[r - 1] IN
                              [p |-> a.p + 1 + c.m_data[a.p][3],
                               out |-> Append(a.out, RecordAt(c.m_data, a.p))]]
           f == [r \in 0 .. n |-> [p |-> st[r], out |-> SubSeq(ids, 1, r)]]
<1>1. n \in Nat /\ c.m_pos \in Nat
  BY DEF Chunk
<1>2. /\ ids \in Seq(Nat) /\ Len(ids) = n
      /\ st \in [0 .. n -> Nat] /\ st[0] = 0 /\ sz \in [1 .. n -> Nat]
  BY Zenon DEF Laid
<1>3. ASSUME NEW r \in 1 .. n
      PROVE  /\ st[r] = st[r - 1] + 1 + sz[r] /\ st[r] <= c.m_pos
             /\ c.m_data[st[r - 1]] = <<"header", ids[r], sz[r]>>
             /\ \A k \in 1 .. sz[r] : c.m_data[st[r - 1] + k] = <<"entry", ids[r], k>>
  BY Zenon DEF Laid
<1>4. ASSUME NEW r \in 1 .. n
      PROVE  /\ RecordAt(c.m_data, st[r - 1]) = ids[r]
             /\ st[r] = st[r - 1] + 1 + c.m_data[st[r - 1]][3]
  <2> DEFINE h == c.m_data[st[r - 1]]
  <2>1. st[r - 1] \in Nat /\ sz[r] \in Nat /\ st[r - 1] + 1 + sz[r] <= 2 * buffersize
    <3>1. st[r] = st[r - 1] + 1 + sz[r] /\ st[r] <= c.m_pos
      BY <1>3, Zenon
    <3>2. r - 1 \in 0 .. n
      BY <1>1
    <3>3. st[r - 1] \in Nat /\ sz[r] \in Nat
      BY <1>2, <3>2
    <3> QED BY <1>1, <3>1, <3>3
  <2>2. h = <<"header", ids[r], sz[r]>>
    BY <1>3, Zenon
  <2>3. h[1] = "header" /\ h[2] = ids[r] /\ h[3] = sz[r]
    BY <2>2
  <2>4. \A k \in 1 .. sz[r] : st[r - 1] + k \in Cells
    BY <2>1 DEF Cells
  <2> HIDE DEF h
  <2>5. \A k \in 1 .. h[3] : st[r - 1] + k \in Cells /\ c.m_data[st[r - 1] + k] = <<"entry", h[2], k>>
    BY <2>3, <2>4, <1>3, Zenon
  <2>6. RecordAt(c.m_data, st[r - 1]) = h[2]
    BY <2>3, <2>5, Zenon DEF RecordAt, h
  <2> QED BY <2>3, <2>6, <1>3, Zenon DEF h
<1>5. ASSUME NEW r \in 1 .. n
      PROVE  SubSeq(ids, 1, r) = Append(SubSeq(ids, 1, r - 1), ids[r])
  BY <1>1, <1>2
<1>6. f = Step(f)
  <2> SUFFICES ASSUME NEW r \in 0 .. n PROVE f[r] = Step(f)[r]
    BY Zenon
  <2>1. CASE r = 0
    BY <2>1, <1>2
  <2>2. CASE r # 0
    <3>1. r \in 1 .. n /\ r - 1 \in 0 .. n
      BY <2>2, <1>1
    <3>2. f[r - 1] = [p |-> st[r - 1], out |-> SubSeq(ids, 1, r - 1)]
      BY <3>1
    <3> QED BY <2>2, <3>1, <3>2, <1>4, <1>5, Zenon
  <2> QED BY <2>1, <2>2
<1>7. ASSUME NEW g, g = Step(g) PROVE g = f
  <2> DEFINE Wrong == {r \in 0 .. n : g[r] # f[r]}
  <2>1. ASSUME NEW r \in Wrong, \A y \in Wrong : r <= y PROVE FALSE
    <3>1. r \in 0 .. n /\ g[r] # f[r]
      OBVIOUS
    <3>2. g[r] = Step(g)[r] /\ f[r] = Step(f)[r]
      BY <1>6, <1>7, Zenon
    <3> HIDE DEF f
    <3>3. r # 0
      BY <3>1, <3>2, Zenon
    <3>4. r - 1 \in 0 .. n /\ r - 1 \notin Wrong
      <4> HIDE DEF Wrong
      <4> QED BY <3>1, <3>3, <1>1, <2>1
    <3>5. g[r - 1] = f[r - 1]
      BY <3>4
    <3> QED BY <3>1, <3>2, <3>3, <3>5, Zenon
  <2>2. Wrong \subseteq Nat
    BY <1>1
  <2>3. Wrong = {}
    <3> HIDE DEF Wrong
    <3> QED BY <2>1, <2>2, LeastNat, Zenon
  <2>4. DOMAIN g = 0 .. n /\ g = [r \in 0 .. n |-> g[r]]
    BY <1>7
  <2> QED BY <2>3, <2>4, Zenon
<1>8. (CHOOSE g : g = Step(g)) = f
  BY <1>6, <1>7, Zenon
<1>9. Decode(c) = (CHOOSE g : g = Step(g))[n].out
  BY Zenon DEF Decode
<1>10. f[n].out = SubSeq(ids, 1, Len(ids))
  <2>1. n \in 0 .. n
    BY <1>1
  <2>2. f[n] = [p |-> st[n], out |-> SubSeq(ids, 1, n)]
    BY <2>1, Zenon
  <2> QED BY <2>2, <1>2
<1>11. SubSeq(ids, 1, Len(ids)) = ids
  BY <1>2, SubSeqFull
<1> QED BY <1>8, <1>9, <1>10, <1>11, Zenon

-----------------------------------------------------------------------------
(* Reading the chunks of a buffer                                           *)

(* f holds, for every i, what the chunks from the i-th on hold.             *)
Suffixes(chunks, f) ==
    f = [i \in 1 .. Len(chunks) + 1 |->
            IF i > Len(chunks) THEN <<>> ELSE Decode(chunks[i]) \o f[i + 1]]

(* At most one function gives the records of all suffixes.                  *)
LEMMA SuffixesUnique ==
    ASSUME NEW cs \in Seq(Chunk), NEW f, NEW g, Suffixes(cs, f), Suffixes(cs, g)
    PROVE  f = g
<1> DEFINE n == Len(cs)
           Wrong == {j \in 0 .. n : f[n + 1 - j] # g[n + 1 - j]}
<1>1. n \in Nat
  OBVIOUS
<1>2. ASSUME NEW i \in 1 .. n + 1
      PROVE  /\ f[i] = IF i > n THEN <<>> ELSE Decode(cs[i]) \o f[i + 1]
             /\ g[i] = IF i > n THEN <<>> ELSE Decode(cs[i]) \o g[i + 1]
  BY Zenon DEF Suffixes
<1>3. ASSUME NEW j \in Wrong, \A y \in Wrong : j <= y PROVE FALSE
  <2>1. j \in 0 .. n /\ n + 1 - j \in 1 .. n + 1 /\ f[n + 1 - j] # g[n + 1 - j]
    BY <1>1
  <2>2. CASE j = 0
    <3>1. f[n + 1] = g[n + 1]
      BY <1>1, <1>2
    <3> QED BY <2>1, <2>2, <3>1, <1>1
  <2>3. CASE j # 0
    <3>1. j - 1 \in 0 .. n /\ j - 1 \notin Wrong
      <4> HIDE DEF Wrong
      <4> QED BY <2>1, <2>3, <1>1, <1>3
    <3>2. f[n + 1 - (j - 1)] = g[n + 1 - (j - 1)]
      BY <3>1
    <3>3. n + 1 - (j - 1) = (n + 1 - j) + 1 /\ ~(n + 1 - j > n)
      BY <2>1, <2>3, <1>1
    <3>4. f[(n + 1 - j) + 1] = g[(n + 1 - j) + 1]
      BY <3>2, <3>3
    <3> HIDE DEF n
    <3>5. f[n + 1 - j] = g[n + 1 - j]
      BY <3>3, <3>4, <2>1, <1>2
    <3> QED BY <2>1, <3>5
  <2> QED BY <2>2, <2>3
<1>4. Wrong \subseteq Nat
  OBVIOUS
<1>5. Wrong = {}
  <2> HIDE DEF Wrong
  <2> QED BY <1>3, <1>4, LeastNat, Zenon
<1>6. ASSUME NEW i \in 1 .. n + 1 PROVE f[i] = g[i]
  <2>1. n + 1 - i \in 0 .. n /\ n + 1 - (n + 1 - i) = i
    BY <1>1
  <2>2. n + 1 - i \notin Wrong
    BY <1>5, Zenon
  <2> QED BY <2>1, <2>2
<1>7. /\ f = [i \in 1 .. n + 1 |-> f[i]]
      /\ g = [i \in 1 .. n + 1 |-> g[i]]
  BY DEF Suffixes
<1> QED BY <1>6, <1>7

(* There is one for every list of chunks, by induction on its length.       *)
LEMMA SuffixesExist ==
    \A cs \in Seq(Chunk) : \E f : Suffixes(cs, f)
<1> DEFINE Good == {n \in Nat : \A cs \in Seq(Chunk) : Len(cs) = n => \E f : Suffixes(cs, f)}
<1>1. 0 \in Good
  <2> SUFFICES ASSUME NEW cs \in Seq(Chunk), Len(cs) = 0 PROVE \E e : Suffixes(cs, e)
    OBVIOUS
  <2>1. Suffixes(cs, [i \in 1 .. 1 |-> <<>>])
    BY DEF Suffixes
  <2> QED BY <2>1
<1>2. ASSUME NEW n \in Nat, n \in Good PROVE n + 1 \in Good
  <2> SUFFICES ASSUME NEW cs \in Seq(Chunk), Len(cs) = n + 1 PROVE \E e : Suffixes(cs, e)
    OBVIOUS
  <2>1. /\ Tail(cs) \in Seq(Chunk) /\ Len(Tail(cs)) = n
        /\ \A i \in 1 .. n : Tail(cs)[i] = cs[i + 1]
    OBVIOUS
  <2>2. PICK g : Suffixes(Tail(cs), g)
    BY <1>2, <2>1, Zenon
  <2> DEFINE f == [i \in 1 .. n + 2 |-> IF i = 1 THEN Decode(cs[1]) \o g[1] ELSE g[i - 1]]
  <2>3. ASSUME NEW i \in 1 .. n + 1
        PROVE  g[i] = IF i > n THEN <<>> ELSE Decode(cs[i + 1]) \o g[i + 1]
    <3>1. g[i] = IF i > n THEN <<>> ELSE Decode(Tail(cs)[i]) \o g[i + 1]
      BY <2>1, <2>2, Zenon DEF Suffixes
    <3>2. ~(i > n) => Tail(cs)[i] = cs[i + 1]
      BY <2>1
    <3> QED BY <3>1, <3>2, Zenon
  <2>4. ASSUME NEW i \in 1 .. n + 2
        PROVE  f[i] = IF i > n + 1 THEN <<>> ELSE Decode(cs[i]) \o f[i + 1]
    <3>1. CASE i = 1
      <4>0. 1 \in 1 .. n + 2 /\ 2 \in 1 .. n + 2 /\ 2 # 1 /\ 2 - 1 = 1 /\ 1 + 1 = 2 /\ ~(1 > n + 1)
        OBVIOUS
      <4>1. f[1] = Decode(cs[1]) \o g[1] /\ f[2] = g[1]
        <5>1. f[1] = Decode(cs[1]) \o g[1]
          BY <4>0, Zenon
        <5>2. f[2] = g[2 - 1]
          BY <4>0, Zenon
        <5> QED BY <4>0, <5>1, <5>2, Zenon
      <4> HIDE DEF f
      <4> QED BY <3>1, <4>0, <4>1, Zenon
    <3>2. CASE i # 1
      <4>1. i - 1 \in 1 .. n + 1 /\ (i - 1) + 1 = i
        BY <3>2
      <4>2. f[i] = IF i - 1 > n THEN <<>> ELSE Decode(cs[i]) \o g[i]
        BY <4>1, <2>3
      <4>3. ~(i - 1 > n) => f[i + 1] = g[i]
        BY <4>1
      <4> HIDE DEF f
      <4> QED BY <4>1, <4>2, <4>3
    <3> QED BY <3>1, <3>2
  <2>5. Suffixes(cs, f)
    <3>1. f = [i \in 1 .. n + 2 |-> f[i]]
      OBVIOUS
    <3> HIDE DEF f
    <3>2. f = [i \in 1 .. n + 2 |-> IF i > n + 1 THEN <<>> ELSE Decode(cs[i]) \o f[i + 1]]
      BY <2>4, <3>1, Zenon
    <3>3. Len(cs) + 1 = n + 2
      OBVIOUS
    <3> QED BY <3>2, <3>3, Zenon DEF Suffixes
  <2> QED BY <2>5
<1>3. Nat \subseteq Good
  <2> HIDE DEF Good
  <2> QED BY <1>1, <1>2, NatSetInduction
<1> QED BY <1>3

(* flush() reads the first chunk, then the others.                          *)
LEMMA DecodeAllEmpty == DecodeAll(<<>>) = <<>>
<1> DEFINE f == CHOOSE g : Suffixes(<<>>, g)
<1>1. Suffixes(<<>>, f)
  <2>1. <<>> \in Seq(Chunk)
    OBVIOUS
  <2> QED BY <2>1, SuffixesExist, Zenon
<1>2. DecodeAll(<<>>) = f[1]
  BY Zenon DEF DecodeAll, Suffixes
<1> HIDE DEF f
<1> QED BY <1>1, <1>2 DEF Suffixes

(* flush() reads the first chunk, then the chunks behind it.                *)
LEMMA DecodeAllFirst ==
    ASSUME NEW cs \in Seq(Chunk), cs # <<>>
    PROVE  DecodeAll(cs) = Decode(cs[1]) \o DecodeAll(Tail(cs))
<1> DEFINE n == Len(cs)
           f == CHOOSE e : Suffixes(cs, e)
           h == CHOOSE e : Suffixes(Tail(cs), e)
           g == [i \in 1 .. n |-> f[i + 1]]
<1>1. /\ n \in Nat \ {0} /\ Tail(cs) \in Seq(Chunk) /\ Len(Tail(cs)) = n - 1
      /\ \A i \in 1 .. n - 1 : Tail(cs)[i] = cs[i + 1]
  OBVIOUS
<1>2. Suffixes(cs, f)
  BY SuffixesExist
<1>3. Suffixes(Tail(cs), h)
  BY <1>1, SuffixesExist, Zenon
<1>4. DecodeAll(cs) = f[1] /\ DecodeAll(Tail(cs)) = h[1]
  BY Zenon DEF DecodeAll, Suffixes
<1> HIDE DEF f, h
<1>5. ASSUME NEW i \in 1 .. n + 1
      PROVE  f[i] = IF i > n THEN <<>> ELSE Decode(cs[i]) \o f[i + 1]
  BY <1>2, Zenon DEF Suffixes
<1>6. Suffixes(Tail(cs), g)
  <2>1. ASSUME NEW i \in 1 .. n
        PROVE  g[i] = IF i > n - 1 THEN <<>> ELSE Decode(Tail(cs)[i]) \o g[i + 1]
    <3>1. i + 1 \in 1 .. n + 1 /\ (i + 1 > n <=> i > n - 1)
      BY <1>1
    <3>2. g[i] = f[i + 1]
      OBVIOUS
    <3>3. f[i + 1] = IF i + 1 > n THEN <<>> ELSE Decode(cs[i + 1]) \o f[i + 1 + 1]
      BY <1>5, <3>1, Zenon
    <3>4. ASSUME ~(i > n - 1) PROVE Tail(cs)[i] = cs[i + 1] /\ g[i + 1] = f[i + 1 + 1]
      BY <1>1, <3>4
    <3> HIDE DEF g, n
    <3> QED BY <3>1, <3>2, <3>3, <3>4, Zenon
  <2>2. g = [i \in 1 .. n |-> g[i]]
    OBVIOUS
  <2>3. Len(Tail(cs)) = n - 1 /\ Len(Tail(cs)) + 1 = n
    BY <1>1
  <2> HIDE DEF g, n
  <2> QED BY <2>1, <2>2, <2>3, Zenon DEF Suffixes
<1>7. h = g
  BY <1>1, <1>3, <1>6, SuffixesUnique, Zenon
<1>8. f[1] = Decode(cs[1]) \o f[2] /\ g[1] = f[2]
  <2>1. 1 \in 1 .. n + 1 /\ 1 \in 1 .. n /\ ~(1 > n) /\ 1 + 1 = 2
    BY <1>1
  <2>2. f[1] = Decode(cs[1]) \o f[1 + 1]
    BY <2>1, <1>5, Zenon
  <2>3. g[1] = f[1 + 1]
    BY <2>1, Zenon
  <2> QED BY <2>1, <2>2, <2>3, Zenon
<1> QED BY <1>4, <1>7, <1>8, Zenon

(* What the records of the buffers rest on.                                 *)
LEMMA DecodeFactsHold == DecodeFacts
<1>1. \A c \in Chunk : \A ids, st, sz :
         Laid(c, ids, st, sz) /\ c.m_pos <= 2 * buffersize => Decode(c) = ids
  BY DecodeChunk, TraceAssumption
<1> QED BY <1>1, DecodeAllEmpty, DecodeAllFirst, Zenon DEF DecodeFacts

-----------------------------------------------------------------------------
(* The theorems                                                             *)

(* A sequence without repetitions is as long as its range is large.         *)
LEMMA DistinctCounts ==
    ASSUME NEW S, NEW s \in Seq(S), Distinct(s)
    PROVE  Cardinality({s[i] : i \in 1 .. Len(s)}) = Len(s)
<1> DEFINE R == {s[i] : i \in 1 .. Len(s)}
<1>1. Len(s) \in Nat /\ s \in [1 .. Len(s) -> R]
  OBVIOUS
<1>2. s \in Bijection(1 .. Len(s), R)
  <2>1. \A a, b \in 1 .. Len(s) : s[a] = s[b] => a = b
    BY DEF Distinct
  <2>2. \A y \in R : \E a \in 1 .. Len(s) : s[a] = y
    OBVIOUS
  <2> HIDE DEF R
  <2> QED BY <1>1, <2>1, <2>2, Fun_IsBij
<1>3. ExistsBijection(1 .. Len(s), R)
  BY <1>2 DEF ExistsBijection
<1> QED BY <1>1, <1>3, FS_CountingElements

(* The list links exactly the buffers that exist, each once: acquire_tbuf   *)
(* and clear_cb keep it complete with every policy, with any number of      *)
(* threads, and however flushes, clears and thread exits interleave.        *)
THEOREM ListIsComplete == Spec => []ListComplete
<1>1. ListsInv => ListComplete
  <2> SUFFICES ASSUME ListsInv PROVE ListComplete
    OBVIOUS
  <2>1. tbuf_list \in Seq(Threads) /\ Distinct(tbuf_list)
    BY DEF ListsInv, TraceType, ListInv
  <2>2. Cardinality({tbuf_list[i] : i \in 1 .. Len(tbuf_list)}) = Len(tbuf_list)
    BY <2>1, DistinctCounts
  <2> QED BY <2>2, Zenon DEF ListsInv, ListInv, ListComplete, Has
<1> QED BY ListsInit, ListsStep, <1>1, PTL DEF Spec

(* A flush reads exactly the records that the buffer accepted since it was  *)
(* cleared, each once and intact, and every record is stored where it fits, *)
(* for any number of threads, chunk size and record sizes.  The flush       *)
(* policy stores where there is no room, and a clear that runs while        *)
(* another thread stores takes the chunk away from it; both are excluded.   *)
THEOREM FlushIsExact ==
    ASSUME "flush" \notin Policies, MayClear # "any"
    PROVE  Spec => []FlushExact
<1>1. RecordsInv => FlushExact
  <2> SUFFICES ASSUME RecordsInv PROVE FlushExact
    OBVIOUS
  <2>1. RoomMade
    BY DEF RecordsInv, RecordsAt, RoomAt, RoomMade
  <2>2. read.got \in Seq(Nat) /\ Distinct(read.got)
        /\ {read.got[i] : i \in 1 .. Len(read.got)} = read.want
    BY DEF RecordsInv, ReadInv, Lists
  <2>3. Cardinality({read.got[i] : i \in 1 .. Len(read.got)}) = Len(read.got)
    BY <2>2, DistinctCounts
  <2> QED BY <2>1, <2>2, <2>3, Zenon DEF FlushExact
<1>2. ListsInv /\ RecordsInv /\ [Next]_vars => ListsInv' /\ RecordsInv'
  BY DecodeFactsHold, ListsStep, RecordsStep
<1>3. Init => ListsInv /\ RecordsInv
  BY ListsInit, RecordsInit
<1> QED BY <1>1, <1>2, <1>3, PTL DEF Spec

=============================================================================
