----------------------- MODULE CollectiveFlushProofs -----------------------
(***************************************************************************)
(* For every number of ranks and of flushes, rank 0 writes the data of      *)
(* every rank exactly once in every flush (OutputExact).                    *)
(*                                                                          *)
(* The argument counts messages.  A rank passes every power of two once in  *)
(* a flush, so its state alone says how often it has sent to, or received   *)
(* from, the rank at that distance; the messages between the two are the    *)
(* difference, in the order of the flushes.                                 *)
(***************************************************************************)
EXTENDS CollectiveFlush, TLAPS

(* The powers of two, as the least set with 1 that is closed under doubling.*)
Closed(S) == 1 \in S /\ \A x \in S : 2 * x \in S
Pow == {p \in Nat : \A S \in SUBSET Nat : Closed(S) => p \in S}

(* 1 is a power of two, doubling a power of two gives another, none is 0.   *)
(* steppow2 takes these values.                                             *)
LEMMA PowBasics ==
    /\ 1 \in Pow
    /\ \A p \in Pow : 2 * p \in Pow
    /\ \A p \in Pow : p \in Nat /\ p > 0
<1>1. 1 \in Pow
  BY DEF Pow, Closed
<1>2. ASSUME NEW p \in Pow PROVE 2 * p \in Pow
  <2>1. p \in Nat /\ 2 * p \in Nat
    BY DEF Pow
  <2>2. ASSUME NEW S \in SUBSET Nat, Closed(S) PROVE 2 * p \in S
    <3>1. p \in S
      BY <2>2 DEF Pow
    <3> QED BY <2>2, <3>1 DEF Closed
  <2> QED BY <2>1, <2>2 DEF Pow
<1>3. ASSUME NEW p \in Pow PROVE p \in Nat /\ p > 0
  <2> DEFINE S == Nat \ {0}
  <2>1. S \in SUBSET Nat /\ Closed(S)
    BY DEF Closed
  <2>2. p \in S
    BY <2>1 DEF Pow
  <2> QED BY <2>2
<1> QED BY <1>1, <1>2, <1>3

(* A power of two is 1 or twice a power of two.                             *)
LEMMA PowCases ==
    \A p \in Pow : p = 1 \/ \E y \in Pow : p = 2 * y
<1> SUFFICES ASSUME NEW p \in Pow PROVE p = 1 \/ \E y \in Pow : p = 2 * y
  OBVIOUS
<1> DEFINE S == {x \in Pow : x = 1 \/ \E y \in Pow : x = 2 * y}
<1>1. S \in SUBSET Nat
  BY PowBasics
<1>2. 1 \in S
  BY PowBasics
<1>3. ASSUME NEW x \in S PROVE 2 * x \in S
  BY PowBasics
<1>4. Closed(S)
  BY <1>2, <1>3 DEF Closed
<1>5. p \in S
  <2> HIDE DEF S
  <2> QED BY <1>1, <1>4 DEF Pow
<1> QED BY <1>5

(* There is no power of two between a power of two and its double: the loop *)
(* of aggregate_over_mpi() passes them all.                                 *)
LEMMA PowGap ==
    \A p, x \in Pow : x < 2 * p => x <= p
<1> SUFFICES ASSUME NEW p \in Pow PROVE \A x \in Pow : x < 2 * p => x <= p
  OBVIOUS
<1> DEFINE G(n) == \A x \in Pow : x < 2 * n => x <= n
           S == {n \in Nat : G(n)}
<1>1. 1 \in S
  BY PowBasics
<1>2. ASSUME NEW n \in S PROVE 2 * n \in S
  <2>1. n \in Nat /\ G(n)
    OBVIOUS
  <2>2. ASSUME NEW x \in Pow, x < 2 * (2 * n) PROVE x <= 2 * n
    <3>1. x \in Nat /\ x > 0
      BY PowBasics
    <3>2. CASE x = 1
      BY <2>1, <2>2, <3>2
    <3>3. CASE \E y \in Pow : x = 2 * y
      <4>1. PICK y \in Pow : x = 2 * y
        BY <3>3
      <4>2. y \in Nat
        BY PowBasics
      <4>3. y < 2 * n
        BY <2>1, <2>2, <4>1, <4>2
      <4>4. y <= n
        BY <2>1, <4>3
      <4> QED BY <2>1, <4>1, <4>2, <4>4
    <3> QED BY <3>2, <3>3, PowCases
  <2> QED BY <2>1, <2>2
<1>3. Closed(S) /\ S \in SUBSET Nat
  BY <1>1, <1>2 DEF Closed
<1>4. p \in S
  <2> HIDE DEF S
  <2> QED BY <1>3 DEF Pow
<1> QED BY <1>4

(* Multiplication distributes over subtraction.                             *)
LEMMA Distribute ==
    ASSUME NEW a \in Int, NEW b \in Int, NEW c \in Int
    PROVE  a * (b - c) = a * b - a * c
  OBVIOUS

(* A multiple of 2s is a multiple of s: a rank that has sent in a step of   *)
(* the loop takes no part in the later ones.                                *)
LEMMA Multiple ==
    ASSUME NEW r \in Nat, NEW s \in Nat, s > 0, r % (2 * s) = 0
    PROVE  r % s = 0
<1> DEFINE k == r \div (2 * s)
<1>1. k \in Nat /\ r = (2 * s) * k
  OBVIOUS
<1>2. r = s * (2 * k)
  BY <1>1
<1> DEFINE d == r \div s
           m == r % s
           j == 2 * k - d
<1>3. d \in Nat /\ m \in Nat /\ m < s /\ r = s * d + m
  OBVIOUS
<1>4. j \in Int
  BY <1>1, <1>3
<1>5. s * j = s * (2 * k) - s * d
  <2>1. 2 * k \in Int /\ d \in Int
    BY <1>1, <1>3
  <2> HIDE DEF k, d
  <2> QED BY <2>1, Distribute
<1>6. s * j = m
  BY <1>1, <1>2, <1>3, <1>5
<1>7. j >= 1 => s * j >= s
  BY <1>4
<1>8. j <= -1 => s * j <= -s
  BY <1>4
<1>9. j = 0
  <2> HIDE DEF j, m, d, k
  <2> QED BY <1>3, <1>4, <1>6, <1>7, <1>8
<1>10. s * j = 0
  BY <1>9
<1> QED BY <1>6, <1>10

(* 0 is a multiple of everything: rank 0 never sends.                       *)
LEMMA ZeroMod ==
    ASSUME NEW s \in Nat, s > 0
    PROVE  0 % s = 0
  OBVIOUS

-----------------------------------------------------------------------------
(* How often a rank in flush f at step s has passed the step g.             *)
Passed(f, s, g) == IF f = 0 THEN 0 ELSE IF s > g THEN f ELSE f - 1

(* Snapshot messages rank q has sent to d, and d has received from q, if    *)
(* they exchange messages at all.                                           *)
Sent(q, d) ==
    IF pc[q] = "sending" /\ tag[q] = 4 /\ steppow2[q] = q - d THEN flush[q]
    ELSE Passed(flush[q], steppow2[q], q - d)
Rcvd(d, q) == Passed(flush[d], steppow2[d], q - d)

Data == [Ranks -> Seq(Nat)]

TypeInv ==
    /\ commsize \in Nat \ {0}
    /\ pc \in [Ranks -> {"start", "loop", "recv", "send", "sending"}]
    /\ flush \in [Ranks -> Nat]
    /\ steppow2 \in [Ranks -> Pow]
    /\ tag \in [Ranks -> Tags]
    /\ aggr \in [Ranks -> Data]
    /\ chan \in [Ranks -> [Ranks -> [Tags -> Seq(Data)]]]
    /\ output \in Seq(Data)

(* What the place of a rank in the code says about its loop variable.       *)
LoopInv ==
    \A r \in Ranks :
        /\ pc[r] = "start" /\ flush[r] > 0 => steppow2[r] >= commsize
        /\ pc[r] # "start" => flush[r] > 0
        /\ pc[r] = "recv" => Receives(r, steppow2[r])
        /\ pc[r] \in {"send", "sending"} => Sends(r, steppow2[r])

(* The snapshot messages from q to d are those d has not received, in the   *)
(* order of the flushes.                                                    *)
ChanOK(q, d) ==
    IF Sends(q, q - d)
    THEN /\ Sent(q, d) = Rcvd(d, q) + Len(chan[q][d][4])
         /\ \A i \in 1 .. Len(chan[q][d][4]) :
                chan[q][d][4][i] = Subtree(q, q - d, Rcvd(d, q) + i)
    ELSE chan[q][d][4] = <<>>

ChanInv ==
    \A q, d \in Ranks : q - d \in Pow /\ Receives(d, q - d) => ChanOK(q, d)

OutputInv ==
    /\ OutputExact
    /\ Len(output) = IF pc[0] = "start" THEN flush[0] ELSE flush[0] - 1

IInv == TypeInv /\ LoopInv /\ SubtreeExact /\ ChanInv /\ OutputInv

(* A rank that goes from step s to 2s passes no step but s.                 *)
LEMMA PassedAdvance ==
    ASSUME NEW f \in Nat, NEW s \in Pow, NEW g \in Pow, g # s
    PROVE  Passed(f, 2 * s, g) = Passed(f, s, g)
<1>1. s \in Nat /\ g \in Nat /\ s > 0
  BY PowBasics
<1>2. g < 2 * s => g <= s
  BY PowGap
<1> QED BY <1>1, <1>2 DEF Passed

(* Passing step s is counted once.                                          *)
LEMMA PassedOnce ==
    ASSUME NEW f \in Nat, f > 0, NEW s \in Pow
    PROVE  Passed(f, 2 * s, s) = f /\ Passed(f, s, s) = f - 1
<1>1. s \in Nat /\ s > 0
  BY PowBasics
<1> QED BY <1>1 DEF Passed

(* Beginning the next flush passes nothing.                                 *)
LEMMA PassedStart ==
    ASSUME NEW f \in Nat, NEW s \in Pow, NEW g \in Pow, f > 0 => s > g
    PROVE  Passed(f + 1, 1, g) = Passed(f, s, g) /\ Passed(f + 1, 1, g) = f
<1>1. s \in Nat /\ g \in Nat /\ g > 0
  BY PowBasics
<1> QED BY <1>1 DEF Passed

(* The initial states satisfy the invariant.                                *)
LEMMA InitIInv == Init => IInv
<1> SUFFICES ASSUME Init PROVE IInv
  OBVIOUS
<1>1. TypeInv
  <2>1. NoData \in Data
    BY DEF NoData, Data
  <2>2. commsize \in Nat \ {0} /\ 1 \in Pow /\ 1 \in Tags
    BY PowBasics, CollectiveAssumption DEF Init, Tags
  <2>3. chan \in [Ranks -> [Ranks -> [Tags -> Seq(Data)]]] /\ output \in Seq(Data)
    BY DEF Init
  <2>4. aggr \in [Ranks -> Data]
    BY <2>1 DEF Init
  <2> QED BY <2>2, <2>3, <2>4 DEF Init, TypeInv
<1>2. LoopInv /\ SubtreeExact
  BY DEF Init, LoopInv, SubtreeExact
<1>3. ChanInv
  BY PowBasics DEF Init, ChanInv, ChanOK, Sent, Rcvd, Passed, Tags
<1>4. OutputInv
  <2>1. 0 \in Ranks
    BY <1>1 DEF TypeInv, Ranks
  <2> QED BY <2>1 DEF Init, OutputInv, OutputExact
<1> QED BY <1>1, <1>2, <1>3, <1>4 DEF IInv

(* ------------------------------------------------------------------------ *)
(* The ranks stay the same, and are numbers.                                *)
LEMMA SameRanks ==
    ASSUME TypeInv, commsize' = commsize
    PROVE  /\ Ranks' = Ranks /\ Data' = Data /\ 0 \in Ranks
           /\ commsize \in Nat /\ \A x \in Ranks : x \in Nat /\ x < commsize
<1>1. Ranks' = Ranks
  BY DEF Ranks
<1>2. Data' = Data
  BY <1>1 DEF Data
<1>3. commsize \in Nat \ {0}
  BY DEF TypeInv
<1> QED BY <1>1, <1>2, <1>3 DEF Ranks

(* collective_flush() preserves the invariant.                              *)
LEMMA StartStep ==
    ASSUME IInv, NEW r \in Ranks, collective_flush(r)
    PROVE  IInv'
<1>0. TypeInv /\ LoopInv /\ SubtreeExact /\ ChanInv /\ OutputInv
  BY DEF IInv
<1> DEFINE k == flush[r] + 1
<1>1. /\ pc[r] = "start" /\ k \in Nat /\ k > 0 /\ flush[r] \in Nat
      /\ commsize' = commsize /\ Ranks' = Ranks
      /\ r \in Nat /\ r < commsize /\ commsize \in Nat /\ Data' = Data /\ 0 \in Ranks
  <2>1. commsize' = commsize /\ pc[r] = "start" /\ flush[r] \in Nat
    BY <1>0 DEF collective_flush, TypeInv
  <2> QED BY <1>0, <2>1, SameRanks
<1>2. aggr'[r] = Subtree(r, 1, k) /\ aggr'[r] \in Data
  <2>1. aggr'[r] = [NoData EXCEPT ![r] = <<k>>]
    BY <1>0 DEF collective_flush, TypeInv
  <2>2. ASSUME NEW q \in Ranks
        PROVE  [NoData EXCEPT ![r] = <<k>>][q] = IF r <= q /\ q < r + 1 THEN <<k>> ELSE <<>>
    BY <1>1 DEF NoData, Ranks
  <2>3. [NoData EXCEPT ![r] = <<k>>] = Subtree(r, 1, k)
    BY <2>2 DEF NoData, Subtree
  <2>4. Subtree(r, 1, k) \in Data
    BY <1>1 DEF Subtree, Data
  <2> QED BY <2>1, <2>3, <2>4
<1>3. TypeInv'
  <2>1. aggr' \in [Ranks -> Data]
    BY <1>0, <1>2 DEF collective_flush, TypeInv
  <2>2. flush' \in [Ranks -> Nat] /\ steppow2' \in [Ranks -> Pow]
    BY <1>0, <1>1, PowBasics DEF collective_flush, TypeInv
  <2> QED BY <1>0, <1>1, <2>1, <2>2 DEF collective_flush, TypeInv
<1>4. LoopInv'
  BY <1>0, <1>1 DEF collective_flush, TypeInv, LoopInv, Receives, Sends
<1>5. SubtreeExact'
  <2> SUFFICES ASSUME NEW x \in Ranks, pc'[x] # "start", x % steppow2'[x] = 0
               PROVE  aggr'[x] = Subtree(x, steppow2'[x], flush'[x])
    BY <1>1 DEF SubtreeExact, Subtree
  <2>1. CASE x = r
    BY <1>0, <1>1, <1>2, <2>1 DEF collective_flush, TypeInv
  <2>2. CASE x # r
    BY <1>0, <2>2 DEF collective_flush, TypeInv, SubtreeExact
  <2> QED BY <2>1, <2>2
<1>6. ASSUME NEW g \in Pow, g < commsize
      PROVE  Passed(flush'[r], steppow2'[r], g) = Passed(flush[r], steppow2[r], g)
  <2>1. steppow2[r] \in Pow /\ (flush[r] > 0 => steppow2[r] >= commsize)
    BY <1>0, <1>1 DEF TypeInv, LoopInv
  <2>2. steppow2[r] \in Nat /\ g \in Nat
    BY <2>1, PowBasics
  <2>3. flush[r] > 0 => steppow2[r] > g
    BY <1>1, <1>6, <2>1, <2>2
  <2>4. flush'[r] = flush[r] + 1 /\ steppow2'[r] = 1
    BY <1>0 DEF collective_flush, TypeInv
  <2> QED BY <1>1, <2>1, <2>3, <2>4, PassedStart
<1>7. ChanInv'
  <2> SUFFICES ASSUME NEW q \in Ranks, NEW d \in Ranks, q - d \in Pow, Receives(d, q - d)
               PROVE  ChanOK(q, d)'
    BY <1>1 DEF ChanInv, Receives
  <2>1. ChanOK(q, d)
    BY <1>0 DEF ChanInv
  <2>2. q - d < commsize
    BY <1>1 DEF Ranks
  <2>3. Sent(q, d)' = Sent(q, d)
    BY <1>0, <1>1, <1>6, <2>2 DEF Sent, collective_flush, TypeInv
  <2>4. Rcvd(d, q)' = Rcvd(d, q)
    BY <1>0, <1>1, <1>6, <2>2 DEF Rcvd, collective_flush, TypeInv
  <2>5. chan' = chan
    BY DEF collective_flush
  <2> QED BY <1>1, <2>1, <2>3, <2>4, <2>5 DEF ChanOK, Sends, Subtree
<1>8. OutputInv'
  BY <1>0, <1>1 DEF collective_flush, TypeInv, OutputInv, OutputExact
<1> QED BY <1>3, <1>4, <1>5, <1>7, <1>8 DEF IInv

(* An iteration of the loop of aggregate_over_mpi() preserves the invariant.*)
LEMMA IterateStep ==
    ASSUME IInv, NEW r \in Ranks, Iterate(r)
    PROVE  IInv'
<1>0. TypeInv /\ LoopInv /\ SubtreeExact /\ ChanInv /\ OutputInv
  BY DEF IInv
<1> DEFINE s == steppow2[r]
           f == flush[r]
<1>1. /\ pc[r] = "loop" /\ f \in Nat /\ f > 0 /\ s \in Pow /\ s \in Nat /\ s > 0
      /\ r \in Nat /\ commsize \in Nat /\ Ranks' = Ranks /\ Data' = Data /\ 0 \in Ranks
      /\ commsize' = commsize /\ flush' = flush /\ aggr' = aggr /\ chan' = chan
      /\ output' = output
  <2>1. commsize' = commsize /\ pc[r] = "loop"
    BY DEF Iterate
  <2>2. f \in Nat /\ f > 0 /\ s \in Pow
    BY <1>0, <2>1 DEF TypeInv, LoopInv
  <2>3. s \in Nat /\ s > 0
    BY <2>2, PowBasics
  <2> QED BY <1>0, <2>1, <2>2, <2>3, SameRanks DEF Iterate
<1>2. 2 * s \in Pow
  BY <1>1, PowBasics
<1>3. \A x \in Ranks \ {r} : pc'[x] = pc[x] /\ steppow2'[x] = steppow2[x] /\ tag'[x] = tag[x]
  BY <1>0 DEF Iterate, TypeInv
<1>4. /\ pc'[r] = IF Receives(r, s) THEN "recv" ELSE IF Sends(r, s) THEN "send" ELSE "loop"
      /\ steppow2'[r] = IF Receives(r, s) \/ Sends(r, s) THEN s ELSE 2 * s
      /\ tag'[r] = 1
  BY <1>0 DEF Iterate, TypeInv
<1>5. TypeInv'
  <2>1. steppow2' \in [Ranks -> Pow]
    BY <1>0, <1>1, <1>2 DEF Iterate, TypeInv
  <2>2. tag' \in [Ranks -> Tags]
    BY <1>0 DEF Iterate, TypeInv, Tags
  <2>3. pc' \in [Ranks -> {"start", "loop", "recv", "send", "sending"}]
    BY <1>0 DEF Iterate, TypeInv
  <2> QED BY <1>0, <1>1, <2>1, <2>2, <2>3 DEF TypeInv
<1>6. LoopInv'
  <2> SUFFICES ASSUME NEW x \in Ranks
               PROVE  /\ pc'[x] = "start" /\ flush'[x] > 0 => steppow2'[x] >= commsize'
                      /\ pc'[x] # "start" => flush'[x] > 0
                      /\ pc'[x] = "recv" => Receives(x, steppow2'[x])
                      /\ pc'[x] \in {"send", "sending"} => Sends(x, steppow2'[x])
    BY <1>1 DEF LoopInv, Receives, Sends
  <2>1. CASE x = r
    BY <1>1, <1>4, <2>1
  <2>2. CASE x # r
    BY <1>0, <1>1, <1>3, <2>2 DEF LoopInv
  <2> QED BY <2>1, <2>2
<1>7. SubtreeExact'
  <2> SUFFICES ASSUME NEW x \in Ranks, pc'[x] # "start", x % steppow2'[x] = 0
               PROVE  aggr'[x] = Subtree(x, steppow2'[x], flush'[x])
    BY <1>1 DEF SubtreeExact, Subtree
  <2>1. CASE x # r
    BY <1>0, <1>1, <1>3, <2>1 DEF SubtreeExact
  <2>2. CASE x = r /\ (Receives(r, s) \/ Sends(r, s))
    BY <1>0, <1>1, <1>4, <2>2 DEF SubtreeExact
  <2>3. CASE x = r /\ ~Receives(r, s) /\ ~Sends(r, s)
    <3>1. steppow2'[r] = 2 * s /\ r % (2 * s) = 0
      BY <1>4, <2>3
    <3>2. r % s = 0
      BY <1>1, <3>1, Multiple
    <3>3. aggr[r] = Subtree(r, s, f)
      BY <1>0, <1>1, <3>2 DEF SubtreeExact
    <3>4. r + s >= commsize
      BY <1>1, <2>3, <3>1 DEF Receives
    <3>5. Subtree(r, s, f) = Subtree(r, 2 * s, f)
      BY <1>1, <3>4 DEF Subtree, Ranks
    <3> QED BY <1>1, <2>3, <3>1, <3>3, <3>5
  <2> QED BY <2>1, <2>2, <2>3
<1>8. ASSUME NEW g \in Pow, g = s => Receives(r, s) \/ Sends(r, s)
      PROVE  Passed(f, steppow2'[r], g) = Passed(f, s, g)
  BY <1>1, <1>4, <1>8, PassedAdvance
<1>9. ChanInv'
  <2> SUFFICES ASSUME NEW q \in Ranks, NEW d \in Ranks, q - d \in Pow, Receives(d, q - d)
               PROVE  ChanOK(q, d)'
    BY <1>1 DEF ChanInv, Receives
  <2>1. ChanOK(q, d)
    BY <1>0 DEF ChanInv
  <2>2. Sends(q, q - d) => Sent(q, d)' = Sent(q, d)
    BY <1>0, <1>1, <1>3, <1>4, <1>8 DEF Sent
  <2>3. Rcvd(d, q)' = Rcvd(d, q)
    BY <1>0, <1>1, <1>3, <1>8 DEF Rcvd
  <2> QED BY <1>1, <2>1, <2>2, <2>3 DEF ChanOK, Sends, Subtree
<1>10. OutputInv'
  BY <1>0, <1>1, <1>3, <1>4 DEF OutputInv, OutputExact
<1> QED BY <1>5, <1>6, <1>7, <1>9, <1>10 DEF IInv

(* MPI_Send() returns, buffered or not: the invariant is preserved.         *)
LEMMA SendReturns ==
    ASSUME IInv, NEW r \in Ranks, pc[r] = "sending", NextMessage(r, "send"),
           UNCHANGED <<commsize, flush, aggr, chan, output>>
    PROVE  IInv'
<1>0. TypeInv /\ LoopInv /\ SubtreeExact /\ ChanInv /\ OutputInv
  BY DEF IInv
<1> DEFINE s == steppow2[r]
           f == flush[r]
<1>1. /\ f \in Nat /\ f > 0 /\ s \in Pow /\ s \in Nat /\ s > 0 /\ tag[r] \in Tags
      /\ r \in Nat /\ commsize \in Nat /\ Ranks' = Ranks /\ Data' = Data /\ 0 \in Ranks
      /\ Sends(r, s)
  <2>1. f \in Nat /\ f > 0 /\ s \in Pow /\ tag[r] \in Tags /\ Sends(r, s)
    BY <1>0 DEF TypeInv, LoopInv
  <2>2. s \in Nat /\ s > 0
    BY <2>1, PowBasics
  <2> QED BY <1>0, <2>1, <2>2, SameRanks
<1>2. 2 * s \in Pow
  BY <1>1, PowBasics
<1>3. \A x \in Ranks \ {r} : pc'[x] = pc[x] /\ steppow2'[x] = steppow2[x] /\ tag'[x] = tag[x]
  BY <1>0 DEF NextMessage, TypeInv
<1>4. /\ pc'[r] = IF tag[r] < 4 THEN "send" ELSE "loop"
      /\ steppow2'[r] = IF tag[r] < 4 THEN s ELSE 2 * s
  BY <1>0 DEF NextMessage, TypeInv
<1>5. TypeInv'
  <2>1. steppow2' \in [Ranks -> Pow]
    BY <1>0, <1>1, <1>2 DEF NextMessage, TypeInv
  <2>2. tag' \in [Ranks -> Tags]
    <3>1. (IF tag[r] < 4 THEN tag[r] + 1 ELSE 1) \in Tags
      BY <1>1 DEF Tags
    <3> QED BY <1>0, <3>1 DEF NextMessage, TypeInv
  <2>3. pc' \in [Ranks -> {"start", "loop", "recv", "send", "sending"}]
    BY <1>0 DEF NextMessage, TypeInv
  <2> QED BY <1>0, <1>1, <2>1, <2>2, <2>3 DEF TypeInv
<1>6. LoopInv'
  <2> SUFFICES ASSUME NEW x \in Ranks
               PROVE  /\ pc'[x] = "start" /\ flush'[x] > 0 => steppow2'[x] >= commsize'
                      /\ pc'[x] # "start" => flush'[x] > 0
                      /\ pc'[x] = "recv" => Receives(x, steppow2'[x])
                      /\ pc'[x] \in {"send", "sending"} => Sends(x, steppow2'[x])
    BY <1>1 DEF LoopInv, Receives, Sends
  <2>1. CASE x = r
    BY <1>1, <1>4, <2>1
  <2>2. CASE x # r
    BY <1>0, <1>1, <1>3, <2>2 DEF LoopInv
  <2> QED BY <2>1, <2>2
<1>7. SubtreeExact'
  <2> SUFFICES ASSUME NEW x \in Ranks, pc'[x] # "start", x % steppow2'[x] = 0
               PROVE  aggr'[x] = Subtree(x, steppow2'[x], flush'[x])
    BY <1>1 DEF SubtreeExact, Subtree
  <2>1. CASE x # r
    BY <1>0, <1>3, <2>1 DEF SubtreeExact
  <2>2. CASE x = r
    <3>1. steppow2'[r] = s
      BY <1>1, <1>4, <2>2 DEF Sends
    <3> QED BY <1>0, <2>2, <3>1 DEF SubtreeExact
  <2> QED BY <2>1, <2>2
<1>8. ASSUME NEW g \in Pow, g # s \/ tag[r] < 4
      PROVE  Passed(f, steppow2'[r], g) = Passed(f, s, g)
  BY <1>1, <1>4, <1>8, PassedAdvance
<1>9. ChanInv'
  <2> SUFFICES ASSUME NEW q \in Ranks, NEW d \in Ranks, q - d \in Pow, Receives(d, q - d)
               PROVE  ChanOK(q, d)'
    BY <1>1 DEF ChanInv, Receives
  <2>1. ChanOK(q, d)
    BY <1>0 DEF ChanInv
  <2>2. Sent(q, d)' = Sent(q, d)
    <3>1. CASE q # r
      BY <1>3, <3>1 DEF Sent
    <3>2. CASE q = r /\ q - d = s /\ tag[r] = 4
      <4>1. Sent(q, d) = f
        BY <3>2 DEF Sent
      <4>2. Sent(q, d)' = Passed(f, 2 * s, s)
        BY <1>4, <3>2 DEF Sent
      <4> QED BY <1>1, <4>1, <4>2, PassedOnce
    <3>3. CASE q = r /\ (q - d # s \/ tag[r] # 4)
      <4>1. Sent(q, d) = Passed(f, s, q - d)
        BY <3>3 DEF Sent
      <4>2. Sent(q, d)' = Passed(f, steppow2'[r], q - d)
        BY <1>4, <3>3 DEF Sent
      <4>3. q - d # s \/ tag[r] < 4
        BY <1>1, <3>3 DEF Tags
      <4> QED BY <1>8, <4>1, <4>2, <4>3
    <3> QED BY <3>1, <3>2, <3>3
  <2>3. Rcvd(d, q)' = Rcvd(d, q)
    <3>1. CASE d # r
      BY <1>3, <3>1 DEF Rcvd
    <3>2. CASE d = r
      <4>1. q - d # s
        BY <1>1, <3>2 DEF Sends, Receives
      <4> QED BY <1>8, <3>2, <4>1 DEF Rcvd
    <3> QED BY <3>1, <3>2
  <2> QED BY <1>1, <2>1, <2>2, <2>3 DEF ChanOK, Sends, Subtree
<1>10. OutputInv'
  BY <1>0, <1>1, <1>3, <1>4 DEF OutputInv, OutputExact
<1> QED BY <1>5, <1>6, <1>7, <1>9, <1>10 DEF IInv

(* An update of one message queue changes that queue only.                  *)
LEMMA OneQueue ==
    ASSUME NEW R, NEW T, NEW V, NEW c \in [R -> [R -> [T -> V]]],
           NEW a \in R, NEW b, NEW t \in T, NEW v,
           NEW q \in R, NEW d \in R, NEW u \in T
    PROVE  [c EXCEPT ![a][b][t] = v][q][d][u] =
               IF q = a /\ d = b /\ u = t THEN v ELSE c[q][d][u]
<1>1. [c EXCEPT ![a][b][t] = v][q] = IF q = a THEN [c[a] EXCEPT ![b][t] = v] ELSE c[q]
  OBVIOUS
<1>2. c[a] \in [R -> [T -> V]] /\ c[a][d] \in [T -> V]
  OBVIOUS
<1>3. [c[a] EXCEPT ![b][t] = v][d] = IF d = b THEN [c[a][b] EXCEPT ![t] = v] ELSE c[a][d]
  BY <1>2
<1>4. d = b => [c[a][b] EXCEPT ![t] = v][u] = IF u = t THEN v ELSE c[a][b][u]
  BY <1>2
<1> QED BY <1>1, <1>3, <1>4

(* pack_and_send() preserves the invariant: the snapshots it sends are      *)
(* those of its subtree, in the flush it is in.                             *)
LEMMA SendStep ==
    ASSUME IInv, NEW r \in Ranks, pack_and_send(r)
    PROVE  IInv'
<1>0. TypeInv /\ LoopInv /\ SubtreeExact /\ ChanInv /\ OutputInv
  BY DEF IInv
<1> DEFINE s == steppow2[r]
           f == flush[r]
<1>1. /\ f \in Nat /\ f > 0 /\ s \in Pow /\ s \in Nat /\ s > 0 /\ tag[r] \in Tags
      /\ r \in Nat /\ commsize \in Nat /\ Ranks' = Ranks /\ Data' = Data /\ 0 \in Ranks
      /\ Sends(r, s) /\ pc[r] = "send" /\ aggr[r] \in Data
      /\ commsize' = commsize /\ flush' = flush /\ aggr' = aggr /\ steppow2' = steppow2
      /\ output' = output /\ tag' = tag
  <2>1. pc[r] = "send" /\ commsize' = commsize /\ flush' = flush /\ aggr' = aggr
        /\ steppow2' = steppow2 /\ output' = output /\ tag' = tag
    BY DEF pack_and_send
  <2>2. f \in Nat /\ f > 0 /\ s \in Pow /\ tag[r] \in Tags /\ Sends(r, s) /\ aggr[r] \in Data
    BY <1>0, <2>1 DEF TypeInv, LoopInv
  <2>3. s \in Nat /\ s > 0
    BY <2>2, PowBasics
  <2> QED BY <1>0, <2>1, <2>2, <2>3, SameRanks
<1>2. pc' = [pc EXCEPT ![r] = "sending"]
      /\ chan' = [chan EXCEPT ![r][r - s][tag[r]] = Append(@, aggr[r])]
  BY DEF pack_and_send
<1>3. aggr[r] = Subtree(r, s, f)
  BY <1>0, <1>1 DEF SubtreeExact, Sends
<1>4. TypeInv'
  <2>1. ASSUME NEW q \in Ranks, NEW d \in Ranks, NEW t \in Tags
        PROVE  Append(chan[q][d][t], aggr[r]) \in Seq(Data)
    <3>1. chan[q][d][t] \in Seq(Data)
      BY <1>0 DEF TypeInv
    <3> QED BY <1>1, <3>1
  <2>2. chan' \in [Ranks -> [Ranks -> [Tags -> Seq(Data)]]]
    <3> HIDE DEF s
    <3> QED BY <1>0, <1>1, <1>2, <2>1 DEF TypeInv
  <2>3. pc' \in [Ranks -> {"start", "loop", "recv", "send", "sending"}]
    BY <1>0, <1>2 DEF TypeInv
  <2> QED BY <1>0, <1>1, <2>2, <2>3 DEF TypeInv
<1>5. LoopInv'
  BY <1>0, <1>1, <1>2 DEF LoopInv, TypeInv, Receives, Sends
<1>6. SubtreeExact'
  <2> SUFFICES ASSUME NEW x \in Ranks, pc'[x] # "start", x % steppow2'[x] = 0
               PROVE  aggr'[x] = Subtree(x, steppow2'[x], flush'[x])
    BY <1>1 DEF SubtreeExact, Subtree
  <2>1. pc[x] # "start"
    BY <1>0, <1>1, <1>2 DEF TypeInv
  <2> QED BY <1>0, <1>1, <2>1 DEF SubtreeExact
<1>7. ASSUME NEW q \in Ranks, NEW d \in Ranks
      PROVE  chan'[q][d][4] = IF q = r /\ d = r - s /\ 4 = tag[r]
                                THEN Append(chan[r][r - s][tag[r]], aggr[r])
                                ELSE chan[q][d][4]
  <2>1. chan \in [Ranks -> [Ranks -> [Tags -> Seq(Data)]]] /\ 4 \in Tags
    BY <1>0 DEF TypeInv, Tags
  <2> DEFINE b == r - s
             v == Append(chan[r][b][tag[r]], aggr[r])
             V == Seq(Data)
  <2>2. chan' = [chan EXCEPT ![r][b][tag[r]] = v]
    BY <1>2
  <2>3. tag[r] \in Tags
    BY <1>1
  <2>4. chan'[q][d][4] = IF q = r /\ d = b /\ 4 = tag[r] THEN v ELSE chan[q][d][4]
    <3>1. chan \in [Ranks -> [Ranks -> [Tags -> V]]]
      BY <2>1
    <3>2. 4 \in Tags
      BY <2>1
    <3> HIDE DEF b, v, V
    <3>3. [chan EXCEPT ![r][b][tag[r]] = v][q][d][4] =
              IF q = r /\ d = b /\ 4 = tag[r] THEN v ELSE chan[q][d][4]
      BY <2>3, <3>1, <3>2, OneQueue
    <3> QED BY <2>2, <3>3
  <2> QED BY <2>4
<1>8. ChanInv'
  <2> SUFFICES ASSUME NEW q \in Ranks, NEW d \in Ranks, q - d \in Pow, Receives(d, q - d)
               PROVE  ChanOK(q, d)'
    BY <1>1 DEF ChanInv, Receives
  <2>1. ChanOK(q, d)
    BY <1>0 DEF ChanInv
  <2>2. Rcvd(d, q)' = Rcvd(d, q) /\ Rcvd(d, q) \in Int
    <3>1. flush[d] \in Nat
      BY <1>0 DEF TypeInv
    <3> QED BY <1>1, <3>1 DEF Rcvd, Passed
  <2>3. q \in Int /\ d \in Int
    BY DEF Ranks
  <2>4. CASE q = r /\ d = r - s /\ tag[r] = 4
    <3>1. q - d = s
      BY <1>1, <2>3, <2>4
    <3>2. Sent(q, d) = f - 1
      BY <1>1, <2>4, <3>1, PassedOnce DEF Sent
    <3>3. Sent(q, d)' = f
      <4>1. pc'[r] = "sending"
        BY <1>0, <1>2 DEF TypeInv
      <4> QED BY <1>1, <2>4, <3>1, <4>1 DEF Sent
    <3> DEFINE c == chan[q][d][4]
               n == Rcvd(d, q)
    <3>4. c \in Seq(Data)
      BY <1>0 DEF TypeInv, Tags
    <3>5. chan'[q][d][4] = Append(c, aggr[r])
      BY <1>7, <2>4
    <3>6. f - 1 = n + Len(c) /\ \A i \in 1 .. Len(c) : c[i] = Subtree(q, s, n + i)
      BY <1>1, <2>1, <2>4, <3>1, <3>2 DEF ChanOK
    <3>7. Len(c) \in Nat
      BY <3>4
    <3>8. f = n + (Len(c) + 1)
      <4>1. n \in Int
        BY <2>2
      <4> HIDE DEF n, c, f
      <4> QED BY <1>1, <3>6, <3>7, <4>1
    <3>9. \A i \in 1 .. Len(c) + 1 : Append(c, aggr[r])[i] = Subtree(q, s, n + i)
      <4> SUFFICES ASSUME NEW i \in 1 .. Len(c) + 1
                   PROVE  Append(c, aggr[r])[i] = Subtree(q, s, n + i)
        OBVIOUS
      <4> HIDE DEF n, c, s, f
      <4>1. CASE i = Len(c) + 1
        BY <1>3, <2>4, <3>4, <3>8, <4>1
      <4>2. CASE i \in 1 .. Len(c)
        BY <3>4, <3>6, <4>2
      <4> QED BY <3>7, <4>1, <4>2
    <3>10. Len(Append(c, aggr[r])) = Len(c) + 1
      BY <3>4
    <3>11. Sends(q, q - d)
      BY <1>1, <2>4, <3>1
    <3> HIDE DEF c, n, s, f
    <3>12. Rcvd(d, q)' = n
      BY <2>2 DEF n
    <3>13. Sent(q, d)' = n + Len(chan'[q][d][4])
      BY <3>3, <3>5, <3>8, <3>10
    <3>14. \A i \in 1 .. Len(chan'[q][d][4]) : chan'[q][d][4][i] = Subtree(q, q - d, n + i)
      BY <3>1, <3>5, <3>9, <3>10
    <3> QED BY <1>1, <3>11, <3>12, <3>13, <3>14 DEF ChanOK, Sends, Subtree
  <2>5. CASE ~(q = r /\ d = r - s /\ tag[r] = 4)
    <3>1. chan'[q][d][4] = chan[q][d][4]
      BY <1>7, <2>5
    <3>2. Sent(q, d)' = Sent(q, d)
      <4>1. CASE q # r
        <5>1. pc'[q] = pc[q]
          BY <1>0, <1>2, <4>1 DEF TypeInv
        <5> QED BY <1>1, <5>1 DEF Sent
      <4>2. CASE q = r
        <5>1. ~(tag[q] = 4 /\ steppow2[q] = q - d)
          BY <1>1, <2>3, <2>5, <4>2
        <5> QED BY <1>1, <5>1 DEF Sent
      <4> QED BY <4>1, <4>2
    <3> QED BY <1>1, <2>1, <2>2, <3>1, <3>2 DEF ChanOK, Sends, Subtree
  <2> QED BY <2>4, <2>5
<1>9. OutputInv'
  BY <1>0, <1>1, <1>2 DEF OutputInv, OutputExact, TypeInv
<1> QED BY <1>4, <1>5, <1>6, <1>8, <1>9 DEF IInv

(* Merging the subtrees of r and of its partner gives the one of twice the  *)
(* size.                                                                    *)
LEMMA MergeSubtrees ==
    ASSUME NEW r \in Nat, NEW s \in Nat, NEW k \in Nat, commsize \in Nat
    PROVE  Merge(Subtree(r, s, k), Subtree(r + s, s, k)) = Subtree(r, 2 * s, k)
<1>1. <<k>> \o <<>> = <<k>> /\ <<>> \o <<k>> = <<k>> /\ <<>> \o <<>> = <<>>
  <2>1. <<k>> \in Seq(Nat) /\ <<>> \in Seq(Nat)
    OBVIOUS
  <2> QED BY <2>1
<1>2. ASSUME NEW q \in Ranks
      PROVE  Subtree(r, s, k)[q] \o Subtree(r + s, s, k)[q] = Subtree(r, 2 * s, k)[q]
  <2>1. q \in Nat
    BY DEF Ranks
  <2>2. \A x \in Nat, n \in Nat :
            Subtree(x, n, k)[q] = IF x <= q /\ q < x + n THEN <<k>> ELSE <<>>
    BY DEF Subtree
  <2>3. r + s \in Nat /\ 2 * s \in Nat
    OBVIOUS
  <2>4. CASE r <= q /\ q < r + s
    <3>1. ~(r + s <= q) /\ q < r + 2 * s
      BY <2>1, <2>4
    <3>2. Subtree(r, s, k)[q] = <<k>> /\ Subtree(r + s, s, k)[q] = <<>>
          /\ Subtree(r, 2 * s, k)[q] = <<k>>
      BY <2>2, <2>3, <2>4, <3>1
    <3> QED BY <1>1, <3>2
  <2>5. CASE r + s <= q /\ q < r + 2 * s
    <3>1. ~(q < r + s) /\ r <= q /\ q < (r + s) + s
      BY <2>1, <2>5
    <3>2. Subtree(r, s, k)[q] = <<>> /\ Subtree(r + s, s, k)[q] = <<k>>
          /\ Subtree(r, 2 * s, k)[q] = <<k>>
      BY <2>2, <2>3, <2>5, <3>1
    <3> QED BY <1>1, <3>2
  <2>6. CASE q < r \/ q >= r + 2 * s
    <3>1. ~(r <= q /\ q < r + s) /\ ~(r + s <= q /\ q < (r + s) + s)
          /\ ~(r <= q /\ q < r + 2 * s)
      BY <2>1, <2>6
    <3>2. Subtree(r, s, k)[q] = <<>> /\ Subtree(r + s, s, k)[q] = <<>>
          /\ Subtree(r, 2 * s, k)[q] = <<>>
      BY <2>2, <2>3, <3>1
    <3> QED BY <1>1, <3>2
  <2>7. (r <= q /\ q < r + s) \/ (r + s <= q /\ q < r + 2 * s) \/ q < r \/ q >= r + 2 * s
    BY <2>1
  <2> QED BY <2>4, <2>5, <2>6, <2>7
<1> QED BY <1>2 DEF Merge, Subtree

(* receive_and_merge() preserves the invariant: the snapshots received are  *)
(* those of the partner's subtree, in the flush the receiver is in.         *)
LEMMA ReceiveStep ==
    ASSUME IInv, NEW r \in Ranks, receive_and_merge(r)
    PROVE  IInv'
<1>0. TypeInv /\ LoopInv /\ SubtreeExact /\ ChanInv /\ OutputInv
  BY DEF IInv
<1> DEFINE s == steppow2[r]
           f == flush[r]
           p == r + s
           c == chan[p][r][tag[r]]
<1>1. /\ f \in Nat /\ f > 0 /\ s \in Pow /\ s \in Nat /\ s > 0 /\ tag[r] \in Tags
      /\ r \in Nat /\ commsize \in Nat /\ Ranks' = Ranks /\ Data' = Data /\ 0 \in Ranks
      /\ Receives(r, s) /\ pc[r] = "recv" /\ aggr[r] \in Data /\ p \in Ranks
      /\ commsize' = commsize /\ flush' = flush /\ output' = output
  <2>1. pc[r] = "recv" /\ commsize' = commsize /\ flush' = flush /\ output' = output
    BY DEF receive_and_merge
  <2>2. f \in Nat /\ f > 0 /\ s \in Pow /\ tag[r] \in Tags /\ Receives(r, s) /\ aggr[r] \in Data
    BY <1>0, <2>1 DEF TypeInv, LoopInv
  <2>3. s \in Nat /\ s > 0
    BY <2>2, PowBasics
  <2>4. r \in Nat /\ commsize \in Nat
    BY <1>0, <2>1, SameRanks
  <2>5. p \in Ranks
    BY <2>2, <2>3, <2>4 DEF Receives, Ranks
  <2> QED BY <1>0, <2>1, <2>2, <2>3, <2>4, <2>5, SameRanks
<1>2. 2 * s \in Pow
  BY <1>1, PowBasics
<1>3. /\ c # <<>> /\ NextMessage(r, "recv")
      /\ chan' = [chan EXCEPT ![p][r][tag[r]] = Tail(c)]
      /\ aggr' = IF tag[r] = 4 THEN [aggr EXCEPT ![r] = Merge(aggr[r], Head(c))] ELSE aggr
  BY DEF receive_and_merge
<1>4. c \in Seq(Data) /\ Head(c) \in Data /\ Tail(c) \in Seq(Data)
  <2>1. c \in Seq(Data)
    BY <1>0, <1>1 DEF TypeInv
  <2> HIDE DEF c
  <2> QED BY <1>3, <2>1
<1>5. \A x \in Ranks \ {r} : pc'[x] = pc[x] /\ steppow2'[x] = steppow2[x] /\ tag'[x] = tag[x]
  BY <1>0, <1>3 DEF NextMessage, TypeInv
<1>6. /\ pc'[r] = IF tag[r] < 4 THEN "recv" ELSE "loop"
      /\ steppow2'[r] = IF tag[r] < 4 THEN s ELSE 2 * s
  BY <1>0, <1>3 DEF NextMessage, TypeInv
<1>7. Merge(aggr[r], Head(c)) \in Data
  <2>1. ASSUME NEW q \in Ranks PROVE aggr[r][q] \o Head(c)[q] \in Seq(Nat)
    <3>1. aggr[r][q] \in Seq(Nat)
      BY <1>1 DEF Data
    <3>2. Head(c)[q] \in Seq(Nat)
      <4> HIDE DEF c
      <4> QED BY <1>4 DEF Data
    <3> HIDE DEF c
    <3> QED BY <3>1, <3>2
  <2> HIDE DEF c
  <2> QED BY <2>1 DEF Merge, Data
<1>8. TypeInv'
  <2>1. steppow2' \in [Ranks -> Pow]
    BY <1>0, <1>1, <1>2, <1>3 DEF NextMessage, TypeInv
  <2>2. tag' \in [Ranks -> Tags]
    <3>1. (IF tag[r] < 4 THEN tag[r] + 1 ELSE 1) \in Tags
      BY <1>1 DEF Tags
    <3> QED BY <1>0, <1>3, <3>1 DEF NextMessage, TypeInv
  <2>3. pc' \in [Ranks -> {"start", "loop", "recv", "send", "sending"}]
    BY <1>0, <1>3 DEF NextMessage, TypeInv
  <2>4. aggr' \in [Ranks -> Data]
    <3> DEFINE m == Merge(aggr[r], Head(c))
    <3>1. aggr \in [Ranks -> Data] /\ m \in Data
      BY <1>0, <1>7 DEF TypeInv
    <3>2. aggr' = IF tag[r] = 4 THEN [aggr EXCEPT ![r] = m] ELSE aggr
      BY <1>3
    <3> HIDE DEF m
    <3> QED BY <3>1, <3>2
  <2>5. chan' \in [Ranks -> [Ranks -> [Tags -> Seq(Data)]]]
    <3> DEFINE v == Tail(c)
               V == Seq(Data)
    <3>1. chan \in [Ranks -> [Ranks -> [Tags -> V]]] /\ v \in V /\ p \in Ranks /\ tag[r] \in Tags
      BY <1>0, <1>1, <1>4 DEF TypeInv
    <3>2. chan' = [chan EXCEPT ![p][r][tag[r]] = v]
      BY <1>3
    <3>3. chan' \in [Ranks -> [Ranks -> [Tags -> V]]]
      <4> HIDE DEF v, V, p
      <4> QED BY <3>1, <3>2
    <3> QED BY <3>3
  <2> QED BY <1>0, <1>1, <2>1, <2>2, <2>3, <2>4, <2>5 DEF TypeInv
<1>9. LoopInv'
  <2> SUFFICES ASSUME NEW x \in Ranks
               PROVE  /\ pc'[x] = "start" /\ flush'[x] > 0 => steppow2'[x] >= commsize'
                      /\ pc'[x] # "start" => flush'[x] > 0
                      /\ pc'[x] = "recv" => Receives(x, steppow2'[x])
                      /\ pc'[x] \in {"send", "sending"} => Sends(x, steppow2'[x])
    BY <1>1 DEF LoopInv, Receives, Sends
  <2>1. CASE x = r
    BY <1>1, <1>6, <2>1
  <2>2. CASE x # r
    BY <1>0, <1>1, <1>5, <2>2 DEF LoopInv
  <2> QED BY <2>1, <2>2
<1>10. ASSUME tag[r] = 4
       PROVE  /\ Sends(p, s) /\ p - r = s /\ Rcvd(r, p) = f - 1
              /\ Sent(p, r) = f - 1 + Len(c)
              /\ \A i \in 1 .. Len(c) : c[i] = Subtree(p, s, f - 1 + i)
              /\ Head(c) = Subtree(p, s, f)
  <2>1. p - r = s
    BY <1>1
  <2>2. ChanOK(p, r)
    BY <1>0, <1>1, <2>1 DEF ChanInv
  <2>3. Rcvd(r, p) = f - 1
    BY <1>1, <2>1, PassedOnce DEF Rcvd
  <2>4. Sends(p, s)
    BY <1>3, <1>10, <2>1, <2>2 DEF ChanOK
  <2>5. Sent(p, r) = f - 1 + Len(c) /\ \A i \in 1 .. Len(c) : c[i] = Subtree(p, s, f - 1 + i)
    BY <1>10, <2>1, <2>2, <2>3, <2>4 DEF ChanOK
  <2>6. Head(c) = c[1] /\ 1 \in 1 .. Len(c)
    <3> HIDE DEF c
    <3> QED BY <1>3, <1>4
  <2>7. f - 1 + 1 = f
    BY <1>1
  <2>8. Head(c) = Subtree(p, s, f)
    <3> HIDE DEF c, f, p, s
    <3> QED BY <2>5, <2>6, <2>7
  <2> HIDE DEF c, f, p, s
  <2> QED BY <2>1, <2>3, <2>4, <2>5, <2>8
<1>11. SubtreeExact'
  <2> SUFFICES ASSUME NEW x \in Ranks, pc'[x] # "start", x % steppow2'[x] = 0
               PROVE  aggr'[x] = Subtree(x, steppow2'[x], flush'[x])
    BY <1>1 DEF SubtreeExact, Subtree
  <2>1. CASE x # r
    <3>1. aggr'[x] = aggr[x]
      BY <1>0, <1>3, <2>1 DEF TypeInv
    <3> QED BY <1>0, <1>1, <1>5, <2>1, <3>1 DEF SubtreeExact
  <2>2. CASE x = r /\ tag[r] # 4
    <3>1. aggr' = aggr /\ steppow2'[r] = s
      BY <1>1, <1>3, <1>6, <2>2 DEF Tags
    <3> QED BY <1>0, <1>1, <2>2, <3>1 DEF SubtreeExact
  <2>3. CASE x = r /\ tag[r] = 4
    <3>1. r % s = 0
      BY <1>1, Multiple DEF Receives
    <3>2. aggr[r] = Subtree(r, s, f)
      BY <1>0, <1>1, <3>1 DEF SubtreeExact
    <3>3. aggr'[r] = Merge(Subtree(r, s, f), Subtree(p, s, f))
      <4>1. aggr'[r] = Merge(aggr[r], Head(c))
        BY <1>0, <1>3, <2>3 DEF TypeInv
      <4> HIDE DEF c, p, s, f
      <4> QED BY <1>10, <2>3, <3>2, <4>1
    <3>4. aggr'[r] = Subtree(r, 2 * s, f)
      BY <1>1, <3>3, MergeSubtrees
    <3> QED BY <1>1, <1>6, <2>3, <3>4
  <2> QED BY <2>1, <2>2, <2>3
<1>12. ASSUME NEW q \in Ranks, NEW d \in Ranks
       PROVE  chan'[q][d][4] = IF q = p /\ d = r /\ 4 = tag[r] THEN Tail(c) ELSE chan[q][d][4]
  <2> DEFINE v == Tail(c)
             V == Seq(Data)
  <2>1. chan \in [Ranks -> [Ranks -> [Tags -> V]]] /\ p \in Ranks /\ tag[r] \in Tags /\ 4 \in Tags
    BY <1>0, <1>1 DEF TypeInv, Tags
  <2>2. chan' = [chan EXCEPT ![p][r][tag[r]] = v]
    BY <1>3
  <2>3. chan'[q][d][4] = IF q = p /\ d = r /\ 4 = tag[r] THEN v ELSE chan[q][d][4]
    <3> HIDE DEF v, V, p
    <3>1. [chan EXCEPT ![p][r][tag[r]] = v][q][d][4] =
              IF q = p /\ d = r /\ 4 = tag[r] THEN v ELSE chan[q][d][4]
      BY <2>1, OneQueue
    <3> QED BY <2>2, <3>1
  <2> QED BY <2>3
<1>13. ASSUME NEW g \in Pow, g # s \/ tag[r] # 4
       PROVE  Passed(f, steppow2'[r], g) = Passed(f, s, g)
  BY <1>1, <1>6, <1>13, PassedAdvance DEF Tags
<1>14. ChanInv'
  <2> SUFFICES ASSUME NEW q \in Ranks, NEW d \in Ranks, q - d \in Pow, Receives(d, q - d)
               PROVE  ChanOK(q, d)'
    BY <1>1 DEF ChanInv, Receives
  <2>1. ChanOK(q, d)
    BY <1>0 DEF ChanInv
  <2>2. q \in Int /\ d \in Int
    BY DEF Ranks
  <2>3. CASE q = p /\ d = r /\ tag[r] = 4
    <3>1. q # r
      BY <1>1, <2>3
    <3>2. Sent(q, d)' = Sent(q, d)
      BY <1>1, <1>5, <3>1 DEF Sent
    <3>3. Rcvd(d, q)' = f
      <4>1. q - d = s /\ steppow2'[r] = 2 * s
        BY <1>6, <1>10, <2>3
      <4>2. Rcvd(d, q)' = Passed(f, 2 * s, s)
        BY <1>1, <2>3, <4>1 DEF Rcvd
      <4> QED BY <1>1, <4>2, PassedOnce
    <3>4. chan'[q][d][4] = Tail(c)
      BY <1>1, <1>12, <2>3
    <3>5. /\ Len(c) \in Nat /\ Len(Tail(c)) = Len(c) - 1
          /\ \A i \in 1 .. Len(c) - 1 : Tail(c)[i] = c[i + 1] /\ i + 1 \in 1 .. Len(c)
      <4> HIDE DEF c
      <4> QED BY <1>3, <1>4
    <3>6. f \in Nat
      BY <1>1
    <3>7. Sent(q, d)' = f + Len(Tail(c))
      <4>1. Sent(q, d)' = f - 1 + Len(c)
        BY <1>10, <2>3, <3>2
      <4>2. \A n \in Nat, m \in Int : m = n - 1 => f - 1 + n = f + m
        <5> HIDE DEF f
        <5> QED BY <3>6
      <4>3. f - 1 + Len(c) = f + Len(Tail(c))
        <5> HIDE DEF c, f
        <5> QED BY <3>5, <4>2
      <4> QED BY <4>1, <4>3
    <3>8. \A i \in 1 .. Len(Tail(c)) : Tail(c)[i] = Subtree(p, s, f + i)
      <4> HIDE DEF c, f, p, s
      <4> SUFFICES ASSUME NEW i \in 1 .. Len(c) - 1 PROVE Tail(c)[i] = Subtree(p, s, f + i)
        BY <3>5
      <4>1. f - 1 + (i + 1) = f + i
        BY <3>5, <3>6
      <4>2. c[i + 1] = Subtree(p, s, f - 1 + (i + 1))
        BY <1>10, <2>3, <3>5
      <4> QED BY <3>5, <4>1, <4>2
    <3>9. Sends(q, q - d) /\ q - d = s
      BY <1>10, <2>3
    <3>10. \A i \in 1 .. Len(Tail(c)) : Tail(c)[i] = Subtree(q, q - d, f + i)
      <4> HIDE DEF c, f, p, s
      <4> QED BY <2>3, <3>8, <3>9
    <3> HIDE DEF c, f, p, s
    <3> QED BY <1>1, <3>3, <3>4, <3>7, <3>9, <3>10 DEF ChanOK, Sends, Subtree
  <2>4. CASE ~(q = p /\ d = r /\ tag[r] = 4)
    <3>1. chan'[q][d][4] = chan[q][d][4]
      BY <1>12, <2>4
    <3>2. Sends(q, q - d) => Sent(q, d)' = Sent(q, d)
      <4>1. CASE q # r
        BY <1>1, <1>5, <4>1 DEF Sent
      <4>2. CASE q = r
        <5>1. Sends(q, q - d) => q - d # s
          BY <1>1, <4>2 DEF Sends, Receives
        <5>2. pc[r] # "sending" /\ pc'[r] # "sending"
          BY <1>1, <1>6
        <5> QED BY <1>1, <1>13, <4>2, <5>1, <5>2 DEF Sent
      <4> QED BY <4>1, <4>2
    <3>3. Rcvd(d, q)' = Rcvd(d, q)
      <4>1. CASE d # r
        BY <1>1, <1>5, <4>1 DEF Rcvd
      <4>2. CASE d = r
        <5>1. q - d # s \/ tag[r] # 4
          BY <1>1, <2>2, <2>4, <4>2
        <5> QED BY <1>1, <1>13, <4>2, <5>1 DEF Rcvd
      <4> QED BY <4>1, <4>2
    <3> QED BY <1>1, <2>1, <3>1, <3>2, <3>3 DEF ChanOK, Sends, Subtree
  <2> QED BY <2>3, <2>4
<1>15. OutputInv'
  BY <1>0, <1>1, <1>5, <1>6 DEF OutputInv, OutputExact
<1> QED BY <1>8, <1>9, <1>11, <1>14, <1>15 DEF IInv

(* The end of a flush preserves the invariant: what rank 0 writes is the    *)
(* subtree of all ranks.                                                    *)
LEMMA FinishStep ==
    ASSUME IInv, NEW r \in Ranks, Finish(r)
    PROVE  IInv'
<1>0. TypeInv /\ LoopInv /\ SubtreeExact /\ ChanInv /\ OutputInv
  BY DEF IInv
<1> DEFINE s == steppow2[r]
           f == flush[r]
<1>1. /\ f \in Nat /\ f > 0 /\ s \in Nat /\ s > 0 /\ s >= commsize /\ pc[r] = "loop"
      /\ r \in Nat /\ commsize \in Nat /\ Ranks' = Ranks /\ Data' = Data /\ 0 \in Ranks
      /\ commsize' = commsize /\ flush' = flush /\ steppow2' = steppow2 /\ tag' = tag
      /\ chan' = chan /\ pc' = [pc EXCEPT ![r] = "start"]
      /\ aggr' = [aggr EXCEPT ![r] = NoData]
      /\ output' = IF r = 0 THEN Append(output, aggr[r]) ELSE output
  <2>1. /\ pc[r] = "loop" /\ s >= commsize /\ commsize' = commsize /\ flush' = flush
        /\ steppow2' = steppow2 /\ tag' = tag /\ chan' = chan
        /\ pc' = [pc EXCEPT ![r] = "start"] /\ aggr' = [aggr EXCEPT ![r] = NoData]
        /\ output' = IF r = 0 THEN Append(output, aggr[r]) ELSE output
    BY DEF Finish
  <2>2. f \in Nat /\ f > 0 /\ s \in Pow
    BY <1>0, <2>1 DEF TypeInv, LoopInv
  <2>3. s \in Nat /\ s > 0
    BY <2>2, PowBasics
  <2> QED BY <1>0, <2>1, <2>2, <2>3, SameRanks
<1>2. TypeInv'
  <2>1. NoData \in Data
    BY DEF NoData, Data
  <2>2. aggr' \in [Ranks -> Data]
    BY <1>0, <1>1, <2>1 DEF TypeInv
  <2>3. output' \in Seq(Data)
    BY <1>0, <1>1 DEF TypeInv
  <2>4. pc' \in [Ranks -> {"start", "loop", "recv", "send", "sending"}]
    BY <1>0, <1>1 DEF TypeInv
  <2> QED BY <1>0, <1>1, <2>2, <2>3, <2>4 DEF TypeInv
<1>3. LoopInv'
  BY <1>0, <1>1 DEF LoopInv, TypeInv, Receives, Sends
<1>4. SubtreeExact'
  <2> SUFFICES ASSUME NEW x \in Ranks, pc'[x] # "start", x % steppow2'[x] = 0
               PROVE  aggr'[x] = Subtree(x, steppow2'[x], flush'[x])
    BY <1>1 DEF SubtreeExact, Subtree
  <2>1. x # r /\ pc[x] # "start" /\ aggr'[x] = aggr[x]
    BY <1>0, <1>1 DEF TypeInv
  <2> QED BY <1>0, <1>1, <2>1 DEF SubtreeExact
<1>5. ChanInv'
  <2> SUFFICES ASSUME NEW q \in Ranks, NEW d \in Ranks, q - d \in Pow, Receives(d, q - d)
               PROVE  ChanOK(q, d)'
    BY <1>1 DEF ChanInv, Receives
  <2>1. ChanOK(q, d)
    BY <1>0 DEF ChanInv
  <2>2. Sent(q, d)' = Sent(q, d)
    <3>1. pc'[q] = "sending" <=> pc[q] = "sending"
      BY <1>0, <1>1 DEF TypeInv
    <3> QED BY <1>1, <3>1 DEF Sent
  <2>3. Rcvd(d, q)' = Rcvd(d, q)
    BY <1>1 DEF Rcvd
  <2> QED BY <1>1, <2>1, <2>2, <2>3 DEF ChanOK, Sends, Subtree
<1>6. OutputInv'
  <2>1. CASE r # 0
    <3>1. output' = output /\ pc'[0] = pc[0]
      BY <1>0, <1>1, <2>1 DEF TypeInv
    <3> QED BY <1>0, <1>1, <3>1 DEF OutputInv, OutputExact
  <2>2. CASE r = 0
    <3>1. aggr[r] = Subtree(r, s, f)
      <4>1. r % s = 0
        BY <1>1, <2>2, ZeroMod
      <4> QED BY <1>0, <1>1, <4>1 DEF SubtreeExact
    <3>2. Subtree(0, s, f) = [q \in Ranks |-> <<f>>]
      BY <1>1 DEF Subtree, Ranks
    <3>3. output \in Seq(Data) /\ Len(output) = f - 1
      BY <1>0, <1>1, <2>2 DEF TypeInv, OutputInv
    <3>4. output' = Append(output, [q \in Ranks |-> <<f>>])
      BY <1>1, <2>2, <3>1, <3>2
    <3>5. Len(output') = f /\ DOMAIN output' = 1 .. f
      <4> HIDE DEF f
      <4> QED BY <1>1, <3>3, <3>4
    <3>6. ASSUME NEW k \in 1 .. f PROVE output'[k] = [q \in Ranks |-> <<k>>]
      <4>1. CASE k = f
        BY <1>1, <3>3, <3>4, <4>1
      <4>2. CASE k \in 1 .. f - 1
        <5>1. output'[k] = output[k] /\ k \in DOMAIN output
          BY <1>1, <3>3, <3>4, <4>2
        <5> QED BY <1>0, <5>1 DEF OutputInv, OutputExact
      <4>3. f \in Nat
        BY <1>1
      <4>4. k = f \/ k \in 1 .. f - 1
        <5> HIDE DEF f
        <5> QED BY <4>3
      <4> QED BY <4>1, <4>2, <4>4
    <3>7. pc'[0] = "start"
      BY <1>0, <1>1, <2>2 DEF TypeInv
    <3> QED BY <1>1, <2>2, <3>5, <3>6, <3>7 DEF OutputInv, OutputExact
  <2> QED BY <2>1, <2>2
<1> QED BY <1>2, <1>3, <1>4, <1>5, <1>6 DEF IInv

(* Stuttering preserves the invariant.                                      *)
LEMMA StutterStep ==
    ASSUME IInv, UNCHANGED vars
    PROVE  IInv'
<1>0. TypeInv /\ LoopInv /\ SubtreeExact /\ ChanInv /\ OutputInv
  BY DEF IInv
<1>1. /\ commsize' = commsize /\ pc' = pc /\ flush' = flush /\ steppow2' = steppow2
      /\ tag' = tag /\ aggr' = aggr /\ chan' = chan /\ output' = output
  BY DEF vars
<1>2. Ranks' = Ranks /\ Data' = Data
  BY <1>0, <1>1, SameRanks
<1>3. TypeInv' /\ LoopInv' /\ OutputInv'
  BY <1>0, <1>1, <1>2 DEF TypeInv, LoopInv, Receives, Sends, OutputInv, OutputExact
<1>4. SubtreeExact'
  BY <1>0, <1>1, <1>2 DEF SubtreeExact, Subtree
<1>5. ChanInv'
  BY <1>0, <1>1, <1>2 DEF ChanInv, ChanOK, Receives, Sends, Sent, Rcvd, Subtree
<1> QED BY <1>3, <1>4, <1>5 DEF IInv

(* Every step of every rank preserves the invariant.                        *)
LEMMA NextIInv == IInv /\ [Next]_vars => IInv'
<1> SUFFICES ASSUME IInv, [Next]_vars PROVE IInv'
  OBVIOUS
<1>1. CASE UNCHANGED vars
  BY <1>1, StutterStep
<1>2. ASSUME NEW r \in Ranks, Work(r) \/ SendBuffered(r) PROVE IInv'
  <2>1. CASE collective_flush(r)
    BY <2>1, StartStep
  <2>2. CASE Iterate(r)
    BY <2>2, IterateStep
  <2>3. CASE pack_and_send(r)
    BY <2>3, SendStep
  <2>4. CASE SendMatched(r) \/ SendBuffered(r)
    BY <2>4, SendReturns DEF SendMatched, SendBuffered
  <2>5. CASE receive_and_merge(r)
    BY <2>5, ReceiveStep
  <2>6. CASE Finish(r)
    BY <2>6, FinishStep
  <2> QED BY <1>2, <2>1, <2>2, <2>3, <2>4, <2>5, <2>6 DEF Work
<1> QED BY <1>1, <1>2 DEF Next

(* For every number of ranks and of collective flushes, what rank 0 writes  *)
(* at the end of collective_flush() has the data of every rank exactly      *)
(* once, and none of another flush.                                         *)
THEOREM CollectiveOutputExact == Spec => []OutputExact
<1>1. IInv => OutputExact
  BY DEF IInv, OutputInv
<1> QED BY InitIInv, NextIInv, <1>1, PTL DEF Spec

(* In each step of aggregate_over_mpi() a rank that has not sent holds      *)
(* exactly its subtree.                                                     *)
THEOREM CollectiveSubtreeExact == Spec => []SubtreeExact
<1>1. IInv => SubtreeExact
  BY DEF IInv
<1> QED BY InitIInv, NextIInv, <1>1, PTL DEF Spec
=============================================================================
