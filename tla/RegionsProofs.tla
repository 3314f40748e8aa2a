--------------------------- MODULE RegionsProofs ---------------------------
(***************************************************************************)
(* The annotation core of Regions for any threads, channels, attributes,   *)
(* values and nesting depth.                                               *)
(*                                                                         *)
(* First, what Keep, the history operators and Entry::get do to a path,    *)
(* by induction over paths.  Then the invariant RegionsInv: a blackboard   *)
(* on which no calls overlapped has at most one call in progress, what it  *)
(* has read is still in the slot, and slot and history have the same       *)
(* stack of each attribute.  Last, the nesting of region attributes and    *)
(* the stack errors.                                                       *)
(***************************************************************************)
EXTENDS Regions, NaturalsInduction, WellFoundedInduction, TLAPS

(* The order of the natural numbers as a relation.                          *)
Less == {ss \in Nat \X Nat : ss[1] < ss[2]}

(* Every nonempty set of natural numbers has a least element.               *)
LEMMA LeastNat ==
    ASSUME NEW T, T \subseteq Nat, T # {}
    PROVE  \E x \in T : \A y \in T : x <= y
<1>1. OpToRel(<, Nat) = Less
  BY Zenon DEF OpToRel, Less
<1>2. IsWellFoundedOn(Less, Nat)
  BY NatLessThanWellFounded, <1>1, Zenon
<1>3. PICK x \in T : \A y \in T : ~ (<<y, x>> \in Less)
  BY <1>2, WFMin, Zenon
<1>4. ASSUME NEW y \in Nat, y < x, x \in Nat PROVE <<y, x>> \in Less
  <2>1. <<y, x>> \in Nat \X Nat
    BY <1>4
  <2>2. <<y, x>>[1] = y /\ <<y, x>>[2] = x
    OBVIOUS
  <2> QED BY <1>4, <2>1, <2>2, Zenon DEF Less
<1>5. \A y \in T : ~(y < x)
  BY <1>3, <1>4, Zenon
<1> QED BY <1>5

(* A set with 0 and the successors of its numbers has them all.             *)
LEMMA NatSetInduction ==
    ASSUME NEW S, 0 \in S, \A n \in Nat : n \in S => n + 1 \in S
    PROVE  Nat \subseteq S
<1> SUFFICES ASSUME Nat \ S # {} PROVE FALSE
  OBVIOUS
<1>1. PICK x \in Nat \ S : \A y \in Nat \ S : x <= y
  BY LeastNat, Zenon
<1> QED BY <1>1, x - 1 \in Nat \/ x = 0

-----------------------------------------------------------------------------
(* What Keep computes                                                       *)

(* The nodes of a path.                                                     *)
Note == Attrs \X Values

(* The n-th node of a path is of an attribute in A.                         *)
IsOf(path, n, A) == path[n][1] \in A

(* One unfolding of the function in Keep.                                   *)
Kept(path, A, f) ==
    [n \in 0 .. Len(path) |->
        IF n = 0 THEN <<>>
        ELSE IF path[n][1] \in A THEN Append(f[n - 1], path[n]) ELSE f[n - 1]]

(* f is a solution of the recursive equation.                               *)
Solves(path, A, f) == f = Kept(path, A, f)

(* The unfolding at one place.                                              *)
LEMMA KeptAt ==
    ASSUME NEW p \in Seq(Note), NEW A, NEW f, Solves(p, A, f)
    PROVE  /\ f[0] = <<>> /\ DOMAIN f = 0 .. Len(p)
           /\ \A n \in 1 .. Len(p) :
                 f[n] = IF IsOf(p, n, A) THEN Append(f[n - 1], p[n]) ELSE f[n - 1]
<1>0. Len(p) \in Nat
  OBVIOUS
<1>1. DOMAIN f = 0 .. Len(p)
  BY Zenon DEF Kept, Solves
<1>2. \A n \in 0 .. Len(p) : f[n] = Kept(p, A, f)[n]
  BY Zenon DEF Solves
<1>3. 0 \in 0 .. Len(p)
  BY <1>0
<1>4. f[0] = <<>>
  BY <1>2, <1>3, Zenon DEF Kept
<1>5. \A n \in 1 .. Len(p) : n \in 0 .. Len(p) /\ n # 0
  BY <1>0
<1>6. \A n \in 1 .. Len(p) :
         f[n] = IF IsOf(p, n, A) THEN Append(f[n - 1], p[n]) ELSE f[n - 1]
  BY <1>2, <1>5, Zenon DEF Kept, IsOf
<1> QED BY <1>1, <1>4, <1>6, Zenon

(* A function with these values is a solution.                              *)
LEMMA KeptIs ==
    ASSUME NEW p \in Seq(Note), NEW A, NEW f,
           f = [n \in 0 .. Len(p) |-> f[n]], f[0] = <<>>,
           \A n \in 1 .. Len(p) :
              f[n] = IF IsOf(p, n, A) THEN Append(f[n - 1], p[n]) ELSE f[n - 1]
    PROVE  Solves(p, A, f)
<1>0. Len(p) \in Nat
  OBVIOUS
<1>1. ASSUME NEW n \in 0 .. Len(p) PROVE f[n] = Kept(p, A, f)[n]
  <2>1. CASE n = 0
    BY <2>1, Zenon DEF Kept
  <2>2. CASE n # 0
    <3>1. n \in 1 .. Len(p)
      BY <2>2, <1>0
    <3> QED BY <3>1, <2>2, Zenon DEF Kept, IsOf
  <2> QED BY <2>1, <2>2
<1>2. Kept(p, A, f) = [n \in 0 .. Len(p) |-> Kept(p, A, f)[n]]
  BY Zenon DEF Kept
<1> QED BY <1>1, <1>2, Zenon DEF Solves

(* q begins with p.                                                         *)
Begins(p, q) == Len(p) <= Len(q) /\ \A n \in 1 .. Len(p) : p[n] = q[n]

(* There is at most one solution on each prefix.                            *)
LEMMA KeptSame ==
    ASSUME NEW p \in Seq(Note), NEW q \in Seq(Note), NEW A, NEW f, NEW g,
           Solves(p, A, f), Solves(q, A, g), Begins(p, q)
    PROVE  f[Len(p)] = g[Len(p)]
<1>0. Len(p) \in Nat /\ Len(q) \in Nat /\ Len(p) <= Len(q)
  BY DEF Begins
<1> DEFINE m == Len(p)
           Wrong == {n \in 0 .. m : f[n] # g[n]}
<1>1. /\ f[0] = <<>>
      /\ \A n \in 1 .. Len(p) :
            f[n] = IF IsOf(p, n, A) THEN Append(f[n - 1], p[n]) ELSE f[n - 1]
  BY KeptAt, Zenon
<1>2. /\ g[0] = <<>>
      /\ \A n \in 1 .. Len(q) :
            g[n] = IF IsOf(q, n, A) THEN Append(g[n - 1], q[n]) ELSE g[n - 1]
  BY KeptAt, Zenon
<1>3. ASSUME NEW n \in Wrong, \A y \in Wrong : n <= y PROVE FALSE
  <2>1. n \in 0 .. m /\ f[n] # g[n]
    OBVIOUS
  <2>2. n # 0
    BY <1>1, <1>2, <2>1, Zenon
  <2> HIDE DEF Wrong
  <2>3. n \in 1 .. m /\ n \in 1 .. Len(p) /\ n \in 1 .. Len(q) /\ n - 1 \in 0 .. m /\ n - 1 \notin Wrong
    BY <1>0, <2>1, <2>2, <1>3
  <2>4. f[n - 1] = g[n - 1]
    BY <2>3, Zenon DEF Wrong
  <2>5. p[n] = q[n] /\ (IsOf(p, n, A) <=> IsOf(q, n, A))
    BY <2>3, Zenon DEF IsOf, Begins
  <2> QED BY <1>1, <1>2, <2>1, <2>3, <2>4, <2>5, Zenon
<1>4. Wrong \subseteq Nat /\ m \in 0 .. m
  BY <1>0
<1>5. Wrong = {}
  <2> HIDE DEF Wrong
  <2> QED BY <1>3, <1>4, LeastNat, Zenon
<1> QED BY <1>4, <1>5, Zenon

(* The solution for a path gives the one for a longer path.                 *)
LEMMA KeptLonger ==
    ASSUME NEW p \in Seq(Note), NEW e \in Note, NEW A, NEW f, Solves(p, A, f)
    PROVE  \E g : Solves(Append(p, e), A, g)
<1> DEFINE N == Len(p)
           q == Append(p, e)
           g == [n \in 0 .. N + 1 |->
                   IF n <= N THEN f[n]
                   ELSE IF IsOf(q, N + 1, A) THEN Append(f[N], e) ELSE f[N]]
<1>1. /\ q \in Seq(Note) /\ Len(q) = N + 1 /\ N \in Nat /\ q[N + 1] = e
      /\ \A n \in 1 .. N : q[n] = p[n]
  OBVIOUS
<1> HIDE DEF q
<1>2. /\ f[0] = <<>>
      /\ \A n \in 1 .. N :
            f[n] = IF IsOf(p, n, A) THEN Append(f[n - 1], p[n]) ELSE f[n - 1]
  BY KeptAt, Zenon
<1>3. /\ \A n \in 0 .. N : g[n] = f[n]
      /\ g[N + 1] = IF IsOf(q, N + 1, A) THEN Append(f[N], e) ELSE f[N]
  <2>1. \A n \in 0 .. N : n \in 0 .. N + 1 /\ n <= N
    BY <1>1
  <2>2. N + 1 \in 0 .. N + 1 /\ ~(N + 1 <= N)
    BY <1>1
  <2> QED BY <2>1, <2>2, Zenon
<1>4. g = [n \in 0 .. Len(q) |-> g[n]]
  BY <1>1, Zenon
<1> HIDE DEF g
<1>5. g[0] = <<>>
  <2>1. 0 \in 0 .. N
    BY <1>1
  <2> QED BY <1>2, <1>3, <2>1, Zenon
<1>6. ASSUME NEW n \in 1 .. Len(q)
      PROVE  g[n] = IF IsOf(q, n, A) THEN Append(g[n - 1], q[n]) ELSE g[n - 1]
  <2>1. CASE n = N + 1
    <3>1. N \in 0 .. N /\ n - 1 = N
      BY <1>1, <2>1
    <3> QED BY <1>1, <1>3, <2>1, <3>1, Zenon
  <2>2. CASE n # N + 1
    <3>1. n \in 1 .. N /\ n \in 0 .. N /\ n - 1 \in 0 .. N
      BY <1>1, <2>2
    <3>2. q[n] = p[n] /\ (IsOf(q, n, A) <=> IsOf(p, n, A))
      BY <1>1, <3>1, Zenon DEF IsOf
    <3> QED BY <1>2, <1>3, <3>1, <3>2, Zenon
  <2> QED BY <2>1, <2>2
<1>7. Solves(q, A, g)
  BY <1>1, <1>4, <1>5, <1>6, KeptIs, Zenon
<1> QED BY <1>7, Zenon DEF q

(* Every path is empty or extends a shorter one.                            *)
LEMMA Shorter ==
    ASSUME NEW p \in Seq(Note), NEW n \in Nat, Len(p) = n + 1
    PROVE  \E q \in Seq(Note), e \in Note : p = Append(q, e) /\ Len(q) = n
<1>1. SubSeq(p, 1, n) \in Seq(Note) /\ p[n + 1] \in Note /\ Len(SubSeq(p, 1, n)) = n
  OBVIOUS
<1>2. p = Append(SubSeq(p, 1, n), p[n + 1])
  OBVIOUS
<1> QED BY <1>1, <1>2, Zenon

(* The function in Keep exists.                                             *)
LEMMA KeptExists ==
    ASSUME NEW A
    PROVE  \A p \in Seq(Note) : \E f : Solves(p, A, f)
<1> DEFINE S == {n \in Nat : \A p \in Seq(Note) : Len(p) = n => \E f : Solves(p, A, f)}
<1>1. ASSUME NEW p \in Seq(Note), Len(p) = 0 PROVE \E f : Solves(p, A, f)
  <2> DEFINE f == [n \in 0 .. 0 |-> <<>>]
  <2>1. f[0] = <<>> /\ f = [n \in 0 .. 0 |-> f[n]]
    OBVIOUS
  <2>2. \A n \in 1 .. Len(p) : FALSE
    BY <1>1
  <2> HIDE DEF f
  <2>3. Solves(p, A, f)
    BY <1>1, <2>1, <2>2, KeptIs, Zenon
  <2> QED BY <2>3, Zenon
<1>2. ASSUME NEW n \in Nat, n \in S PROVE n + 1 \in S
  <2>1. ASSUME NEW p \in Seq(Note), Len(p) = n + 1 PROVE \E f : Solves(p, A, f)
    <3>1. PICK q \in Seq(Note), e \in Note : p = Append(q, e) /\ Len(q) = n
      BY <2>1, Shorter, Zenon
    <3>2. PICK f : Solves(q, A, f)
      BY <1>2, <3>1, Zenon
    <3> QED BY <3>1, <3>2, KeptLonger, Zenon
  <2>2. n + 1 \in Nat
    OBVIOUS
  <2> QED BY <2>1, <2>2, Zenon
<1>3. 0 \in S
  BY <1>1, Zenon
<1>4. Nat \subseteq S
  <2> HIDE DEF S
  <2> QED BY <1>2, <1>3, NatSetInduction, Zenon
<1>5. \A p \in Seq(Note) : Len(p) \in Nat
  OBVIOUS
<1> QED BY <1>4, <1>5, Zenon

(* Keep is the last value of the solution.                                  *)
LEMMA KeepIs ==
    ASSUME NEW p \in Seq(Note), NEW A, NEW f, Solves(p, A, f)
    PROVE  Keep(p, A) = f[Len(p)]
<1> DEFINE g == CHOOSE x : Solves(p, A, x)
<1>1. Keep(p, A) = g[Len(p)]
  BY Zenon DEF Keep, Kept, Solves
<1>2. Solves(p, A, g)
  BY Zenon
<1> HIDE DEF g
<1>3. Len(p) <= Len(p)
  OBVIOUS
<1>4. Begins(p, p)
  BY <1>3, Zenon DEF Begins
<1> QED BY <1>1, <1>2, <1>4, KeptSame, Zenon

(* Nothing is kept of the empty path.                                       *)
LEMMA KeepEmpty ==
    ASSUME NEW A
    PROVE  Keep(<<>>, A) = <<>>
<1>1. <<>> \in Seq(Note) /\ Len(<<>>) = 0
  OBVIOUS
<1>2. PICK f : Solves(<<>>, A, f)
  BY <1>1, KeptExists, Zenon
<1>3. f[0] = <<>>
  BY <1>1, <1>2, KeptAt, Zenon
<1> QED BY <1>1, <1>2, <1>3, KeepIs, Zenon

(* A new leaf is kept if its attribute is in A.                             *)
LEMMA KeepAppend ==
    ASSUME NEW p \in Seq(Note), NEW e \in Note, NEW A
    PROVE  /\ e[1] \in A => Keep(Append(p, e), A) = Append(Keep(p, A), e)
           /\ e[1] \notin A => Keep(Append(p, e), A) = Keep(p, A)
<1> DEFINE q == Append(p, e)
           N == Len(p)
<1>1. /\ q \in Seq(Note) /\ Len(q) = N + 1 /\ N \in Nat /\ q[N + 1] = e
      /\ \A n \in 1 .. N : p[n] = q[n]
  OBVIOUS
<1> HIDE DEF q
<1>2. PICK f : Solves(p, A, f)
  BY KeptExists, Zenon
<1>3. PICK g : Solves(q, A, g)
  BY <1>1, KeptExists, Zenon
<1>4. f[N] = g[N]
  <2>1. Begins(p, q)
    BY <1>1 DEF Begins
  <2>2. q \in Seq(Note)
    BY <1>1
  <2> QED BY <1>2, <1>3, <2>1, <2>2, KeptSame, Zenon
<1>5. g[N + 1] = IF IsOf(q, N + 1, A) THEN Append(g[N], e) ELSE g[N]
  <2>1. N + 1 \in 1 .. Len(q) /\ (N + 1) - 1 = N
    BY <1>1
  <2>2. g[N + 1] = IF IsOf(q, N + 1, A) THEN Append(g[(N + 1) - 1], q[N + 1]) ELSE g[(N + 1) - 1]
    BY <1>1, <1>3, <2>1, KeptAt, Zenon
  <2> QED BY <1>1, <2>1, <2>2, Zenon
<1>6. Keep(p, A) = f[N] /\ Keep(q, A) = g[N + 1]
  BY <1>1, <1>2, <1>3, KeepIs, Zenon
<1> QED BY <1>1, <1>4, <1>5, <1>6, Zenon DEF q, IsOf

-----------------------------------------------------------------------------
(* What a new leaf changes                                                  *)

(* The places of an attribute.                                              *)
LEMMA OfAppend ==
    ASSUME NEW p \in Seq(Note), NEW e \in Note, NEW a
    PROVE  /\ e[1] = a => Of(Append(p, e), a) = Of(p, a) \cup {Len(p) + 1}
           /\ e[1] # a => Of(Append(p, e), a) = Of(p, a)
           /\ e[1] = a => Len(p) + 1 \in Of(Append(p, e), a)
<1> DEFINE q == Append(p, e)
           N == Len(p)
<1>1. /\ DOMAIN q = 1 .. N + 1 /\ DOMAIN p = 1 .. N /\ N \in Nat /\ q[N + 1] = e
      /\ \A n \in 1 .. N : q[n] = p[n]
  OBVIOUS
<1>2. \A n : n \in 1 .. N + 1 <=> n \in 1 .. N \/ n = N + 1
  BY <1>1
<1>3. N + 1 \notin 1 .. N
  BY <1>1
<1> HIDE DEF q, N
<1>4. \A n : n \in Of(q, a) <=> (n \in Of(p, a)) \/ (n = N + 1 /\ e[1] = a)
  BY <1>1, <1>2, <1>3, Zenon DEF Of
<1> QED BY <1>4, Zenon DEF q, N

(* An attribute with a value has a last place.                              *)
LEMMA LastIs ==
    ASSUME NEW p \in Seq(Note), NEW a, Of(p, a) # {}
    PROVE  /\ LastOf(p, a) \in Of(p, a) /\ LastOf(p, a) \in 1 .. Len(p)
           /\ \A j \in Of(p, a) : j <= LastOf(p, a)
<1> DEFINE T == {k \in Nat : Len(p) - k \in Of(p, a)}
<1>1. Len(p) \in Nat /\ Of(p, a) \subseteq 1 .. Len(p)
  BY DEF Of
<1>2. ASSUME NEW j \in Of(p, a) PROVE Len(p) - j \in T
  <2>1. Len(p) - j \in Nat /\ Len(p) - (Len(p) - j) = j
    BY <1>1
  <2> QED BY <2>1, Zenon
<1>3. T \subseteq Nat /\ T # {}
  BY <1>2, Zenon
<1>4. PICK k \in T : \A y \in T : k <= y
  <2> HIDE DEF T
  <2> QED BY <1>3, LeastNat, Zenon
<1>5. k \in Nat /\ Len(p) - k \in Of(p, a)
  OBVIOUS
<1>6. ASSUME NEW j \in Of(p, a) PROVE j <= Len(p) - k
  <2> HIDE DEF T
  <2>1. k <= Len(p) - j
    BY <1>2, <1>4, Zenon
  <2> QED BY <2>1, <1>1, <1>5
<1>7. \E i \in Of(p, a) : \A j \in Of(p, a) : j <= i
  BY <1>5, <1>6, Zenon
<1>8. LastOf(p, a) \in Of(p, a) /\ \A j \in Of(p, a) : j <= LastOf(p, a)
  BY <1>7, Zenon DEF LastOf
<1> QED BY <1>1, <1>8, Zenon

(* The last place of an attribute in a longer path.                         *)
LEMMA LastAppend ==
    ASSUME NEW p \in Seq(Note), NEW e \in Note, NEW a
    PROVE  /\ e[1] = a => LastOf(Append(p, e), a) = Len(p) + 1
           /\ e[1] # a => LastOf(Append(p, e), a) = LastOf(p, a)
<1>1. ASSUME e[1] # a PROVE LastOf(Append(p, e), a) = LastOf(p, a)
  <2>1. Of(Append(p, e), a) = Of(p, a)
    BY <1>1, OfAppend
  <2> QED BY <2>1, Zenon DEF LastOf
<1>2. ASSUME e[1] = a PROVE LastOf(Append(p, e), a) = Len(p) + 1
  <2> DEFINE q == Append(p, e)
  <2>1. q \in Seq(Note) /\ Len(q) = Len(p) + 1 /\ Len(p) \in Nat
    OBVIOUS
  <2>2. Len(p) + 1 \in Of(q, a)
    BY <1>2, OfAppend, Zenon
  <2> HIDE DEF q
  <2>3. LastOf(q, a) \in 1 .. Len(q) /\ Len(p) + 1 <= LastOf(q, a)
    BY <2>1, <2>2, LastIs, Zenon
  <2>4. LastOf(q, a) = Len(p) + 1
    BY <2>1, <2>3
  <2> QED BY <2>4, Zenon DEF q
<1> QED BY <1>1, <1>2, Zenon

(* A node above the leaf is removed.                                        *)
LEMMA WithoutAppend ==
    ASSUME NEW p \in Seq(Note), NEW e \in Note
    PROVE  /\ Without(Append(p, e), Len(p) + 1) = p
           /\ \A i \in 1 .. Len(p) : Without(Append(p, e), i) = Append(Without(p, i), e)
<1> DEFINE q == Append(p, e)
           N == Len(p)
<1>1. /\ q \in Seq(Note) /\ Len(q) = N + 1 /\ N \in Nat /\ q[N + 1] = e
      /\ \A n \in 1 .. N : q[n] = p[n]
  OBVIOUS
<1>2. Without(q, N + 1) = p
  <2>1. SubSeq(q, 1, (N + 1) - 1) = p
    <3>1. (N + 1) - 1 = N
      BY <1>1
    <3>2. SubSeq(q, 1, N) \in Seq(Note) /\ Len(SubSeq(q, 1, N)) = N /\ \A n \in 1 .. N : SubSeq(q, 1, N)[n] = q[n]
      BY <1>1
    <3>3. SubSeq(q, 1, N) = p
      BY <1>1, <3>2
    <3> QED BY <3>1, <3>3
  <2>2. SubSeq(q, (N + 1) + 1, Len(q)) = <<>>
    BY <1>1
  <2>3. p \o <<>> = p
    OBVIOUS
  <2> QED BY <2>1, <2>2, <2>3, Zenon DEF Without
<1>3. ASSUME NEW i \in 1 .. N PROVE Without(q, i) = Append(Without(p, i), e)
  <2>1. SubSeq(q, 1, i - 1) = SubSeq(p, 1, i - 1) /\ SubSeq(p, 1, i - 1) \in Seq(Note)
    <3>1. /\ SubSeq(q, 1, i - 1) \in Seq(Note) /\ Len(SubSeq(q, 1, i - 1)) = i - 1
          /\ \A n \in 1 .. i - 1 : SubSeq(q, 1, i - 1)[n] = q[n]
      BY <1>1
    <3>2. /\ SubSeq(p, 1, i - 1) \in Seq(Note) /\ Len(SubSeq(p, 1, i - 1)) = i - 1
          /\ \A n \in 1 .. i - 1 : SubSeq(p, 1, i - 1)[n] = p[n]
      BY <1>1
    <3> QED BY <1>1, <3>1, <3>2
  <2>2. /\ SubSeq(q, i + 1, Len(q)) = Append(SubSeq(p, i + 1, Len(p)), e)
        /\ SubSeq(p, i + 1, Len(p)) \in Seq(Note)
    <3> DEFINE s == SubSeq(q, i + 1, N + 1)
               r == SubSeq(p, i + 1, N)
               rr == Append(r, e)
    <3>1. /\ s \in Seq(Note) /\ Len(s) = N + 1 - i
          /\ \A n \in 1 .. N + 1 - i : s[n] = q[i + n]
      BY <1>1
    <3>2. /\ r \in Seq(Note) /\ Len(r) = N - i
          /\ \A n \in 1 .. N - i : r[n] = p[i + n]
      BY <1>1
    <3> HIDE DEF s, r
    <3>3. /\ rr \in Seq(Note) /\ Len(rr) = N + 1 - i /\ rr[N + 1 - i] = e
          /\ \A n \in 1 .. N - i : rr[n] = r[n]
      <4>1. Len(r) + 1 = N + 1 - i
        BY <1>1, <3>2
      <4>2. /\ rr \in Seq(Note) /\ Len(rr) = Len(r) + 1 /\ rr[Len(r) + 1] = e
            /\ \A n \in 1 .. Len(r) : rr[n] = r[n]
        <5>1. r \in Seq(Note)
          BY <3>2
        <5> QED BY <5>1
      <4> QED BY <3>2, <4>1, <4>2, Zenon
    <3> HIDE DEF rr, q
    <3>4. ASSUME NEW n \in 1 .. N + 1 - i PROVE s[n] = rr[n]
      <4>1. CASE n = N + 1 - i
        <5>1. i + n = N + 1
          BY <1>1, <4>1
        <5> QED BY <1>1, <3>1, <3>3, <4>1, <5>1, Zenon
      <4>2. CASE n # N + 1 - i
        <5>1. n \in 1 .. N - i /\ i + n \in 1 .. N
          BY <1>1, <4>2
        <5> QED BY <1>1, <3>1, <3>2, <3>3, <5>1, Zenon
      <4> QED BY <4>1, <4>2
    <3>5. s = rr
      <4>1. N + 1 - i \in Nat
        BY <1>1
      <4> HIDE DEF N
      <4> QED BY <4>1, <3>1, <3>3, <3>4
    <3> QED BY <1>1, <3>2, <3>5, Zenon DEF s, r, rr
  <2> DEFINE x == SubSeq(p, 1, i - 1)
             y == SubSeq(p, i + 1, Len(p))
  <2>3. x \in Seq(Note) /\ y \in Seq(Note)
    BY <2>1, <2>2
  <2> HIDE DEF x, y, q
  <2>4. x \o Append(y, e) = Append(x \o y, e)
    BY <2>3
  <2> QED BY <2>1, <2>2, <2>4, Zenon DEF Without, x, y
<1> QED BY <1>2, <1>3, Zenon

(* end() of an attribute in a longer path.                                  *)
LEMMA EndAppend ==
    ASSUME NEW p \in Seq(Note), NEW e \in Note, NEW a
    PROVE  /\ e[1] = a => DocEnd(Append(p, e), a) = p
           /\ e[1] # a => DocEnd(Append(p, e), a) = Append(DocEnd(p, a), e)
<1> DEFINE q == Append(p, e)
<1>1. CASE e[1] = a
  <2>1. Of(q, a) # {}
    BY <1>1, OfAppend, Zenon
  <2>2. LastOf(q, a) = Len(p) + 1
    BY <1>1, LastAppend, Zenon
  <2>3. Without(q, Len(p) + 1) = p
    BY WithoutAppend, Zenon
  <2> QED BY <1>1, <2>1, <2>2, <2>3, Zenon DEF DocEnd
<1>2. CASE e[1] # a
  <2>1. Of(q, a) = Of(p, a) /\ LastOf(q, a) = LastOf(p, a)
    BY <1>2, OfAppend, LastAppend
  <2>2. CASE Of(p, a) = {}
    BY <1>2, <2>1, <2>2, Zenon DEF DocEnd
  <2>3. CASE Of(p, a) # {}
    <3>1. LastOf(p, a) \in 1 .. Len(p)
      BY <2>3, LastIs, Zenon
    <3>2. Without(q, LastOf(p, a)) = Append(Without(p, LastOf(p, a)), e)
      BY <3>1, WithoutAppend, Zenon
    <3> QED BY <1>2, <2>1, <2>3, <3>2, Zenon DEF DocEnd
  <2> QED BY <2>2, <2>3
<1> QED BY <1>1, <1>2

(* Another leaf takes the place of the leaf.                                *)
LEMMA LeafSet ==
    ASSUME NEW p \in Seq(Note), NEW e \in Note, NEW new
    PROVE  [Append(p, e) EXCEPT ![Len(p) + 1] = new] = Append(p, new)
<1> DEFINE F == Note \cup {new}
           q == Append(p, e)
           x == [q EXCEPT ![Len(p) + 1] = new]
           y == Append(p, new)
<1>1. p \in Seq(F) /\ e \in F /\ new \in F /\ Len(p) \in Nat
  OBVIOUS
<1> HIDE DEF F
<1>2. /\ q \in Seq(F) /\ Len(q) = Len(p) + 1 /\ \A n \in 1 .. Len(p) : q[n] = p[n]
  BY <1>1
<1>3. /\ y \in Seq(F) /\ Len(y) = Len(p) + 1 /\ y[Len(p) + 1] = new
      /\ \A n \in 1 .. Len(p) : y[n] = p[n]
  BY <1>1
<1> HIDE DEF q, y
<1>4. /\ x \in Seq(F) /\ Len(x) = Len(p) + 1 /\ x[Len(p) + 1] = new
      /\ \A n \in 1 .. Len(p) : x[n] = q[n]
  BY <1>1, <1>2
<1> HIDE DEF x
<1>5. \A n \in 1 .. Len(p) + 1 : x[n] = y[n]
  BY <1>1, <1>2, <1>3, <1>4
<1>6. x = y
  BY <1>1, <1>3, <1>4, <1>5
<1> QED BY <1>6, Zenon DEF x, y, q

(* Another node takes the place of the i-th.                                *)
Replaced(path, i, node) == [path EXCEPT ![i] = node]

(* A node above the leaf is replaced.                                       *)
LEMMA NodeSet ==
    ASSUME NEW p \in Seq(Note), NEW e \in Note, NEW new, NEW i \in 1 .. Len(p)
    PROVE  Replaced(Append(p, e), i, new) = Append(Replaced(p, i, new), e)
<1> DEFINE F == Note \cup {new}
           N == Len(p)
           q == Append(p, e)
           x == [q EXCEPT ![i] = new]
           r == [p EXCEPT ![i] = new]
           y == Append(r, e)
<1>1. p \in Seq(F) /\ e \in F /\ new \in F /\ N \in Nat
  OBVIOUS
<1> HIDE DEF F
<1>2. /\ q \in Seq(F) /\ Len(q) = N + 1 /\ q[N + 1] = e /\ \A n \in 1 .. N : q[n] = p[n]
  BY <1>1
<1>3. /\ r \in Seq(F) /\ Len(r) = N /\ r[i] = new /\ \A n \in 1 .. N : n # i => r[n] = p[n]
  BY <1>1
<1> HIDE DEF q, r
<1>4. /\ x \in Seq(F) /\ Len(x) = N + 1 /\ x[i] = new
      /\ \A n \in 1 .. N + 1 : n # i => x[n] = q[n]
  BY <1>1, <1>2
<1>5. /\ y \in Seq(F) /\ Len(y) = N + 1 /\ y[N + 1] = e
      /\ \A n \in 1 .. N : y[n] = r[n]
  BY <1>1, <1>3
<1> HIDE DEF x, y
<1>6. ASSUME NEW n \in 1 .. N + 1 PROVE x[n] = y[n]
  <2>1. CASE n = N + 1
    <3>1. n # i
      BY <1>1, <2>1
    <3> QED BY <1>2, <1>4, <1>5, <2>1, <3>1, Zenon
  <2>2. CASE n # N + 1
    <3>1. n \in 1 .. N
      BY <1>1, <2>2
    <3> QED BY <1>2, <1>3, <1>4, <1>5, <3>1, Zenon
  <2> QED BY <2>1, <2>2
<1>7. x = y
  BY <1>1, <1>4, <1>5, <1>6
<1> QED BY <1>7, Zenon DEF x, y, q, r, Replaced

(* The node that set() and begin() make.                                    *)
Node(a, v) == <<a, v>>

(* The attribute has a value on the path.                                   *)
Has(path, a) == Of(path, a) # {}

(* set() of an attribute in a longer path.                                  *)
LEMMA SetAppend ==
    ASSUME NEW p \in Seq(Note), NEW e \in Note, NEW a, NEW v
    PROVE  /\ e[1] = a => DocSet(Append(p, e), a, v) = Append(p, Node(a, v))
           /\ e[1] # a /\ ~Has(p, a) =>
                DocSet(Append(p, e), a, v) = Append(Append(p, e), Node(a, v))
           /\ e[1] # a /\ Has(p, a) =>
                DocSet(Append(p, e), a, v) = Append(DocSet(p, a, v), e)
<1> DEFINE q == Append(p, e)
           N == Len(p)
<1>0. /\ q \in Seq(Note) /\ Len(q) = N + 1 /\ N \in Nat /\ q[N + 1] = e
      /\ \A n \in 1 .. N : q[n] = p[n]
  OBVIOUS
<1> DEFINE new == Node(a, v)
<1>1. ASSUME e[1] = a PROVE DocSet(q, a, v) = Append(p, new)
  <2>1. Of(q, a) # {}
    BY <1>1, OfAppend, Zenon
  <2>2. LastOf(q, a) = Len(p) + 1
    BY <1>1, LastAppend, Zenon
  <2>3. DocSet(q, a, v) = [q EXCEPT ![Len(p) + 1] = new]
    BY <2>1, <2>2, Zenon DEF DocSet, Node
  <2> HIDE DEF new
  <2>4. [q EXCEPT ![Len(p) + 1] = new] = Append(p, new)
    BY LeafSet
  <2> QED BY <2>3, <2>4
<1>2. ASSUME e[1] # a, Of(p, a) = {} PROVE DocSet(q, a, v) = Append(q, new)
  <2>1. Of(q, a) = {}
    BY <1>2, OfAppend
  <2> QED BY <2>1, Zenon DEF DocSet, Node
<1>3. ASSUME e[1] # a, Of(p, a) # {} PROVE DocSet(q, a, v) = Append(DocSet(p, a, v), e)
  <2>1. Of(q, a) = Of(p, a) /\ LastOf(q, a) = LastOf(p, a)
    BY <1>3, OfAppend, LastAppend
  <2>2. LastOf(p, a) \in 1 .. Len(p)
    BY <1>3, LastIs, Zenon
  <2>3. DocSet(q, a, v) = [q EXCEPT ![LastOf(p, a)] = new]
    BY <1>3, <2>1, Zenon DEF DocSet, Node
  <2>4. DocSet(p, a, v) = [p EXCEPT ![LastOf(p, a)] = new]
    BY <1>3, Zenon DEF DocSet, Node
  <2>5. Replaced(q, LastOf(p, a), new) = Append(Replaced(p, LastOf(p, a), new), e)
    BY <2>2, NodeSet, Zenon
  <2> QED BY <2>3, <2>4, <2>5, Zenon DEF Replaced
<1> QED BY <1>1, <1>2, <1>3, Zenon DEF Has

(* The current value of an attribute in a longer path.                      *)
LEMMA GetAppend ==
    ASSUME NEW p \in Seq(Note), NEW e \in Note, NEW a
    PROVE  /\ e[1] = a => entry_get(Append(p, e), a) = e[2]
           /\ e[1] # a => entry_get(Append(p, e), a) = entry_get(p, a)
<1> DEFINE q == Append(p, e)
<1>0. /\ q[Len(p) + 1] = e /\ \A n \in 1 .. Len(p) : q[n] = p[n]
  OBVIOUS
<1> HIDE DEF q
<1>1. CASE e[1] = a
  <2>1. Of(q, a) # {} /\ LastOf(q, a) = Len(p) + 1
    BY <1>1, OfAppend, LastAppend, Zenon DEF q
  <2> QED BY <1>0, <1>1, <2>1, Zenon DEF entry_get, q
<1>2. CASE e[1] # a
  <2>1. Of(q, a) = Of(p, a) /\ LastOf(q, a) = LastOf(p, a)
    BY <1>2, OfAppend, LastAppend DEF q
  <2>2. CASE Of(p, a) = {}
    BY <1>2, <2>1, <2>2, Zenon DEF entry_get, q
  <2>3. CASE Of(p, a) # {}
    <3>1. LastOf(p, a) \in 1 .. Len(p)
      BY <2>3, LastIs, Zenon
    <3> QED BY <1>0, <1>2, <2>1, <2>3, <3>1, Zenon DEF entry_get, q
  <2> QED BY <2>2, <2>3
<1> QED BY <1>1, <1>2

-----------------------------------------------------------------------------
(* What is kept of a path after an annotation call                          *)

(* A set with the empty sequence and every extension of its members.        *)
LEMMA SeqInduction ==
    ASSUME NEW G, <<>> \in G,
           \A p \in Seq(Note), e \in Note : p \in G => Append(p, e) \in G
    PROVE  Seq(Note) \subseteq G
<1> DEFINE S == {n \in Nat : \A p \in Seq(Note) : Len(p) = n => p \in G}
<1>1. ASSUME NEW p \in Seq(Note), Len(p) = 0 PROVE p \in G
  <2>1. p = <<>>
    BY <1>1
  <2> QED BY <2>1, Zenon
<1>2. ASSUME NEW n \in Nat, n \in S PROVE n + 1 \in S
  <2>1. ASSUME NEW p \in Seq(Note), Len(p) = n + 1 PROVE p \in G
    <3>1. PICK q \in Seq(Note), e \in Note : p = Append(q, e) /\ Len(q) = n
      BY <2>1, Shorter, Zenon
    <3> QED BY <1>2, <3>1, Zenon
  <2>2. n + 1 \in Nat
    OBVIOUS
  <2> QED BY <2>1, <2>2, Zenon
<1>3. 0 \in S
  BY <1>1, Zenon
<1>4. Nat \subseteq S
  <2> HIDE DEF S
  <2> QED BY <1>2, <1>3, NatSetInduction, Zenon
<1>5. \A p \in Seq(Note) : Len(p) \in Nat
  OBVIOUS
<1> QED BY <1>4, <1>5, Zenon

(* Append as a map of sequences.                                            *)
LEMMA AppendSeq ==
    ASSUME NEW p \in Seq(Note), NEW e \in Note
    PROVE  Append(p, e) \in Seq(Note)
OBVIOUS

(* No attribute has a place in the empty path.                              *)
LEMMA OfEmpty ==
    ASSUME NEW a
    PROVE  Of(<<>>, a) = {}
<1>1. DOMAIN <<>> = {}
  OBVIOUS
<1> QED BY <1>1, Zenon DEF Of

(* What is kept is a path.                                                  *)
LEMMA KeepSeq ==
    ASSUME NEW A
    PROVE  \A p \in Seq(Note) : Keep(p, A) \in Seq(Note)
<1> DEFINE G == {p \in Seq(Note) : Keep(p, A) \in Seq(Note)}
<1>1. <<>> \in G
  <2>1. <<>> \in Seq(Note)
    OBVIOUS
  <2> QED BY <2>1, KeepEmpty, Zenon
<1>2. ASSUME NEW p \in Seq(Note), NEW e \in Note, p \in G PROVE Append(p, e) \in G
  BY <1>2, KeepAppend, AppendSeq, Zenon
<1>3. Seq(Note) \subseteq G
  <2> HIDE DEF G
  <2> QED BY <1>1, <1>2, SeqInduction, Zenon
<1> QED BY <1>3, Zenon

(* The current value of an attribute is kept with it.                       *)
LEMMA KeepGet ==
    ASSUME NEW A, NEW a \in A
    PROVE  \A p \in Seq(Note) : /\ Of(Keep(p, A), a) = {} <=> Of(p, a) = {}
                             /\ entry_get(Keep(p, A), a) = entry_get(p, a)
<1> DEFINE G == {p \in Seq(Note) : /\ Of(Keep(p, A), a) = {} <=> Of(p, a) = {}
                                /\ entry_get(Keep(p, A), a) = entry_get(p, a)}
<1>1. <<>> \in G
  <2>1. <<>> \in Seq(Note)
    OBVIOUS
  <2> QED BY <2>1, KeepEmpty, Zenon
<1>2. ASSUME NEW p \in Seq(Note), NEW e \in Note, p \in G PROVE Append(p, e) \in G
  <2> DEFINE k == Keep(p, A)
  <2>1. k \in Seq(Note) /\ Append(p, e) \in Seq(Note)
    BY KeepSeq, AppendSeq, Zenon
  <2>2. (Of(k, a) = {} <=> Of(p, a) = {}) /\ entry_get(k, a) = entry_get(p, a)
    BY <1>2, Zenon
  <2>3. CASE e[1] = a
    <3>1. Keep(Append(p, e), A) = Append(k, e)
      BY <2>3, KeepAppend, Zenon
    <3>2. Of(Append(p, e), a) # {} /\ Of(Append(k, e), a) # {}
      BY <2>1, <2>3, OfAppend, Zenon
    <3>3. entry_get(Append(p, e), a) = e[2] /\ entry_get(Append(k, e), a) = e[2]
      BY <2>1, <2>3, GetAppend, Zenon
    <3> QED BY <2>1, <3>1, <3>2, <3>3, Zenon
  <2>4. CASE e[1] # a
    <3>1. Of(Append(p, e), a) = Of(p, a) /\ Of(Append(k, e), a) = Of(k, a)
      BY <2>1, <2>4, OfAppend
    <3>2. entry_get(Append(p, e), a) = entry_get(p, a) /\ entry_get(Append(k, e), a) = entry_get(k, a)
      BY <2>1, <2>4, GetAppend, Zenon
    <3>3. Keep(Append(p, e), A) = Append(k, e) \/ Keep(Append(p, e), A) = k
      BY KeepAppend, Zenon
    <3> QED BY <2>1, <2>2, <3>1, <3>2, <3>3, Zenon
  <2> QED BY <2>3, <2>4
<1>3. Seq(Note) \subseteq G
  <2> HIDE DEF G
  <2> QED BY <1>1, <1>2, SeqInduction, Zenon
<1> QED BY <1>3, Zenon

(* A path from which a node is removed is a path.                           *)
LEMMA EndSeq ==
    ASSUME NEW a
    PROVE  \A p \in Seq(Note) : DocEnd(p, a) \in Seq(Note)
<1> DEFINE G == {p \in Seq(Note) : DocEnd(p, a) \in Seq(Note)}
<1>1. <<>> \in G
  <2>1. <<>> \in Seq(Note)
    OBVIOUS
  <2> QED BY <2>1, OfEmpty, Zenon DEF DocEnd
<1>2. ASSUME NEW p \in Seq(Note), NEW e \in Note, p \in G PROVE Append(p, e) \in G
  <2>1. DocEnd(p, a) \in Seq(Note) /\ Append(p, e) \in Seq(Note)
    BY <1>2, AppendSeq, Zenon
  <2>2. DocEnd(Append(p, e), a) = p \/ DocEnd(Append(p, e), a) = Append(DocEnd(p, a), e)
    BY EndAppend, Zenon
  <2>3. Append(DocEnd(p, a), e) \in Seq(Note)
    BY <2>1, AppendSeq, Zenon
  <2>4. DocEnd(Append(p, e), a) \in Seq(Note)
    BY <2>2, <2>3, Zenon
  <2> QED BY <2>1, <2>4, Zenon
<1>3. Seq(Note) \subseteq G
  <2> HIDE DEF G
  <2> QED BY <1>1, <1>2, SeqInduction, Zenon
<1> QED BY <1>3, Zenon

(* What end() and set() do to the nodes of the attributes in A.             *)
EndKept(p, A, a) ==
    /\ a \in A => Keep(DocEnd(p, a), A) = DocEnd(Keep(p, A), a)
    /\ a \notin A => Keep(DocEnd(p, a), A) = Keep(p, A)

SetKept(p, A, a, v) ==
    /\ a \in A => Keep(DocSet(p, a, v), A) = DocSet(Keep(p, A), a, v)
    /\ a \notin A => Keep(DocSet(p, a, v), A) = Keep(p, A)

(* What is kept after end().                                                *)
LEMMA KeepEnd ==
    ASSUME NEW A, NEW a
    PROVE  \A p \in Seq(Note) : EndKept(p, A, a)
<1> DEFINE Good(p) == /\ a \in A => Keep(DocEnd(p, a), A) = DocEnd(Keep(p, A), a)
                      /\ a \notin A => Keep(DocEnd(p, a), A) = Keep(p, A)
           G == {p \in Seq(Note) : Good(p)}
<1>1. <<>> \in G
  <2>1. <<>> \in Seq(Note)
    OBVIOUS
  <2>2. DocEnd(<<>>, a) = <<>>
    BY OfEmpty, Zenon DEF DocEnd
  <2> QED BY <2>1, <2>2, KeepEmpty, Zenon
<1>2. ASSUME NEW p \in Seq(Note), NEW e \in Note, p \in G PROVE Append(p, e) \in G
  <2> DEFINE k == Keep(p, A)
             d == DocEnd(p, a)
             q == Append(p, e)
  <2>1. k \in Seq(Note) /\ q \in Seq(Note) /\ d \in Seq(Note)
    BY KeepSeq, AppendSeq, EndSeq, Zenon
  <2>2. (a \in A => Keep(d, A) = DocEnd(k, a)) /\ (a \notin A => Keep(d, A) = k)
    <3> HIDE DEF k, d
    <3>1. Good(p)
      BY <1>2, Zenon
    <3> QED BY <3>1 DEF Good, k, d
  <2>3. CASE e[1] = a
    <3>1. DocEnd(q, a) = p
      BY <2>3, EndAppend, Zenon
    <3>2. DocEnd(Append(k, e), a) = k /\ (a \in A => Keep(q, A) = Append(k, e))
      <4>1. DocEnd(Append(k, e), a) = k
        BY <2>1, <2>3, EndAppend, Zenon
      <4>2. a \in A => Keep(q, A) = Append(k, e)
        BY <2>3, KeepAppend, Zenon
      <4> QED BY <4>1, <4>2
    <3>3. a \notin A => Keep(q, A) = k
      BY <2>3, KeepAppend, Zenon
    <3> QED BY <2>1, <3>1, <3>2, <3>3, Zenon
  <2>4. CASE e[1] # a
    <3>1. DocEnd(q, a) = Append(d, e)
      BY <2>4, EndAppend, Zenon
    <3>2. CASE e[1] \in A
      <4>1. Keep(q, A) = Append(k, e) /\ Keep(Append(d, e), A) = Append(Keep(d, A), e)
        BY <2>1, <3>2, KeepAppend, Zenon
      <4>2. DocEnd(Append(k, e), a) = Append(DocEnd(k, a), e)
        BY <2>1, <2>4, EndAppend, Zenon
      <4>3. /\ a \in A => Keep(DocEnd(q, a), A) = DocEnd(Keep(q, A), a)
            /\ a \notin A => Keep(DocEnd(q, a), A) = Keep(q, A)
        <5> HIDE DEF k, d, q
        <5> QED BY <2>2, <3>1, <4>1, <4>2, Zenon
      <4> QED BY <2>1, <4>3, Zenon
    <3>3. CASE e[1] \notin A
      <4>1. Keep(q, A) = k /\ Keep(Append(d, e), A) = Keep(d, A)
        BY <2>1, <3>3, KeepAppend, Zenon
      <4>3. /\ a \in A => Keep(DocEnd(q, a), A) = DocEnd(Keep(q, A), a)
            /\ a \notin A => Keep(DocEnd(q, a), A) = Keep(q, A)
        <5> HIDE DEF k, d, q
        <5> QED BY <2>2, <3>1, <4>1, Zenon
      <4> QED BY <2>1, <4>3, Zenon
    <3> QED BY <3>2, <3>3
  <2> QED BY <2>3, <2>4
<1>3. Seq(Note) \subseteq G
  <2> HIDE DEF G
  <2> QED BY <1>1, <1>2, SeqInduction, Zenon
<1> QED BY <1>3, Zenon DEF EndKept

(* A path in which a node is replaced is a path.                            *)
LEMMA SetSeq ==
    ASSUME NEW a, NEW v, Node(a, v) \in Note
    PROVE  \A p \in Seq(Note) : DocSet(p, a, v) \in Seq(Note)
<1> DEFINE G == {p \in Seq(Note) : DocSet(p, a, v) \in Seq(Note)}
<1>1. <<>> \in G
  <2>1. <<>> \in Seq(Note)
    OBVIOUS
  <2> QED BY <2>1, OfEmpty, AppendSeq, Zenon DEF DocSet, Node
<1>2. ASSUME NEW p \in Seq(Note), NEW e \in Note, p \in G PROVE Append(p, e) \in G
  <2>1. DocSet(p, a, v) \in Seq(Note) /\ Append(p, e) \in Seq(Note)
    BY <1>2, AppendSeq, Zenon
  <2>2. \/ DocSet(Append(p, e), a, v) = Append(p, Node(a, v))
        \/ DocSet(Append(p, e), a, v) = Append(Append(p, e), Node(a, v))
        \/ DocSet(Append(p, e), a, v) = Append(DocSet(p, a, v), e)
    BY SetAppend
  <2>3. /\ Append(p, Node(a, v)) \in Seq(Note) /\ Append(Append(p, e), Node(a, v)) \in Seq(Note)
        /\ Append(DocSet(p, a, v), e) \in Seq(Note)
    BY <2>1, AppendSeq, Zenon
  <2>4. DocSet(Append(p, e), a, v) \in Seq(Note)
    BY <2>2, <2>3, Zenon
  <2> QED BY <2>1, <2>4, Zenon
<1>3. Seq(Note) \subseteq G
  <2> HIDE DEF G
  <2> QED BY <1>1, <1>2, SeqInduction, Zenon
<1> QED BY <1>3, Zenon

(* What is kept after set().                                                *)
LEMMA KeepSet ==
    ASSUME NEW A, NEW a, NEW v, Node(a, v) \in Note
    PROVE  \A p \in Seq(Note) :
              /\ a \in A => Keep(DocSet(p, a, v), A) = DocSet(Keep(p, A), a, v)
              /\ a \notin A => Keep(DocSet(p, a, v), A) = Keep(p, A)
<1> DEFINE G == {p \in Seq(Note) :
                   /\ a \in A => Keep(DocSet(p, a, v), A) = DocSet(Keep(p, A), a, v)
                   /\ a \notin A => Keep(DocSet(p, a, v), A) = Keep(p, A)}
<1>0. Node(a, v)[1] = a /\ <<>> \in Seq(Note)
  BY DEF Node
<1>1. <<>> \in G
  <2>1. DocSet(<<>>, a, v) = Append(<<>>, Node(a, v))
    BY OfEmpty, Zenon DEF DocSet, Node
  <2>2. /\ a \in A => Keep(Append(<<>>, Node(a, v)), A) = Append(Keep(<<>>, A), Node(a, v))
        /\ a \notin A => Keep(Append(<<>>, Node(a, v)), A) = Keep(<<>>, A)
    BY <1>0, KeepAppend, Zenon
  <2> QED BY <1>0, <2>1, <2>2, KeepEmpty, Zenon
<1>2. ASSUME NEW p \in Seq(Note), NEW e \in Note, p \in G PROVE Append(p, e) \in G
  <2> DEFINE k == Keep(p, A)
             d == DocSet(p, a, v)
             q == Append(p, e)
             new == Node(a, v)
             Goal == /\ a \in A => Keep(DocSet(q, a, v), A) = DocSet(Keep(q, A), a, v)
                     /\ a \notin A => Keep(DocSet(q, a, v), A) = Keep(q, A)
  <2>1. k \in Seq(Note) /\ q \in Seq(Note) /\ d \in Seq(Note) /\ new \in Note
    BY KeepSeq, AppendSeq, SetSeq, Zenon
  <2>2. (a \in A => Keep(d, A) = DocSet(k, a, v)) /\ (a \notin A => Keep(d, A) = k)
    BY <1>2, Zenon
  <2>3. CASE e[1] = a
    <3>1. DocSet(q, a, v) = Append(p, new)
      BY <2>3, SetAppend
    <3>2. a \in A => /\ Keep(q, A) = Append(k, e) /\ DocSet(Append(k, e), a, v) = Append(k, new)
                     /\ Keep(Append(p, new), A) = Append(k, new)
      <4>1. DocSet(Append(k, e), a, v) = Append(k, new)
        BY <2>1, <2>3, SetAppend
      <4>2. a \in A => Keep(q, A) = Append(k, e)
        BY <2>3, KeepAppend, Zenon
      <4>3. a \in A => Keep(Append(p, new), A) = Append(k, new)
        BY <1>0, <2>1, KeepAppend, Zenon
      <4> QED BY <4>1, <4>2, <4>3
    <3>3. a \notin A => Keep(q, A) = k /\ Keep(Append(p, new), A) = k
      BY <1>0, <2>1, <2>3, KeepAppend
    <3>4. Goal
      <4> HIDE DEF k, d, q, new
      <4> QED BY <3>1, <3>2, <3>3, Zenon
    <3> QED BY <2>1, <3>4, Zenon
  <2>4. CASE e[1] # a /\ ~Has(p, a)
    <3>1. DocSet(q, a, v) = Append(q, new)
      BY <2>4, SetAppend
    <3>2. Of(q, a) = {}
      BY <2>4, OfAppend DEF Has
    <3>3. a \in A => Of(Keep(q, A), a) = {}
      BY <2>1, <3>2, KeepGet, Zenon
    <3>4. a \in A => DocSet(Keep(q, A), a, v) = Append(Keep(q, A), new)
      BY <3>3, Zenon DEF DocSet, Node
    <3>5. /\ a \in A => Keep(Append(q, new), A) = Append(Keep(q, A), new)
          /\ a \notin A => Keep(Append(q, new), A) = Keep(q, A)
      <4>1. new[1] = a
        BY <1>0
      <4> HIDE DEF q, new
      <4>2. q \in Seq(Note) /\ new \in Note
        BY <2>1, Zenon
      <4>3. /\ new[1] \in A => Keep(Append(q, new), A) = Append(Keep(q, A), new)
            /\ new[1] \notin A => Keep(Append(q, new), A) = Keep(q, A)
        BY <4>2, KeepAppend, Zenon
      <4> QED BY <4>1, <4>3
    <3>6. Goal
      <4> HIDE DEF k, d, q, new
      <4> QED BY <3>1, <3>4, <3>5, Zenon
    <3> QED BY <2>1, <3>6, Zenon
  <2>5. CASE e[1] # a /\ Has(p, a)
    <3>1. DocSet(q, a, v) = Append(d, e)
      BY <2>5, SetAppend
    <3>2. CASE e[1] \in A
      <4>1. Keep(q, A) = Append(k, e) /\ Keep(Append(d, e), A) = Append(Keep(d, A), e)
        BY <2>1, <3>2, KeepAppend, Zenon
      <4>2. a \in A => Has(k, a)
        BY <2>5, KeepGet, Zenon DEF Has
      <4>3. a \in A => DocSet(Append(k, e), a, v) = Append(DocSet(k, a, v), e)
        BY <2>1, <2>5, <4>2, SetAppend
      <4>4. Goal
        <5> HIDE DEF k, d, q, new
        <5> QED BY <2>2, <3>1, <4>1, <4>3, Zenon
      <4> QED BY <2>1, <4>4, Zenon
    <3>3. CASE e[1] \notin A
      <4>1. Keep(q, A) = k /\ Keep(Append(d, e), A) = Keep(d, A)
        BY <2>1, <3>3, KeepAppend, Zenon
      <4>4. Goal
        <5> HIDE DEF k, d, q, new
        <5> QED BY <2>2, <3>1, <4>1, Zenon
      <4> QED BY <2>1, <4>4, Zenon
    <3> QED BY <3>2, <3>3
  <2> QED BY <2>3, <2>4, <2>5
<1>3. Seq(Note) \subseteq G
  <2> HIDE DEF G
  <2> QED BY <1>1, <1>2, SeqInduction, Zenon
<1> QED BY <1>3, Zenon

(* What is kept is empty, or its leaf is of an attribute in A.              *)
LEMMA KeepLeaf ==
    ASSUME NEW A
    PROVE  \A p \in Seq(Note) :
              \/ Keep(p, A) = <<>>
              \/ \E k \in Seq(Note), e \in Note : Keep(p, A) = Append(k, e) /\ e[1] \in A
<1> DEFINE Good(p) == \/ Keep(p, A) = <<>>
                      \/ \E k \in Seq(Note), e \in Note : Keep(p, A) = Append(k, e) /\ e[1] \in A
           G == {p \in Seq(Note) : Good(p)}
<1>1. <<>> \in G
  <2>1. <<>> \in Seq(Note)
    OBVIOUS
  <2> QED BY <2>1, KeepEmpty, Zenon
<1>2. ASSUME NEW p \in Seq(Note), NEW e \in Note, p \in G PROVE Append(p, e) \in G
  <2>1. Append(p, e) \in Seq(Note) /\ Keep(p, A) \in Seq(Note)
    BY AppendSeq, KeepSeq, Zenon
  <2>2. Good(Append(p, e))
    <3>1. CASE e[1] \in A
      <4>1. Keep(Append(p, e), A) = Append(Keep(p, A), e)
        BY <3>1, KeepAppend, Zenon
      <4> QED BY <2>1, <3>1, <4>1, Zenon
    <3>2. CASE e[1] \notin A
      <4>1. Keep(Append(p, e), A) = Keep(p, A)
        BY <3>2, KeepAppend, Zenon
      <4> QED BY <1>2, <4>1, Zenon
    <3> QED BY <3>1, <3>2
  <2> HIDE DEF Good
  <2> QED BY <2>1, <2>2, Zenon
<1>3. Seq(Note) \subseteq G
  <2> HIDE DEF G
  <2> QED BY <1>1, <1>2, SeqInduction, Zenon
<1> QED BY <1>3, Zenon

(* On a stack of one attribute, set() replaces the leaf.                    *)
LEMMA SetOnStack ==
    ASSUME NEW p \in Seq(Note), NEW a, NEW v
    PROVE  DocSet(Keep(p, {a}), a, v) = Append(DocEnd(Keep(p, {a}), a), Node(a, v))
<1> DEFINE s == Keep(p, {a})
<1>1. CASE s = <<>>
  <2>1. DocSet(<<>>, a, v) = Append(<<>>, Node(a, v)) /\ DocEnd(<<>>, a) = <<>>
    BY OfEmpty, Zenon DEF DocSet, DocEnd, Node
  <2> QED BY <1>1, <2>1, Zenon
<1>2. CASE s # <<>>
  <2>1. PICK k \in Seq(Note), e \in Note : s = Append(k, e) /\ e[1] = a
    <3>1. PICK k \in Seq(Note), e \in Note : s = Append(k, e) /\ e[1] \in {a}
      BY <1>2, KeepLeaf, Zenon
    <3> HIDE DEF s
    <3> QED BY <3>1, Zenon
  <2>2. DocSet(Append(k, e), a, v) = Append(k, Node(a, v)) /\ DocEnd(Append(k, e), a) = k
    BY <2>1, SetAppend, EndAppend
  <2> HIDE DEF s
  <2>3. DocSet(s, a, v) = Append(DocEnd(s, a), Node(a, v))
    BY <2>1, <2>2, Zenon
  <2> QED BY <2>3, Zenon DEF s
<1> QED BY <1>1, <1>2, Zenon

(* The leaf of a stack is the current value.                                *)
LEMMA GetOnStack ==
    ASSUME NEW p \in Seq(Note), NEW a
    PROVE  entry_get(p, a) = IF Keep(p, {a}) = <<>> THEN None
                             ELSE Keep(p, {a})[Len(Keep(p, {a}))][2]
<1> DEFINE s == Keep(p, {a})
<1>0. entry_get(p, a) = entry_get(s, a)
  BY KeepGet
<1>1. CASE s = <<>>
  <2>1. entry_get(<<>>, a) = None
    BY OfEmpty, Zenon DEF entry_get
  <2> QED BY <1>0, <1>1, <2>1, Zenon
<1>2. CASE s # <<>>
  <2>1. PICK k \in Seq(Note), e \in Note : s = Append(k, e) /\ e[1] = a
    <3>1. PICK k \in Seq(Note), e \in Note : s = Append(k, e) /\ e[1] \in {a}
      BY <1>2, KeepLeaf, Zenon
    <3> HIDE DEF s
    <3> QED BY <3>1, Zenon
  <2>2. entry_get(Append(k, e), a) = e[2]
    BY <2>1, GetAppend
  <2>3. Append(k, e)[Len(Append(k, e))] = e
    OBVIOUS
  <2> HIDE DEF s
  <2>4. entry_get(s, a) = e[2] /\ s[Len(s)] = e
    BY <2>1, <2>2, <2>3, Zenon
  <2>5. entry_get(p, a) = s[Len(s)][2]
    BY <1>0, <2>4, Zenon
  <2> QED BY <1>2, <2>5, Zenon DEF s
<1> QED BY <1>1, <1>2

-----------------------------------------------------------------------------
(* The inductive invariant                                                  *)

CallRec == [pc : {"idle", "begin", "set", "end"}, board : Boards, attr : Attrs \cup {None},
            value : Values \cup {None}, merged : Seq(Note)]

RegionsType ==
    /\ slot \in [Boards -> [SlotKeys -> Seq(Note)]]
    /\ open \in [Boards -> Seq(Note)]
    /\ call \in [Threads -> CallRec]
    /\ stack_error \in [Threads -> BOOLEAN]
    /\ raced \subseteq Boards

(* A call is for an attribute of its kind.                                  *)
CallOk(c) ==
    /\ c.attr \in Attrs
    /\ c.pc \in {"begin", "set"} => c.attr \notin AsValue /\ c.value \in Values
    /\ c.pc = "set" => c.attr \in SetAttrs

CallInv == \A t \in Threads : call[t].pc # "idle" => CallOk(call[t])

(* Thread t is in a call on blackboard b.                                   *)
InCall(t, b) == call[t].pc # "idle" /\ call[t].board = b

(* What t has read is still in the slot.                                    *)
Current(t, b) == call[t].merged = slot[b][get_blackboard_key(call[t].attr)]

(* On a blackboard without a race at most one call is in progress, and what *)
(* it has read is current.                                                  *)
OneCall ==
    \A b \in Boards \ raced : \A t \in Threads : InCall(t, b) =>
        /\ Current(t, b)
        /\ \A u \in Threads \ {t} : ~InCall(u, b)

(* The slot of an as_value attribute has at most one value.                 *)
OneValue(path, a) == path = <<>> \/ \E v \in Values : path = <<Node(a, v)>>

ValueInv == \A b \in Boards, a \in AsValue : OneValue(slot[b][a], a)

(* A slot and the open annotations have the same stack of an attribute.     *)
SameStack(path, notes, x) == Keep(path, {x}) = Keep(notes, {x})

Faithful(b) == \A x \in Attrs : SameStack(slot[b][get_blackboard_key(x)], open[b], x)

RegionsInv ==
    /\ RegionsType /\ CallInv /\ OneCall /\ ValueInv
    /\ \A b \in Boards \ raced : Faithful(b)

(* Attributes have slots.                                                   *)
LEMMA Keys ==
    /\ \A a \in Attrs : get_blackboard_key(a) \in SlotKeys
    /\ \A a \in AsValue : a \in Attrs /\ a \in SlotKeys /\ get_blackboard_key(a) = a
    /\ \A a \in Attrs, x \in AsValue : get_blackboard_key(a) = x => a = x
    /\ \A a \in AsValue : a # "REGION_KEY"
    /\ "REGION_KEY" \in SlotKeys
BY RegionsAssumption DEF RegionsAssumption, get_blackboard_key, SlotKeys

(* A slot is written.                                                       *)
LEMMA SlotWrite ==
    ASSUME NEW b \in Boards, NEW k \in SlotKeys, NEW path \in Seq(Note),
           slot \in [Boards -> [SlotKeys -> Seq(Note)]],
           slot' = [slot EXCEPT ![b][k] = path]
    PROVE  /\ slot' \in [Boards -> [SlotKeys -> Seq(Note)]]
           /\ slot'[b][k] = path
           /\ \A j \in SlotKeys \ {k} : slot'[b][j] = slot[b][j]
           /\ \A c \in Boards \ {b} : slot'[c] = slot[c]
OBVIOUS

(* A slot and the history of its blackboard are written.                    *)
Writes(b, a, path, notes) ==
    /\ slot' = [slot EXCEPT ![b][get_blackboard_key(a)] = path]
    /\ open' = [open EXCEPT ![b] = notes]

(* The path and the history agree after a write for attribute a.            *)
Agrees(b, a, path, notes) ==
    /\ \A x \in Attrs : get_blackboard_key(x) = get_blackboard_key(a) => SameStack(path, notes, x)
    /\ \A x \in Attrs \ {a} : Keep(notes, {x}) = Keep(open[b], {x})

(* What a write keeps.                                                      *)
LEMMA WriteStep ==
    ASSUME RegionsInv, NEW b \in Boards, NEW a \in Attrs,
           NEW path \in Seq(Note), NEW notes \in Seq(Note),
           Writes(b, a, path, notes), raced \subseteq raced',
           b \notin raced' => Agrees(b, a, path, notes),
           a \in AsValue => OneValue(path, a)
    PROVE  /\ slot' \in [Boards -> [SlotKeys -> Seq(Note)]]
           /\ open' \in [Boards -> Seq(Note)]
           /\ \A c \in Boards \ {b} : slot'[c] = slot[c] /\ open'[c] = open[c]
           /\ ValueInv'
           /\ \A c \in Boards \ raced' : Faithful(c)'
<1> DEFINE k == get_blackboard_key(a)
<1>1. k \in SlotKeys
  BY Keys
<1>2. /\ slot \in [Boards -> [SlotKeys -> Seq(Note)]] /\ open \in [Boards -> Seq(Note)]
  BY DEF RegionsInv, RegionsType
<1>3. /\ slot' \in [Boards -> [SlotKeys -> Seq(Note)]]
      /\ slot'[b][k] = path
      /\ \A j \in SlotKeys \ {k} : slot'[b][j] = slot[b][j]
      /\ \A c \in Boards \ {b} : slot'[c] = slot[c]
  <2>1. slot' = [slot EXCEPT ![b][k] = path]
    BY DEF Writes
  <2> HIDE DEF k
  <2> QED BY <1>1, <1>2, <2>1, SlotWrite
<1>4. /\ open' \in [Boards -> Seq(Note)] /\ open'[b] = notes
      /\ \A c \in Boards \ {b} : open'[c] = open[c]
  BY <1>2 DEF Writes
<1>5. ValueInv'
  <2> SUFFICES ASSUME NEW c \in Boards, NEW x \in AsValue PROVE OneValue(slot'[c][x], x)
    BY Zenon DEF ValueInv
  <2>1. OneValue(slot[c][x], x)
    BY Zenon DEF RegionsInv, ValueInv
  <2>2. CASE c # b
    BY <1>3, <2>1, <2>2, Zenon
  <2>3. CASE c = b /\ x # k
    <3>1. x \in SlotKeys \ {k}
      BY <2>3, Keys
    <3> QED BY <1>3, <2>1, <2>3, <3>1, Zenon
  <2>4. CASE c = b /\ x = k
    <3>1. x = a
      BY <2>4, Keys
    <3> QED BY <1>3, <2>4, <3>1, Zenon
  <2> QED BY <2>2, <2>3, <2>4
<1>6. ASSUME NEW c \in Boards \ raced' PROVE Faithful(c)'
  <2>1. c \notin raced /\ Faithful(c)
    BY <1>6, Zenon DEF RegionsInv
  <2>2. CASE c # b
    BY <1>3, <1>4, <2>1, <2>2, Zenon DEF Faithful
  <2>3. CASE c = b
    <3>0. Agrees(b, a, path, notes)
      BY <1>6, <2>3, Zenon
    <3> SUFFICES ASSUME NEW x \in Attrs
                 PROVE  SameStack(slot'[b][get_blackboard_key(x)], open'[b], x)
      BY <2>3, Zenon DEF Faithful
    <3>1. CASE get_blackboard_key(x) = k
      <4>1. SameStack(path, notes, x)
        BY <3>0, <3>1, Zenon DEF Agrees
      <4> QED BY <1>3, <1>4, <3>1, <4>1, Zenon
    <3>2. CASE get_blackboard_key(x) # k
      <4>1. get_blackboard_key(x) \in SlotKeys \ {k}
        BY <3>2, Keys
      <4>2. slot'[b][get_blackboard_key(x)] = slot[b][get_blackboard_key(x)]
        BY <1>3, <4>1, Zenon
      <4>3. SameStack(slot[b][get_blackboard_key(x)], open[b], x)
        BY <2>1, <2>3, Zenon DEF Faithful
      <4>4. Keep(notes, {x}) = Keep(open[b], {x})
        <5>1. x # a
          BY <3>2
        <5> QED BY <3>0, <5>1, Zenon DEF Agrees
      <4> QED BY <1>4, <4>2, <4>3, <4>4, Zenon DEF SameStack
    <3> QED BY <3>1, <3>2
  <2> QED BY <2>2, <2>3
<1> QED BY <1>3, <1>4, <1>5, <1>6, Zenon

(* The blackboards a call may be for.                                       *)
LEMMA TargetBoards ==
    ASSUME NEW t \in Threads, NEW a
    PROVE  Target(t, a) \cup {ScopeBoard(t, a)} \subseteq Boards
BY DEF Target, ScopeBoard, Boards

(* No call is in progress on a blackboard that stays without a race.        *)
LEMMA RaceNoted ==
    ASSUME RegionsInv, NEW t \in Threads, NEW b \in Boards, NoteRace(t, b), call[t].pc = "idle"
    PROVE  /\ raced \subseteq raced' /\ raced' \subseteq Boards
           /\ b \notin raced' => \A u \in Threads : ~InCall(u, b)
<1>1. raced \subseteq Boards
  BY DEF RegionsInv, RegionsType
<1>2. CASE \E u \in Threads \ {t} : InCall(u, b)
  <2>1. raced' = raced \cup {b}
    BY <1>2, Zenon DEF NoteRace, InCall
  <2> QED BY <1>1, <2>1
<1>3. CASE ~ \E u \in Threads \ {t} : InCall(u, b)
  <2>1. raced' = raced
    BY <1>3, Zenon DEF NoteRace, InCall
  <2>2. \A u \in Threads : ~InCall(u, b)
    BY <1>3, Zenon DEF InCall
  <2> QED BY <1>1, <2>1, <2>2
<1> QED BY <1>2, <1>3

(* The facts above by name.                                                 *)
LEMMA KeepOps ==
    \A p \in Seq(Note) : \A A, a :
        EndKept(p, A, a) /\ \A v : Node(a, v) \in Note => SetKept(p, A, a, v)
<1>1. ASSUME NEW A, NEW a PROVE \A p \in Seq(Note) : EndKept(p, A, a)
  BY KeepEnd, Zenon
<1>2. ASSUME NEW A, NEW a, NEW v, Node(a, v) \in Note PROVE \A p \in Seq(Note) : SetKept(p, A, a, v)
  BY <1>2, KeepSet DEF SetKept
<1> QED BY <1>1, <1>2, Zenon

(* end() and set() on the stack of an attribute.                            *)
EndStack(p, a) ==
    /\ Keep(DocEnd(p, a), {a}) = DocEnd(Keep(p, {a}), a)
    /\ \A x : x # a => Keep(DocEnd(p, a), {x}) = Keep(p, {x})

SetStack(p, a, v) ==
    /\ Keep(DocSet(p, a, v), {a}) = DocSet(Keep(p, {a}), a, v)
    /\ \A x : x # a => Keep(DocSet(p, a, v), {x}) = Keep(p, {x})

(* They change the stack of their attribute and no other.                   *)
LEMMA StackOps ==
    \A p \in Seq(Note) : \A a : /\ EndStack(p, a)
                                /\ \A v : Node(a, v) \in Note => SetStack(p, a, v)
<1> SUFFICES ASSUME NEW p \in Seq(Note), NEW a
             PROVE  EndStack(p, a) /\ \A v : Node(a, v) \in Note => SetStack(p, a, v)
  BY Zenon
<1>1. a \in {a} /\ \A x : x # a => a \notin {x}
  OBVIOUS
<1>2. EndStack(p, a)
  <2>1. Keep(DocEnd(p, a), {a}) = DocEnd(Keep(p, {a}), a)
    <3>1. EndKept(p, {a}, a)
      BY KeepOps, Zenon
    <3> QED BY <1>1, <3>1, Zenon DEF EndKept
  <2>2. ASSUME NEW x, x # a PROVE Keep(DocEnd(p, a), {x}) = Keep(p, {x})
    <3>1. a \notin {x} /\ EndKept(p, {x}, a)
      BY <1>1, <2>2, KeepOps, Zenon
    <3> QED BY <3>1, Zenon DEF EndKept
  <2> QED BY <2>1, <2>2, Zenon DEF EndStack
<1>3. ASSUME NEW v, Node(a, v) \in Note PROVE SetStack(p, a, v)
  <2>1. Keep(DocSet(p, a, v), {a}) = DocSet(Keep(p, {a}), a, v)
    <3>1. SetKept(p, {a}, a, v)
      BY <1>3, KeepOps, Zenon
    <3> QED BY <1>1, <3>1, Zenon DEF SetKept
  <2>2. ASSUME NEW x, x # a PROVE Keep(DocSet(p, a, v), {x}) = Keep(p, {x})
    <3>1. a \notin {x} /\ SetKept(p, {x}, a, v)
      BY <1>3, <1>1, <2>2, KeepOps, Zenon
    <3> QED BY <3>1, Zenon DEF SetKept
  <2> QED BY <2>1, <2>2, Zenon DEF SetStack
<1> QED BY <1>2, <1>3, Zenon

-----------------------------------------------------------------------------
(* Calls on a faithful blackboard keep it faithful                          *)

(* The stacks in the slot that a call for a reads.                          *)
LEMMA SlotStacks ==
    ASSUME RegionsInv, NEW b \in Boards \ raced, NEW a \in Attrs
    PROVE  /\ slot[b][get_blackboard_key(a)] \in Seq(Note) /\ open[b] \in Seq(Note)
           /\ \A x \in Attrs : get_blackboard_key(x) = get_blackboard_key(a) =>
                 SameStack(slot[b][get_blackboard_key(a)], open[b], x)
<1>1. slot[b][get_blackboard_key(a)] \in Seq(Note) /\ open[b] \in Seq(Note)
  BY Keys DEF RegionsInv, RegionsType
<1>2. Faithful(b)
  BY Zenon DEF RegionsInv
<1>3. ASSUME NEW x \in Attrs, get_blackboard_key(x) = get_blackboard_key(a)
      PROVE  SameStack(slot[b][get_blackboard_key(a)], open[b], x)
  BY <1>2, <1>3, Zenon DEF Faithful
<1> QED BY <1>1, <1>3, Zenon

(* begin().                                                                 *)
LEMMA BeginAgrees ==
    ASSUME RegionsInv, NEW b \in Boards \ raced, NEW a \in Attrs, NEW v, Node(a, v) \in Note
    PROVE  Agrees(b, a, Append(slot[b][get_blackboard_key(a)], Node(a, v)), Append(open[b], Node(a, v)))
<1> DEFINE p == slot[b][get_blackboard_key(a)]
           o == open[b]
           new == Node(a, v)
<1>1. /\ p \in Seq(Note) /\ o \in Seq(Note)
      /\ \A x \in Attrs : get_blackboard_key(x) = get_blackboard_key(a) => SameStack(p, o, x)
  BY SlotStacks, Zenon
<1>2. new[1] = a
  BY DEF Node
<1> HIDE DEF p, o, new
<1>3. ASSUME NEW x, SameStack(p, o, x) PROVE SameStack(Append(p, new), Append(o, new), x)
  <2>1. CASE a \in {x}
    <3>1. Keep(Append(p, new), {x}) = Append(Keep(p, {x}), new)
      BY <1>1, <1>2, <2>1, KeepAppend, Zenon DEF new
    <3>2. Keep(Append(o, new), {x}) = Append(Keep(o, {x}), new)
      BY <1>1, <1>2, <2>1, KeepAppend, Zenon DEF new
    <3> QED BY <1>3, <3>1, <3>2, Zenon DEF SameStack
  <2>2. CASE a \notin {x}
    <3>1. Keep(Append(p, new), {x}) = Keep(p, {x})
      BY <1>1, <1>2, <2>2, KeepAppend, Zenon DEF new
    <3>2. Keep(Append(o, new), {x}) = Keep(o, {x})
      BY <1>1, <1>2, <2>2, KeepAppend, Zenon DEF new
    <3> QED BY <1>3, <3>1, <3>2, Zenon DEF SameStack
  <2> QED BY <2>1, <2>2
<1>4. ASSUME NEW x \in Attrs \ {a} PROVE Keep(Append(o, new), {x}) = Keep(o, {x})
  <2>1. a \notin {x}
    OBVIOUS
  <2> QED BY <1>1, <1>2, <2>1, KeepAppend, Zenon DEF new
<1>5. /\ \A x \in Attrs : get_blackboard_key(x) = get_blackboard_key(a) =>
             SameStack(Append(p, new), Append(o, new), x)
      /\ \A x \in Attrs \ {a} : Keep(Append(o, new), {x}) = Keep(o, {x})
  BY <1>1, <1>3, <1>4, Zenon
<1> QED BY <1>5, Zenon DEF Agrees, p, o, new

(* end() of a merged attribute.                                             *)
LEMMA EndAgrees ==
    ASSUME RegionsInv, NEW b \in Boards \ raced, NEW a \in Attrs
    PROVE  Agrees(b, a, DocEnd(slot[b][get_blackboard_key(a)], a), DocEnd(open[b], a))
<1> DEFINE p == slot[b][get_blackboard_key(a)]
           o == open[b]
<1>1. /\ p \in Seq(Note) /\ o \in Seq(Note)
      /\ \A x \in Attrs : get_blackboard_key(x) = get_blackboard_key(a) => SameStack(p, o, x)
  BY SlotStacks, Zenon
<1> HIDE DEF p, o
<1>2. /\ Keep(DocEnd(p, a), {a}) = DocEnd(Keep(p, {a}), a)
      /\ Keep(DocEnd(o, a), {a}) = DocEnd(Keep(o, {a}), a)
      /\ \A x : x # a => /\ Keep(DocEnd(p, a), {x}) = Keep(p, {x})
                        /\ Keep(DocEnd(o, a), {x}) = Keep(o, {x})
  BY <1>1, StackOps, Zenon DEF EndStack
<1>3. ASSUME NEW x, SameStack(p, o, x) PROVE SameStack(DocEnd(p, a), DocEnd(o, a), x)
  <2>1. CASE x = a
    BY <1>2, <1>3, <2>1, Zenon DEF SameStack
  <2>2. CASE x # a
    BY <1>2, <1>3, <2>2, Zenon DEF SameStack
  <2> QED BY <2>1, <2>2
<1>4. ASSUME NEW x \in Attrs \ {a} PROVE Keep(DocEnd(o, a), {x}) = Keep(o, {x})
  <2>1. x # a
    OBVIOUS
  <2> QED BY <1>2, <2>1, Zenon
<1>5. /\ \A x \in Attrs : get_blackboard_key(x) = get_blackboard_key(a) =>
             SameStack(DocEnd(p, a), DocEnd(o, a), x)
      /\ \A x \in Attrs \ {a} : Keep(DocEnd(o, a), {x}) = Keep(o, {x})
  BY <1>1, <1>3, <1>4, Zenon
<1> QED BY <1>5, Zenon DEF Agrees, p, o

(* set() of a merged attribute.                                             *)
LEMMA SetAgrees ==
    ASSUME RegionsInv, NEW b \in Boards \ raced, NEW a \in Attrs, NEW v, Node(a, v) \in Note
    PROVE  Agrees(b, a, Append(DocEnd(slot[b][get_blackboard_key(a)], a), Node(a, v)),
                  DocSet(open[b], a, v))
<1> DEFINE p == slot[b][get_blackboard_key(a)]
           o == open[b]
           new == Node(a, v)
           d == DocEnd(p, a)
<1>1. /\ p \in Seq(Note) /\ o \in Seq(Note)
      /\ \A x \in Attrs : get_blackboard_key(x) = get_blackboard_key(a) => SameStack(p, o, x)
  BY SlotStacks, Zenon
<1>2. new[1] = a /\ new \in Note
  BY DEF Node
<1> HIDE DEF p, o, new
<1>3. d \in Seq(Note)
  BY <1>1, EndSeq, Zenon
<1>9. SetStack(o, a, v)
  BY <1>1, <1>2, StackOps, Zenon DEF new
<1>4. ASSUME NEW x, x # a, SameStack(p, o, x) PROVE SameStack(Append(d, new), DocSet(o, a, v), x)
  <2>1. a \notin {x}
    BY <1>4
  <2>2. Keep(Append(d, new), {x}) = Keep(d, {x})
    <3> HIDE DEF d
    <3> QED BY <1>2, <1>3, <2>1, KeepAppend, Zenon
  <2>3. Keep(d, {x}) = Keep(p, {x})
    BY <1>1, <1>4, StackOps, Zenon DEF EndStack
  <2>4. Keep(DocSet(o, a, v), {x}) = Keep(o, {x})
    BY <1>4, <1>9, Zenon DEF SetStack
  <2> QED BY <1>4, <2>2, <2>3, <2>4, Zenon DEF SameStack
<1>5. ASSUME SameStack(p, o, a) PROVE SameStack(Append(d, new), DocSet(o, a, v), a)
  <2>1. a \in {a}
    OBVIOUS
  <2>2. Keep(Append(d, new), {a}) = Append(Keep(d, {a}), new)
    <3> HIDE DEF d
    <3> QED BY <1>2, <1>3, <2>1, KeepAppend, Zenon
  <2>3. Keep(d, {a}) = DocEnd(Keep(p, {a}), a)
    BY <1>1, StackOps, Zenon DEF EndStack
  <2>4. Keep(DocSet(o, a, v), {a}) = DocSet(Keep(o, {a}), a, v)
    BY <1>9, Zenon DEF SetStack
  <2>5. DocSet(Keep(o, {a}), a, v) = Append(DocEnd(Keep(o, {a}), a), new)
    BY <1>1, SetOnStack, Zenon DEF new
  <2> QED BY <1>5, <2>2, <2>3, <2>4, <2>5, Zenon DEF SameStack
<1>6. ASSUME NEW x \in Attrs \ {a} PROVE Keep(DocSet(o, a, v), {x}) = Keep(o, {x})
  <2>1. x # a
    OBVIOUS
  <2> QED BY <1>9, <2>1, Zenon DEF SetStack
<1>7. /\ \A x \in Attrs : get_blackboard_key(x) = get_blackboard_key(a) =>
             SameStack(Append(d, new), DocSet(o, a, v), x)
      /\ \A x \in Attrs \ {a} : Keep(DocSet(o, a, v), {x}) = Keep(o, {x})
  <2> HIDE DEF d
  <2> QED BY <1>1, <1>4, <1>5, <1>6, Zenon
<1> QED BY <1>7, Zenon DEF Agrees, p, o, new, d

(* The stack of an as_value attribute is its slot.                          *)
LEMMA ValueStack ==
    ASSUME RegionsInv, NEW b \in Boards \ raced, NEW a \in AsValue
    PROVE  /\ open[b] \in Seq(Note) /\ OneValue(slot[b][a], a)
           /\ Keep(open[b], {a}) = slot[b][a]
<1>1. a \in Attrs /\ get_blackboard_key(a) = a
  BY Keys
<1>2. OneValue(slot[b][a], a)
  BY Zenon DEF RegionsInv, ValueInv
<1>3. open[b] \in Seq(Note) /\ SameStack(slot[b][a], open[b], a)
  BY <1>1, SlotStacks, Zenon
<1>4. slot[b][a] \in Seq(Note)
  BY <1>1, SlotStacks, Zenon
<1>5. Keep(slot[b][a], {a}) = slot[b][a]
  <2>1. CASE slot[b][a] = <<>>
    BY <2>1, KeepEmpty, Zenon
  <2>2. CASE slot[b][a] # <<>>
    <3>1. PICK v \in Values : slot[b][a] = <<Node(a, v)>>
      BY <1>2, <2>2, Zenon DEF OneValue
    <3>2. Node(a, v) \in Note /\ <<>> \in Seq(Note) /\ Node(a, v)[1] = a
      BY <1>1 DEF Note, Node
    <3>3. Keep(Append(<<>>, Node(a, v)), {a}) = Append(Keep(<<>>, {a}), Node(a, v))
      <4>1. Node(a, v)[1] \in {a}
        BY <3>2
      <4> QED BY <3>2, <4>1, KeepAppend, Zenon
    <3>4. <<Node(a, v)>> = Append(<<>>, Node(a, v))
      OBVIOUS
    <3> QED BY <3>1, <3>3, <3>4, KeepEmpty, Zenon
  <2> QED BY <2>1, <2>2
<1> QED BY <1>2, <1>3, <1>5, Zenon DEF SameStack

(* An as_value attribute is set.                                            *)
LEMMA ValueAgrees ==
    ASSUME RegionsInv, NEW b \in Boards \ raced, NEW a \in AsValue, NEW v \in Values
    PROVE  Agrees(b, a, <<Node(a, v)>>, DocSet(open[b], a, v))
<1> DEFINE o == open[b]
           s == slot[b][a]
           new == Node(a, v)
<1>1. o \in Seq(Note) /\ OneValue(s, a) /\ Keep(o, {a}) = s
  BY ValueStack, Zenon
<1>2. a \in Attrs /\ new \in Note /\ new[1] = a /\ <<>> \in Seq(Note)
  BY Keys DEF Note, Node
<1> HIDE DEF o, s
<1>9. SetStack(o, a, v)
  BY <1>1, <1>2, StackOps, Zenon
<1>3. DocSet(s, a, v) = <<new>>
  <2>1. CASE s = <<>>
    <3>1. DocSet(<<>>, a, v) = Append(<<>>, new)
      BY OfEmpty, Zenon DEF DocSet, Node
    <3>2. Append(<<>>, new) = <<new>>
      OBVIOUS
    <3> QED BY <2>1, <3>1, <3>2, Zenon
  <2>2. CASE s # <<>>
    <3>1. PICK w \in Values : s = <<Node(a, w)>>
      BY <1>1, <2>2, Zenon DEF OneValue
    <3>2. Node(a, w) \in Note /\ Node(a, w)[1] = a
      BY <1>2 DEF Note, Node
    <3>3. DocSet(Append(<<>>, Node(a, w)), a, v) = Append(<<>>, new)
      <4> DEFINE e == Node(a, w)
                 n == <<>>
      <4>1. e \in Note /\ e[1] = a /\ n \in Seq(Note)
        BY <1>2, <3>2, Zenon
      <4> HIDE DEF e, n
      <4>2. DocSet(Append(n, e), a, v) = Append(n, Node(a, v))
        BY <4>1, SetAppend
      <4> QED BY <4>2, Zenon DEF e, n
    <3>4. <<Node(a, w)>> = Append(<<>>, Node(a, w)) /\ Append(<<>>, new) = <<new>>
      OBVIOUS
    <3> QED BY <3>1, <3>3, <3>4, Zenon
  <2> QED BY <2>1, <2>2
<1>4. Keep(DocSet(o, a, v), {a}) = <<new>>
  <2>1. a \in {a}
    OBVIOUS
  <2>2. Keep(DocSet(o, a, v), {a}) = DocSet(Keep(o, {a}), a, v)
    BY <1>9, Zenon DEF SetStack
  <2> QED BY <1>1, <1>3, <2>2, Zenon
<1>5. Keep(<<new>>, {a}) = <<new>>
  <2>1. new[1] \in {a}
    BY <1>2
  <2>2. Keep(Append(<<>>, new), {a}) = Append(Keep(<<>>, {a}), new)
    <3> HIDE DEF new
    <3> QED BY <1>2, <2>1, KeepAppend, Zenon
  <2>3. <<new>> = Append(<<>>, new)
    OBVIOUS
  <2> QED BY <2>2, <2>3, KeepEmpty, Zenon
<1>6. ASSUME NEW x \in Attrs \ {a} PROVE Keep(DocSet(o, a, v), {x}) = Keep(o, {x})
  <2>1. x # a
    OBVIOUS
  <2> QED BY <1>9, <2>1, Zenon DEF SetStack
<1>7. ASSUME NEW x \in Attrs, get_blackboard_key(x) = get_blackboard_key(a)
      PROVE  SameStack(<<new>>, DocSet(o, a, v), x)
  <2>1. x = a
    BY <1>7, Keys
  <2> QED BY <1>4, <1>5, <2>1, Zenon DEF SameStack
<1> QED BY <1>6, <1>7, Zenon DEF Agrees, o

(* An as_value attribute is ended.                                          *)
LEMMA ValueEndAgrees ==
    ASSUME RegionsInv, NEW b \in Boards \ raced, NEW a \in AsValue
    PROVE  Agrees(b, a, <<>>, DocEnd(open[b], a))
<1> DEFINE o == open[b]
           s == slot[b][a]
<1>1. o \in Seq(Note) /\ OneValue(s, a) /\ Keep(o, {a}) = s
  BY ValueStack, Zenon
<1>2. a \in Attrs /\ <<>> \in Seq(Note)
  BY Keys
<1> HIDE DEF o, s
<1>3. DocEnd(s, a) = <<>>
  <2>1. CASE s = <<>>
    BY <2>1, OfEmpty, Zenon DEF DocEnd
  <2>2. CASE s # <<>>
    <3>1. PICK w \in Values : s = <<Node(a, w)>>
      BY <1>1, <2>2, Zenon DEF OneValue
    <3>2. Node(a, w) \in Note /\ Node(a, w)[1] = a
      BY <1>2 DEF Note, Node
    <3>3. DocEnd(Append(<<>>, Node(a, w)), a) = <<>>
      BY <1>2, <3>2, EndAppend, Zenon
    <3>4. <<Node(a, w)>> = Append(<<>>, Node(a, w))
      OBVIOUS
    <3> QED BY <3>1, <3>3, <3>4, Zenon
  <2> QED BY <2>1, <2>2
<1>4. Keep(DocEnd(o, a), {a}) = <<>>
  <2>1. a \in {a}
    OBVIOUS
  <2>2. Keep(DocEnd(o, a), {a}) = DocEnd(Keep(o, {a}), a)
    BY <1>1, StackOps, Zenon DEF EndStack
  <2> QED BY <1>1, <1>3, <2>2, Zenon
<1>6. ASSUME NEW x \in Attrs \ {a} PROVE Keep(DocEnd(o, a), {x}) = Keep(o, {x})
  <2>1. x # a
    OBVIOUS
  <2> QED BY <1>1, <2>1, StackOps, Zenon DEF EndStack
<1>7. ASSUME NEW x \in Attrs, get_blackboard_key(x) = get_blackboard_key(a)
      PROVE  SameStack(<<>>, DocEnd(o, a), x)
  <2>1. x = a
    BY <1>7, Keys
  <2> QED BY <1>4, <2>1, KeepEmpty, Zenon DEF SameStack
<1> QED BY <1>6, <1>7, Zenon DEF Agrees, o

-----------------------------------------------------------------------------
(* Steps                                                                    *)

(* Initially nothing is open.                                               *)
LEMMA RegionsInit == Init => RegionsInv
<1> SUFFICES ASSUME Init PROVE RegionsInv
  OBVIOUS
<1>1. RegionsType
  <2>1. <<>> \in Seq(Note) /\ Process \in Boards
    BY DEF Boards
  <2>2. IdleCall \in CallRec
    BY <2>1 DEF IdleCall, CallRec
  <2> QED BY <2>1, <2>2 DEF Init, RegionsType
<1>2. \A t \in Threads : call[t].pc = "idle"
  BY Zenon DEF Init, IdleCall
<1>3. CallInv /\ OneCall
  BY <1>2, Zenon DEF CallInv, OneCall, InCall
<1>4. ASSUME NEW b \in Boards, NEW k \in SlotKeys PROVE slot[b][k] = <<>> /\ open[b] = <<>>
  BY DEF Init
<1>5. ValueInv
  BY <1>4, Keys, Zenon DEF ValueInv, OneValue
<1>6. ASSUME NEW b \in Boards \ raced PROVE Faithful(b)
  BY <1>4, Keys, Zenon DEF Faithful, SameStack
<1> QED BY <1>1, <1>3, <1>5, <1>6, Zenon DEF RegionsInv

(* Steps that change neither the blackboards nor the calls.                 *)
LEMMA QuietStep ==
    ASSUME RegionsInv, slot' = slot, open' = open, call' = call,
           stack_error' \in [Threads -> BOOLEAN], raced \subseteq raced', raced' \subseteq Boards
    PROVE  RegionsInv'
<1>1. RegionsType'
  BY DEF RegionsInv, RegionsType
<1>2. CallInv' /\ ValueInv'
  BY Zenon DEF RegionsInv, CallInv, ValueInv
<1>3. \A b \in Boards \ raced' : b \in Boards \ raced
  OBVIOUS
<1>4. OneCall'
  BY <1>3, Zenon DEF RegionsInv, OneCall, InCall, Current
<1>5. \A b \in Boards \ raced' : Faithful(b)'
  BY <1>3, Zenon DEF RegionsInv, Faithful
<1> QED BY <1>1, <1>2, <1>4, <1>5, Zenon DEF RegionsInv

(* The call of a thread after it has read a slot.                           *)
LEMMA CallWrite ==
    ASSUME NEW t \in Threads, NEW c \in CallRec, call \in [Threads -> CallRec],
           call' = [call EXCEPT ![t] = c]
    PROVE  /\ call' \in [Threads -> CallRec] /\ call'[t] = c
           /\ \A u \in Threads \ {t} : call'[u] = call[u]
OBVIOUS

(* begin(), set() and end() read a slot.                                    *)
LEMMA ReadStep ==
    ASSUME RegionsInv, NEW t \in Threads, NEW b \in Boards, NEW a \in Attrs,
           NEW v \in Values \cup {None}, NEW pc \in {"begin", "set", "end"},
           pc \in {"begin", "set"} => a \notin AsValue /\ v \in Values,
           pc = "set" => a \in SetAttrs,
           call[t].pc = "idle", Read(t, pc, b, a, v), NoteRace(t, b),
           stack_error' = stack_error
    PROVE  RegionsInv'
<1> DEFINE c == [pc |-> pc, board |-> b, attr |-> a, value |-> v,
                 merged |-> slot[b][get_blackboard_key(a)]]
<1>1. /\ raced \subseteq raced' /\ raced' \subseteq Boards
      /\ b \notin raced' => \A u \in Threads : ~InCall(u, b)
  BY RaceNoted
<1>2. RegionsType /\ CallInv /\ OneCall /\ ValueInv /\ \A d \in Boards \ raced : Faithful(d)
  BY Zenon DEF RegionsInv
<1>3. slot' = slot /\ open' = open /\ call' = [call EXCEPT ![t] = c]
  BY DEF Read
<1>4. c \in CallRec
  <2>1. slot[b][get_blackboard_key(a)] \in Seq(Note)
    BY <1>2, Keys DEF RegionsType
  <2> QED BY <2>1 DEF CallRec
<1>5. c.pc = pc /\ c.board = b /\ c.attr = a /\ c.value = v /\ c.merged = slot[b][get_blackboard_key(a)]
  OBVIOUS
<1> HIDE DEF c
<1>6. /\ call' \in [Threads -> CallRec] /\ call'[t] = c
      /\ \A u \in Threads \ {t} : call'[u] = call[u]
  BY <1>2, <1>3, <1>4, CallWrite, Zenon DEF RegionsType
<1>7. RegionsType'
  BY <1>1, <1>2, <1>3, <1>6 DEF RegionsType
<1>8. CallInv'
  <2> SUFFICES ASSUME NEW u \in Threads, call'[u].pc # "idle" PROVE CallOk(call'[u])
    BY Zenon DEF CallInv
  <2>1. CASE u = t
    BY <1>5, <1>6, <2>1 DEF CallOk
  <2>2. CASE u # t
    BY <1>2, <1>6, <2>2, Zenon DEF CallInv
  <2> QED BY <2>1, <2>2
<1>9. OneCall'
  <2> SUFFICES ASSUME NEW d \in Boards \ raced', NEW u \in Threads, InCall(u, d)'
               PROVE  Current(u, d)' /\ \A w \in Threads \ {u} : ~InCall(w, d)'
    BY Zenon DEF OneCall
  <2>0. d \in Boards \ raced
    BY <1>1
  <2>1. \A w \in Threads \ {t} : InCall(w, d)' <=> InCall(w, d)
    BY <1>6, Zenon DEF InCall
  <2>2. InCall(t, d)' => d = b
    BY <1>5, <1>6, Zenon DEF InCall
  <2>3. CASE u = t
    <3>1. d = b
      BY <2>2, <2>3, Zenon
    <3>2. Current(t, d)'
      BY <1>3, <1>5, <1>6, <3>1, Zenon DEF Current
    <3>3. \A w \in Threads : ~InCall(w, d)
      BY <1>1, <3>1
    <3> QED BY <2>1, <2>3, <3>2, <3>3, Zenon
  <2>4. CASE u # t
    <3>1. InCall(u, d)
      BY <2>1, <2>4, Zenon
    <3>2. Current(u, d) /\ \A w \in Threads \ {u} : ~InCall(w, d)
      BY <1>2, <2>0, <3>1, Zenon DEF OneCall
    <3>3. d # b
      BY <1>1, <3>1
    <3>4. Current(u, d)'
      BY <1>3, <1>6, <2>4, <3>2, Zenon DEF Current
    <3> QED BY <2>1, <2>2, <3>2, <3>3, <3>4, Zenon
  <2> QED BY <2>3, <2>4
<1>10. ValueInv'
  BY <1>2, <1>3, Zenon DEF ValueInv
<1>11. ASSUME NEW d \in Boards \ raced' PROVE Faithful(d)'
  <2>1. d \in Boards \ raced
    BY <1>1
  <2> QED BY <1>2, <1>3, <2>1, Zenon DEF Faithful
<1> QED BY <1>7, <1>8, <1>9, <1>10, <1>11, Zenon DEF RegionsInv

(* A call that has read a slot writes it.                                   *)
LEMMA WriteBackStep ==
    ASSUME RegionsInv, NEW t \in Threads, call[t].pc # "idle",
           NEW path \in Seq(Note), NEW notes \in Seq(Note),
           Writes(call[t].board, call[t].attr, path, notes),
           call[t].board \notin raced => Agrees(call[t].board, call[t].attr, path, notes),
           call[t].attr \in AsValue => OneValue(path, call[t].attr),
           call' = [call EXCEPT ![t] = IdleCall], stack_error' = stack_error, raced' = raced
    PROVE  RegionsInv'
<1> DEFINE b == call[t].board
           a == call[t].attr
<1>1. RegionsType /\ CallInv /\ OneCall
  BY Zenon DEF RegionsInv
<1>2. b \in Boards /\ a \in Attrs
  BY <1>1 DEF RegionsType, CallRec, CallInv, CallOk
<1>3. /\ slot' \in [Boards -> [SlotKeys -> Seq(Note)]]
      /\ open' \in [Boards -> Seq(Note)]
      /\ \A c \in Boards \ {b} : slot'[c] = slot[c] /\ open'[c] = open[c]
      /\ ValueInv'
      /\ \A c \in Boards \ raced' : Faithful(c)'
  <2>1. /\ Writes(b, a, path, notes) /\ raced \subseteq raced'
        /\ b \notin raced' => Agrees(b, a, path, notes)
        /\ a \in AsValue => OneValue(path, a)
    OBVIOUS
  <2> HIDE DEF b, a
  <2> QED BY <1>2, <2>1, WriteStep
<1>4. IdleCall \in CallRec /\ IdleCall.pc = "idle"
  BY DEF IdleCall, CallRec, Boards
<1>5. /\ call' \in [Threads -> CallRec] /\ call'[t] = IdleCall
      /\ \A u \in Threads \ {t} : call'[u] = call[u]
  BY <1>1, <1>4, CallWrite, Zenon DEF RegionsType
<1>6. RegionsType'
  BY <1>1, <1>3, <1>5 DEF RegionsType
<1>7. CallInv'
  <2> SUFFICES ASSUME NEW u \in Threads, call'[u].pc # "idle" PROVE CallOk(call'[u])
    BY Zenon DEF CallInv
  <2>1. u # t
    BY <1>4, <1>5, Zenon
  <2> QED BY <1>1, <1>5, <2>1, Zenon DEF CallInv
<1>8. OneCall'
  <2> SUFFICES ASSUME NEW d \in Boards \ raced', NEW u \in Threads, InCall(u, d)'
               PROVE  Current(u, d)' /\ \A w \in Threads \ {u} : ~InCall(w, d)'
    BY Zenon DEF OneCall
  <2>1. \A w \in Threads \ {t} : InCall(w, d)' <=> InCall(w, d)
    BY <1>5, Zenon DEF InCall
  <2>2. ~InCall(t, d)'
    BY <1>4, <1>5, Zenon DEF InCall
  <2>3. u # t /\ InCall(u, d)
    BY <2>1, <2>2, Zenon
  <2>4. Current(u, d) /\ \A w \in Threads \ {u} : ~InCall(w, d)
    BY <1>1, <2>3, Zenon DEF OneCall
  <2>5. d # b
    BY <2>3, <2>4, Zenon DEF InCall
  <2>6. Current(u, d)'
    <3>1. slot'[d] = slot[d] /\ call'[u] = call[u]
      BY <1>3, <1>5, <2>3, <2>5, Zenon
    <3> QED BY <2>4, <3>1, Zenon DEF Current
  <2> QED BY <2>1, <2>2, <2>4, <2>6, Zenon
<1> QED BY <1>3, <1>6, <1>7, <1>8, Zenon DEF RegionsInv

(* What a call in progress has read.                                        *)
LEMMA InProgress ==
    ASSUME RegionsInv, NEW t \in Threads, call[t].pc # "idle"
    PROVE  /\ call[t].board \in Boards /\ call[t].attr \in Attrs
           /\ call[t].merged \in Seq(Note) /\ open[call[t].board] \in Seq(Note)
           /\ call[t].pc \in {"begin", "set"} =>
                 call[t].attr \notin AsValue /\ Node(call[t].attr, call[t].value) \in Note
           /\ call[t].pc = "set" => call[t].attr \in SetAttrs
           /\ call[t].board \notin raced =>
                 call[t].merged = slot[call[t].board][get_blackboard_key(call[t].attr)]
<1>1. RegionsType /\ CallInv /\ OneCall
  BY Zenon DEF RegionsInv
<1>2. CallOk(call[t])
  BY <1>1, Zenon DEF CallInv
<1>3. call[t] \in CallRec
  BY <1>1 DEF RegionsType
<1>4. call[t].board \in Boards /\ call[t].merged \in Seq(Note)
  BY <1>3 DEF CallRec
<1>5. open[call[t].board] \in Seq(Note)
  BY <1>1, <1>4 DEF RegionsType
<1>6. call[t].board \notin raced =>
          call[t].merged = slot[call[t].board][get_blackboard_key(call[t].attr)]
  BY <1>1, <1>4, Zenon DEF OneCall, InCall, Current
<1>7. /\ call[t].attr \in Attrs
      /\ call[t].pc \in {"begin", "set"} => call[t].attr \notin AsValue /\ call[t].value \in Values
      /\ call[t].pc = "set" => call[t].attr \in SetAttrs
  BY <1>2, Zenon DEF CallOk
<1>8. \A x \in Attrs, v \in Values : Node(x, v) \in Note
  BY DEF Node, Note
<1> QED BY <1>4, <1>5, <1>6, <1>7, <1>8, Zenon

(* The value that Entry::get returns.                                       *)
LEMMA GetValue ==
    ASSUME NEW p \in Seq(Note), NEW a
    PROVE  /\ entry_get(p, a) \in Values \cup {None}
           /\ Of(p, a) # {} => entry_get(p, a) \in Values
<1>1. CASE Of(p, a) = {}
  BY <1>1 DEF entry_get
<1>2. CASE Of(p, a) # {}
  <2>1. LastOf(p, a) \in Of(p, a)
    BY <1>2, LastIs
  <2>2. LastOf(p, a) \in 1 .. Len(p)
    BY <2>1 DEF Of
  <2>3. p[LastOf(p, a)] \in Note
    BY <2>2
  <2>4. p[LastOf(p, a)][2] \in Values
    BY <2>3 DEF Note
  <2> QED BY <1>2, <2>4 DEF entry_get
<1> QED BY <1>1, <1>2

(* handle_begin(), the second access of begin().                            *)
LEMMA BeginStep ==
    ASSUME RegionsInv, NEW t \in Threads, handle_begin(t)
    PROVE  RegionsInv'
<1> DEFINE b == call[t].board
           a == call[t].attr
           v == call[t].value
           path == Append(call[t].merged, Node(a, v))
           notes == Append(open[b], Node(a, v))
<1>1. call[t].pc = "begin" /\ call[t].pc # "idle" /\ call[t].pc \in {"begin", "set"}
  BY DEF handle_begin
<1>2. /\ b \in Boards /\ a \in Attrs /\ a \notin AsValue /\ Node(a, v) \in Note
      /\ call[t].merged \in Seq(Note) /\ open[b] \in Seq(Note)
      /\ b \notin raced => call[t].merged = slot[b][get_blackboard_key(a)]
  BY <1>1, InProgress, Zenon
<1>3. path \in Seq(Note) /\ notes \in Seq(Note)
  BY <1>2, AppendSeq, Zenon
<1>4. /\ slot' = [slot EXCEPT ![b][get_blackboard_key(a)] = path]
      /\ open' = [open EXCEPT ![b] = notes]
  BY <1>2, Zenon DEF handle_begin, Write, DocBegin, Node
<1>5. b \notin raced => Agrees(b, a, path, notes)
  <2> HIDE DEF a, b, v
  <2> QED BY <1>2, BeginAgrees, Zenon
<1>6. call' = [call EXCEPT ![t] = IdleCall] /\ stack_error' = stack_error /\ raced' = raced
  BY DEF handle_begin
<1> HIDE DEF path, notes
<1>7. Writes(b, a, path, notes)
  BY <1>4, Zenon DEF Writes
<1> QED BY <1>1, <1>2, <1>3, <1>5, <1>6, <1>7, WriteBackStep, Zenon

(* handle_set().                                                            *)
LEMMA SetStep ==
    ASSUME RegionsInv, NEW t \in Threads, handle_set(t)
    PROVE  RegionsInv'
<1> DEFINE b == call[t].board
           a == call[t].attr
           v == call[t].value
           path == Append(DocEnd(call[t].merged, a), Node(a, v))
           notes == DocSet(open[b], a, v)
<1>1. call[t].pc = "set" /\ call[t].pc # "idle" /\ call[t].pc \in {"begin", "set"}
  BY DEF handle_set
<1>2. /\ b \in Boards /\ a \in Attrs /\ a \notin AsValue /\ Node(a, v) \in Note
      /\ call[t].merged \in Seq(Note) /\ open[b] \in Seq(Note)
      /\ b \notin raced => call[t].merged = slot[b][get_blackboard_key(a)]
  BY <1>1, InProgress, Zenon
<1>3. path \in Seq(Note) /\ notes \in Seq(Note)
  BY <1>2, AppendSeq, EndSeq, SetSeq, Zenon
<1>4. /\ slot' = [slot EXCEPT ![b][get_blackboard_key(a)] = path]
      /\ open' = [open EXCEPT ![b] = notes]
  BY <1>2, Zenon DEF handle_set, Write, replace_first_in_path, remove_first_in_path, DocEnd, Node
<1>5. b \notin raced => Agrees(b, a, path, notes)
  <2> HIDE DEF a, b, v
  <2> QED BY <1>2, SetAgrees, Zenon
<1>6. call' = [call EXCEPT ![t] = IdleCall] /\ stack_error' = stack_error /\ raced' = raced
  BY DEF handle_set
<1> HIDE DEF path, notes
<1>7. Writes(b, a, path, notes)
  BY <1>4, Zenon DEF Writes
<1> QED BY <1>1, <1>2, <1>3, <1>5, <1>6, <1>7, WriteBackStep, Zenon

(* handle_end().                                                            *)
LEMMA EndStep ==
    ASSUME RegionsInv, NEW t \in Threads, handle_end(t)
    PROVE  RegionsInv'
<1> DEFINE b == call[t].board
           a == call[t].attr
           path == IF a \in AsValue THEN <<>> ELSE DocEnd(call[t].merged, a)
           notes == DocEnd(open[b], a)
<1>1. call[t].pc = "end" /\ call[t].pc # "idle"
  BY DEF handle_end
<1>2. /\ b \in Boards /\ a \in Attrs
      /\ call[t].merged \in Seq(Note) /\ open[b] \in Seq(Note)
      /\ b \notin raced => call[t].merged = slot[b][get_blackboard_key(a)]
  BY <1>1, InProgress, Zenon
<1>3. path \in Seq(Note) /\ notes \in Seq(Note)
  <2>1. DocEnd(call[t].merged, a) \in Seq(Note) /\ notes \in Seq(Note) /\ <<>> \in Seq(Note)
    BY <1>2, EndSeq
  <2> QED BY <2>1, Zenon
<1>4. /\ slot' = [slot EXCEPT ![b][get_blackboard_key(a)] = path]
      /\ open' = [open EXCEPT ![b] = notes]
  BY <1>2, Zenon DEF handle_end, Write, remove_first_in_path, DocEnd
<1>5. b \notin raced => Agrees(b, a, path, notes)
  <2> SUFFICES ASSUME b \notin raced PROVE Agrees(b, a, path, notes)
    OBVIOUS
  <2>1. b \in Boards \ raced
    BY <1>2
  <2>2. CASE a \in AsValue
    <3>1. path = <<>>
      BY <2>2
    <3>2. Agrees(b, a, <<>>, notes)
      <4> HIDE DEF a, b
      <4> QED BY <2>1, <2>2, ValueEndAgrees, Zenon
    <3> QED BY <3>1, <3>2, Zenon
  <2>3. CASE a \notin AsValue
    <3>1. path = DocEnd(slot[b][get_blackboard_key(a)], a)
      BY <1>2, <2>3, Zenon
    <3>2. Agrees(b, a, DocEnd(slot[b][get_blackboard_key(a)], a), notes)
      <4> HIDE DEF a, b
      <4> QED BY <1>2, <2>1, EndAgrees, Zenon
    <3> QED BY <3>1, <3>2, Zenon
  <2> QED BY <2>2, <2>3
<1>6. call' = [call EXCEPT ![t] = IdleCall] /\ stack_error' = stack_error /\ raced' = raced
  BY DEF handle_end
<1>7. a \in AsValue => OneValue(path, a)
  BY Zenon DEF OneValue
<1> HIDE DEF path, notes
<1>8. Writes(b, a, path, notes)
  BY <1>4, Zenon DEF Writes
<1> QED BY <1>1, <1>2, <1>3, <1>5, <1>6, <1>7, <1>8, WriteBackStep, Zenon

(* The single access of begin(), set() and exchange() of an as_value        *)
(* attribute.                                                               *)
LEMMA ValueStep ==
    ASSUME RegionsInv, NEW t \in Threads, NEW a \in Attrs, NEW v \in Values, WriteValue(t, a, v)
    PROVE  RegionsInv'
<1>1. a \in AsValue /\ call[t].pc = "idle"
  BY DEF WriteValue
<1>2. PICK b \in Target(t, a) \cup {ScopeBoard(t, a)} :
          /\ Write(b, a, <<<<a, v>>>>)
          /\ open' = [open EXCEPT ![b] = DocSet(open[b], a, v)]
          /\ NoteRace(t, b)
  BY Zenon DEF WriteValue
<1>3. b \in Boards
  BY TargetBoards
<1>4. /\ raced \subseteq raced' /\ raced' \subseteq Boards
      /\ b \notin raced' => \A u \in Threads : ~InCall(u, b)
  BY <1>1, <1>2, <1>3, RaceNoted
<1>5. RegionsType /\ CallInv /\ OneCall
  BY Zenon DEF RegionsInv
<1> DEFINE path == <<Node(a, v)>>
           notes == DocSet(open[b], a, v)
<1>6. Node(a, v) \in Note
  BY DEF Node, Note
<1>7. path \in Seq(Note) /\ notes \in Seq(Note)
  <2>1. path \in Seq(Note)
    BY <1>6
  <2>2. open[b] \in Seq(Note)
    BY <1>3, <1>5 DEF RegionsType
  <2> QED BY <1>6, <2>1, <2>2, SetSeq, Zenon
<1>8. Writes(b, a, path, notes)
  BY <1>2, Zenon DEF Writes, Write, Node
<1>9. b \notin raced' => Agrees(b, a, path, notes)
  <2> SUFFICES ASSUME b \notin raced' PROVE Agrees(b, a, path, notes)
    OBVIOUS
  <2>1. b \in Boards \ raced
    BY <1>3, <1>4
  <2> QED BY <1>1, <2>1, ValueAgrees, Zenon
<1>10. OneValue(path, a)
  BY Zenon DEF OneValue
<1> HIDE DEF path, notes
<1>11. /\ slot' \in [Boards -> [SlotKeys -> Seq(Note)]]
       /\ open' \in [Boards -> Seq(Note)]
       /\ \A c \in Boards \ {b} : slot'[c] = slot[c] /\ open'[c] = open[c]
       /\ ValueInv'
       /\ \A c \in Boards \ raced' : Faithful(c)'
  BY <1>3, <1>4, <1>7, <1>8, <1>9, <1>10, WriteStep
<1>12. call' = call /\ stack_error' = stack_error
  BY DEF WriteValue
<1>13. RegionsType' /\ CallInv'
  BY <1>4, <1>5, <1>11, <1>12 DEF RegionsType, CallInv
<1>14. OneCall'
  <2> SUFFICES ASSUME NEW d \in Boards \ raced', NEW u \in Threads, InCall(u, d)'
               PROVE  Current(u, d)' /\ \A w \in Threads \ {u} : ~InCall(w, d)'
    BY Zenon DEF OneCall
  <2>1. \A w \in Threads : InCall(w, d)' <=> InCall(w, d)
    BY <1>12, Zenon DEF InCall
  <2>2. d \in Boards \ raced
    BY <1>4
  <2>3. Current(u, d) /\ \A w \in Threads \ {u} : ~InCall(w, d)
    BY <1>5, <2>1, <2>2, Zenon DEF OneCall
  <2>4. d # b
    BY <1>4, <2>1
  <2>5. slot'[d] = slot[d]
    BY <1>11, <2>4, Zenon
  <2> QED BY <1>12, <2>1, <2>3, <2>5, Zenon DEF Current
<1> QED BY <1>11, <1>13, <1>14, Zenon DEF RegionsInv

(* end() either fails or reads.                                             *)
LEMMA EndReadStep ==
    ASSUME RegionsInv, NEW t \in Threads, NEW a \in Attrs, NEW v, end(t, a, v)
    PROVE  RegionsInv'
<1>1. call[t].pc = "idle"
  BY DEF end
<1>2. PICK b \in Target(t, a) :
          /\ NoteRace(t, b)
          /\ \/ /\ stack_error' = [stack_error EXCEPT ![t] = TRUE]
                /\ slot' = slot /\ call' = call /\ open' = open
             \/ /\ Read(t, "end", b, a, entry_get(slot[b][get_blackboard_key(a)], a))
                /\ stack_error' = stack_error
  BY DEF end
<1>3. b \in Boards
  BY TargetBoards
<1>4. raced \subseteq raced' /\ raced' \subseteq Boards
  BY <1>1, <1>2, <1>3, RaceNoted
<1>5. stack_error \in [Threads -> BOOLEAN] /\ slot[b][get_blackboard_key(a)] \in Seq(Note)
  BY <1>3, Keys DEF RegionsInv, RegionsType
<1>6. CASE /\ stack_error' = [stack_error EXCEPT ![t] = TRUE]
           /\ slot' = slot /\ call' = call /\ open' = open
  <2>1. stack_error' \in [Threads -> BOOLEAN]
    BY <1>5, <1>6
  <2> QED BY <1>4, <1>6, <2>1, QuietStep
<1>7. CASE /\ Read(t, "end", b, a, entry_get(slot[b][get_blackboard_key(a)], a))
           /\ stack_error' = stack_error
  <2> DEFINE w == entry_get(slot[b][get_blackboard_key(a)], a)
  <2>1. w \in Values \cup {None}
    BY <1>5, GetValue
  <2> HIDE DEF w
  <2>2. Read(t, "end", b, a, w)
    BY <1>7, Zenon DEF w
  <2> QED BY <1>1, <1>2, <1>3, <1>7, <2>1, <2>2, ReadStep
<1> QED BY <1>2, <1>6, <1>7, Zenon

(* Every step keeps the invariant.                                          *)
LEMMA RegionsNext == RegionsInv /\ [Next]_vars => RegionsInv'
<1> SUFFICES ASSUME RegionsInv, [Next]_vars PROVE RegionsInv'
  OBVIOUS
<1>0. stack_error \in [Threads -> BOOLEAN] /\ raced \subseteq Boards
  BY DEF RegionsInv, RegionsType
<1>1. CASE UNCHANGED vars
  BY <1>0, <1>1, QuietStep DEF vars
<1>2. ASSUME NEW t \in Threads, NEW a \in Attrs, NEW v \in Values, begin(t, a, v)
      PROVE  RegionsInv'
  <2>1. PICK b \in Target(t, a) : Read(t, "begin", b, a, v) /\ NoteRace(t, b)
    BY <1>2, Zenon DEF begin
  <2>2. call[t].pc = "idle" /\ a \notin AsValue /\ stack_error' = stack_error
    BY <1>2 DEF begin
  <2>3. b \in Boards
    BY TargetBoards
  <2> QED BY <2>1, <2>2, <2>3, ReadStep
<1>3. ASSUME NEW t \in Threads, NEW a \in Attrs, NEW v \in Values, set(t, a, v)
      PROVE  RegionsInv'
  <2>1. PICK b \in Target(t, a) : Read(t, "set", b, a, v) /\ NoteRace(t, b)
    BY <1>3, Zenon DEF set
  <2>2. call[t].pc = "idle" /\ a \notin AsValue /\ a \in SetAttrs /\ stack_error' = stack_error
    BY <1>3 DEF set
  <2>3. b \in Boards
    BY TargetBoards
  <2> QED BY <2>1, <2>2, <2>3, ReadStep
<1>4. ASSUME NEW t \in Threads, Ignored(t) PROVE RegionsInv'
  BY <1>0, <1>4, QuietStep DEF Ignored, vars
<1>5. CASE Next
  BY <1>2, <1>3, <1>4, <1>5, ValueStep, EndReadStep, BeginStep, SetStep, EndStep, Zenon DEF Next
<1> QED BY <1>1, <1>5

(* The invariant of the annotation core.                                    *)
LEMMA RegionsInvariant == Spec => []RegionsInv
BY RegionsInit, RegionsNext, PTL DEF Spec

-----------------------------------------------------------------------------
(* A merged slot keeps a separate stack for every attribute, whatever the   *)
(* threads, channels and attributes: on a blackboard without overlapping    *)
(* calls, begin, set and end of one attribute never disturb the values of   *)
(* another one in the same slot.                                            *)
THEOREM StacksAreFaithful == Spec => []StacksFaithful
<1>1. RegionsInv => StacksFaithful
  BY Zenon DEF RegionsInv, Faithful, SameStack, StacksFaithful, ValuesOf
<1> QED BY <1>1, RegionsInvariant, PTL

(* get() and the pre_end callbacks see the innermost open value.            *)
THEOREM CurrentValuesExact == Spec => []CurrentValueExact
<1>1. ASSUME RegionsInv PROVE CurrentValueExact
  <2> SUFFICES ASSUME NEW b \in Boards \ raced, NEW a \in Attrs
               PROVE  LET current == ValuesOf(open[b], a)
                      IN entry_get(slot[b][get_blackboard_key(a)], a) =
                            IF current = <<>> THEN None ELSE current[Len(current)][2]
    BY Zenon DEF CurrentValueExact
  <2> DEFINE p == slot[b][get_blackboard_key(a)]
  <2>1. p \in Seq(Note) /\ SameStack(p, open[b], a)
    BY <1>1, SlotStacks, Zenon
  <2> HIDE DEF p
  <2>2. entry_get(p, a) = IF Keep(p, {a}) = <<>> THEN None
                          ELSE Keep(p, {a})[Len(Keep(p, {a}))][2]
    BY <2>1, GetOnStack, Zenon
  <2>3. Keep(p, {a}) = ValuesOf(open[b], a)
    BY <2>1, Zenon DEF SameStack, ValuesOf
  <2> QED BY <2>2, <2>3, Zenon DEF p
<1> QED BY <1>1, RegionsInvariant, PTL

(* An attribute has no place in a path.                                     *)
Empty(p, a) == Of(p, a) = {}

-----------------------------------------------------------------------------
(* The nesting of region attributes                                         *)

Regs == {a \in Attrs : get_blackboard_key(a) = "REGION_KEY"}

(* set() moves a node to the leaf, so that it keeps the nesting only of     *)
(* attributes that are not region attributes.                               *)
NoRegionSet == \A x \in SetAttrs : get_blackboard_key(x) # "REGION_KEY"

Nested(b) == slot[b]["REGION_KEY"] = Keep(open[b], Regs)

NestInv == NoRegionSet => \A b \in Boards \ raced : Nested(b)

(* The path and the history agree on the nesting of the region attributes.  *)
AgreesNested(b, a, path, notes) ==
    /\ a \in Regs => path = Keep(notes, Regs)
    /\ a \notin Regs => Keep(notes, Regs) = Keep(open[b], Regs)

(* What a write keeps of the nesting.                                       *)
LEMMA NestWrite ==
    ASSUME RegionsInv, NestInv, NEW b \in Boards, NEW a \in Attrs,
           NEW path \in Seq(Note), NEW notes \in Seq(Note),
           Writes(b, a, path, notes), raced \subseteq raced',
           NoRegionSet /\ b \notin raced' => AgreesNested(b, a, path, notes)
    PROVE  NestInv'
<1> DEFINE k == get_blackboard_key(a)
<1>1. k \in SlotKeys /\ "REGION_KEY" \in SlotKeys /\ (a \in Regs <=> k = "REGION_KEY")
  BY Keys DEF Regs
<1>2. /\ slot \in [Boards -> [SlotKeys -> Seq(Note)]] /\ open \in [Boards -> Seq(Note)]
  BY DEF RegionsInv, RegionsType
<1>3. /\ slot'[b][k] = path
      /\ \A j \in SlotKeys \ {k} : slot'[b][j] = slot[b][j]
      /\ \A c \in Boards \ {b} : slot'[c] = slot[c]
  <2>1. slot' = [slot EXCEPT ![b][k] = path]
    BY DEF Writes
  <2> HIDE DEF k
  <2> QED BY <1>1, <1>2, <2>1, SlotWrite
<1>4. open'[b] = notes /\ \A c \in Boards \ {b} : open'[c] = open[c]
  BY <1>2 DEF Writes
<1> SUFFICES ASSUME NoRegionSet, NEW c \in Boards \ raced' PROVE Nested(c)'
  BY Zenon DEF NestInv, NoRegionSet
<1>5. Nested(c)
  BY Zenon DEF NestInv
<1>6. CASE c # b
  BY <1>3, <1>4, <1>5, <1>6, Zenon DEF Nested
<1>7. CASE c = b
  <2>1. AgreesNested(b, a, path, notes)
    BY <1>7, Zenon
  <2>2. CASE a \in Regs
    BY <1>1, <1>3, <1>4, <1>7, <2>1, <2>2, Zenon DEF AgreesNested, Nested
  <2>3. CASE a \notin Regs
    <3>1. slot'[b]["REGION_KEY"] = slot[b]["REGION_KEY"]
      BY <1>1, <1>3, <2>3
    <3> QED BY <1>4, <1>5, <1>7, <2>1, <2>3, <3>1, Zenon DEF AgreesNested, Nested
  <2> QED BY <2>2, <2>3
<1> QED BY <1>6, <1>7

(* Steps that leave the blackboards alone.                                  *)
LEMMA NestQuiet ==
    ASSUME NestInv, slot' = slot, open' = open, raced \subseteq raced'
    PROVE  NestInv'
<1>1. \A b \in Boards \ raced' : b \in Boards \ raced
  OBVIOUS
<1> QED BY <1>1, Zenon DEF NestInv, NoRegionSet, Nested

(* What the calls in progress have read.                                    *)
LEMMA NestRead ==
    ASSUME RegionsInv, NestInv, NoRegionSet, NEW t \in Threads, call[t].pc # "idle",
           call[t].board \notin raced, call[t].attr \in Regs
    PROVE  call[t].merged = Keep(open[call[t].board], Regs)
<1>1. /\ call[t].board \in Boards
      /\ call[t].merged = slot[call[t].board][get_blackboard_key(call[t].attr)]
  BY InProgress, Zenon
<1>2. get_blackboard_key(call[t].attr) = "REGION_KEY"
  BY DEF Regs
<1>3. Nested(call[t].board)
  BY <1>1, Zenon DEF NestInv
<1> QED BY <1>1, <1>2, <1>3, Zenon DEF Nested

(* handle_begin() puts the region below the open ones.                      *)
LEMMA NestBegin ==
    ASSUME RegionsInv, NestInv, NEW t \in Threads, handle_begin(t)
    PROVE  NestInv'
<1> DEFINE b == call[t].board
           a == call[t].attr
           v == call[t].value
           new == Node(a, v)
           path == Append(call[t].merged, new)
           notes == Append(open[b], new)
<1>1. call[t].pc = "begin" /\ call[t].pc # "idle" /\ call[t].pc \in {"begin", "set"}
  BY DEF handle_begin
<1>2. /\ b \in Boards /\ a \in Attrs /\ a \notin AsValue /\ new \in Note
      /\ call[t].merged \in Seq(Note) /\ open[b] \in Seq(Note)
  BY <1>1, InProgress, Zenon
<1>3. path \in Seq(Note) /\ notes \in Seq(Note)
  BY <1>2, AppendSeq, Zenon
<1>4. Writes(b, a, path, notes)
  BY <1>2, Zenon DEF handle_begin, Write, DocBegin, Node, Writes
<1>5. raced' = raced
  BY DEF handle_begin
<1>6. new[1] = a
  BY DEF Node
<1>7. NoRegionSet /\ b \notin raced' => AgreesNested(b, a, path, notes)
  <2> SUFFICES ASSUME NoRegionSet, b \notin raced PROVE AgreesNested(b, a, path, notes)
    BY <1>5, Zenon
  <2>1. a \in Regs => call[t].merged = Keep(open[b], Regs)
    BY <1>1, NestRead, Zenon
  <2> HIDE DEF a, b, new
  <2>2. /\ new[1] \in Regs => Keep(notes, Regs) = Append(Keep(open[b], Regs), new)
        /\ new[1] \notin Regs => Keep(notes, Regs) = Keep(open[b], Regs)
    BY <1>2, KeepAppend, Zenon
  <2> QED BY <1>6, <2>1, <2>2, Zenon DEF AgreesNested
<1> HIDE DEF path, notes, a, b, new
<1> QED BY <1>2, <1>3, <1>4, <1>5, <1>7, NestWrite

(* handle_set() changes the nesting of no region.                           *)
LEMMA NestSet ==
    ASSUME RegionsInv, NestInv, NEW t \in Threads, handle_set(t)
    PROVE  NestInv'
<1> DEFINE b == call[t].board
           a == call[t].attr
           v == call[t].value
           path == Append(DocEnd(call[t].merged, a), Node(a, v))
           notes == DocSet(open[b], a, v)
<1>1. call[t].pc = "set" /\ call[t].pc # "idle" /\ call[t].pc \in {"begin", "set"}
  BY DEF handle_set
<1>2. /\ b \in Boards /\ a \in Attrs /\ a \in SetAttrs /\ Node(a, v) \in Note
      /\ call[t].merged \in Seq(Note) /\ open[b] \in Seq(Note)
  BY <1>1, InProgress, Zenon
<1>3. path \in Seq(Note) /\ notes \in Seq(Note)
  BY <1>2, AppendSeq, EndSeq, SetSeq, Zenon
<1>4. Writes(b, a, path, notes)
  BY <1>2, Zenon DEF handle_set, Write, replace_first_in_path, remove_first_in_path, DocEnd,
                     Node, Writes
<1>5. raced' = raced
  BY DEF handle_set
<1>6. NoRegionSet /\ b \notin raced' => AgreesNested(b, a, path, notes)
  <2> SUFFICES ASSUME NoRegionSet PROVE AgreesNested(b, a, path, notes)
    OBVIOUS
  <2>1. a \notin Regs
    BY <1>2, Zenon DEF NoRegionSet, Regs
  <2> HIDE DEF a, b, v
  <2>2. SetKept(open[b], Regs, a, v)
    BY <1>2, KeepOps, Zenon
  <2> QED BY <2>1, <2>2, Zenon DEF SetKept, AgreesNested
<1> HIDE DEF path, notes, a, b, v
<1> QED BY <1>2, <1>3, <1>4, <1>5, <1>6, NestWrite

(* handle_end() takes one region out.                                       *)
LEMMA NestEnd ==
    ASSUME RegionsInv, NestInv, NEW t \in Threads, handle_end(t)
    PROVE  NestInv'
<1> DEFINE b == call[t].board
           a == call[t].attr
           path == IF a \in AsValue THEN <<>> ELSE DocEnd(call[t].merged, a)
           notes == DocEnd(open[b], a)
<1>1. call[t].pc = "end" /\ call[t].pc # "idle"
  BY DEF handle_end
<1>2. /\ b \in Boards /\ a \in Attrs
      /\ call[t].merged \in Seq(Note) /\ open[b] \in Seq(Note)
  BY <1>1, InProgress, Zenon
<1>3. path \in Seq(Note) /\ notes \in Seq(Note)
  <2>1. DocEnd(call[t].merged, a) \in Seq(Note) /\ notes \in Seq(Note) /\ <<>> \in Seq(Note)
    BY <1>2, EndSeq
  <2> QED BY <2>1, Zenon
<1>4. Writes(b, a, path, notes)
  BY <1>2, Zenon DEF handle_end, Write, remove_first_in_path, DocEnd, Writes
<1>5. raced' = raced
  BY DEF handle_end
<1>6. NoRegionSet /\ b \notin raced' => AgreesNested(b, a, path, notes)
  <2> SUFFICES ASSUME NoRegionSet, b \notin raced PROVE AgreesNested(b, a, path, notes)
    BY <1>5, Zenon
  <2>1. a \in Regs => call[t].merged = Keep(open[b], Regs)
    BY <1>1, NestRead, Zenon
  <2>2. a \in Regs => path = DocEnd(call[t].merged, a)
    <3>1. a \in Regs => a \notin AsValue
      BY Keys DEF Regs
    <3> QED BY <3>1, Zenon
  <2> HIDE DEF a, b, path
  <2>3. EndKept(open[b], Regs, a)
    BY <1>2, KeepOps, Zenon
  <2> QED BY <2>1, <2>2, <2>3, Zenon DEF EndKept, AgreesNested
<1> HIDE DEF path, notes, a, b
<1> QED BY <1>2, <1>3, <1>4, <1>5, <1>6, NestWrite

(* as_value attributes are not in the region slot.                          *)
LEMMA NestValue ==
    ASSUME RegionsInv, NestInv, NEW t \in Threads, NEW a \in Attrs, NEW v \in Values,
           WriteValue(t, a, v)
    PROVE  NestInv'
<1>1. a \in AsValue /\ call[t].pc = "idle"
  BY DEF WriteValue
<1>2. PICK b \in Target(t, a) \cup {ScopeBoard(t, a)} :
          /\ Write(b, a, <<<<a, v>>>>)
          /\ open' = [open EXCEPT ![b] = DocSet(open[b], a, v)]
          /\ NoteRace(t, b)
  BY Zenon DEF WriteValue
<1>3. b \in Boards
  BY TargetBoards
<1>4. raced \subseteq raced'
  BY <1>1, <1>2, <1>3, RaceNoted
<1> DEFINE path == <<Node(a, v)>>
           notes == DocSet(open[b], a, v)
<1>6. Node(a, v) \in Note /\ open[b] \in Seq(Note)
  BY <1>3 DEF Node, Note, RegionsInv, RegionsType
<1>7. path \in Seq(Note) /\ notes \in Seq(Note)
  <2>1. path \in Seq(Note)
    BY <1>6
  <2> QED BY <1>6, <2>1, SetSeq, Zenon
<1>8. Writes(b, a, path, notes)
  BY <1>2, Zenon DEF Writes, Write, Node
<1>9. AgreesNested(b, a, path, notes)
  <2>1. a \notin Regs
    BY <1>1, Keys DEF Regs
  <2>2. SetKept(open[b], Regs, a, v)
    BY <1>6, KeepOps, Zenon
  <2> QED BY <2>1, <2>2, Zenon DEF SetKept, AgreesNested
<1> HIDE DEF path, notes
<1> QED BY <1>3, <1>4, <1>7, <1>8, <1>9, NestWrite

(* Every step keeps the nesting.                                            *)
LEMMA NestNext == RegionsInv /\ NestInv /\ [Next]_vars => NestInv'
<1> SUFFICES ASSUME RegionsInv, NestInv, [Next]_vars PROVE NestInv'
  OBVIOUS
<1>1. CASE UNCHANGED vars
  BY <1>1, NestQuiet DEF vars
<1>2. ASSUME NEW t \in Threads, NEW a \in Attrs, NEW v, begin(t, a, v) \/ set(t, a, v) \/ end(t, a, v)
      PROVE  NestInv'
  <2>1. /\ slot' = slot /\ open' = open /\ call[t].pc = "idle"
        /\ \E b \in Target(t, a) : NoteRace(t, b)
    BY <1>2 DEF begin, set, end, Read
  <2>2. PICK b \in Target(t, a) : NoteRace(t, b)
    BY <2>1, Zenon
  <2>3. b \in Boards
    BY TargetBoards
  <2>4. raced \subseteq raced'
    BY <2>1, <2>2, <2>3, RaceNoted
  <2> QED BY <2>1, <2>4, NestQuiet
<1>3. ASSUME NEW t \in Threads, Ignored(t) PROVE NestInv'
  BY <1>3, NestQuiet DEF Ignored, vars
<1>4. CASE Next
  BY <1>2, <1>3, <1>4, NestValue, NestBegin, NestSet, NestEnd, Zenon DEF Next
<1> QED BY <1>1, <1>4

(* The invariant with the nesting.                                          *)
LEMMA NestInvariant == Spec => [](RegionsInv /\ NestInv)
<1>1. Init => NestInv
  <2> SUFFICES ASSUME Init, NEW b \in Boards PROVE Nested(b)
    BY Zenon DEF NestInv
  <2>1. slot[b]["REGION_KEY"] = <<>> /\ open[b] = <<>>
    BY Keys DEF Init
  <2> QED BY <2>1, KeepEmpty, Zenon DEF Nested
<1> QED BY <1>1, NestNext, RegionsInit, RegionsNext, PTL DEF Spec

(* The region slot is the call path of the program, whatever the threads,   *)
(* channels and attributes, when set() is used for no region attribute.     *)
THEOREM NestingIsExact ==
    ASSUME \A x \in SetAttrs : get_blackboard_key(x) # "REGION_KEY"
    PROVE  Spec => []NestingExact
<1>1. RegionsInv /\ NestInv => NestingExact
  BY Zenon DEF NestInv, NoRegionSet, Nested, Regs, NestingExact
<1> QED BY <1>1, NestInvariant, PTL

-----------------------------------------------------------------------------
(* Stack errors                                                             *)

(* A slot and the open annotations hold the same innermost value.           *)
LEMMA SameValue ==
    ASSUME RegionsInv, NEW b \in Boards \ raced, NEW a \in Attrs
    PROVE  /\ Of(slot[b][get_blackboard_key(a)], a) = {} <=> Of(Keep(open[b], SameSlot(a)), a) = {}
           /\ entry_get(slot[b][get_blackboard_key(a)], a) = entry_get(open[b], a)
<1> DEFINE p == slot[b][get_blackboard_key(a)]
           o == open[b]
           M == SameSlot(a)
           A == {a}
<1>1. p \in Seq(Note) /\ o \in Seq(Note) /\ Keep(p, A) = Keep(o, A)
  BY SlotStacks, Zenon DEF SameStack
<1>2. a \in A /\ a \in M
  BY DEF SameSlot
<1> HIDE DEF p, o, M, A
<1>3. Empty(Keep(p, A), a) <=> Empty(p, a)
  BY <1>1, <1>2, KeepGet DEF Empty
<1>4. Empty(Keep(o, A), a) <=> Empty(o, a)
  BY <1>1, <1>2, KeepGet DEF Empty
<1>5. Empty(Keep(o, M), a) <=> Empty(o, a)
  BY <1>1, <1>2, KeepGet DEF Empty
<1>6. entry_get(Keep(p, A), a) = entry_get(p, a) /\ entry_get(Keep(o, A), a) = entry_get(o, a)
  BY <1>1, <1>2, KeepGet
<1>7. (Empty(p, a) <=> Empty(Keep(o, M), a)) /\ entry_get(p, a) = entry_get(o, a)
  BY <1>1, <1>3, <1>4, <1>5, <1>6, Zenon
<1> QED BY <1>7, Zenon DEF p, o, M, Empty

(* A slot that is not the unaligned one lists the open annotations of its   *)
(* attributes in their order.                                               *)
LEMMA SlotIsMates ==
    ASSUME RegionsInv, NestInv, NoRegionSet, NEW b \in Boards \ raced, NEW a \in Attrs \ Unaligned
    PROVE  slot[b][get_blackboard_key(a)] = Keep(open[b], SameSlot(a))
<1>1. CASE a \in AsValue
  <2>1. SameSlot(a) = {a}
    BY <1>1, Keys DEF SameSlot
  <2>2. get_blackboard_key(a) = a /\ Keep(open[b], {a}) = slot[b][a]
    BY <1>1, Keys, ValueStack, Zenon
  <2> QED BY <2>1, <2>2, Zenon
<1>2. CASE a \notin AsValue
  <2>1. get_blackboard_key(a) = "REGION_KEY"
    BY <1>2 DEF get_blackboard_key
  <2>2. SameSlot(a) = Regs
    BY <2>1 DEF SameSlot, Regs
  <2>3. Nested(b)
    BY Zenon DEF NestInv
  <2> QED BY <2>1, <2>2, <2>3, Zenon DEF Nested
<1> QED BY <1>1, <1>2

(* end() fails exactly for a mistake of the program.                        *)
LEMMA MismatchIffMistake ==
    ASSUME RegionsInv, NestInv, AllowOverlap \/ NoRegionSet, NEW b \in Boards \ raced, NEW a \in Attrs
    PROVE  StackMismatch(slot[b][get_blackboard_key(a)], a) <=> Mistake(b, a)
<1> DEFINE p == slot[b][get_blackboard_key(a)]
           m == Keep(open[b], SameSlot(a))
<1>1. p \in Seq(Note)
  BY SlotStacks, Zenon
<1>2. Empty(p, a) <=> Empty(m, a)
  BY SameValue, Zenon DEF Empty
<1>3. ~AllowOverlap /\ a \notin Unaligned => p = m
  BY SlotIsMates
<1>4. Mistake(b, a) <=> \/ Empty(m, a)
                        \/ a \notin Unaligned /\ ~AllowOverlap /\ m[Len(m)][1] # a
  BY Zenon DEF Mistake, Empty
<1> HIDE DEF p, m
<1>5. StackMismatch(p, a) <=> \/ Empty(p, a)
                              \/ a \notin Unaligned /\ ~AllowOverlap /\ p[Len(p)][1] # a
  <2>1. CASE Empty(p, a)
    <3>1. entry_get(p, a) = None
      BY <2>1, Zenon DEF entry_get, Empty
    <3> QED BY <2>1, <3>1, Zenon DEF StackMismatch, Empty
  <2>2. CASE ~Empty(p, a)
    <3>1. entry_get(p, a) \in Values
      BY <1>1, <2>2, GetValue DEF Empty
    <3>2. entry_get(p, a) # None
      BY <3>1, RegionsAssumption DEF RegionsAssumption
    <3> QED BY <2>2, <3>2, Zenon DEF StackMismatch, Empty
  <2> QED BY <2>1, <2>2
<1>6. StackMismatch(p, a) <=> Mistake(b, a)
  <2>1. CASE ~AllowOverlap /\ a \notin Unaligned
    BY <1>3, <1>4, <1>5, <2>1, Zenon
  <2>2. CASE ~(~AllowOverlap /\ a \notin Unaligned)
    BY <1>2, <1>4, <1>5, <2>2, Zenon
  <2> QED BY <2>1, <2>2
<1> QED BY <1>6, Zenon DEF p

(* Every step keeps the mistakes and the errors in line.                    *)
LEMMA ErrorNext ==
    ASSUME AllowOverlap \/ NoRegionSet
    PROVE  RegionsInv /\ NestInv /\ ErrorIffMistake /\ [Next]_vars => ErrorIffMistake'
<1> SUFFICES ASSUME RegionsInv, NestInv, ErrorIffMistake, [Next]_vars, raced' = {}
             PROVE  \A t \in Threads : stack_error'[t] <=> t \in misused'
  BY Zenon DEF ErrorIffMistake
<1>1. raced = {} => \A t \in Threads : stack_error[t] <=> t \in misused
  BY Zenon DEF ErrorIffMistake
<1>2. CASE stack_error' = stack_error /\ misused' = misused /\ raced \subseteq raced'
  <2>1. raced = {}
    BY <1>2
  <2> QED BY <1>1, <1>2, <2>1, Zenon
<1>3. ASSUME NEW t \in Threads, NEW b \in Boards, call[t].pc = "idle", NoteRace(t, b)
      PROVE  raced \subseteq raced'
  BY <1>3, RaceNoted
<1>4. ASSUME NEW t \in Threads, NEW a \in Attrs, NEW v \in Values,
             WriteValue(t, a, v) \/ begin(t, a, v) \/ set(t, a, v)
      PROVE  stack_error' = stack_error /\ misused' = misused /\ raced \subseteq raced'
  <2>1. /\ stack_error' = stack_error /\ misused' = misused /\ call[t].pc = "idle"
        /\ \E b \in Target(t, a) \cup {ScopeBoard(t, a)} : NoteRace(t, b)
    BY <1>4 DEF WriteValue, begin, set
  <2> QED BY <1>3, <2>1, TargetBoards
<1>5. ASSUME NEW t \in Threads, handle_begin(t) \/ handle_set(t) \/ handle_end(t) \/ Ignored(t)
      PROVE  stack_error' = stack_error /\ misused' = misused /\ raced \subseteq raced'
  BY <1>5 DEF handle_begin, handle_set, handle_end, Ignored, vars
<1>6. ASSUME NEW t \in Threads, NEW a \in Attrs, NEW v, end(t, a, v)
      PROVE  \A u \in Threads : stack_error'[u] <=> u \in misused'
  <2> DEFINE Fails(b) == \/ StackMismatch(slot[b][get_blackboard_key(a)], a)
                         \/ v # None /\ v # entry_get(slot[b][get_blackboard_key(a)], a)
             Wrong(b) == \/ Mistake(b, a)
                         \/ v # None /\ v # entry_get(open[b], a)
  <2>1. PICK b \in Target(t, a) :
            /\ misused' = IF Wrong(b) THEN misused \cup {t} ELSE misused
            /\ NoteRace(t, b)
            /\ Fails(b) => stack_error' = [stack_error EXCEPT ![t] = TRUE]
            /\ ~Fails(b) => stack_error' = stack_error
    BY <1>6 DEF end
  <2>2. b \in Boards /\ call[t].pc = "idle"
    BY <1>6, TargetBoards DEF end
  <2>3. raced \subseteq raced'
    BY <1>3, <2>1, <2>2
  <2>4. raced = {} /\ b \in Boards \ raced
    BY <2>2, <2>3
  <2>5. Fails(b) <=> Wrong(b)
    <3>1. StackMismatch(slot[b][get_blackboard_key(a)], a) <=> Mistake(b, a)
      BY <2>4, MismatchIffMistake, Zenon
    <3>2. entry_get(slot[b][get_blackboard_key(a)], a) = entry_get(open[b], a)
      BY <2>4, SameValue, Zenon
    <3> QED BY <3>1, <3>2, Zenon
  <2> HIDE DEF Fails, Wrong
  <2>6. \A u \in Threads : stack_error[u] <=> u \in misused
    BY <1>1, <2>4, Zenon
  <2>7. stack_error \in [Threads -> BOOLEAN]
    BY DEF RegionsInv, RegionsType
  <2>8. CASE Fails(b)
    <3>1. stack_error' = [stack_error EXCEPT ![t] = TRUE] /\ misused' = misused \cup {t}
      BY <2>1, <2>5, <2>8, Zenon
    <3> QED BY <2>6, <2>7, <3>1
  <2>9. CASE ~Fails(b)
    <3>1. stack_error' = stack_error /\ misused' = misused
      BY <2>1, <2>5, <2>9, Zenon
    <3> QED BY <2>6, <3>1, Zenon
  <2> QED BY <2>8, <2>9
<1>7. CASE UNCHANGED vars
  BY <1>2, <1>7 DEF vars
<1>8. CASE Next
  BY <1>2, <1>4, <1>5, <1>6, <1>8, Zenon DEF Next
<1> QED BY <1>7, <1>8

(* end() sets stack_error for exactly the threads that made a mistake, for  *)
(* all threads, channels and attributes, as long as no calls overlap, and   *)
(* set() is used for no region attribute or regions may overlap.            *)
THEOREM ErrorsExact ==
    ASSUME AllowOverlap \/ \A x \in SetAttrs : get_blackboard_key(x) # "REGION_KEY"
    PROVE  Spec => []ErrorIffMistake
<1>1. AllowOverlap \/ NoRegionSet
  BY Zenon DEF NoRegionSet
<1>2. Init => ErrorIffMistake
  BY Zenon DEF Init, ErrorIffMistake
<1>3. RegionsInv /\ NestInv /\ ErrorIffMistake /\ [Next]_vars => ErrorIffMistake'
  BY <1>1, ErrorNext
<1> QED BY <1>2, <1>3, NestInvariant, PTL DEF Spec
=============================================================================
