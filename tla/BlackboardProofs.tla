-------------------------- MODULE BlackboardProofs --------------------------
(***************************************************************************)
(* Proofs about Blackboard, for every table size, reserve and set of keys.  *)
(***************************************************************************)
EXTENDS Blackboard, FiniteSetTheorems, FunctionTheorems, TLAPS

(* The home of a key is a slot of the table.                                *)
LEMMA HomeSlot == \A key \in Keys : Home(key) \in Slots
  BY TableAssumption, KeyAssumption, SMT DEF Home, Slots

(* (i+1) % Nmax is the next slot, and slot 0 after the last one.            *)
LEMMA SuccSlot ==
    \A i \in Slots : /\ Succ(i) \in Slots
                     /\ Succ(i) = IF i = Nmax - 1 THEN 0 ELSE i + 1
  BY TableAssumption, SMT DEF Succ, Slots

(* Facts about probe paths around the table.                                *)

(* A path that is one slot longer visits one slot more.                     *)
LEMMA PathExtend ==
    \A a, b, x \in Slots :
        /\ OnPath(a, x, Succ(b)) /\ x # Succ(b) /\ Succ(b) # a => OnPath(a, x, b)
        /\ Succ(b) = a /\ OnPath(a, x, Succ(b)) => x = a
  BY SuccSlot, TableAssumption, SMT DEF OnPath, Slots

(* Of two slots, a probe from a meets one on its way to the other.          *)
LEMMA PathTotal == \A a, x, y \in Slots : OnPath(a, x, y) \/ OnPath(a, y, x)
  BY TableAssumption, SMT DEF OnPath, Slots

(* A path ends in its last slot, and a prefix of a path is part of it.      *)
LEMMA PathPrefix ==
    \A a, x, y, z \in Slots :
        /\ OnPath(a, y, y) /\ OnPath(a, a, y)
        /\ OnPath(a, x, y) /\ OnPath(a, y, z) => OnPath(a, x, z)
  BY TableAssumption, SMT DEF OnPath, Slots

(* The test of the compaction loop says that the hole lies on the probe     *)
(* path to the scanned entry.                                               *)
LEMMA MovablePath ==
    \A I, j, k \in Slots : Movable(I, j, k) <=> I # j /\ OnPath(k, I, j)
  BY TableAssumption, SMT DEF OnPath, Movable, Slots

(* A path that passes the hole I and ends outside the scanned slots, I to   *)
(* j, visits the slot after j.                                              *)
LEMMA PathBeyond ==
    \A a, I, j, i \in Slots :
        OnPath(a, I, i) /\ ~OnPath(I, i, j) => OnPath(a, Succ(j), i)
  BY SuccSlot, TableAssumption, SMT DEF OnPath, Slots

LEMMA OccupiedFinite ==
    /\ IsFiniteSet(Occupied)
    /\ Cardinality(Occupied) \in Nat
    /\ \A i \in Occupied : Cardinality(Occupied) > 0
  <1>1. IsFiniteSet(Slots)
    BY FS_Interval, TableAssumption DEF Slots
  <1>2. IsFiniteSet(Occupied)
    BY <1>1, FS_Subset DEF Occupied
  <1>3. Cardinality(Occupied) \in Nat
    BY <1>2, FS_CardinalityType
  <1>4. Occupied # {} => Cardinality(Occupied) # 0
    BY <1>2, FS_EmptySet
  <1> QED
    BY <1>2, <1>3, <1>4

-----------------------------------------------------------------------------
(* ProbeInv holds of the empty table.                                       *)
LEMMA ProbeInvInit == Init => ProbeInv
  <1> SUFFICES ASSUME Init PROVE ProbeInv
    OBVIOUS
  <1>1. Occupied = {}
    BY DEF Init, Occupied
  <1>2. Cardinality(Occupied) = 0
    BY <1>1, FS_EmptySet
  <1>3. TypeOK /\ OpInv
    BY TableAssumption, KeyAssumption, SMT DEF Init, TypeOK, OpInv, Idle, Ops, Slots
  <1>4. LiveReachable /\ FindInv /\ FreeInv /\ ShiftInv
    BY <1>1 DEF Init, Idle, LiveReachable, Live, FindInv, FreeInv, ShiftInv
  <1> QED
    BY <1>2, <1>3, <1>4, TableAssumption, SMT DEF ProbeInv, Init

(* The steps that write no key leave the table's keys and count alone.      *)
LEMMA SameKeys ==
    ASSUME hkey' = hkey PROVE Occupied' = Occupied
  BY DEF Occupied

(* A lock holder's probe of a stored key cannot miss it.                    *)
LEMMA NotFoundAbsent ==
    ASSUME ProbeInv, NotFound PROVE \A x \in Slots : hkey[x] # op.key
  <1> SUFFICES ASSUME NEW x \in Slots, hkey[x] = op.key PROVE FALSE
    OBVIOUS
  <1>1. op.key \in Keys /\ op.I \in Slots /\ hkey[op.I] = InvId
    BY DEF NotFound, ProbeInv, TypeOK, OpInv, Ops
  <1>2. x \in Live /\ x # op.I
    BY <1>1, KeyAssumption DEF NotFound, Live, Occupied
  <1>3. ~OnPath(Home(op.key), op.I, x)
    BY <1>1, <1>2 DEF ProbeInv, LiveReachable, Occupied
  <1>4. OnPath(Home(op.key), x, op.I)
    BY <1>1, <1>3, PathTotal, HomeSlot
  <1> QED
    BY <1>1, <1>2, <1>4 DEF ProbeInv, FindInv, NotFound

LEMMA CallStep ==
    ASSUME ProbeInv, Call PROVE ProbeInv'
  <1>1. PICK key \in Keys, name \in {"get", "set", "exchange", "del"}, value \in Values \cup {NoEntry} :
          /\ Start(name, key, value)
          /\ name \in {"set", "exchange"} => value \in Values
    BY DEF Call
  <1>2. Occupied' = Occupied /\ op.pc = "idle" /\ op'.pc = "find"
    BY <1>1, SameKeys DEF Start, table, Idle
  <1>3. TypeOK' /\ OpInv'
    BY <1>1, HomeSlot, SMT DEF ProbeInv, TypeOK, OpInv, Start, table, Ops
  <1>4. LiveReachable'
    BY <1>1, <1>2 DEF ProbeInv, LiveReachable, Live, Start, table
  <1>5. FindInv'
    BY <1>1, HomeSlot, SMT DEF FindInv, Start, table, OnPath, Slots
  <1>6. FreeInv' /\ ShiftInv'
    BY <1>2 DEF FreeInv, ShiftInv
  <1> QED
    BY <1>1, <1>2, <1>3, <1>4, <1>5, <1>6 DEF ProbeInv, Start, table

LEMMA FindStep ==
    ASSUME ProbeInv, find_existing_entry PROVE ProbeInv'
  <1>1. Occupied' = Occupied /\ op.pc = "find" /\ op'.pc = "find"
    BY SameKeys DEF find_existing_entry, table, ProbeInv, TypeOK, Ops
  <1>2. TypeOK' /\ OpInv'
    BY SuccSlot, SMT DEF ProbeInv, TypeOK, OpInv, find_existing_entry, table, Ops
  <1>3. LiveReachable'
    BY <1>1 DEF ProbeInv, LiveReachable, Live, find_existing_entry, table
  <1>4. FindInv'
    <2> SUFFICES ASSUME NEW x \in Slots, OnPath(Home(op.key), x, op'.I), x # op'.I
                 PROVE  hkey[x] \notin {op.key, InvId}
      BY DEF FindInv, find_existing_entry, table, ProbeInv, TypeOK, Ops
    <2>1. op.I \in Slots /\ Home(op.key) \in Slots /\ op'.I = Succ(op.I)
      BY HomeSlot, <1>1 DEF find_existing_entry, ProbeInv, TypeOK, Ops, OpInv
    <2>2. Succ(op.I) # Home(op.key)
      BY <2>1, PathExtend
    <2>3. OnPath(Home(op.key), x, op.I)
      BY <2>1, <2>2, PathExtend
    <2> QED
      BY <2>3, <1>1 DEF ProbeInv, FindInv, find_existing_entry
  <1>5. FreeInv' /\ ShiftInv'
    BY <1>1 DEF FreeInv, ShiftInv
  <1> QED
    BY <1>1, <1>2, <1>3, <1>4, <1>5 DEF ProbeInv, find_existing_entry, table

LEMMA ReturnStep ==
    ASSUME ProbeInv, get \/ Overwrite \/ DelMiss PROVE ProbeInv'
  <1>1. Occupied' = Occupied /\ op.pc = "find" /\ op'.pc = "idle"
    BY SameKeys DEF get, Overwrite, DelMiss, Found, NotFound, table, Idle
  <1>2. TypeOK' /\ OpInv'
    <2>1. Idle \in Ops
      BY TableAssumption DEF Idle, Ops, Slots
    <2>2. CASE get
      BY <2>1, <2>2 DEF ProbeInv, TypeOK, OpInv, get, table, Ops, Idle
    <2>3. CASE Overwrite
      BY <2>1, <2>3 DEF ProbeInv, TypeOK, OpInv, Overwrite, Ops, Idle
    <2>4. CASE DelMiss
      BY <2>1, <2>4 DEF ProbeInv, TypeOK, OpInv, DelMiss, table, Ops, Idle
    <2> QED
      BY <2>2, <2>3, <2>4
  <1>3. LiveReachable'
    BY <1>1 DEF ProbeInv, LiveReachable, Live, get, Overwrite, DelMiss, table
  <1>4. FindInv' /\ FreeInv' /\ ShiftInv'
    BY <1>1 DEF FindInv, FreeInv, ShiftInv
  <1> QED
    BY <1>1, <1>2, <1>3, <1>4 DEF ProbeInv, get, Overwrite, DelMiss, table

LEMMA EnterAddStep ==
    ASSUME ProbeInv, EnterAdd PROVE ProbeInv'
  <1>1. Occupied' = Occupied /\ op.pc = "find" /\ op'.pc = "free"
    BY SameKeys DEF EnterAdd, NotFound, table, ProbeInv, TypeOK, Ops
  <1>2. TypeOK' /\ OpInv'
    <2>1. op.key \in Keys /\ Home(op.key) \in Slots
      BY <1>1, HomeSlot DEF ProbeInv, OpInv
    <2>2. op' \in Ops
      BY <2>1 DEF ProbeInv, TypeOK, EnterAdd, Ops
    <2>3. op'.key = op.key /\ op'.name = op.name /\ op'.value = op.value
      BY DEF ProbeInv, TypeOK, EnterAdd, Ops
    <2> QED
      BY <2>1, <2>2, <2>3 DEF ProbeInv, TypeOK, OpInv, EnterAdd, table
  <1>3. LiveReachable'
    BY <1>1 DEF ProbeInv, LiveReachable, Live, EnterAdd, table
  <1>4. \A x \in Slots : hkey[x] # op.key
    BY NotFoundAbsent DEF EnterAdd
  <1>5. FreeInv'
    <2>1. Home(op.key) \in Slots
      BY HomeSlot, <1>1 DEF ProbeInv, OpInv
    <2>2. \A x \in Slots : OnPath(Home(op.key), x, Home(op.key)) => x = Home(op.key)
      BY <2>1, SMT DEF OnPath, Slots
    <2> QED
      BY <1>4, <2>2 DEF FreeInv, EnterAdd, NotFound, table, ProbeInv, TypeOK, Ops
  <1>6. FindInv' /\ ShiftInv'
    BY <1>1 DEF FindInv, ShiftInv
  <1> QED
    BY <1>1, <1>2, <1>3, <1>5, <1>6 DEF ProbeInv, EnterAdd, table

LEMMA FreeStep ==
    ASSUME ProbeInv, find_free_slot PROVE ProbeInv'
  <1>1. Occupied' = Occupied /\ op.pc = "free" /\ op'.pc = "free"
    BY SameKeys DEF find_free_slot, table, ProbeInv, TypeOK, Ops
  <1>2. TypeOK' /\ OpInv'
    BY SuccSlot, SMT DEF ProbeInv, TypeOK, OpInv, find_free_slot, table, Ops
  <1>3. LiveReachable'
    BY <1>1 DEF ProbeInv, LiveReachable, Live, find_free_slot, table
  <1>4. FreeInv'
    <2>1. op'.key = op.key /\ op'.name = op.name /\ op'.I = Succ(op.I)
      BY DEF find_free_slot, ProbeInv, TypeOK, Ops
    <2>2. ASSUME NEW x \in Slots, OnPath(Home(op.key), x, op'.I), x # op'.I
          PROVE  x \in Occupied
      <3>1. op.I \in Slots /\ Home(op.key) \in Slots
        BY HomeSlot, <1>1 DEF ProbeInv, TypeOK, Ops, OpInv
      <3>2. Succ(op.I) # Home(op.key)
        BY <2>1, <2>2, <3>1, PathExtend
      <3>3. OnPath(Home(op.key), x, op.I)
        BY <2>1, <2>2, <3>1, <3>2, PathExtend
      <3>4. op.I \in Occupied
        BY <3>1 DEF find_free_slot, Occupied
      <3> QED
        BY <3>3, <3>4, <1>1 DEF ProbeInv, FreeInv
    <2> QED
      BY <1>1, <2>1, <2>2 DEF ProbeInv, FreeInv, find_free_slot, table
  <1>5. FindInv' /\ ShiftInv'
    BY <1>1 DEF FindInv, ShiftInv
  <1> QED
    BY <1>1, <1>2, <1>3, <1>4, <1>5 DEF ProbeInv, find_free_slot, table

LEMMA SkipStep ==
    ASSUME ProbeInv, SkipFull PROVE ProbeInv'
  <1>1. Occupied' = Occupied /\ op.pc = "free" /\ op'.pc = "idle"
    BY SameKeys DEF SkipFull, AddReturn, Idle
  <1>2. TypeOK' /\ OpInv'
    BY TableAssumption, KeyAssumption, SMT
       DEF ProbeInv, TypeOK, OpInv, SkipFull, AddReturn, Ops, Idle, Slots
  <1>3. LiveReachable'
    BY <1>1 DEF ProbeInv, LiveReachable, Live, SkipFull
  <1>4. FindInv' /\ FreeInv' /\ ShiftInv'
    BY <1>1 DEF FindInv, FreeInv, ShiftInv
  <1> QED
    BY <1>1, <1>2, <1>3, <1>4 DEF ProbeInv, SkipFull

(* Storing a new key: the probe that found the free slot passed only        *)
(* occupied slots, so the new entry is reachable, and a fuller table keeps  *)
(* every older entry reachable.                                             *)
LEMMA AddStep ==
    ASSUME ProbeInv, add PROVE ProbeInv'
  <1> DEFINE I == op.I
             key == op.key
  <1>1. /\ op.pc = "free" /\ op' = Idle /\ op'.pc = "idle" /\ I \in Slots /\ key \in Keys
        /\ op.value \in Values /\ Home(key) \in Slots /\ key # InvId
    BY HomeSlot, KeyAssumption
       DEF add, AddReturn, Idle, ProbeInv, TypeOK, OpInv, FreeInv, Ops
  <1>2. hkey' = [hkey EXCEPT ![I] = key] /\ hkey[I] = InvId
    BY DEF add, Insert
  <1>3. Occupied' = Occupied \cup {I} /\ I \notin Occupied
    BY <1>1, <1>2 DEF Occupied, ProbeInv, TypeOK
  <1>4. num_entries' = Cardinality(Occupied') /\ num_entries' + Reserve <= Nmax + 1
    <2>1. Cardinality(Occupied') = Cardinality(Occupied) + 1
      BY <1>3, OccupiedFinite, FS_AddElement
    <2> QED
      BY <2>1, TableAssumption, SMT DEF add, Insert, Full, ProbeInv, TypeOK
  <1>5. TypeOK' /\ OpInv'
    <2>1. Idle \in Ops
      BY TableAssumption DEF Idle, Ops, Slots
    <2>2. toc' \in SUBSET Slots /\ toctoc' \in SUBSET {Word(i) : i \in Slots}
      BY <1>1 DEF add, Insert, ProbeInv, TypeOK
    <2>3. num_entries' \in 0..Nmax
      BY <1>4, TableAssumption, SMT DEF add, Insert, ProbeInv, TypeOK
    <2>4. ret' \in Values \cup {NoEntry} /\ ucount' \in Nat /\ num_skipped' \in Nat
      BY DEF add, AddReturn, ProbeInv, TypeOK
    <2>5. hkey' \in [Slots -> Keys \cup {InvId}] /\ hval' \in [Slots -> Values \cup {NoEntry}]
      BY <1>1 DEF add, Insert, ProbeInv, TypeOK
    <2> QED
      BY <1>1, <2>1, <2>2, <2>3, <2>4, <2>5 DEF TypeOK, OpInv, Idle
  <1>6. LiveReachable'
    <2>1. Live = Occupied /\ Live' = Occupied'
      BY <1>1 DEF Live
    <2>2. \A i \in Occupied : hkey'[i] = hkey[i] /\ hkey[i] # key
      BY <1>1, <1>2, <1>3 DEF ProbeInv, TypeOK, FreeInv, Occupied
    <2>3. hkey'[I] = key
      BY <1>1, <1>2 DEF ProbeInv, TypeOK
    <2>4. \A i, l \in Live' : hkey'[i] = hkey'[l] => i = l
      BY <1>3, <2>1, <2>2, <2>3 DEF ProbeInv, LiveReachable
    <2>5. ASSUME NEW i \in Live', NEW x \in Slots, OnPath(Home(hkey'[i]), x, i)
          PROVE  x \in Occupied'
      <3>1. CASE i = I
        BY <1>1, <1>3, <2>3, <2>5, <3>1 DEF ProbeInv, FreeInv
      <3>2. CASE i \in Occupied
        BY <1>3, <2>1, <2>2, <2>5, <3>2 DEF ProbeInv, LiveReachable
      <3> QED
        BY <1>3, <2>1, <3>1, <3>2
    <2> QED
      BY <2>4, <2>5 DEF LiveReachable
  <1>7. FindInv' /\ FreeInv' /\ ShiftInv'
    BY <1>1 DEF FindInv, FreeInv, ShiftInv
  <1> QED
    BY <1>4, <1>5, <1>6, <1>7 DEF ProbeInv

(* del() starts to compact with a hole at the slot of its key.              *)
LEMMA EnterShiftStep ==
    ASSUME ProbeInv, EnterShift PROVE ProbeInv'
  <1>1. /\ Occupied' = Occupied /\ op.pc = "find" /\ op'.pc = "shift"
        /\ op'.I = op.I /\ op'.j = op.I /\ op'.key = op.key /\ op'.name = op.name
        /\ op'.value = op.value /\ op.I \in Slots /\ op.key \in Keys
    BY SameKeys DEF EnterShift, Found, table, ProbeInv, TypeOK, Ops, OpInv
  <1>2. op.I \in Occupied /\ hkey[op.I] = op.key
    BY <1>1, KeyAssumption DEF EnterShift, Found, Occupied
  <1>3. Live = Occupied /\ Live' = Occupied \ {op.I} /\ hkey' = hkey
    BY <1>1 DEF Live, EnterShift, table
  <1>4. TypeOK' /\ OpInv'
    <2>1. op' \in Ops
      BY DEF EnterShift, ProbeInv, TypeOK, Ops
    <2> QED
      BY <1>1, <2>1 DEF EnterShift, ProbeInv, TypeOK, OpInv, table
  <1>5. LiveReachable'
    BY <1>1, <1>3 DEF ProbeInv, LiveReachable
  <1>6. ShiftInv'
    <2>1. \A x \in Slots : OnPath(op.I, x, op.I) => x = op.I
      BY <1>1, SMT DEF OnPath, Slots
    <2>2. \A x \in Live' : hkey[x] # op.key
      BY <1>2, <1>3 DEF ProbeInv, LiveReachable
    <2> QED
      BY <1>1, <1>2, <1>3, <2>1, <2>2 DEF ShiftInv
  <1>7. FindInv' /\ FreeInv'
    BY <1>1 DEF FindInv, FreeInv
  <1> QED
    BY <1>1, <1>4, <1>5, <1>6, <1>7 DEF ProbeInv, EnterShift, table

(* One iteration of the compaction loop.  A moved entry stays reachable,    *)
(* because the hole is on its path; an entry left in place has no hole on   *)
(* its path.                                                                *)
LEMMA ShiftStep ==
    ASSUME ProbeInv, Shift PROVE ProbeInv'
  <1> DEFINE I == op.I
             j == Succ(op.j)
             k == Home(hkey[j])
  <1>1. /\ op.pc = "shift" /\ I \in Slots /\ op.j \in Slots /\ j \in Slots
        /\ hkey[j] # InvId /\ hkey[j] \in Keys /\ k \in Slots
        /\ I \in Occupied /\ j \in Occupied
    BY SuccSlot, HomeSlot DEF Shift, ProbeInv, TypeOK, Ops, ShiftInv, Occupied
  <1>2. Live = Occupied \ {I}
    BY <1>1 DEF Live
  <1>3. CASE Movable(I, j, k)
    <2>1. /\ hkey' = [hkey EXCEPT ![I] = hkey[j]] /\ hval' = [hval EXCEPT ![I] = hval[j]]
          /\ op' = [op EXCEPT !.I = j, !.j = j]
      BY <1>3 DEF Shift
    <2>2. op'.pc = "shift" /\ op'.I = j /\ op'.j = j /\ op'.key = op.key
      BY <1>1, <2>1 DEF ProbeInv, TypeOK, Ops
    <2>3. I # j /\ OnPath(k, I, j)
      BY <1>1, <1>3, MovablePath
    <2>4. Occupied' = Occupied /\ Live' = Occupied \ {j}
      BY <1>1, <2>1, <2>2 DEF Occupied, Live, ProbeInv, TypeOK
    <2>5. hkey'[I] = hkey[j] /\ \A x \in Slots \ {I} : hkey'[x] = hkey[x]
      BY <1>1, <2>1 DEF ProbeInv, TypeOK
    <2>6. TypeOK' /\ OpInv'
      <3>1. op' \in Ops
        BY <1>1, <2>1 DEF ProbeInv, TypeOK, Ops
      <3>2. op'.name = op.name /\ op'.value = op.value
        BY <2>1 DEF ProbeInv, TypeOK, Ops
      <3>3. hkey' \in [Slots -> Keys \cup {InvId}] /\ hval' \in [Slots -> Values \cup {NoEntry}]
        BY <1>1, <2>1 DEF ProbeInv, TypeOK
      <3> QED
        BY <1>1, <2>2, <3>1, <3>2, <3>3 DEF Shift, ProbeInv, TypeOK, OpInv
    <2>7. LiveReachable'
      <3>1. \A i, l \in Live' : hkey'[i] = hkey'[l] => i = l
        BY <1>1, <1>2, <2>3, <2>4, <2>5 DEF ProbeInv, LiveReachable, Occupied
      <3>2. ASSUME NEW i \in Live', NEW x \in Slots, OnPath(Home(hkey'[i]), x, i)
            PROVE  x \in Occupied
        <4>1. CASE i = I
          <5>1. OnPath(k, x, j)
            BY <1>1, <2>3, <2>5, <3>2, <4>1, PathPrefix
          <5> QED
            BY <1>1, <1>2, <2>3, <5>1 DEF ProbeInv, LiveReachable
        <4>2. CASE i # I
          BY <1>2, <2>4, <2>5, <3>2, <4>2 DEF ProbeInv, LiveReachable, Occupied
        <4> QED
          BY <4>1, <4>2
      <3> QED
        BY <2>4, <3>1, <3>2 DEF LiveReachable
    <2>8. ShiftInv'
      <3>1. \A x \in Slots : OnPath(j, x, j) => x = j
        BY <1>1, SMT DEF OnPath, Slots
      <3>2. \A x \in Live' : hkey'[x] # op.key
        BY <1>1, <1>2, <2>3, <2>4, <2>5 DEF ProbeInv, ShiftInv, Occupied
      <3> QED
        BY <1>1, <2>2, <2>4, <3>1, <3>2 DEF ShiftInv
    <2>9. FindInv' /\ FreeInv'
      BY <2>2 DEF FindInv, FreeInv
    <2> QED
      BY <2>4, <2>6, <2>7, <2>8, <2>9 DEF ProbeInv, Shift
  <1>4. CASE ~Movable(I, j, k)
    <2>1. hkey' = hkey /\ hval' = hval /\ op' = [op EXCEPT !.j = j]
      BY <1>4 DEF Shift
    <2>2. /\ op'.pc = "shift" /\ op'.I = I /\ op'.j = j /\ op'.key = op.key
          /\ op'.name = op.name /\ op'.value = op.value /\ op' \in Ops
      BY <1>1, <2>1 DEF ProbeInv, TypeOK, Ops
    <2>3. Occupied' = Occupied /\ Live' = Live
      BY <1>1, <2>1, <2>2 DEF Occupied, Live
    <2>4. TypeOK' /\ OpInv'
      BY <1>1, <2>1, <2>2 DEF Shift, ProbeInv, TypeOK, OpInv
    <2>5. LiveReachable'
      BY <2>1, <2>3 DEF ProbeInv, LiveReachable
    <2>6. ShiftInv'
      <3>1. ASSUME NEW x \in Slots, OnPath(I, x, j), x # I
            PROVE  x \in Occupied /\ ~OnPath(Home(hkey[x]), I, x)
        <4>1. j # I
          BY <1>1, <3>1, PathExtend
        <4>2. CASE x = j
          BY <1>1, <1>4, <4>1, <4>2, MovablePath
        <4>3. CASE x # j
          <5>1. OnPath(I, x, op.j)
            BY <1>1, <3>1, <4>1, <4>3, PathExtend
          <5> QED
            BY <1>1, <3>1, <5>1 DEF ProbeInv, ShiftInv
        <4> QED
          BY <4>2, <4>3
      <3> QED
        BY <1>1, <2>1, <2>2, <2>3, <3>1 DEF ProbeInv, ShiftInv
    <2>7. FindInv' /\ FreeInv'
      BY <2>2 DEF FindInv, FreeInv
    <2> QED
      BY <2>3, <2>4, <2>5, <2>6, <2>7 DEF ProbeInv, Shift
  <1> QED
    BY <1>3, <1>4

(* The end of del(): the scan met an empty slot, so no live entry has the   *)
(* hole on its path and emptying it cuts nobody off.                        *)
LEMMA DelStep ==
    ASSUME ProbeInv, del PROVE ProbeInv'
  <1> DEFINE I == op.I
             e == Succ(op.j)
  <1>1. /\ op.pc = "shift" /\ op' = Idle /\ op'.pc = "idle" /\ I \in Slots
        /\ op.j \in Slots /\ e \in Slots /\ e \notin Occupied /\ I \in Occupied
    BY SuccSlot DEF del, Idle, ProbeInv, TypeOK, Ops, ShiftInv, Occupied
  <1>2. hkey' = [hkey EXCEPT ![I] = InvId]
    BY DEF del, Vacate
  <1>3. Occupied' = Occupied \ {I} /\ Live = Occupied \ {I} /\ Live' = Occupied'
    BY <1>1, <1>2 DEF Occupied, Live, ProbeInv, TypeOK
  <1>4. \A i \in Live : hkey'[i] = hkey[i] /\ hkey[i] \in Keys /\ Home(hkey[i]) \in Slots
    BY <1>1, <1>2, <1>3, HomeSlot DEF Occupied, ProbeInv, TypeOK
  <1>5. num_entries' = Cardinality(Occupied') /\ num_entries' \in 0..Nmax
        /\ num_entries' + Reserve <= Nmax + 1
    <2>1. Cardinality(Occupied') = Cardinality(Occupied) - 1
      BY <1>1, <1>3, OccupiedFinite, FS_RemoveElement
    <2>2. Cardinality(Occupied) > 0
      BY <1>1, OccupiedFinite
    <2> QED
      BY <2>1, <2>2, OccupiedFinite, TableAssumption, SMT DEF del, Vacate, ProbeInv, TypeOK
  <1>6. TypeOK' /\ OpInv'
    <2>1. Idle \in Ops
      BY TableAssumption DEF Idle, Ops, Slots
    <2>2. toc' \in SUBSET Slots /\ toctoc' \in SUBSET {Word(i) : i \in Slots}
      BY DEF del, Vacate, ProbeInv, TypeOK
    <2>3. hkey' \in [Slots -> Keys \cup {InvId}] /\ hval' \in [Slots -> Values \cup {NoEntry}]
      BY DEF del, Vacate, ProbeInv, TypeOK
    <2>4. ret' \in Values \cup {NoEntry} /\ ucount' \in Nat /\ num_skipped' \in Nat
      BY DEF del, ProbeInv, TypeOK
    <2> QED
      BY <1>1, <1>5, <2>1, <2>2, <2>3, <2>4 DEF TypeOK, OpInv, Idle
  <1>7. LiveReachable'
    <2>1. ASSUME NEW i \in Live, OnPath(Home(hkey[i]), I, i)
          PROVE  FALSE
      <3>1. i \in Slots /\ i # I
        BY <1>3 DEF Occupied
      <3>2. CASE OnPath(I, i, op.j)
        BY <1>1, <2>1, <3>1, <3>2 DEF ProbeInv, ShiftInv
      <3>3. CASE ~OnPath(I, i, op.j)
        <4>1. OnPath(Home(hkey[i]), e, i)
          BY <1>1, <1>4, <2>1, <3>1, <3>3, PathBeyond
        <4> QED
          BY <1>1, <4>1 DEF ProbeInv, LiveReachable
      <3> QED
        BY <3>2, <3>3
    <2> QED
      BY <1>3, <1>4, <2>1 DEF ProbeInv, LiveReachable
  <1>8. FindInv' /\ FreeInv' /\ ShiftInv'
    BY <1>1 DEF FindInv, FreeInv, ShiftInv
  <1> QED
    BY <1>5, <1>6, <1>7, <1>8 DEF ProbeInv

LEMMA StutterStep ==
    ASSUME ProbeInv, UNCHANGED vars PROVE ProbeInv'
  <1>1. Occupied' = Occupied /\ Live' = Live
    BY DEF vars, Occupied, Live
  <1> QED
    BY <1>1 DEF vars, ProbeInv, TypeOK, OpInv, LiveReachable, FindInv, FreeInv, ShiftInv

LEMMA ProbeInvNext == ProbeInv /\ [Next]_vars => ProbeInv'
  BY CallStep, FindStep, ReturnStep, EnterAddStep, FreeStep, SkipStep, AddStep,
     EnterShiftStep, ShiftStep, DelStep, StutterStep DEF Next, Step

-----------------------------------------------------------------------------
(* The inductive invariant holds in every reachable state.                  *)
THEOREM TableInvariant == Spec => []ProbeInv
  BY ProbeInvInit, ProbeInvNext, PTL DEF Spec

(* Blackboard.h: every field keeps its type; in particular num_entries, a   *)
(* size_t that del() decrements, never wraps below zero.                    *)
THEOREM TypeCorrect == Spec => []TypeOK
  <1>1. ProbeInv => TypeOK
    BY DEF ProbeInv
  <1> QED
    BY <1>1, TableInvariant, PTL

(* Blackboard::find_existing_entry reaches every stored key: no sequence of *)
(* add and del leaves an empty slot between a key's home and its entry.     *)
THEOREM ProbesReach == Spec => []ProbeReaches
  <1>1. ProbeInv => ProbeReaches
    BY DEF ProbeInv, LiveReachable, Live, ProbeReaches
  <1> QED
    BY <1>1, TableInvariant, PTL

(* Blackboard::add and del keep num_entries equal to the number of occupied *)
(* slots, and below Nmax.                                                   *)
THEOREM EntriesCounted == Spec => []CountExact
  <1>1. ProbeInv => CountExact
    BY TableAssumption, SMT DEF ProbeInv, TypeOK, CountExact
  <1> QED
    BY <1>1, TableInvariant, PTL

-----------------------------------------------------------------------------
(* The bitfields.                                                           *)

(* Every step keeps the toc and toctoc bitfields consistent with the table. *)
LEMMA TocNext == ProbeInv /\ TocConsistent /\ [Next]_vars => TocConsistent'
  <1> SUFFICES ASSUME ProbeInv, TocConsistent, [Next]_vars PROVE TocConsistent'
    OBVIOUS
  <1>1. CASE add
    <2>1. op.I \in Slots /\ op.key # InvId
      BY <1>1, KeyAssumption DEF add, ProbeInv, TypeOK, OpInv, Ops
    <2>2. Occupied' = Occupied \cup {op.I}
      BY <1>1, <2>1 DEF add, Insert, Occupied, ProbeInv, TypeOK
    <2> QED
      BY <1>1, <2>2 DEF add, Insert, TocConsistent
  <1>2. CASE Shift
    <2>1. Occupied' = Occupied
      BY <1>2, SuccSlot DEF Shift, Occupied, ProbeInv, TypeOK, ShiftInv, Ops
    <2> QED
      BY <1>2, <2>1 DEF Shift, TocConsistent
  <1>3. CASE del
    <2>1. op.I \in Slots
      BY <1>3 DEF del, ProbeInv, TypeOK, Ops
    <2>2. Occupied' = Occupied \ {op.I}
      BY <1>3, <2>1 DEF del, Vacate, Occupied, ProbeInv, TypeOK
    <2>3. toctoc' = {Word(i) : i \in toc'}
      BY <1>3 DEF del, Vacate, TocConsistent
    <2> QED
      BY <1>3, <2>2, <2>3 DEF del, Vacate, TocConsistent
  <1>4. CASE ~(add \/ Shift \/ del)
    <2>1. UNCHANGED <<hkey, toc, toctoc>>
      BY <1>4 DEF Next, Step, Call, Start, find_existing_entry, get, Overwrite, EnterAdd,
                  find_free_slot, SkipFull, DelMiss, EnterShift, table, vars
    <2> QED
      BY <2>1 DEF TocConsistent, Occupied
  <1> QED
    BY <1>1, <1>2, <1>3, <1>4

(* Blackboard::snapshot never copies an empty slot and misses no toc bit.   *)
THEOREM BitfieldsConsistent == Spec => []TocConsistent
  <1>1. Init => TocConsistent
    BY DEF Init, TocConsistent
  <1> QED
    BY <1>1, TocNext, TableInvariant, PTL DEF Spec

(* When no attribute is hidden, the toc bits are those of the occupied      *)
(* slots in every state: the moves of the compaction loop are harmless.     *)
LEMMA AllVisibleNext ==
    ASSUME HiddenKeys = {}
    PROVE  ProbeInv /\ toc = Occupied /\ [Next]_vars => (toc = Occupied)'
  <1> SUFFICES ASSUME ProbeInv, toc = Occupied, [Next]_vars PROVE toc' = Occupied'
    OBVIOUS
  <1>1. CASE add
    <2>1. op.I \in Slots /\ op.key # InvId /\ op.key \in Keys
      BY <1>1, KeyAssumption DEF add, ProbeInv, TypeOK, OpInv, Ops
    <2>2. Occupied' = Occupied \cup {op.I}
      BY <1>1, <2>1 DEF add, Insert, Occupied, ProbeInv, TypeOK
    <2> QED
      BY <1>1, <2>2 DEF add, Insert
  <1>2. CASE Shift
    BY <1>2, SuccSlot DEF Shift, Occupied, ProbeInv, TypeOK, ShiftInv, Ops
  <1>3. CASE del
    BY <1>3 DEF del, Vacate, Occupied, ProbeInv, TypeOK, Ops
  <1>4. CASE ~(add \/ Shift \/ del)
    BY <1>4 DEF Occupied, Next, Step, Call, Start, find_existing_entry, get, Overwrite,
                EnterAdd, find_free_slot, SkipFull, DelMiss, EnterShift, table, vars
  <1> QED
    BY <1>1, <1>2, <1>3, <1>4

(* Blackboard::snapshot copies every entry, once, of a blackboard on which  *)
(* no hidden attribute is ever set.                                         *)
THEOREM SnapshotsExact ==
    ASSUME HiddenKeys = {}
    PROVE  Spec => []SnapshotExact
  <1>1. Init => toc = Occupied
    BY DEF Init, Occupied
  <1>2. toc = Occupied => SnapshotExact
    BY DEF SnapshotExact
  <1> QED
    BY <1>1, <1>2, AllVisibleNext, TableInvariant, PTL DEF Spec

-----------------------------------------------------------------------------
(* The table implements the map.                                            *)

(* The steps that change neither an entry nor the set of live slots.        *)
Neutral ==
    \/ Call \/ find_existing_entry \/ get \/ EnterAdd \/ find_free_slot \/ SkipFull
    \/ DelMiss \/ UNCHANGED vars

LEMMA NeutralStep ==
    ASSUME ProbeInv, Neutral PROVE UNCHANGED <<hkey, hval, Live>>
  <1>1. CASE UNCHANGED vars
    BY <1>1 DEF vars, Live, Occupied
  <1>2. CASE Call
    BY <1>2 DEF Call, Start, Idle, table, Live, Occupied
  <1>3. CASE find_existing_entry
    BY <1>3 DEF find_existing_entry, table, Live, Occupied, ProbeInv, TypeOK, Ops
  <1>4. CASE get
    BY <1>4 DEF get, Idle, table, Live, Occupied
  <1>5. CASE EnterAdd
    BY <1>5 DEF EnterAdd, NotFound, table, Live, Occupied, ProbeInv, TypeOK, Ops
  <1>6. CASE find_free_slot
    BY <1>6 DEF find_free_slot, table, Live, Occupied, ProbeInv, TypeOK, Ops
  <1>7. CASE SkipFull
    BY <1>7 DEF SkipFull, AddReturn, Idle, Live, Occupied
  <1>8. CASE DelMiss
    BY <1>8 DEF DelMiss, NotFound, Idle, table, Live, Occupied
  <1> QED
    BY <1>1, <1>2, <1>3, <1>4, <1>5, <1>6, <1>7, <1>8 DEF Neutral

LEMMA LiveValuedNext == ProbeInv /\ LiveValued /\ [Next]_vars => LiveValued'
  <1> SUFFICES ASSUME ProbeInv, LiveValued, [Next]_vars PROVE LiveValued'
    OBVIOUS
  <1>1. CASE add
    BY <1>1 DEF add, Insert, AddReturn, Idle, LiveValued, Live, Occupied,
                ProbeInv, TypeOK, FreeInv, OpInv
  <1>2. CASE Shift
    <2>1. op.pc = "shift" /\ op.I \in Slots /\ Succ(op.j) \in Slots
      BY <1>2, SuccSlot DEF Shift, ProbeInv, TypeOK, Ops
    <2>2. CASE Movable(op.I, Succ(op.j), Home(hkey[Succ(op.j)]))
      <3>1. op'.pc = "shift" /\ op'.I = Succ(op.j) /\ Succ(op.j) # op.I
        <4>1. op' = [op EXCEPT !.I = Succ(op.j), !.j = Succ(op.j)]
          BY <1>2, <2>2 DEF Shift
        <4>2. Succ(op.j) # op.I
          BY <2>1, <2>2, SMT DEF Movable, Slots
        <4> QED
          BY <2>1, <4>1, <4>2 DEF ProbeInv, TypeOK, Ops
      <3>2. /\ hkey' = [hkey EXCEPT ![op.I] = hkey[Succ(op.j)]]
            /\ hval' = [hval EXCEPT ![op.I] = hval[Succ(op.j)]]
            /\ hkey[Succ(op.j)] # InvId
        BY <1>2, <2>2 DEF Shift
      <3> QED
        BY <2>1, <3>1, <3>2 DEF LiveValued, Live, Occupied, ProbeInv, TypeOK
    <2>3. CASE ~Movable(op.I, Succ(op.j), Home(hkey[Succ(op.j)]))
      <3>1. UNCHANGED <<hkey, hval>> /\ op'.pc = "shift" /\ op'.I = op.I
        BY <1>2, <2>1, <2>3 DEF Shift, ProbeInv, TypeOK, Ops
      <3> QED
        BY <2>1, <3>1 DEF LiveValued, Live, Occupied
    <2> QED
      BY <2>2, <2>3
  <1>3. CASE del
    BY <1>3 DEF del, Vacate, Idle, LiveValued, Live, Occupied, ProbeInv, TypeOK
  <1>4. CASE Overwrite
    BY <1>4 DEF Overwrite, Found, Idle, LiveValued, Live, Occupied, ProbeInv, TypeOK, OpInv
  <1>5. CASE EnterShift
    BY <1>5 DEF EnterShift, Found, table, LiveValued, Live, Occupied, ProbeInv, TypeOK, Ops
  <1>6. CASE ~(add \/ Shift \/ del \/ Overwrite \/ EnterShift)
    <2>1. UNCHANGED <<hkey, hval, Live>>
      BY <1>6, NeutralStep DEF Next, Step, Neutral
    <2> QED
      BY <2>1 DEF LiveValued
  <1> QED
    BY <1>1, <1>2, <1>3, <1>4, <1>5, <1>6

(* Contents reads off the live slots.                                       *)
LEMMA ContentsLive ==
    ProbeInv =>
        /\ \A i \in Live : hkey[i] \in Keys /\ Contents[hkey[i]] = hval[i]
        /\ \A key \in Keys : (\A i \in Live : hkey[i] # key) => Contents[key] = NoEntry
  <1> SUFFICES ASSUME ProbeInv
               PROVE  /\ \A i \in Live : hkey[i] \in Keys /\ Contents[hkey[i]] = hval[i]
                      /\ \A key \in Keys :
                            (\A i \in Live : hkey[i] # key) => Contents[key] = NoEntry
    OBVIOUS
  <1>1. ASSUME NEW i \in Live
        PROVE  hkey[i] \in Keys /\ Contents[hkey[i]] = hval[i]
    <2>1. hkey[i] \in Keys
      BY DEF ProbeInv, TypeOK, Live, Occupied
    <2>2. SlotOf(hkey[i]) = i
      BY DEF SlotOf, ProbeInv, LiveReachable
    <2> QED
      BY <2>1, <2>2 DEF Contents
  <1> QED
    BY <1>1 DEF Contents

(* The map module has its own instance of Cardinality.                      *)
LEMMA MapCardinality == \A S : Map!Cardinality(S) = Cardinality(S)
  BY DEF Map!Cardinality, Cardinality, Map!IsFiniteSet, IsFiniteSet

(* The map stores as many keys as the table has occupied slots.             *)
LEMMA StoredCount ==
    ASSUME ProbeInv, LiveValued, op.pc # "shift"
    PROVE  /\ \A key \in Keys : key \in Map!Stored <=> \E i \in Live : hkey[i] = key
           /\ Cardinality(Map!Stored) = num_entries
  <1>1. ASSUME NEW key \in Keys
        PROVE  key \in Map!Stored <=> \E i \in Live : hkey[i] = key
    BY ContentsLive, KeyAssumption DEF Map!Stored, LiveValued
  <1>2. Live = Occupied
    BY DEF Live
  <1> DEFINE f == [i \in Occupied |-> hkey[i]]
  <1>3. f \in [Occupied -> Map!Stored]
    BY <1>1, <1>2, ContentsLive DEF Map!Stored
  <1>4. \A a, b \in Occupied : f[a] = f[b] => a = b
    BY <1>2 DEF ProbeInv, LiveReachable
  <1>5. \A t \in Map!Stored : \E i \in Occupied : f[i] = t
    BY <1>1, <1>2 DEF Map!Stored
  <1>6. f \in Bijection(Occupied, Map!Stored)
    BY <1>3, <1>4, <1>5, Fun_IsBij
  <1>7. Cardinality(Map!Stored) = Cardinality(Occupied)
    BY <1>6, OccupiedFinite, FS_Bijection, Fun_ExistsBij
  <1> QED
    BY <1>1, <1>7 DEF ProbeInv

(* F is what the live slots say: the value of every key they hold, Entry()  *)
(* for all others.                                                          *)
ReadsAs(F) ==
    /\ \A i \in Live : F[hkey[i]] = hval[i]
    /\ \A key \in Keys : (\A i \in Live : hkey[i] # key) => F[key] = NoEntry

Maps == [Keys -> Values \cup {NoEntry}]

LEMMA ContentsUnique ==
    ProbeInv /\ LiveValued =>
        /\ Contents \in Maps
        /\ \A F \in Maps : ReadsAs(F) => Contents = F
  <1> SUFFICES ASSUME ProbeInv, LiveValued
               PROVE  /\ Contents \in Maps
                      /\ \A F \in Maps : ReadsAs(F) => Contents = F
    OBVIOUS
  <1>1. ASSUME NEW key \in Keys
        PROVE  /\ Contents[key] \in Values \cup {NoEntry}
               /\ \A F \in Maps : ReadsAs(F) => Contents[key] = F[key]
    <2>1. CASE \E i \in Live : hkey[i] = key
      BY <2>1, ContentsLive DEF LiveValued, ReadsAs
    <2>2. CASE \A i \in Live : hkey[i] # key
      BY <2>2, ContentsLive DEF ReadsAs
    <2> QED
      BY <2>1, <2>2
  <1>2. Contents = [key \in Keys |-> Contents[key]]
    BY DEF Contents
  <1>3. Contents \in Maps
    BY <1>1, <1>2 DEF Maps
  <1>4. ASSUME NEW F \in Maps, ReadsAs(F)
        PROVE  Contents = F
    BY <1>1, <1>2, <1>4 DEF Maps
  <1> QED
    BY <1>3, <1>4

LEMMA ContentsUniqueNext ==
    (ProbeInv /\ LiveValued)' => \A F \in Maps : ReadsAs(F)' => Contents' = F
  <1>1. (ProbeInv /\ LiveValued =>
            /\ Contents \in Maps
            /\ \A F \in Maps : ReadsAs(F) => Contents = F)'
    BY ContentsUnique, PTL
  <1> QED
    BY <1>1 DEF Maps

(* Every step of the table is a step of the map, or leaves it unchanged.    *)
LEMMA MapNext ==
    ASSUME ProbeInv, ProbeInv', LiveValued, LiveValued', [Next]_vars
    PROVE  [Map!Next]_<<Contents, ret, Pending>>
  <1> DEFINE key == op.key
  <1>1. Contents \in Maps
    BY ContentsUnique
  <1>2. CASE Call \/ find_existing_entry \/ EnterAdd \/ find_free_slot \/ DelMiss \/ UNCHANGED vars
    <2>1. UNCHANGED <<hkey, hval, Live>>
      BY <1>2, NeutralStep DEF Neutral
    <2>2. UNCHANGED ret
      BY <1>2 DEF Call, Start, find_existing_entry, EnterAdd, find_free_slot, DelMiss, vars
    <2>3. Contents' = Contents
      BY <2>1 DEF Contents, SlotOf
    <2>4. CASE Call
      <3>1. PICK k \in Keys, name \in {"get", "set", "exchange", "del"},
                 v \in Values \cup {NoEntry} : Start(name, k, v)
        BY <2>4 DEF Call
      <3>2. Pending = Map!NoCall /\ Pending' = <<name, k, v>>
        BY <3>1 DEF Start, Pending, Idle, Map!NoCall
      <3> QED
        BY <2>2, <2>3, <3>2 DEF Map!Next, Map!Invoke
    <2>5. CASE find_existing_entry \/ EnterAdd \/ find_free_slot \/ UNCHANGED vars
      <3>1. op \in Ops
        BY DEF ProbeInv, TypeOK
      <3>2. Pending' = Pending
        BY <2>5, <3>1
           DEF find_existing_entry, EnterAdd, NotFound, find_free_slot, vars, Pending, Ops
      <3> QED
        BY <2>2, <2>3, <3>2
    <2>6. CASE DelMiss
      <3>1. /\ key \in Keys /\ Pending = <<"del", key, op.value>>
            /\ Pending' = Map!NoCall
        BY <2>6 DEF DelMiss, NotFound, Pending, Idle, Map!NoCall, ProbeInv, OpInv
      <3>2. \A i \in Live : hkey[i] # key
        BY <2>6, NotFoundAbsent DEF DelMiss, Live, Occupied
      <3>3. Contents[key] = NoEntry
        BY <3>1, <3>2, ContentsLive
      <3>4. Contents' = [Contents EXCEPT ![key] = NoEntry]
        BY <1>1, <2>3, <3>1, <3>3 DEF Maps
      <3> QED
        BY <2>2, <3>1, <3>4 DEF Map!Next, Map!Del
    <2> QED
      BY <1>2, <2>4, <2>5, <2>6
  <1>3. CASE get
    <2>1. UNCHANGED <<hkey, hval, Live>> /\ key \in Keys /\ op.I \in Slots /\ op.pc = "find"
      BY <1>3, NeutralStep DEF Neutral, get, ProbeInv, OpInv, TypeOK, Ops
    <2>2. Contents' = Contents
      BY <2>1 DEF Contents, SlotOf
    <2>3. ret' = Contents[key]
      <3>1. CASE Found
        <4>1. op.I \in Live /\ hkey[op.I] = key
          BY <2>1, <3>1, KeyAssumption DEF Found, Live, Occupied
        <4>2. ret' = hval[op.I]
          BY <1>3, <2>1, <3>1, KeyAssumption DEF get, Found, NotFound
        <4> QED
          BY <4>1, <4>2, ContentsLive
      <3>2. CASE NotFound
        <4>1. \A i \in Live : hkey[i] # key
          BY <3>2, NotFoundAbsent DEF Live, Occupied
        <4>2. ret' = NoEntry
          BY <1>3, <2>1, <3>2, KeyAssumption DEF get, Found, NotFound
        <4> QED
          BY <2>1, <4>1, <4>2, ContentsLive
      <3> QED
        BY <1>3, <3>1, <3>2 DEF get
    <2>4. Pending = <<"get", key, op.value>> /\ Pending' = Map!NoCall
      BY <1>3 DEF get, Pending, Idle, Map!NoCall
    <2> QED
      BY <2>1, <2>2, <2>3, <2>4 DEF Map!Next, Map!Get
  <1>4. CASE Overwrite
    <2>1. /\ key \in Keys /\ op.I \in Slots /\ op.pc = "find" /\ hkey[op.I] = key
          /\ op.value \in Values /\ hkey' = hkey /\ op'.pc = "idle"
          /\ hval' = [hval EXCEPT ![op.I] = op.value]
      BY <1>4 DEF Overwrite, Found, ProbeInv, OpInv, TypeOK, Ops, Idle
    <2>2. Live' = Live /\ op.I \in Live
      BY <2>1, KeyAssumption DEF Live, Occupied
    <2>3. PICK F \in Maps : F = [Contents EXCEPT ![key] = op.value]
      BY <1>1, <2>1 DEF Maps
    <2>4. ReadsAs(F)'
      <3>1. ASSUME NEW i \in Live PROVE F[hkey[i]] = hval'[i]
        <4>1. hkey[i] = key => i = op.I
          BY <2>1, <2>2 DEF ProbeInv, LiveReachable
        <4>2. i \in Slots /\ hkey[i] \in Keys /\ Contents[hkey[i]] = hval[i]
          BY ContentsLive DEF Live, Occupied
        <4> QED
          BY <1>1, <2>1, <2>3, <4>1, <4>2 DEF Maps, ProbeInv, TypeOK
      <3>2. ASSUME NEW k \in Keys, \A i \in Live : hkey[i] # k PROVE F[k] = NoEntry
        <4>1. k # key
          BY <2>1, <2>2, <3>2
        <4> QED
          BY <1>1, <2>3, <3>2, <4>1, ContentsLive DEF Maps
      <3> QED
        BY <2>1, <2>2, <3>1, <3>2 DEF ReadsAs
    <2>5. Contents' = F
      BY <2>3, <2>4, ContentsUniqueNext
    <2>6. key \in Map!Stored
      BY <2>1, <2>2, StoredCount
    <2>7. Contents[key] = hval[op.I]
      BY <2>1, <2>2, ContentsLive
    <2>8. Map!Write(key, op.value)
      BY <2>3, <2>5, <2>6 DEF Map!Write
    <2>9. ret' = IF op.name = "exchange" THEN Contents[key] ELSE ret
      BY <1>4, <2>7 DEF Overwrite
    <2>10. /\ Pending = <<op.name, key, op.value>> /\ Pending' = Map!NoCall
           /\ op.name \in {"set", "exchange"}
      BY <1>4, <2>1 DEF Overwrite, Pending, Map!NoCall
    <2> QED
      BY <2>1, <2>8, <2>9, <2>10 DEF Map!Next, Map!Set, Map!Exchange
  <1>5. CASE SkipFull
    <2>1. UNCHANGED <<hkey, hval, Live>> /\ op.pc = "free" /\ key \in Keys
      BY <1>5, NeutralStep DEF Neutral, SkipFull, ProbeInv, OpInv
    <2>2. Contents' = Contents
      BY <2>1 DEF Contents, SlotOf
    <2>3. \A i \in Live : hkey[i] # key
      BY <2>1 DEF ProbeInv, FreeInv, Live, Occupied
    <2>4. key \notin Map!Stored /\ Cardinality(Map!Stored) = num_entries
      BY <2>1, <2>3, StoredCount
    <2>5. num_entries >= Nmax - Reserve + 1
      BY <1>5, TableAssumption, SMT DEF SkipFull, Full, ProbeInv, TypeOK
    <2>6. Map!Drop(key)
      BY <2>2, <2>4, <2>5, MapCardinality DEF Map!Drop
    <2>7. Contents[key] = NoEntry
      BY <2>1, <2>3, ContentsLive
    <2>8. ret' = (IF op.name = "exchange" THEN Contents[key] ELSE ret) /\ op.value \in Values
      BY <1>5, <2>1, <2>7 DEF SkipFull, AddReturn, ProbeInv, FreeInv, OpInv
    <2>9. /\ Pending = <<op.name, key, op.value>> /\ Pending' = Map!NoCall
          /\ op.name \in {"set", "exchange"}
      BY <1>5, <2>1
         DEF SkipFull, AddReturn, Idle, Pending, Map!NoCall, ProbeInv, FreeInv
    <2> QED
      BY <2>1, <2>6, <2>8, <2>9 DEF Map!Next, Map!Set, Map!Exchange
  <1>6. CASE add
    <2>1. /\ key \in Keys /\ op.I \in Slots /\ op.pc = "free" /\ hkey[op.I] = InvId
          /\ op.value \in Values /\ hkey' = [hkey EXCEPT ![op.I] = key] /\ op'.pc = "idle"
          /\ hval' = [hval EXCEPT ![op.I] = op.value] /\ key # InvId
      BY <1>6, KeyAssumption
         DEF add, Insert, AddReturn, ProbeInv, OpInv, FreeInv, TypeOK, Ops, Idle
    <2>2. Live' = Live \cup {op.I} /\ op.I \notin Live
      BY <2>1 DEF Live, Occupied, ProbeInv, TypeOK
    <2>3. \A i \in Live : hkey[i] # key
      BY <2>1 DEF ProbeInv, FreeInv, Live, Occupied
    <2>4. PICK F \in Maps : F = [Contents EXCEPT ![key] = op.value]
      BY <1>1, <2>1 DEF Maps
    <2>5. ReadsAs(F)'
      <3>1. ASSUME NEW i \in Live' PROVE F[hkey'[i]] = hval'[i]
        <4>1. CASE i = op.I
          BY <1>1, <2>1, <2>4, <4>1 DEF Maps, ProbeInv, TypeOK
        <4>2. CASE i \in Live
          <5>1. i \in Slots /\ hkey'[i] = hkey[i] /\ hval'[i] = hval[i] /\ hkey[i] # key
            BY <2>1, <2>2, <2>3, <4>2 DEF Live, Occupied, ProbeInv, TypeOK
          <5>2. hkey[i] \in Keys /\ Contents[hkey[i]] = hval[i]
            BY <4>2, ContentsLive
          <5> QED
            BY <1>1, <2>4, <5>1, <5>2 DEF Maps
        <4> QED
          BY <2>2, <4>1, <4>2
      <3>2. ASSUME NEW k \in Keys, \A i \in Live' : hkey'[i] # k PROVE F[k] = NoEntry
        <4>1. k # key
          BY <2>1, <2>2, <3>2 DEF ProbeInv, TypeOK
        <4>2. \A i \in Live : hkey[i] # k
          BY <2>1, <2>2, <3>2 DEF Live, Occupied, ProbeInv, TypeOK
        <4> QED
          BY <1>1, <2>4, <4>1, <4>2, ContentsLive DEF Maps
      <3> QED
        BY <3>1, <3>2 DEF ReadsAs
    <2>6. Contents' = F
      BY <2>4, <2>5, ContentsUniqueNext
    <2>7. Cardinality(Map!Stored) < Nmax - Reserve + 1
      <3>1. Cardinality(Map!Stored) = num_entries
        BY <2>1, StoredCount
      <3> QED
        BY <1>6, <3>1, TableAssumption, SMT DEF add, Full, ProbeInv, TypeOK
    <2>8. Map!Write(key, op.value)
      BY <2>4, <2>6, <2>7, MapCardinality DEF Map!Write
    <2>9. Contents[key] = NoEntry
      BY <2>1, <2>3, ContentsLive
    <2>10. ret' = IF op.name = "exchange" THEN Contents[key] ELSE ret
      BY <1>6, <2>9 DEF add, AddReturn
    <2>11. /\ Pending = <<op.name, key, op.value>> /\ Pending' = Map!NoCall
           /\ op.name \in {"set", "exchange"}
      BY <2>1 DEF Pending, Map!NoCall, ProbeInv, FreeInv
    <2> QED
      BY <2>1, <2>8, <2>10, <2>11 DEF Map!Next, Map!Set, Map!Exchange
  <1>7. CASE EnterShift
    <2>1. /\ key \in Keys /\ op.I \in Slots /\ op.pc = "find" /\ hkey[op.I] = key
          /\ op'.pc = "shift" /\ op'.I = op.I /\ UNCHANGED <<hkey, hval, ret>>
      BY <1>7 DEF EnterShift, Found, ProbeInv, OpInv, TypeOK, Ops, table
    <2>2. op.I \in Live /\ Live' = Live \ {op.I}
      BY <2>1, KeyAssumption DEF Live, Occupied
    <2>3. PICK F \in Maps : F = [Contents EXCEPT ![key] = NoEntry]
      BY <1>1 DEF Maps
    <2>4. ReadsAs(F)'
      <3>1. ASSUME NEW i \in Live' PROVE F[hkey[i]] = hval[i]
        <4>1. hkey[i] # key
          BY <2>1, <2>2 DEF ProbeInv, LiveReachable
        <4> QED
          BY <1>1, <2>2, <2>3, <4>1, ContentsLive DEF Maps
      <3>2. ASSUME NEW k \in Keys, \A i \in Live' : hkey[i] # k PROVE F[k] = NoEntry
        <4>1. CASE k = key
          BY <1>1, <2>3, <4>1 DEF Maps
        <4>2. CASE k # key
          <5>1. \A i \in Live : hkey[i] # k
            BY <2>1, <2>2, <3>2, <4>2
          <5> QED
            BY <1>1, <2>3, <4>2, <5>1, ContentsLive DEF Maps
        <4> QED
          BY <4>1, <4>2
      <3> QED
        BY <2>1, <3>1, <3>2 DEF ReadsAs
    <2>5. Contents' = F
      BY <2>3, <2>4, ContentsUniqueNext
    <2>6. Pending = <<"del", key, op.value>> /\ Pending' = Map!NoCall
      BY <1>7, <2>1 DEF EnterShift, Pending, Map!NoCall
    <2> QED
      BY <2>1, <2>3, <2>5, <2>6 DEF Map!Next, Map!Del
  <1>8. CASE Shift
    <2>1. /\ op.pc = "shift" /\ op.I \in Slots /\ Succ(op.j) \in Slots /\ ret' = ret
          /\ hkey[Succ(op.j)] # InvId
      BY <1>8, SuccSlot DEF Shift, ProbeInv, TypeOK, Ops
    <2>2. ReadsAs(Contents)
      BY ContentsLive DEF ReadsAs
    <2>3. CASE Movable(op.I, Succ(op.j), Home(hkey[Succ(op.j)]))
      <3>1. /\ hkey' = [hkey EXCEPT ![op.I] = hkey[Succ(op.j)]]
            /\ hval' = [hval EXCEPT ![op.I] = hval[Succ(op.j)]]
            /\ op' = [op EXCEPT !.I = Succ(op.j), !.j = Succ(op.j)]
        BY <1>8, <2>3 DEF Shift
      <3>2. op'.pc = "shift" /\ op'.I = Succ(op.j)
        BY <2>1, <3>1 DEF ProbeInv, TypeOK, Ops
      <3>3. Succ(op.j) # op.I
        BY <2>1, <2>3, SMT DEF Movable, Slots
      <3>4. Live = Occupied \ {op.I} /\ Live' = Occupied \ {Succ(op.j)} /\ op.I \in Occupied
            /\ Succ(op.j) \in Occupied
        BY <2>1, <3>1, <3>2 DEF Live, Occupied, ProbeInv, TypeOK, ShiftInv
      <3>5. \A i \in Occupied \ {op.I} : hkey'[i] = hkey[i] /\ hval'[i] = hval[i]
        BY <3>1 DEF Occupied, ProbeInv, TypeOK
      <3>6. hkey'[op.I] = hkey[Succ(op.j)] /\ hval'[op.I] = hval[Succ(op.j)]
        BY <2>1, <3>1 DEF ProbeInv, TypeOK
      <3>7. \A i \in Live' : Contents[hkey'[i]] = hval'[i]
        BY <2>2, <3>3, <3>4, <3>5, <3>6 DEF ReadsAs
      <3>8. ASSUME NEW k \in Keys, \A i \in Live' : hkey'[i] # k PROVE Contents[k] = NoEntry
        BY <2>2, <3>3, <3>4, <3>5, <3>6, <3>8 DEF ReadsAs
      <3>9. \A F : F = Contents => ReadsAs(F)'
        BY <3>7, <3>8 DEF ReadsAs
      <3>10. Pending' = Pending
        BY <2>1, <3>2 DEF Pending
      <3> QED
        BY <1>1, <2>1, <3>9, <3>10, ContentsUniqueNext
    <2>4. CASE ~Movable(op.I, Succ(op.j), Home(hkey[Succ(op.j)]))
      <3>1. UNCHANGED <<hkey, hval>> /\ op'.pc = "shift" /\ op'.I = op.I
        BY <1>8, <2>1, <2>4 DEF Shift, ProbeInv, TypeOK, Ops
      <3>2. Live' = Live
        BY <2>1, <3>1 DEF Live, Occupied
      <3> QED
        BY <2>1, <3>1, <3>2 DEF Contents, SlotOf, Pending
    <2> QED
      BY <2>3, <2>4
  <1>9. CASE del
    <2>1. /\ op.pc = "shift" /\ op.I \in Slots /\ op'.pc = "idle" /\ ret' = ret
          /\ hkey' = [hkey EXCEPT ![op.I] = InvId] /\ hval' = [hval EXCEPT ![op.I] = NoEntry]
      BY <1>9 DEF del, Vacate, Idle, ProbeInv, TypeOK, Ops
    <2>2. Live' = Live /\ \A i \in Live : hkey'[i] = hkey[i] /\ hval'[i] = hval[i]
      BY <2>1 DEF Live, Occupied, ProbeInv, TypeOK
    <2>3. \A F : F = Contents => ReadsAs(F)'
      BY <2>2, ContentsLive DEF ReadsAs
    <2>4. Pending' = Pending
      BY <2>1 DEF Pending
    <2> QED
      BY <1>1, <2>1, <2>3, <2>4, ContentsUniqueNext
  <1> QED
    BY <1>2, <1>3, <1>4, <1>5, <1>6, <1>7, <1>8, <1>9 DEF Next, Step

(* The blackboard is a bounded map: get() and exchange() return what was    *)
(* stored last under the key, and set(), exchange() and del() change the    *)
(* entry of their own key only, at one instant.                             *)
THEOREM TableImplementsMap == Spec => ImplementsMap
  <1>1. Init => Map!Init
    BY DEF Init, Map!Init, Contents, Live, Occupied, Idle, Pending, Map!NoCall
  <1>2. Init => LiveValued
    BY DEF Init, LiveValued, Live, Occupied
  <1>3. Spec => []LiveValued
    BY <1>2, LiveValuedNext, TableInvariant, PTL DEF Spec
  <1>4. ProbeInv /\ ProbeInv' /\ LiveValued /\ LiveValued' /\ [Next]_vars
            => [Map!Next]_<<Contents, ret, Pending>>
    BY MapNext
  <1> QED
    BY <1>1, <1>3, <1>4, TableInvariant, PTL DEF Spec, ImplementsMap, Map!Spec
=============================================================================
