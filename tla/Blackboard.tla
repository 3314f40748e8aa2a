----------------------------- MODULE Blackboard -----------------------------
(***************************************************************************)
(* The blackboard of src/src/caliper/Blackboard.{h,cpp}: an open-addressing *)
(* hash table with linear probing.  A "toc" bitfield (one bit per slot)     *)
(* and a "toctoc" bitfield (one bit per toc word) tell snapshot() which     *)
(* slots to copy.  Every operation holds the blackboard's spinlock from     *)
(* its first probe to its last write; the model takes one step per          *)
(* iteration of the operation's loops, so that the state of the table       *)
(* inside a compaction loop is visible to the invariants.                   *)
(***************************************************************************)
EXTENDS Integers, FiniteSets

CONSTANTS
    Nmax,       \* number of slots (1021 in the code)
    Reserve,    \* slots add() keeps free: Nmax/10+10 in the code
    WordBits,   \* bits in one toc word (32 in the code)
    Keys,       \* blackboard keys (attribute ids)
    HiddenKeys, \* keys whose attribute has CALI_ATTR_HIDDEN
    Values,     \* entries
    InvId,      \* CALI_INV_ID, the key of an empty slot
    NoEntry,    \* Entry(), the value of an empty slot
    MaxUpdates  \* bound of the model on the update count

(* The code's constants, 1021 slots with 112 in reserve, satisfy this: add  *)
(* leaves at least one empty slot, which is what stops every probe.         *)
ASSUME TableAssumption ==
    /\ Nmax \in Nat \ {0}
    /\ Reserve \in 2..Nmax
    /\ WordBits \in Nat \ {0}
    /\ MaxUpdates \in Nat

ASSUME KeyAssumption ==
    /\ Keys \subseteq Nat
    /\ HiddenKeys \subseteq Keys
    /\ InvId \notin Keys
    /\ NoEntry \notin Values

VARIABLES
    hkey,        \* hashtable[i].key
    hval,        \* hashtable[i].value
    toc,         \* set of slots whose toc bit is set
    toctoc,      \* set of toc words whose toctoc bit is set
    num_entries,
    num_skipped,
    ucount,      \* update count
    op,          \* the operation of the lock holder
    ret          \* what the last operation returned

vars == <<hkey, hval, toc, toctoc, num_entries, num_skipped, ucount, op, ret>>

Slots == 0..(Nmax - 1)

Home(key) == key % Nmax

Succ(i) == (i + 1) % Nmax

Word(i) == i \div WordBits

Idle == [pc |-> "idle", name |-> "none", key |-> InvId, value |-> NoEntry,
         I |-> 0, j |-> 0]

(* I and j are the loop variables of the operation, key and value its       *)
(* arguments.  pc "find" is the loop of find_existing_entry, "free" that of *)
(* find_free_slot, "shift" the compaction loop of del.                      *)
Ops ==
    [pc : {"idle", "find", "free", "shift"},
     name : {"none", "get", "set", "exchange", "del"},
     key : Keys \cup {InvId}, value : Values \cup {NoEntry},
     I : Slots, j : Slots]

Init ==
    /\ hkey = [i \in Slots |-> InvId]
    /\ hval = [i \in Slots |-> NoEntry]
    /\ toc = {}
    /\ toctoc = {}
    /\ num_entries = 0
    /\ num_skipped = 0
    /\ ucount = 0
    /\ op = Idle
    /\ ret = NoEntry

-----------------------------------------------------------------------------

table == <<hkey, hval, toc, toctoc, num_entries, num_skipped>>

Start(name, key, value) ==
    /\ op = Idle
    /\ op' = [pc |-> "find", name |-> name, key |-> key, value |-> value,
              I |-> Home(key), j |-> Home(key)]
    /\ UNCHANGED <<table, ucount, ret>>

(* An operation takes the lock and enters find_existing_entry.              *)
Call ==
    \E key \in Keys :
        \/ Start("get", key, NoEntry)
        \/ ucount < MaxUpdates /\ Start("del", key, NoEntry)
        \/ \E value \in Values :
              /\ ucount < MaxUpdates
              /\ Start("set", key, value) \/ Start("exchange", key, value)

(* Mutation: the probe restarts at the slot next to the home slot.          *)
ProbeRestarts ==
    /\ op.pc = "find"
    /\ hkey[op.I] \notin {op.key, InvId}
    /\ op' = [op EXCEPT !.I = Succ(Home(op.key))]
    /\ UNCHANGED <<table, ucount, ret>>

(* One iteration of the loop of find_existing_entry.                        *)
find_existing_entry ==
    /\ op.pc = "find"
    /\ hkey[op.I] \notin {op.key, InvId}
    /\ op' = [op EXCEPT !.I = Succ(op.I)]
    /\ UNCHANGED <<table, ucount, ret>>

Found == op.pc = "find" /\ hkey[op.I] = op.key

NotFound == op.pc = "find" /\ hkey[op.I] = InvId

get ==
    /\ op.pc = "find" /\ op.name = "get"
    /\ \/ Found /\ ret' = hval[op.I]
       \/ NotFound /\ ret' = NoEntry
    /\ op' = Idle
    /\ UNCHANGED <<table, ucount>>

(* set() and exchange() of a key that is in the table.                      *)
Overwrite ==
    /\ Found /\ op.name \in {"set", "exchange"}
    /\ hval' = [hval EXCEPT ![op.I] = op.value]
    /\ ret' = IF op.name = "exchange" THEN hval[op.I] ELSE ret
    /\ ucount' = ucount + 1
    /\ op' = Idle
    /\ UNCHANGED <<hkey, toc, toctoc, num_entries, num_skipped>>

(* set() and exchange() of a new key call add, which probes again.          *)
EnterAdd ==
    /\ NotFound /\ op.name \in {"set", "exchange"}
    /\ op' = [op EXCEPT !.pc = "free", !.I = Home(op.key)]
    /\ UNCHANGED <<table, ucount, ret>>

find_free_slot ==
    /\ op.pc = "free"
    /\ hkey[op.I] # InvId
    /\ op' = [op EXCEPT !.I = Succ(op.I)]
    /\ UNCHANGED <<table, ucount, ret>>

Full == num_entries + Reserve > Nmax

AddReturn ==
    /\ ucount' = ucount + 1
    /\ ret' = IF op.name = "exchange" THEN NoEntry ELSE ret
    /\ op' = Idle

SkipFull ==
    /\ op.pc = "free" /\ hkey[op.I] = InvId
    /\ Full
    /\ num_skipped' = num_skipped + 1
    /\ AddReturn
    /\ UNCHANGED <<hkey, hval, toc, toctoc, num_entries>>

(* Mutation: include_in_snapshots is taken the wrong way round.             *)
InsertInverted(I, key, value) ==
    /\ hkey' = [hkey EXCEPT ![I] = key]
    /\ hval' = [hval EXCEPT ![I] = value]
    /\ IF key \notin HiddenKeys
       THEN UNCHANGED <<toc, toctoc>>
       ELSE /\ toc' = toc \cup {I}
            /\ toctoc' = toctoc \cup {Word(I)}
    /\ num_entries' = num_entries + 1

(* The writes of add() to a free slot I.                                    *)
Insert(I, key, value) ==
    /\ hkey' = [hkey EXCEPT ![I] = key]
    /\ hval' = [hval EXCEPT ![I] = value]
    /\ IF key \in HiddenKeys
       THEN UNCHANGED <<toc, toctoc>>
       ELSE /\ toc' = toc \cup {I}
            /\ toctoc' = toctoc \cup {Word(I)}
    /\ num_entries' = num_entries + 1

add ==
    /\ op.pc = "free" /\ hkey[op.I] = InvId
    /\ ~Full
    /\ Insert(op.I, op.key, op.value)
    /\ AddReturn
    /\ UNCHANGED num_skipped

-----------------------------------------------------------------------------
(* del() of a key that is not in the table returns early.                   *)
DelMiss ==
    /\ NotFound /\ op.name = "del"
    /\ op' = Idle
    /\ UNCHANGED <<table, ucount, ret>>

EnterShift ==
    /\ Found /\ op.name = "del"
    /\ op' = [op EXCEPT !.pc = "shift", !.j = op.I]
    /\ UNCHANGED <<table, ucount, ret>>

(* Mutation: the case of a scan that has wrapped around is forgotten.       *)
MovableNoWrap(I, j, k) == j > I /\ (k <= I \/ k > j)

(* The entry at j, whose home is k, may move back into the hole at I.       *)
Movable(I, j, k) ==
    \/ j > I /\ (k <= I \/ k > j)
    \/ j < I /\ k <= I /\ k > j

(* Mutation: the compaction moves the key and leaves the value behind.      *)
ShiftKeyOnly ==
    /\ op.pc = "shift"
    /\ LET I == op.I
           j == Succ(op.j)
       IN /\ hkey[j] # InvId
          /\ IF Movable(I, j, Home(hkey[j]))
             THEN /\ hkey' = [hkey EXCEPT ![I] = hkey[j]]
                  /\ op' = [op EXCEPT !.I = j, !.j = j]
             ELSE /\ op' = [op EXCEPT !.j = j]
                  /\ UNCHANGED hkey
    /\ UNCHANGED <<hval, toc, toctoc, num_entries, num_skipped, ucount, ret>>

(* One iteration of the compaction loop: advance j and move the entry there *)
(* into the hole unless that would put it before its home slot.  The toc    *)
(* bits stay where they are.                                                *)
Shift ==
    /\ op.pc = "shift"
    /\ LET I == op.I
           j == Succ(op.j)
       IN /\ hkey[j] # InvId
          /\ IF Movable(I, j, Home(hkey[j]))
             THEN /\ hkey' = [hkey EXCEPT ![I] = hkey[j]]
                  /\ hval' = [hval EXCEPT ![I] = hval[j]]
                  /\ op' = [op EXCEPT !.I = j, !.j = j]
             ELSE /\ op' = [op EXCEPT !.j = j]
                  /\ UNCHANGED <<hkey, hval>>
    /\ UNCHANGED <<toc, toctoc, num_entries, num_skipped, ucount, ret>>

(* The end of del(): the writes to the slot I that is left over.            *)
Vacate(I) ==
    /\ hkey' = [hkey EXCEPT ![I] = InvId]
    /\ hval' = [hval EXCEPT ![I] = NoEntry]
    /\ num_entries' = num_entries - 1
    /\ toc' = toc \ {I}
    /\ toctoc' = IF \E i \in toc' : Word(i) = Word(I) THEN toctoc
                                                      ELSE toctoc \ {Word(I)}

del ==
    /\ op.pc = "shift"
    /\ hkey[Succ(op.j)] = InvId
    /\ Vacate(op.I)
    /\ ucount' = ucount + 1
    /\ op' = Idle
    /\ UNCHANGED <<num_skipped, ret>>

-----------------------------------------------------------------------------
(* snapshot() copies the slots whose toc bit is set in the words toctoc     *)
(* names.  It changes nothing and runs only while no other operation holds  *)
(* the lock.                                                                *)
snapshot == {hval[i] : i \in {s \in toc : Word(s) \in toctoc}}

Step ==
    \/ find_existing_entry \/ get \/ Overwrite \/ EnterAdd \/ find_free_slot
    \/ SkipFull \/ add \/ DelMiss \/ EnterShift \/ Shift \/ del

Next == Call \/ Step

Spec == Init /\ [][Next]_vars

(* The lock holder runs on: no operation blocks inside the lock.            *)
FairSpec == Spec /\ WF_vars(Step)

-----------------------------------------------------------------------------
(* Every variable keeps the type its declaration in Blackboard.h gives it.  *)
TypeOK ==
    /\ hkey \in [Slots -> Keys \cup {InvId}]
    /\ hval \in [Slots -> Values \cup {NoEntry}]
    /\ toc \in SUBSET Slots
    /\ toctoc \in SUBSET {Word(i) : i \in Slots}
    /\ num_entries \in 0..Nmax
    /\ num_skipped \in Nat
    /\ ucount \in Nat
    /\ op \in Ops
    /\ ret \in Values \cup {NoEntry}

(* The slots that hold an entry.  Inside the compaction loop of del() slot  *)
(* I still holds the deleted entry, or the stale copy of a moved one.       *)
Occupied == {i \in Slots : hkey[i] # InvId}

Live == IF op.pc = "shift" THEN Occupied \ {op.I} ELSE Occupied

(* x is one of the slots a probe visits on its way from slot a to slot b.   *)
OnPath(a, x, b) ==
    IF a <= b THEN a <= x /\ x <= b ELSE a <= x \/ x <= b

(* No probe for a stored key stops early: whenever no operation holds the   *)
(* lock, a key is in one slot at most and no slot between a key's home and  *)
(* the slot that holds it is empty.  find_existing_entry depends on it, and *)
(* add and the compaction loop of del have to keep it up.                   *)
ProbeReaches ==
    op.pc = "idle" =>
        /\ \A i, l \in Occupied : hkey[i] = hkey[l] => i = l
        /\ \A i \in Occupied : \A x \in Slots :
              OnPath(Home(hkey[i]), x, i) => x \in Occupied

(* The inductive strengthening of ProbeReaches: what the three loops have   *)
(* established about the slots they have passed.  A live entry is one that  *)
(* is not in the hole I of a compaction in progress.                        *)
LiveReachable ==
    /\ \A i, l \in Live : hkey[i] = hkey[l] => i = l
    /\ \A i \in Live : \A x \in Slots :
          OnPath(Home(hkey[i]), x, i) => x \in Occupied

FindInv ==
    op.pc = "find" => \A x \in Slots :
        OnPath(Home(op.key), x, op.I) /\ x # op.I => hkey[x] \notin {op.key, InvId}

FreeInv ==
    op.pc = "free" =>
        /\ op.name \in {"set", "exchange"}
        /\ \A x \in Slots : hkey[x] # op.key
        /\ \A x \in Slots :
              OnPath(Home(op.key), x, op.I) /\ x # op.I => x \in Occupied

(* Every slot between the hole and j has been scanned: it is occupied, and  *)
(* the hole is not on the path to the entry it holds.                       *)
ShiftInv ==
    op.pc = "shift" =>
        /\ op.I \in Occupied
        /\ \A x \in Live : hkey[x] # op.key
        /\ \A x \in Slots :
              OnPath(op.I, x, op.j) /\ x # op.I =>
                  x \in Occupied /\ ~OnPath(Home(hkey[x]), op.I, x)

OpInv ==
    /\ op.pc # "idle" => op.key \in Keys
    /\ op.name \in {"set", "exchange"} => op.value \in Values

ProbeInv ==
    /\ TypeOK /\ OpInv /\ LiveReachable /\ FindInv /\ FreeInv /\ ShiftInv
    /\ num_entries = Cardinality(Occupied)
    /\ num_entries + Reserve <= Nmax + 1

(* Every live slot holds an entry, so an absent key reads as Entry().       *)
LiveValued == \A i \in Live : hval[i] \in Values

(* num_entries counts the occupied slots, and add() stops early enough to   *)
(* leave an empty slot, without which the probing loops would not end.      *)
CountExact ==
    /\ num_entries = Cardinality(Occupied)
    /\ num_entries < Nmax

(* Both bitfields describe the table: a toc bit is only set for a slot that *)
(* holds an entry, and a toctoc bit is set exactly for the words in which   *)
(* some toc bit is set.  So snapshot() never copies an empty slot and never *)
(* misses a set bit.                                                        *)
TocConsistent ==
    /\ toc \subseteq Occupied
    /\ toctoc = {Word(i) : i \in toc}

(* What the doc string of the attribute property "hidden" promises ("Do not *)
(* include this attribute in snapshots") and what pull_context relies on    *)
(* for all other attributes: between operations the toc bits select exactly *)
(* the slots of the keys that are not hidden.                               *)
SnapshotExact ==
    op.pc = "idle" => toc = {i \in Occupied : hkey[i] \notin HiddenKeys}

(* Every call returns: the probing loops and the compaction loop all end.   *)
EveryCallReturns == op.pc # "idle" ~> op.pc = "idle"

(* What the table stores, as a function of the key.                         *)
SlotOf(key) == CHOOSE i \in Live : hkey[i] = key

Contents ==
    [key \in Keys |-> IF \E i \in Live : hkey[i] = key
                      THEN hval[SlotOf(key)] ELSE NoEntry]

(* The operation that has not taken effect.  del() takes effect when it has *)
(* found the entry, the others when they return.                            *)
Pending ==
    IF op.pc \in {"find", "free"} THEN <<op.name, op.key, op.value>>
                                  ELSE <<"none", NoEntry, NoEntry>>

Map == INSTANCE BlackboardMap
    WITH Capacity <- Nmax - Reserve + 1, contents <- Contents, ret <- ret,
         call <- Pending

(* The table implements a bounded map from keys to entries: every operation *)
(* takes effect at one instant, only on its own key, and get() and          *)
(* exchange() return what was stored there last.                            *)
ImplementsMap == Map!Spec
=============================================================================
