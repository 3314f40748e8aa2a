-------------------------- MODULE ProcessSnapshot --------------------------
(***************************************************************************)
(* The per-thread copy of the process blackboard that pull_context,         *)
(* pull_snapshot and push_snapshot put into a snapshot record               *)
(* (ThreadData::update_process_snapshot in src/src/caliper/Caliper.cpp).    *)
(* A thread reads the blackboard's update count without the lock, and takes *)
(* the lock and a new copy only if the count is greater than the one its    *)
(* copy was made for.  Meanwhile other threads update the blackboard.       *)
(*                                                                          *)
(* The contents of the blackboard are abstracted to a version: the number   *)
(* of updates whose effect snapshot() would copy.                           *)
(***************************************************************************)
EXTENDS Integers

CONSTANTS
    Writers,    \* threads that update the process blackboard
    Readers,    \* threads that take snapshots
    NoHolder,   \* the spinlock is free
    IntMax,     \* greatest value of std::atomic<int> ucount
    MaxUpdates  \* bound of the model on the number of updates

ASSUME SnapshotAssumption ==
    /\ IntMax \in Nat /\ MaxUpdates \in Nat
    /\ NoHolder \notin Writers

VARIABLES
    lock,     \* holder of the blackboard's spinlock
    step,     \* what the holder does next
    version,  \* updates that snapshot() would see
    ucount,   \* Blackboard::ucount
    updates,  \* history: the number of calls that have returned
    pc,       \* where each reader is
    now,      \* process_bb_count_now
    process_bb_count,
    process_snapshot, \* the version of the reader's copy
    began     \* history: updates that had returned when the reader's call began

vars == <<lock, step, version, ucount, updates, pc, now, process_bb_count,
          process_snapshot, began>>

readers == <<pc, now, process_bb_count, process_snapshot, began>>

Init ==
    /\ lock = NoHolder /\ step = "none"
    /\ version = 0 /\ ucount = 0 /\ updates = 0
    /\ pc = [t \in Readers |-> "idle"]
    /\ now = [t \in Readers |-> 0]
    /\ process_bb_count = [t \in Readers |-> -1]
    /\ process_snapshot = [t \in Readers |-> 0]
    /\ began = [t \in Readers |-> 0]

(* The increment of a two's complement atomic<int>.                         *)
Inc(n) == IF n = IntMax THEN -IntMax - 1 ELSE n + 1

-----------------------------------------------------------------------------
(* set(), exchange() and del() take the lock.                               *)
Lock(w) ==
    /\ lock = NoHolder /\ updates < MaxUpdates
    /\ lock' = w
    /\ step' \in {"set", "del"}
    /\ UNCHANGED <<version, ucount, updates, readers>>

Unlock ==
    /\ lock' = NoHolder /\ step' = "none"
    /\ updates' = updates + 1

(* set() and exchange() write the entry, then count.                        *)
SetEntry ==
    /\ step = "set"
    /\ version' = version + 1
    /\ step' = "count"
    /\ UNCHANGED <<lock, ucount, updates, readers>>

SetCount ==
    /\ step = "count"
    /\ ucount' = Inc(ucount)
    /\ Unlock
    /\ UNCHANGED <<version, readers>>

(* del() counts, then clears the toc bit.                                   *)
DelCount ==
    /\ step = "del"
    /\ ucount' = Inc(ucount)
    /\ step' = "toc"
    /\ UNCHANGED <<lock, version, updates, readers>>

DelToc ==
    /\ step = "toc"
    /\ version' = version + 1
    /\ Unlock
    /\ UNCHANGED <<ucount, readers>>

-----------------------------------------------------------------------------
(* A snapshot call begins: trigger info, service callbacks and the thread   *)
(* blackboard come first.                                                   *)
pull_context(t) ==
    /\ pc[t] = "idle"
    /\ pc' = [pc EXCEPT ![t] = "read"]
    /\ began' = [began EXCEPT ![t] = updates]
    /\ UNCHANGED <<lock, step, version, ucount, updates, now, process_bb_count,
                   process_snapshot>>

(* Blackboard::count, without the lock.                                     *)
count(t) ==
    /\ pc[t] = "read"
    /\ now' = [now EXCEPT ![t] = ucount]
    /\ pc' = [pc EXCEPT ![t] = IF ucount > process_bb_count[t] THEN "copy" ELSE "done"]
    /\ UNCHANGED <<lock, step, version, ucount, updates, process_bb_count,
                   process_snapshot, began>>

(* Mutation: the copy is taken without the lock.                            *)
CopyUnlocked(t) ==
    /\ pc[t] = "copy"
    /\ process_snapshot' = [process_snapshot EXCEPT ![t] = version]
    /\ process_bb_count' = [process_bb_count EXCEPT ![t] = now[t]]
    /\ pc' = [pc EXCEPT ![t] = "done"]
    /\ UNCHANGED <<lock, step, version, ucount, updates, now, began>>

(* Blackboard::snapshot copies the table under the lock.                    *)
update_process_snapshot(t) ==
    /\ pc[t] = "copy"
    /\ lock = NoHolder
    /\ process_snapshot' = [process_snapshot EXCEPT ![t] = version]
    /\ process_bb_count' = [process_bb_count EXCEPT ![t] = now[t]]
    /\ pc' = [pc EXCEPT ![t] = "done"]
    /\ UNCHANGED <<lock, step, version, ucount, updates, now, began>>

(* The copy is appended to the record, and the call returns.                *)
Return(t) ==
    /\ pc[t] = "done"
    /\ pc' = [pc EXCEPT ![t] = "idle"]
    /\ UNCHANGED <<lock, step, version, ucount, updates, now, process_bb_count,
                   process_snapshot, began>>

Holder == SetEntry \/ SetCount \/ DelCount \/ DelToc

Reader(t) == pull_context(t) \/ count(t) \/ update_process_snapshot(t) \/ Return(t)

Next == (\E w \in Writers : Lock(w)) \/ Holder \/ (\E t \in Readers : Reader(t))

Spec == Init /\ [][Next]_vars

-----------------------------------------------------------------------------
(* The types of the variables; ucount stays in the range of an int.         *)
TypeOK ==
    /\ lock \in Writers \cup {NoHolder}
    /\ step \in {"none", "set", "count", "del", "toc"}
    /\ version \in Nat /\ updates \in Nat
    /\ ucount \in (-IntMax - 1)..IntMax
    /\ pc \in [Readers -> {"idle", "read", "copy", "done"}]
    /\ now \in [Readers -> Int]
    /\ process_bb_count \in [Readers -> Int]
    /\ process_snapshot \in [Readers -> Nat]
    /\ began \in [Readers -> Nat]

(* A snapshot is never stale: the process part of a record contains every   *)
(* update that had returned before the snapshot call began, whether the     *)
(* thread took a new copy or used the one it had.                           *)
Fresh == \A t \in Readers : pc[t] = "done" => process_snapshot[t] >= began[t]

(* The inductive strengthening of Fresh, for counts that do not wrap: the   *)
(* update count is never ahead of the table while the lock is free, and a   *)
(* copy contains all the updates up to the count it is labelled with.       *)
CountInv ==
    /\ step \in {"none", "set"} => version = updates /\ ucount = updates
    /\ step = "count" => version = updates + 1 /\ ucount = updates
    /\ step = "del" => version = updates /\ ucount = updates
    /\ step = "toc" => version = updates /\ ucount = updates + 1
    /\ lock = NoHolder <=> step = "none"
    /\ updates <= MaxUpdates
    /\ lock # NoHolder => updates < MaxUpdates

ReaderInv ==
    \A t \in Readers :
        /\ process_bb_count[t] <= process_snapshot[t]
        /\ began[t] <= updates
        /\ pc[t] \in {"copy", "done"} => began[t] <= now[t] /\ now[t] <= ucount
        /\ pc[t] = "done" => now[t] <= process_bb_count[t]

FreshInv == TypeOK /\ CountInv /\ ReaderInv
=============================================================================
