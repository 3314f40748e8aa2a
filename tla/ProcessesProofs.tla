-------------------------- MODULE ProcessesProofs --------------------------
(***************************************************************************)
(* The threads of a process, for any number of them.  Process snapshots    *)
(* are fresh as long as the update count does not wrap; exit and release   *)
(* of the Caliper singleton are clean if the main thread makes the first   *)
(* call; the services that take snapshots asynchronously push none to a    *)
(* channel that is gone if the program joins the threads they sample.      *)
(***************************************************************************)
EXTENDS ProcessSnapshot, Lifecycle, Samplers, TLAPS


(* The copy in a finished call is at least as new as its label, the label   *)
(* as new as the count the call read, and the count as new as the call.     *)
LEMMA InvImpliesFresh == FreshInv => Fresh
BY DEF FreshInv, TypeOK, ReaderInv, Fresh

(* An initial state has made no update and no copy.                         *)
LEMMA InitInv == SnapshotAssumption /\ Init => FreshInv
BY DEF SnapshotAssumption, Init, FreshInv, TypeOK, CountInv, ReaderInv

(* Every step of a writer keeps the count and the table in step.            *)
LEMMA WriterStep ==
    ASSUME SnapshotAssumption, MaxUpdates <= IntMax, FreshInv,
           (\E w \in Writers : Lock(w)) \/ Holder
    PROVE  FreshInv'
<1> USE DEF SnapshotAssumption
<1>1. CASE \E w \in Writers : Lock(w)
  <2>1. TypeOK' BY <1>1 DEF FreshInv, TypeOK, Lock, readers
  <2>2. CountInv' BY <1>1 DEF FreshInv, TypeOK, CountInv, Lock, readers
  <2>3. ReaderInv' BY <1>1 DEF FreshInv, TypeOK, ReaderInv, Lock, readers
  <2> QED BY <2>1, <2>2, <2>3 DEF FreshInv
<1>2. CASE SetEntry
  <2>1. TypeOK' BY <1>2 DEF FreshInv, TypeOK, SetEntry, readers
  <2>2. CountInv' BY <1>2 DEF FreshInv, TypeOK, CountInv, SetEntry, readers
  <2>3. ReaderInv' BY <1>2 DEF FreshInv, TypeOK, ReaderInv, SetEntry, readers
  <2> QED BY <2>1, <2>2, <2>3 DEF FreshInv
<1>3. CASE SetCount
  <2>0. ucount = updates /\ updates < MaxUpdates /\ Inc(ucount) = ucount + 1
    BY <1>3 DEF FreshInv, TypeOK, CountInv, SetCount, Inc
  <2>1. TypeOK' BY <1>3, <2>0 DEF FreshInv, TypeOK, SetCount, Unlock, readers
  <2>2. CountInv'
    BY <1>3, <2>0 DEF FreshInv, TypeOK, CountInv, SetCount, Unlock, readers
  <2>3. ReaderInv'
    BY <1>3, <2>0 DEF FreshInv, TypeOK, ReaderInv, SetCount, Unlock, readers
  <2> QED BY <2>1, <2>2, <2>3 DEF FreshInv
<1>4. CASE DelCount
  <2>0. ucount = updates /\ updates < MaxUpdates /\ Inc(ucount) = ucount + 1
    BY <1>4 DEF FreshInv, TypeOK, CountInv, DelCount, Inc
  <2>1. TypeOK' BY <1>4, <2>0 DEF FreshInv, TypeOK, DelCount, readers
  <2>2. CountInv' BY <1>4, <2>0 DEF FreshInv, TypeOK, CountInv, DelCount, readers
  <2>3. ReaderInv' BY <1>4, <2>0 DEF FreshInv, TypeOK, ReaderInv, DelCount, readers
  <2> QED BY <2>1, <2>2, <2>3 DEF FreshInv
<1>5. CASE DelToc
  <2>1. TypeOK' BY <1>5 DEF FreshInv, TypeOK, DelToc, Unlock, readers
  <2>2. CountInv' BY <1>5 DEF FreshInv, TypeOK, CountInv, DelToc, Unlock, readers
  <2>3. ReaderInv' BY <1>5 DEF FreshInv, TypeOK, ReaderInv, DelToc, Unlock, readers
  <2> QED BY <2>1, <2>2, <2>3 DEF FreshInv
<1> QED BY <1>1, <1>2, <1>3, <1>4, <1>5 DEF Holder

(* Every step of a reader keeps its label behind its copy.  The copy is     *)
(* taken while the lock is free, when the count and the version agree.      *)
LEMMA ReaderStep ==
    ASSUME SnapshotAssumption, FreshInv, NEW t \in Readers, Reader(t)
    PROVE  FreshInv'
<1> USE DEF SnapshotAssumption
<1>1. CASE pull_context(t)
  <2>1. TypeOK' BY <1>1 DEF FreshInv, TypeOK, pull_context
  <2>2. CountInv' BY <1>1 DEF FreshInv, TypeOK, CountInv, pull_context
  <2>3. ReaderInv' BY <1>1 DEF FreshInv, TypeOK, ReaderInv, pull_context
  <2> QED BY <2>1, <2>2, <2>3 DEF FreshInv
<1>2. CASE count(t)
  <2>0. updates <= ucount BY DEF FreshInv, TypeOK, CountInv
  <2>1. TypeOK' BY <1>2 DEF FreshInv, TypeOK, count
  <2>2. CountInv' BY <1>2 DEF FreshInv, TypeOK, CountInv, count
  <2>3. ReaderInv' BY <1>2, <2>0 DEF FreshInv, TypeOK, ReaderInv, count
  <2> QED BY <2>1, <2>2, <2>3 DEF FreshInv
<1>3. CASE update_process_snapshot(t)
  <2>0. version = ucount
    BY <1>3 DEF FreshInv, TypeOK, CountInv, update_process_snapshot
  <2>1. TypeOK' BY <1>3 DEF FreshInv, TypeOK, update_process_snapshot
  <2>2. CountInv' BY <1>3 DEF FreshInv, TypeOK, CountInv, update_process_snapshot
  <2>3. ReaderInv'
    BY <1>3, <2>0 DEF FreshInv, TypeOK, ReaderInv, update_process_snapshot
  <2> QED BY <2>1, <2>2, <2>3 DEF FreshInv
<1>4. CASE Return(t)
  <2>1. TypeOK' BY <1>4 DEF FreshInv, TypeOK, Return
  <2>2. CountInv' BY <1>4 DEF FreshInv, TypeOK, CountInv, Return
  <2>3. ReaderInv' BY <1>4 DEF FreshInv, TypeOK, ReaderInv, Return
  <2> QED BY <2>1, <2>2, <2>3 DEF FreshInv
<1> QED BY <1>1, <1>2, <1>3, <1>4 DEF Reader

(* A snapshot record contains every process-scope update that returned      *)
(* before the snapshot call began, for any number of threads, as long as    *)
(* there are no more updates than an int can count.                         *)
THEOREM SnapshotsFresh ==
    ASSUME MaxUpdates <= IntMax
    PROVE  Spec => []Fresh
<1>1. Init => FreshInv
  BY InitInv, SnapshotAssumption
<1>2. FreshInv /\ [Next]_vars => FreshInv'
  <2> SUFFICES ASSUME FreshInv, [Next]_vars PROVE FreshInv' OBVIOUS
  <2>1. CASE Next
    BY <2>1, WriterStep, ReaderStep, SnapshotAssumption DEF Next
  <2>2. CASE UNCHANGED vars
    BY <2>2 DEF vars, FreshInv, TypeOK, CountInv, ReaderInv
  <2> QED BY <2>1, <2>2
<1> QED BY <1>1, <1>2, InvImpliesFresh, PTL DEF Spec

-----------------------------------------------------------------------------
(* Exit and release                                                         *)


(* Initially no object exists.                                              *)
LEMMA InitLife == LifecycleAssumption /\ LifeInit => LifeInv
<1> SUFFICES ASSUME LifecycleAssumption, LifeInit PROVE LifeInv OBVIOUS
<1>1. LifeTypeOK
  <2>1. fault \in BOOLEAN BY Zenon DEF LifeInit
  <2>2. /\ 0 \in 0..MaxInit /\ t_ptr \in [Threads -> 0..MaxInit] /\ cali \in [Threads -> 0..MaxInit]
        /\ finalized \in [Ids -> Nat] /\ s_init_lock \in 0..2
    BY DEF LifecycleAssumption, LifeInit
  <2> QED BY <2>1, <2>2 DEF LifeInit, LifeTypeOK
<1>2. ExitInv BY DEF LifeInit, ExitInv, Threads
<1>3. UninitializedInv BY DEF LifeInit, UninitializedInv, Threads
<1> QED BY <1>1, <1>2, <1>3 DEF LifeInit, LifeInv

(* The invariant gives the properties of a state.                           *)
LEMMA LifeInvImplies == LifecycleAssumption /\ LifeInv => ExitClean
<1> SUFFICES ASSUME LifecycleAssumption, LifeInv PROVE ExitClean OBVIOUS
<1>1. NoFault BY DEF LifeInv, NoFault
<1>2. \A n \in Ids : finalized[n] <= 1
  BY DEF LifeInv, LifeTypeOK, UninitializedInv, ActiveInv, ReleasedInv, Ids, LifecycleAssumption
<1>3. ASSUME Over PROVE (\A n \in 1..made : finalized[n] = 1) /\ globals = {} /\ threads = {}
  <2>1. s_init_lock # 0 BY <1>3 DEF LifeInv, ActiveInv, Over
  <2>2. CASE s_init_lock = 1
    <3>1. made = 0 /\ globals = {} /\ threads = {}
      BY <1>3, <2>2 DEF LifeInv, UninitializedInv, Over
    <3> QED BY <3>1
  <2>3. CASE s_init_lock = 2
    <3>1. \A t \in Threads : ~Deleting(t)
      BY <1>3 DEF LifeInv, ExitInv, Over, Threads, Deleting
    <3>2. 1..made \subseteq Ids BY DEF LifeInv, LifeTypeOK, Ids, LifecycleAssumption
    <3> QED BY <2>3, <3>1, <3>2 DEF LifeInv, ReleasedInv
  <2> QED BY <2>1, <2>2, <2>3 DEF LifeInv, LifeTypeOK
<1> QED BY <1>1, <1>2, <1>3 DEF ExitClean, FinalizedOnce

(* What is known of a thread while Caliper is active.                       *)
LEMMA ActiveThread ==
    ASSUME ActiveInv, NEW t \in Threads
    PROVE  /\ doing[t] \in {"out", "use", "exit", "exited"}
           /\ t_ptr[t] # 0 => t_ptr[t] = 1 /\ <<t, 1>> \in threads
           /\ doing[t] = "use" => cali[t] = 1 /\ t_ptr[t] = 1
BY Zenon DEF ActiveInv

(* Initialization, which only the main thread does.                         *)
LEMMA InitializationStep ==
    ASSUME LifecycleAssumption, MainInitializes, LifeInv, NEW t \in Threads,
           Wait(t) \/ LockInit(t) \/ Create(t) \/ Initialized(t)
    PROVE  LifeInv'
<1> USE DEF LifecycleAssumption
<1>0. t = Main /\ s_init_lock = 1 /\ UninitializedInv
  <2>1. doing[t] \in {"wait", "locked", "init"} \/ (s_init_lock = 1 /\ t = Main)
    BY DEF Wait, LockInit, Create, Initialized
  <2>2. s_init_lock # 0
    <3> SUFFICES ASSUME s_init_lock = 0 PROVE FALSE OBVIOUS
    <3>1. ActiveInv BY DEF LifeInv
    <3>2. doing[t] \in {"out", "use", "exit", "exited"} BY <3>1, ActiveThread, Zenon
    <3> QED BY <2>1, <3>2
  <2>3. s_init_lock # 2 BY <2>1 DEF LifeInv, ReleasedInv
  <2>4. s_init_lock = 1 BY <2>2, <2>3 DEF LifeInv, LifeTypeOK
  <2> QED BY <2>1, <2>4 DEF LifeInv, UninitializedInv, Threads
<1>1. CASE Wait(t)
  <2>1. LifeTypeOK' BY <1>1 DEF LifeInv, LifeTypeOK, Wait
  <2>2. ExitInv' BY <1>0, <1>1 DEF LifeInv, LifeTypeOK, ExitInv, Wait, Threads
  <2>3. UninitializedInv' BY <1>0, <1>1 DEF LifeInv, LifeTypeOK, UninitializedInv, Wait, Threads
  <2> QED BY <1>0, <1>1, <2>1, <2>2, <2>3 DEF LifeInv, Wait
<1>2. CASE LockInit(t)
  <2>1. LifeTypeOK' BY <1>2 DEF LifeInv, LifeTypeOK, LockInit
  <2>2. ExitInv' BY <1>0, <1>2 DEF LifeInv, LifeTypeOK, ExitInv, LockInit, Threads
  <2>3. UninitializedInv' BY <1>0, <1>2 DEF LifeInv, LifeTypeOK, UninitializedInv, LockInit, Threads
  <2> QED BY <1>0, <1>2, <2>1, <2>2, <2>3 DEF LifeInv, LockInit
<1>3. CASE Create(t)
  <2>0. made = 0 /\ made' = 1 /\ 1 \in Ids
    BY <1>0, <1>3 DEF LifeInv, LifeTypeOK, UninitializedInv, Create, Ids
  <2>1. LifeTypeOK' BY <1>3, <2>0 DEF LifeInv, LifeTypeOK, Create, Ids
  <2>2. ExitInv' BY <1>0, <1>3 DEF LifeInv, LifeTypeOK, ExitInv, Create, Threads
  <2>3. UninitializedInv'
    BY <1>0, <1>3, <2>0 DEF LifeInv, LifeTypeOK, UninitializedInv, Create, Threads
  <2> QED BY <1>0, <1>3, <2>1, <2>2, <2>3 DEF LifeInv, Create
<1>4. CASE Initialized(t)
  <2>1. LifeTypeOK' BY <1>4 DEF LifeInv, LifeTypeOK, Initialized
  <2>2. ExitInv' BY <1>0, <1>4 DEF LifeInv, LifeTypeOK, ExitInv, Initialized, Threads
  <2>3. ActiveInv'
    BY <1>0, <1>4 DEF LifeInv, LifeTypeOK, UninitializedInv, ActiveInv, Initialized, Threads
  <2> QED BY <1>4, <2>1, <2>2, <2>3 DEF LifeInv, Initialized
<1> QED BY <1>1, <1>2, <1>3, <1>4

(* A call on an active Caliper.                                             *)
LEMMA UseStep ==
    ASSUME LifecycleAssumption, LifeInv, NEW t \in Threads, instance(t) \/ Leave(t)
    PROVE  LifeInv'
<1> USE DEF LifecycleAssumption
<1>0. s_init_lock = 0 /\ ActiveInv
  BY DEF LifeInv, LifeTypeOK, UninitializedInv, ReleasedInv, Threads, instance, Leave
<1>1. CASE instance(t)
  <2>0. ~fault' /\ 1 \in Ids
    BY <1>0, <1>1, Zenon DEF LifeInv, LifeTypeOK, ActiveInv, instance, Valid, Ids
  <2>1. LifeTypeOK'
    <3>1. g_ptr = 1 /\ 1 \in 0..MaxInit /\ <<t, 1>> \in Threads \X Ids
      BY <1>0, <2>0 DEF ActiveInv, Ids
    <3>2. t_ptr' \in [Threads -> 0..MaxInit] /\ cali' \in [Threads -> 0..MaxInit]
      BY <1>1, <3>1 DEF LifeInv, LifeTypeOK, instance
    <3>3. threads' \subseteq Threads \X Ids
      BY <1>1, <3>1 DEF LifeInv, LifeTypeOK, instance
    <3> QED BY <1>1, <2>0, <3>2, <3>3, Zenon DEF LifeInv, LifeTypeOK, instance
  <2>2. ExitInv' BY <1>1 DEF LifeInv, LifeTypeOK, ExitInv, instance, Threads
  <2>3. ActiveInv' BY <1>0, <1>1 DEF LifeInv, LifeTypeOK, ActiveInv, instance, Threads
  <2> QED BY <1>0, <1>1, <2>0, <2>1, <2>2, <2>3 DEF LifeInv, instance
<1>2. CASE Leave(t)
  <2>0. ~fault'
    <3>0. doing[t] = "use" BY <1>2 DEF Leave
    <3>1. Valid(t, cali[t], t_ptr[t])
      <4>1. cali[t] = 1 /\ t_ptr[t] = 1 BY <1>0, <3>0, ActiveThread, Zenon
      <4>2. globals = {1} /\ <<t, 1>> \in threads BY <1>0, <4>1, ActiveThread DEF ActiveInv
      <4> QED BY <4>1, <4>2 DEF Valid
    <3> QED BY <1>2, <3>1, Zenon DEF LifeInv, Leave
  <2>1. LifeTypeOK' BY <1>2, <2>0 DEF LifeInv, LifeTypeOK, Leave
  <2>2. ExitInv' BY <1>2 DEF LifeInv, LifeTypeOK, ExitInv, Leave, Threads
  <2>3. ActiveInv' BY <1>0, <1>2 DEF LifeInv, LifeTypeOK, ActiveInv, Leave, Threads
  <2> QED BY <1>0, <1>2, <2>0, <2>1, <2>2, <2>3 DEF LifeInv, Leave
<1> QED BY <1>1, <1>2

(* What finalization establishes on an active Caliper when the finalizing   *)
(* thread has its ThreadData and no other thread is inside a call.          *)
LEMMA FinalizeStep ==
    ASSUME LifecycleAssumption, LifeInv, s_init_lock = 0, NEW t \in Threads,
           FinalizeAndDelete(t, g_ptr), t_ptr[t] = 1,
           \A u \in Threads \ {t} : doing[u] # "use",
           NEW next_pc \in {"delete", "tls_delete", "g_delete"},
           doing' = [doing EXCEPT ![t] = next_pc],
           next_pc # "delete" => doing[t] = "exit",
           doing[t] # "exited",
           doing[t] = "exit" => next_pc # "delete",
           phase' \in {"run", "released", "exit"}, destroyed' \subseteq {"tls", "g"}
    PROVE  LifeInv'
<1> USE DEF LifecycleAssumption
<1>0. ActiveInv BY DEF LifeInv
<1>1. ~fault'
  BY <1>0 DEF LifeInv, LifeTypeOK, ActiveInv, FinalizeAndDelete, Valid
<1>2. threads' = {}
  BY <1>0 DEF ActiveInv, FinalizeAndDelete
<1>3. \A n \in Ids : finalized'[n] = IF n = 1 THEN 1 ELSE 0
  BY <1>0 DEF LifeInv, LifeTypeOK, ActiveInv, FinalizeAndDelete
<1>4. finalized' \in [Ids -> Nat]
  BY DEF LifeInv, LifeTypeOK, FinalizeAndDelete
<1>5. LifeTypeOK'
  BY <1>1, <1>2, <1>4 DEF LifeInv, LifeTypeOK, FinalizeAndDelete
<1>6. ExitInv'
  BY DEF LifeInv, LifeTypeOK, ExitInv, Threads
<1>7. \A u \in Threads : Deleting(u)' <=> u = t
  BY <1>0, Zenon DEF LifeInv, LifeTypeOK, ActiveInv, Deleting
<1>8. ReleasedInv'
  <2>1. made' = 1 /\ g_ptr' = 1 /\ globals' = {1}
    BY <1>0 DEF ActiveInv, FinalizeAndDelete
  <2>2. \A u \in Threads : doing'[u] \notin {"wait", "locked", "init", "use"}
    BY <1>0, Zenon DEF LifeInv, LifeTypeOK, ActiveInv
  <2> QED BY <1>2, <1>3, <1>7, <2>1, <2>2 DEF ReleasedInv
<1> QED BY <1>1, <1>5, <1>6, <1>8 DEF LifeInv, FinalizeAndDelete

(* release() by any thread.                                                 *)
LEMMA ReleaseStep ==
    ASSUME LifecycleAssumption, LifeInv, NEW t \in Threads, release(t)
    PROVE  LifeInv'
<1>1. s_init_lock = 0 /\ ActiveInv
  BY DEF LifeInv, LifeTypeOK, UninitializedInv, ReleasedInv, Threads, release
<1>2. t_ptr[t] = 1 BY <1>1, Zenon DEF ActiveInv, release
<1>3. phase' \in {"run", "released", "exit"} /\ destroyed' \subseteq {"tls", "g"}
  BY DEF LifeInv, LifeTypeOK, release
<1> QED BY <1>1, <1>2, <1>3, FinalizeStep, Zenon DEF release

(* The second half of ~GlobalData.                                          *)
LEMMA DeletedStep ==
    ASSUME LifecycleAssumption, LifeInv, NEW t \in Threads, Deleted(t)
    PROVE  LifeInv'
<1> USE DEF LifecycleAssumption
<1>0. s_init_lock = 2 /\ ReleasedInv /\ Deleting(t)
  <2>1. Deleting(t) BY DEF Deleted, Deleting
  <2>2. s_init_lock # 1 BY <2>1 DEF LifeInv, UninitializedInv, Threads, Deleting
  <2>3. s_init_lock # 0 BY <2>1, Zenon DEF LifeInv, ActiveInv, Deleting
  <2> QED BY <2>1, <2>2, <2>3 DEF LifeInv, LifeTypeOK
<1>1. g_ptr' = 0 /\ globals' = {}
  BY <1>0 DEF ReleasedInv, Deleted
<1>2. doing'[t] \in {"out", "exit", "exited"} /\ \A u \in Threads \ {t} : doing'[u] = doing[u]
  BY DEF LifeInv, LifeTypeOK, Deleted, AfterDelete, AfterTls
<1>3. LifeTypeOK'
  BY <1>1, <1>2 DEF LifeInv, LifeTypeOK, Deleted, AfterDelete, AfterTls
<1>4. ExitInv'
  BY DEF LifeInv, LifeTypeOK, ExitInv, Deleted, AfterDelete, AfterTls, Threads
<1>5. \A u \in Threads : ~Deleting(u)'
  BY <1>0, <1>2 DEF ReleasedInv, Deleting
<1>6. \A u \in Threads : doing'[u] \notin {"wait", "locked", "init", "use"}
  BY <1>0, <1>2 DEF ReleasedInv
<1>7. ReleasedInv'
  BY <1>0, <1>1, <1>5, <1>6 DEF ReleasedInv, Deleted
<1> QED BY <1>0, <1>3, <1>4, <1>7 DEF LifeInv, Deleted

(* main() returns.                                                          *)
LEMMA ExitStep ==
    ASSUME LifecycleAssumption, LifeInv, Exit
    PROVE  LifeInv'
<1> USE DEF LifecycleAssumption
<1>1. LifeTypeOK' BY Zenon DEF LifeInv, LifeTypeOK, Exit
<1>2. ExitInv' BY DEF LifeInv, LifeTypeOK, ExitInv, Exit, Threads
<1>3. s_init_lock = 1 => UninitializedInv'
  BY DEF LifeInv, LifeTypeOK, UninitializedInv, Exit, Threads
<1>4. s_init_lock = 0 => ActiveInv'
  BY DEF LifeInv, LifeTypeOK, ActiveInv, Exit, Threads
<1>5. s_init_lock = 2 => ReleasedInv'
  <2>1. \A u \in Threads : ~Deleting(u) /\ ~Deleting(u)'
    BY DEF LifeInv, LifeTypeOK, Exit, Threads, Deleting
  <2> QED BY <2>1 DEF LifeInv, LifeTypeOK, ReleasedInv, Exit
<1> QED BY <1>1, <1>2, <1>3, <1>4, <1>5 DEF LifeInv, Exit

(* ~S_TLSObject: while Caliper is active only the main thread finalizes.    *)
LEMMA TlsStep ==
    ASSUME LifecycleAssumption, LifeInv, NEW t \in Threads, TlsDestructor(t)
    PROVE  LifeInv'
<1> USE DEF LifecycleAssumption
<1>1. CASE StillActive(t_ptr[t]) /\ <<t, t_ptr[t]>> \in initial
  <2>1. s_init_lock = 0 /\ ActiveInv BY <1>1 DEF StillActive, LifeInv
  <2>2. t = Main /\ t_ptr[t] = 1 /\ doing[t] = "exit"
    BY <1>1, <2>1 DEF ActiveInv, TlsDestructor
  <2>3. \A u \in Threads \ {t} : doing[u] # "use"
    BY <2>2 DEF LifeInv, ExitInv, Threads
  <2>4. phase' \in {"run", "released", "exit"} /\ destroyed' \subseteq {"tls", "g"}
    BY DEF LifeInv, LifeTypeOK, TlsDestructor
  <2>5. FinalizeAndDelete(t, g_ptr) /\ doing' = [doing EXCEPT ![t] = "tls_delete"]
    BY <1>1 DEF TlsDestructor
  <2> QED BY <2>1, <2>2, <2>3, <2>4, <2>5, FinalizeStep, Zenon
<1>2. CASE ~(StillActive(t_ptr[t]) /\ <<t, t_ptr[t]>> \in initial)
  <2>0. /\ doing' = [doing EXCEPT ![t] = AfterTls(t)] /\ t_ptr' = [t_ptr EXCEPT ![t] = 0]
        /\ fault' = (fault \/ (StillActive(t_ptr[t]) /\ ~Valid(t, g_ptr, t_ptr[t])))
        /\ destroyed' = IF t = Main THEN destroyed \cup {"tls"} ELSE destroyed
        /\ doing[t] = IF t = Main THEN "exit" ELSE "out"
        /\ UNCHANGED <<s_init_lock, s_init_mutex, g_ptr, cali, globals, threads,
                       initial, made, finalized, phase>>
    BY <1>2 DEF TlsDestructor
  <2>1. ~fault'
    BY <2>0, Zenon DEF LifeInv, LifeTypeOK, ActiveInv, StillActive, Valid
  <2>2. LifeTypeOK' BY <2>0, <2>1 DEF LifeInv, LifeTypeOK, AfterTls
  <2>3. ExitInv' BY <2>0 DEF LifeInv, LifeTypeOK, ExitInv, AfterTls, Threads
  <2>4. s_init_lock = 1 => UninitializedInv'
    BY <2>0 DEF LifeInv, LifeTypeOK, UninitializedInv, AfterTls, Threads
  <2>5. s_init_lock = 0 => ActiveInv'
    <3>1. s_init_lock = 0 => t # Main
      BY <1>2 DEF LifeInv, ActiveInv, StillActive
    <3> QED BY <2>0, <3>1 DEF LifeInv, LifeTypeOK, ActiveInv, AfterTls, Threads
  <2>6. s_init_lock = 2 => ReleasedInv'
    <3>1. \A u \in Threads : Deleting(u)' <=> Deleting(u)
      BY <2>0 DEF LifeInv, LifeTypeOK, Deleting, AfterTls
    <3>2. \A u \in Threads : doing'[u] = doing[u] \/ doing'[u] \in {"exit", "exited"}
      BY <2>0 DEF LifeInv, LifeTypeOK, AfterTls
    <3> QED BY <2>0, <3>1, <3>2 DEF LifeInv, ReleasedInv
  <2> QED BY <2>0, <2>1, <2>2, <2>3, <2>4, <2>5, <2>6 DEF LifeInv
<1> QED BY <1>1, <1>2

(* ~S_GObject                                                               *)
LEMMA GStep ==
    ASSUME LifecycleAssumption, LifeInv, GDestructor
    PROVE  LifeInv'
<1> USE DEF LifecycleAssumption
<1>0. Main \in Threads /\ doing[Main] = "exit" BY DEF Threads, GDestructor
<1>1. CASE StillActive(g_ptr)
  <2>1. s_init_lock = 0 /\ t_ptr[Main] = 1 BY <1>1 DEF StillActive, LifeInv, ActiveInv
  <2>2. \A u \in Threads \ {Main} : doing[u] # "use"
    BY <1>0 DEF LifeInv, ExitInv, Threads
  <2>3. phase' \in {"run", "released", "exit"} /\ destroyed' \subseteq {"tls", "g"}
    BY DEF LifeInv, LifeTypeOK, GDestructor
  <2>4. FinalizeAndDelete(Main, g_ptr) /\ doing' = [doing EXCEPT ![Main] = "g_delete"]
    BY <1>1 DEF GDestructor
  <2> QED BY <1>0, <2>1, <2>2, <2>3, <2>4, FinalizeStep, Zenon
<1>2. CASE ~StillActive(g_ptr)
  <2>0. \A u \in Threads : ~Deleting(u) /\ Deleting(u)' = Deleting(u)
    BY <1>0, <1>2 DEF LifeInv, ExitInv, Threads, Deleting, GDestructor
  <2>1. s_init_lock # 0 BY <1>2 DEF LifeInv, ActiveInv, StillActive
  <2>2. g_ptr = 0 /\ g_ptr' = 0
    BY <1>0, <1>2, <2>0, <2>1 DEF LifeInv, LifeTypeOK, UninitializedInv, ReleasedInv, GDestructor
  <2>3. LifeTypeOK' BY <1>2, <2>2 DEF LifeInv, LifeTypeOK, GDestructor
  <2>4. ExitInv' BY <1>2 DEF LifeInv, ExitInv, GDestructor
  <2>5. s_init_lock = 1 => UninitializedInv'
    BY <1>0, <1>2, <2>2 DEF LifeInv, UninitializedInv, GDestructor
  <2>6. s_init_lock = 2 => ReleasedInv'
    BY <1>2, <2>0, <2>2 DEF LifeInv, ReleasedInv, GDestructor
  <2> QED BY <1>2, <2>1, <2>3, <2>4, <2>5, <2>6 DEF LifeInv, GDestructor
<1> QED BY <1>1, <1>2

(* Every step preserves the invariant.                                      *)
LEMMA NextLife ==
    ASSUME LifecycleAssumption, MainInitializes, LifeInv, [LifeNext]_life_vars
    PROVE  LifeInv'
<1>1. CASE UNCHANGED life_vars
  BY <1>1 DEF life_vars, LifeInv, LifeTypeOK, ExitInv, UninitializedInv, ActiveInv, ReleasedInv, Deleting
<1>2. ASSUME NEW t \in Threads, Empty(t) PROVE LifeInv'
  BY <1>1, <1>2 DEF Empty
<1>3. CASE LifeNext
  BY <1>1, <1>2, <1>3, InitializationStep, UseStep, ReleaseStep, DeletedStep, TlsStep,
     ExitStep, GStep DEF LifeNext
<1> QED BY <1>1, <1>3

(* In whichever order any number of threads call, release and exit and the  *)
(* static objects are destroyed, nothing null or deleted is used and        *)
(* finalize() runs exactly once for the GlobalData, if the main thread      *)
(* makes the first call.                                                    *)
THEOREM ExitIsClean ==
    ASSUME MainInitializes
    PROVE  LifeSpec => []ExitClean
<1>1. LifeInit => LifeInv BY InitLife, LifecycleAssumption
<1>2. LifeInv /\ [LifeNext]_life_vars => LifeInv' BY NextLife, LifecycleAssumption
<1>3. LifeInv => ExitClean BY LifeInvImplies, LifecycleAssumption
<1> QED BY <1>1, <1>2, <1>3, PTL DEF LifeSpec

(* A released Caliper is never initialized again: instance() goes past the  *)
(* lock only if s_init_lock is 1, and no thread is left on its way there.   *)
THEOREM ReleaseIsFinal ==
    ASSUME MainInitializes
    PROVE  LifeSpec => StaysReleased
<1>1. LifeInit => LifeInv BY InitLife, LifecycleAssumption
<1>2. LifeInv /\ [LifeNext]_life_vars => LifeInv' BY NextLife, LifecycleAssumption
<1>3. LifeInv /\ [LifeNext]_life_vars => [s_init_lock = 2 => s_init_lock' = 2]_life_vars
  <2> SUFFICES ASSUME LifeInv, LifeNext, s_init_lock = 2 PROVE s_init_lock' = 2
    OBVIOUS
  <2>1. \A t \in Threads : doing[t] # "init" BY DEF LifeInv, ReleasedInv
  <2> QED BY <2>1, Zenon DEF LifeNext, Wait, LockInit, Create, Initialized, instance, Empty, Leave, release,
               Deleted, TlsDestructor, Exit, GDestructor, FinalizeAndDelete, life_vars
<1> QED BY <1>1, <1>2, <1>3, PTL DEF LifeSpec, StaysReleased

-----------------------------------------------------------------------------
(* Asynchronous snapshots                                                   *)

\* The initial state.
LEMMA SmInitInv == SmAssumption /\ SmInit => SmInv
<1> SUFFICES ASSUME SmAssumption, SmInit PROVE SmInv
  OBVIOUS
<1>1. SmType
  BY DEF SmInit, SmType, SmThreads, NoMonitor
<1>2. SmMain \in SmThreads /\ \A t \in SmThreads : handler[t] = "no"
  BY DEF SmInit, SmThreads
<1>3. sm_chan = "none" /\ blocked /\ timers = {} /\ thr[SmMain] = "run" /\ ~sm_late
  BY <1>2 DEF SmInit
<1>4. HandlersInv
  BY <1>2, <1>3 DEF HandlersInv
<1> QED BY <1>1, <1>3, <1>4 DEF SmInv, MonitorInv

\* Steps of the channel on the main thread.  When pre_finish begins, the joined
\* workers have no timer and no handler, and the main thread's own are removed.
LEMMA ChannelStep ==
    ASSUME SmAssumption, SmInv, sm_register \/ sm_pre_finish \/ sm_finish
    PROVE  SmInv'
<1>1. CASE sm_register
  <2>1. SmType'
    BY <1>1, Zenon DEF SmInv, SmType, sm_register, setup_settimer, SmThreads
  <2>2. HandlersInv'
    BY <1>1, Zenon DEF SmInv, SmType, HandlersInv, sm_register, setup_settimer, SmThreads
  <2> QED BY <1>1, <2>1, <2>2 DEF SmInv, MonitorInv, sm_register
<1>2. CASE sm_pre_finish
  <2>1. SmType' BY <1>2, Zenon DEF SmInv, SmType, sm_pre_finish, clear_timer, SmThreads
  <2>2. \A t \in SmThreads : handler[t] = "no"
    BY <1>2 DEF SmInv, SmType, HandlersInv, SmAssumption, sm_pre_finish, SmThreads
  <2>3. blocked' /\ timers' = {}
    BY <1>2 DEF SmInv, SmType, HandlersInv, SmAssumption, sm_pre_finish, clear_timer, SmThreads
  <2>4. HandlersInv' BY <1>2, <2>2, <2>3 DEF SmInv, HandlersInv, sm_pre_finish, SmThreads
  <2> QED BY <1>2, <2>1, <2>4 DEF SmInv, MonitorInv, sm_pre_finish
<1>3. CASE sm_finish
  <2>1. SmType' BY <1>3 DEF SmInv, SmType, sm_finish, SmThreads
  <2>2. HandlersInv' BY <1>3 DEF SmInv, HandlersInv, sm_finish, SmThreads
  <2> QED BY <1>3, <2>1, <2>2 DEF SmInv, MonitorInv, sm_finish
<1> QED BY <1>1, <1>2, <1>3

\* Steps of the monitor thread, which is joined before the channel is finished.
LEMMA MonitorStep ==
    ASSUME SmInv, monitor_wake \/ monitor_snapshot \/ monitor_cancelled
    PROVE  SmInv'
<1>1. SmType'
  BY DEF SmInv, SmType, SmThreads, monitor_wake, monitor_snapshot, monitor_cancelled
<1>2. HandlersInv'
  BY DEF SmInv, HandlersInv, SmThreads, monitor_wake, monitor_snapshot, monitor_cancelled
<1>3. sm_chan # "finished" /\ sm_chan' = sm_chan
  BY DEF SmInv, MonitorInv, monitor_wake, monitor_snapshot, monitor_cancelled
<1>4. ~sm_late'
  BY <1>3, Zenon DEF SmInv, monitor_wake, monitor_snapshot, monitor_cancelled
<1> QED BY <1>1, <1>2, <1>3, <1>4 DEF SmInv, MonitorInv

\* SmThreads start, end, and call Caliper.
LEMMA ThreadStep ==
    ASSUME SmAssumption, SmInv, NEW t \in SmThreads,
           StartThread(t) \/ thread_wrapper(t) \/ EndThread(t) \/ EnterCaliper(t) \/ LeaveCaliper(t)
    PROVE  SmInv'
<1>1. /\ sm' = sm /\ sm_chan' = sm_chan /\ blocked' = blocked /\ handler' = handler /\ mon' = mon
      /\ t # SmMain \/ thr'[t] = thr[t]
  <2>1. /\ sm' = sm /\ sm_chan' = sm_chan /\ blocked' = blocked /\ handler' = handler /\ mon' = mon
    BY DEF StartThread, thread_wrapper, EndThread, EnterCaliper, LeaveCaliper
  <2>2. CASE t = SmMain
    BY <2>2, Zenon DEF SmInv, SmType, HandlersInv, SmAssumption, StartThread, thread_wrapper, EndThread,
                EnterCaliper, LeaveCaliper
  <2> QED BY <2>1, <2>2
<1>2. SmType' /\ HandlersInv'
  <2>1. CASE StartThread(t)
    <3>1. SmType' BY <1>1, <2>1, Zenon DEF SmInv, SmType, SmThreads, StartThread
    <3>2. thr[t] = "none" /\ thr' = [thr EXCEPT ![t] = "new"] /\ timers' = timers
      BY <2>1, Zenon DEF StartThread
    <3>3. t \notin timers /\ handler[t] = "no"
      BY <3>2 DEF SmInv, SmType, HandlersInv
    <3>4. HandlersInv' BY <1>1, <3>2, <3>3 DEF SmInv, SmType, HandlersInv, SmThreads
    <3> QED BY <3>1, <3>4
  <2>2. CASE thread_wrapper(t)
    <3>1. \/ timers' = timers
          \/ sm.svc = "sampler" /\ sm_chan = "live" /\ timers' = timers \cup {t}
      <4>1. CASE sm.svc = "sampler" /\ sm_chan = "live"
        BY <2>2, <4>1, Zenon DEF thread_wrapper, setup_settimer
      <4>2. CASE ~(sm.svc = "sampler" /\ sm_chan = "live")
        <5>1. UNCHANGED <<timers, sm_faults>>
          BY <2>2, <4>2, Zenon DEF thread_wrapper
        <5> QED BY <5>1
      <4> QED BY <4>1, <4>2
    <3>2. thr' = [thr EXCEPT ![t] = "run"]
      BY <2>2, Zenon DEF thread_wrapper
    <3>3. SmType' BY <1>1, <3>1, <3>2, Zenon DEF SmInv, SmType, SmThreads
    <3>4. HandlersInv' BY <1>1, <3>1, <3>2, Zenon DEF SmInv, SmType, HandlersInv, SmThreads
    <3> QED BY <3>3, <3>4
  <2>3. CASE EndThread(t)
    <3>1. \/ timers' = timers \ {t}
          \/ timers' = timers /\ sm_chan \notin {"live", "finishing"}
      <4>1. CASE sm_chan \in {"live", "finishing"}
        BY <2>3, <4>1, Zenon DEF EndThread, clear_timer
      <4>2. CASE sm_chan \notin {"live", "finishing"}
        BY <2>3, <4>2, Zenon DEF EndThread
      <4> QED BY <4>1, <4>2, Zenon
    <3>2. handler[t] = "no" /\ thr' = [thr EXCEPT ![t] = "done"]
      BY <2>3, Zenon DEF EndThread
    <3>3. SmType' BY <1>1, <3>1, <3>2 DEF SmInv, SmType, SmThreads
    <3>4. HandlersInv' BY <1>1, <3>1, <3>2 DEF SmInv, SmType, HandlersInv, SmThreads
    <3> QED BY <3>3, <3>4
  <2>4. CASE EnterCaliper(t) \/ LeaveCaliper(t)
    <3>1. thr' = thr /\ timers' = timers
      BY <2>4 DEF EnterCaliper, LeaveCaliper
    <3> QED BY <1>1, <3>1, Zenon DEF SmInv, SmType, HandlersInv, SmThreads
  <2> QED BY <2>1, <2>2, <2>3, <2>4, Zenon
<1>3. sm_chan' = sm_chan /\ mon' = mon /\ sm_late' = sm_late
  BY Zenon DEF StartThread, thread_wrapper, EndThread, EnterCaliper, LeaveCaliper
<1>4. MonitorInv' /\ ~sm_late'
  BY <1>3 DEF SmInv, MonitorInv
<1> QED BY <1>2, <1>4 DEF SmInv

\* The signal handler.
LEMMA SignalStep ==
    ASSUME SmInv, NEW t \in SmThreads, on_prof(t) \/ on_prof_push(t)
    PROVE  SmInv'
<1>1. SmType' BY DEF SmInv, SmType, SmThreads, on_prof, on_prof_push
<1>2. HandlersInv' BY DEF SmInv, SmType, HandlersInv, SmThreads, on_prof, on_prof_push
<1>3. sm_chan = "live" /\ sm_chan' = sm_chan /\ mon' = mon
  BY DEF SmInv, SmType, HandlersInv, on_prof, on_prof_push
<1>4. ~sm_late' BY <1>3, Zenon DEF SmInv, on_prof, on_prof_push
<1> QED BY <1>1, <1>2, <1>3, <1>4 DEF SmInv, MonitorInv

\* For any number of threads, samples, ticks and failing calls: no sample and no
\* monitor event reaches a finished channel, and no timer outlives its owner, if
\* sampled threads are joined before the channel is deleted (on_prof, finish_cb).
THEOREM NoLateSample ==
    SmSpec => []NoSnapshotAfterFinish
<1>1. SmInit => SmInv BY SmInitInv, SmAssumption
<1>2. SmInv /\ [SmNext]_smvars => SmInv'
  <2> SUFFICES ASSUME SmInv, [SmNext]_smvars PROVE SmInv' OBVIOUS
  <2>1. CASE UNCHANGED smvars
    BY <2>1, Zenon DEF smvars, SmInv, SmType, HandlersInv, MonitorInv, SmThreads
  <2>2. sm.workers \subseteq SmThreads BY DEF SmThreads
  <2>3. CASE SmNext
    BY <2>2, <2>3, ChannelStep, MonitorStep, ThreadStep, SignalStep, SmAssumption, Zenon DEF SmNext
  <2> QED BY <2>1, <2>3
<1>3. SmInv => NoSnapshotAfterFinish
  BY DEF SmInv, SmType, HandlersInv, NoSnapshotAfterFinish, TimersOwned
<1> QED BY <1>1, <1>2, <1>3, PTL DEF SmSpec
=============================================================================
