----------------------------- MODULE Lifecycle -----------------------------
(***************************************************************************)
(* The life of the Caliper singleton: Caliper::instance, sigsafe_instance   *)
(* and release, and the destructors of the static object gObj and of the    *)
(* thread-local objects tObj (src/src/caliper/Caliper.cpp).  gObj points to *)
(* the GlobalData, which owns the ThreadData of all threads; tObj points to *)
(* the ThreadData of its thread.                                            *)
(*                                                                          *)
(* GlobalData objects are numbered in the order of their creation and 0 is  *)
(* the null pointer; <<t, n>> is the ThreadData of thread t that belongs to *)
(* GlobalData n.                                                            *)
(***************************************************************************)
EXTENDS Naturals

CONSTANTS
    Main,            \* the thread that runs main()
    Workers,         \* the other threads of the program
    None,
    MainInitializes, \* the program makes its first Caliper call in main(), before it starts threads
    MaxInit          \* bound of the model on the GlobalData objects

VARIABLES
    s_init_lock,  \* 1: not initialized, 0: active, 2: released
    s_init_mutex,
    g_ptr, t_ptr, \* gObj.g_ptr, and tObj.t_ptr of each thread
    doing,           \* what each thread is doing
    cali,         \* the GlobalData of the Caliper object a thread uses
    globals,      \* GlobalData objects that exist
    threads,      \* ThreadData objects that exist
    initial,      \* ThreadData objects with is_initial_thread
    made,         \* history: number of GlobalData objects created
    finalized,    \* history: number of finalize() calls for each of them
    fault,        \* history: a null pointer or a deleted object was dereferenced
    phase,        \* the program runs, release() has been called, or main() returned
    destroyed     \* which of its objects the main thread has destroyed

life_vars == <<s_init_lock, s_init_mutex, g_ptr, t_ptr, doing, cali, globals, threads,
          initial, made, finalized, fault, phase, destroyed>>

Threads == {Main} \cup Workers

Ids == 1..MaxInit

ASSUME LifecycleAssumption == MaxInit \in Nat /\ Main \notin Workers

LifeInit ==
    /\ s_init_lock = 1 /\ s_init_mutex = None
    /\ g_ptr = 0 /\ t_ptr = [t \in Threads |-> 0]
    /\ doing = [t \in Threads |-> "out"]
    /\ cali = [t \in Threads |-> 0]
    /\ globals = {} /\ threads = {} /\ initial = {}
    /\ made = 0 /\ finalized = [n \in Ids |-> 0]
    /\ fault = FALSE
    /\ phase = "run"
    /\ destroyed = {}

Valid(t, g, n) == g \in globals /\ <<t, n>> \in threads

-----------------------------------------------------------------------------
(* instance(), when Caliper is not initialized: wait for the mutex.         *)
Wait(t) ==
    /\ doing[t] = "out" /\ s_init_lock = 1 /\ made < MaxInit
    /\ t = Main \/ ~MainInitializes
    /\ doing' = [doing EXCEPT ![t] = "wait"]
    /\ UNCHANGED <<s_init_lock, s_init_mutex, g_ptr, t_ptr, cali, globals, threads,
                   initial, made, finalized, fault, phase, destroyed>>

(* The thread that gets the mutex clears both pointers.                     *)
LockInit(t) ==
    /\ doing[t] = "wait" /\ s_init_mutex = None /\ made < MaxInit
    /\ s_init_mutex' = t
    /\ g_ptr' = 0
    /\ t_ptr' = [t_ptr EXCEPT ![t] = 0]
    /\ doing' = [doing EXCEPT ![t] = "locked"]
    /\ UNCHANGED <<s_init_lock, cali, globals, threads, initial, made, finalized,
                   fault, phase, destroyed>>

(* It creates GlobalData and ThreadData, and publishes them.                *)
Create(t) ==
    /\ doing[t] = "locked" /\ g_ptr = 0
    /\ made' = made + 1
    /\ globals' = globals \cup {made'}
    /\ threads' = threads \cup {<<t, made'>>}
    /\ initial' = initial \cup {<<t, made'>>}
    /\ g_ptr' = made'
    /\ t_ptr' = [t_ptr EXCEPT ![t] = made']
    /\ cali' = [cali EXCEPT ![t] = made']
    /\ doing' = [doing EXCEPT ![t] = "init"]
    /\ UNCHANGED <<s_init_lock, s_init_mutex, finalized, fault, phase, destroyed>>

(* GlobalData::init and make_default_channel are done.                      *)
Initialized(t) ==
    /\ doing[t] = "init"
    /\ s_init_lock' = 0
    /\ s_init_mutex' = None
    /\ doing' = [doing EXCEPT ![t] = "use"]
    /\ UNCHANGED <<g_ptr, t_ptr, cali, globals, threads, initial, made, finalized,
                   fault, phase, destroyed>>

(* instance(), when Caliper is active.  A thread that has no ThreadData     *)
(* gets one.                                                                *)
instance(t) ==
    /\ doing[t] = "out" /\ s_init_lock = 0
    /\ IF t_ptr[t] = 0
       THEN /\ t_ptr' = [t_ptr EXCEPT ![t] = g_ptr]
            /\ threads' = threads \cup {<<t, g_ptr>>}
            /\ fault' = (fault \/ g_ptr \notin globals)
       ELSE /\ fault' = (fault \/ ~Valid(t, g_ptr, t_ptr[t]))
            /\ UNCHANGED <<t_ptr, threads>>
    /\ cali' = [cali EXCEPT ![t] = g_ptr]
    /\ doing' = [doing EXCEPT ![t] = "use"]
    /\ UNCHANGED <<s_init_lock, s_init_mutex, g_ptr, globals, initial, made,
                   finalized, phase, destroyed>>

(* instance(), after release(): an empty object, with which nothing is done. *)
Empty(t) ==
    /\ doing[t] = "out" /\ s_init_lock = 2
    /\ UNCHANGED life_vars

(* The API call ends.                                                       *)
Leave(t) ==
    /\ doing[t] = "use"
    /\ fault' = (fault \/ ~Valid(t, cali[t], t_ptr[t]))
    /\ doing' = [doing EXCEPT ![t] = "out"]
    /\ UNCHANGED <<s_init_lock, s_init_mutex, g_ptr, t_ptr, cali, globals, threads,
                   initial, made, finalized, phase, destroyed>>

(* What sigsafe_instance() hands to a signal handler that interrupts thread *)
(* t is taken for valid: it has both pointers, and the thread is not inside *)
(* an API call, whose siglock would be held.                                *)
sigsafe_instance(t) == g_ptr # 0 /\ t_ptr[t] # 0 /\ doing[t] # "use"

-----------------------------------------------------------------------------
(* finalize() for the Caliper object with GlobalData g and the ThreadData   *)
(* of thread t, and the first half of ~GlobalData: s_init_lock is set and   *)
(* all ThreadData objects are deleted.                                      *)
FinalizeAndDelete(t, g) ==
    /\ fault' = (fault \/ ~Valid(t, g, t_ptr[t]))
    /\ finalized' = [n \in Ids |-> finalized[n] + (IF n = g THEN 1 ELSE 0)]
    /\ s_init_lock' = 2
    /\ threads' = {d \in threads : d[2] # g}
    /\ UNCHANGED <<s_init_mutex, g_ptr, t_ptr, cali, globals, initial, made>>

(* release(), which the program calls while no other thread is in an API    *)
(* call.                                                                    *)
release(t) ==
    /\ doing[t] = "use" /\ phase = "run"
    /\ \A u \in Threads \ {t} : doing[u] \notin {"use", "init", "locked"}
    /\ FinalizeAndDelete(t, g_ptr)
    /\ doing' = [doing EXCEPT ![t] = "delete"]
    /\ phase' = "released"
    /\ UNCHANGED destroyed

(* A thread destroys its tObj when it exits.  At the end of the program the *)
(* main thread destroys its tObj and gObj in some order.                    *)
AfterTls(t) == IF t = Main THEN "exit" ELSE "exited"

(* Where release() or the destructor that deleted the GlobalData goes on.   *)
AfterDelete(t) ==
    IF doing[t] = "delete" THEN "out" ELSE IF doing[t] = "tls_delete" THEN AfterTls(t) ELSE "exit"

(* Mutation: once everything is deleted, Caliper can be initialized again.  *)
DeletedReopens(t) ==
    /\ doing[t] \in {"delete", "tls_delete", "g_delete"}
    /\ globals' = globals \ {g_ptr}
    /\ g_ptr' = 0 /\ s_init_lock' = 1
    /\ t_ptr' = IF doing[t] = "g_delete" THEN t_ptr ELSE [t_ptr EXCEPT ![t] = 0]
    /\ doing' = [doing EXCEPT ![t] = AfterDelete(t)]
    /\ UNCHANGED <<s_init_mutex, cali, threads, initial, made,
                   finalized, fault, phase, destroyed>>

(* The second half of ~GlobalData, and what release() or the destructor     *)
(* that called it does next.                                                *)
Deleted(t) ==
    /\ doing[t] \in {"delete", "tls_delete", "g_delete"}
    /\ globals' = globals \ {g_ptr}
    /\ g_ptr' = 0
    /\ t_ptr' = IF doing[t] = "g_delete" THEN t_ptr ELSE [t_ptr EXCEPT ![t] = 0]
    /\ doing' = [doing EXCEPT ![t] = AfterDelete(t)]
    /\ UNCHANGED <<s_init_lock, s_init_mutex, cali, threads, initial, made,
                   finalized, fault, phase, destroyed>>

(* main() returns; the program has joined its other threads.                *)
Exit ==
    /\ doing[Main] = "out" /\ phase \in {"run", "released"}
    /\ \A w \in Workers : doing[w] = "exited"
    /\ doing' = [doing EXCEPT ![Main] = "exit"]
    /\ phase' = "exit"
    /\ UNCHANGED <<s_init_lock, s_init_mutex, g_ptr, t_ptr, cali, globals, threads,
                   initial, made, finalized, fault, destroyed>>

(* Mutation: the destructors do not look at s_init_lock.                    *)
PointerSet(p) == p # 0

(* The test of both destructors.                                            *)
StillActive(p) == p # 0 /\ s_init_lock = 0

(* ~S_TLSObject: the initial thread finalizes, another one runs             *)
(* release_thread().                                                        *)
TlsDestructor(t) ==
    /\ IF t = Main THEN doing[t] = "exit" /\ "tls" \notin destroyed ELSE doing[t] = "out"
    /\ IF StillActive(t_ptr[t]) /\ <<t, t_ptr[t]>> \in initial
       THEN /\ FinalizeAndDelete(t, g_ptr)
            /\ doing' = [doing EXCEPT ![t] = "tls_delete"]
       ELSE /\ fault' = (fault \/ (StillActive(t_ptr[t]) /\ ~Valid(t, g_ptr, t_ptr[t])))
            /\ t_ptr' = [t_ptr EXCEPT ![t] = 0]
            /\ doing' = [doing EXCEPT ![t] = AfterTls(t)]
            /\ UNCHANGED <<s_init_lock, s_init_mutex, g_ptr, cali, globals, threads,
                           initial, made, finalized>>
    /\ destroyed' = IF t = Main THEN destroyed \cup {"tls"} ELSE destroyed
    /\ UNCHANGED phase

(* ~S_GObject                                                               *)
GDestructor ==
    /\ doing[Main] = "exit" /\ "g" \notin destroyed
    /\ IF StillActive(g_ptr)
       THEN /\ FinalizeAndDelete(Main, g_ptr)
            /\ doing' = [doing EXCEPT ![Main] = "g_delete"]
       ELSE /\ g_ptr' = 0
            /\ UNCHANGED <<s_init_lock, s_init_mutex, t_ptr, doing, cali, globals, threads,
                           initial, made, finalized, fault>>
    /\ destroyed' = destroyed \cup {"g"}
    /\ UNCHANGED phase

Over == doing[Main] = "exit" /\ destroyed = {"tls", "g"}

LifeNext ==
    \/ \E t \in Threads :
          \/ Wait(t) \/ LockInit(t) \/ Create(t) \/ Initialized(t)
          \/ instance(t) \/ Empty(t) \/ Leave(t) \/ release(t)
          \/ Deleted(t) \/ TlsDestructor(t)
    \/ Exit \/ GDestructor
    \/ Over /\ UNCHANGED life_vars

LifeSpec == LifeInit /\ [][LifeNext]_life_vars

-----------------------------------------------------------------------------
(* The types of the variables.                                              *)
LifeTypeOK ==
    /\ s_init_lock \in 0..2 /\ s_init_mutex \in Threads \cup {None}
    /\ g_ptr \in 0..MaxInit /\ t_ptr \in [Threads -> 0..MaxInit]
    /\ doing \in [Threads -> {"out", "wait", "locked", "init", "use", "delete",
                           "tls_delete", "g_delete", "exit", "exited"}]
    /\ cali \in [Threads -> 0..MaxInit]
    /\ globals \subseteq Ids /\ threads \subseteq Threads \X Ids
    /\ initial \subseteq Threads \X Ids
    /\ made \in 0..MaxInit /\ finalized \in [Ids -> Nat]
    /\ fault \in BOOLEAN /\ phase \in {"run", "released", "exit"}
    /\ destroyed \subseteq {"tls", "g"}

(* No API call, destructor or release() dereferences a null pointer or an   *)
(* object that has been deleted, in whichever order the threads exit and    *)
(* the static objects are destroyed.                                        *)
NoFault == ~fault

(* Whoever is destroyed first triggers finalization, and only the first     *)
(* does: when the program is over, each GlobalData has been finalized       *)
(* exactly once and deleted, with all ThreadData.                           *)
FinalizedOnce ==
    /\ \A n \in Ids : finalized[n] <= 1
    /\ Over => /\ \A n \in 1..made : finalized[n] = 1
               /\ globals = {} /\ threads = {}

(* Both: nothing that is null or deleted is used, and finalization is done  *)
(* once.                                                                    *)
ExitClean == NoFault /\ FinalizedOnce

(* "Caliper cannot be re-initialized after it has been released"            *)
(* (include/caliper/Caliper.h): s_init_lock never leaves 2 again.           *)
StaysReleased == [][s_init_lock = 2 => s_init_lock' = 2]_life_vars

(* "Caliper will initialize itself in the first instance object request on  *)
(* a process" (include/caliper/Caliper.h): there is one GlobalData.         *)
OneGlobalData == made <= 1

(* The destructor of the initial thread's object "serves as finalization    *)
(* trigger on program exit" (comment in Caliper.cpp): without a call of     *)
(* release() nothing is finalized before main() has returned.               *)
FinalizedAtExit == phase = "run" => \A n \in Ids : finalized[n] = 0

(* The API is async-signal safe: a signal handler that gets a valid object  *)
(* from sigsafe_instance() can use its GlobalData and ThreadData.           *)
SigsafeLive ==
    \A t \in Threads : sigsafe_instance(t) => Valid(t, g_ptr, t_ptr[t])

-----------------------------------------------------------------------------
(* The inductive invariant behind ExitClean and StaysReleased, for programs *)
(* whose main thread makes the first call: what holds before                *)
(* initialization, while Caliper is active, and after it is released.       *)
Deleting(t) == doing[t] \in {"delete", "tls_delete", "g_delete"}

(* Main ends after the workers, and only main runs the exit destructors.    *)
ExitInv ==
    /\ doing[Main] \in {"exit", "tls_delete", "g_delete"} => \A w \in Workers : doing[w] = "exited"
    /\ doing[Main] # "exited"
    /\ \A w \in Workers : doing[w] \notin {"exit", "tls_delete", "g_delete"}

UninitializedInv ==
    /\ \A w \in Workers : doing[w] \in {"out", "exited"} /\ t_ptr[w] = 0
    /\ doing[Main] \in {"out", "wait", "locked", "init", "exit"}
    /\ \A n \in Ids : finalized[n] = 0
    /\ doing[Main] # "exit" => destroyed = {}
    /\ doing[Main] = "locked" => MaxInit > 0
    /\ IF doing[Main] = "init"
       THEN /\ made = 1 /\ g_ptr = 1 /\ t_ptr[Main] = 1 /\ cali[Main] = 1
            /\ globals = {1} /\ threads = {<<Main, 1>>} /\ initial = {<<Main, 1>>}
       ELSE /\ made = 0 /\ g_ptr = 0 /\ t_ptr[Main] = 0
            /\ globals = {} /\ threads = {} /\ initial = {}

ActiveInv ==
    /\ made = 1 /\ g_ptr = 1 /\ globals = {1} /\ initial = {<<Main, 1>>}
    /\ t_ptr[Main] = 1 /\ destroyed = {}
    /\ \A n \in Ids : finalized[n] = 0
    /\ \A d \in threads : d[2] = 1
    /\ \A t \in Threads :
          /\ doing[t] \in {"out", "use", "exit", "exited"}
          /\ t_ptr[t] # 0 => t_ptr[t] = 1 /\ <<t, 1>> \in threads
          /\ doing[t] = "use" => cali[t] = 1 /\ t_ptr[t] = 1

ReleasedInv ==
    /\ made = 1 /\ threads = {}
    /\ \A n \in Ids : finalized[n] = IF n = 1 THEN 1 ELSE 0
    /\ \A t \in Threads : doing[t] \notin {"wait", "locked", "init", "use"}
    /\ \A t, u \in Threads : Deleting(t) /\ Deleting(u) => t = u
    /\ IF \E t \in Threads : Deleting(t)
       THEN g_ptr = 1 /\ globals = {1} ELSE g_ptr = 0 /\ globals = {}

LifeInv ==
    /\ LifeTypeOK /\ ~fault /\ ExitInv
    /\ s_init_lock = 1 => UninitializedInv
    /\ s_init_lock = 0 => ActiveInv
    /\ s_init_lock = 2 => ReleasedInv
=============================================================================
