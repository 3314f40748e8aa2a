------------------------------ MODULE Samplers ------------------------------
(***************************************************************************)
(* The services that take snapshots asynchronously: sampler, with a POSIX  *)
(* timer for each thread whose signal interrupts that thread, and          *)
(* thread_monitor, with a thread of its own; and the pthread service,      *)
(* whose wrapper gives new threads their id before they run.               *)
(* The channel goes through post_init, pre_finish, finish and deletion     *)
(* while signals and the monitor thread run.                               *)
(*                                                                         *)
(* A thread inside Caliper holds its siglock; a signal that arrives then   *)
(* drops its sample.                                                       *)
(***************************************************************************)
EXTENDS Integers

CONSTANTS SmConfigs,   \* [svc, workers: set of threads, joined, faults, ticks, handlers]
          SmMain

\* Programs that join the threads they sample before they delete the channel.
ASSUME SmAssumption ==
    \A c \in SmConfigs : SmMain \notin c.workers /\ (c.svc = "sampler" => c.joined)

VARIABLES sm,        \* the configuration
          sm_chan,   \* "none" -> "live" -> "finishing" -> "finished"
          thr,       \* thread -> "none", "new", "run", "done"
          inside,    \* threads whose siglock is taken
          timers,    \* threads with an armed timer
          blocked,   \* SIGPROF is ignored
          handler,   \* thread -> "no", "entered" (instance obtained), "push"
          counts,    \* [samples, processed]
          mon,       \* thread_monitor: [at, cancel]
          ids,       \* pthread: threads whose pthread.id is set
          sm_faults, \* failed timer or thread creations and interrupted sleeps
          sm_late    \* history: a snapshot was pushed to a channel that is gone

smvars == <<sm, sm_chan, thr, inside, timers, blocked, handler, counts, mon, ids, sm_faults, sm_late>>
SmThreads == {SmMain} \cup sm.workers
CanFail == sm_faults < sm.faults
NoMonitor == [at |-> "none", cancel |-> FALSE]

SmInit ==
    /\ sm \in SmConfigs
    /\ sm_chan = "none" /\ timers = {} /\ blocked = TRUE /\ inside = {}
    /\ thr = [t \in SmThreads |-> IF t = SmMain THEN "run" ELSE "none"]
    /\ handler = [t \in SmThreads |-> "no"]
    /\ counts = [samples |-> 0, processed |-> 0]
    /\ mon = NoMonitor /\ ids = {} /\ sm_faults = 0 /\ sm_late = FALSE

\* setup_settimer on the calling thread; a failure leaves the thread unsampled
setup_settimer(t) ==
    \/ timers' = timers \cup {t} /\ UNCHANGED sm_faults
    \/ CanFail /\ sm_faults' = sm_faults + 1 /\ UNCHANGED timers

\* Registration of the service and post_init of the channel, on the main thread
sm_register ==
    /\ sm_chan = "none" /\ sm_chan' = "live"
    /\ \/ /\ sm.svc = "sampler"
          /\ blocked' = FALSE /\ setup_settimer(SmMain)
          /\ UNCHANGED <<mon, ids>>
       \/ /\ sm.svc = "thread_monitor"
          /\ \/ mon' = [mon EXCEPT !.at = "sleep"] /\ UNCHANGED sm_faults
             \/ CanFail /\ sm_faults' = sm_faults + 1 /\ UNCHANGED mon   \* pthread_create failed
          /\ UNCHANGED <<blocked, timers, ids>>
       \/ /\ sm.svc = "pthread"
          /\ ids' = {SmMain}
          /\ UNCHANGED <<blocked, timers, mon, sm_faults>>
    /\ UNCHANGED <<sm, thr, inside, handler, counts, sm_late>>

\* cali_pthread_create_wrapper, then thread_wrapper on the new thread: the Caliper
\* instance creates the thread's data (create_thread_evt) and the ids are set
\* before the user's function runs.
StartThread(t) ==
    /\ thr[t] = "none" /\ thr' = [thr EXCEPT ![t] = "new"]
    /\ UNCHANGED <<sm, sm_chan, inside, timers, blocked, handler, counts, mon, ids, sm_faults, sm_late>>
thread_wrapper(t) ==
    /\ thr[t] = "new" /\ thr' = [thr EXCEPT ![t] = "run"]
    /\ IF sm.svc = "sampler" /\ sm_chan = "live" THEN setup_settimer(t) ELSE UNCHANGED <<timers, sm_faults>>
    /\ ids' = IF sm.svc = "pthread" /\ sm_chan # "none" THEN ids \cup {t} ELSE ids
    /\ UNCHANGED <<sm, sm_chan, inside, blocked, handler, counts, mon, sm_late>>

\* release_thread_evt reaches the channel while it exists
clear_timer(t) == timers' = timers \ {t}
EndThread(t) ==
    /\ t \in sm.workers /\ thr[t] = "run" /\ handler[t] = "no" /\ t \notin inside
    /\ thr' = [thr EXCEPT ![t] = "done"]
    /\ IF sm_chan \in {"live", "finishing"} THEN clear_timer(t) ELSE UNCHANGED timers
    /\ UNCHANGED <<sm, sm_chan, inside, blocked, handler, counts, mon, ids, sm_faults, sm_late>>

\* A thread enters and leaves an annotation call.
EnterCaliper(t) ==
    /\ sm.svc = "sampler" /\ thr[t] = "run" /\ handler[t] = "no" /\ t \notin inside
    /\ inside' = inside \cup {t}
    /\ UNCHANGED <<sm, sm_chan, thr, timers, blocked, handler, counts, mon, ids, sm_faults, sm_late>>
LeaveCaliper(t) ==
    /\ t \in inside /\ handler[t] = "no" /\ ~(t = SmMain /\ sm_chan = "finishing")
    /\ inside' = inside \ {t}
    /\ UNCHANGED <<sm, sm_chan, thr, timers, blocked, handler, counts, mon, ids, sm_faults, sm_late>>

\* on_prof
on_prof(t) ==
    /\ t \in timers /\ ~blocked /\ handler[t] = "no" /\ thr[t] = "run" /\ counts.samples < sm.handlers
    /\ counts' = [counts EXCEPT !.samples = @ + 1]
    /\ handler' = IF t \in inside THEN handler ELSE [handler EXCEPT ![t] = "entered"]
    /\ UNCHANGED <<sm, sm_chan, thr, inside, timers, blocked, mon, ids, sm_faults, sm_late>>
on_prof_push(t) ==
    /\ handler[t] = "entered"
    /\ handler' = [handler EXCEPT ![t] = "no"]
    /\ sm_late' = (sm_late \/ sm_chan = "finished")
    /\ counts' = [counts EXCEPT !.processed = @ + 1]
    /\ UNCHANGED <<sm, sm_chan, thr, inside, timers, blocked, mon, ids, sm_faults>>

\* The loop of ThreadMonitor::monitor.  nanosleep is the cancellation point; an
\* interrupted sleep returns -1, which ends the loop.
monitor_wake ==
    /\ mon.at = "sleep" /\ ~mon.cancel
    /\ \/ counts.samples < sm.ticks /\ mon' = [mon EXCEPT !.at = "snapshot"] /\ UNCHANGED sm_faults
       \/ CanFail /\ sm_faults' = sm_faults + 1 /\ mon' = [mon EXCEPT !.at = "ended"]
    /\ UNCHANGED <<sm, sm_chan, thr, inside, timers, blocked, handler, counts, ids, sm_late>>
monitor_snapshot ==
    /\ mon.at = "snapshot"
    /\ sm_late' = (sm_late \/ sm_chan = "finished")
    /\ counts' = [samples |-> counts.samples + 1, processed |-> counts.processed + 1]
    /\ mon' = [mon EXCEPT !.at = "sleep"]
    /\ UNCHANGED <<sm, sm_chan, thr, inside, timers, blocked, handler, ids, sm_faults>>
monitor_cancelled ==
    /\ mon.at = "sleep" /\ mon.cancel
    /\ mon' = [mon EXCEPT !.at = "ended"]
    /\ UNCHANGED <<sm, sm_chan, thr, inside, timers, blocked, handler, counts, ids, sm_faults, sm_late>>

\* The main thread deletes the channel, its own workers being joined if the
\* configuration says so: pre_finish_evt, then finish_evt.
sm_pre_finish ==
    /\ sm_chan = "live" /\ handler[SmMain] = "no"
    /\ sm.joined => \A t \in sm.workers : thr[t] \in {"none", "done"}
    /\ sm_chan' = "finishing"
    /\ inside' = inside \cup {SmMain}                        \* delete_channel's siglock
    /\ IF sm.svc = "sampler" THEN clear_timer(SmMain) /\ blocked' = TRUE ELSE UNCHANGED <<timers, blocked>>
    /\ mon' = IF sm.svc = "thread_monitor" THEN [mon EXCEPT !.cancel = TRUE] ELSE mon
    /\ UNCHANGED <<sm, thr, handler, counts, ids, sm_faults, sm_late>>
\* finish_cb: ThreadMonitor joins its thread first
sm_finish_nojoin ==
    /\ sm_chan = "finishing" /\ sm_chan' = "finished"
    /\ inside' = inside \ {SmMain}
    /\ UNCHANGED <<sm, thr, timers, blocked, handler, counts, mon, ids, sm_faults, sm_late>>
sm_finish ==
    /\ sm_chan = "finishing" /\ sm_chan' = "finished"
    /\ mon.at \in {"none", "ended"}
    /\ inside' = inside \ {SmMain}
    /\ UNCHANGED <<sm, thr, timers, blocked, handler, counts, mon, ids, sm_faults, sm_late>>

SmNext ==
    \/ sm_register \/ sm_pre_finish \/ sm_finish
    \/ monitor_wake \/ monitor_snapshot \/ monitor_cancelled
    \/ \E t \in sm.workers : StartThread(t) \/ thread_wrapper(t) \/ EndThread(t)
    \/ \E t \in SmThreads : EnterCaliper(t) \/ LeaveCaliper(t) \/ on_prof(t) \/ on_prof_push(t)

SmSpec == SmInit /\ [][SmNext]_smvars

-----------------------------------------------------------------------------
\* A timer belongs to a running thread, and a finished channel leaves no timer on
\* the main thread and, if its threads were joined, on none.
TimersOwned ==
    /\ \A t \in timers : thr[t] = "run" \/ sm_chan = "finished"
    /\ sm_chan \in {"finishing", "finished"} => SmMain \notin timers
    /\ sm_chan = "finished" /\ sm.joined => timers = {} \/ \E t \in sm.workers : thr[t] # "done"

\* No sample or monitor event is pushed to a channel that is finished: the
\* monitor thread is joined, the main thread's siglock keeps its own handler out
\* of delete_channel, and a worker that was joined takes no more samples.  No
\* timer is left behind.
NoSnapshotAfterFinish == ~sm_late /\ TimersOwned

-----------------------------------------------------------------------------
\* Once the channel is being finished, no handler runs and none can start, and
\* when it is finished the monitor thread is gone.
SmType ==
    /\ sm \in SmConfigs
    /\ thr \in [SmThreads -> {"none", "new", "run", "done"}]
    /\ handler \in [SmThreads -> {"no", "entered"}]
    /\ mon \in [at : {"none", "sleep", "snapshot", "ended"}, cancel : BOOLEAN]
    /\ sm_chan \in {"none", "live", "finishing", "finished"}
    /\ blocked \in BOOLEAN /\ timers \subseteq SmThreads
HandlersInv ==
    /\ sm_chan # "live" => blocked /\ timers = {}
    /\ sm.svc # "sampler" => blocked /\ timers = {}
    /\ \A t \in SmThreads : handler[t] # "no" => sm_chan = "live" /\ thr[t] = "run" /\ ~blocked
    /\ \A t \in timers : thr[t] = "run"
    /\ thr[SmMain] = "run"
MonitorInv == sm_chan = "finished" => mon.at \in {"none", "ended"}
SmInv == SmType /\ HandlersInv /\ MonitorInv /\ ~sm_late

=============================================================================
