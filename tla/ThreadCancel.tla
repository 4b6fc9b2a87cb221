---------------------------- MODULE ThreadCancel ----------------------------
(***************************************************************************)
(* Thread cancellation on Android: compat/pthread-cancel.c emulates        *)
(* pthread_cancel with a signal and a thread-specific record, and          *)
(* src/posix/thread.c builds vlc_cancel, vlc_savecancel, vlc_testcancel    *)
(* and the waits on a condition variable on it.                            *)
(*                                                                         *)
(* Workers use one mutex and one condition variable in the canonical way   *)
(* the documentation of vlc_cond_wait gives: lock, mutex_cleanup_push,     *)
(* wait, vlc_cleanup_run.  The main thread signals the condition and       *)
(* cancels workers.  The signal handler of a worker may run between any    *)
(* two of its steps.                                                       *)
(***************************************************************************)
CONSTANTS Worker,
          Main,         \* the thread that signals and cancels
          None,         \* no thread
          Calls,        \* which of the calls below the workers make
          EarlyCancel   \* whether a thread may be cancelled before it started

CallNames == {"cond_wait", "timedwait", "savecancel", "testcancel"}

ASSUME ThreadAssumption == Main \notin Worker /\ None \notin Worker \cup {Main}
ASSUME CallAssumption == Calls \subseteq CallNames
ASSUME EarlyAssumption == EarlyCancel \in BOOLEAN

VARIABLES
  pc,         \* where each worker is
  state,      \* canc->state
  cond,       \* canc->cond is not null
  cancelled,  \* canc->cancelled
  old,        \* the state pthread_cond_timedwait_cancel will restore
  sig,        \* SIGRTMIN: "none", "sent" to the worker, or "handled"
  owner,      \* the holder of the mutex
  section,    \* workers between vlc_savecancel and vlc_restorecancel
  last        \* how each worker exited

canc == <<state, cond, cancelled, old>>
vars == <<pc, canc, sig, owner, section, last>>

\* Where the cleanup handler of the mutex is registered, and in which of these
\* places a worker is inside pthread_cond_timedwait_cancel.
InTimedWait == {"disabled", "published", "asleep", "woken", "returned", "cleared"}
InWait == {"waiting", "waitWoken"}
Guarded == {"guarded"} \cup InWait \cup InTimedWait
Places == {"start", "idle", "locked", "popped", "exited"} \cup Guarded

NotExited == [place |-> "none", protected |-> FALSE, owned |-> FALSE]

Init ==
  /\ pc = [w \in Worker |-> "start"]
  /\ state = [w \in Worker |-> "enable"]
  /\ cond = [w \in Worker |-> FALSE]
  /\ cancelled = [w \in Worker |-> FALSE]
  /\ old = [w \in Worker |-> "enable"]
  /\ sig = [w \in Worker |-> "none"]
  /\ owner = None /\ section = {}
  /\ last = [w \in Worker |-> NotExited]

Goto(w, from, to) == pc[w] = from /\ pc' = [pc EXCEPT ![w] = to]

\* pthread_exit, called at a place, in a protected section or not, runs the cleanup
\* handler, which unlocks the mutex.  To unlock a mutex of somebody else is undefined:
\* it may be released or not.
Exit(w, place, protected) ==
  /\ pc' = [pc EXCEPT ![w] = "exited"]
  /\ last' = [last EXCEPT ![w] = [place |-> place, protected |-> protected, owned |-> owner = w]]
  /\ \/ pc[w] \in Guarded /\ owner' = None
     \/ (pc[w] \notin Guarded \/ owner # w) /\ UNCHANGED owner

Woken(p) == IF p = "waiting" THEN "waitWoken" ELSE IF p = "asleep" THEN "woken" ELSE p

-----------------------------------------------------------------------------
\* thread_wrapper_routine publishes the record of the thread and calls its routine.
Start(w) ==
  /\ Goto(w, "start", "idle")
  /\ UNCHANGED <<canc, sig, owner, section, last>>

\* vlc_mutex_lock, then mutex_cleanup_push.
Lock(w) ==
  /\ Goto(w, "idle", "locked")
  /\ owner = None /\ owner' = w
  /\ UNCHANGED <<canc, sig, section, last>>

CleanupPush(w) ==
  /\ Goto(w, "locked", "guarded")
  /\ UNCHANGED <<canc, sig, owner, section, last>>

\* vlc_cleanup_run drops the handler, then runs it.
CleanupPop(w) ==
  /\ Goto(w, "guarded", "popped")
  /\ UNCHANGED <<canc, sig, owner, section, last>>

Unlock(w) ==
  /\ Goto(w, "popped", "idle")
  /\ owner' = None
  /\ UNCHANGED <<canc, sig, section, last>>

\* vlc_cond_wait is pthread_cond_wait: the worker sleeps, and takes the mutex again.
Wait(w) ==
  /\ "cond_wait" \in Calls
  /\ \/ Goto(w, "guarded", "waiting") /\ owner' = None
     \/ Goto(w, "waitWoken", "guarded") /\ owner = None /\ owner' = w
  /\ UNCHANGED <<canc, sig, section, last>>

-----------------------------------------------------------------------------
\* pthread_cond_timedwait_cancel, called by vlc_cond_timedwait: cancellation is
\* disabled, the condition published, and the worker sleeps.
TimedWaitEnter(w) ==
  /\ "timedwait" \in Calls /\ Goto(w, "guarded", "disabled")
  /\ old' = [old EXCEPT ![w] = state[w]]
  /\ state' = [state EXCEPT ![w] = "disable"]
  /\ UNCHANGED <<cond, cancelled, sig, owner, section, last>>

Publish(w) ==
  /\ Goto(w, "disabled", "published")
  /\ cond' = [cond EXCEPT ![w] = TRUE]
  /\ UNCHANGED <<state, cancelled, old, sig, owner, section, last>>

Sleep(w) ==
  /\ Goto(w, "published", "asleep")
  /\ owner' = None
  /\ UNCHANGED <<canc, sig, section, last>>

Timeout(w) ==
  /\ Goto(w, "asleep", "woken")
  /\ UNCHANGED <<canc, sig, owner, section, last>>

Relock(w) ==
  /\ Goto(w, "woken", "returned")
  /\ owner = None /\ owner' = w
  /\ UNCHANGED <<canc, sig, section, last>>

ClearCond(w) ==
  /\ Goto(w, "returned", "cleared")
  /\ cond' = [cond EXCEPT ![w] = FALSE]
  /\ UNCHANGED <<state, cancelled, old, sig, owner, section, last>>

\* Mutant of SetCancelState: no test for a cancellation that came in between.
SetStateOnly(w, new, to, protected) ==
  /\ state' = [state EXCEPT ![w] = new]
  /\ pc' = [pc EXCEPT ![w] = to]
  /\ UNCHANGED <<owner, last>>

\* pthread_setcancelstate: to enable cancellation is a cancellation point.
SetCancelState(w, new, to, protected) ==
  /\ state' = [state EXCEPT ![w] = new]
  /\ IF new = "enable" /\ cancelled[w]
     THEN Exit(w, pc[w], protected)
     ELSE pc' = [pc EXCEPT ![w] = to] /\ UNCHANGED <<owner, last>>

\* Mutant of TimedWaitLeave: the saved state is not used.
TimedWaitEnables(w) ==
  /\ pc[w] = "cleared"
  /\ SetCancelState(w, "enable", "guarded", w \in section)
  /\ UNCHANGED <<cond, cancelled, old, sig, section>>

TimedWaitLeave(w) ==
  /\ pc[w] = "cleared"
  /\ SetCancelState(w, old[w], "guarded", w \in section)
  /\ UNCHANGED <<cond, cancelled, old, sig, section>>

-----------------------------------------------------------------------------
\* vlc_savecancel and vlc_restorecancel, around a protected section.
SaveCancel(w) ==
  /\ "savecancel" \in Calls /\ pc[w] = "idle" /\ w \notin section
  /\ SetCancelState(w, "disable", "idle", FALSE)
  /\ section' = section \cup {w}
  /\ UNCHANGED <<cond, cancelled, old, sig>>

RestoreCancel(w) ==
  /\ pc[w] = "idle" /\ w \in section
  /\ SetCancelState(w, "enable", "idle", FALSE)
  /\ section' = section \ {w}
  /\ UNCHANGED <<cond, cancelled, old, sig>>

\* vlc_testcancel is pthread_testcancel, which does not look at the state.
TestCancel(w) ==
  /\ "testcancel" \in Calls /\ pc[w] = "idle" /\ cancelled[w]
  /\ Exit(w, "testcancel", w \in section)
  /\ UNCHANGED <<canc, sig, section>>

\* Mutant of Handler: the state is not looked at.
HandlerExits(w) ==
  /\ sig[w] = "sent" /\ pc[w] # "exited"
  /\ sig' = [sig EXCEPT ![w] = "handled"]
  /\ cancelled' = [cancelled EXCEPT ![w] = TRUE]
  /\ Exit(w, pc[w], w \in section)
  /\ UNCHANGED <<state, cond, old, section>>

\* thread_cancel_handler.  Before Start the thread has no record, and nothing is
\* done.  In a timed wait everybody who waits is woken; else the worker exits at
\* once if cancellation is enabled.
Handler(w) ==
  /\ sig[w] = "sent" /\ pc[w] # "exited"
  /\ sig' = [sig EXCEPT ![w] = "handled"]
  /\ IF pc[w] = "start"
     THEN UNCHANGED <<pc, cond, cancelled, owner, last>>
     ELSE /\ cancelled' = [cancelled EXCEPT ![w] = TRUE]
          /\ IF cond[w]
             THEN /\ cond' = [cond EXCEPT ![w] = FALSE]
                  /\ pc' = [u \in Worker |-> Woken(pc[u])]
                  /\ UNCHANGED <<owner, last>>
             ELSE /\ IF state[w] = "enable" THEN Exit(w, pc[w], w \in section)
                     ELSE UNCHANGED <<pc, owner, last>>
                  /\ UNCHANGED cond
  /\ UNCHANGED <<state, old, section>>

-----------------------------------------------------------------------------
\* vlc_cancel
Cancel(w) ==
  /\ sig[w] = "none" /\ (EarlyCancel \/ pc[w] # "start")
  /\ sig' = [sig EXCEPT ![w] = "sent"]
  /\ UNCHANGED <<pc, canc, owner, section, last>>

\* The main thread takes the mutex, signals or broadcasts the condition, and gives the
\* mutex back.
MainLock ==
  /\ owner = None /\ owner' = Main
  /\ UNCHANGED <<pc, canc, sig, section, last>>

MainSignal ==
  /\ owner = Main
  /\ \E w \in Worker : /\ pc[w] \in {"waiting", "asleep"}
                       /\ pc' = [pc EXCEPT ![w] = Woken(@)]
  /\ UNCHANGED <<canc, sig, owner, section, last>>

MainBroadcast ==
  /\ owner = Main
  /\ pc' = [w \in Worker |-> Woken(pc[w])] /\ pc' # pc
  /\ UNCHANGED <<canc, sig, owner, section, last>>

MainUnlock ==
  /\ owner = Main /\ owner' = None
  /\ UNCHANGED <<pc, canc, sig, section, last>>

Step(w) ==
  \/ Start(w) \/ Lock(w) \/ CleanupPush(w) \/ CleanupPop(w) \/ Unlock(w) \/ Wait(w)
  \/ TimedWaitEnter(w) \/ Publish(w) \/ Sleep(w) \/ Timeout(w) \/ Relock(w)
  \/ ClearCond(w) \/ TimedWaitLeave(w)
  \/ SaveCancel(w) \/ RestoreCancel(w) \/ TestCancel(w)

Next ==
  \/ \E w \in Worker : Step(w) \/ Handler(w) \/ Cancel(w)
  \/ MainLock \/ MainSignal \/ MainBroadcast \/ MainUnlock

Spec == Init /\ [][Next]_vars

\* Workers run, signals are delivered and deadlines pass; a mutex that is freed again
\* and again is granted in the end, a protected section or a loop around a wait comes
\* to its end, and Main goes on broadcasting the condition.
Fairness ==
  /\ \A w \in Worker : /\ WF_vars(Step(w)) /\ WF_vars(Handler(w))
                       /\ SF_vars(Wait(w) \/ Relock(w))
                       /\ SF_vars(CleanupPop(w)) /\ SF_vars(RestoreCancel(w))
  /\ SF_vars(MainLock) /\ SF_vars(MainBroadcast) /\ WF_vars(MainUnlock)

FairSpec == Spec /\ Fairness

-----------------------------------------------------------------------------
\* Type of the state.
TypeOK ==
  /\ pc \in [Worker -> Places]
  /\ state \in [Worker -> {"enable", "disable"}] /\ old \in [Worker -> {"enable", "disable"}]
  /\ cond \in [Worker -> BOOLEAN] /\ cancelled \in [Worker -> BOOLEAN]
  /\ sig \in [Worker -> {"none", "sent", "handled"}]
  /\ owner \in Worker \cup {Main, None} /\ section \subseteq Worker
  /\ last \in [Worker -> [place : Places \cup {"none", "testcancel"},
                          protected : BOOLEAN, owned : BOOLEAN]]
  /\ \A w \in Worker : cond[w] => pc[w] \in InTimedWait \ {"disabled", "cleared"}

\* "In case of thread cancellation, the mutex is always locked before cancellation
\* proceeds": the cleanup handler of a wait unlocks a mutex its thread holds.
CleanupOwnsMutex ==
  \A w \in Worker : last[w].place \in Guarded => last[w].owned

\* vlc_cond_timedwait brackets its sleep for that purpose: as long as no thread was
\* cancelled in vlc_cond_wait, every cleanup handler unlocks a mutex its thread holds.
TimedCleanupOwnsMutex ==
  (\A w \in Worker : last[w].place \notin InWait) => CleanupOwnsMutex

\* vlc_savecancel protects what follows: unless the section itself calls
\* vlc_testcancel, no thread is cut short before vlc_restorecancel, although timed
\* waits in the section save and restore the state on their own.
SectionNeverCut ==
  \A w \in Worker : last[w].place # "testcancel" => ~last[w].protected

\* "The calling thread will be suspended until ... the thread is cancelled with
\* vlc_cancel()": once the handler has run, the worker sleeps no more.
CancelWakesWaiter ==
  \A w \in Worker : pc[w] \in {"waiting", "asleep"} => ~cancelled[w]

\* The handler ended a worker between vlc_mutex_lock and mutex_cleanup_push, or between
\* vlc_cleanup_pop and vlc_mutex_unlock: nobody will give the mutex back.
Orphaned == \E w \in Worker : pc[w] = "exited" /\ owner = w

\* A cancelled worker terminates, whatever it was doing, so that vlc_join returns; only a
\* mutex that another cancellation orphaned can prevent it.
CancelledExits ==
  \A w \in Worker : sig[w] = "sent" ~> (pc[w] = "exited" \/ Orphaned)

=============================================================================
