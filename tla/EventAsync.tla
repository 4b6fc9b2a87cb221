----------------------------- MODULE EventAsync -----------------------------
(***************************************************************************)
(* src/control/event_async.c: the queue and the thread that deliver events *)
(* to asynchronous listeners of one event manager.                         *)
(*                                                                         *)
(* Callers dispatch events and remove listeners; the thread, created by    *)
(* the first dispatch, pops one event at a time and calls its listener     *)
(* with no lock held.  All state is touched under queue->lock: an action   *)
(* is what a thread does between taking that lock (on entry, or on waking) *)
(* and giving it up.  A queued element is its listener, the only part of   *)
(* it the queue looks at, and a number: the linked list is the set of its  *)
(* elements, in the order of their numbers.                                *)
(*                                                                         *)
(* The callers of this module keep its rule: nothing is dispatched to a    *)
(* listener from the moment its removal begins.                            *)
(***************************************************************************)
EXTENDS Naturals

CONSTANTS Thread,       \* the callers
          Listener,
          None,         \* no listener
          MaxQueue,     \* bound on the events dispatched while the queue is never empty
          CloneFails    \* whether creating the thread may fail

ASSUME NoneAssumption == None \notin Listener
ASSUME BoundAssumption == MaxQueue \in Nat
ASSUME CloneAssumption == CloneFails \in BOOLEAN

VARIABLES
  queue,      \* the queued elements; the least number is first_elmt's
  idle,       \* is_idle
  loop,       \* the thread: "none", "ready" to take the lock, "asleep" on
              \* signal, or in a "call"
  current,    \* the listener being called
  removing,   \* what each caller is removing, in ensure_listener_removal
  idleWait,   \* callers asleep on signal_idle
  attached,   \* the listeners the callers may dispatch to
  gone,       \* listeners whose removal returned, and not attached again
  itself,     \* the current callback removed its own listener
  dead        \* the process crashed or aborted

callers == <<removing, idleWait, attached, gone>>
vars == <<queue, idle, loop, current, callers, itself, dead>>

Init ==
  /\ queue = {} /\ idle = FALSE /\ loop = "none" /\ current = None
  /\ removing = [t \in Thread |-> None] /\ idleWait = {}
  /\ attached = {} /\ gone = {} /\ itself = FALSE
  /\ dead = FALSE

Free(t) == ~dead /\ removing[t] = None

Element == [no : 1..MaxQueue, to : Listener]

\* push: the new element follows last_elmt.
Pushed(l, q) ==
  \E n \in 1..MaxQueue :
    /\ n = 1 \/ \E e \in queue : n = e.no + 1
    /\ \A e \in queue : e.no < n
    /\ q = queue \cup {[no |-> n, to |-> l]}

\* pop_listener
WithoutListener(l) == {e \in queue : e.to # l}

\* first_elmt, if e is it
IsFirst(e) == \A f \in queue : e.no <= f.no

\* libvlc_event_attach_async, as far as this module sees it.
Attach(t, l) ==
  /\ Free(t)
  /\ l \notin attached /\ \A u \in Thread : removing[u] # l
  /\ current # l
  /\ attached' = attached \cup {l}
  /\ gone' = gone \ {l}
  /\ UNCHANGED <<queue, idle, loop, current, removing, idleWait, itself, dead>>

-----------------------------------------------------------------------------
\* Mutant of Dispatch: the thread is not signalled.
DispatchSilently(t, l) ==
  /\ Free(t) /\ l \in attached
  /\ Pushed(l, queue')
  /\ loop' = IF loop = "none" THEN "ready" ELSE loop
  /\ UNCHANGED <<idle, current, callers, itself, dead>>

\* libvlc_event_async_dispatch: the first one creates the thread.  Should that
\* fail, the queue is freed, and locking it crashes.
Dispatch(t, l) ==
  /\ Free(t) /\ l \in attached
  /\ \/ /\ Pushed(l, queue')
        /\ loop' = IF loop \in {"none", "asleep"} THEN "ready" ELSE loop
        /\ dead' = FALSE
     \/ /\ loop = "none" /\ CloneFails
        /\ dead' = TRUE
        /\ UNCHANGED <<queue, loop>>
  /\ UNCHANGED <<idle, current, callers, itself>>

\* Mutant of WaitIdle: the remover does not wait.
SkipWaitIdle(t, l) ==
  /\ removing' = [removing EXCEPT ![t] = None]
  /\ gone' = gone \cup {l}
  /\ UNCHANGED idleWait

\* The loop of ensure_listener_removal, left once the thread is idle.
WaitIdle(t, l) ==
  \/ /\ idle
     /\ removing' = [removing EXCEPT ![t] = None]
     /\ gone' = gone \cup {l}
     /\ UNCHANGED idleWait
  \/ /\ ~idle
     /\ removing' = [removing EXCEPT ![t] = l]
     /\ idleWait' = idleWait \cup {t}
     /\ UNCHANGED gone

\* libvlc_event_async_ensure_listener_removal on a caller's thread.
RemoveListener(t, l) ==
  /\ Free(t) /\ l \in attached
  /\ attached' = attached \ {l}
  /\ IF loop = "none"
     THEN /\ gone' = gone \cup {l}
          /\ UNCHANGED <<queue, removing, idleWait>>
     ELSE /\ queue' = WithoutListener(l)
          /\ WaitIdle(t, l)
  /\ UNCHANGED <<idle, loop, current, itself, dead>>

RemoverAwake(t) ==
  /\ ~dead /\ removing[t] # None /\ t \notin idleWait
  /\ WaitIdle(t, removing[t])
  /\ UNCHANGED <<queue, idle, loop, current, attached, itself, dead>>

\* The same on the thread itself, from a callback, which must not wait.
CallbackRemoves(l) ==
  /\ ~dead /\ loop = "call" /\ l \in attached
  /\ attached' = attached \ {l}
  /\ queue' = WithoutListener(l)
  /\ gone' = gone \cup {l}
  /\ itself' = (itself \/ l = current)
  /\ UNCHANGED <<idle, loop, current, removing, idleWait, dead>>

-----------------------------------------------------------------------------
\* Mutants of GoIdle and CallFirst: removers are not told; the newest event is
\* delivered first.
GoIdleQuietly ==
  /\ queue = {}
  /\ idle' = TRUE /\ loop' = "asleep"
  /\ UNCHANGED <<queue, current, idleWait>>

CallLast ==
  /\ \E e \in queue :
       /\ \A f \in queue : f.no <= e.no
       /\ current' = e.to /\ queue' = queue \ {e}
  /\ idle' = FALSE /\ loop' = "call"
  /\ UNCHANGED idleWait

\* A turn of event_async_loop that finds nothing to deliver.
GoIdle ==
  /\ queue = {}
  /\ idle' = TRUE /\ loop' = "asleep"
  /\ idleWait' = {}
  /\ UNCHANGED <<queue, current>>

\* A turn that takes the first event.  The thread is idle no more, whether it
\* comes back from the wait on signal or from another callback.
CallFirst ==
  /\ \E e \in queue :
       /\ IsFirst(e)
       /\ current' = e.to /\ queue' = queue \ {e}
  /\ idle' = FALSE /\ loop' = "call"
  /\ UNCHANGED idleWait

LoopTurn ==
  /\ ~dead /\ loop = "ready"
  /\ GoIdle \/ CallFirst
  /\ UNCHANGED <<removing, attached, gone, itself, dead>>

CallbackReturns ==
  /\ ~dead /\ loop = "call"
  /\ loop' = "ready" /\ current' = None /\ itself' = FALSE
  /\ UNCHANGED <<queue, idle, callers, dead>>

SpuriousWake ==
  /\ ~dead
  /\ \/ loop = "asleep" /\ loop' = "ready" /\ UNCHANGED idleWait
     \/ UNCHANGED loop /\ \E t \in idleWait : idleWait' = idleWait \ {t}
  /\ UNCHANGED <<queue, idle, current, removing, attached, gone, itself, dead>>

\* libvlc_event_async_fini: the thread is cancelled, wherever it is, and joined.
\* A manager created later starts afresh.
Fini(t) ==
  /\ Free(t) /\ attached = {} /\ \A u \in Thread : removing[u] = None
  /\ loop # "none"
  /\ queue' = {} /\ idle' = FALSE /\ loop' = "none"
  /\ current' = None /\ itself' = FALSE
  /\ UNCHANGED <<callers, dead>>

\* Releasing the manager from its own callback aborts.
CallbackFini ==
  /\ ~dead /\ loop = "call" /\ attached = {}
  /\ \A t \in Thread : removing[t] = None
  /\ dead' = TRUE
  /\ UNCHANGED <<queue, idle, loop, current, callers, itself>>

Deliver == LoopTurn \/ CallbackReturns

Next ==
  \/ \E t \in Thread, l \in Listener :
       Attach(t, l) \/ Dispatch(t, l) \/ RemoveListener(t, l)
  \/ \E t \in Thread : RemoverAwake(t) \/ Fini(t)
  \/ \E l \in Listener : CallbackRemoves(l)
  \/ LoopTurn \/ CallbackReturns \/ CallbackFini \/ SpuriousWake

Spec == Init /\ [][Next]_vars

\* The thread runs, callbacks return, and a woken remover gets the lock.
Fairness == WF_vars(Deliver) /\ \A t \in Thread : WF_vars(RemoverAwake(t))

FairSpec == Spec /\ Fairness

-----------------------------------------------------------------------------
\* Type of the state; only removers sleep on signal_idle, and a listener is being
\* called exactly while the thread is in a callback.
TypeOK ==
  /\ queue \subseteq Element
  /\ idle \in BOOLEAN /\ loop \in {"none", "ready", "asleep", "call"}
  /\ current \in Listener \cup {None} /\ (current # None <=> loop = "call")
  /\ removing \in [Thread -> Listener \cup {None}]
  /\ idleWait \subseteq {t \in Thread : removing[t] # None}
  /\ attached \subseteq Listener /\ gone \subseteq Listener
  /\ itself \in BOOLEAN /\ dead \in BOOLEAN

\* "Make sure no more message will be issued to the listener": once its removal
\* has returned, a listener is neither queued nor being called; only a callback
\* that removes its own listener is still to return.
RemovedIsGone ==
  \A l \in gone : (\A e \in queue : e.to # l) /\ (current = l => itself)

\* No event is left in the queue while the thread sleeps on signal.
NoEventForgotten == queue # {} => loop # "asleep"

\* A dispatched event is delivered in the end, unless its listener is removed or
\* the manager released.
EveryEventDelivered ==
  \A l \in Listener :
    (\E e \in queue : e.to = l) ~> current = l \/ l \notin attached \/ dead

\* Every removal returns, once events stop coming: the remover is not forgotten
\* on signal_idle.
RemovalReturns ==
  <>[][\A t \in Thread, l \in Listener : ~Dispatch(t, l)]_vars
    => \A t \in Thread : []<>(removing[t] = None \/ dead)

\* The thread and its locks deliver what is promised: one call at a time, in the order
\* of dispatch, and none for a listener whose removal is over.
Delivery == INSTANCE EventDelivery WITH
  pending <- queue,
  calling <- IF current = None THEN {} ELSE {current}
Implements == Delivery!Spec

=============================================================================
