---------------------------- MODULE EventManager ----------------------------
(***************************************************************************)
(* src/control/event.c: the listeners of one event type of one libvlc      *)
(* object, the threads that send it and the calls that attach and detach   *)
(* listeners, from other threads or from inside a callback.                *)
(*                                                                         *)
(* Two locks are involved.  What is done under object_lock is one step.    *)
(* event_sending_lock is recursive and held while callbacks run: a thread  *)
(* holds it while one of its frames of libvlc_event_send is past "copied". *)
(* The queue of asynchronous listeners (module EventAsync) appears here as *)
(* the events posted and the one being delivered by the thread Loop.       *)
(***************************************************************************)
EXTENDS Naturals, Sequences, SequencesExt

CONSTANTS Thread,     \* the threads of the application and of libvlc
          Loop,       \* the delivery thread of the asynchronous queue
          Listener,
          Async,      \* the listeners attached with libvlc_event_attach_async
          None,       \* no listener
          MaxDepth,   \* bound on sends nested in callbacks
          MaxPosted   \* no send begins with as many events posted

ASSUME LoopAssumption == Loop \notin Thread
ASSUME AsyncAssumption == Async \subseteq Listener /\ None \notin Listener
ASSUME BoundAssumption == MaxDepth \in Nat /\ MaxPosted \in Nat

VARIABLES
  listeners,  \* listeners_group->listeners
  removed,    \* listeners_group->b_sublistener_removed
  stack,      \* each thread's libvlc_event_send calls, the innermost last
  detaching,  \* what a thread still has to do for libvlc_event_detach
  posted,     \* events queued for asynchronous listeners
  delivering  \* the asynchronous listener being called

vars == <<listeners, removed, stack, detaching, posted, delivering>>

Everyone == Thread \cup {Loop}
Done == [listener |-> None, step |-> "done"]

Init ==
  /\ listeners = <<>> /\ removed = FALSE
  /\ stack = [t \in Thread |-> <<>>]
  /\ detaching = [t \in Everyone |-> Done]
  /\ posted = <<>> /\ delivering = None

Top(t) == Last(stack[t])
SetTop(t, frame) == stack' = [stack EXCEPT ![t] = Append(Front(@), frame)]

\* t is in libvlc_event_send with event_sending_lock.
Sending(t) == \E k \in DOMAIN stack[t] : stack[t][k].pc # "copied"

\* The application's code runs on t: outside of any send, or in a callback.
InCallback(t) ==
  IF t = Loop THEN delivering # None
  ELSE stack[t] # <<>> /\ Top(t).pc = "call"
Runs(t) ==
  /\ detaching[t] = Done
  /\ InCallback(t) \/ (t # Loop /\ stack[t] = <<>>)

-----------------------------------------------------------------------------
\* event_attach
Attach(t, l) ==
  /\ Runs(t) /\ l \notin ToSet(listeners)
  /\ listeners' = Append(listeners, l)
  /\ UNCHANGED <<removed, stack, detaching, posted, delivering>>

\* The application calls libvlc_event_detach, for a listener it has attached and
\* detaches once.
DetachCall(t, l) ==
  /\ Runs(t) /\ l \in ToSet(listeners)
  /\ \A u \in Everyone : detaching[u] # [listener |-> l, step |-> "lock"]
  /\ detaching' = [detaching EXCEPT ![t] = [listener |-> l, step |-> "lock"]]
  /\ UNCHANGED <<listeners, removed, stack, posted, delivering>>

\* Mutant of Detach: event_sending_lock is not taken.
DetachWhileSending(t) ==
  /\ detaching[t].step = "lock"
  /\ listeners' = RemoveFirst(listeners, detaching[t].listener)
  /\ removed' = FALSE
  /\ detaching' = [detaching EXCEPT ![t].step = "pop"]
  /\ UNCHANGED <<stack, posted, delivering>>

\* Its work under the two locks.  The group is marked unedited.
Detach(t) ==
  /\ detaching[t].step = "lock"
  /\ \A u \in Thread \ {t} : ~Sending(u)
  /\ listeners' = RemoveFirst(listeners, detaching[t].listener)
  /\ removed' = FALSE
  /\ detaching' = [detaching EXCEPT ![t].step = "pop"]
  /\ UNCHANGED <<stack, posted, delivering>>

\* pop_listener: what is posted to the others stays, in its order.
Unposted(l) ==
  LET rest[k \in 0..Len(posted)] ==
        IF k = 0 THEN <<>>
        ELSE IF posted[k] = l THEN rest[k - 1] ELSE Append(rest[k - 1], posted[k])
  IN rest[Len(posted)]

\* Its last part, libvlc_event_async_ensure_listener_removal: drop what is posted
\* to an asynchronous listener, then wait for the delivery thread to be idle.
DetachPop(t) ==
  /\ detaching[t].step = "pop"
  /\ posted' = IF detaching[t].listener \in Async
               THEN Unposted(detaching[t].listener) ELSE posted
  /\ detaching' = [detaching EXCEPT ![t] =
                     IF t = Loop THEN Done ELSE [@ EXCEPT !.step = "wait"]]
  /\ UNCHANGED <<listeners, removed, stack, delivering>>

DetachReturns(t) ==
  /\ detaching[t].step = "wait"
  /\ posted = <<>> /\ delivering = None
  /\ detaching' = [detaching EXCEPT ![t] = Done]
  /\ UNCHANGED <<listeners, removed, stack, posted, delivering>>

-----------------------------------------------------------------------------
\* libvlc_event_send copies the listeners under object_lock.
Send(t) ==
  /\ t \in Thread /\ Runs(t) /\ Len(stack[t]) < MaxDepth /\ Len(posted) < MaxPosted
  /\ stack' = [stack EXCEPT ![t] = Append(@,
       [cached |-> listeners, i |-> 0, cur |-> 1, pc |-> "copied", heard |-> <<>>])]
  /\ UNCHANGED <<listeners, removed, detaching, posted, delivering>>

\* Mutants of SendLock: no lock is taken; the lock is not recursive.
SendWithoutLock(t) ==
  /\ stack[t] # <<>> /\ Top(t).pc = "copied"
  /\ removed' = FALSE
  /\ SetTop(t, [Top(t) EXCEPT !.pc = "loop"])
  /\ UNCHANGED <<listeners, detaching, posted, delivering>>

SendLockOnce(t) ==
  /\ stack[t] # <<>> /\ Top(t).pc = "copied"
  /\ \A u \in Thread : ~Sending(u)
  /\ removed' = FALSE
  /\ SetTop(t, [Top(t) EXCEPT !.pc = "loop"])
  /\ UNCHANGED <<listeners, detaching, posted, delivering>>

\* It takes event_sending_lock and marks the group unedited.
SendLock(t) ==
  /\ stack[t] # <<>> /\ Top(t).pc = "copied"
  /\ \A u \in Thread \ {t} : ~Sending(u)
  /\ removed' = FALSE
  /\ SetTop(t, [Top(t) EXCEPT !.pc = "loop"])
  /\ UNCHANGED <<listeners, detaching, posted, delivering>>

\* The next listener is posted to: listener_cached stays where it is.
SendAsync(t) ==
  /\ stack[t] # <<>> /\ Top(t).pc = "loop" /\ Top(t).i < Len(Top(t).cached)
  /\ LET l == Top(t).cached[Top(t).cur]
     IN /\ l \in Async
        /\ posted' = Append(posted, l)
        /\ SetTop(t, [Top(t) EXCEPT !.i = @ + 1, !.heard = Append(@, l)])
  /\ UNCHANGED <<listeners, removed, detaching, delivering>>

\* Mutant of SendCall: the list itself is walked, not the copy.
SendCallUncached(t) ==
  /\ stack[t] # <<>> /\ Top(t).pc = "loop" /\ Top(t).i < Len(Top(t).cached)
  /\ LET cur == Top(t).cur
         l == IF cur \in DOMAIN listeners THEN listeners[cur] ELSE Top(t).cached[cur]
     IN /\ l \notin Async
        /\ SetTop(t, [Top(t) EXCEPT !.pc = "call", !.heard = Append(@, l)])
  /\ UNCHANGED <<listeners, removed, detaching, posted, delivering>>

\* The next listener is called.
SendCall(t) ==
  /\ stack[t] # <<>> /\ Top(t).pc = "loop" /\ Top(t).i < Len(Top(t).cached)
  /\ LET l == Top(t).cached[Top(t).cur]
     IN /\ l \notin Async
        /\ SetTop(t, [Top(t) EXCEPT !.pc = "call", !.heard = Append(@, l)])
  /\ UNCHANGED <<listeners, removed, detaching, posted, delivering>>

\* Mutant of CallReturns: the loop does not count.
CallReturnsUncounted(t) ==
  /\ t \in Thread /\ InCallback(t) /\ detaching[t] = Done
  /\ SetTop(t, [Top(t) EXCEPT !.pc = "loop", !.cur = @ + 1])
  /\ UNCHANGED <<listeners, removed, detaching, posted, delivering>>

\* The recheck made when the group was edited: is the next listener gone?
Skipped(t) ==
  LET next == Top(t).cur + 1
  IN removed /\ next \in DOMAIN Top(t).cached
             /\ Top(t).cached[next] \notin ToSet(listeners)

\* A callback returns to the loop of libvlc_event_send.
CallReturns(t) ==
  /\ t \in Thread /\ InCallback(t) /\ detaching[t] = Done
  /\ SetTop(t, [Top(t) EXCEPT !.pc = "loop", !.i = @ + 1,
                              !.cur = @ + (IF Skipped(t) THEN 2 ELSE 1)])
  /\ UNCHANGED <<listeners, removed, detaching, posted, delivering>>

SendReturns(t) ==
  /\ stack[t] # <<>> /\ Top(t).pc = "loop" /\ Top(t).i = Len(Top(t).cached)
  /\ stack' = [stack EXCEPT ![t] = Front(@)]
  /\ UNCHANGED <<listeners, removed, detaching, posted, delivering>>

\* The delivery thread calls an asynchronous listener; the call returns.
DeliverBegin ==
  /\ posted # <<>> /\ delivering = None
  /\ delivering' = Head(posted) /\ posted' = Tail(posted)
  /\ UNCHANGED <<listeners, removed, stack, detaching>>

DeliverEnd ==
  /\ delivering # None /\ detaching[Loop] = Done
  /\ delivering' = None
  /\ UNCHANGED <<listeners, removed, stack, detaching, posted>>

-----------------------------------------------------------------------------
Call(t) == \E l \in Listener : Attach(t, l) \/ DetachCall(t, l)

Continue(t) == SendLock(t) \/ SendAsync(t) \/ SendCall(t) \/ CallReturns(t) \/ SendReturns(t)
FinishDetach(t) == Detach(t) \/ DetachPop(t) \/ DetachReturns(t)

Next ==
  \/ \E t \in Everyone : Call(t) \/ FinishDetach(t)
  \/ \E t \in Thread : Send(t) \/ Continue(t)
  \/ DeliverBegin \/ DeliverEnd

Spec == Init /\ [][Next]_vars

\* Threads run, callbacks return, and the sending lock is granted in the end.
Fairness ==
  /\ \A t \in Thread : WF_vars(Continue(t))
  /\ \A t \in Everyone : WF_vars(FinishDetach(t))
  /\ WF_vars(DeliverBegin) /\ WF_vars(DeliverEnd)

FairSpec == Spec /\ Fairness

-----------------------------------------------------------------------------
Frame == [cached : Seq(Listener), i : Nat, cur : Nat \ {0},
          pc : {"copied", "loop", "call"}, heard : Seq(Listener)]

\* Type of the state; the loop of libvlc_event_send stays inside its copy.
TypeOK ==
  /\ listeners \in Seq(Listener) /\ removed \in BOOLEAN
  /\ stack \in [Thread -> Seq(Frame)]
  /\ \A t \in Thread : \A k \in DOMAIN stack[t] :
       LET f == stack[t][k]
       IN f.i <= Len(f.cached) /\ f.cur <= f.i + 1
  /\ detaching \in [Everyone -> [listener : Listener \cup {None},
                                 step : {"done", "lock", "pop", "wait"}]]
  /\ posted \in Seq(Listener) /\ delivering \in Listener \cup {None}

\* "f_callback the function to call when i_event_type occurs": a send that ends has
\* notified every listener of its copy once, in the order they were attached,
\* whatever callbacks attached, detached or sent meanwhile.  (An asynchronous listener
\* has to be the last one: those behind it are not reached.)
EveryListenerHears ==
  \A t \in Thread :
    /\ stack[t] # <<>> /\ Top(t).pc = "loop" /\ Top(t).i = Len(Top(t).cached)
    /\ \A k \in 1..(Len(Top(t).cached) - 1) : Top(t).cached[k] \notin Async
    => Top(t).heard = Top(t).cached

\* Callbacks of one object never overlap on two threads.
CallbacksSerialised ==
  \A t, u \in Thread : Sending(t) /\ Sending(u) => t = u

\* A thread that detaches a listener waits for a call of it on another thread: no
\* step removes a listener that somebody else is calling.
DetachWaitsForCall ==
  [][\A t \in Thread, l \in Listener :
       /\ l \in ToSet(listeners) /\ l \notin ToSet(listeners')
       /\ detaching[t] = [listener |-> l, step |-> "lock"] /\ detaching'[t] # detaching[t]
       => \A u \in Thread \ {t} : \A k \in DOMAIN stack[u] :
            stack[u][k].pc = "call" => Last(stack[u][k].heard) # l]_vars

\* "allow that edition of listeners during callbacks will garantee immediate
\* effect": a listener is called only while it is attached.
DetachIsImmediate ==
  [][\A t \in Thread :
       (Len(stack[t]) = Len(stack'[t]) /\ stack[t] # <<>>
          /\ Top(t).pc = "loop" /\ Last(stack'[t]).pc = "call")
       => Last(Last(stack'[t]).heard) \in ToSet(listeners)]_vars

\* The delivery thread wants to detach from its callback while a callback that holds
\* event_sending_lock waits for the delivery thread to be idle.
Entangled ==
  /\ detaching[Loop].step = "lock"
  /\ \E t \in Thread : Sending(t) /\ detaching[t].step = "wait"

\* Once the application stops calling, every send and detach returns: two sends, a
\* send and a detach, or a detach inside a callback do not block each other, unless
\* callbacks detach on both sides.
EverybodyReturns ==
  <>[][\A t \in Everyone : ~Call(t) /\ (t \in Thread => ~Send(t))]_vars
    => \/ <>[](\A t \in Thread : stack[t] = <<>> /\ detaching[t] = Done)
       \/ <>Entangled

=============================================================================
