--------------------------- MODULE EventAsync_proof ---------------------------
(* Proofs about EventAsync: what removal and delivery promise, for any number of *)
(* callers, listeners and events.                                                *)
EXTENDS EventAsync, TLAPS

\* What is queued is attached; what is attached is neither removed nor being removed.
Attachment ==
  /\ \A e \in queue : e.to \in attached
  /\ attached \cap gone = {}
  /\ \A t \in Thread : removing[t] \notin attached

\* The thread that is idle calls nobody; it only sleeps when it has said that it is idle
\* and found the queue empty.
Idleness ==
  /\ idle => loop \in {"asleep", "ready"}
  /\ loop = "asleep" => queue = {}
  /\ loop = "none" => queue = {}
  /\ itself => loop = "call"

\* The listener that is being called may only be gone if its call removed it.
CallOfGone == current \in gone => itself

IInv == TypeOK /\ Attachment /\ Idleness /\ CallOfGone

LEMMA InitIInv == Init => IInv
BY NoneAssumption DEF Init, IInv, TypeOK, Attachment, Idleness, CallOfGone, callers

LEMMA PushedType ==
  ASSUME NEW l \in Listener, NEW q, Pushed(l, q), queue \subseteq Element
  PROVE  /\ q \subseteq Element
         /\ \A e \in q : e \in queue \/ e.to = l
         /\ \A e \in queue : e \in q
BY DEF Pushed, Element

LEMMA StepIInv == IInv /\ [Next]_vars => IInv'
<1> SUFFICES ASSUME IInv, [Next]_vars PROVE IInv'
  OBVIOUS
<1> USE NoneAssumption DEF IInv, TypeOK, Attachment, Idleness, CallOfGone
<1>1. ASSUME NEW t \in Thread, NEW l \in Listener, Attach(t, l) PROVE IInv'
  BY <1>1 DEF Attach, Free
<1>2. ASSUME NEW t \in Thread, NEW l \in Listener, Dispatch(t, l) PROVE IInv'
  <2>1. CASE UNCHANGED <<queue, loop>>
    BY <1>2, <2>1 DEF Dispatch, Free, callers
  <2>2. CASE Pushed(l, queue') /\ loop' = (IF loop \in {"none", "asleep"} THEN "ready" ELSE loop) /\ dead' = FALSE
    <3>1. queue' \subseteq Element /\ \A e \in queue' : e \in queue \/ e.to = l
      BY <2>2, PushedType
    <3> QED BY <1>2, <2>2, <3>1 DEF Dispatch, Free, callers
  <2> QED BY <1>2, <2>1, <2>2 DEF Dispatch
<1>3. ASSUME NEW t \in Thread, NEW l \in Listener, RemoveListener(t, l) PROVE IInv'
  BY <1>3 DEF RemoveListener, WaitIdle, Free, WithoutListener
<1>4. ASSUME NEW t \in Thread, RemoverAwake(t) PROVE IInv'
  BY <1>4 DEF RemoverAwake, WaitIdle
<1>5. ASSUME NEW l \in Listener, CallbackRemoves(l) PROVE IInv'
  BY <1>5 DEF CallbackRemoves, WithoutListener
<1>6. CASE LoopTurn
  BY <1>6 DEF LoopTurn, GoIdle, CallFirst, IsFirst, Element
<1>7. CASE CallbackReturns
  BY <1>7 DEF CallbackReturns, callers
<1>8. CASE SpuriousWake
  BY <1>8 DEF SpuriousWake
<1>9. ASSUME NEW t \in Thread, Fini(t) PROVE IInv'
  BY <1>9 DEF Fini, Free, callers
<1>10. CASE CallbackFini
  BY <1>10 DEF CallbackFini, callers
<1>11. CASE UNCHANGED vars
  BY <1>11 DEF vars, callers
<1> QED
  BY <1>1, <1>2, <1>3, <1>4, <1>5, <1>6, <1>7, <1>8, <1>9, <1>10, <1>11 DEF Next

\* The inductive invariant.
THEOREM Inductive == Spec => []IInv
BY InitIInv, StepIInv, PTL DEF Spec

\* The state keeps its type: a listener is being called exactly while the thread is in a
\* callback, and only removers sleep on signal_idle.
THEOREM Typed == Spec => []TypeOK
<1>1. IInv => TypeOK
  BY DEF IInv
<1> QED BY <1>1, Inductive, PTL

\* ensure_listener_removal keeps its word: no event for the listener stays queued, and
\* no call of it is under way but one that removed it itself.
THEOREM Removal == Spec => []RemovedIsGone
<1>1. IInv => RemovedIsGone
  BY DEF IInv, RemovedIsGone, Attachment, CallOfGone
<1> QED BY <1>1, Inductive, PTL

\* The delivery thread never sleeps on an event.
THEOREM NothingForgotten == Spec => []NoEventForgotten
<1>1. IInv => NoEventForgotten
  BY DEF IInv, Idleness, NoEventForgotten
<1> QED BY <1>1, Inductive, PTL

-----------------------------------------------------------------------------
(* Nobody sleeps for ever: the safety part of RemovalReturns. *)

\* While a remover sleeps on signal_idle, the thread that has to wake it is awake: it is in
\* a callback, or about to take another turn.
NoRemoverForgotten == ~dead /\ idleWait # {} => loop \in {"ready", "call"}

\* The thread has said that it is idle when it sleeps, and there is one to be waited for.
Waited ==
  /\ loop = "asleep" => idle
  /\ loop = "none" => \A t \in Thread : removing[t] = None
  /\ NoRemoverForgotten

LEMMA StepWaited == IInv /\ Waited /\ [Next]_vars => Waited'
<1> SUFFICES ASSUME IInv, Waited, [Next]_vars PROVE Waited'
  OBVIOUS
<1> USE NoneAssumption DEF IInv, TypeOK, Idleness, Waited, NoRemoverForgotten
<1>1. ASSUME NEW t \in Thread, NEW l \in Listener, Attach(t, l) PROVE Waited'
  BY <1>1 DEF Attach
<1>2. ASSUME NEW t \in Thread, NEW l \in Listener, Dispatch(t, l) PROVE Waited'
  BY <1>2 DEF Dispatch, callers
<1>3. ASSUME NEW t \in Thread, NEW l \in Listener, RemoveListener(t, l) PROVE Waited'
  BY <1>3 DEF RemoveListener, WaitIdle
<1>4. ASSUME NEW t \in Thread, RemoverAwake(t) PROVE Waited'
  BY <1>4 DEF RemoverAwake, WaitIdle
<1>5. ASSUME NEW l \in Listener, CallbackRemoves(l) PROVE Waited'
  BY <1>5 DEF CallbackRemoves
<1>6. CASE LoopTurn
  BY <1>6 DEF LoopTurn, GoIdle, CallFirst
<1>7. CASE CallbackReturns
  BY <1>7 DEF CallbackReturns, callers
<1>8. CASE SpuriousWake
  BY <1>8 DEF SpuriousWake
<1>9. ASSUME NEW t \in Thread, Fini(t) PROVE Waited'
  BY <1>9 DEF Fini, callers
<1>10. CASE CallbackFini
  BY <1>10 DEF CallbackFini, callers
<1>11. CASE UNCHANGED vars
  BY <1>11 DEF vars, callers
<1> QED
  BY <1>1, <1>2, <1>3, <1>4, <1>5, <1>6, <1>7, <1>8, <1>9, <1>10, <1>11 DEF Next

\* No remover is left asleep: neither between its test of is_idle and its wait, nor by a
\* thread that goes to sleep itself.
THEOREM RemoverIsWoken == Spec => []NoRemoverForgotten
<1>1. Init => Waited
  BY DEF Init, Waited, NoRemoverForgotten
<1>2. Waited => NoRemoverForgotten
  BY DEF Waited
<1> QED BY <1>1, <1>2, StepWaited, Inductive, PTL DEF Spec

-----------------------------------------------------------------------------
(* The refinement: every step of the queue and its thread is one of EventDelivery, *)
(* or changes nothing that it shows.                                               *)

LEMMA InitRefines == Init => Delivery!Init
BY DEF Init, Delivery!Init, callers

LEMMA StepRefines == IInv /\ IInv' /\ [Next]_vars => [Delivery!Next]_(Delivery!vars)
<1> SUFFICES ASSUME IInv, IInv', [Next]_vars PROVE [Delivery!Next]_(Delivery!vars)
  OBVIOUS
<1> USE NoneAssumption DEF IInv, TypeOK, Attachment, Idleness, CallOfGone
<1>1. ASSUME NEW t \in Thread, NEW l \in Listener, Attach(t, l)
      PROVE  Delivery!Attach(l)
  BY <1>1 DEF Attach, Free, Delivery!Attach, Delivery!For
<1>2. ASSUME NEW t \in Thread, NEW l \in Listener, Dispatch(t, l)
      PROVE  Delivery!Post(l) \/ UNCHANGED Delivery!vars
  BY <1>2 DEF Dispatch, Pushed, Delivery!Post, Delivery!vars, callers
<1>3. ASSUME NEW t \in Thread, NEW l \in Listener, RemoveListener(t, l)
      PROVE  Delivery!Removed(l) \/ Delivery!Drop(l)
  BY <1>3 DEF RemoveListener, WaitIdle, WithoutListener, Delivery!Removed, Delivery!Drop, Delivery!For
<1>4. ASSUME NEW t \in Thread, RemoverAwake(t)
      PROVE  \/ removing[t] \in Listener /\ Delivery!Removed(removing[t])
             \/ UNCHANGED Delivery!vars
  BY <1>4 DEF RemoverAwake, WaitIdle, Delivery!Removed, Delivery!For, Delivery!vars
<1>5. ASSUME NEW l \in Listener, CallbackRemoves(l) PROVE Delivery!RemovedInCall(l)
  BY <1>5 DEF CallbackRemoves, WithoutListener, Delivery!RemovedInCall, Delivery!For
<1>6. CASE LoopTurn
  <2>1. CASE GoIdle
    BY <1>6, <2>1 DEF LoopTurn, GoIdle, Delivery!vars
  <2>2. CASE CallFirst
    BY <1>6, <2>2 DEF LoopTurn, CallFirst, IsFirst, Element, Delivery!Call, Delivery!Next
  <2> QED BY <1>6, <2>1, <2>2 DEF LoopTurn
<1>7. CASE CallbackReturns
  BY <1>7 DEF CallbackReturns, callers, Delivery!Return, Delivery!Next
<1>8. CASE SpuriousWake
  BY <1>8 DEF SpuriousWake, Delivery!vars
<1>9. ASSUME NEW t \in Thread, Fini(t) PROVE Delivery!Release
  BY <1>9 DEF Fini, callers, Delivery!Release
<1>10. CASE CallbackFini
  BY <1>10 DEF CallbackFini, callers, Delivery!vars
<1>11. CASE UNCHANGED vars
  BY <1>11 DEF vars, callers, Delivery!vars
<1> QED
  BY <1>1, <1>2, <1>3, <1>4, <1>5, <1>6, <1>7, <1>8, <1>9, <1>10, <1>11
     DEF Next, Delivery!Next

\* The queue, its thread and their locks implement the delivery that is promised: one
\* call at a time, in the order of dispatch, none after a removal.
THEOREM Refinement == Spec => Implements
<1>1. IInv /\ [Next]_vars => IInv'
  BY StepIInv
<1> QED BY <1>1, Inductive, InitRefines, StepRefines, PTL DEF Spec, Delivery!Spec, Implements
=============================================================================
