------------------------- MODULE ThreadCancel_proof -------------------------
(***************************************************************************)
(* For any set of workers and whatever calls they make: the state keeps    *)
(* its type; as long as nobody is cancelled in vlc_cond_wait, cancellation *)
(* unlocks no mutex that the cancelled thread does not hold; and a section *)
(* protected by vlc_savecancel is never cut short.                         *)
(***************************************************************************)
EXTENDS ThreadCancel, TLAPS

ExitRecord == [place : Places \cup {"none", "testcancel"}, protected : BOOLEAN, owned : BOOLEAN]

\* The places where a worker has the mutex.
Holding == {"locked", "guarded", "popped", "disabled", "published", "returned", "cleared"}

\* A worker has the mutex where it believes so, and cancellation is disabled as
\* long as a timed wait may have given it up.
Protected ==
  \A w \in Worker :
    /\ pc[w] \in Holding => owner = w
    /\ pc[w] \in InTimedWait => state[w] = "disable"

\* Nobody was cancelled in vlc_cond_wait.
NoneInWait == \A w \in Worker : last[w].place \notin InWait

\* An exit is recorded once: a worker exits but once.
Recorded == \A w \in Worker : pc[w] # "exited" => last[w].place = "none"

\* The first exit in vlc_cond_wait ends what is promised, and none does before it.
IInv ==
  /\ TypeOK /\ Recorded
  /\ NoneInWait => Protected /\ CleanupOwnsMutex

-----------------------------------------------------------------------------
(* The type of the state. *)

\* What pthread_exit does in any place.
LEMMA ExitEffect ==
  ASSUME TypeOK, NEW w \in Worker, NEW protected \in BOOLEAN,
         NEW place \in {pc[w], "testcancel"}, Exit(w, place, protected)
  PROVE  /\ pc' = [pc EXCEPT ![w] = "exited"] /\ pc' \in [Worker -> Places]
         /\ last' = [last EXCEPT ![w] = [place |-> place, protected |-> protected,
                                         owned |-> owner = w]]
         /\ last' \in [Worker -> ExitRecord]
         /\ owner' \in {owner, None} /\ (owner' # owner => pc[w] \in Guarded)
<1>1. [place |-> place, protected |-> protected, owned |-> owner = w] \in ExitRecord
  <2>1. (owner = w) \in BOOLEAN /\ pc[w] \in Places
    BY DEF TypeOK
  <2>. QED  BY <2>1 DEF ExitRecord
<1>2. last \in [Worker -> ExitRecord] /\ pc \in [Worker -> Places] /\ "exited" \in Places
  BY DEF TypeOK, ExitRecord, Places
<1>. QED  BY <1>1, <1>2 DEF Exit

\* pthread_setcancelstate exits or goes on.
LEMMA SetStateEffect ==
  ASSUME TypeOK, NEW w \in Worker, NEW new \in {"enable", "disable"}, NEW to \in Places,
         NEW b \in BOOLEAN, SetCancelState(w, new, to, b)
  PROVE  /\ state' = [state EXCEPT ![w] = new]
         /\ state' \in [Worker -> {"enable", "disable"}]
         /\ pc' \in [Worker -> Places] /\ last' \in [Worker -> ExitRecord]
         /\ pc'[w] \in {to, "exited"} /\ \A u \in Worker \ {w} : pc'[u] = pc[u]
         /\ owner' \in {owner, None}
<1>1. state' = [state EXCEPT ![w] = new] /\ state' \in [Worker -> {"enable", "disable"}]
  BY DEF SetCancelState, TypeOK
<1>2. CASE new = "enable" /\ cancelled[w]
  <2>1. Exit(w, pc[w], b)
    BY <1>2 DEF SetCancelState
  <2>2. pc' = [pc EXCEPT ![w] = "exited"] /\ pc \in [Worker -> Places]
    BY <2>1, ExitEffect DEF TypeOK
  <2>. QED  BY <1>1, <2>1, <2>2, ExitEffect
<1>3. CASE ~(new = "enable" /\ cancelled[w])
  <2>1. pc' = [pc EXCEPT ![w] = to] /\ UNCHANGED <<owner, last>>
    BY <1>3 DEF SetCancelState
  <2>. QED  BY <1>1, <2>1 DEF TypeOK, ExitRecord
<1>. QED  BY <1>2, <1>3

\* Where thread_cancel_handler exits at once.
LEMMA HandlerExit ==
  ASSUME NEW w \in Worker, Handler(w), pc[w] # "start", ~cond[w], state[w] = "enable"
  PROVE  \E b \in BOOLEAN : Exit(w, pc[w], b)
<1>1. Exit(w, pc[w], w \in section)
  BY DEF Handler
<1>2. (w \in section) \in BOOLEAN
  OBVIOUS
<1>. QED  BY <1>1, <1>2, Zenon

\* What waking somebody does to the place where he is.
LEMMA Waking ==
  \A p \in Places :
    /\ Woken(p) \in Places /\ (Woken(p) = "exited" <=> p = "exited")
    /\ Woken(p) \in Holding <=> p \in Holding
    /\ Woken(p) \in InTimedWait <=> p \in InTimedWait
    /\ Woken(p) \in InTimedWait \ {"disabled", "cleared"}
         <=> p \in InTimedWait \ {"disabled", "cleared"}
    /\ Woken(p) \in Guarded <=> p \in Guarded
BY DEF Woken, Places, Guarded, InTimedWait, InWait, Holding

LEMMA InitTypeOK == Init => TypeOK
BY DEF Init, TypeOK, NotExited, Places

LEMMA NextTypeOK == TypeOK /\ [Next]_vars => TypeOK'
<1>. SUFFICES ASSUME TypeOK, [Next]_vars PROVE TypeOK'
  OBVIOUS
<1>. USE DEF Goto, canc
<1>1. ASSUME NEW w \in Worker, Start(w) \/ CleanupPush(w) \/ CleanupPop(w) \/ Lock(w) \/ Unlock(w)
      PROVE  TypeOK'
  BY <1>1 DEF Start, CleanupPush, CleanupPop, Lock, Unlock, TypeOK, Places, Guarded, InTimedWait
<1>2. ASSUME NEW w \in Worker, Wait(w)
      PROVE  TypeOK'
  BY <1>2 DEF Wait, TypeOK, Places, Guarded, InTimedWait, InWait
<1>3. ASSUME NEW w \in Worker, TimedWaitEnter(w) \/ Publish(w) \/ ClearCond(w)
      PROVE  TypeOK'
  <2>1. CASE TimedWaitEnter(w)
    BY <2>1 DEF TypeOK, Places, Guarded, InTimedWait, TimedWaitEnter
  <2>2. CASE Publish(w)
    BY <2>2 DEF TypeOK, Places, Guarded, InTimedWait, Publish
  <2>3. CASE ClearCond(w)
    BY <2>3 DEF TypeOK, Places, Guarded, InTimedWait, ClearCond
  <2>. QED  BY <1>3, <2>1, <2>2, <2>3
<1>4. ASSUME NEW w \in Worker, Sleep(w) \/ Timeout(w) \/ Relock(w)
      PROVE  TypeOK'
  BY <1>4 DEF Sleep, Timeout, Relock, TypeOK, Places, Guarded, InTimedWait
<1>5. ASSUME NEW w \in Worker, TimedWaitLeave(w) \/ SaveCancel(w) \/ RestoreCancel(w)
      PROVE  TypeOK'
  <2>1. /\ pc[w] \in {"cleared", "idle"} /\ ~cond[w]
        /\ UNCHANGED <<cond, cancelled, old, sig>> /\ section' \subseteq Worker
    BY <1>5 DEF TimedWaitLeave, SaveCancel, RestoreCancel, TypeOK, InTimedWait
  <2>2. \E n \in {"enable", "disable"}, b \in BOOLEAN, to \in {"guarded", "idle"} :
          SetCancelState(w, n, to, b)
    <3>1. (w \in section) \in BOOLEAN /\ FALSE \in BOOLEAN
      OBVIOUS
    <3>2. CASE TimedWaitLeave(w)
      BY <3>1, <3>2 DEF TimedWaitLeave, TypeOK
    <3>3. CASE SaveCancel(w) \/ RestoreCancel(w)
      BY <3>1, <3>3 DEF SaveCancel, RestoreCancel
    <3>. QED  BY <1>5, <3>2, <3>3
  <2>3. {"guarded", "idle"} \subseteq Places
    BY DEF Places, Guarded
  <2>4. /\ state' \in [Worker -> {"enable", "disable"}]
        /\ pc' \in [Worker -> Places] /\ last' \in [Worker -> ExitRecord]
        /\ \A u \in Worker \ {w} : pc'[u] = pc[u]
        /\ owner' \in {owner, None}
    BY <2>2, <2>3, SetStateEffect
  <2>. QED  BY <2>1, <2>4 DEF TypeOK, ExitRecord
<1>6. ASSUME NEW w \in Worker, TestCancel(w)
      PROVE  TypeOK'
  <2>1. (w \in section) \in BOOLEAN /\ ~cond[w] /\ UNCHANGED <<cond, cancelled, old, state, sig, section>>
    BY <1>6 DEF TestCancel, TypeOK, InTimedWait
  <2>. QED  BY <1>6, <2>1, ExitEffect DEF TestCancel, TypeOK, ExitRecord
<1>7. ASSUME NEW w \in Worker, Handler(w)
      PROVE  TypeOK'
  <2>1. sig' \in [Worker -> {"none", "sent", "handled"}] /\ UNCHANGED <<state, old, section>>
    BY <1>7 DEF Handler, TypeOK
  <2>2. CASE pc[w] = "start"
    BY <1>7, <2>1, <2>2 DEF Handler, TypeOK
  <2>3. CASE pc[w] # "start" /\ cond[w]
    <3>1. /\ cancelled' = [cancelled EXCEPT ![w] = TRUE]
          /\ cond' = [cond EXCEPT ![w] = FALSE]
          /\ pc' = [u \in Worker |-> Woken(pc[u])]
          /\ UNCHANGED <<owner, last>>
      BY <1>7, <2>3 DEF Handler
    <3>2. pc' \in [Worker -> Places] /\ cond' \in [Worker -> BOOLEAN]
          /\ cancelled' \in [Worker -> BOOLEAN]
      BY <3>1, Waking DEF TypeOK
    <3>3. \A u \in Worker : cond'[u] => pc'[u] \in InTimedWait \ {"disabled", "cleared"}
      BY <3>1, Waking DEF TypeOK
    <3>4. /\ owner' \in Worker \cup {Main, None} /\ section' \subseteq Worker
          /\ last' \in [Worker -> ExitRecord]
          /\ state' \in [Worker -> {"enable", "disable"}]
          /\ old' \in [Worker -> {"enable", "disable"}]
          /\ sig' \in [Worker -> {"none", "sent", "handled"}]
      BY <2>1, <3>1 DEF TypeOK, ExitRecord
    <3>. QED  BY <3>2, <3>3, <3>4, Zenon DEF TypeOK, ExitRecord
  <2>4. CASE pc[w] # "start" /\ ~cond[w]
    <3>1. cancelled' = [cancelled EXCEPT ![w] = TRUE] /\ UNCHANGED cond
      BY <1>7, <2>4 DEF Handler
    <3>2. CASE state[w] = "enable"
      <4>1. PICK b \in BOOLEAN : Exit(w, pc[w], b)
        BY <1>7, <2>4, <3>2, HandlerExit
      <4>2. /\ pc' = [pc EXCEPT ![w] = "exited"] /\ pc' \in [Worker -> Places]
            /\ last' \in [Worker -> ExitRecord] /\ owner' \in {owner, None}
        BY <4>1, ExitEffect
      <4>3. cancelled' \in [Worker -> BOOLEAN] /\ cond' = cond
        BY <3>1 DEF TypeOK
      <4>4. \A u \in Worker : cond[u] => pc'[u] = pc[u]
        BY <2>4, <4>2 DEF TypeOK
      <4>. QED  BY <2>1, <4>2, <4>3, <4>4 DEF TypeOK, ExitRecord
    <3>3. CASE state[w] # "enable"
      <4>1. UNCHANGED <<pc, owner, last>>
        BY <1>7, <2>4, <3>3 DEF Handler
      <4>. QED  BY <2>1, <3>1, <4>1 DEF TypeOK
    <3>. QED  BY <3>2, <3>3
  <2>. QED  BY <2>2, <2>3, <2>4
<1>8. ASSUME NEW w \in Worker, Cancel(w)
      PROVE  TypeOK'
  BY <1>8 DEF Cancel, TypeOK
<1>9. CASE MainLock \/ MainUnlock
  BY <1>9 DEF MainLock, MainUnlock, TypeOK
<1>10. CASE MainSignal \/ MainBroadcast
  BY <1>10, Waking DEF MainSignal, MainBroadcast, TypeOK
<1>11. CASE UNCHANGED vars
  BY <1>11 DEF vars, TypeOK
<1>. QED
  BY <1>1, <1>2, <1>3, <1>4, <1>5, <1>6, <1>7, <1>8, <1>9, <1>10, <1>11 DEF Next, Step

-----------------------------------------------------------------------------
(* The exits. *)

\* An exit in vlc_cond_wait stays recorded.
LEMMA NextRecorded ==
  TypeOK /\ Recorded /\ [Next]_vars => Recorded' /\ (NoneInWait' => NoneInWait)
<1>. SUFFICES ASSUME TypeOK, Recorded, [Next]_vars
              PROVE  Recorded' /\ (NoneInWait' => NoneInWait)
  OBVIOUS
<1>1. ASSUME UNCHANGED last, \A u \in Worker : pc[u] = "exited" => pc'[u] = "exited"
      PROVE  Recorded' /\ (NoneInWait' => NoneInWait)
  BY <1>1 DEF Recorded, NoneInWait
<1>2. ASSUME NEW w \in Worker, NEW place \in {pc[w], "testcancel"}, NEW b \in BOOLEAN,
             pc[w] # "exited", Exit(w, place, b)
      PROVE  Recorded' /\ (NoneInWait' => NoneInWait)
  <2>1. \A u \in Worker \ {w} : pc'[u] = pc[u] /\ last'[u] = last[u]
    BY <1>2, ExitEffect DEF TypeOK
  <2>2. pc'[w] = "exited" /\ last[w].place = "none"
    BY <1>2, ExitEffect DEF TypeOK, Recorded
  <2>3. "none" \notin InWait
    BY DEF InWait
  <2>. QED  BY <2>1, <2>2, <2>3 DEF Recorded, NoneInWait
<1>. USE DEF Goto, canc
<1>3. ASSUME NEW w \in Worker,
             \/ Start(w) \/ CleanupPush(w) \/ CleanupPop(w) \/ Lock(w) \/ Unlock(w)
             \/ Wait(w) \/ TimedWaitEnter(w) \/ Publish(w) \/ ClearCond(w)
             \/ Sleep(w) \/ Timeout(w) \/ Relock(w) \/ Cancel(w)
      PROVE  Recorded' /\ (NoneInWait' => NoneInWait)
  BY <1>1, <1>3 DEF TypeOK, Start, CleanupPush, CleanupPop, Lock, Unlock, Wait, TimedWaitEnter,
                    Publish, ClearCond, Sleep, Timeout, Relock, Cancel
<1>4. ASSUME NEW w \in Worker, TimedWaitLeave(w) \/ SaveCancel(w) \/ RestoreCancel(w)
      PROVE  Recorded' /\ (NoneInWait' => NoneInWait)
  <2>1. pc[w] # "exited"
    BY <1>4 DEF TimedWaitLeave, SaveCancel, RestoreCancel
  <2>2. \/ \E b \in BOOLEAN : Exit(w, pc[w], b)
        \/ UNCHANGED last /\ \E to : pc' = [pc EXCEPT ![w] = to]
    <3>1. (w \in section) \in BOOLEAN /\ FALSE \in BOOLEAN
      OBVIOUS
    <3>2. CASE TimedWaitLeave(w)
      BY <3>1, <3>2, Zenon DEF TimedWaitLeave, SetCancelState
    <3>3. CASE SaveCancel(w) \/ RestoreCancel(w)
      BY <3>1, <3>3, Zenon DEF SaveCancel, RestoreCancel, SetCancelState
    <3>. QED  BY <1>4, <3>2, <3>3
  <2>. QED  BY <1>1, <1>2, <2>1, <2>2 DEF TypeOK
<1>5. ASSUME NEW w \in Worker, TestCancel(w)
      PROVE  Recorded' /\ (NoneInWait' => NoneInWait)
  <2>1. (w \in section) \in BOOLEAN
    OBVIOUS
  <2>. QED  BY <1>2, <1>5, <2>1 DEF TestCancel
<1>6. ASSUME NEW w \in Worker, Handler(w)
      PROVE  Recorded' /\ (NoneInWait' => NoneInWait)
  <2>1. pc[w] # "exited"
    BY <1>6 DEF Handler
  <2>2. CASE pc[w] # "start" /\ ~cond[w] /\ state[w] = "enable"
    BY <1>2, <1>6, <2>1, <2>2, HandlerExit
  <2>3. CASE ~(pc[w] # "start" /\ ~cond[w] /\ state[w] = "enable")
    <3>1. UNCHANGED last /\ (pc' = pc \/ pc' = [u \in Worker |-> Woken(pc[u])])
      BY <1>6, <2>3 DEF Handler
    <3>. QED  BY <1>1, <3>1, Waking DEF TypeOK
  <2>. QED  BY <2>2, <2>3
<1>7. CASE MainLock \/ MainUnlock \/ MainSignal \/ MainBroadcast
  BY <1>1, <1>7, Waking DEF MainLock, MainUnlock, MainSignal, MainBroadcast, TypeOK
<1>8. CASE UNCHANGED vars
  BY <1>1, <1>8 DEF vars
<1>. QED  BY <1>3, <1>4, <1>5, <1>6, <1>7, <1>8 DEF Next, Step

-----------------------------------------------------------------------------
(* The mutex. *)

\* A step that is no exit only has to keep the mutex where the workers believe it is.
LEMMA QuietStep ==
  ASSUME Protected', CleanupOwnsMutex, UNCHANGED last
  PROVE  Protected' /\ CleanupOwnsMutex'
BY DEF CleanupOwnsMutex

\* A worker that exits at a place where its cleanup handler is registered has the mutex.
LEMMA ExitStep ==
  ASSUME TypeOK, Protected, CleanupOwnsMutex, NoneInWait', NEW w \in Worker,
         NEW b \in BOOLEAN, NEW place \in {pc[w], "testcancel"}, Exit(w, place, b),
         place = "testcancel" => pc[w] \notin Guarded,
         pc[w] \in InTimedWait => pc[w] = "cleared",
         \A u \in Worker \ {w} : state'[u] = state[u]
  PROVE  Protected' /\ CleanupOwnsMutex'
<1>1. /\ pc' = [pc EXCEPT ![w] = "exited"]
      /\ last' = [last EXCEPT ![w] = [place |-> place, protected |-> b, owned |-> owner = w]]
      /\ owner' \in {owner, None} /\ (owner' # owner => pc[w] \in Guarded)
  BY ExitEffect
<1>2. last'[w].place = place /\ place \notin InWait
  BY <1>1 DEF TypeOK, NoneInWait
<1>3. pc[w] \in Guarded => pc[w] \in Holding \/ place = "testcancel"
  BY <1>2 DEF Guarded, Holding
<1>4. pc[w] \in Guarded => owner = w
  BY <1>3 DEF Protected
<1>5. Protected'
  BY <1>1, <1>4 DEF TypeOK, Protected, Holding, InTimedWait
<1>6. CleanupOwnsMutex'
  <2>1. place \in Guarded => owner = w
    BY <1>4 DEF Guarded, InTimedWait, InWait
  <2>2. \A u \in Worker \ {w} : last'[u] = last[u]
    BY <1>1 DEF TypeOK
  <2>3. last'[w].place = place /\ last'[w].owned = (owner = w)
    BY <1>1 DEF TypeOK
  <2>. QED  BY <2>1, <2>2, <2>3 DEF CleanupOwnsMutex
<1>. QED  BY <1>5, <1>6

LEMMA NextProtected ==
  ASSUME TypeOK, Protected, CleanupOwnsMutex, NoneInWait', [Next]_vars
  PROVE  Protected' /\ CleanupOwnsMutex'
<1>. USE DEF Goto, canc
<1>1. ASSUME NEW w \in Worker, Start(w) \/ CleanupPush(w) \/ CleanupPop(w)
      PROVE  Protected' /\ CleanupOwnsMutex'
  BY <1>1, QuietStep DEF Start, CleanupPush, CleanupPop, TypeOK, Protected, Holding, InTimedWait
<1>2. ASSUME NEW w \in Worker, Lock(w) \/ Unlock(w) \/ Wait(w) \/ Sleep(w) \/ Relock(w)
      PROVE  Protected' /\ CleanupOwnsMutex'
  BY <1>2, ThreadAssumption, QuietStep
  DEF Lock, Unlock, Wait, Sleep, Relock, TypeOK, Protected, Holding, InTimedWait
<1>3. ASSUME NEW w \in Worker, TimedWaitEnter(w) \/ Publish(w) \/ Timeout(w) \/ ClearCond(w)
      PROVE  Protected' /\ CleanupOwnsMutex'
  BY <1>3, QuietStep
  DEF TimedWaitEnter, Publish, Timeout, ClearCond, TypeOK, Protected, Holding, InTimedWait
<1>4. ASSUME NEW w \in Worker, TimedWaitLeave(w) \/ SaveCancel(w) \/ RestoreCancel(w)
      PROVE  Protected' /\ CleanupOwnsMutex'
  <2>1. pc[w] \in {"cleared", "idle"} /\ \A u \in Worker \ {w} : state'[u] = state[u]
    BY <1>4 DEF TimedWaitLeave, SaveCancel, RestoreCancel, SetCancelState, TypeOK
  <2>2. \/ \E b \in BOOLEAN : Exit(w, pc[w], b)
        \/ /\ UNCHANGED <<last, owner>>
           /\ \/ pc[w] = "cleared" /\ pc' = [pc EXCEPT ![w] = "guarded"]
              \/ pc[w] = "idle" /\ pc' = [pc EXCEPT ![w] = "idle"]
    <3>1. (w \in section) \in BOOLEAN /\ FALSE \in BOOLEAN
      OBVIOUS
    <3>2. CASE TimedWaitLeave(w)
      BY <3>1, <3>2, Zenon DEF TimedWaitLeave, SetCancelState
    <3>3. CASE SaveCancel(w) \/ RestoreCancel(w)
      BY <3>1, <3>3, Zenon DEF SaveCancel, RestoreCancel, SetCancelState
    <3>. QED  BY <1>4, <3>2, <3>3
  <2>3. CASE \E b \in BOOLEAN : Exit(w, pc[w], b)
    BY <2>1, <2>3, ExitStep DEF InTimedWait
  <2>4. CASE /\ UNCHANGED <<last, owner>>
             /\ \/ pc[w] = "cleared" /\ pc' = [pc EXCEPT ![w] = "guarded"]
                \/ pc[w] = "idle" /\ pc' = [pc EXCEPT ![w] = "idle"]
    BY <2>1, <2>4, QuietStep DEF TypeOK, Protected, Holding, InTimedWait
  <2>. QED  BY <2>2, <2>3, <2>4
<1>5. ASSUME NEW w \in Worker, TestCancel(w)
      PROVE  Protected' /\ CleanupOwnsMutex'
  <2>1. /\ pc[w] = "idle" /\ UNCHANGED state
        /\ pc[w] \notin Guarded /\ pc[w] \notin InTimedWait
    BY <1>5 DEF TestCancel, Guarded, InTimedWait, InWait
  <2>2. PICK b \in BOOLEAN : Exit(w, "testcancel", b)
    <3>1. (w \in section) \in BOOLEAN
      OBVIOUS
    <3>. QED  BY <1>5, <3>1, Zenon DEF TestCancel
  <2>. QED  BY <2>1, <2>2, ExitStep
<1>6. ASSUME NEW w \in Worker, Handler(w)
      PROVE  Protected' /\ CleanupOwnsMutex'
  <2>1. UNCHANGED state
    BY <1>6 DEF Handler
  <2>2. CASE pc[w] # "start" /\ ~cond[w] /\ state[w] = "enable"
    <3>1. pc[w] \notin InTimedWait /\ pc[w] # "testcancel"
      BY <2>2 DEF Protected, TypeOK, Places, Guarded, InTimedWait, InWait
    <3>. QED  BY <1>6, <2>1, <2>2, <3>1, HandlerExit, ExitStep
  <2>3. CASE ~(pc[w] # "start" /\ ~cond[w] /\ state[w] = "enable")
    <3>1. UNCHANGED <<last, owner>> /\ (pc' = pc \/ pc' = [u \in Worker |-> Woken(pc[u])])
      BY <1>6, <2>3 DEF Handler
    <3>2. Protected'
      BY <2>1, <3>1, Waking DEF TypeOK, Protected
    <3>. QED  BY <3>1, <3>2, QuietStep
  <2>. QED  BY <2>2, <2>3
<1>7. ASSUME NEW w \in Worker, Cancel(w)
      PROVE  Protected' /\ CleanupOwnsMutex'
  BY <1>7, QuietStep DEF Cancel, Protected
<1>8. CASE MainLock \/ MainUnlock
  BY <1>8, ThreadAssumption, QuietStep DEF MainLock, MainUnlock, Protected
<1>9. CASE MainSignal \/ MainBroadcast
  <2>1. \A u \in Worker : pc'[u] = pc[u] \/ pc'[u] = Woken(pc[u])
    BY <1>9 DEF MainSignal, MainBroadcast, TypeOK
  <2>2. UNCHANGED <<state, owner, last>>
    BY <1>9 DEF MainSignal, MainBroadcast
  <2>3. Protected'
    BY <2>1, <2>2, Waking DEF TypeOK, Protected
  <2>. QED  BY <2>2, <2>3, QuietStep
<1>10. CASE UNCHANGED vars
  BY <1>10, QuietStep DEF vars, Protected
<1>. QED
  BY <1>1, <1>2, <1>3, <1>4, <1>5, <1>6, <1>7, <1>8, <1>9, <1>10 DEF Next, Step

LEMMA InitIInv == Init => IInv
<1>. SUFFICES ASSUME Init PROVE IInv
  OBVIOUS
<1>1. Recorded
  BY DEF Init, Recorded, NotExited
<1>2. Protected
  BY DEF Init, Protected, Holding, InTimedWait
<1>3. CleanupOwnsMutex
  BY DEF Init, NotExited, CleanupOwnsMutex, Guarded, InWait, InTimedWait
<1>. QED  BY <1>1, <1>2, <1>3, InitTypeOK DEF IInv

LEMMA NextIInv == IInv /\ [Next]_vars => IInv'
BY NextTypeOK, NextRecorded, NextProtected DEF IInv

-----------------------------------------------------------------------------
\* The state keeps its type; a condition is published only inside a timed wait.
THEOREM Typed == Spec => []TypeOK
BY InitTypeOK, NextTypeOK, PTL DEF Spec

\* As long as nobody is cancelled in vlc_cond_wait, every cancelled thread runs its cleanup
\* handler with the mutex locked, as the comment on both waits promises.
THEOREM CleanupIsSound == Spec => []TimedCleanupOwnsMutex
<1>1. IInv => TimedCleanupOwnsMutex
  BY DEF IInv, NoneInWait, TimedCleanupOwnsMutex
<1>. QED  BY <1>1, InitIInv, NextIInv, PTL DEF Spec

-----------------------------------------------------------------------------
\* Inside a protected section cancellation is disabled, and a timed wait that began in
\* it will leave it so.
Shielded ==
  /\ last \in [Worker -> [place : Places \cup {"none", "testcancel"},
                          protected : BOOLEAN, owned : BOOLEAN]]
  /\ pc \in [Worker -> Places] /\ state \in [Worker -> {"enable", "disable"}]
  /\ old \in [Worker -> {"enable", "disable"}] /\ section \subseteq Worker
  /\ \A w \in section : /\ state[w] = "disable"
                        /\ pc[w] \in InTimedWait => old[w] = "disable"

SInv == Shielded /\ SectionNeverCut

LEMMA ExitOutside ==
  ASSUME SInv, NEW w \in Worker, NEW protected \in BOOLEAN,
         NEW place \in Places \cup {"testcancel"}, Exit(w, place, protected),
         place = "testcancel" \/ ~protected,
         state' \in [Worker -> {"enable", "disable"}], section' \subseteq section,
         \A u \in section' : state'[u] = state[u], UNCHANGED old
  PROVE  SInv'
<1>1. (owner = w) \in BOOLEAN /\ "exited" \notin InTimedWait /\ "exited" \in Places
  BY DEF InTimedWait, Places
<1>2. Shielded'
  BY <1>1 DEF SInv, Shielded, Exit
<1>. QED  BY <1>2 DEF SInv, Shielded, Exit, SectionNeverCut

\* pthread_setcancelstate at the end of a timed wait: the state comes back as it was.
LEMMA TimedWaitLeaveShields ==
  ASSUME SInv, NEW w \in Worker, TimedWaitLeave(w)
  PROVE  SInv'
<1>1. /\ pc[w] = "cleared" /\ pc[w] \in Places /\ old[w] \in {"enable", "disable"}
      /\ SetCancelState(w, old[w], "guarded", w \in section) /\ UNCHANGED <<old, section>>
      /\ (w \in section) \in BOOLEAN
  BY DEF TimedWaitLeave, SInv, Shielded
<1>2. w \in section => old[w] = "disable"
  BY <1>1 DEF SInv, Shielded, InTimedWait
<1>3. /\ state' = [state EXCEPT ![w] = old[w]]
      /\ state' \in [Worker -> {"enable", "disable"}]
      /\ \A u \in section : state'[u] = state[u]
  BY <1>1, <1>2 DEF SetCancelState, SInv, Shielded
<1>4. CASE old[w] = "enable" /\ cancelled[w]
  <2>1. w \notin section /\ Exit(w, pc[w], w \in section)
    BY <1>1, <1>2, <1>4 DEF SetCancelState
  <2>. QED  BY <1>1, <1>3, <2>1, ExitOutside
<1>5. CASE ~(old[w] = "enable" /\ cancelled[w])
  <2>1. pc' = [pc EXCEPT ![w] = "guarded"] /\ UNCHANGED last
    BY <1>1, <1>5 DEF SetCancelState
  <2>2. "guarded" \in Places /\ "guarded" \notin InTimedWait
    BY DEF Places, Guarded, InTimedWait
  <2>. QED  BY <1>1, <1>3, <2>1, <2>2 DEF SInv, Shielded, SectionNeverCut
<1>. QED  BY <1>4, <1>5

\* pthread_setcancelstate around a protected section.
LEMMA SectionShields ==
  ASSUME SInv, NEW w \in Worker, SaveCancel(w) \/ RestoreCancel(w)
  PROVE  SInv'
<1>1. pc[w] = "idle" /\ "idle" \in Places /\ "idle" \notin InTimedWait /\ UNCHANGED old
  BY DEF SaveCancel, RestoreCancel, Places, InTimedWait
<1>2. CASE SaveCancel(w)
  <2>1. /\ state' = [state EXCEPT ![w] = "disable"] /\ pc' = [pc EXCEPT ![w] = "idle"]
        /\ UNCHANGED last /\ section' = section \cup {w}
    BY <1>2 DEF SaveCancel, SetCancelState
  <2>. QED  BY <1>1, <2>1 DEF SInv, Shielded, SectionNeverCut
<1>3. CASE RestoreCancel(w)
  <2>1. state' = [state EXCEPT ![w] = "enable"] /\ section' = section \ {w}
    BY <1>3 DEF RestoreCancel, SetCancelState
  <2>2. CASE cancelled[w]
    <3>1. Exit(w, pc[w], FALSE)
      BY <1>3, <2>2 DEF RestoreCancel, SetCancelState
    <3>. QED  BY <1>1, <2>1, <3>1, ExitOutside DEF SInv, Shielded
  <2>3. CASE ~cancelled[w]
    <3>1. pc' = [pc EXCEPT ![w] = "idle"] /\ UNCHANGED last
      BY <1>3, <2>3 DEF RestoreCancel, SetCancelState
    <3>. QED  BY <1>1, <2>1, <3>1 DEF SInv, Shielded, SectionNeverCut
  <2>. QED  BY <2>2, <2>3
<1>. QED  BY <1>2, <1>3

\* The signal handler exits with cancellation enabled only, that is outside of sections.
LEMMA HandlerShields ==
  ASSUME SInv, NEW w \in Worker, Handler(w)
  PROVE  SInv'
<1>1. UNCHANGED <<state, old, section>> /\ pc[w] \in Places /\ (w \in section) \in BOOLEAN
      /\ (state[w] = "enable" => w \notin section)
      /\ state \in [Worker -> {"enable", "disable"}]
  BY DEF Handler, SInv, Shielded
<1>2. CASE pc[w] # "start" /\ ~cond[w] /\ state[w] = "enable"
  <2>1. Exit(w, pc[w], w \in section) /\ w \notin section
    BY <1>1, <1>2 DEF Handler
  <2>. QED  BY <1>1, <2>1, ExitOutside
<1>3. CASE ~(pc[w] # "start" /\ ~cond[w] /\ state[w] = "enable")
  <2>1. UNCHANGED last /\ (pc' = pc \/ pc' = [u \in Worker |-> Woken(pc[u])])
    BY <1>3 DEF Handler
  <2>2. \A u \in Worker : /\ Woken(pc[u]) \in Places
                          /\ Woken(pc[u]) \in InTimedWait <=> pc[u] \in InTimedWait
    BY DEF SInv, Shielded, Woken, Places, Guarded, InTimedWait, InWait
  <2>. QED  BY <1>1, <2>1, <2>2 DEF SInv, Shielded, SectionNeverCut
<1>. QED  BY <1>2, <1>3

\* Every other step leaves the exits and the sections alone.
LEMMA OtherShields ==
  ASSUME SInv, NEW w \in Worker,
         \/ Start(w) \/ Lock(w) \/ CleanupPush(w) \/ CleanupPop(w) \/ Unlock(w) \/ Wait(w)
         \/ TimedWaitEnter(w) \/ Publish(w) \/ Sleep(w) \/ Timeout(w) \/ Relock(w)
         \/ ClearCond(w) \/ Cancel(w)
  PROVE  SInv'
<1>. USE DEF SInv, Shielded, SectionNeverCut, Places, Guarded, InTimedWait, InWait, canc, Goto
<1>1. CASE Start(w) \/ Lock(w) \/ CleanupPush(w) \/ CleanupPop(w) \/ Unlock(w)
  BY <1>1 DEF Start, Lock, CleanupPush, CleanupPop, Unlock
<1>2. CASE Wait(w) \/ Cancel(w)
  BY <1>2 DEF Wait, Cancel
<1>3. CASE TimedWaitEnter(w)
  BY <1>3 DEF TimedWaitEnter
<1>4. CASE Publish(w) \/ ClearCond(w)
  BY <1>4 DEF Publish, ClearCond
<1>5. CASE Sleep(w) \/ Timeout(w) \/ Relock(w)
  BY <1>5 DEF Sleep, Timeout, Relock
<1>. QED  BY <1>1, <1>2, <1>3, <1>4, <1>5

LEMMA MainShields ==
  ASSUME SInv, MainLock \/ MainSignal \/ MainBroadcast \/ MainUnlock \/ UNCHANGED vars
  PROVE  SInv'
<1>1. CASE MainSignal \/ MainBroadcast
  BY <1>1 DEF MainSignal, MainBroadcast, canc, SInv, Shielded, SectionNeverCut, Woken, Places, Guarded,
     InTimedWait, InWait
<1>2. CASE MainLock \/ MainUnlock \/ UNCHANGED vars
  BY <1>2 DEF MainLock, MainUnlock, vars, canc, SInv, Shielded, SectionNeverCut
<1>. QED  BY <1>1, <1>2

\* vlc_savecancel protects the section up to vlc_restorecancel from cancellation,
\* whichever calls the workers make.
THEOREM ProtectedSection == Spec => []SectionNeverCut
<1>1. Init => SInv
  BY DEF Init, SInv, Shielded, NotExited, SectionNeverCut, Places
<1>2. ASSUME SInv, [Next]_vars
      PROVE  SInv'
  <2>1. ASSUME NEW w \in Worker, TestCancel(w)
        PROVE  SInv'
    <3>1. /\ Exit(w, "testcancel", w \in section) /\ UNCHANGED <<state, old, section>>
          /\ (w \in section) \in BOOLEAN /\ state \in [Worker -> {"enable", "disable"}]
      BY <1>2, <2>1 DEF TestCancel, canc, SInv, Shielded
    <3>. QED  BY <1>2, <3>1, ExitOutside
  <2>. QED
    BY <1>2, <2>1, TimedWaitLeaveShields, SectionShields, HandlerShields, OtherShields,
       MainShields DEF Next, Step
<1>3. SInv => SectionNeverCut
  BY DEF SInv
<1>. QED  BY <1>1, <1>2, <1>3, PTL DEF Spec

=============================================================================
