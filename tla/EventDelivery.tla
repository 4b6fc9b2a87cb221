---------------------------- MODULE EventDelivery ----------------------------
(***************************************************************************)
(* What asynchronous listeners are promised, with no word on the thread,   *)
(* its locks and its sleeps: events are heard one at a time, in the order  *)
(* of their dispatch, and a listener whose removal is over hears nothing   *)
(* until it is attached again.  EventAsync implements this specification.  *)
(***************************************************************************)
EXTENDS Naturals

CONSTANTS Listener,
          MaxQueue    \* bound on the events dispatched while one is always pending

VARIABLES pending,    \* the events on their way, numbered in the order of dispatch
          calling,    \* the listeners that are being called
          gone        \* the listeners whose removal is over

vars == <<pending, calling, gone>>

Init == pending = {} /\ calling = {} /\ gone = {}

For(l) == {e \in pending : e.to = l}

Attach(l) ==
  /\ For(l) = {} /\ l \notin calling
  /\ gone' = gone \ {l}
  /\ UNCHANGED <<pending, calling>>

Post(l) ==
  /\ l \notin gone
  /\ \E n \in 1..MaxQueue :
       /\ \A e \in pending : e.no < n
       /\ pending' = pending \cup {[no |-> n, to |-> l]}
  /\ UNCHANGED <<calling, gone>>

Call ==
  /\ calling = {}
  /\ \E e \in pending :
       /\ \A f \in pending : e.no <= f.no
       /\ e.to \notin gone
       /\ calling' = {e.to} /\ pending' = pending \ {e}
  /\ UNCHANGED gone

Return == calling # {} /\ calling' = {} /\ UNCHANGED <<pending, gone>>

\* The removal of a listener begins: what is on its way to it is dropped.
Drop(l) == pending' = pending \ For(l) /\ UNCHANGED <<calling, gone>>

\* The removal is over, outside the calls of the listener or from within a call.
Removed(l) ==
  /\ l \notin calling
  /\ pending' = pending \ For(l) /\ gone' = gone \cup {l}
  /\ UNCHANGED calling

RemovedInCall(l) ==
  /\ calling # {}
  /\ pending' = pending \ For(l) /\ gone' = gone \cup {l}
  /\ UNCHANGED calling

\* The object that sends the events is released.
Release == pending' = {} /\ calling' = {} /\ UNCHANGED gone

Next ==
  \/ Call \/ Return \/ Release
  \/ \E l \in Listener :
       Attach(l) \/ Post(l) \/ Drop(l) \/ Removed(l) \/ RemovedInCall(l)

Spec == Init /\ [][Next]_vars
=============================================================================
