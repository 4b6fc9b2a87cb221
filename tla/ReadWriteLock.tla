---------------------------- MODULE ReadWriteLock ----------------------------
(***************************************************************************)
(* What a read/write lock promises its callers, with no word on how: a set *)
(* of read holds or one write hold, never both.  RWLock, the lock that     *)
(* src/posix/thread.c builds for Android, implements this specification.   *)
(***************************************************************************)
EXTENDS Naturals

CONSTANTS Thread,    \* the threads that share the lock
          MaxDepth   \* how often one thread may hold the lock for reading

VARIABLES reads,     \* the read holds: <<t, k>> is the k-th one of thread t
          writes     \* the threads that hold the lock for writing

vars == <<reads, writes>>

Init == reads = {} /\ writes = {}

AcquireRead(t, k) ==
  /\ writes = {}
  /\ <<t, k>> \notin reads
  /\ reads' = reads \cup {<<t, k>>}
  /\ UNCHANGED writes

AcquireWrite(t) ==
  /\ reads = {} /\ writes = {}
  /\ writes' = {t}
  /\ UNCHANGED reads

ReleaseRead(t, k) ==
  /\ <<t, k>> \in reads
  /\ reads' = reads \ {<<t, k>>}
  /\ UNCHANGED writes

ReleaseWrite(t) ==
  /\ t \in writes
  /\ writes' = writes \ {t}
  /\ UNCHANGED reads

Next == \E t \in Thread :
          \/ AcquireWrite(t) \/ ReleaseWrite(t)
          \/ \E k \in 1..MaxDepth : AcquireRead(t, k) \/ ReleaseRead(t, k)

Spec == Init /\ [][Next]_vars
=============================================================================
