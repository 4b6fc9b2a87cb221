---------------------------- MODULE RWLock_proof ----------------------------
(***************************************************************************)
(* The read/write lock of src/posix/thread.c excludes, forgets no waiter,  *)
(* allows recursive reading and implements ReadWriteLock, for every finite *)
(* set of threads, every recursion depth and every width of its counters.  *)
(***************************************************************************)
EXTENDS RWLock, FiniteSetTheorems, TLAPS

\* The threads that lock->writers counts.
Queued == {t \in Thread : pc[t] = "wrlock"}

\* The counters say what the callers hold: this is what makes the guess of
\* vlc_rwlock_unlock right.
Counted ==
  /\ readers = Cardinality(reads)
  /\ writer = 0 <=> writes = {}
  /\ writers = Cardinality(Queued)

IInv ==
  /\ TypeOK /\ Exclusive /\ Counted
  /\ NoReaderForgotten /\ NoWriterForgotten /\ RecursionNeverBlocks

\* Counting one more does not wrap around below ULONG_MAX.
LEMMA IncIsSucc ==
  ASSUME NEW n \in 0..ULongMax, n # ULongMax
  PROVE  Inc(n) = n + 1 /\ Inc(n) \in 0..ULongMax
BY WidthAssumption DEF Inc

\* The holds and the threads in vlc_rwlock_wrlock are finite sets.
LEMMA Finite ==
  ASSUME TypeOK
  PROVE  IsFiniteSet(reads) /\ IsFiniteSet(Queued)
<1>1. IsFiniteSet(1..MaxDepth)
  BY FS_Interval, DepthAssumption
<1>2. IsFiniteSet(Hold)
  BY <1>1, FS_Product, ThreadAssumption DEF Hold
<1>3. reads \in SUBSET Hold /\ Queued \in SUBSET Thread
  BY DEF TypeOK, Queued
<1>. QED  BY <1>2, <1>3, FS_Subset, ThreadAssumption

LEMMA InitIInv == Init => IInv
<1>. SUFFICES ASSUME Init PROVE IInv
  OBVIOUS
<1>1. Queued = {}
  BY DEF Init, Queued
<1>2. TypeOK
  <2>1. 0 \in 0..ULongMax
    BY WidthAssumption
  <2>2. aborted \in BOOLEAN
    BY DEF Init
  <2>3. pc \in [Thread -> {"idle", "rdlock", "wrlock"}]
    BY DEF Init
  <2>. QED  BY <2>1, <2>2, <2>3 DEF Init, TypeOK
<1>3. Counted
  BY <1>1, FS_EmptySet DEF Init, Counted
<1>. QED
  BY <1>2, <1>3 DEF Init, IInv, Exclusive, NoReaderForgotten,
                    NoWriterForgotten, RecursionNeverBlocks

\* Overflow stops the process and changes nothing else.
LEMMA AbortIInv ==
  ASSUME IInv, Abort
  PROVE  IInv'
BY DEF IInv, Abort, TypeOK, Exclusive, Counted, Queued, NoReaderForgotten,
       NoWriterForgotten, RecursionNeverBlocks, lockVars, condVars, holdVars

\* A turn of the loop of vlc_rwlock_rdlock, on entry or after a wake-up.
LEMMA TryReadIInv ==
  ASSUME IInv, NEW t \in Thread, TryRead(t), t \notin readWait \cup writeWait,
         pc[t] \in {"idle", "rdlock"}
  PROVE  IInv'
<1>. USE DEF IInv
<1>1. CASE writer # 0
  <2>1. /\ readWait' = readWait \cup {t} /\ pc' = [pc EXCEPT ![t] = "rdlock"]
        /\ UNCHANGED <<lockVars, writeWait, holdVars, aborted>>
    BY <1>1 DEF TryRead
  <2>2. reads = {} /\ Queued' = Queued
    BY <1>1, <2>1 DEF Counted, Exclusive, Queued, TypeOK
  <2>. QED
    BY <1>1, <2>1, <2>2
    DEF TypeOK, Exclusive, Counted, NoReaderForgotten, NoWriterForgotten,
        RecursionNeverBlocks, lockVars, holdVars
<1>2. CASE writer = 0 /\ readers = ULongMax
  BY <1>2, AbortIInv DEF TryRead
<1>3. CASE writer = 0 /\ readers # ULongMax
  <2>1. PICK k \in 1..MaxDepth :
              NextHold(t, k) /\ reads' = reads \cup {<<t, k>>}
    BY <1>3 DEF TryRead
  <2>2. /\ readers' = Inc(readers) /\ pc' = [pc EXCEPT ![t] = "idle"]
        /\ UNCHANGED <<writers, writer, condVars, writes, aborted>>
    BY <1>3 DEF TryRead
  <2>3. readers' = readers + 1 /\ readers' \in 0..ULongMax
    BY <1>3, <2>2, IncIsSucc DEF TypeOK
  <2>4. Cardinality(reads') = Cardinality(reads) + 1
    BY <2>1, Finite, FS_AddElement DEF NextHold
  <2>5. Queued' = Queued
    BY <2>2 DEF Queued, TypeOK
  <2>6. TypeOK'
    BY <2>1, <2>2, <2>3 DEF TypeOK, Hold, condVars
  <2>7. Exclusive' /\ Counted'
    BY <1>3, <2>2, <2>3, <2>4, <2>5 DEF Exclusive, Counted
  <2>8. NoReaderForgotten' /\ NoWriterForgotten'
    BY <2>2, <2>3 DEF NoReaderForgotten, NoWriterForgotten, TypeOK, condVars
  <2>9. RecursionNeverBlocks'
    BY <2>1, <2>2 DEF RecursionNeverBlocks, TypeOK
  <2>. QED  BY <2>6, <2>7, <2>8, <2>9
<1>. QED  BY <1>1, <1>2, <1>3

\* A turn of the loop of vlc_rwlock_wrlock, on entry (w counts the newcomer) or
\* after a wake-up.
LEMMA TryWriteIInv ==
  ASSUME IInv, NEW t \in Thread, NEW w \in 1..ULongMax, TryWrite(t, w),
         t \notin readWait \cup writeWait, pc[t] \in {"idle", "wrlock"},
         w = Cardinality(Queued \cup {t})
  PROVE  IInv'
<1>. USE DEF IInv
<1>1. CASE readers > 0 \/ writer # 0
  <2>1. /\ writeWait' = writeWait \cup {t} /\ writers' = w
        /\ pc' = [pc EXCEPT ![t] = "wrlock"]
        /\ UNCHANGED <<readers, writer, readWait, holdVars, aborted>>
    BY <1>1 DEF TryWrite, TypeOK
  <2>2. Queued' = Queued \cup {t}
    BY <2>1 DEF Queued, TypeOK
  <2>3. TypeOK'
    BY <2>1, WidthAssumption DEF TypeOK, holdVars
  <2>4. Exclusive' /\ Counted'
    BY <2>1, <2>2 DEF Exclusive, Counted, holdVars
  <2>5. NoReaderForgotten' /\ NoWriterForgotten' /\ RecursionNeverBlocks'
    BY <1>1, <2>1, WidthAssumption
    DEF NoReaderForgotten, NoWriterForgotten, RecursionNeverBlocks, TypeOK, holdVars
  <2>. QED  BY <2>3, <2>4, <2>5
<1>2. CASE readers = 0 /\ writer = 0
  <2>1. /\ writers' = w - 1 /\ writer' = 1 /\ writes' = writes \cup {t}
        /\ pc' = [pc EXCEPT ![t] = "idle"]
        /\ UNCHANGED <<readers, condVars, reads, aborted>>
    BY <1>2 DEF TryWrite
  <2>2. reads = {} /\ writes = {}
    BY <1>2, Finite, FS_EmptySet DEF Counted
  <2>3. Queued' = (Queued \cup {t}) \ {t}
    BY <2>1 DEF Queued, TypeOK
  <2>4. Cardinality(Queued') = w - 1
    <3>1. IsFiniteSet(Queued \cup {t})
      BY Finite, FS_AddElement
    <3>. QED  BY <2>3, <3>1, FS_RemoveElement
  <2>5. TypeOK'
    BY <2>1, WidthAssumption DEF TypeOK, condVars
  <2>6. Exclusive' /\ Counted'
    BY <2>1, <2>2, <2>4 DEF Exclusive, Counted
  <2>7. NoReaderForgotten' /\ NoWriterForgotten' /\ RecursionNeverBlocks'
    BY <2>1, <2>2 DEF NoReaderForgotten, NoWriterForgotten, RecursionNeverBlocks, TypeOK
  <2>. QED  BY <2>5, <2>6, <2>7
<1>. QED  BY <1>1, <1>2 DEF TypeOK

\* vlc_rwlock_unlock wakes a writer if one waits and the last reader is gone,
\* every reader if no writer waits.
LEMMA WakeNextWakes ==
  ASSUME IInv, WakeNext(readers'), readers' \in Nat, UNCHANGED <<writers, pc>>
  PROVE  /\ writeWait' \subseteq writeWait /\ readWait' \subseteq readWait
         /\ NoReaderForgotten'
         /\ NoWriterForgotten'
<1>1. CASE writers > 0
  <2>1. UNCHANGED readWait /\ writeWait' \subseteq writeWait
    BY <1>1 DEF WakeNext, SignalWriter
  <2>2. ASSUME readers' = 0
        PROVE  \E t \in Thread \ writeWait' : pc[t] = "wrlock"
    <3>1. SignalWriter
      BY <1>1, <2>2 DEF WakeNext
    <3>2. CASE writeWait = {}
      <4>1. Queued # {}
        BY <1>1, Finite, FS_EmptySet DEF IInv, Counted
      <4>. QED  BY <2>1, <3>2, <4>1 DEF Queued
    <3>3. CASE writeWait # {}
      <4>1. PICK u \in writeWait : writeWait' = writeWait \ {u}
        BY <3>1, <3>3 DEF SignalWriter
      <4>. QED  BY <4>1 DEF IInv, TypeOK
    <3>. QED  BY <3>2, <3>3
  <2>. QED
    BY <1>1, <2>1, <2>2 DEF NoReaderForgotten, NoWriterForgotten
<1>2. CASE ~(writers > 0)
  BY <1>2 DEF WakeNext, NoReaderForgotten, NoWriterForgotten
<1>. QED  BY <1>1, <1>2

LEMMA UnlockReadIInv ==
  ASSUME IInv, NEW t \in Thread, UnlockRead(t)
  PROVE  IInv'
<1>. USE DEF IInv
<1>1. PICK k \in 1..MaxDepth : /\ <<t, k>> \in reads /\ <<t, k + 1>> \notin reads
                               /\ reads' = reads \ {<<t, k>>}
  BY DEF UnlockRead
<1>2. DropCount /\ WakeNext(readers') /\ UNCHANGED <<writers, pc, writes, aborted>>
  BY DEF UnlockRead
<1>3. Cardinality(reads') = Cardinality(reads) - 1
  BY <1>1, Finite, FS_RemoveElement
<1>4. reads # {} /\ readers # 0
  BY <1>1, Finite, FS_EmptySet DEF Counted
<1>5. readers' = readers - 1 /\ readers' \in 0..ULongMax /\ UNCHANGED writer
  BY <1>2, <1>4, WidthAssumption DEF DropCount, TypeOK
<1>6. /\ writeWait' \subseteq writeWait /\ readWait' \subseteq readWait
      /\ NoReaderForgotten' /\ NoWriterForgotten'
  BY <1>2, <1>5, WakeNextWakes
<1>7. TypeOK'
  BY <1>1, <1>2, <1>5, <1>6 DEF TypeOK
<1>8. Queued' = Queued
  BY <1>2 DEF Queued
<1>9. Exclusive' /\ Counted' /\ RecursionNeverBlocks'
  BY <1>1, <1>2, <1>3, <1>5, <1>8 DEF Exclusive, Counted, RecursionNeverBlocks
<1>. QED  BY <1>6, <1>7, <1>9

\* The write unlock clears the writer because there is no reader then.
LEMMA UnlockWriteIInv ==
  ASSUME IInv, NEW t \in Thread, UnlockWrite(t)
  PROVE  IInv'
<1>. USE DEF IInv
<1>1. /\ t \in writes /\ writes' = writes \ {t}
      /\ DropCount /\ WakeNext(readers')
      /\ UNCHANGED <<writers, pc, reads, aborted>>
  BY DEF UnlockWrite
<1>2. readers = 0 /\ reads = {}
  BY <1>1, FS_EmptySet DEF Exclusive, Counted
<1>3. writer' = 0 /\ readers' = 0 /\ writes' = {}
  BY <1>1, <1>2 DEF DropCount, Exclusive
<1>4. /\ writeWait' \subseteq writeWait /\ readWait' \subseteq readWait
      /\ NoReaderForgotten' /\ NoWriterForgotten'
  BY <1>1, <1>3, WakeNextWakes
<1>5. TypeOK'
  BY <1>1, <1>3, <1>4, WidthAssumption DEF TypeOK
<1>6. Queued' = Queued
  BY <1>1 DEF Queued
<1>7. Exclusive' /\ Counted' /\ RecursionNeverBlocks'
  BY <1>1, <1>2, <1>3, <1>6 DEF Exclusive, Counted, RecursionNeverBlocks
<1>. QED  BY <1>4, <1>5, <1>7

LEMMA SpuriousWakeIInv ==
  ASSUME IInv, NEW t \in Thread, SpuriousWake(t)
  PROVE  IInv'
BY DEF SpuriousWake, IInv, TypeOK, Exclusive, Counted, Queued, NoReaderForgotten,
       NoWriterForgotten, RecursionNeverBlocks, lockVars, holdVars

LEMMA NextIInv ==
  ASSUME IInv, [Next]_vars
  PROVE  IInv'
<1>1. ASSUME NEW t \in Thread, RdLock(t)
      PROVE  IInv'
  BY <1>1, TryReadIInv DEF RdLock, IInv, TypeOK
<1>2. ASSUME NEW t \in Thread, ReadAwake(t)
      PROVE  IInv'
  BY <1>2, TryReadIInv DEF ReadAwake, IInv, TypeOK
<1>3. ASSUME NEW t \in Thread, WrLock(t)
      PROVE  IInv'
  <2>1. pc[t] = "idle" /\ t \notin readWait \cup writeWait /\ t \notin Queued
    BY <1>3 DEF WrLock, IInv, TypeOK, Queued
  <2>2. CASE writers = ULongMax
    BY <1>3, <2>2, AbortIInv DEF WrLock
  <2>3. CASE writers # ULongMax
    <3>1. Inc(writers) = writers + 1 /\ Inc(writers) \in 1..ULongMax
      BY <2>3, IncIsSucc, WidthAssumption DEF IInv, TypeOK
    <3>2. Cardinality(Queued \cup {t}) = Inc(writers)
      BY <2>1, <3>1, Finite, FS_AddElement DEF IInv, Counted
    <3>. QED  BY <1>3, <2>1, <2>3, <3>1, <3>2, TryWriteIInv DEF WrLock
  <2>. QED  BY <2>2, <2>3
<1>4. ASSUME NEW t \in Thread, WriteAwake(t)
      PROVE  IInv'
  <2>1. /\ pc[t] = "wrlock" /\ t \in Queued /\ TryWrite(t, writers)
        /\ t \notin readWait \cup writeWait
    BY <1>4 DEF WriteAwake, Queued, IInv, TypeOK
  <2>2. Queued \cup {t} = Queued
    BY <2>1
  <2>3. writers = Cardinality(Queued \cup {t}) /\ writers # 0
    BY <2>1, <2>2, Finite, FS_EmptySet DEF IInv, Counted
  <2>4. writers \in 1..ULongMax
    BY <2>3, WidthAssumption DEF IInv, TypeOK
  <2>. QED  BY <2>1, <2>3, <2>4, TryWriteIInv
<1>5. CASE UNCHANGED vars
  BY <1>5 DEF vars, lockVars, condVars, holdVars, IInv, TypeOK, Exclusive, Counted,
     Queued, NoReaderForgotten, NoWriterForgotten, RecursionNeverBlocks
<1>. QED
  BY <1>1, <1>2, <1>3, <1>4, <1>5, UnlockReadIInv, UnlockWriteIInv, SpuriousWakeIInv
  DEF Next, Call, Awake, Unlock

-----------------------------------------------------------------------------
\* The strengthened invariant holds of every execution of the lock.
THEOREM Inductive == Spec => []IInv
<1>1. Init => IInv
  BY InitIInv
<1>2. IInv /\ [Next]_vars => IInv'
  BY NextIInv
<1>. QED  BY <1>1, <1>2, PTL DEF Spec

\* The state stays typed; the counters never leave the width of unsigned long.
THEOREM Typed == Spec => []TypeOK
<1>1. IInv => TypeOK
  BY DEF IInv
<1>. QED  BY <1>1, Inductive, PTL

\* vlc_rwlock excludes: a writer shares the lock with nobody.
THEOREM MutualExclusion == Spec => []Exclusive
<1>1. IInv => Exclusive
  BY DEF IInv
<1>. QED  BY <1>1, Inductive, PTL

\* A reader sleeps on read_wait only while a writer is active or waiting.
THEOREM NoLostReader == Spec => []NoReaderForgotten
<1>1. IInv => NoReaderForgotten
  BY DEF IInv
<1>. QED  BY <1>1, Inductive, PTL

\* When the lock is free and writers wait, one of them has been woken.
THEOREM NoLostWriter == Spec => []NoWriterForgotten
<1>1. IInv => NoWriterForgotten
  BY DEF IInv
<1>. QED  BY <1>1, Inductive, PTL

\* A thread that reads already is never blocked by vlc_rwlock_rdlock.
THEOREM RecursiveReads == Spec => []RecursionNeverBlocks
<1>1. IInv => RecursionNeverBlocks
  BY DEF IInv
<1>. QED  BY <1>1, Inductive, PTL

\* A turn of the reader's loop is an abstract acquisition or changes no hold.
LEMMA TryReadRefines ==
  ASSUME IInv, NEW t \in Thread, TryRead(t)
  PROVE  [Promise!Next]_(Promise!vars)
<1>1. CASE writer # 0 \/ readers = ULongMax
  BY <1>1 DEF TryRead, Abort, holdVars, Promise!vars
<1>2. CASE writer = 0 /\ readers # ULongMax
  <2>1. PICK k \in 1..MaxDepth :
              NextHold(t, k) /\ reads' = reads \cup {<<t, k>>}
    BY <1>2 DEF TryRead
  <2>2. writes = {} /\ writes' = writes
    BY <1>2 DEF TryRead, IInv, Counted
  <2>3. Promise!AcquireRead(t, k)
    BY <2>1, <2>2 DEF NextHold, Promise!AcquireRead
  <2>. QED  BY <2>3 DEF Promise!Next
<1>. QED  BY <1>1, <1>2

\* A turn of the writer's loop is an abstract acquisition or changes no hold.
LEMMA TryWriteRefines ==
  ASSUME IInv, NEW t \in Thread, NEW w, TryWrite(t, w)
  PROVE  [Promise!Next]_(Promise!vars)
<1>1. CASE readers > 0 \/ writer # 0
  <2>1. UNCHANGED holdVars
    BY <1>1 DEF TryWrite, IInv, TypeOK
  <2>. QED  BY <2>1 DEF holdVars, Promise!vars
<1>2. CASE readers = 0 /\ writer = 0
  <2>1. reads = {} /\ writes = {}
    BY <1>2, Finite, FS_EmptySet DEF IInv, Counted
  <2>2. Promise!AcquireWrite(t)
    BY <1>2, <2>1 DEF TryWrite, Promise!AcquireWrite
  <2>. QED  BY <2>2 DEF Promise!Next
<1>. QED  BY <1>1, <1>2 DEF IInv, TypeOK

LEMMA UnlockRefines ==
  ASSUME NEW t \in Thread, Unlock(t)
  PROVE  [Promise!Next]_(Promise!vars)
<1>1. CASE UnlockRead(t)
  <2>1. PICK k \in 1..MaxDepth : <<t, k>> \in reads /\ reads' = reads \ {<<t, k>>}
    BY <1>1 DEF UnlockRead
  <2>2. Promise!ReleaseRead(t, k)
    BY <1>1, <2>1 DEF UnlockRead, Promise!ReleaseRead
  <2>. QED  BY <2>2 DEF Promise!Next
<1>2. CASE UnlockWrite(t)
  <2>1. Promise!ReleaseWrite(t)
    BY <1>2 DEF UnlockWrite, Promise!ReleaseWrite
  <2>. QED  BY <2>1 DEF Promise!Next
<1>. QED  BY <1>1, <1>2 DEF Unlock

\* The mutex, counter and condition variable protocol implements the abstract
\* read/write lock: every step acquires or releases one hold, as that lock
\* allows, or changes none.
THEOREM Refinement == Spec => Implements
<1>1. Init => Promise!Init
  BY DEF Init, Promise!Init
<1>2. ASSUME IInv, [Next]_vars
      PROVE  [Promise!Next]_(Promise!vars)
  <2>1. ASSUME NEW t \in Thread, Call(t)
        PROVE  [Promise!Next]_(Promise!vars)
    <3>1. CASE WrLock(t) /\ writers = ULongMax
      BY <3>1 DEF WrLock, Abort, holdVars, Promise!vars
    <3>2. CASE WrLock(t) /\ writers # ULongMax
      BY <3>2, <1>2, TryWriteRefines DEF WrLock
    <3>3. CASE RdLock(t)
      BY <3>3, <1>2, TryReadRefines DEF RdLock
    <3>. QED  BY <2>1, <3>1, <3>2, <3>3 DEF Call
  <2>2. ASSUME NEW t \in Thread, Awake(t)
        PROVE  [Promise!Next]_(Promise!vars)
    BY <1>2, <2>2, TryReadRefines, TryWriteRefines DEF Awake, ReadAwake, WriteAwake
  <2>3. ASSUME NEW t \in Thread, SpuriousWake(t)
        PROVE  [Promise!Next]_(Promise!vars)
    BY <2>3 DEF SpuriousWake, holdVars, Promise!vars
  <2>4. CASE UNCHANGED vars
    BY <2>4 DEF vars, holdVars, Promise!vars
  <2>. QED  BY <1>2, <2>1, <2>2, <2>3, <2>4, UnlockRefines DEF Next
<1>. QED  BY <1>1, <1>2, Inductive, PTL DEF Spec, Implements, Promise!Spec

=============================================================================
