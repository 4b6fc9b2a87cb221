------------------------------- MODULE RWLock -------------------------------
(***************************************************************************)
(* vlc_rwlock of src/posix/thread.c, lines 514-588: the lock VLC builds    *)
(* from a mutex and two condition variables on Android, whose libc has no  *)
(* pthread_rwlock.                                                         *)
(*                                                                         *)
(* Every access to the three counters is made under lock->mutex, so one    *)
(* action is one stretch of code between taking that mutex (on entry, or   *)
(* on waking from vlc_cond_wait) and giving it up (on exit, or on waiting  *)
(* again).                                                                 *)
(***************************************************************************)
EXTENDS Naturals, FiniteSets

CONSTANTS Thread,    \* the threads that share the lock
          MaxDepth,  \* bound: how often one thread reads recursively
          ULongMax   \* ULONG_MAX, the largest value of a counter

ASSUME ThreadAssumption == IsFiniteSet(Thread)
ASSUME DepthAssumption == MaxDepth \in Nat \ {0}
ASSUME WidthAssumption == ULongMax \in Nat \ {0}

VARIABLES
  readers,    \* lock->readers: active read holds
  writers,    \* lock->writers: threads waiting to write
  writer,     \* lock->writer: 1 while a writer is active, else 0
  readWait,   \* threads blocked on lock->read_wait
  writeWait,  \* threads blocked on lock->write_wait
  pc,         \* "idle", or the call the thread is inside of
  reads,      \* read holds of the callers: <<t, k>> is the k-th one of t
  writes,     \* threads that hold the lock for writing
  aborted     \* a counter was about to overflow and the process called abort

lockVars == <<readers, writers, writer>>
condVars == <<readWait, writeWait>>
holdVars == <<reads, writes>>
vars == <<lockVars, condVars, pc, holdVars, aborted>>

Hold == Thread \X (1..MaxDepth)

\* unsigned long arithmetic: it wraps around
Inc(n) == (n + 1) % (ULongMax + 1)

\* vlc_rwlock_init
Init ==
  /\ readers = 0 /\ writers = 0 /\ writer = 0
  /\ readWait = {} /\ writeWait = {}
  /\ pc = [t \in Thread |-> "idle"]
  /\ reads = {} /\ writes = {}
  /\ aborted = FALSE

\* t has no lock for writing; <<t, k>> is its next read hold.
NextHold(t, k) ==
  /\ <<t, k>> \notin reads
  /\ \A j \in 1..(k - 1) : <<t, j>> \in reads

-----------------------------------------------------------------------------
Abort ==
  /\ aborted' = TRUE
  /\ UNCHANGED <<lockVars, condVars, pc, holdVars>>

\* Mutants of TryRead: readers also wait for waiting writers, which a recursive
\* reader cannot survive; the overflow of the counter goes unnoticed.
TryReadFair(t) ==
  \/ /\ writer # 0 \/ writers > 0
     /\ readWait' = readWait \cup {t}
     /\ pc' = [pc EXCEPT ![t] = "rdlock"]
     /\ UNCHANGED <<lockVars, writeWait, holdVars, aborted>>
  \/ /\ writer = 0 /\ writers = 0 /\ readers # ULongMax
     /\ readers' = Inc(readers)
     /\ \E k \in 1..MaxDepth : NextHold(t, k) /\ reads' = reads \cup {<<t, k>>}
     /\ pc' = [pc EXCEPT ![t] = "idle"]
     /\ UNCHANGED <<writers, writer, condVars, writes, aborted>>

TryReadUnbounded(t) ==
  \/ /\ writer # 0
     /\ readWait' = readWait \cup {t}
     /\ pc' = [pc EXCEPT ![t] = "rdlock"]
     /\ UNCHANGED <<lockVars, writeWait, holdVars, aborted>>
  \/ /\ writer = 0
     /\ readers' = Inc(readers)
     /\ \E k \in 1..MaxDepth : NextHold(t, k) /\ reads' = reads \cup {<<t, k>>}
     /\ pc' = [pc EXCEPT ![t] = "idle"]
     /\ UNCHANGED <<writers, writer, condVars, writes, aborted>>

\* One turn of the loop of vlc_rwlock_rdlock.
TryRead(t) ==
  \/ /\ writer # 0
     /\ readWait' = readWait \cup {t}
     /\ pc' = [pc EXCEPT ![t] = "rdlock"]
     /\ UNCHANGED <<lockVars, writeWait, holdVars, aborted>>
  \/ /\ writer = 0 /\ readers = ULongMax
     /\ Abort
  \/ /\ writer = 0 /\ readers # ULongMax
     /\ readers' = Inc(readers)
     /\ \E k \in 1..MaxDepth : NextHold(t, k) /\ reads' = reads \cup {<<t, k>>}
     /\ pc' = [pc EXCEPT ![t] = "idle"]
     /\ UNCHANGED <<writers, writer, condVars, writes, aborted>>

RdLock(t) ==
  /\ ~aborted /\ pc[t] = "idle"
  /\ t \notin writes /\ <<t, MaxDepth>> \notin reads
  /\ TryRead(t)

\* vlc_cond_wait(&lock->read_wait) returns and the loop goes on.
ReadAwake(t) ==
  /\ ~aborted /\ pc[t] = "rdlock" /\ t \notin readWait
  /\ TryRead(t)

\* Mutant of TryWrite: a writer only waits for the other writers.
TryWriteOverReaders(t, w) ==
  \/ /\ writer # 0
     /\ writeWait' = writeWait \cup {t}
     /\ writers' = w
     /\ pc' = [pc EXCEPT ![t] = "wrlock"]
     /\ UNCHANGED <<readers, writer, readWait, holdVars, aborted>>
  \/ /\ writer = 0
     /\ writers' = w - 1
     /\ writer' = 1
     /\ writes' = writes \cup {t}
     /\ pc' = [pc EXCEPT ![t] = "idle"]
     /\ UNCHANGED <<readers, condVars, reads, aborted>>

\* One turn of the loop of vlc_rwlock_wrlock, when w writers are counted.
TryWrite(t, w) ==
  \/ /\ readers > 0 \/ writer # 0
     /\ writeWait' = writeWait \cup {t}
     /\ writers' = w
     /\ pc' = [pc EXCEPT ![t] = "wrlock"]
     /\ UNCHANGED <<readers, writer, readWait, holdVars, aborted>>
  \/ /\ readers = 0 /\ writer = 0
     /\ writers' = w - 1
     /\ writer' = 1
     /\ writes' = writes \cup {t}
     /\ pc' = [pc EXCEPT ![t] = "idle"]
     /\ UNCHANGED <<readers, condVars, reads, aborted>>

\* Recursion is not allowed: a caller holds nothing when it asks to write.
WrLock(t) ==
  /\ ~aborted /\ pc[t] = "idle"
  /\ t \notin writes /\ <<t, 1>> \notin reads
  /\ IF writers = ULongMax THEN Abort ELSE TryWrite(t, Inc(writers))

WriteAwake(t) ==
  /\ ~aborted /\ pc[t] = "wrlock" /\ t \notin writeWait
  /\ TryWrite(t, writers)

\* A condition variable may also wake a waiter that nobody signalled.
SpuriousWake(t) ==
  /\ ~aborted /\ t \in readWait \cup writeWait
  /\ readWait' = readWait \ {t}
  /\ writeWait' = writeWait \ {t}
  /\ UNCHANGED <<lockVars, pc, holdVars, aborted>>

\* vlc_cond_signal: some waiter, if there is one, is woken.
SignalWriter ==
  IF writeWait = {} THEN UNCHANGED writeWait
  ELSE \E w \in writeWait : writeWait' = writeWait \ {w}

\* Mutants of WakeNext: no writer is signalled; no reader is woken; only one
\* of the waiting readers is woken.
WakeReadersOnly(left) ==
  IF writers > 0 THEN UNCHANGED condVars
  ELSE readWait' = {} /\ UNCHANGED writeWait

WakeWritersOnly(left) ==
  /\ IF writers > 0 /\ left = 0 THEN SignalWriter ELSE UNCHANGED writeWait
  /\ UNCHANGED readWait

WakeOneReader(left) ==
  IF writers > 0
  THEN /\ IF left = 0 THEN SignalWriter ELSE UNCHANGED writeWait
       /\ UNCHANGED readWait
  ELSE /\ IF readWait = {} THEN UNCHANGED readWait
          ELSE \E r \in readWait : readWait' = readWait \ {r}
       /\ UNCHANGED writeWait

\* The second half of vlc_rwlock_unlock: who is woken, given the readers left.
WakeNext(left) ==
  IF writers > 0
  THEN /\ IF left = 0 THEN SignalWriter ELSE UNCHANGED writeWait
       /\ UNCHANGED readWait
  ELSE readWait' = {} /\ UNCHANGED writeWait

\* vlc_rwlock_unlock drops a read hold whenever there is one: the call does not
\* say which kind of hold the caller has.
DropCount ==
  IF readers > 0
  THEN readers' = readers - 1 /\ UNCHANGED writer
  ELSE writer' = 0 /\ UNCHANGED readers

UnlockRead(t) ==
  /\ ~aborted /\ pc[t] = "idle"
  /\ \E k \in 1..MaxDepth :
       /\ <<t, k>> \in reads /\ <<t, k + 1>> \notin reads
       /\ reads' = reads \ {<<t, k>>}
  /\ DropCount
  /\ WakeNext(readers')
  /\ UNCHANGED <<writers, pc, writes, aborted>>

UnlockWrite(t) ==
  /\ ~aborted /\ pc[t] = "idle" /\ t \in writes
  /\ writes' = writes \ {t}
  /\ DropCount
  /\ WakeNext(readers')
  /\ UNCHANGED <<writers, pc, reads, aborted>>

Unlock(t) == UnlockRead(t) \/ UnlockWrite(t)
Call(t) == RdLock(t) \/ WrLock(t)
Awake(t) == ReadAwake(t) \/ WriteAwake(t)

Next == \E t \in Thread : Call(t) \/ Awake(t) \/ Unlock(t) \/ SpuriousWake(t)

Spec == Init /\ [][Next]_vars

\* A woken thread is scheduled, and a caller gives back what it holds.
Fairness == \A t \in Thread : WF_vars(Awake(t)) /\ WF_vars(Unlock(t))

FairSpec == Spec /\ Fairness

-----------------------------------------------------------------------------
\* Type of the state; both condition queues hold threads inside the matching
\* call only (vlc_rwlock_rdlock and vlc_rwlock_wrlock).
TypeOK ==
  /\ readers \in 0..ULongMax /\ writers \in 0..ULongMax /\ writer \in {0, 1}
  /\ readWait \subseteq {t \in Thread : pc[t] = "rdlock"}
  /\ writeWait \subseteq {t \in Thread : pc[t] = "wrlock"}
  /\ pc \in [Thread -> {"idle", "rdlock", "wrlock"}]
  /\ reads \subseteq Hold /\ writes \subseteq Thread
  /\ aborted \in BOOLEAN

\* The lock excludes: one writer and no reader, or any number of readers, though
\* vlc_rwlock_unlock has to guess the kind of hold its caller gives back and
\* the counters have a width.
Exclusive ==
  /\ \A t, u \in writes : t = u
  /\ writes # {} => reads = {}

\* No wake-up of a reader is lost: whoever sleeps on read_wait has a writer,
\* active or waiting, whose unlock will broadcast.
NoReaderForgotten == readWait # {} => writer # 0 \/ writers > 0

\* No wake-up of a writer is lost: when the lock is free and writers wait, one of
\* them is already on its way, even if a reader took the lock in between.
NoWriterForgotten ==
  readers = 0 /\ writer = 0 /\ writers > 0 =>
    \E t \in Thread \ writeWait : pc[t] = "wrlock"

\* "Acquires a read/write lock for reading. Recursion is allowed": a thread that
\* already reads is never made to wait in vlc_rwlock_rdlock, though a writer may
\* be waiting.
RecursionNeverBlocks ==
  \A t \in Thread : <<t, 1>> \in reads => pc[t] # "rdlock"

\* Once callers stop asking for the lock, every call already made returns.
Drains ==
  <>[][\A t \in Thread : ~Call(t)]_vars => <>[](\A t \in Thread : pc[t] = "idle")

\* The lock implements the abstract one, the holds of the callers being the same.
Promise == INSTANCE ReadWriteLock WITH reads <- reads, writes <- writes
Implements == Promise!Spec

=============================================================================
