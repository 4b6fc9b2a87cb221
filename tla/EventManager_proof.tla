--------------------------- MODULE EventManager_proof ---------------------------
(* Proofs about EventManager: what the recursive lock and the copy of the listeners *)
(* promise, for any number of threads and listeners, however deep the sends nest.   *)
EXTENDS EventManager, SequenceTheorems, WellFoundedInduction, TLAPS

\* The calls of libvlc_event_send that are going on are proper ones.
Stacks ==
  /\ listeners \in Seq(Listener)
  /\ stack \in [Thread -> Seq(Frame)]

\* The copy holds asynchronous listeners in the last place at most.
Plain(f) == \A k \in 1..(Len(f.cached) - 1) : f.cached[k] \notin Async

\* The loop is in its copy, and what it has called is the part before it.
Walks(f) ==
  /\ f.i <= Len(f.cached) /\ f.cur <= f.i + 1
  /\ f.pc = "copied" => f.i = 0 /\ f.cur = 1 /\ f.heard = <<>>
  /\ f.pc = "call" => f.i < Len(f.cached)
  /\ Plain(f) =>
       /\ f.i < Len(f.cached) => f.cur = f.i + 1
       /\ Len(f.heard) = (IF f.pc = "call" THEN f.i + 1 ELSE f.i)
       /\ \A k \in DOMAIN f.heard : f.heard[k] = f.cached[k]

\* The group is never marked as edited.
NeverEdited == removed = FALSE

AllWalk == \A t \in Thread : \A k \in DOMAIN stack[t] : Walks(stack[t][k])

IInv == Stacks /\ NeverEdited /\ AllWalk /\ CallbacksSerialised

-----------------------------------------------------------------------------
\* A set of natural numbers that is not empty has a least element.
LEMMA LeastElement ==
  ASSUME NEW S \in SUBSET Nat, S # {}
  PROVE  \E m \in S : \A n \in S : m <= n
<1>1. PICK m \in S : \A n \in S : <<n, m>> \notin OpToRel(<, Nat)
      BY WFMin, NatLessThanWellFounded, Zenon
<1>2. \A n \in S : ~(n < m)
      BY <1>1, Zenon DEF OpToRel
<1> QED
      BY <1>2

\* A function on 0..n can be defined by its value at 0 and a step from each value to the next.
LEMMA Recursion ==
  ASSUME NEW T, NEW b \in T, NEW n \in Nat, NEW G \in [1..n -> [T -> T]]
  PROVE  \E f \in [0..n -> T] : f[0] = b /\ \A k \in 1..n : f[k] = G[k][f[k - 1]]
<1> DEFINE Meets(f, m) == /\ f \in [0..m -> T] /\ f[0] = b
                          /\ \A k \in 1..m : f[k] = G[k][f[k - 1]]
           Bad == {m \in 0..n : ~\E f : Meets(f, m)}
<1>1. ASSUME NEW m \in Bad, \A j \in Bad : m <= j PROVE FALSE
  <2>1. CASE m = 0
    <3>1. Meets([k \in 0..0 |-> b], 0)
          OBVIOUS
    <3> QED
          BY <2>1, <3>1
  <2>2. CASE m # 0
    <3>1. m - 1 \in 0..n /\ m - 1 \notin Bad /\ m \in 1..n
          BY <1>1, <2>2
    <3>2. PICK f : Meets(f, m - 1)
          BY <3>1
    <3>3. /\ f \in [0..(m - 1) -> T] /\ f[0] = b
          /\ \A k \in 1..(m - 1) : f[k] = G[k][f[k - 1]]
          BY <3>2
    <3>4. m \in Nat /\ m \in 1..n /\ m \notin 0..(m - 1) /\ 0 \in 0..(m - 1) /\ m - 1 \in 0..(m - 1)
          BY <3>1
    <3> HIDE DEF Bad, Meets
    <3>5. f[m - 1] \in T
          BY <3>3, <3>4
    <3>6. G[m] \in [T -> T]
          BY <3>4
    <3>7. G[m][f[m - 1]] \in T
          BY <3>5, <3>6
    <3> DEFINE g == [k \in 0..m |-> IF k = m THEN G[m][f[m - 1]] ELSE f[k]]
    <3>8. \A k \in 0..m : g[k] = IF k = m THEN G[m][f[m - 1]] ELSE f[k]
          OBVIOUS
    <3>9. g \in [0..m -> T]
      <4>1. \A k \in 0..m : k # m => k \in 0..(m - 1)
            BY <3>4
      <4> QED
            BY <3>3, <3>7, <4>1
    <3> HIDE DEF g
    <3>10. \A k \in 1..m : g[k] = G[k][g[k - 1]]
      <4> SUFFICES ASSUME NEW k \in 1..m PROVE g[k] = G[k][g[k - 1]]
          OBVIOUS
      <4>1. k - 1 \in 0..m /\ k - 1 # m /\ k \in 0..m
            BY <3>4
      <4>2. g[k - 1] = f[k - 1]
            BY <3>8, <4>1
      <4>3. CASE k = m
            BY <3>8, <4>1, <4>2, <4>3
      <4>4. CASE k # m
        <5>1. k \in 1..(m - 1)
              BY <3>4, <4>4
        <5> QED
              BY <3>3, <3>8, <4>1, <4>2, <4>4, <5>1
      <4> QED
            BY <4>3, <4>4
    <3>11. g[0] = b
      <4>1. 0 \in 0..m /\ 0 # m
            BY <3>4
      <4> QED
            BY <3>3, <3>8, <4>1
    <3>12. Meets(g, m)
          BY <3>9, <3>10, <3>11 DEF Meets
    <3> QED
          BY <1>1, <3>12 DEF Bad
  <2> QED
      BY <2>1, <2>2
<1>2. Bad = {}
  <2>1. Bad \in SUBSET Nat
        OBVIOUS
  <2> QED
      BY <1>1, <2>1, LeastElement
<1> QED
      BY <1>2

\* What RemoveFirst leaves is a list of listeners.
LEMMA RemoveFirstType ==
  ASSUME NEW s \in Seq(Listener), NEW l
  PROVE  RemoveFirst(s, l) \in Seq(Listener)
<1> DEFINE I == {i \in 1..Len(s) : s[i] = l}
           n == SelectInSeq(s, LAMBDA v : v = l)
<1>1. Len(s) \in Nat /\ \A i \in 1..Len(s) : s[i] \in Listener
      BY LenProperties, ElementOfSeq
<1>2. CASE I = {}
      BY <1>2, Zenon DEF RemoveFirst
<1>3. CASE I # {}
  <2>0. I \in SUBSET Nat
        BY <1>1
  <2>1. PICK m \in I : \A k \in I : m <= k
        BY <2>0, <1>3, LeastElement, Zenon
  <2>2. Min(I) \in I
        BY <2>1, Zenon DEF Min
  <2>3. n = Min(I)
        BY <1>3, Zenon DEF SelectInSeq
  <2>4. n \in 1..Len(s)
        BY <2>2, <2>3
  <2> HIDE DEF n
  <2>5. SubSeq(s, 1, n - 1) \in Seq(Listener) /\ SubSeq(s, n + 1, Len(s)) \in Seq(Listener)
        BY <1>1, <2>4
  <2>6. RemoveAt(s, n) \in Seq(Listener)
        BY <2>5, ConcatProperties DEF RemoveAt
  <2>7. RemoveFirst(s, l) = RemoveAt(s, n)
        BY <1>3, Zenon DEF RemoveFirst, n
  <2> QED
        BY <2>6, <2>7
<1> QED
      BY <1>2, <1>3

\* The innermost call of a thread changes and the rest of its stack stays.
LEMMA SetTopStack ==
  ASSUME Stacks, NEW t \in Thread, stack[t] # <<>>, NEW f \in Frame, SetTop(t, f)
  PROVE  LET n == Len(stack[t])
         IN /\ stack' \in [Thread -> Seq(Frame)]
            /\ n \in Nat \ {0} /\ DOMAIN stack[t] = 1..n
            /\ Top(t) = stack[t][n] /\ Top(t) \in Frame
            /\ DOMAIN stack'[t] = 1..n /\ stack'[t][n] = f
            /\ \A k \in 1..(n - 1) : stack'[t][k] = stack[t][k]
            /\ \A u \in Thread \ {t} : stack'[u] = stack[u]
<1> DEFINE n == Len(stack[t])
           front == Front(stack[t])
<1>1. stack[t] \in Seq(Frame)
      BY DEF Stacks
<1>2. n \in Nat \ {0} /\ DOMAIN stack[t] = 1..n /\ \A k \in 1..n : stack[t][k] \in Frame
      BY <1>1, EmptySeq, LenProperties, ElementOfSeq
<1>3. /\ front \in Seq(Frame) /\ Len(front) = n - 1
      /\ \A k \in 1..(n - 1) : front[k] = stack[t][k]
      BY <1>1, <1>2 DEF Front
<1> HIDE DEF front
<1>4. /\ Append(front, f) \in Seq(Frame) /\ Len(Append(front, f)) = n
      /\ Append(front, f)[n] = f
      /\ \A k \in 1..(n - 1) : Append(front, f)[k] = stack[t][k]
      BY <1>2, <1>3
<1>5. stack' = [stack EXCEPT ![t] = Append(front, f)]
      BY DEF SetTop, front
<1>6. /\ stack' \in [Thread -> Seq(Frame)] /\ stack'[t] = Append(front, f)
      /\ \A u \in Thread \ {t} : stack'[u] = stack[u]
      BY <1>4, <1>5 DEF Stacks
<1>7. DOMAIN stack'[t] = 1..n
      BY <1>4, <1>6, LenProperties
<1> QED
      BY <1>2, <1>4, <1>6, <1>7 DEF Top, Last

\* A change of the innermost call that keeps the loop in its copy and takes the lock, if
\* it does, when nobody else has it preserves the invariant.
LEMMA SetTopIInv ==
  ASSUME IInv, NEW t \in Thread, stack[t] # <<>>, NEW f \in Frame, SetTop(t, f),
         Walks(f), removed' = FALSE, listeners' = listeners,
         Top(t).pc # "copied" \/ \A u \in Thread \ {t} : ~Sending(u)
  PROVE  IInv'
<1> DEFINE n == Len(stack[t])
<1>1. Stacks
      BY DEF IInv
<1>2. /\ stack' \in [Thread -> Seq(Frame)]
      /\ n \in Nat \ {0} /\ DOMAIN stack[t] = 1..n
      /\ Top(t) = stack[t][n]
      /\ DOMAIN stack'[t] = 1..n /\ stack'[t][n] = f
      /\ \A k \in 1..(n - 1) : stack'[t][k] = stack[t][k]
      /\ \A u \in Thread \ {t} : stack'[u] = stack[u]
      BY <1>1, SetTopStack
<1> HIDE DEF n
<1>3. Stacks' /\ NeverEdited'
      BY <1>1, <1>2 DEF Stacks, NeverEdited
<1>4. AllWalk'
  <2> SUFFICES ASSUME NEW u \in Thread, NEW k \in DOMAIN stack'[u] PROVE Walks(stack'[u][k])
      BY DEF AllWalk, Walks, Plain
  <2>1. CASE u = t /\ k = n
        BY <1>2, <2>1
  <2>2. CASE ~(u = t /\ k = n)
    <3>1. k \in DOMAIN stack[u] /\ stack'[u][k] = stack[u][k]
          BY <1>2, <2>2
    <3> QED
          BY <3>1 DEF IInv, AllWalk
  <2> QED
      BY <2>1, <2>2
<1>5. CallbacksSerialised'
  <2>1. \A u \in Thread \ {t} : Sending(u)' <=> Sending(u)
        BY <1>2 DEF Sending
  <2>2. Top(t).pc # "copied" => Sending(t)
        BY <1>2 DEF Sending
  <2> QED
        BY <2>1, <2>2 DEF CallbacksSerialised, IInv
<1> QED
      BY <1>3, <1>4, <1>5 DEF IInv

\* What is true of the innermost call.
LEMMA TopFacts ==
  ASSUME IInv, NEW t \in Thread, stack[t] # <<>>
  PROVE  /\ Top(t) \in Frame /\ Walks(Top(t))
         /\ Top(t).cached \in Seq(Listener) /\ Top(t).heard \in Seq(Listener)
         /\ Len(Top(t).cached) \in Nat /\ Top(t).i \in Nat /\ Top(t).cur \in Nat \ {0}
<1>1. stack[t] \in Seq(Frame)
      BY DEF IInv, Stacks
<1>2. Len(stack[t]) \in DOMAIN stack[t] /\ Top(t) = stack[t][Len(stack[t])]
      BY <1>1, EmptySeq, LenProperties DEF Top, Last
<1>3. Top(t) \in Frame /\ Walks(Top(t))
      BY <1>1, <1>2, LenProperties, ElementOfSeq DEF IInv, AllWalk
<1> QED
      BY <1>3, LenProperties DEF Frame

\* One more listener is in a list of those that were called.
LEMMA HeardGrows ==
  ASSUME NEW s \in Seq(Listener), NEW l \in Listener
  PROVE  /\ Append(s, l) \in Seq(Listener) /\ Len(Append(s, l)) = Len(s) + 1
         /\ Len(s) \in Nat /\ DOMAIN s = 1..Len(s) /\ DOMAIN Append(s, l) = 1..(Len(s) + 1)
         /\ Append(s, l)[Len(s) + 1] = l
         /\ \A k \in 1..Len(s) : Append(s, l)[k] = s[k]
<1>1. Append(s, l) \in Seq(Listener) /\ Len(Append(s, l)) = Len(s) + 1 /\ Len(s) \in Nat
      BY LenProperties, AppendProperties
<1> QED
      BY <1>1, LenProperties, AppendProperties

-----------------------------------------------------------------------------
LEMMA InitIInv == Init => IInv
<1> SUFFICES ASSUME Init PROVE IInv
    OBVIOUS
<1>1. Stacks /\ NeverEdited
      BY EmptySeq DEF Init, Stacks, NeverEdited
<1>2. \A t \in Thread : stack[t] = <<>> /\ DOMAIN stack[t] = {}
      BY DEF Init
<1> QED
      BY <1>1, <1>2 DEF IInv, AllWalk, CallbacksSerialised, Sending

\* A step that leaves the calls alone.
LEMMA SameStack ==
  ASSUME IInv, stack' = stack, listeners' \in Seq(Listener), removed' = FALSE
  PROVE  IInv'
BY DEF IInv, Stacks, NeverEdited, AllWalk, Walks, Plain, CallbacksSerialised, Sending

LEMMA SendIInv ==
  ASSUME IInv, NEW t \in Thread, Send(t)
  PROVE  IInv'
<1> DEFINE f == [cached |-> listeners, i |-> 0, cur |-> 1, pc |-> "copied", heard |-> <<>>]
           n == Len(stack[t])
<1>1. listeners \in Seq(Listener) /\ stack[t] \in Seq(Frame) /\ Len(listeners) \in Nat
      BY LenProperties DEF IInv, Stacks
<1>2. f \in Frame
      BY <1>1, EmptySeq DEF Frame
<1>3. Walks(f)
  <2>1. DOMAIN f.heard = {} /\ Len(f.heard) = 0
        OBVIOUS
  <2> QED
        BY <1>1, <2>1 DEF Walks
<1>4. f.pc = "copied"
      OBVIOUS
<1>5. stack' = [stack EXCEPT ![t] = Append(@, f)]
      BY DEF Send
<1> HIDE DEF f
<1>6. /\ Append(stack[t], f) \in Seq(Frame) /\ Len(Append(stack[t], f)) = n + 1
      /\ n \in Nat /\ DOMAIN stack[t] = 1..n /\ DOMAIN Append(stack[t], f) = 1..(n + 1)
      /\ Append(stack[t], f)[n + 1] = f
      /\ \A k \in 1..n : Append(stack[t], f)[k] = stack[t][k]
      BY <1>1, <1>2, LenProperties, AppendProperties
<1> HIDE DEF n
<1>7. /\ stack' \in [Thread -> Seq(Frame)] /\ stack'[t] = Append(stack[t], f)
      /\ \A u \in Thread \ {t} : stack'[u] = stack[u]
      BY <1>5, <1>6 DEF IInv, Stacks
<1>8. \A u \in Thread : \A k \in DOMAIN stack'[u] :
        \/ k \in DOMAIN stack[u] /\ stack'[u][k] = stack[u][k]
        \/ stack'[u][k] = f
      BY <1>6, <1>7
<1>9. Stacks' /\ NeverEdited'
      BY <1>1, <1>7 DEF Send, IInv, Stacks, NeverEdited
<1>10. AllWalk'
      BY <1>3, <1>8 DEF IInv, AllWalk, Walks, Plain
<1>11. \A u \in Thread : Sending(u)' => Sending(u)
      BY <1>4, <1>8 DEF Sending
<1> QED
      BY <1>9, <1>10, <1>11 DEF IInv, CallbacksSerialised

LEMMA SendLockIInv ==
  ASSUME IInv, NEW t \in Thread, SendLock(t)
  PROVE  IInv'
<1> DEFINE f == [Top(t) EXCEPT !.pc = "loop"]
<1>1. Top(t) \in Frame /\ Walks(Top(t)) /\ Top(t).pc = "copied"
      BY TopFacts DEF SendLock
<1>2. f \in Frame /\ Walks(f)
      BY <1>1 DEF Frame, Walks, Plain
<1> QED
      BY <1>2, SetTopIInv DEF SendLock

\* The loop counts a listener it has posted to.
LEMMA Counts ==
  ASSUME NEW g \in Frame, NEW h \in Seq(Listener)
  PROVE  LET f == [g EXCEPT !.i = @ + 1, !.heard = h]
         IN /\ f.cached = g.cached /\ f.i = g.i + 1 /\ f.cur = g.cur
            /\ f.pc = g.pc /\ f.heard = h /\ f \in Frame
<1>1. g.i + 1 \in Nat
      BY DEF Frame
<1> DEFINE next == g.i + 1
<1> HIDE DEF next
<1>2. [g EXCEPT !.i = next, !.heard = h] \in Frame
      BY <1>1 DEF Frame, next
<1> QED
      BY <1>1, <1>2 DEF Frame, next

\* The loop goes on after a callback.
LEMMA Advances ==
  ASSUME NEW g \in Frame
  PROVE  LET f == [g EXCEPT !.pc = "loop", !.i = @ + 1, !.cur = @ + 1]
         IN /\ f.cached = g.cached /\ f.i = g.i + 1 /\ f.cur = g.cur + 1
            /\ f.pc = "loop" /\ f.heard = g.heard /\ f \in Frame
<1> DEFINE next == g.i + 1
           cur == g.cur + 1
<1>1. next \in Nat /\ cur \in Nat \ {0}
      BY DEF Frame
<1> HIDE DEF next, cur
<1>2. [g EXCEPT !.pc = "loop", !.i = next, !.cur = cur] \in Frame
      BY <1>1 DEF Frame
<1>3. LET f == [g EXCEPT !.pc = "loop", !.i = next, !.cur = cur]
      IN /\ f.cached = g.cached /\ f.i = next /\ f.cur = cur
         /\ f.pc = "loop" /\ f.heard = g.heard
      BY DEF Frame
<1> QED
      BY <1>2, <1>3 DEF next, cur

LEMMA SendAsyncIInv ==
  ASSUME IInv, NEW t \in Thread, SendAsync(t)
  PROVE  IInv'
<1> DEFINE l == Top(t).cached[Top(t).cur]
           f == [Top(t) EXCEPT !.i = @ + 1, !.heard = Append(@, l)]
<1>1. /\ Top(t) \in Frame /\ Walks(Top(t)) /\ Top(t).pc = "loop" /\ Top(t).i < Len(Top(t).cached)
      /\ Top(t).cached \in Seq(Listener) /\ Top(t).heard \in Seq(Listener)
      /\ Len(Top(t).cached) \in Nat /\ Top(t).i \in Nat /\ Top(t).cur \in Nat \ {0}
      BY TopFacts DEF SendAsync
<1>2. Top(t).cur \in 1..Len(Top(t).cached) /\ l \in Listener /\ l \in Async
      BY <1>1, ElementOfSeq DEF SendAsync, Walks
<1>3. /\ Append(Top(t).heard, l) \in Seq(Listener)
      /\ Len(Append(Top(t).heard, l)) = Len(Top(t).heard) + 1
      /\ Len(Top(t).heard) \in Nat /\ DOMAIN Top(t).heard = 1..Len(Top(t).heard)
      /\ DOMAIN Append(Top(t).heard, l) = 1..(Len(Top(t).heard) + 1)
      /\ Append(Top(t).heard, l)[Len(Top(t).heard) + 1] = l
      /\ \A k \in 1..Len(Top(t).heard) : Append(Top(t).heard, l)[k] = Top(t).heard[k]
      BY <1>1, <1>2, HeardGrows
<1>4. /\ f.cached = Top(t).cached /\ f.i = Top(t).i + 1 /\ f.cur = Top(t).cur
      /\ f.pc = "loop" /\ f.heard = Append(Top(t).heard, l) /\ f \in Frame
      BY <1>1, <1>3, Counts
<1>5. SetTop(t, f) /\ stack[t] # <<>> /\ removed' = FALSE /\ listeners' = listeners
      BY DEF SendAsync, IInv, NeverEdited
<1> HIDE DEF f
<1>6. Plain(f) => Top(t).i + 1 = Len(Top(t).cached) /\ Top(t).cur = Top(t).i + 1
      BY <1>1, <1>2, <1>4 DEF Plain, Walks
<1>7. Plain(f) => \A k \in DOMAIN f.heard : f.heard[k] = f.cached[k]
      BY <1>1, <1>3, <1>4, <1>6 DEF Plain, Walks
<1>8. Plain(f) => Plain(Top(t))
      BY <1>4 DEF Plain
<1>9. Plain(f) => Len(f.heard) = f.i
      BY <1>1, <1>3, <1>4, <1>8 DEF Walks
<1>10. f.i <= Len(f.cached) /\ f.cur <= f.i + 1
      BY <1>1, <1>4 DEF Walks
<1>11. Plain(f) => ~(f.i < Len(f.cached))
      BY <1>1, <1>4, <1>6
<1>12. Walks(f)
      BY <1>4, <1>7, <1>9, <1>10, <1>11 DEF Walks
<1> QED
      BY <1>1, <1>4, <1>5, <1>12, SetTopIInv

LEMMA SendCallIInv ==
  ASSUME IInv, NEW t \in Thread, SendCall(t)
  PROVE  IInv'
<1> DEFINE l == Top(t).cached[Top(t).cur]
           f == [Top(t) EXCEPT !.pc = "call", !.heard = Append(@, l)]
<1>1. /\ Top(t) \in Frame /\ Walks(Top(t)) /\ Top(t).pc = "loop" /\ Top(t).i < Len(Top(t).cached)
      /\ Top(t).cached \in Seq(Listener) /\ Top(t).heard \in Seq(Listener)
      /\ Len(Top(t).cached) \in Nat /\ Top(t).i \in Nat /\ Top(t).cur \in Nat \ {0}
      BY TopFacts DEF SendCall
<1>2. Top(t).cur \in 1..Len(Top(t).cached) /\ l \in Listener
      BY <1>1, ElementOfSeq DEF Walks
<1>3. /\ Append(Top(t).heard, l) \in Seq(Listener)
      /\ Len(Append(Top(t).heard, l)) = Len(Top(t).heard) + 1
      /\ Len(Top(t).heard) \in Nat /\ DOMAIN Top(t).heard = 1..Len(Top(t).heard)
      /\ DOMAIN Append(Top(t).heard, l) = 1..(Len(Top(t).heard) + 1)
      /\ Append(Top(t).heard, l)[Len(Top(t).heard) + 1] = l
      /\ \A k \in 1..Len(Top(t).heard) : Append(Top(t).heard, l)[k] = Top(t).heard[k]
      BY <1>1, <1>2, HeardGrows
<1>4. /\ f.cached = Top(t).cached /\ f.i = Top(t).i /\ f.cur = Top(t).cur
      /\ f.pc = "call" /\ f.heard = Append(Top(t).heard, l) /\ f \in Frame
      BY <1>1, <1>3 DEF Frame
<1>5. SetTop(t, f) /\ stack[t] # <<>> /\ removed' = FALSE /\ listeners' = listeners
      BY DEF SendCall, IInv, NeverEdited
<1> HIDE DEF f
<1>6. Plain(f) => \A k \in DOMAIN f.heard : f.heard[k] = f.cached[k]
      BY <1>1, <1>3, <1>4 DEF Plain, Walks
<1>7. Walks(f)
      BY <1>1, <1>3, <1>4, <1>6 DEF Walks, Plain
<1> QED
      BY <1>1, <1>4, <1>5, <1>7, SetTopIInv

LEMMA CallReturnsIInv ==
  ASSUME IInv, NEW t \in Thread, CallReturns(t)
  PROVE  IInv'
<1> DEFINE f == [Top(t) EXCEPT !.pc = "loop", !.i = @ + 1, !.cur = @ + 1]
<1>1. stack[t] # <<>> /\ Top(t).pc = "call"
      BY LoopAssumption DEF CallReturns, InCallback
<1>2. ~Skipped(t) /\ removed' = FALSE /\ listeners' = listeners
      BY DEF CallReturns, Skipped, IInv, NeverEdited
<1>3. SetTop(t, f)
      BY <1>2 DEF CallReturns
<1>4. /\ Top(t) \in Frame /\ Walks(Top(t))
      /\ Len(Top(t).cached) \in Nat /\ Top(t).i \in Nat /\ Top(t).cur \in Nat \ {0}
      BY <1>1, TopFacts
<1>5. /\ f.cached = Top(t).cached /\ f.i = Top(t).i + 1 /\ f.cur = Top(t).cur + 1
      /\ f.pc = "loop" /\ f.heard = Top(t).heard /\ f \in Frame
      BY <1>1, <1>4, Advances
<1> HIDE DEF f
<1>6. Walks(f)
      BY <1>1, <1>4, <1>5 DEF Walks, Plain
<1> QED
      BY <1>1, <1>2, <1>3, <1>5, <1>6, SetTopIInv

LEMMA SendReturnsIInv ==
  ASSUME IInv, NEW t \in Thread, SendReturns(t)
  PROVE  IInv'
<1> DEFINE n == Len(stack[t])
<1>1. stack[t] \in Seq(Frame) /\ stack[t] # <<>>
      BY DEF IInv, Stacks, SendReturns
<1>2. n \in Nat \ {0} /\ DOMAIN stack[t] = 1..n /\ \A k \in 1..n : stack[t][k] \in Frame
      BY <1>1, EmptySeq, LenProperties, ElementOfSeq
<1>3. /\ Front(stack[t]) \in Seq(Frame) /\ Len(Front(stack[t])) = n - 1
      /\ \A k \in 1..(n - 1) : Front(stack[t])[k] = stack[t][k]
      BY <1>1, <1>2 DEF Front
<1>4. DOMAIN Front(stack[t]) = 1..(n - 1)
      BY <1>3, LenProperties
<1> HIDE DEF n
<1>5. /\ stack' \in [Thread -> Seq(Frame)] /\ stack'[t] = Front(stack[t])
      /\ \A u \in Thread \ {t} : stack'[u] = stack[u]
      BY <1>3 DEF SendReturns, IInv, Stacks
<1>6. \A u \in Thread : \A k \in DOMAIN stack'[u] : k \in DOMAIN stack[u] /\ stack'[u][k] = stack[u][k]
      BY <1>2, <1>3, <1>4, <1>5
<1>7. Stacks' /\ NeverEdited'
      BY <1>5 DEF SendReturns, IInv, Stacks, NeverEdited
<1>8. AllWalk'
      BY <1>6 DEF IInv, AllWalk, Walks, Plain
<1>9. \A u \in Thread : Sending(u)' => Sending(u)
      BY <1>6 DEF Sending
<1> QED
      BY <1>7, <1>8, <1>9 DEF IInv, CallbacksSerialised

LEMMA NextIInv == IInv /\ [Next]_vars => IInv'
<1> SUFFICES ASSUME IInv, [Next]_vars PROVE IInv'
    OBVIOUS
<1>0. listeners \in Seq(Listener) /\ removed = FALSE
      BY DEF IInv, Stacks, NeverEdited
<1>1. ASSUME NEW t \in Everyone, NEW l \in Listener, Attach(t, l) PROVE IInv'
  <2>1. Append(listeners, l) \in Seq(Listener)
        BY <1>0, AppendProperties
  <2> QED
        BY <1>0, <1>1, <2>1, SameStack DEF Attach
<1>2. ASSUME NEW t \in Everyone, NEW l \in Listener, DetachCall(t, l) PROVE IInv'
      BY <1>0, <1>2, SameStack DEF DetachCall
<1>3. ASSUME NEW t \in Everyone, Detach(t) PROVE IInv'
  <2>1. RemoveFirst(listeners, detaching[t].listener) \in Seq(Listener)
        BY <1>0, RemoveFirstType
  <2> QED
        BY <1>3, <2>1, SameStack DEF Detach
<1>4. ASSUME NEW t \in Everyone, DetachPop(t) PROVE IInv'
      BY <1>0, <1>4, SameStack DEF DetachPop
<1>5. ASSUME NEW t \in Everyone, DetachReturns(t) PROVE IInv'
      BY <1>0, <1>5, SameStack DEF DetachReturns
<1>6. ASSUME NEW t \in Thread, Send(t) PROVE IInv'
      BY <1>6, SendIInv
<1>7. ASSUME NEW t \in Thread, SendLock(t) PROVE IInv'
      BY <1>7, SendLockIInv
<1>8. ASSUME NEW t \in Thread, SendAsync(t) PROVE IInv'
      BY <1>8, SendAsyncIInv
<1>9. ASSUME NEW t \in Thread, SendCall(t) PROVE IInv'
      BY <1>9, SendCallIInv
<1>10. ASSUME NEW t \in Thread, CallReturns(t) PROVE IInv'
      BY <1>10, CallReturnsIInv
<1>11. ASSUME NEW t \in Thread, SendReturns(t) PROVE IInv'
      BY <1>11, SendReturnsIInv
<1>12. CASE DeliverBegin
      BY <1>0, <1>12, SameStack DEF DeliverBegin
<1>13. CASE DeliverEnd
      BY <1>0, <1>13, SameStack DEF DeliverEnd
<1>14. CASE UNCHANGED vars
      BY <1>0, <1>14, SameStack DEF vars
<1> QED
      BY <1>1, <1>2, <1>3, <1>4, <1>5, <1>6, <1>7, <1>8, <1>9, <1>10, <1>11, <1>12, <1>13, <1>14
      DEF Next, Call, Continue, FinishDetach

\* The inductive invariant.
THEOREM Inductive == Spec => []IInv
BY InitIInv, NextIInv, PTL DEF Spec

\* Callbacks of one object never overlap on two threads: the recursive lock has one
\* holder, however deep its sends nest.
THEOREM Serialised == Spec => []CallbacksSerialised
<1>1. IInv => CallbacksSerialised
      BY DEF IInv
<1> QED
      BY <1>1, Inductive, PTL

\* The mark that libvlc_event_send would recheck its copy on is never set, so that a
\* callback cannot take back what its own send has still to call.
THEOREM MarkUnused == Spec => []NeverEdited
<1>1. IInv => NeverEdited
      BY DEF IInv
<1> QED
      BY <1>1, Inductive, PTL

\* A send that ends has called every listener of its copy once and in order, whatever
\* callbacks attached, detached or sent meanwhile.
THEOREM EveryoneHears == Spec => []EveryListenerHears
<1>1. IInv => EveryListenerHears
  <2> SUFFICES ASSUME IInv, NEW t \in Thread, stack[t] # <<>>, Top(t).pc = "loop",
                      Top(t).i = Len(Top(t).cached),
                      \A k \in 1..(Len(Top(t).cached) - 1) : Top(t).cached[k] \notin Async
               PROVE  Top(t).heard = Top(t).cached
      BY DEF EveryListenerHears
  <2>1. /\ Walks(Top(t))
        /\ Top(t).cached \in Seq(Listener) /\ Top(t).heard \in Seq(Listener)
        BY TopFacts
  <2>2. /\ Len(Top(t).heard) = Len(Top(t).cached)
        /\ \A k \in DOMAIN Top(t).heard : Top(t).heard[k] = Top(t).cached[k]
        BY <2>1 DEF Walks, Plain
  <2> QED
        BY <2>1, <2>2, LenProperties, SeqEqual
<1> QED
      BY <1>1, Inductive, PTL

\* No step removes a listener that another thread is calling.
THEOREM DetachWaits == Spec => DetachWaitsForCall
<1> DEFINE A == \A t \in Thread, l \in Listener :
       /\ l \in ToSet(listeners) /\ l \notin ToSet(listeners')
       /\ detaching[t] = [listener |-> l, step |-> "lock"] /\ detaching'[t] # detaching[t]
       => \A u \in Thread \ {t} : \A k \in DOMAIN stack[u] :
            stack[u][k].pc = "call" => Last(stack[u][k].heard) # l
<1>1. [Next]_vars => [A]_vars
  <2> SUFFICES ASSUME Next, NEW t \in Thread, NEW l \in Listener,
                      listeners' # listeners,
                      detaching[t].step = "lock", detaching'[t] # detaching[t],
                      NEW u \in Thread \ {t}, NEW k \in DOMAIN stack[u]
               PROVE  stack[u][k].pc # "call"
      BY DEF vars
  <2>1. ~\E v \in Everyone : Call(v) \/ DetachPop(v) \/ DetachReturns(v)
      BY DEF Call, Attach, DetachCall, DetachPop, DetachReturns
  <2>2. ~DeliverBegin /\ ~DeliverEnd /\ ~\E v \in Thread : Send(v) \/ Continue(v)
      BY DEF DeliverBegin, DeliverEnd, Send, Continue, SendLock, SendAsync, SendCall,
             CallReturns, SendReturns
  <2>3. PICK v \in Everyone : Detach(v)
      BY <2>1, <2>2 DEF Next, FinishDetach
  <2>4. v = t
      BY <2>3 DEF Detach
  <2>5. ~Sending(u)
      BY <2>3, <2>4 DEF Detach
  <2> QED
      BY <2>5 DEF Sending
<1> QED
      BY <1>1, PTL DEF Spec, DetachWaitsForCall

-----------------------------------------------------------------------------
\* The queue of the asynchronous listeners, and what the detaching threads are in.
QueueType ==
  /\ detaching \in [Everyone -> [listener : Listener \cup {None},
                                 step : {"done", "lock", "pop", "wait"}]]
  /\ posted \in Seq(Listener) /\ delivering \in Listener \cup {None}

\* What pop_listener leaves is a list of listeners.
LEMMA UnpostedType ==
  ASSUME posted \in Seq(Listener), NEW l
  PROVE  Unposted(l) \in Seq(Listener)
<1> DEFINE n == Len(posted)
           G == [k \in 1..n |-> [x \in Seq(Listener) |->
                  IF posted[k] = l THEN x ELSE Append(x, posted[k])]]
           rest[k \in 0..n] ==
             IF k = 0 THEN <<>>
             ELSE IF posted[k] = l THEN rest[k - 1] ELSE Append(rest[k - 1], posted[k])
<1>1. n \in Nat /\ \A k \in 1..n : posted[k] \in Listener
      BY LenProperties, ElementOfSeq
<1>2. G \in [1..n -> [Seq(Listener) -> Seq(Listener)]] /\ <<>> \in Seq(Listener)
      BY <1>1, AppendProperties
<1> HIDE DEF G, n
<1>3. PICK f \in [0..n -> Seq(Listener)] : f[0] = <<>> /\ \A k \in 1..n : f[k] = G[k][f[k - 1]]
  <2> DEFINE T == Seq(Listener)
             b == <<>>
  <2>1. n \in Nat /\ b \in T /\ G \in [1..n -> [T -> T]]
        BY <1>1, <1>2
  <2> HIDE DEF T, b
  <2>2. \E f \in [0..n -> T] : f[0] = b /\ \A k \in 1..n : f[k] = G[k][f[k - 1]]
        BY <2>1, Recursion
  <2> QED
        BY <2>2 DEF T, b
<1>4. \A k \in 0..n : f[k] = IF k = 0 THEN <<>> ELSE
           IF posted[k] = l THEN f[k - 1] ELSE Append(f[k - 1], posted[k])
  <2> SUFFICES ASSUME NEW k \in 0..n, k # 0
               PROVE  f[k] = IF posted[k] = l THEN f[k - 1] ELSE Append(f[k - 1], posted[k])
      BY <1>3
  <2>1. k - 1 \in 0..n /\ k \in 1..n
        BY <1>1
  <2>2. f[k - 1] \in Seq(Listener)
        BY <2>1
  <2>3. f[k] = G[k][f[k - 1]]
        BY <1>3, <2>1
  <2> QED
        BY <2>1, <2>2, <2>3 DEF G
<1>5. f = [k \in 0..n |-> IF k = 0 THEN <<>> ELSE
             IF posted[k] = l THEN f[k - 1] ELSE Append(f[k - 1], posted[k])]
      BY <1>4, Zenon
<1>6. rest = [k \in 0..n |-> IF k = 0 THEN <<>> ELSE
                IF posted[k] = l THEN rest[k - 1] ELSE Append(rest[k - 1], posted[k])]
      BY <1>5, Zenon DEF rest
<1> HIDE DEF rest
<1>7. rest[0] = <<>>
  <2>1. 0 \in 0..n
        BY <1>1
  <2> QED
        BY <1>6, <2>1, Zenon
<1>8. \A k \in 0..n : rest[k] = IF k = 0 THEN <<>> ELSE
           IF posted[k] = l THEN rest[k - 1] ELSE Append(rest[k - 1], posted[k])
      BY <1>6, Zenon
<1> DEFINE Bad == {k \in 0..n : rest[k] \notin Seq(Listener)}
<1>9. Bad = {}
  <2>1. ASSUME NEW k \in Bad, \A j \in Bad : k <= j PROVE FALSE
    <3>1. k \in 0..n /\ rest[k] \notin Seq(Listener)
          OBVIOUS
    <3>2. k # 0
          BY <1>2, <1>7, <3>1
    <3>3. k - 1 \in 0..n /\ k - 1 \notin Bad /\ k \in 1..n
          BY <1>1, <2>1, <3>2
    <3>4. rest[k - 1] \in Seq(Listener) /\ posted[k] \in Listener
          BY <1>1, <3>3
    <3>5. rest[k] = IF posted[k] = l THEN rest[k - 1] ELSE Append(rest[k - 1], posted[k])
          BY <1>8, <3>1, <3>2
    <3>6. Append(rest[k - 1], posted[k]) \in Seq(Listener)
          BY <3>4, AppendProperties
    <3> QED
          BY <3>1, <3>4, <3>5, <3>6, Zenon
  <2>2. Bad \in SUBSET Nat
        OBVIOUS
  <2> QED
      BY <2>1, <2>2, LeastElement
<1>10. Unposted(l) = rest[n]
      BY Zenon DEF Unposted, rest, n
<1>11. n \in 0..n
      BY <1>1
<1> QED
      BY <1>9, <1>10, <1>11

LEMMA NextQueueType == IInv /\ QueueType /\ [Next]_vars => QueueType'
<1> SUFFICES ASSUME IInv, QueueType, [Next]_vars PROVE QueueType'
    OBVIOUS
<1> DEFINE D == [listener : Listener \cup {None}, step : {"done", "lock", "pop", "wait"}]
<1>0. detaching \in [Everyone -> D] /\ posted \in Seq(Listener) /\ delivering \in Listener \cup {None}
      BY DEF QueueType
<1>1. Done \in D
      BY DEF Done
<1>2. ASSUME NEW t \in Everyone, NEW l \in Listener, Attach(t, l) PROVE QueueType'
      BY <1>2 DEF Attach, QueueType
<1>3. ASSUME NEW t \in Everyone, NEW l \in Listener, DetachCall(t, l) PROVE QueueType'
  <2>1. [listener |-> l, step |-> "lock"] \in D
        OBVIOUS
  <2> QED
        BY <1>0, <1>3, <2>1 DEF DetachCall, QueueType
<1>4. ASSUME NEW t \in Everyone, Detach(t) PROVE QueueType'
  <2>1. [detaching[t] EXCEPT !.step = "pop"] \in D
        BY <1>0
  <2> QED
        BY <1>0, <1>4, <2>1 DEF Detach, QueueType
<1>5. ASSUME NEW t \in Everyone, DetachPop(t) PROVE QueueType'
  <2>1. posted' \in Seq(Listener)
        BY <1>0, <1>5, UnpostedType, Zenon DEF DetachPop
  <2>2. [detaching[t] EXCEPT !.step = "wait"] \in D
        BY <1>0
  <2> QED
        BY <1>0, <1>1, <1>5, <2>1, <2>2 DEF DetachPop, QueueType
<1>6. ASSUME NEW t \in Everyone, DetachReturns(t) PROVE QueueType'
      BY <1>0, <1>1, <1>6 DEF DetachReturns, QueueType
<1>7. ASSUME NEW t \in Thread, SendAsync(t) PROVE QueueType'
  <2>1. Stacks
        BY DEF IInv
  <2>2. posted' \in Seq(Listener) /\ UNCHANGED <<detaching, delivering>>
        BY <1>0, <1>7, <2>1, AsyncAssumption, AppendProperties DEF SendAsync
  <2> QED
        BY <2>2 DEF QueueType
<1>8. ASSUME NEW t \in Thread, Send(t) \/ SendLock(t) \/ SendCall(t) \/ CallReturns(t) \/ SendReturns(t)
      PROVE  QueueType'
      BY <1>8 DEF Send, SendLock, SendCall, CallReturns, SendReturns, QueueType
<1>9. CASE DeliverBegin
      BY <1>0, <1>9 DEF DeliverBegin, QueueType
<1>10. CASE DeliverEnd
      BY <1>10 DEF DeliverEnd, QueueType
<1>11. CASE UNCHANGED vars
      BY <1>11 DEF vars, QueueType
<1> QED
      BY <1>2, <1>3, <1>4, <1>5, <1>6, <1>7, <1>8, <1>9, <1>10, <1>11
      DEF Next, Call, Continue, FinishDetach

\* The state keeps its type, and no loop of libvlc_event_send leaves its copy of the
\* listeners, whatever its callbacks attach, detach and send.
THEOREM Typed == Spec => []TypeOK
<1>1. Init => QueueType
      BY DEF Init, QueueType, Done
<1>2. Spec => []QueueType
      BY <1>1, NextQueueType, Inductive, PTL DEF Spec
<1>3. IInv /\ QueueType => TypeOK
      BY DEF IInv, Stacks, NeverEdited, AllWalk, Walks, QueueType, TypeOK
<1> QED
      BY <1>2, <1>3, Inductive, PTL

-----------------------------------------------------------------------------
(* Nobody waits for ever: the guards of what FairSpec lets happen, and a state in which *)
(* none of them holds.                                                                  *)

\* SendLock; SendAsync, SendCall and SendReturns; CallReturns.
CanContinue(t) ==
  /\ stack[t] # <<>>
  /\ \/ Top(t).pc = "copied" /\ \A u \in Thread \ {t} : ~Sending(u)
     \/ Top(t).pc = "loop" /\ Top(t).i <= Len(Top(t).cached)
     \/ Top(t).pc = "call" /\ detaching[t] = Done

\* Detach, DetachPop and DetachReturns.
CanFinishDetach(t) ==
  \/ detaching[t].step = "lock" /\ \A u \in Thread \ {t} : ~Sending(u)
  \/ detaching[t].step = "pop"
  \/ detaching[t].step = "wait" /\ posted = <<>> /\ delivering = None

\* DeliverBegin and DeliverEnd.
CanDeliver ==
  \/ posted # <<>> /\ delivering = None
  \/ delivering # None /\ detaching[Loop] = Done

\* Somebody is in a call of the library, or an event is still to be delivered.
Busy ==
  \/ posted # <<>> \/ delivering # None
  \/ \E t \in Everyone : detaching[t] # Done
  \/ \E t \in Thread : stack[t] # <<>>

\* A send waits for event_sending_lock, a detach for that lock and then for the delivery
\* thread: as long as one of them is under way somebody can go on, unless Entangled.
SomebodyGoesOn ==
  Busy /\ ~Entangled =>
    \/ \E t \in Thread : CanContinue(t)
    \/ \E t \in Everyone : CanFinishDetach(t)
    \/ CanDeliver

\* The delivery thread detaches in its callbacks only, and does not wait for itself.
LoopDetaches ==
  /\ \A t \in Everyone : detaching[t].step = "done" => detaching[t] = Done
  /\ detaching[Loop] # Done => detaching[Loop].step # "wait" /\ delivering # None

LEMMA NextLoopDetaches == IInv /\ QueueType /\ LoopDetaches /\ [Next]_vars => LoopDetaches'
<1> SUFFICES ASSUME IInv, QueueType, LoopDetaches, [Next]_vars PROVE LoopDetaches'
    OBVIOUS
<1> DEFINE D == [listener : Listener \cup {None}, step : {"done", "lock", "pop", "wait"}]
<1>0. /\ detaching \in [Everyone -> D] /\ Loop \in Everyone /\ Done.step = "done"
      BY DEF QueueType, Everyone, Done
<1> USE DEF LoopDetaches
<1>1. ASSUME NEW t \in Everyone, NEW l \in Listener, DetachCall(t, l) PROVE LoopDetaches'
  <2>1. t = Loop => delivering # None
        BY <1>1 DEF DetachCall, Runs, InCallback
  <2> QED
        BY <1>0, <1>1, <2>1 DEF DetachCall
<1>2. ASSUME NEW t \in Everyone, Detach(t) PROVE LoopDetaches'
      BY <1>0, <1>2 DEF Detach
<1>3. ASSUME NEW t \in Everyone, DetachPop(t) PROVE LoopDetaches'
      BY <1>0, <1>3 DEF DetachPop
<1>4. ASSUME NEW t \in Everyone, DetachReturns(t) PROVE LoopDetaches'
      BY <1>0, <1>4 DEF DetachReturns
<1>5. CASE DeliverBegin
      BY <1>0, <1>5, AsyncAssumption DEF DeliverBegin, QueueType
<1>6. CASE DeliverEnd
      BY <1>0, <1>6 DEF DeliverEnd
<1>7. CASE UNCHANGED <<detaching, delivering>>
      BY <1>7
<1>8. \/ UNCHANGED <<detaching, delivering>> \/ DeliverBegin \/ DeliverEnd
      \/ \E t \in Everyone : Detach(t) \/ DetachPop(t) \/ DetachReturns(t)
                             \/ \E l \in Listener : DetachCall(t, l)
      BY DEF Next, Call, Continue, FinishDetach, Attach, Send, SendLock, SendAsync, SendCall,
             CallReturns, SendReturns, vars
<1> QED
      BY <1>1, <1>2, <1>3, <1>4, <1>5, <1>6, <1>7, <1>8

LEMMA NobodyStuck == ASSUME IInv, QueueType, LoopDetaches PROVE SomebodyGoesOn
<1> SUFFICES ASSUME ~Entangled, ~CanDeliver,
                    \A t \in Thread : ~CanContinue(t), \A t \in Everyone : ~CanFinishDetach(t)
             PROVE  ~Busy
    BY DEF SomebodyGoesOn
<1>1. \A t \in Everyone : detaching[t].step \in {"done", "lock", "pop", "wait"}
      BY DEF QueueType
<1>2. Loop \in Everyone /\ \A t \in Thread : t \in Everyone
      BY DEF Everyone
<1>3. ASSUME NEW t \in Thread, stack[t] # <<>>
      PROVE  \/ Top(t).pc = "copied" /\ \E u \in Thread \ {t} : Sending(u)
             \/ Top(t).pc = "call" /\ Sending(t) /\ detaching[t] # Done
  <2>1. Top(t) \in Frame /\ Walks(Top(t))
        BY <1>3, TopFacts
  <2>2. Top(t).pc \in {"copied", "loop", "call"} /\ Top(t).i <= Len(Top(t).cached)
        BY <2>1 DEF Frame, Walks
  <2>3. Top(t).pc # "copied" => Sending(t)
    <3>1. stack[t] \in Seq(Frame)
          BY DEF IInv, Stacks
    <3>2. Len(stack[t]) \in DOMAIN stack[t] /\ Top(t) = stack[t][Len(stack[t])]
          BY <1>3, <3>1, EmptySeq, LenProperties DEF Top, Last
    <3> QED
          BY <3>2 DEF Sending
  <2> QED
        BY <1>3, <2>2, <2>3 DEF CanContinue
<1>4. ASSUME NEW t \in Thread, Sending(t) PROVE detaching[t].step = "wait"
  <2>1. \A u \in Thread \ {t} : ~Sending(u)
        BY <1>4 DEF IInv, CallbacksSerialised
  <2>2. stack[t] # <<>>
        BY <1>4 DEF Sending
  <2>3. detaching[t] # Done
        BY <1>3, <2>1, <2>2
  <2>4. detaching[t].step # "lock" /\ detaching[t].step # "pop" /\ detaching[t].step # "done"
        BY <1>2, <2>1, <2>3 DEF CanFinishDetach, LoopDetaches
  <2> QED
        BY <1>1, <1>2, <2>4
<1>5. delivering = None
  <2> SUFFICES ASSUME delivering # None PROVE FALSE
      OBVIOUS
  <2>1. detaching[Loop] # Done
        BY DEF CanDeliver
  <2>2. detaching[Loop].step = "lock"
        BY <1>1, <1>2, <2>1 DEF CanFinishDetach, LoopDetaches
  <2>3. PICK u \in Thread : Sending(u)
        BY <1>2, <2>2 DEF CanFinishDetach
  <2> QED
        BY <1>4, <2>2, <2>3 DEF Entangled
<1>6. posted = <<>>
      BY <1>5 DEF CanDeliver
<1>7. \A t \in Everyone : detaching[t].step # "wait"
      BY <1>5, <1>6 DEF CanFinishDetach
<1>8. \A t \in Thread : ~Sending(t)
      BY <1>2, <1>4, <1>7
<1>9. \A t \in Everyone : detaching[t] = Done
      BY <1>1, <1>7, <1>8 DEF CanFinishDetach, LoopDetaches
<1>10. \A t \in Thread : stack[t] = <<>>
      BY <1>2, <1>3, <1>8
<1> QED
      BY <1>5, <1>6, <1>9, <1>10 DEF Busy

\* The calls of the library do not block each other for ever: whatever is under way,
\* somebody can go on, but for the one deadlock of callbacks that detach on both sides.
THEOREM OnlyEntangled == Spec => []SomebodyGoesOn
<1>1. Init => QueueType /\ LoopDetaches
      BY DEF Init, QueueType, LoopDetaches, Done, Everyone
<1>2. Spec => [](QueueType /\ LoopDetaches)
      BY <1>1, NextQueueType, NextLoopDetaches, Inductive, PTL DEF Spec
<1> QED
      BY <1>2, NobodyStuck, Inductive, PTL

=============================================================================
