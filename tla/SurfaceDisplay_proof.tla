------------------------ MODULE SurfaceDisplay_proof ------------------------
(***************************************************************************)
(* Proofs about SurfaceDisplay, for any number of surfaces: Display draws  *)
(* only on a surface that is alive, and when a change of the place waits   *)
(* for the last one to be dealt with, every picture is posted clean.       *)
(***************************************************************************)
EXTENDS SurfaceDisplay, TLAPS

\* s_surface is the surface that is alive, or none; what Display took is the same.
Attached ==
  /\ surface # None => surface = alive
  /\ vout \in {"locked", "drawn"} => surface # None /\ taken = surface

\* What Display found is alive, as DrawsOnLiveSurface says, for nothing that can take
\* the surface away happens before the picture is posted.
LInv == TypeOK /\ Attached

IsClean(b) == painted[b] \subseteq Covers(place)

\* The count says how far the erasure has come since the place changed: not begun, one
\* buffer erased (the one just posted, or about to be), both erased, and done.
Progress ==
  /\ ~changed => count = 0 /\ IsClean(0) /\ IsClean(1)
  /\ count = 1 => IsClean(IF vout = "drawn" THEN back ELSE 1 - back)
  /\ count = 2 => IsClean(0) /\ IsClean(1)
  /\ vout = "drawn" /\ changed => count # 0

CInv == LInv /\ Progress

-----------------------------------------------------------------------------
LEMMA Remainders ==
  /\ \A n \in 0..2 : (n + 1) % 3 = IF n = 2 THEN 0 ELSE n + 1
  /\ \A n \in 0..2 : n % 3 = n
BY SMT

LEMMA InitLInv == Init => LInv
<1> SUFFICES ASSUME Init PROVE LInv
    OBVIOUS
<1>1. painted \in [Buffers -> SUBSET Regions] /\ back \in Buffers
      BY DEF Init, Buffers
<1>2. changed \in BOOLEAN
      BY Zenon DEF Init
<1> QED
      BY <1>1, <1>2 DEF Init, LInv, TypeOK, Attached

\* The type of the state and Attached are inductive.
LEMMA NextLInv == LInv /\ [Next]_vars => LInv'
<1> SUFFICES ASSUME LInv, [Next]_vars PROVE LInv'
    OBVIOUS
<1> USE SurfaceAssumption, Remainders DEF LInv, TypeOK, Attached, Buffers, sys, screen, Free
<1>1. ASSUME NEW s \in Surface, SurfaceCreated(s) PROVE LInv'
      BY <1>1 DEF SurfaceCreated
<1>2. CASE SurfaceDestroyed
      BY <1>2 DEF SurfaceDestroyed
<1>3. CASE nativeAttachSurface
      BY <1>3 DEF nativeAttachSurface
<1>4. CASE nativeDetachSurface
      BY <1>4 DEF nativeDetachSurface
<1>5. CASE Open
      BY <1>5 DEF Open
<1>6. CASE Close
      BY <1>6 DEF Close
<1>7. CASE BeginDisplay
      BY <1>7 DEF BeginDisplay
<1>8. CASE NoImage
      BY <1>8 DEF NoImage
<1>9. CASE Draw
      BY <1>9 DEF Draw, Covers, Regions
<1>10. CASE EndDisplay
      BY <1>10 DEF EndDisplay
<1>11. ASSUME NEW full \in BOOLEAN, Control(full) PROVE LInv'
      BY <1>11 DEF Control
<1>12. CASE UNCHANGED vars
      BY <1>12 DEF vars
<1> QED
      BY <1>1, <1>2, <1>3, <1>4, <1>5, <1>6, <1>7, <1>8, <1>9, <1>10, <1>11, <1>12 DEF Next

\* The state keeps its type.
THEOREM Typed == Spec => []TypeOK
<1>1. LInv => TypeOK
      BY DEF LInv
<1> QED
      BY <1>1, InitLInv, NextLInv, PTL DEF Spec

\* nativeDetachSurface keeps the surface until the picture that is being drawn on it has
\* been posted.
THEOREM LiveSurface == Spec => []DrawsOnLiveSurface
<1>1. LInv => DrawsOnLiveSurface
      BY DEF LInv, TypeOK, Attached, DrawsOnLiveSurface
<1> QED
      BY <1>1, InitLInv, NextLInv, PTL DEF Spec

-----------------------------------------------------------------------------
LEMMA InitCInv == Init => CInv
BY InitLInv DEF Init, CInv, Progress, IsClean, Buffers

\* A picture is drawn clean, and brings the erasure one buffer further.
LEMMA DrawProgress == CInv /\ Draw => Progress'
<1> SUFFICES ASSUME CInv, Draw PROVE Progress'
    OBVIOUS
<1> USE DEF CInv, LInv, TypeOK, Draw, Buffers
<1>1. CASE ~changed
      BY <1>1 DEF Progress, IsClean
<1>2. CASE changed /\ count = 0
  <2>1. count' = 1
        BY <1>2, Remainders
  <2>2. count' # 0
        BY <2>1
  <2>3. changed'
        BY <1>2, <2>2, Zenon
  <2>4. IsClean(back)'
        BY <1>2, <2>1, <2>3, Remainders DEF Erase, IsClean
  <2> QED
        BY <2>1, <2>3, <2>4 DEF Progress
<1>3. CASE changed /\ count = 1
  <2>1. count' = 2
        BY <1>3, Remainders
  <2>2. count' # 0
        BY <2>1
  <2>3. changed'
        BY <1>3, <2>2, Zenon
  <2>4. IsClean(back)'
        BY <1>3, <2>1, <2>3, Remainders DEF Erase, IsClean
  <2>5. IsClean(1 - back)'
        BY <1>3 DEF Progress, IsClean
  <2> QED
        BY <2>1, <2>3, <2>4, <2>5 DEF Progress
<1>4. CASE changed /\ count = 2
  <2>1. count' = 0
        BY <1>4, Remainders
  <2>2. ~changed'
        BY <1>4, <2>1
  <2>3. IsClean(0)' /\ IsClean(1)'
        BY <1>4, <2>1, <2>2, Remainders DEF Progress, Erase, IsClean
  <2> QED
        BY <2>1, <2>2, <2>3 DEF Progress
<1> QED
      BY <1>1, <1>2, <1>3, <1>4

\* The other steps leave the pictures as they are, begin with blank buffers, or begin a
\* new erasure when the last one is over.
LEMMA NextCInv == ASSUME Settled PROVE CInv /\ [Next]_vars => CInv'
<1> SUFFICES ASSUME CInv, [Next]_vars PROVE Progress'
    BY NextLInv DEF CInv
<1> USE DEF CInv, LInv, TypeOK, Attached, Progress, IsClean, Buffers, sys, screen, Free
<1>1. ASSUME NEW s \in Surface, SurfaceCreated(s) PROVE Progress'
      BY <1>1 DEF SurfaceCreated
<1>2. CASE SurfaceDestroyed
      BY <1>2 DEF SurfaceDestroyed
<1>3. CASE nativeAttachSurface
      BY <1>3 DEF nativeAttachSurface
<1>4. CASE nativeDetachSurface
      BY <1>4 DEF nativeDetachSurface
<1>5. CASE Open
      BY <1>5 DEF Open
<1>6. CASE Close
      BY <1>6 DEF Close
<1>7. CASE BeginDisplay
      BY <1>7 DEF BeginDisplay
<1>8. CASE NoImage
      BY <1>8 DEF NoImage
<1>9. CASE Draw
      BY <1>9, DrawProgress
<1>10. CASE EndDisplay
      BY <1>10 DEF EndDisplay
<1>11. ASSUME NEW full \in BOOLEAN, Control(full) PROVE Progress'
  <2>1. ~changed /\ count' = 0 /\ vout' # "drawn" /\ painted' = painted
        BY <1>11 DEF Control
  <2>2. painted[0] \subseteq Regions /\ painted[1] \subseteq Regions
        OBVIOUS
  <2>3. ~changed' => place' = "full"
        BY <1>11 DEF Control
  <2> QED
        BY <2>1, <2>2, <2>3 DEF Covers
<1>12. CASE UNCHANGED vars
      BY <1>12 DEF vars
<1> QED
      BY <1>1, <1>2, <1>3, <1>4, <1>5, <1>6, <1>7, <1>8, <1>9, <1>10, <1>11, <1>12 DEF Next

\* When the place only changes after the last change was dealt with, both buffers are
\* erased in time and every picture is clean: the code's count to three is enough.
THEOREM Clean == ASSUME Settled PROVE Spec => []CleanPicture
<1>1. CInv => CleanPicture
      BY DEF CInv, LInv, TypeOK, Buffers, Progress, IsClean, CleanPicture
<1>2. CInv /\ [Next]_vars => CInv'
      BY NextCInv
<1> QED
      BY <1>1, <1>2, InitCInv, PTL DEF Spec

=============================================================================
