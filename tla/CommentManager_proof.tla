------------------------ MODULE CommentManager_proof ------------------------
(***************************************************************************)
(* Proofs about CommentManager, for every set of lists, every offset and   *)
(* however long the clock runs: the type of the state, the play time of    *)
(* the renderer, that no comment is missed or placed twice, and that the   *)
(* places of the comments are right: lanes are kept as long as they are    *)
(* needed and no longer, and no two comments are drawn over each other.    *)
(*                                                                         *)
(* CInv, TInv and JInv are about the clock, the type and the list; they    *)
(* are inductive together, and LayoutInv with them is.  Between the two    *)
(* parts stand the lemmas about the operators of PositionManager.          *)
(***************************************************************************)
EXTENDS CommentManager, SequenceTheorems, WellFoundedInduction, TLAPS

\* The part of the type that the clock of the renderer depends on.
ClockType ==
  /\ now \in 0..MaxTime /\ mTimeStart \in Int /\ pauseBegin \in -1..MaxTime
  /\ mTimeOffset \in Offset \cup {0} /\ base \in Nat /\ ran \in Nat

\* The part that it does not depend on.
ThreadType ==
  /\ caller \in {"idle", "join", "rejoin", "load"}
  /\ renderer \in {"none", "start", "frame", "await", "awake", "drawn", "ended"}
  /\ mExit \in BOOLEAN /\ mPause \in BOOLEAN /\ mSeek \in BOOLEAN
  /\ current \in Int

ListType ==
  /\ mCommentList \in Lists \cup {<<>>} /\ mCommentIndex \in Nat \ {0}
  /\ fed \in [Index -> 0..2] /\ drawn \in [Index -> {"no", "measured", "cached"}]

\* ClockFollowsPlay is inductive: every step keeps both of its sides, or changes both.
CInv == ClockType /\ ClockFollowsPlay

TInv == ClockType /\ ThreadType /\ ListType

\* When a comment is over, and up to when the frames have fed what was due.
Ends(i) == mCommentList[i].time + Duration(mCommentList[i].type, Width(i, drawn))
FrameTime == IF renderer = "drawn" THEN current ELSE base + ran

\* The renderer renders: it was started, and is not about to end before it draws.
Playing == renderer = "drawn" \/ (~mExit /\ renderer \notin {"none", "start"})

\* A list is opened after its predecessor's renderer has ended, and then mExit is set.
Calls ==
  /\ caller = "load" => renderer = "none"
  /\ caller \in {"join", "rejoin"} => mExit

Loaded ==
  /\ renderer # "none" => mCommentList \in Lists
  /\ Playing => mCommentIndex \in Index
  /\ renderer = "drawn" => current <= base + ran

Fresh ==
  ~mExit /\ renderer \in {"none", "start"}
    => mCommentIndex = 1 /\ \A i \in Index : fed[i] = 0

\* What lies before the index was fed, unless it is over.
Seen ==
  Playing => \A i \in Index : i < mCommentIndex =>
    drawn[i] # "no" /\ (fed[i] >= 1 \/ Ends(i) <= FrameTime)

\* As long as the list has not come to its end, what lies behind the index was not fed.
Once ==
  Playing /\ Last(mCommentList).time > FrameTime
    => \A i \in Index : fed[i] <= 1 /\ (i >= mCommentIndex => fed[i] = 0)

JInv == Calls /\ Loaded /\ Fresh /\ Seen /\ Once /\ NoCommentMissed

-----------------------------------------------------------------------------
LEMMA InitCInv == Init => CInv
BY TimeAssumption DEF Init, CInv, ClockType, ClockFollowsPlay

LEMMA NextCInv == CInv /\ [Next]_vars => CInv'
<1> SUFFICES ASSUME CInv, [Next]_vars PROVE CInv'
    OBVIOUS
<1> USE TimeAssumption DEF CInv, ClockType, ClockFollowsPlay, clock, control, frame, comments
<1>1. ASSUME NEW next \in {"idle", "load"}, close(next) PROVE CInv'
      BY <1>1 DEF close
<1>2. CASE Joined
      BY <1>2 DEF Joined
<1>3. ASSUME NEW list \in Lists, open(list) PROVE CInv'
      BY <1>3 DEF open
<1>15. CASE openFails
      BY <1>15 DEF openFails
<1>4. ASSUME NEW time \in Offset, seek(time) PROVE CInv'
      BY <1>4 DEF seek
<1>5. CASE pause
      BY <1>5 DEF pause
<1>6. CASE play
      BY <1>6 DEF play
<1>7. CASE Start
      BY <1>7 DEF Start, Step
<1>8. CASE Begin
      BY <1>8 DEF Begin
<1>9. CASE Resume
      BY <1>9 DEF Resume, Step
<1>10. CASE Leave
      BY <1>10 DEF Leave, Step
<1>11. CASE Render
  <2>1. CASE mSeek
        BY <1>11, <2>1 DEF Render, Step
  <2>2. CASE ~mSeek
        BY <1>11, <2>2 DEF Render, Step
  <2> QED
        BY <2>1, <2>2
<1>12. CASE Sleep
      BY <1>12 DEF Sleep, Step
<1>13. CASE Tick
      BY <1>13 DEF Tick, Alive
<1>14. CASE UNCHANGED vars
      BY <1>14 DEF vars
<1> QED
      BY <1>1, <1>2, <1>3, <1>4, <1>5, <1>6, <1>7, <1>8, <1>9, <1>10, <1>11, <1>12, <1>13,
         <1>14, <1>15 DEF Next, RendererStep

\* The play time is the time sought and the time run since, through any number of pauses.
THEOREM Clock == Spec => []ClockFollowsPlay
<1>1. CInv => ClockFollowsPlay
      BY DEF CInv
<1> QED
      BY <1>1, InitCInv, NextCInv, PTL DEF Spec

-----------------------------------------------------------------------------

\* A set of natural numbers that is not empty has a least element.
LEMMA LeastElement ==
  ASSUME NEW S \in SUBSET Nat, S # {}
  PROVE  \E m \in S : \A n \in S : m <= n
<1>1. \E m \in S : \A n \in S : <<n, m>> \notin OpToRel(<, Nat)
      BY WFMin, NatLessThanWellFounded, Zenon
<1>2. PICK m \in S : \A n \in S : <<n, m>> \notin OpToRel(<, Nat)
      BY <1>1
<1>3. \A n \in S : ~(n < m)
      BY <1>2, Zenon DEF OpToRel
<1> QED
      BY <1>3

\* A list that can be rendered has comments, with times and widths that are numbers.
LEMMA LoadedList ==
  ASSUME mCommentList \in Lists
  PROVE  /\ Len(mCommentList) \in Nat \ {0}
         /\ \A i \in Index : mCommentList[i] \in Comment
         /\ \A i, j \in Index : i < j => mCommentList[i].time <= mCommentList[j].time
<1>1. mCommentList \in Seq(Comment) /\ mCommentList # <<>>
      BY ListAssumption
<1>2. Len(mCommentList) \in Nat \ {0}
      BY <1>1
<1>3. \A i \in Index : mCommentList[i] \in Comment
      BY <1>1 DEF Index
<1>4. \A i, j \in Index : i < j => mCommentList[i].time <= mCommentList[j].time
      BY ListAssumption DEF Index
<1> QED
      BY <1>2, <1>3, <1>4

\* Where NextIndex stops: nothing that is still to come lies before it, and it moves to the
\* first that is, or not at all.
LEMMA NextIndexStops ==
  ASSUME mCommentList \in Lists, mCommentIndex \in Index, NEW start \in Index, NEW t \in Int
  PROVE  LET n == NextIndex(start, t)
         IN /\ n \in Index
            /\ \A i \in Index : i >= start /\ i < n => mCommentList[i].time <= t
            /\ \/ n >= start /\ mCommentList[n].time > t
               \/ n = mCommentIndex /\ \A i \in Index : i >= start => mCommentList[i].time <= t
<1> DEFINE later == {i \in start..Len(mCommentList) : mCommentList[i].time > t}
           n == NextIndex(start, t)
<1>1. Len(mCommentList) \in Nat /\ \A i \in Index : mCommentList[i].time \in Nat
      BY LoadedList DEF Comment
<1>2. \A i \in Index : i >= start => i \in later \/ mCommentList[i].time <= t
      BY <1>1 DEF Index
<1>3. CASE later = {}
      BY <1>2, <1>3 DEF NextIndex, Index
<1>4. CASE later # {}
  <2>1. later \in SUBSET Nat /\ later \subseteq Index
        BY <1>1 DEF Index
  <2>2. PICK m \in later : \A j \in later : m <= j
        BY <1>4, <2>1, LeastElement
  <2>3. n \in later /\ \A j \in later : n <= j
        BY <1>4, <2>2, Zenon DEF NextIndex
  <2>4. \A i \in Index : i >= start /\ i < n => i \notin later
        BY <2>1, <2>3
  <2> HIDE DEF n
  <2>5. n \in Index /\ n >= start /\ mCommentList[n].time > t
        BY <2>1, <2>3
  <2>6. \A i \in Index : i >= start /\ i < n => mCommentList[i].time <= t
        BY <1>2, <2>4
  <2> QED
        BY <2>5, <2>6 DEF n
<1> QED
      BY <1>3, <1>4

LEMMA DurationType ==
  ASSUME NEW type, NEW w \in Int
  PROVE  Duration(type, w) \in Int
<1>1. (w + StageWidth) * Pace \in Int
      BY StageAssumption, PaceAssumption
<1>2. \A a \in Int : a \div StageWidth \in Int
      BY StageAssumption
<1> QED
      BY <1>1, <1>2, PaceAssumption DEF Duration

-----------------------------------------------------------------------------
LEMMA InitTInv == Init => TInv
<1> SUFFICES ASSUME Init PROVE TInv
    OBVIOUS
<1>1. fed \in [Index -> 0..2] /\ drawn \in [Index -> {"no", "measured", "cached"}]
      BY DEF Init, Index
<1>2. mExit \in BOOLEAN /\ mPause \in BOOLEAN /\ mSeek \in BOOLEAN
      BY Zenon DEF Init
<1> QED
      BY <1>1, <1>2, TimeAssumption DEF Init, TInv, ClockType, ThreadType, ListType

\* The step that opens a list changes it, Render what is fed and drawn, and no other step either.
Kept == UNCHANGED <<mCommentList, mCommentIndex, fed, drawn>>

LEMMA Keeps ==
  [Next]_vars => Kept \/ Render \/ \E list \in Lists : open(list)
BY DEF Next, RendererStep, close, Joined, openFails, seek, pause, play, Start, Begin, Resume,
   Leave, Sleep, Tick, vars, comments, screen, Kept

\* What open and Render do with the list.
LEMMA OpenListType == ASSUME TInv, NEW list \in Lists, open(list) PROVE ListType'
<1>1. fed' = [i \in 1..Len(list) |-> 0] /\ drawn' = [i \in 1..Len(list) |-> "no"]
      /\ mCommentList' = list /\ mCommentIndex' = mCommentIndex
      BY DEF open
<1> QED
      BY <1>1 DEF TInv, ListType, Index

\* The time of the frame and where its loop starts.
Sought == IF mSeek THEN mTimeOffset ELSE now - mTimeStart
Loop == LoopStart(mSeek)
Now == Draw(Reached(Loop, Sought))
Before(i) == IF mSeek THEN 0 ELSE fed[i]

LEMMA RenderFacts ==
  ASSUME Render
  PROVE  /\ current' = Sought /\ mCommentIndex' = NextIndex(Loop, Sought)
         /\ drawn' = Now /\ mCommentList' = mCommentList
         /\ fed' = [i \in Index |->
                      IF ~IsDue(i, Loop, Now, Sought) THEN Before(i)
                      ELSE IF Before(i) = 2 THEN 2 ELSE Before(i) + 1]
BY Zenon DEF Render, Sought, Loop, Now, Before

LEMMA RenderTypes ==
  ASSUME TInv, JInv, Render
  PROVE  /\ mCommentList \in Lists /\ mCommentIndex \in Index
         /\ Loop \in Index /\ Sought \in Int /\ Now \in [Index -> {"no", "measured", "cached"}]
<1>1. mCommentList \in Lists /\ mCommentIndex \in Index
      BY DEF JInv, Loaded, Playing, Render, Step
<1>2. Loop \in Index
      BY <1>1, LoadedList DEF Loop, LoopStart, Index
<1>3. Sought \in Int
      BY TimeAssumption DEF Sought, TInv, ClockType
<1>4. Now \in [Index -> {"no", "measured", "cached"}]
      BY DEF Now, Draw, TInv, ListType
<1> QED
      BY <1>1, <1>2, <1>3, <1>4

LEMMA RenderListType == ASSUME TInv, JInv, Render PROVE ListType'
<1>1. mCommentIndex' \in Nat \ {0}
      BY RenderFacts, RenderTypes, NextIndexStops DEF Index
<1>2. drawn' \in [Index -> {"no", "measured", "cached"}]
      BY RenderFacts, RenderTypes
<1>3. fed' \in [Index -> 0..2]
  <2>1. \A i \in Index : Before(i) \in 0..2
        BY DEF Before, TInv, ListType
  <2> QED
        BY <2>1, RenderFacts
<1>4. mCommentList' = mCommentList /\ Index' = Index
      BY RenderFacts DEF Index
<1> QED
      BY <1>1, <1>2, <1>3, <1>4 DEF TInv, ListType

LEMMA NextListType == TInv /\ JInv /\ [Next]_vars => ListType'
<1> SUFFICES ASSUME TInv, JInv, [Next]_vars PROVE ListType'
    OBVIOUS
<1>1. CASE Kept
      BY <1>1 DEF Kept, TInv, ListType, Index
<1> QED
      BY <1>1, Keeps, OpenListType, RenderListType

LEMMA NextThreadType == TInv /\ [Next]_vars => ThreadType'
<1> SUFFICES ASSUME TInv, [Next]_vars PROVE ThreadType'
    OBVIOUS
<1> USE TimeAssumption DEF TInv, ClockType, ThreadType, clock, control, frame, comments
<1>1. ASSUME NEW next \in {"idle", "load"}, close(next) PROVE ThreadType'
      BY <1>1 DEF close
<1>2. CASE Joined
      BY <1>2 DEF Joined
<1>3. ASSUME NEW list \in Lists, open(list) PROVE ThreadType'
      BY <1>3 DEF open
<1>4. ASSUME NEW time \in Offset, seek(time) PROVE ThreadType'
      BY <1>4 DEF seek
<1>5. CASE pause
      BY <1>5 DEF pause
<1>6. CASE play
      BY <1>6 DEF play
<1>7. CASE Start
      BY <1>7 DEF Start, Step
<1>8. CASE Begin
      BY <1>8 DEF Begin
<1>9. CASE Resume
      BY <1>9 DEF Resume, Step
<1>10. CASE Leave
      BY <1>10 DEF Leave, Step
<1>11. CASE Render
  <2>1. current' \in Int
        BY <1>11 DEF Render
  <2>2. mExit' \in BOOLEAN /\ mPause' \in BOOLEAN /\ mSeek' \in BOOLEAN
        BY <1>11, Zenon DEF Render
  <2>3. renderer' = "drawn" /\ caller' = caller
        BY <1>11 DEF Render, Step
  <2> QED
        BY <2>1, <2>2, <2>3
<1>12. CASE Sleep
      BY <1>12 DEF Sleep, Step
<1>13. CASE Tick
      BY <1>13 DEF Tick
<1>14. CASE UNCHANGED vars
      BY <1>14 DEF vars
<1>15. CASE openFails
      BY <1>15 DEF openFails
<1> QED
      BY <1>1, <1>2, <1>3, <1>4, <1>5, <1>6, <1>7, <1>8, <1>9, <1>10, <1>11, <1>12, <1>13,
         <1>14, <1>15 DEF Next, RendererStep

LEMMA NextTInv == CInv /\ TInv /\ JInv /\ [Next]_vars => TInv'
BY NextCInv, NextListType, NextThreadType DEF CInv, TInv

-----------------------------------------------------------------------------
LEMMA InitJInv == Init => JInv
BY DEF Init, JInv, Calls, Loaded, Fresh, Seen, Once, NoCommentMissed, Playing, Index

LEMMA EndsType ==
  ASSUME mCommentList \in Lists, ListType, NEW i \in Index
  PROVE  Ends(i) \in Int
<1>1. mCommentList[i] \in Comment
      BY LoadedList
<1>2. Width(i, drawn) \in Int
      BY <1>1 DEF Width, Comment
<1> QED
      BY <1>1, <1>2, DurationType DEF Ends, Comment

\* A step that leaves the list and the layout alone and moves the time of the frame forward,
\* at most.
Quiet ==
  /\ Kept /\ UNCHANGED mPositionManager /\ Calls'
  /\ renderer' # "none" => renderer # "none"
  /\ ~mExit' /\ renderer' \in {"none", "start"} => ~mExit /\ renderer \in {"none", "start"}
  /\ Playing' => Playing /\ FrameTime <= FrameTime'
  /\ renderer' = "drawn"
       => renderer = "drawn" /\ current' = current /\ base + ran <= base' + ran'

LEMMA QuietStep ==
  ASSUME TInv, TInv', JInv, Quiet
  PROVE  JInv'
<1> USE DEF Quiet, Kept
<1>1. Index' = Index
      BY DEF Index
<1>2. Loaded'
  <2>1. renderer' # "none" => mCommentList' \in Lists
        BY DEF JInv, Loaded
  <2>2. Playing' => mCommentIndex' \in Index'
        BY <1>1 DEF JInv, Loaded
  <2>3. renderer' = "drawn" => current' <= base' + ran'
    <3>1. current \in Int /\ base + ran \in Int /\ base' + ran' \in Int
          BY DEF TInv, ClockType, ThreadType
    <3>2. renderer = "drawn" => current <= base + ran
          BY DEF JInv, Loaded
    <3> QED
          BY <3>1, <3>2
  <2> QED
        BY <2>1, <2>2, <2>3 DEF Loaded
<1>3. Fresh'
      BY <1>1 DEF JInv, Fresh
<1>4. FrameTime \in Int /\ FrameTime' \in Int
      BY DEF FrameTime, TInv, ClockType, ThreadType
<1>5. Seen'
  <2> SUFFICES ASSUME Playing', NEW i \in Index, i < mCommentIndex
               PROVE  drawn[i] # "no" /\ (fed[i] >= 1 \/ Ends(i)' <= FrameTime')
      BY <1>1 DEF Seen
  <2>1. Ends(i)' = Ends(i)
        BY DEF Ends, Width
  <2>2. mCommentList \in Lists
        BY <1>2 DEF Loaded, Playing, JInv
  <2>3. Ends(i) \in Int
        BY <2>2, EndsType DEF TInv
  <2>4. drawn[i] # "no" /\ (fed[i] >= 1 \/ Ends(i) <= FrameTime)
        BY DEF JInv, Seen
  <2> QED
        BY <1>4, <2>1, <2>3, <2>4
<1>6. Once'
  <2> SUFFICES ASSUME Playing', Last(mCommentList).time > FrameTime'
               PROVE  \A i \in Index : fed[i] <= 1 /\ (i >= mCommentIndex => fed[i] = 0)
      BY <1>1 DEF Once
  <2>1. mCommentList \in Lists
        BY DEF Loaded, Playing, JInv
  <2>2. Last(mCommentList).time \in Nat
        BY <2>1, LoadedList DEF Last, Index, Comment
  <2>3. Last(mCommentList).time > FrameTime
        BY <1>4, <2>2
  <2> QED
        BY <2>3 DEF JInv, Once
<1>7. NoCommentMissed'
  <2>1. \A i \in Index : OnScreen(i, drawn, current)' <=> OnScreen(i, drawn, current')
        BY DEF OnScreen, Width
  <2> QED
        BY <1>1, <2>1 DEF JInv, NoCommentMissed
<1> QED
      BY <1>2, <1>3, <1>5, <1>6, <1>7 DEF JInv

\* The renderer starts with the first comment of its list, of which none was fed.
LEMMA StartStep == ASSUME TInv, TInv', JInv, Start PROVE JInv'
<1>1. Kept /\ renderer = "start" /\ renderer' = "frame" /\ UNCHANGED <<caller, mExit>>
      BY DEF Start, Step, comments, screen, control, Kept
<1>2. Index' = Index /\ mCommentList' \in Lists /\ mCommentList \in Lists
      BY <1>1 DEF Kept, Index, JInv, Loaded
<1>3. 1 \in Index
      BY <1>2, LoadedList DEF Index
<1>4. ~mExit => mCommentIndex = 1 /\ \A i \in Index : fed[i] = 0
      BY <1>1 DEF JInv, Fresh
<1>5. Seen'
      BY <1>1, <1>2, <1>4 DEF Seen, Kept, Playing, Index
<1>6. Once'
      BY <1>1, <1>2, <1>4 DEF Once, Kept, Playing
<1> QED
      BY <1>1, <1>2, <1>3, <1>4, <1>5, <1>6
         DEF JInv, Calls, Loaded, Fresh, NoCommentMissed, Kept, Playing

LEMMA OpenStep == ASSUME TInv, TInv', JInv, NEW list \in Lists, open(list) PROVE JInv'
<1>1. /\ renderer = "none" /\ renderer' = "start" /\ caller' = "idle"
      /\ mCommentList' = list /\ mCommentIndex' = mCommentIndex /\ mExit' = mExit
      /\ fed' = [i \in 1..Len(list) |-> 0]
      BY DEF open, JInv, Calls, control
<1>2. Fresh'
      BY <1>1 DEF JInv, Fresh, Index
<1> QED
      BY <1>1, <1>2 DEF JInv, Calls, Loaded, Seen, Once, NoCommentMissed, Playing

\* What the loop of Render has fed and drawn, comment by comment.
LEMMA RenderLoop ==
  ASSUME CInv, TInv, JInv, Render, NEW i \in Index
  PROVE  /\ mCommentList[i].time \in Nat
         /\ mCommentList[i].time + Duration(mCommentList[i].type, Width(i, Now)) \in Int
         /\ IsDue(i, Loop, Now, Sought) => fed'[i] \in 1..2 /\ (Before(i) = 0 => fed'[i] = 1)
         /\ ~IsDue(i, Loop, Now, Sought) => fed'[i] = Before(i)
         /\ drawn[i] # "no" => Now[i] = drawn[i]
         /\ i >= Loop /\ mCommentList[i].time <= Sought => Now[i] # "no"
<1>1. mCommentList[i] \in Comment
      BY RenderTypes, LoadedList
<1>2. Width(i, Now) \in Int
      BY <1>1 DEF Width, Comment
<1>3. mCommentList[i].time + Duration(mCommentList[i].type, Width(i, Now)) \in Int
      BY <1>1, <1>2, DurationType DEF Comment
<1>4. Before(i) \in 0..2
      BY DEF Before, TInv, ListType
<1>5. IsDue(i, Loop, Now, Sought) => fed'[i] \in 1..2 /\ (Before(i) = 0 => fed'[i] = 1)
      BY <1>4, RenderFacts
<1>6. ~IsDue(i, Loop, Now, Sought) => fed'[i] = Before(i)
      BY RenderFacts
<1>7. drawn[i] # "no" => Now[i] = drawn[i]
      BY DEF Now, Draw, Undrawn
<1>8. i >= Loop /\ mCommentList[i].time <= Sought => Now[i] # "no"
  <2>1. i \in Index /\ i >= Loop /\ mCommentList[i].time <= Sought => i \in Reached(Loop, Sought)
        BY RenderTypes, LoadedList DEF Reached, Index
  <2>2. i \in Reached(Loop, Sought) => Now[i] # "no"
        BY DEF Now, Draw, Undrawn
  <2> QED
        BY <2>1, <2>2
<1> QED
      BY <1>1, <1>3, <1>5, <1>6, <1>7, <1>8 DEF Comment

\* Without a seek the frame goes on where the last one stopped.
LEMMA RenderGoesOn ==
  ASSUME CInv, TInv, JInv, Render, ~mSeek
  PROVE  /\ Loop = mCommentIndex /\ Sought = FrameTime /\ FrameTime \in Int
         /\ \A i \in Index : Before(i) = fed[i]
         /\ \A i \in Index : i < Loop => drawn[i] # "no" /\ (fed[i] >= 1 \/ Ends(i) <= Sought)
<1>1. renderer = "awake" /\ ~mExit
      BY DEF Render, Step
<1>2. Sought = FrameTime /\ FrameTime \in Int
      BY <1>1 DEF Sought, FrameTime, CInv, ClockFollowsPlay, TInv, ClockType
<1>3. Loop = mCommentIndex /\ \A i \in Index : Before(i) = fed[i]
      BY DEF Loop, LoopStart, Before
<1>4. Playing
      BY <1>1 DEF Playing
<1> QED
      BY <1>2, <1>3, <1>4 DEF JInv, Seen

LEMMA RenderStep == ASSUME CInv, TInv, TInv', JInv, Render PROVE JInv'
<1>1. /\ renderer' = "drawn" /\ caller' = caller /\ mExit' = mExit
      /\ renderer = "awake" /\ ~mExit
      BY DEF Render, Step
<1> DEFINE n == NextIndex(Loop, Sought)
           EndsNow(i) == mCommentList[i].time + Duration(mCommentList[i].type, Width(i, Now))
<1>2. /\ mCommentList \in Lists /\ mCommentIndex \in Index
      /\ Loop \in Index /\ Sought \in Int /\ Len(mCommentList) \in Nat \ {0}
      BY RenderTypes, LoadedList
<1>3. /\ n \in Index /\ \A i \in Index : i >= Loop /\ i < n => mCommentList[i].time <= Sought
      /\ \/ n >= Loop /\ mCommentList[n].time > Sought
         \/ n = mCommentIndex /\ \A i \in Index : i >= Loop => mCommentList[i].time <= Sought
      BY <1>2, NextIndexStops
<1>4. /\ current' = Sought /\ mCommentIndex' = n /\ drawn' = Now
      /\ mCommentList' = mCommentList /\ Index' = Index
      BY RenderFacts DEF Index
<1> HIDE DEF n
<1>5. \A i \in Index : IsDue(i, Loop, Now, Sought)
                     <=> i >= Loop /\ mCommentList[i].time <= Sought /\ Sought < EndsNow(i)
      BY DEF IsDue, OnScreen
<1>6. \A i \in Index : i < Loop => ~mSeek
      BY <1>2 DEF Loop, LoopStart, Index
<1>7. \A i \in Index : i < Loop =>
        Now[i] # "no" /\ fed'[i] = fed[i] /\ (fed[i] >= 1 \/ EndsNow(i) <= Sought)
  <2> SUFFICES ASSUME NEW i \in Index, i < Loop
               PROVE  Now[i] # "no" /\ fed'[i] = fed[i] /\ (fed[i] >= 1 \/ EndsNow(i) <= Sought)
      OBVIOUS
  <2>1. drawn[i] # "no" /\ (fed[i] >= 1 \/ Ends(i) <= Sought) /\ Before(i) = fed[i]
        BY <1>6, RenderGoesOn
  <2>2. Now[i] = drawn[i]
        BY <2>1, RenderLoop
  <2>3. EndsNow(i) = Ends(i)
        BY <2>2 DEF Ends, Width
  <2>4. ~IsDue(i, Loop, Now, Sought)
        BY <1>2, <1>5 DEF Index
  <2>5. fed'[i] = Before(i)
        BY <2>4, RenderLoop
  <2> QED
        BY <2>1, <2>2, <2>3, <2>5
<1>8. \A i \in Index : i >= Loop /\ i < n =>
        Now[i] # "no" /\ (fed'[i] >= 1 \/ EndsNow(i) <= Sought)
  <2> SUFFICES ASSUME NEW i \in Index, i >= Loop, i < n
               PROVE  Now[i] # "no" /\ (fed'[i] >= 1 \/ EndsNow(i) <= Sought)
      OBVIOUS
  <2>1. mCommentList[i].time <= Sought
        BY <1>3
  <2>2. Now[i] # "no" /\ EndsNow(i) \in Int
        BY <2>1, RenderLoop
  <2>3. CASE IsDue(i, Loop, Now, Sought)
        BY <2>2, <2>3, RenderLoop
  <2>4. CASE ~IsDue(i, Loop, Now, Sought)
        BY <1>2, <1>5, <2>1, <2>2, <2>4
  <2> QED
        BY <2>3, <2>4
<1>9. Seen'
  <2>1. \A i \in Index : Ends(i)' = EndsNow(i)
        BY <1>4 DEF Ends, Width
  <2>2. FrameTime' = Sought
        BY <1>1, <1>4 DEF FrameTime
  <2>3. \A i \in Index : i < Loop \/ i >= Loop
        BY <1>2 DEF Index
  <2> QED
        BY <1>4, <1>7, <1>8, <2>1, <2>2, <2>3 DEF Seen
<1>10. NoCommentMissed'
  <2> SUFFICES ASSUME NEW i \in Index, OnScreen(i, Now, Sought) PROVE fed'[i] >= 1
      BY <1>4 DEF NoCommentMissed, OnScreen, Width
  <2>1. mCommentList[i].time <= Sought /\ Sought < EndsNow(i) /\ EndsNow(i) \in Int
        BY RenderLoop DEF OnScreen
  <2>2. CASE i < Loop
        BY <1>2, <1>7, <2>1, <2>2
  <2>3. CASE i >= Loop
    <3>1. IsDue(i, Loop, Now, Sought)
          BY <2>3 DEF IsDue
    <3> QED
          BY <3>1, RenderLoop
  <2> QED
        BY <1>2, <2>2, <2>3 DEF Index
<1>11. Once'
  <2> SUFFICES ASSUME Last(mCommentList).time > Sought
               PROVE  \A i \in Index : fed'[i] <= 1 /\ (i >= n => fed'[i] = 0)
      BY <1>1, <1>4 DEF Once, FrameTime
  <2> DEFINE last == Len(mCommentList)
  <2>1. last \in Index /\ mCommentList[last].time > Sought /\ mCommentList[last].time \in Nat
        BY <1>2, RenderLoop DEF Index, Last
  <2>2. n >= Loop /\ mCommentList[n].time > Sought
        BY <1>2, <1>3, <2>1 DEF Index
  <2>3. \A i \in Index : i >= Loop => Before(i) = 0
    <3>1. CASE mSeek
          BY <3>1 DEF Before
    <3>2. CASE ~mSeek
      <4>1. Loop = mCommentIndex /\ Sought = FrameTime /\ \A i \in Index : Before(i) = fed[i]
            BY <3>2, RenderGoesOn
      <4>2. Playing
            BY <1>1 DEF Playing
      <4> QED
            BY <4>1, <4>2 DEF JInv, Once
    <3> QED
          BY <3>1, <3>2
  <2>4. \A i \in Index : i < Loop => fed[i] <= 1
    <3> SUFFICES ASSUME NEW i \in Index, i < Loop PROVE fed[i] <= 1
        OBVIOUS
    <3>1. Sought = FrameTime /\ Playing
          BY <1>1, <1>6, RenderGoesOn DEF Playing
    <3> QED
          BY <3>1 DEF JInv, Once
  <2>5. ASSUME NEW i \in Index, i < Loop PROVE fed'[i] <= 1 /\ i < n
        BY <1>2, <1>3, <1>7, <2>2, <2>4, <2>5 DEF Index
  <2>6. ASSUME NEW i \in Index, i >= Loop PROVE fed'[i] <= 1
    <3>1. Before(i) = 0
          BY <2>3, <2>6
    <3> QED
          BY <3>1, RenderLoop
  <2>7. ASSUME NEW i \in Index, i >= n PROVE fed'[i] = 0
    <3>1. i >= Loop
          BY <1>2, <1>3, <2>2, <2>7 DEF Index
    <3>2. mCommentList[n].time <= mCommentList[i].time
          BY <1>2, <1>3, <2>7, LoadedList, RenderLoop DEF Index
    <3>3. ~IsDue(i, Loop, Now, Sought)
          BY <1>2, <1>3, <1>5, <2>2, <3>2, RenderLoop
    <3> QED
          BY <2>3, <3>1, <3>3, RenderLoop
  <2> QED
        BY <1>2, <1>3, <2>5, <2>6, <2>7 DEF Index
<1>12. Loaded'
  <2>1. current' <= base' + ran'
    <3>1. CASE mSeek
      <4>1. base' = mTimeOffset /\ ran' = 0 /\ mTimeOffset \in Nat
            BY <3>1, TimeAssumption DEF Render, TInv, ClockType
      <4> QED
            BY <3>1, <4>1, <1>4 DEF Sought
    <3>2. CASE ~mSeek
      <4>1. base' = base /\ ran' = ran
            BY <3>2 DEF Render, clock
      <4>2. current' = base + ran /\ base + ran \in Int
            BY <3>2, <1>1, <1>4, RenderGoesOn DEF FrameTime
      <4> QED
            BY <4>1, <4>2
    <3> QED
          BY <3>1, <3>2
  <2> QED
        BY <1>1, <1>2, <1>3, <1>4, <2>1 DEF Loaded
<1> QED
      BY <1>1, <1>9, <1>10, <1>11, <1>12 DEF JInv, Calls, Fresh

LEMMA NextQuiet ==
  ASSUME TInv, TInv', JInv, [Next]_vars
  PROVE  Quiet \/ Start \/ Render \/ \E list \in Lists : open(list)
<1>1. base + ran \in Int /\ base + ran <= base + ran + 1 /\ current \in Int
      BY DEF TInv, ClockType, ThreadType
<1> USE DEF clock, control, frame, comments, screen, Kept, Quiet, Playing, FrameTime
<1>2. ASSUME NEW next \in {"idle", "load"}, close(next) PROVE Quiet
  <2>1. Calls'
        BY <1>2 DEF close, JInv, Calls
  <2> QED
        BY <1>1, <1>2, <2>1 DEF close
<1>3. CASE Joined
  <2>1. Calls'
        BY <1>3 DEF Joined, JInv, Calls
  <2>2. mExit
        BY <1>3 DEF Joined, JInv, Calls
  <2> QED
        BY <1>1, <1>3, <2>1, <2>2 DEF Joined
<1>4. CASE openFails
  <2>1. Calls'
        BY <1>4 DEF openFails, JInv, Calls
  <2> QED
        BY <1>1, <1>4, <2>1 DEF openFails
<1>5. ASSUME NEW time \in Offset, seek(time) PROVE Quiet
  <2>1. Calls'
        BY <1>5 DEF seek, JInv, Calls
  <2> QED
        BY <1>1, <1>5, <2>1 DEF seek
<1>6. CASE pause
  <2>1. Calls'
        BY <1>6 DEF pause, JInv, Calls
  <2> QED
        BY <1>1, <1>6, <2>1 DEF pause
<1>7. CASE play
  <2>1. Calls'
        BY <1>7 DEF play, JInv, Calls
  <2> QED
        BY <1>1, <1>7, <2>1 DEF play
<1>8. CASE Begin
  <2>1. Calls' /\ UNCHANGED <<mExit, clock>>
        BY <1>8 DEF Begin, JInv, Calls
  <2> QED
        BY <1>1, <1>8, <2>1 DEF Begin
<1>9. CASE Resume
  <2>1. Calls'
        BY <1>9 DEF Resume, Step, JInv, Calls
  <2> QED
        BY <1>1, <1>9, <2>1 DEF Resume, Step
<1>10. CASE Leave
  <2>1. Calls'
        BY <1>10 DEF Leave, Step, JInv, Calls
  <2> QED
        BY <1>1, <1>10, <2>1 DEF Leave, Step
<1>11. CASE Sleep
  <2>1. Calls'
        BY <1>11 DEF Sleep, Step, JInv, Calls
  <2>2. current <= base + ran
        BY <1>11 DEF Sleep, Step, JInv, Loaded
  <2> QED
        BY <1>1, <1>11, <2>1, <2>2 DEF Sleep, Step
<1>12. CASE Tick
  <2>1. Calls'
        BY <1>12 DEF Tick, JInv, Calls
  <2>2. base + ran <= base' + ran'
        BY <1>1, <1>12 DEF Tick, TInv, ClockType
  <2> QED
        BY <1>1, <1>12, <2>1, <2>2 DEF Tick
<1>13. CASE UNCHANGED vars
  <2>1. Calls'
        BY <1>13 DEF vars, JInv, Calls
  <2> QED
        BY <1>1, <1>13, <2>1 DEF vars
<1> QED
      BY <1>2, <1>3, <1>4, <1>5, <1>6, <1>7, <1>8, <1>9, <1>10, <1>11, <1>12, <1>13
         DEF Next, RendererStep

LEMMA NextJInv == CInv /\ TInv /\ TInv' /\ JInv /\ [Next]_vars => JInv'
BY NextQuiet, QuietStep, StartStep, OpenStep, RenderStep

-----------------------------------------------------------------------------
\* The safety part of CloseReturns: who joins the renderer has told it to end, and it is not
\* waiting for play, nor will it.
CloseIsHeard ==
  caller \in {"join", "rejoin"} => renderer # "none" /\ mExit /\ ~mPause

\* Whatever the renderer is in when it is closed, also in its pause, join waits for one that
\* is about to end: nothing pauses it again.
THEOREM CloseHeard == Spec => []CloseIsHeard
<1>1. Init => CloseIsHeard
      BY DEF Init, CloseIsHeard
<1>2. CloseIsHeard /\ [Next]_vars => CloseIsHeard'
  <2> SUFFICES ASSUME CloseIsHeard, [Next]_vars PROVE CloseIsHeard'
      OBVIOUS
  <2> USE DEF CloseIsHeard, control, frame, comments
  <2>1. ASSUME NEW next \in {"idle", "load"}, close(next) PROVE CloseIsHeard'
        BY <2>1 DEF close
  <2>2. CASE Joined
        BY <2>2 DEF Joined
  <2>3. ASSUME NEW list \in Lists, open(list) PROVE CloseIsHeard'
        BY <2>3 DEF open
  <2>4. CASE openFails
        BY <2>4 DEF openFails
  <2>5. ASSUME NEW time \in Offset, seek(time) PROVE CloseIsHeard'
        BY <2>5 DEF seek
  <2>6. CASE pause \/ play
        BY <2>6 DEF pause, play
  <2>7. CASE Start \/ Resume \/ Leave \/ Sleep
        BY <2>7 DEF Start, Resume, Leave, Sleep, Step
  <2>8. CASE Begin
        BY <2>8 DEF Begin
  <2>9. CASE Render
        BY <2>9 DEF Render, Step
  <2>10. CASE Tick
        BY <2>10 DEF Tick
  <2>11. CASE UNCHANGED vars
        BY <2>11 DEF vars
  <2> QED
      BY <2>1, <2>2, <2>3, <2>4, <2>5, <2>6, <2>7, <2>8, <2>9, <2>10, <2>11
         DEF Next, RendererStep
<1> QED
      BY <1>1, <1>2, PTL DEF Spec

\* The type, the clock and the list are right in every state.
THEOREM Inductive == Spec => [](CInv /\ TInv /\ JInv)
BY InitCInv, InitTInv, InitJInv, NextCInv, NextTInv, NextJInv, PTL DEF Spec

\* The state keeps its type; the index stays in the list that is rendered.
THEOREM Typed == Spec => []TypeOK
<1>1. TInv /\ JInv => TypeOK
      BY DEF TInv, ClockType, ThreadType, ListType, JInv, Loaded, Playing, TypeOK
<1> QED
      BY <1>1, Inductive, PTL

\* No frame misses a comment that is due, whatever the list and however often it is sought.
THEOREM NothingMissed == Spec => []NoCommentMissed
<1>1. JInv => NoCommentMissed
      BY DEF JInv
<1> QED
      BY <1>1, Inductive, PTL

\* Before the list has come to its end no comment gets a second place.
THEOREM OnePlace == Spec => []FedOnce
<1>1. TInv /\ JInv => FedOnce
      BY DEF TInv, JInv, Once, FedOnce, Playing, FrameTime
<1> QED
      BY <1>1, Inductive, PTL

-----------------------------------------------------------------------------
(* How far a flying comment has come: the divisions of Way and Duration. *)

\* A quotient, and what the division leaves.
LEMMA DivFacts ==
  ASSUME NEW a \in Int, NEW b \in Int, b >= 1
  PROVE  a \div b \in Int /\ (a \div b) * b <= a /\ a < (a \div b) * b + b
OBVIOUS

LEMMA MulMono ==
  ASSUME NEW x \in Int, NEW y \in Int, NEW z \in Int, x <= y, z >= 0
  PROVE  x * z <= y * z
OBVIOUS

\* An upper, and a lower bound of a quotient from one of the dividend.
LEMMA DivBound ==
  ASSUME NEW a \in Int, NEW b \in Int, b >= 1, NEW q \in Int
  PROVE  /\ q * b <= a => q <= a \div b
         /\ a <= q * b => a \div b <= q
         /\ a < q * b => a \div b < q
<1> DEFINE d == a \div b
<1>1. d \in Int /\ d * b <= a /\ a < d * b + b
      BY DivFacts
<1> HIDE DEF d
<1>2. ASSUME q * b <= a PROVE q <= d
  <2> SUFFICES ASSUME d + 1 <= q PROVE FALSE
      BY <1>1
  <2>1. (d + 1) * b <= q * b
        BY <1>1, MulMono
  <2> QED
        BY <1>1, <1>2, <2>1
<1>3. ASSUME a < q * b PROVE d < q
  <2> SUFFICES ASSUME q <= d PROVE FALSE
      BY <1>1
  <2>1. q * b <= d * b
        BY <1>1, MulMono
  <2> QED
        BY <1>1, <1>3, <2>1
<1>4. ASSUME a <= q * b PROVE d <= q
  <2> SUFFICES ASSUME q + 1 <= d PROVE FALSE
      BY <1>1
  <2>1. (q + 1) * b <= d * b
        BY <1>1, MulMono
  <2> QED
        BY <1>1, <1>4, <2>1
<1> QED
      BY <1>2, <1>3, <1>4 DEF d

\* A comment takes time to cross the stage: its duration, for S * D of which it goes P
\* times its way, but for what the division rounds off.
LEMMA FlyDuration ==
  ASSUME NEW w \in Int, w >= -1
  PROVE  LET D == Duration("fly", w)
         IN D \in Int /\ D >= 1 /\ D * StageWidth <= (w + StageWidth) * Pace
              /\ (w + StageWidth) * Pace < D * StageWidth + StageWidth
<1> DEFINE a == (w + StageWidth) * Pace
           D == a \div StageWidth
<1>1. StageWidth \in Int /\ StageWidth >= 2 /\ Pace \in Int /\ Pace >= 2
      BY StageAssumption, PaceAssumption
<1>2. a \in Int
      BY <1>1
<1>3. a >= StageWidth
  <2>1. (w + StageWidth) * Pace >= (w + StageWidth) * 2
        BY <1>1
  <2> QED
        BY <1>1, <2>1
<1> HIDE DEF a
<1>4. D \in Int /\ D * StageWidth <= a /\ a < D * StageWidth + StageWidth
      BY <1>1, <1>2, DivFacts
<1>5. D >= 1
      BY <1>1, <1>2, <1>3, DivBound
<1>6. Duration("fly", w) = D
      BY DEF Duration, a
<1> QED
      BY <1>4, <1>5, <1>6 DEF a

\* The way of a comment does not get shorter, and is the stage and its width when it is over.
LEMMA WayFacts ==
  ASSUME NEW p, p.width \in Int, p.width >= -1, p.time \in Int, NEW t \in Int
  PROVE  /\ Way(p, t) \in Int
         /\ \A u \in Int : t <= u => Way(p, t) <= Way(p, u)
         /\ p.time <= t => Way(p, t) >= 0
         /\ t <= p.time + Duration("fly", p.width) => Way(p, t) <= p.width + StageWidth
<1> DEFINE b == p.width + StageWidth
           D == Duration("fly", p.width)
           A(u) == (u - p.time) * b
<1>1. b \in Int /\ b >= 1 /\ D \in Int /\ D >= 1
      BY FlyDuration, StageAssumption
<1>2. \A u \in Int : Way(p, u) = A(u) \div D
      BY DEF Way
<1> HIDE DEF D, b
<1>3. \A u \in Int : A(u) \in Int
      BY <1>1
<1>4. \A u, v \in Int : u <= v => A(u) <= A(v)
      BY <1>1, MulMono
<1> HIDE DEF A
<1>5. \A u \in Int : A(u) \div D \in Int /\ (A(u) \div D) * D <= A(u)
      BY <1>1, <1>3, DivFacts
<1>6. ASSUME NEW u \in Int, t <= u PROVE Way(p, t) <= Way(p, u)
  <2>1. (A(t) \div D) * D <= A(u)
        BY <1>3, <1>4, <1>5, <1>6, <1>1
  <2> QED
        BY <1>1, <1>2, <1>3, <1>5, <2>1, DivBound
<1>7. ASSUME p.time <= t PROVE Way(p, t) >= 0
  <2>1. A(t) >= 0 * D
        BY <1>1, <1>7 DEF A
  <2> QED
        BY <1>1, <1>2, <1>3, <2>1, DivBound
<1>8. ASSUME t <= p.time + D PROVE Way(p, t) <= b
  <2>1. (t - p.time) * b <= D * b
        BY <1>1, <1>8, MulMono
  <2>2. A(t) <= b * D
        BY <1>1, <2>1 DEF A
  <2> QED
        BY <1>1, <1>2, <1>3, <2>2, DivBound
<1> QED
      BY <1>2, <1>3, <1>5, <1>6, <1>7, <1>8 DEF b, D

\* Two comments that cross the stage, a and b the ways that they have, u the time the second
\* has crossed for, n its way, and k the way of the first beyond its own width when the second
\* comes, at least one tick earlier.  The first stays ahead.
LEMMA AheadStays ==
  ASSUME NEW a \in Int, a >= 1, NEW b \in Int, b >= 1,
         NEW D \in Int, D >= 1, D * StageWidth <= a * Pace,
         NEW E \in Int, E >= 1, b * Pace < E * StageWidth + StageWidth,
         NEW u \in Int, 0 <= u, u <= E
  PROVE  ((u * b) \div E - 1) * D <= (u + 1) * a
<1> DEFINE n == (u * b) \div E
           S == StageWidth
           P == Pace
<1>1. S \in Int /\ S >= 2 /\ P \in Int /\ P >= 2
      BY StageAssumption, PaceAssumption
<1>2. u * b \in Int /\ u * b <= b * E /\ 0 * E <= u * b
      BY MulMono
<1> HIDE DEF S, P
<1>3. n \in Int /\ n * E <= u * b /\ n <= b /\ n >= 0
  <2> DEFINE v == u * b
  <2>1. v \in Int /\ v <= b * E /\ 0 * E <= v
        BY <1>2
  <2> HIDE DEF v
  <2>2. v \div E \in Int /\ (v \div E) * E <= v /\ v \div E <= b /\ 0 <= v \div E
        BY <2>1, DivFacts, DivBound
  <2> QED
        BY <2>2 DEF v
<1> HIDE DEF n
<1>4. CASE n = 0
  <2>1. (u + 1) * a >= 0
        BY <1>1, MulMono
  <2> QED
        BY <1>4, <2>1 DEF n
<1>5. CASE n >= 1
  <2>1. n * (b * P) <= n * (E * S + S - 1)
    <3> DEFINE x == b * P
               y == E * S + S - 1
    <3>1. x \in Int /\ y \in Int /\ x <= y
          BY <1>1 DEF S, P
    <3> HIDE DEF x, y
    <3>2. x * n <= y * n
          BY <1>3, <3>1, MulMono
    <3>3. n * x <= n * y
          BY <1>3, <3>1, <3>2
    <3> QED
          BY <3>3 DEF x, y
  <2>2. (n * E) * S <= (u * b) * S
        BY <1>1, <1>2, <1>3, MulMono
  <2>3. n * (S - 1) <= b * (S - 1)
        BY <1>1, <1>3, MulMono
  <2>4. n * (E * S + S - 1) = (n * E) * S + n * (S - 1)
        BY <1>1, <1>3
  <2>5. (n * P) * b = n * (b * P)
        BY <1>1, <1>3
  <2>6. (u * b) * S + b * (S - 1) = (u * S + S - 1) * b
        BY <1>1
  <2>7. (n * P) * b <= (u * S + S - 1) * b
    <3> DEFINE x1 == n * (b * P)
               x2 == n * (E * S + S - 1)
               x3 == (n * E) * S
               x4 == n * (S - 1)
               x5 == (u * b) * S
               x6 == b * (S - 1)
    <3>1. x1 \in Int /\ x2 \in Int /\ x3 \in Int /\ x4 \in Int /\ x5 \in Int /\ x6 \in Int
          BY <1>1, <1>3
    <3>2. x1 <= x2 /\ x3 <= x5 /\ x4 <= x6 /\ x2 = x3 + x4
          BY <2>1, <2>2, <2>3, <2>4
    <3> HIDE DEF x1, x2, x3, x4, x5, x6
    <3>3. x1 <= x5 + x6
          BY <3>1, <3>2
    <3> QED
          BY <2>5, <2>6, <3>3 DEF x1, x5, x6
  <2>8. n * P <= u * S + S - 1
    <3> DEFINE x == n * P
               y == u * S + S - 1
    <3>1. x \in Int /\ y \in Int
          BY <1>1, <1>3
    <3>2. x * b <= y * b
          BY <2>7
    <3> HIDE DEF x, y
    <3>3. x <= y
      <4> SUFFICES ASSUME y + 1 <= x PROVE FALSE
          BY <3>1
      <4>1. (y + 1) * b <= x * b
            BY <3>1, MulMono
      <4>2. (y + 1) * b = y * b + b
            BY <3>1
      <4> QED
            BY <3>1, <3>2, <4>1, <4>2
    <3> QED
          BY <3>3 DEF x, y
  <2>9. (n - 1) * P <= (u + 1) * S
        BY <1>1, <1>3, <2>8
  <2>10. ((n - 1) * D) * S <= ((u + 1) * a) * S
    <3>1. D * S <= a * P
          BY DEF S, P
    <3>2. (D * S) * (n - 1) <= (a * P) * (n - 1)
          BY <1>1, <1>3, <1>5, <3>1, MulMono
    <3>3. ((n - 1) * P) * a <= ((u + 1) * S) * a
          BY <1>1, <1>3, <2>9, MulMono
    <3>4. (D * S) * (n - 1) = ((n - 1) * D) * S
          BY <1>1, <1>3
    <3>5. (a * P) * (n - 1) = ((n - 1) * P) * a
          BY <1>1, <1>3
    <3>6. ((u + 1) * S) * a = ((u + 1) * a) * S
          BY <1>1
    <3> DEFINE x == ((n - 1) * D) * S
               y == ((n - 1) * P) * a
               z == ((u + 1) * a) * S
    <3>7. x \in Int /\ y \in Int /\ z \in Int
          BY <1>1, <1>3
    <3>8. x <= y /\ y <= z
          BY <3>2, <3>3, <3>4, <3>5, <3>6
    <3> HIDE DEF x, y, z
    <3>9. x <= z
          BY <3>7, <3>8
    <3> QED
          BY <3>9 DEF x, z
  <2>11. (n - 1) * D <= (u + 1) * a
    <3> DEFINE x == (n - 1) * D
               y == (u + 1) * a
    <3>1. x \in Int /\ y \in Int /\ x * S <= y * S
          BY <1>1, <1>3, <2>10
    <3> HIDE DEF x, y
    <3>2. x <= y
      <4> SUFFICES ASSUME y + 1 <= x PROVE FALSE
          BY <3>1
      <4>1. (y + 1) * S <= x * S
            BY <1>1, <3>1, MulMono
      <4>2. (y + 1) * S = y * S + S
            BY <1>1, <3>1
      <4> QED
            BY <1>1, <3>1, <4>1, <4>2
    <3> QED
          BY <3>2 DEF x, y
  <2> QED
        BY <2>11 DEF n
<1> QED
      BY <1>3, <1>4, <1>5

\* A comment whose tail was in one tick before the next came stays ahead of it, with its
\* tail, until the next is over: however wide they are, and whatever the divisions round off.
LEMMA StaysAhead ==
  ASSUME NEW p, p.width \in Int, p.width >= 1, p.time \in Int,
         NEW q, q.width \in Int, q.width >= 1, q.time \in Int,
         Way(p, q.time - 1) > p.width,
         NEW t \in Int, q.time <= t, t <= q.time + Duration("fly", q.width)
  PROVE  X(p, t) + p.width <= X(q, t)
<1> DEFINE a == p.width + StageWidth
           b == q.width + StageWidth
           D == Duration("fly", p.width)
           E == Duration("fly", q.width)
           m == q.time - 1 - p.time
           u == t - q.time
           n == (u * b) \div E
<1>1. /\ a \in Int /\ a >= 1 /\ D \in Int /\ D >= 1 /\ D * StageWidth <= a * Pace
      /\ b \in Int /\ b >= 1 /\ E \in Int /\ E >= 1 /\ b * Pace < E * StageWidth + StageWidth
      BY FlyDuration, StageAssumption
<1>2. m \in Int /\ u \in Int /\ 0 <= u /\ u <= E /\ t - p.time = m + 1 + u
      BY <1>1
<1>3. Way(p, q.time - 1) = (m * a) \div D /\ Way(q, t) = n /\ Way(p, t) = ((m + 1 + u) * a) \div D
      BY <1>2 DEF Way
<1> HIDE DEF a, b, D, E, m, u
<1>4. (n - 1) * D <= (u + 1) * a
      BY <1>1, <1>2, AheadStays
<1>5. n \in Int
      BY <1>1, <1>2, DivFacts
<1> HIDE DEF n
<1>6. (p.width + 1) * D <= m * a
  <2> DEFINE x == m * a
  <2>1. x \in Int
        BY <1>1, <1>2
  <2> HIDE DEF x
  <2>2. x \div D \in Int /\ (x \div D) * D <= x /\ p.width + 1 <= x \div D
        BY <1>1, <1>3, <2>1, DivFacts DEF x
  <2>3. (p.width + 1) * D <= (x \div D) * D
        BY <1>1, <2>2, MulMono
  <2>4. (p.width + 1) * D \in Int /\ (x \div D) * D \in Int
        BY <1>1, <2>2
  <2> QED
        BY <2>1, <2>2, <2>3, <2>4 DEF x
<1>7. (p.width + n) * D <= (m + 1 + u) * a
  <2>1. (p.width + n) * D = (p.width + 1) * D + (n - 1) * D
        BY <1>1, <1>5
  <2>2. (m + 1 + u) * a = m * a + (u + 1) * a
        BY <1>1, <1>2
  <2>3. (p.width + 1) * D \in Int /\ (n - 1) * D \in Int /\ m * a \in Int /\ (u + 1) * a \in Int
        BY <1>1, <1>2, <1>5
  <2> QED
        BY <1>4, <1>6, <2>1, <2>2, <2>3
<1>8. p.width + n <= Way(p, t)
  <2> DEFINE x == (m + 1 + u) * a
  <2>1. x \in Int /\ p.width + n \in Int /\ (p.width + n) * D <= x
        BY <1>1, <1>2, <1>5, <1>7
  <2> HIDE DEF x
  <2>2. p.width + n <= x \div D
        BY <1>1, <2>1, DivBound
  <2> QED
        BY <1>3, <2>2 DEF x
<1> QED
      BY <1>3, <1>5, <1>8, WayFacts, StageAssumption DEF X

-----------------------------------------------------------------------------
(* Sequences: InsertAt, Append and what an iterator leaves of a list. *)

\* longer is list with x in the place at.
Inserted(longer, list, at, x) ==
  /\ DOMAIN longer = 1..(Len(list) + 1) /\ longer[at] = x
  /\ \A k \in 1..(Len(list) + 1) : k < at => longer[k] = list[k]
  /\ \A k \in 1..(Len(list) + 1) : k > at => longer[k] = list[k - 1]

\* InsertAt inserts: it is spelt with SubSeq and \o.
LEMMA InsertFacts ==
  ASSUME NEW T, NEW list \in Seq(T), NEW x \in T, NEW at \in 1..(Len(list) + 1)
  PROVE  /\ InsertAt(list, at, x) \in Seq(T)
         /\ Inserted(InsertAt(list, at, x), list, at, x)
<1> DEFINE n == Len(list)
           front == SubSeq(list, 1, at - 1)
           back == SubSeq(list, at, n)
<1>1. n \in Nat /\ at \in Nat /\ 1 <= at /\ at <= n + 1 /\ \A k \in 1..n : list[k] \in T
      OBVIOUS
<1>2. /\ front \in Seq(T) /\ Len(front) = at - 1
      /\ \A k \in 1..(at - 1) : front[k] = list[k]
      BY <1>1
<1>3. /\ back \in Seq(T) /\ Len(back) = n + 1 - at
      /\ \A k \in 1..(n + 1 - at) : back[k] = list[at + k - 1]
      BY <1>1
<1> HIDE DEF front, back
<1> DEFINE mid == front \o <<x>>
           longer == mid \o back
<1>4. /\ mid \in Seq(T) /\ Len(mid) = at /\ mid[at] = x
      /\ \A k \in 1..(at - 1) : mid[k] = list[k]
      BY <1>1, <1>2
<1> HIDE DEF mid
<1>5. /\ longer \in Seq(T) /\ Len(longer) = n + 1
      /\ \A k \in 1..at : longer[k] = mid[k]
      /\ \A k \in 1..(n + 1 - at) : longer[at + k] = back[k]
  <2>1. /\ longer \in Seq(T) /\ Len(longer) = Len(mid) + Len(back)
        /\ \A k \in 1..(Len(mid) + Len(back)) :
             longer[k] = IF k <= Len(mid) THEN mid[k] ELSE back[k - Len(mid)]
        BY <1>3, <1>4, ConcatProperties, Zenon
  <2> HIDE DEF longer
  <2>2. \A k \in 1..(n + 1) : longer[k] = IF k <= at THEN mid[k] ELSE back[k - at]
        BY <1>1, <1>3, <1>4, <2>1
  <2>3. \A k \in 1..at : k \in 1..(n + 1) /\ k <= at
        BY <1>1
  <2>4. \A k \in 1..(n + 1 - at) : at + k \in 1..(n + 1) /\ ~(at + k <= at) /\ (at + k) - at = k
        BY <1>1
  <2>5. Len(longer) = n + 1
        BY <1>1, <1>3, <1>4, <2>1
  <2>6. \A k \in 1..(n + 1 - at) : longer[at + k] = back[k]
    <3> SUFFICES ASSUME NEW k \in 1..(n + 1 - at) PROVE longer[at + k] = back[k]
        OBVIOUS
    <3>1. longer[at + k] = back[(at + k) - at]
          BY <2>2, <2>4
    <3> QED
          BY <2>4, <3>1
  <2> QED
        BY <2>1, <2>2, <2>3, <2>5, <2>6
<1>6. InsertAt(list, at, x) = longer
      BY DEF InsertAt, front, back, mid
<1> HIDE DEF longer
<1>7. DOMAIN longer = 1..(n + 1)
      BY <1>5
<1>8. longer[at] = x
      BY <1>1, <1>4, <1>5
<1>9. ASSUME NEW k \in 1..(n + 1), k < at PROVE longer[k] = list[k]
      BY <1>1, <1>4, <1>5, <1>9
<1>10. ASSUME NEW k \in 1..(n + 1), k > at PROVE longer[k] = list[k - 1]
  <2>1. k - at \in 1..(n + 1 - at) /\ at + (k - at) = k /\ at + (k - at) - 1 = k - 1
        BY <1>1, <1>10
  <2>2. longer[at + (k - at)] = back[k - at] /\ back[k - at] = list[at + (k - at) - 1]
        BY <1>3, <1>5, <2>1
  <2> QED
        BY <2>1, <2>2
<1> QED
      BY <1>5, <1>6, <1>7, <1>8, <1>9, <1>10 DEF Inserted

LEMMA InToSet == \A s, y : y \in ToSet(s) <=> \E k \in DOMAIN s : s[k] = y
BY DEF ToSet

LEMMA InsertElements ==
  ASSUME NEW T, NEW list \in Seq(T), NEW x \in T, NEW at \in 1..(Len(list) + 1)
  PROVE  /\ InsertAt(list, at, x) \in Seq(T)
         /\ ToSet(InsertAt(list, at, x)) = ToSet(list) \cup {x}
<1> DEFINE longer == InsertAt(list, at, x)
           n == Len(list)
<1>1. /\ longer \in Seq(T) /\ DOMAIN longer = 1..(n + 1) /\ longer[at] = x
      /\ \A k \in 1..(n + 1) : k < at => longer[k] = list[k]
      /\ \A k \in 1..(n + 1) : k > at => longer[k] = list[k - 1]
      /\ n \in Nat /\ at \in Nat /\ 1 <= at /\ at <= n + 1 /\ DOMAIN list = 1..n
      BY InsertFacts, LenProperties DEF Inserted
<1> HIDE DEF longer, n
<1>2. ASSUME NEW k \in 1..(n + 1) PROVE longer[k] = x \/ \E m \in 1..n : longer[k] = list[m]
  <2>1. CASE k < at
        BY <1>1, <2>1
  <2>2. CASE k > at
    <3>1. k - 1 \in 1..n
          BY <1>1, <2>2
    <3> QED
          BY <1>1, <2>2, <3>1
  <2> QED
        BY <1>1, <2>1, <2>2
<1>3. ASSUME NEW m \in 1..n PROVE \E k \in 1..(n + 1) : longer[k] = list[m]
  <2>1. CASE m < at
    <3>1. m \in 1..(n + 1)
          BY <1>1
    <3> QED
          BY <1>1, <2>1, <3>1
  <2>2. CASE m >= at
    <3>1. m + 1 \in 1..(n + 1) /\ m + 1 > at /\ (m + 1) - 1 = m
          BY <1>1, <2>2
    <3> QED
          BY <1>1, <3>1
  <2> QED
        BY <1>1, <2>1, <2>2
<1>4. at \in 1..(n + 1)
      BY <1>1
<1>5. ToSet(longer) = ToSet(list) \cup {x}
  <2>1. \A y : y \in ToSet(longer) <=> \E k \in 1..(n + 1) : longer[k] = y
        BY <1>1, InToSet
  <2>2. \A y : y \in ToSet(list) <=> \E k \in 1..n : list[k] = y
        BY <1>1, InToSet
  <2>3. ASSUME NEW y PROVE y \in ToSet(longer) <=> y \in ToSet(list) \/ y = x
        BY <1>1, <1>2, <1>3, <1>4, <2>1, <2>2, Zenon
  <2> QED
        BY <2>3
<1> QED
      BY <1>1, <1>5 DEF longer

LEMMA AppendElements ==
  ASSUME NEW T, NEW list \in Seq(T), NEW x \in T
  PROVE  /\ Append(list, x) \in Seq(T) /\ ToSet(Append(list, x)) = ToSet(list) \cup {x}
         /\ DOMAIN Append(list, x) = 1..(Len(list) + 1) /\ Append(list, x)[Len(list) + 1] = x
         /\ \A k \in 1..Len(list) : Append(list, x)[k] = list[k]
<1> DEFINE longer == Append(list, x)
           n == Len(list)
<1>1. /\ longer \in Seq(T) /\ DOMAIN longer = 1..(n + 1) /\ longer[n + 1] = x
      /\ \A k \in 1..n : longer[k] = list[k]
      /\ n \in Nat /\ DOMAIN list = 1..n
  <2>1. n \in Nat /\ DOMAIN list = 1..n
        BY LenProperties
  <2>2. /\ longer \in Seq(T) /\ Len(longer) = n + 1 /\ longer[n + 1] = x
        /\ \A k \in 1..n : longer[k] = list[k]
        BY AppendProperties
  <2>3. DOMAIN longer = 1..Len(longer)
        BY <2>2, LenProperties, Zenon
  <2>4. DOMAIN longer = 1..(n + 1)
        BY <2>2, <2>3, Zenon
  <2> QED
        BY <2>1, <2>2, <2>4, Zenon
<1> HIDE DEF longer, n
<1>2. \A k \in 1..(n + 1) : k = n + 1 \/ k \in 1..n
      BY <1>1
<1>3. \A k \in 1..n : k \in 1..(n + 1)
      BY <1>1
<1>4. n + 1 \in 1..(n + 1)
      BY <1>1
<1>5. ToSet(longer) = ToSet(list) \cup {x}
  <2>1. \A y : y \in ToSet(longer) <=> \E k \in 1..(n + 1) : longer[k] = y
        BY <1>1, InToSet
  <2>2. \A y : y \in ToSet(list) <=> \E k \in 1..n : list[k] = y
        BY <1>1, InToSet
  <2>3. ASSUME NEW y PROVE y \in ToSet(longer) <=> y \in ToSet(list) \/ y = x
    <3>1. ASSUME y \in ToSet(longer) PROVE y \in ToSet(list) \/ y = x
          BY <1>1, <1>2, <2>1, <2>2, <3>1, Zenon
    <3>2. ASSUME y \in ToSet(list) PROVE y \in ToSet(longer)
          BY <1>1, <1>3, <2>1, <2>2, <3>2, Zenon
    <3> QED
          BY <1>1, <1>4, <2>1, <3>1, <3>2, Zenon
  <2> QED
        BY <2>3
<1> QED
      BY <1>1, <1>5 DEF longer, n

\* A function on 0..n can be defined by its value at 0 and a step from each value to the next.
LEMMA Recursion ==
  ASSUME NEW T, NEW b \in T, NEW n \in Nat, NEW G \in [1..n -> [T -> T]]
  PROVE  \E f \in [0..n -> T] : f[0] = b /\ \A k \in 1..n : f[k] = G[k][f[k - 1]]
<1> DEFINE Meets(f, m) == /\ f \in [0..m -> T] /\ f[0] = b
                          /\ \A k \in 1..m : f[k] = G[k][f[k - 1]]
           Bad == {m \in 0..n : ~\E f : Meets(f, m)}
<1>1. ASSUME NEW m \in Bad, \A j \in Bad : m <= j PROVE FALSE
  <2>1. CASE m = 0
    <3>1. Meets([k \in 0..0 |-> b], 0)
          OBVIOUS
    <3> QED
          BY <2>1, <3>1
  <2>2. CASE m # 0
    <3>1. m - 1 \in 0..n /\ m - 1 \notin Bad /\ m \in 1..n
          BY <1>1, <2>2
    <3>2. PICK f : Meets(f, m - 1)
          BY <3>1
    <3>3. /\ f \in [0..(m - 1) -> T] /\ f[0] = b
          /\ \A k \in 1..(m - 1) : f[k] = G[k][f[k - 1]]
          BY <3>2
    <3>4. m \in Nat /\ m \in 1..n /\ m \notin 0..(m - 1) /\ 0 \in 0..(m - 1) /\ m - 1 \in 0..(m - 1)
          BY <3>1
    <3> HIDE DEF Bad, Meets
    <3>5. f[m - 1] \in T
          BY <3>3, <3>4
    <3>6. G[m] \in [T -> T]
          BY <3>4
    <3>7. G[m][f[m - 1]] \in T
          BY <3>5, <3>6
    <3> DEFINE g == [k \in 0..m |-> IF k = m THEN G[m][f[m - 1]] ELSE f[k]]
    <3>8. \A k \in 0..m : g[k] = IF k = m THEN G[m][f[m - 1]] ELSE f[k]
          OBVIOUS
    <3>9. g \in [0..m -> T]
      <4>1. \A k \in 0..m : k # m => k \in 0..(m - 1)
            BY <3>4
      <4> QED
            BY <3>3, <3>7, <4>1
    <3> HIDE DEF g
    <3>10. \A k \in 1..m : g[k] = G[k][g[k - 1]]
      <4> SUFFICES ASSUME NEW k \in 1..m PROVE g[k] = G[k][g[k - 1]]
          OBVIOUS
      <4>1. k - 1 \in 0..m /\ k - 1 # m /\ k \in 0..m
            BY <3>4
      <4>2. g[k - 1] = f[k - 1]
            BY <3>8, <4>1
      <4>3. CASE k = m
            BY <3>8, <4>1, <4>2, <4>3
      <4>4. CASE k # m
        <5>1. k \in 1..(m - 1)
              BY <3>4, <4>4
        <5> QED
              BY <3>3, <3>8, <4>1, <4>2, <4>4, <5>1
      <4> QED
            BY <4>3, <4>4
    <3>11. g[0] = b
      <4>1. 0 \in 0..m /\ 0 # m
            BY <3>4
      <4> QED
            BY <3>3, <3>8, <4>1
    <3>12. Meets(g, m)
          BY <3>9, <3>10, <3>11 DEF Meets
    <3> QED
          BY <1>1, <3>12 DEF Bad
  <2> QED
      BY <2>1, <2>2
<1>2. Bad = {}
  <2>1. Bad \in SUBSET Nat
        OBVIOUS
  <2> QED
      BY <1>1, <2>1, LeastElement
<1> QED
      BY <1>2

\* What an iterator leaves of a list: the elements that are kept, in the order of the list.
LEMMA KeepFacts ==
  ASSUME NEW T, NEW list \in Seq(T), NEW kept
  PROVE  LET rest == Keep(list, kept)
         IN /\ rest \in Seq(T) /\ ToSet(rest) = ToSet(list) \cap kept
            /\ \A k, j \in DOMAIN rest : k < j =>
                 \E a, b \in DOMAIN list : a < b /\ rest[k] = list[a] /\ rest[j] = list[b]
<1> DEFINE n == Len(list)
           G == [k \in 1..n |-> [x \in Seq(T) |->
                  IF list[k] \in kept THEN Append(x, list[k]) ELSE x]]
           left[k \in 0..n] ==
             IF k = 0 THEN <<>>
             ELSE IF list[k] \in kept THEN Append(left[k - 1], list[k]) ELSE left[k - 1]
<1>1. n \in Nat /\ DOMAIN list = 1..n /\ \A k \in 1..n : list[k] \in T
      BY LenProperties, ElementOfSeq
<1>2. G \in [1..n -> [Seq(T) -> Seq(T)]] /\ <<>> \in Seq(T)
      BY <1>1, AppendProperties
<1> HIDE DEF G, n
<1>3. PICK f \in [0..n -> Seq(T)] : f[0] = <<>> /\ \A k \in 1..n : f[k] = G[k][f[k - 1]]
  <2> DEFINE U == Seq(T)
             b == <<>>
  <2>1. n \in Nat /\ b \in U /\ G \in [1..n -> [U -> U]]
        BY <1>1, <1>2
  <2> HIDE DEF U, b
  <2>2. \E f \in [0..n -> U] : f[0] = b /\ \A k \in 1..n : f[k] = G[k][f[k - 1]]
        BY <2>1, Recursion
  <2> QED
        BY <2>2 DEF U, b
<1>4. \A k \in 0..n : f[k] = IF k = 0 THEN <<>> ELSE
           IF list[k] \in kept THEN Append(f[k - 1], list[k]) ELSE f[k - 1]
  <2> SUFFICES ASSUME NEW k \in 0..n, k # 0
               PROVE  f[k] = IF list[k] \in kept THEN Append(f[k - 1], list[k]) ELSE f[k - 1]
      BY <1>3
  <2>1. k - 1 \in 0..n /\ k \in 1..n
        BY <1>1
  <2>2. f[k - 1] \in Seq(T)
        BY <2>1
  <2>3. f[k] = G[k][f[k - 1]]
        BY <1>3, <2>1
  <2> QED
        BY <2>1, <2>2, <2>3 DEF G
<1>5. f = [k \in 0..n |-> IF k = 0 THEN <<>> ELSE
             IF list[k] \in kept THEN Append(f[k - 1], list[k]) ELSE f[k - 1]]
      BY <1>4, Zenon
<1>6. left = [k \in 0..n |-> IF k = 0 THEN <<>> ELSE
                IF list[k] \in kept THEN Append(left[k - 1], list[k]) ELSE left[k - 1]]
      BY <1>5, Zenon DEF left
<1> HIDE DEF left
<1>7. left[0] = <<>>
  <2>1. 0 \in 0..n
        BY <1>1
  <2> QED
        BY <1>6, <2>1, Zenon
<1>8. \A k \in 0..n : left[k] = IF k = 0 THEN <<>> ELSE
           IF list[k] \in kept THEN Append(left[k - 1], list[k]) ELSE left[k - 1]
      BY <1>6, Zenon
<1> DEFINE Right(m) ==
             /\ left[m] \in Seq(T)
             /\ \A y : y \in ToSet(left[m]) <=> y \in kept /\ \E a \in 1..m : list[a] = y
             /\ \A k, j \in DOMAIN left[m] : k < j =>
                  \E a, b \in 1..m : a < b /\ left[m][k] = list[a] /\ left[m][j] = list[b]
           Bad == {m \in 0..n : ~Right(m)}
<1>9. Right(0)
  <2>1. ToSet(left[0]) = {} /\ DOMAIN left[0] = {}
        BY <1>7 DEF ToSet
  <2> QED
        BY <1>2, <1>7, <2>1
<1>10. ASSUME NEW m \in 1..n, Right(m - 1) PROVE Right(m)
  <2> DEFINE old == left[m - 1]
             new == left[m]
  <2>1. /\ old \in Seq(T)
        /\ \A y : y \in ToSet(old) <=> y \in kept /\ \E a \in 1..(m - 1) : list[a] = y
        /\ \A k, j \in DOMAIN old : k < j =>
             \E a, b \in 1..(m - 1) : a < b /\ old[k] = list[a] /\ old[j] = list[b]
        BY <1>10
  <2>2. new = IF list[m] \in kept THEN Append(old, list[m]) ELSE old
        BY <1>1, <1>8
  <2>3. list[m] \in T /\ m \in Nat /\ \A a \in 1..m : a = m \/ a \in 1..(m - 1)
        BY <1>1
  <2>4. m \in 1..m /\ \A a \in 1..(m - 1) : a \in 1..m /\ a < m
        BY <2>3
  <2> HIDE DEF old, new
  <2>5. CASE list[m] \notin kept
    <3>1. new = old
          BY <2>2, <2>5
    <3>2. \A y : y \in ToSet(new) <=> y \in kept /\ \E a \in 1..m : list[a] = y
          BY <2>1, <2>3, <2>4, <2>5, <3>1
    <3>3. \A k, j \in DOMAIN new : k < j =>
            \E a, b \in 1..m : a < b /\ new[k] = list[a] /\ new[j] = list[b]
          BY <2>1, <2>4, <3>1
    <3> QED
          BY <2>1, <3>1, <3>2, <3>3 DEF new
  <2>6. CASE list[m] \in kept
    <3> DEFINE o == Len(old)
    <3>1. new = Append(old, list[m])
          BY <2>2, <2>6
    <3>2. /\ new \in Seq(T) /\ ToSet(new) = ToSet(old) \cup {list[m]}
          /\ DOMAIN new = 1..(o + 1) /\ new[o + 1] = list[m]
          /\ \A k \in 1..o : new[k] = old[k]
          BY <2>1, <2>3, <3>1, AppendElements
    <3>3. o \in Nat /\ DOMAIN old = 1..o
          BY <2>1, LenProperties
    <3> HIDE DEF o
    <3>4. \A y : y \in ToSet(new) <=> y \in kept /\ \E a \in 1..m : list[a] = y
          BY <2>1, <2>3, <2>4, <2>6, <3>2
    <3>5. ASSUME NEW k \in DOMAIN new, NEW j \in DOMAIN new, k < j
          PROVE  \E a, b \in 1..m : a < b /\ new[k] = list[a] /\ new[j] = list[b]
      <4>1. k \in 1..o
            BY <3>2, <3>3, <3>5
      <4>2. CASE j \in 1..o
            BY <2>1, <2>4, <3>2, <3>3, <3>5, <4>1, <4>2
      <4>3. CASE j \notin 1..o
        <5>1. j = o + 1
              BY <3>2, <3>3, <4>3
        <5>2. old[k] \in ToSet(old)
              BY <3>3, <4>1, InToSet
        <5>3. PICK a \in 1..(m - 1) : list[a] = old[k]
              BY <2>1, <5>2
        <5> QED
              BY <2>4, <3>2, <4>1, <5>1, <5>3
      <4> QED
            BY <4>2, <4>3
    <3> QED
          BY <3>2, <3>4, <3>5 DEF new
  <2> QED
      BY <2>5, <2>6
<1>11. Bad = {}
  <2>1. ASSUME NEW m \in Bad, \A j \in Bad : m <= j PROVE FALSE
    <3>1. m \in 0..n /\ ~Right(m)
          OBVIOUS
    <3> HIDE DEF Right
    <3>2. m # 0
          BY <1>9, <3>1
    <3>3. m - 1 \in 0..n /\ m - 1 \notin Bad /\ m \in 1..n
          BY <1>1, <2>1, <3>1, <3>2
    <3> QED
          BY <1>10, <3>1, <3>3
  <2>2. Bad \in SUBSET Nat
        OBVIOUS
  <2> QED
      BY <2>1, <2>2, LeastElement
<1>12. n \in 0..n
      BY <1>1
<1>13. Right(n)
  <2> HIDE DEF Right
  <2> QED
      BY <1>11, <1>12
<1>14. Keep(list, kept) = left[n]
      BY Zenon DEF Keep, left, n
<1> DEFINE rest == left[n]
<1>15. /\ rest \in Seq(T)
       /\ \A y : y \in ToSet(rest) <=> y \in kept /\ \E a \in 1..n : list[a] = y
       /\ \A k, j \in DOMAIN rest : k < j =>
            \E a, b \in 1..n : a < b /\ rest[k] = list[a] /\ rest[j] = list[b]
      BY <1>13
<1>16. Keep(list, kept) = rest
      BY <1>14
<1> HIDE DEF rest, Right, Bad
<1>17. ToSet(rest) = ToSet(list) \cap kept
  <2>1. \A y : y \in ToSet(list) <=> \E a \in 1..n : list[a] = y
        BY <1>1, InToSet
  <2> QED
      BY <1>15, <2>1
<1>18. \A k, j \in DOMAIN rest : k < j =>
         \E a, b \in DOMAIN list : a < b /\ rest[k] = list[a] /\ rest[j] = list[b]
  <2> SUFFICES ASSUME NEW k \in DOMAIN rest, NEW j \in DOMAIN rest, k < j
               PROVE  \E a, b \in DOMAIN list : a < b /\ rest[k] = list[a] /\ rest[j] = list[b]
      OBVIOUS
  <2>1. PICK a \in 1..n, b \in 1..n : a < b /\ rest[k] = list[a] /\ rest[j] = list[b]
        BY <1>15
  <2>2. a \in DOMAIN list /\ b \in DOMAIN list
        BY <1>1
  <2> QED
        BY <2>1, <2>2
<1> QED
      BY <1>15, <1>16, <1>17, <1>18

-----------------------------------------------------------------------------
(* Layouts: what setTopPosition, feed and playAt do to them. *)

\* A position of a comment of a type, and a layout of such positions.
PositionOf(type) == [no : Nat, time : Int, type : {type},
                     width : Nat \cup {-1}, height : Nat \cup {-1}, y : Int]

LayoutType(layout) ==
  layout \in [mFlyUsed : Seq(PositionOf("fly")), mFlyList : Seq(PositionOf("fly")),
              mTopUsed : Seq(PositionOf("top")), put : SUBSET {"space", "gap", "none"}]

\* Positions that lie one below the other.
Stacked(list) == \A k, j \in DOMAIN list : k < j => Bottom(list[k]) <= list[j].y

\* The place lies in the list; where setTopPosition finds space and no gap, it is above the
\* first or below the last.
LEMMA PlaceFacts ==
  ASSUME NEW type, NEW list \in Seq(PositionOf(type)), NEW h \in Int
  PROVE  LET place == setTopPosition(list, h)
         IN /\ place.y \in Int /\ place.at \in 1..(Len(list) + 1)
            /\ place.how \in {"space", "gap", "none"}
            /\ place.how = "space" =>
                 \/ /\ place.at = 1 /\ place.y = 0
                    /\ list = <<>> \/ list[1].y >= h
                 \/ /\ place.at = Len(list) + 1 /\ list # <<>>
                    /\ place.y = Bottom(list[Len(list)])
<1> DEFINE n == Len(list)
           place == setTopPosition(list, h)
           gaps == Gaps(list, h)
<1>1. n \in Nat /\ \A k \in 1..n : list[k] \in PositionOf(type) /\ Bottom(list[k]) \in Int
  <2>1. n \in Nat /\ \A k \in 1..n : list[k] \in PositionOf(type)
        BY LenProperties, ElementOfSeq
  <2>2. \A p \in PositionOf(type) : Bottom(p) \in Int
        BY DEF Bottom, PositionOf
  <2> QED
        BY <2>1, <2>2
<1>2. list # <<>> => n >= 1 /\ Head(list) = list[1] /\ Last(list) = list[n]
      BY <1>1 DEF Last
<1>3. CASE list = <<>> \/ Head(list).y >= h
  <2>1. place = [y |-> 0, at |-> 1, how |-> "space"]
        BY <1>3 DEF setTopPosition
  <2> QED
        BY <1>1, <1>2, <1>3, <2>1
<1>4. CASE ~(list = <<>> \/ Head(list).y >= h) /\ gaps # {}
  <2> DEFINE k == CHOOSE k \in gaps : \A j \in gaps : k <= j
  <2>1. gaps \in SUBSET Nat
        BY <1>1 DEF Gaps
  <2>2. k \in gaps
        BY <1>4, <2>1, LeastElement
  <2>3. k \in 1..(n - 1)
        BY <2>2 DEF Gaps
  <2>4. place = [y |-> Bottom(list[k]), at |-> k + 2, how |-> "gap"]
        BY <1>4, Zenon DEF setTopPosition
  <2> HIDE DEF k
  <2> QED
        BY <1>1, <2>3, <2>4
<1>5. CASE ~(list = <<>> \/ Head(list).y >= h) /\ gaps = {} /\ AfterLast(list, h)
  <2>1. place = [y |-> Bottom(Last(list)), at |-> n + 1, how |-> "space"]
        BY <1>5 DEF setTopPosition
  <2> QED
        BY <1>1, <1>2, <1>5, <2>1
<1>6. CASE ~(list = <<>> \/ Head(list).y >= h) /\ gaps = {} /\ ~AfterLast(list, h)
  <2>1. place = [y |-> (Bottom(Head(list)) + h) % StageHeight, at |-> n + 1, how |-> "none"]
        BY <1>6 DEF setTopPosition
  <2>2. Bottom(Head(list)) + h \in Int
        BY <1>1, <1>2, <1>6
  <2>3. \A a \in Int : a % StageHeight \in Int
        BY StageAssumption
  <2> QED
        BY <1>1, <2>1, <2>2, <2>3
<1> QED
      BY <1>3, <1>4, <1>5, <1>6

\* What finds room above the first, or below the last position, keeps the list stacked.
LEMMA SpaceStacked ==
  ASSUME NEW type, NEW list \in Seq(PositionOf(type)), Stacked(list),
         \A p \in ToSet(list) : p.height >= 0,
         NEW q \in PositionOf(type), q.height >= 0,
         setTopPosition(list, q.height).how = "space",
         q.y = setTopPosition(list, q.height).y
  PROVE  Stacked(InsertAt(list, setTopPosition(list, q.height).at, q))
<1> DEFINE n == Len(list)
           place == setTopPosition(list, q.height)
           longer == InsertAt(list, place.at, q)
<1>1. /\ n \in Nat /\ DOMAIN list = 1..n
      /\ \A k \in 1..n : /\ list[k].height >= 0 /\ list[k].height \in Int /\ list[k].y \in Int
                         /\ Bottom(list[k]) = list[k].y + list[k].height
  <2>1. n \in Nat /\ DOMAIN list = 1..n /\ \A k \in 1..n : list[k] \in PositionOf(type)
        BY LenProperties, ElementOfSeq
  <2>2. \A k \in 1..n : list[k].height >= 0
        BY <2>1, InToSet
  <2>3. \A p \in PositionOf(type) : p.height \in Int /\ p.y \in Int /\ Bottom(p) = p.y + p.height
        BY DEF PositionOf, Bottom
  <2> QED
        BY <2>1, <2>2, <2>3
<1>2. /\ place.at \in 1..(n + 1) /\ q.height \in Int /\ q.y \in Int
      /\ \/ place.at = 1 /\ q.y = 0 /\ (list = <<>> \/ list[1].y >= q.height)
         \/ place.at = n + 1 /\ list # <<>> /\ q.y = Bottom(list[n])
  <2>1. q.height \in Int /\ q.y \in Int
        BY DEF PositionOf
  <2> QED
        BY <2>1, PlaceFacts
<1>3. /\ DOMAIN longer = 1..(n + 1) /\ longer[place.at] = q
      /\ \A k \in 1..(n + 1) : k < place.at => longer[k] = list[k]
      /\ \A k \in 1..(n + 1) : k > place.at => longer[k] = list[k - 1]
  <2> DEFINE at == place.at
             T == PositionOf(type)
  <2>1. at \in 1..(n + 1) /\ list \in Seq(T) /\ q \in T
        BY <1>2
  <2> HIDE DEF at, T
  <2>2. Inserted(InsertAt(list, at, q), list, at, q)
        BY <2>1, InsertFacts
  <2> QED
        BY <2>2 DEF at, Inserted
<1>4. list # <<>> => n >= 1
      BY <1>1
<1>5. \A k, j \in 1..n : k < j => list[k].y + list[k].height <= list[j].y
  <2> SUFFICES ASSUME NEW k \in 1..n, NEW j \in 1..n, k < j
               PROVE  list[k].y + list[k].height <= list[j].y
      OBVIOUS
  <2>1. Bottom(list[k]) <= list[j].y
        BY <1>1 DEF Stacked
  <2> QED
        BY <1>1, <2>1
<1>6. Bottom(q) = q.y + q.height
      BY DEF Bottom
<1> HIDE DEF n, longer, place
<1> SUFFICES ASSUME NEW k \in 1..(n + 1), NEW j \in 1..(n + 1), k < j
             PROVE  Bottom(longer[k]) <= longer[j].y
    BY <1>3 DEF Stacked, longer, place
<1>7. CASE place.at = 1 /\ q.y = 0 /\ (list = <<>> \/ list[1].y >= q.height)
  <2>1. longer[j] = list[j - 1] /\ j - 1 \in 1..n /\ n >= 1 /\ list[1].y >= q.height
        BY <1>1, <1>3, <1>7
  <2>2. CASE k = 1
    <3>1. longer[k] = q
          BY <1>3, <1>7, <2>2
    <3>2. list[1].y <= list[j - 1].y
      <4>1. 1 \in 1..n
            BY <1>1, <2>1
      <4>2. CASE j - 1 = 1
            BY <1>1, <4>1, <4>2
      <4>3. CASE j - 1 # 1
        <5>1. list[1].y + list[1].height <= list[j - 1].y
              BY <1>1, <1>5, <2>1, <4>1, <4>3
        <5> QED
              BY <1>1, <2>1, <4>1, <5>1
      <4> QED
            BY <4>2, <4>3
    <3>3. Bottom(q) <= list[1].y
          BY <1>2, <1>6, <1>7, <2>1
    <3>4. Bottom(q) \in Int /\ list[1].y \in Int /\ list[j - 1].y \in Int
          BY <1>1, <1>2, <1>6, <2>1
    <3> QED
          BY <2>1, <3>1, <3>2, <3>3, <3>4
  <2>3. CASE k # 1
    <3>1. longer[k] = list[k - 1] /\ k - 1 \in 1..n /\ k - 1 < j - 1
          BY <1>1, <1>3, <1>7, <2>3
    <3> QED
          BY <1>1, <1>5, <2>1, <3>1
  <2> QED
        BY <2>2, <2>3
<1>8. CASE place.at = n + 1 /\ list # <<>> /\ q.y = Bottom(list[n])
  <2>1. longer[k] = list[k] /\ k \in 1..n /\ n \in 1..n
        BY <1>1, <1>3, <1>4, <1>8
  <2>2. CASE j = n + 1
    <3>1. longer[j] = q
          BY <1>3, <1>8, <2>2
    <3>2. CASE k = n
          BY <1>8, <2>1, <3>1, <3>2, <1>1, <1>2
    <3>3. CASE k # n
      <4>1. list[k].y + list[k].height <= list[n].y
            BY <1>1, <1>5, <2>1, <3>3
      <4>2. list[n].y <= q.y /\ Bottom(list[k]) = list[k].y + list[k].height /\ longer[j].y = q.y
            BY <1>1, <1>8, <2>1, <3>1
      <4>3. list[n].y \in Int /\ list[k].y \in Int /\ list[k].height \in Int
            BY <1>1, <2>1
      <4> QED
            BY <1>2, <2>1, <4>1, <4>2, <4>3
    <3> QED
          BY <3>2, <3>3
  <2>3. CASE j # n + 1
    <3>1. longer[j] = list[j] /\ j \in 1..n
          BY <1>1, <1>3, <1>8, <2>3
    <3> QED
          BY <1>1, <1>5, <2>1, <3>1
  <2> QED
        BY <2>2, <2>3
<1> QED
      BY <1>2, <1>7, <1>8

\* What is shown; the flying ones that have given their lane back.
Staged(layout) == ToSet(layout.mFlyList) \cup ToSet(layout.mTopUsed)
Flown(layout) == ToSet(layout.mFlyList) \ ToSet(layout.mFlyUsed)

\* The second of two flying comments lies beside the first, or comes when its tail is in.
Behind(p, q) == ~Meet(p.y, p.height, q.y, q.height) \/ Way(p, q.time - 1) > p.width

Apart(layout) ==
  /\ Stacked(layout.mFlyUsed) /\ Stacked(layout.mTopUsed)
  /\ \A k, j \in DOMAIN layout.mFlyList :
       k < j => Behind(layout.mFlyList[k], layout.mFlyList[j])

AnyPosition == PositionOf("fly") \cup PositionOf("top") \cup PositionOf("bot")

\* Where feed puts a position, the list that has it, and how the place was found.
PlacedIn(list, p) == [p EXCEPT !.y = setTopPosition(list, p.height).y]
Grown(list, p) == InsertAt(list, setTopPosition(list, p.height).at, PlacedIn(list, p))
FoundBy(list, p) == setTopPosition(list, p.height).how

\* q is the position p after its y was set.
IsPlaced(q, p) == \E y \in Int : q = [p EXCEPT !.y = y]

\* The list that has a position more.
LEMMA GrownFacts ==
  ASSUME NEW type, NEW list \in Seq(PositionOf(type)), NEW p \in PositionOf(type)
  PROVE  /\ PlacedIn(list, p) \in PositionOf(type)
         /\ IsPlaced(PlacedIn(list, p), p)
         /\ Grown(list, p) \in Seq(PositionOf(type))
         /\ ToSet(Grown(list, p)) = ToSet(list) \cup {PlacedIn(list, p)}
         /\ FoundBy(list, p) \in {"space", "gap", "none"}
<1> DEFINE place == setTopPosition(list, p.height)
           at == place.at
           y == place.y
           q == PlacedIn(list, p)
           T == PositionOf(type)
<1>1. y \in Int /\ at \in 1..(Len(list) + 1) /\ place.how \in {"space", "gap", "none"}
  <2>1. p.height \in Int
        BY DEF PositionOf
  <2> QED
        BY <2>1, PlaceFacts
<1>2. q = [p EXCEPT !.y = y]
      BY DEF PlacedIn
<1>3. Grown(list, p) = InsertAt(list, at, q) /\ FoundBy(list, p) = place.how
      BY DEF Grown, FoundBy
<1> HIDE DEF place, at, y, q
<1>4. q \in T
      BY <1>1, <1>2 DEF PositionOf
<1>5. list \in Seq(T)
      OBVIOUS
<1> HIDE DEF T
<1>6. InsertAt(list, at, q) \in Seq(T) /\ ToSet(InsertAt(list, at, q)) = ToSet(list) \cup {q}
      BY <1>1, <1>4, <1>5, InsertElements
<1> QED
      BY <1>1, <1>2, <1>3, <1>4, <1>6 DEF q, T, IsPlaced

LEMMA GrownStacked ==
  ASSUME NEW type, NEW list \in Seq(PositionOf(type)), NEW p \in PositionOf(type),
         Stacked(list), \A q \in ToSet(list) : q.height >= 0, p.height >= 0,
         FoundBy(list, p) = "space"
  PROVE  /\ Stacked(Grown(list, p))
         /\ \A x \in ToSet(list) : \/ Bottom(x) <= PlacedIn(list, p).y
                                   \/ Bottom(PlacedIn(list, p)) <= x.y
<1> DEFINE q == PlacedIn(list, p)
           at == setTopPosition(list, p.height).at
           longer == Grown(list, p)
           n == Len(list)
<1>1. q \in PositionOf(type)
      BY GrownFacts
<1>2. q.height = p.height /\ q.y = setTopPosition(list, p.height).y
      BY DEF PlacedIn, PositionOf
<1>3. at \in 1..(n + 1)
  <2>1. p.height \in Int
        BY DEF PositionOf
  <2> QED
        BY <2>1, PlaceFacts
<1>4. longer = InsertAt(list, at, q)
      BY DEF Grown
<1> HIDE DEF q
<1>5. Stacked(longer)
      BY <1>1, <1>2, <1>4, SpaceStacked DEF FoundBy
<1>6. Inserted(longer, list, at, q)
  <2> DEFINE T == PositionOf(type)
  <2>1. list \in Seq(T) /\ q \in T
        BY <1>1
  <2> HIDE DEF T, at, longer
  <2>2. Inserted(InsertAt(list, at, q), list, at, q)
        BY <1>3, <2>1, InsertFacts
  <2> QED
        BY <1>4, <2>2
<1> HIDE DEF at, longer
<1>7. n \in Nat /\ DOMAIN list = 1..n
      BY LenProperties
<1> HIDE DEF n
<1>8. ASSUME NEW x \in ToSet(list) PROVE Bottom(x) <= q.y \/ Bottom(q) <= x.y
  <2>1. PICK k \in 1..n : list[k] = x
        BY <1>7, InToSet
  <2>2. /\ DOMAIN longer = 1..(n + 1) /\ longer[at] = q
        /\ \A m \in 1..(n + 1) : m < at => longer[m] = list[m]
        /\ \A m \in 1..(n + 1) : m > at => longer[m] = list[m - 1]
        BY <1>6 DEF Inserted, n
  <2>3. CASE k < at
    <3>1. k \in 1..(n + 1) /\ longer[k] = x
          BY <1>7, <2>1, <2>2, <2>3
    <3> QED
          BY <1>3, <1>5, <2>2, <2>3, <3>1 DEF Stacked
  <2>4. CASE k >= at
    <3>1. k + 1 \in 1..(n + 1) /\ k + 1 > at /\ (k + 1) - 1 = k
          BY <1>3, <1>7, <2>4
    <3>2. longer[k + 1] = x
          BY <2>1, <2>2, <3>1
    <3> QED
          BY <1>3, <1>5, <2>2, <3>1, <3>2 DEF Stacked
  <2> QED
        BY <1>3, <1>7, <2>3, <2>4
<1> QED
      BY <1>5, <1>8 DEF q, longer

\* feed places a flying comment at the end of its list, and in the list of lanes.
LEMMA FeedFly ==
  ASSUME NEW layout, LayoutType(layout), NEW p \in PositionOf("fly")
  PROVE  LET used == layout.mFlyUsed
         IN feed(layout, p) =
              [mFlyUsed |-> Grown(used, p),
               mFlyList |-> Append(layout.mFlyList, PlacedIn(used, p)),
               mTopUsed |-> layout.mTopUsed, put |-> layout.put \cup {FoundBy(used, p)}]
<1> DEFINE used == layout.mFlyUsed
           longer == Grown(used, p)
           placed == PlacedIn(used, p)
           how == FoundBy(used, p)
<1>1. layout = [mFlyUsed |-> used, mFlyList |-> layout.mFlyList,
                mTopUsed |-> layout.mTopUsed, put |-> layout.put]
      BY DEF LayoutType
<1>2. p.type = "fly"
      BY DEF PositionOf
<1>3. feed(layout, p) = [layout EXCEPT !.mFlyUsed = longer, !.put = layout.put \cup {how},
                                       !.mFlyList = Append(layout.mFlyList, placed)]
      BY <1>2 DEF feed, Grown, PlacedIn, FoundBy
<1> HIDE DEF longer, placed, how, used
<1> QED
      BY <1>1, <1>3 DEF longer, placed, how, used

LEMMA FeedTop ==
  ASSUME NEW layout, LayoutType(layout), NEW p \in PositionOf("top")
  PROVE  LET used == layout.mTopUsed
         IN feed(layout, p) =
              [mFlyUsed |-> layout.mFlyUsed, mFlyList |-> layout.mFlyList,
               mTopUsed |-> Grown(used, p), put |-> layout.put \cup {FoundBy(used, p)}]
<1> DEFINE used == layout.mTopUsed
           longer == Grown(used, p)
           how == FoundBy(used, p)
<1>1. layout = [mFlyUsed |-> layout.mFlyUsed, mFlyList |-> layout.mFlyList,
                mTopUsed |-> used, put |-> layout.put]
      BY DEF LayoutType
<1>2. p.type = "top"
      BY DEF PositionOf
<1>3. feed(layout, p) = [layout EXCEPT !.mTopUsed = longer, !.put = layout.put \cup {how}]
      BY <1>2 DEF feed, Grown, PlacedIn, FoundBy
<1> HIDE DEF longer, how, used
<1> QED
      BY <1>1, <1>3 DEF longer, how, used

\* feed forgets a comment that is to stand at the bottom.
LEMMA FeedBot ==
  ASSUME NEW layout, NEW p \in PositionOf("bot")
  PROVE  feed(layout, p) = layout
BY DEF feed, PositionOf

\* What feed changes: the comment is shown now, it may have a lane, and nobody gives his back.
LEMMA FeedFacts ==
  ASSUME NEW layout, LayoutType(layout), NEW p \in AnyPosition
  PROVE  LET fed2 == feed(layout, p)
         IN /\ LayoutType(fed2) /\ layout.put \subseteq fed2.put
            /\ \A q \in Staged(fed2) : q \in Staged(layout) \/ IsPlaced(q, p)
            /\ ToSet(layout.mFlyUsed) \subseteq ToSet(layout.mFlyList)
                 => ToSet(fed2.mFlyUsed) \subseteq ToSet(fed2.mFlyList)
            /\ Flown(fed2) \subseteq Flown(layout)
<1>0. /\ layout.mFlyUsed \in Seq(PositionOf("fly")) /\ layout.mFlyList \in Seq(PositionOf("fly"))
      /\ layout.mTopUsed \in Seq(PositionOf("top")) /\ layout.put \in SUBSET {"space", "gap", "none"}
      BY DEF LayoutType
<1>1. CASE p \in PositionOf("fly")
  <2> DEFINE placed == PlacedIn(layout.mFlyUsed, p)
             longer == Grown(layout.mFlyUsed, p)
             how == FoundBy(layout.mFlyUsed, p)
             list == Append(layout.mFlyList, placed)
             fed2 == feed(layout, p)
  <2>1. fed2 = [mFlyUsed |-> longer, mFlyList |-> list,
                mTopUsed |-> layout.mTopUsed, put |-> layout.put \cup {how}]
        BY <1>1, FeedFly
  <2>2. /\ placed \in PositionOf("fly") /\ IsPlaced(placed, p)
        /\ longer \in Seq(PositionOf("fly")) /\ ToSet(longer) = ToSet(layout.mFlyUsed) \cup {placed}
        /\ how \in {"space", "gap", "none"}
    <3> DEFINE used == layout.mFlyUsed
    <3>1. used \in Seq(PositionOf("fly"))
          BY <1>0
    <3> HIDE DEF used
    <3> QED
          BY <1>1, <3>1, GrownFacts DEF placed, longer, how, used
  <2>3. list \in Seq(PositionOf("fly")) /\ ToSet(list) = ToSet(layout.mFlyList) \cup {placed}
        BY <1>0, <2>2, AppendElements
  <2> HIDE DEF placed, longer, how, list, fed2
  <2>4. LayoutType(fed2) /\ layout.put \subseteq fed2.put
        BY <1>0, <2>1, <2>2, <2>3 DEF LayoutType
  <2>5. \A q \in Staged(fed2) : q \in Staged(layout) \/ q = placed
        BY <2>1, <2>3 DEF Staged
  <2>6. Flown(fed2) \subseteq Flown(layout)
        BY <2>1, <2>2, <2>3 DEF Flown
  <2>7. ToSet(layout.mFlyUsed) \subseteq ToSet(layout.mFlyList)
          => ToSet(fed2.mFlyUsed) \subseteq ToSet(fed2.mFlyList)
        BY <2>1, <2>2, <2>3
  <2> QED
        BY <2>2, <2>4, <2>5, <2>6, <2>7 DEF fed2
<1>2. CASE p \in PositionOf("top")
  <2> DEFINE placed == PlacedIn(layout.mTopUsed, p)
             longer == Grown(layout.mTopUsed, p)
             how == FoundBy(layout.mTopUsed, p)
             fed2 == feed(layout, p)
  <2>1. fed2 = [mFlyUsed |-> layout.mFlyUsed, mFlyList |-> layout.mFlyList,
                mTopUsed |-> longer, put |-> layout.put \cup {how}]
        BY <1>2, FeedTop
  <2>2. /\ placed \in PositionOf("top") /\ IsPlaced(placed, p)
        /\ longer \in Seq(PositionOf("top")) /\ ToSet(longer) = ToSet(layout.mTopUsed) \cup {placed}
        /\ how \in {"space", "gap", "none"}
        BY <1>0, <1>2, GrownFacts
  <2> HIDE DEF placed, longer, how, fed2
  <2>4. LayoutType(fed2) /\ layout.put \subseteq fed2.put
        BY <1>0, <2>1, <2>2 DEF LayoutType
  <2>5. \A q \in Staged(fed2) : q \in Staged(layout) \/ q = placed
        BY <2>1, <2>2 DEF Staged
  <2>6. Flown(fed2) \subseteq Flown(layout)
        BY <2>1 DEF Flown
  <2>7. fed2.mFlyUsed = layout.mFlyUsed /\ fed2.mFlyList = layout.mFlyList
        BY <2>1
  <2> QED
        BY <2>2, <2>4, <2>5, <2>6, <2>7 DEF fed2
<1>3. CASE p \in PositionOf("bot")
      BY <1>3, FeedBot
<1> QED
      BY <1>1, <1>2, <1>3 DEF AnyPosition

\* Two positions of which one lies below the other do not meet.
LEMMA BelowIsBeside ==
  ASSUME NEW p, NEW q, p.y \in Int, p.height \in Int, q.y \in Int, q.height \in Int,
         Bottom(p) <= q.y \/ Bottom(q) <= p.y
  PROVE  ~Meet(p.y, p.height, q.y, q.height)
BY DEF Bottom, Meet

\* A comment that finds room above the first or below the last is apart from all, if the tails
\* of those that have given their lane back were in one tick before it came.
LEMMA FeedApart ==
  ASSUME NEW layout, LayoutType(layout), NEW p \in AnyPosition,
         Apart(layout), feed(layout, p).put \subseteq {"space"},
         ToSet(layout.mFlyUsed) \subseteq ToSet(layout.mFlyList),
         p.height >= 0, \A q \in Staged(layout) : q.height >= 0,
         \A q \in Flown(layout) : Way(q, p.time - 1) > q.width
  PROVE  Apart(feed(layout, p))
<1>0. /\ layout.mFlyUsed \in Seq(PositionOf("fly")) /\ layout.mFlyList \in Seq(PositionOf("fly"))
      /\ layout.mTopUsed \in Seq(PositionOf("top")) /\ layout.put \in SUBSET {"space", "gap", "none"}
      BY DEF LayoutType
<1>1. CASE p \in PositionOf("fly")
  <2> DEFINE used == layout.mFlyUsed
             list == layout.mFlyList
             n == Len(list)
             placed == PlacedIn(used, p)
             longer == Grown(used, p)
             how == FoundBy(used, p)
             fly == Append(list, placed)
             fed2 == feed(layout, p)
  <2>1. fed2 = [mFlyUsed |-> longer, mFlyList |-> fly,
                mTopUsed |-> layout.mTopUsed, put |-> layout.put \cup {how}]
        BY <1>1, FeedFly
  <2>2. /\ used \in Seq(PositionOf("fly")) /\ list \in Seq(PositionOf("fly"))
        /\ ToSet(used) \subseteq ToSet(list) /\ Stacked(used) /\ Stacked(layout.mTopUsed)
        /\ \A k, j \in DOMAIN list : k < j => Behind(list[k], list[j])
        /\ \A q \in ToSet(list) : q.height >= 0
        /\ \A q \in ToSet(list) : q \in ToSet(used) \/ Way(q, p.time - 1) > q.width
        BY <1>0 DEF Apart, Staged, Flown
  <2>3. how = "space" /\ fed2.put \subseteq {"space"}
        BY <2>1
  <2> HIDE DEF fed2, used, list
  <2>4. placed \in PositionOf("fly") /\ IsPlaced(placed, p)
        BY <1>1, <2>2, GrownFacts
  <2>5. placed.time = p.time /\ placed.height \in Int /\ placed.y \in Int
    <3>1. placed.height \in Int /\ placed.y \in Int
          BY <2>4 DEF PositionOf
    <3>2. placed.time = p.time
          BY <1>1 DEF PlacedIn, PositionOf
    <3> QED
          BY <3>1, <3>2
  <2>6. /\ Stacked(longer)
        /\ \A q \in ToSet(used) : Bottom(q) <= placed.y \/ Bottom(placed) <= q.y
        BY <1>1, <2>2, <2>3, GrownStacked
  <2>7. /\ n \in Nat /\ DOMAIN list = 1..n /\ DOMAIN fly = 1..(n + 1) /\ fly[n + 1] = placed
        /\ \A k \in 1..n : fly[k] = list[k] /\ list[k] \in ToSet(list)
        /\ \A k \in 1..n : list[k].y \in Int /\ list[k].height \in Int
    <3>1. n \in Nat /\ DOMAIN list = 1..n
          BY <2>2, LenProperties
    <3>2. /\ DOMAIN fly = 1..(n + 1) /\ fly[n + 1] = placed
          /\ \A k \in 1..n : fly[k] = list[k]
          BY <2>2, <2>4, AppendElements
    <3>3. \A k \in 1..n : list[k] \in ToSet(list)
          BY <3>1, InToSet
    <3>4. \A k \in 1..n : list[k] \in PositionOf("fly")
          BY <2>2, ElementOfSeq
    <3> QED
          BY <3>1, <3>2, <3>3, <3>4 DEF PositionOf
  <2> HIDE DEF n, placed, longer, how, fly
  <2>8. ASSUME NEW k \in 1..n PROVE Behind(list[k], placed)
    <3>1. CASE list[k] \in ToSet(used)
          BY <2>5, <2>6, <2>7, <3>1, BelowIsBeside DEF Behind
    <3>2. CASE list[k] \notin ToSet(used)
          BY <2>2, <2>5, <2>7, <3>2 DEF Behind
    <3> QED
          BY <3>1, <3>2
  <2>9. ASSUME NEW k \in DOMAIN fly, NEW j \in DOMAIN fly, k < j PROVE Behind(fly[k], fly[j])
    <3>1. k \in 1..n /\ (j \in 1..n \/ j = n + 1)
          BY <2>7, <2>9
    <3>2. CASE j = n + 1
          BY <2>7, <2>8, <3>1, <3>2
    <3>3. CASE j \in 1..n
          BY <2>2, <2>7, <2>9, <3>1, <3>3
    <3> QED
          BY <3>1, <3>2, <3>3
  <2>10. Apart(fed2)
        BY <2>1, <2>2, <2>6, <2>9 DEF Apart
  <2> QED
        BY <2>10 DEF fed2
<1>2. CASE p \in PositionOf("top")
  <2> DEFINE used == layout.mTopUsed
             longer == Grown(used, p)
             how == FoundBy(used, p)
             fed2 == feed(layout, p)
  <2>1. fed2 = [mFlyUsed |-> layout.mFlyUsed, mFlyList |-> layout.mFlyList,
                mTopUsed |-> longer, put |-> layout.put \cup {how}]
        BY <1>2, FeedTop
  <2>2. used \in Seq(PositionOf("top")) /\ Stacked(used) /\ \A q \in ToSet(used) : q.height >= 0
        BY <1>0 DEF Apart, Staged
  <2>3. how = "space"
        BY <2>1
  <2> HIDE DEF fed2, used
  <2>4. Stacked(longer)
        BY <1>2, <2>2, <2>3, GrownStacked
  <2>5. /\ fed2.mFlyUsed = layout.mFlyUsed /\ fed2.mFlyList = layout.mFlyList
        /\ fed2.mTopUsed = longer
        BY <2>1
  <2>6. Apart(fed2)
        BY <2>4, <2>5 DEF Apart
  <2> QED
        BY <2>6 DEF fed2
<1>3. CASE p \in PositionOf("bot")
      BY <1>3, FeedBot
<1> QED
      BY <1>1, <1>2, <1>3 DEF AnyPosition

\* A comment that has a lane is not over: its tail cannot be in when it has left the stage.
LEMMA LaneNotOver ==
  ASSUME NEW p \in PositionOf("fly"), NEW t \in Int, HasLane(p, t)
  PROVE  ~IsOver(p, t)
<1> DEFINE b == p.width + StageWidth
           D == Duration("fly", p.width)
           a == (t - p.time) * b
<1>1. p.width \in Int /\ p.width >= -1 /\ p.time \in Int /\ p.type = "fly"
      BY DEF PositionOf
<1>2. b \in Int /\ b >= 1 /\ D \in Int /\ D >= 1 /\ p.width < b
      BY <1>1, FlyDuration, StageAssumption
<1> SUFFICES ASSUME p.time + D < t PROVE FALSE
    BY <1>1 DEF IsOver
<1> HIDE DEF b, D
<1>3. a \in Int /\ D * b <= a
      BY <1>1, <1>2, MulMono
<1>4. Way(p, t) = a \div D
      BY DEF Way, b, D
<1> HIDE DEF a
<1>5. b * D <= a
      BY <1>2, <1>3
<1>6. b <= a \div D
      BY <1>2, <1>3, <1>5, DivBound
<1> QED
      BY <1>1, <1>2, <1>3, <1>4, <1>6, DivFacts DEF HasLane

\* Removing positions keeps the order of the others.
LEMMA ShownOrder ==
  ASSUME NEW T, NEW list \in Seq(T), NEW t
  PROVE  \A k, j \in DOMAIN Shown(list, t) : k < j =>
           \E a, b \in DOMAIN list :
             a < b /\ Shown(list, t)[k] = list[a] /\ Shown(list, t)[j] = list[b]
<1> DEFINE kept == {p \in ToSet(list) : ~IsOver(p, t)}
           rest == Keep(list, kept)
<1> HIDE DEF kept
<1>1. \A k, j \in DOMAIN rest : k < j =>
        \E a, b \in DOMAIN list : a < b /\ rest[k] = list[a] /\ rest[j] = list[b]
      BY KeepFacts
<1>2. Shown(list, t) = rest
      BY DEF Shown, kept
<1> HIDE DEF rest
<1> QED
      BY <1>1, <1>2

\* Removing positions keeps the rest one below the other.
LEMMA KeepStacked ==
  ASSUME NEW T, NEW list \in Seq(T), NEW kept, Stacked(list)
  PROVE  Stacked(Keep(list, kept))
<1> DEFINE rest == Keep(list, kept)
<1>1. \A k, j \in DOMAIN rest : k < j =>
        \E a, b \in DOMAIN list : a < b /\ rest[k] = list[a] /\ rest[j] = list[b]
      BY KeepFacts
<1> HIDE DEF rest
<1>2. Stacked(rest)
      BY <1>1 DEF Stacked
<1> QED
      BY <1>2 DEF rest

LEMMA ShownFacts ==
  ASSUME NEW T, NEW list \in Seq(T), NEW t
  PROVE  /\ Shown(list, t) \in Seq(T)
         /\ \A p : p \in ToSet(Shown(list, t)) <=> p \in ToSet(list) /\ ~IsOver(p, t)
<1> DEFINE kept == {p \in ToSet(list) : ~IsOver(p, t)}
<1>1. Keep(list, kept) \in Seq(T) /\ ToSet(Keep(list, kept)) = ToSet(list) \cap kept
      BY KeepFacts
<1>2. Shown(list, t) = Keep(list, kept)
      BY DEF Shown
<1> QED
      BY <1>1, <1>2

\* What play changes: who is over goes, lanes are given back, and nobody gets closer.
LEMMA PlayFacts ==
  ASSUME NEW layout, LayoutType(layout), NEW t \in Int,
         ToSet(layout.mFlyUsed) \subseteq ToSet(layout.mFlyList)
  PROVE  LET played == playAt(layout, t)
         IN /\ LayoutType(played) /\ Staged(played) \subseteq Staged(layout)
            /\ \A p \in Staged(played) : ~IsOver(p, t)
            /\ ToSet(played.mFlyUsed) \subseteq ToSet(played.mFlyList)
            /\ \A p \in Flown(played) : p \in Flown(layout) \/ ~HasLane(p, t)
            /\ Apart(layout) => Apart(played)
            /\ Apart(played) \/ played.put = layout.put
<1> DEFINE used == layout.mFlyUsed
           list == layout.mFlyList
           tops == layout.mTopUsed
           keeps == {p \in ToSet(used) : HasLane(p, t)}
           lanes == Keep(used, keeps)
           fly == Shown(list, t)
           top == Shown(tops, t)
           played == playAt(layout, t)
<1>1. /\ used \in Seq(PositionOf("fly")) /\ list \in Seq(PositionOf("fly"))
      /\ tops \in Seq(PositionOf("top")) /\ layout.put \in SUBSET {"space", "gap", "none"}
      BY DEF LayoutType
<1>2. played = [mFlyUsed |-> lanes, mFlyList |-> fly, mTopUsed |-> top,
                put |-> IF fly = <<>> /\ top = <<>> THEN {} ELSE layout.put]
      BY DEF playAt
<1>3. lanes \in Seq(PositionOf("fly")) /\ ToSet(lanes) = ToSet(used) \cap keeps
      BY <1>1, KeepFacts
<1>4. \A p : p \in ToSet(lanes) <=> p \in ToSet(used) /\ HasLane(p, t)
      BY <1>3
<1>5. /\ fly \in Seq(PositionOf("fly")) /\ top \in Seq(PositionOf("top"))
      /\ \A p : p \in ToSet(fly) <=> p \in ToSet(list) /\ ~IsOver(p, t)
      /\ \A p : p \in ToSet(top) <=> p \in ToSet(tops) /\ ~IsOver(p, t)
      BY <1>1, ShownFacts
<1>6. ToSet(lanes) \subseteq ToSet(fly)
  <2>1. ASSUME NEW p \in ToSet(lanes) PROVE p \in ToSet(fly)
    <3>1. p \in ToSet(used) /\ HasLane(p, t) /\ p \in ToSet(list)
          BY <1>4
    <3>2. p \in PositionOf("fly")
      <4>1. PICK k \in DOMAIN used : used[k] = p
            BY <3>1, InToSet
      <4> QED
            BY <1>1, <4>1
    <3> QED
          BY <1>5, <3>1, <3>2, LaneNotOver
  <2> QED
      BY <2>1
<1>7. Apart(layout) => Apart(played)
  <2> SUFFICES ASSUME Apart(layout) PROVE Apart(played)
      OBVIOUS
  <2>1. /\ Stacked(used) /\ Stacked(tops)
        /\ \A k, j \in DOMAIN list : k < j => Behind(list[k], list[j])
        BY DEF Apart
  <2>2. Stacked(lanes)
        BY <1>1, <2>1, KeepStacked
  <2>3. Stacked(top)
        BY <1>1, <2>1, KeepStacked DEF Shown
  <2>4. \A k, j \in DOMAIN fly : k < j =>
          \E a, b \in DOMAIN list : a < b /\ fly[k] = list[a] /\ fly[j] = list[b]
    <3> HIDE DEF list
    <3> QED
          BY <1>1, ShownOrder
  <2> HIDE DEF fly, list, lanes, top
  <2>5. \A k, j \in DOMAIN fly : k < j => Behind(fly[k], fly[j])
        BY <2>1, <2>4
  <2> QED
        BY <1>2, <2>2, <2>3, <2>5 DEF Apart
<1> HIDE DEF lanes, fly, top, played
<1>8. LayoutType(played)
      BY <1>1, <1>2, <1>3, <1>5 DEF LayoutType
<1>9. Staged(played) \subseteq Staged(layout) /\ \A p \in Staged(played) : ~IsOver(p, t)
      BY <1>2, <1>5 DEF Staged
<1>10. \A p \in Flown(played) : p \in Flown(layout) \/ ~HasLane(p, t)
      BY <1>2, <1>4, <1>5 DEF Flown
<1>11. Apart(played) \/ played.put = layout.put
  <2> SUFFICES ASSUME fly = <<>>, top = <<>> PROVE Apart(played)
      BY <1>2
  <2>1. DOMAIN fly = {} /\ DOMAIN top = {} /\ ToSet(fly) = {}
        BY DEF ToSet
  <2>2. DOMAIN lanes = {}
        BY <1>6, <2>1 DEF ToSet
  <2>3. played.mFlyUsed = lanes /\ played.mFlyList = fly /\ played.mTopUsed = top
        BY <1>2
  <2> QED
        BY <2>1, <2>2, <2>3 DEF Apart, Stacked
<1>12. ToSet(played.mFlyUsed) \subseteq ToSet(played.mFlyList)
      BY <1>2, <1>6
<1> QED
      BY <1>7, <1>8, <1>9, <1>10, <1>11, <1>12 DEF played

-----------------------------------------------------------------------------
(* What holds of the layout: LayoutInv, that every step keeps it, and what follows. *)

\* What is shown of a comment is what the list and the cache say of it, and it was due.
Placed(p) ==
  /\ p.no \in Index /\ fed[p.no] >= 1 /\ drawn[p.no] # "no"
  /\ p.time = mCommentList[p.no].time /\ p.time <= FrameTime
  /\ p.width = Width(p.no, drawn) /\ p.height = Height(p.no, drawn)

\* The tail of a comment that has given its lane back is in, and was in one tick before each
\* comment that may still be fed.
TailIn(p) ==
  Measured(p) =>
    /\ Way(p, FrameTime) > p.width
    /\ \A i \in Index : i >= mCommentIndex =>
         fed[i] >= 1 \/ Ends(i) <= FrameTime \/ Way(p, mCommentList[i].time - 1) > p.width

\* None was fed twice, and none took the bitmap of another.
EachOnce == \A i \in Index : fed[i] <= 1 /\ drawn[i] # "cached"

\* What is shown is on its way and nothing else is, and where everybody found room it is apart.
LayoutInv ==
  LET layout == mPositionManager
  IN /\ LayoutType(layout)
     /\ ~mExit /\ renderer \in {"none", "start"} => layout = reset
     /\ Playing => /\ \A p \in Staged(layout) : Placed(p)
                   /\ ToSet(layout.mFlyUsed) \subseteq ToSet(layout.mFlyList)
                   /\ \A p \in Flown(layout) : TailIn(p)
                   /\ EachOnce /\ layout.put \subseteq {"space"} => Apart(layout)
     /\ renderer = "drawn" => \A p \in Staged(layout) : ~IsOver(p, current)

\* The positions that the loop of Render feeds.
LEMMA PositionFacts ==
  ASSUME TInv, JInv, Render, NEW i \in Index
  PROVE  /\ Position(i, Now) \in AnyPosition
         /\ Position(i, Now).time = mCommentList[i].time
         /\ Position(i, Now).height = Height(i, Now)
<1>1. mCommentList[i] \in Comment /\ i \in Nat
      BY RenderTypes, LoadedList DEF Index
<1>2. Width(i, Now) \in Nat \cup {-1} /\ Height(i, Now) \in Nat \cup {-1}
      BY <1>1 DEF Width, Height, Comment
<1>3. Position(i, Now) \in PositionOf(mCommentList[i].type)
      BY <1>1, <1>2 DEF Position, PositionOf, Comment
<1>4. mCommentList[i].type \in {"fly", "top", "bot"}
      BY <1>1 DEF Comment
<1>5. Position(i, Now) \in AnyPosition
      BY <1>3, <1>4 DEF AnyPosition
<1> QED
      BY <1>5 DEF Position

\* Placed after Render, said with what Render computes.
LEMMA PlacedNext ==
  ASSUME Render, NEW p
  PROVE  Placed(p)' <=>
           /\ p.no \in Index /\ fed'[p.no] >= 1 /\ Now[p.no] # "no"
           /\ p.time = mCommentList[p.no].time /\ p.time <= Sought
           /\ p.width = Width(p.no, Now) /\ p.height = Height(p.no, Now)
<1>1. renderer' = "drawn"
      BY DEF Render, Step
<1>2. Index' = Index
      BY RenderFacts DEF Index
<1> QED
      BY <1>1, <1>2, RenderFacts DEF Placed, FrameTime, Width, Height

\* Without a seek, what is shown is still what the list says.
LEMMA StillPlaced ==
  ASSUME CInv, TInv, JInv, Render, ~mSeek, NEW p, Placed(p)
  PROVE  Placed(p)'
<1> DEFINE i == p.no
<1>1. i \in Index /\ fed[i] >= 1 /\ drawn[i] # "no" /\ Now[i] = drawn[i]
      BY RenderLoop DEF Placed
<1>2. Sought = FrameTime /\ Before(i) = fed[i]
      BY <1>1, RenderGoesOn
<1>3. fed'[i] >= 1
  <2>1. CASE IsDue(i, Loop, Now, Sought)
        BY <1>1, <2>1, RenderLoop
  <2>2. CASE ~IsDue(i, Loop, Now, Sought)
        BY <1>1, <1>2, <2>2, RenderLoop
  <2> QED
        BY <2>1, <2>2
<1> QED
      BY <1>1, <1>2, <1>3, PlacedNext DEF Placed, Width, Height

\* What was due was fed, and is drawn by then.
LEMMA NewlyPlaced ==
  ASSUME CInv, TInv, JInv, Render, NEW i \in Index, IsDue(i, Loop, Now, Sought),
         NEW q, IsPlaced(q, Position(i, Now))
  PROVE  Placed(q)'
<1>1. /\ q.no = i /\ q.time = mCommentList[i].time
      /\ q.width = Width(i, Now) /\ q.height = Height(i, Now)
      BY DEF IsPlaced, Position
<1>2. mCommentList[i].time <= Sought /\ i >= Loop
      BY DEF IsDue, OnScreen
<1>3. fed'[i] >= 1 /\ Now[i] # "no"
      BY <1>2, RenderLoop
<1> QED
      BY <1>1, <1>2, <1>3, PlacedNext

\* The tails of those without a lane were in before each comment that is due, if none is fed
\* twice and none takes the bitmap of another.
LEMMA TailsBefore ==
  ASSUME CInv, TInv, JInv, LayoutInv, Render, ~mSeek, EachOnce',
         NEW i \in Index, IsDue(i, Loop, Now, Sought), NEW q \in Flown(mPositionManager)
  PROVE  Way(q, mCommentList[i].time - 1) > q.width
<1>1. renderer = "awake" /\ ~mExit /\ Playing
      BY DEF Render, Step, Playing
<1>2. TailIn(q) /\ Placed(q)
      BY <1>1 DEF LayoutInv, Flown, Staged
<1>3. Loop = mCommentIndex /\ Sought = FrameTime /\ Before(i) = fed[i]
      BY RenderGoesOn
<1>4. /\ \A j \in Index : fed'[j] <= 1 /\ Now[j] # "cached"
  <2>1. Index' = Index /\ drawn' = Now
        BY RenderFacts DEF Index
  <2> QED
        BY <2>1 DEF EachOnce
<1>5. Measured(q)
  <2>1. q.no \in Index /\ drawn[q.no] # "no" /\ Now[q.no] # "cached"
        BY <1>2, <1>4 DEF Placed
  <2>2. drawn[q.no] # "cached"
        BY <2>1, RenderLoop
  <2>3. drawn[q.no] \in {"no", "measured", "cached"}
        BY <2>1 DEF TInv, ListType
  <2> QED
        BY <2>1, <2>2, <2>3 DEF Measured
<1>6. i >= mCommentIndex /\ Sought < mCommentList[i].time + Duration(mCommentList[i].type, Width(i, Now))
      BY <1>3 DEF IsDue, OnScreen
<1>7. fed[i] = 0
  <2>1. Before(i) \in 0..2 /\ fed'[i] = IF Before(i) = 2 THEN 2 ELSE Before(i) + 1
        BY <1>3, RenderFacts DEF TInv, ListType
  <2> QED
        BY <1>3, <1>4, <2>1
<1>8. Ends(i) > FrameTime
  <2>1. drawn[i] # "cached" /\ Now[i] # "cached"
        BY <1>4, RenderLoop
  <2>2. Width(i, drawn) = Width(i, Now)
        BY <2>1 DEF Width
  <2> QED
        BY <1>3, <1>6, <2>2, RenderLoop DEF Ends
<1>9. Ends(i) \in Int /\ FrameTime \in Int
      BY EndsType, RenderTypes, <1>3 DEF TInv
<1> QED
      BY <1>2, <1>5, <1>6, <1>7, <1>8, <1>9 DEF TailIn

FirstLayout == IF mSeek THEN reset ELSE mPositionManager

\* What holds of the layout before each comment of the loop of Render.
Fits(layout) ==
  /\ LayoutType(layout) /\ ToSet(layout.mFlyUsed) \subseteq ToSet(layout.mFlyList)
  /\ \A p \in Staged(layout) : Placed(p)'
  /\ Flown(layout) \subseteq Flown(FirstLayout)
  /\ EachOnce' /\ layout.put \subseteq {"space"} => Apart(layout)

LEMMA ResetFacts ==
  LayoutType(reset) /\ Staged(reset) = {} /\ Flown(reset) = {} /\ Apart(reset)
  /\ ToSet(reset.mFlyUsed) \subseteq ToSet(reset.mFlyList)
<1>1. ToSet(<<>>) = {} /\ DOMAIN <<>> = {}
      BY DEF ToSet
<1>2. Stacked(<<>>)
      BY <1>1 DEF Stacked
<1>3. <<>> \in Seq(PositionOf("fly")) /\ <<>> \in Seq(PositionOf("top"))
      OBVIOUS
<1>4. LayoutType(reset)
      BY <1>3 DEF LayoutType, reset
<1> QED
      BY <1>1, <1>2, <1>4 DEF Staged, Flown, Apart, reset

\* The loop starts with what the last frame left, or after a seek with nothing.
LEMMA FirstFits ==
  ASSUME CInv, TInv, JInv, LayoutInv, Render
  PROVE  Fits(FirstLayout)
<1>1. CASE mSeek
      BY <1>1, ResetFacts DEF FirstLayout, Fits
<1>2. CASE ~mSeek
  <2>1. Playing
        BY DEF Render, Step, Playing
  <2>2. \A p \in Staged(mPositionManager) : Placed(p)'
        BY <1>2, <2>1, StillPlaced DEF LayoutInv
  <2>3. EachOnce' => EachOnce
    <3> SUFFICES ASSUME EachOnce', NEW i \in Index PROVE fed[i] <= 1 /\ drawn[i] # "cached"
        BY DEF EachOnce
    <3>1. fed'[i] <= 1 /\ Now[i] # "cached"
      <4>1. Index' = Index /\ drawn' = Now
            BY RenderFacts DEF Index
      <4> QED
            BY <4>1 DEF EachOnce
    <3>2. Before(i) = fed[i] /\ fed[i] \in 0..2
          BY <1>2, RenderGoesOn DEF TInv, ListType
    <3>3. fed[i] <= 1
      <4>1. fed'[i] = IF ~IsDue(i, Loop, Now, Sought) THEN Before(i)
                      ELSE IF Before(i) = 2 THEN 2 ELSE Before(i) + 1
            BY RenderFacts
      <4> QED
            BY <3>1, <3>2, <4>1
    <3> QED
          BY <3>1, <3>3, RenderLoop
  <2>4. FirstLayout = mPositionManager
        BY <1>2 DEF FirstLayout
  <2> QED
        BY <2>1, <2>2, <2>3, <2>4 DEF LayoutInv, Fits
<1> QED
      BY <1>1, <1>2

LEMMA FeedFits ==
  ASSUME CInv, TInv, JInv, LayoutInv, Render, NEW layout, Fits(layout),
         NEW i \in Index, IsDue(i, Loop, Now, Sought)
  PROVE  Fits(feed(layout, Position(i, Now)))
<1> DEFINE p == Position(i, Now)
           fed2 == feed(layout, p)
<1>1. /\ p \in AnyPosition /\ p.time = mCommentList[i].time
      /\ p.height = Height(i, Now)
      BY PositionFacts
<1>2. \A q : IsPlaced(q, p) => Placed(q)'
      BY NewlyPlaced
<1> HIDE DEF p
<1>3. LayoutType(layout) /\ ToSet(layout.mFlyUsed) \subseteq ToSet(layout.mFlyList)
      BY DEF Fits
<1>4. /\ LayoutType(fed2) /\ layout.put \subseteq fed2.put
      /\ \A q \in Staged(fed2) : q \in Staged(layout) \/ IsPlaced(q, p)
      /\ ToSet(fed2.mFlyUsed) \subseteq ToSet(fed2.mFlyList)
      /\ Flown(fed2) \subseteq Flown(layout)
      BY <1>1, <1>3, FeedFacts
<1>5. ASSUME EachOnce', fed2.put \subseteq {"space"} PROVE Apart(fed2)
  <2>1. Apart(layout)
        BY <1>4, <1>5 DEF Fits
  <2>2. \A j \in Index : Height(j, Now) >= 0
    <3> SUFFICES ASSUME NEW j \in Index PROVE Height(j, Now) >= 0
        OBVIOUS
    <3>1. Now[j] # "cached"
      <4>1. Index' = Index /\ drawn' = Now
            BY RenderFacts DEF Index
      <4> QED
            BY <1>5, <4>1 DEF EachOnce
    <3>2. mCommentList[j] \in Comment
          BY RenderTypes, LoadedList
    <3> QED
          BY <3>1, <3>2 DEF Height, Comment
  <2>3. \A q \in Staged(layout) : q.height >= 0
    <3>1. \A q \in Staged(layout) : Placed(q)'
          BY DEF Fits
    <3> QED
          BY <2>2, <3>1, PlacedNext
  <2>4. \A q \in Flown(layout) : Way(q, p.time - 1) > q.width
    <3>1. CASE mSeek
      <4>1. Flown(layout) = {}
            BY <3>1, ResetFacts DEF Fits, FirstLayout
      <4> QED
            BY <4>1
    <3>2. CASE ~mSeek
      <4>1. Flown(layout) \subseteq Flown(mPositionManager)
            BY <3>2 DEF Fits, FirstLayout
      <4>2. \A q \in Flown(mPositionManager) : Way(q, mCommentList[i].time - 1) > q.width
            BY <1>5, <3>2, TailsBefore
      <4> QED
            BY <1>1, <4>1, <4>2
    <3> QED
          BY <3>1, <3>2
  <2> QED
        BY <1>1, <1>3, <1>5, <2>1, <2>2, <2>3, <2>4, FeedApart
<1>6. \A q \in Staged(fed2) : Placed(q)'
      BY <1>2, <1>4 DEF Fits
<1>7. Flown(fed2) \subseteq Flown(FirstLayout)
      BY <1>4 DEF Fits
<1> HIDE DEF fed2
<1>8. Fits(fed2)
      BY <1>4, <1>5, <1>6, <1>7 DEF Fits
<1> QED
      BY <1>8 DEF fed2, p

\* Any function that starts with the first layout, and feeds what is due, fits all along.
LEMMA AllFit ==
  ASSUME CInv, TInv, JInv, LayoutInv, Render, NEW f, f[0] = FirstLayout,
         \A k \in Index : f[k] = IF IsDue(k, Loop, Now, Sought)
                                 THEN feed(f[k - 1], Position(k, Now)) ELSE f[k - 1]
  PROVE  \A k \in 0..Len(mCommentList) : Fits(f[k])
<1> DEFINE n == Len(mCommentList)
           Bad == {m \in 0..n : ~Fits(f[m])}
<1>1. n \in Nat /\ Index = 1..n
      BY RenderTypes, LoadedList DEF Index
<1>2. Fits(f[0])
      BY FirstFits
<1>3. ASSUME NEW m \in Index, Fits(f[m - 1]) PROVE Fits(f[m])
  <2>1. CASE IsDue(m, Loop, Now, Sought)
        BY <1>3, <2>1, FeedFits
  <2>2. CASE ~IsDue(m, Loop, Now, Sought)
        BY <1>3, <2>2
  <2> QED
        BY <2>1, <2>2
<1> HIDE DEF n
<1>4. ASSUME NEW m \in Bad, \A j \in Bad : m <= j PROVE FALSE
  <2>1. m \in 0..n /\ ~Fits(f[m])
        OBVIOUS
  <2>2. m # 0
        BY <1>2, <2>1
  <2>3. m - 1 \in 0..n /\ m - 1 \notin Bad /\ m \in Index
        BY <1>1, <1>4, <2>1, <2>2
  <2> QED
        BY <1>3, <2>1, <2>3
<1>5. Bad \in SUBSET Nat
      BY <1>1
<1> QED
      BY <1>4, <1>5, LeastElement DEF n

\* The frame feeds what is due to the first layout, and plays what comes out.
LEMMA LayoutFits ==
  ASSUME CInv, TInv, JInv, LayoutInv, Render
  PROVE  \E layout : Fits(layout) /\ mPositionManager' = playAt(layout, Sought)
<1> DEFINE n == Len(mCommentList)
           T == [mFlyUsed : Seq(PositionOf("fly")), mFlyList : Seq(PositionOf("fly")),
                 mTopUsed : Seq(PositionOf("top")), put : SUBSET {"space", "gap", "none"}]
           Due(k) == IsDue(k, Loop, Now, Sought)
           Fed(k, x) == IF Due(k) THEN feed(x, Position(k, Now)) ELSE x
           G == [k \in 1..n |-> [x \in T |-> Fed(k, x)]]
           fedTo[i \in 0..n] ==
             IF i = 0 THEN FirstLayout
             ELSE IF Due(i) THEN feed(fedTo[i - 1], Position(i, Now)) ELSE fedTo[i - 1]
<1>1. n \in Nat /\ Index = 1..n
      BY RenderTypes, LoadedList DEF Index
<1>2. \A x : x \in T <=> LayoutType(x)
      BY Zenon DEF LayoutType
<1>3. FirstLayout \in T
      BY <1>2, ResetFacts DEF FirstLayout, LayoutInv
<1>4. \A k \in Index : \A x \in T : Fed(k, x) \in T
      BY <1>2, PositionFacts, FeedFacts
<1> HIDE DEF n, T, Fed
<1>5. G \in [1..n -> [T -> T]]
      BY <1>1, <1>4
<1>6. \A k \in 1..n : \A x \in T : G[k][x] = Fed(k, x)
      OBVIOUS
<1> HIDE DEF G
<1>7. PICK f \in [0..n -> T] : f[0] = FirstLayout /\ \A k \in 1..n : f[k] = G[k][f[k - 1]]
  <2> DEFINE b == FirstLayout
  <2>1. b \in T
        BY <1>3
  <2> HIDE DEF b
  <2>2. \E f \in [0..n -> T] : f[0] = b /\ \A k \in 1..n : f[k] = G[k][f[k - 1]]
        BY <1>1, <1>5, <2>1, Recursion
  <2> QED
        BY <2>2 DEF b
<1>8. \A k \in 0..n : f[k] = IF k = 0 THEN FirstLayout ELSE
           IF Due(k) THEN feed(f[k - 1], Position(k, Now)) ELSE f[k - 1]
  <2> SUFFICES ASSUME NEW k \in 0..n, k # 0 PROVE f[k] = Fed(k, f[k - 1])
      BY <1>7 DEF Fed
  <2>1. k - 1 \in 0..n /\ k \in 1..n
        BY <1>1
  <2>2. f[k - 1] \in T /\ f[k] = G[k][f[k - 1]]
        BY <1>7, <2>1
  <2> QED
        BY <1>6, <2>1, <2>2
<1> HIDE DEF Due
<1>9. f = [k \in 0..n |-> IF k = 0 THEN FirstLayout ELSE
             IF Due(k) THEN feed(f[k - 1], Position(k, Now)) ELSE f[k - 1]]
      BY <1>8, Zenon
<1>10. fedTo = [k \in 0..n |-> IF k = 0 THEN FirstLayout ELSE
                  IF Due(k) THEN feed(fedTo[k - 1], Position(k, Now)) ELSE fedTo[k - 1]]
      BY <1>9, Zenon DEF fedTo
<1>11. mPositionManager' = playAt(fedTo[n], Sought)
  <2>1. mPositionManager' = Layout(Loop, Now, Sought)
        BY Zenon DEF Render, Sought, Loop, Now
  <2>2. Layout(Loop, Now, Sought) = playAt(fedTo[n], Sought)
        BY Zenon DEF Layout, FirstLayout, fedTo, n, Due
  <2> QED
        BY <2>1, <2>2
<1> HIDE DEF fedTo
<1>12. \A k \in 0..n : fedTo[k] = IF k = 0 THEN FirstLayout ELSE
           IF Due(k) THEN feed(fedTo[k - 1], Position(k, Now)) ELSE fedTo[k - 1]
      BY <1>10, Zenon
<1>13. fedTo[0] = FirstLayout /\ \A k \in Index : fedTo[k] =
           IF Due(k) THEN feed(fedTo[k - 1], Position(k, Now)) ELSE fedTo[k - 1]
      BY <1>1, <1>12
<1>14. Fits(fedTo[n])
  <2>1. \A k \in 0..n : Fits(fedTo[k])
        BY <1>13, AllFit DEF n, Due
  <2>2. n \in 0..n
        BY <1>1
  <2> QED
        BY <2>1, <2>2
<1> QED
      BY <1>11, <1>14

\* A comment of the layout has a width, a height and a time.
LEMMA FlyingType ==
  ASSUME NEW layout, LayoutType(layout), NEW p \in ToSet(layout.mFlyList)
  PROVE  p \in PositionOf("fly") /\ p.width \in Int /\ p.width >= -1 /\ p.time \in Int
<1>1. layout.mFlyList \in Seq(PositionOf("fly"))
      BY DEF LayoutType
<1>2. p \in PositionOf("fly")
      BY <1>1, InToSet
<1> QED
      BY <1>2 DEF PositionOf

\* What has no lane after the frame is in with its tail, and was before what is to come.
LEMMA TailsAfter ==
  ASSUME CInv, TInv, JInv, LayoutInv, Render, NEW p, p.width \in Int, p.width >= -1, p.time \in Int,
         (~mSeek /\ p \in Flown(mPositionManager)) \/ ~HasLane(p, Sought)
  PROVE  TailIn(p)'
<1> SUFFICES ASSUME Measured(p)' PROVE
      /\ Way(p, FrameTime)' > p.width
      /\ \A i \in Index' : i >= mCommentIndex' =>
           \/ fed'[i] >= 1 \/ Ends(i)' <= FrameTime'
           \/ Way(p, mCommentList[i].time - 1)' > p.width
    BY DEF TailIn
<1> DEFINE n == NextIndex(Loop, Sought)
           EndsNow(i) == mCommentList[i].time + Duration(mCommentList[i].type, Width(i, Now))
<1>1. renderer = "awake" /\ ~mExit /\ Playing /\ renderer' = "drawn"
      BY DEF Render, Step, Playing
<1>2. /\ current' = Sought /\ mCommentIndex' = n /\ drawn' = Now
      /\ mCommentList' = mCommentList /\ Index' = Index /\ FrameTime' = Sought
      BY <1>1, RenderFacts DEF Index, FrameTime
<1>3. \A i \in Index : Ends(i)' = EndsNow(i)
      BY <1>2 DEF Ends, Width
<1>4. /\ Loop \in Index /\ Sought \in Int /\ n \in Index /\ Index \subseteq Nat
      /\ n >= Loop \/ n = mCommentIndex
  <2>1. /\ mCommentList \in Lists /\ mCommentIndex \in Index /\ Loop \in Index /\ Sought \in Int
        /\ Index \subseteq Nat
        BY RenderTypes DEF Index
  <2>2. n \in Index /\ (n >= Loop \/ n = mCommentIndex)
        BY <2>1, NextIndexStops
  <2> QED
        BY <2>1, <2>2
<1>5. n >= Loop
  <2>1. CASE mSeek
        BY <1>4, <2>1 DEF Loop, LoopStart, Index
  <2>2. CASE ~mSeek
        BY <1>4, <2>2 DEF Loop, LoopStart, Index
  <2> QED
        BY <2>1, <2>2
<1> HIDE DEF n
<1>6. Way(p, Sought) \in Int /\ Way(p, Sought) > p.width
  <2>1. Way(p, Sought) \in Int
        BY <1>4, WayFacts
  <2>2. CASE ~HasLane(p, Sought)
        BY <2>1, <2>2 DEF HasLane
  <2>3. CASE ~mSeek /\ p \in Flown(mPositionManager)
    <3>1. TailIn(p) /\ Placed(p)
          BY <1>1, <2>3 DEF LayoutInv, Flown, Staged
    <3>2. p.no \in Index /\ drawn[p.no] # "no" /\ Now[p.no] = "measured"
          BY <1>2, <3>1 DEF Placed, Measured
    <3>3. Measured(p)
          BY <3>2, RenderLoop DEF Measured
    <3> QED
          BY <2>1, <2>3, <3>1, <3>3, RenderGoesOn DEF TailIn
  <2> QED
        BY <2>2, <2>3
<1>7. ASSUME NEW i \in Index, i >= n
      PROVE  fed'[i] >= 1 \/ EndsNow(i) <= Sought \/ Way(p, mCommentList[i].time - 1) > p.width
  <2>1. i >= Loop /\ mCommentList[i].time \in Int /\ EndsNow(i) \in Int
        BY <1>4, <1>5, <1>7, RenderLoop
  <2>2. CASE mCommentList[i].time > Sought
    <3>1. mCommentList[i].time - 1 \in Int /\ Sought <= mCommentList[i].time - 1
          BY <1>4, <2>1, <2>2
    <3>2. /\ Way(p, mCommentList[i].time - 1) \in Int
          /\ Way(p, Sought) <= Way(p, mCommentList[i].time - 1)
          BY <1>4, <3>1, WayFacts
    <3> QED
          BY <1>6, <3>2
  <2>3. CASE mCommentList[i].time <= Sought /\ Sought < EndsNow(i)
    <3>1. IsDue(i, Loop, Now, Sought)
          BY <2>1, <2>3 DEF IsDue, OnScreen
    <3> QED
          BY <3>1, RenderLoop
  <2> QED
        BY <1>4, <2>1, <2>2, <2>3
<1>8. /\ Way(p, FrameTime)' = Way(p, Sought)
      /\ \A i : Way(p, mCommentList[i].time - 1)' = Way(p, mCommentList[i].time - 1)
      BY <1>2 DEF Way
<1> QED
      BY <1>2, <1>3, <1>6, <1>7, <1>8

\* A frame keeps the invariant: feed gives the places, play takes back what is not needed.
LEMMA RenderLayout == ASSUME CInv, TInv, JInv, LayoutInv, Render PROVE LayoutInv'
<1>1. PICK layout : Fits(layout) /\ mPositionManager' = playAt(layout, Sought)
      BY LayoutFits
<1>2. LayoutType(layout) /\ ToSet(layout.mFlyUsed) \subseteq ToSet(layout.mFlyList)
      BY <1>1 DEF Fits
<1> DEFINE played == playAt(layout, Sought)
<1>3. Sought \in Int
      BY RenderTypes
<1>4. /\ LayoutType(played) /\ Staged(played) \subseteq Staged(layout)
      /\ \A p \in Staged(played) : ~IsOver(p, Sought)
      /\ ToSet(played.mFlyUsed) \subseteq ToSet(played.mFlyList)
      /\ \A p \in Flown(played) : p \in Flown(layout) \/ ~HasLane(p, Sought)
      /\ Apart(layout) => Apart(played)
      /\ Apart(played) \/ played.put = layout.put
      BY <1>2, <1>3, PlayFacts
<1> HIDE DEF played
<1>5. mPositionManager' = played /\ renderer' = "drawn" /\ current' = Sought
      BY <1>1, RenderFacts DEF played, Render, Step
<1>6. \A p \in Staged(played) : Placed(p)'
      BY <1>1, <1>4 DEF Fits
<1>7. ASSUME NEW p \in Flown(played) PROVE TailIn(p)'
  <2>1. p.width \in Int /\ p.width >= -1 /\ p.time \in Int
        BY <1>4, FlyingType DEF Flown
  <2>2. p \in Flown(FirstLayout) \/ ~HasLane(p, Sought)
        BY <1>1, <1>4 DEF Fits
  <2>3. (~mSeek /\ p \in Flown(mPositionManager)) \/ ~HasLane(p, Sought)
        BY <2>2, ResetFacts DEF FirstLayout
  <2> QED
        BY <2>1, <2>3, TailsAfter
<1>8. EachOnce' /\ played.put \subseteq {"space"} => Apart(played)
      BY <1>1, <1>4 DEF Fits
<1>9. LayoutType(mPositionManager)'
      BY <1>4, <1>5 DEF LayoutType
<1>10. \A p \in Staged(mPositionManager)' : p \in Staged(played)
      BY <1>5 DEF Staged
<1>11. \A p \in Flown(mPositionManager)' : p \in Flown(played)
      BY <1>5 DEF Flown
<1>12. Apart(mPositionManager)' <=> Apart(played)
      BY <1>5 DEF Apart, Stacked
<1> QED
      BY <1>4, <1>5, <1>6, <1>7, <1>8, <1>9, <1>10, <1>11, <1>12 DEF LayoutInv, IsOver

\* Time may pass between two frames: the tails go on.
LEMMA QuietLayout == ASSUME TInv, TInv', JInv, LayoutInv, Quiet PROVE LayoutInv'
<1> USE DEF Quiet, Kept
<1> DEFINE layout == mPositionManager
<1>1. Index' = Index /\ layout' = layout
      BY DEF Index
<1>2. FrameTime \in Int /\ FrameTime' \in Int
      BY DEF FrameTime, TInv, ClockType, ThreadType
<1>3. ASSUME Playing', NEW p \in Staged(layout) PROVE Placed(p)'
  <2>1. Placed(p) /\ FrameTime <= FrameTime'
        BY <1>3 DEF LayoutInv
  <2>2. p.time \in Int
    <3>1. mCommentList \in Lists
          BY <1>3 DEF Playing, JInv, Loaded
    <3>2. mCommentList[p.no].time \in Nat
          BY <2>1, <3>1, LoadedList DEF Placed, Comment
    <3> QED
          BY <2>1, <3>2 DEF Placed
  <2> QED
        BY <1>1, <1>2, <2>1, <2>2 DEF Placed, Width, Height
<1>4. ASSUME Playing', NEW p \in Flown(layout) PROVE TailIn(p)'
  <2> SUFFICES ASSUME Measured(p) PROVE
        /\ Way(p, FrameTime') > p.width
        /\ \A i \in Index : i >= mCommentIndex =>
             fed[i] >= 1 \/ Ends(i) <= FrameTime' \/ Way(p, mCommentList[i].time - 1) > p.width
    <3>1. /\ Way(p, FrameTime)' = Way(p, FrameTime')
          /\ \A i : Way(p, mCommentList[i].time - 1)' = Way(p, mCommentList[i].time - 1)
          BY DEF Way
    <3>2. \A i \in Index : Ends(i)' = Ends(i)
          BY DEF Ends, Width
    <3> QED
          BY <1>1, <3>1, <3>2 DEF TailIn, Measured
  <2>1. TailIn(p) /\ FrameTime <= FrameTime' /\ LayoutType(layout)
        BY <1>4 DEF LayoutInv
  <2>2. p.width \in Int /\ p.width >= -1 /\ p.time \in Int
        BY <2>1, FlyingType DEF Flown
  <2>3. /\ Way(p, FrameTime) \in Int /\ Way(p, FrameTime') \in Int
        /\ Way(p, FrameTime) <= Way(p, FrameTime')
        BY <1>2, <2>1, <2>2, WayFacts
  <2>4. mCommentList \in Lists
        BY <1>4 DEF Playing, JInv, Loaded
  <2>5. \A i \in Index : Ends(i) \in Int
        BY <2>4, EndsType DEF TInv
  <2> QED
        BY <1>2, <2>1, <2>2, <2>3, <2>5 DEF TailIn
<1>5. EachOnce' <=> EachOnce
      BY <1>1 DEF EachOnce
<1> HIDE DEF layout
<1>6. LayoutType(layout)
      BY DEF LayoutInv, layout
<1>7. ~mExit' /\ renderer' \in {"none", "start"} => layout = reset
      BY DEF LayoutInv, layout
<1>8. Playing' => /\ ToSet(layout.mFlyUsed) \subseteq ToSet(layout.mFlyList)
                  /\ EachOnce /\ layout.put \subseteq {"space"} => Apart(layout)
      BY DEF LayoutInv, layout
<1>9. renderer' = "drawn" => current' = current /\ \A p \in Staged(layout) : ~IsOver(p, current)
      BY DEF LayoutInv, layout
<1>10. \A p : /\ p \in Staged(layout)' <=> p \in Staged(layout)
              /\ p \in Flown(layout)' <=> p \in Flown(layout)
      BY <1>1 DEF Staged, Flown
<1>11. LayoutType(layout)' <=> LayoutType(layout)
      BY <1>1 DEF LayoutType
<1>12. Apart(layout)' <=> Apart(layout)
      BY <1>1 DEF Apart, Stacked
<1> QED
      BY <1>1, <1>3, <1>4, <1>5, <1>6, <1>7, <1>8, <1>9, <1>10, <1>11, <1>12
         DEF LayoutInv, IsOver, layout

\* As long as no renderer was asked to end, the layout is empty before one starts.
LEMMA EmptyLayout ==
  ASSUME LayoutInv, UNCHANGED <<mPositionManager, mExit>>,
         renderer \in {"none", "start"}, renderer' # "drawn"
  PROVE  LayoutInv'
<1>1. ~mExit' => mPositionManager' = reset
      BY DEF LayoutInv
<1>2. LayoutType(mPositionManager)'
      BY DEF LayoutInv, LayoutType
<1>3. Playing' => mPositionManager' = reset
      BY <1>1 DEF Playing
<1>4. mPositionManager' = reset =>
        /\ Staged(mPositionManager)' = {} /\ Flown(mPositionManager)' = {}
        /\ Apart(mPositionManager)'
        /\ ToSet(mPositionManager.mFlyUsed)' \subseteq ToSet(mPositionManager.mFlyList)'
      BY ResetFacts DEF Staged, Flown, Apart, Stacked
<1> QED
      BY <1>1, <1>2, <1>3, <1>4 DEF LayoutInv

LEMMA NextLayout ==
  CInv /\ TInv /\ TInv' /\ JInv /\ LayoutInv /\ [Next]_vars => LayoutInv'
<1> SUFFICES ASSUME CInv, TInv, TInv', JInv, LayoutInv, [Next]_vars PROVE LayoutInv'
    OBVIOUS
<1>1. ASSUME NEW list \in Lists, open(list) PROVE LayoutInv'
      BY <1>1, EmptyLayout DEF open, control, JInv, Calls
<1>2. CASE Start
      BY <1>2, EmptyLayout DEF Start, Step, control, comments, screen
<1> QED
      BY <1>1, <1>2, NextQuiet, QuietLayout, RenderLayout

LEMMA InitLayout == Init => LayoutInv
<1> SUFFICES ASSUME Init PROVE LayoutInv
    OBVIOUS
<1>1. mPositionManager = reset /\ renderer = "none"
      BY DEF Init
<1> QED
      BY <1>1, ResetFacts DEF LayoutInv, Playing

\* The layout is right in every state, with all that it depends on.
THEOREM LayoutInductive == Spec => [](TInv /\ JInv /\ LayoutInv)
BY InitCInv, InitTInv, InitJInv, InitLayout, NextCInv, NextTInv, NextJInv, NextLayout, PTL DEF Spec

\* What is drawn at the time of a frame: it has come, and is not over.
LEMMA DrawnFacts ==
  ASSUME TInv, JInv, LayoutInv, renderer = "drawn", NEW p \in ToSet(mPositionManager.mFlyList)
  PROVE  /\ p \in PositionOf("fly") /\ p.width \in Int /\ p.width >= -1 /\ p.time \in Int
         /\ current \in Int /\ p.time <= current /\ current <= p.time + Duration("fly", p.width)
         /\ EachOnce => p.width >= 1
<1>1. Playing /\ FrameTime = current /\ current \in Int
      BY DEF Playing, FrameTime, TInv, ThreadType
<1>2. p \in Staged(mPositionManager)
      BY DEF Staged
<1>3. Placed(p) /\ ~IsOver(p, current) /\ LayoutType(mPositionManager)
      BY <1>1, <1>2 DEF LayoutInv
<1>4. p \in PositionOf("fly") /\ p.width \in Int /\ p.width >= -1 /\ p.time \in Int
      BY <1>3, FlyingType
<1>5. p.type = "fly"
      BY <1>4 DEF PositionOf
<1>6. Duration("fly", p.width) \in Int
      BY <1>4, DurationType
<1>7. p.time <= current /\ current <= p.time + Duration("fly", p.width)
      BY <1>1, <1>3, <1>4, <1>5, <1>6 DEF Placed, IsOver
<1>8. EachOnce => p.width >= 1
  <2>1. mCommentList[p.no] \in Comment /\ p.no \in Index /\ p.width = Width(p.no, drawn)
        BY <1>3, LoadedList DEF Placed, JInv, Loaded
  <2> QED
        BY <2>1 DEF EachOnce, Width, Comment
<1> QED
      BY <1>1, <1>4, <1>7, <1>8

\* Of two that have come, the one that came when the tail of the other was in does not reach it.
LEMMA NeverMeet ==
  ASSUME TInv, JInv, LayoutInv, renderer = "drawn", EachOnce,
         NEW p \in ToSet(mPositionManager.mFlyList), NEW q \in ToSet(mPositionManager.mFlyList),
         Behind(p, q), Meet(p.y, p.height, q.y, q.height)
  PROVE  /\ ~Meet(X(p, current), p.width, X(q, current), q.width)
         /\ ~Meet(X(q, current), q.width, X(p, current), p.width)
<1>1. Way(p, q.time - 1) > p.width
      BY DEF Behind
<1>2. /\ p.width \in Int /\ p.width >= 1 /\ p.time \in Int
      /\ q.width \in Int /\ q.width >= 1 /\ q.time \in Int
      /\ current \in Int /\ q.time <= current /\ current <= q.time + Duration("fly", q.width)
      BY DrawnFacts
<1>3. X(p, current) + p.width <= X(q, current)
      BY <1>1, <1>2, StaysAhead
<1>4. X(p, current) \in Int /\ X(q, current) \in Int
  <2>1. Way(p, current) \in Int /\ Way(q, current) \in Int
        BY <1>2, WayFacts
  <2> QED
        BY <2>1, StageAssumption DEF X
<1> QED
      BY <1>2, <1>3, <1>4 DEF Meet

\* As long as each found room, and none was fed twice or took the bitmap of another, no two
\* comments are drawn over each other: for every width, stage, pace and list.
THEOREM NoneCollides == Spec => []NoCollision
<1>1. ASSUME TInv, JInv, LayoutInv PROVE NoCollision
  <2> DEFINE fly == mPositionManager.mFlyList
             top == mPositionManager.mTopUsed
  <2> SUFFICES ASSUME renderer = "drawn", mPositionManager.put \subseteq {"space"}, EachOnce
               PROVE  /\ \A k, j \in DOMAIN fly :
                           k # j /\ Meet(fly[k].y, fly[k].height, fly[j].y, fly[j].height)
                             => ~Meet(X(fly[k], current), fly[k].width,
                                      X(fly[j], current), fly[j].width)
                      /\ \A k, j \in DOMAIN top :
                           k # j => ~Meet(top[k].y, top[k].height, top[j].y, top[j].height)
      BY DEF NoCollision, EachOnce
  <2>1. Apart(mPositionManager) /\ LayoutType(mPositionManager)
        BY <1>1 DEF LayoutInv, Playing
  <2>2. fly \in Seq(PositionOf("fly")) /\ top \in Seq(PositionOf("top"))
        BY <2>1 DEF LayoutType
  <2>3. \A k \in DOMAIN fly : k \in Int /\ fly[k] \in ToSet(fly) /\ fly[k] \in PositionOf("fly")
        BY <2>2, InToSet
  <2>4. \A k \in DOMAIN top : k \in Int /\ top[k] \in PositionOf("top")
        BY <2>2
  <2>5. /\ \A k, j \in DOMAIN fly : k < j => Behind(fly[k], fly[j])
        /\ \A k, j \in DOMAIN top : k < j => Bottom(top[k]) <= top[j].y
        BY <2>1 DEF Apart, Stacked
  <2> HIDE DEF fly, top
  <2>6. ASSUME NEW k \in DOMAIN fly, NEW j \in DOMAIN fly, k # j,
               Meet(fly[k].y, fly[k].height, fly[j].y, fly[j].height)
        PROVE  ~Meet(X(fly[k], current), fly[k].width, X(fly[j], current), fly[j].width)
    <3>1. Meet(fly[j].y, fly[j].height, fly[k].y, fly[k].height)
          BY <2>6 DEF Meet
    <3>2. CASE k < j
          BY <1>1, <2>3, <2>5, <2>6, <3>2, NeverMeet DEF fly
    <3>3. CASE j < k
          BY <1>1, <2>3, <2>5, <2>6, <3>1, <3>3, NeverMeet DEF fly
    <3> QED
          BY <2>3, <2>6, <3>2, <3>3
  <2>7. ASSUME NEW k \in DOMAIN top, NEW j \in DOMAIN top, k # j
        PROVE  ~Meet(top[k].y, top[k].height, top[j].y, top[j].height)
    <3>1. /\ top[k].y \in Int /\ top[k].height \in Int
          /\ top[j].y \in Int /\ top[j].height \in Int
          BY <2>4 DEF PositionOf
    <3>2. Bottom(top[k]) <= top[j].y \/ Bottom(top[j]) <= top[k].y
          BY <2>4, <2>5, <2>7
    <3> QED
          BY <3>1, <3>2, BelowIsBeside
  <2> QED
      BY <2>6, <2>7
<1> QED
      BY <1>1, LayoutInductive, PTL

\* A lane is not kept for a comment that is gone, a measured one whose tail is not in has its
\* lane, and what is drawn is on the stage.
THEOREM LanesFlown == Spec => []LanesAreFlown
<1>1. ASSUME TInv, JInv, LayoutInv PROVE LanesAreFlown
  <2> DEFINE fly == ToSet(mPositionManager.mFlyList)
             used == ToSet(mPositionManager.mFlyUsed)
  <2> SUFFICES ASSUME renderer = "drawn"
               PROVE  used \subseteq fly /\ \A p \in fly :
                        /\ X(p, current) \in -p.width .. StageWidth
                        /\ X(p, current) + p.width > StageWidth /\ Measured(p) => p \in used
      BY Zenon DEF LanesAreFlown
  <2>1. used \subseteq fly /\ FrameTime = current /\ Playing
        BY <1>1 DEF LayoutInv, Playing, FrameTime
  <2>2. ASSUME NEW p \in fly
        PROVE  /\ X(p, current) \in -p.width .. StageWidth
               /\ X(p, current) + p.width > StageWidth /\ Measured(p) => p \in used
    <3>1. /\ p.width \in Int /\ p.width >= -1 /\ p.time \in Int
          /\ current \in Int /\ p.time <= current /\ current <= p.time + Duration("fly", p.width)
          BY <1>1, <2>2, DrawnFacts
    <3>2. /\ Way(p, current) \in Int /\ Way(p, current) >= 0
          /\ Way(p, current) <= p.width + StageWidth
          BY <3>1, WayFacts
    <3>3. p \in used \/ TailIn(p)
          BY <1>1, <2>1, <2>2 DEF LayoutInv, Flown
    <3> QED
          BY <2>1, <3>1, <3>2, <3>3, StageAssumption DEF X, TailIn
  <2> QED
      BY <2>1, <2>2
<1> QED
      BY <1>1, LayoutInductive, PTL

=============================================================================
