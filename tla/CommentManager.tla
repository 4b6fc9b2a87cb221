--------------------------- MODULE CommentManager ---------------------------
(***************************************************************************)
(* The thread that draws the comments of a video, and the calls that open, *)
(* close, pause, play and seek: comment/CommentManager.java.               *)
(*                                                                         *)
(* The renderer computes its own play time from the clock: mTimeStart is   *)
(* moved by every pause, and set anew by every seek.  The comments that    *)
(* become due are found by an index into the sorted list, which a seek     *)
(* sends back to the beginning; they are given places by PositionManager,  *)
(* and their sizes by Comment.draw.                                        *)
(***************************************************************************)
EXTENDS PositionManager

CONSTANTS Lists,   \* what a file may hold: comments in the order of their times
          Offset,  \* the times that are sought
          MaxTime  \* bound on the clock

\* hash stands for the size, the color and the text.
Comment == [time : Nat, type : {"fly", "top", "bot"}, hash : Nat,
            width : Nat \ {0}, height : Nat \ {0}]

ASSUME ListAssumption ==
  /\ Lists \subseteq Seq(Comment) \ {<<>>}
  /\ \A list \in Lists : \A i, j \in 1..Len(list) : i < j => list[i].time <= list[j].time
ASSUME TimeAssumption == Offset \subseteq Nat /\ MaxTime \in Nat

VARIABLES
  now,       \* System.currentTimeMillis()
  caller,    \* what the thread that calls the manager is in
  renderer,  \* what mRendererThread is in; "none" before the first
  mExit, mPause, mSeek,
  mTimeStart, mTimeOffset, mCommentList, mCommentIndex,
  mBitmap,   \* the hashes that have a bitmap
  drawn,     \* of each comment: "no", "measured", or "cached" if it found its bitmap there
  mPositionManager,
  pauseBegin,  \* when this frame found itself paused, or -1
  current,   \* currentTime of the frame, or -1
  fed,       \* how often each comment was fed since the last reset: 0, 1, or 2 for more
  base, ran  \* what was last sought, and how long the renderer has not been paused since

clock == <<mTimeStart, base, ran>>
control == <<mExit, mPause, mSeek, mTimeOffset>>
frame == <<pauseBegin, current>>
screen == <<mBitmap, drawn, mPositionManager>>
comments == <<mCommentList, mCommentIndex, fed, screen>>
vars == <<now, caller, renderer, clock, control, frame, comments>>

Index == 1..Len(mCommentList)

Init ==
  /\ now = 0 /\ caller = "idle" /\ renderer = "none"
  /\ mExit = FALSE /\ mPause = TRUE /\ mSeek = TRUE
  /\ mTimeStart = -1 /\ mTimeOffset = 0 /\ mCommentIndex = 1
  /\ mCommentList = <<>> /\ mBitmap = {} /\ mPositionManager = reset
  /\ pauseBegin = -1 /\ current = -1
  /\ fed = <<>> /\ drawn = <<>>
  /\ base = 0 /\ ran = 0

Alive == renderer \notin {"none", "ended"}

-----------------------------------------------------------------------------
(* The caller. *)

\* Mutant of close: the renderer is not woken.
closeSilently(next) ==
  /\ caller = "idle"
  /\ IF renderer = "none"
     THEN caller' = next /\ UNCHANGED <<mExit, mPause>>
     ELSE /\ mExit' = TRUE /\ UNCHANGED mPause
          /\ caller' = IF next = "idle" THEN "join" ELSE "rejoin"
  /\ UNCHANGED <<now, renderer, clock, mSeek, mTimeOffset, frame, comments>>

\* close up to join.  mExit is never reset: a renderer that is started later ends at once.
close(next) ==
  /\ caller = "idle"
  /\ IF renderer = "none"
     THEN caller' = next /\ UNCHANGED <<mExit, mPause>>
     ELSE /\ mExit' = TRUE /\ mPause' = FALSE
          /\ caller' = IF next = "idle" THEN "join" ELSE "rejoin"
  /\ UNCHANGED <<now, renderer, clock, mSeek, mTimeOffset, frame, comments>>

Joined ==
  /\ caller \in {"join", "rejoin"} /\ renderer = "ended"
  /\ renderer' = "none"
  /\ caller' = IF caller = "join" THEN "idle" ELSE "load"
  /\ UNCHANGED <<now, clock, control, frame, comments>>

\* The rest of open, for a file that cannot be read, and one that can.
openFails ==
  /\ caller = "load" /\ caller' = "idle"
  /\ UNCHANGED <<now, renderer, clock, control, frame, comments>>

open(list) ==
  /\ caller = "load" /\ caller' = "idle"
  /\ renderer' = "start"
  /\ mCommentList' = list
  /\ fed' = [i \in 1..Len(list) |-> 0] /\ drawn' = [i \in 1..Len(list) |-> "no"]
  /\ UNCHANGED <<now, clock, control, frame, mCommentIndex, mBitmap, mPositionManager>>

seek(time) ==
  /\ caller = "idle"
  /\ mSeek' = TRUE /\ mTimeOffset' = time
  /\ UNCHANGED <<now, caller, renderer, clock, mExit, mPause, frame, comments>>

pause ==
  /\ caller = "idle" /\ ~mPause /\ mPause' = TRUE
  /\ UNCHANGED <<now, caller, renderer, clock, mExit, mSeek, mTimeOffset, frame, comments>>

play ==
  /\ caller = "idle" /\ mPause /\ mPause' = FALSE
  /\ UNCHANGED <<now, caller, renderer, clock, mExit, mSeek, mTimeOffset, frame, comments>>

-----------------------------------------------------------------------------
(* The renderer. *)

Step(from, to) == renderer = from /\ renderer' = to

Start ==
  /\ Step("start", "frame")
  /\ mTimeStart' = now /\ base' = 0 /\ ran' = 0
  /\ UNCHANGED <<now, caller, control, frame, comments>>

\* The top of the loop, up to mPauseCond.await.
Begin ==
  /\ renderer = "frame"
  /\ renderer' = IF mExit THEN "ended" ELSE IF mPause THEN "await" ELSE "awake"
  /\ pauseBegin' = IF ~mExit /\ mPause THEN now ELSE -1
  /\ UNCHANGED <<now, caller, clock, control, current, comments>>

\* Mutant of Resume: the time that was spent waiting counts as played.
ResumeUnshifted ==
  /\ Step("await", "awake") /\ ~mPause
  /\ UNCHANGED <<now, caller, clock, control, frame, comments>>

\* The end of the pause moves mTimeStart by its length.
Resume ==
  /\ Step("await", "awake") /\ ~mPause
  /\ mTimeStart' = mTimeStart + (now - pauseBegin)
  /\ UNCHANGED <<now, caller, base, ran, control, frame, comments>>

\* The exit that was asked for while the renderer waited.
Leave ==
  /\ Step("awake", "ended") /\ mExit
  /\ UNCHANGED <<now, caller, clock, control, frame, comments>>

\* Mutant of LoopStart: a seek goes on from where the list was.
LoopStartAtIndex(sought) == mCommentIndex

LoopStart(sought) == IF sought THEN 1 ELSE mCommentIndex

\* Mutant of NextIndex: it is never moved.
NextIndexKept(start, t) == mCommentIndex

\* The first comment that is still to come; without one the index stays where it was.
NextIndex(start, t) ==
  LET later == {i \in start..Len(mCommentList) : mCommentList[i].time > t}
  IN IF later = {} THEN mCommentIndex ELSE CHOOSE i \in later : \A j \in later : i <= j

\* The comments that the loop reaches are drawn, unless they were before; one that finds a
\* bitmap in the cache never learns its size.
Reached(start, t) == {i \in start..Len(mCommentList) : mCommentList[i].time <= t}

Hashes(S) == {mCommentList[i].hash : i \in S}
Undrawn(reached) == {i \in reached : drawn[i] = "no"}

Draw(reached) ==
  [i \in Index |->
     IF i \notin Undrawn(reached) THEN drawn[i]
     ELSE IF mCommentList[i].hash \in mBitmap \cup Hashes({j \in Undrawn(reached) : j < i})
       THEN "cached" ELSE "measured"]

\* getWidth and getHeight, and the Position that feed makes of a comment.
Width(i, d) == IF d[i] = "cached" THEN -1 ELSE mCommentList[i].width
Height(i, d) == IF d[i] = "cached" THEN -1 ELSE mCommentList[i].height
Position(i, d) == [no |-> i, time |-> mCommentList[i].time, type |-> mCommentList[i].type,
                   width |-> Width(i, d), height |-> Height(i, d), y |-> -1]

OnScreen(i, d, t) ==
  LET c == mCommentList[i] IN c.time <= t /\ t < c.time + Duration(c.type, Width(i, d))

IsDue(i, start, d, t) == i >= start /\ OnScreen(i, d, t)

\* What is due is fed, in the order of the list, and the layout is played.
Layout(start, d, t) ==
  LET fedTo[i \in 0..Len(mCommentList)] ==
        IF i = 0 THEN (IF mSeek THEN reset ELSE mPositionManager)
        ELSE IF IsDue(i, start, d, t) THEN feed(fedTo[i - 1], Position(i, d))
        ELSE fedTo[i - 1]
  IN playAt(fedTo[Len(mCommentList)], t)

\* From the seek that was asked for to the snapshot.
Render ==
  /\ Step("awake", "drawn") /\ ~mExit
  /\ LET start == LoopStart(mSeek)
         t == IF mSeek THEN mTimeOffset ELSE now - mTimeStart
         d == Draw(Reached(start, t))
     IN /\ current' = t
        /\ mCommentIndex' = NextIndex(start, t)
        /\ drawn' = d /\ mBitmap' = mBitmap \cup Hashes(Reached(start, t))
        /\ fed' = [i \in Index |->
             LET before == IF mSeek THEN 0 ELSE fed[i]
             IN IF ~IsDue(i, start, d, t) THEN before ELSE IF before = 2 THEN 2 ELSE before + 1]
        /\ mPositionManager' = Layout(start, d, t)
  /\ IF mSeek
     THEN /\ mTimeStart' = now - mTimeOffset
          /\ base' = mTimeOffset /\ ran' = 0
     ELSE UNCHANGED clock
  /\ mSeek' = FALSE /\ mTimeOffset' = IF mSeek THEN 0 ELSE mTimeOffset
  /\ UNCHANGED <<now, caller, mExit, mPause, pauseBegin, mCommentList>>

\* Frames are at least a tick apart, as Thread.sleep makes up for what drawing did not take;
\* only when the bound on the clock is reached, the last one ends without.
Slept == now - mTimeStart > current \/ (now = MaxTime /\ mExit)

Sleep ==
  /\ Step("drawn", "frame") /\ Slept
  /\ current' = -1 /\ pauseBegin' = -1
  /\ UNCHANGED <<now, caller, clock, control, comments>>

RendererStep == Start \/ Begin \/ Resume \/ Leave \/ Render \/ Sleep

Tick ==
  /\ now < MaxTime /\ now' = now + 1
  /\ ran' = IF Alive /\ renderer \notin {"start", "await"} THEN ran + 1 ELSE ran
  /\ UNCHANGED <<caller, renderer, mTimeStart, base, control, frame, comments>>

Next ==
  \/ \E next \in {"idle", "load"} : close(next)
  \/ Joined \/ openFails \/ \E list \in Lists : open(list)
  \/ \E time \in Offset : seek(time)
  \/ pause \/ play \/ RendererStep \/ Tick

Spec == Init /\ [][Next]_vars

\* What a scheduled renderer does is to leave the place where it is.
RendererRuns == /\ Alive /\ (renderer = "await" => ~mPause) /\ (renderer = "drawn" => Slept)
                /\ \E to \in {"frame", "await", "awake", "drawn", "ended"} : Step(renderer, to)

\* The renderer runs, the clock goes on, and the caller comes back from join.
FairSpec == Spec /\ WF_renderer(RendererRuns) /\ WF_vars(Tick) /\ WF_vars(Joined)

-----------------------------------------------------------------------------
\* Type of the state; the index stays in the list that is rendered.
TypeOK ==
  /\ now \in 0..MaxTime /\ caller \in {"idle", "join", "rejoin", "load"}
  /\ renderer \in {"none", "start", "frame", "await", "awake", "drawn", "ended"}
  /\ mExit \in BOOLEAN /\ mPause \in BOOLEAN /\ mSeek \in BOOLEAN
  /\ mTimeStart \in Int /\ mTimeOffset \in Offset \cup {0}
  /\ mCommentList \in Lists \cup {<<>>} /\ mCommentIndex \in Nat
  /\ renderer = "drawn" => mCommentIndex \in Index
  /\ drawn \in [Index -> {"no", "measured", "cached"}]
  /\ pauseBegin \in -1..MaxTime /\ current \in Int
  /\ fed \in [Index -> 0..2] /\ base \in Nat /\ ran \in Nat

\* The play time of the renderer is what was sought last and the time it has run since,
\* without its pauses, however pauses, seeks and frames follow each other.
ClockFollowsPlay ==
  /\ renderer \in {"frame", "awake", "drawn"} => now - mTimeStart = base + ran
  /\ renderer = "await" => pauseBegin - mTimeStart = base + ran

\* No frame misses a comment that is on the screen at its time, also after a seek.
NoCommentMissed ==
  renderer = "drawn" => \A i \in Index : OnScreen(i, drawn, current) => fed[i] >= 1

\* No comment gets two places, as long as there is one still to come: what is behind
\* the index is not fed again.
FedOnce ==
  renderer = "drawn" /\ Last(mCommentList).time > current
    => \A i \in Index : fed[i] <= 1

Meet(a, m, b, n) == a < b + n /\ b < a + m

Measured(p) == drawn[p.no] = "measured"

\* As long as every comment found room above the first or below the last, none is fed twice
\* and none takes the bitmap of another, no two comments are drawn over each other, neither
\* flying ones, also when one has given its lane to the other, nor standing ones.
NoCollision ==
  LET fly == mPositionManager.mFlyList
      top == mPositionManager.mTopUsed
  IN renderer = "drawn" /\ mPositionManager.put \subseteq {"space"}
       /\ (\A i \in Index : fed[i] <= 1 /\ drawn[i] # "cached")
     => /\ \A k, j \in DOMAIN fly :
             k # j /\ Meet(fly[k].y, fly[k].height, fly[j].y, fly[j].height)
               => ~Meet(X(fly[k], current), fly[k].width, X(fly[j], current), fly[j].width)
        /\ \A k, j \in DOMAIN top :
             k # j => ~Meet(top[k].y, top[k].height, top[j].y, top[j].height)

\* A lane is never kept for a comment that is gone, a comment whose tail is not in has its
\* lane unless it took the bitmap of another, and what is drawn has not left the stage.
LanesAreFlown ==
  LET fly == ToSet(mPositionManager.mFlyList)
      used == ToSet(mPositionManager.mFlyUsed)
  IN renderer = "drawn" =>
       /\ used \subseteq fly
       /\ \A p \in fly : /\ X(p, current) \in -p.width .. StageWidth
                         /\ X(p, current) + p.width > StageWidth /\ Measured(p) => p \in used

\* "check if there is space between two": comments that setTopPosition found space for do
\* not cover each other.
SpaceIsFree ==
  LET p == mPositionManager
  IN renderer = "drawn" /\ "none" \notin p.put
       /\ (\A i \in Index : fed[i] <= 1 /\ drawn[i] # "cached")
     => \A list \in {p.mTopUsed, p.mFlyUsed} : \A k, j \in DOMAIN list :
          k # j => ~Meet(list[k].y, list[k].height, list[j].y, list[j].height)

\* close returns: a renderer that waits or draws is made to end, and joined.
CloseReturns == caller \in {"join", "rejoin"} ~> caller \in {"idle", "load"}

=============================================================================
