-------------------------- MODULE PositionManager --------------------------
(***************************************************************************)
(* The places of the comments that fly over the video or stand on top of   *)
(* it: comment/PositionManager.java, with the durations of Comment.java.   *)
(*                                                                         *)
(* The renderer of CommentManager is the only thread that calls it, and    *)
(* calls it several times in a frame.  A layout is the state of the        *)
(* manager, and the operations are functions from layouts to layouts.      *)
(***************************************************************************)
EXTENDS Integers, Sequences, SequencesExt

CONSTANTS StageWidth, StageHeight,
          Pace,          \* the time a comment takes per stage width: 2500 in the code
          TopDuration    \* 4000 in the code

ASSUME StageAssumption == StageWidth \in Nat /\ StageWidth >= 2 /\ StageHeight \in Nat \ {0}
ASSUME PaceAssumption == Pace \in Nat /\ Pace >= 2 /\ TopDuration \in Nat

\* getDuration of a comment that is w wide.
Duration(type, w) == IF type = "fly" THEN ((w + StageWidth) * Pace) \div StageWidth
                     ELSE TopDuration

\* put: how setTopPosition found the places of what is shown.
reset == [mFlyUsed |-> <<>>, mFlyList |-> <<>>, mTopUsed |-> <<>>, put |-> {}]

-----------------------------------------------------------------------------
(* setTopPosition: where a comment of height h goes in a list of positions, and the *)
(* index that it gets there.                                                        *)

Bottom(p) == p.y + p.height

\* The first index whose successor leaves room before it.
Gaps(list, h) == {k \in 1..(Len(list) - 1) : list[k + 1].y - Bottom(list[k]) >= h}

AfterLast(list, h) == StageHeight - Bottom(Last(list)) >= h

\* The iterator stands behind the second comment of the gap when it adds.
setTopPosition(list, h) ==
  IF list = <<>> \/ Head(list).y >= h THEN [y |-> 0, at |-> 1, how |-> "space"]
  ELSE IF Gaps(list, h) # {}
    THEN LET k == CHOOSE k \in Gaps(list, h) : \A j \in Gaps(list, h) : k <= j
         IN [y |-> Bottom(list[k]), at |-> k + 2, how |-> "gap"]
  ELSE IF AfterLast(list, h)
    THEN [y |-> Bottom(Last(list)), at |-> Len(list) + 1, how |-> "space"]
  ELSE [y |-> (Bottom(Head(list)) + h) % StageHeight, at |-> Len(list) + 1, how |-> "none"]

-----------------------------------------------------------------------------
\* feed, of a position that has no y yet.  setBotPosition does nothing.
feed(layout, p) ==
  LET list == IF p.type = "fly" THEN layout.mFlyUsed ELSE layout.mTopUsed
      place == setTopPosition(list, p.height)
      placed == [p EXCEPT !.y = place.y]
      longer == InsertAt(list, place.at, placed)
      how == layout.put \cup {place.how}
  IN CASE p.type = "fly" -> [layout EXCEPT !.mFlyUsed = longer, !.put = how,
                                           !.mFlyList = Append(@, placed)]
       [] p.type = "top" -> [layout EXCEPT !.mTopUsed = longer, !.put = how]
       [] p.type = "bot" -> layout

\* How far a flying comment has come at time t, and its x.
Way(p, t) == ((t - p.time) * (p.width + StageWidth)) \div Duration("fly", p.width)
X(p, t) == StageWidth - Way(p, t)

\* Mutants of HasLane and IsOver: a lane is given back when the head is in, not the tail;
\* a comment never goes.
HasLaneOfHead(p, t) == Way(p, t) = 0
NeverOver(p, t) == FALSE

HasLane(p, t) == Way(p, t) <= p.width
IsOver(p, t) == p.time + Duration(p.type, p.width) < t

\* A list that an iterator has gone through: what is not kept is removed.
Keep(list, kept) ==
  LET left[k \in 0..Len(list)] ==
        IF k = 0 THEN <<>>
        ELSE IF list[k] \in kept THEN Append(left[k - 1], list[k]) ELSE left[k - 1]
  IN left[Len(list)]

Shown(list, t) == Keep(list, {p \in ToSet(list) : ~IsOver(p, t)})

playAt(layout, t) ==
  LET used == layout.mFlyUsed
      fly == Shown(layout.mFlyList, t)
      top == Shown(layout.mTopUsed, t)
  IN [mFlyUsed |-> Keep(used, {p \in ToSet(used) : HasLane(p, t)}),
      mFlyList |-> fly, mTopUsed |-> top,
      put |-> IF fly = <<>> /\ top = <<>> THEN {} ELSE layout.put]

=============================================================================
