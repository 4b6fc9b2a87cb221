------------------------- MODULE MC_CommentManager --------------------------
(* Instances of CommentManager for TLC. *)
EXTENDS CommentManager

C(time, type, hash, width, height) ==
  [time |-> time, type |-> type, hash |-> hash, width |-> width, height |-> height]

\* One after the other in a lane, of two sizes, and standing ones.
Mixed == <<C(0, "fly", 1, 1, 2), C(1, "top", 2, 1, 1), C(1, "fly", 3, 2, 1), C(3, "bot", 4, 1, 1)>>
\* As many as the stage has lanes; the last comes when the first has given its lane back.
Lanes == <<C(0, "fly", 1, 3, 1), C(0, "fly", 2, 1, 2), C(2, "fly", 3, 1, 1), C(5, "top", 4, 1, 3)>>
\* More than the stage has room for, and standing ones.
Crowd == <<C(1, "top", 1, 1, 2), C(2, "top", 2, 1, 1), C(2, "top", 3, 1, 1), C(3, "top", 4, 1, 1)>>
\* The second has the text of the first.
Repeat == <<C(0, "fly", 1, 2, 1), C(1, "fly", 1, 2, 1), C(1, "fly", 2, 1, 1), C(4, "fly", 1, 2, 1)>>

\* Two in one lane as close as they can come: what follows is as wide, or wider.
Chase == <<C(0, "fly", 1, 2, 3), C(1, "fly", 2, 3, 3), C(2, "fly", 3, 1, 3), C(4, "fly", 4, 3, 3)>>

AllLists == {Mixed, Lanes, Crowd, Repeat, Chase}

\* The second of the first three gives its lane back before the others.
Gap == <<C(0, "fly", 1, 3, 1), C(0, "fly", 2, 1, 1), C(0, "fly", 3, 3, 1),
         C(2, "fly", 4, 1, 1), C(2, "fly", 5, 1, 1), C(4, "fly", 6, 1, 1)>>
GapList == {Gap}
=============================================================================
