--------------------------- MODULE SurfaceDisplay ---------------------------
(***************************************************************************)
(* The video output of modules/video_output/android_Surface.c, and the     *)
(* surface it shares with the user interface through src/libvlcjni.c.      *)
(*                                                                         *)
(* The UI thread publishes a surface when Android has created it and takes *)
(* it back before Android destroys it; the video output looks it up for    *)
(* every picture.  s_surface_mutex orders the two.  A surface has two      *)
(* buffers that are swapped at every post, and a picture is drawn over     *)
(* what its buffer held two pictures ago: when the place of the picture    *)
(* shrinks, both have to be erased.                                        *)
(***************************************************************************)
EXTENDS Naturals, FiniteSets

CONSTANTS Surface,   \* the surfaces that Android creates
          None,      \* no surface
          Settled    \* whether the place changes only when the last change is done with

ASSUME SurfaceAssumption == None \notin Surface
ASSUME SettledAssumption == Settled \in BOOLEAN

\* The two parts of a surface, and those that the picture covers in either place.
Regions == {"middle", "border"}
Covers(place) == IF place = "full" THEN Regions ELSE {"middle"}

Buffers == {0, 1}

VARIABLES
  ui,        \* what the UI thread is in: "idle", "attach" or "detach"
  alive,     \* the surface that Android keeps for the view, or None
  surface,   \* s_surface
  vout,      \* what the video output is in
  taken,     \* p_surface in Display
  stuck,     \* a surface that was locked and never posted, or None
  back,      \* the buffer that the next lock of the surface returns
  painted,   \* what is not blank in each buffer of the surface that is alive
  place,     \* sys->place: "full" or "window"
  changed,   \* sys->b_display_place_changed
  count      \* sys->i_erase_surface_count, of which only the remainder by 3 is used

sys == <<place, changed, count>>
screen == <<back, painted>>
vars == <<ui, alive, surface, vout, taken, stuck, screen, sys>>

Init ==
  /\ ui = "idle" /\ alive = None /\ surface = None
  /\ vout = "closed" /\ taken = None /\ stuck = None
  /\ back = 0 /\ painted = [b \in Buffers |-> {}]
  /\ place = "full" /\ changed = FALSE /\ count = 0

\* s_surface_mutex is held by Display from its lookup to the end of the picture.
Free == vout \in {"closed", "idle"}

-----------------------------------------------------------------------------
(* The UI thread. *)

\* Android creates a surface, with blank buffers, and reports it.
SurfaceCreated(s) ==
  /\ ui = "idle" /\ alive = None
  /\ alive' = s /\ ui' = "attach"
  /\ back' = 0 /\ painted' = [b \in Buffers |-> {}]
  /\ stuck' = None
  /\ UNCHANGED <<surface, vout, taken, sys>>

SurfaceDestroyed ==
  /\ ui = "idle" /\ alive # None
  /\ ui' = "detach"
  /\ UNCHANGED <<alive, surface, vout, taken, stuck, screen, sys>>

nativeAttachSurface ==
  /\ ui = "attach" /\ Free
  /\ surface' = alive /\ ui' = "idle"
  /\ UNCHANGED <<alive, vout, taken, stuck, screen, sys>>

\* Mutant of nativeDetachSurface: the mutex is not taken.
DetachUnlocked ==
  /\ ui = "detach"
  /\ surface' = None /\ alive' = None /\ ui' = "idle"
  /\ UNCHANGED <<vout, taken, stuck, screen, sys>>

\* When surfaceDestroyed returns the surface is gone.
nativeDetachSurface ==
  /\ ui = "detach" /\ Free
  /\ surface' = None /\ alive' = None /\ ui' = "idle"
  /\ UNCHANGED <<vout, taken, stuck, screen, sys>>

-----------------------------------------------------------------------------
(* The thread of the video output. *)

\* Open locks and posts a buffer to learn the format, and fails without a surface.
Open ==
  /\ vout = "closed" /\ surface # None /\ stuck = None
  /\ vout' = "idle" /\ back' = 1 - back
  /\ place' = "full" /\ changed' = TRUE /\ count' = 0
  /\ UNCHANGED <<ui, alive, surface, taken, stuck, painted>>

Close ==
  /\ vout = "idle" /\ vout' = "closed"
  /\ UNCHANGED <<ui, alive, surface, taken, stuck, screen, sys>>

\* VOUT_DISPLAY_CHANGE_FULLSCREEN.  Only the way out of full screen asks for erasure.
Control(full) ==
  /\ vout = "idle" /\ (Settled => ~changed)
  /\ place' = IF full THEN "full" ELSE "window"
  /\ changed' = (changed \/ ~full)
  /\ UNCHANGED <<ui, alive, surface, vout, taken, stuck, screen, count>>

\* Display up to s_lock.  Without a surface the picture is skipped; the lock of a
\* surface that was never posted fails, and the buffer it returns is anything.
BeginDisplay ==
  /\ vout = "idle" /\ surface # None
  /\ taken' = surface
  /\ vout' = IF surface = stuck THEN "lost" ELSE "locked"
  /\ UNCHANGED <<ui, alive, surface, stuck, screen, sys>>

\* Mutant of NoImage: Display leaves without UnlockSurface as well.
NoImageNoUnlock ==
  /\ vout = "locked"
  /\ vout' = "failed" /\ stuck' = taken /\ taken' = None
  /\ UNCHANGED <<ui, alive, surface, screen, sys>>

\* No memory for dst_image: Display leaves without s_unlockAndPost.
NoImage ==
  /\ vout = "locked"
  /\ vout' = "idle" /\ stuck' = taken /\ taken' = None
  /\ UNCHANGED <<ui, alive, surface, screen, sys>>

\* Mutant of Erase: one buffer only.
EraseOnce(n) == n % 3 = 1

\* Whether the n-th picture since the change is drawn on an erased buffer.
Erase(n) == n % 3 # 0

Draw ==
  /\ vout = "locked"
  /\ vout' = "drawn"
  /\ count' = IF changed THEN (count + 1) % 3 ELSE count
  /\ changed' = (changed /\ count' # 0)
  /\ painted' = [painted EXCEPT ![back] =
       (IF changed /\ Erase(count') THEN {} ELSE @) \cup Covers(place)]
  /\ UNCHANGED <<ui, alive, surface, taken, stuck, back, place>>

\* s_unlockAndPost and UnlockSurface.
EndDisplay ==
  /\ vout = "drawn"
  /\ vout' = "idle" /\ back' = 1 - back /\ taken' = None
  /\ UNCHANGED <<ui, alive, surface, stuck, painted, sys>>

Next ==
  \/ \E s \in Surface : SurfaceCreated(s)
  \/ SurfaceDestroyed \/ nativeAttachSurface \/ nativeDetachSurface
  \/ Open \/ Close \/ BeginDisplay \/ NoImage \/ Draw \/ EndDisplay
  \/ \E full \in BOOLEAN : Control(full)

Spec == Init /\ [][Next]_vars

\* A picture that was begun is finished, and a UI thread that keeps asking for the
\* mutex between pictures gets it.
Fairness ==
  /\ WF_vars(Draw) /\ WF_vars(EndDisplay)
  /\ SF_vars(nativeAttachSurface) /\ SF_vars(nativeDetachSurface)

FairSpec == Spec /\ Fairness

-----------------------------------------------------------------------------
\* Type of the state.
TypeOK ==
  /\ ui \in {"idle", "attach", "detach"}
  /\ alive \in Surface \cup {None} /\ surface \in Surface \cup {None}
  /\ vout \in {"closed", "idle", "locked", "drawn", "lost"}
  /\ taken \in Surface \cup {None} /\ stuck \in Surface \cup {None}
  /\ back \in Buffers /\ painted \in [Buffers -> SUBSET Regions]
  /\ place \in {"full", "window"} /\ changed \in BOOLEAN /\ count \in 0..2

\* Display only draws on a surface that Android has not destroyed: nativeDetachSurface
\* does not return, and surfaceDestroyed with it, while a picture is being drawn.
DrawsOnLiveSurface ==
  vout \in {"locked", "drawn"} => taken # None /\ taken = alive

\* "we need to fill both when display place is changed": no picture is posted on a
\* buffer with remains of an earlier picture around it.
CleanPicture == vout = "drawn" => painted[back] \subseteq Covers(place)

\* The UI thread does not hang in surfaceDestroyed, whatever fails in Display; after
\* a lock of a surface that was never posted nothing is known any more.
DetachReturns == ui = "detach" ~> (ui # "detach" \/ vout = "lost")

=============================================================================
