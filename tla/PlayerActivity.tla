--------------------------- MODULE PlayerActivity ---------------------------
(***************************************************************************)
(* The player screen of the application: PlayerActivity, the two kinds of  *)
(* player behind AbsMediaPlayer (DefMediaPlayer on Android's MediaPlayer,  *)
(* VlcMediaPlayer on libvlc), their static singletons, and the messages    *)
(* with which player threads report to the UI thread.                      *)
(*                                                                         *)
(* A callback of the activity, of a surface or of the handler runs on the  *)
(* UI thread and is one action.  Surfaces come and go asynchronously when  *)
(* a view is shown or hidden; players prepare, fail and play on threads of *)
(* their own; a message waits in the queue of the UI thread.               *)
(***************************************************************************)
EXTENDS Naturals, Sequences

CONSTANTS Activity,   \* instances of PlayerActivity, one after the other
          Def, Vlc,   \* the DefMediaPlayer and VlcMediaPlayer objects
          None,       \* null
          MaxQueue,   \* bound on the messages waiting
          Overlap     \* whether an instance may begin before the last one ended

ASSUME PlayerAssumption == Def \cap Vlc = {} /\ None \notin Def \cup Vlc \cup Activity
ASSUME BoundAssumption == MaxQueue \in Nat
ASSUME OverlapAssumption == Overlap \in BOOLEAN
ASSUME CauseAssumption == "no" \notin Activity /\ "timer" \notin Activity

VARIABLES
  phase,     \* each activity: "new", "created" or "destroyed"
  front,     \* activities on the screen: started and not stopped
  shown,     \* the surface view that is VISIBLE: "def", "vlc" or "none"
  surface,   \* the views that have a surface
  player,    \* mMediaPlayer
  known,     \* activities with mLength > 0
  single,    \* sDefMediaPlayer and sVlcMediaPlayer
  state,     \* what each player is doing
  listener,  \* the activity that listens to it
  ticking,   \* the players whose mTimerTask was scheduled
  queue,     \* messages sent to the UI thread: an activity and what it is told
  crashed    \* "no", "timer", or the activity with the uncaught exception

activities == <<phase, front, shown, surface, player, known>>
players == <<single, state, listener, ticking>>
vars == <<activities, players, queue, crashed>>

Kinds == {"def", "vlc"}
Objects(kind) == IF kind = "def" THEN Def ELSE Vlc
KindOf(p) == IF p \in Def THEN "def" ELSE "vlc"
Dead == {"none", "released"}

Init ==
  /\ phase = [a \in Activity |-> "new"] /\ front = {}
  /\ shown = [a \in Activity |-> "none"] /\ surface = [a \in Activity |-> {}]
  /\ player = [a \in Activity |-> None] /\ known = {}
  /\ single = [k \in Kinds |-> None]
  /\ state = [p \in Def \cup Vlc |-> "none"]
  /\ listener = [p \in Def \cup Vlc |-> None] /\ ticking = {}
  /\ queue = <<>> /\ crashed = "no"

Post(a, what) == Len(queue) < MaxQueue /\ queue' = Append(queue, [to |-> a, what |-> what])

-----------------------------------------------------------------------------
(* The players.  A call that MediaPlayer does not allow in its state breaks it, and *)
(* an error is reported later; on a released player it is a swallowed exception.    *)

\* start(), and the timer that goes with it.
Start(p) ==
  /\ state' = [state EXCEPT ![p] =
       IF @ \in Dead THEN @
       ELSE IF p \in Vlc \/ @ \in {"prepared", "playing", "paused"} THEN "playing"
       ELSE "broken"]
  /\ ticking' = IF p \in Def /\ state[p] \notin Dead THEN ticking \cup {p} ELSE ticking
  /\ UNCHANGED <<single, listener>>

\* pause()
Paused(p) ==
  IF state[p] = "playing" THEN "paused"
  ELSE IF p \in Vlc \/ state[p] \in Dead \cup {"paused"} THEN state[p]
  ELSE "broken"
Pause(p) ==
  /\ state' = [state EXCEPT ![p] = Paused(p)]
  /\ UNCHANGED <<single, listener, ticking>>

\* seekTo()
SeekTo(p) ==
  /\ state' = [state EXCEPT ![p] =
       IF p \in Vlc \/ @ \in Dead \cup {"prepared", "playing", "paused"} THEN @
       ELSE "broken"]
  /\ UNCHANGED <<single, listener, ticking>>

\* Mutant of Release: the static field keeps the released player.
ReleaseKeepsSingle(p) ==
  /\ state' = [state EXCEPT ![p] = "released"]
  /\ listener' = [listener EXCEPT ![p] = None]
  /\ UNCHANGED <<single, ticking>>

\* release().  The field of this kind is cleared whatever it holds, and nothing is
\* reported any more.  The timer of a DefMediaPlayer goes on, as it does after stop().
Release(p) ==
  /\ state' = [state EXCEPT ![p] = "released"]
  /\ single' = [single EXCEPT ![KindOf(p)] = None]
  /\ listener' = [listener EXCEPT ![p] = None]
  /\ UNCHANGED ticking

\* An object that new returns: a spare one, or one that nobody refers to any more.
Spare(kind) ==
  {p \in Objects(kind) : /\ state[p] \in Dead /\ p \notin ticking
                         /\ \A a \in Activity : player[a] # p}
Fresh(kind) == IF Spare(kind) = {} THEN {} ELSE {CHOOSE p \in Spare(kind) : TRUE}

\* Mutants of GetMediaPlayer: there are no singletons; the kinds are mixed up.
GetNewPlayer(kind) == Fresh(kind)
GetOtherPlayer(kind) ==
  LET other == IF kind = "def" THEN "vlc" ELSE "def"
  IN IF single[other] # None THEN {single[other]} ELSE Fresh(other)

GetMediaPlayer(kind) == IF single[kind] # None THEN {single[kind]} ELSE Fresh(kind)

\* What reset, setDataSource and prepareAsync can come to: DefMediaPlayer swallows a
\* failing setDataSource, and a released player that is found in the field stays so.
Preparations(p) ==
  IF state[p] = "released" /\ single[KindOf(p)] = p THEN {"released"}
  ELSE IF p \in Def THEN {"preparing", "idle"} ELSE {"preparing"}

-----------------------------------------------------------------------------
(* The activity. *)

\* Mutant of CreateMediaPlayer: the player the activity has is kept.
CreateOnce(a, kind) ==
  IF player[a] # None THEN UNCHANGED <<player, players>>
  ELSE \E p \in GetMediaPlayer(kind) : \E s \in Preparations(p) :
         /\ player' = [player EXCEPT ![a] = p]
         /\ single' = [single EXCEPT ![kind] = p]
         /\ state' = [state EXCEPT ![p] = s]
         /\ listener' = [listener EXCEPT ![p] = a]
         /\ UNCHANGED ticking

\* The player is taken, listened to, reset, given the file and told to prepare.  The
\* one the activity has is forgotten, not released.
CreateMediaPlayer(a, kind) ==
  \E p \in GetMediaPlayer(kind) : \E s \in Preparations(p) :
    /\ player' = [player EXCEPT ![a] = p]
    /\ single' = [single EXCEPT ![kind] = p]
    /\ state' = [state EXCEPT ![p] = s]
    /\ listener' = [listener EXCEPT ![p] = a]
    /\ UNCHANGED ticking

\* Mutant of DestroyMediaPlayer: any player goes with any surface.
DestroyAnyPlayer(a, kind) ==
  IF player[a] # None
  THEN Release(player[a]) /\ player' = [player EXCEPT ![a] = None]
  ELSE UNCHANGED <<player, players>>

\* Only the player that used the surface is released.
DestroyMediaPlayer(a, kind) ==
  IF player[a] # None /\ KindOf(player[a]) = kind
  THEN Release(player[a]) /\ player' = [player EXCEPT ![a] = None]
  ELSE UNCHANGED <<player, players>>

Running == crashed = "no"

\* onCreate: selectMediaPlayer goes by the extension of the file.
OnCreate(a) ==
  /\ Running /\ phase[a] = "new"
  /\ Overlap \/ \A b \in Activity : phase[b] # "created" /\ surface[b] = {}
  /\ phase' = [phase EXCEPT ![a] = "created"]
  /\ front' = front \cup {a}
  /\ \E kind \in Kinds : shown' = [shown EXCEPT ![a] = kind]
  /\ UNCHANGED <<surface, player, known, players, queue, crashed>>

\* surfaceCreated and surfaceDestroyed, dispatched to the handler at once.
SurfaceCreated(a, kind) ==
  /\ Running /\ phase[a] = "created" /\ a \in front
  /\ shown[a] = kind /\ kind \notin surface[a]
  /\ surface' = [surface EXCEPT ![a] = @ \cup {kind}]
  /\ CreateMediaPlayer(a, kind)
  /\ UNCHANGED <<phase, front, shown, known, queue, crashed>>

SurfaceDestroyed(a, kind) ==
  /\ Running /\ kind \in surface[a]
  /\ shown[a] # kind \/ a \notin front
  /\ surface' = [surface EXCEPT ![a] = @ \ {kind}]
  /\ DestroyMediaPlayer(a, kind)
  /\ UNCHANGED <<phase, front, shown, known, queue, crashed>>

\* The user comes back; onStart does nothing of its own.
OnStart(a) ==
  /\ Running /\ phase[a] = "created" /\ a \notin front
  /\ front' = front \cup {a}
  /\ UNCHANGED <<phase, shown, surface, player, known, players, queue, crashed>>

OnStop(a) ==
  /\ Running /\ a \in front
  /\ front' = front \ {a}
  /\ IF player[a] # None THEN Pause(player[a]) ELSE UNCHANGED players
  /\ UNCHANGED <<phase, shown, surface, player, known, queue, crashed>>

\* onDestroy stops and releases the player, and keeps its reference.
OnDestroy(a) ==
  /\ Running /\ phase[a] = "created" /\ a \notin front
  /\ phase' = [phase EXCEPT ![a] = "destroyed"]
  /\ IF player[a] # None THEN Release(player[a]) ELSE UNCHANGED players
  /\ UNCHANGED <<front, shown, surface, player, known, queue, crashed>>

\* A call on mMediaPlayer while it is null.
NullPointer(a) ==
  /\ player[a] = None
  /\ crashed' = a
  /\ UNCHANGED players

\* onClick of the play button, and onStopTrackingTouch of the seek bar.
Click(a) ==
  /\ Running /\ a \in front
  /\ \/ NullPointer(a)
     \/ /\ player[a] # None
        /\ IF state[player[a]] = "playing" THEN Pause(player[a]) ELSE Start(player[a])
        /\ UNCHANGED crashed
  /\ UNCHANGED <<activities, queue>>

Seek(a) ==
  /\ Running /\ a \in front \cap known
  /\ \/ NullPointer(a)
     \/ player[a] # None /\ SeekTo(player[a]) /\ UNCHANGED crashed
  /\ UNCHANGED <<activities, queue>>

-----------------------------------------------------------------------------
(* The handler. *)

Told(a, what) ==
  /\ Running /\ queue # <<>>
  /\ Head(queue) = [to |-> a, what |-> what]
  /\ queue' = Tail(queue)

Prepared(a) ==
  /\ Told(a, "prepared")
  /\ \/ NullPointer(a)
     \/ player[a] # None /\ Start(player[a]) /\ UNCHANGED crashed
  /\ UNCHANGED activities

\* Mutant of Failed: the player is chosen by the extension again.
FailedAgain(a) ==
  /\ Told(a, "error")
  /\ \/ NullPointer(a) /\ UNCHANGED shown
     \/ /\ player[a] # None
        /\ UNCHANGED <<shown, players, crashed>>
  /\ UNCHANGED <<phase, front, surface, player, known>>

\* MEDIA_PLAYER_ERROR: a DefMediaPlayer gives way to VlcMediaPlayer.
Failed(a) ==
  /\ Told(a, "error")
  /\ \/ NullPointer(a) /\ UNCHANGED shown
     \/ /\ player[a] # None
        /\ shown' = IF player[a] \in Def THEN [shown EXCEPT ![a] = "vlc"] ELSE shown
        /\ UNCHANGED <<players, crashed>>
  /\ UNCHANGED <<phase, front, surface, player, known>>

Progressed(a) ==
  /\ Told(a, "progress")
  /\ known' = known \cup {a}
  /\ UNCHANGED <<phase, front, shown, surface, player, players, crashed>>

HandleMessage == \E a \in Activity : Prepared(a) \/ Failed(a) \/ Progressed(a)

-----------------------------------------------------------------------------
(* The players' own threads. *)

Becomes(p, s) ==
  /\ state' = [state EXCEPT ![p] = s]
  /\ UNCHANGED <<activities, single, listener, ticking, crashed>>

\* A libvlc media that is played already reports that it was parsed just the same.
PlayerPrepared(p) ==
  /\ Running
  /\ \/ state[p] = "preparing" /\ Becomes(p, "prepared")
     \/ p \in Vlc /\ state[p] \in {"playing", "paused"} /\ Becomes(p, state[p])
  /\ Post(listener[p], "prepared")

PlayerFails(p) ==
  /\ Running /\ state[p] \in {"preparing", "prepared", "playing", "paused", "broken"}
  /\ Becomes(p, "error") /\ Post(listener[p], "error")

\* The media ends; MEDIA_PLAYER_COMPLETION is ignored.
PlayerCompletes(p) ==
  /\ Running /\ state[p] = "playing"
  /\ Becomes(p, "paused") /\ UNCHANGED queue

\* MediaPlayerTimeChanged of libvlc, or a turn of mTimerTask.
PlayerProgress(p) ==
  /\ Running /\ state[p] = "playing" /\ (p \in Vlc \/ p \in ticking)
  /\ Post(listener[p], "progress")
  /\ UNCHANGED <<activities, players, crashed>>

\* mTimerTask asks a released MediaPlayer whether it is playing.
TimerCrash(p) ==
  /\ Running /\ p \in ticking /\ state[p] = "released"
  /\ crashed' = "timer"
  /\ UNCHANGED <<activities, players, queue>>

-----------------------------------------------------------------------------
Next ==
  \/ \E a \in Activity :
       \/ OnCreate(a) \/ OnStart(a) \/ OnStop(a) \/ OnDestroy(a) \/ Click(a) \/ Seek(a)
       \/ \E kind \in Kinds : SurfaceCreated(a, kind) \/ SurfaceDestroyed(a, kind)
  \/ HandleMessage
  \/ \E p \in Def \cup Vlc :
       \/ PlayerPrepared(p) \/ PlayerFails(p) \/ PlayerCompletes(p)
       \/ PlayerProgress(p) \/ TimerCrash(p)

Spec == Init /\ [][Next]_vars

\* The UI thread empties its queue, and views that were shown or hidden are laid out.
Fairness ==
  /\ WF_vars(HandleMessage)
  /\ \A a \in Activity, kind \in Kinds :
       WF_vars(SurfaceCreated(a, kind)) /\ WF_vars(SurfaceDestroyed(a, kind))

FairSpec == Spec /\ Fairness

-----------------------------------------------------------------------------
\* Type of the state; each static field holds a player of its own kind.
TypeOK ==
  /\ phase \in [Activity -> {"new", "created", "destroyed"}] /\ front \subseteq Activity
  /\ shown \in [Activity -> Kinds \cup {"none"}] /\ surface \in [Activity -> SUBSET Kinds]
  /\ player \in [Activity -> Def \cup Vlc \cup {None}] /\ known \subseteq Activity
  /\ \A k \in Kinds : single[k] \in Objects(k) \cup {None}
  /\ state \in [Def \cup Vlc -> Dead \cup {"idle", "preparing", "prepared", "playing",
                                           "paused", "broken", "error"}]
  /\ listener \in [Def \cup Vlc -> Activity \cup {None}] /\ ticking \subseteq Def
  /\ queue \in Seq([to : Activity, what : {"prepared", "error", "progress"}])
  /\ crashed \in Activity \cup {"no", "timer"}

\* No player is lost: as createMediaPlayer forgets the player it replaces, one that is
\* not released has to be the singleton that the next createMediaPlayer finds.
NoPlayerLost ==
  \A p \in Def \cup Vlc : state[p] \notin Dead => single[KindOf(p)] = p

\* An activity in use never drives a released player: what it has is the singleton.
PlayerIsLive ==
  \A a \in Activity :
    phase[a] = "created" /\ player[a] # None
      => state[player[a]] \notin Dead /\ single[KindOf(player[a])] = player[a]

\* Once the views have settled, the player is of the kind whose surface is there, in
\* whichever order the one surface came and the other went.
PlayerMatchesSurface ==
  \A a \in Activity :
    phase[a] = "created" /\ surface[a] = {shown[a]}
      => player[a] \in Objects(shown[a])

\* A message that comes late or a touch that comes early finds no player only while
\* the view that is shown has no surface.
NoCrashWithSurface ==
  crashed \in Activity => shown[crashed] \notin surface[crashed]

\* "fallback to VlcMediaPlayer if possible": a DefMediaPlayer that failed is replaced,
\* as long as the activity stays on the screen.
ErrorFallsBack ==
  \A a \in Activity :
    (player[a] \in Def /\ state[player[a]] = "error")
      ~> (player[a] \in Vlc \/ a \notin front \/ crashed # "no")

=============================================================================
