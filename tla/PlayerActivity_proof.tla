------------------------ MODULE PlayerActivity_proof ------------------------
(***************************************************************************)
(* Proofs about PlayerActivity, for any number of activities and players,  *)
(* any queue, and activities that do not overlap: no player is leaked, a   *)
(* live activity has a live player, and one of the right kind.             *)
(***************************************************************************)
EXTENDS PlayerActivity, TLAPS

Player == Def \cup Vlc

IsLive(p) == state[p] \notin Dead

\* The part of the type that the proofs need.
Shape ==
  /\ phase \in [Activity -> {"new", "created", "destroyed"}]
  /\ shown \in [Activity -> Kinds \cup {"none"}] /\ surface \in [Activity -> SUBSET Kinds]
  /\ player \in [Activity -> Player \cup {None}]
  /\ single \in [Kinds -> Player \cup {None}]
  /\ \A k \in Kinds : single[k] \in Objects(k) \cup {None}
  /\ DOMAIN state = Player

\* An activity that can still create or release a player.
Active(a) == phase[a] = "created" \/ surface[a] # {}

\* Only one activity does anything at a time; one that has not begun has nothing.
OneActive ==
  /\ \A a, b \in Activity : Active(a) /\ Active(b) => a = b
  /\ \A a \in Activity : phase[a] = "new" => surface[a] = {} /\ player[a] = None

\* A static field holds a live player; what an activity that ended still refers to, and
\* may release once more, is in none of them.
SinglesLive ==
  /\ \A k \in Kinds : single[k] # None => IsLive(single[k])
  /\ \A a \in Activity :
       phase[a] = "destroyed" /\ surface[a] # {} /\ player[a] # None
         => single[KindOf(player[a])] = None

PInv == Shape /\ OneActive /\ SinglesLive /\ NoPlayerLost /\ PlayerIsLive

\* A view that is shown and has its surface has the player; the way back from libvlc to
\* MediaPlayer does not exist.
ShownPlays ==
  \A a \in Activity :
    /\ phase[a] = "new" => surface[a] = {} /\ player[a] = None
    /\ shown[a] \in surface[a] => player[a] \in Objects(shown[a])
    /\ "vlc" \in surface[a] => shown[a] = "vlc"

VInv == Shape /\ ShownPlays /\ NoCrashWithSurface

-----------------------------------------------------------------------------
LEMMA KindFacts ==
  /\ \A p \in Player : KindOf(p) \in Kinds /\ p \in Objects(KindOf(p)) /\ p # None
  /\ \A k \in Kinds : \A p \in Objects(k) : p \in Player /\ KindOf(p) = k
BY PlayerAssumption DEF Player, KindOf, Objects, Kinds

LEMMA InitShape == Init => Shape
BY DEF Init, Shape, Kinds, Objects, Player

\* createMediaPlayer: the player is the one of the field, or else a new one.
LEMMA Taking ==
  ASSUME Shape, NEW kind \in Kinds, NEW p \in GetMediaPlayer(kind)
  PROVE  p \in Objects(kind) /\ (single[kind] = p \/ single[kind] = None)
<1>1. CASE single[kind] # None
      BY <1>1 DEF GetMediaPlayer, Shape
<1>2. CASE single[kind] = None
  <2>1. p \in Fresh(kind)
        BY <1>2 DEF GetMediaPlayer
  <2>2. Spare(kind) # {} /\ p = CHOOSE q \in Spare(kind) : TRUE
        BY <2>1 DEF Fresh
  <2>3. p \in Spare(kind)
        BY <2>2
  <2> QED
        BY <1>2, <2>3 DEF Spare
<1> QED
      BY <1>1, <1>2

\* What the two calls on the surface leave of the types.
LEMMA CreationShape ==
  ASSUME Shape, NEW a \in Activity, NEW kind \in Kinds, CreateMediaPlayer(a, kind)
  PROVE  /\ player' \in [Activity -> Player \cup {None}] /\ player'[a] \in Objects(kind)
         /\ single' \in [Kinds -> Player \cup {None}]
         /\ \A k \in Kinds : single'[k] \in Objects(k) \cup {None}
         /\ DOMAIN state' = Player
         /\ \A b \in Activity : b # a => player'[b] = player[b]
<1>1. PICK p \in GetMediaPlayer(kind) : \E s \in Preparations(p) :
        /\ player' = [player EXCEPT ![a] = p]
        /\ single' = [single EXCEPT ![kind] = p]
        /\ state' = [state EXCEPT ![p] = s]
      BY DEF CreateMediaPlayer
<1>2. p \in Objects(kind) /\ p \in Player
      BY Taking, KindFacts
<1> QED
      BY <1>1, <1>2 DEF Shape

LEMMA ReleaseShape ==
  ASSUME Shape, NEW p, Release(p)
  PROVE  /\ single' \in [Kinds -> Player \cup {None}]
         /\ \A k \in Kinds : single'[k] \in Objects(k) \cup {None}
         /\ DOMAIN state' = Player
BY DEF Release, Shape

LEMMA CallShape ==
  ASSUME Shape, NEW p, Start(p) \/ Pause(p) \/ SeekTo(p)
  PROVE  single' = single /\ DOMAIN state' = Player
BY DEF Start, Pause, SeekTo, Shape

LEMMA InitPInv == Init => PInv
<1> SUFFICES ASSUME Init PROVE PInv
    OBVIOUS
<1> USE DEF Init, Player
<1>1. Shape
      BY InitShape
<1>2. OneActive
      BY DEF OneActive, Active
<1>3. SinglesLive
      BY DEF SinglesLive, Kinds
<1>4. NoPlayerLost /\ PlayerIsLive
      BY DEF NoPlayerLost, PlayerIsLive, Dead
<1> QED
      BY <1>1, <1>2, <1>3, <1>4 DEF PInv

\* A step that keeps the references, and the players alive or dead, keeps PInv.
LEMMA Calm ==
  ASSUME PInv, Shape', UNCHANGED <<phase, surface, player, single>>,
         \A p \in Player : IsLive(p)' <=> IsLive(p)
  PROVE  PInv'
<1> USE DEF PInv
<1>2. OneActive'
      BY DEF OneActive, Active
<1>3. SinglesLive'
      BY KindFacts DEF SinglesLive, Shape
<1>4. NoPlayerLost' /\ PlayerIsLive'
      BY DEF NoPlayerLost, PlayerIsLive, Shape, Player, IsLive
<1> QED
      BY <1>2, <1>3, <1>4

\* The calls of an activity keep a player alive or dead.
LEMMA CallsAreCalm ==
  ASSUME Shape, NEW p \in Player, Start(p) \/ Pause(p) \/ SeekTo(p)
  PROVE  \A q \in Player : IsLive(q)' <=> IsLive(q)
<1>1. CASE Start(p)
      BY <1>1 DEF Start, Shape, IsLive, Dead
<1>2. CASE Pause(p)
      BY <1>2 DEF Pause, Paused, Shape, IsLive, Dead
<1>3. CASE SeekTo(p)
      BY <1>3 DEF SeekTo, Shape, IsLive, Dead
<1> QED
      BY <1>1, <1>2, <1>3

\* createMediaPlayer: the player is the live one of the field, or a new one.
LEMMA Creation ==
  ASSUME PInv, Shape', NEW a \in Activity, phase[a] = "created", NEW kind \in Kinds,
         CreateMediaPlayer(a, kind), phase' = phase, shown' = shown,
         surface' = [surface EXCEPT ![a] = @ \cup {kind}]
  PROVE  PInv'
<1> USE DEF PInv
<1>1. PICK p \in GetMediaPlayer(kind) : \E s \in Preparations(p) :
        /\ player' = [player EXCEPT ![a] = p]
        /\ single' = [single EXCEPT ![kind] = p]
        /\ state' = [state EXCEPT ![p] = s]
      BY DEF CreateMediaPlayer
<1>2. PICK s \in Preparations(p) :
        /\ player' = [player EXCEPT ![a] = p]
        /\ single' = [single EXCEPT ![kind] = p]
        /\ state' = [state EXCEPT ![p] = s]
      BY <1>1
<1>3. p \in Objects(kind) /\ (single[kind] = p \/ single[kind] = None)
      BY Taking
<1>4. p \in Player /\ KindOf(p) = kind /\ p # None
      BY <1>3, KindFacts
<1>5. s \in {"preparing", "idle"}
  <2>1. ~(state[p] = "released" /\ single[KindOf(p)] = p)
        BY <1>4 DEF SinglesLive, IsLive, Dead
  <2> QED
        BY <2>1 DEF Preparations
<1>6. \A q \in Player : IsLive(q)' <=> IsLive(q) \/ q = p
      BY <1>2, <1>4, <1>5 DEF IsLive, Dead, Shape
<1>8. OneActive'
      BY <1>2 DEF OneActive, Active, Shape
<1>9. \A b \in Activity : phase[b] = "created" \/ surface'[b] # {} => b = a
      BY DEF OneActive, Active, Shape
<1>10. SinglesLive'
  <2>1. ASSUME NEW k \in Kinds, (single[k] # None)' PROVE IsLive(single[k])'
    <3>1. single'[k] \in Player /\ (single'[k] = p \/ IsLive(single'[k]))
      <4>1. CASE k = kind
            BY <1>2, <1>4, <4>1 DEF Shape
      <4>2. CASE k # kind
            BY <1>2, <2>1, <4>2 DEF SinglesLive, Shape
      <4> QED
            BY <4>1, <4>2
    <3>2. \A q \in Player : q = single'[k] => IsLive(q)'
          BY <1>6, <3>1
    <3> QED
          BY <3>1, <3>2 DEF IsLive
  <2> QED
        BY <1>9, <2>1 DEF SinglesLive
<1>11. NoPlayerLost'
  <2> SUFFICES ASSUME NEW q \in Player, IsLive(q)' PROVE single'[KindOf(q)] = q
      BY DEF NoPlayerLost, Player, IsLive
  <2>1. CASE q = p
        BY <1>2, <1>4, <2>1 DEF Shape
  <2>2. CASE q # p
    <3>1. single[KindOf(q)] = q
          BY <1>6, <2>2 DEF NoPlayerLost, Player, IsLive
    <3>2. KindOf(q) # kind
          BY <1>3, <2>2, <3>1, KindFacts
    <3> QED
          BY <1>2, <3>1, <3>2, KindFacts DEF Shape
  <2> QED
        BY <2>1, <2>2
<1>12. PlayerIsLive'
      BY <1>2, <1>4, <1>6, <1>9 DEF PlayerIsLive, Shape, IsLive
<1> QED
      BY <1>8, <1>10, <1>11, <1>12

\* release: no other player of the kind is alive, and no other activity has a player.
LEMMA Releasing ==
  ASSUME PInv, Shape', NEW a \in Activity, Active(a), NEW p \in Player, player[a] = p, Release(p),
         shown' = shown,
         \/ phase' = [phase EXCEPT ![a] = "destroyed"] /\ UNCHANGED <<surface, player>>
         \/ /\ phase' = phase /\ player' = [player EXCEPT ![a] = None]
            /\ \E kind \in Kinds : surface' = [surface EXCEPT ![a] = @ \ {kind}]
  PROVE  PInv'
<1> USE DEF PInv
<1> DEFINE k == KindOf(p)
<1>1. k \in Kinds /\ p \in Objects(k) /\ p # None
      BY KindFacts
<1>2. single' = [single EXCEPT ![k] = None] /\ state' = [state EXCEPT ![p] = "released"]
      BY DEF Release
<1>3. single[k] = p \/ single[k] = None
  <2>1. CASE phase[a] = "created"
        BY <1>1, <2>1 DEF PlayerIsLive
  <2>2. CASE phase[a] # "created"
    <3>1. surface[a] # {} /\ phase[a] = "destroyed"
          BY <2>2 DEF Active, OneActive, Shape
    <3> QED
          BY <1>1, <3>1 DEF SinglesLive
  <2> QED
        BY <2>1, <2>2
<1>4. \A q \in Player : IsLive(q)' <=> IsLive(q) /\ q # p
      BY <1>2 DEF IsLive, Dead, Shape
<1>5. \A b \in Activity : b # a => phase[b] # "created" /\ surface[b] = {}
      BY DEF OneActive, Active
<1>7. OneActive'
      BY <1>5 DEF OneActive, Active, Shape
<1>8. SinglesLive'
  <2>1. ASSUME NEW j \in Kinds, (single[j] # None)' PROVE IsLive(single[j])'
    <3>1. single'[j] \in Player /\ single'[j] = single[j] /\ j # k /\ IsLive(single[j])
          BY <1>1, <1>2, <2>1 DEF SinglesLive, Shape
    <3>2. single[j] # p
          BY <1>1, <3>1, KindFacts DEF Shape
    <3>3. \A q \in Player : q = single'[j] => IsLive(q)'
          BY <1>4, <3>1, <3>2
    <3> QED
          BY <3>1, <3>3 DEF IsLive
  <2>2. ASSUME NEW b \in Activity, phase'[b] = "destroyed", surface'[b] # {}, player'[b] # None
        PROVE  single'[KindOf(player'[b])] = None
        BY <1>1, <1>2, <1>5, <2>2 DEF Shape
  <2> QED
        BY <2>1, <2>2 DEF SinglesLive
<1>9. NoPlayerLost'
  <2> SUFFICES ASSUME NEW q \in Player, IsLive(q)' PROVE single'[KindOf(q)] = q
      BY DEF NoPlayerLost, Player, IsLive
  <2>1. single[KindOf(q)] = q /\ q # p
        BY <1>4 DEF NoPlayerLost, Player, IsLive
  <2>2. KindOf(q) # k
        BY <1>3, <2>1, KindFacts
  <2> QED
        BY <1>2, <2>1, <2>2, KindFacts DEF Shape
<1>10. PlayerIsLive'
      BY <1>5 DEF PlayerIsLive, Shape
<1> QED
      BY <1>7, <1>8, <1>9, <1>10

-----------------------------------------------------------------------------
(* Every step keeps the types. *)

LEMMA NextShape == Shape /\ [Next]_vars => Shape'
<1> SUFFICES ASSUME Shape, [Next]_vars PROVE Shape'
    OBVIOUS
<1> USE DEF activities, players
<1>1. CASE UNCHANGED vars
      BY <1>1 DEF vars, Shape
<1>2. ASSUME NEW a \in Activity, OnCreate(a) PROVE Shape'
      BY <1>2 DEF OnCreate, Shape
<1>3. ASSUME NEW a \in Activity, OnStart(a) \/ Progressed(a) PROVE Shape'
      BY <1>3 DEF OnStart, Progressed, Shape
<1>4. ASSUME NEW a \in Activity, OnStop(a) PROVE Shape'
      BY <1>4, CallShape DEF OnStop, Shape
<1>5. ASSUME NEW a \in Activity, OnDestroy(a) PROVE Shape'
      BY <1>5, ReleaseShape DEF OnDestroy, Shape
<1>6. ASSUME NEW a \in Activity, Click(a) \/ Seek(a) \/ Prepared(a) PROVE Shape'
      BY <1>6, CallShape DEF Click, Seek, Prepared, NullPointer, Shape
<1>7. ASSUME NEW a \in Activity, Failed(a) PROVE Shape'
      BY <1>7 DEF Failed, NullPointer, Shape, Kinds
<1>8. ASSUME NEW a \in Activity, NEW kind \in Kinds, SurfaceCreated(a, kind) PROVE Shape'
      BY <1>8, CreationShape DEF SurfaceCreated, Shape
<1>9. ASSUME NEW a \in Activity, NEW kind \in Kinds, SurfaceDestroyed(a, kind) PROVE Shape'
  <2>1. surface' \in [Activity -> SUBSET Kinds]
        BY <1>9 DEF SurfaceDestroyed, Shape
  <2>2. CASE Release(player[a]) /\ player' = [player EXCEPT ![a] = None]
        BY <1>9, <2>1, <2>2, ReleaseShape DEF SurfaceDestroyed, Shape
  <2>3. CASE UNCHANGED <<player, players>>
        BY <1>9, <2>1, <2>3 DEF SurfaceDestroyed, Shape
  <2> QED
        BY <1>9, <2>2, <2>3 DEF SurfaceDestroyed, DestroyMediaPlayer
<1>10. ASSUME NEW p \in Player,
              \/ PlayerPrepared(p) \/ PlayerFails(p) \/ PlayerCompletes(p)
              \/ PlayerProgress(p) \/ TimerCrash(p)
       PROVE  Shape'
       BY <1>10 DEF PlayerPrepared, PlayerFails, PlayerCompletes, PlayerProgress, TimerCrash,
                    Becomes, Shape
<1> QED
      BY <1>1, <1>2, <1>3, <1>4, <1>5, <1>6, <1>7, <1>8, <1>9, <1>10
      DEF Next, HandleMessage, Player

-----------------------------------------------------------------------------
(* Activities one after the other: every step keeps PInv. *)

LEMMA NextPInv == ASSUME ~Overlap PROVE PInv /\ [Next]_vars => PInv'
<1> SUFFICES ASSUME PInv, [Next]_vars PROVE PInv'
    OBVIOUS
<1>0. Shape /\ Shape'
      BY NextShape DEF PInv
<1> USE DEF activities, players
<1>1. CASE UNCHANGED vars
      BY <1>0, <1>1, Calm DEF vars, IsLive
<1>2. ASSUME NEW a \in Activity, OnCreate(a) PROVE PInv'
  <2> USE <1>2 DEF PInv
  <2>1. \A b \in Activity : ~Active(b)
        BY <1>2 DEF OnCreate, OneActive, Active
  <2>2. \A b \in Activity : Active(b)' => b = a
        BY <1>0, <2>1 DEF OnCreate, Active, Shape
  <2>3. player[a] = None /\ UNCHANGED <<surface, player, single, state>>
        BY DEF OnCreate, OneActive
  <2>4. OneActive'
        BY <1>0, <2>2, <2>3 DEF OnCreate, OneActive, Shape
  <2>5. SinglesLive'
        BY <1>0, <2>1, <2>3, KindFacts DEF OnCreate, SinglesLive, IsLive, Active, Shape
  <2>6. NoPlayerLost'
        BY <2>3 DEF NoPlayerLost
  <2>7. PlayerIsLive'
        BY <2>2, <2>3 DEF PlayerIsLive, Active
  <2> QED
        BY <1>0, <2>4, <2>5, <2>6, <2>7
<1>3. ASSUME NEW a \in Activity, OnStart(a) \/ Progressed(a) PROVE PInv'
      BY <1>0, <1>3, Calm DEF OnStart, Progressed, IsLive
<1>4. ASSUME NEW a \in Activity, OnStop(a) PROVE PInv'
  <2>1. CASE UNCHANGED players
        BY <1>0, <1>4, <2>1, Calm DEF OnStop, IsLive
  <2>2. CASE player[a] # None /\ Pause(player[a])
        BY <1>0, <1>4, <2>2, Calm, CallsAreCalm DEF OnStop, Pause, Shape
  <2> QED
        BY <1>4, <2>1, <2>2 DEF OnStop
<1>5. ASSUME NEW a \in Activity, OnDestroy(a) PROVE PInv'
  <2>1. CASE player[a] # None /\ Release(player[a])
        BY <1>0, <1>5, <2>1, Releasing DEF OnDestroy, Active, Shape
  <2>2. CASE player[a] = None /\ UNCHANGED players
    <3> USE <1>0, <1>5, <2>2 DEF PInv, OnDestroy
    <3>1. OneActive'
          BY DEF OneActive, Active, Shape
    <3>2. SinglesLive'
          BY KindFacts DEF SinglesLive, IsLive, Shape
    <3>3. NoPlayerLost' /\ PlayerIsLive'
          BY DEF NoPlayerLost, PlayerIsLive, Shape
    <3> QED
          BY <3>1, <3>2, <3>3
  <2> QED
        BY <1>5, <2>1, <2>2 DEF OnDestroy
<1>6. ASSUME NEW a \in Activity, Click(a) \/ Seek(a) \/ Prepared(a) PROVE PInv'
  <2>1. UNCHANGED <<phase, surface, player>>
        BY <1>6 DEF Click, Seek, Prepared
  <2>2. CASE UNCHANGED players
        BY <1>0, <2>1, <2>2, Calm DEF IsLive
  <2>3. CASE player[a] # None
             /\ (Start(player[a]) \/ Pause(player[a]) \/ SeekTo(player[a]))
        BY <1>0, <2>1, <2>3, Calm, CallsAreCalm, CallShape DEF Shape
  <2> QED
        BY <1>6, <2>2, <2>3 DEF Click, Seek, Prepared, NullPointer
<1>7. ASSUME NEW a \in Activity, Failed(a) PROVE PInv'
      BY <1>0, <1>7, Calm DEF Failed, NullPointer, IsLive
<1>8. ASSUME NEW a \in Activity, NEW kind \in Kinds, SurfaceCreated(a, kind) PROVE PInv'
      BY <1>0, <1>8, Creation DEF SurfaceCreated
<1>9. ASSUME NEW a \in Activity, NEW kind \in Kinds, SurfaceDestroyed(a, kind) PROVE PInv'
  <2> USE <1>0, <1>9 DEF SurfaceDestroyed
  <2>1. CASE player[a] # None /\ Release(player[a]) /\ player' = [player EXCEPT ![a] = None]
        BY <2>1, Releasing DEF Active, Shape
  <2>2. CASE UNCHANGED <<player, players>>
    <3>1. \A b \in Activity : surface'[b] # {} => surface[b] # {}
          BY DEF Shape
    <3> USE <2>2 DEF PInv
    <3>2. OneActive'
          BY <3>1 DEF OneActive, Active, Shape
    <3>3. SinglesLive'
          BY <3>1, KindFacts DEF SinglesLive, IsLive, Shape
    <3>4. NoPlayerLost' /\ PlayerIsLive'
          BY DEF NoPlayerLost, PlayerIsLive
    <3> QED
          BY <3>2, <3>3, <3>4
  <2> QED
        BY <2>1, <2>2 DEF DestroyMediaPlayer
<1>10. ASSUME NEW p \in Player,
              \/ PlayerPrepared(p) \/ PlayerFails(p) \/ PlayerCompletes(p)
              \/ PlayerProgress(p) \/ TimerCrash(p)
       PROVE  PInv'
  <2>1. UNCHANGED <<phase, surface, player, single>>
        BY <1>10 DEF PlayerPrepared, PlayerFails, PlayerCompletes, PlayerProgress, TimerCrash,
                     Becomes
  <2>2. \A q \in Player : IsLive(q)' <=> IsLive(q)
        BY <1>0, <1>10 DEF PlayerPrepared, PlayerFails, PlayerCompletes, PlayerProgress,
                           TimerCrash, Becomes, IsLive, Dead, Shape
  <2> QED
        BY <1>0, <2>1, <2>2, Calm
<1> QED
      BY <1>1, <1>2, <1>3, <1>4, <1>5, <1>6, <1>7, <1>8, <1>9, <1>10
      DEF Next, HandleMessage, Player

-----------------------------------------------------------------------------
(* With any overlap of the activities: every step keeps VInv. *)

LEMMA InitVInv == Init => VInv
<1> SUFFICES ASSUME Init PROVE VInv
    OBVIOUS
<1>1. ShownPlays
      BY DEF Init, ShownPlays
<1>2. NoCrashWithSurface
      BY CauseAssumption DEF Init, NoCrashWithSurface
<1> QED
      BY <1>1, <1>2, InitShape DEF VInv

\* A step that keeps what is shown, the surfaces and the references.
LEMMA Steady ==
  ASSUME VInv, Shape', UNCHANGED <<shown, surface, player>>,
         \A a \in Activity : phase'[a] = "new" => phase[a] = "new",
         \/ UNCHANGED crashed
         \/ crashed' = "timer"
         \/ \E a \in Activity : NullPointer(a)
  PROVE  VInv'
<1> USE DEF VInv
<1>1. ShownPlays'
      BY DEF ShownPlays
<1>2. CASE UNCHANGED crashed
      BY <1>1, <1>2 DEF NoCrashWithSurface
<1>3. CASE crashed' = "timer"
      BY <1>1, <1>3, CauseAssumption DEF NoCrashWithSurface
<1>4. ASSUME NEW a \in Activity, NullPointer(a) PROVE VInv'
  <2>1. shown[a] \in surface[a] => shown[a] \in Kinds
        BY DEF Shape
  <2>2. shown[a] \notin surface[a]
        BY <1>4, <2>1, KindFacts DEF NullPointer, ShownPlays
  <2> QED
        BY <1>1, <1>4, <2>2 DEF NullPointer, NoCrashWithSurface
<1> QED
      BY <1>2, <1>3, <1>4

\* A step that does change one of them is not the one that crashes.
LEMMA NotCrashing ==
  ASSUME Running, UNCHANGED crashed
  PROVE  NoCrashWithSurface'
BY CauseAssumption DEF Running, NoCrashWithSurface

LEMMA NextVInv == VInv /\ [Next]_vars => VInv'
<1> SUFFICES ASSUME VInv, [Next]_vars PROVE VInv'
    OBVIOUS
<1>0. Shape /\ Shape'
      BY NextShape DEF VInv
<1> USE DEF activities, players
<1>1. CASE UNCHANGED vars
      BY <1>0, <1>1, Steady DEF vars
<1>2. ASSUME NEW a \in Activity, OnCreate(a) PROVE VInv'
  <2>1. ShownPlays'
    <3>1. surface[a] = {} /\ UNCHANGED <<surface, player>>
          BY <1>2 DEF OnCreate, VInv, ShownPlays
    <3>2. \A b \in Activity : b # a => phase'[b] = phase[b] /\ shown'[b] = shown[b]
          BY <1>0, <1>2 DEF OnCreate, Shape
    <3>3. phase'[a] = "created"
          BY <1>0, <1>2 DEF OnCreate, Shape
    <3> QED
          BY <3>1, <3>2, <3>3 DEF VInv, ShownPlays
  <2> QED
        BY <1>0, <1>2, <2>1, NotCrashing DEF OnCreate, VInv
<1>3. ASSUME NEW a \in Activity, OnStart(a) \/ Progressed(a) PROVE VInv'
      BY <1>0, <1>3, Steady DEF OnStart, Progressed
<1>4. ASSUME NEW a \in Activity, OnStop(a) PROVE VInv'
      BY <1>0, <1>4, Steady DEF OnStop
<1>5. ASSUME NEW a \in Activity, OnDestroy(a) PROVE VInv'
      BY <1>0, <1>5, Steady DEF OnDestroy, Shape
<1>6. ASSUME NEW a \in Activity, Click(a) \/ Seek(a) \/ Prepared(a) PROVE VInv'
      BY <1>0, <1>6, Steady DEF Click, Seek, Prepared
<1>7. ASSUME NEW a \in Activity, Failed(a) PROVE VInv'
  <2>1. CASE NullPointer(a) /\ UNCHANGED shown
        BY <1>0, <1>7, <2>1, Steady DEF Failed
  <2>2. CASE player[a] # None /\ UNCHANGED <<shown, players, crashed>>
        BY <1>0, <1>7, <2>2, Steady DEF Failed
  <2>3. CASE player[a] \in Def /\ shown' = [shown EXCEPT ![a] = "vlc"] /\ UNCHANGED crashed
    <3>1. "vlc" \notin surface[a]
      <4>1. player[a] \notin Objects("vlc")
            BY <2>3, PlayerAssumption DEF Objects
      <4> QED
            BY <4>1 DEF VInv, ShownPlays
    <3>2. ShownPlays'
          BY <1>0, <1>7, <2>3, <3>1 DEF Failed, VInv, ShownPlays, Shape
    <3> QED
          BY <1>0, <1>7, <2>3, <3>2, NotCrashing DEF Failed, Told, VInv
  <2> QED
        BY <1>7, <2>1, <2>2, <2>3 DEF Failed
<1>8. ASSUME NEW a \in Activity, NEW kind \in Kinds, SurfaceCreated(a, kind) PROVE VInv'
  <2>1. ShownPlays'
        BY <1>0, <1>8, CreationShape DEF SurfaceCreated, VInv, ShownPlays, Shape, Kinds
  <2> QED
        BY <1>0, <1>8, <2>1, NotCrashing DEF SurfaceCreated, VInv
<1>9. ASSUME NEW a \in Activity, NEW kind \in Kinds, SurfaceDestroyed(a, kind) PROVE VInv'
  <2> USE <1>0, <1>9 DEF SurfaceDestroyed
  <2>1. \A b \in Activity : b # a => player'[b] = player[b] /\ surface'[b] = surface[b]
        BY DEF DestroyMediaPlayer, Shape
  <2>2. surface'[a] = surface[a] \ {kind}
        BY DEF Shape
  <2>3. \/ player'[a] = player[a]
        \/ KindOf(player[a]) = kind /\ player'[a] = None
        BY DEF DestroyMediaPlayer, Shape
  <2>4. player[a] = None => player'[a] = None
        BY <2>3
  <2>5. shown[a] \in surface'[a] => player'[a] \in Objects(shown[a])
    <3> SUFFICES ASSUME shown[a] \in surface'[a] PROVE player'[a] \in Objects(shown[a])
        OBVIOUS
    <3>1. shown[a] # kind /\ shown[a] \in surface[a] /\ shown[a] \in Kinds
          BY <2>2 DEF Shape
    <3>2. player[a] \in Objects(shown[a]) /\ KindOf(player[a]) = shown[a]
          BY <3>1, KindFacts DEF VInv, ShownPlays
    <3> QED
          BY <2>3, <3>1, <3>2
  <2>6. ShownPlays'
        BY <2>1, <2>2, <2>4, <2>5 DEF VInv, ShownPlays
  <2> QED
        BY <2>6, NotCrashing DEF VInv
<1>10. ASSUME NEW p \in Player,
              \/ PlayerPrepared(p) \/ PlayerFails(p) \/ PlayerCompletes(p)
              \/ PlayerProgress(p) \/ TimerCrash(p)
       PROVE  VInv'
       BY <1>0, <1>10, Steady DEF PlayerPrepared, PlayerFails, PlayerCompletes, PlayerProgress,
                                  TimerCrash, Becomes
<1> QED
      BY <1>1, <1>2, <1>3, <1>4, <1>5, <1>6, <1>7, <1>8, <1>9, <1>10
      DEF Next, HandleMessage, Player

-----------------------------------------------------------------------------
\* The rest of the type, and that a player that does anything has somebody to tell.
States == Dead \cup {"idle", "preparing", "prepared", "playing", "paused", "broken", "error"}
Message == [to : Activity, what : {"prepared", "error", "progress"}]

Heeded ==
  /\ state \in [Player -> States] /\ listener \in [Player -> Activity \cup {None}]
  /\ ticking \subseteq Def
  /\ \A p \in Player : state[p] \notin Dead => listener[p] # None

Sane ==
  /\ queue \in Seq(Message) /\ front \subseteq Activity /\ known \subseteq Activity
  /\ crashed \in Activity \cup {"no", "timer"}

TInv == Shape /\ Heeded /\ Sane

LEMMA InitTInv == Init => TInv
<1> SUFFICES ASSUME Init PROVE TInv
    OBVIOUS
<1>1. Heeded
      BY DEF Init, Heeded, States, Dead, Player
<1>2. Sane
      BY DEF Init, Sane
<1> QED
      BY <1>1, <1>2, InitShape DEF TInv

\* A call on a player keeps the states, and wakes none that is dead.
LEMMA CallHeeded ==
  ASSUME Heeded, NEW p \in Player, Start(p) \/ Pause(p) \/ SeekTo(p)
  PROVE  Heeded'
<1>1. CASE Start(p)
      BY <1>1 DEF Start, Heeded, States, Dead, Player
<1>2. CASE Pause(p)
  <2>1. Paused(p) \in States /\ (state[p] \in Dead => Paused(p) = state[p])
        BY DEF Paused, Heeded, States, Dead
  <2> QED
        BY <1>2, <2>1 DEF Pause, Heeded
<1>3. CASE SeekTo(p)
      BY <1>3 DEF SeekTo, Heeded, States, Dead
<1> QED
      BY <1>1, <1>2, <1>3

LEMMA ReleaseHeeded ==
  ASSUME Heeded, NEW p \in Player, Release(p)
  PROVE  Heeded'
BY DEF Release, Heeded, States, Dead

LEMMA CreationHeeded ==
  ASSUME Shape, Heeded, NEW a \in Activity, NEW kind \in Kinds, CreateMediaPlayer(a, kind)
  PROVE  Heeded'
<1>1. PICK p \in GetMediaPlayer(kind) : \E s \in Preparations(p) :
        /\ state' = [state EXCEPT ![p] = s]
        /\ listener' = [listener EXCEPT ![p] = a]
        /\ UNCHANGED ticking
      BY DEF CreateMediaPlayer
<1>2. PICK s \in Preparations(p) :
        /\ state' = [state EXCEPT ![p] = s]
        /\ listener' = [listener EXCEPT ![p] = a]
        /\ UNCHANGED ticking
      BY <1>1
<1>3. p \in Player
      BY Taking, KindFacts
<1>4. s \in States
      BY DEF Preparations, States, Dead
<1>5. a # None
      BY PlayerAssumption
<1> QED
      BY <1>2, <1>3, <1>4, <1>5 DEF Heeded

\* What an action on the screen's player leaves of the types.
LEMMA NextHeeded == TInv /\ [Next]_vars => Heeded'
<1> SUFFICES ASSUME TInv, [Next]_vars PROVE Heeded'
    OBVIOUS
<1>1. Shape /\ Heeded /\ \A a \in Activity : player[a] # None => player[a] \in Player
      BY DEF TInv, Shape
<1>2. ASSUME UNCHANGED players PROVE Heeded'
      BY <1>1, <1>2 DEF players, Heeded
<1>3. ASSUME NEW a \in Activity, OnStop(a) \/ OnDestroy(a) PROVE Heeded'
      BY <1>1, <1>2, <1>3, CallHeeded, ReleaseHeeded DEF OnStop, OnDestroy
<1>4. ASSUME NEW a \in Activity, Click(a) \/ Seek(a) PROVE Heeded'
      BY <1>1, <1>2, <1>4, CallHeeded DEF Click, Seek, NullPointer
<1>5. ASSUME NEW a \in Activity, NEW kind \in Kinds, SurfaceCreated(a, kind) PROVE Heeded'
      BY <1>1, <1>5, CreationHeeded DEF SurfaceCreated
<1>6. ASSUME NEW a \in Activity, NEW kind \in Kinds, SurfaceDestroyed(a, kind) PROVE Heeded'
      BY <1>1, <1>2, <1>6, ReleaseHeeded DEF SurfaceDestroyed, DestroyMediaPlayer
<1>7. ASSUME NEW a \in Activity, Prepared(a) PROVE Heeded'
      BY <1>1, <1>2, <1>7, CallHeeded DEF Prepared, NullPointer
<1>8. ASSUME NEW a \in Activity, OnCreate(a) \/ OnStart(a) \/ Failed(a) \/ Progressed(a) PROVE Heeded'
      BY <1>2, <1>8 DEF OnCreate, OnStart, Failed, Progressed, NullPointer
<1>9. ASSUME NEW p \in Player, PlayerPrepared(p) \/ PlayerFails(p) \/ PlayerCompletes(p) PROVE Heeded'
  <2>1. PICK s \in States : Becomes(p, s)
        BY <1>1, <1>9 DEF PlayerPrepared, PlayerFails, PlayerCompletes, Heeded, States
  <2>2. state[p] \notin Dead
        BY <1>9 DEF PlayerPrepared, PlayerFails, PlayerCompletes, Dead
  <2> QED
        BY <1>1, <2>1, <2>2 DEF Becomes, Heeded
<1>10. ASSUME NEW p \in Player, PlayerProgress(p) \/ TimerCrash(p) PROVE Heeded'
      BY <1>2, <1>10 DEF PlayerProgress, TimerCrash
<1>11. CASE UNCHANGED vars
      BY <1>2, <1>11 DEF vars
<1> QED
      BY <1>3, <1>4, <1>5, <1>6, <1>7, <1>8, <1>9, <1>10, <1>11 DEF Next, HandleMessage, Player

LEMMA NextTold == TInv /\ [Next]_vars => Sane'
<1> SUFFICES ASSUME TInv, [Next]_vars PROVE Sane'
    OBVIOUS
<1>1. Heeded /\ Sane
      BY DEF TInv
<1>2. ASSUME NEW a \in Activity,
             OnCreate(a) \/ OnStart(a) \/ OnStop(a) \/ OnDestroy(a) \/ Click(a) \/ Seek(a)
      PROVE  Sane'
      BY <1>1, <1>2 DEF OnCreate, OnStart, OnStop, OnDestroy, Click, Seek, NullPointer, Sane, activities
<1>3. ASSUME NEW a \in Activity, NEW kind \in Kinds,
             SurfaceCreated(a, kind) \/ SurfaceDestroyed(a, kind)
      PROVE  Sane'
      BY <1>1, <1>3 DEF SurfaceCreated, SurfaceDestroyed, Sane
<1>4. ASSUME NEW a \in Activity, Prepared(a) \/ Failed(a) \/ Progressed(a) PROVE Sane'
  <2>1. queue # <<>> /\ queue' = Tail(queue)
        BY <1>4 DEF Prepared, Failed, Progressed, Told
  <2>2. queue' \in Seq(Message)
        BY <1>1, <2>1 DEF Sane
  <2>3. front' = front /\ known' \subseteq Activity /\ crashed' \in {crashed, a}
        BY <1>1, <1>4 DEF Prepared, Failed, Progressed, NullPointer, activities, Sane
  <2> QED
        BY <1>1, <2>2, <2>3 DEF Sane
<1>5. ASSUME NEW p \in Player, PlayerPrepared(p) \/ PlayerFails(p) \/ PlayerProgress(p) PROVE Sane'
  <2>1. PICK what \in {"prepared", "error", "progress"} : Post(listener[p], what)
        BY <1>5 DEF PlayerPrepared, PlayerFails, PlayerProgress
  <2>2. state[p] \notin Dead
        BY <1>5 DEF PlayerPrepared, PlayerFails, PlayerProgress, Dead
  <2>3. [to |-> listener[p], what |-> what] \in Message
        BY <1>1, <2>2 DEF Heeded, Message
  <2>4. queue' \in Seq(Message)
        BY <1>1, <2>1, <2>3 DEF Post, Sane
  <2>5. UNCHANGED <<front, known, crashed>>
        BY <1>5 DEF PlayerPrepared, PlayerFails, PlayerProgress, Becomes, activities
  <2> QED
        BY <1>1, <2>4, <2>5 DEF Sane
<1>6. ASSUME NEW p \in Player, PlayerCompletes(p) \/ TimerCrash(p) PROVE Sane'
      BY <1>1, <1>6 DEF PlayerCompletes, TimerCrash, Becomes, activities, Sane
<1>7. CASE UNCHANGED vars
      BY <1>1, <1>7 DEF vars, activities, Sane
<1> QED
      BY <1>2, <1>3, <1>4, <1>5, <1>6, <1>7 DEF Next, HandleMessage, Player

-----------------------------------------------------------------------------
\* While activities follow one another, createMediaPlayer leaks no player: one that is
\* not released is still in its static field.
THEOREM NoLeak == ASSUME ~Overlap PROVE Spec => []NoPlayerLost
<1>1. PInv => NoPlayerLost
      BY DEF PInv
<1> QED
      BY <1>1, InitPInv, NextPInv, PTL DEF Spec

\* While activities follow one another, a live activity never drives a released player.
THEOREM LivePlayer == ASSUME ~Overlap PROVE Spec => []PlayerIsLive
<1>1. PInv => PlayerIsLive
      BY DEF PInv
<1> QED
      BY <1>1, InitPInv, NextPInv, PTL DEF Spec

\* Whatever overlaps, the player goes with the surface of the view that is shown.
THEOREM RightPlayer == Spec => []PlayerMatchesSurface
<1>1. VInv => PlayerMatchesSurface
      BY DEF VInv, ShownPlays, PlayerMatchesSurface
<1> QED
      BY <1>1, InitVInv, NextVInv, PTL DEF Spec

\* Whatever overlaps, the UI thread meets a null player only while the view that is shown
\* has no surface.
THEOREM CrashNeedsNoSurface == Spec => []NoCrashWithSurface
<1>1. VInv => NoCrashWithSurface
      BY DEF VInv
<1> QED
      BY <1>1, InitVInv, NextVInv, PTL DEF Spec

\* The state keeps its type: every message is addressed to an activity, as a player that
\* does anything has a listener.
THEOREM Typed == Spec => []TypeOK
<1>1. TInv /\ [Next]_vars => TInv'
      BY NextShape, NextHeeded, NextTold DEF TInv
<1>2. TInv => TypeOK
      BY DEF TInv, TypeOK, Shape, Heeded, Sane, States, Message, Player
<1> QED
      BY <1>1, <1>2, InitTInv, PTL DEF Spec

=============================================================================
