------------------------------ MODULE LibvlcJni ------------------------------
(***************************************************************************)
(* The libvlc objects behind a VlcMediaPlayer: src/libvlcjni.c with the    *)
(* parts of control/media_player.c, control/media.c, control/event.c and   *)
(* playlist/preparser.c that it reaches.                                   *)
(*                                                                         *)
(* One UI thread makes the native calls.  Each player has an instance of   *)
(* libvlc, whose preparser starts a thread when something is pushed and    *)
(* none runs, and an input thread while it plays.  All three send events   *)
(* of a media or of the player: to send, a thread copies the listeners,    *)
(* takes the sending lock of the event manager and calls                   *)
(* vlc_event_callback, which makes a VlcEvent of the class clz_VlcEvent    *)
(* and posts it.  One event type stands for all of a manager.              *)
(*                                                                         *)
(* The calls are made as PlayerActivity makes them: a player gets a data   *)
(* source before anything else.                                            *)
(***************************************************************************)
EXTENDS Integers, Sequences

CONSTANTS Player, Media,
          Owner,       \* of each media, the player whose data source it may become
          File,        \* the media of type ITEM_TYPE_FILE; the others are streams
          Played,      \* bound: the media that are played, and not only prepared
          None,
          SpawnFails,  \* whether the thread of a preparser may fail to start
          Overlap      \* whether a player is created, or released again, beside a live one

\* An event on its way.  late: its listener was detached since it was copied.
Message == [em : Player \cup Media, calls : BOOLEAN, late : BOOLEAN, parsed : BOOLEAN]

ASSUME MediaAssumption ==
  /\ Owner \in [Media -> Player] /\ File \subseteq Media /\ Played \subseteq Media
  /\ Player \cap Media = {} /\ "ready" \notin Media
  /\ None \notin Player \cup Media \cup {"ready"} \cup Message
ASSUME RuleAssumption == SpawnFails \in BOOLEAN /\ Overlap \in BOOLEAN

VARIABLES
  clz,        \* whether clz_VlcEvent is set
  life,       \* of each player: "new", "live" from nativeCreate on, or "dead"
  media,      \* p_md of each player, which is its mLibVlcMedia
  i_refcount, \* of each media
  heard,      \* the players and media that have vlc_event_callback as a listener
  asked,      \* has_asked_preparse
  parsed,     \* the media whose item is ITEM_PREPARSED
  reported,   \* the media whose MediaParsedChanged has reached Java
  waiting,    \* pp_waiting of each preparser
  b_live,
  worker,     \* the preparser's thread: None, "ready", or the media it parses
  unspawned,  \* the preparsers whose thread could not be started for what waits
  input,      \* where the input thread of each player is; "none" without one
  dying,      \* the players that removed their callbacks from it, and stopped it
  loaded,     \* the count that an unlocked release, or get_media beside it, has read
  send,       \* what each thread is sending, or None
  ui          \* the native call that the UI thread is in, and where

refs == <<i_refcount, loaded>>
told == <<asked, parsed, reported>>
preparser == <<waiting, b_live, worker, unspawned>>
inputs == <<input, dying>>
players == <<clz, life, media>>
vars == <<players, refs, heard, told, preparser, inputs, send, ui>>

\* The UI thread, and the preparser's and the input thread of a player.
UI == <<"ui", None>>
ParseTh(p) == <<"parse", p>>
InputTh(p) == <<"input", p>>
Thread == {UI} \cup {ParseTh(p) : p \in Player} \cup {InputTh(p) : p \in Player}

Idle == [call |-> "idle", p |-> None, m |-> None, at |-> "idle"]

Init ==
  /\ clz = FALSE
  /\ life = [p \in Player |-> "new"] /\ media = [p \in Player |-> None]
  /\ i_refcount = [m \in Media |-> 0] /\ loaded = [th \in Thread |-> 0]
  /\ heard = {} /\ asked = {} /\ parsed = {} /\ reported = {}
  /\ waiting = [p \in Player |-> <<>>] /\ b_live = [p \in Player |-> FALSE]
  /\ worker = [p \in Player |-> None] /\ unspawned = {}
  /\ input = [p \in Player |-> "none"] /\ dying = {}
  /\ send = [th \in Thread |-> None] /\ ui = Idle

-----------------------------------------------------------------------------
(* libvlc_event_send, and libvlc_event_detach beside it. *)

Sending(th) == send[th] # None
Locked(e) == \E th \in Thread : Sending(th) /\ send[th].em = e /\ send[th].calls

\* The copy of the listeners of e, taken under object_lock.
Copy(th, e, isParsed) ==
  send' = IF e \notin heard THEN send
          ELSE [send EXCEPT ![th] =
                  [em |-> e, calls |-> FALSE, late |-> FALSE, parsed |-> isParsed]]

\* event_sending_lock is taken, and the callback begins.
Enter(th) ==
  /\ Sending(th) /\ ~send[th].calls /\ ~Locked(send[th].em)
  /\ send' = [send EXCEPT ![th].calls = TRUE]
  /\ UNCHANGED <<players, refs, heard, told, preparser, inputs, ui>>

\* vlc_event_callback has posted its message, and the lock is given back.
Leave(th) ==
  /\ Sending(th) /\ send[th].calls
  /\ send' = [send EXCEPT ![th] = None]
  /\ reported' = IF send[th].parsed THEN reported \cup {send[th].em} ELSE reported
  /\ UNCHANGED <<players, refs, heard, asked, parsed, preparser, inputs, ui>>

\* Whoever has copied the listener and waits for the lock will call it late.
Outdated(e) ==
  [th \in Thread |-> IF Sending(th) /\ send[th].em = e /\ ~send[th].calls
                     THEN [send[th] EXCEPT !.late = TRUE] ELSE send[th]]

\* Mutant of Detach: it does not take event_sending_lock.
DetachUnlocked(e) == heard' = heard \ {e} /\ send' = Outdated(e)

Detach(e) == ~Locked(e) /\ heard' = heard \ {e} /\ send' = Outdated(e)

-----------------------------------------------------------------------------
(* The preparser of an instance. *)

Push(p, m) ==
  /\ waiting' = [waiting EXCEPT ![p] = Append(@, m)]
  /\ IF b_live[p] THEN UNCHANGED <<b_live, worker, unspawned>>
     ELSE \/ /\ b_live' = [b_live EXCEPT ![p] = TRUE]
             /\ worker' = [worker EXCEPT ![p] = "ready"]
             /\ unspawned' = unspawned \ {p}
          \/ /\ SpawnFails /\ unspawned' = unspawned \cup {p}
             /\ UNCHANGED <<b_live, worker>>

\* Mutant of Stops: the thread ends and leaves b_live.
StopsQuietly(p) == worker' = [worker EXCEPT ![p] = None] /\ UNCHANGED b_live

Stops(p) == worker' = [worker EXCEPT ![p] = None] /\ b_live' = [b_live EXCEPT ![p] = FALSE]

\* The top of Thread: the next item, or the end.
TakeItem(p) ==
  /\ worker[p] = "ready" /\ ~Sending(ParseTh(p))
  /\ IF waiting[p] = <<>> THEN Stops(p) /\ UNCHANGED waiting
     ELSE /\ worker' = [worker EXCEPT ![p] = Head(waiting[p])]
          /\ waiting' = [waiting EXCEPT ![p] = Tail(@)]
          /\ UNCHANGED b_live
  /\ UNCHANGED <<players, refs, heard, told, unspawned, inputs, send, ui>>

\* Preparse does nothing with a stream, and with what is parsed already.
Pass(p) ==
  /\ worker[p] \in Media /\ worker[p] \notin File \ parsed /\ ~Sending(ParseTh(p))
  /\ worker' = [worker EXCEPT ![p] = "ready"]
  /\ UNCHANGED <<players, refs, heard, told, waiting, b_live, unspawned, inputs, send, ui>>

\* input_item_SetPreparsed, which sends only the first time.
SetPreparsed(th, m) == parsed' = parsed \cup {m} /\ Copy(th, m, TRUE)

\* Mutant of Preparse: the item is parsed, and nobody told.
PreparseQuietly(p) ==
  /\ worker[p] \in File \ parsed /\ ~Sending(ParseTh(p))
  /\ parsed' = parsed \cup {worker[p]}
  /\ worker' = [worker EXCEPT ![p] = "ready"]
  /\ UNCHANGED <<players, refs, heard, asked, reported, waiting, b_live, unspawned, inputs, send, ui>>

\* input_Preparse, whose own events are sent like the one at its end.
Preparse(p) ==
  /\ worker[p] \in File \ parsed /\ ~Sending(ParseTh(p))
  /\ SetPreparsed(ParseTh(p), worker[p])
  /\ worker' = [worker EXCEPT ![p] = "ready"]
  /\ UNCHANGED <<players, refs, heard, asked, reported, waiting, b_live, unspawned, inputs, ui>>

-----------------------------------------------------------------------------
(* The input thread, in input_event_changed and in the demuxer. *)

Goes(p, from, to) ==
  input[p] = from /\ ~Sending(InputTh(p)) /\ input' = [input EXCEPT ![p] = to]
HoldsObject(p) == ui.p = p /\ ui.at = "store"

\* set_state retains the media under object_lock, and its media event is sent.
InputState(p) ==
  /\ Goes(p, "run", "state") /\ p \notin dying /\ ~HoldsObject(p)
  /\ i_refcount' = [i_refcount EXCEPT ![media[p]] = @ + 1]
  /\ Copy(InputTh(p), media[p], FALSE)
  /\ UNCHANGED <<players, loaded, heard, told, preparser, dying, ui>>

\* libvlc_media_release, with no lock held: the count is read, and written back.
InputLoad(p) ==
  /\ Goes(p, "state", "release")
  /\ loaded' = [loaded EXCEPT ![InputTh(p)] = i_refcount[media[p]]]
  /\ UNCHANGED <<players, i_refcount, heard, told, preparser, dying, send, ui>>

InputStore(p) ==
  /\ Goes(p, "release", "event")
  /\ i_refcount' = [i_refcount EXCEPT ![media[p]] = loaded[InputTh(p)] - 1]
  /\ loaded' = [loaded EXCEPT ![InputTh(p)] = 0]
  /\ Copy(InputTh(p), p, FALSE)
  /\ UNCHANGED <<players, heard, told, preparser, dying, ui>>

\* Any other event: of the player, or that the demuxer has parsed the item.
InputEvent(p) ==
  /\ Goes(p, "run", "event") /\ p \notin dying /\ Copy(InputTh(p), p, FALSE)
  /\ UNCHANGED <<players, refs, heard, told, preparser, dying, ui>>

InputParsed(p) ==
  /\ Goes(p, "run", "run") /\ media[p] \notin parsed
  /\ SetPreparsed(InputTh(p), media[p])
  /\ UNCHANGED <<players, refs, heard, asked, reported, preparser, dying, ui>>

InputReturns(p) ==
  /\ Goes(p, "event", "run")
  /\ UNCHANGED <<players, refs, heard, told, preparser, dying, send, ui>>

\* At the end of the file, on an error, or because it was stopped.
InputEnds(p) ==
  /\ Goes(p, "run", "ended")
  /\ UNCHANGED <<players, refs, heard, told, preparser, dying, send, ui>>

-----------------------------------------------------------------------------
(* The native calls that return without waiting. *)

Alone(p) == Overlap \/ \A q \in Player \ {p} : life[q] # "live"
Begin(call, p, m, at) == ui' = [call |-> call, p |-> p, m |-> m, at |-> at]

nativeCreate(p) ==
  /\ ui = Idle /\ life[p] = "new" /\ Alone(p)
  /\ clz' = TRUE /\ life' = [life EXCEPT ![p] = "live"] /\ heard' = heard \cup {p}
  /\ UNCHANGED <<media, refs, told, preparser, inputs, send, ui>>

\* preparse_if_needed
nativePrepareAsync(p) ==
  LET m == media[p]
  IN /\ ui = Idle /\ life[p] = "live" /\ m \in Media \ asked
     /\ asked' = asked \cup {m} /\ Push(p, m)
     /\ UNCHANGED <<players, refs, heard, parsed, reported, inputs, send, ui>>

nativeStart(p) ==
  /\ ui = Idle /\ life[p] = "live" /\ media[p] \in Played /\ input[p] = "none"
  /\ input' = [input EXCEPT ![p] = "run"]
  /\ UNCHANGED <<players, refs, heard, told, preparser, dying, send, ui>>

\* nativeRelease of what is released: only freeClasses is left.
ReleaseAgain(p) ==
  /\ ui = Idle /\ life[p] = "dead" /\ Alone(p) /\ clz' = FALSE
  /\ UNCHANGED <<life, media, refs, heard, told, preparser, inputs, send, ui>>

(* The calls that stop the input thread.  nativePause stops what cannot pause. *)

\* Mutant of NewReferences: nativeSetDataSource gives back what new_path gave it.
NewReferencesOnce(m) == i_refcount' = [i_refcount EXCEPT ![m] = 0]

\* The reference of libvlc_media_new_path, which is never given back.
NewReferences(m) == i_refcount' = [i_refcount EXCEPT ![m] = 1]

nativeSetDataSource(p, m) ==
  /\ ui = Idle /\ life[p] = "live" /\ Owner[m] = p /\ i_refcount[m] = 0
  /\ NewReferences(m) /\ heard' = heard \cup {m}
  /\ Begin("source", p, m, "unhook")
  /\ UNCHANGED <<players, loaded, told, preparser, inputs, send>>

nativeStop(p) ==
  /\ ui = Idle /\ life[p] = "live" /\ Begin("stop", p, media[p], "unhook")
  /\ UNCHANGED <<players, refs, heard, told, preparser, inputs, send>>

nativeRelease(p) ==
  /\ ui = Idle /\ life[p] = "live" /\ media[p] # None
  /\ Begin("release", p, media[p], "load")
  /\ UNCHANGED <<players, refs, heard, told, preparser, inputs, send>>

-----------------------------------------------------------------------------
(* The rest of those calls. *)

At(at) == ui.at = at /\ ~Sending(UI)
GoTo(at) == ui' = [ui EXCEPT !.at = at]

\* libvlc_media_player_get_media retains under object_lock what a release may just count.
GetMediaLoad ==
  /\ At("load") /\ GoTo("store")
  /\ loaded' = [loaded EXCEPT ![UI] = i_refcount[ui.m]]
  /\ UNCHANGED <<players, i_refcount, heard, told, preparser, inputs, send>>

GetMediaStore ==
  /\ At("store") /\ GoTo("detachMedia")
  /\ i_refcount' = [i_refcount EXCEPT ![ui.m] = loaded[UI] + 1]
  /\ loaded' = [loaded EXCEPT ![UI] = 0]
  /\ UNCHANGED <<players, heard, told, preparser, inputs, send>>

DetachMedia ==
  /\ At("detachMedia") /\ GoTo("detachPlayer") /\ Detach(ui.m)
  /\ UNCHANGED <<players, refs, told, preparser, inputs>>

DetachPlayer ==
  /\ At("detachPlayer") /\ GoTo("unhook") /\ Detach(ui.p)
  /\ UNCHANGED <<players, refs, told, preparser, inputs>>

\* Mutant of Unhook: the thread is not told to stop.
UnhookOnly ==
  /\ At("unhook")
  /\ IF input[ui.p] = "none" THEN GoTo("state") ELSE input[ui.p] \in {"run", "ended"} /\ GoTo("join")
  /\ UNCHANGED <<players, refs, heard, told, preparser, inputs, send>>

\* release_input_thread: var_DelCallback waits for a callback that runs; input_Stop.
Unhook ==
  /\ At("unhook")
  /\ IF input[ui.p] = "none" THEN GoTo("state") /\ UNCHANGED dying
     ELSE /\ input[ui.p] \in {"run", "ended"}
          /\ dying' = dying \cup {ui.p} /\ GoTo("join")
  /\ UNCHANGED <<players, refs, heard, told, preparser, input, send>>

\* Mutant of Join: it does not wait.
JoinNot ==
  /\ At("join") /\ GoTo("state") /\ dying' = dying \ {ui.p}
  /\ UNCHANGED <<players, refs, heard, told, preparser, input, send>>

Join ==
  /\ At("join") /\ input[ui.p] = "ended" /\ GoTo("state")
  /\ input' = [input EXCEPT ![ui.p] = "none"] /\ dying' = dying \ {ui.p}
  /\ UNCHANGED <<players, refs, heard, told, preparser, send>>

\* set_state sends the event of the media, unless stop finds the player stopped.
SetState ==
  /\ At("state")
  /\ \/ GoTo("told") /\ Copy(UI, media[ui.p], FALSE)
     \/ GoTo("done") /\ ui.call # "source" /\ UNCHANGED send
  /\ UNCHANGED <<players, refs, heard, told, preparser, inputs>>

\* libvlc_media_player_set_media takes the new media for the old one.
SetMedia ==
  /\ At("told") /\ ui.call = "source" /\ ui' = Idle
  /\ media' = [media EXCEPT ![ui.p] = ui.m]
  /\ i_refcount' = [m \in Media |->
       IF m = ui.m THEN i_refcount[m] + 1
       ELSE IF m = media[ui.p] THEN i_refcount[m] - 1 ELSE i_refcount[m]]
  /\ UNCHANGED <<clz, life, loaded, heard, told, preparser, inputs, send>>

TellStopped ==
  /\ At("told") /\ ui.call # "source" /\ GoTo("done") /\ Copy(UI, ui.p, FALSE)
  /\ UNCHANGED <<players, refs, heard, told, preparser, inputs>>

Stopped ==
  /\ At("done") /\ ui.call = "stop" /\ ui' = Idle
  /\ UNCHANGED <<players, refs, heard, told, preparser, inputs, send>>

\* libvlc_media_player_destroy, and freeClasses.  The instance is kept by its media.
Destroy ==
  /\ At("done") /\ ui.call = "release" /\ ui' = Idle
  /\ life' = [life EXCEPT ![ui.p] = "dead"] /\ clz' = FALSE
  /\ i_refcount' = [i_refcount EXCEPT ![ui.m] = @ - 1]
  /\ UNCHANGED <<media, loaded, heard, told, preparser, inputs, send>>

-----------------------------------------------------------------------------
Call(p) ==
  \/ nativeCreate(p) \/ nativePrepareAsync(p) \/ nativeStart(p) \/ nativeStop(p)
  \/ nativeRelease(p) \/ ReleaseAgain(p) \/ \E m \in Media : nativeSetDataSource(p, m)

UiStep ==
  \/ GetMediaLoad \/ GetMediaStore \/ DetachMedia \/ DetachPlayer \/ Unhook \/ Join
  \/ SetState \/ SetMedia \/ TellStopped \/ Stopped \/ Destroy

PreparserStep(p) == TakeItem(p) \/ Pass(p) \/ Preparse(p)
InputStep(p) == InputLoad(p) \/ InputStore(p) \/ InputReturns(p)

Next ==
  \/ UiStep \/ \E th \in Thread : Enter(th) \/ Leave(th)
  \/ \E p \in Player : Call(p) \/ PreparserStep(p) \/ InputStep(p) \/ InputState(p)
                         \/ InputEvent(p) \/ InputParsed(p) \/ InputEnds(p)

Spec == Init /\ [][Next]_vars

\* What a thread does of its own accord: a file is parsed in the end, a stopped input ends.
Progress(th) ==
  \/ Enter(th) \/ Leave(th)
  \/ th = UI /\ UiStep
  \/ \E p \in Player :
       \/ th = ParseTh(p) /\ PreparserStep(p)
       \/ th = InputTh(p) /\ (InputStep(p) \/ (p \in dying /\ InputEnds(p)))

\* Every thread runs, and gets a lock that is given back again and again.
FairSpec == Spec /\ \A th \in Thread : SF_vars(Progress(th))

-----------------------------------------------------------------------------
\* The calls of the UI thread that wait, and where it may be in them.
Ui == [call : {"idle", "source", "stop", "release"}, p : Player \cup {None},
       m : Media \cup {None},
       at : {"idle", "load", "store", "detachMedia", "detachPlayer", "unhook", "join",
             "state", "told", "done"}]

\* Type of the state.  The counts stay natural numbers, whatever the unlocked release loses.
TypeOK ==
  /\ clz \in BOOLEAN /\ life \in [Player -> {"new", "live", "dead"}]
  /\ media \in [Player -> Media \cup {None}]
  /\ i_refcount \in [Media -> Nat] /\ loaded \in [Thread -> Nat]
  /\ heard \subseteq Player \cup Media
  /\ asked \subseteq Media /\ parsed \subseteq Media /\ reported \subseteq Media
  /\ waiting \in [Player -> Seq(Media)] /\ b_live \in [Player -> BOOLEAN]
  /\ worker \in [Player -> Media \cup {None, "ready"}] /\ unspawned \subseteq Player
  /\ input \in [Player -> {"none", "run", "state", "release", "event", "ended"}]
  /\ dying \subseteq Player
  /\ send \in [Thread -> {None} \cup Message]
  /\ ui \in Ui

\* The player that a media or a player belongs to; a media that is no longer its player's.
PlayerOf(e) == IF e \in Media THEN Owner[e] ELSE e
Replaced(e) == e \in Media /\ media[Owner[e]] # e

\* A callback finds clz_VlcEvent, and its player alive, whatever the threads of the player
\* do while it is released.  The preparser is the exception: when it copied the listener
\* before nativeRelease took it away, and when the media was replaced, as its listener is
\* never taken away.
CallbackFindsPlayer ==
  \A th \in Thread : Sending(th) /\ send[th].calls
    /\ ~(th \in {ParseTh(p) : p \in Player} /\ (send[th].late \/ Replaced(send[th].em)))
    => clz /\ life[PlayerOf(send[th].em)] = "live"

\* No media is freed that a player uses or a thread sends for, whatever the unlocked count
\* loses.
MediaIsThere ==
  /\ \A p \in Player : media[p] # None => i_refcount[media[p]] > 0
  /\ \A th \in Thread : Sending(th) /\ send[th].em \in Media => i_refcount[send[th].em] > 0

\* What was pushed is never left without a thread that will take it, unless none could be
\* started for it.
NoItemForgotten ==
  \A p \in Player : waiting[p] # <<>> /\ p \notin unspawned => worker[p] # None

\* The input thread, whose callbacks use the player, is gone before the player is.
InputEndsFirst == \A p \in Player : input[p] # "none" => life[p] = "live"

\* A file that is to be prepared is reported, unless its player goes or gets another one,
\* or the preparser could not start.
PrepareAnswered ==
  \A m \in File : m \in asked ~>
    \/ m \in reported \/ life[Owner[m]] = "dead" \/ Replaced(m) \/ Owner[m] \in unspawned

\* Every native call returns.
CallsReturn == ui # Idle ~> ui = Idle

=============================================================================
