--------------------------- MODULE LibvlcJni_proof ---------------------------
(***************************************************************************)
(* Proofs about LibvlcJni, for any sets of players and media, whether the  *)
(* thread of a preparser starts or not; what is said of clz_VlcEvent needs *)
(* players that follow one another.                                        *)
(***************************************************************************)
EXTENDS LibvlcJni, TLAPS

\* Where the UI thread may be, in which call, and what it has found so far.
Stopping == {"state", "told", "done"}
Detaching == {"load", "store", "detachMedia"}

CallInv ==
  /\ ui.call = "idle" <=> ui.at = "idle"
  /\ ui.call = "idle" => ui = Idle
  /\ ui.call # "idle" => ui.p \in Player /\ life[ui.p] = "live"
  /\ ui.call = "source" => ui.m \in Media /\ Owner[ui.m] = ui.p
  /\ ui.call = "release" => ui.m \in Media /\ ui.m = media[ui.p]
  /\ ui.at \in Detaching \cup {"detachPlayer"} => ui.call = "release"
  /\ ui.at = "done" => ui.call # "source"
  /\ ui.call = "release" /\ ui.at \notin Detaching => ui.m \notin heard
  /\ ui.at \in Stopping => input[ui.p] = "none"

\* What a player has, and the media that is heard of.
PlayerInv ==
  /\ \A p \in Player : media[p] \in Media => Owner[media[p]] = p
  /\ \A p \in Player : life[p] = "new" => media[p] = None
  /\ \A p \in Player : life[p] = "dead" => media[p] \in Media \ heard
  /\ \A p \in Player : input[p] # "none" => life[p] = "live" /\ media[p] \in Media

\* The class is there for a live player, of which there is one at a time.
ClassInv ==
  ~Overlap => /\ \A p \in Player : life[p] = "live" => clz
              /\ \A p, q \in Player : life[p] = "live" /\ life[q] = "live" => p = q

\* What a thread sends for: nothing is heard of any more only if the sender is late.
Heard == \A th \in Thread : Sending(th) /\ ~send[th].late => send[th].em \in heard
UiSends == Sending(UI) => ui.at \in {"told", "done"} /\ send[UI].em \in {ui.p, media[ui.p]}
InputSends ==
  \A p \in Player : Sending(InputTh(p)) =>
    input[p] \in {"run", "state", "event"} /\ send[InputTh(p)].em \in {p, media[p]}
ParsedSends ==
  \A th \in Thread : Sending(th) /\ send[th].parsed => send[th].em \in Media
ParseSends == \A p \in Player : Sending(ParseTh(p)) => send[ParseTh(p)].em \in Media

\* The reference that nativeSetDataSource keeps outlives everything; the player has another,
\* and set_state a third one.
RefHeard == \A m \in Media \cap heard : i_refcount[m] >= 1
RefSent == \A th \in Thread : Sending(th) /\ send[th].em \in Media => i_refcount[send[th].em] >= 1
RefMedia ==
  \A p \in Player : media[p] \in Media =>
    i_refcount[media[p]] >= 1 /\ (life[p] = "live" => i_refcount[media[p]] >= 2)
RefLoaded ==
  /\ \A p \in Player : input[p] \in {"state", "release"} => i_refcount[media[p]] >= 3
  /\ \A p \in Player : input[p] = "release" => loaded[InputTh(p)] >= 3
  /\ ui.at = "store" => loaded[UI] >= 2
RefSource == ui.call = "source" => i_refcount[ui.m] >= 1

\* The preparser's thread runs exactly while b_live, and is there for what waits.
PreparserInv ==
  \A p \in Player : /\ b_live[p] <=> worker[p] # None
                    /\ waiting[p] # <<>> /\ p \notin unspawned => b_live[p]

IInv ==
  /\ TypeOK /\ CallInv /\ PlayerInv /\ ClassInv
  /\ Heard /\ UiSends /\ InputSends /\ ParseSends /\ ParsedSends
  /\ RefHeard /\ RefSent /\ RefMedia /\ RefLoaded /\ RefSource
  /\ PreparserInv

LEMMA ThreadFacts ==
  /\ UI \in Thread /\ \A p \in Player : InputTh(p) \in Thread /\ ParseTh(p) \in Thread
  /\ \A p \in Player : InputTh(p) # UI /\ ParseTh(p) # UI
  /\ \A p, q \in Player : InputTh(p) # ParseTh(q)
  /\ \A p, q \in Player : InputTh(p) = InputTh(q) => p = q
  /\ \A p, q \in Player : ParseTh(p) = ParseTh(q) => p = q
  /\ \A th \in Thread : th = UI \/ \E p \in Player : th = InputTh(p) \/ th = ParseTh(p)
BY DEF UI, Thread, InputTh, ParseTh

\* What libvlc_event_send and libvlc_event_detach do with what is on its way.
LEMMA MessageFacts ==
  /\ None \notin Message
  /\ \A x \in Message : x.em \in Player \cup Media /\ x.calls \in BOOLEAN /\ x.late \in BOOLEAN
                       /\ x.parsed \in BOOLEAN
BY MediaAssumption DEF Message

LEMMA CopyFacts ==
  ASSUME TypeOK, NEW th \in Thread, NEW e, NEW b \in BOOLEAN, Copy(th, e, b)
  PROVE  /\ send' \in [Thread -> {None} \cup Message]
         /\ \A tu \in Thread : tu # th => send'[tu] = send[tu]
         /\ send'[th] = send[th] \/ (e \in heard /\ send'[th] # None /\ send'[th].em = e
                                  /\ send'[th].parsed = b)
<1> DEFINE x == [em |-> e, calls |-> FALSE, late |-> FALSE, parsed |-> b]
<1>1. CASE e \notin heard
  BY <1>1 DEF Copy, TypeOK
<1>2. CASE e \in heard
  <2>1. x \in Message /\ x.em = e /\ x.parsed = b
    BY <1>2 DEF TypeOK, Message
  <2>2. send' = [send EXCEPT ![th] = x]
    BY <1>2 DEF Copy
  <2> HIDE DEF x
  <2> QED
    BY <2>1, <2>2, <1>2, MessageFacts DEF TypeOK
<1> QED
  BY <1>1, <1>2

LEMMA EnterFacts ==
  ASSUME TypeOK, NEW th \in Thread, Enter(th)
  PROVE  /\ send' \in [Thread -> {None} \cup Message]
         /\ \A tu \in Thread : tu # th => send'[tu] = send[tu]
         /\ send[th] # None /\ send'[th] # None
         /\ send'[th].em = send[th].em /\ send'[th].late = send[th].late /\ send'[th].parsed = send[th].parsed
<1> DEFINE x == [send[th] EXCEPT !.calls = TRUE]
<1>1. send[th] \in Message
  BY DEF TypeOK, Enter, Sending
<1>2. x \in Message /\ x.em = send[th].em /\ x.late = send[th].late /\ x.parsed = send[th].parsed
  BY <1>1 DEF Message
<1>3. send' = [send EXCEPT ![th] = x]
  BY DEF Enter
<1> HIDE DEF x
<1> QED
  BY <1>1, <1>2, <1>3, MessageFacts DEF TypeOK

LEMMA DetachFacts ==
  ASSUME TypeOK, NEW e, Detach(e)
  PROVE  /\ heard' = heard \ {e}
         /\ send' \in [Thread -> {None} \cup Message]
         /\ \A th \in Thread : send[th] = None => send'[th] = None
         /\ \A th \in Thread : send[th] # None =>
              /\ send'[th] # None /\ send'[th].em = send[th].em /\ send'[th].parsed = send[th].parsed
              /\ IF send[th].em = e THEN send'[th].late ELSE send'[th] = send[th]
<1> SUFFICES ASSUME NEW th \in Thread
    PROVE /\ send'[th] \in {None} \cup Message
          /\ send[th] = None => send'[th] = None
          /\ send[th] # None =>
               /\ send'[th] # None /\ send'[th].em = send[th].em /\ send'[th].parsed = send[th].parsed
               /\ IF send[th].em = e THEN send'[th].late ELSE send'[th] = send[th]
  BY DEF Detach, Outdated
<1> DEFINE x == [send[th] EXCEPT !.late = TRUE]
<1>1. CASE send[th] = None
  BY <1>1 DEF Detach, Outdated, Sending
<1>2. CASE send[th] # None
  <2>1. send[th] \in Message
    BY <1>2 DEF TypeOK
  <2>2. x \in Message /\ x.em = send[th].em /\ x.late /\ x.parsed = send[th].parsed
    BY <2>1 DEF Message
  <2>3. send[th].em = e => ~send[th].calls
    BY <1>2 DEF Detach, Locked, Sending
  <2>4. send'[th] = IF send[th].em = e THEN x ELSE send[th]
    BY <2>3, <1>2 DEF Detach, Outdated, Sending
  <2> HIDE DEF x
  <2> QED
    BY <1>2, <2>1, <2>2, <2>4, MessageFacts
<1> QED
  BY <1>1, <1>2

LEMMA GoToFacts ==
  ASSUME TypeOK,
         NEW at \in {"store", "detachMedia", "detachPlayer", "unhook", "join", "state", "told", "done"},
         GoTo(at)
  PROVE  ui' \in Ui /\ ui'.call = ui.call /\ ui'.p = ui.p /\ ui'.m = ui.m /\ ui'.at = at
BY DEF TypeOK, Ui, GoTo

LEMMA InitIInv == Init => IInv
<1> SUFFICES ASSUME Init PROVE IInv
  OBVIOUS
<1> USE MediaAssumption, ThreadFacts DEF Init
<1>1. TypeOK
  <2>1. Idle \in Ui
    BY DEF Idle, Ui
  <2>2. <<>> \in Seq(Media)
    OBVIOUS
  <2> QED
    BY <2>1, <2>2 DEF TypeOK, Ui
<1>2. CallInv /\ ClassInv /\ PreparserInv /\ PlayerInv
  BY DEF CallInv, ClassInv, PreparserInv, PlayerInv, Idle, Stopping, Detaching
<1>3. Heard /\ UiSends /\ InputSends /\ ParseSends /\ ParsedSends /\ RefSent
  BY DEF Heard, UiSends, InputSends, ParseSends, ParsedSends, RefSent, Sending
<1>4. RefHeard /\ RefMedia /\ RefLoaded /\ RefSource
  BY DEF RefHeard, RefMedia, RefLoaded, RefSource, Idle
<1> QED
  BY <1>1, <1>2, <1>3, <1>4 DEF IInv

LEMMA KeepsEnter ==
  ASSUME IInv, NEW th \in Thread, Enter(th) PROVE IInv'
<1>1. /\ send' \in [Thread -> {None} \cup Message]
      /\ \A tu \in Thread : tu # th => send'[tu] = send[tu]
      /\ send[th] # None /\ send'[th] # None
      /\ send'[th].em = send[th].em /\ send'[th].late = send[th].late /\ send'[th].parsed = send[th].parsed
  BY EnterFacts DEF Enter, IInv
<1>2. CallInv' /\ PlayerInv' /\ ClassInv' /\ RefHeard' /\ RefMedia' /\ RefLoaded' /\ RefSource' /\ PreparserInv'
  BY DEF IInv, Enter, CallInv, PlayerInv, ClassInv, RefHeard, RefMedia, RefLoaded, RefSource,
     PreparserInv, players, refs, preparser, inputs
<1>3. TypeOK'
  BY <1>1 DEF IInv, Enter, Locked, TypeOK, ParsedSends, Ui, players, refs, told, preparser,
     inputs
<1>4. Heard'
  BY DEF IInv, Enter, Locked, Heard, Sending
<1>5. UiSends'
  BY DEF IInv, Enter, Locked, UiSends, Sending, players
<1>6. InputSends'
  BY DEF IInv, Enter, Locked, InputSends, Sending, players, inputs
<1>7. ParseSends'
  BY DEF IInv, Enter, Locked, ParseSends, Sending
<1>8. ParsedSends'
  BY DEF IInv, Enter, Locked, ParsedSends, Sending
<1>9. RefSent'
  BY DEF IInv, Enter, Locked, RefSent, Sending, refs
<1> QED
  BY <1>2, <1>3, <1>4, <1>5, <1>6, <1>7, <1>8, <1>9 DEF IInv

LEMMA KeepsLeave ==
  ASSUME IInv, NEW th \in Thread, Leave(th) PROVE IInv'
<1>1. /\ send' \in [Thread -> {None} \cup Message] /\ send'[th] = None
      /\ \A tu \in Thread : tu # th => send'[tu] = send[tu]
  BY DEF Leave, IInv, TypeOK
<1>2. CallInv' /\ PlayerInv' /\ ClassInv' /\ RefHeard' /\ RefMedia' /\ RefLoaded' /\ RefSource' /\ PreparserInv'
  BY DEF IInv, Leave, CallInv, PlayerInv, ClassInv, RefHeard, RefMedia, RefLoaded, RefSource,
     PreparserInv, players, refs, preparser, inputs
<1>3. TypeOK'
  BY DEF IInv, Leave, TypeOK, ParsedSends, Ui, players, refs, preparser, inputs
<1>4. Heard'
  BY DEF IInv, Leave, Heard, Sending
<1>5. UiSends'
  BY DEF IInv, Leave, UiSends, Sending, players
<1>6. InputSends'
  BY DEF IInv, Leave, InputSends, Sending, players, inputs
<1>7. ParseSends'
  BY DEF IInv, Leave, ParseSends, Sending
<1>8. ParsedSends'
  BY DEF IInv, Leave, ParsedSends, Sending
<1>9. RefSent'
  BY DEF IInv, Leave, RefSent, Sending, refs
<1> QED
  BY <1>2, <1>3, <1>4, <1>5, <1>6, <1>7, <1>8, <1>9 DEF IInv

LEMMA KeepsNativeCreate ==
  ASSUME IInv, NEW p \in Player, nativeCreate(p) PROVE IInv'
<1>1. UiSends' /\ InputSends' /\ ParseSends' /\ ParsedSends' /\ RefSent' /\ RefLoaded' /\ RefSource' /\ PreparserInv'
  BY DEF IInv, nativeCreate, UiSends, InputSends, ParseSends, ParsedSends, RefSent, RefLoaded,
     RefSource, PreparserInv, Sending, refs, preparser, inputs
<1>2. TypeOK'
  BY DEF IInv, nativeCreate, TypeOK, ParsedSends, Ui, refs, told, preparser, inputs
<1>3. CallInv'
  BY DEF IInv, nativeCreate, CallInv, Idle, inputs
<1>4. PlayerInv'
  BY MediaAssumption DEF IInv, nativeCreate, PlayerInv, inputs
<1>5. ClassInv'
  BY DEF nativeCreate, Alone, ClassInv
<1>6. Heard'
  BY DEF IInv, nativeCreate, Heard, Sending
<1>7. RefHeard'
  BY MediaAssumption DEF IInv, nativeCreate, RefHeard, refs
<1>8. RefMedia'
  BY MediaAssumption DEF IInv, nativeCreate, PlayerInv, RefMedia, refs
<1> QED
  BY <1>1, <1>2, <1>3, <1>4, <1>5, <1>6, <1>7, <1>8 DEF IInv

LEMMA KeepsNativePrepareAsync ==
  ASSUME IInv, NEW p \in Player, nativePrepareAsync(p) PROVE IInv'
<1>1. Append(waiting[p], media[p]) \in Seq(Media)
  BY DEF nativePrepareAsync, IInv, TypeOK
<1>2. CallInv' /\ PlayerInv' /\ ClassInv' /\ Heard' /\ UiSends' /\ InputSends' /\ ParseSends' /\ ParsedSends' /\ RefHeard' /\ RefSent' /\ RefMedia' /\ RefLoaded' /\ RefSource'
  BY DEF IInv, nativePrepareAsync, CallInv, PlayerInv, ClassInv, Heard, UiSends, InputSends,
     ParseSends, ParsedSends, RefHeard, RefSent, RefMedia, RefLoaded, RefSource, Sending,
     players, refs, inputs
<1>3. TypeOK'
  <2>1. TypeOK /\ media[p] \in Media
    BY DEF IInv, nativePrepareAsync
  <2>2. waiting' \in [Player -> Seq(Media)]
    BY <2>1 DEF nativePrepareAsync, Push, TypeOK
  <2>3. asked' \subseteq Media
    BY <2>1 DEF nativePrepareAsync, TypeOK
  <2>4. /\ b_live' \in [Player -> BOOLEAN] /\ unspawned' \subseteq Player
        /\ worker' \in [Player -> Media \cup {None, "ready"}]
    BY <2>1 DEF nativePrepareAsync, Push, TypeOK
  <2> QED
    BY <2>1, <2>2, <2>3, <2>4 DEF nativePrepareAsync, TypeOK, players, refs, inputs
<1>4. PreparserInv'
  <2> SUFFICES ASSUME NEW q \in Player
      PROVE (b_live'[q] <=> worker'[q] # None) /\ (waiting'[q] # <<>> /\ q \notin unspawned' => b_live'[q])
    BY DEF PreparserInv
  <2>1. CASE q # p
    BY <2>1 DEF nativePrepareAsync, Push, IInv, TypeOK, PreparserInv
  <2>2. CASE q = p /\ b_live[p]
    BY <2>2 DEF nativePrepareAsync, Push, IInv, PreparserInv
  <2>3. CASE q = p /\ ~b_live[p]
    BY <2>3, MediaAssumption DEF nativePrepareAsync, Push, IInv, TypeOK, PreparserInv
  <2> QED
    BY <2>1, <2>2, <2>3
<1> QED
  BY <1>2, <1>3, <1>4 DEF IInv

LEMMA KeepsNativeStart ==
  ASSUME IInv, NEW p \in Player, nativeStart(p) PROVE IInv'
<1>1. ClassInv' /\ Heard' /\ UiSends' /\ ParseSends' /\ ParsedSends' /\ RefHeard' /\ RefSent' /\ RefMedia' /\ RefSource' /\ PreparserInv'
  BY DEF IInv, nativeStart, ClassInv, Heard, UiSends, ParseSends, ParsedSends, RefHeard,
     RefSent, RefMedia, RefSource, PreparserInv, Sending, players, refs, preparser
<1>2. TypeOK'
  BY DEF IInv, nativeStart, TypeOK, ParsedSends, Ui, players, refs, told, preparser
<1>3. CallInv'
  BY DEF IInv, nativeStart, CallInv, Idle, Stopping
<1>4. PlayerInv'
  BY MediaAssumption DEF IInv, nativeStart, PlayerInv, players
<1>5. InputSends'
  BY DEF IInv, nativeStart, InputSends, Sending, players
<1>6. RefLoaded'
  BY DEF IInv, nativeStart, RefLoaded, players, refs
<1> QED
  BY <1>1, <1>2, <1>3, <1>4, <1>5, <1>6 DEF IInv

LEMMA KeepsReleaseAgain ==
  ASSUME IInv, NEW p \in Player, ReleaseAgain(p) PROVE IInv'
<1>1. CallInv' /\ PlayerInv' /\ Heard' /\ UiSends' /\ InputSends' /\ ParseSends' /\ ParsedSends' /\ RefHeard' /\ RefSent' /\ RefMedia' /\ RefLoaded' /\ RefSource' /\ PreparserInv'
  BY DEF IInv, ReleaseAgain, CallInv, PlayerInv, Heard, UiSends, InputSends, ParseSends,
     ParsedSends, RefHeard, RefSent, RefMedia, RefLoaded, RefSource, PreparserInv, Sending,
     refs, preparser, inputs
<1>2. TypeOK'
  BY DEF IInv, ReleaseAgain, TypeOK, ParsedSends, Ui, refs, told, preparser, inputs
<1>3. ClassInv'
  BY DEF ReleaseAgain, Alone, ClassInv
<1> QED
  BY <1>1, <1>2, <1>3 DEF IInv

LEMMA KeepsNativeSetDataSource ==
  ASSUME IInv, NEW p \in Player, NEW m \in Media, nativeSetDataSource(p, m) PROVE IInv'
<1>1. /\ ui' \in Ui /\ ui'.call = "source" /\ ui'.p = p /\ ui'.m = m /\ ui'.at = "unhook"
  BY DEF nativeSetDataSource, Begin, Ui
<1>2. ClassInv' /\ InputSends' /\ ParseSends' /\ ParsedSends' /\ PreparserInv'
  BY DEF IInv, nativeSetDataSource, ClassInv, InputSends, ParseSends, ParsedSends, PreparserInv,
     Sending, players, preparser, inputs
<1>3. TypeOK'
  BY <1>1 DEF IInv, nativeSetDataSource, NewReferences, TypeOK, ParsedSends, Ui, players, told,
     preparser, inputs
<1>4. CallInv'
  BY <1>1 DEF nativeSetDataSource, NewReferences, CallInv, Stopping, Detaching, players
<1>5. PlayerInv'
  BY DEF IInv, nativeSetDataSource, NewReferences, PlayerInv, players, inputs
<1>6. Heard'
  BY DEF IInv, nativeSetDataSource, NewReferences, Heard, Sending
<1>7. UiSends'
  BY DEF IInv, nativeSetDataSource, NewReferences, UiSends, Sending, Idle
<1>8. RefHeard'
  BY DEF IInv, nativeSetDataSource, NewReferences, TypeOK, RefHeard
<1>9. RefSent'
  BY DEF IInv, nativeSetDataSource, NewReferences, RefSent, Sending
<1>10. RefMedia'
  BY DEF IInv, nativeSetDataSource, NewReferences, RefMedia, players
<1>11. RefLoaded'
  BY <1>1 DEF IInv, nativeSetDataSource, NewReferences, RefLoaded, players, inputs
<1>12. RefSource'
  BY <1>1 DEF IInv, nativeSetDataSource, NewReferences, TypeOK, RefSource
<1> QED
  BY <1>2, <1>3, <1>4, <1>5, <1>6, <1>7, <1>8, <1>9, <1>10, <1>11, <1>12 DEF IInv

LEMMA KeepsNativeStop ==
  ASSUME IInv, NEW p \in Player, nativeStop(p) PROVE IInv'
<1>1. /\ ui' \in Ui /\ ui'.call = "stop" /\ ui'.p = p /\ ui'.m = media[p] /\ ui'.at = "unhook"
  BY DEF nativeStop, Begin, Ui, IInv, TypeOK
<1>2. PlayerInv' /\ ClassInv' /\ Heard' /\ InputSends' /\ ParseSends' /\ ParsedSends' /\ RefHeard' /\ RefSent' /\ RefMedia' /\ PreparserInv'
  BY DEF IInv, nativeStop, PlayerInv, ClassInv, Heard, InputSends, ParseSends, ParsedSends,
     RefHeard, RefSent, RefMedia, PreparserInv, Sending, players, refs, preparser, inputs
<1>3. TypeOK'
  BY <1>1 DEF IInv, nativeStop, TypeOK, ParsedSends, Ui, players, refs, told, preparser, inputs
<1>4. CallInv'
  BY <1>1 DEF nativeStop, CallInv, Stopping, Detaching, players
<1>5. UiSends'
  BY DEF IInv, nativeStop, UiSends, Sending, Idle
<1>6. RefLoaded'
  BY <1>1 DEF IInv, nativeStop, RefLoaded, players, refs, inputs
<1>7. RefSource'
  BY <1>1 DEF nativeStop, RefSource
<1> QED
  BY <1>2, <1>3, <1>4, <1>5, <1>6, <1>7 DEF IInv

LEMMA KeepsNativeRelease ==
  ASSUME IInv, NEW p \in Player, nativeRelease(p) PROVE IInv'
<1>1. /\ ui' \in Ui /\ ui'.call = "release" /\ ui'.p = p /\ ui'.m = media[p] /\ ui'.at = "load"
  BY DEF nativeRelease, Begin, Ui, IInv, TypeOK
<1>2. PlayerInv' /\ ClassInv' /\ Heard' /\ InputSends' /\ ParseSends' /\ ParsedSends' /\ RefHeard' /\ RefSent' /\ RefMedia' /\ PreparserInv'
  BY DEF IInv, nativeRelease, PlayerInv, ClassInv, Heard, InputSends, ParseSends, ParsedSends,
     RefHeard, RefSent, RefMedia, PreparserInv, Sending, players, refs, preparser, inputs
<1>3. TypeOK'
  BY <1>1 DEF IInv, nativeRelease, TypeOK, ParsedSends, Ui, players, refs, told, preparser,
     inputs
<1>4. CallInv'
  BY <1>1 DEF IInv, nativeRelease, TypeOK, CallInv, Stopping, Detaching, players
<1>5. UiSends'
  BY DEF IInv, nativeRelease, UiSends, Sending, Idle
<1>6. RefLoaded'
  BY <1>1 DEF IInv, nativeRelease, RefLoaded, players, refs, inputs
<1>7. RefSource'
  BY <1>1 DEF nativeRelease, RefSource
<1> QED
  BY <1>2, <1>3, <1>4, <1>5, <1>6, <1>7 DEF IInv

LEMMA KeepsTakeItem ==
  ASSUME IInv, NEW p \in Player, TakeItem(p) PROVE IInv'
<1>1. waiting[p] # <<>> => Head(waiting[p]) \in Media /\ Tail(waiting[p]) \in Seq(Media)
  BY DEF IInv, TypeOK
<1>2. CallInv' /\ PlayerInv' /\ ClassInv' /\ Heard' /\ UiSends' /\ InputSends' /\ ParseSends' /\ ParsedSends' /\ RefHeard' /\ RefSent' /\ RefMedia' /\ RefLoaded' /\ RefSource'
  BY DEF IInv, TakeItem, CallInv, PlayerInv, ClassInv, Heard, UiSends, InputSends, ParseSends,
     ParsedSends, RefHeard, RefSent, RefMedia, RefLoaded, RefSource, Sending, players, refs,
     inputs
<1>3. TypeOK'
  <2>1. TypeOK
    BY DEF IInv
  <2>2. waiting' \in [Player -> Seq(Media)] /\ b_live' \in [Player -> BOOLEAN]
    BY <1>1, <2>1 DEF TakeItem, Stops, TypeOK
  <2>3. worker' \in [Player -> Media \cup {None, "ready"}]
    BY <1>1, <2>1 DEF TakeItem, Stops, TypeOK
  <2> QED
    BY <2>1, <2>2, <2>3 DEF TakeItem, TypeOK, players, refs, told, inputs
<1>4. PreparserInv'
  <2> SUFFICES ASSUME NEW q \in Player
      PROVE (b_live'[q] <=> worker'[q] # None) /\ (waiting'[q] # <<>> /\ q \notin unspawned' => b_live'[q])
    BY DEF PreparserInv
  <2>1. CASE q # p
    BY <2>1 DEF TakeItem, Stops, IInv, TypeOK, PreparserInv
  <2>2. CASE q = p /\ waiting[p] = <<>>
    BY <2>2 DEF TakeItem, Stops, IInv, TypeOK, PreparserInv
  <2>3. CASE q = p /\ waiting[p] # <<>>
    BY <2>3, MediaAssumption DEF TakeItem, IInv, TypeOK, PreparserInv
  <2> QED
    BY <2>1, <2>2, <2>3
<1> QED
  BY <1>2, <1>3, <1>4 DEF IInv

LEMMA KeepsPass ==
  ASSUME IInv, NEW p \in Player, Pass(p) PROVE IInv'
<1>1. CallInv' /\ PlayerInv' /\ ClassInv' /\ Heard' /\ UiSends' /\ InputSends' /\ ParseSends' /\ ParsedSends' /\ RefHeard' /\ RefSent' /\ RefMedia' /\ RefLoaded' /\ RefSource'
  BY DEF IInv, Pass, CallInv, PlayerInv, ClassInv, Heard, UiSends, InputSends, ParseSends,
     ParsedSends, RefHeard, RefSent, RefMedia, RefLoaded, RefSource, Sending, players, refs,
     inputs
<1>2. TypeOK'
  BY DEF IInv, Pass, TypeOK, ParsedSends, Ui, players, refs, told, inputs
<1>3. PreparserInv'
  BY MediaAssumption DEF IInv, Pass, PreparserInv
<1> QED
  BY <1>1, <1>2, <1>3 DEF IInv

LEMMA KeepsPreparse ==
  ASSUME IInv, NEW p \in Player, Preparse(p) PROVE IInv'
<1>1. /\ send' \in [Thread -> {None} \cup Message]
      /\ \A tu \in Thread : tu # ParseTh(p) => send'[tu] = send[tu]
      /\ (send'[ParseTh(p)] = send[ParseTh(p)] \/ (worker[p] \in heard /\ send'[ParseTh(p)] # None /\ send'[ParseTh(p)].em = worker[p]
                                /\ send'[ParseTh(p)].parsed = TRUE))
  BY CopyFacts, ThreadFacts DEF Preparse, IInv, SetPreparsed
<1>2. CallInv' /\ PlayerInv' /\ ClassInv' /\ RefHeard' /\ RefMedia' /\ RefLoaded' /\ RefSource'
  BY DEF IInv, Preparse, CallInv, PlayerInv, ClassInv, RefHeard, RefMedia, RefLoaded, RefSource,
     players, refs, inputs
<1>3. TypeOK'
  <2>1. TypeOK /\ worker[p] \in Media
    BY MediaAssumption DEF IInv, Preparse
  <2>2. parsed' \subseteq Media /\ worker' \in [Player -> Media \cup {None, "ready"}]
    BY <2>1 DEF Preparse, SetPreparsed, TypeOK
  <2> QED
    BY <1>1, <2>1, <2>2 DEF Preparse, TypeOK, players, refs, inputs
<1>4. Heard'
  BY <1>1 DEF IInv, Preparse, Heard, Sending
<1>5. UiSends'
  BY <1>1, ThreadFacts DEF IInv, Preparse, UiSends, Sending, players
<1>6. InputSends'
  BY <1>1, ThreadFacts, MessageFacts DEF IInv, Preparse, InputSends, Sending, players, inputs
<1>7. ParseSends'
  BY <1>1, MediaAssumption, ThreadFacts DEF IInv, Preparse, ParseSends, Sending
<1>8. ParsedSends'
  <2> SUFFICES ASSUME NEW tu \in Thread, send'[tu] # None, send'[tu].parsed
      PROVE send'[tu].em \in Media
    BY DEF ParsedSends, Sending
  <2>1. CASE send'[tu] = send[tu]
    BY <2>1 DEF IInv, ParsedSends, Sending
  <2>2. worker[p] \in Media
    BY MediaAssumption DEF Preparse
  <2> QED
    BY <1>1, <2>1, <2>2
<1>9. RefSent'
  <2>1. \A n \in Media : i_refcount[n] >= 1 => i_refcount'[n] >= 1
    BY DEF Preparse, refs
  <2> SUFFICES ASSUME NEW tu \in Thread, send'[tu] # None, send'[tu].em \in Media
      PROVE i_refcount'[send'[tu].em] >= 1
    BY DEF RefSent, Sending
  <2>2. CASE send'[tu] = send[tu]
    BY <2>1, <2>2 DEF IInv, RefSent, Sending
  <2>3. CASE send'[tu].em = worker[p] /\ worker[p] \in heard
    BY <2>1, <2>3 DEF IInv, RefHeard
  <2> QED
    BY <1>1, <2>2, <2>3
<1>10. PreparserInv'
  BY MediaAssumption DEF IInv, Preparse, PreparserInv
<1> QED
  BY <1>2, <1>3, <1>4, <1>5, <1>6, <1>7, <1>8, <1>9, <1>10 DEF IInv

LEMMA KeepsInputState ==
  ASSUME IInv, NEW p \in Player, InputState(p) PROVE IInv'
<1>1. /\ send' \in [Thread -> {None} \cup Message]
      /\ \A tu \in Thread : tu # InputTh(p) => send'[tu] = send[tu]
      /\ (send'[InputTh(p)] = send[InputTh(p)] \/ (media[p] \in heard /\ send'[InputTh(p)] # None /\ send'[InputTh(p)].em = media[p]
                                /\ send'[InputTh(p)].parsed = FALSE))
  BY CopyFacts, ThreadFacts DEF InputState, IInv
<1>2. /\ media[p] \in Media /\ i_refcount' \in [Media -> Nat]
      /\ i_refcount'[media[p]] = i_refcount[media[p]] + 1
      /\ \A n \in Media : n # media[p] => i_refcount'[n] = i_refcount[n]
  BY DEF InputState, Goes, IInv, PlayerInv, TypeOK
<1>3. ClassInv' /\ PreparserInv'
  BY DEF IInv, InputState, ClassInv, PreparserInv, players, preparser
<1>4. TypeOK'
  BY <1>1, <1>2 DEF IInv, InputState, Goes, TypeOK, ParsedSends, Ui, players, told, preparser
<1>5. CallInv'
  BY DEF IInv, InputState, Goes, CallInv, players
<1>6. PlayerInv'
  BY DEF IInv, InputState, Goes, PlayerInv, players
<1>7. Heard'
  BY <1>1 DEF IInv, InputState, Heard, Sending
<1>8. UiSends'
  BY <1>1, ThreadFacts DEF IInv, InputState, UiSends, Sending, players
<1>9. InputSends'
  BY <1>1, ThreadFacts DEF IInv, InputState, Goes, InputSends, Sending, players
<1>10. ParseSends'
  BY <1>1, ThreadFacts DEF IInv, InputState, ParseSends, Sending
<1>11. ParsedSends'
  <2> SUFFICES ASSUME NEW tu \in Thread, send'[tu] # None, send'[tu].parsed
      PROVE send'[tu].em \in Media
    BY DEF ParsedSends, Sending
  <2>1. CASE send'[tu] = send[tu]
    BY <2>1 DEF IInv, ParsedSends, Sending
  <2> QED
    BY <1>1, <2>1
<1>12. RefHeard'
  BY DEF IInv, InputState, TypeOK, RefHeard
<1>13. RefSent'
  <2>1. \A n \in Media : i_refcount[n] >= 1 => i_refcount'[n] >= 1
    BY DEF InputState, IInv, TypeOK
  <2> SUFFICES ASSUME NEW tu \in Thread, send'[tu] # None, send'[tu].em \in Media
      PROVE i_refcount'[send'[tu].em] >= 1
    BY DEF RefSent, Sending
  <2>2. CASE send'[tu] = send[tu]
    BY <2>1, <2>2 DEF IInv, RefSent, Sending
  <2>3. CASE send'[tu].em = media[p] /\ media[p] \in heard
    BY <2>1, <2>3 DEF IInv, RefHeard
  <2> QED
    BY <1>1, <2>2, <2>3
<1>14. RefMedia'
  BY MediaAssumption DEF IInv, InputState, TypeOK, RefMedia, players
<1>15. RefLoaded'
  <2>1. i_refcount[media[p]] >= 2
    BY DEF InputState, Goes, IInv, PlayerInv, RefMedia
  <2>2. \A q \in Player : q # p => input'[q] = input[q]
    BY DEF InputState, Goes
  <2>3. \A q \in Player : q # p /\ input[q] # "none" => media[q] \in Media /\ media[q] # media[p]
    BY DEF IInv, PlayerInv
  <2>4. input'[p] = "state"
    BY DEF InputState, Goes, IInv, TypeOK
  <2> QED
    BY <1>1, <1>2, <2>1, <2>2, <2>3, <2>4 DEF InputState, players, IInv, RefLoaded, TypeOK
<1>16. RefSource'
  BY DEF IInv, InputState, TypeOK, RefSource
<1> QED
  BY <1>3, <1>4, <1>5, <1>6, <1>7, <1>8, <1>9, <1>10, <1>11, <1>12, <1>13, <1>14, <1>15, <1>16
     DEF IInv

LEMMA KeepsInputLoad ==
  ASSUME IInv, NEW p \in Player, InputLoad(p) PROVE IInv'
<1>1. ClassInv' /\ Heard' /\ UiSends' /\ ParseSends' /\ ParsedSends' /\ RefHeard' /\ RefSent' /\ RefMedia' /\ RefSource' /\ PreparserInv'
  BY DEF IInv, InputLoad, ClassInv, Heard, UiSends, ParseSends, ParsedSends, RefHeard, RefSent,
     RefMedia, RefSource, PreparserInv, Sending, players, preparser
<1>2. TypeOK'
  BY DEF IInv, InputLoad, Goes, TypeOK, PlayerInv, RefMedia, ParsedSends, Ui, players, told,
     preparser
<1>3. CallInv'
  BY DEF IInv, InputLoad, Goes, CallInv, players
<1>4. PlayerInv'
  BY DEF IInv, InputLoad, Goes, PlayerInv, players
<1>5. InputSends'
  BY DEF IInv, InputLoad, Goes, InputSends, Sending, players
<1>6. RefLoaded'
  BY ThreadFacts DEF IInv, InputLoad, Goes, TypeOK, RefLoaded, players
<1> QED
  BY <1>1, <1>2, <1>3, <1>4, <1>5, <1>6 DEF IInv

LEMMA KeepsInputStore ==
  ASSUME IInv, NEW p \in Player, InputStore(p) PROVE IInv'
<1>1. /\ send' \in [Thread -> {None} \cup Message]
      /\ \A tu \in Thread : tu # InputTh(p) => send'[tu] = send[tu]
      /\ (send'[InputTh(p)] = send[InputTh(p)] \/ (p \in heard /\ send'[InputTh(p)] # None /\ send'[InputTh(p)].em = p
                                /\ send'[InputTh(p)].parsed = FALSE))
  BY CopyFacts, ThreadFacts DEF InputStore, IInv
<1>2. /\ media[p] \in Media /\ loaded[InputTh(p)] >= 3 /\ i_refcount' \in [Media -> Nat]
      /\ i_refcount'[media[p]] = loaded[InputTh(p)] - 1
      /\ \A n \in Media : n # media[p] => i_refcount'[n] = i_refcount[n]
      /\ loaded' \in [Thread -> Nat]
      /\ \A tu \in Thread : tu # InputTh(p) => loaded'[tu] = loaded[tu]
  BY ThreadFacts DEF InputStore, Goes, IInv, PlayerInv, RefLoaded, TypeOK
<1>3. ClassInv' /\ PreparserInv'
  BY DEF IInv, InputStore, ClassInv, PreparserInv, players, preparser
<1>4. TypeOK'
  <2>1. TypeOK
    BY DEF IInv
  <2> QED
    BY <1>1, <1>2, <2>1 DEF InputStore, Goes, TypeOK, players, told, preparser
<1>5. CallInv'
  BY DEF IInv, InputStore, Goes, CallInv, players
<1>6. PlayerInv'
  BY DEF IInv, InputStore, Goes, PlayerInv, players
<1>7. Heard'
  BY <1>1, MediaAssumption, ThreadFacts, MessageFacts DEF IInv, InputStore, Heard, Sending
<1>8. UiSends'
  BY <1>1, ThreadFacts DEF IInv, InputStore, UiSends, Sending, players
<1>9. InputSends'
  <2> SUFFICES ASSUME NEW q \in Player, send'[InputTh(q)] # None
      PROVE input'[q] \in {"run", "state", "event"} /\ send'[InputTh(q)].em \in {q, media'[q]}
    BY DEF InputSends, Sending
  <2>1. CASE q = p
    BY <1>1, <2>1 DEF InputStore, Goes, Sending, IInv, TypeOK
  <2>2. CASE q # p
    <3>1. InputTh(q) # InputTh(p) /\ InputTh(q) \in Thread
      BY <2>2, ThreadFacts
    <3>2. send'[InputTh(q)] = send[InputTh(q)]
      BY <1>1, <3>1
    <3> QED
      BY <3>2, <2>2 DEF InputStore, Goes, IInv, players, InputSends, Sending
  <2> QED
    BY <2>1, <2>2
<1>10. ParseSends'
  BY <1>1, ThreadFacts DEF IInv, InputStore, ParseSends, Sending
<1>11. ParsedSends'
  <2> SUFFICES ASSUME NEW tu \in Thread, send'[tu] # None, send'[tu].parsed
      PROVE send'[tu].em \in Media
    BY DEF ParsedSends, Sending
  <2>1. CASE send'[tu] = send[tu]
    BY <2>1 DEF IInv, ParsedSends, Sending
  <2> QED
    BY <1>1, <2>1
<1>12. RefHeard'
  BY <1>2 DEF IInv, InputStore, TypeOK, RefHeard
<1>13. RefSent'
  <2>1. \A n \in Media : i_refcount[n] >= 1 => i_refcount'[n] >= 1
    BY <1>2 DEF InputStore, IInv, TypeOK
  <2> SUFFICES ASSUME NEW tu \in Thread, send'[tu] # None, send'[tu].em \in Media
      PROVE i_refcount'[send'[tu].em] >= 1
    BY DEF RefSent, Sending
  <2>2. CASE send'[tu] = send[tu]
    BY <2>1, <2>2 DEF IInv, RefSent, Sending
  <2>3. CASE send'[tu].em = p /\ p \in heard
    BY <2>1, <2>3 DEF IInv, RefHeard
  <2> QED
    BY <1>1, <2>2, <2>3
<1>14. RefMedia'
  BY <1>2, MediaAssumption DEF IInv, InputStore, TypeOK, PlayerInv, RefMedia, players
<1>15. RefLoaded'
  <2>1. \A q \in Player : q # p /\ input[q] # "none" => media[q] \in Media /\ media[q] # media[p]
    BY DEF IInv, PlayerInv
  <2>2. \A q \in Player : q # p => input'[q] = input[q] /\ loaded'[InputTh(q)] = loaded[InputTh(q)]
    BY ThreadFacts DEF InputStore, Goes
  <2>3. input'[p] = "event" /\ loaded'[UI] = loaded[UI]
    BY ThreadFacts DEF InputStore, Goes, IInv, TypeOK
  <2> QED
    BY <1>1, <1>2, <2>1, <2>2, <2>3 DEF InputStore, players, IInv, RefLoaded
<1>16. RefSource'
  BY <1>2 DEF IInv, InputStore, TypeOK, RefSource
<1> QED
  BY <1>3, <1>4, <1>5, <1>6, <1>7, <1>8, <1>9, <1>10, <1>11, <1>12, <1>13, <1>14, <1>15, <1>16
     DEF IInv

LEMMA KeepsInputEvent ==
  ASSUME IInv, NEW p \in Player, InputEvent(p) PROVE IInv'
<1>1. /\ send' \in [Thread -> {None} \cup Message]
      /\ \A tu \in Thread : tu # InputTh(p) => send'[tu] = send[tu]
      /\ (send'[InputTh(p)] = send[InputTh(p)] \/ (p \in heard /\ send'[InputTh(p)] # None /\ send'[InputTh(p)].em = p
                                /\ send'[InputTh(p)].parsed = FALSE))
  BY CopyFacts, ThreadFacts DEF InputEvent, IInv
<1>2. ClassInv' /\ RefHeard' /\ RefMedia' /\ RefSource' /\ PreparserInv'
  BY DEF IInv, InputEvent, ClassInv, RefHeard, RefMedia, RefSource, PreparserInv, players, refs,
     preparser
<1>3. TypeOK'
  BY <1>1 DEF IInv, InputEvent, Goes, TypeOK, ParsedSends, Ui, players, refs, told, preparser
<1>4. CallInv'
  BY DEF IInv, InputEvent, Goes, CallInv, players
<1>5. PlayerInv'
  BY DEF IInv, InputEvent, Goes, PlayerInv, players
<1>6. Heard'
  BY <1>1 DEF IInv, InputEvent, Heard, Sending
<1>7. UiSends'
  BY <1>1, ThreadFacts DEF IInv, InputEvent, UiSends, Sending, players
<1>8. InputSends'
  BY <1>1, ThreadFacts DEF IInv, InputEvent, Goes, InputSends, Sending, players
<1>9. ParseSends'
  BY <1>1, ThreadFacts DEF IInv, InputEvent, ParseSends, Sending
<1>10. ParsedSends'
  <2> SUFFICES ASSUME NEW tu \in Thread, send'[tu] # None, send'[tu].parsed
      PROVE send'[tu].em \in Media
    BY DEF ParsedSends, Sending
  <2>1. CASE send'[tu] = send[tu]
    BY <2>1 DEF IInv, ParsedSends, Sending
  <2> QED
    BY <1>1, <2>1
<1>11. RefSent'
  <2>1. \A n \in Media : i_refcount[n] >= 1 => i_refcount'[n] >= 1
    BY DEF InputEvent, refs
  <2> SUFFICES ASSUME NEW tu \in Thread, send'[tu] # None, send'[tu].em \in Media
      PROVE i_refcount'[send'[tu].em] >= 1
    BY DEF RefSent, Sending
  <2>2. CASE send'[tu] = send[tu]
    BY <2>1, <2>2 DEF IInv, RefSent, Sending
  <2>3. CASE send'[tu].em = p /\ p \in heard
    BY <2>1, <2>3 DEF IInv, RefHeard
  <2> QED
    BY <1>1, <2>2, <2>3
<1>12. RefLoaded'
  BY DEF IInv, InputEvent, Goes, RefLoaded, players, refs
<1> QED
  BY <1>2, <1>3, <1>4, <1>5, <1>6, <1>7, <1>8, <1>9, <1>10, <1>11, <1>12 DEF IInv

LEMMA KeepsInputParsed ==
  ASSUME IInv, NEW p \in Player, InputParsed(p) PROVE IInv'
<1>1. /\ send' \in [Thread -> {None} \cup Message]
      /\ \A tu \in Thread : tu # InputTh(p) => send'[tu] = send[tu]
      /\ (send'[InputTh(p)] = send[InputTh(p)] \/ (media[p] \in heard /\ send'[InputTh(p)] # None /\ send'[InputTh(p)].em = media[p]
                                /\ send'[InputTh(p)].parsed = TRUE))
  BY CopyFacts, ThreadFacts DEF InputParsed, IInv, SetPreparsed
<1>2. ClassInv' /\ RefHeard' /\ RefMedia' /\ RefSource' /\ PreparserInv'
  BY DEF IInv, InputParsed, ClassInv, RefHeard, RefMedia, RefSource, PreparserInv, players,
     refs, preparser
<1>3. TypeOK'
  <2>1. TypeOK /\ media[p] \in Media
    BY DEF IInv, PlayerInv, InputParsed, Goes
  <2>2. parsed' \subseteq Media /\ input' = input
    BY <2>1 DEF InputParsed, Goes, SetPreparsed, TypeOK
  <2> QED
    BY <1>1, <2>1, <2>2 DEF InputParsed, TypeOK, players, refs, preparser
<1>4. CallInv'
  BY DEF IInv, InputParsed, Goes, CallInv, players
<1>5. PlayerInv'
  BY DEF IInv, InputParsed, Goes, PlayerInv, players
<1>6. Heard'
  BY <1>1 DEF IInv, InputParsed, Heard, Sending
<1>7. UiSends'
  BY <1>1, ThreadFacts DEF IInv, InputParsed, UiSends, Sending, players
<1>8. InputSends'
  BY <1>1, ThreadFacts DEF IInv, InputParsed, Goes, InputSends, Sending, players
<1>9. ParseSends'
  BY <1>1, ThreadFacts DEF IInv, InputParsed, ParseSends, Sending
<1>10. ParsedSends'
  <2> SUFFICES ASSUME NEW tu \in Thread, send'[tu] # None, send'[tu].parsed
      PROVE send'[tu].em \in Media
    BY DEF ParsedSends, Sending
  <2>1. CASE send'[tu] = send[tu]
    BY <2>1 DEF IInv, ParsedSends, Sending
  <2>2. media[p] \in Media
    BY DEF IInv, PlayerInv, InputParsed, Goes
  <2> QED
    BY <1>1, <2>1, <2>2
<1>11. RefSent'
  <2>1. \A n \in Media : i_refcount[n] >= 1 => i_refcount'[n] >= 1
    BY DEF InputParsed, refs
  <2> SUFFICES ASSUME NEW tu \in Thread, send'[tu] # None, send'[tu].em \in Media
      PROVE i_refcount'[send'[tu].em] >= 1
    BY DEF RefSent, Sending
  <2>2. CASE send'[tu] = send[tu]
    BY <2>1, <2>2 DEF IInv, RefSent, Sending
  <2>3. CASE send'[tu].em = media[p] /\ media[p] \in heard
    BY <2>1, <2>3 DEF IInv, RefHeard
  <2> QED
    BY <1>1, <2>2, <2>3
<1>12. RefLoaded'
  BY DEF IInv, InputParsed, Goes, RefLoaded, players, refs
<1> QED
  BY <1>2, <1>3, <1>4, <1>5, <1>6, <1>7, <1>8, <1>9, <1>10, <1>11, <1>12 DEF IInv

LEMMA KeepsInputReturns ==
  ASSUME IInv, NEW p \in Player, InputReturns(p) PROVE IInv'
<1>1. ClassInv' /\ Heard' /\ UiSends' /\ ParseSends' /\ ParsedSends' /\ RefHeard' /\ RefSent' /\ RefMedia' /\ RefSource' /\ PreparserInv'
  BY DEF IInv, InputReturns, ClassInv, Heard, UiSends, ParseSends, ParsedSends, RefHeard,
     RefSent, RefMedia, RefSource, PreparserInv, Sending, players, refs, preparser
<1>2. TypeOK'
  BY DEF IInv, InputReturns, Goes, TypeOK, ParsedSends, Ui, players, refs, told, preparser
<1>3. CallInv'
  BY DEF IInv, InputReturns, Goes, CallInv, players
<1>4. PlayerInv'
  BY DEF IInv, InputReturns, Goes, PlayerInv, players
<1>5. InputSends'
  BY DEF IInv, InputReturns, Goes, InputSends, Sending, players
<1>6. RefLoaded'
  BY DEF IInv, InputReturns, Goes, RefLoaded, players, refs
<1> QED
  BY <1>1, <1>2, <1>3, <1>4, <1>5, <1>6 DEF IInv

LEMMA KeepsInputEnds ==
  ASSUME IInv, NEW p \in Player, InputEnds(p) PROVE IInv'
<1>1. ClassInv' /\ Heard' /\ UiSends' /\ ParseSends' /\ ParsedSends' /\ RefHeard' /\ RefSent' /\ RefMedia' /\ RefSource' /\ PreparserInv'
  BY DEF IInv, InputEnds, ClassInv, Heard, UiSends, ParseSends, ParsedSends, RefHeard, RefSent,
     RefMedia, RefSource, PreparserInv, Sending, players, refs, preparser
<1>2. TypeOK'
  BY DEF IInv, InputEnds, Goes, TypeOK, ParsedSends, Ui, players, refs, told, preparser
<1>3. CallInv'
  BY DEF IInv, InputEnds, Goes, CallInv, players
<1>4. PlayerInv'
  BY DEF IInv, InputEnds, Goes, PlayerInv, players
<1>5. InputSends'
  BY DEF IInv, InputEnds, Goes, InputSends, Sending, players
<1>6. RefLoaded'
  BY DEF IInv, InputEnds, Goes, RefLoaded, players, refs
<1> QED
  BY <1>1, <1>2, <1>3, <1>4, <1>5, <1>6 DEF IInv

LEMMA KeepsGetMediaLoad ==
  ASSUME IInv, GetMediaLoad PROVE IInv'
<1>1. /\ ui' \in Ui /\ ui'.call = ui.call /\ ui'.p = ui.p /\ ui'.m = ui.m /\ ui'.at = "store"
  BY GoToFacts DEF GetMediaLoad, IInv
<1>2. ui.m \in Media /\ loaded' \in [Thread -> Nat]
  BY DEF GetMediaLoad, At, IInv, CallInv, Detaching, TypeOK
<1>3. PlayerInv' /\ ClassInv' /\ Heard' /\ InputSends' /\ ParseSends' /\ ParsedSends' /\ RefHeard' /\ RefSent' /\ RefMedia' /\ PreparserInv'
  BY DEF IInv, GetMediaLoad, PlayerInv, ClassInv, Heard, InputSends, ParseSends, ParsedSends,
     RefHeard, RefSent, RefMedia, PreparserInv, Sending, players, preparser, inputs
<1>4. TypeOK'
  <2>1. TypeOK
    BY DEF IInv
  <2> QED
    BY <1>1, <1>2, <2>1 DEF GetMediaLoad, TypeOK, players, told, preparser, inputs
<1>5. CallInv'
  BY <1>1 DEF IInv, GetMediaLoad, At, CallInv, Stopping, Detaching, players
<1>6. UiSends'
  BY DEF GetMediaLoad, At, UiSends, Sending
<1>7. RefLoaded'
  BY <1>2, ThreadFacts DEF IInv, GetMediaLoad, At, CallInv, RefMedia, RefLoaded, Detaching,
     players, inputs
<1>8. RefSource'
  BY <1>1 DEF IInv, GetMediaLoad, RefSource
<1> QED
  BY <1>3, <1>4, <1>5, <1>6, <1>7, <1>8 DEF IInv

LEMMA KeepsGetMediaStore ==
  ASSUME IInv, GetMediaStore PROVE IInv'
<1>1. /\ ui' \in Ui /\ ui'.call = ui.call /\ ui'.p = ui.p /\ ui'.m = ui.m /\ ui'.at = "detachMedia"
  BY GoToFacts DEF GetMediaStore, IInv
<1>2. /\ ui.m \in Media /\ loaded[UI] >= 2 /\ i_refcount' \in [Media -> Nat]
      /\ loaded' \in [Thread -> Nat]
  BY ThreadFacts DEF GetMediaStore, At, IInv, CallInv, RefLoaded, Detaching, TypeOK
<1>3. PlayerInv' /\ ClassInv' /\ Heard' /\ InputSends' /\ ParseSends' /\ ParsedSends' /\ PreparserInv'
  BY DEF IInv, GetMediaStore, PlayerInv, ClassInv, Heard, InputSends, ParseSends, ParsedSends,
     PreparserInv, Sending, players, preparser, inputs
<1>4. TypeOK'
  <2>1. TypeOK
    BY DEF IInv
  <2> QED
    BY <1>1, <1>2, <2>1 DEF GetMediaStore, TypeOK, players, told, preparser, inputs
<1>5. CallInv'
  BY <1>1 DEF IInv, GetMediaStore, At, CallInv, Stopping, Detaching, players
<1>6. UiSends'
  BY DEF GetMediaStore, At, UiSends, Sending
<1>7. RefHeard'
  BY <1>2 DEF IInv, GetMediaStore, TypeOK, RefHeard
<1>8. RefSent'
  BY <1>2 DEF IInv, GetMediaStore, TypeOK, RefSent, Sending
<1>9. RefMedia'
  BY <1>2 DEF IInv, GetMediaStore, TypeOK, RefMedia, players
<1>10. RefLoaded'
  BY <1>1, <1>2, ThreadFacts DEF IInv, GetMediaStore, TypeOK, RefLoaded, players, inputs
<1>11. RefSource'
  BY <1>1, <1>2 DEF IInv, GetMediaStore, TypeOK, RefSource
<1> QED
  BY <1>3, <1>4, <1>5, <1>6, <1>7, <1>8, <1>9, <1>10, <1>11 DEF IInv

LEMMA KeepsDetachMedia ==
  ASSUME IInv, DetachMedia PROVE IInv'
<1>1. /\ heard' = heard \ {ui.m}
      /\ send' \in [Thread -> {None} \cup Message]
      /\ \A th \in Thread : send[th] = None => send'[th] = None
      /\ \A th \in Thread : send[th] # None =>
           /\ send'[th] # None /\ send'[th].em = send[th].em /\ send'[th].parsed = send[th].parsed
           /\ IF send[th].em = ui.m THEN send'[th].late ELSE send'[th] = send[th]
  BY DetachFacts DEF DetachMedia, IInv, GoTo
<1>2. /\ ui' \in Ui /\ ui'.call = ui.call /\ ui'.p = ui.p /\ ui'.m = ui.m /\ ui'.at = "detachPlayer"
  BY GoToFacts DEF DetachMedia, IInv
<1>3. ClassInv' /\ RefMedia' /\ PreparserInv'
  BY DEF IInv, DetachMedia, ClassInv, RefMedia, PreparserInv, players, refs, preparser
<1>4. TypeOK'
  BY <1>1, <1>2 DEF IInv, DetachMedia, TypeOK, ParsedSends, Ui, players, refs, told, preparser,
     inputs
<1>5. CallInv'
  BY <1>1, <1>2 DEF IInv, DetachMedia, At, CallInv, Stopping, Detaching, players
<1>6. PlayerInv'
  BY <1>1 DEF IInv, DetachMedia, PlayerInv, players, inputs
<1>7. Heard'
  BY <1>1 DEF IInv, DetachMedia, Heard, Sending
<1>8. UiSends'
  BY <1>1, ThreadFacts DEF DetachMedia, At, UiSends, Sending
<1>9. InputSends'
  <2> SUFFICES ASSUME NEW q \in Player, send'[InputTh(q)] # None
      PROVE input'[q] \in {"run", "state", "event"} /\ send'[InputTh(q)].em \in {q, media'[q]}
    BY DEF InputSends, Sending
  <2>1. send[InputTh(q)] # None /\ send[InputTh(q)].em = send'[InputTh(q)].em
    BY <1>1, ThreadFacts
  <2> QED
    BY <2>1 DEF DetachMedia, players, inputs, IInv, InputSends, Sending
<1>10. ParseSends'
  BY <1>1, ThreadFacts DEF IInv, DetachMedia, ParseSends, Sending
<1>11. ParsedSends'
  <2> SUFFICES ASSUME NEW tu \in Thread, send'[tu] # None, send'[tu].parsed
      PROVE send'[tu].em \in Media
    BY DEF ParsedSends, Sending
  <2>1. send[tu] # None /\ send[tu].em = send'[tu].em /\ send[tu].parsed
    BY <1>1
  <2> QED
    BY <2>1 DEF IInv, ParsedSends, Sending
<1>12. RefHeard'
  BY <1>1 DEF IInv, DetachMedia, RefHeard, refs
<1>13. RefSent'
  <2> SUFFICES ASSUME NEW tu \in Thread, send'[tu] # None, send'[tu].em \in Media
      PROVE i_refcount'[send'[tu].em] >= 1
    BY DEF RefSent, Sending
  <2>1. send[tu] # None /\ send[tu].em = send'[tu].em
    BY <1>1
  <2> QED
    BY <2>1 DEF DetachMedia, refs, IInv, RefSent, Sending
<1>14. RefLoaded'
  BY <1>2 DEF IInv, DetachMedia, RefLoaded, players, refs, inputs
<1>15. RefSource'
  BY <1>2 DEF IInv, DetachMedia, RefSource, refs
<1> QED
  BY <1>3, <1>4, <1>5, <1>6, <1>7, <1>8, <1>9, <1>10, <1>11, <1>12, <1>13, <1>14, <1>15 DEF IInv

LEMMA KeepsDetachPlayer ==
  ASSUME IInv, DetachPlayer PROVE IInv'
<1>1. /\ heard' = heard \ {ui.p}
      /\ send' \in [Thread -> {None} \cup Message]
      /\ \A th \in Thread : send[th] = None => send'[th] = None
      /\ \A th \in Thread : send[th] # None =>
           /\ send'[th] # None /\ send'[th].em = send[th].em /\ send'[th].parsed = send[th].parsed
           /\ IF send[th].em = ui.p THEN send'[th].late ELSE send'[th] = send[th]
  BY DetachFacts DEF DetachPlayer, IInv, GoTo
<1>2. /\ ui' \in Ui /\ ui'.call = ui.call /\ ui'.p = ui.p /\ ui'.m = ui.m /\ ui'.at = "unhook"
  BY GoToFacts DEF DetachPlayer, IInv
<1>3. ClassInv' /\ RefMedia' /\ PreparserInv'
  BY DEF IInv, DetachPlayer, ClassInv, RefMedia, PreparserInv, players, refs, preparser
<1>4. TypeOK'
  BY <1>1, <1>2 DEF IInv, DetachPlayer, TypeOK, ParsedSends, Ui, players, refs, told, preparser,
     inputs
<1>5. CallInv'
  BY <1>1, <1>2 DEF IInv, DetachPlayer, At, CallInv, Stopping, Detaching, players
<1>6. PlayerInv'
  BY <1>1 DEF IInv, DetachPlayer, PlayerInv, players, inputs
<1>7. Heard'
  BY <1>1 DEF IInv, DetachPlayer, Heard, Sending
<1>8. UiSends'
  BY <1>1, ThreadFacts DEF DetachPlayer, At, UiSends, Sending
<1>9. InputSends'
  <2> SUFFICES ASSUME NEW q \in Player, send'[InputTh(q)] # None
      PROVE input'[q] \in {"run", "state", "event"} /\ send'[InputTh(q)].em \in {q, media'[q]}
    BY DEF InputSends, Sending
  <2>1. send[InputTh(q)] # None /\ send[InputTh(q)].em = send'[InputTh(q)].em
    BY <1>1, ThreadFacts
  <2> QED
    BY <2>1 DEF DetachPlayer, players, inputs, IInv, InputSends, Sending
<1>10. ParseSends'
  BY <1>1, ThreadFacts DEF IInv, DetachPlayer, ParseSends, Sending
<1>11. ParsedSends'
  <2> SUFFICES ASSUME NEW tu \in Thread, send'[tu] # None, send'[tu].parsed
      PROVE send'[tu].em \in Media
    BY DEF ParsedSends, Sending
  <2>1. send[tu] # None /\ send[tu].em = send'[tu].em /\ send[tu].parsed
    BY <1>1
  <2> QED
    BY <2>1 DEF IInv, ParsedSends, Sending
<1>12. RefHeard'
  BY <1>1 DEF IInv, DetachPlayer, RefHeard, refs
<1>13. RefSent'
  <2> SUFFICES ASSUME NEW tu \in Thread, send'[tu] # None, send'[tu].em \in Media
      PROVE i_refcount'[send'[tu].em] >= 1
    BY DEF RefSent, Sending
  <2>1. send[tu] # None /\ send[tu].em = send'[tu].em
    BY <1>1
  <2> QED
    BY <2>1 DEF DetachPlayer, refs, IInv, RefSent, Sending
<1>14. RefLoaded'
  BY <1>2 DEF IInv, DetachPlayer, RefLoaded, players, refs, inputs
<1>15. RefSource'
  BY <1>2 DEF IInv, DetachPlayer, RefSource, refs
<1> QED
  BY <1>3, <1>4, <1>5, <1>6, <1>7, <1>8, <1>9, <1>10, <1>11, <1>12, <1>13, <1>14, <1>15 DEF IInv

LEMMA KeepsUnhook ==
  ASSUME IInv, Unhook PROVE IInv'
<1>1. /\ ui' \in Ui /\ ui'.call = ui.call /\ ui'.p = ui.p /\ ui'.m = ui.m /\ ui'.at \in {"state", "join"}
      /\ ui'.at = "state" => input[ui.p] = "none"
  BY GoToFacts DEF Unhook, IInv
<1>2. PlayerInv' /\ ClassInv' /\ Heard' /\ InputSends' /\ ParseSends' /\ ParsedSends' /\ RefHeard' /\ RefSent' /\ RefMedia' /\ PreparserInv'
  BY DEF IInv, Unhook, PlayerInv, ClassInv, Heard, InputSends, ParseSends, ParsedSends,
     RefHeard, RefSent, RefMedia, PreparserInv, Sending, players, refs, preparser
<1>3. TypeOK'
  BY <1>1 DEF IInv, Unhook, At, TypeOK, CallInv, ParsedSends, Ui, players, refs, told, preparser
<1>4. CallInv'
  BY <1>1 DEF IInv, Unhook, At, CallInv, Stopping, Detaching, players
<1>5. UiSends'
  BY DEF Unhook, At, UiSends, Sending
<1>6. RefLoaded'
  BY <1>1 DEF IInv, Unhook, RefLoaded, players, refs
<1>7. RefSource'
  BY <1>1 DEF IInv, Unhook, RefSource, refs
<1> QED
  BY <1>2, <1>3, <1>4, <1>5, <1>6, <1>7 DEF IInv

LEMMA KeepsJoin ==
  ASSUME IInv, Join PROVE IInv'
<1>1. /\ ui' \in Ui /\ ui'.call = ui.call /\ ui'.p = ui.p /\ ui'.m = ui.m /\ ui'.at = "state"
  BY GoToFacts DEF Join, IInv
<1>2. ClassInv' /\ Heard' /\ ParseSends' /\ ParsedSends' /\ RefHeard' /\ RefSent' /\ RefMedia' /\ PreparserInv'
  BY DEF IInv, Join, ClassInv, Heard, ParseSends, ParsedSends, RefHeard, RefSent, RefMedia,
     PreparserInv, Sending, players, refs, preparser
<1>3. TypeOK'
  BY <1>1 DEF IInv, Join, TypeOK, ParsedSends, Ui, players, refs, told, preparser
<1>4. CallInv'
  BY <1>1 DEF IInv, Join, At, TypeOK, CallInv, Detaching, players
<1>5. PlayerInv'
  BY DEF IInv, Join, PlayerInv, players
<1>6. UiSends'
  BY DEF Join, At, UiSends, Sending
<1>7. InputSends'
  BY DEF IInv, Join, InputSends, Sending, players
<1>8. RefLoaded'
  BY <1>1 DEF IInv, Join, RefLoaded, players, refs
<1>9. RefSource'
  BY <1>1 DEF IInv, Join, RefSource, refs
<1> QED
  BY <1>2, <1>3, <1>4, <1>5, <1>6, <1>7, <1>8, <1>9 DEF IInv

LEMMA KeepsSetState ==
  ASSUME IInv, SetState PROVE IInv'
<1>1. /\ send' \in [Thread -> {None} \cup Message]
      /\ \A tu \in Thread : tu # UI => send'[tu] = send[tu]
      /\ (send'[UI] = send[UI] \/ (media[ui.p] \in heard /\ send'[UI] # None /\ send'[UI].em = media[ui.p]
                                /\ send'[UI].parsed = FALSE))
  <2>1. CASE Copy(UI, media[ui.p], FALSE)
    BY <2>1, CopyFacts, ThreadFacts DEF IInv
  <2>2. CASE UNCHANGED send
    BY <2>2 DEF IInv, TypeOK
  <2> QED
    BY <2>1, <2>2 DEF SetState
<1>2. /\ ui' \in Ui /\ ui'.call = ui.call /\ ui'.p = ui.p /\ ui'.m = ui.m /\ ui'.at \in {"told", "done"}
      /\ ui'.at = "done" => ui.call # "source"
  BY GoToFacts DEF SetState, IInv
<1>3. PlayerInv' /\ ClassInv' /\ RefHeard' /\ RefMedia' /\ PreparserInv'
  BY DEF IInv, SetState, PlayerInv, ClassInv, RefHeard, RefMedia, PreparserInv, players, refs,
     preparser, inputs
<1>4. TypeOK'
  BY <1>1, <1>2 DEF IInv, SetState, TypeOK, ParsedSends, Ui, players, refs, told, preparser,
     inputs
<1>5. CallInv'
  BY <1>2 DEF IInv, SetState, At, CallInv, Stopping, Detaching, players, inputs
<1>6. Heard'
  BY <1>1 DEF IInv, SetState, Heard, Sending
<1>7. UiSends'
  BY <1>1, <1>2 DEF IInv, SetState, UiSends, Sending, players
<1>8. InputSends'
  BY <1>1, ThreadFacts DEF IInv, SetState, InputSends, Sending, players, inputs
<1>9. ParseSends'
  BY <1>1, ThreadFacts DEF IInv, SetState, ParseSends, Sending
<1>10. ParsedSends'
  <2> SUFFICES ASSUME NEW tu \in Thread, send'[tu] # None, send'[tu].parsed
      PROVE send'[tu].em \in Media
    BY DEF ParsedSends, Sending
  <2>1. CASE send'[tu] = send[tu]
    BY <2>1 DEF IInv, ParsedSends, Sending
  <2> QED
    BY <1>1, <2>1
<1>11. RefSent'
  <2>1. \A n \in Media : i_refcount[n] >= 1 => i_refcount'[n] >= 1
    BY DEF SetState, refs
  <2> SUFFICES ASSUME NEW tu \in Thread, send'[tu] # None, send'[tu].em \in Media
      PROVE i_refcount'[send'[tu].em] >= 1
    BY DEF RefSent, Sending
  <2>2. CASE send'[tu] = send[tu]
    BY <2>1, <2>2 DEF IInv, RefSent, Sending
  <2>3. CASE send'[tu].em = media[ui.p] /\ media[ui.p] \in heard
    BY <2>1, <2>3 DEF IInv, RefHeard
  <2> QED
    BY <1>1, <2>2, <2>3
<1>12. RefLoaded'
  BY <1>2 DEF IInv, SetState, RefLoaded, players, refs, inputs
<1>13. RefSource'
  BY <1>2 DEF IInv, SetState, RefSource, refs
<1> QED
  BY <1>3, <1>4, <1>5, <1>6, <1>7, <1>8, <1>9, <1>10, <1>11, <1>12, <1>13 DEF IInv

LEMMA KeepsSetMedia ==
  ASSUME IInv, SetMedia PROVE IInv'
<1>1. ClassInv' /\ Heard' /\ ParseSends' /\ ParsedSends' /\ PreparserInv'
  BY DEF IInv, SetMedia, ClassInv, Heard, ParseSends, ParsedSends, PreparserInv, Sending,
     preparser
<1>2. TypeOK'
  BY DEF IInv, SetMedia, TypeOK, CallInv, RefMedia, ParsedSends, Ui, Idle, told, preparser,
     inputs
<1>3. CallInv'
  BY DEF SetMedia, CallInv, Idle, Stopping, Detaching
<1>4. PlayerInv'
  BY DEF IInv, SetMedia, CallInv, PlayerInv, inputs
<1>5. UiSends'
  BY DEF SetMedia, At, UiSends, Sending
<1>6. InputSends'
  BY DEF IInv, SetMedia, At, CallInv, InputSends, Sending, Stopping, inputs
<1>7. RefHeard'
  BY DEF IInv, SetMedia, TypeOK, CallInv, RefHeard, RefMedia
<1>8. RefSent'
  BY DEF IInv, SetMedia, TypeOK, CallInv, RefSent, RefMedia, Sending
<1>9. RefMedia'
  BY MediaAssumption DEF IInv, SetMedia, TypeOK, CallInv, PlayerInv, RefMedia, RefSource
<1>10. RefLoaded'
  BY MediaAssumption DEF IInv, SetMedia, At, CallInv, PlayerInv, RefLoaded, Stopping, Idle,
     inputs
<1>11. RefSource'
  BY DEF SetMedia, RefSource, Idle
<1> QED
  BY <1>1, <1>2, <1>3, <1>4, <1>5, <1>6, <1>7, <1>8, <1>9, <1>10, <1>11 DEF IInv

LEMMA KeepsTellStopped ==
  ASSUME IInv, TellStopped PROVE IInv'
<1>1. /\ send' \in [Thread -> {None} \cup Message]
      /\ \A tu \in Thread : tu # UI => send'[tu] = send[tu]
      /\ (send'[UI] = send[UI] \/ (ui.p \in heard /\ send'[UI] # None /\ send'[UI].em = ui.p
                                /\ send'[UI].parsed = FALSE))
  BY CopyFacts, ThreadFacts DEF TellStopped, IInv, GoTo
<1>2. /\ ui' \in Ui /\ ui'.call = ui.call /\ ui'.p = ui.p /\ ui'.m = ui.m /\ ui'.at = "done"
  BY GoToFacts DEF TellStopped, IInv
<1>3. PlayerInv' /\ ClassInv' /\ RefHeard' /\ RefMedia' /\ PreparserInv'
  BY DEF IInv, TellStopped, PlayerInv, ClassInv, RefHeard, RefMedia, PreparserInv, players,
     refs, preparser, inputs
<1>4. TypeOK'
  BY <1>1, <1>2 DEF IInv, TellStopped, TypeOK, ParsedSends, Ui, players, refs, told, preparser,
     inputs
<1>5. CallInv'
  BY <1>2 DEF IInv, TellStopped, At, CallInv, Stopping, Detaching, players, inputs
<1>6. Heard'
  BY <1>1 DEF IInv, TellStopped, Heard, Sending
<1>7. UiSends'
  BY <1>1, <1>2 DEF TellStopped, At, UiSends, Sending
<1>8. InputSends'
  BY <1>1, ThreadFacts DEF IInv, TellStopped, InputSends, Sending, players, inputs
<1>9. ParseSends'
  BY <1>1, ThreadFacts DEF IInv, TellStopped, ParseSends, Sending
<1>10. ParsedSends'
  <2> SUFFICES ASSUME NEW tu \in Thread, send'[tu] # None, send'[tu].parsed
      PROVE send'[tu].em \in Media
    BY DEF ParsedSends, Sending
  <2>1. CASE send'[tu] = send[tu]
    BY <2>1 DEF IInv, ParsedSends, Sending
  <2> QED
    BY <1>1, <2>1
<1>11. RefSent'
  <2>1. \A n \in Media : i_refcount[n] >= 1 => i_refcount'[n] >= 1
    BY DEF TellStopped, refs
  <2> SUFFICES ASSUME NEW tu \in Thread, send'[tu] # None, send'[tu].em \in Media
      PROVE i_refcount'[send'[tu].em] >= 1
    BY DEF RefSent, Sending
  <2>2. CASE send'[tu] = send[tu]
    BY <2>1, <2>2 DEF IInv, RefSent, Sending
  <2>3. CASE send'[tu].em = ui.p /\ ui.p \in heard
    BY <2>1, <2>3 DEF IInv, RefHeard
  <2> QED
    BY <1>1, <2>2, <2>3
<1>12. RefLoaded'
  BY <1>2 DEF IInv, TellStopped, RefLoaded, players, refs, inputs
<1>13. RefSource'
  BY <1>2 DEF TellStopped, RefSource
<1> QED
  BY <1>3, <1>4, <1>5, <1>6, <1>7, <1>8, <1>9, <1>10, <1>11, <1>12, <1>13 DEF IInv

LEMMA KeepsStopped ==
  ASSUME IInv, Stopped PROVE IInv'
<1>1. PlayerInv' /\ ClassInv' /\ Heard' /\ InputSends' /\ ParseSends' /\ ParsedSends' /\ RefHeard' /\ RefSent' /\ RefMedia' /\ PreparserInv'
  BY DEF IInv, Stopped, PlayerInv, ClassInv, Heard, InputSends, ParseSends, ParsedSends,
     RefHeard, RefSent, RefMedia, PreparserInv, Sending, players, refs, preparser, inputs
<1>2. TypeOK'
  BY DEF IInv, Stopped, TypeOK, ParsedSends, Ui, Idle, players, refs, told, preparser, inputs
<1>3. CallInv'
  BY DEF Stopped, CallInv, Idle, Stopping, Detaching
<1>4. UiSends'
  BY DEF Stopped, At, UiSends, Sending
<1>5. RefLoaded'
  BY DEF IInv, Stopped, RefLoaded, Idle, players, refs, inputs
<1>6. RefSource'
  BY DEF Stopped, RefSource, Idle
<1> QED
  BY <1>1, <1>2, <1>3, <1>4, <1>5, <1>6 DEF IInv

LEMMA KeepsDestroy ==
  ASSUME IInv, Destroy PROVE IInv'
<1>1. /\ ui.p \in Player /\ ui.m \in Media /\ ui.m = media[ui.p] /\ i_refcount[ui.m] >= 2
      /\ i_refcount' \in [Media -> Nat] /\ i_refcount'[ui.m] = i_refcount[ui.m] - 1
      /\ \A n \in Media : n # ui.m => i_refcount'[n] = i_refcount[n]
      /\ input[ui.p] = "none"
  BY DEF Destroy, At, IInv, CallInv, RefMedia, Stopping, TypeOK
<1>2. Heard' /\ InputSends' /\ ParseSends' /\ ParsedSends' /\ PreparserInv'
  BY DEF IInv, Destroy, Heard, InputSends, ParseSends, ParsedSends, PreparserInv, Sending,
     preparser, inputs
<1>3. TypeOK'
  <2>1. TypeOK /\ Idle \in Ui
    BY DEF IInv, Idle, Ui
  <2> QED
    BY <1>1, <2>1 DEF Destroy, TypeOK, told, preparser, inputs
<1>4. CallInv'
  BY DEF Destroy, CallInv, Idle, Stopping, Detaching
<1>5. PlayerInv'
  BY <1>1 DEF IInv, Destroy, At, CallInv, PlayerInv, Detaching, inputs
<1>6. ClassInv'
  BY DEF IInv, Destroy, TypeOK, CallInv, ClassInv
<1>7. UiSends'
  BY DEF Destroy, At, UiSends, Sending
<1>8. RefHeard'
  BY <1>1 DEF IInv, Destroy, TypeOK, RefHeard
<1>9. RefSent'
  BY <1>1 DEF IInv, Destroy, TypeOK, RefSent, Sending
<1>10. RefMedia'
  <2>1. \A q \in Player : q # ui.p /\ media[q] \in Media => media[q] # ui.m
    BY <1>1 DEF IInv, PlayerInv
  <2>2. \A q \in Player : q # ui.p => life'[q] = life[q]
    BY DEF Destroy
  <2>3. life'[ui.p] = "dead" /\ media' = media
    BY <1>1 DEF Destroy, IInv, TypeOK
  <2> SUFFICES ASSUME NEW q \in Player, media[q] \in Media
      PROVE i_refcount'[media[q]] >= 1 /\ (life'[q] = "live" => i_refcount'[media[q]] >= 2)
    BY <2>3 DEF RefMedia
  <2>4. CASE q = ui.p
    BY <1>1, <2>3, <2>4 DEF IInv, TypeOK
  <2>5. CASE q # ui.p
    BY <1>1, <2>1, <2>2, <2>5 DEF IInv, RefMedia
  <2> QED
    BY <2>4, <2>5
<1>11. RefLoaded'
  <2>1. \A q \in Player : input[q] # "none" => media[q] \in Media /\ media[q] # ui.m
    BY <1>1 DEF IInv, PlayerInv
  <2>2. UNCHANGED <<input, media, loaded>> /\ ui'.at = "idle"
    BY DEF Destroy, inputs, Idle
  <2> QED
    BY <1>1, <2>1, <2>2 DEF IInv, RefLoaded
<1>12. RefSource'
  BY DEF Destroy, RefSource, Idle
<1> QED
  BY <1>2, <1>3, <1>4, <1>5, <1>6, <1>7, <1>8, <1>9, <1>10, <1>11, <1>12 DEF IInv

LEMMA StepIInv == IInv /\ [Next]_vars => IInv'
<1> SUFFICES ASSUME IInv, [Next]_vars PROVE IInv'
  OBVIOUS
<1>1. ASSUME NEW th \in Thread, Enter(th) \/ Leave(th) PROVE IInv'
  BY <1>1, KeepsEnter, KeepsLeave
<1>2. ASSUME NEW p \in Player, Call(p) PROVE IInv'
  BY <1>2, KeepsNativeCreate, KeepsNativePrepareAsync, KeepsNativeStart, KeepsNativeStop,
     KeepsNativeRelease, KeepsReleaseAgain, KeepsNativeSetDataSource DEF Call
<1>3. ASSUME NEW p \in Player, PreparserStep(p) PROVE IInv'
  BY <1>3, KeepsTakeItem, KeepsPass, KeepsPreparse DEF PreparserStep
<1>4. ASSUME NEW p \in Player, InputStep(p) \/ InputState(p) \/ InputEvent(p) \/ InputParsed(p) \/ InputEnds(p)
     PROVE IInv'
  BY <1>4, KeepsInputLoad, KeepsInputStore, KeepsInputReturns, KeepsInputState, KeepsInputEvent,
     KeepsInputParsed, KeepsInputEnds DEF InputStep
<1>5. CASE UiStep
  BY <1>5, KeepsGetMediaLoad, KeepsGetMediaStore, KeepsDetachMedia, KeepsDetachPlayer,
     KeepsUnhook, KeepsJoin, KeepsSetState, KeepsSetMedia, KeepsTellStopped, KeepsStopped,
     KeepsDestroy DEF UiStep
<1>6. CASE UNCHANGED vars
  BY <1>6 DEF IInv, TypeOK, CallInv, PlayerInv, ClassInv, Heard, UiSends, InputSends,
     ParseSends, ParsedSends, RefHeard, RefSent, RefMedia, RefLoaded, RefSource, PreparserInv,
     Sending, vars, players, refs, told, preparser, inputs
<1> QED
  BY <1>1, <1>2, <1>3, <1>4, <1>5, <1>6 DEF Next

LEMMA Inductive == Spec => []IInv
<1>1. Init => IInv
  BY InitIInv
<1>2. IInv /\ [Next]_vars => IInv'
  BY StepIInv
<1> QED
  BY <1>1, <1>2, PTL DEF Spec

\* The state keeps its type: the counts of libvlc_media_release and libvlc_media_retain stay
\* natural numbers, although two threads change them under no common lock.
THEOREM Typed == Spec => []TypeOK
<1>1. IInv => TypeOK
  BY DEF IInv
<1> QED
  BY <1>1, Inductive, PTL

\* The media of a player, and one that an event is sent for, is never freed: the reference of
\* nativeSetDataSource outlives what libvlc_media_release may lose.
THEOREM MediaKept == Spec => []MediaIsThere
<1>1. IInv => MediaIsThere
  BY DEF IInv, TypeOK, RefMedia, RefSent, MediaIsThere
<1> QED
  BY <1>1, Inductive, PTL

\* playlist_preparser_Push leaves nothing without a thread that takes it, unless none started.
THEOREM NothingForgotten == Spec => []NoItemForgotten
<1>1. IInv => NoItemForgotten
  BY DEF IInv, PreparserInv, NoItemForgotten
<1> QED
  BY <1>1, Inductive, PTL

\* nativeRelease has no player destroyed whose input thread still runs.
THEOREM InputFirst == Spec => []InputEndsFirst
<1>1. IInv => InputEndsFirst
  BY DEF IInv, PlayerInv, InputEndsFirst
<1> QED
  BY <1>1, Inductive, PTL

\* While players follow one another, vlc_event_callback finds clz_VlcEvent and its player,
\* but for what the preparser is late with or sends for a replaced media.
THEOREM CallbackSafe == ASSUME ~Overlap PROVE Spec => []CallbackFindsPlayer
<1>1. IInv => CallbackFindsPlayer
  <2> SUFFICES ASSUME IInv, NEW th \in Thread, Sending(th),
                      ~(th \in {ParseTh(p) : p \in Player} /\ (send[th].late \/ Replaced(send[th].em)))
      PROVE clz /\ life[PlayerOf(send[th].em)] = "live"
    BY DEF CallbackFindsPlayer
  <2>1. SUFFICES PlayerOf(send[th].em) \in Player /\ life[PlayerOf(send[th].em)] = "live"
    BY DEF IInv, ClassInv
  <2>2. \A p \in Player : PlayerOf(p) = p /\ (media[p] \in Media => PlayerOf(media[p]) = p)
    BY MediaAssumption DEF PlayerOf, IInv, PlayerInv
  <2>3. CASE th = UI
    <3>1. ui.p \in Player /\ life[ui.p] = "live" /\ send[th].em \in {ui.p, media[ui.p]}
      BY <2>3 DEF IInv, UiSends, CallInv
    <3>2. send[th].em \in Player \cup Media
      BY MessageFacts DEF IInv, TypeOK, Sending
    <3>3. media[ui.p] \in Media \cup {None}
      BY <3>1 DEF IInv, TypeOK
    <3> QED
      BY <3>1, <3>2, <3>3, <2>2, MediaAssumption
  <2>4. ASSUME NEW p \in Player, th = InputTh(p)
        PROVE PlayerOf(send[th].em) = p /\ life[p] = "live"
    BY <2>2, <2>4 DEF IInv, InputSends, PlayerInv
  <2>5. ASSUME NEW p \in Player, th = ParseTh(p)
        PROVE PlayerOf(send[th].em) \in Player /\ life[PlayerOf(send[th].em)] = "live"
    <3> DEFINE m == send[th].em
    <3>1. m \in Media \cap heard /\ media[Owner[m]] = m /\ Owner[m] \in Player
      BY <2>5, MediaAssumption DEF IInv, ParseSends, Heard, Replaced
    <3>2. life[Owner[m]] \in {"new", "live", "dead"}
      BY <3>1 DEF IInv, TypeOK
    <3> QED
      BY <3>1, <3>2, MediaAssumption DEF IInv, PlayerInv, PlayerOf
  <2> QED
    BY <2>3, <2>4, <2>5, ThreadFacts
<1> QED
  BY <1>1, Inductive, PTL

-----------------------------------------------------------------------------
\* Guards of what a thread does of its own accord: those of Enter and Leave,
CanSend(th) == Sending(th) /\ (send[th].calls \/ ~Locked(send[th].em))

\* of InputStep, and of InputEnds once it is told to stop,
CanInput(p) ==
  /\ ~Sending(InputTh(p))
  /\ input[p] \in {"state", "release", "event"} \/ (input[p] = "run" /\ p \in dying)

\* and of the steps of UiStep, which wait for a sending lock, for a callback, and for a thread.
CanUi ==
  /\ ~Sending(UI)
  /\ \/ ui.at \in {"load", "store", "state", "told"}
     \/ ui.at = "done" /\ ui.call # "source"
     \/ ui.at = "detachMedia" /\ ~Locked(ui.m)
     \/ ui.at = "detachPlayer" /\ ~Locked(ui.p)
     \/ ui.at = "unhook" /\ input[ui.p] \in {"none", "run", "ended"}
     \/ ui.at = "join" /\ input[ui.p] = "ended"

\* While a native call is under way, it can go on, or somebody it waits for.
CallGoesOn == ui # Idle => CanUi \/ (\E th \in Thread : CanSend(th)) \/ CanInput(ui.p)

\* The input thread that is waited for runs, and is told to stop.
JoinsDying == ui.at = "join" => ui.p \in dying /\ input[ui.p] # "none"

LEMMA NextJoinsDying == IInv /\ JoinsDying /\ [Next]_vars => JoinsDying'
<1> SUFFICES ASSUME IInv, JoinsDying, [Next]_vars PROVE JoinsDying'
  OBVIOUS
<1> USE DEF JoinsDying
<1>1. /\ ui \in Ui /\ dying \subseteq Player
      /\ input \in [Player -> {"none", "run", "state", "release", "event", "ended"}]
  BY DEF IInv, TypeOK
<1>2. ASSUME NEW p \in Player, Call(p) PROVE JoinsDying'
  <2>1. ui = Idle /\ Idle.at # "join"
    BY <1>2 DEF Call, nativeCreate, nativePrepareAsync, nativeStart, nativeStop, nativeRelease,
       ReleaseAgain, nativeSetDataSource, Idle
  <2>2. ui' = ui \/ ui'.at \in {"unhook", "load"}
    BY <1>2 DEF Call, nativeCreate, nativePrepareAsync, nativeStart, nativeStop, nativeRelease,
       ReleaseAgain, nativeSetDataSource, Begin
  <2> QED
    BY <2>1, <2>2
<1>3. CASE Unhook
  <2>1. ui \in Ui /\ ui'.p = ui.p
    BY <1>1, <1>3 DEF Unhook, GoTo, Ui
  <2>2. CASE input[ui.p] = "none"
    <3>1. ui'.at = "state"
      BY <1>1, <1>3, <2>2 DEF Unhook, GoTo, Ui
    <3> QED
      BY <3>1
  <2>3. CASE input[ui.p] # "none"
    BY <1>3, <2>1, <2>3 DEF Unhook, inputs
  <2> QED
    BY <2>2, <2>3
<1>4. CASE UiStep /\ ~Unhook
  <2>1. \/ ui' = Idle
        \/ \E at \in {"store", "detachMedia", "detachPlayer", "unhook", "state", "told", "done"} : GoTo(at)
    BY <1>4 DEF UiStep, GetMediaLoad, GetMediaStore, DetachMedia, DetachPlayer, Join, SetState,
       SetMedia, TellStopped, Stopped, Destroy
  <2>2. ui'.at # "join"
    BY <1>1, <2>1 DEF GoTo, Ui, Idle
  <2> QED
    BY <2>2
<1>5. ASSUME NEW p \in Player, PreparserStep(p) PROVE JoinsDying'
  BY <1>5 DEF PreparserStep, TakeItem, Pass, Preparse, inputs
<1>6. ASSUME NEW p \in Player, InputStep(p) \/ InputState(p) \/ InputEvent(p) \/ InputParsed(p) \/ InputEnds(p)
      PROVE  JoinsDying'
  <2>1. ui' = ui /\ dying' = dying
    BY <1>6 DEF InputStep, InputState, InputEvent, InputParsed, InputEnds, InputLoad, InputStore,
       InputReturns
  <2>2. \E to \in {"run", "state", "release", "event", "ended"} : input' = [input EXCEPT ![p] = to]
    BY <1>6 DEF InputStep, InputState, InputEvent, InputParsed, InputEnds, InputLoad, InputStore,
       InputReturns, Goes
  <2> QED
    BY <1>1, <2>1, <2>2
<1>7. ASSUME NEW th \in Thread, Enter(th) \/ Leave(th) PROVE JoinsDying'
  BY <1>7 DEF Enter, Leave, inputs
<1>8. CASE UNCHANGED vars
  BY <1>8 DEF vars, inputs
<1> QED
  BY <1>2, <1>3, <1>4, <1>5, <1>6, <1>7, <1>8 DEF Next

LEMMA NobodyStuck == ASSUME IInv, JoinsDying PROVE CallGoesOn
<1> SUFFICES ASSUME ui # Idle, \A th \in Thread : ~CanSend(th), ~CanInput(ui.p) PROVE CanUi
  BY DEF CallGoesOn
<1>1. /\ ui \in Ui /\ ui.call # "idle" /\ ui.at # "idle" /\ ui.p \in Player
      /\ ui.at = "done" => ui.call # "source"
  BY DEF IInv, TypeOK, CallInv
\* Who holds a sending lock is in a callback, which ends: nobody holds one, and nobody sends.
<1>2. \A e : ~Locked(e)
  BY DEF Locked, CanSend
<1>3. \A th \in Thread : ~Sending(th)
  BY <1>2 DEF CanSend
<1>4. ~Sending(UI) /\ ~Sending(InputTh(ui.p))
  BY <1>1, <1>3, ThreadFacts
<1>5. input[ui.p] \in {"none", "run", "ended"}
  BY <1>1, <1>4 DEF CanInput, IInv, TypeOK
<1>6. ui.at = "join" => input[ui.p] = "ended"
  BY <1>4, <1>5 DEF CanInput, JoinsDying
<1>7. ui.at \in {"load", "store", "detachMedia", "detachPlayer", "unhook", "join", "state", "told", "done"}
  BY <1>1 DEF Ui
<1> QED
  BY <1>1, <1>2, <1>4, <1>5, <1>6, <1>7 DEF CanUi

\* The locks, the callbacks and the thread that nativeStop, nativeSetDataSource and
\* nativeRelease wait for never wait for each other in a circle: whenever the UI thread is in
\* a call, it can go on, or a sender can, or the input thread of the call's player.
THEOREM NoCallStuck == Spec => []CallGoesOn
<1>1. Init => JoinsDying
  BY DEF Init, JoinsDying, Idle
<1>2. IInv /\ JoinsDying /\ [Next]_vars => JoinsDying'
  BY NextJoinsDying
<1>3. IInv /\ JoinsDying => CallGoesOn
  BY NobodyStuck
<1> QED
  BY <1>1, <1>2, <1>3, Inductive, PTL DEF Spec

=============================================================================
