--------------------------- MODULE AudioScheduler ---------------------------
(***************************************************************************)
(* The reference sound of a lesson: audio_scheduler.js and the voices of    *)
(* audio.js, listening to the transport.  A timer looks a little ahead and  *)
(* gives each note coming up to Web Audio, which plays it on its own clock; *)
(* from then on only a panic can take it back.  Animation frames and the    *)
(* timer read the transport when they come round, at most MaxLate ticks     *)
(* apart; the player's commands come at any time.                           *)
(*                                                                         *)
(* enabled stands for the scheduler's flag together with a synth that is    *)
(* ready: the pages enable one with the other.  The limit of 16 voices,     *)
(* volume and the lesson's being replaced are left out.                     *)
(***************************************************************************)
EXTENDS Transport, FiniteSets

CONSTANTS Plan,       \* the playback plan: event id -> [onset, release]; its
                      \* total, the lesson's Duration, covers every release
          Lookahead,  \* lookaheadSeconds, in ticks
          Unit,       \* Web Audio time units in a tick: every rate divides it
          MaxLate,    \* bound: ticks between two readings of the transport
          MaxOps,     \* bound: commands of the player
          MaxReps     \* bound: passes of a loop

ASSUME AudioConstants ==
    /\ IsFiniteSet(DOMAIN Plan)
    /\ \A e \in DOMAIN Plan : /\ Plan[e].onset \in Nat
                              /\ Plan[e].release \in Plan[e].onset + 1 .. Duration
    /\ Lookahead \in Nat /\ MaxLate \in Nat /\ MaxOps \in Nat /\ MaxReps \in Nat
    /\ Unit \in Nat \ {0} /\ \A r \in Rate : Unit % r = 0

VARIABLES
    audio,   \* the scheduler, and the voices Web Audio has been given
    unread,  \* ticks since the transport was last read
    ops,     \* commands so far
    ideal,   \* history: the transport, were it read at every instant
    overtaken \* history: a seek or a change of loop came, since the last restart,
              \* before an end of the loop or lesson that was due was noticed

vars == <<transport, audio, unread, ops, ideal, overtaken>>

\* A voice starts and releases in so many units, and is the nth of its event
\* to sound at once; a stray one was scheduled by a transport that had stopped.
\* covered: for how many ticks the last look
\* ahead is still good.
NewAudio == [enabled |-> FALSE, scheduled |-> {}, voices |-> {}, covered |-> 0]

Ideal(t) == [position |-> Raw(t), reps |-> t.reps, playing |-> t.playing]

\* The transport that has just been read and found at i.
AsRead(i) ==
    [transport EXCEPT !.playing = i.playing, !.base = i.position,
                      !.elapsed = 0, !.reps = i.reps]

Init ==
    /\ \E r \in Rate : transport = NewTransport(r)
    /\ audio = NewAudio
    /\ unread = 0
    /\ ops = 0
    /\ ideal = Ideal(transport)
    /\ overtaken = FALSE

-----------------------------------------------------------------------------

\* panic: every voice stops, those that have not started included.
Panic(a) == [a EXCEPT !.scheduled = {}, !.voices = {}, !.covered = 0]

\* _onTransport, when reading t has published an event.
Heard(a, t) == IF Reading(t) = t THEN a ELSE Panic(a)

\* The part of an event after this position, in units from now.
Voice(a, e, t) ==
    LET from == IF Raw(t) > Plan[e].onset THEN Raw(t) ELSE Plan[e].onset
    IN [event   |-> e,
        start   |-> ((from - Raw(t)) * Unit) \div t.rate,
        release |-> ((Plan[e].release - Raw(t)) * Unit) \div t.rate,
        nth     |-> Cardinality({v \in a.voices : v.event = e}),
        stray   |-> ~t.playing]

\* Wrong on purpose: the look ahead is not scaled by the rate.
HorizonUnscaled(t) == Raw(t) + Lookahead

Horizon(t) == Raw(t) + Lookahead * t.rate

\* The rest of tick, from a position that has just been read: what is due and
\* not yet scheduled.  Whether the transport still plays is not asked again.
Schedule(a, t) ==
    LET due == {e \in DOMAIN Plan : /\ e \notin a.scheduled
                                    /\ Plan[e].release > Raw(t)
                                    /\ Plan[e].onset < Horizon(t)}
    IN [a EXCEPT !.scheduled = @ \cup due,
                 !.voices = @ \cup {Voice(a, e, t) : e \in due},
                 !.covered = IF t.playing THEN Lookahead ELSE 0]

\* tick
Tick(a, t) ==
    IF a.enabled /\ t.playing THEN Schedule(Heard(a, t), Reading(t)) ELSE a

-----------------------------------------------------------------------------
\* A command of the player has led to transport t.
Command(t) ==
    /\ ops < MaxOps
    /\ ops' = ops + 1
    /\ unread' = 0
    /\ transport' = t

\* The "play" event empties scheduled, without a panic, and ticks.
PressPlay ==
    LET t == Play(transport)
        heard == Heard(audio, Started(transport))
    IN /\ ~transport.playing
       /\ Command(t)
       /\ audio' = Tick([heard EXCEPT !.scheduled = {}], t)
       /\ ideal' = IF ideal.playing THEN ideal ELSE Ideal(Play(AsRead(ideal)))
       /\ UNCHANGED overtaken

PressPause ==
    /\ transport.playing
    /\ Command(Pause(transport))
    /\ audio' = Panic(audio)
    /\ ideal' = [ideal EXCEPT !.playing = FALSE]
    /\ UNCHANGED overtaken

PressRestart ==
    /\ Command(Restart(transport))
    /\ audio' = Panic(audio)
    /\ ideal' = Ideal(transport')
    /\ overtaken' = FALSE

\* Neither seek nor setLoop nor clearLoop asks for the position before it acts:
\* what was due and nobody has noticed is overtaken.
Overtake == overtaken' = (overtaken \/ Reading(transport) # transport)

MoveTo(position) ==
    /\ Command(Seek(transport, position))
    /\ audio' = Panic(audio)
    /\ ideal' = Ideal(Seek(AsRead(ideal), position))
    /\ Overtake

\* Wrong on purpose: voices keep the rate they were scheduled at.
ChooseRateKeepsVoices(r) ==
    /\ Command(SetRate(transport, r))
    /\ audio' = Heard(audio, transport)
    /\ UNCHANGED <<ideal, overtaken>>

ChooseRate(r) ==
    /\ Command(SetRate(transport, r))
    /\ audio' = Panic(audio)
    /\ UNCHANGED <<ideal, overtaken>>

ChooseLoop(l) ==
    /\ Command(SetLoop(transport, l))
    /\ audio' = Panic(audio)
    /\ ideal' = Ideal(SetLoop(AsRead(ideal), l))
    /\ Overtake

\* Sound on or off.
SetEnabled ==
    /\ ops < MaxOps
    /\ ops' = ops + 1
    /\ audio' = [(IF audio.enabled THEN Panic(audio) ELSE audio)
                    EXCEPT !.enabled = ~@]
    /\ UNCHANGED <<transport, unread, ideal, overtaken>>

\* An animation frame asks for the position.
Frame ==
    /\ transport' = Reading(transport)
    /\ audio' = Heard(audio, transport)
    /\ unread' = 0
    /\ UNCHANGED <<ops, ideal, overtaken>>

TimerTick ==
    /\ audio.enabled /\ transport.playing
    /\ audio' = Tick(audio, transport)
    /\ transport' = Reading(transport)
    /\ unread' = 0
    /\ UNCHANGED <<ops, ideal, overtaken>>

-----------------------------------------------------------------------------
\* One unit later, noticing the end of the loop or lesson at once.
Played(i) ==
    LET at == i.position + 1
        met == /\ transport.loop.target # None
               /\ i.reps + 1 >= transport.loop.target
    IN IF ~i.playing THEN i
       ELSE IF Looping(transport) /\ at = transport.loop.end
       THEN [position |-> IF met THEN at ELSE transport.loop.start,
             reps     |-> IF met THEN transport.loop.target ELSE i.reps + 1,
             playing  |-> ~met]
       ELSE [i EXCEPT !.position = at, !.playing = at < Duration]

\* The wall clock; Web Audio plays on whether or not anybody looks.
Advance ==
    /\ transport.playing \/ audio.voices # {}
    /\ unread < MaxLate
    /\ Reading(transport).reps < MaxReps
    /\ unread' = IF transport.playing THEN unread + 1 ELSE 0
    /\ transport' = [transport EXCEPT !.elapsed = IF transport.playing THEN @ + 1 ELSE @]
    /\ audio' = LET left == {[v EXCEPT !.start = IF @ > Unit THEN @ - Unit ELSE 0,
                                       !.release = @ - Unit] : v \in audio.voices}
                IN [audio EXCEPT !.voices = {v \in left : v.release > 0},
                                 !.covered = IF @ > 0 THEN @ - 1 ELSE 0]
    /\ ideal' = LET after[n \in 0 .. transport.rate] ==
                        IF n = 0 THEN ideal ELSE Played(after[n - 1])
                IN after[transport.rate]
    /\ UNCHANGED <<ops, overtaken>>

Next ==
    \/ PressPlay \/ PressPause \/ PressRestart \/ SetEnabled
    \/ \E position \in 0 .. Duration : MoveTo(position)
    \/ \E r \in Rate : ChooseRate(r)
    \/ \E l \in Loop \cup {None} : ChooseLoop(l)
    \/ Frame \/ TimerTick \/ Advance

\* Time goes on and frames keep coming; the player need not do anything.
Spec == Init /\ [][Next]_vars /\ WF_vars(Advance) /\ WF_vars(Frame)

-----------------------------------------------------------------------------
AudioTypeOK ==
    /\ TransportTypeOK
    /\ audio \in [enabled : BOOLEAN, scheduled : SUBSET DOMAIN Plan,
                  voices : SUBSET [event : audio.scheduled, start : Nat,
                                   release : Nat \ {0}, nth : Nat, stray : BOOLEAN],
                  covered : 0 .. Lookahead]
    /\ unread \in 0 .. MaxLate /\ ops \in 0 .. MaxOps
    /\ overtaken \in BOOLEAN

\* Whenever the transport is read, and however late, it is where a transport
\* read at every instant would be: position, passes counted and whether it
\* still plays (the anchors of transport.js never drift).  Not, until the next
\* restart, once a seek or a change of loop has overtaken the notice of an end.
ReadingsDoNotDrift ==
    LET t == Reading(transport)
    IN ~overtaken => /\ Raw(t) = ideal.position
                     /\ t.reps = ideal.reps
                     /\ t.playing = ideal.playing

\* What Web Audio has been given is what the transport is about to play: each
\* voice starts and releases when the transport gets to that place of the
\* lesson, whatever was sought, looped or slowed down meanwhile; and a
\* stopped transport is silent.  Stray are the voices a tick goes on to schedule
\* after its own reading has completed the lesson; the panic comes before them.
SoundFollowsTransport ==
    /\ AudioTypeOK
    /\ \A v \in audio.voices :
          \/ v.stray
          \/ /\ audio.enabled /\ transport.playing
             /\ Raw(transport) * Unit + v.release * transport.rate
                    = Plan[v.event].release * Unit
             /\ v.start > 0 => Raw(transport) * Unit + v.start * transport.rate
                                   = Plan[v.event].onset * Unit

\* As long as ticks are no further apart than the look ahead, every note of
\* the place the transport has reached has been given to Web Audio in time,
\* and no note sounds twice at once.
EachNoteOnce ==
    /\ transport.playing /\ audio.covered > 0 =>
          \A e \in DOMAIN Plan :
             Plan[e].onset <= Raw(transport) /\ Raw(transport) < Plan[e].release =>
                \E v \in audio.voices : v.event = e /\ v.start = 0
    /\ \A v, w \in audio.voices : v.event = w.event /\ ~v.stray /\ ~w.stray => v = w

\* Left alone, a lesson that plays ends, unless it loops without a target.
EndsOrLoops ==
    <>[](transport.playing => Looping(transport) /\ transport.loop.target = None)

=============================================================================
