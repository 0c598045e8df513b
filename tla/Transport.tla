------------------------------ MODULE Transport ------------------------------
(***************************************************************************)
(* The browser's one musical transport (transport.js).  It keeps a base     *)
(* position and the wall-clock instant at which it was taken, and works     *)
(* the position out when it is asked for; only then does it notice that     *)
(* the loop or the lesson has ended.                                        *)
(*                                                                         *)
(* Every command is an operator from transport to transport; a composing    *)
(* module decides when they run and who listens.  Each command publishes    *)
(* an event whose snapshot asks for the position, so that it ends in a      *)
(* reading.  Positions count units of the lesson, the wall clock counts     *)
(* ticks, and a rate is the number of units in a tick.                      *)
(***************************************************************************)
EXTENDS Integers

CONSTANTS Duration,   \* durationSeconds of the lesson loaded
          Rate,       \* VALID_RATES
          Loop,       \* the loops that may be set
          None

ASSUME TransportConstants ==
    /\ Duration \in Nat \ {0}
    /\ Rate \subseteq Nat \ {0}
    /\ \A l \in Loop : /\ l.start \in Nat /\ l.end \in l.start + 1 .. Duration
                       /\ l.enabled \in BOOLEAN
                       /\ l.target = None \/ l.target \in Nat \ {0}

VARIABLE transport

\* elapsed is the time since anchorWallMs; 0 also when there is no anchor.
NewTransport(r) ==
    [playing |-> FALSE, base |-> 0, elapsed |-> 0, rate |-> r,
     loop |-> None, reps |-> 0]

Looping(t) == t.loop # None /\ t.loop.enabled

\* rawPosition
Raw(t) == t.base + t.elapsed * t.rate

Stopped(t, position) ==
    [t EXCEPT !.playing = FALSE, !.base = position, !.elapsed = 0]

\* Wrong on purpose: a target is only noticed when it is met exactly.
WrapLoopMissesTarget(t) ==
    LET length == t.loop.end - t.loop.start
        beyond == Raw(t) - t.loop.end
        next   == t.reps + (beyond \div length) + 1
    IN IF next = t.loop.target
       THEN [Stopped(t, t.loop.end) EXCEPT !.reps = t.loop.target]
       ELSE [t EXCEPT !.reps = next, !.elapsed = 0,
                      !.base = t.loop.start + (beyond % length)]

\* Wrong on purpose: what was played beyond the end is dropped.
WrapLoopDrifts(t) ==
    LET next == t.reps + ((Raw(t) - t.loop.end) \div (t.loop.end - t.loop.start)) + 1
    IN IF t.loop.target # None /\ next >= t.loop.target
       THEN [Stopped(t, t.loop.end) EXCEPT !.reps = t.loop.target]
       ELSE [t EXCEPT !.reps = next, !.base = t.loop.start, !.elapsed = 0]

\* _wrapLoop: several passes may have gone by since the last reading.
WrapLoop(t) ==
    LET length == t.loop.end - t.loop.start
        beyond == Raw(t) - t.loop.end
        next   == t.reps + (beyond \div length) + 1
    IN IF t.loop.target # None /\ next >= t.loop.target
       THEN [Stopped(t, t.loop.end) EXCEPT !.reps = t.loop.target]
       ELSE [t EXCEPT !.reps = next, !.elapsed = 0,
                      !.base = t.loop.start + (beyond % length)]

\* What positionSeconds() leaves behind.  It is another transport only when
\* "loop-wrap", "loop-complete" or "complete" was published.
Reading(t) ==
    IF ~t.playing THEN t
    ELSE IF Looping(t) /\ Raw(t) >= t.loop.end THEN WrapLoop(t)
    ELSE IF Raw(t) >= Duration THEN Stopped(t, Duration)
    ELSE t

-----------------------------------------------------------------------------
\* play, up to the event it publishes.
Started(t) ==
    [t EXCEPT !.playing = TRUE, !.elapsed = 0,
              !.base = IF @ < Duration THEN @
                       ELSE IF Looping(t) THEN t.loop.start ELSE 0]

Play(t) == Reading(Started(t))

Pause(t) == LET u == Reading(t) IN Stopped(u, Raw(u))

Restart(t) == [Stopped(t, 0) EXCEPT !.reps = 0]

Seek(t, position) == Reading([t EXCEPT !.base = position, !.elapsed = 0])

SetRate(t, r) ==
    LET u == Reading(t)
    IN Reading([u EXCEPT !.rate = r, !.base = Raw(u), !.elapsed = 0])

\* setLoop with a valid range, or clearLoop.
SetLoop(t, l) == Reading([t EXCEPT !.loop = l, !.reps = 0])

TransportTypeOK ==
    /\ transport \in [playing : BOOLEAN, base : 0 .. Duration, elapsed : Nat,
                      rate : Rate, loop : Loop \cup {None}, reps : Nat]
    /\ ~transport.playing => transport.elapsed = 0
=============================================================================
