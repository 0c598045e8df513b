------------------------ MODULE AudioSchedulerProofs ------------------------
(***************************************************************************)
(* Proofs about the reference sound and the transport it listens to: for    *)
(* every plan, rate, loop and lateness, the position a late reading comes   *)
(* to is the one an ideal transport would have, what Web Audio was given    *)
(* starts and stops with the lesson, and every note is given to it once.    *)
(***************************************************************************)
EXTENDS AudioScheduler, FiniteSetTheorems, WellFoundedInduction, TLAPS

(* Arithmetic *)

LEMMA Division ==
  ASSUME NEW a \in Nat, NEW b \in Nat \ {0}
  PROVE  /\ a \div b \in Nat /\ a % b \in 0 .. b - 1
         /\ a = b * (a \div b) + (a % b)
  OBVIOUS

\* A quotient and a remainder are the only ones.
LEMMA DivisionIsUnique ==
  ASSUME NEW q \in Nat, NEW b \in Nat \ {0}, NEW m \in 0 .. b - 1
  PROVE  (b * q + m) \div b = q /\ (b * q + m) % b = m
  OBVIOUS

LEMMA OneMore ==
  ASSUME NEW a \in Nat, NEW b \in Nat \ {0}
  PROVE  IF (a % b) + 1 = b
         THEN (a + 1) \div b = (a \div b) + 1 /\ (a + 1) % b = 0
         ELSE (a + 1) \div b = a \div b /\ (a + 1) % b = (a % b) + 1
  <1> DEFINE q == a \div b
             m == a % b
  <1>1. q \in Nat /\ m \in 0 .. b - 1 /\ a = b * q + m
    BY Division
  <1>2. CASE m + 1 = b
    <2>1. a + 1 = b * (q + 1) + 0
      BY <1>1, <1>2
    <2> HIDE DEF q, m
    <2>2. (a + 1) \div b = q + 1 /\ (a + 1) % b = 0
      BY <1>1, <2>1, DivisionIsUnique
    <2> QED BY <1>2, <2>2 DEF q, m
  <1>3. CASE m + 1 # b
    <2>1. a + 1 = b * q + (m + 1) /\ m + 1 \in 0 .. b - 1
      BY <1>1, <1>3
    <2> HIDE DEF q, m
    <2>2. (a + 1) \div b = q /\ (a + 1) % b = m + 1
      BY <1>1, <2>1, DivisionIsUnique
    <2> QED BY <1>3, <2>2 DEF q, m
  <1> QED BY <1>2, <1>3

\* A rate divides Unit, so a time that is worked out from it is exact.
LEMMA ExactTime ==
  ASSUME NEW n \in Nat, NEW r \in Nat \ {0}, NEW u \in Nat \ {0}, u % r = 0
  PROVE  /\ (n * u) \div r \in Nat
         /\ ((n * u) \div r) * r = n * u
         /\ n > 0 => (n * u) \div r > 0
  <1> DEFINE q == u \div r
  <1>1. q \in Nat /\ u = r * q
    BY Division
  <1>2. n * u = r * (n * q) /\ n * q \in Nat
    BY <1>1
  <1>3. (n * u) \div r = n * q
    BY <1>2
  <1>4. n > 0 => n * q > 0
    BY <1>1
  <1> QED BY <1>2, <1>3, <1>4

-----------------------------------------------------------------------------
(* The transport *)

Transports ==
    [playing : BOOLEAN, base : 0 .. Duration, elapsed : Nat,
     rate : Rate, loop : Loop \cup {None}, reps : Nat]

Lawful(t) == t \in Transports /\ (~t.playing => t.elapsed = 0)

\* A transport at rest, or before the end of its loop and of the lesson.
Settled(t) ==
    t.playing => Raw(t) < Duration /\ (Looping(t) => Raw(t) < t.loop.end)

\* A reading has ended the last pass of a loop.
Finished(t) ==
    /\ ~t.playing /\ Looping(t) /\ Raw(t) = t.loop.end
    /\ t.loop.target # None /\ t.reps = t.loop.target

LEMMA Typed ==
  ASSUME NEW t, Lawful(t)
  PROVE  /\ t.playing \in BOOLEAN /\ t.base \in 0 .. Duration /\ t.elapsed \in Nat
         /\ t.rate \in Rate /\ t.rate \in Nat \ {0} /\ t.reps \in Nat
         /\ Duration \in Nat \ {0} /\ t.base \in Nat
  <1>1. /\ t.playing \in BOOLEAN /\ t.base \in 0 .. Duration /\ t.elapsed \in Nat
        /\ t.rate \in Rate /\ t.reps \in Nat
    BY DEF Lawful, Transports
  <1>2. Duration \in Nat \ {0} /\ Rate \subseteq Nat \ {0}
    BY TransportConstants
  <1>3. t.rate \in Nat \ {0}
    BY <1>1, <1>2, Zenon
  <1>4. t.base \in Nat
    BY <1>1, <1>2
  <1> QED BY <1>1, <1>2, <1>3, <1>4, Zenon

LEMMA RawIsNat ==
  ASSUME NEW t, Lawful(t)
  PROVE  Raw(t) \in Nat /\ (~t.playing => Raw(t) = t.base)
  <1>1. t.elapsed \in Nat /\ t.rate \in Nat \ {0} /\ t.base \in Nat
    BY Typed
  <1>2. t.elapsed * t.rate \in Nat
    BY <1>1
  <1>3. ~t.playing => t.elapsed * t.rate = 0
    BY <1>1 DEF Lawful
  <1> QED BY <1>1, <1>2, <1>3 DEF Raw

LEMMA LoopIsLawful ==
  ASSUME NEW t, Lawful(t), Looping(t)
  PROVE  /\ t.loop \in Loop /\ t.loop.start \in Nat
         /\ t.loop.end \in t.loop.start + 1 .. Duration
         /\ t.loop.target = None \/ t.loop.target \in Nat \ {0}
  BY TransportConstants DEF Lawful, Transports, Looping

LEMMA StoppedIsLawful ==
  ASSUME NEW t, Lawful(t), NEW p \in 0 .. Duration
  PROVE  /\ Lawful(Stopped(t, p)) /\ ~Stopped(t, p).playing
         /\ Raw(Stopped(t, p)) = p /\ Stopped(t, p).loop = t.loop
         /\ Stopped(t, p).reps = t.reps /\ Stopped(t, p).rate = t.rate
  <1>1. Lawful(Stopped(t, p)) /\ ~Stopped(t, p).playing /\ Stopped(t, p).base = p
        /\ Stopped(t, p).loop = t.loop /\ Stopped(t, p).reps = t.reps
        /\ Stopped(t, p).rate = t.rate
    BY DEF Lawful, Transports, Stopped
  <1> QED BY <1>1, RawIsNat

\* What a reading finds at the end of a loop, whichever way it goes on.
LEMMA WrapIsLawful ==
  ASSUME NEW t, Lawful(t), Looping(t), Raw(t) >= t.loop.end
  PROVE  LET u == WrapLoop(t)
             length == t.loop.end - t.loop.start
             beyond == Raw(t) - t.loop.end
             next == t.reps + (beyond \div length) + 1
         IN /\ Lawful(u) /\ u.loop = t.loop /\ u.rate = t.rate /\ next \in Nat
            /\ IF t.loop.target # None /\ next >= t.loop.target
               THEN Finished(u) /\ u.reps = t.loop.target
               ELSE /\ u.playing = t.playing /\ u.reps = next /\ u.elapsed = 0
                    /\ Raw(u) = t.loop.start + (beyond % length)
                    /\ Raw(u) < t.loop.end /\ Raw(u) < Duration
  <1> DEFINE length == t.loop.end - t.loop.start
             beyond == Raw(t) - t.loop.end
             next == t.reps + (beyond \div length) + 1
             base == t.loop.start + (beyond % length)
  <1>1. length \in Nat \ {0} /\ beyond \in Nat
    BY LoopIsLawful, RawIsNat
  <1>2. beyond \div length \in Nat /\ beyond % length \in 0 .. length - 1
    BY <1>1, Division
  <1>3. t.reps \in Nat
    BY DEF Lawful, Transports
  <1>4. next \in Nat
    BY <1>2, <1>3
  <1>5. base \in 0 .. Duration /\ base < t.loop.end /\ base < Duration
    BY <1>1, <1>2, LoopIsLawful, TransportConstants
  <1>6. WrapLoop(t) = IF t.loop.target # None /\ next >= t.loop.target
                      THEN [Stopped(t, t.loop.end) EXCEPT !.reps = t.loop.target]
                      ELSE [t EXCEPT !.reps = next, !.elapsed = 0, !.base = base]
    BY Zenon DEF WrapLoop
  <1> HIDE DEF length, beyond, next, base
  <1>7. CASE t.loop.target # None /\ next >= t.loop.target
    <2> DEFINE s == Stopped(t, t.loop.end)
    <2>1. /\ Lawful(s) /\ ~s.playing /\ Raw(s) = t.loop.end /\ s.loop = t.loop
          /\ s.rate = t.rate
      <3>1. t.loop.end \in 0 .. Duration
        BY LoopIsLawful, Typed
      <3> QED BY <3>1, StoppedIsLawful, Zenon
    <2> HIDE DEF s
    <2>2. WrapLoop(t) = [s EXCEPT !.reps = t.loop.target]
      BY <1>6, <1>7 DEF s
    <2>3. t.loop.target \in Nat
      BY <1>7, LoopIsLawful
    <2>4. Lawful(WrapLoop(t)) /\ Finished(WrapLoop(t))
      BY <2>1, <2>2, <2>3, <1>7 DEF Lawful, Transports, Finished, Looping, Raw
    <2> QED BY <1>4, <1>7, <2>1, <2>2, <2>3, <2>4
            DEF Lawful, Transports, next, length, beyond
  <1>8. CASE ~(t.loop.target # None /\ next >= t.loop.target)
    <2>1. WrapLoop(t) = [t EXCEPT !.reps = next, !.elapsed = 0, !.base = base]
      BY <1>6, <1>8
    <2>2. Lawful(WrapLoop(t)) /\ WrapLoop(t).base = base /\ WrapLoop(t).elapsed = 0
          /\ WrapLoop(t).reps = next /\ WrapLoop(t).playing = t.playing
          /\ WrapLoop(t).loop = t.loop /\ WrapLoop(t).rate = t.rate
      <3>1. WrapLoop(t) \in Transports
        <4>1. base \in 0 .. Duration /\ next \in Nat /\ t \in Transports
          BY <1>4, <1>5 DEF Lawful
        <4>2. \A n \in Nat, b \in 0 .. Duration :
                 [t EXCEPT !.reps = n, !.elapsed = 0, !.base = b] \in Transports
          BY <4>1 DEF Transports
        <4> QED BY <2>1, <4>1, <4>2
      <3>2. /\ WrapLoop(t).base = base /\ WrapLoop(t).elapsed = 0
            /\ WrapLoop(t).reps = next /\ WrapLoop(t).playing = t.playing
            /\ WrapLoop(t).loop = t.loop /\ WrapLoop(t).rate = t.rate
        BY <2>1 DEF Lawful, Transports
      <3> QED BY <3>1, <3>2 DEF Lawful
    <2>3. Raw(WrapLoop(t)) = base
      BY <2>2, <1>5, Typed DEF Raw
    <2> QED BY <1>4, <1>5, <1>8, <2>2, <2>3 DEF base, next, length, beyond
  <1> QED BY <1>7, <1>8

LEMMA SettledIsRead ==
  ASSUME NEW t, Lawful(t), Settled(t)
  PROVE  Reading(t) = t
  <1>1. CASE ~t.playing
    BY <1>1 DEF Reading
  <1>2. CASE t.playing
    <2>1. Raw(t) \in Nat /\ Duration \in Nat /\ Raw(t) < Duration
      BY <1>2, RawIsNat, Typed DEF Settled
    <2>2. ~(Raw(t) >= Duration)
      BY <2>1
    <2>3. Looping(t) => ~(Raw(t) >= t.loop.end)
      <3>1. SUFFICES ASSUME Looping(t) PROVE ~(Raw(t) >= t.loop.end)
        OBVIOUS
      <3>2. t.loop.end \in Nat
        BY <3>1, LoopIsLawful
      <3> QED BY <1>2, <2>1, <3>1, <3>2 DEF Settled
    <2> QED BY <2>2, <2>3 DEF Reading
  <1> QED BY <1>1, <1>2

LEMMA ReadingIsLawful ==
  ASSUME NEW t, Lawful(t)
  PROVE  LET u == Reading(t)
         IN /\ Lawful(u) /\ Settled(u) /\ Reading(u) = u
            /\ u.loop = t.loop /\ u.rate = t.rate
            /\ ~t.playing => u = t
            /\ t.playing /\ ~u.playing => Finished(u) \/ Raw(u) = Duration
  <1> DEFINE u == Reading(t)
  <1>1. ASSUME Lawful(u), Settled(u)
        PROVE  Reading(u) = u
    BY <1>1, SettledIsRead
  <1>2. CASE ~t.playing
    <2>1. u = t
      BY <1>2 DEF Reading
    <2> QED BY <1>1, <1>2, <2>1 DEF Settled
  <1>3. CASE t.playing /\ Looping(t) /\ Raw(t) >= t.loop.end
    <2>1. u = WrapLoop(t)
      BY <1>3 DEF Reading
    <2> HIDE DEF u
    <2>2. Lawful(u) /\ u.loop = t.loop /\ u.rate = t.rate
      BY <1>3, <2>1, WrapIsLawful
    <2>3. Finished(u) \/ (Raw(u) < t.loop.end /\ Raw(u) < Duration)
      BY <1>3, <2>1, WrapIsLawful
    <2>4. Settled(u)
      BY <2>2, <2>3 DEF Settled, Finished
    <2>5. ~u.playing => Finished(u)
      BY <1>3, <2>1, WrapIsLawful
    <2> QED BY <1>1, <1>3, <2>2, <2>4, <2>5 DEF u
  <1>4. CASE t.playing /\ ~(Looping(t) /\ Raw(t) >= t.loop.end) /\ Raw(t) >= Duration
    <2>1. u = Stopped(t, Duration) /\ Duration \in 0 .. Duration
      BY <1>4, Typed DEF Reading
    <2> HIDE DEF u
    <2>2. Lawful(u) /\ ~u.playing /\ Raw(u) = Duration /\ u.loop = t.loop /\ u.rate = t.rate
      BY <2>1, StoppedIsLawful
    <2> QED BY <1>1, <1>4, <2>2 DEF Settled, u
  <1>5. CASE t.playing /\ ~(Looping(t) /\ Raw(t) >= t.loop.end) /\ ~(Raw(t) >= Duration)
    <2>1. u = t
      BY <1>5 DEF Reading
    <2>2. Raw(t) \in Nat /\ Duration \in Nat
      BY RawIsNat, Typed
    <2>3. Looping(t) => t.loop.end \in Nat
      BY LoopIsLawful
    <2>4. Settled(t)
      BY <1>5, <2>2, <2>3 DEF Settled
    <2> QED BY <1>1, <1>5, <2>1, <2>4
  <1> QED BY <1>2, <1>3, <1>4, <1>5

\* Each command leads from a lawful transport to one that has just been read.
Commanded(u) == Lawful(u) /\ Settled(u)

LEMMA MovedIsLawful ==
  ASSUME NEW t, Lawful(t), NEW p \in 0 .. Duration
  PROVE  LET u == [t EXCEPT !.base = p, !.elapsed = 0]
         IN Lawful(u) /\ Raw(u) = p /\ u.playing = t.playing /\ u.loop = t.loop
            /\ u.reps = t.reps /\ u.rate = t.rate
  <1> DEFINE u == [t EXCEPT !.base = p, !.elapsed = 0]
  <1>1. u \in Transports
    BY DEF Lawful, Transports
  <1>2. u.base = p /\ u.elapsed = 0 /\ u.playing = t.playing /\ u.loop = t.loop
        /\ u.reps = t.reps /\ u.rate = t.rate
    BY DEF Lawful, Transports
  <1> HIDE DEF u
  <1>3. Lawful(u)
    BY <1>1, <1>2 DEF Lawful
  <1>4. Raw(u) = p
    BY <1>2, <1>3, Typed DEF Raw
  <1> QED BY <1>2, <1>3, <1>4 DEF u

LEMMA StartedIsLawful ==
  ASSUME NEW t, Lawful(t)
  PROVE  /\ Lawful(Started(t)) /\ Started(t).playing
         /\ Started(t).loop = t.loop /\ Started(t).reps = t.reps /\ Started(t).rate = t.rate
         /\ Started(t).base < Duration /\ Raw(Started(t)) = Started(t).base
         /\ t.base < Duration => Started(t).base = t.base
  <1> DEFINE p == IF t.base < Duration THEN t.base
                  ELSE IF Looping(t) THEN t.loop.start ELSE 0
  <1>1. p \in 0 .. Duration /\ p < Duration
    BY LoopIsLawful, Typed
  <1>2. Started(t) = [t EXCEPT !.playing = TRUE, !.elapsed = 0, !.base = p]
    BY DEF Started, Lawful, Transports
  <1>3. t.base < Duration => p = t.base
    OBVIOUS
  <1> HIDE DEF p
  <1>4. Started(t) \in Transports
    <2>1. \A q \in 0 .. Duration :
             [t EXCEPT !.playing = TRUE, !.elapsed = 0, !.base = q] \in Transports
      BY DEF Lawful, Transports
    <2> QED BY <1>1, <1>2, <2>1
  <1>5. Started(t).base = p /\ Started(t).elapsed = 0 /\ Started(t).playing
        /\ Started(t).loop = t.loop /\ Started(t).reps = t.reps /\ Started(t).rate = t.rate
    BY <1>2 DEF Lawful, Transports
  <1> HIDE DEF Started
  <1>6. Lawful(Started(t))
    BY <1>4, <1>5 DEF Lawful
  <1>7. Raw(Started(t)) = p
    BY <1>5, <1>6, Typed, <1>1 DEF Raw
  <1> QED BY <1>1, <1>3, <1>5, <1>6, <1>7

LEMMA ReadIsInside ==
  ASSUME NEW t, Lawful(t)
  PROVE  Raw(Reading(t)) \in 0 .. Duration
  <1> DEFINE u == Reading(t)
  <1>1. Lawful(u) /\ Settled(u)
    BY ReadingIsLawful
  <1> HIDE DEF u
  <1>2. Raw(u) \in Nat /\ u.base \in 0 .. Duration /\ Duration \in Nat
    BY <1>1, RawIsNat, Typed
  <1>3. CASE u.playing
    BY <1>1, <1>2, <1>3 DEF Settled, u
  <1>4. CASE ~u.playing
    BY <1>1, <1>2, <1>4, RawIsNat DEF u
  <1> QED BY <1>3, <1>4

\* play, pause, restart, seek, setRate, setLoop and clearLoop
LEMMA CommandsAreLawful ==
  ASSUME NEW t, Lawful(t)
  PROVE  /\ Commanded(Play(t)) /\ Commanded(Pause(t)) /\ ~Pause(t).playing
         /\ Commanded(Restart(t)) /\ ~Restart(t).playing
         /\ \A p \in 0 .. Duration : Commanded(Seek(t, p))
         /\ \A r \in Rate : Commanded(SetRate(t, r))
         /\ \A l \in Loop \cup {None} : Commanded(SetLoop(t, l))
  <1>1. \A u : Lawful(u) => Commanded(Reading(u))
    BY ReadingIsLawful DEF Commanded
  <1>2. Commanded(Play(t))
    BY <1>1, StartedIsLawful DEF Play
  <1>3. Commanded(Pause(t)) /\ ~Pause(t).playing
    <2>1. Pause(t) = Stopped(Reading(t), Raw(Reading(t)))
      BY DEF Pause
    <2>2. Lawful(Reading(t)) /\ Raw(Reading(t)) \in 0 .. Duration
      BY ReadingIsLawful, ReadIsInside
    <2> QED BY <2>1, <2>2, StoppedIsLawful DEF Commanded, Settled
  <1>4. Commanded(Restart(t)) /\ ~Restart(t).playing
    <2> DEFINE s == Stopped(t, 0)
    <2>1. Lawful(s) /\ ~s.playing
      BY StoppedIsLawful, Typed
    <2>2. Restart(t) = [s EXCEPT !.reps = 0]
      BY DEF Restart
    <2> HIDE DEF s
    <2>3. Lawful(Restart(t)) /\ ~Restart(t).playing
      BY <2>1, <2>2 DEF Lawful, Transports
    <2> QED BY <2>3 DEF Commanded, Settled
  <1>5. ASSUME NEW p \in 0 .. Duration
        PROVE  Commanded(Seek(t, p))
    BY <1>1, MovedIsLawful DEF Seek
  <1>6. ASSUME NEW r \in Rate
        PROVE  Commanded(SetRate(t, r))
    <2> DEFINE u == Reading(t)
               p == Raw(u)
               w == [u EXCEPT !.rate = r, !.base = p, !.elapsed = 0]
    <2>1. Lawful(u) /\ p \in 0 .. Duration
      BY ReadingIsLawful, ReadIsInside
    <2>2. SetRate(t, r) = Reading(w)
      BY DEF SetRate
    <2> HIDE DEF u, p
    <2>3. w \in Transports /\ w.elapsed = 0
      BY <2>1 DEF Lawful, Transports
    <2>4. Lawful(w)
      BY <2>3 DEF Lawful
    <2> QED BY <1>1, <2>2, <2>4
  <1>7. ASSUME NEW l \in Loop \cup {None}
        PROVE  Commanded(SetLoop(t, l))
    <2>1. Lawful([t EXCEPT !.loop = l, !.reps = 0])
      BY DEF Lawful, Transports
    <2> QED BY <1>1, <2>1 DEF SetLoop
  <1> QED BY <1>2, <1>3, <1>4, <1>5, <1>6, <1>7

-----------------------------------------------------------------------------
(* A late reading and an ideal one *)

\* Where a transport read at every instant is, when t would be at place x.
Reached(t, x) ==
    LET length == t.loop.end - t.loop.start
        next   == t.reps + ((x - t.loop.end) \div length) + 1
        met    == t.loop.target # None /\ next >= t.loop.target
    IN IF Looping(t) /\ x >= t.loop.end
       THEN IF met THEN [position |-> t.loop.end, reps |-> t.loop.target, playing |-> FALSE]
            ELSE [position |-> t.loop.start + ((x - t.loop.end) % length),
                  reps |-> next, playing |-> TRUE]
       ELSE IF x >= Duration
            THEN [position |-> Duration, reps |-> t.reps, playing |-> FALSE]
            ELSE [position |-> x, reps |-> t.reps, playing |-> TRUE]

LEMMA IdealOf ==
  ASSUME NEW u, Lawful(u)
  PROVE  IF u.playing THEN Ideal(u) = [position |-> Raw(u), reps |-> u.reps, playing |-> TRUE]
         ELSE Ideal(u) = [position |-> Raw(u), reps |-> u.reps, playing |-> FALSE]
  <1>1. u.playing = TRUE \/ u.playing = FALSE
    BY Typed
  <1> QED BY <1>1, Zenon DEF Ideal

LEMMA ReadingReaches ==
  ASSUME NEW t, Lawful(t), t.playing
  PROVE  Ideal(Reading(t)) = Reached(t, Raw(t))
  <1> DEFINE u == Reading(t)
  <1>0. Lawful(u)
    BY ReadingIsLawful
  <1>1. CASE Looping(t) /\ Raw(t) >= t.loop.end
    <2>1. u = WrapLoop(t)
      BY <1>1 DEF Reading
    <2> DEFINE length == t.loop.end - t.loop.start
               beyond == Raw(t) - t.loop.end
               next == t.reps + (beyond \div length) + 1
               met == t.loop.target # None /\ next >= t.loop.target
    <2> HIDE DEF u
    <2>2. IF met THEN Finished(u) /\ u.reps = t.loop.target /\ u.loop = t.loop
          ELSE /\ u.playing /\ u.reps = next
               /\ Raw(u) = t.loop.start + (beyond % length)
      BY <1>1, <2>1, WrapIsLawful
    <2>3. Reached(t, Raw(t)) =
            IF met THEN [position |-> t.loop.end, reps |-> t.loop.target, playing |-> FALSE]
            ELSE [position |-> t.loop.start + (beyond % length), reps |-> next,
                  playing |-> TRUE]
      BY <1>1, Zenon DEF Reached
    <2> HIDE DEF met, next, length, beyond
    <2>4. CASE met
      <3>1. ~u.playing /\ Raw(u) = t.loop.end /\ u.reps = t.loop.target
        BY <2>2, <2>4 DEF Finished
      <3> QED BY <1>0, <2>3, <2>4, <3>1, IdealOf, Zenon DEF u
    <2>5. CASE ~met
      BY <1>0, <2>2, <2>3, <2>5, IdealOf, Zenon DEF u
    <2> QED BY <2>4, <2>5
  <1>2. CASE ~(Looping(t) /\ Raw(t) >= t.loop.end) /\ Raw(t) >= Duration
    <2>1. u = Stopped(t, Duration) /\ Duration \in 0 .. Duration
      BY <1>2, Typed DEF Reading
    <2> HIDE DEF u
    <2>2. ~u.playing /\ Raw(u) = Duration /\ u.reps = t.reps
      BY <2>1, StoppedIsLawful
    <2>3. Reached(t, Raw(t)) = [position |-> Duration, reps |-> t.reps, playing |-> FALSE]
      BY <1>2, Zenon DEF Reached
    <2> QED BY <1>0, <2>2, <2>3, IdealOf, Zenon DEF u
  <1>3. CASE ~(Looping(t) /\ Raw(t) >= t.loop.end) /\ ~(Raw(t) >= Duration)
    <2>1. u = t
      BY <1>3, Zenon DEF Reading
    <2>2. Reached(t, Raw(t)) = [position |-> Raw(t), reps |-> t.reps, playing |-> TRUE]
      BY <1>3, Zenon DEF Reached
    <2> QED BY <2>1, <2>2, IdealOf, Zenon
  <1> QED BY <1>1, <1>2, <1>3

At(p, n, on) == [position |-> p, reps |-> n, playing |-> on]

LEMMA PlayedOn ==
  ASSUME NEW p, NEW n
  PROVE  LET i   == At(p, n, TRUE)
             met == /\ transport.loop.target # None
                    /\ n + 1 >= transport.loop.target
         IN /\ Looping(transport) /\ p + 1 = transport.loop.end =>
                  /\ met => Played(i) = At(p + 1, transport.loop.target, FALSE)
                  /\ ~met => Played(i) = At(transport.loop.start, n + 1, TRUE)
            /\ ~(Looping(transport) /\ p + 1 = transport.loop.end) =>
                  /\ p + 1 < Duration => Played(i) = At(p + 1, n, TRUE)
                  /\ ~(p + 1 < Duration) => Played(i) = At(p + 1, n, FALSE)
  <1> DEFINE i == At(p, n, TRUE)
             met == /\ transport.loop.target # None
                    /\ n + 1 >= transport.loop.target
  <1>1. i.position = p /\ i.reps = n /\ i.playing
    BY DEF At
  <1>2. CASE Looping(transport) /\ p + 1 = transport.loop.end
    <2>1. Played(i) = [position |-> IF met THEN p + 1 ELSE transport.loop.start,
                       reps |-> IF met THEN transport.loop.target ELSE n + 1,
                       playing |-> ~met]
      BY <1>1, <1>2, Zenon DEF Played
    <2> HIDE DEF met
    <2>2. met \in BOOLEAN
      BY DEF met
    <2>3. CASE met = TRUE
      BY <1>2, <2>1, <2>3, Zenon DEF At, met
    <2>4. CASE met = FALSE
      BY <1>2, <2>1, <2>4, Zenon DEF At, met
    <2> QED BY <2>2, <2>3, <2>4
  <1>3. CASE ~(Looping(transport) /\ p + 1 = transport.loop.end)
    <2>1. Played(i) = [i EXCEPT !.position = p + 1, !.playing = p + 1 < Duration]
      BY <1>1, <1>3, Zenon DEF Played
    <2>2. (p + 1 < Duration) = TRUE \/ (p + 1 < Duration) = FALSE
      OBVIOUS
    <2> DEFINE on == p + 1 < Duration
    <2> HIDE DEF on
    <2>3. Played(i) = At(p + 1, n, on)
      BY <2>1 DEF At, on
    <2> QED BY <1>3, <2>2, <2>3, Zenon DEF on
  <1> QED BY <1>2, <1>3

\* One unit later the ideal transport is where a reading would be.
LEMMA ReachedNext ==
  ASSUME Lawful(transport), NEW x \in Nat
  PROVE  Played(Reached(transport, x)) = Reached(transport, x + 1)
  <1> DEFINE t == transport
             length == t.loop.end - t.loop.start
             q == (x - t.loop.end) \div length
             m == (x - t.loop.end) % length
             target == t.loop.target
  <1>0. t.reps \in Nat /\ Duration \in Nat
    BY Typed
  <1>1. CASE Looping(t) /\ x >= t.loop.end
    <2>1. /\ t.loop.start \in Nat /\ t.loop.end \in Nat /\ length \in Nat \ {0}
          /\ t.loop.end <= Duration /\ x - t.loop.end \in Nat
          /\ target = None \/ target \in Nat
      BY <1>1, LoopIsLawful
    <2>2. q \in Nat /\ m \in 0 .. length - 1
      BY <2>1, Division
    <2> DEFINE next == t.reps + q + 1
    <2>3. Reached(t, x) = IF target # None /\ next >= target
                          THEN At(t.loop.end, target, FALSE)
                          ELSE At(t.loop.start + m, next, TRUE)
      BY <1>1, Zenon DEF Reached, At
    <2> DEFINE q1 == ((x + 1) - t.loop.end) \div length
               m1 == ((x + 1) - t.loop.end) % length
    <2>4. Reached(t, x + 1) = IF target # None /\ t.reps + q1 + 1 >= target
                              THEN At(t.loop.end, target, FALSE)
                              ELSE At(t.loop.start + m1, t.reps + q1 + 1, TRUE)
      <3>1. x + 1 >= t.loop.end
        BY <1>1, <2>1
      <3> QED BY <1>1, <3>1, Zenon DEF Reached, At
    <2>5. IF m + 1 = length THEN q1 = q + 1 /\ m1 = 0 ELSE q1 = q /\ m1 = m + 1
      <3> DEFINE d == x - t.loop.end
      <3>1. (x + 1) - t.loop.end = d + 1 /\ d \in Nat
        BY <2>1
      <3> HIDE DEF length, d
      <3>2. IF (d % length) + 1 = length
            THEN (d + 1) \div length = (d \div length) + 1 /\ (d + 1) % length = 0
            ELSE (d + 1) \div length = d \div length /\ (d + 1) % length = (d % length) + 1
        BY <2>1, <3>1, OneMore
      <3> QED BY <3>1, <3>2, Zenon DEF d
    <2> HIDE DEF q, m, q1, m1
    <2>6. CASE target # None /\ next >= target
      <3>1. t.reps + q1 + 1 >= target
        BY <1>0, <2>1, <2>2, <2>5, <2>6
      <3>2. Reached(t, x) = At(t.loop.end, target, FALSE)
            /\ Reached(t, x + 1) = At(t.loop.end, target, FALSE)
        BY <2>3, <2>4, <2>6, <3>1, Zenon
      <3>3. ~At(t.loop.end, target, FALSE).playing
        BY DEF At
      <3> QED BY <3>2, <3>3, Zenon DEF Played
    <2>7. CASE ~(target # None /\ next >= target)
      <3> DEFINE p == t.loop.start + m
      <3>1. Reached(t, x) = At(p, next, TRUE)
        BY <2>3, <2>7, Zenon
      <3>2. p + 1 = t.loop.end <=> m + 1 = length
        BY <2>1, <2>2
      <3>3. CASE m + 1 = length
        <4>1. t.reps + q1 + 1 = next + 1 /\ t.loop.start + m1 = t.loop.start
          BY <1>0, <2>1, <2>2, <2>5, <3>3
        <4>2. p + 1 = t.loop.end
          BY <3>2, <3>3
        <4>3. Reached(t, x + 1) = IF target # None /\ next + 1 >= target
                                  THEN At(t.loop.end, target, FALSE)
                                  ELSE At(t.loop.start, next + 1, TRUE)
          BY <2>4, <4>1, Zenon
        <4> HIDE DEF p, next
        <4> QED BY <1>1, <3>1, <4>2, <4>3, PlayedOn
      <3>4. CASE m + 1 # length
        <4>1. t.reps + q1 + 1 = next /\ t.loop.start + m1 = p + 1
          BY <1>0, <2>1, <2>2, <2>5, <3>4
        <4>2. p + 1 # t.loop.end /\ p + 1 < Duration
          BY <2>1, <2>2, <1>0, <3>4
        <4> HIDE DEF p, next, target
        <4> QED BY <2>4, <2>7, <3>1, <4>1, <4>2, PlayedOn
      <3> QED BY <3>3, <3>4
    <2> QED BY <2>6, <2>7
  <1>2. CASE Looping(t) /\ ~(x >= t.loop.end)
    <2>1. /\ t.loop.start \in Nat /\ t.loop.end \in Nat /\ length \in Nat \ {0}
          /\ t.loop.end <= Duration /\ x + 1 <= t.loop.end
      BY <1>2, LoopIsLawful
    <2>2. ~(x >= Duration)
      BY <1>0, <2>1
    <2>3. Reached(t, x) = At(x, t.reps, TRUE)
      BY <1>2, <2>2, Zenon DEF Reached, At
    <2>4. CASE x + 1 = t.loop.end
      <3>1. ((x + 1) - t.loop.end) \div length = 0 /\ ((x + 1) - t.loop.end) % length = 0
        <4>1. (x + 1) - t.loop.end = length * 0 + 0 /\ 0 \in 0 .. length - 1
          BY <2>1, <2>4
        <4> HIDE DEF length
        <4> QED BY <2>1, <4>1, DivisionIsUnique
      <3> DEFINE next == t.reps + (((x + 1) - t.loop.end) \div length) + 1
      <3>2. Reached(t, x + 1) =
              IF target # None /\ next >= target THEN At(t.loop.end, target, FALSE)
              ELSE At(t.loop.start + (((x + 1) - t.loop.end) % length), next, TRUE)
        <4>1. x + 1 >= t.loop.end
          BY <2>1, <2>4
        <4> QED BY <1>2, <4>1, Zenon DEF Reached, At
      <3>3. next = t.reps + 1
            /\ t.loop.start + (((x + 1) - t.loop.end) % length) = t.loop.start
        BY <1>0, <2>1, <3>1
      <3> HIDE DEF next
      <3>4. Reached(t, x + 1) =
              IF target # None /\ t.reps + 1 >= target THEN At(t.loop.end, target, FALSE)
              ELSE At(t.loop.start, t.reps + 1, TRUE)
        BY <3>2, <3>3, Zenon
      <3> QED BY <1>2, <2>3, <2>4, <3>4, PlayedOn
    <2>5. CASE x + 1 # t.loop.end
      <3>1. ~(x + 1 >= t.loop.end) /\ ~(x + 1 >= Duration) /\ x + 1 < Duration
        BY <1>0, <2>1, <2>5
      <3>2. Reached(t, x + 1) = At(x + 1, t.reps, TRUE)
        BY <3>1, Zenon DEF Reached, At
      <3> QED BY <2>3, <2>5, <3>1, <3>2, PlayedOn
    <2> QED BY <2>4, <2>5
  <1>3. CASE ~Looping(t)
    <2>1. CASE x >= Duration
      <3>1. x + 1 >= Duration
        BY <1>0, <2>1
      <3>2. Reached(t, x) = At(Duration, t.reps, FALSE)
            /\ Reached(t, x + 1) = At(Duration, t.reps, FALSE)
        BY <1>3, <2>1, <3>1, Zenon DEF Reached, At
      <3>3. ~At(Duration, t.reps, FALSE).playing
        BY DEF At
      <3> QED BY <3>2, <3>3, Zenon DEF Played
    <2>2. CASE ~(x >= Duration)
      <3>1. Reached(t, x) = At(x, t.reps, TRUE)
        BY <1>3, <2>2, Zenon DEF Reached, At
      <3>2. CASE x + 1 >= Duration
        <4>1. ~(x + 1 < Duration) /\ x + 1 = Duration
          BY <1>0, <2>2, <3>2
        <4>2. Reached(t, x + 1) = At(Duration, t.reps, FALSE)
          BY <1>3, <3>2, Zenon DEF Reached, At
        <4> QED BY <1>3, <3>1, <4>1, <4>2, PlayedOn
      <3>3. CASE ~(x + 1 >= Duration)
        <4>1. x + 1 < Duration
          BY <1>0, <3>3
        <4>2. Reached(t, x + 1) = At(x + 1, t.reps, TRUE)
          BY <1>3, <3>3, Zenon DEF Reached, At
        <4> QED BY <1>3, <3>1, <4>1, <4>2, PlayedOn
      <3> QED BY <3>2, <3>3
    <2> QED BY <2>1, <2>2
  <1> QED BY <1>1, <1>2, <1>3

\* The numbers are the least set with zero and the successor of each.
LEMMA SetInduction ==
  ASSUME NEW S, 0 \in S, \A n \in Nat : n \in S => n + 1 \in S
  PROVE  Nat \subseteq S
  <1> DEFINE Below == {p \in Nat \X Nat : p[1] < p[2]}
             T == {n \in Nat : n \notin S}
  <1>1. IsWellFoundedOn(Below, Nat)
    <2>1. Below = OpToRel(<, Nat)
      BY Zenon DEF OpToRel
    <2> HIDE DEF Below
    <2> QED BY <2>1, NatLessThanWellFounded, Zenon
  <1>2. \A x, y \in Nat : y < x => <<y, x>> \in Below
    OBVIOUS
  <1> HIDE DEF Below
  <1>3. SUFFICES ASSUME T # {} PROVE FALSE
    OBVIOUS
  <1>4. PICK x \in T : \A y \in T : ~ (<<y, x>> \in Below)
    BY <1>1, <1>3, WFMin, T \subseteq Nat, Zenon
  <1>5. x \in Nat /\ x # 0
    OBVIOUS
  <1>6. x - 1 \in Nat /\ x - 1 < x
    BY <1>5
  <1>7. x - 1 \in S
    BY <1>2, <1>4, <1>5, <1>6
  <1> QED BY <1>5, <1>6, <1>7

\* What the ideal transport comes to in a tick, when w says where it is
\* after each unit.
LEMMA Iterated ==
  ASSUME transport.rate \in Nat, Advance,
         NEW w, w = [n \in 0 .. transport.rate |-> w[n]], w[0] = ideal,
         \A n \in 0 .. transport.rate : n > 0 => Played(w[n - 1]) = w[n]
  PROVE  ideal' = w[transport.rate]
  <1> DEFINE r == transport.rate
             Unfold(g) == [n \in 0 .. r |-> IF n = 0 THEN ideal ELSE Played(g[n - 1])]
             after == CHOOSE g : g = Unfold(g)
             S == {n \in Nat : n \in 0 .. r => after[n] = w[n]}
  <1>1. w = Unfold(w)
    <2>1. ASSUME NEW n \in 0 .. r
          PROVE  w[n] = IF n = 0 THEN ideal ELSE Played(w[n - 1])
      <3>1. n = 0 \/ n > 0
        BY <2>1
      <3> QED BY <2>1, <3>1, Zenon
    <2>2. Unfold(w) = [n \in 0 .. r |-> w[n]]
      BY <2>1
    <2> QED BY <2>2, Zenon
  <1> HIDE DEF Unfold
  <1>2. after = Unfold(after)
    BY <1>1, Zenon
  <1>3. ideal' = after[r]
    BY Zenon DEF Advance, Unfold
  <1> HIDE DEF after
  <1>4. \A n \in 0 .. r : after[n] = IF n = 0 THEN ideal ELSE Played(after[n - 1])
    BY <1>2 DEF Unfold
  <1>5. 0 \in S
    BY <1>4
  <1>6. \A n \in Nat : n \in S => n + 1 \in S
    <2>1. SUFFICES ASSUME NEW n \in Nat, n \in S, n + 1 \in 0 .. r
                   PROVE  after[n + 1] = w[n + 1]
      OBVIOUS
    <2>2. n \in 0 .. r /\ n + 1 # 0 /\ (n + 1) - 1 = n /\ n + 1 > 0
      BY <2>1
    <2>3. after[n + 1] = Played(after[n])
      BY <1>4, <2>1, <2>2
    <2>4. Played(w[n]) = w[n + 1]
      BY <2>1, <2>2
    <2> QED BY <2>1, <2>2, <2>3, <2>4
  <1> HIDE DEF S
  <1>7. Nat \subseteq S
    BY <1>5, <1>6, SetInduction
  <1>8. r \in S /\ r \in 0 .. r
    BY <1>7
  <1> QED BY <1>3, <1>8 DEF S

LEMMA AdvanceIsLawful ==
  ASSUME Lawful(transport), Advance
  PROVE  /\ Lawful(transport')
         /\ transport.playing => Raw(transport') = Raw(transport) + transport.rate
         /\ transport'.playing = transport.playing
         /\ transport'.loop = transport.loop /\ transport'.rate = transport.rate
         /\ transport'.reps = transport.reps
         /\ ~transport.playing => transport' = transport
  <1> DEFINE t == transport
             r == transport.rate
  <1>0. r \in Nat /\ t.elapsed \in Nat /\ t.base \in Nat
    BY Typed
  <1>1. CASE t.playing
    <2> DEFINE u == [t EXCEPT !.elapsed = @ + 1]
    <2>1. transport' = u
      BY <1>1, Zenon DEF Advance
    <2>2. /\ u \in Transports /\ u.playing /\ u.elapsed = t.elapsed + 1
          /\ u.base = t.base /\ u.rate = t.rate /\ u.loop = t.loop /\ u.reps = t.reps
          /\ u.playing = t.playing
      <3>1. t.elapsed + 1 \in Nat
        BY <1>0
      <3>2. \A n \in Nat : [t EXCEPT !.elapsed = n] \in Transports
        BY DEF Lawful, Transports
      <3>3. u \in Transports
        BY <3>1, <3>2
      <3>4. /\ u.playing = t.playing /\ u.elapsed = t.elapsed + 1 /\ u.base = t.base
            /\ u.rate = t.rate /\ u.loop = t.loop /\ u.reps = t.reps
        BY DEF Lawful, Transports
      <3> QED BY <1>1, <3>3, <3>4
    <2> HIDE DEF u
    <2>3. Lawful(u)
      BY <2>2 DEF Lawful
    <2>4. Raw(u) = Raw(t) + r
      <3>1. \A b, n, k \in Nat : b + (n + 1) * k = (b + n * k) + k
        OBVIOUS
      <3>2. Raw(u) = t.base + (t.elapsed + 1) * r /\ Raw(t) = t.base + t.elapsed * r
        BY <2>2, Zenon DEF Raw
      <3>3. t.base + (t.elapsed + 1) * r = (t.base + t.elapsed * r) + r
        BY <1>0, <3>1
      <3> QED BY <3>2, <3>3, Zenon
    <2> QED BY <1>1, <2>1, <2>2, <2>3, <2>4, Zenon
  <1>2. CASE ~t.playing
    <2>1. transport' = [t EXCEPT !.elapsed = @]
      BY <1>2, Zenon DEF Advance
    <2>2. transport' = t
      BY <2>1 DEF Lawful, Transports
    <2> QED BY <1>2, <2>2, Zenon
  <1> QED BY <1>1, <1>2

\* Time moves the ideal transport as it moves a reading of the real one.
LEMMA AdvanceDoesNotDrift ==
  ASSUME Lawful(transport), ideal = Ideal(Reading(transport)), Advance
  PROVE  ideal' = Ideal(Reading(transport'))
  <1> DEFINE t == transport
             u == transport'
             r == transport.rate
  <1>0. r \in Nat /\ Raw(t) \in Nat /\ r \in 0 .. r
    BY Typed, RawIsNat
  <1>1. /\ Lawful(u) /\ u.playing = t.playing /\ u.loop = t.loop /\ u.reps = t.reps
        /\ t.playing => Raw(u) = Raw(t) + r
        /\ ~t.playing => u = t
    BY AdvanceIsLawful
  <1> HIDE DEF u
  <1>2. CASE t.playing
    <2> DEFINE w == [n \in 0 .. r |-> Reached(t, Raw(t) + n)]
    <2>1. w[0] = ideal
      <3>1. Raw(t) + 0 = Raw(t)
        BY <1>0
      <3>2. ideal = Reached(t, Raw(t))
        BY <1>2, ReadingReaches
      <3> QED BY <1>0, <3>1, <3>2
    <2>2. ASSUME NEW n \in 0 .. r, n > 0
          PROVE  Played(w[n - 1]) = w[n]
      <3>1. n - 1 \in 0 .. r /\ Raw(t) + (n - 1) \in Nat /\ (Raw(t) + (n - 1)) + 1 = Raw(t) + n
        BY <1>0, <2>2
      <3> QED BY <1>2, <3>1, ReachedNext
    <2>3. w = [n \in 0 .. r |-> w[n]]
      OBVIOUS
    <2> HIDE DEF w
    <2>4. ideal' = w[r]
      BY <1>0, <2>1, <2>2, <2>3, Iterated
    <2>5. ideal' = Reached(t, Raw(u))
      BY <1>0, <1>1, <1>2, <2>4 DEF w
    <2>6. Reached(t, Raw(u)) = Reached(u, Raw(u))
      BY <1>1, Zenon DEF Reached, Looping
    <2>7. Ideal(Reading(u)) = Reached(u, Raw(u))
      BY <1>1, <1>2, ReadingReaches
    <2> QED BY <2>5, <2>6, <2>7, Zenon DEF u
  <1>3. CASE ~t.playing
    <2> DEFINE w == [n \in 0 .. r |-> ideal]
    <2>1. Played(ideal) = ideal
      <3>1. Reading(t) = t
        BY <1>3 DEF Reading
      <3>2. ~ideal.playing
        BY <1>3, <3>1, Zenon DEF Ideal
      <3> QED BY <3>2, Zenon DEF Played
    <2>2. \A n \in 0 .. r : n > 0 => Played(w[n - 1]) = w[n]
      <3>1. \A n \in 0 .. r : n > 0 => n - 1 \in 0 .. r
        BY <1>0
      <3> QED BY <2>1, <3>1
    <2>3. w[0] = ideal /\ w[r] = ideal /\ w = [n \in 0 .. r |-> w[n]]
      BY <1>0
    <2> HIDE DEF w
    <2>4. ideal' = w[r]
      BY <1>0, <2>2, <2>3, Iterated
    <2> QED BY <1>1, <1>3, <2>3, <2>4, Zenon DEF u
  <1> QED BY <1>2, <1>3

-----------------------------------------------------------------------------
(* The voices *)

LEMMA ImageIsFinite ==
  ASSUME NEW S, IsFiniteSet(S), NEW f, DOMAIN f = S
  PROVE  IsFiniteSet({f[x] : x \in S})
  <1> DEFINE T == {f[x] : x \in S}
             g == [x \in S |-> f[x]]
  <1>1. g \in Surjection(S, T)
    BY DEF Surjection
  <1> HIDE DEF T, g
  <1>2. IsFiniteSet(T)
    BY <1>1, FS_Surjection
  <1> QED BY <1>2 DEF T

Voices == [event : DOMAIN Plan, start : Nat, release : Nat \ {0}, nth : Nat, stray : BOOLEAN]

Audios == [enabled : BOOLEAN, scheduled : SUBSET DOMAIN Plan, voices : SUBSET Voices,
           covered : 0 .. Lookahead]

\* Web Audio comes to v's ends when the transport comes to its event's.
InPlace(v, t) ==
    /\ Raw(t) * Unit + v.release * t.rate = Plan[v.event].release * Unit
    /\ v.start > 0 => Raw(t) * Unit + v.start * t.rate = Plan[v.event].onset * Unit

\* What the scheduler knows, and Web Audio has been given, under transport t.
Lasting(a, t) ==
    \A v \in a.voices : IF v.stray THEN Finished(t) /\ t.loop.end < Duration
                        ELSE a.enabled /\ t.playing /\ InPlace(v, t)
Single(a) == \A v, w \in a.voices : v.event = w.event => v = w
Sounding(a, t) ==
    t.playing => \A e \in a.scheduled :
                    Plan[e].release > Raw(t) => \E v \in a.voices : v.event = e
Covering(a, t) ==
    IF t.playing
    THEN a.covered > 0 =>
            \A e \in DOMAIN Plan :
               (Plan[e].release > Raw(t) /\ Plan[e].onset < Raw(t) + a.covered * t.rate) =>
                  e \in a.scheduled
    ELSE a.covered = 0

Follows(a, t) ==
    /\ a \in Audios /\ IsFiniteSet(a.voices)
    /\ \A v \in a.voices : v.event \in a.scheduled
    /\ Lasting(a, t) /\ Single(a) /\ Sounding(a, t) /\ Covering(a, t)

LEMMA PanicFollows ==
  ASSUME NEW a \in Audios, NEW t
  PROVE  /\ Follows(Panic(a), t) /\ Panic(a).enabled = a.enabled
         /\ Panic(a).voices = {} /\ Panic(a).scheduled = {}
         /\ Follows([Panic(a) EXCEPT !.scheduled = {}], t)
         /\ Follows([Panic(a) EXCEPT !.enabled = ~@], t)
  <1> DEFINE p == Panic(a)
  <1>0. 0 \in 0 .. Lookahead
    BY AudioConstants
  <1>1. p \in Audios /\ p.voices = {} /\ p.scheduled = {} /\ p.covered = 0
        /\ p.enabled = a.enabled
    BY <1>0 DEF Panic, Audios
  <1> HIDE DEF p
  <1>2. \A b \in Audios : b.voices = {} /\ b.scheduled = {} /\ b.covered = 0 => Follows(b, t)
    <2>1. SUFFICES ASSUME NEW b \in Audios, b.voices = {}, b.scheduled = {}, b.covered = 0
                   PROVE  Follows(b, t)
      OBVIOUS
    <2>2. IsFiniteSet(b.voices)
      BY <2>1, FS_EmptySet
    <2> QED BY <2>1, <2>2 DEF Follows, Lasting, Single, Sounding, Covering
  <1>3. [p EXCEPT !.scheduled = {}] \in Audios /\ [p EXCEPT !.enabled = ~@] \in Audios
    BY <1>1 DEF Audios
  <1>4. /\ [p EXCEPT !.scheduled = {}].voices = {} /\ [p EXCEPT !.scheduled = {}].scheduled = {}
        /\ [p EXCEPT !.scheduled = {}].covered = 0
        /\ [p EXCEPT !.enabled = ~@].voices = {} /\ [p EXCEPT !.enabled = ~@].scheduled = {}
        /\ [p EXCEPT !.enabled = ~@].covered = 0
    BY <1>1 DEF Audios
  <1> QED BY <1>1, <1>2, <1>3, <1>4 DEF p

LEMMA PlanTyped ==
  ASSUME NEW e \in DOMAIN Plan
  PROVE  /\ Plan[e].onset \in Nat /\ Plan[e].release \in Nat
         /\ Plan[e].onset < Plan[e].release /\ Plan[e].release <= Duration
         /\ Unit \in Nat \ {0} /\ Lookahead \in Nat
  <1>1. Plan[e].onset \in Nat /\ Plan[e].release \in Plan[e].onset + 1 .. Duration
        /\ Unit \in Nat \ {0} /\ Lookahead \in Nat
    BY AudioConstants
  <1>2. Duration \in Nat
    BY TransportConstants
  <1> QED BY <1>1, <1>2

LEMMA VoiceIsInPlace ==
  ASSUME NEW a \in Audios, IsFiniteSet(a.voices), NEW t, Lawful(t),
         NEW e \in DOMAIN Plan, Plan[e].release > Raw(t)
  PROVE  LET v == Voice(a, e, t)
         IN v \in Voices /\ v.event = e /\ v.stray = ~t.playing /\ InPlace(v, t)
  <1> DEFINE v == Voice(a, e, t)
             from == IF Raw(t) > Plan[e].onset THEN Raw(t) ELSE Plan[e].onset
             n == from - Raw(t)
             k == Plan[e].release - Raw(t)
  <1>1. /\ Plan[e].onset \in Nat /\ Plan[e].release \in Nat /\ Raw(t) \in Nat
        /\ Unit \in Nat \ {0}
    BY PlanTyped, RawIsNat
  <1>2. /\ n \in Nat /\ k \in Nat /\ k > 0
        /\ n > 0 => Raw(t) + n = Plan[e].onset
        /\ Raw(t) + k = Plan[e].release
    BY <1>1
  <1>3. t.rate \in Nat \ {0} /\ Unit % t.rate = 0
    BY Typed, AudioConstants
  <1> DEFINE start == (n * Unit) \div t.rate
             release == (k * Unit) \div t.rate
             nth == Cardinality({w \in a.voices : w.event = e})
  <1>4. v = [event |-> e, start |-> start, release |-> release, nth |-> nth,
             stray |-> ~t.playing]
    BY Zenon DEF Voice
  <1> HIDE DEF v, n, k
  <1>5. start \in Nat /\ start * t.rate = n * Unit
    BY <1>1, <1>2, <1>3, ExactTime, Zenon
  <1>6. release \in Nat /\ release * t.rate = k * Unit /\ release > 0
    BY <1>1, <1>2, <1>3, ExactTime, Zenon
  <1>7. n = 0 => start = 0
    <2>1. SUFFICES ASSUME n = 0 PROVE start = 0
      OBVIOUS
    <2>2. start * t.rate = 0
      BY <1>1, <1>5, <2>1
    <2> HIDE DEF start
    <2> QED BY <1>3, <1>5, <2>2
  <1>8. nth \in Nat
    <2>1. {w \in a.voices : w.event = e} \in SUBSET a.voices
      OBVIOUS
    <2> QED BY <2>1, FS_Subset, FS_CardinalityType
  <1> HIDE DEF start, release, nth
  <1>9. v \in Voices /\ v.event = e
    BY <1>4, <1>5, <1>6, <1>8 DEF Voices
  <1>10. InPlace(v, t)
    <2>1. v.event = e /\ v.start = start /\ v.release = release
      BY <1>4
    <2>2. Raw(t) * Unit + k * Unit = Plan[e].release * Unit
      <3>1. \A x, y, u \in Nat : x * u + y * u = (x + y) * u
        OBVIOUS
      <3> QED BY <1>1, <1>2, <3>1
    <2>3. start > 0 => Raw(t) * Unit + n * Unit = Plan[e].onset * Unit
      <3>1. \A x, y, u \in Nat : x * u + y * u = (x + y) * u
        OBVIOUS
      <3> QED BY <1>1, <1>2, <1>5, <1>7, <3>1
    <2> QED BY <1>5, <1>6, <2>1, <2>2, <2>3 DEF InPlace
  <1> QED BY <1>4, <1>9, <1>10 DEF v

\* A look ahead by a transport that has just been read: t plays on, or its
\* reading has ended it and the panic has been.
LEMMA ScheduleFollows ==
  ASSUME NEW a, NEW t, Lawful(t), Follows(a, t), a.enabled,
         t.playing \/ (a.voices = {} /\ (Finished(t) \/ Raw(t) = Duration))
  PROVE  Follows(Schedule(a, t), t)
  <1> DEFINE due == {e \in DOMAIN Plan : /\ e \notin a.scheduled
                                         /\ Plan[e].release > Raw(t)
                                         /\ Plan[e].onset < Horizon(t)}
             new == {Voice(a, e, t) : e \in due}
             covered == IF t.playing THEN Lookahead ELSE 0
             s == Schedule(a, t)
  <1>1. s = [a EXCEPT !.scheduled = @ \cup due, !.voices = @ \cup new, !.covered = covered]
    BY Zenon DEF Schedule
  <1>2. a \in Audios /\ IsFiniteSet(a.voices)
    BY DEF Follows
  <1>3. due \subseteq DOMAIN Plan
    OBVIOUS
  <1>4. \A e \in due : /\ e \notin a.scheduled /\ Plan[e].release > Raw(t)
                       /\ Voice(a, e, t) \in Voices /\ Voice(a, e, t).event = e
                       /\ Voice(a, e, t).stray = ~t.playing /\ InPlace(Voice(a, e, t), t)
    BY <1>2, VoiceIsInPlace
  <1>5. \A e \in DOMAIN Plan : (Plan[e].release > Raw(t) /\ Plan[e].onset < Horizon(t)) =>
                                  e \in a.scheduled \/ e \in due
    OBVIOUS
  <1>6. covered \in 0 .. Lookahead
    BY AudioConstants
  <1>7. IsFiniteSet(new)
    <2> DEFINE f == [e \in due |-> Voice(a, e, t)]
    <2>1. IsFiniteSet(due)
      BY <1>3, AudioConstants, FS_Subset
    <2>2. new = {f[e] : e \in due}
      OBVIOUS
    <2>3. DOMAIN f = due
      OBVIOUS
    <2> HIDE DEF due, f, new
    <2> QED BY <2>1, <2>2, <2>3, ImageIsFinite
  <1>8. \A v \in new : \E e \in due : v = Voice(a, e, t)
    OBVIOUS
  <1>9. \A e \in due : Voice(a, e, t) \in new
    OBVIOUS
  <1> HIDE DEF due, new, covered, s
  <1>10. /\ s \in Audios /\ s.enabled = a.enabled /\ s.scheduled = a.scheduled \cup due
         /\ s.voices = a.voices \cup new /\ s.covered = covered
    <2>1. new \subseteq Voices
      BY <1>4, <1>8
    <2>2. a.scheduled \cup due \in SUBSET DOMAIN Plan /\ a.voices \cup new \in SUBSET Voices
      BY <1>2, <1>3, <2>1 DEF Audios
    <2> DEFINE S == a.scheduled \cup due
               V == a.voices \cup new
               b == [a EXCEPT !.scheduled = S, !.voices = V, !.covered = covered]
    <2>3. S \in SUBSET DOMAIN Plan /\ V \in SUBSET Voices /\ s = b
      BY <1>1, <2>2
    <2> HIDE DEF S, V
    <2>4. /\ b \in Audios /\ b.enabled = a.enabled /\ b.scheduled = S /\ b.voices = V
          /\ b.covered = covered
      BY <1>2, <1>6, <2>3 DEF Audios
    <2> QED BY <2>3, <2>4 DEF S, V
  <1>11. IsFiniteSet(s.voices)
    BY <1>2, <1>7, <1>10, FS_Union
  <1>12. \A v \in s.voices : v.event \in s.scheduled
    BY <1>4, <1>8, <1>10 DEF Follows
  <1>13. Lasting(s, t)
    <2>1. SUFFICES ASSUME NEW v \in new
                   PROVE  IF v.stray THEN Finished(t) /\ t.loop.end < Duration
                          ELSE s.enabled /\ t.playing /\ InPlace(v, t)
      BY <1>10 DEF Follows, Lasting
    <2>2. PICK e \in due : v = Voice(a, e, t)
      BY <1>8
    <2>3. CASE t.playing
      BY <1>4, <1>10, <2>2, <2>3
    <2>4. CASE ~t.playing
      <3>1. Plan[e].release <= Duration /\ Plan[e].release > Raw(t)
            /\ Plan[e].release \in Nat /\ Raw(t) \in Nat /\ Duration \in Nat
        BY <1>3, <1>4, PlanTyped, RawIsNat, Typed
      <3>2. Finished(t)
        BY <2>4, <3>1
      <3>3. t.loop.end < Duration
        BY <3>1, <3>2 DEF Finished
      <3> QED BY <1>4, <2>2, <2>4, <3>2, <3>3
    <2> QED BY <2>3, <2>4
  <1>14. Single(s)
    <2>1. \A v \in a.voices : v.event \in a.scheduled
      BY DEF Follows
    <2>2. \A v \in new : v.event \in due /\ v = Voice(a, v.event, t)
      BY <1>4, <1>8
    <2>3. \A v \in new : v.event \notin a.scheduled
      BY <1>4, <2>2
    <2> QED BY <1>10, <2>1, <2>2, <2>3 DEF Follows, Single
  <1>15. Sounding(s, t)
    BY <1>4, <1>9, <1>10 DEF Follows, Sounding
  <1>16. Covering(s, t)
    BY <1>5, <1>10 DEF Covering, Horizon, covered
  <1> QED BY <1>10, <1>11, <1>12, <1>13, <1>14, <1>15, <1>16 DEF Follows, s

LEMMA HeardFollows ==
  ASSUME NEW a, NEW t, Lawful(t), t.playing, Follows(a, t)
  PROVE  /\ Follows(Heard(a, t), Reading(t)) /\ Heard(a, t).enabled = a.enabled
         /\ Reading(t) # t => Heard(a, t).voices = {}
  <1>1. a \in Audios
    BY DEF Follows
  <1> QED BY <1>1, PanicFollows, Zenon DEF Heard

LEMMA TickFollows ==
  ASSUME NEW a, NEW t, Lawful(t), Follows(a, t)
  PROVE  Follows(Tick(a, t), IF a.enabled THEN Reading(t) ELSE t)
  <1>1. CASE a.enabled /\ t.playing
    <2> DEFINE u == Reading(t)
               h == Heard(a, t)
    <2>1. Tick(a, t) = Schedule(h, u)
      BY <1>1, Zenon DEF Tick
    <2>2. Lawful(u) /\ (u.playing \/ Finished(u) \/ Raw(u) = Duration)
      BY <1>1, ReadingIsLawful
    <2>3. Follows(h, u) /\ h.enabled /\ (u # t => h.voices = {})
      BY <1>1, HeardFollows
    <2>4. ~u.playing => u # t
      BY <1>1
    <2> HIDE DEF u, h
    <2>5. Follows(Schedule(h, u), u)
      BY <2>2, <2>3, <2>4, ScheduleFollows
    <2> QED BY <1>1, <2>1, <2>5 DEF u
  <1>2. CASE ~(a.enabled /\ t.playing)
    <2>1. Tick(a, t) = a
      BY <1>2, Zenon DEF Tick
    <2>2. ~t.playing => Reading(t) = t
      BY Zenon DEF Reading
    <2> QED BY <1>2, <2>1, <2>2
  <1> QED BY <1>1, <1>2

LEMMA ShiftedTime ==
  ASSUME NEW x \in Nat, NEW u \in Nat, NEW c \in Nat, NEW r \in Nat
  PROVE  (x + r) * u + (c - u) * r = x * u + c * r
  <1>1. (x + r) * u = x * u + r * u
    OBVIOUS
  <1>2. (c - u) * r = c * r - u * r
    OBVIOUS
  <1>3. r * u = u * r /\ x * u \in Int /\ c * r \in Int /\ u * r \in Int
    OBVIOUS
  <1> QED BY <1>1, <1>2, <1>3

\* What has more than a tick to go at rate r from place x is not over with it.
LEMMA LongerThanATick ==
  ASSUME NEW x \in Nat, NEW u \in Nat \ {0}, NEW c \in Nat, NEW r \in Nat \ {0},
         NEW p \in Nat, x * u + c * r = p * u, p > x + r
  PROVE  c > u
  <1>1. SUFFICES ASSUME c <= u PROVE FALSE
    OBVIOUS
  <1>2. c * r <= u * r
    BY <1>1
  <1>3. (x + r + 1) * u <= p * u
    <2>1. x + r + 1 <= p
      OBVIOUS
    <2>2. \A y, z \in Nat : y <= z => y * u <= z * u
      OBVIOUS
    <2> QED BY <2>1, <2>2
  <1>4. (x + r + 1) * u = x * u + r * u + u
    OBVIOUS
  <1>5. r * u = u * r /\ x * u \in Int /\ r * u \in Int /\ c * r \in Int /\ p * u \in Int
    OBVIOUS
  <1> QED BY <1>2, <1>3, <1>4, <1>5

LEMMA AdvanceFollows ==
  ASSUME Lawful(transport), Follows(audio, transport), Advance,
         Lawful(transport'),
         transport.playing => Raw(transport') = Raw(transport) + transport.rate,
         transport'.playing = transport.playing, transport'.rate = transport.rate,
         ~transport.playing => transport' = transport
  PROVE  Follows(audio', transport')
  <1> DEFINE t == transport
             u == transport'
             a == audio
             Later(v) == [v EXCEPT !.start = IF @ > Unit THEN @ - Unit ELSE 0,
                                   !.release = @ - Unit]
             left == {Later(v) : v \in a.voices}
             voices == {v \in left : v.release > 0}
             covered == IF a.covered > 0 THEN a.covered - 1 ELSE 0
  <1>1. audio' = [a EXCEPT !.voices = voices, !.covered = covered]
    BY Zenon DEF Advance
  <1>2. a \in Audios /\ IsFiniteSet(a.voices) /\ Unit \in Nat \ {0}
    BY AudioConstants DEF Follows
  <1>3. ASSUME NEW v \in a.voices
        PROVE  /\ Later(v).event = v.event /\ Later(v).stray = v.stray
               /\ Later(v).start = (IF v.start > Unit THEN v.start - Unit ELSE 0)
               /\ Later(v).release = v.release - Unit
               /\ v.start \in Nat /\ v.release \in Nat \ {0} /\ v.event \in DOMAIN Plan
               /\ Later(v).release > 0 => Later(v) \in Voices
    <2>1. v \in Voices
      BY <1>2 DEF Audios
    <2>2. /\ v.start \in Nat /\ v.release \in Nat \ {0} /\ v.event \in DOMAIN Plan
      BY <2>1 DEF Voices
    <2> DEFINE s == IF v.start > Unit THEN v.start - Unit ELSE 0
               r == v.release - Unit
    <2>3. s \in Nat /\ r \in Int
      BY <1>2, <2>2
    <2>4. Later(v) = [v EXCEPT !.start = s, !.release = r]
      OBVIOUS
    <2> HIDE DEF s, r, Later
    <2>5. /\ Later(v).event = v.event /\ Later(v).stray = v.stray
          /\ Later(v).start = s /\ Later(v).release = r
      BY <2>1, <2>4 DEF Voices
    <2>6. r > 0 => Later(v) \in Voices
      <3>1. SUFFICES ASSUME r > 0 PROVE Later(v) \in Voices
        OBVIOUS
      <3>2. r \in Nat \ {0}
        BY <2>3, <3>1
      <3> QED BY <2>1, <2>3, <2>4, <3>2 DEF Voices
    <2> QED BY <2>2, <2>5, <2>6 DEF s, r
  <1>4. \A w \in voices : \E v \in a.voices : w = Later(v) /\ Later(v).release > 0
    OBVIOUS
  <1>5. \A v \in a.voices : Later(v).release > 0 => Later(v) \in voices
    OBVIOUS
  <1>6. IsFiniteSet(voices)
    <2> DEFINE f == [v \in a.voices |-> Later(v)]
    <2>1. left = {f[v] : v \in a.voices} /\ DOMAIN f = a.voices
      OBVIOUS
    <2> HIDE DEF f, left
    <2>2. IsFiniteSet(left)
      BY <1>2, <2>1, ImageIsFinite
    <2>3. voices \in SUBSET left
      OBVIOUS
    <2> HIDE DEF voices
    <2> QED BY <2>2, <2>3, FS_Subset
  <1>7. a.covered \in 0 .. Lookahead /\ Lookahead \in Nat /\ covered \in 0 .. Lookahead
    BY <1>2, AudioConstants DEF Audios
  <1> HIDE DEF left, voices, covered, Later
  <1>8. /\ audio' \in Audios /\ audio'.enabled = a.enabled /\ audio'.scheduled = a.scheduled
        /\ audio'.voices = voices /\ audio'.covered = covered
    <2>1. voices \in SUBSET Voices
      BY <1>3, <1>4
    <2> QED BY <1>1, <1>2, <1>7, <2>1 DEF Audios
  <1>9. \A v \in audio'.voices : v.event \in audio'.scheduled
    BY <1>3, <1>4, <1>8 DEF Follows
  <1>10. Raw(t) \in Nat /\ t.rate \in Nat \ {0}
    BY RawIsNat, Typed
  <1>11. \A v \in a.voices : ~v.stray /\ t.playing => InPlace(v, t)
    BY DEF Follows, Lasting
  <1>12. Lasting(audio', u)
    <2>1. SUFFICES ASSUME NEW w \in voices
                   PROVE  IF w.stray THEN Finished(u) /\ u.loop.end < Duration
                          ELSE audio'.enabled /\ u.playing /\ InPlace(w, u)
      BY <1>8 DEF Lasting
    <2>2. PICK v \in a.voices : w = Later(v) /\ Later(v).release > 0
      BY <1>4
    <2>3. IF v.stray THEN Finished(t) /\ t.loop.end < Duration
          ELSE a.enabled /\ t.playing /\ InPlace(v, t)
      BY DEF Follows, Lasting
    <2>4. CASE v.stray
      <3>1. ~t.playing
        BY <2>3, <2>4 DEF Finished
      <3> QED BY <1>3, <2>2, <2>3, <2>4, <3>1
    <2>5. CASE ~v.stray
      <3>1. a.enabled /\ t.playing /\ InPlace(v, t)
        BY <2>3, <2>5
      <3> DEFINE x == Raw(t)
                 r == t.rate
      <3>2. Raw(u) = x + r /\ u.rate = r
        BY <3>1
      <3>3. w.event = v.event /\ w.release = v.release - Unit
            /\ v.release \in Nat /\ v.start \in Nat
            /\ w.start = (IF v.start > Unit THEN v.start - Unit ELSE 0)
        BY <1>3, <2>2
      <3>4. /\ x * Unit + v.release * r = Plan[v.event].release * Unit
            /\ v.start > 0 => x * Unit + v.start * r = Plan[v.event].onset * Unit
        BY <3>1 DEF InPlace
      <3> HIDE DEF x, r
      <3>5. x \in Nat /\ r \in Nat /\ Unit \in Nat
        BY <1>2, <1>10 DEF x, r
      <3>6. (x + r) * Unit + w.release * r = Plan[v.event].release * Unit
        BY <3>3, <3>4, <3>5, ShiftedTime
      <3>7. w.start > 0 => (x + r) * Unit + w.start * r = Plan[v.event].onset * Unit
        <4>1. SUFFICES ASSUME w.start > 0
                       PROVE  (x + r) * Unit + w.start * r = Plan[v.event].onset * Unit
          OBVIOUS
        <4>2. v.start > 0 /\ w.start = v.start - Unit
          BY <3>3, <3>5, <4>1
        <4> QED BY <3>3, <3>4, <3>5, <4>2, ShiftedTime
      <3>8. InPlace(w, u)
        BY <3>2, <3>3, <3>6, <3>7 DEF InPlace
      <3> QED BY <1>3, <1>8, <2>2, <2>5, <3>1, <3>8
    <2> QED BY <2>4, <2>5
  <1>13. Single(audio')
    <2>1. SUFFICES ASSUME NEW w \in voices, NEW z \in voices, w.event = z.event
                   PROVE  w = z
      BY <1>8 DEF Single
    <2>2. PICK v \in a.voices : w = Later(v)
      BY <1>4
    <2>3. PICK y \in a.voices : z = Later(y)
      BY <1>4
    <2>4. v = y
      BY <1>3, <2>1, <2>2, <2>3 DEF Follows, Single
    <2> QED BY <2>2, <2>3, <2>4
  <1>14. Sounding(audio', u)
    <2>1. SUFFICES ASSUME u.playing, NEW e \in a.scheduled, Plan[e].release > Raw(u)
                   PROVE  \E w \in voices : w.event = e
      BY <1>8 DEF Sounding
    <2>2. e \in DOMAIN Plan
      BY <1>2 DEF Audios
    <2>3. Plan[e].release \in Nat /\ t.playing /\ Raw(u) = Raw(t) + t.rate
          /\ Plan[e].release > Raw(t) + t.rate
      BY <2>1, <2>2, PlanTyped
    <2>4. Plan[e].release > Raw(t)
      BY <1>10, <2>3
    <2>5. PICK v \in a.voices : v.event = e
      BY <2>3, <2>4 DEF Follows, Sounding
    <2>6. ~v.stray
      BY <2>3 DEF Follows, Lasting, Finished
    <2>7. Raw(t) * Unit + v.release * t.rate = Plan[e].release * Unit
      BY <1>11, <2>3, <2>5, <2>6 DEF InPlace
    <2>8. v.release \in Nat
      BY <1>3
    <2>9. v.release > Unit
      BY <1>2, <1>10, <2>3, <2>7, <2>8, LongerThanATick
    <2>10. Later(v).release > 0 /\ Later(v).event = e
      BY <1>2, <1>3, <2>5, <2>8, <2>9
    <2> QED BY <1>5, <2>10
  <1>15. Covering(audio', u)
    <2>1. CASE t.playing
      <3>1. SUFFICES ASSUME covered > 0, NEW e \in DOMAIN Plan, Plan[e].release > Raw(u),
                            Plan[e].onset < Raw(u) + covered * u.rate
                     PROVE  e \in a.scheduled
        BY <1>8, <2>1 DEF Covering
      <3>2. a.covered > 0 /\ covered = a.covered - 1 /\ a.covered \in Nat
        BY <1>7, <3>1 DEF covered
      <3>3. Raw(u) = Raw(t) + t.rate /\ u.rate = t.rate
        BY <2>1
      <3>4. Plan[e].release > Raw(t)
        BY <1>10, <3>1, <3>3, PlanTyped
      <3>5. Raw(u) + covered * u.rate = Raw(t) + a.covered * t.rate
        <4>1. \A c, r \in Nat : r + (c - 1) * r = c * r
          OBVIOUS
        <4>2. \A c, r \in Nat : (c - 1) * r \in Int /\ c * r \in Int
          OBVIOUS
        <4> QED BY <1>10, <3>2, <3>3, <4>1, <4>2
      <3>6. Plan[e].onset < Raw(t) + a.covered * t.rate
        BY <3>1, <3>5
      <3> QED BY <2>1, <3>2, <3>4, <3>6 DEF Follows, Covering
    <2>2. CASE ~t.playing
      <3>1. a.covered = 0
        BY <2>2 DEF Follows, Covering
      <3> QED BY <1>8, <2>2, <3>1 DEF Covering, covered
    <2> QED BY <2>1, <2>2
  <1> QED BY <1>6, <1>8, <1>9, <1>12, <1>13, <1>14, <1>15 DEF Follows

-----------------------------------------------------------------------------
(* The inductive invariant *)

\* The transport is lawful, the scheduler and Web Audio follow it, and a
\* reading now would find it where the ideal one is, unless it was overtaken.
AudioInv ==
    /\ Lawful(transport) /\ Follows(audio, transport)
    /\ unread \in 0 .. MaxLate /\ ops \in 0 .. MaxOps
    /\ overtaken \in BOOLEAN
    /\ ~overtaken => ideal = Ideal(Reading(transport))

LEMMA InitIsLawful == Init => AudioInv
  <1> SUFFICES ASSUME Init PROVE AudioInv
    OBVIOUS
  <1>1. PICK r \in Rate : transport = NewTransport(r)
    BY DEF Init
  <1>2. Duration \in Nat /\ 0 \in 0 .. Duration /\ 0 \in 0 .. Lookahead
        /\ 0 \in 0 .. MaxLate /\ 0 \in 0 .. MaxOps
    BY TransportConstants, AudioConstants
  <1>3. Lawful(transport) /\ ~transport.playing
    BY <1>1, <1>2 DEF NewTransport, Lawful, Transports
  <1>4. Follows(audio, transport)
    <2>1. audio \in Audios /\ audio.voices = {} /\ audio.scheduled = {} /\ audio.covered = 0
      BY <1>2 DEF Init, NewAudio, Audios
    <2> QED BY <1>3, <2>1, FS_EmptySet DEF Follows, Lasting, Single, Sounding, Covering
  <1>5. ideal = Ideal(Reading(transport))
    BY <1>3 DEF Init, Reading
  <1> QED BY <1>2, <1>3, <1>4, <1>5 DEF Init, AudioInv

\* A command that ends in a panic.
LEMMA PanicStep ==
  ASSUME AudioInv, NEW u, Commanded(u), Command(u), audio' = Panic(audio),
         overtaken' \in BOOLEAN, ~overtaken' => ideal' = Ideal(u)
  PROVE  AudioInv'
  <1>1. audio \in Audios
    BY DEF AudioInv, Follows
  <1>2. Follows(Panic(audio), u)
    BY <1>1, PanicFollows
  <1>3. transport' = u /\ Lawful(u) /\ Reading(u) = u
    BY SettledIsRead DEF Command, Commanded
  <1>4. /\ Lawful(transport') /\ Follows(audio', transport')
        /\ ~overtaken' => ideal' = Ideal(Reading(transport'))
    BY <1>2, <1>3
  <1>5. unread' \in 0 .. MaxLate /\ ops' \in 0 .. MaxOps
    BY AudioConstants DEF Command, AudioInv
  <1> QED BY <1>4, <1>5 DEF AudioInv

\* A transport read just now, and found where it is, has its place for anchor.
LEMMA AsReadBack ==
  ASSUME Lawful(transport), ideal = Ideal(transport)
  PROVE  /\ AsRead(ideal) = [transport EXCEPT !.base = Raw(transport), !.elapsed = 0]
         /\ ~transport.playing => AsRead(ideal) = transport
  <1>1. ideal = [position |-> Raw(transport), reps |-> transport.reps,
                 playing |-> transport.playing]
    BY Zenon DEF Ideal
  <1>2. AsRead(ideal) = [transport EXCEPT !.playing = transport.playing, !.base = Raw(transport),
                                          !.elapsed = 0, !.reps = transport.reps]
    <2> DEFINE p == Raw(transport)
               k == transport.reps
               g == transport.playing
    <2>1. ideal = [position |-> p, reps |-> k, playing |-> g]
      BY <1>1
    <2> HIDE DEF p, k, g
    <2>2. ideal.position = p /\ ideal.reps = k
      BY <2>1
    <2>3. ideal.playing = g
      BY <2>1
    <2>4. AsRead(ideal) = [transport EXCEPT !.playing = g, !.base = p, !.elapsed = 0, !.reps = k]
      BY <2>2, <2>3, Zenon DEF AsRead
    <2> QED BY <2>4 DEF p, k, g
  <1>3. AsRead(ideal) = [transport EXCEPT !.base = Raw(transport), !.elapsed = 0]
    BY <1>2 DEF Lawful, Transports
  <1>4. ASSUME ~transport.playing
        PROVE  AsRead(ideal) = transport
    <2>1. Raw(transport) = transport.base /\ transport.elapsed = 0
      BY <1>4, RawIsNat DEF Lawful
    <2>2. AsRead(ideal) = [transport EXCEPT !.base = transport.base, !.elapsed = transport.elapsed]
      BY <1>3, <2>1
    <2> QED BY <2>2 DEF Lawful, Transports
  <1> QED BY <1>3, <1>4

LEMMA PlayStep ==
  ASSUME AudioInv, PressPlay
  PROVE  AudioInv'
  <1> DEFINE s == Started(transport)
             u == Play(transport)
             heard == Heard(audio, s)
             h == [heard EXCEPT !.scheduled = {}]
  <1>1. transport' = u /\ audio' = Tick(h, u) /\ overtaken' = overtaken
    BY Zenon DEF PressPlay, Command
  <1>2. Lawful(transport) /\ Follows(audio, transport) /\ ~transport.playing /\ audio \in Audios
    BY DEF AudioInv, PressPlay, Follows
  <1>3. /\ Lawful(s) /\ s.playing /\ s.loop = transport.loop /\ s.reps = transport.reps
        /\ Raw(s) = s.base /\ (transport.base < Duration => s.base = transport.base)
    BY <1>2, StartedIsLawful
  <1>4. Lawful(u) /\ Settled(u) /\ Reading(u) = u /\ u = Reading(s)
    BY <1>3, ReadingIsLawful DEF Play
  <1>5. heard.voices = {} /\ heard \in Audios /\ heard.covered = 0
    <2>1. CASE Reading(s) # s
      <3>1. heard = Panic(audio)
        BY <2>1, Zenon DEF Heard
      <3>2. 0 \in 0 .. Lookahead
        BY AudioConstants
      <3> QED BY <1>2, <3>1, <3>2 DEF Panic, Audios
    <2>2. CASE Reading(s) = s
      <3>1. heard = audio
        BY <2>2, Zenon DEF Heard
      <3>2. audio.covered = 0
        BY <1>2 DEF Follows, Covering
      <3>3. ASSUME NEW v \in audio.voices
            PROVE  FALSE
        <4>1. Finished(transport) /\ transport.loop.end < Duration
          BY <1>2, <3>3 DEF Follows, Lasting
        <4>2. Raw(transport) = transport.base /\ Raw(transport) = transport.loop.end
          BY <1>2, <4>1, RawIsNat DEF Finished
        <4>3. Looping(s) /\ Raw(s) = s.loop.end /\ s.reps = s.loop.target /\ s.loop.target # None
          BY <1>3, <4>1, <4>2 DEF Finished, Looping
        <4>4. s.loop.end \in Nat /\ Raw(s) < Duration
          BY <1>3, <4>1, <4>2, <4>3, LoopIsLawful
        <4>5. Raw(s) >= s.loop.end
          BY <4>3, <4>4
        <4>6. Reading(s) = WrapLoop(s)
          BY <1>3, <4>3, <4>5 DEF Reading
        <4>7. Raw(WrapLoop(s)) < s.loop.end \/ ~WrapLoop(s).playing
          BY <1>3, <4>3, <4>5, WrapIsLawful DEF Finished
        <4>8. ~(Raw(s) < s.loop.end)
          BY <4>3, <4>4
        <4> QED BY <1>3, <2>2, <4>6, <4>7, <4>8
      <3> QED BY <1>2, <3>1, <3>2, <3>3
    <2> QED BY <2>1, <2>2
  <1>6. Follows(h, u)
    <2> HIDE DEF heard, u
    <2>1. h \in Audios /\ h.voices = {} /\ h.scheduled = {} /\ h.covered = 0
      BY <1>5 DEF Audios
    <2> HIDE DEF h
    <2> QED BY <2>1, FS_EmptySet DEF Follows, Lasting, Single, Sounding, Covering
  <1>7. Follows(Tick(h, u), u)
    <2> HIDE DEF h, u, s
    <2> QED BY <1>4, <1>6, TickFollows
  <1>8. Lawful(transport') /\ Follows(audio', transport') /\ Reading(transport') = u
    <2> HIDE DEF h, u, s
    <2> QED BY <1>1, <1>4, <1>7
  <1>9. unread' \in 0 .. MaxLate /\ ops' \in 0 .. MaxOps /\ overtaken' \in BOOLEAN
    BY <1>1, AudioConstants DEF PressPlay, Command, AudioInv
  <1>10. ASSUME ~overtaken'
         PROVE  ideal' = Ideal(u)
    <2>1. Reading(transport) = transport
      BY <1>2 DEF Reading
    <2>2. ideal = Ideal(transport)
      BY <1>1, <1>10, <2>1 DEF AudioInv
    <2>3. ~ideal.playing
      BY <1>2, <2>2, Zenon DEF Ideal
    <2>4. AsRead(ideal) = transport
      BY <1>2, <2>1, <2>2, AsReadBack
    <2> QED BY <2>3, <2>4, Zenon DEF PressPlay
  <1> QED BY <1>8, <1>9, <1>10 DEF AudioInv

LEMMA ReadStep ==
  ASSUME AudioInv, transport' = Reading(transport), unread' = 0, UNCHANGED <<ops, ideal, overtaken>>,
         Follows(audio', Reading(transport))
  PROVE  AudioInv'
  <1>1. Lawful(Reading(transport)) /\ Reading(Reading(transport)) = Reading(transport)
    BY ReadingIsLawful DEF AudioInv
  <1>2. unread' \in 0 .. MaxLate /\ ops' \in 0 .. MaxOps /\ overtaken' \in BOOLEAN
    BY AudioConstants DEF AudioInv
  <1>3. /\ Lawful(transport') /\ Follows(audio', transport')
        /\ ~overtaken' => ideal' = Ideal(Reading(transport'))
    BY <1>1 DEF AudioInv
  <1> QED BY <1>2, <1>3 DEF AudioInv

\* A seek, or a change of loop, of a transport that has just been read is that
\* of the transport itself.
LEMMA SeekAsRead ==
  ASSUME Lawful(transport), ideal = Ideal(transport), NEW p \in 0 .. Duration
  PROVE  Seek(AsRead(ideal), p) = Seek(transport, p)
  <1> DEFINE a == AsRead(ideal)
  <1>1. a = [transport EXCEPT !.base = Raw(transport), !.elapsed = 0]
    BY AsReadBack
  <1> HIDE DEF a
  <1>2. [a EXCEPT !.base = p, !.elapsed = 0] = [transport EXCEPT !.base = p, !.elapsed = 0]
    BY <1>1 DEF Lawful, Transports
  <1> QED BY <1>2, Zenon DEF Seek, a

LEMMA LoopAsRead ==
  ASSUME Lawful(transport), Reading(transport) = transport, ideal = Ideal(transport),
         NEW l \in Loop \cup {None}
  PROVE  Ideal(SetLoop(AsRead(ideal), l)) = Ideal(SetLoop(transport, l))
  <1> DEFINE a == AsRead(ideal)
             u == [transport EXCEPT !.loop = l, !.reps = 0]
             w == [a EXCEPT !.loop = l, !.reps = 0]
  <1>1. SetLoop(AsRead(ideal), l) = Reading(w) /\ SetLoop(transport, l) = Reading(u)
    BY Zenon DEF SetLoop
  <1>2. CASE ~transport.playing
    BY <1>2, AsReadBack
  <1>3. CASE transport.playing
    <2>0. Raw(transport) \in 0 .. Duration /\ Raw(transport) \in Nat
      BY RawIsNat, ReadingIsLawful, ReadIsInside
    <2>1. a = [transport EXCEPT !.base = Raw(transport), !.elapsed = 0]
      BY AsReadBack
    <2> HIDE DEF a
    <2> DEFINE x == Raw(transport)
    <2>2. /\ u \in Transports /\ u.playing /\ u.loop = l /\ u.reps = 0 /\ u.rate = transport.rate
          /\ u.base = transport.base /\ u.elapsed = transport.elapsed
      BY <1>3 DEF Lawful, Transports
    <2>3. /\ w \in Transports /\ w.playing /\ w.loop = l /\ w.reps = 0
          /\ w.rate = transport.rate /\ w.base = x /\ w.elapsed = 0
      BY <1>3, <2>0, <2>1 DEF Lawful, Transports
    <2> HIDE DEF u, w
    <2>4. Raw(u) = x
      BY <2>2, Zenon DEF Raw
    <2> HIDE DEF x
    <2>5. Raw(w) = x
      BY <2>0, <2>3, Typed DEF Raw, x
    <2>6. Ideal(Reading(u)) = Reached(u, x) /\ Ideal(Reading(w)) = Reached(w, x)
      BY <2>2, <2>3, <2>4, <2>5, ReadingReaches DEF Lawful
    <2>7. Reached(u, x) = Reached(w, x)
      BY <2>2, <2>3, Zenon DEF Reached, Looping
    <2> QED BY <1>1, <2>6, <2>7
  <1> QED BY <1>2, <1>3

\* Slowing down changes no position.
LEMMA RateKeepsPlace ==
  ASSUME NEW t, Lawful(t), NEW r \in Rate
  PROVE  Ideal(SetRate(t, r)) = Ideal(Reading(t))
  <1> DEFINE u == Reading(t)
             p == Raw(u)
             w == [u EXCEPT !.rate = r, !.base = p, !.elapsed = 0]
  <1>1. Lawful(u) /\ Settled(u) /\ p \in 0 .. Duration
    BY ReadingIsLawful, ReadIsInside
  <1>2. SetRate(t, r) = Reading(w)
    BY Zenon DEF SetRate
  <1> HIDE DEF u
  <1>3. p \in Nat
    BY <1>1, Typed
  <1>4. p = Raw(u)
    OBVIOUS
  <1> HIDE DEF p
  <1>5. /\ w \in Transports /\ w.elapsed = 0 /\ w.base = p /\ w.rate = r
        /\ w.loop = u.loop /\ w.reps = u.reps /\ w.playing = u.playing
    BY <1>1 DEF Lawful, Transports
  <1> HIDE DEF w
  <1>6. Lawful(w)
    BY <1>5 DEF Lawful
  <1>7. Raw(w) = p
    BY <1>3, <1>5, <1>6, Typed DEF Raw
  <1>8. Settled(w)
    BY <1>1, <1>4, <1>5, <1>7 DEF Settled, Looping
  <1>9. Reading(w) = w
    BY <1>6, <1>8, SettledIsRead
  <1>10. Ideal(w) = Ideal(u)
    BY <1>4, <1>5, <1>7, Zenon DEF Ideal
  <1> QED BY <1>2, <1>9, <1>10 DEF u

LEMMA StepIsLawful == AudioInv /\ [Next]_vars => AudioInv'
  <1> SUFFICES ASSUME AudioInv, [Next]_vars PROVE AudioInv'
    OBVIOUS
  <1>0. Lawful(transport) /\ Follows(audio, transport) /\ audio \in Audios
        /\ overtaken \in BOOLEAN /\ (~overtaken => ideal = Ideal(Reading(transport)))
    BY DEF AudioInv, Follows
  <1>1. CASE PressPlay
    BY <1>1, PlayStep
  <1>2. CASE PressPause
    <2> DEFINE v == Reading(transport)
               u == Pause(transport)
    <2>1. Commanded(u) /\ ~u.playing
      BY <1>0, CommandsAreLawful
    <2>2. u = Stopped(v, Raw(v))
      BY Zenon DEF Pause
    <2>3. Lawful(v) /\ Raw(v) \in 0 .. Duration
      BY <1>0, ReadingIsLawful, ReadIsInside
    <2> HIDE DEF v
    <2>4. Raw(u) = Raw(v) /\ u.reps = v.reps
      BY <2>2, <2>3, StoppedIsLawful
    <2>5. Ideal(u) = [position |-> Raw(v), reps |-> v.reps, playing |-> FALSE]
      BY <2>1, <2>4, IdealOf DEF Commanded
    <2>7. ideal' = [ideal EXCEPT !.playing = FALSE] /\ overtaken' = overtaken
      BY <1>2, Zenon DEF PressPause
    <2>8. ASSUME ~overtaken'
          PROVE  ideal' = Ideal(u)
      <3> DEFINE off == FALSE
                 place == Raw(v)
                 reps == v.reps
                 was == v.playing
      <3>1. Ideal(u) = [position |-> place, reps |-> reps, playing |-> off]
        BY <2>5
      <3>2. ideal = [position |-> place, reps |-> reps, playing |-> was]
        BY <1>0, <2>7, <2>8 DEF v, Ideal
      <3>3. ideal' = [ideal EXCEPT !.playing = off]
        BY <2>7
      <3> HIDE DEF off, place, reps, was
      <3> QED BY <3>1, <3>2, <3>3
    <2> QED BY <1>0, <1>2, <2>1, <2>7, <2>8, PanicStep DEF PressPause
  <1>3. CASE PressRestart
    BY <1>0, <1>3, CommandsAreLawful, PanicStep DEF PressRestart, Command
  <1>4. CASE SetEnabled
    <2>1. UNCHANGED <<transport, unread, ideal, overtaken>> /\ ops' \in 0 .. MaxOps
      BY <1>4, AudioConstants DEF SetEnabled, AudioInv
    <2>2. Follows(audio', transport)
      <3>1. CASE audio.enabled
        <4>1. audio' = [Panic(audio) EXCEPT !.enabled = ~@]
          BY <1>4, <3>1, Zenon DEF SetEnabled
        <4> QED BY <1>0, <4>1, PanicFollows
      <3>2. CASE ~audio.enabled
        <4>1. audio' = [audio EXCEPT !.enabled = ~@]
          BY <1>4, <3>2, Zenon DEF SetEnabled
        <4>2. audio' \in Audios /\ audio'.scheduled = audio.scheduled
              /\ audio'.voices = audio.voices /\ audio'.covered = audio.covered
          BY <1>0, <4>1 DEF Audios
        <4>3. \A v \in audio.voices : v.stray
          BY <1>0, <3>2 DEF Follows, Lasting
        <4> QED BY <1>0, <4>2, <4>3 DEF Follows, Lasting, Single, Sounding, Covering
      <3> QED BY <3>1, <3>2
    <2> QED BY <1>0, <2>1, <2>2 DEF AudioInv
  <1>5. ASSUME NEW p \in 0 .. Duration, MoveTo(p)
        PROVE  AudioInv'
    <2>1. Commanded(Seek(transport, p))
      BY <1>0, CommandsAreLawful
    <2>2. overtaken' \in BOOLEAN
      BY <1>5 DEF MoveTo, Overtake
    <2>3. ASSUME ~overtaken'
          PROVE  ideal' = Ideal(Seek(transport, p))
      <3>1. ideal = Ideal(transport) /\ Reading(transport) = transport
        BY <1>0, <1>5, <2>3 DEF MoveTo, Overtake
      <3> QED BY <1>0, <1>5, <3>1, SeekAsRead DEF MoveTo
    <2> QED BY <1>5, <2>1, <2>2, <2>3, PanicStep DEF MoveTo
  <1>6. ASSUME NEW r \in Rate, ChooseRate(r)
        PROVE  AudioInv'
    <2>1. Commanded(SetRate(transport, r))
      BY <1>0, CommandsAreLawful
    <2>2. overtaken' \in BOOLEAN /\ (~overtaken' => ideal' = Ideal(SetRate(transport, r)))
      BY <1>0, <1>6, RateKeepsPlace DEF ChooseRate
    <2> QED BY <1>6, <2>1, <2>2, PanicStep DEF ChooseRate
  <1>7. ASSUME NEW l \in Loop \cup {None}, ChooseLoop(l)
        PROVE  AudioInv'
    <2>1. Commanded(SetLoop(transport, l))
      BY <1>0, CommandsAreLawful
    <2>2. overtaken' \in BOOLEAN
      BY <1>7 DEF ChooseLoop, Overtake
    <2>3. ASSUME ~overtaken'
          PROVE  ideal' = Ideal(SetLoop(transport, l))
      <3>1. ideal = Ideal(transport) /\ Reading(transport) = transport
        BY <1>0, <1>7, <2>3 DEF ChooseLoop, Overtake
      <3> QED BY <1>0, <1>7, <3>1, LoopAsRead DEF ChooseLoop
    <2> QED BY <1>7, <2>1, <2>2, <2>3, PanicStep DEF ChooseLoop
  <1>8. CASE Frame
    <2>1. Follows(Heard(audio, transport), Reading(transport))
      <3>1. CASE transport.playing
        BY <1>0, <3>1, HeardFollows
      <3>2. CASE ~transport.playing
        BY <1>0, <3>2, Zenon DEF Heard, Reading
      <3> QED BY <3>1, <3>2
    <2> QED BY <1>8, <2>1, ReadStep DEF Frame
  <1>9. CASE TimerTick
    <2>1. Follows(Tick(audio, transport), Reading(transport))
      BY <1>0, <1>9, TickFollows DEF TimerTick
    <2> QED BY <1>9, <2>1, ReadStep DEF TimerTick
  <1>10. CASE Advance
    <2>1. /\ Lawful(transport')
          /\ transport.playing => Raw(transport') = Raw(transport) + transport.rate
          /\ transport'.playing = transport.playing /\ transport'.rate = transport.rate
          /\ ~transport.playing => transport' = transport
      BY <1>0, <1>10, AdvanceIsLawful
    <2>2. Follows(audio', transport')
      BY <1>0, <1>10, <2>1, AdvanceFollows
    <2>3. unread' \in 0 .. MaxLate /\ ops' \in 0 .. MaxOps
      <3>1. unread \in Nat /\ unread < MaxLate /\ MaxLate \in Nat /\ ops' = ops
            /\ unread' = IF transport.playing THEN unread + 1 ELSE 0
        BY <1>10, AudioConstants DEF Advance, AudioInv
      <3> QED BY <3>1 DEF AudioInv
    <2>4. overtaken' = overtaken /\ (~overtaken' => ideal' = Ideal(Reading(transport')))
      <3>1. overtaken' = overtaken
        BY <1>10, Zenon DEF Advance
      <3> QED BY <1>0, <1>10, <3>1, AdvanceDoesNotDrift
    <2> QED BY <1>0, <2>1, <2>2, <2>3, <2>4 DEF AudioInv
  <1>11. CASE UNCHANGED vars
    BY <1>11 DEF vars, AudioInv
  <1> QED BY <1>1, <1>2, <1>3, <1>4, <1>5, <1>6, <1>7, <1>8, <1>9, <1>10, <1>11 DEF Next

LEMMA AudioIsLawful == Spec => []AudioInv
  BY InitIsLawful, StepIsLawful, PTL DEF Spec

-----------------------------------------------------------------------------
(* What the runs check *)

\* Whenever the transport is read, however late and after whatever plays, pauses,
\* wraps and changes of rate, it is where a transport read at every instant would
\* be, as long as no seek and no change of loop has overtaken the notice of an end
\* (the anchors of transport.js never drift).
THEOREM AnchorsNeverDrift == Spec => []ReadingsDoNotDrift
  <1>1. ASSUME AudioInv
        PROVE  ReadingsDoNotDrift
    <2> DEFINE t == Reading(transport)
    <2>0. SUFFICES ASSUME ~overtaken
                   PROVE  /\ Raw(t) = ideal.position /\ t.reps = ideal.reps
                          /\ t.playing = ideal.playing
      BY Zenon DEF ReadingsDoNotDrift
    <2>1. ideal = [position |-> Raw(t), reps |-> t.reps, playing |-> t.playing]
      BY <1>1, <2>0, Zenon DEF AudioInv, Ideal
    <2> HIDE DEF t
    <2>2. Raw(t) = ideal.position /\ t.reps = ideal.reps
      BY <2>1
    <2>3. t.playing = ideal.playing
      BY <2>1
    <2> QED BY <2>2, <2>3, Zenon
  <1> QED BY <1>1, AudioIsLawful, PTL

LEMMA AudioIsTyped == AudioInv => AudioTypeOK
  <1> SUFFICES ASSUME AudioInv PROVE AudioTypeOK
    OBVIOUS
  <1>1. TransportTypeOK
    BY DEF AudioInv, Lawful, Transports, TransportTypeOK
  <1>2. audio \in Audios /\ \A v \in audio.voices : v.event \in audio.scheduled
    BY DEF AudioInv, Follows
  <1> DEFINE Named == [event : audio.scheduled, start : Nat, release : Nat \ {0},
                       nth : Nat, stray : BOOLEAN]
  <1>3. audio.voices \subseteq Named
    <2>1. \A v \in Voices : v.event \in audio.scheduled => v \in Named
      BY DEF Voices
    <2>2. audio.voices \subseteq Voices
      BY <1>2 DEF Audios
    <2> HIDE DEF Named
    <2> QED BY <1>2, <2>1, <2>2
  <1> HIDE DEF Named
  <1>4. audio \in [enabled : BOOLEAN, scheduled : SUBSET DOMAIN Plan,
                   voices : SUBSET Named, covered : 0 .. Lookahead]
    BY <1>2, <1>3 DEF Audios
  <1> QED BY <1>1, <1>4 DEF AudioInv, AudioTypeOK, Named

\* Each voice Web Audio has been given starts and releases when the transport
\* gets to that place of the lesson, whatever the player did meanwhile, and a
\* stopped transport is silent (audio_scheduler.js, audio.js).
THEOREM VoicesFollowTheLesson == Spec => []SoundFollowsTransport
  <1>1. AudioInv => SoundFollowsTransport
    BY AudioIsTyped DEF AudioInv, Follows, Lasting, InPlace, SoundFollowsTransport
  <1> QED BY <1>1, AudioIsLawful, PTL

\* While the ticks come within the look ahead, every note of the place reached
\* has been given to Web Audio in time, and none sounds twice at once.
THEOREM NotesSoundOnce == Spec => []EachNoteOnce
  <1>1. ASSUME AudioInv
        PROVE  EachNoteOnce
    <2>1. Lawful(transport) /\ Follows(audio, transport) /\ audio \in Audios
      BY <1>1 DEF AudioInv, Follows
    <2>2. ASSUME transport.playing, audio.covered > 0, NEW e \in DOMAIN Plan,
                 Plan[e].onset <= Raw(transport), Raw(transport) < Plan[e].release
          PROVE  \E v \in audio.voices : v.event = e /\ v.start = 0
      <3> DEFINE x == Raw(transport)
                 r == transport.rate
                 c == audio.covered
      <3>1. x \in Nat /\ r \in Nat \ {0} /\ c \in Nat /\ c > 0 /\ Unit \in Nat \ {0}
            /\ Plan[e].onset \in Nat /\ Plan[e].release \in Nat
        BY <2>1, <2>2, RawIsNat, Typed, PlanTyped, AudioConstants DEF Audios
      <3>2. c * r > 0
        BY <3>1
      <3>3. Plan[e].onset < x + c * r
        <4>1. c * r \in Nat
          BY <3>1
        <4> QED BY <2>2, <3>1, <3>2, <4>1
      <3>4. e \in audio.scheduled
        BY <2>1, <2>2, <3>1, <3>3 DEF Follows, Covering
      <3>5. PICK v \in audio.voices : v.event = e
        BY <2>1, <2>2, <3>1, <3>4 DEF Follows, Sounding
      <3>6. v.start \in Nat /\ (v.start > 0 => x * Unit + v.start * r = Plan[e].onset * Unit)
        <4>1. v.start \in Nat
          BY <2>1 DEF Audios, Voices
        <4>2. InPlace(v, transport)
          BY <2>1, <2>2 DEF Follows, Lasting, Finished
        <4> QED BY <3>5, <4>1, <4>2 DEF InPlace
      <3>7. v.start = 0
        <4>1. SUFFICES ASSUME v.start > 0 PROVE FALSE
          BY <3>6
        <4> HIDE DEF x, r, c
        <4>2. v.start * r > 0 /\ v.start * r \in Nat
          BY <3>1, <3>6, <4>1
        <4>3. Plan[e].onset * Unit <= x * Unit
          <5>1. Plan[e].onset <= x
            BY <2>2 DEF x
          <5>2. \A y, z, w \in Nat : y <= z => y * w <= z * w
            OBVIOUS
          <5> QED BY <3>1, <5>1, <5>2
        <4>4. x * Unit \in Nat /\ Plan[e].onset * Unit \in Nat
          BY <3>1
        <4> QED BY <3>6, <4>1, <4>2, <4>3, <4>4
      <3> QED BY <3>5, <3>7
    <2>3. \A v, w \in audio.voices : v.event = w.event => v = w
      BY <2>1 DEF Follows, Single
    <2> QED BY <2>2, <2>3, Zenon DEF EachNoteOnce
  <1> QED BY <1>1, AudioIsLawful, PTL
=============================================================================
