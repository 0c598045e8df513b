---------------------------- MODULE ScoreTiming ----------------------------
(***************************************************************************)
(* The integer arithmetic of musical time: the rounding rule every          *)
(* conversion uses, capture nanoseconds to ticks at one tempo, and ticks to *)
(* microseconds and back across a tempo map.                                *)
(*                                                                         *)
(* A tempo change is [tick, mpq], mpq being microseconds per quarter note;  *)
(* ppq is ticks per quarter.  The code's seconds are floats made from whole *)
(* microseconds, and rounded back to whole microseconds when they are read, *)
(* so a time is its number of microseconds here; a capture's nanoseconds are *)
(* taken a thousand at a time.                                              *)
(***************************************************************************)
EXTENDS Integers, Sequences, SequencesExt

\* Half way goes away from zero, whatever the sign.
DivideRounded(n, d) ==
    IF n >= 0 THEN (2 * n + d) \div (2 * d) ELSE -((-2 * n + d) \div (2 * d))

-----------------------------------------------------------------------------
(* Elapsed time of a capture, in whole microseconds, at one tempo *)

NanosecondsToTicks(us, ppq, mpq) == DivideRounded(us * ppq, mpq)

TicksToNanoseconds(ticks, ppq, mpq) == DivideRounded(ticks * mpq, ppq)

\* What a conversion lost, kept with every converted event.
RoundingDelta(us, ppq, mpq) ==
    us - TicksToNanoseconds(NanosecondsToTicks(us, ppq, mpq), ppq, mpq)

\* A duration that rounds to nothing is refused, never widened to a tick.
ConvertibleDuration(onset, release, ppq, mpq) ==
    release >= onset /\ NanosecondsToTicks(release - onset, ppq, mpq) >= 1

\* Microseconds per quarter note, of a tempo in tenths of a beat per minute.
TempoFromBpm(tenths) == DivideRounded(600000000, tenths)

-----------------------------------------------------------------------------
(* Tempo and meter maps *)

ByTick(a, b) == a.tick < b.tick

\* The changes of a map in order; of several at one tick the last stays.
LastPerTick(changes) ==
    SetToSortSeq(
        {changes[i] : i \in {j \in DOMAIN changes :
            \A k \in DOMAIN changes : k > j => changes[k].tick # changes[j].tick}},
        ByTick)

StartsAtZero(changes) == changes # <<>> /\ changes[1].tick = 0

StrictlyOrdered(changes) ==
    \A i \in 1 .. Len(changes) - 1 : changes[i].tick < changes[i + 1].tick

SegmentMicroseconds(ticks, ppq, mpq) == DivideRounded(ticks * mpq, ppq)

\* Each tempo segment before the tick is rounded on its own.
TicksToMicroseconds(tick, ppq, changes) ==
    LET map     == LastPerTick(changes)
        upto(i) == IF i < Len(map) THEN Min({tick, map[i + 1].tick}) ELSE tick
        passed  == {i \in DOMAIN map : map[i].tick < tick}
    IN MapThenSumSet(LAMBDA i : SegmentMicroseconds(upto(i) - map[i].tick, ppq, map[i].mpq),
                     passed)

\* Wrong on purpose: the tempo of the first segment is used throughout.
MicrosecondsByFirstTempo(us, ppq, changes) == DivideRounded(us * ppq, changes[1].mpq)
\* The first segment whose end is not before the time holds it.
MicrosecondsToTicks(us, ppq, changes) ==
    LET map   == LastPerTick(changes)
        at(j) == TicksToMicroseconds(map[j].tick, ppq, map)
        i     == Min({j \in DOMAIN map : j = Len(map) \/ us <= at(j + 1)})
    IN map[i].tick + DivideRounded((us - at(i)) * ppq, map[i].mpq)

=============================================================================
