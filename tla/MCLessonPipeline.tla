-------------------------- MODULE MCLessonPipeline --------------------------
(* Two strings of the guitar and one of the fretless bass, with the pitches *)
(* and frets of their profiles; lessons of two notes at the corpus' finest   *)
(* resolution, 96 ticks a quarter.                                           *)
EXTENDS LessonPipeline

String(id, order, open, max) ==
    [id |-> id, order |-> order, open |-> open, max |-> max, enabled |-> TRUE]

MCProfiles ==
    [guitar |-> [id |-> "guitar", mode |-> "fretted", frets |-> 22,
                 strings |-> {String("string-1", 5, 64, 22),
                              String("string-2", 4, 59, 22)}],
     bass   |-> [id |-> "bass", mode |-> "fretless", frets |-> None,
                 strings |-> {String("string-1", 3, 43, 24)}]]

Event(i, n, t, d) == [id |-> i, note |-> n, tick |-> t, duration |-> d]

\* After a first note, which may come after a silence: one held inside it and
\* one that overlaps it, one that follows later, one past a barline and of no
\* written value.
EventLists ==
    {<<Event(1, n, a, 192)>> \o rest :
        n \in {59, 64}, a \in {0, 48},
        rest \in {<<Event(2, 81, 48, 96), Event(3, 64, 168, 48)>>, <<Event(2, 90, 240, 48)>>,
                  <<Event(2, 81, 480, 100)>>}}

At(t, q) == [tick |-> t, mpq |-> q]
Signature(t, n, d) == [tick |-> t, numerator |-> n, denominator |-> d]

MCTempoMaps ==
    {<<>>, <<At(0, 500000), At(100, 333333)>>, <<At(0, 500000), At(100, 400000)>>,
     <<At(96, 400000)>>, <<At(0, 500000), At(100, 333333), At(100, 400000)>>}

MeterMaps ==
    {<<>>, <<Signature(0, 3, 4), Signature(288, 2, 4)>>,
     <<Signature(0, 4, 4), Signature(336, 3, 4)>>, <<Signature(48, 3, 4)>>}

MCAuthored ==
    {Assignment(96, es, ts, ms) : es \in EventLists, ts \in MCTempoMaps, ms \in MeterMaps}

\* The higher string, where both notes are to be had; a position that sounds
\* something else; an event there is not.
MCOverrides ==
    {[id |-> 1, string |-> "string-1", fret |-> 0], [id |-> 2, string |-> "string-1", fret |-> 17],
     [id |-> 2, string |-> "string-2", fret |-> 0], [id |-> 4, string |-> "string-1", fret |-> 0]}

MCGuidances ==
    {[open |-> o, fretMin |-> None, fretMax |-> 4] : o \in {"exclude", "avoid"}}
    \cup {[open |-> "prefer", fretMin |-> 5, fretMax |-> None],
          [open |-> "allow", fretMin |-> 5, fretMax |-> 4]}

MCPlaybacks ==
    {[AsWritten EXCEPT !.tempo = 200000],
     [AsWritten EXCEPT !.start = 48, !.end = 200, !.loop = TRUE, !.countIn = 1],
     [AsWritten EXCEPT !.end = 480, !.countIn = 3], [AsWritten EXCEPT !.loop = TRUE]}

MCKeys == {<<0, 64>>, <<1, 64>>}
MCSignatures == {[numerator |-> 3, denominator |-> 4]}
=============================================================================
