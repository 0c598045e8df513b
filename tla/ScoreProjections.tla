-------------------------- MODULE ScoreProjections --------------------------
(***************************************************************************)
(* What Core derives from a score revision: its notation and its tablature. *)
(* Both read the revision and nothing else of the lesson; a tablature also  *)
(* takes the positions somebody has chosen.                                 *)
(*                                                                         *)
(* A revision is [document, ppq, events, tempos, meters], its events a set  *)
(* of [id, note, tick, duration].  A revision id is a digest of exactly     *)
(* these, so the record is its own id.  A projection keeps its entries as a *)
(* set: the code sorts them by fields they have.                            *)
(***************************************************************************)
EXTENDS ScoreTiming, FiniteSets

CONSTANTS None, SupportedPpq

End(e) == e.tick + e.duration

TotalTicks(events) == Max({End(e) : e \in events} \cup {0})

\* What constructing a revision requires of its maps.
ValidRevision(r) ==
    /\ r.ppq \in SupportedPpq
    /\ StartsAtZero(r.tempos) /\ StrictlyOrdered(r.tempos)
    /\ StartsAtZero(r.meters) /\ StrictlyOrdered(r.meters)

-----------------------------------------------------------------------------
(* Measures *)

MeasureIsWhole(meter, ppq) == (meter.numerator * 4 * ppq) % meter.denominator = 0

MeasureLength(meter, ppq) == (meter.numerator * 4 * ppq) \div meter.denominator

\* The measures of one meter, from its own tick until the next meter's.  The
\* last of them has its full length, whether or not the next meter cuts it.
SectionMeasures(i, meters, ppq, end) ==
    LET from   == meters[i].tick
        until  == IF i < Len(meters) THEN meters[i + 1].tick ELSE end
        length == MeasureLength(meters[i], ppq)
        count  == IF until <= from THEN 0 ELSE (until - from + length - 1) \div length
    IN [k \in 1 .. count |-> [start |-> from + (k - 1) * length, end |-> from + k * length]]

\* partition_events_into_measures
Measures(r) ==
    LET end == Max({TotalTicks(r.events), 1})
    IN FlattenSeq([i \in DOMAIN r.meters |-> SectionMeasures(i, r.meters, r.ppq, end)])

\* The first measure that holds the tick, else the last one.
MeasureOf(tick, measures) ==
    Min({i \in DOMAIN measures : measures[i].start <= tick /\ tick < measures[i].end}
        \cup {Len(measures)})

-----------------------------------------------------------------------------
(* Silence is where nothing sounds, not the gap between two onsets. *)

SpanOrder(a, b) == a[1] < b[1] \/ (a[1] = b[1] /\ a[2] < b[2])

Spans(events) == SetToSortSeq({<<e.tick, End(e)>> : e \in events}, SpanOrder)

Passed(acc, span) ==
    [cursor |-> Max({acc.cursor, span[2]}),
     gaps   |-> IF span[1] > acc.cursor THEN acc.gaps \cup {<<acc.cursor, span[1]>>}
                                        ELSE acc.gaps]

\* derive_global_silence_intervals, up to the end of the last note
Silences(events) ==
    FoldLeft(Passed, [cursor |-> 0, gaps |-> {}], Spans(events)).gaps

\* _has_overlapping_notes, which looks at neighbours in the order of spans
Overlapping(events) ==
    \E a, b \in events : a # b /\ a.tick <= b.tick /\ b.tick < End(a)

-----------------------------------------------------------------------------
(* Notation *)

\* The values a note can be written with, in sixteenths of a quarter note.
WrittenValues == {64, 96, 32, 48, 16, 24, 8, 12, 4, 6, 2, 3}

Writable(ticks, ppq) == \E v \in WrittenValues : 16 * ticks = v * ppq

NotationNotes(r) ==
    {[kind |-> "note", id |-> e.id, note |-> e.note, start |-> e.tick, duration |-> e.duration,
      measure |-> MeasureOf(e.tick, Measures(r))] : e \in r.events}

\* A silence is written measure by measure.
NotationRests(r) ==
    LET measures == Measures(r)
        from(s, i)  == Max({s[1], measures[i].start})
        until(s, i) == Min({s[2], measures[i].end})
    IN {[kind |-> "rest", start |-> from(p[1], p[2]),
         duration |-> until(p[1], p[2]) - from(p[1], p[2]), measure |-> p[2]] :
           p \in {q \in Silences(r.events) \X DOMAIN measures :
                     from(q[1], q[2]) < until(q[1], q[2])}}

\* What notation cannot say is reported, and the exact duration kept.
Unwritable(r) ==
    {<<"value", x.start>> : x \in {y \in NotationNotes(r) \cup NotationRests(r) :
                                     ~Writable(y.duration, r.ppq)}}
    \cup {<<"tie", x.id>> : x \in {y \in NotationNotes(r) :
                                     y.start + y.duration > Measures(r)[y.measure].end}}
    \cup (IF Overlapping(r.events) THEN {<<"voices">>} ELSE {})

Notation(r) ==
    [revision |-> r, measures |-> Measures(r), entries |-> NotationNotes(r) \cup NotationRests(r),
     unsupported |-> Unwritable(r)]

-----------------------------------------------------------------------------
(* Tablature.  selected: event id -> [position, reason], one of them None,  *)
(* or both, for an event nobody has decided.                                *)

TabStatus(s) ==
    IF s.position # None THEN "playable" ELSE IF s.reason # None THEN "unplayable" ELSE "unresolved"

\* A position that sounds another pitch is refused.
TabAccepts(r, selected) ==
    \A e \in r.events : selected[e.id].position # None =>
        selected[e.id].position.sounding = e.note

Tab(r, selected) ==
    [revision |-> r,
     entries  |-> {[id |-> e.id, note |-> e.note, start |-> e.tick, duration |-> e.duration,
                    status |-> TabStatus(selected[e.id]),
                    position |-> selected[e.id].position] : e \in r.events}]

-----------------------------------------------------------------------------
(* What the projections' own contracts demand of them *)

TabEventComplete(x) ==
    /\ x.start >= 0 /\ x.duration > 0 /\ x.note \in 0 .. 127
    /\ x.status = "playable" => x.position # None /\ x.position.fret # None
    /\ x.status # "playable" => x.position = None

TabContract(t) ==
    /\ \A x \in t.entries : TabEventComplete(x)
    /\ \A x, y \in t.entries : x.id = y.id => x = y

NotationEntryComplete(x) == x.start >= 0 /\ x.duration > 0

NotationContract(n) ==
    /\ \A x \in n.entries : NotationEntryComplete(x) /\ x.measure \in DOMAIN n.measures
    /\ \A m \in Range(n.measures) : m.start < m.end
=============================================================================
