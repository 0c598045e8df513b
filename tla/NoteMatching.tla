---------------------------- MODULE NoteMatching ----------------------------
(***************************************************************************)
(* From a capture to measurements: note messages are paired first in, first *)
(* out, the notes are placed on the lesson's time, and each expected note   *)
(* of each repetition takes the best observed note in its window.           *)
(*                                                                         *)
(* An event is one of CaptureRecord with an id of its own; its key is its   *)
(* device, channel and pitch, and within one lesson its pitch.  A lesson is *)
(* [ppq, tempos, expected], expected being a sequence of [id, pitch, tick]. *)
(* Times are microseconds, the differences that are judged milliseconds.    *)
(***************************************************************************)
EXTENDS CaptureRecord, ScoreTiming

CONSTANTS
    EarlyWindow, LateWindow,   \* milliseconds
    AllowPitchMismatch, PitchDistance,
    Nothing                    \* the value a row or a finding does not have

-----------------------------------------------------------------------------
(* Pairing *)

BuildNote(on, off, place) ==
    [on       |-> on.id,
     off      |-> IF off = Nothing THEN Nothing ELSE off.id,
     key      |-> on.key,
     velocity |-> on.velocity,
     from     |-> on.at,
     until    |-> IF off = Nothing THEN Absent ELSE off.at,
     complete |-> off # Nothing,
     rep      |-> place.rep,
     onset    |-> place.onset]

NoteContract(n) ==
    /\ n.velocity \in 1 .. 127 /\ n.rep >= 0
    /\ n.complete => n.until >= n.from
    /\ n.onset # Absent => n.onset >= 0

\* What waits for a release, what has found one, and releases of nothing.
Unpaired == [waiting |-> <<>>, pairs |-> {}, unmatched |-> <<>>]

\* Wrong on purpose: a release takes the note of its key that was struck last.
ReleasedLast(waiting, e) == Max({j \in DOMAIN waiting : waiting[j].key = e.key})
\* A release takes the note of its key that has waited longest.
Released(waiting, e) == Min({j \in DOMAIN waiting : waiting[j].key = e.key})

Hear(s, e) ==
    IF e.type \notin NoteTypes THEN s
    ELSE IF ~Releases(e) THEN [s EXCEPT !.waiting = Append(@, e)]
    ELSE IF \A j \in DOMAIN s.waiting : s.waiting[j].key # e.key
    THEN [s EXCEPT !.unmatched = Append(@, e)]
    ELSE LET j == Released(s.waiting, e)
         IN [s EXCEPT !.waiting = RemoveAt(@, j), !.pairs = @ \cup {<<s.waiting[j], e>>}]

\* The state of the pairing after each event.
HearAll(events) ==
    LET after[k \in 0 .. Len(events)] ==
            IF k = 0 THEN Unpaired ELSE Hear(after[k - 1], events[k])
    IN after[Len(events)]

\* The ids of events struck at one instant are random: their numbers stand in.
AsStruck(pairs) ==
    CHOOSE list \in [1 .. Cardinality(pairs) -> pairs] :
        \A i, j \in DOMAIN list :
            i < j => list[i] # list[j] /\ list[i][1].seq <= list[j][1].seq

\* Notes in the order they were struck; what was never released stays open.
PairMidiNotes(capture, placeOf) ==
    LET heard  == HearAll(capture.events)
        open   == {<<heard.waiting[j], Nothing>> : j \in DOMAIN heard.waiting}
        struck == AsStruck(heard.pairs \cup open)
    IN [notes     |-> [i \in DOMAIN struck |->
                          BuildNote(struck[i][1], struck[i][2], placeOf[struck[i][1].id])],
        unmatched |-> heard.unmatched]

-----------------------------------------------------------------------------
(* Alignment *)

\* A turn is an expected note in one repetition, with the time it is due.
TurnOf(e, rep, lesson) ==
    [event |-> e, rep |-> rep, due |-> TicksToMicroseconds(e.tick, lesson.ppq, lesson.tempos)]

\* round(): half a millisecond goes to the even one.
Milliseconds(us) ==
    LET whole == us \div 1000
    IN CASE us % 1000 < 500 -> whole
         [] us % 1000 > 500 -> whole + 1
         [] OTHER           -> whole + (whole % 2)

TimingDelta(note, turn) == Milliseconds(note.onset - turn.due)
PitchDelta(note, e) == note.key - e.pitch
Distance(n) == IF n < 0 THEN -n ELSE n

\* Whether an observed note may stand for an expected one.
MayMatch(note, turn) ==
    /\ note.rep = turn.rep /\ note.onset # Absent
    /\ TimingDelta(note, turn) \in -EarlyWindow .. LateWindow
    /\ \/ PitchDelta(note, turn.event) = 0
       \/ AllowPitchMismatch /\ Distance(PitchDelta(note, turn.event)) <= PitchDistance

Candidates(left, notes, turn) == {i \in left : MayMatch(notes[i], turn)}

\* The right pitch first, then the smaller difference, then the smaller id.
Rank(note, id, turn) ==
    <<IF PitchDelta(note, turn.event) = 0 THEN 0 ELSE 1, Distance(TimingDelta(note, turn)), id>>

RanksBefore(p, q) == \E n \in 1 .. 3 : p[n] < q[n] /\ \A m \in 1 .. n - 1 : p[m] = q[m]

Best(set, notes, ids, turn) ==
    CHOOSE i \in set : \A j \in set \ {i} :
        RanksBefore(Rank(notes[i], ids[i], turn), Rank(notes[j], ids[j], turn))

Missing(turn) ==
    [status |-> "EXPECTED_NOT_OBSERVED", expected |-> turn.event.id, observed |-> Nothing,
     rep |-> turn.rep, delta |-> Nothing, pitch |-> Nothing, tick |-> turn.event.tick]

Extra(i, note) ==
    [status |-> "OBSERVED_NOT_EXPECTED", expected |-> Nothing, observed |-> i,
     rep |-> note.rep, delta |-> Nothing, pitch |-> Nothing, tick |-> Nothing]

MatchStatus(note, e) ==
    CASE ~note.complete            -> "UNRESOLVED_CAPTURE"
      [] PitchDelta(note, e) = 0   -> "MATCHED_EXACT_PITCH"
      [] OTHER                     -> "MATCHED_PITCH_DIFFERENCE"

Match(i, note, turn) ==
    [status |-> MatchStatus(note, turn.event), expected |-> turn.event.id, observed |-> i,
     rep |-> turn.rep, delta |-> TimingDelta(note, turn),
     pitch |-> PitchDelta(note, turn.event), tick |-> turn.event.tick]

Take(s, i, row) == [left |-> s.left \ {i}, rows |-> Append(s.rows, row)]

\* Every expected note of every repetition in turn, then what is left over.
AlignPerformance(lesson, notes, ids, repetitions) ==
    LET n     == Len(lesson.expected)
        turns == [k \in 1 .. n * repetitions |->
                     TurnOf(lesson.expected[((k - 1) % n) + 1], (k - 1) \div n, lesson)]
        Serve(s, turn) ==
            LET found == Candidates(s.left, notes, turn)
            IN IF found = {} THEN [s EXCEPT !.rows = Append(@, Missing(turn))]
               ELSE LET i == Best(found, notes, ids, turn)
                    IN Take(s, i, Match(i, notes[i], turn))
        Over(rest) == LET i == SetToSortSeq(rest, <)
                      IN [k \in DOMAIN i |-> Extra(i[k], notes[i[k]])]
        Rows(s)    == s.rows \o Over(s.left)
    IN Rows(FoldLeft(Serve, [left |-> DOMAIN notes, rows |-> <<>>], turns))

=============================================================================
