--------------------------- MODULE LocalPractice ---------------------------
(***************************************************************************)
(* The demo page's practice attempt and the two local services behind it:   *)
(* the capture of MIDI messages and the evaluation of what was captured.    *)
(*                                                                         *)
(* The page sends every MIDI message as a request of its own and waits for  *)
(* none of them; the server gives each request a thread, and neither        *)
(* service has a lock.  So a call is a record whose steps are the places    *)
(* where its handler reads or writes what the service keeps.                *)
(*                                                                         *)
(* The ids of calls, captures and events are never given twice: a call is   *)
(* known by its kind and number, a capture by its attempt's, an event by its *)
(* message's.                                                                *)
(* `sent' and `quiet' are history variables: what the page has sent since   *)
(* the program began, and the performance whose calls never overlapped.     *)
(***************************************************************************)
EXTENDS PracticeEvaluation

CONSTANTS
    Lessons,       \* ids of lessons the page may load
    LessonOf,      \* their content, as NoteMatching reads it
    Inputs,        \* MIDI messages the device may send: [type, key, velocity]
    Step,          \* microseconds in a step of time
    Gaps,          \* steps that may pass between two readings of the clock
    LoopSteps,     \* steps of one pass of the practice loop
    PracticeRates, \* rates the transport may run at when an attempt is judged
    Budgets,       \* what a session may hold: [time, messages, takes, loads]
    MaxCalls,      \* calls under way at once
    None           \* no capture, no lesson, no performance

\* What a capture can hold of messages, and what a service can hold of captures.
Messages == [seq : Int, id : Nat, type : NoteTypes, key : 0 .. 127, velocity : 0 .. 127,
             at : Nat, string : {Absent}]
Captures == [id : Nat, state : CompletionStates, ended : BOOLEAN, events : Seq(Messages),
             faults : {<<>>}, warnings : {<<>>}]

\* The data bytes of a MIDI message have seven bits, a clock does not go back.
ASSUME PracticeConstants ==
    /\ Inputs \subseteq [type : NoteTypes, key : 0 .. 127, velocity : 0 .. 127]
    /\ Step \in Nat /\ Gaps \subseteq Nat /\ LoopSteps \in Nat \ {0}
    /\ None \notin Captures

VARIABLES
    capture,       \* LocalPerformanceCaptureApi.capture
    repetitions,   \* its repetitions, by event
    onsets,        \* its practice_onsets, by event
    history,       \* PracticeSessionHistory: [lesson, attempts]
    calls,         \* calls on their way, by number
    page,          \* [active, starting, since, lesson, takes, stops, loads, may],
                   \* `may' being the bounds of this behaviour
    now,           \* steps since the program began
    sent, quiet

serverVars == <<capture, repetitions, onsets, history>>
vars == <<serverVars, calls, page, now, sent, quiet>>

NoPlaces == [id \in {} |-> Absent]

Init ==
    /\ capture = None /\ repetitions = NoPlaces /\ onsets = NoPlaces
    /\ history = [lesson |-> None, attempts |-> <<>>]
    /\ calls = [n \in {} |-> None]
    /\ page \in [active : {FALSE}, starting : {FALSE}, since : {Absent}, lesson : {None},
                 takes : {0}, stops : {0}, loads : {0}, may : Budgets]
    /\ now = 0 /\ sent = [n \in {} |-> None] /\ quiet = None

-----------------------------------------------------------------------------
(* Calls *)

Issue(number, call) ==
    /\ Cardinality(DOMAIN calls) < MaxCalls
    /\ calls' = Put(calls, <<call.kind, number>>, call)

At(n, kind, pc) == n \in DOMAIN calls /\ calls[n].kind = kind /\ calls[n].pc = pc

Goto(n, pc) == calls' = [calls EXCEPT ![n].pc = pc]
Ends(n) == calls' = [m \in DOMAIN calls \ {n} |-> calls[m]]

\* Nothing of the page is under way that reaches the capture.
CaptureIdle == \A n \in DOMAIN calls : calls[n].kind \notin {"start", "message", "stop"}

-----------------------------------------------------------------------------
(* The page: performance_capture.js and app.js *)

\* transport.snapshot(): the loop wraps, and a transport at rest stays at zero.
Played(time) == IF page.since = Absent THEN 0 ELSE time - page.since
Snapshot(time) ==
    [rep |-> Played(time) \div LoopSteps, onset |-> (Played(time) % LoopSteps) * Step]

\* Time has passed since the page last read its clock.
Passes(steps) == now + steps <= page.may.time /\ now' = now + steps

\* startAttempt: the transport restarts and waits for the answer.
StartAttempt ==
    /\ ~page.starting /\ page.takes < page.may.takes
    /\ Issue(page.takes + 1, [kind |-> "start", pc |-> "open"])
    /\ page' = [page EXCEPT !.starting = TRUE, !.since = Absent, !.takes = @ + 1]
    /\ quiet' = IF CaptureIdle THEN [take |-> page.takes + 1, events |-> {}] ELSE None
    /\ UNCHANGED <<serverVars, now, sent>>

StartAnswered(n) ==
    /\ At(n, "start", "done")
    /\ Ends(n)
    /\ page' = [page EXCEPT !.starting = FALSE, !.active = TRUE, !.since = now]
    /\ UNCHANGED <<serverVars, now, sent, quiet>>

\* record: a message is sent with the transport's reading, and not waited for.
Record(input, steps) ==
    LET number  == Cardinality(DOMAIN sent) + 1
        message == [seq |-> Absent, id |-> number, type |-> input.type, key |-> input.key,
                    velocity |-> input.velocity, at |-> now' * Step, string |-> Absent]
    IN /\ Passes(steps)
       /\ page.active /\ number <= page.may.messages
       /\ Issue(number, [kind |-> "message", pc |-> "number", message |-> message,
                         place |-> Snapshot(now')])
       /\ sent' = Put(sent, number, [message |-> message, place |-> Snapshot(now')])
       /\ quiet' = IF quiet = None \/ ~CaptureIdle THEN None
                   ELSE [quiet EXCEPT !.events = @ \cup {number}]
       /\ UNCHANGED <<serverVars, page>>

\* stopAttempt, or the device is gone: its answer is only used after a stop.
EndAttempt(state) ==
    /\ page.active
    /\ Issue(page.stops + 1, [kind |-> "stop", pc |-> "check", state |-> state, capture |-> None])
    /\ page' = [page EXCEPT !.active = FALSE, !.stops = @ + 1]
    /\ quiet' = IF CaptureIdle THEN quiet ELSE None
    /\ UNCHANGED <<serverVars, now, sent>>

\* The evidence is sent back to be judged, against the lesson on the page by now
\* and over the repetitions the transport has counted.
StopAnswered(n, steps) ==
    /\ At(n, "stop", "done") /\ Passes(steps)
    /\ LET evidence == calls[n].evidence
       IN IF page.lesson = None \/ calls[n].state # "COMPLETE" THEN Ends(n)
          ELSE \E rate \in PracticeRates :
                  calls' = Put([m \in DOMAIN calls \ {n} |-> calls[m]], <<"evaluate", n[2]>>,
                      [kind |-> "evaluate", pc |-> "judge", lesson |-> page.lesson,
                       notes |-> evidence.notes, ids |-> evidence.ids, rate |-> rate,
                       reps |-> Max({1, Snapshot(now').rep})])
    /\ UNCHANGED <<serverVars, page, sent, quiet>>

\* applySessionArtifacts: the new lesson begins without waiting for the server,
\* and an attempt that is active goes on.
LoadLesson(lesson) ==
    /\ page.loads < page.may.loads /\ lesson # page.lesson
    /\ Issue(page.loads + 1, [kind |-> "begin", pc |-> "name", lesson |-> lesson])
    /\ page' = [page EXCEPT !.lesson = lesson, !.loads = @ + 1,
                            !.since = Absent]
    /\ UNCHANGED <<serverVars, now, sent, quiet>>

-----------------------------------------------------------------------------
(* LocalPerformanceCaptureApi *)

OpenCapture(n) ==
    /\ At(n, "start", "open")
    /\ capture' = BuildRawCapture(n[2])
    /\ Goto(n, "reset")
    /\ UNCHANGED <<repetitions, onsets, history, page, now, sent, quiet>>

\* A start and a stop clear the two maps, one after the other.
ResetRepetitions(n) ==
    /\ \E kind \in {"start", "stop"} : At(n, kind, "reset")
    /\ repetitions' = NoPlaces
    /\ Goto(n, "resetOnsets")
    /\ UNCHANGED <<capture, onsets, history, page, now, sent, quiet>>

ResetOnsets(n) ==
    /\ \E kind \in {"start", "stop"} : At(n, kind, "resetOnsets")
    /\ onsets' = NoPlaces
    /\ Goto(n, "done")
    /\ UNCHANGED <<capture, repetitions, history, page, now, sent, quiet>>

CaptureOpen == capture # None /\ ~Closed(capture)

\* The event of a message; a note-on of velocity zero is kept as the release it is.
Numbered(m, seq) ==
    [m EXCEPT !.seq = seq, !.type = IF Releases(m) THEN "NOTE_OFF" ELSE "NOTE_ON"]

\* The event's number is the length of the capture that is there now.
NumberEvent(n) ==
    /\ At(n, "message", "number")
    /\ IF CaptureOpen
       THEN calls' = [calls EXCEPT ![n] = [@ EXCEPT !.pc = "map",
                         !.message = Numbered(calls[n].message, Len(capture.events))]]
       ELSE Ends(n)
    /\ UNCHANGED <<serverVars, page, now, sent, quiet>>

MapRepetition(n) ==
    /\ At(n, "message", "map")
    /\ repetitions' = Put(repetitions, calls[n].message.id, calls[n].place.rep)
    /\ Goto(n, "onset")
    /\ UNCHANGED <<capture, onsets, history, page, now, sent, quiet>>

\* Wrong on purpose: an onset of zero is taken for no onset.
MapOnsetIfTruthy(n) ==
    /\ At(n, "message", "onset")
    /\ onsets' = IF calls[n].place.onset = 0 THEN onsets
                 ELSE Put(onsets, calls[n].message.id, calls[n].place.onset)
    /\ Goto(n, "append")
    /\ UNCHANGED <<capture, repetitions, history, page, now, sent, quiet>>
MapOnset(n) ==
    /\ At(n, "message", "onset")
    /\ onsets' = Put(onsets, calls[n].message.id, calls[n].place.onset)
    /\ Goto(n, "append")
    /\ UNCHANGED <<capture, repetitions, history, page, now, sent, quiet>>

\* append_events reads the capture anew and refuses what would not be one.
Extend(n) ==
    /\ At(n, "message", "append")
    /\ IF CanAppend(capture, calls[n].message)
       THEN calls' = [calls EXCEPT ![n] = [kind |-> "message", pc |-> "store",
                                           capture |-> AppendEvent(capture, calls[n].message)]]
       ELSE Ends(n)
    /\ UNCHANGED <<serverVars, page, now, sent, quiet>>

StoreExtended(n) ==
    /\ At(n, "message", "store")
    /\ capture' = calls[n].capture
    /\ Ends(n)
    /\ UNCHANGED <<repetitions, onsets, history, page, now, sent, quiet>>

CloseActive(n) ==
    /\ At(n, "stop", "check")
    /\ IF CaptureOpen
       THEN calls' = [calls EXCEPT ![n] = [@ EXCEPT !.pc = "store", !.capture =
                         CloseCapture(capture, calls[n].state, <<>>, <<>>)]]
       ELSE Ends(n)
    /\ UNCHANGED <<serverVars, page, now, sent, quiet>>

StoreClosed(n) ==
    /\ At(n, "stop", "store")
    /\ capture' = calls[n].capture
    /\ Goto(n, "pair")
    /\ UNCHANGED <<repetitions, onsets, history, page, now, sent, quiet>>

\* A note begins with the repetition its event is mapped to, zero if to none.
PlaceOf ==
    [id \in {capture.events[i].id : i \in DOMAIN capture.events} |->
        [rep |-> IF id \in DOMAIN repetitions THEN repetitions[id] ELSE 0, onset |-> Absent]]

\* The ids of observed notes are random, so either order may come about.
IdOrders(notes) ==
    {[i \in DOMAIN notes |-> i], [i \in DOMAIN notes |-> Len(notes) + 1 - i]}

Pair(n) ==
    /\ At(n, "stop", "pair")
    /\ LET paired == PairMidiNotes(capture, PlaceOf)
       IN \E ids \in IdOrders(paired.notes) :
             calls' = [calls EXCEPT ![n] = [kind |-> "stop", pc |-> "place",
                          state |-> calls[n].state, paired |-> paired, ids |-> ids]]
    /\ UNCHANGED <<serverVars, page, now, sent, quiet>>

\* The onsets are looked up once every note is paired.
Placed(note) ==
    IF note.on \in DOMAIN onsets THEN [note EXCEPT !.onset = onsets[note.on]] ELSE note

PlaceNotes(n) ==
    /\ At(n, "stop", "place")
    /\ calls' = [calls EXCEPT ![n] = [kind |-> "stop", pc |-> "answer",
            state |-> calls[n].state, ids |-> calls[n].ids,
            paired |-> [notes |-> [i \in DOMAIN calls[n].paired.notes |->
                                      Placed(calls[n].paired.notes[i])],
                        unmatched |-> calls[n].paired.unmatched]]]
    /\ UNCHANGED <<serverVars, page, now, sent, quiet>>

\* The capture that is answered with the notes is read once more.
AnswerStop(n) ==
    /\ At(n, "stop", "answer")
    /\ calls' = [calls EXCEPT ![n] = [kind |-> "stop", pc |-> "reset",
            state |-> calls[n].state, evidence |->
               [take |-> capture.id, events |-> capture.events, ids |-> calls[n].ids,
                notes |-> calls[n].paired.notes, unmatched |-> calls[n].paired.unmatched]]]
    /\ UNCHANGED <<serverVars, page, now, sent, quiet>>

-----------------------------------------------------------------------------
(* LocalPracticeEvaluationApi *)

NameLesson(n) ==
    /\ At(n, "begin", "name")
    /\ history' = [history EXCEPT !.lesson = calls[n].lesson]
    /\ Goto(n, "clear")
    /\ UNCHANGED <<capture, repetitions, onsets, page, now, sent, quiet>>

ClearAttempts(n) ==
    /\ At(n, "begin", "clear")
    /\ history' = [history EXCEPT !.attempts = <<>>]
    /\ Ends(n)
    /\ UNCHANGED <<capture, repetitions, onsets, page, now, sent, quiet>>

\* The attempt is judged on its own; then it must be of the lesson begun.
Judge(n) ==
    /\ At(n, "evaluate", "judge")
    /\ LET c      == calls[n]
           rows   == AlignPerformance(LessonOf[c.lesson], c.notes, c.ids, c.reps)
           judged == Evaluate(rows, c.rate)
           result == [lesson |-> c.lesson, notes |-> c.notes, reps |-> c.reps, rows |-> rows,
                      judged |-> judged, guidance |-> BuildTeachingGuidance(judged)]
       IN IF history.lesson \in {None, c.lesson}
          THEN /\ calls' = [calls EXCEPT ![n] = [kind |-> "evaluate", pc |-> "record",
                                                 result |-> result]]
               /\ history' = [history EXCEPT !.lesson = c.lesson]
          ELSE Ends(n) /\ UNCHANGED history
    /\ UNCHANGED <<capture, repetitions, onsets, page, now, sent, quiet>>

RecordAttempt(n) ==
    /\ At(n, "evaluate", "record")
    /\ history' = [history EXCEPT !.attempts = Append(@, calls[n].result.lesson)]
    /\ Ends(n)
    /\ UNCHANGED <<capture, repetitions, onsets, page, now, sent, quiet>>

-----------------------------------------------------------------------------

Answered(n) ==
    \/ StartAnswered(n)
    \/ \E steps \in Gaps : StopAnswered(n, steps)

Captured(n) ==
    \/ OpenCapture(n) \/ ResetRepetitions(n) \/ ResetOnsets(n)
    \/ NumberEvent(n) \/ MapRepetition(n) \/ MapOnset(n) \/ Extend(n) \/ StoreExtended(n)
    \/ CloseActive(n) \/ StoreClosed(n) \/ Pair(n) \/ PlaceNotes(n) \/ AnswerStop(n)

Judged(n) ==
    \/ NameLesson(n) \/ ClearAttempts(n) \/ Judge(n) \/ RecordAttempt(n)

Next ==
    \/ StartAttempt
    \/ \E input \in Inputs, steps \in Gaps : Record(input, steps)
    \/ \E state \in {"COMPLETE", "INTERRUPTED"} : EndAttempt(state)
    \/ \E lesson \in Lessons : LoadLesson(lesson)
    \/ \E n \in DOMAIN calls : Answered(n) \/ Captured(n) \/ Judged(n)

Spec == Init /\ [][Next]_vars

-----------------------------------------------------------------------------
(* Properties *)

Answers == {calls[n].evidence : n \in {m \in DOMAIN calls : At(m, "stop", "done")}}
Results == {calls[n].result : n \in {m \in DOMAIN calls : At(m, "evaluate", "record")}}

\* An answered stop holds what was played: each of its events is a message the
\* page sent, unchanged and once, each note has its own repetition or the first
\* and its own onset or none, and if no two calls of the performance overlapped,
\* then no message of it is missing and neither half of a place is lost.  The
\* page waits for no message; the service numbers, maps and stores each in steps
\* of its own, and fills, reads and clears the two halves of a place apart.
EvidenceIsTrue ==
    \A e \in Answers :
        LET ids   == {ev.id : ev \in Range(e.events)}
            whole == quiet # None /\ quiet.take = e.take
        IN /\ Cardinality(ids) = Len(e.events)
           /\ \A ev \in Range(e.events) :
                 ev = Numbered(sent[ev.id].message, ev.seq)
           /\ \A note \in Range(e.notes) :
                 LET place == sent[note.on].place
                 IN /\ note.rep = place.rep \/ (note.rep = 0 /\ ~whole)
                    /\ note.onset = place.onset \/ (note.onset = Absent /\ ~whole)
           /\ whole => ids = quiet.events

\* Every event of a capture is accounted for once, as the start of a note, its
\* release or a release of nothing; notes of one key end in the order they
\* began, and one still open is never overtaken by a later one that ended.
PairingIsSound(events, paired) ==
    LET notes == paired.notes
    IN /\ {ev.id : ev \in Range(events)} =
             ({n.on : n \in Range(notes)} \cup {n.off : n \in Range(notes)} \cup
                {ev.id : ev \in Range(paired.unmatched)}) \ {Nothing}
       /\ Len(events) = Len(notes) + Len(paired.unmatched)
             + Cardinality({i \in DOMAIN notes : notes[i].complete})
       /\ \A i, j \in DOMAIN notes :
             (i < j /\ notes[i].key = notes[j].key /\ notes[j].complete) =>
                notes[i].complete /\ notes[i].until <= notes[j].until
       /\ \A n \in Range(notes) : NoteContract(n)

\* Every expected note of every repetition and every observed note has one row;
\* a note left for later turns would have served no earlier turn better than
\* what that turn took, a turn that took nothing least of all.
AlignmentIsSound(r) ==
    LET expected == LessonOf[r.lesson].expected
        Event(row) == CHOOSE e \in Range(expected) : e.id = row.expected
    IN /\ Cardinality({i \in DOMAIN r.rows : r.rows[i].observed # Nothing}) = Len(r.notes)
       /\ {row.observed : row \in Range(r.rows)} \ {Nothing} = DOMAIN r.notes
       /\ \A e \in Range(expected), rep \in 0 .. r.reps - 1 :
             Cardinality({i \in DOMAIN r.rows :
                 r.rows[i].expected = e.id /\ r.rows[i].rep = rep}) = 1
       /\ \A p, q \in DOMAIN r.rows :
             LET row   == r.rows[p]
                 later == r.rows[q].observed
             IN (p < q /\ row.expected # Nothing /\ later # Nothing
                 /\ MayMatch(r.notes[later], TurnOf(Event(row), row.rep, LessonOf[r.lesson]))) =>
                    /\ row.observed # Nothing
                    /\ row.pitch = 0 \/ PitchDelta(r.notes[later], Event(row)) # 0

\* Measurement is sound: nothing played is lost or used twice on the way from
\* the capture to the rows that are judged.
MatchingIsSound ==
    /\ capture # None =>
          PairingIsSound(capture.events, PairMidiNotes(capture, PlaceOf))
    /\ \A r \in Results : AlignmentIsSound(r)

\* Played as written: every note at its pitch, on time, and nothing else.
Flawless(rows) ==
    \A row \in Range(rows) :
        /\ row.status = "MATCHED_EXACT_PITCH"
        /\ -EarlyThreshold < row.delta /\ row.delta < LateThreshold

\* A judgement adds up: its counts are those of the lesson and of what was
\* played, no finding counts for two passages, every action gives findings as
\* its reasons, the learner is told to go on exactly when a flawless attempt or
\* little that matters says so, and the score marks the notes the findings cite.
EvaluationAddsUp ==
    \A r \in Results :
        LET j        == r.judged
            s        == j.summary
            Named(S) == {f \in Range(j.findings) : f.id \in S}
            cited    == UNION {f.cites : f \in {g \in Range(j.findings) : g.from = g.until
                                                    /\ g.type # "FINDINGS_CONCENTRATED"
                                                    /\ g.rep # Nothing}}
        IN /\ EvaluationContract(j)
           /\ s.expected = r.reps * Len(LessonOf[r.lesson].expected)
           /\ s.matched + s.missing = s.expected
           /\ s.observed = Len(r.notes) /\ s.matched + s.extra = s.observed
           /\ \A a, b \in DOMAIN j.ranges :
                 a # b => Range(j.ranges[a].ids) \cap Range(j.ranges[b].ids) = {}
           /\ \A a \in DOMAIN j.ranges : \A f \in Named(Range(j.ranges[a].ids)) :
                 j.ranges[a].from <= f.from /\ f.until <= j.ranges[a].until
           /\ \A action \in {j.primary} \cup Range(j.secondary) :
                 Range(action.reasons) \subseteq {f.id : f \in Range(j.findings)}
           /\ Flawless(r.rows) => j.primary.type = "CONTINUE" /\ j.primary.reasons = <<>>
           /\ j.primary.type = "CONTINUE" =>
                 \A f \in Range(j.findings) :
                    f.severity = "SIGNIFICANT" => f.type = "FINDINGS_CONCENTRATED"
           /\ Range(r.guidance.notes) = {row.expected : row \in cited} \ {Nothing}

\* From the capture to the advice, nothing is lost, invented or counted twice.
JudgementIsSound == MatchingIsSound /\ EvaluationAddsUp

\* What the doc strings of capture_normalization.py promise: once closed, a
\* capture cannot grow, and nothing rewrites how it ended.  A message checked
\* before a stop and stored after it puts an open capture back.
LocalCaptureStaysClosed ==
    [][capture # None /\ Closed(capture) =>
          capture' = capture \/ capture'.id # capture.id]_vars

=============================================================================
