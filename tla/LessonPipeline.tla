--------------------------- MODULE LessonPipeline ---------------------------
(***************************************************************************)
(* From a lesson assignment to what the page is given: one run of the       *)
(* orchestrator chooses a position for every note and builds the fretboard  *)
(* projection, the playback plan, the practice policy, the one-string aids  *)
(* and the score revision with its tablature and notation.                  *)
(*                                                                         *)
(* A lesson comes from a MIDI file (LessonImport) or from an assignment     *)
(* file; between two loads its author may change how it is fingered or      *)
(* played.  A selected note is [position, origin, reason].  Digests,        *)
(* labels, instructions, assessment and routing are left out: nothing here  *)
(* reads them.                                                              *)
(***************************************************************************)
EXTENDS LessonImport

CONSTANTS Profiles,      \* instrument id -> profile
          Instruments,   \* the ids a load may ask for
          SupportedPpq,
          Authored,      \* the assignments found in files
          Overrides,     \* [id, string, fret] a teacher may add
          Guidances, Playbacks, TempoMaps,   \* what an edit may put in their place
          MaxEdits

VARIABLES lesson,  \* the assignment, None before there is one
          edits,   \* bound: changes of its author so far
          shown    \* the last load: [instrument, lesson, refused, result]

vars == <<smf, heard, lesson, edits, shown>>

Spatial == INSTANCE SpatialMapping
Score   == INSTANCE ScoreProjections
Page    == INSTANCE PresentationTimeline

OrElse(value, default) == IF value = None THEN default ELSE value

EventSet(l) == Range(l.events)
EventIds(l) == {e.id : e \in EventSet(l)}
NoteIn(l, id) == CHOOSE e \in EventSet(l) : e.id = id

-----------------------------------------------------------------------------
(* What an assignment and a profile have to be to exist at all *)

UniqueIds(seq) == \A i, j \in DOMAIN seq : seq[i].id = seq[j].id => i = j

ValidContent(l) ==
    /\ l.ppq > 0 /\ l.events # <<>>
    /\ UniqueIds(l.events)
    /\ \A e \in Range(l.events) : e.tick >= 0 /\ e.duration > 0 /\ e.note \in 0 .. 127
    /\ \A t \in Range(l.tempos) : LegalTempo(t.mpq)

Unordered(low, high) == low # None /\ high # None /\ high < low

ValidPlayback(p) ==
    /\ p.tempo # None => LegalTempo(p.tempo)
    /\ ~Unordered(p.start, p.end) /\ (p.start # None => p.start # p.end)
    /\ p.loop => p.start # None /\ p.end # None

ValidGuidance(g) == ~Unordered(g.fretMin, g.fretMax)

ValidAssignment(l) ==
    /\ ValidContent(l) /\ ValidPlayback(l.playback) /\ ValidGuidance(l.guidance)
    /\ UniqueIds(l.overrides)

ValidProfile(instrument) ==
    /\ instrument.strings # {}
    /\ \A s, t \in instrument.strings : s.id = t.id \/ s.order = t.order => s = t
    /\ (instrument.mode = "fretted") = (instrument.frets # None)

ASSUME PipelineConstants ==
    /\ \A id \in DOMAIN Profiles : ValidProfile(Profiles[id])
    /\ MaxEdits \in Nat /\ MaxMessages \in Nat /\ Deltas \subseteq Nat

-----------------------------------------------------------------------------
(* Resolving *)

SortedByTick(changes) ==
    LET order == SetToSortSeq(DOMAIN changes, LAMBDA i, j :
                     \/ changes[i].tick < changes[j].tick
                     \/ changes[i].tick = changes[j].tick /\ i < j)
    IN [i \in DOMAIN changes |-> changes[order[i]]]

\* _source_tempo_bpm: the earliest tempo, which is the one at tick 0 if any.
SourceTempo(l) == IF l.tempos = <<>> THEN None ELSE SortedByTick(l.tempos)[1].mpq

\* _resolve_playback: what it is to be played at
ResolvedTempo(l) == OrElse(l.playback.tempo, SourceTempo(l))

ResolvedMeters(l) == LastPerTick(l.meters)

\* build_core_tempo_map: an override stands for the whole map, and the first
\* tempo also holds before it.  Empty when the lesson has no tempo.
CoreTempoMap(l) ==
    LET changes == SortedByTick(l.tempos)
    IN CASE l.playback.tempo # None -> <<[tick |-> 0, mpq |-> l.playback.tempo]>>
         [] l.playback.tempo = None /\ (changes = <<>> \/ StartsAtZero(changes)) -> changes
         [] OTHER -> <<[changes[1] EXCEPT !.tick = 0]>> \o changes

-----------------------------------------------------------------------------
(* Choosing positions *)

CandidatesOf(e, instrument) ==
    Spatial!Candidates(e.note, instrument, Spatial!NoConstraints)

\* resolve_override_position; None where the pitch is not to be had there.
OverridePosition(o, l, instrument) ==
    LET at == {p \in CandidatesOf(NoteIn(l, o.id), instrument) :
                  p.string = o.string /\ p.fret = o.fret}
    IN IF at = {} THEN None ELSE Spatial!First(at)

Overridden(l) == {o.id : o \in Range(l.overrides)}
OverrideOf(l, id) == CHOOSE o \in Range(l.overrides) : o.id = id

\* One note of _run: the teacher first, then what guidance admits.
Selected(e, l, instrument) ==
    LET cs   == CandidatesOf(e, instrument)
        auto == Spatial!SelectAutomatic(cs, l.guidance)
    IN CASE e.id \in Overridden(l) ->
              [position |-> OverridePosition(OverrideOf(l, e.id), l, instrument),
               origin |-> "teacher_override", reason |-> None]
         [] e.id \notin Overridden(l) /\ auto # None ->
              [position |-> auto, origin |-> "automatic", reason |-> None]
         [] OTHER ->
              [position |-> None, origin |-> None,
               reason |-> IF cs = {} THEN "no_playable_position"
                          ELSE "no_admissible_position_under_guidance"]

-----------------------------------------------------------------------------
(* What is built from the selection *)

\* build_fretboard_scroll_projection
Fretboard(l, instrument) ==
    LET map   == CoreTempoMap(l)
        at(t) == TicksToMicroseconds(t, l.ppq, map)
    IN [tempos |-> map, total |-> Score!TotalTicks(EventSet(l)),
        notes  |-> {[id |-> e.id, note |-> e.note, onset |-> e.tick, duration |-> e.duration,
                     from |-> at(e.tick), until |-> at(Score!End(e)),
                     selected |-> Selected(e, l, instrument)] : e \in EventSet(l)}]

\* build_lesson_playback_plan, from the normalised map
PlanOf(events, ppq, tempos) ==
    LET map   == LastPerTick(tempos)
        at(t) == TicksToMicroseconds(t, ppq, map)
    IN [ppq |-> ppq, tempos |-> map, total |-> at(Score!TotalTicks(events)),
        events |-> {[id |-> e.id, note |-> e.note, from |-> at(e.tick),
                     until |-> at(Score!End(e))] : e \in events}]

Plan(l) == PlanOf(EventSet(l), l.ppq, CoreTempoMap(l))

LoopEnd(l) == OrElse(l.playback.end, Score!TotalTicks(EventSet(l)))

\* PracticeLoopV1 and validate_practice_loop, whether or not the loop is on
LoopFits(l) ==
    OrElse(l.playback.start, 0) < LoopEnd(l) /\ LoopEnd(l) <= Score!TotalTicks(EventSet(l))

\* build_practice_session_policy and the export of its loop in seconds
Practice(l) ==
    LET at(t) == TicksToMicroseconds(t, l.ppq, CoreTempoMap(l))
    IN [loop |-> l.playback.loop, start |-> OrElse(l.playback.start, 0), end |-> LoopEnd(l),
        from |-> at(OrElse(l.playback.start, 0)), until |-> at(LoopEnd(l)),
        countIn |-> OrElse(l.playback.countIn, 0)]

\* build_one_string_teaching_projection, for every string
OneString(l, instrument) ==
    [s \in {string.id : string \in instrument.strings} |->
        {[id |-> e.id,
          at |-> LET cs == Spatial!Candidates(e.note, instrument,
                               [Spatial!NoConstraints EXCEPT !.allowed = {s}])
                 IN IF cs = {} THEN None ELSE Spatial!First(cs)] : e \in EventSet(l)}]

\* Wrong on purpose: the tempo it is to be played at is taken for the work's.
RevisionAsPlayed(l) ==
    [document |-> "lesson", ppq |-> l.ppq, events |-> EventSet(l),
     tempos |-> <<[tick |-> 0, mpq |-> ResolvedTempo(l)]>>,
     meters |-> <<[tick |-> 0, numerator |-> 4, denominator |-> 4]>>]

\* build_authored_lesson_revision: the source tempo at tick 0 and no other,
\* the meters as written, or four quarters.
Revision(l) ==
    [document |-> "lesson", ppq |-> l.ppq, events |-> EventSet(l),
     tempos |-> <<[tick |-> 0, mpq |-> OrElse(SourceTempo(l), l.playback.tempo)]>>,
     meters |-> IF l.meters # <<>> THEN ResolvedMeters(l)
                ELSE <<[tick |-> 0, numerator |-> 4, denominator |-> 4]>>]

\* Wrong on purpose: tablature chooses for itself.
TabOfAutomatic(l, instrument) ==
    Score!Tab(Revision(l), [id \in EventIds(l) |->
        Selected(NoteIn(l, id), [l EXCEPT !.overrides = <<>>], instrument)])

\* _realizations and project, for tablature
TabOf(l, instrument) ==
    Score!Tab(Revision(l), [id \in EventIds(l) |-> Selected(NoteIn(l, id), l, instrument)])

\* projection_timeline_anchors
PageAnchors(board, l) == Page!Anchors(l.ppq, board.tempos, board.total)

-----------------------------------------------------------------------------
(* The older pipeline, which refuses a lesson it cannot finger completely. *)

\* validate_assignment
Validated(l, id) ==
    /\ Overridden(l) \subseteq EventIds(l) /\ id \in DOMAIN Profiles
    /\ \A o \in Range(l.overrides) : OverridePosition(o, l, Profiles[id]) # None

\* run_mvp_lesson_pipeline
PipelinePosition(e, l, instrument) ==
    IF e.id \in Overridden(l) THEN OverridePosition(OverrideOf(l, e.id), l, instrument)
    ELSE Spatial!SelectAutomatic(CandidatesOf(e, instrument), l.guidance)

PipelineAccepts(l, id) ==
    Validated(l, id) /\ \A e \in EventSet(l) : PipelinePosition(e, l, Profiles[id]) # None

\* build_scrolling_fretboard_projection
Scrolled(l, instrument) ==
    {[id |-> e.id, note |-> e.note, tick |-> e.tick, duration |-> e.duration,
      position |-> PipelinePosition(e, l, instrument),
      origin |-> IF e.id \in Overridden(l) THEN "teacher_override" ELSE "automatic"] :
        e \in EventSet(l)}

-----------------------------------------------------------------------------
(* What a load refuses, in the order the orchestrator comes to it *)

Fretless(position) == position # None /\ position.fret = None

Refusal(l, id) ==
    IF id \notin DOMAIN Profiles THEN "unknown_instrument"
    ELSE LET instrument == Profiles[id] IN
    IF ~ (Overridden(l) \subseteq EventIds(l)) THEN "override_unknown_event"
    ELSE IF \E o \in Range(l.overrides) : OverridePosition(o, l, instrument) = None
         THEN "override_impossible_position"
    ELSE IF CoreTempoMap(l) = <<>> THEN "missing_tempo"
    ELSE IF \E e \in EventSet(l) : Fretless(Selected(e, l, instrument).position)
         THEN "position_without_fret"
    ELSE IF ~StrictlyOrdered(CoreTempoMap(l)) THEN "tempo_map_not_strict"
    ELSE IF ~LoopFits(l) THEN "practice_policy"
    ELSE IF OrElse(l.playback.countIn, 0) \notin 0 .. 2 THEN "practice_policy"
    ELSE IF \E s \in instrument.strings : \E x \in OneString(l, instrument)[s.id] : Fretless(x.at)
         THEN "position_without_fret"
    ELSE IF ~Score!ValidRevision(Revision(l)) THEN "invalid_revision"
    ELSE IF ~Score!TabAccepts(Revision(l),
                              [x \in EventIds(l) |-> Selected(NoteIn(l, x), l, instrument)])
         THEN "position_of_another_pitch"
    ELSE IF \E m \in Range(Revision(l).meters) : ~Score!MeasureIsWhole(m, l.ppq)
         THEN "meter_not_whole"
    ELSE None

Orchestrated(l, instrument) ==
    [fretboard |-> Fretboard(l, instrument), anchors |-> PageAnchors(Fretboard(l, instrument), l),
     plan |-> Plan(l), practice |-> Practice(l),
     oneString |-> OneString(l, instrument), tab |-> TabOf(l, instrument),
     notation |-> Score!Notation(Revision(l))]

-----------------------------------------------------------------------------
(* What the contracts of these artifacts demand of them *)

BoardNoteComplete(n) ==
    LET p == n.selected.position IN
    /\ n.from <= n.until
    /\ p # None => n.selected.origin # None /\ n.selected.reason = None /\ p.fret # None
    /\ p = None => n.selected.origin = None /\ n.selected.reason # None

\* validate_projection: each note lies on a lane, a fret and the timeline.
BoardNoteOn(n, instrument, board) ==
    LET p == n.selected.position IN
    /\ n.onset + n.duration <= board.total
    /\ p # None =>
          /\ \E s \in instrument.strings : s.id = p.string /\ s.order = p.order
          /\ p.fret \in 0 .. OrElse(instrument.frets, 0)
          /\ p.open => p.fret = 0

BoardContract(board, instrument) ==
    /\ board.notes # {} /\ StartsAtZero(board.tempos) /\ StrictlyOrdered(board.tempos)
    /\ \A n \in board.notes : BoardNoteComplete(n) /\ BoardNoteOn(n, instrument, board)
    /\ \A m, n \in board.notes : m.id = n.id => m = n

\* The contract of the plan, with that of its events and its timeline
SoundContract(x, plan) == 0 <= x.from /\ x.from < x.until /\ x.until <= plan.total

PlanTimeline(plan) == StartsAtZero(plan.tempos) /\ StrictlyOrdered(plan.tempos)

PlanContract(plan) ==
    /\ PlanTimeline(plan) /\ plan.events # {}
    /\ \A x \in plan.events : SoundContract(x, plan)
    /\ \A x, y \in plan.events : x.id = y.id => x = y

PracticeContract(p) == 0 <= p.start /\ p.start < p.end /\ p.countIn \in 0 .. 2

OneStringContract(aids) ==
    \A s \in DOMAIN aids : \A x \in aids[s] : x.at # None => x.at.fret # None /\ x.at.string = s

\* MvpPracticeBundleV1: sound and picture agree on pitch and onset.
BundleContract(board, plan) ==
    \A x \in plan.events, n \in board.notes :
        x.id = n.id => x.note = n.note /\ x.from = n.from

\* _bind_received_playback: the plan is rebuilt from the revision's events and
\* the tempos it is played at, and has to be the same one.
SoundsAsWritten(plan, revision) == plan = PlanOf(revision.events, revision.ppq, plan.tempos)

\* _same_ids: every event of the assignment, and each of them once.
Covers(entries, l) ==
    /\ {x.id : x \in entries} = EventIds(l)
    /\ \A x, y \in entries : x.id = y.id => x = y

\* _notation_note_ids: what names no event has to be a rest.
NotesOf(notation) == {x \in notation.entries : x.kind = "note"}

\* _check_bundle: what local practice is prepared with must be of one lesson.
OfOneRevision(result, l) ==
    result.tab.revision = Revision(l) /\ result.notation.revision = Revision(l)

BundleAgrees(result, l) ==
    /\ SoundsAsWritten(result.plan, Revision(l))
    /\ OfOneRevision(result, l)
    /\ Covers(result.fretboard.notes, l) /\ Covers(result.plan.events, l)
    /\ Covers(Revision(l).events, l) /\ Covers(result.tab.entries, l)
    /\ Covers(NotesOf(result.notation), l)

\* trusted_evaluation_inputs: what an attempt at the lesson is judged by must be
\* found in the snapshot, and its sound must be that of its score.
TrustedInputs(plan, revision) ==
    /\ revision.events # {} /\ revision.meters # <<>>
    /\ plan.tempos # <<>> /\ plan.total > 0
    /\ plan.ppq = revision.ppq
    /\ {x.id : x \in plan.events} = {e.id : e \in revision.events}

-----------------------------------------------------------------------------
(* Actions *)

NothingShown == [instrument |-> None, lesson |-> None, refused |-> None, result |-> None]

Init == InitImport /\ lesson = None /\ edits = 0 /\ shown = NothingShown

Import ==
    /\ lesson = None
    /\ \/ OpenFile
       \/ EndOfFile
       \/ \E d \in Deltas :
             \/ \E key \in Keys, on \in BOOLEAN : ReadNote(d, key, on)
             \/ \E mpq \in Tempos : ReadTempo(d, mpq)
             \/ \E m \in Signatures : ReadMeter(d, m)
    /\ UNCHANGED <<lesson, edits, shown>>

\* build_assignment_from_midi
TakeImported(ppq) ==
    /\ lesson = None /\ smf.phase = "done"
    /\ lesson' = Assignment(ppq, Events(smf.notes), smf.tempos, smf.meters)
    /\ smf' = NoReader /\ heard' = <<>>
    /\ UNCHANGED <<edits, shown>>

\* deserialize_lesson_assignment
ReadAssignment(l) ==
    /\ lesson = None /\ smf.phase = "none" /\ ValidAssignment(l)
    /\ lesson' = l
    /\ UNCHANGED <<smf, heard, edits, shown>>

Edit(l) ==
    /\ lesson # None /\ edits < MaxEdits /\ ValidAssignment(l)
    /\ lesson' = l /\ edits' = edits + 1
    /\ UNCHANGED <<smf, heard, shown>>

AddOverride(o) == lesson # None /\ Edit([lesson EXCEPT !.overrides = Append(@, o)])

SetGuidance(g) == lesson # None /\ Edit([lesson EXCEPT !.guidance = g])
SetPlayback(p) == lesson # None /\ Edit([lesson EXCEPT !.playback = p])
SetTempos(ts) == lesson # None /\ Edit([lesson EXCEPT !.tempos = ts])

\* load_assignment: nothing of a refused lesson is shown.
Load(id) ==
    /\ lesson # None
    /\ LET refused == Refusal(lesson, id)
       IN shown' = [instrument |-> id, lesson |-> lesson, refused |-> refused,
                    result |-> IF refused = None THEN Orchestrated(lesson, Profiles[id])
                               ELSE None]
    /\ UNCHANGED <<smf, heard, lesson, edits>>

Next ==
    \/ Import
    \/ \E ppq \in Ppqs : TakeImported(ppq)
    \/ \E l \in Authored : ReadAssignment(l)
    \/ \E o \in Overrides : AddOverride(o)
    \/ \E g \in Guidances : SetGuidance(g)
    \/ \E p \in Playbacks : SetPlayback(p)
    \/ \E ts \in TempoMaps : SetTempos(ts)
    \/ \E id \in Instruments : Load(id)

Spec == Init /\ [][Next]_vars

-----------------------------------------------------------------------------
(* Correctness *)

Ready == shown.result # None

ShownEvents == EventSet(shown.lesson)

\* Once a load has got past its refusals, every artifact it builds is one its
\* own contract accepts: no constructor of the pipeline raises after that, and
\* the lesson the learner sees is complete (the __post_init__ of the contracts
\* and validate_projection); nor does the preparation of a received lesson find
\* sound, picture and score of different music (_check_bundle), or an attempt at
\* it nothing to be judged by (trusted_evaluation_inputs).
NothingFurtherIsRefused ==
    Ready => /\ BoardContract(shown.result.fretboard, Profiles[shown.instrument])
             /\ PlanContract(shown.result.plan)
             /\ PracticeContract(shown.result.practice)
             /\ BundleContract(shown.result.fretboard, shown.result.plan)
             /\ Page!ValidAnchors(shown.result.anchors)
             /\ \A e \in ShownEvents, instrument \in {Profiles[shown.instrument]} :
                   \A p \in CandidatesOf(e, instrument) : Spatial!PositionContract(p, instrument)
             /\ OneStringContract(shown.result.oneString)
             /\ Score!TabContract(shown.result.tab)
             /\ Score!NotationContract(shown.result.notation)
             /\ BundleAgrees(shown.result, shown.lesson)
             /\ TrustedInputs(shown.result.plan, Revision(shown.lesson))

Micros(t) == TicksToMicroseconds(t, shown.lesson.ppq, CoreTempoMap(shown.lesson))

Only(set) == Cardinality(set) = 1

Reachable(e, string, instrument) ==
    /\ string.enabled
    /\ e.note - string.open \in 0 .. (IF string.max = None THEN 127 ELSE string.max)
    /\ instrument.mode = "fretted" => e.note - string.open <= instrument.frets

\* A note is put where it sounds as written: on the teacher's string and fret
\* when there is one, on an open string only as guidance allows, and it is
\* called unplayable only when no string will do (auto_select.py,
\* candidate_generation.py, orchestrator.py 184-227).
SelectionIsSound ==
    Ready => LET instrument == Profiles[shown.instrument]
                 avoid == shown.lesson.guidance.open IN
        \A n \in shown.result.fretboard.notes :
            LET p       == n.selected.position
                strings == {s \in instrument.strings : Reachable(n, s, instrument)}
                stopped == {s \in strings : s.open # n.note}
            IN IF p = None
               THEN /\ strings = {} \/ (avoid = "exclude" /\ stopped = {})
                    /\ n.id \notin Overridden(shown.lesson)
               ELSE /\ \E s \in strings : s.id = p.string /\ s.open + p.fret = n.note
                    /\ IF n.id \in Overridden(shown.lesson)
                       THEN LET o == OverrideOf(shown.lesson, n.id)
                            IN p.string = o.string /\ p.fret = o.fret
                       ELSE /\ avoid = "exclude" => ~p.open
                            /\ avoid = "avoid" /\ stopped # {} => ~p.open
                            /\ avoid = "prefer" /\ stopped # strings => p.open

\* Whatever view a learner looks at, it is the same lesson: fretboard, sound,
\* tablature and notation hold each event exactly once, at the same tick,
\* for as long and at the same place, and the sound of the highlighted note
\* is the one due then (orchestrator.py _run, which builds each on its own).
\* The older pipeline fingers what it accepts the same way (pipeline.py).
ViewsAgree ==
    Ready => LET r == shown.result IN
        \A e \in ShownEvents :
            \E board \in r.fretboard.notes, sound \in r.plan.events, tab \in r.tab.entries,
               written \in {x \in r.notation.entries : x.kind = "note"} :
                /\ {board.id, sound.id, tab.id, written.id} = {e.id}
                /\ {board.note, sound.note, tab.note, written.note} = {e.note}
                /\ {board.onset, tab.start, written.start} = {e.tick}
                /\ {board.duration, tab.duration, written.duration} = {e.duration}
                /\ board.from = sound.from /\ board.until = sound.until
                /\ board.selected.position = tab.position
                /\ PipelineAccepts(shown.lesson, shown.instrument) =>
                      [id |-> e.id, note |-> e.note, tick |-> e.tick, duration |-> e.duration,
                       position |-> board.selected.position, origin |-> board.selected.origin]
                      \in Scrolled(shown.lesson, Profiles[shown.instrument])
                /\ Only({x \in r.fretboard.notes : x.id = e.id})
                /\ Only({x \in r.plan.events : x.id = e.id})
                /\ Only({x \in r.tab.entries : x.id = e.id})
                /\ Only({x \in r.notation.entries : x.kind = "note" /\ x.id = e.id})

\* Every view shows the same lesson, and shows it where it can be played.
ArtifactsAgree == ViewsAgree /\ SelectionIsSound

\* While it loops, the page's place is within the loop it draws.
LoopSeen ==
    LET p    == shown.result.practice
        seen == Page!TeachingState(shown.result.anchors, p.from, p.from, p.until)
        drawn == Page!FocusRange(shown.result.anchors, p.start, p.end)
    IN /\ seen.tick = p.start /\ seen.start = p.start /\ seen.end = p.end
       /\ drawn.from - p.from \in -1 .. 1 /\ drawn.until - p.until \in -1 .. 1

\* A time shown or played is that of one tick only: it leads back to the tick
\* across every tempo change, for Core and for the page, which has only the
\* anchors; what the page interpolates is within a microsecond of Core's time;
\* and the practice loop takes time and ends with the sound at the latest
\* (musical_timeline.py, presentation/timeline.py, practice/loop.py).
ClocksAgree ==
    Ready =>
        /\ \A t \in {e.tick : e \in ShownEvents} \cup {Score!End(e) : e \in ShownEvents} :
              /\ MicrosecondsToTicks(Micros(t), shown.lesson.ppq, CoreTempoMap(shown.lesson)) = t
              /\ Page!TimeToTick(shown.result.anchors, Micros(t)) = t
              /\ Page!TickToTime(shown.result.anchors, t) - Micros(t) \in -1 .. 1
        /\ LoopSeen
        /\ shown.result.practice.from < shown.result.practice.until
        /\ shown.result.practice.until <= shown.result.plan.total

\* The places where something may begin or end in the notation.
Instants(n) ==
    {x.start : x \in n.entries} \cup {m.start : m \in Range(n.measures)}
        \cup {Score!End(e) : e \in ShownEvents} \cup {0}

Holds(x, t) == x.start <= t /\ t < x.start + x.duration

SoundingAt(t) == \E e \in ShownEvents : e.tick <= t /\ t < Score!End(e)

RestsAt(n, t) == {x \in n.entries : x.kind = "rest" /\ Holds(x, t)}

\* Every meter but the last fills its measures.
BarlinesMeet(r) ==
    \A i \in 1 .. Len(r.meters) - 1 :
        (r.meters[i + 1].tick - r.meters[i].tick) % Score!MeasureLength(r.meters[i], r.ppq) = 0

\* Read from left to right, the notation says when there is silence: one rest
\* where nothing sounds and none where something is held, each entry in the
\* measure it begins in - as long as a meter changes at a barline
\* (notation.py, derive_global_silence_intervals and build_notation_projection).
SilenceIsWritten ==
    Ready /\ BarlinesMeet(shown.result.notation.revision) =>
        LET n == shown.result.notation IN
        /\ \A t \in {u \in Instants(n) : u < Score!TotalTicks(ShownEvents)} :
              Cardinality(RestsAt(n, t)) = IF SoundingAt(t) THEN 0 ELSE 1
        /\ \A x \in n.entries : /\ n.measures[x.measure].start <= x.start
                               /\ x.start < n.measures[x.measure].end
                               /\ x.kind = "rest" =>
                                     x.start + x.duration <= n.measures[x.measure].end

\* What is shown, heard and written keeps the lesson's time.
TimeIsKept == ClocksAgree /\ SilenceIsWritten

Music(l) == <<l.ppq, l.events, l.tempos, l.meters>>

BothReady == shown.result # None /\ shown'.result # None

\* How a lesson is fingered, played or looped, and on which instrument, is no
\* part of the work: loading the same music again cites the same revision,
\* if the lesson says its tempo (canonicalization.py _tempo_changes: "an
\* override is a playback instruction, not a change to the work").
SameMusicSameRevision ==
    [][BothReady /\ Music(shown.lesson) = Music(shown'.lesson)
          /\ SourceTempo(shown.lesson) # None
       => shown.result.tab.revision = shown'.result.tab.revision]_vars

=============================================================================
