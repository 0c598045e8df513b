# Master All Strings in TLA+

TLA+ models of the parts of Master All Strings that keep state and meet
concurrency, failure or late answers, and of the conversions a lesson and a
performance go through; TLC configurations that check them on small instances;
and proofs, checked by TLAPS, of what matters most about the attempt service,
the begin gateway, the page's attempt controller, the transport and its sound,
the guided sessions on both sides, captures, ingestion, the score revisions, the
lesson inbox, the media page and local practice.
`PROJECT.json` maps every definition to the source lines it models and lists the
hazards of the code with the properties that cover them.

Source paths are relative to the repository; `mvp/` stands for
`src/master_all_strings/mvp/`, `web/` for `web/mvp1/`.

## 1. The system

A local Python server (`mvp/local_server.py`, a `ThreadingHTTPServer`: one
thread per request, no lock of its own) serves pages written in plain
JavaScript. A page plays a lesson on a transport, sounds it through Web Audio,
records what the student plays on a MIDI instrument and asks the server to
evaluate it. Nothing is written to disk: sessions, attempts and start keys live
in the memory of the server and are lost when it restarts.

| Component | State it keeps | Operations | Talks to | What is hard | Correct when |
|---|---|---|---|---|---|
| Attempt service (`mvp/received_lesson_attempt.py`, `..._repository.py`) | per attempt: phase, intent, capture, sequence, clocks, result; a lock and a condition each | begin, append, finish, cancel | HTTP API, begin gateway | request threads; evaluation outside the lock; evaluation that raises; repeated terminal calls | one outcome per attempt, acknowledged messages kept, every call returns |
| Begin gateway (`mvp/received_lesson_begin_request.py`, `..._repository.py`) | per start key: phase, payload, attempt id | begin, recover | attempt service, delivery preparation | the same key begun twice, recovery during preparation, an unlocked look at the attempt, failing preparation | one attempt per key; the published fate is what became of the attempt, for good |
| Attempt HTTP API (`mvp/received_lesson_attempt_api.py`) | none | dispatch, refusals | both services | mapping of errors | the page can tell a refusal from a failure |
| Attempt controller (`web/received_attempt_controller.js`) | attempt state, pending key, queue, pump, generation | start, finish, cancel, retry, resolve, page hide and show, MIDI | attempt client, page runtime | continuations after `await`; re-entrant callbacks; lost answers; restarts | shows only stored outcomes, evaluates complete captures, leaves nothing open |
| Attempt client and validation (`web/received_attempt_client.js`, `*_validation.js`) | none | one request each | server | answers of another attempt or of no use | accepts only what belongs to the attempt |
| Lesson practice page (`web/lesson_practice.js`, `received_lesson_runtime.js`) | mounted lesson, runtime | load, hide, show, buttons | controller, transport | events inside calls | calls the controller in the right order |
| Transport (`web/transport.js`) | base position, anchor, rate, loop, repetitions | play, pause, restart, seek, rate, loop, reading | everything on the page | the end is noticed only when the position is read; listeners run inside the reading | a late reading says what an early one would have led to |
| Audio scheduler and synth (`web/audio_scheduler.js`, `audio.js`) | scheduled ids, voices given to Web Audio | timer tick, panic | transport | a second clock; what was given away must be taken back | sound stays with the transport, nothing missed, doubled or left over |
| Guided sessions, server (`education/guided_session*.py`, `mvp/guided_session_api.py`) | sessions with their attempts and state | create, append attempt, dispose, execute, transition | HTTP API | read, change and store without a lock; the store dies with the server | a stored session is one the lifecycle allows, and what is settled in it stays |
| Guided sessions, browser (`web/guided_disposition.js`, `guided-action-executor.js`, `practice_actions.js`) | current and terminal session, lesson context, Apply's lock | synchronise with an evaluation, dispose, apply, transition | server, demo page, transport | lost answers; late answers after a lesson switch | the learner's answer is the learner's; an action is applied once and recorded only if applied |
| Local performance capture (`mvp/performance_api.py`, `performance/capture_normalization.py`) | one shared capture, the places of its events | start, message, stop, interrupt | HTTP API | unlocked; messages and stop in flight together | an answered stop holds what was played |
| Note pairing, alignment, evaluation (`performance/note_pairing.py`, `alignment.py`, `education/*.py`) | none | pure | services | ties, windows, boundaries | every event is in one note, every note in one row, counts add up |
| Education API (`mvp/education_api.py`) | the lesson begun, a history | begin lesson, evaluate | HTTP API | shared history | a judgement is of the lesson asked about |
| Deliveries and local choice (`mvp/lesson_delivery_api.py`, `local_practice_preparation.py`, `education/assignment_delivery*.py`, `local_practice_choice*.py`) | two write-once repositories | receive, list, preview, choose, prepare | gateway, inbox, orchestrator | redelivery under one id, restarts | a choice binds, and what is prepared is what was chosen |
| Lesson inbox (`web/lesson_inbox.js`) | list, selection, preview, choice | refresh, select, choose | deliveries | late and superseded answers | shows and links what is selected now |
| Lesson pipeline and orchestrator (`lesson/`, `mvp/orchestrator.py`, `playback/`, `practice/`, `projection/`) | none | import, edit, load | spatial mapping, score, presentation | many artifacts of one lesson, refusals in order | all artifacts are the same music at the same time |
| Spatial mapping (`core/spatial_mapping/`) | none | candidates, choice | pipeline | ends of strings, open strings | a position sounds the note |
| Score timing and projections (`core/score/timing.py`, `musical_timeline.py`, `core/projections/`) | none | ticks and time, notation, tablature | pipeline, ingestion | rounding per segment, barlines | there and back is the same tick |
| Score revisions (`core/score/`) | documents, revisions | create, revise | ingestion | two writes, one failing; forks | the history behind each revision is whole |
| Ingestion (`core/ingestion/`) | request identities, results | ingest | revisions | retries, unmatched events | one outcome per request, every event accounted for |
| Performance runtimes (`performance/adapters/`, `live_capture.py`) | state, session, captures | start, prepare, arm, capture, stop, crash | ingestion | order of calls, injected faults | one open capture; a closed one is evidence |
| Media player and sync (`web/media-*.js`, `teaching-timeline.js`) | items, selection, follower, element | load, select, toggle, follow | transport, server | seeks that take time, two copies of one mode | follows, never leads, never thrashes |
| Media catalog and presentation (`media/`, `presentation/`) | none | resolve, anchors, bindings | page | contracts, interpolation | the page computes the lesson's time |
| Demo page (`web/app.js`, `performance_capture.js`, `midi_input.js`) | loaded lesson, active attempt, score revision | load, start, stop, evaluate | all browser parts | lesson switch during any of its awaits | evidence belongs to the lesson it was played for |
| Integrations, views, governance, scripts | none that outlives a call | layout, tooling | | | |

`PROJECT.json` repeats this list with the files of each component.

## 2. Modules

| Module | Models |
|---|---|
| `AttemptRecord` | abstract specification: what a client is promised about one attempt (a capture that grows, is sealed once by one intent and is decided once) |
| `AttemptService` | the attempt service run by concurrent request threads |
| `BeginGateway` (extends `AttemptService`) | keyed begin and recovery over the same attempts and threads |
| `BeginGatewayProofs` | theorems about both |
| `AttemptWire` | the server as the page sees it: each key with its one attempt, requests in flight, answers lost or late, restarts |
| `ReceivedAttemptController` (extends `AttemptWire`) | the page's controller with all its continuations |
| `ReceivedAttemptControllerProofs` | theorems about it |
| `Transport` | the transport's commands and readings, as operators |
| `AudioScheduler` (extends `Transport`) | the scheduler, the voices of Web Audio, timer, frames and the player |
| `AudioSchedulerProofs` | theorems about both |
| `GuidedLifecycle` | a guided practice session: each operation of the service as an operator, and which sessions are lawful |
| `GuidedStore` (extends `GuidedLifecycle`) | the server's session store and the threads that serve requests, for any clients |
| `GuidedPage` (extends `GuidedStore`) | the demo page around its session: controller, Accept, Decline, Apply, lesson picker, attempt recorder, evaluation |
| `GuidedPageProofs` | theorems about the three: the operations, the store, and what the page knows of its session |
| `ScoreTiming` | rounding, capture time to ticks, and ticks to time across a tempo map, as operators |
| `ScoreProjections` (extends `ScoreTiming`) | measures, silences, notation and tablature of a revision, with their contracts |
| `SpatialMapping` | the candidate positions of a pitch and the automatic choice among them |
| `PresentationTimeline` | the anchors from which the page computes time |
| `LessonImport` | reading a MIDI file into notes, tempos and meters |
| `LessonPipeline` (extends `LessonImport`, instantiates the three above) | from a lesson, imported or authored and then edited, to all artifacts of a load |
| `CaptureRecord` | what a capture is: its events, its contracts, how it grows and closes, what is derived from it |
| `PerformanceRuntime`, `LiveCapture` (extend `CaptureRecord`) | the fake runtime with its fault scenarios; the live capture service with its device |
| `ScoreRevisions` | documents and revisions, and authors who write in two steps |
| `CanonicalIngestion` (extends `ScoreRevisions`, `ScoreTiming`, `CaptureRecord`) | import policy and the idempotent ingestion service |
| `RuntimeIngestion` | composes the last four: captures, ingestion and later authors |
| `RuntimeIngestionProofs` | theorems about it and about `ScoreRevisions` |
| `NoteMatching` (extends `CaptureRecord`, `ScoreTiming`), `PracticeEvaluation` | pairing and alignment; findings, clusters, next actions, guidance |
| `LocalPractice` (extends `PracticeEvaluation`) | the demo page's attempts against the unlocked capture and education services |
| `LocalPracticeProofs` | theorems about it |
| `LessonDeliveries`, `LessonInbox` | the delivery service with its repositories; the inbox and the practice page against it |
| `LessonInboxProofs` | theorems about them |
| `MediaBinding`, `MediaCatalog` | bindings, drift and health; the catalog and the answer for a lesson |
| `MediaFollower`, `MediaPage` (extend `Transport`) | the follower of a video element; player, emissions and loading around it |
| `MediaPageProofs` | theorems about them |
| `MC*` | instances for TLC, where a run needs symmetry or values that a configuration cannot write; `AttemptService`, `BeginGateway` and `ReceivedAttemptController` are run as they are |

### AttemptService
The variables are the fields of `StoredAttempt` as functions of the attempt,
with `ready` for the threads asleep on its condition and, for each thread, its
place (`pc`), the call it is in, the document it has built and the last answer
it gave. A section of code under the attempt's lock is one action
(`AppendMessage`, `Close`, `Publish`, ...); what a winner does between two such
sections, building the document, is an action of its own (`Build`,
`BuildFails`), so that the other threads run in between. A refusal is an
answer without a change of the record, given when the code's checks, in their
order, find one. A document is its status, the events it was computed from and
the thread that computed it, which stands for the fresh ids every evaluation
mints: two evaluations never give equal documents.

### BeginGateway
Each step of `begin`, `recover` and `_cancel_published` that the key's lock does
not cover is an action: reservation, assembling, commit, claim, the look at the
attempt, the cancel and the settling. A thread calls `Close`, `Build` and
`Publish` of `AttemptService` when the gateway calls `cancel`. Clients use an
attempt only after the gateway has told them its id. `ServerNext` adds the begin without a
key and whatever such a client may ask for, which is all of `AttemptService`.

### AttemptWire and ReceivedAttemptController
The page and the server are far apart: a request is a record in a set, served
at any time, and its answer waits until the page's continuation runs. `Lose`
drops the answer of a request, before or after the server has served it, or
leaves the request to be served late; `Restart` makes the server forget. Both
use up `MaxFaults`. The server is described through the guarantees checked for
the two modules above (one attempt per key, one outcome per attempt). The page
is one record; a handler runs to its next `await` as one action, also where it
calls back into itself (a pause or a reading of the position that publishes the
lesson's end, `Playback`). The `generation` counter of the code is the `live`
mark of a continuation: `StartOver` clears it where the code increments the
counter. Choosing a MIDI input is left out; it only gates the start.

### Transport and AudioScheduler
A transport is a record (base position, time since the anchor, rate, loop,
repetitions); each command is an operator that ends with a `Reading`, because
every event the code publishes carries a snapshot that asks for the position.
The scheduler listens in the same step, as listeners run inside the emit. The
wall clock advances one tick at a time and ages the voices Web Audio has been
given; a frame or a timer tick reads the transport, at most `MaxLate` ticks
apart. The history variable `ideal` is a transport read at every instant, which gets
every command where it stands itself. `seek`, `setLoop` and `clearLoop` set a new anchor
without asking for the position; if a pass or an end was due by then, and nobody had
noticed, it is lost to the transport and not to `ideal`, and `overtaken` remembers this
until a restart makes the two equal again.

### GuidedLifecycle, GuidedStore and GuidedPage
A session is a record with its sequence of attempts; an attempt is named by the
performance it was evaluated from (attempt ids, digests, provenance and the
practice context say no more), and three actions stand for six: one that closes
the session (`continue`), one that may fail (`slow_down`) and one nobody supports
(`view_one_string`). `May...` is an operation's refusals, the operator without it
its result. The server's threads have no lock: `Read` copies the session,
`Write` computes the next one from the copy and stores it, and others may run in
between. A slot is one request with its thread and its answer. A request fails
on its way there or back (`Lose`) and the server may restart; both use up
`MaxFaults`. A request that fails for its client and is served later all the
same is not modelled.

On the page each `await` splits a handler in two actions. Guided requests wait in
their slots; the other awaits (stop, evaluation, artifacts, score) are `errands`.
`kept` is the session the handler closed over when it sent its request
(`preserved` in `syncFromEvaluation`, `session` in the Apply handler). The end of
one await is the start of the next in the same action, as in `loadSession`
(artifacts, transition, score). `started`, `pressed`, `applied` and `overlapped`
record what happened, for the properties. Left out: the await inside
`startAttempt` (one action here), demos without an id, the begin-lesson request,
whose failure only writes a line, the load of the very first lesson, and artifacts
that contradict each other after the transition was made.

### ScoreTiming, ScoreProjections, SpatialMapping, PresentationTimeline
Operators, one per function of the code, over records with the fields the code
computes with. A revision's content stands for its digest and id. A time is a
whole number of microseconds, as in Core; the page's floats are rounded to it.

### LessonImport and LessonPipeline
A MIDI file is read one message at a time; messages of several tracks that meet
at one tick come in any order. The lesson is then a variable that edits change
and `Load` turns into its artifacts, or into the first refusal of
`MvpLessonOrchestrator._run`. The contracts (`__post_init__`) are predicates on
what is built, so that a contract that would raise is a violated invariant.

### CaptureRecord, PerformanceRuntime, LiveCapture, CanonicalIngestion, ScoreRevisions, RuntimeIngestion
An action is a method of the runtime's port or a callback of the MIDI input; a
command that is refused changes nothing and is not written. The scenario, chosen
at the start, is the one thing that is broken, as in `FakeRuntimeScenario`. An
ingestion is one step, because the service calls no other thread in between;
creating a child revision is three, because between reading the document and
storing it another author may run, or the author may be gone (`Abandon`). The
content of a revision contains that of its parent, as its digest does.

The import hears the events one after the other by a recursive function; the
order it sorts them into is the one in which each comes before the next, and a note
crosses over to the place that the notes before it leave to it.

### NoteMatching, PracticeEvaluation, LocalPractice
A call of the page is a record with its progress (`pc`) through its handler; a handler's
steps are the reads and writes of what the services share. `repetitions` and `onsets`
are the two maps of the capture service: a message writes one and then the other
(`MapRepetition`, `MapOnset`), a stop reads the first as it pairs and the second
afterwards (`Pair`, `PlaceNotes`), and both a start and a stop end by clearing them one
after the other (`ResetRepetitions`, `ResetOnsets`), so that half of a place may be
lost. The page issues a call per MIDI message and waits for none, as
`performance_capture.js` does. `sent` records what the page has sent and `quiet` the
performance whose calls never overlapped. The judgement is computed by the operators of
the two other modules in the step of the evaluation. Pairing hears the events one after
the other, as `note_pairing.py` does, by a recursive function; what it returns is sorted
as the code sorts it, which is stated as the one sequence in that order.

### LessonDeliveries and LessonInbox
A call is a record on its way to the service and back. The page counts a
generation per selection and per opening; an answer whose generation is not the
current one changes nothing. Assignments carry their digests, so that two
lessons may differ in one digest only, and their fate in the pipeline.

### MediaBinding, MediaCatalog, MediaFollower, MediaPage
`MediaFollower` is the algorithm of `media-sync.js` on a record of follower and element;
`MediaPage` adds the player, the transport, frames and loads. Wherever the code
publishes inside a call, the step applies the listeners in their order, the nested ones
too. A snapshot takes `playing` before it asks for the position (`Snapshot`): the
publication of the synchronization toggle, the only one no reading comes before
(`TellUnread`), may tell the followers of a lesson that plays after the nested
publication of its end; `history.stale` marks what such an emission did. A loop with a
target counts its passes and completes. The element is modelled from how the page uses
it: a seek lands later, playing may be refused, the learner may use the native controls.
`history` says, for the properties only, for how long the clip could have been put back
in place and was not (`off`), and how long ago the last hard seek was (`quiet`): when
the page itself takes the element out of reach, or the learner moves it back into
tolerance, `off` starts anew.

### Updates of one entry
Where a step changes several fields of one entry of a function, the models write
`[f EXCEPT ![k] = [@ EXCEPT !.a = x, !.b = y]]` and never `[f EXCEPT ![k].a = x,
![k].b = y]`. Both mean the same, but the prover's translation for its SMT solver
(tlapm 1.4.5) takes several updates at one index for updates of the original `f`,
and then proves what is false; a proof must not rest on that. No module, and no
proof, updates a function at two indices in one `EXCEPT`.

## 3. What is checked

| Run | Shows |
|---|---|
| `begin_gateway` | The server with both its ways to begin. With three threads on one attempt: every answer about its end carries the one stored document (`OneOutcome`); an acknowledged message stays where the acknowledgement says (`AckedMessageKept`); a closed capture is frozen (`FrozenWhenClosed`); every terminal call returns (`EveryTerminalReturns`); and the service implements `AttemptRecord` (`ImplementsRecord`). With keys: one attempt and one worker per key (`OneAttemptPerKey`); the fate published is what became of the attempt, and an answer given stands (`FateIsTrue`); recovery is final (`RecoveryIsFinal`); every open key reaches a fate (`OpenKeysSettle`) |
| `attempt_controller` | An evaluated attempt holds every message the page took, unless an append failed while a call of the controller was nested in another, which the run `failed_append_cancels` is about (`EvaluatedIsComplete`); what the page shows, the server stored (`OutcomeShownIsTrue`); nothing is left open behind the page (`NothingLeftOpen`); messages are appended in order, from a queue within its limit (`AppendsInOrder`); the page does not stay busy (`BusySettles`) |
| `audio_scheduler` | A late reading agrees with a transport read at every instant, until a seek or a change of loop overtakes an end that was due (`ReadingsDoNotDrift`); each voice sounds when the transport is at its place, and a stopped transport is silent but for the strays of section 5 (`SoundFollowsTransport`); no note is missed or doubled (`EachNoteOnce`); a lesson ends unless it loops without a target (`EndsOrLoops`) |
| `guided_page` | Stored sessions and answers are lawful, however requests overlap (`LifecycleIsLawful`). While the page's requests do not overlap: an answer on record is one the learner gave (`LearnerDecides`); an action is applied once, and recorded as done only if it was (`EvidenceFollowsRuntime`), also when the record or its answer is lost; what is settled stays (`HistoryIsKept`); and, when nothing has failed, page and server hold the same session and no other is open (`PageMatchesStore`) |
| `lesson_pipeline` | A lesson that is not refused is accepted by every contract downstream, by the preparation of local practice and by the inputs of an attempt's evaluation (`NothingFurtherIsRefused`); an imported file holds each note as often as it was struck, for as long as it was held (`ImportedAsPlayed`); fretboard, plan, aids, tablature and notation agree, at the teacher's positions where there are any (`ArtifactsAgree`); what is shown, heard and written keeps one time, and silences are written where nothing sounds (`TimeIsKept`); fingering and playback do not change the revision (`SameMusicSameRevision`) |
| `runtime_ingestion` | One open capture at most, reachable, and readiness that tells the truth (`OneOpenTake`); each captured event is in one note or one rejection, and times survive the rounding recorded (`EveryEventAccounted`); while a capture runs no step, whatever ends it, costs an event it has or reaches another record (`RecordingIsKept`); a request id has one meaning and one document, and every answer names one stored revision with the notes of what was asked (`RetryTellsTheSame`); histories are whole (`HeadHistoryIsWhole`) and first writes stay (`FirstWriteWins`) |
| `local_practice` | An answered stop holds messages the page sent, each once; a note has its own repetition or the default, and its own onset or none; nothing of all this is missing if no two calls overlapped (`EvidenceIsTrue`); pairing, alignment, findings, counts, advice and guidance account for everything once (`JudgementIsSound`) |
| `lesson_inbox` | A choice binds while the service lives (`ChoiceIsBinding`); what is practised is what was shown and chosen, whatever is late, lost, redelivered or restarted (`PractisedAsChosen`) |
| `media_page` | A clip the page calls synchronized is driven, plays with the lesson unless the last emission was stale when it was sent, is back in place within one settle window and stays within its binding (`FollowsTheLesson`); no hard seek while another may be landing (`NoThrashing`) |

The types of each module are part of one of its run's properties
(`GatewayTypeOK`, `PageTypeOK`, `AudioTypeOK`, `RuntimeTypeOK`) or proved
(`TypeOK` of `AttemptService` and of `GuidedPage`).

Three runs show where the code and what the repository says of it part; their
details, with the quotations, are in `PROJECT.json` under `findings`. Section 5
lists the divergences that have no run of their own.

| Run | Shows |
|---|---|
| `evidence_is_of_its_lesson` | a performance started on one lesson and stopped on another becomes an attempt of the other lesson's session |
| `local_capture_reopens` | a message checked before a stop and stored after it puts an open capture back over the closed one |
| `failed_append_cancels` | a failed append as the lesson ends: the pause in the cancel reports the end, the finish sent from there comes before the cancel, and an attempt without the lost messages is evaluated (`FailedAppendCancels`) |

### Bounds
`begin_gateway`: the clients of a behaviour begin with a key or without. Without: one
attempt (attempts share nothing: each has its own lock, and no action touches two), three
threads (a winner, a waiter and one to interfere; with two waiters one notify would wake
only one), two messages, two clock readings, and positions inside and outside the lesson.
With: one key and two attempts, so that a second attempt for the key could exist, three
threads (an owner, a recovery and a client or a second recovery), and one message
(`KeyedMessages`). `attempt_controller`: two start keys, so that a late answer
can belong to an earlier start; one fault, placed anywhere; two messages and a queue of
two, which can be full while one is in flight. `audio_scheduler`: a lesson of five units
with a note held across the ends of loops, one inside and one after; two rates; loops
without target, with a target of one and of two and switched off; up to six commands and
readings two ticks late, which is as late as the look ahead, so that a loop of one unit
is crossed four times between two readings. `guided_page`: two lessons and two changes,
so that the learner can leave and come back; two performances, so that a session has an
attempt before its last; two session ids, two slots and two errands, so that any two
awaits interleave; one fault, before the last lesson is picked. Once two guided requests
have been pending together (which two clicks in quick succession do), the behaviour is
followed until they are answered and no further: with such an overlap a thread may put
back what another has replaced, so the properties but `LifecycleIsLawful` are not
promised there.

`lesson_pipeline`: files of up to five messages of one pitch on two channels, two tempos
and a meter; authored lessons of two and three notes, over five tempo maps (changes off
the beat, none at zero, two at one tick) and four meter maps (changes on and off a
barline), two strings of a guitar and one of a fretless bass, one unknown instrument,
and one edit of overrides, guidance, playback or tempos, so that each refusal and each
artifact occurs; a refused file ends the behaviour, so deadlock is not checked.
`runtime_ingestion`: two captures and two takes (so that one replaces another), two
events fed to the runtime (`MaxFeeds`), one in a scenario with a fault (`FaultFeeds`),
up to four messages of a device (`MaxMessages`), two request ids, two documents, two
authors, numbers up to two and two edits; the readings use a tempo at which a step
rounds up and one at which it rounds away. The bounds stop the rigs, so deadlock is not
checked. While a live take is open ingestion waits, and authors edit one document of a
live rig; requests, authors and edits are symmetric. `local_practice`: two calls in
flight (`MaxCalls`), and six budgets of time, messages, attempts and lessons: three
messages in one attempt, two messages and four steps of time with a loop of two
repetitions, two attempts that overlap, in the first repetition with two messages and in
a later one (so that a lost repetition shows) with one, and two lessons with an attempt or
with two at which nothing is played; steps of 130 ms fall on time
and late. `lesson_inbox`: four distinct lessons in six envelopes, of which three share
one id and two another, one has none, and one is damaged; two calls, two selections, two
openings, three receptions and one restart. `media_page`: a tick is 100 ms and the
settle window three of them, as 250 ms are; a clip bound in part, one without end that
cannot be sought, a text and a missing item; a loop without a target and one with a
target of two; three commands with one load or two with
two, frames at most two ticks apart. A settle window one tick shorter than the bound
asserted is violated, so the bound is tight.

### Fairness
`begin_gateway` assumes weak fairness of each thread's next step, in the service and in
the gateway: the operating system runs every runnable thread, an evaluation ends
(returning or raising), and Python's condition hands the lock to each thread notified.
No request is assumed to arrive. `attempt_controller` assumes that the browser and the
network make progress: each request is answered or fails in the end; nothing is assumed
of the user, and a request that never ends is outside the model. `audio_scheduler`
assumes that time passes and animation frames come; the player does nothing of
necessity. Runs whose users may simply stop (`attempt_controller`, `audio_scheduler`) do
not check for deadlock: a finished page with its keys used up has nothing to do.
`guided_page` and the five runs after it state no liveness, need no fairness, and may
stop for the same reason; that a clip gets back in place is stated by counting frames,
not as liveness.

## 4. What is proved

The theorem modules are eight; each holds what is proved of one component and of the
modules it is built on.

`BeginGatewayProofs` proves of the attempt service, for any sets of attempts and
threads and any bounds (the assumptions are `ConstantsAssumption` and `NoneAssumption` of
`AttemptService`):

| Theorem | Property |
|---|---|
| `Invariance` | the inductive invariant `IInv` |
| `TypeCorrect` | `TypeOK` |
| `OutcomeIsUnique` | `OneOutcome` |
| `AcksAreKept` | `AckedMessageKept` |
| `CapturesAreOrdered` | `CaptureOrdered` |
| `NoSecondEvaluation` | `EvaluatedOnce` |
| `WinnerIsUnique` | `OneWinner` |
| `ClosedIsFrozen` | `FrozenWhenClosed`, an action property |
| `ImplementsRecordSafety` | every step is a step of `AttemptRecord` or leaves it unchanged |

`IInv` is the conjunction of `TypeOK` with five parts, none of which the
properties give by themselves: `RecordInv` ties intent, result and history to
the phase (a document is stored exactly in the terminal phases); `CaptureInv`
says how the counters of a record follow from its events (needed for
`CaptureOrdered` to survive an append); `ThreadInv` says that a thread outside
the lock has closed the attempt it works for and has built its document from
the capture as it is; `OneWinner`; `HistoryInv` bounds evaluations by the phase
and the winner (needed for `EvaluatedOnce`); and `ReplyInv` says that the last
answers still agree with the records. The proof has one lemma per part, with one
step per action. The properties follow from `IInv`; the two about steps use it
on the state before.

`BeginGatewayProofs` proves of the gateway, for any sets of keys, payloads, attempts
and threads (also assuming `GatewayAssumption`, that `None` is none of them):

| Theorem | Property |
|---|---|
| `GatewayInvariance` | the inductive invariant `GInv` |
| `OneAttempt` | `OneAttemptPerKey` |
| `KeyFatesAreTrue` | `FateIsTrue` |
| `SealedKeysStay` | `RecoveryIsFinal`, an action property |

A gateway step is a step of `AttemptService` or leaves its variables alone, but for
`Commit`, which inserts an attempt nobody has been told of; one lemma shows that
it keeps `IInv`, so everything proved of the service holds behind the gateway.
`GInv` adds `KeyInv` (the attempts made for a key, and where its entry names
one), `JobInv` (what a thread between two of its locked sections still knows of
its key: nobody else has committed, the attempt it recovers is the entry's) and
`CancelInv` (a recovery's call into the service is a cancel of that attempt, and so
is its answer). `FateIsTrue` also compares what was said with what is now the case
(`AnswersStand`), which needs all of them, and for a published interruption the
fact that a closed attempt is frozen.

`ReceivedAttemptControllerProofs` proves, for any number of start keys, messages and
failures and a queue of any size (assuming `WireConstants` of `AttemptWire`, that
`None` is no key, kind or answer, and `PageConstants`: keys are 1, 2, 3, ... as
`start` makes them up):

| Theorem | Property |
|---|---|
| `ControllerInvariance` | the inductive invariant `PageInv` |
| `PageTypes` | `PageTypeOK` |
| `AppendsArriveInOrder` | `AppendsInOrder` |
| `TheOutcomeIsTrue` | `OutcomeShownIsTrue` |
| `TheEvaluationIsComplete` | `EvaluatedIsComplete` |
| `NoAttemptForgotten` | `NothingLeftOpen` |

The page never knows what the server holds; each property compares the two across
requests that may be late, overtaken or lost. `PageInv` says what still holds between
them: what the server stores of a key and what was answered about it (`ServerOK`,
`AnswersOK`); which requests can still be under way, of which a live one fits the
page's state and a quiet one interests nobody (`ShapesOK`, `SinglesOK`); that the key
of a start in progress has had no capture and no recovery (`StartsOK`), and a key
being recovered no capture at all (`RecoveriesOK`); that the one live append carries
the number after the last acknowledged (`PumpOK`), what was acknowledged is stored
(`CountsOK`), and a finish that was not sent in the middle of another handler left no
append behind (`HonestOK`); and who holds every key that is open or about to be
(`HeldOK`). A page step is one of four kinds, each with a lemma of its own: it works
on the attempt (`WorkingKeeps`), begins a new generation (`OverKeeps`), stands beside
the attempt (`AsideKeeps`) or answers a start (`BeginEnds`, `MountSent`,
`MountEnds`). What requests do without the page, losses included, is one lemma
(`MoveKeeps`) and a restart another (`RestartKeeps`). The handlers are shown to be of
these kinds by computing what their nested operators make of a page.

`GuidedPageProofs` proves, for any sets of lessons,
performances, ids, slots and errands and any bounds:

| Theorem | Property |
|---|---|
| `OperationsContinue` | an operation makes of a lawful session a lawful one that continues it |
| `StoreIsLawful` | `LifecycleIsLawful` for clients that ask for anything at any time |
| `PageInvariance` | the inductive invariant `PageInv` |
| `TypeCorrect` | `TypeOK` |
| `SessionsAreLawful` | `LifecycleIsLawful` with the page as client |
| `HistoryKept` | `HistoryIsKept`, an action property |
| `KnowledgeInvariance` | the inductive invariant `Known` |
| `TheLearnerDecides` | `LearnerDecides` |
| `AppliedOnce` | `EvidenceFollowsRuntime` |
| `PageAgrees` | `PageMatchesStore` |

`OperationsContinue` has one lemma per operation about `Lawful` and `Continues`.
`StoreInv` adds to `LifecycleIsLawful` that a thread's copy is a session of the id
it was asked for, without which a write could store one under another's name.
`PageInv` adds what `HistoryIsKept` needs: while requests do not overlap at most
one is pending (`Single`), and then the copy a thread has read is still what is
stored, so its result continues it; the errand that waits for a transition names
a slot with that call (`Links`), so no answer is taken by somebody else.

The last four are about knowledge: the page acts on the session it last saw, while
the stored one may have got ahead of it, because the answer to a request that was
granted is late or lost. None of the three properties says how far. `Known`, which
holds while requests do not overlap, does: the stored session continues the
page's, by an attempt only where the page waits for one (`Ahead`); a request in
flight suits the session the page still shows (`CallKnown`), and if it was granted
its answer is what is stored; a performance is brought to the server once (`Once`)
and until then nobody knows of it (`Fresh`); what is stored was answered by the
learner and applied (`Told`); an action the page would still let the learner apply
has not been applied (`Unapplied`), because the lock is taken before and never given
back; and where nothing has failed, page and server differ by the one granted
answer at most (`Agree`). The three properties follow from it. These four assume
`NoneIsNothing` of `GuidedStore`; the others need no assumption.

`RuntimeIngestionProofs` proves of the score revisions, for any sets of documents,
authors and edits and any bound on numbers, without assumptions:

| Theorem | Property |
|---|---|
| `HistoryIsWhole` | `HeadHistoryIsWhole` |
| `FirstWriteStays` | `FirstWriteWins`, an action property |

`HeadHistoryIsWhole` is not inductive: between its reads and its writes an author
carries a revision that is not stored. `IInv` adds that this revision could be
stored, because its parent is and keeps its number (`AuthorsWhole`); it stays true
while others write because nothing leaves the store (`FollowsStays`). These
theorems are about `RevisionSpec`, the authors with any documents created.

Of captures and ingestion it proves, for any capture ids, inputs, scenarios, readings,
requests, documents, authors and edits, assuming `RuntimeConstants` and
`LiveConstants`, that times and the bounds are numbers, and `IngestionConstants`, that
an origin is not negative (`core/ingestion/contracts.py:168-170`), a tempo does not
round to nothing (`core/score/tempo.py:41`) and no revision is the absence of one:

| Theorem | Property |
|---|---|
| `OneTakeAtATime` | `OneOpenTake`, of the runtime and of the live capture |
| `RunningCapturesStay` | `RecordingIsKept`, an action property |
| `EverythingAccounted` | `EveryEventAccounted`, for captures of any length |
| `OneMeaning` | `RetryTellsTheSame` |
| `IngestedHistoryIsWhole` | `HeadHistoryIsWhole`, where documents come from ingestion |
| `IngestedFirstWriteStays` | `FirstWriteWins`, likewise |

The first two rest on `Recording`: which capture is open follows from the session's
state, and whatever is stored meets the capture's contracts, so that feeding,
stopping and crashing leave closed captures alone.

`EverythingAccounted` is about data computed in one step, and goes by induction over the
events of a capture. A stored capture is in order from neighbour to neighbour and so
from end to end (`OrderedAll`); its notes cross over at their ranks, in that order
(`SourceEvents`); the order by time and place of what is in order is the identity
(`InOrderStays`), so the import hears them as they came. After `k` of them (`ImportOK`),
the first `k` are each in a note, in a rejection or in a queue, and in one of these only
(`Shared`); a queue holds notes of its key as they came, all struck after those already
paired (`OpenOK`, `Behind`), which is why the notes of a key are released in order.
`ImportStep` has one lemma for each branch of `ImportEvent`. At the end the queues are
cited by one more rejection (`Imported`), and counting follows because rejections cite
different events (`CitedCounted`) and notes use different ones (`NotesCounted`). The
observation walks the whole capture, control changes included: after each of its events
as many notes of a key sound as are open after the notes so far (`SoundsAsOpen`).

The others rest on `IngestInv`, which adds three parts to the `IInv` of the revisions:
every answer is about the identity registered for its id and names the
revision kept for it (`AnswersOK`); a kept result was given as an answer and its
revision is stored with the notes asked for (`ResultsOK`), since an identity is
registered before its result and a failure in between leaves none; and a document
exists only because an answer created it (`DocumentsOK`), so that no retry leaves a
second one behind.

`LessonInboxProofs` proves, for any envelopes and any number of calls, selections,
openings, deliveries and restarts, assuming `DeliveryConstants` (assignments with the
same artifact digest are the same, as the digest is taken of the whole serialized
assignment; what building a lesson is refused for is no refusal over choices):

| Theorem | Property |
|---|---|
| `InboxInvariance` | the inductive invariant `InboxInv` |
| `ChoicesBind` | `ChoiceIsBinding` |
| `ChosenIsPractised` | `PractisedAsChosen` |

Both properties compare what a page shows with what the service stored when it
answered. `InboxInv` says what every call was made with (`Asked`: a choice is asked for
with pins the learner was shown), what every answer says (`Told`: a choice or a prepared
lesson that is answered was chosen), what of both is still true as long as the service
lives (`Unforgotten`), and that a page awaits at most one answer for what it shows
(`InboxOK`, `PracticeOK`), which is what the generations are for. The service compares
digests only, never the ids of assignments; that the pins stored are the pins shown
needs the first part of the assumption (`DigestsTell`).

`AudioSchedulerProofs` proves, for any plan, duration, rates, loops, look-ahead and
lateness:

| Theorem | Property |
|---|---|
| `AnchorsNeverDrift` | `ReadingsDoNotDrift` |
| `VoicesFollowTheLesson` | `SoundFollowsTransport` |
| `NotesSoundOnce` | `EachNoteOnce` |

It assumes `TransportConstants` and `AudioConstants`: times are natural numbers, every
note is released after its onset and within the lesson (the plan's contract,
`mvp/playback/models.py:149`, refuses others), and a tick is divided finely enough for
every rate. `ReadingsDoNotDrift` says nothing of a transport for which a seek or a
change of loop has overtaken an end that was due (`overtaken`). A late reading folds all
the passes it has missed into one division. The first theorem rests on `Reading` being
the same after one tick more as the ideal transport's tick of a reading, for each way
the loop may stand (`Ideal`). The second and third need to know what the scheduler has
given away: `AudioInv` says of each voice that it starts and ends when the transport
comes to its note (`Lasting`, `InPlace`) or is a stray of section 5, that no event has
two (`Single`), that what is marked scheduled and not over still sounds (`Sounding`),
and that everything up to the look-ahead of the last tick has been scheduled
(`Covering`). The properties say neither of the last two, and without them a note could
be marked and silent.

`MediaPageProofs` proves, for any catalogs, clips, lessons and loops, any limits and any
number of commands:

| Theorem | Property |
|---|---|
| `ClipFollowsLesson` | `FollowsTheLesson` |
| `NeverThrashes` | `NoThrashing` |

It assumes `TransportConstants`, `FollowerConstants` (a clip that counts as in place is not
one to be seeked, a settle window is not empty, the normal rate is a rate of the transport)
and `MediaConstants`: a catalog holds what its contracts let it hold (`CatalogTypes`), and
`None` is no time and no clip. One publication may move the element several times,
because listeners run inside it; what a chain of emissions keeps is therefore proved
of the follower's operators on a pack of follower and element (`Calm`, `Kept`,
`Obeys`, `Plays`), and the actions say which chain they are. `MediaInv` adds which load the
items on show can belong to (`LoadsInOrder`), and that the time out of place and what is
left of the settle window together never exceed the window (`Drifts`), from which the
bound in `FollowsTheLesson` follows. That the clip plays when the lesson does is proved of
every emission that was not stale when it was sent (`history.stale`).

`LocalPracticeProofs` proves, for any lessons, messages, times, loops and budgets and any
number of calls under way at once:

| Theorem | Property |
|---|---|
| `EvidenceOfWhatWasPlayed` | `EvidenceIsTrue` |

It assumes `PracticeConstants`: the data bytes of a MIDI message have seven bits, the
clock the page reads does not go back, and `None` is no capture. `PracticeInv` has two
parts. `TruthInv` is what every call keeps, whatever the others do between its steps:
each capture and each copy of one that a call carries meets the capture's contract and
holds messages as they were sent, each once (`Genuine`); a message still to be appended is
in no capture and in no copy (`Unheard`), or two calls would make it two; and a
repetition or an onset that is kept for an event is the one it was sent with
(`PlacesFit`), each for itself, since a reset or a message of another call may come
between the two. So what a stop answers is true half by half, even where calls overlapped
and something was lost. `WholeInv` is about a
performance whose calls never met: the one call under way has all that was sent, but
for the message it carries itself (`CallWhole`), and so nothing is lost. Between the
capture and the answer stands pairing, which is proved to return notes of the events it
was given (`PairedNotes`).

`TypeOK`, `CaptureOrdered`, `EvaluatedOnce` and `OneWinner` of the attempt service
and `TypeOK` of the guided page are proved and no longer listed in a run. Each
inductive invariant was checked with TLC on the run's instance before it was
proved.

Induction over data: the library's induction theorems take an operator as a parameter,
which the installed provers cannot instantiate. Where a proof needs such an induction it
uses sets instead of predicates: a set of numbers that contains 0 and with each number
the next contains all (`SetInduction`), a finite set that is not empty has a smallest
subset or element of a kind (`SmallestSubset`, `LeastNumber`), and a recursive function
is shown to exist by building it that way (`HearingExists`, `ImportingExists`,
`HoldingExists`). That is why pairing, the import and the count of what sounds are
recursive functions and not folds.

Only model-checked:
- liveness and fairness, also those of `AttemptRecord`, and `BusySettles` of the attempt
  controller (outside the prover);
- `JudgementIsSound` of local practice: alignment, findings, clusters and guidance fold
  over rows and ranges, and are counted against each other; `FoldLeft` and
  `SetToSortSeq` take the step and the order as operators, and the provers find nothing
  about what they return;
- `ImportedAsPlayed`, `NothingFurtherIsRefused`, `ArtifactsAgree`, `TimeIsKept` and
  `SameMusicSameRevision` of the lesson pipeline: they are about data computed in one
  step, on sorted and folded files, tempo maps, anchors and measures;
- the three runs of section 3 that expect a violation.

What the proofs taught about the models:
- `off` of the media page was only looked at by frames. A step between two frames that
  put the clip back in place went unnoticed, and after several such, more than the
  checked bounds allow, the clip counted as late although it had not been. Those steps
  now look too, and the bound holds for any number of commands.
- `seek` clamps to the lesson (`web/transport.js:88`); the seek of the media page did so
  only for want of positions beyond the end.
- Several updates of one entry in one `EXCEPT`, see the end of section 2.

## 5. Divergences met

Besides the three runs above, modelling showed these; the models do what the code
does, and the properties are stated so as to hold of it.

Attempts and start keys:
- A note-off that arrives between the gateway's unlocked look at an attempt and its
  cancel ends up in a recovery published as empty
  (`received_lesson_begin_request.py:130-152`).
- A message that arrives as the lesson ends is queued after the finish has been sent
  (`received_attempt_controller.js:296`).
- The late answer to a begin of an earlier page view drops the key of the present one
  (`received_attempt_controller.js:172`).

Sound and media:
- A scheduler tick that itself completes the loop goes on to schedule notes that the
  panic of the completion no longer reaches (`audio_scheduler.js:80`).
- "Increments the repetition counter once per crossing" (`MVP2A_PRACTICE_LOOP.md:15-16`)
  does not hold where a seek or a change of loop comes before anybody has read the
  position: the pass is lost, and so is an end, after which the lesson plays on
  (`transport.js:85-91`, `:106-132`). `ReadingsDoNotDrift` promises nothing then.
- A snapshot takes `playing` before it asks for the position. When switching the
  synchronization of a clip is the first to notice that the lesson is over, the followers
  hear of the end and then of a lesson that plays: the clip starts, and nothing stops it
  until the next command (`transport.js:31`, `app.js:971`, `media-sync.js:277-282`).
  `FollowsTheLesson` says nothing of a clip right after such a publication.
- `loadForLesson` does not check that its lesson is still the one wanted; a late empty
  answer leaves the follower driving a hidden clip (`media-player.js:114-143`).
- An item that is not available but bound makes the toggle say "synchronized" while
  the follower has no binding (`media-player.js:282-293`, `:86-91`).
- Events published inside a publication share its sequence number
  (`teaching-timeline.js:153-160`, `:306-307`).
- "Explicit repositioning events always earn a hard seek" (`media-sync.js:243`) does not
  hold within the settle window, so a loop shorter than 250 ms is never followed.
- `play()` starts an ended clip anew when its binding has no end.
- Selecting a text or an unavailable item hides a playing video without pausing it.
- The Python health record differs from the page's inside the settle window and for
  forced seeks (`presentation/synchronization.py:95-152`).

Lessons and scores:
- Where meters change off a barline, the last measure keeps its full length, and a rest
  at the change is written in both measures (`notation.py:314`).
- Of two tempos at one tick the later wins, says `projection/timeline.py:44`; the load
  refuses such a lesson when its map is not strictly ordered.
- A revision takes the lesson's tempo at tick 0 only; an edited tempo map later in
  the lesson does not change it (`canonicalization.py:109`).
- A revision found already stored is returned although the document may not point at
  it any more; the check for stale writes that `core/score/models.py:84-85` speaks of
  is not made in `revision_service.py:182`.

Captures and evaluation:
- The runtime's `feed_note_on` counts a note-on of velocity 0 as sounding, and the
  list of sounding notes survives `stop_capture`.
- "A closed capture cannot reopen" (`fake_runtime.py:14-15`), "raw capture is immutable
  once closed" (`performance/README.md:54`): `start_capture` under the id of a closed
  capture replaces it by an open and empty one (`:398`). `RecordingIsKept` speaks of the
  time while a capture runs, when no start is accepted.
- An acknowledged message of local practice may be lost or land in a later capture
  (`performance_api.py:91`, `:105`); overtaken messages are refused for their time.
- Where a start or a stop meets a message or another stop, a note may be answered with
  repetition 0 and the onset of a later one, or with its repetition and no onset
  (`performance_api.py:70-71`, `:101-104`, `:125-129`).
- The history may take an attempt of another lesson (`session_history.py:14`, `:36`).
- Repetitions without findings are not compared; of an interrupted repetition the notes
  not reached count as expected.

## 6. Not modelled, and why

- Rendering, wording, static tables, geometry, shape checks of JSON bodies: no
  state and no property of the above depends on them.
- The Ardour adapter (OSC and a process) is I/O; the port it implements is modelled
  through the fake runtime. An adapter that stores and then loses its answer is not
  modelled.
- Runtime: transport mode, loop and synth commands, which nothing reads. Capture: the
  content of controller and bend messages.
- Local practice: `last_result`, `get`, `session`, `apply_action`, the golden demo,
  arming and restarts; time passes when the page reads its clock, not within a handler; checking and
  numbering a message is one step, and so is reading one map for all notes of a capture,
  as the properties speak of one note at a time; ids that break ties are ascending or descending.
- Inbox: hiding the page and the filter by recipient; an error 500 while building is a
  refusal like a 422.
- Media: pages without a video element, lessons of different lengths or without
  anchors; seeks by hand land at once.
- Guided sessions: digests, provenance, practice context; see section 2.
- Zone Harmony, governance and scripts: static data and tooling.
