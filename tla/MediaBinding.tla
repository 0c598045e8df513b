---------------------------- MODULE MediaBinding ----------------------------
(***************************************************************************)
(* What a lesson's time is on a clip that is bound to it, and how far the   *)
(* clip is off: the binding and health contracts of presentation/contracts, *)
(* with the arithmetic of presentation/timeline and synchronization.        *)
(*                                                                         *)
(* A binding is [lesson, media, mode, from, until, mediaFrom, mediaUntil];  *)
(* either end may be None.  A health record is                              *)
(* [status, expected, actual, drift, correction].                           *)
(***************************************************************************)
EXTENDS Integers

CONSTANTS
    SyncedLimit,  \* DRIFT_SYNCED_THRESHOLD_MS
    SeekLimit,    \* DRIFT_HARD_SEEK_THRESHOLD_MS
    None

\* MediaTimelineBindingV1: two ends that are both declared span the same time.
BindingContract(b) ==
    /\ b.mode \in {"detached", "synchronized"}
    /\ b.from >= 0 /\ b.mediaFrom >= 0
    /\ b.until # None => b.until > b.from
    /\ b.mediaUntil # None => b.mediaUntil > b.mediaFrom
    /\ (b.until # None /\ b.mediaUntil # None) => b.until - b.from = b.mediaUntil - b.mediaFrom

\* binding_contains_lesson_time and binding_contains_media_time
ContainsLesson(b, t) == b.from <= t /\ (b.until # None => t <= b.until)
ContainsMedia(b, x) == b.mediaFrom <= x /\ (b.mediaUntil # None => x <= b.mediaUntil)

\* lesson_time_to_media_time, and back: None outside of what the binding claims.
LessonToMedia(b, t) ==
    LET x == b.mediaFrom + (t - b.from)
    IN IF b.mode = "synchronized" /\ ContainsLesson(b, t) /\ ContainsMedia(b, x) THEN x ELSE None

MediaToLesson(b, x) ==
    LET t == b.from + (x - b.mediaFrom)
    IN IF b.mode = "synchronized" /\ ContainsMedia(b, x) /\ ContainsLesson(b, t) THEN t ELSE None

Off(drift) == IF drift < 0 THEN -drift ELSE drift

ClassifySyncHealth(drift) ==
    IF Off(drift) <= SyncedLimit THEN "synced"
    ELSE IF Off(drift) <= SeekLimit THEN "drifting" ELSE "correcting"

ChooseSyncCorrection(drift) ==
    IF Off(drift) <= SyncedLimit THEN "none"
    ELSE IF Off(drift) <= SeekLimit THEN "resample" ELSE "hard_seek"

MeasuredStatus == {"synced", "drifting", "correcting"}

\* build_synchronization_health, with the correction left to the caller: a
\* status that was not measured claims no drift.
BuildHealth(status, expected, actual, correction) ==
    [status |-> status, expected |-> expected, actual |-> actual,
     drift |-> IF status \in MeasuredStatus THEN actual - expected ELSE None,
     correction |-> IF status \in MeasuredStatus THEN correction ELSE None]

\* SynchronizationHealthV1
HealthContract(h) ==
    IF h.status \in MeasuredStatus
    THEN None \notin {h.expected, h.actual, h.drift} /\ h.drift = h.actual - h.expected
    ELSE h.drift = None

=============================================================================
