---------------------------- MODULE MediaFollower ----------------------------
(***************************************************************************)
(* The follower that keeps a video element with the lesson (media-sync.js). *)
(* It owns no time: it is told of every state the transport publishes and   *)
(* of each animation frame, and then plays, pauses, nudges or seeks the     *)
(* element.  A hard seek opens a window in which nothing more is sent.      *)
(*                                                                         *)
(* m is [f, e, quiet, thrashed]: the follower, the element, and a history   *)
(* of the hard seeks.  quiet counts the ticks since the last one; it is     *)
(* Settle when none is recent or the element was measured in place since.   *)
(* thrashed says that one was sent while it was not quiet.                  *)
(*                                                                         *)
(* The follower is [binding, on, settle, health], where settle counts the   *)
(* ticks until _settleUntilMs.  The element is [clip, time, landing,        *)
(* paused, rate, nudge, ready, mayPlay]: landing is where a seek is on its  *)
(* way to, nudge the sign of RESAMPLE_NUDGE, and mayPlay whether the        *)
(* browser lets it start.  The page always has the element and its time is  *)
(* always finite, so "unavailable" is not reached.                          *)
(***************************************************************************)
EXTENDS Transport

CONSTANTS
    SyncedLimit, SeekLimit,
    Settle,       \* HARD_SEEK_SETTLE_MS, in ticks
    NormalRate,   \* rate 1, as the transport's
    Length,       \* clip -> how long it is
    Rigid         \* the clips whose seekable range is empty

INSTANCE MediaCatalog

ASSUME FollowerConstants ==
    /\ SyncedLimit \in Nat /\ SeekLimit \in Nat /\ SyncedLimit < SeekLimit
    /\ Settle \in Nat \ {0} /\ NormalRate \in Rate
    /\ Rigid \subseteq DOMAIN Length

NewFollower == [binding |-> None, on |-> FALSE, settle |-> 0, health |-> None]

NewElement(mayPlay) ==
    [clip |-> None, time |-> 0, landing |-> None, paused |-> TRUE,
     rate |-> NormalRate, nudge |-> 0, ready |-> FALSE, mayPlay |-> mayPlay]

-----------------------------------------------------------------------------
(* What may be done to the element *)

AtEnd(e) == e.clip # None /\ e.time = Length[e.clip]

\* Playing a clip that has ended begins it anew.
Resumed(e) ==
    IF ~e.paused \/ ~e.mayPlay THEN e
    ELSE [e EXCEPT !.paused = FALSE, !.time = IF AtEnd(e) THEN 0 ELSE @]

Halted(e) == [e EXCEPT !.paused = TRUE]

FollowPlayState(e, t) == IF t.playing THEN Resumed(e) ELSE Halted(e)

SetElementRate(e, rate, nudge) == [e EXCEPT !.rate = rate, !.nudge = nudge]

RestoreDetachedRate(e) == SetElementRate(e, NormalRate, 0)

CanSeekTo(e, x) == e.clip \notin Rigid \cup {None} /\ x \in 0 .. Length[e.clip]

-----------------------------------------------------------------------------
(* onTimeline, when the transport stands at t *)

\* lessonTimeToMediaTime, the browser's own: None when nothing is claimed.
Expected(b, seconds) ==
    IF \/ b = None \/ b.mode # "synchronized" \/ seconds < b.from
       \/ b.until # None /\ seconds > b.until
       \/ b.mediaUntil # None /\ b.mediaFrom + (seconds - b.from) > b.mediaUntil
    THEN None ELSE b.mediaFrom + (seconds - b.from)

Report(m, f, e, health) ==
    [m EXCEPT !.f = [f EXCEPT !.health = health], !.e = e,
              !.quiet = IF health.status = "synced" THEN Settle ELSE @]

Forced(reason) == reason \in {"seek", "loop-wrap", "restart"}

HardSeek(m, e, x, t) ==
    [m EXCEPT !.f.settle = Settle, !.thrashed = @ \/ m.quiet < Settle, !.quiet = 0,
              !.e = SetElementRate([e EXCEPT !.landing = x], t.rate, 0)]

\* Within the window only what is measured is said, and being back ends it.
Settling(m, e, x) ==
    LET status == ClassifySyncHealth(m.e.time - x)
    IN Report(m, [m.f EXCEPT !.settle = IF status = "synced" THEN 0 ELSE @], e,
              BuildHealth(status, x, m.e.time, "none"))

\* Out of the window: a reposition is followed at once, drift is corrected.
Steer(m, e, x, t, reason) ==
    LET drift  == m.e.time - x
        choice == IF Forced(reason) THEN "hard_seek" ELSE ChooseSyncCorrection(drift)
        status == IF Forced(reason) THEN "correcting" ELSE ClassifySyncHealth(drift)
        health == BuildHealth(status, x, m.e.time, choice)
    IN IF choice = "hard_seek"
       THEN IF CanSeekTo(e, x)
            THEN LET s == HardSeek(m, e, x, t) IN Report(s, s.f, s.e, health)
            ELSE Report(m, m.f, e, BuildHealth("degraded", x, m.e.time, None))
       ELSE Report(m, m.f,
                   SetElementRate(e, t.rate, IF choice = "none" THEN 0
                                             ELSE IF drift > 0 THEN -1 ELSE 1), health)

\* Wrong on purpose: a reposition does not wait for the seek under way.
FollowImpatient(m, t, reason) ==
    LET x == Expected(m.f.binding, Raw(t)) IN
    IF ~m.f.on THEN Report(m, m.f, m.e, BuildHealth("detached", None, None, None))
    ELSE IF x = None THEN
        Report(m, m.f, Halted(m.e), BuildHealth("out_of_binding_range", None, m.e.time, None))
    ELSE IF ~m.e.ready THEN Report(m, m.f, m.e, BuildHealth("degraded", x, m.e.time, None))
    ELSE IF m.f.settle > 0 /\ ~Forced(reason) THEN Settling(m, FollowPlayState(m.e, t), x)
    ELSE Steer(m, FollowPlayState(m.e, t), x, t, reason)

Follow(m, t, reason) ==
    LET x == Expected(m.f.binding, Raw(t)) IN
    IF ~m.f.on THEN Report(m, m.f, m.e, BuildHealth("detached", None, None, None))
    ELSE IF x = None THEN
        Report(m, m.f, Halted(m.e), BuildHealth("out_of_binding_range", None, m.e.time, None))
    ELSE IF ~m.e.ready THEN Report(m, m.f, m.e, BuildHealth("degraded", x, m.e.time, None))
    ELSE IF m.f.settle > 0 THEN Settling(m, FollowPlayState(m.e, t), x)
    ELSE Steer(m, FollowPlayState(m.e, t), x, t, reason)

-----------------------------------------------------------------------------
(* What the page calls *)

SetBinding(m, b) ==
    LET on == b # None /\ b.mode = "synchronized"
    IN [m EXCEPT !.f = [@ EXCEPT !.binding = b, !.on = on, !.settle = 0],
                 !.e = IF on THEN @ ELSE RestoreDetachedRate(@)]

SetMode(m, on) ==
    IF on /\ m.f.binding = None THEN [m EXCEPT !.f.on = FALSE]
    ELSE [m EXCEPT !.f = [@ EXCEPT !.on = on, !.settle = 0],
                   !.e = IF on THEN @ ELSE RestoreDetachedRate(@)]

OnLesson(m) == [m EXCEPT !.f = NewFollower]

=============================================================================
