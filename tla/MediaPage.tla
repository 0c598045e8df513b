------------------------------ MODULE MediaPage ------------------------------
(***************************************************************************)
(* The demo page's teaching media: media-player.js, the follower beside it, *)
(* the emissions of teaching-timeline.js that drive both, and as much of    *)
(* app.js as loads lessons.  The player keeps the items of a lesson, which  *)
(* is active, and whether it is synchronized; the follower keeps a mode and *)
(* a binding of its own, and a third place, the transport, has the time.    *)
(*                                                                         *)
(* The transport's commands publish at once, and each animation frame       *)
(* publishes too; at most MaxLate ticks pass between two frames, and none   *)
(* within a handler.  Lessons and their media are fetched, and the answers  *)
(* come in any order.  Every lesson is taken to be as long and to carry its *)
(* anchors; repetitions, of which the follower knows nothing, are counted   *)
(* only towards a target.                                                   *)
(***************************************************************************)
EXTENDS MediaFollower

CONSTANTS
    Lessons, Catalogs, Files,  \* what the server has when it is asked
    Slips,                     \* how far a clip may be from its rate in a tick
    MediaLoop,                 \* the loop that may be set on a clip by itself
    Seeks,                     \* where the learner may seek to
    Budgets,                   \* bounds: [ops, loads], what may be asked in one behaviour
    MaxLate

ASSUME MediaConstants ==
    /\ None \notin Int /\ None \notin DOMAIN Length
    /\ \A clip \in DOMAIN Length : Length[clip] \in Nat
    /\ \A c \in Catalogs \ {None} : CatalogTypes(c, Length)
    /\ Slips \subseteq Int /\ Seeks \subseteq Nat /\ MediaLoop.start \in Int
    /\ Budgets \subseteq [ops : Nat, loads : Nat] /\ MaxLate \in Nat

VARIABLES
    follower, element,
    player,    \* [items, active, sync, loop, late]
    lesson,    \* the lesson the timeline is bound to, None before the first
    loading,   \* lessons whose artifacts are on their way
    fetches,   \* the loads whose media are on their way: [id, lesson]
    may, unread,   \* what is left of the budget; ticks since the last frame
    history    \* [quiet, off, fresh, stale, thrashed], see below

page == <<player, lesson, loading, fetches>>
vars == <<transport, follower, element, page, may, unread, history>>

\* late: history, whether the answer to an earlier load is behind the items.
NoMedia == [items |-> <<>>, active |-> 1, sync |-> FALSE, loop |-> None, late |-> FALSE]

\* Of the history, off counts the ticks for which the element has been far out
\* though it could be moved and the lesson has not jumped, fresh says that
\* nothing but the last emission has touched it, stale that this emission did
\* not say of the transport what it had come to, and quiet and thrashed are
\* the follower's.
Init ==
    /\ transport = NewTransport(NormalRate)
    /\ follower = NewFollower
    /\ \E mayPlay \in BOOLEAN : element = NewElement(mayPlay)
    /\ player = NoMedia /\ lesson = None
    /\ \E l \in Lessons : loading = {l}
    /\ fetches = {} /\ may \in Budgets /\ unread = 0
    /\ history = [quiet |-> Settle, off |-> 0, fresh |-> FALSE, stale |-> FALSE,
                  thrashed |-> FALSE]

-----------------------------------------------------------------------------
(* The player's part *)

Active(p) == IF p.items = <<>> THEN None ELSE p.items[p.active]
ActiveBinding(p) == IF Active(p) = None THEN None ELSE Active(p).binding
Shown(p) == Active(p) # None /\ Active(p).available

Media == [f |-> follower, e |-> element,
          quiet |-> history.quiet, thrashed |-> history.thrashed]

\* onBindingChange, as app.js connects it
BindingChanged(m, b, sync) == SetMode(SetBinding(m, b), sync)

\* video.load() with another source or with none
LoadClip(e, clip) ==
    [NewElement(e.mayPlay) EXCEPT !.clip = clip]

\* Wrong on purpose: the follower is not told.
ClearedMediaQuietly(m) == [m EXCEPT !.e = LoadClip(@, None)]
\* clear: what the follower knows goes with what the player knows.
ClearedMedia(m) == BindingChanged([m EXCEPT !.e = LoadClip(@, None)], None, FALSE)

\* select, once the items are p's: nothing of the synchronization carries over.
SelectedPlayer(p, i) == [p EXCEPT !.active = i, !.sync = FALSE, !.loop = None]

SelectedMedia(m, p) ==
    LET item == Active(p) IN
    IF ~item.available THEN BindingChanged(m, None, FALSE)
    ELSE BindingChanged([m EXCEPT !.e = IF item.media.type = "video"
                                        THEN LoadClip(@, item.media.id) ELSE @],
                        item.binding, FALSE)

-----------------------------------------------------------------------------
(* Emissions *)

Counted(t) ==
    IF t.loop # None /\ t.loop.target # None THEN t ELSE [t EXCEPT !.reps = 0]

\* What a reading that has noticed an end publishes first.
Noticed(t) ==
    IF Reading(t).playing THEN "loop-wrap"
    ELSE IF Looping(t) /\ Raw(t) >= t.loop.end THEN "loop-complete" ELSE "complete"

Emit(m, t, reason) == IF lesson = None THEN m ELSE Follow(m, t, reason)

Notice(m, t) == IF Reading(t) = t THEN m ELSE Emit(m, Reading(t), Noticed(t))

\* publish, after a reading: by the transport, whose own event takes a snapshot
\* before the timeline takes another, or by the frame.
Tell(m, t, reason) == Emit(Notice(m, t), Reading(t), reason)

\* snapshot looks whether the transport plays before it asks for the position,
\* which may notice an end and publish that before.
Snapshot(t) == [Reading(t) EXCEPT !.playing = t.playing]

\* publish, by nobody who has just read the transport.
TellUnread(m, t, reason) == Emit(Notice(m, t), Snapshot(t), reason)

\* How far the element is from where the lesson wants it, if it could be moved.
Movable(e, x) == e.ready /\ e.landing = None /\ x # None /\ CanSeekTo(e, x)

FarOut(f, e, t) ==
    LET x == Expected(f.binding, Raw(Reading(t)))
    IN f.on /\ Movable(e, x) /\ Off(e.time - x) > SeekLimit

LeaveAs(m, t, stale) ==
    /\ transport' = Counted(t)
    /\ follower' = m.f /\ element' = m.e
    /\ history' = [history EXCEPT
          !.fresh = TRUE,
          !.stale = stale,
          !.thrashed = m.thrashed,
          !.off = IF Raw(t) = Raw(transport) /\ FarOut(m.f, m.e, Counted(t)) THEN @ ELSE 0,
          !.quiet = IF m.f.on THEN m.quiet ELSE Settle]

Leave(m, t) == LeaveAs(m, t, FALSE)

\* A command of the transport that ends in an emission: t is the transport
\* it leaves, m what has been heard up to then.
Publish(m, t, reason) == Leave(Tell(m, t, reason), Reading(t))

Ask == lesson # None /\ may.ops > 0 /\ may' = [may EXCEPT !.ops = @ - 1]

\* The page's buttons and, while synchronized, those of the media.
PlayLesson ==
    /\ Ask /\ ~transport.playing
    /\ Publish(Media, Started(transport), "play")
    /\ UNCHANGED <<page, unread>>

\* Also when the tab is hidden.
PauseLesson ==
    /\ Ask /\ transport.playing
    /\ LET u == Reading(transport)
       IN Publish(Notice(Media, transport), Stopped(u, Raw(u)), "pause")
    /\ UNCHANGED <<page, unread>>

RestartLesson ==
    /\ Ask
    /\ Publish(Media, Restart(transport), "restart")
    /\ UNCHANGED <<page, unread>>

SeekLesson(position) ==
    /\ Ask
    /\ Publish(Media, [transport EXCEPT !.elapsed = 0,
                                        !.base = IF position < Duration THEN position
                                                 ELSE Duration], "seek")
    /\ UNCHANGED <<page, unread>>

SetLessonRate(r) ==
    /\ Ask
    /\ LET u == Reading(transport)
       IN Publish(Notice(Media, transport),
                  [u EXCEPT !.rate = r, !.base = Raw(u), !.elapsed = 0], "rate")
    /\ UNCHANGED <<page, unread>>

SetLessonLoop(l) ==
    /\ Ask
    /\ Publish(Media, [transport EXCEPT !.loop = l, !.reps = 0], "loop")
    /\ UNCHANGED <<page, unread>>

\* The frame's own reading comes before its emission, with the same result.
Frame ==
    /\ lesson # None
    /\ Publish(Media, transport, "frame")
    /\ unread' = 0
    /\ UNCHANGED <<page, may>>

-----------------------------------------------------------------------------
(* The learner and the media panel *)

\* The toggle is there only for media with a binding.  It publishes by itself.
ToggleSync ==
    /\ Ask /\ ActiveBinding(player) # None
    /\ player' = [player EXCEPT !.sync = ~@, !.loop = IF ~player.sync THEN @ ELSE None]
    /\ LeaveAs(TellUnread(SetMode(Media, ~player.sync), transport, "sync-mode"),
               Reading(transport), Snapshot(transport) # Reading(transport))
    /\ UNCHANGED <<lesson, loading, fetches, unread>>

Select(i) ==
    /\ Ask /\ i \in DOMAIN player.items
    /\ player' = SelectedPlayer(player, i)
    /\ Leave(SelectedMedia(Media, SelectedPlayer(player, i)), transport)
    /\ UNCHANGED <<lesson, loading, fetches, unread>>

\* Anything done to the element itself: the controls of the panel while the
\* media is detached, its cues that are not bound, and its own controls.
Touch(e) ==
    /\ Ask /\ Shown(player) /\ Active(player).media.type = "video"
    /\ element' = e
    /\ history' = [history EXCEPT !.fresh = FALSE,
                               !.off = IF FarOut(follower, e, transport) THEN @ ELSE 0]
    /\ UNCHANGED <<transport, follower, lesson, loading, fetches, unread>>

\* Such a seek is taken to land at once.
MovedTo(x) == [element EXCEPT !.time = x, !.landing = None]

PlayElement == Touch(Resumed(element)) /\ UNCHANGED player
PauseElement == Touch(Halted(element)) /\ UNCHANGED player

SetRateOfElement(r) == ~player.sync /\ Touch(SetElementRate(element, r, 0)) /\ UNCHANGED player

SetMediaLoop ==
    /\ ~player.sync /\ Touch(Resumed(MovedTo(MediaLoop.start)))
    /\ MediaLoop.end <= Length[element.clip]
    /\ player' = [player EXCEPT !.loop = MediaLoop]

\* A cue seeks the lesson if it is bound to it, and else the element only.
SeekByCue(c) ==
    IF c.lesson # None THEN SeekLesson(c.lesson)
    ELSE Touch(MovedTo(c.at)) /\ UNCHANGED player

-----------------------------------------------------------------------------
(* Loading a lesson *)

\* The change of the lesson select: the media go before anything is fetched.
ChooseLesson(l) ==
    /\ Cardinality(loading) < may.loads
    /\ LET u == Reading(transport)
           m == IF transport.playing
                THEN Tell(Notice(Media, transport), Stopped(u, Raw(u)), "pause")
                ELSE Media
       IN Leave(ClearedMedia(m), IF transport.playing THEN Stopped(u, Raw(u)) ELSE transport)
    /\ player' = NoMedia /\ loading' = loading \cup {l}
    /\ UNCHANGED <<lesson, fetches, may, unread>>

LoadFails(l) ==
    /\ l \in loading /\ loading' = loading \ {l}
    /\ UNCHANGED <<transport, follower, element, player, lesson, fetches, may, unread, history>>

\* applySessionArtifacts: setLesson tells the follower to forget, the lesson's
\* own practice loop is set, loadForLesson clears the player, and its request
\* is on its way.
ApplyLesson(l, loop) ==
    /\ l \in loading
    /\ LET u == Reading(transport)
           paused == IF transport.playing
                     THEN Tell(Notice(Media, transport), Stopped(u, Raw(u)), "pause")
                     ELSE Media
           start  == Restart(transport)
           restarted == Tell(Tell(paused, start, "restart"), start, "duration")
           bound == Follow(OnLesson(restarted), Restart(transport), "lesson")
           looped == [Restart(transport) EXCEPT !.loop = loop]
       IN Leave(ClearedMedia(Follow(bound, looped, "loop")), looped)
    /\ player' = NoMedia
    /\ lesson' = l /\ loading' = loading \ {l}
    /\ fetches' = fetches \cup {[id |-> may.loads, lesson |-> l]}
    /\ may' = [may EXCEPT !.loads = @ - 1]
    /\ UNCHANGED unread

\* The rest of loadForLesson.  Nothing asks whether this is still the lesson.
MediaArrive(fetch, answer) ==
    /\ fetch \in fetches /\ fetches' = fetches \ {fetch}
    /\ LET p == [player EXCEPT !.items = answer.items,
                                 !.late = fetch.id > may.loads + 1 \/ (@ /\ answer.items = <<>>)]
       IN IF ~answer.ok THEN UNCHANGED <<transport, follower, element, player, history>>
          ELSE IF answer.items = <<>>
               THEN player' = p /\ UNCHANGED <<transport, follower, element, history>>
          ELSE /\ player' = SelectedPlayer(p, 1)
               /\ Leave(SelectedMedia(Media, SelectedPlayer(p, 1)), transport)
    /\ UNCHANGED <<lesson, loading, may, unread>>

-----------------------------------------------------------------------------
(* The browser *)

Advanced(e, slip) ==
    IF e.paused \/ ~e.ready \/ e.landing # None THEN e
    ELSE LET x == e.time + e.rate + slip
         IN [e EXCEPT !.time = IF x < Length[e.clip] THEN x ELSE Length[e.clip],
                      !.paused = x >= Length[e.clip]]

Tick(slip) ==
    /\ unread < MaxLate \/ lesson = None
    /\ unread' = IF lesson = None THEN 0 ELSE unread + 1
    /\ transport' = IF transport.playing THEN [transport EXCEPT !.elapsed = @ + 1] ELSE transport
    /\ element' = Advanced(element, slip)
    /\ follower' = [follower EXCEPT !.settle = IF @ > 0 THEN @ - 1 ELSE 0]
    /\ history' = [history EXCEPT
          !.quiet = IF @ < Settle THEN @ + 1 ELSE Settle,
          !.off = IF FarOut(follower', element', transport') THEN @ + 1 ELSE 0,
          !.fresh = FALSE]
    /\ UNCHANGED <<page, may>>

\* A hard seek is through.
Land ==
    /\ element.landing # None
    /\ element' = MovedTo(element.landing)
    /\ history' = [history EXCEPT !.fresh = FALSE,
                               !.off = IF FarOut(follower, element', transport) THEN @ ELSE 0]
    /\ UNCHANGED <<transport, follower, page, may, unread>>

\* Data run out, and come.
Buffer ==
    /\ element.clip # None
    /\ element' = [element EXCEPT !.ready = ~@]
    /\ history' = [history EXCEPT !.fresh = FALSE, !.off = 0]
    /\ UNCHANGED <<transport, follower, page, may, unread>>

\* timeupdate: the loop of the clip itself is not heeded while synchronized.
TimeUpdate ==
    /\ player.loop # None /\ ~player.sync /\ element.time >= player.loop.end
    /\ element' = MovedTo(player.loop.start)
    /\ UNCHANGED <<transport, follower, page, may, unread, history>>

Next ==
    \/ PlayLesson \/ PauseLesson \/ RestartLesson \/ Frame
    \/ \E position \in Seeks : SeekLesson(position)
    \/ \E r \in Rate : SetLessonRate(r) \/ SetRateOfElement(r)
    \/ \E l \in Loop \cup {None} : SetLessonLoop(l)
    \/ ToggleSync \/ (\E i \in DOMAIN player.items : Select(i))
    \/ PlayElement \/ PauseElement \/ SetMediaLoop
    \/ (Shown(player) /\ \E c \in Active(player).media.cues : SeekByCue(c))
    \/ \E l \in Lessons : ChooseLesson(l) \/ LoadFails(l)
    \/ \E l \in loading, loop \in Loop \cup {None} : ApplyLesson(l, loop)
    \/ \E fetch \in fetches, c \in Catalogs, files \in Files :
          MediaArrive(fetch, MediaAnswer(c, fetch.lesson, files))
    \/ \E slip \in Slips : Tick(slip)
    \/ Land \/ Buffer \/ TimeUpdate

Spec == Init /\ [][Next]_vars

-----------------------------------------------------------------------------
(* Properties *)

\* The player's mode and binding, which the panel shows, and the follower's,
\* which drive the element, are two copies (app.js connects them by callbacks).
\* The page says "synchronized" only of media that is driven and drives none it
\* does not show, unless the answer to an earlier load came late or a binding
\* is declared for media that is not there.
Agreed ==
    (~player.late /\ (Shown(player) \/ player.items = <<>>)) =>
        /\ follower.on <=> player.sync
        /\ follower.binding = ActiveBinding(player)

\* Right after an emission that measured it the element plays if and only if
\* the lesson does, unless the clip is over or the browser refuses.  Not after
\* one that was stale when it was sent.
PlaysAsTheLesson ==
    (history.fresh /\ ~history.stale /\ follower.on /\ lesson # None) =>
        /\ follower.health.status \in MeasuredStatus =>
              IF transport.playing
              THEN ~element.paused \/ ~element.mayPlay ELSE element.paused
        /\ follower.health.status = "out_of_binding_range" => element.paused

\* No seek leads to where the binding claims nothing (media-sync.js:69-75), and
\* the browser's own arithmetic is that of presentation/timeline.py.
StaysInTheClip ==
    /\ (follower.settle > 0 /\ element.landing # None) =>
          MediaToLesson(follower.binding, element.landing) # None
    /\ follower.binding # None =>
          \A t \in {Raw(Reading(transport))} :
             /\ Expected(follower.binding, t) = LessonToMedia(follower.binding, t)
             /\ Expected(follower.binding, t) # None =>
                   MediaToLesson(follower.binding, Expected(follower.binding, t)) = t

\* No drift that a seek can cure lasts longer than the window of one seek, unless
\* the lesson jumps again within it.
SoonBack == history.off <= Settle + MaxLate

\* What the follower was nudged to ends with the synchronization, and what it
\* says of itself is a record the server's contract accepts.
Honest ==
    /\ ~follower.on => element.nudge = 0
    /\ follower.health # None => HealthContract(follower.health)

\* A clip that is synchronized follows its lesson: the page does not say so of
\* one that is not driven, it plays when the lesson plays, it is back in place
\* within one settle window, and it stays within what its binding claims.
FollowsTheLesson == Agreed /\ PlaysAsTheLesson /\ StaysInTheClip /\ SoonBack /\ Honest

\* D12's thrashing: no hard seek while an earlier one may still be landing,
\* unless the element was measured in place, or let go, since.
NoThrashing == ~history.thrashed

=============================================================================
