------------------------------ MODULE GuidedPage ------------------------------
(***************************************************************************)
(* The demo page around its guided session: web/mvp1/app.js with            *)
(* GuidedSessionController (guided_disposition.js), the Apply handler       *)
(* (guided-action-executor.js), the attempt recorder's active flag          *)
(* (performance_capture.js) and the loaded score revision (score-view.js).  *)
(* Every await is two actions: what the page does up to it and what it does *)
(* when the answer comes, with whatever happened in between.                *)
(*                                                                         *)
(* Guided-session requests are the calls of GuidedStore.  The page's other  *)
(* awaits, the recorder's stop, the evaluation, the loads of artifacts and  *)
(* of the score, are its errands: their servers hold no guided state.       *)
(* The page starts with its first lesson loaded.                            *)
(***************************************************************************)
EXTENDS GuidedStore

CONSTANTS Errand,      \* the page's other awaits at one time
          MaxSwitches  \* bound: lessons picked

VARIABLES page,
          errands,
          kept,      \* the session the page held when it sent the call in a slot
          minted,    \* ids the page has made up; the next is another
          switches,
          \* What happened, for the properties to compare with:
          started,   \* the lesson on screen when a performance was started
          pressed,   \* the learner's answers to the action of a performance
          applied,   \* how often that action was applied (2: or more)
          overlapped \* some guided request was sent while another was pending

pageVars == <<page, errands, kept, minted, switches, started, pressed, applied, overlapped>>
vars == <<storeVars, pageVars>>

Page == [lesson : Lesson,                  \* state.payload and lessonContext
         pin : Lesson \cup {None},         \* lessonContext.canonicalRevisionId
         score : Lesson \cup {None},       \* scoreView.revisionId
         session : Session \cup {None},
         terminal : Session \cup {None},
         capture : Evidence \cup {None},   \* the active attempt
         applying : BOOLEAN,               \* inFlight
         locked : SUBSET (SessionId \X Nat)] \* runtimeSucceededWithoutEvidence

Free == [kind |-> "free"]
Await == [kind : {"stop"}, arg : Evidence]
         \cup [kind : {"evaluate"}, arg : Evidence, lesson : Lesson,
               revision : Lesson \cup {None}]
         \cup [kind : {"artifacts", "score"}, arg : Lesson]
         \cup [kind : {"transition"}, arg : Lesson, slot : Slot]

Init ==
    /\ StoreInit
    /\ \E l \in Lesson :
          page = [lesson |-> l, pin |-> l, score |-> l, session |-> None,
                  terminal |-> None, capture |-> None, applying |-> FALSE,
                  locked |-> {}]
    /\ errands = [x \in Errand |-> Free]
    /\ kept = [w \in Slot |-> None]
    /\ minted = {}
    /\ switches = 0
    /\ started = [e \in Evidence |-> None]
    /\ pressed = [e \in Evidence |-> {}]
    /\ applied = [e \in Evidence |-> 0]
    /\ overlapped = FALSE

-----------------------------------------------------------------------------
\* activeSession: the session, if it is the one of the lesson on screen.
Active ==
    IF page.session = None \/ /\ page.session.lesson = page.lesson
                              /\ page.session.revision = page.pin
    THEN page.session ELSE None

CanRecordDisposition(s) ==
    s # None /\ s.status = "AWAITING_ACTION" /\ Current(s).disposition = "PENDING"

CanApply(s) ==
    s # None /\ Current(s).disposition = "ACCEPTED" /\ Current(s).execution = "PENDING"

AttemptKey(s) == <<s.id, Len(s.attempts)>>

\* A guided request; the page goes on when its answer comes.
Post(w, ask) ==
    /\ Send(w, ask)
    /\ kept' = [kept EXCEPT ![w] = page.session]
    /\ minted' = minted \cup {ask.id}
    /\ overlapped' = (overlapped \/ \E v \in Slot : calls[v] # Idle)

Answer(w, kind) ==
    /\ calls[w] # Idle
    /\ calls[w].ask.kind = kind
    /\ Take(w)
    /\ kept' = [kept EXCEPT ![w] = None]
    /\ UNCHANGED <<minted, overlapped>>

Ok(w) == calls[w].phase = "ok"

NoCall   == UNCHANGED <<storeVars, kept, minted, overlapped>>
Unlogged == UNCHANGED <<started, pressed, applied>>
Begin(x, await) == errands[x] = Free /\ errands' = [errands EXCEPT ![x] = await]
Go(x, await) == errands' = [errands EXCEPT ![x] = await]
Done(x) == Go(x, Free)

-----------------------------------------------------------------------------
\* capture.startAttempt: an attempt already active is left behind.
StartAttempt(e) ==
    /\ started[e] = None
    /\ started' = [started EXCEPT ![e] = page.lesson]
    /\ page' = [page EXCEPT !.capture = e]
    /\ NoCall /\ UNCHANGED <<errands, switches, pressed, applied>>

\* capture.interrupt: the input device is gone.
Interrupt ==
    /\ page.capture # None
    /\ page' = [page EXCEPT !.capture = None]
    /\ NoCall /\ Unlogged /\ UNCHANGED <<errands, switches>>

\* capture.stopAttempt
StopAttempt(x) ==
    /\ page.capture # None
    /\ Begin(x, [kind |-> "stop", arg |-> page.capture])
    /\ page' = [page EXCEPT !.capture = None]
    /\ NoCall /\ Unlogged /\ UNCHANGED switches

\* The evidence is evaluated against the lesson and the score on screen.
StopAnswered(x) ==
    /\ errands[x].kind = "stop"
    /\ Go(x, [kind |-> "evaluate", arg |-> errands[x].arg,
              lesson |-> page.lesson, revision |-> page.score])
    /\ NoCall /\ Unlogged /\ UNCHANGED <<page, switches>>

PinMismatch(s, ev) == ev.lesson # s.lesson \/ ev.revision # s.revision

\* syncFromEvaluation, up to its request.
Sync(w, ev) ==
    LET s == page.session
    IN \/ /\ s = None
          /\ \E id \in SessionId \ minted :
                Post(w, [kind |-> "create", id |-> id, arg |-> ev])
       \/ /\ s # None
          /\ ~PinMismatch(s, ev) /\ s.status = "AWAITING_ATTEMPT"
          /\ Post(w, [kind |-> "append", id |-> s.id, arg |-> ev])
       \/ /\ s # None
          /\ PinMismatch(s, ev) \/ s.status # "AWAITING_ATTEMPT"
          /\ NoCall

\* Without a revision there is no guidance, and nothing to synchronise.
EvaluateAnswered(x, w, action) ==
    LET await == errands[x]
    IN /\ await.kind = "evaluate"
       /\ IF await.revision = None THEN NoCall
          ELSE Sync(w, [evidence |-> await.arg, lesson |-> await.lesson,
                        revision |-> await.revision, action |-> action])
       /\ Done(x)
       /\ Unlogged /\ UNCHANGED <<page, switches>>

\* A failed create resets the controller.
CreateAnswered(w) ==
    /\ Answer(w, "create")
    /\ page' = IF Ok(w) THEN [page EXCEPT !.session = calls[w].copy]
               ELSE [page EXCEPT !.session = None, !.terminal = None]
    /\ Unlogged /\ UNCHANGED <<errands, switches>>

\* A failed append puts back the session it was sent for.
AppendAnswered(w) ==
    /\ Answer(w, "append")
    /\ page' = [page EXCEPT !.session = IF Ok(w) THEN calls[w].copy ELSE kept[w]]
    /\ Unlogged /\ UNCHANGED <<errands, switches>>

-----------------------------------------------------------------------------
\* The lesson picker: loadSession.
SelectLesson(x, l) ==
    /\ switches < MaxSwitches
    /\ switches' = switches + 1
    /\ Begin(x, [kind |-> "artifacts", arg |-> l])
    /\ NoCall /\ Unlogged /\ UNCHANGED page

\* applySessionArtifacts and the first half of loadScoreViews; the page shows
\* lesson l, whose revision is not known before the score has come.
Applied(p, l) == [p EXCEPT !.lesson = l, !.pin = None, !.score = None]

\* transitionForLessonChange, and the artifacts if nothing is to be asked.
ArtifactsArrived(x, w) ==
    LET l == errands[x].arg
        s == page.session
    IN /\ errands[x].kind = "artifacts"
       /\ \/ /\ s # None /\ s.lesson # l /\ s.status \notin Terminal
             /\ Post(w, [kind |-> "transition", id |-> s.id, arg |-> l])
             /\ Go(x, [kind |-> "transition", arg |-> l, slot |-> w])
             /\ UNCHANGED page
          \/ /\ s # None /\ s.lesson # l /\ s.status \in Terminal
             /\ page' = Applied([page EXCEPT !.terminal = s, !.session = None], l)
             /\ Go(x, [kind |-> "score", arg |-> l])
             /\ NoCall
          \/ /\ s # None => s.lesson = l
             /\ page' = Applied(page, l)
             /\ Go(x, [kind |-> "score", arg |-> l])
             /\ NoCall
       /\ Unlogged /\ UNCHANGED switches

\* Wrong on purpose: the session the server has ended stays the page's.
TransitionUnnoticed(x) ==
    /\ errands[x].kind = "transition"
    /\ Answer(errands[x].slot, "transition")
    /\ page' = Applied(page, errands[x].arg)
    /\ Go(x, [kind |-> "score", arg |-> errands[x].arg])
    /\ Unlogged /\ UNCHANGED switches

\* A transition that failed leaves the session; the lesson is loaded anyway.
TransitionAnswered(x) ==
    LET w == errands[x].slot
        l == errands[x].arg
    IN /\ errands[x].kind = "transition"
       /\ Answer(w, "transition")
       /\ page' = IF Ok(w)
                  THEN Applied([page EXCEPT !.terminal = calls[w].copy,
                                            !.session = None], l)
                  ELSE Applied(page, l)
       /\ Go(x, [kind |-> "score", arg |-> l])
       /\ Unlogged /\ UNCHANGED switches

\* scoreView.load, and the pin of what is on screen by then.
ScoreArrived(x) ==
    /\ errands[x].kind = "score"
    /\ page' = [page EXCEPT !.score = errands[x].arg, !.pin = errands[x].arg]
    /\ Done(x)
    /\ NoCall /\ Unlogged /\ UNCHANGED switches

\* An errand fails: no evaluation, no lesson, or a lesson without a new score.
ErrandFails(x) ==
    /\ faults < MaxFaults /\ switches < MaxSwitches
    /\ faults' = faults + 1
    /\ errands[x].kind \in {"stop", "evaluate", "artifacts", "score"}
    /\ page' = IF errands[x].kind = "score" THEN [page EXCEPT !.pin = page.score]
               ELSE page
    /\ Done(x)
    /\ UNCHANGED <<store, calls, kept, minted, overlapped, switches>> /\ Unlogged

-----------------------------------------------------------------------------
\* recordLearnerDisposition: Accept or Decline.
PressDisposition(w, answer) ==
    LET s == Active
    IN /\ CanRecordDisposition(s)
       /\ Post(w, [kind |-> "disposition", id |-> s.id, arg |-> answer])
       /\ pressed' = [pressed EXCEPT ![Current(s).evidence] = @ \cup {answer}]
       /\ UNCHANGED <<page, errands, switches, started, applied>>

DispositionAnswered(w) ==
    /\ Answer(w, "disposition")
    /\ page' = IF Ok(w) THEN [page EXCEPT !.session = calls[w].copy] ELSE page
    /\ Unlogged /\ UNCHANGED <<errands, switches>>

\* executeGuidedAction: what may become of an action.  The rate of a slow_down
\* may be missing or refused.
Outcomes(action) ==
    CASE action \in Unsupported -> {"UNSUPPORTED"}
      [] action = "continue"    -> {"SUCCEEDED"}
      [] OTHER                  -> {"SUCCEEDED", "FAILED"}

\* Apply: the action first, then its evidence.
PressApply(w, outcome) ==
    LET s == Active
        e == Current(s).evidence
    IN /\ CanApply(s)
       /\ ~page.applying
       /\ AttemptKey(s) \notin page.locked
       /\ outcome \in Outcomes(Current(s).action)
       /\ Post(w, [kind |-> "execution", id |-> s.id, arg |-> outcome])
       /\ page' = [page EXCEPT !.applying = TRUE]
       /\ applied' = IF outcome = "SUCCEEDED"
                     THEN [applied EXCEPT ![e] = IF @ = 0 THEN 1 ELSE 2]
                     ELSE applied
       /\ UNCHANGED <<errands, switches, started, pressed>>

\* Wrong on purpose: an action without its evidence may be applied again.
ExecutionUnlocked(w) ==
    /\ Answer(w, "execution")
    /\ page' = [page EXCEPT !.applying = FALSE,
                            !.session = IF Ok(w) THEN calls[w].copy ELSE @]
    /\ Unlogged /\ UNCHANGED <<errands, switches>>

ExecutionAnswered(w) ==
    /\ Answer(w, "execution")
    /\ page' = [page EXCEPT
                   !.applying = FALSE,
                   !.session = IF Ok(w) THEN calls[w].copy ELSE @,
                   !.locked = IF ~Ok(w) /\ calls[w].ask.arg = "SUCCEEDED"
                              THEN @ \cup {<<kept[w].id, Len(kept[w].attempts)>>}
                              ELSE @]
    /\ Unlogged /\ UNCHANGED <<errands, switches>>

ServerStep == Serve /\ UNCHANGED pageVars

\* What the page does by itself, or the learner with it.
PageStep ==
    \/ Interrupt
    \/ \E e \in Evidence : StartAttempt(e)
    \/ \E x \in Errand :
          \/ StopAttempt(x) \/ StopAnswered(x)
          \/ ScoreArrived(x) \/ ErrandFails(x)
          \/ \E l \in Lesson : SelectLesson(x, l)
          \/ \E w \in Slot : \/ ArtifactsArrived(x, w)
                             \/ \E action \in Action : EvaluateAnswered(x, w, action)
    \/ \E w \in Slot :
          \/ \E answer \in {"ACCEPTED", "DECLINED"} : PressDisposition(w, answer)
          \/ \E outcome \in Recorded : PressApply(w, outcome)

\* What it does with an answer to a guided request.
AnswerStep ==
    \/ \E x \in Errand : TransitionAnswered(x)
    \/ \E w \in Slot : \/ CreateAnswered(w) \/ AppendAnswered(w)
                       \/ DispositionAnswered(w) \/ ExecutionAnswered(w)

\* Bounds: requests that overlap are followed to their answers, and nothing else
\* happens any more; no request fails after the last lesson has been picked.
Next ==
    \/ AnswerStep
    \/ ServerStep /\ (overlapped \/ switches = MaxSwitches => UNCHANGED faults)
    \/ PageStep /\ ~overlapped

Spec == Init /\ [][Next]_vars

-----------------------------------------------------------------------------
\* Every variable has its type; a call is waited for by what the page keeps.
TypeOK ==
    /\ store \in [SessionId -> Session \cup {None}]
    /\ calls \in [Slot -> {Idle} \cup Call]
    /\ page \in Page
    /\ errands \in [Errand -> {Free} \cup Await]
    /\ kept \in [Slot -> Session \cup {None}]
    /\ minted \in SUBSET SessionId
    /\ \A x \in Errand : errands[x].kind = "transition" =>
          /\ calls[errands[x].slot] # Idle
          /\ calls[errands[x].slot].ask.kind = "transition"

\* The properties below are about requests that do not overlap: with two
\* pending at once a thread may put back what another one has just replaced,
\* and an answer that comes late may put back a session the page had given up.

\* What is recorded as the learner's answer to an action is an answer the
\* learner has given to that very action (record_action_disposition through
\* recordLearnerDisposition): a page that missed an answer of the server never
\* answers for the learner, and a new attempt starts unanswered.
LearnerDecides ==
    ~overlapped =>
        \A id \in SessionId : store[id] # None =>
            \A i \in 1 .. Len(store[id].attempts) :
                LET a == store[id].attempts[i]
                IN a.disposition \in {"PENDING"} \cup pressed[a.evidence]

\* An action is applied at most once, and only what has been applied is
\* recorded as done (createGuidedApplyHandler): also when the record of it, or
\* the answer to that, is lost and the learner presses Apply again.
EvidenceFollowsRuntime ==
    ~overlapped =>
        /\ \A e \in Evidence : applied[e] < 2
        /\ \A id \in SessionId : store[id] # None =>
              \A i \in 1 .. Len(store[id].attempts) :
                  LET a == store[id].attempts[i]
                  IN a.execution = "SUCCEEDED" => applied[a.evidence] = 1

\* A stored session only grows (append_attempt, "Prior attempts are
\* unchanged"): no attempt, answer or execution that is settled changes, and
\* nothing happens to a session that is closed or transitioned.
HistoryIsKept ==
    [][~overlapped' => \A id \in SessionId :
          (store[id] # None /\ store'[id] # None) =>
              Continues(store[id], store'[id])]_vars

\* When nothing is pending and no request has failed, the page and the server
\* agree: the page's session is the stored one, its terminal session too, and
\* no other session has been left open (transitionForLessonChange,
\* syncFromEvaluation).
PageMatchesStore ==
    (~overlapped /\ faults = 0 /\ \A w \in Slot : calls[w] = Idle) =>
        /\ page.session # None => store[page.session.id] = page.session
        /\ page.terminal # None => store[page.terminal.id] = page.terminal
        /\ \A id \in SessionId :
              (store[id] # None /\ store[id] # page.session) =>
                  store[id].status \in Terminal

\* An attempt is evidence of the lesson its session is pinned to: "Evidence from
\* anywhere else is not this session's next attempt" (guided_disposition.js:
\* 42-44).
EvidenceIsOfItsLesson ==
    \A id \in SessionId : store[id] # None =>
        \A i \in 1 .. Len(store[id].attempts) :
            started[store[id].attempts[i].evidence] = store[id].lesson
=============================================================================
