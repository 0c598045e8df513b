--------------------- MODULE ReceivedAttemptController ---------------------
(***************************************************************************)
(* The practice page's attempt controller                                  *)
(* (src/web/mvp1/received_attempt_controller.js), the parts of             *)
(* lesson_practice.js that drive it, and the server and network of         *)
(* AttemptWire.                                                            *)
(*                                                                         *)
(* JavaScript runs one callback at a time, so a handler up to its first    *)
(* await, and the rest of it once the answer is there, is one action.      *)
(* Handlers call each other, and playback that is asked for its position   *)
(* may end and call back: they are operators from page to page, which      *)
(* collect the requests they send.  Inputs and devices are left out: one   *)
(* input is selected throughout.                                           *)
(***************************************************************************)
EXTENDS AttemptWire

CONSTANTS MaxMessages,     \* bound: messages played in an attempt
          QueueLimit       \* QUEUE_LIMIT

ASSUME PageConstants ==
    /\ IsFiniteSet(Key) /\ Key = 1 .. Cardinality(Key)
    /\ MaxMessages \in Nat /\ QueueLimit \in Nat \ {0}

AttemptState == {"IDLE", "STARTING", "CAPTURING", "FINISHING", "CANCELLING",
                 "EVALUATED", "INTERRUPTED", "UNCONFIRMED", "REJECTED"}
Active == {"STARTING", "CAPTURING", "FINISHING", "CANCELLING"}

VARIABLE page    \* the controller's variables, and what the page knows

vars == <<page, wvars>>

\* beginDoc is the key of the attempt begun; terminal says whether that promise
\* is set.  Of generation only the tokens equal to it matter: they are the live
\* continuations, and pumping says whether the pump's token is one.
NewPage ==
    [state |-> "IDLE", listening |-> FALSE, beginDoc |-> None,
     queue |-> << >>, pumping |-> FALSE, nextSequence |-> 0, acked |-> 0,
     terminal |-> FALSE, unconfirmedKind |-> None, pendingBegin |-> None,
     resolving |-> FALSE,
     feedback |-> None,   \* the document on show, and its key
     keys |-> 0,          \* start keys made up so far
     lesson |-> FALSE, hidden |-> FALSE,
     nested |-> FALSE,    \* history: the finish went out in mid-handler,
     failed |-> FALSE,    \* an append was not acknowledged
     sends |-> {},        \* the handler that is running: its requests,
     overtook |-> FALSE]  \* and whether it has advanced the generation

Init ==
    /\ WireInit
    /\ page = NewPage

\* A later generation: the continuation of request r finds itself outdated.
\* Only those of a start and of a recovery then still do something.
Outdated(r) ==
    [r EXCEPT !.live = FALSE,
              !.quiet = @ \/ r.kind \in {"append", "finish", "cancel"}]

\* The handler is over: its requests go out, beside what it left of the wire.
Done(p, rest) ==
    /\ page' = [p EXCEPT !.sends = {}, !.overtook = FALSE]
    /\ wire' = p.sends \cup
               IF ~p.overtook THEN rest
               ELSE {Outdated(r) : r \in {q \in rest : q.at # "back" \/
                                  q.kind \in {"begin", "resolve", "mount"}}}

\* generation += 1
StartOver(p) == [p EXCEPT !.overtook = TRUE, !.pumping = FALSE]

Alive(r) == r.live /\ ~page.hidden

-----------------------------------------------------------------------------
Ask(p, kind, k, seq) ==
    [p EXCEPT !.sends = @ \cup {Request(kind, k, seq, FALSE)}]
AskQuietly(p, kind, k) ==
    [p EXCEPT !.sends = @ \cup {Request(kind, k, 0, TRUE)}]

\* A document counts when it is of this attempt and of the kind asked for.
SameAttempt(p, r) == r.key = p.beginDoc
AcceptAcknowledgement(p, r) ==
    SameAttempt(p, r) /\ r.answer = Answer("ACK", p.acked + 1)
AcceptEvaluated(p, r) == SameAttempt(p, r) /\ r.answer.status = "EVALUATED"
AcceptInterrupted(p, r) == SameAttempt(p, r) /\ r.answer.status = "INTERRUPTED"
AcceptBeginGateway(p, r) ==
    /\ r.key = p.pendingBegin
    /\ r.answer.status \in {"STARTED", "INTERRUPTED", "NO_ATTEMPT", "PENDING"}
DefinitiveBeginRefusal(r) == r.answer.status = "refused"
IsRejection(r) == r.answer.status = "conflict"

StopIntake(p) == [p EXCEPT !.listening = FALSE]

Show(p, status, k, count) ==
    [p EXCEPT !.feedback = [status |-> status, key |-> k, count |-> count]]

Settle(p, next, kind) ==
    [p EXCEPT !.unconfirmedKind = kind, !.feedback = None, !.state = next]

SubmitFinish(p) == [Ask(p, "finish", p.beginDoc, 0) EXCEPT !.terminal = TRUE]

\* Wrong on purpose: the finish does not wait for the queue.
RunPumpUndrained(p) ==
    IF p.state = "FINISHING" /\ ~p.terminal
    THEN SubmitFinish([p EXCEPT !.pumping = FALSE])
    ELSE IF p.queue # << >> /\ p.state \in {"CAPTURING", "FINISHING"}
    THEN [Ask(p, "append", p.beginDoc, Head(p.queue)) EXCEPT !.pumping = TRUE]
    ELSE [p EXCEPT !.pumping = FALSE]

\* runPump up to its next await: send the head of the queue, or submit the
\* finish that waits for an empty one.
RunPump(p) ==
    IF p.queue # << >> /\ p.state \in {"CAPTURING", "FINISHING"}
    THEN [Ask(p, "append", p.beginDoc, Head(p.queue)) EXCEPT !.pumping = TRUE]
    ELSE LET idle == [p EXCEPT !.pumping = FALSE]
         IN IF p.state = "FINISHING" /\ p.queue = << >> /\ ~p.terminal
            THEN SubmitFinish(idle) ELSE idle

\* Wrong on purpose: a second pump of the attempt is let in.
PumpAgain(p) == RunPump(p)

Pump(p) == IF p.pumping THEN p ELSE RunPump(p)

\* Wrong on purpose: finishing relies on a pump that may not run.
FinishUnpumped(p) ==
    IF p.state # "CAPTURING" \/ p.terminal THEN p
    ELSE [StopIntake(p) EXCEPT !.state = "FINISHING"]

\* Pausing may find that the lesson has ended; the nested finish then has
\* done what is left to do.
Finish(p) ==
    IF p.state # "CAPTURING" \/ p.terminal THEN p
    ELSE Pump([StopIntake(p) EXCEPT !.state = "FINISHING"])

\* What asking playback for its position, or pausing it, does first: when it
\* has ended it reports so, and noteNaturalEnd finishes the attempt.
Playback(p, ended) ==
    IF ended
    THEN LET q == Finish(p)
         IN [q EXCEPT !.nested = q.terminal]
    ELSE p

PerformCancel(p, ended) ==
    IF p.terminal THEN p
    ELSE LET q == Playback(StopIntake(p), ended)
         IN [Ask(q, "cancel", q.beginDoc, 0) EXCEPT
                 !.queue = << >>, !.state = "CANCELLING", !.terminal = TRUE]

Cancel(p, ended) ==
    IF p.terminal \/ p.state \notin {"STARTING", "CAPTURING", "FINISHING"} THEN p
    ELSE IF p.beginDoc = None
    THEN [StartOver(StopIntake(p)) EXCEPT !.state = "IDLE"]
    ELSE PerformCancel(p, ended)

KeepaliveResolve(p) ==
    IF p.pendingBegin = None THEN p
    ELSE [AskQuietly(p, "resolve", p.pendingBegin) EXCEPT !.pendingBegin = None]

Abandon(p) ==
    LET told == IF p.pendingBegin # None /\ p.beginDoc = None
                THEN KeepaliveResolve(p)
                ELSE IF p.beginDoc # None /\ p.state \in Active
                THEN AskQuietly(p, "cancel", p.beginDoc)
                ELSE p
    IN [StartOver(StopIntake(told)) EXCEPT
            !.queue = << >>, !.beginDoc = None, !.terminal = FALSE,
            !.unconfirmedKind = None, !.state = "IDLE"]

-----------------------------------------------------------------------------
\* What the player and the page do.

Start ==
    LET k == page.keys + 1
        p == [StartOver(StopIntake(page)) EXCEPT
                 !.beginDoc = None, !.queue = << >>,
                 !.nextSequence = 0, !.acked = 0, !.terminal = FALSE,
                 !.unconfirmedKind = None, !.feedback = None,
                 !.state = "STARTING", !.keys = k, !.nested = FALSE, !.failed = FALSE,
                 !.pendingBegin = k]
    IN /\ page.state \notin Active
       /\ page.unconfirmedKind \notin {"finish", "begin"}
       /\ page.pendingBegin = None
       /\ page.lesson /\ ~page.hidden
       /\ k \in Key
       /\ Done(Ask(p, "begin", k, 0), wire)
       /\ UNCHANGED <<srv, verdict, lost, faults>>

\* A supported MIDI message; ended: the position read finds playback over.
OnMidi(ended) ==
    LET p == Playback(page, ended)
        queued == [p EXCEPT !.nextSequence = @ + 1,
                            !.queue = Append(@, p.nextSequence)]
    IN /\ page.listening /\ ~page.hidden /\ page.state = "CAPTURING"
       /\ page.nextSequence < MaxMessages \/ Len(page.queue) >= QueueLimit
       /\ Done(IF Len(p.queue) >= QueueLimit
               THEN Cancel(p, FALSE) ELSE Pump(queued), wire)
       /\ UNCHANGED <<srv, verdict, lost, faults>>

\* The Finish button, or playback that ends between two frames.
PressFinish ==
    /\ page.state = "CAPTURING" /\ ~page.terminal /\ ~page.hidden
    /\ Done(Finish(page), wire)
    /\ UNCHANGED <<srv, verdict, lost, faults>>

\* Cancel, or an input that disconnects.
PressCancel(ended) ==
    /\ page.state \in {"STARTING", "CAPTURING", "FINISHING"}
    /\ ~page.terminal /\ ~page.hidden
    /\ ended => page.state = "CAPTURING"
    /\ Done(Cancel(page, ended), wire)
    /\ UNCHANGED <<srv, verdict, lost, faults>>

RetryFinish ==
    /\ page.state = "UNCONFIRMED" /\ page.unconfirmedKind = "finish"
    /\ page.beginDoc # None /\ ~page.hidden
    /\ Done(SubmitFinish([page EXCEPT !.state = "FINISHING"]), wire)
    /\ UNCHANGED <<srv, verdict, lost, faults>>

ResolveBegin ==
    /\ page.pendingBegin # None /\ ~page.resolving /\ ~page.hidden
    /\ page.unconfirmedKind = "begin"
    /\ Done(Ask([page EXCEPT !.resolving = TRUE],
                "resolve", page.pendingBegin, 0), wire)
    /\ UNCHANGED <<srv, verdict, lost, faults>>

\* loadLesson up to its first await: on pageshow, or the Refresh button.
LoadLesson ==
    /\ page.hidden \/ page.state \notin Active
    /\ Done([Abandon(page) EXCEPT !.hidden = FALSE, !.lesson = FALSE,
                                  !.feedback = None], wire)
    /\ UNCHANGED <<srv, verdict, lost, faults>>

\* The rest of loadLesson: the delivery, its choice and preparation are there.
LessonLoaded ==
    /\ ~page.lesson /\ ~page.hidden
    /\ page' = [page EXCEPT !.lesson = TRUE]
    /\ UNCHANGED wvars

PageHide ==
    /\ ~page.hidden
    /\ Done([Abandon(page) EXCEPT !.hidden = TRUE], wire)
    /\ UNCHANGED <<srv, verdict, lost, faults>>

-----------------------------------------------------------------------------
\* The answers.  Each handler is the rest of the continuation of request r.

\* applyBeginResponse up to replaceRuntime.
BeginAnswered(r) ==
    LET s == r.answer.status
        accepted == AcceptBeginGateway(page, r)
        p == [page EXCEPT !.pendingBegin = None]
        replacing == [Request("mount", r.key, 0, FALSE) EXCEPT !.at = "back"]
    IN Done(IF ~Alive(r) THEN KeepaliveResolve(page)
            ELSE IF DefinitiveBeginRefusal(r) THEN Settle(p, "IDLE", None)
            ELSE IF accepted /\ s = "INTERRUPTED"
            THEN Show(Settle(p, "INTERRUPTED", None), s, r.key, r.answer.count)
            ELSE IF accepted /\ s = "STARTED"
            THEN [p EXCEPT !.sends = {replacing}]
            ELSE Settle(page, "UNCONFIRMED", "begin"), wire \ {r})

\* Wrong on purpose: a late Begin keeps its attempt.
MountedTooLate(r, mounted, connected) ==
    LET p == [page EXCEPT !.beginDoc = r.key]
        open == [p EXCEPT !.state = "CAPTURING", !.listening = TRUE]
    IN Done(IF ~Alive(r) THEN page
            ELSE IF ~mounted THEN PerformCancel(p, FALSE)
            ELSE IF ~connected THEN Cancel(open, FALSE)
            ELSE open, wire \ {r})

\* replaceRuntime is back: capture, or cancel an attempt nobody can play.
Mounted(r, mounted, connected) ==
    LET p == [page EXCEPT !.beginDoc = r.key]
        open == [p EXCEPT !.state = "CAPTURING", !.listening = TRUE]
    IN Done(IF ~Alive(r) THEN AskQuietly(page, "cancel", r.key)
            ELSE IF ~mounted THEN PerformCancel(p, FALSE)
            ELSE IF ~connected THEN Cancel(open, FALSE)
            ELSE open, wire \ {r})

\* runPump after its await; ended: cancelling finds playback over.
AppendAnswered(r, ended) ==
    LET free == [page EXCEPT !.pumping = @ /\ ~r.live]
        ours == /\ Alive(r) /\ SameAttempt(page, r)
                /\ page.state \in {"CAPTURING", "FINISHING"}
        accepted == AcceptAcknowledgement(page, r)
        failed == [free EXCEPT !.queue = << >>, !.failed = TRUE]
        shorter == [page EXCEPT !.queue = Tail(@), !.acked = r.answer.count]
    IN /\ ended => ours /\ ~accepted /\ page.state = "CAPTURING"
       /\ Done(IF ~ours THEN free
               ELSE IF accepted THEN RunPump(shorter)
               ELSE PerformCancel(failed, ended), wire \ {r})

\* Wrong on purpose: any answer that is no refusal counts as an evaluation.
FinishAnsweredTrusting(r) ==
    Done(IF ~Alive(r) THEN page
         ELSE IF IsRejection(r) THEN Settle(page, "REJECTED", None)
         ELSE Show([page EXCEPT !.unconfirmedKind = None, !.state = "EVALUATED"],
                   "EVALUATED", r.key, r.answer.count), wire \ {r})

\* submitFinish after its await.
FinishAnswered(r) ==
    Done(IF ~Alive(r) THEN page
         ELSE IF IsRejection(r) THEN Settle(page, "REJECTED", None)
         ELSE IF AcceptEvaluated(page, r)
         THEN Show([page EXCEPT !.unconfirmedKind = None, !.state = "EVALUATED"],
                   "EVALUATED", r.key, r.answer.count)
         ELSE Settle(page, "UNCONFIRMED", "finish"), wire \ {r})

\* submitCancel after its await.
CancelAnswered(r) ==
    Done(IF ~Alive(r) THEN page
         ELSE IF IsRejection(r) THEN Settle(page, "REJECTED", None)
         ELSE IF AcceptInterrupted(page, r)
         THEN Show([page EXCEPT !.unconfirmedKind = None, !.state = "INTERRUPTED"],
                   "INTERRUPTED", r.key, r.answer.count)
         ELSE Settle(page, "UNCONFIRMED", "cancel"), wire \ {r})

\* resolveBegin after its await; request.key is the pending one's.
ResolveAnswered(r) ==
    LET s == r.answer.status
        p == [page EXCEPT !.resolving = FALSE]
        cleared == [p EXCEPT !.pendingBegin = None]
    IN Done(IF ~Alive(r) \/ page.pendingBegin # r.key THEN p
            ELSE IF AcceptBeginGateway(page, r) /\ s = "NO_ATTEMPT"
            THEN Settle(cleared, "IDLE", None)
            ELSE IF AcceptBeginGateway(page, r) /\ s = "INTERRUPTED"
            THEN Show(Settle(cleared, "INTERRUPTED", None), s, r.key,
                      r.answer.count)
            ELSE Settle(p, "UNCONFIRMED", "begin"), wire \ {r})

Answered(r) ==
    /\ r.at = "back"
    /\ \/ r.kind = "begin" /\ BeginAnswered(r)
       \/ r.kind = "mount" /\ \E mounted, connected \in BOOLEAN :
                                 Mounted(r, mounted, connected)
       \/ r.kind = "append" /\ \E ended \in BOOLEAN : AppendAnswered(r, ended)
       \/ r.kind = "finish" /\ FinishAnswered(r)
       \/ r.kind = "cancel" /\ CancelAnswered(r)
       \/ r.kind = "resolve" /\ ResolveAnswered(r)
    /\ UNCHANGED <<srv, verdict, lost, faults>>

-----------------------------------------------------------------------------
PageSteps ==
    \/ Start \/ PressFinish \/ RetryFinish \/ ResolveBegin
    \/ LoadLesson \/ LessonLoaded \/ PageHide
    \/ \E ended \in BOOLEAN : OnMidi(ended) \/ PressCancel(ended)

\* What happens of itself once a request is sent.
Progress ==
    \/ \E r \in wire : Travel(r) /\ UNCHANGED page
    \/ \E r \in wire : Answered(r)

Failure ==
    /\ \/ \E r \in wire, delayed \in BOOLEAN : Lose(r, delayed)
       \/ Restart
    /\ UNCHANGED page

Next == PageSteps \/ Progress \/ Failure

\* A fetch and a mount settle some day, well or badly; nobody has to press
\* anything, and nothing has to fail.
Spec == Init /\ [][Next]_vars /\ WF_vars(Progress)

-----------------------------------------------------------------------------
(* Type correctness of the page, the network and the server.               *)
PageTypeOK ==
    /\ page.state \in AttemptState
    /\ {page.pumping, page.overtook, page.listening, page.terminal,
        page.resolving, page.lesson, page.hidden,
        page.nested, page.failed} \subseteq BOOLEAN
    /\ {page.beginDoc, page.pendingBegin} \subseteq Key \cup {None}
    /\ page.queue \in Seq(Nat) /\ Len(page.queue) <= QueueLimit
    /\ page.acked + Len(page.queue) <= page.nextSequence
    /\ page.unconfirmedKind \in {"begin", "finish", "cancel", None}
    /\ page.sends = {}
    /\ WireTypeOK

(* An evaluation on show covers exactly the messages the attempt has       *)
(* captured, all of them acknowledged; only a finish that went out in the  *)
(* middle of another handler can evaluate less or follow an append that    *)
(* failed, and never less than was acknowledged.                           *)
EvaluatedIsComplete ==
    page.state = "EVALUATED" =>
        /\ page.feedback.count >= page.acked
        /\ page.failed => page.nested
        /\ ~page.nested => page.feedback.count = page.nextSequence

(* What DO016_TRANCHE_PLAN.md says of an append that failed: the attempt   *)
(* is cancelled instead of evaluated.  performCancel pauses the playback   *)
(* first, and a pause that finds the lesson at its end finishes the        *)
(* attempt in the middle of the cancel.                                    *)
FailedAppendCancels == page.state = "EVALUATED" => ~page.failed

(* The page says evaluated or interrupted only of the attempt it is about  *)
(* and only what the server has stored for that attempt.                   *)
OutcomeShownIsTrue ==
    page.state \in {"EVALUATED", "INTERRUPTED"} =>
        /\ page.feedback.status = page.state
        /\ page.beginDoc # None => page.feedback.key = page.beginDoc
        /\ verdict[page.feedback.key] =
               Answer(page.feedback.status, page.feedback.count)

(* An attempt that is open on the server is in somebody's hands: on this   *)
(* page, in a start it has not answered, or in a cancel or recovery on its *)
(* way.  Only a recovery, finish or cancel that got lost can leave one.    *)
NothingLeftOpen ==
    \A k \in Key :
        (srv[k].phase = "capturing" /\ k \notin lost) =>
            \/ page.beginDoc = k /\ page.state \in Active
            \/ page.pendingBegin = k
            \/ \E r \in wire :
                   /\ r.key = k
                   /\ \/ r.kind = "mount"
                      \/ r.kind \in {"resolve", "finish", "cancel"} /\ r.at = "way"

(* Messages reach an open attempt in the order played: an append on its    *)
(* way carries the next sequence number the server expects, and what still *)
(* waits for one fits the queue.                                           *)
AppendsInOrder ==
    /\ PageTypeOK
    /\ \A r \in wire :
          (/\ r.kind = "append" /\ r.at = "way"
           /\ srv[r.key].phase = "capturing") => r.seq = srv[r.key].count

(* Starting, finishing and cancelling come to an end, however the network  *)
(* and the server behave, once every request is answered or given up.      *)
BusySettles ==
    page.state \in {"STARTING", "FINISHING", "CANCELLING"} ~>
        page.state \notin {"STARTING", "FINISHING", "CANCELLING"}

-----------------------------------------------------------------------------

=============================================================================
