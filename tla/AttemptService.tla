--------------------------- MODULE AttemptService ---------------------------
(***************************************************************************)
(* The received-lesson attempt service of the local server                 *)
(* (src/src/master_all_strings/mvp/received_lesson_attempt.py), as the     *)
(* threads of ThreadingHTTPServer run it.                                  *)
(*                                                                         *)
(* Every attempt has a lock of its own and a condition `ready' bound to    *)
(* that lock.  A section of code between acquiring and releasing the lock  *)
(* is one action; what a thread does without the lock (building the        *)
(* terminal document) is an action of its own.  A thread is one HTTP       *)
(* request: it is "idle", inside _terminal, or asleep on `ready'.          *)
(***************************************************************************)
EXTENDS Integers, Sequences

CONSTANTS Attempt,       \* the attempt ids that may be minted
          Thread,        \* the server's request threads
          MaxMessages,   \* bound: sequence numbers 0 .. MaxMessages - 1
          MaxTime,       \* bound: browser clock readings 0 .. MaxTime
          TotalPosition, \* total_seconds of the prepared playback
          None           \* Python's None

ASSUME ConstantsAssumption ==
    /\ MaxMessages \in Nat /\ MaxTime \in Nat /\ TotalPosition \in Nat

Time     == 0 .. MaxTime
Position == 0 .. TotalPosition + 1   \* one value lies outside the playback
Message  == [sequence : 0 .. MaxMessages - 1, time : Time,
             position : Position, on : BOOLEAN]
Intent   == {"finish", "cancel"}
Phase    == {"ABSENT", "CAPTURING", "CLOSING",
             "EVALUATED", "INTERRUPTED", "FAILED"}

\* The terminal document.  `by' stands for the fresh ids every evaluation
\* mints: two evaluations of one capture never give the same document.
Document == [status : {"EVALUATED", "INTERRUPTED"},
             events : Seq(Message), by : Thread]

ASSUME NoneAssumption == None \notin Intent /\ None \notin Document

VARIABLES
    phase,        \* StoredAttempt.phase; "ABSENT": not in the repository
    intent,       \* StoredAttempt.intent
    completion,   \* capture.completion_state
    events,       \* capture.events
    nextSequence, \* StoredAttempt.next_sequence
    lastTime,     \* StoredAttempt.last_capture_time_ns
    lastPosition, \* StoredAttempt.last_practice_position; None is -1
    history,      \* how many evaluations attempt.history holds
    result,       \* StoredAttempt.result
    ready,        \* the threads asleep on the attempt's condition
    pc,           \* where each thread is
    call,         \* the attempt and intent of a thread inside _terminal
    draft,        \* the document a winning thread has built, not yet stored
    reply         \* the last answer each thread gave

record == <<phase, intent, completion, events, nextSequence, lastTime,
            lastPosition, history, result>>
vars   == <<record, ready, pc, call, draft, reply>>

NoCall == [attempt |-> None, intent |-> None]

Terminal  == {"EVALUATED", "INTERRUPTED", "FAILED"}
Unlocked  == {"closed", "built", "failed"}     \* a winner, outside the lock
PC        == {"idle", "waiting", "woken"} \cup Unlocked
Refusals  == {"unknown_attempt", "attempt_closed", "sequence_conflict",
              "request_error", "attempt_conflict", "evaluation_failed"}

Begun(a)          == [kind |-> "begun", attempt |-> a]
Ack(a, m, n)      == [kind |-> "ack", attempt |-> a, message |-> m, count |-> n]
Refusal(k, a)     == [kind |-> k, attempt |-> a]
Outcome(a, i, d)  == [kind |-> "document", attempt |-> a, intent |-> i,
                      document |-> d]

-----------------------------------------------------------------------------
Init ==
    /\ phase = [a \in Attempt |-> "ABSENT"]
    /\ intent = [a \in Attempt |-> None]
    /\ completion = [a \in Attempt |-> "IN_PROGRESS"]
    /\ events = [a \in Attempt |-> << >>]
    /\ nextSequence = [a \in Attempt |-> 0]
    /\ lastTime = [a \in Attempt |-> 0]
    /\ lastPosition = [a \in Attempt |-> -1]
    /\ history = [a \in Attempt |-> 0]
    /\ result = [a \in Attempt |-> None]
    /\ ready = [a \in Attempt |-> {}]
    /\ pc = [t \in Thread |-> "idle"]
    /\ call = [t \in Thread |-> NoCall]
    /\ draft = [t \in Thread |-> None]
    /\ reply = [t \in Thread |-> None]

\* StoredAttempt.__post_init__ and InMemory repository insert: the attempt
\* appears with its clock at the begin reading.  The id is fresh.
Insert(a, time) ==
    /\ phase[a] = "ABSENT"
    /\ phase' = [phase EXCEPT ![a] = "CAPTURING"]
    /\ lastTime' = [lastTime EXCEPT ![a] = time]
    /\ UNCHANGED <<intent, completion, events, nextSequence, lastPosition,
                   history, result, ready>>

Answer(t, r) == reply' = [reply EXCEPT ![t] = r]

\* POST lesson-practice-attempts: assemble_begin, then commit_begin.
Begin(t, a, time) ==
    /\ pc[t] = "idle"
    /\ Insert(a, time)
    /\ Answer(t, Begun(a))
    /\ UNCHANGED <<pc, call, draft>>

-----------------------------------------------------------------------------
CheckClock(a, time) == time >= lastTime[a]

CheckPosition(a, position) ==
    /\ position >= lastPosition[a]
    /\ position <= TotalPosition

\* append_message, the checks in the code's order.
AppendRefusal(a, m) ==
    CASE phase[a] = "ABSENT"               -> "unknown_attempt"
      [] phase[a] \notin {"ABSENT", "CAPTURING"} -> "attempt_closed"
      [] phase[a] = "CAPTURING" /\ m.sequence # nextSequence[a]
                                           -> "sequence_conflict"
      [] OTHER                             -> "request_error"

\* Wrong on purpose: a capture that is being evaluated still accepts.
MayAppendWhileClosing(a, m) ==
    /\ phase[a] \in {"CAPTURING", "CLOSING"}
    /\ m.sequence = nextSequence[a]
    /\ CheckClock(a, m.time)
    /\ CheckPosition(a, m.position)

MayAppend(a, m) ==
    /\ phase[a] = "CAPTURING"
    /\ m.sequence = nextSequence[a]
    /\ CheckClock(a, m.time)
    /\ CheckPosition(a, m.position)

\* The accepted message and every counter move in one lock section.
StoreMessage(t, a, m, count) ==
    /\ pc[t] = "idle"
    /\ MayAppend(a, m)
    /\ events' = [events EXCEPT ![a] = Append(@, m)]
    /\ nextSequence' = [nextSequence EXCEPT ![a] = @ + 1]
    /\ lastTime' = [lastTime EXCEPT ![a] = m.time]
    /\ lastPosition' = [lastPosition EXCEPT ![a] = m.position]
    /\ Answer(t, Ack(a, m, count))
    /\ UNCHANGED <<phase, intent, completion, history, result, ready,
                   pc, call, draft>>

\* Wrong on purpose: the count is read before the message is appended.
AppendMessageStaleCount(t, a, m) == StoreMessage(t, a, m, Len(events[a]))

AppendMessage(t, a, m) == StoreMessage(t, a, m, Len(events[a]) + 1)

RefuseMessage(t, a, m) ==
    /\ pc[t] = "idle"
    /\ ~MayAppend(a, m)
    /\ Answer(t, Refusal(AppendRefusal(a, m), a))
    /\ UNCHANGED <<record, ready, pc, call, draft>>

-----------------------------------------------------------------------------

\* Wrong on purpose: the stored document answers either intent.
StoredTerminalAnyIntent(a, i) ==
    IF phase[a] \in {"EVALUATED", "INTERRUPTED"}
    THEN Outcome(a, i, result[a]) ELSE Refusal("attempt_conflict", a)

\* _stored_terminal: what a caller that did not win reads, under the lock.
StoredTerminal(a, i) ==
    CASE intent[a] = i /\ phase[a] \in {"EVALUATED", "INTERRUPTED"}
             -> IF result[a] = None THEN Refusal("evaluation_failed", a)
                                    ELSE Outcome(a, i, result[a])
      [] intent[a] = i /\ phase[a] = "FAILED"
             -> Refusal("evaluation_failed", a)
      [] OTHER -> Refusal("attempt_conflict", a)

\* The winner's assignments, from a phase it may close.
CloseFrom(phases, t, a, time, i) ==
    /\ pc[t] = "idle"
    /\ phase[a] \in phases
    /\ CheckClock(a, time)
    /\ phase' = [phase EXCEPT ![a] = "CLOSING"]
    /\ intent' = [intent EXCEPT ![a] = i]
    /\ completion' = [completion EXCEPT ![a] =
                         IF i = "finish" THEN "COMPLETE" ELSE "INTERRUPTED"]
    /\ pc' = [pc EXCEPT ![t] = "closed"]
    /\ call' = [call EXCEPT ![t] = [attempt |-> a, intent |-> i]]
    /\ Answer(t, None)
    /\ UNCHANGED <<events, nextSequence, lastTime, lastPosition, history,
                   result, ready, draft>>

\* Wrong on purpose: a cancel overtakes a finish that is being evaluated.
CloseOvertakes(t, a, time, i) ==
    CloseFrom({"CAPTURING", "CLOSING"}, t, a, time, i)

\* _terminal, the winner's lock section.
Close(t, a, time, i) == CloseFrom({"CAPTURING"}, t, a, time, i)

\* _terminal with the same intent while the winner is outside the lock.
Join(t, a, i) ==
    /\ pc[t] = "idle"
    /\ phase[a] = "CLOSING" /\ intent[a] = i
    /\ ready' = [ready EXCEPT ![a] = @ \cup {t}]
    /\ pc' = [pc EXCEPT ![t] = "waiting"]
    /\ call' = [call EXCEPT ![t] = [attempt |-> a, intent |-> i]]
    /\ Answer(t, None)
    /\ UNCHANGED <<record, draft>>

TerminalRefusal(a, time, i) ==
    CASE phase[a] = "ABSENT"    -> Refusal("unknown_attempt", a)
      [] phase[a] = "CAPTURING" -> Refusal("request_error", a)
      [] OTHER                  -> StoredTerminal(a, i)

\* _terminal that neither wins nor waits: it answers from what is stored.
AnswerTerminal(t, a, time, i) ==
    /\ pc[t] = "idle"
    /\ ~(phase[a] = "CAPTURING" /\ CheckClock(a, time))
    /\ ~(phase[a] = "CLOSING" /\ intent[a] = i)
    /\ Answer(t, TerminalRefusal(a, time, i))
    /\ UNCHANGED <<record, ready, pc, call, draft>>

\* _evaluate_closed or _interrupted_document, without the lock.  Only an
\* evaluation reaches history.record.
Build(t) ==
    /\ pc[t] = "closed"
    /\ LET a == call[t].attempt
           i == call[t].intent
       IN /\ draft' = [draft EXCEPT ![t] =
                 [status |-> IF i = "finish" THEN "EVALUATED" ELSE "INTERRUPTED",
                  events |-> events[a], by |-> t]]
          /\ history' = IF i = "finish"
                        THEN [history EXCEPT ![a] = @ + 1] ELSE history
    /\ pc' = [pc EXCEPT ![t] = "built"]
    /\ UNCHANGED <<phase, intent, completion, events, nextSequence, lastTime,
                   lastPosition, result, ready, call, reply>>

\* Pairing, alignment, evaluation or encoding raises, before or after
\* history.record.
BuildFails(t) ==
    /\ pc[t] = "closed"
    /\ \/ UNCHANGED history
       \/ /\ call[t].intent = "finish"
          /\ history' = [history EXCEPT ![call[t].attempt] = @ + 1]
    /\ pc' = [pc EXCEPT ![t] = "failed"]
    /\ UNCHANGED <<phase, intent, completion, events, nextSequence, lastTime,
                   lastPosition, result, ready, call, draft, reply>>

\* Wrong on purpose: Condition.notify wakes one waiter.
NotifyOne(a, t) ==
    \E woken \in SUBSET ready[a] :
        /\ ready[a] # {} => \E u \in woken : woken = {u}
        /\ ready' = [ready EXCEPT ![a] = @ \ woken]
        /\ pc' = [u \in Thread |-> IF u = t THEN "idle"
                                   ELSE IF u \in woken THEN "woken" ELSE pc[u]]

\* Condition.notify_all, under the lock.  Thread t also returns to idle.
NotifyAll(a, t) ==
    /\ ready' = [ready EXCEPT ![a] = {}]
    /\ pc' = [u \in Thread |-> IF u = t THEN "idle"
                               ELSE IF u \in ready[a] THEN "woken" ELSE pc[u]]

Return(t, r) ==
    /\ Answer(t, r)
    /\ call' = [call EXCEPT ![t] = NoCall]
    /\ draft' = [draft EXCEPT ![t] = None]

\* The winner stores its document and answers with it.
Publish(t) ==
    /\ pc[t] = "built"
    /\ LET a == call[t].attempt
       IN /\ result' = [result EXCEPT ![a] = draft[t]]
          /\ phase' = [phase EXCEPT ![a] = draft[t].status]
          /\ NotifyAll(a, t)
          /\ Return(t, Outcome(a, call[t].intent, draft[t]))
    /\ UNCHANGED <<intent, completion, events, nextSequence, lastTime,
                   lastPosition, history>>

\* _mark_failed, then AttemptEvaluationError.
MarkFailed(t) ==
    /\ pc[t] = "failed"
    /\ LET a == call[t].attempt
       IN /\ IF phase[a] = "CLOSING"
             THEN /\ phase' = [phase EXCEPT ![a] = "FAILED"]
                  /\ NotifyAll(a, t)
             ELSE /\ pc' = [pc EXCEPT ![t] = "idle"]
                  /\ UNCHANGED <<phase, ready>>
          /\ Return(t, Refusal("evaluation_failed", a))
    /\ UNCHANGED <<intent, completion, events, nextSequence, lastTime,
                   lastPosition, history, result>>

\* A notified waiter leaves `while phase == CLOSING' and reads the outcome.
Wake(t) ==
    /\ pc[t] = "woken"
    /\ phase[call[t].attempt] # "CLOSING"
    /\ pc' = [pc EXCEPT ![t] = "idle"]
    /\ Return(t, StoredTerminal(call[t].attempt, call[t].intent))
    /\ UNCHANGED <<record, ready>>

-----------------------------------------------------------------------------
\* What a thread inside _terminal does next.
Proceed(t) == Build(t) \/ BuildFails(t) \/ Publish(t) \/ MarkFailed(t) \/ Wake(t)

\* The request a free thread picks up.
Request(t, a) ==
    \/ \E time \in Time : Begin(t, a, time)
    \/ \E m \in Message : AppendMessage(t, a, m) \/ RefuseMessage(t, a, m)
    \/ \E time \in Time, i \in Intent :
           Close(t, a, time, i) \/ AnswerTerminal(t, a, time, i)
    \/ \E i \in Intent : Join(t, a, i)

Next == \E t \in Thread : Proceed(t) \/ \E a \in Attempt : Request(t, a)

\* A thread that is inside _terminal runs on: evaluation is a finite
\* computation, and a notified waiter reacquires the lock.  Nothing says that
\* another request ever arrives.
Fairness == \A t \in Thread : WF_vars(Proceed(t))

Spec == Init /\ [][Next]_vars /\ Fairness

-----------------------------------------------------------------------------
(* Type correctness of the attempt records, the threads and their answers. *)
Acks     == [kind : {"ack"}, attempt : Attempt, message : Message, count : Nat]
Outcomes == [kind : {"document"}, attempt : Attempt, intent : Intent,
             document : Document]
Replies  == [kind : {"begun"} \cup Refusals, attempt : Attempt]
               \cup Acks \cup Outcomes

TypeOK ==
    /\ phase \in [Attempt -> Phase]
    /\ intent \in [Attempt -> Intent \cup {None}]
    /\ completion \in [Attempt -> {"IN_PROGRESS", "COMPLETE", "INTERRUPTED"}]
    /\ events \in [Attempt -> Seq(Message)]
    /\ nextSequence \in [Attempt -> Nat]
    /\ lastTime \in [Attempt -> Time]
    /\ lastPosition \in [Attempt -> Position \cup {-1}]
    /\ history \in [Attempt -> Nat]
    /\ result \in [Attempt -> Document \cup {None}]
    /\ ready \in [Attempt -> SUBSET Thread]
    /\ pc \in [Thread -> PC]
    /\ call \in [Thread -> [attempt : Attempt, intent : Intent] \cup {NoCall}]
    /\ draft \in [Thread -> Document \cup {None}]
    /\ reply \in [Thread -> Replies \cup {None}]

Winners(a) == {t \in Thread : pc[t] \in Unlocked /\ call[t].attempt = a}

(* Every 200 answer to a finish or a cancel is the document that is stored *)
(* now, for the intent that won, about exactly the captured messages: a    *)
(* repeat, a waiter and the winner can never have been told two things.    *)
OneOutcome ==
    \A t \in Thread :
        (reply[t] # None /\ reply[t].kind = "document") =>
            LET a == reply[t].attempt
            IN /\ result[a] = reply[t].document
               /\ intent[a] = reply[t].intent
               /\ result[a].events = events[a]
               /\ result[a].status = phase[a]

(* A message answered with 200 is in the capture for good, at the place    *)
(* its accepted_event_count says, whatever other threads appended or       *)
(* closed in the meantime (no lost update between concurrent appends).     *)
AckedMessageKept ==
    \A t \in Thread :
        (reply[t] # None /\ reply[t].kind = "ack") =>
            LET r == reply[t]
            IN /\ r.count \in 1 .. Len(events[r.attempt])
               /\ events[r.attempt][r.count] = r.message

(* The capture is gapless and its two clocks never run backwards.          *)
CaptureOrdered ==
    \A a \in Attempt :
        /\ nextSequence[a] = Len(events[a])
        /\ \A n \in 1 .. Len(events[a]) :
               /\ events[a][n].sequence = n - 1
               /\ events[a][n].time <= lastTime[a]
               /\ events[a][n].position <= TotalPosition
        /\ \A n \in 1 .. Len(events[a]) - 1 :
               /\ events[a][n].time <= events[a][n + 1].time
               /\ events[a][n].position <= events[a][n + 1].position

(* Concurrent and repeated finishes evaluate once, also when the evaluation *)
(* failed after history.record; a cancelled attempt is never evaluated.    *)
EvaluatedOnce ==
    \A a \in Attempt :
        /\ history[a] <= 1
        /\ intent[a] # "finish" => history[a] = 0
        /\ phase[a] = "EVALUATED" => history[a] = 1

(* An attempt is CLOSING exactly while one thread holds its evaluation: no *)
(* attempt is abandoned in CLOSING, and no two threads build a document.   *)
OneWinner ==
    \A a \in Attempt :
        /\ phase[a] = "CLOSING" <=> Winners(a) # {}
        /\ \A t, u \in Winners(a) : t = u

(* Once its capture is closed nothing about an attempt's evidence moves,   *)
(* and once it has a terminal phase nothing moves at all.                  *)
FrozenWhenClosed ==
    [][\A a \in Attempt :
          /\ completion[a] # "IN_PROGRESS" =>
                 UNCHANGED <<completion[a], intent[a], events[a]>>
          /\ phase[a] \in Terminal =>
                 UNCHANGED <<phase[a], result[a], history[a]>>]_vars

(* Every finish or cancel is answered: no waiter sleeps for ever on an     *)
(* attempt whose winner has stored a result or failed.                     *)
EveryTerminalReturns == \A t \in Thread : pc[t] # "idle" ~> pc[t] = "idle"

\* The attempt as its callers see it.
SealedBy(a) == IF intent[a] # None THEN intent[a]
               ELSE IF phase[a] = "ABSENT" THEN "absent" ELSE "open"
Verdict(s, e) == [status |-> s, events |-> e]
VerdictOn(a) == IF phase[a] = "FAILED" THEN Verdict("FAILED", events[a])
                ELSE IF result[a] = None THEN None
                     ELSE Verdict(result[a].status, result[a].events)

Record == INSTANCE AttemptRecord
              WITH log <- events,
                   sealed <- [a \in Attempt |-> SealedBy(a)],
                   verdict <- [a \in Attempt |-> VerdictOn(a)]

(* The service implements the attempt record, liveness included.           *)
ImplementsRecord == Record!RecordSpec
=============================================================================
