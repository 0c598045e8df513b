--------------------------- MODULE GuidedLifecycle ---------------------------
(***************************************************************************)
(* The life of one guided practice session, as the service computes it      *)
(* (education/guided_session_service.py): each operation takes a session    *)
(* and gives another, or refuses.  Nothing is stored here.                  *)
(*                                                                         *)
(* A lesson stands for an assignment with its content; the canonical        *)
(* revision is a pin of its own.  An attempt is named by the performance it *)
(* was evaluated from; attempt ids, digests and provenance say no more.     *)
(* Statuses ACTIVE and ABORTED exist, but nothing leads to them.            *)
(***************************************************************************)
EXTENDS Integers, Sequences

CONSTANTS Lesson,    \* assignment_id with content_id; also its revisions
          Evidence,  \* performance_session_id
          SessionId

Action      == {"slow_down", "continue", "view_one_string"}
Unsupported == {"view_one_string"}
Disposition == {"PENDING", "ACCEPTED", "DECLINED"}
Recorded    == {"SUCCEEDED", "FAILED", "UNSUPPORTED"}
Execution   == {"NOT_REQUESTED", "PENDING"} \cup Recorded
Open        == {"AWAITING_ACTION", "AWAITING_ATTEMPT"}
Terminal    == {"CLOSED", "TRANSITIONED"}

Attempt == [evidence : Evidence, action : Action,
            disposition : Disposition, execution : Execution]
Session == [id : SessionId, lesson : Lesson, revision : Lesson,
            status : Open \cup Terminal, attempts : Seq(Attempt)]
\* An evaluation with its guidance: the evidence chain of an attempt.
Evaluation == [evidence : Evidence, lesson : Lesson, revision : Lesson,
               action : Action]

Current(s) == s.attempts[Len(s.attempts)]

\* _replace_current_attempt
Replace(s, attempt, status) ==
    [s EXCEPT !.attempts = [@ EXCEPT ![Len(s.attempts)] = attempt],
              !.status = status]

-----------------------------------------------------------------------------
\* _attempt_from_evidence
NewAttempt(ev) ==
    [evidence |-> ev.evidence, action |-> ev.action,
     disposition |-> "PENDING", execution |-> "NOT_REQUESTED"]

\* create_from_first_evaluated_attempt
Created(id, ev) ==
    [id |-> id, lesson |-> ev.lesson, revision |-> ev.revision,
     status |-> "AWAITING_ACTION", attempts |-> <<NewAttempt(ev)>>]

MayAppend(s, ev) ==
    /\ s.status = "AWAITING_ATTEMPT"
    /\ ev.lesson = s.lesson /\ ev.revision = s.revision
    /\ \A i \in 1 .. Len(s.attempts) : s.attempts[i].evidence # ev.evidence

\* Wrong on purpose: the attempt before is replaced.
AppendedOver(s, ev) == Replace(s, NewAttempt(ev), "AWAITING_ACTION")

\* Wrong on purpose: the new attempt starts from the action of the last one.
AppendedUnreset(s, ev) ==
    [s EXCEPT !.attempts = Append(@, [Current(s) EXCEPT !.evidence = ev.evidence,
                                                        !.action = ev.action]),
              !.status = "AWAITING_ACTION"]

\* append_evaluated_attempt
Appended(s, ev) ==
    [s EXCEPT !.attempts = Append(@, NewAttempt(ev)), !.status = "AWAITING_ACTION"]

MayDispose(s) ==
    s.status = "AWAITING_ACTION" /\ Current(s).disposition = "PENDING"

\* record_action_disposition
Disposed(s, disposition) ==
    IF disposition = "DECLINED"
    THEN Replace(s, [Current(s) EXCEPT !.disposition = disposition],
                 "AWAITING_ATTEMPT")
    ELSE Replace(s, [Current(s) EXCEPT !.disposition = disposition,
                                       !.execution = "PENDING"],
                 "AWAITING_ACTION")

MayExecute(s, execution) ==
    /\ Current(s).disposition = "ACCEPTED"
    /\ s.status = "AWAITING_ACTION"
    /\ Current(s).execution = "PENDING"
    /\ execution = "SUCCEEDED" => Current(s).action \notin Unsupported
    /\ execution = "UNSUPPORTED" => Current(s).action \in Unsupported

\* Wrong on purpose: an executed continue does not close the session.
ExecutedOpen(s, execution) ==
    Replace(s, [Current(s) EXCEPT !.execution = execution], "AWAITING_ATTEMPT")

\* record_action_execution
Executed(s, execution) ==
    Replace(s, [Current(s) EXCEPT !.execution = execution],
            IF execution = "SUCCEEDED" /\ Current(s).action = "continue"
            THEN "CLOSED" ELSE "AWAITING_ATTEMPT")

\* transition_session
MayTransition(s, lesson) == s.status \in Open /\ lesson # s.lesson
Transitioned(s) == [s EXCEPT !.status = "TRANSITIONED"]

-----------------------------------------------------------------------------
Untouched(a) == a.disposition = "PENDING" /\ a.execution = "NOT_REQUESTED"
Accepted(a)  == a.disposition = "ACCEPTED" /\ a.execution = "PENDING"
Resolved(a)  == \/ a.disposition = "DECLINED" /\ a.execution = "NOT_REQUESTED"
                \/ /\ a.disposition = "ACCEPTED" /\ a.execution \in Recorded
                   /\ a.execution = "SUCCEEDED" => a.action \notin Unsupported
                   /\ a.execution = "UNSUPPORTED" => a.action \in Unsupported
Closing(a)   == a.action = "continue" /\ a.execution = "SUCCEEDED"

\* A session anybody may hold: the status says what has become of the current
\* attempt, "CONTINUE + ACCEPTED + SUCCEEDED" and nothing else has closed it,
\* everything before was settled, and no performance is counted twice.
Lawful(s) ==
    /\ Len(s.attempts) > 0
    /\ \A i \in 1 .. Len(s.attempts) - 1 :
          Resolved(s.attempts[i]) /\ ~Closing(s.attempts[i])
    /\ \A i, j \in 1 .. Len(s.attempts) :
          s.attempts[i].evidence = s.attempts[j].evidence => i = j
    /\ s.status = "AWAITING_ACTION" => Untouched(Current(s)) \/ Accepted(Current(s))
    /\ s.status = "AWAITING_ATTEMPT" => Resolved(Current(s)) /\ ~Closing(Current(s))
    /\ s.status = "CLOSED" => Resolved(Current(s)) /\ Closing(Current(s))
    /\ s.status = "TRANSITIONED" =>
          /\ Untouched(Current(s)) \/ Accepted(Current(s)) \/ Resolved(Current(s))
          /\ ~Closing(Current(s))

\* t is s or what later operations have made of it.
Continues(s, t) ==
    /\ s.id = t.id /\ s.lesson = t.lesson /\ s.revision = t.revision
    /\ Len(s.attempts) <= Len(t.attempts)
    /\ \A i \in 1 .. Len(s.attempts) :
          /\ s.attempts[i].evidence = t.attempts[i].evidence
          /\ s.attempts[i].action = t.attempts[i].action
          /\ s.attempts[i].disposition \in {"PENDING", t.attempts[i].disposition}
          /\ Resolved(s.attempts[i]) => s.attempts[i] = t.attempts[i]
    /\ s.status \in Terminal => s = t
=============================================================================
