--------------------------- MODULE GuidedPageProofs ---------------------------
(***************************************************************************)
(* The page and the guided-session API together, for any lessons,           *)
(* performances, sessions, slots and errands: their types, the lawful       *)
(* sessions, and that a stored session only grows while the page's requests *)
(* do not overlap.                                                          *)
(*                                                                         *)
(* The invariant has a part about the calls, with the one fact on which the *)
(* history rests (what the thread of the only call has read is still what   *)
(* is stored), a part about the page, and the links between the two.  Then   *)
(* what the page knows of the stored sessions.                              *)
(***************************************************************************)
EXTENDS GuidedPage, TLAPS

-----------------------------------------------------------------------------
(***************************************************************************)
(* The service by itself: whatever its clients ask for, and however their   *)
(* requests overlap, every session it stores or answers with is a lawful    *)
(* one.  The lemmas are about its operations, one by one: each is given a   *)
(* lawful session and gives a lawful one that continues it.  The invariant  *)
(* then only has to follow the copies from the store to the threads and     *)
(* back.                                                                    *)
(***************************************************************************)

\* The first evaluation makes a lawful session.
LEMMA CreatedLawful ==
    ASSUME NEW id \in SessionId, NEW ev \in Evaluation
    PROVE  /\ Created(id, ev) \in Session
           /\ Created(id, ev).id = id
           /\ Lawful(Created(id, ev))
<1> DEFINE s == Created(id, ev)
<1>1. NewAttempt(ev) \in Attempt
  BY DEF NewAttempt, Attempt, Evaluation, Disposition, Execution
<1>2. s.attempts \in Seq(Attempt) /\ Len(s.attempts) = 1 /\ s.attempts[1] = NewAttempt(ev)
  BY <1>1 DEF Created
<1>3. s \in Session /\ s.id = id /\ s.status = "AWAITING_ACTION"
  BY <1>2 DEF Created, Session, Open, Evaluation
<1>4. Untouched(Current(s))
  BY <1>2 DEF Current, Untouched, NewAttempt
<1> QED
  BY <1>2, <1>3, <1>4 DEF Lawful

\* Replacing the current attempt leaves the others and the pins alone.
LEMMA ReplaceFacts ==
    ASSUME NEW s \in Session, Len(s.attempts) > 0, NEW a \in Attempt,
           NEW status \in Open \cup Terminal
    PROVE  LET t == Replace(s, a, status)
           IN /\ t \in Session
              /\ t.id = s.id /\ t.lesson = s.lesson /\ t.revision = s.revision
              /\ t.status = status
              /\ Len(t.attempts) = Len(s.attempts)
              /\ Current(t) = a
              /\ \A i \in 1 .. Len(s.attempts) - 1 : t.attempts[i] = s.attempts[i]
<1> DEFINE t == Replace(s, a, status)
           as == [s.attempts EXCEPT ![Len(s.attempts)] = a]
<1>1. s.attempts \in Seq(Attempt) /\ Len(s.attempts) \in Nat
  BY DEF Session
<1>2. as \in Seq(Attempt) /\ Len(as) = Len(s.attempts)
  BY <1>1
<1>3. as[Len(s.attempts)] = a
  BY <1>1
<1>4. \A i \in 1 .. Len(s.attempts) - 1 : as[i] = s.attempts[i]
  BY <1>1
<1>5. t = [s EXCEPT !.attempts = as, !.status = status]
  BY DEF Replace
<1> HIDE DEF as, t
<1>6. t \in Session
  BY <1>2, <1>5 DEF Session
<1>7. t.attempts = as /\ t.status = status
  BY <1>5 DEF Session
<1>8. t.id = s.id /\ t.lesson = s.lesson /\ t.revision = s.revision
  BY <1>5 DEF Session
<1> QED
  BY <1>2, <1>3, <1>4, <1>6, <1>7, <1>8 DEF Current, t

\* What a status may say of the current attempt.
Says(status, a) ==
    /\ status = "AWAITING_ACTION" => Untouched(a) \/ Accepted(a)
    /\ status = "AWAITING_ATTEMPT" => Resolved(a) /\ ~Closing(a)
    /\ status = "CLOSED" => Resolved(a) /\ Closing(a)
    /\ status = "TRANSITIONED" =>
          (Untouched(a) \/ Accepted(a) \/ Resolved(a)) /\ ~Closing(a)

\* A lawful session whose current attempt is replaced by itself, one step on,
\* is lawful.
LEMMA ReplacedLawful ==
    ASSUME NEW s \in Session, Lawful(s), NEW a \in Attempt,
           NEW status \in Open \cup Terminal,
           a.evidence = Current(s).evidence,
           Says(status, a)
    PROVE  Lawful(Replace(s, a, status))
<1> DEFINE t == Replace(s, a, status)
           n == Len(s.attempts)
<1>0. s.attempts \in Seq(Attempt) /\ n \in Nat /\ n > 0
  BY DEF Session, Lawful
<1>1. /\ t.status = status
      /\ Len(t.attempts) = n
      /\ Current(t) = a /\ t.attempts[n] = a
      /\ \A i \in 1 .. n - 1 : t.attempts[i] = s.attempts[i]
  BY <1>0, ReplaceFacts DEF Current
<1>2. \A i \in 1 .. n : t.attempts[i].evidence = s.attempts[i].evidence
  BY <1>0, <1>1 DEF Current
<1> HIDE DEF t
<1>3. \A i \in 1 .. n - 1 : Resolved(t.attempts[i]) /\ ~Closing(t.attempts[i])
  BY <1>1 DEF Lawful
<1>4. \A i, j \in 1 .. n : t.attempts[i].evidence = t.attempts[j].evidence => i = j
  BY <1>2 DEF Lawful
<1> QED
  BY <1>0, <1>1, <1>3, <1>4 DEF Lawful, Says, t

\* ... and continues the one before, if nothing of the attempt was settled.
LEMMA ReplacedContinues ==
    ASSUME NEW s \in Session, Lawful(s), NEW a \in Attempt,
           NEW status \in Open \cup Terminal,
           a.evidence = Current(s).evidence, a.action = Current(s).action,
           Current(s).disposition \in {"PENDING", a.disposition},
           ~Resolved(Current(s)), s.status \notin Terminal
    PROVE  Continues(s, Replace(s, a, status))
<1> DEFINE t == Replace(s, a, status)
           n == Len(s.attempts)
<1>0. s.attempts \in Seq(Attempt) /\ n \in Nat /\ n > 0
  BY DEF Session, Lawful
<1>1. /\ t.id = s.id /\ t.lesson = s.lesson /\ t.revision = s.revision
      /\ Len(t.attempts) = n
      /\ t.attempts[n] = a
      /\ \A i \in 1 .. n - 1 : t.attempts[i] = s.attempts[i]
  BY <1>0, ReplaceFacts DEF Current
<1> HIDE DEF t
<1>2. ASSUME NEW i \in 1 .. n
      PROVE  /\ s.attempts[i].evidence = t.attempts[i].evidence
             /\ s.attempts[i].action = t.attempts[i].action
             /\ s.attempts[i].disposition \in {"PENDING", t.attempts[i].disposition}
             /\ Resolved(s.attempts[i]) => s.attempts[i] = t.attempts[i]
  <2>1. CASE i = n
    BY <1>1, <2>1 DEF Current
  <2>2. CASE i # n
    <3>1. i \in 1 .. n - 1
      BY <1>0, <2>2
    <3> QED
      BY <1>1, <3>1
  <2> QED
    BY <2>1, <2>2
<1> QED
  BY <1>0, <1>1, <1>2 DEF Continues, t

LEMMA DisposedLawful ==
    ASSUME NEW s \in Session, Lawful(s), MayDispose(s),
           NEW answer \in {"ACCEPTED", "DECLINED"}
    PROVE  LET t == Disposed(s, answer)
           IN t \in Session /\ t.id = s.id /\ Lawful(t) /\ Continues(s, t)
<1> DEFINE c == Current(s)
           d == [c EXCEPT !.disposition = answer]
           e == [c EXCEPT !.disposition = answer, !.execution = "PENDING"]
<1>0. s.attempts \in Seq(Attempt) /\ Len(s.attempts) \in Nat /\ Len(s.attempts) > 0
  BY DEF Session, Lawful
<1>1. c \in Attempt
  BY <1>0 DEF Current
<1>2. c.disposition = "PENDING" /\ c.execution = "NOT_REQUESTED" /\ ~Resolved(c)
  BY DEF MayDispose, Lawful, Untouched, Accepted, Resolved
<1>3. s.status \notin Terminal
  BY DEF MayDispose, Terminal
<1>4. CASE answer = "DECLINED"
  <2>1. d \in Attempt /\ d.evidence = c.evidence /\ d.action = c.action
        /\ d.disposition = "DECLINED" /\ d.execution = "NOT_REQUESTED"
    BY <1>1, <1>2, <1>4 DEF Attempt, Disposition
  <2>2. Says("AWAITING_ATTEMPT", d)
    BY <2>1 DEF Says, Resolved, Closing
  <2>3. Disposed(s, answer) = Replace(s, d, "AWAITING_ATTEMPT")
    BY <1>4 DEF Disposed
  <2>4. "AWAITING_ATTEMPT" \in Open
    BY DEF Open
  <2> HIDE DEF c, d
  <2> QED
    BY <1>0, <1>2, <1>3, <2>1, <2>2, <2>3, <2>4,
       ReplaceFacts, ReplacedLawful, ReplacedContinues DEF c
<1>5. CASE answer = "ACCEPTED"
  <2>1. e \in Attempt /\ e.evidence = c.evidence /\ e.action = c.action
        /\ e.disposition = "ACCEPTED" /\ e.execution = "PENDING"
    BY <1>1, <1>2, <1>5 DEF Attempt, Disposition, Execution
  <2>2. Says("AWAITING_ACTION", e)
    BY <2>1 DEF Says, Accepted
  <2>3. Disposed(s, answer) = Replace(s, e, "AWAITING_ACTION")
    BY <1>5 DEF Disposed
  <2>4. "AWAITING_ACTION" \in Open
    BY DEF Open
  <2> HIDE DEF c, e
  <2> QED
    BY <1>0, <1>2, <1>3, <2>1, <2>2, <2>3, <2>4,
       ReplaceFacts, ReplacedLawful, ReplacedContinues DEF c
<1> QED
  BY <1>4, <1>5

LEMMA ExecutedLawful ==
    ASSUME NEW s \in Session, Lawful(s),
           NEW execution \in Recorded, MayExecute(s, execution)
    PROVE  LET t == Executed(s, execution)
           IN t \in Session /\ t.id = s.id /\ Lawful(t) /\ Continues(s, t)
<1> DEFINE c == Current(s)
           d == [c EXCEPT !.execution = execution]
           status == IF execution = "SUCCEEDED" /\ c.action = "continue"
                     THEN "CLOSED" ELSE "AWAITING_ATTEMPT"
<1>0. s.attempts \in Seq(Attempt) /\ Len(s.attempts) \in Nat /\ Len(s.attempts) > 0
  BY DEF Session, Lawful
<1>1. c \in Attempt
  BY <1>0 DEF Current
<1>2. c.disposition = "ACCEPTED" /\ c.execution = "PENDING" /\ ~Resolved(c)
  BY DEF MayExecute, Resolved, Recorded
<1>3. s.status \notin Terminal
  BY DEF MayExecute, Terminal
<1>4. d \in Attempt /\ d.evidence = c.evidence /\ d.action = c.action
      /\ d.disposition = "ACCEPTED" /\ d.execution = execution
  BY <1>1, <1>2 DEF Attempt, Execution
<1>5. Resolved(d)
  BY <1>4 DEF Resolved, MayExecute
<1>6. Says(status, d)
  BY <1>4, <1>5 DEF Says, Closing
<1>7. status \in Open \cup Terminal
  BY DEF Open, Terminal
<1>8. Executed(s, execution) = Replace(s, d, status)
  BY DEF Executed
<1> HIDE DEF c, d, status
<1> QED
  BY <1>0, <1>2, <1>3, <1>4, <1>6, <1>7, <1>8,
     ReplaceFacts, ReplacedLawful, ReplacedContinues DEF c

LEMMA TransitionedLawful ==
    ASSUME NEW s \in Session, Lawful(s), NEW lesson \in Lesson,
           MayTransition(s, lesson)
    PROVE  LET t == Transitioned(s)
           IN t \in Session /\ t.id = s.id /\ Lawful(t) /\ Continues(s, t)
<1> DEFINE t == Transitioned(s)
<1>1. t \in Session /\ t.id = s.id /\ t.lesson = s.lesson /\ t.revision = s.revision
      /\ t.attempts = s.attempts /\ t.status = "TRANSITIONED"
  BY DEF Transitioned, Session, Terminal
<1>2. s.status \notin Terminal
  BY DEF MayTransition, Open, Terminal
<1>3. Lawful(t)
  BY <1>1 DEF Lawful, MayTransition, Open, Current, Untouched, Accepted, Closing
<1>4. Continues(s, t)
  BY <1>1, <1>2 DEF Continues, Session
<1> QED
  BY <1>1, <1>3, <1>4

LEMMA AppendedLawful ==
    ASSUME NEW s \in Session, Lawful(s), NEW ev \in Evaluation, MayAppend(s, ev)
    PROVE  LET t == Appended(s, ev)
           IN t \in Session /\ t.id = s.id /\ Lawful(t) /\ Continues(s, t)
<1> DEFINE t == Appended(s, ev)
           n == Len(s.attempts)
           a == NewAttempt(ev)
<1>0. s.attempts \in Seq(Attempt) /\ n \in Nat /\ n > 0
  BY DEF Session, Lawful
<1>1. a \in Attempt /\ a.evidence = ev.evidence /\ Untouched(a)
  BY DEF NewAttempt, Attempt, Evaluation, Disposition, Execution, Untouched
<1> HIDE DEF a
<1>2. /\ t = [s EXCEPT !.attempts = Append(s.attempts, a), !.status = "AWAITING_ACTION"]
  BY DEF Appended, a
<1> HIDE DEF t
<1>3. /\ t.attempts = Append(s.attempts, a) /\ t.status = "AWAITING_ACTION"
      /\ t.id = s.id /\ t.lesson = s.lesson /\ t.revision = s.revision
  BY <1>2 DEF Session
<1>4. /\ t.attempts \in Seq(Attempt) /\ Len(t.attempts) = n + 1
      /\ t.attempts[n + 1] = a
      /\ \A i \in 1 .. n : t.attempts[i] = s.attempts[i]
  BY <1>0, <1>1, <1>3
<1>5. t \in Session
  BY <1>2, <1>4, <1>3 DEF Session, Open
<1>6. \A i \in 1 .. n : Resolved(s.attempts[i]) /\ ~Closing(s.attempts[i])
  BY <1>0 DEF Lawful, MayAppend, Current
<1>7. \A i, j \in 1 .. n + 1 : t.attempts[i].evidence = t.attempts[j].evidence => i = j
  <2>1. \A i \in 1 .. n : t.attempts[i].evidence # t.attempts[n + 1].evidence
    BY <1>1, <1>4 DEF MayAppend
  <2>2. \A i, j \in 1 .. n : t.attempts[i].evidence = t.attempts[j].evidence => i = j
    BY <1>4 DEF Lawful
  <2> QED
    BY <1>0, <2>1, <2>2
<1>8. Lawful(t)
  BY <1>0, <1>1, <1>3, <1>4, <1>6, <1>7 DEF Lawful, Current
<1>9. s.status \notin Terminal
  BY DEF MayAppend, Terminal
<1>10. \A i \in 1 .. n : s.attempts[i].disposition \in {"PENDING", t.attempts[i].disposition}
  BY <1>4
<1>11. Continues(s, t)
  BY <1>0, <1>3, <1>4, <1>9, <1>10 DEF Continues
<1> QED
  BY <1>3, <1>5, <1>8, <1>11 DEF t

-----------------------------------------------------------------------------
\* Every operation of the service, on a lawful session it may be used on, gives
\* a lawful session of the same id that continues the one it was given: no
\* settled attempt changes and nothing follows a closed session
\* (guided_session_service.py: "Prior attempts are unchanged").
THEOREM OperationsContinue ==
    ASSUME NEW ask \in Ask, NEW s \in Session \cup {None}, May(ask, s),
           s # None => Lawful(s) /\ s.id = ask.id
    PROVE  LET t == Result(ask, s)
           IN /\ t \in Session /\ t.id = ask.id /\ Lawful(t)
              /\ s # None => Continues(s, t)
<1>1. CASE ask.kind = "create"
  <2>1. ask.id \in SessionId /\ ask.arg \in Evaluation
    BY <1>1 DEF Ask
  <2>2. s = None
    BY <1>1 DEF May
  <2>3. Result(ask, s) = Created(ask.id, ask.arg)
    BY <1>1 DEF Result
  <2> QED
    BY <2>1, <2>2, <2>3, CreatedLawful
<1>2. CASE ask.kind = "append"
  <2>1. ask.arg \in Evaluation /\ s \in Session /\ MayAppend(s, ask.arg)
    BY <1>2 DEF Ask, May
  <2>2. Result(ask, s) = Appended(s, ask.arg)
    BY <1>2 DEF Result
  <2>3. Lawful(s) /\ s.id = ask.id /\ s # None
    BY <1>2 DEF May
  <2> QED
    BY <2>1, <2>2, <2>3, AppendedLawful
<1>3. CASE ask.kind = "disposition"
  <2>1. ask.arg \in {"ACCEPTED", "DECLINED"} /\ s \in Session /\ MayDispose(s)
    BY <1>3 DEF Ask, May
  <2>2. Result(ask, s) = Disposed(s, ask.arg)
    BY <1>3 DEF Result
  <2>3. Lawful(s) /\ s.id = ask.id /\ s # None
    BY <1>3 DEF May
  <2> QED
    BY <2>1, <2>2, <2>3, DisposedLawful
<1>4. CASE ask.kind = "execution"
  <2>1. ask.arg \in Recorded /\ s \in Session /\ MayExecute(s, ask.arg)
    BY <1>4 DEF Ask, May
  <2>2. Result(ask, s) = Executed(s, ask.arg)
    BY <1>4 DEF Result
  <2>3. Lawful(s) /\ s.id = ask.id /\ s # None
    BY <1>4 DEF May
  <2> QED
    BY <2>1, <2>2, <2>3, ExecutedLawful
<1>5. CASE ask.kind = "transition"
  <2>1. ask.arg \in Lesson /\ s \in Session /\ MayTransition(s, ask.arg)
    BY <1>5 DEF Ask, May
  <2>2. Result(ask, s) = Transitioned(s)
    BY <1>5 DEF Result
  <2>3. Lawful(s) /\ s.id = ask.id /\ s # None
    BY <1>5 DEF May
  <2> QED
    BY <2>1, <2>2, <2>3, TransitionedLawful
<1> QED
  BY <1>1, <1>2, <1>3, <1>4, <1>5 DEF Ask

-----------------------------------------------------------------------------
\* A session or its absence, fit for id.
Fit(s, id) == /\ s \in Session \cup {None}
              /\ s # None => Lawful(s) /\ s.id = id

\* What a slot holds; a copy is of the session that was asked for.
CallOK(c) == c = Idle \/ (c \in Call /\ Fit(c.copy, c.ask.id))

StoreInv == /\ store \in [SessionId -> Session \cup {None}]
            /\ calls \in [Slot -> {Idle} \cup Call]
            /\ \A id \in SessionId : Fit(store[id], id)
            /\ \A w \in Slot : CallOK(calls[w])

\* Only the calls change, and only the one of w.
LEMMA OneCall ==
    ASSUME StoreInv, NEW w \in Slot, NEW c,
           calls' = [calls EXCEPT ![w] = c], CallOK(c), UNCHANGED store
    PROVE  StoreInv'
<1>1. c \in {Idle} \cup Call
  BY DEF CallOK
<1>2. calls' \in [Slot -> {Idle} \cup Call]
  BY <1>1 DEF StoreInv
<1>3. \A v \in Slot : CallOK(calls'[v])
  BY DEF StoreInv
<1> QED
  BY <1>2, <1>3 DEF StoreInv

\* A slot that is being served.
LEMMA Serving ==
    ASSUME StoreInv, NEW w \in Slot,
           calls[w].phase \in {"sent", "read", "ok", "failed"}
    PROVE  /\ calls[w] \in Call
           /\ Fit(calls[w].copy, calls[w].ask.id)
           /\ calls[w].ask \in Ask /\ calls[w].ask.id \in SessionId
<1>1. calls[w] # Idle
  BY DEF Idle
<1>2. calls[w] \in Call
  BY <1>1 DEF StoreInv
<1>3. calls[w].ask \in Ask
  BY <1>2 DEF Call
<1>4. calls[w].ask.id \in SessionId
  BY <1>3 DEF Ask
<1> QED
  BY <1>1, <1>2, <1>3, <1>4 DEF StoreInv, CallOK

LEMMA SendKeeps ==
    ASSUME StoreInv, NEW w \in Slot, NEW ask \in Ask, Send(w, ask)
    PROVE  StoreInv'
<1> DEFINE c == [phase |-> "sent", ask |-> ask, copy |-> None]
<1>1. c \in Call /\ c.copy = None
  BY DEF Call
<1>2. CallOK(c)
  BY <1>1 DEF CallOK, Fit
<1> QED
  BY <1>2, OneCall DEF Send

LEMMA TakeKeeps ==
    ASSUME StoreInv, NEW w \in Slot, Take(w)
    PROVE  StoreInv'
BY OneCall DEF Take, CallOK

LEMMA ReadKeeps ==
    ASSUME StoreInv, NEW w \in Slot, Read(w)
    PROVE  StoreInv'
<1> DEFINE ask == calls[w].ask
           c == [calls[w] EXCEPT !.phase = "read", !.copy = store[ask.id]]
<1>1. calls[w] \in Call /\ ask \in Ask /\ ask.id \in SessionId
  BY Serving DEF Read
<1>2. Fit(store[ask.id], ask.id)
  BY <1>1 DEF StoreInv
<1>3. c \in Call /\ c.copy = store[ask.id] /\ c.ask = ask
  BY <1>1, <1>2 DEF Call, Fit
<1>4. CallOK(c)
  BY <1>2, <1>3 DEF CallOK
<1>5. calls' = [calls EXCEPT ![w] = c] /\ UNCHANGED store
  BY DEF Read
<1> QED
  BY <1>4, <1>5, OneCall

\* The phase of a served slot changes and nothing else.
LEMMA PhaseKeeps ==
    ASSUME StoreInv, NEW w \in Slot,
           calls[w].phase \in {"sent", "read", "ok", "failed"},
           calls' = [calls EXCEPT ![w].phase = "failed"], UNCHANGED store
    PROVE  StoreInv'
<1> DEFINE c == [calls[w] EXCEPT !.phase = "failed"]
<1>1. calls[w] \in Call /\ Fit(calls[w].copy, calls[w].ask.id)
  BY Serving
<1>2. c \in Call /\ c.copy = calls[w].copy /\ c.ask = calls[w].ask
  BY <1>1 DEF Call
<1>3. CallOK(c)
  BY <1>1, <1>2 DEF CallOK
<1> QED
  BY <1>3, OneCall

LEMMA WriteKeeps ==
    ASSUME StoreInv, NEW w \in Slot, Write(w)
    PROVE  StoreInv'
<1> DEFINE ask == calls[w].ask
           s == calls[w].copy
           t == Result(ask, s)
           c == [calls[w] EXCEPT !.phase = "ok", !.copy = t]
<1>1. /\ calls[w] \in Call /\ Fit(s, ask.id)
      /\ ask \in Ask /\ ask.id \in SessionId
  BY Serving DEF Write
<1>2. CASE ~May(ask, s)
  BY <1>2, PhaseKeeps DEF Write
<1>3. CASE May(ask, s)
  <2>1. t \in Session /\ t.id = ask.id /\ Lawful(t)
    BY <1>1, <1>3, OperationsContinue DEF Fit
  <2>2. store' = [store EXCEPT ![ask.id] = t] /\ calls' = [calls EXCEPT ![w] = c]
    BY <1>3 DEF Write
  <2> HIDE DEF t
  <2>3. c \in Call /\ c.copy = t /\ c.ask = ask
    BY <1>1, <2>1 DEF Call
  <2> HIDE DEF c, ask, s
  <2>4. CallOK(c) /\ Fit(t, ask.id)
    BY <2>1, <2>3 DEF CallOK, Fit
  <2>5. /\ store' \in [SessionId -> Session \cup {None}]
        /\ \A id \in SessionId : Fit(store'[id], id)
    BY <1>1, <2>1, <2>2, <2>4 DEF StoreInv
  <2>6. /\ calls' \in [Slot -> {Idle} \cup Call]
        /\ \A v \in Slot : CallOK(calls'[v])
    BY <2>2, <2>3, <2>4 DEF StoreInv
  <2> QED
    BY <2>5, <2>6 DEF StoreInv
<1> QED
  BY <1>2, <1>3

LEMMA RestartKeeps ==
    ASSUME StoreInv, Restart
    PROVE  StoreInv'
<1>1. /\ store' \in [SessionId -> Session \cup {None}]
      /\ \A id \in SessionId : Fit(store'[id], id)
  BY DEF Restart, Fit
<1>2. ASSUME NEW w \in Slot
      PROVE  calls'[w] \in {Idle} \cup Call /\ CallOK(calls'[w])
  <2>1. CASE calls[w] = Idle
    BY <2>1 DEF Restart, CallOK
  <2>2. CASE calls[w] # Idle
    <3>1. calls[w] \in Call /\ Fit(calls[w].copy, calls[w].ask.id)
      BY <2>2 DEF StoreInv, CallOK
    <3>2. calls'[w] = [calls[w] EXCEPT !.phase = "failed"]
      BY <2>2 DEF Restart
    <3>3. /\ calls'[w] \in Call
          /\ calls'[w].copy = calls[w].copy /\ calls'[w].ask = calls[w].ask
      BY <3>1, <3>2 DEF Call
    <3> QED
      BY <3>1, <3>3 DEF CallOK
  <2> QED
    BY <2>1, <2>2
<1>3. calls' = [w \in Slot |-> calls'[w]]
  BY DEF Restart
<1> QED
  BY <1>1, <1>2, <1>3 DEF StoreInv

\* Whatever the server does on its own keeps the invariant.
LEMMA ServeKeeps ==
    ASSUME StoreInv, Serve
    PROVE  StoreInv'
<1>1. CASE Restart
  BY <1>1, RestartKeeps
<1>2. ASSUME NEW w \in Slot, Lose(w)
      PROVE  StoreInv'
  BY <1>2, PhaseKeeps DEF Lose
<1> QED
  BY <1>1, <1>2, ReadKeeps, WriteKeeps DEF Serve

LEMMA StoreInitInv ==
    ASSUME StoreInit
    PROVE  StoreInv
BY DEF StoreInit, StoreInv, Fit, CallOK

LEMMA StoreInvLawful ==
    ASSUME StoreInv
    PROVE  LifecycleIsLawful
<1>1. \A id \in SessionId : store[id] # None =>
         store[id] \in Session /\ store[id].id = id /\ Lawful(store[id])
  BY DEF StoreInv, Fit
<1>2. \A w \in Slot : (calls[w] # Idle /\ calls[w].copy # None) =>
         calls[w].copy \in Session /\ Lawful(calls[w].copy)
  BY DEF StoreInv, CallOK, Fit
<1> QED
  BY <1>1, <1>2 DEF LifecycleIsLawful

\* Whatever clients ask for, and however their requests overlap, get lost or
\* meet a restart, the API stores and answers with lawful sessions only: closed
\* "by CONTINUE + ACCEPTED + SUCCEEDED" (guided_session_service.py:4) and nothing
\* else, with a settled past, no performance counted twice.
THEOREM StoreIsLawful == StoreSpec => []LifecycleIsLawful
<1>1. StoreInit => StoreInv
  BY StoreInitInv
<1>2. StoreInv /\ [StoreNext]_storeVars => StoreInv'
  <2> SUFFICES ASSUME StoreInv, [StoreNext]_storeVars
               PROVE  StoreInv'
    OBVIOUS
  <2>1. CASE Serve
    BY <2>1, ServeKeeps
  <2>2. ASSUME NEW w \in Slot, Take(w)
        PROVE  StoreInv'
    BY <2>2, TakeKeeps
  <2>3. ASSUME NEW w \in Slot, NEW ask \in Ask, Send(w, ask)
        PROVE  StoreInv'
    BY <2>3, SendKeeps
  <2>4. CASE UNCHANGED storeVars
    BY <2>4 DEF storeVars, StoreInv
  <2> QED
    BY <2>1, <2>2, <2>3, <2>4 DEF StoreNext
<1>3. StoreInv => LifecycleIsLawful
  BY StoreInvLawful
<1> QED
  BY <1>1, <1>2, <1>3, PTL DEF StoreSpec

-----------------------------------------------------------------------------
(* The page and the service together                                        *)

\* As long as no two requests have overlapped, there is at most one, and what
\* its thread has read is what is stored.
Single ==
    ~overlapped =>
        /\ \A v, w \in Slot : calls[v] # Idle /\ calls[w] # Idle => v = w
        /\ \A w \in Slot :
              calls[w].phase = "read" => calls[w].copy = store[calls[w].ask.id]

CallInv == /\ StoreInv
           /\ kept \in [Slot -> Session \cup {None}]
           /\ minted \in SUBSET SessionId
           /\ \A w \in Slot :
                 calls[w] # Idle /\ calls[w].ask.kind = "execution" =>
                     kept[w] \in Session
           /\ Single

PageType == /\ page \in Page
            /\ errands \in [Errand -> {Free} \cup Await]

Moving(x) == errands[x].kind = "transition"
Links == /\ \A x \in Errand : Moving(x) =>
               /\ calls[errands[x].slot] # Idle
               /\ calls[errands[x].slot].ask.kind = "transition"
         /\ \A x, y \in Errand :
               Moving(x) /\ Moving(y) /\ errands[x].slot = errands[y].slot => x = y

PageInv == CallInv /\ PageType /\ Links

-----------------------------------------------------------------------------
\* The calls.

LEMMA PostKeeps ==
    ASSUME CallInv, NEW w \in Slot, NEW ask \in Ask, Post(w, ask),
           page.session \in Session \cup {None},
           ask.kind = "execution" => page.session \in Session
    PROVE  CallInv'
<1> DEFINE c == [phase |-> "sent", ask |-> ask, copy |-> None]
<1>1. /\ calls[w] = Idle
      /\ calls' = [calls EXCEPT ![w] = c] /\ UNCHANGED store
      /\ kept' = [kept EXCEPT ![w] = page.session]
      /\ minted' = minted \cup {ask.id}
      /\ overlapped' = (overlapped \/ \E v \in Slot : calls[v] # Idle)
  BY DEF Post, Send
<1>2. StoreInv'
  BY SendKeeps DEF CallInv, Post
<1>3. ask.id \in SessionId
  BY DEF Ask
<1>4. /\ c.phase = "sent" /\ c.ask = ask
      /\ calls'[w] = c /\ \A v \in Slot : v # w => calls'[v] = calls[v]
  BY <1>1 DEF CallInv, StoreInv
<1> HIDE DEF c
<1>5. \A v \in Slot : calls'[v] # Idle /\ calls'[v].ask.kind = "execution" =>
                          kept'[v] \in Session
  BY <1>1, <1>4 DEF CallInv
<1>6. kept' \in [Slot -> Session \cup {None}] /\ minted' \in SUBSET SessionId
  BY <1>1, <1>3 DEF CallInv
<1>7. Single'
  <2> SUFFICES ASSUME ~overlapped'
               PROVE  /\ \A u, v \in Slot : calls'[u] # Idle /\ calls'[v] # Idle => u = v
                      /\ \A v \in Slot : calls'[v].phase = "read" =>
                            calls'[v].copy = store'[calls'[v].ask.id]
    BY DEF Single
  <2>1. \A v \in Slot : calls[v] = Idle
    BY <1>1
  <2>2. \A v \in Slot : v # w => calls'[v] = Idle
    BY <2>1, <1>4
  <2>3. \A v \in Slot : calls'[v].phase # "read"
    BY <2>2, <1>4 DEF Idle
  <2> QED
    BY <2>2, <2>3
<1> QED
  BY <1>2, <1>5, <1>6, <1>7 DEF CallInv

LEMMA AnswerKeeps ==
    ASSUME CallInv, NEW w \in Slot, NEW kind, Answer(w, kind)
    PROVE  CallInv'
<1>1. /\ calls' = [calls EXCEPT ![w] = Idle] /\ UNCHANGED <<store, minted, overlapped>>
      /\ kept' = [kept EXCEPT ![w] = None]
  BY DEF Answer, Take
<1>2. StoreInv'
  BY TakeKeeps DEF CallInv, Answer
<1>3. calls'[w] = Idle /\ \A v \in Slot : v # w => calls'[v] = calls[v]
  BY <1>1 DEF CallInv, StoreInv
<1>4. \A v \in Slot : v # w => kept'[v] = kept[v]
  BY <1>1 DEF CallInv
<1>5. kept' \in [Slot -> Session \cup {None}]
  BY <1>1 DEF CallInv
<1>6. Single'
  <2> SUFFICES ASSUME ~overlapped
               PROVE  /\ \A u, v \in Slot : calls'[u] # Idle /\ calls'[v] # Idle => u = v
                      /\ \A v \in Slot : calls'[v].phase = "read" =>
                            calls'[v].copy = store[calls'[v].ask.id]
    BY <1>1 DEF Single
  <2>1. \A v \in Slot : v # w \/ calls'[v].phase # "read"
    BY <1>3 DEF Idle
  <2> QED
    BY <1>3, <2>1 DEF CallInv, Single
<1> QED
  BY <1>1, <1>2, <1>3, <1>4, <1>5, <1>6 DEF CallInv

\* What the server makes of the call it serves.
LEMMA ServedCall ==
    ASSUME StoreInv, NEW w \in Slot, calls[w] \in Call, Read(w) \/ Write(w) \/ Lose(w)
    PROVE  /\ calls'[w].ask = calls[w].ask
           /\ Read(w) => calls'[w].phase = "read" /\ calls'[w].copy = store[calls[w].ask.id]
           /\ ~Read(w) => calls'[w].phase \in {"ok", "failed"}
<1>1. calls \in [Slot -> {Idle} \cup Call]
  BY DEF StoreInv
<1>2. ASSUME NEW p, NEW x, calls' = [calls EXCEPT ![w] = [@ EXCEPT !.phase = p, !.copy = x]]
      PROVE  calls'[w].ask = calls[w].ask /\ calls'[w].phase = p /\ calls'[w].copy = x
  <2> DEFINE c == [calls[w] EXCEPT !.phase = p, !.copy = x]
  <2>1. c.ask = calls[w].ask /\ c.phase = p /\ c.copy = x
    BY DEF Call
  <2>2. calls' = [calls EXCEPT ![w] = c]
    BY <1>2
  <2> HIDE DEF c
  <2> QED
    BY <1>1, <2>1, <2>2
<1>3. ASSUME calls' = [calls EXCEPT ![w].phase = "failed"]
      PROVE  calls'[w].ask = calls[w].ask /\ calls'[w].phase = "failed"
  BY <1>1, <1>3 DEF Call
<1>4. CASE Read(w)
  <2>1. calls' = [calls EXCEPT ![w] = [@ EXCEPT !.phase = "read",
                                                !.copy = store[calls[w].ask.id]]]
    BY <1>4 DEF Read
  <2> QED
    BY <1>2, <1>4, <2>1
<1>5. CASE Write(w) /\ ~Read(w)
  <2> DEFINE r == Result(calls[w].ask, calls[w].copy)
  <2>1. \/ calls' = [calls EXCEPT ![w] = [@ EXCEPT !.phase = "ok", !.copy = r]]
        \/ calls' = [calls EXCEPT ![w].phase = "failed"]
    BY <1>5 DEF Write
  <2> HIDE DEF r
  <2> QED
    BY <1>2, <1>3, <1>5, <2>1
<1>6. CASE Lose(w) /\ ~Read(w)
  BY <1>3, <1>6 DEF Lose
<1> QED
  BY <1>4, <1>5, <1>6

\* What the server does to a slot: it stays in use, for the same request.
LEMMA SameAsk ==
    ASSUME StoreInv, Serve, NEW v \in Slot
    PROVE  /\ calls[v] = Idle <=> calls'[v] = Idle
           /\ calls[v] # Idle => calls'[v].ask = calls[v].ask
<1>1. ASSUME NEW c \in Call
      PROVE  c # Idle
  BY <1>1 DEF Call, Idle
<1>2. CASE Restart
  <2>1. CASE calls[v] = Idle
    BY <1>2, <2>1 DEF Restart
  <2>2. CASE calls[v] # Idle
    <3>1. calls[v] \in Call /\ calls'[v] = [calls[v] EXCEPT !.phase = "failed"]
      BY <1>2, <2>2 DEF Restart, StoreInv
    <3>2. calls'[v].phase = "failed" /\ calls'[v].ask = calls[v].ask
      BY <3>1 DEF Call
    <3> QED
      BY <2>2, <3>2 DEF Idle
  <2> QED
    BY <2>1, <2>2
<1>3. ASSUME NEW w \in Slot, Read(w) \/ Write(w) \/ Lose(w)
      PROVE  /\ calls[v] = Idle <=> calls'[v] = Idle
             /\ calls[v] # Idle => calls'[v].ask = calls[v].ask
  <2>1. calls[w] \in Call /\ calls[w] # Idle
    <3>1. calls[w].phase \in {"sent", "read", "ok", "failed"}
      BY <1>3 DEF Read, Write, Lose
    <3> QED
      BY <3>1, <1>1, Serving
  <2>2. CASE v # w
    BY <1>3, <2>2 DEF StoreInv, Read, Write, Lose
  <2>3. CASE v = w
    <3>1. calls'[w].ask = calls[w].ask
          /\ calls'[w].phase \in {"read", "ok", "failed"}
      BY <1>3, <2>1, ServedCall
    <3> QED
      BY <2>1, <2>3, <3>1 DEF Idle
  <2> QED
    BY <2>2, <2>3
<1> QED
  BY <1>2, <1>3 DEF Serve

LEMMA ServerKeeps ==
    ASSUME CallInv, ServerStep
    PROVE  CallInv'
<1>1. Serve /\ UNCHANGED <<kept, minted, overlapped>>
  BY DEF ServerStep, pageVars
<1>2. StoreInv'
  BY <1>1, ServeKeeps DEF CallInv
<1>3. \A v \in Slot : /\ calls[v] = Idle <=> calls'[v] = Idle
                      /\ calls[v] # Idle => calls'[v].ask = calls[v].ask
  BY <1>1, SameAsk DEF CallInv
<1>4. Single'
  <2> SUFFICES ASSUME ~overlapped
               PROVE  /\ \A u, v \in Slot : calls'[u] # Idle /\ calls'[v] # Idle => u = v
                      /\ \A v \in Slot : calls'[v].phase = "read" =>
                            calls'[v].copy = store'[calls'[v].ask.id]
    BY <1>1 DEF Single
  <2>1. \A u, v \in Slot : calls'[u] # Idle /\ calls'[v] # Idle => u = v
    BY <1>3 DEF CallInv, Single
  <2>2. ASSUME NEW v \in Slot, calls'[v].phase = "read"
        PROVE  calls'[v].copy = store'[calls'[v].ask.id]
    <3>1. calls'[v] # Idle /\ calls[v] # Idle
      BY <1>3, <2>2 DEF Idle
    <3>2. calls[v] \in Call
      BY <3>1 DEF CallInv, StoreInv
    <3>3. CASE Restart
      <4>1. calls'[v] = [calls[v] EXCEPT !.phase = "failed"]
        BY <3>1, <3>3 DEF Restart
      <4> QED
        BY <2>2, <3>2, <4>1 DEF Call
    <3>4. ASSUME NEW w \in Slot, Read(w) \/ Write(w) \/ Lose(w)
          PROVE  calls'[v].copy = store'[calls'[v].ask.id]
      <4>1. calls[w].phase \in {"sent", "read", "ok", "failed"}
        BY <3>4 DEF Read, Write, Lose
      <4>2. w = v
        BY <3>1, <4>1 DEF Idle, CallInv, Single
      <4>3. CASE Read(w)
        <5>1. calls'[v].copy = store[calls[v].ask.id] /\ calls'[v].ask = calls[v].ask
          BY <3>2, <4>2, <4>3, ServedCall DEF CallInv
        <5> QED
          BY <4>3, <5>1 DEF Read
      <4>4. CASE ~Read(w)
        <5>1. calls'[v].phase \in {"ok", "failed"}
          BY <3>2, <3>4, <4>2, <4>4, ServedCall DEF CallInv
        <5> QED
          BY <2>2, <5>1
      <4> QED
        BY <4>3, <4>4
    <3> QED
      BY <1>1, <3>3, <3>4 DEF Serve
  <2> QED
    BY <2>1, <2>2
<1> QED
  BY <1>1, <1>2, <1>3, <1>4 DEF CallInv

\* Steps that touch neither the store nor a call.
LEMMA NoCallKeeps ==
    ASSUME CallInv, UNCHANGED <<store, calls, kept, minted, overlapped>>
    PROVE  CallInv'
BY DEF CallInv, StoreInv, Single

\* No write is lost: what a thread writes continues what is stored then.
LEMMA ServerContinues ==
    ASSUME CallInv, Serve, ~overlapped,
           NEW id \in SessionId, store[id] # None, store'[id] # None
    PROVE  Continues(store[id], store'[id])
<1>0. Continues(store[id], store[id])
  BY DEF Continues, CallInv, StoreInv, Session
<1>1. CASE Restart
  BY <1>1 DEF Restart
<1>2. ASSUME NEW w \in Slot, Read(w) \/ Lose(w)
      PROVE  Continues(store[id], store'[id])
  BY <1>0, <1>2 DEF Read, Lose
<1>3. ASSUME NEW w \in Slot, Write(w)
      PROVE  Continues(store[id], store'[id])
  <2> DEFINE ask == calls[w].ask
             s == calls[w].copy
  <2>1. /\ Fit(s, ask.id) /\ ask \in Ask /\ ask.id \in SessionId
    BY <1>3, Serving DEF CallInv, Write
  <2>2. s = store[ask.id]
    BY <1>3 DEF CallInv, Single, Write
  <2>3. CASE ~May(ask, s)
    BY <1>0, <1>3, <2>3 DEF Write
  <2>4. CASE May(ask, s)
    <3>1. s # None => Continues(s, Result(ask, s))
      BY <2>1, <2>4, OperationsContinue DEF Fit
    <3>2. store' = [store EXCEPT ![ask.id] = Result(ask, s)]
      BY <1>3, <2>4 DEF Write
    <3> HIDE DEF ask, s
    <3>3. CASE id = ask.id
      BY <2>1, <2>2, <3>1, <3>2, <3>3 DEF CallInv, StoreInv
    <3>4. CASE id # ask.id
      BY <1>0, <2>1, <3>2, <3>4 DEF CallInv, StoreInv
    <3> QED
      BY <3>3, <3>4
  <2> QED
    BY <2>3, <2>4
<1> QED
  BY <1>1, <1>2, <1>3 DEF Serve

-----------------------------------------------------------------------------
\* The links between errands and calls.

\* No transition is begun and no call is answered.
LEMMA LinksKept ==
    ASSUME Links, PageType,
           \A y \in Errand : Moving(y)' => Moving(y) /\ errands'[y] = errands[y],
           \A v \in Slot : calls[v] # Idle =>
               calls'[v] # Idle /\ calls'[v].ask = calls[v].ask
    PROVE  Links'
<1>1. \A y \in Errand : Moving(y) => errands[y].slot \in Slot
  BY DEF PageType, Moving, Await, Free
<1> QED
  BY <1>1 DEF Links

\* An errand goes on, but not to a transition.
LEMMA Going ==
    ASSUME PageType, NEW x \in Errand, NEW await \in {Free} \cup Await,
           await.kind # "transition",
           errands' = [errands EXCEPT ![x] = await]
    PROVE  /\ errands' \in [Errand -> {Free} \cup Await]
           /\ \A y \in Errand : Moving(y)' => Moving(y) /\ errands'[y] = errands[y]
BY DEF PageType, Moving

LEMMA FreeFacts == Free \in {Free} \cup Await /\ Free.kind # "transition"
BY DEF Free

LEMMA PostLinks ==
    ASSUME CallInv, NEW w \in Slot, NEW ask, Post(w, ask)
    PROVE  \A v \in Slot : calls[v] # Idle =>
               calls'[v] # Idle /\ calls'[v].ask = calls[v].ask
BY DEF Post, Send, CallInv, StoreInv

LEMMA ActiveSession ==
    ASSUME PageType
    PROVE  /\ page.session \in Session \cup {None}
           /\ Active = page.session \/ Active = None
BY DEF PageType, Page, Active

-----------------------------------------------------------------------------
\* The page, action by action.

LEMMA QuietSteps ==
    ASSUME PageInv, PageType', UNCHANGED <<store, calls, kept, minted, overlapped>>,
           \A y \in Errand : Moving(y)' => Moving(y) /\ errands'[y] = errands[y]
    PROVE  PageInv'
<1>1. CallInv'
  BY NoCallKeeps DEF PageInv
<1>2. Links'
  BY LinksKept DEF PageInv
<1> QED
  BY <1>1, <1>2 DEF PageInv

LEMMA CaptureKeeps ==
    ASSUME PageInv,
           Interrupt \/ \E e \in Evidence : StartAttempt(e)
    PROVE  PageInv'
<1>1. UNCHANGED <<store, calls, kept, minted, overlapped, errands>>
  BY DEF Interrupt, StartAttempt, NoCall, storeVars
<1>2. PageType'
  BY <1>1 DEF PageInv, PageType, Page, Interrupt, StartAttempt
<1> QED
  BY <1>1, <1>2, QuietSteps DEF Moving

LEMMA StopKeeps ==
    ASSUME PageInv, NEW x \in Errand, StopAttempt(x)
    PROVE  PageInv'
<1> DEFINE await == [kind |-> "stop", arg |-> page.capture]
<1>1. /\ UNCHANGED <<store, calls, kept, minted, overlapped>>
      /\ errands' = [errands EXCEPT ![x] = await]
      /\ page' = [page EXCEPT !.capture = None]
  BY DEF StopAttempt, NoCall, storeVars, Begin
<1>2. page.capture \in Evidence
  BY DEF PageInv, PageType, Page, StopAttempt
<1>3. await \in {Free} \cup Await /\ await.kind # "transition"
  BY <1>2 DEF Await
<1> HIDE DEF await
<1>4. /\ errands' \in [Errand -> {Free} \cup Await]
      /\ \A y \in Errand : Moving(y)' => Moving(y) /\ errands'[y] = errands[y]
  BY <1>1, <1>3, Going DEF PageInv
<1>5. page' \in Page
  BY <1>1 DEF PageInv, PageType, Page
<1> QED
  BY <1>1, <1>4, <1>5, QuietSteps DEF PageType

LEMMA StopAnsweredKeeps ==
    ASSUME PageInv, NEW x \in Errand, StopAnswered(x)
    PROVE  PageInv'
<1> DEFINE await == [kind |-> "evaluate", arg |-> errands[x].arg,
                     lesson |-> page.lesson, revision |-> page.score]
<1>1. /\ UNCHANGED <<store, calls, kept, minted, overlapped, page>>
      /\ errands' = [errands EXCEPT ![x] = await]
  BY DEF StopAnswered, NoCall, storeVars, Go
<1>2. errands[x].arg \in Evidence
  BY DEF PageInv, PageType, StopAnswered, Await, Free
<1>3. await \in {Free} \cup Await /\ await.kind # "transition"
  BY <1>2 DEF Await, PageInv, PageType, Page
<1> HIDE DEF await
<1>4. /\ errands' \in [Errand -> {Free} \cup Await]
      /\ \A y \in Errand : Moving(y)' => Moving(y) /\ errands'[y] = errands[y]
  BY <1>1, <1>3, Going DEF PageInv
<1> QED
  BY <1>1, <1>4, QuietSteps DEF PageType, PageInv

LEMMA SelectKeeps ==
    ASSUME PageInv, NEW x \in Errand, NEW l \in Lesson, SelectLesson(x, l)
    PROVE  PageInv'
<1> DEFINE await == [kind |-> "artifacts", arg |-> l]
<1>1. /\ UNCHANGED <<store, calls, kept, minted, overlapped, page>>
      /\ errands' = [errands EXCEPT ![x] = await]
  BY DEF SelectLesson, NoCall, storeVars, Begin
<1>2. await \in {Free} \cup Await /\ await.kind # "transition"
  BY DEF Await
<1> HIDE DEF await
<1>3. /\ errands' \in [Errand -> {Free} \cup Await]
      /\ \A y \in Errand : Moving(y)' => Moving(y) /\ errands'[y] = errands[y]
  BY <1>1, <1>2, Going DEF PageInv
<1> QED
  BY <1>1, <1>3, QuietSteps DEF PageType, PageInv

LEMMA ScoreKeeps ==
    ASSUME PageInv, NEW x \in Errand, ScoreArrived(x)
    PROVE  PageInv'
<1>1. /\ UNCHANGED <<store, calls, kept, minted, overlapped>>
      /\ errands' = [errands EXCEPT ![x] = Free]
      /\ page' = [page EXCEPT !.score = errands[x].arg, !.pin = errands[x].arg]
  BY DEF ScoreArrived, NoCall, storeVars, Done, Go
<1>2. errands[x].arg \in Lesson
  BY DEF PageInv, PageType, ScoreArrived, Await, Free
<1>3. /\ errands' \in [Errand -> {Free} \cup Await]
      /\ \A y \in Errand : Moving(y)' => Moving(y) /\ errands'[y] = errands[y]
  BY <1>1, FreeFacts, Going DEF PageInv
<1>4. page' \in Page
  BY <1>1, <1>2 DEF PageInv, PageType, Page
<1> QED
  BY <1>1, <1>3, <1>4, QuietSteps DEF PageType

LEMMA FailKeeps ==
    ASSUME PageInv, NEW x \in Errand, ErrandFails(x)
    PROVE  PageInv'
<1>1. /\ UNCHANGED <<store, calls, kept, minted, overlapped>>
      /\ errands' = [errands EXCEPT ![x] = Free]
      /\ page' = page \/ page' = [page EXCEPT !.pin = page.score]
  BY DEF ErrandFails, Done, Go
<1>2. /\ errands' \in [Errand -> {Free} \cup Await]
      /\ \A y \in Errand : Moving(y)' => Moving(y) /\ errands'[y] = errands[y]
  BY <1>1, FreeFacts, Going DEF PageInv
<1>3. page' \in Page
  BY <1>1 DEF PageInv, PageType, Page
<1> QED
  BY <1>1, <1>2, <1>3, QuietSteps DEF PageType

\* A guided request goes out, and the page changes otherwise.
LEMMA PostSteps ==
    ASSUME PageInv, PageType', NEW w \in Slot, NEW ask \in Ask, Post(w, ask),
           ask.kind = "execution" => page.session \in Session,
           \A y \in Errand : Moving(y)' => Moving(y) /\ errands'[y] = errands[y]
    PROVE  PageInv'
<1>1. CallInv'
  BY PostKeeps, ActiveSession DEF PageInv
<1>2. Links'
  BY PostLinks, LinksKept DEF PageInv
<1> QED
  BY <1>1, <1>2 DEF PageInv

LEMMA EvaluateKeeps ==
    ASSUME PageInv, NEW x \in Errand, NEW w \in Slot, NEW action \in Action,
           EvaluateAnswered(x, w, action)
    PROVE  PageInv'
<1> DEFINE await == errands[x]
           ev == [evidence |-> await.arg, lesson |-> await.lesson,
                  revision |-> await.revision, action |-> action]
<1>1. /\ errands' = [errands EXCEPT ![x] = Free] /\ UNCHANGED page
      /\ await.kind = "evaluate"
  BY DEF EvaluateAnswered, Done, Go
<1>2. /\ errands' \in [Errand -> {Free} \cup Await]
      /\ \A y \in Errand : Moving(y)' => Moving(y) /\ errands'[y] = errands[y]
  BY <1>1, FreeFacts, Going DEF PageInv
<1>3. PageType'
  BY <1>1, <1>2 DEF PageInv, PageType
<1>4. CASE UNCHANGED <<store, calls, kept, minted, overlapped>>
  BY <1>2, <1>3, <1>4, QuietSteps
<1>5. CASE ~UNCHANGED <<store, calls, kept, minted, overlapped>>
  <2>1. ~NoCall
    BY <1>5 DEF NoCall, storeVars
  <2>2. await.revision # None /\ Sync(w, ev)
    BY <2>1 DEF EvaluateAnswered
  <2>3. await.arg \in Evidence /\ await.lesson \in Lesson /\ await.revision \in Lesson
    BY <1>1, <2>2 DEF PageInv, PageType, Await, Free
  <2>4. ev \in Evaluation
    BY <2>3 DEF Evaluation
  <2> HIDE DEF ev
  <2>5. CASE page.session = None
    <3>1. PICK id \in SessionId \ minted :
             Post(w, [kind |-> "create", id |-> id, arg |-> ev])
      BY <2>1, <2>2, <2>5 DEF Sync
    <3>2. [kind |-> "create", id |-> id, arg |-> ev] \in Ask
      BY <2>4 DEF Ask
    <3> QED
      BY <1>2, <1>3, <3>1, <3>2, PostSteps
  <2>6. CASE page.session # None
    <3> DEFINE ask == [kind |-> "append", id |-> page.session.id, arg |-> ev]
    <3>1. Post(w, ask)
      BY <2>1, <2>2, <2>6 DEF Sync
    <3>2. page.session \in Session
      BY <2>6, ActiveSession DEF PageInv
    <3>3. ask \in Ask
      BY <2>4, <3>2 DEF Ask, Session
    <3>4. ask.kind = "append"
      OBVIOUS
    <3> HIDE DEF ask
    <3> QED
      BY <1>2, <1>3, <3>1, <3>3, <3>4, PostSteps
  <2> QED
    BY <2>5, <2>6
<1> QED
  BY <1>4, <1>5

LEMMA PressKeeps ==
    ASSUME PageInv, NEW w \in Slot,
           \/ \E answer \in {"ACCEPTED", "DECLINED"} : PressDisposition(w, answer)
           \/ \E outcome \in Recorded : PressApply(w, outcome)
    PROVE  PageInv'
<1>1. ASSUME NEW answer \in {"ACCEPTED", "DECLINED"}, PressDisposition(w, answer)
      PROVE  PageInv'
  <2> DEFINE ask == [kind |-> "disposition", id |-> Active.id, arg |-> answer]
  <2>1. /\ Post(w, ask) /\ UNCHANGED <<page, errands>> /\ Active # None
    BY <1>1 DEF PressDisposition, CanRecordDisposition
  <2>2. Active \in Session
    BY <2>1, ActiveSession DEF PageInv
  <2>3. ask \in Ask /\ ask.kind = "disposition"
    BY <2>2 DEF Ask, Session
  <2> HIDE DEF ask
  <2>4. PageType' /\ \A y \in Errand : Moving(y)' => Moving(y) /\ errands'[y] = errands[y]
    BY <2>1 DEF PageInv, PageType, Moving
  <2> QED
    BY <2>1, <2>3, <2>4, PostSteps
<1>2. ASSUME NEW outcome \in Recorded, PressApply(w, outcome)
      PROVE  PageInv'
  <2> DEFINE ask == [kind |-> "execution", id |-> Active.id, arg |-> outcome]
  <2>1. /\ Post(w, ask) /\ page' = [page EXCEPT !.applying = TRUE]
        /\ UNCHANGED errands /\ Active # None
    BY <1>2 DEF PressApply, CanApply
  <2>2. Active \in Session /\ page.session = Active
    BY <2>1, ActiveSession DEF PageInv
  <2>3. ask \in Ask
    BY <2>2 DEF Ask, Session
  <2> HIDE DEF ask
  <2>4. PageType' /\ \A y \in Errand : Moving(y)' => Moving(y) /\ errands'[y] = errands[y]
    BY <2>1 DEF PageInv, PageType, Page, Moving
  <2> QED
    BY <2>1, <2>2, <2>3, <2>4, PostSteps
<1> QED
  BY <1>1, <1>2

LEMMA AppliedType ==
    ASSUME NEW p \in Page, NEW l \in Lesson
    PROVE  Applied(p, l) \in Page
BY DEF Applied, Page

LEMMA ArtifactsKeep ==
    ASSUME PageInv, NEW x \in Errand, NEW w \in Slot, ArtifactsArrived(x, w)
    PROVE  PageInv'
<1> DEFINE l == errands[x].arg
           s == page.session
           score == [kind |-> "score", arg |-> l]
<1>1. errands[x].kind = "artifacts" /\ l \in Lesson
  BY DEF ArtifactsArrived, PageInv, PageType, Await, Free
<1>2. CASE UNCHANGED <<store, calls, kept, minted, overlapped>> /\ page' \in Page
           /\ errands' = [errands EXCEPT ![x] = score]
  <2>1. score \in {Free} \cup Await /\ score.kind # "transition"
    BY <1>1 DEF Await
  <2> HIDE DEF score
  <2>2. /\ errands' \in [Errand -> {Free} \cup Await]
        /\ \A y \in Errand : Moving(y)' => Moving(y) /\ errands'[y] = errands[y]
    BY <1>2, <2>1, Going DEF PageInv
  <2> QED
    BY <1>2, <2>2, QuietSteps DEF PageType
<1>3. CASE s # None /\ s.lesson # l /\ s.status \notin Terminal
  <2> DEFINE ask == [kind |-> "transition", id |-> s.id, arg |-> l]
             await == [kind |-> "transition", arg |-> l, slot |-> w]
  <2>1. /\ Post(w, ask) /\ UNCHANGED page
        /\ errands' = [errands EXCEPT ![x] = await]
    BY <1>3 DEF ArtifactsArrived, Go
  <2>2. s \in Session
    BY <1>3, ActiveSession DEF PageInv
  <2>3. ask \in Ask /\ ask.kind = "transition"
    BY <1>1, <2>2 DEF Ask, Session
  <2>4. await \in Await /\ await.kind = "transition" /\ await.slot = w
    BY <1>1 DEF Await
  <2> HIDE DEF ask, await
  <2>5. CallInv'
    BY <2>1, <2>3, PostKeeps, ActiveSession DEF PageInv
  <2>6. PageType'
    BY <2>1, <2>4 DEF PageInv, PageType
  <2>7. /\ calls[w] = Idle
        /\ calls'[w].phase = "sent" /\ calls'[w].ask = ask
        /\ \A v \in Slot : v # w => calls'[v] = calls[v]
    BY <2>1 DEF Post, Send, PageInv, CallInv, StoreInv
  <2>8. /\ errands'[x] = await
        /\ \A y \in Errand : y # x => errands'[y] = errands[y]
    BY <2>1 DEF PageInv, PageType
  <2>9. \A y \in Errand : Moving(y) => errands[y].slot \in Slot /\ errands[y].slot # w
    BY <2>7 DEF PageInv, PageType, Links, Moving, Await, Free
  <2>10. calls'[w] # Idle
    BY <2>7 DEF Idle
  <2>11. Links'
    BY <2>3, <2>4, <2>7, <2>8, <2>9, <2>10 DEF PageInv, Links, Moving
  <2> QED
    BY <2>5, <2>6, <2>11 DEF PageInv
<1>4. CASE s # None /\ s.lesson # l /\ s.status \in Terminal
  <2>1. /\ NoCall
        /\ page' = Applied([page EXCEPT !.terminal = s, !.session = None], l)
        /\ errands' = [errands EXCEPT ![x] = score]
    BY <1>4 DEF ArtifactsArrived, Go
  <2>2. [page EXCEPT !.terminal = s, !.session = None] \in Page
    BY DEF PageInv, PageType, Page
  <2> QED
    BY <1>1, <1>2, <2>1, <2>2, AppliedType DEF NoCall, storeVars
<1>5. CASE s # None => s.lesson = l
  <2>1. /\ NoCall /\ page' = Applied(page, l)
        /\ errands' = [errands EXCEPT ![x] = score]
    BY <1>5 DEF ArtifactsArrived, Go
  <2> QED
    BY <1>1, <1>2, <2>1, AppliedType DEF NoCall, storeVars, PageInv, PageType
<1> QED
  BY <1>3, <1>4, <1>5

-----------------------------------------------------------------------------
\* The answers.

LEMMA TransitionKeeps ==
    ASSUME PageInv, NEW x \in Errand, TransitionAnswered(x)
    PROVE  PageInv'
<1> DEFINE w == errands[x].slot
           l == errands[x].arg
           score == [kind |-> "score", arg |-> l]
<1>1. /\ Moving(x) /\ Answer(w, "transition")
      /\ errands' = [errands EXCEPT ![x] = score]
  BY DEF TransitionAnswered, Moving, Go
<1>2. w \in Slot /\ l \in Lesson
  BY <1>1 DEF PageInv, PageType, Moving, Await, Free
<1>3. CallInv'
  BY <1>1, <1>2, AnswerKeeps DEF PageInv
<1>4. score \in {Free} \cup Await /\ score.kind # "transition"
  BY <1>2 DEF Await
<1> HIDE DEF score
<1>5. /\ errands' \in [Errand -> {Free} \cup Await]
      /\ \A y \in Errand : Moving(y)' => Moving(y) /\ errands'[y] = errands[y]
  BY <1>1, <1>4, Going DEF PageInv
<1>6. page' \in Page
  <2>1. page \in Page
    BY DEF PageInv, PageType
  <2>2. CASE Ok(w)
    <3>1. calls[w].copy \in Session \cup {None}
      BY <1>2, <2>2, Serving DEF Ok, PageInv, CallInv, Call
    <3>2. [page EXCEPT !.terminal = calls[w].copy, !.session = None] \in Page
      BY <2>1, <3>1 DEF Page
    <3> QED
      BY <1>2, <2>2, <3>2, AppliedType DEF TransitionAnswered
  <2>3. CASE ~Ok(w)
    BY <1>2, <2>1, <2>3, AppliedType DEF TransitionAnswered
  <2> QED
    BY <2>2, <2>3
<1>7. ~Moving(x)'
  BY <1>1, <1>4 DEF Moving, PageInv, PageType
<1>8. \A y \in Errand : Moving(y)' => Moving(y) /\ y # x /\ errands'[y] = errands[y]
                                      /\ errands[y].slot \in Slot /\ errands[y].slot # w
  BY <1>1, <1>5, <1>7 DEF PageInv, PageType, Links, Moving, Await, Free
<1>9. \A v \in Slot : v # w => calls'[v] = calls[v]
  BY <1>1 DEF Answer, Take, PageInv, CallInv, StoreInv
<1>10. Links'
  <2>1. \A y \in Errand : Moving(y)' => /\ calls'[errands'[y].slot] # Idle
                                        /\ calls'[errands'[y].slot].ask.kind = "transition"
    BY <1>8, <1>9 DEF PageInv, Links
  <2>2. \A y, z \in Errand :
           Moving(y)' /\ Moving(z)' /\ errands'[y].slot = errands'[z].slot => y = z
    BY <1>8 DEF PageInv, Links
  <2> QED
    BY <2>1, <2>2 DEF Links
<1> QED
  BY <1>3, <1>5, <1>6, <1>10 DEF PageInv, PageType

LEMMA AnswerLinks ==
    ASSUME PageInv, NEW w \in Slot, NEW kind, Answer(w, kind), kind # "transition",
           UNCHANGED errands
    PROVE  Links'
<1>1. /\ calls[w].ask.kind # "transition"
      /\ \A v \in Slot : v # w => calls'[v] = calls[v]
  BY DEF Answer, Take, PageInv, CallInv, StoreInv
<1>2. \A y \in Errand : Moving(y) => errands[y].slot \in Slot /\ errands[y].slot # w
  BY <1>1 DEF PageInv, PageType, Links, Moving, Await, Free
<1> QED
  BY <1>1, <1>2 DEF PageInv, Links, Moving

LEMMA AnswersKeep ==
    ASSUME PageInv, NEW w \in Slot,
           \/ CreateAnswered(w) \/ AppendAnswered(w)
           \/ DispositionAnswered(w) \/ ExecutionAnswered(w)
    PROVE  PageInv'
<1>1. PICK kind \in {"create", "append", "disposition", "execution"} :
         Answer(w, kind)
  BY DEF CreateAnswered, AppendAnswered, DispositionAnswered, ExecutionAnswered
<1>2. UNCHANGED errands
  BY DEF CreateAnswered, AppendAnswered, DispositionAnswered, ExecutionAnswered
<1>3. CallInv' /\ Links'
  BY <1>1, <1>2, AnswerKeeps, AnswerLinks DEF PageInv
<1>4. page \in Page /\ kept[w] \in Session \cup {None}
  BY DEF PageInv, PageType, CallInv
<1>5. calls[w].copy \in Session \cup {None}
  BY <1>1, Serving DEF Answer, Take, PageInv, CallInv, Call
<1>6. ASSUME NEW u \in Session \cup {None}
      PROVE  /\ [page EXCEPT !.session = u] \in Page
             /\ [page EXCEPT !.session = None, !.terminal = None] \in Page
  BY <1>4 DEF Page
<1>7. CASE CreateAnswered(w) \/ AppendAnswered(w) \/ DispositionAnswered(w)
  <2>1. page' \in Page
    BY <1>4, <1>5, <1>6, <1>7 DEF CreateAnswered, AppendAnswered, DispositionAnswered
  <2> QED
    BY <1>2, <1>3, <2>1 DEF PageInv, PageType
<1>8. CASE ExecutionAnswered(w)
  <2> DEFINE key == <<kept[w].id, Len(kept[w].attempts)>>
             u == IF Ok(w) THEN calls[w].copy ELSE page.session
             lock == IF ~Ok(w) /\ calls[w].ask.arg = "SUCCEEDED"
                     THEN page.locked \cup {key} ELSE page.locked
  <2>1. kept[w] \in Session
    BY <1>8 DEF ExecutionAnswered, Answer, PageInv, CallInv
  <2>2. key \in SessionId \X Nat
    BY <2>1 DEF Session
  <2> HIDE DEF key
  <2>3. lock \in SUBSET (SessionId \X Nat)
    BY <1>4, <2>2 DEF Page
  <2>4. u \in Session \cup {None}
    BY <1>4, <1>5 DEF Page
  <2>5. page' = [page EXCEPT !.applying = FALSE, !.session = u, !.locked = lock]
    BY <1>8 DEF ExecutionAnswered, key
  <2> HIDE DEF u, lock
  <2>6. page' \in Page
    BY <1>4, <2>3, <2>4, <2>5 DEF Page
  <2> QED
    BY <1>2, <1>3, <2>6 DEF PageInv, PageType
<1> QED
  BY <1>7, <1>8

-----------------------------------------------------------------------------
LEMMA InitInv ==
    ASSUME Init
    PROVE  PageInv
<1>1. CallInv
  <2>1. StoreInv
    BY StoreInitInv DEF Init
  <2>2. Single
    BY DEF Init, StoreInit, Single, Idle
  <2> QED
    BY <2>1, <2>2 DEF Init, StoreInit, CallInv
<1>2. PageType
  BY DEF Init, PageType, Page
<1>3. Links
  BY FreeFacts DEF Init, Links, Moving
<1> QED
  BY <1>1, <1>2, <1>3 DEF PageInv

LEMMA ServerStepKeeps ==
    ASSUME PageInv, ServerStep
    PROVE  PageInv'
<1>1. UNCHANGED <<page, errands>> /\ Serve
  BY DEF ServerStep, pageVars
<1>2. CallInv'
  BY ServerKeeps DEF PageInv
<1>3. PageType'
  BY <1>1 DEF PageInv, PageType
<1>4. \A v \in Slot : calls[v] # Idle => calls'[v] # Idle /\ calls'[v].ask = calls[v].ask
  BY <1>1, SameAsk DEF PageInv, CallInv
<1>5. Links'
  BY <1>1, <1>4, LinksKept DEF PageInv, Moving
<1> QED
  BY <1>2, <1>3, <1>5 DEF PageInv

LEMMA StepKeeps ==
    ASSUME PageInv, [Next]_vars
    PROVE  PageInv'
<1>1. CASE AnswerStep
  BY <1>1, TransitionKeeps, AnswersKeep DEF AnswerStep
<1>2. CASE ServerStep
  BY <1>2, ServerStepKeeps
<1>3. CASE PageStep
  BY <1>3, CaptureKeeps, StopKeeps, StopAnsweredKeeps, ScoreKeeps, FailKeeps,
     SelectKeeps, ArtifactsKeep, EvaluateKeeps, PressKeeps DEF PageStep
<1>4. CASE UNCHANGED vars
  BY <1>4, QuietSteps DEF vars, storeVars, pageVars, PageInv, PageType, Moving
<1> QED
  BY <1>1, <1>2, <1>3, <1>4 DEF Next

THEOREM PageInvariance == Spec => []PageInv
BY InitInv, StepKeeps, PTL DEF Spec

\* Types, and an errand that waits for a transition waits for a call that is
\* there: no answer to the page is taken by somebody else.
THEOREM TypeCorrect == Spec => []TypeOK
<1>1. PageInv => TypeOK
  BY DEF PageInv, CallInv, StoreInv, PageType, Links, Moving, TypeOK
<1> QED
  BY <1>1, PageInvariance, PTL

\* The page is one of the clients StoreIsLawful speaks of.
THEOREM SessionsAreLawful == Spec => []LifecycleIsLawful
<1>1. PageInv => LifecycleIsLawful
  BY StoreInvLawful DEF PageInv, CallInv
<1> QED
  BY <1>1, PageInvariance, PTL

\* While the page's requests do not overlap, a stored session only grows: the
\* thread of the only request writes what continues the session stored at that
\* moment, since nobody else has written since it read it
\* (LocalGuidedPracticeSessionApi has no lock that would make it so otherwise).
THEOREM HistoryKept == Spec => HistoryIsKept
<1> DEFINE Grows == ~overlapped' => \A id \in SessionId :
                       (store[id] # None /\ store'[id] # None) =>
                           Continues(store[id], store'[id])
<1>1. PageInv /\ [Next]_vars => [Grows]_vars
  <2> SUFFICES ASSUME PageInv, [Next]_vars, ~overlapped',
                      NEW id \in SessionId, store[id] # None, store'[id] # None
               PROVE  Continues(store[id], store'[id])
    OBVIOUS
  <2>1. CASE ServerStep
    <3>1. Serve /\ ~overlapped
      BY <2>1 DEF ServerStep, pageVars
    <3> QED
      BY <3>1, ServerContinues DEF PageInv
  <2>2. CASE UNCHANGED store
    BY <2>2 DEF Continues, PageInv, CallInv, StoreInv, Session
  <2>3. CASE AnswerStep
    <3>1. UNCHANGED store
      BY <2>3 DEF AnswerStep, TransitionAnswered, CreateAnswered, AppendAnswered,
                  DispositionAnswered, ExecutionAnswered, Answer, Take
    <3> QED
      BY <2>2, <3>1
  <2>4. CASE PageStep
    <3>1. NoCall \/ (\E w \in Slot : \E ask : Post(w, ask)) => UNCHANGED store
      BY DEF NoCall, storeVars, Post, Send
    <3>2. ASSUME NEW x \in Errand, NEW w \in Slot, NEW action \in Action,
                 EvaluateAnswered(x, w, action)
          PROVE  UNCHANGED store
      BY <3>1, <3>2 DEF EvaluateAnswered, Sync
    <3>3. ASSUME NEW x \in Errand, NEW w \in Slot, ArtifactsArrived(x, w)
          PROVE  UNCHANGED store
      BY <3>1, <3>3 DEF ArtifactsArrived
    <3>4. UNCHANGED store
      BY <2>4, <3>1, <3>2, <3>3 DEF PageStep, Interrupt, StartAttempt, StopAttempt,
         StopAnswered, ScoreArrived, ErrandFails, SelectLesson, PressDisposition,
         PressApply
    <3> QED
      BY <2>2, <3>4
  <2>5. CASE UNCHANGED vars
    BY <2>2, <2>5 DEF vars, storeVars
  <2> QED
    BY <2>1, <2>3, <2>4, <2>5 DEF Next
<1> QED
  BY <1>1, PageInvariance, PTL DEF Spec, HistoryIsKept

-----------------------------------------------------------------------------
(***************************************************************************)
(* What the page knows of the sessions the server holds, while its requests *)
(* do not overlap: that the learner decides, that what is recorded as done  *)
(* has been done once, and that page and server agree where nothing failed. *)
(*                                                                         *)
(* None of the three is inductive.  What makes them so is PageKnows: the    *)
(* stored session continues the page's and is ahead only where the page     *)
(* waits for an attempt, a pending request suits the session the page still *)
(* has, a performance is brought to the server once, and an action that can *)
(* be applied has not been.                                                 *)
(***************************************************************************)

Performances(s) == IF s = None THEN {} ELSE {s.attempts[i].evidence : i \in 1 .. Len(s.attempts)}

\* A performance the server has not been told of, and is told of once.
InErrand(x, e) == errands[x].kind \in {"stop", "evaluate"} /\ errands[x].arg = e
Unheard(e) == started[e] = None \/ page.capture = e \/ \E x \in Errand : InErrand(x, e)

Once ==
    /\ \A e \in Evidence : page.capture = e =>
          started[e] # None /\ \A x \in Errand : ~InErrand(x, e)
    /\ \A e \in Evidence, x \in Errand : InErrand(x, e) =>
          started[e] # None /\ \A y \in Errand : InErrand(y, e) => x = y

LogType ==
    /\ started \in [Evidence -> Lesson \cup {None}]
    /\ pressed \in [Evidence -> SUBSET {"ACCEPTED", "DECLINED"}]
    /\ applied \in [Evidence -> {0, 1}]
    /\ faults \in Nat

\* The page's session: one the server has answered with, not a transitioned one.
Shown(s) == s # None => s \in Session /\ Lawful(s) /\ s.status # "TRANSITIONED"
                         /\ s.id \in minted

\* The stored session continues the page's, and has got ahead by an attempt only
\* where the page waits for one.
Ahead(s) ==
    (s # None /\ store[s.id] # None) =>
        /\ Continues(s, store[s.id])
        /\ s.status # "AWAITING_ATTEMPT" => Len(store[s.id].attempts) = Len(s.attempts)

\* While a request is pending, the page keeps the session it was sent for, and
\* what was sent suits that session.
Suits(ask, s) ==
    /\ ask.kind = "create" => s = None
    /\ ask.kind # "create" => s # None /\ s \in Session /\ ask.id = s.id /\ s.status \notin Terminal
    /\ ask.kind = "append" => s.status = "AWAITING_ATTEMPT" /\ ~PinMismatch(s, ask.arg)
    /\ ask.kind = "disposition" =>
          CanRecordDisposition(s) /\ ask.arg \in pressed[Current(s).evidence]
    /\ ask.kind = "execution" =>
          /\ CanApply(s) /\ ask.arg \in Outcomes(Current(s).action)
          /\ ask.arg = "SUCCEEDED" => applied[Current(s).evidence] = 1
    /\ ask.kind = "transition" => ask.arg # s.lesson

\* A request that brings a performance brings it for the first time.
Brings(ask) == ask.kind \in {"create", "append"}
Unserved(c) == c.phase \in {"sent", "read"}
News(c) ==
    Brings(c.ask) =>
        LET e == c.ask.arg.evidence
        IN /\ ~Unheard(e) /\ applied[e] = 0 /\ e \notin Performances(page.session)
           /\ Unserved(c) => \A id \in SessionId : e \notin Performances(store[id])

\* What a request that was granted has made of its session.
Granted(c) ==
    c.phase = "ok" =>
        /\ c.copy = store[c.ask.id] /\ c.copy \in Session
        /\ c.copy.status = "TRANSITIONED" <=> c.ask.kind = "transition"
        /\ Brings(c.ask) => Current(c.copy).evidence = c.ask.arg.evidence
        /\ c.ask.kind = "execution" => Resolved(Current(c.copy))

CallKnown(w) ==
    calls[w] # Idle =>
        /\ page.session = kept[w]
        /\ calls[w].ask.id \in minted
        /\ Suits(calls[w].ask, kept[w])
        /\ News(calls[w])
        /\ Granted(calls[w])
        /\ calls[w].ask.kind = "create" /\ Unserved(calls[w]) => store[calls[w].ask.id] = None

Fresh ==
    /\ \A e \in Evidence : Unheard(e) =>
          /\ applied[e] = 0 /\ e \notin Performances(page.session)
          /\ \A id \in SessionId : e \notin Performances(store[id])
    /\ \A id \in SessionId : store[id] # None => id \in minted

\* What is stored is what the learner answered and what was applied.
Truthful(a) ==
    /\ a.disposition \in {"PENDING"} \cup pressed[a.evidence]
    /\ a.execution = "SUCCEEDED" => applied[a.evidence] = 1
Told ==
    \A id \in SessionId : store[id] # None =>
        \A i \in 1 .. Len(store[id].attempts) : Truthful(store[id].attempts[i])

\* An action that could be applied has not been.
Reporting(w) == /\ calls[w] # Idle
                /\ calls[w].ask.kind = "execution" /\ calls[w].ask.arg = "SUCCEEDED"
Unapplied(s) ==
    (/\ s # None /\ ~Resolved(Current(s)) /\ AttemptKey(s) \notin page.locked
     /\ \A w \in Slot : ~Reporting(w))
        => applied[Current(s).evidence] = 0

\* Where no request has failed, page and server agree but for the one granted.
Granting(w) == calls[w].phase = "ok"
Agree ==
    faults = 0 =>
        /\ \A w \in Slot : calls[w].phase # "failed"
        /\ (page.session # None /\ \A w \in Slot : ~Granting(w)) =>
              store[page.session.id] = page.session
        /\ page.terminal # None =>
              store[page.terminal.id] = page.terminal /\ page.terminal.status \in Terminal
        /\ \A id \in SessionId : store[id] # None =>
              \/ store[id].status \in Terminal
              \/ page.session # None /\ id = page.session.id
              \/ \E w \in Slot : Granting(w) /\ calls[w].ask.id = id

PageKnows ==
    /\ Once /\ LogType /\ Shown(page.session) /\ Ahead(page.session)
    /\ \A w \in Slot : CallKnown(w)
    /\ Fresh /\ Told /\ Unapplied(page.session) /\ Agree

Known == ~overlapped => PageKnows

-----------------------------------------------------------------------------
\* Sessions, and what operations make of them.

LEMMA ContinuesSelf ==
    ASSUME NEW s \in Session
    PROVE  Continues(s, s)
  BY DEF Continues, Session

LEMMA ContinuesOn ==
    ASSUME NEW s \in Session, NEW t \in Session, NEW u \in Session,
           Continues(s, t), Continues(t, u)
    PROVE  Continues(s, u)
<1>1. /\ Len(s.attempts) \in Nat /\ Len(t.attempts) \in Nat /\ Len(u.attempts) \in Nat
      /\ Len(s.attempts) <= Len(t.attempts) /\ Len(t.attempts) <= Len(u.attempts)
  BY DEF Session, Continues
<1>2. ASSUME NEW i \in 1 .. Len(s.attempts)
      PROVE  /\ s.attempts[i].evidence = u.attempts[i].evidence
             /\ s.attempts[i].action = u.attempts[i].action
             /\ s.attempts[i].disposition \in {"PENDING", u.attempts[i].disposition}
             /\ Resolved(s.attempts[i]) => s.attempts[i] = u.attempts[i]
  <2>1. i \in 1 .. Len(t.attempts)
    BY <1>1
  <2> QED BY <2>1 DEF Continues
<1>3. s.status \in Terminal => s = u
  BY DEF Continues
<1>4. s.id = u.id /\ s.lesson = u.lesson /\ s.revision = u.revision
  BY DEF Continues
<1>5. Len(s.attempts) <= Len(u.attempts)
  BY <1>1
<1> QED BY <1>2, <1>3, <1>4, <1>5 DEF Continues

\* A session continued without a new attempt is at the same performance.
LEMMA SamePlace ==
    ASSUME NEW s \in Session, NEW t \in Session, Lawful(s), Continues(s, t),
           Len(t.attempts) = Len(s.attempts)
    PROVE  /\ Current(t).evidence = Current(s).evidence
           /\ Current(t).action = Current(s).action
           /\ s.id = t.id
  BY DEF Continues, Lawful, Current, Session

LEMMA ReplacedAttempts ==
    ASSUME NEW t \in Session, Lawful(t), NEW a \in Attempt,
           a.evidence = Current(t).evidence, NEW status \in Open \cup Terminal
    PROVE  LET u == Replace(t, a, status)
           IN /\ Len(u.attempts) = Len(t.attempts) /\ Current(u) = a
              /\ u.status = status
              /\ \A i \in 1 .. Len(t.attempts) :
                    /\ u.attempts[i].evidence = t.attempts[i].evidence
                    /\ u.attempts[i] = t.attempts[i] \/ (i = Len(t.attempts) /\ u.attempts[i] = a)
<1> DEFINE u == Replace(t, a, status)
           n == Len(t.attempts)
<1>0. n \in Nat /\ n > 0
  BY DEF Lawful, Session
<1>1. /\ Len(u.attempts) = n /\ Current(u) = a /\ u.status = status /\ u.attempts[n] = a
      /\ \A i \in 1 .. n - 1 : u.attempts[i] = t.attempts[i]
  BY <1>0, ReplaceFacts DEF Current
<1> HIDE DEF u
<1>2. ASSUME NEW i \in 1 .. n
      PROVE  /\ u.attempts[i].evidence = t.attempts[i].evidence
             /\ u.attempts[i] = t.attempts[i] \/ (i = n /\ u.attempts[i] = a)
  <2>1. CASE i = n
    BY <1>1, <2>1 DEF Current
  <2>2. CASE i # n
    <3>1. i \in 1 .. n - 1
      BY <1>0, <2>2
    <3> QED BY <1>1, <3>1
  <2> QED BY <2>1, <2>2
<1> QED BY <1>1, <1>2 DEF u

\* What becomes of the attempts, request by request.
LEMMA ResultAttempts ==
    ASSUME NEW ask \in Ask, NEW t \in Session, Lawful(t), May(ask, t), t # None
    PROVE  LET u == Result(ask, t)
               n == Len(t.attempts)
           IN /\ u.status = "TRANSITIONED" <=> ask.kind = "transition"
              /\ IF ask.kind = "append"
                 THEN /\ Len(u.attempts) = n + 1
                      /\ u.attempts[n + 1] = NewAttempt(ask.arg)
                      /\ Current(u) = NewAttempt(ask.arg)
                      /\ \A i \in 1 .. n : u.attempts[i] = t.attempts[i]
                 ELSE /\ Len(u.attempts) = n
                      /\ \A i \in 1 .. n : u.attempts[i].evidence = t.attempts[i].evidence
                      /\ \A i \in 1 .. n : u.attempts[i] = t.attempts[i] \/ i = n
              /\ ask.kind = "disposition" =>
                    Current(u).disposition = ask.arg /\ Current(u).execution # "SUCCEEDED"
              /\ ask.kind = "execution" =>
                    /\ Current(u).execution = ask.arg /\ Resolved(Current(u))
                    /\ Current(u).disposition = Current(t).disposition
              /\ ask.kind = "transition" => u.attempts = t.attempts
<1> DEFINE n == Len(t.attempts)
           c == Current(t)
<1>0. /\ t.attempts \in Seq(Attempt) /\ n \in Nat /\ n > 0 /\ c \in Attempt
  BY DEF Lawful, Session, Current
<1>1. CASE ask.kind = "append"
  <2>1. PICK u : u = Appended(t, ask.arg)
    OBVIOUS
  <2>2. u.attempts = Append(t.attempts, NewAttempt(ask.arg)) /\ u.status = "AWAITING_ACTION"
    BY <2>1 DEF Appended, Session
  <2>3. /\ Len(u.attempts) = n + 1 /\ u.attempts[n + 1] = NewAttempt(ask.arg)
        /\ \A i \in 1 .. n : u.attempts[i] = t.attempts[i]
    BY <1>0, <2>2
  <2>4. Current(u) = NewAttempt(ask.arg)
    BY <2>3 DEF Current
  <2>5. Result(ask, t) = u
    BY <1>1, <2>1 DEF Result
  <2> QED BY <1>1, <2>2, <2>3, <2>4, <2>5
<1>2. CASE ask.kind = "disposition"
  <2>1. PICK status \in Open, a \in Attempt :
           /\ Result(ask, t) = Replace(t, a, status)
           /\ a.evidence = c.evidence /\ a.disposition = ask.arg /\ a.execution # "SUCCEEDED"
    <3>1. ask.arg \in {"ACCEPTED", "DECLINED"} /\ MayDispose(t)
      BY <1>2 DEF Ask, May
    <3>2. c.execution = "NOT_REQUESTED"
      BY <3>1 DEF MayDispose, Lawful, Untouched, Accepted
    <3>3. CASE ask.arg = "DECLINED"
      <4> DEFINE a == [c EXCEPT !.disposition = ask.arg]
      <4>1. /\ a \in Attempt /\ a.evidence = c.evidence /\ a.disposition = ask.arg
            /\ a.execution # "SUCCEEDED"
        BY <1>0, <3>2, <3>3 DEF Attempt, Disposition
      <4>2. Result(ask, t) = Replace(t, a, "AWAITING_ATTEMPT")
        BY <1>2, <3>3 DEF Result, Disposed
      <4>3. "AWAITING_ATTEMPT" \in Open
        BY DEF Open
      <4> HIDE DEF a
      <4> QED BY <4>1, <4>2, <4>3
    <3>4. CASE ask.arg = "ACCEPTED"
      <4> DEFINE a == [c EXCEPT !.disposition = ask.arg, !.execution = "PENDING"]
      <4>1. /\ a \in Attempt /\ a.evidence = c.evidence /\ a.disposition = ask.arg
            /\ a.execution # "SUCCEEDED"
        BY <1>0, <3>4 DEF Attempt, Disposition, Execution
      <4>2. Result(ask, t) = Replace(t, a, "AWAITING_ACTION")
        BY <1>2, <3>4 DEF Result, Disposed
      <4>3. "AWAITING_ACTION" \in Open
        BY DEF Open
      <4> HIDE DEF a
      <4> QED BY <4>1, <4>2, <4>3
    <3> QED BY <3>1, <3>3, <3>4
  <2> QED BY <1>2, <2>1, ReplacedAttempts DEF Open
<1>3. CASE ask.kind = "execution"
  <2>1. PICK status \in Open \cup {"CLOSED"}, a \in Attempt :
           /\ Result(ask, t) = Replace(t, a, status)
           /\ a.evidence = c.evidence /\ a.disposition = c.disposition
           /\ a.execution = ask.arg /\ Resolved(a)
    <3>1. ask.arg \in Recorded /\ MayExecute(t, ask.arg)
      BY <1>3 DEF Ask, May
    <3> DEFINE a == [c EXCEPT !.execution = ask.arg]
               status == IF ask.arg = "SUCCEEDED" /\ c.action = "continue"
                         THEN "CLOSED" ELSE "AWAITING_ATTEMPT"
    <3>2. /\ a \in Attempt /\ a.evidence = c.evidence /\ a.disposition = c.disposition
          /\ a.execution = ask.arg /\ a.action = c.action
      BY <1>0, <3>1 DEF Attempt, Execution
    <3>3. Resolved(a)
      BY <3>1, <3>2 DEF MayExecute, Resolved
    <3>4. Result(ask, t) = Replace(t, a, status)
      BY <1>3 DEF Result, Executed
    <3>5. status \in Open \cup {"CLOSED"}
      BY DEF Open
    <3> HIDE DEF a, status
    <3> QED BY <3>2, <3>3, <3>4, <3>5
  <2>2. status \in Open \cup Terminal /\ status # "TRANSITIONED"
    BY DEF Open, Terminal
  <2> QED BY <1>3, <2>1, <2>2, ReplacedAttempts
<1>4. CASE ask.kind = "transition"
  <2>1. PICK u : u = Transitioned(t)
    OBVIOUS
  <2>2. u.attempts = t.attempts /\ u.status = "TRANSITIONED"
    BY <2>1 DEF Transitioned, Session
  <2>3. Result(ask, t) = u
    BY <1>4, <2>1 DEF Result
  <2> QED BY <1>4, <2>2, <2>3
<1> QED BY <1>1, <1>2, <1>3, <1>4 DEF May

LEMMA SessionAttempts ==
    ASSUME NEW s \in Session, NEW i \in 1 .. Len(s.attempts)
    PROVE  s.attempts[i] \in Attempt /\ s.attempts[i].evidence \in Evidence
<1>1. s.attempts \in Seq(Attempt)
  BY DEF Session
<1>2. s.attempts[i] \in Attempt
  BY <1>1
<1> QED BY <1>2 DEF Attempt

LEMMA Stored ==
    ASSUME PageInv, NEW id \in SessionId, store[id] # None
    PROVE  store[id] \in Session /\ Lawful(store[id]) /\ store[id].id = id
  BY DEF PageInv, CallInv, StoreInv, Fit

LEMMA PerformanceIsIn ==
    ASSUME NEW s, NEW e
    PROVE  e \in Performances(s) <=>
               s # None /\ \E i \in 1 .. Len(s.attempts) : s.attempts[i].evidence = e
  BY DEF Performances

-----------------------------------------------------------------------------
\* Steps that send nothing, answer nothing and leave the page its session.

LEMMA QuietKnows ==
    ASSUME PageInv, PageKnows, NoCall \/ UNCHANGED <<store, calls, kept, minted, overlapped>>,
           UNCHANGED <<pressed, applied>>,
           page'.session = page.session, page'.terminal = page.terminal,
           page'.locked = page.locked,
           faults' \in Nat, faults' = 0 => faults = 0,
           started' \in [Evidence -> Lesson \cup {None}],
           Once', \A e \in Evidence : Unheard(e)' => Unheard(e)
    PROVE  PageKnows'
<1>1. UNCHANGED <<store, calls, kept, minted, overlapped>>
  BY DEF NoCall, storeVars
<1>2. LogType' /\ Shown(page.session)' /\ Ahead(page.session)' /\ Told'
  BY <1>1 DEF PageKnows, LogType, Shown, Ahead, Told, Truthful
<1>3. Fresh'
  BY <1>1 DEF PageKnows, Fresh
<1>4. Unapplied(page.session)'
  BY <1>1 DEF PageKnows, Unapplied, Reporting, AttemptKey
<1>5. Agree'
  BY <1>1 DEF PageKnows, Agree, Granting
<1>6. ASSUME NEW w \in Slot
      PROVE  CallKnown(w)'
  <2>1. CASE calls[w] = Idle
    BY <1>1, <2>1 DEF CallKnown
  <2>2. CASE calls[w] # Idle
    <3>0. CallKnown(w)
      BY DEF PageKnows
    <3>1. calls[w].ask \in Ask
      BY <2>2 DEF PageInv, CallInv, StoreInv, Call
    <3>2. Brings(calls[w].ask) => calls[w].ask.arg.evidence \in Evidence
      BY <3>1 DEF Ask, Brings, Evaluation
    <3>3. News(calls[w])'
      BY <1>1, <2>2, <3>0, <3>2 DEF CallKnown, News
    <3>4. Suits(calls[w].ask, kept[w])' /\ Granted(calls[w])'
      BY <1>1, <2>2, <3>0 DEF CallKnown, Suits, Granted
    <3> QED BY <1>1, <2>2, <3>0, <3>3, <3>4 DEF CallKnown
  <2> QED BY <2>1, <2>2
<1> QED BY <1>2, <1>3, <1>4, <1>5, <1>6 DEF PageKnows

\* An errand is freed or goes on without a performance.
LEMMA ErrandEnds ==
    ASSUME PageType, Once, NEW x \in Errand, NEW await,
           await.kind \notin {"stop", "evaluate"},
           errands' = [errands EXCEPT ![x] = await],
           page'.capture = page.capture, UNCHANGED started
    PROVE  /\ Once' /\ \A e \in Evidence : Unheard(e)' => Unheard(e)
           /\ \A e \in Evidence : InErrand(x, e) => ~Unheard(e)'
<1>1. /\ errands'[x] = await
      /\ \A y \in Errand : y # x => errands'[y] = errands[y]
  BY DEF PageType
<1>2. \A e \in Evidence, y \in Errand :
         InErrand(y, e)' <=> InErrand(y, e) /\ y # x
  BY <1>1 DEF InErrand
<1> QED BY <1>2 DEF Once, Unheard

LEMMA FaultsNat ==
    ASSUME PageKnows
    PROVE  faults \in Nat
  BY DEF PageKnows, LogType

LEMMA InterruptKnows ==
    ASSUME PageInv, PageKnows, Interrupt
    PROVE  PageKnows'
<1>1. /\ NoCall /\ Unlogged /\ UNCHANGED errands
      /\ page' = [page EXCEPT !.capture = None] /\ page \in Page
  BY DEF Interrupt, PageInv, PageType
<1>2. /\ page'.capture = None /\ page'.session = page.session
      /\ page'.terminal = page.terminal /\ page'.locked = page.locked
  BY <1>1 DEF Page
<1>3. \A e \in Evidence, y \in Errand : InErrand(y, e)' <=> InErrand(y, e)
  BY <1>1 DEF InErrand
<1>4. Once' /\ \A e \in Evidence : Unheard(e)' => Unheard(e)
  BY <1>1, <1>2, <1>3, NoneIsNothing DEF PageKnows, Once, Unheard, Unlogged
<1>5. started' \in [Evidence -> Lesson \cup {None}] /\ UNCHANGED <<pressed, applied, faults>>
  BY <1>1 DEF PageKnows, LogType, Unlogged, NoCall, storeVars
<1> QED BY <1>1, <1>2, <1>4, <1>5, QuietKnows, FaultsNat

LEMMA StartKnows ==
    ASSUME PageInv, PageKnows, NEW e \in Evidence, StartAttempt(e)
    PROVE  PageKnows'
<1>1. /\ NoCall /\ UNCHANGED <<errands, pressed, applied>> /\ started[e] = None
      /\ started' = [started EXCEPT ![e] = page.lesson]
      /\ page' = [page EXCEPT !.capture = e] /\ page \in Page
  BY DEF StartAttempt, PageInv, PageType
<1>2. /\ page'.capture = e /\ page'.session = page.session
      /\ page'.terminal = page.terminal /\ page'.locked = page.locked
      /\ page.lesson \in Lesson
  BY <1>1 DEF Page
<1>3. /\ started' \in [Evidence -> Lesson \cup {None}]
      /\ started'[e] = page.lesson /\ \A f \in Evidence : f # e => started'[f] = started[f]
  BY <1>1, <1>2 DEF PageKnows, LogType
<1>4. \A f \in Evidence, y \in Errand : InErrand(y, f)' <=> InErrand(y, f)
  BY <1>1 DEF InErrand
<1>5. Once' /\ \A f \in Evidence : Unheard(f)' => Unheard(f)
  BY <1>1, <1>2, <1>3, <1>4, NoneIsNothing DEF PageKnows, Once, Unheard
<1>6. UNCHANGED faults
  BY <1>1 DEF NoCall, storeVars
<1> QED BY <1>1, <1>2, <1>3, <1>5, <1>6, QuietKnows, FaultsNat

LEMMA StopKnows ==
    ASSUME PageInv, PageKnows, NEW x \in Errand, StopAttempt(x)
    PROVE  PageKnows'
<1>1. PICK e \in Evidence : page.capture = e
  BY DEF StopAttempt, PageInv, PageType, Page
<1>2. PICK await : await = [kind |-> "stop", arg |-> e]
  OBVIOUS
<1>3. /\ NoCall /\ Unlogged /\ errands[x] = Free
      /\ errands' = [errands EXCEPT ![x] = await]
      /\ page' = [page EXCEPT !.capture = None] /\ page \in Page
  BY <1>1, <1>2 DEF StopAttempt, Begin, PageInv, PageType
<1>4. /\ page'.capture = None /\ page'.session = page.session
      /\ page'.terminal = page.terminal /\ page'.locked = page.locked
  BY <1>3 DEF Page
<1>5. /\ errands'[x] = await
      /\ \A y \in Errand : y # x => errands'[y] = errands[y]
  BY <1>3 DEF PageInv, PageType
<1>6. ASSUME NEW f \in Evidence, NEW y \in Errand
      PROVE  InErrand(y, f)' <=> IF y = x THEN f = e ELSE InErrand(y, f)
  BY <1>2, <1>5 DEF InErrand
<1>7. \A y \in Errand : ~InErrand(y, e) /\ started[e] # None
  BY <1>1 DEF PageKnows, Once
<1>8. \A f \in Evidence : ~InErrand(x, f)
  BY <1>3 DEF InErrand, Free
<1>9. started' = started /\ UNCHANGED <<pressed, applied, faults>>
  BY <1>3 DEF Unlogged, NoCall, storeVars
<1>10. Once'
  BY <1>4, <1>6, <1>7, <1>8, <1>9, NoneIsNothing DEF PageKnows, Once
<1>11. \A f \in Evidence : Unheard(f)' => Unheard(f)
  BY <1>1, <1>4, <1>6, <1>9, NoneIsNothing DEF Unheard
<1>12. started' \in [Evidence -> Lesson \cup {None}]
  BY <1>9 DEF PageKnows, LogType
<1> QED BY <1>3, <1>4, <1>9, <1>10, <1>11, <1>12, QuietKnows, FaultsNat

LEMMA StopAnsweredKnows ==
    ASSUME PageInv, PageKnows, NEW x \in Errand, StopAnswered(x)
    PROVE  PageKnows'
<1>1. PICK await : await = [kind |-> "evaluate", arg |-> errands[x].arg,
                            lesson |-> page.lesson, revision |-> page.score]
  OBVIOUS
<1>2. /\ NoCall /\ Unlogged /\ errands[x].kind = "stop" /\ UNCHANGED page
      /\ errands' = [errands EXCEPT ![x] = await]
      /\ await.kind = "evaluate" /\ await.arg = errands[x].arg
  BY <1>1 DEF StopAnswered, Go
<1>3. started' = started /\ UNCHANGED <<pressed, applied, faults>>
  BY <1>2 DEF Unlogged, NoCall, storeVars
<1>4. Once' /\ \A e \in Evidence : Unheard(e)' => Unheard(e)
  <2>1. /\ errands'[x] = await
        /\ \A y \in Errand : y # x => errands'[y] = errands[y]
    BY <1>2 DEF PageInv, PageType
  <2>2. \A e \in Evidence, y \in Errand : InErrand(y, e)' <=> InErrand(y, e)
    BY <1>2, <2>1 DEF InErrand
  <2> QED BY <1>2, <1>3, <2>2 DEF PageKnows, Once, Unheard
<1>5. started' \in [Evidence -> Lesson \cup {None}]
  BY <1>3 DEF PageKnows, LogType
<1> QED BY <1>2, <1>3, <1>4, <1>5, QuietKnows, FaultsNat

\* Steps that end an errand, or begin or carry on one without a performance.
LEMMA ErrandKnows ==
    ASSUME PageInv, PageKnows, NEW x \in Errand, NEW await,
           await.kind \notin {"stop", "evaluate"},
           errands' = [errands EXCEPT ![x] = await],
           UNCHANGED <<store, calls, kept, minted, overlapped>>, Unlogged,
           page'.capture = page.capture, page'.session = page.session,
           page'.terminal = page.terminal, page'.locked = page.locked,
           faults' \in Nat, faults' = 0 => faults = 0
    PROVE  PageKnows'
<1>1. Once' /\ \A e \in Evidence : Unheard(e)' => Unheard(e)
  BY ErrandEnds DEF PageInv, PageKnows, Unlogged
<1>2. started' \in [Evidence -> Lesson \cup {None}] /\ UNCHANGED <<pressed, applied>>
  BY DEF PageKnows, LogType, Unlogged
<1> QED BY <1>1, <1>2, QuietKnows

LEMMA SelectKnows ==
    ASSUME PageInv, PageKnows, NEW x \in Errand, NEW l \in Lesson, SelectLesson(x, l)
    PROVE  PageKnows'
<1>1. PICK await : await = [kind |-> "artifacts", arg |-> l]
  OBVIOUS
<1>2. /\ errands' = [errands EXCEPT ![x] = await] /\ Unlogged
      /\ UNCHANGED <<store, calls, kept, minted, overlapped, page, faults>>
      /\ await.kind \notin {"stop", "evaluate"}
  BY <1>1 DEF SelectLesson, Begin, NoCall, storeVars
<1> QED BY <1>2, ErrandKnows, FaultsNat

LEMMA ScoreKnows ==
    ASSUME PageInv, PageKnows, NEW x \in Errand, ScoreArrived(x)
    PROVE  PageKnows'
<1>1. /\ errands' = [errands EXCEPT ![x] = Free] /\ Unlogged
      /\ UNCHANGED <<store, calls, kept, minted, overlapped, faults>>
      /\ page' = [page EXCEPT !.score = errands[x].arg, !.pin = errands[x].arg]
      /\ page \in Page /\ Free.kind \notin {"stop", "evaluate"}
  BY DEF ScoreArrived, Done, Go, NoCall, storeVars, PageInv, PageType, Free
<1>2. /\ page'.capture = page.capture /\ page'.session = page.session
      /\ page'.terminal = page.terminal /\ page'.locked = page.locked
  BY <1>1 DEF Page
<1> QED BY <1>1, <1>2, ErrandKnows, FaultsNat

LEMMA FailKnows ==
    ASSUME PageInv, PageKnows, NEW x \in Errand, ErrandFails(x)
    PROVE  PageKnows'
<1>1. /\ errands' = [errands EXCEPT ![x] = Free] /\ Unlogged
      /\ UNCHANGED <<store, calls, kept, minted, overlapped>> /\ faults' = faults + 1
      /\ page' = page \/ page' = [page EXCEPT !.pin = page.score]
      /\ page \in Page /\ Free.kind \notin {"stop", "evaluate"}
  BY DEF ErrandFails, Done, Go, PageInv, PageType, Free
<1>2. /\ page'.capture = page.capture /\ page'.session = page.session
      /\ page'.terminal = page.terminal /\ page'.locked = page.locked
  BY <1>1 DEF Page
<1>3. faults' \in Nat /\ faults' # 0
  BY <1>1, FaultsNat
<1> QED BY <1>1, <1>2, <1>3, ErrandKnows

LEMMA UnguidedKnows ==
    ASSUME PageInv, PageKnows, NEW x \in Errand, NEW w \in Slot, NEW action \in Action,
           EvaluateAnswered(x, w, action), NoCall
    PROVE  PageKnows'
<1>1. /\ errands' = [errands EXCEPT ![x] = Free] /\ Unlogged /\ UNCHANGED page
      /\ UNCHANGED <<store, calls, kept, minted, overlapped, faults>>
      /\ Free.kind \notin {"stop", "evaluate"}
  BY DEF EvaluateAnswered, Done, Go, NoCall, storeVars, Free
<1> QED BY <1>1, ErrandKnows, FaultsNat

LEMMA AppliedFacts ==
    ASSUME NEW p \in Page, NEW l
    PROVE  /\ Applied(p, l).capture = p.capture /\ Applied(p, l).session = p.session
           /\ Applied(p, l).terminal = p.terminal /\ Applied(p, l).locked = p.locked
  BY DEF Applied, Page

LEMMA SameLessonKnows ==
    ASSUME PageInv, PageKnows, NEW x \in Errand, NEW w \in Slot, ArtifactsArrived(x, w),
           page' = Applied(page, errands[x].arg), NoCall
    PROVE  PageKnows'
<1>1. PICK await : await = [kind |-> "score", arg |-> errands[x].arg]
  OBVIOUS
<1>2. /\ errands' = [errands EXCEPT ![x] = await] /\ Unlogged
      /\ UNCHANGED <<store, calls, kept, minted, overlapped, faults>>
      /\ await.kind \notin {"stop", "evaluate"}
  <2>1. ASSUME NEW ask, Post(w, ask)
        PROVE  FALSE
    <3>1. PICK c : c = [phase |-> "sent", ask |-> ask, copy |-> None]
      OBVIOUS
    <3>2. calls[w] = Idle /\ calls' = [calls EXCEPT ![w] = c] /\ calls' = calls
      BY <2>1, <3>1 DEF Post, Send, NoCall, storeVars
    <3>3. c = Idle
      BY <3>2 DEF PageInv, CallInv, StoreInv
    <3> QED BY <3>1, <3>3 DEF Idle
  <2> QED BY <1>1, <2>1 DEF ArtifactsArrived, Go, NoCall, storeVars
<1>3. page \in Page
  BY DEF PageInv, PageType
<1> QED BY <1>2, <1>3, AppliedFacts, ErrandKnows, FaultsNat

\* A session that has ended is the page's terminal session; nothing is pending
\* for it, since a request is for an open session or for none.
LEMMA EndedKnows ==
    ASSUME PageInv, PageKnows, ~overlapped, NEW x \in Errand, NEW w \in Slot,
           ArtifactsArrived(x, w),
           page.session # None, page.session.lesson # errands[x].arg,
           page.session.status \in Terminal
    PROVE  PageKnows'
<1> DEFINE s == page.session
           l == errands[x].arg
<1>1. PICK await : await = [kind |-> "score", arg |-> errands[x].arg]
  OBVIOUS
<1>2. /\ errands' = [errands EXCEPT ![x] = await] /\ Unlogged
      /\ UNCHANGED <<store, calls, kept, minted, overlapped, faults>>
      /\ await.kind \notin {"stop", "evaluate"}
      /\ page' = Applied([page EXCEPT !.terminal = s, !.session = None], l)
  BY <1>1 DEF ArtifactsArrived, Go, NoCall, storeVars
<1>3. /\ page'.capture = page.capture /\ page'.session = None
      /\ page'.terminal = s /\ page'.locked = page.locked
  <2>1. page \in Page
    BY DEF PageInv, PageType
  <2>2. PICK p : p = [page EXCEPT !.terminal = s, !.session = None]
    OBVIOUS
  <2>3. /\ p \in Page /\ p.capture = page.capture /\ p.session = None
        /\ p.terminal = s /\ p.locked = page.locked
    BY <2>1, <2>2 DEF Page
  <2> QED BY <1>2, <2>2, <2>3, AppliedFacts
<1>4. \A v \in Slot : calls[v] = Idle
  <2> SUFFICES ASSUME NEW v \in Slot, calls[v] # Idle PROVE FALSE
    OBVIOUS
  <2>1. CallKnown(v)
    BY DEF PageKnows
  <2> QED BY <2>1 DEF CallKnown, Suits
<1>5. Once' /\ \A e \in Evidence : Unheard(e)' => Unheard(e)
  BY <1>2, <1>3, ErrandEnds DEF PageInv, PageKnows, Unlogged
<1>6. LogType' /\ Shown(page.session)' /\ Ahead(page.session)' /\ Told'
  BY <1>2, <1>3 DEF PageKnows, LogType, Shown, Ahead, Told, Truthful, Unlogged
<1>7. \A v \in Slot : CallKnown(v)'
  BY <1>2, <1>4 DEF CallKnown
<1>8. Fresh'
  BY <1>2, <1>3, <1>5 DEF PageKnows, Fresh, Performances, Unlogged
<1>9. Unapplied(page.session)'
  BY <1>3 DEF Unapplied
<1>10. Agree'
  <2> SUFFICES ASSUME faults = 0
               PROVE  Agree'
    BY <1>2 DEF Agree
  <2>1. \A v \in Slot : calls[v].phase \notin {"failed", "ok"}
    BY <1>4 DEF Idle
  <2>2. store[s.id] = s
    BY <2>1 DEF PageKnows, Agree, Granting
  <2>3. \A id \in SessionId : store[id] # None => store[id].status \in Terminal
    BY <2>1, <2>2 DEF PageKnows, Agree, Granting
  <2> QED BY <1>2, <1>3, <2>1, <2>2, <2>3 DEF Agree
<1> QED BY <1>5, <1>6, <1>7, <1>8, <1>9, <1>10 DEF PageKnows

-----------------------------------------------------------------------------
\* A request goes out: it is the only one.

LEMMA OnlyCall ==
    ASSUME PageInv, NEW w \in Slot, NEW ask, Post(w, ask), ~overlapped'
    PROVE  /\ \A v \in Slot : calls[v] = Idle
           /\ calls'[w].phase = "sent" /\ calls'[w].ask = ask
           /\ \A v \in Slot : v # w => calls'[v] = Idle
           /\ kept'[w] = page.session
           /\ minted' = minted \cup {ask.id} /\ UNCHANGED <<store, faults>>
<1>1. /\ \A v \in Slot : calls[v] = Idle
      /\ minted' = minted \cup {ask.id} /\ UNCHANGED <<store, faults>>
  BY DEF Post, Send
<1>2. PICK c : c = [phase |-> "sent", ask |-> ask, copy |-> None]
  OBVIOUS
<1>3. calls' = [calls EXCEPT ![w] = c] /\ c.phase = "sent" /\ c.ask = ask
  BY <1>2 DEF Post, Send
<1>4. calls'[w] = c /\ \A v \in Slot : v # w => calls'[v] = calls[v]
  BY <1>3 DEF PageInv, CallInv, StoreInv
<1>5. kept'[w] = page.session
  BY DEF Post, PageInv, CallInv
<1> QED BY <1>1, <1>3, <1>4, <1>5

LEMMA PostKnows ==
    ASSUME PageInv, PageKnows, ~overlapped', NEW w \in Slot, NEW ask, Post(w, ask),
           page'.session = page.session, page'.terminal = page.terminal,
           page'.locked = page.locked, Once', LogType',
           \A e \in Evidence : Unheard(e)' => Unheard(e) /\ applied'[e] = applied[e],
           \A e \in Evidence : pressed[e] \subseteq pressed'[e],
           \A e \in Evidence : applied[e] = 1 => applied'[e] = 1,
           Suits(ask, page.session)', News(calls[w])',
           ask.kind = "create" => ask.id \in SessionId \ minted,
           Unapplied(page.session)'
    PROVE  PageKnows'
<1>1. /\ \A v \in Slot : calls[v] = Idle
      /\ calls'[w].phase = "sent" /\ calls'[w].ask = ask
      /\ \A v \in Slot : v # w => calls'[v] = Idle
      /\ kept'[w] = page.session
      /\ minted' = minted \cup {ask.id} /\ UNCHANGED <<store, faults>>
  BY OnlyCall
<1>2. Shown(page.session)' /\ Ahead(page.session)'
  BY <1>1 DEF PageKnows, Shown, Ahead
<1>3. Fresh'
  BY <1>1 DEF PageKnows, Fresh
<1>4. Told'
  <2> SUFFICES ASSUME NEW id \in SessionId, store[id] # None,
                      NEW i \in 1 .. Len(store[id].attempts)
               PROVE  Truthful(store[id].attempts[i])'
    BY <1>1 DEF Told
  <2>1. PICK a : a = store[id].attempts[i]
    OBVIOUS
  <2>2. a.evidence \in Evidence
    BY <2>1, Stored, SessionAttempts
  <2>3. Truthful(a)
    BY <2>1 DEF PageKnows, Told
  <2>4. Truthful(a)'
    BY <2>2, <2>3 DEF Truthful
  <2> QED BY <1>1, <2>1, <2>4 DEF Truthful
<1>5. Agree'
  BY <1>1 DEF PageKnows, Agree, Granting, Idle
<1>6. ASSUME NEW v \in Slot
      PROVE  CallKnown(v)'
  <2>1. CASE v # w
    BY <1>1, <2>1 DEF CallKnown
  <2>2. CASE v = w
    <3>1. Granted(calls[w])'
      BY <1>1 DEF Granted
    <3>2. ask.kind = "create" => store[ask.id] = None
      BY DEF PageKnows, Fresh
    <3>3. Suits(calls[w].ask, kept[w])'
      BY <1>1 DEF Suits
    <3> QED BY <1>1, <2>2, <3>1, <3>2, <3>3 DEF CallKnown
  <2> QED BY <2>1, <2>2
<1> QED BY <1>2, <1>3, <1>4, <1>5, <1>6 DEF PageKnows

\* Nothing was being reported before, so what was known of the page's action then
\* is known still.
LEMMA StillUnapplied ==
    ASSUME PageInv, PageKnows, \A v \in Slot : calls[v] = Idle,
           page'.session = page.session, page'.locked = page.locked, UNCHANGED applied
    PROVE  Unapplied(page.session)'
  BY DEF PageKnows, Unapplied, Reporting, AttemptKey

LEMMA PageSession ==
    ASSUME PageInv, page.session # None
    PROVE  page.session \in Session
  BY DEF PageInv, PageType, Page

LEMMA CreateSent ==
    ASSUME PageInv, PageKnows, ~overlapped', NEW x \in Errand, NEW w \in Slot,
           NEW ev \in Evaluation, NEW id \in SessionId \ minted,
           errands[x].kind = "evaluate", errands[x].arg = ev.evidence,
           page.session = None, NEW ask, ask = [kind |-> "create", id |-> id, arg |-> ev],
           Post(w, ask), Done(x), Unlogged, UNCHANGED page
    PROVE  PageKnows'
<1> DEFINE e == ev.evidence
<1>1. e \in Evidence /\ Unheard(e) /\ InErrand(x, e)
  BY DEF Evaluation, Unheard, InErrand
<1>2. /\ Once' /\ \A f \in Evidence : Unheard(f)' => Unheard(f)
      /\ ~Unheard(e)'
  BY <1>1, ErrandEnds DEF PageInv, PageKnows, Unlogged, Done, Go, Free
<1>3. /\ \A v \in Slot : calls[v] = Idle
      /\ calls'[w].phase = "sent" /\ calls'[w].ask = ask
      /\ UNCHANGED <<store, faults>>
  BY OnlyCall
<1>4. LogType' /\ UNCHANGED <<pressed, applied, page>>
  BY <1>3 DEF PageKnows, LogType, Unlogged
<1>5. applied[e] = 0 /\ \A i \in SessionId : e \notin Performances(store[i])
  BY <1>1 DEF PageKnows, Fresh
<1>6. e \notin Performances(page.session)
  BY <1>1 DEF PageKnows, Fresh
<1>7. News(calls[w])'
  BY <1>2, <1>3, <1>4, <1>5, <1>6 DEF News
<1>8. Suits(ask, page.session)'
  BY <1>4 DEF Suits
<1>9. Unapplied(page.session)'
  BY <1>3, <1>4, StillUnapplied
<1> QED BY <1>2, <1>4, <1>7, <1>8, <1>9, PostKnows

LEMMA AppendSent ==
    ASSUME PageInv, PageKnows, ~overlapped', NEW x \in Errand, NEW w \in Slot,
           NEW ev \in Evaluation, errands[x].kind = "evaluate", errands[x].arg = ev.evidence,
           page.session # None, ~PinMismatch(page.session, ev),
           page.session.status = "AWAITING_ATTEMPT",
           NEW ask, ask = [kind |-> "append", id |-> page.session.id, arg |-> ev],
           Post(w, ask), Done(x), Unlogged, UNCHANGED page
    PROVE  PageKnows'
<1> DEFINE e == ev.evidence
<1>1. e \in Evidence /\ Unheard(e) /\ InErrand(x, e)
  BY DEF Evaluation, Unheard, InErrand
<1>2. /\ Once' /\ \A f \in Evidence : Unheard(f)' => Unheard(f)
      /\ ~Unheard(e)'
  BY <1>1, ErrandEnds DEF PageInv, PageKnows, Unlogged, Done, Go, Free
<1>3. /\ \A v \in Slot : calls[v] = Idle
      /\ calls'[w].phase = "sent" /\ calls'[w].ask = ask
      /\ UNCHANGED <<store, faults>>
  BY OnlyCall
<1>4. LogType' /\ UNCHANGED <<pressed, applied, page>>
  BY <1>3 DEF PageKnows, LogType, Unlogged
<1>5. applied[e] = 0 /\ \A i \in SessionId : e \notin Performances(store[i])
  BY <1>1 DEF PageKnows, Fresh
<1>6. e \notin Performances(page.session)
  BY <1>1 DEF PageKnows, Fresh
<1>7. News(calls[w])'
  BY <1>2, <1>3, <1>4, <1>5, <1>6 DEF News
<1>8. Suits(ask, page.session)'
  BY <1>4, PageSession DEF Suits, Terminal, PinMismatch
<1>9. Unapplied(page.session)'
  BY <1>3, <1>4, StillUnapplied
<1> QED BY <1>2, <1>4, <1>7, <1>8, <1>9, PostKnows

LEMMA EvaluateKnows ==
    ASSUME PageInv, PageKnows, ~overlapped', NEW x \in Errand, NEW w \in Slot,
           NEW action \in Action, EvaluateAnswered(x, w, action)
    PROVE  PageKnows'
<1>1. CASE NoCall
  BY <1>1, UnguidedKnows
<1>2. CASE ~NoCall
  <2>1. PICK ev : ev = [evidence |-> errands[x].arg, lesson |-> errands[x].lesson,
                        revision |-> errands[x].revision, action |-> action]
    OBVIOUS
  <2>2. /\ errands[x].kind = "evaluate" /\ errands[x].revision # None
        /\ Sync(w, ev) /\ Done(x) /\ Unlogged /\ UNCHANGED page
    BY <1>2, <2>1 DEF EvaluateAnswered
  <2>3. /\ errands[x].arg \in Evidence /\ errands[x].lesson \in Lesson
        /\ errands[x].revision \in Lesson
    BY <2>2 DEF PageInv, PageType, Await, Free
  <2>4. ev \in Evaluation /\ errands[x].arg = ev.evidence
    BY <2>1, <2>3 DEF Evaluation
  <2>5. CASE page.session = None
    <3>1. PICK id \in SessionId \ minted : \E ask :
             ask = [kind |-> "create", id |-> id, arg |-> ev] /\ Post(w, ask)
      BY <1>2, <2>2, <2>5 DEF Sync
    <3> QED BY <2>2, <2>4, <2>5, <3>1, CreateSent
  <2>6. CASE page.session # None
    <3>1. PICK ask : ask = [kind |-> "append", id |-> page.session.id, arg |-> ev]
      OBVIOUS
    <3>2. /\ ~PinMismatch(page.session, ev) /\ page.session.status = "AWAITING_ATTEMPT"
          /\ Post(w, ask)
      BY <1>2, <2>2, <2>6, <3>1 DEF Sync
    <3> QED BY <2>2, <2>4, <2>6, <3>1, <3>2, AppendSent
  <2> QED BY <2>5, <2>6
<1> QED BY <1>1, <1>2

LEMMA TransitionSent ==
    ASSUME PageInv, PageKnows, ~overlapped', NEW x \in Errand, NEW w \in Slot,
           ArtifactsArrived(x, w), page.session # None,
           page.session.lesson # errands[x].arg, page.session.status \notin Terminal
    PROVE  PageKnows'
<1>1. PICK ask : ask = [kind |-> "transition", id |-> page.session.id, arg |-> errands[x].arg]
  OBVIOUS
<1>2. PICK await : await = [kind |-> "transition", arg |-> errands[x].arg, slot |-> w]
  OBVIOUS
<1>3. /\ Post(w, ask) /\ UNCHANGED page /\ Unlogged
      /\ errands' = [errands EXCEPT ![x] = await]
      /\ await.kind \notin {"stop", "evaluate"}
  BY <1>1, <1>2 DEF ArtifactsArrived, Go
<1>4. /\ \A v \in Slot : calls[v] = Idle
      /\ calls'[w].phase = "sent" /\ calls'[w].ask = ask
      /\ UNCHANGED <<store, faults>>
  BY <1>3, OnlyCall
<1>5. Once' /\ \A f \in Evidence : Unheard(f)' => Unheard(f)
  BY <1>3, ErrandEnds DEF PageInv, PageKnows, Unlogged
<1>6. LogType' /\ UNCHANGED <<pressed, applied, page>>
  BY <1>3, <1>4 DEF PageKnows, LogType, Unlogged
<1>7. News(calls[w])' /\ ask.kind # "create"
  BY <1>1, <1>4 DEF News, Brings
<1>8. Suits(ask, page.session)'
  BY <1>1, <1>6, PageSession DEF Suits
<1>9. Unapplied(page.session)'
  BY <1>4, <1>6, StillUnapplied
<1> QED BY <1>3, <1>5, <1>6, <1>7, <1>8, <1>9, PostKnows

LEMMA ArtifactsKnow ==
    ASSUME PageInv, PageKnows, ~overlapped, ~overlapped', NEW x \in Errand, NEW w \in Slot,
           ArtifactsArrived(x, w)
    PROVE  PageKnows'
<1>1. CASE page.session # None => page.session.lesson = errands[x].arg
  <2>1. page' = Applied(page, errands[x].arg) /\ NoCall
    BY <1>1 DEF ArtifactsArrived
  <2> QED BY <2>1, SameLessonKnows
<1>2. CASE page.session # None /\ page.session.lesson # errands[x].arg
  BY <1>2, TransitionSent, EndedKnows
<1> QED BY <1>1, <1>2

\* The performance of a page's session has been heard of.
LEMMA CurrentHeard ==
    ASSUME PageInv, PageKnows, page.session # None
    PROVE  /\ page.session \in Session /\ Lawful(page.session)
           /\ Current(page.session) \in Attempt
           /\ Current(page.session).evidence \in Evidence
           /\ ~Unheard(Current(page.session).evidence)
<1>1. page.session \in Session /\ Lawful(page.session)
  BY DEF PageKnows, Shown
<1>2. PICK n : n = Len(page.session.attempts)
  OBVIOUS
<1>3. n \in 1 .. Len(page.session.attempts)
  BY <1>1, <1>2 DEF Session, Lawful
<1>4. Current(page.session) = page.session.attempts[n]
  BY <1>2 DEF Current
<1>5. page.session.attempts[n] \in Attempt /\ page.session.attempts[n].evidence \in Evidence
  BY <1>1, <1>3, SessionAttempts
<1>6. page.session.attempts[n].evidence \in Performances(page.session)
  BY <1>3, PerformanceIsIn
<1>7. ~Unheard(page.session.attempts[n].evidence)
  BY <1>5, <1>6 DEF PageKnows, Fresh
<1> QED BY <1>1, <1>4, <1>5, <1>7

LEMMA DispositionSent ==
    ASSUME PageInv, PageKnows, ~overlapped', NEW w \in Slot,
           NEW answer \in {"ACCEPTED", "DECLINED"}, PressDisposition(w, answer)
    PROVE  PageKnows'
<1>1. /\ Active = page.session /\ page.session # None /\ CanRecordDisposition(page.session)
  BY ActiveSession DEF PressDisposition, CanRecordDisposition, PageInv
<1>2. PICK ask : ask = [kind |-> "disposition", id |-> page.session.id, arg |-> answer]
  OBVIOUS
<1>3. PICK e : e = Current(page.session).evidence
  OBVIOUS
<1>4. e \in Evidence /\ page.session \in Session
  BY <1>1, <1>3, CurrentHeard
<1>5. /\ Post(w, ask) /\ UNCHANGED <<page, errands, started, applied>>
      /\ pressed' = [pressed EXCEPT ![e] = @ \cup {answer}]
  BY <1>1, <1>2, <1>3 DEF PressDisposition
<1>6. /\ \A v \in Slot : calls[v] = Idle
      /\ calls'[w].phase = "sent" /\ calls'[w].ask = ask
      /\ UNCHANGED <<store, faults>>
  BY <1>5, OnlyCall
<1>7. Once' /\ \A f \in Evidence : Unheard(f)' => Unheard(f)
  BY <1>5 DEF PageKnows, Once, Unheard, InErrand
<1>8. /\ pressed' \in [Evidence -> SUBSET {"ACCEPTED", "DECLINED"}]
      /\ answer \in pressed'[e] /\ \A f \in Evidence : pressed[f] \subseteq pressed'[f]
  BY <1>4, <1>5 DEF PageKnows, LogType
<1>9. LogType'
  BY <1>5, <1>6, <1>8 DEF PageKnows, LogType
<1>10. News(calls[w])' /\ ask.kind # "create"
  BY <1>2, <1>6 DEF News, Brings
<1>11. Suits(ask, page.session)'
  BY <1>1, <1>2, <1>3, <1>4, <1>5, <1>8 DEF Suits, CanRecordDisposition, Terminal
<1>12. Unapplied(page.session)'
  BY <1>5, <1>6, StillUnapplied
<1> QED BY <1>5, <1>7, <1>8, <1>9, <1>10, <1>11, <1>12, PostKnows

\* Only a session that awaits an action has one to apply.
LEMMA ApplyFacts ==
    ASSUME NEW s \in Session, Lawful(s), CanApply(s)
    PROVE  /\ ~Resolved(Current(s))
           /\ s.status \notin Terminal => s.status = "AWAITING_ACTION"
<1>1. ~Resolved(Current(s))
  BY DEF CanApply, Resolved, Recorded
<1>2. s.status \in Open \cup Terminal
  BY DEF Session
<1> QED BY <1>1, <1>2 DEF Lawful, Open

LEMMA ExecutionSent ==
    ASSUME PageInv, PageKnows, ~overlapped', NEW w \in Slot,
           NEW outcome \in Recorded, PressApply(w, outcome)
    PROVE  PageKnows'
<1> DEFINE s == page.session
<1>1. Active = s /\ s # None /\ CanApply(s) /\ AttemptKey(s) \notin page.locked
      /\ outcome \in Outcomes(Current(s).action)
  BY ActiveSession DEF PressApply, CanApply, PageInv
<1>2. PICK ask : ask = [kind |-> "execution", id |-> s.id, arg |-> outcome]
  OBVIOUS
<1>3. PICK e : e = Current(s).evidence
  OBVIOUS
<1>4. e \in Evidence /\ ~Unheard(e) /\ s \in Session /\ Lawful(s)
  BY <1>1, <1>3, CurrentHeard
<1>5. /\ Post(w, ask) /\ UNCHANGED <<errands, started, pressed>>
      /\ page' = [page EXCEPT !.applying = TRUE]
      /\ IF outcome = "SUCCEEDED"
         THEN applied' = [applied EXCEPT ![e] = IF @ = 0 THEN 1 ELSE 2]
         ELSE applied' = applied
  BY <1>1, <1>2, <1>3 DEF PressApply
<1>6. /\ page'.capture = page.capture /\ page'.session = s
      /\ page'.terminal = page.terminal /\ page'.locked = page.locked
  BY <1>5 DEF PageInv, PageType, Page
<1>7. /\ \A v \in Slot : calls[v] = Idle
      /\ calls'[w].phase = "sent" /\ calls'[w].ask = ask
      /\ UNCHANGED <<store, faults>>
  BY <1>5, OnlyCall
<1>8. ~Resolved(Current(s))
  BY <1>1, <1>4, ApplyFacts
<1>9. s.status \notin Terminal
  <2>1. s.status # "TRANSITIONED"
    BY <1>1 DEF PageKnows, Shown
  <2>2. s.status # "CLOSED"
    BY <1>4, <1>8 DEF Lawful
  <2> QED BY <2>1, <2>2 DEF Terminal
<1>10. applied[e] = 0
  <2>1. \A v \in Slot : ~Reporting(v)
    BY <1>7 DEF Reporting
  <2> QED BY <1>1, <1>3, <1>8, <2>1 DEF PageKnows, Unapplied
<1>11. /\ applied' \in [Evidence -> {0, 1}]
       /\ outcome = "SUCCEEDED" => applied'[e] = 1
       /\ outcome # "SUCCEEDED" => applied'[e] = 0
       /\ \A f \in Evidence : f # e => applied'[f] = applied[f]
  BY <1>4, <1>5, <1>10 DEF PageKnows, LogType
<1>12. Once' /\ \A f \in Evidence : Unheard(f)' => Unheard(f)
  BY <1>5, <1>6 DEF PageKnows, Once, Unheard, InErrand
<1>13. LogType'
  BY <1>5, <1>7, <1>11 DEF PageKnows, LogType
<1>14. News(calls[w])' /\ ask.kind # "create"
  BY <1>2, <1>7 DEF News, Brings
<1>15. Suits(ask, page.session)'
  BY <1>1, <1>2, <1>3, <1>4, <1>6, <1>9, <1>11 DEF Suits
<1>16. Unapplied(page.session)'
  <2>1. CASE outcome = "SUCCEEDED"
    BY <1>2, <1>7, <2>1 DEF Unapplied, Reporting, Idle
  <2>2. CASE outcome # "SUCCEEDED"
    BY <1>3, <1>6, <1>11, <2>2 DEF Unapplied
  <2> QED BY <2>1, <2>2
<1>17. /\ \A f \in Evidence : Unheard(f)' => Unheard(f) /\ applied'[f] = applied[f]
       /\ \A f \in Evidence : applied[f] = 1 => applied'[f] = 1
  BY <1>4, <1>10, <1>11, <1>12
<1> QED BY <1>5, <1>6, <1>12, <1>13, <1>14, <1>15, <1>16, <1>17, PostKnows

-----------------------------------------------------------------------------
\* The server.

\* The request of w moves on, and the store does not change.
LEMMA PhaseKnows ==
    ASSUME PageInv, PageKnows, NEW w \in Slot, calls[w] # Idle,
           UNCHANGED <<store, pageVars>>,
           calls'[w] # Idle, calls'[w].ask = calls[w].ask,
           \A v \in Slot : v # w => calls'[v] = calls[v],
           calls'[w].phase # "ok",
           Unserved(calls'[w]) => Unserved(calls[w]),
           faults' \in Nat,
           faults' = 0 => /\ faults = 0 /\ calls[w].phase # "ok"
                          /\ calls'[w].phase # "failed"
    PROVE  PageKnows'
<1>1. /\ UNCHANGED <<page, errands, kept, minted, started, pressed, applied, overlapped>>
      /\ UNCHANGED store
  BY DEF pageVars
<1>2. Once' /\ LogType' /\ Shown(page.session)' /\ Ahead(page.session)'
  BY <1>1 DEF PageKnows, Once, InErrand, LogType, Shown, Ahead
<1>3. Fresh' /\ Told'
  BY <1>1 DEF PageKnows, Fresh, Unheard, InErrand, Told, Truthful
<1>4. \A v \in Slot : Reporting(v)' <=> Reporting(v)
  BY <1>1 DEF Reporting
<1>5. Unapplied(page.session)'
  BY <1>1, <1>4 DEF PageKnows, Unapplied, AttemptKey
<1>6. Agree'
  BY <1>1 DEF PageKnows, Agree, Granting
<1>7. ASSUME NEW v \in Slot
      PROVE  CallKnown(v)'
  <2>1. CASE v # w
    BY <1>1, <2>1 DEF PageKnows, CallKnown, Suits, News, Unheard, InErrand, Granted
  <2>2. CASE v = w
    <3>0. CallKnown(w)
      BY DEF PageKnows
    <3>1. Suits(calls[w].ask, kept[w])'
      BY <1>1, <3>0 DEF CallKnown, Suits
    <3>2. News(calls[w])'
      BY <1>1, <3>0 DEF CallKnown, News, Unheard, InErrand
    <3>3. Granted(calls[w])'
      BY DEF Granted
    <3> QED BY <1>1, <2>2, <3>0, <3>1, <3>2, <3>3 DEF CallKnown
  <2> QED BY <2>1, <2>2
<1> QED BY <1>2, <1>3, <1>5, <1>6, <1>7 DEF PageKnows

\* A request that is being served.
LEMMA ServedFacts ==
    ASSUME PageInv, NEW w \in Slot, calls[w].phase \in {"sent", "read", "ok", "failed"}
    PROVE  /\ calls[w] # Idle /\ calls[w] \in Call
           /\ calls[w].ask \in Ask /\ calls[w].ask.id \in SessionId
           /\ Fit(calls[w].copy, calls[w].ask.id)
<1>1. calls[w] # Idle
  BY DEF Idle
<1> QED BY <1>1, Serving DEF PageInv, CallInv

LEMMA ReadKnows ==
    ASSUME PageInv, PageKnows, NEW w \in Slot, Read(w), UNCHANGED pageVars
    PROVE  PageKnows'
<1>1. calls[w].phase = "sent" /\ UNCHANGED <<store, faults>>
      /\ calls' = [calls EXCEPT ![w] = [@ EXCEPT !.phase = "read",
                                                 !.copy = store[calls[w].ask.id]]]
  BY DEF Read
<1>2. calls[w] # Idle /\ calls[w] \in Call
  BY <1>1, ServedFacts
<1>3. /\ calls'[w].phase = "read" /\ calls'[w].ask = calls[w].ask
      /\ \A v \in Slot : v # w => calls'[v] = calls[v]
  BY <1>1, <1>2 DEF PageInv, CallInv, StoreInv, Call
<1>4. calls'[w] # Idle
  BY <1>3 DEF Idle
<1>5. Unserved(calls[w]) /\ calls[w].phase # "ok"
      /\ calls'[w].phase # "ok" /\ calls'[w].phase # "failed"
  BY <1>1, <1>3 DEF Unserved
<1>6. faults' = 0 => faults = 0 /\ calls[w].phase # "ok" /\ calls'[w].phase # "failed"
  BY <1>1, <1>5
<1> QED BY <1>1, <1>2, <1>3, <1>4, <1>5, <1>6, PhaseKnows, FaultsNat

LEMMA LoseKnows ==
    ASSUME PageInv, PageKnows, NEW w \in Slot, Lose(w), UNCHANGED pageVars
    PROVE  PageKnows'
<1>1. calls[w].phase \in {"sent", "ok"} /\ UNCHANGED store /\ faults' = faults + 1
      /\ calls' = [calls EXCEPT ![w].phase = "failed"]
  BY DEF Lose
<1>2. calls[w] # Idle /\ calls[w] \in Call
  BY <1>1, ServedFacts
<1>3. /\ calls'[w].phase = "failed" /\ calls'[w].ask = calls[w].ask
      /\ \A v \in Slot : v # w => calls'[v] = calls[v]
  BY <1>1, <1>2 DEF PageInv, CallInv, StoreInv, Call
<1>4. calls'[w] # Idle /\ ~Unserved(calls'[w]) /\ faults' \in Nat /\ faults' # 0
  BY <1>1, <1>3, FaultsNat DEF Idle, Unserved
<1> QED BY <1>1, <1>2, <1>3, <1>4, PhaseKnows

\* Where no request has failed, none is refused: what the page sends suits the
\* session it has, and that is the one stored.
LEMMA NoneRefused ==
    ASSUME PageInv, PageKnows, ~overlapped, NEW w \in Slot, calls[w].phase = "read",
           faults = 0
    PROVE  May(calls[w].ask, calls[w].copy)
<1> DEFINE ask == calls[w].ask
           p == page.session
<1>1. calls[w] # Idle /\ ask \in Ask /\ ask.id \in SessionId
  BY ServedFacts
<1>2. calls[w].copy = store[ask.id] /\ \A v \in Slot : v # w => calls[v] = Idle
  BY <1>1 DEF PageInv, CallInv, Single
<1>3. p = kept[w] /\ Suits(ask, p) /\ News(calls[w])
      /\ (ask.kind = "create" => store[ask.id] = None)
  BY <1>1 DEF PageKnows, CallKnown, Unserved
<1>4. CASE ask.kind = "create"
  BY <1>2, <1>3, <1>4 DEF May
<1>5. CASE ask.kind # "create"
  <2>1. p \in Session /\ ask.id = p.id /\ p.status \notin Terminal
    BY <1>3, <1>5 DEF Suits
  <2>2. p # None /\ Lawful(p)
    BY <1>3, <1>5 DEF PageKnows, Shown, Suits
  <2>3. \A v \in Slot : ~Granting(v)
    BY <1>2 DEF Granting, Idle
  <2>4. calls[w].copy = p
    BY <1>2, <2>1, <2>2, <2>3 DEF PageKnows, Agree
  <2>5. p.status \in Open
    BY <2>1 DEF Session
  <2>6. CASE ask.kind = "append"
    <3>1. ask.arg.evidence \notin Performances(p)
      BY <1>3, <2>6 DEF News, Brings
    <3>2. \A i \in 1 .. Len(p.attempts) : p.attempts[i].evidence # ask.arg.evidence
      BY <2>2, <3>1 DEF Performances
    <3>3. p.status = "AWAITING_ATTEMPT" /\ ~PinMismatch(p, ask.arg)
      BY <1>3, <2>6 DEF Suits
    <3> QED BY <2>2, <2>4, <2>6, <3>2, <3>3 DEF May, MayAppend, PinMismatch
  <2>7. CASE ask.kind = "disposition"
    BY <1>3, <2>2, <2>4, <2>7 DEF Suits, CanRecordDisposition, May, MayDispose
  <2>8. CASE ask.kind = "execution"
    <3>1. CanApply(p) /\ ask.arg \in Outcomes(Current(p).action)
      BY <1>3, <2>8 DEF Suits
    <3>2. p.status = "AWAITING_ACTION"
      BY <2>1, <2>2, <3>1, ApplyFacts
    <3>3. /\ ask.arg = "SUCCEEDED" => Current(p).action \notin Unsupported
          /\ ask.arg = "UNSUPPORTED" => Current(p).action \in Unsupported
      BY <3>1 DEF Outcomes, Unsupported
    <3>4. MayExecute(p, ask.arg)
      BY <3>1, <3>2, <3>3 DEF MayExecute, CanApply
    <3> QED BY <2>2, <2>4, <2>8, <3>4 DEF May
  <2>9. CASE ask.kind = "transition"
    <3>1. MayTransition(p, ask.arg)
      BY <1>3, <2>5, <2>9 DEF Suits, MayTransition
    <3> QED BY <2>2, <2>4, <2>9, <3>1 DEF May
  <2> QED BY <1>1, <1>5, <2>6, <2>7, <2>8, <2>9 DEF Ask
<1> QED BY <1>4, <1>5

LEMMA RefusedKnows ==
    ASSUME PageInv, PageKnows, ~overlapped, NEW w \in Slot, calls[w].phase = "read",
           ~May(calls[w].ask, calls[w].copy), Write(w), UNCHANGED pageVars
    PROVE  PageKnows'
<1>1. UNCHANGED <<store, faults>> /\ calls' = [calls EXCEPT ![w].phase = "failed"]
  BY DEF Write
<1>2. calls[w] # Idle /\ calls[w] \in Call
  BY ServedFacts
<1>3. /\ calls'[w].phase = "failed" /\ calls'[w].ask = calls[w].ask
      /\ \A v \in Slot : v # w => calls'[v] = calls[v]
  BY <1>1, <1>2 DEF PageInv, CallInv, StoreInv, Call
<1>4. calls'[w] # Idle /\ ~Unserved(calls'[w])
  BY <1>3 DEF Idle, Unserved
<1>5. faults # 0
  BY NoneRefused
<1>6. /\ calls'[w].phase # "ok"
      /\ faults' = 0 => faults = 0 /\ calls[w].phase # "ok" /\ calls'[w].phase # "failed"
  BY <1>1, <1>3, <1>5
<1> QED BY <1>1, <1>2, <1>3, <1>4, <1>6, PhaseKnows, FaultsNat

LEMMA CreatedFacts ==
    ASSUME NEW id, NEW ev
    PROVE  LET u == Created(id, ev)
           IN /\ Len(u.attempts) = 1 /\ u.attempts[1] = NewAttempt(ev)
              /\ Current(u) = NewAttempt(ev) /\ u.status = "AWAITING_ACTION"
  BY DEF Created, Current

LEMMA NewFacts ==
    ASSUME NEW ev
    PROVE  /\ NewAttempt(ev).evidence = ev.evidence
           /\ NewAttempt(ev).disposition = "PENDING"
           /\ NewAttempt(ev).execution = "NOT_REQUESTED"
  BY DEF NewAttempt

\* What a granted request writes: the session it makes of the stored one.
LEMMA WrittenFacts ==
    ASSUME PageInv, ~overlapped, NEW w \in Slot, Write(w), UNCHANGED pageVars,
           May(calls[w].ask, calls[w].copy),
           NEW ask, ask = calls[w].ask, NEW t, t = calls[w].copy, NEW r, r = Result(ask, t)
    PROVE  /\ calls[w].phase = "read" /\ calls[w] # Idle
           /\ ask \in Ask /\ ask.id \in SessionId
           /\ t = store[ask.id] /\ (t # None => t \in Session /\ Lawful(t) /\ t.id = ask.id)
           /\ \A v \in Slot : v # w => calls[v] = Idle /\ calls'[v] = Idle
           /\ r \in Session /\ r.id = ask.id /\ Lawful(r) /\ (t # None => Continues(t, r))
           /\ store'[ask.id] = r
           /\ \A id \in SessionId : id # ask.id => store'[id] = store[id]
           /\ calls'[w].phase = "ok" /\ calls'[w].ask = ask /\ calls'[w].copy = r
           /\ UNCHANGED faults
<1>1. calls[w].phase = "read" /\ UNCHANGED faults
      /\ store' = [store EXCEPT ![ask.id] = r]
      /\ calls' = [calls EXCEPT ![w] = [@ EXCEPT !.phase = "ok", !.copy = r]]
  BY DEF Write
<1>2. calls[w] # Idle /\ calls[w] \in Call /\ ask \in Ask /\ ask.id \in SessionId
      /\ Fit(t, ask.id)
  BY <1>1, ServedFacts
<1>3. t = store[ask.id] /\ \A v \in Slot : v # w => calls[v] = Idle
  BY <1>1, <1>2 DEF PageInv, CallInv, Single
<1>4. r \in Session /\ r.id = ask.id /\ Lawful(r) /\ (t # None => Continues(t, r))
  BY <1>2, OperationsContinue DEF Fit
<1>5. /\ store'[ask.id] = r
      /\ \A id \in SessionId : id # ask.id => store'[id] = store[id]
      /\ calls'[w].phase = "ok" /\ calls'[w].ask = ask /\ calls'[w].copy = r
      /\ \A v \in Slot : v # w => calls'[v] = calls[v]
  BY <1>1, <1>2 DEF PageInv, CallInv, StoreInv, Call
<1> QED BY <1>1, <1>2, <1>3, <1>4, <1>5 DEF Fit

\* The attempts of what is written are those that were stored, but the last one
\* as the request has changed it, or a new one.
LEMMA WrittenAttempts ==
    ASSUME NEW ask \in Ask, NEW t, t # None => t \in Session /\ Lawful(t), May(ask, t),
           NEW r, r = Result(ask, t)
    PROVE  /\ r.status = "TRANSITIONED" <=> ask.kind = "transition"
           /\ Brings(ask) => Current(r).evidence = ask.arg.evidence
           /\ ask.kind = "execution" => Resolved(Current(r))
           /\ \A e \in Performances(r) :
                 e \in Performances(t) \/ (Brings(ask) /\ e = ask.arg.evidence)
<1>1. CASE ask.kind = "create"
  <2>1. r = Created(ask.id, ask.arg)
    BY <1>1 DEF Result
  <2>2. /\ Len(r.attempts) = 1 /\ r.attempts[1] = NewAttempt(ask.arg)
        /\ Current(r) = NewAttempt(ask.arg) /\ r.status = "AWAITING_ACTION"
    BY <2>1, CreatedFacts
  <2>3. Current(r).evidence = ask.arg.evidence
    BY <2>2, NewFacts
  <2>4. \A e \in Performances(r) : e = ask.arg.evidence
    BY <2>2, NewFacts DEF Performances
  <2> QED BY <1>1, <2>2, <2>3, <2>4 DEF Brings
<1>2. CASE ask.kind # "create"
  <2>1. t # None /\ t \in Session /\ Lawful(t)
    BY <1>2 DEF May
  <2>2. PICK n : n = Len(t.attempts)
    OBVIOUS
  <2>3. n \in Nat /\ n > 0
    BY <2>1, <2>2 DEF Lawful, Session
  <2>4. r.status = "TRANSITIONED" <=> ask.kind = "transition"
    BY <2>1, ResultAttempts
  <2>5. ask.kind = "execution" => Resolved(Current(r))
    BY <2>1, ResultAttempts
  <2>6. CASE ask.kind = "append"
    <3>1. /\ Len(r.attempts) = n + 1 /\ r.attempts[n + 1] = NewAttempt(ask.arg)
          /\ Current(r) = NewAttempt(ask.arg)
          /\ \A i \in 1 .. n : r.attempts[i] = t.attempts[i]
      BY <2>1, <2>2, <2>6, ResultAttempts
    <3>2. Current(r).evidence = ask.arg.evidence
      BY <3>1, NewFacts
    <3>3. ASSUME NEW e \in Performances(r)
          PROVE  e \in Performances(t) \/ e = ask.arg.evidence
      <4>1. PICK i \in 1 .. n + 1 : r.attempts[i].evidence = e
        BY <3>1, <3>3, PerformanceIsIn
      <4>2. CASE i = n + 1
        BY <3>1, <4>1, <4>2, NewFacts
      <4>3. CASE i # n + 1
        <5>1. i \in 1 .. n
          BY <2>3, <4>3
        <5> QED BY <2>1, <2>2, <3>1, <4>1, <5>1, PerformanceIsIn
      <4> QED BY <4>2, <4>3
    <3> QED BY <2>4, <2>5, <2>6, <3>2, <3>3 DEF Brings
  <2>7. CASE ask.kind # "append"
    <3>1. /\ Len(r.attempts) = n
          /\ \A i \in 1 .. n : r.attempts[i].evidence = t.attempts[i].evidence
      BY <2>1, <2>2, <2>7, ResultAttempts
    <3>2. \A e \in Performances(r) : e \in Performances(t)
      BY <2>1, <2>2, <3>1, PerformanceIsIn
    <3> QED BY <1>2, <2>4, <2>5, <2>7, <3>2 DEF Brings
  <2> QED BY <2>6, <2>7
<1> QED BY <1>1, <1>2

\* The session a request was sent for and the one it meets: the stored one may
\* be ahead, but by an attempt only where it was waited for.
LEMMA MetFacts ==
    ASSUME PageInv, PageKnows, NEW w \in Slot, calls[w] # Idle,
           NEW ask, ask = calls[w].ask, ask \in Ask, NEW t, t = store[ask.id], t # None,
           ask.kind # "create", t \in Session
    PROVE  /\ page.session # None /\ page.session \in Session /\ Lawful(page.session)
           /\ ask.id = page.session.id /\ Continues(page.session, t)
           /\ Suits(ask, page.session)
           /\ page.session.status # "AWAITING_ATTEMPT" =>
                 /\ Len(t.attempts) = Len(page.session.attempts)
                 /\ Current(t).evidence = Current(page.session).evidence
                 /\ Current(t).action = Current(page.session).action
<1>1. page.session = kept[w] /\ Suits(ask, page.session)
  BY DEF PageKnows, CallKnown
<1>2. /\ page.session # None /\ page.session \in Session /\ ask.id = page.session.id
  BY <1>1 DEF Suits
<1>3. Lawful(page.session)
  BY <1>2 DEF PageKnows, Shown
<1>4. /\ Continues(page.session, t)
      /\ page.session.status # "AWAITING_ATTEMPT" =>
            Len(t.attempts) = Len(page.session.attempts)
  BY <1>2 DEF PageKnows, Ahead
<1> QED BY <1>1, <1>2, <1>3, <1>4, SamePlace

LEMMA CurrentIn ==
    ASSUME NEW s \in Session, Lawful(s)
    PROVE  /\ Len(s.attempts) \in Nat /\ Len(s.attempts) \in 1 .. Len(s.attempts)
           /\ Current(s) = s.attempts[Len(s.attempts)]
  BY DEF Session, Lawful, Current

\* An attempt that is written was stored, or is new, or is the last one with the
\* learner's answer or with what became of the action.
Wrote(ask, t, a) ==
    \/ t # None /\ \E j \in 1 .. Len(t.attempts) : a = t.attempts[j]
    \/ a = NewAttempt(ask.arg)
    \/ /\ ask.kind = "disposition" /\ t # None
       /\ a.evidence = Current(t).evidence /\ a.disposition = ask.arg
       /\ a.execution # "SUCCEEDED"
    \/ /\ ask.kind = "execution" /\ t # None
       /\ a.evidence = Current(t).evidence /\ a.execution = ask.arg
       /\ a.disposition = Current(t).disposition

LEMMA WrittenAttempt ==
    ASSUME NEW ask \in Ask, NEW t, t # None => t \in Session /\ Lawful(t), May(ask, t),
           NEW r, r = Result(ask, t)
    PROVE  \A i \in 1 .. Len(r.attempts) : Wrote(ask, t, r.attempts[i])
<1> SUFFICES ASSUME NEW i \in 1 .. Len(r.attempts), NEW a, a = r.attempts[i]
             PROVE  Wrote(ask, t, a)
  OBVIOUS
<1> USE DEF Wrote
<1>1. CASE ask.kind = "create"
  <2>1. r = Created(ask.id, ask.arg)
    BY <1>1 DEF Result
  <2> QED BY <2>1, CreatedFacts
<1>2. CASE ask.kind # "create"
  <2>1. t # None /\ t \in Session /\ Lawful(t)
    BY <1>2 DEF May
  <2>2. PICK n : n = Len(t.attempts)
    OBVIOUS
  <2>3. n \in Nat /\ n \in 1 .. n /\ Current(t) = t.attempts[n]
    BY <2>1, <2>2, CurrentIn
  <2>4. CASE ask.kind = "append"
    <3>1. /\ Len(r.attempts) = n + 1 /\ r.attempts[n + 1] = NewAttempt(ask.arg)
          /\ \A j \in 1 .. n : r.attempts[j] = t.attempts[j]
      BY <2>1, <2>2, <2>4, ResultAttempts
    <3>2. i = n + 1 \/ i \in 1 .. n
      BY <2>3, <3>1
    <3> QED BY <2>1, <2>2, <3>1, <3>2
  <2>5. CASE ask.kind # "append"
    <3>1. /\ Len(r.attempts) = n
          /\ \A j \in 1 .. n : r.attempts[j] = t.attempts[j] \/ j = n
          /\ \A j \in 1 .. n : r.attempts[j].evidence = t.attempts[j].evidence
      BY <2>1, <2>2, <2>5, ResultAttempts
    <3>2. CASE a = t.attempts[i]
      BY <2>1, <2>2, <3>1, <3>2
    <3>3. CASE a # t.attempts[i]
      <4>1. i = n /\ a = Current(r) /\ a.evidence = Current(t).evidence
        BY <2>3, <3>1, <3>3 DEF Current
      <4>2. ask.kind # "transition"
        BY <2>1, <3>3, ResultAttempts
      <4>3. CASE ask.kind = "disposition"
        BY <2>1, <4>1, <4>3, ResultAttempts
      <4>4. CASE ask.kind = "execution"
        BY <2>1, <4>1, <4>4, ResultAttempts
      <4> QED BY <1>2, <2>5, <4>2, <4>3, <4>4 DEF Ask
    <3> QED BY <3>2, <3>3
  <2> QED BY <2>4, <2>5
<1> QED BY <1>1, <1>2

LEMMA WrittenIsTrue ==
    ASSUME PageKnows, NEW ask \in Ask, NEW t, NEW r,
           \A i \in 1 .. Len(r.attempts) : Wrote(ask, t, r.attempts[i]),
           t # None => /\ t \in Session /\ Lawful(t)
                       /\ \A j \in 1 .. Len(t.attempts) : Truthful(t.attempts[j]),
           (t # None /\ ask.kind \in {"disposition", "execution"}) =>
               /\ Suits(ask, page.session)
               /\ Current(t).evidence = Current(page.session).evidence
    PROVE  \A i \in 1 .. Len(r.attempts) : Truthful(r.attempts[i])
<1> SUFFICES ASSUME NEW i \in 1 .. Len(r.attempts), NEW a, a = r.attempts[i]
             PROVE  Truthful(a)
  OBVIOUS
<1>1. Wrote(ask, t, a)
  OBVIOUS
<1>2. t # None => Truthful(Current(t))
  BY CurrentIn
<1>3. CASE t # None /\ \E j \in 1 .. Len(t.attempts) : a = t.attempts[j]
  BY <1>3
<1>4. CASE a = NewAttempt(ask.arg)
  BY <1>4, NewFacts DEF Truthful
<1>5. CASE /\ ask.kind = "disposition" /\ t # None
           /\ a.evidence = Current(t).evidence /\ a.disposition = ask.arg
           /\ a.execution # "SUCCEEDED"
  BY <1>5 DEF Suits, Truthful
<1>6. CASE /\ ask.kind = "execution" /\ t # None
           /\ a.evidence = Current(t).evidence /\ a.execution = ask.arg
           /\ a.disposition = Current(t).disposition
  BY <1>2, <1>6 DEF Suits, Truthful
<1> QED BY <1>1, <1>3, <1>4, <1>5, <1>6 DEF Wrote

\* What the learner answered, or what became of the action, is of the performance
\* the request meets.
LEMMA MetPerformance ==
    ASSUME NEW ask, NEW s \in Session, Lawful(s), Suits(ask, s),
           ask.kind \in {"disposition", "execution"}
    PROVE  s.status # "AWAITING_ATTEMPT"
<1>1. CASE ask.kind = "disposition"
  BY <1>1 DEF Suits, CanRecordDisposition
<1>2. CASE ask.kind = "execution"
  BY <1>2, ApplyFacts DEF Suits
<1> QED BY <1>1, <1>2

\* The stored session continues the page's after the write too.
LEMMA WrittenAhead ==
    ASSUME PageInv, PageKnows, NEW w \in Slot, calls[w] # Idle,
           NEW ask \in Ask, ask = calls[w].ask, NEW t, t = store[ask.id],
           t # None => t \in Session /\ Lawful(t), May(ask, t),
           NEW r, r = Result(ask, t), r \in Session, t # None => Continues(t, r),
           page.session # None
    PROVE  /\ page.session.id = ask.id /\ Continues(page.session, r)
           /\ page.session.status # "AWAITING_ATTEMPT" =>
                 Len(r.attempts) = Len(page.session.attempts)
<1>1. ask.kind # "create"
  BY DEF PageKnows, CallKnown, Suits
<1>2. t # None /\ t \in Session /\ Lawful(t)
  BY <1>1 DEF May
<1>3. /\ page.session \in Session /\ ask.id = page.session.id
      /\ Continues(page.session, t) /\ Suits(ask, page.session)
      /\ page.session.status # "AWAITING_ATTEMPT" =>
            Len(t.attempts) = Len(page.session.attempts)
  BY <1>1, <1>2, MetFacts
<1>4. Continues(page.session, r)
  BY <1>2, <1>3, ContinuesOn
<1>5. CASE ask.kind = "append"
  BY <1>3, <1>4, <1>5 DEF Suits
<1>6. CASE ask.kind # "append"
  <2>1. Len(r.attempts) = Len(t.attempts)
    BY <1>2, <1>6, ResultAttempts
  <2> QED BY <1>3, <1>4, <2>1
<1> QED BY <1>5, <1>6

LEMMA EndedRefuses ==
    ASSUME NEW ask, NEW t \in Session, Lawful(t), t # None, t.status \in Terminal
    PROVE  ~May(ask, t)
<1>1. t.status # "AWAITING_ACTION" /\ t.status # "AWAITING_ATTEMPT" /\ t.status \notin Open
  BY DEF Terminal, Open
<1> QED BY <1>1 DEF May, MayAppend, MayDispose, MayExecute, MayTransition

LEMMA WriteKnows ==
    ASSUME PageInv, PageKnows, ~overlapped, NEW w \in Slot, Write(w), UNCHANGED pageVars,
           May(calls[w].ask, calls[w].copy)
    PROVE  PageKnows'
<1>1. PICK ask : ask = calls[w].ask
  OBVIOUS
<1>2. PICK t : t = calls[w].copy
  OBVIOUS
<1>3. PICK r : r = Result(ask, t)
  OBVIOUS
<1>4. /\ calls[w].phase = "read" /\ calls[w] # Idle
      /\ ask \in Ask /\ ask.id \in SessionId
      /\ t = store[ask.id] /\ (t # None => t \in Session /\ Lawful(t) /\ t.id = ask.id)
      /\ \A v \in Slot : v # w => calls[v] = Idle /\ calls'[v] = Idle
      /\ r \in Session /\ r.id = ask.id /\ Lawful(r) /\ (t # None => Continues(t, r))
      /\ store'[ask.id] = r
      /\ \A id \in SessionId : id # ask.id => store'[id] = store[id]
      /\ calls'[w].phase = "ok" /\ calls'[w].ask = ask /\ calls'[w].copy = r
      /\ UNCHANGED faults
  BY <1>1, <1>2, <1>3, WrittenFacts
<1>5. May(ask, t)
  BY <1>1, <1>2
<1>6. /\ r.status = "TRANSITIONED" <=> ask.kind = "transition"
      /\ Brings(ask) => Current(r).evidence = ask.arg.evidence
      /\ ask.kind = "execution" => Resolved(Current(r))
      /\ \A e \in Performances(r) :
            e \in Performances(t) \/ (Brings(ask) /\ e = ask.arg.evidence)
  BY <1>3, <1>4, <1>5, WrittenAttempts
<1>7. /\ UNCHANGED <<page, errands, kept, minted, started, pressed, applied, overlapped>>
  BY DEF pageVars
<1>8. /\ page.session = kept[w] /\ ask.id \in minted /\ Suits(ask, kept[w])
      /\ News(calls[w])
  BY <1>1, <1>4 DEF PageKnows, CallKnown
<1>9. Once' /\ LogType' /\ Shown(page.session)'
  BY <1>4, <1>7 DEF PageKnows, Once, InErrand, LogType, Shown
<1>10. Ahead(page.session)'
  <2>1. CASE page.session = None
    BY <1>7, <2>1 DEF Ahead
  <2>2. CASE page.session # None
    <3>1. /\ page.session.id = ask.id /\ Continues(page.session, r)
          /\ page.session.status # "AWAITING_ATTEMPT" =>
                Len(r.attempts) = Len(page.session.attempts)
      BY <1>1, <1>3, <1>4, <1>5, <2>2, WrittenAhead
    <3> QED BY <1>4, <1>7, <3>1 DEF Ahead
  <2> QED BY <2>1, <2>2
<1>11. Told'
  <2>1. \A i \in 1 .. Len(r.attempts) : Wrote(ask, t, r.attempts[i])
    BY <1>3, <1>4, <1>5, WrittenAttempt
  <2>2. t # None => \A j \in 1 .. Len(t.attempts) : Truthful(t.attempts[j])
    BY <1>4 DEF PageKnows, Told
  <2>3. ASSUME t # None, ask.kind \in {"disposition", "execution"}
        PROVE  /\ Suits(ask, page.session)
               /\ Current(t).evidence = Current(page.session).evidence
    <3>1. /\ page.session \in Session /\ Lawful(page.session)
          /\ Suits(ask, page.session)
          /\ page.session.status # "AWAITING_ATTEMPT" =>
                Current(t).evidence = Current(page.session).evidence
      BY <1>1, <1>4, <2>3, MetFacts
    <3> QED BY <2>3, <3>1, MetPerformance
  <2>4. \A i \in 1 .. Len(r.attempts) : Truthful(r.attempts[i])
    BY <1>4, <2>1, <2>2, <2>3, WrittenIsTrue
  <2>5. \A id \in SessionId : store'[id] # None =>
           \A i \in 1 .. Len(store'[id].attempts) : Truthful(store'[id].attempts[i])
    BY <1>4, <2>4 DEF PageKnows, Told
  <2>6. \A a : Truthful(a)' <=> Truthful(a)
    BY <1>7 DEF Truthful
  <2>7. ASSUME NEW id \in SessionId, store'[id] # None,
               NEW i \in 1 .. Len(store'[id].attempts)
        PROVE  Truthful(store[id].attempts[i])'
    <3>1. PICK a : a = store'[id].attempts[i]
      OBVIOUS
    <3>2. Truthful(a)
      BY <2>5, <2>7, <3>1
    <3>3. Truthful(a)'
      BY <2>6, <3>2
    <3> QED BY <3>1, <3>3 DEF Truthful
  <2> QED BY <2>7 DEF Told
<1>12. Fresh'
  <2>1. \A e \in Evidence : Unheard(e)' <=> Unheard(e)
    BY <1>7 DEF Unheard, InErrand
  <2>2. ASSUME NEW e \in Evidence, Unheard(e), NEW id \in SessionId
        PROVE  e \notin Performances(store'[id])
    <3>1. e \notin Performances(store[id]) /\ e \notin Performances(store[ask.id])
      BY <1>4, <2>2 DEF PageKnows, Fresh
    <3>2. Brings(ask) => e # ask.arg.evidence
      BY <1>1, <1>8, <2>2 DEF News
    <3> QED BY <1>4, <1>6, <3>1, <3>2
  <2>3. \A id \in SessionId : store'[id] # None => id \in minted
    BY <1>4, <1>8 DEF PageKnows, Fresh
  <2> QED BY <1>7, <2>1, <2>2, <2>3 DEF PageKnows, Fresh
<1>13. Unapplied(page.session)'
  <2>1. \A v \in Slot : Reporting(v)' <=> Reporting(v)
    BY <1>1, <1>4 DEF Reporting, Idle
  <2> QED BY <1>7, <2>1 DEF PageKnows, Unapplied, AttemptKey
<1>14. ASSUME NEW v \in Slot
       PROVE  CallKnown(v)'
  <2>1. CASE v # w
    BY <1>4, <2>1 DEF CallKnown
  <2>2. CASE v = w
    <3>1. Suits(calls[w].ask, kept[w])'
      BY <1>4, <1>7, <1>8 DEF Suits
    <3>2. News(calls[w])'
      BY <1>1, <1>4, <1>7, <1>8 DEF News, Unserved, Unheard, InErrand
    <3>3. Granted(calls[w])'
      BY <1>4, <1>6 DEF Granted
    <3>4. ~Unserved(calls[w])'
      BY <1>4 DEF Unserved
    <3> QED BY <1>4, <1>7, <1>8, <2>2, <3>1, <3>2, <3>3, <3>4 DEF CallKnown
  <2> QED BY <2>1, <2>2
<1>15. Agree'
  <2> SUFFICES ASSUME faults = 0
               PROVE  Agree'
    BY <1>4 DEF Agree
  <2>1. Granting(w)' /\ \A v \in Slot : ~Granting(v)
    BY <1>4 DEF Granting, Idle
  <2>2. \A v \in Slot : calls'[v].phase # "failed"
    BY <1>4 DEF Idle
  <2>3. ASSUME page.terminal # None
        PROVE  store'[page.terminal.id] = page.terminal /\ page.terminal.status \in Terminal
    <3>1. store[page.terminal.id] = page.terminal /\ page.terminal.status \in Terminal
      BY <2>3 DEF PageKnows, Agree
    <3>2. page.terminal.id # ask.id
      <4> SUFFICES ASSUME page.terminal.id = ask.id PROVE FALSE
        OBVIOUS
      <4>1. t = page.terminal /\ t # None /\ t.status \in Terminal
        BY <1>4, <2>3, <3>1
      <4> QED BY <1>5, <4>1, EndedRefuses, <1>4
    <3>3. page.terminal.id \in SessionId
      BY <2>3 DEF PageInv, PageType, Page, Session
    <3> QED BY <1>4, <3>1, <3>2, <3>3
  <2>4. \A id \in SessionId : (store'[id] # None /\ id # ask.id) =>
           \/ store'[id].status \in Terminal
           \/ page.session # None /\ id = page.session.id
    BY <1>4, <2>1 DEF PageKnows, Agree
  <2>5. \A id \in SessionId : store'[id] # None =>
           \/ store'[id].status \in Terminal
           \/ page.session # None /\ id = page.session.id
           \/ \E v \in Slot : Granting(v)' /\ calls'[v].ask.id = id
    BY <1>4, <2>1, <2>4
  <2> QED BY <1>4, <1>7, <2>1, <2>2, <2>3, <2>5 DEF Agree
<1> QED BY <1>9, <1>10, <1>11, <1>12, <1>13, <1>14, <1>15 DEF PageKnows

LEMMA RestartKnows ==
    ASSUME PageInv, PageKnows, Restart, UNCHANGED pageVars
    PROVE  PageKnows'
<1>1. /\ UNCHANGED <<page, errands, kept, minted, started, pressed, applied, overlapped>>
      /\ \A id \in SessionId : store'[id] = None
      /\ faults' = faults + 1
  BY DEF pageVars, Restart
<1>2. ASSUME NEW v \in Slot, calls[v] # Idle
      PROVE  calls'[v].phase = "failed" /\ calls'[v].ask = calls[v].ask
  <2>1. calls[v] \in Call /\ calls'[v] = [calls[v] EXCEPT !.phase = "failed"]
    BY <1>2 DEF Restart, PageInv, CallInv, StoreInv
  <2> QED BY <2>1 DEF Call
<1>3. \A v \in Slot : calls[v] = Idle => calls'[v] = Idle
  BY DEF Restart
<1>4. faults' \in Nat /\ faults' # 0
  BY <1>1, FaultsNat
<1>5. Once' /\ LogType' /\ Shown(page.session)'
  BY <1>1, <1>4 DEF PageKnows, Once, InErrand, LogType, Shown
<1>6. Ahead(page.session)'
  BY <1>1, PageSession DEF Ahead, Session
<1>7. Told' /\ Agree'
  BY <1>1, <1>4 DEF Told, Agree
<1>8. Fresh'
  BY <1>1 DEF PageKnows, Fresh, Unheard, InErrand, Performances
<1>9. \A v \in Slot : Reporting(v) => Reporting(v)'
  BY <1>2 DEF Reporting, Idle
<1>10. \A v \in Slot : Reporting(v)' => Reporting(v)
  BY <1>2, <1>3 DEF Reporting
<1>11. Unapplied(page.session)'
  BY <1>1, <1>9, <1>10 DEF PageKnows, Unapplied, AttemptKey
<1>12. ASSUME NEW v \in Slot
       PROVE  CallKnown(v)'
  <2>1. CASE calls[v] = Idle
    BY <1>3, <2>1 DEF CallKnown
  <2>2. CASE calls[v] # Idle
    <3>0. CallKnown(v)
      BY DEF PageKnows
    <3>1. calls'[v].phase = "failed" /\ calls'[v].ask = calls[v].ask
      BY <1>2, <2>2
    <3>2. Suits(calls[v].ask, kept[v])' /\ Granted(calls[v])'
      BY <1>1, <2>2, <3>0, <3>1 DEF CallKnown, Suits, Granted
    <3>3. News(calls[v])' /\ ~Unserved(calls[v])'
      BY <1>1, <2>2, <3>0, <3>1 DEF CallKnown, News, Unserved, Unheard, InErrand
    <3> QED BY <1>1, <2>2, <3>0, <3>1, <3>2, <3>3 DEF CallKnown
  <2> QED BY <2>1, <2>2
<1> QED BY <1>5, <1>6, <1>7, <1>8, <1>11, <1>12 DEF PageKnows

LEMMA ServerKnows ==
    ASSUME PageInv, PageKnows, ~overlapped, ServerStep
    PROVE  PageKnows'
<1>1. Serve /\ UNCHANGED pageVars
  BY DEF ServerStep
<1>2. ASSUME NEW w \in Slot, Write(w)
      PROVE  PageKnows'
  BY <1>1, <1>2, WriteKnows, RefusedKnows DEF Write
<1> QED BY <1>1, <1>2, RestartKnows, ReadKnows, LoseKnows DEF Serve

-----------------------------------------------------------------------------
\* The answers.

\* A call that is answered was the only one, and known.
LEMMA AnsweredFacts ==
    ASSUME PageInv, PageKnows, ~overlapped, NEW w \in Slot, NEW kind, Answer(w, kind)
    PROVE  /\ calls[w] # Idle /\ calls[w].ask \in Ask /\ calls[w].ask.id \in SessionId
           /\ calls[w].ask.kind = kind /\ calls[w].phase \in {"ok", "failed"}
           /\ \A v \in Slot : v # w => calls[v] = Idle
           /\ \A v \in Slot : calls'[v] = Idle
           /\ UNCHANGED <<store, faults, minted, overlapped>>
           /\ page.session = kept[w] /\ calls[w].ask.id \in minted
           /\ Suits(calls[w].ask, kept[w]) /\ News(calls[w]) /\ Granted(calls[w])
<1>1. /\ calls[w] # Idle /\ calls[w].ask.kind = kind /\ calls[w].phase \in {"ok", "failed"}
      /\ calls' = [calls EXCEPT ![w] = Idle]
      /\ UNCHANGED <<store, faults, minted, overlapped>>
  BY DEF Answer, Take
<1>2. calls[w].ask \in Ask /\ calls[w].ask.id \in SessionId
  BY <1>1, ServedFacts
<1>3. \A v \in Slot : v # w => calls[v] = Idle
  BY <1>1 DEF PageInv, CallInv, Single
<1>4. \A v \in Slot : calls'[v] = Idle
  BY <1>1, <1>3 DEF PageInv, CallInv, StoreInv
<1>5. CallKnown(w)
  BY DEF PageKnows
<1> QED BY <1>1, <1>2, <1>3, <1>4, <1>5 DEF CallKnown

\* What a granted request answers with is what is stored.
LEMMA GrantedFacts ==
    ASSUME PageInv, PageKnows, ~overlapped, NEW w \in Slot, NEW kind, Answer(w, kind), Ok(w),
           NEW c, c = calls[w].copy
    PROVE  /\ c = store[c.id] /\ c.id = calls[w].ask.id /\ c # None
           /\ c \in Session /\ Lawful(c) /\ c.id \in SessionId
           /\ c.status = "TRANSITIONED" <=> kind = "transition"
           /\ kind \in {"create", "append"} => Current(c).evidence = calls[w].ask.arg.evidence
           /\ kind = "execution" => Resolved(Current(c))
<1>1. /\ calls[w].ask.kind = kind /\ calls[w].ask.id \in SessionId /\ Granted(calls[w])
      /\ calls[w].phase = "ok"
  BY AnsweredFacts DEF Ok
<1>2. /\ c = store[calls[w].ask.id] /\ c \in Session
      /\ c.status = "TRANSITIONED" <=> kind = "transition"
      /\ kind \in {"create", "append"} => Current(c).evidence = calls[w].ask.arg.evidence
      /\ kind = "execution" => Resolved(Current(c))
  BY <1>1 DEF Granted, Brings
<1>3. c # None
  BY <1>2, NoneIsNothing
<1> QED BY <1>1, <1>2, <1>3, Stored

LEMMA AnswerKnows ==
    ASSUME PageInv, PageKnows, ~overlapped, NEW w \in Slot, NEW kind, Answer(w, kind),
           Unlogged, page'.capture = page.capture,
           Once', \A e \in Evidence : Unheard(e)' => Unheard(e),
           Shown(page.session)', Ahead(page.session)',
           \A e \in Evidence : Unheard(e) => e \notin Performances(page'.session),
           Unapplied(page.session)', faults = 0 => Agree'
    PROVE  PageKnows'
<1>1. /\ \A v \in Slot : calls'[v] = Idle
      /\ UNCHANGED <<store, faults, minted, overlapped>>
  BY AnsweredFacts
<1>2. UNCHANGED <<started, pressed, applied>>
  BY DEF Unlogged
<1>3. LogType' /\ Told'
  BY <1>1, <1>2 DEF PageKnows, LogType, Told, Truthful
<1>4. Fresh'
  BY <1>1, <1>2 DEF PageKnows, Fresh
<1>5. \A v \in Slot : CallKnown(v)'
  BY <1>1 DEF CallKnown
<1>6. Agree'
  BY <1>1 DEF Agree
<1> QED BY <1>3, <1>4, <1>5, <1>6 DEF PageKnows

\* An answer that leaves the errands as they are.
LEMMA ErrandsStay ==
    ASSUME PageKnows, UNCHANGED <<errands, started>>, page'.capture = page.capture
    PROVE  Once' /\ \A e \in Evidence : Unheard(e)' => Unheard(e)
  BY DEF PageKnows, Once, Unheard, InErrand

\* The page takes what the server has answered for its session.
LEMMA TakenKnows ==
    ASSUME PageInv, PageKnows, ~overlapped, NEW w \in Slot,
           NEW kind \in {"create", "append", "disposition", "execution"},
           Answer(w, kind), Ok(w), NEW c, c = calls[w].copy,
           page'.session = c, page'.terminal = page.terminal,
           page'.capture = page.capture, Unlogged, UNCHANGED errands,
           Unapplied(page.session)'
    PROVE  PageKnows'
<1>1. /\ c = store[c.id] /\ c.id = calls[w].ask.id /\ c # None
      /\ c \in Session /\ Lawful(c) /\ c.id \in SessionId
      /\ c.status # "TRANSITIONED"
  BY GrantedFacts
<1>2. /\ UNCHANGED <<store, faults, minted, overlapped>> /\ c.id \in minted
      /\ \A v \in Slot : v # w => calls[v] = Idle
      /\ \A v \in Slot : calls'[v] = Idle
      /\ page.session = kept[w] /\ Suits(calls[w].ask, kept[w])
      /\ calls[w].ask.kind = kind
  BY <1>1, AnsweredFacts
<1>3. Shown(page.session)'
  BY <1>1, <1>2 DEF Shown
<1>4. Ahead(page.session)'
  BY <1>1, <1>2, ContinuesSelf DEF Ahead
<1>5. \A e \in Evidence : Unheard(e) => e \notin Performances(page'.session)
  BY <1>1 DEF PageKnows, Fresh
<1>6. ASSUME faults = 0
      PROVE  Agree'
  <2>1. page.session # None => page.session.id = c.id
    BY <1>1, <1>2 DEF Suits
  <2>2. \A id \in SessionId : store[id] # None =>
           store[id].status \in Terminal \/ id = c.id
    BY <1>1, <1>2, <1>6, <2>1 DEF PageKnows, Agree, Granting, Idle
  <2>3. page.terminal # None =>
           store[page.terminal.id] = page.terminal /\ page.terminal.status \in Terminal
    BY <1>6 DEF PageKnows, Agree
  <2> QED BY <1>1, <1>2, <2>2, <2>3 DEF Agree, Idle
<1>7. Once' /\ \A e \in Evidence : Unheard(e)' => Unheard(e)
  BY ErrandsStay DEF Unlogged
<1> QED BY <1>3, <1>4, <1>5, <1>6, <1>7, AnswerKnows

\* The page keeps its session: the request has failed.
LEMMA RefusalKnows ==
    ASSUME PageInv, PageKnows, ~overlapped, NEW w \in Slot, NEW kind, Answer(w, kind), ~Ok(w),
           page'.session = page.session, page'.terminal = page.terminal,
           page'.capture = page.capture, Unlogged,
           Once', \A e \in Evidence : Unheard(e)' => Unheard(e),
           Unapplied(page.session)'
    PROVE  PageKnows'
<1>1. /\ UNCHANGED <<store, faults, minted, overlapped>> /\ calls[w].phase = "failed"
  BY AnsweredFacts DEF Ok
<1>2. faults # 0
  BY <1>1 DEF PageKnows, Agree
<1>3. Shown(page.session)' /\ Ahead(page.session)'
  BY <1>1 DEF PageKnows, Shown, Ahead
<1>4. \A e \in Evidence : Unheard(e) => e \notin Performances(page'.session)
  BY DEF PageKnows, Fresh
<1> QED BY <1>2, <1>3, <1>4, AnswerKnows

\* A request about something else than an execution leaves what is known of the
\* page's action.
LEMMA OtherRefusal ==
    ASSUME PageInv, PageKnows, ~overlapped, NEW w \in Slot, NEW kind, Answer(w, kind),
           kind # "execution" \/ calls[w].ask.arg # "SUCCEEDED",
           page'.session = page.session, page'.locked = page.locked, Unlogged
    PROVE  Unapplied(page.session)'
<1>1. \A v \in Slot : ~Reporting(v)
  BY AnsweredFacts DEF Reporting
<1> QED BY <1>1 DEF PageKnows, Unapplied, AttemptKey, Unlogged

LEMMA CreateKnows ==
    ASSUME PageInv, PageKnows, ~overlapped, NEW w \in Slot, CreateAnswered(w)
    PROVE  PageKnows'
<1>1. Answer(w, "create") /\ Unlogged /\ UNCHANGED errands /\ page \in Page
  BY DEF CreateAnswered, PageInv, PageType
<1>2. CASE Ok(w)
  <2>1. PICK c : c = calls[w].copy
    OBVIOUS
  <2>2. page' = [page EXCEPT !.session = c]
    BY <1>2, <2>1 DEF CreateAnswered
  <2>3. page'.session = c /\ page'.terminal = page.terminal /\ page'.capture = page.capture
    BY <1>1, <2>2 DEF Page
  <2>4. Current(c).evidence = calls[w].ask.arg.evidence
    BY <1>1, <1>2, <2>1, GrantedFacts
  <2>5. News(calls[w]) /\ calls[w].ask.kind = "create"
    BY <1>1, AnsweredFacts
  <2>6. applied[Current(c).evidence] = 0
    BY <2>4, <2>5 DEF News, Brings
  <2>7. Unapplied(page.session)'
    BY <1>1, <2>3, <2>6 DEF Unapplied, Unlogged
  <2> QED BY <1>1, <1>2, <2>1, <2>3, <2>7, TakenKnows
<1>3. CASE ~Ok(w)
  <2>1. page' = [page EXCEPT !.session = None, !.terminal = None]
    BY <1>3 DEF CreateAnswered
  <2>2. page'.session = None /\ page'.terminal = None /\ page'.capture = page.capture
    BY <1>1, <2>1 DEF Page
  <2>3. faults # 0
    BY <1>1, <1>3, AnsweredFacts DEF PageKnows, Agree, Ok
  <2>4. Shown(page.session)' /\ Ahead(page.session)' /\ Unapplied(page.session)'
    BY <2>2 DEF Shown, Ahead, Unapplied
  <2>5. \A e \in Evidence : e \notin Performances(page'.session)
    BY <2>2 DEF Performances
  <2>6. Once' /\ \A e \in Evidence : Unheard(e)' => Unheard(e)
    BY <1>1, <2>2, ErrandsStay DEF Unlogged
  <2> QED BY <1>1, <2>2, <2>3, <2>4, <2>5, <2>6, AnswerKnows
<1> QED BY <1>2, <1>3

LEMMA AppendKnows ==
    ASSUME PageInv, PageKnows, ~overlapped, NEW w \in Slot, AppendAnswered(w)
    PROVE  PageKnows'
<1>1. Answer(w, "append") /\ Unlogged /\ UNCHANGED errands /\ page \in Page
  BY DEF AppendAnswered, PageInv, PageType
<1>2. CASE Ok(w)
  <2>1. PICK c : c = calls[w].copy
    OBVIOUS
  <2>2. page' = [page EXCEPT !.session = c]
    BY <1>2, <2>1 DEF AppendAnswered
  <2>3. page'.session = c /\ page'.terminal = page.terminal /\ page'.capture = page.capture
    BY <1>1, <2>2 DEF Page
  <2>4. Current(c).evidence = calls[w].ask.arg.evidence
    BY <1>1, <1>2, <2>1, GrantedFacts
  <2>5. News(calls[w]) /\ calls[w].ask.kind = "append"
    BY <1>1, AnsweredFacts
  <2>6. applied[Current(c).evidence] = 0
    BY <2>4, <2>5 DEF News, Brings
  <2>7. Unapplied(page.session)'
    BY <1>1, <2>3, <2>6 DEF Unapplied, Unlogged
  <2> QED BY <1>1, <1>2, <2>1, <2>3, <2>7, TakenKnows
<1>3. CASE ~Ok(w)
  <2>1. page' = [page EXCEPT !.session = page.session]
    BY <1>1, <1>3, AnsweredFacts DEF AppendAnswered
  <2>2. page' = page
    BY <1>1, <2>1 DEF Page
  <2>3. Once' /\ \A e \in Evidence : Unheard(e)' => Unheard(e)
    BY <1>1, <2>2, ErrandsStay DEF Unlogged
  <2>4. Unapplied(page.session)'
    BY <1>1, <2>2, OtherRefusal
  <2> QED BY <1>1, <1>3, <2>2, <2>3, <2>4, RefusalKnows
<1> QED BY <1>2, <1>3

LEMMA DispositionKnows ==
    ASSUME PageInv, PageKnows, ~overlapped, NEW w \in Slot, DispositionAnswered(w)
    PROVE  PageKnows'
<1>1. Answer(w, "disposition") /\ Unlogged /\ UNCHANGED errands /\ page \in Page
  BY DEF DispositionAnswered, PageInv, PageType
<1>2. CASE Ok(w)
  <2> DEFINE p == page.session
  <2>1. PICK c : c = calls[w].copy
    OBVIOUS
  <2>2. page' = [page EXCEPT !.session = c]
    BY <1>2, <2>1 DEF DispositionAnswered
  <2>3. /\ page'.session = c /\ page'.terminal = page.terminal
        /\ page'.capture = page.capture /\ page'.locked = page.locked
    BY <1>1, <2>2 DEF Page
  <2>4. /\ c = store[c.id] /\ c.id = calls[w].ask.id /\ c # None
        /\ c \in Session /\ Lawful(c)
    BY <1>1, <1>2, <2>1, GrantedFacts
  <2>5. /\ p = kept[w] /\ Suits(calls[w].ask, p) /\ calls[w].ask.kind = "disposition"
        /\ \A v \in Slot : v # w => calls[v] = Idle
        /\ \A v \in Slot : calls'[v] = Idle
    BY <1>1, AnsweredFacts
  <2>6. /\ p # None /\ p \in Session /\ p.id = c.id /\ p.status = "AWAITING_ACTION"
    BY <2>4, <2>5 DEF Suits, CanRecordDisposition
  <2>7. Lawful(p) /\ Continues(p, c) /\ Len(c.attempts) = Len(p.attempts)
    BY <2>4, <2>6 DEF PageKnows, Shown, Ahead
  <2>8. Current(c).evidence = Current(p).evidence /\ AttemptKey(c) = AttemptKey(p)
    BY <2>4, <2>6, <2>7, SamePlace DEF AttemptKey
  <2>9. Resolved(Current(p)) => Resolved(Current(c))
    BY <2>6, <2>7, CurrentIn DEF Continues, Current
  <2>10. \A v \in Slot : ~Reporting(v)
    BY <2>5 DEF Reporting
  <2>11. Unapplied(page.session)'
    <3>1. (~Resolved(Current(c)) /\ AttemptKey(c) \notin page.locked)
             => applied[Current(c).evidence] = 0
      BY <2>6, <2>8, <2>9, <2>10 DEF PageKnows, Unapplied
    <3> QED BY <1>1, <2>3, <3>1 DEF Unapplied, Unlogged, AttemptKey
  <2> QED BY <1>1, <1>2, <2>1, <2>3, <2>11, TakenKnows
<1>3. CASE ~Ok(w)
  <2>1. page' = page
    BY <1>3 DEF DispositionAnswered
  <2>2. Once' /\ \A e \in Evidence : Unheard(e)' => Unheard(e)
    BY <1>1, <2>1, ErrandsStay DEF Unlogged
  <2>3. Unapplied(page.session)'
    BY <1>1, <2>1, OtherRefusal
  <2> QED BY <1>1, <1>3, <2>1, <2>2, <2>3, RefusalKnows
<1> QED BY <1>2, <1>3

LEMMA ExecutionKnows ==
    ASSUME PageInv, PageKnows, ~overlapped, NEW w \in Slot, ExecutionAnswered(w)
    PROVE  PageKnows'
<1>1. Answer(w, "execution") /\ Unlogged /\ UNCHANGED errands /\ page \in Page
  BY DEF ExecutionAnswered, PageInv, PageType
<1>2. CASE Ok(w)
  <2>1. PICK c : c = calls[w].copy
    OBVIOUS
  <2>2. page' = [page EXCEPT !.applying = FALSE, !.session = c, !.locked = @]
    BY <1>2, <2>1 DEF ExecutionAnswered
  <2>3. /\ page'.session = c /\ page'.terminal = page.terminal
        /\ page'.capture = page.capture
    BY <1>1, <2>2 DEF Page
  <2>4. Resolved(Current(c))
    BY <1>1, <1>2, <2>1, GrantedFacts
  <2>5. Unapplied(page.session)'
    BY <2>3, <2>4 DEF Unapplied
  <2> QED BY <1>1, <1>2, <2>1, <2>3, <2>5, TakenKnows
<1>3. CASE ~Ok(w)
  <2>1. PICK lock : lock = IF calls[w].ask.arg = "SUCCEEDED"
                           THEN page.locked \cup {<<kept[w].id, Len(kept[w].attempts)>>}
                           ELSE page.locked
    OBVIOUS
  <2>2. page' = [page EXCEPT !.applying = FALSE, !.session = @, !.locked = lock]
    BY <1>3, <2>1 DEF ExecutionAnswered
  <2>3. /\ page'.session = page.session /\ page'.terminal = page.terminal
        /\ page'.capture = page.capture /\ page'.locked = lock
    BY <1>1, <2>2 DEF Page
  <2>4. Once' /\ \A e \in Evidence : Unheard(e)' => Unheard(e)
    BY <1>1, <2>3, ErrandsStay DEF Unlogged
  <2>5. Unapplied(page.session)'
    <3>1. CASE calls[w].ask.arg = "SUCCEEDED"
      <4>1. AttemptKey(page.session) \in lock
        BY <1>1, <2>1, <3>1, AnsweredFacts DEF AttemptKey
      <4> QED BY <2>3, <4>1 DEF Unapplied, AttemptKey
    <3>2. CASE calls[w].ask.arg # "SUCCEEDED"
      BY <1>1, <2>1, <2>3, <3>2, OtherRefusal
    <3> QED BY <3>1, <3>2
  <2> QED BY <1>1, <1>3, <2>3, <2>4, <2>5, RefusalKnows
<1> QED BY <1>2, <1>3

LEMMA TransitionKnows ==
    ASSUME PageInv, PageKnows, ~overlapped, NEW x \in Errand, TransitionAnswered(x)
    PROVE  PageKnows'
<1>1. PICK w : w = errands[x].slot
  OBVIOUS
<1>2. PICK l : l = errands[x].arg
  OBVIOUS
<1>3. PICK await : await = [kind |-> "score", arg |-> l]
  OBVIOUS
<1>4. /\ errands[x].kind = "transition" /\ Answer(w, "transition") /\ Unlogged
      /\ errands' = [errands EXCEPT ![x] = await] /\ await.kind \notin {"stop", "evaluate"}
  BY <1>1, <1>2, <1>3 DEF TransitionAnswered, Go
<1>5. w \in Slot /\ page \in Page
  BY <1>1, <1>4 DEF PageInv, PageType, Await, Free
<1>6. CASE Ok(w)
  <2>1. PICK c : c = calls[w].copy
    OBVIOUS
  <2>2. PICK p : p = [page EXCEPT !.terminal = c, !.session = None]
    OBVIOUS
  <2>3. /\ c = store[c.id] /\ c.id = calls[w].ask.id /\ c # None
        /\ c \in Session /\ c.status = "TRANSITIONED" /\ c.id \in SessionId
    BY <1>4, <1>5, <1>6, <2>1, GrantedFacts
  <2>4. /\ p \in Page /\ p.terminal = c /\ p.session = None
        /\ p.capture = page.capture /\ p.locked = page.locked
    BY <1>5, <2>2, <2>3 DEF Page
  <2>5. page' = Applied(p, l)
    BY <1>1, <1>2, <1>6, <2>1, <2>2 DEF TransitionAnswered
  <2>6. page'.session = None /\ page'.terminal = c /\ page'.capture = page.capture
    BY <2>4, <2>5, AppliedFacts
  <2>7. Once' /\ \A e \in Evidence : Unheard(e)' => Unheard(e)
    BY <1>4, <2>6, ErrandEnds DEF PageInv, PageKnows, Unlogged
  <2>8. Shown(page.session)' /\ Ahead(page.session)' /\ Unapplied(page.session)'
    BY <2>6 DEF Shown, Ahead, Unapplied
  <2>9. \A e \in Evidence : e \notin Performances(page'.session)
    BY <2>6 DEF Performances
  <2>10. ASSUME faults = 0
         PROVE  Agree'
    <3>1. /\ page.session # None => page.session.id = c.id
          /\ \A v \in Slot : v # w => calls[v] = Idle
          /\ \A v \in Slot : calls'[v] = Idle
          /\ UNCHANGED store
      <4>1. page.session = kept[w] /\ Suits(calls[w].ask, kept[w])
            /\ calls[w].ask.kind = "transition"
        BY <1>4, <1>5, AnsweredFacts
      <4>2. page.session.id = c.id
        BY <2>3, <4>1 DEF Suits
      <4> QED BY <1>4, <1>5, <4>2, AnsweredFacts
    <3>2. \A id \in SessionId : store[id] # None => store[id].status \in Terminal
      BY <2>3, <2>10, <3>1 DEF PageKnows, Agree, Granting, Idle, Terminal
    <3>3. \A v \in Slot : calls'[v].phase \notin {"failed", "ok"}
      BY <3>1 DEF Idle
    <3>4. /\ store'[page'.terminal.id] = page'.terminal
          /\ page'.terminal.status \in Terminal
      BY <2>3, <2>6, <3>1 DEF Terminal
    <3>5. \A id \in SessionId : store'[id] # None => store'[id].status \in Terminal
      BY <3>1, <3>2
    <3> QED BY <2>6, <3>3, <3>4, <3>5 DEF Agree
  <2> QED BY <1>4, <1>5, <2>6, <2>7, <2>8, <2>9, <2>10, AnswerKnows
<1>7. CASE ~Ok(w)
  <2>1. page' = Applied(page, l)
    BY <1>1, <1>2, <1>7 DEF TransitionAnswered
  <2>2. /\ page'.session = page.session /\ page'.terminal = page.terminal
        /\ page'.capture = page.capture /\ page'.locked = page.locked
    BY <1>5, <2>1, AppliedFacts
  <2>3. Once' /\ \A e \in Evidence : Unheard(e)' => Unheard(e)
    BY <1>4, <2>2, ErrandEnds DEF PageInv, PageKnows, Unlogged
  <2>4. Unapplied(page.session)'
    BY <1>4, <1>5, <2>2, OtherRefusal
  <2> QED BY <1>4, <1>5, <1>7, <2>2, <2>3, <2>4, RefusalKnows
<1> QED BY <1>6, <1>7

-----------------------------------------------------------------------------
LEMMA InitKnown ==
    ASSUME Init
    PROVE  PageKnows
<1>1. /\ page.session = None /\ page.terminal = None /\ page.capture = None
      /\ errands = [x \in Errand |-> Free]
      /\ \A id \in SessionId : store[id] = None
      /\ \A w \in Slot : calls[w] = Idle
      /\ started = [e \in Evidence |-> None]
      /\ pressed = [e \in Evidence |-> {}]
      /\ applied = [e \in Evidence |-> 0]
      /\ faults = 0
  BY DEF Init, StoreInit
<1>2. \A x \in Errand, e \in Evidence : ~InErrand(x, e)
  BY <1>1 DEF InErrand, Free
<1>3. Once
  BY <1>1, <1>2, NoneIsNothing DEF Once
<1>4. LogType
  BY <1>1 DEF LogType
<1>5. Shown(page.session) /\ Ahead(page.session) /\ Unapplied(page.session) /\ Told
  BY <1>1 DEF Shown, Ahead, Unapplied, Told
<1>6. Fresh
  BY <1>1 DEF Fresh, Performances
<1>7. Agree
  BY <1>1 DEF Agree, Idle
<1>8. \A w \in Slot : CallKnown(w)
  BY <1>1 DEF CallKnown
<1> QED BY <1>3, <1>4, <1>5, <1>6, <1>7, <1>8 DEF PageKnows

LEMMA StepKnows ==
    ASSUME PageInv, Known, [Next]_vars
    PROVE  Known'
<1> SUFFICES ASSUME ~overlapped' PROVE PageKnows'
  BY DEF Known
<1>1. CASE AnswerStep
  <2>1. ~overlapped
    BY <1>1 DEF AnswerStep, TransitionAnswered, CreateAnswered, AppendAnswered,
                DispositionAnswered, ExecutionAnswered, Answer
  <2> QED BY <1>1, <2>1, TransitionKnows, CreateKnows, AppendKnows,
             DispositionKnows, ExecutionKnows DEF AnswerStep, Known
<1>2. CASE ServerStep
  <2>1. ~overlapped
    BY <1>2 DEF ServerStep, pageVars
  <2> QED BY <1>2, <2>1, ServerKnows DEF Known
<1>3. CASE PageStep /\ ~overlapped
  <2>1. PageKnows
    BY <1>3 DEF Known
  <2> QED BY <1>3, <2>1, InterruptKnows, StartKnows, StopKnows, StopAnsweredKnows,
             ScoreKnows, FailKnows, SelectKnows, ArtifactsKnow, EvaluateKnows,
             DispositionSent, ExecutionSent DEF PageStep
<1>4. CASE UNCHANGED vars
  <2>1. /\ UNCHANGED <<store, calls, kept, minted, overlapped, page, errands>>
        /\ UNCHANGED <<started, pressed, applied, faults>>
    BY <1>4 DEF vars, storeVars, pageVars
  <2>2. PageKnows
    BY <2>1 DEF Known
  <2>3. Once' /\ \A e \in Evidence : Unheard(e)' => Unheard(e)
    BY <2>1, <2>2, ErrandsStay
  <2>4. started' \in [Evidence -> Lesson \cup {None}]
    BY <2>1, <2>2 DEF PageKnows, LogType
  <2> QED BY <2>1, <2>2, <2>3, <2>4, QuietKnows, FaultsNat
<1> QED BY <1>1, <1>2, <1>3, <1>4 DEF Next

THEOREM KnowledgeInvariance == Spec => []Known
<1>1. Init => Known
  BY InitKnown DEF Known
<1>2. PageInv /\ Known /\ [Next]_vars => Known'
  BY StepKnows
<1> QED BY <1>1, <1>2, PageInvariance, PTL DEF Spec

\* What is recorded as the learner's answer to an action is one the learner gave
\* to that action: the session an answer is recorded in may be ahead of the
\* page's, but not by an attempt (recordLearnerDisposition, which only asks where
\* the session awaits an action).
THEOREM TheLearnerDecides == Spec => []LearnerDecides
<1>1. Known => LearnerDecides
  BY DEF Known, PageKnows, Told, Truthful, LearnerDecides
<1> QED BY <1>1, KnowledgeInvariance, PTL

\* An action is applied once, and recorded as done only if it was: the lock of an
\* attempt whose record was lost holds whatever else the page asks and is
\* answered (createGuidedApplyHandler, runtimeSucceededWithoutEvidence).
THEOREM AppliedOnce == Spec => []EvidenceFollowsRuntime
<1>1. Known => EvidenceFollowsRuntime
  <2> SUFFICES ASSUME Known, ~overlapped PROVE EvidenceFollowsRuntime
    BY DEF EvidenceFollowsRuntime
  <2>1. \A e \in Evidence : applied[e] \in {0, 1}
    BY DEF Known, PageKnows, LogType
  <2>2. \A e \in Evidence : applied[e] < 2
    BY <2>1
  <2> QED BY <2>2 DEF Known, PageKnows, Told, Truthful, EvidenceFollowsRuntime
<1> QED BY <1>1, KnowledgeInvariance, PTL

\* Where nothing is pending and nothing has failed, the page's session and its
\* terminal session are the stored ones and no other is open: a request of the
\* page is never refused (NoneRefused), so an answer tells it everything.
THEOREM PageAgrees == Spec => []PageMatchesStore
<1>1. Known => PageMatchesStore
  <2> SUFFICES ASSUME Known, ~overlapped, faults = 0, \A w \in Slot : calls[w] = Idle
               PROVE  PageMatchesStore
    BY DEF PageMatchesStore
  <2>1. Agree /\ \A w \in Slot : ~Granting(w)
    BY DEF Known, PageKnows, Granting, Idle
  <2> QED BY <2>1 DEF Agree, PageMatchesStore
<1> QED BY <1>1, KnowledgeInvariance, PTL

=============================================================================
