------------------------- MODULE BeginGatewayProofs -------------------------
(***************************************************************************)
(* Proofs about AttemptService and BeginGateway, for any sets of keys,      *)
(* payloads, attempts and threads.  The attempts behind the keys are those  *)
(* of the service, whose inductive invariant IInv holds of both.            *)
(***************************************************************************)
EXTENDS BeginGateway, TLAPS

-----------------------------------------------------------------------------
(* The attempts themselves: AttemptService, for any attempts and threads     *)

\* How the fields of one stored attempt hang together.
RecordInv ==
    \A a \in Attempt :
        /\ phase[a] \in {"ABSENT", "CAPTURING"} <=> intent[a] = None
        /\ phase[a] \in {"ABSENT", "CAPTURING"} <=> completion[a] = "IN_PROGRESS"
        /\ phase[a] \in {"EVALUATED", "INTERRUPTED"} <=> result[a] # None
        /\ result[a] # None => /\ result[a].status = phase[a]
                               /\ result[a].events = events[a]
        /\ phase[a] = "EVALUATED" => intent[a] = "finish"
        /\ phase[a] = "INTERRUPTED" => intent[a] = "cancel"

\* The capture, with what the next message is compared to.
CaptureInv ==
    /\ CaptureOrdered
    /\ \A a \in Attempt :
           /\ lastPosition[a] <= TotalPosition
           /\ phase[a] = "ABSENT" => events[a] = << >>
           /\ \A n \in 1 .. Len(events[a]) :
                  events[a][n].position <= lastPosition[a]

\* What a thread inside _terminal knows while it is outside the lock.
ThreadInv ==
    /\ \A t \in Thread : pc[t] = "idle" <=> call[t] = NoCall
    /\ \A t \in Thread :
           pc[t] \in Unlocked => /\ phase[call[t].attempt] = "CLOSING"
                                 /\ intent[call[t].attempt] = call[t].intent
    /\ \A t \in Thread :
           pc[t] = "built" =>
               draft[t] = [status |-> IF call[t].intent = "finish"
                                      THEN "EVALUATED" ELSE "INTERRUPTED",
                           events |-> events[call[t].attempt], by |-> t]
    /\ \A t \in Thread, a \in Attempt :
           t \in ready[a] => pc[t] = "waiting" /\ call[t].attempt = a

\* How often a closed attempt has been evaluated so far.
HistoryInv ==
    /\ EvaluatedOnce
    /\ \A t \in Thread :
           /\ pc[t] = "closed" => history[call[t].attempt] = 0
           /\ pc[t] = "built" /\ call[t].intent = "finish" =>
                  history[call[t].attempt] = 1

ReplyInv == OneOutcome /\ AckedMessageKept

IInv == TypeOK /\ RecordInv /\ CaptureInv /\ ThreadInv /\ OneWinner
          /\ HistoryInv /\ ReplyInv

-----------------------------------------------------------------------------
(* The answer read from the stored record is well typed once result and    *)
(* phase agree.                                                             *)
LEMMA StoredTerminalTyped ==
    ASSUME TypeOK, NEW a \in Attempt, NEW i \in Intent
    PROVE  StoredTerminal(a, i) \in Replies
<1>1. result[a] \in Document \cup {None}
  BY DEF TypeOK
<1>2. CASE intent[a] = i /\ phase[a] \in {"EVALUATED", "INTERRUPTED"}
             /\ result[a] # None
  BY <1>1, <1>2 DEF StoredTerminal, Outcome, Replies, Outcomes
<1>3. CASE ~(intent[a] = i /\ phase[a] \in {"EVALUATED", "INTERRUPTED"}
             /\ result[a] # None)
  BY <1>3 DEF StoredTerminal, Refusal, Replies, Refusals
<1> QED BY <1>2, <1>3


(* A thread inside _terminal has a call on some attempt.                    *)
LEMMA CallTyped ==
    ASSUME TypeOK, ThreadInv, NEW t \in Thread, pc[t] # "idle"
    PROVE  call[t] \in [attempt : Attempt, intent : Intent]
  BY DEF TypeOK, ThreadInv

(* Every step keeps every variable's type.                                  *)
LEMMA TypeStep == IInv /\ [Next]_vars => TypeOK'
<1> SUFFICES ASSUME TypeOK, RecordInv, ThreadInv, [Next]_vars PROVE TypeOK'
  BY DEF IInv
<1> USE DEF TypeOK, record, Answer, Return
<1>1. ASSUME NEW t \in Thread, NEW a \in Attempt, NEW time \in Time,
             Begin(t, a, time)
      PROVE  TypeOK'
  BY <1>1 DEF Begin, Insert, Begun, Phase, Replies
<1>2. ASSUME NEW t \in Thread, NEW a \in Attempt, NEW m \in Message,
             AppendMessage(t, a, m)
      PROVE  TypeOK'
  <2>1. m.time \in Time /\ m.position \in Position
    BY DEF Message
  <2>2. Append(events[a], m) \in Seq(Message) /\ Len(events[a]) + 1 \in Nat
    OBVIOUS
  <2>3. Ack(a, m, Len(events[a]) + 1) \in Replies
    BY <2>2 DEF Ack, Replies, Acks
  <2>4. events' \in [Attempt -> Seq(Message)]
    BY <1>2, <2>2 DEF AppendMessage, StoreMessage
  <2>5. /\ nextSequence' \in [Attempt -> Nat]
        /\ lastTime' \in [Attempt -> Time]
        /\ lastPosition' \in [Attempt -> Position \cup {-1}]
    BY <1>2, <2>1 DEF AppendMessage, StoreMessage
  <2>6. reply' \in [Thread -> Replies \cup {None}]
    BY <1>2, <2>3 DEF AppendMessage, StoreMessage
  <2> QED BY <1>2, <2>4, <2>5, <2>6 DEF AppendMessage, StoreMessage
<1>3. ASSUME NEW t \in Thread, NEW a \in Attempt, NEW m \in Message,
             RefuseMessage(t, a, m)
      PROVE  TypeOK'
  BY <1>3 DEF RefuseMessage, AppendRefusal, Refusal, Replies, Refusals
<1>4. ASSUME NEW t \in Thread, NEW a \in Attempt, NEW time \in Time,
             NEW i \in Intent, Close(t, a, time, i)
      PROVE  TypeOK'
  BY <1>4 DEF Close, CloseFrom, Phase, PC, Unlocked
<1>5. ASSUME NEW t \in Thread, NEW a \in Attempt, NEW i \in Intent,
             Join(t, a, i)
      PROVE  TypeOK'
  BY <1>5 DEF Join, PC
<1>6. ASSUME NEW t \in Thread, NEW a \in Attempt, NEW time \in Time,
             NEW i \in Intent, AnswerTerminal(t, a, time, i)
      PROVE  TypeOK'
  <2>1. TerminalRefusal(a, time, i) \in Replies
    BY StoredTerminalTyped DEF TerminalRefusal, Refusal, Replies, Refusals
  <2> QED BY <1>6, <2>1 DEF AnswerTerminal
<1>7. ASSUME NEW t \in Thread, Build(t)
      PROVE  TypeOK'
  <2>1. call[t] \in [attempt : Attempt, intent : Intent]
    BY <1>7, CallTyped DEF Build
  <2>2. [status |-> IF call[t].intent = "finish" THEN "EVALUATED"
                                                 ELSE "INTERRUPTED",
         events |-> events[call[t].attempt], by |-> t] \in Document
    BY <2>1 DEF Document
  <2>3. draft' \in [Thread -> Document \cup {None}]
    BY <1>7, <2>2 DEF Build
  <2>4. history' \in [Attempt -> Nat]
    BY <1>7, <2>1 DEF Build
  <2> QED BY <1>7, <2>3, <2>4 DEF Build, PC, Unlocked
<1>8. ASSUME NEW t \in Thread, BuildFails(t)
      PROVE  TypeOK'
  <2>1. call[t] \in [attempt : Attempt, intent : Intent]
    BY <1>8, CallTyped DEF BuildFails
  <2>2. history' \in [Attempt -> Nat]
    <3>1. history[call[t].attempt] + 1 \in Nat
      BY <2>1
    <3>2. history' = history
             \/ history' = [history EXCEPT ![call[t].attempt] = @ + 1]
      BY <1>8 DEF BuildFails
    <3> QED BY <3>1, <3>2
  <2> QED BY <1>8, <2>2 DEF BuildFails, PC, Unlocked
<1>9. ASSUME NEW t \in Thread, Publish(t)
      PROVE  TypeOK'
  <2>1. call[t] \in [attempt : Attempt, intent : Intent]
    BY <1>9, CallTyped DEF Publish
  <2>2. draft[t] \in Document
    <3>1. draft[t] = [status |-> IF call[t].intent = "finish"
                                 THEN "EVALUATED" ELSE "INTERRUPTED",
                      events |-> events[call[t].attempt], by |-> t]
      BY <1>9 DEF Publish, ThreadInv
    <3> QED BY <2>1, <3>1 DEF Document
  <2>3. Outcome(call[t].attempt, call[t].intent, draft[t]) \in Replies
    BY <2>1, <2>2 DEF Outcome, Replies, Outcomes
  <2>4. draft[t].status \in Phase
    BY <2>2 DEF Document, Phase
  <2>5. /\ result' \in [Attempt -> Document \cup {None}]
        /\ phase' \in [Attempt -> Phase]
    BY <1>9, <2>1, <2>2, <2>4 DEF Publish
  <2>6. reply' \in [Thread -> Replies \cup {None}]
    BY <1>9, <2>3 DEF Publish
  <2>7. pc' \in [Thread -> PC] /\ ready' \in [Attempt -> SUBSET Thread]
    BY <1>9, <2>1 DEF Publish, NotifyAll, PC
  <2>8. /\ call' \in [Thread -> [attempt : Attempt, intent : Intent]
                                    \cup {NoCall}]
        /\ draft' \in [Thread -> Document \cup {None}]
    BY <1>9 DEF Publish
  <2> QED BY <1>9, <2>5, <2>6, <2>7, <2>8 DEF Publish
<1>10. ASSUME NEW t \in Thread, MarkFailed(t)
       PROVE  TypeOK'
  <2>1. call[t] \in [attempt : Attempt, intent : Intent]
    BY <1>10, CallTyped DEF MarkFailed
  <2>2. Refusal("evaluation_failed", call[t].attempt) \in Replies
    BY <2>1 DEF Refusal, Replies, Refusals
  <2>3. reply' \in [Thread -> Replies \cup {None}]
    BY <1>10, <2>2 DEF MarkFailed
  <2>4. phase[call[t].attempt] = "CLOSING"
    BY <1>10 DEF MarkFailed, ThreadInv, Unlocked
  <2>5. /\ phase' = [phase EXCEPT ![call[t].attempt] = "FAILED"]
        /\ NotifyAll(call[t].attempt, t)
    BY <1>10, <2>4 DEF MarkFailed
  <2>6. phase' \in [Attempt -> Phase]
    BY <2>5 DEF Phase
  <2>7. pc' \in [Thread -> PC] /\ ready' \in [Attempt -> SUBSET Thread]
    BY <2>5 DEF NotifyAll, PC
  <2> QED BY <1>10, <2>3, <2>6, <2>7 DEF MarkFailed
<1>11. ASSUME NEW t \in Thread, Wake(t)
       PROVE  TypeOK'
  <2>1. call[t] \in [attempt : Attempt, intent : Intent]
    BY <1>11, CallTyped DEF Wake
  <2>2. StoredTerminal(call[t].attempt, call[t].intent) \in Replies
    BY <2>1, StoredTerminalTyped
  <2> QED BY <1>11, <2>2 DEF Wake, PC
<1>12. CASE UNCHANGED vars
  BY <1>12 DEF vars
<1> QED BY <1>1, <1>2, <1>3, <1>4, <1>5, <1>6, <1>7, <1>8, <1>9, <1>10, <1>11,
           <1>12 DEF Next, Proceed, Request

(* A failed evaluation is marked on an attempt that is still CLOSING: the   *)
(* early return of _mark_failed is never taken.                             *)
LEMMA MarkFailedEffect ==
    ASSUME ThreadInv, NEW t \in Thread, MarkFailed(t)
    PROVE  /\ phase' = [phase EXCEPT ![call[t].attempt] = "FAILED"]
           /\ NotifyAll(call[t].attempt, t)
           /\ Return(t, Refusal("evaluation_failed", call[t].attempt))
           /\ UNCHANGED <<intent, completion, events, nextSequence, lastTime,
                          lastPosition, history, result>>
<1>1. phase[call[t].attempt] = "CLOSING"
  BY DEF MarkFailed, ThreadInv, Unlocked
<1> QED BY <1>1 DEF MarkFailed

(* What a winner stores is the document of its own call.                    *)
LEMMA DraftOfWinner ==
    ASSUME TypeOK, ThreadInv, NEW t \in Thread, pc[t] = "built"
    PROVE  /\ call[t].attempt \in Attempt /\ call[t].intent \in Intent
           /\ phase[call[t].attempt] = "CLOSING"
           /\ intent[call[t].attempt] = call[t].intent
           /\ draft[t] \in Document
           /\ draft[t].events = events[call[t].attempt]
           /\ draft[t].status = IF call[t].intent = "finish"
                                THEN "EVALUATED" ELSE "INTERRUPTED"
<1>1. call[t] \in [attempt : Attempt, intent : Intent]
  BY CallTyped
<1>2. draft[t] = [status |-> IF call[t].intent = "finish"
                             THEN "EVALUATED" ELSE "INTERRUPTED",
                  events |-> events[call[t].attempt], by |-> t]
  BY DEF ThreadInv
<1>3. events[call[t].attempt] \in Seq(Message)
  BY <1>1 DEF TypeOK
<1>4. draft[t] \in Document
  BY <1>2, <1>3 DEF Document
<1> QED BY <1>1, <1>2, <1>4 DEF ThreadInv, Unlocked

(* Every step keeps the fields of a stored attempt consistent.              *)
LEMMA RecordStep == IInv /\ [Next]_vars => RecordInv'
<1> SUFFICES ASSUME TypeOK, RecordInv, ThreadInv, [Next]_vars
             PROVE  RecordInv'
  BY DEF IInv
<1> USE DEF TypeOK, record
<1>1. ASSUME NEW t \in Thread, NEW a \in Attempt, NEW time \in Time,
             Begin(t, a, time)
      PROVE  RecordInv'
  BY <1>1 DEF Begin, Insert, RecordInv
<1>2. ASSUME NEW t \in Thread, NEW a \in Attempt, NEW m \in Message,
             AppendMessage(t, a, m)
      PROVE  RecordInv'
  <2>1. phase[a] = "CAPTURING" /\ result[a] = None
    BY <1>2 DEF AppendMessage, StoreMessage, MayAppend, RecordInv
  <2>2. \A b \in Attempt : b # a => events'[b] = events[b]
    BY <1>2 DEF AppendMessage, StoreMessage
  <2> QED BY <1>2, <2>1, <2>2 DEF AppendMessage, StoreMessage, RecordInv
<1>3. ASSUME NEW t \in Thread, NEW a \in Attempt, NEW m \in Message,
             RefuseMessage(t, a, m)
      PROVE  RecordInv'
  BY <1>3 DEF RefuseMessage, RecordInv
<1>4. ASSUME NEW t \in Thread, NEW a \in Attempt, NEW time \in Time,
             NEW i \in Intent, Close(t, a, time, i)
      PROVE  RecordInv'
  BY <1>4, NoneAssumption DEF Close, CloseFrom, RecordInv
<1>5. ASSUME NEW t \in Thread, NEW a \in Attempt, NEW i \in Intent,
             Join(t, a, i)
      PROVE  RecordInv'
  BY <1>5 DEF Join, RecordInv
<1>6. ASSUME NEW t \in Thread, NEW a \in Attempt, NEW time \in Time,
             NEW i \in Intent, AnswerTerminal(t, a, time, i)
      PROVE  RecordInv'
  BY <1>6 DEF AnswerTerminal, RecordInv
<1>7. ASSUME NEW t \in Thread, Build(t)
      PROVE  RecordInv'
  BY <1>7 DEF Build, RecordInv
<1>8. ASSUME NEW t \in Thread, BuildFails(t)
      PROVE  RecordInv'
  BY <1>8 DEF BuildFails, RecordInv
<1>9. ASSUME NEW t \in Thread, Publish(t)
      PROVE  RecordInv'
  <2> DEFINE a == call[t].attempt
  <2>1. /\ a \in Attempt /\ phase[a] = "CLOSING" /\ draft[t] \in Document
        /\ draft[t].events = events[a]
        /\ intent[a] = call[t].intent /\ call[t].intent \in Intent
        /\ draft[t].status = IF call[t].intent = "finish"
                             THEN "EVALUATED" ELSE "INTERRUPTED"
    BY <1>9, DraftOfWinner DEF Publish
  <2>2. /\ result' = [result EXCEPT ![a] = draft[t]]
        /\ phase' = [phase EXCEPT ![a] = draft[t].status]
        /\ UNCHANGED <<intent, completion, events>>
    BY <1>9 DEF Publish
  <2>3. draft[t] # None
    BY <2>1, NoneAssumption
  <2> HIDE DEF a
  <2> QED BY <2>1, <2>2, <2>3 DEF RecordInv, Intent
<1>10. ASSUME NEW t \in Thread, MarkFailed(t)
       PROVE  RecordInv'
  <2>1. call[t].attempt \in Attempt /\ phase[call[t].attempt] = "CLOSING"
    BY <1>10, CallTyped DEF MarkFailed, ThreadInv, Unlocked
  <2> QED BY <1>10, <2>1, MarkFailedEffect DEF RecordInv
<1>11. ASSUME NEW t \in Thread, Wake(t)
       PROVE  RecordInv'
  BY <1>11 DEF Wake, RecordInv
<1>12. CASE UNCHANGED vars
  BY <1>12 DEF vars, RecordInv
<1> QED BY <1>1, <1>2, <1>3, <1>4, <1>5, <1>6, <1>7, <1>8, <1>9, <1>10, <1>11,
           <1>12 DEF Next, Proceed, Request

(* Every step keeps the captures gapless and in time order.                 *)
LEMMA CaptureStep == IInv /\ [Next]_vars => CaptureInv'
<1> SUFFICES ASSUME TypeOK, CaptureInv, ThreadInv, [Next]_vars
             PROVE  CaptureInv'
  BY DEF IInv
<1> USE DEF TypeOK, record
<1>1. ASSUME NEW t \in Thread, NEW a \in Attempt, NEW time \in Time,
             Begin(t, a, time)
      PROVE  CaptureInv'
  <2>1. events[a] = << >> /\ UNCHANGED <<events, nextSequence, lastPosition>>
    BY <1>1 DEF Begin, Insert, CaptureInv
  <2>2. /\ \A b \in Attempt : b # a => lastTime'[b] = lastTime[b]
        /\ \A b \in Attempt : phase'[b] = "ABSENT" => phase[b] = "ABSENT"
    BY <1>1 DEF Begin, Insert
  <2>3. \A n \in 1 .. Len(events[a]) : FALSE
    BY <2>1
  <2>4. CaptureOrdered'
    BY <2>1, <2>2, <2>3 DEF CaptureInv, CaptureOrdered
  <2> QED BY <2>1, <2>2, <2>4 DEF CaptureInv
<1>2. ASSUME NEW t \in Thread, NEW a \in Attempt, NEW m \in Message,
             AppendMessage(t, a, m)
      PROVE  CaptureInv'
  <2>1. /\ phase[a] = "CAPTURING" /\ m.sequence = nextSequence[a]
        /\ m.time >= lastTime[a] /\ m.position >= lastPosition[a]
        /\ m.position <= TotalPosition
        /\ events' = [events EXCEPT ![a] = Append(@, m)]
        /\ nextSequence' = [nextSequence EXCEPT ![a] = @ + 1]
        /\ lastTime' = [lastTime EXCEPT ![a] = m.time]
        /\ lastPosition' = [lastPosition EXCEPT ![a] = m.position]
        /\ UNCHANGED phase
    BY <1>2 DEF AppendMessage, StoreMessage, MayAppend, CheckClock,
                CheckPosition
  <2>2. ASSUME NEW b \in Attempt, b # a
        PROVE  /\ events'[b] = events[b] /\ nextSequence'[b] = nextSequence[b]
               /\ lastTime'[b] = lastTime[b]
               /\ lastPosition'[b] = lastPosition[b]
    BY <2>1, <2>2
  <2> DEFINE e == events[a]
             f == Append(e, m)
  <2>3. /\ events'[a] = f /\ nextSequence'[a] = nextSequence[a] + 1
        /\ lastTime'[a] = m.time /\ lastPosition'[a] = m.position
    BY <2>1
  <2>4. /\ e \in Seq(Message) /\ Len(e) \in Nat /\ Len(f) = Len(e) + 1
        /\ f[Len(e) + 1] = m
        /\ \A n \in 1 .. Len(e) : f[n] = e[n]
        /\ \A n \in 1 .. Len(e) : e[n] \in Message
    OBVIOUS
  <2>5. /\ nextSequence[a] = Len(e)
        /\ \A n \in 1 .. Len(e) :
               /\ e[n].sequence = n - 1 /\ e[n].time <= lastTime[a]
               /\ e[n].position <= TotalPosition
               /\ e[n].position <= lastPosition[a]
        /\ \A n \in 1 .. Len(e) - 1 : /\ e[n].time <= e[n + 1].time
                                     /\ e[n].position <= e[n + 1].position
    BY DEF CaptureInv, CaptureOrdered
  <2>6. /\ m.time \in Int /\ m.position \in Int /\ m.sequence \in Int
        /\ lastTime[a] \in Int /\ lastPosition[a] \in Int
        /\ \A n \in 1 .. Len(e) : e[n].time \in Int /\ e[n].position \in Int
    <3>1. \A l \in Message : /\ l.time \in Int /\ l.position \in Int
                             /\ l.sequence \in Int
      BY ConstantsAssumption DEF Message, Time, Position
    <3>2. lastTime[a] \in Time /\ lastPosition[a] \in Position \cup {-1}
      OBVIOUS
    <3>3. lastTime[a] \in Int /\ lastPosition[a] \in Int
      BY <3>2, ConstantsAssumption DEF Time, Position
    <3> HIDE DEF TypeOK
    <3> QED BY <3>1, <3>3, <2>4
  <2> HIDE DEF e, f
  <2>7. \A n \in 1 .. Len(f) :
            /\ f[n].sequence = n - 1 /\ f[n].time <= m.time
            /\ f[n].position <= TotalPosition /\ f[n].position <= m.position
    <3> SUFFICES ASSUME NEW n \in 1 .. Len(f)
                 PROVE  /\ f[n].sequence = n - 1 /\ f[n].time <= m.time
                        /\ f[n].position <= TotalPosition
                        /\ f[n].position <= m.position
      OBVIOUS
    <3>1. CASE n = Len(e) + 1
      BY <3>1, <2>1, <2>4, <2>5, <2>6
    <3>2. CASE n \in 1 .. Len(e)
      <4>1. f[n] = e[n]
        BY <3>2, <2>4
      <4>2. /\ e[n].sequence = n - 1 /\ e[n].time <= lastTime[a]
            /\ e[n].position <= TotalPosition
            /\ e[n].position <= lastPosition[a]
        BY <3>2, <2>5
      <4>3. e[n].time \in Int /\ e[n].position \in Int
        BY <3>2, <2>6
      <4>4. e[n].time <= m.time
        <5>1. lastTime[a] \in Int /\ m.time \in Int /\ lastTime[a] <= m.time
          BY <2>1, <2>6
        <5> QED BY <4>2, <4>3, <5>1
      <4>5. e[n].position <= m.position
        <5>1. /\ lastPosition[a] \in Int /\ m.position \in Int
              /\ lastPosition[a] <= m.position
          BY <2>1, <2>6
        <5> QED BY <4>2, <4>3, <5>1
      <4> QED BY <4>1, <4>2, <4>4, <4>5
    <3> QED BY <3>1, <3>2, <2>4
  <2>8. \A n \in 1 .. Len(f) - 1 : /\ f[n].time <= f[n + 1].time
                                 /\ f[n].position <= f[n + 1].position
    <3> SUFFICES ASSUME NEW n \in 1 .. Len(f) - 1
                 PROVE  /\ f[n].time <= f[n + 1].time
                        /\ f[n].position <= f[n + 1].position
      OBVIOUS
    <3>1. CASE n = Len(e)
      BY <3>1, <2>4, <2>7
    <3>2. CASE n \in 1 .. Len(e) - 1
      BY <3>2, <2>4, <2>5
    <3> QED BY <3>1, <3>2, <2>4
  <2>9. /\ nextSequence'[a] = Len(events'[a])
        /\ lastPosition'[a] <= TotalPosition
        /\ phase'[a] # "ABSENT"
    BY <2>1, <2>3, <2>4, <2>5
  <2>10. CaptureOrdered'
    <3> SUFFICES ASSUME NEW b \in Attempt
                 PROVE  (nextSequence[b] = Len(events[b])
                         /\ (\A n \in 1 .. Len(events[b]) :
                               /\ events[b][n].sequence = n - 1
                               /\ events[b][n].time <= lastTime[b]
                               /\ events[b][n].position <= TotalPosition)
                         /\ \A n \in 1 .. Len(events[b]) - 1 :
                               /\ events[b][n].time <= events[b][n + 1].time
                               /\ events[b][n].position
                                      <= events[b][n + 1].position)'
      BY DEF CaptureOrdered
    <3>1. CASE b = a
      BY <3>1, <2>3, <2>7, <2>8, <2>9
    <3>2. CASE b # a
      BY <3>2, <2>2 DEF CaptureInv, CaptureOrdered
    <3> QED BY <3>1, <3>2
  <2> QED BY <2>1, <2>2, <2>3, <2>7, <2>9, <2>10 DEF CaptureInv
<1>3. ASSUME NEW t \in Thread, NEW a \in Attempt, NEW time \in Time,
             NEW i \in Intent, Close(t, a, time, i)
      PROVE  CaptureInv'
  BY <1>3 DEF Close, CloseFrom, CaptureInv, CaptureOrdered
<1>4. ASSUME NEW t \in Thread, Publish(t)
      PROVE  CaptureInv'
  <2>1. /\ call[t].attempt \in Attempt /\ phase[call[t].attempt] = "CLOSING"
        /\ \A b \in Attempt : b # call[t].attempt => phase'[b] = phase[b]
        /\ phase'[call[t].attempt] # "ABSENT"
    BY <1>4, DraftOfWinner DEF Publish
  <2>2. UNCHANGED <<events, nextSequence, lastTime, lastPosition>>
    BY <1>4 DEF Publish
  <2> QED BY <2>1, <2>2 DEF CaptureInv, CaptureOrdered
<1>5. ASSUME NEW t \in Thread, MarkFailed(t)
      PROVE  CaptureInv'
  BY <1>5, MarkFailedEffect DEF CaptureInv, CaptureOrdered
<1>6. CASE UNCHANGED <<phase, events, nextSequence, lastTime, lastPosition>>
  BY <1>6 DEF CaptureInv, CaptureOrdered
<1>7. ASSUME NEW t \in Thread, NEW a \in Attempt,
             \/ \E m \in Message : RefuseMessage(t, a, m)
             \/ \E i \in Intent : Join(t, a, i)
             \/ \E time \in Time, i \in Intent : AnswerTerminal(t, a, time, i)
      PROVE  CaptureInv'
  BY <1>6, <1>7 DEF RefuseMessage, Join, AnswerTerminal
<1>8. ASSUME NEW t \in Thread, Build(t) \/ BuildFails(t) \/ Wake(t)
      PROVE  CaptureInv'
  BY <1>6, <1>8 DEF Build, BuildFails, Wake
<1>9. CASE UNCHANGED vars
  BY <1>6, <1>9 DEF vars
<1> QED
  BY <1>1, <1>2, <1>3, <1>4, <1>5, <1>7, <1>8, <1>9
     DEF Next, Proceed, Request

(* Only the thread that holds the evaluation can move a CLOSING attempt on, *)
(* so what it knows without the lock stays true until it returns.           *)
LEMMA ThreadStep == IInv /\ [Next]_vars => ThreadInv' /\ OneWinner'
<1> SUFFICES ASSUME TypeOK, ThreadInv, OneWinner, [Next]_vars
             PROVE  ThreadInv' /\ OneWinner'
  BY DEF IInv
<1> USE DEF TypeOK, record
<1>1. ASSUME NEW t \in Thread, NEW a \in Attempt, NEW time \in Time,
             Begin(t, a, time)
      PROVE  ThreadInv' /\ OneWinner'
  BY <1>1 DEF Begin, Insert, ThreadInv, OneWinner, Winners
<1>2. ASSUME NEW t \in Thread, NEW a \in Attempt, NEW m \in Message,
             AppendMessage(t, a, m)
      PROVE  ThreadInv' /\ OneWinner'
  <2>1. /\ phase[a] = "CAPTURING" /\ UNCHANGED <<phase, intent, pc, call, draft, ready>>
        /\ \A b \in Attempt : b # a => events'[b] = events[b]
    BY <1>2 DEF AppendMessage, StoreMessage, MayAppend
  <2>2. \A u \in Thread : pc[u] = "built" =>
            events'[call[u].attempt] = events[call[u].attempt]
    BY <2>1, DraftOfWinner
  <2>3. ThreadInv'
    <3>1. (\A u \in Thread :
           pc[u] = "built" =>
               draft[u] = [status |-> IF call[u].intent = "finish"
                                      THEN "EVALUATED" ELSE "INTERRUPTED",
                           events |-> events[call[u].attempt], by |-> u])'
      <4> SUFFICES ASSUME NEW u \in Thread, pc[u] = "built"
                   PROVE  draft[u] =
                              [status |-> IF call[u].intent = "finish"
                                          THEN "EVALUATED" ELSE "INTERRUPTED",
                               events |-> events'[call[u].attempt], by |-> u]
        BY <2>1
      <4>1. draft[u] = [status |-> IF call[u].intent = "finish"
                                   THEN "EVALUATED" ELSE "INTERRUPTED",
                        events |-> events[call[u].attempt], by |-> u]
        BY DEF ThreadInv
      <4>2. events'[call[u].attempt] = events[call[u].attempt]
        BY <2>2
      <4> QED BY <4>1, <4>2
    <3>2. (\A u \in Thread : pc[u] = "idle" <=> call[u] = NoCall)'
      BY <2>1 DEF ThreadInv
    <3>3. (\A u \in Thread :
              pc[u] \in Unlocked => /\ phase[call[u].attempt] = "CLOSING"
                                    /\ intent[call[u].attempt] = call[u].intent)'
      BY <2>1 DEF ThreadInv
    <3>4. (\A u \in Thread, b \in Attempt :
              u \in ready[b] => pc[u] = "waiting" /\ call[u].attempt = b)'
      BY <2>1 DEF ThreadInv
    <3> QED BY <3>1, <3>2, <3>3, <3>4 DEF ThreadInv
  <2>4. \A b \in Attempt : Winners(b)' = Winners(b)
    BY <2>1 DEF Winners
  <2>5. OneWinner'
    BY <2>1, <2>4 DEF OneWinner
  <2> QED BY <2>3, <2>5
<1>3. ASSUME NEW t \in Thread, NEW a \in Attempt, NEW time \in Time,
             NEW i \in Intent, Close(t, a, time, i)
      PROVE  ThreadInv' /\ OneWinner'
  <2>1. /\ pc[t] = "idle" /\ phase[a] = "CAPTURING"
        /\ phase' = [phase EXCEPT ![a] = "CLOSING"]
        /\ intent' = [intent EXCEPT ![a] = i]
        /\ pc' = [pc EXCEPT ![t] = "closed"]
        /\ call' = [call EXCEPT ![t] = [attempt |-> a, intent |-> i]]
        /\ UNCHANGED <<events, ready, draft>>
    BY <1>3 DEF Close, CloseFrom
  <2>2. [attempt |-> a, intent |-> i] # NoCall
    BY NoneAssumption DEF NoCall
  <2>3. Winners(a) = {}
    BY <2>1 DEF OneWinner
  <2>4. ThreadInv'
    <3>1. \A u \in Thread : u # t => pc'[u] = pc[u] /\ call'[u] = call[u]
      BY <2>1
    <3>2. pc'[t] = "closed" /\ call'[t] = [attempt |-> a, intent |-> i]
      BY <2>1
    <3>3. \A u \in Thread : pc[u] \in Unlocked => call[u].attempt # a
      BY <2>1 DEF ThreadInv
    <3>4. \A u \in Thread : pc'[u] = "idle" <=> call'[u] = NoCall
      <4> SUFFICES ASSUME NEW u \in Thread
                   PROVE  pc'[u] = "idle" <=> call'[u] = NoCall
        OBVIOUS
      <4>1. CASE u = t
        BY <4>1, <3>2, <2>2
      <4>2. CASE u # t
        BY <4>2, <3>1 DEF ThreadInv
      <4> QED BY <4>1, <4>2
    <3>5. (\A u \in Thread :
              pc[u] \in Unlocked => /\ phase[call[u].attempt] = "CLOSING"
                                    /\ intent[call[u].attempt] = call[u].intent)'
      BY <2>1, <3>1, <3>2, <3>3 DEF ThreadInv
    <3>6. (\A u \in Thread, b \in Attempt :
              u \in ready[b] => pc[u] = "waiting" /\ call[u].attempt = b)'
      BY <2>1, <3>1 DEF ThreadInv
    <3>7. (\A u \in Thread :
           pc[u] = "built" =>
               draft[u] = [status |-> IF call[u].intent = "finish"
                                      THEN "EVALUATED" ELSE "INTERRUPTED",
                           events |-> events[call[u].attempt], by |-> u])'
      BY <2>1, <3>1, <3>2 DEF ThreadInv
    <3> QED BY <3>4, <3>5, <3>6, <3>7 DEF ThreadInv
  <2>5. Winners(a)' = {t}
    BY <2>1, <2>3 DEF Winners, Unlocked
  <2>6. ASSUME NEW b \in Attempt, b # a
        PROVE  Winners(b)' = Winners(b) /\ phase'[b] = phase[b]
    BY <2>1, <2>6 DEF Winners, Unlocked
  <2>7. phase'[a] = "CLOSING"
    BY <2>1
  <2>8. OneWinner'
    <3> SUFFICES ASSUME NEW b \in Attempt
                 PROVE  /\ phase'[b] = "CLOSING" <=> Winners(b)' # {}
                        /\ \A u, w \in Winners(b)' : u = w
      BY DEF OneWinner
    <3>1. CASE b = a
      BY <3>1, <2>5, <2>7
    <3>2. CASE b # a
      BY <3>2, <2>6 DEF OneWinner
    <3> QED BY <3>1, <3>2
  <2> QED BY <2>4, <2>8
<1>4. ASSUME NEW t \in Thread, NEW a \in Attempt, NEW i \in Intent,
             Join(t, a, i)
      PROVE  ThreadInv' /\ OneWinner'
  <2>1. [attempt |-> a, intent |-> i] # NoCall
    BY NoneAssumption DEF NoCall
  <2>2. ThreadInv'
    BY <1>4, <2>1 DEF Join, ThreadInv, Unlocked
  <2>3. \A b \in Attempt : Winners(b)' = Winners(b)
    BY <1>4 DEF Join, Winners, Unlocked
  <2>4. OneWinner'
    BY <1>4, <2>3 DEF Join, OneWinner
  <2> QED BY <2>2, <2>4
<1>5. ASSUME NEW t \in Thread,
             \/ Build(t) \/ BuildFails(t)
      PROVE  ThreadInv' /\ OneWinner'
  <2>1. /\ pc[t] = "closed" /\ UNCHANGED <<phase, intent, events, ready, call>>
        /\ \/ pc' = [pc EXCEPT ![t] = "built"]
           \/ pc' = [pc EXCEPT ![t] = "failed"] /\ UNCHANGED draft
        /\ pc'[t] = "built" => draft' = [draft EXCEPT ![t] =
                 [status |-> IF call[t].intent = "finish"
                             THEN "EVALUATED" ELSE "INTERRUPTED",
                  events |-> events[call[t].attempt], by |-> t]]
    BY <1>5 DEF Build, BuildFails
  <2>2. ThreadInv'
    <3>1. \A u \in Thread : u # t => pc'[u] = pc[u] /\ draft'[u] = draft[u]
      BY <2>1
    <3>2. pc'[t] \in {"built", "failed"}
      BY <2>1
    <3>3. \A u \in Thread : pc'[u] = "idle" <=> call'[u] = NoCall
      BY <2>1, <3>1, <3>2 DEF ThreadInv
    <3>4. \A u \in Thread : pc'[u] \in Unlocked => pc[u] \in Unlocked
      BY <2>1, <3>1, <3>2 DEF Unlocked
    <3>5. (\A u \in Thread :
              pc[u] \in Unlocked => /\ phase[call[u].attempt] = "CLOSING"
                                    /\ intent[call[u].attempt] = call[u].intent)'
      BY <2>1, <3>4 DEF ThreadInv
    <3>6. (\A u \in Thread :
           pc[u] = "built" =>
               draft[u] = [status |-> IF call[u].intent = "finish"
                                      THEN "EVALUATED" ELSE "INTERRUPTED",
                           events |-> events[call[u].attempt], by |-> u])'
      <4> SUFFICES ASSUME NEW u \in Thread, pc'[u] = "built"
                   PROVE  draft'[u] =
                              [status |-> IF call[u].intent = "finish"
                                          THEN "EVALUATED" ELSE "INTERRUPTED",
                               events |-> events[call[u].attempt], by |-> u]
        BY <2>1
      <4>1. CASE u = t
        BY <4>1, <2>1
      <4>2. CASE u # t
        BY <4>2, <3>1 DEF ThreadInv
      <4> QED BY <4>1, <4>2
    <3>7. (\A u \in Thread, b \in Attempt :
              u \in ready[b] => pc[u] = "waiting" /\ call[u].attempt = b)'
      BY <2>1, <3>1 DEF ThreadInv
    <3> QED BY <3>3, <3>5, <3>6, <3>7 DEF ThreadInv
  <2>3. \A b \in Attempt : Winners(b)' = Winners(b)
    BY <2>1 DEF Winners, Unlocked
  <2>4. OneWinner'
    BY <2>1, <2>3 DEF OneWinner
  <2> QED BY <2>2, <2>4
<1>6. ASSUME NEW t \in Thread, Publish(t) \/ MarkFailed(t)
      PROVE  ThreadInv' /\ OneWinner'
  <2>0. PICK a \in Attempt : a = call[t].attempt
    BY <1>6, CallTyped DEF Publish, MarkFailed
  <2>1. /\ pc[t] \in Unlocked /\ phase[a] = "CLOSING"
    BY <1>6, <2>0 DEF Publish, MarkFailed, ThreadInv, Unlocked
  <2>2. /\ \A b \in Attempt : b # a => phase'[b] = phase[b]
        /\ phase'[a] # "CLOSING"
    <3>1. CASE Publish(t)
      BY <3>1, <2>0, DraftOfWinner DEF Publish
    <3>2. CASE MarkFailed(t)
      BY <3>2, <2>0, <2>1, MarkFailedEffect
    <3> QED BY <1>6, <3>1, <3>2
  <2>3. /\ ready' = [ready EXCEPT ![a] = {}]
        /\ pc' = [u \in Thread |-> IF u = t THEN "idle"
                                   ELSE IF u \in ready[a] THEN "woken" ELSE pc[u]]
        /\ call' = [call EXCEPT ![t] = NoCall]
        /\ draft' = [draft EXCEPT ![t] = None]
        /\ UNCHANGED <<intent, events>>
    <3>1. CASE Publish(t)
      BY <3>1, <2>0 DEF Publish, NotifyAll, Return
    <3>2. CASE MarkFailed(t)
      BY <3>2, <2>0, MarkFailedEffect DEF NotifyAll, Return
    <3> QED BY <1>6, <3>1, <3>2
  <2>4. /\ pc'[t] = "idle" /\ call'[t] = NoCall
        /\ \A u \in Thread : u # t => call'[u] = call[u] /\ draft'[u] = draft[u]
        /\ \A u \in Thread :
               u # t => (pc'[u] = pc[u] \/ (u \in ready[a] /\ pc'[u] = "woken"))
    <3>1. pc'[t] = "idle"
      BY <2>3
    <3>2. call'[t] = NoCall
      BY <2>3
    <3>3. ASSUME NEW u \in Thread, u # t
          PROVE  call'[u] = call[u] /\ draft'[u] = draft[u]
      BY <2>3, <3>3
    <3>4. ASSUME NEW u \in Thread, u # t
          PROVE  pc'[u] = pc[u] \/ (u \in ready[a] /\ pc'[u] = "woken")
      BY <2>3, <3>4
    <3> QED BY <3>1, <3>2, <3>3, <3>4
  <2>5. \A u \in Thread : u \in ready[a] => pc[u] = "waiting"
    BY <2>1 DEF ThreadInv
  <2>6. \A u \in Thread : pc'[u] \in Unlocked <=> u # t /\ pc[u] \in Unlocked
    BY <2>3, <2>5 DEF Unlocked
  <2>7. \A u \in Thread : u # t /\ pc[u] \in Unlocked => call[u].attempt # a
    BY <2>0, <2>1 DEF OneWinner, Winners
  <2>8. ThreadInv'
    <3>1. \A u \in Thread : pc'[u] = "idle" <=> call'[u] = NoCall
      <4> SUFFICES ASSUME NEW u \in Thread
                   PROVE  pc'[u] = "idle" <=> call'[u] = NoCall
        OBVIOUS
      <4>1. CASE u = t
        BY <4>1, <2>4
      <4>2. CASE u # t
        BY <4>2, <2>4, <2>5 DEF ThreadInv
      <4> QED BY <4>1, <4>2
    <3>2. (\A u \in Thread :
              pc[u] \in Unlocked => /\ phase[call[u].attempt] = "CLOSING"
                                    /\ intent[call[u].attempt] = call[u].intent)'
      <4> SUFFICES ASSUME NEW u \in Thread, pc'[u] \in Unlocked
                   PROVE  (/\ phase[call[u].attempt] = "CLOSING"
                           /\ intent[call[u].attempt] = call[u].intent)'
        OBVIOUS
      <4>1. u # t /\ pc[u] \in Unlocked /\ call[u].attempt # a /\ call'[u] = call[u]
        BY <2>4, <2>6, <2>7
      <4>2. call[u].attempt \in Attempt
        BY <4>1, CallTyped DEF Unlocked
      <4> QED BY <4>1, <4>2, <2>2, <2>3 DEF ThreadInv
    <3>3. (\A u \in Thread :
           pc[u] = "built" =>
               draft[u] = [status |-> IF call[u].intent = "finish"
                                      THEN "EVALUATED" ELSE "INTERRUPTED",
                           events |-> events[call[u].attempt], by |-> u])'
      BY <2>3, <2>4 DEF ThreadInv
    <3>4. (\A u \in Thread, b \in Attempt :
              u \in ready[b] => pc[u] = "waiting" /\ call[u].attempt = b)'
      <4> SUFFICES ASSUME NEW u \in Thread, NEW b \in Attempt, u \in ready'[b]
                   PROVE  pc'[u] = "waiting" /\ call'[u].attempt = b
        OBVIOUS
      <4>1. b # a /\ u \in ready[b]
        BY <2>1, <2>3
      <4>2. pc[u] = "waiting" /\ call[u].attempt = b
        BY <4>1 DEF ThreadInv
      <4>3. u # t /\ u \notin ready[a]
        BY <2>0, <2>1, <4>1, <4>2 DEF ThreadInv, Unlocked
      <4> QED BY <2>3, <2>4, <4>2, <4>3
    <3> QED BY <3>1, <3>2, <3>3, <3>4 DEF ThreadInv
  <2>9. OneWinner'
    <3>1. \A b \in Attempt : b # a => Winners(b)' = Winners(b)
      BY <2>0, <2>4, <2>6 DEF Winners
    <3>2. Winners(a)' = {}
      <4> SUFFICES ASSUME NEW u \in Thread, pc'[u] \in Unlocked,
                          call'[u].attempt = a
                   PROVE  FALSE
        BY DEF Winners
      <4>1. u # t /\ pc[u] \in Unlocked /\ call'[u] = call[u]
        BY <2>4, <2>6
      <4> QED BY <4>1, <2>7
    <3> SUFFICES ASSUME NEW b \in Attempt
                 PROVE  /\ phase'[b] = "CLOSING" <=> Winners(b)' # {}
                        /\ \A u, w \in Winners(b)' : u = w
      BY DEF OneWinner
    <3>3. CASE b = a
      <4>1. phase'[b] # "CLOSING" /\ Winners(b)' = {}
        BY <3>3, <2>2, <3>2 DEF Winners
      <4> QED BY <4>1
    <3>4. CASE b # a
      BY <3>4, <2>2, <3>1 DEF OneWinner
    <3> QED BY <3>3, <3>4
  <2> QED BY <2>8, <2>9
<1>7. ASSUME NEW t \in Thread, Wake(t)
      PROVE  ThreadInv' /\ OneWinner'
  <2>1. /\ pc[t] = "woken" /\ pc' = [pc EXCEPT ![t] = "idle"]
        /\ call' = [call EXCEPT ![t] = NoCall]
        /\ draft' = [draft EXCEPT ![t] = None]
        /\ UNCHANGED <<phase, intent, events, ready>>
    BY <1>7 DEF Wake, Return
  <2>2. ThreadInv'
    BY <2>1 DEF ThreadInv, Unlocked
  <2>3. \A b \in Attempt : Winners(b)' = Winners(b)
    BY <2>1 DEF Winners, Unlocked
  <2>4. OneWinner'
    BY <2>1, <2>3 DEF OneWinner
  <2> QED BY <2>2, <2>4
<1>8. CASE UNCHANGED <<phase, intent, events, ready, pc, call, draft>>
  BY <1>8 DEF ThreadInv, OneWinner, Winners
<1>9. ASSUME NEW t \in Thread, NEW a \in Attempt,
             \/ \E m \in Message : RefuseMessage(t, a, m)
             \/ \E time \in Time, i \in Intent : AnswerTerminal(t, a, time, i)
      PROVE  ThreadInv' /\ OneWinner'
  BY <1>8, <1>9 DEF RefuseMessage, AnswerTerminal
<1>10. CASE UNCHANGED vars
  BY <1>8, <1>10 DEF vars
<1> QED
  BY <1>1, <1>2, <1>3, <1>4, <1>5, <1>6, <1>7, <1>9, <1>10
     DEF Next, Proceed, Request

(* A thread that may still evaluate an attempt is the only one, so its      *)
(* evaluation is the first.                                                 *)
LEMMA HistoryStep == IInv /\ [Next]_vars => HistoryInv'
<1> SUFFICES ASSUME TypeOK, RecordInv, ThreadInv, OneWinner, HistoryInv,
                    [Next]_vars
             PROVE  HistoryInv'
  BY DEF IInv
<1> USE DEF TypeOK, record
<1>1. ASSUME NEW t \in Thread, NEW a \in Attempt, NEW time \in Time,
             Begin(t, a, time)
      PROVE  HistoryInv'
  BY <1>1 DEF Begin, Insert, HistoryInv, EvaluatedOnce
<1>2. ASSUME NEW t \in Thread, NEW a \in Attempt, NEW time \in Time,
             NEW i \in Intent, Close(t, a, time, i)
      PROVE  HistoryInv'
  <2>1. /\ phase[a] = "CAPTURING" /\ phase' = [phase EXCEPT ![a] = "CLOSING"]
        /\ intent' = [intent EXCEPT ![a] = i]
        /\ pc' = [pc EXCEPT ![t] = "closed"]
        /\ call' = [call EXCEPT ![t] = [attempt |-> a, intent |-> i]]
        /\ UNCHANGED history
    BY <1>2 DEF Close, CloseFrom
  <2>2. history[a] = 0
    BY <2>1, NoneAssumption DEF RecordInv, HistoryInv, EvaluatedOnce, Intent
  <2>3. EvaluatedOnce'
    BY <2>1, <2>2 DEF HistoryInv, EvaluatedOnce
  <2>4. /\ pc'[t] = "closed" /\ call'[t].attempt = a
        /\ \A u \in Thread : u # t => pc'[u] = pc[u] /\ call'[u] = call[u]
    BY <2>1
  <2> QED BY <2>1, <2>2, <2>3, <2>4 DEF HistoryInv
<1>3. ASSUME NEW t \in Thread, NEW a \in Attempt, NEW i \in Intent,
             Join(t, a, i)
      PROVE  HistoryInv'
  BY <1>3 DEF Join, HistoryInv, EvaluatedOnce
<1>4. ASSUME NEW t \in Thread, Build(t) \/ BuildFails(t)
      PROVE  HistoryInv'
  <2>0. PICK a \in Attempt : a = call[t].attempt
    BY <1>4, CallTyped DEF Build, BuildFails
  <2>1. /\ pc[t] = "closed" /\ phase[a] = "CLOSING" /\ history[a] = 0
        /\ intent[a] = call[t].intent
    BY <1>4, <2>0 DEF Build, BuildFails, ThreadInv, Unlocked, HistoryInv
  <2>2. UNCHANGED <<phase, intent, call>>
    BY <1>4 DEF Build, BuildFails
  <2>3. /\ \A b \in Attempt : b # a => history'[b] = history[b]
        /\ history'[a] \in {0, 1}
        /\ history'[a] = 1 => call[t].intent = "finish"
    <3>1. CASE history' = history
      BY <3>1, <2>1
    <3>2. CASE /\ history' = [history EXCEPT ![a] = @ + 1]
               /\ call[t].intent = "finish"
      BY <3>2, <2>1
    <3> QED BY <1>4, <2>0, <3>1, <3>2 DEF Build, BuildFails
  <2>4. EvaluatedOnce'
    BY <2>1, <2>2, <2>3 DEF HistoryInv, EvaluatedOnce
  <2>5. \A u \in Thread : u # t /\ pc[u] \in Unlocked => call[u].attempt # a
    BY <2>0, <2>1 DEF OneWinner, Winners, Unlocked
  <2>6. \A u \in Thread : u # t => pc'[u] = pc[u]
    BY <1>4 DEF Build, BuildFails
  <2>7. ASSUME NEW u \in Thread, u # t
        PROVE  /\ pc'[u] = "closed" => history'[call'[u].attempt] = 0
               /\ pc'[u] = "built" /\ call'[u].intent = "finish" =>
                      history'[call'[u].attempt] = 1
    <3>1. CASE pc[u] \in Unlocked
      <4>1. call[u].attempt # a /\ call[u].attempt \in Attempt
        BY <3>1, <2>5, <2>7, CallTyped DEF Unlocked
      <4> QED BY <4>1, <2>2, <2>3, <2>6, <2>7 DEF HistoryInv
    <3> QED BY <3>1, <2>6, <2>7 DEF Unlocked
  <2>8. /\ pc'[t] # "closed"
        /\ pc'[t] = "built" /\ call'[t].intent = "finish" =>
               history'[call'[t].attempt] = 1
    <3>1. CASE Build(t)
      BY <3>1, <2>0, <2>1, <2>2 DEF Build
    <3>2. CASE BuildFails(t)
      BY <3>2 DEF BuildFails
    <3> QED BY <1>4, <3>1, <3>2
  <2> QED BY <2>4, <2>7, <2>8 DEF HistoryInv
<1>5. ASSUME NEW t \in Thread, Publish(t) \/ MarkFailed(t)
      PROVE  HistoryInv'
  <2>0. PICK a \in Attempt : a = call[t].attempt
    BY <1>5, CallTyped DEF Publish, MarkFailed
  <2>1. /\ \A b \in Attempt : b # a => phase'[b] = phase[b]
        /\ phase'[a] = "EVALUATED" => pc[t] = "built" /\ call[t].intent = "finish"
        /\ UNCHANGED <<intent, history>>
    <3>1. CASE Publish(t)
      BY <3>1, <2>0, DraftOfWinner DEF Publish
    <3>2. CASE MarkFailed(t)
      BY <3>2, <2>0, MarkFailedEffect
    <3> QED BY <1>5, <3>1, <3>2
  <2>2. EvaluatedOnce'
    BY <2>0, <2>1 DEF HistoryInv, EvaluatedOnce
  <2>3. /\ NotifyAll(a, t) /\ call' = [call EXCEPT ![t] = NoCall]
    <3>1. CASE Publish(t)
      BY <3>1, <2>0 DEF Publish, Return
    <3>2. CASE MarkFailed(t)
      BY <3>2, <2>0, MarkFailedEffect DEF Return
    <3> QED BY <1>5, <3>1, <3>2
  <2>4. ASSUME NEW u \in Thread
        PROVE  /\ pc'[u] \in Unlocked => u # t /\ pc'[u] = pc[u]
               /\ u # t => call'[u] = call[u]
    BY <2>3 DEF NotifyAll, Unlocked
  <2> QED BY <2>1, <2>2, <2>4 DEF HistoryInv, Unlocked
<1>6. ASSUME NEW t \in Thread, Wake(t)
      PROVE  HistoryInv'
  <2>1. /\ UNCHANGED <<phase, intent, history>>
        /\ pc' = [pc EXCEPT ![t] = "idle"] /\ call' = [call EXCEPT ![t] = NoCall]
    BY <1>6 DEF Wake, Return
  <2> QED BY <2>1 DEF HistoryInv, EvaluatedOnce
<1>7. CASE UNCHANGED <<phase, intent, history, pc, call>>
  BY <1>7 DEF HistoryInv, EvaluatedOnce
<1>8. ASSUME NEW t \in Thread, NEW a \in Attempt,
             \/ \E m \in Message :
                    AppendMessage(t, a, m) \/ RefuseMessage(t, a, m)
             \/ \E time \in Time, i \in Intent : AnswerTerminal(t, a, time, i)
      PROVE  HistoryInv'
  BY <1>7, <1>8 DEF AppendMessage, StoreMessage, RefuseMessage, AnswerTerminal
<1>9. CASE UNCHANGED vars
  BY <1>7, <1>9 DEF vars
<1> QED
  BY <1>1, <1>2, <1>3, <1>4, <1>5, <1>6, <1>8, <1>9
     DEF Next, Proceed, Request

-----------------------------------------------------------------------------
\* A 200 answer that is still true of the stored attempt.
ReplyHolds(r) ==
    /\ (r # None /\ r.kind = "document") =>
           /\ result[r.attempt] = r.document
           /\ intent[r.attempt] = r.intent
           /\ result[r.attempt].events = events[r.attempt]
           /\ result[r.attempt].status = phase[r.attempt]
    /\ (r # None /\ r.kind = "ack") =>
           /\ r.count \in 1 .. Len(events[r.attempt])
           /\ events[r.attempt][r.count] = r.message

(* The two reply invariants are one statement about every thread's reply.   *)
LEMMA RepliesHold == ReplyInv <=> \A t \in Thread : ReplyHolds(reply[t])
  BY DEF ReplyInv, OneOutcome, AckedMessageKept, ReplyHolds

(* What _stored_terminal answers is what is stored.                         *)
LEMMA StoredTerminalHolds ==
    ASSUME TypeOK, RecordInv, NEW a \in Attempt, NEW i \in Intent
    PROVE  ReplyHolds(StoredTerminal(a, i))
<1>1. CASE /\ intent[a] = i /\ phase[a] \in {"EVALUATED", "INTERRUPTED"}
           /\ result[a] # None
  <2>1. StoredTerminal(a, i) = Outcome(a, i, result[a])
    BY <1>1 DEF StoredTerminal
  <2> QED BY <1>1, <2>1 DEF ReplyHolds, Outcome, RecordInv
<1>2. CASE ~(/\ intent[a] = i /\ phase[a] \in {"EVALUATED", "INTERRUPTED"}
             /\ result[a] # None)
  <2>1. StoredTerminal(a, i).kind \in {"evaluation_failed", "attempt_conflict"}
    BY <1>2 DEF StoredTerminal, Refusal
  <2> QED BY <2>1 DEF ReplyHolds
<1> QED BY <1>1, <1>2

(* One step never moves the evidence of a closed capture, nor anything of   *)
(* an attempt in a terminal phase.                                          *)
LEMMA FrozenStep ==
    ASSUME IInv, [Next]_vars, NEW a \in Attempt
    PROVE  /\ completion[a] # "IN_PROGRESS" =>
                  UNCHANGED <<completion[a], intent[a], events[a]>>
           /\ phase[a] \in Terminal =>
                  UNCHANGED <<phase[a], result[a], history[a]>>
<1> USE DEF TypeOK, record, Terminal
<1>0. /\ TypeOK /\ RecordInv /\ ThreadInv
      /\ completion[a] # "IN_PROGRESS" <=> phase[a] \notin {"ABSENT", "CAPTURING"}
  BY DEF IInv, RecordInv
<1>1. ASSUME NEW t \in Thread, NEW b \in Attempt, NEW time \in Time,
             Begin(t, b, time)
      PROVE  UNCHANGED <<completion[a], intent[a], events[a], result[a], history[a]>>
             /\ (phase[a] \in Terminal => UNCHANGED phase[a])
  BY <1>1 DEF Begin, Insert
<1>2. ASSUME NEW t \in Thread, NEW b \in Attempt, NEW m \in Message,
             AppendMessage(t, b, m)
      PROVE  /\ UNCHANGED <<completion[a], intent[a], result[a], history[a], phase[a]>>
             /\ completion[a] # "IN_PROGRESS" => UNCHANGED events[a]
  <2>1. /\ UNCHANGED <<completion, intent, result, history, phase>>
        /\ events' = [events EXCEPT ![b] = Append(@, m)] /\ phase[b] = "CAPTURING"
    BY <1>2 DEF AppendMessage, StoreMessage, MayAppend
  <2>2. completion[a] # "IN_PROGRESS" => a # b
    BY <1>0, <2>1
  <2> QED BY <2>1, <2>2
<1>3. ASSUME NEW t \in Thread, NEW b \in Attempt, NEW time \in Time,
             NEW i \in Intent, Close(t, b, time, i)
      PROVE  /\ UNCHANGED <<events[a], result[a], history[a]>>
             /\ phase[a] # "CAPTURING" =>
                    UNCHANGED <<completion[a], intent[a], phase[a]>>
  BY <1>3 DEF Close, CloseFrom
<1>4. ASSUME NEW t \in Thread, Build(t) \/ BuildFails(t)
      PROVE  /\ UNCHANGED <<completion[a], intent[a], events[a], result[a], phase[a]>>
             /\ phase[a] \in Terminal => UNCHANGED history[a]
  <2>1. call[t].attempt \in Attempt /\ phase[call[t].attempt] = "CLOSING"
    BY <1>0, <1>4, CallTyped DEF Build, BuildFails, ThreadInv, Unlocked
  <2>2. /\ UNCHANGED <<completion, intent, events, result, phase>>
        /\ \/ UNCHANGED history
           \/ history' = [history EXCEPT ![call[t].attempt] = @ + 1]
    BY <1>4 DEF Build, BuildFails
  <2>3. a # call[t].attempt => history'[a] = history[a]
    BY <1>0, <2>1, <2>2
  <2>4. phase[a] \in Terminal => a # call[t].attempt
    BY <2>1
  <2> QED BY <2>2, <2>3, <2>4
<1>5. ASSUME NEW t \in Thread, Publish(t) \/ MarkFailed(t)
      PROVE  /\ UNCHANGED <<completion[a], intent[a], events[a], history[a]>>
             /\ phase[a] \in Terminal => UNCHANGED <<phase[a], result[a]>>
  <2>1. call[t].attempt \in Attempt /\ phase[call[t].attempt] = "CLOSING"
    BY <1>0, <1>5, CallTyped DEF Publish, MarkFailed, ThreadInv, Unlocked
  <2>2. CASE Publish(t)
    BY <2>1, <2>2 DEF Publish
  <2>3. CASE MarkFailed(t)
    BY <1>0, <2>1, <2>3, MarkFailedEffect
  <2> QED BY <1>5, <2>2, <2>3
<1>6. CASE UNCHANGED record
  BY <1>6
<1>7. ASSUME NEW t \in Thread, NEW b \in Attempt,
             \/ \E m \in Message : RefuseMessage(t, b, m)
             \/ \E i \in Intent : Join(t, b, i)
             \/ \E time \in Time, i \in Intent : AnswerTerminal(t, b, time, i)
      PROVE  UNCHANGED record
  BY <1>7 DEF RefuseMessage, Join, AnswerTerminal
<1>8. ASSUME NEW t \in Thread, Wake(t)
      PROVE  UNCHANGED record
  BY <1>8 DEF Wake
<1>9. CASE UNCHANGED vars
  BY <1>6, <1>9 DEF vars
<1> QED
  BY <1>0, <1>1, <1>2, <1>3, <1>4, <1>5, <1>6, <1>7, <1>8, <1>9
     DEF Next, Proceed, Request

(* A step only extends a capture: what was captured keeps its place.        *)
LEMMA AppendOnlyStep ==
    ASSUME IInv, [Next]_vars, NEW a \in Attempt
    PROVE  /\ Len(events[a]) \in Nat /\ Len(events'[a]) \in Nat
           /\ Len(events[a]) <= Len(events'[a])
           /\ \A n \in 1 .. Len(events[a]) : events'[a][n] = events[a][n]
<1>1. events[a] \in Seq(Message)
  BY DEF IInv, TypeOK
<1>2. CASE UNCHANGED events
  BY <1>1, <1>2
<1>3. ASSUME NEW t \in Thread, NEW b \in Attempt, NEW m \in Message,
             AppendMessage(t, b, m)
      PROVE  events' = [events EXCEPT ![b] = Append(@, m)]
  BY <1>3 DEF AppendMessage, StoreMessage
<1>4. ASSUME NEW b \in Attempt, NEW m \in Message,
             events' = [events EXCEPT ![b] = Append(@, m)]
      PROVE  /\ Len(events[a]) \in Nat /\ Len(events'[a]) \in Nat
             /\ Len(events[a]) <= Len(events'[a])
             /\ \A n \in 1 .. Len(events[a]) : events'[a][n] = events[a][n]
  <2>1. events'[a] = events[a] \/ events'[a] = Append(events[a], m)
    BY <1>4 DEF IInv, TypeOK
  <2> QED BY <1>1, <2>1
<1>5. ASSUME NEW t \in Thread, Proceed(t)
      PROVE  UNCHANGED events
  BY <1>5, MarkFailedEffect
     DEF Proceed, Build, BuildFails, Publish, Wake, record, IInv
<1>6. ASSUME NEW t \in Thread, NEW b \in Attempt, Request(t, b),
             ~ \E m \in Message : AppendMessage(t, b, m)
      PROVE  UNCHANGED events
  BY <1>6 DEF Request, Begin, Insert, RefuseMessage, Close, CloseFrom, Join,
              AnswerTerminal, record
<1> QED BY <1>2, <1>3, <1>4, <1>5, <1>6 DEF Next, vars, record

(* An answer once true stays true: the verdict is final and captured        *)
(* messages are never taken back.                                           *)
LEMMA ReplyStable ==
    ASSUME IInv, [Next]_vars, NEW r \in Replies \cup {None}, ReplyHolds(r)
    PROVE  ReplyHolds(r)'
<1>1. CASE r # None /\ r.kind = "document"
  <2>1. r \in Outcomes
    BY <1>1 DEF Replies, Acks, Refusals
  <2>2. PICK a \in Attempt : a = r.attempt
    BY <2>1 DEF Outcomes
  <2>3. result[a] # None
    BY <1>1, <2>1, <2>2, NoneAssumption DEF Outcomes, ReplyHolds
  <2>4. phase[a] \in {"EVALUATED", "INTERRUPTED"} /\ completion[a] # "IN_PROGRESS"
    BY <2>3 DEF IInv, RecordInv
  <2>5. UNCHANGED <<phase[a], result[a], intent[a], events[a]>>
    BY <2>4, FrozenStep DEF Terminal
  <2> QED BY <1>1, <2>2, <2>5 DEF ReplyHolds
<1>2. CASE r # None /\ r.kind = "ack"
  <2>1. r \in Acks
    BY <1>2 DEF Replies, Outcomes, Refusals
  <2>2. PICK a \in Attempt : a = r.attempt
    BY <2>1 DEF Acks
  <2>3. r.count \in 1 .. Len(events[a]) /\ events[a][r.count] = r.message
    BY <1>2, <2>2 DEF ReplyHolds
  <2>4. r.count \in 1 .. Len(events'[a]) /\ events'[a][r.count] = r.message
    BY <2>3, AppendOnlyStep
  <2> QED BY <1>2, <2>2, <2>4 DEF ReplyHolds
<1> QED BY <1>1, <1>2 DEF ReplyHolds

(* Every new answer is true when it is given, and every old one stays so.   *)
LEMMA ReplyStep == IInv /\ [Next]_vars => ReplyInv'
<1> SUFFICES ASSUME IInv, [Next]_vars, NEW u \in Thread
             PROVE  ReplyHolds(reply[u])'
  BY RepliesHold DEF ReplyInv, OneOutcome, AckedMessageKept, ReplyHolds
<1>0. /\ TypeOK /\ RecordInv /\ ThreadInv /\ reply[u] \in Replies \cup {None}
      /\ ReplyHolds(reply[u])
  BY RepliesHold DEF IInv, TypeOK
<1>1. CASE reply'[u] = reply[u]
  <2>1. PICK r \in Replies \cup {None} : r = reply[u]
    BY <1>0
  <2>2. ReplyHolds(r)'
    BY <1>0, <2>1, ReplyStable
  <2> QED BY <1>1, <2>1, <2>2 DEF ReplyHolds
<1>2. ASSUME NEW r, reply' = [reply EXCEPT ![u] = r],
             r = None \/ r.kind \notin {"document", "ack"}
      PROVE  ReplyHolds(reply[u])'
  <2>1. reply'[u] = r
    BY <1>0, <1>2 DEF TypeOK
  <2> QED BY <1>2, <2>1 DEF ReplyHolds
<1>3. ASSUME NEW a \in Attempt, NEW time \in Time, Begin(u, a, time)
      PROVE  ReplyHolds(reply[u])'
  BY <1>2, <1>3 DEF Begin, Answer, Begun
<1>4. ASSUME NEW a \in Attempt, NEW m \in Message, AppendMessage(u, a, m)
      PROVE  ReplyHolds(reply[u])'
  <2> DEFINE e == events[a]
  <2>1. /\ reply'[u] = Ack(a, m, Len(e) + 1)
        /\ events'[a] = Append(e, m) /\ e \in Seq(Message)
    BY <1>0, <1>4 DEF AppendMessage, StoreMessage, Answer, TypeOK
  <2>2. /\ Len(Append(e, m)) = Len(e) + 1 /\ Len(e) + 1 \in 1 .. Len(Append(e, m))
        /\ Append(e, m)[Len(e) + 1] = m
    BY <2>1
  <2> HIDE DEF e
  <2> QED BY <2>1, <2>2 DEF ReplyHolds, Ack
<1>5. ASSUME NEW a \in Attempt, NEW m \in Message, RefuseMessage(u, a, m)
      PROVE  ReplyHolds(reply[u])'
  BY <1>2, <1>5 DEF RefuseMessage, Answer, Refusal, AppendRefusal
<1>6. ASSUME NEW a \in Attempt, NEW time \in Time, NEW i \in Intent,
             Close(u, a, time, i)
      PROVE  ReplyHolds(reply[u])'
  BY <1>2, <1>6 DEF Close, CloseFrom, Answer
<1>7. ASSUME NEW a \in Attempt, NEW i \in Intent, Join(u, a, i)
      PROVE  ReplyHolds(reply[u])'
  BY <1>2, <1>7 DEF Join, Answer
<1>8. ASSUME NEW r \in Replies, ReplyHolds(r), reply' = [reply EXCEPT ![u] = r]
      PROVE  ReplyHolds(reply[u])'
  <2>1. ReplyHolds(r)'
    BY <1>8, ReplyStable
  <2>2. reply'[u] = r
    BY <1>0, <1>8 DEF TypeOK
  <2> QED BY <2>1, <2>2 DEF ReplyHolds
<1>9. ASSUME NEW a \in Attempt, NEW time \in Time, NEW i \in Intent,
             AnswerTerminal(u, a, time, i)
      PROVE  ReplyHolds(reply[u])'
  <2>1. PICK r : r = TerminalRefusal(a, time, i)
    OBVIOUS
  <2>2. reply' = [reply EXCEPT ![u] = r]
    BY <1>9, <2>1 DEF AnswerTerminal, Answer
  <2>3. CASE phase[a] \in {"ABSENT", "CAPTURING"}
    BY <1>2, <2>1, <2>2, <2>3 DEF TerminalRefusal, Refusal
  <2>4. CASE phase[a] \notin {"ABSENT", "CAPTURING"}
    <3>1. r = StoredTerminal(a, i)
      BY <2>1, <2>4 DEF TerminalRefusal
    <3>2. r \in Replies /\ ReplyHolds(r)
      BY <1>0, <3>1, StoredTerminalTyped, StoredTerminalHolds
    <3> QED BY <1>8, <2>2, <3>2
  <2> QED BY <2>3, <2>4
<1>10. ASSUME Build(u) \/ BuildFails(u)
       PROVE  ReplyHolds(reply[u])'
  BY <1>1, <1>10 DEF Build, BuildFails
<1>11. ASSUME Publish(u)
       PROVE  ReplyHolds(reply[u])'
  <2>0. PICK a \in Attempt : a = call[u].attempt
    BY <1>0, <1>11, CallTyped DEF Publish
  <2>1. /\ reply'[u] = Outcome(a, call[u].intent, draft[u])
        /\ result'[a] = draft[u] /\ phase'[a] = draft[u].status
        /\ UNCHANGED <<intent, events>>
    BY <1>0, <1>11, <2>0 DEF Publish, Return, Answer, TypeOK
  <2>2. intent[a] = call[u].intent /\ draft[u].events = events[a]
    BY <1>0, <1>11, <2>0, DraftOfWinner DEF Publish
  <2> QED BY <2>1, <2>2 DEF ReplyHolds, Outcome
<1>12. ASSUME MarkFailed(u)
       PROVE  ReplyHolds(reply[u])'
  BY <1>0, <1>2, <1>12, MarkFailedEffect DEF Return, Answer, Refusal
<1>13. ASSUME Wake(u)
       PROVE  ReplyHolds(reply[u])'
  <2>1. call[u].attempt \in Attempt /\ call[u].intent \in Intent
    BY <1>0, <1>13, CallTyped DEF Wake
  <2>2. PICK r : r = StoredTerminal(call[u].attempt, call[u].intent)
    OBVIOUS
  <2>3. r \in Replies /\ ReplyHolds(r)
    BY <1>0, <2>1, <2>2, StoredTerminalTyped, StoredTerminalHolds
  <2> QED BY <1>8, <1>13, <2>2, <2>3 DEF Wake, Return, Answer
<1>14. ASSUME NEW t \in Thread, t # u,
              Proceed(t) \/ \E a \in Attempt : Request(t, a)
       PROVE  reply'[u] = reply[u]
  <2>1. \/ UNCHANGED reply
        \/ \E r : reply' = [reply EXCEPT ![t] = r]
    BY <1>14 DEF Proceed, Request, Begin, AppendMessage, StoreMessage,
                 RefuseMessage, Close, CloseFrom, Join, AnswerTerminal, Build,
                 BuildFails, Publish, MarkFailed, Wake, Return, Answer
  <2> QED BY <1>0, <1>14, <2>1 DEF TypeOK
<1>15. CASE UNCHANGED vars
  BY <1>1, <1>15 DEF vars
<1>16. ASSUME Proceed(u) \/ \E a \in Attempt : Request(u, a)
       PROVE  ReplyHolds(reply[u])'
  BY <1>3, <1>4, <1>5, <1>6, <1>7, <1>9, <1>10, <1>11, <1>12, <1>13, <1>16
     DEF Proceed, Request
<1> QED BY <1>1, <1>14, <1>15, <1>16 DEF Next

-----------------------------------------------------------------------------
(* Nothing has been begun, answered or evaluated when the server starts.    *)
LEMMA InitInv == Init => IInv
<1> SUFFICES ASSUME Init PROVE IInv
  OBVIOUS
<1>1. TypeOK
  BY ConstantsAssumption
     DEF Init, TypeOK, Phase, Time, Position, PC, Unlocked
<1>2. RecordInv
  BY NoneAssumption DEF Init, RecordInv, Intent
<1>3. CaptureInv
  <2>1. \A a \in Attempt : /\ events[a] = << >> /\ nextSequence[a] = 0
                          /\ lastPosition[a] = -1
    BY DEF Init
  <2>2. -1 <= TotalPosition
    BY ConstantsAssumption
  <2> QED BY <2>1, <2>2 DEF CaptureInv, CaptureOrdered
<1>4. ThreadInv
  BY DEF Init, ThreadInv, Unlocked
<1>5. OneWinner
  BY DEF Init, OneWinner, Winners, Unlocked
<1>6. HistoryInv
  BY DEF Init, HistoryInv, EvaluatedOnce
<1>7. ReplyInv
  BY DEF Init, ReplyInv, OneOutcome, AckedMessageKept
<1> QED BY <1>1, <1>2, <1>3, <1>4, <1>5, <1>6, <1>7 DEF IInv

(* IInv holds in every reachable state, for any number of attempts and      *)
(* request threads and any bound on messages, clocks and positions.         *)
THEOREM Invariance == Spec => []IInv
<1>1. IInv /\ [Next]_vars => IInv'
  BY TypeStep, RecordStep, CaptureStep, ThreadStep, HistoryStep, ReplyStep
     DEF IInv
<1> QED BY InitInv, <1>1, PTL DEF Spec

(* Type correctness of the service.                                         *)
THEOREM TypeCorrect == Spec => []TypeOK
<1>1. IInv => TypeOK
  BY DEF IInv
<1> QED BY Invariance, <1>1, PTL

(* A repeat, a waiter and the winner are never told two things.             *)
THEOREM OutcomeIsUnique == Spec => []OneOutcome
<1>1. IInv => OneOutcome
  BY DEF IInv, ReplyInv
<1> QED BY Invariance, <1>1, PTL

(* An acknowledged message is never lost or moved.                          *)
THEOREM AcksAreKept == Spec => []AckedMessageKept
<1>1. IInv => AckedMessageKept
  BY DEF IInv, ReplyInv
<1> QED BY Invariance, <1>1, PTL

(* Captures are gapless and in time order.                                  *)
THEOREM CapturesAreOrdered == Spec => []CaptureOrdered
<1>1. IInv => CaptureOrdered
  BY DEF IInv, CaptureInv
<1> QED BY Invariance, <1>1, PTL

(* No attempt is evaluated twice.                                           *)
THEOREM NoSecondEvaluation == Spec => []EvaluatedOnce
<1>1. IInv => EvaluatedOnce
  BY DEF IInv, HistoryInv
<1> QED BY Invariance, <1>1, PTL

(* A CLOSING attempt has exactly one thread that will move it on.           *)
THEOREM WinnerIsUnique == Spec => []OneWinner
<1>1. IInv => OneWinner
  BY DEF IInv
<1> QED BY Invariance, <1>1, PTL

(* Closed evidence and terminal attempts never change.                      *)
THEOREM ClosedIsFrozen == Spec => FrozenWhenClosed
<1>1. IInv /\ [Next]_vars =>
         [\A a \in Attempt :
             /\ completion[a] # "IN_PROGRESS" =>
                    UNCHANGED <<completion[a], intent[a], events[a]>>
             /\ phase[a] \in Terminal =>
                    UNCHANGED <<phase[a], result[a], history[a]>>]_vars
  BY FrozenStep
<1> QED BY Invariance, <1>1, PTL DEF Spec, FrozenWhenClosed

-----------------------------------------------------------------------------
(* The empty server is the empty record.                                    *)
LEMMA RecordInitially == Init => Record!RecordInit
<1> SUFFICES ASSUME Init PROVE Record!RecordInit
  OBVIOUS
<1>1. ASSUME NEW a \in Attempt
      PROVE  SealedBy(a) = "absent" /\ VerdictOn(a) = None
  <2>1. phase[a] = "ABSENT" /\ result[a] = None
    BY DEF Init
  <2>2. SealedBy(a) = "absent"
    BY DEF SealedBy, Init
  <2>3. phase[a] # "FAILED" /\ result[a] = None
    BY <2>1
  <2>4. VerdictOn(a) = None
    BY <2>3 DEF VerdictOn, Verdict
  <2> QED BY <2>2, <2>4
<1>2. events = [a \in Attempt |-> << >>]
  BY DEF Init
<1> QED BY <1>1, <1>2 DEF Record!RecordInit

(* What the callers see of an attempt depends on these four fields only.    *)
LEMMA ViewStable ==
    ASSUME NEW a \in Attempt,
           UNCHANGED <<phase[a], intent[a], result[a], events[a]>>
    PROVE  SealedBy(a)' = SealedBy(a) /\ VerdictOn(a)' = VerdictOn(a)
  BY DEF SealedBy, VerdictOn, Verdict

(* Building a document, answering, waiting and waking change nothing of the *)
(* attempt that its callers see; every other step is one step of the record.*)
LEMMA RecordSimulates ==
    ASSUME IInv, IInv', [Next]_vars
    PROVE  [Record!RecordNext]_(Record!avars)
<1> DEFINE seen == [a \in Attempt |-> SealedBy(a)]
           told == [a \in Attempt |-> VerdictOn(a)]
<1> USE DEF record
<1>0. TypeOK /\ RecordInv /\ ThreadInv /\ CaptureInv
  BY DEF IInv
<1>1. CASE UNCHANGED record
  <2>1. \A a \in Attempt : SealedBy(a)' = SealedBy(a) /\ VerdictOn(a)' = VerdictOn(a)
    BY <1>1, ViewStable
  <2>2. seen' = seen /\ told' = told /\ events' = events
    BY <1>1, <2>1
  <2> QED BY <2>2 DEF Record!avars
<1>2. ASSUME NEW t \in Thread, NEW a \in Attempt, NEW time \in Time,
             Begin(t, a, time)
      PROVE  Record!Open(a)
  <2>1. /\ phase[a] = "ABSENT" /\ intent[a] = None /\ phase'[a] = "CAPTURING"
        /\ result[a] = None /\ UNCHANGED <<intent, result, events>>
        /\ \A b \in Attempt : b # a => phase'[b] = phase[b]
    BY <1>0, <1>2 DEF Begin, Insert, RecordInv, TypeOK
  <2>2. seen[a] = "absent" /\ SealedBy(a)' = "open"
    BY <2>1 DEF SealedBy
  <2>3. VerdictOn(a)' = VerdictOn(a)
    BY <2>1 DEF VerdictOn, Verdict
  <2>4. \A b \in Attempt : b # a =>
            SealedBy(b)' = SealedBy(b) /\ VerdictOn(b)' = VerdictOn(b)
    BY <2>1, ViewStable
  <2>5. seen' = [seen EXCEPT ![a] = "open"] /\ told' = told
    BY <2>2, <2>3, <2>4
  <2> QED BY <2>1, <2>2, <2>5 DEF Record!Open
<1>3. ASSUME NEW t \in Thread, NEW a \in Attempt, NEW m \in Message,
             AppendMessage(t, a, m)
      PROVE  Record!Accept(a)
  <2>1. /\ phase[a] = "CAPTURING" /\ intent[a] = None /\ result[a] = None
        /\ m.sequence = Len(events[a])
        /\ events' = [events EXCEPT ![a] = Append(@, m)]
        /\ UNCHANGED <<intent, result, phase>>
    BY <1>0, <1>3 DEF AppendMessage, StoreMessage, MayAppend, RecordInv,
                      CaptureInv, CaptureOrdered
  <2>2. seen[a] = "open"
    BY <2>1 DEF SealedBy
  <2>3. \A b \in Attempt : SealedBy(b)' = SealedBy(b)
    BY <2>1 DEF SealedBy
  <2>4. VerdictOn(a)' = VerdictOn(a)
    BY <2>1 DEF VerdictOn, Verdict
  <2>5. \A b \in Attempt : b # a => events'[b] = events[b]
    BY <1>0, <2>1 DEF TypeOK
  <2>6. \A b \in Attempt : b # a => VerdictOn(b)' = VerdictOn(b)
    BY <2>1, <2>5, ViewStable
  <2>7. seen' = seen /\ told' = told
    BY <2>3, <2>4, <2>6
  <2> QED BY <2>1, <2>2, <2>7 DEF Record!Accept
<1>4. ASSUME NEW t \in Thread, NEW a \in Attempt, NEW time \in Time,
             NEW i \in Intent, Close(t, a, time, i)
      PROVE  Record!Seal(a)
  <2>1. /\ phase[a] = "CAPTURING" /\ intent[a] = None /\ result[a] = None
        /\ phase'[a] = "CLOSING" /\ intent'[a] = i /\ i # None
        /\ UNCHANGED <<result, events>>
        /\ \A b \in Attempt : b # a => phase'[b] = phase[b] /\ intent'[b] = intent[b]
    BY <1>0, <1>4, NoneAssumption DEF Close, CloseFrom, RecordInv, TypeOK
  <2>2. seen[a] = "open" /\ SealedBy(a)' = i
    BY <2>1 DEF SealedBy
  <2>3. VerdictOn(a)' = VerdictOn(a)
    BY <2>1 DEF VerdictOn, Verdict
  <2>4. \A b \in Attempt : b # a =>
            SealedBy(b)' = SealedBy(b) /\ VerdictOn(b)' = VerdictOn(b)
    BY <2>1, ViewStable
  <2>5. seen' = [seen EXCEPT ![a] = i] /\ told' = told
    BY <2>2, <2>3, <2>4
  <2> QED BY <2>1, <2>2, <2>5 DEF Record!Seal, Intent
<1>5. ASSUME NEW t \in Thread, Publish(t) \/ MarkFailed(t)
      PROVE  \E a \in Attempt : Record!Decide(a)
  <2>0. PICK a \in Attempt : a = call[t].attempt
    BY <1>0, <1>5, CallTyped DEF Publish, MarkFailed
  <2>1. /\ phase[a] = "CLOSING" /\ intent[a] = call[t].intent
        /\ intent[a] \in Intent /\ result[a] = None
    BY <1>0, <1>5, <2>0, CallTyped
       DEF Publish, MarkFailed, ThreadInv, Unlocked, RecordInv
  <2>2. /\ UNCHANGED <<intent, events>>
        /\ \A b \in Attempt : b # a => phase'[b] = phase[b] /\ result'[b] = result[b]
        /\ phase'[a] # "ABSENT"
        /\ VerdictOn(a)' \in [status : Record!StatusesFor(intent[a]),
                              events : {events[a]}]
    <3>1. CASE Publish(t)
      <4>1. /\ result'[a] = draft[t] /\ phase'[a] = draft[t].status
            /\ draft[t] \in Document /\ draft[t].events = events[a]
            /\ draft[t].status = IF intent[a] = "finish"
                                 THEN "EVALUATED" ELSE "INTERRUPTED"
        BY <1>0, <2>0, <2>1, <3>1, DraftOfWinner DEF Publish, TypeOK
      <4>2. VerdictOn(a)' = [status |-> draft[t].status, events |-> events[a]]
        BY <4>1, NoneAssumption DEF VerdictOn, Verdict
      <4>3. draft[t].status \in Record!StatusesFor(intent[a])
        BY <2>1, <4>1 DEF Record!StatusesFor
      <4>4. /\ UNCHANGED <<intent, events>> /\ phase'[a] # "ABSENT"
            /\ \A b \in Attempt : b # a => phase'[b] = phase[b]
                                         /\ result'[b] = result[b]
        BY <1>0, <2>0, <3>1, <4>1 DEF Publish, TypeOK
      <4> QED BY <4>2, <4>3, <4>4
    <3>2. CASE MarkFailed(t)
      <4>1. /\ phase'[a] = "FAILED" /\ UNCHANGED <<intent, events, result>>
            /\ \A b \in Attempt : b # a => phase'[b] = phase[b]
        BY <1>0, <2>0, <3>2, MarkFailedEffect DEF TypeOK
      <4>2. VerdictOn(a)' = [status |-> "FAILED", events |-> events[a]]
        BY <4>1 DEF VerdictOn, Verdict
      <4> QED BY <2>1, <4>1, <4>2 DEF Record!StatusesFor
    <3> QED BY <1>5, <3>1, <3>2
  <2>3. PICK s \in Record!StatusesFor(intent[a]) :
            VerdictOn(a)' = [status |-> s, events |-> events[a]]
    BY <2>2
  <2>4. SealedBy(a) = intent[a] /\ SealedBy(a)' = intent[a] /\ VerdictOn(a) = None
    BY <2>1, <2>2, NoneAssumption DEF SealedBy, VerdictOn, Verdict
  <2>5. \A b \in Attempt : b # a =>
            SealedBy(b)' = SealedBy(b) /\ VerdictOn(b)' = VerdictOn(b)
    BY <2>2, ViewStable
  <2>6. /\ seen[a] \in {"finish", "cancel"} /\ told[a] = None
        /\ seen[a] = intent[a] /\ seen' = seen /\ events' = events
        /\ told' = [told EXCEPT ![a] = [status |-> s, events |-> events[a]]]
    BY <2>1, <2>2, <2>3, <2>4, <2>5 DEF Intent
  <2>7. Record!Decide(a)
    BY <2>6, <2>3 DEF Record!Decide
  <2> QED BY <2>7
<1>6. ASSUME NEW t \in Thread, Build(t) \/ BuildFails(t)
      PROVE  UNCHANGED <<seen, told, events>>
  <2>1. \A a \in Attempt : SealedBy(a)' = SealedBy(a) /\ VerdictOn(a)' = VerdictOn(a)
    BY <1>6, ViewStable DEF Build, BuildFails
  <2> QED BY <1>6, <2>1 DEF Build, BuildFails
<1>7. ASSUME NEW t \in Thread, NEW a \in Attempt,
             \/ \E m \in Message : RefuseMessage(t, a, m)
             \/ \E i \in Intent : Join(t, a, i)
             \/ \E time \in Time, i \in Intent : AnswerTerminal(t, a, time, i)
      PROVE  UNCHANGED record
  BY <1>7 DEF RefuseMessage, Join, AnswerTerminal
<1>8. ASSUME NEW t \in Thread, Wake(t)
      PROVE  UNCHANGED record
  BY <1>8 DEF Wake
<1>9. CASE UNCHANGED vars
  BY <1>1, <1>9 DEF vars
<1> QED
  BY <1>1, <1>2, <1>3, <1>4, <1>5, <1>6, <1>7, <1>8, <1>9
     DEF Next, Proceed, Request, Record!RecordNext, Record!avars

(* The service's every behaviour is a behaviour of the attempt record.      *)
THEOREM ImplementsRecordSafety == Spec => Record!RecordSafety
<1>1. IInv /\ IInv' /\ [Next]_vars => [Record!RecordNext]_(Record!avars)
  BY RecordSimulates
<1> QED BY Invariance, RecordInitially, <1>1, PTL DEF Spec, Record!RecordSafety

-----------------------------------------------------------------------------
(* Begins, retries and recoveries of attempts                               *)

Mine(k) == {a \in Attempt : keyOf[a] = k}

\* The attempts behind a key, seen from its entry.
KeyInv ==
    /\ \A a \in Attempt : keyOf[a] # None => phase[a] # "ABSENT"
    /\ \A k \in Key :
           /\ \A a, b \in Mine(k) : a = b
           /\ entry[k].phase = "unknown" => Mine(k) = {} /\ said[k] = {}
           /\ entry[k].phase \in {"unknown", "preparing", "recovery_requested",
                                  "no_attempt"} => entry[k].attempt = None
           /\ entry[k].attempt # None => Mine(k) = {entry[k].attempt}

\* What a thread inside the gateway knows of its key.
JobInv ==
    \A t \in Thread :
        /\ step[t] # "idle" => job[t].key \in Key /\ job[t].payload \in Payload
        /\ step[t] \in {"preparing", "assembled"} => Mine(job[t].key) = {}
        /\ step[t] = "committed" => /\ job[t].attempt \in Attempt
                                    /\ Mine(job[t].key) = {job[t].attempt}
        /\ step[t] \in {"checking", "cancelling", "cancelled"} =>
               /\ job[t].attempt \in Attempt
               /\ entry[job[t].key].attempt = job[t].attempt

\* Such a thread is in the service only while it cancels, and what the service
\* answers it is about the attempt it cancels.
CancelInv ==
    \A t \in Thread :
        /\ step[t] \notin {"idle", "cancelled"} => pc[t] = "idle"
        /\ step[t] = "cancelled" =>
               /\ pc[t] # "idle" => call[t] = [attempt |-> job[t].attempt,
                                               intent |-> "cancel"]
               /\ pc[t] = "idle" =>
                      /\ reply[t] # None
                      /\ reply[t].kind = "document" =>
                             /\ reply[t].attempt = job[t].attempt
                             /\ reply[t].intent = "cancel"

GInv == /\ IInv /\ GatewayTypeOK /\ KeyInv /\ JobInv /\ CancelInv
        /\ OneWorkerPerKey /\ EntriesAreTrue /\ AnswersStand

-----------------------------------------------------------------------------
(* A new attempt that nobody has been told of keeps the service's invariant. *)
LEMMA InsertStep ==
    ASSUME IInv, NEW a \in Attempt, NEW time \in Time, Insert(a, time),
           UNCHANGED <<pc, call, draft, reply>>
    PROVE  IInv'
<1>0. TypeOK /\ RecordInv /\ CaptureInv /\ ThreadInv /\ OneWinner /\ HistoryInv
      /\ ReplyInv
  BY DEF IInv
<1> USE DEF Insert
<1>1. TypeOK'
  BY <1>0 DEF TypeOK, Phase
<1>2. RecordInv'
  BY <1>0 DEF RecordInv, TypeOK
<1>3. CaptureInv'
  <2>1. events[a] = << >> /\ UNCHANGED <<events, nextSequence, lastPosition>>
    BY <1>0 DEF CaptureInv
  <2>2. /\ \A b \in Attempt : b # a => lastTime'[b] = lastTime[b]
        /\ \A b \in Attempt : phase'[b] = "ABSENT" => phase[b] = "ABSENT"
    BY <1>0 DEF TypeOK
  <2>3. \A n \in 1 .. Len(events[a]) : FALSE
    BY <2>1
  <2>4. CaptureOrdered'
    BY <1>0, <2>1, <2>2, <2>3 DEF CaptureInv, CaptureOrdered
  <2> QED BY <1>0, <2>1, <2>2, <2>4 DEF CaptureInv
<1>4. \A b \in Attempt : phase[b] \in Terminal \cup {"CLOSING"} => phase'[b] = phase[b]
  BY <1>0 DEF TypeOK, Terminal
<1>5. ThreadInv'
  BY <1>0, <1>4, CallTyped DEF ThreadInv, TypeOK, Unlocked
<1>6. OneWinner'
  BY <1>0, <1>4 DEF OneWinner, Winners, TypeOK
<1>7. HistoryInv'
  BY <1>0 DEF HistoryInv, EvaluatedOnce, TypeOK
<1>8. ReplyInv'
  <2>1. ASSUME NEW t \in Thread, reply[t] # None, reply[t].kind = "document"
        PROVE  /\ reply[t].attempt \in Attempt
               /\ phase[reply[t].attempt] \in Terminal
    <3>1. reply[t] \in Outcomes
      BY <1>0, <2>1 DEF TypeOK, Replies, Refusals, Acks
    <3>2. result[reply[t].attempt] # None
      BY <1>0, <2>1, <3>1, NoneAssumption DEF ReplyInv, OneOutcome, Outcomes
    <3> QED BY <1>0, <3>1, <3>2 DEF RecordInv, Outcomes, Terminal
  <2> QED BY <1>0, <1>4, <2>1 DEF ReplyInv, OneOutcome, AckedMessageKept
<1> QED BY <1>1, <1>2, <1>3, <1>5, <1>6, <1>7, <1>8 DEF IInv

(* A step of the service keeps its invariant.                               *)
LEMMA ServiceKeeps == IInv /\ [Next]_vars => IInv'
  BY TypeStep, RecordStep, CaptureStep, ThreadStep, HistoryStep, ReplyStep
     DEF IInv

(* A client's request, and a thread's way through the service, are steps of *)
(* the service that leave the gateway alone.                                *)
LEMMA ServiceSteps ==
    ASSUME NEW t \in Thread, ClientRequest(t) \/ ServiceProceed(t)
    PROVE  Next /\ UNCHANGED gateway
  BY DEF ClientRequest, ServiceProceed, Told, Next, Request

(* The gateway's own cancel is a step of the service.                       *)
LEMMA CancelSteps ==
    ASSUME NEW t \in Thread, CallCancel(t), JobInv
    PROVE  Next
<1>1. job[t].attempt \in Attempt /\ job[t].payload.time \in Time
  BY DEF CallCancel, JobInv, Payload
<1> QED BY <1>1 DEF CallCancel, Next, Request, Intent

(* Every step of the gateway keeps the service's invariant.                 *)
LEMMA IInvStep == IInv /\ JobInv /\ [GatewayNext]_gvars => IInv'
<1> SUFFICES ASSUME IInv, JobInv, [GatewayNext]_gvars PROVE IInv'
  OBVIOUS
<1>1. ASSUME NEW t \in Thread, ClientRequest(t) \/ ServiceProceed(t)
      PROVE  IInv'
  BY <1>1, ServiceSteps, ServiceKeeps
<1>2. ASSUME NEW t \in Thread, NEW a \in Attempt, Commit(t, a)
      PROVE  IInv'
  <2>1. job[t].payload.time \in Time
    BY <1>2 DEF Commit, JobInv, Payload
  <2> QED BY <1>2, <2>1, InsertStep DEF Commit
<1>3. ASSUME NEW t \in Thread, CallCancel(t)
      PROVE  IInv'
  BY <1>3, CancelSteps, ServiceKeeps
<1>4. ASSUME UNCHANGED vars
      PROVE  IInv'
  BY <1>4, ServiceKeeps
<1>5. ASSUME NEW t \in Thread,
             \/ GatewayProceed(t) /\ ~CallCancel(t) /\ ~ \E a \in Attempt : Commit(t, a)
             \/ \E k \in Key, p \in Payload : GatewayRequest(t, k, p)
      PROVE  UNCHANGED vars
  BY <1>5 DEF GatewayProceed, GatewayRequest, Assemble, AssembleFails, CommitFails,
              Claim, ClaimFails, CheckOpen, Settle, Reserve, ReadFate, SealUnknown,
              TakeCancel, AskRecovery
<1> QED BY <1>1, <1>2, <1>3, <1>4, <1>5 DEF GatewayNext, gvars

-----------------------------------------------------------------------------
(* What the steps that change two fields of an entry make of it.            *)
Others(k) == \A j \in Key : j # k => entry'[j] = entry[j]

LEMMA NewEntry ==
    ASSUME GatewayTypeOK, NEW k \in Key, NEW r \in Entries, entry' = [entry EXCEPT ![k] = r]
    PROVE  entry' \in [Key -> Entries] /\ entry'[k] = r /\ Others(k)
BY DEF GatewayTypeOK, Others

LEMMA PayloadEffect ==
    ASSUME GatewayTypeOK, NEW k \in Key, NEW p \in KeyPhase, NEW q \in Payload,
           entry' = [entry EXCEPT ![k] = [@ EXCEPT !.phase = p, !.payload = q]]
    PROVE  /\ entry' \in [Key -> Entries] /\ Others(k)
           /\ entry'[k].phase = p /\ entry'[k].attempt = entry[k].attempt
<1> DEFINE r == [entry[k] EXCEPT !.phase = p, !.payload = q]
<1>1. /\ r \in Entries /\ r.phase = p /\ r.attempt = entry[k].attempt
      /\ entry' = [entry EXCEPT ![k] = r]
  BY DEF GatewayTypeOK, Entries
<1> HIDE DEF r
<1> QED BY <1>1, NewEntry

LEMMA AttemptEffect ==
    ASSUME GatewayTypeOK, NEW k \in Key, NEW p \in KeyPhase, NEW a \in Attempt,
           entry' = [entry EXCEPT ![k] = [@ EXCEPT !.attempt = a, !.phase = p]]
    PROVE  /\ entry' \in [Key -> Entries] /\ Others(k)
           /\ entry'[k].phase = p /\ entry'[k].attempt = a
           /\ entry'[k].payload = entry[k].payload
<1> DEFINE r == [entry[k] EXCEPT !.attempt = a, !.phase = p]
<1>1. /\ r \in Entries /\ r.phase = p /\ r.attempt = a /\ r.payload = entry[k].payload
      /\ entry' = [entry EXCEPT ![k] = r]
  BY DEF GatewayTypeOK, Entries
<1> HIDE DEF r
<1> QED BY <1>1, NewEntry

LEMMA SettledEffect ==
    ASSUME GatewayTypeOK, NEW k \in Key, NEW p \in KeyPhase, NEW d \in Document \cup {None},
           entry' = [entry EXCEPT ![k] = [@ EXCEPT !.phase = p, !.settled = d]]
    PROVE  /\ entry' \in [Key -> Entries] /\ Others(k)
           /\ entry'[k].phase = p /\ entry'[k].settled = d
           /\ entry'[k].attempt = entry[k].attempt /\ entry'[k].payload = entry[k].payload
<1> DEFINE r == [entry[k] EXCEPT !.phase = p, !.settled = d]
<1>1. /\ r \in Entries /\ r.phase = p /\ r.settled = d
      /\ r.attempt = entry[k].attempt /\ r.payload = entry[k].payload
      /\ entry' = [entry EXCEPT ![k] = r]
  BY DEF GatewayTypeOK, Entries
<1> HIDE DEF r
<1> QED BY <1>1, NewEntry

LEMMA ReserveEffect ==
    ASSUME GatewayTypeOK, NEW t, NEW k \in Key, NEW p \in Payload, Reserve(t, k, p)
    PROVE  /\ entry' \in [Key -> Entries] /\ Others(k)
           /\ entry'[k].phase = "preparing" /\ entry'[k].attempt = entry[k].attempt
<1>1. "preparing" \in KeyPhase
  BY DEF KeyPhase
<1>2. entry' = [entry EXCEPT ![k] = [@ EXCEPT !.phase = "preparing", !.payload = p]]
  BY DEF Reserve
<1> QED BY <1>1, <1>2, PayloadEffect

LEMMA SealUnknownEffect ==
    ASSUME GatewayTypeOK, NEW t, NEW k \in Key, NEW p \in Payload, SealUnknown(t, k, p)
    PROVE  /\ entry' \in [Key -> Entries] /\ Others(k)
           /\ entry'[k].phase = "no_attempt" /\ entry'[k].attempt = entry[k].attempt
<1>1. "no_attempt" \in KeyPhase
  BY DEF KeyPhase
<1>2. entry' = [entry EXCEPT ![k] = [@ EXCEPT !.phase = "no_attempt", !.payload = p]]
  BY DEF SealUnknown
<1> QED BY <1>1, <1>2, PayloadEffect

LEMMA ClaimEffect ==
    ASSUME GatewayTypeOK, JobInv, NEW t \in Thread, Claim(t)
    PROVE  LET k == job[t].key
           IN /\ k \in Key /\ job[t].attempt \in Attempt
              /\ entry' \in [Key -> Entries] /\ Others(k)
              /\ entry'[k].attempt = job[t].attempt /\ entry'[k].payload = entry[k].payload
              /\ \/ /\ entry[k].phase = "recovery_requested"
                    /\ entry'[k].phase = "closing" /\ Enter(t, "checking", job[t])
                 \/ /\ entry[k].phase # "recovery_requested"
                    /\ entry'[k].phase = "started" /\ Finish(t, k, "STARTED")
<1>1. job[t].key \in Key /\ job[t].attempt \in Attempt
  BY DEF Claim, JobInv
<1>2. PICK k \in Key, a \in Attempt : k = job[t].key /\ a = job[t].attempt
  BY <1>1
<1>3. {"closing", "started"} \subseteq KeyPhase
  BY DEF KeyPhase
<1>4. CASE entry[k].phase = "recovery_requested"
  <2>1. /\ entry' = [entry EXCEPT ![k] = [@ EXCEPT !.attempt = a, !.phase = "closing"]]
        /\ Enter(t, "checking", job[t])
    BY <1>2, <1>4 DEF Claim
  <2>2. /\ entry' \in [Key -> Entries] /\ Others(k) /\ entry'[k].phase = "closing"
        /\ entry'[k].attempt = a /\ entry'[k].payload = entry[k].payload
    BY <1>3, <2>1, AttemptEffect
  <2> QED BY <1>1, <1>2, <1>4, <2>1, <2>2
<1>5. CASE entry[k].phase # "recovery_requested"
  <2>1. /\ entry' = [entry EXCEPT ![k] = [@ EXCEPT !.attempt = a, !.phase = "started"]]
        /\ Finish(t, k, "STARTED")
    BY <1>2, <1>5 DEF Claim
  <2>2. /\ entry' \in [Key -> Entries] /\ Others(k) /\ entry'[k].phase = "started"
        /\ entry'[k].attempt = a /\ entry'[k].payload = entry[k].payload
    BY <1>3, <2>1, AttemptEffect
  <2> QED BY <1>1, <1>2, <1>5, <2>1, <2>2
<1> QED BY <1>4, <1>5

LEMMA SealTypes ==
    ASSUME GatewayTypeOK, NEW k \in Key, SealNoAttempt(k)
    PROVE  entry' \in [Key -> Entries]
<1>1. "no_attempt" \in KeyPhase /\ None \in Document \cup {None}
  BY DEF KeyPhase
<1>2. \/ entry' = entry
      \/ entry' = [entry EXCEPT ![k] = [@ EXCEPT !.phase = "no_attempt", !.settled = None]]
  BY DEF SealNoAttempt
<1>3. CASE entry' = entry
  BY <1>3 DEF GatewayTypeOK
<1>4. CASE entry' = [entry EXCEPT ![k] = [@ EXCEPT !.phase = "no_attempt", !.settled = None]]
  BY <1>1, <1>4, SettledEffect
<1> QED BY <1>2, <1>3, <1>4

\* A cancelled attempt settles its key, or the key stays unresolved.
LEMMA SettleEffect ==
    ASSUME GInv, NEW t \in Thread, Settle(t)
    PROVE  LET k == job[t].key
           IN /\ k \in Key /\ job[t].attempt \in Attempt
              /\ \/ MarkUnresolved(k, job[t].attempt)
                 \/ /\ reply[t].kind = "document"
                    /\ entry' \in [Key -> Entries] /\ Others(k)
                    /\ entry'[k].phase = "interrupted" /\ entry'[k].settled = reply[t].document
                    /\ entry'[k].attempt = entry[k].attempt
                    /\ entry'[k].payload = entry[k].payload
<1>1. /\ job[t].key \in Key /\ job[t].attempt \in Attempt /\ GatewayTypeOK
      /\ TypeOK /\ step[t] = "cancelled" /\ pc[t] = "idle"
  BY DEF Settle, JobInv, GInv, IInv
<1>2. PICK k \in Key : k = job[t].key
  BY <1>1
<1>3. CASE MarkUnresolved(k, job[t].attempt)
  BY <1>1, <1>2, <1>3
<1>4. CASE ~MarkUnresolved(k, job[t].attempt)
  <2>1. /\ reply[t].kind = "document"
        /\ entry' = [entry EXCEPT ![k] = [@ EXCEPT !.phase = "interrupted",
                                                   !.settled = reply[t].document]]
    BY <1>2, <1>4 DEF Settle
  <2>2. reply[t].document \in Document
    <3>1. reply[t] \in Outcomes
      BY <1>1, <2>1 DEF TypeOK, Replies, Acks, Refusals, GInv, CancelInv
    <3> QED BY <3>1 DEF Outcomes
  <2>3. "interrupted" \in KeyPhase
    BY DEF KeyPhase
  <2>4. /\ entry' \in [Key -> Entries] /\ Others(k)
        /\ entry'[k].phase = "interrupted" /\ entry'[k].settled = reply[t].document
        /\ entry'[k].attempt = entry[k].attempt /\ entry'[k].payload = entry[k].payload
    BY <1>1, <2>1, <2>2, <2>3, SettledEffect
  <2> QED BY <1>1, <1>2, <2>1, <2>4
<1> QED BY <1>3, <1>4

-----------------------------------------------------------------------------
(* Every step keeps the types of entries, threads and answers.              *)
LEMMA GatewayTypeStep == GInv /\ [GatewayNext]_gvars => GatewayTypeOK'
<1> SUFFICES ASSUME GInv, [GatewayNext]_gvars PROVE GatewayTypeOK'
  OBVIOUS
<1>0. GatewayTypeOK /\ JobInv /\ TypeOK /\ IInv
  BY DEF GInv, IInv
<1> USE <1>0 DEF GatewayTypeOK
<1>1. ASSUME NEW t \in Thread, ClientRequest(t) \/ ServiceProceed(t)
      PROVE  GatewayTypeOK'
  BY <1>1, ServiceSteps DEF gateway
<1>2. ASSUME NEW t \in Thread, NEW k \in Key, NEW status,
             UNCHANGED keyOf, entry' \in [Key -> Entries], Finish(t, k, status)
      PROVE  GatewayTypeOK'
  <2>1. said' \in [Key -> SUBSET Fate]
    BY <1>2 DEF Finish
  <2>2. NoJob \in [key : Key \cup {None}, payload : Payload \cup {None},
                   attempt : Attempt \cup {None}]
    BY DEF NoJob
  <2> QED BY <1>2, <2>1, <2>2 DEF Finish, Step
<1>3. ASSUME NEW t \in Thread, NEW place \in Step,
             NEW j \in [key : Key \cup {None}, payload : Payload \cup {None},
                        attempt : Attempt \cup {None}],
             entry' \in [Key -> Entries], keyOf' \in [Attempt -> Key \cup {None}],
             Enter(t, place, j)
      PROVE  GatewayTypeOK'
  BY <1>3 DEF Enter
<1>4. ASSUME NEW k \in Key, NEW a \in Attempt \cup {None}, MarkUnresolved(k, a)
      PROVE  entry' \in [Key -> Entries]
  <2>1. PICK b \in Attempt \cup {None} :
            b = IF a = None THEN entry[k].attempt ELSE a
    BY DEF Entries
  <2>2. entry[k] \in Entries
    OBVIOUS
  <2>3. [entry[k] EXCEPT !.phase = "unresolved", !.attempt = b] \in Entries
    BY <2>2 DEF Entries, KeyPhase
  <2>4. \/ entry' = entry
        \/ entry' = [entry EXCEPT ![k] =
                        [entry[k] EXCEPT !.phase = "unresolved", !.attempt = b]]
    BY <1>4, <2>1 DEF MarkUnresolved
  <2> QED BY <2>3, <2>4
<1>5. ASSUME NEW k \in Key, SealNoAttempt(k)
      PROVE  entry' \in [Key -> Entries]
  BY <1>5, SealTypes
<1>6. ASSUME NEW t \in Thread, Assemble(t)
      PROVE  GatewayTypeOK'
  BY <1>3, <1>6 DEF Assemble, Step
<1>7. ASSUME NEW t \in Thread, AssembleFails(t) \/ CommitFails(t)
      PROVE  GatewayTypeOK'
  BY <1>2, <1>4, <1>5, <1>7 DEF AssembleFails, CommitFails, JobInv
<1>8. ASSUME NEW t \in Thread, NEW a \in Attempt, Commit(t, a)
      PROVE  GatewayTypeOK'
  <2>1. [job[t] EXCEPT !.attempt = a] \in
            [key : Key \cup {None}, payload : Payload \cup {None},
             attempt : Attempt \cup {None}]
    OBVIOUS
  <2> QED BY <1>3, <1>8, <2>1 DEF Commit, Step
<1>9. ASSUME NEW t \in Thread, Claim(t)
      PROVE  GatewayTypeOK'
  <2>1. job[t].key \in Key /\ job[t].attempt \in Attempt
    BY <1>9 DEF Claim, JobInv
  <2>2. entry' \in [Key -> Entries]
    <3>1. entry[job[t].key] \in Entries
      BY <2>1
    <3>2. ASSUME NEW p \in KeyPhase
          PROVE  [entry[job[t].key] EXCEPT !.attempt = job[t].attempt, !.phase = p]
                     \in Entries
      BY <2>1, <3>1 DEF Entries
    <3>3. \E p \in KeyPhase :
              entry' = [entry EXCEPT ![job[t].key] =
                           [@ EXCEPT !.attempt = job[t].attempt, !.phase = p]]
      BY <1>9 DEF Claim, KeyPhase
    <3> QED BY <2>1, <3>2, <3>3
  <2> QED BY <1>2, <1>3, <1>9, <2>1, <2>2 DEF Claim, Step
<1>10. ASSUME NEW t \in Thread, ClaimFails(t)
       PROVE  GatewayTypeOK'
  BY <1>2, <1>4, <1>10 DEF ClaimFails, JobInv
<1>11. ASSUME NEW t \in Thread, CheckOpen(t)
       PROVE  GatewayTypeOK'
  BY <1>2, <1>3, <1>4, <1>11 DEF CheckOpen, JobInv, Step
<1>12. ASSUME NEW t \in Thread, CallCancel(t)
       PROVE  GatewayTypeOK'
  BY <1>3, <1>12 DEF CallCancel, Step
<1>13. ASSUME NEW t \in Thread, Settle(t)
       PROVE  GatewayTypeOK'
  <2>1. job[t].key \in Key /\ job[t].attempt \in Attempt
    BY <1>13, SettleEffect
  <2>3. entry' \in [Key -> Entries]
    BY <1>4, <1>13, <2>1, SettleEffect
  <2> QED BY <1>2, <1>13, <2>1, <2>3 DEF Settle
<1>14. ASSUME NEW t \in Thread, NEW k \in Key, NEW p \in Payload, Reserve(t, k, p)
       PROVE  GatewayTypeOK'
  <2>1. entry' \in [Key -> Entries]
    <3>1. [entry[k] EXCEPT !.phase = "preparing", !.payload = p] \in Entries
      BY DEF Entries, KeyPhase
    <3>2. entry' = [entry EXCEPT ![k] =
                      [@ EXCEPT !.phase = "preparing", !.payload = p]]
      BY <1>14 DEF Reserve
    <3> QED BY <3>1, <3>2
  <2> QED BY <1>3, <1>14, <2>1 DEF Reserve, Step
<1>15. ASSUME NEW t \in Thread, NEW k \in Key, NEW p \in Payload, ReadFate(t, k, p)
       PROVE  GatewayTypeOK'
  BY <1>2, <1>15 DEF ReadFate
<1>16. ASSUME NEW t \in Thread, NEW k \in Key, NEW p \in Payload, SealUnknown(t, k, p)
       PROVE  GatewayTypeOK'
  <2>1. entry' \in [Key -> Entries]
    <3>1. [entry[k] EXCEPT !.phase = "no_attempt", !.payload = p] \in Entries
      BY DEF Entries, KeyPhase
    <3>2. entry' = [entry EXCEPT ![k] =
                      [@ EXCEPT !.phase = "no_attempt", !.payload = p]]
      BY <1>16 DEF SealUnknown
    <3> QED BY <3>1, <3>2
  <2> QED BY <1>2, <1>16, <2>1 DEF SealUnknown
<1>17. ASSUME NEW t \in Thread, NEW k \in Key, NEW p \in Payload, TakeCancel(t, k, p)
       PROVE  GatewayTypeOK'
  <2>1. entry' \in [Key -> Entries] /\ entry[k].attempt \in Attempt \cup {None}
    BY <1>17 DEF TakeCancel, SetPhase, Entries, KeyPhase
  <2> QED BY <1>3, <1>17, <2>1 DEF TakeCancel, Step
<1>18. ASSUME NEW t \in Thread, NEW k \in Key, NEW p \in Payload, AskRecovery(t, k, p)
       PROVE  GatewayTypeOK'
  <2>1. entry' \in [Key -> Entries]
    <3>1. [entry[k] EXCEPT !.phase = "recovery_requested"] \in Entries
      BY DEF Entries, KeyPhase
    <3>2. \/ entry' = [entry EXCEPT ![k] = [@ EXCEPT !.phase = "recovery_requested"]]
          \/ entry' = entry
      BY <1>18 DEF AskRecovery, SetPhase
    <3> QED BY <3>1, <3>2
  <2> QED BY <1>2, <1>18, <2>1 DEF AskRecovery
<1>19. CASE UNCHANGED gvars
  BY <1>19 DEF gvars, gateway
<1> QED BY <1>1, <1>6, <1>7, <1>8, <1>9, <1>10, <1>11, <1>12, <1>13, <1>14, <1>15,
           <1>16, <1>17, <1>18, <1>19 DEF GatewayNext, GatewayProceed, GatewayRequest

-----------------------------------------------------------------------------
\* OneWorkerPerKey, seen from the threads.
WorkInv ==
    /\ \A t \in Thread :
           /\ step[t] \in {"preparing", "assembled", "committed"} =>
                  entry[job[t].key].phase \in {"preparing", "recovery_requested"}
           /\ step[t] \in {"checking", "cancelling", "cancelled"} =>
                  entry[job[t].key].phase = "closing"
    /\ \A t, u \in Thread :
           (step[t] # "idle" /\ step[u] # "idle" /\ job[t].key = job[u].key) => t = u
    /\ \A k \in Key : entry[k].phase \in OpenKey =>
           \E t \in Thread : step[t] # "idle" /\ job[t].key = k

(* A key's worker is the thread whose job it is.                            *)
LEMMA Workers ==
    ASSUME GatewayTypeOK, JobInv
    PROVE  OneWorkerPerKey <=> WorkInv
<1> USE DEF OneWorkerPerKey, WorkInv, Cancelling, Owning, OpenKey
<1>1. \A t \in Thread : step[t] \in Step /\ (step[t] # "idle" => job[t].key \in Key)
  BY DEF GatewayTypeOK, JobInv
<1>2. ASSUME OneWorkerPerKey PROVE WorkInv
  BY <1>1, <1>2 DEF Step
<1>3. ASSUME WorkInv PROVE OneWorkerPerKey
  <2> SUFFICES ASSUME NEW k \in Key
               PROVE  /\ entry[k].phase = "closing" <=> Cancelling(k) # {}
                      /\ entry[k].phase \in {"preparing", "recovery_requested"}
                             <=> Owning(k) # {}
                      /\ \A t, u \in Cancelling(k) \cup Owning(k) : t = u
    OBVIOUS
  <2>1. entry[k].phase = "closing" => Cancelling(k) # {}
    BY <1>1, <1>3 DEF Step
  <2>2. Cancelling(k) # {} => entry[k].phase = "closing"
    BY <1>3
  <2>3. entry[k].phase \in {"preparing", "recovery_requested"} => Owning(k) # {}
    BY <1>1, <1>3 DEF Step
  <2>4. Owning(k) # {} => entry[k].phase \in {"preparing", "recovery_requested"}
    BY <1>3
  <2>5. \A t, u \in Cancelling(k) \cup Owning(k) : t = u
    BY <1>3
  <2> QED BY <2>1, <2>2, <2>3, <2>4, <2>5
<1> QED BY <1>2, <1>3

\* What one gateway step by thread t for key k leaves alone.
Only(t, k) ==
    /\ \A u \in Thread : u # t => step'[u] = step[u] /\ job'[u] = job[u]
    /\ \A j \in Key : j # k => entry'[j] = entry[j] /\ said'[j] = said[j]

\* The entry of k afterwards.
Entry(k, p, a) == entry'[k].phase = p /\ entry'[k].attempt = a

(* Sealing a key in preparation hides nothing and always takes effect.      *)
LEMMA SealEffect ==
    ASSUME GInv, NEW k \in Key, SealNoAttempt(k),
           entry[k].phase \in {"preparing", "recovery_requested"}
    PROVE  /\ Entry(k, "no_attempt", None)
           /\ \A j \in Key : j # k => entry'[j] = entry[j]
           /\ entry'[k].payload = entry[k].payload
<1>1. entry[k].attempt = None /\ entry[k] \in Entries /\ entry \in [Key -> Entries]
  BY DEF GInv, KeyInv, GatewayTypeOK
<1>2. entry' = [entry EXCEPT ![k] = [@ EXCEPT !.phase = "no_attempt", !.settled = None]]
  BY <1>1 DEF SealNoAttempt, SealedKey
<1> QED BY <1>1, <1>2 DEF Entry, Entries

(* An open key that fails always ends up unresolved.                        *)
LEMMA UnresolvedEffect ==
    ASSUME GInv, NEW k \in Key, NEW a, MarkUnresolved(k, a),
           entry[k].phase \in OpenKey
    PROVE  /\ Entry(k, "unresolved", IF a = None THEN entry[k].attempt ELSE a)
           /\ \A j \in Key : j # k => entry'[j] = entry[j]
           /\ entry'[k].payload = entry[k].payload
<1>1. entry[k] \in Entries /\ entry \in [Key -> Entries]
  BY DEF GInv, GatewayTypeOK
<1>2. entry' = [entry EXCEPT ![k] =
                   [@ EXCEPT !.phase = "unresolved",
                             !.attempt = IF a = None THEN entry[k].attempt ELSE a]]
  BY DEF MarkUnresolved, OpenKey, SealedKey
<1> QED BY <1>1, <1>2 DEF Entry, Entries

(* Every step keeps one worker per open key.                                *)
LEMMA WorkStep == GInv /\ [GatewayNext]_gvars => WorkInv'
<1> SUFFICES ASSUME GInv, [GatewayNext]_gvars PROVE WorkInv'
  OBVIOUS
<1>0. /\ GatewayTypeOK /\ JobInv /\ WorkInv /\ KeyInv
      /\ \A k \in Key : entry[k] \in Entries
  BY Workers DEF GInv, GatewayTypeOK
\* A thread and a key that go on, and a thread that is done with its key.
<1>1. ASSUME NEW t \in Thread, NEW k \in Key, Only(t, k), job'[t].key = k,
             \/ step[t] # "idle" /\ job[t].key = k
             \/ step[t] = "idle" /\ entry[k].phase \notin OpenKey,
             \/ /\ step'[t] \in {"preparing", "assembled", "committed"}
                /\ entry'[k].phase \in {"preparing", "recovery_requested"}
             \/ /\ step'[t] \in {"checking", "cancelling", "cancelled"}
                /\ entry'[k].phase = "closing"
      PROVE  WorkInv'
  <2>1. \A u \in Thread : u # t /\ step[u] # "idle" => job[u].key # k
    BY <1>0, <1>1 DEF WorkInv, OpenKey, GatewayTypeOK, Step
  <2> QED BY <1>0, <1>1, <2>1 DEF WorkInv, Only, OpenKey, JobInv
<1>2. ASSUME NEW t \in Thread, NEW k \in Key, Only(t, k), step'[t] = "idle",
             \/ step[t] # "idle" /\ job[t].key = k /\ entry'[k].phase \notin OpenKey
             \/ step[t] = "idle" /\ entry[k].phase \notin OpenKey
                    /\ entry'[k].phase \notin OpenKey
             \/ step[t] = "idle" /\ entry'[k].phase = entry[k].phase
             \/ step[t] = "idle" /\ entry[k].phase = "preparing"
                    /\ entry'[k].phase = "recovery_requested"
      PROVE  WorkInv'
  BY <1>0, <1>2 DEF WorkInv, Only, OpenKey, JobInv, GatewayTypeOK, Step
<1>3. ASSUME NEW t \in Thread, ClientRequest(t) \/ ServiceProceed(t)
      PROVE  WorkInv'
  BY <1>0, <1>3, ServiceSteps DEF gateway, WorkInv
<1>4. ASSUME NEW t \in Thread,
             Assemble(t) \/ CallCancel(t) \/ \E a \in Attempt : Commit(t, a)
      PROVE  WorkInv'
  BY <1>0, <1>1, <1>4 DEF Assemble, CallCancel, Commit, Enter, Only, GatewayTypeOK,
                          JobInv, WorkInv
<1>5. ASSUME NEW t \in Thread, AssembleFails(t) \/ CommitFails(t) \/ ClaimFails(t)
      PROVE  WorkInv'
  <2>1. /\ job[t].key \in Key /\ step[t] # "idle"
        /\ entry[job[t].key].phase \in {"preparing", "recovery_requested"}
    BY <1>0, <1>5 DEF AssembleFails, CommitFails, ClaimFails, JobInv, WorkInv
  <2>2. entry'[job[t].key].phase \notin OpenKey
        /\ \A j \in Key : j # job[t].key => entry'[j] = entry[j]
    BY <1>5, <2>1, SealEffect, UnresolvedEffect
       DEF AssembleFails, CommitFails, ClaimFails, Entry, OpenKey
  <2> QED BY <1>0, <1>2, <1>5, <2>1, <2>2
             DEF AssembleFails, CommitFails, ClaimFails, Finish, Only, GatewayTypeOK
<1>6. ASSUME NEW t \in Thread, Claim(t)
      PROVE  WorkInv'
  <2>1. PICK k \in Key : k = job[t].key
    BY <1>0, <1>6, ClaimEffect
  <2>2. /\ Others(k) /\ step[t] # "idle"
        /\ \/ entry'[k].phase = "closing" /\ Enter(t, "checking", job[t])
           \/ entry'[k].phase = "started" /\ Finish(t, k, "STARTED")
    BY <1>0, <1>6, <2>1, ClaimEffect DEF Claim
  <2>3. CASE entry'[k].phase = "closing" /\ Enter(t, "checking", job[t])
    <3>1. Only(t, k) /\ step'[t] = "checking" /\ job'[t] = job[t]
      BY <1>0, <2>2, <2>3 DEF Enter, Only, Others, GatewayTypeOK
    <3> QED BY <1>1, <2>1, <2>2, <2>3, <3>1
  <2>4. CASE entry'[k].phase = "started" /\ Finish(t, k, "STARTED")
    <3>1. Only(t, k) /\ step'[t] = "idle"
      BY <1>0, <2>2, <2>4 DEF Finish, Only, Others, GatewayTypeOK
    <3> QED BY <1>2, <2>1, <2>2, <2>4, <3>1 DEF OpenKey
  <2> QED BY <2>2, <2>3, <2>4
<1>7. ASSUME NEW t \in Thread, CheckOpen(t) \/ Settle(t)
      PROVE  WorkInv'
  <2>1. /\ job[t].key \in Key /\ step[t] # "idle"
        /\ entry[job[t].key].phase = "closing"
    BY <1>0, <1>7 DEF CheckOpen, Settle, JobInv, WorkInv
  <2>2. CASE UNCHANGED entry /\ Enter(t, "cancelling", job[t])
    BY <1>0, <1>1, <2>1, <2>2 DEF Enter, Only, GatewayTypeOK
  <2>3. ASSUME NEW status, Finish(t, job[t].key, status),
               MarkUnresolved(job[t].key, job[t].attempt) \/ Settle(t)
        PROVE  WorkInv'
    <3>1. entry'[job[t].key].phase \notin OpenKey
          /\ \A j \in Key : j # job[t].key => entry'[j] = entry[j]
      <4>1. CASE MarkUnresolved(job[t].key, job[t].attempt)
        BY <2>1, <4>1, UnresolvedEffect DEF Entry, OpenKey
      <4>2. CASE Settle(t) /\ ~MarkUnresolved(job[t].key, job[t].attempt)
        BY <4>2, SettleEffect DEF Others, OpenKey
      <4> QED BY <2>3, <4>1, <4>2
    <3> QED BY <1>0, <1>2, <2>1, <2>3, <3>1 DEF Finish, Only, GatewayTypeOK
  <2>4. CASE CheckOpen(t)
    BY <2>2, <2>3, <2>4 DEF CheckOpen
  <2>5. CASE Settle(t)
    BY <2>3, <2>5 DEF Settle
  <2> QED BY <1>7, <2>4, <2>5
<1>8. ASSUME NEW t \in Thread, NEW k \in Key, NEW p \in Payload,
             Reserve(t, k, p) \/ TakeCancel(t, k, p)
      PROVE  WorkInv'
  <2>1. CASE Reserve(t, k, p)
    <3>1. entry'[k].phase = "preparing" /\ Others(k)
      BY <1>0, <2>1, ReserveEffect
    <3>2. /\ Only(t, k) /\ step'[t] = "preparing" /\ job'[t].key = k
          /\ step[t] = "idle" /\ entry[k].phase \notin OpenKey
      BY <1>0, <2>1, <3>1 DEF Reserve, Free, Enter, Only, Others, GatewayTypeOK, OpenKey
    <3> QED BY <1>1, <3>1, <3>2
  <2>2. CASE TakeCancel(t, k, p)
    BY <1>0, <1>1, <2>2 DEF TakeCancel, Free, SetPhase, Cancellable, Enter,
                            Only, GatewayTypeOK, Entries, OpenKey
  <2> QED BY <1>8, <2>1, <2>2
<1>9. ASSUME NEW t \in Thread, NEW k \in Key, NEW p \in Payload,
             ReadFate(t, k, p) \/ SealUnknown(t, k, p) \/ AskRecovery(t, k, p)
      PROVE  WorkInv'
  <2>1. CASE ReadFate(t, k, p) \/ AskRecovery(t, k, p)
    BY <1>0, <1>2, <2>1 DEF ReadFate, AskRecovery, Free, SetPhase,
                            Finish, Only, GatewayTypeOK, Entries, OpenKey
  <2>2. CASE SealUnknown(t, k, p)
    <3>1. entry'[k].phase = "no_attempt" /\ Others(k)
      BY <1>0, <2>2, SealUnknownEffect
    <3>2. /\ Only(t, k) /\ step'[t] = "idle" /\ step[t] = "idle"
          /\ entry[k].phase \notin OpenKey
      BY <1>0, <2>2, <3>1 DEF SealUnknown, Free, Finish, Only, Others, GatewayTypeOK, OpenKey
    <3> QED BY <1>2, <3>1, <3>2 DEF OpenKey
  <2> QED BY <1>9, <2>1, <2>2
<1>10. CASE UNCHANGED gvars
  BY <1>0, <1>10 DEF gvars, gateway, WorkInv
<1> QED BY <1>3, <1>4, <1>5, <1>6, <1>7, <1>8, <1>9, <1>10
           DEF GatewayNext, GatewayProceed, GatewayRequest

-----------------------------------------------------------------------------
(* Attempts never disappear, and an interrupted one keeps its document.     *)
LEMMA AttemptsStay ==
    ASSUME GInv, [GatewayNext]_gvars, NEW a \in Attempt
    PROVE  /\ phase[a] # "ABSENT" => phase'[a] # "ABSENT"
           /\ phase[a] = "INTERRUPTED" => UNCHANGED <<phase[a], result[a]>>
<1>0. IInv /\ TypeOK /\ ThreadInv /\ JobInv
  BY DEF GInv, IInv
<1>1. ASSUME [Next]_vars
      PROVE  /\ phase[a] # "ABSENT" => phase'[a] # "ABSENT"
             /\ phase[a] = "INTERRUPTED" => UNCHANGED <<phase[a], result[a]>>
  <2>1. phase[a] = "INTERRUPTED" => UNCHANGED <<phase[a], result[a]>>
    BY <1>0, <1>1, FrozenStep DEF Terminal
  <2>2. ASSUME NEW t \in Thread, Publish(t)
        PROVE  phase[a] # "ABSENT" => phase'[a] # "ABSENT"
    BY <1>0, <2>2, DraftOfWinner DEF Publish, TypeOK
  <2>3. ASSUME NEW t \in Thread, (Proceed(t) /\ ~Publish(t)) \/ \E b \in Attempt : Request(t, b)
        PROVE  phase[a] # "ABSENT" => phase'[a] # "ABSENT"
    BY <1>0, <2>3
       DEF Proceed, Request, Begin, Insert, AppendMessage, StoreMessage, RefuseMessage,
           Close, CloseFrom, Join, AnswerTerminal, Build, BuildFails, MarkFailed, Wake,
           TypeOK, record
  <2> QED BY <1>1, <2>1, <2>2, <2>3 DEF Next, vars, record
<1>2. ASSUME NEW t \in Thread, NEW b \in Attempt, Commit(t, b)
      PROVE  /\ phase[a] # "ABSENT" => phase'[a] # "ABSENT"
             /\ phase[a] = "INTERRUPTED" => UNCHANGED <<phase[a], result[a]>>
  BY <1>0, <1>2 DEF Commit, Insert, TypeOK
<1>3. ASSUME NEW t \in Thread, ClientRequest(t) \/ ServiceProceed(t) \/ CallCancel(t)
      PROVE  Next
  BY <1>0, <1>3, ServiceSteps, CancelSteps
<1>4. ASSUME NEW t \in Thread,
             \/ GatewayProceed(t) /\ ~CallCancel(t) /\ ~ \E b \in Attempt : Commit(t, b)
             \/ \E k \in Key, p \in Payload : GatewayRequest(t, k, p)
      PROVE  UNCHANGED vars
  BY <1>4 DEF GatewayProceed, GatewayRequest, Assemble, AssembleFails, CommitFails,
              Claim, ClaimFails, CheckOpen, Settle, Reserve, ReadFate, SealUnknown,
              TakeCancel, AskRecovery
<1> QED BY <1>1, <1>2, <1>3, <1>4 DEF GatewayNext, gvars

(* Committing gives its key one attempt and the others none.                *)
LEMMA CommitEffect ==
    ASSUME GInv, NEW t \in Thread, NEW a \in Attempt, Commit(t, a)
    PROVE  \E k \in Key : /\ k = job[t].key /\ Mine(k)' = {a}
                          /\ \A j \in Key : j # k => Mine(j)' = Mine(j)
                          /\ entry[k].phase \in {"preparing", "recovery_requested"}
<1>0. /\ GatewayTypeOK /\ JobInv /\ WorkInv /\ KeyInv
  BY Workers DEF GInv
<1>1. PICK k \in Key : k = job[t].key
  BY <1>0 DEF Commit, JobInv
<1>2. /\ keyOf[a] = None /\ Mine(k) = {}
      /\ keyOf' = [keyOf EXCEPT ![a] = k]
      /\ entry[k].phase \in {"preparing", "recovery_requested"}
  BY <1>0, <1>1 DEF Commit, Insert, KeyInv, JobInv, WorkInv
<1>3. /\ \A b \in Attempt : b # a => keyOf'[b] = keyOf[b]
      /\ keyOf'[a] = k
  BY <1>0, <1>2 DEF GatewayTypeOK
<1>4. Mine(k)' = {a}
  BY <1>2, <1>3 DEF Mine
<1>5. ASSUME NEW j \in Key, j # k
      PROVE  Mine(j)' = Mine(j)
  <2>1. \A b \in Attempt : keyOf'[b] = j <=> keyOf[b] = j
    BY <1>2, <1>3, <1>5, GatewayAssumption
  <2> QED BY <2>1 DEF Mine
<1> QED BY <1>1, <1>2, <1>4, <1>5

(* Every step keeps what an entry knows of its attempts.                    *)
LEMMA KeyStep == GInv /\ [GatewayNext]_gvars => KeyInv'
<1> SUFFICES ASSUME GInv, [GatewayNext]_gvars PROVE KeyInv'
  OBVIOUS
<1>0. /\ GatewayTypeOK /\ JobInv /\ WorkInv /\ KeyInv /\ EntriesAreTrue
      /\ \A k \in Key : entry[k] \in Entries
  BY Workers DEF GInv, GatewayTypeOK
<1>1. \A a \in Attempt : phase[a] # "ABSENT" => phase'[a] # "ABSENT"
  BY AttemptsStay
\* A step that commits nothing and changes one entry, to this.
<1>2. ASSUME NEW k \in Key, UNCHANGED keyOf,
             \A j \in Key : j # k => entry'[j] = entry[j] /\ said'[j] = said[j],
             \/ entry'[k].phase = entry[k].phase /\ entry'[k].attempt = entry[k].attempt
                    /\ (entry[k].phase # "unknown" \/ said'[k] = said[k])
             \/ /\ entry'[k].phase # "unknown"
                /\ entry'[k].phase \in {"preparing", "recovery_requested", "no_attempt"} =>
                       entry'[k].attempt = None
                /\ \/ entry'[k].attempt \in {None, entry[k].attempt}
                   \/ Mine(k) = {entry'[k].attempt}
      PROVE  KeyInv'
  BY <1>0, <1>1, <1>2 DEF KeyInv, Mine
<1>3. ASSUME NEW t \in Thread, ClientRequest(t) \/ ServiceProceed(t)
      PROVE  KeyInv'
  BY <1>0, <1>1, <1>3, ServiceSteps DEF gateway, KeyInv, Mine
<1>4. ASSUME NEW t \in Thread, NEW a \in Attempt, Commit(t, a)
      PROVE  KeyInv'
  <2>1. PICK k \in Key : /\ k = job[t].key /\ Mine(k)' = {a}
                         /\ \A j \in Key : j # k => Mine(j)' = Mine(j)
                         /\ entry[k].phase \in {"preparing", "recovery_requested"}
    BY <1>4, CommitEffect
  <2>2. /\ phase'[a] # "ABSENT" /\ keyOf' = [keyOf EXCEPT ![a] = k]
        /\ entry[k].attempt = None /\ UNCHANGED <<entry, said>>
    BY <1>0, <1>4, <2>1 DEF Commit, Insert, Enter, GInv, IInv, TypeOK, KeyInv
  <2>3. \A b \in Attempt : b # a => keyOf'[b] = keyOf[b]
    BY <1>0, <2>2 DEF GatewayTypeOK
  <2>6. \A b \in Attempt : keyOf'[b] # None => phase'[b] # "ABSENT"
    BY <1>0, <1>1, <2>2, <2>3 DEF KeyInv
  <2>7. ASSUME NEW j \in Key
        PROVE  (/\ \A b, c \in Mine(j) : b = c
                /\ entry[j].phase = "unknown" => Mine(j) = {} /\ said[j] = {}
                /\ entry[j].phase \in {"unknown", "preparing", "recovery_requested",
                                       "no_attempt"} => entry[j].attempt = None
                /\ entry[j].attempt # None => Mine(j) = {entry[j].attempt})'
    <3>1. CASE j = k
      BY <2>1, <2>2, <3>1
    <3>2. CASE j # k
      BY <1>0, <2>1, <2>2, <3>2 DEF KeyInv
    <3> QED BY <3>1, <3>2
  <2> QED BY <2>6, <2>7 DEF KeyInv
<1>5. ASSUME NEW t \in Thread, Assemble(t) \/ CallCancel(t)
      PROVE  KeyInv'
  BY <1>0, <1>1, <1>5 DEF Assemble, CallCancel, Enter, KeyInv, Mine
<1>6. ASSUME NEW t \in Thread, AssembleFails(t) \/ CommitFails(t) \/ ClaimFails(t)
      PROVE  KeyInv'
  <2>1. /\ job[t].key \in Key
        /\ entry[job[t].key].phase \in {"preparing", "recovery_requested"}
        /\ step[t] = "committed" => Mine(job[t].key) = {job[t].attempt}
    BY <1>0, <1>6 DEF AssembleFails, CommitFails, ClaimFails, JobInv, WorkInv
  <2>2. /\ \A j \in Key : j # job[t].key => entry'[j] = entry[j] /\ said'[j] = said[j]
        /\ UNCHANGED keyOf
    BY <1>0, <1>6, <2>1, SealEffect, UnresolvedEffect
       DEF AssembleFails, CommitFails, ClaimFails, Finish, GatewayTypeOK, OpenKey
  <2>3. \/ Entry(job[t].key, "no_attempt", None)
        \/ Entry(job[t].key, "unresolved", entry[job[t].key].attempt)
        \/ /\ Entry(job[t].key, "unresolved", job[t].attempt)
           /\ Mine(job[t].key) = {job[t].attempt}
    BY <1>0, <1>6, <2>1, SealEffect, UnresolvedEffect
       DEF AssembleFails, CommitFails, ClaimFails, OpenKey
  <2> QED BY <1>2, <2>1, <2>2, <2>3 DEF Entry
<1>7. ASSUME NEW t \in Thread, Claim(t)
      PROVE  KeyInv'
  <2>1. job[t].key \in Key /\ Mine(job[t].key) = {job[t].attempt}
    BY <1>0, <1>7 DEF Claim, JobInv
  <2>2. /\ \A j \in Key : j # job[t].key => entry'[j] = entry[j] /\ said'[j] = said[j]
        /\ UNCHANGED keyOf /\ entry'[job[t].key].attempt = job[t].attempt
        /\ entry'[job[t].key].phase \in {"closing", "started"}
    <3>1. /\ \A j \in Key : j # job[t].key => entry'[j] = entry[j]
          /\ entry'[job[t].key].attempt = job[t].attempt
          /\ entry'[job[t].key].phase \in {"closing", "started"}
      BY <1>0, <1>7, ClaimEffect DEF Others
    <3>2. /\ \A j \in Key : j # job[t].key => said'[j] = said[j]
          /\ UNCHANGED keyOf
      BY <1>0, <1>7 DEF Claim, Enter, Finish, GatewayTypeOK
    <3> QED BY <3>1, <3>2
  <2> QED BY <1>2, <2>1, <2>2
<1>8. ASSUME NEW t \in Thread, CheckOpen(t) \/ Settle(t)
      PROVE  KeyInv'
  <2>1. /\ job[t].key \in Key /\ entry[job[t].key].phase = "closing"
        /\ job[t].attempt = entry[job[t].key].attempt
    BY <1>0, <1>8 DEF CheckOpen, Settle, JobInv, WorkInv
  <2>2. \/ UNCHANGED entry
        \/ /\ \A j \in Key : j # job[t].key => entry'[j] = entry[j]
           /\ entry'[job[t].key].attempt = entry[job[t].key].attempt
           /\ entry'[job[t].key].phase \in {"unresolved", "interrupted"}
    <3>1. ASSUME MarkUnresolved(job[t].key, job[t].attempt)
          PROVE  /\ \A j \in Key : j # job[t].key => entry'[j] = entry[j]
                 /\ entry'[job[t].key].attempt = entry[job[t].key].attempt
                 /\ entry'[job[t].key].phase = "unresolved"
      BY <2>1, <3>1, UnresolvedEffect DEF Entry, OpenKey
    <3>2. CASE CheckOpen(t)
      BY <2>1, <3>1, <3>2 DEF CheckOpen
    <3>3. CASE Settle(t)
      BY <3>1, <3>3, SettleEffect DEF Others
    <3> QED BY <1>8, <3>2, <3>3
  <2>3. /\ \A j \in Key : j # job[t].key => said'[j] = said[j]
        /\ UNCHANGED keyOf
    BY <1>0, <1>8 DEF CheckOpen, Settle, Enter, Finish, GatewayTypeOK
  <2> QED BY <1>2, <2>1, <2>2, <2>3
<1>9. ASSUME NEW t \in Thread, NEW k \in Key, NEW p \in Payload,
             GatewayRequest(t, k, p)
      PROVE  KeyInv'
  <2>1. /\ \A j \in Key : j # k => entry'[j] = entry[j] /\ said'[j] = said[j]
        /\ UNCHANGED keyOf /\ entry'[k].attempt = entry[k].attempt
        /\ entry[k].phase = "unknown" => entry[k].attempt = None
    <3>1. /\ \A j \in Key : j # k => said'[j] = said[j]
          /\ UNCHANGED keyOf
          /\ entry[k].phase = "unknown" => entry[k].attempt = None
      BY <1>0, <1>9 DEF GatewayRequest, Reserve, ReadFate, SealUnknown, TakeCancel,
                        AskRecovery, Enter, Finish, GatewayTypeOK, KeyInv
    <3>2. Others(k) /\ entry'[k].attempt = entry[k].attempt
      <4>1. CASE Reserve(t, k, p)
        BY <1>0, <4>1, ReserveEffect
      <4>2. CASE SealUnknown(t, k, p)
        BY <1>0, <4>2, SealUnknownEffect
      <4>3. CASE ReadFate(t, k, p) \/ TakeCancel(t, k, p) \/ AskRecovery(t, k, p)
        BY <1>0, <4>3 DEF ReadFate, TakeCancel, AskRecovery, SetPhase, GatewayTypeOK,
                          Entries, Others
      <4> QED BY <1>9, <4>1, <4>2, <4>3 DEF GatewayRequest
    <3> QED BY <3>1, <3>2 DEF Others
  <2>2. \/ Reserve(t, k, p) /\ entry'[k].phase = "preparing" /\ entry[k].phase = "unknown"
        \/ SealUnknown(t, k, p) /\ entry'[k].phase = "no_attempt"
              /\ entry[k].phase = "unknown"
        \/ TakeCancel(t, k, p) /\ entry'[k].phase = "closing"
        \/ entry[k].phase # "unknown" /\ entry'[k].phase = entry[k].phase
        \/ entry[k].phase = "preparing" /\ entry'[k].phase = "recovery_requested"
    BY <1>0, <1>9 DEF GatewayRequest, Reserve, ReadFate, SealUnknown, TakeCancel,
                      AskRecovery, SetPhase, GatewayTypeOK, Entries
  <2> QED BY <1>0, <1>2, <2>1, <2>2 DEF KeyInv
<1>10. CASE UNCHANGED gvars
  BY <1>0, <1>1, <1>10 DEF gvars, gateway, KeyInv, Mine
<1> QED BY <1>3, <1>4, <1>5, <1>6, <1>7, <1>8, <1>9, <1>10 DEF GatewayNext, GatewayProceed

(* Every step keeps what threads inside the gateway know of their keys.     *)
LEMMA JobStep == GInv /\ [GatewayNext]_gvars => JobInv'
<1> SUFFICES ASSUME GInv, [GatewayNext]_gvars PROVE JobInv'
  OBVIOUS
<1>0. /\ GatewayTypeOK /\ JobInv /\ WorkInv /\ KeyInv
      /\ \A k \in Key : entry[k] \in Entries
  BY Workers DEF GInv, GatewayTypeOK
\* The others keep their keys to themselves.
<1>1. ASSUME NEW t \in Thread, NEW k \in Key,
             \A u \in Thread : u # t => step'[u] = step[u] /\ job'[u] = job[u],
             \A j \in Key : j # k => entry'[j] = entry[j] /\ Mine(j)' = Mine(j),
             \/ step[t] # "idle" /\ job[t].key = k
             \/ UNCHANGED keyOf /\ entry'[k].attempt = entry[k].attempt,
             /\ step'[t] # "idle" => job'[t].key = k /\ job'[t].payload \in Payload
             /\ step'[t] \in {"preparing", "assembled"} => Mine(k)' = {}
             /\ step'[t] = "committed" => /\ job'[t].attempt \in Attempt
                                          /\ Mine(k)' = {job'[t].attempt}
             /\ step'[t] \in {"checking", "cancelling", "cancelled"} =>
                    /\ job'[t].attempt \in Attempt
                    /\ entry'[k].attempt = job'[t].attempt
      PROVE  JobInv'
  <2> SUFFICES ASSUME NEW u \in Thread
               PROVE  (/\ step[u] # "idle" => job[u].key \in Key /\ job[u].payload \in Payload
                       /\ step[u] \in {"preparing", "assembled"} => Mine(job[u].key) = {}
                       /\ step[u] = "committed" => /\ job[u].attempt \in Attempt
                                                   /\ Mine(job[u].key) = {job[u].attempt}
                       /\ step[u] \in {"checking", "cancelling", "cancelled"} =>
                              /\ job[u].attempt \in Attempt
                              /\ entry[job[u].key].attempt = job[u].attempt)'
    BY DEF JobInv
  <2>1. CASE u = t
    <3>1. ASSUME step'[t] # "idle" PROVE Mine(job[t].key)' = Mine(k)'
      BY <1>1, <3>1 DEF Mine
    <3> QED BY <1>1, <2>1, <3>1
  <2>2. CASE u # t /\ step[u] # "idle" /\ job[u].key # k
    <3>1. PICK j \in Key : j = job[u].key /\ j # k
      BY <1>0, <2>2 DEF JobInv
    <3>2. Mine(job[u].key)' = Mine(j)'
      BY <1>1, <2>2, <3>1 DEF Mine
    <3> QED BY <1>0, <1>1, <2>2, <3>1, <3>2 DEF JobInv
  <2>3. CASE u # t /\ step[u] # "idle" /\ job[u].key = k
    <3>1. UNCHANGED keyOf /\ entry'[k].attempt = entry[k].attempt
      BY <1>0, <1>1, <2>3 DEF WorkInv
    <3> QED BY <1>0, <1>1, <2>3, <3>1 DEF JobInv, Mine
  <2>4. CASE u # t /\ step[u] = "idle"
    BY <1>1, <2>4
  <2> QED BY <2>1, <2>2, <2>3, <2>4
<1>2. ASSUME UNCHANGED keyOf, NEW k
      PROVE  Mine(k)' = Mine(k)
  BY <1>2 DEF Mine
<1>3. ASSUME NEW t \in Thread, ClientRequest(t) \/ ServiceProceed(t)
      PROVE  JobInv'
  BY <1>0, <1>3, ServiceSteps DEF gateway, JobInv, Mine
<1>4. ASSUME NEW t \in Thread, Assemble(t) \/ CallCancel(t)
      PROVE  JobInv'
  <2>1. /\ step[t] # "idle" /\ UNCHANGED <<keyOf, entry>>
        /\ step'[t] \in {"assembled", "cancelled"}
        /\ job'[t] = job[t] /\ job[t].key \in Key /\ job[t].payload \in Payload
        /\ \A u \in Thread : u # t => step'[u] = step[u] /\ job'[u] = job[u]
        /\ step'[t] = "assembled" => step[t] = "preparing"
        /\ step'[t] = "cancelled" => step[t] = "cancelling"
    BY <1>0, <1>4 DEF Assemble, CallCancel, Enter, GatewayTypeOK, JobInv
  <2> QED BY <1>0, <1>1, <1>2, <2>1 DEF JobInv
<1>5. ASSUME NEW t \in Thread, NEW a \in Attempt, Commit(t, a)
      PROVE  JobInv'
  <2>1. PICK k \in Key : /\ k = job[t].key /\ Mine(k)' = {a}
                         /\ \A j \in Key : j # k => Mine(j)' = Mine(j)
    BY <1>5, CommitEffect
  <2>2. /\ step[t] = "assembled" /\ UNCHANGED entry /\ step'[t] = "committed"
        /\ job'[t].key = k /\ job'[t].attempt = a /\ job'[t].payload = job[t].payload
        /\ \A u \in Thread : u # t => step'[u] = step[u] /\ job'[u] = job[u]
    BY <1>0, <1>5, <2>1 DEF Commit, Enter, GatewayTypeOK
  <2> QED BY <1>0, <1>1, <2>1, <2>2 DEF JobInv
\* A thread that returns knows nothing any more.
<1>6. ASSUME NEW t \in Thread, NEW k \in Key, NEW status, Finish(t, k, status),
             \A j \in Key : j # k => entry'[j] = entry[j], UNCHANGED keyOf,
             \/ step[t] # "idle" /\ job[t].key = k
             \/ entry'[k].attempt = entry[k].attempt
      PROVE  JobInv'
  <2>1. /\ step'[t] = "idle"
        /\ \A u \in Thread : u # t => step'[u] = step[u] /\ job'[u] = job[u]
    BY <1>0, <1>6 DEF Finish, GatewayTypeOK
  <2> QED BY <1>1, <1>2, <1>6, <2>1
<1>7. ASSUME NEW t \in Thread, AssembleFails(t) \/ CommitFails(t) \/ ClaimFails(t)
      PROVE  JobInv'
  <2>1. /\ job[t].key \in Key /\ step[t] # "idle"
        /\ entry[job[t].key].phase \in {"preparing", "recovery_requested"}
    BY <1>0, <1>7 DEF AssembleFails, CommitFails, ClaimFails, JobInv, WorkInv
  <2> QED BY <1>6, <1>7, <2>1, SealEffect, UnresolvedEffect
             DEF AssembleFails, CommitFails, ClaimFails, OpenKey
<1>8. ASSUME NEW t \in Thread, Claim(t)
      PROVE  JobInv'
  <2>1. /\ job[t].key \in Key /\ step[t] = "committed" /\ UNCHANGED keyOf
        /\ job[t].payload \in Payload /\ job[t].attempt \in Attempt
        /\ entry'[job[t].key].attempt = job[t].attempt
        /\ \A j \in Key : j # job[t].key => entry'[j] = entry[j]
        /\ \A u \in Thread : u # t => step'[u] = step[u] /\ job'[u] = job[u]
        /\ step'[t] = "idle" \/ (step'[t] = "checking" /\ job'[t] = job[t])
    <3>1. /\ job[t].key \in Key /\ step[t] = "committed" /\ UNCHANGED keyOf
          /\ job[t].payload \in Payload /\ job[t].attempt \in Attempt
      BY <1>0, <1>8 DEF Claim, JobInv
    <3>2. /\ entry'[job[t].key].attempt = job[t].attempt
          /\ \A j \in Key : j # job[t].key => entry'[j] = entry[j]
      BY <1>0, <1>8, ClaimEffect DEF Others
    <3>3. /\ \A u \in Thread : u # t => step'[u] = step[u] /\ job'[u] = job[u]
          /\ step'[t] = "idle" \/ (step'[t] = "checking" /\ job'[t] = job[t])
      BY <1>0, <1>8, <3>1 DEF Claim, Enter, Finish, GatewayTypeOK
    <3> QED BY <3>1, <3>2, <3>3
  <2> QED BY <1>1, <1>2, <2>1
<1>9. ASSUME NEW t \in Thread, CheckOpen(t) \/ Settle(t)
      PROVE  JobInv'
  <2>1. /\ job[t].key \in Key /\ step[t] # "idle" /\ UNCHANGED keyOf
        /\ job[t].payload \in Payload /\ job[t].attempt \in Attempt
        /\ entry[job[t].key].phase = "closing"
        /\ entry[job[t].key].attempt = job[t].attempt
    BY <1>0, <1>9 DEF CheckOpen, Settle, JobInv, WorkInv
  <2>2. \A j \in Key : j # job[t].key => entry'[j] = entry[j]
    <3>1. MarkUnresolved(job[t].key, job[t].attempt) =>
              \A j \in Key : j # job[t].key => entry'[j] = entry[j]
      BY <2>1, UnresolvedEffect DEF OpenKey
    <3>2. CASE CheckOpen(t)
      BY <2>1, <3>1, <3>2 DEF CheckOpen
    <3>3. CASE Settle(t)
      BY <3>1, <3>3, SettleEffect DEF Others
    <3> QED BY <1>9, <3>2, <3>3
  <2>3. CASE Enter(t, "cancelling", job[t]) /\ UNCHANGED entry
    <3>1. /\ step'[t] = "cancelling" /\ job'[t] = job[t]
          /\ \A u \in Thread : u # t => step'[u] = step[u] /\ job'[u] = job[u]
      BY <1>0, <2>3 DEF Enter, GatewayTypeOK
    <3> QED BY <1>1, <1>2, <2>1, <2>3, <3>1
  <2>4. CASE \E status : Finish(t, job[t].key, status)
    BY <1>6, <2>1, <2>2, <2>4
  <2> QED BY <1>9, <2>3, <2>4 DEF CheckOpen, Settle
<1>10. ASSUME NEW t \in Thread, NEW k \in Key, NEW p \in Payload,
              Reserve(t, k, p) \/ TakeCancel(t, k, p)
       PROVE  JobInv'
  <2>1. /\ step[t] = "idle" /\ UNCHANGED keyOf
        /\ \A j \in Key : j # k => entry'[j] = entry[j]
        /\ entry'[k].attempt = entry[k].attempt
        /\ \A u \in Thread : u # t => step'[u] = step[u] /\ job'[u] = job[u]
        /\ job'[t].key = k /\ job'[t].payload = p
    <3>1. CASE Reserve(t, k, p)
      <4>1. Others(k) /\ entry'[k].attempt = entry[k].attempt
        BY <1>0, <3>1, ReserveEffect
      <4> QED BY <1>0, <3>1, <4>1 DEF Reserve, Free, Enter, GatewayTypeOK, Others
    <3>2. CASE TakeCancel(t, k, p)
      BY <1>0, <3>2 DEF TakeCancel, SetPhase, Free, Enter, GatewayTypeOK, Entries
    <3> QED BY <1>10, <3>1, <3>2
  <2>2. \/ step'[t] = "preparing" /\ Mine(k) = {}
        \/ /\ step'[t] = "checking" /\ job'[t].attempt = entry[k].attempt
           /\ entry[k].attempt \in Attempt
    <3>1. CASE Reserve(t, k, p)
      BY <1>0, <3>1 DEF Reserve, Enter, GatewayTypeOK, KeyInv
    <3>2. CASE TakeCancel(t, k, p)
      <4>1. entry[k].attempt \in Attempt
        <5>1. entry[k].phase = "started" => Mine(k) = {entry[k].attempt}
          BY DEF GInv, EntriesAreTrue, Mine
        <5>2. \A b \in Mine(k) : b \in Attempt
          BY DEF Mine
        <5>3. entry[k].phase = "started" => entry[k].attempt \in Attempt
          BY <5>1, <5>2
        <5> QED BY <1>0, <3>2, <5>3 DEF TakeCancel, Cancellable, Entries
      <4> QED BY <1>0, <3>2, <4>1 DEF TakeCancel, Enter, GatewayTypeOK
    <3> QED BY <1>10, <3>1, <3>2
  <2> QED BY <1>1, <1>2, <2>1, <2>2
<1>11. ASSUME NEW t \in Thread, NEW k \in Key, NEW p \in Payload,
              ReadFate(t, k, p) \/ SealUnknown(t, k, p) \/ AskRecovery(t, k, p)
       PROVE  JobInv'
  <2>1. /\ \A j \in Key : j # k => entry'[j] = entry[j]
        /\ entry'[k].attempt = entry[k].attempt
    BY <1>0, <1>11 DEF ReadFate, SealUnknown, AskRecovery, SetPhase, GatewayTypeOK, Entries
  <2>2. UNCHANGED keyOf /\ \E status : Finish(t, k, status)
    BY <1>11 DEF ReadFate, SealUnknown, AskRecovery
  <2> QED BY <1>6, <2>1, <2>2
<1>12. CASE UNCHANGED gvars
  BY <1>0, <1>12 DEF gvars, gateway, JobInv, Mine
<1> QED BY <1>3, <1>4, <1>5, <1>7, <1>8, <1>9, <1>10, <1>11, <1>12
           DEF GatewayNext, GatewayProceed, GatewayRequest

(* Every step keeps what a cancelling thread may expect of the service.     *)
LEMMA CancelStep == GInv /\ [GatewayNext]_gvars => CancelInv'
<1> SUFFICES ASSUME GInv, [GatewayNext]_gvars, NEW u \in Thread
             PROVE  (/\ step[u] \notin {"idle", "cancelled"} => pc[u] = "idle"
                     /\ step[u] = "cancelled" =>
                            /\ pc[u] # "idle" => call[u] = [attempt |-> job[u].attempt,
                                                            intent |-> "cancel"]
                            /\ pc[u] = "idle" =>
                                   /\ reply[u] # None
                                   /\ reply[u].kind = "document" =>
                                          /\ reply[u].attempt = job[u].attempt
                                          /\ reply[u].intent = "cancel")'
  BY DEF CancelInv
<1> DEFINE Goal == (/\ step[u] \notin {"idle", "cancelled"} => pc[u] = "idle"
                    /\ step[u] = "cancelled" =>
                           /\ pc[u] # "idle" => call[u] = [attempt |-> job[u].attempt,
                                                           intent |-> "cancel"]
                           /\ pc[u] = "idle" =>
                                  /\ reply[u] # None
                                  /\ reply[u].kind = "document" =>
                                         /\ reply[u].attempt = job[u].attempt
                                         /\ reply[u].intent = "cancel")'
<1>0. /\ GatewayTypeOK /\ JobInv /\ CancelInv /\ TypeOK /\ ThreadInv /\ RecordInv
      /\ IInv'
  BY IInvStep DEF GInv, IInv
\* Nothing that concerns u, seen from the service, but for being woken.
<1>1. ASSUME step'[u] = step[u], job'[u] = job[u],
             \/ pc'[u] = pc[u]
             \/ pc[u] = "waiting" /\ pc'[u] = "woken",
             call'[u] = call[u], reply'[u] = reply[u]
      PROVE  Goal
  BY <1>0, <1>1 DEF CancelInv
<1>2. ASSUME step'[u] = "idle" \/ (step'[u] \notin {"idle", "cancelled"} /\ pc'[u] = "idle")
      PROVE  Goal
  BY <1>2
<1>3. ASSUME NEW t \in Thread, t # u, ServiceProceed(t) \/ ClientRequest(t)
      PROVE  Goal
  <2>1. step'[u] = step[u] /\ job'[u] = job[u]
    BY <1>3 DEF ServiceProceed, ClientRequest, gateway
  <2>2. call'[u] = call[u] /\ reply'[u] = reply[u]
    BY <1>0, <1>3 DEF ServiceProceed, ClientRequest, Proceed, AppendMessage, StoreMessage,
                      Close, CloseFrom, Join, Build, BuildFails, Publish, MarkFailed,
                      Wake, Return, Answer, TypeOK
  <2>3. \/ pc'[u] = pc[u]
        \/ pc[u] = "waiting" /\ pc'[u] = "woken"
    <3>1. \A a : u \in ready[a] /\ a \in Attempt => pc[u] = "waiting"
      BY <1>0 DEF ThreadInv
    <3>2. ASSUME Publish(t) \/ MarkFailed(t)
          PROVE  call[t].attempt \in Attempt
      BY <1>0, <3>2, CallTyped DEF Publish, MarkFailed
    <3> QED BY <1>0, <1>3, <3>1, <3>2
               DEF ServiceProceed, ClientRequest, Proceed, AppendMessage, StoreMessage,
                   Close, CloseFrom, Join, Build, BuildFails, Publish, MarkFailed,
                   Wake, NotifyAll, TypeOK
  <2> QED BY <1>1, <2>1, <2>2, <2>3
<1>4. ASSUME ClientRequest(u)
      PROVE  Goal
  BY <1>2, <1>4 DEF ClientRequest, gateway
<1>5. ASSUME ServiceProceed(u)
      PROVE  Goal
  <2>1. step'[u] = step[u] /\ job'[u] = job[u] /\ pc[u] # "idle"
    BY <1>5 DEF ServiceProceed, gateway, Proceed, Build, BuildFails, Publish, MarkFailed,
                Wake
  <2>2. CASE step[u] = "idle"
    BY <1>2, <2>1, <2>2
  <2>3. CASE step[u] = "cancelled"
    <3>1. /\ call[u].attempt = job[u].attempt /\ call[u].intent = "cancel"
          /\ call[u] = [attempt |-> job[u].attempt, intent |-> "cancel"]
          /\ job[u].attempt \in Attempt
      BY <1>0, <2>1, <2>3 DEF CancelInv, JobInv
    <3>2. CASE Build(u) \/ BuildFails(u)
      BY <1>0, <2>1, <2>3, <3>1, <3>2 DEF Build, BuildFails, TypeOK
    <3>3. ASSUME NEW r \in Replies, pc'[u] = "idle", reply'[u] = r,
                 r.kind = "document" => r.attempt = job[u].attempt /\ r.intent = "cancel"
          PROVE  Goal
      BY <2>1, <3>3, GatewayAssumption
    <3>4. CASE Publish(u)
      <4>1. /\ Outcome(call[u].attempt, call[u].intent, draft[u]) \in Replies
            /\ Outcome(call[u].attempt, call[u].intent, draft[u]).attempt = job[u].attempt
            /\ Outcome(call[u].attempt, call[u].intent, draft[u]).intent = "cancel"
        BY <1>0, <3>1, <3>4, DraftOfWinner DEF Publish, Outcome, Replies, Outcomes
      <4> QED BY <1>0, <3>3, <3>4, <4>1 DEF Publish, NotifyAll, Return, Answer, TypeOK
    <3>5. CASE MarkFailed(u)
      <4>1. /\ Refusal("evaluation_failed", call[u].attempt) \in Replies
            /\ Refusal("evaluation_failed", call[u].attempt).kind # "document"
        BY <3>1 DEF Refusal, Replies, Refusals
      <4> QED BY <1>0, <3>3, <3>5, <4>1, MarkFailedEffect
                 DEF NotifyAll, Return, Answer, TypeOK
    <3>6. CASE Wake(u)
      <4>1. StoredTerminal(call[u].attempt, call[u].intent) \in Replies
        BY <1>0, <3>1, StoredTerminalTyped DEF Intent
      <4>2. StoredTerminal(call[u].attempt, call[u].intent).kind = "document" =>
                /\ StoredTerminal(call[u].attempt, call[u].intent).attempt = job[u].attempt
                /\ StoredTerminal(call[u].attempt, call[u].intent).intent = "cancel"
        BY <3>1 DEF StoredTerminal, Refusal, Outcome
      <4> QED BY <1>0, <3>3, <3>6, <4>1, <4>2 DEF Wake, Return, Answer, TypeOK
    <3> QED BY <1>5, <3>2, <3>4, <3>5, <3>6 DEF ServiceProceed, Proceed
  <2>4. CASE step[u] \notin {"idle", "cancelled"}
    BY <1>0, <2>1, <2>4 DEF CancelInv
  <2> QED BY <2>2, <2>3, <2>4
<1>6. ASSUME CallCancel(u)
      PROVE  Goal
  <2>1. /\ step'[u] = "cancelled" /\ job'[u] = job[u] /\ job[u].attempt \in Attempt
    BY <1>0, <1>6 DEF CallCancel, Enter, GatewayTypeOK, JobInv
  <2> DEFINE a == job[u].attempt
             time == job[u].payload.time
  <2>2. CASE Close(u, a, time, "cancel") \/ Join(u, a, "cancel")
    BY <1>0, <2>1, <2>2 DEF Close, CloseFrom, Join, TypeOK
  <2>3. CASE AnswerTerminal(u, a, time, "cancel")
    <3>1. TerminalRefusal(a, time, "cancel") \in Replies
      BY <1>0, <2>1, StoredTerminalTyped
         DEF TerminalRefusal, Refusal, Replies, Refusals, Intent
    <3>2. TerminalRefusal(a, time, "cancel").kind = "document" =>
              /\ TerminalRefusal(a, time, "cancel").attempt = a
              /\ TerminalRefusal(a, time, "cancel").intent = "cancel"
      BY DEF TerminalRefusal, StoredTerminal, Refusal, Outcome
    <3>3. reply'[u] = TerminalRefusal(a, time, "cancel") /\ pc'[u] = "idle"
      BY <1>0, <2>3 DEF AnswerTerminal, Answer, TypeOK
    <3> QED BY <2>1, <3>1, <3>2, <3>3, GatewayAssumption
  <2> QED BY <1>6, <2>2, <2>3 DEF CallCancel
<1>7. ASSUME NEW t \in Thread, t # u, CallCancel(t)
      PROVE  Goal
  <2>1. step'[u] = step[u] /\ job'[u] = job[u]
    BY <1>0, <1>7 DEF CallCancel, Enter, GatewayTypeOK
  <2>2. call'[u] = call[u] /\ reply'[u] = reply[u] /\ pc'[u] = pc[u]
    BY <1>0, <1>7 DEF CallCancel, Close, CloseFrom, Join, AnswerTerminal, Answer, TypeOK
  <2> QED BY <1>1, <2>1, <2>2
<1>8. ASSUME NEW t \in Thread, t # u,
             \/ GatewayProceed(t) /\ ~CallCancel(t)
             \/ \E k \in Key, p \in Payload : GatewayRequest(t, k, p)
      PROVE  Goal
  <2>1. UNCHANGED <<pc, call, reply>>
    BY <1>8 DEF GatewayProceed, GatewayRequest, Assemble, AssembleFails, Commit,
                CommitFails, Claim, ClaimFails, CheckOpen, Settle, Reserve, ReadFate,
                SealUnknown, TakeCancel, AskRecovery, vars
  <2>2. step'[u] = step[u] /\ job'[u] = job[u]
    BY <1>0, <1>8
       DEF GatewayProceed, GatewayRequest, Assemble, AssembleFails, Commit, CommitFails,
           Claim, ClaimFails, CheckOpen, Settle, Reserve, ReadFate, SealUnknown,
           TakeCancel, AskRecovery, Enter, Finish, GatewayTypeOK
  <2> QED BY <1>1, <2>1, <2>2
<1>9. ASSUME \/ GatewayProceed(u) /\ ~CallCancel(u)
             \/ \E k \in Key, p \in Payload : GatewayRequest(u, k, p)
      PROVE  Goal
  <2>1. UNCHANGED pc
    BY <1>9 DEF GatewayProceed, GatewayRequest, Assemble, AssembleFails, Commit,
                CommitFails, Claim, ClaimFails, CheckOpen, Settle, Reserve, ReadFate,
                SealUnknown, TakeCancel, AskRecovery, vars
  <2>2. step'[u] = "idle" \/ (step'[u] \notin {"idle", "cancelled"} /\ pc[u] = "idle")
    BY <1>0, <1>9
       DEF GatewayProceed, GatewayRequest, Assemble, AssembleFails, Commit, CommitFails,
           Claim, ClaimFails, CheckOpen, Settle, Reserve, ReadFate, SealUnknown,
           TakeCancel, AskRecovery, Enter, Finish, GatewayTypeOK, CancelInv, Free
  <2> QED BY <1>2, <2>1, <2>2
<1> HIDE DEF Goal
<1>10. ASSUME UNCHANGED gvars
       PROVE  Goal
  BY <1>1, <1>10 DEF gvars, gateway, vars
<1>11. ASSUME NEW t \in Thread, ClientRequest(t) \/ ServiceProceed(t)
       PROVE  Goal
  BY <1>3, <1>4, <1>5, <1>11
<1>12. ASSUME NEW t \in Thread, GatewayProceed(t)
       PROVE  Goal
  BY <1>6, <1>7, <1>8, <1>9, <1>12
<1>13. ASSUME NEW t \in Thread, \E k \in Key, p \in Payload : GatewayRequest(t, k, p)
       PROVE  Goal
  BY <1>8, <1>9, <1>13
<1>14. ASSUME GatewayNext
       PROVE  Goal
  BY <1>11, <1>12, <1>13, <1>14 DEF GatewayNext
<1>15. GatewayNext \/ UNCHANGED gvars
  OBVIOUS
<1>16. Goal
  BY <1>10, <1>14, <1>15
<1> QED BY <1>16 DEF Goal

-----------------------------------------------------------------------------
\* What a key says of its attempts: EntriesAreTrue for one key.
Truth(k) ==
    /\ entry[k].phase = "no_attempt" => Mine(k) = {}
    /\ (entry[k].phase = "unresolved" /\ entry[k].attempt = None) => Mine(k) = {}
    /\ entry[k].phase \in {"started", "closing"} => Mine(k) = {entry[k].attempt}
    /\ entry[k].phase = "interrupted" =>
           /\ Mine(k) = {entry[k].attempt}
           /\ phase[entry[k].attempt] = "INTERRUPTED"
           /\ entry[k].settled = result[entry[k].attempt]
           /\ ObservedEvents(entry[k].settled) = {}

(* A cancel that returned an unplayed document has interrupted the attempt. *)
LEMMA SettledIsInterrupted ==
    ASSUME GInv, NEW t \in Thread, step[t] = "cancelled", pc[t] = "idle",
           reply[t].kind = "document"
    PROVE  /\ phase[job[t].attempt] = "INTERRUPTED"
           /\ reply[t].document = result[job[t].attempt]
           /\ job[t].attempt \in Attempt
<1>0. CancelInv /\ JobInv /\ RecordInv /\ ReplyInv /\ TypeOK
  BY DEF GInv, IInv
<1>1. /\ job[t].attempt \in Attempt /\ reply[t] # None
      /\ reply[t].attempt = job[t].attempt /\ reply[t].intent = "cancel"
  BY <1>0 DEF CancelInv, JobInv
<1>2. /\ result[job[t].attempt] = reply[t].document
      /\ intent[job[t].attempt] = "cancel"
  BY <1>0, <1>1 DEF ReplyInv, OneOutcome
<1>3. reply[t] \in Outcomes
  BY <1>0, <1>1 DEF TypeOK, Replies, Refusals, Acks
<1>4. result[job[t].attempt] # None
  BY <1>2, <1>3, NoneAssumption DEF Outcomes
<1>5. phase[job[t].attempt] \in {"EVALUATED", "INTERRUPTED"}
  BY <1>0, <1>1, <1>4 DEF RecordInv
<1> QED BY <1>0, <1>1, <1>2, <1>5 DEF RecordInv

(* Every step keeps what the keys say of their attempts true.               *)
LEMMA TruthStep == GInv /\ [GatewayNext]_gvars => EntriesAreTrue'
<1> SUFFICES ASSUME GInv, [GatewayNext]_gvars, NEW k \in Key PROVE Truth(k)'
  BY DEF EntriesAreTrue, Truth, Mine
<1>0. /\ GatewayTypeOK /\ JobInv /\ WorkInv /\ KeyInv /\ Truth(k)
      /\ entry[k] \in Entries
  BY Workers DEF GInv, GatewayTypeOK, EntriesAreTrue, Truth, Mine
\* A key whose entry and attempts stay.
<1>1. ASSUME entry'[k] = entry[k], Mine(k)' = Mine(k)
      PROVE  Truth(k)'
  <2>1. CASE entry[k].phase = "interrupted"
    <3>1. PICK a \in Attempt : entry[k].attempt = a /\ phase[a] = "INTERRUPTED"
      BY <1>0, <2>1 DEF Truth, Mine
    <3>2. phase'[a] = "INTERRUPTED" /\ result'[a] = result[a]
      BY <3>1, AttemptsStay
    <3>3. /\ Mine(k)' = {a} /\ entry'[k].attempt = a
          /\ entry'[k].settled = result'[a] /\ ObservedEvents(entry'[k].settled) = {}
      BY <1>0, <1>1, <2>1, <3>1, <3>2 DEF Truth
    <3>4. ObservedEvents(entry[k].settled)' = {}
      BY <3>3 DEF ObservedEvents
    <3> QED BY <1>1, <2>1, <3>1, <3>2, <3>3, <3>4 DEF Truth
  <2>2. CASE entry[k].phase # "interrupted"
    BY <1>0, <1>1, <2>2 DEF Truth
  <2> QED BY <2>1, <2>2
\* A key that moves on to a phase that says less.
<1>2. ASSUME \/ entry'[k].phase \in {"preparing", "recovery_requested"}
             \/ entry'[k].phase = "unresolved" /\ entry'[k].attempt # None
             \/ entry'[k].phase \in {"no_attempt", "unresolved"} /\ Mine(k)' = {}
             \/ /\ entry'[k].phase \in {"started", "closing"}
                /\ Mine(k)' = {entry'[k].attempt}
      PROVE  Truth(k)'
  BY <1>2 DEF Truth
<1>3. ASSUME UNCHANGED keyOf
      PROVE  Mine(k)' = Mine(k)
  BY <1>3 DEF Mine
<1>4. ASSUME NEW t \in Thread, ClientRequest(t) \/ ServiceProceed(t)
      PROVE  Truth(k)'
  BY <1>1, <1>3, <1>4, ServiceSteps DEF gateway
<1>5. ASSUME NEW t \in Thread, Assemble(t) \/ CallCancel(t)
      PROVE  Truth(k)'
  BY <1>1, <1>3, <1>5 DEF Assemble, CallCancel
<1>6. ASSUME NEW t \in Thread, NEW a \in Attempt, Commit(t, a)
      PROVE  Truth(k)'
  <2>1. PICK j \in Key : /\ \A i \in Key : i # j => Mine(i)' = Mine(i)
                         /\ entry[j].phase \in {"preparing", "recovery_requested"}
    BY <1>6, CommitEffect
  <2>2. UNCHANGED entry
    BY <1>6 DEF Commit
  <2> QED BY <1>1, <1>2, <2>1, <2>2
<1>7. ASSUME NEW t \in Thread, AssembleFails(t) \/ CommitFails(t) \/ ClaimFails(t)
      PROVE  Truth(k)'
  <2>1. PICK j \in Key : j = job[t].key
    BY <1>0, <1>7 DEF AssembleFails, CommitFails, ClaimFails, JobInv
  <2>2. /\ entry[j].phase \in {"preparing", "recovery_requested"}
        /\ ~ClaimFails(t) => Mine(j) = {}
        /\ entry[j].attempt = None
        /\ ClaimFails(t) => job[t].attempt \in Attempt
    BY <1>0, <1>7, <2>1
       DEF AssembleFails, CommitFails, ClaimFails, JobInv, WorkInv, KeyInv
  <2>3. \A i \in Key : i # j => entry'[i] = entry[i]
    BY <1>7, <2>1, <2>2, SealEffect, UnresolvedEffect
       DEF AssembleFails, CommitFails, ClaimFails, OpenKey
  <2>4. \/ Entry(j, "no_attempt", None) /\ Mine(j) = {}
        \/ Entry(j, "unresolved", None) /\ Mine(j) = {}
        \/ Entry(j, "unresolved", job[t].attempt) /\ job[t].attempt # None
    BY <1>7, <2>1, <2>2, SealEffect, UnresolvedEffect, GatewayAssumption
       DEF AssembleFails, CommitFails, ClaimFails, OpenKey
  <2>5. UNCHANGED keyOf
    BY <1>7 DEF AssembleFails, CommitFails, ClaimFails
  <2> QED BY <1>1, <1>2, <1>3, <2>3, <2>4, <2>5 DEF Entry
<1>8. ASSUME NEW t \in Thread, Claim(t)
      PROVE  Truth(k)'
  <2>1. PICK j \in Key : j = job[t].key
    BY <1>0, <1>8 DEF Claim, JobInv
  <2>2. Mine(j) = {job[t].attempt} /\ UNCHANGED keyOf
    BY <1>0, <1>8, <2>1 DEF Claim, JobInv
  <2>3. \E p \in {"closing", "started"} :
            entry' = [entry EXCEPT ![j] = [@ EXCEPT !.attempt = job[t].attempt, !.phase = p]]
    BY <1>8, <2>1 DEF Claim
  <2>4. /\ entry'[j].attempt = job[t].attempt
        /\ entry'[j].phase \in {"closing", "started"}
        /\ \A i \in Key : i # j => entry'[i] = entry[i]
    BY <1>0, <2>3 DEF GatewayTypeOK, Entries
  <2> QED BY <1>1, <1>2, <1>3, <2>2, <2>4
<1>9. ASSUME NEW t \in Thread, CheckOpen(t) \/ Settle(t)
      PROVE  Truth(k)'
  <2>1. PICK j \in Key : j = job[t].key
    BY <1>0, <1>9 DEF CheckOpen, Settle, JobInv
  <2>2. /\ entry[j].phase = "closing" /\ entry[j].attempt = job[t].attempt
        /\ job[t].attempt \in Attempt /\ UNCHANGED keyOf
    BY <1>0, <1>9, <2>1 DEF CheckOpen, Settle, JobInv, WorkInv
  <2>3. ASSUME MarkUnresolved(j, job[t].attempt)
        PROVE  Truth(k)'
    <3>1. /\ Entry(j, "unresolved", job[t].attempt) /\ job[t].attempt # None
          /\ \A i \in Key : i # j => entry'[i] = entry[i]
      BY <2>2, <2>3, UnresolvedEffect, GatewayAssumption DEF OpenKey
    <3> QED BY <1>1, <1>2, <1>3, <2>2, <3>1 DEF Entry
  <2>4. ASSUME step[t] = "cancelled", pc[t] = "idle", reply[t].kind = "document",
               ObservedEvents(reply[t].document) = {}, UNCHANGED vars,
               entry' = [entry EXCEPT ![j] = [@ EXCEPT !.phase = "interrupted",
                                                       !.settled = reply[t].document]]
        PROVE  Truth(k)'
    <3>1. /\ \A i \in Key : i # j => entry'[i] = entry[i]
          /\ entry'[j].phase = "interrupted" /\ entry'[j].attempt = entry[j].attempt
          /\ entry'[j].settled = reply[t].document
      BY <1>0, <2>4 DEF GatewayTypeOK, Entries
    <3>2. CASE k # j
      BY <1>1, <1>3, <2>2, <3>1, <3>2
    <3>3. CASE k = j
      <4>1. Mine(k)' = {entry'[k].attempt}
        BY <1>0, <1>3, <2>2, <3>1, <3>3 DEF Truth
      <4>2. /\ phase[entry'[k].attempt] = "INTERRUPTED"
            /\ entry'[k].settled = result[entry'[k].attempt]
        BY <2>2, <2>4, <3>1, <3>3, SettledIsInterrupted
      <4>3. ObservedEvents(entry[k].settled)' = {}
        BY <2>4, <3>1, <3>3 DEF ObservedEvents
      <4>4. phase' = phase /\ result' = result
        BY <2>4 DEF vars, record
      <4> QED BY <3>1, <3>3, <4>1, <4>2, <4>3, <4>4 DEF Truth
    <3> QED BY <3>2, <3>3
  <2>5. CASE CheckOpen(t)
    BY <1>1, <1>3, <2>1, <2>2, <2>3, <2>5 DEF CheckOpen
  <2>6. CASE Settle(t)
    BY <2>1, <2>3, <2>4, <2>6 DEF Settle
  <2> QED BY <1>9, <2>5, <2>6
<1>10. ASSUME NEW t \in Thread, NEW j \in Key, NEW p \in Payload,
              GatewayRequest(t, j, p)
       PROVE  Truth(k)'
  <2>1. UNCHANGED keyOf /\ \A i \in Key : i # j => entry'[i] = entry[i]
    BY <1>0, <1>10 DEF GatewayRequest, Reserve, ReadFate, SealUnknown, TakeCancel,
                       AskRecovery, SetPhase, GatewayTypeOK
  <2>2. CASE Reserve(t, j, p) \/ AskRecovery(t, j, p)
    <3>1. entry'[j].phase \in {"preparing", "recovery_requested"} \/ entry' = entry
      <4>1. entry \in [Key -> Entries] /\ entry[j] \in Entries
        BY <1>0 DEF GatewayTypeOK
      <4>2. CASE Reserve(t, j, p)
        BY <4>1, <4>2 DEF Reserve, Entries
      <4>3. CASE AskRecovery(t, j, p)
        <5>1. \/ entry' = [entry EXCEPT ![j] =
                              [@ EXCEPT !.phase = "recovery_requested"]]
              \/ entry' = entry
          BY <4>3 DEF AskRecovery, SetPhase
        <5>2. [entry[j] EXCEPT !.phase = "recovery_requested"].phase
                = "recovery_requested"
          BY <4>1 DEF Entries
        <5> QED BY <4>1, <5>1, <5>2
      <4> QED BY <2>2, <4>2, <4>3
    <3> QED BY <1>1, <1>2, <1>3, <2>1, <3>1
  <2>3. CASE ReadFate(t, j, p)
    BY <1>1, <1>3, <2>1, <2>3 DEF ReadFate
  <2>4. CASE SealUnknown(t, j, p)
    <3>1. entry'[j].phase = "no_attempt" /\ Mine(j) = {}
      BY <1>0, <2>4 DEF SealUnknown, KeyInv, GatewayTypeOK, Entries
    <3> QED BY <1>1, <1>2, <1>3, <2>1, <3>1
  <2>5. CASE TakeCancel(t, j, p)
    <3>1. entry'[j].phase = "closing" /\ entry'[j].attempt = entry[j].attempt
      BY <1>0, <2>5 DEF TakeCancel, SetPhase, GatewayTypeOK, Entries
    <3>2. Mine(j) = {entry[j].attempt}
      BY <1>0, <2>5 DEF TakeCancel, Cancellable, KeyInv, GInv, EntriesAreTrue, Mine
    <3> QED BY <1>1, <1>2, <1>3, <2>1, <3>1, <3>2
  <2> QED BY <1>10, <2>2, <2>3, <2>4, <2>5 DEF GatewayRequest
<1>11. CASE UNCHANGED gvars
  BY <1>1, <1>3, <1>11 DEF gvars, gateway
<1> QED BY <1>4, <1>5, <1>6, <1>7, <1>8, <1>9, <1>10, <1>11
           DEF GatewayNext, GatewayProceed

-----------------------------------------------------------------------------
\* The phases a key may go to, and what may be told of it on arrival.
Edges ==
    {<<"unknown", "preparing">>, <<"unknown", "no_attempt">>,
     <<"preparing", "recovery_requested">>, <<"preparing", "started">>,
     <<"preparing", "no_attempt">>, <<"preparing", "unresolved">>,
     <<"recovery_requested", "no_attempt">>, <<"recovery_requested", "closing">>,
     <<"recovery_requested", "unresolved">>,
     <<"started", "closing">>, <<"unresolved", "closing">>,
     <<"closing", "interrupted">>, <<"closing", "unresolved">>}
Answered(p) == {f \in Fate : \/ f = "STARTED" /\ p = "started"
                             \/ f = "INTERRUPTED" /\ p = "interrupted"
                             \/ f = "NO_ATTEMPT" /\ p = "no_attempt"}

\* What one step may do to a key.
Lifecycle(k) ==
    /\ \/ UNCHANGED entry[k]
       \/ /\ <<entry[k].phase, entry'[k].phase>> \in Edges
          /\ entry[k].phase # "unknown" => UNCHANGED entry[k].payload
    /\ said'[k] \subseteq said[k] \cup Answered(entry'[k].phase)

(* A step moves a key along the edges only, and answers with the fate the   *)
(* key has then.                                                            *)
LEMMA LifecycleStep ==
    ASSUME GInv, [GatewayNext]_gvars, NEW k \in Key
    PROVE  Lifecycle(k)
<1>0. /\ GatewayTypeOK /\ JobInv /\ WorkInv /\ KeyInv
      /\ entry \in [Key -> Entries] /\ said \in [Key -> SUBSET Fate]
      /\ \A j \in Key : entry[j] \in Entries
  BY Workers DEF GInv, GatewayTypeOK
<1>1. ASSUME UNCHANGED <<entry, said>>
      PROVE  Lifecycle(k)
  BY <1>1 DEF Lifecycle
<1>2. ASSUME NEW t \in Thread, NEW j \in Key, NEW status, Finish(t, j, status)
      PROVE  /\ \A i \in Key : i # j => said'[i] = said[i]
             /\ said'[j] = said[j] \cup ({status} \cap Fate)
  BY <1>0, <1>2 DEF Finish
<1>3. ASSUME NEW j \in Key,
             \A i \in Key : i # j => said'[i] = said[i] /\ entry'[i] = entry[i],
             <<entry[j].phase, entry'[j].phase>> \in Edges,
             entry[j].phase # "unknown" => entry'[j].payload = entry[j].payload,
             \/ said'[j] = said[j]
             \/ \E f \in Answered(entry'[j].phase) : said'[j] = said[j] \cup {f}
      PROVE  Lifecycle(k)
  BY <1>3 DEF Lifecycle
<1>4. ASSUME NEW t \in Thread, ClientRequest(t) \/ ServiceProceed(t)
      PROVE  Lifecycle(k)
  BY <1>1, <1>4, ServiceSteps DEF gateway
<1>5. ASSUME NEW t \in Thread,
             Assemble(t) \/ CallCancel(t) \/ \E a \in Attempt : Commit(t, a)
      PROVE  Lifecycle(k)
  BY <1>1, <1>5 DEF Assemble, CallCancel, Commit, Enter
<1>6. ASSUME NEW t \in Thread, AssembleFails(t) \/ CommitFails(t) \/ ClaimFails(t)
      PROVE  Lifecycle(k)
  <2>1. PICK j \in Key : /\ j = job[t].key
                         /\ entry[j].phase \in {"preparing", "recovery_requested"}
    BY <1>0, <1>6 DEF AssembleFails, CommitFails, ClaimFails, JobInv, WorkInv
  <2>2. /\ \A i \in Key : i # j => entry'[i] = entry[i]
        /\ entry'[j].phase \in {"no_attempt", "unresolved"}
        /\ entry'[j].payload = entry[j].payload
    BY <1>6, <2>1, SealEffect, UnresolvedEffect
       DEF AssembleFails, CommitFails, ClaimFails, Entry, OpenKey
  <2>3. Finish(t, j, "refused") \/ Finish(t, j, "internal_error")
    BY <1>6, <2>1 DEF AssembleFails, CommitFails, ClaimFails
  <2>4. /\ \A i \in Key : i # j => said'[i] = said[i]
        /\ said'[j] = said[j]
    BY <1>2, <2>3 DEF Fate
  <2>5. <<entry[j].phase, entry'[j].phase>> \in Edges
    BY <2>1, <2>2 DEF Edges
  <2> QED BY <1>3, <2>2, <2>4, <2>5
<1>7. ASSUME NEW t \in Thread, Claim(t)
      PROVE  Lifecycle(k)
  <2>1. PICK j \in Key : /\ j = job[t].key
                         /\ entry[j].phase \in {"preparing", "recovery_requested"}
    BY <1>0, <1>7 DEF Claim, JobInv, WorkInv
  <2>2. CASE /\ entry[j].phase = "recovery_requested"
             /\ entry' = [entry EXCEPT ![j] = [@ EXCEPT !.attempt = job[t].attempt,
                                                        !.phase = "closing"]]
             /\ UNCHANGED said
    <3>1. /\ \A i \in Key : i # j => entry'[i] = entry[i]
          /\ entry'[j].phase = "closing" /\ entry'[j].payload = entry[j].payload
      BY <1>0, <2>2 DEF Entries
    <3>2. <<entry[j].phase, entry'[j].phase>> \in Edges
      BY <2>2, <3>1 DEF Edges
    <3> QED BY <1>3, <2>2, <3>1, <3>2
  <2>3. CASE /\ entry[j].phase = "preparing"
             /\ entry' = [entry EXCEPT ![j] = [@ EXCEPT !.attempt = job[t].attempt,
                                                        !.phase = "started"]]
             /\ Finish(t, j, "STARTED")
    <3>1. /\ \A i \in Key : i # j => entry'[i] = entry[i]
          /\ entry'[j].phase = "started" /\ entry'[j].payload = entry[j].payload
      BY <1>0, <2>3 DEF Entries
    <3>2. <<entry[j].phase, entry'[j].phase>> \in Edges
      BY <2>3, <3>1 DEF Edges
    <3>3. /\ said'[j] = said[j] \cup {"STARTED"}
          /\ "STARTED" \in Answered(entry'[j].phase)
      <4>1. said'[j] = said[j] \cup ({"STARTED"} \cap Fate)
        BY <1>2, <2>3
      <4> QED BY <3>1, <4>1 DEF Fate, Answered
    <3>4. \A i \in Key : i # j => said'[i] = said[i]
      BY <1>2, <2>3
    <3> QED BY <1>3, <3>1, <3>2, <3>3, <3>4
  <2> QED BY <1>7, <2>1, <2>2, <2>3 DEF Claim, Enter
<1>8. ASSUME NEW t \in Thread, CheckOpen(t) \/ Settle(t)
      PROVE  Lifecycle(k)
  <2>1. PICK j \in Key : j = job[t].key /\ entry[j].phase = "closing"
    BY <1>0, <1>8 DEF CheckOpen, Settle, JobInv, WorkInv
  <2>2. ASSUME NEW status, status \notin Fate, Finish(t, j, status),
               MarkUnresolved(j, job[t].attempt)
        PROVE  Lifecycle(k)
    <3>1. /\ \A i \in Key : i # j => entry'[i] = entry[i]
          /\ entry'[j].phase = "unresolved" /\ entry'[j].payload = entry[j].payload
      BY <2>1, <2>2, UnresolvedEffect DEF OpenKey, Entry
    <3>2. /\ said'[j] = said[j]
          /\ \A i \in Key : i # j => said'[i] = said[i]
      BY <1>2, <2>2
    <3>3. <<entry[j].phase, entry'[j].phase>> \in Edges
      BY <2>1, <3>1 DEF Edges
    <3> QED BY <1>3, <3>1, <3>2, <3>3
  <2>3. ASSUME NEW d, Finish(t, j, "INTERRUPTED"),
               entry' = [entry EXCEPT ![j] = [@ EXCEPT !.phase = "interrupted", !.settled = d]]
        PROVE  Lifecycle(k)
    <3>1. /\ \A i \in Key : i # j => entry'[i] = entry[i]
          /\ entry'[j].phase = "interrupted" /\ entry'[j].payload = entry[j].payload
      BY <1>0, <2>3 DEF Entries
    <3>2. /\ said'[j] = said[j] \cup {"INTERRUPTED"}
          /\ "INTERRUPTED" \in Answered(entry'[j].phase)
      <4>1. said'[j] = said[j] \cup ({"INTERRUPTED"} \cap Fate)
        BY <1>2, <2>3
      <4> QED BY <3>1, <4>1 DEF Fate, Answered
    <3>3. <<entry[j].phase, entry'[j].phase>> \in Edges
      BY <2>1, <3>1 DEF Edges
    <3>4. \A i \in Key : i # j => said'[i] = said[i]
      BY <1>2, <2>3
    <3> QED BY <1>3, <3>1, <3>2, <3>3, <3>4
  <2>4. "attempt_conflict" \notin Fate /\ "internal_error" \notin Fate
    BY DEF Fate
  <2>5. CASE CheckOpen(t)
    BY <1>1, <2>1, <2>2, <2>4, <2>5 DEF CheckOpen, Enter
  <2>6. CASE Settle(t)
    <3>1. (IF reply[t].kind = "attempt_conflict" THEN reply[t].kind
           ELSE "internal_error") \notin Fate
      BY <2>4
    <3> QED BY <2>1, <2>2, <2>3, <2>4, <2>6, <3>1 DEF Settle
  <2> QED BY <1>8, <2>5, <2>6
<1>9. ASSUME NEW t \in Thread, NEW j \in Key, NEW p \in Payload,
             GatewayRequest(t, j, p)
      PROVE  Lifecycle(k)
  <2>1. /\ \A i \in Key : i # j => entry'[i] = entry[i] /\ said'[i] = said[i]
        /\ entry[j].phase \in KeyPhase
    BY <1>0, <1>9, <1>2 DEF GatewayRequest, Reserve, ReadFate, SealUnknown, TakeCancel,
                       AskRecovery, SetPhase, Enter, Entries
  <2>2. CASE Reserve(t, j, p) \/ TakeCancel(t, j, p)
    <3>1. /\ entry'[j].phase = IF Reserve(t, j, p) THEN "preparing" ELSE "closing"
          /\ entry[j].phase \in IF Reserve(t, j, p) THEN {"unknown"}
                                 ELSE {"started", "unresolved"}
          /\ entry[j].phase # "unknown" => entry'[j].payload = entry[j].payload
          /\ said' = said
      <4>1. CASE Reserve(t, j, p)
        BY <1>0, <4>1, ReserveEffect DEF Reserve, Enter, GInv
      <4>2. CASE TakeCancel(t, j, p) /\ ~Reserve(t, j, p)
        BY <1>0, <4>2 DEF TakeCancel, Cancellable, SetPhase, Enter, Entries
      <4> QED BY <2>2, <4>1, <4>2
    <3>2. <<entry[j].phase, entry'[j].phase>> \in Edges
      BY <3>1 DEF Edges
    <3> QED BY <1>3, <2>1, <3>1, <3>2
  <2>3. CASE SealUnknown(t, j, p)
    <3>1. /\ entry'[j].phase = "no_attempt" /\ entry[j].phase = "unknown"
          /\ said'[j] = said[j] \cup {"NO_ATTEMPT"}
          /\ "NO_ATTEMPT" \in Answered("no_attempt")
      <4>1. said'[j] = said[j] \cup ({"NO_ATTEMPT"} \cap Fate)
        BY <1>2, <2>3 DEF SealUnknown
      <4> QED BY <1>0, <2>3, <4>1 DEF SealUnknown, Entries, Fate, Answered
    <3>2. <<entry[j].phase, entry'[j].phase>> \in Edges
      BY <3>1 DEF Edges
    <3> QED BY <1>3, <2>1, <3>1, <3>2
  <2>4. ASSUME entry' = entry, NEW status, Finish(t, j, status),
               status \in Fate => status \in Answered(entry[j].phase)
        PROVE  Lifecycle(k)
    <3>1. /\ \A i \in Key : i # j => said'[i] = said[i]
          /\ said'[j] = said[j] \cup ({status} \cap Fate)
      BY <1>2, <2>4
    <3> QED BY <2>4, <3>1 DEF Lifecycle
  <2>5. CASE ReadFate(t, j, p)
    <3>1. KeyFate(j, p) \in Fate => KeyFate(j, p) \in Answered(entry[j].phase)
      BY DEF KeyFate, Fate, Answered
    <3> QED BY <2>4, <2>5, <3>1 DEF ReadFate
  <2>6. CASE AskRecovery(t, j, p)
    <3>1. RecoveryFate(j, p) \in Fate => RecoveryFate(j, p) \in Answered(entry[j].phase)
      BY DEF RecoveryFate, Fate, Answered
    <3>2. CASE entry[j].payload = p /\ entry[j].phase = "preparing"
      <4>1. RecoveryFate(j, p) \notin Fate
        BY <3>1, <3>2 DEF Answered
      <4>2. /\ entry'[j].phase = "recovery_requested"
            /\ entry'[j].payload = entry[j].payload
        BY <1>0, <2>6, <3>2 DEF AskRecovery, SetPhase, Entries
      <4>3. said'[j] = said[j]
        <5>1. said'[j] = said[j] \cup ({RecoveryFate(j, p)} \cap Fate)
          BY <1>2, <2>6 DEF AskRecovery
        <5>2. {RecoveryFate(j, p)} \cap Fate = {}
          BY <4>1
        <5> QED BY <5>1, <5>2
      <4>4. <<entry[j].phase, entry'[j].phase>> \in Edges
        BY <3>2, <4>2 DEF Edges
      <4> QED BY <1>3, <2>1, <4>2, <4>3, <4>4
    <3>3. CASE ~(entry[j].payload = p /\ entry[j].phase = "preparing")
      BY <2>4, <2>6, <3>1, <3>3 DEF AskRecovery
    <3> QED BY <3>2, <3>3
  <2> QED BY <1>9, <2>2, <2>3, <2>5, <2>6 DEF GatewayRequest
<1>10. CASE UNCHANGED gvars
  BY <1>1, <1>10 DEF gvars, gateway
<1> QED BY <1>4, <1>5, <1>6, <1>7, <1>8, <1>9, <1>10
           DEF GatewayNext, GatewayProceed

\* What may have been said of a key that is in this phase.
Sayable(p) ==
    {f \in Fate : \/ f = "NO_ATTEMPT" /\ p = "no_attempt"
                  \/ f = "INTERRUPTED" /\ p = "interrupted"
                  \/ f = "STARTED" /\ p \in {"started", "closing", "interrupted",
                                             "unresolved"}}

LEMMA StandsMeansSayable ==
    GatewayTypeOK => (AnswersStand <=> \A k \in Key : said[k] \subseteq Sayable(entry[k].phase))
<1> SUFFICES ASSUME GatewayTypeOK
             PROVE  AnswersStand <=> \A k \in Key : said[k] \subseteq Sayable(entry[k].phase)
  OBVIOUS
<1>1. \A k \in Key : said[k] \subseteq Fate
  BY DEF GatewayTypeOK
<1>2. ASSUME AnswersStand, NEW k \in Key
      PROVE  said[k] \subseteq Sayable(entry[k].phase)
  BY <1>1, <1>2 DEF AnswersStand, Sayable, Fate
<1>3. ASSUME \A k \in Key : said[k] \subseteq Sayable(entry[k].phase), NEW k \in Key
      PROVE  /\ "NO_ATTEMPT" \in said[k] => /\ said[k] = {"NO_ATTEMPT"}
                                            /\ entry[k].phase = "no_attempt"
             /\ "INTERRUPTED" \in said[k] => entry[k].phase = "interrupted"
             /\ "STARTED" \in said[k] =>
                    entry[k].phase \in {"started", "closing", "interrupted", "unresolved"}
  BY <1>1, <1>3 DEF Sayable, Fate
<1> QED BY <1>2, <1>3 DEF AnswersStand

(* Every step keeps what clients were told true.                            *)
LEMMA AnswersStep == GInv /\ [GatewayNext]_gvars => AnswersStand'
<1> SUFFICES ASSUME GInv, [GatewayNext]_gvars PROVE AnswersStand'
  OBVIOUS
<1>1. GatewayTypeOK' /\ GatewayTypeOK /\ AnswersStand
  BY GatewayTypeStep DEF GInv
<1>2. ASSUME NEW k \in Key
      PROVE  said'[k] \subseteq Sayable(entry'[k].phase)
  <2>1. Lifecycle(k) /\ said[k] \subseteq Sayable(entry[k].phase)
    BY <1>1, LifecycleStep, StandsMeansSayable
  <2>2. Sayable(entry[k].phase) \subseteq Sayable(entry'[k].phase)
    BY <2>1 DEF Lifecycle, Edges, Sayable
  <2>3. Answered(entry'[k].phase) \subseteq Sayable(entry'[k].phase)
    BY DEF Answered, Sayable
  <2> QED BY <2>1, <2>2, <2>3 DEF Lifecycle
<1>3. (\A k \in Key : said[k] \subseteq Sayable(entry[k].phase))'
  BY <1>2
<1> QED BY <1>1, <1>3, StandsMeansSayable, PTL

-----------------------------------------------------------------------------
LEMMA GatewayInitInv == GatewayInit => GInv
<1> SUFFICES ASSUME GatewayInit PROVE GInv
  OBVIOUS
<1>1. IInv
  BY InitInv DEF GatewayInit
<1>2. GatewayTypeOK
  BY DEF GatewayInit, GatewayTypeOK, NoEntry, NoJob, Entries, KeyPhase, Step
<1>3. \A k \in Key : Mine(k) = {}
  BY GatewayAssumption DEF GatewayInit, Mine
<1>4. KeyInv /\ JobInv /\ CancelInv
  BY <1>3 DEF GatewayInit, KeyInv, JobInv, CancelInv, NoEntry
<1>5. OneWorkerPerKey
  BY DEF GatewayInit, OneWorkerPerKey, Cancelling, Owning, NoEntry
<1>6. EntriesAreTrue /\ AnswersStand
  BY <1>3 DEF GatewayInit, EntriesAreTrue, AnswersStand, NoEntry, Mine
<1> QED BY <1>1, <1>2, <1>4, <1>5, <1>6 DEF GInv

LEMMA GatewayStep == GInv /\ [GatewayNext]_gvars => GInv'
<1> SUFFICES ASSUME GInv, [GatewayNext]_gvars PROVE GInv'
  OBVIOUS
<1>1. IInv' /\ GatewayTypeOK' /\ JobInv' /\ WorkInv'
  BY IInvStep, GatewayTypeStep, JobStep, WorkStep DEF GInv
<1>2. OneWorkerPerKey'
  BY <1>1, Workers, PTL
<1> QED BY <1>1, <1>2, KeyStep, CancelStep, TruthStep, AnswersStep DEF GInv

(* The gateway's inductive invariant: the service's, and what entries,      *)
(* threads and answers know of the attempts behind the keys.                *)
THEOREM GatewayInvariance == GatewaySpec => []GInv
  BY GatewayInitInv, GatewayStep, PTL DEF GatewaySpec

(* One browser-generated key creates at most one attempt and is worked on   *)
(* by at most one thread, for any number of keys, attempts and threads      *)
(* (reserve, claim_publication and request_recovery under the entry lock).  *)
THEOREM OneAttempt == GatewaySpec => []OneAttemptPerKey
<1>1. GInv => OneAttemptPerKey
  <2> SUFFICES ASSUME GInv, NEW a \in Attempt, NEW b \in Attempt,
                      keyOf[a] # None, keyOf[a] = keyOf[b]
               PROVE  a = b
    BY DEF OneAttemptPerKey, GInv
  <2>1. keyOf[a] \in Key /\ a \in Mine(keyOf[a]) /\ b \in Mine(keyOf[a])
    BY DEF GInv, GatewayTypeOK, Mine
  <2> QED BY <2>1 DEF GInv, KeyInv
<1> QED BY <1>1, GatewayInvariance, PTL

(* A key's fate agrees with the attempt it created and with every answer    *)
(* ever given about it (publish_interrupted, seal_no_attempt,               *)
(* mark_unresolved and the statuses of begin and recover).                  *)
THEOREM KeyFatesAreTrue == GatewaySpec => []FateIsTrue
<1>1. GInv => FateIsTrue
  BY DEF GInv, FateIsTrue
<1> QED BY <1>1, GatewayInvariance, PTL

(* A sealed key keeps its fate, a key whose recovery was asked for never    *)
(* publishes STARTED, and no key changes its payload, at any step.          *)
THEOREM SealedKeysStay == GatewaySpec => RecoveryIsFinal
<1>1. ASSUME GInv, [GatewayNext]_gvars, NEW k \in Key
      PROVE  /\ entry[k].phase \in SealedKey => UNCHANGED entry[k]
             /\ entry[k].phase \in {"recovery_requested", "closing", "unresolved"} =>
                    /\ entry'[k].phase \notin {"preparing", "started"}
                    /\ "STARTED" \notin said'[k] \ said[k]
             /\ entry[k].phase # "unknown" => UNCHANGED entry[k].payload
  <2>1. Lifecycle(k)
    BY <1>1, LifecycleStep
  <2>2. "STARTED" \in Answered(entry'[k].phase) => entry'[k].phase = "started"
    BY DEF Answered
  <2>3. entry[k].phase \in SealedKey => UNCHANGED entry[k]
    BY <2>1 DEF Lifecycle, Edges, SealedKey
  <2>4. entry[k].phase \in {"recovery_requested", "closing", "unresolved"} =>
            entry'[k].phase \notin {"preparing", "started"}
    BY <2>1 DEF Lifecycle, Edges
  <2>5. entry'[k].phase # "started" => "STARTED" \notin said'[k] \ said[k]
    BY <2>1, <2>2 DEF Lifecycle
  <2>6. entry[k].phase # "unknown" => UNCHANGED entry[k].payload
    BY <2>1 DEF Lifecycle
  <2> QED BY <2>3, <2>4, <2>5, <2>6
<1>2. GInv /\ [GatewayNext]_gvars =>
          [\A k \in Key :
              /\ entry[k].phase \in SealedKey => UNCHANGED entry[k]
              /\ entry[k].phase \in {"recovery_requested", "closing", "unresolved"} =>
                     /\ entry'[k].phase \notin {"preparing", "started"}
                     /\ "STARTED" \notin said'[k] \ said[k]
              /\ entry[k].phase # "unknown" => UNCHANGED entry[k].payload]_gvars
  BY <1>1
<1> QED BY <1>2, GatewayInvariance, PTL DEF GatewaySpec, RecoveryIsFinal

=============================================================================
