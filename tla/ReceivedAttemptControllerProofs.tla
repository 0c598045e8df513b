------------------- MODULE ReceivedAttemptControllerProofs -------------------
(***************************************************************************)
(* Proofs about ReceivedAttemptController, for any number of start keys,    *)
(* messages, places in the queue and failures.                              *)
(***************************************************************************)
EXTENDS ReceivedAttemptController, FiniteSetTheorems, TLAPS

Requests == [kind : Kind, key : Key, seq : Nat, quiet : BOOLEAN, live : BOOLEAN,
             at : {"way", "server", "back"},
             answer : [status : Status, count : Nat] \cup {None}]

Page == [state : AttemptState, listening : BOOLEAN, beginDoc : Key \cup {None},
         queue : Seq(Nat), pumping : BOOLEAN, nextSequence : Nat, acked : Nat,
         terminal : BOOLEAN, unconfirmedKind : {"begin", "finish", "cancel", None},
         pendingBegin : Key \cup {None}, resolving : BOOLEAN,
         feedback : [status : Status, key : Key, count : Nat] \cup {None},
         keys : Nat, lesson : BOOLEAN, hidden : BOOLEAN, nested : BOOLEAN,
         failed : BOOLEAN, sends : SUBSET Requests, overtook : BOOLEAN]

Typed == /\ page \in Page /\ page.sends = {} /\ page.overtook = FALSE
         /\ Len(page.queue) <= QueueLimit
         /\ page.acked + Len(page.queue) <= page.nextSequence
         /\ WireTypeOK

-----------------------------------------------------------------------------
\* The inductive invariant.

CaptureKind == {"append", "finish", "cancel"}
Early == {"unknown", "preparing", "recovery_requested"}
Openable == {"unknown", "preparing", "capturing"}
Closed == {"evaluated", "interrupted", "recovered", "forgotten", "no_attempt"}
Begun(k) == srv[k].phase \notin Early

\* The server: a document is stored once, when the attempt ends, and says how
\* many messages the attempt holds.
KeyOK(k) ==
    /\ srv[k].phase = "unknown" \/ k <= page.keys
    /\ verdict[k] # None => srv[k].phase \in Closed
    /\ srv[k].phase = "evaluated" => verdict[k] = Answer("EVALUATED", srv[k].count)
    /\ srv[k].phase \in {"interrupted", "recovered"} =>
          verdict[k] = Answer("INTERRUPTED", srv[k].count)
    /\ srv[k].phase \in Early \cup {"no_attempt", "unresolved", "recovered", "forgotten"} =>
          srv[k].count = 0
ServerOK == \A k \in Key : KeyOK(k)

\* A request, where it is, and what the page must be like for it.
Shape(r) ==
    /\ r.key <= page.keys
    /\ r.quiet => ~r.live /\ r.at # "back"
    /\ r.live => ~page.hidden
    /\ (r.at # "back" \/ r.kind = "mount") <=> r.answer = None
    /\ r.kind = "mount" => r.at = "back"
    /\ r.kind = "begin" /\ r.at = "way" => srv[r.key].phase # "forgotten"
    /\ r.at = "server" =>
          r.kind = "begin" /\ srv[r.key].phase \in {"preparing", "recovery_requested"}
    /\ r.kind \in CaptureKind => /\ r.quiet \/ r.live
                                 /\ r.live => r.key = page.beginDoc
    /\ r.kind \in CaptureKind \cup {"mount"} => Begun(r.key)
    /\ r.kind \in {"finish", "cancel"} /\ r.key = page.beginDoc => page.terminal
    /\ r.kind = "resolve" /\ ~r.quiet => page.resolving
    /\ r.kind = "resolve" /\ r.live => page.unconfirmedKind = "begin"
ShapesOK == \A r \in wire : Shape(r)

\* An answer on its way back is true, and stays so.
Told(r) ==
    LET s == r.answer.status
        k == r.key
    IN (r.at = "back" /\ r.kind # "mount") =>
       /\ s = "STARTED" => r.kind = "begin" /\ Begun(k)
       /\ s = "EVALUATED" => r.kind = "finish" /\ verdict[k] = r.answer
       /\ s = "INTERRUPTED" => r.kind \notin {"finish", "append"} /\ verdict[k] = r.answer
       /\ s = "ACK" => /\ r.kind = "append"
                       /\ srv[k].phase = "capturing" => srv[k].count = r.answer.count
                       /\ verdict[k] # None => verdict[k].count >= r.answer.count
       /\ s \in {"refused", "NO_ATTEMPT"} => srv[k].phase \notin Openable
       /\ r.kind \in {"finish", "cancel"} => srv[k].phase \notin Openable \/ k \in lost
AnswersOK == \A r \in wire : Told(r)

\* A start that waits for its answer, or for the runtime to be mounted.
Opens(r) == r.kind \in {"begin", "mount"} /\ ~r.quiet
Clean(k) == /\ \A q \in wire : q.key = k => q.kind \in {"begin", "mount"}
            /\ srv[k].phase # "recovery_requested" /\ verdict[k] = None
            /\ srv[k].count = 0
Starting(r) ==
    Opens(r) =>
       /\ r.key # page.beginDoc
       /\ \A q \in wire : q.key = r.key => q.kind \notin CaptureKind
       /\ r.kind = "mount" =>
             /\ page.pendingBegin # r.key
             /\ \A q \in wire : q.key = r.key => q.kind # "resolve"
       /\ r.live =>
             /\ page.state = "STARTING" /\ r.key = page.keys
             /\ page.pendingBegin \in {None, r.key}
             /\ r.kind = "mount" => page.pendingBegin = None
             /\ r.kind = "mount" \/ page.pendingBegin = r.key => Clean(r.key)
StartsOK == \A r \in wire : Starting(r)

\* A key whose begin is pending or being recovered is no attempt of the page's.
Sought(k) == page.pendingBegin = k \/ \E r \in wire : r.kind = "resolve" /\ r.key = k
Recovering(k) ==
    Sought(k) => /\ k # page.beginDoc /\ srv[k].count = 0
                 /\ \A q \in wire : q.key = k => q.kind \in {"begin", "resolve"}
RecoveriesOK == \A k \in Key : Recovering(k)

\* What there is one of.
Single(r, q) ==
    /\ r.key = q.key =>
          /\ Opens(r) /\ Opens(q) => r = q
          /\ r.kind = "begin" /\ q.kind = "begin" /\ r.at # "back" /\ q.at # "back" => r = q
          /\ r.kind = "append" /\ q.kind = "append" /\ r.at = "way" =>
                /\ q.at = "way" => r = q
                /\ q.at = "back" => q.answer.status = "lost"
          /\ r.kind = "append" /\ q.kind = "append" /\ r.live /\ q.live => r = q
    /\ r.kind = "resolve" /\ q.kind = "resolve" /\ ~r.quiet /\ ~q.quiet => r = q
SinglesOK == \A r, q \in wire : Single(r, q)

\* The page by itself.
PageOK ==
    /\ page.pendingBegin # None => page.beginDoc = None /\ page.pendingBegin <= page.keys
    /\ page.beginDoc # None => Begun(page.beginDoc) /\ page.beginDoc <= page.keys
    /\ page.unconfirmedKind = "begin" => page.state = "UNCONFIRMED" /\ page.beginDoc = None
    /\ page.unconfirmedKind = "finish" => page.terminal
    /\ page.state = "STARTING" =>
          /\ page.beginDoc = None /\ page.unconfirmedKind = None
          /\ ~page.terminal /\ ~page.nested /\ ~page.failed /\ ~page.pumping
          /\ page.queue = << >> /\ page.nextSequence = 0 /\ page.acked = 0
    /\ page.state = "CAPTURING" => ~page.terminal /\ ~page.nested /\ ~page.failed
    /\ page.state \in {"CAPTURING", "FINISHING", "CANCELLING"} => page.beginDoc # None
    /\ page.state = "CANCELLING" => page.terminal

\* The pump: one append at a time, each with the next number.
FinishMode == page.state \in {"CAPTURING", "FINISHING"} \/ page.unconfirmedKind = "finish"
LiveAppend(r) == r.kind = "append" /\ r.live
LiveFinish(r) == r.kind = "finish" /\ r.live
Ending(r) == r.kind \in {"finish", "cancel"} /\ r.live
Queued == \A i \in 1 .. Len(page.queue) : page.queue[i] = page.acked + i - 1
Pumped(r) ==
    LiveAppend(r) =>
        /\ page.pumping /\ r.seq = page.acked
        /\ page.queue = << >> => /\ ~FinishMode /\ page.terminal
                                 /\ \A q \in wire : ~LiveFinish(q)
Next1(r) == (r.kind = "append" /\ r.at = "way" /\ srv[r.key].phase = "capturing") =>
                r.seq = srv[r.key].count
PumpOK ==
    /\ Queued
    /\ \A r \in wire : Pumped(r) /\ Next1(r)
    /\ page.state = "CAPTURING" /\ ~page.pumping => page.queue = << >>

\* What was acknowledged is there.
Counted(k) ==
    k = page.beginDoc =>
        /\ srv[k].phase = "capturing" => srv[k].count >= page.acked
        /\ verdict[k] # None => verdict[k].count >= page.acked
CountsOK == \A k \in Key : Counted(k)

\* A finish that was not sent in the middle of another handler comes after
\* every append.
Honest == ~page.nested /\ (FinishMode \/ page.state = "EVALUATED")
Complete(k) ==
    k = page.beginDoc =>
        /\ ~page.pumping =>
              /\ \A r \in wire : ~(r.kind = "append" /\ r.at = "way" /\ r.key = k)
              /\ srv[k].phase = "capturing" => srv[k].count = page.acked
        /\ verdict[k] # None => page.terminal /\ verdict[k].count = page.acked
HonestOK ==
    /\ Honest =>
          /\ ~page.failed /\ page.nextSequence = page.acked + Len(page.queue)
          /\ page.beginDoc # None
          /\ page.terminal => page.queue = << >> /\ ~page.pumping
          /\ page.state = "EVALUATED" => page.terminal
          /\ \A k \in Key : Complete(k)
    /\ ~page.nested => \A r, q \in wire : Ending(r) /\ Ending(q) =>
          r = q /\ page.state = (IF r.kind = "finish" THEN "FINISHING" ELSE "CANCELLING")

ShownOK ==
    /\ OutcomeShownIsTrue /\ EvaluatedIsComplete
    /\ page.state \in {"EVALUATED", "INTERRUPTED"} =>
          page.feedback \in [status : Status, key : Key, count : Nat]
    /\ page.state = "EVALUATED" => page.beginDoc = page.feedback.key

\* Who answers for a key that is open, or will be.
Held(k) ==
    \/ page.beginDoc = k /\ page.state \in Active
    \/ page.pendingBegin = k
    \/ \E r \in wire : /\ r.key = k
                       /\ \/ r.kind = "mount"
                          \/ r.kind \in {"resolve", "finish", "cancel"} /\ r.at = "way"
Opening(k) ==
    \/ srv[k].phase \in {"preparing", "capturing"}
    \/ srv[k].phase = "unknown" /\ \E r \in wire : r.kind = "begin" /\ r.key = k /\ r.at = "way"
HeldOK == \A k \in Key : (k \notin lost /\ Opening(k)) => Held(k)

PageInv == /\ Typed /\ ServerOK /\ ShapesOK /\ AnswersOK /\ StartsOK /\ RecoveriesOK
           /\ SinglesOK /\ PageOK /\ PumpOK /\ CountsOK /\ HonestOK /\ ShownOK /\ HeldOK

-----------------------------------------------------------------------------

LEMMA KeysAreNumbers == Key \subseteq Nat \ {0}
<1>1. Cardinality(Key) \in Nat
  BY PageConstants, FS_CardinalityType
<1> QED BY <1>1, PageConstants

LEMMA InitHolds == Init => PageInv
<1> SUFFICES ASSUME Init PROVE PageInv
  OBVIOUS
<1> USE DEF Init, WireInit, NewPage
<1>1. Typed
  <2>1. page \in Page /\ Len(page.queue) = 0
    BY DEF Page, AttemptState
  <2>2. WireTypeOK
    BY WireConstants DEF WireTypeOK, Phase
  <2> QED BY <2>1, <2>2, PageConstants DEF Typed
<1>2. ServerOK /\ ShapesOK /\ AnswersOK /\ StartsOK /\ SinglesOK
  BY DEF ServerOK, KeyOK, Closed, ShapesOK, AnswersOK, StartsOK, SinglesOK
<1>3. RecoveriesOK
  BY WireConstants DEF RecoveriesOK, Recovering, Sought
<1>4. PageOK
  BY WireConstants DEF PageOK, Kind
<1>5. PumpOK /\ CountsOK
  BY WireConstants DEF PumpOK, CountsOK, Counted, Queued
<1>6. HonestOK
  BY WireConstants DEF HonestOK, Honest, FinishMode, Kind
<1>7. ShownOK
  BY DEF ShownOK, OutcomeShownIsTrue, EvaluatedIsComplete
<1>8. HeldOK
  BY DEF HeldOK, Opening
<1> QED BY <1>1, <1>2, <1>3, <1>4, <1>5, <1>6, <1>7, <1>8 DEF PageInv

-----------------------------------------------------------------------------
\* What the handlers make of a page.

LEMMA FinishIdle ==
    ASSUME NEW p \in Page, p.state = "CAPTURING", p.terminal = FALSE, p.pumping = FALSE,
           p.queue = << >>
    PROVE  Finish(p) =
             [p EXCEPT !.listening = FALSE, !.state = "FINISHING", !.terminal = TRUE,
                       !.sends = @ \cup {Request("finish", p.beginDoc, 0, FALSE)}]
<1> DEFINE q == [p EXCEPT !.listening = FALSE, !.state = "FINISHING"]
<1>1. q \in Page /\ q.queue = << >> /\ q.pumping = FALSE /\ q.state = "FINISHING"
      /\ q.terminal = FALSE /\ q.beginDoc = p.beginDoc
      /\ [q EXCEPT !.pumping = FALSE] = q
  BY DEF Page, AttemptState
<1>2. Finish(p) = RunPump(q)
  BY <1>1 DEF Finish, StopIntake, Pump
<1>3. RunPump(q) = SubmitFinish(q)
  BY <1>1 DEF RunPump
<1> QED BY ZenonT(60), <1>2, <1>3, <1>1 DEF SubmitFinish, Ask, Page

LEMMA FinishWaits ==
    ASSUME NEW p \in Page, p.state = "CAPTURING", p.terminal = FALSE, p.pumping = TRUE
    PROVE  Finish(p) = [p EXCEPT !.listening = FALSE, !.state = "FINISHING"]
  BY DEF Finish, StopIntake, Pump, Page

LEMMA CancelSends ==
    ASSUME NEW p \in Page, p.terminal = FALSE
    PROVE  PerformCancel(p, FALSE) =
             [p EXCEPT !.listening = FALSE, !.queue = << >>, !.state = "CANCELLING",
                       !.terminal = TRUE,
                       !.sends = @ \cup {Request("cancel", p.beginDoc, 0, FALSE)}]
  BY DEF PerformCancel, Playback, StopIntake, Ask, Page

LEMMA CancelEnded ==
    ASSUME NEW p \in Page, p.state = "CAPTURING", p.terminal = FALSE, p.pumping = FALSE,
           p.queue = << >>
    PROVE  PerformCancel(p, TRUE) =
             [p EXCEPT !.listening = FALSE, !.queue = << >>, !.state = "CANCELLING",
                       !.terminal = TRUE, !.nested = TRUE,
                       !.sends = @ \cup {Request("finish", p.beginDoc, 0, FALSE)}
                                   \cup {Request("cancel", p.beginDoc, 0, FALSE)}]
<1> DEFINE q == [p EXCEPT !.listening = FALSE]
<1>1. q \in Page /\ q.state = "CAPTURING" /\ q.terminal = FALSE /\ q.pumping = FALSE
      /\ q.queue = << >> /\ q.beginDoc = p.beginDoc
  BY DEF Page
<1>2. Finish(q) = [q EXCEPT !.listening = FALSE, !.state = "FINISHING", !.terminal = TRUE,
                       !.sends = @ \cup {Request("finish", p.beginDoc, 0, FALSE)}]
  BY <1>1, FinishIdle
<1>3. Playback(q, TRUE) = [[q EXCEPT !.listening = FALSE, !.state = "FINISHING", !.terminal = TRUE,
                       !.sends = @ \cup {Request("finish", p.beginDoc, 0, FALSE)}] EXCEPT !.nested = TRUE]
  BY <1>1, <1>2 DEF Playback, Page
<1>4. PerformCancel(p, TRUE) = [Ask(Playback(q, TRUE), "cancel", Playback(q, TRUE).beginDoc, 0) EXCEPT
                 !.queue = << >>, !.state = "CANCELLING", !.terminal = TRUE]
  BY DEF PerformCancel, StopIntake, Page
<1>5. PerformCancel(p, TRUE) =
        [p EXCEPT !.listening = FALSE, !.queue = << >>, !.state = "CANCELLING",
                  !.terminal = TRUE, !.nested = TRUE,
                  !.sends = (@ \cup {Request("finish", p.beginDoc, 0, FALSE)})
                              \cup {Request("cancel", p.beginDoc, 0, FALSE)}]
  BY ZenonT(60), <1>4, <1>3, <1>1 DEF Ask, Page
<1> QED BY <1>5

LEMMA CancelEndedWaits ==
    ASSUME NEW p \in Page, p.state = "CAPTURING", p.terminal = FALSE, p.pumping = TRUE
    PROVE  PerformCancel(p, TRUE) =
             [p EXCEPT !.listening = FALSE, !.queue = << >>, !.state = "CANCELLING",
                       !.terminal = TRUE, !.nested = FALSE,
                       !.sends = @ \cup {Request("cancel", p.beginDoc, 0, FALSE)}]
<1> DEFINE q == [p EXCEPT !.listening = FALSE]
<1>1. q \in Page /\ q.state = "CAPTURING" /\ q.terminal = FALSE /\ q.pumping = TRUE
      /\ q.beginDoc = p.beginDoc
  BY DEF Page
<1>2. Finish(q) = [q EXCEPT !.listening = FALSE, !.state = "FINISHING"]
  BY <1>1, FinishWaits
<1>3. Playback(q, TRUE) = [[q EXCEPT !.listening = FALSE, !.state = "FINISHING"] EXCEPT !.nested = FALSE]
  BY <1>1, <1>2 DEF Playback, Page
<1>4. PerformCancel(p, TRUE) = [Ask(Playback(q, TRUE), "cancel", Playback(q, TRUE).beginDoc, 0) EXCEPT
                 !.queue = << >>, !.state = "CANCELLING", !.terminal = TRUE]
  BY DEF PerformCancel, StopIntake, Page
<1> QED BY ZenonT(60), <1>4, <1>3, <1>1 DEF Ask, Page

-----------------------------------------------------------------------------
\* A step of a page that has an attempt, without a new generation: requests
\* about the attempt go out, answers to such requests are taken.
Asks(S) ==
    \A r \in S : /\ r \in Requests /\ r.kind \in CaptureKind /\ r.key = page.beginDoc
                 /\ r.at = "way" /\ r.live /\ ~r.quiet /\ r.answer = None
                 /\ r.kind # "append" => page'.terminal
Working(S, gone) ==
    /\ wire' = S \cup (wire \ gone) /\ UNCHANGED <<srv, verdict, lost, faults>>
    /\ Asks(S)
    /\ S # {} => ~page.hidden
    /\ \A r \in gone : r.kind \in CaptureKind /\ r.at = "back"
    /\ page.beginDoc \in Key /\ page'.beginDoc = page.beginDoc
    /\ page'.pendingBegin = page.pendingBegin /\ page'.hidden = page.hidden
    /\ page'.keys = page.keys /\ page'.resolving = page.resolving
    /\ page.terminal => page'.terminal
    /\ page'.unconfirmedKind # "begin"

LEMMA WorkingKeeps ==
    ASSUME PageInv, NEW S, NEW gone, Working(S, gone),
           page'.state \in Active \/ page.state \notin Active
             \/ srv[page.beginDoc].phase \notin {"preparing", "capturing"} \/ page.beginDoc \in lost
    PROVE  /\ ServerOK' /\ ShapesOK' /\ AnswersOK' /\ StartsOK' /\ RecoveriesOK' /\ HeldOK'
           /\ WireTypeOK' /\ page.pendingBegin = None /\ page.state # "STARTING"
           /\ page.unconfirmedKind # "begin" /\ Begun(page.beginDoc)
<1> DEFINE k == page.beginDoc
<1>1. /\ page.pendingBegin = None /\ page.state # "STARTING"
      /\ page.unconfirmedKind # "begin" /\ Begun(k) /\ k <= page.keys /\ k \in Key /\ k # None
  BY WireConstants DEF PageInv, PageOK, Working
<1>2. \A r \in wire' : r \in S \/ (r \in wire /\ r \notin gone)
  BY DEF Working
<1>3. \A r \in S : /\ r.kind \in CaptureKind /\ r.key = k /\ r.at = "way" /\ r.live /\ ~r.quiet
                   /\ r.answer = None /\ (r.kind # "append" => page'.terminal)
  BY DEF Working, Asks
<1>4. UNCHANGED <<srv, verdict, lost>> /\ page'.keys = page.keys /\ page'.hidden = page.hidden
      /\ page'.pendingBegin = page.pendingBegin /\ page'.beginDoc = k
      /\ page'.resolving = page.resolving /\ (page.terminal => page'.terminal)
      /\ (S # {} => ~page.hidden)
  BY DEF Working
<1>5. ServerOK'
  BY <1>4 DEF PageInv, ServerOK, KeyOK
<1>6. ShapesOK'
  <2> SUFFICES ASSUME NEW r \in wire' PROVE Shape(r)'
    BY DEF ShapesOK
  <2>1. CASE r \in S
    <3>1. /\ r.kind \in CaptureKind /\ r.key = k /\ r.at = "way" /\ r.live /\ ~r.quiet
          /\ r.answer = None /\ (r.kind # "append" => page'.terminal) /\ ~page.hidden
      BY <2>1, <1>3, <1>4
    <3> QED BY <3>1, <1>1, <1>4 DEF Shape, CaptureKind, Begun
  <2>2. CASE r \in wire
    <3>1. Shape(r)
      BY <2>2 DEF PageInv, ShapesOK
    <3>2. ~(r.kind = "resolve" /\ r.live)
      BY <3>1, <1>1 DEF Shape
    <3> QED BY <3>1, <3>2, <1>4 DEF Shape, Begun
  <2> QED BY <2>1, <2>2, <1>2
<1>7. AnswersOK'
  <2> SUFFICES ASSUME NEW r \in wire', r.at = "back" PROVE Told(r)'
    BY DEF AnswersOK, Told
  <2>1. r \in wire
    BY <1>2, <1>3
  <2> QED BY <2>1, <1>4 DEF PageInv, AnswersOK, Told, Begun
<1>8. StartsOK'
  <2> SUFFICES ASSUME NEW r \in wire', Opens(r) PROVE Starting(r)'
    BY DEF StartsOK, Starting
  <2>1. r \in wire
    BY <1>2, <1>3 DEF CaptureKind, Opens
  <2>2. Starting(r)
    BY <2>1 DEF PageInv, StartsOK
  <2>3. r.key # k /\ ~r.live
    BY <2>2, <1>1 DEF Starting
  <2>4. \A q \in wire' : q.key = r.key => q \in wire
    BY <2>3, <1>2, <1>3
  <2> QED BY <2>2, <2>3, <2>4, <1>4 DEF Starting
<1>9. RecoveriesOK'
  <2> SUFFICES ASSUME NEW j \in Key, Sought(j)' PROVE Recovering(j)'
    BY DEF RecoveriesOK, Recovering
  <2>1. Sought(j)
    BY <1>2, <1>3, <1>4 DEF Sought, CaptureKind
  <2>2. Recovering(j)
    BY DEF PageInv, RecoveriesOK
  <2>3. \A q \in wire' : q.key = j => q \in wire
    BY <2>1, <2>2, <1>2, <1>3 DEF Recovering
  <2> QED BY <2>1, <2>2, <2>3, <1>4 DEF Recovering
<1>10. HeldOK'
  <2> SUFFICES ASSUME NEW j \in Key, j \notin lost, Opening(j)' PROVE Held(j)'
    BY <1>4 DEF HeldOK
  <2>1. Opening(j)
    BY <1>2, <1>3, <1>4 DEF Opening, CaptureKind
  <2>2. Held(j)
    BY <2>1 DEF PageInv, HeldOK
  <2>3. \A r \in wire : r.kind = "mount" \/ r.at = "way" => r \in wire'
    BY DEF Working, CaptureKind
  <2>4. CASE page.beginDoc = j /\ page.state \in Active
    <3>1. srv[j].phase \in {"preparing", "capturing"}
      BY <2>1, <2>4, <1>1 DEF Opening, Begun, Early
    <3> QED BY <3>1, <2>4, <1>4 DEF Held
  <2>5. CASE page.pendingBegin = j
    BY <2>5, <1>4 DEF Held
  <2>6. CASE \E r \in wire : /\ r.key = j
                       /\ \/ r.kind = "mount"
                          \/ r.kind \in {"resolve", "finish", "cancel"} /\ r.at = "way"
    BY <2>6, <2>3 DEF Held
  <2> QED BY <2>2, <2>4, <2>5, <2>6 DEF Held
<1>11. WireTypeOK'
  <2>1. S \subseteq Requests /\ wire \subseteq Requests
    BY DEF Working, Asks, PageInv, Typed, WireTypeOK, Requests
  <2> QED BY <2>1 DEF Working, WireTypeOK, Requests, PageInv, Typed
<1> QED BY <1>1, <1>5, <1>6, <1>7, <1>8, <1>9, <1>10, <1>11

\* No append about the attempt is under way.
NoAppend(gone) == \A q \in wire \ gone : ~(q.kind = "append" /\ q.key = page.beginDoc)

AppendAlone(S, gone) ==
    /\ \A r, q \in S : r.kind = "append" /\ q.kind = "append" => r = q
    /\ \A r \in S : r.kind = "append" => NoAppend(gone)

LEMMA WorkingSingles ==
    ASSUME PageInv, NEW S, NEW gone, Working(S, gone),
           AppendAlone(S, gone)
    PROVE  SinglesOK'
<1> SUFFICES ASSUME NEW r \in wire', NEW q \in wire' PROVE Single(r, q)
  BY DEF SinglesOK, Single
<1>1. \A x \in wire' : x \in S \/ (x \in wire /\ x \notin gone)
  BY DEF Working
<1>2. \A x \in S : /\ x.kind \in CaptureKind /\ x.key = page.beginDoc /\ x.at = "way" /\ ~x.quiet
  BY DEF Working, Asks
<1>3. CASE r \in wire /\ q \in wire
  BY <1>3 DEF PageInv, SinglesOK
<1>4. CASE r \in S /\ q \in S
  BY <1>4, <1>2 DEF Single, CaptureKind, Opens, AppendAlone
<1>5. CASE r \in S /\ q \in wire \ gone
  BY <1>5, <1>2 DEF Single, CaptureKind, Opens, NoAppend, AppendAlone
<1>6. CASE q \in S /\ r \in wire \ gone
  BY <1>6, <1>2 DEF Single, CaptureKind, Opens, NoAppend, AppendAlone
<1> QED BY <1>1, <1>3, <1>4, <1>5, <1>6

\* While the page captures and the pump rests, everything taken is acknowledged.
LEMMA Resting ==
    ASSUME PageInv, page.state = "CAPTURING", page.pumping = FALSE
    PROVE  /\ page.queue = << >> /\ page.nextSequence = page.acked
           /\ page.beginDoc \in Key /\ page.terminal = FALSE /\ page.nested = FALSE
           /\ page.failed = FALSE /\ NoAppend({})
           /\ srv[page.beginDoc].phase = "capturing" => srv[page.beginDoc].count = page.acked
           /\ verdict[page.beginDoc] = None
           /\ \A q \in wire : ~Ending(q) /\ ~LiveAppend(q)
<1>1. /\ page.queue = << >> /\ page.beginDoc # None
      /\ ~page.terminal /\ ~page.nested /\ ~page.failed
  BY DEF PageInv, PageOK, PumpOK
<1>2. /\ page.beginDoc \in Key /\ page.terminal = FALSE /\ page.nested = FALSE
      /\ page.failed = FALSE /\ page.nextSequence \in Nat /\ page.acked \in Nat
  BY <1>1 DEF PageInv, Typed, Page
<1>3. Honest
  BY <1>1 DEF Honest, FinishMode
<1>4. page.nextSequence = page.acked /\ Complete(page.beginDoc)
  BY <1>1, <1>2, <1>3 DEF PageInv, HonestOK
<1>5. \A q \in wire : ~Ending(q) /\ ~LiveAppend(q)
  BY <1>1 DEF PageInv, PumpOK, Pumped, ShapesOK, Shape, Ending, CaptureKind
<1>6. NoAppend({})
  <2> SUFFICES ASSUME NEW q \in wire, q.kind = "append", q.key = page.beginDoc PROVE FALSE
    BY DEF NoAppend
  <2>1. q.at # "way"
    BY <1>4 DEF Complete
  <2>2. ~q.live
    BY <1>5 DEF LiveAppend
  <2>3. Shape(q) /\ q \in Requests
    BY DEF PageInv, ShapesOK, Typed, WireTypeOK, Requests
  <2> QED BY <2>1, <2>2, <2>3 DEF Shape, CaptureKind, Requests
<1> QED BY <1>1, <1>2, <1>4, <1>5, <1>6 DEF Complete

LEMMA MessageSent ==
    ASSUME PageInv, page.state = "CAPTURING", page.pumping = FALSE, ~page.hidden, NEW r,
           r = Request("append", page.beginDoc, page.nextSequence, FALSE),
           page' = [page EXCEPT !.nextSequence = @ + 1, !.queue = <<page.nextSequence>>,
                                !.pumping = TRUE],
           wire' = {r} \cup wire, UNCHANGED <<srv, verdict, lost, faults>>
    PROVE  PageInv'
<1> DEFINE k == page.beginDoc
<1>1. /\ page.queue = << >> /\ page.nextSequence = page.acked
      /\ k \in Key /\ page.terminal = FALSE /\ page.nested = FALSE
      /\ page.failed = FALSE /\ NoAppend({})
      /\ srv[k].phase = "capturing" => srv[k].count = page.acked
      /\ verdict[k] = None
      /\ \A q \in wire : ~Ending(q) /\ ~LiveAppend(q)
  BY Resting
<1>2. /\ page \in Page /\ Typed
  BY DEF PageInv, Typed
<1>3. /\ r \in Requests /\ r.kind = "append" /\ r.key = k /\ r.at = "way" /\ r.live /\ ~r.quiet
      /\ r.answer = None /\ r.seq = page.acked
  BY <1>1, <1>2 DEF Request, Requests, Kind, Page
<1>4. Working({r}, {})
  BY <1>1, <1>2, <1>3 DEF Working, Asks, Page, CaptureKind, PageInv, PageOK
<1>5. /\ ServerOK' /\ ShapesOK' /\ AnswersOK' /\ StartsOK' /\ RecoveriesOK' /\ HeldOK'
      /\ WireTypeOK' /\ Begun(k) /\ page.unconfirmedKind # "begin"
  BY <1>2, <1>4, WorkingKeeps DEF Page, Active
<1>6. SinglesOK'
  <2>1. AppendAlone({r}, {})
    BY <1>1 DEF AppendAlone
  <2> QED BY <2>1, <1>4, WorkingSingles
<1>7. page' \in Page /\ Typed'
  <2>1. page.nextSequence \in Nat /\ <<page.nextSequence>> \in Seq(Nat)
        /\ Len(<<page.nextSequence>>) = 1 /\ page.nextSequence + 1 \in Nat
    BY <1>2 DEF Page
  <2>2. page' \in Page
    BY <1>2, <2>1 DEF Page
  <2>3. page'.sends = {} /\ page'.overtook = FALSE /\ page'.acked = page.acked
        /\ page'.nextSequence = page.acked + 1 /\ page'.queue = <<page.nextSequence>>
        /\ page.acked \in Nat
    BY <1>1, <1>2 DEF Page, Typed
  <2> QED BY <2>1, <2>2, <2>3, <1>5, PageConstants DEF Typed
<1>0. /\ page'.state = "CAPTURING" /\ page'.beginDoc = k /\ page'.pendingBegin = page.pendingBegin
      /\ page'.keys = page.keys /\ page'.unconfirmedKind = page.unconfirmedKind
      /\ page'.terminal = FALSE /\ page'.nested = FALSE /\ page'.failed = FALSE
      /\ page'.acked = page.acked /\ page'.queue = <<page.acked>> /\ page'.pumping = TRUE
      /\ page'.queue # << >>
      /\ page'.nextSequence = page.acked + 1 /\ page.acked \in Nat /\ page'.hidden = FALSE
  BY <1>1, <1>2 DEF Page
<1>8. PageOK'
  BY <1>0, <1>1, <1>4, <1>5, WireConstants DEF PageInv, PageOK, Begun, Working
<1>9. PumpOK'
  <2>1. \A q \in wire : ~LiveAppend(q) /\ Next1(q)
    BY <1>1 DEF PageInv, PumpOK
  <2>2. \A q \in wire : (Pumped(q) /\ Next1(q))'
    BY <2>1, <1>4 DEF Pumped, Next1, LiveAppend, Working
  <2>3. (Pumped(r) /\ Next1(r))'
    BY <1>0, <1>1, <1>3, <1>4 DEF Pumped, Next1, LiveAppend, Working
  <2>4. Queued'
    <3> SUFFICES ASSUME NEW i \in 1 .. Len(page'.queue)
                 PROVE  page'.queue[i] = page'.acked + i - 1
      BY DEF Queued
    <3>1. page'.queue = <<page.acked>> /\ page'.acked = page.acked /\ page.acked \in Nat
      BY <1>0
    <3>2. i = 1
      BY <3>1
    <3> QED BY <3>1, <3>2
  <2> QED BY <2>2, <2>3, <2>4, <1>0, <1>4 DEF PumpOK, Working
<1>10. CountsOK'
  BY <1>2 DEF PageInv, CountsOK, Counted, Page
<1>11. HonestOK'
  <2>1. \A j \in Key : Complete(j)'
    BY <1>0, <1>1, <1>4 DEF Complete, Working
  <2>2. \A q \in wire' : ~Ending(q)
    BY <1>1, <1>3 DEF Ending
  <2> QED BY <2>1, <2>2, <1>0, <1>1, WireConstants DEF HonestOK, Honest, FinishMode
<1>12. ShownOK'
  BY <1>2 DEF ShownOK, OutcomeShownIsTrue, EvaluatedIsComplete, Page
<1> QED BY <1>5, <1>6, <1>7, <1>8, <1>9, <1>10, <1>11, <1>12 DEF PageInv

\* The pump, where no append goes out and none is acknowledged.
PumpRests(S, gone) ==
    /\ \A r \in S : r.kind # "append"
    /\ page'.acked = page.acked /\ page'.queue \in {page.queue, << >>}
    /\ page'.pumping = page.pumping \/ \A q \in wire \ gone : ~LiveAppend(q)
    /\ page'.state = "CAPTURING" /\ ~page'.pumping => page'.queue = << >>
    /\ (\E q \in wire \ gone : LiveAppend(q)) =>
          \/ page'.queue # << >>
          \/ ~FinishMode' /\ page'.terminal /\ \A q \in wire' : ~LiveFinish(q)

LEMMA WorkingPump ==
    ASSUME PageInv, NEW S, NEW gone, Working(S, gone), PumpRests(S, gone)
    PROVE  PumpOK' /\ CountsOK' /\ SinglesOK'
<1>1. page'.acked = page.acked /\ (page'.queue = page.queue \/ page'.queue = << >>)
  BY DEF PumpRests
<1>2. Queued'
  BY <1>1 DEF Queued, PageInv, PumpOK
<1>3. ASSUME NEW r \in wire' PROVE (Pumped(r) /\ Next1(r))'
  <2>1. CASE r \in S
    BY <2>1 DEF Pumped, Next1, LiveAppend, PumpRests
  <2>2. CASE r \in wire \ gone
    <3>1. Pumped(r) /\ Next1(r)
      BY <2>2 DEF PageInv, PumpOK
    <3>2. Next1(r)'
      BY <3>1 DEF Next1, Working
    <3>3. Pumped(r)'
      BY <2>2, <3>1, <1>1 DEF PumpRests, Pumped
    <3> QED BY <3>2, <3>3
  <2> QED BY <2>1, <2>2 DEF Working
<1>4. PumpOK'
  BY <1>2, <1>3 DEF PumpOK, PumpRests
<1>5. CountsOK'
  BY <1>1 DEF PageInv, CountsOK, Counted, Working
<1>6. SinglesOK'
  BY WorkingSingles DEF AppendAlone, PumpRests
<1> QED BY <1>4, <1>5, <1>6

LEMMA WorkingPage ==
    ASSUME PageInv, NEW S, NEW gone, Working(S, gone), page'.state # "STARTING",
           page'.unconfirmedKind = "finish" \/ page'.state = "CANCELLING" => page'.terminal,
           page'.state = "CAPTURING" => ~page'.terminal /\ ~page'.nested /\ ~page'.failed
    PROVE  PageOK'
<1>1. page.beginDoc # None /\ page.pendingBegin = None
  BY WireConstants DEF PageInv, PageOK, Working
<1> QED BY <1>1 DEF PageInv, PageOK, Working, Begun

\* Where neither finish nor cancel has been sent, none is under way.
LEMMA NoEndYet ==
    ASSUME PageInv, page.terminal = FALSE
    PROVE  /\ \A q \in wire : ~Ending(q) /\ ~LiveFinish(q)
           /\ page.unconfirmedKind # "finish"
  BY DEF PageInv, ShapesOK, Shape, Ending, LiveFinish, PageOK, CaptureKind

LEMMA CancelSent ==
    ASSUME PageInv, page.state \in {"CAPTURING", "FINISHING"}, page.terminal = FALSE, ~page.hidden,
           NEW gone, \A q \in gone : q \in wire /\ q.kind = "append" /\ q.at = "back",
           NEW r, r = Request("cancel", page.beginDoc, 0, FALSE),
           NEW n \in BOOLEAN, NEW f \in BOOLEAN, NEW b \in BOOLEAN,
           b = page.pumping \/ \A q \in wire \ gone : ~LiveAppend(q),
           page' = [page EXCEPT !.listening = FALSE, !.queue = << >>, !.state = "CANCELLING",
                                !.terminal = TRUE, !.nested = n, !.failed = f, !.pumping = b],
           wire' = {r} \cup (wire \ gone), UNCHANGED <<srv, verdict, lost, faults>>
    PROVE  PageInv'
<1> DEFINE k == page.beginDoc
<1>2. page \in Page /\ Typed /\ k \in Key
  BY DEF PageInv, Typed, Page, PageOK
<1>3. /\ r \in Requests /\ r.kind = "cancel" /\ r.key = k /\ r.at = "way" /\ r.live /\ ~r.quiet
      /\ r.answer = None
  BY <1>2 DEF Request, Requests, Kind
<1>0. /\ page'.state = "CANCELLING" /\ page'.beginDoc = k /\ page'.pendingBegin = page.pendingBegin
      /\ page'.keys = page.keys /\ page'.unconfirmedKind = page.unconfirmedKind
      /\ page'.resolving = page.resolving /\ page'.hidden = page.hidden
      /\ page'.terminal = TRUE /\ page'.acked = page.acked /\ page'.queue = << >>
      /\ page'.pumping = b /\ page'.nextSequence = page.nextSequence
      /\ page'.sends = {} /\ page'.overtook = FALSE
  BY <1>2 DEF Page, Typed
<1>a. page' \in Page
  <2>1. << >> \in Seq(Nat) /\ "CANCELLING" \in AttemptState
    BY DEF AttemptState
  <2> QED BY ZenonT(100), <2>1, <1>2 DEF Page
<1>1. \A q \in wire' : ~LiveFinish(q)
  BY <1>3, NoEndYet DEF LiveFinish
<1>4. Working({r}, gone)
  <2>1. page.unconfirmedKind # "begin"
    BY DEF PageInv, PageOK
  <2> QED BY <2>1, <1>0, <1>2, <1>3 DEF Working, Asks, CaptureKind
<1>5. /\ ServerOK' /\ ShapesOK' /\ AnswersOK' /\ StartsOK' /\ RecoveriesOK' /\ HeldOK'
      /\ WireTypeOK'
  BY <1>0, <1>4, WorkingKeeps DEF Active
<1>6. ~FinishMode' /\ page'.unconfirmedKind # "finish"
  BY <1>0, NoEndYet DEF FinishMode
<1>7. PumpOK' /\ CountsOK' /\ SinglesOK'
  <2>1. PumpRests({r}, gone)
    BY <1>0, <1>1, <1>3, <1>6 DEF PumpRests
  <2> QED BY <2>1, <1>4, WorkingPump
<1>8. Typed'
  BY <1>0, <1>a, <1>2, <1>5, PageConstants DEF Typed, Page
<1>9. PageOK'
  BY <1>0, <1>4, WorkingPage
<1>10. HonestOK' /\ ShownOK'
  <2>1. \A x \in wire' : Ending(x) => x = r
    BY NoEndYet
  <2> QED BY <2>1, <1>0, <1>3, <1>6
          DEF HonestOK, Honest, ShownOK, OutcomeShownIsTrue, EvaluatedIsComplete
<1> QED BY <1>5, <1>7, <1>8, <1>9, <1>10 DEF PageInv

LEMMA CancelNested ==
    ASSUME PageInv, page.state = "CAPTURING", ~page.hidden,
           NEW gone, \A q \in gone : q \in wire /\ q.kind = "append" /\ q.at = "back",
           \A q \in wire \ gone : ~LiveAppend(q),
           NEW r, r = Request("finish", page.beginDoc, 0, FALSE),
           NEW c, c = Request("cancel", page.beginDoc, 0, FALSE),
           NEW f \in BOOLEAN,
           page' = [page EXCEPT !.listening = FALSE, !.queue = << >>, !.state = "CANCELLING",
                                !.terminal = TRUE, !.nested = TRUE, !.failed = f,
                                !.pumping = FALSE],
           wire' = {r, c} \cup (wire \ gone), UNCHANGED <<srv, verdict, lost, faults>>
    PROVE  PageInv'
<1> DEFINE k == page.beginDoc
<1>2. page \in Page /\ Typed /\ k \in Key
  BY DEF PageInv, Typed, Page, PageOK
<1>3. /\ \A x \in {r, c} : /\ x \in Requests /\ x.kind \in {"finish", "cancel"} /\ x.key = k
                           /\ x.at = "way" /\ x.live /\ ~x.quiet /\ x.answer = None
  <2>1. /\ r \in Requests /\ r.kind = "finish" /\ r.key = k
        /\ r.at = "way" /\ r.live /\ ~r.quiet /\ r.answer = None
    BY <1>2 DEF Request, Requests, Kind
  <2>2. /\ c \in Requests /\ c.kind = "cancel" /\ c.key = k
        /\ c.at = "way" /\ c.live /\ ~c.quiet /\ c.answer = None
    BY <1>2 DEF Request, Requests, Kind
  <2> QED BY <2>1, <2>2
<1>0. /\ page'.state = "CANCELLING" /\ page'.beginDoc = k /\ page'.pendingBegin = page.pendingBegin
      /\ page'.keys = page.keys /\ page'.unconfirmedKind = page.unconfirmedKind
      /\ page'.resolving = page.resolving /\ page'.hidden = page.hidden
      /\ page'.terminal = TRUE /\ page'.nested = TRUE /\ page'.acked = page.acked
      /\ page'.queue = << >> /\ page'.pumping = FALSE /\ page'.nextSequence = page.nextSequence
      /\ page'.sends = {} /\ page'.overtook = FALSE
  BY <1>2 DEF Page, Typed
<1>1. page' \in Page
  <2>1. << >> \in Seq(Nat) /\ "CANCELLING" \in AttemptState
    BY DEF AttemptState
  <2> QED BY ZenonT(40), <2>1, <1>2 DEF Page
<1>4. Working({r, c}, gone)
  <2>1. page.unconfirmedKind # "begin"
    BY DEF PageInv, PageOK
  <2> QED BY <2>1, <1>0, <1>2, <1>3 DEF Working, Asks, CaptureKind
<1>5. /\ ServerOK' /\ ShapesOK' /\ AnswersOK' /\ StartsOK' /\ RecoveriesOK' /\ HeldOK'
      /\ WireTypeOK'
  BY <1>0, <1>4, WorkingKeeps DEF Active
<1>6. PumpOK' /\ CountsOK' /\ SinglesOK'
  <2>1. PumpRests({r, c}, gone)
    BY <1>0, <1>3 DEF PumpRests
  <2> QED BY <2>1, <1>4, WorkingPump
<1>7. Typed'
  BY <1>0, <1>1, <1>2, <1>5, PageConstants DEF Typed, Page
<1>8. PageOK'
  BY <1>0, <1>4, WorkingPage
<1>9. HonestOK' /\ ShownOK'
  BY <1>0 DEF HonestOK, Honest, ShownOK, OutcomeShownIsTrue, EvaluatedIsComplete
<1> QED BY <1>5, <1>6, <1>7, <1>8, <1>9 DEF PageInv

\* A finish from a page that has nothing left to append.
LEMMA FinishSent ==
    ASSUME PageInv, page.state = "CAPTURING", page.pumping = FALSE, ~page.hidden,
           NEW r, r = Request("finish", page.beginDoc, 0, FALSE),
           page' = [page EXCEPT !.listening = FALSE, !.state = "FINISHING", !.terminal = TRUE],
           wire' = {r} \cup wire, UNCHANGED <<srv, verdict, lost, faults>>
    PROVE  PageInv'
<1> DEFINE k == page.beginDoc
<1>1. /\ page.queue = << >> /\ page.nextSequence = page.acked
      /\ k \in Key /\ page.terminal = FALSE /\ page.nested = FALSE
      /\ page.failed = FALSE /\ NoAppend({})
      /\ srv[k].phase = "capturing" => srv[k].count = page.acked
      /\ verdict[k] = None
      /\ \A q \in wire : ~Ending(q) /\ ~LiveAppend(q)
  BY Resting
<1>2. page \in Page /\ Typed /\ k \in Key /\ page.acked \in Nat
  BY <1>1 DEF PageInv, Typed, Page
<1>3. /\ r \in Requests /\ r.kind = "finish" /\ r.key = k /\ r.at = "way" /\ r.live /\ ~r.quiet
      /\ r.answer = None
  BY <1>2 DEF Request, Requests, Kind
<1>0. /\ page'.state = "FINISHING" /\ page'.beginDoc = k /\ page'.pendingBegin = page.pendingBegin
      /\ page'.keys = page.keys /\ page'.unconfirmedKind = page.unconfirmedKind
      /\ page'.resolving = page.resolving /\ page'.hidden = page.hidden
      /\ page'.terminal = TRUE /\ page'.nested = FALSE /\ page'.failed = FALSE
      /\ page'.acked = page.acked /\ page'.queue = << >> /\ page'.pumping = FALSE
      /\ page'.nextSequence = page.acked /\ page'.sends = {} /\ page'.overtook = FALSE
  BY <1>1, <1>2 DEF Page, Typed
<1>4. page' \in Page
  BY <1>2 DEF Page, AttemptState
<1>5. Working({r}, {})
  <2>1. page.unconfirmedKind # "begin"
    BY DEF PageInv, PageOK
  <2> QED BY <2>1, <1>0, <1>2, <1>3 DEF Working, Asks, CaptureKind
<1>6. /\ ServerOK' /\ ShapesOK' /\ AnswersOK' /\ StartsOK' /\ RecoveriesOK' /\ HeldOK'
      /\ WireTypeOK'
  BY <1>0, <1>5, WorkingKeeps DEF Active
<1>7. PumpOK' /\ CountsOK' /\ SinglesOK'
  <2>1. PumpRests({r}, {})
    BY <1>0, <1>1, <1>3 DEF PumpRests
  <2> QED BY <2>1, <1>5, WorkingPump
<1>8. Typed'
  BY <1>0, <1>4, <1>2, <1>6, PageConstants DEF Typed, Page
<1>9. PageOK'
  BY <1>0, <1>5, WorkingPage
<1>10. HonestOK'
  <2>1. \A j \in Key : Complete(j)'
    <3> SUFFICES ASSUME NEW j \in Key, j = k PROVE Complete(j)'
      BY ZenonT(60), <1>0 DEF Complete
    <3>1. \A q \in wire' : ~(q.kind = "append" /\ q.at = "way" /\ q.key = j)
      BY <1>1, <1>3 DEF NoAppend
    <3> QED BY <3>1, <1>0, <1>1 DEF Complete
  <2>2. page'.nextSequence = page'.acked + Len(page'.queue)
    BY <1>0, <1>2
  <2>3. page'.beginDoc # None
    BY <1>0, <1>2, WireConstants
  <2>4. \A x \in wire' : Ending(x) => x = r
    BY <1>1
  <2> QED BY <2>1, <2>2, <2>3, <2>4, <1>0, <1>3 DEF HonestOK
<1>11. ShownOK'
  BY <1>0 DEF ShownOK, OutcomeShownIsTrue, EvaluatedIsComplete
<1> QED BY <1>6, <1>7, <1>8, <1>9, <1>10, <1>11 DEF PageInv

\* While the pump runs, the queue may grow and the finish may have to wait.
LEMMA StillPumping ==
    ASSUME PageInv, page.state = "CAPTURING", page.pumping = TRUE,
           NEW l \in BOOLEAN, NEW s \in {"CAPTURING", "FINISHING"},
           NEW q2 \in Seq(Nat), NEW n2 \in Nat,
           q2 # << >> \/ q2 = page.queue, Len(q2) <= QueueLimit, n2 = page.acked + Len(q2),
           \A i \in 1 .. Len(q2) : q2[i] = page.acked + i - 1,
           page' = [page EXCEPT !.listening = l, !.state = s, !.nested = FALSE,
                                !.queue = q2, !.nextSequence = n2],
           UNCHANGED wvars
    PROVE  PageInv'
<1> DEFINE k == page.beginDoc
<1>1. /\ page.terminal = FALSE /\ page.nested = FALSE /\ page.failed = FALSE
      /\ k \in Key /\ page \in Page /\ Typed /\ k # None
  BY WireConstants DEF PageInv, Typed, Page, PageOK
<1>0. /\ page'.state = s /\ page'.beginDoc = k /\ page'.pendingBegin = page.pendingBegin
      /\ page'.keys = page.keys /\ page'.unconfirmedKind = page.unconfirmedKind
      /\ page'.resolving = page.resolving /\ page'.hidden = page.hidden
      /\ page'.terminal = FALSE /\ page'.nested = FALSE /\ page'.failed = FALSE
      /\ page'.acked = page.acked /\ page'.queue = q2 /\ page'.pumping = TRUE
      /\ page'.nextSequence = n2 /\ page'.sends = {} /\ page'.overtook = FALSE
  BY <1>1 DEF Page, Typed
<1>2. page' \in Page
  <2>1. s \in AttemptState
    BY DEF AttemptState
  <2> QED BY ZenonT(40), <2>1, <1>1 DEF Page
<1>3. Working({}, {})
  <2>1. page.unconfirmedKind # "begin"
    BY DEF PageInv, PageOK
  <2> QED BY <2>1, <1>0, <1>1 DEF Working, Asks, wvars
<1>4. /\ ServerOK' /\ ShapesOK' /\ AnswersOK' /\ StartsOK' /\ RecoveriesOK' /\ HeldOK'
      /\ WireTypeOK'
  BY <1>0, <1>3, WorkingKeeps DEF Active
<1>5. SinglesOK'
  BY DEF wvars, PageInv, SinglesOK
<1>6. Typed'
  BY <1>0, <1>1, <1>2, <1>4 DEF Typed, Page
<1>7. PageOK'
  BY <1>0, <1>1, <1>3, NoEndYet, WorkingPage
<1>8. PumpOK'
  <2>1. Queued'
    BY <1>0 DEF Queued
  <2>2. ASSUME NEW r \in wire PROVE (Pumped(r) /\ Next1(r))'
    <3>1. Pumped(r) /\ Next1(r)
      BY DEF PageInv, PumpOK
    <3>2. LiveAppend(r) => page.queue # << >>
      BY <3>1 DEF Pumped, FinishMode
    <3> QED BY <3>1, <3>2, <1>0 DEF Pumped, Next1, wvars
  <2> QED BY <2>1, <2>2, <1>0 DEF PumpOK, wvars
<1>9. CountsOK'
  BY <1>0 DEF PageInv, CountsOK, Counted, wvars
<1>10. HonestOK'
  <2>1. Honest
    BY <1>1 DEF Honest, FinishMode
  <2>2. \A j \in Key : Complete(j)'
    BY <2>1, <1>0, <1>1 DEF PageInv, HonestOK, Complete, wvars
  <2>3. \A r \in wire' : ~Ending(r)
    BY <1>1, NoEndYet DEF wvars
  <2> QED BY <2>2, <2>3, <1>0, <1>1 DEF HonestOK
<1>11. ShownOK'
  BY <1>0 DEF ShownOK, OutcomeShownIsTrue, EvaluatedIsComplete
<1> QED BY <1>4, <1>5, <1>6, <1>7, <1>8, <1>9, <1>10, <1>11 DEF PageInv

\* The lesson ends while a message is taken: finish and append go out together.
LEMMA MessageNested ==
    ASSUME PageInv, page.state = "CAPTURING", page.pumping = FALSE, ~page.hidden,
           NEW r, r = Request("finish", page.beginDoc, 0, FALSE),
           NEW a, a = Request("append", page.beginDoc, page.nextSequence, FALSE),
           page' = [page EXCEPT !.listening = FALSE, !.state = "FINISHING", !.terminal = TRUE,
                                !.nested = TRUE, !.nextSequence = @ + 1,
                                !.queue = <<page.nextSequence>>, !.pumping = TRUE],
           wire' = {r, a} \cup wire, UNCHANGED <<srv, verdict, lost, faults>>
    PROVE  PageInv'
<1> DEFINE k == page.beginDoc
<1>1. /\ page.queue = << >> /\ page.nextSequence = page.acked
      /\ k \in Key /\ page.terminal = FALSE
      /\ NoAppend({})
      /\ srv[k].phase = "capturing" => srv[k].count = page.acked
      /\ \A q \in wire : ~LiveAppend(q)
  BY Resting
<1>2. page \in Page /\ Typed /\ k \in Key /\ page.acked \in Nat
  BY <1>1 DEF PageInv, Typed, Page
<1>3. /\ a \in Requests /\ a.kind = "append" /\ a.key = k
      /\ a.at = "way" /\ a.live /\ ~a.quiet /\ a.answer = None /\ a.seq = page.acked
  BY <1>1, <1>2 DEF Request, Requests, Kind, Page
<1>4. /\ r \in Requests /\ r.kind = "finish" /\ r.key = k
      /\ r.at = "way" /\ r.live /\ ~r.quiet /\ r.answer = None
  BY <1>2 DEF Request, Requests, Kind
<1>0. /\ page'.state = "FINISHING" /\ page'.beginDoc = k /\ page'.pendingBegin = page.pendingBegin
      /\ page'.keys = page.keys /\ page'.unconfirmedKind = page.unconfirmedKind
      /\ page'.resolving = page.resolving /\ page'.hidden = page.hidden
      /\ page'.terminal = TRUE /\ page'.nested = TRUE
      /\ page'.acked = page.acked /\ page'.queue = <<page.acked>> /\ page'.pumping = TRUE
      /\ page'.queue # << >> /\ page'.nextSequence = page.acked + 1
      /\ page'.sends = {} /\ page'.overtook = FALSE
  BY <1>1, <1>2 DEF Page, Typed
<1>5. page' \in Page
  <2>1. /\ <<page.nextSequence>> \in Seq(Nat) /\ page.nextSequence + 1 \in Nat
        /\ "FINISHING" \in AttemptState
    BY <1>2 DEF Page, AttemptState
  <2> QED BY <1>2, <2>1 DEF Page
<1>6. Working({r, a}, {})
  <2>1. page.unconfirmedKind # "begin"
    BY DEF PageInv, PageOK
  <2>2. Asks({r, a})
    BY ZenonT(60), <1>0, <1>3, <1>4 DEF Asks, CaptureKind
  <2> QED BY <2>1, <2>2, <1>0, <1>2 DEF Working
<1>7. /\ ServerOK' /\ ShapesOK' /\ AnswersOK' /\ StartsOK' /\ RecoveriesOK' /\ HeldOK'
      /\ WireTypeOK'
  BY <1>0, <1>6, WorkingKeeps DEF Active
<1>8. SinglesOK'
  <2>1. AppendAlone({r, a}, {})
    BY <1>1, <1>4 DEF AppendAlone
  <2> QED BY <2>1, <1>6, WorkingSingles
<1>9. Typed'
  <2>1. Len(<<page.acked>>) = 1
    OBVIOUS
  <2> QED BY <2>1, <1>0, <1>2, <1>5, <1>7, PageConstants DEF Typed
<1>10. PageOK'
  BY <1>0, <1>6, WorkingPage
<1>11. PumpOK'
  <2>1. ASSUME NEW q \in wire PROVE (Pumped(q) /\ Next1(q))'
    BY <1>1, <1>6 DEF PageInv, PumpOK, Pumped, Next1, LiveAppend, Working
  <2>2. (Pumped(a) /\ Next1(a))'
    BY <1>0, <1>1, <1>3, <1>6 DEF Pumped, Next1, LiveAppend, Working
  <2>3. (Pumped(r) /\ Next1(r))'
    BY <1>4 DEF Pumped, Next1, LiveAppend
  <2>4. Queued'
    <3> SUFFICES ASSUME NEW i \in 1 .. Len(page'.queue)
                 PROVE  page'.queue[i] = page'.acked + i - 1
      BY DEF Queued
    <3>1. page'.queue = <<page.acked>> /\ page'.acked = page.acked /\ page.acked \in Nat
      BY <1>0, <1>2
    <3>2. i = 1
      BY <3>1
    <3> QED BY <3>1, <3>2
  <2> QED BY <2>1, <2>2, <2>3, <2>4, <1>0 DEF PumpOK
<1>12. CountsOK'
  BY <1>0, <1>6 DEF PageInv, CountsOK, Counted, Working
<1>13. HonestOK' /\ ShownOK'
  BY <1>0 DEF HonestOK, Honest, ShownOK, OutcomeShownIsTrue, EvaluatedIsComplete
<1> QED BY <1>7, <1>8, <1>9, <1>10, <1>11, <1>12, <1>13 DEF PageInv

\* Once the outcome of a finish is unknown, it is asked for again.
LEMMA FinishAgain ==
    ASSUME PageInv, page.state = "UNCONFIRMED", page.unconfirmedKind = "finish",
           page.beginDoc # None, ~page.hidden,
           NEW r, r = Request("finish", page.beginDoc, 0, FALSE),
           page' = [page EXCEPT !.state = "FINISHING", !.terminal = TRUE],
           wire' = {r} \cup wire, UNCHANGED <<srv, verdict, lost, faults>>
    PROVE  PageInv'
<1> DEFINE k == page.beginDoc
<1>1. page \in Page /\ Typed /\ k \in Key /\ page.terminal = TRUE /\ FinishMode
  BY DEF PageInv, Typed, Page, PageOK, FinishMode
<1>2. /\ r \in Requests /\ r.kind = "finish" /\ r.key = k /\ r.at = "way" /\ r.live /\ ~r.quiet
      /\ r.answer = None
  BY <1>1 DEF Request, Requests, Kind
<1>0. /\ page'.state = "FINISHING" /\ page'.beginDoc = k /\ page'.pendingBegin = page.pendingBegin
      /\ page'.keys = page.keys /\ page'.unconfirmedKind = "finish"
      /\ page'.resolving = page.resolving /\ page'.hidden = page.hidden
      /\ page'.terminal = TRUE /\ page'.nested = page.nested /\ page'.failed = page.failed
      /\ page'.acked = page.acked /\ page'.queue = page.queue /\ page'.pumping = page.pumping
      /\ page'.nextSequence = page.nextSequence /\ page'.sends = {} /\ page'.overtook = FALSE
  BY <1>1 DEF Page, Typed
<1>3. page' \in Page
  BY <1>1 DEF Page, AttemptState
<1>4. Working({r}, {})
  BY <1>0, <1>1, <1>2, WireConstants DEF Working, Asks, CaptureKind, Kind
<1>5. /\ ServerOK' /\ ShapesOK' /\ AnswersOK' /\ StartsOK' /\ RecoveriesOK' /\ HeldOK'
      /\ WireTypeOK'
  BY <1>0, <1>4, WorkingKeeps DEF Active
<1>6. PumpOK' /\ CountsOK' /\ SinglesOK'
  <2>1. \A q \in wire : LiveAppend(q) => page.queue # << >>
    BY <1>1 DEF PageInv, PumpOK, Pumped
  <2>2. PumpRests({r}, {})
    BY <2>1, <1>0, <1>2 DEF PumpRests
  <2> QED BY <2>2, <1>4, WorkingPump
<1>7. Typed'
  BY <1>0, <1>1, <1>3, <1>5 DEF Typed
<1>8. PageOK'
  BY <1>0, <1>4, WorkingPage
<1>9. HonestOK'
  <2> SUFFICES ASSUME page.nested = FALSE PROVE HonestOK'
    BY <1>0, <1>1 DEF HonestOK, Honest, Page
  <2>1. \A q \in wire : ~Ending(q)
    BY DEF PageInv, HonestOK
  <2>2. Honest
    BY <1>1 DEF Honest
  <2>3. \A j \in Key : Complete(j)'
    BY ZenonT(60), <2>2, <1>0, <1>2, <1>4 DEF PageInv, HonestOK, Complete, Working
  <2>4. \A x \in wire' : Ending(x) => x = r
    BY <2>1
  <2>5. /\ ~page.failed /\ page.nextSequence = page.acked + Len(page.queue)
        /\ page.queue = << >> /\ ~page.pumping
    BY <2>2, <1>1 DEF PageInv, HonestOK
  <2> QED BY ZenonT(60), <2>3, <2>4, <2>5, <1>0, <1>1, <1>2, WireConstants DEF HonestOK
<1>10. ShownOK'
  BY <1>0 DEF ShownOK, OutcomeShownIsTrue, EvaluatedIsComplete
<1> QED BY <1>5, <1>6, <1>7, <1>8, <1>9, <1>10 DEF PageInv

-----------------------------------------------------------------------------
\* The answer to an append.

\* An append that is answered is the pump's, and the only one that counts.
LEMMA AppendBack ==
    ASSUME PageInv, NEW r \in wire, r.kind = "append", r.at = "back"
    PROVE  /\ r.live /\ ~r.quiet /\ r.key = page.beginDoc /\ ~page.hidden
           /\ page.pumping = TRUE /\ page.beginDoc \in Key /\ page.beginDoc # None
           /\ \A q \in wire \ {r} : ~LiveAppend(q)
           /\ FinishMode => page.queue # << >>
           /\ page.terminal => ~Honest
<1>1. Shape(r) /\ Pumped(r) /\ r \in Requests /\ page \in Page
  BY DEF PageInv, ShapesOK, PumpOK, Typed, WireTypeOK, Requests
<1>2. r.live /\ ~r.quiet /\ r.key = page.beginDoc /\ ~page.hidden
  BY <1>1 DEF Shape, CaptureKind
<1>3. page.pumping = TRUE /\ (FinishMode => page.queue # << >>)
  BY <1>1, <1>2 DEF Pumped, LiveAppend, Page
<1>4. page.beginDoc \in Key /\ page.beginDoc # None
  BY <1>1, <1>2, WireConstants DEF Requests
<1>5. ASSUME NEW q \in wire, q # r, LiveAppend(q) PROVE FALSE
  <2>1. Shape(q) /\ Single(r, q)
    BY DEF PageInv, ShapesOK, SinglesOK
  <2> QED BY <2>1, <1>2, <1>5 DEF Shape, Single, LiveAppend, CaptureKind
<1>6. page.terminal => ~Honest
  BY <1>3 DEF PageInv, HonestOK
<1> QED BY <1>2, <1>3, <1>4, <1>5, <1>6

\* Too late: the page is past the attempt's messages.
LEMMA AppendIgnored ==
    ASSUME PageInv, NEW r \in wire, r.kind = "append", r.at = "back",
           page.state \notin {"CAPTURING", "FINISHING"},
           page' = [page EXCEPT !.pumping = FALSE],
           wire' = wire \ {r}, UNCHANGED <<srv, verdict, lost, faults>>
    PROVE  PageInv'
<1> DEFINE k == page.beginDoc
<1>1. /\ r.live /\ ~r.quiet /\ r.key = k /\ ~page.hidden
      /\ page.pumping = TRUE /\ k \in Key /\ k # None
      /\ \A q \in wire \ {r} : ~LiveAppend(q)
      /\ page.terminal => ~Honest
  BY AppendBack
<1>2. page \in Page /\ Typed
  BY DEF PageInv, Typed
<1>0. /\ page'.state = page.state /\ page'.beginDoc = k /\ page'.pendingBegin = page.pendingBegin
      /\ page'.keys = page.keys /\ page'.unconfirmedKind = page.unconfirmedKind
      /\ page'.resolving = page.resolving /\ page'.hidden = page.hidden
      /\ page'.terminal = page.terminal /\ page'.nested = page.nested
      /\ page'.failed = page.failed /\ page'.feedback = page.feedback
      /\ page'.acked = page.acked /\ page'.queue = page.queue /\ page'.pumping = FALSE
      /\ page'.nextSequence = page.nextSequence /\ page'.sends = {} /\ page'.overtook = FALSE
  BY <1>2 DEF Page, Typed
<1>3. page' \in Page
  BY <1>2 DEF Page
<1>4. Working({}, {r})
  <2>1. page.unconfirmedKind # "begin"
    BY <1>1 DEF PageInv, PageOK
  <2> QED BY <2>1, <1>0, <1>1 DEF Working, Asks, CaptureKind
<1>5. /\ ServerOK' /\ ShapesOK' /\ AnswersOK' /\ StartsOK' /\ RecoveriesOK' /\ HeldOK'
      /\ WireTypeOK'
  BY <1>0, <1>4, WorkingKeeps
<1>6. PumpOK' /\ CountsOK' /\ SinglesOK'
  <2>1. PumpRests({}, {r})
    BY <1>0, <1>1 DEF PumpRests
  <2> QED BY <2>1, <1>4, WorkingPump
<1>7. Typed'
  BY <1>0, <1>2, <1>3, <1>5 DEF Typed
<1>8. PageOK'
  <2>1. page.state # "STARTING"
    BY <1>1 DEF PageInv, PageOK
  <2>2. page.unconfirmedKind = "finish" \/ page.state = "CANCELLING" => page.terminal
    BY DEF PageInv, PageOK
  <2> QED BY <2>1, <2>2, <1>0, <1>4, WorkingPage
<1>9. HonestOK'
  <2>1. ~Honest
    BY <1>1 DEF PageInv, PageOK, HonestOK, Honest, FinishMode
  <2>2. ~Honest'
    BY <2>1, <1>0 DEF Honest, FinishMode
  <2> QED BY <2>2, <1>0 DEF PageInv, HonestOK, Ending
<1>10. ShownOK'
  <2>1. OutcomeShownIsTrue' /\ EvaluatedIsComplete'
    BY <1>0 DEF PageInv, ShownOK, OutcomeShownIsTrue, EvaluatedIsComplete
  <2> QED BY <2>1, <1>0 DEF PageInv, ShownOK
<1> QED BY <1>5, <1>6, <1>7, <1>8, <1>9, <1>10 DEF PageInv

\* The append that is acknowledged: what the attempt then holds is known.
Accepted(r) ==
    /\ r \in wire /\ r.kind = "append" /\ r.at = "back"
    /\ page.state \in {"CAPTURING", "FINISHING"}
    /\ r.answer = Answer("ACK", page.acked + 1)

LEMMA AcceptedFacts ==
    ASSUME PageInv, NEW r, Accepted(r)
    PROVE  LET k == page.beginDoc
           IN /\ NoAppend({r}) /\ page.queue # << >>
              /\ srv[k].phase = "capturing" => srv[k].count = page.acked + 1
              /\ verdict[k] # None => verdict[k].count >= page.acked + 1
              /\ ~page.nested => /\ page.terminal = FALSE /\ page.failed = FALSE
                                 /\ verdict[k] = None
                                 /\ page.nextSequence = page.acked + Len(page.queue)
<1> DEFINE k == page.beginDoc
<1>1. r \in wire /\ r.kind = "append" /\ r.at = "back" /\ FinishMode
      /\ r.answer.status = "ACK" /\ r.answer.count = page.acked + 1
  BY DEF Accepted, FinishMode, Answer
<1>2. /\ r.key = k /\ k \in Key /\ page.queue # << >>
      /\ page.terminal => ~Honest
      /\ \A q \in wire \ {r} : ~LiveAppend(q)
  BY <1>1, AppendBack
<1>3. Told(r) /\ page \in Page
  BY <1>1 DEF PageInv, AnswersOK, Typed
<1>4. /\ srv[k].phase = "capturing" => srv[k].count = page.acked + 1
      /\ verdict[k] # None => verdict[k].count >= page.acked + 1
  BY <1>1, <1>2, <1>3 DEF Told
<1>5. ASSUME NEW q \in wire, q # r, q.kind = "append", q.key = k PROVE FALSE
  <2>1. Shape(q) /\ Single(q, r) /\ q \in Requests
    BY <1>1 DEF PageInv, ShapesOK, SinglesOK, Typed, WireTypeOK, Requests
  <2>2. q.at = "way"
    BY <2>1, <1>2, <1>5 DEF Shape, LiveAppend, CaptureKind, Requests
  <2> QED BY <2>1, <2>2, <1>1, <1>2, <1>5 DEF Single
<1>6. ASSUME ~page.nested
      PROVE  /\ page.terminal = FALSE /\ page.failed = FALSE /\ verdict[k] = None
             /\ page.nextSequence = page.acked + Len(page.queue)
  <2>1. Honest
    BY <1>1, <1>6 DEF Honest
  <2> QED BY <2>1, <1>2, <1>3 DEF PageInv, HonestOK, Complete, Page
<1> QED BY <1>2, <1>4, <1>5, <1>6 DEF NoAppend

\* What goes out after it: the next append, the finish, or nothing.
PumpGoesOn(S) ==
    /\ \A x, y \in S : x = y
    /\ \A x \in S : x.kind = "append" => /\ x.seq = page'.acked /\ page'.pumping
                                         /\ page'.queue # << >>
    /\ page'.acked = page.acked + 1 /\ page'.queue = Tail(page.queue)
    /\ page'.state = "CAPTURING" /\ ~page'.pumping => page'.queue = << >>

LEMMA AcceptedPump ==
    ASSUME PageInv, NEW r, Accepted(r), NEW S, Working(S, {r}), PumpGoesOn(S)
    PROVE  PumpOK' /\ CountsOK' /\ SinglesOK'
<1> DEFINE k == page.beginDoc
<1>1. /\ NoAppend({r}) /\ page.queue # << >>
      /\ srv[k].phase = "capturing" => srv[k].count = page.acked + 1
      /\ verdict[k] # None => verdict[k].count >= page.acked + 1
  BY AcceptedFacts
<1>2. page \in Page /\ page.queue \in Seq(Nat) /\ page.acked \in Nat
  BY DEF PageInv, Typed, Page
<1>3. page'.beginDoc = k /\ srv' = srv /\ verdict' = verdict /\ wire' = S \cup (wire \ {r})
  BY DEF Working
<1>4. \A x \in S : x.key = k /\ x.live
  BY DEF Working, Asks
<1>5. Queued'
  <2> SUFFICES ASSUME NEW i \in 1 .. Len(page'.queue)
               PROVE  page'.queue[i] = page'.acked + i - 1
    BY DEF Queued
  <2>1. Len(Tail(page.queue)) = Len(page.queue) - 1 /\ Len(page.queue) \in Nat
    BY <1>1, <1>2
  <2>2. i + 1 \in 1 .. Len(page.queue) /\ Tail(page.queue)[i] = page.queue[i + 1]
    BY <2>1, <1>1, <1>2 DEF PumpGoesOn
  <2>3. page.queue[i + 1] = page.acked + (i + 1) - 1
    BY <2>2 DEF PageInv, PumpOK, Queued
  <2> QED BY <2>2, <2>3, <1>2 DEF PumpGoesOn
<1>6. ASSUME NEW q \in wire' PROVE (Pumped(q) /\ Next1(q))'
  <2>1. CASE q \in S
    <3>1. q.kind = "append" => q.seq = page'.acked /\ page'.pumping /\ page'.queue # << >>
      BY <2>1 DEF PumpGoesOn
    <3> QED BY <3>1, <2>1, <1>1, <1>3, <1>4 DEF Pumped, Next1, LiveAppend, PumpGoesOn
  <2>2. CASE q \in wire \ {r}
    <3>1. Next1(q)' /\ Shape(q)
      BY <2>2, <1>3 DEF PageInv, PumpOK, Next1, ShapesOK
    <3>2. ~LiveAppend(q)
      BY <3>1, <2>2, <1>1 DEF NoAppend, Shape, LiveAppend, CaptureKind
    <3> QED BY <3>1, <3>2 DEF Pumped
  <2> QED BY <2>1, <2>2, <1>3
<1>7. PumpOK'
  BY <1>5, <1>6 DEF PumpOK, PumpGoesOn
<1>8. CountsOK'
  BY <1>1, <1>2, <1>3 DEF CountsOK, Counted, PumpGoesOn
<1>9. SinglesOK'
  <2>1. AppendAlone(S, {r})
    BY <1>1 DEF AppendAlone, PumpGoesOn
  <2> QED BY <2>1, WorkingSingles
<1> QED BY <1>7, <1>8, <1>9

\* The queue has more: the next append.
LEMMA AppendNext ==
    ASSUME PageInv, NEW r, Accepted(r), Tail(page.queue) # << >>,
           NEW a, a = Request("append", page.beginDoc, Head(Tail(page.queue)), FALSE),
           page' = [page EXCEPT !.queue = Tail(page.queue), !.acked = page.acked + 1,
                                !.pumping = TRUE],
           wire' = {a} \cup (wire \ {r}), UNCHANGED <<srv, verdict, lost, faults>>
    PROVE  PageInv'
<1> DEFINE k == page.beginDoc
           tl == Tail(page.queue)
<1>1. /\ NoAppend({r}) /\ page.queue # << >>
      /\ ~page.nested => /\ page.terminal = FALSE /\ page.failed = FALSE
                         /\ verdict[k] = None
                         /\ page.nextSequence = page.acked + Len(page.queue)
  BY AcceptedFacts
<1>2. /\ r.kind = "append" /\ r.at = "back" /\ ~page.hidden /\ k \in Key /\ k # None
      /\ page.pumping = TRUE
  BY AppendBack DEF Accepted
<1>3. page \in Page /\ Typed /\ page.queue \in Seq(Nat) /\ page.acked \in Nat
  BY DEF PageInv, Typed, Page
<1>4. /\ tl \in Seq(Nat) /\ Len(tl) = Len(page.queue) - 1 /\ Len(page.queue) \in Nat
      /\ page.acked + 1 \in Nat
  BY <1>1, <1>3
<1>5. /\ Head(tl) = page.acked + 1
  <2>1. Len(page.queue) >= 2 /\ Head(tl) = page.queue[2]
    BY <1>1, <1>3, <1>4
  <2>2. 2 \in 1 .. Len(page.queue)
    BY <2>1, <1>4
  <2>3. page.queue[2] = page.acked + 2 - 1
    BY <2>2 DEF PageInv, PumpOK, Queued
  <2>4. page.acked + 2 - 1 = page.acked + 1
    BY <1>3
  <2> QED BY <2>1, <2>3, <2>4
<1>6. /\ a \in Requests /\ a.kind = "append" /\ a.key = k /\ a.at = "way" /\ a.live /\ ~a.quiet
      /\ a.answer = None /\ a.seq = page.acked + 1
  BY <1>2, <1>4, <1>5 DEF Request, Requests, Kind
<1>0. /\ page'.state = page.state /\ page'.beginDoc = k /\ page'.pendingBegin = page.pendingBegin
      /\ page'.keys = page.keys /\ page'.unconfirmedKind = page.unconfirmedKind
      /\ page'.resolving = page.resolving /\ page'.hidden = page.hidden
      /\ page'.terminal = page.terminal /\ page'.nested = page.nested
      /\ page'.failed = page.failed /\ page'.feedback = page.feedback
      /\ page'.acked = page.acked + 1 /\ page'.queue = tl /\ page'.pumping = TRUE
      /\ page'.nextSequence = page.nextSequence /\ page'.sends = {} /\ page'.overtook = FALSE
  BY <1>3 DEF Page, Typed
<1>7. page' \in Page
  BY <1>3, <1>4 DEF Page
<1>8. Working({a}, {r})
  <2>1. page.unconfirmedKind # "begin"
    BY <1>2 DEF PageInv, PageOK
  <2> QED BY ZenonT(60), <2>1, <1>0, <1>2, <1>6 DEF Working, Asks, CaptureKind
<1>9. /\ ServerOK' /\ ShapesOK' /\ AnswersOK' /\ StartsOK' /\ RecoveriesOK' /\ HeldOK'
      /\ WireTypeOK'
  BY <1>0, <1>8, WorkingKeeps
<1>10. PumpOK' /\ CountsOK' /\ SinglesOK'
  <2>1. PumpGoesOn({a})
    BY <1>0, <1>6 DEF PumpGoesOn
  <2> QED BY <2>1, <1>8, AcceptedPump
<1>11. Typed'
  <2>1. Len(tl) <= QueueLimit /\ page.acked + 1 + Len(tl) <= page.nextSequence
    BY SMTT(60), <1>3, <1>4, PageConstants DEF Typed, Page
  <2> QED BY <2>1, <1>0, <1>7, <1>9 DEF Typed
<1>12. page.state \in {"CAPTURING", "FINISHING"}
  BY DEF Accepted
<1>13. PageOK'
  BY <1>0, <1>8, <1>12, WorkingPage DEF PageInv, PageOK
<1>14. HonestOK'
  <2> SUFFICES ASSUME ~page.nested PROVE HonestOK'
    BY <1>0 DEF HonestOK, Honest
  <2>1. \A x \in wire' : ~Ending(x)
    BY <1>1, <1>6, NoEndYet DEF Ending
  <2>2. \A j \in Key : Complete(j)'
    BY <1>0, <1>1 DEF Complete
  <2>3. page'.nextSequence = page'.acked + Len(page'.queue)
    BY <1>0, <1>1, <1>3, <1>4
  <2> QED BY <2>1, <2>2, <2>3, <1>0, <1>1, <1>2, <1>12 DEF HonestOK
<1>15. ShownOK'
  BY <1>0, <1>12 DEF ShownOK, OutcomeShownIsTrue, EvaluatedIsComplete
<1> QED BY <1>9, <1>10, <1>11, <1>13, <1>14, <1>15 DEF PageInv

\* The last one: a finish that waited for it goes out.
LEMMA DrainedFinish ==
    ASSUME PageInv, NEW r, Accepted(r), Tail(page.queue) = << >>,
           page.state = "FINISHING", page.terminal = FALSE,
           NEW f, f = Request("finish", page.beginDoc, 0, FALSE),
           page' = [page EXCEPT !.queue = << >>, !.acked = page.acked + 1,
                                !.pumping = FALSE, !.terminal = TRUE],
           wire' = {f} \cup (wire \ {r}), UNCHANGED <<srv, verdict, lost, faults>>
    PROVE  PageInv'
<1> DEFINE k == page.beginDoc
<1>1. /\ NoAppend({r}) /\ page.queue # << >>
      /\ srv[k].phase = "capturing" => srv[k].count = page.acked + 1
      /\ ~page.nested => /\ page.failed = FALSE
                         /\ verdict[k] = None
                         /\ page.nextSequence = page.acked + Len(page.queue)
  BY AcceptedFacts
<1>2. /\ r.kind = "append" /\ r.at = "back" /\ ~page.hidden /\ k \in Key /\ k # None
  BY AppendBack DEF Accepted
<1>3. page \in Page /\ Typed /\ page.queue \in Seq(Nat) /\ page.acked \in Nat
  BY DEF PageInv, Typed, Page
<1>4. Len(page.queue) = 1 /\ page.acked + 1 \in Nat
  <2>1. Len(Tail(page.queue)) = Len(page.queue) - 1 /\ Len(page.queue) \in Nat
    BY <1>1, <1>3
  <2>2. Len(Tail(page.queue)) = 0
    <3>1. Len(<< >>) = 0
      OBVIOUS
    <3> QED BY <3>1
  <2> QED BY <2>1, <2>2, <1>3
<1>6. /\ f \in Requests /\ f.kind = "finish" /\ f.key = k /\ f.at = "way" /\ f.live /\ ~f.quiet
      /\ f.answer = None
  BY <1>2 DEF Request, Requests, Kind
<1>0. /\ page'.state = "FINISHING" /\ page'.beginDoc = k /\ page'.pendingBegin = page.pendingBegin
      /\ page'.keys = page.keys /\ page'.unconfirmedKind = page.unconfirmedKind
      /\ page'.resolving = page.resolving /\ page'.hidden = page.hidden
      /\ page'.terminal = TRUE /\ page'.nested = page.nested
      /\ page'.failed = page.failed /\ page'.feedback = page.feedback
      /\ page'.acked = page.acked + 1 /\ page'.queue = << >> /\ page'.pumping = FALSE
      /\ page'.nextSequence = page.nextSequence /\ page'.sends = {} /\ page'.overtook = FALSE
  BY <1>3 DEF Page, Typed
<1>7. page' \in Page
  <2>1. << >> \in Seq(Nat)
    OBVIOUS
  <2> QED BY <2>1, <1>3, <1>4 DEF Page
<1>8. Working({f}, {r})
  <2>1. page.unconfirmedKind # "begin"
    BY <1>2 DEF PageInv, PageOK
  <2> QED BY ZenonT(60), <2>1, <1>0, <1>2, <1>6 DEF Working, Asks, CaptureKind
<1>9. /\ ServerOK' /\ ShapesOK' /\ AnswersOK' /\ StartsOK' /\ RecoveriesOK' /\ HeldOK'
      /\ WireTypeOK'
  BY <1>0, <1>8, WorkingKeeps DEF Active
<1>10. PumpOK' /\ CountsOK' /\ SinglesOK'
  <2>1. PumpGoesOn({f})
    BY <1>0, <1>6 DEF PumpGoesOn
  <2> QED BY <2>1, <1>8, AcceptedPump
<1>11. Typed'
  <2>1. page.acked + 1 <= page.nextSequence
    BY <1>3, <1>4 DEF Typed, Page
  <2>2. Len(page'.queue) = 0 /\ page'.acked + Len(page'.queue) <= page'.nextSequence
    BY <2>1, <1>0, <1>3
  <2> QED BY <2>2, <1>0, <1>7, <1>9, PageConstants DEF Typed
<1>13. PageOK'
  BY <1>0, <1>8, WorkingPage
<1>14. HonestOK'
  <2> SUFFICES ASSUME ~page.nested PROVE HonestOK'
    BY <1>0 DEF HonestOK, Honest
  <2>1. \A x \in wire' : Ending(x) => x = f
    BY <1>1, <1>6, NoEndYet DEF Ending
  <2>2. \A j \in Key : Complete(j)'
    <3>1. \A q \in wire' : ~(q.kind = "append" /\ q.at = "way" /\ q.key = k)
      BY <1>1, <1>6 DEF NoAppend
    <3>2. page'.beginDoc = k /\ page'.terminal /\ page'.acked = page.acked + 1
      BY <1>0
    <3> QED BY <3>1, <3>2, <1>1 DEF Complete
  <2>3. page'.nextSequence = page'.acked + Len(page'.queue)
    BY <1>0, <1>1, <1>3, <1>4
  <2> QED BY ZenonT(60), <2>1, <2>2, <2>3, <1>0, <1>1, <1>2, <1>6 DEF HonestOK
<1>15. ShownOK'
  BY <1>0 DEF ShownOK, OutcomeShownIsTrue, EvaluatedIsComplete
<1> QED BY <1>9, <1>10, <1>11, <1>13, <1>14, <1>15 DEF PageInv

\* The last one, and nobody has asked to finish, or somebody already did.
LEMMA Drained ==
    ASSUME PageInv, NEW r, Accepted(r), Tail(page.queue) = << >>,
           page.state = "CAPTURING" \/ page.terminal = TRUE,
           page' = [page EXCEPT !.queue = << >>, !.acked = page.acked + 1,
                                !.pumping = FALSE],
           wire' = wire \ {r}, UNCHANGED <<srv, verdict, lost, faults>>
    PROVE  PageInv'
<1> DEFINE k == page.beginDoc
<1>1. /\ NoAppend({r}) /\ page.queue # << >>
      /\ srv[k].phase = "capturing" => srv[k].count = page.acked + 1
      /\ ~page.nested => /\ page.failed = FALSE /\ page.terminal = FALSE
                         /\ verdict[k] = None
                         /\ page.nextSequence = page.acked + Len(page.queue)
  BY AcceptedFacts
<1>2. /\ r.kind = "append" /\ r.at = "back" /\ ~page.hidden /\ k \in Key /\ k # None
  BY AppendBack DEF Accepted
<1>3. page \in Page /\ Typed /\ page.queue \in Seq(Nat) /\ page.acked \in Nat
  BY DEF PageInv, Typed, Page
<1>4. Len(page.queue) = 1 /\ page.acked + 1 \in Nat
  <2>1. Len(Tail(page.queue)) = Len(page.queue) - 1 /\ Len(page.queue) \in Nat
    BY <1>1, <1>3
  <2>2. Len(Tail(page.queue)) = 0
    <3>1. Len(<< >>) = 0
      OBVIOUS
    <3> QED BY <3>1
  <2> QED BY <2>1, <2>2, <1>3
<1>0. /\ page'.state = page.state /\ page'.beginDoc = k /\ page'.pendingBegin = page.pendingBegin
      /\ page'.keys = page.keys /\ page'.unconfirmedKind = page.unconfirmedKind
      /\ page'.resolving = page.resolving /\ page'.hidden = page.hidden
      /\ page'.terminal = page.terminal /\ page'.nested = page.nested
      /\ page'.failed = page.failed /\ page'.feedback = page.feedback
      /\ page'.acked = page.acked + 1 /\ page'.queue = << >> /\ page'.pumping = FALSE
      /\ page'.nextSequence = page.nextSequence /\ page'.sends = {} /\ page'.overtook = FALSE
  BY <1>3 DEF Page, Typed
<1>7. page' \in Page
  <2>1. << >> \in Seq(Nat)
    OBVIOUS
  <2> QED BY <2>1, <1>3, <1>4 DEF Page
<1>8. Working({}, {r})
  <2>1. page.unconfirmedKind # "begin"
    BY <1>2 DEF PageInv, PageOK
  <2> QED BY <2>1, <1>0, <1>2 DEF Working, Asks, CaptureKind
<1>9. /\ ServerOK' /\ ShapesOK' /\ AnswersOK' /\ StartsOK' /\ RecoveriesOK' /\ HeldOK'
      /\ WireTypeOK'
  BY <1>0, <1>8, WorkingKeeps
<1>10. PumpOK' /\ CountsOK' /\ SinglesOK'
  <2>1. PumpGoesOn({})
    BY <1>0 DEF PumpGoesOn
  <2> QED BY <2>1, <1>8, AcceptedPump
<1>11. Typed'
  <2>1. page.acked + 1 <= page.nextSequence
    BY <1>3, <1>4 DEF Typed, Page
  <2>2. Len(page'.queue) = 0 /\ page'.acked + Len(page'.queue) <= page'.nextSequence
    BY <2>1, <1>0, <1>3
  <2> QED BY <2>2, <1>0, <1>7, <1>9, PageConstants DEF Typed
<1>12. page.state \in {"CAPTURING", "FINISHING"}
  BY DEF Accepted
<1>13. PageOK'
  BY <1>0, <1>8, <1>12, WorkingPage DEF PageInv, PageOK
<1>14. HonestOK'
  <2> SUFFICES ASSUME ~page.nested PROVE HonestOK'
    BY <1>0 DEF HonestOK, Honest
  <2>1. \A x \in wire' : ~Ending(x)
    BY <1>1, NoEndYet DEF Ending
  <2>2. \A j \in Key : Complete(j)'
    <3> SUFFICES ASSUME NEW j \in Key, j = k PROVE Complete(j)'
      BY <1>0 DEF Complete
    <3>1. \A q \in wire' : ~(q.kind = "append" /\ q.at = "way" /\ q.key = j)
      BY <1>1 DEF NoAppend
    <3> QED BY <3>1, <1>0, <1>1 DEF Complete
  <2>3. page'.nextSequence = page'.acked + Len(page'.queue)
    BY <1>0, <1>1, <1>3, <1>4
  <2> QED BY <2>1, <2>2, <2>3, <1>0, <1>1, <1>2, <1>12 DEF HonestOK
<1>15. ShownOK'
  BY <1>0, <1>12 DEF ShownOK, OutcomeShownIsTrue, EvaluatedIsComplete
<1> QED BY <1>9, <1>10, <1>11, <1>13, <1>14, <1>15 DEF PageInv

\* An append that was not acknowledged, and the attempt is being finished:
\* only a finish that went out in mid-handler can be under way by then.
LEMMA AppendFails ==
    ASSUME PageInv, NEW r \in wire, r.kind = "append", r.at = "back",
           page.state \in {"CAPTURING", "FINISHING"}, page.terminal = TRUE,
           page' = [page EXCEPT !.queue = << >>, !.failed = TRUE, !.pumping = FALSE],
           wire' = wire \ {r}, UNCHANGED <<srv, verdict, lost, faults>>
    PROVE  PageInv'
<1> DEFINE k == page.beginDoc
<1>1. /\ r.live /\ ~r.quiet /\ r.key = k /\ ~page.hidden
      /\ page.pumping = TRUE /\ k \in Key /\ k # None
      /\ \A q \in wire \ {r} : ~LiveAppend(q)
      /\ ~Honest
  BY AppendBack
<1>2. page \in Page /\ Typed /\ page.state = "FINISHING" /\ page.nested = TRUE
  BY <1>1 DEF PageInv, Typed, PageOK, Honest, FinishMode, Page
<1>0. /\ page'.state = "FINISHING" /\ page'.beginDoc = k /\ page'.pendingBegin = page.pendingBegin
      /\ page'.keys = page.keys /\ page'.unconfirmedKind = page.unconfirmedKind
      /\ page'.resolving = page.resolving /\ page'.hidden = page.hidden
      /\ page'.terminal = TRUE /\ page'.nested = TRUE
      /\ page'.acked = page.acked /\ page'.queue = << >> /\ page'.pumping = FALSE
      /\ page'.nextSequence = page.nextSequence /\ page'.sends = {} /\ page'.overtook = FALSE
  BY <1>2 DEF Page, Typed
<1>3. page' \in Page
  <2>1. << >> \in Seq(Nat)
    OBVIOUS
  <2> QED BY <2>1, <1>2 DEF Page
<1>4. Working({}, {r})
  <2>1. page.unconfirmedKind # "begin"
    BY <1>1 DEF PageInv, PageOK
  <2> QED BY <2>1, <1>0, <1>1 DEF Working, Asks, CaptureKind
<1>5. /\ ServerOK' /\ ShapesOK' /\ AnswersOK' /\ StartsOK' /\ RecoveriesOK' /\ HeldOK'
      /\ WireTypeOK'
  BY <1>0, <1>4, WorkingKeeps DEF Active
<1>6. PumpOK' /\ CountsOK' /\ SinglesOK'
  <2>1. PumpRests({}, {r})
    BY <1>0, <1>1 DEF PumpRests
  <2> QED BY <2>1, <1>4, WorkingPump
<1>7. Typed'
  <2>1. Len(page'.queue) = 0 /\ page.acked <= page.nextSequence
    BY <1>0, <1>2 DEF Typed, Page
  <2> QED BY <2>1, <1>0, <1>2, <1>3, <1>5, PageConstants DEF Typed, Page
<1>8. PageOK'
  BY <1>0, <1>4, WorkingPage
<1>9. HonestOK' /\ ShownOK'
  BY <1>0 DEF HonestOK, Honest, ShownOK, OutcomeShownIsTrue, EvaluatedIsComplete
<1> QED BY <1>5, <1>6, <1>7, <1>8, <1>9 DEF PageInv

\* A handler that does not start a new generation.
LEMMA DonePlainly ==
    ASSUME NEW p \in Page, NEW rest, p.overtook = FALSE, Done(p, rest)
    PROVE  page' = [p EXCEPT !.sends = {}] /\ wire' = p.sends \cup rest
<1>1. [p EXCEPT !.sends = {}, !.overtook = FALSE] = [p EXCEPT !.sends = {}]
  BY DEF Page
<1> QED BY <1>1 DEF Done

LEMMA AppendAnsweredKeeps ==
    ASSUME PageInv, NEW r \in wire, r.kind = "append", r.at = "back",
           NEW ended \in BOOLEAN, AppendAnswered(r, ended),
           UNCHANGED <<srv, verdict, lost, faults>>
    PROVE  PageInv'
<1> DEFINE free == [page EXCEPT !.pumping = @ /\ ~r.live]
           idle == [page EXCEPT !.pumping = FALSE]
           failed == [free EXCEPT !.queue = << >>, !.failed = TRUE]
           ours == /\ Alive(r) /\ SameAttempt(page, r)
                   /\ page.state \in {"CAPTURING", "FINISHING"}
           accepted == AcceptAcknowledgement(page, r)
           shorter == [page EXCEPT !.queue = Tail(@), !.acked = r.answer.count]
<1>1. page \in Page /\ page.sends = {} /\ page.overtook = FALSE
  BY DEF PageInv, Typed
<1>2. /\ r.live /\ ~r.quiet /\ r.key = page.beginDoc /\ ~page.hidden
      /\ page.pumping = TRUE /\ page.beginDoc \in Key /\ page.beginDoc # None
      /\ \A q \in wire \ {r} : ~LiveAppend(q)
      /\ page.terminal => ~Honest
  BY AppendBack
<1>3. free = idle
  BY <1>1, <1>2 DEF Page
<1>4. idle \in Page /\ idle.sends = {} /\ idle.overtook = FALSE
  BY <1>1 DEF Page
<1>5. CASE ~ours
  <2>1. Done(idle, wire \ {r})
    BY <1>3, <1>5 DEF AppendAnswered
  <2>2. page.state \notin {"CAPTURING", "FINISHING"}
    BY <1>2, <1>5 DEF Alive, SameAttempt
  <2>3. page' = idle /\ wire' = wire \ {r}
    <3>1. [idle EXCEPT !.sends = {}] = idle
      BY <1>4 DEF Page
    <3> QED BY <3>1, <2>1, <1>4, DonePlainly
  <2> QED BY <2>2, <2>3, AppendIgnored
<1>6. CASE ours /\ accepted
  <2>1. Done(RunPump(shorter), wire \ {r})
    BY <1>6 DEF AppendAnswered
  <2>2. Accepted(r) /\ r.answer.count = page.acked + 1
    BY <1>6 DEF Accepted, AcceptAcknowledgement, Answer
  <2>3. shorter = [page EXCEPT !.queue = Tail(page.queue), !.acked = page.acked + 1]
    BY <2>2
  <2>4. page.queue \in Seq(Nat) /\ page.queue # << >> /\ page.acked + 1 \in Nat
    <3>1. page.queue # << >>
      BY <2>2, AcceptedFacts
    <3> QED BY <3>1, <1>1 DEF Page
  <2>5. Tail(page.queue) \in Seq(Nat)
    BY <2>4
  <2>6. /\ shorter \in Page /\ shorter.sends = {} /\ shorter.overtook = FALSE
        /\ shorter.queue = Tail(page.queue) /\ shorter.state = page.state
        /\ shorter.beginDoc = page.beginDoc /\ shorter.terminal = page.terminal
    BY <2>3, <2>4, <2>5, <1>1 DEF Page
  <2>7. CASE Tail(page.queue) # << >>
    <3> DEFINE a == Request("append", page.beginDoc, Head(Tail(page.queue)), FALSE)
               p == [shorter EXCEPT !.sends = {a}, !.pumping = TRUE]
    <3>1. RunPump(shorter) = p
      BY <2>6, <2>7, <1>6 DEF RunPump, Ask, Page
    <3>2. a \in Requests
      <4>1. Head(Tail(page.queue)) \in Nat
        BY SMTT(60), <2>5, <2>7
      <4> QED BY <4>1, <1>2 DEF Request, Requests, Kind
    <3>3. p \in Page /\ p.overtook = FALSE /\ p.sends = {a}
      BY <3>2, <2>6 DEF Page
    <3> HIDE DEF p, shorter
    <3>4. page' = [p EXCEPT !.sends = {}] /\ wire' = {a} \cup (wire \ {r})
      BY <3>1, <3>3, <2>1, DonePlainly
    <3> USE DEF p
    <3>5. page' = [page EXCEPT !.queue = Tail(page.queue), !.acked = page.acked + 1,
                               !.pumping = TRUE]
      BY <3>4, <2>3, <1>1 DEF Page
    <3> QED BY <3>4, <3>5, <2>2, <2>7, AppendNext
  <2>8. CASE Tail(page.queue) = << >> /\ page.state = "FINISHING" /\ ~page.terminal
    <3> DEFINE f == Request("finish", page.beginDoc, 0, FALSE)
               p == [shorter EXCEPT !.sends = {f}, !.pumping = FALSE, !.terminal = TRUE]
    <3>1. RunPump(shorter) = p
      BY ZenonT(60), <2>6, <2>8 DEF RunPump, SubmitFinish, Ask, Page
    <3>2. f \in Requests
      BY <1>2 DEF Request, Requests, Kind
    <3>3. p \in Page /\ p.overtook = FALSE /\ p.sends = {f}
      BY <3>2, <2>6 DEF Page
    <3> HIDE DEF p, shorter
    <3>4. page' = [p EXCEPT !.sends = {}] /\ wire' = {f} \cup (wire \ {r})
      BY <3>1, <3>3, <2>1, DonePlainly
    <3> USE DEF p
    <3>5. page' = [page EXCEPT !.queue = << >>, !.acked = page.acked + 1,
                               !.pumping = FALSE, !.terminal = TRUE]
      BY <3>4, <2>3, <2>8, <1>1 DEF Page
    <3>6. page.terminal = FALSE
      BY <2>8, <1>1 DEF Page
    <3> QED BY <3>4, <3>5, <3>6, <2>2, <2>8, DrainedFinish
  <2>9. CASE Tail(page.queue) = << >> /\ ~(page.state = "FINISHING" /\ ~page.terminal)
    <3> DEFINE p == [shorter EXCEPT !.pumping = FALSE]
    <3>1. RunPump(shorter) = p
      BY <2>6, <2>9 DEF RunPump, Page
    <3>2. p \in Page /\ p.overtook = FALSE /\ p.sends = {}
      BY <2>6 DEF Page
    <3> HIDE DEF p, shorter
    <3>3. page' = [p EXCEPT !.sends = {}] /\ wire' = wire \ {r}
      BY ZenonT(60), <3>1, <3>2, <2>1, DonePlainly
    <3> USE DEF p
    <3>4. page' = [page EXCEPT !.queue = << >>, !.acked = page.acked + 1,
                               !.pumping = FALSE]
      BY <3>3, <2>3, <2>9, <1>1 DEF Page
    <3>5. page.state = "CAPTURING" \/ page.terminal = TRUE
      BY <2>9, <1>1, <1>6 DEF Page
    <3> QED BY <3>3, <3>4, <3>5, <2>2, <2>9, Drained
  <2> QED BY <2>7, <2>8, <2>9
<1>7. CASE ours /\ ~accepted
  <2>1. Done(PerformCancel(failed, ended), wire \ {r}) /\ (ended => page.state = "CAPTURING")
    BY <1>7 DEF AppendAnswered
  <2>2. failed = [page EXCEPT !.queue = << >>, !.failed = TRUE, !.pumping = FALSE]
    BY <1>3, <1>1 DEF Page
  <2>3. << >> \in Seq(Nat)
    OBVIOUS
  <2>4. failed \in Page
    <3> HIDE DEF failed
    <3>1. [page EXCEPT !.queue = << >>, !.failed = TRUE, !.pumping = FALSE] \in Page
      BY ZenonT(60), <2>3, <1>1 DEF Page
    <3> QED BY <3>1, <2>2
  <2>5. /\ failed.sends = {} /\ failed.overtook = FALSE
        /\ failed.queue = << >> /\ failed.state = page.state /\ failed.pumping = FALSE
        /\ failed.beginDoc = page.beginDoc /\ failed.terminal = page.terminal
    BY <2>2, <1>1 DEF Page
  <2> HIDE DEF failed
  <2>6. CASE page.terminal
    <3>1. PerformCancel(failed, ended) = failed
      BY <2>5, <2>6 DEF PerformCancel
    <3>a. Done(failed, wire \ {r}) /\ failed.overtook = FALSE /\ failed.sends = {}
      BY <3>1, <2>1, <2>5
    <3>2. page' = [failed EXCEPT !.sends = {}] /\ wire' = wire \ {r}
      <4>1. page' = [failed EXCEPT !.sends = {}] /\ wire' = failed.sends \cup (wire \ {r})
        BY <3>a, <2>4, DonePlainly
      <4> QED BY <4>1, <3>a
    <3>3. page' = [page EXCEPT !.queue = << >>, !.failed = TRUE, !.pumping = FALSE]
      BY <3>2, <2>2, <1>1 DEF Page
    <3>4. page.terminal = TRUE
      BY <2>6, <1>1 DEF Page
    <3> QED BY <3>2, <3>3, <3>4, <1>7, AppendFails
  <2>7. CASE ~page.terminal /\ ended = FALSE
    <3> DEFINE c == Request("cancel", page.beginDoc, 0, FALSE)
               p == [failed EXCEPT !.listening = FALSE, !.queue = << >>, !.state = "CANCELLING",
                       !.terminal = TRUE, !.sends = @ \cup {c}]
    <3>1. page.terminal = FALSE
      BY <2>7, <1>1 DEF Page
    <3>2. PerformCancel(failed, ended) = p
      BY <3>1, <2>4, <2>5, <2>7, CancelSends
    <3>3. c \in Requests
      BY <1>2 DEF Request, Requests, Kind
    <3>4. p \in Page /\ p.overtook = FALSE /\ p.sends = {c}
      <4>1. "CANCELLING" \in AttemptState /\ p.overtook = FALSE
        BY <2>4, <2>5 DEF Page, AttemptState
      <4>2. p.sends = {c}
        BY <2>4, <2>5 DEF Page
      <4>3. [failed EXCEPT !.sends = {c}] \in Page
        BY <3>3, <2>4 DEF Page
      <4>4. p \in Page
        BY ZenonT(40), <4>1, <4>3, <2>3, <2>4, <2>5 DEF Page
      <4> QED BY <4>1, <4>2, <4>4
    <3> HIDE DEF p
    <3>5. page' = [p EXCEPT !.sends = {}] /\ wire' = {c} \cup (wire \ {r})
      BY <3>2, <3>4, <2>1, DonePlainly
    <3> USE DEF p
    <3>6. page' = [page EXCEPT !.listening = FALSE, !.queue = << >>, !.state = "CANCELLING",
                       !.terminal = TRUE, !.nested = page.nested, !.failed = TRUE,
                       !.pumping = FALSE]
      BY <3>5, <2>2, <1>1 DEF Page
    <3>7. page.nested \in BOOLEAN /\ \A q \in {r} : q \in wire /\ q.kind = "append" /\ q.at = "back"
      BY <1>1 DEF Page
    <3> QED BY <3>1, <3>5, <3>6, <3>7, <1>2, <1>7, CancelSent
  <2>8. CASE ~page.terminal /\ ended = TRUE
    <3> DEFINE f == Request("finish", page.beginDoc, 0, FALSE)
               c == Request("cancel", page.beginDoc, 0, FALSE)
               p == [failed EXCEPT !.listening = FALSE, !.queue = << >>, !.state = "CANCELLING",
                       !.terminal = TRUE, !.nested = TRUE, !.sends = @ \cup {f} \cup {c}]
    <3>1. page.terminal = FALSE /\ page.state = "CAPTURING"
      BY <2>1, <2>8, <1>1 DEF Page
    <3>2. PerformCancel(failed, ended) = p
      BY <3>1, <2>4, <2>5, <2>8, CancelEnded
    <3>3. c \in Requests /\ f \in Requests
      BY <1>2 DEF Request, Requests, Kind
    <3>4. p \in Page /\ p.overtook = FALSE /\ p.sends = {f, c}
      <4>1. "CANCELLING" \in AttemptState /\ p.overtook = FALSE
        BY <2>4, <2>5 DEF Page, AttemptState
      <4>2. p.sends = {f, c}
        BY <2>4, <2>5 DEF Page
      <4>3. [failed EXCEPT !.sends = {f, c}] \in Page
        BY <3>3, <2>4 DEF Page
      <4>4. p \in Page
        BY ZenonT(40), <4>1, <4>3, <2>3, <2>4, <2>5 DEF Page
      <4> QED BY <4>1, <4>2, <4>4
    <3> HIDE DEF p
    <3>5. page' = [p EXCEPT !.sends = {}] /\ wire' = {f, c} \cup (wire \ {r})
      BY <3>2, <3>4, <2>1, DonePlainly
    <3> USE DEF p
    <3>6. page' = [page EXCEPT !.listening = FALSE, !.queue = << >>, !.state = "CANCELLING",
                       !.terminal = TRUE, !.nested = TRUE, !.failed = TRUE,
                       !.pumping = FALSE]
      BY <3>5, <2>2, <1>1 DEF Page
    <3>7. \A q \in {r} : q \in wire /\ q.kind = "append" /\ q.at = "back"
      OBVIOUS
    <3> HIDE DEF f, c
    <3>8. f = Request("finish", page.beginDoc, 0, FALSE) /\ c = Request("cancel", page.beginDoc, 0, FALSE)
      BY DEF f, c
    <3> QED BY <3>1, <3>5, <3>6, <3>7, <3>8, <1>2, CancelNested
  <2> QED BY <2>6, <2>7, <2>8
<1> QED BY <1>5, <1>6, <1>7

-----------------------------------------------------------------------------
\* What the player does with the attempt.

LEMMA CancelKeeps ==
    ASSUME PageInv, page.state \in {"CAPTURING", "FINISHING"}, ~page.terminal, ~page.hidden,
           NEW ended \in BOOLEAN, ended => page.state = "CAPTURING",
           Done(PerformCancel(page, ended), wire), UNCHANGED <<srv, verdict, lost, faults>>
    PROVE  PageInv'
<1> DEFINE f == Request("finish", page.beginDoc, 0, FALSE)
           c == Request("cancel", page.beginDoc, 0, FALSE)
           one == [page EXCEPT !.listening = FALSE, !.queue = << >>, !.state = "CANCELLING",
                       !.terminal = TRUE, !.sends = @ \cup {c}]
           more == [page EXCEPT !.listening = FALSE, !.queue = << >>, !.state = "CANCELLING",
                       !.terminal = TRUE, !.nested = FALSE, !.sends = @ \cup {c}]
           both == [page EXCEPT !.listening = FALSE, !.queue = << >>, !.state = "CANCELLING",
                       !.terminal = TRUE, !.nested = TRUE, !.sends = @ \cup {f} \cup {c}]
<1>1. /\ page \in Page /\ page.sends = {} /\ page.overtook = FALSE /\ page.terminal = FALSE
      /\ page.beginDoc \in Key
  BY DEF PageInv, Typed, Page, PageOK
<1>2. c \in Requests /\ f \in Requests
  BY <1>1 DEF Request, Requests, Kind
<1>3. << >> \in Seq(Nat) /\ "CANCELLING" \in AttemptState
  BY DEF AttemptState
<1>4. \A q \in {} : q \in wire /\ q.kind = "append" /\ q.at = "back"
  OBVIOUS
<1>5. page.nested \in BOOLEAN /\ page.failed \in BOOLEAN /\ page.pumping \in BOOLEAN
  BY <1>1 DEF Page
<1>6. wire \ {} = wire
  OBVIOUS
<1>7. CASE ended = FALSE
  <2>1. PerformCancel(page, ended) = one
    BY <1>1, <1>7, CancelSends
  <2>2. one \in Page /\ one.overtook = FALSE /\ one.sends = {c}
    <3>1. [page EXCEPT !.sends = {c}] \in Page /\ one.overtook = FALSE /\ one.sends = {c}
      BY <1>1, <1>2 DEF Page
    <3> QED BY ZenonT(40), <3>1, <1>1, <1>3 DEF Page
  <2> HIDE DEF one, c
  <2>3. page' = [one EXCEPT !.sends = {}] /\ wire' = {c} \cup wire
    BY <2>1, <2>2, DonePlainly
  <2> USE DEF one, c
  <2>4. page' = [page EXCEPT !.listening = FALSE, !.queue = << >>, !.state = "CANCELLING",
                       !.terminal = TRUE, !.nested = page.nested, !.failed = page.failed,
                       !.pumping = page.pumping]
    BY <2>3, <1>1 DEF Page
  <2> QED BY <2>3, <2>4, <1>1, <1>4, <1>5, <1>6, CancelSent
<1>8. CASE ended = TRUE /\ page.pumping = TRUE
  <2>1. PerformCancel(page, ended) = more /\ page.state = "CAPTURING"
    BY <1>1, <1>8, CancelEndedWaits
  <2>2. more \in Page /\ more.overtook = FALSE /\ more.sends = {c}
    <3>1. [page EXCEPT !.sends = {c}] \in Page /\ more.overtook = FALSE /\ more.sends = {c}
      BY <1>1, <1>2 DEF Page
    <3> QED BY ZenonT(40), <3>1, <1>1, <1>3 DEF Page
  <2> HIDE DEF more, c
  <2>3. page' = [more EXCEPT !.sends = {}] /\ wire' = {c} \cup wire
    BY <2>1, <2>2, DonePlainly
  <2> USE DEF more, c
  <2>4. page' = [page EXCEPT !.listening = FALSE, !.queue = << >>, !.state = "CANCELLING",
                       !.terminal = TRUE, !.nested = FALSE, !.failed = page.failed,
                       !.pumping = page.pumping]
    BY <2>3, <1>1 DEF Page
  <2>5. FALSE \in BOOLEAN
    OBVIOUS
  <2> QED BY <2>3, <2>4, <2>5, <1>1, <1>4, <1>5, <1>6, CancelSent
<1>9. CASE ended = TRUE /\ page.pumping = FALSE
  <2>1. page.state = "CAPTURING" /\ page.queue = << >> /\ \A q \in wire : ~LiveAppend(q)
    BY <1>9, Resting
  <2>2. PerformCancel(page, ended) = both
    BY <1>1, <1>9, <2>1, CancelEnded
  <2>3. both \in Page /\ both.overtook = FALSE /\ both.sends = {f, c}
    <3>1. [page EXCEPT !.sends = {f, c}] \in Page /\ both.overtook = FALSE /\ both.sends = {f, c}
      BY <1>1, <1>2 DEF Page
    <3> QED BY ZenonT(40), <3>1, <1>1, <1>3 DEF Page
  <2> HIDE DEF both, c, f
  <2>4. page' = [both EXCEPT !.sends = {}] /\ wire' = {f, c} \cup wire
    BY <2>2, <2>3, DonePlainly
  <2>5. page' = [page EXCEPT !.listening = FALSE, !.queue = << >>, !.state = "CANCELLING",
                       !.terminal = TRUE, !.nested = TRUE, !.failed = page.failed,
                       !.pumping = FALSE]
    BY <2>4, <1>1, <1>9 DEF Page, both
  <2>6. f = Request("finish", page.beginDoc, 0, FALSE) /\ c = Request("cancel", page.beginDoc, 0, FALSE)
    BY DEF f, c
  <2> QED BY <2>1, <2>4, <2>5, <2>6, <1>4, <1>5, <1>6, CancelNested
<1> QED BY <1>5, <1>7, <1>8, <1>9

LEMMA PressFinishKeeps == PageInv /\ PressFinish => PageInv'
<1> SUFFICES ASSUME PageInv, PressFinish PROVE PageInv'
  OBVIOUS
<1> DEFINE f == Request("finish", page.beginDoc, 0, FALSE)
           idle == [page EXCEPT !.listening = FALSE, !.state = "FINISHING", !.terminal = TRUE,
                       !.sends = @ \cup {f}]
           waits == [page EXCEPT !.listening = FALSE, !.state = "FINISHING"]
<1>1. /\ page.state = "CAPTURING" /\ ~page.hidden /\ Done(Finish(page), wire)
      /\ UNCHANGED <<srv, verdict, lost, faults>>
  BY DEF PressFinish
<1>2. /\ page \in Page /\ Typed /\ page.sends = {} /\ page.overtook = FALSE
      /\ page.beginDoc \in Key /\ page.terminal = FALSE /\ page.nested = FALSE
      /\ page.pumping \in BOOLEAN
  BY <1>1 DEF PageInv, Typed, Page, PageOK, PressFinish
<1>3. f \in Requests
  BY <1>2 DEF Request, Requests, Kind
<1>4. CASE page.pumping = FALSE
  <2>1. Finish(page) = idle
    BY <1>1, <1>2, <1>4, Resting, FinishIdle
  <2>2. idle \in Page /\ idle.overtook = FALSE /\ idle.sends = {f}
    BY <1>2, <1>3 DEF Page, AttemptState
  <2> HIDE DEF idle, f
  <2>3. page' = [idle EXCEPT !.sends = {}] /\ wire' = {f} \cup wire
    BY <2>1, <2>2, <1>1, DonePlainly
  <2> USE DEF idle, f
  <2>4. page' = [page EXCEPT !.listening = FALSE, !.state = "FINISHING", !.terminal = TRUE]
    BY <2>3, <1>2 DEF Page
  <2> QED BY <2>3, <2>4, <1>1, <1>4, FinishSent
<1>5. CASE page.pumping = TRUE
  <2>1. Finish(page) = waits
    BY <1>1, <1>2, <1>5, FinishWaits
  <2>2. waits \in Page /\ waits.overtook = FALSE /\ waits.sends = {}
    BY <1>2 DEF Page, AttemptState
  <2> HIDE DEF waits
  <2>3. page' = [waits EXCEPT !.sends = {}] /\ wire' = wire
    BY <2>1, <2>2, <1>1, DonePlainly
  <2> USE DEF waits
  <2>4. page' = [page EXCEPT !.listening = FALSE, !.state = "FINISHING", !.nested = FALSE,
                             !.queue = page.queue, !.nextSequence = page.nextSequence]
    BY <2>3, <1>2 DEF Page
  <2>5. Honest
    BY <1>1, <1>2 DEF Honest, FinishMode
  <2>6. /\ page.queue \in Seq(Nat) /\ page.nextSequence \in Nat
        /\ page.nextSequence = page.acked + Len(page.queue) /\ Len(page.queue) <= QueueLimit
        /\ \A i \in 1 .. Len(page.queue) : page.queue[i] = page.acked + i - 1
    BY <2>5, <1>2 DEF PageInv, HonestOK, Typed, Page, PumpOK, Queued
  <2>7. FALSE \in BOOLEAN /\ "FINISHING" \in {"CAPTURING", "FINISHING"}
    OBVIOUS
  <2>8. UNCHANGED wvars
    BY <2>3, <1>1 DEF wvars
  <2> QED BY <2>4, <2>6, <2>7, <2>8, <1>1, <1>5, StillPumping
<1> QED BY <1>2, <1>4, <1>5

LEMMA RetryFinishKeeps == PageInv /\ RetryFinish => PageInv'
<1> SUFFICES ASSUME PageInv, RetryFinish PROVE PageInv'
  OBVIOUS
<1> DEFINE f == Request("finish", page.beginDoc, 0, FALSE)
           again == SubmitFinish([page EXCEPT !.state = "FINISHING"])
<1>1. page \in Page /\ page.sends = {} /\ page.overtook = FALSE /\ page.beginDoc \in Key
  BY DEF PageInv, Typed, Page, RetryFinish
<1>2. f \in Requests
  BY <1>1 DEF Request, Requests, Kind
<1>3. again = [page EXCEPT !.state = "FINISHING", !.terminal = TRUE, !.sends = {f}]
  BY <1>1 DEF SubmitFinish, Ask, Page
<1>5. Done(again, wire)
  BY DEF RetryFinish
<1> HIDE DEF again, f
<1>4. again \in Page /\ again.overtook = FALSE /\ again.sends = {f}
  BY <1>1, <1>2, <1>3 DEF Page, AttemptState
<1>6. page' = [again EXCEPT !.sends = {}] /\ wire' = {f} \cup wire
  <2>1. page' = [again EXCEPT !.sends = {}] /\ wire' = again.sends \cup wire
    BY <1>4, <1>5, DonePlainly
  <2> QED BY <2>1, <1>4
<1>7. page' = [page EXCEPT !.state = "FINISHING", !.terminal = TRUE]
  BY <1>6, <1>3, <1>1 DEF Page
<1> QED BY <1>6, <1>7, FinishAgain DEF RetryFinish, f

LEMMA OnMidiKeeps ==
    ASSUME PageInv, NEW ended \in BOOLEAN, OnMidi(ended)
    PROVE  PageInv'
<1> DEFINE f == Request("finish", page.beginDoc, 0, FALSE)
           a == Request("append", page.beginDoc, page.nextSequence, FALSE)
           p == Playback(page, ended)
           queued == [p EXCEPT !.nextSequence = @ + 1, !.queue = Append(@, p.nextSequence)]
           n == page.nextSequence
<1>1. /\ page.state = "CAPTURING" /\ ~page.hidden
      /\ Done(IF Len(p.queue) >= QueueLimit THEN Cancel(p, FALSE) ELSE Pump(queued), wire)
      /\ UNCHANGED <<srv, verdict, lost, faults>>
  BY DEF OnMidi
<1>2. /\ page \in Page /\ Typed /\ page.sends = {} /\ page.overtook = FALSE
      /\ page.beginDoc \in Key /\ page.beginDoc # None
      /\ page.terminal = FALSE /\ page.nested = FALSE
      /\ page.pumping \in BOOLEAN /\ page.failed \in BOOLEAN
      /\ n \in Nat /\ n + 1 \in Nat /\ page.queue \in Seq(Nat) /\ page.acked \in Nat
      /\ Len(page.queue) \in Nat
  BY <1>1 DEF PageInv, Typed, Page, PageOK
<1>3. f \in Requests /\ a \in Requests
  BY <1>2 DEF Request, Requests, Kind
<1>4. 0 < QueueLimit /\ QueueLimit \in Nat
  BY PageConstants
<1>5. ASSUME page.pumping = FALSE, ended = FALSE PROVE PageInv'
  <2> DEFINE q == [page EXCEPT !.nextSequence = n + 1, !.queue = <<n>>]
             s == [page EXCEPT !.nextSequence = n + 1, !.queue = <<n>>, !.pumping = TRUE,
                               !.sends = {a}]
  <2>1. p = page /\ page.queue = << >>
    BY <1>1, <1>5, Resting DEF Playback
  <2>2. queued = q /\ <<n>> \in Seq(Nat) /\ <<n>> # << >> /\ Head(<<n>>) = n
    BY <2>1, <1>2
  <2>3. Pump(q) = s
    <3>1. /\ q.pumping = FALSE /\ q.state = "CAPTURING" /\ q.queue = <<n>>
          /\ q.beginDoc = page.beginDoc
      BY <1>1, <1>2, <1>5 DEF Page
    <3>2. [Ask(q, "append", page.beginDoc, n) EXCEPT !.pumping = TRUE] = s
      BY <1>2 DEF Ask, Page
    <3> HIDE DEF q, s
    <3> QED BY <3>1, <3>2, <2>2 DEF Pump, RunPump
  <2>4. Done(Pump(q), wire)
    <3>1. Len(p.queue) = 0
      BY <2>1
    <3>2. ~(Len(p.queue) >= QueueLimit)
      BY <3>1, <1>4
    <3> HIDE DEF p, queued, q
    <3> QED BY <3>2, <2>2, <1>1
  <2>5. s \in Page /\ s.overtook = FALSE /\ s.sends = {a}
    BY <2>2, <1>2, <1>3 DEF Page
  <2> HIDE DEF s, a, q
  <2>6. page' = [s EXCEPT !.sends = {}] /\ wire' = {a} \cup wire
    BY <2>3, <2>4, <2>5, DonePlainly
  <2>7. page' = [page EXCEPT !.nextSequence = @ + 1, !.queue = <<page.nextSequence>>,
                             !.pumping = TRUE]
    BY <2>6, <1>2 DEF s, Page
  <2> QED BY <2>6, <2>7, <1>1, <1>5, MessageSent DEF a
<1>6. ASSUME page.pumping = FALSE, ended = TRUE PROVE PageInv'
  <2> DEFINE z == [page EXCEPT !.listening = FALSE, !.state = "FINISHING", !.terminal = TRUE,
                       !.sends = @ \cup {f}]
             y == [page EXCEPT !.listening = FALSE, !.state = "FINISHING", !.terminal = TRUE,
                       !.nested = TRUE, !.sends = {f}]
             q == [page EXCEPT !.listening = FALSE, !.state = "FINISHING", !.terminal = TRUE,
                       !.nested = TRUE, !.sends = {f}, !.nextSequence = n + 1, !.queue = <<n>>]
             s == [page EXCEPT !.listening = FALSE, !.state = "FINISHING", !.terminal = TRUE,
                       !.nested = TRUE, !.sends = {f, a}, !.nextSequence = n + 1,
                       !.queue = <<n>>, !.pumping = TRUE]
  <2>1. page.queue = << >> /\ Finish(page) = z
    BY <1>1, <1>2, <1>6, Resting, FinishIdle
  <2>2. p = y
    BY <2>1, <1>2, <1>6 DEF Playback, Page
  <2>a. p.queue = << >> /\ p.nextSequence = n
    BY <2>1, <2>2, <1>2 DEF Page
  <2>b. queued = q
    <3>1. queued = [y EXCEPT !.nextSequence = n + 1, !.queue = Append(<< >>, n)]
      BY <2>1, <2>2, <1>2 DEF Page
    <3>2. Append(<< >>, n) = <<n>>
      OBVIOUS
    <3> HIDE DEF queued
    <3> QED BY <3>1, <3>2, <1>2 DEF Page
  <2>3. <<n>> \in Seq(Nat) /\ <<n>> # << >> /\ Head(<<n>>) = n /\ Len(p.queue) = 0
    BY <2>a, <1>2
  <2>4. Pump(q) = s
    <3>1. /\ q.pumping = FALSE /\ q.state = "FINISHING" /\ q.queue = <<n>>
          /\ q.beginDoc = page.beginDoc
      BY <1>2, <1>6 DEF Page
    <3>2. [Ask(q, "append", page.beginDoc, n) EXCEPT !.pumping = TRUE] = s
      BY ZenonT(60), <1>2 DEF Ask, Page
    <3> HIDE DEF q, s
    <3> QED BY <3>1, <3>2, <2>3 DEF Pump, RunPump
  <2>5. Done(Pump(q), wire)
    <3>1. ~(Len(p.queue) >= QueueLimit)
      BY <2>3, <1>4
    <3> HIDE DEF p, queued, q
    <3> QED BY <3>1, <2>b, <1>1
  <2>6. s \in Page /\ s.overtook = FALSE /\ s.sends = {f, a}
    <3>1. [page EXCEPT !.sends = {f, a}, !.nextSequence = n + 1, !.queue = <<n>>] \in Page
          /\ s.overtook = FALSE /\ s.sends = {f, a}
      BY <2>3, <1>2, <1>3 DEF Page
    <3>2. "FINISHING" \in AttemptState
      BY DEF AttemptState
    <3> QED BY ZenonT(40), <3>1, <3>2, <1>2 DEF Page
  <2> HIDE DEF s, a, q, f
  <2>7. page' = [s EXCEPT !.sends = {}] /\ wire' = {f, a} \cup wire
    BY <2>4, <2>5, <2>6, DonePlainly
  <2>8. page' = [page EXCEPT !.listening = FALSE, !.state = "FINISHING", !.terminal = TRUE,
                             !.nested = TRUE, !.nextSequence = @ + 1,
                             !.queue = <<page.nextSequence>>, !.pumping = TRUE]
    BY <2>7, <1>2 DEF s, Page
  <2>9. f = Request("finish", page.beginDoc, 0, FALSE)
        /\ a = Request("append", page.beginDoc, page.nextSequence, FALSE)
    BY DEF f, a
  <2> QED BY <2>7, <2>8, <2>9, <1>1, <1>6, MessageNested
<1>7. ASSUME page.pumping = TRUE PROVE PageInv'
  <2> DEFINE w == [page EXCEPT !.listening = FALSE, !.state = "FINISHING", !.nested = FALSE]
  <2>1. CASE ended = FALSE /\ Len(page.queue) >= QueueLimit
    <3>1. Done(PerformCancel(page, FALSE), wire)
      BY <2>1, <1>1, <1>2 DEF Playback, Cancel
    <3>2. FALSE \in BOOLEAN
      OBVIOUS
    <3> QED BY <3>1, <3>2, <1>1, <1>2, CancelKeeps
  <2>2. p = IF ended THEN w ELSE page
    <3>1. CASE ended = TRUE
      <4>1. Finish(page) = [page EXCEPT !.listening = FALSE, !.state = "FINISHING"]
        BY <1>1, <1>2, <1>7, FinishWaits
      <4> QED BY <4>1, <3>1, <1>2 DEF Playback, Page
    <3>2. CASE ended = FALSE
      BY <3>2 DEF Playback
    <3> QED BY <3>1, <3>2
  <2>3. CASE ended = TRUE /\ Len(page.queue) >= QueueLimit
    <3> DEFINE c == Request("cancel", page.beginDoc, 0, FALSE)
               s == [w EXCEPT !.listening = FALSE, !.queue = << >>, !.state = "CANCELLING",
                              !.terminal = TRUE, !.sends = @ \cup {c}]
               t == [page EXCEPT !.listening = FALSE, !.queue = << >>, !.state = "CANCELLING",
                              !.terminal = TRUE, !.nested = FALSE, !.sends = {c}]
    <3>1. w \in Page /\ w.terminal = FALSE /\ w.beginDoc = page.beginDoc /\ w.state = "FINISHING"
          /\ w.queue = page.queue
      BY <1>2 DEF Page, AttemptState
    <3>2. PerformCancel(w, FALSE) = s
      <4> HIDE DEF w
      <4> QED BY <3>1, CancelSends
    <3>3. Cancel(w, FALSE) = s
      BY <3>1, <3>2, <1>2 DEF Cancel
    <3>4. s = t
      BY <1>2 DEF Page
    <3>5. Done(t, wire)
      <4> HIDE DEF t, s, w, p, queued
      <4> QED BY <3>1, <3>3, <3>4, <2>2, <2>3, <1>1
    <3>6. c \in Requests
      BY <1>2 DEF Request, Requests, Kind
    <3>7. t \in Page /\ t.overtook = FALSE /\ t.sends = {c}
      <4>1. [page EXCEPT !.sends = {c}] \in Page /\ t.overtook = FALSE /\ t.sends = {c}
        BY <1>2, <3>6 DEF Page
      <4>2. << >> \in Seq(Nat) /\ "CANCELLING" \in AttemptState
        BY DEF AttemptState
      <4> QED BY ZenonT(40), <4>1, <4>2, <1>2 DEF Page
    <3> HIDE DEF t, c
    <3>8. page' = [t EXCEPT !.sends = {}] /\ wire' = {c} \cup wire
      BY <3>5, <3>7, DonePlainly
    <3>9. page' = [page EXCEPT !.listening = FALSE, !.queue = << >>, !.state = "CANCELLING",
                         !.terminal = TRUE, !.nested = FALSE, !.failed = page.failed,
                         !.pumping = page.pumping]
      BY <3>8, <1>2 DEF t, Page
    <3>10. wire \ {} = wire /\ FALSE \in BOOLEAN
           /\ \A q \in {} : q \in wire /\ q.kind = "append" /\ q.at = "back"
      OBVIOUS
    <3> QED BY <3>8, <3>9, <3>10, <1>1, <1>2, CancelSent DEF c
  <2>4. CASE ~(Len(page.queue) >= QueueLimit)
    <3> DEFINE q2 == Append(page.queue, n)
               l == IF ended THEN FALSE ELSE page.listening
               s == IF ended THEN "FINISHING" ELSE "CAPTURING"
               t == [page EXCEPT !.listening = l, !.state = s, !.nested = FALSE,
                                 !.queue = q2, !.nextSequence = n + 1]
    <3>1. /\ l \in BOOLEAN /\ s \in {"CAPTURING", "FINISHING"} /\ s \in AttemptState
      BY <1>2 DEF Page, AttemptState
    <3>2. /\ q2 \in Seq(Nat) /\ q2 # << >> /\ Len(q2) = Len(page.queue) + 1
          /\ Len(q2) <= QueueLimit
      BY <2>4, <1>2, <1>4
    <3>3. n = page.acked + Len(page.queue)
      BY <1>1, <1>2 DEF PageInv, HonestOK, Honest, FinishMode
    <3>4. \A i \in 1 .. Len(q2) : q2[i] = page.acked + i - 1
      <4> SUFFICES ASSUME NEW i \in 1 .. Len(q2) PROVE q2[i] = page.acked + i - 1
        OBVIOUS
      <4>1. CASE i \in 1 .. Len(page.queue)
        <5>1. q2[i] = page.queue[i]
          BY <4>1, <1>2
        <5> QED BY <5>1, <4>1 DEF PageInv, PumpOK, Queued
      <4>2. CASE i = Len(page.queue) + 1
        <5>1. q2[i] = n
          BY <4>2, <1>2
        <5> QED BY <5>1, <4>2, <3>3, <1>2
      <4> QED BY <4>1, <4>2, <3>2, <1>2
    <3>5. p.queue = page.queue /\ p.pumping = TRUE /\ queued = t
      <4>1. CASE ended = TRUE
        BY ZenonT(60), <4>1, <2>2, <1>2, <1>7 DEF Page
      <4>2. CASE ended = FALSE
        BY <4>2, <2>2, <1>1, <1>2, <1>7 DEF Page
      <4> QED BY <4>1, <4>2
    <3>6. t \in Page /\ t.overtook = FALSE /\ t.sends = {} /\ t.pumping = TRUE
      <4> HIDE DEF l, s, q2
      <4> QED BY <3>1, <3>2, <1>2, <1>7 DEF Page
    <3>7. Done(t, wire)
      <4> HIDE DEF t, p, queued
      <4> QED BY <3>5, <3>6, <2>4, <1>1 DEF Pump
    <3> HIDE DEF t
    <3>8. page' = [t EXCEPT !.sends = {}] /\ wire' = wire
      BY <3>6, <3>7, DonePlainly
    <3>9. page' = [page EXCEPT !.listening = l, !.state = s, !.nested = FALSE,
                               !.queue = q2, !.nextSequence = n + 1]
      BY <3>8, <1>2 DEF t, Page
    <3>10. n + 1 = page.acked + Len(q2) /\ UNCHANGED wvars
      BY <3>2, <3>3, <3>8, <1>1, <1>2 DEF wvars
    <3> HIDE DEF q2, l, s
    <3> QED BY <3>1, <3>2, <3>4, <3>9, <3>10, <1>1, <1>2, <1>7, StillPumping
  <2> QED BY <2>1, <2>3, <2>4
<1> QED BY <1>2, <1>5, <1>6, <1>7

-----------------------------------------------------------------------------
\* The answers to a finish and to a cancel.

\* What the page makes of it: the state, what is left to ask, what it shows.
Settled(r, s, u, fb) ==
    \/ s = "REJECTED" /\ u = None /\ fb = None
    \/ s = "UNCONFIRMED" /\ u = r.kind /\ fb = None
    \/ /\ r.answer.status = s
       /\ s = (IF r.kind = "finish" THEN "EVALUATED" ELSE "INTERRUPTED")
       /\ u = None /\ fb = [status |-> s, key |-> r.key, count |-> r.answer.count]

LEMMA EndBack ==
    ASSUME PageInv, NEW r \in wire, r.kind \in {"finish", "cancel"}, r.at = "back"
    PROVE  /\ r.live /\ ~r.quiet /\ r.key = page.beginDoc /\ ~page.hidden
           /\ page.beginDoc \in Key /\ page.beginDoc # None /\ page.terminal = TRUE
           /\ srv[page.beginDoc].phase \notin {"preparing", "capturing"} \/ page.beginDoc \in lost
           /\ r.answer \in [status : Status, count : Nat]
           /\ ~page.nested => /\ \A q \in wire \ {r} : ~Ending(q)
                              /\ r.kind = "finish" => Honest
<1>1. Shape(r) /\ Told(r) /\ r \in Requests /\ page \in Page
  BY DEF PageInv, ShapesOK, AnswersOK, Typed, WireTypeOK, Requests
<1>2. r.live /\ ~r.quiet /\ r.key = page.beginDoc /\ ~page.hidden /\ page.terminal
  BY <1>1 DEF Shape, CaptureKind
<1>3. page.beginDoc \in Key /\ page.beginDoc # None /\ page.terminal = TRUE
  BY <1>1, <1>2, WireConstants DEF Requests, Page
<1>4. srv[page.beginDoc].phase \notin {"preparing", "capturing"} \/ page.beginDoc \in lost
  BY <1>1, <1>2 DEF Told, Openable
<1>5. r.answer \in [status : Status, count : Nat]
  BY <1>1 DEF Shape, Requests
<1>6. ASSUME ~page.nested
      PROVE  (\A q \in wire \ {r} : ~Ending(q)) /\ (r.kind = "finish" => Honest)
  <2>1. Ending(r)
    BY <1>2 DEF Ending
  <2>2. \A q \in wire : Ending(q) => q = r
    BY <2>1, <1>6 DEF PageInv, HonestOK
  <2>3. r.kind = "finish" => page.state = "FINISHING"
    BY <2>1, <1>6 DEF PageInv, HonestOK
  <2> QED BY <2>2, <2>3, <1>6 DEF Honest, FinishMode
<1> QED BY <1>2, <1>3, <1>4, <1>5, <1>6

LEMMA EndAnswered ==
    ASSUME PageInv, NEW r \in wire, r.kind \in {"finish", "cancel"}, r.at = "back",
           NEW s, NEW u, NEW fb, Settled(r, s, u, fb),
           page' = [page EXCEPT !.unconfirmedKind = u, !.feedback = fb, !.state = s],
           wire' = wire \ {r}, UNCHANGED <<srv, verdict, lost, faults>>
    PROVE  PageInv'
<1> DEFINE k == page.beginDoc
<1>1. /\ r.live /\ ~r.quiet /\ r.key = k /\ ~page.hidden
      /\ k \in Key /\ k # None /\ page.terminal = TRUE
      /\ srv[k].phase \notin {"preparing", "capturing"} \/ k \in lost
      /\ r.answer \in [status : Status, count : Nat]
      /\ ~page.nested => (\A q \in wire \ {r} : ~Ending(q)) /\ (r.kind = "finish" => Honest)
  BY EndBack
<1>2. page \in Page /\ Typed
  BY DEF PageInv, Typed
<1>3. /\ s \in AttemptState \ Active /\ s # "FINISHING" /\ s # "CAPTURING" /\ s # "CANCELLING"
      /\ s # "STARTING"
      /\ u \in {"finish", "cancel", None} /\ u # "begin"
      /\ u = "finish" \/ s = "EVALUATED" => r.kind = "finish"
      /\ fb \in [status : Status, key : Key, count : Nat] \cup {None}
  BY <1>1, WireConstants DEF Settled, AttemptState, Active, Status, Kind
<1>0. /\ page'.state = s /\ page'.beginDoc = k /\ page'.pendingBegin = page.pendingBegin
      /\ page'.keys = page.keys /\ page'.unconfirmedKind = u /\ page'.feedback = fb
      /\ page'.resolving = page.resolving /\ page'.hidden = page.hidden
      /\ page'.terminal = TRUE /\ page'.nested = page.nested /\ page'.failed = page.failed
      /\ page'.acked = page.acked /\ page'.queue = page.queue /\ page'.pumping = page.pumping
      /\ page'.nextSequence = page.nextSequence /\ page'.sends = {} /\ page'.overtook = FALSE
  BY <1>1, <1>2 DEF Page, Typed
<1>4. page' \in Page
  BY <1>2, <1>3 DEF Page
<1>5. Working({}, {r})
  BY <1>0, <1>1, <1>3 DEF Working, Asks, CaptureKind
<1>6. /\ ServerOK' /\ ShapesOK' /\ AnswersOK' /\ StartsOK' /\ RecoveriesOK' /\ HeldOK'
      /\ WireTypeOK'
  BY <1>1, <1>5, WorkingKeeps
<1>7. PumpOK' /\ CountsOK' /\ SinglesOK'
  <2>1. ASSUME NEW q \in wire, LiveAppend(q), page.queue = << >>
        PROVE  ~FinishMode' /\ page'.terminal /\ \A x \in wire' : ~LiveFinish(x)
    <3>1. \A x \in wire : ~LiveFinish(x)
      BY <2>1 DEF PageInv, PumpOK, Pumped
    <3>2. r.kind # "finish"
      BY <3>1, <1>1 DEF LiveFinish
    <3> QED BY <3>1, <3>2, <1>0, <1>3 DEF FinishMode
  <2>2. PumpRests({}, {r})
    BY <2>1, <1>0, <1>3 DEF PumpRests
  <2> QED BY <2>2, <1>5, WorkingPump
<1>8. Typed'
  BY <1>0, <1>2, <1>4, <1>6 DEF Typed
<1>9. PageOK'
  BY <1>0, <1>3, <1>5, WorkingPage
<1>10. ~page.nested /\ r.kind = "finish" =>
         /\ page.failed = FALSE /\ page.nextSequence = page.acked /\ Len(page.queue) = 0
         /\ page.queue = << >> /\ page.pumping = FALSE
         /\ (\A j \in Key : Complete(j))
  <2> SUFFICES ASSUME Honest
               PROVE  /\ page.failed = FALSE /\ page.nextSequence = page.acked
                      /\ Len(page.queue) = 0
                      /\ page.queue = << >> /\ page.pumping = FALSE
                      /\ (\A j \in Key : Complete(j))
    BY <1>1
  <2>1. /\ page.failed = FALSE /\ page.nextSequence = page.acked + Len(page.queue)
        /\ page.queue = << >> /\ page.pumping = FALSE /\ (\A j \in Key : Complete(j))
    BY <1>1, <1>2 DEF PageInv, HonestOK, Page
  <2>2. Len(page.queue) = 0 /\ page.acked \in Nat
    BY <2>1, <1>2 DEF Page
  <2> QED BY <2>1, <2>2
<1>11. HonestOK'
  <2>1. \A x, y \in wire' : ~page.nested => ~Ending(x)
    BY <1>1
  <2>2. Honest' => ~page.nested /\ r.kind = "finish"
    BY <1>0, <1>3 DEF Honest, FinishMode
  <2>3. ASSUME Honest', NEW j \in Key PROVE Complete(j)'
    <3>1. Complete(j)
      BY <2>2, <2>3, <1>10
    <3> QED BY <3>1, <1>0, <1>1 DEF Complete
  <2>4. Honest' =>
          /\ ~page'.failed /\ page'.nextSequence = page'.acked + Len(page'.queue)
          /\ page'.beginDoc # None /\ page'.queue = << >> /\ ~page'.pumping
          /\ page'.terminal
    BY <2>2, <1>0, <1>1, <1>2, <1>10 DEF Page
  <2> QED BY <2>1, <2>3, <2>4, <1>0 DEF HonestOK
<1>12. ShownOK'
  <2> SUFFICES ASSUME s \in {"EVALUATED", "INTERRUPTED"} PROVE ShownOK'
    BY <1>0 DEF ShownOK, OutcomeShownIsTrue, EvaluatedIsComplete
  <2>1. /\ r.answer.status = s /\ fb = [status |-> s, key |-> k, count |-> r.answer.count]
        /\ s = (IF r.kind = "finish" THEN "EVALUATED" ELSE "INTERRUPTED")
    BY <1>1 DEF Settled
  <2>2. fb.status = s /\ fb.key = k /\ fb.count = r.answer.count
        /\ fb \in [status : Status, key : Key, count : Nat]
    BY <2>1, <1>1 DEF Status
  <2>3. verdict[k] = r.answer
    BY <2>1, <1>1 DEF PageInv, AnswersOK, Told
  <2>4. r.answer = Answer(fb.status, fb.count) /\ r.answer # None
    BY <2>1, <2>2, <1>1, WireConstants DEF Answer
  <2>5. verdict[k].count >= page.acked
    BY <2>3, <2>4, <1>1 DEF PageInv, CountsOK, Counted
  <2>6. OutcomeShownIsTrue'
    BY <2>2, <2>3, <2>4, <1>0 DEF OutcomeShownIsTrue
  <2>7. s = "EVALUATED" => /\ fb.count >= page.acked /\ (page.failed => page.nested)
                           /\ ~page.nested => fb.count = page.nextSequence
    <3> SUFFICES ASSUME s = "EVALUATED", ~page.nested
                 PROVE  ~page.failed /\ fb.count = page.nextSequence
      BY <2>2, <2>3, <2>5
    <3>1. r.kind = "finish"
      BY <2>1
    <3>2. page.failed = FALSE /\ page.nextSequence = page.acked /\ Complete(k)
      BY <3>1, <1>1, <1>10
    <3> QED BY <3>2, <2>2, <2>3, <2>4 DEF Complete
  <2>8. EvaluatedIsComplete'
    BY <2>7, <1>0 DEF EvaluatedIsComplete
  <2> QED BY <2>2, <2>6, <2>8, <1>0 DEF ShownOK
<1> QED BY <1>6, <1>7, <1>8, <1>9, <1>11, <1>12 DEF PageInv

LEMMA EndAnsweredKeeps ==
    ASSUME PageInv, NEW r \in wire, r.at = "back",
           \/ r.kind = "finish" /\ FinishAnswered(r)
           \/ r.kind = "cancel" /\ CancelAnswered(r),
           UNCHANGED <<srv, verdict, lost, faults>>
    PROVE  PageInv'
<1>1. page \in Page /\ page.sends = {} /\ page.overtook = FALSE
  BY DEF PageInv, Typed
<1>2. Alive(r) /\ r.key \in Key /\ r.answer \in [status : Status, count : Nat]
  BY EndBack DEF Alive
<1>3. \E s, u, fb :
        /\ Settled(r, s, u, fb)
        /\ Done([page EXCEPT !.unconfirmedKind = u, !.feedback = fb, !.state = s], wire \ {r})
  <2>1. CASE IsRejection(r)
    <3>1. Done(Settle(page, "REJECTED", None), wire \ {r})
      BY <2>1, <1>2 DEF FinishAnswered, CancelAnswered
    <3>2. Settled(r, "REJECTED", None, None)
      BY DEF Settled
    <3> QED BY <3>1, <3>2 DEF Settle
  <2>2. CASE r.kind = "finish" /\ ~IsRejection(r) /\ AcceptEvaluated(page, r)
    <3> DEFINE fb == [status |-> "EVALUATED", key |-> r.key, count |-> r.answer.count]
    <3>1. Done(Show([page EXCEPT !.unconfirmedKind = None, !.state = "EVALUATED"],
                   "EVALUATED", r.key, r.answer.count), wire \ {r})
      BY <2>2, <1>2 DEF FinishAnswered
    <3>2. Settled(r, "EVALUATED", None, fb)
      BY <2>2 DEF Settled, AcceptEvaluated
    <3>3. Show([page EXCEPT !.unconfirmedKind = None, !.state = "EVALUATED"],
                   "EVALUATED", r.key, r.answer.count)
            = [page EXCEPT !.unconfirmedKind = None, !.feedback = fb, !.state = "EVALUATED"]
      BY <1>1 DEF Show, Page
    <3>4. Done([page EXCEPT !.unconfirmedKind = None, !.feedback = fb, !.state = "EVALUATED"],
               wire \ {r})
      BY <3>1, <3>3
    <3> HIDE DEF fb
    <3> QED BY <3>2, <3>4
  <2>3. CASE r.kind = "cancel" /\ ~IsRejection(r) /\ AcceptInterrupted(page, r)
    <3> DEFINE fb == [status |-> "INTERRUPTED", key |-> r.key, count |-> r.answer.count]
    <3>1. Done(Show([page EXCEPT !.unconfirmedKind = None, !.state = "INTERRUPTED"],
                   "INTERRUPTED", r.key, r.answer.count), wire \ {r})
      BY <2>3, <1>2 DEF CancelAnswered
    <3>2. Settled(r, "INTERRUPTED", None, fb)
      BY <2>3 DEF Settled, AcceptInterrupted
    <3>3. Show([page EXCEPT !.unconfirmedKind = None, !.state = "INTERRUPTED"],
                   "INTERRUPTED", r.key, r.answer.count)
            = [page EXCEPT !.unconfirmedKind = None, !.feedback = fb, !.state = "INTERRUPTED"]
      BY <1>1 DEF Show, Page
    <3>4. Done([page EXCEPT !.unconfirmedKind = None, !.feedback = fb, !.state = "INTERRUPTED"],
               wire \ {r})
      BY <3>1, <3>3
    <3> HIDE DEF fb
    <3> QED BY <3>2, <3>4
  <2>4. CASE /\ ~IsRejection(r) /\ (r.kind = "finish" => ~AcceptEvaluated(page, r))
             /\ r.kind = "cancel" => ~AcceptInterrupted(page, r)
    <3>1. Done(Settle(page, "UNCONFIRMED", r.kind), wire \ {r})
      BY <2>4, <1>2 DEF FinishAnswered, CancelAnswered
    <3>2. Settled(r, "UNCONFIRMED", r.kind, None)
      BY DEF Settled
    <3> QED BY <3>1, <3>2 DEF Settle
  <2> QED BY <2>1, <2>2, <2>3, <2>4
<1>4. PICK s, u, fb :
        /\ Settled(r, s, u, fb)
        /\ Done([page EXCEPT !.unconfirmedKind = u, !.feedback = fb, !.state = s], wire \ {r})
  BY <1>3
<1> DEFINE p == [page EXCEPT !.unconfirmedKind = u, !.feedback = fb, !.state = s]
<1>5. /\ s \in AttemptState /\ u \in {"finish", "cancel", None}
      /\ fb \in [status : Status, key : Key, count : Nat] \cup {None}
  BY <1>4, <1>2 DEF Settled, AttemptState, Status
<1>6. p \in Page /\ p.overtook = FALSE /\ p.sends = {}
  BY <1>1, <1>5 DEF Page
<1>7. Done(p, wire \ {r})
  BY <1>4
<1> HIDE DEF p
<1>8. page' = [p EXCEPT !.sends = {}] /\ wire' = wire \ {r}
  <2>1. page' = [p EXCEPT !.sends = {}] /\ wire' = p.sends \cup (wire \ {r})
    BY <1>6, <1>7, DonePlainly
  <2> QED BY <2>1, <1>6
<1>9. page' = [page EXCEPT !.unconfirmedKind = u, !.feedback = fb, !.state = s]
  BY <1>8, <1>1 DEF p, Page
<1> QED BY <1>4, <1>8, <1>9, EndAnswered

-----------------------------------------------------------------------------
\* A new generation: the page has no attempt any more, and what is under way is
\* outdated.
Carried == {Outdated(r) : r \in {q \in wire : q.at # "back" \/
                                   q.kind \in {"begin", "resolve", "mount"}}}

\* What the page sends then: a begin with a new key, or a quiet goodbye.
Goes(x) ==
    /\ x \in Requests /\ x.at = "way" /\ x.answer = None
    /\ \/ x.kind = "resolve" /\ x.quiet /\ ~x.live /\ x.key = page.pendingBegin
       \/ x.kind = "cancel" /\ x.quiet /\ ~x.live /\ x.key = page.beginDoc
       \/ /\ x.kind = "begin" /\ ~x.quiet /\ x.live /\ x.key = page.keys + 1
          /\ page'.keys = x.key /\ page'.pendingBegin = x.key /\ page'.state = "STARTING"
          /\ ~page'.hidden

Over(S) ==
    /\ wire' = S \cup Carried /\ UNCHANGED <<srv, verdict, lost, faults>>
    /\ \A x \in S : Goes(x) /\ \A y \in S : x = y
    /\ page' \in Page /\ page'.sends = {} /\ page'.overtook = FALSE
    /\ page'.beginDoc = None /\ page'.queue = << >> /\ ~page'.pumping /\ ~page'.terminal
    /\ page'.unconfirmedKind = None /\ page'.resolving = page.resolving
    /\ page'.acked <= page'.nextSequence
    /\ \/ page'.state = "IDLE" /\ page'.keys = page.keys
          /\ page'.pendingBegin \in {page.pendingBegin, None}
       \/ /\ page'.state = "STARTING" /\ page'.keys = page.keys + 1
          /\ page'.keys \in Key /\ page'.pendingBegin = page'.keys
          /\ ~page'.nested /\ ~page'.failed /\ page'.nextSequence = 0 /\ page'.acked = 0
          /\ page.pendingBegin = None
    /\ page.beginDoc # None /\ page.state \in Active =>
          \E x \in S : x.kind = "cancel" /\ x.key = page.beginDoc
    /\ page.pendingBegin # None /\ page'.pendingBegin = None =>
          \E x \in S : x.kind = "resolve" /\ x.key = page.pendingBegin

\* An outdated request is the same but for the page's interest in it.
LEMMA CarriedFrom ==
    ASSUME PageInv, NEW x \in Carried
    PROVE  \E r \in wire :
              /\ x = Outdated(r) /\ x \in Requests
              /\ x.kind = r.kind /\ x.key = r.key /\ x.seq = r.seq /\ x.at = r.at
              /\ x.answer = r.answer /\ x.live = FALSE
              /\ x.quiet <=> r.quiet \/ r.kind \in CaptureKind
              /\ r.kind \in CaptureKind => r.at # "back"
<1>1. PICK r \in wire : /\ x = Outdated(r)
                        /\ r.at # "back" \/ r.kind \in {"begin", "resolve", "mount"}
  BY DEF Carried
<1>2. r \in Requests
  BY DEF PageInv, Typed, WireTypeOK, Requests
<1>3. x = [r EXCEPT !.live = FALSE, !.quiet = r.quiet \/ r.kind \in CaptureKind]
  BY <1>1 DEF Outdated, CaptureKind
<1> DEFINE b == r.quiet \/ r.kind \in CaptureKind
<1>4. b \in BOOLEAN
  BY <1>2 DEF Requests
<1>5. (x.quiet <=> b) /\ x.live = FALSE
  BY <1>2, <1>3 DEF Requests
<1>6. /\ x.kind = r.kind /\ x.key = r.key /\ x.seq = r.seq /\ x.at = r.at
      /\ x.answer = r.answer
  BY <1>2, <1>3 DEF Requests
<1>7. x \in Requests
  <2>1. x = [r EXCEPT !.live = FALSE, !.quiet = b]
    BY <1>3
  <2> HIDE DEF b
  <2> QED BY <2>1, <1>2, <1>4 DEF Requests
<1> QED BY <1>1, <1>5, <1>6, <1>7 DEF CaptureKind

LEMMA CarriedAlong ==
    ASSUME PageInv, NEW r \in wire, r.at # "back" \/ r.kind \in {"resolve", "mount"}
    PROVE  \E x \in Carried : x.kind = r.kind /\ x.key = r.key /\ x.at = r.at
<1>1. Outdated(r) \in Carried
  BY DEF Carried
<1>2. r \in Requests
  BY DEF PageInv, Typed, WireTypeOK, Requests
<1>3. Outdated(r).kind = r.kind /\ Outdated(r).key = r.key /\ Outdated(r).at = r.at
  BY <1>2 DEF Outdated, Requests
<1> QED BY <1>1, <1>3

\* A key the page has not made up yet: nobody knows of it.
LEMMA FreshKey ==
    ASSUME PageInv, NEW k \in Key, k = page.keys + 1
    PROVE  /\ srv[k].phase = "unknown" /\ srv[k].count = 0 /\ verdict[k] = None
           /\ (\A r \in wire : r.key # k) /\ page.pendingBegin # k /\ page.beginDoc # k
<1>1. page.keys \in Nat /\ ~(k <= page.keys)
  BY DEF PageInv, Typed, Page
<1>2. KeyOK(k)
  BY DEF PageInv, ServerOK
<1>3. srv[k].phase = "unknown" /\ srv[k].count = 0 /\ verdict[k] = None
  BY <1>1, <1>2 DEF KeyOK, Early, Closed
<1>4. \A r \in wire : r.key # k
  BY <1>1 DEF PageInv, ShapesOK, Shape
<1> QED BY <1>1, <1>3, <1>4, WireConstants DEF PageInv, PageOK

LEMMA OverKeeps ==
    ASSUME PageInv, NEW S, Over(S)
    PROVE  PageInv'
<1>1. page \in Page /\ Typed /\ page.keys \in Nat /\ Key \subseteq Nat
  BY KeysAreNumbers DEF PageInv, Typed, Page
<1>2. /\ wire' = S \cup Carried /\ srv' = srv /\ verdict' = verdict /\ lost' = lost
      /\ faults' = faults /\ page'.beginDoc = None
  BY DEF Over
<1>c. \A y \in Carried : \E r \in wire : y.kind = r.kind /\ y.key = r.key /\ y.at = r.at
  BY CarriedFrom
<1>3. \A x \in S : Goes(x) /\ \A y \in S : x = y
  BY DEF Over
<1>4. page'.keys \in {page.keys, page.keys + 1}
  BY DEF Over
<1>5. \A k \in Key : k # None /\ (k <= page.keys => k <= page'.keys)
  BY <1>1, <1>4, WireConstants
<1>6. ASSUME NEW x \in S, x.kind = "begin"
      PROVE  /\ x.key \in Key /\ x.key = page.keys + 1 /\ page'.keys = x.key
             /\ page'.pendingBegin = x.key /\ page'.state = "STARTING" /\ ~page'.hidden
             /\ ~x.quiet /\ x.live
             /\ srv[x.key].phase = "unknown" /\ srv[x.key].count = 0 /\ verdict[x.key] = None
             /\ (\A r \in wire : r.key # x.key) /\ (\A r \in Carried : r.key # x.key)
  <2>1. /\ x.key \in Key /\ x.key = page.keys + 1 /\ page'.keys = x.key
        /\ page'.pendingBegin = x.key /\ page'.state = "STARTING" /\ ~page'.hidden
        /\ ~x.quiet /\ x.live
    BY <1>3, <1>6 DEF Goes, Requests
  <2>2. /\ srv[x.key].phase = "unknown" /\ srv[x.key].count = 0 /\ verdict[x.key] = None
        /\ \A r \in wire : r.key # x.key
    BY <2>1, FreshKey
  <2>3. \A r \in Carried : r.key # x.key
    BY <2>2, <1>c
  <2> QED BY <2>1, <2>2, <2>3
<1>7. ASSUME NEW x \in S, x.kind # "begin"
      PROVE  /\ x.kind \in {"resolve", "cancel"} /\ x.quiet /\ ~x.live /\ x.key \in Key
             /\ x.kind = "resolve" => x.key = page.pendingBegin /\ page.beginDoc = None
             /\ x.kind = "cancel" => x.key = page.beginDoc
             /\ x.key <= page.keys
  <2>1. /\ x.kind \in {"resolve", "cancel"} /\ x.quiet /\ ~x.live /\ x.key \in Key
        /\ x.kind = "resolve" => x.key = page.pendingBegin
        /\ x.kind = "cancel" => x.key = page.beginDoc
    BY <1>3, <1>7 DEF Goes, Requests
  <2> QED BY <2>1, <1>5 DEF PageInv, PageOK
<1>8. \A x \in S : x \in Requests /\ x.at = "way" /\ x.answer = None
  BY <1>3 DEF Goes
<1>9. Typed'
  <2>1. wire' \subseteq Requests
    BY <1>2, <1>8, CarriedFrom
  <2>2. WireTypeOK'
    BY <2>1, <1>1, <1>2 DEF Typed, WireTypeOK, Requests
  <2>3. page' \in Page /\ page'.acked \in Nat /\ page'.queue = << >> /\ page'.sends = {}
        /\ page'.overtook = FALSE /\ page'.acked <= page'.nextSequence
    BY DEF Over, Page
  <2>4. Len(page'.queue) = 0
    BY <2>3
  <2> QED BY <2>2, <2>3, <2>4, PageConstants DEF Typed
<1>10. ServerOK'
  BY <1>2, <1>5 DEF PageInv, ServerOK, KeyOK
<1>11. ShapesOK'
  <2> SUFFICES ASSUME NEW x \in wire' PROVE Shape(x)'
    BY DEF ShapesOK
  <2>1. CASE x \in Carried
    <3>1. PICK r \in wire :
              /\ x \in Requests
              /\ x.kind = r.kind /\ x.key = r.key /\ x.at = r.at
              /\ x.answer = r.answer /\ x.live = FALSE
              /\ x.quiet <=> r.quiet \/ r.kind \in CaptureKind
              /\ r.kind \in CaptureKind => r.at # "back"
      BY <2>1, CarriedFrom
    <3>2. Shape(r) /\ x.key \in Key
      BY <3>1 DEF PageInv, ShapesOK, Requests
    <3>3. page'.resolving = page.resolving
      BY DEF Over
    <3> QED BY <3>1, <3>2, <3>3, <1>2, <1>5 DEF Shape, Begun, CaptureKind
  <2>2. CASE x \in S /\ x.kind = "begin"
    <3>1. x.at = "way" /\ x.answer = None
      BY <2>2, <1>8
    <3>2. x.key <= page'.keys
      BY <2>2, <1>6, <1>1
    <3> QED BY <2>2, <3>1, <3>2, <1>2, <1>6 DEF Shape, CaptureKind
  <2>3. CASE x \in S /\ x.kind # "begin"
    <3>1. x.at = "way" /\ x.answer = None
      BY <2>3, <1>8
    <3>2. x.key <= page'.keys /\ x.key # None
      BY <2>3, <1>5, <1>7
    <3>3. x.kind = "cancel" => Begun(x.key)
      BY <2>3, <3>2, <1>7 DEF PageInv, PageOK
    <3>4. x.kind = "cancel" => Begun(x.key)'
      BY <3>3, <1>2 DEF Begun
    <3> QED BY <2>3, <3>1, <3>2, <3>4, <1>2, <1>7 DEF Shape, CaptureKind
  <2> QED BY <2>1, <2>2, <2>3, <1>2
<1>12. AnswersOK'
  <2> SUFFICES ASSUME NEW x \in wire', x.at = "back" PROVE Told(x)'
    BY DEF AnswersOK, Told
  <2>1. x \in Carried
    BY <1>2, <1>8
  <2>2. PICK r \in wire :
              x.kind = r.kind /\ x.key = r.key /\ x.at = r.at /\ x.answer = r.answer
    BY <2>1, CarriedFrom
  <2> QED BY <2>2, <1>2 DEF PageInv, AnswersOK, Told, Begun
<1>13. StartsOK'
  <2> SUFFICES ASSUME NEW x \in wire', Opens(x) PROVE Starting(x)'
    BY DEF StartsOK, Starting
  <2>1. CASE x \in Carried
    <3>1. PICK r \in wire :
              /\ x \in Requests
              /\ x.kind = r.kind /\ x.key = r.key /\ x.at = r.at /\ x.live = FALSE
              /\ x.quiet <=> r.quiet \/ r.kind \in CaptureKind
      BY <2>1, CarriedFrom
    <3>2. Starting(r) /\ Opens(r) /\ x.key \in Key /\ x.key <= page.keys
      BY <3>1 DEF PageInv, StartsOK, Opens, Requests, ShapesOK, Shape
    <3>3. ASSUME NEW q \in wire', q.key = x.key
          PROVE  q.kind \notin CaptureKind /\ (x.kind = "mount" => q.kind # "resolve")
      <4>1. CASE q \in Carried
        <5>1. PICK t \in wire : q.kind = t.kind /\ q.key = t.key
          BY <4>1, CarriedFrom
        <5> QED BY <5>1, <3>1, <3>2, <3>3 DEF Starting
      <4>2. CASE q \in S /\ q.kind = "begin"
        BY <4>2 DEF CaptureKind
      <4>3. CASE q \in S /\ q.kind # "begin"
        BY <4>3, <1>7, <3>1, <3>2, <3>3 DEF Starting, CaptureKind
      <4> QED BY <4>1, <4>2, <4>3, <1>2
    <3>4. x.kind = "mount" => page'.pendingBegin # x.key
      <4>1. x.kind = "mount" => page.pendingBegin # x.key
        BY <3>1, <3>2 DEF Starting
      <4>2. \/ page'.pendingBegin = page.pendingBegin \/ page'.pendingBegin = None
            \/ page'.pendingBegin = page.keys + 1
        BY DEF Over
      <4>3. x.key \in Nat /\ x.key # None /\ x.key <= page.keys
        BY <3>2, <1>1, <1>5
      <4>4. x.key # page.keys + 1
        BY <4>3, <1>1
      <4> QED BY <4>1, <4>2, <4>3, <4>4
    <3> QED BY <3>1, <3>2, <3>3, <3>4, <1>2, <1>5 DEF Starting
  <2>2. CASE x \in S
    <3>1. x.kind = "begin"
      BY <2>2, <1>7 DEF Opens
    <3>2. \A q \in wire' : q.key = x.key => q = x
      BY <2>2, <3>1, <1>2, <1>3, <1>6
    <3>3. Clean(x.key)'
      BY <2>2, <3>1, <3>2, <1>2, <1>6 DEF Clean
    <3> QED BY <2>2, <3>1, <3>2, <3>3, <1>2, <1>5, <1>6 DEF Starting, CaptureKind
  <2> QED BY <2>1, <2>2, <1>2
<1>14. RecoveriesOK'
  <2> SUFFICES ASSUME NEW k \in Key, Sought(k)' PROVE Recovering(k)'
    BY DEF RecoveriesOK, Recovering
  <2>1. CASE Sought(k)
    <3>1. /\ k # page.beginDoc /\ srv[k].count = 0
          /\ \A q \in wire : q.key = k => q.kind \in {"begin", "resolve"}
      BY <2>1 DEF PageInv, RecoveriesOK, Recovering
    <3>2. ASSUME NEW q \in wire', q.key = k PROVE q.kind \in {"begin", "resolve"}
      <4>1. CASE q \in Carried
        <5>1. PICK t \in wire : q.kind = t.kind /\ q.key = t.key
          BY <4>1, CarriedFrom
        <5> QED BY <5>1, <3>1, <3>2
      <4>2. CASE q \in S
        BY <4>2, <1>7, <3>1, <3>2
      <4> QED BY <4>1, <4>2, <1>2
    <3> QED BY <3>1, <3>2, <1>2, <1>5 DEF Recovering
  <2>2. CASE ~Sought(k)
    <3>1. \A x \in Carried : ~(x.kind = "resolve" /\ x.key = k)
      BY <2>2, <1>c DEF Sought
    <3>2. \A x \in S : ~(x.kind = "resolve" /\ x.key = k)
      BY <2>2, <1>7 DEF Sought
    <3>3. page'.pendingBegin = k
      BY <3>1, <3>2, <1>2 DEF Sought
    <3>4. page'.keys = page.keys + 1 /\ k = page.keys + 1
      BY <2>2, <3>3, <1>5 DEF Over, Sought
    <3>5. srv[k].count = 0 /\ (\A r \in wire : r.key # k)
      BY <3>4, FreshKey
    <3>6. \A x \in Carried : x.key # k
      BY <3>5, <1>c
    <3>7. \A x \in S : x.key = k => x.kind = "begin"
      BY <3>4, <1>1, <1>7
    <3> QED BY <3>5, <3>6, <3>7, <1>2, <1>5 DEF Recovering
  <2> QED BY <2>1, <2>2
<1>15. SinglesOK'
  <2> SUFFICES ASSUME NEW x \in wire', NEW y \in wire' PROVE Single(x, y)
    BY DEF SinglesOK, Single
  <2>1. CASE x \in Carried /\ y \in Carried
    <3>1. PICK r \in wire :
              /\ x = Outdated(r) /\ x.kind = r.kind /\ x.key = r.key /\ x.at = r.at
              /\ x.live = FALSE /\ (x.quiet <=> r.quiet \/ r.kind \in CaptureKind)
              /\ r.kind \in CaptureKind => r.at # "back"
      BY <2>1, CarriedFrom
    <3>2. PICK q \in wire :
              /\ y = Outdated(q) /\ y.kind = q.kind /\ y.key = q.key /\ y.at = q.at
              /\ y.live = FALSE /\ (y.quiet <=> q.quiet \/ q.kind \in CaptureKind)
              /\ q.kind \in CaptureKind => q.at # "back"
      BY <2>1, CarriedFrom
    <3>3. Single(r, q)
      BY DEF PageInv, SinglesOK
    <3> QED BY <3>1, <3>2, <3>3 DEF Single, Opens, CaptureKind
  <2>2. CASE x \in S /\ x.kind = "begin"
    <3>1. y.key = x.key => x = y
      BY <2>2, <1>2, <1>3, <1>6
    <3> QED BY <2>2, <3>1 DEF Single
  <2>3. CASE y \in S /\ y.kind = "begin"
    <3>1. x.key = y.key => x = y
      BY <2>3, <1>2, <1>3, <1>6
    <3> QED BY <2>3, <3>1 DEF Single
  <2>4. CASE (x \in S /\ x.kind # "begin") \/ (y \in S /\ y.kind # "begin")
    BY <2>4, <1>7 DEF Single, Opens
  <2> QED BY <2>1, <2>2, <2>3, <2>4, <1>2
<1>16. PageOK'
  <2>1. page'.pendingBegin # None => page'.pendingBegin <= page'.keys
    BY <1>1, <1>5, WireConstants DEF Over, PageInv, PageOK, Page
  <2> QED BY <2>1, <1>2, WireConstants DEF Over, PageOK, Kind
<1>17. PumpOK'
  <2>1. Queued'
    BY DEF Over, Queued
  <2>2. ASSUME NEW x \in wire' PROVE (Pumped(x) /\ Next1(x))'
    <3>1. CASE x \in Carried
      <4>1. PICK r \in wire : /\ x.kind = r.kind /\ x.key = r.key /\ x.at = r.at
                              /\ x.seq = r.seq /\ x.live = FALSE
        BY <3>1, CarriedFrom
      <4>2. Next1(r)
        BY DEF PageInv, PumpOK
      <4> QED BY <4>1, <4>2, <1>2 DEF Pumped, LiveAppend, Next1
    <3>2. CASE x \in S
      <4>1. x.kind # "append"
        BY <3>2, <1>7
      <4> QED BY <4>1 DEF Pumped, LiveAppend, Next1
    <3> QED BY <3>1, <3>2, <1>2
  <2> QED BY <2>1, <2>2 DEF PumpOK, Over
<1>18. CountsOK'
  BY <1>2, <1>5 DEF CountsOK, Counted
<1>19. HonestOK' /\ ShownOK'
  <2>1. \A x \in wire' : ~Ending(x)
    <3> SUFFICES ASSUME NEW x \in wire', x.kind \in {"finish", "cancel"} PROVE ~x.live
      BY DEF Ending
    <3> QED BY <1>2, <1>7, CarriedFrom
  <2>2. ~Honest' /\ page'.state \notin {"EVALUATED", "INTERRUPTED"}
    BY WireConstants DEF Honest, FinishMode, Over, Kind
  <2> QED BY <2>1, <2>2 DEF HonestOK, ShownOK, OutcomeShownIsTrue, EvaluatedIsComplete
<1>20. HeldOK'
  <2> SUFFICES ASSUME NEW k \in Key, k \notin lost, Opening(k)' PROVE Held(k)'
    BY <1>2 DEF HeldOK
  <2>1. CASE k = page.keys + 1
    <3>1. srv[k].phase = "unknown" /\ (\A r \in wire : r.key # k)
      BY <2>1, FreshKey
    <3>2. \E x \in S : x.kind = "begin" /\ x.key = k
      BY <3>1, <1>2, <1>c DEF Opening
    <3>3. page'.pendingBegin = k
      BY <3>2, <1>6
    <3> QED BY <3>3 DEF Held
  <2>2. CASE k # page.keys + 1
    <3>1. Opening(k)
      <4>1. ASSUME srv[k].phase = "unknown"
            PROVE  \E r \in wire : r.kind = "begin" /\ r.key = k /\ r.at = "way"
        <5>1. PICK x \in wire' : x.kind = "begin" /\ x.key = k /\ x.at = "way"
          BY <4>1, <1>2 DEF Opening
        <5>2. x \notin S
          BY <5>1, <2>2, <1>6
        <5> QED BY <5>1, <5>2, <1>2, <1>c
      <4> QED BY <4>1, <1>2 DEF Opening
    <3>2. Held(k)
      BY <3>1 DEF PageInv, HeldOK
    <3>3. CASE page.beginDoc = k /\ page.state \in Active
      <4>1. \E x \in S : x.kind = "cancel" /\ x.key = k
        BY <3>3, <1>5 DEF Over
      <4> QED BY <4>1, <1>2, <1>8 DEF Held
    <3>4. CASE page.pendingBegin = k
      <4>1. page'.pendingBegin = k \/ \E x \in S : x.kind = "resolve" /\ x.key = k
        BY <3>4, <1>5 DEF Over
      <4> QED BY <4>1, <1>2, <1>8 DEF Held
    <3>5. CASE \E r \in wire : /\ r.key = k
                               /\ \/ r.kind = "mount"
                                  \/ r.kind \in {"resolve", "finish", "cancel"} /\ r.at = "way"
      <4>1. PICK r \in wire : /\ r.key = k
                              /\ \/ r.kind = "mount"
                                 \/ r.kind \in {"resolve", "finish", "cancel"} /\ r.at = "way"
        BY <3>5
      <4>2. \E x \in Carried : x.kind = r.kind /\ x.key = r.key /\ x.at = r.at
        BY <4>1, CarriedAlong
      <4> QED BY <4>1, <4>2, <1>2 DEF Held
    <3> QED BY <3>2, <3>3, <3>4, <3>5 DEF Held
  <2> QED BY <2>1, <2>2
<1> QED BY <1>9, <1>10, <1>11, <1>12, <1>13, <1>14, <1>15, <1>16, <1>17, <1>18, <1>19, <1>20
        DEF PageInv

\* abandon: what it sends, and what of a pending begin is left.
Goodbye(S, pb) ==
    \/ /\ page.pendingBegin # None /\ page.beginDoc = None /\ pb = None
       /\ S = {Request("resolve", page.pendingBegin, 0, TRUE)}
    \/ /\ page.beginDoc # None /\ page.state \in Active /\ pb = page.pendingBegin
       /\ S = {Request("cancel", page.beginDoc, 0, TRUE)}
    \/ /\ ~(page.pendingBegin # None /\ page.beginDoc = None)
       /\ ~(page.beginDoc # None /\ page.state \in Active)
       /\ pb = page.pendingBegin /\ S = {}

Gone(S, pb) ==
    [page EXCEPT !.listening = FALSE, !.overtook = TRUE, !.pumping = FALSE,
                 !.queue = << >>, !.beginDoc = None, !.terminal = FALSE,
                 !.unconfirmedKind = None, !.state = "IDLE", !.pendingBegin = pb, !.sends = S]

LEMMA AbandonIs ==
    ASSUME PageInv
    PROVE  \E S, pb : Goodbye(S, pb) /\ Abandon(page) = Gone(S, pb)
<1> USE DEF Gone
<1>0. page \in Page /\ page.sends = {} /\ page.overtook = FALSE
  BY DEF PageInv, Typed
<1>1. CASE page.pendingBegin # None /\ page.beginDoc = None
  <2> DEFINE S == {Request("resolve", page.pendingBegin, 0, TRUE)}
  <2>1. Goodbye(S, None)
    BY <1>1 DEF Goodbye
  <2>2. KeepaliveResolve(page) = [page EXCEPT !.sends = S, !.pendingBegin = None]
    BY <1>1, <1>0 DEF KeepaliveResolve, AskQuietly, Page
  <2> HIDE DEF S
  <2>3. Abandon(page) = Gone(S, None)
    BY <2>2, <1>1, <1>0 DEF Abandon, StartOver, StopIntake, Page
  <2> QED BY <2>1, <2>3
<1>2. CASE page.beginDoc # None /\ page.state \in Active
  <2> DEFINE S == {Request("cancel", page.beginDoc, 0, TRUE)}
  <2>1. Goodbye(S, page.pendingBegin)
    BY <1>2 DEF Goodbye
  <2>2. AskQuietly(page, "cancel", page.beginDoc) = [page EXCEPT !.sends = S]
    BY <1>0 DEF AskQuietly, Page
  <2> HIDE DEF S
  <2>3. Abandon(page) = Gone(S, page.pendingBegin)
    BY ZenonT(60), <2>2, <1>2, <1>0 DEF Abandon, StartOver, StopIntake, Page
  <2> QED BY <2>1, <2>3
<1>3. CASE /\ ~(page.pendingBegin # None /\ page.beginDoc = None)
           /\ ~(page.beginDoc # None /\ page.state \in Active)
  <2>1. Goodbye({}, page.pendingBegin)
    BY <1>3 DEF Goodbye
  <2>2. Abandon(page) = Gone({}, page.pendingBegin)
    BY <1>3, <1>0 DEF Abandon, StartOver, StopIntake, Page
  <2> QED BY <2>1, <2>2
<1> QED BY <1>1, <1>2, <1>3
LEMMA AbandonKeeps ==
    ASSUME PageInv, NEW h \in BOOLEAN, NEW l \in BOOLEAN,
           NEW fb \in [status : Status, key : Key, count : Nat] \cup {None},
           Done([Abandon(page) EXCEPT !.hidden = h, !.lesson = l, !.feedback = fb], wire),
           UNCHANGED <<srv, verdict, lost, faults>>
    PROVE  PageInv'
<1>1. /\ page \in Page /\ page.sends = {} /\ page.overtook = FALSE
      /\ page.pendingBegin \in Key \cup {None} /\ page.beginDoc \in Key \cup {None}
      /\ page.acked \in Nat /\ page.nextSequence \in Nat /\ page.acked <= page.nextSequence
  BY DEF PageInv, Typed, Page
<1>2. \E S, pb : Goodbye(S, pb) /\ Abandon(page) = Gone(S, pb)
  BY AbandonIs
<1>3. PICK S, pb : Goodbye(S, pb) /\ Abandon(page) = Gone(S, pb)
  BY <1>2
<1> DEFINE new == [page EXCEPT !.listening = FALSE, !.pumping = FALSE,
                          !.queue = << >>, !.beginDoc = None, !.terminal = FALSE,
                          !.unconfirmedKind = None, !.state = "IDLE",
                          !.pendingBegin = pb, !.hidden = h, !.lesson = l, !.feedback = fb]
           p == [Abandon(page) EXCEPT !.hidden = h, !.lesson = l, !.feedback = fb]
<1>4. pb \in Key \cup {None} /\ pb \in {page.pendingBegin, None}
  BY <1>1, <1>3 DEF Goodbye
<1>5. \A x \in S : Goes(x) /\ \A y \in S : x = y
  <2> SUFFICES ASSUME NEW x \in S PROVE Goes(x) /\ \A y \in S : x = y
    OBVIOUS
  <2>1. CASE /\ page.pendingBegin # None /\ page.beginDoc = None /\ pb = None
             /\ S = {Request("resolve", page.pendingBegin, 0, TRUE)}
    <3>1. x = Request("resolve", page.pendingBegin, 0, TRUE)
      BY <2>1
    <3>2. page.pendingBegin \in Key
      BY <1>1, <2>1
    <3> QED BY <2>1, <3>1, <3>2 DEF Goes, Request, Requests, Kind
  <2>2. CASE /\ page.beginDoc # None /\ page.state \in Active /\ pb = page.pendingBegin
             /\ S = {Request("cancel", page.beginDoc, 0, TRUE)}
    <3>1. x = Request("cancel", page.beginDoc, 0, TRUE)
      BY <2>2
    <3>2. page.beginDoc \in Key
      BY <1>1, <2>2
    <3> QED BY <2>2, <3>1, <3>2 DEF Goes, Request, Requests, Kind
  <2> QED BY <2>1, <2>2, <1>3 DEF Goodbye
<1>6. p.overtook = TRUE /\ p.sends = S /\ [p EXCEPT !.sends = {}, !.overtook = FALSE] = new
  <2>1. p = [page EXCEPT !.listening = FALSE, !.overtook = TRUE, !.pumping = FALSE,
                 !.queue = << >>, !.beginDoc = None, !.terminal = FALSE,
                 !.unconfirmedKind = None, !.state = "IDLE", !.pendingBegin = pb, !.sends = S,
                 !.hidden = h, !.lesson = l, !.feedback = fb]
    BY <1>3, <1>1 DEF Gone, Page
  <2>2. p.overtook = TRUE /\ p.sends = S
    BY <2>1, <1>1 DEF Page
  <2> HIDE DEF p
  <2>3. [p EXCEPT !.sends = {}, !.overtook = FALSE] = new
    BY ZenonT(60), <2>1, <1>1 DEF Page
  <2> QED BY <2>2, <2>3
<1>7. page' = new /\ wire' = S \cup Carried
  <2> HIDE DEF p, new
  <2>1. Done(p, wire)
    BY DEF p
  <2> QED BY <2>1, <1>6 DEF Done, Carried
<1>8. page' \in Page
  <2>1. << >> \in Seq(Nat) /\ "IDLE" \in AttemptState
    BY DEF AttemptState
  <2>2. [page EXCEPT !.pendingBegin = pb, !.hidden = h, !.lesson = l, !.feedback = fb] \in Page
    BY <1>1, <1>4 DEF Page
  <2> HIDE DEF new
  <2>3. new \in Page
    <3> USE DEF new
    <3> QED BY ZenonT(60), <2>1, <2>2, <1>1, <1>4 DEF Page
  <2> QED BY <2>3, <1>7
<1>9. /\ page'.beginDoc = None /\ page'.queue = << >> /\ ~page'.pumping /\ ~page'.terminal
      /\ page'.unconfirmedKind = None /\ page'.resolving = page.resolving
      /\ page'.acked = page.acked /\ page'.nextSequence = page.nextSequence
      /\ page'.state = "IDLE" /\ page'.keys = page.keys /\ page'.pendingBegin = pb
      /\ page'.sends = {} /\ page'.overtook = FALSE
  BY <1>1, <1>7 DEF Page
<1>10. /\ page.beginDoc # None /\ page.state \in Active =>
             \E x \in S : x.kind = "cancel" /\ x.key = page.beginDoc
       /\ page.pendingBegin # None /\ pb = None =>
             \E x \in S : x.kind = "resolve" /\ x.key = page.pendingBegin
  <2>1. Request("resolve", page.pendingBegin, 0, TRUE).kind = "resolve"
        /\ Request("resolve", page.pendingBegin, 0, TRUE).key = page.pendingBegin
        /\ Request("cancel", page.beginDoc, 0, TRUE).kind = "cancel"
        /\ Request("cancel", page.beginDoc, 0, TRUE).key = page.beginDoc
    BY DEF Request
  <2> QED BY <2>1, <1>3 DEF Goodbye
<1>11. Over(S)
  BY <1>1, <1>4, <1>5, <1>7, <1>8, <1>9, <1>10 DEF Over
<1> QED BY <1>11, OverKeeps

LEMMA LoadLessonKeeps == PageInv /\ LoadLesson => PageInv'
<1> SUFFICES ASSUME PageInv, LoadLesson PROVE PageInv'
  OBVIOUS
<1>1. Done([Abandon(page) EXCEPT !.hidden = FALSE, !.lesson = FALSE, !.feedback = None], wire)
      /\ UNCHANGED <<srv, verdict, lost, faults>>
  BY DEF LoadLesson
<1> QED BY <1>1, AbandonKeeps

LEMMA PageHideKeeps == PageInv /\ PageHide => PageInv'
<1> SUFFICES ASSUME PageInv, PageHide PROVE PageInv'
  OBVIOUS
<1>1. Done([Abandon(page) EXCEPT !.hidden = TRUE], wire) /\ UNCHANGED <<srv, verdict, lost, faults>>
  BY DEF PageHide
<1>2. page \in Page /\ page.lesson \in BOOLEAN
      /\ page.feedback \in [status : Status, key : Key, count : Nat] \cup {None}
  BY DEF PageInv, Typed, Page
<1>3. [Abandon(page) EXCEPT !.hidden = TRUE] =
        [Abandon(page) EXCEPT !.hidden = TRUE, !.lesson = page.lesson, !.feedback = page.feedback]
  <2>1. PICK S, pb : Abandon(page) = Gone(S, pb)
    BY AbandonIs
  <2> QED BY ZenonT(60), <2>1, <1>2 DEF Gone, Page
<1>4. Done([Abandon(page) EXCEPT !.hidden = TRUE, !.lesson = page.lesson,
                                 !.feedback = page.feedback], wire)
  BY <1>1, <1>3
<1> QED BY <1>1, <1>2, <1>4, AbandonKeeps

LEMMA StartKeeps == PageInv /\ Start => PageInv'
<1> SUFFICES ASSUME PageInv, Start PROVE PageInv'
  OBVIOUS
<1> DEFINE k == page.keys + 1
           b == Request("begin", k, 0, FALSE)
           new == [page EXCEPT !.listening = FALSE, !.pumping = FALSE,
                          !.queue = << >>, !.beginDoc = None, !.terminal = FALSE,
                          !.unconfirmedKind = None, !.state = "STARTING",
                          !.pendingBegin = k, !.feedback = None, !.keys = k,
                          !.nested = FALSE, !.failed = FALSE, !.nextSequence = 0, !.acked = 0]
           p == [new EXCEPT !.overtook = TRUE, !.sends = {b}]
<1>1. /\ page \in Page /\ page.sends = {} /\ page.overtook = FALSE
  BY DEF PageInv, Typed
<1>2. /\ page.state \notin Active /\ page.pendingBegin = None /\ page.hidden = FALSE /\ k \in Key
      /\ k \in Nat /\ UNCHANGED <<srv, verdict, lost, faults>>
  BY <1>1 DEF Start, Page
<1>3. Done(p, wire)
  <2>1. p = Ask([StartOver(StopIntake(page)) EXCEPT
                 !.beginDoc = None, !.queue = << >>,
                 !.nextSequence = 0, !.acked = 0, !.terminal = FALSE,
                 !.unconfirmedKind = None, !.feedback = None,
                 !.state = "STARTING", !.keys = k, !.nested = FALSE, !.failed = FALSE,
                 !.pendingBegin = k], "begin", k, 0)
    <3> DEFINE q == [StartOver(StopIntake(page)) EXCEPT
                 !.beginDoc = None, !.queue = << >>,
                 !.nextSequence = 0, !.acked = 0, !.terminal = FALSE,
                 !.unconfirmedKind = None, !.feedback = None,
                 !.state = "STARTING", !.keys = k, !.nested = FALSE, !.failed = FALSE,
                 !.pendingBegin = k]
    <3>1. q = [new EXCEPT !.overtook = TRUE] /\ q.sends = {}
      BY ZenonT(60), <1>1 DEF StartOver, StopIntake, Page
    <3>2. Ask(q, "begin", k, 0) = [q EXCEPT !.sends = {b}]
      BY <3>1 DEF Ask
    <3> QED BY <3>1, <3>2
  <2> HIDE DEF p
  <2> QED BY <2>1 DEF Start
<1>4. p.overtook = TRUE /\ p.sends = {b} /\ [p EXCEPT !.sends = {}, !.overtook = FALSE] = new
  BY <1>1 DEF Page
<1>5. page' = new /\ wire' = {b} \cup Carried
  <2> HIDE DEF p, new, b
  <2> QED BY <1>3, <1>4 DEF Done, Carried
<1>6. page' \in Page
  <2>1. << >> \in Seq(Nat) /\ "STARTING" \in AttemptState /\ 0 \in Nat
    BY DEF AttemptState
  <2>2. [page EXCEPT !.pendingBegin = k, !.keys = k, !.nextSequence = 0, !.acked = 0] \in Page
    BY ZenonT(60), <1>1, <1>2, <2>1 DEF Page
  <2> DEFINE y == [page EXCEPT !.pendingBegin = k, !.keys = k, !.nextSequence = 0, !.acked = 0]
             z == [y EXCEPT !.queue = << >>, !.beginDoc = None, !.unconfirmedKind = None,
                            !.state = "STARTING", !.feedback = None]
             w == [z EXCEPT !.listening = FALSE, !.pumping = FALSE, !.terminal = FALSE,
                            !.nested = FALSE, !.failed = FALSE]
  <2>3. w = new
    BY ZenonT(60), <1>1 DEF Page
  <2>4. z \in Page
    <3> HIDE DEF y
    <3>1. y \in Page
      BY <2>2 DEF y
    <3> QED BY <3>1, <2>1 DEF Page
  <2>5. w \in Page
    <3> HIDE DEF z
    <3> QED BY <2>4 DEF Page
  <2> HIDE DEF w, new
  <2> QED BY <2>3, <2>5, <1>5
<1>7. /\ page'.beginDoc = None /\ page'.queue = << >> /\ ~page'.pumping /\ ~page'.terminal
      /\ page'.unconfirmedKind = None /\ page'.resolving = page.resolving
      /\ page'.acked = 0 /\ page'.nextSequence = 0 /\ ~page'.nested /\ ~page'.failed
      /\ page'.state = "STARTING" /\ page'.keys = k /\ page'.pendingBegin = k
      /\ page'.sends = {} /\ page'.overtook = FALSE /\ ~page'.hidden
  BY <1>1, <1>2, <1>5 DEF Page
<1>8. b \in Requests /\ b.at = "way" /\ b.answer = None /\ b.kind = "begin" /\ ~b.quiet /\ b.live
      /\ b.key = k
  BY <1>2 DEF Request, Requests, Kind
<1>9. Over({b})
  <2>1. Goes(b)
    BY <1>7, <1>8 DEF Goes
  <2> HIDE DEF b, new
  <2> QED BY <2>1, <1>2, <1>5, <1>6, <1>7 DEF Over
<1> QED BY <1>9, OverKeeps

LEMMA PressCancelKeeps ==
    ASSUME PageInv, NEW ended \in BOOLEAN, PressCancel(ended)
    PROVE  PageInv'
<1>1. /\ page.state \in {"STARTING", "CAPTURING", "FINISHING"} /\ ~page.terminal /\ ~page.hidden
      /\ ended => page.state = "CAPTURING"
      /\ Done(Cancel(page, ended), wire) /\ UNCHANGED <<srv, verdict, lost, faults>>
  BY DEF PressCancel
<1>2. CASE page.state # "STARTING"
  <2>1. page.beginDoc # None
    BY <1>1, <1>2 DEF PageInv, PageOK
  <2>2. Cancel(page, ended) = PerformCancel(page, ended)
    BY <1>1, <1>2, <2>1 DEF Cancel
  <2> QED BY <1>1, <1>2, <2>2, CancelKeeps
<1>3. CASE page.state = "STARTING"
  <2> DEFINE new == [page EXCEPT !.listening = FALSE, !.pumping = FALSE, !.state = "IDLE"]
             p == [new EXCEPT !.overtook = TRUE]
  <2>1. /\ page \in Page /\ page.sends = {} /\ page.overtook = FALSE
        /\ page.acked \in Nat /\ page.nextSequence \in Nat /\ page.acked <= page.nextSequence
    BY DEF PageInv, Typed, Page
  <2>2. /\ page.beginDoc = None /\ page.unconfirmedKind = None /\ ~page.terminal
        /\ page.queue = << >>
    BY <1>3 DEF PageInv, PageOK
  <2>3. Cancel(page, ended) = p
    BY <1>1, <1>3, <2>1, <2>2 DEF Cancel, StartOver, StopIntake, Page
  <2>4. p.overtook = TRUE /\ p.sends = {} /\ [p EXCEPT !.sends = {}, !.overtook = FALSE] = new
    BY <2>1 DEF Page
  <2>5. page' = new /\ wire' = {} \cup Carried
    <3> HIDE DEF p, new
    <3> QED BY <1>1, <2>3, <2>4 DEF Done, Carried
  <2>6. page' \in Page
    BY <2>1, <2>5 DEF Page, AttemptState
  <2>7. /\ page'.beginDoc = None /\ page'.queue = << >> /\ ~page'.pumping /\ ~page'.terminal
        /\ page'.unconfirmedKind = None /\ page'.resolving = page.resolving
        /\ page'.acked = page.acked /\ page'.nextSequence = page.nextSequence
        /\ page'.state = "IDLE" /\ page'.keys = page.keys
        /\ page'.pendingBegin = page.pendingBegin
        /\ page'.sends = {} /\ page'.overtook = FALSE
    BY <2>1, <2>2, <2>5 DEF Page
  <2>8. Over({})
    BY <1>1, <2>1, <2>2, <2>5, <2>6, <2>7 DEF Over
  <2> QED BY <2>8, OverKeeps
<1> QED BY <1>2, <1>3

-----------------------------------------------------------------------------
\* Steps beside the attempt: recoveries, goodbyes to attempts that come too
\* late, answers that nobody waits for any more.
Apart(x, gone) ==
    /\ x \in Requests /\ x.at = "way" /\ x.answer = None
    /\ \/ /\ x.kind = "resolve" /\ x.key = page.pendingBegin /\ x.quiet /\ ~x.live
          /\ page'.pendingBegin = None
       \/ /\ x.kind = "resolve" /\ x.key = page.pendingBegin /\ ~x.quiet /\ x.live
          /\ ~page.hidden /\ ~page.resolving /\ page'.resolving
          /\ page.unconfirmedKind = "begin"
       \/ /\ x.kind = "cancel" /\ x.quiet /\ ~x.live
          /\ \E m \in gone : m.kind = "mount" /\ m.key = x.key

Aside(S, gone) ==
    /\ wire' = S \cup (wire \ gone) /\ UNCHANGED <<srv, verdict, lost, faults>>
    /\ \A x \in S : Apart(x, gone) /\ \A y \in S : x = y
    /\ \A q \in gone : /\ q \in wire /\ q.at = "back" /\ q.kind \in {"begin", "mount", "resolve"}
                       /\ q.kind = "mount" => \E x \in S : x.kind = "cancel" /\ x.key = q.key
    /\ \E pb \in {page.pendingBegin, None}, rs \in BOOLEAN, l \in BOOLEAN :
          /\ page' = [page EXCEPT !.pendingBegin = pb, !.resolving = rs, !.lesson = l]
          /\ page.pendingBegin # None /\ pb = None =>
                \E x \in S : x.kind = "resolve" /\ x.key = page.pendingBegin
          /\ page.resolving => rs \/ \A q \in wire \ gone : ~(q.kind = "resolve" /\ ~q.quiet)

LEMMA AsideKeeps ==
    ASSUME PageInv, NEW S, NEW gone, Aside(S, gone)
    PROVE  PageInv'
<1>1. PICK pb \in {page.pendingBegin, None}, rs \in BOOLEAN, l \in BOOLEAN :
          /\ page' = [page EXCEPT !.pendingBegin = pb, !.resolving = rs, !.lesson = l]
          /\ page.pendingBegin # None /\ pb = None =>
                \E x \in S : x.kind = "resolve" /\ x.key = page.pendingBegin
          /\ page.resolving => rs \/ \A q \in wire \ gone : ~(q.kind = "resolve" /\ ~q.quiet)
  BY DEF Aside
<1>2. /\ wire' = S \cup (wire \ gone) /\ srv' = srv /\ verdict' = verdict /\ lost' = lost
      /\ faults' = faults
  BY DEF Aside
<1>3. \A x \in S : Apart(x, gone) /\ \A y \in S : x = y
  BY DEF Aside
<1>4. \A q \in gone : /\ q \in wire /\ q.at = "back" /\ q.kind \in {"begin", "mount", "resolve"}
                      /\ q.kind = "mount" => \E x \in S : x.kind = "cancel" /\ x.key = q.key
  BY DEF Aside
<1>5. page \in Page /\ Typed /\ page.pendingBegin \in Key \cup {None}
  BY DEF PageInv, Typed, Page
<1>0. /\ page'.state = page.state /\ page'.beginDoc = page.beginDoc /\ page'.queue = page.queue
      /\ page'.pumping = page.pumping /\ page'.nextSequence = page.nextSequence
      /\ page'.acked = page.acked /\ page'.terminal = page.terminal
      /\ page'.unconfirmedKind = page.unconfirmedKind /\ page'.pendingBegin = pb
      /\ page'.resolving = rs /\ page'.feedback = page.feedback /\ page'.keys = page.keys
      /\ page'.hidden = page.hidden /\ page'.nested = page.nested
      /\ page'.failed = page.failed /\ page'.sends = {} /\ page'.overtook = FALSE
  BY <1>1, <1>5 DEF Page, Typed
<1>6. ASSUME NEW x \in S
      PROVE  /\ x \in Requests /\ x.at = "way" /\ x.answer = None /\ x.key \in Key
             /\ x.kind \in {"resolve", "cancel"} /\ ~Ending(x) /\ ~LiveAppend(x)
             /\ ~LiveFinish(x) /\ x.kind # "append" /\ x.key # page.beginDoc
             /\ x.kind = "resolve" => /\ x.key = page.pendingBegin
                                      /\ x.quiet => pb = None /\ ~x.live
                                      /\ ~x.quiet => /\ x.live /\ ~page.hidden /\ rs
                                                     /\ ~page.resolving
                                                     /\ page.unconfirmedKind = "begin"
             /\ x.kind = "cancel" => x.quiet /\ ~x.live /\ \E m \in gone : m.kind = "mount" /\ m.key = x.key
             /\ x.key <= page.keys
  <2>1. /\ x \in Requests /\ x.at = "way" /\ x.answer = None /\ x.key \in Key
        /\ x.kind \in {"resolve", "cancel"} /\ ~Ending(x) /\ ~LiveAppend(x)
        /\ ~LiveFinish(x) /\ x.kind # "append"
        /\ x.kind = "resolve" => /\ x.key = page.pendingBegin
                                 /\ x.quiet => pb = None /\ ~x.live
                                 /\ ~x.quiet => /\ x.live /\ ~page.hidden /\ rs
                                                /\ ~page.resolving
                                                /\ page.unconfirmedKind = "begin"
        /\ x.kind = "cancel" => x.quiet /\ ~x.live /\ \E m \in gone : m.kind = "mount" /\ m.key = x.key
    BY <1>0, <1>3 DEF Apart, Requests, Ending, LiveAppend, LiveFinish
  <2>2. x.kind = "resolve" => x.key <= page.keys /\ x.key # page.beginDoc
    BY <2>1, WireConstants DEF PageInv, PageOK
  <2>3. x.kind = "cancel" => x.key <= page.keys /\ x.key # page.beginDoc
    <3> SUFFICES ASSUME x.kind = "cancel" PROVE x.key <= page.keys /\ x.key # page.beginDoc
      OBVIOUS
    <3>1. PICK m \in gone : m.kind = "mount" /\ m.key = x.key
      BY <2>1
    <3>2. m \in wire /\ Shape(m) /\ Starting(m)
      BY <1>4 DEF PageInv, ShapesOK, StartsOK
    <3> QED BY <3>1, <3>2 DEF Shape, Starting, Opens
  <2> QED BY <2>1, <2>2, <2>3
<1>7. \A q \in wire' : q \in S \/ (q \in wire /\ q \notin gone)
  BY <1>2
<1>8. \A k \in Key : k # None
  BY WireConstants
<1>9. Typed'
  <2>1. page' \in Page
    BY ZenonT(60), <1>1, <1>5 DEF Page
  <2>2. wire' \subseteq Requests
    BY <1>5, <1>6, <1>7 DEF Typed, WireTypeOK, Requests
  <2>3. WireTypeOK'
    BY <2>2, <1>2, <1>5 DEF Typed, WireTypeOK, Requests
  <2> QED BY <2>1, <2>3, <1>0, <1>5 DEF Typed
<1>10. ServerOK'
  BY <1>0, <1>2 DEF PageInv, ServerOK, KeyOK
<1>11. ShapesOK'
  <2> SUFFICES ASSUME NEW q \in wire' PROVE Shape(q)'
    BY DEF ShapesOK
  <2>1. CASE q \in wire /\ q \notin gone
    <3>1. Shape(q)
      BY <2>1 DEF PageInv, ShapesOK
    <3>2. q.kind = "resolve" /\ ~q.quiet => rs
      BY <2>1, <3>1, <1>1 DEF Shape
    <3> QED BY <3>1, <3>2, <1>0, <1>2 DEF Shape, Begun
  <2>2. CASE q \in S
    <3>1. q.kind = "cancel" => Begun(q.key)
      <4> SUFFICES ASSUME q.kind = "cancel" PROVE Begun(q.key)
        OBVIOUS
      <4>1. PICK m \in gone : m.kind = "mount" /\ m.key = q.key
        BY <2>2, <1>6
      <4> QED BY <4>1, <1>4 DEF PageInv, ShapesOK, Shape
    <3>2. q.kind = "cancel" => Begun(q.key)'
      BY <3>1, <1>2 DEF Begun
    <3> QED BY <2>2, <3>2, <1>0, <1>2, <1>6 DEF Shape, CaptureKind
  <2> QED BY <2>1, <2>2, <1>7
<1>12. AnswersOK'
  <2> SUFFICES ASSUME NEW q \in wire', q.at = "back" PROVE Told(q)'
    BY DEF AnswersOK, Told
  <2> QED BY <1>2, <1>6, <1>7 DEF PageInv, AnswersOK, Told, Begun
<1>13. ASSUME NEW q \in wire \ gone, Opens(q), NEW x \in S, x.key = q.key
       PROVE  x.kind = "resolve"
  <2> SUFFICES ASSUME x.kind = "cancel" PROVE FALSE
    BY <1>6
  <2>1. PICK m \in gone : m.kind = "mount" /\ m.key = x.key
    BY <1>6
  <2>2. m \in wire /\ Opens(m)
    BY <2>1, <1>4 DEF PageInv, ShapesOK, Shape, Opens
  <2> QED BY <2>1, <2>2, <1>13 DEF PageInv, SinglesOK, Single
<1>14. StartsOK'
  <2> SUFFICES ASSUME NEW q \in wire', Opens(q) PROVE Starting(q)'
    BY DEF StartsOK, Starting
  <2>1. q \in wire \ gone
    BY <1>6, <1>7 DEF Opens
  <2>2. Starting(q) /\ q.key \in Key
    BY <2>1, <1>5 DEF PageInv, StartsOK, Typed, WireTypeOK
  <2>3. \A x \in wire' : x.key = q.key => x.kind \notin CaptureKind
    BY <2>1, <2>2, <1>6, <1>7, <1>13 DEF Starting, CaptureKind
  <2>4. q.kind = "mount" => \A x \in S : x.key = q.key => x.kind # "resolve"
    BY <2>2, <1>6 DEF Starting
  <2>5. q.kind = "mount" => pb # q.key /\ \A x \in wire' : x.key = q.key => x.kind # "resolve"
    BY <2>2, <2>4, <1>7, <1>8 DEF Starting
  <2>6. ASSUME q.live
        PROVE  /\ page.state = "STARTING" /\ q.key = page.keys /\ pb \in {None, q.key}
               /\ q.kind = "mount" => pb = None
               /\ q.kind = "mount" \/ pb = q.key => Clean(q.key)'
    <3>1. /\ page.state = "STARTING" /\ q.key = page.keys /\ pb \in {None, q.key}
          /\ q.kind = "mount" => pb = None
          /\ page.unconfirmedKind # "begin"
      BY <2>2, <2>6 DEF Starting, PageInv, PageOK
    <3>2. ASSUME q.kind = "mount" \/ pb = q.key PROVE Clean(q.key)'
      <4>1. Clean(q.key)
        BY <2>2, <2>6, <3>2, <1>8 DEF Starting
      <4>2. \A x \in S : x.key # q.key
        BY <2>1, <2>4, <3>1, <3>2, <1>6, <1>8, <1>13
      <4> QED BY <4>1, <4>2, <1>2 DEF Clean
    <3> QED BY <3>1, <3>2
  <2> QED BY <2>2, <2>3, <2>5, <2>6, <1>0 DEF Starting
<1>15. RecoveriesOK'
  <2> SUFFICES ASSUME NEW k \in Key, Sought(k)' PROVE Recovering(k)'
    BY DEF RecoveriesOK, Recovering
  <2>1. Sought(k)
    BY <1>0, <1>1, <1>6, <1>7, <1>8 DEF Sought
  <2>2. /\ k # page.beginDoc /\ srv[k].count = 0
        /\ \A q \in wire : q.key = k => q.kind \in {"begin", "resolve"}
    BY <2>1 DEF PageInv, RecoveriesOK, Recovering
  <2>3. \A x \in S : x.key = k => x.kind = "resolve"
    BY <2>2, <1>4, <1>6
  <2> QED BY <2>2, <2>3, <1>0, <1>2 DEF Recovering
<1>16. SinglesOK'
  <2> SUFFICES ASSUME NEW r \in wire', NEW q \in wire' PROVE Single(r, q)
    BY DEF SinglesOK, Single
  <2>1. CASE r \in wire /\ q \in wire
    BY <2>1 DEF PageInv, SinglesOK
  <2>2. CASE r \in S /\ q \in S
    <3>1. r = q
      BY <2>2, <1>3
    <3> QED BY <3>1, <2>2, <1>6 DEF Single
  <2>3. CASE r \in S /\ q \in wire
    <3>1. ~(~r.quiet /\ r.kind = "resolve" /\ q.kind = "resolve" /\ ~q.quiet)
      BY <2>3, <1>6 DEF PageInv, ShapesOK, Shape
    <3> QED BY <3>1, <2>3, <1>6 DEF Single, Opens
  <2>4. CASE q \in S /\ r \in wire
    <3>1. ~(~r.quiet /\ r.kind = "resolve" /\ q.kind = "resolve" /\ ~q.quiet)
      BY <2>4, <1>6 DEF PageInv, ShapesOK, Shape
    <3> QED BY <3>1, <2>4, <1>6 DEF Single, Opens
  <2> QED BY <2>1, <2>2, <2>3, <2>4, <1>7
<1>17. PageOK'
  <2>1. page'.pendingBegin # None => page.pendingBegin = page'.pendingBegin
    BY <1>0, <1>1
  <2>2. page.beginDoc # None => Begun(page.beginDoc)'
    BY <1>0, <1>2 DEF PageInv, PageOK, Begun
  <2> QED BY <2>1, <2>2, <1>0 DEF PageInv, PageOK
<1>18. PumpOK'
  <2>1. ASSUME NEW q \in wire' PROVE (Pumped(q) /\ Next1(q))'
    <3>1. CASE q \in wire /\ q \notin gone
      <4>1. Pumped(q) /\ Next1(q)
        BY <3>1 DEF PageInv, PumpOK
      <4>2. (\A x \in wire : ~LiveFinish(x)) => \A x \in wire' : ~LiveFinish(x)
        BY <1>6, <1>7
      <4>3. FinishMode' <=> FinishMode
        BY <1>0 DEF FinishMode
      <4> QED BY <4>1, <4>2, <4>3, <1>0, <1>2 DEF Pumped, Next1
    <3>2. CASE q \in S
      BY <3>2, <1>6 DEF Pumped, Next1
    <3> QED BY <3>1, <3>2, <1>7
  <2>2. Queued'
    BY <1>0 DEF PageInv, PumpOK, Queued
  <2> QED BY <2>1, <2>2, <1>0 DEF PageInv, PumpOK
<1>19. CountsOK'
  BY <1>0, <1>2 DEF PageInv, CountsOK, Counted
<1>20. HonestOK'
  <2>1. Honest' <=> Honest
    BY <1>0 DEF Honest, FinishMode
  <2>2. ASSUME Honest, NEW k \in Key PROVE Complete(k)'
    <3>1. Complete(k)
      BY <2>2 DEF PageInv, HonestOK
    <3> QED BY <3>1, <1>0, <1>2, <1>6 DEF Complete
  <2>3. \A x \in wire' : Ending(x) => x \in wire
    BY <1>6, <1>7
  <2> QED BY <2>1, <2>2, <2>3, <1>0 DEF PageInv, HonestOK
<1>21. ShownOK'
  <2>1. OutcomeShownIsTrue' /\ EvaluatedIsComplete'
    BY <1>0, <1>2 DEF PageInv, ShownOK, OutcomeShownIsTrue, EvaluatedIsComplete
  <2> QED BY <2>1, <1>0 DEF PageInv, ShownOK
<1>22. HeldOK'
  <2> SUFFICES ASSUME NEW k \in Key, k \notin lost, Opening(k)' PROVE Held(k)'
    BY <1>2 DEF HeldOK
  <2>1. Opening(k)
    BY <1>2, <1>6 DEF Opening
  <2>2. Held(k)
    BY <2>1 DEF PageInv, HeldOK
  <2>3. CASE page.beginDoc = k /\ page.state \in Active
    BY <2>3, <1>0 DEF Held
  <2>4. CASE page.pendingBegin = k
    <3>1. pb = k \/ \E x \in S : x.kind = "resolve" /\ x.key = k
      BY <2>4, <1>1, <1>8
    <3> QED BY <3>1, <1>0, <1>2, <1>6 DEF Held
  <2>5. CASE \E r \in wire : /\ r.key = k
                             /\ \/ r.kind = "mount"
                                \/ r.kind \in {"resolve", "finish", "cancel"} /\ r.at = "way"
    <3>1. PICK r \in wire : /\ r.key = k
                            /\ \/ r.kind = "mount"
                               \/ r.kind \in {"resolve", "finish", "cancel"} /\ r.at = "way"
      BY <2>5
    <3>2. CASE r \in gone
      <4>1. \E x \in S : x.kind = "cancel" /\ x.key = k
        BY <3>1, <3>2, <1>4
      <4> QED BY <4>1, <1>2, <1>6 DEF Held
    <3>3. CASE r \notin gone
      BY <3>1, <3>3, <1>2 DEF Held
    <3> QED BY <3>2, <3>3
  <2> QED BY <2>2, <2>3, <2>4, <2>5 DEF Held
<1> QED BY <1>9, <1>10, <1>11, <1>12, <1>14, <1>15, <1>16, <1>17, <1>18, <1>19, <1>20, <1>21, <1>22
        DEF PageInv

\* A live answer to a begin or to its recovery that leaves no attempt behind.
Ended(r, s, u, fb, pb) ==
    \/ s = "UNCONFIRMED" /\ u = "begin" /\ fb = None /\ pb = page.pendingBegin
    \/ /\ r.answer.status \in {"refused", "NO_ATTEMPT"}
       /\ s = "IDLE" /\ u = None /\ fb = None /\ pb = None
    \/ /\ r.answer.status = "INTERRUPTED" /\ s = "INTERRUPTED" /\ u = None /\ pb = None
       /\ fb = [status |-> s, key |-> r.key, count |-> r.answer.count]

LEMMA BeginEnds ==
    ASSUME PageInv, NEW r \in wire, r.at = "back", r.live, page.beginDoc = None,
           \/ r.kind = "begin"
           \/ r.kind = "resolve" /\ page.pendingBegin = r.key,
           NEW s, NEW u, NEW fb, NEW pb, Ended(r, s, u, fb, pb),
           NEW rs \in BOOLEAN, rs = page.resolving \/ r.kind = "resolve",
           page' = [page EXCEPT !.pendingBegin = pb, !.resolving = rs,
                                !.unconfirmedKind = u, !.feedback = fb, !.state = s],
           wire' = wire \ {r}, UNCHANGED <<srv, verdict, lost, faults>>
    PROVE  PageInv'
<1>1. page \in Page /\ Typed /\ r \in Requests /\ r.key \in Key /\ page.pendingBegin \in Key \cup {None}
  BY DEF PageInv, Typed, Page, WireTypeOK, Requests
<1>2. /\ Shape(r) /\ Told(r) /\ ~r.quiet /\ r.answer \in [status : Status, count : Nat]
      /\ Starting(r)
  BY <1>1 DEF PageInv, ShapesOK, Shape, AnswersOK, StartsOK, Requests
<1>3. page.pendingBegin \in {None, r.key}
  BY <1>2 DEF Starting, Opens
<1>4. \A k \in Key : k # None
  BY WireConstants
<1>5. ASSUME NEW q \in wire', q.live PROVE FALSE
  <2>1. q \in wire /\ q # r /\ Shape(q) /\ Starting(q) /\ Single(q, r) /\ q \in Requests
    BY DEF PageInv, ShapesOK, StartsOK, SinglesOK, Typed, WireTypeOK, Requests
  <2>2. ~q.quiet /\ q.key \in Key
    BY <2>1, <1>5 DEF Shape, Requests
  <2>3. CASE q.kind \in CaptureKind
    BY <2>1, <2>2, <2>3, <1>4, <1>5 DEF Shape
  <2>4. CASE q.kind \in {"begin", "mount"}
    <3>1. page.state = "STARTING" /\ q.key = page.keys
      BY <2>1, <2>2, <2>4, <1>5 DEF Starting, Opens
    <3>2. CASE r.kind = "begin"
      <4>1. r.key = page.keys
        BY <3>2, <1>2 DEF Starting, Opens
      <4> QED BY <4>1, <3>1, <3>2, <2>1, <2>2, <2>4, <1>2 DEF Single, Opens
    <3>3. CASE r.kind = "resolve"
      <4>1. page.state = "UNCONFIRMED"
        BY <3>3, <1>2 DEF Shape, PageInv, PageOK
      <4> QED BY <3>1, <4>1
    <3> QED BY <3>2, <3>3
  <2>5. CASE q.kind = "resolve"
    <3>1. page.state = "UNCONFIRMED" /\ page.resolving
      BY <2>1, <2>2, <2>5, <1>5 DEF Shape, PageInv, PageOK
    <3>2. r.kind # "begin"
      BY <3>1, <1>2 DEF Starting, Opens
    <3> QED BY <3>2, <2>1, <2>2, <2>5, <1>2 DEF Single
  <2> QED BY <2>1, <2>3, <2>4, <2>5 DEF Requests, Kind, CaptureKind
<1>6. /\ s \in {"UNCONFIRMED", "IDLE", "INTERRUPTED"} /\ s \in AttemptState
      /\ u \in {"begin", None} /\ u # "finish" /\ (u = "begin" => s = "UNCONFIRMED")
      /\ pb \in {page.pendingBegin, None} /\ pb \in Key \cup {None}
      /\ fb \in [status : Status, key : Key, count : Nat] \cup {None}
  BY <1>1, <1>2, WireConstants DEF Ended, AttemptState, Kind, Status
<1>0. /\ page'.state = s /\ page'.beginDoc = None /\ page'.queue = page.queue
      /\ page'.pumping = page.pumping /\ page'.nextSequence = page.nextSequence
      /\ page'.acked = page.acked /\ page'.terminal = page.terminal
      /\ page'.unconfirmedKind = u /\ page'.pendingBegin = pb
      /\ page'.resolving = rs /\ page'.feedback = fb /\ page'.keys = page.keys
      /\ page'.hidden = page.hidden /\ page'.nested = page.nested
      /\ page'.failed = page.failed /\ page'.sends = {} /\ page'.overtook = FALSE
  BY <1>1 DEF Page, Typed
<1>7. \A q \in wire' : q \in wire
  OBVIOUS
<1>8. Typed'
  <2>1. page' \in Page
    <3> DEFINE A == [page EXCEPT !.pendingBegin = pb]
               B == [A EXCEPT !.resolving = rs]
               C == [B EXCEPT !.unconfirmedKind = u]
               D == [C EXCEPT !.feedback = fb]
    <3>1. A \in Page /\ u \in {"begin", "finish", "cancel", None}
      BY <1>1, <1>6 DEF Page
    <3> HIDE DEF A
    <3>2. B \in Page
      BY <3>1, ZenonT(40) DEF Page
    <3> HIDE DEF B
    <3>3. C \in Page
      BY ZenonT(60), <3>1, <3>2 DEF Page
    <3> HIDE DEF C
    <3>4. D \in Page
      BY SMTT(60), <3>3, <1>6 DEF Page
    <3> HIDE DEF D
    <3>5. [D EXCEPT !.state = s] \in Page
      BY <3>4, <1>6 DEF Page
    <3>6. page' = [D EXCEPT !.state = s]
      BY DEF A, B, C, D
    <3> QED BY <3>5, <3>6
  <2>2. WireTypeOK'
    BY <1>1 DEF Typed, WireTypeOK
  <2> QED BY <2>1, <2>2, <1>0, <1>1 DEF Typed
<1>9. ServerOK'
  BY <1>0 DEF PageInv, ServerOK, KeyOK
<1>10. ShapesOK'
  <2> SUFFICES ASSUME NEW q \in wire' PROVE Shape(q)'
    BY DEF ShapesOK
  <2>1. Shape(q) /\ q.key \in Key /\ q \in wire
    BY <1>1 DEF PageInv, ShapesOK, Typed, WireTypeOK
  <2>2. q.kind = "resolve" /\ ~q.quiet => rs
    <3> SUFFICES ASSUME q.kind = "resolve", ~q.quiet PROVE rs
      OBVIOUS
    <3>1. page.resolving
      BY <2>1 DEF Shape
    <3>2. r.kind # "resolve"
      BY <2>1, <1>2 DEF PageInv, SinglesOK, Single
    <3> QED BY <3>1, <3>2
  <2> QED BY <2>1, <2>2, <1>0, <1>4, <1>5 DEF Shape, Begun
<1>11. AnswersOK'
  BY DEF PageInv, AnswersOK, Told, Begun
<1>12. StartsOK'
  <2> SUFFICES ASSUME NEW q \in wire', Opens(q) PROVE Starting(q)'
    BY DEF StartsOK, Starting
  <2>1. Starting(q) /\ q.key \in Key /\ ~q.live
    BY <1>1, <1>5 DEF PageInv, StartsOK, Typed, WireTypeOK
  <2> QED BY <2>1, <1>0, <1>4, <1>6 DEF Starting
<1>13. RecoveriesOK'
  <2> SUFFICES ASSUME NEW k \in Key, Sought(k)' PROVE Recovering(k)'
    BY DEF RecoveriesOK, Recovering
  <2>1. Sought(k)
    BY <1>0, <1>4, <1>6 DEF Sought
  <2> QED BY <2>1, <1>0, <1>4 DEF PageInv, RecoveriesOK, Recovering
<1>14. SinglesOK'
  BY <1>7 DEF PageInv, SinglesOK
<1>15. PageOK'
  BY <1>0, <1>4, <1>6 DEF PageInv, PageOK
<1>16. PumpOK'
  <2>1. Queued'
    BY <1>0 DEF PageInv, PumpOK, Queued
  <2>2. ASSUME NEW q \in wire' PROVE (Pumped(q) /\ Next1(q))'
    BY <1>5 DEF PageInv, PumpOK, Pumped, LiveAppend, Next1
  <2> QED BY <2>1, <2>2, <1>0, <1>6 DEF PumpOK
<1>17. CountsOK'
  BY <1>0, <1>4 DEF CountsOK, Counted
<1>18. HonestOK'
  <2>1. ~Honest'
    BY <1>0, <1>6 DEF Honest, FinishMode
  <2>2. \A q \in wire' : ~Ending(q)
    BY <1>5 DEF Ending
  <2> QED BY <2>1, <2>2 DEF HonestOK
<1>19. ShownOK'
  <2> SUFFICES ASSUME s = "INTERRUPTED" PROVE ShownOK'
    BY <1>0, <1>6 DEF ShownOK, OutcomeShownIsTrue, EvaluatedIsComplete
  <2>1. /\ r.answer.status = s
        /\ fb = [status |-> s, key |-> r.key, count |-> r.answer.count]
    BY DEF Ended
  <2>2. fb.status = s /\ fb.key = r.key /\ fb.count = r.answer.count
        /\ fb \in [status : Status, key : Key, count : Nat]
    BY <2>1, <1>1, <1>2 DEF Status
  <2>3. verdict[r.key] = r.answer
    BY <2>1, <1>2 DEF Told
  <2>4. r.answer = Answer(fb.status, fb.count)
    BY <2>1, <2>2, <1>2 DEF Answer
  <2> QED BY <2>2, <2>3, <2>4, <1>0 DEF ShownOK, OutcomeShownIsTrue, EvaluatedIsComplete
<1>20. HeldOK'
  <2> SUFFICES ASSUME NEW k \in Key, k \notin lost, Opening(k)' PROVE Held(k)'
    BY DEF HeldOK
  <2>1. Opening(k)
    BY DEF Opening
  <2>2. Held(k)
    BY <2>1 DEF PageInv, HeldOK
  <2>3. CASE page.pendingBegin = k
    <3>1. CASE pb = page.pendingBegin
      BY <3>1, <2>3, <1>0 DEF Held
    <3>2. CASE pb # page.pendingBegin
      <4>1. r.key = k /\ r.answer.status \in {"refused", "NO_ATTEMPT", "INTERRUPTED"}
        BY <3>2, <2>3, <1>3, <1>4 DEF Ended
      <4>2. srv[k].phase \notin {"unknown", "preparing", "capturing"}
        <5>1. CASE r.answer.status = "INTERRUPTED"
          <6>1. verdict[k] = r.answer /\ r.answer # None
            BY <4>1, <5>1, <1>2, WireConstants DEF Told
          <6> QED BY <6>1 DEF PageInv, ServerOK, KeyOK, Closed
        <5>2. CASE r.answer.status \in {"refused", "NO_ATTEMPT"}
          BY <4>1, <5>2, <1>2 DEF Told, Openable
        <5> QED BY <4>1, <5>1, <5>2
      <4> QED BY <4>2, <2>1 DEF Opening
    <3> QED BY <3>1, <3>2
  <2>4. CASE \E q \in wire : /\ q.key = k
                             /\ \/ q.kind = "mount"
                                \/ q.kind \in {"resolve", "finish", "cancel"} /\ q.at = "way"
    BY <2>4 DEF Held
  <2> QED BY <2>2, <2>3, <2>4, <1>4 DEF Held
<1> QED BY <1>8, <1>9, <1>10, <1>11, <1>12, <1>13, <1>14, <1>15, <1>16, <1>17, <1>18, <1>19, <1>20
        DEF PageInv

\* The start is answered with an attempt: its runtime is to be mounted.
LEMMA MountSent ==
    ASSUME PageInv, NEW r \in wire, r.at = "back", r.live, r.kind = "begin",
           r.answer.status = "STARTED", page.pendingBegin = r.key,
           NEW m, m = [Request("mount", r.key, 0, FALSE) EXCEPT !.at = "back"],
           page' = [page EXCEPT !.pendingBegin = None],
           wire' = {m} \cup (wire \ {r}), UNCHANGED <<srv, verdict, lost, faults>>
    PROVE  PageInv'
<1>1. page \in Page /\ Typed /\ r \in Requests /\ r.key \in Key
  BY DEF PageInv, Typed, WireTypeOK, Requests
<1>2. Shape(r) /\ Told(r) /\ Starting(r) /\ ~r.quiet
  BY DEF PageInv, ShapesOK, Shape, AnswersOK, StartsOK
<1>3. /\ m.kind = "mount" /\ m.key = r.key /\ m.seq = 0 /\ m.quiet = FALSE /\ m.live = TRUE
      /\ m.at = "back" /\ m.answer = None /\ m \in Requests
  BY <1>1 DEF Request, Requests, Kind
<1>4. \A k \in Key : k # None
  BY WireConstants
<1>5. /\ page.state = "STARTING" /\ r.key = page.keys /\ Clean(r.key) /\ Begun(r.key)
      /\ ~page.hidden /\ r.key <= page.keys
  BY <1>2 DEF Starting, Opens, Shape, Told
<1>6. page.beginDoc = None
  BY <1>5 DEF PageInv, PageOK
<1>0. /\ page'.state = page.state /\ page'.beginDoc = None /\ page'.queue = page.queue
      /\ page'.pumping = page.pumping /\ page'.nextSequence = page.nextSequence
      /\ page'.acked = page.acked /\ page'.terminal = page.terminal
      /\ page'.unconfirmedKind = page.unconfirmedKind /\ page'.pendingBegin = None
      /\ page'.resolving = page.resolving /\ page'.feedback = page.feedback
      /\ page'.keys = page.keys
      /\ page'.hidden = page.hidden /\ page'.nested = page.nested
      /\ page'.failed = page.failed /\ page'.sends = {} /\ page'.overtook = FALSE
  BY <1>1, <1>6 DEF Page, Typed
<1>7. \A q \in wire' : q = m \/ (q \in wire /\ q # r)
  OBVIOUS
<1>8. ASSUME NEW q \in wire, q # r, Opens(q) PROVE q.key # r.key
  BY <1>2, <1>8 DEF PageInv, SinglesOK, Single, Opens
<1>9. Typed'
  <2>1. page' \in Page
    BY <1>1 DEF Page
  <2>2. wire' \subseteq Requests
    BY ZenonT(60), <1>1, <1>3 DEF Typed, WireTypeOK, Requests
  <2>3. WireTypeOK'
    BY <2>2, <1>1 DEF Typed, WireTypeOK, Requests
  <2> QED BY <2>1, <2>3, <1>0, <1>1 DEF Typed
<1>10. ServerOK'
  BY <1>0 DEF PageInv, ServerOK, KeyOK
<1>11. ShapesOK'
  <2> SUFFICES ASSUME NEW q \in wire' PROVE Shape(q)'
    BY DEF ShapesOK
  <2>1. CASE q = m
    BY <2>1, <1>3, <1>5, <1>0 DEF Shape, Begun, CaptureKind
  <2>2. CASE q # m
    BY ZenonT(60), <2>2, <1>0, <1>6 DEF PageInv, ShapesOK, Shape, Begun
  <2> QED BY <2>1, <2>2
<1>12. AnswersOK'
  <2> SUFFICES ASSUME NEW q \in wire' PROVE Told(q)'
    BY DEF AnswersOK
  <2>1. CASE q = m
    BY <2>1, <1>3 DEF Told
  <2>2. CASE q # m
    BY <2>2 DEF PageInv, AnswersOK, Told, Begun
  <2> QED BY <2>1, <2>2
<1>13. StartsOK'
  <2> SUFFICES ASSUME NEW q \in wire', Opens(q) PROVE Starting(q)'
    BY DEF StartsOK, Starting
  <2>1. CASE q = m
    <3>1. \A x \in wire' : x.key = r.key => x.kind \in {"begin", "mount"}
      BY <1>3, <1>5 DEF Clean
    <3>2. Clean(r.key)'
      BY <3>1, <1>5 DEF Clean
    <3>3. /\ q.key = r.key /\ q.key # page'.beginDoc /\ page'.pendingBegin = None
          /\ q.key # None
      BY ZenonT(60), <2>1, <1>0, <1>1, <1>3, <1>4
    <3>4. \A x \in wire' : x.key = q.key => x.kind \notin CaptureKind /\ x.kind # "resolve"
      BY <3>1, <3>3 DEF CaptureKind
    <3>5. page'.state = "STARTING" /\ q.key = page'.keys /\ Clean(q.key)'
      BY <3>2, <3>3, <1>0, <1>5
    <3> QED BY <3>3, <3>4, <3>5 DEF Starting
  <2>2. CASE q # m
    <3>1. Starting(q) /\ q \in wire /\ q # r /\ q.key # r.key /\ q.key \in Key
      BY <2>2, <1>1, <1>8 DEF PageInv, StartsOK, Typed, WireTypeOK
    <3>2. ~q.live
      BY <3>1, <1>5 DEF Starting
    <3>3. \A x \in wire' : x.key = q.key => x \in wire
      BY <3>1, <1>3
    <3> QED BY <3>1, <3>2, <3>3, <1>0, <1>4, <1>6 DEF Starting
  <2> QED BY <2>1, <2>2
<1>14. RecoveriesOK'
  <2> SUFFICES ASSUME NEW k \in Key, Sought(k)' PROVE Recovering(k)'
    BY DEF RecoveriesOK, Recovering
  <2>1. PICK q \in wire : q.kind = "resolve" /\ q.key = k
    BY ZenonT(60), <1>0, <1>3, <1>4 DEF Sought
  <2>2. k # r.key
    BY <2>1, <1>5 DEF Clean
  <2>3. Sought(k)
    BY <2>1 DEF Sought
  <2>4. Recovering(k)
    BY DEF PageInv, RecoveriesOK
  <2>5. \A y \in wire' : y.key = k => y \in wire
    BY <2>2, <1>3, <1>7
  <2> QED BY <2>3, <2>4, <2>5, <1>0, <1>4 DEF Recovering
<1>15. SinglesOK'
  <2> SUFFICES ASSUME NEW x \in wire', NEW q \in wire' PROVE Single(x, q)
    BY DEF SinglesOK, Single
  <2>1. CASE x # m /\ q # m
    BY <2>1 DEF PageInv, SinglesOK
  <2>2. CASE x = m \/ q = m
    BY ZenonT(60), <2>2, <1>3, <1>8 DEF Single, Opens
  <2> QED BY <2>1, <2>2
<1>16. PageOK'
  BY <1>0, <1>6 DEF PageInv, PageOK
<1>17. PumpOK'
  <2>1. ASSUME NEW q \in wire' PROVE (Pumped(q) /\ Next1(q))'
    <3>1. CASE q = m
      BY <3>1, <1>3 DEF Pumped, Next1, LiveAppend
    <3>2. CASE q # m
      <4>1. Pumped(q) /\ Next1(q)
        BY <3>2 DEF PageInv, PumpOK
      <4>2. FinishMode' <=> FinishMode
        BY <1>0 DEF FinishMode
      <4>3. (\A x \in wire : ~LiveFinish(x)) => \A x \in wire' : ~LiveFinish(x)
        BY <1>3 DEF LiveFinish
      <4> QED BY <4>1, <4>2, <4>3, <1>0 DEF Pumped, Next1
    <3> QED BY <3>1, <3>2
  <2>2. Queued'
    BY <1>0 DEF PageInv, PumpOK, Queued
  <2> QED BY <2>1, <2>2, <1>0 DEF PageInv, PumpOK
<1>18. CountsOK'
  BY <1>0, <1>4 DEF CountsOK, Counted
<1>19. HonestOK'
  <2>1. ~Honest'
    <3>1. page.unconfirmedKind = None
      BY <1>5 DEF PageInv, PageOK
    <3> QED BY <3>1, <1>0, <1>5, WireConstants DEF Honest, FinishMode, Kind
  <2>2. \A q \in wire' : Ending(q) => q \in wire
    BY <1>3 DEF Ending
  <2> QED BY ZenonT(60), <2>1, <2>2, <1>0 DEF PageInv, HonestOK
<1>20. ShownOK'
  BY <1>0, <1>5 DEF ShownOK, OutcomeShownIsTrue, EvaluatedIsComplete
<1>21. HeldOK'
  <2> SUFFICES ASSUME NEW k \in Key, k \notin lost, Opening(k)' PROVE Held(k)'
    BY DEF HeldOK
  <2>1. Opening(k)
    BY <1>3 DEF Opening
  <2>2. Held(k)
    BY <2>1 DEF PageInv, HeldOK
  <2>3. CASE page.pendingBegin = k
    BY <2>3, <1>3 DEF Held
  <2>4. CASE \E q \in wire : /\ q.key = k
                             /\ \/ q.kind = "mount"
                                \/ q.kind \in {"resolve", "finish", "cancel"} /\ q.at = "way"
    BY <2>4 DEF Held
  <2> QED BY <2>2, <2>3, <2>4, <1>4, <1>6 DEF Held
<1> QED BY <1>9, <1>10, <1>11, <1>12, <1>13, <1>14, <1>15, <1>16, <1>17, <1>18, <1>19, <1>20,
           <1>21 DEF PageInv

\* The runtime is mounted, or cannot be used.
Ready(r, s, t, S) ==
    \/ s = "CAPTURING" /\ t = FALSE /\ S = {}
    \/ s = "CANCELLING" /\ t = TRUE /\ S = {Request("cancel", r.key, 0, FALSE)}

LEMMA MountEnds ==
    ASSUME PageInv, NEW r \in wire, r.at = "back", r.live, r.kind = "mount",
           NEW s, NEW l \in BOOLEAN, NEW t \in BOOLEAN, NEW S, Ready(r, s, t, S),
           page' = [page EXCEPT !.beginDoc = r.key, !.listening = l, !.state = s,
                                !.terminal = t],
           wire' = S \cup (wire \ {r}), UNCHANGED <<srv, verdict, lost, faults>>
    PROVE  PageInv'
<1>1. page \in Page /\ Typed /\ r \in Requests /\ r.key \in Key
  BY DEF PageInv, Typed, WireTypeOK, Requests
<1>2. Shape(r) /\ Starting(r) /\ ~r.quiet /\ Opens(r)
  BY DEF PageInv, ShapesOK, Shape, StartsOK, Opens
<1>3. \A k \in Key : k # None
  BY WireConstants
<1>4. /\ page.state = "STARTING" /\ r.key = page.keys /\ Clean(r.key) /\ Begun(r.key)
      /\ ~page.hidden /\ page.pendingBegin = None
      /\ \A q \in wire : q.key = r.key => q.kind \notin CaptureKind \cup {"resolve"}
  BY <1>2 DEF Starting, Shape
<1>5. /\ page.beginDoc = None /\ page.unconfirmedKind = None
      /\ ~page.nested /\ ~page.failed /\ ~page.pumping
      /\ page.queue = << >> /\ page.nextSequence = 0 /\ page.acked = 0
  BY <1>4 DEF PageInv, PageOK
<1>6. ASSUME NEW q \in wire, q # r, q.live PROVE FALSE
  <2>1. Shape(q) /\ Starting(q) /\ Single(q, r) /\ q \in Requests
    BY DEF PageInv, ShapesOK, StartsOK, SinglesOK, Typed, WireTypeOK, Requests
  <2>2. ~q.quiet /\ q.key \in Key
    BY <2>1, <1>6 DEF Shape, Requests
  <2>3. CASE q.kind \in CaptureKind
    BY <2>1, <2>2, <2>3, <1>3, <1>5, <1>6 DEF Shape
  <2>4. CASE q.kind \in {"begin", "mount"}
    BY <2>1, <2>2, <2>4, <1>2, <1>4, <1>6 DEF Starting, Opens, Single
  <2>5. CASE q.kind = "resolve"
    BY <2>1, <2>5, <1>5, <1>6, WireConstants DEF Shape, Kind
  <2> QED BY <2>1, <2>3, <2>4, <2>5 DEF Requests, Kind, CaptureKind
<1>7. ASSUME NEW q \in wire, q # r, Opens(q) PROVE q.key # r.key
  BY <1>2, <1>7 DEF PageInv, SinglesOK, Single
<1>8. s \in {"CAPTURING", "CANCELLING"} /\ s \in AttemptState
  BY DEF Ready, AttemptState
<1>9. ASSUME NEW x \in S
      PROVE  /\ s = "CANCELLING" /\ t
             /\ x.kind = "cancel" /\ x.key = r.key /\ x.seq = 0 /\ x.quiet = FALSE
             /\ x.live = TRUE /\ x.at = "way" /\ x.answer = None /\ x \in Requests
             /\ \A y \in S : x = y
  <2>1. s = "CANCELLING" /\ t = TRUE /\ x = Request("cancel", r.key, 0, FALSE) /\ \A y \in S : x = y
    BY DEF Ready
  <2>2. /\ x.kind = "cancel" /\ x.key = r.key /\ x.seq = 0 /\ x.quiet = FALSE
        /\ x.live = TRUE /\ x.at = "way" /\ x.answer = None /\ x \in Requests
    BY <2>1, <1>1 DEF Request, Requests, Kind
  <2> QED BY <2>1, <2>2
<1>0. /\ page'.state = s /\ page'.beginDoc = r.key /\ page'.queue = page.queue
      /\ page'.pumping = page.pumping /\ page'.nextSequence = page.nextSequence
      /\ page'.acked = page.acked /\ page'.terminal = t
      /\ page'.unconfirmedKind = page.unconfirmedKind /\ page'.pendingBegin = None
      /\ page'.resolving = page.resolving /\ page'.feedback = page.feedback
      /\ page'.keys = page.keys
      /\ page'.hidden = page.hidden /\ page'.nested = page.nested
      /\ page'.failed = page.failed /\ page'.sends = {} /\ page'.overtook = FALSE
  BY <1>1, <1>4 DEF Page, Typed
<1>10. \A q \in wire' : q \in S \/ (q \in wire /\ q # r)
  OBVIOUS
<1>11. Typed'
  <2>1. page' \in Page
    <3> DEFINE A == [page EXCEPT !.beginDoc = r.key]
               B == [A EXCEPT !.listening = l]
               C == [B EXCEPT !.state = s]
    <3>1. A \in Page
      BY <1>1 DEF Page
    <3> HIDE DEF A
    <3>2. B \in Page
      BY <3>1, ZenonT(40) DEF Page
    <3> HIDE DEF B
    <3>3. C \in Page
      BY <3>2, <1>8 DEF Page
    <3> HIDE DEF C
    <3>4. [C EXCEPT !.terminal = t] \in Page
      BY <3>3, ZenonT(40) DEF Page
    <3>5. page' = [C EXCEPT !.terminal = t]
      BY DEF A, B, C
    <3> QED BY <3>4, <3>5
  <2>2. wire' \subseteq Requests
    BY <1>1, <1>9 DEF Typed, WireTypeOK, Requests
  <2>3. WireTypeOK'
    BY <2>2, <1>1 DEF Typed, WireTypeOK, Requests
  <2> QED BY <2>1, <2>3, <1>0, <1>1 DEF Typed
<1>12. ServerOK'
  BY <1>0 DEF PageInv, ServerOK, KeyOK
<1>13. ShapesOK'
  <2> SUFFICES ASSUME NEW q \in wire' PROVE Shape(q)'
    BY DEF ShapesOK
  <2>1. CASE q \in S
    BY <2>1, <1>9, <1>2, <1>4, <1>0 DEF Shape, Begun, CaptureKind
  <2>2. CASE q \notin S
    <3>1. q \in wire /\ q # r /\ ~q.live /\ Shape(q)
      BY <2>2, <1>6, <1>10 DEF PageInv, ShapesOK
    <3>2. q.kind \in {"finish", "cancel"} => q.key # r.key
      BY <3>1, <1>4 DEF CaptureKind
    <3> QED BY <3>1, <3>2, <1>0 DEF Shape, Begun
  <2> QED BY <2>1, <2>2
<1>14. AnswersOK'
  <2> SUFFICES ASSUME NEW q \in wire' PROVE Told(q)'
    BY DEF AnswersOK
  <2>1. CASE q \in S
    BY <2>1, <1>9 DEF Told
  <2>2. CASE q \notin S
    BY <2>2, <1>10 DEF PageInv, AnswersOK, Told, Begun
  <2> QED BY <2>1, <2>2
<1>15. StartsOK'
  <2> SUFFICES ASSUME NEW q \in wire', Opens(q) PROVE Starting(q)'
    BY DEF StartsOK, Starting
  <2>1. q \notin S
    BY <1>9 DEF Opens
  <2>2. Starting(q) /\ q \in wire /\ q # r /\ q.key # r.key /\ q.key \in Key /\ ~q.live
    BY <2>1, <1>1, <1>6, <1>7, <1>10 DEF PageInv, StartsOK, Typed, WireTypeOK
  <2>3. \A x \in wire' : x.key = q.key => x \in wire
    BY <2>2, <1>9, <1>10
  <2> QED BY <2>2, <2>3, <1>0, <1>3, <1>4 DEF Starting
<1>16. RecoveriesOK'
  <2> SUFFICES ASSUME NEW k \in Key, Sought(k)' PROVE Recovering(k)'
    BY DEF RecoveriesOK, Recovering
  <2>1. PICK q \in wire : q.kind = "resolve" /\ q.key = k
    BY <1>0, <1>3, <1>9, <1>10 DEF Sought
  <2>2. k # r.key
    BY <2>1, <1>4
  <2>3. Sought(k)
    BY <2>1 DEF Sought
  <2> QED BY <2>2, <2>3, <1>0, <1>9, <1>10 DEF PageInv, RecoveriesOK, Recovering
<1>17. SinglesOK'
  <2> SUFFICES ASSUME NEW x \in wire', NEW q \in wire' PROVE Single(x, q)
    BY DEF SinglesOK, Single
  <2>1. CASE x \notin S /\ q \notin S
    BY <2>1, <1>10 DEF PageInv, SinglesOK
  <2>2. CASE x \in S \/ q \in S
    BY <2>2, <1>9 DEF Single, Opens
  <2> QED BY <2>1, <2>2
<1>18. PageOK'
  <2>1. page'.terminal <=> s = "CANCELLING"
    BY <1>0 DEF Ready
  <2>2. Begun(r.key)' /\ r.key <= page'.keys
    BY <1>2, <1>4, <1>0 DEF Begun, Shape
  <2> QED BY <2>1, <2>2, <1>0, <1>1, <1>3, <1>5, <1>8, WireConstants DEF PageOK, Kind
<1>19. PumpOK'
  <2>1. ASSUME NEW q \in wire' PROVE (Pumped(q) /\ Next1(q))'
    <3>1. CASE q \in S
      BY <3>1, <1>9 DEF Pumped, Next1, LiveAppend
    <3>2. CASE q \notin S
      BY <3>2, <1>6, <1>10 DEF PageInv, PumpOK, Pumped, Next1, LiveAppend
    <3> QED BY <3>1, <3>2
  <2>2. Queued'
    BY <1>0 DEF PageInv, PumpOK, Queued
  <2> QED BY <2>1, <2>2, <1>0, <1>5 DEF PumpOK
<1>20. CountsOK'
  <2> SUFFICES ASSUME NEW k \in Key, k = r.key PROVE Counted(k)'
    BY <1>0 DEF CountsOK, Counted
  <2>1. srv[k].count = 0 /\ verdict[k] = None
    BY <1>4 DEF Clean
  <2> QED BY <2>1, <1>0, <1>5 DEF Counted
<1>21. HonestOK'
  <2>1. ASSUME Honest' PROVE page'.state = "CAPTURING"
    BY <2>1, <1>0, <1>5, <1>8, WireConstants DEF Honest, FinishMode, Kind
  <2>2. ASSUME NEW k \in Key PROVE Complete(k)'
    <3> SUFFICES ASSUME k = r.key PROVE Complete(k)'
      BY <1>0 DEF Complete
    <3>1. srv[k].count = 0 /\ verdict[k] = None
      BY <1>4 DEF Clean
    <3>2. \A q \in wire' : ~(q.kind = "append" /\ q.key = k)
      BY <1>4, <1>9, <1>10 DEF CaptureKind
    <3> QED BY <3>1, <3>2, <1>0, <1>5 DEF Complete
  <2>3. Honest' => /\ ~page'.failed /\ page'.nextSequence = page'.acked + Len(page'.queue)
                   /\ page'.beginDoc # None /\ ~page'.terminal
    <3>1. Len(<< >>) = 0
      OBVIOUS
    <3>2. s = "CAPTURING" => ~t
      BY DEF Ready
    <3> QED BY <2>1, <3>1, <3>2, <1>0, <1>1, <1>3, <1>5
  <2>4. \A x, q \in wire' : Ending(x) /\ Ending(q) =>
          x = q /\ page'.state = (IF x.kind = "finish" THEN "FINISHING" ELSE "CANCELLING")
    <3> SUFFICES ASSUME NEW x \in wire', NEW q \in wire', Ending(x), Ending(q)
                 PROVE  x = q /\ page'.state = (IF x.kind = "finish" THEN "FINISHING" ELSE "CANCELLING")
      OBVIOUS
    <3>1. x \in S /\ q \in S
      BY <1>6, <1>10 DEF Ending
    <3>2. x = q /\ x.kind = "cancel" /\ s = "CANCELLING"
      BY <3>1, <1>9
    <3> QED BY <3>2, <1>0
  <2> QED BY <2>1, <2>2, <2>3, <2>4 DEF HonestOK
<1>22. ShownOK'
  BY <1>0, <1>8 DEF ShownOK, OutcomeShownIsTrue, EvaluatedIsComplete
<1>23. HeldOK'
  <2> SUFFICES ASSUME NEW k \in Key, k \notin lost, Opening(k)' PROVE Held(k)'
    BY DEF HeldOK
  <2>1. Opening(k)
    BY <1>9, <1>10 DEF Opening
  <2>2. Held(k)
    BY <2>1 DEF PageInv, HeldOK
  <2>3. PICK q \in wire : /\ q.key = k
                          /\ \/ q.kind = "mount"
                             \/ q.kind \in {"resolve", "finish", "cancel"} /\ q.at = "way"
    BY <2>2, <1>3, <1>4, <1>5 DEF Held
  <2>4. CASE q = r
    BY <2>3, <2>4, <1>0, <1>8 DEF Held, Active
  <2>5. CASE q # r
    BY <2>3, <2>5 DEF Held
  <2> QED BY <2>4, <2>5
<1> QED BY <1>11, <1>12, <1>13, <1>14, <1>15, <1>16, <1>17, <1>18, <1>19, <1>20, <1>21, <1>22,
           <1>23 DEF PageInv

LEMMA LessonLoadedKeeps == PageInv /\ LessonLoaded => PageInv'
<1> SUFFICES ASSUME PageInv, LessonLoaded PROVE PageInv'
  OBVIOUS
<1>1. page \in Page /\ page.resolving \in BOOLEAN
  BY DEF PageInv, Typed, Page
<1>2. page' = [page EXCEPT !.pendingBegin = page.pendingBegin, !.resolving = page.resolving,
                           !.lesson = TRUE]
  BY <1>1 DEF LessonLoaded, Page
<1>3. wire' = {} \cup (wire \ {}) /\ UNCHANGED <<srv, verdict, lost, faults>>
  BY DEF LessonLoaded, wvars
<1>4. \E pb \in {page.pendingBegin, None}, rs \in BOOLEAN, l \in BOOLEAN :
          /\ page' = [page EXCEPT !.pendingBegin = pb, !.resolving = rs, !.lesson = l]
          /\ page.pendingBegin # None /\ pb = None =>
                \E x \in {} : x.kind = "resolve" /\ x.key = page.pendingBegin
          /\ page.resolving => rs \/ \A q \in wire \ {} : ~(q.kind = "resolve" /\ ~q.quiet)
  BY <1>1, <1>2
<1>5. Aside({}, {})
  BY <1>3, <1>4 DEF Aside
<1> QED BY <1>5, AsideKeeps

LEMMA ResolveBeginKeeps == PageInv /\ ResolveBegin => PageInv'
<1> SUFFICES ASSUME PageInv, ResolveBegin PROVE PageInv'
  OBVIOUS
<1> DEFINE k == page.pendingBegin
           x == Request("resolve", k, 0, FALSE)
           p == [page EXCEPT !.resolving = TRUE, !.sends = {x}]
<1>1. /\ page \in Page /\ page.sends = {} /\ page.overtook = FALSE /\ page.lesson \in BOOLEAN
      /\ k \in Key /\ k # None /\ ~page.resolving /\ ~page.hidden
      /\ page.unconfirmedKind = "begin"
      /\ UNCHANGED <<srv, verdict, lost, faults>>
  BY DEF PageInv, Typed, Page, ResolveBegin
<1>2. /\ x.kind = "resolve" /\ x.key = k /\ x.quiet = FALSE /\ x.live = TRUE
      /\ x.at = "way" /\ x.answer = None /\ x \in Requests
  BY <1>1 DEF Request, Requests, Kind
<1>3. Ask([page EXCEPT !.resolving = TRUE], "resolve", k, 0) = p
  BY <1>1 DEF Ask, Page
<1>4. p \in Page /\ p.overtook = FALSE /\ p.sends = {x}
  BY ZenonT(60), <1>1, <1>2 DEF Page
<1>5. Done(p, wire)
  BY <1>3 DEF ResolveBegin
<1> HIDE DEF p
<1>6. page' = [p EXCEPT !.sends = {}] /\ wire' = {x} \cup wire
  BY <1>4, <1>5, DonePlainly
<1> USE DEF p
<1>7. page' = [page EXCEPT !.pendingBegin = k, !.resolving = TRUE, !.lesson = page.lesson]
  BY <1>1, <1>6 DEF Page
<1> HIDE DEF p
<1>8. page'.resolving = TRUE /\ page'.pendingBegin = k
  BY <1>1, <1>7 DEF Page
<1> HIDE DEF x, k
<1>9. Apart(x, {})
  BY <1>1, <1>2, <1>8 DEF Apart, k
<1>10. \E pb \in {page.pendingBegin, None}, rs \in BOOLEAN, l \in BOOLEAN :
          /\ page' = [page EXCEPT !.pendingBegin = pb, !.resolving = rs, !.lesson = l]
          /\ page.pendingBegin # None /\ pb = None =>
                \E y \in {x} : y.kind = "resolve" /\ y.key = page.pendingBegin
          /\ page.resolving => rs \/ \A q \in wire \ {} : ~(q.kind = "resolve" /\ ~q.quiet)
  BY <1>1, <1>7 DEF k
<1>11. wire' = {x} \cup (wire \ {})
  BY <1>6
<1>12. Aside({x}, {})
  BY <1>1, <1>9, <1>10, <1>11 DEF Aside
<1> QED BY <1>12, AsideKeeps

\* The answer comes to a page that no longer waits for it.
LEMMA LetGo ==
    ASSUME PageInv, NEW r \in wire, r.at = "back", r.kind \in {"begin", "mount", "resolve"},
           NEW S, NEW pb \in {page.pendingBegin, None}, NEW rs \in BOOLEAN,
           page' = [page EXCEPT !.pendingBegin = pb, !.resolving = rs],
           wire' = S \cup (wire \ {r}), UNCHANGED <<srv, verdict, lost, faults>>,
           rs = page.resolving \/ r.kind = "resolve",
           \A x \in S : Apart(x, {r}) /\ \A y \in S : x = y,
           r.kind = "mount" => \E x \in S : x.kind = "cancel" /\ x.key = r.key,
           page.pendingBegin # None /\ pb = None =>
               \E x \in S : x.kind = "resolve" /\ x.key = page.pendingBegin
    PROVE  PageInv'
<1>1. page \in Page /\ page.lesson \in BOOLEAN
  BY DEF PageInv, Typed, Page
<1>2. page.resolving => rs \/ \A q \in wire \ {r} : ~(q.kind = "resolve" /\ ~q.quiet)
  <2> SUFFICES ASSUME r.kind = "resolve", NEW q \in wire \ {r}, q.kind = "resolve", ~q.quiet
               PROVE  FALSE
    OBVIOUS
  <2>1. Shape(r) /\ Single(q, r)
    BY DEF PageInv, ShapesOK, SinglesOK
  <2> QED BY <2>1 DEF Shape, Single
<1>3. page' = [page EXCEPT !.pendingBegin = pb, !.resolving = rs, !.lesson = page.lesson]
  BY <1>1 DEF Page
<1>4. \E pb1 \in {page.pendingBegin, None}, rs1 \in BOOLEAN, l \in BOOLEAN :
          /\ page' = [page EXCEPT !.pendingBegin = pb1, !.resolving = rs1, !.lesson = l]
          /\ page.pendingBegin # None /\ pb1 = None =>
                \E x \in S : x.kind = "resolve" /\ x.key = page.pendingBegin
          /\ page.resolving => rs1 \/ \A q \in wire \ {r} : ~(q.kind = "resolve" /\ ~q.quiet)
  BY <1>1, <1>2, <1>3
<1>5. \A q \in {r} : /\ q \in wire /\ q.at = "back" /\ q.kind \in {"begin", "mount", "resolve"}
                     /\ q.kind = "mount" => \E x \in S : x.kind = "cancel" /\ x.key = q.key
  OBVIOUS
<1>6. Aside(S, {r})
  BY <1>4, <1>5 DEF Aside
<1> QED BY <1>6, AsideKeeps

LEMMA LiveIsAlive == ASSUME PageInv, NEW r \in wire PROVE Alive(r) <=> r.live
  BY DEF PageInv, ShapesOK, Shape, Alive

LEMMA BeginAnsweredKeeps ==
    ASSUME PageInv, NEW r \in wire, r.at = "back", r.kind = "begin", BeginAnswered(r),
           UNCHANGED <<srv, verdict, lost, faults>>
    PROVE  PageInv'
<1>1. /\ page \in Page /\ page.sends = {} /\ page.overtook = FALSE
      /\ page.resolving \in BOOLEAN /\ page.pendingBegin \in Key \cup {None}
      /\ r \in Requests /\ r.key \in Key /\ (Alive(r) <=> r.live)
  BY LiveIsAlive DEF PageInv, Typed, Page, WireTypeOK, Requests
<1>2. CASE ~r.live
  <2> DEFINE k == page.pendingBegin
             x == Request("resolve", k, 0, TRUE)
  <2>1. Done(KeepaliveResolve(page), wire \ {r})
    BY <1>1, <1>2 DEF BeginAnswered
  <2>2. CASE k = None
    <3>1. page' = [page EXCEPT !.sends = {}] /\ wire' = page.sends \cup (wire \ {r})
      BY <2>1, <2>2, <1>1, DonePlainly DEF KeepaliveResolve
    <3>2. wire' = {} \cup (wire \ {r})
      BY <3>1, <1>1
    <3>3. page' = [page EXCEPT !.pendingBegin = page.pendingBegin, !.resolving = page.resolving]
      BY <3>1, <1>1 DEF Page
    <3>4. page.pendingBegin = None
      BY <2>2
    <3> QED BY <3>2, <3>3, <3>4, <1>1, LetGo
  <2>3. CASE k # None
    <3> DEFINE p == [page EXCEPT !.sends = {x}, !.pendingBegin = None]
    <3>1. /\ x.kind = "resolve" /\ x.key = k /\ x.quiet = TRUE /\ x.live = FALSE
          /\ x.at = "way" /\ x.answer = None /\ x \in Requests
      BY <1>1, <2>3 DEF Request, Requests, Kind
    <3>2. KeepaliveResolve(page) = p
      BY <1>1, <2>3 DEF KeepaliveResolve, AskQuietly, Page
    <3>3. p \in Page /\ p.overtook = FALSE /\ p.sends = {x}
      BY ZenonT(60), <1>1, <3>1 DEF Page
    <3>4. Done(p, wire \ {r})
      BY <2>1, <3>2
    <3> HIDE DEF p
    <3>5. page' = [p EXCEPT !.sends = {}] /\ wire' = {x} \cup (wire \ {r})
      BY <3>3, <3>4, DonePlainly
    <3>6. page' = [page EXCEPT !.pendingBegin = None, !.resolving = page.resolving]
      BY <1>1, <3>5 DEF p, Page
    <3>7. page'.pendingBegin = None
      BY <3>6, <1>1 DEF Page
    <3> HIDE DEF x, k
    <3>8. Apart(x, {r})
      BY <3>1, <3>7 DEF Apart, k
    <3>9. /\ \A y \in {x} : Apart(y, {r}) /\ \A z \in {x} : y = z
          /\ \E y \in {x} : y.kind = "resolve" /\ y.key = page.pendingBegin
      BY <3>1, <3>8 DEF k
    <3>10. \E S : /\ wire' = S \cup (wire \ {r})
                  /\ \A y \in S : Apart(y, {r}) /\ \A z \in S : y = z
                  /\ \E y \in S : y.kind = "resolve" /\ y.key = page.pendingBegin
      BY <3>5, <3>9
    <3> QED BY <3>6, <3>10, <1>1, LetGo
  <2> QED BY <2>2, <2>3
<1>3. CASE r.live
  <2>1. /\ Shape(r) /\ Starting(r) /\ Opens(r)
        /\ r.answer \in [status : Status, count : Nat]
    BY <1>1, <1>3 DEF PageInv, ShapesOK, StartsOK, Shape, Opens, Requests
  <2>2. page.state = "STARTING" /\ page.beginDoc = None /\ Alive(r)
    BY <1>1, <1>3, <2>1 DEF Starting, PageInv, PageOK
  <2>3. CASE /\ ~DefinitiveBeginRefusal(r) /\ AcceptBeginGateway(page, r)
             /\ r.answer.status = "STARTED"
    <3> DEFINE m == [Request("mount", r.key, 0, FALSE) EXCEPT !.at = "back"]
               p == [page EXCEPT !.pendingBegin = None, !.sends = {m}]
    <3>1. m \in Requests
      BY <1>1 DEF Request, Requests, Kind
    <3> HIDE DEF m
    <3>2. [[page EXCEPT !.pendingBegin = None] EXCEPT !.sends = {m}] = p
      BY <1>1 DEF Page
    <3>3. p \in Page /\ p.overtook = FALSE /\ p.sends = {m}
      BY <1>1, <3>1 DEF Page
    <3>4. Done(p, wire \ {r})
      BY <2>2, <2>3, <3>2 DEF BeginAnswered, m
    <3> HIDE DEF p
    <3>5. page' = [p EXCEPT !.sends = {}] /\ wire' = {m} \cup (wire \ {r})
      BY <3>3, <3>4, DonePlainly
    <3>6. page' = [page EXCEPT !.pendingBegin = None]
      BY <1>1, <3>5 DEF p, Page
    <3>7. page.pendingBegin = r.key
      BY <2>3 DEF AcceptBeginGateway
    <3> QED BY <1>3, <2>3, <3>5, <3>6, <3>7, MountSent DEF m
  <2>4. CASE ~(/\ ~DefinitiveBeginRefusal(r) /\ AcceptBeginGateway(page, r)
               /\ r.answer.status = "STARTED")
    <3>1. \E s, u, fb, pb :
            /\ Ended(r, s, u, fb, pb)
            /\ Done([page EXCEPT !.pendingBegin = pb, !.unconfirmedKind = u,
                                 !.feedback = fb, !.state = s], wire \ {r})
      <4>1. CASE DefinitiveBeginRefusal(r)
        <5>1. Done([page EXCEPT !.pendingBegin = None, !.unconfirmedKind = None,
                                !.feedback = None, !.state = "IDLE"], wire \ {r})
          BY <2>2, <4>1 DEF BeginAnswered, Settle
        <5>2. Ended(r, "IDLE", None, None, None)
          BY <4>1 DEF Ended, DefinitiveBeginRefusal
        <5> QED BY <5>1, <5>2
      <4>2. CASE /\ ~DefinitiveBeginRefusal(r) /\ AcceptBeginGateway(page, r)
                 /\ r.answer.status = "INTERRUPTED"
        <5> DEFINE fb == [status |-> "INTERRUPTED", key |-> r.key, count |-> r.answer.count]
        <5>1. Done(Show(Settle([page EXCEPT !.pendingBegin = None], "INTERRUPTED", None),
                        "INTERRUPTED", r.key, r.answer.count), wire \ {r})
          BY <2>2, <4>2 DEF BeginAnswered
        <5>2. Show(Settle([page EXCEPT !.pendingBegin = None], "INTERRUPTED", None),
                        "INTERRUPTED", r.key, r.answer.count)
              = [page EXCEPT !.pendingBegin = None, !.unconfirmedKind = None,
                             !.feedback = fb, !.state = "INTERRUPTED"]
          BY <1>1 DEF Show, Settle, Page
        <5>3. Done([page EXCEPT !.pendingBegin = None, !.unconfirmedKind = None,
                                !.feedback = fb, !.state = "INTERRUPTED"], wire \ {r})
          BY <5>1, <5>2
        <5>4. Ended(r, "INTERRUPTED", None, fb, None)
          BY <4>2 DEF Ended
        <5> HIDE DEF fb
        <5> QED BY <5>3, <5>4
      <4>3. CASE /\ ~DefinitiveBeginRefusal(r)
                 /\ ~(AcceptBeginGateway(page, r) /\ r.answer.status = "INTERRUPTED")
        <5>1. Done(Settle(page, "UNCONFIRMED", "begin"), wire \ {r})
          BY <2>2, <2>4, <4>3 DEF BeginAnswered
        <5>2. Settle(page, "UNCONFIRMED", "begin")
              = [page EXCEPT !.pendingBegin = page.pendingBegin, !.unconfirmedKind = "begin",
                             !.feedback = None, !.state = "UNCONFIRMED"]
          BY <1>1 DEF Settle, Page
        <5>3. Ended(r, "UNCONFIRMED", "begin", None, page.pendingBegin)
          BY DEF Ended
        <5>4. Done([page EXCEPT !.pendingBegin = page.pendingBegin, !.unconfirmedKind = "begin",
                                !.feedback = None, !.state = "UNCONFIRMED"], wire \ {r})
          BY <5>1, <5>2
        <5> QED BY <5>3, <5>4
      <4> QED BY <4>1, <4>2, <4>3
    <3>2. PICK s, u, fb, pb :
            /\ Ended(r, s, u, fb, pb)
            /\ Done([page EXCEPT !.pendingBegin = pb, !.unconfirmedKind = u,
                                 !.feedback = fb, !.state = s], wire \ {r})
      BY <3>1
    <3> DEFINE p == [page EXCEPT !.pendingBegin = pb, !.unconfirmedKind = u,
                                 !.feedback = fb, !.state = s]
    <3>3. /\ s \in AttemptState /\ u \in {"begin", "finish", "cancel", None}
          /\ fb \in [status : Status, key : Key, count : Nat] \cup {None}
          /\ pb \in Key \cup {None}
      BY <3>2, <1>1, <2>1 DEF Ended, AttemptState, Status
    <3>4. p \in Page /\ p.overtook = FALSE /\ p.sends = {}
      BY ZenonT(60), <1>1, <3>3 DEF Page
    <3>5. Done(p, wire \ {r})
      BY <3>2
    <3> HIDE DEF p
    <3>6. page' = [p EXCEPT !.sends = {}] /\ wire' = {} \cup (wire \ {r})
      BY <3>4, <3>5, DonePlainly
    <3>7. page' = [page EXCEPT !.pendingBegin = pb, !.resolving = page.resolving,
                               !.unconfirmedKind = u, !.feedback = fb, !.state = s]
      BY <3>6, <1>1 DEF p, Page
    <3>8. wire' = wire \ {r}
      BY <3>6
    <3> QED BY <1>1, <1>3, <2>2, <3>2, <3>7, <3>8, BeginEnds
  <2> QED BY <2>3, <2>4
<1> QED BY <1>2, <1>3

LEMMA MountedKeeps ==
    ASSUME PageInv, NEW r \in wire, r.at = "back", r.kind = "mount",
           NEW mounted \in BOOLEAN, NEW connected \in BOOLEAN,
           Mounted(r, mounted, connected), UNCHANGED <<srv, verdict, lost, faults>>
    PROVE  PageInv'
<1>1. /\ page \in Page /\ page.sends = {} /\ page.overtook = FALSE
      /\ page.resolving \in BOOLEAN /\ page.pendingBegin \in Key \cup {None}
      /\ page.listening \in BOOLEAN
      /\ r \in Requests /\ r.key \in Key /\ (Alive(r) <=> r.live)
  BY LiveIsAlive DEF PageInv, Typed, Page, WireTypeOK, Requests
<1>2. CASE ~r.live
  <2> DEFINE x == Request("cancel", r.key, 0, TRUE)
             p == [page EXCEPT !.sends = {x}]
  <2>1. /\ x.kind = "cancel" /\ x.key = r.key /\ x.quiet = TRUE /\ x.live = FALSE
        /\ x.at = "way" /\ x.answer = None /\ x \in Requests
    BY <1>1 DEF Request, Requests, Kind
  <2>2. AskQuietly(page, "cancel", r.key) = p
    BY <1>1 DEF AskQuietly, Page
  <2>3. p \in Page /\ p.overtook = FALSE /\ p.sends = {x}
    BY ZenonT(60), <1>1, <2>1 DEF Page
  <2>4. Done(p, wire \ {r})
    BY <1>1, <1>2, <2>2 DEF Mounted
  <2> HIDE DEF p
  <2>5. page' = [p EXCEPT !.sends = {}] /\ wire' = {x} \cup (wire \ {r})
    BY <2>3, <2>4, DonePlainly
  <2>6. page' = [page EXCEPT !.pendingBegin = page.pendingBegin, !.resolving = page.resolving]
    BY <1>1, <2>5 DEF p, Page
  <2> HIDE DEF x
  <2>7. Apart(x, {r})
    BY <2>1 DEF Apart
  <2>8. /\ \A y \in {x} : Apart(y, {r}) /\ \A z \in {x} : y = z
        /\ \E y \in {x} : y.kind = "cancel" /\ y.key = r.key
    BY <2>1, <2>7
  <2>9. \E S : /\ wire' = S \cup (wire \ {r})
               /\ \A y \in S : Apart(y, {r}) /\ \A z \in S : y = z
               /\ \E y \in S : y.kind = "cancel" /\ y.key = r.key
    BY <2>5, <2>8
  <2> QED BY <2>6, <2>9, <1>1, LetGo
<1>3. CASE r.live
  <2>1. Shape(r) /\ Starting(r) /\ Opens(r)
    BY <1>3 DEF PageInv, ShapesOK, StartsOK, Shape, Opens
  <2>2. /\ page.state = "STARTING" /\ page.beginDoc = None /\ Alive(r)
        /\ page.terminal = FALSE /\ page.queue = << >>
    BY <1>1, <1>3, <2>1 DEF Starting, PageInv, PageOK, Page
  <2> DEFINE q == [page EXCEPT !.beginDoc = r.key]
             open == [q EXCEPT !.state = "CAPTURING", !.listening = TRUE]
             x == Request("cancel", r.key, 0, FALSE)
             bye == [page EXCEPT !.beginDoc = r.key, !.listening = FALSE,
                                 !.state = "CANCELLING", !.terminal = TRUE, !.sends = {x}]
  <2>3. /\ q \in Page /\ q.terminal = FALSE /\ q.beginDoc = r.key /\ q.sends = {}
        /\ open \in Page /\ open.terminal = FALSE /\ open.beginDoc = r.key /\ open.sends = {}
        /\ open.state = "CAPTURING" /\ open.overtook = FALSE
    BY ZenonT(60), <1>1, <2>2 DEF Page, AttemptState
  <2>4. x \in Requests
    BY <1>1 DEF Request, Requests, Kind
  <2> HIDE DEF x
  <2>5. PerformCancel(q, FALSE) = bye
    <3>1. PerformCancel(q, FALSE) =
             [q EXCEPT !.listening = FALSE, !.queue = << >>, !.state = "CANCELLING",
                       !.terminal = TRUE, !.sends = @ \cup {x}]
      <4> HIDE DEF q
      <4> QED BY <2>3, CancelSends DEF x
    <3>2. q.sends \cup {x} = {x}
      BY <2>3
    <3> QED BY ZenonT(60), <3>1, <3>2, <2>2, <1>1 DEF Page
  <2>6. Cancel(open, FALSE) = bye
    <3>1. Cancel(open, FALSE) = PerformCancel(open, FALSE)
      <4> HIDE DEF open
      <4> QED BY <2>3, <1>1, WireConstants DEF Cancel
    <3>2. PerformCancel(open, FALSE) =
             [open EXCEPT !.listening = FALSE, !.queue = << >>, !.state = "CANCELLING",
                       !.terminal = TRUE, !.sends = @ \cup {x}]
      <4> HIDE DEF open
      <4> QED BY <2>3, CancelSends DEF x
    <3>3. open.sends \cup {x} = {x}
      BY <2>3
    <3>4. open.queue = << >>
      BY <1>1, <2>2 DEF Page
    <3>5. [open EXCEPT !.listening = FALSE, !.queue = << >>, !.state = "CANCELLING",
                       !.terminal = TRUE, !.sends = {x}] = bye
      BY <1>1, <2>2 DEF Page
    <3> HIDE DEF bye, open
    <3> QED BY <3>1, <3>2, <3>3, <3>5
  <2>7. CASE mounted /\ connected
    <3>1. Done(open, wire \ {r})
      BY <2>2, <2>7 DEF Mounted
    <3> HIDE DEF open
    <3>2. page' = [open EXCEPT !.sends = {}] /\ wire' = open.sends \cup (wire \ {r})
      BY <2>3, <3>1, DonePlainly
    <3>3. wire' = {} \cup (wire \ {r})
      BY <3>2, <2>3
    <3>4. page' = [page EXCEPT !.beginDoc = r.key, !.listening = TRUE,
                               !.state = "CAPTURING", !.terminal = FALSE]
      BY <3>2, <1>1, <2>2 DEF open, Page
    <3>5. Ready(r, "CAPTURING", FALSE, {})
      BY DEF Ready
    <3> QED BY <1>3, <3>3, <3>4, <3>5, MountEnds
  <2>8. CASE ~(mounted /\ connected)
    <3>1. Done(bye, wire \ {r})
      BY <2>2, <2>5, <2>6, <2>8 DEF Mounted
    <3>2. bye \in Page /\ bye.overtook = FALSE /\ bye.sends = {x}
      BY <1>1, <2>4 DEF Page, AttemptState
    <3> HIDE DEF bye
    <3>3. page' = [bye EXCEPT !.sends = {}] /\ wire' = {x} \cup (wire \ {r})
      BY <3>1, <3>2, DonePlainly
    <3>4. page' = [page EXCEPT !.beginDoc = r.key, !.listening = FALSE,
                               !.state = "CANCELLING", !.terminal = TRUE]
      BY <3>3, <1>1 DEF bye, Page
    <3>5. Ready(r, "CANCELLING", TRUE, {x})
      BY DEF Ready, x
    <3> QED BY <1>3, <3>3, <3>4, <3>5, MountEnds
  <2> QED BY <2>7, <2>8
<1> QED BY <1>2, <1>3

LEMMA ResolveAnsweredKeeps ==
    ASSUME PageInv, NEW r \in wire, r.at = "back", r.kind = "resolve", ResolveAnswered(r),
           UNCHANGED <<srv, verdict, lost, faults>>
    PROVE  PageInv'
<1>1. /\ page \in Page /\ page.sends = {} /\ page.overtook = FALSE
      /\ page.resolving \in BOOLEAN /\ page.pendingBegin \in Key \cup {None}
      /\ r \in Requests /\ r.key \in Key /\ (Alive(r) <=> r.live)
  BY LiveIsAlive DEF PageInv, Typed, Page, WireTypeOK, Requests
<1>2. CASE ~r.live \/ page.pendingBegin # r.key
  <2> DEFINE p == [page EXCEPT !.resolving = FALSE]
  <2>1. Done(p, wire \ {r})
    BY <1>1, <1>2 DEF ResolveAnswered
  <2>2. p \in Page /\ p.overtook = FALSE /\ p.sends = {}
    BY <1>1 DEF Page
  <2> HIDE DEF p
  <2>3. page' = [p EXCEPT !.sends = {}] /\ wire' = {} \cup (wire \ {r})
    BY <2>1, <2>2, DonePlainly
  <2>4. page' = [page EXCEPT !.pendingBegin = page.pendingBegin, !.resolving = FALSE]
    BY <2>3, <1>1 DEF p, Page
  <2>5. /\ page.pendingBegin \in {page.pendingBegin, None} /\ FALSE \in BOOLEAN
        /\ \A x \in {} : Apart(x, {r}) /\ \A y \in {} : x = y
        /\ r.kind = "mount" => \E x \in {} : x.kind = "cancel" /\ x.key = r.key
    OBVIOUS
  <2>6. PICK S : S = {}
    OBVIOUS
  <2>7. /\ wire' = S \cup (wire \ {r})
        /\ \A x \in S : Apart(x, {r}) /\ \A y \in S : x = y
    BY <2>3, <2>6
  <2> QED BY <2>4, <2>5, <2>7, LetGo
<1>3. CASE r.live /\ page.pendingBegin = r.key
  <2>1. /\ page.beginDoc = None /\ Alive(r) /\ r.answer \in [status : Status, count : Nat]
    BY <1>1, <1>3, WireConstants DEF PageInv, PageOK, ShapesOK, Shape, Requests
  <2>2. \E s, u, fb, pb :
            /\ Ended(r, s, u, fb, pb)
            /\ Done([page EXCEPT !.pendingBegin = pb, !.resolving = FALSE,
                                 !.unconfirmedKind = u, !.feedback = fb, !.state = s], wire \ {r})
    <3>1. CASE AcceptBeginGateway(page, r) /\ r.answer.status = "NO_ATTEMPT"
      <4>1. Done(Settle([[page EXCEPT !.resolving = FALSE] EXCEPT !.pendingBegin = None],
                        "IDLE", None), wire \ {r})
        BY <1>3, <2>1, <3>1 DEF ResolveAnswered
      <4>2. Settle([[page EXCEPT !.resolving = FALSE] EXCEPT !.pendingBegin = None], "IDLE", None)
            = [page EXCEPT !.pendingBegin = None, !.resolving = FALSE,
                           !.unconfirmedKind = None, !.feedback = None, !.state = "IDLE"]
        BY <1>1 DEF Settle, Page
      <4>3. Ended(r, "IDLE", None, None, None)
        BY <3>1 DEF Ended
      <4>4. Done([page EXCEPT !.pendingBegin = None, !.resolving = FALSE,
                           !.unconfirmedKind = None, !.feedback = None, !.state = "IDLE"],
                 wire \ {r})
        BY <4>1, <4>2
      <4> QED BY <4>3, <4>4
    <3>2. CASE AcceptBeginGateway(page, r) /\ r.answer.status = "INTERRUPTED"
      <4> DEFINE fb == [status |-> "INTERRUPTED", key |-> r.key, count |-> r.answer.count]
      <4>1. Done(Show(Settle([[page EXCEPT !.resolving = FALSE] EXCEPT !.pendingBegin = None],
                             "INTERRUPTED", None), "INTERRUPTED", r.key, r.answer.count),
                 wire \ {r})
        BY <1>3, <2>1, <3>2 DEF ResolveAnswered
      <4>2. Show(Settle([[page EXCEPT !.resolving = FALSE] EXCEPT !.pendingBegin = None],
                        "INTERRUPTED", None), "INTERRUPTED", r.key, r.answer.count)
            = [page EXCEPT !.pendingBegin = None, !.resolving = FALSE,
                           !.unconfirmedKind = None, !.feedback = fb, !.state = "INTERRUPTED"]
        BY <1>1 DEF Show, Settle, Page
      <4>3. Ended(r, "INTERRUPTED", None, fb, None)
        BY <3>2 DEF Ended
      <4>4. Done([page EXCEPT !.pendingBegin = None, !.resolving = FALSE,
                           !.unconfirmedKind = None, !.feedback = fb, !.state = "INTERRUPTED"],
                 wire \ {r})
        BY <4>1, <4>2
      <4> HIDE DEF fb
      <4> QED BY <4>3, <4>4
    <3>3. CASE ~(AcceptBeginGateway(page, r) /\ r.answer.status \in {"NO_ATTEMPT", "INTERRUPTED"})
      <4>1. Done(Settle([page EXCEPT !.resolving = FALSE], "UNCONFIRMED", "begin"), wire \ {r})
        BY <1>3, <2>1, <3>3 DEF ResolveAnswered
      <4>2. Settle([page EXCEPT !.resolving = FALSE], "UNCONFIRMED", "begin")
            = [page EXCEPT !.pendingBegin = page.pendingBegin, !.resolving = FALSE,
                           !.unconfirmedKind = "begin", !.feedback = None,
                           !.state = "UNCONFIRMED"]
        BY <1>1 DEF Settle, Page
      <4>3. Ended(r, "UNCONFIRMED", "begin", None, page.pendingBegin)
        BY DEF Ended
      <4>4. Done([page EXCEPT !.pendingBegin = page.pendingBegin, !.resolving = FALSE,
                           !.unconfirmedKind = "begin", !.feedback = None,
                           !.state = "UNCONFIRMED"], wire \ {r})
        BY <4>1, <4>2
      <4> QED BY <4>3, <4>4
    <3> QED BY <3>1, <3>2, <3>3
  <2>3. PICK s, u, fb, pb :
            /\ Ended(r, s, u, fb, pb)
            /\ Done([page EXCEPT !.pendingBegin = pb, !.resolving = FALSE,
                                 !.unconfirmedKind = u, !.feedback = fb, !.state = s], wire \ {r})
    BY <2>2
  <2> DEFINE p == [page EXCEPT !.pendingBegin = pb, !.resolving = FALSE,
                               !.unconfirmedKind = u, !.feedback = fb, !.state = s]
  <2>4. /\ s \in AttemptState /\ u \in {"begin", "finish", "cancel", None}
        /\ fb \in [status : Status, key : Key, count : Nat] \cup {None}
        /\ pb \in Key \cup {None}
    BY <2>3, <1>1, <2>1 DEF Ended, AttemptState, Status
  <2>5. p \in Page /\ p.overtook = FALSE /\ p.sends = {}
    BY ZenonT(60), <1>1, <2>4 DEF Page
  <2>6. Done(p, wire \ {r})
    BY <2>3
  <2> HIDE DEF p
  <2>7. page' = [p EXCEPT !.sends = {}] /\ wire' = {} \cup (wire \ {r})
    BY <2>5, <2>6, DonePlainly
  <2>8. page' = [page EXCEPT !.pendingBegin = pb, !.resolving = FALSE,
                             !.unconfirmedKind = u, !.feedback = fb, !.state = s]
    BY <2>7, <1>1 DEF p, Page
  <2>9. wire' = wire \ {r} /\ FALSE \in BOOLEAN
    BY <2>7
  <2> QED BY <1>3, <2>1, <2>3, <2>8, <2>9, BeginEnds
<1> QED BY <1>2, <1>3

-----------------------------------------------------------------------------
\* What becomes of a request without the page's doing: in its place comes an
\* answer, a request that has got further, or one nobody waits for any more.
From(r, x) ==
    /\ x \in Requests /\ x.kind = r.kind /\ x.key = r.key /\ x.seq = r.seq
    /\ x.at = "back" =>
          /\ ~x.quiet /\ ~r.quiet /\ (x.live <=> r.live) /\ x.answer # None
          /\ r.at = "back" => x.answer.status = "lost"
    /\ x.at # "back" =>
          /\ r.at # "back" /\ x.answer = None /\ (x.quiet => ~x.live)
          /\ ~x.quiet => ~r.quiet /\ (x.live <=> r.live)
          /\ x.at = r.at \/ (x.at = "server" /\ r.kind = "begin")
Aged(x, y) == x.quiet /\ ~y.quiet /\ y.at = "back" /\ y.answer.status = "lost"
Moves(r, R) ==
    /\ r.kind # "mount" /\ wire' = R \cup (wire \ {r}) /\ page' = page
    /\ \A x \in R : From(r, x)
    /\ \A x, y \in R : x = y \/ Aged(x, y) \/ Aged(y, x)

\* What such a step may do on the server, to the key of the request.
Edge(r) ==
    /\ Begun(r.key) => Begun(r.key)'
    /\ verdict[r.key] # None => verdict'[r.key] = verdict[r.key]
    /\ \/ verdict'[r.key] = verdict[r.key]
       \/ /\ srv[r.key].phase = "capturing" /\ r.kind \in {"finish", "cancel", "resolve"}
          /\ verdict'[r.key].count = srv[r.key].count
       \/ srv[r.key].phase = "recovery_requested"
    /\ srv'[r.key].phase = "capturing" => srv[r.key].phase \in {"capturing", "preparing"}
    /\ \/ srv'[r.key].count = srv[r.key].count
       \/ /\ r.kind = "append" /\ r.at = "way" /\ srv'[r.key].count = srv[r.key].count + 1
          /\ verdict'[r.key] = verdict[r.key]
          /\ \A x \in wire' : x # r /\ (x \in wire \/ x.at = "back")
          /\ srv[r.key].phase = "capturing"
    /\ srv[r.key].phase \notin Openable => srv'[r.key].phase \notin Openable
    /\ srv'[r.key].phase = "recovery_requested" =>
           srv[r.key].phase = "recovery_requested" \/ r.kind = "resolve"
    /\ srv'[r.key].phase = "forgotten" => srv[r.key].phase = "forgotten"
    /\ srv[r.key].phase \in {"preparing", "recovery_requested"} /\ r.kind # "begin" =>
           srv'[r.key].phase \in {"preparing", "recovery_requested"}
    /\ srv'[r.key].phase = "unknown" => srv[r.key].phase = "unknown"
    /\ srv'[r.key].phase = "preparing" =>
           srv[r.key].phase = "preparing" \/ (r.kind = "begin" /\ r.at = "way")
    /\ r.kind \in {"resolve", "finish", "cancel"} /\ r.at = "way" =>
           srv'[r.key].phase \notin Openable \/ r.key \in lost'
    /\ r.at = "back" => srv'[r.key] = srv[r.key]
Moved(r) ==
    /\ \A k \in Key : k # r.key => srv'[k] = srv[k] /\ verdict'[k] = verdict[k]
    /\ lost \subseteq lost' /\ lost' \subseteq Key /\ faults' \in 0 .. MaxFaults
    /\ srv' \in [Key -> [phase : Phase, count : Nat]]
    /\ verdict' \in [Key -> [status : {"EVALUATED", "INTERRUPTED"}, count : Nat] \cup {None}]
    /\ KeyOK(r.key)' /\ Edge(r)
Arrives(r, R) ==
    \A x \in R : /\ Told(x)'
                 /\ x.at = "server" => srv'[r.key].phase \in {"preparing", "recovery_requested"}
                 /\ x.kind = "begin" /\ x.at = "way" => srv'[r.key].phase # "forgotten"

LEMMA MoveKeeps ==
    ASSUME PageInv, NEW r \in wire, NEW R, Moves(r, R), Moved(r), Arrives(r, R)
    PROVE  PageInv'
<1> DEFINE k == r.key
<1>1. Typed /\ r \in Requests /\ k \in Key /\ Shape(r) /\ Told(r) /\ Starting(r) /\ Next1(r)
      /\ KeyOK(k) /\ wire \subseteq Requests
  BY DEF PageInv, Typed, WireTypeOK, Requests, ShapesOK, AnswersOK, StartsOK, ServerOK, PumpOK
<1>2. r.kind # "mount" /\ wire' = R \cup (wire \ {r}) /\ page' = page
  BY DEF Moves
<1>3. ASSUME NEW x \in R PROVE From(r, x)
  BY DEF Moves
<1>4. \A x, y \in R : x = y \/ Aged(x, y) \/ Aged(y, x)
  BY DEF Moves
<1>5. Edge(r) /\ KeyOK(k)' /\ lost \subseteq lost'
      /\ \A c \in Key : c # k => srv'[c] = srv[c] /\ verdict'[c] = verdict[c]
  BY DEF Moved
<1>6. \A x \in wire' : x \in R \/ (x \in wire /\ x # r)
  BY <1>2
<1>7. \A x \in wire' : x \in Requests
  BY <1>1, <1>3, <1>6 DEF From
<1>8. \A c \in Key : c # None
  BY WireConstants
<1>9. Typed'
  <2>1. wire' \subseteq Requests
    BY <1>7
  <2>2. WireTypeOK'
    BY <2>1 DEF Moved, WireTypeOK, Requests
  <2> QED BY <2>2, <1>1, <1>2 DEF Typed
<1>10. ServerOK'
  <2> SUFFICES ASSUME NEW c \in Key PROVE KeyOK(c)'
    BY DEF ServerOK
  <2>1. CASE c = k
    BY <2>1, <1>5
  <2>2. CASE c # k
    BY <2>2, <1>2, <1>5 DEF PageInv, ServerOK, KeyOK
  <2> QED BY <2>1, <2>2
<1>11. \A c \in Key : Begun(c) => Begun(c)'
  BY <1>5 DEF Edge, Begun
<1>12. ShapesOK'
  <2> SUFFICES ASSUME NEW x \in wire' PROVE Shape(x)'
    BY DEF ShapesOK
  <2>1. CASE x \in R
    <3>1. From(r, x) /\ x \in Requests
      BY <2>1, <1>3, <1>7
    <3>2. /\ x.kind = r.kind /\ x.key = k /\ (x.live => r.live)
          /\ (x.quiet => ~x.live /\ x.at # "back")
          /\ (x.at = "back" <=> x.answer # None)
          /\ (r.quiet \/ r.live => x.quiet \/ x.live)
          /\ (~x.quiet => ~r.quiet)
      BY <3>1 DEF From, Requests
    <3>3. x.at = "server" => r.kind = "begin"
      BY <3>1, <1>1 DEF From, Shape
    <3>4. /\ x.at = "server" => srv'[k].phase \in {"preparing", "recovery_requested"}
          /\ x.kind = "begin" /\ x.at = "way" => srv'[k].phase # "forgotten"
      BY <2>1 DEF Arrives
    <3>5. Begun(k) => Begun(k)'
      BY <1>1, <1>11
    <3> QED BY <3>2, <3>3, <3>4, <3>5, <1>1, <1>2 DEF Shape
  <2>2. CASE x \in wire /\ x # r
    <3>1. Shape(x) /\ Single(x, r) /\ x.key \in Key /\ x \in Requests
      BY <2>2, <1>1 DEF PageInv, ShapesOK, SinglesOK, Requests
    <3>2. x.kind = "begin" /\ x.at = "way" => srv'[x.key].phase # "forgotten"
      BY <3>1, <1>5 DEF Shape, Edge
    <3>3. x.at = "server" => srv'[x.key].phase \in {"preparing", "recovery_requested"}
      <4> SUFFICES ASSUME x.at = "server"
                   PROVE  srv'[x.key].phase \in {"preparing", "recovery_requested"}
        OBVIOUS
      <4>1. x.kind = "begin" /\ srv[x.key].phase \in {"preparing", "recovery_requested"}
        BY <3>1 DEF Shape
      <4>2. CASE x.key # k
        BY <4>1, <4>2, <3>1, <1>5
      <4>3. CASE x.key = k /\ r.kind # "begin"
        BY <4>1, <4>3, <1>5 DEF Edge
      <4>4. CASE x.key = k /\ r.kind = "begin"
        <5>1. r.at = "back"
          BY <4>1, <4>4, <3>1, <2>2 DEF Single
        <5>2. srv'[k].phase \in {"preparing", "recovery_requested"}
          BY <4>1, <4>4, <5>1, <1>5 DEF Edge
        <5> QED BY <4>4, <5>2
      <4> QED BY <4>2, <4>3, <4>4
    <3>4. Begun(x.key) => Begun(x.key)'
      BY <3>1, <1>11
    <3> QED BY <3>1, <3>2, <3>3, <3>4, <1>2 DEF Shape
  <2> QED BY <2>1, <2>2, <1>6
<1>13. AnswersOK'
  <2> SUFFICES ASSUME NEW x \in wire' PROVE Told(x)'
    BY DEF AnswersOK
  <2>1. CASE x \in R
    BY <2>1 DEF Arrives
  <2>2. CASE x \in wire /\ x # r
    <3>1. Told(x) /\ Shape(x) /\ Single(r, x) /\ x.key \in Key /\ x \in Requests /\ KeyOK(x.key)
      BY <2>2, <1>1 DEF PageInv, AnswersOK, ShapesOK, SinglesOK, ServerOK, Requests
    <3>2. CASE x.key # k
      BY <3>1, <3>2, <1>5 DEF Told, Begun
    <3>3. CASE x.key = k
      <4> SUFFICES ASSUME x.at = "back", x.kind # "mount" PROVE Told(x)'
        BY DEF Told
      <4>1. x.answer # None
        BY <3>1 DEF Shape
      <4>2. x.answer.status \in {"EVALUATED", "INTERRUPTED"} => verdict'[k] = x.answer
        BY <3>1, <3>3, <4>1, <1>5 DEF Told, Edge
      <4>3. srv[k].phase \notin Openable => srv'[k].phase \notin Openable
        BY <1>5 DEF Edge
      <4>4. Begun(k) => Begun(k)'
        BY <1>1, <1>11
      <4>5. ASSUME x.answer.status = "ACK"
            PROVE  /\ srv'[k].phase = "capturing" => srv'[k].count = x.answer.count
                   /\ verdict'[k] # None => verdict'[k].count >= x.answer.count
        <5>1. /\ x.kind = "append" /\ Begun(k)
              /\ srv[k].phase = "capturing" => srv[k].count = x.answer.count
              /\ verdict[k] # None => verdict[k].count >= x.answer.count
          BY <3>1, <3>3, <4>5 DEF Told, Shape, CaptureKind
        <5>2. ~(r.kind = "append" /\ r.at = "way")
          BY <3>1, <3>3, <4>5, <5>1 DEF Single
        <5>3. srv'[k].count = srv[k].count
          BY <5>2, <1>5 DEF Edge
        <5>4. srv'[k].phase = "capturing" => srv[k].phase = "capturing"
          BY <5>1, <1>5 DEF Edge, Begun, Early
        <5>5. verdict'[k] = verdict[k] \/ (srv[k].phase = "capturing"
                                             /\ verdict'[k].count = srv[k].count)
          BY <5>1, <1>5 DEF Edge, Begun, Early
        <5>6. x.answer.count \in Nat
          BY <3>1, <4>1 DEF Requests
        <5> QED BY <5>1, <5>3, <5>4, <5>5, <5>6
      <4> QED BY <3>1, <3>3, <4>2, <4>3, <4>4, <4>5, <1>5 DEF Told
    <3> QED BY <3>2, <3>3
  <2> QED BY <2>1, <2>2, <1>6
<1>14. ASSUME NEW x \in wire'
       PROVE  \E q \in wire : /\ q.kind = x.kind /\ q.key = x.key /\ q.seq = x.seq
                              /\ x.live => q.live
                              /\ ~x.quiet => ~q.quiet /\ (x.live <=> q.live)
                              /\ x.at = "way" => q.at = "way"
                              /\ x.at # "back" => q.at # "back"
                              /\ x.kind = "mount" => q = x
                              /\ (q = r /\ x \in R) \/ (q = x /\ x # r)
  <2>1. CASE x \in R
    <3>1. From(r, x)
      BY <2>1, <1>3
    <3> QED BY <2>1, <3>1, <1>2 DEF From
  <2>2. CASE x \notin R
    BY <2>2, <1>6
  <2> QED BY <2>1, <2>2
<1>15. StartsOK'
  <2> SUFFICES ASSUME NEW x \in wire', Opens(x) PROVE Starting(x)'
    BY DEF StartsOK, Starting
  <2>1. PICK q \in wire : /\ q.kind = x.kind /\ q.key = x.key
                          /\ ~q.quiet /\ (x.live <=> q.live)
    BY <1>14 DEF Opens
  <2>2. Starting(q) /\ Opens(q)
    BY <2>1 DEF PageInv, StartsOK, Opens
  <2>3. ASSUME Clean(x.key) PROVE Clean(x.key)'
    <3>1. \A y \in wire' : y.key = x.key => y.kind \in {"begin", "mount"}
      BY <2>3, <1>14 DEF Clean
    <3>2. CASE x.key # k
      <4>1. x.key \in Key
        BY <1>7 DEF Requests
      <4> QED BY <2>3, <3>1, <3>2, <4>1, <1>5 DEF Clean
    <3>3. CASE x.key = k
      <4>1. r.kind = "begin"
        BY <2>3, <3>3, <1>2 DEF Clean
      <4> QED BY <2>3, <3>1, <3>3, <4>1, <1>5 DEF Clean, Edge
    <3> QED BY <3>2, <3>3
  <2>4. \A y \in wire' : \E z \in wire : z.kind = y.kind /\ z.key = y.key
    BY <1>14
  <2> QED BY <2>1, <2>2, <2>3, <2>4, <1>2 DEF Starting
<1>16. RecoveriesOK'
  <2> SUFFICES ASSUME NEW c \in Key, Sought(c)' PROVE Recovering(c)'
    BY DEF RecoveriesOK, Recovering
  <2>1. Sought(c) /\ Recovering(c)
    BY <1>2, <1>14 DEF Sought, PageInv, RecoveriesOK
  <2>2. srv'[c].count = srv[c].count
    <3>1. c = k => r.kind # "append"
      BY <2>1 DEF Recovering
    <3> QED BY <3>1, <1>5 DEF Edge
  <2>3. \A y \in wire' : \E z \in wire : z.kind = y.kind /\ z.key = y.key
    BY <1>14
  <2> QED BY <2>1, <2>2, <2>3, <1>2 DEF Recovering
<1>17. SinglesOK'
  <2> SUFFICES ASSUME NEW x \in wire', NEW y \in wire' PROVE Single(x, y)
    BY DEF SinglesOK, Single
  <2>1. CASE x \notin R /\ y \notin R
    BY <2>1, <1>6 DEF PageInv, SinglesOK
  <2>2. CASE x \in R /\ y \in R
    <3>1. From(r, x) /\ From(r, y) /\ (x = y \/ Aged(x, y) \/ Aged(y, x))
      BY <2>2, <1>3, <1>4
    <3>2. CASE x = y
      <4>1. x.at = "way" => x.at # "back"
        OBVIOUS
      <4> QED BY <3>2, <4>1 DEF Single
    <3>3. CASE Aged(x, y)
      BY <3>1, <3>3 DEF Single, Aged, From, Opens
    <3>4. CASE Aged(y, x)
      BY <3>1, <3>4 DEF Single, Aged, From, Opens
    <3> QED BY <3>1, <3>2, <3>3, <3>4
  <2>3. CASE x \in R /\ y \notin R
    <3>1. From(r, x) /\ y \in wire /\ y # r /\ Single(r, y) /\ Single(y, r)
      BY <2>3, <1>3, <1>6 DEF PageInv, SinglesOK
    <3> QED BY <3>1 DEF Single, From, Opens
  <2>4. CASE x \notin R /\ y \in R
    <3>1. From(r, y) /\ x \in wire /\ x # r /\ Single(r, x) /\ Single(x, r)
      BY <2>4, <1>3, <1>6 DEF PageInv, SinglesOK
    <3>2. r.kind = "append" => r.at # "server"
      BY <1>1 DEF Shape
    <3>3. y.kind = "append" /\ y.at = "back" /\ x.kind = "append" /\ x.at = "way" /\ x.key = y.key
            => y.answer.status = "lost"
      BY <3>1, <3>2, <1>1 DEF Single, From, Requests
    <3> QED BY <3>1, <3>3 DEF Single, From, Opens
  <2> QED BY <2>1, <2>2, <2>3, <2>4
<1>18. PageOK'
  <2>1. page.beginDoc # None => (Begun(page.beginDoc))'
    BY <1>1, <1>2, <1>11 DEF PageInv, PageOK, Typed, Page
  <2> QED BY <2>1, <1>2 DEF PageInv, PageOK
<1>19. PumpOK'
  <2>1. ASSUME NEW x \in wire' PROVE (Pumped(x) /\ Next1(x))'
    <3>1. PICK q \in wire : /\ q.kind = x.kind /\ q.key = x.key /\ q.seq = x.seq
                            /\ x.live => q.live
                            /\ x.at = "way" => q.at = "way"
                            /\ (q = r /\ x \in R) \/ (q = x /\ x # r)
      BY <1>14
    <3>2. Pumped(q) /\ Next1(q) /\ Shape(q) /\ Single(q, r) /\ x.key \in Key
      BY <3>1, <1>7 DEF PageInv, PumpOK, ShapesOK, SinglesOK, Requests
    <3>3. (\A y \in wire : ~LiveFinish(y)) => \A y \in wire' : ~LiveFinish(y)
      BY <1>14 DEF LiveFinish
    <3>4. Pumped(x)'
      BY <3>1, <3>2, <3>3, <1>2 DEF Pumped, LiveAppend, FinishMode
    <3>5. Next1(x)'
      <4> SUFFICES ASSUME x.kind = "append", x.at = "way", srv'[x.key].phase = "capturing"
                   PROVE  x.seq = srv'[x.key].count
        BY DEF Next1
      <4>1. Begun(x.key) /\ q.at = "way" /\ q.kind = "append"
        BY <3>1, <3>2 DEF Shape, CaptureKind
      <4>2. CASE x.key # k
        BY <4>1, <4>2, <3>1, <3>2, <1>5 DEF Next1
      <4>3. CASE x.key = k
        <5>1. srv[k].phase = "capturing"
          BY <4>1, <4>3, <1>5 DEF Edge, Begun, Early
        <5>2. ASSUME srv'[k].count # srv[k].count PROVE FALSE
          <6>1. /\ r.kind = "append" /\ r.at = "way" /\ x # r
                /\ x \in wire \/ x.at = "back"
            BY <5>2, <1>5 DEF Edge
          <6>2. x \in wire
            BY <6>1
          <6>3. Single(r, x)
            BY <6>2 DEF PageInv, SinglesOK
          <6> QED BY <6>1, <6>3, <4>3 DEF Single
        <5> QED BY <3>1, <3>2, <4>1, <4>3, <5>1, <5>2 DEF Next1
      <4> QED BY <4>2, <4>3
    <3> QED BY <3>4, <3>5
  <2>2. Queued'
    BY <1>2 DEF PageInv, PumpOK, Queued
  <2> QED BY <2>1, <2>2, <1>2 DEF PageInv, PumpOK
<1>20. CountsOK'
  <2> SUFFICES ASSUME NEW c \in Key, c = page.beginDoc PROVE Counted(c)'
    BY <1>2 DEF CountsOK, Counted
  <2>1. Counted(c) /\ Begun(c) /\ srv[c].count \in Nat /\ page.acked \in Nat
    BY <1>1, <1>8 DEF PageInv, CountsOK, PageOK, Typed, WireTypeOK, Page
  <2>2. CASE c # k
    BY <2>1, <2>2, <1>2, <1>5 DEF Counted
  <2>3. CASE c = k
    <3>1. srv'[c].phase = "capturing" => srv[c].phase = "capturing"
      BY <2>1, <2>3, <1>5 DEF Edge, Begun, Early
    <3>2. srv'[c].count \in {srv[c].count, srv[c].count + 1}
      BY <2>3, <1>5 DEF Edge
    <3>3. \/ verdict'[c] = verdict[c]
          \/ srv[c].phase = "capturing" /\ verdict'[c].count = srv[c].count
      BY <2>1, <2>3, <1>5 DEF Edge, Begun, Early
    <3> QED BY <2>1, <3>1, <3>2, <3>3, <1>2 DEF Counted
  <2> QED BY <2>2, <2>3
<1>21. HonestOK'
  <2>1. ASSUME NEW c \in Key, Honest, c = page.beginDoc PROVE Complete(c)'
    <3>1. Complete(c) /\ Begun(c)
      BY <2>1, <1>8 DEF PageInv, HonestOK, PageOK
    <3>2. ~page.pumping => \A x \in wire' : ~(x.kind = "append" /\ x.at = "way" /\ x.key = c)
      BY <2>1, <3>1, <1>14 DEF Complete
    <3>3. CASE c # k
      BY <2>1, <3>1, <3>2, <3>3, <1>2, <1>5 DEF Complete
    <3>4. CASE c = k
      <4>1. srv'[c].phase = "capturing" => srv[c].phase = "capturing"
        BY <3>1, <3>4, <1>5 DEF Edge, Begun, Early
      <4>2. ~page.pumping => srv'[c].count = srv[c].count
        BY <2>1, <3>1, <3>4, <1>5 DEF Edge, Complete
      <4>3. \/ verdict'[c] = verdict[c]
            \/ /\ srv[c].phase = "capturing" /\ verdict'[c].count = srv[c].count
               /\ r.kind \in {"finish", "cancel", "resolve"}
        BY <3>1, <3>4, <1>5 DEF Edge, Begun, Early
      <4>4. ~(r.kind = "resolve")
        BY <2>1, <3>4, <1>1 DEF PageInv, RecoveriesOK, Recovering, Sought
      <4>5. r.kind \in {"finish", "cancel"} => page.terminal /\ ~page.pumping
        BY <2>1, <3>4, <1>1 DEF Shape, PageInv, HonestOK
      <4> QED BY <2>1, <3>1, <3>2, <3>4, <4>1, <4>2, <4>3, <4>4, <4>5, <1>2 DEF Complete
    <3> QED BY <3>3, <3>4
  <2>2. Honest' <=> Honest
    BY <1>2 DEF Honest, FinishMode
  <2>3. \A c \in Key : Honest => Complete(c)'
    BY <2>1, <1>2 DEF Complete
  <2>4. ASSUME NEW x \in wire', NEW y \in wire', Ending(x), Ending(y), ~page.nested
        PROVE  x = y /\ page.state = (IF x.kind = "finish" THEN "FINISHING" ELSE "CANCELLING")
    <3>1. PICK p \in wire : /\ p.kind = x.kind /\ p.live
                            /\ (p = r /\ x \in R) \/ (p = x /\ x # r)
      BY <2>4, <1>14 DEF Ending
    <3>2. PICK q \in wire : /\ q.kind = y.kind /\ q.live
                            /\ (q = r /\ y \in R) \/ (q = y /\ y # r)
      BY <2>4, <1>14 DEF Ending
    <3>3. p = q /\ page.state = (IF p.kind = "finish" THEN "FINISHING" ELSE "CANCELLING")
      BY <2>4, <3>1, <3>2 DEF PageInv, HonestOK, Ending
    <3>4. x \in R /\ y \in R => x = y
      <4> SUFFICES ASSUME x \in R, y \in R PROVE x = y
        OBVIOUS
      <4>1. From(r, x) /\ From(r, y) /\ (x = y \/ Aged(x, y) \/ Aged(y, x))
        BY <1>3, <1>4
      <4> QED BY <4>1, <2>4, <1>7 DEF From, Aged, Ending, Requests
    <3> QED BY <3>1, <3>2, <3>3, <3>4
  <2> QED BY <2>2, <2>3, <2>4, <1>2 DEF PageInv, HonestOK
<1>22. ShownOK'
  <2> SUFFICES ASSUME page.state \in {"EVALUATED", "INTERRUPTED"}
               PROVE  verdict'[page.feedback.key] = verdict[page.feedback.key]
    BY <1>2 DEF PageInv, ShownOK, OutcomeShownIsTrue, EvaluatedIsComplete
  <2>1. /\ page.feedback \in [status : Status, key : Key, count : Nat]
        /\ verdict[page.feedback.key] = Answer(page.feedback.status, page.feedback.count)
    BY DEF PageInv, ShownOK, OutcomeShownIsTrue
  <2>2. Answer(page.feedback.status, page.feedback.count) \in [status : Status, count : Nat]
    BY <2>1 DEF Answer
  <2>3. verdict[page.feedback.key] # None
    BY <2>1, <2>2, WireConstants
  <2> QED BY <2>1, <2>3, <1>5 DEF Edge
<1>23. HeldOK'
  <2> SUFFICES ASSUME NEW c \in Key, c \notin lost', Opening(c)' PROVE Held(c)'
    BY DEF HeldOK
  <2>1. c \notin lost
    BY <1>5
  <2>2. CASE c # k
    <3>1. Opening(c)
      BY <2>2, <1>5, <1>14 DEF Opening
    <3>2. Held(c)
      BY <2>1, <3>1 DEF PageInv, HeldOK
    <3>3. \A q \in wire : q.key = c => q \in wire'
      BY <2>2, <1>2
    <3> QED BY <3>2, <3>3, <1>2 DEF Held
  <2>3. CASE c = k
    <3>1. Opening(c)
      <4>1. CASE srv'[c].phase = "capturing"
        BY <2>3, <4>1, <1>5 DEF Opening, Edge
      <4>2. CASE srv'[c].phase = "preparing"
        <5>1. srv[c].phase = "preparing" \/ (r.kind = "begin" /\ r.at = "way")
          BY <2>3, <4>2, <1>5 DEF Edge
        <5>2. srv[c].phase \in Openable
          BY <2>3, <4>2, <1>5 DEF Edge, Openable
        <5> QED BY <2>3, <5>1, <5>2 DEF Opening, Openable
      <4>3. CASE /\ srv'[c].phase = "unknown"
                 /\ \E x \in wire' : x.kind = "begin" /\ x.key = c /\ x.at = "way"
        <5>1. srv[c].phase = "unknown"
          BY <2>3, <4>3, <1>5 DEF Edge
        <5>2. \E x \in wire : x.kind = "begin" /\ x.key = c /\ x.at = "way"
          BY <4>3, <1>14
        <5> QED BY <5>1, <5>2 DEF Opening
      <4> QED BY <4>1, <4>2, <4>3 DEF Opening
    <3>2. Held(c)
      BY <2>1, <3>1 DEF PageInv, HeldOK
    <3>3. ~(r.kind \in {"resolve", "finish", "cancel"} /\ r.at = "way")
      BY <2>3, <1>5 DEF Edge, Opening, Openable
    <3>4. \A q \in wire : \/ q.kind = "mount"
                          \/ q.kind \in {"resolve", "finish", "cancel"} /\ q.at = "way"
                              => q \in wire'
      BY <3>3, <1>2
    <3> QED BY <3>2, <3>4, <1>2 DEF Held
  <2> QED BY <2>2, <2>3
<1> QED BY <1>9, <1>10, <1>12, <1>13, <1>15, <1>16, <1>17, <1>18, <1>19, <1>20, <1>21, <1>22,
           <1>23 DEF PageInv

\* A request is answered.
Says(r, s, c) ==
    /\ s = "STARTED" => r.kind = "begin" /\ Begun(r.key)'
    /\ s = "EVALUATED" => r.kind = "finish" /\ verdict'[r.key] = Answer(s, c)
    /\ s = "INTERRUPTED" => r.kind \notin {"finish", "append"} /\ verdict'[r.key] = Answer(s, c)
    /\ s = "ACK" => /\ r.kind = "append"
                    /\ srv'[r.key].phase = "capturing" => srv'[r.key].count = c
                    /\ verdict'[r.key] # None => verdict'[r.key].count >= c
    /\ s \in {"refused", "NO_ATTEMPT"} => srv'[r.key].phase \notin Openable
    /\ r.kind \in {"finish", "cancel"} => srv'[r.key].phase \notin Openable \/ r.key \in lost'

LEMMA ReplyIs ==
    ASSUME PageInv, NEW r \in wire, NEW s \in Status, NEW c \in Nat, Reply(r, s, c),
           r.at # "back"
    PROVE  \E R : /\ wire' = R \cup (wire \ {r})
                  /\ \A x \in R : /\ From(r, x) /\ x.at = "back" /\ x.answer = Answer(s, c)
                                  /\ \A y \in R : x = y
<1>1. r \in Requests
  BY DEF PageInv, Typed, WireTypeOK, Requests
<1> DEFINE x == [r EXCEPT !.at = "back", !.answer = Answer(s, c)]
<1>2. CASE r.quiet
  <2>1. PICK R : R = {}
    OBVIOUS
  <2>2. wire' = R \cup (wire \ {r})
    BY <2>1, <1>2 DEF Reply
  <2>3. \A y \in R : FALSE
    BY <2>1
  <2> QED BY <2>2, <2>3
<1>3. CASE ~r.quiet
  <2>1. Answer(s, c) \in [status : Status, count : Nat] /\ Answer(s, c) # None
    <3>1. Answer(s, c) \in [status : Status, count : Nat]
      BY DEF Answer
    <3> QED BY <3>1, WireConstants
  <2>2. /\ x \in Requests /\ x.at = "back" /\ x.answer = Answer(s, c) /\ x.kind = r.kind
        /\ x.key = r.key /\ x.seq = r.seq /\ x.quiet = r.quiet /\ x.live = r.live
    BY <1>1, <2>1 DEF Requests
  <2>3. wire' = {x} \cup (wire \ {r})
    BY <1>3 DEF Reply
  <2> HIDE DEF x
  <2>4. From(r, x)
    BY <1>3, <2>1, <2>2 DEF From
  <2>5. PICK R : R = {x}
    OBVIOUS
  <2>6. wire' = R \cup (wire \ {r})
    BY <2>3, <2>5
  <2>7. \A y \in R : y = x
    BY <2>5
  <2> QED BY <2>2, <2>4, <2>6, <2>7
<1> QED BY <1>2, <1>3

LEMMA ReplyKeeps ==
    ASSUME PageInv, NEW r \in wire, r.at # "back", r.kind # "mount",
           NEW s \in Status, NEW c \in Nat, Reply(r, s, c), page' = page,
           Moved(r), Says(r, s, c)
    PROVE  PageInv'
<1>1. PICK R : /\ wire' = R \cup (wire \ {r})
               /\ \A x \in R : /\ From(r, x) /\ x.at = "back" /\ x.answer = Answer(s, c)
                               /\ \A y \in R : x = y
  BY ReplyIs
<1>2. Moves(r, R)
  BY <1>1 DEF Moves
<1>3. Arrives(r, R)
  <2> SUFFICES ASSUME NEW x \in R PROVE Told(x)'
    BY <1>1 DEF Arrives
  <2>1. x.kind = r.kind /\ x.key = r.key /\ x.answer = Answer(s, c)
        /\ x.answer.status = s /\ x.answer.count = c
    BY <1>1 DEF From, Answer
  <2> QED BY <2>1 DEF Told, Says
<1> QED BY <1>2, <1>3, MoveKeeps

\* The server takes note.
LEMMA EntersIs ==
    ASSUME PageInv, NEW k \in Key, NEW p \in Phase, Enters(k, p)
    PROVE  /\ srv' \in [Key -> [phase : Phase, count : Nat]]
           /\ srv'[k].phase = p /\ srv'[k].count = srv[k].count /\ srv'[k].count \in Nat
           /\ \A c \in Key : c # k => srv'[c] = srv[c]
<1>1. srv \in [Key -> [phase : Phase, count : Nat]]
  BY DEF PageInv, Typed, WireTypeOK
<1> QED BY <1>1 DEF Enters

LEMMA StoresIs ==
    ASSUME PageInv, NEW k \in Key, NEW p \in Phase, NEW s \in {"EVALUATED", "INTERRUPTED"},
           Stores(k, p, s)
    PROVE  /\ Enters(k, p)
           /\ verdict' \in [Key -> [status : {"EVALUATED", "INTERRUPTED"}, count : Nat] \cup {None}]
           /\ verdict'[k] = Answer(s, srv[k].count) /\ verdict'[k].count = srv[k].count
           /\ \A c \in Key : c # k => verdict'[c] = verdict[c]
<1>1. /\ srv \in [Key -> [phase : Phase, count : Nat]]
      /\ verdict \in [Key -> [status : {"EVALUATED", "INTERRUPTED"}, count : Nat] \cup {None}]
  BY DEF PageInv, Typed, WireTypeOK
<1>2. Answer(s, srv[k].count) \in [status : {"EVALUATED", "INTERRUPTED"}, count : Nat]
      /\ Answer(s, srv[k].count).count = srv[k].count
  BY <1>1 DEF Answer
<1> QED BY <1>1, <1>2 DEF Stores

LEMMA RequestFacts ==
    ASSUME PageInv, NEW r \in wire
    PROVE  /\ r \in Requests /\ r.key \in Key /\ Shape(r) /\ Told(r) /\ KeyOK(r.key)
           /\ r.key <= page.keys /\ srv[r.key].phase \in Phase /\ srv[r.key].count \in Nat
           /\ lost \subseteq Key /\ faults \in 0 .. MaxFaults
           /\ srv \in [Key -> [phase : Phase, count : Nat]]
           /\ verdict \in [Key -> [status : {"EVALUATED", "INTERRUPTED"}, count : Nat] \cup {None}]
  BY DEF PageInv, Typed, WireTypeOK, Requests, ShapesOK, Shape, AnswersOK, ServerOK

\* Answers that change nothing on the server.
LEMMA TellKeeps ==
    ASSUME PageInv, NEW r \in wire, r.at # "back", r.kind # "mount",
           NEW s \in Status, NEW c \in Nat, Reply(r, s, c),
           UNCHANGED <<page, srv, verdict, lost, faults>>,
           r.kind \in {"resolve", "finish", "cancel"} => srv[r.key].phase \notin Openable,
           Says(r, s, c)
    PROVE  PageInv'
<1>1. KeyOK(r.key)'
  BY RequestFacts DEF KeyOK
<1>2. Edge(r)
  BY RequestFacts DEF Edge, Begun
<1>3. Moved(r)
  BY <1>1, <1>2, RequestFacts DEF Moved
<1> QED BY <1>3, ReplyKeeps

LEMMA RefusesKeeps ==
    ASSUME PageInv, NEW r \in wire, r.at # "back", r.kind # "mount", Refuses(r),
           UNCHANGED <<page, lost, faults>>,
           r.kind \in {"resolve", "finish", "cancel"} => srv[r.key].phase \notin Openable
    PROVE  PageInv'
<1>1. Says(r, "conflict", 0)
  BY DEF Says, Refuses
<1>2. "conflict" \in Status /\ 0 \in Nat
  BY DEF Status
<1> QED BY <1>1, <1>2, TellKeeps DEF Refuses

LEMMA ServeBeginKeeps ==
    ASSUME PageInv, NEW r \in wire, r.at = "way", r.kind = "begin", ServeBegin(r),
           UNCHANGED <<page, lost, faults>>
    PROVE  PageInv'
<1>1. CASE srv[r.key].phase \notin Unheard
  BY <1>1, RefusesKeeps DEF ServeBegin
<1>2. CASE srv[r.key].phase \in Unheard
  <2> DEFINE x == [r EXCEPT !.at = "server"]
  <2>1. Enters(r.key, "preparing") /\ verdict' = verdict
        /\ wire' = {x} \cup (wire \ {r})
    BY <1>2 DEF ServeBegin
  <2>2. /\ srv' \in [Key -> [phase : Phase, count : Nat]]
        /\ srv'[r.key].phase = "preparing" /\ srv'[r.key].count = srv[r.key].count
        /\ \A c \in Key : c # r.key => srv'[c] = srv[c]
    BY <2>1, RequestFacts, EntersIs DEF Phase
  <2>3. srv[r.key].phase = "unknown"
    BY <1>2, RequestFacts DEF Shape, Unheard
  <2>4. verdict[r.key] = None /\ srv[r.key].count = 0
    BY <2>3, RequestFacts DEF KeyOK, Closed, Early
  <2>5. KeyOK(r.key)'
    BY <2>1, <2>2, <2>4, RequestFacts DEF KeyOK
  <2>6. Edge(r)
    BY <2>1, <2>2, <2>3 DEF Edge, Begun, Early, Openable
  <2>7. Moved(r)
    BY <2>1, <2>2, <2>5, <2>6, RequestFacts DEF Moved
  <2>8. /\ x \in Requests /\ x.at = "server" /\ x.answer = r.answer /\ x.kind = r.kind
        /\ x.key = r.key /\ x.seq = r.seq /\ x.quiet = r.quiet /\ x.live = r.live
    BY RequestFacts DEF Requests
  <2> HIDE DEF x
  <2>9. From(r, x)
    BY <2>8, RequestFacts DEF From, Shape
  <2>10. Moves(r, {x}) /\ Arrives(r, {x})
    <3>1. Told(x)'
      BY <2>8 DEF Told
    <3> QED BY <2>1, <2>2, <2>8, <2>9, <3>1 DEF Moves, Arrives
  <2> QED BY <2>7, <2>10, MoveKeeps
<1> QED BY <1>1, <1>2

LEMMA PrepareKeeps ==
    ASSUME PageInv, NEW r \in wire, Prepare(r), page' = page
    PROVE  PageInv'
<1> DEFINE k == r.key
<1>1. /\ r.kind = "begin" /\ r.at = "server" /\ UNCHANGED <<lost, faults>>
      /\ k \in Key /\ k <= page.keys /\ lost \subseteq Key /\ faults \in 0 .. MaxFaults
      /\ srv[k].phase \in {"preparing", "recovery_requested"}
      /\ verdict \in [Key -> [status : {"EVALUATED", "INTERRUPTED"}, count : Nat] \cup {None}]
  BY RequestFacts DEF Prepare, Shape
<1>2. verdict[k] = None /\ srv[k].count = 0 /\ ~Begun(k)
  BY <1>1, RequestFacts DEF KeyOK, Closed, Early, Begun
<1>3. ASSUME NEW p, Enters(k, p), verdict' = verdict,
             \/ p = "capturing" /\ srv[k].phase = "preparing"
             \/ p \in {"failed_cancel", "no_attempt", "unresolved"}
      PROVE  Moved(r) /\ srv'[k].phase = p
  <2>1. p \in Phase
    BY <1>3 DEF Phase
  <2>2. /\ srv' \in [Key -> [phase : Phase, count : Nat]]
        /\ srv'[k].phase = p /\ srv'[k].count = 0
        /\ \A c \in Key : c # k => srv'[c] = srv[c]
    BY <2>1, <1>1, <1>2, <1>3, EntersIs
  <2>3. KeyOK(k)'
    BY <1>1, <1>2, <1>3, <2>2 DEF KeyOK
  <2>4. Edge(r)
    BY <1>1, <1>2, <1>3, <2>2 DEF Edge, Openable
  <2> QED BY <1>1, <1>3, <2>2, <2>3, <2>4 DEF Moved
<1>4. CASE srv[k].phase = "preparing" /\ Enters(k, "capturing")
           /\ Reply(r, "STARTED", 0) /\ verdict' = verdict
  <2>1. Moved(r) /\ srv'[k].phase = "capturing"
    BY <1>3, <1>4
  <2>2. Says(r, "STARTED", 0)
    BY <1>1, <2>1 DEF Says, Begun, Early
  <2> QED BY <1>1, <1>4, <2>1, <2>2, ReplyKeeps DEF Status
<1>5. CASE Enters(k, "failed_cancel") /\ Reply(r, "error", 0) /\ verdict' = verdict
  <2>1. Moved(r)
    BY <1>3, <1>5
  <2>2. Says(r, "error", 0)
    BY <1>1 DEF Says
  <2> QED BY <1>1, <1>5, <2>1, <2>2, ReplyKeeps DEF Status
<1>6. CASE Enters(k, "unresolved") /\ Reply(r, "error", 0) /\ verdict' = verdict
  <2>1. Moved(r)
    BY <1>3, <1>6
  <2>2. Says(r, "error", 0)
    BY <1>1 DEF Says
  <2> QED BY <1>1, <1>6, <2>1, <2>2, ReplyKeeps DEF Status
<1>7. CASE Enters(k, "no_attempt") /\ verdict' = verdict
           /\ \E status \in {"refused", "error"} : Reply(r, status, 0)
  <2>1. Moved(r) /\ srv'[k].phase = "no_attempt"
    BY <1>3, <1>7
  <2>2. PICK s \in {"refused", "error"} : Reply(r, s, 0)
    BY <1>7
  <2>3. Says(r, s, 0) /\ s \in Status
    BY <1>1, <2>1 DEF Says, Openable, Status
  <2> QED BY <1>1, <2>1, <2>2, <2>3, ReplyKeeps
<1>8. CASE srv[k].phase # "preparing" /\ Stores(k, "recovered", "INTERRUPTED")
           /\ Reply(r, "INTERRUPTED", 0)
  <2>1. /\ Enters(k, "recovered")
        /\ verdict' \in [Key -> [status : {"EVALUATED", "INTERRUPTED"}, count : Nat] \cup {None}]
        /\ verdict'[k] = Answer("INTERRUPTED", 0)
        /\ \A c \in Key : c # k => verdict'[c] = verdict[c]
    BY <1>1, <1>2, <1>8, StoresIs DEF Phase
  <2>2. /\ srv' \in [Key -> [phase : Phase, count : Nat]]
        /\ srv'[k].phase = "recovered" /\ srv'[k].count = 0
        /\ \A c \in Key : c # k => srv'[c] = srv[c]
    BY <2>1, <1>1, <1>2, EntersIs DEF Phase
  <2>3. KeyOK(k)'
    BY <1>1, <2>1, <2>2 DEF KeyOK, Closed
  <2>4. Edge(r)
    BY <1>1, <1>2, <1>8, <2>2 DEF Edge, Openable
  <2>5. Moved(r)
    BY <1>1, <2>1, <2>2, <2>3, <2>4 DEF Moved
  <2>6. Says(r, "INTERRUPTED", 0)
    BY <1>1, <2>1 DEF Says
  <2> QED BY <1>1, <1>8, <2>5, <2>6, ReplyKeeps DEF Status
<1> QED BY <1>4, <1>5, <1>6, <1>7, <1>8 DEF Prepare

LEMMA ServeAppendKeeps ==
    ASSUME PageInv, NEW r \in wire, r.at = "way", r.kind = "append", ServeAppend(r),
           UNCHANGED <<page, lost, faults>>
    PROVE  PageInv'
<1> DEFINE k == r.key
<1>1. CASE ~(srv[k].phase = "capturing" /\ r.seq = srv[k].count)
  BY <1>1, RefusesKeeps DEF ServeAppend
<1>2. CASE srv[k].phase = "capturing" /\ r.seq = srv[k].count
  <2>1. /\ srv' = [srv EXCEPT ![k].count = @ + 1] /\ verdict' = verdict
        /\ Reply(r, "ACK", srv[k].count + 1)
    BY <1>2 DEF ServeAppend
  <2>2. /\ srv' \in [Key -> [phase : Phase, count : Nat]]
        /\ srv'[k].phase = "capturing" /\ srv'[k].count = srv[k].count + 1
        /\ \A c \in Key : c # k => srv'[c] = srv[c]
    BY <1>2, <2>1, RequestFacts
  <2>3. verdict[k] = None
    BY <1>2, RequestFacts DEF KeyOK, Closed
  <2>4. KeyOK(k)'
    BY <2>1, <2>2, <2>3, RequestFacts DEF KeyOK, Early
  <2>5. \A x \in wire' : x # r /\ (x \in wire \/ x.at = "back")
    <3>1. srv[k].count + 1 \in Nat /\ "ACK" \in Status
      BY RequestFacts DEF Status
    <3>2. PICK R : /\ wire' = R \cup (wire \ {r})
                   /\ \A x \in R : x.at = "back"
      BY <2>1, <3>1, ReplyIs
    <3> QED BY <3>2
  <2>6. Edge(r)
    BY <1>2, <2>1, <2>2, <2>5 DEF Edge, Begun
  <2>7. Moved(r)
    BY <2>1, <2>2, <2>4, <2>6, RequestFacts DEF Moved
  <2>8. Says(r, "ACK", srv[k].count + 1)
    BY <2>1, <2>2, <2>3 DEF Says
  <2>9. srv[k].count + 1 \in Nat /\ "ACK" \in Status
    BY RequestFacts DEF Status
  <2> QED BY <2>1, <2>7, <2>8, <2>9, ReplyKeeps
<1> QED BY <1>1, <1>2

LEMMA ServeRecoveryKeeps ==
    ASSUME PageInv, NEW r \in wire, r.at = "way", r.kind = "resolve", ServeRecovery(r),
           UNCHANGED <<page, lost, faults>>
    PROVE  PageInv'
<1> DEFINE k == r.key
           phase == srv[k].phase
<1>1. /\ k \in Key /\ k <= page.keys /\ lost \subseteq Key /\ faults \in 0 .. MaxFaults
      /\ verdict \in [Key -> [status : {"EVALUATED", "INTERRUPTED"}, count : Nat] \cup {None}]
      /\ srv[k].count = 0 /\ KeyOK(k) /\ phase \in Phase
  <2>1. Sought(k)
    BY DEF Sought
  <2> QED BY <2>1, RequestFacts DEF PageInv, RecoveriesOK, Recovering
<1>2. ASSUME NEW p, Enters(k, p), verdict' = verdict,
             \/ p = "no_attempt" /\ phase \in {"unknown", "forgotten", "no_attempt"}
             \/ p = "recovery_requested" /\ phase \in {"preparing", "recovery_requested"}
             \/ p = "failed_cancel" /\ phase = "capturing"
      PROVE  Moved(r) /\ srv'[k].phase = p
  <2>1. p \in Phase
    BY <1>2 DEF Phase
  <2>2. /\ srv' \in [Key -> [phase : Phase, count : Nat]]
        /\ srv'[k].phase = p /\ srv'[k].count = 0
        /\ \A c \in Key : c # k => srv'[c] = srv[c]
    BY <2>1, <1>1, <1>2, EntersIs
  <2>3. KeyOK(k)'
    BY <1>1, <1>2, <2>2 DEF KeyOK, Closed
  <2>4. Edge(r)
    BY <1>1, <1>2, <2>2 DEF Edge, Openable, Begun, Early
  <2> QED BY <1>1, <1>2, <2>2, <2>3, <2>4 DEF Moved
<1>3. CASE phase \in Unheard \cup {"no_attempt"} /\ Enters(k, "no_attempt")
           /\ Reply(r, "NO_ATTEMPT", 0) /\ verdict' = verdict
  <2>1. Moved(r) /\ srv'[k].phase = "no_attempt"
    BY <1>2, <1>3 DEF Unheard
  <2>2. Says(r, "NO_ATTEMPT", 0)
    BY <2>1 DEF Says, Openable
  <2> QED BY <1>3, <2>1, <2>2, ReplyKeeps DEF Status
<1>4. CASE phase \in {"preparing", "recovery_requested"} /\ Enters(k, "recovery_requested")
           /\ Reply(r, "PENDING", 0) /\ verdict' = verdict
  <2>1. Moved(r)
    BY <1>2, <1>4
  <2>2. Says(r, "PENDING", 0)
    BY DEF Says
  <2> QED BY <1>4, <2>1, <2>2, ReplyKeeps DEF Status
<1>5. CASE phase = "capturing" /\ Stores(k, "recovered", "INTERRUPTED")
           /\ Reply(r, "INTERRUPTED", 0)
  <2>1. /\ Enters(k, "recovered")
        /\ verdict' \in [Key -> [status : {"EVALUATED", "INTERRUPTED"}, count : Nat] \cup {None}]
        /\ verdict'[k] = Answer("INTERRUPTED", 0) /\ verdict'[k].count = 0
        /\ \A c \in Key : c # k => verdict'[c] = verdict[c]
    BY <1>1, <1>5, StoresIs DEF Phase
  <2>2. /\ srv' \in [Key -> [phase : Phase, count : Nat]]
        /\ srv'[k].phase = "recovered" /\ srv'[k].count = 0
        /\ \A c \in Key : c # k => srv'[c] = srv[c]
    BY <2>1, <1>1, EntersIs DEF Phase
  <2>3. KeyOK(k)'
    BY <1>1, <2>1, <2>2 DEF KeyOK, Closed
  <2>4. verdict[k] = None
    BY <1>1, <1>5 DEF KeyOK, Closed
  <2>5. Edge(r)
    BY <1>1, <1>5, <2>1, <2>2, <2>4 DEF Edge, Openable, Begun, Early
  <2>6. Moved(r)
    BY <1>1, <2>1, <2>2, <2>3, <2>5 DEF Moved
  <2>7. Says(r, "INTERRUPTED", 0)
    BY <2>1 DEF Says
  <2> QED BY <1>5, <2>6, <2>7, ReplyKeeps DEF Status
<1>6. CASE phase = "capturing" /\ Enters(k, "failed_cancel") /\ Reply(r, "error", 0)
           /\ verdict' = verdict
  <2>1. Moved(r)
    BY <1>2, <1>6
  <2>2. Says(r, "error", 0)
    BY DEF Says
  <2> QED BY <1>6, <2>1, <2>2, ReplyKeeps DEF Status
<1>7. CASE phase = "recovered" /\ Reply(r, "INTERRUPTED", 0) /\ UNCHANGED <<srv, verdict>>
  <2>1. Says(r, "INTERRUPTED", 0)
    BY <1>1, <1>7 DEF Says, KeyOK
  <2> QED BY <1>7, <2>1, TellKeeps DEF Status, Openable
<1>8. CASE phase = "unresolved" /\ Reply(r, "error", 0) /\ UNCHANGED <<srv, verdict>>
  <2>1. Says(r, "error", 0)
    BY DEF Says
  <2> QED BY <1>8, <2>1, TellKeeps DEF Status, Openable
<1>9. CASE /\ \/ phase = "capturing" /\ srv[k].count > 0
              \/ phase \in {"evaluated", "interrupted", "failed_finish", "failed_cancel"}
           /\ Refuses(r)
  <2>1. phase \notin Openable
    BY <1>1, <1>9 DEF Openable
  <2> QED BY <1>9, <2>1, RefusesKeeps
<1> QED BY <1>3, <1>4, <1>5, <1>6, <1>7, <1>8, <1>9 DEF ServeRecovery

\* A finish or a cancel.
Terminal(r, closed, stored, status, failed) ==
    \/ /\ r.kind = "finish" /\ closed = "evaluated" /\ stored = {"evaluated"}
       /\ status = "EVALUATED" /\ failed = "failed_finish"
    \/ /\ r.kind = "cancel" /\ closed = "interrupted" /\ stored = {"interrupted", "recovered"}
       /\ status = "INTERRUPTED" /\ failed = "failed_cancel"

LEMMA ServeTerminalKeeps ==
    ASSUME PageInv, NEW r \in wire, r.at = "way",
           NEW closed, NEW stored, NEW status, NEW failed,
           Terminal(r, closed, stored, status, failed),
           ServeTerminal(r, closed, stored, status, failed),
           UNCHANGED <<page, lost, faults>>
    PROVE  PageInv'
<1> DEFINE k == r.key
           phase == srv[k].phase
<1>1. /\ k \in Key /\ k <= page.keys /\ lost \subseteq Key /\ faults \in 0 .. MaxFaults
      /\ verdict \in [Key -> [status : {"EVALUATED", "INTERRUPTED"}, count : Nat] \cup {None}]
      /\ srv[k].count \in Nat /\ KeyOK(k) /\ phase \in Phase
      /\ r.kind \in {"finish", "cancel"} /\ phase \notin Early
  BY RequestFacts DEF Terminal, Shape, CaptureKind, Begun
<1>2. /\ closed \in {"evaluated", "interrupted"} /\ failed \in {"failed_finish", "failed_cancel"}
      /\ closed \in Phase /\ failed \in Phase /\ status \in Status
      /\ status \in {"EVALUATED", "INTERRUPTED"} /\ closed \in stored
      /\ stored \subseteq {"evaluated", "interrupted", "recovered"}
  BY DEF Terminal, Phase, Status
<1>3. phase = "capturing" => verdict[k] = None
  BY <1>1 DEF KeyOK, Closed
<1>4. CASE phase = "capturing" /\ Stores(k, closed, status) /\ Reply(r, status, srv[k].count)
  <2>1. /\ Enters(k, closed)
        /\ verdict' \in [Key -> [status : {"EVALUATED", "INTERRUPTED"}, count : Nat] \cup {None}]
        /\ verdict'[k] = Answer(status, srv[k].count) /\ verdict'[k].count = srv[k].count
        /\ \A c \in Key : c # k => verdict'[c] = verdict[c]
    BY <1>1, <1>2, <1>4, StoresIs
  <2>2. /\ srv' \in [Key -> [phase : Phase, count : Nat]]
        /\ srv'[k].phase = closed /\ srv'[k].count = srv[k].count
        /\ \A c \in Key : c # k => srv'[c] = srv[c]
    BY <2>1, <1>1, <1>2, EntersIs
  <2>3. KeyOK(k)'
    BY <1>1, <2>1, <2>2 DEF KeyOK, Closed, Early, Terminal
  <2>4. Edge(r)
    BY <1>1, <1>2, <1>3, <1>4, <2>1, <2>2 DEF Edge, Openable, Begun, Early
  <2>5. Moved(r)
    BY <1>1, <2>1, <2>2, <2>3, <2>4 DEF Moved
  <2>6. Says(r, status, srv[k].count)
    BY <2>1, <2>2, <1>2 DEF Says, Terminal, Openable
  <2> QED BY <1>1, <1>2, <1>4, <2>5, <2>6, ReplyKeeps
<1>5. CASE phase = "capturing" /\ Enters(k, failed) /\ Reply(r, "error", 0) /\ verdict' = verdict
  <2>1. /\ srv' \in [Key -> [phase : Phase, count : Nat]]
        /\ srv'[k].phase = failed /\ srv'[k].count = srv[k].count
        /\ \A c \in Key : c # k => srv'[c] = srv[c]
    BY <1>1, <1>2, <1>5, EntersIs
  <2>2. KeyOK(k)'
    BY <1>1, <1>2, <1>3, <1>5, <2>1 DEF KeyOK, Early
  <2>3. Edge(r)
    BY <1>1, <1>2, <1>5, <2>1 DEF Edge, Openable, Begun, Early
  <2>4. Moved(r)
    BY <1>1, <1>5, <2>1, <2>2, <2>3 DEF Moved
  <2>5. Says(r, "error", 0)
    BY <2>1, <1>2 DEF Says, Openable
  <2> QED BY <1>1, <1>5, <2>4, <2>5, ReplyKeeps DEF Status
<1>6. CASE phase \in stored /\ Reply(r, status, srv[k].count) /\ UNCHANGED <<srv, verdict>>
  <2>1. phase \notin Openable
    BY <1>2, <1>6 DEF Openable
  <2>2. verdict[k] = Answer(status, srv[k].count)
    BY <1>1, <1>6 DEF Terminal, KeyOK
  <2>3. Says(r, status, srv[k].count)
    BY <1>2, <1>6, <2>1, <2>2 DEF Says, Terminal
  <2> QED BY <1>1, <1>2, <1>6, <2>1, <2>3, TellKeeps
<1>7. CASE phase = failed /\ Reply(r, "error", 0) /\ UNCHANGED <<srv, verdict>>
  <2>1. phase \notin Openable
    BY <1>2, <1>7 DEF Openable
  <2>2. Says(r, "error", 0)
    BY <1>7, <2>1 DEF Says
  <2> QED BY <1>1, <1>7, <2>1, <2>2, TellKeeps DEF Status
<1>8. CASE phase \notin stored \cup {"capturing", failed} /\ Refuses(r)
  <2>1. phase \notin Openable
    BY <1>1, <1>8 DEF Openable, Early
  <2> QED BY <1>1, <1>8, <2>1, RefusesKeeps
<1> QED BY <1>4, <1>5, <1>6, <1>7, <1>8 DEF ServeTerminal

LEMMA LoseKeeps ==
    ASSUME PageInv, NEW r \in wire, NEW delayed \in BOOLEAN, Lose(r, delayed), page' = page
    PROVE  PageInv'
<1> DEFINE x == [r EXCEPT !.quiet = TRUE, !.live = FALSE]
           y == [r EXCEPT !.at = "back", !.answer = Answer("lost", 0)]
           X == IF delayed THEN {x} ELSE {}
           Y == IF r.quiet THEN {} ELSE {y}
<1>1. /\ faults < MaxFaults /\ faults' = faults + 1 /\ r.kind # "mount"
      /\ (delayed => ~r.quiet /\ r.at # "back")
      /\ wire' = (wire \ {r}) \cup X \cup Y
      /\ lost' = IF r.kind \in {"begin", "append"} THEN lost ELSE lost \cup {r.key}
      /\ UNCHANGED <<srv, verdict>>
  BY DEF Lose
<1>2. Answer("lost", 0) \in [status : Status, count : Nat] /\ Answer("lost", 0) # None
      /\ Answer("lost", 0).status = "lost"
  <2>1. Answer("lost", 0) \in [status : Status, count : Nat]
    BY DEF Answer, Status
  <2> QED BY <2>1, WireConstants DEF Answer
<1>3. /\ x \in Requests /\ x.quiet = TRUE /\ x.live = FALSE /\ x.kind = r.kind /\ x.key = r.key
      /\ x.seq = r.seq /\ x.at = r.at /\ x.answer = r.answer
  BY RequestFacts DEF Requests
<1>4. /\ y \in Requests /\ y.quiet = r.quiet /\ y.live = r.live /\ y.kind = r.kind
      /\ y.key = r.key /\ y.seq = r.seq /\ y.at = "back" /\ y.answer = Answer("lost", 0)
  BY <1>2, RequestFacts DEF Requests
<1> HIDE DEF x, y
<1>5. delayed => From(r, x)
  BY <1>1, <1>3, RequestFacts DEF From, Shape
<1>6. ~r.quiet => From(r, y)
  BY <1>2, <1>4 DEF From
<1>7. PICK R : R = X \cup Y
  OBVIOUS
<1>8. \A z \in R : (z = x /\ delayed) \/ (z = y /\ ~r.quiet)
  BY <1>7
<1>9. ~r.quiet => Aged(x, y)
  BY <1>2, <1>3, <1>4 DEF Aged
<1>10. wire' = R \cup (wire \ {r})
  BY <1>1, <1>7
<1>11. Moves(r, R)
  BY <1>1, <1>5, <1>6, <1>8, <1>9, <1>10 DEF Moves
<1>12. Moved(r)
  <2>1. KeyOK(r.key)'
    BY <1>1, RequestFacts DEF KeyOK
  <2>2. Edge(r)
    BY <1>1, RequestFacts DEF Edge, Begun
  <2>3. lost \subseteq lost' /\ lost' \subseteq Key
    BY <1>1, RequestFacts
  <2>4. faults' \in 0 .. MaxFaults
    BY <1>1, RequestFacts, WireConstants
  <2> QED BY <1>1, <2>1, <2>2, <2>3, <2>4, RequestFacts DEF Moved
<1>13. Arrives(r, R)
  <2> SUFFICES ASSUME NEW z \in R
               PROVE  /\ Told(z)'
                      /\ z.at = "server" =>
                             srv'[r.key].phase \in {"preparing", "recovery_requested"}
                      /\ z.kind = "begin" /\ z.at = "way" => srv'[r.key].phase # "forgotten"
    BY DEF Arrives
  <2>1. CASE z = x /\ delayed
    <3>1. r.kind = "begin" /\ r.at = "way" => srv[r.key].phase # "forgotten"
      BY RequestFacts DEF Shape
    <3> QED BY <2>1, <3>1, <1>1, <1>3, RequestFacts DEF Told, Shape
  <2>2. CASE z = y /\ ~r.quiet
    BY <2>2, <1>1, <1>2, <1>4 DEF Told
  <2> QED BY <2>1, <2>2, <1>8
<1> QED BY <1>11, <1>12, <1>13, MoveKeeps

\* The server starts again.
LEMMA RestartKeeps == PageInv /\ Restart /\ page' = page => PageInv'
<1> SUFFICES ASSUME PageInv, Restart, page' = page PROVE PageInv'
  OBVIOUS
<1> DEFINE Late(q) == [q EXCEPT !.at = "back", !.answer = Answer("lost", 0)]
<1>1. /\ faults < MaxFaults /\ faults' = faults + 1 /\ verdict' = verdict /\ lost' = lost
      /\ srv' = [k \in Key |-> IF srv[k].phase = "unknown" THEN srv[k]
                               ELSE [phase |-> "forgotten", count |-> 0]]
      /\ wire' = {r \in wire : r.at = "back"} \cup
                 {Late(r) : r \in {q \in wire : q.at # "back" /\ ~q.quiet}}
  BY DEF Restart
<1>2. /\ Typed /\ page \in Page /\ wire \subseteq Requests /\ lost \subseteq Key /\ faults \in 0 .. MaxFaults
      /\ srv \in [Key -> [phase : Phase, count : Nat]]
      /\ verdict \in [Key -> [status : {"EVALUATED", "INTERRUPTED"}, count : Nat] \cup {None}]
  BY DEF PageInv, Typed, WireTypeOK, Requests
<1>3. Answer("lost", 0) \in [status : Status, count : Nat] /\ Answer("lost", 0) # None
      /\ Answer("lost", 0).status = "lost"
  <2>1. Answer("lost", 0) \in [status : Status, count : Nat]
    BY DEF Answer, Status
  <2> QED BY <2>1, WireConstants DEF Answer
<1>4. ASSUME NEW q \in wire
      PROVE  /\ Late(q) \in Requests /\ Late(q).kind = q.kind /\ Late(q).key = q.key
             /\ Late(q).seq = q.seq /\ Late(q).quiet = q.quiet /\ Late(q).live = q.live
             /\ Late(q).at = "back" /\ Late(q).answer = Answer("lost", 0)
  <2>1. q \in Requests
    BY <1>2
  <2> QED BY <2>1, <1>3 DEF Requests
<1> HIDE DEF Late
<1>5. ASSUME NEW k \in Key
      PROVE  /\ srv'[k].count = 0 /\ srv'[k].phase \in {"unknown", "forgotten"}
             /\ srv[k].phase = "unknown" <=> srv'[k].phase = "unknown"
             /\ srv'[k] \in [phase : Phase, count : Nat] /\ KeyOK(k)
  <2>1. KeyOK(k)
    BY DEF PageInv, ServerOK
  <2>2. srv[k].phase = "unknown" => srv[k].count = 0
    BY <2>1 DEF KeyOK, Early
  <2> QED BY <2>1, <2>2, <1>1, <1>2 DEF Phase
<1>6. ASSUME NEW x \in wire'
      PROVE  /\ x.at = "back" /\ ~x.quiet /\ x \in Requests
             /\ \E q \in wire : /\ q.kind = x.kind /\ q.key = x.key /\ q.seq = x.seq
                                /\ q.quiet = x.quiet /\ q.live = x.live
                                /\ \/ q.at = "back" /\ x = q
                                   \/ /\ q.at # "back" /\ x = Late(q)
                                      /\ x.answer = Answer("lost", 0)
  <2>1. CASE x \in wire /\ x.at = "back"
    <3>1. Shape(x)
      BY <2>1 DEF PageInv, ShapesOK
    <3> QED BY <2>1, <3>1, <1>2 DEF Shape
  <2>2. CASE \E q \in wire : q.at # "back" /\ ~q.quiet /\ x = Late(q)
    BY <2>2, <1>4
  <2> QED BY <2>1, <2>2, <1>1
<1>7. \A k \in Key : Begun(k) => Begun(k)'
  BY <1>5 DEF Begun, Early
<1>8. Typed'
  <2>1. srv' \in [Key -> [phase : Phase, count : Nat]]
    BY <1>1, <1>5
  <2>2. wire' \subseteq Requests
    BY <1>6
  <2>3. faults' \in 0 .. MaxFaults
    BY <1>1, <1>2, WireConstants
  <2>4. WireTypeOK'
    BY <1>1, <1>2, <2>1, <2>2, <2>3 DEF WireTypeOK, Requests
  <2> QED BY <1>2, <2>4 DEF Typed
<1>9. ServerOK'
  <2> SUFFICES ASSUME NEW k \in Key PROVE KeyOK(k)'
    BY DEF ServerOK
  <2> QED BY <1>1, <1>5 DEF KeyOK, Closed
<1>10. ShapesOK'
  <2> SUFFICES ASSUME NEW x \in wire' PROVE Shape(x)'
    BY DEF ShapesOK
  <2>1. PICK q \in wire : /\ q.kind = x.kind /\ q.key = x.key
                          /\ q.quiet = x.quiet /\ q.live = x.live
                          /\ \/ q.at = "back" /\ x = q
                             \/ q.at # "back" /\ x = Late(q) /\ x.answer = Answer("lost", 0)
    BY <1>6
  <2>2. Shape(q) /\ x.at = "back" /\ ~x.quiet /\ x.key \in Key
    BY <1>6 DEF PageInv, ShapesOK, Requests
  <2> QED BY <2>1, <2>2, <1>3, <1>7 DEF Shape
<1>11. AnswersOK'
  <2> SUFFICES ASSUME NEW x \in wire' PROVE Told(x)'
    BY DEF AnswersOK
  <2>1. PICK q \in wire : /\ q.kind = x.kind /\ q.key = x.key
                          /\ \/ q.at = "back" /\ x = q
                             \/ q.at # "back" /\ x.answer = Answer("lost", 0)
    BY <1>6
  <2>2. Shape(q) /\ Told(q) /\ x.key \in Key
    BY <1>6 DEF PageInv, ShapesOK, AnswersOK, Requests
  <2>3. srv[x.key].phase # "unknown" => srv'[x.key].phase \notin Openable
    BY <2>2, <1>5 DEF Openable
  <2>4. CASE q.at = "back" /\ x = q
    <3>1. srv[x.key].phase \notin Openable => srv'[x.key].phase \notin Openable
      BY <2>3 DEF Openable
    <3>2. srv'[x.key].phase # "capturing"
      BY <2>2, <1>5
    <3> QED BY <2>2, <2>4, <3>1, <3>2, <1>1, <1>7 DEF Told
  <2>5. CASE q.at # "back" /\ x.answer = Answer("lost", 0)
    <3>1. x.kind \in {"finish", "cancel"} => srv[x.key].phase # "unknown"
      BY <2>1, <2>2 DEF Shape, CaptureKind, Begun, Early
    <3> QED BY <2>3, <2>5, <3>1, <1>3 DEF Told
  <2> QED BY <2>1, <2>4, <2>5
<1>12. StartsOK'
  <2> SUFFICES ASSUME NEW x \in wire', Opens(x) PROVE Starting(x)'
    BY DEF StartsOK, Starting
  <2>1. PICK q \in wire : q.kind = x.kind /\ q.key = x.key /\ q.quiet = x.quiet /\ q.live = x.live
    BY <1>6
  <2>2. Starting(q) /\ Opens(q) /\ x.key \in Key
    BY <2>1, <1>6 DEF PageInv, StartsOK, Opens, Requests
  <2>3. \A y \in wire' : \E z \in wire : z.kind = y.kind /\ z.key = y.key
    BY <1>6
  <2>4. Clean(x.key) => Clean(x.key)'
    BY <2>2, <2>3, <1>1, <1>5 DEF Clean
  <2> QED BY <2>1, <2>2, <2>3, <2>4 DEF Starting
<1>13. RecoveriesOK'
  <2> SUFFICES ASSUME NEW k \in Key, Sought(k)' PROVE Recovering(k)'
    BY DEF RecoveriesOK, Recovering
  <2>1. \A y \in wire' : \E z \in wire : z.kind = y.kind /\ z.key = y.key
    BY <1>6
  <2>2. Sought(k) /\ Recovering(k)
    BY <2>1 DEF Sought, PageInv, RecoveriesOK
  <2> QED BY <2>1, <2>2, <1>5 DEF Recovering
<1>14. SinglesOK'
  <2> SUFFICES ASSUME NEW x \in wire', NEW y \in wire' PROVE Single(x, y)
    BY DEF SinglesOK, Single
  <2>1. PICK p \in wire : /\ p.kind = x.kind /\ p.key = x.key
                          /\ p.quiet = x.quiet /\ p.live = x.live
                          /\ (p.at = "back" /\ x = p) \/ (p.at # "back" /\ x = Late(p))
    BY <1>6
  <2>2. PICK q \in wire : /\ q.kind = y.kind /\ q.key = y.key
                          /\ q.quiet = y.quiet /\ q.live = y.live
                          /\ (q.at = "back" /\ y = q) \/ (q.at # "back" /\ y = Late(q))
    BY <1>6
  <2>3. Single(p, q) /\ x.at = "back" /\ y.at = "back"
    BY <1>6 DEF PageInv, SinglesOK
  <2>4. p = q => x = y
    BY <2>1, <2>2
  <2> QED BY <2>1, <2>2, <2>3, <2>4 DEF Single, Opens
<1>15. PageOK'
  <2>1. page.beginDoc # None => (Begun(page.beginDoc))'
    BY <1>2, <1>7 DEF PageInv, PageOK, Page
  <2> QED BY <2>1 DEF PageInv, PageOK
<1>16. PumpOK'
  <2>1. ASSUME NEW x \in wire' PROVE (Pumped(x) /\ Next1(x))'
    <3>1. PICK q \in wire : q.kind = x.kind /\ q.seq = x.seq /\ q.live = x.live
      BY <1>6
    <3>2. Pumped(q)
      BY DEF PageInv, PumpOK
    <3>3. (\A z \in wire : ~LiveFinish(z)) => \A z \in wire' : ~LiveFinish(z)
      BY <1>6 DEF LiveFinish
    <3>4. Pumped(x)'
      BY <3>1, <3>2, <3>3 DEF Pumped, LiveAppend, FinishMode
    <3>5. Next1(x)'
      BY <1>6 DEF Next1
    <3> QED BY <3>4, <3>5
  <2>2. Queued'
    BY DEF PageInv, PumpOK, Queued
  <2> QED BY <2>1, <2>2 DEF PageInv, PumpOK
<1>17. CountsOK'
  BY <1>1, <1>5 DEF PageInv, CountsOK, Counted
<1>18. HonestOK'
  <2>1. ASSUME NEW k \in Key, Complete(k) PROVE Complete(k)'
    BY <2>1, <1>1, <1>5, <1>6 DEF Complete
  <2>2. Honest' <=> Honest
    BY DEF Honest, FinishMode
  <2>3. ASSUME NEW x \in wire', NEW y \in wire', Ending(x), Ending(y), ~page.nested
        PROVE  x = y /\ page.state = (IF x.kind = "finish" THEN "FINISHING" ELSE "CANCELLING")
    <3>1. PICK p \in wire : /\ p.kind = x.kind /\ p.live = x.live
                            /\ (p.at = "back" /\ x = p) \/ (p.at # "back" /\ x = Late(p))
      BY <1>6
    <3>2. PICK q \in wire : /\ q.kind = y.kind /\ q.live = y.live
                            /\ (q.at = "back" /\ y = q) \/ (q.at # "back" /\ y = Late(q))
      BY <1>6
    <3>3. p = q /\ page.state = (IF p.kind = "finish" THEN "FINISHING" ELSE "CANCELLING")
      BY <2>3, <3>1, <3>2 DEF PageInv, HonestOK, Ending
    <3> QED BY <3>1, <3>2, <3>3
  <2> QED BY <2>1, <2>2, <2>3 DEF PageInv, HonestOK
<1>19. ShownOK'
  BY <1>1 DEF PageInv, ShownOK, OutcomeShownIsTrue, EvaluatedIsComplete
<1>20. HeldOK'
  <2>1. \A k \in Key : ~Opening(k)'
    BY <1>5, <1>6 DEF Opening
  <2> QED BY <2>1 DEF HeldOK
<1> QED BY <1>8, <1>9, <1>10, <1>11, <1>12, <1>13, <1>14, <1>15, <1>16, <1>17, <1>18, <1>19,
           <1>20 DEF PageInv

-----------------------------------------------------------------------------
LEMMA AnsweredKeeps ==
    ASSUME PageInv, NEW r \in wire, Answered(r)
    PROVE  PageInv'
<1>1. r.at = "back" /\ UNCHANGED <<srv, verdict, lost, faults>>
  BY DEF Answered
<1>2. CASE r.kind = "begin" /\ BeginAnswered(r)
  BY <1>1, <1>2, BeginAnsweredKeeps
<1>3. CASE r.kind = "mount" /\ \E mounted, connected \in BOOLEAN : Mounted(r, mounted, connected)
  BY <1>1, <1>3, MountedKeeps
<1>4. CASE r.kind = "append" /\ \E ended \in BOOLEAN : AppendAnswered(r, ended)
  BY <1>1, <1>4, AppendAnsweredKeeps
<1>5. CASE r.kind = "finish" /\ FinishAnswered(r)
  BY <1>1, <1>5, EndAnsweredKeeps
<1>6. CASE r.kind = "cancel" /\ CancelAnswered(r)
  BY <1>1, <1>6, EndAnsweredKeeps
<1>7. CASE r.kind = "resolve" /\ ResolveAnswered(r)
  BY <1>1, <1>7, ResolveAnsweredKeeps
<1> QED BY <1>2, <1>3, <1>4, <1>5, <1>6, <1>7 DEF Answered

LEMMA TravelKeeps ==
    ASSUME PageInv, NEW r \in wire, Travel(r), page' = page
    PROVE  PageInv'
<1>1. CASE Prepare(r)
  BY <1>1, PrepareKeeps
<1>2. CASE Serve(r)
  <2>1. r.at = "way" /\ UNCHANGED <<page, lost, faults>>
    BY <1>2 DEF Serve
  <2>2. CASE r.kind = "begin" /\ ServeBegin(r)
    BY <2>1, <2>2, ServeBeginKeeps
  <2>3. CASE r.kind = "resolve" /\ ServeRecovery(r)
    BY <2>1, <2>3, ServeRecoveryKeeps
  <2>4. CASE r.kind = "append" /\ ServeAppend(r)
    BY <2>1, <2>4, ServeAppendKeeps
  <2>5. CASE r.kind = "finish" /\ ServeTerminal(r, "evaluated", {"evaluated"},
                                                "EVALUATED", "failed_finish")
    <3>1. Terminal(r, "evaluated", {"evaluated"}, "EVALUATED", "failed_finish")
      BY <2>5 DEF Terminal
    <3> QED BY <2>1, <2>5, <3>1, ServeTerminalKeeps
  <2>6. CASE r.kind = "cancel" /\ ServeTerminal(r, "interrupted", {"interrupted", "recovered"},
                                                "INTERRUPTED", "failed_cancel")
    <3>1. Terminal(r, "interrupted", {"interrupted", "recovered"}, "INTERRUPTED", "failed_cancel")
      BY <2>6 DEF Terminal
    <3> QED BY <2>1, <2>6, <3>1, ServeTerminalKeeps
  <2> QED BY <1>2, <2>2, <2>3, <2>4, <2>5, <2>6 DEF Serve
<1> QED BY <1>1, <1>2 DEF Travel

LEMMA NextKeeps == PageInv /\ [Next]_vars => PageInv'
<1> SUFFICES ASSUME PageInv, [Next]_vars PROVE PageInv'
  OBVIOUS
<1>1. CASE Start \/ PressFinish \/ RetryFinish \/ ResolveBegin \/ LoadLesson \/ LessonLoaded
           \/ PageHide
  BY <1>1, StartKeeps, PressFinishKeeps, RetryFinishKeeps, ResolveBeginKeeps, LoadLessonKeeps,
     LessonLoadedKeeps, PageHideKeeps
<1>2. CASE \E ended \in BOOLEAN : OnMidi(ended)
  BY <1>2, OnMidiKeeps
<1>3. CASE \E ended \in BOOLEAN : PressCancel(ended)
  BY <1>3, PressCancelKeeps
<1>4. CASE \E r \in wire : Travel(r) /\ UNCHANGED page
  BY <1>4, TravelKeeps
<1>5. CASE \E r \in wire : Answered(r)
  BY <1>5, AnsweredKeeps
<1>6. CASE (\E r \in wire, delayed \in BOOLEAN : Lose(r, delayed)) /\ UNCHANGED page
  BY <1>6, LoseKeeps
<1>7. CASE Restart /\ UNCHANGED page
  BY <1>7, RestartKeeps
<1>8. CASE UNCHANGED vars
  <2>1. UNCHANGED <<page, wire, srv, verdict, lost, faults>>
    BY <1>8 DEF vars, wvars
  <2>2. UNCHANGED Typed /\ UNCHANGED ServerOK /\ UNCHANGED ShapesOK /\ UNCHANGED AnswersOK
    BY <2>1 DEF Typed, WireTypeOK, ServerOK, KeyOK, ShapesOK, Shape, Begun, AnswersOK, Told
  <2>3. UNCHANGED StartsOK /\ UNCHANGED RecoveriesOK /\ UNCHANGED SinglesOK /\ UNCHANGED PageOK
    BY <2>1 DEF StartsOK, Starting, Clean, RecoveriesOK, Recovering, Sought, SinglesOK, PageOK,
                Begun
  <2>4. UNCHANGED PumpOK /\ UNCHANGED CountsOK /\ UNCHANGED HonestOK
    BY <2>1 DEF PumpOK, Queued, Pumped, Next1, FinishMode, CountsOK, Counted, HonestOK, Honest,
                Complete
  <2>5. UNCHANGED ShownOK /\ UNCHANGED HeldOK
    BY <2>1 DEF ShownOK, OutcomeShownIsTrue, EvaluatedIsComplete, HeldOK, Opening, Held
  <2> QED BY <2>2, <2>3, <2>4, <2>5 DEF PageInv
<1> QED BY <1>1, <1>2, <1>3, <1>4, <1>5, <1>6, <1>7, <1>8 DEF Next, PageSteps, Progress, Failure

(* Every state the page, the network and the server can get into satisfies *)
(* the invariant, however often requests are lost, delayed or overtaken    *)
(* and the server restarts.                                                *)
THEOREM ControllerInvariance == Spec => []PageInv
  BY InitHolds, NextKeeps, PTL DEF Spec

(* The types of the page's variables, the bound of its queue, and what is  *)
(* acknowledged and queued never exceed what was played.                   *)
THEOREM PageTypes == Spec => []PageTypeOK
<1>1. PageInv => PageTypeOK
  <2> SUFFICES ASSUME PageInv PROVE PageTypeOK
    OBVIOUS
  <2>1. Typed /\ page \in Page
    BY DEF PageInv, Typed
  <2> QED BY <2>1 DEF PageTypeOK, Typed, Page
<1> QED BY <1>1, ControllerInvariance, PTL

(* runPump: an append on its way to an open attempt carries the number the *)
(* server expects next, whatever was lost or delayed before it.            *)
THEOREM AppendsArriveInOrder == Spec => []AppendsInOrder
<1>1. PageInv /\ PageTypeOK => AppendsInOrder
  BY DEF PageInv, PumpOK, Next1, AppendsInOrder
<1> QED BY <1>1, ControllerInvariance, PageTypes, PTL

(* submitFinish, submitCancel, applyBeginResponse and resolveBegin show an *)
(* outcome only when the server has stored exactly that for the attempt.   *)
THEOREM TheOutcomeIsTrue == Spec => []OutcomeShownIsTrue
<1>1. PageInv => OutcomeShownIsTrue
  BY DEF PageInv, ShownOK
<1> QED BY <1>1, ControllerInvariance, PTL

(* An evaluation on show covers everything the attempt captured, unless    *)
(* its finish went out in the middle of another handler.                   *)
THEOREM TheEvaluationIsComplete == Spec => []EvaluatedIsComplete
<1>1. PageInv => EvaluatedIsComplete
  BY DEF PageInv, ShownOK
<1> QED BY <1>1, ControllerInvariance, PTL

(* start, abandon and cancel between them see to every attempt: one that   *)
(* is open on the server is the page's, or a request that will end it or   *)
(* recover it is on its way, unless such a request got lost.               *)
THEOREM NoAttemptForgotten == Spec => []NothingLeftOpen
<1>1. PageInv => NothingLeftOpen
  <2> SUFFICES ASSUME PageInv, NEW k \in Key, srv[k].phase = "capturing", k \notin lost
               PROVE  Held(k)
    BY DEF NothingLeftOpen, Held
  <2>1. Opening(k)
    BY DEF Opening
  <2> QED BY <2>1 DEF PageInv, HeldOK
<1> QED BY <1>1, ControllerInvariance, PTL
=============================================================================
