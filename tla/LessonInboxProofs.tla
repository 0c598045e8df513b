--------------------------- MODULE LessonInboxProofs ---------------------------
(***************************************************************************)
(* The lesson inbox, the practice page and the delivery service, for any    *)
(* envelopes and any number of calls, selections, openings and restarts:    *)
(* a choice binds while the service lives, and what is practised is what    *)
(* was chosen.                                                              *)
(*                                                                         *)
(* Neither is inductive.  InboxInv adds what the answers on their way say   *)
(* (Told), what the calls rest on (Asked), what is still true of them as    *)
(* long as the service has not restarted (Unforgotten), and that each page  *)
(* awaits one answer for what it shows (InboxAwaits, PracticeAwaits).       *)
(***************************************************************************)
EXTENDS LessonInbox, TLAPS

-----------------------------------------------------------------------------
(* Types *)

\* What the service stores, and the ids and pins of it.
Kept == {e \in Envelopes : WellFormed(e) /\ Intact(e)}
Ids == {e.delivery : e \in Kept}
Pinned == {Pins(e) : e \in Kept}
Lessons == {e.assignment : e \in Kept}

Errors == {None, "unknown_delivery_id", "unresolvable_assignment", "unknown_practice_choice",
           "choice_conflict", "integrity_mismatch", "stale_preview"}
          \cup {a.fate : a \in Lessons}

\* An answer and a call; what an answer carries is stated with what it may say.
IsReply(a) ==
    a \in [status : {0, 200, 201, 404, 409, 422}, error : Errors, body : {a.body}]

IsCall(c) ==
    c \in [page : {"inbox", "practice"}, kind : {"list", "preview", "choice", "choose", "prepare"},
           gen : Nat, id : Ids \cup {None}, expected : Pinned \cup {None},
           pc : {"sent", "previewed", "answered"}, answer : {c.answer}]

InboxPages ==
    [listed : SUBSET Ids, selected : Ids \cup {None}, preview : Pinned \cup {None},
     choosable : BOOLEAN, link : Ids \cup {None}, gen : Nat]
PracticePages ==
    [id : Ids \cup {None}, preview : Pinned \cup {None}, choice : Pinned \cup {None},
     lesson : Lessons \cup {None}, gen : Nat]

TypeOK ==
    /\ inbox \in InboxPages /\ practice \in PracticePages
    /\ \A c \in calls : IsCall(c)
    /\ posted \subseteq Pinned /\ restarts \in Nat

-----------------------------------------------------------------------------
(* The invariant *)

\* What is stored: intact deliveries under their ids, and of some of them the
\* pins the learner chose.
StoresOK ==
    /\ \A id \in DOMAIN deliveries : deliveries[id] \in Kept /\ deliveries[id].delivery = id
    /\ \A id \in DOMAIN choices :
          Usable(id) /\ choices[id] = Pins(deliveries[id]) /\ choices[id] \in posted

\* What a call was made with.
Asked(c) ==
    /\ c.page = "inbox" => c.kind # "prepare"
    /\ c.page = "practice" => c.kind \notin {"list", "choose"}
    /\ c.kind = "choose" => c.expected \in posted /\ c.expected.delivery = c.id
    /\ c.kind = "prepare" => c.expected \in Pinned
    /\ c.pc = "previewed" =>
          /\ c.kind = "choose"
          /\ Usable(c.id) /\ c.answer = Pins(deliveries[c.id]) /\ c.answer \in posted

\* What a preparation answers: a lesson that was chosen, with its own pins.
ChosenLesson(body) ==
    \E e \in Kept : /\ body = [pins |-> Pins(e), assignment |-> e.assignment]
                    /\ Pins(e) \in posted /\ e.assignment.fate = "prepared"

\* What an answer may say.
Told(c) ==
    c.pc = "answered" =>
        /\ IsReply(c.answer)
        /\ c.answer.error \notin {"choice_conflict", "integrity_mismatch"}
        /\ c.answer.error = "stale_preview" => restarts > 0
        /\ Good(c.answer) =>
              /\ c.kind = "list" => c.answer.body \in SUBSET Ids
              /\ c.kind = "preview" => c.answer.body \in Pinned
              /\ c.kind \in {"choice", "choose"} => c.answer.body \in posted
              /\ c.kind = "prepare" => ChosenLesson(c.answer.body)

\* The pins of a delivery that is there and can be used.
Fresh(p) ==
    /\ p.delivery \in DOMAIN deliveries /\ Usable(p.delivery)
    /\ p = Pins(deliveries[p.delivery])

Stored(id, choice) == id \in DOMAIN choices /\ choices[id] = choice

\* What a call was made with, and what it was answered, holds until a restart.
Unforgotten(c) ==
    restarts = 0 =>
        /\ c.kind = "choose" => Fresh(c.expected)
        /\ c.kind = "prepare" => Stored(c.id, c.expected)
        /\ c.pc = "answered" /\ Good(c.answer) =>
              /\ c.kind = "preview" => Fresh(c.answer.body)
              /\ c.kind = "choice" => Stored(c.id, c.answer.body)

CallOK(c) == Asked(c) /\ Told(c) /\ Unforgotten(c)

\* The answer a page is waiting for.
InboxAwaits(c) == c.page = "inbox" /\ c.kind = "preview" /\ c.gen = inbox.gen
PracticeAwaits(c) == c.page = "practice" /\ c.gen = practice.gen

InboxOK ==
    /\ LinkIsHonest
    /\ inbox.preview # None => inbox.preview.delivery = inbox.selected
    /\ restarts = 0 /\ inbox.preview # None => Fresh(inbox.preview)
    /\ \A c \in calls : c.page = "inbox" => c.gen <= inbox.gen
    /\ \A c, d \in calls : InboxAwaits(c) /\ InboxAwaits(d) =>
          c = d /\ c.id = inbox.selected /\ inbox.preview = None

PracticeOK ==
    /\ practice.lesson # None =>
          /\ practice.preview \in posted
          /\ practice.lesson.artifact = practice.preview.artifact
          /\ practice.lesson.behavior = practice.preview.behavior
          /\ practice.lesson.fate = "prepared"
    /\ \A c \in calls : c.page = "practice" => c.gen <= practice.gen
    /\ \A c, d \in calls : PracticeAwaits(c) /\ PracticeAwaits(d) =>
          c = d /\ practice.lesson = None

InboxInv ==
    /\ TypeOK /\ StoresOK
    /\ \A c \in calls : CallOK(c)
    /\ InboxOK /\ PracticeOK

-----------------------------------------------------------------------------
(* Facts about the stores *)

\* What has been stored and shown stays as it is, and the service lives on.
Grows ==
    /\ restarts' = restarts /\ posted \subseteq posted'
    /\ \A id \in DOMAIN deliveries :
          id \in DOMAIN deliveries' /\ deliveries'[id] = deliveries[id]
    /\ \A id \in DOMAIN choices : id \in DOMAIN choices' /\ choices'[id] = choices[id]

\* Two pins of one delivery id with the same digests are the same: the artifact
\* digest is taken of the whole assignment (compute_assignment_artifact_digest).
LEMMA DigestsTell ==
    ASSUME NEW p \in Pinned, NEW q \in Pinned, SameDigests(p, q), p.delivery = q.delivery
    PROVE  p = q
<1>1. PICK e \in Kept : p = Pins(e)
  BY DEF Pinned
<1>2. PICK f \in Kept : q = Pins(f)
  BY DEF Pinned
<1>3. e.assignment = f.assignment
  BY <1>1, <1>2, DeliveryConstants DEF Kept, Pins, SameDigests
<1> QED BY <1>1, <1>2, <1>3 DEF Pins, SameDigests

\* The pins of what is stored.
LEMMA StoredPins ==
    ASSUME StoresOK, NEW id \in DOMAIN deliveries
    PROVE  /\ deliveries[id] \in Kept /\ Pins(deliveries[id]) \in Pinned
           /\ Pins(deliveries[id]).delivery = id /\ id \in Ids
           /\ Intact(deliveries[id]) /\ deliveries[id].assignment \in Lessons
  BY DEF StoresOK, Kept, Pinned, Pins, Ids, Lessons

\* What a delivery can be used for, it can be used for as long as the service lives.
LEMMA UsableStays ==
    ASSUME Grows, NEW id, Usable(id)
    PROVE  Usable(id)' /\ deliveries'[id] = deliveries[id]
  BY DEF Grows, Usable

LEMMA FreshStays ==
    ASSUME Grows, NEW p, Fresh(p)
    PROVE  Fresh(p)'
  BY UsableStays DEF Fresh, Grows

\* A call that nothing is done to is as good as before.
LEMMA CallStays ==
    ASSUME Grows, NEW c, CallOK(c)
    PROVE  CallOK(c)'
<1>1. Asked(c)'
  BY UsableStays DEF CallOK, Asked, Grows
<1>2. Told(c)'
  BY DEF CallOK, Told, IsReply, ChosenLesson, Grows
<1>3. Unforgotten(c)'
  BY FreshStays DEF CallOK, Unforgotten, Stored, Grows
<1> QED BY <1>1, <1>2, <1>3 DEF CallOK

\* Stores that nothing is done to, too.
LEMMA StoresStay ==
    ASSUME StoresOK, UNCHANGED stores, posted \subseteq posted'
    PROVE  StoresOK'
  BY DEF StoresOK, stores, Usable

\* What c becomes when its thread or the network writes its answer.
LEMMA Written ==
    ASSUME NEW c, IsCall(c), NEW a, NEW d, d = Answered(c, a)
    PROVE  /\ IsCall(d) /\ d.pc = "answered" /\ d.answer = a
           /\ d.page = c.page /\ d.kind = c.kind /\ d.gen = c.gen
           /\ d.id = c.id /\ d.expected = c.expected
  BY DEF IsCall, Answered

LEMMA Made ==
    ASSUME NEW page \in {"inbox", "practice"},
           NEW kind \in {"list", "preview", "choice", "choose", "prepare"},
           NEW gen \in Nat, NEW id \in Ids \cup {None}, NEW expected \in Pinned \cup {None},
           NEW d, d = Call(page, kind, gen, id, expected)
    PROVE  /\ IsCall(d) /\ d.page = page /\ d.kind = kind /\ d.gen = gen
           /\ d.id = id /\ d.expected = expected /\ d.pc = "sent"
  BY DEF IsCall, Call

LEMMA LostIsReply == IsReply(Lost) /\ ~Good(Lost) /\ Lost.error = None
  BY DEF IsReply, Lost, Refuse, Good, Errors

-----------------------------------------------------------------------------
(* What the service answers *)

Disputes == {"choice_conflict", "integrity_mismatch", "stale_preview"}

LEMMA TroubleSays ==
    ASSUME StoresOK, NEW id, ~Usable(id)
    PROVE  /\ IsReply(Trouble(id)) /\ ~Good(Trouble(id))
           /\ Trouble(id).error \notin Disputes
<1>1. CASE id \notin DOMAIN deliveries
  BY <1>1 DEF Trouble, IsReply, Good, Refuse, Errors, Disputes
<1>2. CASE id \in DOMAIN deliveries
  <2>1. Intact(deliveries[id])
    BY <1>2, StoredPins
  <2>2. Trouble(id) = Refuse(422, "unresolvable_assignment")
    BY <1>2, <2>1 DEF Trouble
  <2> QED BY <2>2 DEF IsReply, Good, Refuse, Errors, Disputes
<1> QED BY <1>1, <1>2

LEMMA PreviewSays ==
    ASSUME StoresOK, NEW id
    PROVE  /\ IsReply(Preview(id)) /\ Preview(id).error \notin Disputes
           /\ Good(Preview(id)) => Fresh(Preview(id).body) /\ Preview(id).body \in Pinned
<1>1. CASE Usable(id)
  <2>1. /\ Pins(deliveries[id]) \in Pinned /\ Pins(deliveries[id]).delivery = id
        /\ id \in DOMAIN deliveries
    BY <1>1, StoredPins DEF Usable
  <2>2. Preview(id) = Answer(200, Pins(deliveries[id]))
    BY <1>1 DEF Preview
  <2> QED BY <2>1, <2>2, <1>1, DeliveryConstants DEF Answer, IsReply, Fresh, Errors, Disputes
<1>2. CASE ~Usable(id)
  BY <1>2, TroubleSays DEF Preview
<1> QED BY <1>1, <1>2

LEMMA StoredChoiceSays ==
    ASSUME StoresOK, NEW id
    PROVE  /\ IsReply(StoredChoice(id)) /\ StoredChoice(id).error \notin Disputes
           /\ Good(StoredChoice(id)) =>
                 /\ Stored(id, StoredChoice(id).body) /\ StoredChoice(id).body \in posted
                 /\ Usable(id) /\ choices[id] = Pins(deliveries[id])
<1>1. CASE id \in DOMAIN choices
  <2>1. Usable(id) /\ choices[id] = Pins(deliveries[id]) /\ choices[id] \in posted
    BY <1>1 DEF StoresOK
  <2>2. StoredChoice(id) = Answer(200, choices[id])
    BY <1>1, <2>1 DEF StoredChoice
  <2> QED BY <2>1, <2>2, <1>1, DeliveryConstants DEF Answer, IsReply, Stored, Errors, Disputes
<1>2. CASE id \notin DOMAIN choices
  BY <1>2 DEF StoredChoice, Refuse, IsReply, Good, Errors, Disputes
<1> QED BY <1>1, <1>2

\* A preparation is refused as stale only if what is expected was not stored.
LEMMA PrepareSays ==
    ASSUME StoresOK, NEW id, NEW expected
    PROVE  /\ IsReply(Prepare(id, expected))
           /\ Prepare(id, expected).error \notin {"choice_conflict", "integrity_mismatch"}
           /\ Stored(id, expected) => Prepare(id, expected).error # "stale_preview"
           /\ Good(Prepare(id, expected)) => ChosenLesson(Prepare(id, expected).body)
<1>1. CASE ~Good(StoredChoice(id))
  BY <1>1, StoredChoiceSays DEF Prepare, Disputes
<1>2. CASE Good(StoredChoice(id)) /\ ~SameDigests(expected, choices[id])
  BY <1>2 DEF Prepare, Refuse, IsReply, Good, Errors, Stored, SameDigests
<1>3. CASE Good(StoredChoice(id)) /\ SameDigests(expected, choices[id])
  <2> DEFINE e == deliveries[id]
             a == e.assignment
  <2>1. choices[id] = Pins(e) /\ Pins(e) \in posted /\ e \in Kept /\ a \in Lessons
    BY <1>3, StoredChoiceSays, StoredPins DEF Usable, Stored
  <2>2. a.fate \notin Disputes /\ a.fate \in Errors
    BY <2>1, DeliveryConstants DEF Kept, Lessons, Errors, Disputes
  <2>3. CASE a.fate # "prepared"
    <3>1. Prepare(id, expected) = Refuse(422, a.fate)
      BY <1>3, <2>3 DEF Prepare
    <3> HIDE DEF a
    <3> QED BY <3>1, <2>2 DEF Refuse, IsReply, Good, Disputes
  <2>4. CASE a.fate = "prepared"
    <3>1. Prepare(id, expected) = Answer(200, [pins |-> Pins(e), assignment |-> a])
      BY <1>3, <2>1, <2>4 DEF Prepare
    <3>2. ChosenLesson([pins |-> Pins(e), assignment |-> a])
      BY <2>1, <2>4 DEF ChosenLesson
    <3> HIDE DEF a, e
    <3> QED BY <3>1, <3>2, DeliveryConstants DEF Answer, IsReply, Errors, Good
  <2> QED BY <2>3, <2>4
<1> QED BY <1>1, <1>2, <1>3

\* The answer to every call but a choosing one is true of the stores.
LEMMA AnswersSay ==
    ASSUME InboxInv, NEW c \in calls, c.pc = "sent", c.kind # "choose",
           NEW d, d = Answered(c, Answers(c))
    PROVE  IsCall(d) /\ CallOK(d) /\ d.page = c.page /\ d.kind = c.kind /\ d.gen = c.gen
           /\ d.id = c.id
<1>1. StoresOK /\ IsCall(c) /\ CallOK(c)
  BY DEF InboxInv, TypeOK
<1>2. /\ IsCall(d) /\ d.pc = "answered" /\ d.answer = Answers(c)
      /\ d.page = c.page /\ d.kind = c.kind /\ d.gen = c.gen
      /\ d.id = c.id /\ d.expected = c.expected
  BY <1>1, Written
<1>3. Asked(d)
  BY <1>1, <1>2 DEF Asked, CallOK
<1>4. c.kind \in {"list", "preview", "choice", "prepare"}
  BY <1>1 DEF IsCall
<1>5. Told(d) /\ Unforgotten(d)
  <2>1. CASE c.kind = "list"
    <3>1. d.answer = Answer(200, DOMAIN deliveries)
      BY <2>1, <1>2 DEF Answers, List
    <3>2. DOMAIN deliveries \in SUBSET Ids
      BY <1>1, StoredPins
    <3> QED BY <3>1, <3>2, <2>1, <1>2, DeliveryConstants
            DEF Told, Unforgotten, Answer, IsReply, Errors
  <2>2. CASE c.kind = "preview"
    <3>1. d.answer = Preview(c.id)
      BY <2>2, <1>2 DEF Answers
    <3> QED BY <3>1, <2>2, <1>1, <1>2, PreviewSays DEF Told, Unforgotten, Disputes
  <2>3. CASE c.kind = "choice"
    <3>1. d.answer = StoredChoice(c.id)
      BY <2>3, <1>2 DEF Answers
    <3> QED BY <3>1, <2>3, <1>1, <1>2, StoredChoiceSays DEF Told, Unforgotten, Disputes
  <2>4. CASE c.kind = "prepare"
    <3>1. d.answer = Prepare(c.id, c.expected)
      BY <2>4, <1>2 DEF Answers
    <3>2. restarts = 0 => Stored(c.id, c.expected)
      BY <2>4, <1>1 DEF CallOK, Unforgotten
    <3>3. restarts \in Nat
      BY DEF InboxInv, TypeOK
    <3> DEFINE r == Prepare(c.id, c.expected)
    <3> HIDE DEF r
    <3>5. /\ IsReply(r) /\ r.error \notin {"choice_conflict", "integrity_mismatch"}
          /\ restarts = 0 => r.error # "stale_preview"
          /\ Good(r) => ChosenLesson(r.body)
      BY <3>2, <1>1, PrepareSays DEF r
    <3>6. d.answer = r
      BY <3>1 DEF r
    <3>4. Told(d)
      BY <3>5, <3>6, <3>3, <2>4, <1>2 DEF Told
    <3> QED BY <3>4, <3>2, <2>4, <1>2 DEF Unforgotten
  <2> QED BY <2>1, <2>2, <2>3, <2>4, <1>4
<1> QED BY <1>2, <1>3, <1>5 DEF CallOK

-----------------------------------------------------------------------------
(* What a step leaves as it was *)

\* The calls after a step that adds none but d.
LEMMA CallsStay ==
    ASSUME InboxInv, Grows, NEW d, calls' \subseteq calls \cup {d},
           d \in calls' => IsCall(d) /\ CallOK(d)'
    PROVE  \A c \in calls' : IsCall(c) /\ CallOK(c)'
<1> SUFFICES ASSUME NEW c \in calls', c # d PROVE IsCall(c) /\ CallOK(c)'
  OBVIOUS
<1>1. c \in calls /\ IsCall(c) /\ CallOK(c)
  BY DEF InboxInv, TypeOK
<1> QED BY <1>1, CallStays

\* A step that leaves the stores and the history alone.
LEMMA NothingStored ==
    ASSUME UNCHANGED <<deliveries, choices, posted, restarts>>
    PROVE  Grows
  BY DEF Grows

\* The inbox, if a step takes its answer away or replaces it by another d.
LEMMA InboxStays ==
    ASSUME InboxInv, Grows, UNCHANGED inbox, NEW old \in SUBSET calls, NEW d,
           calls' \subseteq old \cup {d}, d.page = "inbox" => d.gen <= inbox.gen,
           InboxAwaits(d) => \E c \in calls \ old : InboxAwaits(c) /\ c.id = d.id
    PROVE  InboxOK'
<1>1. InboxOK
  BY DEF InboxInv
<1>2. LinkIsHonest'
  BY <1>1 DEF InboxOK, LinkIsHonest, Grows
<1>3. (restarts = 0 /\ inbox.preview # None => Fresh(inbox.preview))'
  <2>1. PICK p : p = inbox.preview
    OBVIOUS
  <2>2. restarts' = 0 /\ p # None => Fresh(p)
    BY <1>1, <2>1 DEF InboxOK, Grows
  <2>3. restarts' = 0 /\ p # None => Fresh(p)'
    BY <2>2, FreshStays
  <2> QED BY <2>1, <2>3 DEF Fresh
<1>4. \A c \in calls' : c.page = "inbox" => c.gen <= inbox'.gen
  BY <1>1 DEF InboxOK
<1>5. \A b, c \in calls' : InboxAwaits(b)' /\ InboxAwaits(c)' =>
         b = c /\ b.id = inbox'.selected /\ inbox'.preview = None
  <2> SUFFICES ASSUME NEW b \in calls', NEW c \in calls', InboxAwaits(b), InboxAwaits(c)
               PROVE  b = c /\ b.id = inbox.selected /\ inbox.preview = None
    BY DEF InboxAwaits
  <2>1. \A x, y \in calls : InboxAwaits(x) /\ InboxAwaits(y) =>
           x = y /\ x.id = inbox.selected /\ inbox.preview = None
    BY <1>1 DEF InboxOK
  <2>2. PICK x \in calls : InboxAwaits(x) /\ x.id = b.id /\ (b \in old => x = b)
                           /\ (b \notin old => x \notin old /\ b = d)
    OBVIOUS
  <2>3. PICK y \in calls : InboxAwaits(y) /\ y.id = c.id /\ (c \in old => y = c)
                           /\ (c \notin old => y \notin old /\ c = d)
    OBVIOUS
  <2>4. x = y /\ x.id = inbox.selected /\ inbox.preview = None
    BY <2>1, <2>2, <2>3
  <2>5. CASE b \in old
    BY <2>2, <2>3, <2>4, <2>5
  <2>6. CASE b \notin old
    BY <2>2, <2>3, <2>4, <2>6
  <2> QED BY <2>5, <2>6
<1> QED BY <1>1, <1>2, <1>3, <1>4, <1>5 DEF InboxOK

\* The practice page, likewise.
LEMMA PracticeStays ==
    ASSUME InboxInv, Grows, UNCHANGED practice, NEW old \in SUBSET calls, NEW d,
           calls' \subseteq old \cup {d}, d.page = "practice" => d.gen <= practice.gen,
           PracticeAwaits(d) => \E c \in calls \ old : PracticeAwaits(c)
    PROVE  PracticeOK'
<1>1. PracticeOK
  BY DEF InboxInv
<1>2. practice'.lesson # None =>
          /\ practice'.preview \in posted'
          /\ practice'.lesson.artifact = practice'.preview.artifact
          /\ practice'.lesson.behavior = practice'.preview.behavior
          /\ practice'.lesson.fate = "prepared"
  BY <1>1 DEF PracticeOK, Grows
<1>3. \A c \in calls' : c.page = "practice" => c.gen <= practice'.gen
  BY <1>1 DEF PracticeOK
<1>4. \A b, c \in calls' : PracticeAwaits(b)' /\ PracticeAwaits(c)' =>
         b = c /\ practice'.lesson = None
  <2> SUFFICES ASSUME NEW b \in calls', NEW c \in calls', PracticeAwaits(b), PracticeAwaits(c)
               PROVE  b = c /\ practice.lesson = None
    BY DEF PracticeAwaits
  <2>1. \A x, y \in calls : PracticeAwaits(x) /\ PracticeAwaits(y) =>
           x = y /\ practice.lesson = None
    BY <1>1 DEF PracticeOK
  <2>2. PICK x \in calls : PracticeAwaits(x) /\ (b \in old => x = b)
                           /\ (b \notin old => x \notin old /\ b = d)
    OBVIOUS
  <2>3. PICK y \in calls : PracticeAwaits(y) /\ (c \in old => y = c)
                           /\ (c \notin old => y \notin old /\ c = d)
    OBVIOUS
  <2>4. x = y /\ practice.lesson = None
    BY <2>1, <2>2, <2>3
  <2> QED BY <2>2, <2>3, <2>4
<1> QED BY <1>2, <1>3, <1>4 DEF PracticeOK

\* A step that changes neither page, and replaces c, at most, by one like it.
LEMMA PagesStay ==
    ASSUME InboxInv, Grows, UNCHANGED pages, posted' = posted, StoresOK',
           NEW c \in calls, NEW d, calls' \subseteq (calls \ {c}) \cup {d},
           d \in calls' => IsCall(d) /\ CallOK(d)',
           d.page = c.page, d.kind = c.kind, d.gen = c.gen, d.id = c.id
    PROVE  InboxInv'
<1>1. TypeOK /\ InboxOK /\ PracticeOK /\ UNCHANGED <<inbox, practice>>
  BY DEF InboxInv, pages
<1>2. \A b \in calls' : IsCall(b) /\ CallOK(b)'
  BY CallsStay
<1>3. TypeOK'
  BY <1>1, <1>2 DEF TypeOK, Grows
<1> DEFINE old == calls \ {c}
<1>4. old \in SUBSET calls /\ calls' \subseteq old \cup {d} /\ c \in calls \ old
  OBVIOUS
<1>5. InboxOK'
  <2>1. d.page = "inbox" => d.gen <= inbox.gen
    BY <1>1 DEF InboxOK
  <2>2. InboxAwaits(d) => InboxAwaits(c) /\ c.id = d.id
    BY DEF InboxAwaits
  <2> HIDE DEF old
  <2> QED BY <2>1, <2>2, <1>1, <1>4, InboxStays
<1>6. PracticeOK'
  <2>1. d.page = "practice" => d.gen <= practice.gen
    BY <1>1 DEF PracticeOK
  <2>2. PracticeAwaits(d) => PracticeAwaits(c)
    BY DEF PracticeAwaits
  <2> HIDE DEF old
  <2> QED BY <2>1, <2>2, <1>1, <1>4, PracticeStays
<1> QED BY <1>2, <1>3, <1>5, <1>6 DEF InboxInv

\* A step that changes neither page and makes no call but for the list.
LEMMA ListingStays ==
    ASSUME InboxInv, Grows, UNCHANGED pages, posted' = posted, StoresOK',
           calls' \subseteq calls \cup {Call("inbox", "list", 0, None, None)}
    PROVE  InboxInv'
<1> DEFINE d == Call("inbox", "list", 0, None, None)
<1>1. TypeOK /\ InboxOK /\ PracticeOK /\ UNCHANGED <<inbox, practice>>
  BY DEF InboxInv, pages
<1>2. /\ IsCall(d) /\ d.page = "inbox" /\ d.kind = "list" /\ d.gen = 0 /\ d.pc = "sent"
  BY DEF Call, IsCall
<1>3. calls' \subseteq calls \cup {d}
  OBVIOUS
<1> HIDE DEF d
<1>4. CallOK(d)'
  BY <1>2 DEF CallOK, Asked, Told, Unforgotten
<1>5. \A b \in calls' : IsCall(b) /\ CallOK(b)'
  BY <1>2, <1>3, <1>4, CallsStay
<1>6. TypeOK'
  BY <1>1, <1>5 DEF TypeOK, Grows
<1>7. ~InboxAwaits(d) /\ ~PracticeAwaits(d)
  BY <1>2 DEF InboxAwaits, PracticeAwaits
<1>8. d.gen <= inbox.gen
  BY <1>1, <1>2 DEF TypeOK, InboxPages
<1>9. InboxOK'
  BY <1>1, <1>2, <1>3, <1>7, <1>8, InboxStays
<1>10. PracticeOK'
  BY <1>1, <1>2, <1>3, <1>7, PracticeStays
<1> QED BY <1>5, <1>6, <1>9, <1>10 DEF InboxInv

-----------------------------------------------------------------------------
(* The service and the network *)

LEMMA RefreshKeeps == ASSUME InboxInv, RefreshInbox PROVE InboxInv'
<1>1. Grows /\ UNCHANGED <<deliveries, choices, pages, posted, restarts>>
  BY NothingStored DEF RefreshInbox, stores, bounds
<1>2. StoresOK'
  BY <1>1, StoresStay DEF InboxInv, stores
<1>3. calls' \subseteq calls \cup {Call("inbox", "list", 0, None, None)}
  BY DEF RefreshInbox
<1> QED BY <1>1, <1>2, <1>3, ListingStays

LEMMA ServeKeeps == ASSUME InboxInv, NEW c \in calls, Serve(c) PROVE InboxInv'
<1>1. Grows /\ UNCHANGED <<deliveries, choices, pages, posted, restarts>>
  BY NothingStored DEF Serve, stores, bounds
<1>2. StoresOK'
  BY <1>1, StoresStay DEF InboxInv, stores
<1>0. PICK d : d = Answered(c, Answers(c))
  OBVIOUS
<1>3. calls' = (calls \ {c}) \cup {d} /\ c.pc = "sent" /\ c.kind # "choose"
  BY <1>0 DEF Serve, Replace
<1>4. /\ IsCall(d) /\ CallOK(d) /\ d.page = c.page /\ d.kind = c.kind /\ d.gen = c.gen
      /\ d.id = c.id
  BY <1>0, <1>3, AnswersSay
<1>5. CallOK(d)'
  BY <1>1, <1>4, CallStays
<1> QED BY <1>1, <1>2, <1>3, <1>4, <1>5, PagesStay

\* A call whose answer is lost says nothing.
LEMMA LostSays ==
    ASSUME InboxInv, NEW c \in calls, NEW d, d = Answered(c, Lost)
    PROVE  /\ IsCall(d) /\ CallOK(d) /\ d.page = c.page /\ d.kind = c.kind /\ d.gen = c.gen
           /\ d.id = c.id
<1>1. IsCall(c) /\ CallOK(c)
  BY DEF InboxInv, TypeOK
<1>2. /\ IsCall(d) /\ d.pc = "answered" /\ d.answer = Lost
      /\ d.page = c.page /\ d.kind = c.kind /\ d.gen = c.gen
      /\ d.id = c.id /\ d.expected = c.expected
  BY <1>1, Written
<1>3. Asked(d)
  BY <1>1, <1>2 DEF Asked, CallOK
<1>4. Told(d)
  BY <1>2, LostIsReply, DeliveryConstants DEF Told
<1>5. Unforgotten(d)
  BY <1>1, <1>2, LostIsReply DEF Unforgotten, CallOK
<1> QED BY <1>2, <1>3, <1>4, <1>5 DEF CallOK

LEMMA LoseKeeps == ASSUME InboxInv, NEW c \in calls, Lose(c) PROVE InboxInv'
<1>1. Grows /\ UNCHANGED <<deliveries, choices, pages, posted, restarts>>
  BY NothingStored DEF Lose, stores, bounds
<1>2. StoresOK'
  BY <1>1, StoresStay DEF InboxInv, stores
<1> DEFINE d == Answered(c, Lost)
<1>3. calls' = (calls \ {c}) \cup {d}
  BY DEF Lose, Replace
<1>4. /\ IsCall(d) /\ CallOK(d) /\ d.page = c.page /\ d.kind = c.kind /\ d.gen = c.gen
      /\ d.id = c.id
  BY LostSays
<1> HIDE DEF d
<1>5. CallOK(d)'
  BY <1>1, <1>4, CallStays
<1> QED BY <1>1, <1>2, <1>3, <1>4, <1>5, PagesStay

\* A choice is checked against the delivery as it is stored: what may be stored
\* are then the very pins the learner was shown.
LEMMA CheckKeeps == ASSUME InboxInv, NEW c \in calls, CheckChoice(c) PROVE InboxInv'
<1>1. Grows /\ UNCHANGED <<deliveries, choices, pages, posted, restarts>>
  BY NothingStored DEF CheckChoice, stores, bounds
<1>2. StoresOK /\ StoresOK' /\ IsCall(c) /\ CallOK(c) /\ posted \subseteq Pinned /\ restarts \in Nat
  BY <1>1, StoresStay DEF InboxInv, stores, TypeOK
<1>3. /\ c.pc = "sent" /\ c.kind = "choose"
      /\ c.expected \in Pinned /\ c.expected \in posted /\ c.expected.delivery = c.id
      /\ restarts = 0 => Fresh(c.expected)
  BY <1>2 DEF CheckChoice, CallOK, Asked, Unforgotten
<1>4. CASE Choosable(c.id, c.expected)
  <2>5. PICK q : q = Pins(deliveries[c.id])
    OBVIOUS
  <2>0. PICK d : d = [c EXCEPT !.pc = "previewed", !.answer = q]
    OBVIOUS
  <2>1. calls' = (calls \ {c}) \cup {d}
    BY <1>4, <2>5, <2>0 DEF CheckChoice, Replace
  <2>2. Usable(c.id) /\ SameDigests(c.expected, q)
    BY <1>4, <2>5 DEF Choosable
  <2>3. q \in Pinned /\ q.delivery = c.id
    BY <1>2, <2>2, <2>5, StoredPins DEF Usable
  <2>4. q \in posted
    BY <1>3, <2>2, <2>3, DigestsTell
  <2>6. /\ IsCall(d) /\ d.pc = "previewed" /\ d.answer = q
        /\ d.page = c.page /\ d.kind = c.kind /\ d.gen = c.gen
        /\ d.id = c.id /\ d.expected = c.expected
    BY <1>2, <2>0 DEF IsCall
  <2>7. CallOK(d)
    BY <1>2, <1>3, <2>2, <2>4, <2>5, <2>6 DEF CallOK, Asked, Told, Unforgotten
  <2>8. CallOK(d)'
    BY <1>1, <2>7, CallStays
  <2> QED BY <1>1, <1>2, <2>1, <2>6, <2>8, PagesStay
<1>5. CASE ~Choosable(c.id, c.expected)
  <2>0. PICK r : r = ChoiceRefused(c.id)
    OBVIOUS
  <2>a. PICK d : d = Answered(c, r)
    OBVIOUS
  <2>1. calls' = (calls \ {c}) \cup {d}
    BY <1>5, <2>0, <2>a DEF CheckChoice, Replace
  <2>2. /\ IsReply(r) /\ ~Good(r)
        /\ r.error \notin {"choice_conflict", "integrity_mismatch"}
        /\ r.error = "stale_preview" => restarts > 0
    <3>1. CASE Usable(c.id)
      <4>1. r = Refuse(409, "stale_preview")
        BY <3>1, <2>0 DEF ChoiceRefused
      <4>2. restarts # 0
        BY <3>1, <1>3, <1>5 DEF Choosable, Fresh, SameDigests
      <4> QED BY <4>1, <4>2, <1>2 DEF Refuse, IsReply, Good, Errors
    <3>2. CASE ~Usable(c.id)
      BY <3>2, <2>0, <1>2, TroubleSays DEF ChoiceRefused, Disputes
    <3> QED BY <3>1, <3>2
  <2>3. /\ IsCall(d) /\ d.pc = "answered" /\ d.answer = r
        /\ d.page = c.page /\ d.kind = c.kind /\ d.gen = c.gen
        /\ d.id = c.id /\ d.expected = c.expected
    BY <1>2, <2>a, Written
  <2>4. CallOK(d)
    BY <1>2, <1>3, <2>2, <2>3 DEF CallOK, Asked, Told, Unforgotten
  <2>5. CallOK(d)'
    BY <1>1, <2>4, CallStays
  <2> QED BY <1>1, <1>2, <2>1, <2>3, <2>5, PagesStay
<1> QED BY <1>4, <1>5

\* A choice is stored once, and its answer repeats it.
LEMMA StoreKeeps == ASSUME InboxInv, NEW c \in calls, StoreChoice(c) PROVE InboxInv'
<1>1. StoresOK /\ IsCall(c) /\ CallOK(c) /\ posted \subseteq Pinned
  BY DEF InboxInv, TypeOK
<1>2. PICK q : q = c.answer
  OBVIOUS
<1>3. PICK d : d = Answered(c, Settle(q))
  OBVIOUS
<1>4. /\ c.pc = "previewed" /\ c.kind = "choose" /\ Usable(c.id)
      /\ q = Pins(deliveries[c.id]) /\ q \in posted /\ q.delivery = c.id
  <2>1. c.pc = "previewed"
    BY DEF StoreChoice
  <2>2. /\ c.kind = "choose" /\ Usable(c.id)
        /\ q = Pins(deliveries[c.id]) /\ q \in posted
    BY <2>1, <1>1, <1>2 DEF CallOK, Asked
  <2> QED BY <2>1, <2>2, <1>1, StoredPins DEF Usable
<1>5. /\ calls' = (calls \ {c}) \cup {d}
      /\ choices' = PutIfAbsent(choices, c.id, q)
      /\ UNCHANGED <<deliveries, pages, posted, restarts>>
  BY <1>2, <1>3, <1>4 DEF StoreChoice, Replace, PutChoice, bounds
<1>6. /\ DOMAIN choices' = DOMAIN choices \cup {c.id}
      /\ \A id \in DOMAIN choices : choices'[id] = choices[id]
      /\ c.id \notin DOMAIN choices => choices'[c.id] = q
  BY <1>5 DEF PutIfAbsent
<1>7. Grows
  BY <1>5, <1>6 DEF Grows
<1>8. StoresOK'
  <2>1. \A id \in DOMAIN deliveries' :
           deliveries'[id] \in Kept /\ deliveries'[id].delivery = id
    BY <1>1, <1>5 DEF StoresOK
  <2>2. ASSUME NEW id \in DOMAIN choices'
        PROVE  Usable(id) /\ choices'[id] = Pins(deliveries[id]) /\ choices'[id] \in posted
    <3>1. CASE id \in DOMAIN choices
      BY <3>1, <1>1, <1>6 DEF StoresOK
    <3>2. CASE id = c.id /\ id \notin DOMAIN choices
      BY <3>2, <1>4, <1>6
    <3> QED BY <3>1, <3>2, <1>6
  <2>3. \A id : Usable(id)' <=> Usable(id)
    BY <1>5 DEF Usable
  <2> QED BY <2>1, <2>2, <2>3, <1>5 DEF StoresOK
<1>9. Settle(q) = Answer(201, q) \/ Settle(q) = Answer(200, q)
  BY <1>1, <1>4 DEF Settle, StoresOK
<1>10. /\ IsCall(d) /\ d.pc = "answered" /\ d.answer = Settle(q)
       /\ d.page = c.page /\ d.kind = c.kind /\ d.gen = c.gen
       /\ d.id = c.id /\ d.expected = c.expected
  BY <1>1, <1>3, Written
<1>11. /\ IsReply(d.answer) /\ d.answer.error = None /\ d.answer.body = q
  BY <1>9, <1>10 DEF Answer, IsReply, Errors
<1>12. CallOK(d)
  BY <1>1, <1>4, <1>10, <1>11, DeliveryConstants DEF CallOK, Asked, Told, Unforgotten
<1>13. CallOK(d)'
  BY <1>7, <1>12, CallStays
<1> QED BY <1>5, <1>7, <1>8, <1>10, <1>13, PagesStay

\* A delivery is stored under an id that is free, or changes nothing.
LEMMA DeliverKeeps == ASSUME InboxInv, NEW e \in Envelopes, Deliver(e) PROVE InboxInv'
<1>1. /\ e \in Kept /\ deliveries' = PutIfAbsent(deliveries, e.delivery, e)
      /\ UNCHANGED <<choices, pages, calls, posted, restarts>>
  BY DEF Deliver, Receive, Kept
<1>2. /\ DOMAIN deliveries' = DOMAIN deliveries \cup {e.delivery}
      /\ \A id \in DOMAIN deliveries : deliveries'[id] = deliveries[id]
      /\ e.delivery \notin DOMAIN deliveries => deliveries'[e.delivery] = e
  BY <1>1 DEF PutIfAbsent
<1>3. Grows
  BY <1>1, <1>2 DEF Grows
<1>4. StoresOK'
  <2>1. ASSUME NEW id \in DOMAIN deliveries'
        PROVE  deliveries'[id] \in Kept /\ deliveries'[id].delivery = id
    <3>1. CASE id \in DOMAIN deliveries
      BY <3>1, <1>2 DEF InboxInv, StoresOK
    <3>2. CASE id = e.delivery /\ id \notin DOMAIN deliveries
      BY <3>2, <1>1, <1>2
    <3> QED BY <3>1, <3>2, <1>2
  <2>2. ASSUME NEW id \in DOMAIN choices
        PROVE  /\ Usable(id)' /\ choices[id] = Pins(deliveries'[id])
               /\ choices[id] \in posted
    <3>1. Usable(id) /\ choices[id] = Pins(deliveries[id]) /\ choices[id] \in posted
      BY DEF InboxInv, StoresOK
    <3>2. Usable(id)' /\ deliveries'[id] = deliveries[id]
      BY <3>1, <1>3, UsableStays
    <3> QED BY <3>1, <3>2
  <2> QED BY <2>1, <2>2, <1>1 DEF StoresOK
<1> QED BY <1>1, <1>3, <1>4, ListingStays

\* A restart forgets both stores; every answer that was not given is lost.
LEMMA RestartKeeps == ASSUME InboxInv, Restart PROVE InboxInv'
<1>1. /\ TypeOK /\ InboxOK /\ PracticeOK
      /\ \A c \in calls : IsCall(c) /\ CallOK(c)
  BY DEF InboxInv, TypeOK
<1>2. /\ DOMAIN deliveries' = {} /\ DOMAIN choices' = {}
      /\ UNCHANGED <<inbox, practice, posted>> /\ restarts' = restarts + 1
      /\ calls' = {IF c.pc = "answered" THEN c ELSE Answered(c, Lost) : c \in calls}
  BY DEF Restart, Forget, Nowhere, pages
<1>3. restarts' \in Nat /\ restarts' > 0
  BY <1>1, <1>2 DEF TypeOK
<1>4. StoresOK'
  BY <1>2 DEF StoresOK
<1>5. ASSUME NEW d \in calls'
      PROVE  /\ IsCall(d) /\ CallOK(d)'
             /\ \E c \in calls : /\ d.page = c.page /\ d.kind = c.kind /\ d.gen = c.gen
                                 /\ d.id = c.id
                                 /\ d = IF c.pc = "answered" THEN c ELSE Answered(c, Lost)
  <2>1. PICK c \in calls : d = IF c.pc = "answered" THEN c ELSE Answered(c, Lost)
    BY <1>2
  <2>2. CASE c.pc = "answered"
    <3>1. d = c /\ IsCall(c) /\ CallOK(c)
      BY <2>1, <2>2, <1>1
    <3>2. Asked(d)' /\ Told(d)' /\ Unforgotten(d)'
      BY <3>1, <2>2, <1>2, <1>3 DEF CallOK, Asked, Told, ChosenLesson, Unforgotten, IsReply
    <3> QED BY <2>1, <3>1, <3>2 DEF CallOK
  <2>3. CASE c.pc # "answered"
    <3>1. d = Answered(c, Lost)
      BY <2>1, <2>3
    <3>2. /\ IsCall(d) /\ CallOK(d) /\ d.page = c.page /\ d.kind = c.kind /\ d.gen = c.gen
          /\ d.id = c.id
      BY <3>1, LostSays
    <3>3. d.pc = "answered" /\ d.answer = Lost
      BY <3>1, <1>1, Written
    <3>4. Asked(d)' /\ Told(d)' /\ Unforgotten(d)'
      BY <3>2, <3>3, <1>2, <1>3, LostIsReply
         DEF CallOK, Asked, Told, ChosenLesson, Unforgotten, IsReply
    <3> QED BY <2>1, <3>2, <3>4 DEF CallOK
  <2> QED BY <2>2, <2>3
<1>6. TypeOK'
  BY <1>1, <1>2, <1>3, <1>5 DEF TypeOK
<1>7. InboxOK'
  <2>1. LinkIsHonest'
    BY <1>1, <1>2 DEF InboxOK, LinkIsHonest
  <2>2. (inbox.preview # None => inbox.preview.delivery = inbox.selected)'
    BY <1>1, <1>2 DEF InboxOK
  <2>3. \A d \in calls' : d.page = "inbox" => d.gen <= inbox'.gen
    BY <1>1, <1>2, <1>5 DEF InboxOK
  <2>4. ASSUME NEW b \in calls', NEW d \in calls', InboxAwaits(b), InboxAwaits(d)
        PROVE  b = d /\ b.id = inbox.selected /\ inbox.preview = None
    <3>1. PICK x \in calls : /\ b.page = x.page /\ b.kind = x.kind /\ b.gen = x.gen
                             /\ b.id = x.id
                             /\ b = IF x.pc = "answered" THEN x ELSE Answered(x, Lost)
      BY <1>5
    <3>2. PICK y \in calls : /\ d.page = y.page /\ d.kind = y.kind /\ d.gen = y.gen
                             /\ d = IF y.pc = "answered" THEN y ELSE Answered(y, Lost)
      BY <1>5
    <3>3. InboxAwaits(x) /\ InboxAwaits(y)
      BY <3>1, <3>2, <2>4 DEF InboxAwaits
    <3>4. x = y /\ x.id = inbox.selected /\ inbox.preview = None
      BY <3>3, <1>1 DEF InboxOK
    <3> QED BY <3>1, <3>2, <3>4
  <2>5. \A b : InboxAwaits(b)' => InboxAwaits(b)
    BY <1>2 DEF InboxAwaits
  <2> QED BY <2>1, <2>2, <2>3, <2>4, <2>5, <1>2, <1>3 DEF InboxOK
<1>8. PracticeOK'
  <2>1. ASSUME NEW b \in calls', NEW d \in calls', PracticeAwaits(b), PracticeAwaits(d)
        PROVE  b = d /\ practice.lesson = None
    <3>1. PICK x \in calls : /\ b.page = x.page /\ b.gen = x.gen
                             /\ b = IF x.pc = "answered" THEN x ELSE Answered(x, Lost)
      BY <1>5
    <3>2. PICK y \in calls : /\ d.page = y.page /\ d.gen = y.gen
                             /\ d = IF y.pc = "answered" THEN y ELSE Answered(y, Lost)
      BY <1>5
    <3>3. PracticeAwaits(x) /\ PracticeAwaits(y)
      BY <3>1, <3>2, <2>1 DEF PracticeAwaits
    <3>4. x = y /\ practice.lesson = None
      BY <3>3, <1>1 DEF PracticeOK
    <3> QED BY <3>1, <3>2, <3>4
  <2>2. \A b : PracticeAwaits(b)' => PracticeAwaits(b)
    BY <1>2 DEF PracticeAwaits
  <2>3. \A d \in calls' : d.page = "practice" => d.gen <= practice'.gen
    BY <1>1, <1>2, <1>5 DEF PracticeOK
  <2> QED BY <2>1, <2>2, <2>3, <1>1, <1>2 DEF PracticeOK
<1> QED BY <1>4, <1>5, <1>6, <1>7, <1>8 DEF InboxInv

-----------------------------------------------------------------------------
(* The inbox *)

\* An answer that is put away, and nothing else.
LEMMA PutAway ==
    ASSUME InboxInv, NEW c \in calls, calls' = calls \ {c},
           UNCHANGED <<stores, pages, posted, restarts>>
    PROVE  InboxInv'
<1>1. Grows /\ UNCHANGED <<deliveries, choices, pages, posted, restarts>>
  BY NothingStored DEF stores
<1>2. StoresOK'
  BY <1>1, StoresStay DEF InboxInv, stores
<1>3. calls' \subseteq (calls \ {c}) \cup {c} /\ c \notin calls'
  OBVIOUS
<1> QED BY <1>1, <1>2, <1>3, PagesStay

\* Another selection, or none: what was asked for the last one no longer counts.
LEMMA NewSelection ==
    ASSUME InboxInv, UNCHANGED <<stores, practice, posted, restarts>>,
           inbox' \in InboxPages, inbox'.gen = inbox.gen + 1,
           inbox'.preview = None, inbox'.link = None,
           NEW d, calls' \subseteq calls \cup {d},
           d \in calls' =>
              /\ IsCall(d) /\ CallOK(d) /\ d.page = "inbox" /\ d.gen <= inbox.gen + 1
              /\ d.gen = inbox.gen + 1 => d.id = inbox'.selected
    PROVE  InboxInv'
<1>1. Grows /\ UNCHANGED <<deliveries, choices, practice, posted, restarts>>
  BY NothingStored DEF stores
<1>2. StoresOK'
  BY <1>1, StoresStay DEF InboxInv, stores
<1>3. \A c \in calls' : IsCall(c) /\ CallOK(c)'
  BY <1>1, CallStays, CallsStay
<1>4. TypeOK /\ InboxOK /\ PracticeOK
  BY DEF InboxInv
<1>5. TypeOK'
  BY <1>1, <1>3, <1>4 DEF TypeOK
<1>6. inbox.gen \in Nat /\ \A c \in calls' : IsCall(c)
  BY <1>3, <1>4 DEF TypeOK, InboxPages
<1>7. InboxOK'
  <2>1. LinkIsHonest'
    BY DEF LinkIsHonest
  <2>2. ASSUME NEW b \in calls', b.page = "inbox"
        PROVE  b.gen <= inbox.gen + 1 /\ (b.gen = inbox.gen + 1 => b = d)
    <3>1. b.gen \in Nat
      BY <1>6 DEF IsCall
    <3>2. CASE b \in calls
      BY <3>1, <3>2, <2>2, <1>4, <1>6 DEF InboxOK
    <3>3. CASE b \notin calls
      BY <3>3
    <3> QED BY <3>2, <3>3
  <2>3. \A a, b \in calls' : InboxAwaits(a)' /\ InboxAwaits(b)' =>
           a = b /\ a.id = inbox'.selected
    BY <2>2 DEF InboxAwaits
  <2> QED BY <2>1, <2>2, <2>3 DEF InboxOK
<1>8. PracticeOK'
  <2>1. calls \in SUBSET calls /\ (d \in calls' => d.page # "practice")
    OBVIOUS
  <2>2. CASE d \in calls'
    BY <2>1, <2>2, <1>1, PracticeStays DEF PracticeAwaits
  <2>3. CASE d \notin calls'
    <3>1. calls' \subseteq calls
      BY <2>3
    <3> QED BY <3>1, <1>1, <1>4 DEF PracticeOK, PracticeAwaits
  <2> QED BY <2>2, <2>3
<1> QED BY <1>2, <1>3, <1>5, <1>7, <1>8 DEF InboxInv

\* A step of the inbox that keeps its selection and what is shown of it.
LEMMA SameSelection ==
    ASSUME InboxInv, UNCHANGED <<stores, practice, restarts>>,
           posted \subseteq posted', posted' \subseteq Pinned,
           inbox' \in InboxPages, inbox'.gen = inbox.gen,
           inbox'.selected = inbox.selected, inbox'.preview = inbox.preview, LinkIsHonest',
           NEW d, calls' \subseteq calls \cup {d},
           d \in calls' => /\ IsCall(d) /\ CallOK(d)'
                           /\ d.page = "inbox" /\ d.kind = "choose" /\ d.gen = inbox.gen
    PROVE  InboxInv'
<1>1. Grows /\ UNCHANGED <<deliveries, choices, practice, restarts>>
  BY DEF stores, Grows
<1>2. StoresOK'
  BY <1>1, StoresStay DEF InboxInv, stores
<1>3. \A c \in calls' : IsCall(c) /\ CallOK(c)'
  BY <1>1, CallsStay
<1>4. TypeOK /\ InboxOK /\ PracticeOK
  BY DEF InboxInv
<1>5. TypeOK'
  BY <1>1, <1>3, <1>4 DEF TypeOK
<1>7. InboxOK'
  <2>1. (inbox.preview # None => inbox.preview.delivery = inbox.selected)'
    BY <1>4 DEF InboxOK
  <2>2. (restarts = 0 /\ inbox.preview # None => Fresh(inbox.preview))'
    BY <1>1, <1>4 DEF InboxOK, Fresh, Usable
  <2>3. \A b \in calls' : b.page = "inbox" => b.gen <= inbox'.gen
    <3>1. inbox.gen \in Nat
      BY <1>4 DEF TypeOK, InboxPages
    <3> QED BY <3>1, <1>4 DEF InboxOK
  <2>4. \A b \in calls' : InboxAwaits(b)' => b \in calls /\ InboxAwaits(b)
    BY DEF InboxAwaits
  <2>5. \A a, b \in calls' : InboxAwaits(a)' /\ InboxAwaits(b)' =>
           a = b /\ a.id = inbox'.selected /\ inbox'.preview = None
    BY <2>4, <1>4 DEF InboxOK
  <2> QED BY <2>1, <2>2, <2>3, <2>5 DEF InboxOK
<1>8. PracticeOK'
  <2>1. \A b \in calls' : PracticeAwaits(b)' => b \in calls /\ PracticeAwaits(b)
    BY <1>1 DEF PracticeAwaits
  <2>2. \A b \in calls' : b.page = "practice" => b.gen <= practice'.gen
    BY <1>1, <1>4 DEF PracticeOK
  <2> QED BY <2>1, <2>2, <1>1, <1>4 DEF PracticeOK
<1> QED BY <1>2, <1>3, <1>5, <1>7, <1>8 DEF InboxInv

LEMMA ListKeeps == ASSUME InboxInv, NEW c \in calls, ListArrives(c) PROVE InboxInv'
<1>1. /\ c.kind = "list" /\ c.pc = "answered" /\ calls' = calls \ {c}
      /\ UNCHANGED <<stores, practice, posted, restarts>>
  BY DEF ListArrives, bounds
<1>2. TypeOK /\ InboxOK /\ CallOK(c) /\ inbox \in InboxPages
  BY DEF InboxInv, TypeOK
<1>3. calls' \subseteq calls \cup {c} /\ c \notin calls'
  BY <1>1
<1>4. CASE ~Good(c.answer)
  <2>1. inbox' = inbox
    BY <1>4 DEF ListArrives
  <2> QED BY <2>1, <1>1, PutAway DEF pages
<1>5. CASE Good(c.answer) /\ inbox.selected \in c.answer.body \cup {None}
  <2>1. inbox' = [inbox EXCEPT !.listed = c.answer.body]
    BY <1>5 DEF ListArrives
  <2>2. c.answer.body \in SUBSET Ids
    BY <1>1, <1>2, <1>5 DEF CallOK, Told
  <2>3. /\ inbox' \in InboxPages /\ inbox'.gen = inbox.gen
        /\ inbox'.selected = inbox.selected /\ inbox'.preview = inbox.preview
        /\ inbox'.link = inbox.link
    BY <2>1, <2>2, <1>2 DEF InboxPages
  <2>4. LinkIsHonest'
    BY <2>3, <1>1, <1>2 DEF InboxOK, LinkIsHonest
  <2>5. posted \subseteq posted' /\ posted' \subseteq Pinned
    BY <1>1, <1>2 DEF TypeOK
  <2> QED BY <2>3, <2>4, <2>5, <1>1, <1>3, SameSelection
<1>6. CASE Good(c.answer) /\ inbox.selected \notin c.answer.body \cup {None}
  <2>1. inbox' = [Cleared EXCEPT !.listed = c.answer.body]
    BY <1>6 DEF ListArrives
  <2>2. c.answer.body \in SUBSET Ids
    BY <1>1, <1>2, <1>6 DEF CallOK, Told
  <2>a. inbox.gen + 1 \in Nat
    BY <1>2 DEF InboxPages
  <2>4. /\ Cleared \in InboxPages /\ Cleared.gen = inbox.gen + 1
        /\ Cleared.preview = None /\ Cleared.link = None
    <3> DEFINE g == inbox.gen + 1
    <3>1. Cleared = [inbox EXCEPT !.selected = None, !.preview = None, !.choosable = FALSE,
                                  !.link = None, !.gen = g]
      BY DEF Cleared
    <3> HIDE DEF g
    <3>2. g \in Nat
      BY <2>a DEF g
    <3>3. /\ Cleared \in InboxPages /\ Cleared.gen = g
          /\ Cleared.preview = None /\ Cleared.link = None
      BY <3>1, <3>2, <1>2 DEF InboxPages
    <3> QED BY <3>3 DEF g
  <2>3. /\ inbox' \in InboxPages /\ inbox'.gen = inbox.gen + 1
        /\ inbox'.preview = None /\ inbox'.link = None
    BY <2>1, <2>2, <2>4 DEF InboxPages
  <2> QED BY <2>3, <1>1, <1>3, NewSelection
<1> QED BY <1>4, <1>5, <1>6

LEMMA SelectKeeps == ASSUME InboxInv, NEW id, Select(id) PROVE InboxInv'
<1>1. PICK d : d = Call("inbox", "preview", inbox.gen + 1, id, None)
  OBVIOUS
<1>2. /\ id \in (inbox.listed \cup {inbox.selected}) \ {None}
      /\ calls' = calls \cup {d} /\ UNCHANGED <<stores, practice, posted, restarts>>
      /\ inbox' = [inbox EXCEPT !.selected = id, !.preview = None, !.choosable = FALSE,
                                !.link = None, !.gen = @ + 1]
  BY <1>1 DEF Select, bounds
<1>3. inbox \in InboxPages
  BY DEF InboxInv, TypeOK
<1>4. id \in Ids /\ inbox.gen \in Nat
  BY <1>2, <1>3 DEF InboxPages
<1>5. /\ inbox' \in InboxPages /\ inbox'.gen = inbox.gen + 1
      /\ inbox'.preview = None /\ inbox'.link = None /\ inbox'.selected = id
  <2> DEFINE g == inbox.gen + 1
  <2>1. g \in Nat
    BY <1>4
  <2>2. inbox' = [inbox EXCEPT !.selected = id, !.preview = None, !.choosable = FALSE,
                               !.link = None, !.gen = g]
    BY <1>2
  <2> HIDE DEF g
  <2>3. /\ inbox' \in InboxPages /\ inbox'.gen = g
        /\ inbox'.preview = None /\ inbox'.link = None /\ inbox'.selected = id
    BY <2>1, <2>2, <1>3, <1>4 DEF InboxPages
  <2> QED BY <2>3 DEF g
<1>6. /\ IsCall(d) /\ d.page = "inbox" /\ d.kind = "preview" /\ d.gen = inbox.gen + 1
      /\ d.id = id /\ d.pc = "sent"
  BY <1>1, <1>4 DEF Call, IsCall
<1>7. CallOK(d)
  BY <1>6 DEF CallOK, Asked, Told, Unforgotten
<1> QED BY <1>2, <1>4, <1>5, <1>6, <1>7, NewSelection

LEMMA PreviewKeeps == ASSUME InboxInv, NEW c \in calls, PreviewArrives(c) PROVE InboxInv'
<1>1. /\ c.page = "inbox" /\ c.kind = "preview" /\ c.pc = "answered"
      /\ UNCHANGED <<stores, practice, posted, restarts>>
  BY DEF PreviewArrives, bounds
<1>2. /\ TypeOK /\ StoresOK /\ InboxOK /\ PracticeOK /\ CallOK(c) /\ IsCall(c)
      /\ inbox \in InboxPages
  BY DEF InboxInv, TypeOK
<1>3. CASE ~(Current(c) /\ Ready(c.answer, c.id))
  <2>1. calls' = calls \ {c} /\ inbox' = inbox
    BY <1>3 DEF PreviewArrives
  <2> QED BY <2>1, <1>1, PutAway DEF pages
<1>4. CASE Current(c) /\ Ready(c.answer, c.id)
  <2>1. PICK p : p = c.answer.body
    OBVIOUS
  <2>2. PICK d : d = Call("inbox", "choice", c.gen, c.id, p)
    OBVIOUS
  <2>3. calls' = (calls \ {c}) \cup {d} /\ inbox' = [inbox EXCEPT !.preview = p]
    BY <1>4, <2>1, <2>2 DEF PreviewArrives, Replace
  <2>4. /\ p \in Pinned /\ p.delivery = c.id
        /\ restarts = 0 => Fresh(p)
    BY <1>1, <1>2, <1>4, <2>1 DEF CallOK, Told, Unforgotten, Ready
  <2>5. c.gen = inbox.gen /\ c.id = inbox.selected /\ inbox.preview = None /\ inbox.link = None
    <3>1. InboxAwaits(c)
      BY <1>1, <1>4 DEF InboxAwaits, Current
    <3> QED BY <3>1, <1>2 DEF InboxOK, LinkIsHonest, InboxAwaits
  <2>6. /\ inbox' \in InboxPages /\ inbox'.gen = inbox.gen
        /\ inbox'.selected = inbox.selected /\ inbox'.preview = p /\ inbox'.link = None
    BY <2>3, <2>4, <2>5, <1>2 DEF InboxPages
  <2>7. /\ IsCall(d) /\ d.page = "inbox" /\ d.kind = "choice" /\ d.gen = inbox.gen
        /\ d.pc = "sent"
    BY <2>2, <2>4, <2>5, <1>2 DEF Call, IsCall
  <2>8. Grows /\ UNCHANGED <<deliveries, choices, practice, posted, restarts>>
    BY <1>1, NothingStored DEF stores
  <2>9. CallOK(d)'
    BY <2>7 DEF CallOK, Asked, Told, Unforgotten
  <2>10. calls' \subseteq calls \cup {d}
    BY <2>3
  <2>11. \A b \in calls' : IsCall(b) /\ CallOK(b)'
    BY <2>7, <2>8, <2>9, <2>10, CallsStay
  <2>12. TypeOK'
    BY <2>6, <2>8, <2>11, <1>2 DEF TypeOK
  <2>13. InboxOK'
    <3>1. LinkIsHonest'
      BY <2>6 DEF LinkIsHonest
    <3>2. (restarts = 0 /\ inbox.preview # None => Fresh(inbox.preview))'
      BY <2>4, <2>6, <2>8 DEF Fresh, Usable
    <3>3. \A b \in calls' : b.page = "inbox" => b.gen <= inbox'.gen
      <4>1. inbox.gen \in Nat
        BY <1>2 DEF InboxPages
      <4> QED BY <4>1, <2>3, <2>6, <2>7, <1>2 DEF InboxOK
    <3>4. ASSUME NEW b \in calls', InboxAwaits(b)'
          PROVE  FALSE
      <4>1. b \in calls /\ b # c /\ InboxAwaits(b)
        BY <3>4, <2>3, <2>6, <2>7 DEF InboxAwaits
      <4>2. InboxAwaits(c)
        BY <1>1, <2>5 DEF InboxAwaits
      <4> QED BY <4>1, <4>2, <1>2 DEF InboxOK
    <3> QED BY <3>1, <3>2, <3>3, <3>4, <2>4, <2>5, <2>6 DEF InboxOK
  <2>14. PracticeOK'
    <3>1. PICK old \in SUBSET calls : old = calls \ {c}
      OBVIOUS
    <3> QED BY <3>1, <2>3, <2>7, <2>8, PracticeStays DEF PracticeAwaits
  <2>15. StoresOK'
    BY <2>8, <1>2, StoresStay DEF stores
  <2> QED BY <2>11, <2>12, <2>13, <2>14, <2>15 DEF InboxInv
<1> QED BY <1>3, <1>4

LEMMA ChoiceKeeps == ASSUME InboxInv, NEW c \in calls, ChoiceArrives(c) PROVE InboxInv'
<1>1. /\ c.page = "inbox" /\ c.kind = "choice" /\ c.pc = "answered" /\ calls' = calls \ {c}
      /\ UNCHANGED <<stores, practice, posted, restarts>>
  BY DEF ChoiceArrives, bounds
<1>2. TypeOK /\ InboxOK /\ CallOK(c) /\ inbox \in InboxPages
  BY DEF InboxInv, TypeOK
<1>3. calls' \subseteq calls \cup {c} /\ c \notin calls'
  BY <1>1
<1>4. CASE ~(Current(c) /\ inbox.selected = c.id /\ inbox.preview = c.expected)
  <2>1. inbox' = inbox
    BY <1>4 DEF ChoiceArrives
  <2> QED BY <2>1, <1>1, PutAway DEF pages
<1>5. CASE Current(c) /\ inbox.selected = c.id /\ inbox.preview = c.expected
  <2> DEFINE ch == /\ c.answer.status = 404
                   /\ c.answer.error = "unknown_practice_choice"
             l == IF Chosen(c.answer, inbox.preview) THEN c.answer.body.delivery ELSE None
  <2>1. inbox' = [inbox EXCEPT !.choosable = ch, !.link = l]
    BY <1>5 DEF ChoiceArrives
  <2>2. ch \in BOOLEAN
    OBVIOUS
  <2>3. l # None => /\ l = inbox.selected /\ inbox.preview # None
                    /\ inbox.preview \in posted
    BY <1>1, <1>2 DEF Chosen, CallOK, Told, InboxOK
  <2>4. l \in Ids \cup {None}
    BY <2>3, <1>2 DEF InboxPages
  <2> HIDE DEF ch, l
  <2>5. /\ inbox' \in InboxPages /\ inbox'.gen = inbox.gen
        /\ inbox'.selected = inbox.selected /\ inbox'.preview = inbox.preview
        /\ inbox'.link = l
    BY <2>1, <2>2, <2>4, <1>2 DEF InboxPages
  <2>6. LinkIsHonest'
    BY <2>3, <2>5, <1>1, <1>2 DEF InboxOK, LinkIsHonest
  <2>7. posted \subseteq posted' /\ posted' \subseteq Pinned
    BY <1>1, <1>2 DEF TypeOK
  <2> QED BY <2>5, <2>6, <2>7, <1>1, <1>3, SameSelection
<1> QED BY <1>4, <1>5

LEMMA ChooseKeeps == ASSUME InboxInv, ChooseForPractice PROVE InboxInv'
<1>1. PICK d : d = Call("inbox", "choose", inbox.gen, inbox.selected, inbox.preview)
  OBVIOUS
<1>2. /\ inbox.preview # None /\ inbox.preview.delivery = inbox.selected
      /\ inbox' = [inbox EXCEPT !.choosable = FALSE, !.link = None]
      /\ calls' = calls \cup {d} /\ posted' = posted \cup {inbox.preview}
      /\ UNCHANGED <<stores, practice, restarts>>
  BY <1>1 DEF ChooseForPractice, bounds
<1>3. TypeOK /\ InboxOK /\ inbox \in InboxPages
  BY DEF InboxInv, TypeOK
<1>4. /\ inbox' \in InboxPages /\ inbox'.gen = inbox.gen
      /\ inbox'.selected = inbox.selected /\ inbox'.preview = inbox.preview
      /\ inbox'.link = None
  BY <1>2, <1>3 DEF InboxPages
<1>5. LinkIsHonest'
  BY <1>4 DEF LinkIsHonest
<1>6. inbox.preview \in Pinned /\ posted \subseteq posted' /\ posted' \subseteq Pinned
  BY <1>2, <1>3 DEF InboxPages, TypeOK
<1>7. /\ IsCall(d) /\ d.page = "inbox" /\ d.kind = "choose" /\ d.gen = inbox.gen
      /\ d.pc = "sent" /\ d.expected = inbox.preview /\ d.id = inbox.selected
  BY <1>1, <1>3, <1>6 DEF Call, IsCall, InboxPages
<1>8. CallOK(d)'
  <2>1. restarts = 0 => Fresh(d.expected)
    BY <1>2, <1>3, <1>7 DEF InboxOK
  <2>2. restarts' = 0 => Fresh(d.expected)'
    BY <2>1, <1>2 DEF Fresh, Usable, stores
  <2>3. Asked(d)'
    BY <1>2, <1>7 DEF Asked
  <2> QED BY <2>2, <2>3, <1>7 DEF CallOK, Told, Unforgotten
<1> QED BY <1>2, <1>4, <1>5, <1>6, <1>7, <1>8, SameSelection

LEMMA ChosenKeeps == ASSUME InboxInv, NEW c \in calls, ChosenArrives(c) PROVE InboxInv'
<1>1. /\ c.kind = "choose" /\ c.pc = "answered" /\ calls' = calls \ {c}
      /\ UNCHANGED <<stores, practice, posted, restarts>>
  BY DEF ChosenArrives, bounds
<1>2. TypeOK /\ InboxOK /\ CallOK(c) /\ inbox \in InboxPages
  BY DEF InboxInv, TypeOK
<1>3. calls' \subseteq calls \cup {c} /\ c \notin calls'
  BY <1>1
<1>4. CASE ~(Current(c) /\ inbox.preview = c.expected /\ Chosen(c.answer, c.expected))
  <2>1. inbox' = inbox
    BY <1>4 DEF ChosenArrives
  <2> QED BY <2>1, <1>1, PutAway DEF pages
<1>5. CASE Current(c) /\ inbox.preview = c.expected /\ Chosen(c.answer, c.expected)
  <2> DEFINE l == c.answer.body.delivery
  <2>1. inbox' = [inbox EXCEPT !.link = l]
    BY <1>5 DEF ChosenArrives
  <2>2. l = inbox.selected /\ inbox.preview # None /\ inbox.preview \in posted
    BY <1>1, <1>2, <1>5 DEF Chosen, CallOK, Told, InboxOK
  <2>3. l \in Ids \cup {None}
    BY <2>2, <1>2 DEF InboxPages
  <2> HIDE DEF l
  <2>5. /\ inbox' \in InboxPages /\ inbox'.gen = inbox.gen
        /\ inbox'.selected = inbox.selected /\ inbox'.preview = inbox.preview
        /\ inbox'.link = l
    BY <2>1, <2>3, <1>2 DEF InboxPages
  <2>6. LinkIsHonest'
    BY <2>2, <2>5, <1>1, <1>2 DEF InboxOK, LinkIsHonest
  <2>7. posted \subseteq posted' /\ posted' \subseteq Pinned
    BY <1>1, <1>2 DEF TypeOK
  <2> QED BY <2>5, <2>6, <2>7, <1>1, <1>3, SameSelection
<1> QED BY <1>4, <1>5

-----------------------------------------------------------------------------
(* The practice page *)

LEMMA OpenKeeps == ASSUME InboxInv, NEW id, OpenPractice(id) PROVE InboxInv'
<1> DEFINE g == practice.gen + 1
<1>1. PICK d : d = Call("practice", "preview", g, id, None)
  OBVIOUS
<1>2. /\ id \in {inbox.link, practice.id} \ {None} /\ calls' = calls \cup {d}
      /\ practice' = [Closed EXCEPT !.id = id, !.gen = g]
      /\ UNCHANGED <<stores, inbox, posted, restarts>>
  BY <1>1 DEF OpenPractice, bounds
<1>3. /\ TypeOK /\ StoresOK /\ PracticeOK /\ inbox \in InboxPages
      /\ practice \in PracticePages /\ practice.gen \in Nat
  BY DEF InboxInv, TypeOK, PracticePages
<1>4. id \in Ids /\ g \in Nat /\ g > practice.gen
  BY <1>2, <1>3 DEF InboxPages, PracticePages
<1> HIDE DEF g
<1>5. /\ practice' \in PracticePages /\ practice'.gen = g /\ practice'.lesson = None
  BY <1>2, <1>4 DEF PracticePages, Closed
<1>6. /\ IsCall(d) /\ d.page = "practice" /\ d.kind = "preview" /\ d.gen = g
      /\ d.id = id /\ d.pc = "sent"
  BY <1>1, <1>4 DEF Call, IsCall
<1>7. Grows /\ UNCHANGED <<deliveries, choices, inbox, posted, restarts>>
  BY <1>2, NothingStored DEF stores
<1>8. CallOK(d)'
  BY <1>6 DEF CallOK, Asked, Told, Unforgotten
<1>9. \A b \in calls' : IsCall(b) /\ CallOK(b)'
  BY <1>2, <1>6, <1>7, <1>8, CallsStay
<1>10. TypeOK'
  BY <1>3, <1>5, <1>7, <1>9 DEF TypeOK
<1>11. InboxOK'
  <2>1. PICK old \in SUBSET calls : old = calls
    OBVIOUS
  <2> QED BY <2>1, <1>2, <1>6, <1>7, InboxStays DEF InboxAwaits
<1>12. PracticeOK'
  <2>1. ASSUME NEW b \in calls', b.page = "practice"
        PROVE  b.gen <= g /\ (b.gen = g => b = d)
    <3>1. b.gen \in Nat
      BY <1>9 DEF IsCall
    <3>2. CASE b \in calls
      BY <3>1, <3>2, <2>1, <1>3, <1>4 DEF PracticeOK
    <3>3. CASE b = d
      BY <3>3, <1>4, <1>6
    <3> QED BY <3>2, <3>3, <1>2
  <2> QED BY <2>1, <1>5 DEF PracticeOK, PracticeAwaits
<1>13. StoresOK'
  BY <1>3, <1>7, StoresStay DEF stores
<1> QED BY <1>9, <1>10, <1>11, <1>12, <1>13 DEF InboxInv

\* The answer the page awaited is taken, and d, at the most, is asked next.
LEMMA PracticeMoves ==
    ASSUME InboxInv, UNCHANGED <<stores, inbox, posted, restarts>>,
           NEW c \in calls, PracticeAwaits(c),
           practice' \in PracticePages, practice'.gen = practice.gen,
           practice'.lesson # None =>
              /\ practice'.preview \in posted
              /\ practice'.lesson.artifact = practice'.preview.artifact
              /\ practice'.lesson.behavior = practice'.preview.behavior
              /\ practice'.lesson.fate = "prepared",
           NEW d, calls' \subseteq (calls \ {c}) \cup {d}, d.page = "practice",
           d \in calls' => /\ IsCall(d) /\ CallOK(d)' /\ d.gen = practice.gen
                           /\ practice'.lesson = None
    PROVE  InboxInv'
<1>1. TypeOK /\ StoresOK /\ PracticeOK /\ practice.gen \in Nat
  BY DEF InboxInv, TypeOK, PracticePages
<1>2. Grows /\ UNCHANGED <<deliveries, choices, inbox, posted, restarts>>
  BY NothingStored DEF stores
<1>3. \A b \in calls' : IsCall(b) /\ CallOK(b)'
  BY <1>2, CallsStay
<1>4. TypeOK'
  BY <1>1, <1>2, <1>3 DEF TypeOK
<1>5. InboxOK'
  <2>1. PICK old \in SUBSET calls : old = calls \ {c}
    OBVIOUS
  <2>2. ~InboxAwaits(d)
    BY DEF InboxAwaits
  <2> QED BY <2>1, <2>2, <1>2, InboxStays
<1>6. PracticeOK'
  <2>1. \A b \in calls' : PracticeAwaits(b)' => b = d
    BY <1>1 DEF PracticeOK, PracticeAwaits
  <2>2. \A b \in calls' : b.page = "practice" => b.gen <= practice'.gen
    BY <1>1 DEF PracticeOK
  <2> QED BY <2>1, <2>2, <1>2 DEF PracticeOK
<1>7. StoresOK'
  BY <1>1, <1>2, StoresStay DEF stores
<1> QED BY <1>3, <1>4, <1>5, <1>6, <1>7 DEF InboxInv

LEMMA PracticeKeeps == ASSUME InboxInv, NEW c \in calls, PracticeArrives(c) PROVE InboxInv'
<1>1. /\ c.page = "practice" /\ c.pc = "answered"
      /\ UNCHANGED <<stores, inbox, posted, restarts>>
  BY DEF PracticeArrives, bounds
<1>2. /\ TypeOK /\ PracticeOK /\ CallOK(c) /\ IsCall(c) /\ practice \in PracticePages
      /\ posted \subseteq Pinned
  BY DEF InboxInv, TypeOK
<1>3. CASE calls' = calls \ {c} /\ UNCHANGED practice
  BY <1>1, <1>3, PutAway DEF pages
<1>4. ASSUME PracticeAwaits(c), c.kind = "preview", Ready(c.answer, c.id),
             practice' = [practice EXCEPT !.preview = c.answer.body],
             Replace(c, Call("practice", "choice", c.gen, c.id, None))
      PROVE  InboxInv'
  <2>1. PICK p : p = c.answer.body
    OBVIOUS
  <2>2. PICK d : d = Call("practice", "choice", c.gen, c.id, None)
    OBVIOUS
  <2>3. p \in Pinned /\ practice.lesson = None
    BY <1>1, <1>2, <1>4, <2>1 DEF CallOK, Told, Ready, PracticeOK
  <2>4. practice' = [practice EXCEPT !.preview = p] /\ calls' = (calls \ {c}) \cup {d}
    BY <1>4, <2>1, <2>2 DEF Replace
  <2>5. practice' \in PracticePages /\ practice'.gen = practice.gen /\ practice'.lesson = None
    BY <2>3, <2>4, <1>2 DEF PracticePages
  <2>6. /\ IsCall(d) /\ d.page = "practice" /\ d.kind = "choice" /\ d.gen = c.gen
        /\ d.pc = "sent"
    BY <2>2, <1>2 DEF Call, IsCall
  <2>7. CallOK(d)'
    BY <2>6 DEF CallOK, Asked, Told, Unforgotten
  <2>8. d.gen = practice.gen
    BY <2>6, <1>4 DEF PracticeAwaits
  <2> QED BY <1>1, <1>4, <2>4, <2>5, <2>6, <2>7, <2>8, PracticeMoves
<1>5. ASSUME PracticeAwaits(c), c.kind = "choice", Chosen(c.answer, practice.preview),
             practice' = [practice EXCEPT !.choice = c.answer.body],
             Replace(c, Call("practice", "prepare", c.gen, c.id, practice.preview))
      PROVE  InboxInv'
  <2>1. PICK p : p = c.answer.body
    OBVIOUS
  <2>2. PICK d : d = Call("practice", "prepare", c.gen, c.id, p)
    OBVIOUS
  <2>3. /\ p = practice.preview /\ p \in Pinned /\ practice.lesson = None
        /\ restarts = 0 => Stored(c.id, p)
    BY <1>1, <1>2, <1>5, <2>1 DEF CallOK, Told, Unforgotten, Chosen, PracticeOK
  <2>4. practice' = [practice EXCEPT !.choice = p] /\ calls' = (calls \ {c}) \cup {d}
    BY <1>5, <2>1, <2>2, <2>3 DEF Replace
  <2>5. practice' \in PracticePages /\ practice'.gen = practice.gen /\ practice'.lesson = None
    BY <2>3, <2>4, <1>2 DEF PracticePages
  <2>6. /\ IsCall(d) /\ d.page = "practice" /\ d.kind = "prepare" /\ d.gen = c.gen
        /\ d.pc = "sent" /\ d.id = c.id /\ d.expected = p
    BY <2>2, <2>3, <1>2 DEF Call, IsCall
  <2>7. CallOK(d)'
    BY <2>3, <2>6, <1>1 DEF CallOK, Asked, Told, Unforgotten, Stored, stores
  <2>8. d.gen = practice.gen
    BY <2>6, <1>5 DEF PracticeAwaits
  <2> QED BY <1>1, <1>5, <2>4, <2>5, <2>6, <2>7, <2>8, PracticeMoves
<1>6. ASSUME PracticeAwaits(c), c.kind = "prepare", Accepts(c.answer),
             practice' = [practice EXCEPT !.lesson = c.answer.body.assignment],
             calls' = calls \ {c}
      PROVE  InboxInv'
  <2>1. PICK e \in Kept : /\ c.answer.body = [pins |-> Pins(e), assignment |-> e.assignment]
                          /\ Pins(e) \in posted /\ e.assignment.fate = "prepared"
    BY <1>1, <1>2, <1>6 DEF Accepts, CallOK, Told, ChosenLesson
  <2>2. PICK a : a = e.assignment
    OBVIOUS
  <2>3. practice.preview = Pins(e) /\ practice' = [practice EXCEPT !.lesson = a]
    BY <1>6, <2>1, <2>2 DEF Accepts
  <2>4. a \in Lessons /\ a.artifact = Pins(e).artifact /\ a.behavior = Pins(e).behavior
    BY <2>2 DEF Lessons, Pins, Kept, Intact
  <2>5. /\ practice' \in PracticePages /\ practice'.gen = practice.gen
        /\ practice'.lesson = a /\ practice'.preview = practice.preview
    BY <2>3, <2>4, <1>2 DEF PracticePages
  <2>6. calls' \subseteq (calls \ {c}) \cup {c} /\ c \notin calls'
    BY <1>6
  <2> QED BY <1>1, <1>6, <2>1, <2>2, <2>3, <2>4, <2>5, <2>6, PracticeMoves
<1>7. ~Current(c) => calls' = calls \ {c} /\ UNCHANGED practice
  BY DEF PracticeArrives
<1>8. Current(c) => PracticeAwaits(c)
  BY <1>1 DEF Current, PracticeAwaits
<1> QED BY <1>3, <1>4, <1>5, <1>6, <1>7, <1>8 DEF PracticeArrives

-----------------------------------------------------------------------------
(* The theorems *)

\* At every moment what is stored, what is on its way and what the two pages show
\* fit together (lesson_inbox.js, received_practice and the delivery services).
THEOREM InboxInvariance == Spec => []InboxInv
<1>1. Init => InboxInv
  BY DEF Init, InitStores, Nowhere, Closed, InboxInv, TypeOK, StoresOK, InboxOK, PracticeOK,
         LinkIsHonest, InboxPages, PracticePages
<1>2. InboxInv /\ [Next]_vars => InboxInv'
  <2> SUFFICES ASSUME InboxInv, [Next]_vars PROVE InboxInv'
    OBVIOUS
  <2>1. ASSUME NEW c \in calls, Arrives(c) PROVE InboxInv'
    BY <2>1, ListKeeps, PreviewKeeps, ChoiceKeeps, ChosenKeeps, PracticeKeeps DEF Arrives
  <2>2. ASSUME NEW c \in calls, Serve(c) \/ CheckChoice(c) \/ StoreChoice(c) \/ Lose(c)
        PROVE  InboxInv'
    BY <2>2, ServeKeeps, CheckKeeps, StoreKeeps, LoseKeeps
  <2>3. ASSUME UNCHANGED vars PROVE InboxInv'
    <3>1. calls' \subseteq calls \cup {Call("inbox", "list", 0, None, None)}
      BY <2>3 DEF vars
    <3>2. Grows /\ UNCHANGED <<deliveries, choices, pages, posted, restarts>>
      BY <2>3, NothingStored DEF vars, stores, bounds
    <3>3. StoresOK'
      BY <3>2, StoresStay DEF InboxInv, stores
    <3> QED BY <3>1, <3>2, <3>3, ListingStays
  <2>4. CASE RefreshInbox \/ ChooseForPractice \/ Restart
    BY <2>4, RefreshKeeps, ChooseKeeps, RestartKeeps
  <2>5. ASSUME NEW id, Select(id) \/ OpenPractice(id) PROVE InboxInv'
    BY <2>5, SelectKeeps, OpenKeeps
  <2> QED BY <2>1, <2>2, <2>3, <2>4, <2>5, DeliverKeeps DEF Next
<1> QED BY <1>1, <1>2, PTL DEF Spec

\* While the service lives a choice binds, whatever is delivered again under its
\* id: LocalPracticeChoiceService and the repositories' put_if_absent.
THEOREM ChoicesBind == Spec => []ChoiceIsBinding
<1>1. InboxInv => ChoiceIsBinding
  BY DEF InboxInv, StoresOK, CallOK, Told, ChoiceIsBinding
<1> QED BY <1>1, InboxInvariance, PTL

\* What is practised is what the learner was shown and chose, also across a
\* restart that made the service forget and receive another lesson.
THEOREM ChosenIsPractised == Spec => []PractisedAsChosen
<1>1. InboxInv => PractisedAsChosen
  BY DEF InboxInv, InboxOK, PracticeOK, PractisedAsChosen
<1> QED BY <1>1, InboxInvariance, PTL
=============================================================================
