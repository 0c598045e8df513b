----------------------------- MODULE LessonInbox -----------------------------
(***************************************************************************)
(* The lesson inbox and the practice page against the delivery service.     *)
(*                                                                         *)
(* The inbox requests a fresh preview of the delivery that is selected, asks *)
(* whether a choice is stored, lets the learner choose and then offers the  *)
(* link to the practice page, which previews, confirms the choice and       *)
(* prepares again.  A page awaits one answer after the other, but what was  *)
(* asked for an earlier selection is still on its way: an answer counts     *)
(* only if its generation is the page's.  Requests and answers may be lost, *)
(* and the service may restart with both of its stores empty.               *)
(*                                                                         *)
(* A call is [page, kind, gen, id, expected, pc, answer]; `posted' is a     *)
(* history variable: the pins the learner was shown when choosing.          *)
(***************************************************************************)
EXTENDS LessonDeliveries

CONSTANTS MaxCalls, MaxSelections, MaxOpenings, MaxReceived, MaxRestarts

VARIABLES
    inbox,     \* [listed, selected, preview, choosable, link, gen]
    practice,  \* [id, preview, choice, lesson, gen]
    calls,     \* requests and answers on their way
    posted,
    received, restarts

pages == <<inbox, practice>>
bounds == <<received, restarts>>
vars == <<stores, pages, calls, posted, bounds>>

Closed == [id |-> None, preview |-> None, choice |-> None, lesson |-> None, gen |-> 0]

Init ==
    /\ InitStores
    /\ inbox = [listed |-> {}, selected |-> None, preview |-> None,
                choosable |-> FALSE, link |-> None, gen |-> 0]
    /\ practice = Closed
    /\ calls = {} /\ posted = {} /\ received = 0 /\ restarts = 0

-----------------------------------------------------------------------------
(* Calls *)

Call(page, kind, gen, id, expected) ==
    [page |-> page, kind |-> kind, gen |-> gen, id |-> id, expected |-> expected,
     pc |-> "sent", answer |-> None]

MaySend == Cardinality(calls) < MaxCalls

Replace(c, d) == calls' = (calls \ {c}) \cup {d}
Answered(c, answer) == [c EXCEPT !.pc = "answered", !.answer = answer]

\* What a fetch that never came through looks like to a page.
Lost == Refuse(0, None)

\* Whether the page still waits for this call.
Current(c) == c.gen = IF c.page = "inbox" THEN inbox.gen ELSE practice.gen

-----------------------------------------------------------------------------
(* The inbox *)

\* Only the newest list counts: an older one still on its way is given up.
RefreshInbox ==
    /\ MaySend
    /\ calls' = {c \in calls : c.kind # "list"} \cup {Call("inbox", "list", 0, None, None)}
    /\ UNCHANGED <<stores, pages, posted, bounds>>

\* clearSelection: a selected delivery that is no longer listed is let go.
Cleared == [inbox EXCEPT !.selected = None, !.preview = None, !.choosable = FALSE,
                         !.link = None, !.gen = @ + 1]

ListArrives(c) ==
    /\ c.kind = "list" /\ c.pc = "answered"
    /\ calls' = calls \ {c}
    /\ inbox' = IF ~Good(c.answer) THEN inbox
                ELSE [(IF inbox.selected \in c.answer.body \cup {None} THEN inbox ELSE Cleared)
                         EXCEPT !.listed = c.answer.body]
    /\ UNCHANGED <<stores, practice, posted, bounds>>

\* loadSelection, from the list or by refreshing what is selected
Select(id) ==
    /\ MaySend /\ inbox.gen < MaxSelections
    /\ id \in (inbox.listed \cup {inbox.selected}) \ {None}
    /\ inbox' = [inbox EXCEPT !.selected = id, !.preview = None, !.choosable = FALSE,
                              !.link = None, !.gen = @ + 1]
    /\ calls' = calls \cup {Call("inbox", "preview", inbox.gen + 1, id, None)}
    /\ UNCHANGED <<stores, practice, posted, bounds>>

\* isReadyPreview and isChosen
Ready(answer, id) == Good(answer) /\ answer.body.delivery = id
Chosen(answer, preview) == preview # None /\ Good(answer) /\ answer.body = preview

PreviewArrives(c) ==
    /\ c.page = "inbox" /\ c.kind = "preview" /\ c.pc = "answered"
    /\ IF Current(c) /\ Ready(c.answer, c.id)
       THEN /\ inbox' = [inbox EXCEPT !.preview = c.answer.body]
            /\ Replace(c, Call("inbox", "choice", c.gen, c.id, c.answer.body))
       ELSE calls' = calls \ {c} /\ UNCHANGED inbox
    /\ UNCHANGED <<stores, practice, posted, bounds>>

\* applyChoice, if this is still the selection and the preview it was asked for
ChoiceArrives(c) ==
    /\ c.page = "inbox" /\ c.kind = "choice" /\ c.pc = "answered"
    /\ calls' = calls \ {c}
    /\ inbox' = IF ~ (Current(c) /\ inbox.selected = c.id /\ inbox.preview = c.expected)
                THEN inbox
                ELSE [inbox EXCEPT
                        !.choosable = c.answer.status = 404
                                      /\ c.answer.error = "unknown_practice_choice",
                        !.link = IF Chosen(c.answer, inbox.preview) THEN c.answer.body.delivery
                                 ELSE None]
    /\ UNCHANGED <<stores, practice, posted, bounds>>

ChooseForPractice ==
    /\ MaySend /\ inbox.choosable
    /\ inbox.preview # None /\ inbox.preview.delivery = inbox.selected
    /\ inbox' = [inbox EXCEPT !.choosable = FALSE, !.link = None]
    /\ calls' = calls \cup {Call("inbox", "choose", inbox.gen, inbox.selected, inbox.preview)}
    /\ posted' = posted \cup {inbox.preview}
    /\ UNCHANGED <<stores, practice, bounds>>

ChosenArrives(c) ==
    /\ c.kind = "choose" /\ c.pc = "answered"
    /\ calls' = calls \ {c}
    /\ inbox' = IF Current(c) /\ inbox.preview = c.expected /\ Chosen(c.answer, c.expected)
                THEN [inbox EXCEPT !.link = c.answer.body.delivery] ELSE inbox
    /\ UNCHANGED <<stores, practice, posted, bounds>>

-----------------------------------------------------------------------------
(* The practice page: loadLesson *)

\* The link opens it anew, or the page that is open is loaded again.
OpenPractice(id) ==
    /\ MaySend /\ practice.gen < MaxOpenings /\ id \in {inbox.link, practice.id} \ {None}
    /\ practice' = [Closed EXCEPT !.id = id, !.gen = practice.gen + 1]
    /\ calls' = calls \cup {Call("practice", "preview", practice.gen + 1, id, None)}
    /\ UNCHANGED <<stores, inbox, posted, bounds>>

\* preparationMatches, as far as identities and digests go
Accepts(answer) ==
    /\ Good(answer)
    /\ answer.body.pins = practice.preview /\ answer.body.pins = practice.choice

PracticeArrives(c) ==
    /\ c.page = "practice" /\ c.pc = "answered"
    /\ IF ~Current(c) THEN calls' = calls \ {c} /\ UNCHANGED practice
       ELSE \/ /\ c.kind = "preview" /\ Ready(c.answer, c.id)
               /\ practice' = [practice EXCEPT !.preview = c.answer.body]
               /\ Replace(c, Call("practice", "choice", c.gen, c.id, None))
            \/ /\ c.kind = "choice" /\ Chosen(c.answer, practice.preview)
               /\ practice' = [practice EXCEPT !.choice = c.answer.body]
               /\ Replace(c, Call("practice", "prepare", c.gen, c.id, practice.preview))
            \/ /\ c.kind = "prepare" /\ Accepts(c.answer)
               /\ practice' = [practice EXCEPT !.lesson = c.answer.body.assignment]
               /\ calls' = calls \ {c}
            \/ /\ ~ \/ c.kind = "preview" /\ Ready(c.answer, c.id)
                    \/ c.kind = "choice" /\ Chosen(c.answer, practice.preview)
                    \/ c.kind = "prepare" /\ Accepts(c.answer)
               /\ calls' = calls \ {c} /\ UNCHANGED practice
    /\ UNCHANGED <<stores, inbox, posted, bounds>>

-----------------------------------------------------------------------------
(* The service's threads: what is stored of a delivery never changes while   *)
(* the service lives, so only the storing of a choice is a step of its own.   *)

Answers(c) ==
    CASE c.kind = "list"    -> List
      [] c.kind = "preview" -> Preview(c.id)
      [] c.kind = "choice"  -> StoredChoice(c.id)
      [] c.kind = "prepare" -> Prepare(c.id, c.expected)

Serve(c) ==
    /\ c.pc = "sent" /\ c.kind # "choose"
    /\ Replace(c, Answered(c, Answers(c)))
    /\ UNCHANGED <<stores, pages, posted, bounds>>

\* LocalPracticeChoiceService.choose: the preview, then the store.
CheckChoice(c) ==
    /\ c.pc = "sent" /\ c.kind = "choose"
    /\ IF Choosable(c.id, c.expected)
       THEN Replace(c, [c EXCEPT !.pc = "previewed", !.answer = Pins(deliveries[c.id])])
       ELSE Replace(c, Answered(c, ChoiceRefused(c.id)))
    /\ UNCHANGED <<stores, pages, posted, bounds>>

StoreChoice(c) ==
    /\ c.pc = "previewed"
    /\ PutChoice(c.answer)
    /\ Replace(c, Answered(c, Settle(c.answer)))
    /\ UNCHANGED <<pages, posted, bounds>>

\* Any sender, at any time; the id of one delivery may be used for another.
Deliver(envelope) ==
    /\ received < MaxReceived
    /\ Receive(envelope)
    /\ received' = received + 1
    /\ UNCHANGED <<pages, calls, posted, restarts>>

\* A request that does not arrive, or an answer that does not.
Lose(c) ==
    /\ c.pc \in {"sent", "answered"} /\ c.answer # Lost
    /\ Replace(c, Answered(c, Lost))
    /\ UNCHANGED <<stores, pages, posted, bounds>>

\* The threads end with the service, and what they were asked is lost.
Restart ==
    /\ restarts < MaxRestarts
    /\ Forget
    /\ restarts' = restarts + 1
    /\ calls' = {IF c.pc = "answered" THEN c ELSE Answered(c, Lost) : c \in calls}
    /\ UNCHANGED <<pages, posted, received>>

-----------------------------------------------------------------------------

Arrives(c) ==
    \/ ListArrives(c) \/ PreviewArrives(c)
    \/ ChoiceArrives(c) \/ ChosenArrives(c) \/ PracticeArrives(c)

Next ==
    \/ RefreshInbox \/ ChooseForPractice
    \/ \E id \in inbox.listed \cup {inbox.selected} : Select(id)
    \/ \E id \in {inbox.link, practice.id} : OpenPractice(id)
    \/ \E c \in calls : Arrives(c) \/ Serve(c) \/ CheckChoice(c) \/ StoreChoice(c) \/ Lose(c)
    \/ \E envelope \in Envelopes : Deliver(envelope)
    \/ Restart

Spec == Init /\ [][Next]_vars

-----------------------------------------------------------------------------
(* Properties *)

\* While the service lives a choice binds: its delivery is there, unchanged and
\* usable, with the pins that were chosen, so no later answer calls it stale, in
\* conflict or damaged - whatever is delivered again under the same id.
ChoiceIsBinding ==
    /\ \A id \in DOMAIN choices : Usable(id) /\ choices[id] = Pins(deliveries[id])
    /\ \A c \in calls : c.pc = "answered" =>
          /\ c.answer.error \notin {"choice_conflict", "integrity_mismatch"}
          /\ c.answer.error = "stale_preview" => restarts > 0

\* The link to practice is offered only for the delivery that is selected and
\* previewed, and only after the learner chose what the preview shows.
LinkIsHonest ==
    inbox.link # None =>
        /\ inbox.link = inbox.selected /\ inbox.preview # None
        /\ inbox.preview.delivery = inbox.selected
        /\ inbox.preview \in posted

\* What is practised is what was chosen: the lesson that is loaded is the very
\* assignment whose digests the learner was shown and chose, even when the
\* service restarted in between and received another under the same id.
PractisedAsChosen ==
    /\ LinkIsHonest
    /\ practice.lesson # None =>
          /\ practice.preview \in posted
          /\ practice.lesson.artifact = practice.preview.artifact
          /\ practice.lesson.behavior = practice.preview.behavior
          /\ practice.lesson.fate = "prepared"

=============================================================================
