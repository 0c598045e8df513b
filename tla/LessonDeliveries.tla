-------------------------- MODULE LessonDeliveries --------------------------
(***************************************************************************)
(* The local service that receives lessons, previews them, records that one *)
(* was chosen for practice and prepares it: LocalLessonDeliveryApi with the *)
(* services and the two in-memory repositories behind it.                   *)
(*                                                                         *)
(* An assignment is [id, content, artifact, behavior, fate]: its identities, *)
(* the digests computed from it, and what becomes of it downstream - it     *)
(* resolves and is "prepared", or it is refused for the reason named.  What *)
(* "prepared" takes is modelled in LessonPipeline; a failure while building *)
(* it is answered 500, which to the page is a refusal like any other.  An   *)
(* envelope is [delivery, assignment, artifact, behavior], with the digests *)
(* it declares.  Requests the pages never form (wrong method, malformed     *)
(* body or query) are left out: each is answered before anything is read.   *)
(***************************************************************************)
EXTENDS Integers, FiniteSets

CONSTANTS
    Envelopes,    \* what senders may post
    None          \* no error, no body, no page content

VARIABLES
    deliveries,   \* InMemoryLessonDeliveryRepository._deliveries
    choices       \* InMemoryLocalPracticeChoiceRepository._choices

stores == <<deliveries, choices>>

Nowhere == [id \in {} |-> None]

InitStores == deliveries = Nowhere /\ choices = Nowhere

-----------------------------------------------------------------------------
(* Answers *)

Answer(status, body) == [status |-> status, error |-> None, body |-> body]
Refuse(status, error) == [status |-> status, error |-> error, body |-> None]

Good(answer) == answer.status \in {200, 201}

\* LessonDeliveryEnvelopeV1: addressed, with an assignment and both digests.
WellFormed(envelope) ==
    None \notin {envelope.delivery, envelope.assignment, envelope.artifact, envelope.behavior}

\* validate_delivery_integrity: both digests are computed anew.
Intact(envelope) ==
    /\ envelope.artifact = envelope.assignment.artifact
    /\ envelope.behavior = envelope.assignment.behavior

Resolves(assignment) == assignment.fate # "unresolvable_assignment"

\* The identities and digests a preview, a choice and a preparation all carry.
Pins(envelope) ==
    [delivery |-> envelope.delivery, id |-> envelope.assignment.id,
     content |-> envelope.assignment.content,
     artifact |-> envelope.artifact, behavior |-> envelope.behavior]

SameDigests(a, b) == a.artifact = b.artifact /\ a.behavior = b.behavior

\* The artifact digest is taken of the whole serialized assignment, so that two
\* assignments with the same one are the same; and what preparing a lesson is
\* refused for is none of the refusals over choices and digests.
ASSUME DeliveryConstants ==
    /\ None \notin {"choice_conflict", "integrity_mismatch", "stale_preview"}
    /\ \A e \in Envelopes : WellFormed(e) =>
          e.assignment.fate \notin {"choice_conflict", "integrity_mismatch", "stale_preview"}
    /\ \A e, f \in Envelopes :
          /\ WellFormed(e) /\ Intact(e) /\ WellFormed(f) /\ Intact(f)
          /\ e.artifact = f.artifact
          => e.assignment = f.assignment

\* The first of the refusals that every use of a delivery begins with.
Trouble(id) ==
    CASE id \notin DOMAIN deliveries -> Refuse(404, "unknown_delivery_id")
      [] id \in DOMAIN deliveries /\ ~Intact(deliveries[id]) ->
            Refuse(409, "integrity_mismatch")
      [] OTHER -> Refuse(422, "unresolvable_assignment")

Usable(id) ==
    /\ id \in DOMAIN deliveries /\ Intact(deliveries[id])
    /\ Resolves(deliveries[id].assignment)

-----------------------------------------------------------------------------
(* What each request is answered, from the stores as they are *)

\* Summaries name what a delivery declares; nothing of its assignment is read.
List == Answer(200, DOMAIN deliveries)

Preview(id) == IF Usable(id) THEN Answer(200, Pins(deliveries[id])) ELSE Trouble(id)

\* A stored choice is answered only while a fresh preview still has its pins.
StoredChoice(id) ==
    IF id \notin DOMAIN choices THEN Refuse(404, "unknown_practice_choice")
    ELSE IF ~Usable(id) THEN Trouble(id)
    ELSE IF choices[id] # Pins(deliveries[id]) THEN Refuse(409, "stale_preview")
    ELSE Answer(200, choices[id])

\* Wrong on purpose: the digests the learner was shown are not compared.
ChoosableUnseen(id, expected) == Usable(id)
\* The delivery may be chosen by one who expects these digests.
Choosable(id, expected) == Usable(id) /\ SameDigests(expected, Pins(deliveries[id]))

ChoiceRefused(id) == IF Usable(id) THEN Refuse(409, "stale_preview") ELSE Trouble(id)

\* What the store answers a choice: a new one, the same one again, or another.
Settle(choice) ==
    IF choice.delivery \notin DOMAIN choices THEN Answer(201, choice)
    ELSE IF choices[choice.delivery] = choice THEN Answer(200, choice)
    ELSE Refuse(409, "choice_conflict")

\* The choice, the digests the caller expects and the delivery must all agree
\* before anything is prepared; what is prepared is the assignment itself.
Prepare(id, expected) ==
    IF ~Good(StoredChoice(id)) THEN StoredChoice(id)
    ELSE IF ~SameDigests(expected, choices[id]) THEN Refuse(409, "stale_preview")
    ELSE LET a == deliveries[id].assignment
         IN IF a.fate # "prepared" THEN Refuse(422, a.fate)
            ELSE Answer(200, [pins |-> choices[id], assignment |-> a])

-----------------------------------------------------------------------------
(* Changes of the stores *)

\* Wrong on purpose: a delivery received again takes the place of the first.
PutOverwrites(store, key, value) ==
    [k \in DOMAIN store \cup {key} |-> IF k = key THEN value ELSE store[k]]
PutIfAbsent(store, key, value) ==
    [k \in DOMAIN store \cup {key} |-> IF k \in DOMAIN store THEN store[k] ELSE value]

\* An id is accepted once: a second delivery of it changes nothing.
Receive(envelope) ==
    /\ WellFormed(envelope) /\ Intact(envelope)
    /\ deliveries' = PutIfAbsent(deliveries, envelope.delivery, envelope)
    /\ UNCHANGED choices

PutChoice(choice) ==
    /\ choices' = PutIfAbsent(choices, choice.delivery, choice)
    /\ UNCHANGED deliveries

\* Both repositories live in memory only.
Forget == deliveries' = Nowhere /\ choices' = Nowhere

=============================================================================
