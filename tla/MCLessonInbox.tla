---------------------------- MODULE MCLessonInbox ----------------------------
(* A small instance of LessonInbox.  Three envelopes share one delivery id:   *)
(* a lesson, the same lesson with another note to the student (its behaviour  *)
(* is the same, its artifact is not), and one whose digests are wrong.  One    *)
(* more has no delivery id.                                                  *)
EXTENDS LessonInbox

MCAssignment(id, artifact, behavior, fate) ==
    [id |-> id, content |-> id, artifact |-> artifact, behavior |-> behavior, fate |-> fate]

MCEnvelope(delivery, a, artifact) ==
    [delivery |-> delivery, assignment |-> a, artifact |-> artifact, behavior |-> a.behavior]

MCScale    == MCAssignment("scale", "s1", "s", "prepared")
MCNoted    == MCAssignment("scale", "s2", "s", "prepared")
MCBroken   == MCAssignment("broken", "b1", "b", "unresolvable_assignment")
MCForeign  == MCAssignment("foreign", "f1", "f", "unsupported_instrument")

MCEnvelopes ==
    {MCEnvelope("d1", MCScale, "s1"), MCEnvelope("d1", MCNoted, "s2"),
     MCEnvelope("d1", MCScale, "s2"), MCEnvelope("d2", MCBroken, "b1"),
     MCEnvelope("d2", MCForeign, "f1"), MCEnvelope(None, MCScale, "s1")}

=============================================================================
