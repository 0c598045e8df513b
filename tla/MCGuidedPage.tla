----------------------------- MODULE MCGuidedPage -----------------------------
(***************************************************************************)
(* GuidedPage on a small instance: two lessons, two requests on the wire    *)
(* and two errands, so that any two awaits of the page interleave.          *)
(***************************************************************************)
EXTENDS GuidedPage, TLC

Interchangeable ==
    Permutations(Lesson) \cup Permutations(Evidence) \cup Permutations(SessionId)
    \cup Permutations(Slot) \cup Permutations(Errand)
=============================================================================
