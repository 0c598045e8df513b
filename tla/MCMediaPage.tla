----------------------------- MODULE MCMediaPage -----------------------------
(* A small instance of MediaPage.  A tick is 100 ms and a unit of time 50 ms, *)
(* so that rate 1 is two units a tick, drift is in place at 0 (40 ms), to be  *)
(* nudged up to 3 (150 ms) and beyond that sought, and the settle window of   *)
(* 250 ms is over with the third tick.  Lesson "one" has a clip bound in part *)
(* and one without an end that cannot be sought, lesson "two" a text only.    *)
EXTENDS MediaPage

MCLength == [clip |-> 8, rigid |-> 6]

MCBinding(of, media, from, until, mediaUntil) ==
    [lesson |-> of, media |-> media, mode |-> "synchronized", from |-> from,
     until |-> until, mediaFrom |-> 0, mediaUntil |-> mediaUntil]

MCMedium(id, type, cues) ==
    [id |-> id, type |-> type, asset |-> id, inline |-> type = "text",
     duration |-> IF type = "video" THEN MCLength[id] ELSE None, cues |-> cues]

MCCue(id, at, of) == [id |-> id, at |-> at, lesson |-> of]

MCReference(id, of, media, binding) ==
    [id |-> id, lesson |-> of, media |-> media, order |-> 0, binding |-> binding]

MCCatalog ==
    [media |-> {MCMedium("clip", "video", {MCCue(1, 2, None), MCCue(2, 1, 4)}),
                MCMedium("rigid", "video", {}), MCMedium("text", "text", {})},
     references |-> {MCReference(1, "one", "clip", MCBinding("one", "clip", 2, 8, 6)),
                     MCReference(2, "one", "rigid", MCBinding("one", "rigid", 0, None, None)),
                     MCReference(3, "one", "lost", MCBinding("one", "lost", 0, 4, None)),
                     MCReference(4, "two", "text", None)}]

\* Refused as a whole: a binding that is another lesson's.
MCRefused ==
    [MCCatalog EXCEPT !.references =
        @ \cup {MCReference(5, "two", "clip", MCBinding("one", "clip", 2, 8, 6))}]

MCCatalogs == {MCCatalog, MCRefused, None}
MCFiles == {{"clip", "rigid"}, {"rigid"}}
MCLoops == {[start |-> 3, end |-> 7, enabled |-> TRUE, target |-> None],
            [start |-> 5, end |-> 7, enabled |-> TRUE, target |-> 2]}
MCMediaLoop == [start |-> 1, end |-> 4]
MCSlips == {-1, 0}
MCBudgets == {[ops |-> 3, loads |-> 1], [ops |-> 2, loads |-> 2]}

=============================================================================
