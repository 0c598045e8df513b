------------------------ MODULE PresentationTimeline ------------------------
(***************************************************************************)
(* The table from which the page finds its place: Core's time at tick 0, at *)
(* every tempo change and at the end.  Between two anchors the page only    *)
(* interpolates, so this module is all the page knows of tempo.             *)
(*                                                                         *)
(* An anchor is [tick, us].  The code's seconds are floats; here a time is  *)
(* rounded to its number of microseconds, as everywhere in Core.            *)
(***************************************************************************)
EXTENDS ScoreTiming, FiniteSets

AnchorTicks(map, total) == {0, total} \cup {t \in {c.tick : c \in Range(map)} : t <= total}

\* build_timeline_anchors
Anchors(ppq, changes, total) ==
    LET map   == LastPerTick(changes)
        order == SetToSortSeq(AnchorTicks(map, total), <)
    IN [i \in DOMAIN order |-> [tick |-> order[i], us |-> TicksToMicroseconds(order[i], ppq, map)]]

ValidAnchors(anchors) ==
    /\ StartsAtZero(anchors) /\ StrictlyOrdered(anchors)
    /\ \A i \in 1 .. Len(anchors) - 1 : anchors[i].us <= anchors[i + 1].us

Interpolate(x, lowIn, highIn, lowOut, highOut) ==
    IF highIn = lowIn THEN lowOut
    ELSE lowOut + DivideRounded((x - lowIn) * (highOut - lowOut), highIn - lowIn)

\* The first segment whose end, on the axis asked for, is not before x; the last
\* one also beyond it.
SegmentOf(anchors, axis, x) ==
    Min({i \in 1 .. Len(anchors) - 1 : i = Len(anchors) - 1 \/ x <= anchors[i + 1][axis]})

TickToTime(anchors, tick) ==
    IF tick <= anchors[1].tick \/ Len(anchors) = 1 THEN anchors[1].us
    ELSE LET i == SegmentOf(anchors, "tick", tick)
         IN Interpolate(tick, anchors[i].tick, anchors[i + 1].tick,
                        anchors[i].us, anchors[i + 1].us)

TimeToTick(anchors, us) ==
    IF us <= anchors[1].us \/ Len(anchors) = 1 THEN anchors[1].tick
    ELSE LET i == SegmentOf(anchors, "us", us)
         IN Interpolate(us, anchors[i].us, anchors[i + 1].us, anchors[i].tick, anchors[i + 1].tick)

\* resolve_focus_range_seconds: where a passage lies on the page
FocusRange(anchors, start, end) ==
    [from |-> TickToTime(anchors, start), until |-> TickToTime(anchors, end)]

\* build_teaching_timeline_state: the page's place and loop, in ticks
TeachingState(anchors, us, from, until) ==
    [tick |-> TimeToTick(anchors, us), start |-> TimeToTick(anchors, from),
     end |-> TimeToTick(anchors, until)]
=============================================================================
