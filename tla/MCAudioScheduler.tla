-------------------------- MODULE MCAudioScheduler --------------------------
(* AudioScheduler for TLC: three notes, one of them held over the end of    *)
(* the loops, two rates, and loops with and without a target.               *)
EXTENDS AudioScheduler

MCPlan == [held |-> [onset |-> 0, release |-> 3],
           mid  |-> [onset |-> 1, release |-> 2],
           last |-> [onset |-> 3, release |-> 5]]

MCLoop == {[start |-> 1, end |-> 3, enabled |-> TRUE, target |-> None],
           [start |-> 0, end |-> 1, enabled |-> TRUE, target |-> 2],
           [start |-> 2, end |-> 5, enabled |-> TRUE, target |-> 1],
           [start |-> 1, end |-> 3, enabled |-> FALSE, target |-> 2]}
=============================================================================
