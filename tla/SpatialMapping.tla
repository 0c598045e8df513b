--------------------------- MODULE SpatialMapping ---------------------------
(***************************************************************************)
(* Where a pitch can be played: the candidate positions of a note on an     *)
(* instrument, and the one that is taken when no teacher says otherwise.    *)
(*                                                                         *)
(* An instrument is [id, mode, frets, strings], a string [id, order, open,  *)
(* max, enabled]; no two strings share an id or an order.  A set of         *)
(* candidates stands for the code's list in the order of the strings.       *)
(* Geometry, cents and labels are left out, and hybrid fingerboards, which  *)
(* no profile has.                                                          *)
(***************************************************************************)
EXTENDS Integers, FiniteSetsExt

CONSTANT None

NoConstraints == [capo |-> 0, maxRelative |-> None, allowed |-> None, excluded |-> {}]

Admissible(string, c) ==
    /\ string.enabled
    /\ c.allowed = None \/ string.id \in c.allowed
    /\ string.id \notin c.excluded

\* The last position of a string that exists, when something limits it.
PhysicalBounds(string, instrument) ==
    {string.max} \cup (IF instrument.mode = "fretted" THEN {instrument.frets} ELSE {})

Position(string, note, instrument, c) ==
    [string   |-> string.id,
     order    |-> string.order,
     sounding |-> note,
     relative |-> note - string.open - c.capo,
     fret     |-> IF instrument.mode = "fretted" THEN note - string.open ELSE None,
     open     |-> note = string.open + c.capo]

\* Wrong on purpose: the end of the fingerboard is forgotten.
ReachesPastTheEnd(string, note, instrument, c) == note >= string.open + c.capo

Reaches(string, note, instrument, c) ==
    /\ note >= string.open + c.capo
    /\ \A bound \in PhysicalBounds(string, instrument) \ {None} : note - string.open <= bound
    /\ c.maxRelative = None \/ note - string.open - c.capo <= c.maxRelative

\* generate_candidates
Candidates(note, instrument, c) ==
    {Position(string, note, instrument, c) :
        string \in {s \in instrument.strings :
                       Admissible(s, c) /\ Reaches(s, note, instrument, c)}}

\* What a position has to be to exist at all
PositionContract(p, instrument) ==
    /\ p.relative >= 0 /\ p.open = (p.relative = 0)
    /\ p.fret # None <=> instrument.mode = "fretted"
    /\ p.fret # None => p.fret >= 0

First(candidates) == CHOOSE p \in candidates : \A q \in candidates : p.order <= q.order

-----------------------------------------------------------------------------
(* A preference narrows the choice only while something is left of it; an   *)
(* exclusion stands even then.                                              *)

PreferIfAny(preferred, all) == IF preferred = {} THEN all ELSE preferred

Stopped(candidates) == {p \in candidates : ~p.open}

ByOpenString(candidates, policy) ==
    CASE policy = "exclude" -> Stopped(candidates)
      [] policy = "avoid"   -> PreferIfAny(Stopped(candidates), candidates)
      [] policy = "prefer"  -> PreferIfAny({p \in candidates : p.open}, candidates)
      [] policy = "allow"   -> candidates

InFretRegion(p, guidance) ==
    /\ p.fret # None
    /\ guidance.fretMin = None \/ p.fret >= guidance.fretMin
    /\ guidance.fretMax = None \/ p.fret <= guidance.fretMax

\* select_automatic_position; None when it refuses.
SelectAutomatic(candidates, guidance) ==
    LET pool   == ByOpenString(candidates, guidance.open)
        region == {p \in pool : InFretRegion(p, guidance)}
    IN IF pool = {} THEN None ELSE First(PreferIfAny(region, pool))
=============================================================================
