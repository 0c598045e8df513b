------------------------- MODULE PracticeEvaluation -------------------------
(***************************************************************************)
(* What an alignment says to the learner: findings that cite its rows, the  *)
(* passages where they concentrate, the comparison of repetitions, the next *)
(* action, the counts of the summary and the guidance shown on the score.   *)
(*                                                                         *)
(* A finding's id is <<prefix, number>>, prefixes numbered in the order of  *)
(* their spelling.  A digest covers its document, so the document stands    *)
(* for it; messages, versions and provenance are left out.  Rates are       *)
(* quarters: 4 is the written speed.                                        *)
(***************************************************************************)
EXTENDS NoteMatching

CONSTANTS
    EarlyThreshold, LateThreshold,  \* milliseconds
    PitchThreshold,                 \* semitones
    ClusterWindow, ClusterMin,      \* expected ticks, findings
    SlowDownPercent,                \* slow_down_finding_ratio
    ContinueCount,                  \* findings that still allow to continue
    MinimumExpected

Rates == {2, 3, 4, 6}

PrefixOrder == [extra |-> 1, focus |-> 2, missing |-> 3, pitch |-> 4, rep |-> 5,
             early |-> 6, late |-> 7]

Matched == {"MATCHED_EXACT_PITCH", "MATCHED_PITCH_DIFFERENCE", "UNRESOLVED_CAPTURE"}

EarlierId(a, b) == a[1] < b[1] \/ (a[1] = b[1] /\ a[2] < b[2])
SortedIds(ids) == SetToSortSeq(ids, EarlierId)

-----------------------------------------------------------------------------
(* Findings of single rows *)

Finding(prefix, n, type, severity, cites, rep, from, until) ==
    [id |-> <<PrefixOrder[prefix], n>>, type |-> type, severity |-> severity, cites |-> cites,
     rep |-> rep, from |-> from, until |-> until]

RowFinding(prefix, n, type, severity, row) ==
    Finding(prefix, n, type, severity, {row}, row.rep, row.tick, row.tick)

Actionable(f) == f.severity # "INFO"

Severity(heavy) == IF heavy THEN "SIGNIFICANT" ELSE "FOCUS"

\* Early and late share one count; a difference at the threshold is one.
TimingFindings(rows) ==
    LET Judge(found, row) ==
            CASE row.status \notin Matched -> found
              [] row.delta <= -EarlyThreshold ->
                    Append(found, RowFinding("early", Len(found) + 1, "EARLY_ENTRY",
                        Severity(Distance(row.delta) >= 2 * EarlyThreshold), row))
              [] row.delta >= LateThreshold /\ row.delta > -EarlyThreshold ->
                    Append(found, RowFinding("late", Len(found) + 1, "LATE_ENTRY",
                        Severity(Distance(row.delta) >= 2 * LateThreshold), row))
              [] OTHER -> found
    IN FoldLeft(Judge, <<>>, rows)

PitchFindings(rows) ==
    LET off == SelectSeq(rows, LAMBDA r :
                   r.status \in Matched /\ Distance(r.pitch) >= PitchThreshold)
    IN [n \in DOMAIN off |-> RowFinding("pitch", n, "PITCH_DIFFERENCE",
            Severity(Distance(off[n].pitch) >= Max({2, 2 * PitchThreshold})), off[n])]

MissingFindings(rows) ==
    LET gaps == SelectSeq(rows, LAMBDA r : r.status = "EXPECTED_NOT_OBSERVED")
    IN [n \in DOMAIN gaps |->
            RowFinding("missing", n, "EXPECTED_NOTE_MISSING", "FOCUS", gaps[n])]

ExtraFindings(rows) ==
    LET extras == SelectSeq(rows, LAMBDA r : r.status = "OBSERVED_NOT_EXPECTED")
        weight == CASE Len(extras) >= 3 -> "SIGNIFICANT"
                    [] Len(extras) = 2  -> "FOCUS"
                    [] OTHER            -> "INFO"
    IN [n \in DOMAIN extras |-> RowFinding("extra", n, "UNEXPECTED_NOTE", weight, extras[n])]

AlignmentFindings(rows) ==
    TimingFindings(rows) \o PitchFindings(rows) \o MissingFindings(rows) \o ExtraFindings(rows)

-----------------------------------------------------------------------------
(* Passages: windows of the lesson's ticks that hold enough findings *)

ClusterTypes == {"EARLY_ENTRY", "LATE_ENTRY", "PITCH_DIFFERENCE", "EXPECTED_NOTE_MISSING"}

\* The ticks of the expected rows, each where it comes first.
ExpectedTicks(rows) ==
    FoldLeft(LAMBDA seen, r :
                 IF r.expected = Nothing \/ r.tick \in Range(seen) THEN seen
                 ELSE Append(seen, r.tick),
             <<>>, rows)

Unused(findings, used) == {f \in findings : f.id \notin used}

\* A finding belongs to the first window that gathers enough of them.
ClusterFindings(findings, ticks) ==
    LET candidates == {f \in Range(findings) : Actionable(f) /\ f.type \in ClusterTypes}
        Look(s, start) ==
            LET window == {ticks[i] : i \in start .. Min({start + ClusterWindow - 1, Len(ticks)})}
                group  == {f \in Unused(candidates, s.used) : f.from \in window}
                ids    == {f.id : f \in group}
            IN IF Cardinality(group) < ClusterMin THEN s
               ELSE [used   |-> s.used \cup ids,
                     ranges |-> Append(s.ranges, [from  |-> Min(window), until |-> Max(window),
                                                  ids   |-> SortedIds(ids)])]
    IN FoldLeft(Look, [used |-> {}, ranges |-> <<>>], [i \in DOMAIN ticks |-> i]).ranges

Concentrated(ranges) ==
    IF ranges = <<>> THEN <<>>
    ELSE <<Finding("focus", 1, "FINDINGS_CONCENTRATED", "SIGNIFICANT", Range(ranges[1].ids),
                   Nothing, ranges[1].from, ranges[1].until)>>

-----------------------------------------------------------------------------
(* Repetitions: the first and the last that have findings at all *)

FindingsOfRepetition(findings, rep) ==
    Cardinality({f \in Range(findings) : Actionable(f) /\ f.rep = rep})

CompareRepetitions(findings) ==
    LET reps  == {f.rep : f \in {g \in Range(findings) : Actionable(g) /\ g.rep # Nothing}}
        first == FindingsOfRepetition(findings, Min(reps))
        last  == FindingsOfRepetition(findings, Max(reps))
        Told(type) == <<Finding("rep", 1, type, "INFO", {Min(reps), Max(reps)},
                                Nothing, Nothing, Nothing)>>
    IN CASE Cardinality(reps) < 2 -> <<>>
         [] Cardinality(reps) >= 2 /\ last < first -> Told("REPETITION_IMPROVED")
         [] Cardinality(reps) >= 2 /\ last > first -> Told("REPETITION_REGRESSED")
         [] OTHER -> <<>>

-----------------------------------------------------------------------------
(* The next action *)

SlowerRate(rate) == CHOOSE r \in Rates :
    IF rate = 2 THEN r = 2 ELSE r < rate /\ \A q \in Rates : q < rate => q <= r

TimingOrPitch(findings) ==
    SelectSeq(findings, LAMBDA f :
        Actionable(f) /\ f.type \in {"EARLY_ENTRY", "LATE_ENTRY", "PITCH_DIFFERENCE"})

Ids(findings) == [i \in DOMAIN findings |-> findings[i].id]

Action(type, reasons, rate, from, until) ==
    [type |-> type, reasons |-> reasons, rate |-> rate, from |-> from, until |-> until]

Repeat(findings) ==
    Action("REPEAT", Ids(SelectSeq(findings, Actionable)), Nothing, Nothing, Nothing)

SlowDown(findings, rate) ==
    Action("SLOW_DOWN", Ids(TimingOrPitch(findings)), SlowerRate(rate), Nothing, Nothing)

TooManyOff(findings, expected) ==
    100 * Len(TimingOrPitch(findings)) >= SlowDownPercent * Max({expected, MinimumExpected})

ChoosePrimaryNextAction(findings, ranges, expected, rate) ==
    LET actionable == SelectSeq(findings, Actionable)
    IN CASE ranges # <<>> ->
              Action("ISOLATE_PASSAGE", ranges[1].ids, Nothing, ranges[1].from, ranges[1].until)
         [] ranges = <<>> /\ TooManyOff(findings, expected) -> SlowDown(findings, rate)
         [] ranges = <<>> /\ ~TooManyOff(findings, expected)
            /\ (\/ Len(actionable) > ContinueCount
                \/ \E f \in Range(actionable) : f.severity = "SIGNIFICANT") -> Repeat(findings)
         [] OTHER -> Action("CONTINUE", Ids(actionable), Nothing, Nothing, Nothing)

SecondaryActions(findings, primary, rate) ==
    (IF primary.type # "REPEAT" /\ SelectSeq(findings, Actionable) # <<>>
     THEN <<Repeat(findings)>> ELSE <<>>)
    \o (IF primary.type # "SLOW_DOWN" /\ TimingOrPitch(findings) # <<>>
        THEN <<SlowDown(findings, rate)>> ELSE <<>>)

-----------------------------------------------------------------------------
(* The evaluation *)

Summary(rows, findings) ==
    LET Rows(P(_)) == Cardinality({i \in DOMAIN rows : P(rows[i])})
        Kinds(S)   == Cardinality({i \in DOMAIN findings : findings[i].type \in S})
    IN [expected   |-> Rows(LAMBDA r : r.expected # Nothing),
        observed   |-> Rows(LAMBDA r : r.observed # Nothing),
        matched    |-> Rows(LAMBDA r : r.status \in Matched),
        missing    |-> Kinds({"EXPECTED_NOTE_MISSING"}),
        extra      |-> Kinds({"UNEXPECTED_NOTE"}),
        pitch      |-> Kinds({"PITCH_DIFFERENCE"}),
        timing     |-> Kinds({"EARLY_ENTRY", "LATE_ENTRY"}),
        actionable |-> Len(SelectSeq(findings, Actionable)),
        reps       |-> Cardinality({f.rep : f \in Range(findings)} \ {Nothing})]

Evaluate(rows, rate) ==
    LET single   == AlignmentFindings(rows)
        ranges   == ClusterFindings(single, ExpectedTicks(rows))
        focused  == single \o Concentrated(ranges)
        findings == focused \o CompareRepetitions(focused)
        expected == Cardinality({i \in DOMAIN rows : rows[i].expected # Nothing})
        primary  == ChoosePrimaryNextAction(findings, ranges, expected, rate)
    IN [findings  |-> findings,
        ranges    |-> ranges,
        summary   |-> Summary(rows, findings),
        primary   |-> primary,
        secondary |-> SecondaryActions(findings, primary, rate)]

EvaluationContract(e) ==
    /\ \A i, j \in DOMAIN e.findings : e.findings[i].id = e.findings[j].id => i = j
    /\ \A f \in Range(e.findings) : f.cites # {}
    /\ e.primary.type = "SLOW_DOWN" => e.primary.rate \in Rates

-----------------------------------------------------------------------------
(* Guidance: an item for every note a finding is about *)

NotesOf(f) ==
    IF f.type \in {"FINDINGS_CONCENTRATED", "REPETITION_IMPROVED", "REPETITION_REGRESSED"} THEN {}
    ELSE {r.expected : r \in f.cites} \ {Nothing}

\* A finding that is about no expected note still has its item.
Items(findings) ==
    UNION {IF NotesOf(f) = {} THEN {[finding |-> f.id, note |-> Nothing]}
           ELSE {[finding |-> f.id, note |-> n] : n \in NotesOf(f)} : f \in Range(findings)}

\* The notes the score marks, each once, in the order of the items.
GuidedEventIds(items) ==
    LET sorted == SetToSortSeq(items, LAMBDA x, y : EarlierId(x.finding, y.finding))
    IN FoldLeft(LAMBDA seen, x :
                    IF x.note = Nothing \/ x.note \in Range(seen) THEN seen
                    ELSE Append(seen, x.note),
                <<>>, sorted)

BuildTeachingGuidance(e) ==
    [items |-> Items(e.findings), action |-> e.primary,
     notes |-> GuidedEventIds(Items(e.findings))]

=============================================================================
