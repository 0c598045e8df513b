--------------------------- MODULE CaptureRecord ---------------------------
(***************************************************************************)
(* What a performance capture is: the record of MIDI events a runtime keeps *)
(* while it is IN_PROGRESS and never touches again once it is closed, the   *)
(* contracts its construction enforces, the observation derived from a      *)
(* closed one, and the note events handed to the musical core.              *)
(*                                                                         *)
(* An event is [seq, type, at, key, velocity, string]; its id is derived    *)
(* from its sequence number.  A key stands for a channel and a note.        *)
(* Controller and bend payloads are abstracted to the event's type; a field *)
(* an event does not carry is Absent.                                       *)
(***************************************************************************)
EXTENDS Integers, Sequences, FiniteSets, SequencesExt

Absent == -1

\* A dict item is set: the key is new, or its value is replaced.
Put(f, k, v) == [x \in DOMAIN f \cup {k} |-> IF x = k THEN v ELSE f[x]]

NoteTypes == {"NOTE_ON", "NOTE_OFF"}
MidiTypes == NoteTypes \cup {"CONTROL_CHANGE", "PITCH_BEND"}

TerminalStates == {"COMPLETE", "CANCELLED", "INTERRUPTED"}
CompletionStates == TerminalStates \cup {"IN_PROGRESS"}

-----------------------------------------------------------------------------
(* Contracts: a value that breaks one cannot be constructed. *)

EventContract(e) ==
    /\ e.seq >= 0 /\ e.at >= 0 /\ e.type \in MidiTypes
    /\ IF e.type \in NoteTypes
       THEN e.key \in 0 .. 127 /\ e.velocity \in 0 .. 127
       ELSE e.key = Absent /\ e.velocity = Absent
    /\ e.string \in 0 .. 15 \cup {Absent}

CaptureContract(c) ==
    /\ c.state \in CompletionStates
    /\ c.ended <=> c.state \in TerminalStates
    /\ \A i \in 1 .. Len(c.events) - 1 :
          /\ c.events[i].seq < c.events[i + 1].seq
          /\ c.events[i].at <= c.events[i + 1].at

ObservationContract(o) ==
    /\ o.missingOffs >= 0 /\ o.unresolved >= 0
    /\ (o.first # Absent /\ o.last # Absent) => o.first <= o.last
    /\ (o.softest # Absent /\ o.loudest # Absent) => o.softest <= o.loudest
    /\ o.noteOns + o.noteOffs <= o.events

-----------------------------------------------------------------------------
(* Normalisation: the only operations a capture is changed by *)

Closed(c) == c.state \in TerminalStates

BuildRawCapture(id) ==
    [id |-> id, state |-> "IN_PROGRESS", ended |-> FALSE,
     events |-> <<>>, faults |-> <<>>, warnings |-> <<>>]

CanAppend(c, e) ==
    /\ ~Closed(c) /\ EventContract(e)
    /\ CaptureContract([c EXCEPT !.events = Append(@, e)])
AppendEvent(c, e) == [c EXCEPT !.events = Append(@, e)]

\* Wrong on purpose: the new record is made without the events of the old one.
CloseForgetsEvents(c, state, faults, warnings) ==
    [c EXCEPT !.state = state, !.ended = TRUE, !.events = <<>>,
              !.faults = @ \o faults, !.warnings = @ \o warnings]
CloseCapture(c, state, faults, warnings) ==
    [c EXCEPT !.state = state, !.ended = TRUE,
              !.faults = @ \o faults, !.warnings = @ \o warnings]

MarkInterrupted(c, fault, warnings) == CloseCapture(c, "INTERRUPTED", <<fault>>, warnings)

-----------------------------------------------------------------------------
(* The observation of a closed capture *)

\* A note-on of velocity zero is a release, here as in the musical core.
Releases(e) == e.type = "NOTE_OFF" \/ (e.type = "NOTE_ON" /\ e.velocity = 0)

\* A release with nothing to release is skipped.
HeldAfter(held, e) ==
    IF e.type \notin NoteTypes THEN held
    ELSE IF ~Releases(e) THEN [held EXCEPT ![e.key] = @ + 1]
    ELSE IF held[e.key] > 0 THEN [held EXCEPT ![e.key] = @ - 1]
    ELSE held

\* Notes of each key left sounding.
Sounding(events) ==
    LET silent == [k \in {events[i].key : i \in DOMAIN events} |-> 0]
        after[n \in 0 .. Len(events)] ==
            IF n = 0 THEN silent ELSE HeldAfter(after[n - 1], events[n])
    IN after[Len(events)]

DetectMissingNoteOffs(c) ==
    LET held == Sounding(c.events)
    IN [k \in {j \in DOMAIN held : held[j] > 0} |-> held[k]]

VelocityBounds(c) ==
    LET onsets == {i \in DOMAIN c.events : c.events[i].type = "NOTE_ON"}
        struck == {c.events[i].velocity : i \in onsets}
    IN IF struck = {} THEN <<Absent, Absent>> ELSE <<Min(struck), Max(struck)>>

DeriveObservation(c) ==
    LET Count(P(_)) == Cardinality({i \in DOMAIN c.events : P(c.events[i])})
        missing     == DetectMissingNoteOffs(c)
        held        == DOMAIN missing
        time(i)     == IF c.events = <<>> THEN Absent ELSE c.events[i].at
        bounds      == VelocityBounds(c)
    IN [events      |-> Len(c.events),
        noteOns     |-> Count(LAMBDA e : e.type = "NOTE_ON"),
        noteOffs    |-> Count(LAMBDA e : e.type = "NOTE_OFF"),
        first       |-> time(1),
        last        |-> time(Len(c.events)),
        softest     |-> bounds[1],
        loudest     |-> bounds[2],
        unresolved  |-> Count(LAMBDA e : e.string = Absent),
        missingOffs |-> Cardinality(UNION {{k} \X (1 .. missing[k]) : k \in held}),
        faults      |-> c.faults]

-----------------------------------------------------------------------------
(* What the musical core is given *)

\* Only notes cross over, each to the place that the notes before it leave to it;
\* nothing else can be paired.
BuildSourceEvents(c) ==
    LET notes    == {i \in DOMAIN c.events : c.events[i].type \in NoteTypes}
        place(i) == Cardinality({j \in notes : j <= i})
    IN [n \in 1 .. Cardinality(notes) |-> c.events[CHOOSE i \in notes : place(i) = n]]

\* The digest covers the whole record, so equal digests are equal captures.
CaptureDigest(c) == c

=============================================================================
