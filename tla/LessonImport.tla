---------------------------- MODULE LessonImport ----------------------------
(***************************************************************************)
(* A lesson made from a Standard MIDI File: the messages of all its tracks, *)
(* merged in the order of their ticks, are read one by one; notes are       *)
(* paired first in, first out within a channel and pitch.  What the reader  *)
(* does not understand it skips, and what it cannot pair it leaves out with *)
(* a warning.                                                               *)
(*                                                                         *)
(* Messages of tracks that meet at one tick come in an order the tracks do  *)
(* not decide, so any order within a tick is possible.  The byte format,    *)
(* velocities and the names of a lesson are left out.                       *)
(***************************************************************************)
EXTENDS ScoreTiming, FiniteSets

CONSTANTS None,
          Keys,      \* <<channel, pitch>> pairs a file uses
          Deltas,    \* ticks between two messages
          Tempos,    \* microseconds per quarter in tempo messages
          Signatures,\* [numerator, denominator] in meter messages
          Ppqs,      \* ticks per quarter in the file's header
          MaxMessages

VARIABLES smf,    \* the reader: what has been collected so far
          heard   \* history: the note messages, [tick, key, on]

Origin == [phase |-> "reading", tick |-> 0, open |-> [k \in Keys |-> <<>>], notes |-> <<>>,
           tempos |-> <<>>, meters |-> <<>>, warnings |-> 0, read |-> 0]

NoReader == [Origin EXCEPT !.phase = "none"]

InitImport == smf = NoReader /\ heard = <<>>

Reading == smf.phase = "reading"

\* The next message of the file, d ticks later.
Later(d) == [smf EXCEPT !.tick = @ + d, !.read = @ + 1]

\* _collect_notes_and_meta, one message each
NoteOn(s, key) == [s EXCEPT !.open[key] = Append(@, s.tick)]

\* Wrong on purpose: the latest note of the pitch is released.
NoteOffLatest(s, key) ==
    IF s.open[key] = <<>> THEN [s EXCEPT !.warnings = @ + 1]
    ELSE [s EXCEPT !.open[key] = Front(@),
                   !.notes = IF s.tick > Last(s.open[key])
                             THEN Append(@, [key |-> key, tick |-> Last(s.open[key]),
                                             duration |-> s.tick - Last(s.open[key])])
                             ELSE @]

NoteOff(s, key) ==
    IF s.open[key] = <<>> THEN [s EXCEPT !.warnings = @ + 1]
    ELSE LET start == Head(s.open[key])
             rest  == [s EXCEPT !.open[key] = Tail(@)]
         IN IF s.tick > start
            THEN [rest EXCEPT !.notes = Append(@, [key |-> key, tick |-> start,
                                                   duration |-> s.tick - start])]
            ELSE [rest EXCEPT !.warnings = @ + 1]

\* A tempo outside 1..400 beats a minute is refused with the whole file.
LegalTempo(mpq) == 150000 <= mpq /\ mpq <= 60000000

Tempo(s, mpq) ==
    IF LegalTempo(mpq) THEN [s EXCEPT !.tempos = Append(@, [tick |-> s.tick, mpq |-> mpq])]
    ELSE [s EXCEPT !.phase = "refused"]

\* A note value past a 32nd is skipped; no beats at all is refused.
Meter(s, m) ==
    IF m.denominator \notin {1, 2, 4, 8, 16, 32} THEN s
    ELSE IF m.numerator = 0 THEN [s EXCEPT !.phase = "refused"]
    ELSE [s EXCEPT !.meters = Append(@, [tick |-> s.tick, numerator |-> m.numerator,
                                         denominator |-> m.denominator])]

-----------------------------------------------------------------------------
(* The end of the file *)

NoteBefore(a, b) ==
    \/ a.tick < b.tick
    \/ a.tick = b.tick /\ a.key[1] < b.key[1]
    \/ a.tick = b.tick /\ a.key[1] = b.key[1] /\ a.key[2] < b.key[2]

\* In the order of start, channel and pitch, and otherwise of their releases.
Sorted(notes) ==
    LET order == SetToSortSeq(DOMAIN notes, LAMBDA i, j :
                     \/ NoteBefore(notes[i], notes[j])
                     \/ ~NoteBefore(notes[j], notes[i]) /\ i < j)
    IN [i \in DOMAIN notes |-> notes[order[i]]]

\* Notes become events named by their place; the channel is not kept.
Events(notes) ==
    [i \in DOMAIN notes |-> [id |-> i, note |-> Sorted(notes)[i].key[2],
                             tick |-> Sorted(notes)[i].tick,
                             duration |-> Sorted(notes)[i].duration]]

\* How a lesson is played and fingered when its file does not say.
Unguided == [open |-> "allow", fretMin |-> None, fretMax |-> None]

AsWritten == [tempo |-> None, start |-> None, end |-> None, loop |-> FALSE, countIn |-> None]

Assignment(ppq, events, tempos, meters) ==
    [ppq |-> ppq, events |-> events, tempos |-> tempos, meters |-> meters,
     playback |-> AsWritten, guidance |-> Unguided, overrides |-> <<>>]

-----------------------------------------------------------------------------
(* Actions *)

OpenFile == smf.phase = "none" /\ smf' = Origin /\ heard' = <<>>

ReadNote(d, key, on) ==
    /\ Reading /\ smf.read < MaxMessages
    /\ smf' = IF on THEN NoteOn(Later(d), key) ELSE NoteOff(Later(d), key)
    /\ heard' = Append(heard, [tick |-> smf.tick + d, key |-> key, on |-> on])

ReadTempo(d, mpq) ==
    /\ Reading /\ smf.read < MaxMessages /\ smf.tempos = <<>>
    /\ smf' = Tempo(Later(d), mpq)
    /\ UNCHANGED heard

ReadMeter(d, m) ==
    /\ Reading /\ smf.read < MaxMessages /\ smf.meters = <<>>
    /\ smf' = Meter(Later(d), m)
    /\ UNCHANGED heard

\* Notes that were never released stay out; a file without notes is refused.
EndOfFile ==
    /\ Reading
    /\ smf' = [smf EXCEPT !.phase = IF smf.notes = <<>> THEN "refused" ELSE "done",
                          !.warnings = @ + Cardinality({k \in Keys : smf.open[k] # <<>>})]
    /\ UNCHANGED heard

-----------------------------------------------------------------------------
(* Correctness *)

\* How many notes of the key sound after the first p messages, said without
\* a queue: the largest surplus of presses over releases of any last stretch.
Surplus(key, from, p) ==
    Cardinality({i \in from .. p : heard[i].key = key /\ heard[i].on})
        - Cardinality({i \in from .. p : heard[i].key = key /\ ~heard[i].on})

Depth(key, p) == Max({Surplus(key, from, p) : from \in 1 .. p} \cup {0})

Presses(key) == SetToSortSeq({i \in DOMAIN heard : heard[i].key = key /\ heard[i].on}, <)

Releases(key) ==
    SetToSortSeq({i \in DOMAIN heard :
                     heard[i].key = key /\ ~heard[i].on /\ Depth(key, i - 1) > 0}, <)

Paired(key) == 1 .. Len(Releases(key))

\* The notes a key ought to give: its nth press with its nth release that
\* ends something, unless no time passes between them.
Expected(key) ==
    {n \in Paired(key) : heard[Releases(key)[n]].tick > heard[Presses(key)[n]].tick}

NoteOf(key, n) ==
    [key |-> key, tick |-> heard[Presses(key)[n]].tick,
     duration |-> heard[Releases(key)[n]].tick - heard[Presses(key)[n]].tick]

Occurrences(note) == Cardinality({i \in DOMAIN smf.notes : smf.notes[i] = note})

\* The reader pairs presses and releases as the counting says, however notes
\* of one pitch overlap, repeat within a tick or are released twice: every
\* such pair is a note exactly once, and there is no other note
\* (_collect_notes_and_meta, open_notes).
ImportedAsPlayed ==
    /\ \A key \in Keys : \A n \in Expected(key) :
          Occurrences(NoteOf(key, n))
              = Cardinality({m \in Expected(key) : NoteOf(key, m) = NoteOf(key, n)})
    /\ Len(smf.notes) = MapThenSumSet(LAMBDA k : Cardinality(Expected(k)), Keys)
=============================================================================
