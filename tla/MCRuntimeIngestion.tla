------------------------- MODULE MCRuntimeIngestion -------------------------
(* A small instance of RuntimeIngestion: one tick is 500 microseconds at the *)
(* fast tempo and 1000 at the slow one, and a step of 250 rounds up to a tick *)
(* at the first and away at the second.                                       *)
EXTENDS RuntimeIngestion

In(type, key, velocity, string) ==
    [type |-> type, key |-> key, velocity |-> velocity, string |-> string]

\* The runtime is fed a note, its release and a controller.
MCInputs ==
    {In("NOTE_ON", 60, 90, 2), In("NOTE_OFF", 60, 0, Absent),
     In("CONTROL_CHANGE", Absent, Absent, Absent)}
MCSteps == {250, -250}

\* The device sends a note, its release by velocity, and a note without a string.
MCLiveInputs ==
    {In("NOTE_ON", 60, 90, 2), In("NOTE_ON", 60, 0, Absent), In("NOTE_ON", 64, 80, Absent)}
MCLiveSteps == {0, 250}

MCSymmetry == Permutations(Authors) \cup Permutations(RequestIds) \cup Permutations(Edits)

\* A session of one track, one armed without an input, and one of two tracks.
MCTrack(armed, input) == [armed |-> armed, input |-> input]
MCConfigs ==
    {<<MCTrack(TRUE, TRUE)>>, <<MCTrack(TRUE, FALSE)>>,
     <<MCTrack(FALSE, TRUE), MCTrack(FALSE, TRUE)>>}

MCReadings ==
    {[bpm |-> 1250, origin |-> Absent], [bpm |-> 625, origin |-> Absent],
     [bpm |-> 1250, origin |-> 250]}

=============================================================================
