------------------------- MODULE PerformanceRuntime -------------------------
(***************************************************************************)
(* The performance runtime behind PerformanceRuntimePort: a process that is *)
(* started and stopped, a session prepared in it, a track armed for         *)
(* recording, and the captures it keeps by id, at most one of them active.  *)
(* The scenario names the one thing that is broken.                         *)
(*                                                                         *)
(* A command that is refused answers with a fault and changes nothing but   *)
(* the fault counter, which only numbers faults: such a step is not         *)
(* written.  One the contracts raise on is not written either, unless it    *)
(* has used up something before it raises.  A session's transport mode,     *)
(* loop and synth are set by commands and read by nothing, and are left     *)
(* out, with the commands that only set them.                               *)
(***************************************************************************)
EXTENDS CaptureRecord

CONSTANTS
    Configs,       \* sessions a caller may describe: tracks [armed, input]
    CaptureIds,    \* ids the caller may give a capture
    Scenarios,     \* what may be broken: subset of AllScenarios
    Inputs,        \* what the player and the device may do: [type, key, velocity, string]
    Steps,         \* time since the last event, in microseconds; may be negative
    MaxFeeds,      \* bound on the events offered, over the whole behaviour
    StartFeeds     \* bound on the events offered before a further capture starts

VARIABLES
    scenario,      \* FakeRuntimeScenario
    state,         \* RuntimeState
    session,       \* [prepared, armed, sounding]
    captures,      \* capture id -> capture, of those started
    active,        \* id of the active capture, or NoCapture
    sequence       \* sequence number of the next event

runtimeVars == <<scenario, state, session, captures, active, sequence>>

AllScenarios ==
    {"sound", "start_times_out", "midi_input_missing", "audio_output_missing",
     "synth_load_fails", "crash_during_capture", "panic_fails", "version_unresolved",
     "stuck_notes"}

NoCapture == "none"

ASSUME RuntimeConstants ==
    /\ Scenarios \subseteq AllScenarios /\ NoCapture \notin CaptureIds
    /\ Steps \subseteq Int /\ MaxFeeds \in Nat

NoSession == [prepared |-> FALSE, armed |-> FALSE, sounding |-> <<>>]

\* A new session: the configuration's record_armed does not arm its track.
PreparedSession == [prepared |-> TRUE, armed |-> FALSE, sounding |-> <<>>]

Prepared == session.prepared
Capturing == active # NoCapture

RuntimeInit ==
    /\ scenario \in Scenarios
    /\ state = "OFF" /\ session = NoSession
    /\ captures = <<>> /\ active = NoCapture /\ sequence = 0

-----------------------------------------------------------------------------
(* Health and readiness: derived at each call *)

Subsystems == {"process", "audio_backend", "audio_output", "midi_input", "synth",
               "session", "capture"}
Infrastructure == Subsystems \ {"session", "capture"}

\* The subsystem each scenario breaks, with how it then reports.
Broken ==
    [s \in {"midi_input_missing", "audio_output_missing", "synth_load_fails"} |->
        CASE s = "midi_input_missing"   -> [part |-> "midi_input", is |-> "UNAVAILABLE"]
          [] s = "audio_output_missing" -> [part |-> "audio_output", is |-> "UNAVAILABLE"]
          [] s = "synth_load_fails"     -> [part |-> "synth", is |-> "FAULTED"]]

SubsystemOf(part) ==
    IF state = "OFF" THEN IF part = "process" THEN "UNAVAILABLE" ELSE "UNKNOWN"
    ELSE IF scenario \in DOMAIN Broken /\ Broken[scenario].part = part
         THEN Broken[scenario].is
    ELSE IF part = "capture" /\ state = "FAILED" THEN "FAULTED"
    ELSE IF part \in {"session", "capture"} /\ ~Prepared THEN "UNKNOWN"
    ELSE "READY"

Health ==
    [parts |-> [p \in Subsystems |-> SubsystemOf(p)],
     state |-> IF state = "READY" /\ scenario \in DOMAIN Broken THEN "DEGRADED" ELSE state]

Blocking(health, parts) == {p \in parts : health.parts[p] # "READY"}

HealthContract(health) == health.state = "READY" => Blocking(health, Infrastructure) = {}

Readiness(health) ==
    LET ready == health.state = "READY" /\ Blocking(health, Infrastructure) = {}
    IN [health       |-> health,
        ready        |-> ready,
        captureReady |-> ready /\ Blocking(health, {"session", "capture"}) = {}]

ReadinessContract(r) ==
    /\ r.ready => Blocking(r.health, Infrastructure) = {}
    /\ r.captureReady => r.ready /\ Blocking(r.health, Subsystems) = {}

-----------------------------------------------------------------------------
(* Process commands *)

Interrupted(fault) ==
    LET count    == Len(session.sounding)
        warnings == IF count > 0 THEN <<count>> ELSE <<>>
    IN [captures EXCEPT ![active] = MarkInterrupted(@, fault, warnings)]

Start ==
    /\ state' = IF scenario = "start_times_out" THEN "FAILED" ELSE "READY"
    /\ UNCHANGED <<scenario, session, captures, active, sequence>>

\* Forced or not only decides which code the fault carries.
Stop ==
    /\ captures' = IF Capturing THEN Interrupted("SHUTDOWN") ELSE captures
    /\ active' = NoCapture
    /\ state' = "OFF"
    /\ session' = NoSession
    /\ UNCHANGED <<scenario, sequence>>

\* The process is gone; the session record is kept.
Crash ==
    /\ captures' = IF Capturing THEN Interrupted("RUNTIME_CRASHED") ELSE captures
    /\ active' = NoCapture
    /\ state' = "FAILED"
    /\ UNCHANGED <<scenario, session, sequence>>

-----------------------------------------------------------------------------
(* Session commands *)

TrackContract(track) == track.armed => track.input

\* The first target takes one track.
SessionConfigContract(tracks) ==
    Len(tracks) = 1 /\ \A i \in DOMAIN tracks : TrackContract(tracks[i])

PrepareSession(config) ==
    /\ SessionConfigContract(config)
    /\ state = "READY"
    /\ scenario \notin {"midi_input_missing", "audio_output_missing"}
    /\ session' = PreparedSession
    /\ UNCHANGED <<scenario, state, captures, active, sequence>>

ArmTrack(armed) ==
    /\ Prepared
    /\ session' = [session EXCEPT !.armed = armed]
    /\ UNCHANGED <<scenario, state, captures, active, sequence>>

Panic ==
    /\ scenario # "panic_fails" /\ Prepared
    /\ session' = [session EXCEPT !.sounding = <<>>]
    /\ UNCHANGED <<scenario, state, captures, active, sequence>>

-----------------------------------------------------------------------------
(* Capture commands *)

StartCaptureAccepted == Prepared /\ session.armed /\ ~Capturing

\* Wrong on purpose: a capture that is already active is not looked for.
StartCaptureOverActive(id) ==
    /\ Prepared /\ session.armed
    /\ captures' = Put(captures, id, BuildRawCapture(id))
    /\ active' = id
    /\ UNCHANGED <<scenario, state, session, sequence>>
\* The id is not looked up: a capture it already names is replaced.
StartCapture(id) ==
    /\ StartCaptureAccepted
    /\ captures' = Put(captures, id, BuildRawCapture(id))
    /\ active' = id
    /\ UNCHANGED <<scenario, state, session, sequence>>

LastTime(c) == IF c.events = <<>> THEN 0 ELSE Last(c.events).at

FedEvent(input, step) ==
    [seq |-> sequence, type |-> input.type, at |-> LastTime(captures[active]) + step,
     key |-> input.key, velocity |-> input.velocity, string |-> input.string]

\* What is taken to sound: every note-on, whatever its velocity, until a note-off.
SoundingAfter(e) ==
    LET hits == {i \in DOMAIN session.sounding : session.sounding[i] = e.key}
    IN IF ~Prepared THEN session.sounding
       ELSE IF e.type = "NOTE_ON" THEN Append(session.sounding, e.key)
       ELSE IF e.type = "NOTE_OFF" /\ hits # {} THEN RemoveAt(session.sounding, Min(hits))
       ELSE session.sounding

\* The number is consumed before the record is asked whether it takes the event.
Feed(input, step) ==
    /\ sequence < MaxFeeds
    /\ Capturing /\ scenario # "crash_during_capture"
    /\ sequence' = sequence + 1
    /\ LET e == FedEvent(input, step)
       IN IF CanAppend(captures[active], e)
          THEN /\ captures' = [captures EXCEPT ![active] = AppendEvent(@, e)]
               /\ session' = [session EXCEPT !.sounding = SoundingAfter(e)]
          ELSE UNCHANGED <<captures, session>>
    /\ UNCHANGED <<scenario, state, active>>

StopCapture(cancelled) ==
    /\ Capturing
    /\ LET ending   == IF cancelled THEN "CANCELLED" ELSE "COMPLETE"
           still    == Len(session.sounding)
           warnings == IF scenario = "stuck_notes" /\ still > 0 THEN <<still>> ELSE <<>>
       IN captures' = [captures EXCEPT ![active] = CloseCapture(@, ending, <<>>, warnings)]
    /\ active' = NoCapture
    /\ UNCHANGED <<scenario, state, session, sequence>>

RuntimeNext ==
    \/ Start \/ Stop \/ Crash \/ Panic
    \/ \E config \in Configs : PrepareSession(config)
    \/ \E flag \in BOOLEAN : ArmTrack(flag) \/ StopCapture(flag)
    \/ sequence <= StartFeeds /\ \E id \in CaptureIds : StartCapture(id)
    \/ \E input \in Inputs, step \in Steps : Feed(input, step)

RuntimeSpec == RuntimeInit /\ [][RuntimeNext]_runtimeVars

-----------------------------------------------------------------------------

RuntimeTypeOK ==
    /\ scenario \in AllScenarios
    /\ state \in {"OFF", "READY", "FAILED"}
    /\ DOMAIN captures \subseteq CaptureIds
    /\ active \in DOMAIN captures \cup {NoCapture}
    /\ sequence \in 0 .. MaxFeeds

\* Exactly the active capture is in progress, every record the runtime holds
\* could be constructed, and each event is where its number puts it: whatever
\* the order of crashes, stops, panics and new sessions, no capture is left
\* open with nothing to close it (fake_runtime.py's four ways of ending one).
OneCaptureOpen ==
    /\ RuntimeTypeOK
    /\ \A id \in DOMAIN captures :
          /\ captures[id].state = "IN_PROGRESS" <=> active = id
          /\ CaptureContract(captures[id])
          /\ captures[id].id = id
          /\ \A i \in DOMAIN captures[id].events : captures[id].events[i].seq < sequence

\* While a capture runs it grows by whole events at its end, and neither an event
\* nor a stop, a crash, a shutdown or a new session costs one of those it has, or
\* reaches another record.  Between captures a start replaces what it finds under
\* its id, closed or not; nothing is said of that.
RecordingIsKept ==
    [][Capturing =>
          /\ DOMAIN captures \subseteq DOMAIN captures'
          /\ IsPrefix(captures[active].events, captures'[active].events)
          /\ \A id \in DOMAIN captures \ {active} : captures'[id] = captures[id]]_runtimeVars

\* The health a runtime reports can always be constructed, and so can the
\* readiness derived from it; a runtime that says it is ready to capture lets a
\* capture start on an armed track, unless one is running.
ReadinessIsHonest ==
    /\ HealthContract(Health)
    /\ ReadinessContract(Readiness(Health))
    /\ Readiness(Health).captureReady /\ session.armed => StartCaptureAccepted \/ Capturing
    /\ Readiness(Health).ready => state = "READY"

=============================================================================
