-------------------------- MODULE RuntimeIngestion --------------------------
(***************************************************************************)
(* From a performance to a canonical score: captures recorded by a runtime  *)
(* or by the live capture service, handed to ingestion once closed, and the *)
(* documents it creates then edited by authors.  A capture can go on being  *)
(* recorded, replaced or retrieved while earlier ones are ingested.         *)
(***************************************************************************)
EXTENDS PerformanceRuntime, LiveCapture, CanonicalIngestion

CONSTANTS
    FaultFeeds,     \* bound on the events offered to a broken runtime
    BusyFeeds,      \* bound on the events fed in a behaviour where recording goes on
                    \* after a request; with the live rig, also where requests with
                    \* different ids and edits happen
    LateSteps       \* bound on the recording steps after a request

VARIABLES
    rig,            \* what records: "runtime", or "live" for the capture service
    late            \* recording steps since the first request (bounds the model)

vars == <<rig, late, runtimeVars, liveVars, revisionVars, ingestionVars>>

Init ==
    /\ rig \in {"runtime", "live"} /\ late = 0
    /\ RuntimeInit /\ LiveInit /\ RevisionInit /\ IngestionInit
    /\ rig = "live" => scenario = "sound"

ClosedCaptures ==
    IF rig = "runtime" THEN {captures[id] : id \in {i \in DOMAIN captures : Closed(captures[i])}}
    ELSE IF take # NoTake /\ Closed(take) THEN {take} ELSE {}

\* Bounds the model: events offered so far, by whichever rig records.
Offered == sequence + messages

\* Bounds the model: recording goes on for a while after a request, not after an edit.
Record ==
    /\ \A d \in Existing : documents[d].count = 1
    /\ \A a \in Authors : authors[a] = Idle
    /\ late' = IF DOMAIN identities = {} THEN 0 ELSE late + 1
    /\ late' <= (IF Offered <= BusyFeeds THEN LateSteps ELSE 0)
    /\ UNCHANGED <<rig, revisionVars, ingestionVars>>

RuntimeStep ==
    /\ rig = "runtime"
    /\ RuntimeNext
    /\ scenario # "sound" => sequence' <= FaultFeeds
    /\ Record
    /\ UNCHANGED liveVars

LiveStep ==
    /\ rig = "live"
    /\ LiveNext
    /\ Record
    /\ UNCHANGED runtimeVars

\* Bounds the model: requests are made between two captures of a sound runtime.
\* A closed capture does not tell them apart.
Quiet == rig = "runtime" => scenario = "sound" /\ state = "READY" /\ session.armed

IngestStep ==
    /\ Quiet
    /\ \E id \in RequestIds, c \in ClosedCaptures, reading \in Readings, fails \in BOOLEAN :
          /\ (Offered > BusyFeeds \/ rig = "runtime") => DOMAIN identities \subseteq {id}
          /\ Ingest(BuildRequest(id, c, reading), fails)
    /\ UNCHANGED <<rig, late, runtimeVars, liveVars>>

EditStep ==
    /\ Offered <= BusyFeeds /\ rig = "live" /\ late = 0 /\ Cardinality(Existing) = 1
    /\ \E a \in Authors : AuthorStep(a)
    /\ UNCHANGED <<rig, late, runtimeVars, liveVars, ingestionVars>>

Next == RuntimeStep \/ LiveStep \/ IngestStep \/ EditStep

Spec == Init /\ [][Next]_vars

-----------------------------------------------------------------------------

\* Either rig, the fake runtime or the live device, has one open capture at the
\* most, can always reach it, and tells the truth about being ready for one.
OneOpenTake == OneCaptureOpen /\ ReadinessIsHonest /\ TakeIsConnected

\* The observation derived from a closed capture can be constructed, and the
\* releases it counts as missing are the ones the import misses, though the two
\* walk the record separately (observations.py:25-51, policies.py:121-188).
ObservationAgrees ==
    \A c \in ClosedCaptures :
        /\ ObservationContract(DeriveObservation(c))
        /\ \A reading \in Readings :
              reading.origin = Absent => ObservationAgreesFor(c, BuildRequest("any", c, reading))

\* Whatever was captured, and whatever tempo and origin it is then read with,
\* each note event is in exactly one note or one rejection, the counts say so,
\* notes of a key are released in the order they were struck, and the times of
\* a note are recovered exactly from its ticks and the recorded rounding
\* (policies.py:97-291), and the observation tells the same of it.
EveryEventAccounted ==
    /\ \A c \in ClosedCaptures, reading \in Readings :
          EveryEventAccountedFor(BuildRequest("any", c, reading))
    /\ ObservationAgrees

=============================================================================
