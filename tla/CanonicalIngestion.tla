------------------------- MODULE CanonicalIngestion -------------------------
(***************************************************************************)
(* Ingestion of a closed capture into the musical core: the policy that     *)
(* pairs note events and converts their times to ticks, and the service     *)
(* that answers one request id with one outcome, creating a document with   *)
(* its origin revision for each intent it accepts.                          *)
(*                                                                         *)
(* The music of an ingested revision is its set of notes and its tempo.     *)
(* Times are whole microseconds.                                            *)
(***************************************************************************)
EXTENDS ScoreRevisions, ScoreTiming, CaptureRecord

CONSTANTS
    RequestIds,    \* ids callers may give a request
    Readings,      \* how a caller reads a capture: [bpm, origin], tenths of a beat per
                   \* minute and the origin named, Absent for the first event
    NoRevision     \* revision_id None

CanonicalNotes ==
    [key : Int, velocity : Int, string : Int, on : Nat, off : Nat, onAt : Int, offAt : Int,
     start : Int, duration : Int, lostStart : Int, lostDuration : Int]

\* A request is refused for an origin before zero or a tempo that rounds to nothing.
ASSUME IngestionConstants ==
    /\ \A r \in Readings : r.origin \in Nat \cup {Absent} /\ TempoFromBpm(r.bpm) \in Nat \ {0}
    /\ NoRevision \notin [document : Documents \cup {"any"}, number : {1}, parent : {NoParent},
                         music : [notes : SUBSET CanonicalNotes, mpq : Nat]]

VARIABLES
    identities,    \* request id -> fingerprint of the first request seen with it
    results,       \* request id -> the accepted result
    answers        \* every answer given so far (history, not kept by the code)

ingestionVars == <<identities, results, answers>>

TicksPerQuarter == 960

IngestionInit ==
    /\ identities = [i \in {} |-> Absent]
    /\ results = [i \in {} |-> Absent]
    /\ answers = {}

-----------------------------------------------------------------------------
(* The request *)

\* Refused for an open capture; the origin defaults to the first note event.
BuildRequest(id, c, reading) ==
    LET times == {c.events[i].at : i \in {j \in DOMAIN c.events : c.events[j].type \in NoteTypes}}
    IN [id     |-> id,
        digest |-> CaptureDigest(c),
        origin |-> IF reading.origin # Absent THEN reading.origin
                   ELSE IF times = {} THEN 0 ELSE Min(times),
        mpq    |-> TempoFromBpm(reading.bpm),
        events |-> BuildSourceEvents(c)]

\* Wrong on purpose: the tempo is left out.
FingerprintForgetsTempo(request) == [request EXCEPT !.id = Absent, !.mpq = Absent]
\* Everything that decides the outcome; not the request's own id.
Fingerprint(request) == [request EXCEPT !.id = Absent]

RequestContract(request) ==
    /\ request.origin >= 0 /\ request.mpq > 0
    /\ \A i, j \in DOMAIN request.events :
          i # j => request.events[i].seq # request.events[j].seq

-----------------------------------------------------------------------------
(* DIRECT_EVENT_IMPORT_V1 *)

Rejection(reason, ids) == [reason |-> reason, ids |-> ids]

\* By capture time, and by place in the request where times are equal.
InTimeOrder(events) ==
    LET earlier(i, j) == events[i].at < events[j].at \/ (events[i].at = events[j].at /\ i < j)
        order == CHOOSE p \in [DOMAIN events -> DOMAIN events] :
                    \A k \in 2 .. Len(events) : earlier(p[k - 1], p[k])
    IN [k \in DOMAIN events |-> events[order[k]]]

ConvertNote(request, on, off) ==
    LET elapsed  == on.at - request.origin
        duration == off.at - on.at
        ticks(t) == NanosecondsToTicks(t, TicksPerQuarter, request.mpq)
        lost(t)  == RoundingDelta(t, TicksPerQuarter, request.mpq)
    IN [key |-> on.key, velocity |-> on.velocity, string |-> on.string,
        on |-> on.seq, off |-> off.seq, onAt |-> on.at, offAt |-> off.at,
        start |-> ticks(elapsed), duration |-> ticks(duration),
        lostStart |-> lost(elapsed), lostDuration |-> lost(duration)]

\* Wrong on purpose: a release takes the note opened last.
PairReleaseLast(request, s, e) ==
    LET on   == Last(s.open[e.key])
        rest == [s EXCEPT !.open[e.key] = Front(@)]
    IN IF ConvertibleDuration(on.at, e.at, TicksPerQuarter, request.mpq)
       THEN [rest EXCEPT !.notes = @ \cup {ConvertNote(request, on, e)}]
       ELSE [rest EXCEPT !.rejections =
                Append(@, Rejection("DURATION_BELOW_ONE_TICK", {on.seq, e.seq}))]
\* A release takes the longest open note of its key.
PairRelease(request, s, e) ==
    LET on   == Head(s.open[e.key])
        rest == [s EXCEPT !.open[e.key] = Tail(@)]
    IN IF ConvertibleDuration(on.at, e.at, TicksPerQuarter, request.mpq)
       THEN [rest EXCEPT !.notes = @ \cup {ConvertNote(request, on, e)}]
       ELSE [rest EXCEPT !.rejections =
                Append(@, Rejection("DURATION_BELOW_ONE_TICK", {on.seq, e.seq}))]

ImportEvent(request, s, e) ==
    IF e.at < request.origin
    THEN [s EXCEPT !.rejections = Append(@, Rejection("EVENT_BEFORE_CAPTURE_ORIGIN", {e.seq}))]
    ELSE IF ~Releases(e) THEN [s EXCEPT !.open[e.key] = Append(@, e)]
    ELSE IF s.open[e.key] = <<>>
    THEN [s EXCEPT !.rejections = Append(@, Rejection("UNMATCHED_NOTE_OFF", {e.seq}))]
    ELSE PairRelease(request, s, e)

NothingImported(request) ==
    [open |-> [k \in {request.events[i].key : i \in DOMAIN request.events} |-> <<>>],
     notes |-> {}, rejections |-> <<>>]

\* The state of the import after each event.
ImportAll(request) ==
    LET sorted == [request EXCEPT !.events = InTimeOrder(@)]
        after[n \in 0 .. Len(sorted.events)] ==
            IF n = 0 THEN NothingImported(request)
            ELSE ImportEvent(request, after[n - 1], sorted.events[n])
    IN after[Len(sorted.events)]

\* Notes still open, of every key.
StillOpen(s) == UNION {{s.open[k][i].seq : i \in DOMAIN s.open[k]} : k \in DOMAIN s.open}

\* Notes never released are one rejection: no release is made up for them.
ImportDirectEvents(request) ==
    LET s     == ImportAll(request)
        still == StillOpen(s)
    IN [notes      |-> s.notes,
        rejections |-> s.rejections \o
                       (IF still = {} THEN <<>> ELSE <<Rejection("UNMATCHED_NOTE_ON", still)>>),
        unresolved |-> {n.on : n \in {m \in s.notes : m.string = Absent}},
        rounded    |-> {n.on : n \in {m \in s.notes : m.lostStart # 0 \/ m.lostDuration # 0}}
                       \cup {n.off : n \in {m \in s.notes : m.lostDuration # 0}}]

Cited(rejections) == UNION {rejections[i].ids : i \in DOMAIN rejections}

\* An event that two rejections name counts twice.
RejectedCount(rejections) ==
    Cardinality(UNION {{i} \X rejections[i].ids : i \in DOMAIN rejections})

-----------------------------------------------------------------------------
(* The service *)

ResultContract(r) ==
    /\ r.status # "REJECTED" => r.revision # NoRevision
    /\ r.status = "REJECTED" => r.revision = NoRevision /\ r.rejections # <<>>
    /\ r.status = "ACCEPTED" => r.rejections = <<>>
    /\ r.status = "ACCEPTED_WITH_REJECTIONS" => r.rejections # <<>>
    /\ r.status = "DUPLICATE" => ~r.created
    /\ r.rejected >= Cardinality(Cited(r.rejections))

\* Nothing in the outcome says why: an empty request has a reason of its own.
Rejected(request, rejections) ==
    LET why == IF rejections # <<>> THEN rejections
               ELSE <<Rejection("NO_CONVERTIBLE_EVENTS", {})>>
    IN [request |-> request.id, status |-> "REJECTED", revision |-> NoRevision,
        created |-> FALSE, accepted |-> 0, rejected |-> Cardinality(Cited(why)),
        rejections |-> why]

Accepted(request, outcome, revision) ==
    [request    |-> request.id,
     status     |-> IF outcome.rejections = <<>> THEN "ACCEPTED" ELSE "ACCEPTED_WITH_REJECTIONS",
     revision   |-> revision,
     created    |-> TRUE,
     accepted   |-> Cardinality(outcome.notes),
     rejected   |-> RejectedCount(outcome.rejections),
     rejections |-> outcome.rejections]

AsDuplicate(result) == [result EXCEPT !.status = "DUPLICATE", !.created = FALSE]

SeenBefore(request) == request.id \in DOMAIN identities
Consistent(request) == SeenBefore(request) => identities[request.id] = Fingerprint(request)

Music(request, outcome) == [notes |-> outcome.notes, mpq |-> request.mpq]

FreshDocument == CHOOSE d \in Documents : d \notin Existing

Answer(result, request) ==
    answers' = answers \cup {[result |-> result, asked |-> request]}

IngestDuplicate(request) ==
    /\ Consistent(request)
    /\ request.id \in DOMAIN results
    /\ Answer(AsDuplicate(results[request.id]), request)
    /\ UNCHANGED <<identities, results, documents, revisions, authors>>

\* The id is reserved before the outcome is known.  A port that fails has
\* stored nothing, and leaves the id reserved and unanswered.
IngestNew(request, portFails) ==
    LET outcome == ImportDirectEvents(request)
    IN /\ Consistent(request)
       /\ request.id \notin DOMAIN results
       /\ identities' = Put(identities, request.id, Fingerprint(request))
       /\ IF outcome.notes = {}
          THEN /\ Answer(Rejected(request, outcome.rejections), request)
               /\ UNCHANGED <<results, documents, revisions, authors>>
          ELSE IF portFails
          THEN UNCHANGED <<results, answers, documents, revisions, authors>>
          ELSE /\ Existing # Documents
               /\ LET d == FreshDocument
                      result == Accepted(request, outcome, Origin(d, Music(request, outcome)))
                  IN /\ CreateDocument(d, Music(request, outcome), request.id)
                     /\ results' = Put(results, request.id, result)
                     /\ Answer(result, request)

Ingest(request, portFails) == IngestDuplicate(request) \/ IngestNew(request, portFails)

-----------------------------------------------------------------------------

\* What the code's own records say of a capture, used below for any capture and
\* any request that could be built from it.
EveryEventAccountedFor(request) ==
    LET outcome == ImportDirectEvents(request)
        all     == {request.events[i].seq : i \in DOMAIN request.events}
        used    == {n.on : n \in outcome.notes} \cup {n.off : n \in outcome.notes}
        back(t) == TicksToNanoseconds(t, TicksPerQuarter, request.mpq)
        result  == Accepted(request, outcome, Origin("any", Music(request, outcome)))
    IN /\ RequestContract(request)
       /\ IF outcome.notes = {} THEN ResultContract(Rejected(request, outcome.rejections))
          ELSE ResultContract(result) /\ ResultContract(AsDuplicate(result))
       /\ used \cap Cited(outcome.rejections) = {}
       /\ used \cup Cited(outcome.rejections) = all
       /\ RejectedCount(outcome.rejections) + 2 * Cardinality(outcome.notes) = Cardinality(all)
       /\ \A n \in outcome.notes :
             /\ request.origin + back(n.start) + n.lostStart = n.onAt
             /\ back(n.duration) + n.lostDuration = n.offAt - n.onAt
             /\ n.duration >= 1
       /\ \A m, n \in outcome.notes : (m.key = n.key /\ m.on < n.on) => m.off < n.off

\* The observation of a capture counts as missing exactly the releases for
\* which the import then refuses notes.
ObservationAgreesFor(c, request) ==
    LET rejections == ImportDirectEvents(request).rejections
        refused    == {i \in DOMAIN rejections : rejections[i].reason = "UNMATCHED_NOTE_ON"}
        ids        == UNION {rejections[i].ids : i \in refused}
    IN Cardinality(ids) = DeriveObservation(c).missingOffs

\* One request id has one meaning: all its answers were to the same question,
\* every accepted one names the same revision, only the first says it created
\* it, that revision is stored and holds what the import of that question gives,
\* and no document exists that no answer names (service.py:178-331).
RetryTellsTheSame ==
    /\ \A x, y \in answers : x.result.request = y.result.request =>
          /\ x.asked = y.asked
          /\ x.result.revision = y.result.revision
          /\ (x.result.created /\ y.result.created) => x = y
    /\ \A x \in answers : x.result.status # "REJECTED" =>
          /\ x.result.revision \in Stored
          /\ revisions[x.result.revision] = x.result.request
          /\ x.result.revision.music = Music(x.asked, ImportDirectEvents(x.asked))
    /\ \A d \in Existing : \E x \in answers :
          x.result.created /\ x.result.revision.document = d

=============================================================================
