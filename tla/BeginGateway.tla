---------------------------- MODULE BeginGateway ----------------------------
(***************************************************************************)
(* Keyed Begin and its recovery, in front of the attempt service           *)
(* (src/src/master_all_strings/mvp/received_lesson_begin_request.py and    *)
(* received_lesson_begin_request_repository.py).                           *)
(*                                                                         *)
(* A browser-generated key is bound to one payload.  The thread that finds *)
(* the key unknown owns its preparation; everyone else reads the key's     *)
(* fate.  Recovery seals an unknown key, asks the owner to cancel, or      *)
(* cancels the started attempt itself.  Every section under an entry's     *)
(* lock is one action; assembling, committing and cancelling happen        *)
(* between them, interleaved with the requests of other threads.  The      *)
(* repository's guard only finds or creates an entry, and entries are      *)
(* never removed, so finding an entry and then reading it is one action.   *)
(***************************************************************************)
EXTENDS AttemptService

CONSTANTS Key,   \* the request keys browsers have made up
          Body   \* the four Begin fields other than the clock reading

\* BeginPayload, compared exactly.
Payload == [body : Body, time : Time]

KeyPhase == {"unknown", "preparing", "started", "recovery_requested",
             "closing", "interrupted", "no_attempt", "unresolved"}
OpenKey  == {"preparing", "recovery_requested", "closing"}
SealedKey == {"interrupted", "no_attempt"}

ASSUME GatewayAssumption ==
    None \notin Key /\ None \notin Attempt /\ None \notin Replies

VARIABLES
    entry,   \* the repository's entries
    step,    \* where each thread is inside the gateway
    job,     \* the key, payload and attempt id such a thread works on
    said,    \* the fates each key's answers have told its clients
    keyOf    \* history: the key an attempt was committed for

gateway == <<entry, step, job, said, keyOf>>
gvars   == <<vars, gateway>>

\* "checking", "cancelling" and "cancelled" are inside _cancel_published.
Step == {"idle", "preparing", "assembled", "committed",
         "checking", "cancelling", "cancelled"}

NoEntry == [phase |-> "unknown", payload |-> None, attempt |-> None,
            settled |-> None]
NoJob   == [key |-> None, payload |-> None, attempt |-> None]

\* The answers a client can build on; PENDING and every error leave the key's
\* fate open to it.
Fate == {"STARTED", "INTERRUPTED", "NO_ATTEMPT"}

GatewayInit ==
    /\ Init
    /\ entry = [k \in Key |-> NoEntry]
    /\ step = [t \in Thread |-> "idle"]
    /\ job = [t \in Thread |-> NoJob]
    /\ said = [k \in Key |-> {}]
    /\ keyOf = [a \in Attempt |-> None]

-----------------------------------------------------------------------------
SetPhase(k, p) == entry' = [entry EXCEPT ![k].phase = p]

\* The gateway call of thread t ends; its answer has this status.
Finish(t, k, status) ==
    /\ step' = [step EXCEPT ![t] = "idle"]
    /\ job' = [job EXCEPT ![t] = NoJob]
    /\ said' = [said EXCEPT ![k] = @ \cup ({status} \cap Fate)]

\* The gateway call of thread t goes on.
Enter(t, place, j) ==
    /\ step' = [step EXCEPT ![t] = place]
    /\ job' = [job EXCEPT ![t] = j]
    /\ UNCHANGED said

Free(t) == pc[t] = "idle" /\ step[t] = "idle"

\* seal_no_attempt: a stored attempt is never hidden.
SealNoAttempt(k) ==
    IF entry[k].attempt # None \/ entry[k].phase \in SealedKey \cup {"started"}
    THEN UNCHANGED entry
    ELSE entry' = [entry EXCEPT ![k] = [@ EXCEPT !.phase = "no_attempt", !.settled = None]]

\* mark_unresolved, with the attempt id when the caller has one.
MarkUnresolved(k, a) ==
    IF entry[k].phase \in SealedKey \cup {"started"}
    THEN UNCHANGED entry
    ELSE entry' = [entry EXCEPT ![k] =
                   [@ EXCEPT !.phase = "unresolved",
                             !.attempt = IF a = None THEN entry[k].attempt ELSE a]]

\* What reserve answers about a key that exists.
KeyFate(k, p) ==
    CASE entry[k].payload # p -> "begin_request_conflict"
      [] entry[k].payload = p /\ entry[k].phase \in SealedKey
             -> "begin_request_closed"
      [] entry[k].payload = p /\ entry[k].phase = "started"
             -> "STARTED"
      [] entry[k].payload = p /\ entry[k].phase = "unresolved"
             -> "internal_error"
      [] OTHER -> "PENDING"

\* Wrong on purpose: a repeated Begin prepares an unresolved key again.
ReserveUnresolved(t, k, p) ==
    /\ Free(t)
    /\ entry[k].phase \in {"unknown", "unresolved"}
    /\ entry' = [entry EXCEPT ![k] = [@ EXCEPT !.phase = "preparing", !.payload = p]]
    /\ Enter(t, "preparing", [key |-> k, payload |-> p, attempt |-> None])
    /\ UNCHANGED <<vars, keyOf>>

\* begin on a key nobody has sent: this thread owns its preparation.
Reserve(t, k, p) ==
    /\ Free(t)
    /\ entry[k].phase = "unknown"
    /\ entry' = [entry EXCEPT ![k] = [@ EXCEPT !.phase = "preparing", !.payload = p]]
    /\ Enter(t, "preparing", [key |-> k, payload |-> p, attempt |-> None])
    /\ UNCHANGED <<vars, keyOf>>

\* begin on a key that exists.
ReadFate(t, k, p) ==
    /\ Free(t)
    /\ entry[k].phase # "unknown"
    /\ Finish(t, k, KeyFate(k, p))
    /\ UNCHANGED <<vars, entry, keyOf>>

\* assemble_begin succeeds: an attempt exists, but only in this thread.
Assemble(t) ==
    /\ step[t] = "preparing"
    /\ Enter(t, "assembled", job[t])
    /\ UNCHANGED <<vars, entry, keyOf>>

\* assemble_begin raises: one of _PRE_INSERT, or anything else.
AssembleFails(t) ==
    /\ step[t] = "preparing"
    /\ LET k == job[t].key
       IN \/ SealNoAttempt(k) /\ Finish(t, k, "refused")
          \/ MarkUnresolved(k, None) /\ Finish(t, k, "internal_error")
    /\ UNCHANGED <<vars, keyOf>>

\* commit_begin stores the attempt under its fresh id.
Commit(t, a) ==
    /\ step[t] = "assembled"
    /\ Insert(a, job[t].payload.time)
    /\ keyOf' = [keyOf EXCEPT ![a] = job[t].key]
    /\ Enter(t, "committed", [job[t] EXCEPT !.attempt = a])
    /\ UNCHANGED <<pc, call, draft, reply, entry>>

\* commit_begin raises: the attempt id collided, and nothing was stored.
CommitFails(t) ==
    /\ step[t] = "assembled"
    /\ SealNoAttempt(job[t].key)
    /\ Finish(t, job[t].key, "internal_error")
    /\ UNCHANGED <<vars, keyOf>>

\* Wrong on purpose: recovery asked for during preparation is forgotten.
ClaimForgetsRecovery(t) ==
    /\ step[t] = "committed"
    /\ LET k == job[t].key
       IN /\ entry' = [entry EXCEPT ![k] = [@ EXCEPT !.attempt = job[t].attempt,
                                                     !.phase = "started"]]
          /\ Finish(t, k, "STARTED")
    /\ UNCHANGED <<vars, keyOf>>

\* claim_publication: publish STARTED unless recovery was asked for.
Claim(t) ==
    /\ step[t] = "committed"
    /\ LET k == job[t].key
           a == job[t].attempt
       IN IF entry[k].phase = "recovery_requested"
          THEN /\ entry' = [entry EXCEPT ![k] = [@ EXCEPT !.attempt = a, !.phase = "closing"]]
               /\ Enter(t, "checking", job[t])
          ELSE /\ entry' = [entry EXCEPT ![k] = [@ EXCEPT !.attempt = a, !.phase = "started"]]
               /\ Finish(t, k, "STARTED")
    /\ UNCHANGED <<vars, keyOf>>

\* claim_publication raises: the attempt is stored, its fate is uncertain.
ClaimFails(t) ==
    /\ step[t] = "committed"
    /\ MarkUnresolved(job[t].key, job[t].attempt)
    /\ Finish(t, job[t].key, "internal_error")
    /\ UNCHANGED <<vars, keyOf>>

-----------------------------------------------------------------------------
\* request_recovery on a key that exists, when no cancel is started.
RecoveryFate(k, p) ==
    CASE entry[k].payload # p -> "begin_request_conflict"
      [] entry[k].payload = p /\ entry[k].phase = "no_attempt"
             -> "NO_ATTEMPT"
      [] entry[k].payload = p /\ entry[k].phase = "interrupted"
             -> "INTERRUPTED"
      [] entry[k].payload = p /\ entry[k].phase = "unresolved"
             -> "internal_error"
      [] OTHER -> "PENDING"

\* recover on a key nobody has sent leaves a tombstone.
SealUnknown(t, k, p) ==
    /\ Free(t)
    /\ entry[k].phase = "unknown"
    /\ entry' = [entry EXCEPT ![k] = [@ EXCEPT !.phase = "no_attempt", !.payload = p]]
    /\ Finish(t, k, "NO_ATTEMPT")
    /\ UNCHANGED <<vars, keyOf>>

Cancellable(k, p) ==
    /\ entry[k].payload = p
    /\ \/ entry[k].phase = "started"
       \/ entry[k].phase = "unresolved" /\ entry[k].attempt # None

\* recover that cancels the attempt itself.
TakeCancel(t, k, p) ==
    /\ Free(t)
    /\ Cancellable(k, p)
    /\ SetPhase(k, "closing")
    /\ Enter(t, "checking",
             [key |-> k, payload |-> p, attempt |-> entry[k].attempt])
    /\ UNCHANGED <<vars, keyOf>>

\* recover that reads the key's fate, or asks its owner to cancel.
AskRecovery(t, k, p) ==
    /\ Free(t)
    /\ entry[k].phase # "unknown" /\ ~Cancellable(k, p)
    /\ IF entry[k].payload = p /\ entry[k].phase = "preparing"
       THEN SetPhase(k, "recovery_requested") ELSE UNCHANGED entry
    /\ Finish(t, k, RecoveryFate(k, p))
    /\ UNCHANGED <<vars, keyOf>>

-----------------------------------------------------------------------------
OpenCapture(a) == phase[a] = "CAPTURING" /\ nextSequence[a] = 0
                      /\ events[a] = << >>

\* _cancel_published looks at the attempt without its lock.
CheckOpen(t) ==
    /\ step[t] = "checking"
    /\ LET k == job[t].key
           a == job[t].attempt
       IN IF OpenCapture(a)
          THEN Enter(t, "cancelling", job[t]) /\ UNCHANGED entry
          ELSE MarkUnresolved(k, a) /\ Finish(t, k, "attempt_conflict")
    /\ UNCHANGED <<vars, keyOf>>

\* service.cancel with the begin's clock reading: it wins, waits or is
\* answered from what is stored.
CallCancel(t) ==
    /\ step[t] = "cancelling"
    /\ LET a == job[t].attempt
           time == job[t].payload.time
       IN \/ Close(t, a, time, "cancel")
          \/ Join(t, a, "cancel")
          \/ AnswerTerminal(t, a, time, "cancel")
    /\ Enter(t, "cancelled", job[t])
    /\ UNCHANGED <<entry, keyOf>>

\* document["observed_events"]: pairing turns every note-on into one note.
ObservedEvents(document) == {n \in 1 .. Len(document.events) : document.events[n].on}

\* Wrong on purpose: a cancel that failed is published as interrupted.
SettleAnyway(t) ==
    /\ step[t] = "cancelled" /\ pc[t] = "idle"
    /\ LET k == job[t].key
       IN /\ entry' = [entry EXCEPT ![k] = [@ EXCEPT !.phase = "interrupted",
                                                     !.settled = result[job[t].attempt]]]
          /\ Finish(t, k, "INTERRUPTED")
    /\ UNCHANGED <<vars, keyOf>>

\* Wrong on purpose: an error leaves the key closing.
SettleLeavesClosing(t) ==
    /\ step[t] = "cancelled" /\ pc[t] = "idle"
    /\ LET k == job[t].key
           a == job[t].attempt
       IN IF reply[t].kind = "document" /\ ObservedEvents(reply[t].document) = {}
          THEN /\ entry' = [entry EXCEPT ![k] = [@ EXCEPT !.phase = "interrupted",
                                                          !.settled = reply[t].document]]
               /\ Finish(t, k, "INTERRUPTED")
          ELSE UNCHANGED entry /\ Finish(t, k, "internal_error")
    /\ UNCHANGED <<vars, keyOf>>

\* service.cancel has returned or raised: publish_interrupted, or leave the
\* key unresolved.
Settle(t) ==
    /\ step[t] = "cancelled" /\ pc[t] = "idle"
    /\ LET k == job[t].key
           a == job[t].attempt
           r == reply[t]
       IN \/ /\ r.kind = "document" /\ ObservedEvents(r.document) = {}
             /\ entry' = [entry EXCEPT ![k] = [@ EXCEPT !.phase = "interrupted",
                                                        !.settled = r.document]]
             /\ Finish(t, k, "INTERRUPTED")
          \/ /\ r.kind = "document" /\ ObservedEvents(r.document) # {}
             /\ MarkUnresolved(k, a)
             /\ Finish(t, k, "attempt_conflict")
          \/ /\ r.kind # "document"
             /\ MarkUnresolved(k, a)
             /\ Finish(t, k, IF r.kind = "attempt_conflict"
                             THEN r.kind ELSE "internal_error")
    /\ UNCHANGED <<vars, keyOf>>

-----------------------------------------------------------------------------
GatewayRequest(t, k, p) ==
    Reserve(t, k, p) \/ ReadFate(t, k, p) \/ SealUnknown(t, k, p)
        \/ TakeCancel(t, k, p) \/ AskRecovery(t, k, p)

\* What a thread inside the gateway does next.
GatewayProceed(t) ==
    \/ Assemble(t) \/ AssembleFails(t) \/ CommitFails(t)
    \/ \E a \in Attempt : Commit(t, a)
    \/ Claim(t) \/ ClaimFails(t) \/ CheckOpen(t) \/ CallCancel(t) \/ Settle(t)

\* The attempt ids that STARTED answers have carried to a client.
Told == {a \in Attempt : keyOf[a] # None /\ "STARTED" \in said[keyOf[a]]}

\* A note, a finish or a cancel of a client that knows the attempt id (ids
\* cannot be guessed).  Requests the service refuses change nothing here, and
\* the unkeyed Begin touches no key: both are left to UnkeyedStep.
ClientRequest(t) ==
    /\ step[t] = "idle"
    /\ \E a \in Told :
           \/ \E m \in Message : AppendMessage(t, a, m)
           \/ \E time \in Time, i \in Intent : Close(t, a, time, i)
           \/ \E i \in Intent : Join(t, a, i)
    /\ UNCHANGED gateway

ServiceProceed(t) == Proceed(t) /\ UNCHANGED gateway

GatewayNext ==
    \E t \in Thread :
        \/ ClientRequest(t) \/ ServiceProceed(t) \/ GatewayProceed(t)
        \/ \E k \in Key, p \in Payload : GatewayRequest(t, k, p)

\* A thread inside the service or the gateway runs on: preparation and
\* evaluation are finite computations.  No request need ever arrive.
GatewayFairness ==
    \A t \in Thread : /\ WF_gvars(ServiceProceed(t))
                      /\ WF_gvars(GatewayProceed(t))

GatewaySpec == GatewayInit /\ [][GatewayNext]_gvars /\ GatewayFairness

\* The server has two ways to begin an attempt, with a key and without
\* (handle_http of received_lesson_attempt_api.py).  Bounds the model: the clients of
\* a behaviour use one of them, and without a key one attempt only, since attempts
\* share nothing.
Unkeyed == \A k \in Key : entry[k] = NoEntry
Unused  == /\ \A t \in Thread : reply[t] = None
           /\ \A a \in Attempt : phase[a] = "ABSENT"

\* Bounds the model: messages of an attempt with a key.
KeyedMessages == 1

KeyedStep ==
    /\ ~Unkeyed \/ Unused
    /\ GatewayNext
    /\ \A a \in Attempt : Len(events'[a]) <= KeyedMessages

UnkeyedStep ==
    /\ Unkeyed
    /\ \E t \in Thread :
          \/ ServiceProceed(t)
          \/ Request(t, CHOOSE a \in Attempt : TRUE) /\ UNCHANGED gateway

ServerNext == KeyedStep \/ UnkeyedStep

ServerSpec == GatewayInit /\ [][ServerNext]_gvars /\ GatewayFairness

-----------------------------------------------------------------------------
(* Type correctness of the gateway's entries, threads and answers.         *)
Entries ==
    [phase : KeyPhase, payload : Payload \cup {None},
     attempt : Attempt \cup {None}, settled : Document \cup {None}]
GatewayTypeOK ==
    /\ entry \in [Key -> Entries]
    /\ step \in [Thread -> Step]
    /\ job \in [Thread -> [key : Key \cup {None}, payload : Payload \cup {None},
                           attempt : Attempt \cup {None}]]
    /\ said \in [Key -> SUBSET Fate]
    /\ keyOf \in [Attempt -> Key \cup {None}]

Cancelling(k) == {t \in Thread : /\ step[t] \in {"checking", "cancelling", "cancelled"}
                                 /\ job[t].key = k}
Owning(k) == {t \in Thread : /\ step[t] \in {"preparing", "assembled", "committed"}
                             /\ job[t].key = k}

(* What a key says about its attempt is so: NO_ATTEMPT and an unresolved   *)
(* key without an id hide no stored attempt, INTERRUPTED names an attempt  *)
(* that is interrupted with the very document that is served, and holds no *)
(* played note.                                                            *)
EntriesAreTrue ==
    \A k \in Key :
        LET e == entry[k]
            mine == {a \in Attempt : keyOf[a] = k}
        IN /\ e.phase = "no_attempt" => mine = {}
           /\ (e.phase = "unresolved" /\ e.attempt = None) => mine = {}
           /\ e.phase \in {"started", "closing"} =>
                  mine = {e.attempt}
           /\ e.phase = "interrupted" =>
                  /\ mine = {e.attempt}
                  /\ phase[e.attempt] = "INTERRUPTED"
                  /\ e.settled = result[e.attempt]
                  /\ ObservedEvents(e.settled) = {}

(* Preparing and closing a key are each in the hands of one thread, and no *)
(* key is left in an open phase with nobody working on it.                 *)
OneWorkerPerKey ==
    \A k \in Key :
        /\ entry[k].phase = "closing" <=> Cancelling(k) # {}
        /\ entry[k].phase \in {"preparing", "recovery_requested"} <=> Owning(k) # {}
        /\ \A t, u \in Cancelling(k) \cup Owning(k) : t = u

(* One browser-generated key creates at most one attempt and is worked on  *)
(* by at most one thread, whoever repeats the Begin and whatever recovery  *)
(* does meanwhile.                                                         *)
OneAttemptPerKey ==
    /\ GatewayTypeOK
    /\ OneWorkerPerKey
    /\ \A a, b \in Attempt : (keyOf[a] # None /\ keyOf[a] = keyOf[b]) => a = b

(* What clients have been told of a key never has to be taken back: a key  *)
(* that was answered NO_ATTEMPT or INTERRUPTED still has that fate, and    *)
(* nothing contradicts NO_ATTEMPT.                                         *)
AnswersStand ==
    \A k \in Key :
        /\ "NO_ATTEMPT" \in said[k] => /\ said[k] = {"NO_ATTEMPT"}
                                       /\ entry[k].phase = "no_attempt"
        /\ "INTERRUPTED" \in said[k] => entry[k].phase = "interrupted"
        /\ "STARTED" \in said[k] =>
               entry[k].phase \in {"started", "closing", "interrupted", "unresolved"}

(* A key's fate agrees with the attempt it created and with every answer   *)
(* that was ever given about it.                                           *)
FateIsTrue == EntriesAreTrue /\ AnswersStand

(* A sealed key keeps its fate and never prepares another snapshot; once   *)
(* recovery has been asked for, a key never publishes STARTED.             *)
RecoveryIsFinal ==
    [][\A k \in Key :
          /\ entry[k].phase \in SealedKey => UNCHANGED entry[k]
          /\ entry[k].phase \in {"recovery_requested", "closing", "unresolved"} =>
                 /\ entry'[k].phase \notin {"preparing", "started"}
                 /\ "STARTED" \notin said'[k] \ said[k]
          /\ entry[k].phase # "unknown" => UNCHANGED entry[k].payload]_gvars

(* A key that is being prepared or closed comes to a fate: the browser's   *)
(* next Resolve is not told PENDING for ever.                              *)
OpenKeysSettle ==
    \A k \in Key : entry[k].phase \in OpenKey ~> entry[k].phase \notin OpenKey

=============================================================================
