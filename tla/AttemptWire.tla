---------------------------- MODULE AttemptWire ----------------------------
(***************************************************************************)
(* What the practice page talks to: requests on a network that loses,      *)
(* delays and reorders them, and the attempt server they reach.            *)
(*                                                                         *)
(* The server is the atomic view of AttemptService and BeginGateway: a     *)
(* request takes effect in one step, except a Begin, whose preparation a   *)
(* recovery can overtake.  A start key has at most one attempt             *)
(* (BeginGateway!OneAttemptPerKey), so attempts are named by their keys.   *)
(* An attempt the gateway stored but could not publish is left out here.   *)
(* Clock readings are left out: the page's are never older than the last   *)
(* one it sent.  A restarted server has forgotten every key and attempt.   *)
(***************************************************************************)
EXTENDS Naturals, Sequences, FiniteSets

CONSTANTS Key,          \* start keys; each start of the page makes up one
          None,
          MaxFaults     \* bound: lost answers and server restarts

VARIABLES
    wire,      \* requests under way, and what else the page awaits
    srv,       \* what the server knows of each key
    verdict,   \* history: the terminal document stored for each key
    lost,      \* history: keys whose recovery, finish or cancel got lost
    faults     \* failures so far

wvars == <<wire, srv, verdict, lost, faults>>

\* The attempt's phase once there is one; before that, the key's.
Phase == {"unknown", "preparing", "recovery_requested", "no_attempt",
          "unresolved", "capturing", "evaluated", "interrupted", "recovered",
          "failed_finish", "failed_cancel", "forgotten"}
Unheard == {"unknown", "forgotten"}

\* "refused" is a definitive refusal of a Begin, "conflict" any other 4xx,
\* "error" a 5xx, "lost" a missing or unreadable answer.
Status == {"STARTED", "PENDING", "NO_ATTEMPT", "INTERRUPTED", "ACK", "EVALUATED",
           "refused", "conflict", "error", "lost"}
Kind == {"begin", "resolve", "append", "finish", "cancel", "mount"}

ASSUME WireConstants ==
    /\ MaxFaults \in Nat
    /\ None \notin Key /\ None \notin Kind
    /\ None \notin [status : Status, count : Nat]

\* A request; a quiet one has no continuation that does anything, and that of
\* one that is not live finds its token outdated.
Request(kind, k, seq, quiet) ==
    [kind |-> kind, key |-> k, seq |-> seq, quiet |-> quiet, live |-> ~quiet,
     at |-> "way", answer |-> None]
Answer(status, count) == [status |-> status, count |-> count]

WireInit ==
    /\ wire = {}
    /\ srv = [k \in Key |-> [phase |-> "unknown", count |-> 0]]
    /\ verdict = [k \in Key |-> None]
    /\ lost = {}
    /\ faults = 0

-----------------------------------------------------------------------------
\* Request r has been handled; its answer travels back unless nobody waits.
Reply(r, status, count) ==
    wire' = (wire \ {r}) \cup
            IF r.quiet THEN {}
            ELSE {[r EXCEPT !.at = "back", !.answer = Answer(status, count)]}

Enters(k, phase) == srv' = [srv EXCEPT ![k].phase = phase]

\* The attempt ends in this phase with this document.
Stores(k, phase, status) ==
    /\ Enters(k, phase)
    /\ verdict' = [verdict EXCEPT ![k] = Answer(status, srv[k].count)]

Refuses(r) == /\ Reply(r, "conflict", 0)
              /\ UNCHANGED <<srv, verdict>>

\* A Begin reaches the gateway: it prepares a key nobody has sent.
ServeBegin(r) ==
    IF srv[r.key].phase \in Unheard
    THEN /\ Enters(r.key, "preparing")
         /\ wire' = (wire \ {r}) \cup {[r EXCEPT !.at = "server"]}
         /\ UNCHANGED verdict
    ELSE Refuses(r)

\* The owner of a key is done: published, cancelled for a recovery that came
\* meanwhile, refused before anything was stored, or failed.
Prepare(r) ==
    LET k == r.key
        open == srv[k].phase = "preparing"
    IN /\ r.kind = "begin" /\ r.at = "server"
       /\ \/ /\ open
             /\ Enters(k, "capturing")
             /\ Reply(r, "STARTED", 0)
             /\ UNCHANGED verdict
          \/ /\ ~open
             /\ Stores(k, "recovered", "INTERRUPTED")
             /\ Reply(r, "INTERRUPTED", 0)
          \/ /\ ~open
             /\ Enters(k, "failed_cancel")
             /\ Reply(r, "error", 0)
             /\ UNCHANGED verdict
          \/ /\ Enters(k, "no_attempt")
             /\ \E status \in {"refused", "error"} : Reply(r, status, 0)
             /\ UNCHANGED verdict
          \/ /\ Enters(k, "unresolved")
             /\ Reply(r, "error", 0)
             /\ UNCHANGED verdict
       /\ UNCHANGED <<lost, faults>>

\* recover, as BeginGateway has it.
ServeRecovery(r) ==
    LET k == r.key
        phase == srv[k].phase
    IN \/ /\ phase \in Unheard \cup {"no_attempt"}
          /\ Enters(k, "no_attempt")
          /\ Reply(r, "NO_ATTEMPT", 0)
          /\ UNCHANGED verdict
       \/ /\ phase \in {"preparing", "recovery_requested"}
          /\ Enters(k, "recovery_requested")
          /\ Reply(r, "PENDING", 0)
          /\ UNCHANGED verdict
       \/ /\ phase = "capturing" /\ srv[k].count = 0
          /\ Stores(k, "recovered", "INTERRUPTED")
          /\ Reply(r, "INTERRUPTED", 0)
       \/ /\ phase = "capturing" /\ srv[k].count = 0
          /\ Enters(k, "failed_cancel")
          /\ Reply(r, "error", 0)
          /\ UNCHANGED verdict
       \/ /\ phase = "recovered"
          /\ Reply(r, "INTERRUPTED", 0)
          /\ UNCHANGED <<srv, verdict>>
       \/ /\ phase = "unresolved"
          /\ Reply(r, "error", 0)
          /\ UNCHANGED <<srv, verdict>>
       \/ /\ \/ phase = "capturing" /\ srv[k].count > 0
             \/ phase \in {"evaluated", "interrupted",
                           "failed_finish", "failed_cancel"}
          /\ Refuses(r)

\* append_message: only the next sequence number of an open attempt.
ServeAppend(r) ==
    LET k == r.key
    IN IF srv[k].phase = "capturing" /\ r.seq = srv[k].count
       THEN /\ srv' = [srv EXCEPT ![k].count = @ + 1]
            /\ Reply(r, "ACK", srv[k].count + 1)
            /\ UNCHANGED verdict
       ELSE Refuses(r)

\* finish or cancel: the first one wins, a repeat of it reads what is stored.
ServeTerminal(r, closed, stored, status, failed) ==
    LET k == r.key
    IN \/ /\ srv[k].phase = "capturing"
          /\ \/ Stores(k, closed, status) /\ Reply(r, status, srv[k].count)
             \/ Enters(k, failed) /\ Reply(r, "error", 0) /\ UNCHANGED verdict
       \/ /\ srv[k].phase \in stored
          /\ Reply(r, status, srv[k].count)
          /\ UNCHANGED <<srv, verdict>>
       \/ /\ srv[k].phase = failed
          /\ Reply(r, "error", 0)
          /\ UNCHANGED <<srv, verdict>>
       \/ /\ srv[k].phase \notin stored \cup {"capturing", failed}
          /\ Refuses(r)

Serve(r) ==
    /\ r.at = "way"
    /\ \/ r.kind = "begin" /\ ServeBegin(r)
       \/ r.kind = "resolve" /\ ServeRecovery(r)
       \/ r.kind = "append" /\ ServeAppend(r)
       \/ r.kind = "finish" /\ ServeTerminal(r, "evaluated", {"evaluated"},
                                             "EVALUATED", "failed_finish")
       \/ r.kind = "cancel" /\ ServeTerminal(r, "interrupted",
                                             {"interrupted", "recovered"},
                                             "INTERRUPTED", "failed_cancel")
    /\ UNCHANGED <<lost, faults>>

-----------------------------------------------------------------------------
\* The page gets no usable answer.  The request itself may be lost, may
\* still be on its way, or has been handled.
Lose(r, delayed) ==
    /\ faults < MaxFaults
    /\ faults' = faults + 1
    /\ r.kind # "mount" /\ r.answer # Answer("lost", 0)
    /\ delayed => ~r.quiet /\ r.at # "back"
    /\ r.at = "server" => delayed
    /\ wire' = (wire \ {r})
               \cup (IF delayed THEN {[r EXCEPT !.quiet = TRUE, !.live = FALSE]} ELSE {})
               \cup (IF r.quiet THEN {}
                     ELSE {[r EXCEPT !.at = "back", !.answer = Answer("lost", 0)]})
    /\ lost' = IF r.kind \in {"begin", "append"} THEN lost ELSE lost \cup {r.key}
    /\ UNCHANGED <<srv, verdict>>

\* The server stops and starts again: nothing is persisted, and a request is
\* meant for the process that ran when it was sent.
Restart ==
    /\ faults < MaxFaults
    /\ faults' = faults + 1
    /\ srv' = [k \in Key |-> IF srv[k].phase = "unknown" THEN srv[k]
                             ELSE [phase |-> "forgotten", count |-> 0]]
    /\ wire' = {r \in wire : r.at = "back"} \cup
               {[r EXCEPT !.at = "back", !.answer = Answer("lost", 0)] :
                   r \in {q \in wire : q.at # "back" /\ ~q.quiet}}
    /\ UNCHANGED <<verdict, lost>>

\* What becomes of a request without the page's doing.
Travel(r) == Serve(r) \/ Prepare(r)

WireTypeOK ==
    /\ wire \subseteq [kind : Kind, key : Key, seq : Nat,
                       quiet : BOOLEAN, live : BOOLEAN, at : {"way", "server", "back"},
                       answer : [status : Status, count : Nat] \cup {None}]
    /\ srv \in [Key -> [phase : Phase, count : Nat]]
    /\ verdict \in [Key -> [status : {"EVALUATED", "INTERRUPTED"}, count : Nat]
                               \cup {None}]
    /\ lost \subseteq Key
    /\ faults \in 0 .. MaxFaults
=============================================================================
