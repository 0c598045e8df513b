---------------------------- MODULE AttemptRecord ----------------------------
(***************************************************************************)
(* What an attempt promises, whoever serves it: messages are accepted in   *)
(* order while it is open, it is sealed once by a finish or a cancel, and  *)
(* a sealed attempt gets one verdict about exactly the messages it holds.  *)
(***************************************************************************)
EXTENDS Naturals, Sequences

CONSTANTS Attempt, Message, None

VARIABLES log,     \* the messages the attempt has accepted
          sealed,  \* "absent", "open", or the intent that sealed it
          verdict  \* None, or [status, events]

avars == <<log, sealed, verdict>>

\* A sealed attempt is judged as its intent says, or judging it failed.
StatusesFor(i) == {"FAILED", IF i = "finish" THEN "EVALUATED" ELSE "INTERRUPTED"}

RecordInit ==
    /\ log = [a \in Attempt |-> << >>]
    /\ sealed = [a \in Attempt |-> "absent"]
    /\ verdict = [a \in Attempt |-> None]

Open(a) ==
    /\ sealed[a] = "absent"
    /\ sealed' = [sealed EXCEPT ![a] = "open"]
    /\ UNCHANGED <<log, verdict>>

Accept(a) ==
    /\ sealed[a] = "open"
    /\ \E m \in Message : /\ m.sequence = Len(log[a])
                          /\ log' = [log EXCEPT ![a] = Append(@, m)]
    /\ UNCHANGED <<sealed, verdict>>

Seal(a) ==
    /\ sealed[a] = "open"
    /\ \E i \in {"finish", "cancel"} : sealed' = [sealed EXCEPT ![a] = i]
    /\ UNCHANGED <<log, verdict>>

Decide(a) ==
    /\ sealed[a] \in {"finish", "cancel"}
    /\ verdict[a] = None
    /\ \E s \in StatusesFor(sealed[a]) :
           verdict' = [verdict EXCEPT ![a] = [status |-> s, events |-> log[a]]]
    /\ UNCHANGED <<log, sealed>>

RecordNext == \E a \in Attempt : Open(a) \/ Accept(a) \/ Seal(a) \/ Decide(a)

RecordSafety == RecordInit /\ [][RecordNext]_avars

RecordSpec == RecordSafety /\ \A a \in Attempt : WF_avars(Decide(a))
=============================================================================
