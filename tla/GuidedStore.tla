----------------------------- MODULE GuidedStore -----------------------------
(***************************************************************************)
(* The guided-session API of the local server (mvp/guided_session_api.py):  *)
(* an in-memory store, and one thread for every request on the wire.  A     *)
(* thread reads its session from the store, computes the next one and puts  *)
(* it back, and nothing keeps another thread from doing the same between    *)
(* the two: only the clients decide whether requests overlap.               *)
(*                                                                         *)
(* A slot is one request on the wire with the thread that serves it.  Any   *)
(* request may fail on its way there or back, and the server may restart;   *)
(* what a client does next is its own affair (GuidedPage).                  *)
(***************************************************************************)
EXTENDS GuidedLifecycle

CONSTANTS Slot,      \* requests on the wire at one time
          None,
          MaxFaults  \* bound: requests that fail and restarts

ASSUME NoneIsNothing == None \notin Lesson \cup Evidence /\ None \notin Session

Ask == [kind : {"create", "append"}, id : SessionId, arg : Evaluation]
       \cup [kind : {"disposition"}, id : SessionId, arg : {"ACCEPTED", "DECLINED"}]
       \cup [kind : {"execution"}, id : SessionId, arg : Recorded]
       \cup [kind : {"transition"}, id : SessionId, arg : Lesson]
Idle == [phase |-> "idle"]
\* copy: what the thread has read, then what it answers with.
Call == [phase : {"sent", "read", "ok", "failed"}, ask : Ask,
         copy : Session \cup {None}]

VARIABLES store,  \* _sessions
          calls,  \* the request in each slot
          faults

storeVars == <<store, calls, faults>>

StoreInit ==
    /\ store = [id \in SessionId |-> None]
    /\ calls = [w \in Slot |-> Idle]
    /\ faults = 0

May(ask, s) ==
    \/ ask.kind = "create" /\ s = None
    \/ ask.kind = "append" /\ s # None /\ MayAppend(s, ask.arg)
    \/ ask.kind = "disposition" /\ s # None /\ MayDispose(s)
    \/ ask.kind = "execution" /\ s # None /\ MayExecute(s, ask.arg)
    \/ ask.kind = "transition" /\ s # None /\ MayTransition(s, ask.arg)

\* The session the request makes of s.
Result(ask, s) ==
    CASE ask.kind = "create"      -> Created(ask.id, ask.arg)
      [] ask.kind = "append"      -> Appended(s, ask.arg)
      [] ask.kind = "disposition" -> Disposed(s, ask.arg)
      [] ask.kind = "execution"   -> Executed(s, ask.arg)
      [] ask.kind = "transition"  -> Transitioned(s)

-----------------------------------------------------------------------------
Send(w, ask) ==
    /\ calls[w] = Idle
    /\ calls' = [calls EXCEPT ![w] = [phase |-> "sent", ask |-> ask, copy |-> None]]
    /\ UNCHANGED <<store, faults>>

\* self.get(session_id); a missing one is refused by May.
Read(w) ==
    /\ calls[w].phase = "sent"
    /\ calls' = [calls EXCEPT ![w] = [@ EXCEPT !.phase = "read",
                                               !.copy = store[calls[w].ask.id]]]
    /\ UNCHANGED <<store, faults>>

\* The service operation on what was read, and store.put.
Write(w) ==
    LET ask == calls[w].ask
        s   == calls[w].copy
    IN /\ calls[w].phase = "read"
       /\ \/ /\ May(ask, s)
             /\ store' = [store EXCEPT ![ask.id] = Result(ask, s)]
             /\ calls' = [calls EXCEPT ![w] = [@ EXCEPT !.phase = "ok",
                                                        !.copy = Result(ask, s)]]
          \/ /\ ~May(ask, s)
             /\ calls' = [calls EXCEPT ![w].phase = "failed"]
             /\ UNCHANGED store
       /\ UNCHANGED faults

\* The request, or its answer, is lost.
Lose(w) ==
    /\ faults < MaxFaults
    /\ calls[w].phase \in {"sent", "ok"}
    /\ calls' = [calls EXCEPT ![w].phase = "failed"]
    /\ faults' = faults + 1
    /\ UNCHANGED store

\* Nothing of the store is persisted.
Restart ==
    /\ faults < MaxFaults
    /\ store' = [id \in SessionId |-> None]
    /\ calls' = [w \in Slot |-> IF calls[w] = Idle THEN Idle
                                ELSE [calls[w] EXCEPT !.phase = "failed"]]
    /\ faults' = faults + 1

\* The client takes the answer.
Take(w) ==
    /\ calls[w].phase \in {"ok", "failed"}
    /\ calls' = [calls EXCEPT ![w] = Idle]
    /\ UNCHANGED <<store, faults>>

Serve == Restart \/ \E w \in Slot : Read(w) \/ Write(w) \/ Lose(w)

\* The server with clients that may ask for anything at any time.
StoreNext == Serve \/ \E w \in Slot : Take(w) \/ \E ask \in Ask : Send(w, ask)
StoreSpec == StoreInit /\ [][StoreNext]_storeVars

-----------------------------------------------------------------------------
\* Every session in the store or in an answer is a state of the lifecycle
\* contract (guided_session.py:101-129, the service's operations), however the
\* requests for it overlap: a write may undo another one, but never leaves half
\* of it behind.
LifecycleIsLawful ==
    /\ \A id \in SessionId :
          store[id] # None => /\ store[id] \in Session
                              /\ store[id].id = id
                              /\ Lawful(store[id])
    /\ \A w \in Slot :
          (calls[w] # Idle /\ calls[w].copy # None) =>
              calls[w].copy \in Session /\ Lawful(calls[w].copy)
=============================================================================
