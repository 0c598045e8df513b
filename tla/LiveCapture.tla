---------------------------- MODULE LiveCapture ----------------------------
(***************************************************************************)
(* LiveMidiCaptureService and the MIDI input port it drives: connecting,    *)
(* subscribing, messages delivered by callback, the device going away in    *)
(* the middle of a take, and stopping.  The input may be connected and      *)
(* heard by a listener independently of a capture being open.               *)
(***************************************************************************)
EXTENDS CaptureRecord

CONSTANTS LiveInputs, LiveSteps, MaxMessages, MaxTakes

ASSUME LiveConstants == LiveSteps \subseteq Int /\ MaxMessages \in Nat

VARIABLES
    connected,     \* the input port is connected to the device
    listening,     \* the service's listeners are registered with the port
    take,          \* the service's capture, or NoTake
    messages,      \* messages the device has delivered over the whole behaviour
    takes          \* captures started so far (bounds the model)

liveVars == <<connected, listening, take, messages, takes>>

NoTake == [state |-> "NONE"]
TakeOpen == take # NoTake /\ ~Closed(take)

LiveInit ==
    /\ connected = FALSE /\ listening = FALSE /\ take = NoTake
    /\ messages = 0 /\ takes = 0

\* An unknown device raises in connect, before anything changed; a record the
\* contract refuses raises when the port is already connected and subscribed.
LiveStart(sound) ==
    /\ takes < MaxTakes /\ takes' = takes + 1
    /\ ~TakeOpen
    /\ connected' = TRUE
    /\ listening' = TRUE
    /\ take' = IF sound THEN BuildRawCapture("live") ELSE take
    /\ UNCHANGED messages

Message(input, step) ==
    [seq |-> messages, type |-> input.type,
     at |-> (IF TakeOpen /\ take.events # <<>> THEN Last(take.events).at ELSE 0) + step,
     key |-> input.key, velocity |-> input.velocity, string |-> input.string]

\* A message is only delivered through a port that is connected and subscribed.
\* With no open capture, or a message out of order, the callback raises.
Accept(input, step) ==
    /\ messages < MaxMessages
    /\ connected /\ listening
    /\ messages' = messages + 1
    /\ IF TakeOpen /\ CanAppend(take, Message(input, step))
       THEN take' = AppendEvent(take, Message(input, step))
       ELSE UNCHANGED take
    /\ UNCHANGED <<connected, listening, takes>>

\* The record is closed first, and the listeners are gone before the port is
\* disconnected: the service does not hear the end of its own making.
LiveStop ==
    /\ TakeOpen
    /\ take' = CloseCapture(take, "COMPLETE", <<>>, <<>>)
    /\ listening' = FALSE
    /\ connected' = FALSE
    /\ UNCHANGED <<messages, takes>>

\* The device goes away: the port tells its disconnect listener, if it has one.
\* Without an open capture that listener raises, and stays registered.
Unplug ==
    /\ connected
    /\ connected' = FALSE
    /\ IF listening /\ TakeOpen
       THEN /\ take' = CloseCapture(take, "INTERRUPTED", <<>>, <<"disconnected">>)
            /\ listening' = FALSE
       ELSE UNCHANGED <<take, listening>>
    /\ UNCHANGED <<messages, takes>>

LiveNext ==
    \/ \E sound \in BOOLEAN : LiveStart(sound)
    \/ \E input \in LiveInputs, step \in LiveSteps : Accept(input, step)
    \/ LiveStop \/ Unplug

LiveSpec == LiveInit /\ [][LiveNext]_liveVars

-----------------------------------------------------------------------------

\* An open capture can always be reached: its port is connected and its
\* listeners are registered, so a message is taken and an unplug is noticed
\* (live_capture.py:40-97).
TakeIsConnected ==
    /\ TakeOpen => connected /\ listening
    /\ take # NoTake => CaptureContract(take)

=============================================================================
