------------------------- MODULE LocalPracticeProofs -------------------------
(***************************************************************************)
(* Proofs about LocalPractice, for any lessons, any messages and times, and *)
(* any number of attempts and of calls under way at once: what a stop is    *)
(* answered with is what was played.                                        *)
(*                                                                         *)
(* The first part is about what single calls keep of the messages they were *)
(* made with, whatever the others do; the second about a performance whose  *)
(* calls never met, of which nothing is lost.                               *)
(***************************************************************************)
EXTENDS LocalPractice, FiniteSetTheorems, NaturalsInduction, WellFoundedInduction, TLAPS

Places == [rep : Int, onset : Int]

EventIds(c) == {c.events[i].id : i \in DOMAIN c.events}

\* Events that are messages in s, unchanged and none of them twice.
Faithful(s, events) ==
    /\ events \in Seq(Messages)
    /\ \A i \in DOMAIN events :
          /\ events[i].id \in DOMAIN s
          /\ events[i] = Numbered(s[events[i].id].message, events[i].seq)
    /\ \A i, j \in DOMAIN events : events[i].id = events[j].id => i = j

Genuine(s, c) == c \in Captures /\ CaptureContract(c) /\ Faithful(s, c.events)

\* Each note has the repetition it was sent with, or the first, and its onset or none.
NotesFit(s, notes) ==
    \A i \in DOMAIN notes :
        /\ notes[i].on \in DOMAIN s
        /\ notes[i].rep \in {s[notes[i].on].place.rep, 0}
        /\ notes[i].onset \in {s[notes[i].on].place.onset, Absent}
RepsPlaced(s, notes) == \A i \in DOMAIN notes : notes[i].rep = s[notes[i].on].place.rep
AllPlaced(s, notes) ==
    /\ RepsPlaced(s, notes)
    /\ \A i \in DOMAIN notes : notes[i].onset = s[notes[i].on].place.onset

\* Notes are records with these fields.
AreNotes(notes) ==
    \A i \in DOMAIN notes :
        LET x == notes[i]
        IN x = [on |-> x.on, off |-> x.off, key |-> x.key, velocity |-> x.velocity,
                from |-> x.from, until |-> x.until, complete |-> x.complete,
                rep |-> x.rep, onset |-> x.onset]

\* A message that is not yet part of any copy of a capture.
Pending(c) == c.kind = "message" /\ c.pc \in {"number", "map", "onset", "append"}

EndStates == {"COMPLETE", "INTERRUPTED"}

\* A stop that has its answer, and clears the maps before it gives it.
Answering(s, c) ==
    /\ c = [kind |-> "stop", pc |-> c.pc, state |-> c.state, evidence |-> c.evidence]
    /\ c.pc \in {"reset", "resetOnsets", "done"}
    /\ NotesFit(s, c.evidence.notes) /\ Faithful(s, c.evidence.events)

CallShape(s, c) ==
    \/ c \in [kind : {"start"}, pc : {"open", "reset", "resetOnsets", "done"}]
    \/ c \in [kind : {"message"}, pc : {"number", "map", "onset", "append"},
              message : Messages, place : Places]
    \/ c \in [kind : {"message"}, pc : {"store"}, capture : {k \in Captures : Genuine(s, k)}]
    \/ c \in [kind : {"stop"}, pc : {"check"}, state : EndStates, capture : {None}]
    \/ c \in [kind : {"stop"}, pc : {"store", "pair"}, state : EndStates,
              capture : {k \in Captures : Genuine(s, k)}]
    \/ /\ c.kind = "stop" /\ c.pc \in {"place", "answer"}
       /\ NotesFit(s, c.paired.notes) /\ AreNotes(c.paired.notes)
    \/ Answering(s, c)
    \/ c \in [kind : {"begin"}, pc : {"name", "clear"}, lesson : Lessons]
    \/ c.kind = "evaluate" /\ c.pc \in {"judge", "record"}

\* A message on its way is the one that was sent, with its number once it has one.
Carries(s, n, c) ==
    Pending(c) =>
        /\ n[2] \in DOMAIN s /\ c.place = s[n[2]].place
        /\ c.pc = "number" => c.message = s[n[2]].message
        /\ c.pc # "number" => /\ c.message.seq \in Nat
                              /\ c.message = Numbered(s[n[2]].message, c.message.seq)

CallFits(s, n, c) ==
    n = <<c.kind, n[2]>> /\ n[2] \in Nat /\ CallShape(s, c) /\ Carries(s, n, c)

-----------------------------------------------------------------------------
(* The inductive invariant                                                  *)

SentFits ==
    /\ Cardinality(DOMAIN sent) \in Nat
    /\ DOMAIN sent = 1 .. Cardinality(DOMAIN sent)
    /\ \A i \in DOMAIN sent :
          /\ sent[i] \in [message : Messages, place : Places]
          /\ sent[i].message.id = i /\ sent[i].message.at <= now * Step

Pages == [active : BOOLEAN, starting : BOOLEAN, since : Int, lesson : Lessons \cup {None},
          takes : Nat, stops : Nat, loads : Nat, may : Budgets]

PageFits == now \in Nat /\ page \in Pages

CaptureFits == capture = None \/ Genuine(sent, capture)

PlacesFit ==
    /\ \A id \in DOMAIN repetitions :
          id \in DOMAIN sent /\ repetitions[id] = sent[id].place.rep
    /\ \A id \in DOMAIN onsets : id \in DOMAIN sent /\ onsets[id] = sent[id].place.onset

CallsFit == \A n \in DOMAIN calls : CallFits(sent, n, calls[n])

\* Who has read the capture has found one.
Begun ==
    \A n \in DOMAIN calls :
        (calls[n].kind \in {"message", "stop"} /\ calls[n].pc \notin {"number", "check"}) =>
            capture # None

\* A message that is still to be appended is in no capture, and in no copy of one.
Unheard ==
    \A n \in DOMAIN calls :
        Pending(calls[n]) =>
            /\ capture # None => n[2] \notin EventIds(capture)
            /\ \A m \in DOMAIN calls : calls[m].pc = "store" => n[2] \notin EventIds(calls[m].capture)

TruthInv == SentFits /\ PageFits /\ CaptureFits /\ PlacesFit /\ CallsFit /\ Begun /\ Unheard

-----------------------------------------------------------------------------
(* Events, captures and calls                                               *)

\* The event made of a message keeps what the message says, and is no bad one.
LEMMA NumberedFields ==
  ASSUME NEW m \in Messages, NEW seq \in Nat
  PROVE  /\ Numbered(m, seq) \in Messages /\ EventContract(Numbered(m, seq))
         /\ Numbered(m, seq).id = m.id /\ Numbered(m, seq).seq = seq
         /\ Numbered(m, seq).at = m.at
  <1> DEFINE type == IF Releases(m) THEN "NOTE_OFF" ELSE "NOTE_ON"
  <1>1. type \in NoteTypes
    BY DEF NoteTypes
  <1>2. Numbered(m, seq) = [m EXCEPT !.seq = seq, !.type = type]
    BY DEF Numbered
  <1> HIDE DEF type
  <1> DEFINE x == [m EXCEPT !.seq = seq, !.type = type]
  <1>a. seq \in Int
    OBVIOUS
  <1>b. x \in Messages
    BY <1>1, <1>a DEF Messages
  <1>c. x.id = m.id /\ x.seq = seq /\ x.at = m.at
    BY DEF Messages
  <1> HIDE DEF x
  <1>3. /\ Numbered(m, seq) \in Messages
        /\ Numbered(m, seq).id = m.id /\ Numbered(m, seq).seq = seq
        /\ Numbered(m, seq).at = m.at
    BY <1>2, <1>b, <1>c, Zenon DEF x
  <1>4. EventContract(Numbered(m, seq))
    <2> DEFINE e == Numbered(m, seq)
    <2>1. e \in Messages /\ e.seq \in Nat
      BY <1>3
    <2> HIDE DEF e
    <2>2. EventContract(e)
      BY <2>1 DEF EventContract, Messages, NoteTypes, MidiTypes, Absent
    <2> QED BY <2>2 DEF e
  <1> QED BY <1>3, <1>4

LEMMA AppendedEvents ==
  ASSUME NEW s, NEW c, Genuine(s, c), NEW m \in Messages, m.id \in DOMAIN s,
         m = Numbered(s[m.id].message, m.seq), m.id \notin EventIds(c), CanAppend(c, m)
  PROVE  /\ Genuine(s, AppendEvent(c, m))
         /\ EventIds(AppendEvent(c, m)) = EventIds(c) \cup {m.id}
         /\ AppendEvent(c, m).id = c.id /\ AppendEvent(c, m).state = c.state
         /\ AppendEvent(c, m).events = Append(c.events, m)
  <1> DEFINE events == Append(c.events, m)
             d == [c EXCEPT !.events = events]
  <1>1. /\ events \in Seq(Messages) /\ Len(events) = Len(c.events) + 1
        /\ DOMAIN events = 1 .. Len(c.events) + 1 /\ DOMAIN c.events = 1 .. Len(c.events)
        /\ Len(c.events) \in Nat
        /\ events[Len(c.events) + 1] = m
        /\ \A i \in 1 .. Len(c.events) : events[i] = c.events[i]
    BY DEF Genuine, Captures
  <1>2. AppendEvent(c, m) = d /\ CaptureContract(d)
    BY DEF AppendEvent, CanAppend
  <1>a. c \in Captures
    BY DEF Genuine
  <1> HIDE DEF events
  <1>3. /\ d \in Captures /\ d.events = events /\ d.id = c.id /\ d.state = c.state
    BY <1>a, <1>1 DEF Captures
  <1> HIDE DEF d
  <1>4. Faithful(s, events)
    <2>1. ASSUME NEW i \in DOMAIN events
          PROVE  /\ events[i].id \in DOMAIN s
                 /\ events[i] = Numbered(s[events[i].id].message, events[i].seq)
      <3>1. CASE i = Len(c.events) + 1
        BY <1>1, <3>1
      <3>2. CASE i # Len(c.events) + 1
        BY <1>1, <3>2 DEF Genuine, Faithful
      <3> QED BY <3>1, <3>2
    <2>2. ASSUME NEW i \in DOMAIN events, NEW j \in DOMAIN events, events[i].id = events[j].id
          PROVE  i = j
      <3>1. \A k \in 1 .. Len(c.events) : events[k].id # m.id
        BY <1>1 DEF EventIds
      <3>2. CASE i \in 1 .. Len(c.events) /\ j \in 1 .. Len(c.events)
        BY <1>1, <2>2, <3>2 DEF Genuine, Faithful
      <3>3. CASE i = Len(c.events) + 1 /\ j \in 1 .. Len(c.events)
        BY <1>1, <2>2, <3>1, <3>3
      <3>4. CASE i \in 1 .. Len(c.events) /\ j = Len(c.events) + 1
        BY <1>1, <2>2, <3>1, <3>4
      <3>5. \A k \in DOMAIN events : k \in 1 .. Len(c.events) \/ k = Len(c.events) + 1
        BY <1>1
      <3> QED BY <3>2, <3>3, <3>4, <3>5
    <2> QED BY <1>1, <2>1, <2>2 DEF Faithful
  <1>5. EventIds(d) = EventIds(c) \cup {m.id}
    <2>1. \A i \in 1 .. Len(c.events) + 1 : i \in 1 .. Len(c.events) \/ i = Len(c.events) + 1
      BY <1>1
    <2>2. \A i \in 1 .. Len(c.events) : i \in 1 .. Len(c.events) + 1
      BY <1>1
    <2>3. Len(c.events) + 1 \in 1 .. Len(c.events) + 1
      BY <1>1
    <2> QED BY <1>1, <1>3, <2>1, <2>2, <2>3 DEF EventIds
  <1> QED BY <1>2, <1>3, <1>4, <1>5 DEF Genuine, events

\* Closing changes how a capture ended, and nothing of what it holds.
LEMMA ClosedCapture ==
  ASSUME NEW s, NEW c, Genuine(s, c), NEW state \in EndStates
  PROVE  /\ Genuine(s, CloseCapture(c, state, <<>>, <<>>))
         /\ CloseCapture(c, state, <<>>, <<>>).id = c.id
         /\ CloseCapture(c, state, <<>>, <<>>).events = c.events
  <1> DEFINE yes == TRUE
             none == <<>>
             d == [c EXCEPT !.state = state, !.ended = yes, !.faults = none, !.warnings = none]
  <1>0. yes \in BOOLEAN /\ none \in {<<>>} /\ yes = TRUE
    OBVIOUS
  <1>1. c \in Captures /\ CaptureContract(c)
    BY DEF Genuine
  <1>2. CloseCapture(c, state, <<>>, <<>>) = d
    <2>1. c.faults = <<>> /\ c.warnings = <<>>
      BY <1>1 DEF Captures
    <2>2. <<>> \o <<>> = <<>>
      OBVIOUS
    <2> QED BY <2>1, <2>2 DEF CloseCapture
  <1> HIDE DEF yes, none
  <1>3. state \in CompletionStates /\ state \in TerminalStates
    BY DEF CompletionStates, TerminalStates, EndStates
  <1>4. /\ d \in Captures /\ d.id = c.id /\ d.events = c.events
        /\ d.state = state /\ d.ended = yes
    BY <1>0, <1>1, <1>3 DEF Captures
  <1> HIDE DEF d
  <1>5. CaptureContract(d)
    BY <1>0, <1>1, <1>3, <1>4 DEF CaptureContract
  <1> QED BY <1>2, <1>4, <1>5 DEF Genuine

LEMMA NewCapture ==
  ASSUME NEW s, NEW id \in Nat
  PROVE  /\ Genuine(s, BuildRawCapture(id)) /\ EventIds(BuildRawCapture(id)) = {}
         /\ BuildRawCapture(id).id = id /\ BuildRawCapture(id).events = <<>>
         /\ BuildRawCapture(id).state = "IN_PROGRESS"
  <1> DEFINE no == FALSE
             d == [id |-> id, state |-> "IN_PROGRESS", ended |-> no,
                   events |-> <<>>, faults |-> <<>>, warnings |-> <<>>]
  <1>1. BuildRawCapture(id) = d /\ no \in BOOLEAN /\ no = FALSE
    BY DEF BuildRawCapture
  <1> HIDE DEF no
  <1>2. <<>> \in Seq(Messages) /\ "IN_PROGRESS" \in CompletionStates \ TerminalStates
    BY DEF CompletionStates, TerminalStates
  <1>3. /\ d \in Captures /\ d.id = id /\ d.state = "IN_PROGRESS" /\ d.ended = no
        /\ d.events = <<>>
    BY <1>1, <1>2 DEF Captures
  <1> HIDE DEF d
  <1>4. Len(<<>>) = 0 /\ DOMAIN <<>> = {} /\ 1 .. 0 - 1 = {}
    OBVIOUS
  <1>5. CaptureContract(d) /\ Faithful(s, d.events) /\ EventIds(d) = {}
    BY <1>1, <1>2, <1>3, <1>4 DEF CaptureContract, Faithful, EventIds
  <1> QED BY <1>1, <1>3, <1>5 DEF Genuine

\* Nothing that was true of what had been sent is less so when more is sent.
Extends(s, t) == DOMAIN s \subseteq DOMAIN t /\ \A i \in DOMAIN s : t[i] = s[i]

LEMMA FaithfulStays ==
  ASSUME NEW s, NEW t, Extends(s, t)
  PROVE  /\ \A events : Faithful(s, events) => Faithful(t, events)
         /\ \A c : Genuine(s, c) => Genuine(t, c)
         /\ \A notes : NotesFit(s, notes) => NotesFit(t, notes)
         /\ \A notes : NotesFit(s, notes) /\ AllPlaced(s, notes) => AllPlaced(t, notes)
  <1>1. \A events : Faithful(s, events) => Faithful(t, events)
    BY Zenon DEF Extends, Faithful
  <1>2. \A c : Genuine(s, c) => Genuine(t, c)
    BY <1>1, Zenon DEF Genuine
  <1>3. \A notes : NotesFit(s, notes) => NotesFit(t, notes)
    BY Zenon DEF Extends, NotesFit
  <1>4. \A notes : NotesFit(s, notes) /\ AllPlaced(s, notes) => AllPlaced(t, notes)
    BY Zenon DEF Extends, NotesFit, RepsPlaced, AllPlaced
  <1> QED BY <1>1, <1>2, <1>3, <1>4

LEMMA CallStays ==
  ASSUME NEW s, NEW t, Extends(s, t), NEW n, NEW c, CallFits(s, n, c)
  PROVE  CallFits(t, n, c)
  <1>1. {k \in Captures : Genuine(s, k)} \subseteq {k \in Captures : Genuine(t, k)}
    BY FaithfulStays
  <1>2. CallShape(t, c)
    <2>1. CASE c \in [kind : {"message"}, pc : {"store"}, capture : {k \in Captures : Genuine(s, k)}]
      BY <1>1, <2>1 DEF CallShape
    <2>2. CASE c \in [kind : {"stop"}, pc : {"store", "pair"}, state : EndStates,
                      capture : {k \in Captures : Genuine(s, k)}]
      BY <1>1, <2>2 DEF CallShape
    <2>3. CASE /\ c.kind = "stop" /\ c.pc \in {"place", "answer"}
               /\ NotesFit(s, c.paired.notes) /\ AreNotes(c.paired.notes)
      BY <2>3, FaithfulStays DEF CallShape
    <2>4. CASE Answering(s, c)
      BY <2>4, FaithfulStays DEF CallShape, Answering
    <2> QED BY <2>1, <2>2, <2>3, <2>4, Zenon DEF CallFits, CallShape
  <1>3. Carries(t, n, c)
    BY Zenon DEF CallFits, Carries, Extends
  <1> QED BY <1>2, <1>3 DEF CallFits

-----------------------------------------------------------------------------
(* Pairing                                                                  *)

\* The numbers are the least set with zero and the successor of each.
LEMMA SetInduction ==
  ASSUME NEW S, 0 \in S, \A n \in Nat : n \in S => n + 1 \in S
  PROVE  Nat \subseteq S
  <1> DEFINE Below == {p \in Nat \X Nat : p[1] < p[2]}
             T == {n \in Nat : n \notin S}
  <1>1. IsWellFoundedOn(Below, Nat)
    <2>1. Below = OpToRel(<, Nat)
      BY Zenon DEF OpToRel
    <2> HIDE DEF Below
    <2> QED BY <2>1, NatLessThanWellFounded, Zenon
  <1>2. \A x, y \in Nat : y < x => <<y, x>> \in Below
    OBVIOUS
  <1> HIDE DEF Below
  <1>3. SUFFICES ASSUME T # {} PROVE FALSE
    OBVIOUS
  <1>4. PICK x \in T : \A y \in T : ~ (<<y, x>> \in Below)
    BY <1>1, <1>3, WFMin, T \subseteq Nat, Zenon
  <1>5. x \in Nat /\ x # 0
    OBVIOUS
  <1>6. x - 1 \in Nat /\ x - 1 < x
    BY <1>5
  <1>7. x - 1 \in S
    BY <1>2, <1>4, <1>5, <1>6
  <1> QED BY <1>5, <1>6, <1>7

\* Of subsets of a finite set, one has none of the others inside it.
LEMMA SmallestSubset ==
  ASSUME NEW R, IsFiniteSet(R), NEW F, F \subseteq SUBSET R, F # {}
  PROVE  \E S \in F : \A T \in F : T \subseteq S => T = S
  <1>1. FiniteSubsetsOf(R) = SUBSET R
    BY FS_FiniteSubsetsOfFinite
  <1>2. IsWellFoundedOn(StrictSubsetOrdering(R), SUBSET R)
    BY <1>1, FS_StrictSubsetOrderingWellFounded
  <1>3. PICK S \in F : \A T \in F : ~ (<<T, S>> \in StrictSubsetOrdering(R))
    BY <1>2, WFMin, Zenon
  <1>4. ASSUME NEW T \in F, T \subseteq S, T # S PROVE FALSE
    <2>1. <<T, S>> \in StrictSubsetOrdering(R)
      BY <1>4 DEF StrictSubsetOrdering
    <2> QED BY <1>3, <2>1
  <1> QED BY <1>4

\* A set of numbers has a least one.
LEMMA LeastNumber ==
  ASSUME NEW S, S \subseteq Nat, S # {}
  PROVE  Min(S) \in S
  <1> DEFINE Below == {p \in Nat \X Nat : p[1] < p[2]}
  <1>1. IsWellFoundedOn(Below, Nat)
    <2>1. Below = OpToRel(<, Nat)
      BY Zenon DEF OpToRel
    <2> HIDE DEF Below
    <2> QED BY <2>1, NatLessThanWellFounded, Zenon
  <1>2. \A x, y \in Nat : y < x => <<y, x>> \in Below
    OBVIOUS
  <1> HIDE DEF Below
  <1>3. PICK x \in S : \A y \in S : ~ (<<y, x>> \in Below)
    BY <1>1, WFMin, Zenon
  <1>4. ASSUME NEW y \in S PROVE x <= y
    <2>1. x \in Nat /\ y \in Nat
      BY <1>3
    <2>2. ~ (y < x)
      BY <1>2, <1>3, <2>1
    <2> QED BY <2>1, <2>2
  <1> QED BY <1>4 DEF Min

\* Notes that are struck at times that can be told.
Struck(R) == IsFiniteSet(R) /\ \A p \in R : p[1].seq \in Int

LEMMA StruckLast ==
  ASSUME NEW R, Struck(R), NEW S, S \subseteq R, S # {}
  PROVE  \E x \in S : \A y \in S : y[1].seq <= x[1].seq
  <1> DEFINE Latest(T) == \E x \in T : \A y \in T : y[1].seq <= x[1].seq
             F == {T \in SUBSET R : T # {} /\ ~Latest(T)}
  <1>a. S \in SUBSET R
    OBVIOUS
  <1>1. SUFFICES ASSUME F # {} PROVE FALSE
    <2>1. S \notin F
      BY Zenon
    <2>2. Latest(S)
      BY <1>a, <2>1, Zenon
    <2> QED BY <2>2
  <1>2. PICK T \in F : \A U \in F : U \subseteq T => U = T
    <2>1. F \subseteq SUBSET R /\ F # {} /\ IsFiniteSet(R)
      BY <1>1, Zenon DEF Struck
    <2> HIDE DEF F
    <2> QED BY <2>1, SmallestSubset
  <1>3. T \subseteq R /\ T # {} /\ ~Latest(T)
    OBVIOUS
  <1>4. PICK z \in T : TRUE
    BY <1>3
  <1> DEFINE U == T \ {z}
  <1>5. U \notin F /\ U \subseteq R
    BY <1>2, <1>3, <1>4, Zenon
  <1>b. \A y \in T : y[1].seq \in Int
    BY <1>3 DEF Struck
  <1>6. CASE U = {}
    <2>1. \A y \in T : y = z
      BY <1>6
    <2>2. z[1].seq <= z[1].seq
      BY <1>b, <1>4
    <2> QED BY <1>3, <1>4, <2>1, <2>2, Zenon
  <1>7. CASE U # {}
    <2>1. Latest(U)
      BY <1>5, <1>7, Zenon
    <2>2. PICK x \in U : \A y \in U : y[1].seq <= x[1].seq
      BY <2>1
    <2>3. CASE z[1].seq <= x[1].seq
      <3>1. \A y \in T : y[1].seq <= x[1].seq
        BY <2>2, <2>3
      <3> QED BY <1>3, <2>2, <3>1, Zenon
    <2>4. CASE x[1].seq <= z[1].seq
      <3>1. \A y \in T : y[1].seq <= z[1].seq
        <4> TAKE y \in T
        <4>1. CASE y = z
          BY <1>b, <4>1
        <4>2. CASE y # z
          <5>1. y \in U
            BY <4>2
          <5>2. y[1].seq <= x[1].seq
            BY <2>2, <5>1
          <5> QED BY <1>b, <2>2, <2>4, <5>2
        <4> QED BY <4>1, <4>2
      <3> QED BY <1>3, <1>4, <3>1, Zenon
    <2> QED BY <1>b, <1>4, <2>2, <2>3, <2>4
  <1> QED BY <1>6, <1>7

\* They can be listed as they were struck, and AsStruck lists them.
LEMMA ListedAsStruck ==
  ASSUME NEW R, Struck(R)
  PROVE  AsStruck(R) \in [1 .. Cardinality(R) -> R]
  <1> DEFINE Sorted(list) == \A i, j \in DOMAIN list :
                 i < j => list[i] # list[j] /\ list[i][1].seq <= list[j][1].seq
             Listed(T) == \E list \in [1 .. Cardinality(T) -> T] : Sorted(list)
             F == {T \in SUBSET R : ~Listed(T)}
  <1>0. \A T \in SUBSET R : IsFiniteSet(T) /\ Cardinality(T) \in Nat
    BY FS_Subset, FS_CardinalityType DEF Struck
  <1>b. \A y \in R : y[1].seq \in Int
    BY DEF Struck
  <1>1. SUFFICES ASSUME F # {} PROVE FALSE
    <2>1. R \notin F /\ R \in SUBSET R
      BY Zenon
    <2>2. Listed(R)
      BY <2>1, Zenon
    <2> QED BY <2>2, Zenon DEF AsStruck
  <1>2. PICK T \in F : \A U \in F : U \subseteq T => U = T
    <2>1. F \subseteq SUBSET R /\ F # {} /\ IsFiniteSet(R)
      BY <1>1, Zenon DEF Struck
    <2> HIDE DEF F
    <2> QED BY <2>1, SmallestSubset
  <1>3. T \subseteq R /\ ~Listed(T)
    OBVIOUS
  <1>4. CASE T = {}
    <2>1. Cardinality(T) = 0
      BY <1>4, FS_EmptySet
    <2> DEFINE none == [i \in 1 .. 0 |-> i]
    <2>2. none \in [1 .. 0 -> T] /\ DOMAIN none = {}
      OBVIOUS
    <2> HIDE DEF none
    <2> QED BY <1>3, <2>1, <2>2
  <1>5. CASE T # {}
    <2>1. PICK z \in T : \A y \in T : y[1].seq <= z[1].seq
      BY <1>3, <1>5, StruckLast
    <2> DEFINE U == T \ {z}
               n == Cardinality(U)
    <2>2. U \subseteq R /\ U # T /\ U \subseteq T
      BY <1>3, <2>1
    <2>3. Listed(U)
      BY <1>2, <2>2, Zenon
    <2>4. n \in Nat /\ Cardinality(T) = n + 1
      <3>1. IsFiniteSet(T) /\ Cardinality(T) \in Nat
        BY <1>0, <1>3
      <3>2. Cardinality(U) = Cardinality(T) - 1
        BY <2>1, <3>1, FS_RemoveElement
      <3>3. Cardinality(U) \in Nat
        BY <1>0, <2>2
      <3> QED BY <3>1, <3>2, <3>3
    <2> HIDE DEF n
    <2>5. PICK list \in [1 .. n -> U] : Sorted(list)
      BY <2>3 DEF n
    <2> DEFINE more == [i \in 1 .. n + 1 |-> IF i = n + 1 THEN z ELSE list[i]]
    <2>6. more \in [1 .. n + 1 -> T]
      BY <2>4, <2>5
    <2>7. ASSUME NEW i \in 1 .. n + 1, NEW j \in 1 .. n + 1, i < j
          PROVE  more[i] # more[j] /\ more[i][1].seq <= more[j][1].seq
      <3>1. i \in 1 .. n /\ more[i] = list[i] /\ list[i] \in T /\ list[i] # z
        BY <2>4, <2>5, <2>7
      <3>2. CASE j = n + 1
        <4>1. more[j] = z
          BY <3>2
        <4> QED BY <2>1, <3>1, <4>1
      <3>3. CASE j # n + 1
        <4>1. j \in 1 .. n /\ more[j] = list[j]
          BY <2>4, <3>3
        <4> QED BY <2>5, <2>7, <3>1, <4>1
      <3> QED BY <3>2, <3>3
    <2> HIDE DEF more
    <2> QED BY <1>3, <2>4, <2>6, <2>7
  <1> QED BY <1>4, <1>5

\* What is heard of events are these events, and so is what waits.
Heard(E, s) ==
    /\ s.waiting \in Seq(E) /\ s.pairs \subseteq E \X E /\ IsFiniteSet(s.pairs)
    /\ s \in [waiting : Seq(E), pairs : SUBSET (E \X E), unmatched : Seq(E)]

LEMMA HearStep ==
  ASSUME NEW E, NEW s, Heard(E, s), NEW e \in E
  PROVE  Heard(E, Hear(s, e))
  <1>1. CASE e.type \notin NoteTypes
    BY <1>1 DEF Hear
  <1>2. CASE e.type \in NoteTypes /\ ~Releases(e)
    <2> DEFINE w == Append(s.waiting, e)
    <2>1. Hear(s, e) = [s EXCEPT !.waiting = w]
      BY <1>2 DEF Hear
    <2>2. w \in Seq(E)
      BY DEF Heard
    <2> HIDE DEF w
    <2> QED BY <2>1, <2>2 DEF Heard
  <1>3. CASE /\ e.type \in NoteTypes /\ Releases(e)
             /\ \A j \in DOMAIN s.waiting : s.waiting[j].key # e.key
    <2> DEFINE u == Append(s.unmatched, e)
    <2>1. Hear(s, e) = [s EXCEPT !.unmatched = u]
      BY <1>3 DEF Hear
    <2>2. u \in Seq(E)
      BY DEF Heard
    <2> HIDE DEF u
    <2> QED BY <2>1, <2>2 DEF Heard
  <1>4. CASE /\ e.type \in NoteTypes /\ Releases(e)
             /\ \E j \in DOMAIN s.waiting : s.waiting[j].key = e.key
    <2> DEFINE J == {j \in DOMAIN s.waiting : s.waiting[j].key = e.key}
               k == Released(s.waiting, e)
               w == RemoveAt(s.waiting, k)
               p == <<s.waiting[k], e>>
               P == s.pairs \cup {p}
    <2>1. Hear(s, e) = [s EXCEPT !.waiting = w, !.pairs = P]
      BY <1>4 DEF Hear
    <2>2. s.waiting \in Seq(E) /\ DOMAIN s.waiting = 1 .. Len(s.waiting) /\ Len(s.waiting) \in Nat
      BY DEF Heard
    <2>3. k \in J
      <3>1. J \subseteq Nat /\ J # {}
        BY <1>4, <2>2
      <3>2. k = Min(J)
        BY Zenon DEF Released
      <3> HIDE DEF J, k
      <3> QED BY <3>1, <3>2, LeastNumber
    <2>4. k \in 1 .. Len(s.waiting)
      BY <2>2, <2>3
    <2> HIDE DEF k, J
    <2>5. w \in Seq(E)
      <3>1. SubSeq(s.waiting, 1, k - 1) \in Seq(E)
        BY <2>2, <2>4
      <3>2. SubSeq(s.waiting, k + 1, Len(s.waiting)) \in Seq(E)
        BY <2>2, <2>4
      <3> QED BY <3>1, <3>2 DEF RemoveAt
    <2>6. p \in E \X E
      BY <2>2, <2>4
    <2> HIDE DEF w, p
    <2>7. P \in SUBSET (E \X E) /\ IsFiniteSet(P)
      BY <2>6, FS_AddElement DEF Heard
    <2> HIDE DEF P
    <2>8. [s EXCEPT !.waiting = w, !.pairs = P].pairs = P
      BY DEF Heard
    <2> QED BY <2>1, <2>5, <2>7, <2>8 DEF Heard
  <1> QED BY <1>1, <1>2, <1>3, <1>4

\* One event after the other can be heard, however many there are.
LEMMA HearingExists ==
  ASSUME NEW events, Len(events) \in Nat
  PROVE  \E g : g = [k \in 0 .. Len(events) |->
                        IF k = 0 THEN Unpaired ELSE Hear(g[k - 1], events[k])]
  <1> DEFINE Hears(g, n) == g = [k \in 0 .. n |->
                                    IF k = 0 THEN Unpaired ELSE Hear(g[k - 1], events[k])]
             S == {n \in Nat : \E g : Hears(g, n)}
  <1>1. 0 \in S
    <2> DEFINE g == [k \in 0 .. 0 |-> Unpaired]
    <2>1. Hears(g, 0)
      <3>1. \A k \in 0 .. 0 : k = 0
        OBVIOUS
      <3> QED BY <3>1
    <2> QED BY <2>1, Zenon
  <1>2. ASSUME NEW n \in Nat, n \in S PROVE n + 1 \in S
    <2>1. PICK g : Hears(g, n)
      BY <1>2, Zenon
    <2> DEFINE h == [k \in 0 .. n + 1 |-> IF k = n + 1 THEN Hear(g[n], events[n + 1]) ELSE g[k]]
               x == [k \in 0 .. n + 1 |-> IF k = 0 THEN Unpaired ELSE Hear(h[k - 1], events[k])]
    <2>2. ASSUME NEW k \in 0 .. n + 1
          PROVE  h[k] = IF k = 0 THEN Unpaired ELSE Hear(h[k - 1], events[k])
      <3>1. CASE k = n + 1
        <4>1. n \in 0 .. n + 1 /\ n # n + 1 /\ (n + 1) - 1 = n /\ n + 1 # 0
              /\ n + 1 \in 0 .. n + 1
          OBVIOUS
        <4>2. h[n + 1] = Hear(g[n], events[n + 1]) /\ h[n] = g[n]
          BY <4>1, Zenon
        <4> HIDE DEF h
        <4> QED BY <3>1, <4>1, <4>2, Zenon
      <3>2. CASE k = 0
        <4>1. k # n + 1 /\ 0 \in 0 .. n
          BY <3>2
        <4>2. h[k] = g[k] /\ g[0] = Unpaired
          BY <2>1, <4>1, Zenon
        <4> QED BY <3>2, <4>2, Zenon
      <3>3. CASE k # n + 1 /\ k # 0
        <4>1. k \in 0 .. n /\ k - 1 \in 0 .. n + 1 /\ k - 1 # n + 1
          BY <3>3
        <4>2. h[k] = g[k] /\ h[k - 1] = g[k - 1]
          BY <3>3, <4>1, Zenon
        <4>3. g[k] = Hear(g[k - 1], events[k])
          BY <2>1, <3>3, <4>1, Zenon
        <4> HIDE DEF h
        <4> QED BY <3>3, <4>2, <4>3, Zenon
      <3> QED BY <3>1, <3>2, <3>3
    <2>3. h = x
      <3>1. h = [k \in 0 .. n + 1 |-> h[k]]
        OBVIOUS
      <3> HIDE DEF h
      <3> QED BY <2>2, <3>1, Zenon
    <2>4. Hears(h, n + 1)
      BY <2>3, Zenon
    <2> HIDE DEF Hears, h
    <2> QED BY <2>4
  <1> HIDE DEF Hears
  <1>3. Nat \subseteq S
    BY <1>1, <1>2, SetInduction
  <1>4. \E g : Hears(g, Len(events))
    BY <1>3
  <1> QED BY <1>4 DEF Hears

LEMMA HearAllTypes ==
  ASSUME NEW E, NEW events \in Seq(E)
  PROVE  Heard(E, HearAll(events))
  <1> DEFINE n == Len(events)
             Hears(g) == [k \in 0 .. n |->
                             IF k = 0 THEN Unpaired ELSE Hear(g[k - 1], events[k])]
             after == CHOOSE g : g = Hears(g)
             S == {k \in Nat : k \in 0 .. n => Heard(E, after[k])}
  <1>0. n \in Nat /\ \A k \in 1 .. n : events[k] \in E
    OBVIOUS
  <1>1. HearAll(events) = after[n]
    BY Zenon DEF HearAll
  <1>2. after = Hears(after)
    <2>1. \E g : g = Hears(g)
      BY <1>0, HearingExists
    <2> HIDE DEF Hears
    <2> QED BY <2>1, Zenon
  <1> HIDE DEF after, n
  <1>3. \A k \in 0 .. n : after[k] = IF k = 0 THEN Unpaired ELSE Hear(after[k - 1], events[k])
    BY <1>2
  <1>4. 0 \in S
    <2>1. Heard(E, Unpaired)
      <3>1. IsFiniteSet({})
        BY FS_EmptySet
      <3>2. <<>> \in Seq(E) /\ {} \in SUBSET (E \X E)
        OBVIOUS
      <3> QED BY <3>1, <3>2 DEF Heard, Unpaired
    <2>2. 0 \in 0 .. n
      BY <1>0
    <2> QED BY <1>3, <2>1, <2>2
  <1>5. ASSUME NEW k \in Nat, k \in S PROVE k + 1 \in S
    <2>1. SUFFICES ASSUME k + 1 \in 0 .. n PROVE Heard(E, after[k + 1])
      OBVIOUS
    <2>2. k \in 0 .. n /\ k + 1 \in 1 .. n /\ k + 1 # 0 /\ (k + 1) - 1 = k
      BY <1>0, <2>1
    <2>3. after[k + 1] = Hear(after[k], events[k + 1])
      BY <1>3, <2>1, <2>2, Zenon
    <2>4. Heard(E, after[k]) /\ events[k + 1] \in E
      BY <1>0, <1>5, <2>2
    <2> QED BY <2>3, <2>4, HearStep
  <1> HIDE DEF S
  <1>6. Nat \subseteq S
    BY <1>4, <1>5, SetInduction
  <1>7. n \in 0 .. n
    BY <1>0
  <1> QED BY <1>0, <1>1, <1>6, <1>7 DEF S

\* A note is one that was struck, in the repetition its event was given.
LEMMA PairedNotes ==
  ASSUME NEW s, NEW c, Genuine(s, c), NEW placeOf,
         \A id \in EventIds(c) : placeOf[id].rep \in {s[id].place.rep, 0}
                                 /\ placeOf[id].onset = Absent
  PROVE  /\ NotesFit(s, PairMidiNotes(c, placeOf).notes)
         /\ AreNotes(PairMidiNotes(c, placeOf).notes)
         /\ \A i \in DOMAIN PairMidiNotes(c, placeOf).notes :
               PairMidiNotes(c, placeOf).notes[i].on \in EventIds(c)
         /\ (\A id \in EventIds(c) : placeOf[id].rep = s[id].place.rep) =>
               RepsPlaced(s, PairMidiNotes(c, placeOf).notes)
  <1> DEFINE E == {c.events[i] : i \in DOMAIN c.events}
             heard == HearAll(c.events)
             open == {<<heard.waiting[j], Nothing>> : j \in DOMAIN heard.waiting}
             R == heard.pairs \cup open
             struck == AsStruck(R)
             notes == [i \in DOMAIN struck |->
                          BuildNote(struck[i][1], struck[i][2], placeOf[struck[i][1].id])]
  <1>1. PairMidiNotes(c, placeOf).notes = notes
    BY DEF PairMidiNotes
  <1>2. c.events \in Seq(E) /\ \A e \in E : e.seq \in Int /\ e.id \in DOMAIN s /\ e.id \in EventIds(c)
    <2>1. c.events \in Seq(Messages)
      BY DEF Genuine, Captures
    <2>a. \A m \in Messages : m.seq \in Int
      BY DEF Messages
    <2>b. \A i \in DOMAIN c.events : c.events[i] \in Messages
      BY <2>1
    <2>2. \A i \in DOMAIN c.events : c.events[i].seq \in Int
      BY <2>a, <2>b
    <2>3. c.events \in Seq(E)
      BY <2>1
    <2> QED BY <2>2, <2>3 DEF Genuine, Faithful, EventIds
  <1> HIDE DEF E
  <1>3. Heard(E, heard)
    BY <1>2, HearAllTypes
  <1> HIDE DEF heard
  <1>4. heard.waiting \in Seq(E) /\ Len(heard.waiting) \in Nat
        /\ DOMAIN heard.waiting = 1 .. Len(heard.waiting)
        /\ heard.pairs \subseteq E \X E /\ IsFiniteSet(heard.pairs)
    BY <1>3 DEF Heard
  <1>5. IsFiniteSet(open)
    <2> DEFINE f == [j \in 1 .. Len(heard.waiting) |-> <<heard.waiting[j], Nothing>>]
    <2>1. f \in Surjection(1 .. Len(heard.waiting), open)
      BY <1>4 DEF Surjection
    <2>2. ExistsSurjection(1 .. Len(heard.waiting), open)
      BY <2>1 DEF ExistsSurjection
    <2> HIDE DEF open
    <2> QED BY <1>4, <2>2, FS_NatSurjection
  <1>6. \A p \in R : p[1] \in E
    BY <1>4
  <1>7. Struck(R)
    <2>1. IsFiniteSet(R)
      BY <1>4, <1>5, FS_Union
    <2> HIDE DEF R
    <2> QED BY <1>2, <1>6, <2>1 DEF Struck
  <1> HIDE DEF R
  <1>8. struck \in [1 .. Cardinality(R) -> R]
    BY <1>7, ListedAsStruck
  <1> HIDE DEF struck
  <1>9. ASSUME NEW i \in DOMAIN notes
        PROVE  /\ notes[i].on \in DOMAIN s /\ notes[i].on \in EventIds(c)
               /\ notes[i].rep = placeOf[notes[i].on].rep
               /\ notes[i].onset = placeOf[notes[i].on].onset
               /\ \E a, b, p : notes[i] = BuildNote(a, b, p)
    <2> DEFINE e == struck[i][1]
    <2>1. e \in E
      BY <1>6, <1>8
    <2>2. notes[i] = BuildNote(e, struck[i][2], placeOf[e.id])
      OBVIOUS
    <2> HIDE DEF notes
    <2>3. /\ notes[i].on = e.id /\ notes[i].rep = placeOf[e.id].rep
          /\ notes[i].onset = placeOf[e.id].onset
      BY <2>2 DEF BuildNote
    <2>4. e.id \in DOMAIN s /\ e.id \in EventIds(c)
      BY <1>2, <2>1
    <2> QED BY <2>2, <2>3, <2>4
  <1> HIDE DEF notes
  <1>10. AreNotes(notes)
    <2> SUFFICES ASSUME NEW i \in DOMAIN notes, NEW x, x = notes[i]
                 PROVE  x = [on |-> x.on, off |-> x.off, key |-> x.key, velocity |-> x.velocity,
                             from |-> x.from, until |-> x.until, complete |-> x.complete,
                             rep |-> x.rep, onset |-> x.onset]
      BY Zenon DEF AreNotes
    <2>1. PICK a, b, p : x = BuildNote(a, b, p)
      BY <1>9
    <2> QED BY <2>1 DEF BuildNote
  <1> QED BY <1>1, <1>9, <1>10 DEF NotesFit, RepsPlaced

-----------------------------------------------------------------------------
(* What single calls keep                                                   *)

\* Of the calls that are left, no other than n is new or changed.
Only(n) == \A m \in DOMAIN calls' \ {n} : m \in DOMAIN calls /\ calls'[m] = calls[m]

\* A call that is under way in this way has found a capture.
HasRead(c) == c.kind \in {"message", "stop"} /\ c.pc \notin {"number", "check"}

LEMMA Scaled ==
  ASSUME NEW a \in Nat, NEW b \in Nat, a <= b, NEW k \in Nat
  PROVE  a * k \in Nat /\ b * k \in Nat /\ a * k <= b * k
  <1>1. PICK d \in Nat : b = a + d
    BY b - a \in Nat, b = a + (b - a)
  <1>2. a * k \in Nat /\ d * k \in Nat
    OBVIOUS
  <1>3. b * k = a * k + d * k
    BY <1>1
  <1> QED BY <1>2, <1>3

LEMMA SentLater ==
  ASSUME SentFits, now \in Nat, now' \in Nat, now <= now', sent' = sent
  PROVE  SentFits'
  <1>1. now * Step \in Nat /\ now' * Step \in Nat /\ now * Step <= now' * Step
    BY Scaled, PracticeConstants
  <1>2. \A i \in DOMAIN sent : sent[i].message.at <= now' * Step
    <2> TAKE i \in DOMAIN sent
    <2>1. sent[i].message.at \in Nat
      BY DEF SentFits, Messages
    <2>3. sent[i].message.at <= now * Step
      BY DEF SentFits
    <2> QED BY <1>1, <2>1, <2>3
  <1> QED BY <1>2 DEF SentFits

LEMMA CallsFrame ==
  ASSUME CallsFit, Extends(sent, sent'), NEW n, Only(n),
         n \in DOMAIN calls' => CallFits(sent', n, calls'[n])
  PROVE  CallsFit'
  <1> SUFFICES ASSUME NEW m \in DOMAIN calls' PROVE CallFits(sent', m, calls'[m])
    BY Zenon DEF CallsFit
  <1>1. CASE m = n
    BY <1>1
  <1>2. CASE m # n
    <2>1. m \in DOMAIN calls /\ calls'[m] = calls[m]
      BY <1>2 DEF Only
    <2>2. CallFits(sent, m, calls[m])
      BY <2>1 DEF CallsFit
    <2>3. CallFits(sent', m, calls[m])
      BY <2>2, CallStays
    <2> QED BY <2>1, <2>3
  <1> QED BY <1>1, <1>2

LEMMA BegunFrame ==
  ASSUME Begun, capture # None => capture' # None, NEW n, Only(n),
         (n \in DOMAIN calls' /\ HasRead(calls'[n])) => capture' # None
  PROVE  Begun'
  <1> SUFFICES ASSUME NEW m \in DOMAIN calls', HasRead(calls'[m]) PROVE capture' # None
    BY Zenon DEF Begun, HasRead
  <1>1. CASE m = n
    BY <1>1
  <1>2. CASE m # n
    <2>1. m \in DOMAIN calls /\ HasRead(calls[m])
      BY <1>2, Zenon DEF Only
    <2> QED BY <2>1, Zenon DEF Begun, HasRead
  <1> QED BY <1>1, <1>2

\* A step that leaves the capture alone and makes no copy of it.
LEMMA TruthFrame ==
  ASSUME TruthInv, capture' = capture, sent' = sent, PageFits', now <= now', PlacesFit',
         NEW n, Only(n),
         n \in DOMAIN calls' =>
            /\ CallFits(sent, n, calls'[n])
            /\ calls'[n].pc # "store"
            /\ Pending(calls'[n]) => n \in DOMAIN calls /\ Pending(calls[n])
            /\ HasRead(calls'[n]) => capture # None
  PROVE  TruthInv'
  <1>1. Extends(sent, sent')
    BY DEF Extends
  <1>2. SentFits'
    BY SentLater DEF TruthInv, PageFits
  <1>3. CaptureFits'
    BY DEF TruthInv, CaptureFits
  <1>4. CallsFit'
    BY <1>1, CallsFrame DEF TruthInv
  <1>5. Begun'
    BY BegunFrame DEF TruthInv
  <1>6. Unheard'
    <2> SUFFICES ASSUME NEW m \in DOMAIN calls', Pending(calls'[m])
                 PROVE  /\ capture # None => m[2] \notin EventIds(capture)
                        /\ \A k \in DOMAIN calls' :
                              calls'[k].pc = "store" => m[2] \notin EventIds(calls'[k].capture)
      BY Zenon DEF Unheard
    <2>1. m \in DOMAIN calls /\ Pending(calls[m])
      BY Zenon DEF Only
    <2>2. ASSUME NEW k \in DOMAIN calls', calls'[k].pc = "store"
          PROVE  k \in DOMAIN calls /\ calls'[k] = calls[k]
      BY <2>2, Zenon DEF Only
    <2> QED BY <2>1, <2>2, Zenon DEF TruthInv, Unheard
  <1> QED BY <1>2, <1>3, <1>4, <1>5, <1>6 DEF TruthInv

\* What comes of calls when one of them moves on, ends or is made.
LEMMA CallMoves ==
  ASSUME NEW n
  PROVE  /\ Ends(n) => Only(n) /\ n \notin DOMAIN calls' /\ DOMAIN calls' = DOMAIN calls \ {n}
         /\ \A c : calls' = [calls EXCEPT ![n] = c] =>
               /\ Only(n) /\ DOMAIN calls' = DOMAIN calls
               /\ n \in DOMAIN calls => calls'[n] = c
         /\ \A c : calls' = Put(calls, n, c) =>
               Only(n) /\ DOMAIN calls' = DOMAIN calls \cup {n} /\ calls'[n] = c
  <1>1. Ends(n) => Only(n) /\ n \notin DOMAIN calls' /\ DOMAIN calls' = DOMAIN calls \ {n}
    BY DEF Ends, Only
  <1>2. ASSUME NEW c, calls' = [calls EXCEPT ![n] = c]
        PROVE  /\ Only(n) /\ DOMAIN calls' = DOMAIN calls
               /\ n \in DOMAIN calls => calls'[n] = c
    BY <1>2 DEF Only
  <1>3. ASSUME NEW c, calls' = Put(calls, n, c)
        PROVE  Only(n) /\ DOMAIN calls' = DOMAIN calls \cup {n} /\ calls'[n] = c
    BY <1>3 DEF Only, Put
  <1> QED BY <1>1, <1>2, <1>3

LEMMA Shapes ==
  ASSUME NEW s, NEW n, NEW c, CallFits(s, n, c)
  PROVE  /\ n = <<c.kind, n[2]>> /\ n[2] \in Nat
         /\ c.kind = "start" => c \in [kind : {"start"}, pc : {"open", "reset", "resetOnsets", "done"}]
         /\ Pending(c) => /\ c \in [kind : {"message"}, pc : {"number", "map", "onset", "append"},
                                    message : Messages, place : Places]
                          /\ n[2] \in DOMAIN s /\ c.place = s[n[2]].place
                          /\ c.pc = "number" => c.message = s[n[2]].message
                          /\ c.pc # "number" => /\ c.message.seq \in Nat
                                                /\ c.message = Numbered(s[n[2]].message, c.message.seq)
         /\ (c.kind = "message" /\ ~Pending(c)) =>
               /\ c.pc = "store" /\ Genuine(s, c.capture)
         /\ (c.kind = "stop" /\ c.pc = "check") =>
               c \in [kind : {"stop"}, pc : {"check"}, state : EndStates, capture : {None}]
         /\ (c.kind = "stop" /\ c.pc \in {"store", "pair"}) =>
               /\ c \in [kind : {"stop"}, pc : {"store", "pair"}, state : EndStates,
                         capture : {k \in Captures : Genuine(s, k)}]
               /\ Genuine(s, c.capture)
         /\ (c.kind = "stop" /\ c.pc \in {"place", "answer"}) =>
               NotesFit(s, c.paired.notes) /\ AreNotes(c.paired.notes)
         /\ (c.kind = "stop" /\ c.pc \in {"reset", "resetOnsets", "done"}) => Answering(s, c)
         /\ c.kind = "begin" => c \in [kind : {"begin"}, pc : {"name", "clear"}, lesson : Lessons]
         /\ c.pc = "store" => c.kind \in {"message", "stop"}
  <1>1. n = <<c.kind, n[2]>> /\ n[2] \in Nat /\ CallShape(s, c) /\ Carries(s, n, c)
    BY DEF CallFits
  <1>2. CASE c \in [kind : {"start"}, pc : {"open", "reset", "resetOnsets", "done"}]
    BY <1>1, <1>2 DEF Pending
  <1>3. CASE c \in [kind : {"message"}, pc : {"number", "map", "onset", "append"},
                    message : Messages, place : Places]
    BY <1>1, <1>3 DEF Pending, Carries
  <1>4. CASE c \in [kind : {"message"}, pc : {"store"}, capture : {k \in Captures : Genuine(s, k)}]
    BY <1>1, <1>4 DEF Pending
  <1>5. CASE c \in [kind : {"stop"}, pc : {"check"}, state : EndStates, capture : {None}]
    BY <1>1, <1>5 DEF Pending
  <1>6. CASE c \in [kind : {"stop"}, pc : {"store", "pair"}, state : EndStates,
                    capture : {k \in Captures : Genuine(s, k)}]
    BY <1>1, <1>6 DEF Pending
  <1>7. CASE /\ c.kind = "stop" /\ c.pc \in {"place", "answer"}
             /\ NotesFit(s, c.paired.notes) /\ AreNotes(c.paired.notes)
    BY <1>1, <1>7 DEF Pending
  <1>8. CASE Answering(s, c)
    <2>1. c.kind = "stop" /\ c.pc \in {"reset", "resetOnsets", "done"}
      BY <1>8 DEF Answering
    <2> QED BY <1>1, <1>8, <2>1 DEF Pending
  <1>9. CASE c \in [kind : {"begin"}, pc : {"name", "clear"}, lesson : Lessons]
    BY <1>1, <1>9 DEF Pending
  <1>10. CASE c.kind = "evaluate" /\ c.pc \in {"judge", "record"}
    BY <1>1, <1>10 DEF Pending
  <1> QED BY <1>1, <1>2, <1>3, <1>4, <1>5, <1>6, <1>7, <1>8, <1>9, <1>10 DEF CallShape

\* Calls that carry nothing of what was played.
LEMMA PlainCall ==
  ASSUME NEW s, NEW n, NEW c, n = <<c.kind, n[2]>>, n[2] \in Nat, ~Pending(c),
         CallShape(s, c)
  PROVE  CallFits(s, n, c)
  BY DEF CallFits, Carries

LEMMA PageCounts ==
  ASSUME NEW p \in Pages
  PROVE  p.takes + 1 \in Nat /\ p.stops + 1 \in Nat /\ p.loads + 1 \in Nat
  <1>1. p.takes \in Nat /\ p.stops \in Nat /\ p.loads \in Nat
    BY DEF Pages
  <1> QED BY <1>1

LEMMA PageMoves ==
  ASSUME NEW p \in Pages
  PROVE  /\ \A b \in BOOLEAN, k \in Int, t \in Nat :
               [p EXCEPT !.starting = b, !.since = k, !.takes = t] \in Pages
         /\ \A a, b \in BOOLEAN, k \in Int :
               [p EXCEPT !.starting = b, !.active = a, !.since = k] \in Pages
         /\ \A a \in BOOLEAN, t \in Nat : [p EXCEPT !.active = a, !.stops = t] \in Pages
         /\ \A l \in Lessons, t \in Nat, k \in Int :
               [p EXCEPT !.lesson = l, !.loads = t, !.since = k] \in Pages
  BY DEF Pages

LEMMA TruthStartAttempt ==
  ASSUME TruthInv, StartAttempt
  PROVE  TruthInv'
  <1> DEFINE c == [kind |-> "start", pc |-> "open"]
             n == <<c.kind, page.takes + 1>>
  <1>1. calls' = Put(calls, n, c)
    BY DEF StartAttempt, Issue
  <1>2. c.kind = "start" /\ c.pc = "open" /\ CallShape(sent, c) /\ ~Pending(c) /\ ~HasRead(c)
    BY DEF CallShape, Pending, HasRead
  <1>3. n[2] \in Nat /\ n = <<c.kind, n[2]>>
    BY PageCounts DEF TruthInv, PageFits
  <1> HIDE DEF c, n
  <1>4. CallFits(sent, n, c)
    BY <1>2, <1>3, PlainCall
  <1>5. Only(n) /\ calls'[n] = c
    BY <1>1, CallMoves
  <1>6. PageFits' /\ PlacesFit' /\ now' \in Nat /\ now <= now'
    <2> DEFINE on == TRUE
    <2>1. page' = [page EXCEPT !.starting = on, !.since = Absent, !.takes = @ + 1]
      BY DEF StartAttempt
    <2>2. on \in BOOLEAN /\ Absent \in Int /\ page \in Pages /\ now \in Nat
      BY DEF Absent, TruthInv, PageFits
    <2> HIDE DEF on
    <2>3. page' \in Pages
      <3>1. now \in Int /\ page.takes + 1 \in Nat /\ page.stops + 1 \in Nat /\ page.loads + 1 \in Nat
        BY <2>2, PageCounts
      <3> QED BY <2>1, <2>2, <3>1, PageMoves
    <2> QED BY <2>2, <2>3 DEF TruthInv, PageFits, PlacesFit, StartAttempt, serverVars
  <1>7. capture' = capture /\ sent' = sent
    BY DEF StartAttempt, serverVars
  <1> QED BY <1>2, <1>4, <1>5, <1>6, <1>7, TruthFrame

LEMMA TruthEndAttempt ==
  ASSUME TruthInv, NEW state \in EndStates, EndAttempt(state)
  PROVE  TruthInv'
  <1> DEFINE c == [kind |-> "stop", pc |-> "check", state |-> state, capture |-> None]
             n == <<c.kind, page.stops + 1>>
  <1>1. calls' = Put(calls, n, c)
    BY DEF EndAttempt, Issue
  <1>2. c.kind = "stop" /\ c.pc = "check" /\ CallShape(sent, c) /\ ~Pending(c) /\ ~HasRead(c)
    BY DEF CallShape, Pending, HasRead
  <1>3. n[2] \in Nat /\ n = <<c.kind, n[2]>>
    BY PageCounts DEF TruthInv, PageFits
  <1> HIDE DEF c, n
  <1>4. CallFits(sent, n, c)
    BY <1>2, <1>3, PlainCall
  <1>5. Only(n) /\ calls'[n] = c
    BY <1>1, CallMoves
  <1>6. PageFits' /\ PlacesFit' /\ now' \in Nat /\ now <= now'
    <2> DEFINE on == FALSE
    <2>1. page' = [page EXCEPT !.active = on, !.stops = @ + 1]
      BY DEF EndAttempt
    <2>2. on \in BOOLEAN /\ Absent \in Int /\ page \in Pages /\ now \in Nat
      BY DEF Absent, TruthInv, PageFits
    <2> HIDE DEF on
    <2>3. page' \in Pages
      <3>1. now \in Int /\ page.takes + 1 \in Nat /\ page.stops + 1 \in Nat /\ page.loads + 1 \in Nat
        BY <2>2, PageCounts
      <3> QED BY <2>1, <2>2, <3>1, PageMoves
    <2> QED BY <2>2, <2>3 DEF TruthInv, PageFits, PlacesFit, EndAttempt, serverVars
  <1>7. capture' = capture /\ sent' = sent
    BY DEF EndAttempt, serverVars
  <1> QED BY <1>2, <1>4, <1>5, <1>6, <1>7, TruthFrame

LEMMA TruthLoadLesson ==
  ASSUME TruthInv, NEW lesson \in Lessons, LoadLesson(lesson)
  PROVE  TruthInv'
  <1> DEFINE c == [kind |-> "begin", pc |-> "name", lesson |-> lesson]
             n == <<c.kind, page.loads + 1>>
  <1>1. calls' = Put(calls, n, c)
    BY DEF LoadLesson, Issue
  <1>2. c.kind = "begin" /\ c.pc = "name" /\ CallShape(sent, c) /\ ~Pending(c) /\ ~HasRead(c)
    BY DEF CallShape, Pending, HasRead
  <1>3. n[2] \in Nat /\ n = <<c.kind, n[2]>>
    BY PageCounts DEF TruthInv, PageFits
  <1> HIDE DEF c, n
  <1>4. CallFits(sent, n, c)
    BY <1>2, <1>3, PlainCall
  <1>5. Only(n) /\ calls'[n] = c
    BY <1>1, CallMoves
  <1>6. PageFits' /\ PlacesFit' /\ now' \in Nat /\ now <= now'
    <2>1. page' = [page EXCEPT !.lesson = lesson, !.loads = @ + 1, !.since = Absent]
      BY DEF LoadLesson
    <2>2. Absent \in Int /\ page \in Pages /\ now \in Nat
      BY DEF Absent, TruthInv, PageFits
    <2>3. page' \in Pages
      <3>1. now \in Int /\ page.takes + 1 \in Nat /\ page.stops + 1 \in Nat /\ page.loads + 1 \in Nat
        BY <2>2, PageCounts
      <3> QED BY <2>1, <2>2, <3>1, PageMoves
    <2> QED BY <2>2, <2>3 DEF TruthInv, PageFits, PlacesFit, LoadLesson, serverVars
  <1>7. capture' = capture /\ sent' = sent
    BY DEF LoadLesson, serverVars
  <1> QED BY <1>2, <1>4, <1>5, <1>6, <1>7, TruthFrame

LEMMA TruthStartAnswered ==
  ASSUME TruthInv, NEW n, StartAnswered(n)
  PROVE  TruthInv'
  <1>1. Only(n) /\ n \notin DOMAIN calls'
    BY CallMoves DEF StartAnswered
  <1>2. PageFits' /\ PlacesFit' /\ now' \in Nat /\ now <= now'
    <2> DEFINE on == TRUE
               no == FALSE
    <2>1. page' = [page EXCEPT !.starting = no, !.active = on, !.since = now]
      BY DEF StartAnswered
    <2>2. no \in BOOLEAN /\ on \in BOOLEAN /\ Absent \in Int /\ page \in Pages /\ now \in Nat
      BY DEF Absent, TruthInv, PageFits
    <2> HIDE DEF on, no
    <2>3. page' \in Pages
      <3>1. now \in Int /\ page.takes + 1 \in Nat /\ page.stops + 1 \in Nat /\ page.loads + 1 \in Nat
        BY <2>2, PageCounts
      <3> QED BY <2>1, <2>2, <3>1, PageMoves
    <2> QED BY <2>2, <2>3 DEF TruthInv, PageFits, PlacesFit, StartAnswered, serverVars
  <1>3. capture' = capture /\ sent' = sent
    BY DEF StartAnswered, serverVars
  <1> QED BY <1>1, <1>2, <1>3, TruthFrame

LEMMA TruthStopAnswered ==
  ASSUME TruthInv, NEW n, NEW steps \in Gaps, StopAnswered(n, steps)
  PROVE  TruthInv'
  <1>1. PageFits' /\ PlacesFit' /\ now' \in Nat /\ now <= now'
    <2>1. steps \in Nat /\ now \in Nat
      BY PracticeConstants DEF TruthInv, PageFits
    <2> QED BY <2>1 DEF TruthInv, PageFits, PlacesFit, StopAnswered, Passes, serverVars
  <1>2. capture' = capture /\ sent' = sent
    BY DEF StopAnswered, serverVars
  <1>3. CASE Ends(n)
    <2>1. Only(n) /\ n \notin DOMAIN calls'
      BY <1>3, CallMoves
    <2> QED BY <1>1, <1>2, <2>1, TruthFrame
  <1>4. CASE ~Ends(n)
    <2> DEFINE m == <<"evaluate", n[2]>>
    <2>0. n \in DOMAIN calls /\ CallFits(sent, n, calls[n])
      BY DEF StopAnswered, At, TruthInv, CallsFit
    <2>1. PICK rate \in PracticeRates :
              calls' = Put([k \in DOMAIN calls \ {n} |-> calls[k]], m,
                      [kind |-> "evaluate", pc |-> "judge", lesson |-> page.lesson,
                       notes |-> calls[n].evidence.notes, ids |-> calls[n].evidence.ids,
                       rate |-> rate, reps |-> Max({1, Snapshot(now').rep})])
      BY <1>4 DEF StopAnswered
    <2> DEFINE c == [kind |-> "evaluate", pc |-> "judge", lesson |-> page.lesson,
                     notes |-> calls[n].evidence.notes, ids |-> calls[n].evidence.ids,
                     rate |-> rate, reps |-> Max({1, Snapshot(now').rep})]
    <2>2. c.kind = "evaluate" /\ c.pc = "judge"
      OBVIOUS
    <2> HIDE DEF c
    <2>3. calls' = Put([k \in DOMAIN calls \ {n} |-> calls[k]], m, c)
      BY <2>1 DEF c
    <2>4. CallShape(sent, c) /\ ~Pending(c) /\ ~HasRead(c)
      BY <2>2 DEF CallShape, Pending, HasRead
    <2>5. m = <<c.kind, m[2]>> /\ m[2] \in Nat
      BY <2>0, <2>2, Shapes
    <2> HIDE DEF m
    <2>6. Only(m) /\ calls'[m] = c
      BY <2>3 DEF Only, Put
    <2>7. CallFits(sent, m, c)
      BY <2>4, <2>5, PlainCall
    <2> QED BY <1>1, <1>2, <2>2, <2>4, <2>6, <2>7, TruthFrame
  <1> QED BY <1>3, <1>4

\* A step of a handler: page, messages sent and clock stay.
LEMMA HandlerKeeps ==
  ASSUME TruthInv, UNCHANGED <<page, now, sent>>
  PROVE  PageFits' /\ now' \in Nat /\ now <= now' /\ sent' = sent /\ Extends(sent, sent') /\ SentFits'
  BY DEF TruthInv, PageFits, Extends, SentFits

\* Clearing a map is a step of a start that has opened its capture, or of a stop
\* that has its answer.
LEMMA Resetting ==
  ASSUME NEW n, CallFits(sent, n, calls[n]), calls[n].kind \in {"start", "stop"},
         calls[n].pc \in {"reset", "resetOnsets"},
         NEW pc \in {"resetOnsets", "done"}, NEW c, c = [calls[n] EXCEPT !.pc = pc]
  PROVE  /\ CallFits(sent, n, c) /\ ~Pending(c) /\ c.kind = calls[n].kind /\ c.pc = pc
         /\ c.kind = "stop" => c.evidence = calls[n].evidence
  <1>1. n = <<calls[n].kind, n[2]>> /\ n[2] \in Nat
    BY Shapes
  <1>2. CASE calls[n].kind = "start"
    <2>1. calls[n] \in [kind : {"start"}, pc : {"open", "reset", "resetOnsets", "done"}]
      BY <1>2, Shapes, Zenon
    <2>2. /\ c \in [kind : {"start"}, pc : {"open", "reset", "resetOnsets", "done"}]
          /\ c.kind = "start" /\ c.pc = pc
      BY <2>1
    <2>3. CallShape(sent, c) /\ ~Pending(c)
      BY <2>2 DEF CallShape, Pending
    <2> QED BY <1>1, <1>2, <2>2, <2>3, PlainCall
  <1>3. CASE calls[n].kind = "stop"
    <2>1. Answering(sent, calls[n])
      BY <1>3, Shapes, Zenon
    <2>2. calls[n] = [kind |-> "stop", pc |-> calls[n].pc, state |-> calls[n].state,
                      evidence |-> calls[n].evidence]
      BY <2>1, Zenon DEF Answering
    <2>3. /\ c = [kind |-> "stop", pc |-> pc, state |-> calls[n].state,
                  evidence |-> calls[n].evidence]
          /\ c.kind = "stop" /\ c.pc = pc /\ c.state = calls[n].state
          /\ c.evidence = calls[n].evidence
      BY <2>2
    <2>4. Answering(sent, c)
      BY <2>1, <2>3 DEF Answering
    <2>5. CallShape(sent, c) /\ ~Pending(c)
      BY <2>3, <2>4 DEF CallShape, Pending
    <2> QED BY <1>1, <1>3, <2>3, <2>5, PlainCall
  <1> QED BY <1>2, <1>3

LEMMA TruthResetRepetitions ==
  ASSUME TruthInv, NEW n, ResetRepetitions(n)
  PROVE  TruthInv'
  <1> DEFINE c == [calls[n] EXCEPT !.pc = "resetOnsets"]
  <1>0. /\ n \in DOMAIN calls /\ CallFits(sent, n, calls[n])
        /\ calls[n].kind \in {"start", "stop"} /\ calls[n].pc = "reset"
    BY DEF ResetRepetitions, At, TruthInv, CallsFit
  <1>1. calls' = [calls EXCEPT ![n] = c] /\ UNCHANGED <<page, now, sent>> /\ capture' = capture
    BY DEF ResetRepetitions, Goto
  <1>2. CallFits(sent, n, c) /\ ~Pending(c) /\ c.kind = calls[n].kind /\ c.pc = "resetOnsets"
    BY <1>0, Resetting
  <1> HIDE DEF c
  <1>3. Only(n) /\ calls'[n] = c
    BY <1>0, <1>1, CallMoves
  <1>4. HasRead(c) => capture # None
    BY <1>0, <1>2 DEF HasRead, TruthInv, Begun
  <1>5. PlacesFit'
    BY DEF ResetRepetitions, TruthInv, PlacesFit, NoPlaces
  <1> QED BY <1>1, <1>2, <1>3, <1>4, <1>5, HandlerKeeps, TruthFrame

LEMMA TruthResetOnsets ==
  ASSUME TruthInv, NEW n, ResetOnsets(n)
  PROVE  TruthInv'
  <1> DEFINE c == [calls[n] EXCEPT !.pc = "done"]
  <1>0. /\ n \in DOMAIN calls /\ CallFits(sent, n, calls[n])
        /\ calls[n].kind \in {"start", "stop"} /\ calls[n].pc = "resetOnsets"
    BY DEF ResetOnsets, At, TruthInv, CallsFit
  <1>1. calls' = [calls EXCEPT ![n] = c] /\ UNCHANGED <<page, now, sent>> /\ capture' = capture
    BY DEF ResetOnsets, Goto
  <1>2. CallFits(sent, n, c) /\ ~Pending(c) /\ c.kind = calls[n].kind /\ c.pc = "done"
    BY <1>0, Resetting
  <1> HIDE DEF c
  <1>3. Only(n) /\ calls'[n] = c
    BY <1>0, <1>1, CallMoves
  <1>4. HasRead(c) => capture # None
    BY <1>0, <1>2 DEF HasRead, TruthInv, Begun
  <1>5. PlacesFit'
    BY DEF ResetOnsets, TruthInv, PlacesFit, NoPlaces
  <1> QED BY <1>1, <1>2, <1>3, <1>4, <1>5, HandlerKeeps, TruthFrame

\* A capture that is begun has no events that could be heard twice.
LEMMA TruthOpenCapture ==
  ASSUME TruthInv, NEW n, OpenCapture(n)
  PROVE  TruthInv'
  <1> DEFINE c == [calls[n] EXCEPT !.pc = "reset"]
  <1>0. n \in DOMAIN calls /\ CallFits(sent, n, calls[n]) /\ calls[n].kind = "start"
    BY DEF OpenCapture, At, TruthInv, CallsFit
  <1>1. /\ calls' = [calls EXCEPT ![n] = c] /\ UNCHANGED <<page, now, sent, repetitions, onsets>>
        /\ capture' = BuildRawCapture(n[2])
    BY DEF OpenCapture, Goto
  <1>2. /\ n = <<"start", n[2]>> /\ n[2] \in Nat
        /\ calls[n] \in [kind : {"start"}, pc : {"open", "reset", "resetOnsets", "done"}]
    BY <1>0, Shapes, Zenon
  <1>3. /\ c \in [kind : {"start"}, pc : {"open", "reset", "resetOnsets", "done"}]
        /\ c.kind = "start" /\ c.pc = "reset"
    BY <1>2
  <1> HIDE DEF c
  <1>4. CallShape(sent, c) /\ ~Pending(c) /\ ~HasRead(c)
    BY <1>3 DEF CallShape, Pending, HasRead
  <1>5. CallFits(sent, n, c)
    BY <1>2, <1>3, <1>4, PlainCall
  <1>6. Only(n) /\ calls'[n] = c
    BY <1>0, <1>1, CallMoves
  <1>7. /\ PageFits' /\ sent' = sent /\ Extends(sent, sent') /\ SentFits'
        /\ PlacesFit'
    BY <1>1, HandlerKeeps DEF TruthInv, PlacesFit
  <1>8. CallsFit'
    BY <1>5, <1>6, <1>7, CallsFrame DEF TruthInv
  <1>9. Genuine(sent, capture') /\ EventIds(capture') = {} /\ capture' # None
    <2>1. Genuine(sent, BuildRawCapture(n[2])) /\ EventIds(BuildRawCapture(n[2])) = {}
      BY <1>2, NewCapture
    <2> QED BY <1>1, <2>1, PracticeConstants DEF Genuine
  <1>10. CaptureFits'
    BY <1>7, <1>9 DEF CaptureFits
  <1>11. Begun'
    BY <1>4, <1>6, <1>9, BegunFrame DEF TruthInv
  <1>12. Unheard'
    <2> SUFFICES ASSUME NEW m \in DOMAIN calls', Pending(calls'[m])
                 PROVE  \A k \in DOMAIN calls' :
                              calls'[k].pc = "store" => m[2] \notin EventIds(calls'[k].capture)
      BY <1>9, Zenon DEF Unheard
    <2>1. m \in DOMAIN calls /\ Pending(calls[m])
      BY <1>4, <1>6, Zenon DEF Only
    <2>2. ASSUME NEW k \in DOMAIN calls', calls'[k].pc = "store"
          PROVE  k \in DOMAIN calls /\ calls'[k] = calls[k]
      <3>1. k # n
        BY <1>3, <1>6, <2>2
      <3> QED BY <1>6, <3>1, Zenon DEF Only
    <2> QED BY <2>1, <2>2, Zenon DEF TruthInv, Unheard
  <1> QED BY <1>7, <1>8, <1>10, <1>11, <1>12 DEF TruthInv

LEMMA TruthNumberEvent ==
  ASSUME TruthInv, NEW n, NumberEvent(n)
  PROVE  TruthInv'
  <1>0. /\ n \in DOMAIN calls /\ CallFits(sent, n, calls[n])
        /\ calls[n].kind = "message" /\ calls[n].pc = "number"
    BY DEF NumberEvent, At, TruthInv, CallsFit
  <1>1. UNCHANGED <<page, now, sent, repetitions, onsets, capture>>
    BY DEF NumberEvent, serverVars
  <1>2. PlacesFit'
    BY <1>1 DEF TruthInv, PlacesFit
  <1>3. CASE ~CaptureOpen
    <2>1. Only(n) /\ n \notin DOMAIN calls'
      BY <1>3, CallMoves DEF NumberEvent
    <2> QED BY <1>1, <1>2, <2>1, HandlerKeeps, TruthFrame
  <1>4. CASE CaptureOpen
    <2> DEFINE m == Numbered(calls[n].message, Len(capture.events))
               c == [calls[n] EXCEPT !.pc = "map", !.message = m]
    <2>1. calls' = [calls EXCEPT ![n] = c]
      BY <1>4 DEF NumberEvent
    <2>2. Pending(calls[n])
      BY <1>0 DEF Pending
    <2>3. /\ n = <<"message", n[2]>> /\ n[2] \in Nat /\ n[2] \in DOMAIN sent
          /\ calls[n] \in [kind : {"message"}, pc : {"number", "map", "onset", "append"},
                           message : Messages, place : Places]
          /\ calls[n].place = sent[n[2]].place /\ calls[n].message = sent[n[2]].message
      BY <1>0, <2>2, Shapes
    <2>4. Len(capture.events) \in Nat
      BY <1>4 DEF CaptureOpen, TruthInv, CaptureFits, Genuine, Captures
    <2>5. m \in Messages /\ m.seq \in Nat /\ m = Numbered(sent[n[2]].message, m.seq)
      BY <2>3, <2>4, NumberedFields
    <2> HIDE DEF m
    <2>6. /\ c \in [kind : {"message"}, pc : {"number", "map", "onset", "append"},
                    message : Messages, place : Places]
          /\ c.kind = "message" /\ c.pc = "map" /\ c.message = m /\ c.place = calls[n].place
      BY <2>3, <2>5
    <2> HIDE DEF c
    <2>7. CallFits(sent, n, c) /\ HasRead(c)
      BY <2>3, <2>5, <2>6 DEF CallFits, CallShape, Carries, HasRead
    <2>8. Only(n) /\ calls'[n] = c
      BY <1>0, <2>1, CallMoves
    <2>9. capture # None
      BY <1>4 DEF CaptureOpen
    <2> QED BY <1>0, <1>1, <1>2, <2>2, <2>6, <2>7, <2>8, <2>9, HandlerKeeps, TruthFrame
  <1> QED BY <1>3, <1>4

LEMMA TruthMapRepetition ==
  ASSUME TruthInv, NEW n, MapRepetition(n)
  PROVE  TruthInv'
  <1> DEFINE c == [calls[n] EXCEPT !.pc = "onset"]
  <1>0. /\ n \in DOMAIN calls /\ CallFits(sent, n, calls[n])
        /\ calls[n].kind = "message" /\ calls[n].pc = "map"
    BY DEF MapRepetition, At, TruthInv, CallsFit
  <1>1. UNCHANGED <<page, now, sent, capture>> /\ calls' = [calls EXCEPT ![n] = c]
    BY DEF MapRepetition, Goto
  <1>2. Pending(calls[n])
    BY <1>0 DEF Pending
  <1>3. /\ n = <<"message", n[2]>> /\ n[2] \in Nat /\ n[2] \in DOMAIN sent
        /\ calls[n] \in [kind : {"message"}, pc : {"number", "map", "onset", "append"},
                         message : Messages, place : Places]
        /\ calls[n].place = sent[n[2]].place
        /\ calls[n].message.seq \in Nat
        /\ calls[n].message = Numbered(sent[n[2]].message, calls[n].message.seq)
    BY <1>0, <1>2, Shapes
  <1>4. /\ c \in [kind : {"message"}, pc : {"number", "map", "onset", "append"},
                  message : Messages, place : Places]
        /\ c.kind = "message" /\ c.pc = "onset" /\ c.message = calls[n].message
        /\ c.place = calls[n].place
    BY <1>3
  <1> HIDE DEF c
  <1>5. CallFits(sent, n, c) /\ HasRead(c)
    BY <1>3, <1>4 DEF CallFits, CallShape, Carries, HasRead
  <1>6. Only(n) /\ calls'[n] = c
    BY <1>0, <1>1, CallMoves
  <1>7. capture # None
    BY <1>0 DEF TruthInv, Begun
  <1>8. calls[n].message.id = n[2]
    <2>1. sent[n[2]].message \in Messages /\ sent[n[2]].message.id = n[2]
      BY <1>3 DEF TruthInv, SentFits
    <2>2. Numbered(sent[n[2]].message, calls[n].message.seq).id = sent[n[2]].message.id
      BY <1>3, <2>1, NumberedFields
    <2> QED BY <1>3, <2>1, <2>2, Zenon
  <1>9. PlacesFit'
    <2>1. /\ repetitions' = Put(repetitions, n[2], sent[n[2]].place.rep)
          /\ onsets' = onsets /\ sent' = sent
      BY <1>1, <1>3, <1>8 DEF MapRepetition
    <2> QED BY <1>3, <2>1 DEF TruthInv, PlacesFit, Put
  <1> QED BY <1>0, <1>1, <1>2, <1>4, <1>5, <1>6, <1>7, <1>9, HandlerKeeps, TruthFrame

LEMMA TruthMapOnset ==
  ASSUME TruthInv, NEW n, MapOnset(n)
  PROVE  TruthInv'
  <1> DEFINE c == [calls[n] EXCEPT !.pc = "append"]
  <1>0. /\ n \in DOMAIN calls /\ CallFits(sent, n, calls[n])
        /\ calls[n].kind = "message" /\ calls[n].pc = "onset"
    BY DEF MapOnset, At, TruthInv, CallsFit
  <1>1. UNCHANGED <<page, now, sent, capture>> /\ calls' = [calls EXCEPT ![n] = c]
    BY DEF MapOnset, Goto
  <1>2. Pending(calls[n])
    BY <1>0 DEF Pending
  <1>3. /\ n = <<"message", n[2]>> /\ n[2] \in Nat /\ n[2] \in DOMAIN sent
        /\ calls[n] \in [kind : {"message"}, pc : {"number", "map", "onset", "append"},
                         message : Messages, place : Places]
        /\ calls[n].place = sent[n[2]].place
        /\ calls[n].message.seq \in Nat
        /\ calls[n].message = Numbered(sent[n[2]].message, calls[n].message.seq)
    BY <1>0, <1>2, Shapes
  <1>4. /\ c \in [kind : {"message"}, pc : {"number", "map", "onset", "append"},
                  message : Messages, place : Places]
        /\ c.kind = "message" /\ c.pc = "append" /\ c.message = calls[n].message
        /\ c.place = calls[n].place
    BY <1>3
  <1> HIDE DEF c
  <1>5. CallFits(sent, n, c) /\ HasRead(c)
    BY <1>3, <1>4 DEF CallFits, CallShape, Carries, HasRead
  <1>6. Only(n) /\ calls'[n] = c
    BY <1>0, <1>1, CallMoves
  <1>7. capture # None
    BY <1>0 DEF TruthInv, Begun
  <1>8. calls[n].message.id = n[2]
    <2>1. sent[n[2]].message \in Messages /\ sent[n[2]].message.id = n[2]
      BY <1>3 DEF TruthInv, SentFits
    <2>2. Numbered(sent[n[2]].message, calls[n].message.seq).id = sent[n[2]].message.id
      BY <1>3, <2>1, NumberedFields
    <2> QED BY <1>3, <2>1, <2>2, Zenon
  <1>9. PlacesFit'
    <2>1. /\ onsets' = Put(onsets, n[2], sent[n[2]].place.onset)
          /\ repetitions' = repetitions /\ sent' = sent
      BY <1>1, <1>3, <1>8 DEF MapOnset
    <2> QED BY <1>3, <2>1 DEF TruthInv, PlacesFit, Put
  <1> QED BY <1>0, <1>1, <1>2, <1>4, <1>5, <1>6, <1>7, <1>9, HandlerKeeps, TruthFrame

LEMMA TruthExtend ==
  ASSUME TruthInv, NEW n, Extend(n)
  PROVE  TruthInv'
  <1> DEFINE m == calls[n].message
             d == AppendEvent(capture, m)
             c == [kind |-> "message", pc |-> "store", capture |-> d]
  <1>0. /\ n \in DOMAIN calls /\ CallFits(sent, n, calls[n])
        /\ calls[n].kind = "message" /\ calls[n].pc = "append"
    BY DEF Extend, At, TruthInv, CallsFit
  <1>1. UNCHANGED <<page, now, sent, capture, repetitions, onsets>>
    BY DEF Extend, serverVars
  <1>2. PlacesFit' /\ CaptureFits'
    BY <1>1 DEF TruthInv, PlacesFit, CaptureFits
  <1>3. CASE ~CanAppend(capture, m)
    <2>1. Only(n) /\ n \notin DOMAIN calls'
      BY <1>3, CallMoves DEF Extend
    <2> QED BY <1>1, <1>2, <2>1, HandlerKeeps, TruthFrame
  <1>4. CASE CanAppend(capture, m)
    <2>1. calls' = [calls EXCEPT ![n] = c]
      BY <1>4 DEF Extend
    <2>2. Pending(calls[n])
      BY <1>0 DEF Pending
    <2>3. /\ n = <<"message", n[2]>> /\ n[2] \in Nat /\ n[2] \in DOMAIN sent
          /\ m \in Messages /\ m.seq \in Nat /\ m = Numbered(sent[n[2]].message, m.seq)
      BY <1>0, <2>2, Shapes
    <2> HIDE DEF m
    <2>4. m.id = n[2]
      <3>1. sent[n[2]].message \in Messages /\ sent[n[2]].message.id = n[2]
        BY <2>3 DEF TruthInv, SentFits
      <3>2. Numbered(sent[n[2]].message, m.seq).id = sent[n[2]].message.id
        BY <2>3, <3>1, NumberedFields
      <3> QED BY <2>3, <3>1, <3>2, Zenon
    <2>5. capture # None /\ Genuine(sent, capture)
      BY <1>0 DEF TruthInv, Begun, CaptureFits
    <2>6. n[2] \notin EventIds(capture)
      BY <1>0, <2>2, <2>5 DEF TruthInv, Unheard
    <2>7. Genuine(sent, d) /\ EventIds(d) = EventIds(capture) \cup {n[2]}
      <3>1. m = Numbered(sent[m.id].message, m.seq)
        BY <2>3, <2>4, Zenon
      <3> QED BY <1>4, <2>3, <2>4, <2>5, <2>6, <3>1, AppendedEvents
    <2> HIDE DEF d
    <2>8. /\ c.kind = "message" /\ c.pc = "store" /\ c.capture = d
          /\ c \in [kind : {"message"}, pc : {"store"}, capture : {k \in Captures : Genuine(sent, k)}]
      BY <2>7 DEF Genuine
    <2> HIDE DEF c
    <2>9. CallFits(sent, n, c) /\ HasRead(c) /\ ~Pending(c)
      BY <2>3, <2>8 DEF CallFits, CallShape, Carries, HasRead, Pending
    <2>10. Only(n) /\ calls'[n] = c
      BY <1>0, <2>1, CallMoves
    <2>11. PageFits' /\ sent' = sent /\ Extends(sent, sent') /\ SentFits'
      BY <1>1, HandlerKeeps
    <2>12. CallsFit'
      BY <2>9, <2>10, <2>11, CallsFrame DEF TruthInv
    <2>13. Begun'
      BY <1>1, <2>5, <2>10, BegunFrame DEF TruthInv
    <2>14. Unheard'
      <3> SUFFICES ASSUME NEW k \in DOMAIN calls', Pending(calls'[k])
                   PROVE  /\ k[2] \notin EventIds(capture)
                          /\ \A l \in DOMAIN calls' :
                                calls'[l].pc = "store" => k[2] \notin EventIds(calls'[l].capture)
        BY <1>1, Zenon DEF Unheard
      <3>1. k # n /\ k \in DOMAIN calls /\ Pending(calls[k])
        BY <2>9, <2>10, Zenon DEF Only
      <3>2. k[2] # n[2]
        <4>1. CallFits(sent, k, calls[k])
          BY <3>1 DEF TruthInv, CallsFit
        <4>2. k = <<"message", k[2]>>
          BY <3>1, <4>1 DEF CallFits, Pending
        <4> QED BY <2>3, <3>1, <4>2
      <3>3. k[2] \notin EventIds(capture)
        BY <2>5, <3>1 DEF TruthInv, Unheard
      <3>4. ASSUME NEW l \in DOMAIN calls', calls'[l].pc = "store"
            PROVE  k[2] \notin EventIds(calls'[l].capture)
        <4>1. CASE l = n
          BY <2>7, <2>8, <2>10, <3>2, <3>3, <4>1
        <4>2. CASE l # n
          <5>1. l \in DOMAIN calls /\ calls'[l] = calls[l]
            BY <2>10, <4>2 DEF Only
          <5> QED BY <3>1, <3>4, <5>1, Zenon DEF TruthInv, Unheard
        <4> QED BY <4>1, <4>2
      <3> QED BY <3>3, <3>4
    <2> QED BY <1>2, <2>11, <2>12, <2>13, <2>14 DEF TruthInv
  <1> QED BY <1>3, <1>4

LEMMA TruthStoreExtended ==
  ASSUME TruthInv, NEW n, StoreExtended(n)
  PROVE  TruthInv'
  <1>0. /\ n \in DOMAIN calls /\ CallFits(sent, n, calls[n])
        /\ calls[n].kind = "message" /\ calls[n].pc = "store"
    BY DEF StoreExtended, At, TruthInv, CallsFit
  <1>1. UNCHANGED <<page, now, sent, repetitions, onsets>> /\ capture' = calls[n].capture
    BY DEF StoreExtended
  <1>2. Only(n) /\ n \notin DOMAIN calls'
    BY CallMoves DEF StoreExtended
  <1>3. Genuine(sent, calls[n].capture) /\ calls[n].capture # None
    <2>1. Genuine(sent, calls[n].capture)
      <3>1. ~Pending(calls[n])
        BY <1>0 DEF Pending
      <3> QED BY <1>0, <3>1, Shapes
    <2> QED BY <2>1, PracticeConstants DEF Genuine
  <1>4. /\ PageFits' /\ sent' = sent /\ Extends(sent, sent') /\ SentFits' /\ PlacesFit'
    BY <1>1, HandlerKeeps DEF TruthInv, PlacesFit
  <1>5. CallsFit'
    BY <1>2, <1>4, CallsFrame DEF TruthInv
  <1>6. CaptureFits'
    BY <1>1, <1>3 DEF CaptureFits
  <1>7. Begun'
    BY <1>1, <1>2, <1>3, BegunFrame DEF TruthInv
  <1>8. Unheard'
    <2> SUFFICES ASSUME NEW k \in DOMAIN calls', Pending(calls'[k])
                 PROVE  /\ k[2] \notin EventIds(calls[n].capture)
                        /\ \A l \in DOMAIN calls' :
                              calls'[l].pc = "store" => k[2] \notin EventIds(calls'[l].capture)
      BY <1>1, Zenon DEF Unheard
    <2>1. k \in DOMAIN calls /\ Pending(calls[k])
      BY <1>2, Zenon DEF Only
    <2>2. ASSUME NEW l \in DOMAIN calls', calls'[l].pc = "store"
          PROVE  l \in DOMAIN calls /\ calls'[l] = calls[l]
      BY <1>2, <2>2, Zenon DEF Only
    <2> QED BY <1>0, <2>1, <2>2, Zenon DEF TruthInv, Unheard
  <1> QED BY <1>4, <1>5, <1>6, <1>7, <1>8 DEF TruthInv

LEMMA TruthCloseActive ==
  ASSUME TruthInv, NEW n, CloseActive(n)
  PROVE  TruthInv'
  <1> DEFINE d == CloseCapture(capture, calls[n].state, <<>>, <<>>)
             c == [calls[n] EXCEPT !.pc = "store", !.capture = d]
  <1>0. /\ n \in DOMAIN calls /\ CallFits(sent, n, calls[n])
        /\ calls[n].kind = "stop" /\ calls[n].pc = "check"
    BY DEF CloseActive, At, TruthInv, CallsFit
  <1>1. UNCHANGED <<page, now, sent, capture, repetitions, onsets>>
    BY DEF CloseActive, serverVars
  <1>2. PlacesFit' /\ CaptureFits'
    BY <1>1 DEF TruthInv, PlacesFit, CaptureFits
  <1>3. CASE ~CaptureOpen
    <2>1. Only(n) /\ n \notin DOMAIN calls'
      BY <1>3, CallMoves DEF CloseActive
    <2> QED BY <1>1, <1>2, <2>1, HandlerKeeps, TruthFrame
  <1>4. CASE CaptureOpen
    <2>1. calls' = [calls EXCEPT ![n] = c]
      BY <1>4 DEF CloseActive
    <2>2. /\ n = <<"stop", n[2]>> /\ n[2] \in Nat
          /\ calls[n] \in [kind : {"stop"}, pc : {"check"}, state : EndStates, capture : {None}]
      BY <1>0, Shapes
    <2>3. capture # None /\ Genuine(sent, capture)
      BY <1>4 DEF TruthInv, CaptureFits, CaptureOpen
    <2>4. Genuine(sent, d) /\ EventIds(d) = EventIds(capture)
      <3>1. calls[n].state \in EndStates
        BY <2>2
      <3>2. Genuine(sent, d) /\ d.events = capture.events
        BY <2>3, <3>1, ClosedCapture
      <3> HIDE DEF d
      <3> QED BY <3>2 DEF EventIds
    <2> HIDE DEF d
    <2>5. /\ c.kind = "stop" /\ c.pc = "store" /\ c.capture = d
          /\ c \in [kind : {"stop"}, pc : {"store", "pair"}, state : EndStates,
                    capture : {k \in Captures : Genuine(sent, k)}]
      BY <2>2, <2>4 DEF Genuine
    <2> HIDE DEF c
    <2>6. CallFits(sent, n, c) /\ HasRead(c) /\ ~Pending(c)
      BY <2>2, <2>5 DEF CallFits, CallShape, Carries, HasRead, Pending
    <2>7. Only(n) /\ calls'[n] = c
      BY <1>0, <2>1, CallMoves
    <2>8. PageFits' /\ sent' = sent /\ Extends(sent, sent') /\ SentFits'
      BY <1>1, HandlerKeeps
    <2>9. CallsFit'
      BY <2>6, <2>7, <2>8, CallsFrame DEF TruthInv
    <2>10. Begun'
      BY <1>1, <2>3, <2>7, BegunFrame DEF TruthInv
    <2>11. Unheard'
      <3> SUFFICES ASSUME NEW k \in DOMAIN calls', Pending(calls'[k])
                   PROVE  /\ k[2] \notin EventIds(capture)
                          /\ \A l \in DOMAIN calls' :
                                calls'[l].pc = "store" => k[2] \notin EventIds(calls'[l].capture)
        BY <1>1, Zenon DEF Unheard
      <3>1. k # n /\ k \in DOMAIN calls /\ Pending(calls[k])
        BY <2>6, <2>7, Zenon DEF Only
      <3>2. k[2] \notin EventIds(capture)
        BY <2>3, <3>1 DEF TruthInv, Unheard
      <3>3. ASSUME NEW l \in DOMAIN calls', calls'[l].pc = "store"
            PROVE  k[2] \notin EventIds(calls'[l].capture)
        <4>1. CASE l = n
          BY <2>4, <2>5, <2>7, <3>2, <4>1
        <4>2. CASE l # n
          <5>1. l \in DOMAIN calls /\ calls'[l] = calls[l]
            BY <2>7, <4>2 DEF Only
          <5> QED BY <3>1, <3>3, <5>1, Zenon DEF TruthInv, Unheard
        <4> QED BY <4>1, <4>2
      <3> QED BY <3>2, <3>3
    <2> QED BY <1>2, <2>8, <2>9, <2>10, <2>11 DEF TruthInv
  <1> QED BY <1>3, <1>4

LEMMA TruthStoreClosed ==
  ASSUME TruthInv, NEW n, StoreClosed(n)
  PROVE  TruthInv'
  <1> DEFINE c == [calls[n] EXCEPT !.pc = "pair"]
  <1>0. /\ n \in DOMAIN calls /\ CallFits(sent, n, calls[n])
        /\ calls[n].kind = "stop" /\ calls[n].pc = "store"
    BY DEF StoreClosed, At, TruthInv, CallsFit
  <1>1. /\ UNCHANGED <<page, now, sent, repetitions, onsets>> /\ capture' = calls[n].capture
        /\ calls' = [calls EXCEPT ![n] = c]
    BY DEF StoreClosed, Goto
  <1>2. /\ n = <<"stop", n[2]>> /\ n[2] \in Nat /\ Genuine(sent, calls[n].capture)
        /\ calls[n] \in [kind : {"stop"}, pc : {"store", "pair"}, state : EndStates,
                         capture : {k \in Captures : Genuine(sent, k)}]
    BY <1>0, Shapes
  <1>3. /\ c.kind = "stop" /\ c.pc = "pair"
        /\ c \in [kind : {"stop"}, pc : {"store", "pair"}, state : EndStates,
                  capture : {k \in Captures : Genuine(sent, k)}]
    BY <1>2
  <1> HIDE DEF c
  <1>4. CallFits(sent, n, c) /\ ~Pending(c)
    BY <1>2, <1>3 DEF CallFits, CallShape, Carries, Pending
  <1>5. Only(n) /\ calls'[n] = c
    BY <1>0, <1>1, CallMoves
  <1>6. calls[n].capture # None
    BY <1>2, PracticeConstants DEF Genuine
  <1>7. /\ PageFits' /\ sent' = sent /\ Extends(sent, sent') /\ SentFits' /\ PlacesFit'
    BY <1>1, HandlerKeeps DEF TruthInv, PlacesFit
  <1>8. CallsFit'
    BY <1>4, <1>5, <1>7, CallsFrame DEF TruthInv
  <1>9. CaptureFits'
    BY <1>1, <1>2 DEF CaptureFits
  <1>10. Begun'
    BY <1>1, <1>5, <1>6, BegunFrame DEF TruthInv
  <1>11. Unheard'
    <2> SUFFICES ASSUME NEW k \in DOMAIN calls', Pending(calls'[k])
                 PROVE  /\ k[2] \notin EventIds(calls[n].capture)
                        /\ \A l \in DOMAIN calls' :
                              calls'[l].pc = "store" => k[2] \notin EventIds(calls'[l].capture)
      BY <1>1, Zenon DEF Unheard
    <2>1. k \in DOMAIN calls /\ Pending(calls[k])
      BY <1>4, <1>5, Zenon DEF Only
    <2>2. ASSUME NEW l \in DOMAIN calls', calls'[l].pc = "store"
          PROVE  l \in DOMAIN calls /\ calls'[l] = calls[l]
      <3>1. l # n
        BY <1>3, <1>5, <2>2
      <3> QED BY <1>5, <3>1, Zenon DEF Only
    <2> QED BY <1>0, <2>1, <2>2, Zenon DEF TruthInv, Unheard
  <1> QED BY <1>7, <1>8, <1>9, <1>10, <1>11 DEF TruthInv

\* What is paired is what was sent, in the repetition it was sent with if it is known.
LEMMA PlacesOfNotes ==
  ASSUME TruthInv, capture # None
  PROVE  /\ NotesFit(sent, PairMidiNotes(capture, PlaceOf).notes)
         /\ AreNotes(PairMidiNotes(capture, PlaceOf).notes)
         /\ \A i \in DOMAIN PairMidiNotes(capture, PlaceOf).notes :
               PairMidiNotes(capture, PlaceOf).notes[i].on \in EventIds(capture)
         /\ EventIds(capture) \subseteq DOMAIN repetitions =>
               RepsPlaced(sent, PairMidiNotes(capture, PlaceOf).notes)
  <1> DEFINE f == PlaceOf
  <1>1. Genuine(sent, capture)
    BY DEF TruthInv, CaptureFits
  <1>2. f = [id \in EventIds(capture) |->
                [rep |-> IF id \in DOMAIN repetitions THEN repetitions[id] ELSE 0, onset |-> Absent]]
    BY DEF PlaceOf, EventIds
  <1> HIDE DEF f
  <1>3. \A id \in EventIds(capture) :
           /\ f[id].rep = IF id \in DOMAIN repetitions THEN repetitions[id] ELSE 0
           /\ f[id].onset = Absent
    BY <1>2
  <1>4. \A id \in EventIds(capture) :
           id \in DOMAIN repetitions => f[id].rep = sent[id].place.rep
    BY <1>3 DEF TruthInv, PlacesFit
  <1>5. \A id \in EventIds(capture) : f[id].rep \in {sent[id].place.rep, 0} /\ f[id].onset = Absent
    BY <1>3, <1>4
  <1>6. /\ NotesFit(sent, PairMidiNotes(capture, f).notes)
        /\ AreNotes(PairMidiNotes(capture, f).notes)
        /\ \A i \in DOMAIN PairMidiNotes(capture, f).notes :
               PairMidiNotes(capture, f).notes[i].on \in EventIds(capture)
        /\ (\A id \in EventIds(capture) : f[id].rep = sent[id].place.rep) =>
               RepsPlaced(sent, PairMidiNotes(capture, f).notes)
    BY <1>1, <1>5, PairedNotes
  <1>7. EventIds(capture) \subseteq DOMAIN repetitions =>
            \A id \in EventIds(capture) : f[id].rep = sent[id].place.rep
    BY <1>4
  <1> QED BY <1>6, <1>7 DEF f

\* An onset that is known is that of the note, and the repetition stays.
LEMMA PlacedNotes ==
  ASSUME TruthInv, NEW notes, NotesFit(sent, notes), AreNotes(notes),
         NEW placed, placed = [i \in DOMAIN notes |-> Placed(notes[i])]
  PROVE  /\ NotesFit(sent, placed) /\ AreNotes(placed)
         /\ (RepsPlaced(sent, notes) /\ \A i \in DOMAIN notes : notes[i].on \in DOMAIN onsets) =>
               AllPlaced(sent, placed)
  <1>1. ASSUME NEW i \in DOMAIN notes
        PROVE  LET x == placed[i]
               IN /\ x = [on |-> x.on, off |-> x.off, key |-> x.key, velocity |-> x.velocity,
                          from |-> x.from, until |-> x.until, complete |-> x.complete,
                          rep |-> x.rep, onset |-> x.onset]
                  /\ x.on = notes[i].on /\ x.rep = notes[i].rep
                  /\ x.onset = IF notes[i].on \in DOMAIN onsets THEN onsets[notes[i].on]
                               ELSE notes[i].onset
    <2> DEFINE y == notes[i]
               x == Placed(y)
               o == IF y.on \in DOMAIN onsets THEN onsets[y.on] ELSE y.onset
    <2>1. y = [on |-> y.on, off |-> y.off, key |-> y.key, velocity |-> y.velocity,
               from |-> y.from, until |-> y.until, complete |-> y.complete,
               rep |-> y.rep, onset |-> y.onset]
      BY Zenon DEF AreNotes
    <2>2. placed[i] = x
      OBVIOUS
    <2> HIDE DEF y
    <2>3. x = [on |-> y.on, off |-> y.off, key |-> y.key, velocity |-> y.velocity,
               from |-> y.from, until |-> y.until, complete |-> y.complete,
               rep |-> y.rep, onset |-> o]
      <3>1. CASE y.on \in DOMAIN onsets
        <4>1. x = [y EXCEPT !.onset = o]
          BY <3>1 DEF Placed
        <4> HIDE DEF x, o
        <4> QED BY <2>1, <4>1
      <3>2. CASE y.on \notin DOMAIN onsets
        <4>1. x = y /\ o = y.onset
          BY <3>2 DEF Placed
        <4> HIDE DEF x, o
        <4> QED BY <2>1, <4>1
      <3> QED BY <3>1, <3>2
    <2> HIDE DEF x, o
    <2>4. /\ x = [on |-> x.on, off |-> x.off, key |-> x.key, velocity |-> x.velocity,
                  from |-> x.from, until |-> x.until, complete |-> x.complete,
                  rep |-> x.rep, onset |-> x.onset]
          /\ x.on = y.on /\ x.rep = y.rep /\ x.onset = o
      BY <2>3
    <2> QED BY <2>2, <2>4 DEF y, o
  <1>2. DOMAIN placed = DOMAIN notes
    OBVIOUS
  <1>3. \A id \in DOMAIN onsets : onsets[id] = sent[id].place.onset
    BY DEF TruthInv, PlacesFit
  <1>4. AreNotes(placed)
    BY <1>1, <1>2, Zenon DEF AreNotes
  <1>5. NotesFit(sent, placed)
    BY <1>1, <1>2, <1>3 DEF NotesFit
  <1>6. ASSUME RepsPlaced(sent, notes), \A i \in DOMAIN notes : notes[i].on \in DOMAIN onsets
        PROVE  AllPlaced(sent, placed)
    BY <1>1, <1>2, <1>3, <1>6 DEF RepsPlaced, AllPlaced
  <1> QED BY <1>4, <1>5, <1>6

LEMMA TruthPair ==
  ASSUME TruthInv, NEW n, Pair(n)
  PROVE  TruthInv'
  <1> DEFINE paired == PairMidiNotes(capture, PlaceOf)
  <1>0. /\ n \in DOMAIN calls /\ CallFits(sent, n, calls[n])
        /\ calls[n].kind = "stop" /\ calls[n].pc = "pair"
    BY DEF Pair, At, TruthInv, CallsFit
  <1>1. UNCHANGED <<page, now, sent, capture, repetitions, onsets>>
    BY DEF Pair, serverVars
  <1>2. capture # None
    BY <1>0 DEF TruthInv, Begun
  <1>3. NotesFit(sent, paired.notes) /\ AreNotes(paired.notes)
    BY <1>2, PlacesOfNotes
  <1>4. PICK ids : calls' = [calls EXCEPT ![n] = [kind |-> "stop", pc |-> "place",
                                state |-> calls[n].state, paired |-> paired, ids |-> ids]]
    BY DEF Pair
  <1> HIDE DEF paired
  <1> DEFINE c == [kind |-> "stop", pc |-> "place",
                   state |-> calls[n].state, paired |-> paired, ids |-> ids]
  <1>5. n = <<"stop", n[2]>> /\ n[2] \in Nat
    BY <1>0, Shapes
  <1>6. c.kind = "stop" /\ c.pc = "place" /\ c.paired = paired
    OBVIOUS
  <1>7. calls' = [calls EXCEPT ![n] = c]
    BY <1>4
  <1> HIDE DEF c
  <1>8. CallFits(sent, n, c) /\ ~Pending(c)
    BY <1>3, <1>5, <1>6 DEF CallFits, CallShape, Carries, Pending
  <1>9. Only(n) /\ calls'[n] = c
    BY <1>0, <1>7, CallMoves
  <1>10. PlacesFit'
    BY <1>1 DEF TruthInv, PlacesFit
  <1> QED BY <1>1, <1>2, <1>6, <1>8, <1>9, <1>10, HandlerKeeps, TruthFrame

LEMMA TruthPlaceNotes ==
  ASSUME TruthInv, NEW n, PlaceNotes(n)
  PROVE  TruthInv'
  <1> DEFINE notes == calls[n].paired.notes
             placed == [i \in DOMAIN notes |-> Placed(notes[i])]
             q == [notes |-> placed, unmatched |-> calls[n].paired.unmatched]
             c == [kind |-> "stop", pc |-> "answer", state |-> calls[n].state,
                   ids |-> calls[n].ids, paired |-> q]
  <1>0. /\ n \in DOMAIN calls /\ CallFits(sent, n, calls[n])
        /\ calls[n].kind = "stop" /\ calls[n].pc = "place"
    BY DEF PlaceNotes, At, TruthInv, CallsFit
  <1>1. /\ UNCHANGED <<page, now, sent, capture, repetitions, onsets>>
        /\ calls' = [calls EXCEPT ![n] = c]
    BY DEF PlaceNotes, serverVars
  <1>2. capture # None
    BY <1>0 DEF TruthInv, Begun
  <1>3. n = <<"stop", n[2]>> /\ n[2] \in Nat /\ NotesFit(sent, notes) /\ AreNotes(notes)
    BY <1>0, Shapes
  <1> HIDE DEF notes
  <1>4. NotesFit(sent, placed) /\ AreNotes(placed)
    BY <1>3, PlacedNotes
  <1> HIDE DEF placed
  <1>5. q.notes = placed
    OBVIOUS
  <1> HIDE DEF q
  <1>6. c.kind = "stop" /\ c.pc = "answer" /\ c.paired = q
    OBVIOUS
  <1> HIDE DEF c
  <1>7. CallFits(sent, n, c) /\ ~Pending(c)
    BY <1>3, <1>4, <1>5, <1>6 DEF CallFits, CallShape, Carries, Pending
  <1>8. Only(n) /\ calls'[n] = c
    BY <1>0, <1>1, CallMoves
  <1>9. PlacesFit'
    BY <1>1 DEF TruthInv, PlacesFit
  <1> QED BY <1>1, <1>2, <1>6, <1>7, <1>8, <1>9, HandlerKeeps, TruthFrame

LEMMA TruthAnswerStop ==
  ASSUME TruthInv, NEW n, AnswerStop(n)
  PROVE  TruthInv'
  <1> DEFINE e == [take |-> capture.id, events |-> capture.events, ids |-> calls[n].ids,
                   notes |-> calls[n].paired.notes, unmatched |-> calls[n].paired.unmatched]
             c == [kind |-> "stop", pc |-> "reset", state |-> calls[n].state, evidence |-> e]
  <1>0. /\ n \in DOMAIN calls /\ CallFits(sent, n, calls[n])
        /\ calls[n].kind = "stop" /\ calls[n].pc = "answer"
    BY DEF AnswerStop, At, TruthInv, CallsFit
  <1>1. /\ UNCHANGED <<page, now, sent, capture, repetitions, onsets>>
        /\ calls' = [calls EXCEPT ![n] = c]
    BY DEF AnswerStop, serverVars
  <1>2. capture # None
    BY <1>0 DEF TruthInv, Begun
  <1>3. Faithful(sent, capture.events)
    BY <1>2 DEF TruthInv, CaptureFits, Genuine
  <1>4. n = <<"stop", n[2]>> /\ n[2] \in Nat /\ NotesFit(sent, calls[n].paired.notes)
    BY <1>0, Shapes
  <1>5. e.notes = calls[n].paired.notes /\ e.events = capture.events
    OBVIOUS
  <1> HIDE DEF e
  <1>6. c.kind = "stop" /\ c.pc = "reset" /\ c.evidence = e /\ Answering(sent, c)
    BY <1>3, <1>4, <1>5 DEF Answering
  <1> HIDE DEF c
  <1>7. CallFits(sent, n, c) /\ ~Pending(c)
    BY <1>3, <1>4, <1>5, <1>6 DEF CallFits, CallShape, Carries, Pending
  <1>8. Only(n) /\ calls'[n] = c
    BY <1>0, <1>1, CallMoves
  <1>9. PlacesFit'
    BY <1>1 DEF TruthInv, PlacesFit
  <1> QED BY <1>1, <1>2, <1>6, <1>7, <1>8, <1>9, HandlerKeeps, TruthFrame

\* Beginning a lesson and judging an attempt reach no capture.
LEMMA JudgedCalls ==
  ASSUME TruthInv, NEW n \in DOMAIN calls, Judged(n)
  PROVE  /\ UNCHANGED <<capture, repetitions, onsets, page, now, sent, quiet>>
         /\ Only(n) /\ calls[n].kind \in {"begin", "evaluate"}
         /\ DOMAIN calls' \subseteq DOMAIN calls
         /\ n \in DOMAIN calls' =>
               /\ CallFits(sent, n, calls'[n]) /\ ~Pending(calls'[n])
               /\ calls'[n].kind \in {"begin", "evaluate"} /\ calls'[n].pc # "store"
  <1>0. CallFits(sent, n, calls[n])
    BY DEF TruthInv, CallsFit
  <1>1. UNCHANGED <<capture, repetitions, onsets, page, now, sent, quiet>>
    BY DEF Judged, NameLesson, ClearAttempts, Judge, RecordAttempt
  <1>2. calls[n].kind \in {"begin", "evaluate"}
    BY DEF Judged, NameLesson, ClearAttempts, Judge, RecordAttempt, At
  <1>3. CASE Ends(n)
    BY <1>1, <1>2, <1>3, CallMoves
  <1>4. CASE NameLesson(n)
    <2> DEFINE c == [calls[n] EXCEPT !.pc = "clear"]
    <2>1. calls' = [calls EXCEPT ![n] = c] /\ calls[n].kind = "begin"
      BY <1>4 DEF NameLesson, Goto, At
    <2>2. /\ n = <<"begin", n[2]>> /\ n[2] \in Nat
          /\ calls[n] \in [kind : {"begin"}, pc : {"name", "clear"}, lesson : Lessons]
      BY <1>0, <2>1, Shapes
    <2>3. /\ c.kind = "begin" /\ c.pc = "clear"
          /\ c \in [kind : {"begin"}, pc : {"name", "clear"}, lesson : Lessons]
      BY <2>2
    <2> HIDE DEF c
    <2>4. CallFits(sent, n, c) /\ ~Pending(c)
      BY <2>2, <2>3 DEF CallFits, CallShape, Carries, Pending
    <2>5. Only(n) /\ calls'[n] = c /\ DOMAIN calls' = DOMAIN calls
      BY <2>1, CallMoves
    <2> QED BY <1>1, <1>2, <2>3, <2>4, <2>5
  <1>5. CASE Judge(n) /\ ~Ends(n)
    <2>1. calls[n].kind = "evaluate"
      BY <1>5 DEF Judge, At
    <2>2. PICK r : calls' = [calls EXCEPT ![n] = [kind |-> "evaluate", pc |-> "record", result |-> r]]
      BY <1>5, Zenon DEF Judge
    <2> DEFINE c == [kind |-> "evaluate", pc |-> "record", result |-> r]
    <2>3. c.kind = "evaluate" /\ c.pc = "record" /\ calls' = [calls EXCEPT ![n] = c]
      BY <2>2
    <2> HIDE DEF c
    <2>4. n = <<"evaluate", n[2]>> /\ n[2] \in Nat
      BY <1>0, <2>1, Shapes
    <2>5. CallFits(sent, n, c) /\ ~Pending(c)
      BY <2>3, <2>4 DEF CallFits, CallShape, Carries, Pending
    <2>6. Only(n) /\ calls'[n] = c /\ DOMAIN calls' = DOMAIN calls
      BY <2>3, CallMoves
    <2> QED BY <1>1, <1>2, <2>3, <2>5, <2>6
  <1> QED BY <1>3, <1>4, <1>5, Zenon DEF Judged, ClearAttempts, RecordAttempt

LEMMA TruthJudged ==
  ASSUME TruthInv, NEW n \in DOMAIN calls, Judged(n)
  PROVE  TruthInv'
  <1>1. UNCHANGED <<page, now, sent, capture, repetitions, onsets>> /\ Only(n)
    BY JudgedCalls
  <1>2. PlacesFit'
    BY <1>1 DEF TruthInv, PlacesFit
  <1>3. n \in DOMAIN calls' =>
            /\ CallFits(sent, n, calls'[n]) /\ ~Pending(calls'[n])
            /\ calls'[n].pc # "store" /\ ~HasRead(calls'[n])
    BY JudgedCalls DEF HasRead
  <1> QED BY <1>1, <1>2, <1>3, HandlerKeeps, TruthFrame

LEMMA SnapshotTypes ==
  ASSUME PageFits, NEW t \in Nat
  PROVE  Snapshot(t) \in Places
  <1>1. page.since \in Int /\ LoopSteps \in Nat /\ LoopSteps > 0 /\ Step \in Int
    BY PracticeConstants DEF PageFits, Pages
  <1> DEFINE p == Played(t)
             q == p \div LoopSteps
             r == p % LoopSteps
  <1>2. p \in Int
    BY <1>1 DEF Played
  <1> HIDE DEF p
  <1>3. q \in Int /\ r \in Int
    BY <1>1, <1>2
  <1>4. Snapshot(t) = [rep |-> q, onset |-> r * Step]
    BY DEF Snapshot, p
  <1> HIDE DEF q, r
  <1>5. r * Step \in Int
    BY <1>1, <1>3
  <1> QED BY <1>3, <1>4, <1>5 DEF Places

\* What is new when a message is sent.
LEMMA Sends ==
  ASSUME TruthInv, NEW input \in Inputs, NEW steps \in Gaps, Record(input, steps)
  PROVE  \E number \in Nat, m \in Messages, p \in Places :
            /\ number \notin DOMAIN sent /\ m.id = number /\ m.at = now' * Step
            /\ sent' = Put(sent, number, [message |-> m, place |-> p])
            /\ calls' = Put(calls, <<"message", number>>,
                            [kind |-> "message", pc |-> "number", message |-> m, place |-> p])
            /\ quiet' = IF quiet = None \/ ~CaptureIdle THEN None
                        ELSE [quiet EXCEPT !.events = @ \cup {number}]
            /\ now' \in Nat /\ now <= now' /\ SentFits' /\ Extends(sent, sent')
            /\ DOMAIN sent' = DOMAIN sent \cup {number}
  <1> DEFINE K == Cardinality(DOMAIN sent)
             number == K + 1
             at == now' * Step
             m == [seq |-> Absent, id |-> number, type |-> input.type, key |-> input.key,
                   velocity |-> input.velocity, at |-> at, string |-> Absent]
             p == Snapshot(now')
             x == [message |-> m, place |-> p]
  <1>0. steps \in Nat /\ now \in Nat /\ Step \in Nat
    BY PracticeConstants DEF TruthInv, PageFits
  <1>1. now' \in Nat /\ now <= now'
    BY <1>0 DEF Record, Passes
  <1>2. K \in Nat /\ DOMAIN sent = 1 .. K
    BY DEF TruthInv, SentFits
  <1>3. /\ sent' = Put(sent, number, x)
        /\ calls' = Put(calls, <<"message", number>>,
                        [kind |-> "message", pc |-> "number", message |-> m, place |-> p])
        /\ quiet' = IF quiet = None \/ ~CaptureIdle THEN None
                    ELSE [quiet EXCEPT !.events = @ \cup {number}]
    BY DEF Record, Issue
  <1>4. p \in Places
    <2> DEFINE t == now'
    <2>1. t \in Nat
      BY <1>1
    <2> HIDE DEF t
    <2>2. Snapshot(t) \in Places
      BY <2>1, SnapshotTypes DEF TruthInv
    <2> QED BY <2>2 DEF t
  <1> HIDE DEF p, K
  <1>5. at \in Nat
    BY <1>0, <1>1, Scaled
  <1> HIDE DEF at
  <1>6. m \in Messages /\ m.id = number /\ m.at = at
    <2>1. /\ input.type \in NoteTypes /\ input.key \in 0 .. 127 /\ input.velocity \in 0 .. 127
      BY PracticeConstants
    <2>2. number \in Nat /\ Absent \in Int
      BY <1>2 DEF Absent
    <2> HIDE DEF number
    <2> QED BY <1>5, <2>1, <2>2 DEF Messages
  <1> HIDE DEF m
  <1>7. x \in [message : Messages, place : Places] /\ x.message = m
    BY <1>4, <1>6
  <1> HIDE DEF x
  <1>8. number \in Nat /\ number \notin DOMAIN sent
    BY <1>2
  <1>9. DOMAIN sent' = 1 .. number /\ Extends(sent, sent') /\ sent'[number] = x
        /\ DOMAIN sent' = DOMAIN sent \cup {number}
    <2>1. DOMAIN sent' = DOMAIN sent \cup {number}
      BY <1>3 DEF Put
    <2>2. 1 .. K + 1 = (1 .. K) \cup {K + 1}
      BY <1>2
    <2>3. \A i \in DOMAIN sent : sent'[i] = sent[i]
      BY <1>3, <1>8 DEF Put
    <2>4. sent'[number] = x
      BY <1>3 DEF Put
    <2> QED BY <1>2, <2>1, <2>2, <2>3, <2>4 DEF Extends
  <1>10. Cardinality(DOMAIN sent') = number
    <2>1. 1 \in Int /\ number \in Int /\ 1 <= number /\ number - 1 + 1 = number
      BY <1>2
    <2>2. Cardinality(1 .. number) = number
      BY <2>1, FS_Interval
    <2> QED BY <1>9, <2>2
  <1>11. SentFits'
    <2>1. ASSUME NEW i \in DOMAIN sent'
          PROVE  /\ sent'[i] \in [message : Messages, place : Places]
                 /\ sent'[i].message.id = i /\ sent'[i].message.at <= now' * Step
      <3>1. CASE i = number
        BY <1>5, <1>6, <1>7, <1>9, <3>1 DEF at
      <3>2. CASE i # number
        <4>1. i \in DOMAIN sent /\ sent'[i] = sent[i]
          BY <1>9, <3>2 DEF Extends
        <4>2. /\ sent[i] \in [message : Messages, place : Places]
              /\ sent[i].message.id = i /\ sent[i].message.at <= now * Step
          BY <4>1 DEF TruthInv, SentFits
        <4>3. sent[i].message.at \in Nat
          BY <4>2 DEF Messages
        <4>4. now * Step \in Nat /\ now' * Step \in Nat /\ now * Step <= now' * Step
          BY <1>0, <1>1, Scaled
        <4> QED BY <4>1, <4>2, <4>3, <4>4
      <3> QED BY <3>1, <3>2
    <2> QED BY <1>8, <1>9, <1>10, <2>1 DEF SentFits
  <1> HIDE DEF number
  <1>12. at = now' * Step /\ x = [message |-> m, place |-> p]
    BY DEF at, x
  <1> QED BY <1>1, <1>3, <1>4, <1>6, <1>8, <1>9, <1>11, <1>12

LEMMA TruthRecord ==
  ASSUME TruthInv, NEW input \in Inputs, NEW steps \in Gaps, Record(input, steps)
  PROVE  TruthInv'
  <1>1. PICK number \in Nat, m \in Messages, p \in Places :
            /\ number \notin DOMAIN sent /\ m.id = number /\ m.at = now' * Step
            /\ sent' = Put(sent, number, [message |-> m, place |-> p])
            /\ calls' = Put(calls, <<"message", number>>,
                            [kind |-> "message", pc |-> "number", message |-> m, place |-> p])
            /\ now' \in Nat /\ now <= now' /\ SentFits' /\ Extends(sent, sent')
            /\ DOMAIN sent' = DOMAIN sent \cup {number}
    BY Sends
  <1>2. capture' = capture /\ repetitions' = repetitions /\ onsets' = onsets /\ page' = page
    BY DEF Record, serverVars
  <1>3. PageFits'
    BY <1>1, <1>2 DEF TruthInv, PageFits
  <1>4. PlacesFit'
    BY <1>1, <1>2 DEF TruthInv, PlacesFit, Extends
  <1>5. CaptureFits'
    <2>1. Genuine(sent, capture) => Genuine(sent', capture)
      BY <1>1, FaithfulStays
    <2> QED BY <1>2, <2>1 DEF TruthInv, CaptureFits
  <1> DEFINE n == <<"message", number>>
             c == [kind |-> "message", pc |-> "number", message |-> m, place |-> p]
  <1>6. Only(n) /\ calls'[n] = c
    BY <1>1, CallMoves
  <1>7. n[2] = number /\ n = <<"message", n[2]>>
    OBVIOUS
  <1> HIDE DEF n
  <1>8. /\ c \in [kind : {"message"}, pc : {"number", "map", "onset", "append"},
                  message : Messages, place : Places]
        /\ c.kind = "message" /\ c.pc = "number" /\ c.message = m /\ c.place = p
    OBVIOUS
  <1> HIDE DEF c
  <1>9. sent'[number].message = m /\ sent'[number].place = p /\ number \in DOMAIN sent'
    BY <1>1 DEF Put
  <1>10. CallFits(sent', n, c) /\ ~HasRead(c)
    BY <1>7, <1>8, <1>9 DEF CallFits, CallShape, Carries, HasRead
  <1>11. CallsFit'
    BY <1>1, <1>6, <1>10, CallsFrame DEF TruthInv
  <1>12. Begun'
    BY <1>2, <1>6, <1>10, BegunFrame DEF TruthInv
  <1>13. Unheard'
    <2>1. \A d : Genuine(sent, d) => number \notin EventIds(d)
      BY <1>1 DEF Genuine, Faithful, EventIds
    <2> SUFFICES ASSUME NEW k \in DOMAIN calls', Pending(calls'[k])
                 PROVE  /\ capture # None => k[2] \notin EventIds(capture)
                        /\ \A l \in DOMAIN calls' :
                              calls'[l].pc = "store" => k[2] \notin EventIds(calls'[l].capture)
      BY <1>2, Zenon DEF Unheard
    <2>2. ASSUME NEW l \in DOMAIN calls', calls'[l].pc = "store"
          PROVE  l \in DOMAIN calls /\ calls'[l] = calls[l] /\ Genuine(sent, calls[l].capture)
      <3>1. l # n
        BY <1>6, <1>8, <2>2
      <3>2. l \in DOMAIN calls /\ calls'[l] = calls[l] /\ calls[l].pc = "store"
        BY <1>6, <2>2, <3>1 DEF Only
      <3>3. CallFits(sent, l, calls[l])
        BY <3>2 DEF TruthInv, CallsFit
      <3>4. Genuine(sent, calls[l].capture)
        BY <3>2, <3>3, Shapes DEF Pending
      <3> QED BY <3>2, <3>4
    <2>3. CASE k = n
      <3>1. capture # None => Genuine(sent, capture)
        BY DEF TruthInv, CaptureFits
      <3> QED BY <1>7, <2>1, <2>2, <2>3, <3>1
    <2>4. CASE k # n
      <3>1. k \in DOMAIN calls /\ Pending(calls[k])
        BY <1>6, <2>4, Zenon DEF Only
      <3> QED BY <2>2, <3>1, Zenon DEF TruthInv, Unheard
    <2> QED BY <2>3, <2>4
  <1> QED BY <1>1, <1>3, <1>4, <1>5, <1>11, <1>12, <1>13 DEF TruthInv

LEMMA TruthInit ==
  ASSUME Init
  PROVE  TruthInv
  <1>1. /\ DOMAIN sent = {} /\ DOMAIN calls = {}
        /\ DOMAIN repetitions = {} /\ DOMAIN onsets = {}
    BY DEF Init, NoPlaces
  <1>2. SentFits
    <2>1. Cardinality(DOMAIN sent) = 0
      BY <1>1, FS_EmptySet
    <2> QED BY <1>1, <2>1 DEF SentFits
  <1>3. PageFits
    <2> DEFINE no == FALSE
    <2>1. page \in [active : {no}, starting : {no}, since : {Absent}, lesson : {None},
                    takes : {0}, stops : {0}, loads : {0}, may : Budgets]
      BY DEF Init
    <2>2. no \in BOOLEAN /\ Absent \in Int /\ 0 \in Nat /\ now \in Nat
      BY DEF Init, Absent
    <2> HIDE DEF no
    <2> QED BY <2>1, <2>2 DEF PageFits, Pages
  <1> QED BY <1>1, <1>2, <1>3 DEF Init, TruthInv, CaptureFits, PlacesFit, CallsFit, Begun, Unheard

LEMMA TruthStep ==
  ASSUME TruthInv, [Next]_vars
  PROVE  TruthInv'
  <1>1. CASE StartAttempt
    BY <1>1, TruthStartAttempt
  <1>2. CASE \E input \in Inputs, steps \in Gaps : Record(input, steps)
    BY <1>2, TruthRecord
  <1>3. CASE \E state \in {"COMPLETE", "INTERRUPTED"} : EndAttempt(state)
    BY <1>3, TruthEndAttempt DEF EndStates
  <1>4. CASE \E lesson \in Lessons : LoadLesson(lesson)
    BY <1>4, TruthLoadLesson
  <1>5. ASSUME NEW n \in DOMAIN calls, Answered(n) PROVE TruthInv'
    BY <1>5, TruthStartAnswered, TruthStopAnswered DEF Answered
  <1>6. ASSUME NEW n \in DOMAIN calls, Captured(n) PROVE TruthInv'
    BY <1>6, TruthOpenCapture, TruthResetRepetitions, TruthResetOnsets, TruthNumberEvent,
       TruthMapRepetition, TruthMapOnset, TruthExtend, TruthStoreExtended, TruthCloseActive,
       TruthStoreClosed, TruthPair, TruthPlaceNotes, TruthAnswerStop
       DEF Captured
  <1>7. ASSUME NEW n \in DOMAIN calls, Judged(n) PROVE TruthInv'
    BY <1>7, TruthJudged
  <1>8. CASE UNCHANGED vars
    BY <1>8 DEF vars, serverVars, TruthInv, SentFits, PageFits, CaptureFits, PlacesFit, CallsFit,
                Begun, Unheard
  <1> QED BY <1>1, <1>2, <1>3, <1>4, <1>5, <1>6, <1>7, <1>8 DEF Next

-----------------------------------------------------------------------------
(* A performance whose calls never met                                      *)

Busy(c) == c.kind \in {"start", "message", "stop"}

\* Capture k is that of performance q and holds these messages.
Kept(q, k, ids) == k # None /\ k.id = q.take /\ EventIds(k) = ids
Open(k) == k.state = "IN_PROGRESS" /\ \A i \in DOMAIN k.events : k.events[i].seq < Len(k.events)

\* All of performance q is in capture k, and R and O have the places of all of it.
Whole(q, k, R, O) == Kept(q, k, q.events) /\ q.events \subseteq R /\ q.events \subseteq O

\* What the only call under way knows of performance q, of the capture and of places.
CallWhole(q, k, R, O, s, n, c) ==
    /\ c.kind = "start" => /\ n[2] = q.take /\ q.events = {}
                           /\ c.pc # "open" => Whole(q, k, R, O) /\ Open(k)
    /\ Pending(c) =>
          /\ n[2] \in q.events /\ Kept(q, k, q.events \ {n[2]}) /\ Open(k)
          /\ q.events \ {n[2]} \subseteq R /\ q.events \ {n[2]} \subseteq O
          /\ \A i \in DOMAIN k.events : k.events[i].at <= c.message.at
          /\ c.pc # "number" => c.message.seq = Len(k.events)
          /\ c.pc \in {"onset", "append"} => n[2] \in R
          /\ c.pc = "append" => n[2] \in O
    /\ (c.kind = "message" /\ c.pc = "store") => Whole(q, c.capture, R, O) /\ Open(c.capture)
    /\ c.kind = "stop" =>
          /\ c.pc = "check" => Whole(q, k, R, O) /\ Open(k)
          /\ c.pc = "store" => Whole(q, c.capture, R, O)
          /\ c.pc = "pair" => Whole(q, k, R, O)
          /\ c.pc = "place" =>
                /\ Kept(q, k, q.events) /\ q.events \subseteq O
                /\ RepsPlaced(s, c.paired.notes)
                /\ \A i \in DOMAIN c.paired.notes : c.paired.notes[i].on \in q.events
          /\ c.pc = "answer" => Kept(q, k, q.events) /\ AllPlaced(s, c.paired.notes)
          /\ (c.pc \in {"reset", "resetOnsets", "done"} /\ c.evidence.take = q.take) =>
                /\ q.events = {c.evidence.events[i].id : i \in DOMAIN c.evidence.events}
                /\ AllPlaced(s, c.evidence.notes)

WholeInv ==
    quiet # None =>
        /\ quiet \in [take : Nat, events : SUBSET DOMAIN sent]
        /\ \A m, n \in DOMAIN calls : Busy(calls[m]) /\ Busy(calls[n]) => m = n
        /\ \A n \in DOMAIN calls :
              /\ Busy(calls[n]) => CallWhole(quiet, capture, DOMAIN repetitions, DOMAIN onsets,
                                             sent, n, calls[n])
              /\ calls[n].kind = "stop" => ~page.active
        /\ ((\A n \in DOMAIN calls : ~Busy(calls[n])) /\ page.active) =>
              Whole(quiet, capture, DOMAIN repetitions, DOMAIN onsets) /\ Open(capture)

PracticeInv == TruthInv /\ WholeInv

LEMMA WholeOne ==
  ASSUME quiet' \in [take : Nat, events : SUBSET DOMAIN sent'], NEW n, n \in DOMAIN calls',
         Busy(calls'[n]), \A m \in DOMAIN calls' \ {n} : ~Busy(calls'[m]),
         CallWhole(quiet', capture', DOMAIN repetitions', DOMAIN onsets', sent', n, calls'[n]),
         calls'[n].kind = "stop" => ~page'.active
  PROVE  WholeInv'
  <1>1. \A k, m \in DOMAIN calls' : Busy(calls'[k]) /\ Busy(calls'[m]) => k = m
    BY Zenon
  <1>2. \A m \in DOMAIN calls' :
           /\ Busy(calls'[m]) => CallWhole(quiet', capture', DOMAIN repetitions', DOMAIN onsets',
                                           sent', m, calls'[m])
           /\ calls'[m].kind = "stop" => ~page'.active
    <2> TAKE m \in DOMAIN calls'
    <2>1. m = n \/ ~Busy(calls'[m])
      OBVIOUS
    <2>2. calls'[m].kind = "stop" => Busy(calls'[m])
      BY DEF Busy
    <2> QED BY <2>1, <2>2
  <1> QED BY <1>1, <1>2, Zenon DEF WholeInv

LEMMA WholeIdle ==
  ASSUME quiet' \in [take : Nat, events : SUBSET DOMAIN sent'],
         \A m \in DOMAIN calls' : ~Busy(calls'[m]),
         page'.active => Whole(quiet', capture', DOMAIN repetitions', DOMAIN onsets') /\ Open(capture')
  PROVE  WholeInv'
  <1>1. \A m \in DOMAIN calls' : calls'[m].kind # "stop"
    BY DEF Busy
  <1> QED BY <1>1, Zenon DEF WholeInv

LEMMA OthersIdle ==
  ASSUME WholeInv, quiet # None, NEW n \in DOMAIN calls, Busy(calls[n])
  PROVE  /\ \A m \in DOMAIN calls \ {n} : ~Busy(calls[m])
         /\ CallWhole(quiet, capture, DOMAIN repetitions, DOMAIN onsets, sent, n, calls[n])
         /\ calls[n].kind = "stop" => ~page.active
         /\ quiet \in [take : Nat, events : SUBSET DOMAIN sent]
  BY Zenon DEF WholeInv

\* The only busy call moves on.
LEMMA WholeMoves ==
  ASSUME WholeInv, quiet # None, UNCHANGED <<page, sent, quiet>>,
         NEW n \in DOMAIN calls, Busy(calls[n]), Only(n), n \in DOMAIN calls',
         calls'[n].kind = calls[n].kind,
         CallWhole(quiet, capture', DOMAIN repetitions', DOMAIN onsets', sent, n, calls'[n])
  PROVE  WholeInv'
  <1>1. \A m \in DOMAIN calls' \ {n} : ~Busy(calls'[m])
    BY OthersIdle DEF Only
  <1>2. Busy(calls'[n])
    BY DEF Busy
  <1>3. calls'[n].kind = "stop" => ~page'.active
    BY OthersIdle
  <1>4. quiet' \in [take : Nat, events : SUBSET DOMAIN sent']
    BY OthersIdle
  <1>5. CallWhole(quiet', capture', DOMAIN repetitions', DOMAIN onsets', sent', n, calls'[n])
    OBVIOUS
  <1> QED BY <1>1, <1>2, <1>3, <1>4, <1>5, WholeOne

\* The only busy call ends.
LEMMA WholeEnds ==
  ASSUME WholeInv, quiet # None, UNCHANGED <<sent, quiet>>,
         NEW n \in DOMAIN calls, Busy(calls[n]), Ends(n),
         page'.active => Whole(quiet, capture', DOMAIN repetitions', DOMAIN onsets') /\ Open(capture')
  PROVE  WholeInv'
  <1>1. \A m \in DOMAIN calls' : ~Busy(calls'[m])
    BY OthersIdle, CallMoves DEF Only
  <1>2. quiet' \in [take : Nat, events : SUBSET DOMAIN sent']
    BY OthersIdle
  <1>3. page'.active => Whole(quiet', capture', DOMAIN repetitions', DOMAIN onsets') /\ Open(capture')
    OBVIOUS
  <1> QED BY <1>1, <1>2, <1>3, WholeIdle

LEMMA WholeStartAttempt ==
  ASSUME PracticeInv, StartAttempt
  PROVE  WholeInv'
  <1> SUFFICES ASSUME quiet' # None PROVE WholeInv'
    BY Zenon DEF WholeInv
  <1> DEFINE c == [kind |-> "start", pc |-> "open"]
             n == <<"start", page.takes + 1>>
             q == [take |-> page.takes + 1, events |-> {}]
  <1>1. CaptureIdle /\ quiet' = q
    BY DEF StartAttempt
  <1>2. calls' = Put(calls, n, c)
    BY DEF StartAttempt, Issue
  <1>3. page.takes + 1 \in Nat
    BY PageCounts DEF PracticeInv, TruthInv, PageFits
  <1>4. q \in [take : Nat, events : SUBSET DOMAIN sent'] /\ q.take = n[2] /\ q.events = {}
    BY <1>3
  <1>5. c.kind = "start" /\ c.pc = "open"
    OBVIOUS
  <1> HIDE DEF c, n, q
  <1>6. CallWhole(q, capture', DOMAIN repetitions', DOMAIN onsets', sent', n, c)
    BY <1>4, <1>5 DEF CallWhole, Pending
  <1>7. Only(n) /\ n \in DOMAIN calls' /\ calls'[n] = c
    BY <1>2, CallMoves
  <1>8. \A m \in DOMAIN calls' \ {n} : ~Busy(calls'[m])
    BY <1>1, <1>7 DEF Only, CaptureIdle, Busy
  <1>9. Busy(calls'[n]) /\ calls'[n].kind # "stop"
    BY <1>5, <1>7 DEF Busy
  <1> QED BY <1>1, <1>4, <1>6, <1>7, <1>8, <1>9, WholeOne

LEMMA WholeStartAnswered ==
  ASSUME PracticeInv, NEW n, StartAnswered(n)
  PROVE  WholeInv'
  <1>1. /\ n \in DOMAIN calls /\ calls[n].kind = "start" /\ calls[n].pc = "done" /\ Ends(n)
        /\ UNCHANGED <<capture, repetitions, onsets, sent, quiet>>
    BY DEF StartAnswered, At, serverVars
  <1> SUFFICES ASSUME quiet # None PROVE WholeInv'
    BY <1>1, Zenon DEF WholeInv
  <1>2. Busy(calls[n])
    BY <1>1 DEF Busy
  <1>3. Whole(quiet, capture, DOMAIN repetitions, DOMAIN onsets) /\ Open(capture)
    BY <1>1, <1>2, OthersIdle DEF PracticeInv, CallWhole
  <1> QED BY <1>1, <1>2, <1>3, WholeEnds DEF PracticeInv

LEMMA WholeRecord ==
  ASSUME PracticeInv, NEW input \in Inputs, NEW steps \in Gaps, Record(input, steps)
  PROVE  WholeInv'
  <1> SUFFICES ASSUME quiet' # None PROVE WholeInv'
    BY Zenon DEF WholeInv
  <1>0. TruthInv /\ WholeInv
    BY DEF PracticeInv
  <1>1. PICK number \in Nat, m \in Messages, p \in Places :
            /\ number \notin DOMAIN sent /\ m.id = number /\ m.at = now' * Step
            /\ calls' = Put(calls, <<"message", number>>,
                            [kind |-> "message", pc |-> "number", message |-> m, place |-> p])
            /\ quiet' = IF quiet = None \/ ~CaptureIdle THEN None
                        ELSE [quiet EXCEPT !.events = @ \cup {number}]
            /\ now' \in Nat /\ now <= now'
            /\ DOMAIN sent' = DOMAIN sent \cup {number}
    BY <1>0, Sends
  <1>2. /\ quiet # None /\ CaptureIdle /\ page.active
        /\ capture' = capture /\ repetitions' = repetitions /\ onsets' = onsets
    BY <1>1 DEF Record, serverVars
  <1>3. /\ quiet \in [take : Nat, events : SUBSET DOMAIN sent]
        /\ Whole(quiet, capture, DOMAIN repetitions, DOMAIN onsets) /\ Open(capture)
    BY <1>0, <1>2 DEF WholeInv, CaptureIdle, Busy
  <1> DEFINE n == <<"message", number>>
             c == [kind |-> "message", pc |-> "number", message |-> m, place |-> p]
             q == [quiet EXCEPT !.events = @ \cup {number}]
  <1>4. quiet' = q
    BY <1>1, <1>2
  <1>5. /\ q \in [take : Nat, events : SUBSET DOMAIN sent'] /\ q.take = quiet.take
        /\ q.events \ {number} = quiet.events /\ number \in q.events
    BY <1>1, <1>3
  <1>6. Only(n) /\ n \in DOMAIN calls' /\ calls'[n] = c
    BY <1>1, CallMoves
  <1>7. c.kind = "message" /\ c.pc = "number" /\ c.message = m /\ n[2] = number
    OBVIOUS
  <1> HIDE DEF n, c, q
  <1>8. \A i \in DOMAIN capture.events : capture.events[i].at <= m.at
    <2> TAKE i \in DOMAIN capture.events
    <2> DEFINE e == capture.events[i]
               o == sent[e.id].message
    <2>1. Genuine(sent, capture)
      BY <1>0, <1>3 DEF Whole, Kept, TruthInv, CaptureFits
    <2>2. e \in Messages /\ e.id \in DOMAIN sent /\ e = Numbered(o, e.seq)
      BY <2>1 DEF Genuine, Faithful
    <2>3. o \in Messages /\ o.at <= now * Step
      BY <1>0, <2>2 DEF TruthInv, SentFits
    <2> HIDE DEF o, e
    <2>4. e.at = o.at
      BY <2>2, <2>3 DEF Numbered, Messages
    <2>5. now * Step \in Nat /\ now' * Step \in Nat /\ now * Step <= now' * Step
      BY <1>0, <1>1, Scaled, PracticeConstants DEF TruthInv, PageFits
    <2>6. o.at \in Nat
      BY <2>3 DEF Messages
    <2>7. e.at <= m.at
      BY <1>1, <2>3, <2>4, <2>5, <2>6
    <2> QED BY <2>7 DEF e
  <1>9. CallWhole(q, capture', DOMAIN repetitions', DOMAIN onsets', sent', n, c)
    BY <1>2, <1>3, <1>5, <1>7, <1>8 DEF CallWhole, Pending, Whole, Kept
  <1>10. \A k \in DOMAIN calls' \ {n} : ~Busy(calls'[k])
    BY <1>2, <1>6 DEF Only, CaptureIdle, Busy
  <1>11. Busy(calls'[n]) /\ calls'[n].kind # "stop"
    BY <1>6, <1>7 DEF Busy
  <1> QED BY <1>4, <1>5, <1>6, <1>9, <1>10, <1>11, WholeOne

LEMMA WholeEndAttempt ==
  ASSUME PracticeInv, NEW state \in EndStates, EndAttempt(state)
  PROVE  WholeInv'
  <1> SUFFICES ASSUME quiet' # None PROVE WholeInv'
    BY Zenon DEF WholeInv
  <1> DEFINE n == <<"stop", page.stops + 1>>
             c == [kind |-> "stop", pc |-> "check", state |-> state, capture |-> None]
  <1>1. /\ CaptureIdle /\ quiet' = quiet /\ UNCHANGED <<capture, repetitions, onsets, sent>>
        /\ page.active
    BY DEF EndAttempt, serverVars
  <1>2. calls' = Put(calls, n, c)
    BY DEF EndAttempt, Issue
  <1>3. /\ quiet \in [take : Nat, events : SUBSET DOMAIN sent]
        /\ Whole(quiet, capture, DOMAIN repetitions, DOMAIN onsets) /\ Open(capture)
    BY <1>1 DEF PracticeInv, WholeInv, CaptureIdle, Busy
  <1>4. c.kind = "stop" /\ c.pc = "check"
    OBVIOUS
  <1> HIDE DEF n, c
  <1>5. Only(n) /\ n \in DOMAIN calls' /\ calls'[n] = c
    BY <1>2, CallMoves
  <1>6. CallWhole(quiet', capture', DOMAIN repetitions', DOMAIN onsets', sent', n, c)
    BY <1>1, <1>3, <1>4 DEF CallWhole, Pending
  <1>7. \A k \in DOMAIN calls' \ {n} : ~Busy(calls'[k])
    BY <1>1, <1>5 DEF Only, CaptureIdle, Busy
  <1>8. Busy(calls'[n])
    BY <1>4, <1>5 DEF Busy
  <1>9. ~page'.active
    BY DEF EndAttempt, PracticeInv, TruthInv, PageFits, Pages
  <1> QED BY <1>1, <1>3, <1>5, <1>6, <1>7, <1>8, <1>9, WholeOne

LEMMA WholeStopAnswered ==
  ASSUME PracticeInv, NEW n, NEW steps, StopAnswered(n, steps)
  PROVE  WholeInv'
  <1>1. /\ n \in DOMAIN calls /\ calls[n].kind = "stop"
        /\ UNCHANGED <<capture, repetitions, onsets, sent, quiet, page>>
    BY DEF StopAnswered, At, serverVars
  <1> SUFFICES ASSUME quiet # None PROVE WholeInv'
    BY <1>1, Zenon DEF WholeInv
  <1>2. Busy(calls[n])
    BY <1>1 DEF Busy
  <1>3. /\ ~page'.active /\ quiet' \in [take : Nat, events : SUBSET DOMAIN sent']
        /\ \A m \in DOMAIN calls \ {n} : ~Busy(calls[m])
    BY <1>1, <1>2, OthersIdle DEF PracticeInv
  <1>4. CASE Ends(n)
    BY <1>1, <1>2, <1>3, <1>4, WholeEnds DEF PracticeInv
  <1>5. CASE ~Ends(n)
    <2> DEFINE m == <<"evaluate", n[2]>>
    <2>1. PICK rate \in PracticeRates :
              calls' = Put([k \in DOMAIN calls \ {n} |-> calls[k]], m,
                      [kind |-> "evaluate", pc |-> "judge", lesson |-> page.lesson,
                       notes |-> calls[n].evidence.notes, ids |-> calls[n].evidence.ids,
                       rate |-> rate, reps |-> Max({1, Snapshot(now').rep})])
      BY <1>5 DEF StopAnswered
    <2> DEFINE c == [kind |-> "evaluate", pc |-> "judge", lesson |-> page.lesson,
                     notes |-> calls[n].evidence.notes, ids |-> calls[n].evidence.ids,
                     rate |-> rate, reps |-> Max({1, Snapshot(now').rep})]
    <2>2. c.kind = "evaluate" /\ calls' = Put([k \in DOMAIN calls \ {n} |-> calls[k]], m, c)
      BY <2>1
    <2> HIDE DEF c, m
    <2>3. \A k \in DOMAIN calls' : ~Busy(calls'[k])
      BY <1>3, <2>2 DEF Put, Busy
    <2> QED BY <1>3, <2>3, WholeIdle
  <1> QED BY <1>4, <1>5

\* Calls that reach no capture do not meet those that do.
LEMMA WholeAside ==
  ASSUME WholeInv, UNCHANGED <<capture, repetitions, onsets, sent, quiet>>,
         page'.active = page.active,
         NEW n, Only(n), DOMAIN calls \subseteq DOMAIN calls' \cup {n},
         n \in DOMAIN calls => ~Busy(calls[n]), n \in DOMAIN calls' => ~Busy(calls'[n])
  PROVE  WholeInv'
  <1> SUFFICES ASSUME quiet # None PROVE WholeInv'
    BY Zenon DEF WholeInv
  <1>1. quiet' \in [take : Nat, events : SUBSET DOMAIN sent']
    BY DEF WholeInv
  <1>2. CASE \A m \in DOMAIN calls : ~Busy(calls[m])
    <2>1. \A m \in DOMAIN calls' : ~Busy(calls'[m])
      BY <1>2, Zenon DEF Only
    <2>2. page'.active => Whole(quiet', capture', DOMAIN repetitions', DOMAIN onsets') /\ Open(capture')
      BY <1>2 DEF WholeInv
    <2> QED BY <1>1, <2>1, <2>2, WholeIdle
  <1>3. ASSUME NEW m \in DOMAIN calls, Busy(calls[m])
        PROVE  WholeInv'
    <2>1. m # n /\ m \in DOMAIN calls' /\ calls'[m] = calls[m]
      BY <1>3, Zenon DEF Only
    <2>2. \A k \in DOMAIN calls' \ {m} : ~Busy(calls'[k])
      BY <1>3, OthersIdle DEF Only
    <2>3. /\ CallWhole(quiet', capture', DOMAIN repetitions', DOMAIN onsets', sent', m, calls'[m])
          /\ calls'[m].kind = "stop" => ~page'.active
      BY <1>3, <2>1, OthersIdle
    <2> QED BY <1>1, <1>3, <2>1, <2>2, <2>3, WholeOne
  <1> QED BY <1>2, <1>3

LEMMA WholeLoadLesson ==
  ASSUME PracticeInv, NEW lesson \in Lessons, LoadLesson(lesson)
  PROVE  WholeInv'
  <1> DEFINE n == <<"begin", page.loads + 1>>
             c == [kind |-> "begin", pc |-> "name", lesson |-> lesson]
  <1>1. UNCHANGED <<capture, repetitions, onsets, sent, quiet>> /\ calls' = Put(calls, n, c)
    BY DEF LoadLesson, Issue, serverVars
  <1>2. c.kind = "begin" /\ n[1] = "begin"
    OBVIOUS
  <1>3. page'.active = page.active
    BY DEF LoadLesson, PracticeInv, TruthInv, PageFits, Pages
  <1> HIDE DEF n, c
  <1>4. Only(n) /\ DOMAIN calls' = DOMAIN calls \cup {n} /\ calls'[n] = c
    BY <1>1, CallMoves
  <1>5. n \in DOMAIN calls => ~Busy(calls[n])
    <2> SUFFICES ASSUME n \in DOMAIN calls PROVE ~Busy(calls[n])
      OBVIOUS
    <2>1. CallFits(sent, n, calls[n])
      BY DEF PracticeInv, TruthInv, CallsFit
    <2>2. n = <<calls[n].kind, n[2]>>
      BY <2>1, Zenon DEF CallFits
    <2>3. n[1] = calls[n].kind
      BY <2>2
    <2> QED BY <1>2, <2>3 DEF Busy
  <1>6. ~Busy(c)
    BY <1>2 DEF Busy
  <1>7. DOMAIN calls \subseteq DOMAIN calls' \cup {n}
    BY <1>4
  <1>8. n \in DOMAIN calls' => ~Busy(calls'[n])
    BY <1>4, <1>6
  <1>9. WholeInv
    BY DEF PracticeInv
  <1> QED BY <1>1, <1>3, <1>4, <1>5, <1>7, <1>8, <1>9, WholeAside

LEMMA WholeJudged ==
  ASSUME PracticeInv, NEW n \in DOMAIN calls, Judged(n)
  PROVE  WholeInv'
  <1>1. /\ UNCHANGED <<capture, repetitions, onsets, page, now, sent, quiet>> /\ Only(n)
        /\ ~Busy(calls[n])
        /\ n \in DOMAIN calls' => ~Busy(calls'[n])
    BY JudgedCalls DEF PracticeInv, Busy
  <1>2. DOMAIN calls \subseteq DOMAIN calls' \cup {n}
    <2>1. Ends(n) \/ \E c : calls' = [calls EXCEPT ![n] = c]
      BY Zenon DEF Judged, NameLesson, ClearAttempts, Judge, RecordAttempt, Goto
    <2> QED BY <2>1, CallMoves
  <1> QED BY <1>1, <1>2, WholeAside DEF PracticeInv

LEMMA WholeOpenCapture ==
  ASSUME PracticeInv, NEW n, OpenCapture(n)
  PROVE  WholeInv'
  <1> DEFINE c == [calls[n] EXCEPT !.pc = "reset"]
  <1>1. /\ n \in DOMAIN calls /\ calls[n].kind = "start" /\ capture' = BuildRawCapture(n[2])
        /\ UNCHANGED <<repetitions, onsets, page, sent, quiet>> /\ calls' = [calls EXCEPT ![n] = c]
    BY DEF OpenCapture, At, Goto
  <1> SUFFICES ASSUME quiet # None PROVE WholeInv'
    BY <1>1, Zenon DEF WholeInv
  <1>2. /\ n[2] \in Nat
        /\ calls[n] \in [kind : {"start"}, pc : {"open", "reset", "resetOnsets", "done"}]
    <2>1. CallFits(sent, n, calls[n])
      BY <1>1 DEF PracticeInv, TruthInv, CallsFit
    <2> QED BY <1>1, <2>1, Shapes, Zenon
  <1>3. c.kind = "start" /\ c.pc = "reset"
    BY <1>2
  <1> HIDE DEF c
  <1>4. Busy(calls[n])
    BY <1>1 DEF Busy
  <1>5. n[2] = quiet.take /\ quiet.events = {}
    BY <1>1, <1>4, OthersIdle DEF PracticeInv, CallWhole
  <1>6. Kept(quiet, capture', {}) /\ Open(capture')
    <2> DEFINE k == BuildRawCapture(n[2])
    <2>1. /\ Genuine(sent, k) /\ EventIds(k) = {} /\ k.id = n[2] /\ k.events = <<>>
          /\ k.state = "IN_PROGRESS"
      BY <1>2, NewCapture
    <2>2. capture' = k
      BY <1>1
    <2> HIDE DEF k
    <2>3. k # None
      BY <2>1, PracticeConstants DEF Genuine
    <2>4. \A i \in DOMAIN k.events : k.events[i].seq < Len(k.events)
      BY <2>1
    <2> QED BY <1>5, <2>1, <2>2, <2>3, <2>4 DEF Kept, Open
  <1>7. CallWhole(quiet, capture', DOMAIN repetitions', DOMAIN onsets', sent, n, c)
    BY <1>3, <1>5, <1>6 DEF CallWhole, Whole, Pending
  <1>8. Only(n) /\ n \in DOMAIN calls' /\ calls'[n] = c
    BY <1>1, CallMoves
  <1> QED BY <1>1, <1>3, <1>4, <1>7, <1>8, WholeMoves DEF PracticeInv

LEMMA WholeResetRepetitions ==
  ASSUME PracticeInv, NEW n, ResetRepetitions(n)
  PROVE  WholeInv'
  <1> DEFINE c == [calls[n] EXCEPT !.pc = "resetOnsets"]
  <1>1. /\ n \in DOMAIN calls /\ calls[n].kind \in {"start", "stop"} /\ calls[n].pc = "reset"
        /\ UNCHANGED <<capture, onsets, page, sent, quiet>> /\ calls' = [calls EXCEPT ![n] = c]
    BY DEF ResetRepetitions, At, Goto
  <1> SUFFICES ASSUME quiet # None PROVE WholeInv'
    BY <1>1, Zenon DEF WholeInv
  <1>2. /\ c.kind = calls[n].kind /\ c.pc = "resetOnsets" /\ ~Pending(c)
        /\ c.kind = "stop" => c.evidence = calls[n].evidence
    <2>1. CallFits(sent, n, calls[n])
      BY <1>1 DEF PracticeInv, TruthInv, CallsFit
    <2> QED BY <1>1, <2>1, Resetting
  <1> HIDE DEF c
  <1>3. Busy(calls[n])
    BY <1>1 DEF Busy
  <1>4. CallWhole(quiet, capture, DOMAIN repetitions, DOMAIN onsets, sent, n, calls[n])
    BY <1>1, <1>3, OthersIdle DEF PracticeInv
  <1>5. CallWhole(quiet, capture', DOMAIN repetitions', DOMAIN onsets', sent, n, c)
    BY <1>1, <1>2, <1>4 DEF CallWhole, Whole
  <1>6. Only(n) /\ n \in DOMAIN calls' /\ calls'[n] = c
    BY <1>1, CallMoves
  <1> QED BY <1>1, <1>2, <1>3, <1>5, <1>6, WholeMoves DEF PracticeInv

LEMMA WholeResetOnsets ==
  ASSUME PracticeInv, NEW n, ResetOnsets(n)
  PROVE  WholeInv'
  <1> DEFINE c == [calls[n] EXCEPT !.pc = "done"]
  <1>1. /\ n \in DOMAIN calls /\ calls[n].kind \in {"start", "stop"}
        /\ calls[n].pc = "resetOnsets"
        /\ UNCHANGED <<capture, repetitions, page, sent, quiet>>
        /\ calls' = [calls EXCEPT ![n] = c]
    BY DEF ResetOnsets, At, Goto
  <1> SUFFICES ASSUME quiet # None PROVE WholeInv'
    BY <1>1, Zenon DEF WholeInv
  <1>2. /\ c.kind = calls[n].kind /\ c.pc = "done" /\ ~Pending(c)
        /\ c.kind = "stop" => c.evidence = calls[n].evidence
    <2>1. CallFits(sent, n, calls[n])
      BY <1>1 DEF PracticeInv, TruthInv, CallsFit
    <2> QED BY <1>1, <2>1, Resetting
  <1> HIDE DEF c
  <1>3. Busy(calls[n])
    BY <1>1 DEF Busy
  <1>4. CallWhole(quiet, capture, DOMAIN repetitions, DOMAIN onsets, sent, n, calls[n])
    BY <1>1, <1>3, OthersIdle DEF PracticeInv
  <1>5. CallWhole(quiet, capture', DOMAIN repetitions', DOMAIN onsets', sent, n, c)
    BY <1>1, <1>2, <1>4 DEF CallWhole, Whole
  <1>6. Only(n) /\ n \in DOMAIN calls' /\ calls'[n] = c
    BY <1>1, CallMoves
  <1> QED BY <1>1, <1>2, <1>3, <1>5, <1>6, WholeMoves DEF PracticeInv

\* A message on its way, what it says and what it finds.
LEMMA PendingFacts ==
  ASSUME PracticeInv, quiet # None, NEW n \in DOMAIN calls, Pending(calls[n])
  PROVE  /\ calls[n] \in [kind : {"message"}, pc : {"number", "map", "onset", "append"},
                          message : Messages, place : Places]
         /\ Busy(calls[n]) /\ calls[n].kind = "message" /\ n[2] \in DOMAIN sent
         /\ calls[n].message.id = n[2]
         /\ calls[n].pc # "number" =>
               /\ calls[n].message.seq \in Nat
               /\ calls[n].message = Numbered(sent[n[2]].message, calls[n].message.seq)
         /\ CallWhole(quiet, capture, DOMAIN repetitions, DOMAIN onsets, sent, n, calls[n])
         /\ capture # None /\ Genuine(sent, capture) /\ Open(capture)
  <1>1. CallFits(sent, n, calls[n])
    BY DEF PracticeInv, TruthInv, CallsFit
  <1>2. /\ calls[n] \in [kind : {"message"}, pc : {"number", "map", "onset", "append"},
                         message : Messages, place : Places]
        /\ n[2] \in DOMAIN sent
        /\ calls[n].pc = "number" => calls[n].message = sent[n[2]].message
        /\ calls[n].pc # "number" =>
               /\ calls[n].message.seq \in Nat
               /\ calls[n].message = Numbered(sent[n[2]].message, calls[n].message.seq)
    BY <1>1, Shapes
  <1>3. Busy(calls[n]) /\ calls[n].kind = "message"
    BY DEF Busy, Pending
  <1>4. CallWhole(quiet, capture, DOMAIN repetitions, DOMAIN onsets, sent, n, calls[n])
    BY <1>3, OthersIdle DEF PracticeInv
  <1>5. capture # None /\ Open(capture)
    BY <1>4 DEF CallWhole, Kept
  <1>6. Genuine(sent, capture)
    BY <1>5 DEF PracticeInv, TruthInv, CaptureFits
  <1>7. calls[n].message.id = n[2]
    <2>1. sent[n[2]].message \in Messages /\ sent[n[2]].message.id = n[2]
      BY <1>2 DEF PracticeInv, TruthInv, SentFits
    <2>2. CASE calls[n].pc = "number"
      BY <1>2, <2>1, <2>2
    <2>3. CASE calls[n].pc # "number"
      <3>1. Numbered(sent[n[2]].message, calls[n].message.seq).id = sent[n[2]].message.id
        BY <1>2, <2>1, <2>3, NumberedFields
      <3> QED BY <1>2, <2>1, <2>3, <3>1, Zenon
    <2> QED BY <2>2, <2>3
  <1> QED BY <1>2, <1>3, <1>4, <1>5, <1>6, <1>7

LEMMA WholeNumberEvent ==
  ASSUME PracticeInv, NEW n, NumberEvent(n)
  PROVE  WholeInv'
  <1>1. /\ n \in DOMAIN calls /\ calls[n].kind = "message" /\ calls[n].pc = "number"
        /\ UNCHANGED <<capture, repetitions, onsets, page, sent, quiet>>
    BY DEF NumberEvent, At, serverVars
  <1> SUFFICES ASSUME quiet # None PROVE WholeInv'
    BY <1>1, Zenon DEF WholeInv
  <1>2. Pending(calls[n])
    BY <1>1 DEF Pending
  <1>3. /\ calls[n] \in [kind : {"message"}, pc : {"number", "map", "onset", "append"},
                         message : Messages, place : Places]
        /\ Busy(calls[n])
        /\ CallWhole(quiet, capture, DOMAIN repetitions, DOMAIN onsets, sent, n, calls[n])
        /\ capture # None /\ Genuine(sent, capture) /\ Open(capture)
    BY <1>1, <1>2, PendingFacts
  <1> DEFINE m == Numbered(calls[n].message, Len(capture.events))
             c == [calls[n] EXCEPT !.pc = "map", !.message = m]
  <1>4. calls' = [calls EXCEPT ![n] = c]
    <2>1. CaptureOpen
      BY <1>3 DEF Open, CaptureOpen, Closed, TerminalStates
    <2> QED BY <2>1 DEF NumberEvent
  <1>5. m \in Messages /\ m.seq = Len(capture.events) /\ m.at = calls[n].message.at
    <2>1. Len(capture.events) \in Nat /\ calls[n].message \in Messages
      BY <1>3 DEF Genuine, Captures
    <2> QED BY <2>1, NumberedFields
  <1> HIDE DEF m
  <1>6. c.kind = "message" /\ c.pc = "map" /\ c.message = m
    BY <1>3
  <1> HIDE DEF c
  <1>7. CallWhole(quiet, capture', DOMAIN repetitions', DOMAIN onsets', sent, n, c)
    BY <1>1, <1>2, <1>3, <1>5, <1>6 DEF CallWhole, Pending
  <1>8. Only(n) /\ n \in DOMAIN calls' /\ calls'[n] = c
    BY <1>1, <1>4, CallMoves
  <1> QED BY <1>1, <1>3, <1>6, <1>7, <1>8, WholeMoves DEF PracticeInv

LEMMA WholeMapRepetition ==
  ASSUME PracticeInv, NEW n, MapRepetition(n)
  PROVE  WholeInv'
  <1> DEFINE c == [calls[n] EXCEPT !.pc = "onset"]
  <1>1. /\ n \in DOMAIN calls /\ calls[n].kind = "message" /\ calls[n].pc = "map"
        /\ UNCHANGED <<capture, onsets, page, sent, quiet>> /\ calls' = [calls EXCEPT ![n] = c]
    BY DEF MapRepetition, At, Goto
  <1> SUFFICES ASSUME quiet # None PROVE WholeInv'
    BY <1>1, Zenon DEF WholeInv
  <1>2. Pending(calls[n])
    BY <1>1 DEF Pending
  <1>3. /\ calls[n] \in [kind : {"message"}, pc : {"number", "map", "onset", "append"},
                         message : Messages, place : Places]
        /\ Busy(calls[n]) /\ calls[n].message.id = n[2]
        /\ CallWhole(quiet, capture, DOMAIN repetitions, DOMAIN onsets, sent, n, calls[n])
    BY <1>1, <1>2, PendingFacts
  <1>4. c.kind = "message" /\ c.pc = "onset" /\ c.message = calls[n].message
    BY <1>3
  <1> HIDE DEF c
  <1>5. DOMAIN repetitions' = DOMAIN repetitions \cup {n[2]}
    BY <1>3 DEF MapRepetition, Put
  <1>6. CallWhole(quiet, capture', DOMAIN repetitions', DOMAIN onsets', sent, n, c)
    BY <1>1, <1>2, <1>3, <1>4, <1>5 DEF CallWhole, Pending
  <1>7. Only(n) /\ n \in DOMAIN calls' /\ calls'[n] = c
    BY <1>1, CallMoves
  <1> QED BY <1>1, <1>3, <1>4, <1>6, <1>7, WholeMoves DEF PracticeInv

LEMMA WholeMapOnset ==
  ASSUME PracticeInv, NEW n, MapOnset(n)
  PROVE  WholeInv'
  <1> DEFINE c == [calls[n] EXCEPT !.pc = "append"]
  <1>1. /\ n \in DOMAIN calls /\ calls[n].kind = "message" /\ calls[n].pc = "onset"
        /\ UNCHANGED <<capture, repetitions, page, sent, quiet>> /\ calls' = [calls EXCEPT ![n] = c]
    BY DEF MapOnset, At, Goto
  <1> SUFFICES ASSUME quiet # None PROVE WholeInv'
    BY <1>1, Zenon DEF WholeInv
  <1>2. Pending(calls[n])
    BY <1>1 DEF Pending
  <1>3. /\ calls[n] \in [kind : {"message"}, pc : {"number", "map", "onset", "append"},
                         message : Messages, place : Places]
        /\ Busy(calls[n]) /\ calls[n].message.id = n[2]
        /\ CallWhole(quiet, capture, DOMAIN repetitions, DOMAIN onsets, sent, n, calls[n])
    BY <1>1, <1>2, PendingFacts
  <1>4. c.kind = "message" /\ c.pc = "append" /\ c.message = calls[n].message
    BY <1>3
  <1> HIDE DEF c
  <1>5. DOMAIN onsets' = DOMAIN onsets \cup {n[2]}
    BY <1>3 DEF MapOnset, Put
  <1>6. CallWhole(quiet, capture', DOMAIN repetitions', DOMAIN onsets', sent, n, c)
    BY <1>1, <1>2, <1>3, <1>4, <1>5 DEF CallWhole, Pending
  <1>7. Only(n) /\ n \in DOMAIN calls' /\ calls'[n] = c
    BY <1>1, CallMoves
  <1> QED BY <1>1, <1>3, <1>4, <1>6, <1>7, WholeMoves DEF PracticeInv

LEMMA WholeExtend ==
  ASSUME PracticeInv, NEW n, Extend(n)
  PROVE  WholeInv'
  <1> DEFINE m == calls[n].message
             d == AppendEvent(capture, m)
             c == [kind |-> "message", pc |-> "store", capture |-> d]
  <1>1. /\ n \in DOMAIN calls /\ calls[n].kind = "message" /\ calls[n].pc = "append"
        /\ UNCHANGED <<capture, repetitions, onsets, page, sent, quiet>>
    BY DEF Extend, At, serverVars
  <1> SUFFICES ASSUME quiet # None PROVE WholeInv'
    BY <1>1, Zenon DEF WholeInv
  <1>2. Pending(calls[n])
    BY <1>1 DEF Pending
  <1>3. /\ m \in Messages /\ m.id = n[2] /\ n[2] \in DOMAIN sent /\ m.seq \in Nat
        /\ m = Numbered(sent[n[2]].message, m.seq)
        /\ Busy(calls[n])
        /\ CallWhole(quiet, capture, DOMAIN repetitions, DOMAIN onsets, sent, n, calls[n])
        /\ capture # None /\ Genuine(sent, capture) /\ Open(capture)
    BY <1>1, <1>2, PendingFacts
  <1>4. /\ n[2] \in quiet.events /\ Kept(quiet, capture, quiet.events \ {n[2]})
        /\ quiet.events \ {n[2]} \subseteq DOMAIN repetitions
        /\ quiet.events \ {n[2]} \subseteq DOMAIN onsets
        /\ \A i \in DOMAIN capture.events : capture.events[i].at <= m.at
        /\ m.seq = Len(capture.events) /\ n[2] \in DOMAIN repetitions /\ n[2] \in DOMAIN onsets
    BY <1>1, <1>2, <1>3 DEF CallWhole
  <1>5. Extend(n) /\ calls[n].message = m
    OBVIOUS
  <1> HIDE DEF m
  <1> DEFINE events == Append(capture.events, m)
             x == [capture EXCEPT !.events = events]
  <1>6. /\ capture \in Captures /\ CaptureContract(capture) /\ capture.events \in Seq(Messages)
        /\ Len(capture.events) \in Nat /\ DOMAIN capture.events = 1 .. Len(capture.events)
    BY <1>3 DEF Genuine, Captures
  <1>7. /\ Len(events) = Len(capture.events) + 1 /\ events[Len(capture.events) + 1] = m
        /\ \A i \in 1 .. Len(capture.events) : events[i] = capture.events[i]
        /\ DOMAIN events = 1 .. Len(capture.events) + 1
    BY <1>3, <1>6
  <1>8. CanAppend(capture, m)
    <2>1. ~Closed(capture)
      BY <1>3 DEF Open, Closed, TerminalStates
    <2>2. EventContract(m)
      <3>1. sent[n[2]].message \in Messages
        BY <1>3 DEF PracticeInv, TruthInv, SentFits
      <3>2. EventContract(Numbered(sent[n[2]].message, m.seq))
        BY <1>3, <3>1, NumberedFields
      <3> QED BY <1>3, <3>2, Zenon
    <2> HIDE DEF events
    <2>3. x.events = events /\ x.state = capture.state /\ x.ended = capture.ended
      BY <1>6 DEF Captures
    <2> HIDE DEF x
    <2>4. ASSUME NEW i \in 1 .. Len(events) - 1
          PROVE  events[i].seq < events[i + 1].seq /\ events[i].at <= events[i + 1].at
      <3>1. i \in 1 .. Len(capture.events) /\ events[i] = capture.events[i]
        BY <1>6, <1>7
      <3>2. CASE i = Len(capture.events)
        <4>1. events[i + 1] = m
          BY <1>7, <3>2
        <4>2. capture.events[i].seq < Len(capture.events) /\ capture.events[i].at <= m.at
          BY <1>3, <1>4, <1>6, <3>1 DEF Open
        <4> QED BY <1>4, <3>1, <4>1, <4>2
      <3>3. CASE i # Len(capture.events)
        <4>1. i \in 1 .. Len(capture.events) - 1 /\ i + 1 \in 1 .. Len(capture.events)
          BY <1>6, <3>1, <3>3
        <4>2. events[i + 1] = capture.events[i + 1]
          BY <1>7, <4>1
        <4> QED BY <1>6, <3>1, <4>1, <4>2 DEF CaptureContract
      <3> QED BY <3>2, <3>3
    <2>5. CaptureContract(x)
      BY <1>6, <2>3, <2>4 DEF CaptureContract
    <2> QED BY <2>1, <2>2, <2>5 DEF CanAppend, x, events
  <1> HIDE DEF x, events
  <1>9. calls' = [calls EXCEPT ![n] = c]
    BY <1>5, <1>8 DEF Extend
  <1>10. /\ Genuine(sent, d) /\ EventIds(d) = EventIds(capture) \cup {n[2]}
         /\ d.id = capture.id /\ d.state = capture.state /\ d.events = events
    <2>1. m = Numbered(sent[m.id].message, m.seq)
      BY <1>3, Zenon
    <2>2. n[2] \notin EventIds(capture)
      BY <1>4 DEF Kept
    <2>3. m.id \in DOMAIN sent /\ m.id \notin EventIds(capture)
      BY <1>3, <2>2
    <2> QED BY <1>3, <1>8, <2>1, <2>3, AppendedEvents DEF events
  <1> HIDE DEF d
  <1>11. d # None
    BY <1>10, PracticeConstants DEF Genuine
  <1>12. EventIds(d) = quiet.events /\ d.id = quiet.take
    BY <1>4, <1>10 DEF Kept
  <1>13. Open(d)
    <2>1. ASSUME NEW i \in DOMAIN d.events PROVE d.events[i].seq < Len(d.events)
      <3>1. CASE i = Len(capture.events) + 1
        BY <1>4, <1>6, <1>7, <1>10, <3>1
      <3>2. CASE i # Len(capture.events) + 1
        <4>1. i \in 1 .. Len(capture.events) /\ d.events[i] = capture.events[i]
          BY <1>6, <1>7, <1>10, <3>2
        <4>2. capture.events[i].seq < Len(capture.events)
          BY <1>3, <1>6, <4>1 DEF Open
        <4>3. capture.events[i].seq \in Int
          <5>1. capture.events[i] \in Messages
            BY <1>6, <4>1
          <5> QED BY <5>1 DEF Messages
        <4> QED BY <1>6, <1>7, <1>10, <4>1, <4>2, <4>3
      <3> QED BY <3>1, <3>2
    <2> QED BY <1>3, <1>10, <2>1 DEF Open
  <1>14. c.kind = "message" /\ c.pc = "store" /\ c.capture = d
    OBVIOUS
  <1> HIDE DEF c
  <1>15. CallWhole(quiet, capture', DOMAIN repetitions', DOMAIN onsets', sent, n, c)
    <2>1. quiet.events \subseteq DOMAIN repetitions /\ quiet.events \subseteq DOMAIN onsets
      BY <1>4
    <2> QED BY <1>1, <1>11, <1>12, <1>13, <1>14, <2>1 DEF CallWhole, Pending, Whole, Kept
  <1>16. Only(n) /\ n \in DOMAIN calls' /\ calls'[n] = c
    BY <1>1, <1>9, CallMoves
  <1> QED BY <1>1, <1>3, <1>14, <1>15, <1>16, WholeMoves DEF PracticeInv

LEMMA WholeStoreExtended ==
  ASSUME PracticeInv, NEW n, StoreExtended(n)
  PROVE  WholeInv'
  <1>1. /\ n \in DOMAIN calls /\ calls[n].kind = "message" /\ calls[n].pc = "store" /\ Ends(n)
        /\ UNCHANGED <<repetitions, onsets, page, sent, quiet>> /\ capture' = calls[n].capture
    BY DEF StoreExtended, At
  <1> SUFFICES ASSUME quiet # None PROVE WholeInv'
    BY <1>1, Zenon DEF WholeInv
  <1>2. Busy(calls[n])
    BY <1>1 DEF Busy
  <1>3. Whole(quiet, calls[n].capture, DOMAIN repetitions, DOMAIN onsets) /\ Open(calls[n].capture)
    BY <1>1, <1>2, OthersIdle DEF PracticeInv, CallWhole
  <1> QED BY <1>1, <1>2, <1>3, WholeEnds DEF PracticeInv

LEMMA WholeCloseActive ==
  ASSUME PracticeInv, NEW n, CloseActive(n)
  PROVE  WholeInv'
  <1> DEFINE d == CloseCapture(capture, calls[n].state, <<>>, <<>>)
             c == [calls[n] EXCEPT !.pc = "store", !.capture = d]
  <1>1. /\ n \in DOMAIN calls /\ calls[n].kind = "stop" /\ calls[n].pc = "check"
        /\ UNCHANGED <<capture, repetitions, onsets, page, sent, quiet>>
    BY DEF CloseActive, At, serverVars
  <1> SUFFICES ASSUME quiet # None PROVE WholeInv'
    BY <1>1, Zenon DEF WholeInv
  <1>2. Busy(calls[n])
    BY <1>1 DEF Busy
  <1>3. Whole(quiet, capture, DOMAIN repetitions, DOMAIN onsets) /\ Open(capture)
    BY <1>1, <1>2, OthersIdle DEF PracticeInv, CallWhole
  <1>4. capture # None /\ CaptureOpen
    BY <1>3 DEF Whole, Kept, Open, CaptureOpen, Closed, TerminalStates
  <1>5. calls[n] \in [kind : {"stop"}, pc : {"check"}, state : EndStates, capture : {None}]
    <2>1. CallFits(sent, n, calls[n])
      BY <1>1 DEF PracticeInv, TruthInv, CallsFit
    <2> QED BY <1>1, <2>1, Shapes
  <1>6. calls' = [calls EXCEPT ![n] = c]
    BY <1>4 DEF CloseActive
  <1>7. d.events = capture.events /\ d.id = capture.id /\ d # None
    <2>1. calls[n].state \in EndStates /\ Genuine(sent, capture)
      BY <1>4, <1>5 DEF PracticeInv, TruthInv, CaptureFits
    <2>2. Genuine(sent, d) /\ d.events = capture.events /\ d.id = capture.id
      BY <2>1, ClosedCapture
    <2> HIDE DEF d
    <2> QED BY <2>2, PracticeConstants DEF Genuine
  <1> HIDE DEF d
  <1>8. c.kind = "stop" /\ c.pc = "store" /\ c.capture = d
    BY <1>5
  <1> HIDE DEF c
  <1>9. Whole(quiet, d, DOMAIN repetitions, DOMAIN onsets)
    BY <1>3, <1>7 DEF Whole, Kept, EventIds
  <1>10. CallWhole(quiet, capture', DOMAIN repetitions', DOMAIN onsets', sent, n, c)
    BY <1>1, <1>8, <1>9 DEF CallWhole, Pending
  <1>11. Only(n) /\ n \in DOMAIN calls' /\ calls'[n] = c
    BY <1>1, <1>6, CallMoves
  <1> QED BY <1>1, <1>2, <1>8, <1>10, <1>11, WholeMoves DEF PracticeInv

LEMMA WholeStoreClosed ==
  ASSUME PracticeInv, NEW n, StoreClosed(n)
  PROVE  WholeInv'
  <1> DEFINE c == [calls[n] EXCEPT !.pc = "pair"]
  <1>1. /\ n \in DOMAIN calls /\ calls[n].kind = "stop" /\ calls[n].pc = "store"
        /\ UNCHANGED <<repetitions, onsets, page, sent, quiet>> /\ capture' = calls[n].capture
        /\ calls' = [calls EXCEPT ![n] = c]
    BY DEF StoreClosed, At, Goto
  <1> SUFFICES ASSUME quiet # None PROVE WholeInv'
    BY <1>1, Zenon DEF WholeInv
  <1>2. Busy(calls[n])
    BY <1>1 DEF Busy
  <1>3. Whole(quiet, calls[n].capture, DOMAIN repetitions, DOMAIN onsets)
    BY <1>1, <1>2, OthersIdle DEF PracticeInv, CallWhole
  <1>4. calls[n] \in [kind : {"stop"}, pc : {"store", "pair"}, state : EndStates,
                      capture : {k \in Captures : Genuine(sent, k)}]
    <2>1. CallFits(sent, n, calls[n])
      BY <1>1 DEF PracticeInv, TruthInv, CallsFit
    <2> QED BY <1>1, <2>1, Shapes
  <1>5. c.kind = "stop" /\ c.pc = "pair"
    BY <1>4
  <1> HIDE DEF c
  <1>6. CallWhole(quiet, capture', DOMAIN repetitions', DOMAIN onsets', sent, n, c)
    BY <1>1, <1>3, <1>5 DEF CallWhole, Pending
  <1>7. Only(n) /\ n \in DOMAIN calls' /\ calls'[n] = c
    BY <1>1, CallMoves
  <1> QED BY <1>1, <1>2, <1>5, <1>6, <1>7, WholeMoves DEF PracticeInv

LEMMA WholePair ==
  ASSUME PracticeInv, NEW n, Pair(n)
  PROVE  WholeInv'
  <1> DEFINE paired == PairMidiNotes(capture, PlaceOf)
  <1>1. /\ n \in DOMAIN calls /\ calls[n].kind = "stop" /\ calls[n].pc = "pair"
        /\ UNCHANGED <<capture, repetitions, onsets, page, sent, quiet>>
    BY DEF Pair, At, serverVars
  <1> SUFFICES ASSUME quiet # None PROVE WholeInv'
    BY <1>1, Zenon DEF WholeInv
  <1>2. Busy(calls[n])
    BY <1>1 DEF Busy
  <1>3. /\ Kept(quiet, capture, quiet.events)
        /\ quiet.events \subseteq DOMAIN repetitions /\ quiet.events \subseteq DOMAIN onsets
    BY <1>1, <1>2, OthersIdle DEF PracticeInv, CallWhole, Whole
  <1>4. /\ RepsPlaced(sent, paired.notes)
        /\ \A i \in DOMAIN paired.notes : paired.notes[i].on \in quiet.events
    <2>1. /\ capture # None /\ EventIds(capture) = quiet.events
          /\ EventIds(capture) \subseteq DOMAIN repetitions
      BY <1>3 DEF Kept
    <2> QED BY <2>1, PlacesOfNotes DEF PracticeInv
  <1>5. PICK ids : calls' = [calls EXCEPT ![n] = [kind |-> "stop", pc |-> "place",
                                state |-> calls[n].state, paired |-> paired, ids |-> ids]]
    BY DEF Pair
  <1> HIDE DEF paired
  <1> DEFINE c == [kind |-> "stop", pc |-> "place",
                   state |-> calls[n].state, paired |-> paired, ids |-> ids]
  <1>6. c.kind = "stop" /\ c.pc = "place" /\ c.paired = paired
    OBVIOUS
  <1>7. calls' = [calls EXCEPT ![n] = c]
    BY <1>5
  <1> HIDE DEF c
  <1>8. CallWhole(quiet, capture', DOMAIN repetitions', DOMAIN onsets', sent, n, c)
    BY <1>1, <1>3, <1>4, <1>6 DEF CallWhole, Pending
  <1>9. Only(n) /\ n \in DOMAIN calls' /\ calls'[n] = c
    BY <1>1, <1>7, CallMoves
  <1> QED BY <1>1, <1>2, <1>6, <1>8, <1>9, WholeMoves DEF PracticeInv

LEMMA WholePlaceNotes ==
  ASSUME PracticeInv, NEW n, PlaceNotes(n)
  PROVE  WholeInv'
  <1> DEFINE notes == calls[n].paired.notes
             placed == [i \in DOMAIN notes |-> Placed(notes[i])]
             q == [notes |-> placed, unmatched |-> calls[n].paired.unmatched]
             c == [kind |-> "stop", pc |-> "answer", state |-> calls[n].state,
                   ids |-> calls[n].ids, paired |-> q]
  <1>1. /\ n \in DOMAIN calls /\ calls[n].kind = "stop" /\ calls[n].pc = "place"
        /\ UNCHANGED <<capture, repetitions, onsets, page, sent, quiet>>
        /\ calls' = [calls EXCEPT ![n] = c]
    BY DEF PlaceNotes, At, serverVars
  <1> SUFFICES ASSUME quiet # None PROVE WholeInv'
    BY <1>1, Zenon DEF WholeInv
  <1>2. Busy(calls[n])
    BY <1>1 DEF Busy
  <1>3. /\ Kept(quiet, capture, quiet.events) /\ quiet.events \subseteq DOMAIN onsets
        /\ RepsPlaced(sent, notes)
        /\ \A i \in DOMAIN notes : notes[i].on \in quiet.events
    BY <1>1, <1>2, OthersIdle DEF PracticeInv, CallWhole
  <1>4. NotesFit(sent, notes) /\ AreNotes(notes)
    <2>1. CallFits(sent, n, calls[n])
      BY <1>1 DEF PracticeInv, TruthInv, CallsFit
    <2> QED BY <1>1, <2>1, Shapes
  <1> HIDE DEF notes
  <1>5. AllPlaced(sent, placed)
    <2>1. TruthInv /\ \A i \in DOMAIN notes : notes[i].on \in DOMAIN onsets
      BY <1>3 DEF PracticeInv
    <2> QED BY <1>3, <1>4, <2>1, PlacedNotes
  <1> HIDE DEF placed
  <1>6. q.notes = placed
    OBVIOUS
  <1> HIDE DEF q
  <1>7. c.kind = "stop" /\ c.pc = "answer" /\ c.paired = q
    OBVIOUS
  <1> HIDE DEF c
  <1>8. CallWhole(quiet, capture', DOMAIN repetitions', DOMAIN onsets', sent, n, c)
    BY <1>1, <1>3, <1>5, <1>6, <1>7 DEF CallWhole, Pending
  <1>9. Only(n) /\ n \in DOMAIN calls' /\ calls'[n] = c
    BY <1>1, CallMoves
  <1> QED BY <1>1, <1>2, <1>7, <1>8, <1>9, WholeMoves DEF PracticeInv

LEMMA WholeAnswerStop ==
  ASSUME PracticeInv, NEW n, AnswerStop(n)
  PROVE  WholeInv'
  <1> DEFINE e == [take |-> capture.id, events |-> capture.events, ids |-> calls[n].ids,
                   notes |-> calls[n].paired.notes, unmatched |-> calls[n].paired.unmatched]
             c == [kind |-> "stop", pc |-> "reset", state |-> calls[n].state, evidence |-> e]
  <1>1. /\ n \in DOMAIN calls /\ calls[n].kind = "stop" /\ calls[n].pc = "answer"
        /\ UNCHANGED <<capture, repetitions, onsets, page, sent, quiet>>
        /\ calls' = [calls EXCEPT ![n] = c]
    BY DEF AnswerStop, At, serverVars
  <1> SUFFICES ASSUME quiet # None PROVE WholeInv'
    BY <1>1, Zenon DEF WholeInv
  <1>2. Busy(calls[n])
    BY <1>1 DEF Busy
  <1>3. Kept(quiet, capture, quiet.events) /\ AllPlaced(sent, calls[n].paired.notes)
    BY <1>1, <1>2, OthersIdle DEF PracticeInv, CallWhole
  <1>4. e.notes = calls[n].paired.notes /\ e.events = capture.events /\ e.take = capture.id
    OBVIOUS
  <1> HIDE DEF e
  <1>5. c.kind = "stop" /\ c.pc = "reset" /\ c.evidence = e
    OBVIOUS
  <1> HIDE DEF c
  <1>6. CallWhole(quiet, capture', DOMAIN repetitions', DOMAIN onsets', sent, n, c)
    BY <1>3, <1>4, <1>5 DEF CallWhole, Pending, Kept, EventIds
  <1>7. Only(n) /\ n \in DOMAIN calls' /\ calls'[n] = c
    BY <1>1, CallMoves
  <1> QED BY <1>1, <1>2, <1>5, <1>6, <1>7, WholeMoves DEF PracticeInv

LEMMA WholeInit ==
  ASSUME Init
  PROVE  WholeInv
  BY DEF Init, WholeInv

LEMMA WholeStep ==
  ASSUME PracticeInv, [Next]_vars
  PROVE  WholeInv'
  <1>1. CASE StartAttempt
    BY <1>1, WholeStartAttempt
  <1>2. CASE \E input \in Inputs, steps \in Gaps : Record(input, steps)
    BY <1>2, WholeRecord
  <1>3. CASE \E state \in {"COMPLETE", "INTERRUPTED"} : EndAttempt(state)
    BY <1>3, WholeEndAttempt DEF EndStates
  <1>4. CASE \E lesson \in Lessons : LoadLesson(lesson)
    BY <1>4, WholeLoadLesson
  <1>5. ASSUME NEW n \in DOMAIN calls, Answered(n) PROVE WholeInv'
    BY <1>5, WholeStartAnswered, WholeStopAnswered DEF Answered
  <1>6. ASSUME NEW n \in DOMAIN calls, Captured(n) PROVE WholeInv'
    BY <1>6, WholeOpenCapture, WholeResetRepetitions, WholeResetOnsets, WholeNumberEvent,
       WholeMapRepetition, WholeMapOnset, WholeExtend, WholeStoreExtended, WholeCloseActive,
       WholeStoreClosed, WholePair, WholePlaceNotes, WholeAnswerStop
       DEF Captured
  <1>7. ASSUME NEW n \in DOMAIN calls, Judged(n) PROVE WholeInv'
    BY <1>7, WholeJudged
  <1>8. CASE UNCHANGED vars
    BY <1>8 DEF vars, serverVars, PracticeInv, WholeInv
  <1> QED BY <1>1, <1>2, <1>3, <1>4, <1>5, <1>6, <1>7, <1>8 DEF Next

LEMMA PracticeInvariant == Spec => []PracticeInv
  <1>1. Init => PracticeInv
    BY TruthInit, WholeInit DEF PracticeInv
  <1>2. PracticeInv /\ [Next]_vars => PracticeInv'
    BY TruthStep, WholeStep DEF PracticeInv
  <1> QED BY <1>1, <1>2, PTL DEF Spec

-----------------------------------------------------------------------------
(* What a stop is answered with                                             *)

\* Events of which none is twice are as many as their messages.
LEMMA FaithfulCount ==
  ASSUME NEW s, NEW events, Faithful(s, events)
  PROVE  Cardinality({ev.id : ev \in Range(events)}) = Len(events)
  <1> DEFINE ids == {ev.id : ev \in Range(events)}
             f == [i \in 1 .. Len(events) |-> events[i].id]
  <1>1. Len(events) \in Nat /\ DOMAIN events = 1 .. Len(events)
    BY DEF Faithful
  <1>2. ids = {events[i].id : i \in 1 .. Len(events)}
    BY <1>1 DEF Range
  <1>3. f \in [1 .. Len(events) -> ids]
    BY <1>2
  <1>4. \A a, b \in DOMAIN f : f[a] = f[b] => a = b
    BY <1>1 DEF Faithful
  <1>5. \A t \in ids : \E i \in 1 .. Len(events) : f[i] = t
    BY <1>2
  <1> HIDE DEF f, ids
  <1>6. f \in Injection(1 .. Len(events), ids)
    BY <1>3, <1>4 DEF Injection, IsInjective
  <1>7. f \in Surjection(1 .. Len(events), ids)
    BY <1>3, <1>5 DEF Surjection
  <1>8. ExistsBijection(1 .. Len(events), ids)
    BY <1>6, <1>7 DEF ExistsBijection, Bijection
  <1>9. Cardinality(ids) = Len(events)
    BY <1>1, <1>8, FS_CountingElements
  <1> QED BY <1>9 DEF ids

LEMMA TrueEvidence ==
  ASSUME PracticeInv
  PROVE  EvidenceIsTrue
  <1> SUFFICES ASSUME NEW n \in DOMAIN calls, At(n, "stop", "done"),
                      NEW e, e = calls[n].evidence
               PROVE  LET ids   == {ev.id : ev \in Range(e.events)}
                          whole == quiet # None /\ quiet.take = e.take
                      IN /\ Cardinality(ids) = Len(e.events)
                         /\ \A ev \in Range(e.events) :
                               ev = Numbered(sent[ev.id].message, ev.seq)
                         /\ \A note \in Range(e.notes) :
                               LET place == sent[note.on].place
                               IN /\ note.rep = place.rep \/ (note.rep = 0 /\ ~whole)
                                  /\ note.onset = place.onset \/ (note.onset = Absent /\ ~whole)
                         /\ whole => ids = quiet.events
    BY Zenon DEF EvidenceIsTrue, Answers
  <1> DEFINE ids   == {ev.id : ev \in Range(e.events)}
             whole == quiet # None /\ quiet.take = e.take
  <1>1. CallFits(sent, n, calls[n]) /\ calls[n].kind = "stop" /\ calls[n].pc = "done"
    BY DEF At, PracticeInv, TruthInv, CallsFit
  <1>2. NotesFit(sent, e.notes) /\ Faithful(sent, e.events)
    <2>1. Answering(sent, calls[n])
      BY <1>1, Shapes
    <2> QED BY <2>1 DEF Answering
  <1>3. Cardinality(ids) = Len(e.events)
    BY <1>2, FaithfulCount
  <1>4. \A ev \in Range(e.events) : ev = Numbered(sent[ev.id].message, ev.seq)
    BY <1>2, Zenon DEF Faithful, Range
  <1>5. whole => /\ quiet.events = {e.events[i].id : i \in DOMAIN e.events}
                 /\ AllPlaced(sent, e.notes)
    <2> SUFFICES ASSUME whole
                 PROVE  /\ quiet.events = {e.events[i].id : i \in DOMAIN e.events}
                        /\ AllPlaced(sent, e.notes)
      OBVIOUS
    <2>1. Busy(calls[n])
      BY <1>1 DEF Busy
    <2>2. CallWhole(quiet, capture, DOMAIN repetitions, DOMAIN onsets, sent, n, calls[n])
      BY <2>1, OthersIdle DEF PracticeInv
    <2> QED BY <1>1, <2>2, Zenon DEF CallWhole
  <1>6. whole => ids = quiet.events
    BY <1>5 DEF Range
  <1>7. ASSUME NEW note \in Range(e.notes)
        PROVE  LET place == sent[note.on].place
               IN /\ note.rep = place.rep \/ (note.rep = 0 /\ ~whole)
                  /\ note.onset = place.onset \/ (note.onset = Absent /\ ~whole)
    <2>1. PICK i \in DOMAIN e.notes : note = e.notes[i]
      BY DEF Range
    <2>2. /\ note.rep \in {sent[note.on].place.rep, 0}
          /\ note.onset \in {sent[note.on].place.onset, Absent}
      BY <1>2, <2>1 DEF NotesFit
    <2>3. whole => /\ note.rep = sent[note.on].place.rep
                   /\ note.onset = sent[note.on].place.onset
      BY <1>5, <2>1 DEF RepsPlaced, AllPlaced
    <2> QED BY <2>2, <2>3
  <1> QED BY <1>3, <1>4, <1>6, <1>7

\* An answered stop holds what was played, however many calls of the page are
\* under way at once: only messages the page sent, unchanged and none of them
\* twice, each note in its own repetition or the first and at its own onset or
\* none; and all of them, with all their repetitions and onsets, if no two calls of
\* that performance overlapped (LocalPerformanceCaptureApi has no lock, and the page
\* waits for no message).
THEOREM EvidenceOfWhatWasPlayed == Spec => []EvidenceIsTrue
  <1>1. PracticeInv => EvidenceIsTrue
    BY TrueEvidence
  <1> QED BY <1>1, PracticeInvariant, PTL
=============================================================================
