---------------------------- MODULE MediaPageProofs ----------------------------
(***************************************************************************)
(* Proofs about MediaPage, for any catalogs, clips, lessons and loops, any   *)
(* limits and any number of commands: a synchronized clip follows its       *)
(* lesson, and never thrashes.                                              *)
(*                                                                         *)
(* What the follower does is proved of its operators on a pack of follower  *)
(* and element, one lemma for each fact that a chain of emissions keeps.    *)
(* The actions then only have to say which chain they are.                  *)
(***************************************************************************)
EXTENDS MediaPage, FiniteSetTheorems, WellFoundedInduction, TLAPS

\* What the state holds.
Bound == {None} \cup UNION {{r.binding : r \in c.references} : c \in Catalogs \ {None}}

Status == MeasuredStatus \cup {"detached", "degraded", "out_of_binding_range"}
Correction == {"none", "resample", "hard_seek"}

Health == [status : Status, expected : Int \cup {None}, actual : Int \cup {None},
           drift : Int \cup {None}, correction : Correction \cup {None}]

Followers == [binding : Bound, on : BOOLEAN, settle : 0 .. Settle, health : Health \cup {None}]

Elements ==
    {e \in [clip : DOMAIN Length \cup {None}, time : Int, landing : Int \cup {None},
            paused : BOOLEAN, rate : Int, nudge : Int, ready : BOOLEAN, mayPlay : BOOLEAN] :
        e.ready => e.clip # None}

Packs == [f : Followers, e : Elements, quiet : 0 .. Settle, thrashed : BOOLEAN]

Transports == [playing : BOOLEAN, base : Int, elapsed : Int, rate : Rate,
               loop : Loop \cup {None}, reps : Int]

\* A binding that a follower may have.
LEMMA BoundTypes ==
  ASSUME NEW b \in Bound
  PROVE  \/ b = None
         \/ /\ b.from \in Int /\ b.mediaFrom \in Int
            /\ b.until \in Int \cup {None} /\ b.mediaUntil \in Int \cup {None}
  <1> SUFFICES ASSUME b # None PROVE /\ b.from \in Int /\ b.mediaFrom \in Int
                                     /\ {b.until, b.mediaUntil} \subseteq Int \cup {None}
    BY Zenon
  <1>1. PICK c \in Catalogs \ {None} : \E r \in c.references : b = r.binding
    BY Zenon DEF Bound
  <1>2. PICK r \in c.references : b = r.binding
    BY <1>1
  <1> QED BY <1>2, MediaConstants, Zenon DEF CatalogTypes

\* What is expected of a bound clip is a time on it, and leads back.
LEMMA ExpectedTypes ==
  ASSUME NEW b \in Bound, NEW t \in Int
  PROVE  /\ Expected(b, t) \in Int \cup {None}
         /\ b # None => Expected(b, t) = LessonToMedia(b, t)
         /\ Expected(b, t) # None =>
               /\ b # None
               /\ MediaToLesson(b, Expected(b, t)) = t
               /\ MediaToLesson(b, Expected(b, t)) # None
  <1>1. CASE b = None
    BY <1>1 DEF Expected
  <1>2. CASE b # None
    <2>1. /\ b.from \in Int /\ b.mediaFrom \in Int
          /\ b.until \in Int \cup {None} /\ b.mediaUntil \in Int \cup {None}
      BY <1>2, BoundTypes
    <2> DEFINE from == b.from
               start == b.mediaFrom
               x == start + (t - from)
    <2>2. x \in Int /\ t - from \in Int /\ from + (x - start) = t
      BY <2>1
    <2>3. Expected(b, t) = IF b.mode = "synchronized" /\ ContainsLesson(b, t) /\ ContainsMedia(b, x)
                           THEN x ELSE None
      <3>1. (t < from) <=> ~(from <= t)
        BY <2>1
      <3>2. from <= t => start <= x
        BY <2>1
      <3>3. b.until # None => ((t > b.until) <=> ~(t <= b.until))
        BY <2>1
      <3>4. b.mediaUntil # None => ((x > b.mediaUntil) <=> ~(x <= b.mediaUntil))
        BY <2>1, <2>2
      <3> QED BY <1>2, <3>1, <3>2, <3>3, <3>4, Zenon DEF Expected, ContainsLesson, ContainsMedia
    <2>4. Expected(b, t) = LessonToMedia(b, t)
      BY <2>3, Zenon DEF LessonToMedia
    <2>5. t # None
      BY MediaConstants
    <2> HIDE DEF x
    <2>6. Expected(b, t) # None => MediaToLesson(b, Expected(b, t)) = t
      BY <2>2, <2>3, Zenon DEF MediaToLesson
    <2> QED BY <1>2, <2>2, <2>3, <2>4, <2>5, <2>6
  <1> QED BY <1>1, <1>2

-----------------------------------------------------------------------------
(* The follower                                                             *)

\* What keeps it from thrashing: a seek is recent only while its window is open.
\* And what it must not lose: where it seeks to is claimed by the binding, it
\* leaves no nudge behind, and what it says of itself is a record of the contract.
Calm(m) ==
    /\ m \in Packs /\ ~m.thrashed
    /\ m.f.on => m.quiet + m.f.settle >= Settle
    /\ (m.f.settle > 0 /\ m.e.landing # None) => MediaToLesson(m.f.binding, m.e.landing) # None
    /\ ~m.f.on => m.e.nudge = 0
    /\ m.f.health # None => HealthContract(m.f.health)

\* What an emission leaves alone.  A seek it sends stays under way.
Kept(m, r) ==
    /\ r.f.on = m.f.on /\ r.f.binding = m.f.binding
    /\ r.e.landing = None => m.e.landing = None /\ r.f.settle \in {m.f.settle, 0}

\* The element does what the lesson does.
Plays(m, playing) ==
    m.f.on => /\ m.f.health.status \in MeasuredStatus =>
                   IF playing THEN ~m.e.paused \/ ~m.e.mayPlay ELSE m.e.paused
              /\ m.f.health.status = "out_of_binding_range" => m.e.paused

LEMMA HealthIsLawful ==
  ASSUME NEW s \in Status, NEW x \in Int \cup {None}, NEW a \in Int \cup {None},
         NEW c \in Correction \cup {None}, s \in MeasuredStatus => x \in Int /\ a \in Int
  PROVE  /\ BuildHealth(s, x, a, c) \in Health
         /\ BuildHealth(s, x, a, c).status = s
         /\ HealthContract(BuildHealth(s, x, a, c))
  <1> DEFINE h == BuildHealth(s, x, a, c)
  <1>1. CASE s \in MeasuredStatus
    <2>1. h = [status |-> s, expected |-> x, actual |-> a, drift |-> a - x, correction |-> c]
      BY <1>1, Zenon DEF BuildHealth
    <2>2. a - x \in Int
      BY <1>1
    <2>3. c \in Correction \cup {None} /\ x \in Int \cup {None} /\ a \in Int \cup {None}
      OBVIOUS
    <2> HIDE DEF h
    <2>4. h \in Health
      BY <2>1, <2>2, <2>3 DEF Health
    <2>5. h.status = s /\ h.expected = x /\ h.actual = a /\ h.drift = a - x
      BY <2>1, Zenon
    <2>6. HealthContract(h)
      BY <1>1, <2>2, <2>5, MediaConstants, Zenon DEF HealthContract
    <2> QED BY <2>4, <2>5, <2>6 DEF h
  <1>2. CASE s \notin MeasuredStatus
    <2>1. h = [status |-> s, expected |-> x, actual |-> a, drift |-> None, correction |-> None]
      BY <1>2, Zenon DEF BuildHealth
    <2> HIDE DEF h
    <2>2. h \in Health
      BY <2>1 DEF Health
    <2>3. h.status = s /\ h.drift = None
      BY <2>1, Zenon
    <2> QED BY <1>2, <2>2, <2>3, Zenon DEF HealthContract, h
  <1> QED BY <1>1, <1>2

\* What may be done to an element does not move a seek, and says whether it plays.
LEMMA ElementOperations ==
  ASSUME NEW e \in Elements, NEW rate \in Int, NEW nudge \in Int
  PROVE  /\ \A r \in {Resumed(e), Halted(e), SetElementRate(e, rate, nudge)} :
               /\ r \in Elements /\ r.clip = e.clip /\ r.landing = e.landing
               /\ r.ready = e.ready /\ r.mayPlay = e.mayPlay
         /\ Resumed(e).nudge = e.nudge /\ Halted(e).nudge = e.nudge
         /\ SetElementRate(e, rate, nudge).nudge = nudge
         /\ SetElementRate(e, rate, nudge).paused = e.paused
         /\ ~Resumed(e).paused \/ ~e.mayPlay
         /\ Halted(e).paused
  <1>1. \A b \in BOOLEAN, time \in Int :
           LET r == [e EXCEPT !.paused = b, !.time = time]
           IN /\ r \in Elements /\ r.clip = e.clip /\ r.landing = e.landing /\ r.paused = b
              /\ r.ready = e.ready /\ r.mayPlay = e.mayPlay /\ r.nudge = e.nudge
    BY DEF Elements
  <1>2. \A b \in BOOLEAN :
           LET r == [e EXCEPT !.paused = b]
           IN /\ r \in Elements /\ r.clip = e.clip /\ r.landing = e.landing /\ r.paused = b
              /\ r.ready = e.ready /\ r.mayPlay = e.mayPlay /\ r.nudge = e.nudge
    BY DEF Elements
  <1>3. /\ Resumed(e) \in Elements /\ Resumed(e).clip = e.clip
        /\ Resumed(e).landing = e.landing /\ Resumed(e).ready = e.ready
        /\ Resumed(e).mayPlay = e.mayPlay /\ Resumed(e).nudge = e.nudge
        /\ ~Resumed(e).paused \/ ~e.mayPlay
    <2>1. CASE ~e.paused \/ ~e.mayPlay
      BY <2>1, Zenon DEF Resumed
    <2>2. CASE ~(~e.paused \/ ~e.mayPlay)
      <3> DEFINE time == IF AtEnd(e) THEN 0 ELSE e.time
                 still == FALSE
                 r == [e EXCEPT !.paused = still, !.time = time]
      <3>1. time \in Int /\ still \in BOOLEAN
        BY DEF Elements
      <3>2. Resumed(e) = r
        BY <2>2, Zenon DEF Resumed
      <3> HIDE DEF time, still
      <3>3. /\ r \in Elements /\ r.clip = e.clip /\ r.landing = e.landing /\ r.paused = still
            /\ r.ready = e.ready /\ r.mayPlay = e.mayPlay /\ r.nudge = e.nudge
        BY <1>1, <3>1
      <3> HIDE DEF r
      <3> QED BY <3>2, <3>3 DEF still
    <2> QED BY <2>1, <2>2
  <1>4. /\ Halted(e) \in Elements /\ Halted(e).clip = e.clip
        /\ Halted(e).landing = e.landing /\ Halted(e).ready = e.ready
        /\ Halted(e).mayPlay = e.mayPlay /\ Halted(e).nudge = e.nudge /\ Halted(e).paused
    BY <1>2, Zenon DEF Halted
  <1>5. LET r == SetElementRate(e, rate, nudge)
        IN /\ r \in Elements /\ r.clip = e.clip /\ r.landing = e.landing /\ r.paused = e.paused
           /\ r.ready = e.ready /\ r.mayPlay = e.mayPlay /\ r.nudge = nudge
    BY DEF SetElementRate, Elements
  <1> QED BY <1>3, <1>4, <1>5

LEMMA PlayStateFollows ==
  ASSUME NEW e \in Elements, NEW t \in Transports
  PROVE  LET r == FollowPlayState(e, t)
         IN /\ r \in Elements /\ r.clip = e.clip /\ r.landing = e.landing
            /\ r.ready = e.ready /\ r.mayPlay = e.mayPlay /\ r.nudge = e.nudge
            /\ IF t.playing THEN ~r.paused \/ ~r.mayPlay ELSE r.paused
  <1>1. CASE t.playing
    BY <1>1, ElementOperations, 0 \in Int DEF FollowPlayState
  <1>2. CASE ~t.playing
    BY <1>2, ElementOperations, 0 \in Int DEF FollowPlayState
  <1> QED BY <1>1, <1>2

LEMMA ReportFields ==
  ASSUME NEW m \in Packs, NEW f \in Followers, NEW e \in Elements, NEW h \in Health
  PROVE  LET r == Report(m, f, e, h)
         IN /\ r \in Packs /\ r.e = e /\ r.thrashed = m.thrashed
            /\ r.f.on = f.on /\ r.f.binding = f.binding /\ r.f.settle = f.settle
            /\ r.f.health = h
            /\ h.status = "synced" => r.quiet = Settle
            /\ h.status # "synced" => r.quiet = m.quiet
  <1> DEFINE g == [f EXCEPT !.health = h]
             quiet == IF h.status = "synced" THEN Settle ELSE m.quiet
             r == Report(m, f, e, h)
  <1>1. g \in Followers /\ g.on = f.on /\ g.binding = f.binding /\ g.settle = f.settle
        /\ g.health = h
    BY DEF Followers
  <1>2. Settle \in 0 .. Settle
    BY FollowerConstants
  <1>3. quiet \in 0 .. Settle
    BY <1>2 DEF Packs
  <1>4. r = [m EXCEPT !.f = g, !.e = e, !.quiet = quiet]
    BY Zenon DEF Report
  <1> HIDE DEF g, quiet, r
  <1>5. r \in Packs /\ r.f = g /\ r.e = e /\ r.quiet = quiet /\ r.thrashed = m.thrashed
    BY <1>1, <1>3, <1>4 DEF Packs
  <1> QED BY <1>1, <1>5 DEF quiet, r

LEMMA RateIsWhole == \A r \in Rate : r \in Int
  <1>1. Rate \subseteq Nat \ {0}
    BY TransportConstants, Zenon
  <1> QED BY <1>1

LEMMA RawIsWhole == \A t \in Transports : Raw(t) \in Int
  <1> TAKE t \in Transports
  <1>1. t.base \in Int /\ t.elapsed \in Int /\ t.rate \in Rate
    BY DEF Transports
  <1>2. t.rate \in Int
    BY <1>1, RateIsWhole
  <1> QED BY <1>1, <1>2 DEF Raw

\* What is said without a seek leaves the follower calm.
LEMMA ReportKeeps ==
  ASSUME NEW m, Calm(m), NEW f \in Followers, NEW e \in Elements, NEW h \in Health,
         f.on <=> m.f.on, f.binding = m.f.binding, f.settle \in {m.f.settle, 0},
         e.landing = m.e.landing, ~f.on => e.nudge = 0, HealthContract(h),
         f.on => h.status = "synced" \/ f.settle = m.f.settle
  PROVE  LET r == Report(m, f, e, h)
         IN Calm(r) /\ Kept(m, r) /\ r.e = e /\ r.f.health = h
  <1> DEFINE r == Report(m, f, e, h)
  <1>1. m \in Packs
    BY DEF Calm
  <1>0. f.on = m.f.on
    <2>1. f.on \in BOOLEAN /\ m.f.on \in BOOLEAN
      BY <1>1 DEF Packs, Followers
    <2> QED BY <2>1, Zenon
  <1>2. /\ r \in Packs /\ r.e = e /\ r.thrashed = m.thrashed
        /\ r.f.on = f.on /\ r.f.binding = f.binding /\ r.f.settle = f.settle /\ r.f.health = h
        /\ h.status = "synced" => r.quiet = Settle
        /\ h.status # "synced" => r.quiet = m.quiet
    BY <1>1, ReportFields
  <1> HIDE DEF r
  <1>3. f.settle \in 0 .. Settle /\ m.f.settle \in 0 .. Settle /\ Settle \in Nat
    BY <1>1, FollowerConstants DEF Followers, Packs
  <1>4. r.f.on => r.quiet + r.f.settle >= Settle
    <2>1. CASE h.status = "synced"
      BY <1>2, <1>3, <2>1
    <2>2. CASE h.status # "synced"
      BY <1>0, <1>2, <2>2 DEF Calm
    <2> QED BY <2>1, <2>2
  <1>5. (r.f.settle > 0 /\ r.e.landing # None) => MediaToLesson(r.f.binding, r.e.landing) # None
    <2>1. r.f.settle > 0 => m.f.settle > 0
      BY <1>2, <1>3
    <2> QED BY <1>2, <2>1 DEF Calm
  <1>6. Calm(r)
    BY <1>0, <1>2, <1>4, <1>5 DEF Calm
  <1>7. Kept(m, r)
    BY <1>0, <1>2 DEF Kept
  <1> QED BY <1>2, <1>6, <1>7 DEF r

LEMMA KeptIsTransitive ==
  \A l, m, r : Kept(l, m) /\ Kept(m, r) => Kept(l, r)
  BY DEF Kept

\* A seek out of the window opens the next one.
LEMMA HardSeekKeeps ==
  ASSUME NEW m, Calm(m), m.f.on, m.f.settle = 0, NEW e \in Elements, NEW x \in Int,
         MediaToLesson(m.f.binding, x) # None, NEW t \in Transports
  PROVE  LET s == HardSeek(m, e, x, t)
         IN Calm(s) /\ Kept(m, s) /\ s.e.landing = x /\ s.f.on
            /\ s.f \in Followers /\ s.e \in Elements
            /\ s.e.paused = e.paused /\ s.e.mayPlay = e.mayPlay
  <1> DEFINE l == [e EXCEPT !.landing = x]
             n == SetElementRate(l, t.rate, 0)
             f == [m.f EXCEPT !.settle = Settle]
             s == HardSeek(m, e, x, t)
             late == m.thrashed \/ m.quiet < Settle
  <1>1. m \in Packs /\ m.f \in Followers /\ m.quiet \in 0 .. Settle /\ Settle \in Nat \ {0}
    BY FollowerConstants DEF Calm, Packs
  <1>2. ~late
    BY <1>1 DEF Calm
  <1>3. l \in Elements /\ l.landing = x /\ l.paused = e.paused /\ l.mayPlay = e.mayPlay
    BY DEF Elements
  <1>4. t.rate \in Int
    BY RateIsWhole DEF Transports
  <1> HIDE DEF l
  <1>5. n \in Elements /\ n.landing = x /\ n.paused = e.paused /\ n.mayPlay = e.mayPlay
    BY <1>3, <1>4, ElementOperations, 0 \in Int
  <1>6. Settle \in 0 .. Settle /\ 0 \in 0 .. Settle
    BY <1>1
  <1>7. /\ f \in Followers /\ f.settle = Settle /\ f.on = m.f.on /\ f.binding = m.f.binding
        /\ f.health = m.f.health
    BY <1>1, <1>6 DEF Followers
  <1>8. late \in BOOLEAN
    OBVIOUS
  <1>9. s = [m EXCEPT !.f = f, !.thrashed = late, !.quiet = 0, !.e = n]
    BY <1>1, Zenon DEF HardSeek, l, Packs
  <1> HIDE DEF f, n, s, late
  <1>10. s \in Packs /\ s.f = f /\ s.thrashed = late /\ s.quiet = 0 /\ s.e = n
    BY <1>1, <1>5, <1>6, <1>7, <1>8, <1>9 DEF Packs
  <1>11. x # None
    BY MediaConstants
  <1>12. s.f.on => s.quiet + s.f.settle >= Settle
    BY <1>1, <1>7, <1>10
  <1>13. Calm(s)
    BY <1>2, <1>5, <1>7, <1>10, <1>12 DEF Calm
  <1>14. Kept(m, s)
    BY <1>5, <1>7, <1>10, <1>11 DEF Kept
  <1> QED BY <1>5, <1>7, <1>10, <1>13, <1>14 DEF s

\* A chain of emissions is as good as one: whatever is heard, the follower stays
\* calm, and the element does what the lesson did when it was last heard of.
Obeys(m, r, playing) == Calm(r) /\ Kept(m, r) /\ Plays(r, playing)

\* Out of place by more than a seek cures, and nothing keeps it from being moved.
Lost(m, t) ==
    LET x == Expected(m.f.binding, Raw(t))
    IN /\ m.f.on /\ m.e.ready /\ x # None /\ CanSeekTo(m.e, x)
       /\ Off(m.e.time - x) > SeekLimit

LEMMA StatusIsKnown ==
  ASSUME NEW drift \in Int
  PROVE  /\ ClassifySyncHealth(drift) \in MeasuredStatus
         /\ ClassifySyncHealth(drift) \in Status /\ ChooseSyncCorrection(drift) \in Correction
         /\ Off(drift) > SeekLimit => ChooseSyncCorrection(drift) = "hard_seek"
  <1>1. Off(drift) \in Int /\ SyncedLimit \in Int /\ SeekLimit \in Int /\ SyncedLimit < SeekLimit
    BY FollowerConstants DEF Off
  <1>2. Off(drift) > SeekLimit => ~(Off(drift) <= SyncedLimit) /\ ~(Off(drift) <= SeekLimit)
    BY <1>1
  <1> QED BY <1>2, Zenon
            DEF ClassifySyncHealth, ChooseSyncCorrection, MeasuredStatus, Status, Correction

\* In the window.
LEMMA SettlingObeys ==
  ASSUME NEW m, Calm(m), m.f.on, NEW x \in Int, NEW t \in Transports
  PROVE  Obeys(m, Settling(m, FollowPlayState(m.e, t), x), t.playing)
  <1> DEFINE drift == m.e.time - x
             status == ClassifySyncHealth(drift)
             e == FollowPlayState(m.e, t)
             settle == IF status = "synced" THEN 0 ELSE m.f.settle
             f == [m.f EXCEPT !.settle = settle]
             h == BuildHealth(status, x, m.e.time, "none")
             r == Settling(m, e, x)
  <1>1. m \in Packs /\ m.f \in Followers /\ m.e \in Elements /\ m.e.time \in Int
        /\ m.f.settle \in 0 .. Settle /\ Settle \in Nat
    BY FollowerConstants DEF Calm, Packs, Followers, Elements
  <1>2. e \in Elements /\ e.landing = m.e.landing /\ e.nudge = m.e.nudge
        /\ IF t.playing THEN ~e.paused \/ ~e.mayPlay ELSE e.paused
    BY <1>1, PlayStateFollows
  <1>3. status \in MeasuredStatus /\ status \in Status
    BY <1>1, StatusIsKnown
  <1>4. h \in Health /\ h.status = status /\ HealthContract(h)
    BY <1>1, <1>3, HealthIsLawful DEF Correction
  <1>5. settle \in 0 .. Settle
    BY <1>1
  <1>6. r = Report(m, f, e, h)
    BY <1>1, Zenon DEF Settling
  <1>7. settle \in {m.f.settle, 0} /\ (status = "synced" \/ settle = m.f.settle)
    OBVIOUS
  <1> HIDE DEF settle, h, e, status, r
  <1>8. f \in Followers /\ f.on = m.f.on /\ f.binding = m.f.binding /\ f.settle = settle
    BY <1>1, <1>5 DEF Followers
  <1>9. Calm(r) /\ Kept(m, r) /\ r.e = e /\ r.f.health = h
    <2>1. f.settle \in {m.f.settle, 0} /\ (~f.on => e.nudge = 0)
          /\ (f.on => h.status = "synced" \/ f.settle = m.f.settle)
      BY <1>4, <1>7, <1>8, Zenon
    <2> HIDE DEF f, drift
    <2>2. /\ Calm(m) /\ f \in Followers /\ e \in Elements /\ h \in Health
          /\ (f.on <=> m.f.on) /\ f.binding = m.f.binding /\ e.landing = m.e.landing
          /\ HealthContract(h)
      BY <1>2, <1>4, <1>8
    <2>3. Calm(Report(m, f, e, h)) /\ Kept(m, Report(m, f, e, h))
          /\ Report(m, f, e, h).e = e /\ Report(m, f, e, h).f.health = h
      BY <2>1, <2>2, ReportKeeps
    <2> QED BY <1>6, <2>3
  <1>10. Plays(r, t.playing)
    BY <1>2, <1>3, <1>4, <1>9 DEF Plays, MeasuredStatus
  <1> QED BY <1>9, <1>10 DEF Obeys, r, e

\* Out of the window: what is lost is sought.
LEMMA SteerObeys ==
  ASSUME NEW m, Calm(m), m.f.on, m.f.settle = 0, NEW x \in Int, NEW t \in Transports,
         NEW reason, MediaToLesson(m.f.binding, x) # None
  PROVE  LET r == Steer(m, FollowPlayState(m.e, t), x, t, reason)
         IN /\ Obeys(m, r, t.playing)
            /\ (CanSeekTo(m.e, x) /\ Off(m.e.time - x) > SeekLimit) => r.e.landing # None
  <1> DEFINE drift == m.e.time - x
             e == FollowPlayState(m.e, t)
             choice == IF Forced(reason) THEN "hard_seek" ELSE ChooseSyncCorrection(drift)
             status == IF Forced(reason) THEN "correcting" ELSE ClassifySyncHealth(drift)
             h == BuildHealth(status, x, m.e.time, choice)
             r == Steer(m, e, x, t, reason)
  <1>1. m \in Packs /\ m.f \in Followers /\ m.e \in Elements /\ m.e.time \in Int
    BY DEF Calm, Packs, Followers, Elements
  <1>2. e \in Elements /\ e.landing = m.e.landing /\ e.nudge = m.e.nudge /\ e.clip = m.e.clip
        /\ IF t.playing THEN ~e.paused \/ ~e.mayPlay ELSE e.paused
    BY <1>1, PlayStateFollows
  <1>3. status \in MeasuredStatus /\ status \in Status /\ choice \in Correction
        /\ (Off(drift) > SeekLimit => choice = "hard_seek")
    <2>1. drift \in Int
      BY <1>1
    <2> QED BY <2>1, StatusIsKnown, Zenon DEF MeasuredStatus, Status, Correction
  <1>4. h \in Health /\ h.status = status /\ HealthContract(h)
    BY <1>1, <1>3, HealthIsLawful
  <1>5. CanSeekTo(e, x) <=> CanSeekTo(m.e, x)
    BY <1>2, Zenon DEF CanSeekTo
  <1>6. t.rate \in Int
    BY RateIsWhole DEF Transports
  <1>7. CASE choice = "hard_seek" /\ CanSeekTo(e, x)
    <2> DEFINE s == HardSeek(m, e, x, t)
    <2>1. r = Report(s, s.f, s.e, h)
      BY <1>7, Zenon DEF Steer
    <2>2. Calm(s) /\ Kept(m, s) /\ s.e.landing = x /\ s.f.on
          /\ s.f \in Followers /\ s.e \in Elements
          /\ s.e.paused = e.paused /\ s.e.mayPlay = e.mayPlay
      BY <1>2, HardSeekKeeps
    <2> HIDE DEF s, h, e, status, r, choice
    <2>3. Calm(r) /\ Kept(s, r) /\ r.e = s.e /\ r.f.health = h
      BY <1>4, <2>1, <2>2, ReportKeeps
    <2>4. Plays(r, t.playing)
      BY <1>2, <1>3, <1>4, <2>2, <2>3 DEF Plays, MeasuredStatus
    <2>5. x # None
      BY MediaConstants
    <2> QED BY <2>2, <2>3, <2>4, <2>5, KeptIsTransitive DEF Obeys, r, e
  <1>8. CASE choice = "hard_seek" /\ ~CanSeekTo(e, x)
    <2> DEFINE g == BuildHealth("degraded", x, m.e.time, None)
    <2>1. r = Report(m, m.f, e, g)
      BY <1>8, Zenon DEF Steer
    <2>2. g \in Health /\ g.status = "degraded" /\ HealthContract(g)
      BY <1>1, HealthIsLawful DEF MeasuredStatus, Status
    <2> HIDE DEF g, h, e, status, r, choice
    <2>3. Calm(r) /\ Kept(m, r) /\ r.e = e /\ r.f.health = g
      BY <1>1, <1>2, <2>1, <2>2, ReportKeeps DEF Calm
    <2>4. Plays(r, t.playing)
      BY <2>2, <2>3 DEF Plays, MeasuredStatus
    <2> QED BY <1>5, <1>8, <2>3, <2>4 DEF Obeys, r, e
  <1>9. CASE choice # "hard_seek"
    <2> DEFINE nudge == IF choice = "none" THEN 0 ELSE IF drift > 0 THEN -1 ELSE 1
               n == SetElementRate(e, t.rate, nudge)
    <2>1. r = Report(m, m.f, n, h)
      BY <1>9, Zenon DEF Steer
    <2>2. nudge \in Int
      OBVIOUS
    <2> HIDE DEF nudge, h, e, status, r, choice
    <2>3. n \in Elements /\ n.landing = e.landing /\ n.paused = e.paused /\ n.mayPlay = e.mayPlay
      BY <1>2, <1>6, <2>2, ElementOperations
    <2> HIDE DEF n
    <2>4. Calm(r) /\ Kept(m, r) /\ r.e = n /\ r.f.health = h
      BY <1>1, <1>2, <1>4, <2>1, <2>3, ReportKeeps DEF Calm
    <2>5. Plays(r, t.playing)
      BY <1>2, <1>3, <1>4, <2>3, <2>4 DEF Plays, MeasuredStatus
    <2> QED BY <1>3, <1>9, <2>4, <2>5 DEF Obeys, r, e
  <1> QED BY <1>7, <1>8, <1>9

\* One emission.  What is lost is on its way back, or in the window of a seek.
LEMMA FollowObeys ==
  ASSUME NEW m, Calm(m), NEW t \in Transports, NEW reason
  PROVE  /\ Obeys(m, Follow(m, t, reason), t.playing)
         /\ (Lost(m, t) /\ m.f.settle = 0) => Follow(m, t, reason).e.landing # None
  <1> DEFINE x == Expected(m.f.binding, Raw(t))
             r == Follow(m, t, reason)
  <1>1. m \in Packs /\ m.f \in Followers /\ m.e \in Elements /\ m.e.time \in Int
        /\ m.f.binding \in Bound /\ m.f.settle \in 0 .. Settle /\ Raw(t) \in Int
    BY RawIsWhole DEF Calm, Packs, Followers, Elements
  <1>2. x \in Int \cup {None} /\ (x # None => MediaToLesson(m.f.binding, x) # None)
    BY <1>1, ExpectedTypes
  <1>3. Lost(m, t) <=> /\ m.f.on /\ m.e.ready /\ x # None /\ CanSeekTo(m.e, x)
                       /\ Off(m.e.time - x) > SeekLimit
    BY Zenon DEF Lost
  <1> HIDE DEF x
  <1>4. \A h \in Health, e \in Elements :
           (HealthContract(h) /\ e.landing = m.e.landing /\ e.nudge = m.e.nudge) =>
              /\ Calm(Report(m, m.f, e, h)) /\ Kept(m, Report(m, m.f, e, h))
              /\ Report(m, m.f, e, h).e = e /\ Report(m, m.f, e, h).f.health = h
    <2> TAKE h \in Health, e \in Elements
    <2> HAVE HealthContract(h) /\ e.landing = m.e.landing /\ e.nudge = m.e.nudge
    <2>1. ~m.f.on => e.nudge = 0
      BY DEF Calm
    <2> QED BY <1>1, <2>1, ReportKeeps
  <1>5. CASE ~m.f.on
    <2> DEFINE h == BuildHealth("detached", None, None, None)
    <2>1. r = Report(m, m.f, m.e, h)
      BY <1>5, Zenon DEF Follow
    <2>2. h \in Health /\ HealthContract(h)
      BY HealthIsLawful DEF MeasuredStatus, Status
    <2> HIDE DEF h, r
    <2>3. Calm(r) /\ Kept(m, r)
      BY <1>1, <1>4, <2>1, <2>2
    <2> QED BY <1>3, <1>5, <2>3 DEF Obeys, Plays, Kept, r
  <1>6. CASE m.f.on /\ x = None
    <2> DEFINE h == BuildHealth("out_of_binding_range", None, m.e.time, None)
    <2>1. r = Report(m, m.f, Halted(m.e), h)
      BY <1>6, Zenon DEF Follow, x
    <2>2. h \in Health /\ HealthContract(h) /\ h.status = "out_of_binding_range"
      BY <1>1, HealthIsLawful DEF MeasuredStatus, Status
    <2>3. Halted(m.e) \in Elements /\ Halted(m.e).landing = m.e.landing
          /\ Halted(m.e).nudge = m.e.nudge /\ Halted(m.e).paused
      BY <1>1, ElementOperations, 0 \in Int
    <2> HIDE DEF h, r
    <2>4. Calm(r) /\ Kept(m, r) /\ r.e = Halted(m.e) /\ r.f.health = h
      BY <1>4, <2>1, <2>2, <2>3
    <2>5. Plays(r, t.playing)
      BY <2>2, <2>3, <2>4 DEF Plays, MeasuredStatus
    <2> QED BY <1>3, <1>6, <2>4, <2>5 DEF Obeys, r
  <1>7. CASE m.f.on /\ x # None /\ ~m.e.ready
    <2> DEFINE h == BuildHealth("degraded", x, m.e.time, None)
    <2>1. r = Report(m, m.f, m.e, h)
      BY <1>7, Zenon DEF Follow, x
    <2>2. h \in Health /\ HealthContract(h) /\ h.status = "degraded"
      BY <1>1, <1>2, HealthIsLawful DEF MeasuredStatus, Status
    <2> HIDE DEF h, r
    <2>3. Calm(r) /\ Kept(m, r) /\ r.f.health = h
      BY <1>1, <1>4, <2>1, <2>2
    <2>4. Plays(r, t.playing)
      BY <2>2, <2>3 DEF Plays, MeasuredStatus
    <2> QED BY <1>3, <1>7, <2>3, <2>4 DEF Obeys, r
  <1>8. CASE m.f.on /\ x # None /\ m.e.ready /\ m.f.settle > 0
    <2>1. r = Settling(m, FollowPlayState(m.e, t), x)
      BY <1>8, Zenon DEF Follow, x
    <2> HIDE DEF r
    <2>2. Obeys(m, r, t.playing)
      BY <1>2, <1>8, <2>1, SettlingObeys
    <2> QED BY <1>1, <1>8, <2>2 DEF r
  <1>9. CASE m.f.on /\ x # None /\ m.e.ready /\ ~(m.f.settle > 0)
    <2>1. r = Steer(m, FollowPlayState(m.e, t), x, t, reason)
      BY <1>9, Zenon DEF Follow, x
    <2>2. m.f.settle = 0
      BY <1>1, <1>9
    <2> HIDE DEF r
    <2>3. /\ Obeys(m, r, t.playing)
          /\ (CanSeekTo(m.e, x) /\ Off(m.e.time - x) > SeekLimit) => r.e.landing # None
      BY <1>2, <1>9, <2>1, <2>2, SteerObeys
    <2> QED BY <1>3, <2>3 DEF r
  <1> QED BY <1>5, <1>6, <1>7, <1>8, <1>9

-----------------------------------------------------------------------------
(* The invariant                                                            *)

Medium == UNION {c.media \cup {UnavailableText(r.media) : r \in c.references} :
                    c \in Catalogs \ {None}}

Item == [media : Medium, binding : Bound, available : BOOLEAN]

Players == [items : Seq(Item), active : Nat \ {0}, sync : BOOLEAN,
            loop : {None, MediaLoop}, late : BOOLEAN]

PageTypes ==
    /\ transport \in Transports
    /\ history \in [quiet : 0 .. Settle, off : Nat, fresh : BOOLEAN, stale : BOOLEAN,
                    thrashed : BOOLEAN]
    /\ player \in Players
    /\ player.items # << >> => player.active \in DOMAIN player.items
    /\ unread \in 0 .. MaxLate /\ may \in [ops : Int, loads : Int]

\* The load asked for last has the smallest number, and while its answer is on
\* its way what is shown, if anything, came late.
LoadsInOrder ==
    /\ \A fetch \in fetches : fetch.id \in Int /\ fetch.id > may.loads
    /\ \A fetch, other \in fetches : fetch.id = other.id => fetch = other
    /\ \A fetch \in fetches :
          fetch.id = may.loads + 1 => player.late \/ player.items = << >>

\* The window of the last seek bounds the time out of place; when it is over, the
\* next frame ends it.
Drifts ==
    /\ history.off > 0 => FarOut(follower, element, transport)
    /\ follower.settle > 0 => history.off + follower.settle <= Settle
    /\ history.off <= Settle + unread

\* The follower's half is Calm; who is not followed is at rest.
MediaInv ==
    /\ PageTypes
    /\ Calm(Media)
    /\ ~follower.on => history.quiet = Settle
    /\ follower.on => player.sync /\ lesson # None
    /\ LoadsInOrder /\ Drifts
    /\ Agreed /\ PlaysAsTheLesson

-----------------------------------------------------------------------------
(* The transport, as far as the media ask                                   *)

LEMMA StoppedTypes ==
  ASSUME NEW t \in Transports, NEW position \in Int
  PROVE  Stopped(t, position) \in Transports /\ ~Stopped(t, position).playing
  <1> DEFINE off == FALSE
             u == [t EXCEPT !.playing = off, !.base = position, !.elapsed = 0]
  <1>1. \A b \in BOOLEAN, p \in Int, z \in Int :
           LET w == [t EXCEPT !.playing = b, !.base = p, !.elapsed = z]
           IN w \in Transports /\ w.playing = b
    BY DEF Transports
  <1>2. off \in BOOLEAN /\ 0 \in Int
    OBVIOUS
  <1>3. Stopped(t, position) = u
    BY Zenon DEF Stopped
  <1> HIDE DEF off
  <1>4. u \in Transports /\ u.playing = off
    BY <1>1, <1>2
  <1> HIDE DEF u
  <1> QED BY <1>3, <1>4 DEF off

LEMMA ReadingTypes ==
  ASSUME NEW t \in Transports
  PROVE  Reading(t) \in Transports /\ Counted(t) \in Transports
         /\ Counted(t).playing = t.playing /\ Raw(Counted(t)) = Raw(t)
  <1>1. Raw(t) \in Int /\ Duration \in Int
    BY RawIsWhole, TransportConstants
  <1>2. Counted(t) \in Transports /\ Counted(t).playing = t.playing
        /\ Counted(t).base = t.base /\ Counted(t).elapsed = t.elapsed /\ Counted(t).rate = t.rate
    BY 0 \in Int DEF Counted, Transports
  <1>3. Raw(Counted(t)) = Raw(t)
    BY <1>2 DEF Raw
  <1>4. CASE ~t.playing
    BY <1>2, <1>3, <1>4, Zenon DEF Reading
  <1>5. CASE t.playing /\ Looping(t) /\ Raw(t) >= t.loop.end
    <2> DEFINE start == t.loop.start
               end == t.loop.end
               length == end - start
               beyond == Raw(t) - end
               next == t.reps + (beyond \div length) + 1
               place == start + (beyond % length)
               target == t.loop.target
    <2>1. t.loop \in Loop
      BY <1>5 DEF Looping, Transports
    <2>2. start \in Nat /\ end \in start + 1 .. Duration
          /\ (target = None \/ target \in Nat \ {0})
      BY <2>1, TransportConstants
    <2>3. length \in Nat /\ length > 0 /\ beyond \in Int /\ end \in Int
      BY <1>1, <2>2
    <2> HIDE DEF length, beyond
    <2>4. next \in Int /\ place \in Int
      <3>1. beyond \div length \in Int /\ beyond % length \in Int
        BY <2>3
      <3>2. t.reps \in Int
        BY DEF Transports
      <3> QED BY <2>2, <3>1, <3>2
    <2>5. Reading(t) = IF target # None /\ next >= target
                       THEN [Stopped(t, end) EXCEPT !.reps = target]
                       ELSE [t EXCEPT !.reps = next, !.elapsed = 0, !.base = place]
      BY <1>5, Zenon DEF Reading, WrapLoop, length, beyond
    <2> HIDE DEF next, place
    <2>6. CASE target # None /\ next >= target
      <3>0. target \in Nat \ {0}
        BY <2>2, <2>6, Zenon
      <3>1. Stopped(t, end) \in Transports /\ target \in Int
        BY <2>3, <3>0, StoppedTypes
      <3>2. \A u \in Transports, n \in Int : [u EXCEPT !.reps = n] \in Transports
        BY DEF Transports
      <3> QED BY <1>2, <1>3, <2>5, <2>6, <3>1, <3>2
    <2>7. CASE ~(target # None /\ next >= target)
      <3>1. \A n \in Int, z \in Int, p \in Int :
               [t EXCEPT !.reps = n, !.elapsed = z, !.base = p] \in Transports
        BY DEF Transports
      <3>2. 0 \in Int
        OBVIOUS
      <3> QED BY <1>2, <1>3, <2>4, <2>5, <2>7, <3>1, <3>2
    <2> QED BY <2>6, <2>7
  <1>6. CASE t.playing /\ ~(Looping(t) /\ Raw(t) >= t.loop.end)
    <2>1. Reading(t) = t \/ Reading(t) = Stopped(t, Duration)
      BY <1>6, Zenon DEF Reading
    <2> QED BY <1>1, <1>2, <1>3, <2>1, StoppedTypes
  <1> QED BY <1>4, <1>5, <1>6

\* Who is not playing is at rest where it is.
LEMMA AtRest == \A t : ~t.playing => Reading(t) = t
  BY DEF Reading

-----------------------------------------------------------------------------
(* Chains of emissions                                                      *)

LEMMA EmitObeys ==
  ASSUME NEW m, Calm(m), NEW t \in Transports, NEW reason
  PROVE  /\ Calm(Emit(m, t, reason)) /\ Kept(m, Emit(m, t, reason))
         /\ lesson # None =>
               /\ Plays(Emit(m, t, reason), t.playing)
               /\ (Lost(m, t) /\ m.f.settle = 0) => Emit(m, t, reason).e.landing # None
  <1>1. CASE lesson = None
    BY <1>1, Zenon DEF Emit, Kept
  <1>2. CASE lesson # None
    <2>1. Emit(m, t, reason) = Follow(m, t, reason)
      BY <1>2, Zenon DEF Emit
    <2> QED BY <1>2, <2>1, FollowObeys DEF Obeys
  <1> QED BY <1>1, <1>2

LEMMA NoticeObeys ==
  ASSUME NEW m, Calm(m), NEW t \in Transports
  PROVE  LET r == Notice(m, t)
         IN /\ Calm(r) /\ Kept(m, r)
            /\ (lesson # None /\ Lost(m, Reading(t)) /\ m.f.settle = 0) =>
                  r.e.landing # None \/ r = m
  <1>1. Kept(m, m)
    BY DEF Kept
  <1>2. CASE Reading(t) = t
    BY <1>1, <1>2, Zenon DEF Notice
  <1>3. CASE Reading(t) # t
    <2>1. Notice(m, t) = Emit(m, Reading(t), Noticed(t))
      BY <1>3, Zenon DEF Notice
    <2> QED BY <2>1, ReadingTypes, EmitObeys
  <1> QED BY <1>2, <1>3

\* The last word is the transport's as it is left.
LEMMA TellObeys ==
  ASSUME NEW m, Calm(m), NEW t \in Transports, NEW reason
  PROVE  LET r == Tell(m, t, reason)
         IN /\ Calm(r) /\ Kept(m, r)
            /\ lesson # None => Plays(r, Reading(t).playing)
            /\ (lesson # None /\ Lost(m, Reading(t)) /\ m.f.settle = 0) => r.e.landing # None
  <1> DEFINE n == Notice(m, t)
             r == Emit(n, Reading(t), reason)
  <1>1. r = Tell(m, t, reason)
    BY Zenon DEF Tell
  <1>2. /\ Calm(n) /\ Kept(m, n)
        /\ (lesson # None /\ Lost(m, Reading(t)) /\ m.f.settle = 0) =>
              n.e.landing # None \/ n = m
    BY NoticeObeys
  <1>3. Reading(t) \in Transports
    BY ReadingTypes
  <1> HIDE DEF n
  <1>4. /\ Calm(r) /\ Kept(n, r)
        /\ lesson # None =>
               /\ Plays(r, Reading(t).playing)
               /\ (Lost(n, Reading(t)) /\ n.f.settle = 0) => r.e.landing # None
    BY <1>2, <1>3, EmitObeys
  <1> HIDE DEF r
  <1>5. Kept(m, r)
    BY <1>2, <1>4, KeptIsTransitive
  <1>6. r.e.landing = None => n.e.landing = None
    BY <1>4 DEF Kept
  <1> QED BY <1>1, <1>2, <1>4, <1>5, <1>6

-----------------------------------------------------------------------------
(* What a command leaves                                                    *)

LEMMA MediaFields ==
  /\ Media.f = follower /\ Media.e = element
  /\ Media.quiet = history.quiet /\ Media.thrashed = history.thrashed
  BY DEF Media

\* Whatever was heard, leaving with a calm follower keeps what is said of it.
LEMMA LeaveKeeps ==
  ASSUME PageTypes, Drifts, follower.settle \in 0 .. Settle,
         NEW m, Calm(m), NEW t \in Transports, NEW stale \in BOOLEAN, LeaveAs(m, t, stale),
         (m.f.on /\ m.e.landing = None) => m.f.settle \in {follower.settle, 0},
         (m.f.on /\ lesson' # None /\ ~stale) => Plays(m, t.playing),
         \/ unread' = unread
         \/ /\ unread' = 0
            /\ (history.off > 0 /\ FarOut(m.f, m.e, transport') /\ Raw(t) = Raw(transport)) =>
                  follower.settle > 0
  PROVE  /\ transport' \in Transports /\ unread' \in 0 .. MaxLate
         /\ history' \in [quiet : 0 .. Settle, off : Nat, fresh : BOOLEAN, stale : BOOLEAN,
                          thrashed : BOOLEAN]
         /\ Calm(Media)' /\ (~follower.on => history.quiet = Settle)'
         /\ Drifts' /\ PlaysAsTheLesson'
  <1> DEFINE u == Counted(t)
             off == IF Raw(t) = Raw(transport) /\ FarOut(m.f, m.e, u) THEN history.off ELSE 0
             quiet == IF m.f.on THEN m.quiet ELSE Settle
             fresh == TRUE
  <1>1. transport' = u /\ follower' = m.f /\ element' = m.e
        /\ history' = [history EXCEPT !.fresh = fresh, !.stale = stale,
                                      !.thrashed = m.thrashed, !.off = off, !.quiet = quiet]
    BY Zenon DEF LeaveAs, PageTypes
  <1>2. u \in Transports /\ u.playing = t.playing
    BY ReadingTypes
  <1>3. m \in Packs /\ m.thrashed \in BOOLEAN /\ m.quiet \in 0 .. Settle /\ ~m.thrashed
        /\ m.f \in Followers /\ m.f.settle \in 0 .. Settle /\ m.f.on \in BOOLEAN
    BY DEF Calm, Packs, Followers
  <1>4. Settle \in Nat /\ Settle \in 0 .. Settle /\ MaxLate \in Nat
    BY FollowerConstants, MediaConstants
  <1>5. quiet \in 0 .. Settle /\ off \in Nat /\ (off > 0 => off = history.off)
    BY <1>3, <1>4 DEF PageTypes
  <1>6. off > 0 => Raw(t) = Raw(transport) /\ FarOut(m.f, m.e, u)
    OBVIOUS
  <1>7. fresh \in BOOLEAN
    OBVIOUS
  <1>8. quiet = IF m.f.on THEN m.quiet ELSE Settle
    OBVIOUS
  <1> HIDE DEF u, off, quiet, fresh
  <1>9. /\ history' \in [quiet : 0 .. Settle, off : Nat, fresh : BOOLEAN, stale : BOOLEAN,
                         thrashed : BOOLEAN]
        /\ history'.quiet = quiet /\ history'.off = off /\ history'.thrashed = m.thrashed
        /\ history'.stale = stale
    BY <1>1, <1>3, <1>5, <1>7 DEF PageTypes
  <1>10. unread' \in 0 .. MaxLate /\ unread \in 0 .. MaxLate
    BY <1>4 DEF PageTypes
  <1>11. Media' = [m EXCEPT !.quiet = quiet]
    <2> DEFINE r == [f |-> m.f, e |-> m.e, quiet |-> quiet, thrashed |-> m.thrashed]
    <2>1. Media' = r
      BY <1>1, <1>9 DEF Media
    <2>2. r = [m EXCEPT !.quiet = quiet]
      BY <1>3 DEF Packs
    <2> QED BY <2>1, <2>2
  <1>12. Calm(Media)'
    <2> DEFINE r == [m EXCEPT !.quiet = quiet]
    <2>1. r \in Packs /\ r.f = m.f /\ r.e = m.e /\ r.thrashed = m.thrashed /\ r.quiet = quiet
      BY <1>3, <1>5 DEF Packs
    <2> HIDE DEF r
    <2>2. Calm(r)
      BY <1>8, <2>1 DEF Calm
    <2>3. Media' = r
      BY <1>11 DEF r
    <2> QED BY <2>2, <2>3 DEF Calm
  <1>13. (~follower.on => history.quiet = Settle)'
    BY <1>1, <1>8, <1>9
  <1>14. Drifts'
    <2>1. (history.off > 0 => FarOut(follower, element, transport))'
      BY <1>1, <1>6, <1>9 DEF FarOut, Movable
    <2>2. history'.off > 0 => m.f.on /\ m.e.landing = None
      BY <1>6, <1>9 DEF FarOut, Movable
    <2>3. /\ history.off \in Nat
          /\ follower.settle > 0 => history.off + follower.settle <= Settle
          /\ history.off <= Settle + unread
      BY DEF Drifts, PageTypes
    <2>4. (follower.settle > 0 => history.off + follower.settle <= Settle)'
      BY <1>1, <1>3, <1>4, <1>5, <1>9, <2>2, <2>3
    <2>5. (history.off <= Settle + unread)'
      <3>1. CASE history'.off > 0
        <4>1. CASE unread' = unread
          BY <1>5, <1>9, <2>3, <3>1, <4>1
        <4>2. CASE unread' # unread
          <5>1. FarOut(m.f, m.e, transport') /\ Raw(t) = Raw(transport)
            BY <1>1, <1>6, <1>9, <3>1
          <5>2. unread' = 0 /\ history.off > 0 /\ history'.off = history.off
            BY <1>5, <1>9, <3>1, <4>2
          <5>3. follower.settle > 0
            BY <4>2, <5>1, <5>2
          <5>4. history.off <= Settle
            BY <1>4, <2>3, <5>3
          <5> QED BY <1>4, <5>2, <5>4
        <4> QED BY <4>1, <4>2
      <3>2. CASE ~(history'.off > 0)
        <4>1. history'.off = 0
          BY <1>5, <1>9, <3>2
        <4>2. 0 <= Settle + unread'
          <5>1. \A n \in 0 .. MaxLate : 0 <= Settle + n
            BY <1>4
          <5> QED BY <1>10, <5>1, Zenon
        <4> QED BY <4>1, <4>2
      <3> QED BY <3>1, <3>2
    <2> QED BY <2>1, <2>4, <2>5 DEF Drifts
  <1>15. PlaysAsTheLesson'
    BY <1>1, <1>2, <1>9 DEF PlaysAsTheLesson, Plays
  <1> QED BY <1>1, <1>2, <1>9, <1>10, <1>12, <1>13, <1>14, <1>15

\* What no command of the transport touches.
SamePage == UNCHANGED page /\ may' \in [ops : Int, loads : Int] /\ may'.loads = may.loads

LEMMA SamePageKeeps ==
  ASSUME PageTypes, LoadsInOrder, SamePage
  PROVE  LoadsInOrder' /\ may' \in [ops : Int, loads : Int] /\ player' \in Players
         /\ (player.items # << >> => player.active \in DOMAIN player.items)'
  BY DEF PageTypes, LoadsInOrder, SamePage, page

\* A command of the transport: the follower hears of it and keeps what it has.
LEMMA CommandKeeps ==
  ASSUME MediaInv, NEW m, Calm(m), Kept(Media, m), NEW t \in Transports, Leave(m, t),
         lesson # None => Plays(m, t.playing), SamePage,
         \/ unread' = unread
         \/ /\ unread' = 0
            /\ (history.off > 0 /\ FarOut(m.f, m.e, transport') /\ Raw(t) = Raw(transport)) =>
                  follower.settle > 0
  PROVE  MediaInv'
  <1>1. PageTypes /\ Drifts /\ LoadsInOrder /\ Agreed /\ (follower.on => player.sync /\ lesson # None)
        /\ follower.settle \in 0 .. Settle
    BY MediaFields DEF MediaInv, Calm, Packs, Followers
  <1>2. m.f.on = follower.on /\ m.f.binding = follower.binding
        /\ (m.e.landing = None => m.f.settle \in {follower.settle, 0})
    BY MediaFields DEF Kept
  <1>3. lesson' = lesson /\ player' = player
    BY DEF SamePage, page
  <1>4. /\ transport' \in Transports /\ unread' \in 0 .. MaxLate
        /\ history' \in [quiet : 0 .. Settle, off : Nat, fresh : BOOLEAN, stale : BOOLEAN,
                         thrashed : BOOLEAN]
        /\ Calm(Media)' /\ (~follower.on => history.quiet = Settle)'
        /\ Drifts' /\ PlaysAsTheLesson'
    BY <1>1, <1>2, <1>3, LeaveKeeps, FALSE \in BOOLEAN DEF Leave
  <1>5. LoadsInOrder' /\ may' \in [ops : Int, loads : Int] /\ player' \in Players
        /\ (player.items # << >> => player.active \in DOMAIN player.items)'
    BY <1>1, SamePageKeeps
  <1>6. follower' = m.f
    BY DEF Leave, LeaveAs
  <1>7. Agreed' /\ (follower.on => player.sync /\ lesson # None)'
    BY <1>1, <1>2, <1>3, <1>6 DEF Agreed, Shown, Active, ActiveBinding
  <1> QED BY <1>4, <1>5, <1>7 DEF MediaInv, PageTypes

\* Several emissions in a row, as the actions write them.
LEMMA PublishKeeps ==
  ASSUME MediaInv, NEW m, Calm(m), Kept(Media, m), NEW t \in Transports, NEW reason,
         Publish(m, t, reason), SamePage, unread' = unread
  PROVE  MediaInv'
  <1> DEFINE r == Tell(m, t, reason)
  <1>1. Leave(r, Reading(t))
    BY Zenon DEF Publish
  <1>2. Calm(r) /\ Kept(m, r) /\ (lesson # None => Plays(r, Reading(t).playing))
    BY TellObeys
  <1>3. Reading(t) \in Transports
    BY ReadingTypes
  <1> HIDE DEF r
  <1>4. Kept(Media, r)
    BY <1>2, KeptIsTransitive
  <1> QED BY <1>1, <1>2, <1>3, <1>4, CommandKeeps

LEMMA CalmNow ==
  ASSUME MediaInv
  PROVE  Calm(Media) /\ Kept(Media, Media) /\ transport \in Transports
  BY DEF MediaInv, PageTypes, Kept

LEMMA AskKeeps ==
  ASSUME PageTypes, Ask
  PROVE  may' \in [ops : Int, loads : Int] /\ may'.loads = may.loads
  BY DEF PageTypes, Ask

-----------------------------------------------------------------------------
(* The transport's commands                                                 *)

LEMMA CommandTypes ==
  ASSUME NEW t \in Transports
  PROVE  /\ Started(t) \in Transports /\ Restart(t) \in Transports
         /\ \A l \in Loop \cup {None} : /\ [t EXCEPT !.loop = l] \in Transports
                                      /\ [t EXCEPT !.loop = l, !.reps = 0] \in Transports
         /\ \A p \in Int : [t EXCEPT !.elapsed = 0, !.base = p] \in Transports
         /\ \A r \in Rate, p \in Int : [t EXCEPT !.rate = r, !.base = p, !.elapsed = 0] \in Transports
         /\ \A p \in Int : Stopped(Reading(t), p) \in Transports
  <1>0. 0 \in Int /\ TRUE \in BOOLEAN
    OBVIOUS
  <1>1. Started(t) \in Transports
    <2> DEFINE p == IF t.base < Duration THEN t.base
                    ELSE IF Looping(t) THEN t.loop.start ELSE 0
               on == TRUE
    <2>1. p \in Int
      <3>1. Looping(t) => t.loop.start \in Int
        BY TransportConstants DEF Looping, Transports
      <3> QED BY <3>1 DEF Transports
    <2>2. Started(t) = [t EXCEPT !.playing = on, !.elapsed = 0, !.base = p]
      BY Zenon DEF Started
    <2>3. \A b \in BOOLEAN, z \in Int, q \in Int :
             [t EXCEPT !.playing = b, !.elapsed = z, !.base = q] \in Transports
      BY DEF Transports
    <2>4. on \in BOOLEAN
      OBVIOUS
    <2> HIDE DEF p, on
    <2> QED BY <1>0, <2>1, <2>2, <2>3, <2>4
  <1>2. Restart(t) \in Transports
    <2> DEFINE s == Stopped(t, 0)
    <2>1. s \in Transports
      BY <1>0, StoppedTypes
    <2>2. Restart(t) = [s EXCEPT !.reps = 0]
      BY Zenon DEF Restart
    <2> HIDE DEF s
    <2> QED BY <1>0, <2>1, <2>2 DEF Transports
  <1>3. \A l \in Loop \cup {None} : /\ [t EXCEPT !.loop = l] \in Transports
                                  /\ [t EXCEPT !.loop = l, !.reps = 0] \in Transports
    <2>1. \A l \in Loop \cup {None}, z \in Int : /\ [t EXCEPT !.loop = l] \in Transports
                                             /\ [t EXCEPT !.loop = l, !.reps = z] \in Transports
      BY DEF Transports
    <2> QED BY <1>0, <2>1, Zenon
  <1>4. \A p \in Int : [t EXCEPT !.elapsed = 0, !.base = p] \in Transports
    <2>1. \A p \in Int, z \in Int : [t EXCEPT !.elapsed = z, !.base = p] \in Transports
      BY DEF Transports
    <2> QED BY <1>0, <2>1, Zenon
  <1>5. \A r \in Rate, p \in Int : [t EXCEPT !.rate = r, !.base = p, !.elapsed = 0] \in Transports
    <2>1. \A r \in Rate, p \in Int, z \in Int :
             [t EXCEPT !.rate = r, !.base = p, !.elapsed = z] \in Transports
      BY DEF Transports
    <2> QED BY <1>0, <2>1, Zenon
  <1>6. \A p \in Int : Stopped(Reading(t), p) \in Transports
    BY ReadingTypes, StoppedTypes
  <1> QED BY <1>1, <1>2, <1>3, <1>4, <1>5, <1>6

LEMMA TransportSteps ==
  ASSUME MediaInv
  PROVE  /\ PlayLesson => MediaInv'
         /\ PauseLesson => MediaInv'
         /\ RestartLesson => MediaInv'
         /\ \A position \in Int : SeekLesson(position) => MediaInv'
         /\ \A r \in Rate : SetLessonRate(r) => MediaInv'
         /\ \A l \in Loop \cup {None} : SetLessonLoop(l) => MediaInv'
  <1> DEFINE u == Reading(transport)
             n == Notice(Media, transport)
  <1>1. PageTypes /\ Calm(Media) /\ Kept(Media, Media) /\ transport \in Transports
    BY CalmNow DEF MediaInv
  <1>2. Calm(n) /\ Kept(Media, n)
    BY <1>1, NoticeObeys
  <1>3. u \in Transports /\ Raw(u) \in Int
    BY <1>1, ReadingTypes, RawIsWhole
  <1>4. Ask /\ UNCHANGED page => SamePage
    BY <1>1, AskKeeps DEF SamePage
  <1> HIDE DEF n, u
  <1>5. ASSUME PlayLesson PROVE MediaInv'
    <2>1. Publish(Media, Started(transport), "play") /\ SamePage /\ unread' = unread
      BY <1>4, <1>5 DEF PlayLesson
    <2> QED BY <1>1, <2>1, CommandTypes, PublishKeeps
  <1>6. ASSUME PauseLesson PROVE MediaInv'
    <2>1. Publish(n, Stopped(u, Raw(u)), "pause") /\ SamePage /\ unread' = unread
      BY <1>4, <1>6 DEF PauseLesson, n, u
    <2> QED BY <1>2, <1>3, <2>1, StoppedTypes, PublishKeeps
  <1>7. ASSUME RestartLesson PROVE MediaInv'
    <2>1. Publish(Media, Restart(transport), "restart") /\ SamePage /\ unread' = unread
      BY <1>4, <1>7 DEF RestartLesson
    <2> QED BY <1>1, <2>1, CommandTypes, PublishKeeps
  <1>8. ASSUME NEW position \in Int, SeekLesson(position) PROVE MediaInv'
    <2> DEFINE p == IF position < Duration THEN position ELSE Duration
               t == [transport EXCEPT !.elapsed = 0, !.base = p]
    <2>1. p \in Int
      BY TransportConstants
    <2>2. Publish(Media, t, "seek") /\ SamePage /\ unread' = unread
      BY <1>4, <1>8, Zenon DEF SeekLesson
    <2> HIDE DEF p
    <2>3. t \in Transports
      BY <1>1, <2>1, CommandTypes
    <2> HIDE DEF t
    <2> QED BY <1>1, <2>2, <2>3, PublishKeeps
  <1>9. ASSUME NEW r \in Rate, SetLessonRate(r) PROVE MediaInv'
    <2> DEFINE p == Raw(u)
               t == [u EXCEPT !.rate = r, !.base = p, !.elapsed = 0]
    <2>1. p \in Int
      BY <1>3
    <2>2. Publish(n, t, "rate") /\ SamePage /\ unread' = unread
      BY <1>4, <1>9, Zenon DEF SetLessonRate, n, u
    <2> HIDE DEF p
    <2>3. t \in Transports
      BY <1>3, <2>1, CommandTypes
    <2> HIDE DEF t
    <2> QED BY <1>2, <2>2, <2>3, PublishKeeps
  <1>10. ASSUME NEW l \in Loop \cup {None}, SetLessonLoop(l) PROVE MediaInv'
    <2> DEFINE t == [transport EXCEPT !.loop = l, !.reps = 0]
    <2>1. Publish(Media, t, "loop") /\ SamePage /\ unread' = unread
      BY <1>4, <1>10, Zenon DEF SetLessonLoop
    <2>2. t \in Transports
      BY <1>1, CommandTypes
    <2> HIDE DEF t
    <2> QED BY <1>1, <2>1, <2>2, PublishKeeps
  <1> QED BY <1>5, <1>6, <1>7, <1>8, <1>9, <1>10

\* A frame, which is what the bound on drift counts on: whoever is lost when no
\* window is open is sought now.
LEMMA FrameStep ==
  ASSUME MediaInv, Frame
  PROVE  MediaInv'
  <1> DEFINE u == Reading(transport)
             r == Tell(Media, transport, "frame")
  <1>1. PageTypes /\ Calm(Media) /\ Kept(Media, Media) /\ transport \in Transports /\ Drifts
    BY CalmNow DEF MediaInv
  <1>2. /\ Calm(r) /\ Kept(Media, r)
        /\ lesson # None => Plays(r, u.playing)
        /\ (lesson # None /\ Lost(Media, u) /\ Media.f.settle = 0) => r.e.landing # None
    BY <1>1, TellObeys
  <1>3. u \in Transports
    BY <1>1, ReadingTypes
  <1>4. Leave(r, u) /\ lesson # None /\ unread' = 0 /\ SamePage
    BY <1>1, Zenon DEF Frame, Publish, SamePage, PageTypes
  <1>5. (history.off > 0 /\ FarOut(r.f, r.e, transport') /\ Raw(u) = Raw(transport)) =>
           follower.settle > 0
    <2> SUFFICES ASSUME history.off > 0, FarOut(r.f, r.e, transport'), ~(follower.settle > 0)
                 PROVE  FALSE
      OBVIOUS
    <2>1. FarOut(follower, element, transport)
      BY <1>1 DEF Drifts
    <2>2. Lost(Media, u)
      BY <2>1, MediaFields DEF FarOut, Movable, Lost
    <2>3. follower.settle = 0
      BY <1>1, MediaFields DEF Calm, Packs, Followers
    <2>4. r.e.landing # None
      BY <1>2, <1>4, <2>2, <2>3, MediaFields
    <2> QED BY <2>4 DEF FarOut, Movable
  <1> HIDE DEF r, u
  <1> QED BY <1>2, <1>3, <1>4, <1>5, CommandKeeps

-----------------------------------------------------------------------------
(* The learner and the browser                                              *)

\* The element moved, the follower did not.
LEMMA ElementKeeps ==
  ASSUME NEW m, Calm(m), NEW e \in Elements, e.landing \in {None, m.e.landing},
         e.nudge \in {0, m.e.nudge}
  PROVE  Calm([m EXCEPT !.e = e])
  <1> DEFINE r == [m EXCEPT !.e = e]
  <1>1. r \in Packs /\ r.f = m.f /\ r.e = e /\ r.quiet = m.quiet /\ r.thrashed = m.thrashed
    BY DEF Calm, Packs
  <1> HIDE DEF r
  <1>2. (r.f.settle > 0 /\ r.e.landing # None) => MediaToLesson(r.f.binding, r.e.landing) # None
    BY <1>1 DEF Calm
  <1>3. ~r.f.on => r.e.nudge = 0
    BY <1>1 DEF Calm
  <1> QED BY <1>1, <1>2, <1>3 DEF Calm, r

\* A step that changes the element, and may count it in place again.
LEMMA ElementStep ==
  ASSUME MediaInv, NEW e \in Elements, e.landing \in {None, element.landing},
         e.nudge \in {0, element.nudge}, element' = e,
         \/ /\ history' = [history EXCEPT !.fresh = FALSE, !.off = 0]
         \/ /\ history' = [history EXCEPT !.fresh = FALSE,
                              !.off = IF FarOut(follower, e, transport) THEN @ ELSE 0]
         \/ history' = history /\ ~follower.on,
         UNCHANGED <<transport, follower, lesson, fetches, unread>>,
         may' \in [ops : Int, loads : Int], may'.loads = may.loads,
         player' \in Players, player'.items = player.items, player'.active = player.active,
         player'.sync = player.sync, player'.late = player.late
  PROVE  MediaInv'
  <1> DEFINE off == FALSE
             miss == history'.off
  <1>1. PageTypes /\ Drifts /\ LoadsInOrder /\ Agreed /\ Calm(Media) /\ PlaysAsTheLesson
        /\ (follower.on => player.sync /\ lesson # None)
        /\ (~follower.on => history.quiet = Settle)
    BY DEF MediaInv
  <1>2. history \in [quiet : 0 .. Settle, off : Nat, fresh : BOOLEAN, stale : BOOLEAN,
                     thrashed : BOOLEAN]
    BY <1>1 DEF PageTypes
  <1>3. \A o \in Nat, b \in BOOLEAN :
           LET h == [history EXCEPT !.fresh = b, !.off = o]
           IN /\ h \in [quiet : 0 .. Settle, off : Nat, fresh : BOOLEAN, stale : BOOLEAN,
                        thrashed : BOOLEAN]
              /\ h.quiet = history.quiet /\ h.thrashed = history.thrashed
              /\ h.off = o /\ h.fresh = b
    BY <1>2
  <1>4. /\ history' \in [quiet : 0 .. Settle, off : Nat, fresh : BOOLEAN, stale : BOOLEAN,
                         thrashed : BOOLEAN]
        /\ history'.quiet = history.quiet /\ history'.thrashed = history.thrashed
        /\ history'.off \in {0, history.off}
        /\ history'.off > 0 => FarOut(follower, e, transport)
        /\ history'.fresh => ~follower.on
    <2> DEFINE o == IF FarOut(follower, e, transport) THEN history.off ELSE 0
    <2>1. o \in Nat /\ 0 \in Nat /\ off \in BOOLEAN
      BY <1>2
    <2>2. CASE history' = [history EXCEPT !.fresh = off, !.off = 0]
      <3> HIDE DEF off
      <3>1. /\ history' \in [quiet : 0 .. Settle, off : Nat, fresh : BOOLEAN, stale : BOOLEAN,
                             thrashed : BOOLEAN]
            /\ history'.quiet = history.quiet /\ history'.thrashed = history.thrashed
            /\ history'.off = 0 /\ history'.fresh = off
        BY <1>3, <2>1, <2>2
      <3> QED BY <3>1 DEF off
    <2>3. CASE history' = [history EXCEPT !.fresh = off, !.off = o]
      <3> HIDE DEF off, o
      <3>1. /\ history' \in [quiet : 0 .. Settle, off : Nat, fresh : BOOLEAN, stale : BOOLEAN,
                             thrashed : BOOLEAN]
            /\ history'.quiet = history.quiet /\ history'.thrashed = history.thrashed
            /\ history'.off = o /\ history'.fresh = off
        BY <1>3, <2>1, <2>3
      <3> QED BY <3>1 DEF off, o
    <2>4. CASE history' = history /\ ~follower.on
      <3>1. ~(history.off > 0)
        BY <1>1, <2>4 DEF Drifts, FarOut
      <3>2. history.off = 0
        BY <1>2, <3>1
      <3> QED BY <1>2, <2>4, <3>1, <3>2
    <2> QED BY <2>2, <2>3, <2>4
  <1>5. Calm(Media)'
    <2> DEFINE r == [Media EXCEPT !.e = e]
    <2>1. Calm(r)
      BY <1>1, MediaFields, ElementKeeps
    <2>2. Media' = r
      BY <1>4 DEF Media
    <2> HIDE DEF r
    <2> QED BY <2>1, <2>2 DEF Calm
  <1>6. Drifts'
    <2>1. follower.settle \in 0 .. Settle /\ history.off \in Nat /\ unread \in 0 .. MaxLate
          /\ Settle \in Nat /\ MaxLate \in Nat
      BY <1>1, MediaFields, FollowerConstants, MediaConstants
         DEF PageTypes, Calm, Packs, Followers
    <2>2. (history.off > 0 => FarOut(follower, element, transport))'
      BY <1>4 DEF FarOut, Movable
    <2>3. (follower.settle > 0 => history.off + follower.settle <= Settle)'
      BY <1>1, <1>4, <2>1 DEF Drifts
    <2>4. (history.off <= Settle + unread)'
      BY <1>1, <1>4, <2>1 DEF Drifts
    <2> QED BY <2>2, <2>3, <2>4 DEF Drifts
  <1>7. PlaysAsTheLesson'
    BY <1>4 DEF PlaysAsTheLesson
  <1>8. Agreed'
    BY <1>1 DEF Agreed, Shown, Active, ActiveBinding
  <1>9. LoadsInOrder'
    BY <1>1 DEF LoadsInOrder
  <1>10. PageTypes'
    BY <1>1, <1>4 DEF PageTypes
  <1> QED BY <1>1, <1>4, <1>5, <1>6, <1>7, <1>8, <1>9, <1>10 DEF MediaInv

LEMMA TouchStep ==
  ASSUME MediaInv, NEW e \in Elements, e.landing \in {None, element.landing},
         e.nudge \in {0, element.nudge}, Touch(e),
         player' \in Players, player'.items = player.items, player'.active = player.active,
         player'.sync = player.sync, player'.late = player.late
  PROVE  MediaInv'
  <1>1. may' \in [ops : Int, loads : Int] /\ may'.loads = may.loads
    BY AskKeeps DEF MediaInv, Touch
  <1>2. /\ element' = e
        /\ history' = [history EXCEPT !.fresh = FALSE,
                          !.off = IF FarOut(follower, e, transport) THEN @ ELSE 0]
        /\ UNCHANGED <<transport, follower, lesson, fetches, unread>>
    BY Zenon DEF Touch
  <1> QED BY <1>1, <1>2, ElementStep

LEMMA MovedTypes ==
  ASSUME element \in Elements, NEW x \in Int
  PROVE  /\ MovedTo(x) \in Elements /\ MovedTo(x).landing = None
         /\ MovedTo(x).nudge = element.nudge
  BY DEF MovedTo, Elements

LEMMA LearnerSteps ==
  ASSUME MediaInv
  PROVE  /\ PlayElement => MediaInv'
         /\ PauseElement => MediaInv'
         /\ \A r \in Rate : SetRateOfElement(r) => MediaInv'
         /\ SetMediaLoop => MediaInv'
         /\ (Shown(player) => \A c \in Active(player).media.cues : SeekByCue(c) => MediaInv')
         /\ Land => MediaInv'
         /\ Buffer => MediaInv'
         /\ TimeUpdate => MediaInv'
  <1>1. PageTypes /\ element \in Elements /\ player \in Players
        /\ may \in [ops : Int, loads : Int] /\ (follower.on => player.sync)
    BY MediaFields DEF MediaInv, PageTypes, Calm, Packs
  <1>0. 0 \in Int
    OBVIOUS
  <1>2. ASSUME PlayElement PROVE MediaInv'
    <2>1. Touch(Resumed(element)) /\ player' = player
      BY <1>2 DEF PlayElement
    <2>2. Resumed(element) \in Elements /\ Resumed(element).landing = element.landing
          /\ Resumed(element).nudge = element.nudge
      BY <1>0, <1>1, ElementOperations
    <2> QED BY <1>1, <2>1, <2>2, TouchStep
  <1>3. ASSUME PauseElement PROVE MediaInv'
    <2>1. Touch(Halted(element)) /\ player' = player
      BY <1>3 DEF PauseElement
    <2>2. Halted(element) \in Elements /\ Halted(element).landing = element.landing
          /\ Halted(element).nudge = element.nudge
      BY <1>0, <1>1, ElementOperations
    <2> QED BY <1>1, <2>1, <2>2, TouchStep
  <1>4. ASSUME NEW r \in Rate, SetRateOfElement(r) PROVE MediaInv'
    <2> DEFINE e == SetElementRate(element, r, 0)
    <2>1. Touch(e) /\ player' = player
      BY <1>4 DEF SetRateOfElement
    <2>2. e \in Elements /\ e.landing = element.landing /\ e.nudge = 0
      BY <1>0, <1>1, ElementOperations, RateIsWhole
    <2> HIDE DEF e
    <2> QED BY <1>1, <2>1, <2>2, TouchStep
  <1>5. ASSUME SetMediaLoop PROVE MediaInv'
    <2> DEFINE w == MovedTo(MediaLoop.start)
               e == Resumed(w)
    <2>1. Touch(e) /\ player' = [player EXCEPT !.loop = MediaLoop]
      BY <1>5, Zenon DEF SetMediaLoop
    <2>2. MediaLoop.start \in Int
      BY MediaConstants
    <2>3. w \in Elements /\ w.landing = None /\ w.nudge = element.nudge
      BY <1>1, <2>2, MovedTypes
    <2> HIDE DEF w
    <2>4. e \in Elements /\ e.landing = None /\ e.nudge = element.nudge
      BY <1>0, <2>3, ElementOperations
    <2> HIDE DEF e
    <2>5. player' \in Players /\ player'.items = player.items /\ player'.active = player.active
          /\ player'.sync = player.sync /\ player'.late = player.late
      BY <1>1, <2>1 DEF Players
    <2> QED BY <2>1, <2>4, <2>5, TouchStep
  <1>6. ASSUME Shown(player), NEW c \in Active(player).media.cues, SeekByCue(c) PROVE MediaInv'
    <2>1. c.at \in Int /\ c.lesson \in Int \cup {None}
      <3> DEFINE i == Active(player)
      <3>1. player.items # << >> /\ i = player.items[player.active]
        BY <1>6 DEF Shown, Active
      <3>2. i \in Item
        BY <1>1, <3>1 DEF PageTypes, Players
      <3>3. i.media \in Medium
        BY <3>2 DEF Item
      <3>4. PICK d \in Catalogs \ {None} :
               i.media \in d.media \cup {UnavailableText(r.media) : r \in d.references}
        BY <3>3, Zenon DEF Medium
      <3>5. CASE i.media \in d.media
        <4>1. CatalogTypes(d, Length)
          BY MediaConstants, Zenon
        <4> QED BY <1>6, <3>5, <4>1, Zenon DEF CatalogTypes
      <3>6. CASE i.media \in {UnavailableText(r.media) : r \in d.references}
        <4>1. i.media.cues = {}
          BY <3>6 DEF UnavailableText
        <4> QED BY <1>6, <4>1
      <3> QED BY <3>4, <3>5, <3>6
    <2>2. CASE c.lesson # None
      <3>1. SeekLesson(c.lesson) /\ c.lesson \in Int
        BY <1>6, <2>1, <2>2 DEF SeekByCue
      <3> QED BY <3>1, TransportSteps
    <2>3. CASE c.lesson = None
      <3>1. Touch(MovedTo(c.at)) /\ player' = player
        BY <1>6, <2>3 DEF SeekByCue
      <3>2. MovedTo(c.at) \in Elements /\ MovedTo(c.at).landing = None
            /\ MovedTo(c.at).nudge = element.nudge
        BY <1>1, <2>1, MovedTypes
      <3> QED BY <1>1, <3>1, <3>2, TouchStep
    <2> QED BY <2>2, <2>3
  <1>7. ASSUME Land PROVE MediaInv'
    <2> DEFINE e == MovedTo(element.landing)
    <2>1. /\ element' = e /\ UNCHANGED <<transport, follower, lesson, fetches, unread, player, may>>
          /\ history' = [history EXCEPT !.fresh = FALSE,
                            !.off = IF FarOut(follower, e, transport) THEN @ ELSE 0]
      BY <1>7 DEF Land, page
    <2>2. element.landing \in Int
      BY <1>1, <1>7 DEF Land, Elements
    <2>3. e \in Elements /\ e.landing = None /\ e.nudge = element.nudge
      BY <1>1, <2>2, MovedTypes
    <2> HIDE DEF e
    <2> QED BY <1>1, <2>1, <2>3, ElementStep
  <1>8. ASSUME Buffer PROVE MediaInv'
    <2> DEFINE e == [element EXCEPT !.ready = ~element.ready]
    <2>1. /\ element' = e /\ UNCHANGED <<transport, follower, lesson, fetches, unread, player, may>>
          /\ history' = [history EXCEPT !.fresh = FALSE, !.off = 0]
      BY <1>8 DEF Buffer, page
    <2>2. e \in Elements /\ e.landing = element.landing /\ e.nudge = element.nudge
      BY <1>1, <1>8 DEF Buffer, Elements
    <2> HIDE DEF e
    <2> QED BY <1>1, <2>1, <2>2, ElementStep
  <1>9. ASSUME TimeUpdate PROVE MediaInv'
    <2> DEFINE e == MovedTo(player.loop.start)
    <2>1. /\ element' = e
          /\ UNCHANGED <<transport, follower, lesson, fetches, unread, player, may, history>>
      BY <1>9 DEF TimeUpdate, page
    <2>2. player.loop.start \in Int /\ ~follower.on
      BY <1>1, <1>9, MediaConstants DEF TimeUpdate, Players
    <2>3. e \in Elements /\ e.landing = None /\ e.nudge = element.nudge
      BY <1>1, <2>2, MovedTypes
    <2> HIDE DEF e
    <2> QED BY <1>1, <2>1, <2>2, <2>3, ElementStep
  <1> QED BY <1>2, <1>3, <1>4, <1>5, <1>6, <1>7, <1>8, <1>9

-----------------------------------------------------------------------------
(* Media that come and go                                                   *)

\* Enough to be calm again once nothing is synchronized.
Sane(m) == m \in Packs /\ ~m.thrashed /\ (m.f.health # None => HealthContract(m.f.health))

LEMMA RestoredTypes ==
  ASSUME NEW e \in Elements
  PROVE  LET r == RestoreDetachedRate(e)
         IN r \in Elements /\ r.landing = e.landing /\ r.nudge = 0
  <1>1. NormalRate \in Int /\ 0 \in Int
    BY FollowerConstants, RateIsWhole
  <1> QED BY <1>1, ElementOperations DEF RestoreDetachedRate

LEMMA BindingChangedRests ==
  ASSUME NEW m, Sane(m), NEW b \in Bound
  PROVE  LET r == BindingChanged(m, b, FALSE)
         IN Calm(r) /\ ~r.f.on /\ r.f.binding = b
  <1> DEFINE off == FALSE
             on == b # None /\ b.mode = "synchronized"
             f == [m.f EXCEPT !.binding = b, !.on = on, !.settle = 0]
             e == IF on THEN m.e ELSE RestoreDetachedRate(m.e)
             l == [m EXCEPT !.f = f, !.e = e]
             g == [l.f EXCEPT !.on = off, !.settle = 0]
             d == RestoreDetachedRate(l.e)
             r == [l EXCEPT !.f = g, !.e = d]
  <1>1. m \in Packs /\ m.f \in Followers /\ m.e \in Elements /\ Settle \in Nat /\ 0 \in 0 .. Settle
        /\ NormalRate \in Int /\ 0 \in Int
    BY FollowerConstants, RateIsWhole DEF Sane, Packs
  <1>2. on \in BOOLEAN /\ off \in BOOLEAN
    OBVIOUS
  <1>3. l = SetBinding(m, b)
    BY <1>1, Zenon DEF SetBinding, Packs
  <1>4. BindingChanged(m, b, FALSE) = SetMode(l, off)
    BY <1>3, Zenon DEF BindingChanged
  <1>5. SetMode(l, off) = r
    BY Zenon DEF SetMode
  <1>6. \A x \in Elements :
           LET y == RestoreDetachedRate(x)
           IN y \in Elements /\ y.landing = x.landing /\ y.nudge = 0
    BY RestoredTypes
  <1>7. e \in Elements
    BY <1>1, <1>6
  <1> HIDE DEF on, off, e
  <1>8. f \in Followers /\ f.health = m.f.health /\ f.binding = b
    BY <1>1, <1>2 DEF Followers
  <1> HIDE DEF f
  <1>9. l \in Packs /\ l.f = f /\ l.e = e /\ l.thrashed = m.thrashed
    BY <1>1, <1>7, <1>8 DEF Packs
  <1> HIDE DEF l
  <1>10. g \in Followers /\ g.health = m.f.health /\ g.binding = b /\ g.on = off /\ g.settle = 0
    BY <1>1, <1>2, <1>8, <1>9 DEF Followers
  <1>11. d \in Elements /\ d.nudge = 0
    BY <1>6, <1>7, <1>9
  <1> HIDE DEF g, d
  <1>12. r \in Packs /\ r.f = g /\ r.e = d /\ r.thrashed = m.thrashed
    BY <1>9, <1>10, <1>11 DEF Packs
  <1> HIDE DEF r
  <1>13. Calm(r) /\ ~r.f.on /\ r.f.binding = b
    BY <1>10, <1>11, <1>12 DEF Calm, Sane, off
  <1> QED BY <1>4, <1>5, <1>13

LEMMA LoadedClip ==
  ASSUME NEW e \in Elements, NEW clip \in DOMAIN Length \cup {None}
  PROVE  LoadClip(e, clip) \in Elements
  <1> DEFINE plays == e.mayPlay
             off == FALSE
             on == TRUE
             r == [clip |-> None, time |-> 0, landing |-> None, paused |-> on,
                   rate |-> NormalRate, nudge |-> 0, ready |-> off, mayPlay |-> plays]
  <1>1. LoadClip(e, clip) = [r EXCEPT !.clip = clip]
    BY Zenon DEF LoadClip, NewElement
  <1>2. plays \in BOOLEAN /\ off \in BOOLEAN /\ on \in BOOLEAN /\ 0 \in Int /\ NormalRate \in Int
    BY FollowerConstants, RateIsWhole DEF Elements
  <1>3. ~off
    OBVIOUS
  <1> HIDE DEF plays, off, on
  <1>4. r \in Elements /\ r.ready = off
    BY <1>2, <1>3 DEF Elements
  <1> HIDE DEF r
  <1>5. [r EXCEPT !.clip = clip] \in Elements
    BY <1>3, <1>4 DEF Elements
  <1> QED BY <1>1, <1>5

LEMMA SaneWithClip ==
  ASSUME NEW m, Sane(m), NEW e \in Elements
  PROVE  Sane([m EXCEPT !.e = e])
  BY DEF Sane, Packs

LEMMA ClearedRests ==
  ASSUME NEW m, Sane(m)
  PROVE  Calm(ClearedMedia(m)) /\ ~ClearedMedia(m).f.on /\ ClearedMedia(m).f.binding = None
  <1> DEFINE e == LoadClip(m.e, None)
             l == [m EXCEPT !.e = e]
  <1>1. e \in Elements
    BY LoadedClip DEF Sane, Packs
  <1>2. ClearedMedia(m) = BindingChanged(l, None, FALSE)
    BY Zenon DEF ClearedMedia
  <1> HIDE DEF e
  <1>3. Sane(l)
    BY <1>1, SaneWithClip
  <1>4. None \in Bound
    BY DEF Bound
  <1> HIDE DEF l
  <1> QED BY <1>2, <1>3, <1>4, BindingChangedRests

LEMMA ItemTypes ==
  ASSUME NEW i \in Item
  PROVE  i.media.type = "video" => i.media.id \in DOMAIN Length
  <1>1. i.media \in Medium
    BY DEF Item
  <1>2. PICK d \in Catalogs \ {None} :
           i.media \in d.media \cup {UnavailableText(r.media) : r \in d.references}
    BY <1>1, Zenon DEF Medium
  <1>3. CASE i.media \in d.media
    <2>1. CatalogTypes(d, Length)
      BY MediaConstants, Zenon
    <2> QED BY <1>3, <2>1, Zenon DEF CatalogTypes
  <1>4. CASE i.media \in {UnavailableText(r.media) : r \in d.references}
    BY <1>4 DEF UnavailableText
  <1> QED BY <1>2, <1>3, <1>4

LEMMA SelectedRests ==
  ASSUME NEW m, Calm(m), NEW p \in Players, p.items # << >>, p.active \in DOMAIN p.items
  PROVE  LET r == SelectedMedia(m, p)
         IN /\ Calm(r) /\ ~r.f.on
            /\ Shown(p) => r.f.binding = ActiveBinding(p)
  <1> DEFINE i == p.items[p.active]
             r == SelectedMedia(m, p)
  <1>1. i \in Item /\ Active(p) = i
    BY DEF Active, Players
  <1>2. Sane(m)
    BY DEF Sane, Calm
  <1>3. i.binding \in Bound /\ None \in Bound
    BY <1>1 DEF Item, Bound
  <1> HIDE DEF i
  <1>4. CASE ~i.available
    <2>1. r = BindingChanged(m, None, FALSE)
      BY <1>1, <1>4, Zenon DEF SelectedMedia
    <2> QED BY <1>1, <1>2, <1>3, <1>4, <2>1, BindingChangedRests DEF Shown
  <1>5. CASE i.available
    <2> DEFINE e == IF i.media.type = "video" THEN LoadClip(m.e, i.media.id) ELSE m.e
               l == [m EXCEPT !.e = e]
    <2>1. r = BindingChanged(l, i.binding, FALSE)
      BY <1>1, <1>5, Zenon DEF SelectedMedia
    <2>2. e \in Elements
      BY <1>1, <1>2, ItemTypes, LoadedClip DEF Sane, Packs
    <2> HIDE DEF e
    <2>3. Sane(l)
      BY <1>2, <2>2, SaneWithClip
    <2> HIDE DEF l, r
    <2>4. Calm(r) /\ ~r.f.on /\ r.f.binding = i.binding
      BY <1>3, <2>1, <2>3, BindingChangedRests
    <2>5. Shown(p) => ActiveBinding(p) = i.binding
      BY <1>1, Zenon DEF Shown, ActiveBinding
    <2> QED BY <2>4, <2>5 DEF r
  <1> QED BY <1>4, <1>5

\* Nothing is synchronized any more, whatever the player shows now.
LEMMA ReleasedStep ==
  ASSUME MediaInv, NEW m, Calm(m), ~m.f.on, NEW t \in Transports, Leave(m, t), unread' = unread,
         may' \in [ops : Int, loads : Int], LoadsInOrder', player' \in Players, ~player'.sync,
         player'.items # << >> => player'.active \in DOMAIN player'.items,
         (Shown(player') \/ player'.items = << >>) => m.f.binding = ActiveBinding(player')
  PROVE  MediaInv'
  <1>1. PageTypes /\ Drifts /\ follower.settle \in 0 .. Settle
    BY MediaFields DEF MediaInv, Calm, Packs, Followers
  <1>2. /\ transport' \in Transports /\ unread' \in 0 .. MaxLate
        /\ history' \in [quiet : 0 .. Settle, off : Nat, fresh : BOOLEAN, stale : BOOLEAN,
                         thrashed : BOOLEAN]
        /\ Calm(Media)' /\ (~follower.on => history.quiet = Settle)'
        /\ Drifts' /\ PlaysAsTheLesson'
    BY <1>1, LeaveKeeps, FALSE \in BOOLEAN DEF Leave
  <1>3. follower' = m.f
    BY DEF Leave, LeaveAs
  <1>4. Agreed' /\ (follower.on => player.sync /\ lesson # None)'
    BY <1>3 DEF Agreed
  <1> QED BY <1>2, <1>4 DEF MediaInv, PageTypes

\* The toggle: the mode of the follower is set, and the follower is told.
LEMMA SetModeFields ==
  ASSUME NEW m, Calm(m), ~m.f.on => m.quiet = Settle
  PROVE  /\ Calm(SetMode(m, FALSE)) /\ ~SetMode(m, FALSE).f.on
         /\ SetMode(m, FALSE).f.binding = m.f.binding
         /\ ~m.f.on => /\ Calm(SetMode(m, TRUE))
                       /\ SetMode(m, TRUE).f.binding = m.f.binding
                       /\ SetMode(m, TRUE).f.on <=> m.f.binding # None
                       /\ SetMode(m, TRUE).f.on => SetMode(m, TRUE).f.settle = 0
  <1> DEFINE off == FALSE
             on == TRUE
  <1>1. m \in Packs /\ m.f \in Followers /\ m.e \in Elements /\ Settle \in Nat /\ 0 \in 0 .. Settle
    BY FollowerConstants DEF Calm, Packs
  <1>2. off \in BOOLEAN /\ on \in BOOLEAN
    OBVIOUS
  <1>3. \A b \in BOOLEAN :
           LET g == [m.f EXCEPT !.on = b, !.settle = 0]
           IN /\ g \in Followers /\ g.on = b /\ g.settle = 0 /\ g.binding = m.f.binding
              /\ g.health = m.f.health
    BY <1>1 DEF Followers
  <1>4. Calm(SetMode(m, FALSE)) /\ ~SetMode(m, FALSE).f.on
        /\ SetMode(m, FALSE).f.binding = m.f.binding
    <2> DEFINE g == [m.f EXCEPT !.on = off, !.settle = 0]
               d == RestoreDetachedRate(m.e)
               r == [m EXCEPT !.f = g, !.e = d]
    <2>1. SetMode(m, FALSE) = r
      BY Zenon DEF SetMode
    <2>2. d \in Elements /\ d.nudge = 0
      BY <1>1, RestoredTypes
    <2> HIDE DEF off, d
    <2>3. g \in Followers /\ g.on = off /\ g.settle = 0 /\ g.binding = m.f.binding
          /\ g.health = m.f.health
      BY <1>2, <1>3
    <2> HIDE DEF g
    <2>4. r \in Packs /\ r.f = g /\ r.e = d /\ r.thrashed = m.thrashed
      BY <1>1, <2>2, <2>3 DEF Packs
    <2> HIDE DEF r
    <2>5. ~r.f.on /\ r.f.settle = 0 /\ r.f.binding = m.f.binding /\ r.e.nudge = 0
          /\ r.f.health = m.f.health
      BY <2>2, <2>3, <2>4 DEF off
    <2>6. Calm(r)
      BY <2>4, <2>5 DEF Calm
    <2> QED BY <2>1, <2>5, <2>6
  <1>5. ASSUME ~m.f.on, m.f.binding = None
        PROVE  /\ Calm(SetMode(m, TRUE)) /\ SetMode(m, TRUE).f.binding = m.f.binding
               /\ ~SetMode(m, TRUE).f.on
    <2> DEFINE g == [m.f EXCEPT !.on = off]
               r == [m EXCEPT !.f = g]
    <2>1. SetMode(m, TRUE) = r
      BY <1>1, <1>5, Zenon DEF SetMode, Packs
    <2> HIDE DEF off
    <2>2. g \in Followers /\ g.on = off /\ g.settle = m.f.settle /\ g.binding = m.f.binding
          /\ g.health = m.f.health
      BY <1>1, <1>2 DEF Followers
    <2> HIDE DEF g
    <2>3. r \in Packs /\ r.f = g /\ r.e = m.e /\ r.thrashed = m.thrashed
      BY <1>1, <2>2 DEF Packs
    <2> HIDE DEF r
    <2> QED BY <1>5, <2>1, <2>2, <2>3 DEF Calm, off
  <1>6. ASSUME ~m.f.on, m.f.binding # None
        PROVE  /\ Calm(SetMode(m, TRUE)) /\ SetMode(m, TRUE).f.binding = m.f.binding
               /\ SetMode(m, TRUE).f.on /\ SetMode(m, TRUE).f.settle = 0
    <2> DEFINE g == [m.f EXCEPT !.on = on, !.settle = 0]
               r == [m EXCEPT !.f = g]
    <2>1. SetMode(m, TRUE) = r
      <3>1. SetMode(m, TRUE) = [m EXCEPT !.f = g, !.e = m.e]
        BY <1>1, <1>6, Zenon DEF SetMode, Packs
      <3> HIDE DEF g
      <3> QED BY <1>1, <3>1 DEF Packs
    <2> HIDE DEF on
    <2>2. g \in Followers /\ g.on = on /\ g.settle = 0 /\ g.binding = m.f.binding
          /\ g.health = m.f.health
      BY <1>2, <1>3
    <2> HIDE DEF g
    <2>3. r \in Packs /\ r.f = g /\ r.e = m.e /\ r.thrashed = m.thrashed /\ r.quiet = m.quiet
      BY <1>1, <2>2 DEF Packs
    <2> HIDE DEF r
    <2>4. r.quiet + r.f.settle >= Settle
      BY <1>1, <1>6, <2>2, <2>3
    <2>5. r.f.on /\ r.f.settle = 0 /\ r.f.binding = m.f.binding /\ r.f.health = m.f.health
      BY <2>2, <2>3 DEF on
    <2>6. Calm(r)
      BY <2>3, <2>4, <2>5 DEF Calm
    <2> QED BY <2>1, <2>5, <2>6
  <1> QED BY <1>4, <1>5, <1>6

\* A snapshot that finds the transport as it was says what is.
LEMMA TellUnreadObeys ==
  ASSUME NEW m, Calm(m), NEW t \in Transports, NEW reason
  PROVE  LET r == TellUnread(m, t, reason)
         IN /\ Calm(r) /\ Kept(m, r)
            /\ (lesson # None /\ Snapshot(t) = Reading(t)) => Plays(r, Reading(t).playing)
  <1> DEFINE n == Notice(m, t)
             r == Emit(n, Snapshot(t), reason)
  <1>1. r = TellUnread(m, t, reason)
    BY Zenon DEF TellUnread
  <1>2. Calm(n) /\ Kept(m, n)
    BY NoticeObeys
  <1>3. Snapshot(t) \in Transports
    <2>1. Reading(t) \in Transports /\ t.playing \in BOOLEAN
      BY ReadingTypes DEF Transports
    <2>2. \A u \in Transports, b \in BOOLEAN : [u EXCEPT !.playing = b] \in Transports
      BY DEF Transports
    <2> QED BY <2>1, <2>2 DEF Snapshot
  <1> HIDE DEF n
  <1>4. /\ Calm(r) /\ Kept(n, r)
        /\ lesson # None => Plays(r, Snapshot(t).playing)
    BY <1>2, <1>3, EmitObeys
  <1> HIDE DEF r
  <1>5. Kept(m, r)
    BY <1>2, <1>4, KeptIsTransitive
  <1> QED BY <1>1, <1>4, <1>5

LEMMA ToggleStep ==
  ASSUME MediaInv, ToggleSync
  PROVE  MediaInv'
  <1> DEFINE was == player.sync
             s == SetMode(Media, ~was)
             r == TellUnread(s, transport, "sync-mode")
             u == Reading(transport)
             stale == Snapshot(transport) # u
             gone == IF ~was THEN player.loop ELSE None
  <1>1. PageTypes /\ Drifts /\ LoadsInOrder /\ Agreed /\ Calm(Media)
        /\ (follower.on => was /\ lesson # None) /\ follower.settle \in 0 .. Settle
        /\ (~Media.f.on => Media.quiet = Settle) /\ transport \in Transports /\ was \in BOOLEAN
    BY MediaFields DEF MediaInv, Calm, Packs, Followers, PageTypes, Players
  <1>2. LeaveAs(r, u, stale) /\ unread' = unread /\ lesson # None /\ lesson' = lesson
        /\ fetches' = fetches /\ player' = [player EXCEPT !.sync = ~was, !.loop = gone]
    BY Zenon DEF ToggleSync, Ask
  <1>3. may' \in [ops : Int, loads : Int] /\ may'.loads = may.loads
    BY <1>1, AskKeeps DEF ToggleSync
  <1>4. /\ player' \in Players /\ player'.items = player.items /\ player'.active = player.active
        /\ player'.late = player.late /\ (player'.sync <=> ~was)
    <2>1. gone \in {None, MediaLoop} /\ (~was) \in BOOLEAN
      BY <1>1 DEF PageTypes, Players
    <2> HIDE DEF gone
    <2> DEFINE now == ~was
    <2>2. now \in BOOLEAN /\ player' = [player EXCEPT !.sync = now, !.loop = gone]
      BY <1>2, <2>1
    <2> HIDE DEF now
    <2>3. /\ player' \in Players /\ player'.items = player.items /\ player'.active = player.active
          /\ player'.late = player.late /\ player'.sync = now
      BY <1>1, <2>1, <2>2 DEF PageTypes, Players
    <2> QED BY <2>3 DEF now
  <1>5. LoadsInOrder' /\ (player'.items # << >> => player'.active \in DOMAIN player'.items)
    BY <1>1, <1>2, <1>3, <1>4 DEF LoadsInOrder, PageTypes
  <1>6. /\ Calm(s) /\ s.f.binding = follower.binding
        /\ was => ~s.f.on
        /\ ~was => /\ (s.f.on <=> follower.binding # None)
                   /\ s.f.on => s.f.settle = 0
    <2>1. CASE was
      <3>1. s = SetMode(Media, FALSE)
        BY <2>1
      <3> HIDE DEF s
      <3> QED BY <1>1, <2>1, <3>1, SetModeFields, MediaFields
    <2>2. CASE ~was
      <3>1. s = SetMode(Media, TRUE) /\ ~Media.f.on
        BY <1>1, <2>2, MediaFields
      <3> HIDE DEF s
      <3> QED BY <1>1, <2>2, <3>1, SetModeFields, MediaFields
    <2> QED BY <2>1, <2>2
  <1> HIDE DEF s
  <1>7. Calm(r) /\ Kept(s, r) /\ (~stale => Plays(r, u.playing))
    BY <1>1, <1>2, <1>6, TellUnreadObeys
  <1>8. u \in Transports /\ stale \in BOOLEAN
    BY <1>1, ReadingTypes
  <1> HIDE DEF r, u, was, stale
  <1>9. (r.f.on /\ r.e.landing = None) => r.f.settle \in {follower.settle, 0}
    <2>1. (r.f.on <=> s.f.on) /\ (r.e.landing = None => r.f.settle \in {s.f.settle, 0})
      BY <1>7 DEF Kept
    <2> QED BY <1>6, <2>1
  <1>10. /\ transport' \in Transports /\ unread' \in 0 .. MaxLate
         /\ history' \in [quiet : 0 .. Settle, off : Nat, fresh : BOOLEAN, stale : BOOLEAN,
                          thrashed : BOOLEAN]
         /\ Calm(Media)' /\ (~follower.on => history.quiet = Settle)'
         /\ Drifts' /\ PlaysAsTheLesson'
    BY <1>1, <1>2, <1>7, <1>8, <1>9, LeaveKeeps
  <1>11. follower' = r.f /\ r.f.on = s.f.on /\ r.f.binding = follower.binding
    BY <1>2, <1>6, <1>7 DEF LeaveAs, Kept
  <1>12. (follower.on => player.sync /\ lesson # None)'
    BY <1>2, <1>4, <1>6, <1>11
  <1>13. Agreed'
    <2>1. Active(player') = Active(player) /\ ActiveBinding(player') = ActiveBinding(player)
          /\ (Shown(player') <=> Shown(player))
      BY <1>4 DEF Active, ActiveBinding, Shown
    <2> SUFFICES ASSUME ~player.late, Shown(player) \/ player.items = << >>
                 PROVE  (follower'.on <=> player'.sync)
                        /\ follower'.binding = ActiveBinding(player)
      BY <1>4, <2>1 DEF Agreed
    <2>2. follower.binding = ActiveBinding(player) /\ ActiveBinding(player) # None
      BY <1>1 DEF Agreed, ToggleSync
    <2> QED BY <1>4, <1>6, <1>11, <2>2
  <1> QED BY <1>3, <1>4, <1>5, <1>10, <1>12, <1>13 DEF MediaInv, PageTypes

LEMMA SelectedPlayerTypes ==
  ASSUME NEW p \in Players, NEW i \in Nat \ {0}
  PROVE  LET q == SelectedPlayer(p, i)
         IN q \in Players /\ q.items = p.items /\ q.active = i /\ ~q.sync /\ q.late = p.late
  <1> DEFINE off == FALSE
             q == [p EXCEPT !.active = i, !.sync = off, !.loop = None]
  <1>1. SelectedPlayer(p, i) = q /\ off \in BOOLEAN /\ None \in {None, MediaLoop}
    BY Zenon DEF SelectedPlayer
  <1> HIDE DEF off
  <1>2. q \in Players /\ q.items = p.items /\ q.active = i /\ q.sync = off /\ q.late = p.late
    BY <1>1 DEF Players
  <1> QED BY <1>1, <1>2 DEF off

LEMMA SelectStep ==
  ASSUME MediaInv, NEW i \in DOMAIN player.items, Select(i)
  PROVE  MediaInv'
  <1> DEFINE q == SelectedPlayer(player, i)
             r == SelectedMedia(Media, q)
  <1>1. PageTypes /\ LoadsInOrder /\ Calm(Media) /\ player \in Players /\ transport \in Transports
    BY DEF MediaInv, PageTypes
  <1>2. player.items \in Seq(Item) /\ player.items # << >> /\ i \in Nat \ {0}
    BY <1>1 DEF Players
  <1>3. q \in Players /\ q.items = player.items /\ q.active = i /\ ~q.sync /\ q.late = player.late
    BY <1>1, <1>2, SelectedPlayerTypes
  <1>4. player' = q /\ Leave(r, transport) /\ unread' = unread /\ fetches' = fetches
    BY Zenon DEF Select
  <1>5. may' \in [ops : Int, loads : Int] /\ may'.loads = may.loads
    BY <1>1, AskKeeps DEF Select
  <1> HIDE DEF q
  <1>6. Calm(r) /\ ~r.f.on /\ (Shown(q) => r.f.binding = ActiveBinding(q))
    BY <1>1, <1>2, <1>3, SelectedRests
  <1> HIDE DEF r
  <1>7. LoadsInOrder'
    BY <1>1, <1>3, <1>4, <1>5 DEF LoadsInOrder
  <1> QED BY <1>1, <1>2, <1>3, <1>4, <1>5, <1>6, <1>7, ReleasedStep

LEMMA NoMediaTypes ==
  /\ NoMedia \in Players /\ NoMedia.items = << >> /\ ~NoMedia.sync
  /\ ~Shown(NoMedia) /\ ActiveBinding(NoMedia) = None
  <1> DEFINE off == FALSE
             r == [items |-> << >>, active |-> 1, sync |-> off, loop |-> None, late |-> off]
  <1>1. r = NoMedia
    BY Zenon DEF NoMedia
  <1>2. off \in BOOLEAN /\ << >> \in Seq(Item) /\ 1 \in Nat \ {0}
    OBVIOUS
  <1> HIDE DEF off
  <1>3. r \in Players /\ r.items = << >> /\ r.sync = off
    BY <1>2 DEF Players
  <1> HIDE DEF r
  <1>4. NoMedia \in Players /\ NoMedia.items = << >> /\ ~NoMedia.sync
    BY <1>1, <1>3 DEF off
  <1> QED BY <1>4 DEF Shown, Active, ActiveBinding

\* The media go: nothing is shown, and what was played is paused first.
LEMMA ChooseStep ==
  ASSUME MediaInv, NEW l, ChooseLesson(l)
  PROVE  MediaInv'
  <1> DEFINE u == Reading(transport)
             t == IF transport.playing THEN Stopped(u, Raw(u)) ELSE transport
             m == IF transport.playing
                  THEN Tell(Notice(Media, transport), Stopped(u, Raw(u)), "pause") ELSE Media
             r == ClearedMedia(m)
  <1>1. PageTypes /\ LoadsInOrder /\ Calm(Media) /\ transport \in Transports
    BY DEF MediaInv, PageTypes
  <1>2. u \in Transports /\ Raw(u) \in Int
    BY <1>1, ReadingTypes, RawIsWhole
  <1>3. Leave(r, t) /\ player' = NoMedia /\ unread' = unread /\ UNCHANGED <<fetches, may>>
    BY Zenon DEF ChooseLesson
  <1>4. Stopped(u, Raw(u)) \in Transports
    BY <1>2, StoppedTypes
  <1> HIDE DEF u
  <1>5. t \in Transports
    BY <1>1, <1>4
  <1>6. Calm(m)
    <2>1. Calm(Notice(Media, transport))
      BY <1>1, NoticeObeys
    <2>2. Calm(Tell(Notice(Media, transport), Stopped(u, Raw(u)), "pause"))
      BY <1>4, <2>1, TellObeys
    <2> QED BY <1>1, <2>2
  <1> HIDE DEF m, t
  <1>7. Calm(r) /\ ~r.f.on /\ r.f.binding = None
    BY <1>6, ClearedRests DEF Sane, Calm
  <1> HIDE DEF r
  <1>8. LoadsInOrder'
    BY <1>1, <1>3, NoMediaTypes DEF LoadsInOrder
  <1>9. may' \in [ops : Int, loads : Int]
    BY <1>1, <1>3 DEF PageTypes
  <1> QED BY <1>3, <1>5, <1>7, <1>8, <1>9, NoMediaTypes, ReleasedStep

\* A follower that has forgotten its binding only says so.
LEMMA DetachedSays ==
  ASSUME NEW m, Sane(m), ~m.f.on, NEW t, NEW reason
  PROVE  Sane(Follow(m, t, reason)) /\ ~Follow(m, t, reason).f.on
  <1> DEFINE h == BuildHealth("detached", None, None, None)
             r == Report(m, m.f, m.e, h)
  <1>1. Follow(m, t, reason) = r
    BY Zenon DEF Follow
  <1>2. h \in Health /\ HealthContract(h)
    BY HealthIsLawful DEF MeasuredStatus, Status
  <1> HIDE DEF h
  <1>3. m \in Packs /\ m.f \in Followers /\ m.e \in Elements
    BY DEF Sane, Packs
  <1>4. r \in Packs /\ r.thrashed = m.thrashed /\ (r.f.on <=> m.f.on) /\ r.f.health = h
    BY <1>2, <1>3, ReportFields
  <1> QED BY <1>1, <1>2, <1>4 DEF Sane

LEMMA ForgottenIsSane ==
  ASSUME NEW m, Sane(m)
  PROVE  Sane(OnLesson(m)) /\ ~OnLesson(m).f.on
  <1> DEFINE off == FALSE
             g == [binding |-> None, on |-> off, settle |-> 0, health |-> None]
             r == [m EXCEPT !.f = g]
  <1>1. OnLesson(m) = r
    BY Zenon DEF OnLesson, NewFollower
  <1>2. off \in BOOLEAN /\ 0 \in 0 .. Settle
    BY FollowerConstants
  <1> HIDE DEF off
  <1>3. g \in Followers /\ g.on = off /\ g.health = None
    BY <1>2 DEF Followers, Bound
  <1> HIDE DEF g
  <1>4. r \in Packs /\ r.f = g /\ r.thrashed = m.thrashed
    BY <1>3 DEF Sane, Packs
  <1> HIDE DEF r
  <1> QED BY <1>1, <1>3, <1>4 DEF Sane, off

LEMMA ApplyStep ==
  ASSUME MediaInv, NEW l, NEW loop \in Loop \cup {None}, ApplyLesson(l, loop)
  PROVE  MediaInv'
  <1> DEFINE u == Reading(transport)
             paused == IF transport.playing
                       THEN Tell(Notice(Media, transport), Stopped(u, Raw(u)), "pause") ELSE Media
             start == Restart(transport)
             again == Tell(paused, start, "restart")
             restarted == Tell(again, start, "duration")
             bound == Follow(OnLesson(restarted), start, "lesson")
             looped == [start EXCEPT !.loop = loop]
             told == Follow(bound, looped, "loop")
             r == ClearedMedia(told)
             fresh == [id |-> may.loads, lesson |-> l]
  <1>1. PageTypes /\ LoadsInOrder /\ Calm(Media) /\ transport \in Transports
        /\ may \in [ops : Int, loads : Int]
    BY DEF MediaInv, PageTypes
  <1>2. /\ Leave(r, looped) /\ player' = NoMedia /\ unread' = unread
        /\ fetches' = fetches \cup {fresh} /\ may' = [may EXCEPT !.loads = @ - 1]
    BY Zenon DEF ApplyLesson
  <1>3. u \in Transports /\ Raw(u) \in Int
    BY <1>1, ReadingTypes, RawIsWhole
  <1>4. Stopped(u, Raw(u)) \in Transports
    BY <1>3, StoppedTypes
  <1>5. start \in Transports
    BY <1>1, CommandTypes
  <1> HIDE DEF u, start
  <1>6. looped \in Transports
    BY <1>5, CommandTypes
  <1>7. Calm(paused)
    <2>1. Calm(Notice(Media, transport))
      BY <1>1, NoticeObeys
    <2>2. Calm(Tell(Notice(Media, transport), Stopped(u, Raw(u)), "pause"))
      BY <1>4, <2>1, TellObeys
    <2> QED BY <1>1, <2>2
  <1> HIDE DEF paused, looped
  <1>8. Calm(again)
    BY <1>5, <1>7, TellObeys
  <1> HIDE DEF again
  <1>9. Calm(restarted)
    BY <1>5, <1>8, TellObeys
  <1> HIDE DEF restarted
  <1>10. Sane(OnLesson(restarted)) /\ ~OnLesson(restarted).f.on
    BY <1>9, ForgottenIsSane DEF Calm, Sane
  <1>11. Sane(bound) /\ ~bound.f.on
    BY <1>10, DetachedSays
  <1> HIDE DEF bound
  <1>12. Sane(told)
    BY <1>11, DetachedSays
  <1> HIDE DEF told
  <1>13. Calm(r) /\ ~r.f.on /\ r.f.binding = None
    BY <1>12, ClearedRests
  <1> HIDE DEF r
  <1>14. /\ may' \in [ops : Int, loads : Int] /\ may'.loads = may.loads - 1
         /\ fresh.id = may.loads
    BY <1>1, <1>2
  <1> HIDE DEF fresh
  <1>15. LoadsInOrder'
    <2>1. \A fetch \in fetches' : fetch.id \in Int /\ fetch.id > may'.loads
      BY <1>1, <1>2, <1>14 DEF LoadsInOrder
    <2>2. \A fetch, other \in fetches' : fetch.id = other.id => fetch = other
      BY <1>1, <1>2, <1>14 DEF LoadsInOrder
    <2>3. player'.items = << >>
      BY <1>2, NoMediaTypes
    <2> QED BY <2>1, <2>2, <2>3 DEF LoadsInOrder
  <1> QED BY <1>2, <1>6, <1>13, <1>14, <1>15, NoMediaTypes, ReleasedStep

-----------------------------------------------------------------------------
(* What the server answers                                                  *)

\* Of subsets of a finite set, one has none of the others inside it.
LEMMA SmallestSubset ==
  ASSUME NEW R, IsFiniteSet(R), NEW F, F \subseteq SUBSET R, F # {}
  PROVE  \E S \in F : \A T \in F : T \subseteq S => T = S
  <1>1. FiniteSubsetsOf(R) = SUBSET R
    BY FS_FiniteSubsetsOfFinite
  <1>2. IsWellFoundedOn(StrictSubsetOrdering(R), SUBSET R)
    BY <1>1, FS_StrictSubsetOrderingWellFounded
  <1>3. PICK S \in F : \A T \in F : ~ (<<T, S>> \in StrictSubsetOrdering(R))
    BY <1>2, WFMin, Zenon
  <1>4. ASSUME NEW T \in F, T \subseteq S, T # S PROVE FALSE
    <2>1. <<T, S>> \in StrictSubsetOrdering(R)
      BY <1>4 DEF StrictSubsetOrdering
    <2> QED BY <1>3, <2>1
  <1> QED BY <1>4

\* References of a catalog that was accepted come one before the other.
Orderly(R) ==
    /\ IsFiniteSet(R)
    /\ \A r \in R : r.order \in Int /\ r.id \in Int
    /\ \A r, s \in R : r.id = s.id => r = s

LEMMA BeforeIsOrder ==
  ASSUME NEW R, Orderly(R), NEW x \in R, NEW y \in R, NEW z \in R
  PROVE  /\ x = y \/ Before(x, y) \/ Before(y, x)
         /\ (Before(x, y) /\ Before(y, z)) => Before(x, z)
  <1> DEFINE a == x.order  b == y.order  c == z.order
             i == x.id     j == y.id     k == z.id
  <1>1. /\ a \in Int /\ b \in Int /\ c \in Int /\ i \in Int /\ j \in Int /\ k \in Int
        /\ i = j => x = y
    BY DEF Orderly
  <1>2. /\ Before(x, y) <=> (a < b \/ (a = b /\ i < j))
        /\ Before(y, x) <=> (b < a \/ (b = a /\ j < i))
        /\ Before(y, z) <=> (b < c \/ (b = c /\ j < k))
        /\ Before(x, z) <=> (a < c \/ (a = c /\ i < k))
    BY DEF Before
  <1> HIDE DEF a, b, c, i, j, k
  <1> QED BY <1>1, <1>2

LEMMA LastReference ==
  ASSUME NEW R, Orderly(R), NEW S, S \subseteq R, S # {}
  PROVE  \E x \in S : \A y \in S : y = x \/ Before(y, x)
  <1> DEFINE Last(T) == \E x \in T : \A y \in T : y = x \/ Before(y, x)
             F == {T \in SUBSET R : T # {} /\ ~Last(T)}
  <1>a. S \in SUBSET R
    OBVIOUS
  <1>1. SUFFICES ASSUME F # {} PROVE FALSE
    <2>1. S \notin F
      BY Zenon
    <2>2. Last(S)
      BY <1>a, <2>1, Zenon
    <2> QED BY <2>2
  <1>2. PICK T \in F : \A U \in F : U \subseteq T => U = T
    <2>1. F \subseteq SUBSET R /\ F # {} /\ IsFiniteSet(R)
      BY <1>1, Zenon DEF Orderly
    <2> HIDE DEF F
    <2> QED BY <2>1, SmallestSubset
  <1>3. T \subseteq R /\ T # {} /\ ~Last(T)
    OBVIOUS
  <1>4. PICK z \in T : TRUE
    BY <1>3
  <1> DEFINE U == T \ {z}
  <1>5. U \notin F /\ U \subseteq R
    BY <1>2, <1>3, <1>4, Zenon
  <1>6. CASE U = {}
    <2>1. \A y \in T : y = z
      BY <1>6
    <2> QED BY <1>3, <2>1, Zenon
  <1>7. CASE U # {}
    <2>1. Last(U)
      BY <1>5, <1>7, Zenon
    <2>2. PICK x \in U : \A y \in U : y = x \/ Before(y, x)
      BY <2>1
    <2>3. x \in T /\ x \in R /\ z \in R /\ x # z
      BY <1>3, <2>2
    <2>4. CASE Before(z, x)
      <3>1. \A y \in T : y = x \/ Before(y, x)
        BY <2>2, <2>4
      <3> QED BY <1>3, <2>3, <3>1, Zenon
    <2>5. CASE Before(x, z)
      <3>1. \A y \in T : y = z \/ Before(y, z)
        <4> SUFFICES ASSUME NEW y \in T, y # z PROVE Before(y, z)
          OBVIOUS
        <4>1. y = x \/ Before(y, x)
          BY <2>2
        <4> QED BY <1>3, <2>3, <2>5, <4>1, BeforeIsOrder
      <3> QED BY <1>3, <1>4, <3>1, Zenon
    <2> QED BY <2>3, <2>4, <2>5, BeforeIsOrder
  <1> QED BY <1>6, <1>7

\* Any of them can be listed in order.
LEMMA ListsInOrder ==
  ASSUME NEW R, Orderly(R), NEW S, S \subseteq R
  PROVE  /\ Cardinality(S) \in Nat
         /\ \E list \in [1 .. Cardinality(S) -> S] :
               \A i, j \in DOMAIN list : i < j => Before(list[i], list[j])
  <1> DEFINE Listed(T) == \E list \in [1 .. Cardinality(T) -> T] :
                             \A i, j \in DOMAIN list : i < j => Before(list[i], list[j])
             F == {T \in SUBSET R : ~Listed(T)}
  <1>0. \A T \in SUBSET R : IsFiniteSet(T) /\ Cardinality(T) \in Nat
    BY FS_Subset, FS_CardinalityType DEF Orderly
  <1>a. S \in SUBSET R
    OBVIOUS
  <1>1. SUFFICES ASSUME F # {} PROVE FALSE
    <2>1. S \notin F
      BY Zenon
    <2>2. Listed(S)
      BY <1>a, <2>1, Zenon
    <2> QED BY <1>0, <1>a, <2>2
  <1>2. PICK T \in F : \A U \in F : U \subseteq T => U = T
    <2>1. F \subseteq SUBSET R /\ F # {} /\ IsFiniteSet(R)
      BY <1>1, Zenon DEF Orderly
    <2> HIDE DEF F
    <2> QED BY <2>1, SmallestSubset
  <1>3. T \subseteq R /\ ~Listed(T)
    OBVIOUS
  <1>4. CASE T = {}
    <2>1. Cardinality(T) = 0
      BY <1>4, FS_EmptySet
    <2> DEFINE none == [i \in 1 .. 0 |-> i]
    <2>2. none \in [1 .. 0 -> T] /\ DOMAIN none = {}
      OBVIOUS
    <2> HIDE DEF none
    <2> QED BY <1>3, <2>1, <2>2
  <1>5. CASE T # {}
    <2>1. PICK z \in T : \A y \in T : y = z \/ Before(y, z)
      BY <1>3, <1>5, LastReference
    <2> DEFINE U == T \ {z}
               n == Cardinality(U)
    <2>2. U \subseteq R /\ U # T /\ U \subseteq T
      BY <1>3, <2>1
    <2>3. Listed(U)
      BY <1>2, <2>2, Zenon
    <2>4. n \in Nat /\ Cardinality(T) = n + 1
      <3>1. IsFiniteSet(T) /\ Cardinality(T) \in Nat
        BY <1>0, <1>3
      <3>2. Cardinality(U) = Cardinality(T) - 1
        BY <2>1, <3>1, FS_RemoveElement
      <3>3. Cardinality(U) \in Nat
        BY <1>0, <2>2
      <3> QED BY <3>1, <3>2, <3>3
    <2> HIDE DEF n
    <2>5. PICK list \in [1 .. n -> U] : \A i, j \in DOMAIN list : i < j => Before(list[i], list[j])
      BY <2>3 DEF n
    <2> DEFINE more == [i \in 1 .. n + 1 |-> IF i = n + 1 THEN z ELSE list[i]]
    <2>6. more \in [1 .. n + 1 -> T]
      BY <2>4, <2>5
    <2>7. ASSUME NEW i \in 1 .. n + 1, NEW j \in 1 .. n + 1, i < j
          PROVE  Before(more[i], more[j])
      <3>1. i \in 1 .. n /\ more[i] = list[i] /\ list[i] \in T /\ list[i] # z
        BY <2>4, <2>5, <2>7
      <3>2. CASE j = n + 1
        <4>1. more[j] = z
          BY <3>2
        <4> QED BY <2>1, <3>1, <4>1
      <3>3. CASE j # n + 1
        <4>1. j \in 1 .. n /\ more[j] = list[j]
          BY <2>4, <3>3
        <4> QED BY <2>5, <2>7, <3>1, <4>1
      <3> QED BY <3>2, <3>3
    <2> HIDE DEF more
    <2> QED BY <1>3, <2>4, <2>6, <2>7
  <1> QED BY <1>4, <1>5

LEMMA ResolvedTypes ==
  ASSUME NEW c \in Catalogs \ {None}, NEW r \in c.references, NEW files
  PROVE  Resolved(r, c, files) \in Item
  <1> DEFINE known == {m \in c.media : m.id = r.media}
             m == IF known = {} THEN UnavailableText(r.media) ELSE CHOOSE x \in known : TRUE
             there == known # {} /\ Available(m, files)
             b == r.binding
             i == [media |-> m, binding |-> b, available |-> there]
  <1>1. Resolved(r, c, files) = i
    BY Zenon DEF Resolved
  <1>2. m \in c.media \cup {UnavailableText(s.media) : s \in c.references}
    <2>1. CASE known = {}
      BY <2>1
    <2>2. CASE known # {}
      <3>1. m \in known
        BY <2>2
      <3> QED BY <3>1
    <2> QED BY <2>1, <2>2
  <1>3. m \in Medium
    BY <1>2, Zenon DEF Medium
  <1>4. there \in BOOLEAN
    OBVIOUS
  <1>5. b \in Bound
    <2>1. b \in {s.binding : s \in c.references}
      OBVIOUS
    <2> HIDE DEF b
    <2> QED BY <2>1, Zenon DEF Bound
  <1> HIDE DEF m, there, b
  <1>6. i \in Item
    BY <1>3, <1>4, <1>5 DEF Item
  <1> QED BY <1>1, <1>6

\* Whatever the server has, its answer is a list of media with their bindings.
LEMMA AnswerTypes ==
  ASSUME NEW c \in Catalogs, NEW l, NEW files
  PROVE  MediaAnswer(c, l, files).items \in Seq(Item)
  <1> DEFINE answer == MediaAnswer(c, l, files)
             none == << >>
  <1>0. none \in Seq(Item)
    OBVIOUS
  <1>1. CASE c = None
    <2>1. answer.items = none
      BY <1>1 DEF MediaAnswer
    <2> QED BY <1>0, <2>1
  <1>2. CASE c # None /\ ~Loads(c)
    <2>1. answer.items = none
      BY <1>2 DEF MediaAnswer
    <2> QED BY <1>0, <2>1
  <1>3. CASE c # None /\ Loads(c)
    <2> DEFINE R == c.references
               S == {r \in R : r.lesson = l}
               n == Cardinality(S)
               list == ListForLesson(c, l)
               InOrder(s) == \A i, j \in DOMAIN s : i < j => Before(s[i], s[j])
    <2>1. Orderly(R)
      <3>1. CatalogTypes(c, Length)
        BY <1>3, MediaConstants, Zenon
      <3>2. CatalogContract(c)
        BY <1>3, Zenon DEF Loads
      <3> QED BY <3>1, <3>2 DEF Orderly, CatalogTypes, CatalogContract
    <2>2. S \subseteq R
      OBVIOUS
    <2>3. n \in Nat /\ \E s \in [1 .. n -> S] : InOrder(s)
      <3> HIDE DEF R, S
      <3> QED BY <2>1, <2>2, ListsInOrder
    <2>4. list = CHOOSE s \in [1 .. n -> S] : InOrder(s)
      BY Zenon DEF ListForLesson
    <2>5. list \in [1 .. n -> S]
      <3> HIDE DEF S, n, list, InOrder
      <3> QED BY <2>3, <2>4
    <2> DEFINE items == [i \in DOMAIN list |-> Resolved(list[i], c, files)]
    <2>6. answer.items = items
      BY <1>3, Zenon DEF MediaAnswer, ResolveForLesson
    <2>7. \A i \in 1 .. n : list[i] \in c.references
      <3> HIDE DEF list, n
      <3> QED BY <2>5
    <2>8. \A i \in 1 .. n : Resolved(list[i], c, files) \in Item
      <3> HIDE DEF list, n
      <3> QED BY <1>3, <2>7, ResolvedTypes
    <2>9. DOMAIN list = 1 .. n
      <3> HIDE DEF list, n, S
      <3> QED BY <2>5
    <2>10. items \in [1 .. n -> Item]
      <3> HIDE DEF list, n
      <3> QED BY <2>8, <2>9
    <2>11. items \in Seq(Item)
      <3> HIDE DEF items, n
      <3> QED BY <2>3, <2>10
    <2> HIDE DEF items
    <2> QED BY <2>6, <2>11
  <1> QED BY <1>1, <1>2, <1>3

\* A step of the page that the transport, the follower and the element do not see.
LEMMA UnseenStep ==
  ASSUME MediaInv, UNCHANGED <<transport, follower, element, history, unread, lesson, may>>,
         player' \in Players, player'.sync = player.sync,
         player'.items # << >> => player'.active \in DOMAIN player'.items,
         LoadsInOrder', Agreed'
  PROVE  MediaInv'
  <1>1. PageTypes' /\ Drifts'
    BY DEF MediaInv, PageTypes, Drifts, FarOut, Movable
  <1>2. Calm(Media)'
    <2>1. Media' = Media
      BY DEF Media
    <2> QED BY <2>1 DEF MediaInv, Calm
  <1>3. PlaysAsTheLesson'
    BY DEF MediaInv, PlaysAsTheLesson
  <1> QED BY <1>1, <1>2, <1>3 DEF MediaInv

\* The answer to a load, for whatever lesson it is.  Only that to the last load
\* can find a player that shows nothing for it yet.
LEMMA ArriveStep ==
  ASSUME MediaInv, NEW fetch \in fetches, NEW answer, answer.items \in Seq(Item),
         MediaArrive(fetch, answer)
  PROVE  MediaInv'
  <1> DEFINE late == fetch.id > may.loads + 1 \/ (player.late /\ answer.items = << >>)
             p == [player EXCEPT !.items = answer.items, !.late = late]
             q == SelectedPlayer(p, 1)
             r == SelectedMedia(Media, q)
  <1>1. PageTypes /\ LoadsInOrder /\ Agreed /\ Calm(Media) /\ player \in Players
        /\ transport \in Transports /\ may \in [ops : Int, loads : Int]
    BY DEF MediaInv, PageTypes
  <1>2. UNCHANGED <<lesson, may, unread>> /\ fetches' = fetches \ {fetch}
    BY DEF MediaArrive
  <1>3. late \in BOOLEAN
    OBVIOUS
  <1>4. ~late => /\ fetch.id = may.loads + 1
                 /\ ~player.late \/ answer.items # << >>
    BY <1>1 DEF LoadsInOrder
  <1>5. \A other \in fetches' : other.id = may.loads + 1 => late
    <2> SUFFICES ASSUME NEW other \in fetches', other.id = may.loads + 1 PROVE late
      OBVIOUS
    <2>1. other \in fetches /\ other # fetch
      BY <1>2
    <2>2. fetch.id # may.loads + 1 /\ fetch.id \in Int /\ fetch.id > may.loads
      BY <1>1, <2>1 DEF LoadsInOrder
    <2> HIDE DEF late
    <2> QED BY <1>1, <1>4, <2>2
  <1>6. \/ ~answer.ok /\ UNCHANGED <<transport, follower, element, player, history>>
        \/ answer.items = << >> /\ player' = p /\ UNCHANGED <<transport, follower, element, history>>
        \/ answer.items # << >> /\ player' = q /\ Leave(r, transport)
    BY Zenon DEF MediaArrive
  <1> HIDE DEF late
  <1>7. /\ p \in Players /\ p.items = answer.items /\ p.late = late /\ p.active = player.active
        /\ p.sync = player.sync
    BY <1>1, <1>3 DEF Players
  <1> HIDE DEF p
  <1>8. q \in Players /\ q.items = answer.items /\ q.active = 1 /\ ~q.sync /\ q.late = late
    BY <1>7, SelectedPlayerTypes
  <1> HIDE DEF q
  <1>9. CASE ~answer.ok /\ UNCHANGED <<transport, follower, element, player, history>>
    <2>1. LoadsInOrder'
      BY <1>1, <1>2, <1>9 DEF LoadsInOrder
    <2>2. Agreed'
      BY <1>1, <1>9 DEF Agreed, Shown, Active, ActiveBinding
    <2> QED BY <1>1, <1>2, <1>9, <2>1, <2>2, UnseenStep DEF PageTypes
  <1>10. CASE answer.items = << >> /\ player' = p /\ UNCHANGED <<transport, follower, element, history>>
    <2>1. LoadsInOrder'
      BY <1>1, <1>2, <1>7, <1>10 DEF LoadsInOrder
    <2>2. Agreed'
      <3> SUFFICES ASSUME ~p.late
                   PROVE  (follower.on <=> p.sync) /\ follower.binding = ActiveBinding(p)
        BY <1>10 DEF Agreed
      <3>1. ~player.late /\ player.items = << >>
        BY <1>1, <1>4, <1>7, <1>10 DEF LoadsInOrder
      <3>2. (follower.on <=> player.sync) /\ follower.binding = ActiveBinding(player)
        BY <1>1, <3>1 DEF Agreed
      <3>3. ActiveBinding(player) = None /\ ActiveBinding(p) = None
        BY <1>7, <1>10, <3>1 DEF ActiveBinding, Active
      <3> QED BY <1>7, <3>2, <3>3
    <2> QED BY <1>2, <1>7, <1>10, <2>1, <2>2, UnseenStep
  <1>11. CASE answer.items # << >> /\ player' = q /\ Leave(r, transport)
    <2>1. LoadsInOrder'
      BY <1>1, <1>2, <1>5, <1>8, <1>11 DEF LoadsInOrder
    <2>2. 1 \in DOMAIN q.items
      BY <1>8, <1>11 DEF Players
    <2>3. Calm(r) /\ ~r.f.on /\ (Shown(q) => r.f.binding = ActiveBinding(q))
      BY <1>1, <1>8, <1>11, <2>2, SelectedRests
    <2> HIDE DEF r
    <2> QED BY <1>1, <1>2, <1>8, <1>11, <2>1, <2>2, <2>3, ReleasedStep
  <1> QED BY <1>6, <1>9, <1>10, <1>11

LEMMA FailStep ==
  ASSUME MediaInv, NEW l, LoadFails(l)
  PROVE  MediaInv'
  <1>1. UNCHANGED <<transport, follower, element, player, lesson, fetches, may, unread, history>>
    BY DEF LoadFails
  <1>2. PageTypes /\ LoadsInOrder /\ Agreed
    BY DEF MediaInv
  <1>3. LoadsInOrder' /\ Agreed'
    BY <1>1, <1>2 DEF LoadsInOrder, Agreed, Shown, Active, ActiveBinding
  <1> QED BY <1>1, <1>2, <1>3, UnseenStep DEF PageTypes

-----------------------------------------------------------------------------
(* Time                                                                     *)

LEMMA AdvancedTypes ==
  ASSUME NEW e \in Elements, NEW slip \in Int
  PROVE  LET d == Advanced(e, slip)
         IN d \in Elements /\ d.landing = e.landing /\ d.nudge = e.nudge
  <1>1. CASE e.paused \/ ~e.ready \/ e.landing # None
    BY <1>1, Zenon DEF Advanced
  <1>2. CASE ~(e.paused \/ ~e.ready \/ e.landing # None)
    <2> DEFINE x == e.time + e.rate + slip
               y == IF x < Length[e.clip] THEN x ELSE Length[e.clip]
               over == x >= Length[e.clip]
               d == [e EXCEPT !.time = y, !.paused = over]
    <2>1. Length[e.clip] \in Nat
      BY <1>2, MediaConstants DEF Elements
    <2>2. x \in Int /\ y \in Int /\ over \in BOOLEAN
      BY <2>1 DEF Elements
    <2>3. Advanced(e, slip) = d
      BY <1>2, Zenon DEF Advanced
    <2> HIDE DEF y, over
    <2>4. d \in Elements /\ d.landing = e.landing /\ d.nudge = e.nudge
      BY <2>2 DEF Elements
    <2> HIDE DEF d
    <2> QED BY <2>3, <2>4
  <1> QED BY <1>1, <1>2

\* A tick uses up the window of the last seek, and what is out of place when it
\* is over has until the next frame.
LEMMA TickStep ==
  ASSUME MediaInv, NEW slip \in Int, Tick(slip)
  PROVE  MediaInv'
  <1> DEFINE t == IF transport.playing THEN [transport EXCEPT !.elapsed = @ + 1] ELSE transport
             d == Advanced(element, slip)
             s == IF follower.settle > 0 THEN follower.settle - 1 ELSE 0
             g == [follower EXCEPT !.settle = s]
             quiet == IF history.quiet < Settle THEN history.quiet + 1 ELSE Settle
             off == IF FarOut(follower', element', transport') THEN history.off + 1 ELSE 0
             fresh == FALSE
             h == [history EXCEPT !.quiet = quiet, !.off = off, !.fresh = fresh]
             Histories == [quiet : 0 .. Settle, off : Nat, fresh : BOOLEAN, stale : BOOLEAN,
                           thrashed : BOOLEAN]
  <1>1. /\ PageTypes /\ LoadsInOrder /\ Agreed /\ Drifts /\ Calm(Media)
        /\ (~follower.on => history.quiet = Settle)
        /\ (follower.on => player.sync /\ lesson # None)
    BY DEF MediaInv
  <1>2. /\ transport \in Transports /\ follower \in Followers /\ element \in Elements
        /\ history \in Histories /\ ~history.thrashed
        /\ unread \in 0 .. MaxLate /\ MaxLate \in Nat /\ Settle \in Nat \ {0}
        /\ follower.settle \in 0 .. Settle /\ history.quiet \in 0 .. Settle /\ history.off \in Nat
    BY <1>1, MediaFields, MediaConstants, FollowerConstants DEF PageTypes, Calm, Packs, Followers
  <1>3. /\ transport' = t /\ element' = d /\ follower' = g /\ history' = h
        /\ unread' = IF lesson = None THEN 0 ELSE unread + 1
        /\ unread < MaxLate \/ lesson = None
        /\ UNCHANGED <<player, lesson, loading, fetches, may>>
    BY Zenon DEF Tick, page
  <1>4. t \in Transports
    <2>1. \A n \in Int : [transport EXCEPT !.elapsed = n] \in Transports
      BY <1>2 DEF Transports
    <2>2. transport.elapsed + 1 \in Int
      BY <1>2 DEF Transports
    <2> QED BY <1>2, <2>1, <2>2
  <1>5. d \in Elements /\ d.landing = element.landing /\ d.nudge = element.nudge
    BY <1>2, AdvancedTypes
  <1>6. /\ s \in 0 .. Settle /\ quiet \in 0 .. Settle /\ off \in Nat /\ fresh \in BOOLEAN
        /\ s > 0 => s = follower.settle - 1 /\ follower.settle > 0
        /\ history.quiet + follower.settle >= Settle => quiet + s >= Settle
        /\ history.quiet = Settle => quiet = Settle
        /\ off > 0 => off = history.off + 1 /\ FarOut(follower', element', transport')
        /\ ~fresh
    BY <1>2
  <1> HIDE DEF t, d, s, quiet, off, fresh
  <1>7. g \in Followers /\ g.settle = s /\ g.binding = follower.binding /\ g.health = follower.health
        /\ g.on = follower.on
    BY <1>2, <1>6 DEF Followers
  <1> HIDE DEF g
  <1>8. h \in Histories /\ h.quiet = quiet /\ h.off = off /\ h.fresh = fresh /\ ~h.thrashed
    BY <1>2, <1>6
  <1> HIDE DEF h
  <1>9. PageTypes'
    <2>1. unread' \in 0 .. MaxLate
      BY <1>2, <1>3
    <2> QED BY <1>1, <1>3, <1>4, <1>8, <2>1 DEF PageTypes
  <1>10. Calm(Media)'
    <2> DEFINE r == [f |-> g, e |-> d, quiet |-> quiet, thrashed |-> h.thrashed]
    <2>1. Media' = r
      BY <1>3, <1>8 DEF Media
    <2>2. h.thrashed \in BOOLEAN /\ ~h.thrashed
      BY <1>8
    <2>3. r \in Packs /\ r.f = g /\ r.e = d /\ r.quiet = quiet /\ ~r.thrashed
      BY <1>5, <1>6, <1>7, <2>2 DEF Packs
    <2> HIDE DEF r
    <2>4. r.f.on => r.quiet + r.f.settle >= Settle
      BY <1>1, <1>6, <1>7, <2>3, MediaFields DEF Calm
    <2>5. (r.f.settle > 0 /\ r.e.landing # None) => MediaToLesson(r.f.binding, r.e.landing) # None
      BY <1>1, <1>5, <1>6, <1>7, <2>3, MediaFields DEF Calm
    <2>6. ~r.f.on => r.e.nudge = 0
      BY <1>1, <1>5, <1>7, <2>3, MediaFields DEF Calm
    <2>7. r.f.health # None => HealthContract(r.f.health)
      BY <1>1, <1>7, <2>3, MediaFields DEF Calm
    <2>8. Calm(r)
      BY <2>3, <2>4, <2>5, <2>6, <2>7 DEF Calm
    <2> QED BY <2>1, <2>8 DEF Calm
  <1>11. Drifts'
    <2>1. (history.off > 0 => FarOut(follower, element, transport))'
      BY <1>3, <1>6, <1>8 DEF FarOut, Movable
    <2>2. (follower.settle > 0 => history.off + follower.settle <= Settle)'
      <3>1. follower.settle > 0 => history.off + follower.settle <= Settle
        BY <1>1 DEF Drifts
      <3> QED BY <1>2, <1>3, <1>6, <1>7, <1>8, <3>1
    <2>3. (history.off <= Settle + unread)'
      <3>1. history.off <= Settle + unread
        BY <1>1 DEF Drifts
      <3>2. CASE off > 0
        <4>1. follower'.on
          BY <1>6, <3>2 DEF FarOut
        <4>2. lesson # None
          BY <1>1, <1>3, <1>7, <4>1
        <4> QED BY <1>2, <1>3, <1>6, <1>8, <3>1, <3>2, <4>2
      <3>3. CASE ~(off > 0)
        <4>1. unread' \in Nat
          BY <1>2, <1>3
        <4> QED BY <1>2, <1>3, <1>6, <1>8, <3>3, <4>1
      <3> QED BY <3>2, <3>3
    <2> QED BY <2>1, <2>2, <2>3 DEF Drifts
  <1>12. PlaysAsTheLesson'
    BY <1>3, <1>6, <1>8 DEF PlaysAsTheLesson
  <1>13. (~follower.on => history.quiet = Settle)' /\ (follower.on => player.sync /\ lesson # None)'
    BY <1>1, <1>3, <1>6, <1>7, <1>8
  <1>14. Agreed' /\ LoadsInOrder'
    BY <1>1, <1>3, <1>7 DEF Agreed, Shown, Active, ActiveBinding, LoadsInOrder
  <1> QED BY <1>9, <1>10, <1>11, <1>12, <1>13, <1>14 DEF MediaInv

-----------------------------------------------------------------------------
(* What is proved                                                           *)

LEMMA MediaInit == Init => MediaInv
  <1> SUFFICES ASSUME Init PROVE MediaInv
    OBVIOUS
  <1> DEFINE off == FALSE
             on == TRUE
             none == << >>
             z == 0
             one == 1
  <1>0. /\ off \in BOOLEAN /\ ~off /\ on \in BOOLEAN /\ none = << >> /\ none \in Seq(Item)
        /\ z \in Int /\ z \in Nat /\ z = 0 /\ z \in 0 .. Settle /\ z \in 0 .. MaxLate
        /\ one \in Nat \ {0} /\ Settle \in 0 .. Settle /\ Settle \in Nat
        /\ NormalRate \in Rate /\ NormalRate \in Int /\ None \in Bound
    BY FollowerConstants, MediaConstants, RateIsWhole DEF Bound
  <1>1. PICK plays \in BOOLEAN : element = NewElement(plays)
    BY DEF Init
  <1>2. /\ transport = [playing |-> off, base |-> z, elapsed |-> z, rate |-> NormalRate,
                        loop |-> None, reps |-> z]
        /\ follower = [binding |-> None, on |-> off, settle |-> z, health |-> None]
        /\ element = [clip |-> None, time |-> z, landing |-> None, paused |-> on,
                      rate |-> NormalRate, nudge |-> z, ready |-> off, mayPlay |-> plays]
        /\ player = [items |-> none, active |-> one, sync |-> off, loop |-> None, late |-> off]
        /\ history = [quiet |-> Settle, off |-> z, fresh |-> off, stale |-> off,
                       thrashed |-> off]
    BY <1>1 DEF Init, NewTransport, NewFollower, NewElement, NoMedia
  <1>3. fetches = {} /\ may \in Budgets /\ unread = z
    BY DEF Init
  <1> HIDE DEF off, on, none, z, one
  <1>4. transport \in Transports
    BY <1>0, <1>2 DEF Transports
  <1>5. follower \in Followers /\ follower.on = off /\ follower.settle = z
        /\ follower.binding = None /\ follower.health = None
    BY <1>0, <1>2 DEF Followers
  <1>6. element \in Elements /\ element.nudge = z /\ element.landing = None
    BY <1>0, <1>2 DEF Elements
  <1>7. player \in Players /\ player.items = none /\ player.sync = off
    BY <1>0, <1>2 DEF Players
  <1>8. history \in [quiet : 0 .. Settle, off : Nat, fresh : BOOLEAN, stale : BOOLEAN,
                     thrashed : BOOLEAN]
        /\ history.quiet = Settle /\ history.off = z /\ history.fresh = off /\ history.thrashed = off
    BY <1>0, <1>2
  <1>9. may \in [ops : Int, loads : Int]
    BY <1>3, MediaConstants
  <1>10. PageTypes
    BY <1>0, <1>3, <1>4, <1>7, <1>8, <1>9 DEF PageTypes
  <1>11. Calm(Media)
    <2>1. Media \in Packs
      BY <1>5, <1>6, <1>8 DEF Packs, Media
    <2> QED BY <1>0, <1>5, <1>6, <1>8, <2>1, MediaFields DEF Calm
  <1>12. LoadsInOrder
    BY <1>3 DEF LoadsInOrder
  <1>13. Drifts
    BY <1>0, <1>3, <1>5, <1>8 DEF Drifts
  <1>14. Agreed
    <2>1. ActiveBinding(player) = None
      BY <1>0, <1>7 DEF ActiveBinding, Active
    <2> QED BY <1>0, <1>5, <1>7, <2>1 DEF Agreed
  <1>15. PlaysAsTheLesson
    BY <1>0, <1>8 DEF PlaysAsTheLesson
  <1> QED BY <1>0, <1>5, <1>8, <1>10, <1>11, <1>12, <1>13, <1>14, <1>15 DEF MediaInv

LEMMA MediaStep == MediaInv /\ [Next]_vars => MediaInv'
  <1> SUFFICES ASSUME MediaInv, [Next]_vars PROVE MediaInv'
    OBVIOUS
  <1>1. ASSUME UNCHANGED vars PROVE MediaInv'
    <2>1. UNCHANGED <<transport, follower, element, player, lesson, loading, fetches, may, unread, history>>
      BY <1>1 DEF vars, page
    <2>2. PageTypes /\ LoadsInOrder /\ Agreed
      BY DEF MediaInv
    <2>3. LoadsInOrder' /\ Agreed'
      BY <2>1, <2>2 DEF LoadsInOrder, Agreed, Shown, Active, ActiveBinding
    <2> QED BY <2>1, <2>2, <2>3, UnseenStep DEF PageTypes
  <1>2. ASSUME PlayLesson \/ PauseLesson \/ RestartLesson PROVE MediaInv'
    BY <1>2, TransportSteps
  <1>3. ASSUME Frame PROVE MediaInv'
    BY <1>3, FrameStep
  <1>4. ASSUME NEW position \in Seeks, SeekLesson(position) PROVE MediaInv'
    <2>1. position \in Int
      BY MediaConstants
    <2> QED BY <1>4, <2>1, TransportSteps
  <1>5. ASSUME NEW r \in Rate, SetLessonRate(r) \/ SetRateOfElement(r) PROVE MediaInv'
    BY <1>5, TransportSteps, LearnerSteps
  <1>6. ASSUME NEW l \in Loop \cup {None}, SetLessonLoop(l) PROVE MediaInv'
    BY <1>6, TransportSteps
  <1>7. ASSUME ToggleSync PROVE MediaInv'
    BY <1>7, ToggleStep
  <1>8. ASSUME NEW i \in DOMAIN player.items, Select(i) PROVE MediaInv'
    BY <1>8, SelectStep
  <1>9. ASSUME PlayElement \/ PauseElement \/ SetMediaLoop PROVE MediaInv'
    BY <1>9, LearnerSteps
  <1>10. ASSUME Shown(player), NEW c \in Active(player).media.cues, SeekByCue(c) PROVE MediaInv'
    BY <1>10, LearnerSteps
  <1>11. ASSUME NEW l \in Lessons, ChooseLesson(l) \/ LoadFails(l) PROVE MediaInv'
    BY <1>11, ChooseStep, FailStep
  <1>12. ASSUME NEW l \in loading, NEW loop \in Loop \cup {None}, ApplyLesson(l, loop) PROVE MediaInv'
    BY <1>12, ApplyStep
  <1>13. ASSUME NEW fetch \in fetches, NEW c \in Catalogs, NEW files \in Files,
                MediaArrive(fetch, MediaAnswer(c, fetch.lesson, files))
         PROVE  MediaInv'
    <2> DEFINE answer == MediaAnswer(c, fetch.lesson, files)
    <2>1. answer.items \in Seq(Item)
      BY AnswerTypes
    <2>2. MediaArrive(fetch, answer)
      BY <1>13
    <2> HIDE DEF answer
    <2> QED BY <2>1, <2>2, ArriveStep
  <1>14. ASSUME NEW slip \in Slips, Tick(slip) PROVE MediaInv'
    <2>1. slip \in Int
      BY MediaConstants
    <2> QED BY <1>14, <2>1, TickStep
  <1>15. ASSUME Land \/ Buffer \/ TimeUpdate PROVE MediaInv'
    BY <1>15, LearnerSteps
  <1> QED BY <1>1, <1>2, <1>3, <1>4, <1>5, <1>6, <1>7, <1>8, <1>9, <1>10, <1>11, <1>12, <1>13,
             <1>14, <1>15, Zenon DEF Next

LEMMA MediaInvariant == Spec => []MediaInv
  BY MediaInit, MediaStep, PTL DEF Spec

LEMMA ClipIsFollowed == MediaInv => FollowsTheLesson
  <1> SUFFICES ASSUME MediaInv PROVE FollowsTheLesson
    OBVIOUS
  <1>1. Calm(Media) /\ PageTypes /\ Drifts /\ Agreed /\ PlaysAsTheLesson
    BY DEF MediaInv
  <1>2. follower \in Followers /\ follower.binding \in Bound
    BY <1>1, MediaFields DEF Calm, Packs, Followers
  <1>3. StaysInTheClip
    <2> DEFINE x == Raw(Reading(transport))
    <2>1. x \in Int
      BY <1>1, ReadingTypes, RawIsWhole DEF PageTypes
    <2>2. (follower.settle > 0 /\ element.landing # None)
             => MediaToLesson(follower.binding, element.landing) # None
      BY <1>1, MediaFields DEF Calm
    <2>3. follower.binding # None =>
             /\ Expected(follower.binding, x) = LessonToMedia(follower.binding, x)
             /\ Expected(follower.binding, x) # None =>
                   MediaToLesson(follower.binding, Expected(follower.binding, x)) = x
      BY <1>2, <2>1, ExpectedTypes
    <2> QED BY <2>2, <2>3, Zenon DEF StaysInTheClip
  <1>4. SoonBack
    <2>1. history.off \in Nat /\ unread \in 0 .. MaxLate /\ history.off <= Settle + unread
          /\ Settle \in Nat /\ MaxLate \in Nat
      BY <1>1, FollowerConstants, MediaConstants DEF PageTypes, Drifts
    <2> QED BY <2>1 DEF SoonBack
  <1>5. Honest
    BY <1>1, MediaFields DEF Calm, Honest
  <1> QED BY <1>1, <1>3, <1>4, <1>5 DEF FollowsTheLesson

\* A clip that is synchronized follows its lesson, for any catalog and however
\* many commands, answers and frames: the page says so only of media that is
\* driven, the clip plays when the lesson does, and it is back in place within one
\* settle window and one frame (media-sync.js onTimeline, media-player.js select).
THEOREM ClipFollowsLesson == Spec => []FollowsTheLesson
  BY MediaInvariant, ClipIsFollowed, PTL

\* No hard seek is sent while an earlier one may still be landing, whatever the
\* transport publishes and however often (media-sync.js _settleUntilMs).
THEOREM NeverThrashes == Spec => []NoThrashing
  <1>1. MediaInv => NoThrashing
    BY MediaFields DEF MediaInv, Calm, NoThrashing
  <1> QED BY <1>1, MediaInvariant, PTL
=============================================================================
