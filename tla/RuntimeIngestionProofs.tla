----------------------- MODULE RuntimeIngestionProofs -----------------------
(***************************************************************************)
(* Proofs about RuntimeIngestion, for any runtime, scenarios, readings,     *)
(* documents and authors: one capture is open at the most and a closed one  *)
(* is evidence, a request id has one meaning, and the library the requests  *)
(* and the authors write keeps its histories.                               *)
(***************************************************************************)
EXTENDS RuntimeIngestion, FiniteSetTheorems, FunctionTheorems, NaturalsInduction,
        WellFoundedInduction, TLAPS

-----------------------------------------------------------------------------
(***************************************************************************)
(* The revisions by themselves, for any set of documents, authors and edits *)
(* and any bound: the history behind every stored revision is whole, and    *)
(* what is stored first stays.                                              *)
(*                                                                         *)
(* What is whole is not preserved by itself: an author carries a revision   *)
(* between its reads and its writes, so the invariant says of the revision  *)
(* in each author's hands what is said of the stored ones.  It holds there  *)
(* because nothing ever leaves the store, whoever writes in between.        *)
(***************************************************************************)

Numbered(r) == r.number \in Nat \ {0}

StoredWhole == \A r \in Stored : Numbered(r) /\ r.document \in Existing /\ Follows(r)

HeadOf(d) ==
    /\ documents[d].current \in Stored
    /\ documents[d].current.document = d
    /\ documents[d].current.number = documents[d].count

HeadsWhole == \A d \in Existing : HeadOf(d)

\* What an author holds could be stored, and is once it has been saved.
Held(s) ==
    /\ Numbered(s.revision) /\ s.revision.number = s.count
    /\ s.revision.document \in Existing
    /\ Follows(s.revision)
    /\ s.pc = "saved" => s.revision \in Stored

AuthorsWhole ==
    /\ DOMAIN authors = Authors
    /\ \A a \in Authors : authors[a].pc \in {"built", "saved"} => Held(authors[a])

IInv == StoredWhole /\ HeadsWhole /\ AuthorsWhole

-----------------------------------------------------------------------------

\* Where nothing leaves the store, a revision keeps its place in its history.
LEMMA FollowsStays ==
    ASSUME NEW r, Follows(r), Stored \subseteq Stored'
    PROVE  Follows(r)'
  BY DEF Follows

LEMMA RevisionFields ==
    ASSUME NEW d, NEW n, NEW p, NEW m
    PROVE  /\ Revision(d, n, p, m).document = d
           /\ Revision(d, n, p, m).number = n
           /\ Revision(d, n, p, m).parent = p
  BY DEF Revision

LEMMA InitHolds == RevisionInit => IInv
  BY DEF RevisionInit, IInv, StoredWhole, HeadsWhole, AuthorsWhole, Stored, Existing, Idle

\* Creating a document stores its origin with it and touches nothing else.
LEMMA CreateKeeps ==
    ASSUME IInv, NEW d, NEW music, NEW by, CreateDocument(d, music, by)
    PROVE  IInv'
<1> DEFINE o == Origin(d, music)
<1>1. o.document = d /\ o.number = 1 /\ o.parent = NoParent
  BY RevisionFields DEF Origin
<1>2. Stored' = Stored \cup {o}
  BY DEF CreateDocument, RevisionsWith, Stored
<1>0. PICK doc : doc = [current |-> o, count |-> 1]
  OBVIOUS
<1>00. documents' = DocumentsWith(d, doc) /\ d \notin Existing
  BY <1>0 DEF CreateDocument
<1>3. Existing' = Existing \cup {d} /\ d \notin Existing
  BY <1>00 DEF DocumentsWith, Existing
<1>4. documents'[d] = [current |-> o, count |-> 1]
  BY <1>0, <1>00 DEF DocumentsWith, Existing
<1>5. \A e \in Existing : documents'[e] = documents[e]
  BY <1>00 DEF DocumentsWith, Existing
<1>6. StoredWhole'
  <2> SUFFICES ASSUME NEW r \in Stored' PROVE Numbered(r) /\ r.document \in Existing' /\ Follows(r)'
    BY DEF StoredWhole, Numbered
  <2>1. CASE r \in Stored
    BY <2>1, <1>2, <1>3, FollowsStays DEF IInv, StoredWhole
  <2>2. CASE r = o
    BY <2>2, <1>1, <1>3 DEF Numbered, Follows
  <2> QED  BY <2>1, <2>2, <1>2
<1>7. HeadsWhole'
  <2> SUFFICES ASSUME NEW e \in Existing' PROVE HeadOf(e)'
    BY DEF HeadsWhole
  <2>1. CASE e \in Existing
    BY <2>1, <1>2, <1>5 DEF IInv, HeadsWhole, HeadOf
  <2>2. CASE e = d
    BY <2>2, <1>1, <1>2, <1>4 DEF HeadOf
  <2> QED  BY <2>1, <2>2, <1>3
<1>8. AuthorsWhole'
  <2>1. authors' = authors
    BY DEF CreateDocument
  <2> SUFFICES ASSUME NEW a \in Authors, authors[a].pc \in {"built", "saved"}
               PROVE  Held(authors[a])'
    BY <2>1 DEF AuthorsWhole, IInv
  <2>2. Held(authors[a])
    BY DEF IInv, AuthorsWhole
  <2> QED  BY <2>1, <2>2, <1>2, <1>3, FollowsStays DEF Held, Numbered
<1> QED  BY <1>6, <1>7, <1>8 DEF IInv

\* The child an author builds continues the history of the head it read.
LEMMA ReadKeeps ==
    ASSUME IInv, NEW a \in Authors, NEW d, NEW music, ReadParent(a, d, music)
    PROVE  IInv'
<1> DEFINE parent == documents[d].current
           child  == Revision(d, parent.number + 1, parent, music)
           mine   == [pc |-> "built", revision |-> child, count |-> documents[d].count + 1]
<1>1. Stored' = Stored /\ Existing' = Existing /\ documents' = documents
  BY DEF ReadParent, Stored, Existing
<1>2. authors' = [authors EXCEPT ![a] = mine]
  BY DEF ReadParent, Child
<1>3. parent \in Stored /\ parent.document = d /\ d \in Existing
  BY DEF ReadParent
<1>4. Numbered(parent) /\ parent.number = documents[d].count
  BY <1>3 DEF IInv, StoredWhole, HeadsWhole, HeadOf
<1>5. child.document = d /\ child.number = parent.number + 1 /\ child.parent = parent
  BY RevisionFields
<1>6. Numbered(child) /\ child.number # 1 /\ parent.number = child.number - 1
  BY <1>4, <1>5 DEF Numbered
<1>7. Follows(child)
  BY <1>3, <1>5, <1>6 DEF Follows
<1>8. Held(mine)
  BY <1>3, <1>4, <1>5, <1>6, <1>7 DEF Held
<1>9. \A x : Follows(x)' <=> Follows(x)
  BY <1>1 DEF Follows
<1>10. AuthorsWhole'
  <2> SUFFICES ASSUME NEW b \in Authors, authors'[b].pc \in {"built", "saved"}
               PROVE  Held(authors[b])'
    BY <1>2 DEF AuthorsWhole, IInv
  <2>1. Held(authors'[b])
    <3>1. CASE b = a
      BY <3>1, <1>2, <1>8 DEF IInv, AuthorsWhole
    <3>2. CASE b # a
      BY <3>2, <1>2 DEF IInv, AuthorsWhole
    <3> QED  BY <3>1, <3>2
  <2> QED  BY <2>1, <1>1, <1>9 DEF Held, Numbered
<1>11. StoredWhole' /\ HeadsWhole'
  BY <1>1, <1>9 DEF IInv, StoredWhole, HeadsWhole, HeadOf, Numbered
<1> QED  BY <1>10, <1>11 DEF IInv

\* Saving stores what the author holds, or finds it stored.
LEMMA SaveRevisionKeeps ==
    ASSUME IInv, NEW a \in Authors, SaveRevision(a)
    PROVE  IInv'
<1> DEFINE mine == authors[a].revision
<1>1. Held(authors[a])
  BY DEF IInv, AuthorsWhole, SaveRevision
<1>2. Stored' = Stored \cup {mine}
  BY DEF SaveRevision, RevisionsWith, Stored
<1>3. Existing' = Existing /\ documents' = documents
  BY DEF SaveRevision, Existing
<1>4. authors' = [authors EXCEPT ![a].pc = "saved"]
  BY DEF SaveRevision
<1>5. StoredWhole'
  <2> SUFFICES ASSUME NEW r \in Stored' PROVE Numbered(r) /\ r.document \in Existing' /\ Follows(r)'
    BY DEF StoredWhole, Numbered
  <2>1. CASE r \in Stored
    BY <2>1, <1>2, <1>3, FollowsStays DEF IInv, StoredWhole
  <2>2. CASE r = mine
    BY <2>2, <1>1, <1>2, <1>3, FollowsStays DEF Held
  <2> QED  BY <2>1, <2>2, <1>2
<1>6. HeadsWhole'
  BY <1>2, <1>3 DEF IInv, HeadsWhole, HeadOf
<1>7. AuthorsWhole'
  <2> SUFFICES ASSUME NEW b \in Authors, authors'[b].pc \in {"built", "saved"}
               PROVE  Held(authors[b])'
    BY <1>4 DEF AuthorsWhole, IInv
  <2>1. /\ authors'[b].revision = authors[b].revision
        /\ authors'[b].count = authors[b].count
        /\ Held(authors[b])
        /\ authors'[b].pc = "saved" => authors[b].revision \in Stored'
    <3>1. CASE b = a
      BY <3>1, <1>1, <1>2, <1>4 DEF IInv, AuthorsWhole
    <3>2. CASE b # a
      BY <3>2, <1>2, <1>4 DEF IInv, AuthorsWhole, Held
    <3> QED  BY <3>1, <3>2
  <2>2. Follows(authors[b].revision)'
    <3>1. Follows(authors'[b].revision)
      BY <2>1 DEF Held
    <3> QED  BY <3>1, <1>2 DEF Follows
  <2> QED  BY <2>1, <2>2, <1>3 DEF Held, Numbered
<1> QED  BY <1>5, <1>6, <1>7 DEF IInv

\* The document then points at a revision that is stored and is its own.
LEMMA SaveDocumentKeeps ==
    ASSUME IInv, NEW a \in Authors, SaveDocument(a)
    PROVE  IInv'
<1> DEFINE r == authors[a].revision
           d == r.document
<1>1. Held(authors[a]) /\ r \in Stored
  BY DEF IInv, AuthorsWhole, SaveDocument, Held
<1>2. Stored' = Stored
  BY DEF SaveDocument, Stored
<1>0. PICK doc : doc = [current |-> r, count |-> authors[a].count]
  OBVIOUS
<1>00. documents' = DocumentsWith(d, doc) /\ d \in Existing
  BY <1>0 DEF SaveDocument
<1>3. Existing' = Existing /\ d \in Existing
  BY <1>00 DEF DocumentsWith, Existing
<1>4. documents'[d] = [current |-> r, count |-> authors[a].count]
  BY <1>0, <1>00 DEF DocumentsWith, Existing
<1>5. \A e \in Existing : e # d => documents'[e] = documents[e]
  BY <1>00 DEF DocumentsWith, Existing
<1>6. authors' = [authors EXCEPT ![a] = Idle]
  BY DEF SaveDocument
<1>7. \A x : Follows(x)' <=> Follows(x)
  BY <1>2 DEF Follows
<1>8. StoredWhole'
  BY <1>2, <1>3, <1>7 DEF IInv, StoredWhole, Numbered
<1>9. HeadsWhole'
  <2> SUFFICES ASSUME NEW e \in Existing' PROVE HeadOf(e)'
    BY DEF HeadsWhole
  <2>1. CASE e = d
    BY <2>1, <1>1, <1>2, <1>4 DEF HeadOf, Held
  <2>2. CASE e # d
    BY <2>2, <1>2, <1>3, <1>5 DEF IInv, HeadsWhole, HeadOf
  <2> QED  BY <2>1, <2>2
<1>10. AuthorsWhole'
  <2> SUFFICES ASSUME NEW b \in Authors, authors'[b].pc \in {"built", "saved"}
               PROVE  Held(authors[b])'
    BY <1>6 DEF AuthorsWhole, IInv
  <2>1. b # a /\ authors'[b] = authors[b]
    BY <1>6 DEF Idle, IInv, AuthorsWhole
  <2>2. Held(authors'[b])
    BY <2>1 DEF IInv, AuthorsWhole
  <2> QED  BY <2>2, <1>2, <1>3, <1>7 DEF Held, Numbered
<1> QED  BY <1>8, <1>9, <1>10 DEF IInv

LEMMA AbandonKeeps ==
    ASSUME IInv, NEW a \in Authors, Abandon(a)
    PROVE  IInv'
<1>1. Stored' = Stored /\ Existing' = Existing /\ documents' = documents
  BY DEF Abandon, Stored, Existing
<1>2. authors' = [authors EXCEPT ![a] = Idle]
  BY DEF Abandon
<1>3. \A x : Follows(x)' <=> Follows(x)
  BY <1>1 DEF Follows
<1>4. AuthorsWhole'
  <2> SUFFICES ASSUME NEW b \in Authors, authors'[b].pc \in {"built", "saved"}
               PROVE  Held(authors[b])'
    BY <1>2 DEF AuthorsWhole, IInv
  <2>1. authors'[b] = authors[b]
    BY <1>2 DEF Idle, IInv, AuthorsWhole
  <2>2. Held(authors'[b])
    BY <2>1 DEF IInv, AuthorsWhole
  <2> QED  BY <2>2, <1>1, <1>3 DEF Held, Numbered
<1> QED  BY <1>1, <1>3, <1>4 DEF IInv, StoredWhole, HeadsWhole, HeadOf, Numbered

LEMMA StutterKeeps ==
    ASSUME IInv, UNCHANGED revisionVars
    PROVE  IInv'
  BY DEF IInv, revisionVars, StoredWhole, HeadsWhole, HeadOf, AuthorsWhole, Held, Numbered,
         Follows, Stored, Existing

LEMMA NextKeeps == IInv /\ [RevisionNext]_revisionVars => IInv'
<1> SUFFICES ASSUME IInv, [RevisionNext]_revisionVars PROVE IInv'
  OBVIOUS
<1>1. ASSUME NEW d \in Documents, NEW music \in Edits, NEW a \in Authors,
             CreateDocument(d, music, a)
      PROVE  IInv'
  BY <1>1, CreateKeeps
<1>2. ASSUME NEW a \in Authors, AuthorStep(a)
      PROVE  IInv'
  BY <1>2, ReadKeeps, SaveRevisionKeeps, SaveDocumentKeeps, AbandonKeeps DEF AuthorStep
<1>3. CASE UNCHANGED revisionVars
  BY <1>3, StutterKeeps
<1> QED  BY <1>1, <1>2, <1>3 DEF RevisionNext

-----------------------------------------------------------------------------

\* However authors interleave, fail or give up, the history behind every stored
\* revision is complete and every document points into its own.
THEOREM HistoryIsWhole == RevisionSpec => []HeadHistoryIsWhole
<1>1. RevisionInit => IInv
  BY InitHolds
<1>2. IInv /\ [RevisionNext]_revisionVars => IInv'
  BY NextKeeps
<1>3. IInv => HeadHistoryIsWhole
  BY DEF IInv, StoredWhole, HeadsWhole, HeadOf, HeadHistoryIsWhole
<1> QED  BY <1>1, <1>2, <1>3, PTL DEF RevisionSpec

\* One step takes nothing out of the store and replaces nothing in it.
LEMMA StepKeepsStored ==
    ASSUME [RevisionNext]_revisionVars
    PROVE  /\ \A r \in Stored : r \in Stored' /\ revisions'[r] = revisions[r]
           /\ Existing \subseteq Existing'
<1>1. ASSUME NEW d, NEW music, NEW by, CreateDocument(d, music, by)
      PROVE  /\ \A r \in Stored : r \in Stored' /\ revisions'[r] = revisions[r]
             /\ Existing \subseteq Existing'
  <2>1. PICK doc : documents' = DocumentsWith(d, doc)
    BY <1>1 DEF CreateDocument
  <2>2. revisions' = RevisionsWith(Origin(d, music), by)
    BY <1>1 DEF CreateDocument
  <2>3. Existing \subseteq Existing'
    BY <2>1 DEF DocumentsWith, Existing
  <2>4. \A r \in Stored : r \in Stored' /\ revisions'[r] = revisions[r]
    BY <2>2 DEF RevisionsWith, Stored
  <2> QED  BY <2>3, <2>4
<1>2. ASSUME NEW a, AuthorStep(a)
      PROVE  /\ \A r \in Stored : r \in Stored' /\ revisions'[r] = revisions[r]
             /\ Existing \subseteq Existing'
  <2>1. CASE SaveRevision(a)
    <3>1. revisions' = RevisionsWith(authors[a].revision, a) /\ documents' = documents
      BY <2>1 DEF SaveRevision
    <3> QED  BY <3>1 DEF RevisionsWith, Stored, Existing
  <2>2. CASE SaveDocument(a)
    <3>1. PICK doc : documents' = DocumentsWith(authors[a].revision.document, doc)
      BY <2>2 DEF SaveDocument
    <3>2. revisions' = revisions
      BY <2>2 DEF SaveDocument
    <3> QED  BY <3>1, <3>2 DEF DocumentsWith, Stored, Existing
  <2>3. CASE Abandon(a) \/ \E d \in Documents, music \in Edits : ReadParent(a, d, music)
    BY <2>3 DEF Abandon, ReadParent, Stored, Existing
  <2> QED  BY <1>2, <2>1, <2>2, <2>3 DEF AuthorStep
<1>3. CASE UNCHANGED revisionVars
  BY <1>3 DEF revisionVars, Stored, Existing
<1> QED  BY <1>1, <1>2, <1>3 DEF RevisionNext

\* The first write of a content wins for ever, whoever writes it again.
THEOREM FirstWriteStays == RevisionSpec => FirstWriteWins
<1>1. [RevisionNext]_revisionVars =>
        [/\ \A r \in Stored : r \in Stored' /\ revisions'[r] = revisions[r]
         /\ Existing \subseteq Existing']_revisionVars
  BY StepKeepsStored
<1> QED  BY <1>1, PTL DEF RevisionSpec, FirstWriteWins

-----------------------------------------------------------------------------
(* The runtime, the requests and the authors                                *)

EventValues == [seq : Nat, type : MidiTypes, at : Nat, key : Int, velocity : -1 .. 127,
                string : Int]

\* A record of the capture class; what its faults and warnings say is left open.
CaptureFields == {"id", "state", "ended", "events", "faults", "warnings"}
IsCapture(c) ==
    /\ DOMAIN c = CaptureFields /\ c = [f \in DOMAIN c |-> c[f]]
    /\ c.events \in Seq(EventValues)

-----------------------------------------------------------------------------
(* The operations a capture is changed by                                   *)

(* A new record is open, empty and could be constructed.                    *)
LEMMA BuildLemma ==
    ASSUME NEW id
    PROVE  /\ IsCapture(BuildRawCapture(id)) /\ CaptureContract(BuildRawCapture(id))
           /\ BuildRawCapture(id).id = id /\ BuildRawCapture(id).state = "IN_PROGRESS"
           /\ BuildRawCapture(id).events = << >>
<1>1. IsCapture(BuildRawCapture(id))
  BY DEF IsCapture, BuildRawCapture, CaptureFields
<1>2. BuildRawCapture(id).events = << >> /\ Len(<< >>) = 0
  BY DEF BuildRawCapture
<1>3. CaptureContract(BuildRawCapture(id))
  BY <1>2 DEF CaptureContract, BuildRawCapture, CompletionStates, TerminalStates
<1> QED BY <1>1, <1>2, <1>3 DEF BuildRawCapture

(* Closing keeps the events and the id and ends in the state named.         *)
LEMMA CloseLemma ==
    ASSUME NEW c, IsCapture(c), CaptureContract(c), NEW s \in TerminalStates, NEW f, NEW w
    PROVE  /\ IsCapture(CloseCapture(c, s, f, w))
           /\ CaptureContract(CloseCapture(c, s, f, w))
           /\ CloseCapture(c, s, f, w).id = c.id
           /\ CloseCapture(c, s, f, w).state = s
           /\ CloseCapture(c, s, f, w).events = c.events
<1>1. PICK r : r = CloseCapture(c, s, f, w)
  OBVIOUS
<1>2. DOMAIN r = CaptureFields /\ r = [g \in DOMAIN r |-> r[g]]
  BY <1>1 DEF CloseCapture, IsCapture
<1>3. r.id = c.id /\ r.state = s /\ r.ended = TRUE /\ r.events = c.events
  BY <1>1 DEF CloseCapture, IsCapture, CaptureFields
<1>4. CaptureContract(r)
  BY <1>3 DEF CaptureContract, CompletionStates
<1> QED BY <1>1, <1>2, <1>3, <1>4 DEF IsCapture

(* Appending adds one event at the end of an open record.                   *)
LEMMA AppendLemma ==
    ASSUME NEW c, IsCapture(c), NEW e, CanAppend(c, e),
           e \in [seq : Nat, type : {e.type}, at : Int, key : {e.key},
                  velocity : {e.velocity}, string : {e.string}]
    PROVE  /\ IsCapture(AppendEvent(c, e)) /\ CaptureContract(AppendEvent(c, e))
           /\ AppendEvent(c, e).id = c.id /\ AppendEvent(c, e).state = c.state
           /\ AppendEvent(c, e).events = Append(c.events, e)
           /\ e \in EventValues
<1>1. PICK r : r = AppendEvent(c, e)
  OBVIOUS
<1>2. DOMAIN r = CaptureFields /\ r = [g \in DOMAIN r |-> r[g]]
  BY <1>1 DEF AppendEvent, IsCapture
<1>3. r.id = c.id /\ r.state = c.state /\ r.events = Append(c.events, e)
  BY <1>1 DEF AppendEvent, IsCapture, CaptureFields
<1>4. EventContract(e)
  BY DEF CanAppend
<1>5. e.type \in MidiTypes /\ e.key \in Int /\ e.velocity \in -1 .. 127 /\ e.string \in Int
      /\ e.at \in Nat
  BY <1>4 DEF EventContract, Absent
<1>6. e \in EventValues
  BY <1>5 DEF EventValues
<1>7. CaptureContract(r)
  BY <1>1 DEF CanAppend, AppendEvent
<1>8. Append(c.events, e) \in Seq(EventValues)
  BY <1>6 DEF IsCapture
<1> QED BY <1>1, <1>2, <1>3, <1>6, <1>7, <1>8 DEF IsCapture

-----------------------------------------------------------------------------
(* The runtime                                                              *)

RuntimeInv ==
    /\ OneCaptureOpen
    /\ \A id \in DOMAIN captures : IsCapture(captures[id])

\* What a step may do to one capture.
Evidence(id) ==
    /\ id \in DOMAIN captures'
    /\ captures'[id] # captures[id] =>
          \/ active = id /\ IsPrefix(captures[id].events, captures'[id].events)
          \/ Closed(captures[id]) /\ active' = id /\ captures'[id].events = <<>>

RuntimeKeeps == RuntimeInv' /\ \A id \in DOMAIN captures : Evidence(id)

(* Events are numbered by naturals.                                         *)
LEMMA Numbers ==
    ASSUME NEW s \in Seq(EventValues), NEW i \in DOMAIN s
    PROVE  s[i].seq \in Nat
<1>1. s[i] \in EventValues
  OBVIOUS
<1> QED BY <1>1 DEF EventValues

(* A step that touches no capture.                                          *)
LEMMA IdleStep ==
    ASSUME RuntimeInv, UNCHANGED <<scenario, captures, active>>,
           state' \in {"OFF", "READY", "FAILED"},
           sequence' = sequence \/ (sequence < MaxFeeds /\ sequence' = sequence + 1)
    PROVE  RuntimeKeeps
<1>1. sequence \in Nat /\ sequence' \in 0 .. MaxFeeds /\ sequence <= sequence'
  BY RuntimeConstants DEF RuntimeInv, OneCaptureOpen, RuntimeTypeOK
<1>2. RuntimeTypeOK'
  BY <1>1 DEF RuntimeInv, OneCaptureOpen, RuntimeTypeOK
<1>3. ASSUME NEW id \in DOMAIN captures
      PROVE  \A i \in DOMAIN captures[id].events : captures[id].events[i].seq < sequence'
  <2>1. captures[id].events \in Seq(EventValues)
    BY <1>3 DEF RuntimeInv, IsCapture
  <2>2. \A i \in DOMAIN captures[id].events : captures[id].events[i].seq \in Nat
    BY <2>1, Numbers
  <2>3. \A i \in DOMAIN captures[id].events : captures[id].events[i].seq < sequence
    BY <1>3 DEF RuntimeInv, OneCaptureOpen
  <2> QED BY <1>1, <2>2, <2>3
<1>4. RuntimeInv'
  BY <1>2, <1>3 DEF RuntimeInv, OneCaptureOpen, IsCapture, CaptureContract
<1> QED BY <1>4 DEF RuntimeKeeps, Evidence

(* The active capture ends, whichever way.                                  *)
LEMMA ClosingStep ==
    ASSUME RuntimeInv, Capturing, NEW s \in TerminalStates, NEW f, NEW w,
           captures' = [captures EXCEPT ![active] = CloseCapture(@, s, f, w)],
           active' = NoCapture, UNCHANGED <<scenario, sequence>>,
           state' \in {"OFF", "READY", "FAILED"}
    PROVE  RuntimeKeeps
<1>0. /\ active \in DOMAIN captures /\ IsCapture(captures[active])
      /\ CaptureContract(captures[active]) /\ captures[active].id = active
      /\ DOMAIN captures \subseteq CaptureIds /\ RuntimeTypeOK
  BY DEF RuntimeInv, OneCaptureOpen, RuntimeTypeOK, Capturing
<1>1. PICK c : c = CloseCapture(captures[active], s, f, w)
  OBVIOUS
<1>2. /\ IsCapture(c) /\ CaptureContract(c) /\ c.id = active /\ c.state = s
      /\ c.events = captures[active].events
  BY <1>0, <1>1, CloseLemma
<1>3. /\ DOMAIN captures' = DOMAIN captures /\ captures'[active] = c
      /\ \A id \in DOMAIN captures : id # active => captures'[id] = captures[id]
  BY <1>0, <1>1
<1>4. RuntimeTypeOK'
  BY <1>0, <1>3 DEF RuntimeTypeOK
<1>5. ASSUME NEW id \in DOMAIN captures
      PROVE  /\ captures'[id].state # "IN_PROGRESS" /\ active' # id
             /\ CaptureContract(captures'[id]) /\ IsCapture(captures'[id])
             /\ captures'[id].id = id
             /\ \A i \in DOMAIN captures'[id].events : captures'[id].events[i].seq < sequence'
  <2>1. active' # id
    BY <1>0, <1>5, RuntimeConstants
  <2>2. CASE id = active
    BY <1>0, <1>2, <1>3, <2>1, <2>2 DEF TerminalStates, RuntimeInv, OneCaptureOpen
  <2>3. CASE id # active
    BY <1>3, <1>5, <2>1, <2>3 DEF RuntimeInv, OneCaptureOpen
  <2> QED BY <2>2, <2>3
<1>6. OneCaptureOpen'
  BY <1>3, <1>4, <1>5 DEF OneCaptureOpen, CaptureContract
<1>7. RuntimeInv'
  BY <1>3, <1>5, <1>6 DEF RuntimeInv, IsCapture
<1>8. \A id \in DOMAIN captures : Evidence(id)
  BY <1>2, <1>3 DEF Evidence, IsPrefix, IsCapture
<1> QED BY <1>7, <1>8 DEF RuntimeKeeps

(* A capture starts: its id was free, or named a closed capture.            *)
LEMMA StartingStep ==
    ASSUME RuntimeInv, NEW id \in CaptureIds, StartCapture(id)
    PROVE  RuntimeKeeps
<1>0. /\ RuntimeTypeOK /\ active = NoCapture /\ NoCapture \notin CaptureIds
      /\ DOMAIN captures \subseteq CaptureIds /\ active' = id
      /\ UNCHANGED <<scenario, state, sequence>>
  BY RuntimeConstants
     DEF RuntimeInv, OneCaptureOpen, RuntimeTypeOK, StartCapture, StartCaptureAccepted,
         Capturing
<1>1. PICK c : c = BuildRawCapture(id)
  OBVIOUS
<1>2. /\ IsCapture(c) /\ CaptureContract(c) /\ c.id = id /\ c.state = "IN_PROGRESS"
      /\ c.events = << >>
  BY <1>1, BuildLemma
<1>3. /\ DOMAIN captures' = DOMAIN captures \cup {id} /\ captures'[id] = c
      /\ \A j \in DOMAIN captures : j # id => captures'[j] = captures[j]
  BY <1>1 DEF StartCapture, Put
<1>4. RuntimeTypeOK'
  BY <1>0, <1>3 DEF RuntimeTypeOK
<1>5. ASSUME NEW j \in DOMAIN captures'
      PROVE  /\ captures'[j].state = "IN_PROGRESS" <=> active' = j
             /\ CaptureContract(captures'[j]) /\ IsCapture(captures'[j])
             /\ captures'[j].id = j
             /\ \A i \in DOMAIN captures'[j].events : captures'[j].events[i].seq < sequence'
  <2>1. CASE j = id
    BY <1>0, <1>2, <1>3, <2>1
  <2>2. CASE j # id
    <3>1. j \in DOMAIN captures /\ captures'[j] = captures[j] /\ j # NoCapture
      BY <1>0, <1>3, <1>5, <2>2
    <3> QED BY <1>0, <2>2, <3>1 DEF RuntimeInv, OneCaptureOpen
  <2> QED BY <2>1, <2>2
<1>6. OneCaptureOpen'
  BY <1>4, <1>5 DEF OneCaptureOpen, CaptureContract
<1>7. RuntimeInv'
  BY <1>5, <1>6 DEF RuntimeInv, IsCapture
<1>8. ASSUME NEW j \in DOMAIN captures
      PROVE  Evidence(j)
  <2>1. j # NoCapture /\ captures[j].state # "IN_PROGRESS"
    BY <1>0, <1>8 DEF RuntimeInv, OneCaptureOpen
  <2>2. Closed(captures[j])
    BY <1>8, <2>1 DEF RuntimeInv, OneCaptureOpen, CaptureContract, CompletionStates, Closed
  <2> QED BY <1>0, <1>2, <1>3, <2>2 DEF Evidence
<1> QED BY <1>7, <1>8 DEF RuntimeKeeps

(* An event is offered to the active capture, which takes it or does not.   *)
LEMMA FeedingStep ==
    ASSUME RuntimeInv, NEW input, NEW step \in Steps, Feed(input, step)
    PROVE  RuntimeKeeps
<1>0. /\ active \in DOMAIN captures /\ IsCapture(captures[active])
      /\ CaptureContract(captures[active]) /\ captures[active].id = active
      /\ captures[active].state = "IN_PROGRESS"
      /\ DOMAIN captures \subseteq CaptureIds /\ RuntimeTypeOK
      /\ UNCHANGED <<scenario, state, active>>
      /\ sequence \in Nat /\ sequence < MaxFeeds /\ sequence' = sequence + 1
  BY RuntimeConstants DEF RuntimeInv, OneCaptureOpen, RuntimeTypeOK, Capturing, Feed
<1>1. PICK e : e = FedEvent(input, step)
  OBVIOUS
<1>2. CASE UNCHANGED captures
  BY <1>0, <1>2, IdleStep DEF RuntimeTypeOK
<1>3. CASE /\ CanAppend(captures[active], e)
           /\ captures' = [captures EXCEPT ![active] = AppendEvent(@, e)]
  <2>1. LastTime(captures[active]) \in Int
    <3>1. captures[active].events \in Seq(EventValues)
      BY <1>0 DEF IsCapture
    <3>2. CASE captures[active].events = << >>
      BY <3>2 DEF LastTime
    <3>3. CASE captures[active].events # << >>
      <4>1. Last(captures[active].events) \in EventValues
        BY <3>1, <3>3 DEF Last
      <4> QED BY <3>3, <4>1 DEF LastTime, EventValues
    <3> QED BY <3>2, <3>3
  <2>2. e \in [seq : Nat, type : {e.type}, at : Int, key : {e.key},
               velocity : {e.velocity}, string : {e.string}] /\ e.seq = sequence
    BY <1>0, <1>1, <2>1, RuntimeConstants DEF FedEvent
  <2>3. PICK c : c = AppendEvent(captures[active], e)
    OBVIOUS
  <2>4. /\ IsCapture(c) /\ CaptureContract(c) /\ c.id = active
        /\ c.state = "IN_PROGRESS" /\ c.events = Append(captures[active].events, e)
        /\ e \in EventValues
    BY <1>0, <1>3, <2>2, <2>3, AppendLemma
  <2>5. /\ DOMAIN captures' = DOMAIN captures /\ captures'[active] = c
        /\ \A id \in DOMAIN captures : id # active => captures'[id] = captures[id]
    BY <1>0, <1>3, <2>3
  <2>6. RuntimeTypeOK'
    BY <1>0, <2>5, RuntimeConstants DEF RuntimeTypeOK
  <2>7. ASSUME NEW id \in DOMAIN captures
        PROVE  \A i \in DOMAIN captures[id].events :
                   captures[id].events[i].seq \in Nat /\ captures[id].events[i].seq < sequence'
    <3>1. captures[id].events \in Seq(EventValues)
      BY <2>7 DEF RuntimeInv, IsCapture
    <3>2. \A i \in DOMAIN captures[id].events : captures[id].events[i].seq \in Nat
      BY <3>1, Numbers
    <3>3. \A i \in DOMAIN captures[id].events : captures[id].events[i].seq < sequence
      BY <2>7 DEF RuntimeInv, OneCaptureOpen
    <3> QED BY <1>0, <3>2, <3>3
  <2>8. ASSUME NEW id \in DOMAIN captures
        PROVE  /\ captures'[id].state = "IN_PROGRESS" <=> active' = id
               /\ CaptureContract(captures'[id]) /\ IsCapture(captures'[id])
               /\ captures'[id].id = id
               /\ \A i \in DOMAIN captures'[id].events :
                      captures'[id].events[i].seq < sequence'
    <3>1. CASE id = active
      <4>1. captures[active].events \in Seq(EventValues)
        BY <1>0 DEF IsCapture
      <4>2. \A i \in DOMAIN c.events : c.events[i] = e \/
                (i \in DOMAIN captures[active].events /\ c.events[i] = captures[active].events[i])
        BY <2>4, <4>1
      <4>3. \A i \in DOMAIN c.events : c.events[i].seq < sequence'
        BY <1>0, <2>2, <2>7, <4>2
      <4> QED BY <1>0, <2>4, <2>5, <3>1, <4>3
    <3>2. CASE id # active
      BY <1>0, <2>5, <2>7, <2>8, <3>2 DEF RuntimeInv, OneCaptureOpen
    <3> QED BY <3>1, <3>2
  <2>9. OneCaptureOpen'
    BY <2>5, <2>6, <2>8 DEF OneCaptureOpen, CaptureContract
  <2>10. RuntimeInv'
    BY <2>5, <2>8, <2>9 DEF RuntimeInv, IsCapture
  <2>11. IsPrefix(captures[active].events, c.events)
    <3>1. captures[active].events \in Seq(EventValues)
      BY <1>0 DEF IsCapture
    <3> QED BY <2>4, <3>1 DEF IsPrefix
  <2>12. \A id \in DOMAIN captures : Evidence(id)
    BY <2>5, <2>11 DEF Evidence
  <2> QED BY <2>10, <2>12 DEF RuntimeKeeps
<1> QED BY <1>1, <1>2, <1>3 DEF Feed

(* Every step of the runtime keeps its captures in order.                   *)
LEMMA RuntimeStepKeeps == RuntimeInv /\ [RuntimeNext]_runtimeVars => RuntimeKeeps
<1> SUFFICES ASSUME RuntimeInv, [RuntimeNext]_runtimeVars PROVE RuntimeKeeps
  OBVIOUS
<1>0. state \in {"OFF", "READY", "FAILED"}
  BY DEF RuntimeInv, OneCaptureOpen, RuntimeTypeOK
<1>1. CASE \/ Start \/ Panic
           \/ \E config \in Configs : PrepareSession(config)
           \/ \E flag \in BOOLEAN : ArmTrack(flag)
  BY <1>0, <1>1, IdleStep DEF Start, Panic, PrepareSession, ArmTrack
<1>2. CASE Stop \/ Crash
  <2>1. CASE ~Capturing
    BY <1>2, <2>1, IdleStep DEF Stop, Crash, Capturing
  <2>2. CASE Capturing
    <3>1. \E f, w : /\ captures' = [captures EXCEPT ![active] = MarkInterrupted(@, f, w)]
                    /\ active' = NoCapture /\ UNCHANGED <<scenario, sequence>>
                    /\ state' \in {"OFF", "READY", "FAILED"}
      BY <1>2, <2>2 DEF Stop, Crash, Interrupted
    <3>2. "INTERRUPTED" \in TerminalStates
      BY DEF TerminalStates
    <3> QED BY <2>2, <3>1, <3>2, ClosingStep DEF MarkInterrupted
  <2> QED BY <2>1, <2>2
<1>3. ASSUME NEW flag \in BOOLEAN, StopCapture(flag)
      PROVE  RuntimeKeeps
  <2>1. \E w : \E s \in TerminalStates :
            captures' = [captures EXCEPT ![active] = CloseCapture(@, s, <<>>, w)]
    BY <1>3 DEF StopCapture, TerminalStates
  <2>2. Capturing /\ active' = NoCapture /\ UNCHANGED <<scenario, state, sequence>>
    BY <1>3 DEF StopCapture
  <2>3. PICK w : \E s \in TerminalStates :
            captures' = [captures EXCEPT ![active] = CloseCapture(@, s, <<>>, w)]
    BY <2>1
  <2>4. PICK f : f = <<>>
    OBVIOUS
  <2>5. PICK s \in TerminalStates :
            captures' = [captures EXCEPT ![active] = CloseCapture(@, s, f, w)]
    BY <2>3, <2>4
  <2> QED BY <1>0, <2>2, <2>5, ClosingStep
<1>4. CASE UNCHANGED runtimeVars
  BY <1>0, <1>4, IdleStep DEF runtimeVars
<1>5. ASSUME NEW id \in CaptureIds, StartCapture(id)
      PROVE  RuntimeKeeps
  BY <1>5, StartingStep
<1>6. ASSUME NEW input \in Inputs, NEW step \in Steps, Feed(input, step)
      PROVE  RuntimeKeeps
  BY <1>6, FeedingStep
<1>7. CASE \E flag \in BOOLEAN : ArmTrack(flag) \/ StopCapture(flag)
  <2>1. PICK flag \in BOOLEAN : ArmTrack(flag) \/ StopCapture(flag)
    BY <1>7
  <2> QED BY <1>1, <1>3, <2>1
<1>8. CASE RuntimeNext
  BY <1>1, <1>2, <1>5, <1>6, <1>7, <1>8 DEF RuntimeNext
<1> QED BY <1>4, <1>8

(* What the runtime reports of itself can be constructed and is honest: it  *)
(* is derived at each call, so that no invariant is needed.                 *)
LEMMA Honest == ReadinessIsHonest
<1>1. Health.state = "READY" => /\ state = "READY" /\ scenario \notin DOMAIN Broken
                                /\ Blocking(Health, Infrastructure) = {}
  BY DEF Health, Blocking, SubsystemOf, Infrastructure, Subsystems
<1>2. PICK r : r = Readiness(Health)
  OBVIOUS
<1>3. /\ r.health = Health
      /\ r.ready <=> (Health.state = "READY" /\ Blocking(Health, Infrastructure) = {})
      /\ r.captureReady <=> (r.ready /\ Blocking(Health, {"session", "capture"}) = {})
  BY <1>2 DEF Readiness
<1>4. Blocking(Health, Infrastructure) = {} /\ Blocking(Health, {"session", "capture"}) = {}
         => Blocking(Health, Subsystems) = {}
  BY DEF Blocking, Infrastructure
<1>5. HealthContract(Health)
  BY <1>1 DEF HealthContract
<1>6. ReadinessContract(r)
  BY <1>3, <1>4 DEF ReadinessContract
<1>7. r.captureReady => Prepared
  BY <1>1, <1>3 DEF Blocking, Health, SubsystemOf, Subsystems
<1> QED BY <1>1, <1>2, <1>3, <1>5, <1>6, <1>7 DEF ReadinessIsHonest, StartCaptureAccepted

-----------------------------------------------------------------------------
(* The live service                                                         *)

TakeInv ==
    /\ take = NoTake \/ (IsCapture(take) /\ CaptureContract(take))
    /\ TakeOpen => connected /\ listening
    /\ messages \in Nat

LEMMA LiveStepKeeps == TakeInv /\ [LiveNext]_liveVars => TakeInv'
<1> SUFFICES ASSUME TakeInv, [LiveNext]_liveVars PROVE TakeInv'
  OBVIOUS
<1>1. ASSUME NEW sound \in BOOLEAN, LiveStart(sound)
      PROVE  TakeInv'
  <2>1. IsCapture(BuildRawCapture("live")) /\ CaptureContract(BuildRawCapture("live"))
    BY BuildLemma
  <2>2. take' = BuildRawCapture("live") \/ take' = take
    BY <1>1 DEF LiveStart
  <2>3. take' = NoTake \/ (IsCapture(take') /\ CaptureContract(take'))
    BY <2>1, <2>2 DEF TakeInv
  <2> QED BY <1>1, <2>3 DEF TakeInv, LiveStart, IsCapture, CaptureContract, NoTake
<1>2. ASSUME NEW input \in LiveInputs, NEW step \in LiveSteps, Accept(input, step)
      PROVE  TakeInv'
  <2>1. PICK e : e = Message(input, step)
    OBVIOUS
  <2>2. CASE TakeOpen /\ CanAppend(take, e) /\ take' = AppendEvent(take, e)
    <3>1. IsCapture(take) /\ take.events \in Seq(EventValues)
      BY <2>2 DEF TakeInv, TakeOpen, IsCapture
    <3>2. ASSUME take.events # <<>>
          PROVE  Last(take.events).at \in Int
      <4>1. Last(take.events) \in EventValues
        BY <3>1, <3>2 DEF Last
      <4> QED BY <4>1 DEF EventValues
    <3>3. e \in [seq : Nat, type : {e.type}, at : Int, key : {e.key},
                 velocity : {e.velocity}, string : {e.string}]
      BY <2>1, <3>2, LiveConstants DEF Message, TakeInv
    <3>4. IsCapture(take') /\ CaptureContract(take')
      BY <2>2, <3>1, <3>3, AppendLemma
    <3> QED BY <1>2, <2>2, <3>4
            DEF TakeInv, Accept, IsCapture, CaptureContract
  <2>3. CASE UNCHANGED take
    BY <1>2, <2>3 DEF TakeInv, Accept, TakeOpen, Closed, IsCapture, CaptureContract, NoTake
  <2> QED BY <1>2, <2>1, <2>2, <2>3 DEF Accept
<1>3. CASE LiveStop \/ (Unplug /\ listening /\ TakeOpen)
  <2>0. PICK f, w : \E s \in {"COMPLETE", "INTERRUPTED"} : take' = CloseCapture(take, s, f, w)
    BY <1>3 DEF LiveStop, Unplug
  <2>1. PICK s \in {"COMPLETE", "INTERRUPTED"} : take' = CloseCapture(take, s, f, w)
    BY <2>0
  <2>2. IsCapture(take) /\ CaptureContract(take) /\ s \in TerminalStates
    BY <1>3 DEF TakeInv, LiveStop, TakeOpen, TerminalStates
  <2>3. IsCapture(take') /\ CaptureContract(take') /\ take'.state \in TerminalStates
    BY <2>1, <2>2, CloseLemma
  <2> QED BY <1>3, <2>3
          DEF TakeInv, TakeOpen, Closed, LiveStop, Unplug, IsCapture, CaptureContract
<1>4. CASE UNCHANGED liveVars \/ (Unplug /\ ~(listening /\ TakeOpen))
  <2>1. UNCHANGED <<take, listening, messages>> /\ (TakeOpen => connected' = connected)
    BY <1>4 DEF liveVars, Unplug, TakeInv
  <2> QED BY <2>1 DEF TakeInv, TakeOpen, Closed, IsCapture, CaptureContract, NoTake
<1> QED BY <1>1, <1>2, <1>3, <1>4 DEF LiveNext

-----------------------------------------------------------------------------

Recording == RuntimeInv /\ TakeInv

LEMMA RecordingInit == Init => Recording
<1> SUFFICES ASSUME Init PROVE Recording
  OBVIOUS
<1>1. RuntimeInv
  BY RuntimeConstants
     DEF Init, RuntimeInit, RuntimeInv, OneCaptureOpen, RuntimeTypeOK
<1>2. TakeInv
  BY DEF Init, LiveInit, TakeInv, TakeOpen
<1> QED BY <1>1, <1>2 DEF Recording

\* Whichever rig records, the other stays as it is, and so do both while
\* captures are ingested and scores are edited.
LEMMA RigSteps == [Next]_vars => [RuntimeNext]_runtimeVars /\ [LiveNext]_liveVars
  BY DEF Next, vars, RuntimeStep, LiveStep, IngestStep, EditStep

LEMMA RecordingStep == Recording /\ [Next]_vars => Recording' /\ RuntimeKeeps
  BY RigSteps, RuntimeStepKeeps, LiveStepKeeps DEF Recording, RuntimeKeeps

\* Either rig has one open capture at the most, can always reach it, and tells
\* the truth about being ready for one, for any scenarios, inputs and times.
THEOREM OneTakeAtATime == Spec => []OneOpenTake
<1>1. Recording => OneOpenTake
  <2>1. TakeInv => TakeIsConnected
    BY DEF TakeInv, TakeIsConnected
  <2> QED BY <2>1, Honest DEF Recording, RuntimeInv, OneOpenTake
<1> QED BY <1>1, RecordingInit, RecordingStep, PTL DEF Spec

\* A capture that runs is left running or ended; none takes its place.
LEMMA RunsAlone ==
    ASSUME Capturing, [RuntimeNext]_runtimeVars
    PROVE  active' \in {active, NoCapture}
<1>1. CASE UNCHANGED runtimeVars
  BY <1>1 DEF runtimeVars
<1>2. CASE RuntimeNext
  <2>1. \A id \in CaptureIds : ~StartCapture(id)
    BY DEF StartCapture, StartCaptureAccepted
  <2> QED
    BY <1>2, <2>1
       DEF RuntimeNext, Start, Stop, Crash, Panic, PrepareSession, ArmTrack, StopCapture, Feed
<1> QED BY <1>1, <1>2

\* While a capture runs no step costs an event of it, however it ends, or
\* reaches another record (fake_runtime.py, its four ways of ending a capture).
THEOREM RunningCapturesStay == Spec => RecordingIsKept
<1>1. ASSUME Recording, [Next]_vars, Capturing
      PROVE  /\ DOMAIN captures \subseteq DOMAIN captures'
             /\ IsPrefix(captures[active].events, captures'[active].events)
             /\ \A id \in DOMAIN captures \ {active} : captures'[id] = captures[id]
  <2>1. \A id \in DOMAIN captures : Evidence(id)
    BY <1>1, RecordingStep DEF RuntimeKeeps
  <2>2. active' \in {active, NoCapture}
    BY <1>1, RigSteps, RunsAlone
  <2>3. /\ active \in DOMAIN captures /\ NoCapture \notin DOMAIN captures
        /\ captures[active].state = "IN_PROGRESS" /\ IsCapture(captures[active])
    BY <1>1, RuntimeConstants
       DEF Recording, RuntimeInv, OneCaptureOpen, RuntimeTypeOK, Capturing
  <2>4. \A id \in DOMAIN captures \ {active} : captures'[id] = captures[id]
    BY <2>1, <2>2, <2>3 DEF Evidence
  <2>5. ~Closed(captures[active])
    BY <2>3 DEF Closed, TerminalStates
  <2>6. captures[active].events \in Seq(EventValues)
    BY <2>3 DEF IsCapture
  <2>7. IsPrefix(captures[active].events, captures[active].events)
    BY <2>6 DEF IsPrefix
  <2>8. IsPrefix(captures[active].events, captures'[active].events)
    BY <2>1, <2>3, <2>5, <2>7 DEF Evidence
  <2> QED BY <2>1, <2>4, <2>8 DEF Evidence
<1>2. Recording /\ [Next]_vars =>
        [Capturing =>
          /\ DOMAIN captures \subseteq DOMAIN captures'
          /\ IsPrefix(captures[active].events, captures'[active].events)
          /\ \A id \in DOMAIN captures \ {active} : captures'[id] = captures[id]]_runtimeVars
  BY <1>1
<1> QED BY <1>2, RecordingInit, RecordingStep, PTL DEF Spec, RecordingIsKept

-----------------------------------------------------------------------------
(* Ingestion                                                                *)

(* What is kept of a request is enough to tell that a later one asks the    *)
(* same; what is answered was either refused for having no notes, or is     *)
(* the kept result, which names a revision of its own.                      *)

RequestFields == {"id", "digest", "origin", "mpq", "events"}
IsRequest(q) == DOMAIN q = RequestFields /\ q = [f \in DOMAIN q |-> q[f]]

ResultFields ==
    {"request", "status", "revision", "created", "accepted", "rejected", "rejections"}
IsResult(r) == DOMAIN r = ResultFields /\ r = [f \in DOMAIN r |-> r[f]]

Notes(q) == ImportDirectEvents(q).notes

\* The request q was made, and the kept fingerprint is its own.
Known(q) ==
    /\ IsRequest(q) /\ q.id \in DOMAIN identities
    /\ identities[q.id] = Fingerprint(q)

\* An answer to a request without notes, and to one with.
Refusal(x) == x.result.status = "REJECTED" /\ x.result.revision = NoRevision
              /\ x.result.created = FALSE
Kept(x) ==
    /\ x.asked.id \in DOMAIN results
    /\ x.result.revision = results[x.asked.id].revision
    /\ x.result.created = TRUE => x.result = results[x.asked.id]

AnswerOK(x) ==
    /\ x = [result |-> x.result, asked |-> x.asked]
    /\ Known(x.asked)
    /\ x.result.request = x.asked.id
    /\ IF Notes(x.asked) = {} THEN Refusal(x) ELSE Kept(x)

AnswersOK == \A x \in answers : AnswerOK(x)

\* A kept result was given as an answer, and its revision holds what was asked.
ResultOK(id) ==
    LET r == results[id]
    IN /\ IsResult(r) /\ r.created = TRUE /\ r.request = id
       /\ r.revision \in Stored /\ revisions[r.revision] = id
       /\ \E x \in answers : /\ x.result = r /\ x.asked.id = id
                             /\ r.revision.music = Music(x.asked, ImportDirectEvents(x.asked))

ResultsOK ==
    /\ DOMAIN results \subseteq DOMAIN identities
    /\ \A id \in DOMAIN results : ResultOK(id)

DocumentsOK ==
    /\ Existing \subseteq Documents
    /\ \A d \in Existing : \E x \in answers :
          x.result.created = TRUE /\ x.result.revision.document = d

IngestInv == IInv /\ AnswersOK /\ ResultsOK /\ DocumentsOK

LEMMA RequestLemma ==
    ASSUME NEW id, NEW c, NEW reading
    PROVE  IsRequest(BuildRequest(id, c, reading)) /\ BuildRequest(id, c, reading).id = id
  BY DEF BuildRequest, IsRequest, RequestFields

(* Requests with one id and one fingerprint ask one thing.                  *)
LEMMA SameQuestion ==
    ASSUME NEW a, NEW b, IsRequest(a), IsRequest(b), a.id = b.id,
           Fingerprint(a) = Fingerprint(b)
    PROVE  a = b
<1>1. \A f \in RequestFields \ {"id"} :
          Fingerprint(a)[f] = a[f] /\ Fingerprint(b)[f] = b[f]
  BY DEF Fingerprint, IsRequest, RequestFields
<1>2. a["id"] = b["id"]
  OBVIOUS
<1>3. \A f \in RequestFields : a[f] = b[f]
  BY <1>1, <1>2
<1>4. DOMAIN a = RequestFields /\ DOMAIN b = RequestFields
      /\ a = [f \in DOMAIN a |-> a[f]] /\ b = [f \in DOMAIN b |-> b[f]]
  BY DEF IsRequest
<1> QED BY <1>3, <1>4

LEMMA KnownSame ==
    ASSUME NEW a, NEW b, Known(a), Known(b), a.id = b.id
    PROVE  a = b
  BY SameQuestion DEF Known

LEMMA AcceptedLemma ==
    ASSUME NEW q, NEW outcome, NEW rev
    PROVE  IsResult(Accepted(q, outcome, rev))
  BY DEF Accepted, IsResult, ResultFields

LEMMA RejectedLemma ==
    ASSUME NEW q, NEW rejections
    PROVE  /\ Rejected(q, rejections).request = q.id
           /\ Rejected(q, rejections).status = "REJECTED"
           /\ Rejected(q, rejections).revision = NoRevision
           /\ Rejected(q, rejections).created = FALSE
  BY DEF Rejected

LEMMA AnswerLemma ==
    ASSUME NEW q, NEW r, Answer(r, q)
    PROVE  \E x : /\ x = [result |-> x.result, asked |-> x.asked]
                  /\ x.result = r /\ x.asked = q /\ answers' = answers \cup {x}
<1>1. PICK x : x = [result |-> r, asked |-> q]
  OBVIOUS
<1>2. x.result = r /\ x.asked = q
  BY <1>1
<1>3. x = [result |-> x.result, asked |-> x.asked] /\ answers' = answers \cup {x}
  BY <1>1, <1>2 DEF Answer
<1> QED BY <1>2, <1>3

-----------------------------------------------------------------------------

(* The same request again, or another in its place: the kept result, or     *)
(* nothing.                                                                 *)
LEMMA DuplicateKeeps ==
    ASSUME IngestInv, NEW q, IsRequest(q), IngestDuplicate(q)
    PROVE  IngestInv'
<1>1. /\ Consistent(q) /\ q.id \in DOMAIN results /\ Answer(AsDuplicate(results[q.id]), q)
      /\ UNCHANGED <<identities, results, documents, revisions, authors>>
  BY DEF IngestDuplicate
<1>2. Known(q) /\ ResultOK(q.id)
  BY <1>1 DEF IngestInv, ResultsOK, Consistent, SeenBefore, Known
<1>3. PICK x : /\ x = [result |-> x.result, asked |-> x.asked]
               /\ x.result = AsDuplicate(results[q.id]) /\ x.asked = q
               /\ answers' = answers \cup {x}
  BY <1>1, AnswerLemma
<1>4. x.result.request = q.id /\ x.result.revision = results[q.id].revision
      /\ x.result.created = FALSE
  <2>1. PICK r : r = results[q.id]
    OBVIOUS
  <2>2. PICK d : d = AsDuplicate(r)
    OBVIOUS
  <2>3. IsResult(r) /\ r.request = q.id
    BY <1>2, <2>1 DEF ResultOK
  <2>4. d.request = r.request /\ d.revision = r.revision /\ d.created = FALSE
    BY <2>2, <2>3 DEF AsDuplicate, IsResult, ResultFields
  <2> QED BY <1>3, <2>1, <2>2, <2>3, <2>4
<1>5. Notes(q) # {}
  <2>1. PICK y \in answers : y.result = results[q.id] /\ y.asked.id = q.id
    BY <1>2 DEF ResultOK
  <2>2. AnswerOK(y) /\ y.result.created = TRUE
    BY <1>2, <2>1 DEF IngestInv, AnswersOK, ResultOK
  <2>3. y.asked = q
    BY <1>2, <2>1, <2>2, KnownSame DEF AnswerOK
  <2> QED BY <2>2, <2>3 DEF AnswerOK, Refusal
<1>6. AnswerOK(x)
  BY <1>1, <1>2, <1>3, <1>4, <1>5 DEF AnswerOK, Kept
<1>7. AnswersOK'
  BY <1>1, <1>3, <1>6 DEF IngestInv, AnswersOK, AnswerOK, Known, Kept, Refusal, Notes
<1>8. ResultsOK'
  BY <1>1, <1>3 DEF IngestInv, ResultsOK, ResultOK, Stored
<1>9. DocumentsOK'
  BY <1>1, <1>3 DEF IngestInv, DocumentsOK, Existing
<1>10. IInv'
  BY <1>1, StutterKeeps DEF IngestInv, revisionVars
<1> QED BY <1>7, <1>8, <1>9, <1>10 DEF IngestInv

(* An id is reserved for the request that first uses it; a later one is the *)
(* same, or refused.                                                        *)
LEMMA Reserved ==
    ASSUME IngestInv, NEW q, IsRequest(q), Consistent(q),
           identities' = Put(identities, q.id, Fingerprint(q))
    PROVE  /\ DOMAIN identities' = DOMAIN identities \cup {q.id}
           /\ identities'[q.id] = Fingerprint(q)
           /\ \A id \in DOMAIN identities : identities'[id] = identities[id]
           /\ Known(q)'
           /\ \A x \in answers : Known(x.asked)'
<1>1. /\ DOMAIN identities' = DOMAIN identities \cup {q.id}
      /\ identities'[q.id] = Fingerprint(q)
      /\ \A id \in DOMAIN identities : identities'[id] = identities[id]
  BY DEF Put, Consistent, SeenBefore
<1>2. Known(q)'
  BY <1>1 DEF Known, IsRequest, Fingerprint
<1>3. ASSUME NEW x \in answers
      PROVE  Known(x.asked)'
  <2>1. Known(x.asked)
    BY DEF IngestInv, AnswersOK, AnswerOK
  <2> QED BY <1>1, <2>1 DEF Known, IsRequest, Fingerprint
<1> QED BY <1>1, <1>2, <1>3

(* A new id whose request has no notes is refused, and nothing is stored.   *)
LEMMA RefuseKeeps ==
    ASSUME IngestInv, NEW q, IsRequest(q), Consistent(q), q.id \notin DOMAIN results,
           identities' = Put(identities, q.id, Fingerprint(q)), Notes(q) = {},
           NEW rejections, Answer(Rejected(q, rejections), q),
           UNCHANGED <<results, documents, revisions, authors>>
    PROVE  IngestInv'
<1>1. PICK x : /\ x = [result |-> x.result, asked |-> x.asked]
               /\ x.result = Rejected(q, rejections) /\ x.asked = q
               /\ answers' = answers \cup {x}
  BY AnswerLemma
<1>2. x.result.request = q.id /\ Refusal(x)
  <2>1. PICK r : r = Rejected(q, rejections)
    OBVIOUS
  <2>2. /\ r.request = q.id /\ r.status = "REJECTED" /\ r.revision = NoRevision
        /\ r.created = FALSE
    BY <2>1, RejectedLemma
  <2> QED BY <1>1, <2>1, <2>2 DEF Refusal
<1>3. AnswerOK(x)'
  BY <1>1, <1>2, Reserved DEF AnswerOK, Notes, Refusal
<1>4. ASSUME NEW y \in answers
      PROVE  AnswerOK(y)'
  <2>1. AnswerOK(y) /\ Known(y.asked)'
    BY Reserved DEF IngestInv, AnswersOK
  <2> QED BY <2>1 DEF AnswerOK, Notes, Refusal, Kept
<1>5. AnswersOK'
  BY <1>1, <1>3, <1>4 DEF AnswersOK
<1>6. ResultsOK'
  <2>1. DOMAIN identities \subseteq DOMAIN identities'
    BY Reserved
  <2>2. \A id \in DOMAIN results : ResultOK(id)'
    BY <1>1 DEF IngestInv, ResultsOK, ResultOK, Stored
  <2> QED BY <2>1, <2>2 DEF IngestInv, ResultsOK
<1>7. DocumentsOK'
  BY <1>1 DEF IngestInv, DocumentsOK, Existing
<1>8. IInv'
  BY StutterKeeps DEF IngestInv, revisionVars
<1> QED BY <1>5, <1>6, <1>7, <1>8 DEF IngestInv

(* The port fails: the id stays reserved, and nothing else is left.         *)
LEMMA FailKeeps ==
    ASSUME IngestInv, NEW q, IsRequest(q), Consistent(q),
           identities' = Put(identities, q.id, Fingerprint(q)),
           UNCHANGED <<results, answers, documents, revisions, authors>>
    PROVE  IngestInv'
<1>1. ASSUME NEW y \in answers
      PROVE  AnswerOK(y)'
  <2>1. AnswerOK(y) /\ Known(y.asked)'
    BY Reserved DEF IngestInv, AnswersOK
  <2> QED BY <2>1 DEF AnswerOK, Notes, Refusal, Kept
<1>2. AnswersOK'
  BY <1>1 DEF AnswersOK
<1>3. ResultsOK'
  BY Reserved DEF IngestInv, ResultsOK, ResultOK, Stored
<1>4. DocumentsOK'
  BY DEF IngestInv, DocumentsOK, Existing
<1>5. IInv'
  BY StutterKeeps DEF IngestInv, revisionVars
<1> QED BY <1>2, <1>3, <1>4, <1>5 DEF IngestInv

(* A new id whose request has notes: its document is new, so its revision   *)
(* was not stored before, by this request or another.                       *)
LEMMA AcceptKeeps ==
    ASSUME IngestInv, NEW q, IsRequest(q), Consistent(q), q.id \notin DOMAIN results,
           identities' = Put(identities, q.id, Fingerprint(q)), Notes(q) # {},
           NEW d \in Documents, NEW o, NEW r, NEW music,
           o = Origin(d, music), music = Music(q, ImportDirectEvents(q)),
           IsResult(r), r.request = q.id, r.revision = o, r.created = TRUE,
           CreateDocument(d, music, q.id),
           results' = Put(results, q.id, r), Answer(r, q)
    PROVE  IngestInv'
<1>1. PICK x : /\ x = [result |-> x.result, asked |-> x.asked]
               /\ x.result = r /\ x.asked = q /\ answers' = answers \cup {x}
  BY AnswerLemma
<1>2. /\ DOMAIN results' = DOMAIN results \cup {q.id} /\ results'[q.id] = r
      /\ \A id \in DOMAIN results : results'[id] = results[id]
  BY DEF Put
<1>3. o.document = d /\ o.music = music
  BY DEF Origin, Revision
<1>4. d \notin Existing /\ o \notin Stored
  BY <1>3 DEF CreateDocument, IngestInv, IInv, StoredWhole
<1>5. /\ Stored' = Stored \cup {o} /\ revisions'[o] = q.id
      /\ \A s \in Stored : revisions'[s] = revisions[s]
  BY <1>4 DEF CreateDocument, RevisionsWith, Stored
<1>6. Existing' = Existing \cup {d}
  <2>1. PICK doc : documents' = DocumentsWith(d, doc)
    BY DEF CreateDocument
  <2> QED BY <2>1 DEF DocumentsWith, Existing
<1>7. AnswerOK(x)'
  BY <1>1, <1>2, Reserved DEF AnswerOK, Notes, Kept
<1>8. ASSUME NEW y \in answers
      PROVE  AnswerOK(y)'
  <2>1. AnswerOK(y) /\ Known(y.asked)' /\ Known(y.asked)
    BY Reserved DEF IngestInv, AnswersOK, AnswerOK
  <2>2. CASE Notes(y.asked) = {}
    BY <2>1, <2>2 DEF AnswerOK, Notes, Refusal
  <2>3. CASE Notes(y.asked) # {}
    BY <1>2, <2>1, <2>3 DEF AnswerOK, Notes, Kept
  <2> QED BY <2>2, <2>3
<1>9. AnswersOK'
  BY <1>1, <1>7, <1>8 DEF AnswersOK
<1>10. ASSUME NEW id \in DOMAIN results'
       PROVE  ResultOK(id)'
  <2>1. CASE id = q.id
    <3>1. r.revision \in Stored' /\ revisions'[r.revision] = id
      BY <1>5, <2>1
    <3>2. r.revision.music = Music(x.asked, ImportDirectEvents(x.asked))
      BY <1>1, <1>3
    <3>3. results'[id] = r /\ r.request = id /\ x \in answers' /\ x.asked.id = id
      BY <1>1, <1>2, <2>1
    <3> QED BY <1>1, <3>1, <3>2, <3>3 DEF ResultOK
  <2>2. CASE id # q.id
    <3>1. id \in DOMAIN results /\ results'[id] = results[id] /\ ResultOK(id)
      BY <1>2, <1>10, <2>2 DEF IngestInv, ResultsOK
    <3> QED BY <1>1, <1>5, <3>1 DEF ResultOK
  <2> QED BY <2>1, <2>2
<1>11. ResultsOK'
  BY <1>2, <1>10, Reserved DEF IngestInv, ResultsOK
<1>12. DocumentsOK'
  BY <1>1, <1>3, <1>6 DEF IngestInv, DocumentsOK
<1>13. IInv'
  BY CreateKeeps DEF IngestInv
<1> QED BY <1>9, <1>11, <1>12, <1>13 DEF IngestInv

LEMMA ChosenIsFresh ==
    ASSUME NEW S, NEW T, \E e \in S : e \notin T
    PROVE  (CHOOSE e \in S : e \notin T) \in S
  OBVIOUS

LEMMA IngestKeeps ==
    ASSUME IngestInv, NEW q, IsRequest(q), NEW fails \in BOOLEAN, Ingest(q, fails)
    PROVE  IngestInv'
<1>1. CASE IngestDuplicate(q)
  BY <1>1, DuplicateKeeps
<1>2. CASE IngestNew(q, fails)
  <2>1. PICK outcome : outcome = ImportDirectEvents(q)
    OBVIOUS
  <2>2. /\ Consistent(q) /\ q.id \notin DOMAIN results
        /\ identities' = Put(identities, q.id, Fingerprint(q))
    BY <1>2 DEF IngestNew
  <2>3. CASE outcome.notes = {}
    <3>1. /\ Answer(Rejected(q, outcome.rejections), q)
          /\ UNCHANGED <<results, documents, revisions, authors>>
      BY <1>2, <2>1, <2>3 DEF IngestNew
    <3> QED BY <2>1, <2>2, <2>3, <3>1, RefuseKeeps DEF Notes
  <2>4. CASE outcome.notes # {} /\ fails
    BY <1>2, <2>1, <2>2, <2>4, FailKeeps DEF IngestNew
  <2>5. CASE outcome.notes # {} /\ ~fails
    <3>1. PICK d, music : d = FreshDocument /\ music = Music(q, outcome)
      OBVIOUS
    <3>2. PICK o : o = Origin(d, music)
      OBVIOUS
    <3>3. PICK r : r = Accepted(q, outcome, o)
      OBVIOUS
    <3>4. /\ Existing # Documents /\ CreateDocument(d, music, q.id)
          /\ results' = Put(results, q.id, r) /\ Answer(r, q)
      BY <1>2, <2>1, <2>5, <3>1, <3>2, <3>3 DEF IngestNew
    <3>5. d \in Documents
      <4>1. \E e \in Documents : e \notin Existing
        <5>1. Existing \subseteq Documents
          BY DEF IngestInv, DocumentsOK
        <5> QED BY <3>4, <5>1
      <4>2. FreshDocument \in Documents
        BY <4>1, ChosenIsFresh DEF FreshDocument
      <4> QED BY <3>1, <4>2
    <3>6. IsResult(r) /\ r.request = q.id /\ r.revision = o /\ r.created = TRUE
      <4>1. IsResult(r)
        BY <3>3, AcceptedLemma
      <4>2. r.request = q.id /\ r.revision = o /\ r.created = TRUE
        BY <3>3 DEF Accepted
      <4> QED BY <4>1, <4>2
    <3> QED BY <2>1, <2>2, <2>5, <3>1, <3>2, <3>4, <3>5, <3>6, AcceptKeeps DEF Notes
  <2> QED BY <2>3, <2>4, <2>5
<1> QED BY <1>1, <1>2 DEF Ingest

(* An author only writes documents that exist, and loses nothing stored.    *)
LEMMA EditKeeps ==
    ASSUME IngestInv, NEW a \in Authors, AuthorStep(a), UNCHANGED ingestionVars
    PROVE  IngestInv'
<1>1. UNCHANGED <<identities, results, answers>>
  BY DEF ingestionVars
<1>2. RevisionNext
  BY DEF RevisionNext
<1>3. /\ \A r \in Stored : r \in Stored' /\ revisions'[r] = revisions[r]
      /\ Existing \subseteq Existing'
  BY <1>2, StepKeepsStored
<1>4. Existing' \subseteq Existing
  <2>1. CASE SaveDocument(a)
    <3>1. PICK doc : documents' = DocumentsWith(authors[a].revision.document, doc)
      BY <2>1 DEF SaveDocument
    <3>2. authors[a].revision.document \in Existing
      BY <2>1 DEF SaveDocument
    <3> QED BY <3>1, <3>2 DEF DocumentsWith, Existing
  <2>2. CASE documents' = documents
    BY <2>2 DEF Existing
  <2> QED BY <2>1, <2>2 DEF AuthorStep, ReadParent, SaveRevision, Abandon
<1>5. IInv'
  BY <1>2, NextKeeps DEF IngestInv
<1>6. AnswersOK'
  BY <1>1 DEF IngestInv, AnswersOK, AnswerOK, Known, Kept, Refusal, Notes
<1>7. ResultsOK'
  <2>1. ASSUME NEW id \in DOMAIN results
        PROVE  ResultOK(id)'
    <3>1. ResultOK(id)
      BY DEF IngestInv, ResultsOK
    <3> QED BY <1>1, <1>3, <3>1 DEF ResultOK
  <2> QED BY <1>1, <2>1 DEF IngestInv, ResultsOK
<1>8. DocumentsOK'
  BY <1>1, <1>4 DEF IngestInv, DocumentsOK
<1> QED BY <1>5, <1>6, <1>7, <1>8 DEF IngestInv

LEMMA UntouchedKeeps ==
    ASSUME IngestInv, UNCHANGED <<revisionVars, ingestionVars>>
    PROVE  IngestInv'
<1>1. UNCHANGED <<identities, results, answers, documents, revisions, authors>>
  BY DEF revisionVars, ingestionVars
<1>2. IInv'
  BY <1>1, StutterKeeps DEF IngestInv, revisionVars
<1>3. AnswersOK'
  BY <1>1 DEF IngestInv, AnswersOK, AnswerOK, Known, Kept, Refusal, Notes
<1>4. ResultsOK'
  BY <1>1 DEF IngestInv, ResultsOK, ResultOK, Stored
<1>5. DocumentsOK'
  BY <1>1 DEF IngestInv, DocumentsOK, Existing
<1> QED BY <1>2, <1>3, <1>4, <1>5 DEF IngestInv

LEMMA IngestInit == Init => IngestInv
<1> SUFFICES ASSUME Init PROVE IngestInv
  OBVIOUS
<1>1. RevisionInit /\ DOMAIN documents = {}
  BY DEF Init, RevisionInit
<1>2. answers = {} /\ DOMAIN identities = {} /\ DOMAIN results = {}
  BY DEF Init, IngestionInit
<1>3. IInv
  BY <1>1, InitHolds
<1> QED BY <1>1, <1>2, <1>3 DEF IngestInv, AnswersOK, ResultsOK, DocumentsOK, Existing

LEMMA IngestInvStep == IngestInv /\ [Next]_vars => IngestInv'
<1> SUFFICES ASSUME IngestInv, [Next]_vars PROVE IngestInv'
  OBVIOUS
<1>1. CASE RuntimeStep \/ LiveStep
  BY <1>1, UntouchedKeeps DEF RuntimeStep, LiveStep, Record
<1>2. CASE IngestStep
  <2>1. PICK id \in RequestIds, c \in ClosedCaptures, reading \in Readings,
             fails \in BOOLEAN : Ingest(BuildRequest(id, c, reading), fails)
    BY <1>2 DEF IngestStep
  <2> QED BY <2>1, RequestLemma, IngestKeeps
<1>3. CASE EditStep
  BY <1>3, EditKeeps DEF EditStep
<1>4. CASE UNCHANGED vars
  BY <1>4, UntouchedKeeps DEF vars
<1> QED BY <1>1, <1>2, <1>3, <1>4 DEF Next

(* What the library's steps are in the composed specification.              *)
LEMMA LibrarySteps ==
    ASSUME [Next]_vars
    PROVE  /\ \A r \in Stored : r \in Stored' /\ revisions'[r] = revisions[r]
           /\ Existing \subseteq Existing'
<1>1. CASE UNCHANGED revisionVars
  BY <1>1, StepKeepsStored
<1>2. CASE EditStep
  BY <1>2, StepKeepsStored DEF EditStep, RevisionNext
<1>3. ASSUME NEW d, NEW music, NEW by, CreateDocument(d, music, by)
      PROVE  /\ \A r \in Stored : r \in Stored' /\ revisions'[r] = revisions[r]
             /\ Existing \subseteq Existing'
  <2>1. PICK doc : documents' = DocumentsWith(d, doc)
    BY <1>3 DEF CreateDocument
  <2>2. revisions' = RevisionsWith(Origin(d, music), by)
    BY <1>3 DEF CreateDocument
  <2>3. Existing \subseteq Existing'
    BY <2>1 DEF DocumentsWith, Existing
  <2>4. \A r \in Stored : r \in Stored' /\ revisions'[r] = revisions[r]
    BY <2>2 DEF RevisionsWith, Stored
  <2> QED BY <2>3, <2>4
<1>4. CASE IngestStep
  <2>1. PICK q, fails : Ingest(q, fails)
    BY <1>4 DEF IngestStep
  <2>2. CASE UNCHANGED <<documents, revisions, authors>>
    BY <2>2, <1>1 DEF revisionVars
  <2>3. CASE \E d, music : CreateDocument(d, music, q.id)
    BY <2>3, <1>3
  <2> QED BY <2>1, <2>2, <2>3 DEF Ingest, IngestDuplicate, IngestNew
<1> QED BY <1>1, <1>2, <1>4 DEF Next, vars, RuntimeStep, LiveStep, Record

\* One request id has one meaning, for any captures, readings, failures of the
\* port and edits in between: all its answers were to one question and name one
\* revision, which is stored as its own and holds the notes of that question,
\* and no document exists that no answer names.
THEOREM OneMeaning == Spec => []RetryTellsTheSame
<1>1. IngestInv => RetryTellsTheSame
  <2> SUFFICES ASSUME IngestInv PROVE RetryTellsTheSame
    OBVIOUS
  <2>1. ASSUME NEW x \in answers, NEW y \in answers, x.result.request = y.result.request
        PROVE  /\ x.asked = y.asked
               /\ x.result.revision = y.result.revision
               /\ (x.result.created = TRUE /\ y.result.created = TRUE) => x = y
    <3>1. AnswerOK(x) /\ AnswerOK(y)
      BY DEF IngestInv, AnswersOK
    <3>2. x.asked = y.asked
      BY <2>1, <3>1, KnownSame DEF AnswerOK
    <3> QED BY <3>1, <3>2 DEF AnswerOK, Refusal, Kept
  <2>2. ASSUME NEW x \in answers, x.result.status # "REJECTED"
        PROVE  /\ x.result.revision \in Stored
               /\ revisions[x.result.revision] = x.result.request
               /\ x.result.revision.music = Music(x.asked, ImportDirectEvents(x.asked))
    <3>1. AnswerOK(x) /\ Kept(x)
      BY <2>2 DEF IngestInv, AnswersOK, AnswerOK, Refusal
    <3>2. ResultOK(x.asked.id)
      BY <3>1 DEF Kept, IngestInv, ResultsOK
    <3>3. PICK y \in answers :
             /\ y.result = results[x.asked.id] /\ y.asked.id = x.asked.id
             /\ results[x.asked.id].revision.music = Music(y.asked, ImportDirectEvents(y.asked))
      BY <3>2 DEF ResultOK
    <3>4. y.asked = x.asked
      BY <3>1, <3>3, KnownSame DEF IngestInv, AnswersOK, AnswerOK
    <3> QED BY <3>1, <3>2, <3>3, <3>4 DEF ResultOK, Kept, AnswerOK
  <2>3. \A d \in Existing : \E x \in answers :
            x.result.created /\ x.result.revision.document = d
    BY DEF IngestInv, DocumentsOK
  <2>4. \A x, y \in answers :
            (x.result.created /\ y.result.created) <=>
            (x.result.created = TRUE /\ y.result.created = TRUE)
    OBVIOUS
  <2> QED BY <2>1, <2>2, <2>3, <2>4 DEF RetryTellsTheSame
<1> QED BY <1>1, IngestInit, IngestInvStep, PTL DEF Spec

\* The history behind every stored revision stays whole while requests create
\* documents and authors, who fail or give up, add to them.
THEOREM IngestedHistoryIsWhole == Spec => []HeadHistoryIsWhole
<1>1. IngestInv => HeadHistoryIsWhole
  BY DEF IngestInv, IInv, StoredWhole, HeadsWhole, HeadOf, HeadHistoryIsWhole
<1> QED BY <1>1, IngestInit, IngestInvStep, PTL DEF Spec

\* What is stored first stays, for requests that are retried as for authors.
THEOREM IngestedFirstWriteStays == Spec => FirstWriteWins
<1>1. [Next]_vars =>
        [/\ \A r \in Stored : r \in Stored' /\ revisions'[r] = revisions[r]
         /\ Existing \subseteq Existing']_revisionVars
  BY LibrarySteps
<1> QED BY <1>1, PTL DEF Spec, FirstWriteWins


-----------------------------------------------------------------------------
(***************************************************************************)
(* The import of a capture, for any capture however long and any reading of *)
(* it.  A closed capture is in order, by number and by time, so its notes   *)
(* cross over in that order and the import takes them as they came.  After  *)
(* each event, the events before it are in notes, in rejections or open,    *)
(* and in one of them only (ImportOK); at the end what is open is refused,  *)
(* which leaves nothing out.  Beside it the observation walks the whole     *)
(* capture, and counts as many notes of a key sounding as are open.         *)
(*                                                                         *)
(* The states of a walk are a recursive function: that it exists, and what  *)
(* holds of all of them, is by induction on the place in the record.        *)
(***************************************************************************)

\* The numbers are the least set with zero and the successor of each.
LEMMA SetInduction ==
  ASSUME NEW S, 0 \in S, \A n \in Nat : n \in S => n + 1 \in S
  PROVE  Nat \subseteq S
  <1> DEFINE Below == {p \in Nat \X Nat : p[1] < p[2]}
             T == {n \in Nat : n \notin S}
  <1>1. IsWellFoundedOn(Below, Nat)
    <2>1. Below = OpToRel(<, Nat)
      BY Zenon DEF OpToRel
    <2> HIDE DEF Below
    <2> QED BY <2>1, NatLessThanWellFounded, Zenon
  <1>2. \A x, y \in Nat : y < x => <<y, x>> \in Below
    OBVIOUS
  <1> HIDE DEF Below
  <1>3. SUFFICES ASSUME T # {} PROVE FALSE
    OBVIOUS
  <1>4. PICK x \in T : \A y \in T : ~ (<<y, x>> \in Below)
    BY <1>1, <1>3, WFMin, T \subseteq Nat, Zenon
  <1>5. x \in Nat /\ x # 0
    OBVIOUS
  <1>6. x - 1 \in Nat /\ x - 1 < x
    BY <1>5
  <1>7. x - 1 \in S
    BY <1>2, <1>4, <1>5, <1>6
  <1> QED BY <1>5, <1>6, <1>7

\* A set of numbers has a least one.
LEMMA LeastNumber ==
  ASSUME NEW S, S \subseteq Nat, S # {}
  PROVE  \E x \in S : \A y \in S : x <= y
  <1> DEFINE Below == {p \in Nat \X Nat : p[1] < p[2]}
  <1>1. IsWellFoundedOn(Below, Nat)
    <2>1. Below = OpToRel(<, Nat)
      BY Zenon DEF OpToRel
    <2> HIDE DEF Below
    <2> QED BY <2>1, NatLessThanWellFounded, Zenon
  <1>2. \A x, y \in Nat : y < x => <<y, x>> \in Below
    OBVIOUS
  <1> HIDE DEF Below
  <1>3. PICK x \in S : \A y \in S : ~ (<<y, x>> \in Below)
    BY <1>1, WFMin, Zenon
  <1>4. ASSUME NEW y \in S PROVE x <= y
    <2>1. x \in Nat /\ y \in Nat
      BY <1>3
    <2>2. ~ (y < x)
      BY <1>2, <1>3, <2>1
    <2> QED BY <2>1, <2>2
  <1> QED BY <1>4

\* A finite set of numbers has a greatest one.
LEMMA GreatestNumber ==
  ASSUME NEW S, S \subseteq Nat, S # {}, NEW b \in Nat, \A y \in S : y <= b
  PROVE  \E x \in S : \A y \in S : y <= x
  <1> DEFINE T == {n \in Nat : \E y \in S : n = b - y}
  <1>1. PICK m \in T : \A n \in T : m <= n
    <2>1. T # {}
      <3>1. PICK y \in S : TRUE
        OBVIOUS
      <3>2. b - y \in T
        OBVIOUS
      <3> QED BY <3>2
    <2>2. T \subseteq Nat
      OBVIOUS
    <2> HIDE DEF T
    <2> QED BY <2>1, <2>2, LeastNumber
  <1>2. PICK x \in S : m = b - x
    OBVIOUS
  <1>3. ASSUME NEW y \in S PROVE y <= x
    <2>1. b - y \in T
      BY <1>3
    <2>2. m <= b - y
      BY <1>1, <2>1
    <2> QED BY <1>2, <2>2
  <1> QED BY <1>3

\* What holds between neighbours of a capture holds between any two events.
Ordered(events) ==
    \A i, j \in DOMAIN events : i < j =>
        events[i].seq < events[j].seq /\ events[i].at <= events[j].at

LEMMA OrderedAll ==
  ASSUME NEW events \in Seq(EventValues),
         \A i \in 1 .. Len(events) - 1 : /\ events[i].seq < events[i + 1].seq
                                         /\ events[i].at <= events[i + 1].at
  PROVE  Ordered(events)
  <1> DEFINE L == Len(events)
             S == {d \in Nat : \A i \in 1 .. L : i + d + 1 \in 1 .. L =>
                        /\ events[i].seq < events[i + d + 1].seq
                        /\ events[i].at <= events[i + d + 1].at}
  <1>0. L \in Nat /\ DOMAIN events = 1 .. L
        /\ \A i \in 1 .. L : events[i].seq \in Nat /\ events[i].at \in Nat
    <2>1. L \in Nat /\ DOMAIN events = 1 .. L
      OBVIOUS
    <2>2. \A i \in 1 .. L : events[i] \in EventValues
      OBVIOUS
    <2> QED BY <2>1, <2>2 DEF EventValues
  <1>a. \A i \in 1 .. L - 1 : /\ events[i].seq < events[i + 1].seq
                              /\ events[i].at <= events[i + 1].at
    OBVIOUS
  <1> HIDE DEF L
  <1>1. 0 \in S
    BY <1>0, <1>a
  <1>2. ASSUME NEW d \in Nat, d \in S PROVE d + 1 \in S
    <2>0. d + 1 \in Nat
      OBVIOUS
    <2>1. ASSUME NEW i \in 1 .. L, i + (d + 1) + 1 \in 1 .. L
          PROVE  /\ events[i].seq < events[i + (d + 1) + 1].seq
                 /\ events[i].at <= events[i + (d + 1) + 1].at
      <3>0. PICK j : j = i + d + 1
        OBVIOUS
      <3>1. j \in 1 .. L /\ j \in 1 .. L - 1 /\ i + (d + 1) + 1 = j + 1 /\ j + 1 \in 1 .. L
        BY <1>0, <2>1, <3>0
      <3>2. events[i].seq < events[j].seq /\ events[i].at <= events[j].at
        BY <1>2, <2>1, <3>0, <3>1
      <3>3. events[j].seq < events[j + 1].seq /\ events[j].at <= events[j + 1].at
        BY <1>a, <3>1
      <3>4. /\ events[i].seq \in Nat /\ events[j].seq \in Nat /\ events[j + 1].seq \in Nat
            /\ events[i].at \in Nat /\ events[j].at \in Nat /\ events[j + 1].at \in Nat
        BY <1>0, <3>1
      <3>6. ASSUME NEW x \in Nat, NEW y \in Nat, NEW z \in Nat
            PROVE  (x < y /\ y < z => x < z) /\ (x <= y /\ y <= z => x <= z)
        OBVIOUS
      <3>5. events[i].seq < events[j + 1].seq /\ events[i].at <= events[j + 1].at
        BY <3>2, <3>3, <3>4, <3>6, Zenon
      <3> QED BY <3>1, <3>5, Zenon
    <2> QED BY <2>0, <2>1, Zenon
  <1>3. Nat \subseteq S
    <2> HIDE DEF S
    <2> QED BY <1>1, <1>2, SetInduction
  <1>4. ASSUME NEW i \in 1 .. L, NEW j \in 1 .. L, i < j
        PROVE  events[i].seq < events[j].seq /\ events[i].at <= events[j].at
    <2>1. j - i - 1 \in Nat /\ i + (j - i - 1) + 1 = j
      BY <1>0, <1>4
    <2>2. j - i - 1 \in S
      BY <1>3, <2>1
    <2> QED BY <1>4, <2>1, <2>2
  <1> QED BY <1>0, <1>4 DEF Ordered

\* A strictly increasing map of 1 .. n into itself moves nothing.
LEMMA IncreasingIsIdentity ==
  ASSUME NEW n \in Nat, NEW p \in [1 .. n -> 1 .. n],
         \A k \in 2 .. n : p[k - 1] < p[k]
  PROVE  \A k \in 1 .. n : p[k] = k
  <1> DEFINE S == {m \in Nat : m + 1 \in 1 .. n => p[m + 1] >= m + 1}
             T == {m \in Nat : n - m \in 1 .. n => p[n - m] <= n - m}
  <1>1. Nat \subseteq S
    <2>1. 0 \in S
      OBVIOUS
    <2>2. ASSUME NEW m \in Nat, m \in S PROVE m + 1 \in S
      <3>1. CASE m + 2 \in 1 .. n
        <4>1. m + 1 \in 1 .. n /\ m + 2 \in 2 .. n /\ (m + 2) - 1 = m + 1
          BY <3>1
        <4>2. p[m + 1] >= m + 1 /\ p[m + 1] < p[m + 2] /\ p[m + 1] \in Int /\ p[m + 2] \in Int
          BY <2>2, <3>1, <4>1
        <4> QED BY <4>2
      <3>2. CASE m + 2 \notin 1 .. n
        BY <3>2
      <3> QED BY <3>1, <3>2
    <2> HIDE DEF S
    <2> QED BY <2>1, <2>2, SetInduction
  <1>2. Nat \subseteq T
    <2>1. 0 \in T
      OBVIOUS
    <2>2. ASSUME NEW m \in Nat, m \in T PROVE m + 1 \in T
      <3>1. CASE n - (m + 1) \in 1 .. n
        <4> DEFINE k == n - m
        <4>1. k \in 1 .. n /\ k - 1 = n - (m + 1) /\ k \in 2 .. n /\ k - 1 \in 1 .. n
          BY <3>1
        <4>2. p[k] <= k
          BY <2>2, <4>1
        <4>3. p[k - 1] < p[k] /\ p[k - 1] \in Int /\ p[k] \in Int
          BY <4>1
        <4>4. p[k - 1] <= k - 1
          BY <4>1, <4>2, <4>3
        <4> QED BY <4>1, <4>4
      <3>2. CASE n - (m + 1) \notin 1 .. n
        BY <3>2
      <3> QED BY <3>1, <3>2
    <2> HIDE DEF T
    <2> QED BY <2>1, <2>2, SetInduction
  <1>3. ASSUME NEW k \in 1 .. n PROVE p[k] = k
    <2>1. k - 1 \in Nat /\ (k - 1) + 1 = k /\ n - k \in Nat /\ n - (n - k) = k
      OBVIOUS
    <2>2. k - 1 \in S /\ n - k \in T
      BY <1>1, <1>2, <2>1
    <2>3. p[k] >= k
      BY <2>1, <2>2
    <2>4. p[k] <= k
      BY <2>1, <2>2
    <2>5. p[k] \in Int
      OBVIOUS
    <2> QED BY <2>3, <2>4, <2>5
  <1> QED BY <1>3

\* Events that are in order are left as they are.
LEMMA InOrderStays ==
  ASSUME NEW events \in Seq(EventValues), Ordered(events)
  PROVE  InTimeOrder(events) = events
  <1> DEFINE D == DOMAIN events
             n == Len(events)
             earlier(i, j) == events[i].at < events[j].at \/ (events[i].at = events[j].at /\ i < j)
             P(p) == \A k \in 2 .. Len(events) : earlier(p[k - 1], p[k])
             id == [k \in D |-> k]
  <1>1. D = 1 .. n /\ n \in Nat
    OBVIOUS
  <1>2. \A i, j \in D : earlier(i, j) <=> i < j
    <2>1. \A i \in D : events[i].at \in Nat
      <3>1. \A i \in D : events[i] \in EventValues
        OBVIOUS
      <3> QED BY <3>1 DEF EventValues
    <2> QED BY <1>1, <2>1 DEF Ordered
  <1>3. id \in [D -> D] /\ P(id)
    <2>1. ASSUME NEW k \in 2 .. n PROVE earlier(id[k - 1], id[k])
      <3>1. k - 1 \in D /\ k \in D /\ k - 1 < k
        BY <1>1
      <3>2. id[k - 1] = k - 1 /\ id[k] = k
        BY <3>1
      <3> HIDE DEF earlier, id
      <3> QED BY <1>2, <3>1, <3>2
    <2> QED BY <2>1
  <1> DEFINE order == CHOOSE p \in [D -> D] : P(p)
  <1>4. order \in [D -> D] /\ P(order)
    <2> HIDE DEF P, D
    <2> QED BY <1>3
  <1>5. InTimeOrder(events) = [k \in D |-> events[order[k]]]
    BY Zenon DEF InTimeOrder
  <1> HIDE DEF order
  <1>6. ASSUME NEW k \in 2 .. n PROVE order[k - 1] < order[k]
    <2>1. k - 1 \in D /\ k \in D
      BY <1>1
    <2>2. order[k - 1] \in D /\ order[k] \in D /\ earlier(order[k - 1], order[k])
      BY <1>4, <2>1
    <2> HIDE DEF earlier
    <2> QED BY <1>2, <2>2
  <1>7. \A k \in D : order[k] = k
    BY <1>1, <1>4, <1>6, IncreasingIsIdentity
  <1>8. events = [k \in D |-> events[k]]
    OBVIOUS
  <1> QED BY <1>5, <1>7, <1>8

\* The events of N at i or before it.
Rank(N, i) == Cardinality({j \in N : j <= i})

LEMMA Ranks ==
  ASSUME NEW L \in Nat, NEW N \in SUBSET (1 .. L)
  PROVE  /\ IsFiniteSet(N) /\ Cardinality(N) \in Nat
         /\ Rank(N, 0) = 0 /\ Rank(N, L) = Cardinality(N)
         /\ \A i \in 0 .. L : Rank(N, i) \in 0 .. Cardinality(N)
         /\ \A i \in 1 .. L : Rank(N, i) = Rank(N, i - 1) + (IF i \in N THEN 1 ELSE 0)
         /\ \A i, j \in 0 .. L : i <= j => Rank(N, i) <= Rank(N, j)
  <1> DEFINE B(i) == {k \in N : k <= i}
  <1>0. \A i : Rank(N, i) = Cardinality(B(i))
    BY DEF Rank
  <1>1. IsFiniteSet(N)
    <2>1. IsFiniteSet(1 .. L)
      BY FS_Interval
    <2> QED BY <2>1, FS_Subset
  <1>2. ASSUME NEW i
        PROVE  IsFiniteSet(B(i)) /\ Cardinality(B(i)) <= Cardinality(N)
               /\ Cardinality(B(i)) \in Nat /\ Cardinality(N) \in Nat
    <2>1. B(i) \in SUBSET N
      OBVIOUS
    <2> HIDE DEF B
    <2>2. IsFiniteSet(B(i)) /\ Cardinality(B(i)) <= Cardinality(N)
      BY <1>1, <2>1, FS_Subset
    <2> QED BY <1>1, <2>2, FS_CardinalityType
  <1>z. \A j \in N : j \in Int /\ 1 <= j /\ j <= L
    OBVIOUS
  <1>3. B(0) = {} /\ B(L) = N
    <2>1. B(0) = {}
      <3>1. \A j \in N : ~ (j <= 0)
        BY <1>z
      <3> QED BY <3>1, Zenon
    <2>2. B(L) = N
      <3>1. \A j \in N : j <= L
        BY <1>z
      <3> QED BY <3>1, Zenon
    <2> QED BY <2>1, <2>2
  <1>4. Rank(N, 0) = 0 /\ Rank(N, L) = Cardinality(N)
    <2> HIDE DEF B
    <2> QED BY <1>0, <1>3, FS_EmptySet
  <1>5. ASSUME NEW i \in 1 .. L
        PROVE  Rank(N, i) = Rank(N, i - 1) + (IF i \in N THEN 1 ELSE 0)
    <2>a. \A j \in N : j <= i <=> (j <= i - 1 \/ j = i)
      BY <1>z
    <2>b. i \in N => B(i) = B(i - 1) \cup {i}
      BY <1>z, <2>a
    <2>c. i \notin N => B(i) = B(i - 1)
      BY <1>z, <2>a
    <2>1. IF i \in N THEN B(i) = B(i - 1) \cup {i} ELSE B(i) = B(i - 1)
      BY <2>b, <2>c
    <2>2. i \notin B(i - 1)
      OBVIOUS
    <2> HIDE DEF B
    <2>3. i \in N => Cardinality(B(i)) = Cardinality(B(i - 1)) + 1
      BY <1>2, <2>1, <2>2, FS_AddElement
    <2>4. Cardinality(B(i - 1)) \in Nat
      BY <1>2
    <2> QED BY <1>0, <2>1, <2>3, <2>4
  <1>6. ASSUME NEW i \in 0 .. L, NEW j \in 0 .. L, i <= j
        PROVE  Rank(N, i) <= Rank(N, j)
    <2>1. B(i) \in SUBSET B(j)
      <3>1. \A k \in N : k <= i => k <= j
        BY <1>6, <1>z
      <3> QED BY <3>1
    <2> HIDE DEF B
    <2>2. IsFiniteSet(B(j))
      BY <1>2
    <2>3. Cardinality(B(i)) <= Cardinality(B(j))
      BY <2>1, <2>2, FS_Subset
    <2> QED BY <1>0, <2>3
  <1>7. \A i \in 0 .. L : Rank(N, i) \in 0 .. Cardinality(N)
    <2> HIDE DEF B
    <2> QED BY <1>0, <1>2
  <1>8. Cardinality(N) \in Nat
    BY <1>1, FS_CardinalityType
  <1> QED BY <1>1, <1>4, <1>5, <1>6, <1>7, <1>8

\* Each rank is that of exactly one member.
LEMMA RankedOnce ==
  ASSUME NEW L \in Nat, NEW N \in SUBSET (1 .. L)
  PROVE  /\ \A n \in 1 .. Cardinality(N) : \E i \in N : Rank(N, i) = n
         /\ \A i, j \in N : i < j => Rank(N, i) < Rank(N, j)
         /\ \A i \in N : Rank(N, i) \in 1 .. Cardinality(N)
  <1> DEFINE C == [i \in 0 .. L |-> Rank(N, i)]
             M == Cardinality(N)
  <1>1. /\ M \in Nat /\ C[0] = 0 /\ C[L] = M
        /\ \A i \in 0 .. L : C[i] \in 0 .. M
        /\ \A i \in 1 .. L : C[i] = C[i - 1] + (IF i \in N THEN 1 ELSE 0)
        /\ \A i, j \in 0 .. L : i <= j => C[i] <= C[j]
    <2>1. /\ M \in Nat /\ Rank(N, 0) = 0 /\ Rank(N, L) = Cardinality(N)
          /\ \A i \in 0 .. L : Rank(N, i) \in 0 .. Cardinality(N)
          /\ \A i \in 1 .. L : Rank(N, i) = Rank(N, i - 1) + (IF i \in N THEN 1 ELSE 0)
          /\ \A i, j \in 0 .. L : i <= j => Rank(N, i) <= Rank(N, j)
      BY Ranks
    <2>2. \A i \in 0 .. L : C[i] = Rank(N, i)
      OBVIOUS
    <2>3. \A i \in 1 .. L : i \in 0 .. L /\ i - 1 \in 0 .. L
      OBVIOUS
    <2> HIDE DEF C, M
    <2>4. M = Cardinality(N)
      BY DEF M
    <2>5. 0 \in 0 .. L /\ L \in 0 .. L
      OBVIOUS
    <2>6. \A i \in 1 .. L : C[i] = C[i - 1] + (IF i \in N THEN 1 ELSE 0)
      BY <2>1, <2>2, <2>3
    <2> QED BY <2>1, <2>2, <2>4, <2>5, <2>6
  <1>2. \A i \in N : C[i] = Rank(N, i) /\ i \in 1 .. L
    OBVIOUS
  <1> HIDE DEF C
  <1>3. ASSUME NEW n \in 1 .. M PROVE \E i \in N : C[i] = n
    <2> DEFINE S == {i \in 0 .. L : C[i] >= n}
    <2>1. PICK i \in S : \A j \in S : i <= j
      <3>1. L \in S
        BY <1>1
      <3>2. S \subseteq Nat
        OBVIOUS
      <3> HIDE DEF S
      <3> QED BY <3>1, <3>2, LeastNumber
    <2>2. i \in 1 .. L /\ i - 1 \in 0 .. L
      BY <1>1
    <2>3. C[i - 1] < n
      BY <1>1, <2>1, <2>2
    <2>4. C[i] = C[i - 1] + (IF i \in N THEN 1 ELSE 0) /\ C[i] >= n /\ C[i - 1] \in Int
      BY <1>1, <2>2
    <2> QED BY <2>3, <2>4
  <1>4. ASSUME NEW i \in N, NEW j \in N, i < j PROVE C[i] < C[j]
    <2>1. i \in 0 .. L /\ j \in 1 .. L /\ j - 1 \in 0 .. L /\ i <= j - 1
      BY <1>2, <1>4
    <2>2. C[i] <= C[j - 1] /\ C[j] = C[j - 1] + 1 /\ C[i] \in Int /\ C[j - 1] \in Int
      BY <1>1, <2>1
    <2> QED BY <2>2
  <1>5. ASSUME NEW i \in N PROVE C[i] \in 1 .. M
    <2>1. i \in 1 .. L /\ i - 1 \in 0 .. L /\ i \in 0 .. L
      BY <1>2
    <2>2. C[i] = C[i - 1] + 1 /\ C[i - 1] \in 0 .. M /\ C[i] \in 0 .. M
      BY <1>1, <2>1
    <2> QED BY <2>2
  <1> QED BY <1>2, <1>3, <1>4, <1>5 DEF M

NotesOf(events) == {i \in DOMAIN events : events[i].type \in NoteTypes}

NoteEvents == {e \in EventValues : e.type \in NoteTypes}

\* es are the notes at the places N of a record.
Crosses(c, N, es) == N = NotesOf(c.events) /\ es = BuildSourceEvents(c)

\* The notes of a record, each at its rank, in the order of the record.
LEMMA SourceEvents ==
  ASSUME NEW c, c.events \in Seq(EventValues), Ordered(c.events),
         NEW N, NEW es, Crosses(c, N, es)
  PROVE  /\ N \in SUBSET (1 .. Len(c.events))
         /\ es \in Seq(NoteEvents) /\ Len(es) = Cardinality(N)
         /\ \A i \in N : Rank(N, i) \in 1 .. Len(es) /\ es[Rank(N, i)] = c.events[i]
         /\ \A n \in 1 .. Len(es) : \E i \in N : Rank(N, i) = n
         /\ Ordered(es)
  <1> DEFINE L == Len(c.events)
             M == Cardinality(N)
             at(n) == CHOOSE i \in N : Cardinality({j \in N : j <= i}) = n
  <1>1. L \in Nat /\ N \in SUBSET (1 .. L) /\ DOMAIN c.events = 1 .. L
    BY DEF NotesOf, Crosses
  <1>2. M \in Nat
    BY <1>1, Ranks
  <1>3. /\ \A n \in 1 .. M : \E i \in N : Rank(N, i) = n
        /\ \A i, j \in N : i < j => Rank(N, i) < Rank(N, j)
        /\ \A i \in N : Rank(N, i) \in 1 .. M
    BY <1>1, RankedOnce
  <1>4. es = [n \in 1 .. M |-> c.events[at(n)]]
    <2>1. N = {i \in DOMAIN c.events : c.events[i].type \in NoteTypes}
      BY Zenon DEF NotesOf, Crosses
    <2> QED BY <2>1 DEF BuildSourceEvents, Crosses
  <1>5. ASSUME NEW n \in 1 .. M PROVE at(n) \in N /\ Rank(N, at(n)) = n
    <2>1. \E i \in N : Cardinality({j \in N : j <= i}) = n
      BY <1>3 DEF Rank
    <2>2. at(n) \in N /\ Cardinality({j \in N : j <= at(n)}) = n
      BY <2>1, Zenon
    <2> HIDE DEF at
    <2> QED BY <2>2, Zenon DEF Rank
  <1>6. ASSUME NEW i \in N PROVE at(Rank(N, i)) = i
    <2>1. at(Rank(N, i)) \in N /\ Rank(N, at(Rank(N, i))) = Rank(N, i)
      BY <1>3, <1>5
    <2> HIDE DEF at
    <2>2. at(Rank(N, i)) \in Int /\ i \in Int
      <3>1. \A j \in N : j \in Int
        BY <1>1
      <3> QED BY <2>1, <3>1, Zenon
    <2>3. ~ (at(Rank(N, i)) < i) /\ ~ (i < at(Rank(N, i)))
      <3>1. Rank(N, i) \in Int
        BY <1>3
      <3>2. ~ (Rank(N, i) < Rank(N, i))
        BY <3>1
      <3> QED BY <1>3, <2>1, <3>2
    <2> QED BY <2>2, <2>3
  <1> HIDE DEF at
  <1>7. \A i \in 1 .. L : c.events[i] \in EventValues
    BY <1>1
  <1>8. es \in Seq(NoteEvents) /\ Len(es) = M
    <2>1. \A n \in 1 .. M : c.events[at(n)] \in NoteEvents
      BY <1>1, <1>5, <1>7 DEF NoteEvents, NotesOf, Crosses
    <2> QED BY <1>2, <1>4, <2>1
  <1>9. ASSUME NEW i \in N PROVE Rank(N, i) \in 1 .. M /\ es[Rank(N, i)] = c.events[i]
    BY <1>3, <1>4, <1>6
  <1>10. Ordered(es)
    <2>1. ASSUME NEW n \in 1 .. M, NEW m \in 1 .. M, n < m
          PROVE  es[n].seq < es[m].seq /\ es[n].at <= es[m].at
      <3>1. at(n) \in N /\ at(m) \in N /\ Rank(N, at(n)) = n /\ Rank(N, at(m)) = m
        BY <1>5
      <3>2. at(n) < at(m)
        <4>1. at(n) \in 0 .. L /\ at(m) \in 0 .. L
          <5>1. \A j \in N : j \in 0 .. L
            BY <1>1
          <5> QED BY <3>1, <5>1, Zenon
        <4>2. at(m) <= at(n) => Rank(N, at(m)) <= Rank(N, at(n))
          BY <1>1, <4>1, Ranks
        <4>3. m \in Int /\ n \in Int
          OBVIOUS
        <4> QED BY <2>1, <3>1, <4>1, <4>2, <4>3
      <3>3. es[n] = c.events[at(n)] /\ es[m] = c.events[at(m)]
        BY <1>4
      <3>4. at(n) \in DOMAIN c.events /\ at(m) \in DOMAIN c.events
        BY <1>1, <3>1
      <3> QED BY <3>2, <3>3, <3>4 DEF Ordered
    <2>2. DOMAIN es = 1 .. M
      BY <1>4
    <2> QED BY <2>1, <2>2 DEF Ordered
  <1> QED BY <1>1, <1>3, <1>8, <1>9, <1>10

\* g is the state of the import after each of the first n events.
ImportRun(q, g, n) ==
    g = [k \in 0 .. n |-> IF k = 0 THEN NothingImported(q)
                          ELSE ImportEvent(q, g[k - 1], q.events[k])]

\* One event after the other can be imported, however many there are.
LEMMA ImportingExists ==
  ASSUME NEW q, Len(q.events) \in Nat
  PROVE  \E g : ImportRun(q, g, Len(q.events))
  <1> DEFINE S == {n \in Nat : \E g : ImportRun(q, g, n)}
  <1>1. 0 \in S
    <2> DEFINE g == [k \in 0 .. 0 |-> NothingImported(q)]
    <2>1. \A k \in 0 .. 0 : k = 0
      OBVIOUS
    <2>2. ImportRun(q, g, 0)
      BY <2>1 DEF ImportRun
    <2> QED BY <2>2, Zenon
  <1>2. ASSUME NEW n \in Nat, n \in S PROVE n + 1 \in S
    <2>1. PICK g : ImportRun(q, g, n)
      BY <1>2, Zenon
    <2> DEFINE h == [k \in 0 .. n + 1 |->
                        IF k = n + 1 THEN ImportEvent(q, g[n], q.events[n + 1]) ELSE g[k]]
               x == [k \in 0 .. n + 1 |->
                        IF k = 0 THEN NothingImported(q) ELSE ImportEvent(q, h[k - 1], q.events[k])]
    <2>2. ASSUME NEW k \in 0 .. n + 1
          PROVE  h[k] = IF k = 0 THEN NothingImported(q) ELSE ImportEvent(q, h[k - 1], q.events[k])
      <3>1. CASE k = n + 1
        <4>1. n \in 0 .. n + 1 /\ n # n + 1 /\ (n + 1) - 1 = n /\ n + 1 # 0
              /\ n + 1 \in 0 .. n + 1
          OBVIOUS
        <4>2. h[n + 1] = ImportEvent(q, g[n], q.events[n + 1]) /\ h[n] = g[n]
          BY <4>1, Zenon
        <4> HIDE DEF h
        <4> QED BY <3>1, <4>1, <4>2, Zenon
      <3>2. CASE k = 0
        <4>1. k # n + 1 /\ 0 \in 0 .. n
          BY <3>2
        <4>2. h[k] = g[k] /\ g[0] = NothingImported(q)
          BY <2>1, <4>1, Zenon DEF ImportRun
        <4> QED BY <3>2, <4>2, Zenon
      <3>3. CASE k # n + 1 /\ k # 0
        <4>1. k \in 0 .. n /\ k - 1 \in 0 .. n + 1 /\ k - 1 # n + 1
          BY <3>3
        <4>2. h[k] = g[k] /\ h[k - 1] = g[k - 1]
          BY <3>3, <4>1, Zenon
        <4>3. g[k] = ImportEvent(q, g[k - 1], q.events[k])
          BY <2>1, <3>3, <4>1, Zenon DEF ImportRun
        <4> HIDE DEF h
        <4> QED BY <3>3, <4>2, <4>3, Zenon
      <3> QED BY <3>1, <3>2, <3>3
    <2>3. h = x
      <3>1. h = [k \in 0 .. n + 1 |-> h[k]]
        OBVIOUS
      <3> HIDE DEF h
      <3> QED BY <2>2, <3>1, Zenon
    <2>4. ImportRun(q, h, n + 1)
      BY <2>3, Zenon DEF ImportRun
    <2> HIDE DEF h
    <2> QED BY <2>4
  <1>3. Nat \subseteq S
    <2> HIDE DEF S
    <2> QED BY <1>1, <1>2, SetInduction
  <1> QED BY <1>3

\* No note of any key of a record.
Silent(events) == [k \in {events[i].key : i \in DOMAIN events} |-> 0]

\* g is what sounds after each of the first n events.
HeldRun(events, g, n) ==
    g = [k \in 0 .. n |-> IF k = 0 THEN Silent(events) ELSE HeldAfter(g[k - 1], events[k])]

LEMMA HoldingExists ==
  ASSUME NEW events, Len(events) \in Nat
  PROVE  \E g : HeldRun(events, g, Len(events))
  <1> DEFINE S == {n \in Nat : \E g : HeldRun(events, g, n)}
  <1>1. 0 \in S
    <2> DEFINE g == [k \in 0 .. 0 |-> Silent(events)]
    <2>1. \A k \in 0 .. 0 : k = 0
      OBVIOUS
    <2>2. HeldRun(events, g, 0)
      BY <2>1 DEF HeldRun
    <2> QED BY <2>2, Zenon
  <1>2. ASSUME NEW n \in Nat, n \in S PROVE n + 1 \in S
    <2>1. PICK g : HeldRun(events, g, n)
      BY <1>2, Zenon
    <2> DEFINE h == [k \in 0 .. n + 1 |->
                        IF k = n + 1 THEN HeldAfter(g[n], events[n + 1]) ELSE g[k]]
               x == [k \in 0 .. n + 1 |->
                        IF k = 0 THEN Silent(events) ELSE HeldAfter(h[k - 1], events[k])]
    <2>2. ASSUME NEW k \in 0 .. n + 1
          PROVE  h[k] = IF k = 0 THEN Silent(events) ELSE HeldAfter(h[k - 1], events[k])
      <3>1. CASE k = n + 1
        <4>1. n \in 0 .. n + 1 /\ n # n + 1 /\ (n + 1) - 1 = n /\ n + 1 # 0
              /\ n + 1 \in 0 .. n + 1
          OBVIOUS
        <4>2. h[n + 1] = HeldAfter(g[n], events[n + 1]) /\ h[n] = g[n]
          BY <4>1, Zenon
        <4> HIDE DEF h
        <4> QED BY <3>1, <4>1, <4>2, Zenon
      <3>2. CASE k = 0
        <4>1. k # n + 1 /\ 0 \in 0 .. n
          BY <3>2
        <4>2. h[k] = g[k] /\ g[0] = Silent(events)
          BY <2>1, <4>1, Zenon DEF HeldRun
        <4> QED BY <3>2, <4>2, Zenon
      <3>3. CASE k # n + 1 /\ k # 0
        <4>1. k \in 0 .. n /\ k - 1 \in 0 .. n + 1 /\ k - 1 # n + 1
          BY <3>3
        <4>2. h[k] = g[k] /\ h[k - 1] = g[k - 1]
          BY <3>3, <4>1, Zenon
        <4>3. g[k] = HeldAfter(g[k - 1], events[k])
          BY <2>1, <3>3, <4>1, Zenon DEF HeldRun
        <4> HIDE DEF h
        <4> QED BY <3>3, <4>2, <4>3, Zenon
      <3> QED BY <3>1, <3>2, <3>3
    <2>3. h = x
      <3>1. h = [k \in 0 .. n + 1 |-> h[k]]
        OBVIOUS
      <3> HIDE DEF h
      <3> QED BY <2>2, <3>1, Zenon
    <2>4. HeldRun(events, h, n + 1)
      BY <2>3, Zenon DEF HeldRun
    <2> HIDE DEF h
    <2> QED BY <2>4
  <1>3. Nat \subseteq S
    <2> HIDE DEF S
    <2> QED BY <1>1, <1>2, SetInduction
  <1> QED BY <1>3

\* What is heard of a whole record is what sounds after its last event.
LEMMA SoundingRuns ==
  ASSUME NEW events, Len(events) \in Nat
  PROVE  \E g : HeldRun(events, g, Len(events)) /\ Sounding(events) = g[Len(events)]
  <1> DEFINE P(g) == g = [n \in 0 .. Len(events) |->
                            IF n = 0 THEN Silent(events) ELSE HeldAfter(g[n - 1], events[n])]
             after == CHOOSE g : P(g)
  <1>1. \E g : P(g)
    BY HoldingExists DEF HeldRun
  <1>2. P(after)
    <2> HIDE DEF P
    <2> QED BY <1>1
  <1>3. Sounding(events) = after[Len(events)]
    BY Zenon DEF Sounding, Silent
  <1> HIDE DEF after
  <1> QED BY <1>2, <1>3 DEF HeldRun


\* The import of events in order is the state after the last of them.
LEMMA ImportRuns ==
  ASSUME NEW q, IsRequest(q), q.events \in Seq(EventValues), Ordered(q.events)
  PROVE  \E g : ImportRun(q, g, Len(q.events)) /\ ImportAll(q) = g[Len(q.events)]
  <1> DEFINE P(g) == g = [n \in 0 .. Len(q.events) |->
                            IF n = 0 THEN NothingImported(q)
                            ELSE ImportEvent(q, g[n - 1], q.events[n])]
             after == CHOOSE g : P(g)
             sorted == [q EXCEPT !.events = InTimeOrder(@)]
  <1>0. Len(q.events) \in Nat
    OBVIOUS
  <1>1. \E g : P(g)
    BY <1>0, ImportingExists DEF ImportRun
  <1>2. P(after)
    <2> HIDE DEF P
    <2> QED BY <1>1
  <1>3. sorted = q
    <2>1. InTimeOrder(q.events) = q.events
      BY InOrderStays
    <2> QED BY <2>1 DEF IsRequest, RequestFields
  <1>4. sorted.events = InTimeOrder(q.events) /\ InTimeOrder(q.events) = q.events
    BY InOrderStays DEF IsRequest, RequestFields
  <1>5. ImportAll(q) = (CHOOSE g : g = [n \in 0 .. Len(sorted.events) |->
                            IF n = 0 THEN NothingImported(q)
                            ELSE ImportEvent(q, g[n - 1], sorted.events[n])])[Len(sorted.events)]
    BY Zenon DEF ImportAll
  <1> HIDE DEF sorted
  <1>6. ImportAll(q) = after[Len(q.events)]
    BY <1>3, <1>5, Zenon
  <1> HIDE DEF after
  <1> QED BY <1>2, <1>6 DEF ImportRun

-----------------------------------------------------------------------------
(* One note *)

LEMMA RoundedInt ==
  ASSUME NEW n \in Int, NEW d \in Nat \ {0}
  PROVE  DivideRounded(n, d) \in Int
  <1>1. ASSUME NEW a \in Int, NEW b \in Nat \ {0} PROVE a \div b \in Int
    OBVIOUS
  <1>2. 2 * n + d \in Int /\ -2 * n + d \in Int /\ 2 * d \in Nat \ {0}
    OBVIOUS
  <1>3. (2 * n + d) \div (2 * d) \in Int /\ (-2 * n + d) \div (2 * d) \in Int
    BY <1>1, <1>2
  <1> QED BY <1>3 DEF DivideRounded

LEMMA TicksInt ==
  ASSUME NEW t \in Int, NEW mpq \in Nat \ {0}
  PROVE  /\ NanosecondsToTicks(t, TicksPerQuarter, mpq) \in Int
         /\ TicksToNanoseconds(t, TicksPerQuarter, mpq) \in Int
  <1>1. TicksPerQuarter \in Nat \ {0}
    BY DEF TicksPerQuarter
  <1>2. t * TicksPerQuarter \in Int /\ t * mpq \in Int
    BY <1>1
  <1> QED BY <1>1, <1>2, RoundedInt DEF NanosecondsToTicks, TicksToNanoseconds

\* The times of a note are recovered exactly from its ticks and what was lost.
Exact(q, n) ==
    /\ q.origin + TicksToNanoseconds(n.start, TicksPerQuarter, q.mpq) + n.lostStart = n.onAt
    /\ TicksToNanoseconds(n.duration, TicksPerQuarter, q.mpq) + n.lostDuration = n.offAt - n.onAt
    /\ n.duration >= 1

LEMMA Converted ==
  ASSUME NEW q, q.origin \in Nat, q.mpq \in Nat \ {0},
         NEW on \in NoteEvents, NEW off \in NoteEvents,
         ConvertibleDuration(on.at, off.at, TicksPerQuarter, q.mpq),
         NEW n, n = ConvertNote(q, on, off)
  PROVE  /\ n \in CanonicalNotes
         /\ n.on = on.seq /\ n.off = off.seq /\ n.key = on.key
         /\ Exact(q, n)
  <1> DEFINE el == on.at - q.origin
             du == off.at - on.at
             ticks(t) == NanosecondsToTicks(t, TicksPerQuarter, q.mpq)
             back(t) == TicksToNanoseconds(t, TicksPerQuarter, q.mpq)
             lost(t) == RoundingDelta(t, TicksPerQuarter, q.mpq)
  <1>0. /\ on.seq \in Nat /\ on.at \in Nat /\ on.key \in Int /\ on.velocity \in Int
        /\ on.string \in Int /\ off.seq \in Nat /\ off.at \in Nat
    BY DEF NoteEvents, EventValues
  <1>1. el \in Int /\ du \in Int
    BY <1>0
  <1>2. ASSUME NEW t \in Int
        PROVE  ticks(t) \in Int /\ back(ticks(t)) \in Int /\ lost(t) = t - back(ticks(t))
               /\ lost(t) \in Int
    <2>1. ticks(t) \in Int
      BY TicksInt
    <2> HIDE DEF ticks
    <2>2. back(ticks(t)) \in Int
      BY <2>1, TicksInt
    <2>3. lost(t) = t - back(ticks(t))
      BY DEF RoundingDelta, ticks
    <2> QED BY <2>1, <2>2, <2>3
  <1>3. n = [key |-> on.key, velocity |-> on.velocity, string |-> on.string,
             on |-> on.seq, off |-> off.seq, onAt |-> on.at, offAt |-> off.at,
             start |-> ticks(el), duration |-> ticks(du),
             lostStart |-> lost(el), lostDuration |-> lost(du)]
    BY Zenon DEF ConvertNote
  <1>4. ticks(du) >= 1
    BY DEF ConvertibleDuration
  <1>5. \A t \in Int : back(t) = TicksToNanoseconds(t, TicksPerQuarter, q.mpq)
    OBVIOUS
  <1>6. /\ ticks(el) \in Int /\ back(ticks(el)) \in Int /\ lost(el) \in Int
        /\ lost(el) = el - back(ticks(el))
        /\ ticks(du) \in Int /\ back(ticks(du)) \in Int /\ lost(du) \in Int
        /\ lost(du) = du - back(ticks(du))
    BY <1>1, <1>2
  <1>7. /\ on.at = q.origin + el /\ off.at - on.at = du
    BY <1>0
  <1> HIDE DEF ticks, back, lost, el, du
  <1>8. n \in CanonicalNotes
    BY <1>0, <1>3, <1>6 DEF CanonicalNotes
  <1>9. /\ n.on = on.seq /\ n.off = off.seq /\ n.key = on.key /\ n.onAt = on.at
        /\ n.offAt = off.at /\ n.start = ticks(el) /\ n.duration = ticks(du)
        /\ n.lostStart = lost(el) /\ n.lostDuration = lost(du)
    BY <1>3
  <1>10. /\ q.origin + back(n.start) + n.lostStart = n.onAt
         /\ back(n.duration) + n.lostDuration = n.offAt - n.onAt
         /\ n.duration >= 1
    BY <1>0, <1>1, <1>4, <1>6, <1>7, <1>9
  <1>11. Exact(q, n)
    BY <1>5, <1>6, <1>9, <1>10 DEF Exact
  <1> QED BY <1>8, <1>9, <1>11

-----------------------------------------------------------------------------
(* Rejections *)

Reasons == {"EVENT_BEFORE_CAPTURE_ORIGIN", "UNMATCHED_NOTE_OFF", "DURATION_BELOW_ONE_TICK",
            "UNMATCHED_NOTE_ON"}
RejectionValues == [reason : Reasons, ids : SUBSET Nat]

\* No event is named by two rejections.
Apart(rs) == \A i, j \in DOMAIN rs : i # j => rs[i].ids \cap rs[j].ids = {}

\* None of them says that a note was never released.
Released(rs) == \A i \in DOMAIN rs : rs[i].reason # "UNMATCHED_NOTE_ON"

\* ids can be cited by one more rejection; a reason it can have before the end.
Fits(rs, ids) == ids \in SUBSET Nat /\ ids \cap Cited(rs) = {}
Reason(reason) == reason \in Reasons
Ordinary(reason) == reason \in Reasons /\ reason # "UNMATCHED_NOTE_ON"

IsRejected(rs, reason, ids, ts) == ts = Append(rs, Rejection(reason, ids))

LEMMA OneMoreRejection ==
  ASSUME NEW rs \in Seq(RejectionValues), Apart(rs), NEW reason, Reason(reason),
         NEW ids, Fits(rs, ids), NEW ts, IsRejected(rs, reason, ids, ts)
  PROVE  /\ ts \in Seq(RejectionValues) /\ Apart(ts)
         /\ Cited(ts) = Cited(rs) \cup ids
  <1> DEFINE r == Rejection(reason, ids)
             L == Len(rs)
  <1>0. ids \in SUBSET Nat /\ ids \cap Cited(rs) = {} /\ reason \in Reasons
    BY DEF Fits, Reason
  <1>1. r \in RejectionValues /\ r.reason = reason /\ r.ids = ids
    BY <1>0 DEF Rejection, RejectionValues
  <1> HIDE DEF r
  <1>2. /\ ts \in Seq(RejectionValues) /\ Len(ts) = L + 1 /\ L \in Nat
        /\ DOMAIN ts = 1 .. L + 1 /\ DOMAIN rs = 1 .. L
        /\ ts[L + 1] = r /\ \A i \in 1 .. L : ts[i] = rs[i]
    BY <1>1 DEF r, IsRejected
  <1>3. \A i \in DOMAIN ts : i = L + 1 \/ i \in DOMAIN rs
    BY <1>2
  <1>4. \A i \in DOMAIN rs : rs[i].ids \subseteq Cited(rs)
    BY DEF Cited
  <1>5. Cited(ts) = Cited(rs) \cup ids
    <2>1. ASSUME NEW x PROVE x \in Cited(ts) <=> \E i \in DOMAIN ts : x \in ts[i].ids
      BY DEF Cited
    <2>2. ASSUME NEW x PROVE x \in Cited(rs) <=> \E i \in DOMAIN rs : x \in rs[i].ids
      BY DEF Cited
    <2>3. L + 1 \in DOMAIN ts /\ \A i \in DOMAIN rs : i \in DOMAIN ts
      BY <1>2
    <2>4. ASSUME NEW x PROVE x \in Cited(ts) <=> x \in Cited(rs) \/ x \in ids
      BY <1>1, <1>2, <1>3, <2>1, <2>2, <2>3
    <2> QED BY <2>4
  <1>6. Apart(ts)
    <2>1. ASSUME NEW i \in DOMAIN ts, NEW j \in DOMAIN ts, i # j
          PROVE  ts[i].ids \cap ts[j].ids = {}
      <3>1. CASE i = L + 1
        BY <1>0, <1>1, <1>2, <1>3, <1>4, <2>1, <3>1
      <3>2. CASE j = L + 1
        BY <1>0, <1>1, <1>2, <1>3, <1>4, <2>1, <3>2
      <3>3. CASE i # L + 1 /\ j # L + 1
        BY <1>2, <1>3, <2>1, <3>3 DEF Apart
      <3> QED BY <3>1, <3>2, <3>3
    <2> QED BY <2>1 DEF Apart
  <1> QED BY <1>2, <1>5, <1>6

LEMMA StillReleased ==
  ASSUME NEW rs \in Seq(RejectionValues), Released(rs), NEW reason, Ordinary(reason),
         NEW ids, NEW ts, IsRejected(rs, reason, ids, ts)
  PROVE  Released(ts)
  <1> DEFINE r == Rejection(reason, ids)
             L == Len(rs)
  <1>1. r.reason = reason
    BY DEF Rejection
  <1>2. ts = Append(rs, r)
    BY DEF IsRejected
  <1> HIDE DEF r
  <1>3. L \in Nat /\ DOMAIN ts = 1 .. L + 1 /\ DOMAIN rs = 1 .. L
        /\ ts[L + 1] = r /\ \A i \in 1 .. L : ts[i] = rs[i]
    BY <1>2
  <1>4. ASSUME NEW i \in DOMAIN ts PROVE ts[i].reason # "UNMATCHED_NOTE_ON"
    <2>1. CASE i = L + 1
      BY <1>1, <1>3, <2>1 DEF Ordinary
    <2>2. CASE i # L + 1
      <3>1. i \in 1 .. L
        BY <1>3, <2>2
      <3> QED BY <1>3, <3>1 DEF Released
    <2> QED BY <2>1, <2>2
  <1> QED BY <1>4 DEF Released

-----------------------------------------------------------------------------
(* The queues of open notes *)

\* What a request that could be built from a closed capture is.
Asked(q) ==
    /\ IsRequest(q)
    /\ q.events \in Seq(NoteEvents) /\ Ordered(q.events)
    /\ q.origin \in Nat /\ q.mpq \in Nat \ {0}

Keys(q) == {q.events[i].key : i \in DOMAIN q.events}
Past(q, k) == {q.events[i] : i \in 1 .. k}
PastSeqs(q, k) == {q.events[i].seq : i \in 1 .. k}

\* A queue holds past events of its key, in the order they came.
OpenOK(q, open, k) ==
    /\ open \in [Keys(q) -> Seq(NoteEvents)]
    /\ \A key \in Keys(q) : \A i \in DOMAIN open[key] :
          open[key][i].key = key /\ open[key][i] \in Past(q, k)
    /\ \A key \in Keys(q) : \A i, j \in DOMAIN open[key] :
          i < j => open[key][i].seq < open[key][j].seq

OpenSeqs(open) == UNION {{open[k][i].seq : i \in DOMAIN open[k]} : k \in DOMAIN open}

\* What the queues are once the note e is opened, or the first of a key released.
IsOpened(open, e, new) == new = [open EXCEPT ![e.key] = Append(@, e)]
IsReleased(open, key, new) == new = [open EXCEPT ![key] = Tail(@)]

LEMMA PastLemma ==
  ASSUME NEW q, Asked(q), NEW k \in 0 .. Len(q.events)
  PROVE  /\ \A y \in PastSeqs(q, k) : y \in Nat
         /\ \A a \in Past(q, k) : a \in NoteEvents /\ a.seq \in PastSeqs(q, k) /\ a.key \in Keys(q)
         /\ \A a, b \in Past(q, k) : a.seq = b.seq => a = b
  <1>1. \A i \in 1 .. k : i \in DOMAIN q.events /\ q.events[i] \in NoteEvents
    BY DEF Asked
  <1>2. \A i \in 1 .. k : q.events[i].seq \in Nat
    BY <1>1 DEF NoteEvents, EventValues
  <1>3. ASSUME NEW i \in 1 .. k, NEW j \in 1 .. k, q.events[i].seq = q.events[j].seq
        PROVE  i = j
    <2>1. i < j => q.events[i].seq < q.events[j].seq
      BY <1>1 DEF Asked, Ordered
    <2>2. j < i => q.events[j].seq < q.events[i].seq
      BY <1>1 DEF Asked, Ordered
    <2> QED BY <1>2, <1>3, <2>1, <2>2
  <1>4. \A a, b \in Past(q, k) : a.seq = b.seq => a = b
    BY <1>3 DEF Past
  <1> QED BY <1>1, <1>2, <1>4 DEF Past, PastSeqs, Keys

\* The event that comes k-th.
IsNext(q, j, k, e) == k \in 1 .. Len(q.events) /\ j = k - 1 /\ e = q.events[k]

LEMMA NextEvent ==
  ASSUME NEW q, Asked(q), NEW j, NEW k, NEW e, IsNext(q, j, k, e)
  PROVE  /\ j \in 0 .. Len(q.events) /\ k \in 0 .. Len(q.events)
         /\ e \in NoteEvents /\ e.key \in Keys(q) /\ e.seq \in Nat
         /\ Past(q, k) = Past(q, j) \cup {e}
         /\ PastSeqs(q, k) = PastSeqs(q, j) \cup {e.seq}
         /\ \A y \in PastSeqs(q, j) : y \in Nat /\ y < e.seq
  <1>0. k \in 1 .. Len(q.events) /\ j = k - 1 /\ e = q.events[k]
    BY DEF IsNext
  <1>1. k \in DOMAIN q.events /\ e \in NoteEvents /\ j \in 0 .. Len(q.events)
        /\ k \in 0 .. Len(q.events)
    BY <1>0 DEF Asked
  <1>2. e.key \in Keys(q) /\ e.seq \in Nat
    BY <1>0, <1>1 DEF Keys, NoteEvents, EventValues
  <1>3. \A i : i \in 1 .. k <=> i \in 1 .. j \/ i = k
    BY <1>0
  <1>4. Past(q, k) = Past(q, j) \cup {e}
    BY <1>0, <1>3 DEF Past
  <1>5. PastSeqs(q, k) = PastSeqs(q, j) \cup {e.seq}
    BY <1>0, <1>3 DEF PastSeqs
  <1>6. ASSUME NEW i \in 1 .. j PROVE q.events[i].seq \in Nat /\ q.events[i].seq < e.seq
    <2>1. i \in DOMAIN q.events /\ i < k /\ q.events[i] \in NoteEvents
      BY <1>0 DEF Asked
    <2> QED BY <1>0, <1>1, <2>1 DEF Asked, Ordered, NoteEvents, EventValues
  <1>7. \A y \in PastSeqs(q, j) : y \in Nat /\ y < e.seq
    BY <1>6 DEF PastSeqs
  <1> QED BY <1>1, <1>2, <1>4, <1>5, <1>7

\* What is open was struck before.
LEMMA OpenIsPast ==
  ASSUME NEW q, Asked(q), NEW k \in 0 .. Len(q.events), NEW open, OpenOK(q, open, k)
  PROVE  /\ OpenSeqs(open) \subseteq PastSeqs(q, k)
         /\ \A x : x \in OpenSeqs(open) <=>
               \E key \in Keys(q) : \E i \in DOMAIN open[key] : x = open[key][i].seq
  <1>1. DOMAIN open = Keys(q)
    BY DEF OpenOK
  <1>2. \A x : x \in OpenSeqs(open) <=>
               \E key \in Keys(q) : \E i \in DOMAIN open[key] : x = open[key][i].seq
    BY <1>1 DEF OpenSeqs
  <1>3. \A a \in Past(q, k) : a.seq \in PastSeqs(q, k)
    BY PastLemma
  <1> QED BY <1>2, <1>3 DEF OpenOK

\* A note is opened: last of its queue.
LEMMA OpenOne ==
  ASSUME NEW q, Asked(q), NEW b, NEW k, NEW e, IsNext(q, b, k, e), NEW open, OpenOK(q, open, b),
         NEW new, IsOpened(open, e, new)
  PROVE  /\ OpenOK(q, new, k)
         /\ OpenSeqs(new) = OpenSeqs(open) \cup {e.seq}
         /\ \A key \in Keys(q) : \A i \in DOMAIN new[key] :
               new[key][i] = e \/ (i \in DOMAIN open[key] /\ new[key][i] = open[key][i])
  <1>0. /\ e \in NoteEvents /\ e.key \in Keys(q) /\ e.seq \in Nat
        /\ Past(q, k) = Past(q, b) \cup {e}
        /\ \A y \in PastSeqs(q, b) : y \in Nat /\ y < e.seq
        /\ b \in 0 .. Len(q.events) /\ k \in 0 .. Len(q.events)
    BY NextEvent
  <1>1. /\ open \in [Keys(q) -> Seq(NoteEvents)]
        /\ \A key \in Keys(q) : \A i \in DOMAIN open[key] :
              open[key][i].key = key /\ open[key][i] \in Past(q, b)
        /\ \A key \in Keys(q) : \A i, j \in DOMAIN open[key] :
              i < j => open[key][i].seq < open[key][j].seq
    BY DEF OpenOK
  <1> DEFINE Q == Append(open[e.key], e)
             L == Len(open[e.key])
  <1>2. /\ Q \in Seq(NoteEvents) /\ L \in Nat /\ Len(Q) = L + 1 /\ DOMAIN Q = 1 .. L + 1
        /\ DOMAIN open[e.key] = 1 .. L
        /\ Q[L + 1] = e /\ \A i \in 1 .. L : Q[i] = open[e.key][i]
    BY <1>0, <1>1
  <1>3. new = [open EXCEPT ![e.key] = Q]
    BY DEF IsOpened
  <1> HIDE DEF Q
  <1>4. new \in [Keys(q) -> Seq(NoteEvents)] /\ new[e.key] = Q
        /\ \A key \in Keys(q) : key # e.key => new[key] = open[key]
    BY <1>0, <1>1, <1>2, <1>3
  <1>5. ASSUME NEW key \in Keys(q), NEW i \in DOMAIN new[key]
        PROVE  \/ new[key][i] = e /\ key = e.key /\ i = L + 1
               \/ (i \in DOMAIN open[key] /\ new[key][i] = open[key][i] /\ (key = e.key => i < L + 1))
    <2>1. CASE key = e.key
      <3>1. i \in 1 .. L + 1 /\ new[key] = Q
        BY <1>2, <1>4, <1>5, <2>1
      <3>2. CASE i = L + 1
        BY <1>2, <2>1, <3>1, <3>2
      <3>3. CASE i # L + 1
        <4>1. i \in 1 .. L /\ i < L + 1
          BY <1>2, <3>1, <3>3
        <4> QED BY <1>2, <2>1, <3>1, <4>1
      <3> QED BY <3>2, <3>3
    <2>2. CASE key # e.key
      BY <1>4, <1>5, <2>2
    <2> QED BY <2>1, <2>2
  <1>6. ASSUME NEW key \in Keys(q), NEW i \in DOMAIN open[key]
        PROVE  i \in DOMAIN new[key] /\ new[key][i] = open[key][i]
    <2>1. CASE key = e.key
      <3>1. i \in 1 .. L /\ i \in 1 .. L + 1 /\ new[key] = Q
        BY <1>2, <1>4, <1>6, <2>1
      <3> QED BY <1>2, <2>1, <3>1
    <2>2. CASE key # e.key
      BY <1>4, <1>6, <2>2
    <2> QED BY <2>1, <2>2
  <1>7. ASSUME NEW key \in Keys(q), NEW i \in DOMAIN new[key], NEW j \in DOMAIN new[key], i < j
        PROVE  new[key][i].seq < new[key][j].seq
    <2>1. CASE j \in DOMAIN open[key] /\ new[key][j] = open[key][j] /\ (key = e.key => j < L + 1)
      <3>1. i \in DOMAIN open[key] /\ new[key][i] = open[key][i]
        <4>1. CASE key = e.key
          <5>1. i # L + 1
            BY <1>2, <1>7, <2>1, <4>1
          <5> QED BY <1>5, <5>1
        <4>2. CASE key # e.key
          BY <1>5, <4>2
        <4> QED BY <4>1, <4>2
      <3> QED BY <1>1, <1>7, <2>1, <3>1
    <2>2. CASE new[key][j] = e /\ key = e.key /\ j = L + 1
      <3>1. i \in DOMAIN open[key] /\ new[key][i] = open[key][i]
        <4>1. i # L + 1
          BY <1>2, <1>7, <2>2
        <4> QED BY <1>5, <4>1
      <3>2. open[key][i] \in Past(q, b)
        BY <1>1, <3>1
      <3>3. open[key][i].seq \in PastSeqs(q, b)
        BY <1>0, <3>2, PastLemma
      <3> QED BY <1>0, <2>2, <3>1, <3>3
    <2> QED BY <1>5, <2>1, <2>2
  <1>8. OpenOK(q, new, k)
    BY <1>0, <1>1, <1>4, <1>5, <1>7 DEF OpenOK
  <1>9. OpenSeqs(new) = OpenSeqs(open) \cup {e.seq}
    <2>1. \A x : x \in OpenSeqs(open) <=>
               \E key \in Keys(q) : \E i \in DOMAIN open[key] : x = open[key][i].seq
      BY <1>0, OpenIsPast
    <2>2. \A x : x \in OpenSeqs(new) <=>
               \E key \in Keys(q) : \E i \in DOMAIN new[key] : x = new[key][i].seq
      BY <1>0, <1>8, OpenIsPast
    <2>3. e.seq \in OpenSeqs(new)
      <3>1. L + 1 \in DOMAIN new[e.key] /\ new[e.key][L + 1] = e
        BY <1>2, <1>4
      <3> QED BY <1>0, <2>2, <3>1, Zenon
    <2>4. ASSUME NEW x \in OpenSeqs(new) PROVE x \in OpenSeqs(open) \cup {e.seq}
      <3>1. PICK key \in Keys(q) : \E i \in DOMAIN new[key] : x = new[key][i].seq
        BY <2>2
      <3>2. PICK i \in DOMAIN new[key] : x = new[key][i].seq
        BY <3>1
      <3>3. new[key][i] = e \/ (i \in DOMAIN open[key] /\ new[key][i] = open[key][i])
        BY <1>5
      <3>4. CASE new[key][i] = e
        BY <3>2, <3>4
      <3>5. CASE i \in DOMAIN open[key] /\ new[key][i] = open[key][i]
        <4>1. x = open[key][i].seq
          BY <3>2, <3>5
        <4>2. x \in OpenSeqs(open)
          BY <2>1, <3>5, <4>1, Zenon
        <4> QED BY <4>2
      <3> QED BY <3>3, <3>4, <3>5
    <2>5. ASSUME NEW x \in OpenSeqs(open) PROVE x \in OpenSeqs(new)
      <3>1. PICK key \in Keys(q) : \E i \in DOMAIN open[key] : x = open[key][i].seq
        BY <2>1
      <3>2. PICK i \in DOMAIN open[key] : x = open[key][i].seq
        BY <3>1
      <3>3. i \in DOMAIN new[key] /\ new[key][i] = open[key][i]
        BY <1>6
      <3>4. x = new[key][i].seq
        BY <3>2, <3>3
      <3> QED BY <2>2, <3>3, <3>4, Zenon
    <2> QED BY <2>3, <2>4, <2>5
  <1> QED BY <1>5, <1>8, <1>9

\* The note opened first leaves its queue, and is nowhere else.
LEMMA ReleaseOne ==
  ASSUME NEW q, Asked(q), NEW k \in 0 .. Len(q.events), NEW open, OpenOK(q, open, k),
         NEW key \in Keys(q), open[key] # <<>>, NEW h, h = open[key][1],
         NEW new, IsReleased(open, key, new)
  PROVE  /\ OpenOK(q, new, k)
         /\ h.seq \in OpenSeqs(open) /\ OpenSeqs(new) = OpenSeqs(open) \ {h.seq}
         /\ h \in Past(q, k) /\ h \in NoteEvents /\ h.key = key
         /\ \A i \in DOMAIN new[key] : h.seq < new[key][i].seq
         /\ 1 \in DOMAIN open[key]
         /\ \A x \in Keys(q) : \A i \in DOMAIN new[x] :
               \E j \in DOMAIN open[x] : new[x][i] = open[x][j]
  <1>1. /\ open \in [Keys(q) -> Seq(NoteEvents)]
        /\ \A x \in Keys(q) : \A i \in DOMAIN open[x] :
              open[x][i].key = x /\ open[x][i] \in Past(q, k)
        /\ \A x \in Keys(q) : \A i, j \in DOMAIN open[x] :
              i < j => open[x][i].seq < open[x][j].seq
    BY DEF OpenOK
  <1> DEFINE Q == Tail(open[key])
             L == Len(open[key])
  <1>2. /\ Q \in Seq(NoteEvents) /\ L \in Nat \ {0} /\ Len(Q) = L - 1 /\ DOMAIN Q = 1 .. L - 1
        /\ DOMAIN open[key] = 1 .. L /\ h = open[key][1]
        /\ \A i \in 1 .. L - 1 : Q[i] = open[key][i + 1]
    <2>1. open[key] \in Seq(NoteEvents)
      BY <1>1
    <2> QED BY <2>1
  <1>3. new = [open EXCEPT ![key] = Q]
    BY DEF IsReleased
  <1> HIDE DEF Q
  <1>4. new \in [Keys(q) -> Seq(NoteEvents)] /\ new[key] = Q
        /\ \A x \in Keys(q) : x # key => new[x] = open[x]
    BY <1>1, <1>2, <1>3
  <1>5. 1 \in DOMAIN open[key] /\ h \in Past(q, k) /\ h.key = key
    BY <1>1, <1>2
  <1>6. h \in NoteEvents
    BY <1>5, PastLemma
  <1>7. ASSUME NEW i \in DOMAIN new[key]
        PROVE  i + 1 \in DOMAIN open[key] /\ 1 < i + 1 /\ new[key][i] = open[key][i + 1] /\ i \in Int
    BY <1>2, <1>4
  <1>8. ASSUME NEW x \in Keys(q), NEW i \in DOMAIN new[x]
        PROVE  \E j \in DOMAIN open[x] : new[x][i] = open[x][j] /\ (x = key => 1 < j)
    BY <1>4, <1>7
  <1>9. ASSUME NEW i \in DOMAIN new[key] PROVE h.seq < new[key][i].seq
    BY <1>1, <1>2, <1>5, <1>7
  <1>10. ASSUME NEW x \in Keys(q), NEW i \in DOMAIN new[x], NEW j \in DOMAIN new[x], i < j
         PROVE  new[x][i].seq < new[x][j].seq
    <2>1. CASE x = key
      <3>1. i + 1 \in DOMAIN open[key] /\ j + 1 \in DOMAIN open[key] /\ i + 1 < j + 1
        BY <1>7, <1>10, <2>1
      <3>2. new[key][i] = open[key][i + 1] /\ new[key][j] = open[key][j + 1]
        BY <1>7, <2>1
      <3> QED BY <1>1, <2>1, <3>1, <3>2
    <2>2. CASE x # key
      BY <1>1, <1>4, <1>10, <2>2
    <2> QED BY <2>1, <2>2
  <1>11. OpenOK(q, new, k)
    <2>1. \A x \in Keys(q) : \A i \in DOMAIN new[x] : new[x][i].key = x /\ new[x][i] \in Past(q, k)
      BY <1>1, <1>8
    <2> QED BY <1>4, <1>10, <2>1 DEF OpenOK
  <1>12. \A x : x \in OpenSeqs(open) <=>
               \E y \in Keys(q) : \E i \in DOMAIN open[y] : x = open[y][i].seq
    BY OpenIsPast
  <1>13. \A x : x \in OpenSeqs(new) <=>
               \E y \in Keys(q) : \E i \in DOMAIN new[y] : x = new[y][i].seq
    BY <1>11, OpenIsPast
  <1>14. h.seq \in OpenSeqs(open)
    BY <1>2, <1>5, <1>12
  <1>15. \A a, b \in Past(q, k) : a.seq = b.seq => a = b
    BY PastLemma
  <1>16. h.seq \notin OpenSeqs(new)
    <2>1. ASSUME NEW y \in Keys(q), NEW i \in DOMAIN new[y], h.seq = new[y][i].seq PROVE FALSE
      <3>1. new[y][i].key = y /\ new[y][i] \in Past(q, k)
        BY <1>11 DEF OpenOK
      <3>2. h = new[y][i]
        BY <1>5, <1>15, <2>1, <3>1
      <3>3. y = key
        BY <1>5, <3>1, <3>2
      <3>4. h.seq < new[key][i].seq
        BY <1>9, <3>3
      <3>5. h.seq \in Nat
        BY <1>6 DEF NoteEvents, EventValues
      <3> QED BY <2>1, <3>3, <3>4, <3>5
    <2> QED BY <1>13, <2>1
  <1>17. ASSUME NEW x \in OpenSeqs(new) PROVE x \in OpenSeqs(open)
    <2>1. PICK y \in Keys(q) : \E i \in DOMAIN new[y] : x = new[y][i].seq
      BY <1>13
    <2>2. PICK i \in DOMAIN new[y] : x = new[y][i].seq
      BY <2>1
    <2>3. PICK j \in DOMAIN open[y] : new[y][i] = open[y][j]
      BY <1>8
    <2> QED BY <1>12, <2>2, <2>3
  <1>18. ASSUME NEW x \in OpenSeqs(open), x # h.seq PROVE x \in OpenSeqs(new)
    <2>0. PICK y \in Keys(q) : \E i \in DOMAIN open[y] : x = open[y][i].seq
      BY <1>12
    <2>1. PICK i \in DOMAIN open[y] : x = open[y][i].seq
      BY <2>0
    <2>2. CASE y = key
      <3>1. i # 1
        BY <1>2, <1>18, <2>1, <2>2
      <3>2. i \in 1 .. L
        BY <1>2, <2>1, <2>2
      <3>3. PICK j : j = i - 1
        OBVIOUS
      <3>4. j \in 1 .. L - 1 /\ j + 1 = i
        BY <1>2, <3>1, <3>2, <3>3
      <3>5. Q[j] = open[key][i]
        BY <1>2, <3>4
      <3>6. j \in DOMAIN new[key] /\ new[key][j] = open[key][i]
        BY <1>2, <1>4, <3>4, <3>5
      <3> QED BY <1>13, <2>1, <2>2, <3>6
    <2>3. CASE y # key
      BY <1>4, <1>13, <2>1, <2>3
    <2> QED BY <2>2, <2>3
  <1>19. OpenSeqs(new) = OpenSeqs(open) \ {h.seq}
    BY <1>16, <1>17, <1>18
  <1> QED BY <1>2, <1>5, <1>6, <1>8, <1>9, <1>11, <1>14, <1>19

-----------------------------------------------------------------------------
(* One event *)

Used(notes) == {n.on : n \in notes} \cup {n.off : n \in notes}

\* Notes that are exact, of events of their own, released as they were struck.
Sound(q, notes) ==
    /\ notes \in SUBSET CanonicalNotes /\ IsFiniteSet(notes)
    /\ \A n \in notes : Exact(q, n) /\ n.on # n.off
    /\ \A m, n \in notes : m # n => {m.on, m.off} \cap {n.on, n.off} = {}
    /\ \A m, n \in notes : (m.key = n.key /\ m.on < n.on) => m.off < n.off

\* What is still open was struck after the notes of its key.
Behind(q, notes, open) ==
    \A key \in Keys(q) : \A n \in notes : n.key = key =>
        \A i \in DOMAIN open[key] : n.on < open[key][i].seq

\* Each of the first events is used, cited or open, and only one of them.
Shared(q, s, k) ==
    /\ Used(s.notes) \cap Cited(s.rejections) = {}
    /\ Used(s.notes) \cap OpenSeqs(s.open) = {}
    /\ Cited(s.rejections) \cap OpenSeqs(s.open) = {}
    /\ Used(s.notes) \cup Cited(s.rejections) \cup OpenSeqs(s.open) = PastSeqs(q, k)

ImportOK(q, s, k) ==
    /\ s = [open |-> s.open, notes |-> s.notes, rejections |-> s.rejections]
    /\ OpenOK(q, s.open, k)
    /\ Sound(q, s.notes)
    /\ s.rejections \in Seq(RejectionValues) /\ Apart(s.rejections) /\ Released(s.rejections)
    /\ Behind(q, s.notes, s.open)
    /\ Shared(q, s, k)

\* A note that is struck and released after those of its key.
Later(notes, n) == \A m \in notes : m.off < n.off /\ (m.key = n.key => m.on < n.on)

\* A note of events no other note is of.
Addable(q, notes, n) ==
    /\ n \in CanonicalNotes /\ Exact(q, n) /\ Later(notes, n)
    /\ n.on \notin Used(notes) /\ n.off \notin Used(notes) /\ n.on # n.off

IsAdded(notes, n, new) == new = notes \cup {n}

LEMMA OneMoreNote ==
  ASSUME NEW q, NEW notes, Sound(q, notes), NEW n, Addable(q, notes, n),
         NEW new, IsAdded(notes, n, new)
  PROVE  /\ Sound(q, new)
         /\ Used(new) = Used(notes) \cup {n.on, n.off}
  <1>0. /\ n \in CanonicalNotes /\ Exact(q, n) /\ Later(notes, n)
        /\ n.on \notin Used(notes) /\ n.off \notin Used(notes) /\ n.on # n.off
    BY DEF Addable
  <1>1. Used(notes \cup {n}) = Used(notes) \cup {n.on, n.off}
    BY DEF Used
  <1>2. \A m \in notes : m.on \in Used(notes) /\ m.off \in Used(notes)
    BY DEF Used
  <1>3. \A m \in notes : m.on \in Nat /\ m.off \in Nat
    BY DEF Sound, CanonicalNotes
  <1>4. n.on \in Nat /\ n.off \in Nat
    BY <1>0 DEF CanonicalNotes
  <1>5. notes \cup {n} \in SUBSET CanonicalNotes /\ IsFiniteSet(notes \cup {n})
    BY <1>0, FS_AddElement DEF Sound
  <1>6. \A m \in notes \cup {n} : Exact(q, m) /\ m.on # m.off
    BY <1>0 DEF Sound
  <1>7. ASSUME NEW m \in notes \cup {n}, NEW o \in notes \cup {n}, m # o
        PROVE  {m.on, m.off} \cap {o.on, o.off} = {}
    <2>1. CASE m = n
      BY <1>0, <1>2, <1>7, <2>1
    <2>2. CASE o = n
      BY <1>0, <1>2, <1>7, <2>2
    <2>3. CASE m \in notes /\ o \in notes
      BY <1>7, <2>3 DEF Sound
    <2> QED BY <2>1, <2>2, <2>3
  <1>8. ASSUME NEW m \in notes \cup {n}, NEW o \in notes \cup {n}, m.key = o.key, m.on < o.on
        PROVE  m.off < o.off
    <2>1. CASE m \in notes /\ o \in notes
      BY <1>8, <2>1 DEF Sound
    <2>2. CASE m = n /\ o \in notes
      BY <1>3, <1>4, <1>8, <2>2, <1>0 DEF Later
    <2>3. CASE o = n /\ m \in notes
      BY <1>8, <2>3, <1>0 DEF Later
    <2>4. CASE m = n /\ o = n
      BY <1>4, <1>8, <2>4
    <2> QED BY <2>1, <2>2, <2>3, <2>4
  <1>9. Sound(q, notes \cup {n})
    BY <1>5, <1>6, <1>7, <1>8 DEF Sound
  <1> QED BY <1>1, <1>9 DEF IsAdded

\* The three things an event can come to, of a state that accounts for those before.
IsRefused(s, e, reason, t) ==
    t = [s EXCEPT !.rejections = Append(@, Rejection(reason, {e.seq}))]

IsStruck(s, e, t) == t = [s EXCEPT !.open[e.key] = Append(@, e)]

LEMMA RejectStep ==
  ASSUME NEW q, Asked(q), NEW b, NEW k, NEW e, IsNext(q, b, k, e), NEW s, ImportOK(q, s, b),
         NEW reason, Ordinary(reason), NEW t, IsRefused(s, e, reason, t)
  PROVE  ImportOK(q, t, k)
  <1>0. PICK ids : ids = {e.seq}
    OBVIOUS
  <1>1. PICK rs : rs = Append(s.rejections, Rejection(reason, ids))
    OBVIOUS
  <1>2. t = [open |-> s.open, notes |-> s.notes, rejections |-> rs]
    BY <1>0, <1>1 DEF ImportOK, IsRefused
  <1>3. t.open = s.open /\ t.notes = s.notes /\ t.rejections = rs
    BY <1>2
  <1>4. /\ b \in 0 .. Len(q.events) /\ k \in 0 .. Len(q.events)
        /\ e \in NoteEvents /\ e.key \in Keys(q) /\ e.seq \in Nat
        /\ Past(q, k) = Past(q, b) \cup {e}
        /\ PastSeqs(q, k) = PastSeqs(q, b) \cup {e.seq}
        /\ \A y \in PastSeqs(q, b) : y \in Nat /\ y < e.seq
    BY NextEvent
  <1>5. e.seq \notin PastSeqs(q, b)
    BY <1>4
  <1>6. Fits(s.rejections, ids)
    BY <1>0, <1>4, <1>5 DEF ImportOK, Shared, Fits
  <1>7. rs \in Seq(RejectionValues) /\ Apart(rs) /\ Released(rs)
        /\ Cited(rs) = Cited(s.rejections) \cup {e.seq}
    <2>1. s.rejections \in Seq(RejectionValues) /\ Apart(s.rejections) /\ Released(s.rejections)
      BY DEF ImportOK
    <2>2. IsRejected(s.rejections, reason, ids, rs)
      BY <1>1 DEF IsRejected
    <2>3. Reason(reason)
      BY DEF Ordinary, Reason
    <2>4. rs \in Seq(RejectionValues) /\ Apart(rs) /\ Cited(rs) = Cited(s.rejections) \cup ids
      BY <1>6, <2>1, <2>2, <2>3, OneMoreRejection
    <2>5. Released(rs)
      BY <2>1, <2>2, StillReleased
    <2> QED BY <1>0, <2>1, <2>4, <2>5
  <1>8. OpenOK(q, s.open, k)
    BY <1>4 DEF ImportOK, OpenOK
  <1>9. Shared(q, t, k)
    <2>1. Shared(q, s, b)
      BY DEF ImportOK
    <2> QED BY <1>3, <1>4, <1>5, <1>7, <2>1 DEF Shared
  <1> QED BY <1>2, <1>3, <1>7, <1>8, <1>9 DEF ImportOK

LEMMA OpenStep ==
  ASSUME NEW q, Asked(q), NEW b, NEW k, NEW e, IsNext(q, b, k, e), NEW s, ImportOK(q, s, b),
         NEW t, IsStruck(s, e, t)
  PROVE  ImportOK(q, t, k) /\ IsOpened(s.open, e, t.open)
  <1>1. PICK open : open = [s.open EXCEPT ![e.key] = Append(@, e)]
    OBVIOUS
  <1>2. t = [open |-> open, notes |-> s.notes, rejections |-> s.rejections]
    BY <1>1 DEF ImportOK, IsStruck
  <1>3. t.open = open /\ t.notes = s.notes /\ t.rejections = s.rejections
    BY <1>2
  <1>4. /\ e \in NoteEvents /\ e.key \in Keys(q) /\ e.seq \in Nat
        /\ PastSeqs(q, k) = PastSeqs(q, b) \cup {e.seq}
        /\ \A y \in PastSeqs(q, b) : y \in Nat /\ y < e.seq
    BY NextEvent
  <1>5. e.seq \notin PastSeqs(q, b)
    BY <1>4
  <1>6. IsOpened(s.open, e, open) /\ OpenOK(q, s.open, b)
    BY <1>1 DEF IsOpened, ImportOK
  <1>7. /\ OpenOK(q, open, k)
        /\ OpenSeqs(open) = OpenSeqs(s.open) \cup {e.seq}
        /\ \A key \in Keys(q) : \A i \in DOMAIN open[key] :
               open[key][i] = e \/ (i \in DOMAIN s.open[key] /\ open[key][i] = s.open[key][i])
    BY <1>6, OpenOne
  <1>8. Behind(q, s.notes, open)
    <2>1. ASSUME NEW key \in Keys(q), NEW n \in s.notes, n.key = key, NEW i \in DOMAIN open[key]
          PROVE  n.on < open[key][i].seq
      <3>1. CASE open[key][i] = e
        <4>1. n.on \in PastSeqs(q, b)
          BY DEF ImportOK, Shared, Used
        <4> QED BY <1>4, <3>1, <4>1
      <3>2. CASE i \in DOMAIN s.open[key] /\ open[key][i] = s.open[key][i]
        BY <2>1, <3>2 DEF ImportOK, Behind
      <3> QED BY <1>7, <3>1, <3>2
    <2> QED BY <2>1 DEF Behind
  <1>9. Shared(q, t, k)
    <2>1. Shared(q, s, b)
      BY DEF ImportOK
    <2>2. PICK U, C : U = Used(s.notes) /\ C = Cited(s.rejections)
      OBVIOUS
    <2>3. /\ U \cap C = {} /\ U \cap OpenSeqs(s.open) = {} /\ C \cap OpenSeqs(s.open) = {}
          /\ U \cup C \cup OpenSeqs(s.open) = PastSeqs(q, b)
      BY <2>1, <2>2 DEF Shared
    <2>4. e.seq \notin U /\ e.seq \notin C
      BY <1>5, <2>3
    <2>5. /\ U \cap OpenSeqs(open) = {} /\ C \cap OpenSeqs(open) = {}
          /\ U \cup C \cup OpenSeqs(open) = PastSeqs(q, k)
      BY <1>4, <1>7, <2>3, <2>4
    <2> QED BY <1>3, <2>2, <2>3, <2>5 DEF Shared
  <1>10. ImportOK(q, t, k)
    BY <1>2, <1>3, <1>7, <1>8, <1>9 DEF ImportOK
  <1> QED BY <1>3, <1>6, <1>10

LEMMA PairStep ==
  ASSUME NEW q, Asked(q), NEW b, NEW k, NEW e, IsNext(q, b, k, e), NEW s, ImportOK(q, s, b),
         s.open[e.key] # <<>>, NEW t, t = PairRelease(q, s, e)
  PROVE  ImportOK(q, t, k) /\ IsReleased(s.open, e.key, t.open)
  <1>1. PICK open : open = [s.open EXCEPT ![e.key] = Tail(@)]
    OBVIOUS
  <1>2. PICK h : h = s.open[e.key][1]
    OBVIOUS
  <1>3. PICK n : n = ConvertNote(q, h, e)
    OBVIOUS
  <1>4. /\ b \in 0 .. Len(q.events) /\ k \in 0 .. Len(q.events)
        /\ e \in NoteEvents /\ e.key \in Keys(q) /\ e.seq \in Nat
        /\ Past(q, k) = Past(q, b) \cup {e}
        /\ PastSeqs(q, k) = PastSeqs(q, b) \cup {e.seq}
        /\ \A y \in PastSeqs(q, b) : y \in Nat /\ y < e.seq
    BY NextEvent
  <1>5. e.seq \notin PastSeqs(q, b)
    BY <1>4
  <1>6. IsReleased(s.open, e.key, open) /\ OpenOK(q, s.open, b)
    BY <1>1 DEF IsReleased, ImportOK
  <1>7. /\ OpenOK(q, open, b)
        /\ h.seq \in OpenSeqs(s.open) /\ OpenSeqs(open) = OpenSeqs(s.open) \ {h.seq}
        /\ h \in NoteEvents /\ h.key = e.key
        /\ \A i \in DOMAIN open[e.key] : h.seq < open[e.key][i].seq
        /\ 1 \in DOMAIN s.open[e.key]
        /\ \A x \in Keys(q) : \A i \in DOMAIN open[x] :
               \E j \in DOMAIN s.open[x] : open[x][i] = s.open[x][j]
    BY <1>2, <1>4, <1>6, ReleaseOne
  <1>8. Head(s.open[e.key]) = h
    BY <1>2
  <1>9. OpenOK(q, open, k)
    BY <1>4, <1>7 DEF OpenOK
  <1>10. h.seq \in PastSeqs(q, b) /\ h.seq # e.seq /\ h.seq \in Nat
    <2>1. h.seq \in PastSeqs(q, b)
      BY <1>7 DEF ImportOK, Shared
    <2> QED BY <1>4, <1>5, <2>1
  <1>11. \A m \in s.notes : m.key = e.key => m.on < h.seq
    BY <1>2, <1>4, <1>7 DEF ImportOK, Behind
  <1>12. Behind(q, s.notes, open)
    <2>1. ASSUME NEW key \in Keys(q), NEW m \in s.notes, m.key = key, NEW i \in DOMAIN open[key]
          PROVE  m.on < open[key][i].seq
      <3>1. PICK j \in DOMAIN s.open[key] : open[key][i] = s.open[key][j]
        BY <1>7
      <3> QED BY <2>1, <3>1 DEF ImportOK, Behind
    <2> QED BY <2>1 DEF Behind
  <1>13. CASE ConvertibleDuration(h.at, e.at, TicksPerQuarter, q.mpq)
    <2>0. PICK notes : notes = s.notes \cup {n}
      OBVIOUS
    <2>1. t = [open |-> open, notes |-> notes, rejections |-> s.rejections]
      <3>1. t = [[s EXCEPT !.open[e.key] = Tail(@)] EXCEPT !.notes = @ \cup {n}]
        BY <1>3, <1>8, <1>13 DEF PairRelease
      <3>2. [s EXCEPT !.open[e.key] = Tail(@)] =
               [open |-> open, notes |-> s.notes, rejections |-> s.rejections]
        BY <1>1 DEF ImportOK
      <3> QED BY <2>0, <3>1, <3>2
    <2>2. t.open = open /\ t.notes = notes /\ t.rejections = s.rejections
      BY <2>1
    <2>3. /\ n \in CanonicalNotes /\ n.on = h.seq /\ n.off = e.seq /\ n.key = h.key
          /\ Exact(q, n)
      BY <1>3, <1>4, <1>7, <1>13, Converted DEF Asked
    <2>4. Later(s.notes, n)
      <3>1. \A m \in s.notes : m.off \in PastSeqs(q, b)
        BY DEF ImportOK, Shared, Used
      <3> QED BY <1>4, <1>7, <1>11, <2>3, <3>1 DEF Later
    <2>5. n.on \notin Used(s.notes) /\ n.off \notin Used(s.notes) /\ n.on # n.off
      BY <1>5, <1>7, <1>10, <2>3 DEF ImportOK, Shared
    <2>6. Sound(q, notes) /\ Used(notes) = Used(s.notes) \cup {h.seq, e.seq}
      <3>1. Sound(q, s.notes)
        BY DEF ImportOK
      <3>2. Addable(q, s.notes, n) /\ IsAdded(s.notes, n, notes)
        BY <2>0, <2>3, <2>4, <2>5 DEF Addable, IsAdded
      <3>3. Sound(q, notes) /\ Used(notes) = Used(s.notes) \cup {n.on, n.off}
        BY <3>1, <3>2, OneMoreNote
      <3> QED BY <2>3, <3>3
    <2>7. Behind(q, notes, open)
      <3>1. ASSUME NEW key \in Keys(q), NEW m \in notes, m.key = key, NEW i \in DOMAIN open[key]
            PROVE  m.on < open[key][i].seq
        <4>1. CASE m \in s.notes
          BY <1>12, <3>1, <4>1 DEF Behind
        <4>2. CASE m = n
          BY <1>7, <2>3, <3>1, <4>2
        <4> QED BY <2>0, <4>1, <4>2
      <3> QED BY <3>1 DEF Behind
    <2>8. Shared(q, t, k)
      BY <1>4, <1>5, <1>7, <1>10, <2>2, <2>6 DEF ImportOK, Shared
    <2>9. ImportOK(q, t, k)
      BY <1>9, <2>1, <2>2, <2>6, <2>7, <2>8 DEF ImportOK
    <2> QED BY <1>6, <2>2, <2>9
  <1>14. CASE ~ ConvertibleDuration(h.at, e.at, TicksPerQuarter, q.mpq)
    <2>0. PICK ids : ids = {h.seq, e.seq}
      OBVIOUS
    <2>1. PICK rs : rs = Append(s.rejections, Rejection("DURATION_BELOW_ONE_TICK", ids))
      OBVIOUS
    <2>2. t = [open |-> open, notes |-> s.notes, rejections |-> rs]
      <3>1. t = [[s EXCEPT !.open[e.key] = Tail(@)] EXCEPT !.rejections =
                    Append(@, Rejection("DURATION_BELOW_ONE_TICK", ids))]
        BY <1>8, <1>14, <2>0 DEF PairRelease
      <3>2. [s EXCEPT !.open[e.key] = Tail(@)] =
               [open |-> open, notes |-> s.notes, rejections |-> s.rejections]
        BY <1>1 DEF ImportOK
      <3> QED BY <2>1, <3>1, <3>2
    <2>3. t.open = open /\ t.notes = s.notes /\ t.rejections = rs
      BY <2>2
    <2>4. Fits(s.rejections, ids)
      BY <1>4, <1>5, <1>7, <1>10, <2>0 DEF ImportOK, Shared, Fits
    <2>5. rs \in Seq(RejectionValues) /\ Apart(rs) /\ Released(rs)
          /\ Cited(rs) = Cited(s.rejections) \cup ids
      <3>1. s.rejections \in Seq(RejectionValues) /\ Apart(s.rejections) /\ Released(s.rejections)
        BY DEF ImportOK
      <3>2. IsRejected(s.rejections, "DURATION_BELOW_ONE_TICK", ids, rs)
        BY <2>1 DEF IsRejected
      <3>3. PICK reason : reason = "DURATION_BELOW_ONE_TICK"
        OBVIOUS
      <3>4. Reason(reason) /\ Ordinary(reason) /\ IsRejected(s.rejections, reason, ids, rs)
        BY <3>2, <3>3 DEF Reason, Ordinary, Reasons
      <3>5. rs \in Seq(RejectionValues) /\ Apart(rs) /\ Cited(rs) = Cited(s.rejections) \cup ids
        BY <2>4, <3>1, <3>4, OneMoreRejection
      <3>6. Released(rs)
        BY <3>1, <3>4, StillReleased
      <3> QED BY <3>5, <3>6
    <2>6. Shared(q, t, k)
      BY <1>4, <1>5, <1>7, <1>10, <2>0, <2>3, <2>5 DEF ImportOK, Shared
    <2>7. ImportOK(q, t, k)
      BY <1>9, <1>12, <2>2, <2>3, <2>5, <2>6 DEF ImportOK
    <2> QED BY <1>6, <2>3, <2>7
  <1> QED BY <1>13, <1>14

LEMMA ImportStep ==
  ASSUME NEW q, Asked(q), NEW b, NEW k, NEW e, IsNext(q, b, k, e), NEW s, ImportOK(q, s, b)
  PROVE  ImportOK(q, ImportEvent(q, s, e), k)
  <1>1. CASE e.at < q.origin
    <2>0. PICK reason : reason = "EVENT_BEFORE_CAPTURE_ORIGIN"
      OBVIOUS
    <2>1. IsRefused(s, e, reason, ImportEvent(q, s, e))
      BY <1>1, <2>0, Zenon DEF ImportEvent, IsRefused
    <2>2. Ordinary(reason)
      BY <2>0 DEF Ordinary, Reasons
    <2> QED BY <2>1, <2>2, RejectStep
  <1>2. CASE ~ (e.at < q.origin) /\ ~Releases(e)
    <2>1. IsStruck(s, e, ImportEvent(q, s, e))
      BY <1>2, Zenon DEF ImportEvent, IsStruck
    <2> QED BY <2>1, OpenStep
  <1>3. CASE ~ (e.at < q.origin) /\ Releases(e) /\ s.open[e.key] = <<>>
    <2>0. PICK reason : reason = "UNMATCHED_NOTE_OFF"
      OBVIOUS
    <2>1. IsRefused(s, e, reason, ImportEvent(q, s, e))
      BY <1>3, <2>0, Zenon DEF ImportEvent, IsRefused
    <2>2. Ordinary(reason)
      BY <2>0 DEF Ordinary, Reasons
    <2> QED BY <2>1, <2>2, RejectStep
  <1>4. CASE ~ (e.at < q.origin) /\ Releases(e) /\ s.open[e.key] # <<>>
    <2>1. ImportEvent(q, s, e) = PairRelease(q, s, e)
      BY <1>4, Zenon DEF ImportEvent
    <2> QED BY <1>4, <2>1, PairStep
  <1> QED BY <1>1, <1>2, <1>3, <1>4

-----------------------------------------------------------------------------
(* All the events *)

LEMMA NothingStep ==
  ASSUME NEW q, Asked(q)
  PROVE  ImportOK(q, NothingImported(q), 0)
  <1>1. PICK open : open = [x \in Keys(q) |-> <<>>]
    OBVIOUS
  <1>2. PICK s : s = NothingImported(q)
    OBVIOUS
  <1>3. s = [open |-> open, notes |-> {}, rejections |-> <<>>]
    BY <1>1, <1>2, Zenon DEF NothingImported, Keys
  <1>4. s.open = open /\ s.notes = {} /\ s.rejections = <<>>
    BY <1>3
  <1>5. open \in [Keys(q) -> Seq(NoteEvents)] /\ \A x \in Keys(q) : open[x] = <<>>
    BY <1>1
  <1>6. \A x \in Keys(q) : DOMAIN open[x] = {}
    BY <1>5
  <1>7. OpenOK(q, open, 0)
    BY <1>5, <1>6 DEF OpenOK
  <1>8. OpenSeqs(open) = {} /\ PastSeqs(q, 0) = {}
    <2>1. \A x : x \notin OpenSeqs(open)
      BY <1>5, <1>6 DEF OpenSeqs
    <2>2. \A i \in 1 .. 0 : FALSE
      OBVIOUS
    <2>3. \A x : x \notin PastSeqs(q, 0)
      BY <2>2 DEF PastSeqs
    <2> QED BY <2>1, <2>3
  <1>9. Used({}) = {} /\ Sound(q, {})
    BY FS_EmptySet DEF Used, Sound
  <1>10. PICK rs : rs = <<>>
    OBVIOUS
  <1>11. rs \in Seq(RejectionValues) /\ DOMAIN rs = {}
    BY <1>10
  <1>12. Apart(rs) /\ Released(rs) /\ Cited(rs) = {}
    BY <1>11 DEF Apart, Released, Cited
  <1>13. Behind(q, s.notes, s.open)
    BY <1>4 DEF Behind
  <1>14. Shared(q, s, 0)
    BY <1>4, <1>8, <1>9, <1>10, <1>12 DEF Shared
  <1>15. ImportOK(q, s, 0)
    BY <1>3, <1>4, <1>7, <1>9, <1>10, <1>11, <1>12, <1>13, <1>14 DEF ImportOK
  <1> QED BY <1>2, <1>15

LEMMA ImportedEach ==
  ASSUME NEW q, Asked(q), NEW g, ImportRun(q, g, Len(q.events))
  PROVE  \A n \in 0 .. Len(q.events) : ImportOK(q, g[n], n)
  <1>0. Len(q.events) \in Nat
    BY DEF Asked
  <1> DEFINE S == {n \in Nat : n <= Len(q.events) => ImportOK(q, g[n], n)}
  <1>2. \A n \in 0 .. Len(q.events) :
            g[n] = IF n = 0 THEN NothingImported(q) ELSE ImportEvent(q, g[n - 1], q.events[n])
    BY Zenon DEF ImportRun
  <1>3. 0 \in S
    <2>1. g[0] = NothingImported(q)
      BY <1>0, <1>2
    <2> QED BY <2>1, NothingStep
  <1>4. ASSUME NEW n \in Nat, n \in S PROVE n + 1 \in S
    <2>1. CASE n + 1 <= Len(q.events)
      <3>1. PICK k : k = n + 1
        OBVIOUS
      <3>2. k \in 1 .. Len(q.events) /\ n = k - 1 /\ n <= Len(q.events) /\ k # 0
            /\ k \in 0 .. Len(q.events)
        BY <1>0, <2>1, <3>1
      <3>3. PICK e : e = q.events[k]
        OBVIOUS
      <3>4. IsNext(q, n, k, e)
        BY <3>2, <3>3 DEF IsNext
      <3>5. ImportOK(q, g[n], n)
        BY <1>4, <3>2
      <3>6. ImportOK(q, ImportEvent(q, g[n], e), k)
        BY <3>4, <3>5, ImportStep
      <3>7. g[k] = ImportEvent(q, g[k - 1], q.events[k])
        BY <1>2, <3>2
      <3>8. g[k] = ImportEvent(q, g[n], e)
        BY <3>2, <3>3, <3>7
      <3> QED BY <3>1, <3>6, <3>8
    <2>2. CASE ~ (n + 1 <= Len(q.events))
      BY <2>2
    <2> QED BY <2>1, <2>2
  <1>5. Nat \subseteq S
    <2> HIDE DEF S
    <2> QED BY <1>3, <1>4, SetInduction
  <1> QED BY <1>0, <1>5

LEMMA ImportedAll ==
  ASSUME NEW q, Asked(q)
  PROVE  ImportOK(q, ImportAll(q), Len(q.events))
  <1>0. q.events \in Seq(EventValues) /\ Len(q.events) \in Nat
    BY DEF Asked, NoteEvents
  <1>1. PICK g : ImportRun(q, g, Len(q.events)) /\ ImportAll(q) = g[Len(q.events)]
    BY <1>0, ImportRuns DEF Asked
  <1>2. \A n \in 0 .. Len(q.events) : ImportOK(q, g[n], n)
    BY <1>1, ImportedEach
  <1> QED BY <1>0, <1>1, <1>2

-----------------------------------------------------------------------------
(* Counting *)

\* What is cited once is counted once.
LEMMA CitedCounted ==
  ASSUME NEW rs \in Seq(RejectionValues), Apart(rs), IsFiniteSet(Cited(rs))
  PROVE  RejectedCount(rs) = Cardinality(Cited(rs))
  <1> DEFINE T == UNION {{i} \X rs[i].ids : i \in DOMAIN rs}
             C == Cited(rs)
  <1>1. \A p : p \in T <=> \E i \in DOMAIN rs : \E x \in rs[i].ids : p = <<i, x>>
    OBVIOUS
  <1>2. \A x : x \in C <=> \E i \in DOMAIN rs : x \in rs[i].ids
    BY DEF Cited
  <1>3. RejectedCount(rs) = Cardinality(T)
    BY DEF RejectedCount
  <1> HIDE DEF T, C
  <1> DEFINE f == [p \in T |-> p[2]]
  <1>4. f \in [T -> C]
    <2>1. ASSUME NEW p \in T PROVE p[2] \in C
      BY <1>1, <1>2
    <2> QED BY <2>1
  <1>5. ASSUME NEW a \in T, NEW b \in T, f[a] = f[b] PROVE a = b
    <2>1. PICK i \in DOMAIN rs : \E x \in rs[i].ids : a = <<i, x>>
      BY <1>1
    <2>2. PICK x \in rs[i].ids : a = <<i, x>>
      BY <2>1
    <2>3. PICK j \in DOMAIN rs : \E y \in rs[j].ids : b = <<j, y>>
      BY <1>1
    <2>4. PICK y \in rs[j].ids : b = <<j, y>>
      BY <2>3
    <2>5. x = y
      BY <1>5, <2>2, <2>4
    <2>6. i = j
      BY <2>2, <2>4, <2>5 DEF Apart
    <2> QED BY <2>2, <2>4, <2>5, <2>6
  <1>6. ASSUME NEW x \in C PROVE \E p \in T : f[p] = x
    <2>1. PICK i \in DOMAIN rs : x \in rs[i].ids
      BY <1>2
    <2>2. <<i, x>> \in T
      BY <1>1, <2>1
    <2> QED BY <2>2
  <1>7. f \in Bijection(T, C)
    <2> HIDE DEF f
    <2> QED BY <1>4, <1>5, <1>6, Fun_IsBij
  <1>8. IsFiniteSet(C)
    BY DEF C
  <1>9. f \in Injection(T, C) /\ f \in Surjection(T, C)
    BY <1>7 DEF Bijection
  <1>10. Cardinality(T) = Cardinality(C)
    <2> HIDE DEF f
    <2> QED BY <1>8, <1>9, FS_Injection
  <1> QED BY <1>3, <1>10 DEF C

\* A note counts two events.
LEMMA NotesCounted ==
  ASSUME NEW q, NEW notes, Sound(q, notes)
  PROVE  /\ IsFiniteSet(notes) /\ Cardinality(notes) \in Nat
         /\ IsFiniteSet(Used(notes)) /\ Cardinality(Used(notes)) = 2 * Cardinality(notes)
  <1> DEFINE A == {n.on : n \in notes}
             B == {n.off : n \in notes}
             f == [n \in notes |-> n.on]
             g == [n \in notes |-> n.off]
  <1>1. IsFiniteSet(notes) /\ Cardinality(notes) \in Nat
    BY FS_CardinalityType DEF Sound
  <1>2. ASSUME NEW m \in notes, NEW n \in notes, m.on = n.on \/ m.off = n.off PROVE m = n
    BY <1>2 DEF Sound
  <1>3. ASSUME NEW m \in notes, NEW n \in notes PROVE m.on # n.off
    BY DEF Sound
  <1>4. A \cap B = {}
    BY <1>3
  <1>5. /\ f \in [notes -> A] /\ \A a, b \in notes : f[a] = f[b] => a = b
        /\ \A t \in A : \E n \in notes : f[n] = t
    BY <1>2
  <1>6. /\ g \in [notes -> B] /\ \A a, b \in notes : g[a] = g[b] => a = b
        /\ \A t \in B : \E n \in notes : g[n] = t
    BY <1>2
  <1>7. Used(notes) = A \cup B
    BY DEF Used
  <1> HIDE DEF A, B, f, g
  <1>8. f \in Bijection(notes, A) /\ g \in Bijection(notes, B)
    BY <1>5, <1>6, Fun_IsBij
  <1>9. ExistsBijection(notes, A) /\ ExistsBijection(notes, B)
    BY <1>8 DEF ExistsBijection
  <1>10. /\ IsFiniteSet(A) /\ Cardinality(A) = Cardinality(notes)
         /\ IsFiniteSet(B) /\ Cardinality(B) = Cardinality(notes)
    BY <1>1, <1>9, FS_Bijection
  <1>11. /\ IsFiniteSet(A \cup B)
         /\ Cardinality(A \cup B) = Cardinality(A) + Cardinality(B) - Cardinality(A \cap B)
    BY <1>10, FS_Union
  <1>12. Cardinality({}) = 0
    BY FS_EmptySet
  <1>13. Cardinality(A \cap B) = 0
    BY <1>4, <1>12, Zenon
  <1>14. PICK k : k = Cardinality(notes)
    OBVIOUS
  <1>15. Cardinality(A \cup B) = k + k - 0
    BY <1>10, <1>11, <1>13, <1>14, Zenon
  <1>16. k + k - 0 = 2 * k
    BY <1>1, <1>14
  <1>17. Cardinality(Used(notes)) = 2 * Cardinality(notes) /\ IsFiniteSet(Used(notes))
    BY <1>7, <1>11, <1>14, <1>15, <1>16, Zenon
  <1> QED BY <1>1, <1>17

\* What an import says of the events of a request.
Outcome(q, notes, rs) ==
    /\ Sound(q, notes)
    /\ rs \in Seq(RejectionValues) /\ Apart(rs)
    /\ Used(notes) \cap Cited(rs) = {}
    /\ Used(notes) \cup Cited(rs) = PastSeqs(q, Len(q.events))

\* The notes that the last rejection of an outcome says were never released.
NeverReleased(rs) == UNION {rs[i].ids : i \in {j \in DOMAIN rs : rs[j].reason = "UNMATCHED_NOTE_ON"}}

LEMMA Imported ==
  ASSUME NEW q, Asked(q), NEW s, s = ImportAll(q), NEW rs,
         rs = ImportDirectEvents(q).rejections
  PROVE  /\ ImportOK(q, s, Len(q.events))
         /\ ImportDirectEvents(q).notes = s.notes
         /\ Outcome(q, s.notes, rs)
         /\ NeverReleased(rs) = OpenSeqs(s.open)
  <1>0. ImportOK(q, s, Len(q.events)) /\ Len(q.events) \in Nat
    BY ImportedAll DEF Asked
  <1>1. PICK still : still = OpenSeqs(s.open)
    OBVIOUS
  <1>2. still = StillOpen(s)
    BY <1>1, Zenon DEF StillOpen, OpenSeqs
  <1>3. PICK last : last = IF still = {} THEN <<>> ELSE <<Rejection("UNMATCHED_NOTE_ON", still)>>
    OBVIOUS
  <1>4. rs = s.rejections \o last /\ ImportDirectEvents(q).notes = s.notes
    BY <1>2, <1>3 DEF ImportDirectEvents
  <1>5. /\ Sound(q, s.notes) /\ OpenOK(q, s.open, Len(q.events))
        /\ s.rejections \in Seq(RejectionValues) /\ Apart(s.rejections) /\ Released(s.rejections)
        /\ Shared(q, s, Len(q.events))
    BY <1>0 DEF ImportOK
  <1>6. \A i \in DOMAIN s.rejections : s.rejections[i].reason # "UNMATCHED_NOTE_ON"
    BY <1>5 DEF Released
  <1>7. PICK before : before = s.rejections
    OBVIOUS
  <1>8. CASE still = {}
    <2>1. rs = before
      BY <1>3, <1>4, <1>5, <1>7, <1>8
    <2>2. Outcome(q, s.notes, rs)
      BY <1>1, <1>5, <1>7, <1>8, <2>1 DEF Outcome, Shared
    <2>3. NeverReleased(rs) = {}
      BY <1>6, <1>7, <2>1 DEF NeverReleased
    <2> QED BY <1>0, <1>1, <1>4, <1>8, <2>2, <2>3
  <1>9. CASE still # {}
    <2>0. PICK reason : reason = "UNMATCHED_NOTE_ON"
      OBVIOUS
    <2>1. PICK r : r = Rejection(reason, still)
      OBVIOUS
    <2>2. last = <<r>>
      BY <1>3, <1>9, <2>0, <2>1, Zenon
    <2>3. before \in Seq(RejectionValues)
      BY <1>5, <1>7
    <2>4. \A x \in still : x \in Nat
      <3>1. \A y \in PastSeqs(q, Len(q.events)) : y \in Nat
        BY <1>0, PastLemma
      <3> QED BY <1>1, <1>5, <3>1 DEF Shared
    <2>5. r \in RejectionValues /\ r.reason = reason /\ r.ids = still
      <3>1. still \in SUBSET Nat /\ reason \in Reasons
        BY <2>0, <2>4 DEF Reasons
      <3> QED BY <2>1, <3>1 DEF Rejection, RejectionValues
    <2>6. rs = Append(before, r)
      BY <1>4, <1>7, <2>2, <2>3, <2>5
    <2>7. IsRejected(before, reason, still, rs) /\ Reason(reason) /\ Fits(before, still)
      BY <1>1, <1>5, <1>7, <2>0, <2>1, <2>4, <2>6 DEF IsRejected, Reason, Reasons, Fits, Shared
    <2>8. rs \in Seq(RejectionValues) /\ Apart(rs) /\ Cited(rs) = Cited(before) \cup still
      BY <1>5, <1>7, <2>3, <2>7, OneMoreRejection
    <2>9. Outcome(q, s.notes, rs)
      <3>1. PICK U, C : U = Used(s.notes) /\ C = Cited(before)
        OBVIOUS
      <3>2. /\ U \cap C = {} /\ U \cap still = {} /\ C \cap still = {}
            /\ U \cup C \cup still = PastSeqs(q, Len(q.events))
        BY <1>1, <1>5, <1>7, <3>1 DEF Shared
      <3>3. U \cap (C \cup still) = {} /\ U \cup (C \cup still) = PastSeqs(q, Len(q.events))
        BY <3>2
      <3> QED BY <1>5, <2>8, <3>1, <3>3 DEF Outcome
    <2>10. NeverReleased(rs) = still
      <3> DEFINE L == Len(before)
      <3>1. L \in Nat /\ DOMAIN rs = 1 .. L + 1 /\ DOMAIN before = 1 .. L
            /\ rs[L + 1] = r /\ \A i \in 1 .. L : rs[i] = before[i]
        BY <2>3, <2>6
      <3>2. \A i \in DOMAIN rs : i = L + 1 \/ i \in 1 .. L
        BY <3>1
      <3>3. \A i \in 1 .. L : rs[i].reason # "UNMATCHED_NOTE_ON"
        BY <1>6, <1>7, <3>1
      <3>4. L + 1 \in DOMAIN rs /\ rs[L + 1].reason = "UNMATCHED_NOTE_ON" /\ rs[L + 1].ids = still
        BY <2>0, <2>5, <3>1
      <3>5. ASSUME NEW x
            PROVE  x \in NeverReleased(rs) <=>
                   \E i \in DOMAIN rs : rs[i].reason = "UNMATCHED_NOTE_ON" /\ x \in rs[i].ids
        BY DEF NeverReleased
      <3> HIDE DEF L
      <3>6. ASSUME NEW x PROVE x \in NeverReleased(rs) <=> x \in still
        BY <3>2, <3>3, <3>4, <3>5
      <3> QED BY <3>6
    <2> QED BY <1>0, <1>1, <1>4, <2>9, <2>10
  <1> QED BY <1>8, <1>9

LEMMA EventsCounted ==
  ASSUME NEW q, Asked(q), NEW all, all = PastSeqs(q, Len(q.events))
  PROVE  IsFiniteSet(all) /\ all = {q.events[i].seq : i \in DOMAIN q.events}
  <1> DEFINE L == Len(q.events)
             f == [i \in 1 .. L |-> q.events[i].seq]
  <1>1. L \in Nat /\ DOMAIN q.events = 1 .. L
    BY DEF Asked
  <1>2. f \in [1 .. L -> all] /\ \A t \in all : \E i \in 1 .. L : f[i] = t
    BY DEF PastSeqs
  <1>3. f \in Surjection(1 .. L, all)
    BY <1>2, Zenon DEF Surjection
  <1>4. IsFiniteSet(1 .. L)
    BY <1>1, FS_Interval
  <1>5. IsFiniteSet(all)
    <2> HIDE DEF f, L
    <2> QED BY <1>3, <1>4, FS_Surjection
  <1> QED BY <1>1, <1>5 DEF PastSeqs

LEMMA RequestIsSound ==
  ASSUME NEW q, Asked(q)
  PROVE  RequestContract(q)
  <1>1. \A i \in DOMAIN q.events : q.events[i].seq \in Nat /\ i \in Int
    <2>1. q.events \in Seq(NoteEvents)
      BY DEF Asked
    <2>2. \A i \in DOMAIN q.events : q.events[i] \in NoteEvents /\ i \in Int
      BY <2>1
    <2> QED BY <2>2 DEF NoteEvents, EventValues
  <1>2. ASSUME NEW i \in DOMAIN q.events, NEW j \in DOMAIN q.events, i # j
        PROVE  q.events[i].seq # q.events[j].seq
    <2>1. i < j \/ j < i
      BY <1>1, <1>2
    <2>2. i < j => q.events[i].seq < q.events[j].seq
      BY DEF Asked, Ordered
    <2>3. j < i => q.events[j].seq < q.events[i].seq
      BY DEF Asked, Ordered
    <2> QED BY <1>1, <2>1, <2>2, <2>3
  <1> QED BY <1>2 DEF RequestContract, Asked

LEMMA RefusalIsSound ==
  ASSUME NEW q, NEW rs, rs \in Seq(RejectionValues), IsFiniteSet(Cited(rs))
  PROVE  ResultContract(Rejected(q, rs))
  <1>1. PICK why : why = IF rs # <<>> THEN rs ELSE <<Rejection("NO_CONVERTIBLE_EVENTS", {})>>
    OBVIOUS
  <1>2. PICK r : r = Rejected(q, rs)
    OBVIOUS
  <1>3. r = [request |-> q.id, status |-> "REJECTED", revision |-> NoRevision,
             created |-> FALSE, accepted |-> 0, rejected |-> Cardinality(Cited(why)),
             rejections |-> why]
    BY <1>1, <1>2, Zenon DEF Rejected
  <1>4. why # <<>>
    BY <1>1
  <1>5. IsFiniteSet(Cited(why))
    <2>1. CASE rs # <<>>
      BY <1>1, <2>1, Zenon
    <2>2. CASE rs = <<>>
      <3>1. why = <<Rejection("NO_CONVERTIBLE_EVENTS", {})>>
        BY <1>1, <2>2
      <3>2. Cited(why) = {}
        BY <3>1 DEF Cited, Rejection
      <3> QED BY <3>2, FS_EmptySet, Zenon
    <2> QED BY <2>1, <2>2
  <1>6. Cardinality(Cited(why)) \in Nat
    BY <1>5, FS_CardinalityType
  <1>7. r.status = "REJECTED" /\ r.revision = NoRevision /\ r.rejections = why
        /\ r.rejected = Cardinality(Cited(why))
    BY <1>3
  <1> QED BY <1>2, <1>4, <1>6, <1>7 DEF ResultContract

LEMMA AcceptanceIsSound ==
  ASSUME NEW q, NEW out, NEW rev, rev # NoRevision,
         RejectedCount(out.rejections) = Cardinality(Cited(out.rejections)),
         Cardinality(Cited(out.rejections)) \in Nat
  PROVE  ResultContract(Accepted(q, out, rev)) /\ ResultContract(AsDuplicate(Accepted(q, out, rev)))
  <1>1. PICK r : r = Accepted(q, out, rev)
    OBVIOUS
  <1>2. PICK status : status = IF out.rejections = <<>> THEN "ACCEPTED" ELSE "ACCEPTED_WITH_REJECTIONS"
    OBVIOUS
  <1>3. r = [request |-> q.id, status |-> status, revision |-> rev, created |-> TRUE,
             accepted |-> Cardinality(out.notes), rejected |-> RejectedCount(out.rejections),
             rejections |-> out.rejections]
    BY <1>1, <1>2, Zenon DEF Accepted
  <1>4. PICK d : d = AsDuplicate(r)
    OBVIOUS
  <1>5. d = [request |-> q.id, status |-> "DUPLICATE", revision |-> rev, created |-> FALSE,
             accepted |-> Cardinality(out.notes), rejected |-> RejectedCount(out.rejections),
             rejections |-> out.rejections]
    BY <1>3, <1>4 DEF AsDuplicate
  <1>6. r.status = status /\ r.revision = rev /\ r.rejections = out.rejections
        /\ r.rejected = RejectedCount(out.rejections)
    BY <1>3
  <1>7. d.status = "DUPLICATE" /\ d.revision = rev /\ d.rejections = out.rejections
        /\ d.rejected = RejectedCount(out.rejections) /\ d.created = FALSE
    BY <1>5
  <1>8. ResultContract(r)
    BY <1>2, <1>6 DEF ResultContract
  <1>9. ResultContract(d)
    BY <1>7 DEF ResultContract
  <1> QED BY <1>1, <1>4, <1>8, <1>9

LEMMA RevisionIsOne ==
  ASSUME NEW q, Asked(q), NEW out, out.notes \in SUBSET CanonicalNotes
  PROVE  Origin("any", Music(q, out)) # NoRevision
  <1>1. PICK m : m = Music(q, out)
    OBVIOUS
  <1>2. m \in [notes : SUBSET CanonicalNotes, mpq : Nat]
    BY <1>1 DEF Music, Asked
  <1>3. Origin("any", m) \in [document : Documents \cup {"any"}, number : {1}, parent : {NoParent},
                              music : [notes : SUBSET CanonicalNotes, mpq : Nat]]
    BY <1>2 DEF Origin, Revision
  <1> QED BY <1>1, <1>3, IngestionConstants

LEMMA AccountedFor ==
  ASSUME NEW q, Asked(q)
  PROVE  EveryEventAccountedFor(q)
  <1>1. PICK out : out = ImportDirectEvents(q)
    OBVIOUS
  <1>2. PICK rs : rs = out.rejections
    OBVIOUS
  <1>3. PICK notes : notes = out.notes
    OBVIOUS
  <1>4. PICK all : all = PastSeqs(q, Len(q.events))
    OBVIOUS
  <1>5. Outcome(q, notes, rs)
    <2>1. PICK s : s = ImportAll(q)
      OBVIOUS
    <2>2. rs = ImportDirectEvents(q).rejections
      BY <1>1, <1>2
    <2>3. Outcome(q, s.notes, rs) /\ ImportDirectEvents(q).notes = s.notes
      BY <2>1, <2>2, Imported
    <2> QED BY <1>1, <1>3, <2>3
  <1>6. IsFiniteSet(all) /\ all = {q.events[i].seq : i \in DOMAIN q.events}
    BY <1>4, EventsCounted
  <1>7. /\ Sound(q, notes) /\ rs \in Seq(RejectionValues) /\ Apart(rs)
        /\ Used(notes) \cap Cited(rs) = {} /\ Used(notes) \cup Cited(rs) = all
    BY <1>4, <1>5 DEF Outcome
  <1>8. IsFiniteSet(Cited(rs)) /\ Cardinality(Cited(rs)) \in Nat
    <2>1. PICK C : C = Cited(rs)
      OBVIOUS
    <2>2. C \in SUBSET all
      BY <1>7, <2>1
    <2>3. IsFiniteSet(C)
      BY <1>6, <2>2, FS_Subset
    <2>4. Cardinality(C) \in Nat
      BY <2>3, FS_CardinalityType
    <2> QED BY <2>1, <2>3, <2>4
  <1>9. RejectedCount(rs) = Cardinality(Cited(rs))
    BY <1>7, <1>8, CitedCounted
  <1>10. RequestContract(q)
    BY RequestIsSound
  <1>11. ResultContract(Rejected(q, rs))
    BY <1>7, <1>8, RefusalIsSound
  <1>12. /\ ResultContract(Accepted(q, out, Origin("any", Music(q, out))))
         /\ ResultContract(AsDuplicate(Accepted(q, out, Origin("any", Music(q, out)))))
    <2>1. PICK rev : rev = Origin("any", Music(q, out))
      OBVIOUS
    <2>2. out.notes \in SUBSET CanonicalNotes
      BY <1>3, <1>7 DEF Sound
    <2>3. rev # NoRevision
      BY <2>1, <2>2, RevisionIsOne
    <2>4. RejectedCount(out.rejections) = Cardinality(Cited(out.rejections))
          /\ Cardinality(Cited(out.rejections)) \in Nat
      BY <1>2, <1>8, <1>9
    <2> QED BY <2>1, <2>3, <2>4, AcceptanceIsSound
  <1>13. RejectedCount(rs) + 2 * Cardinality(notes) = Cardinality(all)
    <2>1. PICK U, C : U = Used(notes) /\ C = Cited(rs)
      OBVIOUS
    <2>2. /\ IsFiniteSet(U) /\ Cardinality(U) = 2 * Cardinality(notes) /\ Cardinality(notes) \in Nat
      BY <1>7, <2>1, NotesCounted
    <2>3. IsFiniteSet(C) /\ Cardinality(C) \in Nat /\ U \cap C = {} /\ U \cup C = all
      BY <1>7, <1>8, <2>1
    <2>4. Cardinality(U \cup C) = Cardinality(U) + Cardinality(C) - Cardinality(U \cap C)
      BY <2>2, <2>3, FS_Union
    <2>5. Cardinality(U \cap C) = 0 /\ Cardinality(U \cup C) = Cardinality(all)
      BY <2>3, FS_EmptySet, Zenon
    <2>6. PICK k : k = Cardinality(notes)
      OBVIOUS
    <2>7. PICK c : c = Cardinality(C)
      OBVIOUS
    <2>8. Cardinality(all) = 2 * k + c - 0
      BY <2>2, <2>4, <2>5, <2>6, <2>7, Zenon
    <2>9. 2 * k + c - 0 = c + 2 * k
      BY <2>2, <2>3, <2>6, <2>7
    <2> QED BY <1>9, <2>1, <2>6, <2>7, <2>8, <2>9, Zenon
  <1>14. \A n \in notes :
             /\ q.origin + TicksToNanoseconds(n.start, TicksPerQuarter, q.mpq) + n.lostStart = n.onAt
             /\ TicksToNanoseconds(n.duration, TicksPerQuarter, q.mpq) + n.lostDuration
                  = n.offAt - n.onAt
             /\ n.duration >= 1
    BY <1>7, Zenon DEF Sound, Exact
  <1>15. \A m, n \in notes : (m.key = n.key /\ m.on < n.on) => m.off < n.off
    BY <1>7 DEF Sound
  <1>16. {n.on : n \in notes} \cup {n.off : n \in notes} = Used(notes)
    BY Zenon DEF Used
  <1> QED BY <1>1, <1>2, <1>3, <1>6, <1>7, <1>10, <1>11, <1>12, <1>13, <1>14, <1>15, <1>16, Zenon
             DEF EveryEventAccountedFor

-----------------------------------------------------------------------------
(* What sounds is what is open *)

LEMMA OpenedLonger ==
  ASSUME NEW q, Asked(q), NEW k \in 0 .. Len(q.events), NEW open, OpenOK(q, open, k),
         NEW e \in NoteEvents, e.key \in Keys(q), NEW new, IsOpened(open, e, new),
         NEW n, n = Len(open[e.key])
  PROVE  /\ n \in Nat /\ Len(new[e.key]) = n + 1
         /\ \A key \in Keys(q) : key # e.key => new[key] = open[key]
  <1>1. open \in [Keys(q) -> Seq(NoteEvents)]
    BY DEF OpenOK
  <1> DEFINE Q == Append(open[e.key], e)
  <1>2. open[e.key] \in Seq(NoteEvents)
    BY <1>1
  <1>3. Q \in Seq(NoteEvents) /\ n \in Nat /\ Len(Q) = n + 1
    BY <1>2
  <1>4. new = [open EXCEPT ![e.key] = Q]
    BY DEF IsOpened
  <1> HIDE DEF Q
  <1>5. new[e.key] = Q /\ \A key \in Keys(q) : key # e.key => new[key] = open[key]
    BY <1>1, <1>4
  <1> QED BY <1>3, <1>5

LEMMA ReleasedShorter ==
  ASSUME NEW q, Asked(q), NEW k \in 0 .. Len(q.events), NEW open, OpenOK(q, open, k),
         NEW x \in Keys(q), open[x] # <<>>, NEW new, IsReleased(open, x, new),
         NEW n, n = Len(open[x])
  PROVE  /\ n \in Nat /\ n > 0 /\ Len(new[x]) = n - 1
         /\ \A key \in Keys(q) : key # x => new[key] = open[key]
  <1>1. open \in [Keys(q) -> Seq(NoteEvents)]
    BY DEF OpenOK
  <1> DEFINE Q == Tail(open[x])
  <1>2. open[x] \in Seq(NoteEvents)
    BY <1>1
  <1>3. Q \in Seq(NoteEvents) /\ n \in Nat /\ n > 0 /\ Len(Q) = n - 1
    BY <1>2
  <1>4. new = [open EXCEPT ![x] = Q]
    BY DEF IsReleased
  <1> HIDE DEF Q
  <1>5. new[x] = Q /\ \A key \in Keys(q) : key # x => new[key] = open[key]
    BY <1>1, <1>4
  <1> QED BY <1>3, <1>5

\* As many notes of a key sound as are open, and none of a key without notes.
Matches(q, all, held, open) ==
    /\ held \in [all -> Int] /\ Keys(q) \subseteq all
    /\ \A key \in Keys(q) : held[key] = Len(open[key])
    /\ \A key \in all \ Keys(q) : held[key] = 0

LEMMA MatchStep ==
  ASSUME NEW q, Asked(q), NEW b, NEW k, NEW e, IsNext(q, b, k, e), NEW s, ImportOK(q, s, b),
         ~ (e.at < q.origin), NEW all, NEW held, Matches(q, all, held, s.open)
  PROVE  Matches(q, all, HeldAfter(held, e), ImportEvent(q, s, e).open)
  <1>1. PICK t : t = ImportEvent(q, s, e)
    OBVIOUS
  <1>2. PICK new : new = HeldAfter(held, e)
    OBVIOUS
  <1>3. PICK x : x = e.key
    OBVIOUS
  <1>4. /\ b \in 0 .. Len(q.events) /\ e \in NoteEvents /\ x \in Keys(q)
        /\ OpenOK(q, s.open, b)
    BY <1>3, NextEvent DEF ImportOK
  <1>5. /\ held \in [all -> Int] /\ Keys(q) \subseteq all
        /\ \A key \in Keys(q) : held[key] = Len(s.open[key])
        /\ \A key \in all \ Keys(q) : held[key] = 0
    BY DEF Matches
  <1>6. x \in all /\ held[x] = Len(s.open[x])
    BY <1>4, <1>5
  <1>7. PICK n : n = Len(s.open[x])
    OBVIOUS
  <1>8. e.type \in NoteTypes
    BY <1>4 DEF NoteEvents
  <1>9. s = [open |-> s.open, notes |-> s.notes, rejections |-> s.rejections]
    BY DEF ImportOK
  <1>10. CASE ~Releases(e)
    <2>1. IsStruck(s, e, t)
      BY <1>1, <1>10, Zenon DEF ImportEvent, IsStruck
    <2>2. IsOpened(s.open, e, t.open)
      BY <2>1, OpenStep
    <2>3. /\ n \in Nat /\ Len(t.open[x]) = n + 1
          /\ \A key \in Keys(q) : key # x => t.open[key] = s.open[key]
      BY <1>3, <1>4, <1>7, <2>2, OpenedLonger
    <2>4. new = [held EXCEPT ![x] = @ + 1]
      BY <1>2, <1>3, <1>8, <1>10, Zenon DEF HeldAfter
    <2>5. /\ new \in [all -> Int] /\ new[x] = n + 1
          /\ \A key \in all : key # x => new[key] = held[key]
      BY <1>5, <1>6, <1>7, <2>3, <2>4
    <2>6. \A key \in Keys(q) : new[key] = Len(t.open[key])
      BY <1>5, <2>3, <2>5
    <2>7. \A key \in all \ Keys(q) : new[key] = 0
      BY <1>4, <1>5, <2>5
    <2> QED BY <1>1, <1>2, <1>5, <2>5, <2>6, <2>7 DEF Matches
  <1>11. CASE Releases(e) /\ s.open[x] # <<>>
    <2>1. t = PairRelease(q, s, e)
      BY <1>1, <1>3, <1>11, Zenon DEF ImportEvent
    <2>2. IsReleased(s.open, x, t.open)
      BY <1>3, <1>11, <2>1, PairStep
    <2>3. /\ n \in Nat /\ n > 0 /\ Len(t.open[x]) = n - 1
          /\ \A key \in Keys(q) : key # x => t.open[key] = s.open[key]
      BY <1>4, <1>7, <1>11, <2>2, ReleasedShorter
    <2>4. new = [held EXCEPT ![x] = @ - 1]
      <3>1. held[e.key] > 0
        BY <1>3, <1>6, <1>7, <2>3
      <3> QED BY <1>2, <1>3, <1>8, <1>11, <3>1, Zenon DEF HeldAfter
    <2>5. /\ new \in [all -> Int] /\ new[x] = n - 1
          /\ \A key \in all : key # x => new[key] = held[key]
      BY <1>5, <1>6, <1>7, <2>3, <2>4
    <2>6. \A key \in Keys(q) : new[key] = Len(t.open[key])
      BY <1>5, <2>3, <2>5
    <2>7. \A key \in all \ Keys(q) : new[key] = 0
      BY <1>4, <1>5, <2>5
    <2> QED BY <1>1, <1>2, <1>5, <2>5, <2>6, <2>7 DEF Matches
  <1>12. CASE Releases(e) /\ s.open[x] = <<>>
    <2>1. t = [s EXCEPT !.rejections = Append(@, Rejection("UNMATCHED_NOTE_OFF", {e.seq}))]
      BY <1>1, <1>3, <1>12, Zenon DEF ImportEvent
    <2>2. t.open = s.open
      BY <1>9, <2>1
    <2>3. ~ (held[e.key] > 0)
      BY <1>3, <1>6, <1>12
    <2>4. new = held
      BY <1>2, <1>8, <1>12, <2>3, Zenon DEF HeldAfter
    <2> QED BY <1>1, <1>2, <2>2, <2>4
  <1> QED BY <1>10, <1>11, <1>12

AllKeys(events) == {events[i].key : i \in DOMAIN events}

\* A request for the notes of a capture, none of them before its origin.
AsksFor(q, c) ==
    /\ Asked(q) /\ q.events = BuildSourceEvents(c)
    /\ \A i \in DOMAIN q.events : ~ (q.events[i].at < q.origin)

LEMMA SoundsAsOpen ==
  ASSUME NEW c, c.events \in Seq(EventValues), Ordered(c.events), NEW q, AsksFor(q, c)
  PROVE  Matches(q, AllKeys(c.events), Sounding(c.events), ImportAll(q).open)
  <1> DEFINE L == Len(c.events)
             M == Len(q.events)
  <1>0. /\ Asked(q) /\ q.events = BuildSourceEvents(c)
        /\ \A i \in DOMAIN q.events : ~ (q.events[i].at < q.origin)
        /\ q.events \in Seq(EventValues) /\ Len(q.events) \in Nat /\ Len(c.events) \in Nat
        /\ DOMAIN c.events = 1 .. Len(c.events) /\ DOMAIN q.events = 1 .. Len(q.events)
        /\ IsRequest(q) /\ Ordered(q.events)
    BY DEF AsksFor, Asked, NoteEvents
  <1>1. PICK h : HeldRun(c.events, h, Len(c.events)) /\ Sounding(c.events) = h[Len(c.events)]
    BY <1>0, SoundingRuns
  <1>2. PICK g : ImportRun(q, g, Len(q.events)) /\ ImportAll(q) = g[Len(q.events)]
    BY <1>0, ImportRuns
  <1>3. \A n \in 0 .. M : ImportOK(q, g[n], n)
    BY <1>0, <1>2, ImportedEach
  <1>4. \A n \in 0 .. M :
            g[n] = IF n = 0 THEN NothingImported(q) ELSE ImportEvent(q, g[n - 1], q.events[n])
    BY <1>2, Zenon DEF ImportRun
  <1>5. \A n \in 0 .. L :
            h[n] = IF n = 0 THEN Silent(c.events) ELSE HeldAfter(h[n - 1], c.events[n])
    BY <1>1, Zenon DEF HeldRun
  <1>6. PICK N : N = NotesOf(c.events)
    OBVIOUS
  <1>7. PICK es : es = BuildSourceEvents(c)
    OBVIOUS
  <1>8. es = q.events
    BY <1>0, <1>7
  <1>9. /\ N \in SUBSET (1 .. L) /\ Len(es) = Cardinality(N)
        /\ \A i \in N : Rank(N, i) \in 1 .. Len(es) /\ es[Rank(N, i)] = c.events[i]
        /\ \A n \in 1 .. Len(es) : \E i \in N : Rank(N, i) = n
    <2>1. Crosses(c, N, es)
      BY <1>6, <1>7 DEF Crosses
    <2> QED BY <2>1, SourceEvents
  <1>10. /\ Rank(N, 0) = 0 /\ Rank(N, L) = M
         /\ \A i \in 0 .. L : Rank(N, i) \in 0 .. M
         /\ \A i \in 1 .. L : Rank(N, i) = Rank(N, i - 1) + (IF i \in N THEN 1 ELSE 0)
    BY <1>0, <1>8, <1>9, Ranks
  <1>11. PICK all : all = AllKeys(c.events)
    OBVIOUS
  <1>12. Keys(q) \subseteq all
    <2>1. ASSUME NEW x \in Keys(q) PROVE x \in all
      <3>1. PICK n \in 1 .. M : x = es[n].key
        BY <1>0, <1>8 DEF Keys
      <3>2. PICK i \in N : Rank(N, i) = n
        BY <1>8, <1>9
      <3>3. x = c.events[i].key /\ i \in DOMAIN c.events
        BY <1>0, <1>9, <3>1, <3>2
      <3> QED BY <1>11, <3>3 DEF AllKeys
    <2> QED BY <2>1
  <1> DEFINE S == {i \in Nat : i <= L => Matches(q, all, h[i], g[Rank(N, i)].open)}
  <1>13. 0 \in S
    <2>1. h[0] = [k \in all |-> 0]
      <3>1. h[0] = Silent(c.events)
        BY <1>0, <1>5
      <3> QED BY <1>11, <3>1, Zenon DEF Silent, AllKeys
    <2>2. PICK open : open = [k \in Keys(q) |-> <<>>]
      OBVIOUS
    <2>3. g[0].open = open
      <3>1. g[0] = NothingImported(q)
        BY <1>0, <1>4
      <3>2. g[0] = [open |-> open, notes |-> {}, rejections |-> <<>>]
        BY <2>2, <3>1, Zenon DEF NothingImported, Keys
      <3> QED BY <3>2
    <2>4. \A key \in Keys(q) : Len(open[key]) = 0
      BY <2>2
    <2>5. h[0] \in [all -> Int] /\ \A key \in all : h[0][key] = 0
      BY <2>1
    <2>6. Matches(q, all, h[0], open)
      BY <1>12, <2>4, <2>5 DEF Matches
    <2>7. Matches(q, all, h[0], g[Rank(N, 0)].open)
      BY <1>10, <2>3, <2>6
    <2> QED BY <2>7
  <1>14. ASSUME NEW j \in Nat, j \in S PROVE j + 1 \in S
    <2>1. CASE j + 1 <= L
      <3>1. PICK i : i = j + 1
        OBVIOUS
      <3>2. i \in 1 .. L /\ i \in 0 .. L /\ i # 0 /\ i - 1 = j /\ j <= L /\ j \in 0 .. L
        BY <1>0, <2>1, <3>1
      <3>3. PICK b : b = Rank(N, j)
        OBVIOUS
      <3>4. PICK e : e = c.events[i]
        OBVIOUS
      <3>5. Matches(q, all, h[j], g[b].open)
        BY <1>14, <3>2, <3>3
      <3>6. h[i] = HeldAfter(h[j], e)
        <4>1. h[i] = HeldAfter(h[i - 1], c.events[i])
          BY <1>5, <3>2
        <4> QED BY <3>2, <3>4, <4>1
      <3>7. b \in 0 .. M
        BY <1>10, <3>2, <3>3
      <3>8. CASE i \in N
        <4>1. PICK k : k = Rank(N, i)
          OBVIOUS
        <4>2. k = b + 1 /\ k \in 1 .. M /\ es[k] = e
          <5>1. k = Rank(N, i - 1) + 1
            BY <1>10, <3>2, <3>8, <4>1
          <5> QED BY <1>8, <1>9, <3>2, <3>3, <3>4, <3>8, <4>1, <5>1
        <4>3. IsNext(q, b, k, e)
          <5>1. k \in 1 .. Len(q.events) /\ b = k - 1 /\ e = q.events[k]
            BY <1>8, <3>7, <4>2
          <5> QED BY <5>1 DEF IsNext
        <4>4. ImportOK(q, g[b], b)
          BY <1>3, <3>7
        <4>5. ~ (e.at < q.origin)
          BY <1>0, <1>8, <4>2
        <4>6. Matches(q, all, HeldAfter(h[j], e), ImportEvent(q, g[b], e).open)
          BY <1>0, <3>5, <4>3, <4>4, <4>5, MatchStep
        <4>7. g[k] = ImportEvent(q, g[b], e)
          <5>1. k \in 0 .. M /\ k # 0 /\ k - 1 = b /\ q.events[k] = e
            BY <1>8, <3>7, <4>2
          <5>2. g[k] = ImportEvent(q, g[k - 1], q.events[k])
            BY <1>4, <5>1
          <5> QED BY <5>1, <5>2
        <4>8. Matches(q, all, h[i], g[Rank(N, i)].open)
          BY <3>6, <4>1, <4>6, <4>7
        <4> QED BY <3>1, <4>8
      <3>9. CASE i \notin N
        <4>1. Rank(N, i) = b
          <5>1. Rank(N, i) = Rank(N, i - 1) + 0
            BY <1>10, <3>2, <3>9
          <5>2. Rank(N, i) = b + 0
            BY <3>2, <3>3, <5>1
          <5> QED BY <3>7, <5>2
        <4>2. e.type \notin NoteTypes
          BY <1>0, <1>6, <3>2, <3>4, <3>9 DEF NotesOf
        <4>3. HeldAfter(h[j], e) = h[j]
          BY <4>2, Zenon DEF HeldAfter
        <4> QED BY <3>1, <3>5, <3>6, <4>1, <4>3
      <3> QED BY <3>8, <3>9
    <2>2. CASE ~ (j + 1 <= L)
      BY <2>2
    <2> QED BY <2>1, <2>2
  <1>15. Nat \subseteq S
    <2> HIDE DEF S
    <2> QED BY <1>13, <1>14, SetInduction
  <1>16. Matches(q, all, h[L], g[Rank(N, L)].open)
    BY <1>0, <1>15
  <1> QED BY <1>1, <1>2, <1>10, <1>11, <1>16

\* The releases an observation counts as missing.
MissingOffs(held) ==
    LET missing == [k \in {j \in DOMAIN held : held[j] > 0} |-> held[k]]
    IN UNION {{k} \X (1 .. missing[k]) : k \in DOMAIN missing}

LEMMA MissingAreOpen ==
  ASSUME NEW q, Asked(q), NEW k \in 0 .. Len(q.events), NEW open, OpenOK(q, open, k),
         NEW all, NEW held, Matches(q, all, held, open)
  PROVE  Cardinality(MissingOffs(held)) = Cardinality(OpenSeqs(open))
         /\ Cardinality(MissingOffs(held)) \in Nat
  <1> DEFINE T == MissingOffs(held)
             C == OpenSeqs(open)
             f == [p \in T |-> open[p[1]][p[2]].seq]
  <1>1. /\ held \in [all -> Int] /\ Keys(q) \subseteq all
        /\ \A key \in Keys(q) : held[key] = Len(open[key])
        /\ \A key \in all \ Keys(q) : held[key] = 0
    BY DEF Matches
  <1>2. /\ open \in [Keys(q) -> Seq(NoteEvents)]
        /\ \A key \in Keys(q) : \A i \in DOMAIN open[key] :
              open[key][i].key = key /\ open[key][i] \in Past(q, k)
        /\ \A key \in Keys(q) : \A i, j \in DOMAIN open[key] :
              i < j => open[key][i].seq < open[key][j].seq
    BY DEF OpenOK
  <1>3. ASSUME NEW p
        PROVE  p \in T <=> \E key \in Keys(q) : \E i \in DOMAIN open[key] : p = <<key, i>>
    <2> DEFINE D == {j \in all : held[j] > 0}
               missing == [x \in D |-> held[x]]
    <2>1. T = UNION {{x} \X (1 .. missing[x]) : x \in DOMAIN missing}
      <3>1. DOMAIN held = all
        BY <1>1
      <3> QED BY <3>1, Zenon DEF MissingOffs
    <2>2. p \in T <=> \E x \in D : \E i \in 1 .. held[x] : p = <<x, i>>
      <3>1. p \in T <=> \E x \in D : p \in {x} \X (1 .. held[x])
        BY <2>1
      <3>2. \A x \in D : p \in {x} \X (1 .. held[x]) <=> \E i \in 1 .. held[x] : p = <<x, i>>
        OBVIOUS
      <3> QED BY <3>1, <3>2
    <2>3. \A x \in Keys(q) : DOMAIN open[x] = 1 .. held[x]
      BY <1>1, <1>2
    <2>4. ASSUME NEW x \in D PROVE x \in Keys(q)
      BY <1>1
    <2>5. ASSUME NEW x \in Keys(q), NEW i \in 1 .. held[x] PROVE x \in D
      <3>1. held[x] \in Int /\ x \in all
        BY <1>1
      <3> QED BY <2>5, <3>1
    <2> HIDE DEF D
    <2> QED BY <2>2, <2>3, <2>4, <2>5
  <1>4. \A x : x \in C <=> \E key \in Keys(q) : \E i \in DOMAIN open[key] : x = open[key][i].seq
    BY OpenIsPast
  <1>5. IsFiniteSet(C)
    <2>1. PICK all1 : all1 = PastSeqs(q, Len(q.events))
      OBVIOUS
    <2>2. IsFiniteSet(all1)
      BY <2>1, EventsCounted
    <2>3. C \in SUBSET all1
      <3>1. C \subseteq PastSeqs(q, k)
        BY OpenIsPast
      <3>2. PastSeqs(q, k) \subseteq all1
        <4>1. \A i \in 1 .. k : i \in 1 .. Len(q.events)
          BY DEF Asked
        <4> QED BY <2>1, <4>1 DEF PastSeqs
      <3> QED BY <3>1, <3>2
    <2> HIDE DEF C
    <2> QED BY <2>2, <2>3, FS_Subset
  <1> HIDE DEF T, C
  <1>6. f \in [T -> C]
    <2>1. ASSUME NEW p \in T PROVE open[p[1]][p[2]].seq \in C
      <3>1. PICK key \in Keys(q) : \E i \in DOMAIN open[key] : p = <<key, i>>
        BY <1>3
      <3>2. PICK i \in DOMAIN open[key] : p = <<key, i>>
        BY <3>1
      <3> QED BY <1>4, <3>2
    <2> QED BY <2>1
  <1>7. ASSUME NEW a \in T, NEW b \in T, f[a] = f[b] PROVE a = b
    <2>1. PICK x \in Keys(q) : \E i \in DOMAIN open[x] : a = <<x, i>>
      BY <1>3
    <2>2. PICK i \in DOMAIN open[x] : a = <<x, i>>
      BY <2>1
    <2>3. PICK y \in Keys(q) : \E j \in DOMAIN open[y] : b = <<y, j>>
      BY <1>3
    <2>4. PICK j \in DOMAIN open[y] : b = <<y, j>>
      BY <2>3
    <2>5. open[x][i].seq = open[y][j].seq
      BY <1>7, <2>2, <2>4
    <2>6. open[x][i] = open[y][j]
      <3>1. \A m, n \in Past(q, k) : m.seq = n.seq => m = n
        BY PastLemma
      <3> QED BY <1>2, <2>5, <3>1
    <2>7. x = y
      BY <1>2, <2>6
    <2>8. i = j
      <3>1. i \in Int /\ j \in Int /\ open[x][i].seq \in Int
        <4>1. open[x] \in Seq(NoteEvents)
          BY <1>2
        <4>2. open[x][i] \in NoteEvents /\ i \in Int
          BY <4>1
        <4>3. j \in Int
          BY <2>7, <4>1
        <4> QED BY <4>2, <4>3 DEF NoteEvents, EventValues
      <3>2. ~ (i < j) /\ ~ (j < i)
        <4>1. i < j => open[x][i].seq < open[x][j].seq
          BY <1>2, <2>7
        <4>2. j < i => open[x][j].seq < open[x][i].seq
          BY <1>2, <2>7
        <4> QED BY <2>5, <2>7, <3>1, <4>1, <4>2
      <3> QED BY <3>1, <3>2
    <2> QED BY <2>2, <2>4, <2>7, <2>8
  <1>8. ASSUME NEW x \in C PROVE \E p \in T : f[p] = x
    <2>1. PICK y \in Keys(q) : \E i \in DOMAIN open[y] : x = open[y][i].seq
      BY <1>4
    <2>2. PICK i \in DOMAIN open[y] : x = open[y][i].seq
      BY <2>1
    <2>3. <<y, i>> \in T
      BY <1>3
    <2> QED BY <2>2, <2>3
  <1>9. f \in Bijection(T, C)
    <2> HIDE DEF f
    <2> QED BY <1>6, <1>7, <1>8, Fun_IsBij
  <1>10. f \in Injection(T, C) /\ f \in Surjection(T, C)
    BY <1>9 DEF Bijection
  <1>11. Cardinality(T) = Cardinality(C) /\ IsFiniteSet(T)
    <2> HIDE DEF f
    <2> QED BY <1>5, <1>10, FS_Injection
  <1>12. Cardinality(T) \in Nat
    BY <1>11, FS_CardinalityType
  <1> QED BY <1>11, <1>12 DEF T, C

-----------------------------------------------------------------------------
(* The observation of a capture, and the requests made of it *)

LEMMA LeastOf ==
  ASSUME NEW S, S \subseteq Nat, S # {}
  PROVE  Min(S) \in S /\ \A y \in S : Min(S) <= y
  <1>1. \E x \in S : \A y \in S : x <= y
    BY LeastNumber
  <1> QED BY <1>1 DEF Min

LEMMA Bounds ==
  ASSUME NEW S, S \subseteq -1 .. 127, S # {}
  PROVE  Min(S) <= Max(S)
  <1>1. S \subseteq Int
    OBVIOUS
  <1>2. \E x \in S : \A y \in S : x <= y
    <2> DEFINE T == {n \in Nat : n - 1 \in S}
    <2>1. T \subseteq Nat /\ T # {}
      <3>1. PICK y \in S : TRUE
        OBVIOUS
      <3>2. y + 1 \in T
        OBVIOUS
      <3> QED BY <3>2
    <2>2. \E x \in T : \A y \in T : x <= y
      <3> HIDE DEF T
      <3> QED BY <2>1, LeastNumber
    <2>3. PICK x \in T : \A y \in T : x <= y
      BY <2>2
    <2>4. ASSUME NEW y \in S PROVE x - 1 <= y
      <3>1. y + 1 \in T
        OBVIOUS
      <3> QED BY <2>3, <3>1
    <2> QED BY <2>3, <2>4
  <1>3. \E x \in S : \A y \in S : y <= x
    <2> DEFINE T == {n \in Nat : n - 1 \in S}
    <2>1. T \subseteq Nat /\ T # {} /\ \A y \in T : y <= 128
      <3>1. PICK y \in S : TRUE
        OBVIOUS
      <3>2. y + 1 \in T
        OBVIOUS
      <3>3. ASSUME NEW n \in T PROVE n <= 128
        <4>1. n - 1 \in -1 .. 127 /\ n \in Nat
          OBVIOUS
        <4> QED BY <4>1
      <3> QED BY <3>2, <3>3
    <2>2. \E x \in T : \A y \in T : y <= x
      <3> HIDE DEF T
      <3>1. PICK b \in Nat : b = 128
        OBVIOUS
      <3>2. \A y \in T : y <= b
        BY <2>1, <3>1
      <3> QED BY <2>1, <3>2, GreatestNumber
    <2>3. PICK x \in T : \A y \in T : y <= x
      BY <2>2
    <2>4. ASSUME NEW y \in S PROVE y <= x - 1
      <3>1. y + 1 \in T
        OBVIOUS
      <3> QED BY <2>3, <3>1
    <2> QED BY <2>3, <2>4
  <1>4. Min(S) \in S /\ \A y \in S : Min(S) <= y
    BY <1>2 DEF Min
  <1>5. Max(S) \in S
    BY <1>3 DEF Max
  <1> QED BY <1>4, <1>5

\* What crosses over are the notes of the capture.
LEMMA Crossed ==
  ASSUME NEW c, c.events \in Seq(EventValues), Ordered(c.events)
  PROVE  /\ BuildSourceEvents(c) \in Seq(NoteEvents) /\ Ordered(BuildSourceEvents(c))
         /\ \A n \in DOMAIN BuildSourceEvents(c) : \E i \in DOMAIN c.events :
               c.events[i].type \in NoteTypes /\ BuildSourceEvents(c)[n] = c.events[i]
  <1>1. PICK N : N = NotesOf(c.events)
    OBVIOUS
  <1>2. PICK es : es = BuildSourceEvents(c)
    OBVIOUS
  <1>3. Crosses(c, N, es)
    BY <1>1, <1>2 DEF Crosses
  <1>4. /\ es \in Seq(NoteEvents) /\ Ordered(es)
        /\ \A i \in N : Rank(N, i) \in 1 .. Len(es) /\ es[Rank(N, i)] = c.events[i]
        /\ \A n \in 1 .. Len(es) : \E i \in N : Rank(N, i) = n
    BY <1>3, SourceEvents
  <1>5. DOMAIN es = 1 .. Len(es)
    BY <1>4
  <1>6. ASSUME NEW n \in DOMAIN es
        PROVE  \E i \in DOMAIN c.events : c.events[i].type \in NoteTypes /\ es[n] = c.events[i]
    <2>1. PICK i \in N : Rank(N, i) = n
      BY <1>4, <1>5
    <2>2. i \in DOMAIN c.events /\ c.events[i].type \in NoteTypes /\ es[n] = c.events[i]
      BY <1>1, <1>4, <2>1 DEF NotesOf
    <2> QED BY <2>2
  <1> QED BY <1>2, <1>4, <1>6

LEMMA Requested ==
  ASSUME NEW c, c.events \in Seq(EventValues), Ordered(c.events), NEW reading \in Readings,
         NEW q, q = BuildRequest("any", c, reading)
  PROVE  Asked(q) /\ (reading.origin = Absent => AsksFor(q, c))
  <1> DEFINE times == {c.events[i].at : i \in {j \in DOMAIN c.events : c.events[j].type \in NoteTypes}}
  <1>0. PICK es : es = BuildSourceEvents(c)
    OBVIOUS
  <1>1. PICK mpq : mpq = TempoFromBpm(reading.bpm)
    OBVIOUS
  <1>2. PICK origin : origin = IF reading.origin # Absent THEN reading.origin
                               ELSE IF times = {} THEN 0 ELSE Min(times)
    OBVIOUS
  <1>3. q = [id |-> "any", digest |-> CaptureDigest(c), origin |-> origin, mpq |-> mpq, events |-> es]
    BY <1>0, <1>1, <1>2, Zenon DEF BuildRequest
  <1>4. q.origin = origin /\ q.mpq = mpq /\ q.events = es /\ IsRequest(q)
    <2> HIDE DEF times
    <2>1. DOMAIN q = RequestFields
      BY <1>3 DEF RequestFields
    <2>2. q.origin = origin /\ q.mpq = mpq /\ q.events = es
      BY <1>3
    <2>3. q = [f \in DOMAIN q |-> q[f]]
      BY <1>3
    <2> QED BY <2>1, <2>2, <2>3 DEF IsRequest
  <1>5. /\ es \in Seq(NoteEvents) /\ Ordered(es)
        /\ \A n \in DOMAIN es : \E i \in DOMAIN c.events :
               c.events[i].type \in NoteTypes /\ es[n] = c.events[i]
    BY <1>0, Crossed
  <1>6. times \subseteq Nat
    <2>1. \A i \in DOMAIN c.events : c.events[i] \in EventValues
      OBVIOUS
    <2> QED BY <2>1 DEF EventValues
  <1>7. times # {} => Min(times) \in times /\ \A y \in times : Min(times) <= y
    <2> HIDE DEF times
    <2> QED BY <1>6, LeastOf
  <1>8. reading.origin \in Nat \cup {Absent} /\ mpq \in Nat \ {0}
    BY <1>1, IngestionConstants
  <1>9. origin \in Nat
    <2> HIDE DEF times
    <2> QED BY <1>2, <1>6, <1>7, <1>8
  <1>10. Asked(q)
    BY <1>4, <1>5, <1>8, <1>9 DEF Asked
  <1>11. ASSUME reading.origin = Absent, NEW n \in DOMAIN es PROVE ~ (es[n].at < origin)
    <2>1. es[n].at \in times
      BY <1>5
    <2>2. origin = Min(times) /\ Min(times) <= es[n].at
      <3> HIDE DEF times
      <3> QED BY <1>2, <1>7, <1>11, <2>1
    <2>3. origin \in Nat /\ es[n].at \in Nat
      <3> HIDE DEF times
      <3> QED BY <1>6, <1>9, <2>1
    <2> QED BY <2>2, <2>3
  <1> QED BY <1>0, <1>4, <1>10, <1>11 DEF AsksFor

LEMMA MissingCounted ==
  ASSUME NEW c, c.events \in Seq(EventValues), Ordered(c.events), NEW q, AsksFor(q, c)
  PROVE  /\ Cardinality(MissingOffs(Sounding(c.events))) = Cardinality(OpenSeqs(ImportAll(q).open))
         /\ Cardinality(MissingOffs(Sounding(c.events))) \in Nat
  <1>1. PICK open : open = ImportAll(q).open
    OBVIOUS
  <1>2. PICK held : held = Sounding(c.events)
    OBVIOUS
  <1>3. PICK all : all = AllKeys(c.events)
    OBVIOUS
  <1>4. PICK k : k = Len(q.events)
    OBVIOUS
  <1>5. Matches(q, all, held, open)
    BY <1>1, <1>2, <1>3, SoundsAsOpen
  <1>6. Asked(q) /\ k \in 0 .. Len(q.events)
    BY <1>4 DEF AsksFor, Asked
  <1>7. OpenOK(q, open, k)
    BY <1>1, <1>4, <1>6, ImportedAll DEF ImportOK
  <1>8. /\ Cardinality(MissingOffs(held)) = Cardinality(OpenSeqs(open))
        /\ Cardinality(MissingOffs(held)) \in Nat
    BY <1>5, <1>6, <1>7, MissingAreOpen
  <1> QED BY <1>1, <1>2, <1>8

LEMMA ObservedMissing ==
  ASSUME NEW c
  PROVE  DeriveObservation(c).missingOffs = Cardinality(MissingOffs(Sounding(c.events)))
  BY DEF DeriveObservation, DetectMissingNoteOffs, MissingOffs

LEMMA ObservationSame ==
  ASSUME NEW c, c.events \in Seq(EventValues), Ordered(c.events), NEW q, AsksFor(q, c)
  PROVE  ObservationAgreesFor(c, q)
  <1>1. PICK rs : rs = ImportDirectEvents(q).rejections
    OBVIOUS
  <1>2. PICK s : s = ImportAll(q)
    OBVIOUS
  <1>3. NeverReleased(rs) = OpenSeqs(s.open)
    BY <1>1, <1>2, Imported DEF AsksFor
  <1>4. DeriveObservation(c).missingOffs = Cardinality(NeverReleased(rs))
    BY <1>2, <1>3, MissingCounted, ObservedMissing
  <1> QED BY <1>1, <1>4, Zenon DEF ObservationAgreesFor, NeverReleased

LEMMA ObservationSound ==
  ASSUME NEW c, c.events \in Seq(EventValues), Ordered(c.events)
  PROVE  ObservationContract(DeriveObservation(c))
  <1> DEFINE ev == c.events
             L == Len(c.events)
             D == DOMAIN c.events
             A == {i \in D : ev[i].type = "NOTE_ON"}
             B == {i \in D : ev[i].type = "NOTE_OFF"}
             U == {i \in D : ev[i].string = Absent}
             struck == {ev[i].velocity : i \in A}
             time(i) == IF ev = <<>> THEN Absent ELSE ev[i].at
             o == DeriveObservation(c)
  <1>0. L \in Nat /\ D = 1 .. L /\ \A i \in D : ev[i] \in EventValues
    OBVIOUS
  <1>1. o.missingOffs \in Nat
    <2>1. PICK q : q = [id |-> "any", digest |-> c, origin |-> 0, mpq |-> 1,
                        events |-> BuildSourceEvents(c)]
      OBVIOUS
    <2>2. PICK es : es = BuildSourceEvents(c)
      OBVIOUS
    <2>3. /\ es \in Seq(NoteEvents) /\ Ordered(es)
      BY <2>2, Crossed
    <2>4. q.origin = 0 /\ q.mpq = 1 /\ q.events = es /\ DOMAIN q = RequestFields
      BY <2>1, <2>2 DEF RequestFields
    <2>5. q = [f \in DOMAIN q |-> q[f]]
      BY <2>1
    <2>6. Asked(q)
      BY <2>3, <2>4, <2>5 DEF Asked, IsRequest
    <2>7. \A i \in DOMAIN es : ~ (es[i].at < 0)
      <3>1. \A i \in DOMAIN es : es[i] \in NoteEvents
        BY <2>3
      <3> QED BY <3>1 DEF NoteEvents, EventValues
    <2>8. AsksFor(q, c)
      BY <2>2, <2>4, <2>6, <2>7 DEF AsksFor
    <2> QED BY <2>8, MissingCounted, ObservedMissing
  <1>2. IsFiniteSet(D) /\ Cardinality(D) = L
    <2> HIDE DEF D
    <2>1. IsFiniteSet(1 .. L) /\ Cardinality(1 .. L) = L
      BY <1>0, FS_Interval
    <2> QED BY <1>0, <2>1
  <1>3. A \in SUBSET D /\ B \in SUBSET D /\ U \in SUBSET D /\ A \cap B = {}
    OBVIOUS
  <1>4. /\ o.events = L /\ o.noteOns = Cardinality(A) /\ o.noteOffs = Cardinality(B)
        /\ o.unresolved = Cardinality(U)
    BY DEF DeriveObservation
  <1>5. o.first = time(1) /\ o.last = time(L)
    BY DEF DeriveObservation
  <1>6. /\ o.softest = (IF struck = {} THEN Absent ELSE Min(struck))
        /\ o.loudest = (IF struck = {} THEN Absent ELSE Max(struck))
    BY DEF DeriveObservation, VelocityBounds
  <1>7. struck \subseteq -1 .. 127
    BY <1>0 DEF EventValues
  <1>8. (o.softest # Absent /\ o.loudest # Absent) => o.softest <= o.loudest
    <2> HIDE DEF struck, o
    <2> QED BY <1>6, <1>7, Bounds
  <1>9. (o.first # Absent /\ o.last # Absent) => o.first <= o.last
    <2>1. CASE ev = <<>>
      <3> HIDE DEF o
      <3> QED BY <1>5, <2>1
    <2>2. CASE ev # <<>>
      <3>1. L >= 1 /\ 1 \in D /\ L \in D
        BY <1>0, <2>2
      <3>2. ev[1].at \in Nat /\ ev[L].at \in Nat
        BY <1>0, <3>1 DEF EventValues
      <3>3. ev[1].at <= ev[L].at
        <4>1. CASE L = 1
          <5>1. ev[L].at = ev[1].at
            BY <4>1
          <5>2. PICK x : x = ev[1].at
            OBVIOUS
          <5>3. x \in Nat
            BY <3>2, <5>2
          <5>4. x <= x
            BY <5>3
          <5> QED BY <5>1, <5>2, <5>4
        <4>2. CASE L # 1
          <5>1. 1 < L
            <6>1. L \in Nat
              BY <1>0
            <6>2. L >= 1
              BY <3>1
            <6> HIDE DEF L, D
            <6> QED BY <4>2, <6>1, <6>2
          <5>2. \A i, j \in D : i < j => ev[i].at <= ev[j].at
            BY Ordered(c.events) DEF Ordered
          <5> HIDE DEF D, L
          <5> QED BY <3>1, <5>1, <5>2
        <4> QED BY <4>1, <4>2
      <3> HIDE DEF o
      <3>4. o.first = ev[1].at /\ o.last = ev[L].at
        BY <1>5, <2>2, Zenon
      <3> QED BY <3>3, <3>4, Zenon
    <2> QED BY <2>1, <2>2
  <1> HIDE DEF A, B, U, D, o
  <1>10. /\ IsFiniteSet(A) /\ IsFiniteSet(B) /\ IsFiniteSet(U)
    BY <1>2, <1>3, FS_Subset
  <1>11. Cardinality(A) \in Nat /\ Cardinality(B) \in Nat /\ Cardinality(U) \in Nat
    BY <1>10, FS_CardinalityType
  <1>12. Cardinality(A) + Cardinality(B) <= L
    <2>1. Cardinality(A \cup B) = Cardinality(A) + Cardinality(B) - Cardinality(A \cap B)
      BY <1>10, FS_Union
    <2>2. Cardinality(A \cap B) = 0
      BY <1>3, FS_EmptySet, Zenon
    <2>3. A \cup B \in SUBSET D
      BY <1>3
    <2>4. Cardinality(A \cup B) <= L
      BY <1>2, <2>3, FS_Subset
    <2>5. Cardinality(A \cup B) = Cardinality(A) + Cardinality(B) - 0
      BY <2>1, <2>2, Zenon
    <2> QED BY <1>11, <2>4, <2>5
  <1>13. ObservationContract(o)
    BY <1>1, <1>4, <1>8, <1>9, <1>11, <1>12 DEF ObservationContract
  <1> QED BY <1>13 DEF o

-----------------------------------------------------------------------------
(* The captures of the system *)

LEMMA CaptureAccounted ==
  ASSUME NEW c, IsCapture(c), CaptureContract(c)
  PROVE  /\ ObservationContract(DeriveObservation(c))
         /\ \A reading \in Readings :
               /\ EveryEventAccountedFor(BuildRequest("any", c, reading))
               /\ reading.origin = Absent =>
                     ObservationAgreesFor(c, BuildRequest("any", c, reading))
  <1>1. c.events \in Seq(EventValues)
    BY DEF IsCapture
  <1>2. PICK events : events = c.events
    OBVIOUS
  <1>3. \A i \in 1 .. Len(events) - 1 : /\ events[i].seq < events[i + 1].seq
                                         /\ events[i].at <= events[i + 1].at
    BY <1>2, Zenon DEF CaptureContract
  <1>4. Ordered(c.events)
    <2>1. events \in Seq(EventValues)
      BY <1>1, <1>2
    <2>2. Ordered(events)
      BY <1>3, <2>1, OrderedAll
    <2> QED BY <1>2, <2>2
  <1>5. ObservationContract(DeriveObservation(c))
    BY <1>1, <1>4, ObservationSound
  <1>6. ASSUME NEW reading \in Readings
        PROVE  /\ EveryEventAccountedFor(BuildRequest("any", c, reading))
               /\ reading.origin = Absent =>
                     ObservationAgreesFor(c, BuildRequest("any", c, reading))
    <2>1. PICK q : q = BuildRequest("any", c, reading)
      OBVIOUS
    <2>2. Asked(q) /\ (reading.origin = Absent => AsksFor(q, c))
      BY <1>1, <1>4, <2>1, Requested
    <2>3. EveryEventAccountedFor(q)
      BY <2>2, AccountedFor
    <2>4. reading.origin = Absent => ObservationAgreesFor(c, q)
      BY <1>1, <1>4, <2>2, ObservationSame
    <2> QED BY <2>1, <2>3, <2>4
  <1> QED BY <1>5, <1>6

LEMMA ClosedAreCaptures ==
  ASSUME Recording, NEW c \in ClosedCaptures
  PROVE  IsCapture(c) /\ CaptureContract(c)
  <1>1. CASE c = take /\ take # NoTake
    BY <1>1 DEF Recording, TakeInv
  <1>2. CASE \E id \in DOMAIN captures : c = captures[id]
    BY <1>2 DEF Recording, RuntimeInv, OneCaptureOpen
  <1> QED BY <1>1, <1>2 DEF ClosedCaptures

\* Whatever is captured, however long, and whatever tempo and origin it is read
\* with, each note event ends in one note or one rejection, the counts of the
\* result say so, notes of a key are released as they were struck, their times
\* are recovered exactly, and the observation counts as missing the releases
\* for which the import refuses notes.
THEOREM EverythingAccounted == Spec => []EveryEventAccounted
  <1>1. Recording => EveryEventAccounted
    <2> SUFFICES ASSUME Recording PROVE EveryEventAccounted
      OBVIOUS
    <2>1. ASSUME NEW c \in ClosedCaptures
          PROVE  /\ ObservationContract(DeriveObservation(c))
                 /\ \A reading \in Readings :
                       /\ EveryEventAccountedFor(BuildRequest("any", c, reading))
                       /\ reading.origin = Absent =>
                             ObservationAgreesFor(c, BuildRequest("any", c, reading))
      <3>1. IsCapture(c) /\ CaptureContract(c)
        BY ClosedAreCaptures
      <3> QED BY <3>1, CaptureAccounted
    <2> QED BY <2>1, Zenon DEF EveryEventAccounted, ObservationAgrees
  <1> QED BY <1>1, RecordingInit, RecordingStep, PTL DEF Spec

=============================================================================
