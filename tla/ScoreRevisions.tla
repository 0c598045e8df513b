--------------------------- MODULE ScoreRevisions ---------------------------
(***************************************************************************)
(* Canonical score revisions: a document points at its current revision,    *)
(* every revision names the one it supersedes, and the id of a revision is  *)
(* the digest of its content.  A document and its first revision are stored *)
(* in one call; a child revision takes three (read, save the revision, save *)
(* the document), so between them another author may run, the port may      *)
(* fail, or the process may be gone.                                        *)
(*                                                                         *)
(* A revision's content is [document, number, parent, music], the parent    *)
(* being the content of the revision it cites: digests that agree are       *)
(* contents that agree, so the content stands for the digest and the id.    *)
(* Music (events, tempo, meter and resolution) is opaque here.              *)
(***************************************************************************)
EXTENDS Integers, FiniteSets

CONSTANTS
    Documents,     \* ids the id authority may issue
    Authors,       \* callers of create_child_revision
    Edits,         \* the music an author may write
    NoParent,      \* parent_revision_id None
    MaxNumber      \* bound on revision numbers

VARIABLES
    documents,     \* stored documents: id -> [current, count]
    revisions,     \* stored revisions: content -> who stored it
    authors        \* author -> [pc, document, revision, base]

revisionVars == <<documents, revisions, authors>>

\* The content the digest is taken over; the record's date, provenance and the
\* document's title are not part of it.
Revision(d, n, parent, music) ==
    [document |-> d, number |-> n, parent |-> parent, music |-> music]

\* What the record itself refuses: an origin with a parent, a later one without.
RevisionContract(r) == r.number >= 1 /\ (r.number = 1 <=> r.parent = NoParent)

Idle == [pc |-> "idle"]

RevisionInit ==
    /\ documents = [d \in {} |-> Idle]
    /\ revisions = [r \in {} |-> Idle]
    /\ authors = [a \in Authors |-> Idle]

Stored == DOMAIN revisions
Existing == DOMAIN documents

-----------------------------------------------------------------------------
(* The repository port *)

\* Wrong on purpose: the last write of a content replaces what was stored.
RevisionsOverwritten(r, by) ==
    [s \in Stored \cup {r} |-> IF s = r THEN by ELSE revisions[s]]
\* The first write of a content wins; the same content is stored once.
RevisionsWith(r, by) ==
    [s \in Stored \cup {r} |-> IF s \in Stored THEN revisions[s] ELSE by]

DocumentsWith(d, doc) ==
    [e \in Existing \cup {d} |-> IF e = d THEN doc ELSE documents[e]]

ListRevisions(d) == {r \in Stored : r.document = d}

-----------------------------------------------------------------------------
(* The revision service *)

Origin(d, music) == Revision(d, 1, NoParent, music)

\* The revision built on a parent, and what a child of it must be.
Child(d, parent, music) == Revision(d, parent.number + 1, parent, music)

IsChildOf(r, parent) ==
    /\ r.document = parent.document
    /\ r.parent = parent
    /\ r.number = parent.number + 1

\* create_document_with_revision: document and origin in one call, or neither.
CreateDocument(d, music, by) ==
    /\ d \notin Existing
    /\ revisions' = RevisionsWith(Origin(d, music), by)
    /\ documents' = DocumentsWith(d, [current |-> Origin(d, music), count |-> 1])
    /\ UNCHANGED authors

\* Wrong on purpose: the child is numbered by how many revisions are listed.
ReadParentNumbersByList(a, d, music) ==
    /\ authors[a].pc = "idle"
    /\ d \in Existing
    /\ LET parent == documents[d].current
       IN /\ parent.number < MaxNumber
          /\ authors' = [authors EXCEPT ![a] =
                [pc       |-> "built",
                 revision |-> Revision(d, Cardinality(ListRevisions(d)) + 1, parent, music),
                 count    |-> documents[d].count + 1]]
    /\ UNCHANGED <<documents, revisions>>
\* create_child_revision up to its first write: the parent is the revision that
\* is current now, and the advanced document is made from the one just read.
ReadParent(a, d, music) ==
    /\ authors[a].pc = "idle"
    /\ d \in Existing
    /\ LET parent == documents[d].current
           child  == Child(d, parent, music)
       IN /\ parent \in Stored
          /\ parent.document = d
          /\ parent.number < MaxNumber
          /\ RevisionContract(child) /\ IsChildOf(child, parent)
          /\ authors' = [authors EXCEPT ![a] =
                [pc |-> "built", revision |-> child, count |-> documents[d].count + 1]]
    /\ UNCHANGED <<documents, revisions>>

SaveRevision(a) ==
    /\ authors[a].pc = "built"
    /\ authors[a].revision.document \in Existing
    /\ revisions' = RevisionsWith(authors[a].revision, a)
    /\ authors' = [authors EXCEPT ![a].pc = "saved"]
    /\ UNCHANGED documents

SaveDocument(a) ==
    /\ authors[a].pc = "saved"
    /\ LET r == authors[a].revision
       IN /\ r.document \in Existing
          /\ documents' = DocumentsWith(r.document, [current |-> r, count |-> authors[a].count])
    /\ authors' = [authors EXCEPT ![a] = Idle]
    /\ UNCHANGED revisions

\* The port raises, or the caller is gone: what was stored stays stored.
Abandon(a) ==
    /\ authors[a].pc \in {"built", "saved"}
    /\ authors' = [authors EXCEPT ![a] = Idle]
    /\ UNCHANGED <<documents, revisions>>

AuthorStep(a) ==
    \/ \E d \in Documents, music \in Edits : ReadParent(a, d, music)
    \/ SaveRevision(a) \/ SaveDocument(a) \/ Abandon(a)

RevisionNext ==
    \/ \E d \in Documents, music \in Edits, a \in Authors : CreateDocument(d, music, a)
    \/ \E a \in Authors : AuthorStep(a)

RevisionSpec == RevisionInit /\ [][RevisionNext]_revisionVars

-----------------------------------------------------------------------------

\* One revision's place in its document's history.
Follows(r) ==
    IF r.number = 1 THEN r.parent = NoParent
    ELSE /\ r.parent \in Stored
         /\ r.parent.document = r.document
         /\ r.parent.number = r.number - 1

\* However authors interleave, fail or give up, the history behind every stored
\* revision is complete down to the origin of its own document, numbered without
\* a gap, and the current revision of a document is stored, is its own, and has
\* the number the document counts (revision_service.py:139-183).
HeadHistoryIsWhole ==
    /\ \A r \in Stored : r.document \in Existing /\ Follows(r)
    /\ \A d \in Existing :
          /\ documents[d].current \in Stored
          /\ documents[d].current.document = d
          /\ documents[d].current.number = documents[d].count

\* A stored revision is never replaced, not even by a write of the same content,
\* and neither a revision nor a document disappears (repository.py:205-243).
FirstWriteWins ==
    [][/\ \A r \in Stored : r \in Stored' /\ revisions'[r] = revisions[r]
       /\ Existing \subseteq Existing']_revisionVars

=============================================================================
