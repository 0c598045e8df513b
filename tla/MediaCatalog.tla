---------------------------- MODULE MediaCatalog ----------------------------
(***************************************************************************)
(* The catalog of teaching media and what a lesson's page is told of it:    *)
(* the contracts of media/contracts.py, media/catalog.py, media/resolver.py *)
(* and lesson_media_payload.  The catalog is read anew for each request.    *)
(*                                                                         *)
(* Media are [id, type, asset, inline, duration, cues], references          *)
(* [id, lesson, media, order, binding]; asset is None for a path that leads *)
(* out of the assets.  Titles, roles, provenance and texts are left out.    *)
(***************************************************************************)
EXTENDS MediaBinding, FiniteSets, Sequences

\* What the fields of a catalog hold before any contract looks at them; Length
\* has the length of every clip.
CatalogTypes(c, Length) ==
    /\ IsFiniteSet(c.references)
    /\ \A r \in c.references :
          /\ r.order \in Int /\ r.id \in Int
          /\ r.binding # None =>
                /\ r.binding.from \in Int /\ r.binding.mediaFrom \in Int
                /\ {r.binding.until, r.binding.mediaUntil} \subseteq Int \cup {None}
    /\ \A m \in c.media :
          /\ m.type = "video" => m.id \in DOMAIN Length
          /\ \A q \in m.cues : q.at \in Int /\ q.lesson \in Int \cup {None}

CueContract(c) == c.at >= 0 /\ (c.lesson # None => c.lesson >= 0)

MediaContract(m) ==
    /\ m.type \in {"text", "image", "video"}
    /\ m.duration # None => m.duration >= 0
    /\ \A c \in m.cues : CueContract(c) /\ (m.duration # None => c.at <= m.duration)
    /\ \A c, d \in m.cues : c.id = d.id => c = d

\* A binding of another lesson or another clip is refused where it is declared.
ReferenceContract(r) ==
    r.binding # None =>
        /\ BindingContract(r.binding)
        /\ r.binding.lesson = r.lesson /\ r.binding.media = r.media

CatalogContract(c) ==
    /\ \A m, n \in c.media : m.id = n.id => m = n
    /\ \A r, s \in c.references : r.id = s.id => r = s

\* load_media_catalog: every constructor has to accept what it is given.
Loads(c) ==
    /\ \A m \in c.media : MediaContract(m)
    /\ \A r \in c.references : ReferenceContract(r)
    /\ CatalogContract(c)

Before(r, s) == r.order < s.order \/ (r.order = s.order /\ r.id < s.id)

\* SetToSortSeq would do, but nothing can be proved of its SortSeq.
ListForLesson(c, lesson) ==
    LET declared == {r \in c.references : r.lesson = lesson}
    IN CHOOSE list \in [1 .. Cardinality(declared) -> declared] :
          \A i, j \in DOMAIN list : i < j => Before(list[i], list[j])

\* MediaResolver.resolve: a text is in the catalog itself, the rest are files.
Available(m, files) == (m.type = "text" /\ m.inline) \/ m.asset \in files

UnavailableText(id) ==
    [id |-> id, type |-> "text", asset |-> None, inline |-> TRUE, duration |-> None, cues |-> {}]

Resolved(r, c, files) ==
    LET known == {m \in c.media : m.id = r.media}
        m     == IF known = {} THEN UnavailableText(r.media) ELSE CHOOSE x \in known : TRUE
    IN [media |-> m, binding |-> r.binding, available |-> known # {} /\ Available(m, files)]

ResolveForLesson(c, lesson, files) ==
    [i \in DOMAIN ListForLesson(c, lesson) |-> Resolved(ListForLesson(c, lesson)[i], c, files)]

\* The answer to GET /api/v1/lessons/<lesson>/media: a catalog that is missing
\* has no items, one that is refused has no answer.
MediaAnswer(c, lesson, files) ==
    IF c = None THEN [ok |-> TRUE, items |-> <<>>]
    ELSE IF ~Loads(c) THEN [ok |-> FALSE, items |-> <<>>]
    ELSE [ok |-> TRUE, items |-> ResolveForLesson(c, lesson, files)]

=============================================================================
