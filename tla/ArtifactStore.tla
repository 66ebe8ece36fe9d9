------------------------------ MODULE ArtifactStore ------------------------------
(***************************************************************************)
(* artifact_store/store.py: contents addressed by their hash, the URIs     *)
(* under which they are known, and one reference count per content.        *)
(*                                                                         *)
(* `held` and `cut` are not in the program: they record which references   *)
(* its clients own (put hands one out, incref shares one, decref gives one *)
(* back) and which contents were ever invalidated.                         *)
(*                                                                         *)
(* A definition D_Something is a faulty variant of D.  Nothing uses it; put *)
(* in the place of D it shows that a property can be broken by a bug.      *)
(***************************************************************************)
EXTENDS Integers

CONSTANTS
    Content,   \* the content hashes
    MaxCount   \* bound: the largest reference count explored

ASSUME MaxCountAssumption == MaxCount \in Nat

Scope == {"task", "global"}
Uri == Scope \X Content

VARIABLES
    blobs,     \* _blobs: the hashes whose bytes are stored
    meta,      \* _meta: the URIs that have an ArtifactRef
    refcount,  \* _refcount: content_hash -> count
    held,      \* history: how many references to each URI the clients own
    cut        \* history: the contents that were invalidated

vars == <<blobs, meta, refcount, held, cut>>

TypeOK ==
    /\ blobs \subseteq Content
    /\ meta \subseteq Uri
    /\ DOMAIN refcount \subseteq Content
    /\ refcount \in [DOMAIN refcount -> Nat]
    /\ held \in [Uri -> Nat]
    /\ cut \subseteq Content

Init ==
    /\ blobs = {}
    /\ meta = {}
    /\ refcount = [c \in {} |-> 0]
    /\ held = [u \in Uri |-> 0]
    /\ cut = {}

\* _refcount.get(content_hash, 0)
Count(c) == IF c \in DOMAIN refcount THEN refcount[c] ELSE 0

\* _refcount[content_hash] = n
WithCount(c, n) == [k \in DOMAIN refcount \cup {c} |-> IF k = c THEN n ELSE refcount[k]]

\* exists(uri); get_bytes raises ReferenceError_ exactly when this is false.
Exists(u) == u \in meta /\ u[2] \in blobs

Put_CountsOnce(c, s) ==
    /\ Count(c) < MaxCount
    /\ blobs' = blobs \cup {c}
    /\ refcount' = WithCount(c, 1)
    /\ meta' = meta \cup {<<s, c>>}
    /\ held' = [held EXCEPT ![<<s, c>>] = @ + 1]
    /\ UNCHANGED cut

Put(c, s) ==
    /\ Count(c) < MaxCount
    /\ blobs' = blobs \cup {c}
    /\ refcount' = WithCount(c, Count(c) + 1)
    /\ meta' = meta \cup {<<s, c>>}
    /\ held' = [held EXCEPT ![<<s, c>>] = @ + 1]
    /\ UNCHANGED cut

\* A holder shares a reference that still resolves.
Incref(u) ==
    /\ held[u] > 0
    /\ Exists(u)
    /\ Count(u[2]) < MaxCount
    /\ refcount' = WithCount(u[2], Count(u[2]) + 1)
    /\ held' = [held EXCEPT ![u] = @ + 1]
    /\ UNCHANGED <<blobs, meta, cut>>

\* Releases both URIs of the content at once, without max(0, ...).
Decref_Unclamped(u) ==
    /\ held[u] > 0
    /\ refcount' = IF u \in meta THEN WithCount(u[2], Count(u[2]) - 2) ELSE refcount
    /\ held' = [held EXCEPT ![u] = @ - 1]
    /\ UNCHANGED <<blobs, meta, cut>>

\* A holder gives its reference back; a URI without metadata is ignored.
Decref(u) ==
    /\ held[u] > 0
    /\ refcount' = IF u \in meta
                   THEN WithCount(u[2], IF Count(u[2]) > 0 THEN Count(u[2]) - 1 ELSE 0)
                   ELSE refcount
    /\ held' = [held EXCEPT ![u] = @ - 1]
    /\ UNCHANGED <<blobs, meta, cut>>

Garbage_LastHolder == {c \in DOMAIN refcount : refcount[c] <= 1}

\* The contents whose count dropped to zero.
Garbage == {c \in DOMAIN refcount : refcount[c] <= 0}

Collect_KeepsMeta ==
    /\ blobs' = blobs \ Garbage
    /\ refcount' = [c \in DOMAIN refcount \ Garbage |-> refcount[c]]
    /\ UNCHANGED <<meta, held, cut>>

\* Drops the garbage, then the URIs whose content is gone.
Collect ==
    /\ blobs' = blobs \ Garbage
    /\ refcount' = [c \in DOMAIN refcount \ Garbage |-> refcount[c]]
    /\ meta' = {u \in meta : u[2] \in blobs'}
    /\ UNCHANGED <<held, cut>>

\* Drops the bytes behind a URI and nothing else; an unknown URI is ignored.
Invalidate(u) ==
    /\ u \in meta
    /\ blobs' = blobs \ {u[2]}
    /\ cut' = cut \cup {u[2]}
    /\ UNCHANGED <<meta, refcount, held>>

Next ==
    \/ \E c \in Content, s \in Scope : Put(c, s)
    \/ \E u \in Uri : Incref(u) \/ Decref(u) \/ Invalidate(u)
    \/ Collect

Spec == Init /\ [][Next]_vars

----------------------------------------------------------------------------
\* The references the clients own to a content, under either of its URIs.
Holders(c) == held[<<"task", c>>] + held[<<"global", c>>]

\* The three tables agree: every stored content and every URI has a reference
\* count, and every stored content can still be reached by a URI.  (put, collect
\* and invalidate update them one by one.)
TablesAgree ==
    /\ blobs \subseteq DOMAIN refcount
    /\ \A u \in meta : u[2] \in DOMAIN refcount
    /\ \A c \in blobs : \E u \in meta : u[2] = c

\* The count of a content is the number of references its clients own, summed
\* over the task and the global URI; for a content that was invalidated once,
\* releases of its dead URIs are ignored and the count can only be too high.
RefcountMatchesHolders ==
    \A c \in Content : /\ Holders(c) <= Count(c)
                       /\ c \notin cut => Count(c) = Holders(c)

\* A client that owns a reference can resolve it, whatever the other clients
\* release and whenever the store is collected, unless it was invalidated.
HeldIsAvailable ==
    \A u \in Uri : held[u] > 0 /\ u[2] \notin cut => Exists(u)
=============================================================================
