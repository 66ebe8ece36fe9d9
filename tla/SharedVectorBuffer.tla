--------------------------- MODULE SharedVectorBuffer ---------------------------
(***************************************************************************)
(* state_exchange/shared_buffer.py as operators on one buffer: the arrays  *)
(* kept in the process, the arrays kept in shared-memory segments, and the *)
(* segments the operating system holds.  A segment goes away only when it  *)
(* is unlinked; dropping the object that created it closes its mapping.    *)
(*                                                                         *)
(* Segments are numbered in the order of their creation.  `orphans` is not *)
(* in the program: the segments whose entry in _shm was overwritten.       *)
(*                                                                         *)
(* A definition D_Something is a faulty variant of D.  Nothing uses it; put *)
(* in the place of D it shows that a property can be broken by a bug.      *)
(***************************************************************************)
EXTENDS Integers

Mappings(Key, n) == UNION {[D -> 1..n] : D \in SUBSET Key}

\* The buffers over a set of keys that created up to n segments.
Buffers(Key, n) ==
    [shared : BOOLEAN,        \* use_shared_memory
     degraded : BOOLEAN,      \* _degraded
     inproc : SUBSET Key,     \* the keys of _inproc
     shm : Mappings(Key, n),  \* _shm
     segments : SUBSET (1..n),   \* the segments that exist
     orphans : SUBSET (1..n),
     created : 0..n]          \* how many segments were created

NewBuffer(shared) ==
    [shared |-> shared, degraded |-> FALSE, inproc |-> {}, shm |-> [k \in {} |-> 1],
     segments |-> {}, orphans |-> {}, created |-> 0]

\* exists(key); get raises KeyError exactly when it is false.
Has(b, k) == k \in DOMAIN b.shm \/ k \in b.inproc

\* The segment that k loses when it gets another one.
Displaced(b, k) == IF k \in DOMAIN b.shm THEN {b.shm[k]} ELSE {}

InShm(b, k) ==
    [shared |-> b.shared,
     degraded |-> b.degraded,
     inproc |-> b.inproc,
     shm |-> [x \in DOMAIN b.shm \cup {k} |-> IF x = k THEN b.created + 1 ELSE b.shm[x]],
     segments |-> b.segments \cup {b.created + 1},
     orphans |-> b.orphans \cup Displaced(b, k),
     created |-> b.created + 1]

\* An entry of _shm under the same key stays, and stays the one that is read.
InProcess(b, k) ==
    [b EXCEPT !.inproc = @ \cup {k}, !.degraded = @ \/ b.shared]

\* put(key, array); `created` says whether SharedMemory(create=True) succeeds.
Put(b, k, created) == IF b.shared /\ created THEN InShm(b, k) ELSE InProcess(b, k)

\* The segments some key is read from.
Used(b) == {b.shm[k] : k \in DOMAIN b.shm}

Closed_ForgetsOnly(b) ==
    [b EXCEPT !.shm = [k \in {} |-> 1], !.inproc = {}]

\* close(): unlinks the segments that are still in _shm.  What it silences cannot
\* happen here: closing a mapping raises while an array views it, and put and get drop
\* theirs; unlinking raises for a segment that somebody else removed.
Closed(b) ==
    [b EXCEPT !.segments = @ \ Used(b),
              !.shm = [k \in {} |-> 1],
              !.inproc = {}]
=============================================================================
