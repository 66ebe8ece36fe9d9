--------------------------- MODULE ArtifactStore_proofs ---------------------------
(***************************************************************************)
(* Proofs about ArtifactStore, for any set of contents and any bound.      *)
(***************************************************************************)
EXTENDS ArtifactStore, TLAPS

\* Every reference that is counted is also stored, and can be resolved.
IInv == TypeOK /\ TablesAgree /\ RefcountMatchesHolders /\ HeldIsAvailable

\* A collection never drops a content that a client owns a reference to, not
\* even one that was invalidated and put again.
NeverCollectsHeld ==
    [][Collect => \A c \in blobs \ blobs' : Holders(c) = 0]_vars

\* What an update of one count does to all the counts.
LEMMA WithCountIs ==
    ASSUME TypeOK, NEW c \in Content, NEW n \in Nat, refcount' = WithCount(c, n)
    PROVE  /\ DOMAIN refcount' = DOMAIN refcount \cup {c}
           /\ DOMAIN refcount' \subseteq Content
           /\ refcount' \in [DOMAIN refcount' -> Nat]
           /\ Count(c)' = n
           /\ \A d \in Content \ {c} : Count(d)' = Count(d)
  BY DEF TypeOK, WithCount, Count

\* A count is a natural number.
LEMMA CountTyped == ASSUME TypeOK, NEW c \in Content PROVE Count(c) \in Nat
  BY DEF TypeOK, Count

\* The URIs of a content are its task and its global URI.
LEMMA UriPairs ==
    /\ \A c \in Content, s \in Scope : <<s, c>> \in Uri /\ <<s, c>>[1] = s /\ <<s, c>>[2] = c
    /\ \A u \in Uri : u[1] \in Scope /\ u[2] \in Content /\ u = <<u[1], u[2]>>
  BY DEF Uri

\* Raising one entry of held by one raises the holders of its content by one.
LEMMA HoldersUp ==
    ASSUME TypeOK, NEW u \in Uri, held' = [held EXCEPT ![u] = @ + 1]
    PROVE  /\ held' \in [Uri -> Nat]
           /\ Holders(u[2])' = Holders(u[2]) + 1
           /\ \A d \in Content \ {u[2]} : Holders(d)' = Holders(d)
  BY UriPairs DEF TypeOK, Holders, Scope

\* Lowering one entry lowers the holders of its content by one.
LEMMA HoldersDown ==
    ASSUME TypeOK, NEW u \in Uri, held[u] > 0, held' = [held EXCEPT ![u] = @ - 1]
    PROVE  /\ held' \in [Uri -> Nat]
           /\ Holders(u[2]) > 0
           /\ Holders(u[2])' = Holders(u[2]) - 1
           /\ \A d \in Content \ {u[2]} : Holders(d)' = Holders(d)
  BY UriPairs DEF TypeOK, Holders, Scope

\* So is a number of holders.
LEMMA HoldersTyped == ASSUME TypeOK, NEW c \in Content PROVE Holders(c) \in Nat
  BY UriPairs DEF TypeOK, Holders, Scope

\* The empty store satisfies the invariant, and each operation keeps it.
LEMMA InitIInv == Init => IInv
  BY UriPairs
  DEF Init, IInv, TypeOK, TablesAgree, RefcountMatchesHolders, HeldIsAvailable, Holders, Count,
      Scope

\* put adds one count and one holder.
LEMMA PutIInv ==
    ASSUME IInv, NEW c \in Content, NEW s \in Scope, Put(c, s)
    PROVE  IInv'
<1> DEFINE u == <<s, c>>
<1>0. TypeOK /\ TablesAgree /\ RefcountMatchesHolders /\ HeldIsAvailable
  BY DEF IInv
<1>1. u \in Uri /\ u[1] = s /\ u[2] = c
  BY UriPairs
<1>2. /\ Count(c) \in Nat /\ Count(c) + 1 \in Nat
      /\ refcount' = WithCount(c, Count(c) + 1)
  BY <1>0, CountTyped DEF Put
<1>3. held' = [held EXCEPT ![u] = @ + 1]
  BY DEF Put
<1> HIDE DEF u
<1>4. /\ DOMAIN refcount' = DOMAIN refcount \cup {c}
      /\ DOMAIN refcount' \subseteq Content
      /\ refcount' \in [DOMAIN refcount' -> Nat]
      /\ Count(c)' = Count(c) + 1
      /\ \A d \in Content \ {c} : Count(d)' = Count(d)
  BY <1>0, <1>2, WithCountIs
<1>5. /\ held' \in [Uri -> Nat]
      /\ Holders(c)' = Holders(c) + 1
      /\ \A d \in Content \ {c} : Holders(d)' = Holders(d)
  BY <1>0, <1>1, <1>3, HoldersUp
<1>6. meta' = meta \cup {u} /\ blobs' = blobs \cup {c} /\ cut' = cut
  BY DEF Put, u
<1>7. TypeOK'
  BY <1>0, <1>1, <1>4, <1>5, <1>6 DEF TypeOK
<1>8. TablesAgree'
  BY <1>0, <1>1, <1>4, <1>6 DEF TablesAgree
<1>9. RefcountMatchesHolders'
  BY <1>0, <1>4, <1>5, <1>6, CountTyped, HoldersTyped DEF RefcountMatchesHolders
<1>10. HeldIsAvailable'
  BY <1>0, <1>1, <1>3, <1>6 DEF HeldIsAvailable, Exists, TypeOK
<1> QED
  BY <1>7, <1>8, <1>9, <1>10 DEF IInv

\* incref adds one count and one holder of a URI that resolves.
LEMMA IncrefIInv ==
    ASSUME IInv, NEW u \in Uri, Incref(u)
    PROVE  IInv'
<1>0. TypeOK /\ TablesAgree /\ RefcountMatchesHolders /\ HeldIsAvailable
  BY DEF IInv
<1>1. /\ u[2] \in Content /\ Count(u[2]) \in Nat /\ Count(u[2]) + 1 \in Nat
      /\ refcount' = WithCount(u[2], Count(u[2]) + 1)
  BY <1>0, UriPairs, CountTyped DEF Incref
<1>2. /\ DOMAIN refcount' = DOMAIN refcount \cup {u[2]}
      /\ DOMAIN refcount' \subseteq Content
      /\ refcount' \in [DOMAIN refcount' -> Nat]
      /\ Count(u[2])' = Count(u[2]) + 1
      /\ \A d \in Content \ {u[2]} : Count(d)' = Count(d)
  BY <1>0, <1>1, WithCountIs
<1>3. /\ held' \in [Uri -> Nat]
      /\ Holders(u[2])' = Holders(u[2]) + 1
      /\ \A d \in Content \ {u[2]} : Holders(d)' = Holders(d)
  BY <1>0, HoldersUp DEF Incref
<1>4. UNCHANGED <<blobs, meta, cut>>
  BY DEF Incref
<1>5. TypeOK' /\ TablesAgree'
  BY <1>0, <1>2, <1>3, <1>4 DEF TypeOK, TablesAgree
<1>6. RefcountMatchesHolders'
  BY <1>0, <1>1, <1>2, <1>3, <1>4, CountTyped, HoldersTyped DEF RefcountMatchesHolders
<1>7. HeldIsAvailable'
  BY <1>0, <1>4 DEF HeldIsAvailable, Exists, Incref, TypeOK
<1> QED
  BY <1>5, <1>6, <1>7 DEF IInv

\* decref takes one of each, or, for a dead URI, a holder only.
LEMMA DecrefIInv ==
    ASSUME IInv, NEW u \in Uri, Decref(u)
    PROVE  IInv'
<1>0. TypeOK /\ TablesAgree /\ RefcountMatchesHolders /\ HeldIsAvailable
  BY DEF IInv
<1>1. u[2] \in Content /\ Count(u[2]) \in Nat /\ held[u] > 0
  BY <1>0, UriPairs, CountTyped DEF Decref
<1>2. /\ held' \in [Uri -> Nat]
      /\ Holders(u[2]) > 0
      /\ Holders(u[2])' = Holders(u[2]) - 1
      /\ \A d \in Content \ {u[2]} : Holders(d)' = Holders(d)
  BY <1>0, HoldersDown DEF Decref
<1>3. Holders(u[2]) \in Nat /\ Count(u[2]) >= Holders(u[2])
  BY <1>0, <1>1, HoldersTyped DEF RefcountMatchesHolders
<1>4. UNCHANGED <<blobs, meta, cut>>
  BY DEF Decref
<1>5. HeldIsAvailable'
  BY <1>0, <1>4 DEF HeldIsAvailable, Exists, Decref, TypeOK
<1>6. CASE u \in meta
  <2>1. Count(u[2]) - 1 \in Nat /\ refcount' = WithCount(u[2], Count(u[2]) - 1)
    BY <1>1, <1>2, <1>3, <1>6 DEF Decref
  <2>2. /\ DOMAIN refcount' = DOMAIN refcount \cup {u[2]}
        /\ DOMAIN refcount' \subseteq Content
        /\ refcount' \in [DOMAIN refcount' -> Nat]
        /\ Count(u[2])' = Count(u[2]) - 1
        /\ \A d \in Content \ {u[2]} : Count(d)' = Count(d)
    BY <1>0, <1>1, <2>1, WithCountIs
  <2>3. TypeOK' /\ TablesAgree'
    BY <1>0, <1>2, <1>4, <2>2 DEF TypeOK, TablesAgree
  <2>4. RefcountMatchesHolders'
    BY <1>0, <1>1, <1>2, <1>3, <1>4, <2>2, CountTyped, HoldersTyped DEF RefcountMatchesHolders
  <2> QED
    BY <1>5, <2>3, <2>4 DEF IInv
<1>7. CASE u \notin meta
  <2>1. UNCHANGED refcount /\ u[2] \in cut
    BY <1>0, <1>1, <1>7 DEF Decref, HeldIsAvailable, Exists
  <2>2. TypeOK' /\ TablesAgree'
    BY <1>0, <1>2, <1>4, <2>1 DEF TypeOK, TablesAgree
  <2>3. \A d \in Content : Count(d)' = Count(d)
    BY <2>1 DEF Count
  <2>4. RefcountMatchesHolders'
    BY <1>0, <1>1, <1>2, <1>3, <1>4, <2>1, <2>3, CountTyped, HoldersTyped
    DEF RefcountMatchesHolders
  <2> QED
    BY <1>5, <2>2, <2>4 DEF IInv
<1> QED
  BY <1>6, <1>7

\* A content with a holder is no garbage.
LEMMA HeldIsNoGarbage ==
    ASSUME IInv, NEW c \in Content, Holders(c) > 0
    PROVE  c \notin Garbage
  BY CountTyped, HoldersTyped DEF IInv, RefcountMatchesHolders, Garbage, Count, TypeOK

\* collect drops contents without a count, hence without a holder.
LEMMA CollectIInv ==
    ASSUME IInv, Collect
    PROVE  IInv'
<1>0. TypeOK /\ TablesAgree /\ RefcountMatchesHolders /\ HeldIsAvailable
  BY DEF IInv
<1>1. /\ blobs' = blobs \ Garbage
      /\ refcount' = [c \in DOMAIN refcount \ Garbage |-> refcount[c]]
      /\ meta' = {u \in meta : u[2] \in blobs'}
      /\ held' = held /\ cut' = cut
  BY DEF Collect
<1>2. Garbage \subseteq Content
  BY <1>0 DEF Garbage, TypeOK
<1>3. TypeOK'
  BY <1>0, <1>1 DEF TypeOK
<1>4. TablesAgree'
  BY <1>0, <1>1, UriPairs DEF TablesAgree, TypeOK
<1>5. \A c \in Content : Count(c)' = Count(c)
  BY <1>0, <1>1 DEF Count, Garbage, TypeOK
<1>6. \A c \in Content : Holders(c)' = Holders(c)
  BY <1>1 DEF Holders
<1>7. RefcountMatchesHolders'
  BY <1>0, <1>1, <1>5, <1>6 DEF RefcountMatchesHolders
<1>8. \A u \in Uri : held[u] > 0 => Holders(u[2]) > 0
  BY <1>0, UriPairs DEF Holders, TypeOK, Scope
<1>9. HeldIsAvailable'
  BY <1>0, <1>1, <1>8, UriPairs, HeldIsNoGarbage DEF HeldIsAvailable, Exists, IInv
<1> QED
  BY <1>3, <1>4, <1>7, <1>9 DEF IInv

\* invalidate drops bytes, and takes the content out of the promise.
LEMMA InvalidateIInv ==
    ASSUME IInv, NEW u \in Uri, Invalidate(u)
    PROVE  IInv'
<1>0. TypeOK /\ TablesAgree /\ RefcountMatchesHolders /\ HeldIsAvailable
  BY DEF IInv
<1>1. u[2] \in Content
  BY UriPairs
<1>2. TypeOK' /\ TablesAgree'
  BY <1>0, <1>1 DEF Invalidate, TypeOK, TablesAgree
<1>3. \A c \in Content : Count(c)' = Count(c) /\ Holders(c)' = Holders(c)
  BY DEF Invalidate, Count, Holders
<1>4. RefcountMatchesHolders'
  BY <1>0, <1>3 DEF Invalidate, RefcountMatchesHolders
<1>5. HeldIsAvailable'
  BY <1>0 DEF Invalidate, HeldIsAvailable, Exists
<1> QED
  BY <1>2, <1>4, <1>5 DEF IInv

\* The invariant is inductive.
LEMMA NextIInv == IInv /\ [Next]_vars => IInv'
<1> SUFFICES ASSUME IInv, [Next]_vars PROVE IInv'
  OBVIOUS
<1>1. CASE UNCHANGED vars
  BY <1>1
  DEF vars, IInv, TypeOK, TablesAgree, RefcountMatchesHolders, HeldIsAvailable, Holders, Count,
      Exists
<1> QED
  BY <1>1, PutIInv, IncrefIInv, DecrefIInv, CollectIInv, InvalidateIInv DEF Next

----------------------------------------------------------------------------
\* The inductive invariant of the artifact store.
THEOREM Safety == Spec => []IInv
<1>1. IInv /\ [Next]_vars => IInv'
  BY NextIInv
<1> QED
  BY InitIInv, <1>1, PTL DEF Spec

\* Types: no operation makes a count negative.
THEOREM TypeCorrect == Spec => []TypeOK
<1>1. IInv => TypeOK
  BY DEF IInv
<1> QED
  BY Safety, <1>1, PTL

\* put, collect and invalidate keep the three tables in agreement.
THEOREM TablesAlwaysAgree == Spec => []TablesAgree
<1>1. IInv => TablesAgree
  BY DEF IInv
<1> QED
  BY Safety, <1>1, PTL

\* A count is never below the references its clients own, and equals them for a
\* content that was never invalidated.
THEOREM CountsTheHolders == Spec => []RefcountMatchesHolders
<1>1. IInv => RefcountMatchesHolders
  BY DEF IInv
<1> QED
  BY Safety, <1>1, PTL

\* An owned reference resolves as long as its content was not invalidated.
THEOREM HeldStaysAvailable == Spec => []HeldIsAvailable
<1>1. IInv => HeldIsAvailable
  BY DEF IInv
<1> QED
  BY Safety, <1>1, PTL

\* No collection drops a content a client still owns a reference to.
THEOREM CollectSparesTheHeld == Spec => NeverCollectsHeld
<1>1. ASSUME IInv, [Next]_vars
      PROVE  [Collect => \A c \in blobs \ blobs' : Holders(c) = 0]_vars
  <2>1. ASSUME Collect, NEW c \in blobs \ blobs' PROVE Holders(c) = 0
    BY <1>1, <2>1, HeldIsNoGarbage, HoldersTyped DEF Collect, IInv, TypeOK
  <2> QED
    BY <2>1
<1> QED
  BY Safety, <1>1, PTL DEF Spec, NeverCollectsHeld
=============================================================================
