--------------------------- MODULE StateExchange_proofs ---------------------------
(***************************************************************************)
(* The invariants of the state exchange, for any plans and texts.  The     *)
(* argument about segments is made for one buffer and one put; the new     *)
(* segment is one nobody uses because segments are numbered as they are    *)
(* created (Fresh), which is the strengthening the induction needs.        *)
(***************************************************************************)
EXTENDS StateExchange, TLAPS

InShmFields(b, m, k) ==
    /\ m.shared = b.shared
    /\ m.degraded = b.degraded
    /\ m.inproc = b.inproc
    /\ m.shm = [x \in DOMAIN b.shm \cup {k} |-> IF x = k THEN b.created + 1 ELSE b.shm[x]]
    /\ m.segments = b.segments \cup {b.created + 1}
    /\ m.orphans = b.orphans \cup Displaced(b, k)
    /\ m.created = b.created + 1

\* What a put into shared memory leaves in each field of the buffer.
LEMMA InShmHasFields ==
    ASSUME NEW b \in Buffers(Key, MaxSegments), NEW k \in Key
    PROVE  InShmFields(b, InShm(b, k), k)
  BY DEF InShm, InShmFields, Buffers

\* What a put into process memory leaves in them.
LEMMA InProcessHasFields ==
    ASSUME NEW b \in Buffers(Key, MaxSegments), NEW k \in Key
    PROVE  /\ InProcess(b, k).shared = b.shared
           /\ InProcess(b, k).degraded = (b.degraded \/ b.shared)
           /\ InProcess(b, k).inproc = b.inproc \cup {k}
           /\ InProcess(b, k).shm = b.shm
           /\ InProcess(b, k).segments = b.segments
           /\ InProcess(b, k).orphans = b.orphans
           /\ InProcess(b, k).created = b.created
  BY DEF InProcess, Buffers

\* Either way the result is a buffer.
LEMMA PutHasType ==
    ASSUME NEW b \in Buffers(Key, MaxSegments), NEW k \in Key, NEW c \in BOOLEAN,
           b.created + 1 <= MaxSegments
    PROVE  Put(b, k, c) \in Buffers(Key, MaxSegments)
<1>1. InProcess(b, k) \in Buffers(Key, MaxSegments)
  BY DEF InProcess, Buffers
<1>2. PICK D \in SUBSET Key : b.shm \in [D -> 1..MaxSegments]
  BY DEF Buffers, Mappings
<1>3. b.created \in Nat /\ b.created + 1 \in 1..MaxSegments
  BY MaxSegmentsAssumption DEF Buffers
<1> DEFINE s == [x \in DOMAIN b.shm \cup {k} |-> IF x = k THEN b.created + 1 ELSE b.shm[x]]
<1>4. s \in [D \cup {k} -> 1..MaxSegments] /\ D \cup {k} \in SUBSET Key
  BY <1>2, <1>3
<1>5. s \in Mappings(Key, MaxSegments)
  BY <1>4 DEF Mappings
<1>6. b.orphans \cup Displaced(b, k) \in SUBSET (1..MaxSegments)
  BY <1>2 DEF Displaced, Buffers
<1>7. b.segments \cup {b.created + 1} \in SUBSET (1..MaxSegments)
  BY <1>3 DEF Buffers
<1>8. b.shared \in BOOLEAN /\ b.degraded \in BOOLEAN /\ b.inproc \in SUBSET Key
  BY DEF Buffers
<1>9. b.created + 1 \in 0..MaxSegments
  BY <1>3
<1>10. InShm(b, k) = [shared |-> b.shared, degraded |-> b.degraded, inproc |-> b.inproc,
                      shm |-> s, segments |-> b.segments \cup {b.created + 1},
                      orphans |-> b.orphans \cup Displaced(b, k), created |-> b.created + 1]
  BY DEF InShm
<1> HIDE DEF s
<1>11. InShm(b, k) \in Buffers(Key, MaxSegments)
  BY <1>5, <1>6, <1>7, <1>8, <1>9, <1>10 DEF Buffers
<1> QED BY <1>1, <1>11 DEF Put

\* Segments carry numbers already given out.
Fresh(b) == \A n \in b.segments : n <= b.created

\* A put displaces at most its own segment, and uses a fresh one.
LEMMA PutAccounts ==
    ASSUME NEW b \in Buffers(Key, MaxSegments), NEW k \in Key, NEW c \in BOOLEAN,
           Accounted(b), Fresh(b)
    PROVE  Accounted(Put(b, k, c)) /\ Fresh(Put(b, k, c))
<1>1. b.created \in Nat /\ b.segments \subseteq Nat
  BY MaxSegmentsAssumption DEF Buffers
<1>2. Accounted(InProcess(b, k)) /\ Fresh(InProcess(b, k))
  BY InProcessHasFields DEF Accounted, Fresh, Used
<1> DEFINE m == InShm(b, k)
           n == b.created + 1
<1>3. /\ DOMAIN m.shm = DOMAIN b.shm \cup {k}
      /\ m.shm[k] = n
      /\ \A x \in DOMAIN b.shm \ {k} : m.shm[x] = b.shm[x]
      /\ m.segments = b.segments \cup {n}
      /\ m.orphans = b.orphans \cup Displaced(b, k)
      /\ m.created = n
  BY DEF InShm
<1> HIDE DEF m
<1>4. n \notin b.segments
  BY <1>1 DEF Fresh
<1>5. n \notin Used(b) /\ n \notin b.orphans
  BY <1>4 DEF Accounted
<1>6. \A x \in DOMAIN b.shm : b.shm[x] \in Used(b)
  BY DEF Used
<1>7. Used(m) = (Used(b) \ Displaced(b, k)) \cup {n}
  BY <1>3 DEF Used, Displaced, Accounted
<1>8. Displaced(b, k) \subseteq Used(b)
  BY DEF Used, Displaced
<1>9. \A j, x \in DOMAIN m.shm : m.shm[j] = m.shm[x] => j = x
  BY <1>3, <1>5, <1>6 DEF Accounted
<1>10. m.segments = Used(m) \cup m.orphans /\ Used(m) \cap m.orphans = {}
  BY <1>3, <1>5, <1>7, <1>8 DEF Accounted
<1>11. Fresh(m)
  BY <1>1, <1>3 DEF Fresh
<1>12. Accounted(m) /\ Fresh(m)
  BY <1>9, <1>10, <1>11 DEF Accounted
<1> QED BY <1>2, <1>12 DEF Put, m

\* What a put adds to a buffer.
LEMMA PutHas ==
    ASSUME NEW b \in Buffers(Key, MaxSegments), NEW k \in Key, NEW c \in BOOLEAN
    PROVE  /\ \A j \in Key : Has(Put(b, k, c), j) <=> Has(b, j) \/ j = k
           /\ DOMAIN b.shm \subseteq DOMAIN Put(b, k, c).shm
           /\ b.degraded => Put(b, k, c).degraded
           /\ Put(b, k, c).shared = b.shared
           /\ b.shared /\ ~ Put(b, k, c).degraded => k \in DOMAIN Put(b, k, c).shm
<1>1. InShmFields(b, InShm(b, k), k)
  BY InShmHasFields
<1> QED BY <1>1, InProcessHasFields DEF Put, Has, InShmFields

\* What close leaves of the buffer.
LEMMA CloseHasFields ==
    ASSUME NEW b \in Buffers(Key, MaxSegments)
    PROVE  /\ Closed(b) \in Buffers(Key, MaxSegments)
           /\ DOMAIN Closed(b).shm = {}
           /\ Closed(b).inproc = {}
           /\ Closed(b).segments = b.segments \ Used(b)
           /\ Closed(b).orphans = b.orphans
           /\ Closed(b).created = b.created
<1>1. [k \in {} |-> 1] \in Mappings(Key, MaxSegments)
  BY DEF Mappings
<1> DEFINE s == [k \in {} |-> 1]
<1>2. DOMAIN s = {}
  OBVIOUS
<1>3. Closed(b) = [b EXCEPT !.segments = b.segments \ Used(b), !.shm = s, !.inproc = {}]
  BY DEF Closed
<1> HIDE DEF s
<1> QED BY <1>1, <1>2, <1>3 DEF Buffers, s

----------------------------------------------------------------------------
Inv ==
    /\ TypeOK
    /\ PlansAreComplete
    /\ SegmentsAreAccounted
    /\ Fresh(buffer)
    /\ LabelIsTrue

\* A new exchange satisfies the invariant.
LEMMA InitInv == Init => Inv
<1>2. [k \in {} |-> 1] \in Mappings(Key, MaxSegments)
  BY DEF Mappings
<1> SUFFICES ASSUME Init PROVE Inv
  OBVIOUS
<1> USE DEF Init
<1>1. PICK s \in BOOLEAN : buffer = NewBuffer(s)
  OBVIOUS
<1>3. TypeOK
  BY <1>1, <1>2, MaxSegmentsAssumption DEF TypeOK, NewBuffer, Buffers
<1>4. PlansAreComplete /\ SegmentsAreAccounted /\ Fresh(buffer) /\ LabelIsTrue
  BY <1>1 DEF PlansAreComplete, SegmentsAreAccounted, Accounted, Used, Fresh, LabelIsTrue,
              NewBuffer, Has
<1> QED BY <1>3, <1>4 DEF Inv

\* put_plan_state: both arrays are stored before the plan is.
LEMMA PutPlanInv ==
    ASSUME Inv, NEW p \in Plan, NEW e \in BOOLEAN, NEW v \in BOOLEAN, PutPlan(p, e, v)
    PROVE  Inv'
<1> DEFINE b1 == Put(buffer, <<p, "emb">>, e)
           b2 == Put(b1, <<p, "vec">>, v)
<1>1. buffer \in Buffers(Key, MaxSegments) /\ <<p, "emb">> \in Key /\ <<p, "vec">> \in Key
  BY DEF Inv, TypeOK, Key, Uri
<1>2. buffer.created \in Nat /\ buffer.created + 2 <= MaxSegments
  BY <1>1 DEF PutPlan, Buffers
<1>3. buffer.created + 1 <= MaxSegments
  BY <1>2, MaxSegmentsAssumption
<1>4. b1.created = buffer.created \/ b1.created = buffer.created + 1
  BY <1>1, InProcessHasFields DEF Put, InShm
<1>5. b1.created + 1 <= MaxSegments
  BY <1>2, <1>4, MaxSegmentsAssumption
<1>6. b1 \in Buffers(Key, MaxSegments) /\ Accounted(b1) /\ Fresh(b1)
  BY <1>1, <1>3, PutHasType, PutAccounts DEF Inv, SegmentsAreAccounted
<1>7. /\ \A j \in Key : Has(b1, j) <=> Has(buffer, j) \/ j = <<p, "emb">>
      /\ DOMAIN buffer.shm \subseteq DOMAIN b1.shm
      /\ b1.shared = buffer.shared
      /\ buffer.shared /\ ~ b1.degraded => <<p, "emb">> \in DOMAIN b1.shm
  BY <1>1, PutHas
<1> HIDE DEF b1
<1>8. b2 \in Buffers(Key, MaxSegments) /\ Accounted(b2) /\ Fresh(b2)
  BY <1>1, <1>5, <1>6, PutHasType, PutAccounts
<1>9. /\ \A j \in Key : Has(b2, j) <=> Has(b1, j) \/ j = <<p, "vec">>
      /\ DOMAIN b1.shm \subseteq DOMAIN b2.shm
      /\ b1.degraded => b2.degraded
      /\ b2.shared = b1.shared
      /\ b1.shared /\ ~ b2.degraded => <<p, "vec">> \in DOMAIN b2.shm
  BY <1>1, <1>6, PutHas
<1>10. buffer' = b2 /\ dags' = dags \cup {p} /\ label' = Labelled(p, Transport(b2))
  BY DEF PutPlan, b1
<1> HIDE DEF b2
<1>11. DOMAIN label' = DOMAIN label \cup {p}
       /\ \A u \in DOMAIN label' : label'[u] = IF u = p THEN Transport(b2) ELSE label[u]
  BY <1>10 DEF Labelled
<1>12. TypeOK'
  BY <1>8, <1>10, <1>11 DEF Inv, TypeOK, Labelled, Transport, Uri
<1>13. PlansAreComplete'
  <2>1. ASSUME NEW q \in dags'
        PROVE  q \in DOMAIN label' /\ Has(b2, <<q, "emb">>) /\ Has(b2, <<q, "vec">>)
    <3>1. <<q, "emb">> \in Key /\ <<q, "vec">> \in Key
      BY <1>12 DEF TypeOK, Key, Uri
    <3> QED BY <1>7, <1>9, <1>10, <1>11, <3>1 DEF Inv, PlansAreComplete
  <2>2. ASSUME NEW k \in Key, Has(b2, k) PROVE k[1] \in DOMAIN label'
    BY <1>7, <1>9, <1>11, <2>2 DEF Inv, PlansAreComplete
  <2> QED BY <1>10, <2>1, <2>2 DEF PlansAreComplete
<1>14. LabelIsTrue'
  <2> SUFFICES ASSUME NEW u \in DOMAIN label', label'[u] = "shm"
               PROVE  /\ <<u, "emb">> \in DOMAIN b2.shm
                      /\ u \in Plan => <<u, "vec">> \in DOMAIN b2.shm
    BY <1>10 DEF LabelIsTrue
  <2>1. CASE u = p
    <3>1. b2.shared /\ ~ b2.degraded
      BY <1>11, <2>1 DEF Transport
    <3> QED BY <1>7, <1>9, <2>1, <3>1
  <2>2. CASE u # p
    BY <1>7, <1>9, <1>11, <2>2 DEF Inv, LabelIsTrue
  <2> QED BY <2>1, <2>2
<1> QED BY <1>8, <1>10, <1>12, <1>13, <1>14 DEF Inv, SegmentsAreAccounted

\* embed_text stores the one array of a text.
LEMMA EmbedTextInv ==
    ASSUME Inv, NEW t \in Text, NEW e \in BOOLEAN, EmbedText(t, e)
    PROVE  Inv'
<1> DEFINE b1 == Put(buffer, <<t, "emb">>, e)
<1>1. buffer \in Buffers(Key, MaxSegments) /\ <<t, "emb">> \in Key
  BY DEF Inv, TypeOK, Key, Uri
<1>2. buffer.created + 1 <= MaxSegments
  BY DEF EmbedText
<1>3. b1 \in Buffers(Key, MaxSegments) /\ Accounted(b1) /\ Fresh(b1)
  BY <1>1, <1>2, PutHasType, PutAccounts DEF Inv, SegmentsAreAccounted
<1>4. /\ \A j \in Key : Has(b1, j) <=> Has(buffer, j) \/ j = <<t, "emb">>
      /\ DOMAIN buffer.shm \subseteq DOMAIN b1.shm
      /\ b1.shared = buffer.shared
      /\ buffer.shared /\ ~ b1.degraded => <<t, "emb">> \in DOMAIN b1.shm
  BY <1>1, PutHas
<1>5. buffer' = b1 /\ dags' = dags /\ label' = Labelled(t, Transport(b1))
  BY DEF EmbedText
<1> HIDE DEF b1
<1>6. DOMAIN label' = DOMAIN label \cup {t}
      /\ \A u \in DOMAIN label' : label'[u] = IF u = t THEN Transport(b1) ELSE label[u]
  BY <1>5 DEF Labelled
<1>7. TypeOK'
  BY <1>3, <1>5, <1>6 DEF Inv, TypeOK, Labelled, Transport, Uri
<1>8. PlansAreComplete'
  <2>1. ASSUME NEW q \in dags'
        PROVE  q \in DOMAIN label' /\ Has(b1, <<q, "emb">>) /\ Has(b1, <<q, "vec">>)
    <3>1. <<q, "emb">> \in Key /\ <<q, "vec">> \in Key
      BY <1>7 DEF TypeOK, Key, Uri
    <3> QED BY <1>4, <1>5, <1>6, <3>1 DEF Inv, PlansAreComplete
  <2>2. ASSUME NEW k \in Key, Has(b1, k) PROVE k[1] \in DOMAIN label'
    BY <1>4, <1>6, <2>2 DEF Inv, PlansAreComplete
  <2> QED BY <1>5, <2>1, <2>2 DEF PlansAreComplete
<1>9. LabelIsTrue'
  <2> SUFFICES ASSUME NEW u \in DOMAIN label', label'[u] = "shm"
               PROVE  /\ <<u, "emb">> \in DOMAIN b1.shm
                      /\ u \in Plan => <<u, "vec">> \in DOMAIN b1.shm
    BY <1>5 DEF LabelIsTrue
  <2>1. CASE u = t
    <3>1. b1.shared /\ ~ b1.degraded
      BY <1>6, <2>1 DEF Transport
    <3>2. u \notin Plan
      BY <2>1, DisjointAssumption
    <3> QED BY <1>4, <2>1, <3>1, <3>2
  <2>2. CASE u # t
    BY <1>4, <1>6, <2>2 DEF Inv, LabelIsTrue
  <2> QED BY <2>1, <2>2
<1> QED BY <1>3, <1>5, <1>7, <1>8, <1>9 DEF Inv, SegmentsAreAccounted

\* close forgets arrays, plans and references together.
LEMMA CloseInv == ASSUME Inv, Close PROVE Inv'
<1>1. buffer \in Buffers(Key, MaxSegments)
  BY DEF Inv, TypeOK
<1>2. /\ buffer' \in Buffers(Key, MaxSegments)
      /\ DOMAIN buffer.shm' = {}
      /\ buffer.inproc' = {}
      /\ buffer.segments' = buffer.segments \ Used(buffer)
      /\ buffer.orphans' = buffer.orphans
      /\ buffer.created' = buffer.created
  BY <1>1, CloseHasFields DEF Close
<1>3. dags' = {} /\ DOMAIN label' = {}
  BY DEF Close
<1>4. TypeOK'
  BY <1>2, <1>3 DEF Close, TypeOK
<1>5. SegmentsAreAccounted' /\ Fresh(buffer)'
  BY <1>2 DEF Inv, SegmentsAreAccounted, Accounted, Used, Fresh
<1> QED BY <1>2, <1>3, <1>4, <1>5 DEF Inv, PlansAreComplete, LabelIsTrue, Has

\* The invariant is inductive.
LEMMA NextInv == Inv /\ [Next]_vars => Inv'
<1> SUFFICES ASSUME Inv, [Next]_vars PROVE Inv'
  OBVIOUS
<1>1. ASSUME NEW p \in Plan, NEW e \in BOOLEAN, NEW v \in BOOLEAN, PutPlan(p, e, v)
      PROVE  Inv'
  BY <1>1, PutPlanInv
<1>2. ASSUME NEW t \in Text, NEW e \in BOOLEAN, EmbedText(t, e) PROVE Inv'
  BY <1>2, EmbedTextInv
<1>3. ASSUME NEW u \in Uri, Invalidate(u) PROVE Inv'
  BY <1>3 DEF Inv, Invalidate, TypeOK, PlansAreComplete, SegmentsAreAccounted, LabelIsTrue
<1>4. CASE Close
  BY <1>4, CloseInv
<1>5. CASE UNCHANGED vars
  BY <1>5 DEF vars, Inv, TypeOK, PlansAreComplete, SegmentsAreAccounted, LabelIsTrue
<1> QED BY <1>1, <1>2, <1>3, <1>4, <1>5 DEF Next

\* Types.
THEOREM TypeCorrect == Spec => []TypeOK
<1>1. Inv => TypeOK BY DEF Inv
<1> QED BY <1>1, InitInv, NextInv, PTL DEF Spec

\* get_plan_state finds both arrays of every plan it knows, and no array is kept
\* without a reference.
THEOREM PlansStayComplete == Spec => []PlansAreComplete
<1>1. Inv => PlansAreComplete BY DEF Inv
<1> QED BY <1>1, InitInv, NextInv, PTL DEF Spec

\* A segment is used by one key or was displaced by a second put of its key.
THEOREM NoOtherLeak == Spec => []SegmentsAreAccounted
<1>1. Inv => SegmentsAreAccounted BY DEF Inv
<1> QED BY <1>1, InitInv, NextInv, PTL DEF Spec

\* The transport a reference claims is the transport of its arrays.
THEOREM LabelStaysTrue == Spec => []LabelIsTrue
<1>1. Inv => LabelIsTrue BY DEF Inv
<1> QED BY <1>1, InitInv, NextInv, PTL DEF Spec
=============================================================================
