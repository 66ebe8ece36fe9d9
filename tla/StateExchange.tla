------------------------------ MODULE StateExchange ------------------------------
(***************************************************************************)
(* state_exchange/exchange.py: plans and vectors under content-addressed   *)
(* URIs, their arrays in a SharedVectorBuffer.  Any client of one task may *)
(* put, read, invalidate and close, and the creation of a shared-memory    *)
(* segment may fail at any time.                                           *)
(*                                                                         *)
(* A definition D_Something is a faulty variant of D.  Nothing uses it; put *)
(* in the place of D it shows that a property can be broken by a bug.      *)
(***************************************************************************)
EXTENDS SharedVectorBuffer

CONSTANTS
    Plan,         \* the state:// URIs, one per plan and embedding
    Text,         \* the vector:// URIs, one per embedded text
    MaxSegments   \* bound: how many segments are created

ASSUME MaxSegmentsAssumption == MaxSegments \in Nat
ASSUME DisjointAssumption == Plan \cap Text = {}

Uri == Plan \cup Text

VARIABLES
    buffer,   \* _buffer
    dags,     \* the keys of _dags
    label     \* _meta: uri -> StateRef.transport

vars == <<buffer, dags, label>>

\* The keys f"{uri}#emb" and f"{uri}#vec"
Key == Uri \X {"emb", "vec"}

TypeOK ==
    /\ buffer \in Buffers(Key, MaxSegments)
    /\ dags \subseteq Plan
    /\ DOMAIN label \subseteq Uri
    /\ label \in [DOMAIN label -> {"shm", "inproc"}]

Init ==
    /\ buffer \in {NewBuffer(s) : s \in BOOLEAN}
    /\ dags = {}
    /\ label = [u \in {} |-> "inproc"]

Transport_Configured(b) == IF b.shared THEN "shm" ELSE "inproc"

\* The property `transport`
Transport(b) == IF b.shared /\ ~ b.degraded THEN "shm" ELSE "inproc"

Labelled(u, t) == [x \in DOMAIN label \cup {u} |-> IF x = u THEN t ELSE label[x]]

\* put_plan_state: e and v say whether the two segments can be created.  The
\* plan is new or was put before; an embedding provider that raises does so
\* before anything changed.
PutPlan(p, e, v) ==
    /\ buffer.created + 2 <= MaxSegments
    /\ buffer' = Put(Put(buffer, <<p, "emb">>, e), <<p, "vec">>, v)
    /\ dags' = dags \cup {p}
    /\ label' = Labelled(p, Transport(buffer'))

EmbedText_AsPlan(t, e) ==
    /\ buffer.created + 1 <= MaxSegments
    /\ buffer' = Put(buffer, <<t, "emb">>, e)
    /\ label' = Labelled(t, Transport(buffer'))
    /\ dags' = dags \cup {t}

\* embed_text
EmbedText(t, e) ==
    /\ buffer.created + 1 <= MaxSegments
    /\ buffer' = Put(buffer, <<t, "emb">>, e)
    /\ label' = Labelled(t, Transport(buffer'))
    /\ UNCHANGED dags

\* get_plan_state returns; otherwise it raises ReferenceError_.
Resolves(u) == u \in dags /\ Has(buffer, <<u, "emb">>)

\* exists(uri)
Exists(u) == u \in DOMAIN label /\ (u \in dags \/ Has(buffer, <<u, "emb">>))

\* invalidate(uri): forgets the plan and nothing else.
Invalidate(u) ==
    /\ dags' = dags \ {u}
    /\ UNCHANGED <<buffer, label>>

Close_KeepsPlans ==
    /\ buffer' = Closed(buffer)
    /\ label' = [u \in {} |-> "inproc"]
    /\ UNCHANGED dags

Close ==
    /\ buffer' = Closed(buffer)
    /\ dags' = {}
    /\ label' = [u \in {} |-> "inproc"]

Next ==
    \/ \E p \in Plan, e, v \in BOOLEAN : PutPlan(p, e, v)
    \/ \E t \in Text, e \in BOOLEAN : EmbedText(t, e)
    \/ \E u \in Uri : Invalidate(u)
    \/ Close

Spec == Init /\ [][Next]_vars

----------------------------------------------------------------------------
\* Whatever the plan, the reference and the arrays of a URI know of each other:
\* a plan that resolves can be read in full (get_plan_state tests #emb only and
\* then reads #vec), and no array is kept that no reference names.
PlansAreComplete ==
    /\ \A p \in dags : /\ p \in DOMAIN label
                       /\ Has(buffer, <<p, "emb">>)
                       /\ Has(buffer, <<p, "vec">>)
    /\ \A k \in Key : Has(buffer, k) => k[1] \in DOMAIN label

\* Every segment that exists is read through exactly one key, or was left behind
\* when its key was put again; there is no other leak, also across close.
Accounted(b) ==
    /\ b.segments = Used(b) \cup b.orphans
    /\ Used(b) \cap b.orphans = {}
    /\ \A j, k \in DOMAIN b.shm : b.shm[j] = b.shm[k] => j = k
SegmentsAreAccounted == Accounted(buffer)

\* A reference labelled "shm" has all its arrays in shared memory, also after a
\* later segment could not be created and the exchange degraded.
LabelIsTrue ==
    \A u \in DOMAIN label : label[u] = "shm" =>
        /\ <<u, "emb">> \in DOMAIN buffer.shm
        /\ u \in Plan => <<u, "vec">> \in DOMAIN buffer.shm

=============================================================================
