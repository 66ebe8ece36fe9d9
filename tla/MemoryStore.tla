------------------------------- MODULE MemoryStore -------------------------------
(***************************************************************************)
(* memory/store.py with a file database: records are committed to SQLite,  *)
(* found through a vector index kept in the process, merged when they are  *)
(* duplicates, versioned when they are near duplicates, and rated by the   *)
(* feedback of the tasks that reuse them.  The process may die between the *)
(* commit of a record and its entry in the index.                          *)
(*                                                                         *)
(* A content stands for what write compares: the embedded text and the     *)
(* signature.  Ids are positions in db, which only grows.  reuse_count and *)
(* last_accessed_at, which no decision reads, are left out.                *)
(*                                                                         *)
(* `harm` is not in the program: it counts the harmful feedback a record   *)
(* got since it was last written or praised, up to four.                   *)
(*                                                                         *)
(* A definition D_Something is a faulty variant of D.  Nothing uses it; put *)
(* in the place of D it shows that a property can be broken by a bug.      *)
(***************************************************************************)
EXTENDS Integers, Sequences

CONSTANTS
    Content,      \* what records say
    Sig,          \* content_signature of a content
    Sim,          \* cosine of two contents: 2 equal, 1 at least dedup_threshold, 0 below
    Qualities,    \* the quality scores records are written with, in steps of 0.05
    MaxRecords,   \* bound: the number of records explored
    Rated         \* bound: the records whose feedback is explored

ASSUME SimAssumption ==
    /\ Sim \in [Content \X Content -> 0..2]
    /\ \A c, d \in Content : Sim[c, d] = Sim[d, c] /\ Sim[c, c] = 2
ASSUME SigAssumption == DOMAIN Sig = Content
ASSUME QualitiesAssumption == Qualities \subseteq 0..20

\* In steps of 0.05: the cap of a failure, the floor of retrieve, the feedback.
Cap == 4
Floor == 6
Reward == 1
Penalty == 4

VARIABLES
    db,       \* the table memories
    index,    \* the ids in the vector index
    pending,  \* the id that is committed and not yet indexed, or 0
    open,     \* whether a process has the store open
    harm      \* history: harmful feedback in a row, per record

vars == <<db, index, pending, open, harm>>

Record ==
    [content : Content, quality : 0..20, failed : BOOLEAN, version : Nat, parent : Nat]

TypeOK ==
    /\ db \in Seq(Record)
    /\ index \subseteq DOMAIN db
    /\ pending \in {0} \cup DOMAIN db
    /\ open \in BOOLEAN
    /\ harm \in [DOMAIN db -> 0..4]

Init ==
    /\ db = <<>>
    /\ index = {}
    /\ pending = 0
    /\ open = TRUE
    /\ harm = <<>>

Least(a, b) == IF a < b THEN a ELSE b
Greatest(a, b) == IF a > b THEN a ELSE b

Hits_Any(c) == {e \in index : Sim[c, db[e].content] >= 1}

\* The ids that index.search(emb, top_k=1) may return at or above the threshold:
\* among equally close records it returns any.
Hits(c) ==
    {e \in index :
        /\ Sim[c, db[e].content] >= 1
        /\ \A d \in index : Sim[c, db[d].content] <= Sim[c, db[e].content]}

\* _merge_duplicate(existing, record): whether the incoming record failed does
\* not matter.
Merge(e, q) ==
    /\ db' = [db EXCEPT ![e].quality = Greatest(@, q)]
    /\ harm' = [harm EXCEPT ![e] = 0]
    /\ UNCHANGED <<index, pending, open>>

Insert_SameVersion(c, q, f, parent) ==
    /\ Len(db) < MaxRecords
    /\ db' = Append(db, [content |-> c, failed |-> f, parent |-> parent,
                         quality |-> IF f THEN Least(q, Cap) ELSE q,
                         version |-> IF parent = 0 THEN 1 ELSE db[parent].version])
    /\ pending' = Len(db) + 1
    /\ harm' = Append(harm, 0)
    /\ UNCHANGED <<index, open>>

\* _insert(record): committed, and not yet in the index.
Insert(c, q, f, parent) ==
    /\ Len(db) < MaxRecords
    /\ db' = Append(db, [content |-> c, failed |-> f, parent |-> parent,
                         quality |-> IF f THEN Least(q, Cap) ELSE q,
                         version |-> IF parent = 0 THEN 1 ELSE db[parent].version + 1])
    /\ pending' = Len(db) + 1
    /\ harm' = Append(harm, 0)
    /\ UNCHANGED <<index, open>>

\* write(record): a new record with content c, quality q, success_feedback = ~ f.
Write(c, q, f) ==
    /\ open
    /\ pending = 0
    /\ \/ \E e \in Hits(c) : Sig[db[e].content] = Sig[c] /\ Merge(e, q)
       \/ \E e \in Hits(c) : Sig[db[e].content] # Sig[c] /\ Insert(c, q, f, e)
       \/ Hits(c) = {} /\ Insert(c, q, f, 0)

\* index.add(record.memory_id, emb), the end of write
AddToIndex ==
    /\ pending # 0
    /\ index' = index \cup {pending}
    /\ pending' = 0
    /\ UNCHANGED <<db, open, harm>>

Feedback_Swapped(i, effective) ==
    /\ db' = [db EXCEPT ![i].quality =
                 IF effective THEN Greatest(0, @ - Penalty) ELSE Least(20, @ + Reward)]
    /\ harm' = [harm EXCEPT ![i] = IF effective THEN 0 ELSE Least(@ + 1, 4)]

Feedback(i, effective) ==
    /\ db' = [db EXCEPT ![i].quality =
                 IF effective THEN Least(20, @ + Reward) ELSE Greatest(0, @ - Penalty)]
    /\ harm' = [harm EXCEPT ![i] = IF effective THEN 0 ELSE Least(@ + 1, 4)]

\* record_feedback(memory_id, effective); mark_used with an effect does the same.
RecordFeedback(i, effective) ==
    /\ open
    /\ pending = 0
    /\ i \in Rated
    /\ Feedback(i, effective)
    /\ UNCHANGED <<index, pending, open>>

\* The records that retrieve may return, whatever the query: all but those whose
\* score is below quality_floor.  MemoryReuse ranks and cuts them.
Retrievable == {i \in DOMAIN db : db[i].quality >= Floor}

\* close(), or the death of the process at any point of an operation.
Stop ==
    /\ open
    /\ open' = FALSE
    /\ index' = {}
    /\ pending' = 0
    /\ UNCHANGED <<db, harm>>

Reopen_Empty ==
    /\ ~ open
    /\ open' = TRUE
    /\ UNCHANGED <<db, index, pending, harm>>

\* __init__ on an existing database: _rebuild_index
Reopen ==
    /\ ~ open
    /\ open' = TRUE
    /\ index' = DOMAIN db
    /\ UNCHANGED <<db, pending, harm>>

Next ==
    \/ \E c \in Content, q \in Qualities, f \in BOOLEAN : Write(c, q, f)
    \/ AddToIndex
    \/ \E i \in DOMAIN db, effective \in BOOLEAN : RecordFeedback(i, effective)
    \/ Stop
    \/ Reopen

Spec == Init /\ [][Next]_vars

----------------------------------------------------------------------------
\* Between two operations the index and the database hold the same records, also
\* after the process died in the middle of a write.
IndexMatchesDb == open /\ pending = 0 => index = DOMAIN db

\* Versions form chains: a first version has no parent, and any other is one
\* above an older record that is nearly the same and has another signature.
VersionsFormChains ==
    \A i \in DOMAIN db :
        IF db[i].parent = 0
        THEN db[i].version = 1
        ELSE /\ db[i].parent < i
             /\ db[i].version = db[db[i].parent].version + 1
             /\ Sim[db[i].content, db[db[i].parent].content] >= 1
             /\ Sig[db[i].content] # Sig[db[db[i].parent].content]

\* Another content has the very same embedding.
HasTwin(c) == \E d \in Content \ {c} : Sim[c, d] = 2

\* The same content is never stored twice, restarts included, unless it has a twin
\* that is returned in its place.
StoredOnce ==
    \A i, j \in DOMAIN db :
        i # j /\ db[i].content = db[j].content => HasTwin(db[i].content)

\* Four harmful reuses in a row, from whatever score, hide a record from
\* retrieve, until it is written again or praised.
HarmIsolates == \A i \in Retrievable : harm[i] < 4
=============================================================================
