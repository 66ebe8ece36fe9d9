------------------------------ MODULE Memory_proofs ------------------------------
(***************************************************************************)
(* First the invariants of the memory store, for any contents, signatures, *)
(* similarities and quality scores.  Two strengthenings carry the          *)
(* induction: the index misses exactly the pending record while the store  *)
(* is open (IndexInv), and each harmful feedback in a row has taken its    *)
(* penalty from the score (HarmInv).                                       *)
(*                                                                         *)
(* Then the tasks that share the store, whatever they are and however      *)
(* retrieve ranks records.  An answer that is stored under a signature, or *)
(* offered to a task, is the one that self-reliant tasks yield (PayloadInv *)
(* and AnswerInv), and a record that misled tasks in a row has lost its    *)
(* penalty each time, down to the score of a failure (MisledInv).          *)
(***************************************************************************)
EXTENDS MemoryReuse, TLAPS

IndexInv ==
    IF open
    THEN IF pending = 0 THEN index = DOMAIN db ELSE index \cup {pending} = DOMAIN db
    ELSE pending = 0 /\ index = {}

HarmInv == \A i \in DOMAIN db : db[i].quality <= 20 - 4 * harm[i]

Inv ==
    /\ TypeOK
    /\ IndexInv
    /\ VersionsFormChains
    /\ StoredOnce
    /\ HarmInv

\* One record of the table got another score.
Rescored(e, q) ==
    /\ Len(db') = Len(db)
    /\ DOMAIN db' = DOMAIN db
    /\ \A i \in DOMAIN db : db'[i] = IF i = e THEN [db[i] EXCEPT !.quality = q] ELSE db[i]

\* No operation, restart or crash loses a record or changes what it says, where
\* it comes from or whether it failed.
KeepsRecords ==
    \A i \in DOMAIN db :
        /\ i \in DOMAIN db'
        /\ [db'[i] EXCEPT !.quality = db[i].quality] = db[i]
RecordsArePermanent == [][KeepsRecords]_vars

\* A new score changes nothing else of a record.
LEMMA RescoredFields ==
    ASSUME TypeOK, NEW e \in DOMAIN db, NEW q \in 0..20, Rescored(e, q), db' \in Seq(Record)
    PROVE  \A i \in DOMAIN db :
              /\ db'[i].content = db[i].content
              /\ db'[i].failed = db[i].failed
              /\ db'[i].version = db[i].version
              /\ db'[i].parent = db[i].parent
              /\ db'[i].quality = IF i = e THEN q ELSE db[i].quality
              /\ [db'[i] EXCEPT !.quality = db[i].quality] = db[i]
<1> TAKE i \in DOMAIN db
<1>1. db[i] \in Record
  BY DEF TypeOK
<1>2. CASE i # e
  BY <1>1, <1>2 DEF Rescored, Record
<1>3. CASE i = e
  BY <1>1, <1>3 DEF Rescored, Record
<1> QED BY <1>2, <1>3

\* The updates of the module are new scores.
LEMMA RescoredByExcept ==
    ASSUME TypeOK, NEW e \in DOMAIN db, NEW q \in 0..20, db' = [db EXCEPT ![e].quality = q]
    PROVE  Rescored(e, q) /\ db' \in Seq(Record)
<1>1. \A i \in DOMAIN db : db[i] \in Record
  BY DEF TypeOK
<1>2. [db[e] EXCEPT !.quality = q] \in Record
  BY <1>1 DEF Record
<1>3. db' = [db EXCEPT ![e] = [db[e] EXCEPT !.quality = q]]
  OBVIOUS
<1> DEFINE r == [db[e] EXCEPT !.quality = q]
<1> HIDE DEF r
<1>4. db' = [db EXCEPT ![e] = r] /\ r \in Record
  BY <1>2, <1>3 DEF r
<1>5. db' \in Seq(Record) /\ Len(db') = Len(db) /\ DOMAIN db' = DOMAIN db
  BY <1>4 DEF TypeOK
<1>6. \A i \in DOMAIN db : db'[i] = IF i = e THEN r ELSE db[i]
  BY <1>4 DEF TypeOK
<1> QED BY <1>5, <1>6 DEF Rescored, r

\* A parent is an older record of the table.
LEMMA ParentIsARecord ==
    ASSUME TypeOK, VersionsFormChains
    PROVE  \A i \in DOMAIN db : db[i].parent = 0 \/ db[i].parent \in DOMAIN db
<1> TAKE i \in DOMAIN db
<1>1. db[i].parent \in Nat
  <2>1. db[i] \in Record
    BY DEF TypeOK
  <2> QED BY <2>1 DEF Record
<1>2. DOMAIN db = 1..Len(db) /\ Len(db) \in Nat
  BY DEF TypeOK
<1>3. db[i].parent = 0 \/ db[i].parent < i
  BY DEF VersionsFormChains
<1> QED BY <1>1, <1>2, <1>3

\* What a step that only changes a score keeps.
LEMMA RescoredKeeps ==
    ASSUME Inv, NEW e \in DOMAIN db, NEW q \in 0..20, db' = [db EXCEPT ![e].quality = q]
    PROVE  /\ db' \in Seq(Record)
           /\ DOMAIN db' = DOMAIN db
           /\ \A i \in DOMAIN db : db'[i].quality = IF i = e THEN q ELSE db[i].quality
           /\ VersionsFormChains'
           /\ StoredOnce'
           /\ KeepsRecords
<1>1. TypeOK
  BY DEF Inv
<1>2. Rescored(e, q) /\ db' \in Seq(Record)
  BY <1>1, RescoredByExcept
<1>3. DOMAIN db' = DOMAIN db
  BY <1>2 DEF Rescored
<1>4. \A i \in DOMAIN db :
         /\ db'[i].content = db[i].content
         /\ db'[i].version = db[i].version
         /\ db'[i].parent = db[i].parent
         /\ db'[i].quality = IF i = e THEN q ELSE db[i].quality
         /\ [db'[i] EXCEPT !.quality = db[i].quality] = db[i]
  BY <1>1, <1>2, RescoredFields
<1>5. \A i \in DOMAIN db : db[i].parent = 0 \/ db[i].parent \in DOMAIN db
  BY ParentIsARecord DEF Inv
<1>7. VersionsFormChains'
  <2> SUFFICES ASSUME NEW i \in DOMAIN db
               PROVE  IF db'[i].parent = 0
                      THEN db'[i].version = 1
                      ELSE /\ db'[i].parent < i
                           /\ db'[i].version = db'[db'[i].parent].version + 1
                           /\ Sim[db'[i].content, db'[db'[i].parent].content] >= 1
                           /\ Sig[db'[i].content] # Sig[db'[db'[i].parent].content]
    BY <1>3 DEF VersionsFormChains
  <2>1. CASE db[i].parent = 0
    BY <1>4, <2>1 DEF Inv, VersionsFormChains
  <2>2. CASE db[i].parent # 0
    <3>1. db[i].parent \in DOMAIN db
      BY <1>5, <2>2
    <3>2. /\ db'[i].parent = db[i].parent
          /\ db'[i].version = db[i].version
          /\ db'[i].content = db[i].content
          /\ db'[db[i].parent].version = db[db[i].parent].version
          /\ db'[db[i].parent].content = db[db[i].parent].content
      BY <1>4, <3>1
    <3>3. /\ db[i].parent < i
          /\ db[i].version = db[db[i].parent].version + 1
          /\ Sim[db[i].content, db[db[i].parent].content] >= 1
          /\ Sig[db[i].content] # Sig[db[db[i].parent].content]
      BY <2>2 DEF Inv, VersionsFormChains
    <3> QED BY <2>2, <3>2, <3>3
  <2> QED BY <2>1, <2>2
<1>8. StoredOnce'
  <2>1. \A i \in DOMAIN db : db'[i].content = db[i].content
    BY <1>4
  <2> SUFFICES ASSUME NEW i \in DOMAIN db, NEW j \in DOMAIN db, i # j,
                      db'[i].content = db'[j].content
               PROVE  HasTwin(db'[i].content)
    BY <1>3 DEF StoredOnce
  <2>2. db[i].content = db[j].content
    BY <2>1
  <2>3. StoredOnce
    BY DEF Inv
  <2>4. HasTwin(db[i].content)
    BY <2>2, <2>3 DEF StoredOnce
  <2>5. db'[i].content = db[i].content
    BY <2>1
  <2> QED BY <2>4, <2>5
<1> QED BY <1>2, <1>3, <1>4, <1>7, <1>8 DEF KeepsRecords

----------------------------------------------------------------------------
\* What is assumed of similarities, as the steps below use it.
LEMMA SimFacts ==
    \A c, d \in Content : Sim[c, d] \in 0..2 /\ Sim[c, c] = 2
<1>1. \A c, d \in Content : Sim[c, d] \in 0..2
  BY SimAssumption
<1>2. \A c, d \in Content : Sim[c, c] = 2
  BY SimAssumption
<1> QED BY <1>1, <1>2

\* The empty store satisfies the invariant.
LEMMA InitInv == Init => Inv
  BY DEF Init, Inv, TypeOK, IndexInv, VersionsFormChains, StoredOnce, HarmInv

\* A merge raises one score and starts its count of harm anew.
LEMMA MergeInv ==
    ASSUME Inv, open, pending = 0, NEW e \in index, NEW q \in 0..20, Merge(e, q)
    PROVE  Inv' /\ KeepsRecords
<1>1. TypeOK /\ e \in DOMAIN db /\ db[e] \in Record
  BY DEF Inv, TypeOK
<1> DEFINE n == Greatest(db[e].quality, q)
<1>2. n \in 0..20
  BY <1>1 DEF Greatest, Record
<1>3. db' = [db EXCEPT ![e].quality = n]
  BY DEF Merge
<1> HIDE DEF n
<1>4. /\ db' \in Seq(Record)
      /\ DOMAIN db' = DOMAIN db
      /\ \A i \in DOMAIN db : db'[i].quality = IF i = e THEN n ELSE db[i].quality
      /\ VersionsFormChains'
      /\ StoredOnce'
      /\ KeepsRecords
  BY <1>1, <1>2, <1>3, RescoredKeeps
<1>5. harm' \in [DOMAIN db -> 0..4]
      /\ \A i \in DOMAIN db : harm'[i] = IF i = e THEN 0 ELSE harm[i]
  BY <1>1 DEF Merge, TypeOK
<1>6. HarmInv'
  BY <1>2, <1>4, <1>5 DEF Inv, HarmInv
<1>7. UNCHANGED <<index, pending, open>>
  BY DEF Merge
<1>8. TypeOK' /\ IndexInv'
  BY <1>4, <1>5, <1>7 DEF Inv, TypeOK, IndexInv
<1> QED BY <1>4, <1>6, <1>8 DEF Inv

\* Feedback moves one score and its count of harm together.
LEMMA FeedbackInv ==
    ASSUME Inv, NEW e \in DOMAIN db, NEW effective \in BOOLEAN, RecordFeedback(e, effective)
    PROVE  Inv' /\ KeepsRecords
<1>1. TypeOK /\ db[e] \in Record /\ harm[e] \in 0..4
  BY DEF Inv, TypeOK
<1> DEFINE n == IF effective THEN Least(20, db[e].quality + Reward)
                             ELSE Greatest(0, db[e].quality - Penalty)
           h == IF effective THEN 0 ELSE Least(harm[e] + 1, 4)
<1>2. db[e].quality \in 0..20 /\ db[e].quality <= 20 - 4 * harm[e]
  BY <1>1 DEF Inv, HarmInv, Record
<1>3. n \in 0..20 /\ h \in 0..4
  BY <1>1, <1>2 DEF Least, Greatest, Reward, Penalty
<1>4. n <= 20 - 4 * h
  BY <1>1, <1>2 DEF Least, Greatest, Reward, Penalty
<1>5. db' = [db EXCEPT ![e].quality = n]
  BY DEF RecordFeedback, Feedback
<1>6. harm' \in [DOMAIN db -> 0..4]
      /\ \A i \in DOMAIN db : harm'[i] = IF i = e THEN h ELSE harm[i]
  BY <1>1, <1>3 DEF RecordFeedback, Feedback, TypeOK
<1> HIDE DEF n, h
<1>7. /\ db' \in Seq(Record)
      /\ DOMAIN db' = DOMAIN db
      /\ \A i \in DOMAIN db : db'[i].quality = IF i = e THEN n ELSE db[i].quality
      /\ VersionsFormChains'
      /\ StoredOnce'
      /\ KeepsRecords
  BY <1>3, <1>5, RescoredKeeps
<1>8. HarmInv'
  BY <1>4, <1>6, <1>7 DEF Inv, HarmInv
<1>9. UNCHANGED <<index, pending, open>>
  BY DEF RecordFeedback
<1>10. TypeOK' /\ IndexInv'
  BY <1>6, <1>7, <1>9 DEF Inv, TypeOK, IndexInv
<1> QED BY <1>7, <1>8, <1>10 DEF Inv

\* Whether a record may be inserted: without a hit, or as a version of a hit.
Insertable(c, parent) ==
    \/ parent = 0 /\ Hits(c) = {}
    \/ parent \in Hits(c) /\ Sig[db[parent].content] # Sig[c]

\* A new record is one above a near record, or the first of its kind.
LEMMA InsertInv ==
    ASSUME Inv, open, pending = 0, NEW c \in Content, NEW q \in Qualities, NEW f \in BOOLEAN,
           NEW parent, Insertable(c, parent), Insert(c, q, f, parent)
    PROVE  Inv' /\ KeepsRecords
<1>1. TypeOK /\ index = DOMAIN db /\ db \in Seq(Record) /\ Len(db) \in Nat
      /\ DOMAIN db = 1..Len(db)
  BY DEF Inv, IndexInv, TypeOK
<1>2. parent = 0 \/ parent \in DOMAIN db
  BY <1>1 DEF Insertable, Hits
<1>3. \A i \in DOMAIN db : db[i] \in Record
  BY <1>1
<1> DEFINE score == IF f THEN Least(q, Cap) ELSE q
           version == IF parent = 0 THEN 1 ELSE db[parent].version + 1
           r == [content |-> c, failed |-> f, parent |-> parent,
                 quality |-> score, version |-> version]
           n == Len(db) + 1
<1>4. score \in 0..20
  BY QualitiesAssumption DEF Least, Cap
<1>5. parent \in Nat
  BY <1>1, <1>2
<1>6. version \in Nat
  BY <1>2, <1>3 DEF Record
<1>7. r.content = c /\ r.parent = parent /\ r.quality = score /\ r.version = version
  OBVIOUS
<1>8. r \in Record
  <2> HIDE DEF score, version
  <2> QED BY <1>4, <1>5, <1>6 DEF Record
<1>9. db' = Append(db, r) /\ pending' = n /\ harm' = Append(harm, 0) /\ UNCHANGED <<index, open>>
  BY DEF Insert
<1> HIDE DEF r
<1>10. /\ db' \in Seq(Record)
       /\ DOMAIN db' = 1..n
       /\ db'[n] = r
       /\ \A i \in DOMAIN db : db'[i] = db[i]
  BY <1>1, <1>8, <1>9
<1>11. DOMAIN db' = DOMAIN db \cup {n} /\ n \notin DOMAIN db /\ n \in Nat
  BY <1>1, <1>10
<1>12. /\ harm' \in [DOMAIN db' -> 0..4]
       /\ harm'[n] = 0
       /\ \A i \in DOMAIN db : harm'[i] = harm[i]
  <2>1. harm \in Seq(0..4) /\ Len(harm) = Len(db)
    BY <1>1 DEF TypeOK
  <2>2. /\ harm' \in Seq(0..4)
        /\ Len(harm') = n
        /\ harm'[n] = 0
        /\ \A i \in 1..Len(db) : harm'[i] = harm[i]
    BY <1>9, <2>1
  <2> QED BY <1>1, <1>10, <2>2
<1>13. TypeOK'
  BY <1>1, <1>9, <1>10, <1>11, <1>12 DEF TypeOK
<1>14. IndexInv'
  BY <1>1, <1>9, <1>11 DEF IndexInv
<1>15. HarmInv'
  <2>1. r.quality <= 20 - 4 * 0
    BY <1>4, <1>7
  <2> QED BY <1>10, <1>11, <1>12, <2>1 DEF Inv, HarmInv
<1>16. VersionsFormChains'
  <2> DEFINE Chained(i) ==
        IF db'[i].parent = 0
        THEN db'[i].version = 1
        ELSE /\ db'[i].parent < i
             /\ db'[i].version = db'[db'[i].parent].version + 1
             /\ Sim[db'[i].content, db'[db'[i].parent].content] >= 1
             /\ Sig[db'[i].content] # Sig[db'[db'[i].parent].content]
  <2>1. ASSUME NEW i \in DOMAIN db PROVE Chained(i)
    <3>1. db'[i] = db[i]
      BY <1>10
    <3>2. CASE db[i].parent = 0
      BY <3>1, <3>2 DEF Inv, VersionsFormChains
    <3>3. CASE db[i].parent # 0
      <4>1. db[i].parent \in DOMAIN db
        BY <3>3, ParentIsARecord DEF Inv
      <4>2. db'[db[i].parent] = db[db[i].parent]
        BY <1>10, <4>1
      <4> QED BY <3>1, <3>3, <4>2 DEF Inv, VersionsFormChains
    <3> QED BY <3>2, <3>3
  <2>2. Chained(n)
    <3>1. CASE parent = 0
      BY <1>7, <1>10, <3>1
    <3>2. CASE parent # 0
      <4>1. parent \in Hits(c) /\ Sig[db[parent].content] # Sig[c]
        BY <3>2 DEF Insertable
      <4>2. parent \in DOMAIN db /\ db'[parent] = db[parent] /\ parent < n
        BY <1>1, <1>2, <1>10, <3>2
      <4>3. Sim[c, db[parent].content] >= 1
        BY <4>1 DEF Hits
      <4> QED BY <1>7, <1>10, <3>2, <4>1, <4>2, <4>3
    <3> QED BY <3>1, <3>2
  <2> QED BY <1>11, <2>1, <2>2 DEF VersionsFormChains
<1>17. ASSUME NEW i \in DOMAIN db, db[i].content = c
       PROVE  HasTwin(c)
  <2> DEFINE s(e) == Sim[c, db[e].content]
  <2>1. \A e \in index : db[e].content \in Content
    BY <1>1, <1>3 DEF Record
  <2>2. \A e \in index : s(e) \in 0..2
    BY <2>1, SimFacts
  <2>3. i \in index /\ s(i) = 2
    BY <1>1, <1>17, SimFacts
  <2>4. Hits(c) = {e \in index : s(e) >= 1 /\ \A d \in index : s(d) <= s(e)}
    BY DEF Hits
  <2> HIDE DEF s
  <2>5. i \in Hits(c)
    BY <2>2, <2>3, <2>4
  <2>6. parent \in Hits(c) /\ Sig[db[parent].content] # Sig[c]
    BY <2>5 DEF Insertable
  <2>7. parent \in index /\ s(parent) = 2
    BY <2>2, <2>3, <2>4, <2>6
  <2>8. db[parent].content # c
    BY <2>6
  <2>9. db[parent].content \in Content \ {c} /\ Sim[c, db[parent].content] = 2
    BY <2>1, <2>7, <2>8 DEF s
  <2> QED BY <2>9 DEF HasTwin
<1>18. StoredOnce'
  <2> SUFFICES ASSUME NEW i \in DOMAIN db', NEW j \in DOMAIN db', i # j,
                      db'[i].content = db'[j].content
               PROVE  HasTwin(db'[i].content)
    BY DEF StoredOnce
  <2>1. db'[n].content = c
    BY <1>7, <1>10
  <2>2. \A k \in DOMAIN db : db'[k].content = db[k].content
    BY <1>10
  <2> HIDE DEF n
  <2>3. CASE i \in DOMAIN db /\ j \in DOMAIN db
    <3>1. db[i].content = db[j].content
      BY <2>2, <2>3
    <3>2. HasTwin(db[i].content)
      BY <2>3, <3>1 DEF Inv, StoredOnce
    <3> QED BY <2>2, <2>3, <3>2
  <2>4. CASE i = n
    <3>1. j \in DOMAIN db
      BY <1>11, <2>4
    <3>2. db[j].content = c
      BY <2>1, <2>2, <2>4, <3>1
    <3>3. HasTwin(c)
      BY <1>17, <3>1, <3>2
    <3> QED BY <2>1, <2>4, <3>3
  <2>5. CASE i \in DOMAIN db /\ j = n
    <3>1. db[i].content = c
      BY <2>1, <2>2, <2>5
    <3>2. HasTwin(c)
      BY <1>17, <2>5, <3>1
    <3> QED BY <2>2, <2>5, <3>1, <3>2
  <2> QED BY <1>11, <2>3, <2>4, <2>5
<1>19. KeepsRecords
  BY <1>3, <1>10, <1>11 DEF KeepsRecords, Record
<1> QED BY <1>13, <1>14, <1>15, <1>16, <1>18, <1>19 DEF Inv

\* A write merges or inserts.
LEMMA WriteInv ==
    ASSUME Inv, NEW c \in Content, NEW q \in Qualities, NEW f \in BOOLEAN, Write(c, q, f)
    PROVE  Inv' /\ KeepsRecords
<1>1. open /\ pending = 0
  BY DEF Write
<1>2. ASSUME NEW e \in Hits(c), Merge(e, q) PROVE Inv' /\ KeepsRecords
  <2>1. e \in index /\ q \in 0..20
    BY QualitiesAssumption DEF Hits
  <2> QED BY <1>1, <1>2, <2>1, MergeInv
<1>3. ASSUME NEW e \in Hits(c), Sig[db[e].content] # Sig[c], Insert(c, q, f, e)
      PROVE  Inv' /\ KeepsRecords
  BY <1>1, <1>3, InsertInv DEF Insertable
<1>4. ASSUME Hits(c) = {}, Insert(c, q, f, 0) PROVE Inv' /\ KeepsRecords
  BY <1>1, <1>4, InsertInv DEF Insertable
<1> QED BY <1>2, <1>3, <1>4 DEF Write

\* The steps that leave the table alone.
LEMMA SameTableInv ==
    ASSUME Inv, UNCHANGED <<db, harm>>, index' \subseteq DOMAIN db, open' \in BOOLEAN,
           pending' \in {0} \cup DOMAIN db, IndexInv'
    PROVE  Inv' /\ KeepsRecords
<1>1. TypeOK' /\ VersionsFormChains' /\ StoredOnce' /\ HarmInv'
  BY DEF Inv, TypeOK, VersionsFormChains, StoredOnce, HarmInv
<1>2. \A i \in DOMAIN db : db[i] \in Record
  BY DEF Inv, TypeOK
<1>3. KeepsRecords
  BY <1>2 DEF KeepsRecords, Record
<1> QED BY <1>1, <1>3 DEF Inv

\* The invariant is inductive, and no step loses or rewrites a record.
LEMMA NextInv == Inv /\ [Next]_vars => Inv' /\ KeepsRecords
<1> SUFFICES ASSUME Inv, [Next]_vars PROVE Inv' /\ KeepsRecords
  OBVIOUS
<1>0. TypeOK /\ IndexInv
  BY DEF Inv
<1>1. ASSUME NEW c \in Content, NEW q \in Qualities, NEW f \in BOOLEAN, Write(c, q, f)
      PROVE  Inv' /\ KeepsRecords
  BY <1>1, WriteInv
<1>2. CASE AddToIndex
  <2>1. /\ index' \subseteq DOMAIN db /\ open' \in BOOLEAN /\ pending' \in {0} \cup DOMAIN db
        /\ IndexInv'
    BY <1>0, <1>2 DEF AddToIndex, TypeOK, IndexInv
  <2> QED BY <1>2, <2>1, SameTableInv DEF AddToIndex
<1>3. ASSUME NEW i \in DOMAIN db, NEW effective \in BOOLEAN, RecordFeedback(i, effective)
      PROVE  Inv' /\ KeepsRecords
  BY <1>3, FeedbackInv
<1>4. CASE Stop
  <2>1. /\ index' \subseteq DOMAIN db /\ open' \in BOOLEAN /\ pending' \in {0} \cup DOMAIN db
        /\ IndexInv'
    BY <1>0, <1>4 DEF Stop, TypeOK, IndexInv
  <2> QED BY <1>4, <2>1, SameTableInv DEF Stop
<1>5. CASE Reopen
  <2>1. /\ index' \subseteq DOMAIN db /\ open' \in BOOLEAN /\ pending' \in {0} \cup DOMAIN db
        /\ IndexInv'
    BY <1>0, <1>5 DEF Reopen, TypeOK, IndexInv
  <2> QED BY <1>5, <2>1, SameTableInv DEF Reopen
<1>6. CASE UNCHANGED vars
  <2>1. /\ index' \subseteq DOMAIN db /\ open' \in BOOLEAN /\ pending' \in {0} \cup DOMAIN db
        /\ IndexInv'
    BY <1>0, <1>6 DEF vars, TypeOK, IndexInv
  <2> QED BY <1>6, <2>1, SameTableInv DEF vars
<1> QED BY <1>1, <1>2, <1>3, <1>4, <1>5, <1>6 DEF Next

\* Types.
THEOREM TypeCorrect == Spec => []TypeOK
<1>1. Inv => TypeOK BY DEF Inv
<1> QED BY <1>1, InitInv, NextInv, PTL DEF Spec

\* Index and database agree between operations, across crashes and restarts.
THEOREM IndexAgrees == Spec => []IndexMatchesDb
<1>1. Inv => IndexMatchesDb BY DEF Inv, IndexInv, IndexMatchesDb
<1> QED BY <1>1, InitInv, NextInv, PTL DEF Spec

\* Every version above the first follows an older, near record by one.
THEOREM VersionsAlwaysChain == Spec => []VersionsFormChains
<1>1. Inv => VersionsFormChains BY DEF Inv
<1> QED BY <1>1, InitInv, NextInv, PTL DEF Spec

\* A content is stored twice only if another one has the same embedding.
THEOREM ContentsStoredOnce == Spec => []StoredOnce
<1>1. Inv => StoredOnce BY DEF Inv
<1> QED BY <1>1, InitInv, NextInv, PTL DEF Spec

\* Four harmful reuses in a row hide a record from retrieve.
THEOREM HarmAlwaysIsolates == Spec => []HarmIsolates
<1>1. Inv => HarmIsolates
  <2> SUFFICES ASSUME Inv, NEW i \in DOMAIN db, db[i].quality >= Floor PROVE harm[i] < 4
    BY DEF HarmIsolates, Retrievable
  <2>1. db[i] \in Record /\ harm[i] \in 0..4
    BY DEF Inv, TypeOK
  <2>2. db[i].quality \in 0..20 /\ db[i].quality <= 20 - 4 * harm[i]
    BY <2>1 DEF Inv, HarmInv, Record
  <2> QED BY <2>1, <2>2 DEF Floor
<1> QED BY <1>1, InitInv, NextInv, PTL DEF Spec

\* No record is lost or rewritten.
THEOREM RecordsStay == Spec => RecordsArePermanent
<1>1. Inv /\ [Next]_vars => [KeepsRecords]_vars
  BY NextInv
<1> QED BY <1>1, InitInv, NextInv, PTL DEF Spec, RecordsArePermanent

----------------------------------------------------------------------------
\* What a record answers is what any self-reliant task of its signature yields.
PayloadInv ==
    \A i \in DOMAIN payload, t \in Tasks :
        SelfReliant(t) /\ t.op # "codefix" /\ payload[i].signature = Signature(t) =>
            payload[i].answer = Alone(t)

\* So is an answer that a task was given.
AnswerInv ==
    at = "act" /\ SelfReliant(task) /\ task.op # "codefix" =>
        blackboard.reused_answer \in {None, Alone(task)}

\* A record that is being reused was retrievable, and has not been rated since.
ReusedInv ==
    at \in {"act", "rate"} /\ tries = 0 /\ blackboard.reused # 0 =>
        db[blackboard.reused].quality >= Floor

\* Each failed reuse in a row has taken its penalty from the score, down to what a
\* failure is written with.
MisledInv ==
    \A i \in DOMAIN db : db[i].quality <= 20 - 4 * misled[i] \/ db[i].quality <= 4

ReuseInv ==
    /\ Inv
    /\ ReuseTypeOK
    /\ PayloadInv
    /\ AnswerInv
    /\ ReuseIsTransparent
    /\ ReusedInv
    /\ MisledInv

\* The steps of tasks are steps of the store, or none.
LEMMA StoreSteps == ReuseTypeOK /\ [ReuseNext]_allVars => [Next]_vars
<1> SUFFICES ASSUME ReuseTypeOK, [ReuseNext]_allVars
             PROVE  [Next]_vars
  OBVIOUS
<1>1. CASE \E t \in workload : Begin(t)
  BY <1>1 DEF Begin
<1>2. CASE Recall
  BY <1>2 DEF Recall
<1>3. CASE Act
  BY <1>3 DEF Act
<1>4. CASE Rate
  <2>1. Accepted \in BOOLEAN
    BY DEF Accepted
  <2>2. CASE blackboard.reused = 0
    BY <1>4, <2>2 DEF Rate
  <2>3. CASE blackboard.reused # 0
    <3>1. blackboard.reused \in DOMAIN db
      BY <2>3, <1>4 DEF ReuseTypeOK, Blackboard
    <3>2. RecordFeedback(blackboard.reused, Accepted)
      BY <1>4, <2>3 DEF Rate
    <3> QED BY <2>1, <3>1, <3>2 DEF Next
  <2> QED BY <2>2, <2>3
<1>5. CASE Memorize
  <2>1. task \in Tasks /\ blackboard.value \in Value
    BY <1>5 DEF Memorize, ReuseTypeOK, Blackboard
  <2>2. Says(task, blackboard.value) \in Content
    BY <2>1, TasksAssumption
  <2>3. WrittenQuality \in Qualities
    BY QualityAssumption DEF WrittenQuality
  <2>5. (~ Accepted) \in BOOLEAN
    BY DEF Accepted
  <2>4. Write(Says(task, blackboard.value), WrittenQuality, ~ Accepted)
    BY <1>5 DEF Memorize
  <2> QED BY <2>2, <2>3, <2>4, <2>5 DEF Next
<1>6. CASE Index
  BY <1>6 DEF Index, Next
<1>7. CASE ReviewerRetried \/ GivenUp
  BY <1>7 DEF ReviewerRetried, GivenUp
<1>8. CASE Dies
  BY <1>8 DEF Dies, Next
<1>9. CASE Restarts
  BY <1>9 DEF Restarts, Next
<1>10. CASE UNCHANGED allVars
  BY <1>10 DEF allVars
<1> QED BY <1>1, <1>2, <1>3, <1>4, <1>5, <1>6, <1>7, <1>8, <1>9, <1>10 DEF ReuseNext, Progress

\* What the executor returns, and what it says it used.
LEMMA ResultTypes ==
    ASSUME NEW t \in Tasks, NEW a \in Value \cup {None}, NEW s \in Value \cup {None},
           NEW v \in Value \cup {None}
    PROVE  /\ Result(t, a, s) \in Value \cup {None}
           /\ SolutionUsed(t, s, v) \in Value \cup {None}
<1>1. CASE t.op = "codefix"
  <2>1. "strategy" \in Range(t.operands)
    BY <1>1, TasksAssumption
  <2>2. Evidence(t)["strategy"] \in Value \cup {None}
    BY <2>1, TasksAssumption
  <2>3. Strategy(t, s) \in Value \cup {None}
    BY <2>2 DEF Strategy
  <2>4. SolutionUsed(t, s, v) \in Value \cup {None}
    BY <1>1, <2>3 DEF SolutionUsed
  <2>5. Result(t, a, s) \in {0, 1}
    BY <1>1 DEF Result
  <2> QED BY <2>4, <2>5, ValueAssumption
<1>2. CASE t.op # "codefix"
  <2>1. Alone(t) \in Value \cup {None}
    BY TasksAssumption
  <2>2. Alone(t) = Compute(t.op, Values(t))
    BY <1>2 DEF Alone, Result
  <2>3. Result(t, a, s) \in Value \cup {None}
    BY <1>2, <2>1, <2>2 DEF Result
  <2> QED BY <1>2, <2>3 DEF SolutionUsed
<1> QED BY <1>1, <1>2

\* A self-reliant task yields the same with its own answer or any solution as alone.
LEMMA SelfReliantResult ==
    ASSUME NEW t \in Tasks, SelfReliant(t), NEW a, NEW s,
           t.op # "codefix" => a \in {None, Alone(t)}
    PROVE  Result(t, a, s) = Alone(t)
<1>1. CASE t.op = "codefix"
  <2>1. Evidence(t)["strategy"] # None
    BY <1>1 DEF SelfReliant
  <2>2. Strategy(t, s) = Strategy(t, None)
    BY <2>1 DEF Strategy
  <2>3. Attempt(t, s) = Attempt(t, None)
    BY <2>2 DEF Attempt
  <2> QED BY <1>1, <2>3 DEF Result, Alone
<1>2. CASE t.op # "codefix"
  <2>1. Alone(t) = Compute(t.op, Values(t))
    BY <1>2 DEF Alone, Result
  <2> QED BY <1>2, <2>1 DEF Result
<1> QED BY <1>1, <1>2

\* Tasks of one signature are self-reliant together.
LEMMA SelfReliantTogether ==
    ASSUME NEW t \in Tasks, NEW u \in Tasks, Signature(t) = Signature(u),
           SelfReliant(t), t.op # "codefix"
    PROVE  SelfReliant(u) /\ u.op # "codefix" /\ Alone(u) = Alone(t)
<1>1. t.op = u.op
  BY DEF Signature
<1>2. \A w \in Tasks : Signature(w) = Signature(t) => Alone(w) = Alone(t)
  BY DEF SelfReliant
<1>3. Alone(u) = Alone(t)
  BY <1>2
<1> QED BY <1>1, <1>2, <1>3 DEF SelfReliant

\* The empty store satisfies the invariant.
LEMMA ReuseInitInv == ReuseInit => ReuseInv
<1> SUFFICES ASSUME ReuseInit PROVE ReuseInv
  OBVIOUS
<1>0. workload \subseteq Tasks
  BY WorkloadsAssumption DEF ReuseInit
<1>1. Inv
  BY InitInv DEF ReuseInit
<1>2. DOMAIN db = {} /\ DOMAIN payload = {} /\ Len(db) = 0 /\ Len(payload) = 0
  BY DEF ReuseInit, Init
<1>3. blackboard \in Blackboard
  BY DEF ReuseInit, Blank, Blackboard
<1>4. misled \in [DOMAIN db -> 0..4]
  BY <1>2 DEF ReuseInit
<1>5. payload \in Seq(Payload)
  BY DEF ReuseInit
<1>6. ReuseTypeOK
  BY <1>0, <1>1, <1>2, <1>3, <1>4, <1>5, BoundsAssumption DEF ReuseInit, ReuseTypeOK, Inv
<1> QED
  BY <1>1, <1>2, <1>6 DEF ReuseInit, ReuseInv, PayloadInv, AnswerInv, ReuseIsTransparent,
     ReusedInv, MisledInv

----------------------------------------------------------------------------
\* The parts of the invariant that a step with the same table and payloads keeps.
LEMMA SameTableReuse ==
    ASSUME ReuseInv, UNCHANGED <<db, payload, misled>>
    PROVE  PayloadInv' /\ MisledInv'
  BY DEF ReuseInv, PayloadInv, MisledInv

\* The run ends, in whatever way, and the table stays as it is.
LEMMA ReturnInv ==
    ASSUME ReuseInv, Inv', UNCHANGED <<db, payload, misled, workload>>, Return,
           faults' \in 0..MaxFaults
    PROVE  ReuseInv'
<1>1. PayloadInv' /\ MisledInv'
  BY SameTableReuse
<1>2. TypeOK' /\ ReuseTypeOK
  BY DEF Inv, ReuseInv
<1>3. blackboard' \in Blackboard'
  BY DEF Return, Blank, Blackboard
<1>4. ReuseTypeOK'
  BY <1>2, <1>3, BoundsAssumption DEF ReuseTypeOK, Return
<1>5. AnswerInv' /\ ReuseIsTransparent' /\ ReusedInv'
  BY DEF Return, AnswerInv, ReuseIsTransparent, ReusedInv
<1> QED BY <1>1, <1>4, <1>5 DEF ReuseInv

\* A task starts.
LEMMA BeginInv == ASSUME ReuseInv, Inv', NEW t \in workload, Begin(t) PROVE ReuseInv'
<1>1. PayloadInv' /\ MisledInv'
  BY SameTableReuse DEF Begin, vars
<1>2. TypeOK' /\ ReuseTypeOK
  BY DEF Inv, ReuseInv
<1>3. t # None
  BY <1>2, ValueAssumption DEF Begin, ReuseTypeOK
<1>4. ReuseTypeOK'
  BY <1>2, <1>3 DEF ReuseTypeOK, Begin, vars, Blackboard
<1>5. AnswerInv' /\ ReuseIsTransparent' /\ ReusedInv'
  BY DEF Begin, AnswerInv, ReuseIsTransparent, ReusedInv
<1> QED BY <1>1, <1>4, <1>5 DEF ReuseInv

\* What is recalled of a record has the types of the blackboard.
LEMMA RecalledTypes ==
    ASSUME ReuseTypeOK, NEW t \in Tasks, NEW i \in DOMAIN db
    PROVE  Recalled(t, i) \in Blackboard
<1>1. DOMAIN payload = DOMAIN db /\ payload[i] \in Payload
  BY DEF ReuseTypeOK, TypeOK
<1>2. payload[i].answer \in Value /\ payload[i].solution \in Value \cup {None}
  BY <1>1 DEF Payload
<1> QED BY <1>2 DEF Recalled, Blackboard

\* The retriever offers a self-reliant task no other answer than its own.
LEMMA RecallInv == ASSUME ReuseInv, Inv', Recall PROVE ReuseInv'
<1>1. PayloadInv' /\ MisledInv'
  BY SameTableReuse DEF Recall, vars
<1>2. TypeOK' /\ ReuseTypeOK
  BY DEF Inv, ReuseInv
<1>3. task \in Tasks
  BY <1>2 DEF ReuseTypeOK, Recall
<1>4. UNCHANGED <<db, payload, task>> /\ at' = "act"
  BY DEF Recall, vars
<1>5. CASE blackboard' = Blank
  <2>1. blackboard' \in Blackboard'
    BY <1>5 DEF Blank, Blackboard
  <2>2. ReuseTypeOK'
    BY <1>2, <2>1 DEF ReuseTypeOK, Recall, vars
  <2>3. AnswerInv' /\ ReuseIsTransparent' /\ ReusedInv'
    BY <1>4, <1>5 DEF Blank, AnswerInv, ReuseIsTransparent, ReusedInv
  <2> QED BY <1>1, <2>2, <2>3, <1>2 DEF ReuseInv
<1>6. ASSUME NEW i \in Best(task), blackboard' = Recalled(task, i) PROVE ReuseInv'
  <2>1. i \in DOMAIN db /\ db[i].quality >= Floor
    BY DEF Best, Usable, Retrieved, Matching, Retrievable
  <2>2. Recalled(task, i) \in Blackboard
    BY <1>2, <1>3, <2>1, RecalledTypes
  <2>3. blackboard' \in Blackboard'
    BY <1>4, <1>6, <2>2 DEF Blackboard
  <2>4. ReuseTypeOK'
    BY <1>2, <2>3 DEF ReuseTypeOK, Recall, vars
  <2>5. ReusedInv' /\ ReuseIsTransparent'
    BY <1>4, <1>6, <2>1 DEF ReusedInv, ReuseIsTransparent, Recalled
  <2>6. AnswerInv'
    <3> SUFFICES ASSUME SelfReliant(task), task.op # "codefix"
                 PROVE  blackboard'.reused_answer \in {None, Alone(task)}
      BY <1>4 DEF AnswerInv
    <3>1. i \in DOMAIN payload
      BY <1>2, <2>1 DEF ReuseTypeOK, TypeOK
    <3>2. payload[i].signature = Signature(task) => payload[i].answer = Alone(task)
      BY <1>3, <3>1 DEF ReuseInv, PayloadInv
    <3> QED BY <1>6, <3>2 DEF Recalled
  <2> QED BY <1>1, <2>4, <2>5, <2>6 DEF ReuseInv
<1> QED BY <1>5, <1>6 DEF Recall

\* The executor.
LEMMA ActInv == ASSUME ReuseInv, Inv', Act PROVE ReuseInv'
<1> DEFINE a == blackboard.reused_answer
           s == blackboard.reused_solution
           v == Result(task, a, s)
<1>1. PayloadInv' /\ MisledInv'
  BY SameTableReuse DEF Act, vars
<1>2. TypeOK' /\ ReuseTypeOK
  BY DEF Inv, ReuseInv
<1>3. task \in Tasks /\ a \in Value \cup {None} /\ s \in Value \cup {None}
  BY <1>2 DEF ReuseTypeOK, Act, Blackboard
<1>4. v \in Value \cup {None} /\ SolutionUsed(task, s, v) \in Value \cup {None}
  <2>1. \A w \in Value \cup {None} : Result(task, a, s) \in Value \cup {None}
                                     /\ SolutionUsed(task, s, w) \in Value \cup {None}
    BY <1>3, ResultTypes
  <2>2. None \in Value \cup {None}
    OBVIOUS
  <2> QED BY <2>1, <2>2
<1>5. SelfReliant(task) => v = Alone(task)
  <2> SUFFICES ASSUME SelfReliant(task) PROVE v = Alone(task)
    OBVIOUS
  <2>1. task.op # "codefix" => a \in {None, Alone(task)}
    BY DEF ReuseInv, AnswerInv, Act
  <2> QED BY <1>3, <2>1, SelfReliantResult
<1> HIDE DEF v
<1>6. CASE v = None /\ Return
  <2>1. UNCHANGED <<db, payload, misled, workload>> /\ faults' \in 0..MaxFaults
    BY <1>2 DEF Act, vars, ReuseTypeOK
  <2> QED BY <1>6, <2>1, ReturnInv
<1>7. CASE /\ v # None
           /\ at' = "rate"
           /\ blackboard' = [reused |-> blackboard.reused, reused_answer |-> a,
                             reused_solution |-> s, value |-> v,
                             solution_used |-> SolutionUsed(task, s, v)]
           /\ UNCHANGED <<task, tries>>
  <2>1. UNCHANGED <<vars, payload, workload, faults, misled>>
    BY DEF Act
  <2>2. blackboard' \in Blackboard'
    BY <1>2, <1>3, <1>4, <1>7, <2>1 DEF ReuseTypeOK, Blackboard, vars
  <2>3. blackboard'.value = v /\ blackboard'.reused = blackboard.reused
    BY <1>7
  <2>4. ReuseTypeOK'
    BY <1>2, <1>7, <2>1, <2>2, <2>3 DEF ReuseTypeOK, Act, vars
  <2>5. AnswerInv' /\ ReuseIsTransparent'
    BY <1>5, <1>7, <2>3 DEF AnswerInv, ReuseIsTransparent
  <2>6. ReusedInv'
    BY <1>7, <2>1, <2>3 DEF ReuseInv, ReusedInv, Act, vars
  <2> QED BY <1>1, <2>4, <2>5, <2>6 DEF ReuseInv
<1> QED BY <1>6, <1>7 DEF Act, v

\* The reviewer rates the record that was reused; a failure costs it a penalty.
LEMMA RateInv == ASSUME ReuseInv, Inv', Rate PROVE ReuseInv'
<1> DEFINE i == blackboard.reused
<1>1. Inv /\ TypeOK' /\ ReuseTypeOK /\ TypeOK
  BY DEF Inv, ReuseInv
<1>2. /\ at = "rate" /\ at' = "write"
      /\ UNCHANGED <<payload, workload, task, blackboard, tries, faults>>
  BY DEF Rate
<1>3. PayloadInv'
  BY <1>2 DEF ReuseInv, PayloadInv
<1>4. AnswerInv' /\ ReuseIsTransparent' /\ ReusedInv'
  BY <1>2 DEF ReuseInv, AnswerInv, ReuseIsTransparent, ReusedInv
<1>5. CASE i = 0
  <2>1. UNCHANGED <<vars, misled>>
    BY <1>5 DEF Rate
  <2>2. MisledInv'
    BY <2>1 DEF ReuseInv, MisledInv, vars
  <2>3. blackboard' \in Blackboard'
    BY <1>1, <1>2, <2>1 DEF ReuseTypeOK, Blackboard, vars
  <2>4. ReuseTypeOK'
    BY <1>1, <1>2, <2>1, <2>3 DEF ReuseTypeOK, vars
  <2> QED BY <1>3, <1>4, <2>2, <2>4 DEF ReuseInv
<1>6. CASE i # 0
  <2>1. i \in DOMAIN db /\ db[i] \in Record /\ db[i].quality \in 0..20 /\ misled[i] \in 0..4
    <3>1. i \in DOMAIN db
      BY <1>1, <1>6 DEF ReuseTypeOK, Blackboard
    <3>2. db[i] \in Record
      BY <1>1, <3>1 DEF TypeOK
    <3>3. misled[i] \in 0..4
      BY <1>1, <3>1 DEF ReuseTypeOK
    <3> QED BY <3>1, <3>2, <3>3 DEF Record
  <2>2. RecordFeedback(i, Accepted) /\ misled' = Misled(i)
    BY <1>6 DEF Rate
  <2> DEFINE q == IF Accepted THEN Least(20, db[i].quality + Reward)
                  ELSE Greatest(0, db[i].quality - Penalty)
  <2>3. q \in 0..20
    BY <2>1 DEF Least, Greatest, Reward, Penalty
  <2>4. db' = [db EXCEPT ![i].quality = q] /\ UNCHANGED <<pending, open>>
    BY <2>2 DEF RecordFeedback, Feedback
  <2>5. ~ Accepted => q = Greatest(0, db[i].quality - 4)
    BY DEF Penalty
  <2> HIDE DEF q
  <2>6. /\ DOMAIN db' = DOMAIN db
        /\ \A j \in DOMAIN db : db'[j].quality = IF j = i THEN q ELSE db[j].quality
    BY <1>1, <2>1, <2>3, <2>4, RescoredKeeps
  <2>7. ReusedInv /\ MisledInv
    BY DEF ReuseInv
  <2>8. ~ Accepted /\ tries = 0 => db[i].quality >= 6 /\ db[i].quality <= 20 - 4 * misled[i]
    BY <1>2, <1>6, <2>1, <2>7 DEF ReusedInv, MisledInv, Floor
  <2> DEFINE m == IF Accepted THEN 0 ELSE IF tries = 0 THEN misled[i] + 1 ELSE misled[i]
  <2>9. misled' = [misled EXCEPT ![i] = m]
    BY <2>2 DEF Misled
  <2>10. m \in 0..4 /\ (q <= 20 - 4 * m \/ q <= 4)
    <3>1. CASE Accepted
      BY <3>1, <2>3
    <3>2. CASE ~ Accepted /\ tries = 0
      BY <3>2, <2>1, <2>5, <2>8 DEF Greatest
    <3>3. CASE ~ Accepted /\ tries # 0
      <4>1. db[i].quality <= 20 - 4 * misled[i] \/ db[i].quality <= 4
        BY <2>1, <2>7 DEF MisledInv
      <4> QED BY <3>3, <4>1, <2>1, <2>5 DEF Greatest
    <3> QED BY <3>1, <3>2, <3>3
  <2> HIDE DEF m
  <2>11. /\ misled' \in [DOMAIN db -> 0..4]
         /\ \A j \in DOMAIN db : misled'[j] = IF j = i THEN m ELSE misled[j]
    BY <1>1, <2>1, <2>9, <2>10 DEF ReuseTypeOK
  <2>12. MisledInv'
    BY <2>6, <2>7, <2>10, <2>11 DEF MisledInv
  <2>13. blackboard' \in Blackboard'
    BY <1>1, <1>2, <2>6 DEF ReuseTypeOK, Blackboard
  <2>14. Len(payload') = Len(db')
    BY <1>1, <1>2, <2>6 DEF ReuseTypeOK, TypeOK
  <2>15. ReuseTypeOK'
    BY <1>1, <1>2, <2>4, <2>6, <2>11, <2>13, <2>14 DEF ReuseTypeOK
  <2> QED BY <1>3, <1>4, <2>12, <2>15 DEF ReuseInv
<1> QED BY <1>5, <1>6

\* What a write does to the table: one score is raised to that of the new record, or
\* a record is added, with that score or the cap of a failure.
LEMMA WriteEffect ==
    ASSUME Inv, NEW c \in Content, NEW q \in Qualities, NEW f \in BOOLEAN, Write(c, q, f)
    PROVE  \/ \E e \in DOMAIN db :
                 /\ Sig[db[e].content] = Sig[c]
                 /\ DOMAIN db' = DOMAIN db
                 /\ \A i \in DOMAIN db :
                       db'[i].quality = IF i = e THEN Greatest(db[e].quality, q)
                                        ELSE db[i].quality
           \/ /\ Len(db') = Len(db) + 1
              /\ \A i \in DOMAIN db : db'[i] = db[i]
              /\ db'[Len(db) + 1].quality = IF f THEN Least(q, Cap) ELSE q
<1>1. TypeOK /\ q \in 0..20
  BY QualitiesAssumption DEF Inv
<1>2. ASSUME NEW e \in Hits(c), Sig[db[e].content] = Sig[c], Merge(e, q)
      PROVE  \E d \in DOMAIN db :
                 /\ Sig[db[d].content] = Sig[c]
                 /\ DOMAIN db' = DOMAIN db
                 /\ \A i \in DOMAIN db :
                       db'[i].quality = IF i = d THEN Greatest(db[d].quality, q)
                                        ELSE db[i].quality
  <2>1. e \in DOMAIN db /\ db[e] \in Record
    <3>1. e \in DOMAIN db
      BY <1>1 DEF Hits, TypeOK
    <3> QED BY <1>1, <3>1 DEF TypeOK
  <2> DEFINE n == Greatest(db[e].quality, q)
  <2>2. n \in 0..20
    BY <1>1, <2>1 DEF Greatest, Record
  <2>3. db' = [db EXCEPT ![e].quality = n]
    BY <1>2 DEF Merge
  <2> HIDE DEF n
  <2>4. /\ DOMAIN db' = DOMAIN db
        /\ \A i \in DOMAIN db : db'[i].quality = IF i = e THEN n ELSE db[i].quality
    BY <2>1, <2>2, <2>3, RescoredKeeps
  <2> QED BY <1>2, <2>1, <2>4 DEF n
<1>3. ASSUME NEW p, Insert(c, q, f, p)
      PROVE  /\ Len(db') = Len(db) + 1
             /\ \A i \in DOMAIN db : db'[i] = db[i]
             /\ db'[Len(db) + 1].quality = IF f THEN Least(q, Cap) ELSE q
  <2> DEFINE r == [content |-> c, failed |-> f, parent |-> p,
                   quality |-> IF f THEN Least(q, Cap) ELSE q,
                   version |-> IF p = 0 THEN 1 ELSE db[p].version + 1]
  <2>1. db' = Append(db, r)
    BY <1>3 DEF Insert
  <2>2. r.quality = IF f THEN Least(q, Cap) ELSE q
    OBVIOUS
  <2> HIDE DEF r
  <2>3. db \in Seq(Record)
    BY <1>1 DEF TypeOK
  <2>4. Len(db') = Len(db) + 1 /\ db'[Len(db) + 1] = r /\ \A i \in 1..Len(db) : db'[i] = db[i]
    BY <2>1, <2>3
  <2> QED BY <2>2, <2>3, <2>4
<1> QED BY <1>2, <1>3 DEF Write

\* The reviewer writes its record.
LEMMA MemorizeInv == ASSUME ReuseInv, Inv', Memorize PROVE ReuseInv'
<1> DEFINE c == Says(task, blackboard.value)
           p == [op |-> task.op, signature |-> Signature(task),
                 answer |-> blackboard.value, solution |-> blackboard.solution_used]
<1>1. Inv /\ TypeOK' /\ ReuseTypeOK /\ TypeOK
  BY DEF Inv, ReuseInv
<1>2. at = "write" /\ Return /\ UNCHANGED <<workload, faults>>
  BY DEF Memorize
<1>3. task \in Tasks /\ blackboard.value \in Value /\ blackboard.solution_used \in Value \cup {None}
  BY <1>1, <1>2 DEF ReuseTypeOK, Blackboard
<1>4. c \in Content
  BY <1>3, TasksAssumption
<1>5. WrittenQuality \in Qualities
  BY QualityAssumption DEF WrittenQuality
<1>6. (~ Accepted) \in BOOLEAN
  BY DEF Accepted
<1>7. Write(c, WrittenQuality, ~ Accepted)
  BY DEF Memorize
<1>8. payload' = IF Len(db') = Len(db) THEN payload ELSE Append(payload, p)
  BY DEF Memorize
<1>9. misled' = [i \in DOMAIN db' |->
                    IF i \notin DOMAIN db \/ (Accepted /\ Sig[db[i].content] = Sig[c])
                    THEN 0 ELSE misled[i]]
  BY DEF Memorize
<1>10. p \in Payload
  BY <1>3 DEF Payload
<1>11. ASSUME NEW t \in Tasks, SelfReliant(t), t.op # "codefix", Signature(task) = Signature(t)
       PROVE  blackboard.value = Alone(t)
  <2>1. SelfReliant(task) /\ Alone(task) = Alone(t)
    BY <1>3, <1>11, SelfReliantTogether
  <2> QED BY <1>2, <2>1 DEF ReuseInv, ReuseIsTransparent
<1> HIDE DEF c, p
<1>12. AnswerInv' /\ ReuseIsTransparent' /\ ReusedInv'
  BY <1>2 DEF Return, AnswerInv, ReuseIsTransparent, ReusedInv
<1>13. blackboard' \in Blackboard'
  BY <1>2 DEF Return, Blank, Blackboard
<1>14. \A i \in DOMAIN db : db[i].quality \in 0..20 /\ misled[i] \in 0..4
  <2> TAKE i \in DOMAIN db
  <2>1. db[i] \in Record
    BY <1>1 DEF TypeOK
  <2> QED BY <1>1, <2>1 DEF Record, ReuseTypeOK
<1>15. misled' \in [DOMAIN db' -> 0..4]
  BY <1>9, <1>14
<1>16. MisledInv
  BY DEF ReuseInv
<1>17. ~ Accepted => WrittenQuality = 4
  BY DEF WrittenQuality
<1>18. WrittenQuality \in 0..20
  BY DEF WrittenQuality
<1>19. ASSUME NEW e \in DOMAIN db, Sig[db[e].content] = Sig[c], DOMAIN db' = DOMAIN db,
              \A i \in DOMAIN db :
                  db'[i].quality = IF i = e THEN Greatest(db[e].quality, WrittenQuality)
                                   ELSE db[i].quality
       PROVE  ReuseInv'
  <2>1. Len(db') = Len(db)
    BY <1>1, <1>19 DEF TypeOK
  <2>2. payload' = payload
    BY <1>8, <2>1
  <2>3. MisledInv'
    <3> SUFFICES ASSUME NEW i \in DOMAIN db
                 PROVE  db'[i].quality <= 20 - 4 * misled'[i] \/ db'[i].quality <= 4
      BY <1>19 DEF MisledInv
    <3>1. misled'[i] = IF Accepted /\ Sig[db[i].content] = Sig[c] THEN 0 ELSE misled[i]
      BY <1>9, <1>19
    <3>2. db[i].quality <= 20 - 4 * misled[i] \/ db[i].quality <= 4
      BY <1>16 DEF MisledInv
    <3>3. db'[i].quality = IF i = e THEN Greatest(db[e].quality, WrittenQuality)
                           ELSE db[i].quality
      BY <1>19
    <3>4. CASE i = e /\ Accepted
      BY <1>14, <1>18, <1>19, <3>1, <3>3, <3>4 DEF Greatest
    <3>5. CASE i = e /\ ~ Accepted
      BY <1>14, <1>17, <3>1, <3>2, <3>3, <3>5 DEF Greatest
    <3>6. CASE i # e
      BY <1>14, <3>1, <3>2, <3>3, <3>6
    <3> QED BY <3>4, <3>5, <3>6
  <2>4. PayloadInv'
    BY <2>2 DEF ReuseInv, PayloadInv
  <2>5. ReuseTypeOK'
    BY <1>1, <1>2, <1>13, <1>15, <2>1, <2>2, BoundsAssumption DEF ReuseTypeOK, Return
  <2> QED BY <1>12, <2>3, <2>4, <2>5 DEF ReuseInv
<1>20. ASSUME Len(db') = Len(db) + 1, \A i \in DOMAIN db : db'[i] = db[i],
              db'[Len(db) + 1].quality =
                  IF ~ Accepted THEN Least(WrittenQuality, Cap) ELSE WrittenQuality
       PROVE  ReuseInv'
  <2>1. Len(db) \in Nat /\ DOMAIN db = 1..Len(db) /\ DOMAIN db' = 1..(Len(db) + 1)
    BY <1>1, <1>20 DEF TypeOK
  <2>2. payload' = Append(payload, p)
    <3> DEFINE n == Len(db)
               m == Len(db')
    <3>2. n \in Nat /\ m = n + 1
      BY <1>20, <2>1
    <3>1. m # n
      <4> HIDE DEF m, n
      <4> QED BY <3>2
    <3> QED BY <1>8, <3>1
  <2>3. payload \in Seq(Payload) /\ Len(payload) = Len(db)
    BY <1>1 DEF ReuseTypeOK
  <2>4. /\ payload' \in Seq(Payload) /\ Len(payload') = Len(db) + 1
        /\ payload'[Len(db) + 1] = p
        /\ \A i \in 1..Len(db) : payload'[i] = payload[i]
        /\ DOMAIN payload' = 1..(Len(db) + 1) /\ DOMAIN payload = 1..Len(db)
    BY <1>10, <2>1, <2>2, <2>3
  <2>5. PayloadInv'
    <3> SUFFICES ASSUME NEW i \in 1..(Len(db) + 1), NEW t \in Tasks, SelfReliant(t),
                        t.op # "codefix", payload'[i].signature = Signature(t)
                 PROVE  payload'[i].answer = Alone(t)
      BY <2>4 DEF PayloadInv
    <3>1. CASE i \in 1..Len(db)
      BY <2>4, <3>1 DEF ReuseInv, PayloadInv
    <3>2. CASE i = Len(db) + 1
      BY <1>11, <2>4, <3>2 DEF p
    <3> QED BY <2>1, <3>1, <3>2
  <2>6. MisledInv'
    <3> SUFFICES ASSUME NEW i \in 1..(Len(db) + 1)
                 PROVE  db'[i].quality <= 20 - 4 * misled'[i] \/ db'[i].quality <= 4
      BY <2>1 DEF MisledInv
    <3>1. CASE i \in 1..Len(db)
      <4>1. db'[i] = db[i] /\ misled'[i] \in {0, misled[i]}
        BY <1>9, <1>20, <2>1, <3>1
      <4>2. db[i].quality \in 0..20 /\ misled[i] \in 0..4
        BY <1>14, <2>1, <3>1
      <4>3. db[i].quality <= 20 - 4 * misled[i] \/ db[i].quality <= 4
        BY <1>16, <2>1, <3>1 DEF MisledInv
      <4>4. db'[i].quality = db[i].quality
        BY <4>1
      <4>5. CASE misled'[i] = 0
        BY <4>2, <4>4, <4>5
      <4>6. CASE misled'[i] = misled[i]
        BY <4>3, <4>4, <4>6
      <4> QED BY <4>1, <4>5, <4>6
    <3>2. CASE i = Len(db) + 1
      <4>1. misled'[i] = 0
        BY <1>9, <2>1, <3>2
      <4> QED BY <1>18, <1>20, <3>2, <4>1 DEF Least, Cap
    <3> QED BY <2>1, <3>1, <3>2
  <2>7. ReuseTypeOK'
    BY <1>1, <1>2, <1>13, <1>15, <1>20, <2>4, BoundsAssumption DEF ReuseTypeOK, Return
  <2> QED BY <1>12, <2>5, <2>6, <2>7 DEF ReuseInv
<1> QED BY <1>1, <1>4, <1>5, <1>6, <1>7, <1>19, <1>20, WriteEffect

\* The invariant is inductive.
LEMMA ReuseNextInv == ReuseInv /\ [ReuseNext]_allVars => ReuseInv'
<1> SUFFICES ASSUME ReuseInv, [ReuseNext]_allVars PROVE ReuseInv'
  OBVIOUS
<1>1. ReuseTypeOK /\ Inv
  BY DEF ReuseInv
<1>2. Inv'
  BY <1>1, StoreSteps, NextInv
<1>3. ASSUME NEW t \in workload, Begin(t) PROVE ReuseInv'
  BY <1>2, <1>3, BeginInv
<1>4. CASE Recall
  BY <1>2, <1>4, RecallInv
<1>5. CASE Act
  BY <1>2, <1>5, ActInv
<1>6. CASE Rate
  BY <1>2, <1>6, RateInv
<1>7. CASE Memorize
  BY <1>2, <1>7, MemorizeInv
<1>8. CASE \/ UNCHANGED <<db, payload, misled, workload, run, faults>> /\ ~ open
           \/ UNCHANGED <<db, payload, misled, workload, run, faults>> /\ pending # 0
           \/ UNCHANGED <<db, payload, misled, workload, run, faults, open, pending>>
  <2>1. PayloadInv' /\ MisledInv'
    BY <1>8, SameTableReuse
  <2>2. blackboard' \in Blackboard'
    BY <1>1, <1>8 DEF ReuseTypeOK, Blackboard, run
  <2>3. at' # "idle" => open' /\ pending' = 0
    BY <1>1, <1>8 DEF ReuseTypeOK, run
  <2>4. ReuseTypeOK'
    BY <1>1, <1>2, <1>8, <2>2, <2>3 DEF ReuseTypeOK, run, Inv
  <2>5. AnswerInv' /\ ReuseIsTransparent' /\ ReusedInv'
    BY <1>8 DEF ReuseInv, AnswerInv, ReuseIsTransparent, ReusedInv, run
  <2> QED BY <1>2, <2>1, <2>4, <2>5 DEF ReuseInv
<1>9. CASE ReviewerRetried
  <2>1. PayloadInv' /\ MisledInv'
    BY <1>9, SameTableReuse DEF ReviewerRetried, vars
  <2>2. blackboard' \in Blackboard'
    BY <1>1, <1>9 DEF ReuseTypeOK, Blackboard, ReviewerRetried, vars
  <2>3. /\ tries' \in 0..MaxRetries /\ tries' # 0 /\ faults' \in 0..MaxFaults
    BY <1>1, <1>9, BoundsAssumption DEF ReviewerRetried, Fault, ReuseTypeOK
  <2>4. ReuseTypeOK'
    BY <1>1, <1>2, <1>9, <2>2, <2>3 DEF ReuseTypeOK, ReviewerRetried, vars, Inv
  <2>5. AnswerInv' /\ ReuseIsTransparent' /\ ReusedInv'
    BY <1>9, <2>3 DEF ReuseInv, AnswerInv, ReuseIsTransparent, ReusedInv, ReviewerRetried
  <2> QED BY <1>2, <2>1, <2>4, <2>5 DEF ReuseInv
<1>10. CASE GivenUp \/ Dies
  <2>1. faults' \in 0..MaxFaults
    BY <1>1, <1>10, BoundsAssumption DEF GivenUp, Dies, Fault, ReuseTypeOK
  <2>2. UNCHANGED <<db, payload, misled, workload>> /\ Return
    BY <1>10 DEF GivenUp, Dies, Stop, vars
  <2> QED BY <1>2, <2>1, <2>2, ReturnInv
<1>11. CASE Index
  BY <1>8, <1>11 DEF Index, AddToIndex
<1>12. CASE Restarts
  BY <1>8, <1>12 DEF Restarts, Reopen
<1>13. CASE UNCHANGED allVars
  BY <1>8, <1>13 DEF allVars, vars
<1> QED
  BY <1>3, <1>4, <1>5, <1>6, <1>7, <1>9, <1>10, <1>11, <1>12, <1>13 DEF ReuseNext, Progress

\* Types: no task ends up with a value of another kind, and a task runs only while the
\* store is open and indexed.
THEOREM ReuseTypeCorrect == ReuseSpec => []ReuseTypeOK
<1>1. ReuseInv => ReuseTypeOK BY DEF ReuseInv
<1> QED BY <1>1, ReuseInitInv, ReuseNextInv, PTL DEF ReuseSpec

\* Tasks use the store as MemoryStore specifies, so that what is proved of the store
\* holds under any tasks, with their retries and crashes.
THEOREM TasksUseTheStore == ReuseSpec => Spec
<1>1. ReuseInit => Init BY DEF ReuseInit
<1>2. ReuseInv => ReuseTypeOK BY DEF ReuseInv
<1> QED BY <1>1, <1>2, ReuseInitInv, ReuseNextInv, StoreSteps, PTL DEF ReuseSpec, Spec

\* Whatever was stored before, a self-reliant task yields what it yields alone.
THEOREM ReuseIsAlwaysTransparent == ReuseSpec => []ReuseIsTransparent
<1>1. ReuseInv => ReuseIsTransparent BY DEF ReuseInv
<1> QED BY <1>1, ReuseInitInv, ReuseNextInv, PTL DEF ReuseSpec

\* No record misleads more than four tasks in a row.
THEOREM NoneMisleadsForever == ReuseSpec => []MisledBounded
<1>1. ReuseInv => MisledBounded BY DEF ReuseInv, ReuseTypeOK, MisledBounded
<1> QED BY <1>1, ReuseInitInv, ReuseNextInv, PTL DEF ReuseSpec

\* What is retrievable after a failed task was retrievable before it.
LEMMA FailureStep == ReuseInv /\ [ReuseNext]_allVars => [RestoresNothing]_allVars
<1> SUFFICES ASSUME ReuseInv, [ReuseNext]_allVars, at \in {"rate", "write"}, ~ Accepted
             PROVE  Retrievable' \subseteq Retrievable
  BY DEF RestoresNothing
<1>1. Inv /\ ReuseTypeOK /\ TypeOK
  BY DEF ReuseInv, Inv
<1>2. \A i \in DOMAIN db : db[i].quality \in 0..20
  <2> TAKE i \in DOMAIN db
  <2>1. db[i] \in Record
    BY <1>1 DEF TypeOK
  <2> QED BY <2>1 DEF Record
<1>3. CASE UNCHANGED db
  BY <1>3 DEF Retrievable
<1>4. CASE Rate
  <2>1. CASE blackboard.reused = 0
    BY <1>3, <1>4, <2>1 DEF Rate, vars
  <2>2. CASE blackboard.reused # 0
    <3> DEFINE i == blackboard.reused
               q == Greatest(0, db[i].quality - Penalty)
    <3>1. i \in DOMAIN db
      BY <1>1, <2>2 DEF ReuseTypeOK, Blackboard
    <3>2. q \in 0..20 /\ q <= db[i].quality
      BY <1>2, <3>1 DEF Greatest, Penalty
    <3>3. RecordFeedback(i, Accepted)
      BY <1>4, <2>2 DEF Rate
    <3>4. db' = [db EXCEPT ![i].quality = q]
      BY <3>3 DEF RecordFeedback, Feedback
    <3> HIDE DEF q, i
    <3>5. /\ DOMAIN db' = DOMAIN db
          /\ \A j \in DOMAIN db : db'[j].quality = IF j = i THEN q ELSE db[j].quality
      BY <1>1, <3>1, <3>2, <3>4, RescoredKeeps
    <3> QED BY <1>2, <3>1, <3>2, <3>5 DEF Retrievable, Floor
  <2> QED BY <2>1, <2>2
<1>5. CASE Memorize
  <2> DEFINE c == Says(task, blackboard.value)
  <2>1. c \in Content
    <3>1. task \in Tasks /\ blackboard.value \in Value
      BY <1>1, <1>5 DEF Memorize, ReuseTypeOK, Blackboard
    <3> QED BY <3>1, TasksAssumption
  <2>2. WrittenQuality = 4 /\ 4 \in Qualities /\ TRUE \in BOOLEAN
    BY QualityAssumption DEF WrittenQuality
  <2>3. Write(c, 4, TRUE)
    BY <1>5, <2>2 DEF Memorize
  <2> HIDE DEF c
  <2>4. CASE \E e \in DOMAIN db :
                 /\ DOMAIN db' = DOMAIN db
                 /\ \A i \in DOMAIN db :
                       db'[i].quality = IF i = e THEN Greatest(db[e].quality, 4)
                                        ELSE db[i].quality
    BY <1>2, <2>4 DEF Greatest, Retrievable, Floor
  <2>5. CASE /\ Len(db') = Len(db) + 1
             /\ \A i \in DOMAIN db : db'[i] = db[i]
             /\ db'[Len(db) + 1].quality = Least(4, Cap)
    <3>1. DOMAIN db = 1..Len(db) /\ Len(db) \in Nat
      BY <1>1 DEF TypeOK
    <3>2. Inv'
      BY <1>1, StoreSteps, NextInv
    <3>3. DOMAIN db' = 1..(Len(db) + 1)
      BY <2>5, <3>2 DEF Inv, TypeOK
    <3> QED BY <2>5, <3>1, <3>3 DEF Least, Cap, Retrievable, Floor
  <2> QED BY <1>1, <2>1, <2>2, <2>3, <2>4, <2>5, WriteEffect
<1>6. CASE \E t \in workload : Begin(t)
  BY <1>3, <1>6 DEF Begin, vars
<1>7. CASE Recall \/ Act \/ Index \/ Restarts
  BY <1>3, <1>7 DEF Recall, Act, Index, AddToIndex, Restarts, Reopen, vars
<1>8. CASE ReviewerRetried \/ GivenUp \/ Dies
  BY <1>3, <1>8 DEF ReviewerRetried, GivenUp, Dies, Stop, vars
<1>9. CASE UNCHANGED allVars
  BY <1>3, <1>9 DEF allVars, vars
<1> QED BY <1>4, <1>5, <1>6, <1>7, <1>8, <1>9 DEF ReuseNext, Progress

\* A failed task never brings an isolated record back.
THEOREM FailuresRestoreNothing == ReuseSpec => FailureRestoresNothing
<1> QED BY ReuseInitInv, ReuseNextInv, FailureStep, PTL DEF ReuseSpec, FailureRestoresNothing
=============================================================================
