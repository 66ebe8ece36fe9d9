--------------------------- MODULE PipelineRun_proofs ---------------------------
(***************************************************************************)
(* Proofs about PipelineRun, for every number of retries.                  *)
(***************************************************************************)
EXTENDS PipelineRun, TLAPS

\* While a stage runs every earlier agent has succeeded within its retries and
\* no later agent has been entered: a failure can neither be skipped over nor
\* leave an agent of a later stage running.
StagesInOrder ==
    \A i \in Stage :
        /\ i < idx => failed[i] <= MaxRetries
        /\ i < idx /\ pc # "returned" => agent[i] = "succeeded"
        /\ i > idx => failed[i] = 0 /\ agent[i] \in {"created", "ready", "terminated"}

\* A retried stage sends nothing again: the channel holds one inbound message
\* per stage entered, plus the final one, each inbound message coming from the
\* agent the previous one went to, and one plan state per accepted stage that
\* hands one on.  The communication cost of a run does not depend on its retries.
RetriesSendNothing ==
    /\ metrics.messages = Len(sent)
    /\ pc # "raised" =>
          metrics.transfers = IF ~mode.references THEN 0 ELSE IF idx > 2 THEN 2 ELSE idx - 1
    /\ Len(sent) = CASE pc \in {"start", "dispatch"} -> idx - 1
                      [] pc = "returned"             -> idx + 1
                      [] OTHER                       -> idx
    /\ \A k \in 1..Len(sent) :
          sent[k].target # "orchestrator" =>
             /\ sent[k].target = Name[k]
             /\ sent[k].source = (IF k = 1 THEN "orchestrator" ELSE Name[k - 1])

\* Once the reviewer has recorded a verdict no later step changes it: its
\* retries verify the same value again.
VerdictIsStable ==
    [][board.answer # "unset" => /\ board'.answer = board.answer
                                 /\ metrics'.success = metrics.success]_vars

\* The names and the first operations, stage by stage.
LEMMA Tables ==
    /\ Name[1] = "planner" /\ Name[2] = "retriever"
    /\ Name[3] = "executor" /\ Name[4] = "reviewer"
    /\ Entry[1] = "planning" /\ Entry[2] = "resolving"
    /\ Entry[3] = "computing" /\ Entry[4] = "verifying"
  BY DEF Name, Entry

\* Every stage has a known name.
LEMMA NameTyped == ASSUME NEW i \in Stage PROVE Name[i] \in Sources
  BY Tables DEF Stage, Sources

\* The first operation of a stage is one of its operations.
LEMMA EntryTyped == ASSUME NEW i \in Stage PROVE Entry[i] \in Positions(i)
  BY Tables DEF Stage, Positions

\* Where a position belongs; a position is never "idle".
LEMMA PositionsApart ==
    ASSUME NEW i \in Stage, NEW p \in Positions(i)
    PROVE  /\ p # "idle"
           /\ p = "planning" => i = 1
           /\ p \in {"resolving", "recalling", "marking", "digesting"} => i = 2
           /\ p \in {"computing", "explaining"} => i = 3
           /\ p \in {"verifying", "summarizing", "crediting", "memorizing"} => i = 4
  BY DEF Stage, Positions

\* Updating two fields of a record keeps it in its set of records.
LEMMA FinalCounters ==
    ASSUME NEW m \in Snapshots, NEW a \in Nat
    PROVE  /\ [m EXCEPT !.messages = a, !.running = FALSE] \in Snapshots
           /\ [m EXCEPT !.messages = a, !.running = FALSE].errors = m.errors
           /\ [m EXCEPT !.messages = a, !.running = FALSE].degradations = m.degradations
           /\ [m EXCEPT !.messages = a, !.running = FALSE].success = m.success
  BY DEF Snapshots

\* Updating two entries of the blackboard keeps it a blackboard.
LEMMA TwoEntries ==
    ASSUME NEW b \in Boards, NEW r \in Values
    PROVE  /\ [b EXCEPT !.ids = 1, !.reused = r] \in Boards
           /\ [b EXCEPT !.ids = 1, !.reused = r].value = b.value
           /\ [b EXCEPT !.ids = 1, !.reused = r].answer = b.answer
<1>1. [b EXCEPT !.ids = 1] \in Boards
  BY DEF Boards
<1>2. [b EXCEPT !.ids = 1, !.reused = r] = [[b EXCEPT !.ids = 1] EXCEPT !.reused = r]
  OBVIOUS
<1>3. [b EXCEPT !.ids = 1, !.reused = r] \in Boards
  BY <1>1, <1>2 DEF Boards
<1> QED
  BY <1>3 DEF Boards

\* At most two references of a message are lost.
LEMMA LossesCounted ==
    ASSUME NEW lost \in Losses
    PROVE  lost.plan \in 0..1 /\ lost.data \in 0..1
  BY DEF Losses

\* Degradations alone are counted.
LEMMA DegradedFacts ==
    ASSUME metrics \in Snapshots, NEW n \in Nat, Degraded(n)
    PROVE  /\ metrics' \in Snapshots
           /\ metrics'.degradations = metrics.degradations + n
           /\ metrics'.errors = metrics.errors /\ metrics'.success = metrics.success
           /\ metrics'.messages = metrics.messages /\ metrics'.transfers = metrics.transfers
  BY DEF Degraded, Snapshots

----------------------------------------------------------------------------
(* The parts of the inductive invariant.                                    *)

\* The handler's position belongs to the stage that runs, and `last` is the
\* reply of that stage once it has replied.
Control ==
    /\ pc = "handle" => at \in Positions(idx)
    /\ pc # "handle" => at = "idle"
    /\ pc = "start" => idx = 1
    /\ pc \notin {"result", "finish", "returned"} => ~StageFailed
    /\ pc \in {"result", "finish", "returned"} => last.status # "none" /\ last.by = Name[idx]
    /\ pc \in {"finish", "returned"} /\ ~StageFailed => idx = 4
    /\ last.error => StageFailed

\* The failed attempts of the stages already left, of this one and of the later ones.
Attempts ==
    /\ \A i \in Stage : /\ i < idx => failed[i] <= MaxRetries
                        /\ i > idx => failed[i] = 0
    /\ pc \in {"start", "dispatch"} => failed[idx] = 0
    /\ ~StageFailed => failed[idx] <= MaxRetries
    /\ metrics.errors = failed[1] + failed[2] + failed[3] + failed[4]
    /\ metrics.errors <= metrics.degradations

\* The states of the agents of the stages already left and of the later ones.
Lifecycle ==
    /\ \A i \in Stage :
          /\ i < idx /\ pc # "returned" => agent[i] = "succeeded"
          /\ i > idx => agent[i] \in {"created", "ready", "terminated"}
    /\ pc = "result" /\ ~StageFailed => agent[idx] = "succeeded"

\* The recorded verdict is that of the value, from the verification to the reply.
Verdict ==
    /\ metrics.success => idx = 4 /\ board.answer = "right" /\ board.value = "right"
    /\ at \in {"summarizing", "crediting", "memorizing"}
          => (metrics.success <=> board.value = "right")
    /\ /\ pc \in {"result", "finish", "returned"}
       /\ idx = 4
       /\ ~last.error
       => (metrics.success <=> last.status = "ok")

IInv == TypeOK /\ Control /\ Attempts /\ Lifecycle /\ Verdict

----------------------------------------------------------------------------
\* A run starts within the invariant.
LEMMA InitIInv == Init => IInv
<1> SUFFICES ASSUME Init PROVE IInv
  OBVIOUS
<1> USE MaxRetriesAssumption DEF Init, Stage
<1>1. TypeOK
  BY DEF TypeOK, Modes, AgentStates, Sources, NoResult, Values, Messages, Results, Boards,
     Snapshots,
         HitCounts
<1>2. Control
  BY DEF Control, NoResult, StageFailed
<1>3. Attempts
  BY DEF Attempts, NoResult, StageFailed
<1>4. Lifecycle
  BY DEF Lifecycle
<1>5. Verdict
  BY DEF Verdict
<1> QED
  BY <1>1, <1>2, <1>3, <1>4, <1>5 DEF IInv

\* A failed attempt, whatever its kind.
LEMMA AttemptFailsIInv ==
    ASSUME IInv, NEW state \in {"failed", "timeout"}, NEW st \in {"error", "timeout"},
           AttemptFails(state, st)
    PROVE  IInv'
<1> USE MaxRetriesAssumption DEF Stage
<1>0. TypeOK /\ Control /\ Attempts /\ Lifecycle /\ Verdict
  BY DEF IInv
<1>1. /\ pc = "handle" /\ at' = "idle" /\ idx \in 1..4 /\ idx' = idx
      /\ ~StageFailed /\ failed[idx] <= MaxRetries
  BY <1>0 DEF AttemptFails, TypeOK, Control, Attempts
<1>2. /\ failed' = [failed EXCEPT ![idx] = @ + 1]
      /\ failed' \in [Stage -> 0..(MaxRetries + 1)]
      /\ failed'[idx] = failed[idx] + 1
      /\ \A i \in Stage : i # idx => failed'[i] = failed[i]
  BY <1>0, <1>1 DEF AttemptFails, TypeOK
<1>3. /\ metrics' \in Snapshots
      /\ metrics'.errors = metrics.errors + 1
      /\ metrics'.degradations = metrics.degradations + 1
      /\ metrics'.success = metrics.success
  <2> DEFINE m == [metrics EXCEPT !.errors = metrics.errors + 1]
  <2>0. metrics \in Snapshots
    BY <1>0 DEF TypeOK
  <2>1. /\ m \in Snapshots /\ m.errors = metrics.errors + 1
        /\ m.degradations = metrics.degradations /\ m.success = metrics.success
    BY <2>0 DEF Snapshots
  <2>2. metrics' = [m EXCEPT !.degradations = m.degradations + 1]
    BY <2>0, <2>1 DEF AttemptFails, Snapshots
  <2> HIDE DEF m
  <2> QED
    BY <2>1, <2>2 DEF Snapshots
<1>4. \/ /\ pc' = "backoff" /\ last' = last
         /\ failed[idx] + 1 <= MaxRetries
      \/ /\ pc' = "result"
         /\ last' = [status |-> st, error |-> TRUE, by |-> Name[idx]]
  BY <1>1, <1>0 DEF AttemptFails, GivesUp, TypeOK
<1>5. last' \in Results
  <2>1. last \in Results /\ Name[idx] \in Sources
    BY <1>0, <1>1, NameTyped DEF TypeOK
  <2>2. [status |-> st, error |-> TRUE, by |-> Name[idx]] \in Results
    BY <2>1 DEF Results
  <2> QED
    BY <1>4, <2>1, <2>2
<1>6. TypeOK'
  BY <1>0, <1>1, <1>2, <1>3, <1>4, <1>5 DEF AttemptFails, TypeOK, AgentStates
<1>7. Control'
  BY <1>0, <1>1, <1>4 DEF AttemptFails, Control, StageFailed
<1>8. Attempts'
  <2>1. metrics'.errors = failed'[1] + failed'[2] + failed'[3] + failed'[4]
    <3>1. metrics.errors = failed[1] + failed[2] + failed[3] + failed[4]
      BY <1>0 DEF Attempts
    <3>2. idx \in 1..4 /\ failed \in [1..4 -> Nat]
      BY <1>0, MaxRetriesAssumption DEF TypeOK
    <3> QED
      BY <3>1, <3>2, <1>2, <1>3
  <2>2. metrics'.errors <= metrics'.degradations
    <3>1. metrics.errors \in Nat /\ metrics.degradations \in Nat
      BY <1>0 DEF TypeOK, Snapshots
    <3>2. metrics.errors <= metrics.degradations
      BY <1>0 DEF Attempts
    <3> QED
      BY <1>3, <3>1, <3>2
  <2> QED
    BY <1>0, <1>1, <1>2, <1>4, <2>1, <2>2 DEF Attempts, StageFailed
<1>9. Lifecycle'
  BY <1>0, <1>1, <1>4 DEF AttemptFails, TypeOK, Lifecycle, StageFailed
<1>10. Verdict'
  BY <1>0, <1>1, <1>3, <1>4 DEF AttemptFails, Verdict
<1> QED
  BY <1>6, <1>7, <1>8, <1>9, <1>10 DEF IInv

\* The invariant is inductive: one case per action.
LEMMA NextIInv == IInv /\ [Next]_vars => IInv'
<1> SUFFICES ASSUME IInv, [Next]_vars PROVE IInv'
  OBVIOUS
<1> USE MaxRetriesAssumption DEF Stage
<1>0. TypeOK /\ Control /\ Attempts /\ Lifecycle /\ Verdict
  BY DEF IInv
<1>a. /\ idx \in Stage /\ Name[idx] \in Sources /\ Entry[idx] \in Positions(idx)
      /\ mode \in Modes /\ last \in Results /\ sent \in Seq(Messages) /\ prev \in Sources
      /\ board \in Boards /\ metrics \in Snapshots /\ hits \in HitCounts
  BY <1>0, NameTyped, EntryTyped DEF TypeOK
<1>1. CASE Start
  <2>1. /\ metrics' \in Snapshots
        /\ metrics'.errors = metrics.errors /\ metrics'.degradations = metrics.degradations
        /\ metrics'.success = metrics.success
    BY <1>a, <1>1 DEF Start, Snapshots
  <2>2. TypeOK'
    BY <1>0, <1>a, <1>1, <2>1 DEF Start, TypeOK, Positions, AgentStates
  <2>3. Control'
    BY <1>0, <1>a, <1>1 DEF Start, Control, StageFailed, Positions
  <2>4. Attempts'
    BY <1>0, <1>a, <1>1, <2>1 DEF Start, TypeOK, Control, Attempts, StageFailed, Positions,
       Snapshots
  <2>5. Lifecycle'
    BY <1>0, <1>a, <1>1 DEF Start, TypeOK, Control, Lifecycle, StageFailed, Positions
  <2>6. Verdict'
    BY <1>0, <1>a, <1>1, <2>1 DEF Start, Control, Verdict, StageFailed, Positions
  <2> QED
    BY <2>2, <2>3, <2>4, <2>5, <2>6 DEF IInv
<1>2. CASE Dispatch
  <2>1. /\ metrics' \in Snapshots
        /\ metrics'.errors = metrics.errors /\ metrics'.degradations = metrics.degradations
        /\ metrics'.success = metrics.success
    <3>1. metrics' = [metrics EXCEPT !.messages = @ + 1]
      BY <1>2 DEF Dispatch
    <3> QED
      BY <1>a, <3>1 DEF Snapshots
  <2>2. sent' \in Seq(Messages)
    BY <1>a, <1>2 DEF Dispatch, Messages, Sources
  <2>3. TypeOK'
    BY <1>0, <1>a, <1>2, <2>1, <2>2 DEF Dispatch, TypeOK, Positions, AgentStates
  <2>4. Control'
    BY <1>0, <1>a, <1>2, Tables DEF Dispatch, Control, StageFailed, Positions
  <2>5. Attempts'
    BY <1>0, <1>a, <1>2, <2>1, <2>2 DEF Dispatch, TypeOK, Control, Attempts, StageFailed,
       Positions, Snapshots
  <2>6. Lifecycle'
    BY <1>0, <1>a, <1>2 DEF Dispatch, TypeOK, Control, Lifecycle, StageFailed, Positions
  <2>7. Verdict'
    BY <1>0, <1>a, <1>2, <2>1, <2>2, Tables DEF Dispatch, Control, Verdict, StageFailed, Positions
  <2> QED
    BY <2>3, <2>4, <2>5, <2>6, <2>7 DEF IInv
<1>3. CASE Abort
  <2>1. TypeOK'
    BY <1>0, <1>a, <1>3 DEF Abort, StageFailed, TypeOK, Positions, AgentStates
  <2>2. Control'
    BY <1>0, <1>a, <1>3 DEF Abort, StageFailed, Control, StageFailed, Positions
  <2>3. Attempts'
    BY <1>0, <1>a, <1>3 DEF Abort, StageFailed, TypeOK, Control, Attempts, StageFailed,
       Positions, Snapshots
  <2>4. Lifecycle'
    BY <1>0, <1>a, <1>3 DEF Abort, StageFailed, TypeOK, Control, Lifecycle, StageFailed, Positions
  <2>5. Verdict'
    BY <1>0, <1>a, <1>3 DEF Abort, StageFailed, Control, Verdict, StageFailed, Positions
  <2> QED
    BY <2>1, <2>2, <2>3, <2>4, <2>5 DEF IInv
<1>4. CASE Advance
  <2>1. /\ metrics' \in Snapshots
        /\ metrics'.errors = metrics.errors /\ metrics'.degradations = metrics.degradations
        /\ metrics'.success = metrics.success
    BY <1>a, <1>4 DEF Advance, Snapshots
  <2>2. TypeOK'
    BY <1>0, <1>a, <1>4, <2>1 DEF Advance, StageFailed, PutsState, TypeOK, Positions, AgentStates
  <2>3. Control'
    BY <1>0, <1>a, <1>4 DEF Advance, StageFailed, PutsState, Control, StageFailed, Positions
  <2>4. Attempts'
    <3>1. failed' = failed /\ last' = last /\ (idx' = idx + 1 \/ idx' = idx) /\ pc' # "start"
      BY <1>4 DEF Advance
    <3>2. pc' = "dispatch" => idx' = idx + 1
      BY <1>a, <1>4 DEF Advance
    <3> QED
      BY <1>0, <1>a, <1>4, <2>1, <3>1, <3>2 DEF Advance, TypeOK, Attempts, StageFailed
  <2>5. Lifecycle'
    BY <1>0, <1>a, <1>4 DEF Advance, StageFailed, PutsState, TypeOK, Control, Lifecycle,
       StageFailed, Positions
  <2>6. Verdict'
    BY <1>0, <1>a, <1>4, <2>1 DEF Advance, StageFailed, PutsState, Control, Verdict, StageFailed,
       Positions
  <2> QED
    BY <2>2, <2>3, <2>4, <2>5, <2>6 DEF IInv
<1>5. CASE PropagateRaises
  <2>1. /\ metrics' \in Snapshots
        /\ metrics'.errors = metrics.errors /\ metrics'.degradations = metrics.degradations
        /\ metrics'.success = metrics.success
    BY <1>a, <1>5 DEF PropagateRaises, Snapshots
  <2>2. TypeOK'
    BY <1>0, <1>a, <1>5, <2>1 DEF PropagateRaises, StageFailed, PutsState, TypeOK, Positions,
       AgentStates
  <2>3. Control'
    BY <1>0, <1>a, <1>5 DEF PropagateRaises, StageFailed, PutsState, Control, StageFailed, Positions
  <2>4. Attempts'
    BY <1>0, <1>a, <1>5, <2>1 DEF PropagateRaises, StageFailed, PutsState, TypeOK, Control,
       Attempts, StageFailed, Positions, Snapshots
  <2>5. Lifecycle'
    BY <1>0, <1>a, <1>5 DEF PropagateRaises, StageFailed, PutsState, TypeOK, Control, Lifecycle,
       StageFailed, Positions
  <2>6. Verdict'
    BY <1>0, <1>a, <1>5, <2>1 DEF PropagateRaises, StageFailed, PutsState, Control, Verdict,
       StageFailed, Positions
  <2> QED
    BY <2>2, <2>3, <2>4, <2>5, <2>6 DEF IInv
<1>6. CASE Finish
  <2>1. /\ metrics' \in Snapshots
        /\ metrics'.errors = metrics.errors /\ metrics'.degradations = metrics.degradations
        /\ metrics'.success = metrics.success
    <3>1. metrics.messages + 1 \in Nat
      BY <1>a DEF Snapshots
    <3>2. metrics' = [metrics EXCEPT !.messages = metrics.messages + 1, !.running = FALSE]
      BY <1>6 DEF Finish
    <3> QED
      BY <1>a, <3>1, <3>2, FinalCounters
  <2>2. sent' \in Seq(Messages)
    BY <1>a, <1>6 DEF Finish, Messages, Sources
  <2>3. TypeOK'
    BY <1>0, <1>a, <1>6, <2>1, <2>2 DEF Finish, TypeOK, Positions, AgentStates
  <2>4. Control'
    BY <1>0, <1>a, <1>6 DEF Finish, Control, StageFailed, Positions
  <2>5. Attempts'
    BY <1>0, <1>a, <1>6, <2>1, <2>2 DEF Finish, TypeOK, Control, Attempts, StageFailed,
       Positions, Snapshots
  <2>6. Lifecycle'
    BY <1>0, <1>a, <1>6 DEF Finish, TypeOK, Control, Lifecycle, StageFailed, Positions
  <2>7. Verdict'
    BY <1>0, <1>a, <1>6, <2>1, <2>2 DEF Finish, Control, Verdict, StageFailed, Positions
  <2> QED
    BY <2>3, <2>4, <2>5, <2>6, <2>7 DEF IInv
<1>7. CASE HandlerRaises
  BY <1>7, AttemptFailsIInv DEF HandlerRaises
<1>8. CASE HandlerTimesOut
  BY <1>8, AttemptFailsIInv DEF HandlerTimesOut
<1>9. CASE Retry
  <2>1. TypeOK'
    BY <1>0, <1>a, <1>9 DEF Retry, TypeOK, Positions, AgentStates
  <2>2. Control'
    BY <1>0, <1>a, <1>9, Tables DEF Retry, Control, StageFailed, Positions
  <2>3. Attempts'
    BY <1>0, <1>a, <1>9 DEF Retry, TypeOK, Control, Attempts, StageFailed, Positions, Snapshots
  <2>4. Lifecycle'
    BY <1>0, <1>a, <1>9 DEF Retry, TypeOK, Control, Lifecycle, StageFailed, Positions
  <2>5. Verdict'
    BY <1>0, <1>a, <1>9, Tables DEF Retry, Control, Verdict, StageFailed, Positions
  <2> QED
    BY <2>1, <2>2, <2>3, <2>4, <2>5 DEF IInv
<1>10. CASE Plan
  <2>1. last' \in Results
    BY <1>a, <1>10 DEF Plan, Replies, Results
  <2>2. TypeOK'
    BY <1>0, <1>a, <1>10, <2>1 DEF Plan, Replies, TypeOK, Positions, AgentStates
  <2>3. Control'
    BY <1>0, <1>a, <1>10 DEF Plan, Replies, Control, StageFailed, Positions
  <2>4. Attempts'
    BY <1>0, <1>a, <1>10, <2>1 DEF Plan, Replies, TypeOK, Control, Attempts, StageFailed,
       Positions, Snapshots
  <2>5. Lifecycle'
    BY <1>0, <1>a, <1>10 DEF Plan, Replies, TypeOK, Control, Lifecycle, StageFailed, Positions
  <2>6. Verdict'
    BY <1>0, <1>a, <1>10, <2>1 DEF Plan, Replies, Control, Verdict, StageFailed, Positions
  <2> QED
    BY <2>2, <2>3, <2>4, <2>5, <2>6 DEF IInv
<1>11. CASE Resolve
  <2>1. /\ metrics' \in Snapshots
        /\ metrics'.errors = metrics.errors /\ metrics'.degradations >= metrics.degradations
        /\ metrics'.success = metrics.success
    <3>1. PICK lost \in Losses : Degraded(lost.plan + lost.data)
      BY <1>11 DEF Resolve
    <3>2. lost.plan + lost.data \in Nat
      BY <3>1, LossesCounted
    <3> QED
      BY <1>a, <3>1, <3>2, DegradedFacts DEF Snapshots
  <2>2. TypeOK'
    BY <1>0, <1>a, <1>11, <2>1 DEF Resolve, Continues, TypeOK, Positions, AgentStates
  <2>3. Control'
    BY <1>0, <1>a, <1>11 DEF Resolve, Continues, Control, StageFailed, Positions
  <2>4. Attempts'
    BY <1>0, <1>a, <1>11, <2>1 DEF Resolve, Continues, TypeOK, Control, Attempts, StageFailed,
       Positions, Snapshots
  <2>5. Lifecycle'
    BY <1>0, <1>a, <1>11 DEF Resolve, Continues, TypeOK, Control, Lifecycle, StageFailed, Positions
  <2>6. Verdict'
    BY <1>0, <1>a, <1>11, <2>1 DEF Resolve, Continues, Control, Verdict, StageFailed, Positions
  <2> QED
    BY <2>2, <2>3, <2>4, <2>5, <2>6 DEF IInv
<1>12. CASE Recall
  <2>1. hits' \in HitCounts
    <3>1. PICK found \in 0..TopK : hits' = [hits EXCEPT !.retrieved = @ + found]
      BY <1>12 DEF Recall
    <3>2. found \in Nat
      BY TopKAssumption
    <3> QED
      BY <1>a, <3>1, <3>2 DEF HitCounts
  <2>2. /\ board' \in Boards
        /\ board'.value = board.value /\ board'.answer = board.answer
    BY <1>a, <1>12 DEF Recall, Boards, Values, Modes
  <2>3. TypeOK'
    BY <1>0, <1>a, <1>12, <2>1, <2>2 DEF Recall, Continues, TypeOK, Positions, AgentStates
  <2>4. Control'
    BY <1>0, <1>a, <1>12 DEF Recall, Continues, Control, StageFailed, Positions
  <2>5. Attempts'
    BY <1>0, <1>a, <1>12, <2>1, <2>2 DEF Recall, Continues, TypeOK, Control, Attempts,
       StageFailed, Positions, Snapshots
  <2>6. Lifecycle'
    BY <1>0, <1>a, <1>12 DEF Recall, Continues, TypeOK, Control, Lifecycle, StageFailed, Positions
  <2>7. Verdict'
    BY <1>0, <1>a, <1>12, <2>1, <2>2 DEF Recall, Continues, Control, Verdict, StageFailed, Positions
  <2> QED
    BY <2>3, <2>4, <2>5, <2>6, <2>7 DEF IInv
<1>13. CASE MarkUsed
  <2>1. hits' \in HitCounts
    BY <1>a, <1>13 DEF MarkUsed, HitCounts
  <2>2. /\ board' \in Boards
        /\ board'.value = board.value /\ board'.answer = board.answer
    <3>1. PICK r \in Values \cup {board.reused} : board' = [board EXCEPT !.ids = 1, !.reused = r]
      BY <1>13 DEF MarkUsed
    <3>2. r \in Values
      BY <1>a DEF Boards
    <3> QED
      BY <1>a, <3>1, <3>2, TwoEntries
  <2>3. TypeOK'
    BY <1>0, <1>a, <1>13, <2>1, <2>2 DEF MarkUsed, Continues, TypeOK, Positions, AgentStates
  <2>4. Control'
    BY <1>0, <1>a, <1>13 DEF MarkUsed, Continues, Control, StageFailed, Positions
  <2>5. Attempts'
    BY <1>0, <1>a, <1>13, <2>1, <2>2 DEF MarkUsed, Continues, TypeOK, Control, Attempts,
       StageFailed, Positions, Snapshots
  <2>6. Lifecycle'
    BY <1>0, <1>a, <1>13 DEF MarkUsed, Continues, TypeOK, Control, Lifecycle, StageFailed, Positions
  <2>7. Verdict'
    BY <1>0, <1>a, <1>13, <2>1, <2>2 DEF MarkUsed, Continues, Control, Verdict, StageFailed,
       Positions
  <2> QED
    BY <2>3, <2>4, <2>5, <2>6, <2>7 DEF IInv
<1>14. CASE Digest
  <2>1. last' \in Results
    BY <1>a, <1>14 DEF Digest, Replies, Results
  <2>2. TypeOK'
    BY <1>0, <1>a, <1>14, <2>1 DEF Digest, Replies, TypeOK, Positions, AgentStates
  <2>3. Control'
    BY <1>0, <1>a, <1>14 DEF Digest, Replies, Control, StageFailed, Positions
  <2>4. Attempts'
    BY <1>0, <1>a, <1>14, <2>1 DEF Digest, Replies, TypeOK, Control, Attempts, StageFailed,
       Positions, Snapshots
  <2>5. Lifecycle'
    BY <1>0, <1>a, <1>14 DEF Digest, Replies, TypeOK, Control, Lifecycle, StageFailed, Positions
  <2>6. Verdict'
    BY <1>0, <1>a, <1>14, <2>1 DEF Digest, Replies, Control, Verdict, StageFailed, Positions
  <2> QED
    BY <2>2, <2>3, <2>4, <2>5, <2>6 DEF IInv
<1>15. CASE Compute
  <2>1. /\ metrics' \in Snapshots
        /\ metrics'.errors = metrics.errors /\ metrics'.degradations >= metrics.degradations
        /\ metrics'.success = metrics.success
    <3>1. PICK lost \in Losses, fallback \in 0..1 : Degraded(lost.plan + lost.data + fallback)
      BY <1>15 DEF Compute
    <3>2. lost.plan + lost.data + fallback \in Nat
      BY LossesCounted
    <3> QED
      BY <1>a, <3>1, <3>2, DegradedFacts DEF Snapshots
  <2>2. /\ board' \in Boards
    BY <1>a, <1>15 DEF Compute, Boards, Values, Modes
  <2>3. TypeOK'
    BY <1>0, <1>a, <1>15, <2>1, <2>2 DEF Compute, Continues, TypeOK, Positions, AgentStates
  <2>4. Control'
    BY <1>0, <1>a, <1>15 DEF Compute, Continues, Control, StageFailed, Positions
  <2>5. Attempts'
    BY <1>0, <1>a, <1>15, <2>1, <2>2 DEF Compute, Continues, TypeOK, Control, Attempts,
       StageFailed, Positions, Snapshots
  <2>6. Lifecycle'
    BY <1>0, <1>a, <1>15 DEF Compute, Continues, TypeOK, Control, Lifecycle, StageFailed, Positions
  <2>7. Verdict'
    BY <1>0, <1>a, <1>15, <2>1, <2>2 DEF Compute, Continues, Control, Verdict, StageFailed,
       Positions
  <2> QED
    BY <2>3, <2>4, <2>5, <2>6, <2>7 DEF IInv
<1>16. CASE Explain
  <2>1. last' \in Results
    BY <1>a, <1>16 DEF Explain, Replies, Results
  <2>2. TypeOK'
    BY <1>0, <1>a, <1>16, <2>1 DEF Explain, Replies, TypeOK, Positions, AgentStates
  <2>3. Control'
    BY <1>0, <1>a, <1>16 DEF Explain, Replies, Control, StageFailed, Positions
  <2>4. Attempts'
    BY <1>0, <1>a, <1>16, <2>1 DEF Explain, Replies, TypeOK, Control, Attempts, StageFailed,
       Positions, Snapshots
  <2>5. Lifecycle'
    BY <1>0, <1>a, <1>16 DEF Explain, Replies, TypeOK, Control, Lifecycle, StageFailed, Positions
  <2>6. Verdict'
    BY <1>0, <1>a, <1>16, <2>1 DEF Explain, Replies, Control, Verdict, StageFailed, Positions
  <2> QED
    BY <2>2, <2>3, <2>4, <2>5, <2>6 DEF IInv
<1>17. CASE Verify
  <2>1. /\ metrics' \in Snapshots
        /\ metrics'.errors = metrics.errors /\ metrics'.degradations = metrics.degradations
        /\ metrics'.success <=> (board.value = "right")
    BY <1>a, <1>17 DEF Verify, Snapshots
  <2>2. /\ board' \in Boards
        /\ board'.value = board.value /\ board'.answer = board.value
    BY <1>a, <1>17 DEF Verify, Boards, Values, Modes
  <2>3. TypeOK'
    BY <1>0, <1>a, <1>17, <2>1, <2>2 DEF Verify, Continues, TypeOK, Positions, AgentStates
  <2>4. Control'
    BY <1>0, <1>a, <1>17 DEF Verify, Continues, Control, StageFailed, Positions
  <2>5. Attempts'
    BY <1>0, <1>a, <1>17, <2>1, <2>2 DEF Verify, Continues, TypeOK, Control, Attempts,
       StageFailed, Positions, Snapshots
  <2>6. Lifecycle'
    BY <1>0, <1>a, <1>17 DEF Verify, Continues, TypeOK, Control, Lifecycle, StageFailed, Positions
  <2>7. Verdict'
    BY <1>0, <1>a, <1>17, <2>1, <2>2 DEF Verify, Continues, Control, Verdict, StageFailed, Positions
  <2> QED
    BY <2>3, <2>4, <2>5, <2>6, <2>7 DEF IInv
<1>18. CASE Summarize
  <2>1. last' \in Results
    <3>1. \/ last' = last
          \/ last' = [status |-> "ok", error |-> FALSE, by |-> Name[idx]]
          \/ last' = [status |-> "error", error |-> FALSE, by |-> Name[idx]]
      BY <1>18 DEF Summarize, Replies, ReviewerReplies, Continues, HasReused
    <3>2. /\ [status |-> "ok", error |-> FALSE, by |-> Name[idx]] \in Results
          /\ [status |-> "error", error |-> FALSE, by |-> Name[idx]] \in Results
      BY <1>a DEF Results
    <3> QED
      BY <1>a, <3>1, <3>2
  <2>2. TypeOK'
    BY <1>0, <1>a, <1>18, <2>1 DEF Summarize, Replies, ReviewerReplies, Continues, HasReused,
       TypeOK, Positions, AgentStates
  <2>3. Control'
    BY <1>0, <1>a, <1>18 DEF Summarize, Replies, ReviewerReplies, Continues, HasReused, Control,
       StageFailed, Positions
  <2>4. Attempts'
    BY <1>0, <1>a, <1>18, <2>1 DEF Summarize, Replies, ReviewerReplies, Continues, HasReused,
       TypeOK, Control, Attempts, StageFailed, Positions, Snapshots
  <2>5. Lifecycle'
    BY <1>0, <1>a, <1>18 DEF Summarize, Replies, ReviewerReplies, Continues, HasReused, TypeOK,
       Control, Lifecycle, StageFailed, Positions
  <2>6. Verdict'
    BY <1>0, <1>a, <1>18, <2>1 DEF Summarize, Replies, ReviewerReplies, Continues, HasReused,
       Control, Verdict, StageFailed, Positions
  <2> QED
    BY <2>2, <2>3, <2>4, <2>5, <2>6 DEF IInv
<1>19. CASE Credit
  <2>1. hits' \in HitCounts
    BY <1>a, <1>19 DEF Credit, HitCounts
  <2>2. TypeOK'
    BY <1>0, <1>a, <1>19, <2>1 DEF Credit, Continues, TypeOK, Positions, AgentStates
  <2>3. Control'
    BY <1>0, <1>a, <1>19 DEF Credit, Continues, Control, StageFailed, Positions
  <2>4. Attempts'
    BY <1>0, <1>a, <1>19, <2>1 DEF Credit, Continues, TypeOK, Control, Attempts, StageFailed,
       Positions, Snapshots
  <2>5. Lifecycle'
    BY <1>0, <1>a, <1>19 DEF Credit, Continues, TypeOK, Control, Lifecycle, StageFailed, Positions
  <2>6. Verdict'
    BY <1>0, <1>a, <1>19, <2>1 DEF Credit, Continues, Control, Verdict, StageFailed, Positions
  <2> QED
    BY <2>2, <2>3, <2>4, <2>5, <2>6 DEF IInv
<1>20. CASE Memorize
  <2>1. last' \in Results
    BY <1>a, <1>20 DEF Memorize, Replies, ReviewerReplies, Results
  <2>2. TypeOK'
    BY <1>0, <1>a, <1>20, <2>1 DEF Memorize, Replies, ReviewerReplies, TypeOK, Positions,
       AgentStates
  <2>3. Control'
    BY <1>0, <1>a, <1>20 DEF Memorize, Replies, ReviewerReplies, Control, StageFailed, Positions
  <2>4. Attempts'
    BY <1>0, <1>a, <1>20, <2>1 DEF Memorize, Replies, ReviewerReplies, TypeOK, Control, Attempts,
       StageFailed, Positions, Snapshots
  <2>5. Lifecycle'
    BY <1>0, <1>a, <1>20 DEF Memorize, Replies, ReviewerReplies, TypeOK, Control, Lifecycle,
       StageFailed, Positions
  <2>6. Verdict'
    BY <1>0, <1>a, <1>20, <2>1 DEF Memorize, Replies, ReviewerReplies, Control, Verdict,
       StageFailed, Positions
  <2> QED
    BY <2>2, <2>3, <2>4, <2>5, <2>6 DEF IInv
<1>21. CASE UNCHANGED vars
  BY <1>0, <1>21 DEF vars, IInv, TypeOK, Control, Attempts, Lifecycle, Verdict, StageFailed
<1> QED
  BY <1>1, <1>2, <1>3, <1>4, <1>5, <1>6, <1>7, <1>8, <1>9, <1>10, <1>11, <1>12, <1>13, <1>14,
     <1>15, <1>16, <1>17, <1>18, <1>19, <1>20, <1>21 DEF Next, AgentStep, HandlerStep,
     OrchestratorStep

----------------------------------------------------------------------------
\* The inductive invariant holds in every reachable state.
THEOREM Safety == Spec => []IInv
<1>1. IInv /\ [Next]_vars => IInv'
  BY NextIInv
<1> QED
  BY InitIInv, <1>1, PTL DEF Spec

\* Type correctness of run_task's state for every number of retries.
THEOREM TypeCorrect == Spec => []TypeOK
<1>1. IInv => TypeOK
  BY DEF IInv
<1> QED
  BY Safety, <1>1, PTL

\* For every retry policy, the error counter of a run is the number of its
\* failed attempts, each of them degraded, and never above 4 * MaxRetries + 1.
THEOREM ErrorsAreAccounted == Spec => []ErrorsAccounted
<1>1. ASSUME IInv PROVE ErrorsAccounted
  <2>0. TypeOK /\ Attempts
    BY <1>1 DEF IInv
  <2>1. /\ idx \in 1..4
        /\ failed[1] \in 0..(MaxRetries + 1) /\ failed[2] \in 0..(MaxRetries + 1)
        /\ failed[3] \in 0..(MaxRetries + 1) /\ failed[4] \in 0..(MaxRetries + 1)
    BY <2>0 DEF TypeOK, Stage
  <2>2. /\ \A i \in 1..4 : i < idx => failed[i] <= MaxRetries
        /\ \A i \in 1..4 : i > idx => failed[i] = 0
    BY <2>0 DEF Attempts, Stage
  <2>3. failed[1] + failed[2] + failed[3] + failed[4] <= 4 * MaxRetries + 1
    BY <2>1, <2>2, MaxRetriesAssumption
  <2> QED
    BY <2>0, <2>3 DEF ErrorsAccounted, Attempts
<1> QED
  BY Safety, <1>1, PTL

\* No failure of a stage is skipped over and no later agent runs before its turn.
THEOREM StagesRunInOrder == Spec => []StagesInOrder
<1>1. IInv => StagesInOrder
  BY DEF IInv, StagesInOrder, Attempts, Lifecycle
<1> QED
  BY Safety, <1>1, PTL

\* A run reports success only for a verified value, and a run that returns
\* reports it exactly when its last stage replied OK, unless the reviewer gave up.
THEOREM SuccessIsAlwaysVerified == Spec => []SuccessIsVerified
<1>1. ASSUME IInv PROVE SuccessIsVerified
  <2>0. TypeOK /\ Control /\ Verdict
    BY <1>1 DEF IInv
  <2>1. metrics.success => idx = 4 /\ board.answer = "right" /\ board.value = "right"
    BY <2>0 DEF Verdict
  <2>2. ASSUME pc = "returned", ~(last.by = "reviewer" /\ last.error)
        PROVE  metrics.success <=> last.status = "ok"
    <3>1. CASE idx = 4
      BY <2>0, <2>2, <3>1, Tables DEF Control, Verdict
    <3>2. CASE idx # 4
      BY <2>0, <2>1, <2>2, <3>2 DEF Control, StageFailed
    <3> QED
      BY <3>1, <3>2
  <2> QED
    BY <2>1, <2>2 DEF SuccessIsVerified
<1> QED
  BY Safety, <1>1, PTL

----------------------------------------------------------------------------
\* Once there is a verdict the stage is the last one, and answer, value and
\* success agree; no step changes the value any more.
Settled ==
    board.answer # "unset" =>
        /\ idx = 4
        /\ board.answer = board.value
        /\ metrics.success <=> (board.value = "right")

\* A step of the reviewer's verification aside, nothing touches the verdict.
LEMMA SettledStep ==
    ASSUME IInv, Settled, [Next]_vars
    PROVE  /\ Settled'
           /\ board.answer # "unset" => /\ board'.answer = board.answer
                                        /\ metrics'.success = metrics.success
<1>0. TypeOK /\ Control
  BY DEF IInv
<1>a. /\ idx \in 1..4 /\ board \in Boards /\ metrics \in Snapshots
      /\ metrics.success \in BOOLEAN
  BY <1>0 DEF TypeOK, Stage, Snapshots
<1>b. at \in Positions(idx) \/ at = "idle"
  BY <1>0 DEF Control
<1>1. CASE Verify
  <2>1. /\ board'.answer = board.value /\ board'.value = board.value
        /\ metrics'.success = (board.value = "right")
        /\ at = "verifying" /\ idx' = idx
    BY <1>a, <1>1 DEF Verify, Continues, Boards, Snapshots
  <2>2. idx = 4
    BY <1>a, <1>b, <2>1 DEF Positions
  <2>3. Settled'
    BY <2>1, <2>2 DEF Settled
  <2>4. board.answer # "unset" => metrics'.success = metrics.success
    BY <1>a, <2>1, Zenon DEF Settled
  <2>5. board.answer # "unset" => board'.answer = board.answer
    BY <2>1 DEF Settled
  <2> QED BY <2>3, <2>4, <2>5
<1>2. CASE Compute
  <2>1. /\ board'.answer = board.answer /\ metrics'.success = metrics.success
        /\ at = "computing" /\ idx' = idx
    BY <1>a, <1>2 DEF Compute, Continues, Degraded, Boards, Snapshots
  <2>2. idx = 3
    BY <1>a, <1>b, <2>1 DEF Positions
  <2> QED BY <2>1, <2>2 DEF Settled
<1>3. ASSUME ~ Verify, ~ Compute
      PROVE  /\ board'.answer = board.answer /\ board'.value = board.value
             /\ metrics'.success = metrics.success
             /\ idx' = idx \/ (pc = "result" /\ idx' = idx + 1 /\ idx < 4)
  <2>1. CASE Start \/ Dispatch \/ Abort \/ Finish
    BY <1>a, <2>1, FinalCounters DEF Start, Dispatch, Abort, Finish, Snapshots, Boards
  <2>6. CASE Advance
    BY <1>a, <2>6 DEF Advance, Snapshots, Boards
  <2>7. CASE PropagateRaises
    BY <1>a, <2>7 DEF PropagateRaises, Snapshots, Boards
  <2>2. CASE HandlerRaises \/ HandlerTimesOut \/ Retry
    BY <1>a, <2>2 DEF HandlerRaises, HandlerTimesOut, AttemptFails, Retry, Snapshots, Boards
  <2>3. CASE Plan \/ Resolve \/ Digest \/ Explain \/ Summarize \/ Credit \/ Memorize
    BY <1>a, <2>3
    DEF Plan, Resolve, Degraded, Digest, Explain, Summarize, Credit, Memorize, ReviewerReplies,
        Replies, Continues, Snapshots, Boards
  <2>4. CASE Recall \/ MarkUsed
    BY <1>a, <2>4 DEF Recall, MarkUsed, Continues, Snapshots, Boards
  <2>5. CASE UNCHANGED vars
    BY <2>5 DEF vars
  <2> QED
    BY <1>3, <2>1, <2>2, <2>3, <2>4, <2>5, <2>6, <2>7
    DEF Next, AgentStep, HandlerStep, OrchestratorStep
<1>4. CASE ~ Verify /\ ~ Compute
  BY <1>3, <1>4, <1>a DEF Settled
<1> QED BY <1>1, <1>2, <1>4

\* The retries of a reviewer verify the same value again: for every retry policy
\* no step changes the verdict once it is recorded.
THEOREM VerdictStays == Spec => VerdictIsStable
<1>1. Init => Settled
  BY DEF Init, Settled
<1>2. IInv /\ Settled /\ [Next]_vars => Settled'
  BY SettledStep
<1>3. IInv /\ Settled /\ [Next]_vars
        => [board.answer # "unset" => /\ board'.answer = board.answer
                                      /\ metrics'.success = metrics.success]_vars
  BY SettledStep
<1> QED BY Safety, <1>1, <1>2, <1>3, PTL DEF Spec, VerdictIsStable

----------------------------------------------------------------------------
\* The stage has not counted its hits yet, in this attempt.
RecallAhead ==
    idx < 2 \/ (idx = 2 /\ (pc \in {"start", "dispatch", "backoff"}
                              \/ at \in {"resolving", "recalling"}))
CreditAhead ==
    idx < 4 \/ (idx = 4 /\ (pc \in {"start", "dispatch", "backoff"}
                              \/ at \in {"verifying", "summarizing", "crediting"}))

\* MemoryCredit, and what it needs of the attempts that are still to count.
Credits ==
    /\ hits.used <= hits.retrieved
    /\ at = "marking" => hits.used < hits.retrieved
    /\ hits.retrieved <= TopK * (failed[2] + 1)
    /\ RecallAhead => hits.retrieved <= TopK * failed[2]
    /\ hits.used <= failed[2] + 1
    /\ RecallAhead \/ at = "marking" => hits.used <= failed[2]
    /\ board.ids = 1 => hits.used > 0
    /\ at = "crediting" => board.ids = 1
    /\ hits.effective + hits.harmful > 0 => hits.used > 0
    /\ hits.effective > 0 => idx = 4 /\ board.value = "right"
    /\ hits.harmful > 0 => idx = 4 /\ board.value # "right"
    /\ hits.effective + hits.harmful <= failed[4] + 1
    /\ CreditAhead => hits.effective + hits.harmful <= failed[4]

\* What an attempt may retrieve is TopK more for each failed one before it.
LEMMA TimesSucc ==
    ASSUME NEW n \in Nat
    PROVE  /\ TopK * n \in Nat /\ TopK * (n + 1) \in Nat
           /\ TopK * (n + 1) = TopK * n + TopK
  BY TopKAssumption

\* Every step keeps the account of the hits.
LEMMA CreditsStep ==
    ASSUME IInv, Credits, [Next]_vars
    PROVE  Credits'
<1>0. TypeOK /\ Control
  BY DEF IInv
<1>a. /\ idx \in 1..4 /\ board \in Boards /\ hits \in HitCounts
      /\ hits.retrieved \in Nat /\ hits.used \in Nat
      /\ hits.effective \in Nat /\ hits.harmful \in Nat
      /\ failed \in [Stage -> 0..(MaxRetries + 1)]
      /\ failed[2] \in Nat /\ failed[4] \in Nat
  BY <1>0, MaxRetriesAssumption DEF TypeOK, Stage, HitCounts
<1>b. at \in Positions(idx) \/ at = "idle"
  BY <1>0 DEF Control
<1>c. /\ at \in {"resolving", "recalling", "marking", "digesting"} => idx = 2
      /\ at \in {"computing", "explaining"} => idx = 3
      /\ at \in {"verifying", "summarizing", "crediting", "memorizing"} => idx = 4
  BY <1>a, <1>b DEF Positions
<1> DEFINE Same == /\ hits' = hits /\ failed' = failed
                   /\ board'.ids = board.ids /\ board'.value = board.value
\* The orchestrator's steps count nothing; a new stage has everything ahead.
<1>1. CASE Start \/ Dispatch \/ Abort \/ Finish \/ Advance \/ PropagateRaises
  <2>1. Same
    BY <1>1 DEF Start, Dispatch, Abort, Finish, Advance, PropagateRaises
  <2>2. /\ idx' = idx \/ (idx < 4 /\ idx' = idx + 1 /\ pc = "result")
        /\ at' = "idle" \/ (at' = Entry[idx] /\ pc = "dispatch" /\ idx' = idx)
        /\ RecallAhead' => RecallAhead
        /\ CreditAhead' => CreditAhead
    <3>1. CASE Start
      BY <1>0, <3>1 DEF Start, Control, RecallAhead, CreditAhead
    <3>2. CASE Dispatch
      BY <1>0, <3>2 DEF Dispatch, Control, RecallAhead, CreditAhead
    <3>3. CASE Abort \/ Finish \/ PropagateRaises
      BY <1>0, <3>3 DEF Abort, Finish, PropagateRaises, Control, RecallAhead, CreditAhead
    <3>4. CASE Advance
      BY <1>0, <1>a, <3>4 DEF Advance, Control, RecallAhead, CreditAhead
    <3> QED BY <1>1, <3>1, <3>2, <3>3, <3>4
  <2>3. at' \notin {"marking", "crediting"}
    BY <1>a, <2>2, Tables
  <2> QED BY <1>a, <2>1, <2>2, <2>3 DEF Credits
\* A failed attempt makes room for the hits of the next one.
<1>2. CASE HandlerRaises \/ HandlerTimesOut
  <2>1. /\ hits' = hits /\ board' = board /\ idx' = idx /\ at' = "idle"
        /\ failed' = [failed EXCEPT ![idx] = @ + 1]
    BY <1>2 DEF HandlerRaises, HandlerTimesOut, AttemptFails
  <2>2. /\ failed'[2] = IF idx = 2 THEN failed[2] + 1 ELSE failed[2]
        /\ failed'[4] = IF idx = 4 THEN failed[4] + 1 ELSE failed[4]
    BY <1>a, <2>1 DEF Stage
  <2>3. /\ TopK * (failed'[2] + 1) >= TopK * (failed[2] + 1)
        /\ idx = 2 => TopK * failed'[2] = TopK * (failed[2] + 1)
        /\ idx # 2 => failed'[2] = failed[2]
    BY <1>a, <2>2, TimesSucc, TopKAssumption
  <2> QED BY <1>a, <2>1, <2>2, <2>3, TimesSucc, TopKAssumption DEF Credits, RecallAhead, CreditAhead
<1>3. CASE Retry
  <2>1. Same /\ idx' = idx /\ at' = Entry[idx] /\ pc = "backoff"
    BY <1>3 DEF Retry
  <2>2. at' \notin {"marking", "crediting"}
    BY <1>a, <2>1, Tables
  <2> QED BY <1>a, <2>1, <2>2 DEF Credits, RecallAhead, CreditAhead
<1>4. CASE Plan \/ Digest \/ Explain \/ Memorize \/ Resolve
  <2>1. /\ Same /\ idx' = idx /\ at' \notin {"marking", "crediting"}
        /\ RecallAhead' => RecallAhead
        /\ CreditAhead' => CreditAhead
    BY <1>a, <1>c, <1>4
    DEF Plan, Digest, Explain, Memorize, ReviewerReplies, Replies, Resolve, Continues,
        RecallAhead, CreditAhead
  <2> QED BY <1>a, <2>1 DEF Credits
<1>5. CASE Recall
  <2>1. PICK found \in 0..TopK :
          /\ hits' = [hits EXCEPT !.retrieved = @ + found]
          /\ \/ found > 0 /\ Continues("marking") /\ UNCHANGED board
             \/ Continues("digesting") /\ board' = [board EXCEPT !.ids = 0]
    BY <1>5 DEF Recall
  <2>2. /\ hits'.retrieved = hits.retrieved + found /\ hits'.used = hits.used
        /\ hits'.effective = hits.effective /\ hits'.harmful = hits.harmful
        /\ board'.value = board.value /\ (board'.ids = board.ids \/ board'.ids = 0)
    BY <1>a, <2>1, TopKAssumption DEF HitCounts, Boards
  <2>3. /\ idx = 2 /\ idx' = idx /\ failed' = failed /\ at = "recalling"
        /\ at' = "digesting" \/ (at' = "marking" /\ found > 0)
        /\ pc = "handle" /\ pc' = pc
    BY <1>0, <1>c, <1>5, <2>1 DEF Recall, Continues, Control
  <2>4. /\ hits.retrieved <= TopK * failed[2]
        /\ hits'.retrieved <= TopK * (failed'[2] + 1)
    <3>1. hits.retrieved <= TopK * failed[2]
      BY <2>3 DEF Credits, RecallAhead
    <3> QED
      BY <1>a, <2>2, <2>3, <3>1, TimesSucc, TopKAssumption
  <2>5. hits.used <= failed[2] /\ hits.used <= hits.retrieved
    BY <2>3 DEF Credits, RecallAhead
  <2>6. ~ RecallAhead'
    BY <2>3 DEF RecallAhead
  <2> QED BY <1>a, <2>2, <2>3, <2>4, <2>5, <2>6 DEF Credits, CreditAhead
<1>6. CASE MarkUsed
  <2>1. /\ hits'.used = hits.used + 1 /\ hits'.retrieved = hits.retrieved
        /\ hits'.effective = hits.effective /\ hits'.harmful = hits.harmful
        /\ board'.value = board.value
    BY <1>a, <1>6 DEF MarkUsed, HitCounts, Boards
  <2>2. /\ idx = 2 /\ idx' = idx /\ failed' = failed /\ at' = "digesting" /\ at = "marking"
        /\ pc = "handle" /\ pc' = pc
    BY <1>0, <1>c, <1>6 DEF MarkUsed, Continues, Control
  <2> QED BY <1>a, <2>1, <2>2 DEF Credits, RecallAhead, CreditAhead
<1>7. CASE Compute
  <2>1. /\ hits' = hits /\ failed' = failed /\ idx = 3 /\ idx' = idx /\ at' = "explaining"
        /\ board'.ids = board.ids
    BY <1>a, <1>c, <1>7 DEF Compute, Continues, Boards
  <2> QED BY <1>a, <2>1 DEF Credits, RecallAhead, CreditAhead
<1>8. CASE Verify
  <2>1. /\ Same /\ idx = 4 /\ idx' = idx /\ at = "verifying" /\ at' = "summarizing"
    BY <1>a, <1>c, <1>8 DEF Verify, Continues, Boards
  <2> QED BY <1>a, <2>1 DEF Credits, RecallAhead, CreditAhead
<1>9. CASE Summarize
  <2>1. /\ Same /\ idx = 4 /\ idx' = idx /\ at = "summarizing"
        /\ at' \in {"crediting", "memorizing", "idle"}
        /\ at' = "crediting" => board.ids = 1
    BY <1>c, <1>9 DEF Summarize, ReviewerReplies, Replies, Continues, HasReused
  <2> QED BY <1>a, <2>1 DEF Credits, RecallAhead, CreditAhead
<1>10. CASE Credit
  <2>1. /\ failed' = failed /\ board' = board /\ idx = 4 /\ idx' = idx
        /\ at = "crediting" /\ at' = "memorizing" /\ pc = "handle" /\ pc' = pc
    BY <1>0, <1>c, <1>10 DEF Credit, Continues, Control
  <2>2. /\ hits'.used = hits.used /\ hits'.retrieved = hits.retrieved
        /\ IF board.value = "right"
           THEN hits'.effective = hits.effective + 1 /\ hits'.harmful = hits.harmful
           ELSE hits'.harmful = hits.harmful + 1 /\ hits'.effective = hits.effective
    BY <1>a, <1>10 DEF Credit, HitCounts
  <2> QED BY <1>a, <2>1, <2>2 DEF Credits, RecallAhead, CreditAhead
<1>11. CASE UNCHANGED vars
  BY <1>11 DEF vars, Credits, RecallAhead, CreditAhead
<1> QED
  BY <1>1, <1>2, <1>3, <1>4, <1>5, <1>6, <1>7, <1>8, <1>9, <1>10, <1>11
  DEF Next, AgentStep, HandlerStep, OrchestratorStep

\* The levels of a memory hit are never out of step with the attempts that
\* counted them, for every retry policy.
THEOREM MemoryIsCredited == Spec => []MemoryCredit
<1>1. Init => Credits
  <2> SUFFICES ASSUME Init
               PROVE  Credits
    OBVIOUS
  <2>1. TopK * 0 \in Nat /\ TopK * (0 + 1) \in Nat
    BY TimesSucc
  <2>2. failed[2] = 0 /\ failed[4] = 0
    BY DEF Init, Stage
  <2>3. hits = [retrieved |-> 0, used |-> 0, effective |-> 0, harmful |-> 0]
    BY DEF Init
  <2> QED
    BY <2>1, <2>2, <2>3 DEF Init, Credits
<1>2. IInv /\ Credits /\ [Next]_vars => Credits'
  BY CreditsStep
<1>3. IInv /\ Credits => MemoryCredit
  BY DEF IInv, TypeOK, HitCounts, Credits, MemoryCredit
<1> QED BY Safety, <1>1, <1>2, <1>3, PTL DEF Spec

----------------------------------------------------------------------------
\* RetriesSendNothing, with the name the next message will carry: that of the agent whose
\* stage was accepted last.
Sends ==
    /\ RetriesSendNothing
    /\ pc \notin {"returned", "raised"} => prev = Signer(AbstractAccepted)

\* Only the dispatch of a stage and the end of the run send a message.
LEMMA SendsStep ==
    ASSUME IInv, Sends, [Next]_vars
    PROVE  Sends'
<1>0. TypeOK /\ Control
  BY DEF IInv
<1>a. /\ idx \in 1..4 /\ sent \in Seq(Messages) /\ metrics \in Snapshots /\ mode \in Modes
      /\ metrics.messages \in Nat /\ metrics.transfers \in Nat /\ Len(sent) \in Nat
  BY <1>0 DEF TypeOK, Stage, Snapshots
<1>b. /\ metrics.messages = Len(sent)
      /\ pc # "raised" =>
            metrics.transfers = IF ~mode.references THEN 0 ELSE IF idx > 2 THEN 2 ELSE idx - 1
      /\ pc \in {"start", "dispatch"} => Len(sent) = idx - 1
      /\ pc = "returned" => Len(sent) = idx + 1
      /\ pc \notin {"start", "dispatch", "returned"} => Len(sent) = idx
      /\ \A k \in 1..Len(sent) :
            sent[k].target # "orchestrator" =>
               /\ sent[k].target = Name[k]
               /\ sent[k].source = (IF k = 1 THEN "orchestrator" ELSE Name[k - 1])
  BY DEF Sends, RetriesSendNothing
<1>c. ASSUME NEW m \in Messages, sent' = Append(sent, m)
      PROVE  /\ Len(sent') = Len(sent) + 1
             /\ sent'[Len(sent) + 1] = m
             /\ \A k \in 1..Len(sent) : sent'[k] = sent[k]
  BY <1>a, <1>c
<1>1. CASE Dispatch
  <2> DEFINE m == [source |-> prev, target |-> Name[idx]]
  <2>1. m \in Messages
    BY <1>0, <1>a, NameTyped DEF TypeOK, Messages, Stage
  <2>2. /\ sent' = Append(sent, m) /\ pc = "dispatch" /\ pc' = "handle" /\ idx' = idx
        /\ prev' = prev /\ mode' = mode
        /\ metrics'.messages = metrics.messages + 1 /\ metrics'.transfers = metrics.transfers
        /\ prev = IF idx = 1 THEN "orchestrator" ELSE Name[idx - 1]
    BY <1>a, <1>1 DEF Dispatch, Snapshots, Sends, Signer, AbstractAccepted, Completed
  <2>3. m.source = prev /\ m.target = Name[idx]
    OBVIOUS
  <2> HIDE DEF m
  <2> QED
    BY <1>a, <1>b, <1>c, <2>1, <2>2, <2>3
    DEF Sends, RetriesSendNothing, Signer, AbstractAccepted, Completed
<1>2. CASE Finish
  <2> DEFINE m == [source |-> prev, target |-> "orchestrator"]
  <2>1. m \in Messages
    BY <1>0 DEF TypeOK, Messages, Sources
  <2>2. /\ sent' = Append(sent, m) /\ pc = "finish" /\ pc' = "returned" /\ idx' = idx
        /\ mode' = mode
        /\ metrics'.messages = metrics.messages + 1 /\ metrics'.transfers = metrics.transfers
    BY <1>a, <1>2 DEF Finish, Snapshots
  <2>3. m.target = "orchestrator"
    OBVIOUS
  <2> HIDE DEF m
  <2> QED BY <1>a, <1>b, <1>c, <2>1, <2>2, <2>3 DEF Sends, RetriesSendNothing
<1>3. CASE Advance
  <2>1. /\ sent' = sent /\ mode' = mode /\ pc = "result" /\ prev' = Name[idx]
        /\ pc' = (IF idx = 4 THEN "finish" ELSE "dispatch")
        /\ idx' = (IF idx = 4 THEN 4 ELSE idx + 1)
        /\ metrics' = IF PutsState THEN [metrics EXCEPT !.transfers = @ + 1] ELSE metrics
    BY <1>3 DEF Advance
  <2>2. PutsState <=> mode.references /\ idx \in {1, 2}
    BY DEF PutsState
  <2>3. metrics'.messages = metrics.messages
    BY <1>a, <2>1 DEF Snapshots
  <2>4. PutsState => metrics'.transfers = metrics.transfers + 1
    BY <1>a, <2>1 DEF Snapshots
  <2>5. ~PutsState => metrics'.transfers = metrics.transfers
    BY <2>1
  <2>6. mode' = mode /\ metrics'.transfers
          = IF ~mode.references THEN 0 ELSE IF idx' > 2 THEN 2 ELSE idx' - 1
    BY <1>a, <1>b, <2>1, <2>2, <2>4, <2>5
  <2>7. Len(sent') = (IF idx = 4 THEN 4 ELSE idx' - 1)
    BY <1>a, <1>b, <2>1
  <2>8. RetriesSendNothing'
    BY <1>a, <1>b, <2>1, <2>3, <2>6, <2>7 DEF RetriesSendNothing
  <2>9. prev' = Signer(AbstractAccepted)'
    BY <1>a, <1>3, <2>1 DEF Advance, Signer, AbstractAccepted, Completed, StageFailed
  <2> QED BY <2>1, <2>8, <2>9 DEF Sends
<1>4. CASE PropagateRaises
  <2>1. /\ sent' = sent /\ pc = "result" /\ pc' = "raised" /\ idx' = idx
        /\ metrics'.messages = metrics.messages
    BY <1>a, <1>4 DEF PropagateRaises, Snapshots
  <2> QED BY <1>a, <1>b, <2>1 DEF Sends, RetriesSendNothing
\* Every other step leaves the channel alone.
<1>5. ASSUME ~ Dispatch, ~ Finish, ~ Advance, ~ PropagateRaises
      PROVE  /\ sent' = sent /\ mode' = mode /\ idx' = idx /\ prev' = prev
             /\ metrics'.messages = metrics.messages /\ metrics'.transfers = metrics.transfers
             /\ pc' = pc \/ (pc = "start" /\ pc' = "dispatch")
                \/ (pc \in {"handle", "backoff", "result"}
                      /\ pc' \in {"handle", "backoff", "result", "finish"})
             /\ AbstractAccepted' = AbstractAccepted
  <2> USE DEF AbstractAccepted, Completed
  <2>1. CASE Start \/ Abort
    BY <1>a, <2>1 DEF Start, Abort, Snapshots, StageFailed
  <2>2. CASE HandlerRaises \/ HandlerTimesOut \/ Retry
    BY <1>a, <2>2 DEF HandlerRaises, HandlerTimesOut, AttemptFails, Retry, Snapshots
  <2>3. CASE HandlerStep
    <3>1. pc = "handle"
      BY <1>0, <2>3
      DEF Control, HandlerStep, Plan, Resolve, Recall, MarkUsed, Digest, Compute, Explain,
          Verify, Summarize, Credit, Memorize
    <3>2. CASE Plan \/ Digest \/ Explain \/ Summarize \/ Credit \/ Memorize
      BY <3>1, <3>2
      DEF Plan, Digest, Explain, Summarize, Credit, Memorize, ReviewerReplies, Replies, Continues
    <3>3. CASE Recall \/ MarkUsed
      BY <3>1, <3>3 DEF Recall, MarkUsed, Continues
    <3>4. CASE Verify
      BY <1>a, <3>1, <3>4 DEF Verify, Continues, Snapshots
    <3>5. CASE Resolve \/ Compute
      BY <1>a, <3>1, <3>5 DEF Resolve, Compute, Degraded, Continues, Snapshots
    <3> QED BY <2>3, <3>2, <3>3, <3>4, <3>5 DEF HandlerStep
  <2>4. CASE UNCHANGED vars
    BY <2>4 DEF vars, StageFailed
  <2> QED BY <1>5, <2>1, <2>2, <2>3, <2>4 DEF Next, AgentStep, OrchestratorStep
<1>6. CASE ~ Dispatch /\ ~ Finish /\ ~ Advance /\ ~ PropagateRaises
  BY <1>a, <1>b, <1>5, <1>6 DEF Sends, RetriesSendNothing
<1> QED BY <1>1, <1>2, <1>3, <1>4, <1>6

LEMMA SendsAlways == Spec => []Sends
<1>1. Init => Sends
  BY DEF Init, Sends, RetriesSendNothing, Signer, AbstractAccepted, Completed
<1>2. IInv /\ Sends /\ [Next]_vars => Sends'
  BY SendsStep
<1> QED BY Safety, <1>1, <1>2, PTL DEF Spec

\* The messages of a run are one per stage entered and the final one, in a row,
\* whatever was retried, for every retry policy.
THEOREM RetriesAreSilent == Spec => []RetriesSendNothing
<1>1. Sends => RetriesSendNothing
  BY DEF Sends
<1> QED BY SendsAlways, <1>1, PTL

----------------------------------------------------------------------------
\* Every step of a run is a step of the contract, or changes nothing of it.
LEMMA StepRefines == IInv /\ Sends /\ [Next]_vars => [Contract!Next]_(Contract!vars)
<1> SUFFICES ASSUME IInv, Sends, [Next]_vars PROVE [Contract!Next]_(Contract!vars)
  OBVIOUS
<1> USE MaxRetriesAssumption DEF Stage
<1>0. TypeOK /\ Control /\ Attempts
  BY DEF IInv
<1>a. /\ idx \in 1..4 /\ failed \in [1..4 -> Nat] /\ failed[idx] <= MaxRetries + 1
      /\ last.status \in {"none", "ok", "error", "timeout"}
  BY <1>0 DEF TypeOK, Results
<1> USE DEF Contract!vars, AbstractAccepted, AbstractTries, AbstractPhase, AbstractOutcome,
            AbstractSigned, Completed, Aborting, Ended
<1>1. ASSUME Start \/ Dispatch \/ Retry PROVE UNCHANGED Contract!vars
  BY <1>0, <1>1 DEF Start, Dispatch, Retry, StageFailed
<1>2. ASSUME Abort PROVE UNCHANGED Contract!vars
  BY <1>0, <1>2 DEF Abort, StageFailed
<1>3. ASSUME Advance PROVE Contract!Accept
  BY <1>0, <1>a, <1>3 DEF Advance, Attempts, StageFailed, Contract!Accept
<1>4. ASSUME PropagateRaises PROVE Contract!Raise
  BY <1>0, <1>a, <1>4 DEF PropagateRaises, StageFailed, Contract!Raise
<1>5. ASSUME Finish PROVE Contract!Return
  <2>1. AbstractSigned' = prev
    <3>1. sent' = Append(sent, [source |-> prev, target |-> "orchestrator"]) /\ pc' = "returned"
      BY <1>5 DEF Finish
    <3>2. sent'[Len(sent')].source = prev
      BY <1>0, <3>1 DEF TypeOK
    <3> QED
      BY <3>1, <3>2
  <2>2. prev = Signer(AbstractAccepted)
    BY <1>5 DEF Finish, Sends
  <2> QED
    BY <1>0, <1>a, <1>5, <2>1, <2>2 DEF Finish, Control, StageFailed, Contract!Return
<1>6. ASSUME NEW state, NEW st \in {"error", "timeout"}, AttemptFails(state, st)
      PROVE  Contract!FailAttempt
  <2>1. pc = "handle" /\ ~StageFailed /\ failed[idx] <= MaxRetries
    BY <1>0, <1>6 DEF AttemptFails, Control, Attempts
  <2>2. failed'[idx] = failed[idx] + 1 /\ idx' = idx
    BY <1>a, <1>6 DEF AttemptFails
  <2>3. GivesUp <=> failed[idx] + 1 = MaxRetries + 1
    BY <1>a, <2>1 DEF GivesUp
  <2> QED
    BY <1>a, <1>6, <2>1, <2>2, <2>3 DEF AttemptFails, StageFailed, Contract!FailAttempt
<1>7. ASSUME Resolve \/ Recall \/ MarkUsed \/ Compute \/ Verify \/ Credit
      PROVE  UNCHANGED Contract!vars
  BY <1>0, <1>7 DEF Resolve, Recall, MarkUsed, Compute, Verify, Credit, Continues, StageFailed
<1>8. ASSUME NEW status \in {"ok", "error"}, Replies(status), at # "idle"
      PROVE  UNCHANGED Contract!vars \/ Contract!Reject
  BY <1>0, <1>a, <1>8 DEF Replies, Control, StageFailed, Contract!Reject
<1>9. ASSUME Plan \/ Digest \/ Explain \/ Summarize \/ Memorize
      PROVE  UNCHANGED Contract!vars \/ Contract!Reject
  <2>1. at # "idle"
    BY <1>9 DEF Plan, Digest, Explain, Summarize, Memorize
  <2>2. \/ \E status \in {"ok", "error"} : Replies(status)
        \/ \E p : Continues(p)
    BY <1>9 DEF Plan, Digest, Explain, Summarize, Memorize, ReviewerReplies
  <2>3. ASSUME NEW p, Continues(p) PROVE UNCHANGED Contract!vars
    BY <2>3 DEF Continues, StageFailed
  <2> QED
    BY <1>8, <2>1, <2>2, <2>3
<1>10. ASSUME UNCHANGED vars PROVE UNCHANGED Contract!vars
  BY <1>10 DEF vars, StageFailed
<1>11. HandlerRaises \/ HandlerTimesOut => Contract!FailAttempt
  BY <1>6 DEF HandlerRaises, HandlerTimesOut
<1> QED
  BY <1>1, <1>2, <1>3, <1>4, <1>5, <1>7, <1>9, <1>10, <1>11
  DEF Next, AgentStep, HandlerStep, OrchestratorStep, Contract!Next

\* run_task implements its contract: for every retry policy, the stages are
\* accepted in order, each within MaxRetries + 1 attempts, the call returns
\* without an error exactly when all four were accepted, and the final message is
\* sent in the name of the last one accepted.
THEOREM RunKeepsContract == Spec => ContractSpec
<1>1. Init => Contract!Init
  BY MaxRetriesAssumption
  DEF Init, Contract!Init, AbstractAccepted, AbstractTries, AbstractPhase, AbstractOutcome,
      AbstractSigned, Completed, Aborting, Ended, Stage
<1>2. IInv /\ Sends /\ [Next]_vars => [Contract!Next]_(Contract!vars)
  BY StepRefines
<1> QED
  BY Safety, SendsAlways, <1>1, <1>2, PTL DEF Spec, ContractSpec, Contract!Spec

----------------------------------------------------------------------------
(* What the contract promises therefore holds of a run.                     *)

\* A caller that gets no error knows that all four stages were accepted, and one that
\* gets an error that one of them was not; no stage was attempted too often.
OutcomeIsHonest ==
    /\ AbstractPhase = "returned" => (AbstractOutcome = "ok" <=> AbstractAccepted = 4)
    /\ AbstractTries <= MaxRetries + 1

ContractInv ==
    /\ AbstractAccepted \in 0..4 /\ AbstractTries \in 0..(MaxRetries + 1)
    /\ AbstractPhase = "completed" => AbstractAccepted = 4
    /\ AbstractPhase \in {"running", "aborting"} => AbstractAccepted < 4
    /\ AbstractPhase = "returned" => (AbstractOutcome = "ok" <=> AbstractAccepted = 4)

\* The argument is about the contract alone.
LEMMA ContractKeeps ==
    /\ Contract!Init => ContractInv
    /\ ContractInv /\ [Contract!Next]_(Contract!vars) => ContractInv'
<1> USE MaxRetriesAssumption
<1>1. Contract!Init => ContractInv
  BY DEF Contract!Init, ContractInv
<1>2. ASSUME ContractInv, [Contract!Next]_(Contract!vars) PROVE ContractInv'
  <2>1. CASE Contract!FailAttempt
    BY <1>2, <2>1 DEF ContractInv, Contract!FailAttempt
  <2>2. CASE Contract!Accept
    BY <1>2, <2>2 DEF ContractInv, Contract!Accept
  <2>3. CASE Contract!Reject \/ Contract!Raise
    BY <1>2, <2>3 DEF ContractInv, Contract!Reject, Contract!Raise
  <2>4. CASE Contract!Return
    BY <1>2, <2>4 DEF ContractInv, Contract!Return
  <2>5. CASE UNCHANGED Contract!vars
    BY <1>2, <2>5 DEF ContractInv, Contract!vars
  <2> QED BY <1>2, <2>1, <2>2, <2>3, <2>4, <2>5 DEF Contract!Next
<1> QED BY <1>1, <1>2

\* The error of a RunResult tells whether all stages were accepted, for every retry policy
\* (Orchestrator.run_task).
THEOREM OutcomesAreHonest == Spec => []OutcomeIsHonest
<1>1. ContractInv => OutcomeIsHonest
  BY MaxRetriesAssumption DEF ContractInv, OutcomeIsHonest
<1>2. ContractSpec => []ContractInv
  BY ContractKeeps, PTL DEF ContractSpec, Contract!Spec
<1> QED BY <1>1, <1>2, RunKeepsContract, PTL

----------------------------------------------------------------------------
(* No run goes on for ever: what it has left shrinks with every step.       *)

\* An attempt takes at most four steps of its handler, and the backoff after it one.
StageSteps == 5 * (MaxRetries + 1) + 1

\* The stages that come after stage i
Later(i) == (4 - i) * StageSteps

\* The steps that the attempt has left when its handler is at p
StepsLeft(p) ==
    CASE p \in {"resolving", "verifying"} -> 4
      [] p \in {"recalling", "summarizing"} -> 3
      [] p \in {"marking", "crediting", "computing"} -> 2
      [] OTHER -> 1

\* The most steps that the run has left
Remaining ==
    CASE pc = "start" -> 4 * StageSteps + 2
      [] pc = "dispatch" -> Later(idx) + 5 * (MaxRetries + 1) + 2
      [] pc = "handle" -> Later(idx) + 5 * (MaxRetries - failed[idx]) + StepsLeft(at) + 2
      [] pc = "backoff" -> Later(idx) + 5 * (MaxRetries + 1 - failed[idx]) + 2
      [] pc = "result" -> Later(idx) + 2
      [] pc = "finish" -> 1
      [] OTHER -> 0

\* A run takes at most 20 * MaxRetries + 26 steps: none of its loops, the stages, the
\* attempts of a stage and the backoffs between them, goes round without using up a retry
\* or a stage.
RunIsBounded ==
    /\ [](Remaining \in 0..(20 * MaxRetries + 26))
    /\ [][Remaining' < Remaining]_vars

\* One stage more ahead is StageSteps steps more.
LEMMA LaterFacts ==
    ASSUME NEW i \in Stage
    PROVE  /\ StageSteps \in Nat
           /\ Later(i) \in 0..(3 * StageSteps)
           /\ i = 1 => Later(i) = 3 * StageSteps
           /\ i # 4 => i + 1 \in Stage /\ Later(i) = Later(i + 1) + StageSteps
<1>1. StageSteps \in Nat
  BY MaxRetriesAssumption DEF StageSteps
<1>2. i = 1 \/ i = 2 \/ i = 3 \/ i = 4
  BY DEF Stage
<1> QED BY <1>1, <1>2 DEF Later, Stage

LEMMA RemainingBounded ==
    ASSUME IInv
    PROVE  Remaining \in 0..(20 * MaxRetries + 26)
<1>1. /\ idx \in Stage /\ MaxRetries \in Nat /\ failed[idx] \in 0..(MaxRetries + 1)
      /\ pc \in {"handle", "backoff"} => failed[idx] <= MaxRetries
  BY MaxRetriesAssumption DEF IInv, TypeOK, Control, Attempts
<1>2. /\ Later(idx) \in 0..(3 * StageSteps)
      /\ StageSteps = 5 * MaxRetries + 6
  BY <1>1, LaterFacts DEF StageSteps
<1>3. StepsLeft(at) \in 1..4
  BY DEF StepsLeft
<1> DEFINE later == Later(idx)
           steps == StepsLeft(at)
<1> HIDE DEF later, steps
<1>4. later \in 0..(3 * StageSteps) /\ steps \in 1..4
  BY <1>2, <1>3 DEF later, steps
<1>5. Remaining =
        CASE pc = "start" -> 4 * StageSteps + 2
          [] pc = "dispatch" -> later + 5 * (MaxRetries + 1) + 2
          [] pc = "handle" -> later + 5 * (MaxRetries - failed[idx]) + steps + 2
          [] pc = "backoff" -> later + 5 * (MaxRetries + 1 - failed[idx]) + 2
          [] pc = "result" -> later + 2
          [] pc = "finish" -> 1
          [] OTHER -> 0
  BY DEF Remaining, later, steps
<1> QED BY <1>1, <1>2, <1>4, <1>5

\* Each step uses up what it takes.
LEMMA RemainingShrinks ==
    ASSUME IInv, Next
    PROVE  Remaining' < Remaining
<1>0. TypeOK /\ Control /\ Attempts
  BY DEF IInv
<1>1. /\ idx \in Stage /\ MaxRetries \in Nat /\ failed[idx] \in 0..(MaxRetries + 1)
      /\ pc \in {"handle", "backoff"} => failed[idx] <= MaxRetries
      /\ pc = "dispatch" => failed[idx] = 0
      /\ pc = "start" => idx = 1
  BY <1>0, MaxRetriesAssumption DEF TypeOK, Control, Attempts
<1> DEFINE later == Later(idx)
<1>2. /\ later \in Nat /\ StageSteps = 5 * MaxRetries + 6
      /\ idx = 1 => later = 3 * StageSteps
      /\ idx # 4 => later = Later(idx + 1) + StageSteps /\ Later(idx + 1) \in Nat
  BY <1>1, LaterFacts DEF StageSteps
<1>3. StepsLeft(at) \in 1..4 /\ \A i \in Stage : StepsLeft(Entry[i]) \in 1..4
  BY DEF StepsLeft
<1>4. CASE Start
  <2>1. pc = "start" /\ pc' = "dispatch" /\ idx' = idx
    BY <1>4 DEF Start
  <2>2. Remaining = 4 * StageSteps + 2 /\ Remaining' = later + 5 * (MaxRetries + 1) + 2
    BY <2>1 DEF Remaining
  <2> HIDE DEF later
  <2> QED BY <1>1, <1>2, <2>1, <2>2
<1>5. CASE Dispatch
  <2>1. pc = "dispatch" /\ pc' = "handle" /\ idx' = idx /\ failed' = failed /\ at' = Entry[idx]
    BY <1>5 DEF Dispatch
  <2>2. /\ Remaining = later + 5 * (MaxRetries + 1) + 2
        /\ Remaining' = later + 5 * (MaxRetries - failed[idx]) + StepsLeft(Entry[idx]) + 2
    BY <2>1 DEF Remaining
  <2> HIDE DEF later
  <2> QED BY <1>1, <1>2, <1>3, <2>1, <2>2
<1>6. CASE Abort
  <2>1. pc = "result" /\ pc' = "finish"
    BY <1>6 DEF Abort
  <2> QED BY <1>2, <2>1 DEF Remaining
<1>7. CASE Advance
  <2>1. /\ pc = "result" /\ pc' = IF idx = 4 THEN "finish" ELSE "dispatch"
        /\ idx # 4 => idx' = idx + 1
    BY <1>7 DEF Advance
  <2>2. Remaining = later + 2
    BY <2>1 DEF Remaining
  <2>3. CASE idx = 4
    <3>1. Remaining' = 1
      BY <2>1, <2>3 DEF Remaining
    <3> HIDE DEF later
    <3> QED BY <1>2, <2>2, <3>1
  <2>4. CASE idx # 4
    <3>1. Remaining' = Later(idx + 1) + 5 * (MaxRetries + 1) + 2
      BY <2>1, <2>4 DEF Remaining
    <3> HIDE DEF later
    <3> QED BY <1>1, <1>2, <2>2, <2>4, <3>1
  <2> QED BY <2>3, <2>4
<1>8. CASE PropagateRaises
  <2>1. pc = "result" /\ pc' = "raised"
    BY <1>8 DEF PropagateRaises
  <2> QED BY <1>2, <2>1 DEF Remaining
<1>9. CASE Finish
  <2>1. pc = "finish" /\ pc' = "returned"
    BY <1>9 DEF Finish
  <2> QED BY <2>1 DEF Remaining
<1>10. CASE HandlerRaises \/ HandlerTimesOut
  <2>1. /\ pc = "handle" /\ idx' = idx
        /\ failed' = [failed EXCEPT ![idx] = @ + 1]
        /\ pc' \in {"result", "backoff"}
    BY <1>10 DEF HandlerRaises, HandlerTimesOut, AttemptFails
  <2>2. failed'[idx] = failed[idx] + 1
    BY <1>0, <1>1, <2>1 DEF TypeOK
  <2>3. Remaining = later + 5 * (MaxRetries - failed[idx]) + StepsLeft(at) + 2
    BY <2>1 DEF Remaining
  <2>4. \/ Remaining' = later + 2
        \/ Remaining' = later + 5 * (MaxRetries + 1 - failed'[idx]) + 2
    BY <2>1 DEF Remaining
  <2> HIDE DEF later
  <2> QED BY <1>1, <1>2, <1>3, <2>1, <2>2, <2>3, <2>4
<1>11. CASE Retry
  <2>1. pc = "backoff" /\ pc' = "handle" /\ idx' = idx /\ failed' = failed /\ at' = Entry[idx]
    BY <1>11 DEF Retry
  <2>2. /\ Remaining = later + 5 * (MaxRetries + 1 - failed[idx]) + 2
        /\ Remaining' = later + 5 * (MaxRetries - failed[idx]) + StepsLeft(Entry[idx]) + 2
    BY <2>1 DEF Remaining
  <2> HIDE DEF later
  <2> QED BY <1>1, <1>2, <1>3, <2>1, <2>2
<1>12. CASE HandlerStep
\* A handler replies, or goes on to an operation that is nearer to its reply.
  <2>1. \/ \E status \in {"ok", "error"} : Replies(status)
        \/ \E p : Continues(p) /\ StepsLeft(p) < StepsLeft(at)
    <3>1. CASE Plan \/ Digest \/ Explain \/ Memorize
      BY <3>1 DEF Plan, Digest, Explain, Memorize, ReviewerReplies
    <3>2. CASE Resolve
      BY <3>2 DEF Resolve, StepsLeft
    <3>3. CASE Recall
      <4>1. at = "recalling" /\ (Continues("marking") \/ Continues("digesting"))
        BY <3>3 DEF Recall
      <4> QED BY <4>1 DEF StepsLeft
    <3>4. CASE MarkUsed
      BY <3>4 DEF MarkUsed, StepsLeft
    <3>5. CASE Compute
      BY <3>5 DEF Compute, StepsLeft
    <3>6. CASE Verify
      BY <3>6 DEF Verify, StepsLeft
    <3>7. CASE Summarize
      BY <3>7 DEF Summarize, ReviewerReplies, StepsLeft
    <3>8. CASE Credit
      BY <3>8 DEF Credit, StepsLeft
    <3> QED
      BY <1>12, <3>1, <3>2, <3>3, <3>4, <3>5, <3>6, <3>7, <3>8 DEF HandlerStep
  <2>2. pc = "handle"
    BY <1>0, <1>12
    DEF Control, HandlerStep, Plan, Resolve, Recall, MarkUsed, Digest, Compute, Explain,
        Verify, Summarize, Credit, Memorize
  <2>3. Remaining = later + 5 * (MaxRetries - failed[idx]) + StepsLeft(at) + 2
    BY <2>2 DEF Remaining
  <2>4. ASSUME NEW status, Replies(status)
        PROVE  Remaining' = later + 2
    BY <2>4 DEF Replies, Remaining
  <2>5. ASSUME NEW p, Continues(p)
        PROVE  Remaining' = later + 5 * (MaxRetries - failed[idx]) + StepsLeft(p) + 2
    BY <2>2, <2>5 DEF Continues, Remaining
  <2>6. CASE \E status \in {"ok", "error"} : Replies(status)
    <3>1. Remaining' = later + 2
      BY <2>4, <2>6
    <3> HIDE DEF later
    <3> QED BY <1>1, <1>2, <1>3, <2>2, <2>3, <3>1
  <2>7. CASE \E p : Continues(p) /\ StepsLeft(p) < StepsLeft(at)
    <3>1. PICK p : Continues(p) /\ StepsLeft(p) < StepsLeft(at)
      BY <2>7
    <3>2. Remaining' = later + 5 * (MaxRetries - failed[idx]) + StepsLeft(p) + 2
      BY <2>5, <3>1
    <3>3. StepsLeft(p) \in 1..4
      BY DEF StepsLeft
    <3> HIDE DEF later
    <3> QED BY <1>1, <1>2, <1>3, <2>2, <2>3, <3>1, <3>2, <3>3
  <2> QED BY <2>1, <2>6, <2>7
<1> QED
  BY <1>4, <1>5, <1>6, <1>7, <1>8, <1>9, <1>10, <1>11, <1>12
  DEF Next, AgentStep, OrchestratorStep

\* Every run takes a bounded number of steps, for every retry policy and whatever raises,
\* times out or is retried (Orchestrator.run_task, BaseAgent.run).
THEOREM RunsAreBounded == Spec => RunIsBounded
<1>1. IInv => Remaining \in 0..(20 * MaxRetries + 26)
  BY RemainingBounded
<1>2. IInv /\ [Next]_vars => [Remaining' < Remaining]_vars
  BY RemainingShrinks
<1> QED BY Safety, <1>1, <1>2, NextIInv, PTL DEF Spec, RunIsBounded
=============================================================================
