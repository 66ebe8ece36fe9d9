------------------------------- MODULE MemoryReuse -------------------------------
(***************************************************************************)
(* Tasks that share one memory store, one after the other.  Each recalls   *)
(* what earlier tasks left (agents/retriever.py), acts on it or computes   *)
(* for itself (agents/codeact_executor.py), and is verified; the reviewer  *)
(* (agents/reviewer.py) then rates the record that was reused and writes   *)
(* a new one.  A handler may be retried, a task given up, the process die. *)
(*                                                                         *)
(* MemoryStore gives the store.  `payload` is the payload column of its    *)
(* table.  Of a task this module keeps what recall, computation and        *)
(* verification read; PipelineRun models the run around them.              *)
(*                                                                         *)
(* `misled` is not in the program: it counts the tasks that failed after   *)
(* reusing a record since one last succeeded with it or wrote it again.    *)
(* Values that print alike are one value, as they are to the signature.    *)
(*                                                                         *)
(* A definition D_Something is a faulty variant of D.  Nothing uses it; put *)
(* in the place of D it shows that a property can be broken by a bug.      *)
(***************************************************************************)
EXTENDS MemoryStore, FiniteSets

CONSTANTS
    Tasks,          \* [topic, op, operands, facts, expected]
    Workloads,      \* the sets of tasks that are explored together
    Value,          \* facts, answers and strategies; 1 and 0 are also True and False
    None,
    Compute(_, _),  \* what the operations of the executor yield on a list of values
    Strategies,     \* STRATEGIES
    Fixes,          \* <<module, test, strategy>> for which the fixed module passes
    Semantic,       \* 0.6 times the cosine of a task's query and a content
    Lexical,        \* what the shared keywords add to it, in the same unit
    SearchK,        \* how many records the index search returns: 10 in the code
    TopK,           \* how many hits the retriever asks for: 3 in the code
    MaxRetries,     \* of the reviewer
    MaxFaults       \* bound: retries, tasks given up and crashes in a behaviour

Range(s) == {s[i] : i \in DOMAIN s}

\* What the reviewer writes of a task: topic and summary.
Says(t, v) == [topic |-> t.topic, op |-> t.op, operands |-> t.operands, value |-> v]

\* The retriever's `evidence`: facts.get(op) for each operand
Evidence(t) ==
    [k \in Range(t.operands) |-> IF k \in DOMAIN t.facts THEN t.facts[k] ELSE None]

\* The values the executor computes with, in the order of the operands
Values(t) ==
    LET Got(v) == v # None
    IN SelectSeq([i \in DOMAIN t.operands |-> Evidence(t)[t.operands[i]]], Got)

\* task_signature: the evidence is a dictionary, and is sorted, so that neither the
\* order of the operands nor how often one occurs is part of it.
Signature(t) ==
    <<t.op, {<<k, Evidence(t)[k]>> : k \in {o \in Range(t.operands) : Evidence(t)[o] # None}}>>

\* The result of a task that is given an answer or a solution, each possibly None
Strategy(t, solution) ==
    IF Evidence(t)["strategy"] # None THEN Evidence(t)["strategy"] ELSE solution
Attempt(t, solution) ==
    <<Evidence(t)["module"], Evidence(t)["test"], Strategy(t, solution)>>
Result(t, answer, solution) ==
    CASE t.op = "codefix" -> IF Attempt(t, solution) \in Fixes THEN 1 ELSE 0
      [] t.op # "codefix" /\ answer # None -> answer
      [] t.op # "codefix" /\ answer = None -> Compute(t.op, Values(t))

\* solution_used: the strategy that was applied, or the value that was computed
SolutionUsed(t, solution, v) ==
    IF t.op # "codefix" THEN v
    ELSE IF Strategy(t, solution) \in Strategies /\ None \notin Range(Attempt(t, solution))
         THEN Strategy(t, solution) ELSE None

\* What a task yields without a memory
Alone(t) == Result(t, None, None)

ASSUME TasksAssumption ==
    \A t \in Tasks :
        /\ t.op = "codefix" => {"module", "test", "strategy"} \subseteq Range(t.operands)
        /\ \A v \in Value : Says(t, v) \in Content
        /\ Alone(t) \in Value \cup {None}
        /\ \A k \in Range(t.operands) : Evidence(t)[k] \in Value \cup {None}
ASSUME WorkloadsAssumption == Workloads \subseteq SUBSET Tasks
ASSUME ValueAssumption == None \notin Value /\ None \notin Tasks /\ {0, 1} \subseteq Value
ASSUME QualityAssumption == {4, 18} \subseteq Qualities
ASSUME BoundsAssumption == MaxRetries \in Nat /\ MaxFaults \in Nat

VARIABLES
    payload,     \* what each record carries besides its content
    workload,    \* the tasks of this behaviour
    task,        \* the running task, or None
    at,          \* the next step of the running task
    blackboard,  \* what its handlers leave for each other
    tries,       \* how often the reviewer was retried
    faults,      \* retries, tasks given up and crashes so far
    misled       \* history: failed reuses of each record in a row

run == <<task, at, blackboard, tries>>
allVars == <<vars, payload, workload, run, faults, misled>>

Blank == [reused |-> 0, reused_answer |-> None, reused_solution |-> None,
          value |-> None, solution_used |-> None]
Payload == [op : {t.op : t \in Tasks}, signature : {Signature(t) : t \in Tasks},
            answer : Value, solution : Value \cup {None}]
Blackboard ==
    [reused : {0} \cup DOMAIN db, reused_answer : Value \cup {None},
     reused_solution : Value \cup {None}, value : Value \cup {None},
     solution_used : Value \cup {None}]

ReuseTypeOK ==
    /\ TypeOK
    /\ payload \in Seq(Payload)
    /\ Len(payload) = Len(db)
    /\ workload \subseteq Tasks
    /\ task \in workload \cup {None}
    /\ at \in {"idle", "recall", "act", "rate", "write"}
    /\ at = "idle" => task = None
    /\ at # "idle" => task # None /\ open /\ pending = 0
    /\ blackboard \in Blackboard
    /\ at \in {"rate", "write"} => blackboard.value # None
    /\ tries \in 0..MaxRetries
    /\ tries > 0 => at \in {"rate", "write"}
    /\ faults \in 0..MaxFaults
    /\ misled \in [DOMAIN db -> 0..4]

ReuseInit ==
    /\ Init
    /\ payload = <<>>
    /\ workload \in Workloads
    /\ task = None
    /\ at = "idle"
    /\ blackboard = Blank
    /\ tries = 0
    /\ faults = 0
    /\ misled = <<>>

\* run_task starts the next task, with a new context.
Begin(t) ==
    /\ at = "idle"
    /\ open
    /\ pending = 0
    /\ task' = t
    /\ at' = "recall"
    /\ UNCHANGED <<vars, payload, workload, blackboard, tries, faults, misled>>

\* It returns, and its context is gone.
Return ==
    /\ task' = None
    /\ at' = "idle"
    /\ blackboard' = Blank
    /\ tries' = 0

----------------------------------------------------------------------------
\* retrieve: the index search gives the semantic part of the score to the SearchK
\* closest records, isolated ones included; of equally close ones the older comes
\* first.
Searched(t) ==
    {i \in index :
        Cardinality({j \in index :
            LET Near(k) == Semantic[t, db[k].content]
            IN Near(j) > Near(i) \/ (Near(j) = Near(i) /\ j < i)}) < SearchK}
Base(t, i) ==
    Lexical[t, db[i].content] + IF i \in Searched(t) THEN Semantic[t, db[i].content] ELSE 0
\* Forty times the score
Score(t, i) == Base(t, i) * (20 + db[i].quality)
Before(t, i, j) ==
    Score(t, i) > Score(t, j) \/ (Score(t, i) = Score(t, j) /\ i < j)

Matching(t) == {i \in Retrievable : Base(t, i) > 0}
Retrieved(t) ==
    {i \in Matching(t) : Cardinality({j \in Matching(t) : Before(t, j, i)}) < TopK}

\* _augment_from_memory: the first hit of the task's operation that did not fail
Usable(t) == {i \in Retrieved(t) : payload[i].op = t.op /\ ~ db[i].failed}
Best(t) == {i \in Usable(t) : \A j \in Usable(t) \ {i} : Before(t, i, j)}

Recalled_AnyAnswer(t, i) ==
    [Blank EXCEPT !.reused = i, !.reused_answer = payload[i].answer]

\* An equal signature offers the answer, any other the solution.
Recalled(t, i) ==
    LET same == payload[i].signature = Signature(t)
    IN [reused |-> i,
        reused_answer |-> IF same THEN payload[i].answer ELSE None,
        reused_solution |-> IF same THEN None ELSE payload[i].solution,
        value |-> None, solution_used |-> None]

\* The retriever; mark_used changes nothing that is modelled.
Recall ==
    /\ at = "recall"
    /\ at' = "act"
    /\ \/ Best(task) = {} /\ blackboard' = Blank
       \/ \E i \in Best(task) : blackboard' = Recalled(task, i)
    /\ UNCHANGED <<vars, payload, workload, task, tries, faults, misled>>

Act_WithoutValue ==
    /\ at = "act"
    /\ at' = "rate"
    /\ LET b == blackboard
           v == Result(task, b.reused_answer, b.reused_solution)
       IN blackboard' = [b EXCEPT !.value = v,
                                  !.solution_used = SolutionUsed(task, b.reused_solution, v)]
    /\ UNCHANGED <<vars, payload, workload, task, tries, faults, misled>>

\* The executor; a task without a value is an error, and is aborted.
Act ==
    /\ at = "act"
    /\ LET b == blackboard
           v == Result(task, b.reused_answer, b.reused_solution)
       IN \/ v = None /\ Return
          \/ /\ v # None
             /\ at' = "rate"
             /\ blackboard' =
                    [reused |-> b.reused, reused_answer |-> b.reused_answer,
                     reused_solution |-> b.reused_solution, value |-> v,
                     solution_used |-> SolutionUsed(task, b.reused_solution, v)]
             /\ UNCHANGED <<task, tries>>
    /\ UNCHANGED <<vars, payload, workload, faults, misled>>

\* task.verify
Accepted == blackboard.value = task.expected

Misled(i) ==
    [misled EXCEPT ![i] = IF Accepted THEN 0 ELSE IF tries = 0 THEN @ + 1 ELSE @]

Rate_OnlySuccess ==
    /\ at = "rate"
    /\ at' = "write"
    /\ LET i == blackboard.reused
       IN IF i # 0
          THEN /\ IF Accepted THEN RecordFeedback(i, Accepted) ELSE UNCHANGED vars
               /\ misled' = [misled EXCEPT ![i] = IF Accepted THEN 0 ELSE Least(@ + 1, 5)]
          ELSE UNCHANGED <<vars, misled>>
    /\ UNCHANGED <<payload, workload, task, blackboard, tries, faults>>

\* _memorize, first half: the record that was reused is credited or debited.
Rate ==
    /\ at = "rate"
    /\ at' = "write"
    /\ \/ /\ blackboard.reused # 0
          /\ RecordFeedback(blackboard.reused, Accepted)
          /\ misled' = Misled(blackboard.reused)
       \/ blackboard.reused = 0 /\ UNCHANGED <<vars, misled>>
    /\ UNCHANGED <<payload, workload, task, blackboard, tries, faults>>

WrittenQuality_Same == 18
\* The quality_score of the record: 0.9 or 0.2
WrittenQuality == IF Accepted THEN 18 ELSE 4

\* _memorize, second half: a record that merges leaves the payload as it is.
Memorize ==
    /\ at = "write"
    /\ Return
    /\ LET c == Says(task, blackboard.value)
       IN /\ Write(c, WrittenQuality, ~ Accepted)
          /\ payload' =
                 IF Len(db') = Len(db) THEN payload
                 ELSE Append(payload, [op |-> task.op, signature |-> Signature(task),
                                       answer |-> blackboard.value,
                                       solution |-> blackboard.solution_used])
          /\ misled' = [i \in DOMAIN db' |->
                 IF i \notin DOMAIN db \/ (Accepted /\ Sig[db[i].content] = Sig[c])
                 THEN 0 ELSE misled[i]]
    /\ UNCHANGED <<workload, faults>>

Index == AddToIndex /\ UNCHANGED <<payload, workload, run, faults, misled>>

----------------------------------------------------------------------------
Fault == faults < MaxFaults /\ faults' = faults + 1

\* write raises after the feedback is committed: the whole handler runs again.
ReviewerRetried ==
    /\ Fault
    /\ at = "write"
    /\ tries < MaxRetries
    /\ at' = "rate"
    /\ tries' = tries + 1
    /\ UNCHANGED <<vars, payload, workload, task, blackboard, misled>>

\* A handler raises in all its attempts, and run_task aborts.
GivenUp ==
    /\ Fault
    /\ at # "idle"
    /\ Return
    /\ UNCHANGED <<vars, payload, workload, misled>>

\* The process dies, and with it the running task.
Dies ==
    /\ Fault
    /\ Stop
    /\ Return
    /\ UNCHANGED <<payload, workload, misled>>

Restarts == Reopen /\ UNCHANGED <<payload, workload, run, faults, misled>>

Progress == Recall \/ Act \/ Rate \/ Memorize \/ Index

ReuseNext ==
    \/ \E t \in workload : Begin(t)
    \/ Progress
    \/ ReviewerRetried
    \/ GivenUp
    \/ Dies
    \/ Restarts

\* A task that runs goes on: its handlers return or raise (EveryRunEnds of PipelineRun).
ReuseSpec == ReuseInit /\ [][ReuseNext]_allVars /\ WF_allVars(Progress)

----------------------------------------------------------------------------
\* The task alone decides what it yields: it has its own strategy, or shares its
\* signature with tasks of the same result only.
SelfReliant(t) ==
    IF t.op = "codefix" THEN Evidence(t)["strategy"] # None
    ELSE \A u \in Tasks : Signature(u) = Signature(t) => Alone(u) = Alone(t)

\* What earlier tasks stored, in whatever order they ran, failed, were retried or
\* crashed, never changes the result of a self-reliant task.
ReuseIsTransparent ==
    at \in {"rate", "write"} /\ SelfReliant(task) => blackboard.value = Alone(task)

\* No record misleads more than four tasks in a row, however often it is written
\* again by failing ones.
MisledBounded == \A i \in DOMAIN misled : misled[i] <= 4

\* A failed task never makes a record retrievable that was not.
RestoresNothing ==
    at \in {"rate", "write"} /\ ~ Accepted => Retrievable' \subseteq Retrievable
FailureRestoresNothing == [][RestoresNothing]_allVars

\* Once only a task runs that succeeds without a memory, whatever others have left,
\* it fails finitely often.
Recovers ==
    \A t \in Tasks : Alone(t) = t.expected =>
        (<>[](task \in {None, t}) => <>[](at = "write" => Accepted))

\* signature.py: equal signatures are one sub-problem, whose answer is reused.
SameSubproblemIsReused ==
    at = "rate" /\ blackboard.reused_answer # None =>
        blackboard.value = blackboard.reused_answer
=============================================================================
