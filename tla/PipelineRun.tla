------------------------------- MODULE PipelineRun -------------------------------
(***************************************************************************)
(* One call of Orchestrator.run_task: the four stages planner, retriever,  *)
(* executor and reviewer, each driven through BaseAgent.run with its       *)
(* retries, the metrics they write, the messages sent on the channel and   *)
(* the shutdown that ends the call.                                        *)
(*                                                                         *)
(* A handler is split at the operations that can raise: a model call, a    *)
(* call of the memory store, a resolved reference, a sandbox run, a        *)
(* verifier.  What the handler has written before it raises stays written, *)
(* and the retry starts the handler again from its first operation.        *)
(*                                                                         *)
(* A definition named D_Something is a faulty variant of D, used by        *)
(* nothing: replacing D by it must make TLC report a violated property.    *)
(***************************************************************************)
EXTENDS Integers, Sequences

CONSTANTS
    MaxRetries,    \* RetryPolicy.max_retries, the same for the four agents
    TopK,          \* how many hits the retriever asks the memory for
    MaxDegraded    \* bound: the degradations explored that are no failed attempts

ASSUME MaxRetriesAssumption == MaxRetries \in Nat
ASSUME TopKAssumption == TopK \in Nat

VARIABLES
    mode,      \* the switches of the RunContext and the kind of task; never changes
    pc,        \* where run_task is
    at,        \* where the running handler is
    idx,       \* the stage of the loop, 1..4
    failed,    \* failed[i]: value of `attempt` in BaseAgent.run for stage i
    agent,     \* BaseAgent._state of the agent of each stage
    prev,      \* prev_source
    last,      \* last_result: its status, whether its error field is set, who wrote it
    sent,      \* Channel.history
    board,     \* the blackboard entries that later steps read
    metrics,   \* MetricsSnapshot, and whether the collector is running
    hits,      \* the memory_* counters of the MetricsSnapshot
    exchange   \* the per-task StateExchange

vars == <<mode, pc, at, idx, failed, agent, prev, last, sent, board, metrics, hits, exchange>>

Stage == 1..4
Name == <<"planner", "retriever", "executor", "reviewer">>
Sources == {"orchestrator", "planner", "retriever", "executor", "reviewer"}

\* The operations of the four handlers, in the order of the code.
Positions(i) ==
    CASE i = 1 -> {"planning"}
      [] i = 2 -> {"resolving", "recalling", "marking", "digesting"}
      [] i = 3 -> {"computing", "explaining"}
      [] i = 4 -> {"verifying", "summarizing", "crediting", "memorizing"}

Entry == <<"planning", "resolving", "computing", "verifying">>

AgentStates == {"created", "ready", "running", "succeeded", "failed", "timeout", "terminated"}

\* The executor's value, or the answer of a memory, seen through task.verify; "none"
\* is Python's None.
Values == {"right", "wrong", "none"}

\* Memory and references on or off, and the kind of task.
Modes == [memory : BOOLEAN, references : BOOLEAN, codefix : BOOLEAN]

NoResult == [status |-> "none", error |-> FALSE, by |-> "orchestrator"]

Messages == [source : Sources, target : Sources]
Results == [status : {"none", "ok", "error", "timeout"}, error : BOOLEAN, by : Sources]
Boards == [reused : Values, ids : 0..1,
           value : Values \cup {"unset"}, answer : Values \cup {"unset"}]
Snapshots == [messages : Nat, transfers : Nat, errors : Nat, degradations : Nat,
              success : BOOLEAN, running : BOOLEAN]
HitCounts == [retrieved : Nat, used : Nat, effective : Nat, harmful : Nat]

TypeOK ==
    /\ mode \in Modes
    /\ pc \in {"start", "dispatch", "handle", "backoff", "result", "finish", "returned", "raised"}
    /\ at \in {"idle"} \cup Positions(1) \cup Positions(2) \cup Positions(3) \cup Positions(4)
    /\ idx \in Stage
    /\ failed \in [Stage -> 0..(MaxRetries + 1)]
    /\ agent \in [Stage -> AgentStates]
    /\ prev \in Sources
    /\ last \in Results
    /\ sent \in Seq(Messages)
    /\ board \in Boards
    /\ metrics \in Snapshots
    /\ hits \in HitCounts
    /\ exchange \in {"empty", "filled", "closed"}

Init ==
    /\ mode \in Modes
    /\ pc = "start"
    /\ at = "idle"
    /\ idx = 1
    /\ failed = [i \in Stage |-> 0]
    /\ agent = [i \in Stage |-> "created"]
    /\ prev = "orchestrator"
    /\ last = NoResult
    /\ sent = <<>>
    /\ board = [reused |-> "none", ids |-> 0, value |-> "unset", answer |-> "unset"]
    /\ metrics = [messages |-> 0, transfers |-> 0, errors |-> 0, degradations |-> 0,
                  success |-> FALSE, running |-> FALSE]
    /\ hits = [retrieved |-> 0, used |-> 0, effective |-> 0, harmful |-> 0]
    /\ exchange = "empty"

----------------------------------------------------------------------------
(* The orchestrator's own steps.                                           *)

\* metrics.start, on_start of every agent.
Start ==
    /\ pc = "start"
    /\ pc' = "dispatch"
    /\ agent' = [i \in Stage |-> "ready"]
    /\ metrics' = [metrics EXCEPT !.running = TRUE]
    /\ UNCHANGED <<mode, at, idx, failed, prev, last, sent, board, exchange, hits>>

\* The top of the loop: the inbound message is sent and BaseAgent.run entered.
\* The idempotency cache is new in every run and the step id is unique in it,
\* so `idem.seen` is false here.
Dispatch ==
    /\ pc = "dispatch"
    /\ pc' = "handle"
    /\ at' = Entry[idx]
    /\ agent' = [agent EXCEPT ![idx] = "running"]
    /\ sent' = Append(sent, [source |-> prev, target |-> Name[idx]])
    /\ metrics' = [metrics EXCEPT !.messages = @ + 1]
    /\ UNCHANGED <<mode, idx, failed, prev, last, board, exchange, hits>>

StageFailed_IgnoresTimeout == last.status = "error"

\* The result ends the loop.
StageFailed == last.status \in {"error", "timeout"}

Abort_OnErrorOnly ==
    /\ pc = "result"
    /\ last.status = "error"
    /\ pc' = "finish"
    /\ UNCHANGED <<mode, at, idx, failed, agent, prev, last, sent, board, metrics, exchange, hits>>

Abort_MovesSource ==
    /\ pc = "result"
    /\ StageFailed
    /\ pc' = "finish"
    /\ prev' = Name[idx]
    /\ UNCHANGED <<mode, at, idx, failed, agent, last, sent, board, metrics, exchange, hits>>

\* The stage failed: leave the loop.
Abort ==
    /\ pc = "result"
    /\ StageFailed
    /\ pc' = "finish"
    /\ UNCHANGED <<mode, at, idx, failed, agent, prev, last, sent, board, metrics, exchange, hits>>

\* The stages after which _propagate puts a plan state and an artifact.
PutsState == mode.references /\ idx \in {1, 2}

\* The stage is accepted: _propagate fills the next stage's inputs, prev_source
\* moves, and the loop goes on or ends.
Advance ==
    /\ pc = "result"
    /\ ~StageFailed
    /\ prev' = Name[idx]
    /\ pc' = IF idx = 4 THEN "finish" ELSE "dispatch"
    /\ idx' = IF idx = 4 THEN 4 ELSE idx + 1
    /\ exchange' = IF PutsState THEN "filled" ELSE exchange
    /\ metrics' = IF PutsState THEN [metrics EXCEPT !.transfers = @ + 1] ELSE metrics
    /\ UNCHANGED <<mode, at, failed, agent, last, sent, board, hits>>

\* Embedding the plan, packing it or storing the artifact raises: nothing in
\* run_task catches it.
PropagateRaises ==
    /\ pc = "result"
    /\ ~StageFailed
    /\ PutsState
    /\ pc' = "raised"
    /\ \/ UNCHANGED <<exchange, metrics>>
       \/ /\ exchange' = "filled"
          /\ \E counted \in {0, 1} :
                metrics' = [metrics EXCEPT !.transfers = @ + counted]
    /\ UNCHANGED <<mode, at, idx, failed, agent, prev, last, sent, board, hits>>

\* The final message, on_stop of every agent, metrics.stop, close of the
\* exchange and the RunResult.
Finish ==
    /\ pc = "finish"
    /\ pc' = "returned"
    /\ sent' = Append(sent, [source |-> prev, target |-> "orchestrator"])
    /\ agent' = [i \in Stage |-> "terminated"]
    /\ metrics' = [metrics EXCEPT !.messages = @ + 1, !.running = FALSE]
    /\ exchange' = "closed"
    /\ UNCHANGED <<mode, at, idx, failed, prev, last, board, hits>>

----------------------------------------------------------------------------
(* BaseAgent.run around the handler.                                       *)

\* The handler returned a reply with this status.
Replies(status) ==
    /\ pc' = "result"
    /\ at' = "idle"
    /\ agent' = [agent EXCEPT ![idx] = "succeeded"]
    /\ last' = [status |-> status, error |-> FALSE, by |-> Name[idx]]
    /\ UNCHANGED <<mode, idx, failed, prev, sent, exchange>>

\* The handler goes on to its next operation.
Continues(next) ==
    /\ at' = next
    /\ UNCHANGED <<mode, pc, idx, failed, agent, prev, last, sent, exchange>>

GivesUp_OneRetryMore == failed[idx] > MaxRetries

\* `attempt > max_retries` once this failure is counted.
GivesUp == failed[idx] + 1 > MaxRetries

\* An attempt failed: it is counted, and either it was the last one and an
\* error message is the result, or the loop backs off.
AttemptFails(state, status) ==
    /\ pc = "handle"
    /\ at' = "idle"
    /\ failed' = [failed EXCEPT ![idx] = @ + 1]
    /\ agent' = [agent EXCEPT ![idx] = state]
    /\ metrics' = [metrics EXCEPT !.errors = @ + 1, !.degradations = @ + 1]
    /\ IF GivesUp
       THEN /\ pc' = "result"
            /\ last' = [status |-> status, error |-> TRUE, by |-> Name[idx]]
       ELSE /\ pc' = "backoff"
            /\ UNCHANGED last
    /\ UNCHANGED <<mode, idx, prev, sent, board, exchange, hits>>

HandlerRaises == AttemptFails("failed", "error")

\* wait_for cancels a handler that suspends, which the four default ones never do, or
\* an operation of the handler raises a TimeoutError itself (asyncio's, which is the
\* built-in one from Python 3.11 on).
HandlerTimesOut == AttemptFails("timeout", "timeout")

\* The backoff is over: the handler starts again from its first operation.
Retry ==
    /\ pc = "backoff"
    /\ pc' = "handle"
    /\ at' = Entry[idx]
    /\ agent' = [agent EXCEPT ![idx] = "running"]
    /\ UNCHANGED <<mode, idx, failed, prev, last, sent, board, metrics, exchange, hits>>

----------------------------------------------------------------------------
(* PlannerAgent.handle: the model call, then the plan.                      *)

Plan ==
    /\ at = "planning"
    /\ Replies("ok")
    /\ UNCHANGED <<board, metrics, hits>>

(* RetrieverAgent.handle: the plan and the facts are resolved and looked    *)
(* up, the memory is asked, and only then is the model called.              *)

\* The references of a message that no longer resolve: each is one degradation, and
\* an empty plan or empty data takes its place.
Losses ==
    [plan : IF mode.references THEN 0..1 ELSE {0}, data : IF mode.references THEN 0..1 ELSE {0}]

Degraded(n) ==
    /\ metrics.degradations - metrics.errors + n <= MaxDegraded
    /\ metrics' = [metrics EXCEPT !.degradations = @ + n]

Resolve ==
    /\ at = "resolving"
    /\ Continues(IF mode.memory THEN "recalling" ELSE "digesting")
    /\ \E lost \in Losses : Degraded(lost.plan + lost.data)
    /\ UNCHANGED <<board, hits>>

\* memory.retrieve returned; one of the hits is usable, or the reused ids are reset
\* here.  What was resolved in this attempt decides what it finds.
Recall ==
    /\ at = "recalling"
    /\ UNCHANGED metrics
    /\ \E found \in 0..TopK :
          /\ hits' = [hits EXCEPT !.retrieved = @ + found]
          /\ \/ found > 0 /\ Continues("marking") /\ UNCHANGED board
             \/ Continues("digesting") /\ board' = [board EXCEPT !.ids = 0]

\* memory.mark_used of the best hit.  It offers the answer of the same sub-problem, or
\* a solution or nothing, which leave the answer an earlier attempt found.
MarkUsed ==
    /\ at = "marking"
    /\ Continues("digesting")
    /\ UNCHANGED metrics
    /\ hits' = [hits EXCEPT !.used = @ + 1]
    /\ \E answer \in Values \cup {board.reused} :
          board' = [board EXCEPT !.ids = 1, !.reused = answer]

Digest ==
    /\ at = "digesting"
    /\ Replies("ok")
    /\ UNCHANGED <<board, metrics, hits>>

(* CodeActExecutorAgent.handle: a reused answer replaces the computation, a *)
(* computation may fall back from the sandbox to the local one, and a code  *)
(* fix, unless its plan is lost, ends in True or False.                     *)

Compute ==
    /\ at = "computing"
    /\ Continues("explaining")
    /\ UNCHANGED hits
    /\ \E lost \in Losses, v \in Values, fallback \in 0..1 :
          /\ IF mode.codefix /\ lost.plan = 0
             THEN fallback = 0 /\ v # "none"
             ELSE board.reused # "none" => fallback = 0 /\ v = board.reused
          /\ board' = [board EXCEPT !.value = v]
          /\ Degraded(lost.plan + lost.data + fallback)

Explain ==
    /\ at = "explaining"
    /\ Replies(IF board.value = "none" THEN "error" ELSE "ok")
    /\ UNCHANGED <<board, metrics, hits>>

(* ReviewerSummarizerAgent.handle: the verdict is recorded first, then the  *)
(* model is called and the memory written.                                  *)

Verify_AnyValue ==
    /\ at = "verifying"
    /\ Continues("summarizing")
    /\ metrics' = [metrics EXCEPT !.success = TRUE]
    /\ UNCHANGED hits
    /\ board' = [board EXCEPT !.answer = board.value]

\* task.verify, set_result, and the answer on the blackboard.
Verify ==
    /\ at = "verifying"
    /\ Continues("summarizing")
    /\ metrics' = [metrics EXCEPT !.success = (board.value = "right")]
    /\ UNCHANGED hits
    /\ board' = [board EXCEPT !.answer = board.value]

ReviewerReplies == Replies(IF board.value = "right" THEN "ok" ELSE "error")

HasReused_Always == TRUE

\* blackboard["reused_memory_ids"] is not empty.
HasReused == board.ids = 1

Summarize ==
    /\ at = "summarizing"
    /\ IF mode.memory
       THEN Continues(IF HasReused THEN "crediting" ELSE "memorizing")
       ELSE ReviewerReplies
    /\ UNCHANGED <<board, metrics, hits>>

\* record_feedback of the reused memory, and the effective / harmful hit.
Credit ==
    /\ at = "crediting"
    /\ Continues("memorizing")
    /\ hits' = IF board.value = "right"
                  THEN [hits EXCEPT !.effective = @ + 1]
                  ELSE [hits EXCEPT !.harmful = @ + 1]
    /\ UNCHANGED <<board, metrics>>

Memorize ==
    /\ at = "memorizing"
    /\ ReviewerReplies
    /\ UNCHANGED <<board, metrics, hits>>

----------------------------------------------------------------------------
HandlerStep ==
    Plan \/ Resolve \/ Recall \/ MarkUsed \/ Digest \/ Compute \/ Explain
        \/ Verify \/ Summarize \/ Credit \/ Memorize

AgentStep == HandlerStep \/ HandlerRaises \/ HandlerTimesOut \/ Retry

OrchestratorStep == Start \/ Dispatch \/ Abort \/ Advance \/ PropagateRaises \/ Finish

Next == AgentStep \/ OrchestratorStep

\* One coroutine runs the whole call and every handler returns, raises or is
\* cancelled: the call keeps taking steps.
Spec == Init /\ [][Next]_vars /\ WF_vars(Next)

----------------------------------------------------------------------------
Ended == pc \in {"returned", "raised"}

\* Every failed attempt of every stage is one error and at least one
\* degradation; a stage that was left behind failed at most MaxRetries times,
\* so a whole run never counts more than 4 * MaxRetries + 1 errors.
\* (BaseAgent.run counts and gives up; the orchestrator stops at the first
\* stage that gave up.)
ErrorsAccounted ==
    /\ metrics.errors = failed[1] + failed[2] + failed[3] + failed[4]
    /\ metrics.errors <= metrics.degradations
    /\ metrics.errors <= 4 * MaxRetries + 1

\* task_success is only ever set for the value the verifier accepted, and a run
\* that returns reports success exactly when its last stage replied OK, except
\* when the reviewer itself gave up.
SuccessIsVerified ==
    /\ metrics.success => idx = 4 /\ board.answer = "right" /\ board.value = "right"
    /\ pc = "returned" /\ ~(last.by = "reviewer" /\ last.error)
          => (metrics.success <=> last.status = "ok")

\* The levels of a memory hit: nothing is used that was not retrieved, nothing
\* is credited that was not used, one run never credits both ways, and an attempt
\* counts TopK retrieved hits, one used hit and one credit at most.
MemoryCredit ==
    /\ hits.used <= hits.retrieved
    /\ hits.retrieved <= TopK * (failed[2] + 1)
    /\ hits.used <= failed[2] + 1
    /\ hits.effective + hits.harmful > 0 => hits.used > 0
    /\ hits.effective = 0 \/ hits.harmful = 0
    /\ hits.effective + hits.harmful <= failed[4] + 1

\* Every call of run_task returns or raises.
EveryRunEnds == <>Ended

----------------------------------------------------------------------------
(* The run implements the contract of PipelineContract.                     *)

Aborting == pc \in {"result", "finish"} /\ StageFailed
Completed == pc \in {"finish", "returned"} /\ ~StageFailed

AbstractAccepted == IF Completed THEN 4 ELSE idx - 1
AbstractTries == IF Completed THEN 0 ELSE failed[idx]
AbstractPhase ==
    CASE Ended -> pc
      [] Aborting -> "aborting"
      [] pc = "finish" /\ ~StageFailed -> "completed"
      [] OTHER -> "running"
AbstractOutcome ==
    IF pc # "returned" THEN "none" ELSE IF StageFailed THEN "error" ELSE "ok"
AbstractSigned == IF pc = "returned" THEN sent[Len(sent)].source ELSE "none"

\* Who speaks for the first i stages
Signer(i) == IF i = 0 THEN "orchestrator" ELSE Name[i]

Contract == INSTANCE PipelineContract
    WITH Stages <- 4, MaxTries <- MaxRetries + 1, accepted <- AbstractAccepted,
         tries <- AbstractTries, phase <- AbstractPhase, outcome <- AbstractOutcome,
         signed <- AbstractSigned

\* run_task keeps the contract: no error is returned exactly when all four
\* stages were accepted in order, each within its attempts, and the final message
\* is that of the last stage accepted, not of the one that failed.
ContractSpec == Contract!Spec

----------------------------------------------------------------------------
(* What the repository says of a run and the code does not do.              *)

\* tests/stability/test_fault_injection.py: a run whose agent crashes returns a
\* failed result.
FailedRunIsNotASuccess == pc = "returned" /\ StageFailed => ~metrics.success
=============================================================================
