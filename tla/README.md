# A verification of os-dasai-v2 in TLA+

This directory models the multi-agent runtime of this repository
(`src/agent_runtime`) in TLA+, checks the models with TLC and proves the main
invariants with TLAPS, for every value of the constants. `PROJECT.json` lists
the components, the runs, the hazards the properties are aimed at, the source
lines behind every definition, and the theorems. Paths below are relative to
`src/src/agent_runtime` unless they start with `src/`.

Contents: [the system](#the-system), [the modules](#the-modules),
[the runs](#the-runs), [what the runs refute](#what-the-runs-refute),
[the proofs](#the-proofs), [fairness](#fairness),
[what is only model-checked](#what-is-only-model-checked),
[what is not modelled](#what-is-not-modelled),
[peculiarities seen on the way](#peculiarities-seen-on-the-way), [plan](#plan).

## The system

One call of `Orchestrator.run_task` drives a task through four agents. The
orchestrator sends every stage an `AgentMessage` on the channel and calls
`BaseAgent.run`, which calls the agent's `handle` and retries it when it raises
or times out. Handlers talk to each other through the blackboard of the
`RunContext`, and call the services below. Between two stages `_propagate`
puts the plan and the facts into the state exchange and the artifact store, and
hands references to the next stage. The memory store outlives a task; the state
exchange is closed with it.

| Component | State | Operations | What makes it hard | What makes it correct |
| --- | --- | --- | --- | --- |
| Orchestrator (`runtime/orchestrator.py`) | stage index, `prev_source`, `last_result`, stage inputs; `_resolved` | `__init__`: handshakes, resolution; `run_task`: start, the loop over the stages, `_propagate`, abort, final message, shutdown | exceptions outside the failure isolation, a failed stage taken for an accepted one, release of resources | stages in order, none skipped; an outcome that says what happened; every call ends |
| BaseAgent (`runtime/agent.py`) | agent state, attempt counter | `run`: attempt, timeout, retry, error message | side effects of a handler that is run again | exactly `max_retries + 1` attempts, each failure counted once |
| Agents (`agents/`) | none of their own | `handle` of planner, retriever, executor, reviewer | what was written before an operation raises stays written | success only for a verified value; memory credited for what was used |
| Context, channel, metrics (`runtime/`, `observability/`) | history, blackboard, counters | `send`, `record_*`, `set_result` | counters kept beside what they count | counters agree with what happened |
| Artifact store (`artifact_store/store.py`) | bytes per hash, metadata per URI, count per hash | `put`, `get`, `incref`, `decref`, `collect`, `invalidate` | one count shared by the two URIs of a content; three tables cleaned one by one | nobody loses a content that somebody owns |
| State exchange (`state_exchange/`) | plans, arrays in a table or in shared memory | `put_plan_state`, `embed_text`, `get_*`, `invalidate`, `close` | fallback in the middle of a put; segments displaced by a second put | plans are complete, transports labelled truly, segments released |
| Agent registry (`registry/registry.py`) | cards, two indexes | `handshake`, `register`, `discover` | indexes kept beside the table they index | discovery finds exactly what is registered, in a stable order |
| Memory store (`memory/`) | SQLite rows, in-process vector index | `write` with merging and versions, `retrieve`, `mark_used`, `record_feedback`, reopening | crash between commit and index, merges against versions, long mixes of feedback | no loss, no duplicate, harmful records leave the retrieval |
| Sandbox (`sandbox/`) | a child process and its directory | `run`, timeout, kill, cleanup | a timeout racing the end of the script, processes left behind | nothing outlives the run, and the run comes back |
| Protocol (`protocol/`) | idempotency cache | encode, decode, fingerprint, `seen`, `remember` | two lossy formats in any mix; repeated requests | the core survives; a request gets its own reply, once |
| Memory reuse (`agents/retriever.py`, `codeact_executor.py`, `reviewer.py` over `memory/`) | what each record carries, and what the tasks so far made of it | recall (ranking, choice), reuse or computation, verification, feedback, a new record | results of one task decide the next; feedback of a handler that is retried; isolated records that take places in the search | memory never changes a result that does not depend on it; no record misleads for ever |
| Evaluation (`evaluation/`) | result directories, written file by file | `run_suite`, `write_results`, the report command | two experiments in the same second, a death between two files, a report command over them | a report means complete data; finished results stay; the repetitions of a configuration start alike |

The hazards this table names are listed one by one, at their lines, in
`PROJECT.json`.

## The modules

| Module | Models | Uses |
| --- | --- | --- |
| `PipelineContract` | what `run_task` promises its caller | |
| `PipelineRun` | one call of `run_task`, the four handlers, `BaseAgent.run` | instantiates `PipelineContract` |
| `ArtifactStore` | `artifact_store/store.py` and its clients | |
| `AgentRegistry` | `registry/registry.py` | |
| `OrchestratorStart` | `Orchestrator.__init__` | extends `AgentRegistry` |
| `SharedVectorBuffer` | `state_exchange/shared_buffer.py`, as operators on a buffer | |
| `StateExchange` | `state_exchange/exchange.py` | extends `SharedVectorBuffer` |
| `MemoryStore` | `memory/store.py` and its database | |
| `MemoryReuse` | tasks that share one store, one after the other | extends `MemoryStore` |
| `Sandbox` | `sandbox/executor.py` next to the processes it starts | |
| `MessageProtocol` | `protocol/`, with the idempotency cache | |
| `Evaluation` | `evaluation/`: suites, their result directories, the report command | |
| `MC*` | the data of the runs that a cfg cannot write down | extend their module |
| `*_proofs` | theorems; `Memory_proofs` is about both memory modules, `Registry_proofs` about the registry and the start-up | extend their module and `TLAPS` |

An operator called `D_Something` is a faulty variant of `D`: a bug the code
might have had. `PROJECT.json` ("mutants") says which property finds it; nothing
else uses it.

### How they correspond to the code

**PipelineRun.** `pc` is the place in `run_task`, `idx` the loop variable, `at`
the place in the running handler. `Start`, `Dispatch`, `Abort`, `Advance`,
`PropagateRaises` and `Finish` are the stretches of `run_task` between two
`await agent.run(...)`. A handler is split where something it calls can raise (a
model call, the memory, a reference, the sandbox, the verifier): before each of
these operations `HandlerRaises` may happen instead, and what the earlier
operations wrote stays. `HandlerTimesOut` is the cancellation by
`asyncio.wait_for`, which only reaches a handler that suspends (the four default ones
never do; agents that a caller brings may), or a `TimeoutError` raised by an operation of
the handler itself, so it is possible in every stage. `AttemptFails` is the counting
and giving up of `BaseAgent.run`, `Retry` its next round. The idempotency lookup
of the loop is left out because the cache is created in the same call and the
step ids differ, so `seen` is false. `mode` draws every combination of
switches and kinds of task. What the memory finds, up to `TopK` hits, whether one of them
is usable and what it offers is chosen anew in every attempt, as is whether the references
of a message still resolve (`Losses`): a lost one counts as a degradation, and an empty
plan or empty data takes its place. The values of a computation are reduced to right,
wrong and `None`, which is what `task.verify` and the executor tell apart.

**PipelineContract.** The caller's view: stages accepted in order, at most
`MaxTries` attempts each, an error exactly if not all were accepted, and a final message
in the name of the last stage accepted (`Signer`). `PipelineRun` maps its state to it
(`AbstractAccepted`, `AbstractTries`, `AbstractPhase`, `AbstractOutcome`,
`AbstractSigned`); `ContractSpec` is the refinement.

**ArtifactStore.** `blobs`, `meta`, `refcount` are the three dictionaries; a URI is
a scope and a content hash. The history variables `held` (the references its
clients own) and `cut` (contents once invalidated) are what the counts are
compared with: `put` hands a reference out, `incref` shares one, `decref` gives one
back. Clients release only what they own.

**AgentRegistry, OrchestratorStart.** Cards carry whether their version is
compatible, their capabilities and their actions. The indexes are sequences,
because the orchestrator takes the first candidate. `OrchestratorStart` runs the
registry's own actions for every possible team and resolves the stages; its definitions
are prefixed (`StartInit`, `StartNext`) where the registry has one of the same name. The
constructor never looks for an action, so its run takes `Action = {}`.

**SharedVectorBuffer, StateExchange.** A put takes a Boolean for each array: whether
the operating system grants the segment. Segments are numbered; `orphans` is a
history of those whose entry was overwritten. URIs are content hashes, so an array
is identified with its key.

**MemoryStore.** A record's content stands for its embedded text and signature, and
`Sim` for the cosine in the three classes the code distinguishes (identical, at
least `dedup_threshold`, below). Scores are integers in steps of 0.05. `Write` ends
with the commit; `AddToIndex` is the entry in the index; `Stop` is `close` or the
death of the process, also between the two. `Hits` returns any of several equally
close records, as the search may. `harm` is a history of harmful feedback in a row.

**MemoryReuse.** The store of `MemoryStore`, used by `run_task` after `run_task`. `at` is
the next step of the running task: the retriever recalls, the executor acts, the
reviewer rates (`record_feedback`) and writes; the rest of the run is in
`PipelineRun`. `Searched`, `Base` and `Score` are the ranking of `retrieve`: the search
returns the `SearchK` closest records, isolated ones included, and a record beyond
them keeps only its keyword score. `Recalled` is what `_augment_from_memory` puts on
the blackboard: an equal signature offers the answer, any other the solution. `Result`
is the executor: `Fixes` says which strategy repairs which module, and stands for the
substitution and the test in the sandbox; `Compute` are its operations on numbers. A
record that merges keeps its payload. `ReviewerRetried`, `GivenUp`, `Dies` and `Restarts`
are the faults: a write that raises after the feedback is committed, a run that is
aborted, a crash at any step and the next process. `misled` is a history of
the tasks that failed after reusing a record.

**Evaluation.** A file is the set of the experiments whose text it holds: `{}` when it
has been emptied, more than one for a mixture, `None` when it does not exist. `Empty` and
`Fill` are the two halves of `write_text`; between them any process may write, or
die. `Seconds` is what `strftime` may show, so two experiments may or may not share
one. A run of the suite is reduced to what the comparison of repetitions reads: whether
its tasks succeeded and how often they used a memory. A run ends with its last task; a
suite may have none (`TaskCount \in Nat`).

**Sandbox.** `Executor` is `CodeActExecutor.run`; `ChildEnds`, `ChildForks`,
`ScriptSpoils` and `HelperEnds` are the script and the operating system. A helper is in
the child's process group or has left it, and holds the output pipe or not. The removal of
the directory ignores every error, so it may silently fail: over a helper that still
writes there, or over something the script made that cannot be removed, such as a
directory with a file in it that it took the write permission from (`spoiled`). A disk that
fails is left out.

**MessageProtocol.** A message has the fields the formats treat differently. `Hop` is
`from_wire` of `to_wire` in one of two modes. In a structured hop long parameters become
summaries, which compaction leaves alone. A text has the names first, then the parameters
and the result, then the status (`RenderText`), and a reader takes the first statement
about a status for that of the message (`FirstOf`); `Said` gives the statement, if any,
that each value makes. Requests are asked at any moment, after any hops;
`Repeat` and `Compute` are the two branches of the `seen` test.

## The runs

Sizes are distinct states. All passing runs are exhaustive for their bounds.

| Run | States | What it shows | Bounds, and why they are enough |
| --- | --- | --- | --- |
| `pipeline` | 1,417,269 | A run with any failures keeps its accounts, its verdict and what it credits to the memory, ends, and implements the contract | `MaxRetries = 2`: a first, a middle and a last attempt differ; `TopK = 2` for the 3 of the code: none, one and several hits; `MaxDegraded = 2`: two references of one message lost, or one in each of two attempts; all modes |
| `failed_success` | about 32,000 until found | see below | `MaxRetries = 1` |
| `artifacts` | 19,881 | Counts, URIs and contents agree with what clients own, over invalidation and collection | 2 contents, so that one can suffer for the other; `MaxCount = 3`: a third reference, of either URI, after one release |
| `registry` | 8,897 | Discovery finds every registered card | 2 agents and 2 capabilities give every order and overlap; 1 action, since the two indexes are updated by one rule |
| `start` | 27,708 | A constructed orchestrator is fully staffed, and a refusal has the right reason | Teams of up to 3 agents with any cards; 3 stages of which 2 need the same capability |
| `state_exchange` | 35,871 | Plans are complete and labelled truly, and the only leak is the known one | 2 plans and 1 text; 5 segments: a plan can be put twice and lose its second array |
| `memory` | 308,241 | Index, versions, merges and scores over crashes and restarts | 5 contents with every relation the code tells apart; 3 records: a chain of three versions, or two and a stranger; qualities on either side of the floor; feedback on one record, since feedback touches no other |
| `reuse` | 83,911 | Memory changes no result that does not depend on it, misleads at most four times in a row, is not restored by a failure, and a task that needs none recovers | Workloads of 2 to 4 tasks: equal signatures with different results, unrelated operations, strategies that do and do not carry over; `SearchK = TopK = 2` for the 10 and 3 of the code, so that few records already crowd each other out; `MaxRetries = 1`, `MaxFaults = 2`: a retry and a crash in one behaviour; as many records as contents |
| `reuse_same` | about 1,600 until found | see below | as above |
| `sandbox` | 844 | Nothing outlives a run, its directory goes unless the script prevents it, and it comes back | No bound but one helper, which stands for the last one alive |
| `protocol` | 2,963,304 | The core survives every mix of hops, but for a status that a text speaks of; equal requests are computed once and different ones told apart | 2 requests, symmetric: repeats and collisions are between two; 2 long values with one summary, so that a collision is possible; a short and a long value that speak of a status, a long value and a summary that do not; 3 hops over both |
| `evaluation` | 479,546 | A report means complete data, finished results stay, repetitions start alike | 2 experiments, of the same suite or of both, always in the same second (`Seconds = {1}`); one configuration each, with and without memory; `Repeat = 2`, `TaskCount = 2`: a second task that can reuse, a second run that must not; experiments are symmetric |

`MaxRetries` and `TopK` are parameters of the program, as are `Repeat`, `TaskCount` and
`SearchK`. `MaxDegraded`, `MaxCount`, `MaxSegments`, `MaxRecords`, `Rated`, `MaxRelays` and
`MaxFaults` bound the exploration; the theorems hold for all their values.

Deadlock is checked where the component serves for ever (`artifacts`, `registry`,
`state_exchange`, `memory`, `reuse`). It is not checked in the runs whose program ends: a
call of `run_task`, a constructor, a sandbox run, the exchange of a finite number of
messages, and experiments that write their results once.

### What the runs refute

Each of these runs checks one sentence of the repository that the code does not
keep.

- **`failed_success`, `FailedRunIsNotASuccess`.** The reviewer records
  `task_success` (`agents/reviewer.py:39`) before its model call and its memory
  write. If those keep failing, `run_task` returns an error together with
  `success=True`; `src/tests/stability/test_fault_injection.py:20` expects a failing
  agent to give a failed result. `SuccessIsVerified` says what does hold.
- **`reuse_same`, `SameSubproblemIsReused`.** `src/docs/SHARED_MEMORY.md:58` says that an
  executor that finds a `reused_answer` skips the computation and takes it over. The
  retriever offers a record of equal signature by its answer alone
  (`agents/retriever.py:141`), and the executor ignores that for code tasks
  (`agents/codeact_executor.py:103`): a code task that was solved with a reused strategy
  and later meets its own record, of a success, gets neither the answer nor the strategy
  it was stored with, and fails.
  `ReuseIsTransparent` and `Recovers` say what does hold.

## The proofs

Every theorem is about the specification as it is checked, with the constants left
open under the assumptions the modules name. TLC checked the inductive invariants
on the instances of the runs first.

| Module | Assumptions | Argument | Theorems |
| --- | --- | --- | --- |
| `PipelineRun_proofs` | `MaxRetries \in Nat`, `TopK \in Nat` | `IInv` = types, `Control` (where the handler is, whose result `last` is), `Attempts`, `Lifecycle`, `Verdict`; then three invariants relative to it: `Settled`, `Credits`, `Sends`; then a step simulation, and what it carries over from the contract (`ContractInv`); a measure that every step decreases (`Remaining`) | `TypeCorrect`, `ErrorsAreAccounted`, `StagesRunInOrder`\*, `SuccessIsAlwaysVerified`, `VerdictStays`\*, `MemoryIsCredited`, `RetriesAreSilent`\*, `RunKeepsContract`, `OutcomesAreHonest`\*, `RunsAreBounded`\* |
| `ArtifactStore_proofs` | `MaxCount \in Nat` | the four invariants are inductive together; lemmas follow one reference up or down | `TypeCorrect`, `TablesAlwaysAgree`, `CountsTheHolders`, `HeldStaysAvailable`, `CollectSparesTheHeld`\* |
| `Registry_proofs` | `Needed \in Seq(Capability)` | both indexes grow through `Indexed` alone, shown once for one index (`RegistryInv`); the head of an index list is the first member of the team that offers the capability (`IndexInv`); `PhaseInv`, `ResolvedInv` | `TypeCorrect`\*, `CardsStayDiscoverable`, `OnlyRegisteredAreListed`\*, `OrderNeverChanges`\*, `StartTypeCorrect`, `StagesAreAlwaysStaffed`, `AlwaysRaisesForAReason`, `StartUsesTheRegistry`\* |
| `StateExchange_proofs` | `MaxSegments \in Nat`, plans and texts disjoint | a put is shown to keep `Accounted` for one buffer; `Fresh`: segments are numbered as created | `TypeCorrect`, `PlansStayComplete`, `NoOtherLeak`, `LabelStaysTrue` |
| `Memory_proofs` | `Sim` symmetric and reflexive, scores within 0..20; of `MemoryReuse`: every task says contents, computes a value or `None` (`TasksAssumption`), `None` is no value (`ValueAssumption`), the two scores the reviewer writes are qualities (`QualityAssumption`) | `IndexInv`: the index misses exactly the pending record; `HarmInv`: each harmful feedback in a row has cost its penalty; `PayloadInv`, `AnswerInv`, `ReusedInv`, `MisledInv`: what is stored and offered under a signature is right for those who rely on themselves, and a record that misled has paid for it | `TypeCorrect`\*, `IndexAgrees`, `VersionsAlwaysChain`, `ContentsStoredOnce`, `HarmAlwaysIsolates`, `RecordsStay`\*, `ReuseTypeCorrect`, `TasksUseTheStore`\*, `ReuseIsAlwaysTransparent`, `NoneMisleadsForever`, `FailuresRestoreNothing` |
| `Sandbox_proofs` | none | what is known at each place of `run`: `Unspawned`, `Waiting`, `Killed`, `Dead`, `NoneUnlessForked`, `ByAProcess` | `TypeCorrect`, `NothingOutlivesTheRun`, `WorkdirAlwaysRemoved`, `WaitsForHelpersOnly`\* |
| `MessageProtocol_proofs` | the values are distinct, and a statement is about a status there is (`ValuesAssumption`), `MaxRelays \in Nat` | structured hops lose detail only (`Kept`), a first text hop may hear a statement of the message, a later hop nothing more (`Heard`, `Carried`); a recognisable request was answered from the entry of its own fingerprint (`Answered`, `Computed`) | `TypeCorrect`, `CoreAlwaysSurvives`, `ReferencesAreKept`, `AnswersAreOwn`, `RequestsComputedOnce` |
| `Evaluation_proofs` | at least one repetition, any number of tasks, a sequence of configurations for each suite (`SizesAssumption`); `None` is no second and no set of experiments (`NoneAssumption`) | `Named`, `Emptied`, `Untouched`: who has a directory, and what is in those that nobody has; `OwnInv`: which files precede which in a directory of one experiment; `RunsCount`: what a run without errors reuses | `TypeCorrect`, `ReportsMeanComplete`, `FinishedStaysIntact`, `RepetitionsAgree` |

The theorems marked \* state what no run repeats. They are of three kinds.

- Properties that need no run of their own, stated in the proof modules: `StagesInOrder`,
  `VerdictIsStable`, `RetriesSendNothing`, `NeverCollectsHeld`, `IndexesListRegistered`,
  `DiscoveryOrderIsStable`, `RecordsArePermanent`. The type invariants of `MemoryStore` and
  `AgentRegistry` are conjuncts of `ReuseTypeOK` and of `StartTypeOK`.
- Step simulations: whatever tasks do to the store is a step of `MemoryStore` or none
  (`TasksUseTheStore`), and whatever the constructor does to the registry is a step of
  `AgentRegistry` or none (`StartUsesTheRegistry`), so the invariants of the one hold
  under the specification of the other. `OutcomeIsHonest` is carried from
  `PipelineContract` to a run in the same way, through `RunKeepsContract`.
- The part of a liveness property that does not depend on fairness. `RunIsBounded` is that of
  `EveryRunEnds`, `OnlyHelpersBlock` that of `Returns`.

Why the strengthenings are needed, for the arguments that are not routine:

- `SuccessIsVerified` speaks of a run that has returned. What carries it there is
  `Verdict`: between the verification and the reply the recorded success is that of
  the value, and a retried verification records the same again, as nothing but the
  executor writes the value.
- `RetriesSendNothing` says from whom each message came. `Sends` adds that `prev` is
  the agent of the previous stage until the last one is accepted, from which the
  next message of the chain follows; the counts follow from the `pc` alone.
- `AnswersOwnRequest` relates two requests that never meet: only their fingerprints
  do. `Answered` ties each of them to a cache entry under the fingerprint of the
  request as it was *made*, which is where the hops have to be shown harmless
  (`AskedUnderOwnFingerprint`).
- `ReuseIsTransparent` speaks of the running task, and what it reuses was written by
  other tasks. `PayloadInv` carries the right answer from the write of one
  task to the recall of another, through merges, which keep the payload: a record that
  bears the signature of a self-reliant task holds the value that task computes alone.
- `MisledBounded` compares a history with a score. `MisledInv` says that each failure
  has cost 0.2, until the floor hides the record; the case that needs care is a task
  that recalled the record before it fell, or whose reviewer is retried, which debits
  twice for one failure.
- `ReportMeansComplete` speaks of a directory that two writers share at any time: the
  suite and a report command. `OwnInv` holds because a directory that nobody has named
  is empty and of no report command's interest (`Untouched`), so that an experiment that
  is alone in its second finds it so; from there on the report command can start only
  from a complete summary, and that is written only after all raw files. The case that
  needs care is a report command that starts before the suite has reached its own report:
  both write `report.md` then, in any order, and the report may be there before the suite
  gets to it.
- `RepeatsAgree` compares two finished runs, whose stores are gone. `RunsCount` says of
  the running one what it must have reused by now, from the configuration and the
  number of its tasks alone, so that two runs of one configuration end alike.
- `RunIsBounded` is the measure of `EveryRunEnds`: `Remaining` counts the stages still to
  come, the attempts the running one may still make and the operations of its handler.
  It starts at `20 * MaxRetries + 26` and every step that changes anything decreases
  it, so that fairness has nothing to add but that steps are taken.
- `StagesAreStaffed` needs nothing of an index but its head, so `IndexInv` of the
  constructor is about the first listed agent only, and the `Inv` of the registry
  about all of them.

`RunKeepsContract` is the refinement: the initial states map to the initial state of
the contract (`Init`), and every step maps to a step of it or changes nothing
(`StepRefines`), under `IInv` and `Sends`, which says in whose name the final message goes
out.

## Fairness

`PipelineRun` assumes `WF_vars(Next)`: a run is one coroutine and takes some step as
long as it can. This covers model calls, which return or raise; it does not decide
which outcome an operation has, so no retry is assumed to succeed. `EveryRunEnds`
then says that retries and stages are finite.

`Sandbox` assumes `WF_vars(Executor)`: `run` goes on when it can, and its wait ends
with the timeout. Nothing is assumed of the script or its helper, which may
hang; hence the second disjunct of `Returns`: the second `communicate` has no
timeout, and a helper that left the process group and keeps the pipe open can hold
the run for ever.

`MemoryReuse` assumes `WF_allVars(Progress)`: the running task goes on, as its handlers
return or raise (`EveryRunEnds`), and a committed record is added to the index. Nothing
makes a user start a task, and no fault has to happen or to stop other than by
`MaxFaults`. `Recovers` is therefore conditional: if from some moment on only one task is
run, and it succeeds without a memory, then from some moment on it succeeds, whatever
the others have left. The condition is needed: two tasks of one signature with
different results that alternate can fail for ever.

The other modules have no liveness properties and assume no fairness: their
components do something only when they are called.

## What is only model-checked

Liveness: `EveryRunEnds`, `Returns` and `Recovers`. Temporal properties under fairness are
out of the prover's reach, and so is `ENABLED`. What they rest on is proved: `RunsAreBounded`
(a run has no more steps than its retries allow), `WaitsForHelpersOnly` (the only wait without
a timeout is for a helper out of reach) and `NoneMisleadsForever` (a record misleads at most
four times in a row). That the runs and waits do make their next step, and that
`Recovers` follows, is what TLC checks on the instances. Every invariant and the refinement
of the passing runs are stated by a theorem.

## What is not modelled

- **Statistics of the evaluation**: averages, percentiles and confidence intervals in
  floating point, the metrics they are made of, and the layout of the report.
- **Tags in `retrieve`**: the retriever passes none; `reuse_count` and `last_accessed_at`
  decide nothing.
- **Providers**: a service that answers or raises, and an embedding with a similarity.
- **Text substitution of the code strategies**: whether a strategy repairs a module is
  a relation of the instance (`Fixes`). The hash of `task_signature` is taken as injective.
- **Configuration, logging, command line, dashboard, scenarios**: no state of the runtime.
- **Scheduler, API**: empty packages so far.
- Within the modelled components: token counts, latencies, resource samples, wording of
  messages and prompts, sizes and media types. Floating point is replaced by integers
  in the memory scores; at the floor, the code can be one step off (0.7 - 0.2 - 0.2 is
  below 0.3), which hides a record a feedback earlier than the model.
- Two stores on one database file: each has its own index, which never sees the other's
  commits. The repository opens one store per process.

## Peculiarities seen on the way

The models contain the following behaviour, and the properties are worded around it;
no run is spent on any of it.

- An exception in `_propagate` leaves `run_task` (`runtime/orchestrator.py:142`)
  without `on_stop`, `metrics.stop` or the close that the comment at `:164` speaks of
  (`PropagateRaises`).
- `prev_source` moves only when a stage is accepted (`:143`): when the reviewer rejects,
  the final message is sent, and the aborted error named, in the name of the executor.
- The status of a text message is the first `status is '...'` of the text
  (`protocol/mapper.py:31`), and the parameters and the result stand before the status
  line (`protocol/serialization.py:66`): a sentence of theirs is read as the status, and the
  message and its copy are not `semantically_equivalent` (`mapper.py:84`). `CoreSurvives`
  says how far this goes.
- `rmtree(ignore_errors=True)` (`sandbox/executor.py:236`) leaves a directory behind, and
  says nothing, if the script made something in it that cannot be removed.
- Input of `run` that cannot be encoded would make `communicate` raise on either backend and
  leave the process running (`sandbox/executor.py:138`, `:191`). No caller passes any; on
  podman the code itself is the input, which `EncodeFails` models.
- A retried reviewer repeats `record_feedback` and the effective or harmful hit
  (`agents/reviewer.py:73`), so that there can be more effective hits than used ones,
  against the levels of `src/docs/SHARED_MEMORY.md:52`; `MemoryCredit` says what
  remains.
- Invalidating one artifact URI makes every URI of the content unresolvable
  (`artifact_store/store.py:133`; the docstring at `:130` speaks of the reference), and
  releases of URIs that a collection forgot are ignored, so the count of such a
  content can stay too high.
- A re-registered agent stays in the index under the capabilities it lost
  (`registry/registry.py:31`).
- After `StateExchange.invalidate` the URI no longer resolves, while `exists` still
  answers True (`state_exchange/exchange.py:132`).
- A second put under a key forgets the first segment (`state_exchange/shared_buffer.py:37`),
  and `close` unlinks only what it remembers, against the docstring (`:4`). `run_task` does
  put a plan twice. `SegmentsAreAccounted` shows that this is the only leak.
- A failure that duplicates a record is merged before the cap of 0.2 applies
  (`memory/store.py:94`, `:223`), against `src/docs/SHARED_MEMORY.md:39`: the duplicate lifts
  or leaves the score of the record and never lowers it. A success that merges into
  the record of a failure leaves its `failed` flag and its payload (`:220`), so that
  record is never offered.
- Evidence is a dictionary (`memory/signature.py:18`): operands that are given twice or in
  another order give the same signature, and a task can be offered the answer of another one
  (`once` and `twice` in `MCMemoryReuse`). `MisledBounded` and `Recovers` bound the damage.
- `_run_podman` turns every exception into a result (`sandbox/executor.py:197`), so the
  fallback to a subprocess (`:98`) cannot be reached.
- Two experiments of one suite that finish within the same second write into one
  directory and mix their files (`evaluation/runner.py:182`, against the docstring at `:4`);
  `OnItsOwn` in the properties of `Evaluation` excepts them.
- The backend `cgroup` runs as a plain subprocess, without the degraded flag.
- Long parameters without a key have no stable fingerprint: a hop summarises them, a
  repeated request is taken for a new one, and two requests with one summary are taken
  for one. In `run_task` today no message is decoded from the wire
  (`Channel.send` returns the original), so this needs a transport that is still to come.
- The idempotency cache remembers error replies, too.

## Plan

The order in which the system was modelled: the pipeline and its contract, since every
result of the system passes through it; the stores whose reference counts and segments
it relies on; the registry and the start-up; the memory, which survives runs; the
sandbox; the protocol; the reuse of memory across tasks; the evaluation. What is left,
most important first:

1. **ReferenceFlow**: `_propagate` and the retriever composed with `StateExchange` and
   `ArtifactStore`: a reference handed on resolves when it is used, and what one task
   put is released with it.
2. **Ranking in `retrieve`**: a reference definition of the best `top_k`, and how far the
   search of 10 candidates can be from it.
