# DataOps Twin: TLA+ models, checks and proofs

This directory holds a TLA+ development of the DataOps investigation agent in
this repository: which tools an investigation runs, what it does with their
evidence, what the console does with many investigations at once, what several
processes do to the warehouse and to the long-term memory they share, and which
failures the webhook investigates. The modules
are checked with TLC on small instances, and the most important properties are
proved with TLAPS for every value of the constants. `PROJECT.json` lists the
runs, the mutants that show that each property can fail, the source lines each
definition stands for, the findings and the hazards.

    tlc -workers 2 -config MCInvestigationWorkflow.cfg MCInvestigationWorkflow
    tlc -workers 2 -config MCApprovalConsole.cfg MCApprovalConsole
    tlc -workers 2 -config MCConsoleSerial.cfg MCApprovalConsole
    tlc -workers 2 -config MCPlatform.cfg MCPlatform
    tlc -workers 2 -config MCDiagnosis.cfg MCDiagnosis
    tlapm InvestigationWorkflowProofs.tla
    tlapm DiagnosisProofs.tla
    tlapm ApprovalConsoleProofs.tla
    tlapm SerialConsoleProofs.tla
    tlapm IncidentMemoryProofs.tla
    tlapm WarehouseProofs.tla
    tlapm FailureIntakeProofs.tla
    tlapm PlatformProofs.tla

## 1. Inventory

| Component | State | Operations | What is hard about it |
|---|---|---|---|
| **Investigation workflow** `graph/` | one `InvestigationState` per run; a checkpoint when a checkpointer is given | 18 nodes, 4 conditional edges, pause and resumption | reflection loop; values regenerated together; approvals that come early, late or change; nodes that raise |
| **Validation, patch, trust** `tools/run_validation.py`, `impact_simulation.py`, `generate_patch.py`, `trust_scorer.py`, `governance/claim_policy.py` | none | pure functions of the warehouse and a fix set | the same fix set must reach all of them; empty sets are falsy |
| **Detectors and strategies** `agents/detectors.py`, `root_cause_reasoner.py`, `remediation/strategies.py` | none | first hit wins; strategy per anomaly | missing evidence looks like evidence of drift |
| **Planner and executor** `agents/diagnostic_planner.py`, `orchestration/executor.py`, `planner.py` | evidence list, executed set | plan, execute, derive, at most two follow-up rounds | four sources of plans; proposals that are repeated, out of the catalogue or about something else; evidence that arrives in a later round; tools that fail |
| **Console API** `api/server.py` | `_STORE`: investigations, approvals; `_ASK_SEQ` | open, run, ask, decide, list and poll, overview | handlers run in a thread pool without locks; slow calls between reading and writing the store; ids built from counters and lengths; a restart forgets all of it while merge requests persist |
| **Incident memory** `tools/memory_writeback.py` | one JSON file | `write_incident`, read by the retrieval | whole-file rewrite by several threads and processes, crashes |
| **Warehouse connections** `database/connection.py` | the configured file and a fallback; `_FALLBACK_DB_PATH` per process | `get_connection`, `run_query` | every query probes whether it can write; a glimpse of another one's journal switches the process for good; a probe that fails, for any `OperationalError`, deletes the file under everyone |
| **Gateway and transport** `orchestration/mcp_gateway.py`, `mcp_transport.py` | allow-list, audit log | `call` | a timeout does not undo the effect |
| **Governance** `governance/` | none | allow-list, tiers, SQL and PII filters | pure look-ups |
| **Triggers** `monitoring/triggers.py`, `app/webhook.py` | `_seen` set | open an investigation for a failed DAG run | marked as seen before the work is done; the set is lost in a restart; a workflow that raises |
| **Model router** `model_router/` | provider cache | `resolve`, `call_structured` | answers out of schema, calls that fail, providers that cannot be built |
| **Retrieval, text generation, observability, front ends, data** | caches and logs | | no control depends on them, or only through results the models leave open |

How they interact: the console (and the triggers, the CLI and the tests) invoke
the workflow as a function of a fresh state; the workflow calls the executor
and the tools, which query the warehouse; after a human decision the workflow
(`apply_remediation`) or the console (`_apply_mr`, `_apply_rerun`) calls write
tools through executor, registry and gateway; both end with `write_incident`,
and the retrieval reads that file in the next investigation. The console never
resumes a paused run: its approval loop is a second implementation of the
remediation, with its own state. The console and the webhook are processes of
their own over one warehouse file and one memory file, which nothing locks
beyond SQLite itself.

What makes each component correct:

- *Workflow*: a report carries figures that were validated for exactly the
  proposed fix; giving up comes last; an escalated finding voids any earlier
  approval; nothing is written before it is authorised; the loop ends.
- *Diagnosis*: whatever is proposed, only diagnostic tools run, each call once;
  the drift verdict is about the evidence that is reported with it; there is
  evidence even without a model and with a useless runbook; it ends.
- *Console*: two human approvals per investigation, each before the effects it
  authorises; what is awaited can be reached; a merge gate opens only for a
  real merge; overlapping analyses do not destroy each other's results.
- *Memory*: one record per incident, only authorised conclusions, nothing lost.
- *Warehouse*: the given warehouse is lost only where queries overlap or the file
  system refuses a probe, and figures of another one are read only in a process that
  has left the given file.
- *Intake*: one investigation for all callbacks of a failure, and an answer for
  every callback.
- *All together*: the parts keep all of this while runs go from one to the next,
  and a retrieval is stopped by nothing but trouble at the memory file.

## 2. Modules

| Module | Stands for |
|---|---|
| `InvestigationWorkflow` | `graph/` with the tools its nodes call: one behaviour is one investigation |
| `RemediationLifecycle` | the abstract promise: evidence, one proposal, authority, action, learning |
| `Diagnosis` | `agents/diagnostic_planner.py` with planner, model router and executor: successive investigations of one incident |
| `ConsoleOutcome` | the interface of the two: what a run the console starts can return |
| `ApprovalConsole` | `api/server.py`: store, inbox, overlapping requests, restarts |
| `TwoStageRemediation` | the abstract promise: two approvals, each before its effects |
| `IncidentMemory` | `tools/memory_writeback.py`: the file and its writers |
| `Warehouse` | `database/connection.py`: two files, the processes and their connections |
| `FailureIntake` | `monitoring/triggers.py` with `app/webhook.py`: the callbacks of failed DAG runs |
| `Platform` | the composition: runs of the console and of the webhook over `Warehouse`, `IncidentMemory` and `FailureIntake` |
| `InvestigationWorkflowProofs`, `DiagnosisProofs`, `ApprovalConsoleProofs`, `SerialConsoleProofs`, `IncidentMemoryProofs`, `WarehouseProofs`, `FailureIntakeProofs`, `PlatformProofs` | invariants and theorems |
| `MC...` | constants for TLC |

### InvestigationWorkflow

One action per node (`SafePatchGenerator` is `safe_patch_generator`, and so on);
`node` is the node LangGraph executes next, and each action ends with the choice
of the edge behind its node (`RouteConfidence`, `RouteValidation`,
`RouteApproval`). The four nodes that classify the request and retrieve context
are one action, `Triage`: they have one way forward and set nothing the
properties read. `Raise` lets the nodes whose body can raise do so and ends the
invocation there; `Retry` invokes a checkpointed run again, which executes the
node again. With `config.interrupt` the run pauses before `human_approval`:
`HumanDecides` is `update_state`, `Resume` is `invoke(None)`, in any order and
number.

The warehouse is data: `world` says which statuses the date's rows have, which
carry deductions, which of them the finance baseline subtracts, and what the
pipeline code handles. A value of a contract's status column is a model value.
Amounts are abstracted to "is deducted": two figures agree when the same
statuses are deducted (a deduction below the tolerance of 0.1% counts as none;
different statuses whose amounts cancel out are excluded). Which diagnostic
tools collected evidence is an arbitrary subset, so plans, runbooks and failing
tools are all covered, under the assumption that the tools read what the metric's
contract says. The planner itself does not guarantee it: inputs the model
proposes win over the contract's (`_enrich`; `Call` in `Diagnosis`). Texts, confidences and the language
model's narratives are left out; the route does not depend on them.

### Diagnosis

`phase` says where `run` is: before the model's answer (`ask`), in the first
`execute_plan` of a round (`gather`), in the one of the derived step (`derive`).
`Begin` recalls the runbook, or nothing when the retrieval does not find the
incident; `ModelFails`, `BadAnswer` and `Answer` are what `call_structured` and
`build_plan` can do; `RunStep` runs the first planned step, which may fail;
`Derive` plans the drift check; `NextRound` goes on to the next follow-up;
`Close` remembers the incident with the tools used, with those a correction
suggested, or not at all. A plan is a set of numbered proposals, and `Kept` is
the filter of `_normalize`: catalogue, inputs filled in from the scope, no call
twice. `steps` holds plan and evidence in one: a step is `planned`, then
`collected` or `error`. The inputs of a call are a name for what it reads (the
scope, or something else the model came up with), and what it finds is a set of
enum values. `usable` are the
providers this environment can build; `Provider` is `resolve`, with the fallback
provider and the fallback route's; `failed` remembers whose call raised. The
catalogue's required inputs all follow from the scope, so no
proposal is dropped for them. No planned step has dependencies, is unregistered
or denied, so the executor's branches for these are out of its callers' reach.

### ApprovalConsole

A request is a process with a program counter: `agent`, `replace`, `append` for
an analysis; `mr`, `spawn`/`record` and `dag`, `memory` for an approval; `poll`
for the merge state. Steps end where another thread can get in between with an
effect: at every slow call, and between a test of the store and the write that
relies on it. `objects` is the heap of investigation dictionaries and `list`
holds references, because `_agent_run_store` replaces the object in the list
while `_apply_mr` of another request still writes to the old one. The agent's
result is any of `ConsoleOutcomes`, about the investigation's metric or, since an
answer of the model takes precedence, about another one. GitLab is external:
`mrs` and `MergeMr`; `CreateMr` is the GitLab server's reuse of a branch's open
merge request. Nothing promises one merge request for each investigation: a later run
that detects another metric opens one on another branch, and no property says otherwise. The write tool answers, fails, or times out after it acted. The
end of the second stage runs the agent again and may fail to write the memory.
`AskQuestion` takes a number and `InsertQuestion` builds the id from it, which
two questions may do at once. `Restart` puts the store back to its seeds
(`SeedObjects`, `SeedInbox`) and drops the requests; the merge requests stay. A
seeded investigation that nothing fixes is escalated or running, as `SeedStatus` says.
`Attention` is what the overview shows. `Spec` lets requests overlap as the thread
pool does; `SerialSpec` is the same console under one user who waits for every
answer before the next request.

### IncidentMemory

`write_incident` reads the file, and `write_text` first opens (and empties) it
and then writes. Several writers interleave, each may die at the file, and a
text written over another one's longer text leaves invalid JSON. The two
history variables tell when calls overlapped and what was concluded last.

### Warehouse

`content` is what the configured and the fallback file hold, `hot` which of them
a crash left a journal at, `switched` is `_FALLBACK_DB_PATH` of each process, and
`conn` the connection of each caller: `Choose` is the choice of the file,
`Connect` creates it when it is missing, and `Probe` takes the write lock.
`ProbeFails` can happen to any probe: the lock is not released in five seconds, the
file was deleted under the connection, or the file system refuses to write (a
read-only file or directory, a full disk, an I/O error). The code tells none of them
apart: it deletes the file and then its journal, as far as the file system lets it
(`gone`), and goes on with the fallback, unprobed. `Query` reads figures;
`QueryFails` is a file that cannot be opened or has no tables, or a read that fails.
`Crash` takes a process and its connections. `Seedable` says what the seed script can
have left. Two history variables: `misled` are the callers that read figures of
another warehouse than the given one, and `trouble` tells whether a process died in a
probe (`death`), or queries overlapped or a probe was refused without contention
(`worse`).

### FailureIntake

`seen` is `_seen`; `waiting` are the callbacks that arrived while the event loop
was busy, since the route is a coroutine that never awaits. `Open` marks the key
and starts the workflow, which ends with `Return` or `Raise`; `RefuseUnmapped` is
the `ValueError` of a DAG without a metric, raised before the key is marked.

### Platform

A run retrieves (`Retrieve`, which raises when the memory file is no JSON), makes
its queries (`Ask`, `Query`; none when its plan or runbook holds no tool that queries
the warehouse), and raises or concludes (`NodeRaises`, `Conclude`);
a console run then calls `write_incident` (`Remember`), and so do graph runs that
are resumed after a decision. The webhook's run is the `Return` or `Raise` of its
callback, and its `Restart` is at once the intake's restart and the warehouse's
`Crash`. Each part is an `INSTANCE` of its module over variables of the same
names, so what is checked here are the parts' own properties, under the runs that
really use them, and two that no part has alone.

## 3. Runs

| Run | Question | Result |
|---|---|---|
| `workflow` | do the eight workflow properties hold over every warehouse content, tool failure, exception and human interleaving? | holds, about 760 000 states |
| `workflow_correction` | do write actions run in the approved branch only (`edges.py:53-54`)? | violated: a correction opens it |
| `workflow_blockers` | does the trust verdict decide whether there is a final report (`trust_scorer.py:1`)? | violated: no edge reads it |
| `diagnosis` | do the five invariants of the diagnosis hold, does every step leave less to do and are both investigations concluded, whatever model, router, runbook and tools do? | holds, about 411 000 states |
| `diagnosis_fallback` | does another model take over when one fails (`models.yaml:109`)? | violated: only when it cannot be built |
| `console` | do the eight console properties hold for overlapping requests and a restart? | holds, about 266 000 states |
| `console_serial` | does what overlapping requests break hold for one user who waits for every answer? | four properties hold, about 246 000 states |
| `console_overwrite` | does a lazy analysis keep post-approval states (`server.py:277`)? | violated by a slow analysis |
| `console_dead_end` | does each approval id lead to the investigation's approval (`server.py:79-81`)? | violated: duplicate ids |
| `console_resolve` | does the reconciliation read 0% before resolving (`server.py:807`)? | violated: not looked at |
| `memory` | what do two processes leave in the memory and in the warehouse, through overlaps, restarts and a file system that refuses, and is every callback answered? | nine properties hold, about 934 000 states |
| `memory_lost` | can what was reported as written be retrieved (`server.py:881`)? | violated by two overlapping calls |

**Bounds.** *workflow*: a contract with four statuses, one for each role the code
tells apart (in the base; new; known to the profile but not in the base, so that
only the broadened fix covers it; a spelling of NONE), all 200 combinations of
rows, deductions, baseline, code and test results that a seeded warehouse can
show, and `MaxAttempts = 2` as in `conditions.py:22`. Two rounds are enough: the
second one repeats the first, since the broadened set does not depend on the
round. *diagnosis*: the two tools the drift check needs, one that it does not, a
write tool and the derived check as names that must not be planned; five raw
plans, each for one thing the filter has to tell apart; `MaxFollowups = 1` where
the code has 2 and `MaxRetries = 1` where `models.yaml` has 2: one follow-up already
brings a repeated call, a second profile and a drift check that was not possible
before, and the theorems hold for any number. Two different providers, of which
any may be impossible to build. Two investigations, so that a
runbook learned in the first is recalled in the second. *console*: one seeded investigation and two
questions, two metrics, one restart, and `MaxRequests = 3` accepted requests of
any kind, all of which may overlap: two suffice for every race found, and the
third lets a decision or a poll come between them. Each of `rejected` and
`needs_revision` does the same, so one is enough. *console_serial*: both seeded
investigations, two questions, one metric and one request more, since what does not
overlap has fewer ways to go. The theorems about the console
have none of these bounds. *memory* (`MCPlatform`): two processes with one
approved re-run, one resumed run and the webhook's runs, at most one query per run, two
callbacks about a known or an unknown DAG, one restart, and the warehouse in a
configured file with an older fallback: two callers already overlap in every way a
pair can, a probe that fails leads to the stale data, and the theorems of the
composition hold for any number of callers and for whatever the seed script left.
*memory_lost*
(`MCIncidentMemory`): three writers and two incidents, an overlap of two and a
third that reads what they left; writers and incidents are interchangeable
(symmetry; no liveness is checked there).

**Deadlock** is not checked: a run ends, a paused run may wait for ever, a
bounded console has served its requests, the last investigation is closed, and
Airflow has sent its last callback.

**Fairness.** *workflow*: weak fairness of the graph's own steps, because the
runner executes the next node as long as the run neither ends, pauses nor
raises. Nothing is assumed of the human and of retries. *console*: weak fairness
of what follows the write tool's answer (`RecordMr`), which is local code. No
slow call is assumed to return, since the handshake with an MCP server has no
timeout, and no request is assumed to come. *diagnosis*: weak fairness of its
steps: it is one sequential function, the model SDKs time out by default, and the
diagnostic tools are local queries. *memory*: weak fairness of `Handle`, as the
event loop takes up what arrived, and of the steps of the webhook's own run: queries
are local and SQLite gives up a lock after five seconds, and model calls time out.
Nothing is assumed of the console's and the resumed runs, of `write_incident`, of
Airflow or of restarts. Answered means turned away, or the investigation that the
callback opened has returned or raised; a callback that dies with its process counts
as gone. `MaxCalls` bounds the callbacks, so that no later one can stand in for an
answer to an earlier one for ever.

Each property of a passing run has a mutant of a mapped definition that breaks
it: an unknown remediation kind, a refinement that keeps the old patch or does
not count its round, an eager reflection gate, an escalation that keeps the
approval, a gate that lets anything but a rejection pass, a missing or wrong
look-up in the approval sync, a stage that is ignored, an upsert that appends,
forgets or drops fields, a plan that is not filtered by the catalogue or by what
has run, an empty plan taken for a plan, a drift check derived in the first round
only, one follow-up too many, a retry that starts counting again, an overview of the pending approvals only, an empty
memory taken for a broken one, a configured file that is deleted when it is left, a
journal that outlives its probe, a key that is not marked, a run that raises without
telling the intake, one round of reflection more, a write tool whose missing answer
ends the request, and, for requests one at a time, an analysis whatever the status,
an approval that is not linked, a re-run that is spawned again, and a question put in
another one's place.

## 4. Theorems

Proved by TLAPS for every set of statuses, contract, family of warehouse
contents and reflection budget (`WorkflowAssumption`: the contract's sets are
sets of statuses, the worlds are worlds, the budget is a natural number):

- `TypeCorrect`, `ReportsAreSound` (`ProposalSound`), `GivesUpLast`
  (`GiveUpSound`), `EscalationsWait` (`EscalationNeedsHuman`),
  `ConsoleRunsAreSafe` (`OutcomeContract`);
- `WorkflowImplementsLifecycle`: every step of the graph is a step or a stutter
  of `RemediationLifecycle`;
- `InvestigationsEnd` (`GetsNearer`): each node that is done brings the run nearer to
  its end. `Distance` counts the nodes on the longest way that is left, and two for
  each round of reflection; so with the fairness of the runner nothing but a raising
  node or a pause keeps a run from its end. It is the part of `Settles` that does not
  need fairness, for every reflection budget.

None of the properties is inductive. They speak of the closing nodes, and what
makes them true was established earlier, so the invariant says what each stretch
of the graph has established: `BranchInv` (which nodes the fix branch consists
of, and that it was entered with drifted values), `ReflectionInv` (patch, impact
and fix set move together, and how the attempts count), `GateInv` (what the
reflection gate let through) and `AuthorityInv` (what was authorised at the human
gate). The delicate case is a broadened fix set that is empty: validation then
falls back to the drifted values, which were *not* simulated last. The proof
needs that these values have failed before and must fail again because the
warehouse is the same (lemma `FirstFixStable`), so such a run is never reported.

For every list of seeds and questions, set of metrics, number of requests and of
restarts (`ConsoleAssumption`: ids are distinct and every investigation has a
metric; what is seeded as not fixable is escalated or running; and, as
`_seed_approvals` makes one approval for each, no investigation is seeded twice as
fixable):

- `ApprovalConsoleProofs!TypeCorrect`, `AwaitedIsOffered` (`AwaitingHasRerun`),
  `GatesOpenForMerges` (`MergedIsReal`), `NobodyForgets` (`NothingForgotten`);
- `FixablesAreOffered` (`FixableHasApproval`): whenever no request is under way, what
  the list holds as found fixable by a run of the agent has an approval. It says nothing
  of seeded records nobody has opened, nor of the time while requests are under way;
- `ReRunsAreOffered` (`OfferedOrUnderway`): whatever the write tool answered, the re-run
  of a fix is offered once its merge request was asked for, or the very next step of the
  request that asked offers it, which is what `MrLeadsToOffer` is fair to;
- `ConsoleImplementsTwoStage`: every step, a restart included, is a step or a
  stutter of `TwoStageRemediation`.

The requests hold positions and references over slow calls, so the argument has
two halves. Within a life of the process the store only grows (`Grow`): no object,
approval or merge request ever goes, an approval keeps its id, its investigation
and its stage, and a merge is final; a look-up of the first match (`Lowest`, with
a least element because the library shows `<` on the naturals well-founded)
that found something goes on finding one. And every request carries what its next
step relies on (`GoodRequest`): one in `mr` belongs to an approved fix, one in
`spawn` or `record` to an investigation whose merge request was asked for, one in
`record` to one that has its re-run approval, one in `dag` to an approved re-run,
and a poll asks about a merge request of its approval's investigation.
`GoodObject` and `GoodApproval` say the same of what is stored, and `CoverInv`
that every investigation of the list the agent found fixable has an approval or
is about to get one. A restart is handled apart: it ends in a fresh store
(`Fresh`), which satisfies all of it. Nothing is assumed of the merge requests that
outlive it.

For the same constants, and requests that do not overlap (`SerialSpec`):

- `SerialConsoleProofs!NoDeadEndsAlone` (`NoDeadEnd`), `ApprovalsStayApart`
  (`ApprovalsApart`), `LazyAnalysisKeeps` (`PostApprovalKept`),
  `NobodyLeavesTheList` (`NobodyVanishes`).

All four fail when requests overlap (`console_overwrite` and `console_dead_end` show
two of the ways), so these theorems locate the cause: it is the overlap alone, and a
lock around a request, or handlers that run one after the other, would do. The other finding about the console, `ResolvedAtZero`, does not depend on overlap, and
neither does `ProposedFixVerified`: an escalated run keeps its patch, so a fix whose
validation failed is offered too. Only the label of an approval (`server.py:119`) says
otherwise, so it is not among the runs; `MCConsoleUnverified.cfg` shows it. The invariant `SerialInv` adds to the one above that one request is
under way at most (`Alone`) and that what it found still holds at the step that relies
on it (`HeldInv`): the position is that of the object's own investigation, the object
that is replaced has the status it had when it was opened, the id that was chosen is
the next one, and there is no re-run yet. The store side is that an investigation has
one place (`ListedOnce`), that numbered ids are below the next number
(`NumbersBelow`), that a number of a question is used once (`MetInv`: whom the store
is about, with the question under way left out), and the link from an investigation to
its approvals (`LinkInv`). `LinkInv` is not inductive without `MetInv`: a question whose
investigation was already there would come without a link.

For every set of writers and incidents:

- `IncidentMemoryProofs!TypeCorrect`, `RecordsAreUnique` (`OneRecordPerIncident`),
  `RecordsAreAuthorised` (`OnlyAuthorised`), `SerialCallsKeepEverything`
  (`SerialMemory`). The invariant adds that every copy a call holds is as good
  as the file, and that without overlap and loss at most one call is at the
  file, with a copy that holds every latest conclusion.

For every catalogue, fixed plan, set of proposals, evidence, number of follow-up
rounds and of retries (`DiagnosisAssumption`: the catalogue is finite and does
not hold the drift check, the fixed plan has an order, proposed plans are finite
lists):

- `DiagnosisProofs!TypeCorrect`, `NothingRunsTwice` (`NoStepTwice`),
  `OnlyDiagnosticsRun` (`OnlyDiagnostics`), `VerdictIsAboutSummary`
  (`VerdictFitsEvidence`), `FirstPlanHasOneSource` (`FirstPlan`);
- `DiagnosesEnd` (`WorksOff`): every step of a diagnosis works off something that is
  bounded: a round, a phase of the round, an attempt at an answer, or a planned step of
  a finite plan, in this order. It is the part of `Concludes` that does not need fairness.

The heart is `VerdictInv`: from its derivation on, every drift step is the one
of the *current* first profile and baseline. It is inductive only together with
`OrderInv` (planned steps have the highest numbers, so a later item never
becomes the first one, lemma `FirstStays`) and `PhaseInv` (while the drift step
runs nothing else is planned, so no evidence appears after the derivation
looked). `Ranks` shows that the numbers given out for a plan are distinct,
`FirstProposalKept` that the filter keeps one proposal of each call, so that a
runbook is run in full.

For every set of callers and processes:

- `WarehouseProofs!TypeCorrect`, `GivenIsKept` (`WarehouseKept`),
  `LeavesForAReason` (`FallbackForAReason`). The invariant has a part for each degree
  of trouble. Without any, nobody has left a journal or switched away from a
  configured file (`QuietInv`). While queries neither overlap nor are refused, at
  most one caller has a connection, to a file that is still there, and the given
  contents are kept (`LoneInv`): so a process that dies in its probe costs the
  others their place at the configured file, but not the file. And through
  everything the configured file never holds anything new, and who is connected to the
  fallback belongs to a process that switched (`LeftInv`).

For every set of failures:

- `FailureIntakeProofs!TypeCorrect` and `FailuresOpenOnce`: a marked key is under
  investigation, or its investigation returned or raised, and only one of the three
  (`FateInv`).

For every composition of console runs, resumed runs and a webhook
(`HookApart`, `KeysAreKeys`, `QueriesAreMany`):

- `PlatformProofs!TypeCorrect`, `GivenIsKept` (`WarehouseKept`), `LeavesForAReason`
  (`FallbackForAReason`), `RecordsAreUnique` (`OneRecordPerIncident`),
  `RecordsAreAuthorised` (`OnlyAuthorised`), `SerialCallsKeepEverything`
  (`SerialMemory`), `FailuresOpenOnce` (`OneInvestigationEach`);
- `RetrievalsWork` (`RetrievalWorks`), which no part has alone.

One lemma for each part (`WarehouseSteps`, `MemorySteps`, `IntakeSteps`) shows that a
composed step is one of the part's or leaves it alone, and so the parts' invariants hold
by their own step lemmas, instantiated. `RetrievalsWork` needs what links the
memory and the runs: without overlap and loss a file that is no JSON has a writer at
it (the memory's `BrokenInv`), which a retrieval would have noticed (`ReadInv`).
No proof here uses the fairness of `Spec`.

Only model-checked: `Settles`, `Concludes`, `MrLeadsToOffer` and
`CallbacksAnswered` (liveness under fairness is out of the prover's reach): for the
first three, what remains for TLC is that the fairness of `Spec` turns the proved
`GetsNearer`, `WorksOff` and `OfferedOrUnderway` into an end.

## 5. What is not modelled, and why

- Amounts, texts, SQL, PII masking and prompts: data the properties do not tell
  apart. The data-quality detectors' verdicts are left open, so the models
  contain every verdict they could give.
- The executor's dependencies, which no caller uses; the gateway's allow-list and
  audit log.
- What another caller of the model router than the planner gets: its nodes may
  raise, and what they are told are texts.
- The webhook's and the console's restart in one model: `ApprovalConsole` restarts
  the console, `Platform` the webhook. The memory calls of a dying console are
  `Lose`.
- A fallback that cannot be opened after a refused probe: the query ends in an error
  in the code at once, in the model by `QueryFails`.
- Configured or fallback files that are no databases.
- Seeding a warehouse while it is queried, and the configuration with
  `DATABASE_PATH`, which has neither probe nor fallback.
- `api/server.py` has many read-only endpoints (logs, run-check, lineage,
  catalog, settings); they change no state of the loop.
- Governance look-ups, the job incident agent, retrieval ranking, observability,
  front ends, deployment: no control depends on them beyond results the models
  leave open.

## 6. Plan

1. Done: workflow, its abstract lifecycle and proofs; diagnosis with the router and
   its proofs; console with restarts, its abstract protocol and proofs, with and without
   overlapping requests; memory,
   warehouse and failure intake, their composition, and the proofs of each.
2. Composition of diagnosis and workflow: the evidence of `Diagnosis` as the
   summary that `Summarize` starts from, with the assumption about the inputs
   made explicit.
3. The data-quality detectors' verdicts, open so far, as functions of the evidence.
4. The executor's dependencies and the gateway's allow-list, once a caller uses
   them.
