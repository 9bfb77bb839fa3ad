------------------------ MODULE InvestigationWorkflow ------------------------
(***************************************************************************)
(* The governed investigation workflow of graph/: the LangGraph nodes      *)
(* (nodes.py), the conditional edges (conditions.py, edges.py), the        *)
(* fix-strategy registry (remediation/strategies.py) and the pause for a   *)
(* human before the approval gate (workflow.py).  One behaviour is one     *)
(* investigation: one graph invocation, with its resumptions when the      *)
(* graph was compiled with a checkpointer.                                 *)
(*                                                                         *)
(* What the warehouse holds for the investigated date is data: the         *)
(* statuses seen, which of them carry deductions, which deductions the     *)
(* finance baseline subtracts, and what the pipeline code handles.  It is  *)
(* chosen once, and every node reads it the way the code queries it.       *)
(***************************************************************************)
EXTENDS Naturals, ConsoleOutcome

CONSTANTS
    Statuses,     \* values of the contract's status column
    Base,         \* contract base_handled_statuses
    Known,        \* cached known_values of the status column
    NoneValues,   \* spellings of "NONE", never a deduction
    Worlds,       \* the warehouse contents considered
    MaxAttempts   \* MAX_VALIDATION_ATTEMPTS

\* profile: statuses of the date's rows; refunds: those with a deduction;
\* owed: the deductions in the finance baseline; handled, mapped: literals in
\* the pipeline code and whether one sits on a patchable condition; sound:
\* the schema, null, duplicate and accepted-values tests pass.
World == [profile : SUBSET Statuses, refunds : SUBSET Statuses,
          owed : SUBSET Statuses, handled : SUBSET Statuses,
          mapped : BOOLEAN, sound : BOOLEAN]

ASSUME WorkflowAssumption ==
    /\ Base \subseteq Statuses
    /\ Known \subseteq Statuses
    /\ NoneValues \subseteq Statuses
    /\ Worlds \subseteq World
    /\ MaxAttempts \in Nat

Decisions == {"pending", "approved", "rejected", "needs_revision"}
DataQuality == {"missing_partition", "null_spike", "duplicate",
                "distribution_drift", "volume_drop"}
Anomalies == {"none", "enum_drift", "unknown_issue"} \cup DataQuality
Remediations == {"none", "code_patch", "backfill", "operational", "analysis"}
WriteTools == {"gitlab_create_mr", "airflow_trigger_dag"}
Nodes == {"triage", "diagnostic_tools", "root_cause_reasoner", "claim_verifier",
          "safe_patch_generator", "patch_reviewer", "validation_engine",
          "refine_patch", "trust_scorer", "rca_report_generator",
          "test_docs_generator", "escalate", "human_approval",
          "apply_remediation", "memory_writeback", "END"}

\* Nodes whose body can raise: missing metric or date, an absent contract
\* field or baseline row, an unreadable memory file.
Raising == {"triage", "diagnostic_tools", "safe_patch_generator", "refine_patch",
            "validation_engine", "test_docs_generator", "memory_writeback"}

Summary == [profile : SUBSET Statuses, new : SUBSET Statuses,
            missing : SUBSET Statuses, handled : SUBSET Statuses,
            patchable : BOOLEAN, affected : BOOLEAN]
Patch == [change : {"absent", "none", "replace_block"}, values : SUBSET Statuses]
Validation == [status : {"none", "PASS", "FAIL"}, fix : SUBSET Statuses]

NoSummary == [profile |-> {}, new |-> {}, missing |-> {}, handled |-> {},
              patchable |-> FALSE, affected |-> FALSE]
NoPatch == [change |-> "absent", values |-> {}]

VARIABLES
    world,        \* warehouse and repository content, fixed for the run
    config,       \* how the run was started
    node,         \* the next node of the graph
    failed,       \* the last invocation raised inside `node`
    summary,      \* tool_results_summary
    anomaly,      \* anomaly_type
    critical,     \* claim_verification_result.has_critical_unsupported
    patch,        \* patch
    fix,          \* fix_values
    impact,       \* the fix set impact_analysis was computed for
    attempts,     \* validation_attempts
    validation,   \* validation_result, with the fix set it was run on
    remediation,  \* remediation.kind ("backfill": operational with that action)
    trust,        \* trust_scorer's ready_for_report verdict
    report,       \* rca_report: the final RCA or the escalation finding
    approval,     \* approval_status
    correction,   \* human_correction is present
    decided,      \* a human updated the state while the run was paused
    resumed,      \* the paused run was invoked again
    dispatched,   \* write tools handed to the MCP gateway by this run
    memory        \* memory_writeback_status

diagnosis == <<summary, anomaly, critical>>
proposal == <<patch, fix, impact, attempts, remediation>>
verdict == <<validation, trust, report>>
human == <<approval, correction, decided, resumed>>
effects == <<dispatched, memory>>
vars == <<world, config, node, failed, diagnosis, proposal, verdict, human, effects>>

-----------------------------------------------------------------------------
(* How a run starts: new_state leaves approval pending; callers may preset  *)
(* an approval or a correction, and may compile with a checkpointer and a   *)
(* pause before human_approval.                                             *)

Configs == [interrupt : BOOLEAN, approval : {"pending", "approved"},
            correction : BOOLEAN]

Init ==
    /\ world \in Worlds
    /\ config \in Configs
    /\ node = "triage"
    /\ failed = FALSE
    /\ summary = NoSummary
    /\ anomaly = "none"
    /\ critical = FALSE
    /\ patch = NoPatch
    /\ fix = {}
    /\ impact = {}
    /\ attempts = 0
    /\ validation = [status |-> "none", fix |-> {}]
    /\ remediation = "none"
    /\ trust = "none"
    /\ report = "none"
    /\ approval = config.approval
    /\ correction = config.correction
    /\ decided = FALSE
    /\ resumed = FALSE
    /\ dispatched = {}
    /\ memory = "not_started"

-----------------------------------------------------------------------------
(* What the tools compute from the warehouse.                               *)

\* The two nets agree: what base plus fix deducts is what the baseline deducts
\* (a deduction below the tolerance counts as none, and the amounts of distinct
\* statuses do not cancel out).
Deducted(f) == (Base \cup f) \cap world.refunds
Reconciles(f) == Deducted(f) = world.owed

\* run_validation: every test passes and the reconciliation is closed.
ValidationResult(f) ==
    [status |-> IF world.sound /\ Reconciles(f) THEN "PASS" ELSE "FAIL", fix |-> f]

\* generate_patch: rewrite the mapping condition to the handled and the
\* missing literals, or an empty change when no condition was found.
GeneratePatch(handled, missing, patchable) ==
    IF patchable
    THEN [change |-> "replace_block", values |-> handled \cup missing]
    ELSE [change |-> "none", values |-> {}]

\* The diagnostic summary, from the evidence of the tools that collected.
\* Without code_search every new value counts as missing in the code.
Summarize(collected) ==
    LET profile == IF "sql_profile" \in collected THEN world.profile ELSE {}
        new     == IF "metadata_scan" \in collected THEN profile \ Known ELSE {}
        handled == IF "code_search" \in collected THEN world.handled ELSE {}
    IN  [profile |-> profile, new |-> new, missing |-> new \ handled,
         handled |-> handled,
         patchable |-> "code_search" \in collected /\ world.mapped,
         affected |-> new \cap world.refunds # {}]

\* The first detector to hit.  Enum drift outranks the data-quality checks,
\* whose verdicts on other columns are left open; without a hit the issue is
\* unknown when the request hints at a candidate definition, and none else.
EnumDrift == summary.new # {} /\ summary.missing = summary.new
Classified ==
    IF EnumDrift THEN {"enum_drift"}
    ELSE {a \in Anomalies \ {"enum_drift"} :
            a = "missing_partition" => world.profile = {}}

MutStrategy == [none |-> "none", enum_drift |-> "code_patch", duplicate |-> "code_patch",
                missing_partition |-> "backfill", null_spike |-> "reingest",
                volume_drop |-> "operational", distribution_drift |-> "operational",
                unknown_issue |-> "analysis"]

\* The strategy registry: what kind of remediation each anomaly gets.
Strategy == [none |-> "none", enum_drift |-> "code_patch", duplicate |-> "code_patch",
             missing_partition |-> "backfill", null_spike |-> "operational",
             volume_drop |-> "operational", distribution_drift |-> "operational",
             unknown_issue |-> "analysis"]

-----------------------------------------------------------------------------
(* The conditional edges.                                                   *)

RouteConfidence(found) ==
    IF found = "enum_drift" THEN "claim_verifier" ELSE "escalate"

MutRouteValidationEager(status, n) ==
    IF status = "PASS" THEN "trust_scorer"
    ELSE IF n + 1 < MaxAttempts THEN "refine_patch" ELSE "escalate"

MutRouteValidationLate(status, n) ==
    IF status = "PASS" THEN "trust_scorer"
    ELSE IF n <= MaxAttempts THEN "refine_patch" ELSE "escalate"

\* The reflection gate after the n-th refinement.
RouteValidation(status, n) ==
    IF status = "PASS" THEN "trust_scorer"
    ELSE IF n < MaxAttempts THEN "refine_patch" ELSE "escalate"

MutRouteApproval ==
    IF approval # "rejected" \/ correction THEN "apply_remediation" ELSE "END"
RouteApproval ==
    IF approval = "approved" \/ correction THEN "apply_remediation" ELSE "END"

-----------------------------------------------------------------------------
(* The nodes.  At(n) is the guard common to all: the graph is at n and the  *)
(* invocation is alive.                                                     *)

At(n) == node = n /\ ~failed

\* intent_risk_classifier, memory_rag_retrieval, known_unknown_router and
\* tool_governance: classification and context, with a single way forward
\* (known and unknown issues take the same edge).
Triage ==
    /\ At("triage")
    /\ node' = "diagnostic_tools"
    /\ UNCHANGED <<failed, diagnosis, proposal, verdict, human, effects>>

\* diagnostic_tools: the plan may leave out any tool, and any tool may fail.
DiagnosticTools ==
    /\ At("diagnostic_tools")
    /\ \E collected \in SUBSET {"metadata_scan", "sql_profile", "code_search"} :
          summary' = Summarize(collected)
    /\ node' = "root_cause_reasoner"
    /\ UNCHANGED <<failed, anomaly, critical, proposal, verdict, human, effects>>

RootCauseReasoner ==
    /\ At("root_cause_reasoner")
    /\ anomaly' \in Classified
    /\ node' = RouteConfidence(anomaly')
    /\ UNCHANGED <<failed, summary, critical, proposal, verdict, human, effects>>

\* C1-C3 are about the first new value and about the affected amount; one
\* unsupported claim is critical.
HasCriticalUnsupported(target) == ~(target \in summary.missing /\ summary.affected)

ClaimVerifier ==
    /\ At("claim_verifier")
    /\ \E target \in summary.new : critical' = HasCriticalUnsupported(target)
    /\ node' = "safe_patch_generator"
    /\ UNCHANGED <<failed, summary, anomaly, proposal, verdict, human, effects>>

SafePatchGenerator ==
    /\ At("safe_patch_generator")
    /\ patch' = GeneratePatch(summary.handled, summary.missing, summary.patchable)
    /\ fix' = summary.new
    /\ impact' = summary.new
    /\ remediation' = Strategy[anomaly]
    /\ node' = "patch_reviewer"
    /\ UNCHANGED <<failed, diagnosis, attempts, verdict, human, effects>>

\* patch_reviewer: its verdict is constant (high risk, approval required).
PatchReviewer ==
    /\ At("patch_reviewer")
    /\ node' = "validation_engine"
    /\ UNCHANGED <<failed, diagnosis, proposal, verdict, human, effects>>

\* validation_engine: an empty fix set falls back to the drifted values.
ValidationEngine ==
    /\ At("validation_engine")
    /\ validation' = ValidationResult(IF fix # {} THEN fix ELSE summary.new)
    /\ node' = RouteValidation(validation'.status, attempts)
    /\ UNCHANGED <<failed, diagnosis, proposal, trust, report, human, effects>>

\* refine_patch broadens the fix to every observed status outside the base.
Broadened == {v \in summary.profile : v \notin Base /\ v \notin NoneValues}

RefinedPatch ==
    GeneratePatch(summary.handled, Broadened \ summary.handled, summary.patchable)
Refine(p, n) ==
    /\ At("refine_patch")
    /\ patch' = p
    /\ fix' = Broadened
    /\ impact' = Broadened
    /\ attempts' = n
    /\ node' = "validation_engine"
    /\ UNCHANGED <<failed, diagnosis, remediation, verdict, human, effects>>
MutRefineUncounted == Refine(RefinedPatch, attempts)
MutRefineStalePatch == Refine(patch, attempts + 1)

\* One round of reflection: patch, impact and fix set are regenerated together.
RefinePatch == Refine(RefinedPatch, attempts + 1)

\* Ready unless validation, the claims or the comparison of the simulated with
\* the validated figures object.
ReadyForReport ==
    /\ validation.status = "PASS"
    /\ ~critical
    /\ Deducted(impact) = Deducted(validation.fix)

\* trust_scorer: no edge reads the verdict.
TrustScorer ==
    /\ At("trust_scorer")
    /\ trust' = IF ReadyForReport THEN "ready" ELSE "blocked"
    /\ node' = "rca_report_generator"
    /\ UNCHANGED <<failed, diagnosis, proposal, validation, report, human, effects>>

RcaReportGenerator ==
    /\ At("rca_report_generator")
    /\ report' = "rca"
    /\ node' = "test_docs_generator"
    /\ UNCHANGED <<failed, diagnosis, proposal, validation, trust, human, effects>>

TestDocsGenerator ==
    /\ At("test_docs_generator")
    /\ node' = "human_approval"
    /\ UNCHANGED <<failed, diagnosis, proposal, verdict, human, effects>>

EscalateAs(status) ==
    /\ At("escalate")
    /\ approval' = status
    /\ report' = "escalation"
    /\ remediation' = Strategy[anomaly]
    /\ node' = "human_approval"
    /\ UNCHANGED <<failed, diagnosis, patch, fix, impact, attempts, validation,
                   trust, correction, decided, resumed, effects>>
MutEscalate == EscalateAs(approval)

\* escalate: a finding instead of a fix; whatever approval the run carried is
\* replaced by needs_revision.
Escalate == EscalateAs("needs_revision")

\* human_approval changes nothing: the gate is the edge behind it.
HumanApproval ==
    /\ At("human_approval")
    /\ config.interrupt => resumed
    /\ node' = RouteApproval
    /\ UNCHANGED <<failed, diagnosis, proposal, verdict, human, effects>>

\* The write tool of a remediation; the other kinds dispatch nothing.
ApplyTools ==
    CASE remediation = "code_patch" -> {"gitlab_create_mr"}
      [] remediation = "backfill"   -> {"airflow_trigger_dag"}
      [] OTHER                      -> {}

\* apply_remediation: a failed or timed-out call is recorded, not raised, and
\* the run goes on to memory_writeback either way.
ApplyRemediation ==
    /\ At("apply_remediation")
    /\ dispatched' = dispatched \cup ApplyTools
    /\ node' = "memory_writeback"
    /\ UNCHANGED <<failed, diagnosis, proposal, verdict, human, memory>>

\* memory_writeback, with write_incident's own guard on approval.
MemoryWriteback ==
    /\ At("memory_writeback")
    /\ memory' = IF approval # "approved" /\ ~correction THEN "skipped"
                 ELSE IF correction THEN "learned" ELSE "written"
    /\ node' = "END"
    /\ UNCHANGED <<failed, diagnosis, proposal, verdict, human, dispatched>>

-----------------------------------------------------------------------------
(* Around the graph: a node raises, a checkpointed run is invoked again,    *)
(* a human looks at a paused run.                                           *)

Raise ==
    /\ node \in Raising /\ ~failed
    /\ failed' = TRUE
    /\ UNCHANGED <<node, diagnosis, proposal, verdict, human, effects>>

Retry ==
    /\ config.interrupt /\ failed
    /\ failed' = FALSE
    /\ UNCHANGED <<node, diagnosis, proposal, verdict, human, effects>>

Paused == config.interrupt /\ At("human_approval") /\ ~resumed

\* update_state on the paused thread.
HumanDecides(status, corrects) ==
    /\ Paused
    /\ approval' = status
    /\ correction' = corrects
    /\ decided' = TRUE
    /\ UNCHANGED <<node, failed, diagnosis, proposal, verdict, resumed, effects>>

\* invoke(None) on the paused thread, with or without an update before.
Resume ==
    /\ Paused
    /\ resumed' = TRUE
    /\ UNCHANGED <<node, failed, diagnosis, proposal, verdict, approval,
                   correction, decided, effects>>

NodeStep ==
    \/ Triage \/ DiagnosticTools \/ RootCauseReasoner \/ ClaimVerifier
    \/ SafePatchGenerator \/ PatchReviewer \/ ValidationEngine \/ RefinePatch
    \/ TrustScorer \/ RcaReportGenerator \/ TestDocsGenerator \/ Escalate
    \/ HumanApproval \/ ApplyRemediation \/ MemoryWriteback

Next ==
    /\ \/ NodeStep
       \/ Raise
       \/ Retry
       \/ \E status \in Decisions \ {"pending"}, corrects \in BOOLEAN :
             HumanDecides(status, corrects)
       \/ Resume
    /\ UNCHANGED <<world, config>>

\* The graph runner keeps executing nodes until the run ends, pauses or
\* raises; nobody promises that a human comes or that a failed run is retried.
Spec == Init /\ [][Next]_vars /\ WF_vars(NodeStep /\ UNCHANGED <<world, config>>)
-----------------------------------------------------------------------------
(* Correctness.                                                             *)

\* Every variable holds a value the state schema of graph/state.py allows.
TypeOK ==
    /\ world \in World
    /\ config \in Configs
    /\ node \in Nodes
    /\ failed \in BOOLEAN
    /\ summary \in Summary
    /\ anomaly \in Anomalies
    /\ critical \in BOOLEAN
    /\ patch \in Patch
    /\ fix \in SUBSET Statuses
    /\ impact \in SUBSET Statuses
    /\ attempts \in Nat
    /\ validation \in Validation
    /\ remediation \in Remediations
    /\ trust \in {"none", "ready", "blocked"}
    /\ report \in {"none", "rca", "escalation"}
    /\ approval \in Decisions
    /\ correction \in BOOLEAN
    /\ decided \in BOOLEAN
    /\ resumed \in BOOLEAN
    /\ dispatched \in SUBSET WriteTools
    /\ memory \in {"not_started", "written", "learned", "skipped"}

\* An RCA never carries wrong figures (conditions.py:26-30): when it exists,
\* validation passed, on the very fix set whose impact was simulated, and the
\* patch the reviewer sees covers that fix set, however often reflection
\* regenerated patch, impact and fix set, and although an empty broadened set
\* makes validation fall back to another one.
ProposalSound ==
    report = "rca" =>
        /\ validation.status = "PASS"
        /\ validation.fix = impact
        /\ patch.change = "replace_block" => validation.fix \subseteq patch.values

\* A fixable finding is given up only after the whole reflection budget was
\* spent and the last attempt failed; a failed validation never leads to an RCA
\* (test_reflection.py:66-77).
GiveUpSound ==
    report = "escalation" /\ anomaly = "enum_drift" =>
        /\ attempts = MaxAttempts
        /\ validation.status = "FAIL"

\* An approval given before the evidence existed authorises no escalated
\* finding: a write tool called or a conclusion memorised after an escalation
\* was decided on by a human who saw the finding, or rests on a correction.
EscalationNeedsHuman ==
    report = "escalation" /\ ~correction /\ (dispatched # {} \/ memory # "not_started")
        => decided

\* What a run started by the console (api/server.py: new_state, no pause) can
\* end with: the facts _normalize_agent reads, and no side effect at all.
ConsoleRun == ~config.interrupt /\ config.approval = "pending" /\ ~config.correction
Outcome == [route |-> IF anomaly = "enum_drift" THEN "confident" ELSE "escalate",
            patched |-> patch.change # "absent", approval |-> approval,
            validated |-> validation.status = "PASS"]
OutcomeContract ==
    ConsoleRun /\ node = "END" =>
        /\ Outcome \in ConsoleOutcomes
        /\ dispatched = {} /\ memory = "not_started"

\* The workflow is one governed remediation: nothing is proposed twice, acted
\* on before it is authorised, or learned before it was acted on.
Lifecycle == INSTANCE RemediationLifecycle WITH
    stage <- IF node = "END" THEN "closed"
             ELSE IF node \in {"apply_remediation", "memory_writeback"} THEN "authorised"
             ELSE IF report # "none" THEN "proposed" ELSE "investigating",
    basis <- report,
    authority <- IF correction THEN "correction"
                 ELSE IF approval = "approved" THEN "approval" ELSE "none",
    acted <- dispatched # {},
    learned <- memory \in {"written", "learned"}
ImplementsLifecycle == Lifecycle!Spec

\* The graph comes to rest again and again: it ends, waits for a human or has
\* raised.  The reflection loop cannot keep it busy for ever.
AtRest == node = "END" \/ failed \/ Paused
Settles == []<>AtRest

\* How many nodes are still executed at most: those from here to the end, and two
\* for each round of reflection that is left.
Place == [triage |-> 13, diagnostic_tools |-> 12, root_cause_reasoner |-> 11,
          claim_verifier |-> 10, safe_patch_generator |-> 9, patch_reviewer |-> 8,
          validation_engine |-> 7, refine_patch |-> 6, trust_scorer |-> 6,
          rca_report_generator |-> 5, test_docs_generator |-> 4, escalate |-> 4,
          human_approval |-> 3, apply_remediation |-> 2, memory_writeback |-> 1,
          END |-> 0]
Distance == Place[node] + 2 * (MaxAttempts - attempts)

\* conditions.py:22-36: whatever fails, is retried or decided, every node that is
\* done brings the run nearer to its end, and nothing ever takes it back.
GetsNearer ==
    [][/\ Distance' \in Nat /\ Distance' <= Distance
       /\ node' # node => Distance' < Distance]_vars

\* edges.py:53-54, nodes.py:260: write actions run in the approved branch only.
WriteOnlyIfApproved == dispatched # {} => approval = "approved"

\* trust_scorer.py:1-4: the verdict decides between a final report and a review.
FinalReportOnlyWhenReady == report = "rca" => trust = "ready"
=============================================================================
