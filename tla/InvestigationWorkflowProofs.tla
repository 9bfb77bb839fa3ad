--------------------- MODULE InvestigationWorkflowProofs ---------------------
(***************************************************************************)
(* Machine-checked proofs about the investigation workflow, for every set  *)
(* of statuses, every warehouse content and every reflection budget.       *)
(***************************************************************************)
EXTENDS InvestigationWorkflow, TLAPS

-----------------------------------------------------------------------------
(* What the tools return.                                                   *)

LEMMA SummaryType ==
    ASSUME world \in World, NEW collected
    PROVE  Summarize(collected) \in Summary
  BY DEF World, Summarize, Summary

LEMMA PatchType ==
    ASSUME NEW handled \in SUBSET Statuses, NEW missing \in SUBSET Statuses,
           NEW patchable
    PROVE  GeneratePatch(handled, missing, patchable) \in Patch
  BY DEF GeneratePatch, Patch

\* A generated patch that changes code handles what was missing and keeps
\* what was handled.
LEMMA PatchCovers ==
    ASSUME NEW handled, NEW missing, NEW patchable,
           GeneratePatch(handled, missing, patchable).change = "replace_block"
    PROVE  GeneratePatch(handled, missing, patchable).values = handled \cup missing
  BY DEF GeneratePatch

\* generate_patch always returns a patch.
LEMMA PatchPresent ==
    ASSUME NEW handled, NEW missing, NEW patchable
    PROVE  GeneratePatch(handled, missing, patchable).change # "absent"
  BY DEF GeneratePatch

LEMMA ValidationType ==
    ASSUME NEW f \in SUBSET Statuses
    PROVE  /\ ValidationResult(f) \in Validation
           /\ ValidationResult(f).fix = f
           /\ ValidationResult(f).status \in {"PASS", "FAIL"}
  BY DEF ValidationResult, Validation

LEMMA StrategyType == ASSUME NEW a \in Anomalies PROVE Strategy[a] \in Remediations
  BY DEF Strategy, Anomalies, DataQuality, Remediations

-----------------------------------------------------------------------------
(* Type correctness.                                                        *)

LEMMA InitType == Init => TypeOK
  <1> SUFFICES ASSUME Init PROVE TypeOK
    OBVIOUS
  <1>1. world \in World /\ config \in Configs
    BY WorkflowAssumption DEF Init
  <1>2. approval \in Decisions /\ correction \in BOOLEAN
    BY <1>1 DEF Init, Configs, Decisions
  <1>3. summary \in Summary
    BY DEF Init, NoSummary, Summary
  <1>4. patch \in Patch /\ validation \in Validation
    BY DEF Init, NoPatch, Patch, Validation
  <1>5. node \in Nodes /\ anomaly \in Anomalies /\ remediation \in Remediations
    BY DEF Init, Nodes, Anomalies, Remediations
  <1> QED
    BY <1>1, <1>2, <1>3, <1>4, <1>5 DEF Init, TypeOK

LEMMA StepType == TypeOK /\ [Next]_vars => TypeOK'
  <1> SUFFICES ASSUME TypeOK, [Next]_vars PROVE TypeOK'
    OBVIOUS
  <1> USE DEF diagnosis, proposal, verdict, human, effects
  <1>1. CASE UNCHANGED vars
    BY <1>1 DEF TypeOK, vars
  <1>2. CASE Next
    <2>0. world' = world /\ config' = config
      BY <1>2 DEF Next
    <2>1. CASE Triage
      BY <2>0, <2>1 DEF TypeOK, Triage, Nodes
    <2>2. CASE DiagnosticTools
      <3>1. summary' \in Summary
        BY <2>2, SummaryType DEF TypeOK, DiagnosticTools
      <3> QED
        BY <2>0, <2>2, <3>1 DEF TypeOK, DiagnosticTools, Nodes
    <2>3. CASE RootCauseReasoner
      <3>1. anomaly' \in Anomalies
        BY <2>3 DEF RootCauseReasoner, Classified, Anomalies, DataQuality
      <3>2. node' \in Nodes
        BY <2>3 DEF RootCauseReasoner, RouteConfidence, Nodes
      <3> QED
        BY <2>0, <2>3, <3>1, <3>2 DEF TypeOK, RootCauseReasoner
    <2>4. CASE ClaimVerifier
      BY <2>0, <2>4 DEF TypeOK, ClaimVerifier, HasCriticalUnsupported, Nodes
    <2>5. CASE SafePatchGenerator
      <3>1. summary.handled \in SUBSET Statuses /\ summary.missing \in SUBSET Statuses
                /\ summary.new \in SUBSET Statuses
        BY DEF TypeOK, Summary
      <3>2. patch' \in Patch
        BY <2>5, <3>1, PatchType DEF SafePatchGenerator
      <3>3. remediation' \in Remediations
        BY <2>5, StrategyType DEF SafePatchGenerator, TypeOK
      <3> QED
        BY <2>0, <2>5, <3>1, <3>2, <3>3 DEF TypeOK, SafePatchGenerator, Nodes
    <2>6. CASE PatchReviewer
      BY <2>0, <2>6 DEF TypeOK, PatchReviewer, Nodes
    <2>7. CASE ValidationEngine
      <3>1. (IF fix # {} THEN fix ELSE summary.new) \in SUBSET Statuses
        BY DEF TypeOK, Summary
      <3>2. validation' \in Validation
        BY <2>7, <3>1, ValidationType DEF ValidationEngine
      <3>3. node' \in Nodes
        BY <2>7 DEF ValidationEngine, RouteValidation, Nodes
      <3> QED
        BY <2>0, <2>7, <3>2, <3>3 DEF TypeOK, ValidationEngine
    <2>8. CASE RefinePatch
      <3>1. Broadened \in SUBSET Statuses /\ summary.handled \in SUBSET Statuses
        BY DEF TypeOK, Summary, Broadened
      <3>2. patch' \in Patch
        BY <2>8, <3>1, PatchType DEF RefinePatch, Refine, RefinedPatch
      <3>3. attempts' \in Nat
        BY <2>8 DEF RefinePatch, Refine, TypeOK
      <3> QED
        BY <2>0, <2>8, <3>1, <3>2, <3>3 DEF TypeOK, RefinePatch, Refine, Nodes
    <2>9. CASE TrustScorer
      BY <2>0, <2>9 DEF TypeOK, TrustScorer, Nodes
    <2>10. CASE RcaReportGenerator
      BY <2>0, <2>10 DEF TypeOK, RcaReportGenerator, Nodes
    <2>11. CASE TestDocsGenerator
      BY <2>0, <2>11 DEF TypeOK, TestDocsGenerator, Nodes
    <2>12. CASE Escalate
      <3>1. remediation' \in Remediations
        BY <2>12, StrategyType DEF Escalate, EscalateAs, TypeOK
      <3> QED
        BY <2>0, <2>12, <3>1 DEF TypeOK, Escalate, EscalateAs, Nodes, Decisions
    <2>13. CASE HumanApproval
      BY <2>0, <2>13 DEF TypeOK, HumanApproval, RouteApproval, Nodes
    <2>14. CASE ApplyRemediation
      <3>1. ApplyTools \in SUBSET WriteTools
        BY DEF ApplyTools, WriteTools
      <3> QED
        BY <2>0, <2>14, <3>1 DEF TypeOK, ApplyRemediation, Nodes
    <2>15. CASE MemoryWriteback
      BY <2>0, <2>15 DEF TypeOK, MemoryWriteback, Nodes
    <2>16. CASE Raise
      BY <2>0, <2>16 DEF TypeOK, Raise
    <2>17. CASE Retry
      BY <2>0, <2>17 DEF TypeOK, Retry
    <2>18. CASE \E status \in Decisions \ {"pending"}, corrects \in BOOLEAN :
                   HumanDecides(status, corrects)
      BY <2>0, <2>18 DEF TypeOK, HumanDecides
    <2>19. CASE Resume
      BY <2>0, <2>19 DEF TypeOK, Resume
    <2> QED
      BY <1>2, <2>1, <2>2, <2>3, <2>4, <2>5, <2>6, <2>7, <2>8, <2>9, <2>10, <2>11,
         <2>12, <2>13, <2>14, <2>15, <2>16, <2>17, <2>18, <2>19 DEF Next, NodeStep
  <1> QED
    BY <1>1, <1>2

\* In every reachable state every variable of the workflow has a value the
\* state schema of graph/state.py allows.
THEOREM TypeCorrect == Spec => []TypeOK
  BY InitType, StepType, PTL DEF Spec

-----------------------------------------------------------------------------
(* The inductive invariant.  The properties say nothing of the nodes before *)
(* a report exists; these parts say what each stretch of the graph has      *)
(* established when it is reached.                                          *)

Diagnosing == {"triage", "diagnostic_tools", "root_cause_reasoner"}
Reflecting == {"patch_reviewer", "validation_engine", "refine_patch"}
Reporting == {"trust_scorer", "rca_report_generator"}
Closing == {"test_docs_generator", "human_approval", "apply_remediation",
            "memory_writeback", "END"}
Fixable == anomaly = "enum_drift"

\* The fix branch is entered with drifted values, all of them missing in the
\* code, and a report exists exactly in the closing part of the graph.
BranchInv ==
    /\ node \in Diagnosing => anomaly = "none"
    /\ node \in {"claim_verifier", "safe_patch_generator"} \cup Reflecting \cup Reporting
         => Fixable
    /\ node = "test_docs_generator" => report = "rca"
    /\ report = "rca" => Fixable
    /\ report # "none" <=> node \in Closing
    /\ Fixable => summary.new # {} /\ summary.missing = summary.new

\* Patch, impact and fix set move together.  A fix set regenerated by
\* reflection may be empty, and validation then falls back to the drifted
\* values; those have already failed, and the warehouse does not change.
FirstFixFails == ValidationResult(summary.new).status = "FAIL"
Proposed == Fixable /\ node \notin {"claim_verifier", "safe_patch_generator"}
ReflectionInv ==
    /\ Proposed <=> patch.change # "absent"
    /\ Proposed =>
         /\ impact = fix
         /\ patch.change = "replace_block" => fix \subseteq patch.values
         /\ attempts = 0 => fix = summary.new
         /\ attempts > 0 => FirstFixFails
         /\ attempts <= MaxAttempts
    /\ ~Proposed => attempts = 0 /\ validation.status = "none"
    /\ node = "refine_patch" =>
         /\ attempts < MaxAttempts
         /\ attempts = 0 => FirstFixFails

\* What the reflection gate lets through, either way.
GateInv ==
    /\ node \in Reporting \/ report = "rca" =>
         validation.status = "PASS" /\ validation.fix = fix
    /\ (node = "escalate" \/ report = "escalation") /\ Fixable =>
         validation.status = "FAIL" /\ attempts = MaxAttempts

\* Nothing has an effect before the human gate, and what happens behind it
\* was authorised at the gate.
AuthorityInv ==
    /\ dispatched # {} => node \in {"memory_writeback", "END"}
    /\ memory # "not_started" => node = "END"
    /\ node \in {"apply_remediation", "memory_writeback"}
         \/ dispatched # {} \/ memory # "not_started"
         => approval = "approved" \/ correction
    /\ report = "escalation" => approval = "needs_revision" \/ decided
    /\ ~config.interrupt =>
         /\ ~decided
         /\ correction = config.correction
         /\ approval = IF report = "escalation" THEN "needs_revision" ELSE config.approval

IInv == TypeOK /\ BranchInv /\ ReflectionInv /\ GateInv /\ AuthorityInv

LEMMA InitInv == Init => IInv
  <1> SUFFICES ASSUME Init PROVE IInv
    OBVIOUS
  <1>1. TypeOK
    BY InitType
  <1>2. BranchInv
    BY DEF Init, BranchInv, Diagnosing, Reflecting, Reporting, Closing, Fixable
  <1>3. ReflectionInv
    BY DEF Init, ReflectionInv, Proposed, Fixable, NoPatch
  <1>4. GateInv
    BY DEF Init, GateInv, Reporting
  <1>5. AuthorityInv
    BY DEF Init, AuthorityInv
  <1> QED
    BY <1>1, <1>2, <1>3, <1>4, <1>5 DEF IInv

\* Whether the drifted values alone reconcile depends on nothing that changes
\* after the diagnosis.
LEMMA FirstFixStable ==
    UNCHANGED <<world, summary>> => (FirstFixFails' <=> FirstFixFails)
  BY DEF FirstFixFails, ValidationResult, Reconciles, Deducted

LEMMA StepInv == IInv /\ [Next]_vars => IInv'
  <1> SUFFICES ASSUME IInv, [Next]_vars PROVE IInv'
    OBVIOUS
  <1>0. TypeOK' /\ TypeOK
    BY StepType DEF IInv
  <1> USE DEF diagnosis, proposal, verdict, human, effects,
              Diagnosing, Reflecting, Reporting, Closing, Fixable, Proposed
  <1> DEFINE Rest == BranchInv /\ ReflectionInv /\ GateInv /\ AuthorityInv
  <1>b. Rest
    BY DEF IInv
  <1> SUFFICES Rest'
    BY <1>0 DEF IInv
  <1>a. ASSUME UNCHANGED <<world, summary>> PROVE FirstFixFails' <=> FirstFixFails
    BY <1>a, FirstFixStable
  <1>1. CASE UNCHANGED vars
    BY <1>b, <1>1, <1>a DEF vars, BranchInv, ReflectionInv, GateInv, AuthorityInv
  <1>2. CASE Next
    <2>0. world' = world /\ config' = config
      BY <1>2 DEF Next
    <2>1. CASE Triage
      <3>1. BranchInv'
        BY <1>b, <2>0, <2>1 DEF Triage, At, BranchInv
      <3>2. ReflectionInv'
        BY <1>b, <1>a, <2>0, <2>1 DEF Triage, At, BranchInv, ReflectionInv
      <3>3. GateInv'
        BY <1>b, <2>0, <2>1 DEF Triage, At, BranchInv, GateInv
      <3>4. AuthorityInv'
        BY <1>b, <2>0, <2>1 DEF Triage, At, BranchInv, AuthorityInv
      <3> QED
        BY <3>1, <3>2, <3>3, <3>4
    <2>2. CASE DiagnosticTools
      <3>1. BranchInv'
        BY <1>b, <2>0, <2>2 DEF DiagnosticTools, At, BranchInv
      <3>2. ReflectionInv'
        BY <1>b, <1>a, <2>0, <2>2 DEF DiagnosticTools, At, BranchInv,
           ReflectionInv
      <3>3. GateInv'
        BY <1>b, <2>0, <2>2 DEF DiagnosticTools, At, BranchInv, GateInv
      <3>4. AuthorityInv'
        BY <1>b, <2>0, <2>2 DEF DiagnosticTools, At, BranchInv, AuthorityInv
      <3> QED
        BY <3>1, <3>2, <3>3, <3>4
    <2>3. CASE RootCauseReasoner
      <3>1. BranchInv'
        BY <1>b, <2>0, <2>3 DEF RootCauseReasoner, Classified, EnumDrift,
           RouteConfidence, DataQuality, At, BranchInv
      <3>2. ReflectionInv'
        BY <1>b, <1>a, <2>0, <2>3 DEF RootCauseReasoner, Classified,
           EnumDrift, RouteConfidence, DataQuality, At, BranchInv, ReflectionInv
      <3>3. GateInv'
        BY <1>b, <2>0, <2>3 DEF RootCauseReasoner, Classified, EnumDrift,
           RouteConfidence, DataQuality, At, BranchInv, GateInv
      <3>4. AuthorityInv'
        BY <1>b, <2>0, <2>3 DEF RootCauseReasoner, Classified, EnumDrift,
           RouteConfidence, DataQuality, At, BranchInv, AuthorityInv
      <3> QED
        BY <3>1, <3>2, <3>3, <3>4
    <2>4. CASE ClaimVerifier
      <3>1. BranchInv'
        BY <1>b, <2>0, <2>4 DEF ClaimVerifier, At, BranchInv
      <3>2. ReflectionInv'
        BY <1>b, <1>a, <2>0, <2>4 DEF ClaimVerifier, At, BranchInv,
           ReflectionInv
      <3>3. GateInv'
        BY <1>b, <2>0, <2>4 DEF ClaimVerifier, At, BranchInv, GateInv
      <3>4. AuthorityInv'
        BY <1>b, <2>0, <2>4 DEF ClaimVerifier, At, BranchInv, AuthorityInv
      <3> QED
        BY <3>1, <3>2, <3>3, <3>4
    <2>5. CASE SafePatchGenerator
      <3>1. BranchInv'
        BY <1>b, <2>0, <2>5 DEF SafePatchGenerator, At, BranchInv
      <3>2. ReflectionInv'
        <4>1. Fixable /\ summary.missing = summary.new /\ attempts = 0
          BY <1>b, <2>5 DEF SafePatchGenerator, At, BranchInv, ReflectionInv
        <4>2. patch'.change # "absent"
          BY <2>5, PatchPresent DEF SafePatchGenerator
        <4>3. patch'.change = "replace_block" =>
                patch'.values = summary.handled \cup summary.missing
          BY <2>5, PatchCovers DEF SafePatchGenerator
        <4> QED
          BY <2>5, <4>1, <4>2, <4>3, WorkflowAssumption
             DEF SafePatchGenerator, ReflectionInv
      <3>3. GateInv'
        BY <1>b, <2>0, <2>5 DEF SafePatchGenerator, At, BranchInv, GateInv
      <3>4. AuthorityInv'
        BY <1>b, <2>0, <2>5 DEF SafePatchGenerator, At, BranchInv,
           AuthorityInv
      <3> QED
        BY <3>1, <3>2, <3>3, <3>4
    <2>6. CASE PatchReviewer
      <3>1. BranchInv'
        BY <1>b, <2>0, <2>6 DEF PatchReviewer, At, BranchInv
      <3>2. ReflectionInv'
        BY <1>b, <1>a, <2>0, <2>6 DEF PatchReviewer, At, BranchInv,
           ReflectionInv
      <3>3. GateInv'
        BY <1>b, <2>0, <2>6 DEF PatchReviewer, At, BranchInv, GateInv
      <3>4. AuthorityInv'
        BY <1>b, <2>0, <2>6 DEF PatchReviewer, At, BranchInv, AuthorityInv
      <3> QED
        BY <3>1, <3>2, <3>3, <3>4
    <2>7. CASE ValidationEngine
      <3>1. BranchInv'
        BY <1>b, <2>0, <2>7 DEF ValidationEngine, RouteValidation, At,
           BranchInv
      <3>2. ReflectionInv'
        <4>1. CASE node' = "refine_patch"
          <5>1. validation'.status # "PASS" /\ attempts < MaxAttempts
            BY <2>7, <4>1 DEF ValidationEngine, RouteValidation
          <5>2. ASSUME attempts = 0 PROVE FirstFixFails
            <6>1. validation' = ValidationResult(summary.new)
              BY <1>b, <2>7, <5>2 DEF ValidationEngine, At, BranchInv, ReflectionInv
            <6>2. summary.new \in SUBSET Statuses
              BY <1>0 DEF TypeOK, Summary
            <6> QED
              BY <5>1, <6>1, <6>2, ValidationType DEF FirstFixFails
          <5> QED
            BY <1>a, <1>b, <2>0, <2>7, <4>1, <5>1, <5>2
               DEF ValidationEngine, At, BranchInv, ReflectionInv
        <4>2. CASE node' # "refine_patch"
          <5>1. node' \notin {"claim_verifier", "safe_patch_generator"}
            BY <2>7 DEF ValidationEngine, RouteValidation
          <5> QED
            BY <1>a, <1>b, <2>0, <2>7, <4>2, <5>1
               DEF ValidationEngine, At, BranchInv, ReflectionInv
        <4> QED
          BY <4>1, <4>2
      <3>3. GateInv'
        <4> DEFINE f == IF fix # {} THEN fix ELSE summary.new
        <4>1. f \in SUBSET Statuses /\ summary.new \in SUBSET Statuses
          BY <1>0 DEF TypeOK, Summary
        <4>2. validation' = ValidationResult(f)
          BY <2>7 DEF ValidationEngine
        <4>3. /\ validation'.status \in {"PASS", "FAIL"}
              /\ validation'.fix = f
          BY <4>1, <4>2, ValidationType
        <4>4. report = "none" /\ report' = report /\ fix' = fix /\ attempts' = attempts
          BY <1>b, <2>7 DEF ValidationEngine, At, BranchInv
        <4>5. ASSUME validation'.status = "PASS" PROVE f = fix
          <5>1. CASE fix # {}
            BY <5>1
          <5>2. CASE fix = {}
            <6>1. FirstFixFails
              BY <1>0, <1>b, <2>7, <5>2
                 DEF ValidationEngine, At, BranchInv, ReflectionInv, TypeOK
            <6> QED
              BY <4>2, <4>5, <5>2, <6>1 DEF FirstFixFails
          <5> QED
            BY <5>1, <5>2
        <4>6. ASSUME validation'.status = "FAIL", node' = "escalate"
              PROVE  attempts = MaxAttempts
          BY <1>0, <1>b, <2>7, <4>6, WorkflowAssumption
             DEF ValidationEngine, RouteValidation, At, BranchInv, ReflectionInv, TypeOK
        <4>7. /\ validation'.status = "PASS" => node' = "trust_scorer"
              /\ validation'.status # "PASS" => node' \in {"refine_patch", "escalate"}
          BY <2>7 DEF ValidationEngine, RouteValidation
        <4> HIDE DEF f
        <4> QED
          BY <4>3, <4>4, <4>5, <4>6, <4>7 DEF GateInv
      <3>4. AuthorityInv'
        BY <1>b, <2>0, <2>7 DEF ValidationEngine, RouteValidation, At,
           BranchInv, AuthorityInv
      <3> QED
        BY <3>1, <3>2, <3>3, <3>4
    <2>8. CASE RefinePatch
      <3>1. BranchInv'
        BY <1>b, <2>0, <2>8 DEF RefinePatch, Refine, At, BranchInv
      <3>2. ReflectionInv'
        <4>1. /\ attempts \in Nat /\ attempts' = attempts + 1
              /\ attempts < MaxAttempts /\ MaxAttempts \in Nat
          BY <1>0, <1>b, <2>8, WorkflowAssumption
             DEF RefinePatch, Refine, At, ReflectionInv, TypeOK
        <4>2. FirstFixFails'
          <5>1. FirstFixFails
            BY <1>b, <2>8, <4>1 DEF RefinePatch, Refine, At, BranchInv, ReflectionInv
          <5> QED
            BY <1>a, <2>0, <2>8, <5>1 DEF RefinePatch, Refine
        <4>3. patch'.change # "absent"
          BY <2>8, PatchPresent DEF RefinePatch, Refine, RefinedPatch
        <4>4. patch'.change = "replace_block" => Broadened \subseteq patch'.values
          BY <2>8, PatchCovers DEF RefinePatch, Refine, RefinedPatch
        <4>5. /\ fix' = Broadened /\ impact' = Broadened
              /\ node' = "validation_engine" /\ Fixable'
          BY <1>b, <2>8 DEF RefinePatch, Refine, At, BranchInv
        <4>6. attempts' # 0 /\ attempts' <= MaxAttempts
          BY <4>1
        <4> QED
          BY <4>2, <4>3, <4>4, <4>5, <4>6 DEF ReflectionInv
      <3>3. GateInv'
        BY <1>b, <2>0, <2>8 DEF RefinePatch, Refine, At, BranchInv, GateInv
      <3>4. AuthorityInv'
        BY <1>b, <2>0, <2>8 DEF RefinePatch, Refine, At, BranchInv,
           AuthorityInv
      <3> QED
        BY <3>1, <3>2, <3>3, <3>4
    <2>9. CASE TrustScorer
      <3>1. BranchInv'
        BY <1>b, <2>0, <2>9 DEF TrustScorer, At, BranchInv
      <3>2. ReflectionInv'
        BY <1>b, <1>a, <2>0, <2>9 DEF TrustScorer, At, BranchInv,
           ReflectionInv
      <3>3. GateInv'
        BY <1>b, <2>0, <2>9 DEF TrustScorer, At, BranchInv, GateInv
      <3>4. AuthorityInv'
        BY <1>b, <2>0, <2>9 DEF TrustScorer, At, BranchInv, AuthorityInv
      <3> QED
        BY <3>1, <3>2, <3>3, <3>4
    <2>10. CASE RcaReportGenerator
      <3>1. BranchInv'
        BY <1>b, <2>0, <2>10 DEF RcaReportGenerator, At, BranchInv
      <3>2. ReflectionInv'
        BY <1>b, <1>a, <2>0, <2>10 DEF RcaReportGenerator, At, BranchInv,
           ReflectionInv
      <3>3. GateInv'
        BY <1>b, <2>0, <2>10 DEF RcaReportGenerator, At, BranchInv, GateInv
      <3>4. AuthorityInv'
        BY <1>b, <2>0, <2>10 DEF RcaReportGenerator, At, BranchInv,
           AuthorityInv
      <3> QED
        BY <3>1, <3>2, <3>3, <3>4
    <2>11. CASE TestDocsGenerator
      <3>1. BranchInv'
        BY <1>b, <2>0, <2>11 DEF TestDocsGenerator, At, BranchInv
      <3>2. ReflectionInv'
        BY <1>b, <1>a, <2>0, <2>11 DEF TestDocsGenerator, At, BranchInv,
           ReflectionInv
      <3>3. GateInv'
        BY <1>b, <2>0, <2>11 DEF TestDocsGenerator, At, BranchInv, GateInv
      <3>4. AuthorityInv'
        BY <1>b, <2>0, <2>11 DEF TestDocsGenerator, At, BranchInv,
           AuthorityInv
      <3> QED
        BY <3>1, <3>2, <3>3, <3>4
    <2>12. CASE Escalate
      <3>1. BranchInv'
        BY <1>b, <2>0, <2>12 DEF Escalate, EscalateAs, At, BranchInv
      <3>2. ReflectionInv'
        BY <1>b, <1>a, <2>0, <2>12 DEF Escalate, EscalateAs, At, BranchInv,
           ReflectionInv
      <3>3. GateInv'
        BY <1>b, <2>0, <2>12 DEF Escalate, EscalateAs, At, BranchInv, GateInv
      <3>4. AuthorityInv'
        BY <1>b, <2>0, <2>12 DEF Escalate, EscalateAs, At, BranchInv,
           AuthorityInv
      <3> QED
        BY <3>1, <3>2, <3>3, <3>4
    <2>13. CASE HumanApproval
      <3>1. BranchInv'
        BY <1>b, <2>0, <2>13 DEF HumanApproval, RouteApproval, At, BranchInv
      <3>2. ReflectionInv'
        BY <1>b, <1>a, <2>0, <2>13 DEF HumanApproval, RouteApproval, At,
           BranchInv, ReflectionInv
      <3>3. GateInv'
        BY <1>b, <2>0, <2>13 DEF HumanApproval, RouteApproval, At, BranchInv,
           GateInv
      <3>4. AuthorityInv'
        BY <1>b, <2>0, <2>13 DEF HumanApproval, RouteApproval, At, BranchInv,
           AuthorityInv
      <3> QED
        BY <3>1, <3>2, <3>3, <3>4
    <2>14. CASE ApplyRemediation
      <3>1. BranchInv'
        BY <1>b, <2>0, <2>14 DEF ApplyRemediation, At, BranchInv
      <3>2. ReflectionInv'
        BY <1>b, <1>a, <2>0, <2>14 DEF ApplyRemediation, At, BranchInv,
           ReflectionInv
      <3>3. GateInv'
        BY <1>b, <2>0, <2>14 DEF ApplyRemediation, At, BranchInv, GateInv
      <3>4. AuthorityInv'
        BY <1>b, <2>0, <2>14 DEF ApplyRemediation, At, BranchInv, AuthorityInv
      <3> QED
        BY <3>1, <3>2, <3>3, <3>4
    <2>15. CASE MemoryWriteback
      <3>1. BranchInv'
        BY <1>b, <2>0, <2>15 DEF MemoryWriteback, At, BranchInv
      <3>2. ReflectionInv'
        BY <1>b, <1>a, <2>0, <2>15 DEF MemoryWriteback, At, BranchInv,
           ReflectionInv
      <3>3. GateInv'
        BY <1>b, <2>0, <2>15 DEF MemoryWriteback, At, BranchInv, GateInv
      <3>4. AuthorityInv'
        BY <1>b, <2>0, <2>15 DEF MemoryWriteback, At, BranchInv, AuthorityInv
      <3> QED
        BY <3>1, <3>2, <3>3, <3>4
    <2>16. CASE Raise
      <3>1. BranchInv'
        BY <1>b, <2>0, <2>16 DEF Raise, BranchInv
      <3>2. ReflectionInv'
        BY <1>b, <1>a, <2>0, <2>16 DEF Raise, BranchInv, ReflectionInv
      <3>3. GateInv'
        BY <1>b, <2>0, <2>16 DEF Raise, BranchInv, GateInv
      <3>4. AuthorityInv'
        BY <1>b, <2>0, <2>16 DEF Raise, BranchInv, AuthorityInv
      <3> QED
        BY <3>1, <3>2, <3>3, <3>4
    <2>17. CASE Retry
      <3>1. BranchInv'
        BY <1>b, <2>0, <2>17 DEF Retry, BranchInv
      <3>2. ReflectionInv'
        BY <1>b, <1>a, <2>0, <2>17 DEF Retry, BranchInv, ReflectionInv
      <3>3. GateInv'
        BY <1>b, <2>0, <2>17 DEF Retry, BranchInv, GateInv
      <3>4. AuthorityInv'
        BY <1>b, <2>0, <2>17 DEF Retry, BranchInv, AuthorityInv
      <3> QED
        BY <3>1, <3>2, <3>3, <3>4
    <2>18. CASE \E status \in Decisions \ {"pending"}, corrects \in BOOLEAN :
                   HumanDecides(status, corrects)
      <3>1. BranchInv'
        BY <1>b, <2>0, <2>18 DEF HumanDecides, Paused, At, BranchInv
      <3>2. ReflectionInv'
        BY <1>b, <1>a, <2>0, <2>18 DEF HumanDecides, Paused, At, BranchInv,
           ReflectionInv
      <3>3. GateInv'
        BY <1>b, <2>0, <2>18 DEF HumanDecides, Paused, At, BranchInv, GateInv
      <3>4. AuthorityInv'
        BY <1>b, <2>0, <2>18 DEF HumanDecides, Paused, At, BranchInv,
           AuthorityInv
      <3> QED
        BY <3>1, <3>2, <3>3, <3>4
    <2>19. CASE Resume
      <3>1. BranchInv'
        BY <1>b, <2>0, <2>19 DEF Resume, Paused, At, BranchInv
      <3>2. ReflectionInv'
        BY <1>b, <1>a, <2>0, <2>19 DEF Resume, Paused, At, BranchInv,
           ReflectionInv
      <3>3. GateInv'
        BY <1>b, <2>0, <2>19 DEF Resume, Paused, At, BranchInv, GateInv
      <3>4. AuthorityInv'
        BY <1>b, <2>0, <2>19 DEF Resume, Paused, At, BranchInv, AuthorityInv
      <3> QED
        BY <3>1, <3>2, <3>3, <3>4
    <2> QED
      BY <1>2, <2>1, <2>2, <2>3, <2>4, <2>5, <2>6, <2>7, <2>8, <2>9, <2>10, <2>11,
         <2>12, <2>13, <2>14, <2>15, <2>16, <2>17, <2>18, <2>19 DEF Next, NodeStep
  <1> QED
    BY <1>1, <1>2

LEMMA Inductive == Spec => []IInv
  BY InitInv, StepInv, PTL DEF Spec

-----------------------------------------------------------------------------
(* The safety properties.                                                   *)

\* An RCA rests on a passed validation of the very fix set whose impact was
\* simulated and which the proposed patch covers.
THEOREM ReportsAreSound == Spec => []ProposalSound
  <1>1. IInv => ProposalSound
    BY DEF IInv, BranchInv, ReflectionInv, GateInv, ProposalSound, Proposed, Fixable, Closing
  <1> QED
    BY <1>1, Inductive, PTL

\* A fixable finding is escalated only after the last attempt of the whole
\* reflection budget failed.
THEOREM GivesUpLast == Spec => []GiveUpSound
  <1>1. IInv => GiveUpSound
    BY DEF IInv, GateInv, GiveUpSound, Fixable
  <1> QED
    BY <1>1, Inductive, PTL

\* No approval given before the evidence existed makes an escalated finding
\* act or be memorised.
THEOREM EscalationsWait == Spec => []EscalationNeedsHuman
  <1>1. IInv => EscalationNeedsHuman
    BY DEF IInv, AuthorityInv, EscalationNeedsHuman
  <1> QED
    BY <1>1, Inductive, PTL

\* A run without pause, preset approval or correction ends in one of the
\* outcomes the console is written for, and without a side effect.
THEOREM ConsoleRunsAreSafe == Spec => []OutcomeContract
  <1>1. ASSUME IInv, ConsoleRun, node = "END"
        PROVE  Outcome \in ConsoleOutcomes /\ dispatched = {} /\ memory = "not_started"
    <2>1. report \in {"rca", "escalation"}
      BY <1>1 DEF IInv, TypeOK, BranchInv, Closing
    <2>2. /\ ~correction
          /\ approval = IF report = "escalation" THEN "needs_revision" ELSE "pending"
      BY <1>1 DEF IInv, AuthorityInv, ConsoleRun
    <2>3. dispatched = {} /\ memory = "not_started"
      BY <1>1, <2>1, <2>2 DEF IInv, AuthorityInv
    <2>4. CASE report = "rca"
      <3>1. Fixable /\ validation.status = "PASS" /\ patch.change # "absent"
        BY <1>1, <2>4 DEF IInv, BranchInv, GateInv, ReflectionInv, Proposed
      <3>2. approval = "pending"
        BY <2>2, <2>4
      <3> QED
        BY <3>1, <3>2, <2>3 DEF Outcome, ConsoleOutcomes, Fixable
    <2>5. CASE report = "escalation"
      <3>1. validation.status # "PASS" /\ (Fixable <=> patch.change # "absent")
        BY <1>1, <2>5 DEF IInv, GateInv, ReflectionInv, Proposed
      <3>2. approval = "needs_revision"
        BY <2>2, <2>5
      <3>3. CASE Fixable
        BY <3>1, <3>2, <3>3, <2>3 DEF Outcome, ConsoleOutcomes, Fixable
      <3>4. CASE ~Fixable
        BY <3>1, <3>2, <3>4, <2>3 DEF Outcome, ConsoleOutcomes, Fixable
      <3> QED
        BY <3>3, <3>4
    <2> QED
      BY <2>1, <2>4, <2>5
  <1>2. IInv => OutcomeContract
    BY <1>1 DEF OutcomeContract
  <1> QED
    BY <1>2, Inductive, PTL

-----------------------------------------------------------------------------
(* The workflow implements the abstract remediation life cycle.             *)

LEMMA LifecycleInit == Init => Lifecycle!Init
  BY DEF Init, Lifecycle!Init, Lifecycle!Authorities

LEMMA LifecycleStep ==
    IInv /\ IInv' /\ [Next]_vars => [Lifecycle!Next]_(Lifecycle!vars)
  <1> SUFFICES ASSUME IInv, IInv', [Next]_vars
               PROVE  [Lifecycle!Next]_(Lifecycle!vars)
    OBVIOUS
  <1> DEFINE stage == IF node = "END" THEN "closed"
                      ELSE IF node \in {"apply_remediation", "memory_writeback"} THEN "authorised"
                      ELSE IF report # "none" THEN "proposed" ELSE "investigating"
             authority == IF correction THEN "correction"
                          ELSE IF approval = "approved" THEN "approval" ELSE "none"
             acted == dispatched # {}
             learned == memory \in {"written", "learned"}
             Stutter == UNCHANGED <<stage, report, authority, acted, learned>>
  <1> USE DEF At, diagnosis, proposal, verdict, human, effects
  <1>s. Stutter => [Lifecycle!Next]_(Lifecycle!vars)
    BY DEF Lifecycle!vars
  <1>i. BranchInv /\ AuthorityInv /\ TypeOK
    BY DEF IInv
  <1>1. CASE UNCHANGED vars
    BY <1>1, <1>s DEF vars
  <1>2. CASE \/ Triage \/ DiagnosticTools \/ ClaimVerifier
             \/ SafePatchGenerator \/ PatchReviewer \/ RefinePatch
             \/ TrustScorer \/ TestDocsGenerator \/ Raise \/ Retry \/ Resume
    <2>1. Stutter
      BY <1>2, <1>i DEF Triage, DiagnosticTools, ClaimVerifier, SafePatchGenerator,
         PatchReviewer, RefinePatch, Refine, TrustScorer, TestDocsGenerator, Raise,
         Retry, Resume, BranchInv, Closing
    <2> QED
      BY <1>s, <2>1
  <1>3. CASE RootCauseReasoner \/ ValidationEngine
    <2>1. Stutter
      BY <1>3, <1>i DEF RootCauseReasoner, RouteConfidence, ValidationEngine,
         RouteValidation, BranchInv, Closing
    <2> QED
      BY <1>s, <2>1
  <1>4. CASE RcaReportGenerator
    <2>1. Lifecycle!Propose("rca")
      BY <1>4, <1>i DEF RcaReportGenerator, Lifecycle!Propose, BranchInv, Closing
    <2> QED
      BY <2>1 DEF Lifecycle!Next
  <1>5. CASE Escalate
    <2>1. Lifecycle!Propose("escalation")
      BY <1>5, <1>i DEF Escalate, EscalateAs, Lifecycle!Propose, BranchInv, Closing
    <2> QED
      BY <2>1 DEF Lifecycle!Next
  <1>6. CASE HumanApproval
    <2>1. CASE approval = "approved" \/ correction
      <3>1. Lifecycle!Authorise
        BY <1>6, <2>1, <1>i
           DEF HumanApproval, RouteApproval, Lifecycle!Authorise, BranchInv, Closing
      <3> QED
        BY <3>1 DEF Lifecycle!Next
    <2>2. CASE ~(approval = "approved" \/ correction)
      <3>1. Lifecycle!Halt
        BY <1>6, <2>2, <1>i
           DEF HumanApproval, RouteApproval, Lifecycle!Halt, BranchInv, Closing
      <3> QED
        BY <3>1 DEF Lifecycle!Next
    <2> QED
      BY <2>1, <2>2
  <1>7. CASE ApplyRemediation
    <2>1. dispatched = {}
      BY <1>7, <1>i DEF ApplyRemediation, AuthorityInv
    <2>2. CASE ApplyTools = {}
      <3>1. Stutter
        BY <1>7, <1>i, <2>1, <2>2 DEF ApplyRemediation
      <3> QED
        BY <1>s, <3>1
    <2>3. CASE ApplyTools # {}
      <3>1. Lifecycle!Act
        BY <1>7, <1>i, <2>1, <2>3 DEF ApplyRemediation, Lifecycle!Act
      <3> QED
        BY <3>1 DEF Lifecycle!Next
    <2> QED
      BY <2>2, <2>3
  <1>8. CASE MemoryWriteback
    <2>1. memory' \in {"written", "learned"}
      BY <1>8, <1>i DEF MemoryWriteback, AuthorityInv
    <2>2. Lifecycle!Learn
      BY <1>8, <2>1 DEF MemoryWriteback, Lifecycle!Learn
    <2> QED
      BY <2>2 DEF Lifecycle!Next
  <1>9. CASE \E status \in Decisions \ {"pending"}, corrects \in BOOLEAN :
                HumanDecides(status, corrects)
    <2>1. Lifecycle!Decide
      BY <1>9, <1>i DEF HumanDecides, Paused, Lifecycle!Decide, Lifecycle!Authorities,
         BranchInv, Closing
    <2> QED
      BY <2>1 DEF Lifecycle!Next
  <1> QED
    BY <1>1, <1>2, <1>3, <1>4, <1>5, <1>6, <1>7, <1>8, <1>9 DEF Next, NodeStep

\* Every behaviour of the workflow is one governed remediation: evidence, one
\* proposal, authority, action, learning, in that order.
THEOREM WorkflowImplementsLifecycle == Spec => ImplementsLifecycle
  BY LifecycleInit, LifecycleStep, Inductive, PTL
     DEF Spec, ImplementsLifecycle, Lifecycle!Spec
-----------------------------------------------------------------------------
(* The run ends.                                                            *)

LEMMA AttemptsBounded == ASSUME IInv PROVE attempts \in 0..MaxAttempts
  BY WorkflowAssumption DEF IInv, TypeOK, ReflectionInv, Proposed

LEMMA DistanceType == ASSUME IInv PROVE Distance \in Nat
  <1>1. Place[node] \in Nat BY DEF IInv, TypeOK, Nodes, Place
  <1> QED BY <1>1, AttemptsBounded, WorkflowAssumption DEF Distance

\* What is left to show of a node that does not count a round of reflection.
LEMMA PlaceDecides ==
    ASSUME IInv, attempts' = attempts, Place[node'] \in Nat, Place[node] \in Nat,
           Place[node'] < Place[node]
    PROVE  Distance' < Distance
  BY AttemptsBounded, WorkflowAssumption DEF Distance

\* Every node leads on; validation may go back, to a round that is counted.
LEMMA NodeNearer == ASSUME IInv, NodeStep PROVE Distance' < Distance
  <1> USE DEF At, Place, proposal
  <1>1. CASE Triage BY <1>1, PlaceDecides DEF Triage
  <1>2. CASE DiagnosticTools BY <1>2, PlaceDecides DEF DiagnosticTools
  <1>3. CASE RootCauseReasoner
    BY <1>3, PlaceDecides DEF RootCauseReasoner, RouteConfidence
  <1>4. CASE ClaimVerifier BY <1>4, PlaceDecides DEF ClaimVerifier
  <1>5. CASE SafePatchGenerator BY <1>5, PlaceDecides DEF SafePatchGenerator
  <1>6. CASE PatchReviewer BY <1>6, PlaceDecides DEF PatchReviewer
  <1>7. CASE ValidationEngine
    BY <1>7, PlaceDecides DEF ValidationEngine, RouteValidation
  <1>8. CASE RefinePatch
    <2>1. /\ node = "refine_patch" /\ node' = "validation_engine"
          /\ attempts' = attempts + 1
      BY <1>8 DEF RefinePatch, Refine
    <2>2. Distance = 6 + 2 * (MaxAttempts - attempts) BY <2>1 DEF Distance
    <2>3. Distance' = 7 + 2 * (MaxAttempts - attempts') BY <2>1 DEF Distance
    <2> QED BY <2>1, <2>2, <2>3, AttemptsBounded, WorkflowAssumption
  <1>9. CASE TrustScorer BY <1>9, PlaceDecides DEF TrustScorer
  <1>10. CASE RcaReportGenerator BY <1>10, PlaceDecides DEF RcaReportGenerator
  <1>11. CASE TestDocsGenerator BY <1>11, PlaceDecides DEF TestDocsGenerator
  <1>12. CASE Escalate BY <1>12, PlaceDecides DEF Escalate, EscalateAs
  <1>13. CASE HumanApproval BY <1>13, PlaceDecides DEF HumanApproval, RouteApproval
  <1>14. CASE ApplyRemediation BY <1>14, PlaceDecides DEF ApplyRemediation
  <1>15. CASE MemoryWriteback BY <1>15, PlaceDecides DEF MemoryWriteback
  <1> QED
    BY <1>1, <1>2, <1>3, <1>4, <1>5, <1>6, <1>7, <1>8, <1>9, <1>10, <1>11, <1>12,
       <1>13, <1>14, <1>15 DEF NodeStep

\* Exceptions, retries and decisions leave the run where it is.
LEMMA OutsideStays ==
    ASSUME [Next]_vars, ~NodeStep PROVE node' = node /\ attempts' = attempts
  BY DEF Next, vars, proposal, Raise, Retry, HumanDecides, Resume

\* An investigation executes at most 13 nodes and two for every round of
\* reflection, for any budget and however often it raises, is invoked again or
\* waits for a human: the argument behind Settles.
THEOREM InvestigationsEnd == Spec => GetsNearer
  <1> DEFINE Nearer == /\ Distance' \in Nat /\ Distance' <= Distance
                       /\ node' # node => Distance' < Distance
  <1>1. IInv => Distance \in Nat BY DistanceType
  <1>2. ASSUME IInv, Distance \in Nat, (Distance \in Nat)', [Next]_vars PROVE Nearer
    <2>1. CASE NodeStep BY <1>2, <2>1, NodeNearer
    <2>2. CASE ~NodeStep
      <3>1. node' = node /\ attempts' = attempts BY <1>2, <2>2, OutsideStays
      <3>2. Distance' = Distance BY <3>1 DEF Distance
      <3> QED BY <1>2, <3>1, <3>2
    <2> QED BY <2>1, <2>2
  <1>3. IInv /\ Distance \in Nat /\ (Distance \in Nat)' /\ [Next]_vars => [Nearer]_vars
    BY <1>2
  <1> QED BY <1>1, <1>3, Inductive, PTL DEF Spec, GetsNearer
=============================================================================
