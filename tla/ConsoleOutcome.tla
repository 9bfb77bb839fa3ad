---------------------------- MODULE ConsoleOutcome ----------------------------
(***************************************************************************)
(* The interface between the investigation workflow and the console: what  *)
(* a graph invocation started by api/server.py can return.  The workflow   *)
(* guarantees it (InvestigationWorkflow!OutcomeContract); the console      *)
(* model assumes it.                                                       *)
(***************************************************************************)

\* The final state's facts that _normalize_agent decides on: the confidence
\* route, whether a patch was generated, the approval status, and whether the
\* last validation passed.
ConsoleOutcomes ==
    { [route |-> "confident", patched |-> TRUE, approval |-> "pending", validated |-> TRUE],
      [route |-> "confident", patched |-> TRUE, approval |-> "needs_revision", validated |-> FALSE],
      [route |-> "escalate", patched |-> FALSE, approval |-> "needs_revision", validated |-> FALSE] }
=============================================================================
