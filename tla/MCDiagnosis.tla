----------------------------- MODULE MCDiagnosis -----------------------------
(***************************************************************************)
(* Three gathering tools (the two the drift check needs and one other), a  *)
(* write tool and the derived check as names that must not be planned.     *)
(***************************************************************************)
EXTENDS Diagnosis

CONSTANTS scope, other, none, a, b, qwen, minimax

\* models.yaml: the fallback route is the planner's own.
MCCandidates == <<qwen, minimax, qwen>>

MCGathering == {"metadata_scan", "sql_profile", "code_search"}
MCFallbackOrder == [metadata_scan |-> 1, sql_profile |-> 2, code_search |-> 3]
MCOtherTools == {"enum_drift_check", "gitlab_create_mr"}
MCBaselines == {{a}}
MCProfiles == {{}, {a}, {a, b}}

One(t, i) == {[at |-> 1, tool |-> t, inputs |-> i]}
Two(t, i, u, j) == One(t, i) \cup {[at |-> 2, tool |-> u, inputs |-> j]}

\* Nothing; names that are no gathering tools; one call said in two ways; two
\* different calls of one tool, one with inputs of its own; a sensible plan.
MCRawPlans == {
    {},
    Two("gitlab_create_mr", none, "enum_drift_check", other),
    Two("sql_profile", none, "sql_profile", scope),
    Two("sql_profile", other, "sql_profile", none),
    Two("metadata_scan", none, "sql_profile", none)}
=============================================================================
