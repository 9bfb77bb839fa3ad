------------------------------ MODULE MCPlatform ------------------------------
(***************************************************************************)
(* An approved re-run in the console, a paused run that is resumed, and    *)
(* callbacks of one failed DAG run and of an unknown DAG in the webhook.   *)
(***************************************************************************)
EXTENDS Platform

CONSTANTS inc1, inc2, w1, w2, hook, revenue, unknown

MCConcludes == [w \in {w1} |-> inc1]

\* The configured file, with an older fallback.
MCGiven == {[configured |-> "current", fallback |-> "stale"]}
=============================================================================
