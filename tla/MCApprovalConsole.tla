--------------------------- MODULE MCApprovalConsole ---------------------------
(***************************************************************************)
(* Two seeded investigations, one of them with an approval, questions      *)
(* asked by users, and a few overlapping requests.                         *)
(***************************************************************************)
EXTENDS ApprovalConsole, TLC

CONSTANTS flagship, quiet, q1, q2, revenue, refunds

MCMetricOf == [i \in Investigations |-> revenue]

MCSeeds == <<flagship>>
MCFixable == <<flagship>>
MCBoth == <<flagship, quiet>>
MCSeedStatus == [i \in SeededSet \ FixableSet |-> "running"]
OneQuestion == <<q1>>
TwoQuestions == <<q1, q2>>
=============================================================================
