------------------------- MODULE RemediationLifecycle -------------------------
(***************************************************************************)
(* What a governed investigation promises, whatever graph runs it: evidence*)
(* first, then one proposal on one basis, then authority, then action, then*)
(* learning.  An approval may be given early, withdrawn when the finding   *)
(* is escalated, and changed while the proposal waits; once the proposal   *)
(* is authorised the authority stands.                                     *)
(***************************************************************************)

VARIABLES
    stage,      \* investigating, proposed, authorised, closed
    basis,      \* none; rca: a validated fix; escalation: a finding only
    authority,  \* none, approval or correction
    acted,      \* a write tool was called
    learned     \* the conclusion is in long-term memory

vars == <<stage, basis, authority, acted, learned>>

Authorities == {"none", "approval", "correction"}

Init ==
    /\ stage = "investigating"
    /\ basis = "none"
    /\ authority \in Authorities
    /\ acted = FALSE
    /\ learned = FALSE

\* An escalated finding voids an approval that was given before it existed.
Propose(b) ==
    /\ stage = "investigating"
    /\ stage' = "proposed"
    /\ basis' = b
    /\ authority' = IF b = "escalation" /\ authority = "approval" THEN "none"
                    ELSE authority
    /\ UNCHANGED <<acted, learned>>

Decide ==
    /\ stage = "proposed"
    /\ authority' \in Authorities
    /\ UNCHANGED <<stage, basis, acted, learned>>

Authorise ==
    /\ stage = "proposed"
    /\ authority # "none"
    /\ stage' = "authorised"
    /\ UNCHANGED <<basis, authority, acted, learned>>

Halt ==
    /\ stage = "proposed"
    /\ authority = "none"
    /\ stage' = "closed"
    /\ UNCHANGED <<basis, authority, acted, learned>>

Act ==
    /\ stage = "authorised"
    /\ ~acted
    /\ acted' = TRUE
    /\ UNCHANGED <<stage, basis, authority, learned>>

Learn ==
    /\ stage = "authorised"
    /\ stage' = "closed"
    /\ learned' = TRUE
    /\ UNCHANGED <<basis, authority, acted>>

Next ==
    \/ \E b \in {"rca", "escalation"} : Propose(b)
    \/ Decide
    \/ Authorise
    \/ Halt
    \/ Act
    \/ Learn

Spec == Init /\ [][Next]_vars
=============================================================================
