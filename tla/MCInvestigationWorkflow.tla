----------------------- MODULE MCInvestigationWorkflow -----------------------
(***************************************************************************)
(* A revenue-like contract for TLC: one base status, one new status, one   *)
(* status the profile knows but the base does not handle, and a spelling   *)
(* of NONE.  The worlds cover an empty partition and, beside the base      *)
(* status, every role of the new one (absent, without deductions, deducted *)
(* by the baseline, deducted by the source only), a held status that needs *)
(* the broadened fix, and a NONE that is absent, harmless or mislabelled.  *)
(***************************************************************************)
EXTENDS InvestigationWorkflow

CONSTANTS refunded, partial, held, none

MCStatuses == {refunded, partial, held, none}

\* What the repository holds: nothing found, a literal without a patchable
\* condition, the base mapping, a mapping that handles the held status too.
MCCode == {[handled |-> {}, mapped |-> FALSE],
           [handled |-> {refunded}, mapped |-> FALSE],
           [handled |-> {refunded}, mapped |-> TRUE],
           [handled |-> {refunded, held}, mapped |-> TRUE]}

MCData ==
    {d \in [profile : {{}} \cup {{refunded} \cup s : s \in SUBSET MCStatuses},
            refunds : SUBSET MCStatuses, owed : SUBSET MCStatuses] :
        /\ d.owed \subseteq d.refunds /\ d.refunds \subseteq d.profile
        /\ {refunded, held} \cap d.profile \subseteq d.owed
        /\ none \notin d.owed}

MCWorlds ==
    {[profile |-> d.profile, refunds |-> d.refunds, owed |-> d.owed,
      handled |-> c.handled, mapped |-> c.mapped, sound |-> ok] :
        d \in MCData, c \in MCCode, ok \in BOOLEAN}
=============================================================================
