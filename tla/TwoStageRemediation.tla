------------------------- MODULE TwoStageRemediation -------------------------
(***************************************************************************)
(* What the console's approval loop promises for every investigation: two  *)
(* human approvals, each before the effects it authorises.  The fix is     *)
(* approved, then a merge request is asked for, then the re-run is offered *)
(* for approval, then the DAG is triggered, then the incident is learned.  *)
(* A restart of the console begins all of it again.                        *)
(***************************************************************************)

CONSTANT Investigations

VARIABLES
    approved,  \* pairs of an investigation and the stage a human approved
    done,      \* pairs of an investigation and an effect: mr, dag, memory
    offered    \* investigations whose re-run was offered for approval

vars == <<approved, done, offered>>

Init == approved = {} /\ done = {} /\ offered = {}

ApproveFix(i) ==
    /\ approved' = approved \cup {<<i, "fix">>}
    /\ UNCHANGED <<done, offered>>

RequestMerge(i) ==
    /\ <<i, "fix">> \in approved
    /\ done' = done \cup {<<i, "mr">>}
    /\ UNCHANGED <<approved, offered>>

OfferRerun(i) ==
    /\ <<i, "mr">> \in done
    /\ offered' = offered \cup {i}
    /\ UNCHANGED <<approved, done>>

ApproveRerun(i) ==
    /\ i \in offered
    /\ approved' = approved \cup {<<i, "rerun">>}
    /\ UNCHANGED <<done, offered>>

TriggerDag(i) ==
    /\ <<i, "rerun">> \in approved
    /\ done' = done \cup {<<i, "dag">>}
    /\ UNCHANGED <<approved, offered>>

Remember(i) ==
    /\ <<i, "dag">> \in done
    /\ done' = done \cup {<<i, "memory">>}
    /\ UNCHANGED <<approved, offered>>

\* The console forgets; nothing is authorised any more.
Restart == approved' = {} /\ done' = {} /\ offered' = {}

Next ==
  \/ Restart
  \/ \E i \in Investigations :
        \/ ApproveFix(i)
        \/ RequestMerge(i)
        \/ OfferRerun(i)
        \/ ApproveRerun(i)
        \/ TriggerDag(i)
        \/ Remember(i)

Spec == Init /\ [][Next]_vars
=============================================================================
