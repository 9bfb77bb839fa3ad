----------------------------- MODULE FailureIntake -----------------------------
(***************************************************************************)
(* The callback of a failed Airflow run (monitoring/triggers.py, called by *)
(* app/webhook.py): it opens an investigation, once per DAG and date.  The *)
(* keys already seen are kept in the process.  The route is a coroutine    *)
(* that calls the handler without awaiting anything, so one process works  *)
(* on one callback at a time, and the others wait for its event loop.      *)
(***************************************************************************)
EXTENDS Naturals

CONSTANTS
    Keys,        \* DAG and date of a failed run, as far as callbacks name them
    Mapped,      \* those whose DAG has a metric in the pipeline memory
    MaxCalls,    \* bound: callbacks Airflow sends
    MaxRestarts  \* bound: restarts of the webhook's process

VARIABLES
    seen,     \* _seen
    waiting,  \* callbacks of each key that arrived and are not handled yet
    active,   \* the key being investigated
    sent,     \* callbacks sent (bounded)
    deduped,  \* keys whose callback was answered "deduped" in this life
    opened,   \* investigations of each key that returned in this life
    failed,   \* keys whose investigation raised in this life
    restarts  \* restarts so far (bounded)

vars == <<seen, waiting, active, sent, deduped, opened, failed, restarts>>

Idle == "idle"

Init ==
    /\ seen = {}
    /\ waiting = [k \in Keys |-> 0]
    /\ active = Idle
    /\ sent = 0
    /\ deduped = {}
    /\ opened = [k \in Keys |-> 0]
    /\ failed = {}
    /\ restarts = 0

\* External: on_failure_callback, for a first failure or a repeated one.
Deliver(k) ==
    /\ sent < MaxCalls
    /\ sent' = sent + 1
    /\ waiting' = [waiting EXCEPT ![k] = @ + 1]
    /\ UNCHANGED <<seen, active, deduped, opened, failed, restarts>>

\* The event loop is free and takes up a callback.
Take(k) ==
    /\ active = Idle /\ waiting[k] > 0
    /\ waiting' = [waiting EXCEPT ![k] = @ - 1]

Dedupe(k) ==
    /\ Take(k) /\ k \in seen
    /\ deduped' = deduped \cup {k}
    /\ UNCHANGED <<seen, active, sent, opened, failed, restarts>>

\* A DAG without a metric: the handler raises before it marks the key.
RefuseUnmapped(k) ==
    /\ Take(k) /\ k \notin seen /\ k \notin Mapped
    /\ UNCHANGED <<seen, active, sent, deduped, opened, failed, restarts>>

MutOpen(k) ==
    /\ Take(k) /\ k \notin seen /\ k \in Mapped
    /\ active' = k
    /\ UNCHANGED <<seen, sent, deduped, opened, failed, restarts>>
\* The key is marked, and the workflow is invoked.
Open(k) ==
    /\ Take(k) /\ k \notin seen /\ k \in Mapped
    /\ seen' = seen \cup {k}
    /\ active' = k
    /\ UNCHANGED <<sent, deduped, opened, failed, restarts>>

Return ==
    /\ active # Idle
    /\ opened' = [opened EXCEPT ![active] = @ + 1]
    /\ active' = Idle
    /\ UNCHANGED <<seen, waiting, sent, deduped, failed, restarts>>

\* The workflow raised: Airflow gets an error, and the key stays marked.
Raise ==
    /\ active # Idle
    /\ failed' = failed \cup {active}
    /\ active' = Idle
    /\ UNCHANGED <<seen, waiting, sent, deduped, opened, restarts>>

\* The process dies with the callbacks it holds, and starts again.
Restart ==
    /\ restarts < MaxRestarts
    /\ restarts' = restarts + 1
    /\ seen' = {} /\ deduped' = {} /\ failed' = {}
    /\ waiting' = [k \in Keys |-> 0]
    /\ opened' = [k \in Keys |-> 0]
    /\ active' = Idle
    /\ UNCHANGED sent

Handle(k) == Dedupe(k) \/ RefuseUnmapped(k) \/ Open(k)

Next ==
    \/ \E k \in Keys : Deliver(k) \/ Handle(k)
    \/ Return \/ Raise \/ Restart

Spec == Init /\ [][Next]_vars

-----------------------------------------------------------------------------
(* Correctness.                                                             *)

TypeOK ==
    /\ seen \in SUBSET Keys /\ deduped \in SUBSET Keys /\ failed \in SUBSET Keys
    /\ waiting \in [Keys -> Nat] /\ opened \in [Keys -> Nat]
    /\ sent \in Nat
    /\ active \in Keys \cup {Idle}
    /\ restarts \in Nat

\* triggers.py:5-6: a failed DAG run has one investigation for all its
\* callbacks, and a callback is turned away only for one that was opened: it
\* has returned, or it has raised.
OneInvestigationEach ==
    \A k \in Keys :
        /\ opened[k] + (IF k \in failed THEN 1 ELSE 0)
              + (IF active = k THEN 1 ELSE 0) <= 1
        /\ k \in deduped => opened[k] = 1 \/ k \in failed
=============================================================================
