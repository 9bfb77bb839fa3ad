-------------------------------- MODULE Platform --------------------------------
(***************************************************************************)
(* What concurrent investigations share: the warehouse file, the memory    *)
(* file, and the webhook that starts investigations on its own.  A run     *)
(* retrieves from the memory (context_retriever.build_context), queries    *)
(* the warehouse, concludes, and, when it was approved or corrected,       *)
(* writes what it concluded back into the memory.  The runs of the console *)
(* are the second agent run of an approved re-run (_apply_rerun); those of *)
(* the webhook are handle_airflow_failure.  Other runs of the graph have   *)
(* paused for a human and only write when they are resumed.                *)
(*                                                                         *)
(* The console and the webhook are two processes.  Only the webhook's is   *)
(* restarted here.                                                         *)
(***************************************************************************)
EXTENDS Naturals

CONSTANTS
    IncidentIds,  \* as in IncidentMemory
    Console,      \* the runs in the console's process, each concluded once
    Concludes,    \* the incident each of them is about
    Resumed,      \* runs of the graph that paused, resumed in any process
    Hook,         \* the webhook's worker, which runs one callback at a time
    Given,        \* as in Warehouse
    MaxQueries,   \* bound: warehouse queries of a run
    Keys, Mapped, MaxCalls, MaxRestarts  \* as in FailureIntake

\* The webhook's worker is no run of the console's, the name FailureIntake has
\* for "nothing" is no failure's, and queries are counted.
ASSUME HookApart == Hook \notin Console
ASSUME KeysAreKeys == "idle" \notin Keys
ASSUME QueriesAreMany == MaxQueries \in Nat

Runs == Console \cup {Hook}
ProcessOf == [r \in Runs |-> IF r = Hook THEN "webhook" ELSE "console"]

VARIABLES
    content, hot, switched, conn, first, misled, trouble,              \* Warehouse
    file, pc, id, basis, copy, overwritten, overlapped, latest,        \* IncidentMemory
    seen, waiting, active, sent, deduped, opened, failed, restarts,    \* FailureIntake
    stage,    \* where each run is
    left,     \* queries each run still makes
    clashed   \* history: a run read the memory file while it was missing or
              \* while another run was writing it

warehouseVars == <<content, hot, switched, conn, first, misled, trouble>>
memoryVars == <<file, pc, id, basis, copy, overwritten, overlapped, latest>>
intakeVars == <<seen, waiting, active, sent, deduped, opened, failed, restarts>>
vars == <<warehouseVars, memoryVars, intakeVars, stage, left, clashed>>

DB == INSTANCE Warehouse WITH Callers <- Runs
Memory == INSTANCE IncidentMemory WITH Writers <- Console \cup Resumed
Intake == INSTANCE FailureIntake

Init ==
    /\ DB!Init /\ Memory!Init /\ Intake!Init
    /\ \A w \in Console : basis[w] = "approved" /\ id[w] = Concludes[w]
    \* To write_incident a correction is as good as an approval.
    /\ \A w \in Resumed : basis[w] \in {"nothing", "correction"}
    /\ stage = [r \in Runs |-> "idle"]
    /\ left = [r \in Runs |-> 0]
    /\ clashed = FALSE

-----------------------------------------------------------------------------
Stage(r, s) == stage' = [stage EXCEPT ![r] = s]

\* A console run begins when its re-run is approved, the webhook's with the
\* callback in hand.
Begins(r) ==
    IF r = Hook THEN active # Intake!Idle /\ stage[r] # "gathering" ELSE stage[r] = "idle"

\* An exception leaves a run: the console swallows it and reports "written",
\* the webhook answers with an error.
MutStops(r, how) == Stage(r, how) /\ UNCHANGED intakeVars
Stops(r, how) ==
    /\ Stage(r, how)
    /\ IF r = Hook THEN Intake!Raise ELSE UNCHANGED intakeVars

MutUnreadable == file.state # "readable" \/ file.records = {}
Unreadable == file.state # "readable"

\* memory_search reads the incident memory, without catching an error.  A plan
\* or a learned runbook need not hold a tool that queries the warehouse.
Retrieve(r) ==
    /\ Begins(r)
    /\ \/ /\ Unreadable /\ Stops(r, "unread")
          /\ UNCHANGED left
       \/ /\ ~Unreadable /\ Stage(r, "gathering")
          /\ \E n \in 0..MaxQueries : left' = [left EXCEPT ![r] = n]
          /\ UNCHANGED intakeVars
    /\ clashed' = (clashed \/ file.state = "missing" \/ Memory!Busy)
    /\ UNCHANGED <<warehouseVars, memoryVars>>

\* The diagnostic tools query the warehouse, each with a connection of its own.
Ask(r) ==
    /\ stage[r] = "gathering" /\ left[r] > 0
    /\ DB!Choose(r)
    /\ left' = [left EXCEPT ![r] = @ - 1]
    /\ UNCHANGED <<memoryVars, intakeVars, stage, clashed>>

Query(r) ==
    /\ DB!Proceed(r)
    /\ UNCHANGED <<memoryVars, intakeVars, stage, left, clashed>>

AllRead(r) == stage[r] = "gathering" /\ left[r] = 0 /\ DB!At(r, "idle")

\* Some node of the run raises (InvestigationWorkflow!Raise).
NodeRaises(r) ==
    /\ AllRead(r)
    /\ Stops(r, "raised")
    /\ UNCHANGED <<warehouseVars, memoryVars, left, clashed>>

\* The run ends with a report or an escalation.  Nobody approves the webhook's
\* runs in this invocation, so they do not write the memory.
Conclude(r) ==
    /\ AllRead(r)
    /\ Stage(r, "concluded")
    /\ IF r = Hook THEN Intake!Return ELSE UNCHANGED intakeVars
    /\ UNCHANGED <<warehouseVars, memoryVars, left, clashed>>

\* write_incident, with what the run concluded.
Remember(w) ==
    /\ w \in Console => stage[w] = "concluded"
    /\ Memory!Skip(w) \/ Memory!Read(w) \/ Memory!Open(w) \/ Memory!Fill(w) \/ Memory!Lose(w)
    /\ UNCHANGED <<warehouseVars, intakeVars, stage, left, clashed>>

Callback ==
    /\ \E k \in Keys : Intake!Deliver(k)
    /\ UNCHANGED <<warehouseVars, memoryVars, stage, left, clashed>>

Handle ==
    /\ \E k \in Keys : Intake!Handle(k)
    /\ UNCHANGED <<warehouseVars, memoryVars, stage, left, clashed>>

\* The webhook's process dies and starts again.
Restart ==
    /\ Intake!Restart /\ DB!Crash("webhook")
    /\ Stage(Hook, "idle")
    /\ left' = [left EXCEPT ![Hook] = 0]
    /\ UNCHANGED <<memoryVars, clashed>>

Step(r) == Retrieve(r) \/ Ask(r) \/ Query(r) \/ NodeRaises(r) \/ Conclude(r)

Next ==
    \/ \E r \in Runs : Step(r)
    \/ \E w \in Console \cup Resumed : Remember(w)
    \/ Callback \/ Handle \/ Restart

\* The event loop takes up what arrived, and the webhook's run goes on: its tools
\* are local queries and its model calls time out.
Spec == Init /\ [][Next]_vars /\ WF_vars(Handle) /\ WF_vars(Step(Hook))

-----------------------------------------------------------------------------
(* Correctness.                                                             *)

\* The types of the parts, and of what composes them.
TypeOK ==
    /\ DB!TypeOK /\ Memory!TypeOK /\ Intake!TypeOK
    /\ stage \in [Runs -> {"idle", "gathering", "concluded", "unread", "raised"}]
    /\ left \in [Runs -> 0..MaxQueries]
    /\ clashed \in BOOLEAN

WarehouseKept == DB!WarehouseKept
FallbackForAReason == DB!FallbackForAReason
OneRecordPerIncident == Memory!OneRecordPerIncident
OnlyAuthorised == Memory!OnlyAuthorised
SerialMemory == Memory!SerialMemory
OneInvestigationEach == Intake!OneInvestigationEach

\* A run is stopped by its own retrieval only after something happened at the
\* memory file: two calls overlapped, one was cut off, or it was missing.
RetrievalWorks ==
    ~clashed /\ ~overlapped /\ (\A w \in Console \cup Resumed : pc[w] # "lost") =>
        \A r \in Runs : stage[r] # "unread"

\* triggers.py:34-63: every callback that reaches the webhook is answered: it is
\* turned away, or the investigation it opened returns or raises, whatever that
\* run meets at the memory and at the warehouse.  Otherwise it dies with the
\* process.  So there is always a later moment when no callback of a failure
\* waits or is worked on.
CallbacksAnswered == \A k \in Keys : []<>(waiting[k] = 0 /\ active # k)
=============================================================================
