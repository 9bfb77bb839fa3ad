------------------------------- MODULE Diagnosis -------------------------------
(***************************************************************************)
(* The planner-driven diagnosis, agents/diagnostic_planner.py, with the    *)
(* planner, the model router and the executor it calls, over successive    *)
(* investigations of the same incident.  A runbook learned earlier, or     *)
(* else the language model, or else a fixed plan says which tools to run;  *)
(* enum_drift_check is derived from what they found; the model may ask for *)
(* more, a bounded number of times.                                        *)
(*                                                                         *)
(* A raw plan is a set of proposals numbered in the order in which they    *)
(* were made.  Tool inputs are names for what a call reads; what a call    *)
(* finds is a set of enum values.  No planned step has dependencies.       *)
(***************************************************************************)
EXTENDS Naturals, FiniteSets

CONSTANTS
    Gathering,        \* GATHERING: the tools the model may choose
    FallbackOrder,    \* _FALLBACK_ORDER: the place of each of them
    OtherTools,       \* other names the model or a human brings up
    Inputs,           \* what a call can be made to read
    Scope,            \* the inputs that follow from the metric contract
    NoInputs,         \* inputs left out by whoever proposed the call
    Baselines,        \* the known values metadata_scan can find
    Profiles,         \* the values sql_profile can find on a date
    RawPlans,         \* the plans the model or a human can propose
    Candidates,       \* the planner route's provider, its fallback_provider and
                      \* the provider of the fallback_route, in this order
    NoProvider,       \* none of them can be built
    MaxFollowups,     \* MAX_FOLLOWUP_ROUNDS
    MaxRetries,       \* max_retries of models.yaml
    MaxInvestigations

Drift == "enum_drift_check"
Providers == {Candidates[k] : k \in DOMAIN Candidates}
Proposal == [at : Nat, tool : Gathering \cup OtherTools, inputs : Inputs \cup {NoInputs}]

\* A list as a set of numbered proposals: finite, and one proposal per place.
IsRawPlan(raw) ==
    /\ raw \in SUBSET Proposal
    /\ IsFiniteSet(raw)
    /\ \A p, q \in raw : p.at = q.at => p = q

ASSUME DiagnosisAssumption ==
    /\ {"metadata_scan", "sql_profile"} \subseteq Gathering
    /\ IsFiniteSet(Gathering) /\ Gathering \cap OtherTools = {}
    /\ Drift \in OtherTools
    /\ FallbackOrder \in [Gathering -> Nat]
    /\ \A t, u \in Gathering : FallbackOrder[t] = FallbackOrder[u] => t = u
    /\ Scope \in Inputs /\ NoInputs \notin Inputs
    /\ \A raw \in RawPlans : IsRawPlan(raw)
    /\ DOMAIN Candidates \subseteq Nat /\ NoProvider \notin Providers
    /\ MaxFollowups \in Nat /\ MaxRetries \in Nat /\ MaxInvestigations \in Nat

Findings == [found : BOOLEAN, values : Baselines \cup Profiles \cup {{}}
                                       \cup {p \ b : p \in Profiles, b \in Baselines \cup {{}}}]
Nothing == [found |-> FALSE, values |-> {}]

VARIABLES
    phase,    \* idle, ask, gather, derive, done
    round,    \* 0 for the first plan, then the follow-up rounds
    attempt,  \* answers of this model call that did not fit the schema
    steps,    \* the steps of this investigation, planned or with their evidence
    counter,  \* the number of the last step
    known,    \* the gathering tools of the runbook this investigation recalled
    runbook,  \* what the incident memory holds
    count,    \* investigations begun
    usable,   \* the providers this environment can build
    failed    \* the providers that raised in the model call under way, or in
              \* the last one

routerVars == <<usable, failed>>
vars == <<phase, round, attempt, steps, counter, known, runbook, count, routerVars>>

Init ==
    /\ phase = "idle" /\ round = 0 /\ attempt = 0
    /\ steps = {} /\ counter = 0 /\ known = {}
    /\ runbook = {} /\ count = 0
    /\ usable \in SUBSET Providers /\ failed = {}

-----------------------------------------------------------------------------
(* Planning.                                                                *)

\* _enrich fills in the inputs that were left out; what is proposed stays.
Call(p) == [tool |-> p.tool, inputs |-> IF p.inputs = NoInputs THEN Scope ELSE p.inputs]

Executed == {s.call : s \in steps}
Planned == {s \in steps : s.status = "planned"}

Step(n, call, reason) ==
    [id |-> n, call |-> call, reason |-> reason, status |-> "planned", data |-> Nothing]

MutKeptAnyTool(raw) ==
    {p \in raw : /\ Call(p) \notin Executed
                 /\ \A q \in raw : Call(q) = Call(p) => p.at <= q.at}
MutKeptAgain(raw) == {p \in raw : p.tool \in Gathering}

\* _normalize drops what is no gathering tool and what has a step already.
Kept(raw) ==
    {p \in raw : /\ p.tool \in Gathering
                 /\ Call(p) \notin Executed
                 /\ \A q \in raw : Call(q) = Call(p) => p.at <= q.at}

Rank(p, kept) == Cardinality({q \in kept : q.at <= p.at})

Normalize(raw, reason) ==
    {Step(counter + Rank(p, Kept(raw)), Call(p), reason) : p \in Kept(raw)}

FallbackPlan == {[at |-> FallbackOrder[t], tool |-> t, inputs |-> NoInputs] : t \in Gathering}

\* _data: the first item a tool collected; later ones are not looked at.
Collected(tool) == {s \in steps : s.call.tool = tool /\ s.status = "collected"}

First(tool) == CHOOSE s \in Collected(tool) : \A t \in Collected(tool) : s.id <= t.id
Data(tool) == IF Collected(tool) = {} THEN Nothing ELSE First(tool).data

DriftCall ==
    [tool |-> Drift, inputs |-> <<Data("sql_profile").values, Data("metadata_scan").values>>]

\* The drift check is added as soon as there is a baseline and a profile.
DerivedPlan ==
    IF /\ Data("metadata_scan").found
       /\ Data("sql_profile").values # {}
       /\ DriftCall \notin Executed
    THEN {Step(counter + 1, DriftCall, "derived")}
    ELSE {}

-----------------------------------------------------------------------------
(* One investigation.                                                       *)

\* Plan the proposals of a raw plan, or do without when none is left: the first
\* plan is then the fixed one, and a follow-up round ends the diagnosis.
Plan(raw, reason) ==
    /\ steps' = steps \cup Normalize(raw, reason)
    /\ counter' = counter + Cardinality(Kept(raw))
    /\ phase' = "gather"
DoWithout ==
    IF round = 0 THEN Plan(FallbackPlan, "fallback")
    ELSE phase' = "done" /\ UNCHANGED <<steps, counter>>

\* The retrieval may find the incident with its runbook, or nothing similar.
Recalled == {runbook, {}}

Begin ==
    /\ phase = "idle" /\ count < MaxInvestigations
    /\ count' = count + 1
    /\ \E recalled \in Recalled :
          LET tools == {p \in recalled : p.tool \in Gathering} IN
          /\ known' = tools
          /\ IF tools # {} THEN Plan(tools, "runbook")
             ELSE phase' = "ask" /\ UNCHANGED <<steps, counter>>
    /\ failed' = {}
    /\ UNCHANGED <<round, attempt, runbook, usable>>

\* build_provider needs a key, or an endpoint and a model name, and the SDK.
Buildable == {k \in DOMAIN Candidates : Candidates[k] \in usable}

\* resolve: the first candidate that can be built.
Provider ==
    IF Buildable = {} THEN NoProvider
    ELSE Candidates[CHOOSE k \in Buildable : \A j \in Buildable : k <= j]

\* No provider can be built, or the call of the one that was resolved raises:
\* there is no second attempt.
ModelFails ==
    /\ phase = "ask"
    /\ failed' = {Provider} \ {NoProvider}
    /\ DoWithout
    /\ UNCHANGED <<round, attempt, known, runbook, count, usable>>

MutBadAnswer ==
    /\ phase = "ask" /\ Provider # NoProvider
    /\ attempt' = IF attempt < MaxRetries THEN attempt + 1 ELSE 0
    /\ UNCHANGED <<phase, steps, counter, round, known, runbook, count, routerVars>>
\* An answer without JSON in it, or that does not fit the schema, is asked for
\* again, a few times.
BadAnswer ==
    /\ phase = "ask" /\ Provider # NoProvider
    /\ IF attempt < MaxRetries
       THEN attempt' = attempt + 1 /\ UNCHANGED <<phase, steps, counter>>
       ELSE DoWithout /\ UNCHANGED attempt
    /\ UNCHANGED <<round, known, runbook, count, routerVars>>

MutAnswer ==
    /\ phase = "ask" /\ Provider # NoProvider
    /\ \E raw \in RawPlans : Plan(raw, "planner")
    /\ UNCHANGED <<round, attempt, known, runbook, count, routerVars>>
\* The model proposes tools; a plan of which nothing is left is none.
Answer ==
    /\ phase = "ask" /\ Provider # NoProvider
    /\ \E raw \in RawPlans : IF Kept(raw) # {} THEN Plan(raw, "planner") ELSE DoWithout
    /\ UNCHANGED <<round, attempt, known, runbook, count, routerVars>>

\* What the tools find: a table without metadata, an empty profile or one the
\* SQL policy refused included.
MetadataFinds == {Nothing} \cup {[found |-> TRUE, values |-> b] : b \in Baselines}
ProfileFinds == {[found |-> TRUE, values |-> p] : p \in Profiles}
DriftFinds(call) == {[found |-> TRUE, values |-> call.inputs[1] \ call.inputs[2]]}

Finds(call) ==
    CASE call.tool = "metadata_scan" -> MetadataFinds
      [] call.tool = "sql_profile" -> ProfileFinds
      [] call.tool = Drift -> DriftFinds(call)
      [] OTHER -> {Nothing}

\* Any tool may fail; enum_drift_check fails on values that cannot be sorted.
Outcomes(s) ==
    {[s EXCEPT !.status = "error"]}
    \cup {[s EXCEPT !.status = "collected", !.data = d] : d \in Finds(s.call)}

\* execute_plan runs the steps of a plan in order and lets none of them raise.
\* Whatever is planned is registered, allowed and without dependencies, so no
\* step is blocked or skipped.
RunStep ==
    /\ phase \in {"gather", "derive"}
    /\ \E s \in Planned :
          /\ \A t \in Planned : s.id <= t.id
          /\ \E r \in Outcomes(s) : steps' = (steps \ {s}) \cup {r}
    /\ UNCHANGED <<phase, round, attempt, counter, known, runbook, count, routerVars>>

MutDerive ==
    /\ phase = "gather" /\ Planned = {}
    /\ phase' = "derive"
    /\ IF round = 0
       THEN /\ steps' = steps \cup DerivedPlan
            /\ counter' = counter + Cardinality(DerivedPlan)
       ELSE UNCHANGED <<steps, counter>>
    /\ UNCHANGED <<round, attempt, known, runbook, count, routerVars>>
Derive ==
    /\ phase = "gather" /\ Planned = {}
    /\ phase' = "derive"
    /\ steps' = steps \cup DerivedPlan
    /\ counter' = counter + Cardinality(DerivedPlan)
    /\ UNCHANGED <<round, attempt, known, runbook, count, routerVars>>

MutNextRound ==
    /\ phase = "derive" /\ Planned = {}
    /\ IF round <= MaxFollowups
       THEN phase' = "ask" /\ round' = round + 1 /\ attempt' = 0 /\ failed' = {}
       ELSE phase' = "done" /\ UNCHANGED <<round, attempt, failed>>
    /\ UNCHANGED <<steps, counter, known, runbook, count, usable>>
NextRound ==
    /\ phase = "derive" /\ Planned = {}
    /\ IF round < MaxFollowups
       THEN phase' = "ask" /\ round' = round + 1 /\ attempt' = 0 /\ failed' = {}
       ELSE phase' = "done" /\ UNCHANGED <<round, attempt, failed>>
    /\ UNCHANGED <<steps, counter, known, runbook, count, usable>>

\* tools_used: the tools that collected, in the order of their steps.
ToolsUsed ==
    {[at |-> s.id, tool |-> s.call.tool, inputs |-> NoInputs] :
        s \in {t \in steps : t.status = "collected"}}

\* The incident is remembered with the tools that were used, or with those a
\* human suggested, or not at all.
Close ==
    /\ phase = "done"
    /\ phase' = "idle" /\ round' = 0 /\ attempt' = 0
    /\ steps' = {} /\ counter' = 0 /\ known' = {}
    /\ \/ runbook' = ToolsUsed
       \/ \E raw \in RawPlans \ {{}} : runbook' = {[p EXCEPT !.inputs = NoInputs] : p \in raw}
       \/ UNCHANGED runbook
    /\ failed' = {}
    /\ UNCHANGED <<count, usable>>

Diagnose == ModelFails \/ BadAnswer \/ Answer \/ RunStep \/ Derive \/ NextRound
Next == Begin \/ Diagnose \/ Close

Spec == Init /\ [][Next]_vars /\ WF_vars(Diagnose)

-----------------------------------------------------------------------------
(* Correctness.                                                             *)

\* Every variable holds a value the code gives it; the rounds are bounded
\* (diagnostic_planner.py:64, :288), and so are the attempts of one model call.
TypeOK ==
    /\ phase \in {"idle", "ask", "gather", "derive", "done"}
    /\ round \in 0..MaxFollowups /\ attempt \in 0..MaxRetries
    /\ \A s \in steps :
          /\ s.id \in 1..counter
          /\ s.reason \in {"runbook", "planner", "fallback", "derived"}
          /\ s.status \in {"planned", "collected", "error"}
          /\ s.data \in Findings
    /\ counter \in Nat
    /\ IsRawPlan(known) /\ IsRawPlan(runbook)
    /\ count \in 0..MaxInvestigations
    /\ usable \in SUBSET Providers /\ failed \in SUBSET Providers

\* diagnostic_planner.py:5: whatever the runbook and the model propose, in one
\* plan or over the rounds, a tool runs once on the same inputs.
NoStepTwice == \A s, t \in steps : s.call = t.call => s = t

\* planner.py:43: nothing runs that is not one of the diagnostic tools, although
\* the registry and the tool policy admit write tools, and runbooks and
\* suggestions may name them.
OnlyDiagnostics ==
    \A s \in steps :
        \/ s.call.tool \in Gathering
        \/ s.call.tool = Drift /\ s.reason = "derived"

\* The summary is computed from one profile and one baseline: the drift verdict
\* is about those that are reported with it, over all rounds, and is only
\* missing when one of them is.
VerdictFitsEvidence ==
    phase = "done" =>
        /\ \A s \in steps : s.call.tool = Drift => s.call = DriftCall
        /\ Data("metadata_scan").found /\ Data("sql_profile").values # {} =>
              \E s \in steps : s.call.tool = Drift /\ s.status # "planned"

\* diagnostic_planner.py:8 and test_learning.py:64: the first plan comes from one
\* source.  A runbook is run in full and replaces the fixed plan; when neither
\* memory nor model gave a usable step, every gathering tool is tried.
FirstPlan ==
    phase = "done" =>
        \/ /\ known # {}
           /\ \A p \in known : \E s \in steps : s.call = Call(p) /\ s.reason = "runbook"
           /\ \A s \in steps : s.reason # "fallback"
        \/ /\ known = {}
           /\ \E s \in steps : s.reason = "planner"
           /\ \A s \in steps : s.reason \in {"planner", "derived"}
        \/ /\ known = {}
           /\ \A t \in Gathering : \E s \in steps :
                 s.call = [tool |-> t, inputs |-> Scope] /\ s.reason = "fallback"

\* Every diagnosis comes to an end.
Concludes == phase # "idle" ~> phase = "done"

\* diagnostic_planner.py:64, :288: every step of a diagnosis leaves fewer rounds,
\* or in the same round less to do: a model call or a plan, then an attempt of that
\* call, then a planned tool.  All of these are finite.
PhasesLeft == [idle |-> 0, ask |-> 3, gather |-> 2, derive |-> 1, done |-> 0]
Less ==
    \/ round < round' /\ round' <= MaxFollowups
    \/ /\ round' = round
       /\ \/ PhasesLeft[phase'] < PhasesLeft[phase]
          \/ /\ phase' = phase
             /\ \/ attempt < attempt' /\ attempt' <= MaxRetries
                \/ Planned' \subseteq Planned /\ Planned' # Planned
WorksOff == [][Diagnose => Less /\ IsFiniteSet(Planned')]_vars

\* models.yaml:109: a model that fails is replaced by another one.  When the
\* diagnosis goes on without a model, no provider is left that could be tried.
EveryModelTried == phase # "ask" /\ failed # {} => usable \subseteq failed
=============================================================================
