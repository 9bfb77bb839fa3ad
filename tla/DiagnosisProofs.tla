--------------------------- MODULE DiagnosisProofs ---------------------------
(***************************************************************************)
(* The diagnosis for every set of tools, every answer of the model, every  *)
(* evidence and every bound on rounds: what runs, and what the verdict is  *)
(* computed from.                                                          *)
(***************************************************************************)
EXTENDS Diagnosis, FiniteSetTheorems, TLAPS

Statuses == {"planned", "collected", "error"}
Reasons == {"runbook", "planner", "fallback", "derived"}
Known == Baselines \cup {{}}
Calls == [tool : Gathering \cup {Drift}, inputs : Inputs \cup (Profiles \X Known)]
StepSet == [id : Nat, call : Calls, reason : Reasons, status : Statuses, data : Findings]

BoundsInv == 
    /\ phase \in {"idle", "ask", "gather", "derive", "done"}
    /\ round \in 0..MaxFollowups /\ attempt \in 0..MaxRetries
    /\ count \in 0..MaxInvestigations
    /\ IsRawPlan(known) /\ IsRawPlan(runbook)

\* The steps are numbered, no number and no call is used twice.
StepsInv ==
    /\ steps \subseteq StepSet /\ IsFiniteSet(steps)
    /\ counter \in Nat
    /\ \A s \in steps : s.id \in 1..counter
    /\ \A s, t \in steps : s.id = t.id => s = t
    /\ NoStepTwice
    /\ OnlyDiagnostics

\* Steps run in the order of their numbers, so that a first item stays first.
OrderInv == \A s \in Planned : \A t \in steps \ Planned : t.id < s.id

\* What the two tools collect is a baseline and a profile, and the drift check
\* gets such values.
EvidenceInv ==
    \A s \in steps :
        /\ s.call.tool = "metadata_scan" => s.data.values \in Known
        /\ s.call.tool = "sql_profile" /\ s.status = "collected" => s.data.values \in Profiles
        /\ s.call.tool = Drift => s.call.inputs \in Profiles \X Known

\* When there are planned steps, and when there are none at all.
PhaseInv ==
    /\ phase = "idle" => steps = {} /\ counter = 0 /\ known = {} /\ round = 0 /\ attempt = 0
    /\ phase = "ask" /\ round = 0 => steps = {} /\ known = {}
    /\ phase \in {"ask", "done"} => Planned = {}
    /\ phase = "derive" => \A s \in Planned : s.call.tool = Drift

Usable == Data("metadata_scan").found /\ Data("sql_profile").values # {}
DriftPlanned == \E s \in steps : s.call.tool = Drift
DriftDue == phase \in {"derive", "done"} \/ (phase = "ask" /\ round > 0)

\* A drift check is about the first profile and baseline, which are there, and
\* it is there once the derivation had its turn.
VerdictInv ==
    /\ \A s \in steps : s.call.tool = Drift => Usable /\ s.call = DriftCall
    /\ DriftDue /\ Usable => DriftPlanned

\* The first plan has one source, as soon as there is one.
FromRunbook ==
    /\ known # {}
    /\ \A p \in known : \E s \in steps : s.call = Call(p) /\ s.reason = "runbook"
    /\ \A s \in steps : s.reason # "fallback"
FromModel ==
    /\ known = {}
    /\ \E s \in steps : s.reason = "planner"
    /\ \A s \in steps : s.reason \in {"planner", "derived"}
FromFallback ==
    /\ known = {}
    /\ \A t \in Gathering : \E s \in steps :
          s.call = [tool |-> t, inputs |-> Scope] /\ s.reason = "fallback"
HasPlan == phase # "idle" /\ ~(phase = "ask" /\ round = 0)
SourceInv ==
    /\ \A p \in known : p.tool \in Gathering
    /\ HasPlan => FromRunbook \/ FromModel \/ FromFallback

IInv == /\ BoundsInv /\ StepsInv /\ OrderInv /\ EvidenceInv
        /\ PhaseInv /\ VerdictInv /\ SourceInv

-----------------------------------------------------------------------------
(* Numbers and finite sets.                                                 *)

\* A non-empty set of numbered things has a first one.
LEMMA LeastNumber ==
    ASSUME NEW S, S \subseteq Nat, S # {}
    PROVE  \E m \in S : \A n \in S : m <= n
  <1>1. \E m \in S : \A n \in S : ~ (<<n, m>> \in OpToRel(<, Nat))
    BY NatLessThanWellFounded, WFMin
  <1>2. PICK m \in S : \A n \in S : ~ (<<n, m>> \in OpToRel(<, Nat)) BY <1>1
  <1>3. \A n \in S : ~ (n < m) BY <1>2 DEF OpToRel
  <1> QED BY <1>3

\* The image of a finite set is finite, and not larger.
LEMMA ImageFinite ==
    ASSUME NEW S, NEW T, IsFiniteSet(S), NEW f \in [S -> T],
           \A t \in T : \E s \in S : f[s] = t
    PROVE  IsFiniteSet(T) /\ Cardinality(T) <= Cardinality(S)
  <1>1. f \in Surjection(S, T) BY DEF Surjection
  <1> QED BY <1>1, FS_Surjection

\* What is kept of a raw plan has distinct ranks from 1 on.
LEMMA Ranks ==
    ASSUME NEW kept, IsRawPlan(kept)
    PROVE  /\ Cardinality(kept) \in Nat
           /\ \A p \in kept : Rank(p, kept) \in 1..Cardinality(kept)
           /\ \A p, q \in kept : Rank(p, kept) = Rank(q, kept) => p = q
  <1> DEFINE upto(p) == {q \in kept : q.at <= p.at}
  <1>1. IsFiniteSet(kept) /\ Cardinality(kept) \in Nat
    BY FS_CardinalityType DEF IsRawPlan
  <1>2. ASSUME NEW p \in kept
        PROVE  /\ IsFiniteSet(upto(p)) /\ Cardinality(upto(p)) \in 1..Cardinality(kept)
               /\ p \in upto(p)
    <2>1. p.at \in Nat BY DEF IsRawPlan, Proposal
    <2>2. p \in upto(p) BY <2>1
    <2>3. IsFiniteSet(upto(p)) /\ Cardinality(upto(p)) <= Cardinality(kept)
      BY <1>1, FS_Subset
    <2>4. Cardinality(upto(p)) \in Nat /\ Cardinality(upto(p)) # 0
      BY <2>2, <2>3, FS_CardinalityType, FS_EmptySet
    <2> QED BY <1>1, <2>2, <2>3, <2>4
  <1>3. ASSUME NEW p \in kept, NEW q \in kept, p.at <= q.at,
               Cardinality(upto(p)) = Cardinality(upto(q))
        PROVE  p = q
    <2>1. \A r \in kept : r.at \in Nat BY DEF IsRawPlan, Proposal
    <2>2. upto(p) \in SUBSET upto(q) BY <1>3, <2>1
    <2>3. upto(p) = upto(q) BY <1>2, <1>3, <2>2, FS_Subset
    <2>4. q.at <= p.at BY <1>2, <2>3
    <2> QED BY <1>3, <2>1, <2>4 DEF IsRawPlan
  <1>4. \A p, q \in kept : p.at <= q.at \/ q.at <= p.at BY DEF IsRawPlan, Proposal
  <1>5. \A p \in kept : Rank(p, kept) = Cardinality(upto(p)) BY DEF Rank
  <1> QED BY <1>1, <1>2, <1>3, <1>4, <1>5

\* What is kept of a raw plan is a raw plan of gathering tools.
LEMMA KeptIsPlan ==
    ASSUME NEW raw, IsRawPlan(raw)
    PROVE  IsRawPlan(Kept(raw)) /\ \A p \in Kept(raw) : p.tool \in Gathering
  <1>1. Kept(raw) \in SUBSET raw BY DEF Kept
  <1>2. IsFiniteSet(Kept(raw)) BY <1>1, FS_Subset DEF IsRawPlan
  <1> QED BY <1>1, <1>2 DEF IsRawPlan, Kept

\* Without any step, the first proposal of every gathering call is kept.
LEMMA FirstProposalKept ==
    ASSUME NEW raw, IsRawPlan(raw), steps = {},
           NEW p \in raw, p.tool \in Gathering
    PROVE  \E q \in Kept(raw) : Call(q) = Call(p)
  <1> DEFINE same == {q \in raw : Call(q) = Call(p)}
             places == {q.at : q \in same}
  <1>1. places \subseteq Nat /\ places # {} BY DEF IsRawPlan, Proposal
  <1>2. PICK m \in places : \A n \in places : m <= n
    <2> HIDE DEF places
    <2> QED BY <1>1, LeastNumber
  <1>3. PICK q \in same : q.at = m BY <1>2
  <1>4. \A r \in raw : Call(r) = Call(q) => q.at <= r.at BY <1>2, <1>3
  <1>5. Call(q).tool = q.tool /\ Call(p).tool = p.tool BY DEF Call
  <1>6. q.tool \in Gathering BY <1>3, <1>5
  <1>7. Executed = {} BY DEF Executed
  <1> QED BY <1>3, <1>4, <1>6, <1>7 DEF Kept

\* The call of a proposal for a gathering tool reads inputs of the catalogue.
LEMMA CallType ==
    ASSUME NEW raw, IsRawPlan(raw), NEW p \in raw, p.tool \in Gathering
    PROVE  Call(p) \in Calls /\ Call(p).tool = p.tool
  <1>1. p.inputs \in Inputs \cup {NoInputs} BY DEF IsRawPlan, Proposal
  <1>2. (IF p.inputs = NoInputs THEN Scope ELSE p.inputs) \in Inputs
    BY <1>1, DiagnosisAssumption
  <1> QED BY <1>2 DEF Call, Calls

\* The steps that a raw plan adds.
LEMMA NewSteps ==
    ASSUME StepsInv, NEW raw, IsRawPlan(raw), NEW reason \in Reasons
    PROVE  LET new == Normalize(raw, reason) IN
           /\ IsFiniteSet(new)
           /\ \A s \in new :
                 /\ s \in StepSet
                 /\ s.id \in counter + 1 .. counter + Cardinality(Kept(raw))
                 /\ s.call.tool \in Gathering /\ s.call \notin Executed
                 /\ s.status = "planned" /\ s.data = Nothing /\ s.reason = reason
           /\ \A s, t \in new : s.id = t.id => s = t
           /\ \A s, t \in new : s.call = t.call => s = t
           /\ \A p \in Kept(raw) : \E s \in new : s.call = Call(p)
           /\ Cardinality(Kept(raw)) \in Nat
  <1> DEFINE kept == Kept(raw)
             step(p) == Step(counter + Rank(p, kept), Call(p), reason)
             new == {step(p) : p \in kept}
  <1>1. IsRawPlan(kept) /\ \A p \in kept : p.tool \in Gathering BY KeptIsPlan
  <1>2. /\ Cardinality(kept) \in Nat
        /\ \A p \in kept : Rank(p, kept) \in 1..Cardinality(kept)
        /\ \A p, q \in kept : Rank(p, kept) = Rank(q, kept) => p = q
    <2> HIDE DEF kept
    <2> QED BY <1>1, Ranks
  <1>3. IsFiniteSet(new)
    <2> DEFINE f == [p \in kept |-> step(p)]
    <2>1. f \in [kept -> new] /\ \A s \in new : \E p \in kept : f[p] = s OBVIOUS
    <2>2. IsFiniteSet(kept) BY <1>1 DEF IsRawPlan
    <2> HIDE DEF f, new, kept
    <2> QED BY <2>1, <2>2, ImageFinite
  <1>4. ASSUME NEW p \in kept
        PROVE  /\ step(p) \in StepSet
               /\ step(p).id \in counter + 1 .. counter + Cardinality(kept)
               /\ step(p).call = Call(p)
               /\ Call(p).tool \in Gathering /\ Call(p) \notin Executed
               /\ step(p).status = "planned" /\ step(p).data = Nothing
               /\ step(p).reason = reason
    <2>1. Call(p) \in Calls /\ Call(p).tool \in Gathering BY <1>1, CallType
    <2>2. Call(p) \notin Executed BY DEF Kept
    <2>3. counter \in Nat /\ Rank(p, kept) \in 1..Cardinality(kept)
      BY <1>2 DEF StepsInv
    <2>4. counter + Rank(p, kept) \in counter + 1 .. counter + Cardinality(kept)
      <3> HIDE DEF kept
      <3> QED BY <1>2, <2>3
    <2>5. Nothing \in Findings BY DEF Nothing, Findings
    <2>6. counter + Rank(p, kept) \in Nat
      <3> HIDE DEF kept
      <3> QED BY <1>2, <2>3
    <2> HIDE DEF kept
    <2> QED BY <2>1, <2>2, <2>4, <2>5, <2>6 DEF Step, StepSet, Statuses
  <1>5. ASSUME NEW p \in kept, NEW q \in kept, step(p).id = step(q).id
        PROVE  p = q
    <2>1. counter + Rank(p, kept) = counter + Rank(q, kept)
      BY <1>5 DEF Step
    <2>2. counter \in Nat BY DEF StepsInv
    <2> HIDE DEF kept
    <2>3. Rank(p, kept) = Rank(q, kept) BY <1>2, <2>1, <2>2
    <2> QED BY <1>2, <2>3
  <1>6. ASSUME NEW p \in kept, NEW q \in kept, Call(p) = Call(q)
        PROVE  p = q
    <2>1. p \in raw /\ q \in raw BY DEF Kept
    <2>2. p.at <= q.at /\ q.at <= p.at BY <1>6, <2>1 DEF Kept
    <2>3. p.at \in Nat /\ q.at \in Nat BY <2>1 DEF IsRawPlan, Proposal
    <2> QED BY <2>1, <2>2, <2>3 DEF IsRawPlan
  <1>7. Normalize(raw, reason) = new BY DEF Normalize
  <1> HIDE DEF kept, step
  <1> QED BY <1>2, <1>3, <1>4, <1>5, <1>6, <1>7 DEF kept

-----------------------------------------------------------------------------
(* What a plan and a run change.                                            *)

\* The first item of what a tool collected.
FirstOf(S) == CHOOSE s \in S : \A t \in S : s.id <= t.id
DataOf(S) == IF S = {} THEN Nothing ELSE FirstOf(S).data

\* What a tool collected determines its data.
LEMMA DataFromCollected ==
    /\ \A tool : Data(tool) = DataOf(Collected(tool))
    /\ \A tool : Data(tool)' = DataOf(Collected(tool)')
  <1>1. \A tool : First(tool) = FirstOf(Collected(tool)) BY DEF First, FirstOf
  <1>2. \A tool : First(tool)' = FirstOf(Collected(tool)') BY DEF First, FirstOf
  <1>3. \A tool : Data(tool) = DataOf(Collected(tool)) BY <1>1 DEF Data, DataOf
  <1>4. \A tool : Data(tool)' = DataOf(Collected(tool)') BY <1>2 DEF Data, DataOf
  <1> QED BY <1>3, <1>4

\* Items with later numbers do not change which one is first.
LEMMA FirstStays ==
    ASSUME NEW S, NEW T, S \subseteq T, S # {},
           \A s \in T : s.id \in Nat,
           \A s, t \in T : s.id = t.id => s = t,
           \A s \in S : \A t \in T \ S : s.id < t.id
    PROVE  FirstOf(T) = FirstOf(S) /\ FirstOf(S) \in S
  <1> DEFINE ids == {s.id : s \in S}
  <1>1. \E m \in ids : \A n \in ids : m <= n
    <2>1. ids \subseteq Nat /\ ids # {} OBVIOUS
    <2> HIDE DEF ids
    <2> QED BY <2>1, LeastNumber
  <1>2. PICK f \in S : \A s \in S : f.id <= s.id BY <1>1
  <1>3. \A t \in T : f.id <= t.id BY <1>2
  <1>4. ASSUME NEW g \in T, \A t \in T : g.id <= t.id PROVE g = f BY <1>2, <1>3, <1>4
  <1>5. ASSUME NEW g \in S, \A t \in S : g.id <= t.id PROVE g = f BY <1>2, <1>5
  <1>6. FirstOf(T) = f
    <2>1. \E g \in T : \A t \in T : g.id <= t.id BY <1>2, <1>3
    <2>2. FirstOf(T) \in T /\ \A t \in T : FirstOf(T).id <= t.id BY <2>1 DEF FirstOf
    <2> QED BY <1>4, <2>2
  <1>7. FirstOf(S) = f
    <2>1. FirstOf(S) \in S /\ \A t \in S : FirstOf(S).id <= t.id BY <1>2 DEF FirstOf
    <2> QED BY <1>5, <2>1
  <1> QED BY <1>6, <1>7

\* The first item is one of the items.
LEMMA FirstIsCollected ==
    ASSUME StepsInv, NEW tool, Collected(tool) # {}
    PROVE  Data(tool) = FirstOf(Collected(tool)).data /\ FirstOf(Collected(tool)) \in Collected(tool)
  <1>1. Collected(tool) \subseteq steps BY DEF Collected
  <1>2. \A s \in steps : s.id \in Nat BY DEF StepsInv, StepSet
  <1>3. FirstOf(Collected(tool)) \in Collected(tool)
    BY <1>1, <1>2, FirstStays, \A s, t \in steps : s.id = t.id => s = t DEF StepsInv
  <1> QED BY <1>3, DataFromCollected DEF DataOf

\* Steps added to the plan leave the evidence and the invariants of the steps.
LEMMA AddedSteps ==
    ASSUME StepsInv, EvidenceInv, Planned = {},
           NEW new, NEW n \in Nat,
           steps' = steps \cup new, counter' = counter + n, IsFiniteSet(new),
           \A s \in new :
              /\ s \in StepSet
              /\ s.id \in counter + 1 .. counter + n
              /\ s.call \notin Executed
              /\ s.status = "planned" /\ s.data = Nothing
              /\ \/ s.call.tool \in Gathering
                 \/ s.call.tool = Drift /\ s.reason = "derived"
              /\ s.call.tool = Drift => s.call.inputs \in Profiles \X Known,
           \A s, t \in new : s.id = t.id => s = t,
           \A s, t \in new : s.call = t.call => s = t
    PROVE  /\ StepsInv' /\ OrderInv' /\ EvidenceInv'
           /\ \A tool : Collected(tool)' = Collected(tool)
           /\ \A tool : Data(tool)' = Data(tool)
  <1>1. (steps \subseteq StepSet /\ IsFiniteSet(steps))'
    BY FS_Union DEF StepsInv
  <1>2. counter \in Nat /\ (counter \in Nat)' BY DEF StepsInv
  <1>3. (\A s \in steps : s.id \in 1..counter)' BY <1>2 DEF StepsInv
  <1>4. (\A s, t \in steps : s.id = t.id => s = t)' BY <1>2 DEF StepsInv
  <1>5. NoStepTwice'
    <2>1. \A s \in steps : s.call \in Executed BY DEF Executed
    <2> QED BY <2>1 DEF StepsInv, NoStepTwice
  <1>6. OnlyDiagnostics' BY DEF StepsInv, OnlyDiagnostics
  <1>7. StepsInv' BY <1>1, <1>2, <1>3, <1>4, <1>5, <1>6 DEF StepsInv
  <1>8. OrderInv'
    <2>1. \A s \in Planned' : s \in new BY DEF Planned
    <2>2. \A t \in (steps \ Planned)' : t \in steps BY DEF Planned
    <2>3. \A s \in new : \A t \in steps : t.id < s.id BY <1>2 DEF StepsInv
    <2> QED BY <2>1, <2>2, <2>3 DEF OrderInv
  <1>9. EvidenceInv' BY DEF EvidenceInv, Nothing, Known
  <1>10. \A tool : Collected(tool)' = Collected(tool) BY DEF Collected
  <1>11. \A tool : Data(tool)' = Data(tool) BY <1>10, DataFromCollected
  <1> QED BY <1>7, <1>8, <1>9, <1>10, <1>11

-----------------------------------------------------------------------------
(* The invariant holds initially and every action keeps it.                 *)

\* A plan adds steps of gathering tools and changes no evidence.
LEMMA PlanKeeps ==
    ASSUME IInv, Planned = {}, NEW raw, IsRawPlan(raw),
           NEW reason \in {"runbook", "planner", "fallback"}, Plan(raw, reason)
    PROVE  /\ StepsInv' /\ OrderInv' /\ EvidenceInv' /\ VerdictInv'
           /\ steps \subseteq steps'
           /\ \A s \in steps' \ steps : s.reason = reason
           /\ \A p \in Kept(raw) : \E s \in steps' : s.call = Call(p) /\ s.reason = reason
  <1> DEFINE new == Normalize(raw, reason)
             n == Cardinality(Kept(raw))
  <1>1. Drift \notin Gathering BY DiagnosisAssumption
  <1>2. /\ IsFiniteSet(new) /\ n \in Nat
        /\ \A s \in new :
              /\ s \in StepSet
              /\ s.id \in counter + 1 .. counter + n
              /\ s.call.tool \in Gathering /\ s.call \notin Executed
              /\ s.status = "planned" /\ s.data = Nothing /\ s.reason = reason
        /\ \A s, t \in new : s.id = t.id => s = t
        /\ \A s, t \in new : s.call = t.call => s = t
        /\ \A p \in Kept(raw) : \E s \in new : s.call = Call(p)
    BY NewSteps DEF IInv, Reasons
  <1>3. steps' = steps \cup new /\ counter' = counter + n /\ phase' = "gather" BY DEF Plan
  <1> HIDE DEF new, n
  <1>4. /\ StepsInv' /\ OrderInv' /\ EvidenceInv'
        /\ \A tool : Data(tool)' = Data(tool)
    BY <1>1, <1>2, <1>3, AddedSteps DEF IInv
  <1>5. VerdictInv'
    <2>1. DriftCall' = DriftCall /\ Usable' = Usable BY <1>4 DEF DriftCall, Usable
    <2>2. \A s \in steps' : s.call.tool = Drift => s \in steps BY <1>1, <1>2, <1>3
    <2>3. ~DriftDue' BY <1>3 DEF DriftDue
    <2> QED BY <2>1, <2>2, <2>3 DEF IInv, VerdictInv
  <1> QED BY <1>2, <1>3, <1>4, <1>5

\* The fixed plan is a raw plan of every gathering tool.
LEMMA FallbackIsPlan ==
    /\ IsRawPlan(FallbackPlan)
    /\ steps = {} => \A t \in Gathering : \E q \in Kept(FallbackPlan) :
                        Call(q) = [tool |-> t, inputs |-> Scope]
  <1> DEFINE p(t) == [at |-> FallbackOrder[t], tool |-> t, inputs |-> NoInputs]
  <1>1. IsFiniteSet(FallbackPlan)
    <2> DEFINE f == [t \in Gathering |-> p(t)]
    <2>1. f \in [Gathering -> FallbackPlan] /\ \A q \in FallbackPlan : \E t \in Gathering : f[t] = q
      BY DEF FallbackPlan
    <2> HIDE DEF f
    <2> QED BY <2>1, ImageFinite, DiagnosisAssumption
  <1>2. FallbackPlan \in SUBSET Proposal BY DiagnosisAssumption DEF FallbackPlan, Proposal
  <1>3. IsRawPlan(FallbackPlan)
    BY <1>1, <1>2, DiagnosisAssumption DEF IsRawPlan, FallbackPlan
  <1>4. ASSUME steps = {}, NEW t \in Gathering
        PROVE  \E q \in Kept(FallbackPlan) : Call(q) = [tool |-> t, inputs |-> Scope]
    <2>1. p(t) \in FallbackPlan BY DEF FallbackPlan
    <2>2. Call(p(t)) = [tool |-> t, inputs |-> Scope] BY DEF Call
    <2>3. p(t).tool \in Gathering OBVIOUS
    <2> HIDE DEF p
    <2> QED BY <1>3, <1>4, <2>1, <2>2, <2>3, FirstProposalKept
  <1> QED BY <1>3, <1>4

\* Doing without the model's plan.
LEMMA DoWithoutKeeps ==
    ASSUME IInv, phase = "ask", DoWithout, round' = round, known' = known
    PROVE  /\ phase' \in {"gather", "done"}
           /\ StepsInv' /\ OrderInv' /\ EvidenceInv' /\ PhaseInv' /\ VerdictInv' /\ SourceInv'
  <1>1. Planned = {} BY DEF IInv, PhaseInv
  <1>2. CASE round = 0
    <2>1. Plan(FallbackPlan, "fallback") BY <1>2 DEF DoWithout
    <2>2. steps = {} /\ known = {} BY <1>2 DEF IInv, PhaseInv
    <2>3. /\ StepsInv' /\ OrderInv' /\ EvidenceInv' /\ VerdictInv'
          /\ \A q \in Kept(FallbackPlan) :
                \E s \in steps' : s.call = Call(q) /\ s.reason = "fallback"
      BY <1>1, <2>1, PlanKeeps, FallbackIsPlan
    <2>4. phase' = "gather" BY <2>1 DEF Plan
    <2>5. PhaseInv' BY <2>4 DEF PhaseInv
    <2>6. FromFallback' BY <2>2, <2>3, FallbackIsPlan DEF FromFallback
    <2>7. SourceInv' BY <2>2, <2>6 DEF SourceInv
    <2> QED BY <2>3, <2>4, <2>5, <2>7
  <1>3. CASE round # 0
    <2>1. phase' = "done" /\ UNCHANGED <<steps, counter>> BY <1>3 DEF DoWithout
    <2>2. StepsInv' /\ OrderInv' /\ EvidenceInv'
      BY <2>1 DEF IInv, StepsInv, OrderInv, EvidenceInv, NoStepTwice, OnlyDiagnostics, Planned
    <2>3. PhaseInv' BY <1>1, <2>1 DEF PhaseInv, Planned
    <2>4. round > 0 BY <1>3 DEF IInv, BoundsInv
    <2>5. \A tool : Data(tool)' = Data(tool) BY <2>1, DataFromCollected DEF Collected
    <2>6. VerdictInv'
      BY <2>1, <2>4, <2>5 DEF IInv, VerdictInv, DriftDue, DriftPlanned, Usable, DriftCall
    <2>7. SourceInv'
      BY <2>1, <2>4 DEF IInv, SourceInv, HasPlan, FromRunbook, FromModel, FromFallback
    <2> QED BY <2>1, <2>2, <2>3, <2>6, <2>7
  <1> QED BY <1>2, <1>3

\* Before any investigation there are no steps.
LEMMA InitInv == Init => IInv
  <1> SUFFICES ASSUME Init PROVE IInv OBVIOUS
  <1> USE DEF Init
  <1>1. IsFiniteSet({}) BY FS_EmptySet
  <1>2. BoundsInv BY <1>1, DiagnosisAssumption DEF BoundsInv, IsRawPlan
  <1>3. StepsInv BY <1>1 DEF StepsInv, NoStepTwice, OnlyDiagnostics
  <1>4. OrderInv /\ EvidenceInv /\ PhaseInv BY DEF OrderInv, EvidenceInv, PhaseInv, Planned
  <1>5. VerdictInv /\ SourceInv BY DEF VerdictInv, SourceInv, DriftDue, HasPlan
  <1> QED BY <1>2, <1>3, <1>4, <1>5 DEF IInv

\* A runbook that names a gathering tool becomes the first plan, in full.
LEMMA BeginInv == IInv /\ Begin => IInv'
  <1> SUFFICES ASSUME IInv, Begin PROVE IInv' OBVIOUS
  <1>1. PICK recalled \in Recalled :
          LET tools == {p \in recalled : p.tool \in Gathering} IN
          /\ known' = tools
          /\ IF tools # {} THEN Plan(tools, "runbook")
             ELSE phase' = "ask" /\ UNCHANGED <<steps, counter>>
    BY DEF Begin
  <1> DEFINE tools == {p \in recalled : p.tool \in Gathering}
  <1>2. /\ phase = "idle" /\ count < MaxInvestigations /\ count' = count + 1
        /\ UNCHANGED <<round, attempt, runbook>>
    BY DEF Begin
  <1>3. steps = {} /\ counter = 0 /\ known = {} /\ round = 0 /\ attempt = 0 /\ Planned = {}
    BY <1>2 DEF IInv, PhaseInv, Planned
  <1>4. IsRawPlan(tools)
    <2>1. IsRawPlan(recalled) BY FS_EmptySet DEF Recalled, IsRawPlan, IInv, BoundsInv
    <2>2. tools \in SUBSET recalled OBVIOUS
    <2>3. IsFiniteSet(tools) BY <2>1, <2>2, FS_Subset DEF IsRawPlan
    <2> QED BY <2>1, <2>2, <2>3 DEF IsRawPlan
  <1>5. phase' \in {"ask", "gather"} BY <1>1 DEF Plan
  <1>6. BoundsInv'
    <2>1. count' \in 0..MaxInvestigations
      BY <1>2, DiagnosisAssumption DEF IInv, BoundsInv
    <2> QED BY <1>1, <1>2, <1>4, <1>5, <2>1 DEF IInv, BoundsInv
  <1>7. CASE tools # {}
    <2>1. known' = tools /\ Plan(tools, "runbook") BY <1>1, <1>7
    <2>2. phase' = "gather" BY <2>1 DEF Plan
    <2> HIDE DEF tools
    <2>3. /\ StepsInv' /\ OrderInv' /\ EvidenceInv' /\ VerdictInv'
          /\ \A s \in steps' : s.reason = "runbook"
          /\ \A p \in Kept(tools) : \E s \in steps' : s.call = Call(p) /\ s.reason = "runbook"
      BY <1>3, <1>4, <2>1, PlanKeeps
    <2>4. \A p \in tools : \E s \in steps' : s.call = Call(p) /\ s.reason = "runbook"
      <3> SUFFICES ASSUME NEW p \in tools
                   PROVE  \E s \in steps' : s.call = Call(p) /\ s.reason = "runbook"
        OBVIOUS
      <3>1. p.tool \in Gathering BY DEF tools
      <3>2. PICK q \in Kept(tools) : Call(q) = Call(p)
        BY <1>3, <1>4, <3>1, FirstProposalKept
      <3> QED BY <2>3, <3>2
    <2>5. FromRunbook' BY <1>7, <2>1, <2>3, <2>4 DEF FromRunbook, Call
    <2>6. SourceInv' BY <2>1, <2>5 DEF SourceInv, tools
    <2>7. PhaseInv' BY <2>2 DEF PhaseInv
    <2> QED BY <1>6, <2>3, <2>6, <2>7 DEF IInv
  <1>8. CASE tools = {}
    <2>1. phase' = "ask" /\ UNCHANGED <<steps, counter>> /\ known' = {} BY <1>1, <1>8
    <2>2. StepsInv' BY <2>1 DEF IInv, StepsInv, NoStepTwice, OnlyDiagnostics
    <2>3. OrderInv' /\ EvidenceInv' /\ PhaseInv'
      BY <1>2, <1>3, <2>1 DEF OrderInv, EvidenceInv, PhaseInv, Planned
    <2>4. VerdictInv' /\ SourceInv'
      BY <1>2, <1>3, <2>1 DEF VerdictInv, SourceInv, DriftDue, HasPlan
    <2> QED BY <1>6, <2>2, <2>3, <2>4 DEF IInv
  <1> QED BY <1>7, <1>8

\* Without a model the fixed plan runs, or the follow-ups end.
LEMMA ModelFailsInv == IInv /\ ModelFails => IInv'
  <1> SUFFICES ASSUME IInv, ModelFails PROVE IInv' OBVIOUS
  <1>1. phase = "ask" /\ DoWithout /\ UNCHANGED <<round, attempt, known, runbook, count>>
    BY DEF ModelFails
  <1>2. /\ phase' \in {"gather", "done"}
        /\ StepsInv' /\ OrderInv' /\ EvidenceInv' /\ PhaseInv' /\ VerdictInv' /\ SourceInv'
    BY <1>1, DoWithoutKeeps
  <1>3. BoundsInv' BY <1>1, <1>2 DEF IInv, BoundsInv
  <1> QED BY <1>2, <1>3 DEF IInv

\* An answer that does not fit the schema is asked for again, or given up.
LEMMA BadAnswerInv == IInv /\ BadAnswer => IInv'
  <1> SUFFICES ASSUME IInv, BadAnswer PROVE IInv' OBVIOUS
  <1>1. phase = "ask" /\ UNCHANGED <<round, known, runbook, count>> BY DEF BadAnswer
  <1>2. CASE attempt < MaxRetries
    <2>1. attempt' = attempt + 1 /\ UNCHANGED <<phase, steps, counter>> BY <1>2 DEF BadAnswer
    <2>2. BoundsInv' BY <1>1, <1>2, <2>1, DiagnosisAssumption DEF IInv, BoundsInv
    <2>3. StepsInv' /\ OrderInv' /\ EvidenceInv'
      BY <2>1 DEF IInv, StepsInv, OrderInv, EvidenceInv, NoStepTwice, OnlyDiagnostics, Planned
    <2>4. PhaseInv' BY <1>1, <2>1 DEF IInv, PhaseInv, Planned
    <2>5. \A tool : Data(tool)' = Data(tool) BY <2>1, DataFromCollected DEF Collected
    <2>6. VerdictInv'
      BY <1>1, <2>1, <2>5 DEF IInv, VerdictInv, DriftDue, DriftPlanned, Usable, DriftCall
    <2>7. SourceInv'
      BY <1>1, <2>1 DEF IInv, SourceInv, HasPlan, FromRunbook, FromModel, FromFallback
    <2> QED BY <2>2, <2>3, <2>4, <2>6, <2>7 DEF IInv
  <1>3. CASE ~(attempt < MaxRetries)
    <2>1. DoWithout /\ UNCHANGED attempt BY <1>3 DEF BadAnswer
    <2>2. /\ phase' \in {"gather", "done"}
          /\ StepsInv' /\ OrderInv' /\ EvidenceInv' /\ PhaseInv' /\ VerdictInv' /\ SourceInv'
      BY <1>1, <2>1, DoWithoutKeeps
    <2>3. BoundsInv' BY <1>1, <2>1, <2>2 DEF IInv, BoundsInv
    <2> QED BY <2>2, <2>3 DEF IInv
  <1> QED BY <1>2, <1>3

\* The model's plan is filtered; what nothing is left of is no plan.
LEMMA AnswerInv == IInv /\ Answer => IInv'
  <1> SUFFICES ASSUME IInv, Answer PROVE IInv' OBVIOUS
  <1>1. phase = "ask" /\ UNCHANGED <<round, attempt, known, runbook, count>> BY DEF Answer
  <1>2. PICK raw \in RawPlans : IF Kept(raw) # {} THEN Plan(raw, "planner") ELSE DoWithout
    BY DEF Answer
  <1>3. IsRawPlan(raw) BY DiagnosisAssumption
  <1>4. CASE Kept(raw) # {}
    <2>1. Plan(raw, "planner") BY <1>2, <1>4
    <2>2. phase' = "gather" BY <2>1 DEF Plan
    <2>3. Planned = {} BY <1>1 DEF IInv, PhaseInv
    <2>4. /\ StepsInv' /\ OrderInv' /\ EvidenceInv' /\ VerdictInv'
          /\ steps \subseteq steps'
          /\ \A s \in steps' \ steps : s.reason = "planner"
          /\ \A p \in Kept(raw) : \E s \in steps' : s.call = Call(p) /\ s.reason = "planner"
      BY <1>3, <2>1, <2>3, PlanKeeps
    <2>5. BoundsInv' BY <1>1, <2>2 DEF IInv, BoundsInv
    <2>6. PhaseInv' BY <2>2 DEF PhaseInv
    <2>7. CASE round = 0
      <3>1. steps = {} /\ known = {} BY <1>1, <2>7 DEF IInv, PhaseInv
      <3>2. FromModel' BY <1>1, <1>4, <2>4, <3>1 DEF FromModel
      <3>3. SourceInv' BY <1>1, <3>1, <3>2 DEF SourceInv
      <3> QED BY <2>4, <2>5, <2>6, <3>3 DEF IInv
    <2>8. CASE round # 0
      <3>1. FromRunbook \/ FromModel \/ FromFallback BY <1>1, <2>8 DEF IInv, SourceInv, HasPlan
      <3>2. FromRunbook => FromRunbook' BY <1>1, <2>4 DEF FromRunbook, Call
      <3>3. FromModel => FromModel' BY <1>1, <2>4 DEF FromModel
      <3>4. FromFallback => FromFallback' BY <1>1, <2>4 DEF FromFallback
      <3>5. SourceInv' BY <1>1, <3>1, <3>2, <3>3, <3>4 DEF IInv, SourceInv
      <3> QED BY <2>4, <2>5, <2>6, <3>5 DEF IInv
    <2> QED BY <2>7, <2>8
  <1>5. CASE Kept(raw) = {}
    <2>1. DoWithout BY <1>2, <1>5
    <2>2. /\ phase' \in {"gather", "done"}
          /\ StepsInv' /\ OrderInv' /\ EvidenceInv' /\ PhaseInv' /\ VerdictInv' /\ SourceInv'
      BY <1>1, <2>1, DoWithoutKeeps
    <2>3. BoundsInv' BY <1>1, <2>2 DEF IInv, BoundsInv
    <2> QED BY <2>2, <2>3 DEF IInv
  <1> QED BY <1>4, <1>5

\* What a run makes of its step.
LEMMA OutcomeType ==
    ASSUME IInv, NEW s \in steps, s.status = "planned", NEW r \in Outcomes(s)
    PROVE  /\ r \in StepSet
           /\ r.id = s.id /\ r.call = s.call /\ r.reason = s.reason
           /\ r.status \in {"error", "collected"}
           /\ r.call.tool = "metadata_scan" => r.data.values \in Known
           /\ r.call.tool = "sql_profile" /\ r.status = "collected" => r.data.values \in Profiles
  <1>1. s \in StepSet BY DEF IInv, StepsInv
  <1>2. CASE r = [s EXCEPT !.status = "error"]
    <2>1. s.call.tool = "metadata_scan" => s.data.values \in Known BY DEF IInv, EvidenceInv
    <2> QED BY <1>1, <1>2, <2>1 DEF StepSet, Statuses
  <1>3. ASSUME NEW d \in Finds(s.call), r = [s EXCEPT !.status = "collected", !.data = d]
        PROVE  /\ d \in Findings
               /\ s.call.tool = "metadata_scan" => d.values \in Known
               /\ s.call.tool = "sql_profile" => d.values \in Profiles
    <2>0. /\ Nothing \in Findings
          /\ \A v \in Baselines \cup Profiles \cup {{}} : [found |-> TRUE, values |-> v] \in Findings
      BY DEF Nothing, Findings
    <2>1. CASE s.call.tool = "metadata_scan"
      <3>1. Finds(s.call) = {Nothing} \cup {[found |-> TRUE, values |-> b] : b \in Baselines}
        BY <2>1 DEF Finds, MetadataFinds, Drift
      <3>2. CASE d = Nothing BY <2>0, <2>1, <3>2 DEF Nothing, Known
      <3>3. CASE d # Nothing
        <4>1. PICK b \in Baselines : d = [found |-> TRUE, values |-> b] BY <1>3, <3>1, <3>3
        <4> QED BY <2>0, <2>1, <4>1 DEF Known
      <3> QED BY <3>2, <3>3
    <2>2. CASE s.call.tool = "sql_profile"
      <3>1. Finds(s.call) = {[found |-> TRUE, values |-> p] : p \in Profiles}
        BY <2>2 DEF Finds, ProfileFinds, Drift
      <3>2. PICK p \in Profiles : d = [found |-> TRUE, values |-> p] BY <1>3, <3>1
      <3> QED BY <2>0, <2>2, <3>2
    <2>3. CASE s.call.tool = Drift
      <3>1. s.call.inputs \in Profiles \X Known BY <2>3 DEF IInv, EvidenceInv
      <3>2. Finds(s.call) = {[found |-> TRUE, values |-> s.call.inputs[1] \ s.call.inputs[2]]}
        BY <2>3 DEF Finds, DriftFinds, Drift
      <3>3. PICK p \in Profiles, b \in Known : s.call.inputs = <<p, b>> BY <3>1
      <3>4. d = [found |-> TRUE, values |-> p \ b] BY <1>3, <3>2, <3>3
      <3>5. p \ b \in {q \ c : q \in Profiles, c \in Known} OBVIOUS
      <3>6. d \in Findings BY <3>4, <3>5 DEF Findings, Known
      <3> QED BY <2>3, <3>6 DEF Drift
    <2>4. CASE s.call.tool \notin {"metadata_scan", "sql_profile", Drift}
      <3>1. Finds(s.call) = {Nothing} BY <2>4 DEF Finds, Drift
      <3> QED BY <1>3, <2>0, <2>4, <3>1
    <2> QED BY <2>1, <2>2, <2>3, <2>4
  <1>4. ASSUME NEW d \in Finds(s.call), r = [s EXCEPT !.status = "collected", !.data = d]
        PROVE  /\ r \in StepSet /\ r.data = d /\ r.status = "collected"
               /\ r.id = s.id /\ r.call = s.call /\ r.reason = s.reason
    BY <1>1, <1>3, <1>4 DEF StepSet, Statuses
  <1> QED BY <1>2, <1>3, <1>4 DEF Outcomes

\* Running the next step keeps the first items, and so the verdict, as they are.
LEMMA RunStepInv == IInv /\ RunStep => IInv'
  <1> SUFFICES ASSUME IInv, RunStep PROVE IInv' OBVIOUS
  <1>1. /\ phase \in {"gather", "derive"}
        /\ UNCHANGED <<phase, round, attempt, counter, known, runbook, count>>
    BY DEF RunStep
  <1>2. PICK s \in Planned : /\ \A t \in Planned : s.id <= t.id
                             /\ \E r \in Outcomes(s) : steps' = (steps \ {s}) \cup {r}
    BY DEF RunStep
  <1>3. PICK r \in Outcomes(s) : steps' = (steps \ {s}) \cup {r} BY <1>2
  <1>4. s \in steps /\ s.status = "planned" BY <1>2 DEF Planned
  <1>5. /\ r \in StepSet
        /\ r.id = s.id /\ r.call = s.call /\ r.reason = s.reason
        /\ r.status \in {"error", "collected"}
        /\ r.call.tool = "metadata_scan" => r.data.values \in Known
        /\ r.call.tool = "sql_profile" /\ r.status = "collected" => r.data.values \in Profiles
    BY <1>4, OutcomeType
  <1>6. /\ steps \subseteq StepSet /\ IsFiniteSet(steps) /\ counter \in Nat
        /\ \A t \in steps : t.id \in Nat
        /\ \A t, u \in steps : t.id = u.id => t = u
        /\ \A t, u \in steps : t.call = u.call => t = u
    BY DEF IInv, StepsInv, StepSet, NoStepTwice
  <1>7. StepsInv'
    <2>1. (IsFiniteSet(steps))' BY <1>3, <1>6, FS_AddElement, FS_RemoveElement
    <2>2. (steps \subseteq StepSet /\ counter \in Nat)' BY <1>1, <1>3, <1>5, <1>6
    <2>3. (\A t \in steps : t.id \in 1..counter)' BY <1>1, <1>3, <1>4, <1>5 DEF IInv, StepsInv
    <2>4. (\A t, u \in steps : t.id = u.id => t = u)' BY <1>3, <1>4, <1>5, <1>6
    <2>5. NoStepTwice' BY <1>3, <1>4, <1>5, <1>6 DEF NoStepTwice
    <2>6. OnlyDiagnostics' BY <1>3, <1>4, <1>5 DEF IInv, StepsInv, OnlyDiagnostics
    <2> QED BY <2>1, <2>2, <2>3, <2>4, <2>5, <2>6 DEF StepsInv
  <1>8. Planned' = Planned \ {s} BY <1>3, <1>4, <1>5 DEF Planned
  <1>9. OrderInv'
    <2> SUFFICES ASSUME NEW u \in Planned', NEW t \in (steps \ Planned)'
                 PROVE  t.id < u.id
      BY DEF OrderInv
    <2>1. u \in Planned /\ u # s /\ u \in steps BY <1>8 DEF Planned
    <2>2. CASE t = r BY <1>2, <1>4, <1>5, <1>6, <2>1, <2>2
    <2>3. CASE t # r
      <3>1. t \in steps \ Planned BY <1>3, <1>8, <2>3
      <3> QED BY <2>1, <3>1 DEF IInv, OrderInv
    <2> QED BY <2>2, <2>3
  <1>10. EvidenceInv' BY <1>3, <1>4, <1>5 DEF IInv, EvidenceInv
  <1>11. \A tool : tool # s.call.tool => Collected(tool)' = Collected(tool)
    BY <1>3, <1>4, <1>5 DEF Collected
  <1>12. ASSUME NEW tool, Collected(tool) # {}
         PROVE  Data(tool)' = Data(tool) /\ Collected(tool)' # {}
    <2>1. \A t \in Collected(tool) : t \in steps \ Planned /\ t # s
      BY <1>4 DEF Collected, Planned
    <2>2. Collected(tool)' \subseteq Collected(tool) \cup {r} BY <1>3 DEF Collected
    <2>3. Collected(tool) \subseteq Collected(tool)' BY <1>3, <2>1 DEF Collected
    <2>4. \A t \in Collected(tool) : t.id < r.id
      BY <1>2, <1>5, <2>1 DEF IInv, OrderInv
    <2>5. Collected(tool)' \subseteq steps' BY DEF Collected
    <2>6. /\ \A t \in steps' : t.id \in Nat
          /\ \A t, u \in steps' : t.id = u.id => t = u
      BY <1>7 DEF StepsInv, StepSet
    <2>7. FirstOf(Collected(tool)') = FirstOf(Collected(tool))
      BY <1>12, <2>2, <2>3, <2>4, <2>5, <2>6, FirstStays
    <2> QED BY <1>12, <2>3, <2>7, DataFromCollected DEF DataOf
  <1>13. Usable => /\ Collected("metadata_scan") # {} /\ Collected("sql_profile") # {}
    BY DataFromCollected DEF Usable, DataOf, Nothing
  <1>14. Usable => Usable' /\ DriftCall' = DriftCall
    BY <1>12, <1>13 DEF Usable, DriftCall
  <1>15. \A t \in steps' : \E u \in steps : u.call = t.call /\ u.reason = t.reason
    BY <1>3, <1>4, <1>5
  <1>16. \A u \in steps : \E t \in steps' : u.call = t.call /\ u.reason = t.reason
    BY <1>3, <1>4, <1>5
  <1>17. VerdictInv'
    <2>1. (\A t \in steps : t.call.tool = Drift => Usable /\ t.call = DriftCall)'
      BY <1>14, <1>15 DEF IInv, VerdictInv
    <2>2. ASSUME DriftDue', Usable' PROVE DriftPlanned'
      <3>1. phase = "derive" BY <1>1, <2>2 DEF DriftDue
      <3>2. s.call.tool = Drift BY <1>2, <3>1 DEF IInv, PhaseInv
      <3>3. \A tool \in {"metadata_scan", "sql_profile"} : Data(tool)' = Data(tool)
        BY <1>11, <3>2, DataFromCollected DEF Drift
      <3>4. Usable BY <2>2, <3>3 DEF Usable
      <3>5. DriftPlanned BY <3>1, <3>4 DEF IInv, VerdictInv, DriftDue
      <3> QED BY <1>16, <3>5 DEF DriftPlanned
    <2> QED BY <2>1, <2>2 DEF VerdictInv
  <1>18. SourceInv'
    <2>1. FromRunbook \/ FromModel \/ FromFallback BY <1>1 DEF IInv, SourceInv, HasPlan
    <2>2. FromRunbook => FromRunbook' BY <1>1, <1>15, <1>16 DEF FromRunbook, Call
    <2>3. FromModel => FromModel' BY <1>1, <1>15, <1>16 DEF FromModel
    <2>4. FromFallback => FromFallback' BY <1>1, <1>16 DEF FromFallback
    <2> QED BY <1>1, <2>1, <2>2, <2>3, <2>4 DEF IInv, SourceInv
  <1>19. PhaseInv' BY <1>1, <1>8 DEF IInv, PhaseInv
  <1>20. BoundsInv' BY <1>1 DEF IInv, BoundsInv
  <1> QED BY <1>7, <1>9, <1>10, <1>17, <1>18, <1>19, <1>20 DEF IInv
\* The drift check is planned for the first baseline and profile.
LEMMA DeriveInv == IInv /\ Derive => IInv'
  <1> SUFFICES ASSUME IInv, Derive PROVE IInv' OBVIOUS
  <1> DEFINE new == DerivedPlan
             n == Cardinality(DerivedPlan)
             step == Step(counter + 1, DriftCall, "derived")
  <1>1. /\ phase = "gather" /\ Planned = {} /\ phase' = "derive"
        /\ steps' = steps \cup new /\ counter' = counter + n
        /\ UNCHANGED <<round, attempt, known, runbook, count>>
    BY DEF Derive
  <1>2. \/ new = {} /\ n = 0 /\ (Usable => DriftCall \in Executed)
        \/ new = {step} /\ n = 1 /\ Usable /\ DriftCall \notin Executed
    BY FS_EmptySet, FS_Singleton DEF DerivedPlan, Usable
  <1>3. Usable => DriftCall.inputs \in Profiles \X Known
    <2> SUFFICES ASSUME Usable PROVE DriftCall.inputs \in Profiles \X Known OBVIOUS
    <2>1. Collected("metadata_scan") # {} /\ Collected("sql_profile") # {}
      BY DataFromCollected DEF Usable, DataOf, Nothing
    <2>2. Data("metadata_scan").values \in Known
      <3>1. PICK s \in Collected("metadata_scan") : Data("metadata_scan") = s.data
        BY <2>1, FirstIsCollected DEF IInv
      <3>2. s \in steps /\ s.call.tool = "metadata_scan" BY DEF Collected
      <3> QED BY <3>1, <3>2 DEF IInv, EvidenceInv
    <2>3. Data("sql_profile").values \in Profiles
      <3>1. PICK s \in Collected("sql_profile") : Data("sql_profile") = s.data
        BY <2>1, FirstIsCollected DEF IInv
      <3>2. s \in steps /\ s.call.tool = "sql_profile" /\ s.status = "collected"
        BY DEF Collected
      <3> QED BY <3>1, <3>2 DEF IInv, EvidenceInv
    <2> QED BY <2>2, <2>3 DEF DriftCall
  <1>4. /\ step.id = counter + 1 /\ step.call = DriftCall /\ step.reason = "derived"
        /\ step.status = "planned" /\ step.data = Nothing /\ DriftCall.tool = Drift
    BY DEF Step, DriftCall
  <1>5. counter \in Nat /\ Nothing \in Findings BY DEF IInv, StepsInv, Nothing, Findings
  <1>6. Usable => step \in StepSet
    <2>1. Usable => DriftCall \in Calls BY <1>3 DEF DriftCall, Calls
    <2> QED BY <1>5, <2>1 DEF Step, StepSet, Reasons, Statuses
  <1>7. /\ n \in Nat /\ IsFiniteSet(new)
        /\ \A s \in new :
              /\ s = step /\ Usable
              /\ s \in StepSet /\ s.id \in counter + 1 .. counter + n
              /\ s.call \notin Executed
              /\ s.call.inputs \in Profiles \X Known
    <2>1. IsFiniteSet(new)
      <3> HIDE DEF new, step
      <3> QED BY <1>2, FS_EmptySet, FS_Singleton
    <2> HIDE DEF new, n, step
    <2> QED BY <1>2, <1>3, <1>4, <1>5, <1>6, <2>1
  <1>8. /\ StepsInv' /\ OrderInv' /\ EvidenceInv'
        /\ \A tool : Data(tool)' = Data(tool)
    <2> HIDE DEF new, n, step
    <2> QED BY <1>1, <1>4, <1>7, AddedSteps DEF IInv
  <1>9. Usable' = Usable /\ DriftCall' = DriftCall BY <1>8 DEF Usable, DriftCall
  <1> HIDE DEF new, n, step
  <1>10. VerdictInv'
    <2>1. \A s \in steps' : s.call.tool = Drift => Usable /\ s.call = DriftCall
      BY <1>1, <1>4, <1>7 DEF IInv, VerdictInv
    <2>2. Usable => \E s \in steps' : s.call.tool = Drift
      BY <1>1, <1>2, <1>4 DEF Executed
    <2> QED BY <1>9, <2>1, <2>2 DEF VerdictInv, DriftPlanned
  <1>11. PhaseInv'
    <2>1. \A s \in Planned' : s \in new BY <1>1 DEF Planned
    <2> QED BY <1>1, <1>4, <1>7, <2>1 DEF PhaseInv
  <1>12. SourceInv'
    <2>1. FromRunbook \/ FromModel \/ FromFallback BY <1>1 DEF IInv, SourceInv, HasPlan
    <2>2. \A s \in new : s.reason = "derived" BY <1>4, <1>7
    <2>3. FromRunbook => FromRunbook' BY <1>1, <2>2 DEF FromRunbook, Call
    <2>4. FromModel => FromModel' BY <1>1, <2>2 DEF FromModel
    <2>5. FromFallback => FromFallback' BY <1>1 DEF FromFallback
    <2> QED BY <1>1, <2>1, <2>3, <2>4, <2>5 DEF IInv, SourceInv
  <1>13. BoundsInv' BY <1>1 DEF IInv, BoundsInv
  <1> QED BY <1>8, <1>10, <1>11, <1>12, <1>13 DEF IInv

\* A step of the control alone leaves what is said of the steps and the evidence.
LEMMA StepsUnchanged ==
    ASSUME IInv, UNCHANGED <<steps, counter>>
    PROVE  /\ StepsInv' /\ OrderInv' /\ EvidenceInv' /\ Planned' = Planned
           /\ Usable' = Usable /\ DriftCall' = DriftCall /\ DriftPlanned' = DriftPlanned
  <1>1. StepsInv' /\ OrderInv' /\ EvidenceInv' /\ Planned' = Planned
    BY DEF IInv, StepsInv, OrderInv, EvidenceInv, NoStepTwice, OnlyDiagnostics, Planned
  <1>2. \A tool : Data(tool)' = Data(tool) BY DataFromCollected DEF Collected
  <1> QED BY <1>1, <1>2 DEF Usable, DriftCall, DriftPlanned

\* A round ends with the drift check planned and run.
LEMMA NextRoundInv == IInv /\ NextRound => IInv'
  <1> SUFFICES ASSUME IInv, NextRound PROVE IInv' OBVIOUS
  <1>1. /\ phase = "derive" /\ Planned = {}
        /\ UNCHANGED <<steps, counter, known, runbook, count>>
        /\ \/ round < MaxFollowups /\ phase' = "ask" /\ round' = round + 1 /\ attempt' = 0
           \/ phase' = "done" /\ round' = round /\ attempt' = attempt
    BY DEF NextRound
  <1>2. round \in 0..MaxFollowups /\ attempt \in 0..MaxRetries BY DEF IInv, BoundsInv
  <1>3. BoundsInv' BY <1>1, <1>2, DiagnosisAssumption DEF IInv, BoundsInv
  <1>4. /\ StepsInv' /\ OrderInv' /\ EvidenceInv' /\ Planned' = Planned
        /\ Usable' = Usable /\ DriftCall' = DriftCall /\ DriftPlanned' = DriftPlanned
    BY <1>1, StepsUnchanged
  <1>5. PhaseInv' BY <1>1, <1>2, <1>4, DiagnosisAssumption DEF PhaseInv
  <1>6. VerdictInv' BY <1>1, <1>4 DEF IInv, VerdictInv, DriftDue
  <1>7. SourceInv'
    <2>1. FromRunbook \/ FromModel \/ FromFallback BY <1>1 DEF IInv, SourceInv, HasPlan
    <2> QED BY <1>1, <2>1 DEF IInv, SourceInv, FromRunbook, FromModel, FromFallback, Call
  <1> QED BY <1>3, <1>4, <1>5, <1>6, <1>7 DEF IInv

\* What is remembered of an investigation is a raw plan again.
LEMMA RememberedIsPlan ==
    /\ IInv => IsRawPlan(ToolsUsed)
    /\ \A raw \in RawPlans : IsRawPlan({[p EXCEPT !.inputs = NoInputs] : p \in raw})
  <1>1. ASSUME IInv PROVE IsRawPlan(ToolsUsed)
    <2> DEFINE ran == {s \in steps : s.status = "collected"}
               use(s) == [at |-> s.id, tool |-> s.call.tool, inputs |-> NoInputs]
               f == [s \in ran |-> use(s)]
    <2>1. IsFiniteSet(ran) BY <1>1, FS_Subset, ran \in SUBSET steps DEF IInv, StepsInv
    <2>2. ToolsUsed = {use(s) : s \in ran} BY DEF ToolsUsed
    <2>3. f \in [ran -> ToolsUsed] /\ \A u \in ToolsUsed : \E s \in ran : f[s] = u
      BY <2>2
    <2>4. IsFiniteSet(ToolsUsed)
      <3> HIDE DEF f, ran
      <3> QED BY <2>1, <2>3, ImageFinite
    <2>5. \A s \in ran : use(s) \in Proposal
      BY <1>1, DiagnosisAssumption DEF IInv, StepsInv, StepSet, Calls, Proposal
    <2>6. \A s, t \in ran : s.id = t.id => s = t BY <1>1 DEF IInv, StepsInv
    <2> QED BY <2>2, <2>4, <2>5, <2>6 DEF IsRawPlan
  <1>2. ASSUME NEW raw \in RawPlans
        PROVE  IsRawPlan({[p EXCEPT !.inputs = NoInputs] : p \in raw})
    <2> DEFINE bare(p) == [p EXCEPT !.inputs = NoInputs]
               S == {bare(p) : p \in raw}
               f == [p \in raw |-> bare(p)]
    <2>1. IsRawPlan(raw) BY DiagnosisAssumption
    <2>2. f \in [raw -> S] /\ \A u \in S : \E p \in raw : f[p] = u OBVIOUS
    <2>3. IsFiniteSet(S)
      <3>1. IsFiniteSet(raw) BY <2>1 DEF IsRawPlan
      <3> HIDE DEF f, S
      <3> QED BY <2>2, <3>1, ImageFinite
    <2>4. \A p \in raw : bare(p) \in Proposal /\ bare(p).at = p.at
      BY <2>1 DEF IsRawPlan, Proposal
    <2>5. \A p, q \in raw : p.at = q.at => p = q BY <2>1 DEF IsRawPlan
    <2>6. S \in SUBSET Proposal BY <2>4
    <2>7. ASSUME NEW u \in S, NEW v \in S, u.at = v.at PROVE u = v
      <3>1. PICK p \in raw : u = bare(p) OBVIOUS
      <3>2. PICK q \in raw : v = bare(q) OBVIOUS
      <3>3. p.at = q.at BY <2>4, <2>7, <3>1, <3>2
      <3> QED BY <2>5, <3>1, <3>2, <3>3
    <2> HIDE DEF S
    <2>8. IsRawPlan(S) BY <2>3, <2>6, <2>7 DEF IsRawPlan
    <2> QED BY <2>8 DEF S
  <1> QED BY <1>1, <1>2

\* Closing forgets the steps and may replace the runbook.
LEMMA CloseInv == IInv /\ Close => IInv'
  <1> SUFFICES ASSUME IInv, Close PROVE IInv' OBVIOUS
  <1>1. /\ phase' = "idle" /\ round' = 0 /\ attempt' = 0
        /\ steps' = {} /\ counter' = 0 /\ known' = {} /\ count' = count
    BY DEF Close
  <1>2. IsRawPlan(runbook')
    <2>1. \/ runbook' = ToolsUsed
          \/ \E raw \in RawPlans : runbook' = {[p EXCEPT !.inputs = NoInputs] : p \in raw}
          \/ runbook' = runbook
      BY DEF Close
    <2> QED BY <2>1, RememberedIsPlan DEF IInv, BoundsInv
  <1>3. IsFiniteSet({}) BY FS_EmptySet
  <1>4. BoundsInv' BY <1>1, <1>2, <1>3, DiagnosisAssumption DEF IInv, BoundsInv, IsRawPlan
  <1>5. StepsInv' BY <1>1, <1>3 DEF StepsInv, NoStepTwice, OnlyDiagnostics
  <1>6. OrderInv' /\ EvidenceInv' /\ PhaseInv'
    BY <1>1 DEF OrderInv, EvidenceInv, PhaseInv, Planned
  <1>7. VerdictInv' /\ SourceInv' BY <1>1 DEF VerdictInv, SourceInv, DriftDue, HasPlan
  <1> QED BY <1>4, <1>5, <1>6, <1>7 DEF IInv

\* A stuttering step keeps it.
LEMMA StutterInv == IInv /\ UNCHANGED vars => IInv'
  <1> SUFFICES ASSUME IInv, UNCHANGED vars PROVE IInv' OBVIOUS
  <1>1. UNCHANGED <<phase, round, attempt, steps, counter, known, runbook, count>> BY DEF vars
  <1>2. /\ StepsInv' /\ OrderInv' /\ EvidenceInv' /\ Planned' = Planned
        /\ Usable' = Usable /\ DriftCall' = DriftCall /\ DriftPlanned' = DriftPlanned
    BY <1>1, StepsUnchanged
  <1>3. BoundsInv' /\ PhaseInv' BY <1>1, <1>2 DEF IInv, BoundsInv, PhaseInv
  <1>4. VerdictInv' BY <1>1, <1>2 DEF IInv, VerdictInv, DriftDue
  <1>5. SourceInv'
    BY <1>1 DEF IInv, SourceInv, HasPlan, FromRunbook, FromModel, FromFallback, Call
  <1> QED BY <1>2, <1>3, <1>4, <1>5 DEF IInv

-----------------------------------------------------------------------------
(* The theorems.                                                            *)

\* The parts above hold in every state that diagnosing can reach.
THEOREM Invariant == Spec => []IInv
  <1>1. IInv /\ [Next]_vars => IInv'
    BY BeginInv, ModelFailsInv, BadAnswerInv, AnswerInv, RunStepInv, DeriveInv,
       NextRoundInv, CloseInv, StutterInv DEF Next, Diagnose
  <1> QED BY InitInv, <1>1, PTL DEF Spec

\* What can be built and what failed are providers of the route.
RouterInv == usable \in SUBSET Providers /\ failed \in SUBSET Providers

\* The provider that is resolved is one of the candidates, or there is none.
LEMMA ResolvedProvider == Provider \in Providers \cup {NoProvider}
  <1>1. CASE Buildable = {} BY <1>1 DEF Provider
  <1>2. CASE Buildable # {}
    <2>1. Buildable \subseteq Nat BY DiagnosisAssumption DEF Buildable
    <2>2. \E k \in Buildable : \A j \in Buildable : k <= j BY <1>2, <2>1, LeastNumber
    <2>3. PICK k \in Buildable : Provider = Candidates[k] BY <1>2, <2>2 DEF Provider
    <2> QED BY <2>3 DEF Buildable, Providers
  <1> QED BY <1>1, <1>2

\* Only a call of the provider that was resolved is recorded as failed.
LEMMA RouterInvariant == Spec => []RouterInv
  <1>1. Init => RouterInv BY DEF Init, RouterInv
  <1>2. ASSUME RouterInv, [Next]_vars PROVE RouterInv'
    <2>1. usable' = usable
      BY <1>2 DEF Next, Diagnose, Begin, ModelFails, BadAnswer, Answer, RunStep, Derive,
                  NextRound, Close, vars, routerVars
    <2>2. failed' \in {failed, {}, {Provider} \ {NoProvider}}
      BY <1>2 DEF Next, Diagnose, Begin, ModelFails, BadAnswer, Answer, RunStep, Derive,
                  NextRound, Close, vars, routerVars
    <2> QED BY <1>2, <2>1, <2>2, ResolvedProvider DEF RouterInv
  <1> QED BY <1>1, <1>2, PTL DEF Spec

\* Rounds and attempts stay within their bounds, the steps carry numbers that
\* the counter has given out, and only providers of the route fail.
THEOREM TypeCorrect == Spec => []TypeOK
  <1>1. IInv /\ RouterInv => TypeOK
    BY DEF IInv, BoundsInv, StepsInv, StepSet, Reasons, Statuses, RouterInv, TypeOK
  <1> QED BY Invariant, RouterInvariant, <1>1, PTL

\* However many plans an investigation makes, no call gets a second step.
THEOREM NothingRunsTwice == Spec => []NoStepTwice
  <1>1. IInv => NoStepTwice BY DEF IInv, StepsInv
  <1> QED BY Invariant, <1>1, PTL

\* No proposal of a model, a runbook or a human makes another tool run.
THEOREM OnlyDiagnosticsRun == Spec => []OnlyDiagnostics
  <1>1. IInv => OnlyDiagnostics BY DEF IInv, StepsInv
  <1> QED BY Invariant, <1>1, PTL

\* The drift verdict belongs to the profile and the baseline of the summary.
THEOREM VerdictIsAboutSummary == Spec => []VerdictFitsEvidence
  <1>1. IInv => VerdictFitsEvidence
    <2> SUFFICES ASSUME IInv, phase = "done" PROVE VerdictFitsEvidence
      BY DEF VerdictFitsEvidence
    <2>1. \A s \in steps : s.call.tool = Drift => s.call = DriftCall BY DEF IInv, VerdictInv
    <2>2. Usable => \E s \in steps : s.call.tool = Drift
      BY DEF IInv, VerdictInv, DriftDue, DriftPlanned
    <2>3. \A s \in steps : s.status # "planned" BY DEF IInv, PhaseInv, Planned
    <2> QED BY <2>1, <2>2, <2>3 DEF VerdictFitsEvidence, Usable
  <1> QED BY Invariant, <1>1, PTL

\* A runbook is run in full, and without runbook and model every tool is tried.
THEOREM FirstPlanHasOneSource == Spec => []FirstPlan
  <1>1. IInv => FirstPlan
    BY DEF IInv, SourceInv, HasPlan, FromRunbook, FromModel, FromFallback, FirstPlan
  <1> QED BY Invariant, <1>1, PTL
-----------------------------------------------------------------------------
(* The diagnosis ends.                                                      *)

LEMMA PlannedFinite == IInv => IsFiniteSet(Planned)
  <1> SUFFICES ASSUME IInv PROVE IsFiniteSet(Planned) OBVIOUS
  <1>1. Planned \in SUBSET steps /\ IsFiniteSet(steps) BY DEF Planned, IInv, StepsInv
  <1> QED BY <1>1, FS_Subset

\* After a model call there is a plan, or the diagnosis is done.
LEMMA AskedLess ==
    ASSUME phase = "ask", round' = round, phase' \in {"gather", "done"}
    PROVE  Less
  BY DEF Less, PhasesLeft

LEMMA DoWithoutLess == ASSUME phase = "ask", round' = round, DoWithout PROVE Less
  BY AskedLess DEF DoWithout, Plan

\* A step that was run is not planned any more.
LEMMA RunStepLess == ASSUME IInv, RunStep PROVE Less
  <1>1. PICK s \in Planned : \E r \in Outcomes(s) : steps' = (steps \ {s}) \cup {r}
    BY DEF RunStep
  <1>2. PICK r \in Outcomes(s) : steps' = (steps \ {s}) \cup {r} BY <1>1
  <1>3. s \in steps /\ s.status = "planned" BY DEF Planned
  <1>4. r.status \in {"error", "collected"} BY <1>3, OutcomeType
  <1>5. Planned' = Planned \ {s} BY <1>2, <1>3, <1>4 DEF Planned
  <1>6. phase' = phase /\ round' = round BY DEF RunStep
  <1> QED BY <1>5, <1>6 DEF Less

LEMMA DiagnoseLess == ASSUME IInv, Diagnose PROVE Less
  <1>1. CASE ModelFails BY <1>1, DoWithoutLess DEF ModelFails
  <1>2. CASE BadAnswer
    <2>1. CASE attempt < MaxRetries
      <3>1. /\ attempt' = attempt + 1 /\ phase' = phase /\ round' = round
        BY <1>2, <2>1 DEF BadAnswer
      <3>2. attempt \in Nat /\ MaxRetries \in Nat BY DiagnosisAssumption DEF IInv, BoundsInv
      <3>3. attempt < attempt' /\ attempt' <= MaxRetries BY <2>1, <3>1, <3>2
      <3> QED BY <3>1, <3>3 DEF Less
    <2>2. CASE ~(attempt < MaxRetries) BY <1>2, <2>2, DoWithoutLess DEF BadAnswer
    <2> QED BY <2>1, <2>2
  <1>3. CASE Answer BY <1>3, DoWithoutLess, AskedLess DEF Answer, Plan
  <1>4. CASE RunStep BY <1>4, RunStepLess
  <1>5. CASE Derive BY <1>5 DEF Derive, Less, PhasesLeft
  <1>6. CASE NextRound
    <2>1. CASE round < MaxFollowups
      <3>1. round' = round + 1 BY <1>6, <2>1 DEF NextRound
      <3>2. round \in Nat /\ MaxFollowups \in Nat BY DiagnosisAssumption DEF IInv, BoundsInv
      <3>3. round < round' /\ round' <= MaxFollowups BY <2>1, <3>1, <3>2
      <3> QED BY <3>3 DEF Less
    <2>2. CASE ~(round < MaxFollowups) BY <1>6, <2>2 DEF NextRound, Less, PhasesLeft
    <2> QED BY <2>1, <2>2
  <1> QED BY <1>1, <1>2, <1>3, <1>4, <1>5, <1>6 DEF Diagnose

\* Whatever a model answers and proposes and whatever its tools find, a diagnosis
\* uses up its rounds, and in a round its call, its attempts and its finitely many
\* planned tools: the argument behind Concludes, for any bounds and any set of tools.
THEOREM DiagnosesEnd == Spec => WorksOff
  <1>1. IInv /\ Diagnose => Less BY DiagnoseLess
  <1>2. IInv /\ IsFiniteSet(Planned)' => [Diagnose => Less /\ IsFiniteSet(Planned')]_vars
    BY <1>1
  <1> QED BY Invariant, PlannedFinite, <1>2, PTL DEF Spec, WorksOff
=============================================================================
