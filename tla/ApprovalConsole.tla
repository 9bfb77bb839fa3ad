--------------------------- MODULE ApprovalConsole ---------------------------
(***************************************************************************)
(* The console API of api/server.py: the in-memory list of investigations, *)
(* the approval inbox, and the requests that work on them.  Handlers run   *)
(* in a thread pool without a lock, so a request is a process of its own:  *)
(* it reads the store, makes a slow call (the agent, a write tool, GitLab) *)
(* and goes on with the references it read before.                         *)
(*                                                                         *)
(* The store holds references: an agent run puts a new object into the     *)
(* list where the old one was, and a request that still holds the old one  *)
(* keeps writing to it.  Statements of one handler with no slow call and   *)
(* no check-then-act between them are one step.                            *)
(***************************************************************************)
EXTENDS Naturals, Sequences, FiniteSetsExt, ConsoleOutcome

CONSTANTS
    Seeds,       \* the investigations seeded at start-up, in list order
    Fixable,     \* those seeded as needs_approval, in list order
    SeedStatus,  \* what the others are seeded as, escalated or running
    Asked,       \* INV-ASK001, ...: the ids questions get, in this order (bounded)
    Metrics,     \* the metrics of the domain contracts
    MetricOf,    \* the metric of a seeded investigation and of a question
    Refusals,    \* the decisions that refuse: rejected, needs_revision
    MaxRequests, \* bound: requests accepted in a behaviour
    MaxRestarts  \* bound: restarts of the process

SeededSet == {Seeds[k] : k \in DOMAIN Seeds}
FixableSet == {Fixable[k] : k \in DOMAIN Fixable}
AskedSet == {Asked[k] : k \in DOMAIN Asked}
Investigations == SeededSet \cup AskedSet

ASSUME ConsoleAssumption ==
    /\ Seeds \in Seq(SeededSet)
    /\ \A j, k \in DOMAIN Seeds : Seeds[j] = Seeds[k] => j = k
    /\ Fixable \in Seq(SeededSet)
    /\ \A j, k \in DOMAIN Fixable : Fixable[j] = Fixable[k] => j = k
    /\ SeedStatus \in [SeededSet \ FixableSet -> {"escalated", "running"}]
    /\ Asked \in Seq(AskedSet)
    /\ \A j, k \in DOMAIN Asked : Asked[j] = Asked[k] => j = k
    /\ AskedSet \cap SeededSet = {}
    /\ MetricOf \in [Investigations -> Metrics]
    /\ Refusals \subseteq {"rejected", "needs_revision"}
    /\ MaxRequests \in Nat /\ MaxRestarts \in Nat

NoId == <<"none">>
SeedId(i) == <<"seed", i>>
RerunId(i) == <<"rerun", i>>
SyncId(n) == <<"ap", n>>

PostApproval == {"awaiting_rerun", "resolved"}
Statuses == {"running", "needs_approval", "escalated"} \cup PostApproval

VARIABLES
    objects,   \* every investigation object ever built
    list,      \* _STORE["investigations"]: references to objects
    inbox,     \* _STORE["approvals"]
    askSeq,    \* _ASK_SEQ: the number of the last question
    req,       \* the requests accepted so far, with their local variables
    mrs,       \* external: the merge requests on GitLab
    restarts,  \* restarts so far (bounded)
    approved,  \* history of this life: pairs of investigation and approved stage
    done       \* history of this life: write effects asked for, per investigation

lifeVars == <<askSeq, restarts>>
vars == <<objects, list, inbox, req, mrs, approved, done, lifeVars>>

-----------------------------------------------------------------------------
(* The store and its look-ups.                                              *)

Lowest(positions) == IF positions = {} THEN 0 ELSE Min(positions)

\* Position of an investigation in the list; 0: not found.
Position(i) == Lowest({k \in DOMAIN list : objects[list[k]].inv = i})
Current(i) == IF Position(i) = 0 THEN 0 ELSE list[Position(i)]

\* _approval: the first approval with the id.
ById(id) == Lowest({a \in DOMAIN inbox : inbox[a].id = id})

\* The first approval of the investigation, whatever its stage.
FirstFor(i) == Lowest({a \in DOMAIN inbox : inbox[a].inv = i})

Investigation(i, status) ==
    [inv |-> i, metric |-> MetricOf[i], status |-> status, agentRun |-> FALSE,
     validated |-> FALSE, approvalId |-> NoId]
Approval(id, i, stage, validated) ==
    [id |-> id, inv |-> i, stage |-> stage, status |-> "pending",
     validated |-> validated, mr |-> 0, merged |-> FALSE, zero |-> FALSE]

Served == [pc |-> "served", kind |-> "none", obj |-> 0, new |-> 0, idx |-> 0,
           ap |-> 0, id |-> NoId, mr |-> 0, zero |-> FALSE]
At(t, pc) == req[t].pc = pc
Accept(local) == Len(req) < MaxRequests /\ req' = Append(req, local)
Go(t, local) == req' = [req EXCEPT ![t] = local]
Finish(t) == Go(t, Served)

\* fixtures, catalog and _seed_approvals: every seeded fixable investigation
\* is linked to an approval of its own.
SeedObjects ==
    [k \in DOMAIN Seeds |->
        IF Seeds[k] \in FixableSet
        THEN [Investigation(Seeds[k], "needs_approval") EXCEPT !.approvalId = SeedId(Seeds[k])]
        ELSE Investigation(Seeds[k], SeedStatus[Seeds[k]])]
SeedInbox ==
    [k \in DOMAIN Fixable |-> Approval(SeedId(Fixable[k]), Fixable[k], "fix", TRUE)]

Init ==
    /\ objects = SeedObjects
    /\ list = [k \in DOMAIN Seeds |-> k]
    /\ inbox = SeedInbox
    /\ askSeq = 0
    /\ req = <<>>
    /\ mrs = <<>>
    /\ restarts = 0
    /\ approved = {}
    /\ done = {}

\* The process dies with its requests and starts again from the seeds; what was
\* done outside, the merge requests, stays.
Restart ==
    /\ restarts < MaxRestarts
    /\ restarts' = restarts + 1
    /\ objects' = SeedObjects
    /\ list' = [k \in DOMAIN Seeds |-> k]
    /\ inbox' = SeedInbox
    /\ askSeq' = 0
    /\ req' = [t \in DOMAIN req |-> Served]
    /\ approved' = {}
    /\ done' = {}
    /\ UNCHANGED mrs

-----------------------------------------------------------------------------
(* Investigations: opening one runs the agent, unless it already ran or the *)
(* state is past the approval; run-agent always runs it.                    *)

StartAgent(kind, o) ==
    /\ Accept([Served EXCEPT !.pc = "agent", !.kind = kind, !.obj = o])
    /\ UNCHANGED <<objects, list, inbox, mrs, approved, done, lifeVars>>

MutGetInvestigation(i) ==
    Current(i) # 0 /\ ~objects[Current(i)].agentRun /\ StartAgent("open", Current(i))
GetInvestigation(i) ==
    /\ Current(i) # 0
    /\ ~objects[Current(i)].agentRun
    /\ objects[Current(i)].status \notin PostApproval
    /\ StartAgent("open", Current(i))

RunAgent(i) == Current(i) # 0 /\ StartAgent("run", Current(i))

MutNormalStatus(o) == IF o.route = "escalate" THEN "escalated" ELSE o.approval

\* _normalize_agent: the status the console shows for an outcome.
NormalStatus(o) ==
    IF o.patched /\ o.approval # "approved" THEN "needs_approval"
    ELSE IF o.route = "escalate" THEN "escalated" ELSE "resolved"

\* classify: the request names the investigation's metric, but an answer of the
\* model takes precedence over what is detected in the request.
ClassifiedAs(metric) == {metric} \cup Metrics

\* The graph returned: the new object takes over the identity and whatever
\* approval id the object read at the start holds by now; its metric is the one
\* the run was about.
AgentReturns(t) ==
    /\ At(t, "agent")
    /\ LET old == objects[req[t].obj]
       IN  /\ \E o \in ConsoleOutcomes, metric \in ClassifiedAs(old.metric) :
                objects' = Append(objects,
                    [inv |-> old.inv, metric |-> metric, status |-> NormalStatus(o),
                     agentRun |-> TRUE, validated |-> o.validated,
                     approvalId |-> old.approvalId])
           /\ Go(t, [req[t] EXCEPT !.pc = "replace", !.new = Len(objects) + 1,
                                   !.idx = Position(old.inv)])
    /\ UNCHANGED <<list, inbox, mrs, approved, done, lifeVars>>

\* The run raised: the opened template is shown, or run-agent answers 500.
AgentFails(t) ==
    /\ At(t, "agent")
    /\ Finish(t)
    /\ UNCHANGED <<objects, list, inbox, mrs, approved, done, lifeVars>>

MutNeedsSync(norm) == norm.status = "needs_approval" /\ inbox = <<>>
NeedsSync(norm) == norm.status = "needs_approval" /\ FirstFor(norm.inv) = 0

\* The assignment at the position found before (a question inserted at the
\* head of the list in between has moved everything by one), and
\* _sync_approval up to the choice of the new approval's id.
Replace(t) ==
    /\ At(t, "replace")
    /\ list' = IF req[t].idx = 0 THEN list ELSE [list EXCEPT ![req[t].idx] = req[t].new]
    /\ LET norm  == objects[req[t].new]
           first == FirstFor(norm.inv)
       IN  IF NeedsSync(norm)
           THEN /\ Go(t, [req[t] EXCEPT !.pc = "append", !.id = SyncId(Len(inbox))])
                /\ UNCHANGED objects
           ELSE /\ Finish(t)
                /\ objects' = IF /\ norm.status = "needs_approval" /\ first # 0
                                 /\ inbox[first].status = "pending"
                              THEN [objects EXCEPT ![req[t].new].approvalId = inbox[first].id]
                              ELSE objects
    /\ UNCHANGED <<inbox, mrs, approved, done, lifeVars>>

MutSyncAppend(t) ==
    /\ At(t, "append")
    /\ LET norm == objects[req[t].new]
       IN  inbox' = Append(inbox, Approval(req[t].id, norm.inv, "fix", norm.validated))
    /\ Finish(t)
    /\ UNCHANGED <<objects, list, mrs, approved, done, lifeVars>>
SyncAppend(t) ==
    /\ At(t, "append")
    /\ LET norm == objects[req[t].new]
       IN  inbox' = Append(inbox, Approval(req[t].id, norm.inv, "fix", norm.validated))
    /\ objects' = [objects EXCEPT ![req[t].new].approvalId = req[t].id]
    /\ Finish(t)
    /\ UNCHANGED <<list, mrs, approved, done, lifeVars>>

\* investigation_from_question: the number is taken,
AskQuestion ==
    /\ askSeq < Len(Asked)
    /\ askSeq' = askSeq + 1
    /\ Accept([Served EXCEPT !.pc = "ask"])
    /\ UNCHANGED <<objects, list, inbox, mrs, restarts, approved, done>>

MutInsertQuestion(t) ==
    /\ At(t, "ask")
    /\ objects' = Append(objects, Investigation(Asked[askSeq], "running"))
    /\ list' = [list EXCEPT ![1] = Len(objects) + 1]
    /\ Finish(t)
    /\ UNCHANGED <<inbox, mrs, approved, done, lifeVars>>
\* and the id is built from it, which two questions may do at once.  A clone of
\* the flagship goes to the head of the list; a question that does not name
\* the flagship's metric is still gathering evidence.
InsertQuestion(t) ==
    /\ At(t, "ask")
    /\ \E status \in {"needs_approval", "running"} :
         objects' = Append(objects, Investigation(Asked[askSeq], status))
    /\ list' = <<Len(objects) + 1>> \o list
    /\ Finish(t)
    /\ UNCHANGED <<inbox, mrs, approved, done, lifeVars>>

-----------------------------------------------------------------------------
(* Approvals: decide_approval and the two stages of the action loop.        *)

MutStageStep(a) == "dag"
StageStep(a) == IF inbox[a].stage = "rerun" THEN "dag" ELSE "mr"

\* Any approval may be approved again; without its investigation only canned
\* steps are shown.
Approve(id) ==
    /\ ById(id) # 0
    /\ LET a == ById(id)
           o == Current(inbox[a].inv)
       IN  /\ inbox' = [inbox EXCEPT ![a].status = "approved"]
           /\ approved' = approved \cup {<<inbox[a].inv, inbox[a].stage>>}
           /\ Accept(IF o = 0 THEN Served
                     ELSE [Served EXCEPT !.pc = StageStep(a), !.obj = o, !.ap = a])
    /\ UNCHANGED <<objects, list, mrs, done, lifeVars>>

\* Rejected or sent back; the action result is replaced by an empty one.
Refuse(id, decision) ==
    /\ ById(id) # 0
    /\ inbox' = [inbox EXCEPT ![ById(id)].status = decision, ![ById(id)].zero = FALSE]
    /\ Accept(Served)
    /\ UNCHANGED <<objects, list, mrs, approved, done, lifeVars>>

Effect(t, kind) == done' = done \cup {<<objects[req[t].obj].inv, kind>>}

MutRerunMissing(i) == FirstFor(i) = 0
MutRerunAlways(i) == TRUE
RerunMissing(i) == ById(RerunId(i)) = 0

\* The branch of an investigation object, fix/<id>-<metric>, and the merge
\* request that is open for it.
Branch(o) == [inv |-> o.inv, metric |-> o.metric]
OpenMr(branch) == Lowest({m \in DOMAIN mrs : mrs[m].branch = branch /\ ~mrs[m].merged})

\* create_merge_request of the GitLab server: GitLab refuses a second one for
\* the branch, and the open one is returned.
CreateMr(branch) ==
    IF OpenMr(branch) = 0 THEN Append(mrs, [branch |-> branch, merged |-> FALSE]) ELSE mrs
CreatedMr(branch) == IF OpenMr(branch) = 0 THEN Len(mrs) + 1 ELSE OpenMr(branch)

\* A call through the gateway: it acts and answers; it acts and the answer does
\* not come in time; or it does not act (an error, or the offline transport).
WriteOutcomes == {"answered", "late", "none"}

MutDispatchMr(t) ==
    /\ At(t, "mr")
    /\ LET o == objects[req[t].obj]
       IN  \/ /\ mrs' = CreateMr(Branch(o))
              /\ Go(t, [req[t] EXCEPT
                          !.pc = IF RerunMissing(o.inv) THEN "spawn" ELSE "record",
                          !.mr = CreatedMr(Branch(o))])
           \/ Finish(t) /\ UNCHANGED mrs
    /\ Effect(t, "mr")
    /\ UNCHANGED <<objects, list, inbox, approved, lifeVars>>
\* gitlab_create_mr: only an answer has an iid.  Then the look-up of the re-run
\* approval, to be spawned unless it exists.
DispatchMr(t) ==
    /\ At(t, "mr")
    /\ LET o == objects[req[t].obj]
       IN  \E outcome \in WriteOutcomes :
             /\ mrs' = IF outcome = "none" THEN mrs ELSE CreateMr(Branch(o))
             /\ Go(t, [req[t] EXCEPT
                         !.pc = IF RerunMissing(o.inv) THEN "spawn" ELSE "record",
                         !.mr = IF outcome = "answered" THEN CreatedMr(Branch(o)) ELSE 0])
    /\ Effect(t, "mr")
    /\ UNCHANGED <<objects, list, inbox, approved, lifeVars>>

\* The end of stage 1; a second approval's answer replaces the first one's iid.
RecordMr(t) ==
    /\ At(t, "spawn") \/ At(t, "record")
    /\ objects' = [objects EXCEPT ![req[t].obj].status = "awaiting_rerun"]
    /\ LET i == objects[req[t].obj].inv
           recorded == [inbox EXCEPT ![req[t].ap].mr = req[t].mr]
       IN  inbox' = IF At(t, "spawn")
                    THEN Append(recorded, Approval(RerunId(i), i, "rerun", FALSE))
                    ELSE recorded
    /\ Finish(t)
    /\ UNCHANGED <<list, mrs, approved, done, lifeVars>>

\* airflow_trigger_dag, and the re-validation right after it: it reads 0%, or
\* more, or nothing when there is no drift value or the check raised.
DispatchDag(t) ==
    /\ At(t, "dag")
    /\ Effect(t, "dag")
    /\ \E zero \in BOOLEAN : Go(t, [req[t] EXCEPT !.pc = "memory", !.zero = zero])
    /\ UNCHANGED <<objects, list, inbox, mrs, approved, lifeVars>>

\* The end of stage 2: a second agent run and memory_writeback, whose failure
\* is reported as written, and the investigation is resolved.
Resolve(t) ==
    /\ At(t, "memory")
    /\ Effect(t, "memory") \/ UNCHANGED done
    /\ inbox' = [inbox EXCEPT ![req[t].ap].zero = req[t].zero]
    /\ objects' = [objects EXCEPT ![req[t].obj].status = "resolved"]
    /\ Finish(t)
    /\ UNCHANGED <<list, mrs, approved, lifeVars>>

-----------------------------------------------------------------------------
(* Merge state: listing or opening an approval polls GitLab.                *)

RefreshMerge(a) ==
    /\ inbox[a].status = "approved" /\ inbox[a].mr # 0 /\ ~inbox[a].merged
    /\ Accept([Served EXCEPT !.pc = "poll", !.ap = a, !.mr = inbox[a].mr])
    /\ UNCHANGED <<objects, list, inbox, mrs, approved, done, lifeVars>>

MutGitlabAnswers(t) ==
    /\ At(t, "poll")
    /\ inbox' = [inbox EXCEPT ![req[t].ap].merged = TRUE]
    /\ Finish(t)
    /\ UNCHANGED <<objects, list, mrs, approved, done, lifeVars>>
\* The answer of GitLab, which may also be unavailable.
GitlabAnswers(t) ==
    /\ At(t, "poll")
    /\ \/ mrs[req[t].mr].merged /\ inbox' = [inbox EXCEPT ![req[t].ap].merged = TRUE]
       \/ UNCHANGED inbox
    /\ Finish(t)
    /\ UNCHANGED <<objects, list, mrs, approved, done, lifeVars>>

\* External: a reviewer merges an open merge request.
MergeMr(m) ==
    /\ ~mrs[m].merged
    /\ mrs' = [mrs EXCEPT ![m].merged = TRUE]
    /\ UNCHANGED <<objects, list, inbox, req, approved, done, lifeVars>>

-----------------------------------------------------------------------------
(* The overview of the console.                                             *)

NeedAttention == {"needs_approval", "escalated", "running"}

MutAttention == {inbox[a].inv : a \in {b \in DOMAIN inbox : inbox[b].status = "pending"}}
\* overview: the investigations that need someone, and those of which an
\* approval is pending.
Attention ==
    {objects[list[k]].inv : k \in {j \in DOMAIN list : objects[list[j]].status \in NeedAttention}}
    \cup {inbox[a].inv : a \in {b \in DOMAIN inbox : inbox[b].status = "pending"}}

-----------------------------------------------------------------------------
Ids == {inbox[a].id : a \in DOMAIN inbox}

\* A request that was accepted goes on.
Proceed(t) ==
    \/ InsertQuestion(t)
    \/ AgentReturns(t) \/ AgentFails(t) \/ Replace(t) \/ SyncAppend(t)
    \/ DispatchMr(t) \/ RecordMr(t)
    \/ DispatchDag(t) \/ Resolve(t)
    \/ GitlabAnswers(t)

Next ==
    \/ \E i \in Investigations : GetInvestigation(i) \/ RunAgent(i)
    \/ AskQuestion
    \/ \E id \in Ids : Approve(id)
    \/ \E id \in Ids, decision \in Refusals : Refuse(id, decision)
    \/ \E a \in DOMAIN inbox : RefreshMerge(a)
    \/ \E t \in DOMAIN req : Proceed(t)
    \/ \E m \in DOMAIN mrs : MergeMr(m)
    \/ Restart

\* What follows the write tool's answer is local and catches its errors, so it
\* is executed.  The slow calls themselves may hang (the handshake with an MCP
\* server has no timeout), and nobody has to send another request.
Spec == Init /\ [][Next]_vars
        /\ \A t \in 1..MaxRequests : WF_vars(t \in DOMAIN req /\ RecordMr(t))

Quiet == \A t \in DOMAIN req : At(t, "served")

\* The console as one user sees it who waits for every answer: a request is
\* accepted when no other one is under way.
SerialSpec == Init /\ [][Next /\ (Len(req') > Len(req) => Quiet)]_vars

-----------------------------------------------------------------------------
(* Correctness.                                                             *)

Object == [inv : Investigations, metric : Metrics, status : Statuses,
           agentRun : BOOLEAN, validated : BOOLEAN,
           approvalId : {NoId} \cup ({"seed", "rerun"} \X Investigations)
                        \cup ({"ap"} \X Nat)]
Decision == {"pending", "approved", "rejected", "needs_revision"}

\* Every reference points at something that exists, and every field holds a
\* value the code gives it.
TypeOK ==
    /\ \A o \in DOMAIN objects : objects[o] \in Object
    /\ \A k \in DOMAIN list : list[k] \in DOMAIN objects
    /\ \A a \in DOMAIN inbox :
         /\ inbox[a].inv \in Investigations /\ inbox[a].stage \in {"fix", "rerun"}
         /\ inbox[a].status \in Decision /\ inbox[a].zero \in BOOLEAN
         /\ inbox[a].mr \in {0} \cup DOMAIN mrs
    /\ \A t \in DOMAIN req :
         /\ req[t].obj \in {0} \cup DOMAIN objects /\ req[t].new \in {0} \cup DOMAIN objects
         /\ req[t].idx \in {0} \cup DOMAIN list /\ req[t].ap \in {0} \cup DOMAIN inbox
         /\ req[t].mr \in {0} \cup DOMAIN mrs
    /\ \A m \in DOMAIN mrs :
         mrs[m].branch \in [inv : Investigations, metric : Metrics] /\ mrs[m].merged \in BOOLEAN
    /\ askSeq \in 0..Len(Asked) /\ restarts \in 0..MaxRestarts

\* _seed_approvals, _sync_approval (server.py:79-81): when no request is under
\* way, every investigation the agent found fixable has an approval in the
\* inbox, whatever runs overlapped and whichever object ended up in the list.
FixableHasApproval ==
    Quiet => \A k \in DOMAIN list :
        objects[list[k]].status = "needs_approval" /\ objects[list[k]].agentRun
            => FirstFor(objects[list[k]].inv) # 0

\* An investigation that says it awaits its re-run can get it: the approval it
\* points to is in the inbox, and it is the re-run of this investigation.
AwaitingHasRerun ==
    \A o \in DOMAIN objects : objects[o].status = "awaiting_rerun" =>
        LET a == ById(RerunId(objects[o].inv))
        IN  a # 0 /\ inbox[a].stage = "rerun" /\ inbox[a].inv = objects[o].inv

\* _refresh_merge: the merge gate of an approval opens only after a merge
\* request of this investigation was merged.
MergedIsReal ==
    \A a \in DOMAIN inbox : inbox[a].merged =>
        \E m \in DOMAIN mrs : mrs[m].branch.inv = inbox[a].inv /\ mrs[m].merged

\* overview (server.py:173): whatever was decided, refused or overwritten, an
\* investigation of the list that is not resolved is shown to someone, unless
\* its re-run has been decided.
NothingForgotten ==
    \A k \in DOMAIN list :
        LET i == objects[list[k]].inv
        IN  objects[list[k]].status # "resolved" /\ i \notin Attention =>
              \E a \in DOMAIN inbox :
                 inbox[a].inv = i /\ inbox[a].stage = "rerun" /\ inbox[a].status # "pending"

\* Whatever the write tool answered, the re-run of a fix is offered once its merge
\* request was asked for, unless the request that asked is still about to do it.
OfferedOrUnderway ==
    \A i \in Investigations : <<i, "mr">> \in done =>
        \/ ById(RerunId(i)) # 0
        \/ \E t \in DOMAIN req : At(t, "spawn") /\ objects[req[t].obj].inv = i

\* The console is a two-stage remediation of every investigation.
TwoStage == INSTANCE TwoStageRemediation WITH
    offered <- {inbox[a].inv : a \in {b \in DOMAIN inbox : inbox[b].stage = "rerun"}}
ImplementsTwoStage == TwoStage!Spec

\* Whatever answer the write tool gave, a merge request that was asked for is
\* followed by the offer to re-run (_apply_mr), unless the process restarts.
MrLeadsToOffer ==
    \A i \in Investigations :
        <<i, "mr">> \in done ~> ById(RerunId(i)) # 0 \/ <<i, "mr">> \notin done

\* server.py:277: a lazy analysis never overwrites a post-approval state.
PostApprovalKept ==
    [][\A t \in DOMAIN req :
         At(t, "replace") /\ ~At(t, "replace")' /\ req[t].kind = "open" /\ req[t].idx # 0
           => objects[list[req[t].idx]].status \notin PostApproval]_vars

\* server.py:79-81: no dead ends, the approval id an investigation shows is the
\* id of an approval of this investigation.
NoDeadEnd ==
    Quiet => \A k \in DOMAIN list :
        LET o == objects[list[k]]
        IN  o.status = "needs_approval" /\ o.agentRun =>
              ById(o.approvalId) # 0 /\ inbox[ById(o.approvalId)].inv = o.inv

Listed == {objects[list[k]].inv : k \in DOMAIN list}

\* server.py:261-265, :1189: the list only changes by putting an investigation in
\* its own place or a new one at the head, so none is lost while the process lives.
NobodyVanishes == [][restarts' = restarts => Listed \subseteq Listed']_vars

\* server.py:79-81, :798: an approval is found by its id, so no two have the same,
\* and an investigation gets one re-run.
ApprovalsApart == \A a, b \in DOMAIN inbox : inbox[a].id = inbox[b].id => a = b

\* server.py:807: the post-run reconciliation reads 0% before resolving.
ResolvedAtZero ==
    \A o \in DOMAIN objects : objects[o].status = "resolved" =>
        \E a \in DOMAIN inbox : /\ inbox[a].inv = objects[o].inv
                                /\ inbox[a].stage = "rerun" /\ inbox[a].zero

\* server.py:119: the reconciliation of a proposed fix was verified.
ProposedFixVerified ==
    \A a \in DOMAIN inbox : inbox[a].stage = "fix" => inbox[a].validated
=============================================================================
