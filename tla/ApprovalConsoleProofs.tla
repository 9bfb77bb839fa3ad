------------------------ MODULE ApprovalConsoleProofs ------------------------
(***************************************************************************)
(* Machine-checked proofs about the console, for any number of             *)
(* investigations, questions, metrics, overlapping requests and restarts.  *)
(***************************************************************************)
EXTENDS ApprovalConsole, SequenceTheorems, WellFoundedInduction, TLAPS

-----------------------------------------------------------------------------
(* The inductive invariant.                                                 *)

ApprovalIds == {NoId} \cup ({"seed", "rerun"} \X Investigations) \cup ({"ap"} \X Nat)
ApprovalRecord ==
    [id : ApprovalIds, inv : Investigations, stage : {"fix", "rerun"}, status : Decision,
     validated : BOOLEAN, mr : Nat, merged : BOOLEAN, zero : BOOLEAN]
MergeRequest == [branch : [inv : Investigations, metric : Metrics], merged : BOOLEAN]

Acting == {"mr", "spawn", "record", "dag", "memory"}
Request ==
    [pc : {"served", "agent", "replace", "append", "ask", "poll"} \cup Acting,
     kind : {"none", "open", "run"}, obj : Nat, new : Nat, idx : Nat, ap : Nat,
     id : ApprovalIds, mr : Nat, zero : BOOLEAN]

\* The variables are sequences of what the code puts into them.
SeqInv ==
    /\ objects \in Seq(Object) /\ list \in Seq(Nat) /\ inbox \in Seq(ApprovalRecord)
    /\ req \in Seq(Request) /\ mrs \in Seq(MergeRequest)
    /\ askSeq \in 0..Len(Asked) /\ restarts \in 0..MaxRestarts

ListInv == \A k \in DOMAIN list : list[k] \in DOMAIN objects

HasRerun(i) == \E a \in DOMAIN inbox : inbox[a].id = RerunId(i)

\* An approval's merge request is one of its investigation, and so is the one
\* that opened its merge gate; the id of a re-run names the investigation.
GoodApproval(p) ==
    /\ p.mr # 0 => p.mr \in DOMAIN mrs /\ mrs[p.mr].branch.inv = p.inv
    /\ p.merged => \E m \in DOMAIN mrs : mrs[m].branch.inv = p.inv /\ mrs[m].merged
    /\ \A i \in Investigations : p.id = RerunId(i) => p.stage = "rerun" /\ p.inv = i

GoodObject(o) == o.status = "awaiting_rerun" => HasRerun(o.inv)

\* What a request under way has established: its references exist, the object
\* it works on and its approval are of one investigation, and the approval or
\* the effect that its next step relies on is on record.
GoodRequest(r) ==
    /\ r.obj \in {0} \cup DOMAIN objects /\ r.new \in {0} \cup DOMAIN objects
    /\ r.idx \in {0} \cup DOMAIN list /\ r.ap \in {0} \cup DOMAIN inbox
    /\ r.mr \in {0} \cup DOMAIN mrs
    /\ r.pc = "ask" => askSeq # 0
    /\ r.pc = "agent" => r.obj # 0
    /\ r.pc \in {"replace", "append"} => r.new # 0
    /\ r.pc = "append" => r.id \in {"ap"} \X Nat
    /\ r.pc \in Acting => /\ r.obj # 0 /\ r.ap # 0
                          /\ objects[r.obj].inv = inbox[r.ap].inv
    /\ r.pc = "mr" => <<objects[r.obj].inv, "fix">> \in approved
    /\ r.pc \in {"spawn", "record"} =>
          /\ <<objects[r.obj].inv, "mr">> \in done
          /\ r.mr # 0 => mrs[r.mr].branch.inv = objects[r.obj].inv
    /\ r.pc = "record" => HasRerun(objects[r.obj].inv)
    /\ r.pc = "dag" => <<objects[r.obj].inv, "rerun">> \in approved
    /\ r.pc = "memory" => <<objects[r.obj].inv, "dag">> \in done
    /\ r.pc = "poll" => r.ap # 0 /\ r.mr # 0 /\ mrs[r.mr].branch.inv = inbox[r.ap].inv

ApprovalInv == \A a \in DOMAIN inbox : GoodApproval(inbox[a])
ObjectInv == \A o \in DOMAIN objects : GoodObject(objects[o])
RequestInv == \A t \in DOMAIN req : GoodRequest(req[t])

\* The investigation has an approval, or a request is about to append one.
Shown(i) ==
    \/ \E a \in DOMAIN inbox : inbox[a].inv = i
    \/ \E t \in DOMAIN req : req[t].pc = "append" /\ objects[req[t].new].inv = i
Covered(o) ==
    objects[o].status = "needs_approval" /\ objects[o].agentRun => Shown(objects[o].inv)
CoverInv == \A k \in DOMAIN list : Covered(list[k])

IInv ==
    /\ SeqInv /\ ListInv /\ ApprovalInv /\ ObjectInv /\ RequestInv /\ CoverInv

-----------------------------------------------------------------------------
(* Sequences and look-ups.                                                  *)

LEMMA AppendAt ==
    ASSUME NEW S, NEW s \in Seq(S), NEW e \in S
    PROVE  /\ Append(s, e) \in Seq(S)
           /\ Len(s) \in Nat /\ Len(Append(s, e)) = Len(s) + 1 /\ Len(s) + 1 # 0
           /\ DOMAIN Append(s, e) = DOMAIN s \cup {Len(s) + 1}
           /\ Len(s) + 1 \notin DOMAIN s
           /\ \A k \in DOMAIN s : Append(s, e)[k] = s[k]
           /\ Append(s, e)[Len(s) + 1] = e
  <1>1. Len(s) \in Nat /\ DOMAIN s = 1..Len(s) BY LenProperties
  <1>2. /\ Append(s, e) \in Seq(S) /\ Len(Append(s, e)) = Len(s) + 1
        /\ \A k \in 1..Len(s) : Append(s, e)[k] = s[k]
        /\ Append(s, e)[Len(s) + 1] = e
    BY AppendProperties
  <1>3. DOMAIN Append(s, e) = 1..(Len(s) + 1) BY <1>2, LenProperties
  <1> QED BY <1>1, <1>2, <1>3

LEMMA ExceptAt ==
    ASSUME NEW S, NEW s \in Seq(S), NEW k \in DOMAIN s, NEW e \in S
    PROVE  /\ [s EXCEPT ![k] = e] \in Seq(S)
           /\ DOMAIN [s EXCEPT ![k] = e] = DOMAIN s
           /\ \A j \in DOMAIN s : [s EXCEPT ![k] = e][j] = IF j = k THEN e ELSE s[j]
  <1>1. DOMAIN s = 1..Len(s) BY LenProperties
  <1> QED BY <1>1, ExceptSeq

LEMMA ConsAt ==
    ASSUME NEW S, NEW s \in Seq(S), NEW e \in S
    PROVE  /\ <<e>> \o s \in Seq(S)
           /\ DOMAIN s \subseteq DOMAIN (<<e>> \o s)
           /\ \A k \in DOMAIN (<<e>> \o s) :
                 (<<e>> \o s)[k] = e \/ \E j \in DOMAIN s : (<<e>> \o s)[k] = s[j]
  <1>1. <<e>> \in Seq(S) /\ Len(<<e>>) = 1 /\ <<e>>[1] = e OBVIOUS
  <1>2. Len(s) \in Nat /\ DOMAIN s = 1..Len(s) BY LenProperties
  <1>3. /\ <<e>> \o s \in Seq(S) /\ Len(<<e>> \o s) = 1 + Len(s)
        /\ \A k \in 1..(1 + Len(s)) :
              (<<e>> \o s)[k] = IF k <= 1 THEN <<e>>[k] ELSE s[k - 1]
    BY <1>1, ConcatProperties
  <1>4. DOMAIN (<<e>> \o s) = 1..(1 + Len(s)) BY <1>3, LenProperties
  <1>5. ASSUME NEW k \in 1..(1 + Len(s)), k > 1
        PROVE  k - 1 \in 1..Len(s) /\ (<<e>> \o s)[k] = s[k - 1]
    BY <1>2, <1>3, <1>5
  <1> QED BY <1>1, <1>2, <1>3, <1>4, <1>5

\* Lowest finds a member, or 0 when there is none.
LEMMA LowestSpec ==
    ASSUME NEW S, S \subseteq Nat \ {0}
    PROVE  /\ Lowest(S) \in S \cup {0}
           /\ Lowest(S) = 0 <=> S = {}
  <1>1. CASE S = {} BY <1>1 DEF Lowest
  <1>2. CASE S # {}
    <2>1. \E m \in S : \A n \in S : ~ (<<n, m>> \in OpToRel(<, Nat))
      BY <1>2, NatLessThanWellFounded, WFMin
    <2>2. PICK m \in S : \A n \in S : ~ (<<n, m>> \in OpToRel(<, Nat)) BY <2>1
    <2>3. \A n \in S : ~ (n < m) BY <2>2 DEF OpToRel
    <2>4. \A n \in S : m <= n BY <2>3
    <2>5. Min(S) \in S BY <2>4 DEF Min
    <2> QED BY <1>2, <2>5 DEF Lowest
  <1> QED BY <1>1, <1>2

LEMMA ByIdSpec ==
    ASSUME SeqInv, NEW id
    PROVE  /\ ById(id) \in {0} \cup DOMAIN inbox
           /\ ById(id) # 0 => inbox[ById(id)].id = id
           /\ ById(id) = 0 => \A a \in DOMAIN inbox : inbox[a].id # id
  <1> DEFINE S == {a \in DOMAIN inbox : inbox[a].id = id}
  <1>1. DOMAIN inbox = 1..Len(inbox) BY LenProperties DEF SeqInv
  <1>2. S \subseteq Nat \ {0} BY <1>1
  <1>3. ById(id) = Lowest(S) BY DEF ById
  <1>4. Lowest(S) \in S \cup {0} /\ (Lowest(S) = 0 <=> S = {}) BY <1>2, LowestSpec
  <1> QED BY <1>3, <1>4

LEMMA FirstForSpec ==
    ASSUME SeqInv, NEW i
    PROVE  /\ FirstFor(i) \in {0} \cup DOMAIN inbox
           /\ FirstFor(i) # 0 => inbox[FirstFor(i)].inv = i
           /\ FirstFor(i) = 0 => \A a \in DOMAIN inbox : inbox[a].inv # i
  <1> DEFINE S == {a \in DOMAIN inbox : inbox[a].inv = i}
  <1>1. DOMAIN inbox = 1..Len(inbox) BY LenProperties DEF SeqInv
  <1>2. S \subseteq Nat \ {0} BY <1>1
  <1>3. FirstFor(i) = Lowest(S) BY DEF FirstFor
  <1>4. Lowest(S) \in S \cup {0} /\ (Lowest(S) = 0 <=> S = {}) BY <1>2, LowestSpec
  <1> QED BY <1>3, <1>4

LEMMA CurrentSpec ==
    ASSUME SeqInv, ListInv, NEW i
    PROVE  /\ Position(i) \in {0} \cup DOMAIN list
           /\ Current(i) # 0 => Current(i) \in DOMAIN objects /\ objects[Current(i)].inv = i
           /\ Current(i) \in {0} \cup DOMAIN objects
  <1> DEFINE S == {k \in DOMAIN list : objects[list[k]].inv = i}
  <1>1. DOMAIN list = 1..Len(list) BY LenProperties DEF SeqInv
  <1>2. S \subseteq Nat \ {0} BY <1>1
  <1>3. Position(i) = Lowest(S) BY DEF Position
  <1>4. Lowest(S) \in S \cup {0} /\ (Lowest(S) = 0 <=> S = {}) BY <1>2, LowestSpec
  <1> QED BY <1>3, <1>4 DEF Current, ListInv

\* OpenMr finds the open merge request of a branch if there is one.
LEMMA OpenMrSpec ==
    ASSUME SeqInv, NEW branch
    PROVE  /\ OpenMr(branch) \in {0} \cup DOMAIN mrs
           /\ OpenMr(branch) # 0 => mrs[OpenMr(branch)].branch = branch
  <1> DEFINE S == {m \in DOMAIN mrs : mrs[m].branch = branch /\ ~mrs[m].merged}
  <1>1. DOMAIN mrs = 1..Len(mrs) BY LenProperties DEF SeqInv
  <1>2. S \subseteq Nat \ {0} BY <1>1
  <1>3. OpenMr(branch) = Lowest(S) BY DEF OpenMr
  <1>4. Lowest(S) \in S \cup {0} /\ (Lowest(S) = 0 <=> S = {}) BY <1>2, LowestSpec
  <1> QED BY <1>3, <1>4

-----------------------------------------------------------------------------
(* What a life of the console only adds to: nothing is taken out of the     *)
(* store, and what a reference leads to keeps its identity.                 *)

ObjectsGrow ==
    \A o \in DOMAIN objects :
        /\ o \in DOMAIN objects'
        /\ objects'[o].inv = objects[o].inv /\ objects'[o].agentRun = objects[o].agentRun
        /\ objects'[o].status \in {objects[o].status} \cup PostApproval
InboxGrows ==
    \A a \in DOMAIN inbox :
        /\ a \in DOMAIN inbox'
        /\ inbox'[a].id = inbox[a].id /\ inbox'[a].inv = inbox[a].inv
        /\ inbox'[a].stage = inbox[a].stage
MrsGrow ==
    \A m \in DOMAIN mrs :
        /\ m \in DOMAIN mrs'
        /\ mrs'[m].branch = mrs[m].branch /\ (mrs[m].merged => mrs'[m].merged)
Grow ==
    /\ ObjectsGrow /\ InboxGrows /\ MrsGrow
    /\ DOMAIN list \subseteq DOMAIN list'
    /\ approved \subseteq approved' /\ done \subseteq done'
    /\ askSeq # 0 => askSeq' # 0

LEMMA RequestStable == ASSUME Grow, NEW r, GoodRequest(r) PROVE GoodRequest(r)'
  BY DEF Grow, ObjectsGrow, InboxGrows, MrsGrow, GoodRequest, HasRerun, Acting

LEMMA ApprovalStable == ASSUME Grow, NEW p, GoodApproval(p) PROVE GoodApproval(p)'
  BY DEF Grow, MrsGrow, GoodApproval

LEMMA ObjectStable == ASSUME Grow, NEW o, GoodObject(o) PROVE GoodObject(o)'
  BY DEF Grow, InboxGrows, GoodObject, HasRerun

\* A request accepted, or the next state of one.
LEMMA RequestAccepted ==
    ASSUME SeqInv, RequestInv, Grow, NEW r \in Request, GoodRequest(r)',
           req' = Append(req, r)
    PROVE  /\ req' \in Seq(Request) /\ RequestInv'
           /\ \A t \in DOMAIN req : t \in DOMAIN req' /\ req'[t] = req[t]
  <1>1. req \in Seq(Request) BY DEF SeqInv
  <1>2. /\ req' \in Seq(Request) /\ DOMAIN req' = DOMAIN req \cup {Len(req) + 1}
        /\ \A t \in DOMAIN req : req'[t] = req[t]
        /\ req'[Len(req) + 1] = r
    BY <1>1, AppendAt
  <1>3. ASSUME NEW t \in DOMAIN req PROVE GoodRequest(req[t])'
    <2>1. PICK s : s = req[t] OBVIOUS
    <2>2. GoodRequest(s) BY <1>3, <2>1 DEF RequestInv
    <2> QED BY <1>2, <2>1, <2>2, RequestStable
  <1> QED BY <1>2, <1>3 DEF RequestInv

LEMMA RequestWent ==
    ASSUME SeqInv, RequestInv, Grow, NEW r \in Request, GoodRequest(r)',
           NEW u \in DOMAIN req, req' = [req EXCEPT ![u] = r]
    PROVE  /\ req' \in Seq(Request) /\ RequestInv'
           /\ \A t \in DOMAIN req : t \in DOMAIN req' /\ (t # u => req'[t] = req[t])
           /\ req'[u] = r
  <1>1. req \in Seq(Request) BY DEF SeqInv
  <1>2. /\ req' \in Seq(Request) /\ DOMAIN req' = DOMAIN req
        /\ \A t \in DOMAIN req : req'[t] = IF t = u THEN r ELSE req[t]
    BY <1>1, ExceptAt
  <1>3. ASSUME NEW t \in DOMAIN req' PROVE GoodRequest(req[t])'
    <2>1. PICK s : s = req[t] OBVIOUS
    <2>2. GoodRequest(s) BY <1>2, <2>1 DEF RequestInv
    <2>3. GoodRequest(s)' BY <2>2, RequestStable
    <2> QED BY <1>2, <2>1, <2>3
  <1> QED BY <1>2, <1>3 DEF RequestInv

\* What a step has to show of each approval, object and list entry: it is as
\* before, or good.
ApprovalsStep ==
    \A a \in DOMAIN inbox' :
        \/ /\ a \in DOMAIN inbox
           /\ inbox'[a].mr = inbox[a].mr /\ inbox'[a].merged = inbox[a].merged
        \/ GoodApproval(inbox[a])'
ObjectsStep ==
    \A o \in DOMAIN objects' :
        \/ o \in DOMAIN objects /\ objects'[o].status = objects[o].status
        \/ objects'[o].status # "awaiting_rerun"
        \/ HasRerun(objects[o].inv)'
ListStep ==
    \A k \in DOMAIN list' :
        \/ \E j \in DOMAIN list : list'[k] = list[j]
        \/ list'[k] \in DOMAIN objects' /\ Covered(list[k])'
AppendsKept ==
    \A t \in DOMAIN req : req[t].pc = "append" =>
        \/ t \in DOMAIN req' /\ req'[t] = req[t]
        \/ \E a \in DOMAIN inbox' : inbox'[a].inv = objects[req[t].new].inv

LEMMA ApprovalsKept == ASSUME ApprovalInv, Grow, ApprovalsStep PROVE ApprovalInv'
  <1> SUFFICES ASSUME NEW a \in DOMAIN inbox' PROVE GoodApproval(inbox[a])'
    BY DEF ApprovalInv
  <1>1. CASE /\ a \in DOMAIN inbox
             /\ inbox'[a].mr = inbox[a].mr /\ inbox'[a].merged = inbox[a].merged
    <2>1. PICK p : p = inbox[a] OBVIOUS
    <2>2. GoodApproval(p) BY <1>1, <2>1 DEF ApprovalInv
    <2>3. GoodApproval(p)' BY <2>2, ApprovalStable
    <2>4. inbox'[a].id = p.id /\ inbox'[a].inv = p.inv /\ inbox'[a].stage = p.stage
      BY <1>1, <2>1 DEF Grow, InboxGrows
    <2> QED BY <1>1, <2>1, <2>3, <2>4 DEF GoodApproval
  <1> QED BY <1>1 DEF ApprovalsStep

LEMMA ObjectsKept == ASSUME ObjectInv, Grow, ObjectsStep PROVE ObjectInv'
  <1> SUFFICES ASSUME NEW o \in DOMAIN objects' PROVE GoodObject(objects[o])'
    BY DEF ObjectInv
  <1>1. CASE o \in DOMAIN objects /\ objects'[o].status = objects[o].status
    <2>1. PICK p : p = objects[o] OBVIOUS
    <2>2. GoodObject(p) BY <1>1, <2>1 DEF ObjectInv
    <2>3. GoodObject(p)' BY <2>2, ObjectStable
    <2>4. objects'[o].inv = p.inv BY <1>1, <2>1 DEF Grow, ObjectsGrow
    <2> QED BY <1>1, <2>1, <2>3, <2>4 DEF GoodObject
  <1> QED BY <1>1 DEF ObjectsStep, GoodObject

LEMMA ListKept ==
    ASSUME IInv, Grow, ListStep, AppendsKept
    PROVE  ListInv' /\ CoverInv'
  <1> SUFFICES ASSUME NEW k \in DOMAIN list'
               PROVE  list'[k] \in DOMAIN objects' /\ Covered(list[k])'
    BY DEF ListInv, CoverInv
  <1>1. CASE \E j \in DOMAIN list : list'[k] = list[j]
    <2>1. PICK j \in DOMAIN list : list'[k] = list[j] BY <1>1
    <2>2. PICK o : o = list[j] OBVIOUS
    <2>3. o \in DOMAIN objects /\ Covered(o) BY <2>2 DEF IInv, ListInv, CoverInv
    <2>4. /\ o \in DOMAIN objects' /\ objects'[o].inv = objects[o].inv
          /\ objects'[o].status = "needs_approval" => objects[o].status = "needs_approval"
          /\ objects'[o].agentRun = objects[o].agentRun
      BY <2>3 DEF Grow, ObjectsGrow, PostApproval
    <2>5. ASSUME Shown(objects[o].inv) PROVE Shown(objects[o].inv)'
      <3>1. CASE \E a \in DOMAIN inbox : inbox[a].inv = objects[o].inv
        BY <2>4, <3>1 DEF Grow, InboxGrows, Shown
      <3>2. CASE \E t \in DOMAIN req :
                    req[t].pc = "append" /\ objects[req[t].new].inv = objects[o].inv
        <4>1. PICK t \in DOMAIN req :
                    req[t].pc = "append" /\ objects[req[t].new].inv = objects[o].inv
          BY <3>2
        <4>2. CASE \E a \in DOMAIN inbox' : inbox'[a].inv = objects[req[t].new].inv
          BY <2>4, <4>1, <4>2 DEF Shown
        <4>3. CASE t \in DOMAIN req' /\ req'[t] = req[t]
          <5>1. req[t].new \in DOMAIN objects
            BY <4>1 DEF IInv, RequestInv, GoodRequest
          <5>2. objects'[req[t].new].inv = objects[req[t].new].inv
            BY <5>1 DEF Grow, ObjectsGrow
          <5> QED BY <2>4, <4>1, <4>3, <5>2 DEF Shown
        <4> QED BY <4>1, <4>2, <4>3 DEF AppendsKept
      <3> QED BY <2>5, <3>1, <3>2 DEF Shown
    <2>6. Covered(o)' BY <2>3, <2>4, <2>5 DEF Covered
    <2> QED BY <2>1, <2>2, <2>4, <2>6 DEF Covered
  <1> QED BY <1>1 DEF ListStep

\* The parts of the invariant, once a step of a request is known to be good.
TypesStep ==
    /\ objects' \in Seq(Object) /\ list' \in Seq(Nat) /\ inbox' \in Seq(ApprovalRecord)
    /\ mrs' \in Seq(MergeRequest)
    /\ askSeq' \in 0..Len(Asked) /\ restarts' \in 0..MaxRestarts

LEMMA AcceptInv ==
    ASSUME IInv, Grow, TypesStep, ApprovalsStep, ObjectsStep, ListStep,
           NEW r \in Request, GoodRequest(r)', req' = Append(req, r)
    PROVE  IInv' /\ Grow
  <1>1. /\ req' \in Seq(Request) /\ RequestInv'
        /\ \A t \in DOMAIN req : t \in DOMAIN req' /\ req'[t] = req[t]
    BY RequestAccepted DEF IInv
  <1>2. AppendsKept BY <1>1 DEF AppendsKept
  <1> QED BY <1>1, <1>2, ApprovalsKept, ObjectsKept, ListKept DEF IInv, SeqInv, TypesStep

LEMMA GoInv ==
    ASSUME IInv, Grow, TypesStep, ApprovalsStep, ObjectsStep, ListStep,
           NEW t \in DOMAIN req, NEW r \in Request, GoodRequest(r)',
           req' = [req EXCEPT ![t] = r],
           \/ req[t].pc # "append"
           \/ \E a \in DOMAIN inbox' : inbox'[a].inv = objects[req[t].new].inv
    PROVE  IInv' /\ Grow
  <1>1. /\ req' \in Seq(Request) /\ RequestInv'
        /\ \A u \in DOMAIN req : u \in DOMAIN req' /\ (u # t => req'[u] = req[u])
    BY RequestWent DEF IInv
  <1>2. AppendsKept BY <1>1 DEF AppendsKept
  <1> QED BY <1>1, <1>2, ApprovalsKept, ObjectsKept, ListKept DEF IInv, SeqInv, TypesStep

\* What is left alone is as good as before.
LEMMA Same ==
    ASSUME IInv
    PROVE  /\ UNCHANGED objects => ObjectsGrow /\ ObjectsStep /\ objects' \in Seq(Object)
           /\ UNCHANGED inbox => /\ InboxGrows /\ ApprovalsStep
                                 /\ inbox' \in Seq(ApprovalRecord)
           /\ UNCHANGED list => /\ DOMAIN list \subseteq DOMAIN list' /\ ListStep
                                /\ list' \in Seq(Nat)
           /\ UNCHANGED mrs => MrsGrow /\ mrs' \in Seq(MergeRequest)
           /\ UNCHANGED lifeVars => /\ askSeq' \in 0..Len(Asked) /\ restarts' \in 0..MaxRestarts
                                    /\ askSeq # 0 => askSeq' # 0
  BY DEF IInv, SeqInv, ObjectsGrow, ObjectsStep, InboxGrows, ApprovalsStep, ListStep,
         MrsGrow, lifeVars

LEMMA ServedGood == Served \in Request /\ GoodRequest(Served) /\ GoodRequest(Served)'
  BY DEF Served, Request, GoodRequest, ApprovalIds, Acting

\* A request of the invariant is one of its type, and good.
LEMMA Serving ==
    ASSUME IInv, NEW t \in DOMAIN req
    PROVE  req[t] \in Request /\ GoodRequest(req[t])
  BY LenProperties DEF IInv, SeqInv, RequestInv

LEMMA ObjectType == ASSUME IInv, NEW o \in DOMAIN objects PROVE objects[o] \in Object
  BY LenProperties DEF IInv, SeqInv

LEMMA ApprovalType == ASSUME IInv, NEW a \in DOMAIN inbox PROVE inbox[a] \in ApprovalRecord
  BY LenProperties DEF IInv, SeqInv

-----------------------------------------------------------------------------
(* Investigations.                                                          *)

LEMMA StartAgentInv ==
    ASSUME IInv, NEW o \in DOMAIN objects, NEW kind \in {"open", "run"}, StartAgent(kind, o)
    PROVE  IInv' /\ Grow
  <1>1. UNCHANGED <<objects, list, inbox, mrs, approved, done, lifeVars>> BY DEF StartAgent
  <1>2. Grow /\ TypesStep /\ ApprovalsStep /\ ObjectsStep /\ ListStep
    BY <1>1, Same DEF Grow, TypesStep
  <1>3. PICK r : r = [Served EXCEPT !.pc = "agent", !.kind = kind, !.obj = o] OBVIOUS
  <1>4. o \in Nat /\ o # 0
    <2>1. DOMAIN objects = 1..Len(objects) BY LenProperties DEF IInv, SeqInv
    <2> QED BY <2>1
  <1>5. r \in Request BY <1>3, <1>4, ServedGood DEF Served, Request
  <1>6. GoodRequest(r)' BY <1>1, <1>3, <1>4 DEF Served, GoodRequest, Acting
  <1>7. req' = Append(req, r) BY <1>3 DEF StartAgent, Accept
  <1> QED BY <1>2, <1>5, <1>6, <1>7, AcceptInv

LEMMA OpenInv ==
    ASSUME IInv, NEW i, GetInvestigation(i) \/ RunAgent(i)
    PROVE  IInv' /\ Grow
  <1>1. Current(i) \in DOMAIN objects
    BY CurrentSpec DEF IInv, GetInvestigation, RunAgent
  <1>2. \E kind \in {"open", "run"} : StartAgent(kind, Current(i))
    BY DEF GetInvestigation, RunAgent
  <1>3. PICK o : o = Current(i) OBVIOUS
  <1>4. PICK kind \in {"open", "run"} : StartAgent(kind, o) BY <1>2, <1>3
  <1> QED BY <1>1, <1>3, <1>4, StartAgentInv

\* A request that is answered leaves nothing to show.
LEMMA FinishInv ==
    ASSUME IInv, Grow, TypesStep, ApprovalsStep, ObjectsStep, ListStep,
           NEW t \in DOMAIN req, Finish(t),
           \/ req[t].pc # "append"
           \/ \E a \in DOMAIN inbox' : inbox'[a].inv = objects[req[t].new].inv
    PROVE  IInv' /\ Grow
  <1>1. req' = [req EXCEPT ![t] = Served] BY DEF Finish, Go
  <1> QED BY <1>1, ServedGood, GoInv

LEMMA AgentFailsInv ==
    ASSUME IInv, NEW t \in DOMAIN req, AgentFails(t)
    PROVE  IInv' /\ Grow
  <1>1. UNCHANGED <<objects, list, inbox, mrs, approved, done, lifeVars>> BY DEF AgentFails
  <1>2. Grow /\ TypesStep /\ ApprovalsStep /\ ObjectsStep /\ ListStep
    BY <1>1, Same DEF Grow, TypesStep
  <1>3. Finish(t) /\ req[t].pc # "append" BY DEF AgentFails, At
  <1> QED BY <1>2, <1>3, FinishInv

\* A new object: the old ones keep their places.
LEMMA NewObject ==
    ASSUME IInv, NEW e \in Object, e.status # "awaiting_rerun",
           objects' = Append(objects, e)
    PROVE  /\ ObjectsGrow /\ ObjectsStep /\ objects' \in Seq(Object)
           /\ Len(objects) + 1 \in DOMAIN objects' /\ Len(objects) + 1 \in Nat
           /\ Len(objects) + 1 # 0
           /\ objects'[Len(objects) + 1] = e
           /\ \A o \in DOMAIN objects : o \in DOMAIN objects' /\ objects'[o] = objects[o]
  <1>1. objects \in Seq(Object) BY DEF IInv, SeqInv
  <1>2. /\ objects' \in Seq(Object) /\ Len(objects) \in Nat /\ Len(objects) + 1 # 0
        /\ DOMAIN objects' = DOMAIN objects \cup {Len(objects) + 1}
        /\ \A o \in DOMAIN objects : objects'[o] = objects[o]
        /\ objects'[Len(objects) + 1] = e
    BY <1>1, AppendAt
  <1> QED BY <1>2 DEF ObjectsGrow, ObjectsStep

LEMMA AgentReturnsInv ==
    ASSUME IInv, NEW t \in DOMAIN req, AgentReturns(t)
    PROVE  IInv' /\ Grow
  <1>1. req[t] \in Request /\ GoodRequest(req[t]) /\ req[t].pc = "agent"
    BY Serving DEF AgentReturns, At
  <1>2. req[t].obj \in DOMAIN objects BY <1>1 DEF GoodRequest
  <1>3. PICK old : old = objects[req[t].obj] OBVIOUS
  <1>4. old \in Object BY <1>2, <1>3, ObjectType
  <1>5. PICK o \in ConsoleOutcomes, metric \in ClassifiedAs(old.metric) :
            objects' = Append(objects,
                [inv |-> old.inv, metric |-> metric, status |-> NormalStatus(o),
                 agentRun |-> TRUE, validated |-> o.validated,
                 approvalId |-> old.approvalId])
    BY <1>3 DEF AgentReturns
  <1>6. PICK e : e = [inv |-> old.inv, metric |-> metric, status |-> NormalStatus(o),
                      agentRun |-> TRUE, validated |-> o.validated,
                      approvalId |-> old.approvalId]
    OBVIOUS
  <1>7. e \in Object /\ e.status # "awaiting_rerun"
    <2>1. metric \in Metrics BY <1>4, <1>5 DEF ClassifiedAs, Object
    <2>2. o.validated = TRUE \/ o.validated = FALSE BY DEF ConsoleOutcomes
    <2>3. (o.patched /\ o.approval # "approved") \/ o.route = "escalate"
      BY DEF ConsoleOutcomes
    <2>4. NormalStatus(o) \in {"needs_approval", "escalated"} BY <2>3 DEF NormalStatus
    <2> QED BY <1>4, <1>6, <2>1, <2>2, <2>4 DEF Object, Statuses
  <1>8. /\ ObjectsGrow /\ ObjectsStep /\ objects' \in Seq(Object)
        /\ Len(objects) + 1 \in DOMAIN objects' /\ Len(objects) + 1 \in Nat
        /\ Len(objects) + 1 # 0
        /\ \A p \in DOMAIN objects : p \in DOMAIN objects'
    BY <1>5, <1>6, <1>7, NewObject
  <1>9. UNCHANGED <<list, inbox, mrs, approved, done, lifeVars>> BY DEF AgentReturns
  <1>10. Grow /\ TypesStep /\ ApprovalsStep /\ ObjectsStep /\ ListStep
    BY <1>8, <1>9, Same DEF Grow, TypesStep
  <1>11. PICK r : r = [req[t] EXCEPT !.pc = "replace", !.new = Len(objects) + 1,
                                     !.idx = Position(old.inv)]
    OBVIOUS
  <1>12. Position(old.inv) \in {0} \cup DOMAIN list BY CurrentSpec DEF IInv
  <1>13. Position(old.inv) \in Nat
    <2>1. DOMAIN list = 1..Len(list) BY LenProperties DEF IInv, SeqInv
    <2> QED BY <1>12, <2>1
  <1>14. r \in Request BY <1>1, <1>8, <1>11, <1>13 DEF Request
  <1>15. GoodRequest(r)' BY <1>1, <1>8, <1>9, <1>11, <1>12 DEF GoodRequest, Acting, Request
  <1>16. req' = [req EXCEPT ![t] = r] BY <1>3, <1>11 DEF AgentReturns, Go
  <1> QED BY <1>1, <1>10, <1>14, <1>15, <1>16, GoInv

\* The approval id of an object changes.
LEMMA Relinked ==
    ASSUME IInv, NEW o \in DOMAIN objects, NEW id \in ApprovalIds,
           objects' = [objects EXCEPT ![o].approvalId = id]
    PROVE  ObjectsGrow /\ ObjectsStep /\ objects' \in Seq(Object) /\ DOMAIN objects' = DOMAIN objects
  <1>1. objects \in Seq(Object) BY DEF IInv, SeqInv
  <1>2. PICK e : e = [objects[o] EXCEPT !.approvalId = id] OBVIOUS
  <1>3. objects[o] \in Object BY ObjectType
  <1>4. /\ e \in Object /\ e.inv = objects[o].inv /\ e.agentRun = objects[o].agentRun
        /\ e.status = objects[o].status
    BY <1>2, <1>3 DEF Object, ApprovalIds
  <1>5. objects' = [objects EXCEPT ![o] = e] BY <1>2
  <1>6. /\ objects' \in Seq(Object) /\ DOMAIN objects' = DOMAIN objects
        /\ \A p \in DOMAIN objects : objects'[p] = IF p = o THEN e ELSE objects[p]
    <2>1. e \in Object BY <1>4
    <2>2. /\ [objects EXCEPT ![o] = e] \in Seq(Object)
          /\ DOMAIN [objects EXCEPT ![o] = e] = DOMAIN objects
          /\ \A p \in DOMAIN objects :
                [objects EXCEPT ![o] = e][p] = IF p = o THEN e ELSE objects[p]
      BY ONLY <1>1, <2>1, o \in DOMAIN objects, ExceptAt
    <2> QED BY <1>5, <2>2
  <1> QED BY <1>4, <1>6 DEF ObjectsGrow, ObjectsStep

LEMMA ReplaceInv ==
    ASSUME IInv, NEW t \in DOMAIN req, Replace(t)
    PROVE  IInv' /\ Grow
  <1>1. req[t] \in Request /\ GoodRequest(req[t]) /\ req[t].pc = "replace"
    BY Serving DEF Replace, At
  <1>2. PICK new : new = req[t].new OBVIOUS
  <1>3. new \in DOMAIN objects /\ new \in Nat BY <1>1, <1>2 DEF GoodRequest, Request
  <1>4. UNCHANGED <<inbox, mrs, approved, done, lifeVars>> BY DEF Replace
  <1>5. list' = IF req[t].idx = 0 THEN list ELSE [list EXCEPT ![req[t].idx] = new]
    BY <1>2 DEF Replace
  <1>6. /\ list' \in Seq(Nat) /\ DOMAIN list' = DOMAIN list
        /\ \A k \in DOMAIN list' : list'[k] = list[k] \/ list'[k] = new
    <2>1. list \in Seq(Nat) BY DEF IInv, SeqInv
    <2>2. CASE req[t].idx = 0 BY <1>5, <2>1, <2>2
    <2>3. CASE req[t].idx # 0
      <3>1. req[t].idx \in DOMAIN list BY <1>1, <2>3 DEF GoodRequest
      <3> QED BY <1>3, <1>5, <2>1, <2>3, <3>1, ExceptAt
    <2> QED BY <2>2, <2>3
  <1>7. objects[new] \in Object BY <1>3, ObjectType
  <1>8. CASE NeedsSync(objects[new])
    <2>1. PICK r : r = [req[t] EXCEPT !.pc = "append", !.id = SyncId(Len(inbox))] OBVIOUS
    <2>2. UNCHANGED objects /\ req' = [req EXCEPT ![t] = r]
      BY <1>2, <1>8, <2>1 DEF Replace, Go
    <2>3. Len(inbox) \in Nat BY LenProperties DEF IInv, SeqInv
    <2>4. r \in Request BY <1>1, <2>1, <2>3 DEF Request, SyncId, ApprovalIds
    <2>5. r.pc = "append" /\ r.id \in {"ap"} \X Nat /\ r.new = new
      BY <1>1, <1>2, <2>1, <2>3 DEF Request, SyncId
    <2>6. /\ r.obj = req[t].obj /\ r.idx = req[t].idx /\ r.ap = req[t].ap
          /\ r.mr = req[t].mr /\ r.new = req[t].new
      BY <1>1, <2>1 DEF Request
    <2>7. GoodRequest(r)' BY <1>1, <1>2, <1>3, <1>4, <1>6, <2>2, <2>5, <2>6 DEF GoodRequest, Acting
    <2>8. t \in DOMAIN req' /\ req'[t] = r
      BY <2>2, <2>4, ExceptAt DEF IInv, SeqInv
    <2>9. Shown(objects[new].inv)' BY <1>2, <2>2, <2>5, <2>8 DEF Shown
    <2>10. ListStep BY <1>3, <1>6, <2>2, <2>9 DEF ListStep, Covered
    <2>11. Grow /\ TypesStep /\ ApprovalsStep /\ ObjectsStep
      BY <1>4, <1>6, <2>2, Same DEF Grow, TypesStep
    <2> QED BY <1>1, <2>2, <2>4, <2>7, <2>10, <2>11, GoInv
  <1>9. CASE ~NeedsSync(objects[new])
    <2>1. PICK first : first = FirstFor(objects[new].inv) OBVIOUS
    <2>2. /\ Finish(t)
          /\ \/ UNCHANGED objects
             \/ first # 0 /\ objects' = [objects EXCEPT ![new].approvalId = inbox[first].id]
      BY <1>2, <1>9, <2>1 DEF Replace
    <2>3. ObjectsGrow /\ ObjectsStep /\ objects' \in Seq(Object) /\ DOMAIN objects' = DOMAIN objects
      <3>1. CASE UNCHANGED objects BY <3>1, Same
      <3>2. CASE first # 0 /\ objects' = [objects EXCEPT ![new].approvalId = inbox[first].id]
        <4>1. first \in DOMAIN inbox BY <2>1, <3>2, FirstForSpec DEF IInv
        <4>2. inbox[first].id \in ApprovalIds BY <4>1, ApprovalType DEF ApprovalRecord
        <4> QED BY <1>3, <3>2, <4>2, Relinked
      <3> QED BY <2>2, <3>1, <3>2
    <2>4. Grow /\ TypesStep /\ ApprovalsStep
      BY <1>4, <1>6, <2>3, Same DEF Grow, TypesStep
    <2>5. Covered(new)'
      <3>1. /\ objects'[new].inv = objects[new].inv
            /\ objects'[new].status = "needs_approval" => objects[new].status = "needs_approval"
        BY <1>3, <2>3 DEF ObjectsGrow, PostApproval
      <3>2. objects[new].status = "needs_approval" => first # 0
        BY <1>9, <2>1 DEF NeedsSync
      <3>3. first # 0 => first \in DOMAIN inbox /\ inbox[first].inv = objects[new].inv
        BY <2>1, FirstForSpec DEF IInv
      <3> QED BY <1>4, <3>1, <3>2, <3>3 DEF Covered, Shown
    <2>6. ListStep BY <1>3, <1>6, <2>3, <2>5 DEF ListStep, Covered
    <2> QED BY <1>1, <2>2, <2>3, <2>4, <2>6, FinishInv
  <1> QED BY <1>8, <1>9

\* A new approval: the old ones keep their places.
LEMMA NewApproval ==
    ASSUME IInv, NEW p \in ApprovalRecord, GoodApproval(p)', inbox' = Append(inbox, p)
    PROVE  /\ InboxGrows /\ ApprovalsStep /\ inbox' \in Seq(ApprovalRecord)
           /\ Len(inbox) + 1 \in DOMAIN inbox' /\ inbox'[Len(inbox) + 1] = p
  <1>1. inbox \in Seq(ApprovalRecord) BY DEF IInv, SeqInv
  <1>2. /\ inbox' \in Seq(ApprovalRecord)
        /\ DOMAIN inbox' = DOMAIN inbox \cup {Len(inbox) + 1}
        /\ \A a \in DOMAIN inbox : inbox'[a] = inbox[a]
        /\ inbox'[Len(inbox) + 1] = p
    BY <1>1, AppendAt
  <1>3. \A a \in DOMAIN inbox' : a \in DOMAIN inbox \/ inbox'[a] = p BY <1>2
  <1>4. \A a \in DOMAIN inbox' : inbox'[a] = p => GoodApproval(inbox[a])' OBVIOUS
  <1> QED BY <1>2, <1>3, <1>4 DEF InboxGrows, ApprovalsStep

LEMMA SyncAppendInv ==
    ASSUME IInv, NEW t \in DOMAIN req, SyncAppend(t)
    PROVE  IInv' /\ Grow
  <1>1. req[t] \in Request /\ GoodRequest(req[t]) /\ req[t].pc = "append"
    BY Serving DEF SyncAppend, At
  <1>2. PICK new : new = req[t].new OBVIOUS
  <1>3. new \in DOMAIN objects BY <1>1, <1>2 DEF GoodRequest
  <1>4. objects[new] \in Object BY <1>3, ObjectType
  <1>5. PICK p : p = Approval(req[t].id, objects[new].inv, "fix", objects[new].validated)
    OBVIOUS
  <1>6. req[t].id \in {"ap"} \X Nat BY <1>1 DEF GoodRequest
  <1>7. p \in ApprovalRecord /\ p.inv = objects[new].inv
    BY <1>4, <1>5, <1>6 DEF Approval, ApprovalRecord, ApprovalIds, Object, Decision
  <1>8. GoodApproval(p)'
    <2>1. p.mr = 0 /\ ~p.merged /\ p.id = req[t].id BY <1>5 DEF Approval
    <2>2. \A i \in Investigations : p.id # RerunId(i)
      <3>1. p.id[1] = "ap" BY <1>6, <2>1
      <3>2. \A i \in Investigations : RerunId(i)[1] = "rerun" BY DEF RerunId
      <3> QED BY <3>1, <3>2
    <2> QED BY <2>1, <2>2 DEF GoodApproval
  <1>9. /\ InboxGrows /\ ApprovalsStep /\ inbox' \in Seq(ApprovalRecord)
        /\ \E a \in DOMAIN inbox' : inbox'[a].inv = objects[new].inv
    <2>1. inbox' = Append(inbox, p) BY <1>2, <1>5 DEF SyncAppend
    <2> QED BY <1>7, <1>8, <2>1, NewApproval
  <1>10. ObjectsGrow /\ ObjectsStep /\ objects' \in Seq(Object)
    <2>1. objects' = [objects EXCEPT ![new].approvalId = req[t].id]
      BY <1>2 DEF SyncAppend
    <2>2. req[t].id \in ApprovalIds BY <1>6 DEF ApprovalIds
    <2> QED BY <1>3, <2>1, <2>2, Relinked
  <1>11. UNCHANGED <<list, mrs, approved, done, lifeVars>> /\ Finish(t) BY DEF SyncAppend
  <1>12. Grow /\ TypesStep /\ ListStep
    BY <1>9, <1>10, <1>11, Same DEF Grow, TypesStep
  <1> QED BY <1>2, <1>9, <1>10, <1>11, <1>12, FinishInv

LEMMA AskQuestionInv == ASSUME IInv, AskQuestion PROVE IInv' /\ Grow
  <1>1. UNCHANGED <<objects, list, inbox, mrs, restarts, approved, done>> /\ askSeq' = askSeq + 1
    BY DEF AskQuestion
  <1>2. askSeq' \in 0..Len(Asked) /\ restarts' \in 0..MaxRestarts /\ askSeq' # 0
    <2>1. Len(Asked) \in Nat BY ConsoleAssumption, LenProperties
    <2> QED BY <1>1, <2>1 DEF AskQuestion, IInv, SeqInv
  <1>3. Grow /\ TypesStep /\ ApprovalsStep /\ ObjectsStep /\ ListStep
    BY <1>1, <1>2, Same DEF Grow, TypesStep
  <1>4. PICK r : r = [Served EXCEPT !.pc = "ask"] OBVIOUS
  <1>5. r \in Request BY <1>4, ServedGood DEF Served, Request
  <1>6. GoodRequest(r)' BY <1>2, <1>4 DEF Served, GoodRequest, Acting
  <1>7. req' = Append(req, r) BY <1>4 DEF AskQuestion, Accept
  <1> QED BY <1>3, <1>5, <1>6, <1>7, AcceptInv

LEMMA InsertQuestionInv ==
    ASSUME IInv, NEW t \in DOMAIN req, InsertQuestion(t)
    PROVE  IInv' /\ Grow
  <1>1. req[t].pc = "ask" /\ askSeq # 0
    BY Serving DEF InsertQuestion, At, GoodRequest
  <1>2. PICK status \in {"needs_approval", "running"} :
            objects' = Append(objects, Investigation(Asked[askSeq], status))
    BY DEF InsertQuestion
  <1>3. PICK e : e = Investigation(Asked[askSeq], status) OBVIOUS
  <1>4. Asked[askSeq] \in Investigations
    <2>1. Len(Asked) \in Nat /\ DOMAIN Asked = 1..Len(Asked)
      BY ConsoleAssumption, LenProperties
    <2>2. askSeq \in DOMAIN Asked BY <1>1, <2>1 DEF IInv, SeqInv
    <2> QED BY <2>2 DEF AskedSet, Investigations
  <1>5. e \in Object /\ e.status # "awaiting_rerun" /\ ~e.agentRun
    <2>1. MetricOf[Asked[askSeq]] \in Metrics BY <1>4, ConsoleAssumption
    <2> QED BY <1>3, <1>4, <2>1 DEF Investigation, Object, Statuses
  <1>6. /\ ObjectsGrow /\ ObjectsStep /\ objects' \in Seq(Object)
        /\ Len(objects) + 1 \in DOMAIN objects' /\ Len(objects) + 1 \in Nat
        /\ objects'[Len(objects) + 1] = e
    BY <1>2, <1>3, <1>5, NewObject
  <1>7. /\ list' \in Seq(Nat) /\ DOMAIN list \subseteq DOMAIN list'
        /\ \A k \in DOMAIN list' :
              list'[k] = Len(objects) + 1 \/ \E j \in DOMAIN list : list'[k] = list[j]
    <2>1. list' = <<Len(objects) + 1>> \o list /\ list \in Seq(Nat)
      BY DEF InsertQuestion, IInv, SeqInv
    <2> QED BY <1>6, <2>1, ConsAt
  <1>8. ListStep BY <1>5, <1>6, <1>7 DEF ListStep, Covered
  <1>9. UNCHANGED <<inbox, mrs, approved, done, lifeVars>> /\ Finish(t)
    BY DEF InsertQuestion
  <1>10. Grow /\ TypesStep /\ ApprovalsStep
    BY <1>6, <1>7, <1>9, Same DEF Grow, TypesStep
  <1> QED BY <1>1, <1>6, <1>8, <1>9, <1>10, FinishInv

-----------------------------------------------------------------------------
(* Approvals.                                                               *)

\* An approval changes and keeps its identity.
LEMMA ApprovalChanged ==
    ASSUME IInv, NEW a \in DOMAIN inbox, NEW p \in ApprovalRecord,
           p.id = inbox[a].id, p.inv = inbox[a].inv, p.stage = inbox[a].stage,
           \/ p.mr = inbox[a].mr /\ p.merged = inbox[a].merged
           \/ GoodApproval(p)',
           inbox' = [inbox EXCEPT ![a] = p]
    PROVE  InboxGrows /\ ApprovalsStep /\ inbox' \in Seq(ApprovalRecord)
  <1>1. inbox \in Seq(ApprovalRecord) BY DEF IInv, SeqInv
  <1>2. /\ inbox' \in Seq(ApprovalRecord) /\ DOMAIN inbox' = DOMAIN inbox
        /\ \A b \in DOMAIN inbox : inbox'[b] = IF b = a THEN p ELSE inbox[b]
    BY <1>1, ExceptAt
  <1>3. GoodApproval(p)' /\ inbox'[a] = p => GoodApproval(inbox[a])' OBVIOUS
  <1> QED BY <1>2, <1>3 DEF InboxGrows, ApprovalsStep

LEMMA ApproveInv == ASSUME IInv, NEW id, Approve(id) PROVE IInv' /\ Grow
  <1>1. PICK a : a = ById(id) OBVIOUS
  <1>2. a \in DOMAIN inbox /\ a # 0 BY <1>1, ByIdSpec DEF Approve, IInv
  <1>3. inbox[a] \in ApprovalRecord BY <1>2, ApprovalType
  <1>4. PICK o : o = Current(inbox[a].inv) OBVIOUS
  <1>5. /\ inbox' = [inbox EXCEPT ![a].status = "approved"]
        /\ approved' = approved \cup {<<inbox[a].inv, inbox[a].stage>>}
        /\ UNCHANGED <<objects, list, mrs, done, lifeVars>>
    BY <1>1 DEF Approve
  <1>6. InboxGrows /\ ApprovalsStep /\ inbox' \in Seq(ApprovalRecord)
    <2>1. PICK p : p = [inbox[a] EXCEPT !.status = "approved"] OBVIOUS
    <2>2. /\ p \in ApprovalRecord
          /\ p.id = inbox[a].id /\ p.inv = inbox[a].inv /\ p.stage = inbox[a].stage
          /\ p.mr = inbox[a].mr /\ p.merged = inbox[a].merged
      BY <1>3, <2>1 DEF ApprovalRecord, Decision
    <2>3. inbox' = [inbox EXCEPT ![a] = p] BY <1>5, <2>1
    <2> QED BY <1>2, <2>2, <2>3, ApprovalChanged
  <1>7. Grow /\ TypesStep /\ ObjectsStep /\ ListStep
    BY <1>5, <1>6, Same DEF Grow, TypesStep
  <1>8. CASE o = 0
    <2>1. req' = Append(req, Served) BY <1>1, <1>4, <1>8 DEF Approve, Accept
    <2> QED BY <1>6, <1>7, <2>1, ServedGood, AcceptInv
  <1>9. CASE o # 0
    <2>1. o \in DOMAIN objects /\ objects[o].inv = inbox[a].inv
      BY <1>4, <1>9, CurrentSpec DEF IInv
    <2>2. PICK r : r = [Served EXCEPT !.pc = StageStep(a), !.obj = o, !.ap = a] OBVIOUS
    <2>3. req' = Append(req, r) BY <1>1, <1>4, <1>9, <2>2 DEF Approve, Accept
    <2>4. o \in Nat /\ a \in Nat
      <3>1. DOMAIN objects = 1..Len(objects) /\ DOMAIN inbox = 1..Len(inbox)
        BY LenProperties DEF IInv, SeqInv
      <3> QED BY <1>2, <2>1, <3>1
    <2>5. r \in Request BY <2>2, <2>4, ServedGood DEF Served, Request, StageStep, Acting
    <2>6. inbox'[a].inv = inbox[a].inv /\ a \in DOMAIN inbox' BY <1>2, <1>6 DEF InboxGrows
    <2>7. CASE inbox[a].stage = "rerun"
      <3>1. r.pc = "dag" BY <2>2, <2>7 DEF StageStep, Served
      <3>2. <<objects[o].inv, "rerun">> \in approved' BY <1>5, <2>1, <2>7
      <3> QED BY <1>2, <1>5, <1>6, <1>7, <1>9, <2>1, <2>2, <2>3, <2>5, <2>6, <3>1, <3>2,
                 AcceptInv DEF Served, GoodRequest, Acting
    <2>8. CASE inbox[a].stage # "rerun"
      <3>1. r.pc = "mr" /\ inbox[a].stage = "fix"
        BY <1>3, <2>2, <2>8 DEF StageStep, Served, ApprovalRecord
      <3>2. <<objects[o].inv, "fix">> \in approved' BY <1>5, <2>1, <3>1
      <3> QED BY <1>2, <1>5, <1>6, <1>7, <1>9, <2>1, <2>2, <2>3, <2>5, <2>6, <3>1, <3>2,
                 AcceptInv DEF Served, GoodRequest, Acting
    <2> QED BY <2>7, <2>8
  <1> QED BY <1>8, <1>9

LEMMA RefuseInv ==
    ASSUME IInv, NEW id, NEW decision \in Refusals, Refuse(id, decision)
    PROVE  IInv' /\ Grow
  <1>1. PICK a : a = ById(id) OBVIOUS
  <1>2. a \in DOMAIN inbox BY <1>1, ByIdSpec DEF Refuse, IInv
  <1>3. inbox[a] \in ApprovalRecord BY <1>2, ApprovalType
  <1>4. PICK p : p = [inbox[a] EXCEPT !.status = decision, !.zero = FALSE] OBVIOUS
  <1>5. inbox' = [inbox EXCEPT ![a] = p]
    BY <1>1, <1>2, <1>4 DEF Refuse
  <1>6. /\ p \in ApprovalRecord
        /\ p.id = inbox[a].id /\ p.inv = inbox[a].inv /\ p.stage = inbox[a].stage
        /\ p.mr = inbox[a].mr /\ p.merged = inbox[a].merged
    BY <1>3, <1>4, ConsoleAssumption DEF ApprovalRecord, Decision
  <1>7. InboxGrows /\ ApprovalsStep /\ inbox' \in Seq(ApprovalRecord)
    BY <1>2, <1>5, <1>6, ApprovalChanged
  <1>8. UNCHANGED <<objects, list, mrs, approved, done, lifeVars>> /\ req' = Append(req, Served)
    BY DEF Refuse, Accept
  <1>9. Grow /\ TypesStep /\ ObjectsStep /\ ListStep
    BY <1>7, <1>8, Same DEF Grow, TypesStep
  <1> QED BY <1>7, <1>8, <1>9, ServedGood, AcceptInv

\* create_merge_request: the old merge requests stay, and the one that is
\* answered is of the branch.
LEMMA MrCreated ==
    ASSUME IInv, NEW branch \in [inv : Investigations, metric : Metrics],
           mrs' = CreateMr(branch)
    PROVE  /\ MrsGrow /\ mrs' \in Seq(MergeRequest)
           /\ CreatedMr(branch) \in DOMAIN mrs' /\ CreatedMr(branch) \in Nat
           /\ mrs'[CreatedMr(branch)].branch = branch
  <1>1. mrs \in Seq(MergeRequest) BY DEF IInv, SeqInv
  <1>2. CASE OpenMr(branch) = 0
    <2>1. PICK e : e = [branch |-> branch, merged |-> FALSE] OBVIOUS
    <2>2. e \in MergeRequest /\ e.branch = branch BY <2>1 DEF MergeRequest
    <2>3. mrs' = Append(mrs, e) /\ CreatedMr(branch) = Len(mrs) + 1
      BY <1>2, <2>1 DEF CreateMr, CreatedMr
    <2>4. /\ mrs' \in Seq(MergeRequest) /\ Len(mrs) + 1 \in Nat
          /\ DOMAIN mrs' = DOMAIN mrs \cup {Len(mrs) + 1}
          /\ \A m \in DOMAIN mrs : mrs'[m] = mrs[m]
          /\ mrs'[Len(mrs) + 1] = e
      BY <1>1, <2>2, <2>3, AppendAt
    <2> QED BY <2>2, <2>3, <2>4 DEF MrsGrow
  <1>3. CASE OpenMr(branch) # 0
    <2>1. mrs' = mrs /\ CreatedMr(branch) = OpenMr(branch) BY <1>3 DEF CreateMr, CreatedMr
    <2>2. OpenMr(branch) \in DOMAIN mrs /\ mrs[OpenMr(branch)].branch = branch
      BY <1>3, OpenMrSpec DEF IInv
    <2>3. DOMAIN mrs = 1..Len(mrs) BY <1>1, LenProperties
    <2> QED BY <1>1, <2>1, <2>2, <2>3, Same
  <1> QED BY <1>2, <1>3

LEMMA DispatchMrInv ==
    ASSUME IInv, NEW t \in DOMAIN req, DispatchMr(t)
    PROVE  IInv' /\ Grow
  <1>1. req[t] \in Request /\ GoodRequest(req[t]) /\ req[t].pc = "mr"
    BY Serving DEF DispatchMr, At
  <1>2. PICK o : o = objects[req[t].obj] OBVIOUS
  <1>3. req[t].obj \in DOMAIN objects BY <1>1 DEF GoodRequest, Acting
  <1>4. o \in Object BY <1>2, <1>3, ObjectType
  <1>5. Branch(o) \in [inv : Investigations, metric : Metrics] /\ Branch(o).inv = o.inv
    BY <1>4 DEF Branch, Object
  <1>6. PICK outcome \in WriteOutcomes :
          /\ mrs' = IF outcome = "none" THEN mrs ELSE CreateMr(Branch(o))
          /\ Go(t, [req[t] EXCEPT
                      !.pc = IF RerunMissing(o.inv) THEN "spawn" ELSE "record",
                      !.mr = IF outcome = "answered" THEN CreatedMr(Branch(o)) ELSE 0])
    BY <1>2 DEF DispatchMr
  <1>7. PICK r : r = [req[t] EXCEPT
                        !.pc = IF RerunMissing(o.inv) THEN "spawn" ELSE "record",
                        !.mr = IF outcome = "answered" THEN CreatedMr(Branch(o)) ELSE 0]
    OBVIOUS
  <1>8. PICK b : b = Branch(o) OBVIOUS
  <1>9. /\ MrsGrow /\ mrs' \in Seq(MergeRequest)
        /\ r.mr # 0 => r.mr \in DOMAIN mrs' /\ mrs'[r.mr].branch.inv = o.inv
        /\ r.mr \in Nat
    <2>1. CASE outcome = "none"
      <3>1. r.mr = 0 BY <1>1, <1>7, <2>1 DEF Request
      <3>2. UNCHANGED mrs BY <1>6, <2>1
      <3> QED BY <3>1, <3>2, Same
    <2>2. CASE outcome # "none"
      <3>1. mrs' = CreateMr(b) BY <1>6, <1>8, <2>2
      <3>2. r.mr \in {0, CreatedMr(b)} BY <1>1, <1>7, <1>8 DEF Request
      <3>3. b \in [inv : Investigations, metric : Metrics] /\ b.inv = o.inv BY <1>5, <1>8
      <3>4. /\ MrsGrow /\ mrs' \in Seq(MergeRequest)
            /\ CreatedMr(b) \in DOMAIN mrs' /\ CreatedMr(b) \in Nat
            /\ mrs'[CreatedMr(b)].branch = b
        BY <3>1, <3>3, MrCreated
      <3> QED BY <3>2, <3>3, <3>4
    <2> QED BY <2>1, <2>2
  <1>10. /\ UNCHANGED <<objects, list, inbox, approved, lifeVars>>
         /\ done' = done \cup {<<o.inv, "mr">>}
    BY <1>2 DEF DispatchMr, Effect
  <1>11. Grow /\ TypesStep /\ ApprovalsStep /\ ObjectsStep /\ ListStep
    BY <1>9, <1>10, Same DEF Grow, TypesStep
  <1>12. /\ r \in Request /\ r.pc \in {"spawn", "record"}
         /\ r.obj = req[t].obj /\ r.new = req[t].new /\ r.idx = req[t].idx
         /\ r.ap = req[t].ap
         /\ r.pc = "record" => HasRerun(o.inv)
    <2>1. r.pc \in {"spawn", "record"} /\ (r.pc = "record" => ~RerunMissing(o.inv))
      BY <1>1, <1>7 DEF Request
    <2>2. ~RerunMissing(o.inv) => HasRerun(o.inv)
      BY ByIdSpec DEF RerunMissing, HasRerun, IInv
    <2>3. r \in Request BY <1>1, <1>7, <1>9, <2>1 DEF Request, Acting
    <2> QED BY <1>1, <1>7, <2>1, <2>2, <2>3 DEF Request
  <1>13. GoodRequest(r)'
    BY <1>1, <1>2, <1>3, <1>9, <1>10, <1>12 DEF GoodRequest, Acting, HasRerun
  <1>14. req' = [req EXCEPT ![t] = r] BY <1>6, <1>7 DEF Go
  <1> QED BY <1>1, <1>9, <1>11, <1>12, <1>13, <1>14, GoInv

\* An object reaches a state past its approval.
LEMMA ObjectPast ==
    ASSUME IInv, NEW o \in DOMAIN objects, NEW status \in PostApproval,
           objects' = [objects EXCEPT ![o].status = status],
           NEW i, i = objects[o].inv, status = "awaiting_rerun" => HasRerun(i)'
    PROVE  ObjectsGrow /\ ObjectsStep /\ objects' \in Seq(Object)
  <1>1. objects \in Seq(Object) BY DEF IInv, SeqInv
  <1>2. PICK e : e = [objects[o] EXCEPT !.status = status] OBVIOUS
  <1>3. objects[o] \in Object BY ObjectType
  <1>4. /\ e \in Object /\ e.inv = objects[o].inv /\ e.agentRun = objects[o].agentRun
        /\ e.status = status
    BY <1>2, <1>3 DEF Object, Statuses
  <1>5. objects' = [objects EXCEPT ![o] = e] BY <1>2
  <1>6. /\ objects' \in Seq(Object) /\ DOMAIN objects' = DOMAIN objects
        /\ \A p \in DOMAIN objects : objects'[p] = IF p = o THEN e ELSE objects[p]
    <2>1. e \in Object BY <1>4
    <2>2. /\ [objects EXCEPT ![o] = e] \in Seq(Object)
          /\ DOMAIN [objects EXCEPT ![o] = e] = DOMAIN objects
          /\ \A p \in DOMAIN objects :
                [objects EXCEPT ![o] = e][p] = IF p = o THEN e ELSE objects[p]
      BY ONLY <1>1, <2>1, o \in DOMAIN objects, ExceptAt
    <2> QED BY <1>5, <2>2
  <1>7. ObjectsGrow BY <1>4, <1>6 DEF ObjectsGrow
  <1>8. ASSUME NEW p \in DOMAIN objects', objects'[p].status = "awaiting_rerun", p = o
        PROVE  HasRerun(objects[p].inv)'
    <2>1. objects'[p].inv = i /\ status = "awaiting_rerun" BY <1>4, <1>6, <1>8
    <2> QED BY <2>1
  <1>9. ObjectsStep BY <1>6, <1>8 DEF ObjectsStep
  <1> QED BY <1>6, <1>7, <1>9

LEMMA RecordMrInv ==
    ASSUME IInv, NEW t \in DOMAIN req, RecordMr(t)
    PROVE  IInv' /\ Grow
  <1>1. /\ req[t] \in Request /\ GoodRequest(req[t])
        /\ req[t].pc \in {"spawn", "record"}
    BY Serving DEF RecordMr, At
  <1>2. PICK o, a : o = req[t].obj /\ a = req[t].ap OBVIOUS
  <1>3. o \in DOMAIN objects /\ a \in DOMAIN inbox /\ objects[o].inv = inbox[a].inv
    BY <1>1, <1>2 DEF GoodRequest, Acting
  <1>4. PICK i : i = objects[o].inv OBVIOUS
  <1>5. i \in Investigations BY <1>3, <1>4, ObjectType DEF Object
  <1>6. /\ UNCHANGED <<list, mrs, approved, done, lifeVars>> /\ Finish(t)
        /\ objects' = [objects EXCEPT ![o].status = "awaiting_rerun"]
    BY <1>2 DEF RecordMr
  <1>7. PICK p : p = [inbox[a] EXCEPT !.mr = req[t].mr] OBVIOUS
  <1>8. inbox[a] \in ApprovalRecord BY <1>3, ApprovalType
  <1>9. /\ p \in ApprovalRecord
        /\ p.id = inbox[a].id /\ p.inv = inbox[a].inv /\ p.stage = inbox[a].stage
        /\ p.mr = req[t].mr /\ p.merged = inbox[a].merged
    BY <1>1, <1>7, <1>8 DEF ApprovalRecord, Request
  <1>10. GoodApproval(p)'
    <2>1. GoodApproval(inbox[a]) BY <1>3 DEF IInv, ApprovalInv
    <2>2. p.mr # 0 => p.mr \in DOMAIN mrs /\ mrs[p.mr].branch.inv = p.inv
      BY <1>1, <1>2, <1>3, <1>9 DEF GoodRequest
    <2> QED BY <1>6, <1>9, <2>1, <2>2 DEF GoodApproval
  <1>11. PICK recorded : recorded = [inbox EXCEPT ![a] = p] OBVIOUS
  <1>12. recorded = [inbox EXCEPT ![req[t].ap].mr = req[t].mr] BY <1>2, <1>7, <1>11
  <1>13. /\ recorded \in Seq(ApprovalRecord) /\ DOMAIN recorded = DOMAIN inbox
         /\ \A b \in DOMAIN inbox : recorded[b] = IF b = a THEN p ELSE inbox[b]
    BY <1>3, <1>9, <1>11, ExceptAt DEF IInv, SeqInv
  <1>14. /\ InboxGrows /\ ApprovalsStep /\ inbox' \in Seq(ApprovalRecord)
         /\ HasRerun(i)'
    <2>1. CASE req[t].pc = "record"
      <3>1. inbox' = recorded BY <1>12, <2>1 DEF RecordMr, At
      <3>2. InboxGrows /\ ApprovalsStep /\ inbox' \in Seq(ApprovalRecord)
        BY <1>3, <1>9, <1>10, <1>11, <3>1, ApprovalChanged
      <3>3. HasRerun(i) BY <1>1, <1>2, <1>4, <2>1 DEF GoodRequest
      <3> QED BY <3>2, <3>3 DEF InboxGrows, HasRerun
    <2>2. CASE req[t].pc = "spawn"
      <3>1. PICK q : q = Approval(RerunId(i), i, "rerun", FALSE) OBVIOUS
      <3>2. inbox' = Append(recorded, q)
        BY <1>2, <1>4, <1>12, <2>2, <3>1 DEF RecordMr, At
      <3>3. q \in ApprovalRecord
        BY <1>5, <3>1 DEF Approval, RerunId, ApprovalRecord, ApprovalIds, Decision
      <3>4. /\ inbox' \in Seq(ApprovalRecord)
            /\ DOMAIN inbox' = DOMAIN inbox \cup {Len(recorded) + 1}
            /\ \A b \in DOMAIN inbox : inbox'[b] = IF b = a THEN p ELSE inbox[b]
            /\ inbox'[Len(recorded) + 1] = q
        BY <1>13, <3>2, <3>3, AppendAt
      <3>5. GoodApproval(q)'
        <4>1. /\ q.mr = 0 /\ ~q.merged /\ q.id = RerunId(i) /\ q.stage = "rerun" /\ q.inv = i
          BY <3>1 DEF Approval
        <4>2. \A j \in Investigations : RerunId(i) = RerunId(j) => i = j BY DEF RerunId
        <4> QED BY <4>1, <4>2 DEF GoodApproval
      <3>6. \A b \in DOMAIN inbox' :
                (b \in DOMAIN inbox /\ inbox'[b] = inbox[b]) \/ inbox'[b] \in {p, q}
        BY <3>4
      <3>7. \A b \in DOMAIN inbox' : inbox'[b] \in {p, q} => GoodApproval(inbox[b])'
        BY <1>10, <3>5
      <3>8. ApprovalsStep BY <3>6, <3>7 DEF ApprovalsStep
      <3>9. InboxGrows BY <1>9, <3>4 DEF InboxGrows
      <3>10. HasRerun(i)' BY <3>1, <3>4 DEF HasRerun, Approval
      <3> QED BY <3>4, <3>8, <3>9, <3>10
    <2> QED BY <1>1, <2>1, <2>2
  <1>15. ObjectsGrow /\ ObjectsStep /\ objects' \in Seq(Object)
    BY <1>3, <1>4, <1>6, <1>14, ObjectPast DEF PostApproval
  <1>16. Grow /\ TypesStep /\ ListStep
    BY <1>6, <1>14, <1>15, Same DEF Grow, TypesStep
  <1> QED BY <1>1, <1>6, <1>14, <1>15, <1>16, FinishInv

LEMMA DispatchDagInv ==
    ASSUME IInv, NEW t \in DOMAIN req, DispatchDag(t)
    PROVE  IInv' /\ Grow
  <1>1. req[t] \in Request /\ GoodRequest(req[t]) /\ req[t].pc = "dag"
    BY Serving DEF DispatchDag, At
  <1>2. PICK zero \in BOOLEAN : Go(t, [req[t] EXCEPT !.pc = "memory", !.zero = zero])
    BY DEF DispatchDag
  <1>3. PICK r : r = [req[t] EXCEPT !.pc = "memory", !.zero = zero] OBVIOUS
  <1>4. /\ r \in Request /\ r.pc = "memory"
        /\ r.obj = req[t].obj /\ r.new = req[t].new /\ r.idx = req[t].idx
        /\ r.ap = req[t].ap /\ r.mr = req[t].mr
    BY <1>1, <1>3 DEF Request, Acting
  <1>5. /\ UNCHANGED <<objects, list, inbox, mrs, approved, lifeVars>>
        /\ done' = done \cup {<<objects[req[t].obj].inv, "dag">>}
    BY DEF DispatchDag, Effect
  <1>6. Grow /\ TypesStep /\ ApprovalsStep /\ ObjectsStep /\ ListStep
    BY <1>5, Same DEF Grow, TypesStep
  <1>7. GoodRequest(r)' BY <1>1, <1>4, <1>5 DEF GoodRequest, Acting
  <1>8. req' = [req EXCEPT ![t] = r] BY <1>2, <1>3 DEF Go
  <1> QED BY <1>1, <1>4, <1>6, <1>7, <1>8, GoInv

LEMMA ResolveInv ==
    ASSUME IInv, NEW t \in DOMAIN req, Resolve(t)
    PROVE  IInv' /\ Grow
  <1>1. req[t] \in Request /\ GoodRequest(req[t]) /\ req[t].pc = "memory"
    BY Serving DEF Resolve, At
  <1>2. PICK o, a : o = req[t].obj /\ a = req[t].ap OBVIOUS
  <1>3. o \in DOMAIN objects /\ a \in DOMAIN inbox
    BY <1>1, <1>2 DEF GoodRequest, Acting
  <1>4. /\ UNCHANGED <<list, mrs, approved, lifeVars>> /\ done \subseteq done' /\ Finish(t)
        /\ objects' = [objects EXCEPT ![o].status = "resolved"]
    BY <1>2 DEF Resolve, Effect
  <1>5. PICK p : p = [inbox[a] EXCEPT !.zero = req[t].zero] OBVIOUS
  <1>6. inbox[a] \in ApprovalRecord BY <1>3, ApprovalType
  <1>7. /\ p \in ApprovalRecord
        /\ p.id = inbox[a].id /\ p.inv = inbox[a].inv /\ p.stage = inbox[a].stage
        /\ p.mr = inbox[a].mr /\ p.merged = inbox[a].merged
    BY <1>1, <1>5, <1>6 DEF ApprovalRecord, Request
  <1>8. inbox' = [inbox EXCEPT ![a] = p] BY <1>2, <1>5 DEF Resolve
  <1>9. InboxGrows /\ ApprovalsStep /\ inbox' \in Seq(ApprovalRecord)
    BY <1>3, <1>7, <1>8, ApprovalChanged
  <1>10. ObjectsGrow /\ ObjectsStep /\ objects' \in Seq(Object)
    <2>1. PICK i : i = objects[o].inv OBVIOUS
    <2> QED BY <1>3, <1>4, <2>1, ObjectPast DEF PostApproval
  <1>11. Grow /\ TypesStep /\ ListStep
    BY <1>4, <1>9, <1>10, Same DEF Grow, TypesStep
  <1> QED BY <1>1, <1>4, <1>9, <1>10, <1>11, FinishInv

-----------------------------------------------------------------------------
(* Merge state, and what is outside the console.                            *)

LEMMA RefreshMergeInv ==
    ASSUME IInv, NEW a \in DOMAIN inbox, RefreshMerge(a)
    PROVE  IInv' /\ Grow
  <1>1. UNCHANGED <<objects, list, inbox, mrs, approved, done, lifeVars>> /\ inbox[a].mr # 0
    BY DEF RefreshMerge
  <1>2. Grow /\ TypesStep /\ ApprovalsStep /\ ObjectsStep /\ ListStep
    BY <1>1, Same DEF Grow, TypesStep
  <1>3. inbox[a] \in ApprovalRecord /\ GoodApproval(inbox[a])
    BY ApprovalType DEF IInv, ApprovalInv
  <1>4. PICK r : r = [Served EXCEPT !.pc = "poll", !.ap = a, !.mr = inbox[a].mr] OBVIOUS
  <1>5. a \in Nat /\ a # 0
    <2>1. DOMAIN inbox = 1..Len(inbox) BY LenProperties DEF IInv, SeqInv
    <2> QED BY <2>1
  <1>6. r \in Request BY <1>3, <1>4, <1>5, ServedGood DEF Served, Request, ApprovalRecord
  <1>7. GoodRequest(r)'
    BY <1>1, <1>3, <1>4, <1>5 DEF Served, GoodRequest, GoodApproval, Acting
  <1>8. req' = Append(req, r) BY <1>4 DEF RefreshMerge, Accept
  <1> QED BY <1>2, <1>6, <1>7, <1>8, AcceptInv

LEMMA GitlabAnswersInv ==
    ASSUME IInv, NEW t \in DOMAIN req, GitlabAnswers(t)
    PROVE  IInv' /\ Grow
  <1>1. req[t] \in Request /\ GoodRequest(req[t]) /\ req[t].pc = "poll"
    BY Serving DEF GitlabAnswers, At
  <1>2. UNCHANGED <<objects, list, mrs, approved, done, lifeVars>> /\ Finish(t)
    BY DEF GitlabAnswers
  <1>3. InboxGrows /\ ApprovalsStep /\ inbox' \in Seq(ApprovalRecord)
    <2>1. CASE UNCHANGED inbox BY <2>1, Same
    <2>2. CASE mrs[req[t].mr].merged /\ inbox' = [inbox EXCEPT ![req[t].ap].merged = TRUE]
      <3>1. PICK a : a = req[t].ap OBVIOUS
      <3>2. /\ a \in DOMAIN inbox /\ req[t].mr \in DOMAIN mrs
            /\ mrs[req[t].mr].branch.inv = inbox[a].inv
        BY <1>1, <3>1 DEF GoodRequest
      <3>3. PICK p : p = [inbox[a] EXCEPT !.merged = TRUE] OBVIOUS
      <3>4. inbox[a] \in ApprovalRecord /\ GoodApproval(inbox[a])
        BY <3>2, ApprovalType DEF IInv, ApprovalInv
      <3>5. /\ p \in ApprovalRecord /\ p.mr = inbox[a].mr
            /\ p.id = inbox[a].id /\ p.inv = inbox[a].inv /\ p.stage = inbox[a].stage
        BY <3>3, <3>4 DEF ApprovalRecord
      <3>6. GoodApproval(p)' BY <1>2, <2>2, <3>2, <3>4, <3>5 DEF GoodApproval
      <3>7. inbox' = [inbox EXCEPT ![a] = p] BY <2>2, <3>1, <3>3
      <3> QED BY <3>2, <3>5, <3>6, <3>7, ApprovalChanged
    <2> QED BY <2>1, <2>2 DEF GitlabAnswers
  <1>4. Grow /\ TypesStep /\ ObjectsStep /\ ListStep
    BY <1>2, <1>3, Same DEF Grow, TypesStep
  <1> QED BY <1>1, <1>2, <1>3, <1>4, FinishInv

\* The requests go on as before when something happens outside.
LEMMA OutsideInv ==
    ASSUME IInv, Grow, TypesStep, ApprovalsStep, ObjectsStep, ListStep,
           UNCHANGED req
    PROVE  IInv' /\ Grow
  <1>1. ASSUME NEW t \in DOMAIN req PROVE GoodRequest(req[t])'
    <2>1. PICK s : s = req[t] OBVIOUS
    <2>2. GoodRequest(s) BY <2>1 DEF IInv, RequestInv
    <2> QED BY <2>1, <2>2, RequestStable
  <1>2. RequestInv' BY <1>1 DEF RequestInv
  <1>3. AppendsKept BY DEF AppendsKept
  <1> QED BY <1>2, <1>3, ApprovalsKept, ObjectsKept, ListKept DEF IInv, SeqInv, TypesStep

LEMMA MergeMrInv == ASSUME IInv, NEW m \in DOMAIN mrs, MergeMr(m) PROVE IInv' /\ Grow
  <1>1. /\ UNCHANGED <<objects, list, inbox, req, approved, done, lifeVars>>
        /\ mrs' = [mrs EXCEPT ![m].merged = TRUE]
    BY DEF MergeMr
  <1>2. PICK e : e = [mrs[m] EXCEPT !.merged = TRUE] OBVIOUS
  <1>3. mrs \in Seq(MergeRequest) /\ mrs[m] \in MergeRequest
    BY LenProperties DEF IInv, SeqInv
  <1>4. e \in MergeRequest /\ e.branch = mrs[m].branch /\ e.merged
    BY <1>2, <1>3 DEF MergeRequest
  <1>5. mrs' = [mrs EXCEPT ![m] = e] BY <1>1, <1>2
  <1>6. /\ mrs' \in Seq(MergeRequest) /\ DOMAIN mrs' = DOMAIN mrs
        /\ \A n \in DOMAIN mrs : mrs'[n] = IF n = m THEN e ELSE mrs[n]
    BY <1>3, <1>4, <1>5, ExceptAt
  <1>7. MrsGrow BY <1>4, <1>6 DEF MrsGrow
  <1>9. Grow /\ TypesStep /\ ApprovalsStep /\ ObjectsStep /\ ListStep
    BY <1>1, <1>6, <1>7, Same DEF Grow, TypesStep
  <1> QED BY <1>1, <1>9, OutsideInv

-----------------------------------------------------------------------------
(* The first life of the process, and every later one.                      *)

\* A function on the first n numbers is a sequence.
LEMMA FunctionSeq == ASSUME NEW S, NEW n \in Nat, NEW f \in [1..n -> S] PROVE f \in Seq(S)
  OBVIOUS

LEMMA SeedsGood ==
    /\ SeedObjects \in Seq(Object) /\ DOMAIN SeedObjects = DOMAIN Seeds
    /\ \A o \in DOMAIN Seeds :
          SeedObjects[o].status # "awaiting_rerun" /\ ~SeedObjects[o].agentRun
    /\ SeedInbox \in Seq(ApprovalRecord)
    /\ \A a \in DOMAIN SeedInbox :
          /\ SeedInbox[a].mr = 0 /\ ~SeedInbox[a].merged
          /\ SeedInbox[a].stage = "fix"
          /\ \A i \in Investigations : SeedInbox[a].id # RerunId(i)
    /\ [k \in DOMAIN Seeds |-> k] \in Seq(Nat)
  <1>1. /\ Len(Seeds) \in Nat /\ DOMAIN Seeds = 1..Len(Seeds)
        /\ Len(Fixable) \in Nat /\ DOMAIN Fixable = 1..Len(Fixable)
    BY ConsoleAssumption, LenProperties
  <1>2. ASSUME NEW k \in DOMAIN Seeds
        PROVE  /\ SeedObjects[k] \in Object
               /\ SeedObjects[k].status # "awaiting_rerun" /\ ~SeedObjects[k].agentRun
    <2>1. Seeds[k] \in Investigations BY DEF SeededSet, Investigations
    <2>2. MetricOf[Seeds[k]] \in Metrics BY <2>1, ConsoleAssumption
    <2>3. SeedId(Seeds[k]) \in ApprovalIds /\ NoId \in ApprovalIds
      BY <2>1 DEF ApprovalIds, SeedId
    <2>4. CASE Seeds[k] \in FixableSet
      <3>1. PICK e : e = Investigation(Seeds[k], "needs_approval") OBVIOUS
      <3>2. e \in Object /\ e.status = "needs_approval" /\ ~e.agentRun
        BY <2>1, <2>2, <2>3, <3>1 DEF Investigation, Object, ApprovalIds, Statuses
      <3>3. SeedObjects[k] = [e EXCEPT !.approvalId = SeedId(Seeds[k])]
        BY <2>4, <3>1 DEF SeedObjects
      <3> QED BY <2>3, <3>2, <3>3 DEF Object, ApprovalIds
    <2>5. CASE Seeds[k] \notin FixableSet
      <3>1. SeedObjects[k] = Investigation(Seeds[k], SeedStatus[Seeds[k]])
        BY <2>5 DEF SeedObjects
      <3>2. SeedStatus[Seeds[k]] \in {"escalated", "running"}
        BY <2>5, ConsoleAssumption DEF SeededSet
      <3> QED BY <2>1, <2>2, <2>3, <3>1, <3>2 DEF Investigation, Object, ApprovalIds, Statuses
    <2> QED BY <2>4, <2>5
  <1>3. ASSUME NEW k \in DOMAIN Fixable
        PROVE  /\ SeedInbox[k] \in ApprovalRecord
               /\ SeedInbox[k].mr = 0 /\ ~SeedInbox[k].merged
               /\ SeedInbox[k].stage = "fix"
               /\ \A i \in Investigations : SeedInbox[k].id # RerunId(i)
    <2>1. Fixable[k] \in Investigations
      BY <1>1, ConsoleAssumption, ElementOfSeq DEF Investigations
    <2>2. SeedInbox[k] = Approval(SeedId(Fixable[k]), Fixable[k], "fix", TRUE)
      BY DEF SeedInbox
    <2>3. SeedId(Fixable[k]) \in ApprovalIds BY <2>1 DEF ApprovalIds, SeedId
    <2>4. \A i \in Investigations : SeedId(Fixable[k]) # RerunId(i)
      <3>1. SeedId(Fixable[k])[1] = "seed" BY DEF SeedId
      <3>2. \A i \in Investigations : RerunId(i)[1] = "rerun" BY DEF RerunId
      <3> QED BY <3>1, <3>2
    <2> QED BY <2>1, <2>2, <2>3, <2>4 DEF Approval, ApprovalRecord, Decision
  <1>4. DOMAIN SeedObjects = DOMAIN Seeds /\ DOMAIN SeedInbox = DOMAIN Fixable
    BY DEF SeedObjects, SeedInbox
  <1>5. SeedObjects \in [1..Len(Seeds) -> Object] BY <1>1, <1>2 DEF SeedObjects
  <1>6. SeedInbox \in [1..Len(Fixable) -> ApprovalRecord] BY <1>1, <1>3 DEF SeedInbox
  <1>7. [k \in DOMAIN Seeds |-> k] \in [1..Len(Seeds) -> Nat] BY <1>1
  <1>8. /\ SeedObjects \in Seq(Object) /\ SeedInbox \in Seq(ApprovalRecord)
        /\ [k \in DOMAIN Seeds |-> k] \in Seq(Nat)
    BY <1>1, <1>5, <1>6, <1>7, FunctionSeq
  <1> QED BY <1>2, <1>3, <1>4, <1>8

Fresh ==
    /\ objects = SeedObjects /\ list = [k \in DOMAIN Seeds |-> k] /\ inbox = SeedInbox
    /\ askSeq = 0 /\ restarts \in 0..MaxRestarts
    /\ req \in Seq(Request) /\ \A t \in DOMAIN req : req[t] = Served
    /\ mrs \in Seq(MergeRequest)

LEMMA FreshInv == Fresh => IInv
  <1> SUFFICES ASSUME Fresh PROVE IInv OBVIOUS
  <1>1. SeqInv
    <2>1. Len(Asked) \in Nat BY ConsoleAssumption, LenProperties
    <2> QED BY <2>1, SeedsGood DEF Fresh, SeqInv
  <1>2. ListInv BY SeedsGood DEF Fresh, ListInv
  <1>3. ApprovalInv BY SeedsGood DEF Fresh, ApprovalInv, GoodApproval
  <1>4. ObjectInv BY SeedsGood DEF Fresh, ObjectInv, GoodObject
  <1>5. RequestInv BY ServedGood DEF Fresh, RequestInv
  <1>6. CoverInv BY SeedsGood DEF Fresh, CoverInv, Covered
  <1> QED BY <1>1, <1>2, <1>3, <1>4, <1>5, <1>6 DEF Fresh, IInv

LEMMA InitInv == Init => IInv
  <1> SUFFICES ASSUME Init PROVE Fresh BY FreshInv
  <1> QED BY ConsoleAssumption, EmptySeq DEF Init, Fresh

LEMMA RestartFresh == ASSUME IInv, Restart PROVE Fresh'
  <1>1. /\ objects' = SeedObjects /\ list' = [k \in DOMAIN Seeds |-> k] /\ inbox' = SeedInbox
        /\ askSeq' = 0 /\ restarts < MaxRestarts /\ restarts' = restarts + 1
        /\ req' = [t \in DOMAIN req |-> Served] /\ UNCHANGED mrs
    BY DEF Restart
  <1>2. req' \in Seq(Request)
    <2>1. Len(req) \in Nat /\ DOMAIN req = 1..Len(req) BY LenProperties DEF IInv, SeqInv
    <2>2. req' \in [1..Len(req) -> Request] BY <1>1, <2>1, ServedGood
    <2> QED BY <2>1, <2>2, FunctionSeq
  <1>3. restarts' \in 0..MaxRestarts BY <1>1, ConsoleAssumption DEF IInv, SeqInv
  <1>4. mrs' \in Seq(MergeRequest) BY <1>1, Same DEF IInv
  <1> QED BY <1>1, <1>2, <1>3, <1>4 DEF Fresh

LEMMA RestartInv == IInv /\ Restart => IInv'
  <1>1. IInv /\ Restart => Fresh' BY RestartFresh
  <1> QED BY <1>1, FreshInv, PTL

-----------------------------------------------------------------------------
\* Every step keeps the invariant, and a step within a life adds to the store.
LEMMA ProceedInv ==
    ASSUME IInv, NEW t \in DOMAIN req, Proceed(t)
    PROVE  IInv' /\ Grow
  BY InsertQuestionInv, AgentReturnsInv, AgentFailsInv, ReplaceInv, SyncAppendInv,
     DispatchMrInv, RecordMrInv, DispatchDagInv, ResolveInv, GitlabAnswersInv DEF Proceed

\* Within a life the store only grows.
LEMMA NextGrows == ASSUME IInv, Next, ~Restart PROVE IInv' /\ Grow
  <1>1. CASE \E i \in Investigations : GetInvestigation(i) \/ RunAgent(i) BY <1>1, OpenInv
  <1>2. CASE AskQuestion BY <1>2, AskQuestionInv
  <1>3. CASE \E id \in Ids : Approve(id) BY <1>3, ApproveInv
  <1>4. CASE \E id \in Ids, decision \in Refusals : Refuse(id, decision) BY <1>4, RefuseInv
  <1>5. CASE \E a \in DOMAIN inbox : RefreshMerge(a) BY <1>5, RefreshMergeInv
  <1>6. CASE \E t \in DOMAIN req : Proceed(t) BY <1>6, ProceedInv
  <1>7. CASE \E m \in DOMAIN mrs : MergeMr(m) BY <1>7, MergeMrInv
  <1> QED BY <1>1, <1>2, <1>3, <1>4, <1>5, <1>6, <1>7 DEF Next

LEMMA NextInv == IInv /\ [Next]_vars => IInv'
  <1> SUFFICES ASSUME IInv, [Next]_vars PROVE IInv' OBVIOUS
  <1>1. CASE UNCHANGED vars
    <2>1. UNCHANGED <<objects, list, inbox, req, mrs, approved, done, lifeVars>>
      BY <1>1 DEF vars
    <2>2. Grow /\ TypesStep /\ ApprovalsStep /\ ObjectsStep /\ ListStep
      BY <2>1, Same DEF Grow, TypesStep
    <2> QED BY <2>1, <2>2, OutsideInv
  <1>2. CASE Restart BY <1>2, RestartInv
  <1>3. CASE Next /\ ~Restart BY <1>3, NextGrows
  <1> QED BY <1>1, <1>2, <1>3

\* What a request has established holds when it goes on, whatever the others
\* did meanwhile, and in every life of the process.
THEOREM Invariant == Spec => []IInv
  <1> QED BY InitInv, NextInv, PTL DEF Spec

\* Every reference of the store and of the requests leads to something.
THEOREM TypeCorrect == Spec => []TypeOK
  <1>1. ASSUME IInv PROVE TypeOK
    <2>1. \A o \in DOMAIN objects : objects[o] \in Object BY <1>1, ObjectType
    <2>2. \A k \in DOMAIN list : list[k] \in DOMAIN objects BY <1>1 DEF IInv, ListInv
    <2>3. ASSUME NEW a \in DOMAIN inbox
          PROVE  /\ inbox[a].inv \in Investigations /\ inbox[a].stage \in {"fix", "rerun"}
                 /\ inbox[a].status \in Decision /\ inbox[a].zero \in BOOLEAN
                 /\ inbox[a].mr \in {0} \cup DOMAIN mrs
      <3>1. inbox[a] \in ApprovalRecord BY <1>1, ApprovalType
      <3>2. GoodApproval(inbox[a]) BY <1>1 DEF IInv, ApprovalInv
      <3> QED BY <3>1, <3>2 DEF ApprovalRecord, GoodApproval
    <2>4. ASSUME NEW t \in DOMAIN req
          PROVE  /\ req[t].obj \in {0} \cup DOMAIN objects
                 /\ req[t].new \in {0} \cup DOMAIN objects
                 /\ req[t].idx \in {0} \cup DOMAIN list
                 /\ req[t].ap \in {0} \cup DOMAIN inbox
                 /\ req[t].mr \in {0} \cup DOMAIN mrs
      BY <1>1, Serving DEF GoodRequest
    <2>5. ASSUME NEW m \in DOMAIN mrs
          PROVE  /\ mrs[m].branch \in [inv : Investigations, metric : Metrics]
                 /\ mrs[m].merged \in BOOLEAN
      <3>1. mrs[m] \in MergeRequest BY <1>1, LenProperties DEF IInv, SeqInv
      <3> QED BY <3>1 DEF MergeRequest
    <2> QED BY <1>1, <2>1, <2>2, <2>3, <2>4, <2>5 DEF TypeOK, IInv, SeqInv
  <1>2. IInv => TypeOK BY <1>1
  <1> QED BY <1>2, Invariant, PTL

\* An investigation that awaits its re-run has it in the inbox, under the id
\* that the approval route looks up, although objects are replaced and two
\* requests may offer the same re-run.
THEOREM AwaitedIsOffered == Spec => []AwaitingHasRerun
  <1>1. ASSUME IInv, NEW o \in DOMAIN objects, objects[o].status = "awaiting_rerun"
        PROVE  LET a == ById(RerunId(objects[o].inv))
               IN  a # 0 /\ inbox[a].stage = "rerun" /\ inbox[a].inv = objects[o].inv
    <2>1. HasRerun(objects[o].inv) BY <1>1 DEF IInv, ObjectInv, GoodObject
    <2>2. PICK a : a = ById(RerunId(objects[o].inv)) OBVIOUS
    <2>3. a \in DOMAIN inbox /\ a # 0 /\ inbox[a].id = RerunId(objects[o].inv)
      BY <1>1, <2>1, <2>2, ByIdSpec DEF HasRerun, IInv
    <2>4. objects[o].inv \in Investigations BY <1>1, ObjectType DEF Object
    <2>5. inbox[a].stage = "rerun" /\ inbox[a].inv = objects[o].inv
      BY <1>1, <2>3, <2>4 DEF IInv, ApprovalInv, GoodApproval
    <2> QED BY <2>2, <2>3, <2>5
  <1>2. IInv => AwaitingHasRerun BY <1>1 DEF AwaitingHasRerun
  <1> QED BY <1>2, Invariant, PTL

\* The merge gate of an approval opens only for a merge that happened, even
\* when the answer is about a merge request that was replaced meanwhile.
THEOREM GatesOpenForMerges == Spec => []MergedIsReal
  <1>1. IInv => MergedIsReal BY DEF IInv, ApprovalInv, GoodApproval, MergedIsReal
  <1> QED BY <1>1, Invariant, PTL

\* An investigation leaves the overview only when it is resolved or its re-run
\* has been decided.
THEOREM NobodyForgets == Spec => []NothingForgotten
  <1>1. ASSUME IInv, NEW k \in DOMAIN list, objects[list[k]].status # "resolved",
               objects[list[k]].inv \notin Attention
        PROVE  \E a \in DOMAIN inbox :
                  /\ inbox[a].inv = objects[list[k]].inv
                  /\ inbox[a].stage = "rerun" /\ inbox[a].status # "pending"
    <2>1. PICK o : o = list[k] OBVIOUS
    <2>2. o \in DOMAIN objects BY <1>1, <2>1 DEF IInv, ListInv
    <2>3. objects[o] \in Object BY <1>1, <2>2, ObjectType
    <2>4. objects[o].status \notin NeedAttention BY <1>1, <2>1 DEF Attention
    <2>5. objects[o].status = "awaiting_rerun"
      BY <1>1, <2>1, <2>3, <2>4 DEF Object, Statuses, PostApproval, NeedAttention
    <2>6. PICK a \in DOMAIN inbox : inbox[a].id = RerunId(objects[o].inv)
      BY <1>1, <2>2, <2>5 DEF IInv, ObjectInv, GoodObject, HasRerun
    <2>7. inbox[a].stage = "rerun" /\ inbox[a].inv = objects[o].inv
      BY <1>1, <2>3, <2>6 DEF IInv, ApprovalInv, GoodApproval, Object
    <2>8. inbox[a].status # "pending" BY <1>1, <2>1, <2>7 DEF Attention
    <2> QED BY <2>1, <2>7, <2>8
  <1>2. IInv => NothingForgotten BY <1>1 DEF NothingForgotten
  <1> QED BY <1>2, Invariant, PTL

\* When no request is under way, what the agent found fixable is in the inbox,
\* whichever of the overlapping runs put its object into the list.
THEOREM FixablesAreOffered == Spec => []FixableHasApproval
  <1>1. ASSUME IInv, Quiet, NEW k \in DOMAIN list,
               objects[list[k]].status = "needs_approval", objects[list[k]].agentRun
        PROVE  FirstFor(objects[list[k]].inv) # 0
    <2>1. Shown(objects[list[k]].inv) BY <1>1 DEF IInv, CoverInv, Covered
    <2>2. \A t \in DOMAIN req : req[t].pc # "append" BY <1>1 DEF Quiet, At
    <2>3. \E a \in DOMAIN inbox : inbox[a].inv = objects[list[k]].inv
      BY <2>1, <2>2 DEF Shown
    <2> QED BY <1>1, <2>3, FirstForSpec DEF IInv
  <1>2. IInv => FixableHasApproval BY <1>1 DEF FixableHasApproval
  <1> QED BY <1>2, Invariant, PTL

-----------------------------------------------------------------------------
(* The re-run is offered, or about to be.                                   *)

Underway(i) == \E t \in DOMAIN req : req[t].pc = "spawn" /\ objects[req[t].obj].inv = i
OfferInv == \A i \in Investigations : <<i, "mr">> \in done => HasRerun(i) \/ Underway(i)

\* A request that is about to offer a re-run stays so until it does.
LEMMA SpawnSteps ==
    ASSUME IInv, Next, ~Restart, NEW t \in DOMAIN req, req[t].pc = "spawn"
    PROVE  (t \in DOMAIN req' /\ req'[t] = req[t]) \/ RecordMr(t)
  <1>1. req \in Seq(Request) BY DEF IInv, SeqInv
  <1>2. ASSUME NEW r, Accept(r) PROVE t \in DOMAIN req' /\ req'[t] = req[t]
    <2>1. DOMAIN req = 1..Len(req) /\ Len(req) \in Nat BY <1>1, LenProperties
    <2>2. req' = Append(req, r) BY <1>2 DEF Accept
    <2> QED BY <1>1, <2>1, <2>2
  <1>3. CASE \E i \in Investigations : GetInvestigation(i) \/ RunAgent(i)
    BY <1>2, <1>3 DEF GetInvestigation, RunAgent, StartAgent
  <1>4. CASE AskQuestion BY <1>2, <1>4 DEF AskQuestion
  <1>5. CASE \E id \in Ids : Approve(id) BY <1>2, <1>5 DEF Approve
  <1>6. CASE \E id \in Ids, decision \in Refusals : Refuse(id, decision)
    BY <1>2, <1>6 DEF Refuse
  <1>7. CASE \E a \in DOMAIN inbox : RefreshMerge(a) BY <1>2, <1>7 DEF RefreshMerge
  <1>8. ASSUME NEW u \in DOMAIN req, Proceed(u)
        PROVE  (t \in DOMAIN req' /\ req'[t] = req[t]) \/ RecordMr(t)
    <2>1. CASE u = t
      BY <1>8, <2>1 DEF Proceed, InsertQuestion, AgentReturns, AgentFails, Replace,
         SyncAppend, DispatchMr, DispatchDag, Resolve, GitlabAnswers, At
    <2>2. CASE u # t
      <3>1. \E r : req' = [req EXCEPT ![u] = r]
        BY <1>8 DEF Proceed, InsertQuestion, AgentReturns, AgentFails, Replace,
           SyncAppend, DispatchMr, RecordMr, DispatchDag, Resolve, GitlabAnswers, Finish, Go
      <3> QED BY <2>2, <3>1
    <2> QED BY <2>1, <2>2
  <1>9. CASE \E m \in DOMAIN mrs : MergeMr(m) BY <1>9 DEF MergeMr
  <1> QED BY <1>3, <1>4, <1>5, <1>6, <1>7, <1>8, <1>9 DEF Next

\* Only the call to the write tool asks for a merge request.
LEMMA AskedForMr ==
    ASSUME Next, NEW i, <<i, "mr">> \in done', <<i, "mr">> \notin done
    PROVE  \E t \in DOMAIN req : DispatchMr(t) /\ objects[req[t].obj].inv = i
  <1>1. CASE \E j \in Investigations : GetInvestigation(j) \/ RunAgent(j)
    BY <1>1 DEF GetInvestigation, RunAgent, StartAgent
  <1>2. CASE AskQuestion BY <1>2 DEF AskQuestion
  <1>3. CASE \E id \in Ids : Approve(id) BY <1>3 DEF Approve
  <1>4. CASE \E id \in Ids, decision \in Refusals : Refuse(id, decision)
    BY <1>4 DEF Refuse
  <1>5. CASE \E a \in DOMAIN inbox : RefreshMerge(a) BY <1>5 DEF RefreshMerge
  <1>6. ASSUME NEW t \in DOMAIN req, Proceed(t)
        PROVE  DispatchMr(t) /\ objects[req[t].obj].inv = i
    <2>1. CASE InsertQuestion(t) \/ AgentReturns(t) \/ AgentFails(t) \/ Replace(t)
      BY <2>1 DEF InsertQuestion, AgentReturns, AgentFails, Replace
    <2>2. CASE SyncAppend(t) \/ RecordMr(t) \/ GitlabAnswers(t)
      BY <2>2 DEF SyncAppend, RecordMr, GitlabAnswers
    <2>3. CASE DispatchMr(t)
      <3>1. done' = done \cup {<<objects[req[t].obj].inv, "mr">>}
        BY <2>3 DEF DispatchMr, Effect
      <3> QED BY <2>3, <3>1
    <2>4. CASE DispatchDag(t)
      <3>1. done' = done \cup {<<objects[req[t].obj].inv, "dag">>}
        BY <2>4 DEF DispatchDag, Effect
      <3> QED BY <3>1
    <2>5. CASE Resolve(t)
      <3>1. done' \subseteq done \cup {<<objects[req[t].obj].inv, "memory">>}
        BY <2>5 DEF Resolve, Effect
      <3> QED BY <3>1
    <2> QED BY <1>6, <2>1, <2>2, <2>3, <2>4, <2>5 DEF Proceed
  <1>7. CASE \E m \in DOMAIN mrs : MergeMr(m) BY <1>7 DEF MergeMr
  <1>8. CASE Restart BY <1>8 DEF Restart
  <1> QED BY <1>1, <1>2, <1>3, <1>4, <1>5, <1>6, <1>7, <1>8 DEF Next

LEMMA OfferStep == ASSUME IInv, IInv', OfferInv, Next PROVE OfferInv'
  <1>1. CASE Restart BY <1>1 DEF Restart, OfferInv
  <1>2. CASE ~Restart
    <2> SUFFICES ASSUME NEW i \in Investigations, <<i, "mr">> \in done'
                 PROVE  HasRerun(i)' \/ Underway(i)'
      BY DEF OfferInv
    <2>1. Grow BY <1>2, NextGrows
    <2>2. HasRerun(i) => HasRerun(i)' BY <2>1 DEF Grow, InboxGrows, HasRerun
    <2>3. CASE <<i, "mr">> \in done /\ Underway(i)
      <3>1. PICK t \in DOMAIN req : req[t].pc = "spawn" /\ objects[req[t].obj].inv = i
        BY <2>3 DEF Underway
      <3>2. req[t].obj \in DOMAIN objects BY <3>1, Serving DEF GoodRequest, Acting
      <3>3. PICK o : o = req[t].obj OBVIOUS
      <3>4. o \in DOMAIN objects' /\ objects'[o].inv = i
        BY <2>1, <3>1, <3>2, <3>3 DEF Grow, ObjectsGrow
      <3>5. CASE t \in DOMAIN req' /\ req'[t] = req[t]
        BY <3>1, <3>3, <3>4, <3>5 DEF Underway
      <3>6. CASE RecordMr(t)
        <4>1. objects' = [objects EXCEPT ![o].status = "awaiting_rerun"]
          BY <3>3, <3>6 DEF RecordMr
        <4>2. objects[o] \in Object BY <3>2, <3>3, ObjectType
        <4>3. objects'[o].status = "awaiting_rerun" BY <3>2, <3>3, <4>1, <4>2 DEF Object
        <4> QED BY <3>4, <4>3 DEF IInv, ObjectInv, GoodObject
      <3> QED BY <1>2, <3>1, <3>5, <3>6, SpawnSteps
    <2>4. CASE <<i, "mr">> \notin done
      <3>1. PICK t \in DOMAIN req : DispatchMr(t) /\ objects[req[t].obj].inv = i
        BY <2>4, AskedForMr
      <3>2. req[t] \in Request BY Serving
      <3>3. req \in Seq(Request) BY DEF IInv, SeqInv
      <3>4. CASE RerunMissing(i)
        <4>1. PICK mr : req' = [req EXCEPT ![t] = [req[t] EXCEPT !.pc = "spawn", !.mr = mr]]
          BY <3>1, <3>4 DEF DispatchMr, Go
        <4>2. t \in DOMAIN req' /\ req'[t] = [req[t] EXCEPT !.pc = "spawn", !.mr = mr]
          BY <4>1
        <4>3. req'[t].pc = "spawn" /\ req'[t].obj = req[t].obj
          BY <3>2, <4>2 DEF Request
        <4>4. UNCHANGED objects BY <3>1 DEF DispatchMr
        <4> QED BY <3>1, <4>2, <4>3, <4>4 DEF Underway
      <3>5. CASE ~RerunMissing(i)
        BY <2>2, <3>5, ByIdSpec DEF RerunMissing, HasRerun, IInv
      <3> QED BY <3>4, <3>5
    <2> QED BY <2>2, <2>3, <2>4 DEF OfferInv
  <1> QED BY <1>1, <1>2

\* Once GitLab was asked for the merge request of a fix, the re-run is in the inbox
\* or the request that asked is about to put it there, whatever was answered: the
\* safe part of MrLeadsToOffer, for overlapping decisions and any look-up of theirs.
THEOREM ReRunsAreOffered == Spec => []OfferedOrUnderway
  <1>1. Init => OfferInv BY DEF Init, OfferInv
  <1>2. ASSUME IInv, IInv', OfferInv, [Next]_vars PROVE OfferInv'
    <2>1. CASE UNCHANGED vars BY <1>2, <2>1 DEF vars, OfferInv, HasRerun, Underway
    <2> QED BY <1>2, <2>1, OfferStep
  <1>3. IInv /\ OfferInv => OfferedOrUnderway
    BY ByIdSpec DEF IInv, OfferInv, OfferedOrUnderway, HasRerun, Underway, At
  <1>4. IInv /\ IInv' /\ OfferInv /\ [Next]_vars => OfferInv' BY <1>2
  <1> QED BY <1>1, <1>3, <1>4, Invariant, PTL DEF Spec

-----------------------------------------------------------------------------
(* The console implements the two stages.                                   *)

Offered == {inbox[a].inv : a \in {b \in DOMAIN inbox : inbox[b].stage = "rerun"}}

\* What is offered does not depend on the decisions and the merge state.
LEMMA OfferedKept ==
    ASSUME IInv, NEW a \in DOMAIN inbox, NEW p, inbox' = [inbox EXCEPT ![a] = p],
           p.inv = inbox[a].inv, p.stage = inbox[a].stage
    PROVE  Offered' = Offered
  <1>1. DOMAIN inbox' = DOMAIN inbox OBVIOUS
  <1>2. \A b \in DOMAIN inbox :
            inbox'[b].inv = inbox[b].inv /\ inbox'[b].stage = inbox[b].stage
    OBVIOUS
  <1> QED BY <1>1, <1>2 DEF Offered

LEMMA OfferedAppended ==
    ASSUME NEW s \in Seq(ApprovalRecord), NEW p \in ApprovalRecord, inbox' = Append(s, p),
           DOMAIN s = DOMAIN inbox,
           \A b \in DOMAIN inbox : s[b].inv = inbox[b].inv /\ s[b].stage = inbox[b].stage
    PROVE  Offered' = Offered \cup (IF p.stage = "rerun" THEN {p.inv} ELSE {})
  <1>1. /\ DOMAIN inbox' = DOMAIN inbox \cup {Len(s) + 1}
        /\ \A b \in DOMAIN inbox : inbox'[b] = s[b]
        /\ inbox'[Len(s) + 1] = p
    BY AppendAt
  <1>2. Offered' = {inbox'[b].inv : b \in {c \in DOMAIN inbox' : inbox'[c].stage = "rerun"}}
    BY DEF Offered
  <1>3. ASSUME NEW i PROVE i \in Offered' <=>
                              \E b \in DOMAIN inbox' : inbox'[b].stage = "rerun" /\ inbox'[b].inv = i
    BY <1>2
  <1>4. ASSUME NEW i PROVE i \in Offered <=>
                              \E b \in DOMAIN inbox : inbox[b].stage = "rerun" /\ inbox[b].inv = i
    BY DEF Offered
  <1>5. ASSUME NEW i
        PROVE  i \in Offered' <=> i \in Offered \/ (p.stage = "rerun" /\ p.inv = i)
    BY <1>1, <1>3, <1>4
  <1> QED BY <1>5

LEMMA ApproveMaps ==
    ASSUME IInv, NEW id, Approve(id)
    PROVE  \E i \in Investigations : TwoStage!ApproveFix(i) \/ TwoStage!ApproveRerun(i)
  <1>1. PICK a : a = ById(id) OBVIOUS
  <1>2. a \in DOMAIN inbox BY <1>1, ByIdSpec DEF Approve, IInv
  <1>3. inbox[a] \in ApprovalRecord BY <1>2, ApprovalType
  <1>4. /\ inbox' = [inbox EXCEPT ![a].status = "approved"] /\ UNCHANGED done
        /\ approved' = approved \cup {<<inbox[a].inv, inbox[a].stage>>}
    BY <1>1 DEF Approve
  <1>5. Offered' = Offered
    <2>1. PICK p : p = [inbox[a] EXCEPT !.status = "approved"] OBVIOUS
    <2>2. p.inv = inbox[a].inv /\ p.stage = inbox[a].stage
      BY <1>3, <2>1 DEF ApprovalRecord
    <2>3. inbox' = [inbox EXCEPT ![a] = p] BY <1>4, <2>1
    <2> QED BY <1>2, <2>2, <2>3, OfferedKept
  <1>6. PICK i : i = inbox[a].inv OBVIOUS
  <1>7. i \in Investigations /\ inbox[a].stage \in {"fix", "rerun"}
    BY <1>3, <1>6 DEF ApprovalRecord
  <1>8. CASE inbox[a].stage = "fix"
    BY <1>4, <1>5, <1>6, <1>7, <1>8 DEF TwoStage!ApproveFix, Offered
  <1>9. CASE inbox[a].stage = "rerun"
    <2>1. i \in Offered BY <1>2, <1>6, <1>9 DEF Offered
    <2> QED BY <1>4, <1>5, <1>6, <1>7, <1>9, <2>1 DEF TwoStage!ApproveRerun, Offered
  <1> QED BY <1>7, <1>8, <1>9

LEMMA DispatchMrMaps ==
    ASSUME IInv, NEW t \in DOMAIN req, DispatchMr(t)
    PROVE  \E i \in Investigations : TwoStage!RequestMerge(i)
  <1>1. GoodRequest(req[t]) /\ req[t].pc = "mr" BY Serving DEF DispatchMr, At
  <1>2. PICK i : i = objects[req[t].obj].inv OBVIOUS
  <1>3. i \in Investigations /\ <<i, "fix">> \in approved
    BY <1>1, <1>2, ObjectType DEF GoodRequest, Acting, Object
  <1>4. done' = done \cup {<<i, "mr">>} /\ UNCHANGED <<approved, inbox>>
    BY <1>2 DEF DispatchMr, Effect
  <1> QED BY <1>3, <1>4 DEF TwoStage!RequestMerge

LEMMA RecordMrMaps ==
    ASSUME IInv, NEW t \in DOMAIN req, RecordMr(t)
    PROVE  (\E i \in Investigations : TwoStage!OfferRerun(i)) \/ UNCHANGED TwoStage!vars
  <1>1. /\ req[t] \in Request /\ GoodRequest(req[t])
        /\ req[t].pc \in {"spawn", "record"}
    BY Serving DEF RecordMr, At
  <1>2. PICK a, i : a = req[t].ap /\ i = objects[req[t].obj].inv OBVIOUS
  <1>3. a \in DOMAIN inbox /\ i \in Investigations /\ <<i, "mr">> \in done
    BY <1>1, <1>2, ObjectType DEF GoodRequest, Acting, Object
  <1>4. PICK p : p = [inbox[a] EXCEPT !.mr = req[t].mr] OBVIOUS
  <1>5. inbox[a] \in ApprovalRecord BY <1>3, ApprovalType
  <1>6. p \in ApprovalRecord /\ p.inv = inbox[a].inv /\ p.stage = inbox[a].stage
    BY <1>1, <1>4, <1>5 DEF ApprovalRecord, Request
  <1>7. PICK recorded : recorded = [inbox EXCEPT ![a] = p] OBVIOUS
  <1>8. recorded = [inbox EXCEPT ![req[t].ap].mr = req[t].mr] BY <1>2, <1>4, <1>7
  <1>9. UNCHANGED <<approved, done>> BY DEF RecordMr
  <1>10. CASE req[t].pc = "record"
    <2>1. inbox' = recorded BY <1>8, <1>10 DEF RecordMr, At
    <2>2. Offered' = Offered BY <1>3, <1>6, <1>7, <2>1, OfferedKept
    <2> QED BY <1>9, <2>2 DEF TwoStage!vars, Offered
  <1>11. CASE req[t].pc = "spawn"
    <2>1. PICK q : q = Approval(RerunId(i), i, "rerun", FALSE) OBVIOUS
    <2>2. inbox' = Append(recorded, q)
      BY <1>2, <1>8, <1>11, <2>1 DEF RecordMr, At
    <2>3. q \in ApprovalRecord /\ q.stage = "rerun" /\ q.inv = i
      BY <1>3, <2>1 DEF Approval, RerunId, ApprovalRecord, ApprovalIds, Decision
    <2>4. /\ recorded \in Seq(ApprovalRecord) /\ DOMAIN recorded = DOMAIN inbox
          /\ \A b \in DOMAIN inbox : recorded[b] = IF b = a THEN p ELSE inbox[b]
      BY <1>3, <1>6, <1>7, ExceptAt DEF IInv, SeqInv
    <2>5. Offered' = Offered \cup {i} BY <1>6, <2>2, <2>3, <2>4, OfferedAppended
    <2> QED BY <1>3, <1>9, <2>5 DEF TwoStage!OfferRerun, Offered
  <1> QED BY <1>1, <1>10, <1>11

LEMMA DispatchDagMaps ==
    ASSUME IInv, NEW t \in DOMAIN req, DispatchDag(t)
    PROVE  \E i \in Investigations : TwoStage!TriggerDag(i)
  <1>1. GoodRequest(req[t]) /\ req[t].pc = "dag" BY Serving DEF DispatchDag, At
  <1>2. PICK i : i = objects[req[t].obj].inv OBVIOUS
  <1>3. i \in Investigations /\ <<i, "rerun">> \in approved
    BY <1>1, <1>2, ObjectType DEF GoodRequest, Acting, Object
  <1>4. done' = done \cup {<<i, "dag">>} /\ UNCHANGED <<approved, inbox>>
    BY <1>2 DEF DispatchDag, Effect
  <1> QED BY <1>3, <1>4 DEF TwoStage!TriggerDag

LEMMA ResolveMaps ==
    ASSUME IInv, NEW t \in DOMAIN req, Resolve(t)
    PROVE  (\E i \in Investigations : TwoStage!Remember(i)) \/ UNCHANGED TwoStage!vars
  <1>1. GoodRequest(req[t]) /\ req[t].pc = "memory" BY Serving DEF Resolve, At
  <1>2. PICK a, i : a = req[t].ap /\ i = objects[req[t].obj].inv OBVIOUS
  <1>3. a \in DOMAIN inbox /\ i \in Investigations /\ <<i, "dag">> \in done
    BY <1>1, <1>2, ObjectType DEF GoodRequest, Acting, Object
  <1>4. Offered' = Offered
    <2>1. PICK p : p = [inbox[a] EXCEPT !.zero = req[t].zero] OBVIOUS
    <2>2. inbox[a] \in ApprovalRecord BY <1>3, ApprovalType
    <2>3. p.inv = inbox[a].inv /\ p.stage = inbox[a].stage
      BY <2>1, <2>2 DEF ApprovalRecord
    <2>4. inbox' = [inbox EXCEPT ![a] = p] BY <1>2, <2>1 DEF Resolve
    <2> QED BY <1>3, <2>3, <2>4, OfferedKept
  <1>5. (done' = done \cup {<<i, "memory">>} \/ UNCHANGED done) /\ UNCHANGED approved
    BY <1>2 DEF Resolve, Effect
  <1> QED BY <1>3, <1>4, <1>5 DEF TwoStage!Remember, TwoStage!vars, Offered

\* Everything else is invisible: no decision is made, nothing is offered.
LEMMA OthersStutter ==
    ASSUME IInv,
           \/ \E i \in Investigations : GetInvestigation(i) \/ RunAgent(i)
           \/ AskQuestion
           \/ \E id \in Ids, decision \in Refusals : Refuse(id, decision)
           \/ \E a \in DOMAIN inbox : RefreshMerge(a)
           \/ \E t \in DOMAIN req :
                 \/ InsertQuestion(t) \/ AgentReturns(t) \/ AgentFails(t) \/ Replace(t)
                 \/ SyncAppend(t) \/ GitlabAnswers(t)
           \/ \E m \in DOMAIN mrs : MergeMr(m)
    PROVE  UNCHANGED TwoStage!vars
  <1> SUFFICES UNCHANGED <<approved, done>> /\ Offered' = Offered
    BY DEF TwoStage!vars, Offered
  <1>1. CASE \E i \in Investigations : GetInvestigation(i) \/ RunAgent(i)
    BY <1>1 DEF GetInvestigation, RunAgent, StartAgent, Offered
  <1>2. CASE AskQuestion BY <1>2 DEF AskQuestion, Offered
  <1>3. CASE \E id \in Ids, decision \in Refusals : Refuse(id, decision)
    <2>1. PICK id \in Ids, decision \in Refusals : Refuse(id, decision) BY <1>3
    <2>2. PICK a : a = ById(id) OBVIOUS
    <2>3. a \in DOMAIN inbox BY <2>1, <2>2, ByIdSpec DEF Refuse, IInv
    <2>4. inbox[a] \in ApprovalRecord BY <2>3, ApprovalType
    <2>5. PICK p : p = [inbox[a] EXCEPT !.status = decision, !.zero = FALSE] OBVIOUS
    <2>6. inbox' = [inbox EXCEPT ![a] = p] BY <2>1, <2>2, <2>3, <2>5 DEF Refuse
    <2>7. p.inv = inbox[a].inv /\ p.stage = inbox[a].stage
      BY <2>4, <2>5 DEF ApprovalRecord
    <2> QED BY <2>1, <2>3, <2>6, <2>7, OfferedKept DEF Refuse
  <1>4. CASE \E a \in DOMAIN inbox : RefreshMerge(a) BY <1>4 DEF RefreshMerge, Offered
  <1>5. ASSUME NEW t \in DOMAIN req,
               InsertQuestion(t) \/ AgentReturns(t) \/ AgentFails(t) \/ Replace(t)
        PROVE  UNCHANGED <<approved, done>> /\ Offered' = Offered
    BY <1>5 DEF InsertQuestion, AgentReturns, AgentFails, Replace, Offered
  <1>6. ASSUME NEW t \in DOMAIN req, SyncAppend(t)
        PROVE  UNCHANGED <<approved, done>> /\ Offered' = Offered
    <2>1. req[t].pc = "append" /\ GoodRequest(req[t]) BY <1>6, Serving DEF SyncAppend, At
    <2>2. PICK new : new = req[t].new OBVIOUS
    <2>3. objects[new] \in Object BY <2>1, <2>2, ObjectType DEF GoodRequest
    <2>4. PICK p : p = Approval(req[t].id, objects[new].inv, "fix", objects[new].validated)
      OBVIOUS
    <2>5. p \in ApprovalRecord /\ p.stage = "fix"
      BY <2>1, <2>3, <2>4
      DEF GoodRequest, Approval, ApprovalRecord, ApprovalIds, Object, Decision
    <2>6. inbox' = Append(inbox, p) BY <1>6, <2>2, <2>4 DEF SyncAppend
    <2>7. inbox \in Seq(ApprovalRecord) BY DEF IInv, SeqInv
    <2> QED BY <1>6, <2>5, <2>6, <2>7, OfferedAppended DEF SyncAppend
  <1>7. ASSUME NEW t \in DOMAIN req, GitlabAnswers(t)
        PROVE  UNCHANGED <<approved, done>> /\ Offered' = Offered
    <2>1. UNCHANGED <<approved, done>> BY <1>7 DEF GitlabAnswers
    <2>2. CASE UNCHANGED inbox BY <2>1, <2>2 DEF Offered
    <2>3. CASE inbox' = [inbox EXCEPT ![req[t].ap].merged = TRUE]
      <3>1. PICK a : a = req[t].ap OBVIOUS
      <3>2. a \in DOMAIN inbox BY <1>7, <3>1, Serving DEF GitlabAnswers, At, GoodRequest
      <3>3. PICK p : p = [inbox[a] EXCEPT !.merged = TRUE] OBVIOUS
      <3>4. p.inv = inbox[a].inv /\ p.stage = inbox[a].stage
        BY <3>2, <3>3, ApprovalType DEF ApprovalRecord
      <3>5. inbox' = [inbox EXCEPT ![a] = p] BY <2>3, <3>1, <3>3
      <3> QED BY <2>1, <3>2, <3>4, <3>5, OfferedKept
    <2> QED BY <1>7, <2>2, <2>3 DEF GitlabAnswers
  <1>8. CASE \E m \in DOMAIN mrs : MergeMr(m) BY <1>8 DEF MergeMr, Offered
  <1> QED BY <1>1, <1>2, <1>3, <1>4, <1>5, <1>6, <1>7, <1>8

LEMMA RestartMaps == ASSUME Restart PROVE TwoStage!Restart
  <1>1. approved' = {} /\ done' = {} /\ inbox' = SeedInbox BY DEF Restart
  <1>2. Offered' = {} BY <1>1, SeedsGood DEF Offered
  <1> QED BY <1>1, <1>2 DEF TwoStage!Restart, Offered

LEMMA StepMaps == IInv /\ [Next]_vars => [TwoStage!Next]_TwoStage!vars
  <1> SUFFICES ASSUME IInv, [Next]_vars PROVE TwoStage!Next \/ UNCHANGED TwoStage!vars
    OBVIOUS
  <1>1. CASE UNCHANGED vars BY <1>1 DEF vars, TwoStage!vars
  <1>2. CASE \E id \in Ids : Approve(id) BY <1>2, ApproveMaps DEF TwoStage!Next
  <1>3. CASE \E t \in DOMAIN req :
               DispatchMr(t) \/ RecordMr(t) \/ DispatchDag(t) \/ Resolve(t)
    BY <1>3, DispatchMrMaps, RecordMrMaps, DispatchDagMaps, ResolveMaps DEF TwoStage!Next
  <1>4. CASE Restart BY <1>4, RestartMaps DEF TwoStage!Next
  <1> QED BY <1>1, <1>2, <1>3, <1>4, OthersStutter DEF Next, Proceed

\* Nothing is asked of GitLab, Airflow or the memory before a human approved
\* the stage it belongs to, and no re-run is approved before it was offered:
\* every step of the console is a step of the two stages, or changes nothing
\* they are about.
THEOREM ConsoleImplementsTwoStage == Spec => ImplementsTwoStage
  <1>1. Init => TwoStage!Init
    BY SeedsGood DEF Init, TwoStage!Init
  <1> QED BY <1>1, StepMaps, Invariant, PTL DEF Spec, ImplementsTwoStage, TwoStage!Spec
=============================================================================
