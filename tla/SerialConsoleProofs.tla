-------------------------- MODULE SerialConsoleProofs --------------------------
(***************************************************************************)
(* Machine-checked proofs about the console of one user who waits for      *)
(* every answer, for any number of requests and restarts: what overlapping *)
(* requests break (the runs that expect a violation) holds here, so it is  *)
(* the overlap alone that breaks it.                                       *)
(***************************************************************************)
EXTENDS ApprovalConsoleProofs

-----------------------------------------------------------------------------
(* The inductive invariant, on top of that of overlapping requests.         *)

\* One request is under way at most.
Alone == \A t, u \in DOMAIN req : req[t].pc # "served" /\ req[u].pc # "served" => t = u

\* An investigation has one place in the list.
ListedOnce ==
    \A j, k \in DOMAIN list : objects[list[j]].inv = objects[list[k]].inv => j = k

\* The numbered ids are smaller than the next one.
NumbersBelow ==
    \A a \in DOMAIN inbox, n \in Nat : inbox[a].id = SyncId(n) => n < Len(inbox)

\* The store is about the seeds and the questions inserted so far; the last number
\* may be of a question that is not inserted yet.
Asking == \E t \in DOMAIN req : req[t].pc = "ask"
Met(i) ==
    \/ i \in SeededSet
    \/ \E n \in DOMAIN Asked : Asked[n] = i /\ n <= askSeq /\ (n = askSeq => ~Asking)
MetInv ==
    /\ \A o \in DOMAIN objects : Met(objects[o].inv)
    /\ \A a \in DOMAIN inbox : Met(inbox[a].inv)

\* An investigation of which there are approvals shows the id of one of them.
HasApproval(i) == \E a \in DOMAIN inbox : inbox[a].inv = i
Linked(i, id) == HasApproval(i) => \E a \in DOMAIN inbox : inbox[a].id = id /\ inbox[a].inv = i
LinkInv == \A k \in DOMAIN list : Linked(objects[list[k]].inv, objects[list[k]].approvalId)

\* What the request under way found in the store is still so.
InList(o) == \E k \in DOMAIN list : list[k] = o
Opened(r, o) == r.kind = "open" => objects[o].status \notin PostApproval
Held(r) ==
    /\ r.pc = "agent" => InList(r.obj) /\ Opened(r, r.obj)
    /\ r.pc = "replace" =>
          /\ r.idx # 0 /\ Opened(r, list[r.idx])
          /\ objects[r.new].inv = objects[list[r.idx]].inv
          /\ objects[r.new].approvalId = objects[list[r.idx]].approvalId
    /\ r.pc = "append" => InList(r.new) /\ r.id = SyncId(Len(inbox))
    /\ r.pc = "spawn" => ~HasRerun(objects[r.obj].inv)
HeldInv == \A t \in DOMAIN req : Held(req[t])

SerialInv ==
    /\ Alone /\ ListedOnce /\ ApprovalsApart /\ NumbersBelow /\ MetInv /\ LinkInv /\ HeldInv

-----------------------------------------------------------------------------
(* Sequences and look-ups.                                                  *)

LEMMA AppendAny ==
    ASSUME NEW S, NEW s \in Seq(S), NEW e
    PROVE  /\ Len(s) \in Nat /\ Len(Append(s, e)) = Len(s) + 1
           /\ DOMAIN Append(s, e) = DOMAIN s \cup {Len(s) + 1}
           /\ Len(s) + 1 \notin DOMAIN s
           /\ \A k \in DOMAIN s : Append(s, e)[k] = s[k]
           /\ Append(s, e)[Len(s) + 1] = e
  <1>1. s \in Seq(S \cup {e}) OBVIOUS
  <1>2. e \in S \cup {e} OBVIOUS
  <1> QED BY ONLY <1>1, <1>2, AppendAt

LEMMA ConsExact ==
    ASSUME NEW S, NEW s \in Seq(S), NEW e \in S
    PROVE  /\ (<<e>> \o s)[1] = e
           /\ DOMAIN (<<e>> \o s) \subseteq Nat
           /\ \A k \in DOMAIN (<<e>> \o s) :
                 k # 1 => k - 1 \in DOMAIN s /\ (<<e>> \o s)[k] = s[k - 1]
           /\ \A j \in DOMAIN s :
                 j + 1 \in DOMAIN (<<e>> \o s) /\ (<<e>> \o s)[j + 1] = s[j]
  <1>1. <<e>> \in Seq(S) /\ Len(<<e>>) = 1 /\ <<e>>[1] = e OBVIOUS
  <1>2. Len(s) \in Nat /\ DOMAIN s = 1..Len(s) BY LenProperties
  <1>3. /\ <<e>> \o s \in Seq(S) /\ Len(<<e>> \o s) = 1 + Len(s)
        /\ \A k \in 1..(1 + Len(s)) :
              (<<e>> \o s)[k] = IF k <= 1 THEN <<e>>[k] ELSE s[k - 1]
    BY <1>1, ConcatProperties
  <1>4. DOMAIN (<<e>> \o s) = 1..(1 + Len(s)) BY <1>3, LenProperties
  <1>5. ASSUME NEW k \in 1..(1 + Len(s)), k # 1
        PROVE  k - 1 \in 1..Len(s) /\ (<<e>> \o s)[k] = s[k - 1]
    BY <1>2, <1>3, <1>5
  <1>6. ASSUME NEW j \in 1..Len(s)
        PROVE  j + 1 \in 1..(1 + Len(s)) /\ (<<e>> \o s)[j + 1] = s[j]
    <2>1. j + 1 \in 1..(1 + Len(s)) /\ ~(j + 1 <= 1) /\ (j + 1) - 1 = j BY <1>2
    <2> QED BY <1>3, <2>1
  <1> QED BY <1>1, <1>2, <1>3, <1>4, <1>5, <1>6

\* An investigation of the list has a position.
LEMMA PositionSpec ==
    ASSUME IInv, NEW i
    PROVE  /\ Position(i) # 0 => /\ Position(i) \in DOMAIN list
                                 /\ objects[list[Position(i)]].inv = i
           /\ Position(i) = 0 => \A k \in DOMAIN list : objects[list[k]].inv # i
           /\ Current(i) # 0 => Position(i) # 0 /\ Current(i) = list[Position(i)]
  <1> DEFINE S == {k \in DOMAIN list : objects[list[k]].inv = i}
  <1>1. DOMAIN list = 1..Len(list) BY LenProperties DEF IInv, SeqInv
  <1>2. S \subseteq Nat \ {0} BY <1>1
  <1>3. Position(i) = Lowest(S) BY DEF Position
  <1>4. Lowest(S) \in S \cup {0} /\ (Lowest(S) = 0 <=> S = {}) BY <1>2, LowestSpec
  <1> QED BY <1>3, <1>4 DEF Current

-----------------------------------------------------------------------------
(* Requests, one at a time.                                                 *)

LEMMA ServedHeld == Held(Served) /\ Held(Served)'
  BY DEF Served, Held

LEMMA AcceptAlone ==
    ASSUME IInv, Quiet, NEW r, req' = Append(req, r), Held(r)'
    PROVE  /\ Alone' /\ HeldInv'
           /\ Asking' => r.pc = "ask"
  <1>1. /\ DOMAIN req' = DOMAIN req \cup {Len(req) + 1}
        /\ \A t \in DOMAIN req : req'[t] = req[t]
        /\ req'[Len(req) + 1] = r
    BY AppendAny DEF IInv, SeqInv
  <1>2. \A t \in DOMAIN req' : req'[t] = r \/ req'[t].pc = "served"
    BY <1>1 DEF Quiet, At
  <1>3. \A t \in DOMAIN req' : req'[t].pc # "served" => t = Len(req) + 1
    BY <1>1 DEF Quiet, At
  <1>4. Alone' BY <1>3 DEF Alone
  <1>5. ASSUME NEW t \in DOMAIN req' PROVE Held(req[t])'
    <2>1. CASE req'[t] = r
      <3>1. PICK q : q = r OBVIOUS
      <3> QED BY <2>1 DEF Held
    <2>2. CASE req'[t].pc = "served" BY <2>2 DEF Held
    <2> QED BY <1>2, <2>1, <2>2
  <1> QED BY <1>2, <1>4, <1>5 DEF HeldInv, Asking

LEMMA GoAlone ==
    ASSUME IInv, Alone, NEW t \in DOMAIN req, req[t].pc # "served",
           NEW r, req' = [req EXCEPT ![t] = r], Held(r)'
    PROVE  /\ Alone' /\ HeldInv'
           /\ Asking' => r.pc = "ask"
  <1>1. /\ DOMAIN req' = DOMAIN req
        /\ \A u \in DOMAIN req : req'[u] = IF u = t THEN r ELSE req[u]
    OBVIOUS
  <1>2. \A u \in DOMAIN req : u # t => req[u].pc = "served" BY DEF Alone
  <1>3. \A u \in DOMAIN req' : u = t \/ req'[u].pc = "served" BY <1>1, <1>2
  <1>4. Alone' BY <1>3 DEF Alone
  <1>5. ASSUME NEW u \in DOMAIN req' PROVE Held(req[u])'
    <2>1. CASE u = t BY <1>1, <2>1 DEF Held
    <2>2. CASE req'[u].pc = "served" BY <2>2 DEF Held
    <2> QED BY <1>3, <2>1, <2>2
  <1> QED BY <1>1, <1>3, <1>4, <1>5 DEF HeldInv, Asking

\* What was met stays met: the number that is taken next is a new one.
LEMMA MetStable ==
    ASSUME IInv, NEW i, Met(i),
           \/ askSeq' = askSeq /\ (Asking' => Asking)
           \/ askSeq' = askSeq + 1
    PROVE  Met(i)'
  <1>1. askSeq \in Nat BY ConsoleAssumption, LenProperties DEF IInv, SeqInv
  <1>2. CASE askSeq' = askSeq /\ (Asking' => Asking) BY <1>2 DEF Met
  <1>3. CASE askSeq' = askSeq + 1
    <2>1. CASE i \in SeededSet BY <2>1 DEF Met
    <2>2. CASE \E n \in DOMAIN Asked : Asked[n] = i /\ n <= askSeq
      <3>1. PICK n \in DOMAIN Asked : Asked[n] = i /\ n <= askSeq BY <2>2
      <3>2. n \in Nat BY ConsoleAssumption, LenProperties
      <3>3. n <= askSeq' /\ n # askSeq' BY <1>1, <1>3, <3>1, <3>2
      <3> QED BY <3>1, <3>3 DEF Met
    <2> QED BY <2>1, <2>2 DEF Met
  <1> QED BY <1>2, <1>3

-----------------------------------------------------------------------------
(* Steps that leave the store's references alone.                           *)

StoreSame ==
    /\ UNCHANGED list
    /\ DOMAIN objects' = DOMAIN objects
    /\ \A o \in DOMAIN objects : /\ objects'[o].inv = objects[o].inv
                                 /\ objects'[o].approvalId = objects[o].approvalId
    /\ DOMAIN inbox' = DOMAIN inbox
    /\ \A a \in DOMAIN inbox : /\ inbox'[a].id = inbox[a].id
                               /\ inbox'[a].inv = inbox[a].inv

LEMMA StoreSameKeeps ==
    ASSUME IInv, IInv', SerialInv, StoreSame, \A i : Met(i) => Met(i)'
    PROVE  ListedOnce' /\ ApprovalsApart' /\ NumbersBelow' /\ MetInv' /\ LinkInv'
  <1>1. \A k \in DOMAIN list : list[k] \in DOMAIN objects BY DEF IInv, ListInv
  <1>2. ListedOnce' BY <1>1 DEF SerialInv, ListedOnce, StoreSame
  <1>3. ApprovalsApart' BY DEF SerialInv, ApprovalsApart, StoreSame
  <1>4. Len(inbox') = Len(inbox)
    <2>1. /\ DOMAIN inbox = 1..Len(inbox) /\ Len(inbox) \in Nat
          /\ DOMAIN inbox' = 1..Len(inbox') /\ Len(inbox') \in Nat
      BY LenProperties DEF IInv, SeqInv
    <2> QED BY <2>1 DEF StoreSame
  <1>5. NumbersBelow' BY <1>4 DEF SerialInv, NumbersBelow, StoreSame
  <1>6. MetInv'
    <2>1. ASSUME NEW o \in DOMAIN objects' PROVE Met(objects[o].inv)'
      <3>1. PICK i : i = objects[o].inv OBVIOUS
      <3>2. Met(i)' BY <3>1 DEF SerialInv, MetInv, StoreSame
      <3> QED BY <3>1, <3>2 DEF StoreSame, Met
    <2>2. ASSUME NEW a \in DOMAIN inbox' PROVE Met(inbox[a].inv)'
      <3>1. PICK i : i = inbox[a].inv OBVIOUS
      <3>2. Met(i)' BY <3>1 DEF SerialInv, MetInv, StoreSame
      <3> QED BY <3>1, <3>2 DEF StoreSame, Met
    <2> QED BY <2>1, <2>2 DEF MetInv
  <1>7. ASSUME NEW k \in DOMAIN list'
        PROVE  Linked(objects[list[k]].inv, objects[list[k]].approvalId)'
    <2>1. k \in DOMAIN list /\ list[k] \in DOMAIN objects BY <1>1 DEF StoreSame
    <2>2. Linked(objects[list[k]].inv, objects[list[k]].approvalId)
      BY <2>1 DEF SerialInv, LinkInv
    <2> QED BY <2>1, <2>2 DEF Linked, HasApproval, StoreSame
  <1>8. LinkInv' BY <1>7 DEF LinkInv
  <1> QED BY <1>2, <1>3, <1>5, <1>6, <1>8

LEMMA AcceptSerial ==
    ASSUME IInv, IInv', SerialInv, Quiet, StoreSame, NEW r, req' = Append(req, r),
           Held(r)', (askSeq' = askSeq /\ r.pc # "ask") \/ askSeq' = askSeq + 1
    PROVE  SerialInv'
  <1>1. Alone' /\ HeldInv' /\ (Asking' => r.pc = "ask") BY AcceptAlone
  <1>2. \A i : Met(i) => Met(i)' BY <1>1, MetStable
  <1> QED BY <1>1, <1>2, StoreSameKeeps DEF SerialInv

LEMMA GoSerial ==
    ASSUME IInv, IInv', SerialInv, StoreSame, NEW t \in DOMAIN req, req[t].pc # "served",
           NEW r, req' = [req EXCEPT ![t] = r], r.pc # "ask", Held(r)', askSeq' = askSeq
    PROVE  SerialInv'
  <1>1. Alone' /\ HeldInv' /\ ~Asking' BY GoAlone DEF SerialInv
  <1>2. \A i : Met(i) => Met(i)' BY <1>1, MetStable
  <1> QED BY <1>1, <1>2, StoreSameKeeps DEF SerialInv

LEMMA FinishSerial ==
    ASSUME IInv, IInv', SerialInv, StoreSame, NEW t \in DOMAIN req, req[t].pc # "served",
           Finish(t), askSeq' = askSeq
    PROVE  SerialInv'
  BY ServedHeld, GoSerial DEF Finish, Go, Served

\* An approval that changes keeps its id and its investigation.
LEMMA SameApproval ==
    ASSUME IInv, NEW a \in DOMAIN inbox, NEW p, inbox' = [inbox EXCEPT ![a] = p],
           p.id = inbox[a].id, p.inv = inbox[a].inv, UNCHANGED <<objects, list>>
    PROVE  StoreSame
  BY DEF StoreSame

-----------------------------------------------------------------------------
(* Requests are accepted when no other one is under way.                    *)

LEMMA OpenSerial ==
    ASSUME IInv, IInv', SerialInv, Quiet, NEW i, GetInvestigation(i) \/ RunAgent(i)
    PROVE  SerialInv'
  <1>1. PICK o : o = Current(i) OBVIOUS
  <1>2. /\ o # 0
        /\ \E kind \in {"open", "run"} :
              /\ StartAgent(kind, o)
              /\ kind = "open" => objects[o].status \notin PostApproval
    BY <1>1 DEF GetInvestigation, RunAgent
  <1>3. PICK kind \in {"open", "run"} :
              /\ StartAgent(kind, o)
              /\ kind = "open" => objects[o].status \notin PostApproval
    BY <1>2
  <1>4. InList(o) BY <1>1, <1>2, PositionSpec DEF InList
  <1>5. PICK r : r = [Served EXCEPT !.pc = "agent", !.kind = kind, !.obj = o] OBVIOUS
  <1>6. r.pc = "agent" /\ r.kind = kind /\ r.obj = o BY <1>5 DEF Served
  <1>7. req' = Append(req, r) /\ StoreSame /\ UNCHANGED <<objects, list, askSeq>>
    BY <1>3, <1>5 DEF StartAgent, Accept, StoreSame, lifeVars
  <1>8. Held(r)' BY <1>3, <1>4, <1>6, <1>7 DEF Held, InList, Opened
  <1> QED BY <1>6, <1>7, <1>8, AcceptSerial

LEMMA AskQuestionSerial == ASSUME IInv, IInv', SerialInv, Quiet, AskQuestion PROVE SerialInv'
  <1>1. PICK r : r = [Served EXCEPT !.pc = "ask"] OBVIOUS
  <1>2. req' = Append(req, r) /\ StoreSame /\ askSeq' = askSeq + 1
    BY <1>1 DEF AskQuestion, Accept, StoreSame
  <1>3. Held(r)' BY <1>1 DEF Served, Held
  <1> QED BY <1>2, <1>3, AcceptSerial

LEMMA DecideSerial ==
    ASSUME IInv, IInv', SerialInv, Quiet, NEW id,
           Approve(id) \/ \E decision \in Refusals : Refuse(id, decision)
    PROVE  SerialInv'
  <1>1. PICK a : a = ById(id) OBVIOUS
  <1>2. a \in DOMAIN inbox BY <1>1, ByIdSpec DEF Approve, Refuse, IInv
  <1>3. inbox[a] \in ApprovalRecord BY <1>2, ApprovalType
  <1>4. UNCHANGED <<objects, list, askSeq>> BY DEF Approve, Refuse, lifeVars
  <1>5. CASE Approve(id)
    <2>1. PICK p : p = [inbox[a] EXCEPT !.status = "approved"] OBVIOUS
    <2>2. p.id = inbox[a].id /\ p.inv = inbox[a].inv BY <1>3, <2>1 DEF ApprovalRecord
    <2>3. inbox' = [inbox EXCEPT ![a] = p] BY <1>1, <1>5, <2>1 DEF Approve
    <2>4. StoreSame BY <1>2, <1>4, <2>2, <2>3, SameApproval
    <2>5. PICK o : o = Current(inbox[a].inv) OBVIOUS
    <2>6. PICK r : r = IF o = 0 THEN Served
                       ELSE [Served EXCEPT !.pc = StageStep(a), !.obj = o, !.ap = a]
      OBVIOUS
    <2>7. req' = Append(req, r) BY <1>1, <1>5, <2>5, <2>6 DEF Approve, Accept
    <2>8. r.pc \in {"served", "mr", "dag"} BY <2>6 DEF Served, StageStep
    <2>9. Held(r)' BY <2>8 DEF Held
    <2> QED BY <1>4, <2>4, <2>7, <2>8, <2>9, AcceptSerial
  <1>6. CASE \E decision \in Refusals : Refuse(id, decision)
    <2>1. PICK decision \in Refusals : Refuse(id, decision) BY <1>6
    <2>2. PICK p : p = [inbox[a] EXCEPT !.status = decision, !.zero = FALSE] OBVIOUS
    <2>3. p.id = inbox[a].id /\ p.inv = inbox[a].inv BY <1>3, <2>2 DEF ApprovalRecord
    <2>4. inbox' = [inbox EXCEPT ![a] = p] BY <1>1, <1>2, <2>1, <2>2 DEF Refuse
    <2>5. StoreSame BY <1>2, <1>4, <2>3, <2>4, SameApproval
    <2>6. req' = Append(req, Served) /\ Served.pc # "ask" BY <2>1 DEF Refuse, Accept, Served
    <2> QED BY <1>4, <2>5, <2>6, ServedHeld, AcceptSerial
  <1> QED BY <1>5, <1>6

LEMMA RefreshSerial ==
    ASSUME IInv, IInv', SerialInv, Quiet, NEW a \in DOMAIN inbox, RefreshMerge(a)
    PROVE  SerialInv'
  <1>1. PICK r : r = [Served EXCEPT !.pc = "poll", !.ap = a, !.mr = inbox[a].mr] OBVIOUS
  <1>2. req' = Append(req, r) /\ StoreSame /\ askSeq' = askSeq
    BY <1>1 DEF RefreshMerge, Accept, StoreSame, lifeVars
  <1>3. r.pc = "poll" BY <1>1 DEF Served
  <1>4. Held(r)' BY <1>3 DEF Held
  <1> QED BY <1>2, <1>3, <1>4, AcceptSerial

\* What happens outside changes no request and nothing it found.
LEMMA OutsideSerial ==
    ASSUME IInv, IInv', SerialInv, UNCHANGED <<objects, list, inbox, req, askSeq>>
    PROVE  SerialInv'
  <1>1. Alone' BY DEF SerialInv, Alone
  <1>2. Asking' => Asking BY DEF Asking
  <1>3. \A i : Met(i) => Met(i)' BY <1>2, MetStable
  <1>4. StoreSame BY DEF StoreSame
  <1>5. HeldInv' BY DEF SerialInv, HeldInv, Held, InList, Opened, HasRerun
  <1> QED BY <1>1, <1>3, <1>4, <1>5, StoreSameKeeps DEF SerialInv

-----------------------------------------------------------------------------
(* The request under way goes on: steps that leave the references alone.    *)

LEMMA AnswersSerial ==
    ASSUME IInv, IInv', SerialInv, NEW t \in DOMAIN req,
           AgentFails(t) \/ DispatchDag(t) \/ GitlabAnswers(t)
    PROVE  SerialInv'
  <1>1. UNCHANGED <<objects, list, askSeq>> /\ req[t].pc \in {"agent", "dag", "poll"}
    BY DEF AgentFails, DispatchDag, GitlabAnswers, At, lifeVars
  <1>2. CASE AgentFails(t)
    <2>1. StoreSame /\ Finish(t) BY <1>2 DEF AgentFails, StoreSame
    <2> QED BY <1>1, <2>1, FinishSerial
  <1>3. CASE DispatchDag(t)
    <2>1. PICK zero \in BOOLEAN : Go(t, [req[t] EXCEPT !.pc = "memory", !.zero = zero])
      BY <1>3 DEF DispatchDag
    <2>2. PICK r : r = [req[t] EXCEPT !.pc = "memory", !.zero = zero] OBVIOUS
    <2>3. r.pc = "memory" BY <2>2, Serving DEF Request
    <2>4. Held(r)' BY <2>3 DEF Held
    <2>5. StoreSame BY <1>3 DEF DispatchDag, StoreSame
    <2>6. req' = [req EXCEPT ![t] = r] BY <2>1, <2>2 DEF Go
    <2> QED BY <1>1, <2>3, <2>4, <2>5, <2>6, GoSerial
  <1>4. CASE GitlabAnswers(t)
    <2>1. StoreSame
      <3>1. CASE UNCHANGED inbox BY <1>1, <3>1 DEF StoreSame
      <3>2. CASE inbox' = [inbox EXCEPT ![req[t].ap].merged = TRUE]
        <4>1. PICK a : a = req[t].ap OBVIOUS
        <4>2. a \in DOMAIN inbox BY <1>4, <4>1, Serving DEF GitlabAnswers, At, GoodRequest
        <4>3. PICK p : p = [inbox[a] EXCEPT !.merged = TRUE] OBVIOUS
        <4>4. p.id = inbox[a].id /\ p.inv = inbox[a].inv
          BY <4>2, <4>3, ApprovalType DEF ApprovalRecord
        <4>5. inbox' = [inbox EXCEPT ![a] = p] BY <3>2, <4>1, <4>3
        <4> QED BY <1>1, <4>2, <4>4, <4>5, SameApproval
      <3> QED BY <1>4, <3>1, <3>2 DEF GitlabAnswers
    <2>2. Finish(t) BY <1>4 DEF GitlabAnswers
    <2> QED BY <1>1, <2>1, <2>2, FinishSerial
  <1> QED BY <1>2, <1>3, <1>4

LEMMA DispatchMrSerial ==
    ASSUME IInv, IInv', SerialInv, NEW t \in DOMAIN req, DispatchMr(t)
    PROVE  SerialInv'
  <1>1. req[t] \in Request /\ req[t].pc = "mr" BY Serving DEF DispatchMr, At
  <1>2. PICK i : i = objects[req[t].obj].inv OBVIOUS
  <1>3. PICK mr : Go(t, [req[t] EXCEPT !.pc = IF RerunMissing(i) THEN "spawn" ELSE "record",
                                       !.mr = mr])
    BY <1>2 DEF DispatchMr
  <1>4. PICK r : r = [req[t] EXCEPT !.pc = IF RerunMissing(i) THEN "spawn" ELSE "record",
                                    !.mr = mr]
    OBVIOUS
  <1>5. /\ r.pc \in {"spawn", "record"} /\ r.obj = req[t].obj
        /\ r.pc = "spawn" => RerunMissing(i)
    BY <1>1, <1>4 DEF Request
  <1>6. RerunMissing(i) => ~HasRerun(i) BY ByIdSpec DEF RerunMissing, HasRerun, IInv
  <1>7. StoreSame /\ UNCHANGED <<objects, inbox, askSeq>> BY DEF DispatchMr, StoreSame, lifeVars
  <1>8. Held(r)' BY <1>2, <1>5, <1>6, <1>7 DEF Held, HasRerun
  <1>9. req' = [req EXCEPT ![t] = r] BY <1>3, <1>4 DEF Go
  <1> QED BY <1>1, <1>5, <1>7, <1>8, <1>9, GoSerial

LEMMA ResolveSerial ==
    ASSUME IInv, IInv', SerialInv, NEW t \in DOMAIN req, Resolve(t)
    PROVE  SerialInv'
  <1>1. GoodRequest(req[t]) /\ req[t].pc = "memory" BY Serving DEF Resolve, At
  <1>2. PICK o, a : o = req[t].obj /\ a = req[t].ap OBVIOUS
  <1>3. o \in DOMAIN objects /\ a \in DOMAIN inbox BY <1>1, <1>2 DEF GoodRequest, Acting
  <1>4. PICK p, e : /\ p = [inbox[a] EXCEPT !.zero = req[t].zero]
                    /\ e = [objects[o] EXCEPT !.status = "resolved"]
    OBVIOUS
  <1>5. p.id = inbox[a].id /\ p.inv = inbox[a].inv
    BY <1>3, <1>4, ApprovalType DEF ApprovalRecord
  <1>6. e.inv = objects[o].inv /\ e.approvalId = objects[o].approvalId
    BY <1>3, <1>4, ObjectType DEF Object
  <1>7. /\ inbox' = [inbox EXCEPT ![a] = p] /\ objects' = [objects EXCEPT ![o] = e]
        /\ UNCHANGED <<list, askSeq>> /\ Finish(t)
    BY <1>2, <1>4 DEF Resolve, lifeVars
  <1>8. StoreSame BY <1>3, <1>5, <1>6, <1>7 DEF StoreSame
  <1> QED BY <1>1, <1>7, <1>8, FinishSerial

-----------------------------------------------------------------------------
(* Steps that build, place and link objects and approvals.                  *)

\* Whom the objects and the approvals after a step are about.
MetStep ==
    /\ \A o \in DOMAIN objects' :
          \/ \E p \in DOMAIN objects : objects'[o].inv = objects[p].inv
          \/ Met(objects[o].inv)'
    /\ \A a \in DOMAIN inbox' :
          \/ \E b \in DOMAIN inbox : inbox'[a].inv = inbox[b].inv
          \/ \E p \in DOMAIN objects : inbox'[a].inv = objects[p].inv

LEMMA MetKept ==
    ASSUME MetInv, MetStep, \A i : Met(i) => Met(i)'
    PROVE  MetInv'
  <1>1. ASSUME NEW o \in DOMAIN objects' PROVE Met(objects[o].inv)'
    <2>1. CASE \E p \in DOMAIN objects : objects'[o].inv = objects[p].inv
      <3>1. PICK i : Met(i) /\ objects'[o].inv = i BY <2>1 DEF MetInv
      <3>2. Met(i)' BY <3>1
      <3> QED BY <3>1, <3>2 DEF Met
    <2> QED BY <2>1 DEF MetStep
  <1>2. ASSUME NEW a \in DOMAIN inbox' PROVE Met(inbox[a].inv)'
    <2>1. PICK i : Met(i) /\ inbox'[a].inv = i BY DEF MetInv, MetStep
    <2>2. Met(i)' BY <2>1
    <2> QED BY <2>1, <2>2 DEF Met
  <1> QED BY <1>1, <1>2 DEF MetInv

LEMMA GoStore ==
    ASSUME IInv, SerialInv, NEW t \in DOMAIN req, req[t].pc # "served",
           NEW r, req' = [req EXCEPT ![t] = r], r.pc # "ask", Held(r)', askSeq' = askSeq,
           ListedOnce', ApprovalsApart', NumbersBelow', LinkInv', MetStep
    PROVE  SerialInv'
  <1>1. Alone' /\ HeldInv' /\ ~Asking' BY GoAlone DEF SerialInv
  <1>2. \A i : Met(i) => Met(i)' BY <1>1, MetStable
  <1> QED BY <1>1, <1>2, MetKept DEF SerialInv

\* What an investigation in the list has got is seen in the state that follows.
LEMMA ListedObjects == ASSUME IInv PROVE \A k \in DOMAIN list : list[k] \in DOMAIN objects
  BY DEF IInv, ListInv

\* The new object has the identity and the approval of the one it will replace.
LEMMA AgentReturnsSerial ==
    ASSUME IInv, IInv', SerialInv, NEW t \in DOMAIN req, AgentReturns(t)
    PROVE  SerialInv'
  <1>1. req[t] \in Request /\ GoodRequest(req[t]) /\ req[t].pc = "agent" /\ Held(req[t])
    BY Serving DEF AgentReturns, At, SerialInv, HeldInv
  <1>2. PICK b : b = req[t].obj OBVIOUS
  <1>3. b \in DOMAIN objects /\ InList(b) /\ Opened(req[t], b)
    BY <1>1, <1>2 DEF GoodRequest, Held
  <1>4. PICK old : old = objects[b] OBVIOUS
  <1>5. PICK o \in ConsoleOutcomes, metric \in ClassifiedAs(old.metric) :
            objects' = Append(objects,
                [inv |-> old.inv, metric |-> metric, status |-> NormalStatus(o),
                 agentRun |-> TRUE, validated |-> o.validated,
                 approvalId |-> old.approvalId])
    BY <1>2, <1>4 DEF AgentReturns
  <1>6. PICK e : e = [inv |-> old.inv, metric |-> metric, status |-> NormalStatus(o),
                      agentRun |-> TRUE, validated |-> o.validated,
                      approvalId |-> old.approvalId]
    OBVIOUS
  <1>7. e.inv = old.inv /\ e.approvalId = old.approvalId BY <1>6
  <1>8. objects' = Append(objects, e) BY <1>5, <1>6
  <1>9. /\ DOMAIN objects' = DOMAIN objects \cup {Len(objects) + 1}
        /\ \A p \in DOMAIN objects : objects'[p] = objects[p]
        /\ objects'[Len(objects) + 1] = e
    BY <1>8, AppendAny DEF IInv, SeqInv
  <1>10. UNCHANGED <<list, inbox, askSeq>> BY DEF AgentReturns, lifeVars
  <1>11. PICK r : r = [req[t] EXCEPT !.pc = "replace", !.new = Len(objects) + 1,
                                     !.idx = Position(old.inv)]
    OBVIOUS
  <1>12. /\ r.pc = "replace" /\ r.new = Len(objects) + 1 /\ r.idx = Position(old.inv)
         /\ r.kind = req[t].kind
    BY <1>1, <1>11 DEF Request
  <1>13. r.idx # 0 /\ r.idx \in DOMAIN list /\ list[r.idx] = b
    <2>1. PICK k \in DOMAIN list : list[k] = b BY <1>3 DEF InList
    <2>2. r.idx # 0 BY <1>4, <1>12, <2>1, PositionSpec
    <2>3. r.idx \in DOMAIN list /\ objects[list[r.idx]].inv = old.inv
      BY <1>12, <2>2, PositionSpec
    <2> QED BY <1>4, <2>1, <2>2, <2>3 DEF SerialInv, ListedOnce
  <1>14. Held(r)'
    <2>1. objects'[r.new] = e /\ objects'[list[r.idx]] = old
      BY <1>3, <1>4, <1>9, <1>12, <1>13
    <2>2. Opened(r, b)' BY <1>3, <1>9, <1>12 DEF Opened
    <2> QED BY <1>7, <1>10, <1>12, <1>13, <2>1, <2>2 DEF Held, Opened
  <1>15. ListedOnce' BY <1>9, <1>10, ListedObjects DEF SerialInv, ListedOnce
  <1>16. ApprovalsApart' /\ NumbersBelow' BY <1>10 DEF SerialInv, ApprovalsApart, NumbersBelow
  <1>17. LinkInv'
    BY <1>9, <1>10, ListedObjects DEF SerialInv, LinkInv, Linked, HasApproval
  <1>18. MetStep BY <1>3, <1>4, <1>7, <1>9, <1>10 DEF MetStep
  <1>19. req' = [req EXCEPT ![t] = r] BY <1>2, <1>4, <1>11 DEF AgentReturns, Go
  <1> QED BY <1>1, <1>10, <1>12, <1>14, <1>15, <1>16, <1>17, <1>18, <1>19, GoStore

\* The new object takes the place of the one it was computed for, and is linked as
\* that was, or to an approval that is found for it.
LEMMA ReplaceSerial ==
    ASSUME IInv, IInv', SerialInv, NEW t \in DOMAIN req, Replace(t)
    PROVE  SerialInv'
  <1>1. req[t] \in Request /\ GoodRequest(req[t]) /\ req[t].pc = "replace" /\ Held(req[t])
    BY Serving DEF Replace, At, SerialInv, HeldInv
  <1>2. PICK new, k : new = req[t].new /\ k = req[t].idx OBVIOUS
  <1>3. /\ new \in DOMAIN objects /\ k \in DOMAIN list /\ k # 0
        /\ objects[new].inv = objects[list[k]].inv
        /\ objects[new].approvalId = objects[list[k]].approvalId
    BY <1>1, <1>2 DEF GoodRequest, Held
  <1>4. list' = [list EXCEPT ![k] = new] /\ UNCHANGED <<inbox, askSeq>>
    BY <1>2, <1>3 DEF Replace, lifeVars
  <1>5. PICK first : first = FirstFor(objects[new].inv) OBVIOUS
  <1>6. \/ UNCHANGED objects
        \/ first # 0 /\ objects' = [objects EXCEPT ![new].approvalId = inbox[first].id]
    BY <1>2, <1>5 DEF Replace
  <1>7. first # 0 => first \in DOMAIN inbox /\ inbox[first].inv = objects[new].inv
    BY <1>5, FirstForSpec DEF IInv
  <1>8. /\ DOMAIN objects' = DOMAIN objects
        /\ \A o \in DOMAIN objects :
              /\ objects'[o].inv = objects[o].inv
              /\ \/ objects'[o].approvalId = objects[o].approvalId
                 \/ o = new /\ first # 0 /\ objects'[o].approvalId = inbox[first].id
    <2>1. CASE UNCHANGED objects BY <2>1
    <2>2. CASE first # 0 /\ objects' = [objects EXCEPT ![new].approvalId = inbox[first].id]
      <3>1. PICK e : e = [objects[new] EXCEPT !.approvalId = inbox[first].id] OBVIOUS
      <3>2. e.inv = objects[new].inv /\ e.approvalId = inbox[first].id
        BY <1>3, <3>1, ObjectType DEF Object
      <3>3. objects' = [objects EXCEPT ![new] = e] BY <2>2, <3>1
      <3>4. /\ DOMAIN objects' = DOMAIN objects
            /\ \A o \in DOMAIN objects : objects'[o] = IF o = new THEN e ELSE objects[o]
        BY <3>3
      <3> QED BY <2>2, <3>2, <3>4
    <2> QED BY <1>6, <2>1, <2>2
  <1>9. \A j \in DOMAIN list' :
            /\ j \in DOMAIN list /\ list'[j] \in DOMAIN objects
            /\ objects'[list'[j]].inv = objects[list[j]].inv
            /\ \/ objects'[list'[j]].approvalId = objects[list[j]].approvalId
               \/ /\ first # 0 /\ objects[list[j]].inv = objects[new].inv
                  /\ objects'[list'[j]].approvalId = inbox[first].id
    BY <1>3, <1>4, <1>8, ListedObjects
  <1>10. ListedOnce' BY <1>9 DEF SerialInv, ListedOnce
  <1>11. ApprovalsApart' /\ NumbersBelow' BY <1>4 DEF SerialInv, ApprovalsApart, NumbersBelow
  <1>12. LinkInv'
    <2> SUFFICES ASSUME NEW j \in DOMAIN list'
                 PROVE  Linked(objects[list[j]].inv, objects[list[j]].approvalId)'
      BY DEF LinkInv
    <2>1. Linked(objects[list[j]].inv, objects[list[j]].approvalId)
      BY <1>9 DEF SerialInv, LinkInv
    <2> QED BY <1>4, <1>7, <1>9, <2>1 DEF Linked, HasApproval
  <1>13. MetStep BY <1>4, <1>8 DEF MetStep
  <1>14. CASE NeedsSync(objects[new])
    <2>1. PICK r : r = [req[t] EXCEPT !.pc = "append", !.id = SyncId(Len(inbox))] OBVIOUS
    <2>2. r.pc = "append" /\ r.new = new /\ r.id = SyncId(Len(inbox))
      BY <1>1, <1>2, <2>1 DEF Request
    <2>3. InList(new)' BY <1>3, <1>4 DEF InList
    <2>4. Held(r)' BY <1>4, <2>2, <2>3 DEF Held, InList
    <2>5. req' = [req EXCEPT ![t] = r] BY <1>2, <1>14, <2>1 DEF Replace, Go
    <2> QED BY <1>1, <1>4, <1>10, <1>11, <1>12, <1>13, <2>2, <2>4, <2>5, GoStore
  <1>15. CASE ~NeedsSync(objects[new])
    <2>1. req' = [req EXCEPT ![t] = Served] /\ Served.pc # "ask"
      BY <1>2, <1>15 DEF Replace, Finish, Go, Served
    <2> QED BY <1>1, <1>4, <1>10, <1>11, <1>12, <1>13, <2>1, ServedHeld, GoStore
  <1> QED BY <1>14, <1>15

\* The ids of the approvals before are not the one that was chosen.
LEMMA SyncAppendSerial ==
    ASSUME IInv, IInv', SerialInv, NEW t \in DOMAIN req, SyncAppend(t)
    PROVE  SerialInv'
  <1>1. req[t] \in Request /\ GoodRequest(req[t]) /\ req[t].pc = "append" /\ Held(req[t])
    BY Serving DEF SyncAppend, At, SerialInv, HeldInv
  <1>2. PICK new, i : new = req[t].new /\ i = objects[new].inv OBVIOUS
  <1>3. new \in DOMAIN objects /\ InList(new) /\ req[t].id = SyncId(Len(inbox))
    BY <1>1, <1>2 DEF GoodRequest, Held
  <1>4. PICK p : p = Approval(req[t].id, i, "fix", objects[new].validated) OBVIOUS
  <1>5. p.id = SyncId(Len(inbox)) /\ p.inv = i BY <1>3, <1>4 DEF Approval
  <1>6. inbox' = Append(inbox, p) BY <1>2, <1>4 DEF SyncAppend
  <1>7. /\ Len(inbox) \in Nat /\ Len(inbox') = Len(inbox) + 1
        /\ DOMAIN inbox' = DOMAIN inbox \cup {Len(inbox) + 1}
        /\ \A a \in DOMAIN inbox : inbox'[a] = inbox[a]
        /\ inbox'[Len(inbox) + 1] = p
    <2>1. inbox \in Seq(ApprovalRecord) BY DEF IInv, SeqInv
    <2> QED BY ONLY <1>6, <2>1, AppendAny
  <1>8. \A m, n \in Nat : SyncId(m) = SyncId(n) => m = n BY DEF SyncId
  <1>9. \A a \in DOMAIN inbox : inbox[a].id # p.id
    BY <1>5, <1>7 DEF SerialInv, NumbersBelow
  <1>10. ApprovalsApart' BY <1>7, <1>9 DEF SerialInv, ApprovalsApart
  <1>11. NumbersBelow'
    <2> SUFFICES ASSUME NEW a \in DOMAIN inbox', NEW n \in Nat, inbox'[a].id = SyncId(n)
                 PROVE  n < Len(inbox')
      BY DEF NumbersBelow
    <2>1. CASE a \in DOMAIN inbox
      <3>1. n < Len(inbox) BY <1>7, <2>1 DEF SerialInv, NumbersBelow
      <3> QED BY <1>7, <3>1
    <2>2. CASE a = Len(inbox) + 1
      <3>1. n = Len(inbox) BY <1>5, <1>7, <1>8, <2>2
      <3> QED BY <1>7, <3>1
    <2> QED BY <1>7, <2>1, <2>2
  <1>12. UNCHANGED <<list, askSeq>> /\ objects' = [objects EXCEPT ![new].approvalId = p.id]
    BY <1>2, <1>3, <1>5 DEF SyncAppend, lifeVars
  <1>13. /\ DOMAIN objects' = DOMAIN objects
         /\ \A o \in DOMAIN objects : objects'[o].inv = objects[o].inv
         /\ \A o \in DOMAIN objects : o # new => objects'[o] = objects[o]
         /\ objects'[new].approvalId = p.id
    BY <1>3, <1>12, ObjectType DEF Object
  <1>14. ListedOnce' BY <1>12, <1>13, ListedObjects DEF SerialInv, ListedOnce
  <1>15. LinkInv'
    <2> SUFFICES ASSUME NEW k \in DOMAIN list'
                 PROVE  Linked(objects[list[k]].inv, objects[list[k]].approvalId)'
      BY DEF LinkInv
    <2>1. k \in DOMAIN list /\ list[k] \in DOMAIN objects BY <1>12, ListedObjects
    <2>2. CASE list[k] = new
      <3>1. list'[k] = new /\ objects'[new].inv = i /\ objects'[new].approvalId = p.id
        BY <1>2, <1>3, <1>12, <1>13, <2>2
      <3>2. \E a \in DOMAIN inbox' : inbox'[a].id = p.id /\ inbox'[a].inv = i
        BY <1>5, <1>7
      <3> QED BY <3>1, <3>2 DEF Linked
    <2>3. CASE list[k] # new
      <3>1. objects[list[k]].inv # i
        BY <1>2, <1>3, <2>1, <2>3 DEF InList, SerialInv, ListedOnce
      <3>2. Linked(objects[list[k]].inv, objects[list[k]].approvalId)
        BY <2>1 DEF SerialInv, LinkInv
      <3> QED BY <1>5, <1>7, <1>12, <1>13, <2>1, <2>3, <3>1, <3>2 DEF Linked, HasApproval
    <2> QED BY <2>2, <2>3
  <1>16. MetStep BY <1>2, <1>3, <1>5, <1>7, <1>13 DEF MetStep
  <1>17. req' = [req EXCEPT ![t] = Served] /\ Served.pc # "ask"
    BY DEF SyncAppend, Finish, Go, Served
  <1> QED BY <1>1, <1>10, <1>11, <1>12, <1>14, <1>15, <1>16, <1>17, ServedHeld, GoStore

\* The re-run approval is spawned when there is none, for an investigation that has
\* an approval already: its link leads to one as before.
LEMMA RecordMrSerial ==
    ASSUME IInv, IInv', SerialInv, NEW t \in DOMAIN req, RecordMr(t)
    PROVE  SerialInv'
  <1>1. /\ req[t] \in Request /\ GoodRequest(req[t]) /\ Held(req[t])
        /\ req[t].pc \in {"spawn", "record"}
    BY Serving DEF RecordMr, At, SerialInv, HeldInv
  <1>2. PICK o, a : o = req[t].obj /\ a = req[t].ap OBVIOUS
  <1>3. o \in DOMAIN objects /\ a \in DOMAIN inbox /\ objects[o].inv = inbox[a].inv
    BY <1>1, <1>2 DEF GoodRequest, Acting
  <1>4. PICK i : i = objects[o].inv OBVIOUS
  <1>5. UNCHANGED <<list, askSeq>> BY DEF RecordMr, lifeVars
  <1>6. /\ DOMAIN objects' = DOMAIN objects
        /\ \A p \in DOMAIN objects : /\ objects'[p].inv = objects[p].inv
                                     /\ objects'[p].approvalId = objects[p].approvalId
    <2>1. PICK e : e = [objects[o] EXCEPT !.status = "awaiting_rerun"] OBVIOUS
    <2>2. e.inv = objects[o].inv /\ e.approvalId = objects[o].approvalId
      BY <1>3, <2>1, ObjectType DEF Object
    <2>3. objects' = [objects EXCEPT ![o] = e] BY <1>2, <2>1 DEF RecordMr
    <2> QED BY <2>2, <2>3
  <1>7. PICK p : p = [inbox[a] EXCEPT !.mr = req[t].mr] OBVIOUS
  <1>8. p.id = inbox[a].id /\ p.inv = inbox[a].inv
    BY <1>3, <1>7, ApprovalType DEF ApprovalRecord
  <1>9. PICK recorded : recorded = [inbox EXCEPT ![a] = p] OBVIOUS
  <1>10. recorded = [inbox EXCEPT ![req[t].ap].mr = req[t].mr] BY <1>2, <1>7, <1>9
  <1>11. /\ DOMAIN recorded = DOMAIN inbox
         /\ \A b \in DOMAIN inbox : recorded[b] = IF b = a THEN p ELSE inbox[b]
    BY <1>9
  <1>12. req' = [req EXCEPT ![t] = Served] /\ Served.pc # "ask"
    BY DEF RecordMr, Finish, Go, Served
  <1>13. CASE req[t].pc = "record"
    <2>1. inbox' = recorded BY <1>10, <1>13 DEF RecordMr, At
    <2>2. StoreSame BY <1>5, <1>6, <1>8, <1>11, <2>1 DEF StoreSame
    <2> QED BY <1>1, <1>5, <1>12, <2>2, ServedHeld, GoSerial
  <1>14. CASE req[t].pc = "spawn"
    <2>1. PICK q : q = Approval(RerunId(i), i, "rerun", FALSE) OBVIOUS
    <2>2. q.id = RerunId(i) /\ q.inv = i BY <2>1 DEF Approval
    <2>3. inbox' = Append(recorded, q) BY <1>2, <1>4, <1>10, <1>14, <2>1 DEF RecordMr, At
    <2>4. /\ Len(inbox) \in Nat /\ Len(inbox') = Len(inbox) + 1
          /\ DOMAIN inbox' = DOMAIN inbox \cup {Len(inbox) + 1}
          /\ Len(inbox) + 1 \notin DOMAIN inbox
          /\ \A b \in DOMAIN inbox : inbox'[b] = recorded[b]
          /\ inbox'[Len(inbox) + 1] = q
      <3>1. recorded \in Seq(ApprovalRecord \cup {p}) /\ Len(recorded) = Len(inbox)
        <4>1. inbox \in Seq(ApprovalRecord \cup {p}) BY DEF IInv, SeqInv
        <4> QED BY ONLY <4>1, <1>3, <1>9, ExceptAt, ExceptSeq, LenProperties
      <3> QED BY ONLY <2>3, <3>1, <1>11, AppendAny
    <2>5. \A b \in DOMAIN inbox :
              inbox'[b].id = inbox[b].id /\ inbox'[b].inv = inbox[b].inv
      BY <1>8, <1>11, <2>4
    <2>6. \A b \in DOMAIN inbox : inbox[b].id # RerunId(i)
      BY <1>1, <1>2, <1>4, <1>14 DEF Held, HasRerun
    <2>7. ApprovalsApart' BY <2>2, <2>4, <2>5, <2>6 DEF SerialInv, ApprovalsApart
    <2>8. NumbersBelow'
      <3> SUFFICES ASSUME NEW b \in DOMAIN inbox', NEW n \in Nat, inbox'[b].id = SyncId(n)
                   PROVE  n < Len(inbox')
        BY DEF NumbersBelow
      <3>1. RerunId(i)[1] = "rerun" /\ SyncId(n)[1] = "ap" BY DEF RerunId, SyncId
      <3>2. b \in DOMAIN inbox BY <2>2, <2>4, <3>1
      <3>3. n < Len(inbox) BY <2>5, <3>2 DEF SerialInv, NumbersBelow
      <3> QED BY <2>4, <3>3
    <2>9. ListedOnce' BY <1>5, <1>6, ListedObjects DEF SerialInv, ListedOnce
    <2>10. LinkInv'
      <3> SUFFICES ASSUME NEW k \in DOMAIN list'
                   PROVE  Linked(objects[list[k]].inv, objects[list[k]].approvalId)'
        BY DEF LinkInv
      <3>1. k \in DOMAIN list /\ list[k] \in DOMAIN objects BY <1>5, ListedObjects
      <3>2. Linked(objects[list[k]].inv, objects[list[k]].approvalId)
        BY <3>1 DEF SerialInv, LinkInv
      <3>3. HasApproval(objects[list[k]].inv)' => HasApproval(objects[list[k]].inv)
        BY <1>3, <1>4, <1>5, <1>6, <2>2, <2>4, <2>5, <3>1 DEF HasApproval
      <3> QED BY <1>5, <1>6, <2>4, <2>5, <3>1, <3>2, <3>3 DEF Linked
    <2>11. MetStep
      <3>1. \A b \in DOMAIN inbox' :
                \/ \E c \in DOMAIN inbox : inbox'[b].inv = inbox[c].inv
                \/ \E d \in DOMAIN objects : inbox'[b].inv = objects[d].inv
        BY <1>3, <1>4, <2>2, <2>4, <2>5
      <3> QED BY <1>6, <3>1 DEF MetStep
    <2> QED BY <1>1, <1>5, <1>12, <2>7, <2>8, <2>9, <2>10, <2>11, ServedHeld, GoStore
  <1> QED BY <1>1, <1>13, <1>14

\* The number taken is a new one, so the question is an investigation of its own.
LEMMA InsertQuestionSerial ==
    ASSUME IInv, IInv', SerialInv, NEW t \in DOMAIN req, InsertQuestion(t)
    PROVE  SerialInv'
  <1>1. GoodRequest(req[t]) /\ req[t].pc = "ask" /\ Asking
    BY Serving DEF InsertQuestion, At, Asking
  <1>2. /\ askSeq \in Nat /\ askSeq \in DOMAIN Asked
        /\ DOMAIN Asked = 1..Len(Asked) /\ Len(Asked) \in Nat
    <2>1. askSeq \in 0..Len(Asked) /\ askSeq # 0 BY <1>1 DEF IInv, SeqInv, GoodRequest
    <2>2. Len(Asked) \in Nat /\ DOMAIN Asked = 1..Len(Asked)
      BY ConsoleAssumption, LenProperties
    <2> QED BY <2>1, <2>2
  <1>3. PICK i : i = Asked[askSeq] OBVIOUS
  <1>4. ~Met(i)
    <2>1. i \notin SeededSet BY <1>2, <1>3, ConsoleAssumption DEF AskedSet
    <2>2. \A n \in DOMAIN Asked : Asked[n] = i => n = askSeq
      BY <1>2, <1>3, ConsoleAssumption
    <2> QED BY <1>1, <2>1, <2>2 DEF Met
  <1>5. \A o \in DOMAIN objects : objects[o].inv # i BY <1>4 DEF SerialInv, MetInv
  <1>6. \A a \in DOMAIN inbox : inbox[a].inv # i BY <1>4 DEF SerialInv, MetInv
  <1>7. UNCHANGED <<inbox, askSeq>> /\ req' = [req EXCEPT ![t] = Served] /\ Served.pc # "ask"
    BY DEF InsertQuestion, Finish, Go, Served, lifeVars
  <1>8. PICK new : new = Len(objects) + 1 OBVIOUS
  <1>9. /\ DOMAIN objects' = DOMAIN objects \cup {new} /\ new \notin DOMAIN objects
        /\ \A o \in DOMAIN objects : objects'[o] = objects[o]
        /\ objects'[new].inv = i /\ new \in Nat
    <2>1. PICK status \in {"needs_approval", "running"} :
              objects' = Append(objects, Investigation(i, status))
      BY <1>3 DEF InsertQuestion
    <2>2. PICK e : e = Investigation(i, status) OBVIOUS
    <2>3. e.inv = i BY <2>2 DEF Investigation
    <2>4. objects' = Append(objects, e) /\ objects \in Seq(Object)
      BY <2>1, <2>2 DEF IInv, SeqInv
    <2>5. /\ DOMAIN objects' = DOMAIN objects \cup {Len(objects) + 1}
          /\ Len(objects) \in Nat /\ Len(objects) + 1 \notin DOMAIN objects
          /\ \A o \in DOMAIN objects : objects'[o] = objects[o]
          /\ objects'[Len(objects) + 1] = e
      BY ONLY <2>4, AppendAny
    <2> QED BY <1>8, <2>3, <2>5
  <1>10. /\ list'[1] = new
         /\ \A k \in DOMAIN list' : k # 1 => k - 1 \in DOMAIN list /\ list'[k] = list[k - 1]
         /\ DOMAIN list' \subseteq Nat
    <2>1. list' = <<new>> \o list BY <1>8 DEF InsertQuestion
    <2>2. list \in Seq(Nat) BY DEF IInv, SeqInv
    <2> QED BY ONLY <1>9, <2>1, <2>2, ConsExact
  <1>11. \A j, k \in DOMAIN list' :
             objects'[list'[j]].inv = objects'[list'[k]].inv => j = k
    <2>1. ASSUME NEW k \in DOMAIN list', k # 1
          PROVE  /\ k - 1 \in DOMAIN list /\ list'[k] = list[k - 1]
                 /\ objects'[list'[k]] = objects[list[k - 1]]
                 /\ objects'[list'[k]].inv # i
      BY <1>5, <1>9, <1>10, <2>1, ListedObjects
    <2>2. objects'[list'[1]].inv = i BY <1>9, <1>10
    <2> SUFFICES ASSUME NEW j \in DOMAIN list', NEW k \in DOMAIN list',
                        objects'[list'[j]].inv = objects'[list'[k]].inv
                 PROVE  j = k
      OBVIOUS
    <2>3. CASE j = 1 \/ k = 1 BY <2>1, <2>2, <2>3
    <2>4. CASE j # 1 /\ k # 1
      <3>1. j - 1 = k - 1 BY <2>1, <2>4 DEF SerialInv, ListedOnce
      <3> QED BY <1>10, <3>1
    <2> QED BY <2>3, <2>4
  <1>12. ListedOnce' BY <1>11 DEF ListedOnce
  <1>13. ApprovalsApart' /\ NumbersBelow' BY <1>7 DEF SerialInv, ApprovalsApart, NumbersBelow
  <1>14. LinkInv'
    <2> SUFFICES ASSUME NEW k \in DOMAIN list'
                 PROVE  Linked(objects[list[k]].inv, objects[list[k]].approvalId)'
      BY DEF LinkInv
    <2>1. CASE k = 1 BY <1>6, <1>7, <1>9, <1>10, <2>1 DEF Linked, HasApproval
    <2>2. CASE k # 1
      <3>1. k - 1 \in DOMAIN list /\ objects'[list'[k]] = objects[list[k - 1]]
        BY <1>9, <1>10, <2>2, ListedObjects
      <3>2. Linked(objects[list[k - 1]].inv, objects[list[k - 1]].approvalId)
        BY <3>1 DEF SerialInv, LinkInv
      <3> QED BY <1>7, <3>1, <3>2 DEF Linked, HasApproval
    <2> QED BY <2>1, <2>2
  <1>15. MetStep
    <2>1. ~Asking' BY <1>1, <1>7, ServedHeld, GoAlone DEF SerialInv
    <2>2. Met(i)' BY <1>2, <1>3, <1>7, <2>1 DEF Met
    <2>3. Met(objects[new].inv)' BY <1>9, <2>2 DEF Met
    <2> QED BY <1>7, <1>9, <2>3 DEF MetStep
  <1> QED BY <1>1, <1>7, <1>12, <1>13, <1>14, <1>15, ServedHeld, GoStore

-----------------------------------------------------------------------------
(* A new life, every step, and the invariant.                               *)

LEMMA SerialFresh == Fresh => SerialInv
  <1> SUFFICES ASSUME Fresh PROVE SerialInv OBVIOUS
  <1>1. /\ objects = SeedObjects /\ DOMAIN objects = DOMAIN Seeds
        /\ list = [k \in DOMAIN Seeds |-> k] /\ DOMAIN list = DOMAIN Seeds
        /\ inbox = SeedInbox /\ DOMAIN inbox = DOMAIN Fixable
    BY DEF Fresh, SeedObjects, SeedInbox
  <1>2. ASSUME NEW k \in DOMAIN Seeds
        PROVE  /\ objects[k].inv = Seeds[k]
               /\ Seeds[k] \in FixableSet => objects[k].approvalId = SeedId(Seeds[k])
    <2>1. CASE Seeds[k] \in FixableSet
      <3>1. PICK e : e = Investigation(Seeds[k], "needs_approval") OBVIOUS
      <3>2. objects[k] = [e EXCEPT !.approvalId = SeedId(Seeds[k])]
        BY <1>1, <2>1, <3>1 DEF SeedObjects
      <3> QED BY <3>1, <3>2 DEF Investigation
    <2>2. CASE Seeds[k] \notin FixableSet
      <3>1. objects[k] = Investigation(Seeds[k], SeedStatus[Seeds[k]])
        BY <1>1, <2>2 DEF SeedObjects
      <3> QED BY <2>2, <3>1 DEF Investigation
    <2> QED BY <2>1, <2>2
  <1>3. \A a \in DOMAIN Fixable : inbox[a].id = SeedId(Fixable[a]) /\ inbox[a].inv = Fixable[a]
    BY <1>1 DEF SeedInbox, Approval
  <1>4. \A t \in DOMAIN req : req[t].pc = "served" BY DEF Fresh, Served
  <1>5. Alone BY <1>4 DEF Alone
  <1>6. ListedOnce BY <1>1, <1>2, ConsoleAssumption DEF ListedOnce
  <1>7. ApprovalsApart
    <2>1. \A i, j : SeedId(i) = SeedId(j) => i = j BY DEF SeedId
    <2> QED BY <1>1, <1>3, <2>1, ConsoleAssumption DEF ApprovalsApart
  <1>8. NumbersBelow
    <2>1. \A i, n : SeedId(i)[1] = "seed" /\ SyncId(n)[1] = "ap" BY DEF SeedId, SyncId
    <2>2. \A i, n : SeedId(i) # SyncId(n)
      <3> SUFFICES ASSUME NEW i, NEW n, SeedId(i) = SyncId(n) PROVE FALSE OBVIOUS
      <3>1. SeedId(i)[1] = "seed" /\ SyncId(n)[1] = "ap" BY <2>1
      <3> QED BY <3>1
    <2> QED BY <1>1, <1>3, <2>2 DEF NumbersBelow
  <1>9. MetInv
    <2>1. \A k \in DOMAIN Seeds : Seeds[k] \in SeededSet BY DEF SeededSet
    <2>2. \A a \in DOMAIN Fixable : Fixable[a] \in SeededSet
      BY ConsoleAssumption, ElementOfSeq, LenProperties
    <2> QED BY <1>1, <1>2, <1>3, <2>1, <2>2 DEF MetInv, Met
  <1>10. LinkInv
    <2> SUFFICES ASSUME NEW k \in DOMAIN list, HasApproval(objects[list[k]].inv)
                 PROVE  \E a \in DOMAIN inbox : /\ inbox[a].id = objects[list[k]].approvalId
                                                /\ inbox[a].inv = objects[list[k]].inv
      BY DEF LinkInv, Linked
    <2>1. k \in DOMAIN Seeds /\ list[k] = k BY <1>1
    <2>2. PICK a \in DOMAIN Fixable : Fixable[a] = Seeds[k]
      BY <1>1, <1>2, <1>3, <2>1 DEF HasApproval
    <2>3. Seeds[k] \in FixableSet BY <2>2 DEF FixableSet
    <2> QED BY <1>1, <1>2, <1>3, <2>1, <2>2, <2>3
  <1>11. HeldInv BY <1>4 DEF HeldInv, Held
  <1> QED BY <1>5, <1>6, <1>7, <1>8, <1>9, <1>10, <1>11 DEF SerialInv

LEMMA SerialRestart == IInv /\ Restart => SerialInv'
  <1>1. IInv /\ Restart => Fresh' BY RestartFresh
  <1> QED BY <1>1, SerialFresh, PTL

\* A request is accepted when no other one is under way.
Waits == Len(req') > Len(req) => Quiet

LEMMA AcceptWaits == ASSUME IInv, Waits, NEW r, req' = Append(req, r) PROVE Quiet
  <1>1. req \in Seq(Request) BY DEF IInv, SeqInv
  <1>2. Len(req) \in Nat /\ Len(req') = Len(req) + 1 BY <1>1, AppendAny
  <1> QED BY <1>2 DEF Waits

LEMMA ProceedSerial ==
    ASSUME IInv, IInv', SerialInv, NEW t \in DOMAIN req, Proceed(t)
    PROVE  SerialInv'
  BY InsertQuestionSerial, AgentReturnsSerial, AnswersSerial, ReplaceSerial, SyncAppendSerial,
     DispatchMrSerial, RecordMrSerial, ResolveSerial DEF Proceed

LEMMA SerialStep ==
    ASSUME IInv, IInv', SerialInv, [Next /\ Waits]_vars
    PROVE  SerialInv'
  <1>1. CASE UNCHANGED vars
    <2>1. UNCHANGED <<objects, list, inbox, req, askSeq>> BY <1>1 DEF vars, lifeVars
    <2> QED BY <2>1, OutsideSerial
  <1>2. ASSUME Waits, \E i \in Investigations : GetInvestigation(i) \/ RunAgent(i)
        PROVE  SerialInv'
    <2>1. PICK i \in Investigations : GetInvestigation(i) \/ RunAgent(i) BY <1>2
    <2>2. Quiet
      BY <1>2, <2>1, AcceptWaits DEF GetInvestigation, RunAgent, StartAgent, Accept
    <2> QED BY <2>1, <2>2, OpenSerial
  <1>3. ASSUME Waits, AskQuestion PROVE SerialInv'
    <2>1. Quiet BY <1>3, AcceptWaits DEF AskQuestion, Accept
    <2> QED BY <1>3, <2>1, AskQuestionSerial
  <1>4. ASSUME Waits, NEW id, Approve(id) PROVE SerialInv'
    <2>1. Quiet BY <1>4, AcceptWaits DEF Approve, Accept
    <2> QED BY <1>4, <2>1, DecideSerial
  <1>5. ASSUME Waits, NEW id, NEW decision \in Refusals, Refuse(id, decision) PROVE SerialInv'
    <2>1. Quiet BY <1>5, AcceptWaits DEF Refuse, Accept
    <2> QED BY <1>5, <2>1, DecideSerial
  <1>6. ASSUME Waits, NEW a \in DOMAIN inbox, RefreshMerge(a) PROVE SerialInv'
    <2>1. Quiet BY <1>6, AcceptWaits DEF RefreshMerge, Accept
    <2> QED BY <1>6, <2>1, RefreshSerial
  <1>7. ASSUME NEW t \in DOMAIN req, Proceed(t) PROVE SerialInv' BY <1>7, ProceedSerial
  <1>8. ASSUME NEW m \in DOMAIN mrs, MergeMr(m) PROVE SerialInv'
    <2>1. UNCHANGED <<objects, list, inbox, req, askSeq>> BY <1>8 DEF MergeMr, lifeVars
    <2> QED BY <2>1, OutsideSerial
  <1>9. CASE Restart BY <1>9, SerialRestart
  <1> QED BY <1>1, <1>2, <1>3, <1>4, <1>5, <1>6, <1>7, <1>8, <1>9 DEF Next

LEMMA SerialInvariant == SerialSpec => [](IInv /\ SerialInv)
  <1>1. Init => IInv /\ SerialInv
    <2>1. Init => Fresh BY ConsoleAssumption, EmptySeq DEF Init, Fresh
    <2> QED BY <2>1, InitInv, SerialFresh
  <1>2. IInv /\ SerialInv /\ [Next /\ Waits]_vars => (IInv /\ SerialInv)'
    <2> SUFFICES ASSUME IInv, SerialInv, [Next /\ Waits]_vars PROVE IInv' /\ SerialInv'
      OBVIOUS
    <2>1. [Next]_vars OBVIOUS
    <2>2. IInv' BY <2>1, NextInv
    <2> QED BY <2>2, SerialStep
  <1>3. [Next /\ (Len(req') > Len(req) => Quiet)]_vars => [Next /\ Waits]_vars BY DEF Waits
  <1> QED BY <1>1, <1>2, <1>3, PTL DEF SerialSpec

-----------------------------------------------------------------------------
(* What the user who waits can rely on.                                     *)

\* server.py:79-81: after one user's requests, however many, the approval id that a
\* fixable investigation shows is the id of an approval of this investigation.
THEOREM NoDeadEndsAlone == SerialSpec => []NoDeadEnd
  <1>1. ASSUME IInv, SerialInv, Quiet, NEW k \in DOMAIN list,
               objects[list[k]].status = "needs_approval", objects[list[k]].agentRun
        PROVE  /\ ById(objects[list[k]].approvalId) # 0
               /\ inbox[ById(objects[list[k]].approvalId)].inv = objects[list[k]].inv
    <2>1. PICK o : o = objects[list[k]] OBVIOUS
    <2>2. Shown(o.inv) BY <1>1, <2>1 DEF IInv, CoverInv, Covered
    <2>3. HasApproval(o.inv) BY <1>1, <2>2 DEF Quiet, At, Shown, HasApproval
    <2>4. PICK a \in DOMAIN inbox : inbox[a].id = o.approvalId /\ inbox[a].inv = o.inv
      BY <1>1, <2>1, <2>3 DEF SerialInv, LinkInv, Linked
    <2>5. ById(o.approvalId) \in DOMAIN inbox /\ inbox[ById(o.approvalId)].id = o.approvalId
      BY <1>1, <2>4, ByIdSpec DEF IInv
    <2>6. ById(o.approvalId) = a BY <1>1, <2>4, <2>5 DEF SerialInv, ApprovalsApart
    <2>7. a # 0 BY <2>4, LenProperties, <1>1 DEF IInv, SeqInv
    <2> QED BY <2>1, <2>4, <2>6, <2>7
  <1>2. IInv /\ SerialInv => NoDeadEnd BY <1>1 DEF NoDeadEnd
  <1> QED BY <1>2, SerialInvariant, PTL

\* server.py:79-81, :798: no two approvals have the same id, and an investigation is
\* given one re-run, when no two requests look for it at the same time.
THEOREM ApprovalsStayApart == SerialSpec => []ApprovalsApart
  <1>1. SerialInv => ApprovalsApart BY DEF SerialInv
  <1> QED BY <1>1, SerialInvariant, PTL

\* server.py:277: the analysis that opening starts replaces nothing that is past its
\* approval, when nobody approved while it ran.
THEOREM LazyAnalysisKeeps == SerialSpec => PostApprovalKept
  <1>1. ASSUME SerialInv, NEW t \in DOMAIN req, At(t, "replace"), req[t].kind = "open"
        PROVE  objects[list[req[t].idx]].status \notin PostApproval
    BY <1>1 DEF SerialInv, HeldInv, Held, Opened, At
  <1>2. SerialInv /\ [Next /\ Waits]_vars =>
            [\A t \in DOMAIN req :
               At(t, "replace") /\ ~At(t, "replace")' /\ req[t].kind = "open" /\ req[t].idx # 0
                 => objects[list[req[t].idx]].status \notin PostApproval]_vars
    BY <1>1
  <1>3. [Next /\ (Len(req') > Len(req) => Quiet)]_vars => [Next /\ Waits]_vars BY DEF Waits
  <1> QED BY <1>2, <1>3, SerialInvariant, PTL DEF SerialSpec, PostApprovalKept

\* An object that was in the list at position j is still there, or one of the same
\* investigation is.
LEMMA ListedKept ==
    ASSUME IInv, Grow,
           \A j \in DOMAIN list : \E k \in DOMAIN list' :
              objects'[list'[k]].inv = objects'[list[j]].inv
    PROVE  Listed \subseteq Listed'
  <1> SUFFICES ASSUME NEW j \in DOMAIN list
               PROVE  \E k \in DOMAIN list' : objects'[list'[k]].inv = objects[list[j]].inv
    BY DEF Listed
  <1>1. list[j] \in DOMAIN objects BY ListedObjects
  <1>2. objects'[list[j]].inv = objects[list[j]].inv BY <1>1 DEF Grow, ObjectsGrow
  <1> QED BY <1>2

LEMMA ReplaceKeepsListed ==
    ASSUME IInv, SerialInv, Grow, NEW t \in DOMAIN req, Replace(t)
    PROVE  Listed \subseteq Listed'
  <1>1. /\ GoodRequest(req[t]) /\ Held(req[t]) /\ req[t].pc = "replace"
    BY Serving DEF Replace, At, SerialInv, HeldInv
  <1>2. PICK new, k : new = req[t].new /\ k = req[t].idx OBVIOUS
  <1>3. /\ new \in DOMAIN objects /\ k \in DOMAIN list /\ k # 0
        /\ objects[new].inv = objects[list[k]].inv
    BY <1>1, <1>2 DEF GoodRequest, Held
  <1>4. list' = [list EXCEPT ![k] = new] BY <1>2, <1>3 DEF Replace
  <1>5. objects'[new].inv = objects'[list[k]].inv
    BY <1>3, ListedObjects DEF Grow, ObjectsGrow
  <1>6. ASSUME NEW j \in DOMAIN list
        PROVE  j \in DOMAIN list' /\ objects'[list'[j]].inv = objects'[list[j]].inv
    BY <1>3, <1>4, <1>5
  <1> QED BY <1>6, ListedKept

LEMMA InsertKeepsListed ==
    ASSUME IInv, Grow, NEW t \in DOMAIN req, InsertQuestion(t)
    PROVE  Listed \subseteq Listed'
  <1>1. list \in Seq(Nat) /\ Len(objects) + 1 \in Nat BY LenProperties DEF IInv, SeqInv
  <1>2. list' = <<Len(objects) + 1>> \o list BY DEF InsertQuestion
  <1>3. \A j \in DOMAIN list : j + 1 \in DOMAIN list' /\ list'[j + 1] = list[j]
    BY ONLY <1>1, <1>2, ConsExact
  <1> QED BY <1>3, ListedKept

\* server.py:261-265, :1189: nobody vanishes from the list while the process lives,
\* when no question is inserted between a look-up of a position and its use.
THEOREM NobodyLeavesTheList == SerialSpec => NobodyVanishes
  <1>1. ASSUME IInv, SerialInv, Next, restarts' = restarts
        PROVE  Listed \subseteq Listed'
    <2>1. ~Restart
      <3>1. restarts \in Nat BY <1>1, ConsoleAssumption DEF IInv, SeqInv
      <3> QED BY <1>1, <3>1 DEF Restart
    <2>2. Grow BY <1>1, <2>1, NextGrows
    <2>3. CASE UNCHANGED list BY <1>1, <2>2, <2>3, ListedKept
    <2>4. CASE \E t \in DOMAIN req : Replace(t) BY <1>1, <2>2, <2>4, ReplaceKeepsListed
    <2>5. CASE \E t \in DOMAIN req : InsertQuestion(t)
      BY <1>1, <2>2, <2>5, InsertKeepsListed
    <2>6. \/ UNCHANGED list
          \/ \E t \in DOMAIN req : Replace(t) \/ InsertQuestion(t)
      BY <1>1, <2>1
         DEF Next, Proceed, GetInvestigation, RunAgent, StartAgent, AskQuestion, Approve, Refuse,
             RefreshMerge, AgentReturns, AgentFails, SyncAppend, DispatchMr, RecordMr,
             DispatchDag, Resolve, GitlabAnswers, MergeMr
    <2> QED BY <2>3, <2>4, <2>5, <2>6
  <1>2. IInv /\ SerialInv /\ [Next /\ Waits]_vars =>
            [restarts' = restarts => Listed \subseteq Listed']_vars
    BY <1>1
  <1>3. [Next /\ (Len(req') > Len(req) => Quiet)]_vars => [Next /\ Waits]_vars BY DEF Waits
  <1> QED BY <1>2, <1>3, SerialInvariant, PTL DEF SerialSpec, NobodyVanishes
=============================================================================
