---------------------------- MODULE PlatformProofs ----------------------------
(***************************************************************************)
(* The composition for every number of runs, queries, callbacks and        *)
(* restarts.  Every step of the platform is a step of each of its parts,   *)
(* or leaves that part alone, so that what is proved of the parts holds    *)
(* here; on top of it, what a run reads of the memory is followed from     *)
(* part to part.                                                           *)
(***************************************************************************)
EXTENDS Platform, TLAPS

\* What is proved of the parts.
DBP == INSTANCE WarehouseProofs WITH Callers <- Runs
MP == INSTANCE IncidentMemoryProofs WITH Writers <- Console \cup Resumed
IP == INSTANCE FailureIntakeProofs

PartsInv == DBP!IInv /\ MP!IInv /\ IP!IInv

\* The types of what composes the parts.
RunTypes ==
    /\ stage \in [Runs -> {"idle", "gathering", "concluded", "unread", "raised"}]
    /\ left \in [Runs -> 0..MaxQueries]
    /\ clashed \in BOOLEAN

\* Without trouble at the memory file every retrieval has worked.
Trouble == clashed \/ overlapped \/ \E w \in Console \cup Resumed : pc[w] = "lost"
ReadInv == ~Trouble => \A r \in Runs : stage[r] # "unread"

IInv == PartsInv /\ RunTypes /\ ReadInv

-----------------------------------------------------------------------------
(* The parts.                                                               *)

LEMMA InitParts == Init => PartsInv
  <1> SUFFICES ASSUME Init PROVE PartsInv OBVIOUS
  <1>1. DBP!Init
    BY DEF Init, DB!Init, DBP!Init, DB!NoConnection, DBP!NoConnection, DB!Seedable,
           DBP!Seedable, DB!Files, DBP!Files, DB!Contents, DBP!Contents, DB!Processes,
           DBP!Processes
  <1>2. MP!Init
    BY DEF Init, Memory!Init, MP!Init, Memory!Missing, MP!Missing, Memory!Readable,
           MP!Readable, Memory!Bases, MP!Bases, Memory!Nobody, MP!Nobody
  <1>3. IP!Init BY DEF Init, Intake!Init, IP!Init, Intake!Idle, IP!Idle
  <1>4. IP!Idle \notin Keys BY KeysAreKeys DEF IP!Idle
  <1>5. DBP!IInv BY <1>1, DBP!InitType, DBP!InitQuiet DEF DBP!IInv
  <1> QED BY <1>2, <1>3, <1>4, <1>5, MP!InitInv, IP!InitInv DEF PartsInv

\* Every composed step is a step of each part, or none of it.
LEMMA WarehouseSteps == ASSUME Next PROVE [DB!Next]_warehouseVars
  <1>1. ASSUME NEW r \in Runs, Step(r) PROVE [DB!Next]_warehouseVars
    BY <1>1 DEF Step, Retrieve, Ask, Query, NodeRaises, Conclude, warehouseVars, DB!Next
  <1>2. CASE Restart
    <2>1. Hook \in Runs /\ ProcessOf[Hook] = "webhook" BY DEF Runs, ProcessOf
    <2>2. "webhook" \in DB!Processes BY <2>1 DEF DB!Processes
    <2> QED BY <1>2, <2>2 DEF Restart, DB!Next
  <1>3. CASE (\E w \in Console \cup Resumed : Remember(w)) \/ Callback \/ Handle
    BY <1>3 DEF Remember, Callback, Handle, warehouseVars
  <1> QED BY <1>1, <1>2, <1>3 DEF Next

LEMMA MemorySteps == ASSUME Next PROVE [Memory!Next]_memoryVars
  <1>1. ASSUME NEW w \in Console \cup Resumed, Remember(w) PROVE Memory!Next
    BY <1>1 DEF Remember, Memory!Next
  <1>2. CASE (\E r \in Runs : Step(r)) \/ Callback \/ Handle \/ Restart
    BY <1>2 DEF Step, Retrieve, Ask, Query, NodeRaises, Conclude, Callback, Handle, Restart,
                memoryVars
  <1> QED BY <1>1, <1>2 DEF Next

LEMMA IntakeSteps == ASSUME Next PROVE [Intake!Next]_intakeVars
  <1>1. ASSUME NEW r \in Runs, Step(r) PROVE [Intake!Next]_intakeVars
    BY <1>1 DEF Step, Retrieve, Ask, Query, NodeRaises, Conclude, Stops, Intake!Next
  <1>2. CASE \E w \in Console \cup Resumed : Remember(w) BY <1>2 DEF Remember
  <1>3. CASE Callback \/ Handle \/ Restart
    BY <1>3 DEF Callback, Handle, Restart, Intake!Next
  <1> QED BY <1>1, <1>2, <1>3 DEF Next

\* The parts are the systems that their proofs are about.
LEMMA WarehouseProved == ASSUME DB!Next PROVE DBP!Next
  <1>1. ASSUME NEW r \in Runs, DB!Choose(r) PROVE DBP!Choose(r)
    BY <1>1 DEF DB!Choose, DBP!Choose, DB!At, DBP!At, DB!Leaves, DBP!Leaves, DB!Journal,
           DBP!Journal, DB!Connected, DBP!Connected, DB!NoConnection, DBP!NoConnection
  <1>2. ASSUME NEW r \in Runs, DB!Connect(r) PROVE DBP!Connect(r)
    BY <1>2 DEF DB!Connect, DBP!Connect, DB!At, DBP!At, DB!Opened, DBP!Opened
  <1>3. ASSUME NEW r \in Runs, DB!Probe(r) PROVE DBP!Probe(r)
    BY <1>3 DEF DB!Probe, DBP!Probe, DB!At, DBP!At, DB!Go, DBP!Go, DB!Connected,
           DBP!Connected
  <1>4. ASSUME NEW r \in Runs, DB!ProbeOk(r) PROVE DBP!ProbeOk(r)
    BY <1>4 DEF DB!ProbeOk, DBP!ProbeOk, DB!At, DBP!At, DB!Go, DBP!Go
  <1>5. ASSUME NEW r \in Runs, DB!ProbeFails(r) PROVE DBP!ProbeFails(r)
    BY <1>5 DEF DB!ProbeFails, DBP!ProbeFails, DB!At, DBP!At, DB!Contended, DBP!Contended,
           DB!AfterFailure, DBP!AfterFailure, DB!Opened, DBP!Opened, DB!Connected,
           DBP!Connected
  <1>6. ASSUME NEW r \in Runs, DB!Query(r) PROVE DBP!Query(r)
    BY <1>6 DEF DB!Query, DBP!Query, DB!At, DBP!At, DB!Home, DBP!Home, DB!NoConnection,
           DBP!NoConnection
  <1>7. ASSUME NEW r \in Runs, DB!QueryFails(r) PROVE DBP!QueryFails(r)
    BY <1>7 DEF DB!QueryFails, DBP!QueryFails, DB!At, DBP!At, DB!NoConnection,
           DBP!NoConnection
  <1>8. ASSUME NEW p \in DB!Processes, DB!Crash(p) PROVE p \in DBP!Processes /\ DBP!Crash(p)
    BY <1>8 DEF DB!Crash, DBP!Crash, DB!Connected, DBP!Connected, DB!At, DBP!At,
           DB!NoConnection, DBP!NoConnection, DB!Files, DBP!Files, DB!Processes,
           DBP!Processes
  <1> QED BY <1>1, <1>2, <1>3, <1>4, <1>5, <1>6, <1>7, <1>8
          DEF DB!Next, DBP!Next, DB!Proceed, DBP!Proceed

LEMMA MemoryProved == ASSUME Memory!Next PROVE MP!Next
  <1>1. ASSUME NEW w \in Console \cup Resumed, Memory!Skip(w) PROVE MP!Skip(w)
    BY <1>1 DEF Memory!Skip, MP!Skip, Memory!Authorised, MP!Authorised
  <1>2. ASSUME NEW w \in Console \cup Resumed, Memory!Read(w) PROVE MP!Read(w)
    BY <1>2 DEF Memory!Read, MP!Read, Memory!Authorised, MP!Authorised, Memory!Busy,
           MP!Busy, Memory!AtFile, MP!AtFile
  <1>3. ASSUME NEW w \in Console \cup Resumed, Memory!Open(w) PROVE MP!Open(w)
    BY <1>3 DEF Memory!Open, MP!Open, Memory!Broken, MP!Broken
  <1>4. ASSUME NEW w \in Console \cup Resumed, Memory!Fill(w) PROVE MP!Fill(w)
    BY <1>4 DEF Memory!Fill, MP!Fill, Memory!Broken, MP!Broken, Memory!Readable, MP!Readable,
           Memory!Upsert, MP!Upsert, Memory!OthersOpen, MP!OthersOpen
  <1>5. ASSUME NEW w \in Console \cup Resumed, Memory!Lose(w) PROVE MP!Lose(w)
    BY <1>5 DEF Memory!Lose, MP!Lose, Memory!Broken, MP!Broken, Memory!OthersOpen,
           MP!OthersOpen, Memory!AtFile, MP!AtFile
  <1> QED BY <1>1, <1>2, <1>3, <1>4, <1>5 DEF Memory!Next, MP!Next

LEMMA IntakeProved == ASSUME Intake!Next PROVE IP!Next
  <1>1. Intake!Raise => IP!Raise BY DEF Intake!Raise, IP!Raise, Intake!Idle, IP!Idle
  <1>2. Intake!Return => IP!Return BY DEF Intake!Return, IP!Return, Intake!Idle, IP!Idle
  <1>3. Intake!Restart => IP!Restart BY DEF Intake!Restart, IP!Restart, Intake!Idle, IP!Idle
  <1>4. \A k \in Keys : Intake!Deliver(k) => IP!Deliver(k) BY DEF Intake!Deliver, IP!Deliver
  <1>5. \A k \in Keys : Intake!Handle(k) => IP!Handle(k)
    BY DEF Intake!Handle, IP!Handle, Intake!Dedupe, IP!Dedupe, Intake!RefuseUnmapped,
           IP!RefuseUnmapped, Intake!Open, IP!Open, Intake!Take, IP!Take, Intake!Idle, IP!Idle
  <1> QED BY <1>1, <1>2, <1>3, <1>4, <1>5 DEF Intake!Next, IP!Next

LEMMA PartsKept == ASSUME PartsInv, [Next]_vars PROVE PartsInv'
  <1>1. [DBP!Next]_(DBP!vars)
    BY WarehouseSteps, WarehouseProved DEF vars, warehouseVars, DBP!vars
  <1>2. [MP!Next]_(MP!vars) BY MemorySteps, MemoryProved DEF vars, memoryVars, MP!vars
  <1>3. [IP!Next]_(IP!vars) BY IntakeSteps, IntakeProved DEF vars, intakeVars, IP!vars
  <1>4. DBP!IInv' BY <1>1, DBP!StepInv DEF PartsInv
  <1>5. IP!Idle \notin Keys BY KeysAreKeys DEF IP!Idle
  <1> QED BY <1>2, <1>3, <1>4, <1>5, MP!StepInv, IP!NextInv DEF PartsInv

-----------------------------------------------------------------------------
(* The runs.                                                                *)

RunInv == RunTypes /\ ReadInv

\* No run has started at first.
LEMMA InitRuns == Init => RunInv
  <1> SUFFICES ASSUME Init PROVE RunInv OBVIOUS
  <1>1. RunTypes
    <2>1. 0 \in 0..MaxQueries BY QueriesAreMany
    <2>2. left = [r \in Runs |-> 0] /\ stage = [r \in Runs |-> "idle"] /\ clashed = FALSE
      BY DEF Init
    <2> QED BY <2>1, <2>2 DEF RunTypes
  <1>2. ReadInv BY DEF Init, ReadInv
  <1> QED BY <1>1, <1>2 DEF RunInv

\* A run whose retrieval fails found trouble at the memory file.
LEMMA RetrieveKept ==
    ASSUME PartsInv, RunInv, NEW r \in Runs, Retrieve(r)
    PROVE  RunInv'
  <1>1. UNCHANGED <<file, pc, overlapped>> BY DEF Retrieve, memoryVars
  <1>2. \A s \in Runs \ {r} : stage'[s] = stage[s]
    BY DEF Retrieve, Stage, Stops, RunInv, RunTypes
  <1>3. RunTypes'
    <2>1. left' \in [Runs -> 0..MaxQueries] BY DEF Retrieve, RunInv, RunTypes
    <2>2. stage' \in [Runs -> {"idle", "gathering", "concluded", "unread", "raised"}]
      BY DEF Retrieve, Stage, Stops, RunInv, RunTypes
    <2>3. clashed' \in BOOLEAN BY DEF Retrieve, RunInv, RunTypes
    <2> QED BY <2>1, <2>2, <2>3 DEF RunTypes
  <1>4. ReadInv'
    <2> SUFFICES ASSUME ~Trouble' PROVE \A s \in Runs : stage'[s] # "unread" BY DEF ReadInv
    <2>1. ~Trouble /\ file.state # "missing" /\ ~Memory!Busy
      BY <1>1 DEF Trouble, Retrieve
    <2>2. file.state # "broken"
      <3>1. MP!BrokenInv
        BY <2>1 DEF PartsInv, MP!IInv, MP!SerialInv, MP!Serial, Trouble
      <3> QED BY <2>1, <3>1 DEF MP!BrokenInv, Memory!Busy, Memory!AtFile
    <2>3. file.state \in {"missing", "broken", "readable"}
      BY DEF PartsInv, MP!IInv, MP!TypeOK
    <2>4. stage'[r] = "gathering"
      BY <2>1, <2>2, <2>3 DEF Unreadable, Retrieve, Stage, RunInv, RunTypes
    <2> QED BY <1>2, <2>1, <2>4 DEF RunInv, ReadInv
  <1> QED BY <1>3, <1>4 DEF RunInv

\* A run that asks, or goes on with its query, stays where it is.
LEMMA QueryKept ==
    ASSUME RunInv, NEW r \in Runs, Ask(r) \/ Query(r)
    PROVE  RunInv'
  <1>1. UNCHANGED <<pc, overlapped, stage, clashed>> BY DEF Ask, Query, memoryVars
  <1>2. left' \in [Runs -> 0..MaxQueries] BY QueriesAreMany DEF Ask, Query, RunInv, RunTypes
  <1> QED BY <1>1, <1>2 DEF RunInv, RunTypes, ReadInv, Trouble

\* A run that ends has got past its retrieval.
LEMMA EndKept ==
    ASSUME RunInv, NEW r \in Runs, NodeRaises(r) \/ Conclude(r)
    PROVE  RunInv'
  <1>1. UNCHANGED <<pc, overlapped, left, clashed>>
    BY DEF NodeRaises, Conclude, memoryVars
  <1>2. /\ stage'[r] \in {"raised", "concluded"}
        /\ \A s \in Runs \ {r} : stage'[s] = stage[s]
        /\ stage' \in [Runs -> {"idle", "gathering", "concluded", "unread", "raised"}]
    BY DEF NodeRaises, Conclude, Stops, Stage, RunInv, RunTypes
  <1> QED BY <1>1, <1>2 DEF RunInv, RunTypes, ReadInv, Trouble

\* A call of write_incident does not undo trouble.
LEMMA RememberKept ==
    ASSUME PartsInv, RunInv, NEW w \in Console \cup Resumed, Remember(w)
    PROVE  RunInv'
  <1>1. UNCHANGED <<stage, left, clashed>> BY DEF Remember
  <1>2. pc = [v \in Console \cup Resumed |-> pc[v]] BY DEF PartsInv, MP!IInv, MP!TypeOK
  <1>3. \A v \in Console \cup Resumed : pc[v] = "lost" => pc'[v] = "lost"
    BY <1>2 DEF Remember, Memory!Skip, Memory!Read, Memory!Open, Memory!Fill, Memory!Lose,
                Memory!AtFile
  <1>4. overlapped => overlapped'
    BY DEF Remember, Memory!Skip, Memory!Read, Memory!Open, Memory!Fill, Memory!Lose
  <1>5. Trouble => Trouble' BY <1>1, <1>3, <1>4 DEF Trouble
  <1> QED BY <1>1, <1>5 DEF RunInv, RunTypes, ReadInv

\* The webhook's restart leaves its run where runs begin.
LEMMA RestartKept ==
    ASSUME RunInv, Restart
    PROVE  RunInv'
  <1>1. UNCHANGED <<pc, overlapped, clashed>> BY DEF Restart, memoryVars
  <1>2. \A r \in Runs : stage'[r] \in {stage[r], "idle"}
    BY DEF Restart, Stage, RunInv, RunTypes
  <1>3. RunTypes'
    <2>1. 0 \in 0..MaxQueries BY QueriesAreMany
    <2>2. left' \in [Runs -> 0..MaxQueries] BY <2>1 DEF Restart, RunInv, RunTypes
    <2>3. stage' \in [Runs -> {"idle", "gathering", "concluded", "unread", "raised"}]
      BY DEF Restart, Stage, RunInv, RunTypes
    <2> QED BY <1>1, <2>2, <2>3 DEF RunInv, RunTypes
  <1> QED BY <1>1, <1>2, <1>3 DEF RunInv, ReadInv, Trouble

LEMMA RunsKept == ASSUME PartsInv, RunInv, [Next]_vars PROVE RunInv'
  <1>1. CASE Callback \/ Handle \/ UNCHANGED vars
    <2>1. UNCHANGED <<pc, overlapped, stage, left, clashed>>
      BY <1>1 DEF Callback, Handle, vars, memoryVars
    <2> QED BY <2>1 DEF RunInv, RunTypes, ReadInv, Trouble
  <1> QED BY <1>1, RetrieveKept, QueryKept, EndKept, RememberKept, RestartKept
        DEF Next, Step

-----------------------------------------------------------------------------
\* What holds of the parts, and of the runs that go from one to another.
THEOREM Invariant == Spec => []IInv
  <1>1. Init => PartsInv /\ RunInv BY InitParts, InitRuns
  <1>2. (PartsInv /\ RunInv) /\ [Next]_vars => (PartsInv /\ RunInv)'
    BY PartsKept, RunsKept
  <1>3. IInv <=> PartsInv /\ RunInv BY DEF IInv, RunInv
  <1> QED BY <1>1, <1>2, <1>3, PTL DEF Spec

\* The types of the composition and of its parts, for any processes, runs,
\* failures and bounds.
THEOREM TypeCorrect == Spec => []TypeOK
  <1>1. DBP!TypeOK => DB!TypeOK
    BY DEF DB!TypeOK, DBP!TypeOK, DB!Files, DBP!Files, DB!Contents, DBP!Contents,
           DB!Connections, DBP!Connections, DB!Processes, DBP!Processes, DB!Troubles,
           DBP!Troubles
  <1>2. MP!TypeOK => Memory!TypeOK
    BY DEF MP!TypeOK, Memory!TypeOK, MP!Record, Memory!Record, MP!Bases, Memory!Bases,
           MP!Nobody, Memory!Nobody
  <1>3. IP!TypeOK => Intake!TypeOK BY DEF IP!TypeOK, Intake!TypeOK, IP!Idle, Intake!Idle
  <1>4. IInv => TypeOK
    BY <1>1, <1>2, <1>3 DEF IInv, PartsInv, DBP!IInv, MP!IInv, IP!IInv, RunTypes, TypeOK
  <1> QED BY Invariant, <1>4, PTL

\* Only queries that overlap, of runs of either process, or a file system that
\* refuses a probe lose the given warehouse.
THEOREM GivenIsKept == Spec => []WarehouseKept
  <1>1. DBP!LoneInv => WarehouseKept
    BY DEF DBP!LoneInv, DBP!KeptInv, WarehouseKept, DB!WarehouseKept, DB!Home, DBP!Home,
           DB!Opened, DBP!Opened
  <1>2. IInv => WarehouseKept BY <1>1 DEF IInv, PartsInv, DBP!IInv
  <1> QED BY Invariant, <1>2, PTL

\* No process leaves the configured file without trouble, and the runs that read
\* figures of another warehouse are in a process that has left it.
THEOREM LeavesForAReason == Spec => []FallbackForAReason
  <1>1. DBP!QuietInv /\ DBP!LeftInv => FallbackForAReason
    BY DEF DBP!QuietInv, DBP!LeftInv, DBP!MisledInv, FallbackForAReason,
           DB!FallbackForAReason, DB!Home, DBP!Home, DB!Processes, DBP!Processes
  <1>2. IInv => FallbackForAReason BY <1>1 DEF IInv, PartsInv, DBP!IInv
  <1> QED BY Invariant, <1>2, PTL

\* One record per incident, however the console's calls and the resumed runs'
\* overlap or are cut off.
THEOREM RecordsAreUnique == Spec => []OneRecordPerIncident
  <1>1. IInv => OneRecordPerIncident
    BY DEF IInv, PartsInv, MP!IInv, MP!FileInv, MP!Unique, OneRecordPerIncident,
           Memory!OneRecordPerIncident
  <1> QED BY Invariant, <1>1, PTL

\* Nothing is remembered that nobody approved or corrected, whichever process
\* wrote it.
THEOREM RecordsAreAuthorised == Spec => []OnlyAuthorised
  <1>1. IInv => OnlyAuthorised
    BY DEF IInv, PartsInv, MP!IInv, MP!FileInv, MP!Authentic, OnlyAuthorised,
           Memory!OnlyAuthorised
  <1> QED BY Invariant, <1>1, PTL

\* Calls of the console and of resumed runs that do not overlap lose nothing.
THEOREM SerialCallsKeepEverything == Spec => []SerialMemory
  <1>1. ASSUME IInv, ~overlapped,
               \A w \in Console \cup Resumed : pc[w] \notin {"read", "open", "lost"}
        PROVE  file.state # "broken" /\ MP!HoldsLatest(file.records)
    <2>1. MP!BrokenInv /\ MP!LatestInv
      BY <1>1 DEF IInv, PartsInv, MP!IInv, MP!SerialInv, MP!Serial
    <2> QED BY <1>1, <2>1 DEF MP!BrokenInv, MP!LatestInv
  <1>2. IInv => SerialMemory
    BY <1>1 DEF SerialMemory, Memory!SerialMemory, MP!HoldsLatest, MP!Nobody, Memory!Nobody
  <1> QED BY Invariant, <1>2, PTL

\* One investigation for all callbacks of a failure, whatever else shares the
\* warehouse and the memory with it.
THEOREM FailuresOpenOnce == Spec => []OneInvestigationEach
  <1>1. ASSUME IP!IInv, NEW k \in Keys
        PROVE  /\ opened[k] + (IF k \in failed THEN 1 ELSE 0)
                     + (IF active = k THEN 1 ELSE 0) <= 1
               /\ k \in deduped => opened[k] = 1 \/ k \in failed
    <2>1. opened[k] \in {0, 1} BY <1>1 DEF IP!IInv, IP!FateInv
    <2>2. /\ ~(active = k /\ opened[k] = 1) /\ ~(active = k /\ k \in failed)
          /\ ~(opened[k] = 1 /\ k \in failed)
          /\ k \in deduped => opened[k] = 1 \/ k \in failed
      BY <1>1 DEF IP!IInv, IP!FateInv, IP!Under, IP!Returned, IP!Raised
    <2> QED BY <2>1, <2>2
  <1>2. IInv => OneInvestigationEach
    BY <1>1 DEF IInv, PartsInv, OneInvestigationEach, Intake!OneInvestigationEach
  <1> QED BY Invariant, <1>2, PTL

\* A run is only ever stopped by its own retrieval after trouble at the memory
\* file.
THEOREM RetrievalsWork == Spec => []RetrievalWorks
  <1>1. IInv => RetrievalWorks BY DEF IInv, ReadInv, Trouble, RetrievalWorks
  <1> QED BY Invariant, <1>1, PTL
=============================================================================
