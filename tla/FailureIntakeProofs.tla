-------------------------- MODULE FailureIntakeProofs --------------------------
(***************************************************************************)
(* The callbacks for every set of keys and any number of callbacks and     *)
(* restarts: a failure is investigated once in a life of the process, and  *)
(* no callback is turned away for nothing.                                 *)
(***************************************************************************)
EXTENDS FailureIntake, TLAPS

\* What became of a key that was marked: it is being investigated, or its
\* investigation returned or raised, and only one of these.
Under(k) == active = k
Returned(k) == opened[k] = 1
Raised(k) == k \in failed

FateInv ==
    \A k \in Keys :
        /\ opened[k] \in {0, 1}
        /\ k \in seen <=> Under(k) \/ Returned(k) \/ Raised(k)
        /\ ~(Under(k) /\ Returned(k)) /\ ~(Under(k) /\ Raised(k))
        /\ ~(Returned(k) /\ Raised(k))
        /\ k \in deduped => Returned(k) \/ Raised(k)

IInv == TypeOK /\ FateInv

-----------------------------------------------------------------------------
\* Nothing is marked at first.
LEMMA InitInv == ASSUME Idle \notin Keys PROVE Init => IInv
  <1> SUFFICES ASSUME Init PROVE IInv OBVIOUS
  <1>1. TypeOK BY DEF Init, TypeOK
  <1>2. ASSUME NEW k \in Keys
        PROVE  k \notin seen /\ k \notin deduped /\ opened[k] = 0
               /\ ~Under(k) /\ ~Returned(k) /\ ~Raised(k)
    <2>1. opened[k] = 0 BY DEF Init
    <2> QED BY <2>1 DEF Init, Under, Returned, Raised
  <1> QED BY <1>1, <1>2 DEF IInv, FateInv

\* Whatever a callback is answered, the invariant is kept.
LEMMA HandleInv ==
    ASSUME Idle \notin Keys, IInv, NEW k \in Keys, Handle(k)
    PROVE  IInv'
  <1>1. active = Idle /\ waiting' = [waiting EXCEPT ![k] = @ - 1] /\ waiting[k] > 0
    BY DEF Handle, Dedupe, RefuseUnmapped, Open, Take
  <1>2. waiting' \in [Keys -> Nat] BY <1>1 DEF IInv, TypeOK
  <1>3. CASE Dedupe(k)
    <2>1. /\ deduped' = deduped \cup {k} /\ k \in seen
          /\ UNCHANGED <<seen, active, sent, opened, failed, restarts>>
      BY <1>3 DEF Dedupe
    <2>2. TypeOK' BY <1>2, <2>1 DEF IInv, TypeOK
    <2>3. FateInv' BY <1>1, <2>1 DEF IInv, FateInv, Under, Returned, Raised
    <2> QED BY <2>2, <2>3 DEF IInv
  <1>4. CASE RefuseUnmapped(k)
    <2>1. UNCHANGED <<seen, active, sent, deduped, opened, failed, restarts>>
      BY <1>4 DEF RefuseUnmapped
    <2>2. TypeOK' BY <1>2, <2>1 DEF IInv, TypeOK
    <2>3. FateInv' BY <2>1 DEF IInv, FateInv, Under, Returned, Raised
    <2> QED BY <2>2, <2>3 DEF IInv
  <1>5. CASE Open(k)
    <2>1. /\ seen' = seen \cup {k} /\ active' = k /\ k \notin seen
          /\ UNCHANGED <<sent, deduped, opened, failed, restarts>>
      BY <1>5 DEF Open
    <2>2. TypeOK' BY <1>2, <2>1 DEF IInv, TypeOK
    <2>3. FateInv' BY <1>1, <2>1 DEF IInv, FateInv, Under, Returned, Raised
    <2> QED BY <2>2, <2>3 DEF IInv
  <1> QED BY <1>3, <1>4, <1>5 DEF Handle

\* The investigation under way comes to one of its two ends.
LEMMA EndInv ==
    ASSUME Idle \notin Keys, IInv, Return \/ Raise
    PROVE  IInv'
  <1>1. active \in Keys /\ active' = Idle /\ UNCHANGED <<seen, waiting, sent, deduped, restarts>>
    BY DEF IInv, TypeOK, Return, Raise
  <1>2. CASE Return
    <2>1. opened' = [opened EXCEPT ![active] = @ + 1] /\ UNCHANGED failed BY <1>2 DEF Return
    <2>2. TypeOK' BY <1>1, <2>1 DEF IInv, TypeOK
    <2>3. opened[active] = 0 /\ opened \in [Keys -> Nat]
      BY <1>1 DEF IInv, TypeOK, FateInv, Under, Returned
    <2>4. \A k \in Keys : opened'[k] = IF k = active THEN 1 ELSE opened[k] BY <2>1, <2>3
    <2>5. FateInv' BY <1>1, <2>1, <2>4 DEF IInv, FateInv, Under, Returned, Raised
    <2> QED BY <2>2, <2>5 DEF IInv
  <1>3. CASE Raise
    <2>1. failed' = failed \cup {active} /\ UNCHANGED opened BY <1>3 DEF Raise
    <2>2. TypeOK' BY <1>1, <2>1 DEF IInv, TypeOK
    <2>3. FateInv' BY <1>1, <2>1 DEF IInv, FateInv, Under, Returned, Raised
    <2> QED BY <2>2, <2>3 DEF IInv
  <1> QED BY <1>2, <1>3

\* A callback that arrives, or a new life of the process.
LEMMA OutsideInv ==
    ASSUME Idle \notin Keys, IInv, (\E k \in Keys : Deliver(k)) \/ Restart
    PROVE  IInv'
  <1>1. CASE \E k \in Keys : Deliver(k)
    <2> PICK k \in Keys : Deliver(k) BY <1>1
    <2>1. /\ sent' = sent + 1 /\ waiting' = [waiting EXCEPT ![k] = @ + 1]
          /\ UNCHANGED <<seen, active, deduped, opened, failed, restarts>>
      BY DEF Deliver
    <2>2. TypeOK' BY <2>1 DEF IInv, TypeOK
    <2>3. FateInv' BY <2>1 DEF IInv, FateInv, Under, Returned, Raised
    <2> QED BY <2>2, <2>3 DEF IInv
  <1>2. CASE Restart
    <2>1. TypeOK' BY <1>2 DEF IInv, TypeOK, Restart
    <2>2. FateInv' BY <1>2 DEF FateInv, Restart, Under, Returned, Raised
    <2> QED BY <2>1, <2>2 DEF IInv
  <1> QED BY <1>1, <1>2

\* Every step keeps the invariant.
LEMMA NextInv == ASSUME Idle \notin Keys PROVE IInv /\ [Next]_vars => IInv'
  <1> SUFFICES ASSUME IInv, [Next]_vars PROVE IInv' OBVIOUS
  <1>1. CASE UNCHANGED vars
    BY <1>1 DEF vars, IInv, TypeOK, FateInv, Under, Returned, Raised
  <1>2. CASE Next BY <1>2, HandleInv, EndInv, OutsideInv DEF Next
  <1> QED BY <1>1, <1>2

-----------------------------------------------------------------------------
\* Marked keys are those that are or were investigated, each once.
THEOREM Invariant == ASSUME Idle \notin Keys PROVE Spec => []IInv
  <1> QED BY InitInv, NextInv, PTL DEF Spec

\* Every variable of the intake keeps its type, for every set of keys and any
\* number of callbacks and restarts.
THEOREM TypeCorrect == ASSUME Idle \notin Keys PROVE Spec => []TypeOK
  <1>1. IInv => TypeOK BY DEF IInv
  <1> QED BY Invariant, <1>1, PTL

\* One investigation for all callbacks of a failure, and none is turned away
\* unless that investigation came to an end.
THEOREM FailuresOpenOnce == ASSUME Idle \notin Keys PROVE Spec => []OneInvestigationEach
  <1>1. ASSUME IInv, NEW k \in Keys
        PROVE  /\ opened[k] + (IF k \in failed THEN 1 ELSE 0)
                     + (IF active = k THEN 1 ELSE 0) <= 1
               /\ k \in deduped => opened[k] = 1 \/ k \in failed
    <2>1. opened[k] \in {0, 1} BY <1>1 DEF IInv, FateInv
    <2>2. ~(active = k /\ opened[k] = 1) /\ ~(active = k /\ k \in failed)
      BY <1>1 DEF IInv, FateInv, Under, Returned, Raised
    <2>3. ~(opened[k] = 1 /\ k \in failed)
      BY <1>1 DEF IInv, FateInv, Under, Returned, Raised
    <2>4. k \in deduped => opened[k] = 1 \/ k \in failed
      BY <1>1 DEF IInv, FateInv, Returned, Raised
    <2> QED BY <2>1, <2>2, <2>3, <2>4
  <1>2. IInv => OneInvestigationEach BY <1>1 DEF OneInvestigationEach
  <1> QED BY Invariant, <1>2, PTL
=============================================================================
