------------------------- MODULE IncidentMemoryProofs -------------------------
(***************************************************************************)
(* The incident memory for every number of writers and incidents: what may *)
(* be in the file however calls overlap, and what is in it when they do    *)
(* not.                                                                    *)
(***************************************************************************)
EXTENDS IncidentMemory, TLAPS

\* What a call read earlier is as good as what the file holds: unique per
\* incident and authorised; and only authorised calls get to the file.
Unique(records) == \A r, s \in records : r.id = s.id => r = s
Authentic(records) == \A r \in records : basis[r.by] # "nothing" /\ id[r.by] = r.id
CopyInv == \A w \in Writers : Unique(copy[w]) /\ Authentic(copy[w])
FileInv == Unique(file.records) /\ Authentic(file.records)
GuardInv == \A w \in Writers : AtFile(w) => Authorised(w)

\* Without overlap and loss, one call at a time is at the file, what it read is
\* the memory, and the memory holds every latest conclusion.
Serial == ~overlapped /\ \A w \in Writers : pc[w] # "lost"
HoldsLatest(records) ==
    \A i \in IncidentIds : latest[i] # Nobody => [id |-> i, by |-> latest[i]] \in records
AloneInv == \A v, w \in Writers : AtFile(v) /\ AtFile(w) => v = w
BrokenInv == file.state = "broken" => \E w \in Writers : pc[w] = "open"
LatestInv ==
    /\ \A w \in Writers : AtFile(w) => HoldsLatest(copy[w])
    /\ (\A w \in Writers : pc[w] # "open") => HoldsLatest(file.records)
SerialInv == Serial => overwritten = {} /\ AloneInv /\ BrokenInv /\ LatestInv

IInv == TypeOK /\ CopyInv /\ FileInv /\ GuardInv /\ SerialInv

\* An upsert of a well-typed copy is a set of records.
LEMMA UpsertType ==
    ASSUME TypeOK, NEW w \in Writers
    PROVE  Upsert(w) \subseteq Record
  <1>1. copy[w] \subseteq Record BY DEF TypeOK
  <1>2. id[w] \in IncidentIds BY DEF TypeOK
  <1>3. [id |-> id[w], by |-> w] \in Record BY <1>2 DEF Record
  <1> QED BY <1>1, <1>3 DEF Upsert

\* An upsert keeps one record per incident and only authorised ones.
LEMMA UpsertSound ==
    ASSUME TypeOK, CopyInv, NEW w \in Writers, Authorised(w)
    PROVE  Unique(Upsert(w)) /\ Authentic(Upsert(w))
  <1> DEFINE new == [id |-> id[w], by |-> w]
  <1>1. Unique(copy[w]) /\ Authentic(copy[w]) BY DEF CopyInv
  <1>2. new.id = id[w] /\ new.by = w OBVIOUS
  <1>3. \A r \in Upsert(w) : (r \in copy[w] /\ r.id # id[w]) \/ r = new
    BY DEF Upsert
  <1> HIDE DEF new
  <1>4. Unique(Upsert(w)) BY <1>1, <1>2, <1>3 DEF Unique
  <1>5. Authentic(Upsert(w)) BY <1>1, <1>2, <1>3 DEF Authentic, Authorised
  <1> QED BY <1>4, <1>5

\* An upsert of a copy with every latest conclusion has them all afterwards.
LEMMA UpsertLatest ==
    ASSUME TypeOK, NEW w \in Writers, HoldsLatest(copy[w])
    PROVE  \A i \in IncidentIds :
              LET last == [latest EXCEPT ![id[w]] = w][i]
              IN  last # Nobody => [id |-> i, by |-> last] \in Upsert(w)
  <1> DEFINE last == [latest EXCEPT ![id[w]] = w]
  <1> SUFFICES ASSUME NEW i \in IncidentIds, last[i] # Nobody
               PROVE  [id |-> i, by |-> last[i]] \in Upsert(w)
    OBVIOUS
  <1>1. id[w] \in IncidentIds /\ latest \in [IncidentIds -> Writers \cup {Nobody}]
    BY DEF TypeOK
  <1>2. CASE i = id[w]
    BY <1>1, <1>2 DEF Upsert
  <1>3. CASE i # id[w]
    <2>1. last[i] = latest[i] BY <1>1, <1>3
    <2>2. [id |-> i, by |-> latest[i]] \in copy[w] BY <2>1 DEF HoldsLatest
    <2> QED BY <2>1, <2>2, <1>3 DEF Upsert
  <1> QED BY <1>2, <1>3

LEMMA InitInv == Init => IInv
  <1> SUFFICES ASSUME Init PROVE IInv
    OBVIOUS
  <1>1. file.records = {} /\ file.state # "broken"
    BY DEF Init, Missing, Readable
  <1>2. TypeOK
    <2>1. file \in [state : {"missing", "broken", "readable"}, records : SUBSET Record]
      BY DEF Init, Missing, Readable
    <2>2. /\ pc \in [Writers -> {"idle", "read", "open", "returned", "raised", "lost"}]
          /\ copy \in [Writers -> SUBSET Record]
          /\ latest \in [IncidentIds -> Writers \cup {Nobody}]
      BY DEF Init
    <2> QED BY <2>1, <2>2 DEF Init, TypeOK
  <1>3. CopyInv /\ FileInv /\ GuardInv
    BY <1>1 DEF Init, CopyInv, FileInv, GuardInv, Unique, Authentic, AtFile
  <1>4. SerialInv
    BY <1>1 DEF Init, SerialInv, AloneInv, BrokenInv, LatestInv, HoldsLatest, AtFile
  <1> QED BY <1>2, <1>3, <1>4 DEF IInv

LEMMA SkipInv == ASSUME IInv, NEW w \in Writers, Skip(w) PROVE IInv'
  <1> USE DEF IInv, Skip
  <1>0. pc' = [pc EXCEPT ![w] = "returned"] /\ pc[w] = "idle" OBVIOUS
  <1>1. TypeOK' BY DEF TypeOK
  <1>2. \A v \in Writers : AtFile(v)' = AtFile(v) /\ (pc'[v] = "open") = (pc[v] = "open")
                           /\ (pc'[v] = "lost") = (pc[v] = "lost")
    BY <1>0 DEF TypeOK, AtFile
  <1>3. CopyInv' /\ FileInv' BY DEF CopyInv, FileInv, Unique, Authentic
  <1>4. GuardInv' BY <1>2 DEF GuardInv, Authorised
  <1>5. SerialInv'
    BY <1>2 DEF SerialInv, Serial, AloneInv, BrokenInv, LatestInv, HoldsLatest
  <1> QED BY <1>1, <1>3, <1>4, <1>5

LEMMA ReadInv == ASSUME IInv, NEW w \in Writers, Read(w) PROVE IInv'
  <1> USE DEF IInv
  <1>0. UNCHANGED <<file, id, basis, overwritten, latest>> BY DEF Read
  <1>1. TypeOK' BY DEF Read, TypeOK
  <1>2. \A v \in Writers : copy'[v] = copy[v] \/ copy'[v] = file.records
    BY DEF Read, TypeOK
  <1>3. CopyInv' /\ FileInv'
    BY <1>0, <1>2 DEF CopyInv, FileInv, Unique, Authentic
  <1>4. GuardInv' BY <1>0 DEF GuardInv, Authorised, AtFile, Read, TypeOK
  <1>5. ASSUME Serial' PROVE SerialInv'
    <2>1. Serial /\ ~Busy
      BY <1>5 DEF Serial, Read, TypeOK
    <2>2. \A v \in Writers : ~AtFile(v) /\ pc[v] # "open"
      BY <2>1 DEF Busy, AtFile
    <2>3. overwritten = {} /\ file.state # "broken" /\ HoldsLatest(file.records)
      BY <2>1, <2>2 DEF SerialInv, BrokenInv, LatestInv
    <2>4. pc' = [pc EXCEPT ![w] = "read"] /\ copy' = [copy EXCEPT ![w] = file.records]
      BY <2>3 DEF Read
    <2>5. /\ \A v \in Writers : AtFile(v)' <=> v = w
          /\ \A v \in Writers : pc'[v] # "open"
          /\ copy'[w] = file.records
      BY <2>2, <2>4 DEF AtFile, TypeOK
    <2>6. AloneInv' BY <2>5 DEF AloneInv
    <2>7. BrokenInv' BY <1>0, <2>3 DEF BrokenInv
    <2>8. LatestInv' BY <1>0, <2>3, <2>5 DEF LatestInv, HoldsLatest
    <2> QED BY <1>0, <2>3, <2>6, <2>7, <2>8 DEF SerialInv
  <1>6. SerialInv' BY <1>5 DEF SerialInv
  <1> QED BY <1>1, <1>3, <1>4, <1>6

LEMMA OpenInv == ASSUME IInv, NEW w \in Writers, Open(w) PROVE IInv'
  <1> USE DEF IInv, Open
  <1>1. TypeOK' BY DEF TypeOK, Broken
  <1>2. pc[w] = "read" /\ \A v \in Writers : AtFile(v)' = AtFile(v)
    BY DEF AtFile, TypeOK
  <1>3. CopyInv' /\ FileInv' BY DEF CopyInv, FileInv, Unique, Authentic, Broken
  <1>4. GuardInv' BY <1>2 DEF GuardInv, Authorised
  <1>5. pc'[w] = "open" BY DEF TypeOK
  <1>6. Serial' => Serial BY DEF Serial, TypeOK
  <1>7. SerialInv'
    BY <1>2, <1>5, <1>6 DEF SerialInv, AloneInv, BrokenInv, LatestInv, HoldsLatest
  <1> QED BY <1>1, <1>3, <1>4, <1>7

LEMMA FillInv == ASSUME IInv, NEW w \in Writers, Fill(w) PROVE IInv'
  <1> USE DEF IInv
  <1>0. pc[w] = "open" /\ UNCHANGED <<id, basis, copy, overlapped>>
    BY DEF Fill
  <1>1. AtFile(w) /\ Authorised(w)
    BY <1>0 DEF AtFile, GuardInv
  <1>2. file' = Readable(Upsert(w)) \/ file' = Broken
    BY DEF Fill
  <1>3. TypeOK'
    <2>1. Upsert(w) \subseteq Record BY UpsertType
    <2>2. file' \in [state : {"missing", "broken", "readable"}, records : SUBSET Record]
      BY <1>2, <2>1 DEF Readable, Broken
    <2>3. overwritten' \in SUBSET Writers BY DEF Fill, OthersOpen, TypeOK
    <2> QED BY <1>0, <2>2, <2>3 DEF Fill, TypeOK
  <1>4. Unique(Upsert(w)) /\ Authentic(Upsert(w))
    BY <1>1, UpsertSound
  <1>5. FileInv'
    BY <1>0, <1>2, <1>4 DEF FileInv, Unique, Authentic, Readable, Broken
  <1>6. CopyInv' BY <1>0 DEF CopyInv, Unique, Authentic
  <1>7. GuardInv' BY <1>0 DEF GuardInv, Authorised, AtFile, Fill, TypeOK
  <1>8. ASSUME Serial' PROVE SerialInv'
    <2>1. Serial
      <3>1. \A v \in Writers : v # w => pc'[v] = pc[v] BY DEF Fill, TypeOK
      <3> QED BY <1>8, <1>0, <3>1 DEF Serial
    <2>2. overwritten = {} /\ HoldsLatest(copy[w]) /\ \A v \in Writers : AtFile(v) => v = w
      BY <1>1, <2>1 DEF SerialInv, AloneInv, LatestInv
    <2>3. \A v \in Writers : pc'[v] # "open" /\ pc'[v] # "read"
      BY <2>2 DEF AtFile, Fill, TypeOK
    <2>4. file' = Readable(Upsert(w)) BY <2>2 DEF Fill
    <2>5. overwritten' = {} BY <2>2 DEF Fill, OthersOpen, AtFile
    <2>6. AloneInv' BY <2>3 DEF AloneInv, AtFile
    <2>7. BrokenInv' BY <2>4 DEF BrokenInv, Readable
    <2>8. HoldsLatest(file.records)'
      <3>1. latest' = [latest EXCEPT ![id[w]] = w] BY DEF Fill
      <3>2. file'.records = Upsert(w) BY <2>4 DEF Readable
      <3> QED BY <2>2, <3>1, <3>2, UpsertLatest DEF HoldsLatest
    <2>9. LatestInv' BY <2>3, <2>8 DEF LatestInv, AtFile
    <2> QED BY <2>5, <2>6, <2>7, <2>9 DEF SerialInv
  <1>9. SerialInv' BY <1>8 DEF SerialInv
  <1> QED BY <1>3, <1>5, <1>6, <1>7, <1>9

LEMMA LoseInv == ASSUME IInv, NEW w \in Writers, Lose(w) PROVE IInv'
  <1> USE DEF IInv, Lose
  <1>1. TypeOK' BY DEF TypeOK, Broken, OthersOpen
  <1>2. CopyInv' BY DEF CopyInv, Unique, Authentic
  <1>3. FileInv' BY DEF FileInv, Unique, Authentic, Broken
  <1>4. GuardInv' BY DEF GuardInv, Authorised, AtFile, TypeOK
  <1>5. ~Serial' BY DEF Serial, TypeOK
  <1> QED BY <1>1, <1>2, <1>3, <1>4, <1>5 DEF SerialInv

LEMMA StepInv == IInv /\ [Next]_vars => IInv'
  <1> SUFFICES ASSUME IInv, [Next]_vars PROVE IInv'
    OBVIOUS
  <1>1. ASSUME NEW w \in Writers, Skip(w) \/ Read(w) \/ Open(w) \/ Fill(w) \/ Lose(w)
        PROVE  IInv'
    BY <1>1, SkipInv, ReadInv, OpenInv, FillInv, LoseInv
  <1>2. CASE UNCHANGED vars
    <2>1. TypeOK' /\ CopyInv' /\ FileInv' /\ GuardInv'
      BY <1>2 DEF IInv, vars, TypeOK, CopyInv, FileInv, GuardInv, Unique, Authentic,
                  AtFile, Authorised
    <2>2. SerialInv'
      BY <1>2 DEF IInv, vars, SerialInv, Serial, AloneInv, BrokenInv, LatestInv,
                  HoldsLatest, AtFile
    <2> QED BY <2>1, <2>2 DEF IInv
  <1> QED BY <1>1, <1>2 DEF Next

LEMMA Inductive == Spec => []IInv
  <1> QED BY InitInv, StepInv, PTL DEF Spec

\* Every variable keeps its type.
THEOREM TypeCorrect == Spec => []TypeOK
  <1>1. IInv => TypeOK BY DEF IInv
  <1> QED BY <1>1, Inductive, PTL

\* However many writers overlap or die, a memory that can be read holds at most
\* one record per incident.
THEOREM RecordsAreUnique == Spec => []OneRecordPerIncident
  <1>1. IInv => OneRecordPerIncident
    BY DEF IInv, FileInv, Unique, OneRecordPerIncident
  <1> QED BY <1>1, Inductive, PTL

\* Nothing unapproved and uncorrected is ever in the memory, and every record is
\* filed under the incident its writer was called for.
THEOREM RecordsAreAuthorised == Spec => []OnlyAuthorised
  <1>1. IInv => OnlyAuthorised
    BY DEF IInv, FileInv, Authentic, OnlyAuthorised
  <1> QED BY <1>1, Inductive, PTL

\* Calls that do not overlap lose nothing: the memory can be read and holds the
\* last conclusion about every incident.
THEOREM SerialCallsKeepEverything == Spec => []SerialMemory
  <1>1. ASSUME IInv, ~overlapped, \A w \in Writers : pc[w] \notin {"read", "open", "lost"}
        PROVE  file.state # "broken" /\ HoldsLatest(file.records)
    <2>1. SerialInv /\ Serial /\ \A w \in Writers : pc[w] # "open"
      BY <1>1 DEF IInv, Serial
    <2> QED BY <2>1 DEF SerialInv, BrokenInv, LatestInv
  <1>2. IInv => SerialMemory
    BY <1>1 DEF SerialMemory, HoldsLatest
  <1> QED BY <1>2, Inductive, PTL
=============================================================================
