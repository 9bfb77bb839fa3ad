---------------------------- MODULE WarehouseProofs ----------------------------
(***************************************************************************)
(* The warehouse for every number of callers and processes: only a query   *)
(* that overlaps another one, or a file system that refuses a probe, loses *)
(* the file that was given; and whoever reads figures of another one is in *)
(* a process that has left the configured file.                            *)
(***************************************************************************)
EXTENDS Warehouse, TLAPS

Active(c) == conn[c].at # "idle"

\* A caller that is past the choice has a file.
FileInv == \A c \in Callers : Active(c) => conn[c].file \in Files

\* Unless callers overlapped or a probe was refused, one at a time has a
\* connection, its file is not deleted under it, and the given file is kept.
AloneInv == \A c, d \in Callers : Active(c) /\ Active(d) => c = d
LiveInv == \A c \in Callers : Active(c) => conn[c].live
KeptInv == content[Home] \in {first[Home], Opened(first[Home])}
LoneInv == trouble # "worse" => AloneInv /\ LiveInv /\ KeptInv

\* Nothing went wrong: no journal is left behind, and nobody has a reason to
\* leave a configured file.
QuietInv ==
    trouble = "none" =>
        hot = {} /\ (Home = "configured" => \A p \in Processes : ~switched[p])

\* Whatever goes wrong, the configured file never holds anything new, and who is
\* connected to the fallback, or has read it, is in a process that switched.
ConfiguredInv == content["configured"] \in {"absent", "empty", first["configured"]}
SeesInv ==
    \A c \in Callers :
        conn[c].at \in {"opened", "probing", "ready"} /\ conn[c].file = "configured" =>
            conn[c].sees \in {"empty", first["configured"]}
SwitchedInv == \A c \in Callers : Active(c) /\ conn[c].file = "fallback" => switched[ProcessOf[c]]
MisledInv == \A c \in misled : switched[ProcessOf[c]]
LeftInv == ConfiguredInv /\ SeesInv /\ SwitchedInv /\ MisledInv

IInv == TypeOK /\ FileInv /\ LoneInv /\ QuietInv /\ LeftInv

-----------------------------------------------------------------------------
(* Types.                                                                   *)

LEMMA OpenedType == \A x \in Contents : Opened(x) \in Contents
  BY DEF Opened, Contents

LEMMA InitType == Init => TypeOK
  <1> SUFFICES ASSUME Init PROVE TypeOK OBVIOUS
  <1>1. content \in [Files -> Contents] BY DEF Init, Seedable
  <1>2. NoConnection \in Connections BY DEF NoConnection, Connections, Contents
  <1>3. trouble \in Troubles /\ misled \in SUBSET Callers BY DEF Init, Troubles
  <1> QED BY <1>1, <1>2, <1>3 DEF Init, TypeOK

\* The file that is opened instead of f is one of the two.
LEMMA AfterFailureType ==
    ASSUME TypeOK, NEW f \in Files, NEW deleted \in BOOLEAN
    PROVE  AfterFailure(f, deleted) \in [Files -> Contents]
  <1>1. (IF deleted THEN [content EXCEPT ![f] = "absent"] ELSE content) \in [Files -> Contents]
    BY DEF TypeOK, Contents
  <1>2. "fallback" \in Files BY DEF Files
  <1> QED BY <1>1, <1>2, OpenedType DEF AfterFailure

LEMMA ChooseType == ASSUME TypeOK, NEW c \in Callers, Choose(c) PROVE TypeOK'
  <1>1. ProcessOf[c] \in Processes BY DEF Processes
  <1>2. Leaves(ProcessOf[c]) \in BOOLEAN BY <1>1 DEF TypeOK, Leaves, Journal
  <1>3. switched' \in [Processes -> BOOLEAN] BY <1>1, <1>2 DEF Choose, TypeOK
  <1>4. \A f \in Files : [NoConnection EXCEPT !.at = "chosen", !.file = f] \in Connections
    BY DEF NoConnection, Connections, Contents, Files
  <1>5. (IF Leaves(ProcessOf[c]) THEN "fallback" ELSE "configured") \in Files BY DEF Files
  <1>6. conn' \in [Callers -> Connections] BY <1>4, <1>5 DEF Choose, TypeOK
  <1>7. trouble' \in Troubles BY DEF Choose, TypeOK, Troubles
  <1> QED BY <1>3, <1>6, <1>7 DEF Choose, TypeOK

LEMMA ConnectType == ASSUME TypeOK, NEW c \in Callers, conn[c].file \in Files, Connect(c) PROVE TypeOK'
  <1>1. Opened(content[conn[c].file]) \in Contents BY OpenedType DEF TypeOK
  <1>2. content' \in [Files -> Contents] BY <1>1, OpenedType DEF Connect, TypeOK
  <1>3. [[conn[c] EXCEPT !.at = "opened"] EXCEPT !.sees = Opened(content[conn[c].file])]
          \in Connections
    BY <1>1 DEF TypeOK, Connections
  <1>4. conn' = [conn EXCEPT ![c] =
          [[conn[c] EXCEPT !.at = "opened"] EXCEPT !.sees = Opened(content[conn[c].file])]]
    BY DEF Connect, TypeOK
  <1>5. conn' \in [Callers -> Connections] BY <1>3, <1>4 DEF TypeOK
  <1> QED BY <1>2, <1>5 DEF Connect, TypeOK

LEMMA ProbeType == ASSUME TypeOK, NEW c \in Callers, Probe(c) \/ ProbeOk(c) PROVE TypeOK'
  <1>1. conn' \in [Callers -> Connections] BY DEF Probe, ProbeOk, Go, TypeOK, Connections
  <1>2. hot' \in SUBSET Files BY DEF Probe, ProbeOk, TypeOK
  <1> QED BY <1>1, <1>2 DEF Probe, ProbeOk, TypeOK

\* What a failed probe leaves: an outcome for the file and its journal.
LEMMA FailureOutcome ==
    ASSUME NEW c \in Callers, ProbeFails(c)
    PROVE  \E deleted \in BOOLEAN :
              /\ content' = AfterFailure(conn[c].file, deleted)
              /\ conn' = [d \in Callers |->
                   IF d = c
                   THEN [at |-> "ready", file |-> "fallback",
                         sees |-> AfterFailure(conn[c].file, deleted)["fallback"], live |-> TRUE]
                   ELSE IF d \in Connected(conn[c].file) /\ deleted
                   THEN [conn[d] EXCEPT !.live = FALSE]
                   ELSE conn[d]]
  <1>1. PICK gone \in {{}, {"file"}, {"file", "journal"}} :
          /\ content' = AfterFailure(conn[c].file, "file" \in gone)
          /\ conn' = [d \in Callers |->
               IF d = c
               THEN [at |-> "ready", file |-> "fallback",
                     sees |-> AfterFailure(conn[c].file, "file" \in gone)["fallback"],
                     live |-> TRUE]
               ELSE IF d \in Connected(conn[c].file) /\ "file" \in gone
               THEN [conn[d] EXCEPT !.live = FALSE]
               ELSE conn[d]]
    BY DEF ProbeFails
  <1>2. ("file" \in gone) \in BOOLEAN OBVIOUS
  <1> QED BY <1>1, <1>2

LEMMA ProbeFailsType ==
    ASSUME TypeOK, NEW c \in Callers, conn[c].file \in Files, ProbeFails(c)
    PROVE  TypeOK'
  <1> DEFINE f == conn[c].file
  <1>1. PICK deleted \in BOOLEAN :
          /\ content' = AfterFailure(f, deleted)
          /\ conn' = [d \in Callers |->
               IF d = c
               THEN [at |-> "ready", file |-> "fallback",
                     sees |-> AfterFailure(f, deleted)["fallback"], live |-> TRUE]
               ELSE IF d \in Connected(f) /\ deleted THEN [conn[d] EXCEPT !.live = FALSE]
               ELSE conn[d]]
    BY FailureOutcome
  <1>2. AfterFailure(f, deleted) \in [Files -> Contents] BY AfterFailureType
  <1>3. AfterFailure(f, deleted)["fallback"] \in Contents BY <1>2 DEF Files
  <1>4. [at |-> "ready", file |-> "fallback", sees |-> AfterFailure(f, deleted)["fallback"],
         live |-> TRUE] \in Connections
    BY <1>3 DEF Connections, Files
  <1>5. \A d \in Callers : [conn[d] EXCEPT !.live = FALSE] \in Connections
    BY DEF TypeOK, Connections
  <1>6. conn' \in [Callers -> Connections] BY <1>1, <1>4, <1>5 DEF TypeOK
  <1>7. content' \in [Files -> Contents] BY <1>1, <1>2
  <1>8. hot' \in SUBSET Files BY DEF ProbeFails, TypeOK
  <1>9. switched' \in [Processes -> BOOLEAN] /\ trouble' \in Troubles
    BY DEF ProbeFails, TypeOK, Troubles
  <1>10. UNCHANGED <<first, misled>> BY DEF ProbeFails
  <1> QED BY <1>6, <1>7, <1>8, <1>9, <1>10 DEF TypeOK

LEMMA QueryType == ASSUME TypeOK, NEW c \in Callers, Query(c) \/ QueryFails(c) PROVE TypeOK'
  <1>1. NoConnection \in Connections BY DEF NoConnection, Connections, Contents
  <1>2. conn' \in [Callers -> Connections] BY <1>1 DEF Query, QueryFails, TypeOK
  <1>3. misled' \in SUBSET Callers BY DEF Query, QueryFails, TypeOK
  <1> QED BY <1>2, <1>3 DEF Query, QueryFails, TypeOK

LEMMA CrashType == ASSUME TypeOK, NEW p \in Processes, Crash(p) PROVE TypeOK'
  <1>1. NoConnection \in Connections BY DEF NoConnection, Connections, Contents
  <1>2. conn' \in [Callers -> Connections] BY <1>1 DEF Crash, TypeOK
  <1>3. misled' \in SUBSET Callers BY DEF Crash, TypeOK
  <1>4. hot' \in SUBSET Files /\ switched' \in [Processes -> BOOLEAN] BY DEF Crash, TypeOK
  <1>5. trouble' \in Troubles BY DEF Crash, TypeOK, Troubles
  <1> QED BY <1>2, <1>3, <1>4, <1>5 DEF Crash, TypeOK

\* The file a caller works on is one of the two at every step.
LEMMA FileKept == ASSUME TypeOK, FileInv, [Next]_vars PROVE FileInv'
  <1>1. CASE UNCHANGED vars BY <1>1 DEF vars, FileInv, Active
  <1>2. ASSUME NEW c \in Callers, Choose(c) PROVE FileInv'
    <2>1. (IF Leaves(ProcessOf[c]) THEN "fallback" ELSE "configured") \in Files BY DEF Files
    <2>2. conn'[c].file \in Files BY <1>2, <2>1 DEF Choose, TypeOK, NoConnection
    <2>3. \A d \in Callers \ {c} : conn'[d] = conn[d] BY <1>2 DEF Choose, TypeOK
    <2> QED BY <2>2, <2>3 DEF FileInv, Active
  <1>3. ASSUME NEW c \in Callers, Connect(c) \/ Probe(c) \/ ProbeOk(c) PROVE FileInv'
    <2>1. Active(c) BY <1>3 DEF Connect, Probe, ProbeOk, At, Active
    <2>2. \A d \in Callers : conn'[d].file = conn[d].file
      BY <1>3 DEF Connect, Probe, ProbeOk, Go, TypeOK, Connections
    <2>3. \A d \in Callers \ {c} : conn'[d] = conn[d]
      BY <1>3 DEF Connect, Probe, ProbeOk, Go, TypeOK
    <2> QED BY <2>1, <2>2, <2>3 DEF FileInv, Active
  <1>4. ASSUME NEW c \in Callers, ProbeFails(c) PROVE FileInv'
    <2>1. conn'[c].file = "fallback" BY <1>4 DEF ProbeFails
    <2>2. \A d \in Callers \ {c} : conn'[d].file = conn[d].file /\ conn'[d].at = conn[d].at
      BY <1>4, FailureOutcome DEF TypeOK, Connections
    <2> QED BY <2>1, <2>2 DEF FileInv, Active, Files
  <1>5. ASSUME NEW c \in Callers, Query(c) \/ QueryFails(c) PROVE FileInv'
    BY <1>5 DEF Query, QueryFails, TypeOK, FileInv, Active, NoConnection
  <1>6. ASSUME NEW p \in Processes, Crash(p) PROVE FileInv'
    BY <1>6 DEF Crash, FileInv, Active, NoConnection
  <1> QED BY <1>1, <1>2, <1>3, <1>4, <1>5, <1>6 DEF Next, Proceed

LEMMA TypeKept == ASSUME TypeOK, FileInv, [Next]_vars PROVE TypeOK'
  <1>1. CASE UNCHANGED vars BY <1>1 DEF vars, TypeOK
  <1>2. ASSUME NEW c \in Callers, Connect(c) \/ ProbeFails(c) PROVE TypeOK'
    <2>1. conn[c].file \in Files BY <1>2 DEF Connect, ProbeFails, At, FileInv, Active
    <2> QED BY <1>2, <2>1, ConnectType, ProbeFailsType
  <1> QED BY <1>1, <1>2, ChooseType, ProbeType, QueryType, CrashType DEF Next, Proceed
-----------------------------------------------------------------------------
(* What holds at first.                                                     *)

LEMMA InitQuiet == Init => FileInv /\ LoneInv /\ QuietInv /\ LeftInv
  <1> SUFFICES ASSUME Init PROVE FileInv /\ LoneInv /\ QuietInv /\ LeftInv OBVIOUS
  <1>1. \A c \in Callers : conn[c] = NoConnection /\ conn[c].at = "idle"
    BY DEF Init, NoConnection
  <1>2. content = first BY DEF Init
  <1>3. FileInv /\ AloneInv /\ LiveInv BY <1>1 DEF FileInv, AloneInv, LiveInv, Active
  <1>4. LoneInv BY <1>2, <1>3 DEF LoneInv, KeptInv
  <1>5. QuietInv BY DEF Init, QuietInv
  <1>6. LeftInv
    BY <1>1, <1>2 DEF Init, LeftInv, ConfiguredInv, SeesInv, SwitchedInv, MisledInv, Active
  <1> QED BY <1>3, <1>4, <1>5, <1>6

-----------------------------------------------------------------------------
(* As long as callers do not overlap and no probe is refused.               *)

\* The given warehouse is one of the files and stays the same; trouble stays.
LEMMA HomeIsFile == Home \in Files BY DEF Home, Files
LEMMA HomeStays == ASSUME [Next]_vars PROVE first' = first /\ Home' = Home
  BY DEF Next, Proceed, Choose, Connect, Probe, ProbeOk, ProbeFails, Query, QueryFails, Crash,
         vars, Home
LEMMA TroubleStays ==
    ASSUME TypeOK, [Next]_vars
    PROVE  /\ trouble' # "worse" => trouble # "worse"
           /\ trouble' = "none" => trouble = "none"
  BY DEF TypeOK, Troubles, Next, Proceed, Choose, Connect, Probe, ProbeOk, ProbeFails, Query,
         QueryFails, Crash, vars

\* One caller alone waits for no lock, and its file is there: if its probe fails,
\* then because it was refused.
LEMMA AloneIsRefused ==
    ASSUME LoneInv, NEW c \in Callers, ProbeFails(c)
    PROVE  trouble' = "worse"
  <1> SUFFICES ASSUME trouble # "worse" PROVE ~Contended(c) /\ conn[c].live
    BY DEF ProbeFails
  <1>1. AloneInv /\ LiveInv BY DEF LoneInv
  <1>2. Active(c) BY DEF ProbeFails, At, Active
  <1>3. \A d \in Callers \ {c} : ~At(d, "probing") /\ ~At(d, "ready")
    BY <1>1, <1>2 DEF AloneInv, Active, At
  <1> QED BY <1>1, <1>2, <1>3 DEF Contended, Connected, LiveInv

\* A caller that chooses is the only one.
LEMMA ChooserIsAlone ==
    ASSUME NEW c \in Callers, Choose(c), trouble' # "worse"
    PROVE  \A d \in Callers : ~Active(d)
  BY DEF Choose, At, Active

LEMMA LoneKept == ASSUME TypeOK, FileInv, LoneInv, [Next]_vars PROVE LoneInv'
  <1> SUFFICES ASSUME trouble' # "worse" PROVE (AloneInv /\ LiveInv /\ KeptInv)'
    BY DEF LoneInv
  <1>1. AloneInv /\ LiveInv /\ KeptInv BY TroubleStays DEF LoneInv
  <1>2. first' = first /\ Home' = Home BY HomeStays
  <1>3. CASE UNCHANGED vars
    BY <1>1, <1>2, <1>3 DEF vars, AloneInv, LiveInv, KeptInv, Active, Opened
  <1>4. ASSUME NEW c \in Callers, Choose(c) PROVE (AloneInv /\ LiveInv /\ KeptInv)'
    <2>1. \A d \in Callers : ~Active(d) BY <1>4, ChooserIsAlone
    <2>2. conn'[c].live /\ \A d \in Callers \ {c} : conn'[d] = conn[d]
      BY <1>4 DEF Choose, TypeOK, NoConnection
    <2>3. content' = content BY <1>4 DEF Choose
    <2>4. KeptInv' BY <1>1, <1>2, <2>3 DEF KeptInv, Opened
    <2>5. \A d \in Callers : Active(d)' => d = c BY <2>1, <2>2 DEF Active
    <2>6. AloneInv' BY <2>5 DEF AloneInv
    <2>7. LiveInv' BY <2>2, <2>5 DEF LiveInv
    <2> QED BY <2>4, <2>6, <2>7
  <1>5. ASSUME NEW c \in Callers, Connect(c) \/ Probe(c) \/ ProbeOk(c)
        PROVE  (AloneInv /\ LiveInv /\ KeptInv)'
    <2>1. Active(c) BY <1>5 DEF Connect, Probe, ProbeOk, At, Active
    <2>2. conn'[c].live = conn[c].live /\ \A d \in Callers \ {c} : conn'[d] = conn[d]
      BY <1>5 DEF Connect, Probe, ProbeOk, Go, TypeOK, Connections
    <2>3. \A d \in Callers : Active(d)' => Active(d) BY <2>1, <2>2 DEF Active
    <2>4. AloneInv' BY <1>1, <2>3 DEF AloneInv
    <2>5. LiveInv' BY <1>1, <2>1, <2>2, <2>3 DEF LiveInv
    <2>6. content'[Home] \in {content[Home], Opened(content[Home])}
      BY <1>5, HomeIsFile DEF Connect, Probe, ProbeOk, TypeOK
    <2>7. KeptInv' BY <1>1, <1>2, <2>6 DEF KeptInv, Opened
    <2> QED BY <2>4, <2>5, <2>7
  <1>6. ASSUME NEW c \in Callers, ProbeFails(c) PROVE (AloneInv /\ LiveInv /\ KeptInv)'
    BY <1>6, AloneIsRefused
  <1>7. ASSUME \A c \in Callers : conn'[c] \in {NoConnection, conn[c]}, UNCHANGED content
        PROVE  (AloneInv /\ LiveInv /\ KeptInv)'
    <2>1. \A c \in Callers : Active(c)' => Active(c) /\ conn'[c] = conn[c]
      BY <1>7 DEF Active, NoConnection
    <2>2. KeptInv' BY <1>1, <1>2, <1>7 DEF KeptInv, Opened
    <2> QED BY <1>1, <2>1, <2>2 DEF AloneInv, LiveInv
  <1>8. ASSUME NEW c \in Callers, Query(c) \/ QueryFails(c)
        PROVE  (AloneInv /\ LiveInv /\ KeptInv)'
    BY <1>7, <1>8 DEF Query, QueryFails, TypeOK
  <1>9. ASSUME NEW p \in Processes, Crash(p) PROVE (AloneInv /\ LiveInv /\ KeptInv)'
    BY <1>7, <1>9 DEF Crash
  <1> QED BY <1>3, <1>4, <1>5, <1>6, <1>8, <1>9 DEF Next, Proceed

-----------------------------------------------------------------------------
(* As long as nothing goes wrong.                                           *)

\* The caller finds the given configured file, without a journal.
LEMMA NobodyLeaves ==
    ASSUME TypeOK, LoneInv, QuietInv, LeftInv, NEW c \in Callers, Choose(c),
           trouble' = "none", Home = "configured"
    PROVE  ~Leaves(ProcessOf[c])
  <1>1. trouble = "none" BY DEF Choose
  <1>2. ~switched[ProcessOf[c]] BY <1>1 DEF QuietInv, Processes
  <1>3. content["configured"] # "absent" BY <1>1 DEF LoneInv, KeptInv, Home, Opened
  <1>4. \A d \in Callers : ~Active(d) BY ChooserIsAlone
  <1>5. ~Journal("configured") BY <1>1, <1>4 DEF QuietInv, Journal, Connected, Active, At
  <1> QED BY <1>2, <1>3, <1>5 DEF Leaves

LEMMA QuietKept == ASSUME TypeOK, LoneInv, QuietInv, LeftInv, [Next]_vars PROVE QuietInv'
  <1> SUFFICES ASSUME trouble' = "none"
               PROVE  hot' = {} /\ (Home = "configured" => \A p \in Processes : ~switched'[p])
    BY HomeStays DEF QuietInv
  <1>1. trouble = "none" BY TroubleStays
  <1>2. hot = {} /\ (Home = "configured" => \A p \in Processes : ~switched[p])
    BY <1>1 DEF QuietInv
  <1>3. ASSUME NEW c \in Callers, Choose(c)
        PROVE  hot' = {} /\ (Home = "configured" => \A p \in Processes : ~switched'[p])
    <2>1. hot' = {} BY <1>2, <1>3 DEF Choose
    <2>2. \A p \in Processes : switched'[p] \in {switched[p], Leaves(ProcessOf[c])}
      BY <1>3 DEF Choose, TypeOK
    <2> QED BY <1>2, <1>3, <2>1, <2>2, NobodyLeaves
  <1>4. ASSUME NEW c \in Callers, ProbeFails(c) PROVE FALSE BY <1>4, AloneIsRefused
  <1>5. CASE UNCHANGED vars BY <1>2, <1>5 DEF vars
  <1>6. ASSUME NEW c \in Callers,
               Connect(c) \/ Probe(c) \/ ProbeOk(c) \/ Query(c) \/ QueryFails(c)
        PROVE  hot' = {} /\ (Home = "configured" => \A p \in Processes : ~switched'[p])
    BY <1>2, <1>6 DEF Connect, Probe, ProbeOk, Query, QueryFails
  <1>7. ASSUME NEW p \in Processes, Crash(p)
        PROVE  hot' = {} /\ (Home = "configured" => \A q \in Processes : ~switched'[q])
    <2>1. hot' = {} BY <1>1, <1>2, <1>7 DEF Crash
    <2>2. \A q \in Processes : switched'[q] => switched[q] BY <1>7 DEF Crash, TypeOK
    <2> QED BY <1>2, <2>1, <2>2
  <1> QED BY <1>3, <1>4, <1>5, <1>6, <1>7 DEF Next, Proceed

-----------------------------------------------------------------------------
(* Whatever goes wrong.                                                     *)

LEMMA ChooseLeft ==
    ASSUME TypeOK, LeftInv, NEW c \in Callers, Choose(c)
    PROVE  LeftInv'
  <1>1. UNCHANGED <<content, first, misled>> BY DEF Choose
  <1>2. \A d \in Callers \ {c} : conn'[d] = conn[d] BY DEF Choose, TypeOK
  <1>3. /\ conn'[c].at = "chosen"
        /\ conn'[c].file = IF Leaves(ProcessOf[c]) THEN "fallback" ELSE "configured"
    BY DEF Choose, TypeOK, NoConnection
  <1>4. switched'[ProcessOf[c]] = Leaves(ProcessOf[c]) BY DEF Choose, TypeOK, Processes
  <1>5. \A d \in Callers : switched[ProcessOf[d]] => switched'[ProcessOf[d]]
    BY DEF Choose, Leaves, TypeOK, Processes
  <1>6. ConfiguredInv' BY <1>1 DEF LeftInv, ConfiguredInv
  <1>7. SeesInv' BY <1>1, <1>2, <1>3 DEF LeftInv, SeesInv
  <1>8. SwitchedInv' BY <1>2, <1>3, <1>4, <1>5 DEF LeftInv, SwitchedInv, Active
  <1>9. MisledInv' BY <1>1, <1>5 DEF LeftInv, MisledInv, TypeOK
  <1> QED BY <1>6, <1>7, <1>8, <1>9 DEF LeftInv

LEMMA ConnectLeft ==
    ASSUME TypeOK, FileInv, LeftInv, NEW c \in Callers, Connect(c)
    PROVE  LeftInv'
  <1>1. UNCHANGED <<first, misled, switched>> BY DEF Connect
  <1>2. \A d \in Callers \ {c} : conn'[d] = conn[d] BY DEF Connect, TypeOK
  <1>3. /\ conn'[c].file = conn[c].file /\ conn[c].file \in Files /\ Active(c)
        /\ conn'[c].sees = Opened(content[conn[c].file])
    BY DEF Connect, TypeOK, Connections, FileInv, At, Active
  <1>4. content'["configured"] \in {content["configured"], Opened(content["configured"])}
    BY DEF Connect, TypeOK, Files
  <1>5. ConfiguredInv' BY <1>1, <1>4 DEF LeftInv, ConfiguredInv, Opened
  <1>6. conn'[c].file = "configured" => conn'[c].sees \in {"empty", first["configured"]}
    BY <1>3 DEF LeftInv, ConfiguredInv, Opened
  <1>7. SeesInv' BY <1>1, <1>2, <1>6 DEF LeftInv, SeesInv
  <1>8. SwitchedInv' BY <1>1, <1>2, <1>3 DEF LeftInv, SwitchedInv, Active
  <1>9. MisledInv' BY <1>1 DEF LeftInv, MisledInv
  <1> QED BY <1>5, <1>7, <1>8, <1>9 DEF LeftInv

LEMMA ProbeLeft ==
    ASSUME TypeOK, LeftInv, NEW c \in Callers, Probe(c) \/ ProbeOk(c)
    PROVE  LeftInv'
  <1>1. UNCHANGED <<content, first, misled, switched>> BY DEF Probe, ProbeOk
  <1>2. \A d \in Callers \ {c} : conn'[d] = conn[d] BY DEF Probe, ProbeOk, Go, TypeOK
  <1>3. /\ conn[c].at \in {"opened", "probing"} /\ conn'[c].file = conn[c].file
        /\ conn'[c].sees = conn[c].sees
    BY DEF Probe, ProbeOk, Go, At, TypeOK, Connections
  <1>4. SeesInv' BY <1>1, <1>2, <1>3 DEF LeftInv, SeesInv
  <1>5. SwitchedInv' BY <1>1, <1>2, <1>3 DEF LeftInv, SwitchedInv, Active
  <1> QED BY <1>1, <1>4, <1>5 DEF LeftInv, ConfiguredInv, MisledInv

LEMMA FailureLeft ==
    ASSUME TypeOK, FileInv, LeftInv, NEW c \in Callers, ProbeFails(c)
    PROVE  LeftInv'
  <1>1. UNCHANGED <<first, misled>> BY DEF ProbeFails
  <1>2. conn'[c].file = "fallback" BY FailureOutcome
  <1>3. \A d \in Callers \ {c} :
          conn'[d].file = conn[d].file /\ conn'[d].at = conn[d].at /\ conn'[d].sees = conn[d].sees
    BY FailureOutcome DEF TypeOK, Connections
  <1>4. switched'[ProcessOf[c]] /\ \A d \in Callers : switched[ProcessOf[d]] => switched'[ProcessOf[d]]
    BY DEF ProbeFails, TypeOK, Processes
  <1>5. content'["configured"] \in {"absent", content["configured"]}
    <2>1. PICK deleted \in BOOLEAN : content' = AfterFailure(conn[c].file, deleted)
      BY FailureOutcome
    <2> QED BY <2>1 DEF AfterFailure, TypeOK, Files
  <1>6. ConfiguredInv' BY <1>1, <1>5 DEF LeftInv, ConfiguredInv
  <1>7. SeesInv' BY <1>1, <1>2, <1>3 DEF LeftInv, SeesInv
  <1>8. SwitchedInv' BY <1>2, <1>3, <1>4 DEF LeftInv, SwitchedInv, Active
  <1>9. MisledInv' BY <1>1, <1>4 DEF LeftInv, MisledInv, TypeOK
  <1> QED BY <1>6, <1>7, <1>8, <1>9 DEF LeftInv

\* What was read from the configured file is the given warehouse.
LEMMA QueryLeft ==
    ASSUME TypeOK, FileInv, LeftInv, NEW c \in Callers, Query(c) \/ QueryFails(c)
    PROVE  LeftInv'
  <1>1. UNCHANGED <<content, first, switched>> BY DEF Query, QueryFails
  <1>2. conn'[c] = NoConnection /\ \A d \in Callers \ {c} : conn'[d] = conn[d]
    BY DEF Query, QueryFails, TypeOK
  <1>3. SeesInv' BY <1>1, <1>2 DEF LeftInv, SeesInv, NoConnection
  <1>4. SwitchedInv' BY <1>1, <1>2 DEF LeftInv, SwitchedInv, Active, NoConnection
  <1>5. ASSUME Query(c), conn[c].sees # first[Home] PROVE switched[ProcessOf[c]]
    <2>1. /\ Active(c) /\ conn[c].at = "ready" /\ conn[c].sees \in {"stale", "current"}
      BY <1>5 DEF Query, At, Active
    <2>2. conn[c].file # "configured"
      <3> SUFFICES ASSUME conn[c].file = "configured" PROVE FALSE OBVIOUS
      <3>1. conn[c].sees = first["configured"] BY <2>1 DEF LeftInv, SeesInv
      <3>2. Home = "configured" BY <2>1, <3>1 DEF Home
      <3> QED BY <1>5, <3>1, <3>2
    <2>3. conn[c].file = "fallback" BY <2>1, <2>2 DEF FileInv, Files
    <2> QED BY <2>1, <2>3 DEF LeftInv, SwitchedInv
  <1>6. MisledInv' BY <1>1, <1>5 DEF Query, QueryFails, LeftInv, MisledInv
  <1> QED BY <1>1, <1>3, <1>4, <1>6 DEF LeftInv, ConfiguredInv

LEMMA CrashLeft ==
    ASSUME TypeOK, LeftInv, NEW p \in Processes, Crash(p)
    PROVE  LeftInv'
  <1>1. UNCHANGED <<content, first>> BY DEF Crash
  <1>2. \A c \in Callers : conn'[c] = IF ProcessOf[c] = p THEN NoConnection ELSE conn[c]
    BY DEF Crash
  <1>3. \A q \in Processes \ {p} : switched'[q] = switched[q] BY DEF Crash, TypeOK
  <1>4. \A c \in Callers : ProcessOf[c] # p => switched'[ProcessOf[c]] = switched[ProcessOf[c]]
    BY <1>3 DEF Processes
  <1>5. misled' = {c \in misled : ProcessOf[c] # p} BY DEF Crash, TypeOK
  <1>6. SeesInv' BY <1>1, <1>2 DEF LeftInv, SeesInv, NoConnection
  <1>7. SwitchedInv' BY <1>2, <1>4 DEF LeftInv, SwitchedInv, Active, NoConnection
  <1>8. MisledInv' BY <1>4, <1>5 DEF LeftInv, MisledInv, TypeOK
  <1> QED BY <1>1, <1>6, <1>7, <1>8 DEF LeftInv, ConfiguredInv

LEMMA LeftKept == ASSUME TypeOK, FileInv, LeftInv, [Next]_vars PROVE LeftInv'
  <1>1. CASE UNCHANGED vars
    BY <1>1 DEF vars, LeftInv, ConfiguredInv, SeesInv, SwitchedInv, MisledInv, Active
  <1> QED BY <1>1, ChooseLeft, ConnectLeft, ProbeLeft, FailureLeft, QueryLeft, CrashLeft
        DEF Next, Proceed

-----------------------------------------------------------------------------
\* The invariant is kept by every step.
LEMMA StepInv == ASSUME IInv, [Next]_vars PROVE IInv'
  BY TypeKept, FileKept, LoneKept, QuietKept, LeftKept DEF IInv

\* The types, and what the warehouse keeps through more and more trouble.
THEOREM Invariant == Spec => []IInv
  <1>1. Init => IInv BY InitType, InitQuiet DEF IInv
  <1>2. IInv /\ [Next]_vars => IInv' BY StepInv
  <1> QED BY <1>1, <1>2, PTL DEF Spec

\* Every variable of the warehouse keeps its type, for any callers, processes
\* and given contents.
THEOREM TypeCorrect == Spec => []TypeOK
  <1>1. IInv => TypeOK BY DEF IInv
  <1> QED BY Invariant, <1>1, PTL

\* Only callers that overlap, or a file system that refuses a probe, lose the
\* given warehouse.
THEOREM GivenIsKept == Spec => []WarehouseKept
  <1>1. IInv => WarehouseKept BY DEF IInv, LoneInv, KeptInv, WarehouseKept
  <1> QED BY Invariant, <1>1, PTL

\* Nobody leaves the configured file without trouble, and whoever is misled has
\* left it.
THEOREM LeavesForAReason == Spec => []FallbackForAReason
  <1>1. IInv => FallbackForAReason
    BY DEF IInv, QuietInv, LeftInv, MisledInv, FallbackForAReason
  <1> QED BY Invariant, <1>1, PTL
=============================================================================
