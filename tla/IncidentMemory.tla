---------------------------- MODULE IncidentMemory ----------------------------
(***************************************************************************)
(* The long-term incident memory of tools/memory_writeback.py: one JSON    *)
(* file, rewritten as a whole by every write_incident.  Writers are the    *)
(* console's request threads (the second stage of an approval) and graph   *)
(* runs resumed after a decision, in this or in another process; nothing   *)
(* locks the file.  Incidents are told apart by their id and by the write  *)
(* that produced them.                                                     *)
(***************************************************************************)
CONSTANTS
    IncidentIds,  \* INC-<date>-<metric>
    Writers       \* calls of write_incident, each with its own state

Bases == {"nothing", "approved", "correction"}
Record == [id : IncidentIds, by : Writers]
Missing == [state |-> "missing", records |-> {}]
Broken == [state |-> "broken", records |-> {}]
Readable(records) == [state |-> "readable", records |-> records]

VARIABLES
    file,        \* the memory file: missing, broken (no valid JSON), readable
    pc,          \* where each call is: idle, read, open, returned, raised, lost
    id,          \* the incident each call writes
    basis,       \* what each call rests on: approval, correction, neither
    copy,        \* the records each call read
    overwritten, \* calls that opened the file and saw another one fill it
    overlapped,  \* history: two calls were at the file at the same time
    latest       \* history: the last call to return written or learned, per id

vars == <<file, pc, id, basis, copy, overwritten, overlapped, latest>>

Nobody == "nobody"
AtFile(w) == pc[w] \in {"read", "open"}
Busy == \E w \in Writers : AtFile(w)

Init ==
    /\ file \in {Missing, Readable({})}
    /\ pc = [w \in Writers |-> "idle"]
    /\ id \in [Writers -> IncidentIds]
    /\ basis \in [Writers -> Bases]
    /\ copy = [w \in Writers |-> {}]
    /\ overwritten = {}
    /\ overlapped = FALSE
    /\ latest = [i \in IncidentIds |-> Nobody]

MutAuthorised(w) == TRUE
Authorised(w) == basis[w] # "nothing"

\* Neither approved nor corrected: skipped, the file is not touched.
Skip(w) ==
    /\ pc[w] = "idle" /\ ~Authorised(w)
    /\ pc' = [pc EXCEPT ![w] = "returned"]
    /\ UNCHANGED <<file, id, basis, copy, overwritten, overlapped, latest>>

\* Read the whole file; invalid JSON raises.
Read(w) ==
    /\ pc[w] = "idle" /\ Authorised(w)
    /\ IF file.state = "broken"
       THEN pc' = [pc EXCEPT ![w] = "raised"] /\ UNCHANGED copy
       ELSE /\ pc' = [pc EXCEPT ![w] = "read"]
            /\ copy' = [copy EXCEPT ![w] = file.records]
    /\ overlapped' = (overlapped \/ Busy)
    /\ UNCHANGED <<file, id, basis, overwritten, latest>>

\* write_text opens the file, which empties it.
Open(w) ==
    /\ pc[w] = "read"
    /\ pc' = [pc EXCEPT ![w] = "open"]
    /\ file' = Broken
    /\ overwritten' = overwritten \ {w}
    /\ UNCHANGED <<id, basis, copy, overlapped, latest>>

MutUpsertAppends(w) == copy[w] \cup {[id |-> id[w], by |-> w]}
MutUpsertForgets(w) == {[id |-> id[w], by |-> w]}
MutUpsertBare(w) == {r \in copy[w] : r.id # id[w]} \cup {[id |-> id[w]]}
\* Upsert by incident id into the copy.
Upsert(w) == {r \in copy[w] : r.id # id[w]} \cup {[id |-> id[w], by |-> w]}

OthersOpen(w) == {v \in Writers \ {w} : pc[v] = "open"}

\* The text is written from the start of the file.  After another call wrote
\* there, the rest of a longer text stays behind and the file is no JSON.
Fill(w) ==
    /\ pc[w] = "open"
    /\ \/ file' = Readable(Upsert(w))
       \/ w \in overwritten /\ file' = Broken
    /\ overwritten' = overwritten \cup OthersOpen(w)
    /\ pc' = [pc EXCEPT ![w] = "returned"]
    /\ latest' = [latest EXCEPT ![id[w]] = w]
    /\ UNCHANGED <<id, basis, copy, overlapped>>

\* The process dies, or the write itself fails: nothing was written, or a
\* part of the text.
Lose(w) ==
    /\ AtFile(w)
    /\ pc' = [pc EXCEPT ![w] = "lost"]
    /\ \/ UNCHANGED <<file, overwritten>>
       \/ /\ pc[w] = "open"
          /\ file' = Broken
          /\ overwritten' = overwritten \cup OthersOpen(w)
    /\ UNCHANGED <<id, basis, copy, overlapped, latest>>

Next == \E w \in Writers : Skip(w) \/ Read(w) \/ Open(w) \/ Fill(w) \/ Lose(w)

Spec == Init /\ [][Next]_vars

-----------------------------------------------------------------------------
(* Correctness.                                                             *)

\* Every variable holds a value the code gives it.
TypeOK ==
    /\ file \in [state : {"missing", "broken", "readable"}, records : SUBSET Record]
    /\ pc \in [Writers -> {"idle", "read", "open", "returned", "raised", "lost"}]
    /\ id \in [Writers -> IncidentIds]
    /\ basis \in [Writers -> Bases]
    /\ copy \in [Writers -> SUBSET Record]
    /\ overwritten \in SUBSET Writers
    /\ overlapped \in BOOLEAN
    /\ latest \in [IncidentIds -> Writers \cup {Nobody}]

\* memory_writeback.py:3: the upsert is idempotent.  A memory that can be read
\* holds one record per incident, however the calls overlapped.
OneRecordPerIncident ==
    \A r, s \in file.records : r.id = s.id => r = s

\* memory_writeback.py:1: only what a human approved or corrected is remembered,
\* and under the incident it was approved for.
OnlyAuthorised ==
    \A r \in file.records : basis[r.by] # "nothing" /\ id[r.by] = r.id

\* As long as no two calls overlap and none is cut off, the file is the memory:
\* it can be read, and it holds the last conclusion about every incident.
SerialMemory ==
    ~overlapped /\ (\A w \in Writers : pc[w] \notin {"read", "open", "lost"}) =>
        /\ file.state # "broken"
        /\ \A i \in IncidentIds : latest[i] # Nobody =>
              [id |-> i, by |-> latest[i]] \in file.records

\* server.py:881: an incident reported as written can be retrieved.
WrittenIsRetrievable ==
    ~Busy /\ (\A w \in Writers : pc[w] # "lost") =>
        \A i \in IncidentIds : latest[i] # Nobody =>
            file.state = "readable" /\ \E r \in file.records : r.id = i
=============================================================================
