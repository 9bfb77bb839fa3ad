------------------------------- MODULE Warehouse -------------------------------
(***************************************************************************)
(* The warehouse file as database/connection.py hands it out.  Every query *)
(* of a diagnostic tool opens a connection of its own: get_connection      *)
(* chooses a file, connects, and proves that it can write by creating and  *)
(* dropping a probe table.  A process that finds the configured file       *)
(* missing or with a journal beside it goes to a file in the temporary     *)
(* directory, and stays there; a probe that fails, for whatever reason,    *)
(* deletes the file it failed on.  The callers are threads of several      *)
(* processes; SQLite's locks and the file system's errors are external.    *)
(*                                                                         *)
(* This is the default configuration: with DATABASE_PATH set there is      *)
(* neither probe nor fallback.  Nothing seeds the warehouse meanwhile.     *)
(***************************************************************************)
EXTENDS FiniteSets

CONSTANTS
    Callers,   \* threads that query the warehouse, one query at a time
    ProcessOf, \* the process each caller belongs to
    Given      \* what the two files may hold at first

Processes == {ProcessOf[c] : c \in Callers}
Files == {"configured", "fallback"}

\* What a file holds.  Connecting to an absent file creates it, empty.
Contents == {"absent", "empty", "stale", "current"}
Opened(contents) == IF contents = "absent" THEN "empty" ELSE contents

\* A warehouse seeded with the default settings is the fallback, since
\* seed.main goes through get_connection as well.  A configured file was
\* seeded through DATABASE_PATH or given a path, maybe after an older fallback.
Seedable ==
    {f \in [Files -> Contents] :
        \/ f["configured"] = "absent" /\ f["fallback"] \in {"absent", "current"}
        \/ f["configured"] = "current" /\ f["fallback"] \in {"absent", "stale"}}

VARIABLES
    content,   \* what each file holds
    hot,       \* files with a journal that a crash left behind
    switched,  \* _FALLBACK_DB_PATH is set, per process
    conn,      \* the connection of each caller
    first,     \* history: what the files held at the start
    misled,    \* history: callers that read something else than the given warehouse
    trouble    \* history: what has gone wrong

vars == <<content, hot, switched, conn, first, misled, trouble>>

\* Nothing; a process died in a probe; or worse, callers overlapped or the file
\* system refused a probe.
Troubles == {"none", "death", "worse"}

NoConnection == [at |-> "idle", file |-> "none", sees |-> "absent", live |-> TRUE]
Connections ==
    [at : {"idle", "chosen", "opened", "probing", "ready"}, file : Files \cup {"none"},
     sees : Contents, live : BOOLEAN]

Init ==
    /\ content \in Given \cap Seedable
    /\ hot = {}
    /\ switched = [p \in Processes |-> FALSE]
    /\ conn = [c \in Callers |-> NoConnection]
    /\ first = content
    /\ misled = {}
    /\ trouble = "none"

-----------------------------------------------------------------------------
At(c, step) == conn[c].at = step
Go(c, step) == conn' = [conn EXCEPT ![c].at = step]

\* Callers with a connection to the file that is at the path now.
Connected(f) == {c \in Callers : conn[c].file = f /\ ~At(c, "chosen") /\ conn[c].live}

\* <path>-journal exists: after a crash, and while anyone writes.
Journal(f) == f \in hot \/ \E c \in Connected(f) : At(c, "probing")

\* The configured file is not to be used, or not any more.
Leaves(p) == switched[p] \/ content["configured"] = "absent" \/ Journal("configured")

\* get_connection chooses the file.
MutChoose(c) ==
    /\ At(c, "idle")
    /\ LET leaves == Leaves(ProcessOf[c])
       IN  /\ switched' = [switched EXCEPT ![ProcessOf[c]] = leaves]
           /\ conn' = [conn EXCEPT ![c] = [NoConnection EXCEPT
                 !.at = "chosen", !.file = IF leaves THEN "fallback" ELSE "configured"]]
           /\ content' = IF leaves THEN [content EXCEPT !["configured"] = "absent"] ELSE content
    /\ trouble' = IF \E d \in Callers \ {c} : ~At(d, "idle") THEN "worse" ELSE trouble
    /\ UNCHANGED <<hot, first, misled>>
Choose(c) ==
    /\ At(c, "idle")
    /\ LET leaves == Leaves(ProcessOf[c])
       IN  /\ switched' = [switched EXCEPT ![ProcessOf[c]] = leaves]
           /\ conn' = [conn EXCEPT ![c] = [NoConnection EXCEPT
                 !.at = "chosen", !.file = IF leaves THEN "fallback" ELSE "configured"]]
    /\ trouble' = IF \E d \in Callers \ {c} : ~At(d, "idle") THEN "worse" ELSE trouble
    /\ UNCHANGED <<content, hot, first, misled>>

\* sqlite3.connect: whatever is at the path now.
Connect(c) ==
    /\ At(c, "chosen")
    /\ LET f == conn[c].file
       IN  /\ content' = [content EXCEPT ![f] = Opened(@)]
           /\ conn' = [conn EXCEPT ![c].at = "opened", ![c].sees = Opened(content[f])]
    /\ UNCHANGED <<hot, switched, first, misled, trouble>>

\* The first statement of the probe takes the write lock and its journal
\* appears; a journal left by a crash is rolled back.  A connection to a file
\* that was deleted is read-only.
Probe(c) ==
    /\ At(c, "opened") /\ conn[c].live
    /\ \A d \in Connected(conn[c].file) : ~At(d, "probing")
    /\ Go(c, "probing")
    /\ hot' = hot \ {conn[c].file}
    /\ UNCHANGED <<content, switched, first, misled, trouble>>

MutProbeOk(c) ==
    /\ At(c, "probing")
    /\ Go(c, "ready")
    /\ hot' = hot \cup {conn[c].file}
    /\ UNCHANGED <<content, switched, first, misled, trouble>>
\* The probe table is gone again, and the journal with the commit.
ProbeOk(c) ==
    /\ At(c, "probing")
    /\ Go(c, "ready")
    /\ UNCHANGED <<content, hot, switched, first, misled, trouble>>

\* Others hold a lock: they write, or they are reading.
Contended(c) ==
    \E d \in Connected(conn[c].file) \ {c} : At(d, "probing") \/ At(d, "ready")

\* What the files hold after the probe failed on f: with f deleted or not, the
\* caller goes on with the fallback.
AfterFailure(f, deleted) ==
    LET kept == IF deleted THEN [content EXCEPT ![f] = "absent"] ELSE content
    IN  [kept EXCEPT !["fallback"] = Opened(@)]

\* The probe raises an OperationalError: a lock is not released within five
\* seconds, the file was deleted under the connection, or the file system
\* refuses to write.  The file and then its journal are deleted, as far as the
\* file system lets them be, and the fallback is opened and used without a probe.
ProbeFails(c) ==
    /\ At(c, "opened") \/ At(c, "probing")
    /\ LET f == conn[c].file
       IN  \E gone \in {{}, {"file"}, {"file", "journal"}} :
             LET after == AfterFailure(f, "file" \in gone)
             IN  /\ content' = after
                 /\ hot' = IF "journal" \in gone THEN hot \ {f} ELSE hot
                 /\ conn' = [d \in Callers |->
                      IF d = c
                      THEN [at |-> "ready", file |-> "fallback",
                            sees |-> after["fallback"], live |-> TRUE]
                      ELSE IF d \in Connected(f) /\ "file" \in gone
                      THEN [conn[d] EXCEPT !.live = FALSE]
                      ELSE conn[d]]
    /\ switched' = [switched EXCEPT ![ProcessOf[c]] = TRUE]
    /\ trouble' = IF Contended(c) \/ ~conn[c].live THEN trouble ELSE "worse"
    /\ UNCHANGED <<first, misled>>

\* The warehouse the processes were given.
Home == IF first["configured"] = "absent" THEN "fallback" ELSE "configured"

\* run_query: read, and close the connection.  Only a file with tables answers.
Query(c) ==
    /\ At(c, "ready") /\ conn[c].sees \in {"stale", "current"}
    /\ misled' = IF conn[c].sees # first[Home] THEN misled \cup {c} ELSE misled
    /\ conn' = [conn EXCEPT ![c] = NoConnection]
    /\ UNCHANGED <<content, hot, switched, first, trouble>>

\* The file cannot be opened, or the query raises: an empty file has no tables,
\* a read may fail.  The tool that asked reports an error.
QueryFails(c) ==
    /\ At(c, "chosen") \/ At(c, "ready")
    /\ conn' = [conn EXCEPT ![c] = NoConnection]
    /\ UNCHANGED <<content, hot, switched, first, misled, trouble>>

\* A process dies and starts again: its connections are gone, _FALLBACK_DB_PATH
\* is unset, and the journal of a probe is left behind.
Crash(p) ==
    LET dead == {c \in Callers : ProcessOf[c] = p}
        left == {f \in Files : \E c \in dead \cap Connected(f) : At(c, "probing")}
    IN  /\ conn' = [c \in Callers |-> IF c \in dead THEN NoConnection ELSE conn[c]]
        /\ misled' = misled \ dead
        /\ switched' = [switched EXCEPT ![p] = FALSE]
        /\ hot' = hot \cup left
        /\ trouble' = IF trouble = "none" /\ left # {} THEN "death" ELSE trouble
        /\ UNCHANGED <<content, first>>

\* What a caller does next.
Proceed(c) ==
    \/ Connect(c) \/ Probe(c) \/ ProbeOk(c) \/ ProbeFails(c) \/ Query(c) \/ QueryFails(c)

Next ==
    \/ \E c \in Callers : Choose(c) \/ Proceed(c)
    \/ \E p \in Processes : Crash(p)

Spec == Init /\ [][Next]_vars /\ \A c \in Callers : WF_vars(Proceed(c))

-----------------------------------------------------------------------------
(* Correctness.                                                             *)

\* Every variable holds a value the code gives it.
TypeOK ==
    /\ content \in [Files -> Contents] /\ first \in [Files -> Contents]
    /\ hot \in SUBSET Files
    /\ switched \in [Processes -> BOOLEAN]
    /\ conn \in [Callers -> Connections]
    /\ misled \in SUBSET Callers
    /\ trouble \in Troubles

\* connection.py:41-68: the given warehouse is deleted only after queries
\* overlapped or the file system refused a probe.  A process that dies while it
\* probes, and the processes that find its journal, leave the file alone.
WarehouseKept ==
    trouble # "worse" => content[Home] \in {first[Home], Opened(first[Home])}

\* connection.py:41-46: nobody leaves a given configured file unless something
\* went wrong; and whatever went wrong, figures of another warehouse are only
\* read in a process that has left the configured file and will not go back to
\* it on its own.
FallbackForAReason ==
    /\ trouble = "none" /\ Home = "configured" => \A p \in Processes : ~switched[p]
    /\ \A c \in misled : switched[ProcessOf[c]]
=============================================================================
