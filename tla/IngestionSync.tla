--------------------------- MODULE IngestionSync ---------------------------
(***************************************************************************)
(* One connector's sync jobs (app/ingestion): the worker task with its     *)
(* retries, the fetch/process loop inside a savepoint, the incremental     *)
(* `since` filter, and the delta links of a connector that supports resume *)
(* tokens (sharepoint.py), while the source is being edited.               *)
(*                                                                         *)
(* A job runs in one transaction: nothing it writes is visible before      *)
(* Commit, and a job that is killed leaves nothing.  Its document rows are *)
(* written inside a savepoint that a failure rolls back; the job and the   *)
(* connector rows are written outside it and survive the failure.          *)
(***************************************************************************)
EXTENDS Integers, Sequences, FiniteSets, FiniteSetsExt, SequencesExt

CONSTANTS
    Items,      \* the files of the source
    Contents,   \* what a file may hold (a content stands for its hash)
    Drives,     \* the sites of the connector, each the set of its files
    Tasks,      \* worker tasks that may exist at the same time
    NoItem,     \* "this page holds no file to ingest"
    FirstContent, \* what every file holds at first
    Racing,     \* environment: may a file be edited while a job runs?
    Reverting,  \* environment: may a file return to a content it had before?
    Faults,     \* environment: may a call fail, a worker die or time out?
    MaxTries,   \* arq's max_tries
    MaxClock    \* bound on edits and new tasks

ASSUME IngestionAssumption ==
    /\ Drives \in Seq(SUBSET Items) /\ Drives # <<>>
    /\ \A i \in Items : \E s \in 1..Len(Drives) : i \in Drives[s]
    /\ NoItem \notin Items /\ FirstContent \in Contents
    /\ {Racing, Reverting, Faults} \subseteq BOOLEAN
    /\ MaxTries \in Nat \ {0} /\ MaxClock \in Nat

VARIABLES
    clock,      \* time: one tick for each edit and each completed sync
    past,       \* the contents each file has had, oldest first
    modified,   \* the files' lastModifiedDateTime
    docs,       \* the committed documents
    config,     \* the connector_configs row: source, status, last_synced_at, _resume_token
    task,       \* the worker tasks
    excused     \* history: the files that no sync may fetch again unless they change

vars == <<clock, past, modified, docs, config, task, excused>>

Sites == 1..Len(Drives)
Never == 0      \* a null timestamp, and "no delta link"
Links == [Sites -> Nat]
Document == [item : Items, content : Contents, version : Nat]

Task == [
    pc      : {"off", "queued", "fetch", "process", "insert", "closing"},
    attempt : 0..MaxTries,                  \* arq's job_try
    status  : {"connecting", "active", "error"},  \* the row as the job loaded it
    since   : Nat,
    links   : Links,                        \* client.resume_state
    emitted : BOOLEAN,                      \* latest_resume_token is not None
    site    : 1..(Len(Drives) + 1),         \* the cursor: site_index,
    walk    : Nat,                          \*   when this site's walk began,
    left    : SUBSET Items,                 \*   and what next_link will return
    item    : Items \cup {NoItem},          \* the page just fetched
    content : Contents,
    version : Nat,                          \* what its row is to be
    rows    : SUBSET Document,              \* written inside the savepoint
    missed  : SUBSET Items,                 \* history: edited meanwhile, or skipped
    result  : {"none", "succeeded", "failed"},
    completed : Nat]

Off == [pc |-> "off", attempt |-> 0, status |-> "connecting", since |-> Never,
        links |-> [s \in Sites |-> Never], emitted |-> FALSE,
        site |-> 1, walk |-> Never, left |-> {}, item |-> NoItem,
        content |-> FirstContent, version |-> 0, rows |-> {}, missed |-> {},
        result |-> "none", completed |-> Never]

TypeOK ==
    /\ clock \in Nat
    /\ past \in [Items -> Seq(Contents)]
    /\ modified \in [Items -> Nat]
    /\ docs \subseteq Document
    /\ config \in [resumable : BOOLEAN, status : {"connecting", "active", "error"},
                  since : Nat, links : Links]
    /\ task \in [Tasks -> Task]
    /\ excused \subseteq Items

\* A registered connector is "connecting" until its first sync ends.  resumable:
\* its source is one that supports resume tokens.
Init ==
    /\ clock = 1
    /\ past = [i \in Items |-> <<FirstContent>>]
    /\ modified = [i \in Items |-> 1]
    /\ docs = {}
    /\ config \in [resumable : BOOLEAN, status : {"connecting"}, since : {Never},
                   links : {[s \in Sites |-> Never]}]
    /\ task = [t \in Tasks |-> Off]
    /\ excused = {}

-----------------------------------------------------------------------------
Running(t) == task[t].pc \in {"fetch", "process", "insert", "closing"}

Content(i) == Last(past[i])

\* get_latest_document: the rows of i with the highest version.
Latest(rows, i) ==
    {d \in rows : d.item = i /\ \A e \in rows : e.item = i => e.version <= d.version}

\* The source is edited by its users.
Edit(i, c) ==
    /\ clock < MaxClock
    /\ Racing \/ \A t \in Tasks : ~Running(t)
    /\ c # Content(i)
    /\ Reverting \/ c \notin ToSet(past[i])
    /\ clock' = clock + 1
    /\ past' = [past EXCEPT ![i] = Append(@, c)]
    /\ modified' = [modified EXCEPT ![i] = clock + 1]
    /\ task' = [t \in Tasks |->
                  IF Running(t) THEN [task[t] EXCEPT !.missed = @ \cup {i}] ELSE task[t]]
    /\ excused' = excused \ {i}
    /\ UNCHANGED <<docs, config>>

Enqueue(t) ==
    /\ task[t].pc = "off" /\ clock < MaxClock
    /\ task' = [task EXCEPT ![t] = [Off EXCEPT !.pc = "queued", !.attempt = 1]]
    /\ UNCHANGED <<clock, past, modified, docs, config, excused>>

\* POST /connectors/{id}/sync: an administrator asks for a sync.
SyncConnector(t) == Enqueue(t)

\* The hourly cron enqueues the connectors that are active or in error.
ScheduledReconciliation(t) == config.status \in {"active", "error"} /\ Enqueue(t)

\* The job loads the connector row; authenticate succeeds.
StartJob(t) ==
    /\ task[t].pc = "queued"
    /\ task' = [task EXCEPT ![t] =
         [Off EXCEPT !.pc = "fetch", !.attempt = task[t].attempt,
                     !.status = config.status, !.since = config.since,
                     !.links = IF config.resumable THEN config.links ELSE Off.links]]
    /\ UNCHANGED <<clock, past, modified, docs, config, excused>>

\* The source's delta answer for a site: the files changed since the link was
\* issued, all of them when there is no link (Microsoft Graph, from its use).
Changed(s, link) == {i \in Drives[s] : link = Never \/ modified[i] > link}

\* What the current site still has to return.
Answer(j) == IF j.walk = Never THEN Changed(j.site, j.links[j.site]) ELSE j.left

\* The job after a page with file i, or with no file at all.  A file not modified
\* since the last sync is dropped, and so is one whose download is refused
\* (_fetch_text_content): the walk goes on as if it had been read.  The last page
\* of a site carries the link from which the next sync resumes, and moves the
\* cursor on.
Fetched(j, i, refused) ==
    LET fresh == i # NoItem /\ (j.since = Never \/ modified[i] >= j.since)
        ends == Answer(j) \subseteq {i}
        walk == IF j.walk = Never THEN clock ELSE j.walk
    IN [j EXCEPT !.pc = "process",
                 !.item = IF fresh /\ ~refused THEN i ELSE NoItem,
                 !.content = IF fresh /\ ~refused THEN Content(i) ELSE @,
                 !.missed = IF fresh /\ refused THEN @ \cup {i} ELSE @,
                 !.site = IF ends THEN @ + 1 ELSE @,
                 !.walk = IF ends THEN Never ELSE walk,
                 !.left = Answer(j) \ {i},
                 !.links = IF ends /\ config.resumable THEN [@ EXCEPT ![j.site] = walk] ELSE @,
                 !.emitted = @ \/ (ends /\ config.resumable)]

\* fetch_batch: the next page of the current site, one file to a page, in the
\* order of the source.
FetchPage(t) ==
    /\ task[t].pc = "fetch"
    /\ \E i \in IF Answer(task[t]) = {} THEN {NoItem} ELSE Answer(task[t]) :
       \E refused \in IF Faults THEN BOOLEAN ELSE {FALSE} :
           task' = [task EXCEPT ![t] = Fetched(@, i, refused)]
    /\ UNCHANGED <<clock, past, modified, docs, config, excused>>

\* Mutant of Failed: no savepoint, the rows written so far stay.
FailedKeepingRows(j) == [j EXCEPT !.pc = "closing", !.version = 0, !.result = "failed"]

\* The savepoint is left by an exception: its rows are gone with everything the
\* loop knew, but for the resume token.
Failed(j) ==
    [Off EXCEPT !.pc = "closing", !.attempt = j.attempt, !.status = j.status,
                !.links = j.links, !.emitted = j.emitted, !.result = "failed"]

\* The loop goes on with the next page, or ends the sync.
Processed(j) ==
    LET next == [j EXCEPT !.item = NoItem, !.content = FirstContent, !.version = 0] IN
    IF j.site <= Len(Drives) THEN [next EXCEPT !.pc = "fetch"]
    ELSE [next EXCEPT !.pc = "closing", !.result = "succeeded", !.completed = clock + 1]

\* The unique key (organization, source, external_id, content_hash).
Keyed(rows, i, c) == \E d \in rows : d.item = i /\ d.content = c

\* An insert waits for the open transaction that holds its key.
Blocked(t) ==
    \E u \in Tasks \ {t} : Running(u) /\ Keyed(task[u].rows, task[t].item, task[t].content)

\* Mutant of NextVersion: every row is a first version.
AlwaysFirstVersion(latest) == 1

NextVersion(latest) == 1 + Max({d.version : d \in latest} \cup {0})

\* Mutant of Unchanged: a file that is known is never looked at again.
KnownIsUnchanged(t, latest) == task[t].item = NoItem \/ latest # {}

\* The file just fetched is the version the table already holds.
Unchanged(t, latest) ==
    task[t].item = NoItem \/ \E d \in latest : d.content = task[t].content

\* _process_one_item, up to the insert: the latest version is read, and decides
\* whether the file changed.
ProcessPage(t) ==
    /\ task[t].pc = "process"
    /\ LET j == task[t]
           latest == Latest(docs \cup j.rows, j.item)
       IN task' = [task EXCEPT ![t] =
            IF Unchanged(t, latest) THEN Processed(j)
            ELSE [j EXCEPT !.pc = "insert", !.version = NextVersion(latest)]]
    /\ clock' = IF task'[t].pc = "closing" THEN clock + 1 ELSE clock
    /\ UNCHANGED <<past, modified, docs, config, excused>>

\* insert_document: the row of the new version.
InsertDocument(t) ==
    /\ task[t].pc = "insert"
    /\ LET j == task[t] IN
       /\ ~Blocked(t) /\ ~Keyed(docs \cup j.rows, j.item, j.content)
       /\ task' = [task EXCEPT ![t] = Processed([j EXCEPT !.rows = @ \cup
                    {[item |-> j.item, content |-> j.content, version |-> j.version]}])]
    /\ clock' = IF task'[t].pc = "closing" THEN clock + 1 ELSE clock
    /\ UNCHANGED <<past, modified, docs, config, excused>>

\* insert_document: the key is taken, the insert raises.
InsertConflict(t) ==
    /\ task[t].pc = "insert"
    /\ LET j == task[t] IN
       /\ ~Blocked(t) /\ Keyed(docs \cup j.rows, j.item, j.content)
       /\ task' = [task EXCEPT ![t] = Failed(j)]
    /\ UNCHANGED <<clock, past, modified, docs, config, excused>>

\* Any other exception of the loop: a request, a parse, an embedding.
Fail(t) ==
    /\ Faults
    /\ task[t].pc \in {"fetch", "process", "insert"}
    /\ task' = [task EXCEPT ![t] = Failed(task[t])]
    /\ UNCHANGED <<clock, past, modified, docs, config, excused>>

\* Mutant of Retried: the tries are not counted.
RetriedForever(j) == [Off EXCEPT !.pc = "queued", !.attempt = j.attempt]

\* _schedule_retry raises Retry; arq drops a task that used up its tries.
Retried(j) ==
    IF j.attempt < MaxTries THEN [Off EXCEPT !.pc = "queued", !.attempt = j.attempt + 1]
    ELSE Off

\* Mutant of Reported: the job's status is copied into the connector's.
ReportedWithJobStatus(j) ==
    [config EXCEPT !.status = j.result,
                   !.since = IF j.result = "succeeded" THEN j.completed ELSE @,
                   !.links = IF j.emitted THEN j.links ELSE @]

\* Mutant of Reported: a failed sync counts as the last one, too.
ReportedSinceAlways(j) ==
    [config EXCEPT !.status = IF j.result = "succeeded" THEN "active" ELSE "error",
                   !.since = IF j.result = "succeeded" THEN j.completed ELSE clock + 1,
                   !.links = IF j.emitted THEN j.links ELSE @]

\* update_connector_sync_status: a column is written only when it differs from
\* the row as it was loaded; the token map replaces the one in the row.
Reported(j) ==
    LET status == IF j.result = "succeeded" THEN "active" ELSE "error" IN
    [config EXCEPT !.status = IF status # j.status THEN status ELSE @,
                   !.since = IF j.result = "succeeded" THEN j.completed ELSE @,
                   !.links = IF j.emitted THEN j.links ELSE @]

\* The last version of i holds what the file holds.
Current(i) == \E d \in Latest(docs, i) : d.content = Content(i)

\* What the end of job j puts out of sight: of a success, the files edited while it
\* ran or skipped, as last_synced_at is its end; of a failure, the files before
\* a link that it stores although their documents are rolled back.
Passed(j) ==
    IF j.result = "succeeded" THEN j.missed
    ELSE {i \in Items : j.emitted /\ \E s \in Sites :
             i \in Drives[s] /\ j.links[s] # config.links[s] /\ modified[i] <= j.links[s]}

\* The job returns, failed or not: session_scope commits, the task retries or ends.
Commit(t) ==
    /\ task[t].pc = "closing"
    /\ docs' = docs \cup task[t].rows
    /\ config' = Reported(task[t])
    /\ task' = [task EXCEPT ![t] = IF task[t].result = "failed" THEN Retried(task[t]) ELSE Off]
    /\ UNCHANGED <<clock, past, modified>>
    /\ excused' = {i \in excused \cup Passed(task[t]) : ~Current(i)'}

\* The worker dies: the transaction is lost and arq runs the task again.
WorkerDies(t) ==
    /\ Faults /\ Running(t)
    /\ task' = [task EXCEPT ![t] = Retried(task[t])]
    /\ UNCHANGED <<clock, past, modified, docs, config, excused>>

\* job_timeout cancels the job: the transaction is lost, and nothing retries it.
JobTimeout(t) ==
    /\ Faults /\ Running(t)
    /\ task' = [task EXCEPT ![t] = Off]
    /\ UNCHANGED <<clock, past, modified, docs, config, excused>>

Work(t) ==
    \/ StartJob(t) \/ FetchPage(t) \/ ProcessPage(t)
    \/ InsertDocument(t) \/ InsertConflict(t) \/ Commit(t)

Next ==
    \/ \E i \in Items, c \in Contents : Edit(i, c)
    \/ \E t \in Tasks :
        \/ SyncConnector(t)
        \/ ScheduledReconciliation(t)
        \/ Work(t)
        \/ Fail(t)
        \/ WorkerDies(t)
        \/ JobTimeout(t)

\* The worker pool keeps taking and running tasks, and an insert that waits for
\* the transaction that holds its key is woken when that transaction ends:
\* strong fairness, because a later transaction may take the key again.
Spec == Init /\ [][Next]_vars /\ \A t \in Tasks : SF_vars(Work(t))

-----------------------------------------------------------------------------
(* Properties.                                                              *)

\* A sync that ends with success leaves the last content of every file ingested,
\* whatever edits, failures, overlapping jobs and retries came before it, but for
\* the files that some job put out of sight: edited while it ran, skipped because
\* their download was refused, or passed by the link of a failed job
\* (_execute_ingestion_job, last_synced_at, _resume_token).
SyncIsComplete ==
    [][\A t \in Tasks :
        /\ task[t].pc = "closing" /\ task[t].result = "succeeded"
        /\ task'[t].pc = "off" /\ config'.since = task[t].completed
        => (\A i \in Items \ excused : Current(i))']_vars

\* "Safe even on failure": a link that a failed job stores does not lead past a
\* file whose last content is not ingested.
FailureKeepsLinksSafe ==
    [][config'.since = config.since =>
        \A s \in Sites : \A i \in Drives[s] :
            config'.links[s] # config.links[s] /\ modified[i] <= config'.links[s] => Current(i)']_vars

\* Documents appear only together with the success of their job: a failed or
\* killed job leaves none, although its job row and its links are committed (the
\* savepoint of _execute_ingestion_job).
DocumentsComeWithSuccess ==
    [][docs' # docs => \E t \in Tasks :
        /\ task[t].result = "succeeded" /\ task'[t].pc = "off"
        /\ config'.since = task[t].completed /\ config'.since # config.since]_vars

\* The versions of a file are numbered without gap or double, in the order in
\* which the source held those contents (get_latest_document, version + 1).
VersionsFollowTheSource ==
    \A d, e \in docs : d.item = e.item =>
        /\ \A v \in 1..d.version : \E f \in docs : f.item = d.item /\ f.version = v
        /\ d.version < e.version <=> \E m, n \in 1..Len(past[d.item]) :
               m < n /\ past[d.item][m] = d.content /\ past[d.item][n] = e.content

\* "A re-ingest with an unchanged hash conflicts harmlessly": with no fault of
\* the source or the worker, no job fails.
ReingestIsHarmless == \A t \in Tasks : task[t].result # "failed"

\* Every task ends: the retries are bounded (max_tries).
TasksEnd == \A t \in Tasks : task[t].pc = "queued" ~> task[t].pc = "off"
=============================================================================
