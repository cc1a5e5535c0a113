------------------------ MODULE IngestionSyncProofs ------------------------
(***************************************************************************)
(* Proofs about IngestionSync.                                             *)
(***************************************************************************)
EXTENDS IngestionSync, TLAPS

-----------------------------------------------------------------------------
(* The inductive invariant, in five parts.                                  *)

\* One job at a time, or a source that waits for the jobs.
OneJob == \A t, u \in Tasks : t = u
Orderly == ~Racing \/ OneJob

\* The rows a task sees: the committed ones and its own.
Sees(t) == docs \cup task[t].rows

\* The file a task has fetched and not yet dealt with.
Pending(t) == task[t].pc \in {"process", "insert"} /\ task[t].item # NoItem

\* (1) What the fields of a task say at each stage, and which times are past.
Sound(j) ==
    /\ j.pc \in {"off", "queued"} => j.rows = {}
    /\ j.pc = "closing" <=> j.result # "none"
    /\ j.result = "failed" => j.rows = {}
    /\ j.pc = "fetch" => j.site \in Sites
    /\ j.pc = "insert" => j.item # NoItem
    /\ j.result = "succeeded" => j.site = Len(Drives) + 1

Past(links) == \A s \in Sites : links[s] <= clock

Timely ==
    /\ clock >= 1 /\ config.since <= clock /\ Past(config.links)
    /\ \A i \in Items : past[i] # <<>> /\ modified[i] \in 1..clock
    /\ \A t \in Tasks : task[t].walk <= clock /\ Past(task[t].links)
    /\ \A t \in Tasks : task[t].result = "succeeded" =>
          /\ task[t].completed \in 1..clock /\ task[t].completed # config.since
          /\ \A u \in Tasks \ {t} : task[u].result = "succeeded" =>
                task[u].completed # task[t].completed

Shape == TypeOK /\ Timely /\ \A t \in Tasks : Sound(task[t])

\* (2) The rows of open transactions have keys of their own, and hold what the
\* file still holds unless the task knows better.
Top(rows) == \A d \in rows : Latest(rows, d.item) # {}

Apart(t) ==
    /\ \A d \in task[t].rows : ~Keyed(docs, d.item, d.content)
    /\ \A u \in Tasks \ {t} : \A d \in task[t].rows : ~Keyed(task[u].rows, d.item, d.content)

Fresh(t) ==
    /\ \A d \in task[t].rows : d.item \in task[t].missed \/ d.content = Content(d.item)
    /\ Pending(t) => task[t].item \in task[t].missed \/ task[t].content = Content(task[t].item)

Keys == Top(docs) /\ \A t \in Tasks : Top(Sees(t)) /\ Apart(t) /\ Fresh(t)

\* (3) The rows of open transactions are the next versions of their files, and
\* two transactions never hold rows of one file, if the source waits for the jobs.
Follows(rows, i, v) ==
    /\ \A d \in rows : d.item = i => d.version < v
    /\ \A w \in 1..(v - 1) : \E d \in rows : d.item = i /\ d.version = w

Numbered(rows) ==
    \A d \in rows : \A v \in 1..d.version : \E e \in rows : e.item = d.item /\ e.version = v

Still(t) ==
    /\ \A d \in task[t].rows : d.content = Content(d.item)
    /\ Pending(t) => task[t].content = Content(task[t].item)

Held(t) ==
    /\ Numbered(Sees(t))
    /\ \A d \in task[t].rows : \A e \in docs : d.item = e.item => e.version < d.version
    /\ task[t].pc = "insert" =>
          \/ Keyed(docs, task[t].item, task[t].content)
          \/ Follows(Sees(t), task[t].item, task[t].version)
    /\ ~Racing => Still(t)

Rows == Numbered(docs) /\ \A t \in Tasks : Held(t)

\* (4) The versions of a file are in the order of its contents.
Precedes(h, b, c) ==
    \E m, n \in 1..Len(h) : m < n /\ h[m] = b /\ h[n] = c

InOrder(rows) ==
    \A d, e \in rows : d.item = e.item =>
        (d.version < e.version <=> Precedes(past[d.item], d.content, e.content))

WasHeld(h, c) == \E n \in 1..Len(h) : h[n] = c

Ordered(t) ==
    /\ InOrder(Sees(t))
    /\ \A d \in task[t].rows : WasHeld(past[d.item], d.content)
    /\ Pending(t) =>
          /\ WasHeld(past[task[t].item], task[t].content)
          /\ \A d \in Sees(t) : d.item = task[t].item =>
                d.content = task[t].content \/ Precedes(past[d.item], d.content, task[t].content)

Order ==
    /\ \A i \in Items : \A m, n \in 1..Len(past[i]) : past[i][m] = past[i][n] => m = n
    /\ InOrder(docs) /\ \A d \in docs : WasHeld(past[d.item], d.content)
    /\ \A t \in Tasks : Ordered(t)

\* (5) A file that is neither ingested nor excused is one that the next sync sees,
\* and that each running job that does not know better still has before it.
Visible(i) ==
    modified[i] > config.since /\ \A s \in Sites : i \in Drives[s] => modified[i] > config.links[s]

Covered(t, i) == \E d \in Latest(Sees(t), i) : d.content = Content(i)

Due(j, i) ==
    /\ modified[i] > j.since
    /\ \/ j.site \in Sites /\ i \in Answer(j)
       \/ \E s \in Sites : s > j.site /\ i \in Drives[s] /\ modified[i] > j.links[s]
       \/ j.pc \in {"process", "insert"} /\ i = j.item

Newer(t) ==
    task[t].pc = "insert" /\ task[t].item \notin excused \cup task[t].missed =>
        \/ Keyed(docs, task[t].item, task[t].content)
        \/ \A d \in Sees(t) : d.item = task[t].item => d.version < task[t].version

Accounted(t) ==
    Running(t) /\ task[t].result # "failed" =>
        \A i \in Items \ (excused \cup task[t].missed) : Covered(t, i) \/ Due(task[t], i)

Complete ==
    /\ \A i \in Items \ excused : Current(i) \/ Visible(i)
    /\ \A t \in Tasks : Newer(t) /\ Accounted(t)

-----------------------------------------------------------------------------
(* The records of the tasks.                                                *)

LEMMA OffType == Off \in Task /\ Off.pc = "off" /\ Off.rows = {} /\ Off.result = "none"
  BY IngestionAssumption DEF Off, Task, Sites, Links, Never

LEMMA SitesNat == Sites \subseteq Nat /\ Len(Drives) \in Nat \ {0} /\ \A s \in Sites : Drives[s] \subseteq Items
  BY IngestionAssumption DEF Sites

LEMMA ContentType == ASSUME TypeOK, Timely, NEW i \in Items PROVE Content(i) \in Contents
  BY DEF TypeOK, Timely, Content, Last

LEMMA AnswerType ==
    ASSUME TypeOK, NEW j \in Task, j.site \in Sites
    PROVE  Answer(j) \subseteq Items
  BY SitesNat DEF Answer, Changed, Task

LEMMA FetchedType ==
    ASSUME TypeOK, Timely, NEW j \in Task, j.site \in Sites, NEW refused \in BOOLEAN,
           NEW i \in IF Answer(j) = {} THEN {NoItem} ELSE Answer(j)
    PROVE  Fetched(j, i, refused) \in Task
<1> DEFINE fresh == i # NoItem /\ (j.since = Never \/ modified[i] >= j.since)
           ends == Answer(j) \subseteq {i}
           walk == IF j.walk = Never THEN clock ELSE j.walk
           item == IF fresh /\ ~refused THEN i ELSE NoItem
           content == IF fresh /\ ~refused THEN Content(i) ELSE j.content
           missed == IF fresh /\ refused THEN j.missed \cup {i} ELSE j.missed
           site == IF ends THEN j.site + 1 ELSE j.site
           next == IF ends THEN Never ELSE walk
           left == Answer(j) \ {i}
           links == IF ends /\ config.resumable THEN [j.links EXCEPT ![j.site] = walk] ELSE j.links
           emitted == j.emitted \/ (ends /\ config.resumable)
<1>1. i \in Items \cup {NoItem} /\ Answer(j) \subseteq Items
  BY AnswerType
<1>2. item \in Items \cup {NoItem} /\ content \in Contents /\ missed \subseteq Items
  BY <1>1, ContentType DEF Task
<1>3. site \in 1..(Len(Drives) + 1)
  BY SitesNat DEF Task, Sites
<1>4. walk \in Nat /\ next \in Nat /\ left \subseteq Items
  BY <1>1 DEF Task, TypeOK, Never
<1>5. links \in Links /\ emitted \in BOOLEAN
  BY <1>4 DEF Task, Links
<1>6. Fetched(j, i, refused) =
        [j EXCEPT !.pc = "process", !.item = item, !.content = content, !.missed = missed, !.site = site,
                  !.walk = next, !.left = left, !.links = links, !.emitted = emitted]
  BY DEF Fetched
<1> HIDE DEF fresh, ends, walk, item, content, missed, site, next, left, links, emitted
<1>7. [j EXCEPT !.pc = "process", !.item = item, !.content = content, !.missed = missed, !.site = site] \in Task
  BY ZenonT(60), <1>2, <1>3 DEF Task
<1>8. \A k \in Task : [k EXCEPT !.walk = next, !.left = left, !.links = links, !.emitted = emitted] \in Task
  BY ZenonT(60), <1>4, <1>5 DEF Task
<1>9. Fetched(j, i, refused) =
        [[j EXCEPT !.pc = "process", !.item = item, !.content = content, !.missed = missed, !.site = site]
          EXCEPT !.walk = next, !.left = left, !.links = links, !.emitted = emitted]
  BY <1>6
<1> QED
  BY <1>7, <1>8, <1>9

\* The version after those of the latest rows, which are all the same.
LEMMA LatestVersion ==
    ASSUME NEW R \in SUBSET Document, NEW i
    PROVE  LET latest == Latest(R, i) IN
           /\ latest = {} => NextVersion(latest) = 1
           /\ \A d \in latest : NextVersion(latest) = 1 + d.version
           /\ NextVersion(latest) \in Nat
<1> DEFINE latest == Latest(R, i)
<1>1. CASE latest = {}
  <2>1. {d.version : d \in latest} \cup {0} = {0}
    BY <1>1
  <2>2. Max({0}) = 0
    BY DEF Max
  <2> QED
    BY <1>1, <2>1, <2>2 DEF NextVersion
<1>2. ASSUME NEW d \in latest
      PROVE  NextVersion(latest) = 1 + d.version /\ d.version \in Nat
  <2>1. d.version \in Nat
    BY DEF Latest, Document
  <2>2. \A e \in latest : e.version = d.version
    <3>1. \A e \in latest : e.version \in Nat /\ e.version <= d.version /\ d.version <= e.version
      BY DEF Latest, Document
    <3> QED
      BY <2>1, <3>1
  <2>3. {e.version : e \in latest} \cup {0} = {d.version, 0}
    BY <2>2
  <2>4. Max({d.version, 0}) = d.version
    <3> DEFINE P(x) == x \in {d.version, 0} /\ \A y \in {d.version, 0} : x >= y
    <3>1. P(d.version) /\ \A x : P(x) => x = d.version
      BY <2>1
    <3> QED
      BY <3>1 DEF Max
  <2> QED
    BY <2>1, <2>3, <2>4 DEF NextVersion
<1> QED
  BY <1>1, <1>2

LEMMA FailedType ==
    ASSUME NEW j \in Task
    PROVE  /\ Failed(j) \in Task /\ Failed(j).pc = "closing" /\ Failed(j).rows = {}
           /\ Failed(j).result = "failed" /\ Failed(j).walk = Never /\ Failed(j).links = j.links
<1>1. j.attempt \in 0..MaxTries /\ j.links \in Links /\ j.emitted \in BOOLEAN
      /\ j.status \in {"connecting", "active", "error"}
  BY DEF Task
<1>2. Off.walk = Never
  BY DEF Off
<1> QED
  BY <1>1, <1>2, OffType DEF Failed, Task

LEMMA RetriedType ==
    ASSUME NEW j \in Task
    PROVE  /\ Retried(j) \in Task /\ Retried(j).pc \in {"off", "queued"} /\ Retried(j).rows = {}
           /\ Retried(j).result = "none" /\ Retried(j).walk = Never /\ Retried(j).links = Off.links
<1> Off.walk = Never
  BY DEF Off
<1>1. CASE j.attempt < MaxTries
  <2>1. j.attempt + 1 \in 0..MaxTries
    BY <1>1, IngestionAssumption DEF Task
  <2> QED
    BY <1>1, <2>1, OffType DEF Retried, Task
<1>2. CASE ~(j.attempt < MaxTries)
  BY <1>2, OffType DEF Retried
<1> QED
  BY <1>1, <1>2

\* The loop goes on with the next page, or ends with the success of the job.
LEMMA ProcessedType ==
    ASSUME TypeOK, NEW j \in Task, j.pc \in {"process", "insert"}, j.result = "none"
    PROVE  /\ Processed(j) \in Task /\ Processed(j).item = NoItem
           /\ Processed(j).rows = j.rows /\ Processed(j).missed = j.missed
           /\ Processed(j).since = j.since /\ Processed(j).links = j.links /\ Processed(j).site = j.site
           /\ Processed(j).walk = j.walk /\ Processed(j).left = j.left
           /\ \/ Processed(j).pc = "fetch" /\ Processed(j).result = "none" /\ j.site \in Sites
              \/ /\ Processed(j).pc = "closing" /\ Processed(j).result = "succeeded"
                 /\ Processed(j).completed = clock + 1 /\ j.site = Len(Drives) + 1
<1> DEFINE next == [j EXCEPT !.item = NoItem, !.content = FirstContent, !.version = 0]
<1>1. next \in Task /\ next.pc = j.pc /\ next.item = NoItem /\ next.rows = j.rows /\ next.missed = j.missed
      /\ next.since = j.since /\ next.links = j.links /\ next.site = j.site /\ next.walk = j.walk
      /\ next.left = j.left /\ next.result = j.result
  BY IngestionAssumption DEF Task
<1>2. Processed(j) = IF j.site <= Len(Drives) THEN [next EXCEPT !.pc = "fetch"]
                     ELSE [next EXCEPT !.pc = "closing", !.result = "succeeded", !.completed = clock + 1]
  BY DEF Processed
<1>3. clock + 1 \in Nat /\ j.site \in 1..(Len(Drives) + 1)
  BY DEF TypeOK, Task
<1> HIDE DEF next
<1>4. CASE j.site <= Len(Drives)
  <2>1. Processed(j) = [next EXCEPT !.pc = "fetch"] /\ j.site \in Sites
    BY <1>2, <1>3, <1>4, SitesNat DEF Sites
  <2> QED
    BY <1>1, <2>1 DEF Task
<1>5. CASE ~(j.site <= Len(Drives))
  <2>1. Processed(j) = [next EXCEPT !.pc = "closing", !.result = "succeeded", !.completed = clock + 1]
        /\ j.site = Len(Drives) + 1
    BY <1>2, <1>3, <1>5, SitesNat
  <2>2. Processed(j) \in Task
    BY ZenonT(60), <1>1, <1>3, <2>1 DEF Task
  <2> QED
    BY <1>1, <2>1, <2>2 DEF Task
<1> QED
  BY <1>4, <1>5

\* An edit changes nothing of a task but what it has missed.
LEMMA EditedTask ==
    ASSUME TypeOK, NEW i \in Items, NEW c \in Contents, Edit(i, c), NEW t \in Tasks
    PROVE  /\ task'[t] \in Task /\ task[t].missed \subseteq task'[t].missed
           /\ Running(t) => i \in task'[t].missed
           /\ task'[t].pc = task[t].pc /\ task'[t].since = task[t].since /\ task'[t].links = task[t].links
           /\ task'[t].site = task[t].site /\ task'[t].walk = task[t].walk /\ task'[t].left = task[t].left
           /\ task'[t].item = task[t].item /\ task'[t].content = task[t].content
           /\ task'[t].version = task[t].version /\ task'[t].rows = task[t].rows
           /\ task'[t].result = task[t].result /\ task'[t].completed = task[t].completed
<1>1. task[t] \in Task
  BY DEF TypeOK
<1>2. task'[t] = IF Running(t) THEN [task[t] EXCEPT !.missed = @ \cup {i}] ELSE task[t]
  BY DEF Edit
<1> QED
  BY <1>1, <1>2 DEF Task

-----------------------------------------------------------------------------
(* Part 1: the shape.                                                       *)

LEMMA ShapeInit == Init => Shape
<1> SUFFICES ASSUME Init PROVE Shape
  OBVIOUS
<1> Off.walk = Never /\ \A s \in Sites : Off.links[s] = Never
  BY DEF Off
<1>1. task \in [Tasks -> Task]
      /\ config \in [resumable : BOOLEAN, status : {"connecting", "active", "error"}, since : Nat, links : Links]
  BY OffType DEF Init, Links, Never
<1>2. TypeOK
  BY <1>1, IngestionAssumption DEF Init, TypeOK
<1>3. \A t \in Tasks : Sound(task[t])
  BY OffType DEF Init, Sound
<1>4. Timely
  BY OffType DEF Init, Timely, Never, Past
<1> QED
  BY <1>2, <1>3, <1>4 DEF Shape

\* A step of one task that leaves the tables alone.
LEMMA OneTask ==
    ASSUME Shape, NEW t \in Tasks, NEW r \in Task, task' = [task EXCEPT ![t] = r],
           UNCHANGED <<past, modified, docs, config, excused>>, clock' \in {clock, clock + 1}, Sound(r),
           r.walk <= clock, Past(r.links),
           r.result = "succeeded" => clock' = clock + 1 /\ r.completed = clock + 1
    PROVE  Shape'
<1>1. TypeOK'
  BY DEF Shape, TypeOK
<1>2. \A u \in Tasks : task'[u] = IF u = t THEN r ELSE task[u]
  BY DEF Shape, TypeOK
<1>3. (\A u \in Tasks : Sound(task[u]))'
  BY <1>2 DEF Shape, Sound
<1>4. clock \in Nat /\ config.since \in Nat /\ modified \in [Items -> Nat] /\ config.links \in Links
  BY DEF Shape, TypeOK
<1>5. \A u \in Tasks : task'[u].walk <= clock' /\ Past(task[u].links)'
  <2>1. \A u \in Tasks : /\ task'[u].walk <= clock /\ Past(task'[u].links)
                         /\ task'[u].walk \in Nat /\ task'[u].links \in Links
    BY <1>2 DEF Shape, TypeOK, Timely, Task
  <2> QED
    BY <1>4, <2>1 DEF Past, Links
<1>6. Past(config.links)'
  BY <1>4 DEF Shape, Timely, Past, Links
<1>7. Timely'
  <2>1. clock' >= 1 /\ config'.since <= clock' /\ \A i \in Items : past'[i] # <<>> /\ modified'[i] \in 1..clock'
    BY <1>4 DEF Shape, Timely
  <2>2. \A u \in Tasks : task'[u].result = "succeeded" =>
          /\ task'[u].completed \in 1..clock' /\ task'[u].completed # config'.since
          /\ \A v \in Tasks \ {u} : task'[v].result = "succeeded" =>
                task'[v].completed # task'[u].completed
    BY <1>2, <1>4 DEF Shape, Timely
  <2> QED
    BY <1>5, <1>6, <2>1, <2>2 DEF Timely
<1> QED
  BY <1>1, <1>3, <1>7 DEF Shape

LEMMA ShapeEdit ==
    ASSUME Shape, NEW i \in Items, NEW c \in Contents, Edit(i, c)
    PROVE  Shape'
<1>1. /\ clock' = clock + 1 /\ past' = [past EXCEPT ![i] = Append(past[i], c)]
      /\ modified' = [modified EXCEPT ![i] = clock + 1] /\ UNCHANGED <<docs, config>> /\ excused' = excused \ {i}
      /\ clock \in Nat /\ TypeOK
  BY DEF Edit, Shape, TypeOK
<1>2. task' \in [Tasks -> Task]
  <2>1. \A t \in Tasks : task'[t] \in Task
    BY <1>1, EditedTask
  <2>2. task' = [t \in Tasks |-> task'[t]]
    BY DEF Edit
  <2> QED
    BY <2>1, <2>2
<1>3. TypeOK'
  BY <1>1, <1>2 DEF TypeOK
<1>4. \A t \in Tasks : task'[t].walk = task[t].walk /\ task'[t].links = task[t].links
        /\ task'[t].result = task[t].result /\ task'[t].completed = task[t].completed
  BY <1>1, EditedTask
<1>5. Timely'
  <2>1. \A t \in Tasks : task'[t].walk <= clock' /\ Past(task[t].links)'
    BY <1>1, <1>4 DEF Shape, TypeOK, Timely, Task, Links, Past
  <2>2. Past(config.links)' /\ config'.since <= clock' /\ clock' >= 1
    BY <1>1 DEF Shape, TypeOK, Timely, Links, Past
  <2>3. \A k \in Items : past'[k] # <<>> /\ modified'[k] \in 1..clock'
    BY <1>1 DEF Shape, TypeOK, Timely
  <2>4. \A u \in Tasks : task'[u].result = "succeeded" =>
          /\ task'[u].completed \in 1..clock' /\ task'[u].completed # config'.since
          /\ \A v \in Tasks \ {u} : task'[v].result = "succeeded" =>
                task'[v].completed # task'[u].completed
    BY <1>1, <1>4 DEF Shape, Timely
  <2> QED
    BY <2>1, <2>2, <2>3, <2>4 DEF Timely
<1>6. (\A t \in Tasks : Sound(task[t]))'
  BY <1>1, EditedTask DEF Shape, Sound
<1> QED
  BY <1>3, <1>5, <1>6 DEF Shape

LEMMA OffPast == ASSUME Shape PROVE Off.walk <= clock /\ Past(Off.links) /\ Never <= clock
  BY DEF Off, Shape, TypeOK, Timely, Past, Never

LEMMA ShapeEnqueue ==
    ASSUME Shape, NEW t \in Tasks, Enqueue(t)
    PROVE  Shape'
<1> DEFINE r == [Off EXCEPT !.pc = "queued", !.attempt = 1]
<1> 1 \in 0..MaxTries
  BY IngestionAssumption
<1>1. r \in Task /\ Sound(r) /\ r.result = "none"
  BY OffType DEF Task, Sound
<1>2. task' = [task EXCEPT ![t] = r] /\ UNCHANGED <<clock, past, modified, docs, config, excused>>
  BY DEF Enqueue
<1>3. r.walk <= clock /\ Past(r.links)
  BY OffPast, OffType DEF Task
<1> HIDE DEF r
<1> QED
  BY <1>1, <1>2, <1>3, OneTask

\* The job that a queued task starts.
Started(j) ==
    [Off EXCEPT !.pc = "fetch", !.attempt = j.attempt, !.status = config.status, !.since = config.since,
                !.links = IF config.resumable THEN config.links ELSE Off.links]

LEMMA StartedType ==
    ASSUME Shape, NEW j \in Task
    PROVE  /\ Started(j) \in Task /\ Started(j).pc = "fetch" /\ Started(j).site = 1 /\ Started(j).rows = {}
           /\ Started(j).result = "none" /\ Started(j).walk = Never /\ Started(j).since = config.since
           /\ \A s \in Sites : Started(j).links[s] \in {Never, config.links[s]}
<1> DEFINE links == IF config.resumable THEN config.links ELSE Off.links
<1>1. links \in Links /\ j.attempt \in 0..MaxTries /\ config.since \in Nat
      /\ config.status \in {"connecting", "active", "error"}
  BY OffType DEF Shape, TypeOK, Task
<1>2. Off.site = 1 /\ Off.walk = Never /\ \A s \in Sites : links[s] \in {Never, config.links[s]}
  BY SitesNat DEF Off, Sites
<1>3. Started(j) = [Off EXCEPT !.pc = "fetch", !.attempt = j.attempt, !.status = config.status,
                               !.since = config.since, !.links = links]
  BY DEF Started
<1> HIDE DEF links
<1> QED
  BY <1>1, <1>2, <1>3, OffType DEF Task

LEMMA ShapeStart ==
    ASSUME Shape, NEW t \in Tasks, StartJob(t)
    PROVE  Shape'
<1> DEFINE r == Started(task[t])
<1>1. task' = [task EXCEPT ![t] = r] /\ UNCHANGED <<clock, past, modified, docs, config, excused>>
  BY DEF StartJob, Started
<1>2. task[t] \in Task
  BY DEF Shape, TypeOK
<1>3. Sound(r)
  BY <1>2, StartedType, SitesNat DEF Sound, Sites
<1>4. r.walk <= clock /\ Past(r.links)
  BY <1>2, StartedType, OffPast DEF Past, Shape, Timely
<1> HIDE DEF r
<1>5. r \in Task /\ r.result = "none"
  BY <1>2, StartedType DEF r
<1> QED
  BY <1>1, <1>3, <1>4, <1>5, OneTask

LEMMA ShapeFetch ==
    ASSUME Shape, NEW t \in Tasks, FetchPage(t)
    PROVE  Shape'
<1> DEFINE j == task[t]
<1>1. j \in Task /\ j.site \in Sites /\ Sound(j) /\ j.result = "none"
  BY DEF Shape, TypeOK, FetchPage, Sound
<1>2. PICK i \in IF Answer(j) = {} THEN {NoItem} ELSE Answer(j), refused \in BOOLEAN :
        task' = [task EXCEPT ![t] = Fetched(j, i, refused)]
  BY DEF FetchPage, Shape, TypeOK
<1> DEFINE r == Fetched(j, i, refused)
<1>3. r \in Task
  BY <1>1, FetchedType DEF Shape
<1>4. r.pc = "process" /\ r.result = "none"
  BY <1>1 DEF Fetched, Task
<1>5. Sound(r)
  BY <1>4 DEF Sound
<1>6. r.walk <= clock /\ Past(r.links)
  <2> DEFINE ends == Answer(j) \subseteq {i}
             walk == IF j.walk = Never THEN clock ELSE j.walk
  <2>1. walk <= clock /\ walk \in Nat /\ Never <= clock /\ Past(j.links)
    BY <1>1, OffPast DEF Shape, TypeOK, Timely, Task
  <2>2. r.walk = (IF ends THEN Never ELSE walk)
        /\ r.links = (IF ends /\ config.resumable THEN [j.links EXCEPT ![j.site] = walk] ELSE j.links)
    BY <1>1 DEF Fetched, Task
  <2> HIDE DEF r, ends, walk
  <2> QED
    BY <1>1, <2>1, <2>2 DEF Past, Task, Links
<1> HIDE DEF r
<1> QED
  BY <1>2, <1>3, <1>4, <1>5, <1>6, OneTask DEF FetchPage, r

\* The end of a page.
LEMMA ProcessedSound ==
    ASSUME TypeOK, NEW j \in Task, j.pc \in {"process", "insert"}, j.result = "none"
    PROVE  /\ Sound(Processed(j)) /\ Processed(j).pc \in {"fetch", "closing"}
           /\ Processed(j).pc = "closing" => Processed(j).result = "succeeded" /\ Processed(j).completed = clock + 1
           /\ Processed(j).pc = "fetch" => Processed(j).result = "none"
           /\ Processed(j).rows = j.rows
  BY ProcessedType DEF Sound

LEMMA ShapeProcess ==
    ASSUME Shape, NEW t \in Tasks, ProcessPage(t)
    PROVE  Shape'
<1> DEFINE j == task[t]
           latest == Latest(Sees(t), j.item)
           insert == [j EXCEPT !.pc = "insert", !.version = NextVersion(latest)]
           r == IF Unchanged(t, latest) THEN Processed(j) ELSE insert
<1>1. j \in Task /\ j.pc = "process" /\ j.result = "none" /\ TypeOK
  BY DEF Shape, TypeOK, ProcessPage, Sound
<1>2. task' = [task EXCEPT ![t] = r] /\ UNCHANGED <<past, modified, docs, config, excused>>
      /\ clock' = IF task'[t].pc = "closing" THEN clock + 1 ELSE clock
  BY DEF ProcessPage, Sees
<1>3. task'[t] = r /\ j.walk <= clock /\ Past(j.links)
  BY <1>2 DEF Shape, TypeOK, Timely
<1> HIDE DEF j
<1>4. CASE Unchanged(t, latest)
  <2>1. Processed(j) \in Task /\ Processed(j).walk = j.walk /\ Processed(j).links = j.links
    BY <1>1, ProcessedType
  <2>2. r = Processed(j)
    BY <1>4
  <2> HIDE DEF r
  <2> QED
    BY <1>1, <1>2, <1>3, <2>1, <2>2, ProcessedSound, OneTask
<1>5. CASE ~Unchanged(t, latest)
  <2>1. r = insert
    BY <1>5
  <2>2. j.item # NoItem
    BY <1>5 DEF Unchanged, j
  <2>3. latest \subseteq Sees(t) /\ Sees(t) \subseteq Document
    BY <1>1 DEF Latest, Sees, TypeOK, Task, j
  <2>4. NextVersion(latest) \in Nat
    BY <2>3, LatestVersion
  <2> HIDE DEF latest
  <2>5. insert \in Task /\ insert.pc = "insert" /\ insert.result = "none" /\ insert.item # NoItem
        /\ insert.walk = j.walk /\ insert.links = j.links
    BY <1>1, <2>2, <2>4 DEF Task
  <2>6. Sound(insert)
    BY <2>5 DEF Sound
  <2> HIDE DEF insert
  <2>7. task' = [task EXCEPT ![t] = insert] /\ clock' = clock
    BY <1>2, <1>3, <2>1, <2>5
  <2> QED
    BY <1>2, <1>3, <2>5, <2>6, <2>7, OneTask
<1> QED
  BY <1>4, <1>5

\* The job of a task after its insert, before the loop goes on.
Inserted(t) ==
    [task[t] EXCEPT !.rows = @ \cup
        {[item |-> task[t].item, content |-> task[t].content, version |-> task[t].version]}]

LEMMA InsertedType ==
    ASSUME Shape, NEW t \in Tasks, task[t].pc = "insert"
    PROVE  LET j == task[t]
               k == Inserted(t)
               row == [item |-> j.item, content |-> j.content, version |-> j.version]
           IN /\ k \in Task /\ k.pc = "insert" /\ k.result = "none"
              /\ row \in Document /\ j.result = "none" /\ j \in Task /\ k.rows = j.rows \cup {row}
              /\ k.walk = j.walk /\ k.links = j.links /\ k.since = j.since /\ k.site = j.site
              /\ k.left = j.left /\ k.missed = j.missed
<1> DEFINE j == task[t]
           row == [item |-> j.item, content |-> j.content, version |-> j.version]
           rows == j.rows \cup {row}
<1>1. j \in Task /\ j.pc = "insert" /\ j.item # NoItem /\ j.result = "none"
  BY DEF Shape, TypeOK, Sound
<1> HIDE DEF j
<1>2. row \in Document
  BY <1>1 DEF Task, Document
<1>3. rows \subseteq Document
  BY <1>1, <1>2 DEF Task
<1>4. Inserted(t) = [j EXCEPT !.rows = rows]
  BY <1>1 DEF Inserted, j, Task
<1> HIDE DEF rows
<1>5. [j EXCEPT !.rows = rows] \in Task
  BY <1>1, <1>3 DEF Task
<1> QED
  BY <1>1, <1>2, <1>4, <1>5 DEF Task, j, rows

LEMMA ShapeInsert ==
    ASSUME Shape, NEW t \in Tasks, InsertDocument(t)
    PROVE  Shape'
<1>1. Inserted(t) \in Task /\ Inserted(t).pc = "insert" /\ Inserted(t).result = "none"
  BY InsertedType DEF InsertDocument
<1>2. task' = [task EXCEPT ![t] = Processed(Inserted(t))] /\ UNCHANGED <<past, modified, docs, config, excused>>
      /\ clock' = IF task'[t].pc = "closing" THEN clock + 1 ELSE clock
  BY DEF InsertDocument, Inserted
<1>3. task'[t] = Processed(Inserted(t)) /\ TypeOK
  BY <1>2 DEF Shape, TypeOK
<1>4. Processed(Inserted(t)) \in Task
  BY <1>1, <1>3, ProcessedType
<1>5. Processed(Inserted(t)).walk <= clock /\ Past(Processed(Inserted(t)).links)
  <2>1. Inserted(t).walk = task[t].walk /\ Inserted(t).links = task[t].links
    BY InsertedType DEF InsertDocument
  <2> QED
    BY <1>1, <1>3, <2>1, ProcessedType DEF Shape, Timely
<1> QED
  BY <1>1, <1>2, <1>3, <1>4, <1>5, ProcessedSound, OneTask

\* The job fails, or its task is run again, or dropped.
LEMMA ShapeEnds ==
    ASSUME Shape, NEW t \in Tasks, NEW r \in {Failed(task[t]), Retried(task[t]), Off},
           task' = [task EXCEPT ![t] = r], UNCHANGED <<clock, past, modified, docs, config, excused>>
    PROVE  Shape'
<1>1. task[t] \in Task
  BY DEF Shape, TypeOK
<1>2. r \in Task /\ Sound(r) /\ r.result # "succeeded"
  BY <1>1, FailedType, RetriedType, OffType DEF Sound
<1>3. r.walk <= clock /\ Past(r.links)
  BY <1>1, FailedType, RetriedType, OffPast DEF Shape, Timely
<1> QED
  BY <1>2, <1>3, OneTask

LEMMA ShapeCommit ==
    ASSUME Shape, NEW t \in Tasks, Commit(t)
    PROVE  Shape'
<1> DEFINE j == task[t]
           r == IF j.result = "failed" THEN Retried(j) ELSE Off
<1>1. j \in Task /\ j.pc = "closing" /\ config.since \in Nat /\ clock \in Nat
  BY DEF Shape, TypeOK, Commit
<1>2. r \in Task /\ Sound(r) /\ r.result = "none"
  BY <1>1, RetriedType, OffType DEF Sound
<1>3. /\ config' = Reported(j) /\ docs' = docs \cup j.rows /\ task' = [task EXCEPT ![t] = r]
      /\ UNCHANGED <<clock, past, modified>>
  BY DEF Commit
<1>4. config'.since = IF j.result = "succeeded" THEN j.completed ELSE config.since
  BY <1>1, <1>3 DEF Reported, Shape, TypeOK
<1>5. /\ config' \in [resumable : BOOLEAN, status : {"connecting", "active", "error"}, since : Nat, links : Links]
      /\ config'.links \in {j.links, config.links}
  BY <1>1, <1>3 DEF Reported, Shape, TypeOK, Task
<1> HIDE DEF r
<1>6. TypeOK'
  <2>1. task' \in [Tasks -> Task]
    BY <1>2, <1>3 DEF Shape, TypeOK
  <2>2. docs' \subseteq Document
    BY <1>1, <1>3 DEF Shape, TypeOK, Task
  <2>3. excused' \subseteq Items
    <3>1. Passed(j) \subseteq Items
      BY <1>1 DEF Passed, Task
    <3> QED
      BY <3>1 DEF Commit, Shape, TypeOK
  <2> QED
    BY <1>3, <1>5, <2>1, <2>2, <2>3 DEF Shape, TypeOK
<1>7. \A u \in Tasks : task'[u] = IF u = t THEN r ELSE task[u]
  BY <1>3 DEF Shape, TypeOK
<1>8. (\A u \in Tasks : Sound(task[u]))'
  BY <1>2, <1>7 DEF Shape, Sound
<1>9. Timely'
  <2>1. clock' >= 1 /\ config'.since <= clock' /\ \A i \in Items : past'[i] # <<>> /\ modified'[i] \in 1..clock'
    BY <1>3, <1>4 DEF Shape, Timely
  <2>2. Past(config.links)' /\ \A u \in Tasks : task'[u].walk <= clock' /\ Past(task[u].links)'
    <3>1. r.walk <= clock /\ Past(r.links)
      BY <1>1, RetriedType, OffPast DEF r
    <3> QED
      BY <1>3, <1>5, <1>7, <3>1 DEF Shape, Timely, Past
  <2>3. ASSUME NEW u \in Tasks, task'[u].result = "succeeded"
        PROVE  /\ task'[u].completed \in 1..clock' /\ task'[u].completed # config'.since
               /\ \A v \in Tasks \ {u} : task'[v].result = "succeeded" =>
                        task'[v].completed # task'[u].completed
    <3>1. u # t /\ task'[u] = task[u]
      BY <1>2, <1>7, <2>3
    <3>2. \A v \in Tasks \ {u} : task'[v].result = "succeeded" => task'[v] = task[v]
      BY <1>2, <1>7
    <3>3. task'[u].completed \in 1..clock' /\ task'[u].completed # config'.since
      BY <1>3, <1>4, <2>3, <3>1 DEF Shape, Timely
    <3> QED
      BY <2>3, <3>1, <3>2, <3>3 DEF Shape, Timely
  <2> QED
    BY <2>1, <2>2, <2>3 DEF Timely
<1> QED
  BY <1>6, <1>8, <1>9 DEF Shape

LEMMA ShapeNext ==
    ASSUME Shape, [Next]_vars
    PROVE  Shape'
<1>1. CASE UNCHANGED vars
  BY <1>1 DEF vars, Shape, TypeOK, Timely, Past, Sound
<1>2. ASSUME NEW i \in Items, NEW c \in Contents, Edit(i, c)
      PROVE  Shape'
  BY <1>2, ShapeEdit
<1>3. ASSUME NEW t \in Tasks, SyncConnector(t) \/ ScheduledReconciliation(t)
      PROVE  Shape'
  BY <1>3, ShapeEnqueue DEF SyncConnector, ScheduledReconciliation
<1>4. ASSUME NEW t \in Tasks, Work(t)
      PROVE  Shape'
  <2>1. CASE InsertConflict(t)
    BY <2>1, ShapeEnds DEF InsertConflict
  <2> QED
    BY <1>4, <2>1, ShapeStart, ShapeFetch, ShapeProcess, ShapeInsert, ShapeCommit DEF Work
<1>5. ASSUME NEW t \in Tasks, Fail(t) \/ WorkerDies(t) \/ JobTimeout(t)
      PROVE  Shape'
  BY <1>5, ShapeEnds DEF Fail, WorkerDies, JobTimeout
<1> QED
  BY <1>1, <1>2, <1>3, <1>4, <1>5 DEF Next

LEMMA ShapeInvariance == Spec => []Shape
<1> QED
  BY ShapeInit, ShapeNext, PTL DEF Spec

-----------------------------------------------------------------------------
(* Part 2: the keys of the open transactions.                               *)

LEMMA KeysInit == Init => Keys
<1> SUFFICES ASSUME Init PROVE Keys
  OBVIOUS
<1>1. docs = {} /\ \A t \in Tasks : task[t].rows = {} /\ task[t].pc = "off"
  BY OffType DEF Init
<1> QED
  BY <1>1 DEF Keys, Top, Apart, Fresh, Pending, Sees, Keyed

\* A step of one task that neither commits nor adds a row.
LEMMA KeysKept ==
    ASSUME Shape, Keys, NEW t \in Tasks, NEW r, task' = [task EXCEPT ![t] = r], UNCHANGED <<past, docs>>,
           (r.rows = task[t].rows /\ task[t].missed \subseteq r.missed) \/ r.rows = {},
           r.pc \in {"process", "insert"} /\ r.item # NoItem => r.item \in r.missed \/ r.content = Content(r.item)
    PROVE  Keys'
<1>1. \A u \in Tasks : task'[u] = IF u = t THEN r ELSE task[u]
  BY DEF Shape, TypeOK
<1>2. \A u \in Tasks : task'[u].rows \subseteq task[u].rows
  BY <1>1
<1>3. ASSUME NEW u \in Tasks
      PROVE  Top(Sees(u))' /\ Apart(u)' /\ Fresh(u)'
  <2>1. Top(Sees(u))'
    <3>1. Sees(u)' = Sees(u) \/ Sees(u)' = docs
      BY <1>1 DEF Sees
    <3>2. Top(Sees(u)) /\ Top(docs)
      BY DEF Keys
    <3> QED
      BY <3>1, <3>2 DEF Top, Latest
  <2>2. Apart(u)'
    BY <1>2 DEF Keys, Apart, Keyed
  <2>3. Fresh(u)'
    BY <1>1, <1>2 DEF Keys, Fresh, Pending, Content
  <2> QED
    BY <2>1, <2>2, <2>3
<1>4. Top(docs)'
  BY DEF Keys, Top, Latest
<1> QED
  BY <1>3, <1>4 DEF Keys

LEMMA KeysFetch ==
    ASSUME Shape, Keys, NEW t \in Tasks, FetchPage(t)
    PROVE  Keys'
<1>1. PICK i \in IF Answer(task[t]) = {} THEN {NoItem} ELSE Answer(task[t]), refused \in BOOLEAN :
        task' = [task EXCEPT ![t] = Fetched(task[t], i, refused)]
  BY DEF FetchPage, Shape, TypeOK
<1> DEFINE r == Fetched(task[t], i, refused)
<1>2. task[t] \in Task
  BY DEF Shape, TypeOK
<1>3. /\ r.rows = task[t].rows /\ task[t].missed \subseteq r.missed
      /\ r.item # NoItem => r.content = Content(r.item)
  BY <1>2 DEF Fetched, Task
<1> HIDE DEF r
<1> QED
  BY <1>1, <1>3, KeysKept DEF FetchPage, r

LEMMA KeysProcess ==
    ASSUME Shape, Keys, NEW t \in Tasks, ProcessPage(t)
    PROVE  Keys'
<1> DEFINE j == task[t]
           latest == Latest(Sees(t), j.item)
           insert == [j EXCEPT !.pc = "insert", !.version = NextVersion(latest)]
<1>1. j \in Task /\ j.pc = "process" /\ j.result = "none" /\ TypeOK
  BY DEF Shape, TypeOK, ProcessPage, Sound
<1>2. task' = [task EXCEPT ![t] = IF Unchanged(t, latest) THEN Processed(j) ELSE insert] /\ UNCHANGED <<past, docs>>
  BY DEF ProcessPage, Sees
<1>3. j.item # NoItem => j.item \in j.missed \/ j.content = Content(j.item)
  BY <1>1 DEF Keys, Fresh, Pending
<1>4. Processed(j).rows = j.rows /\ Processed(j).missed = j.missed /\ Processed(j).item = NoItem
  BY <1>1, ProcessedType
<1> HIDE DEF latest
<1>5. insert.rows = j.rows /\ insert.missed = j.missed /\ insert.item = j.item /\ insert.content = j.content
  BY <1>1 DEF Task
<1> HIDE DEF insert
<1>6. CASE Unchanged(t, latest)
  BY <1>2, <1>4, <1>6, KeysKept
<1>7. CASE ~Unchanged(t, latest)
  BY <1>2, <1>3, <1>5, <1>7, KeysKept
<1> QED
  BY <1>6, <1>7

LEMMA KeysInsert ==
    ASSUME Shape, Keys, NEW t \in Tasks, InsertDocument(t)
    PROVE  Keys'
<1> DEFINE j == task[t]
           row == [item |-> j.item, content |-> j.content, version |-> j.version]
           r == Processed(Inserted(t))
           R == Sees(t)
<1>1. j \in Task /\ j.pc = "insert" /\ j.item # NoItem /\ row \in Document /\ R \subseteq Document /\ TypeOK
  BY InsertedType DEF InsertDocument, Shape, TypeOK, Sees, Task, Sound
<1>2. r.rows = j.rows \cup {row} /\ r.pc \in {"fetch", "closing"} /\ r.missed = j.missed
  <2>1. /\ Inserted(t) \in Task /\ Inserted(t).pc = "insert" /\ Inserted(t).result = "none"
        /\ Inserted(t).rows = j.rows \cup {row} /\ Inserted(t).missed = j.missed
    BY <1>1, InsertedType
  <2> QED
    BY <1>1, <2>1, ProcessedType
<1>3. /\ task' = [task EXCEPT ![t] = r] /\ UNCHANGED <<past, docs>>
      /\ ~Blocked(t) /\ ~Keyed(R, j.item, j.content)
  BY DEF InsertDocument, Inserted, Sees
<1>4. \A u \in Tasks : task'[u] = IF u = t THEN r ELSE task[u]
  BY <1>3 DEF Shape, TypeOK
<1> HIDE DEF r
<1>5. Sees(t)' = R \cup {row} /\ \A u \in Tasks \ {t} : Sees(u)' = Sees(u)
  BY <1>2, <1>3, <1>4 DEF Sees
<1>6. \A u \in Tasks \ {t} : ~Keyed(task[u].rows, j.item, j.content)
  <2>1. \A u \in Tasks \ {t} : Running(u) \/ task[u].rows = {}
    BY DEF Shape, Sound, TypeOK, Task, Running
  <2> QED
    BY <1>3, <2>1 DEF Blocked, Keyed
<1>7. j.item \in j.missed \/ j.content = Content(j.item)
  BY <1>1 DEF Keys, Fresh, Pending
<1>8. ~Keyed(docs, j.item, j.content)
  BY <1>3 DEF Keyed, Sees
<1> HIDE DEF R, row
<1>9. row.item = j.item /\ row.content = j.content /\ row.version = j.version /\ row.version \in Nat
  BY <1>1 DEF row, Document
<1>10. Top(R \cup {row})
  <2>1. Top(R)
    BY DEF Keys, R
  <2>2. ASSUME NEW d \in R
        PROVE  Latest(R \cup {row}, d.item) # {}
    <3>1. PICK e \in Latest(R, d.item) : TRUE
      BY <2>1 DEF Top
    <3>2. e \in R /\ e.item = d.item /\ e.version \in Nat /\ \A f \in R : f.item = d.item => f.version <= e.version /\ f.version \in Nat
      BY <1>1, <3>1 DEF Latest, Document
    <3>3. e \in Latest(R \cup {row}, d.item) \/ row \in Latest(R \cup {row}, d.item)
      <4>1. CASE row.item # d.item \/ row.version <= e.version
        BY <3>2, <4>1 DEF Latest
      <4>2. CASE row.item = d.item /\ ~(row.version <= e.version)
        <5>1. \A f \in R : f.item = d.item => f.version <= row.version
          BY <1>9, <3>2, <4>2
        <5> QED
          BY <1>9, <4>2, <5>1 DEF Latest
      <4> QED
        BY <4>1, <4>2
    <3> QED
      BY <3>3
  <2>3. Latest(R \cup {row}, row.item) # {}
    <3>1. CASE \E d \in R : d.item = row.item
      BY <2>2, <3>1
    <3>2. CASE ~ \E d \in R : d.item = row.item
      <4>1. row \in Latest(R \cup {row}, row.item)
        BY <1>9, <3>2 DEF Latest
      <4> QED
        BY <4>1
    <3> QED
      BY <3>1, <3>2
  <2> QED
    BY <2>2, <2>3 DEF Top
<1>11. Top(Sees(t))' /\ Apart(t)' /\ Fresh(t)'
  <2>1. Top(Sees(t))'
    BY <1>5, <1>10 DEF Top, Latest
  <2>2. Apart(t)'
    BY <1>2, <1>3, <1>4, <1>6, <1>8, <1>9 DEF Keys, Apart, Keyed, j
  <2>3. Fresh(t)'
    BY <1>2, <1>3, <1>4, <1>7, <1>9 DEF Keys, Fresh, Pending, Content, j
  <2> QED
    BY <2>1, <2>2, <2>3
<1>12. ASSUME NEW u \in Tasks \ {t}
       PROVE  Top(Sees(u))' /\ Apart(u)' /\ Fresh(u)'
  <2>1. task'[u] = task[u] /\ Sees(u)' = Sees(u) /\ docs' = docs /\ past' = past
    BY <1>3, <1>4, <1>5
  <2>2. \A v \in Tasks \ {u} : \A d \in task[u].rows : ~Keyed(task'[v].rows, d.item, d.content)
    <3>1. \A d \in task[u].rows : ~(row.item = d.item /\ row.content = d.content)
      BY <1>6, <1>9 DEF Keyed
    <3>2. \A d \in task[u].rows : ~Keyed(j.rows \cup {row}, d.item, d.content)
      BY <3>1 DEF Keyed, Keys, Apart, j
    <3> QED
      BY <1>2, <1>4, <3>2 DEF Keys, Apart
  <2>3. Apart(u)'
    BY <2>1, <2>2 DEF Keys, Apart, Keyed
  <2>4. Top(Sees(u))'
    BY <2>1 DEF Keys, Top, Latest
  <2>5. Fresh(u)'
    BY <2>1 DEF Keys, Fresh, Pending, Content
  <2> QED
    BY <2>3, <2>4, <2>5
<1>13. Top(docs)'
  BY <1>3 DEF Keys, Top, Latest
<1> QED
  BY <1>11, <1>12, <1>13 DEF Keys

\* Where two sets of rows have latest ones, their union has.
LEMMA TopUnion ==
    ASSUME NEW A \in SUBSET Document, NEW B \in SUBSET Document, Top(A), Top(B)
    PROVE  Top(A \cup B)
<1> SUFFICES ASSUME NEW f \in A \cup B PROVE Latest(A \cup B, f.item) # {}
  BY DEF Top
<1> DEFINE i == f.item
           Highest(x) == x \in Latest(A \cup B, i)
<1>1. \A x \in A \cup B : x.version \in Nat
  BY DEF Document
<1>2. CASE ~ \E x \in A : x.item = i
  <2>1. PICK e \in Latest(B, i) : TRUE
    BY <1>2 DEF Top
  <2>2. Highest(e)
    BY <1>2, <2>1 DEF Latest
  <2> QED
    BY <2>2
<1>3. CASE ~ \E x \in B : x.item = i
  <2>1. PICK d \in Latest(A, i) : TRUE
    BY <1>3 DEF Top
  <2>2. Highest(d)
    BY <1>3, <2>1 DEF Latest
  <2> QED
    BY <2>2
<1>4. CASE (\E x \in A : x.item = i) /\ \E x \in B : x.item = i
  <2>1. PICK d \in Latest(A, i), e \in Latest(B, i) : TRUE
    BY <1>4 DEF Top
  <2>2. /\ d \in A /\ d.item = i /\ \A x \in A : x.item = i => x.version <= d.version
        /\ e \in B /\ e.item = i /\ \A x \in B : x.item = i => x.version <= e.version
        /\ d.version \in Nat /\ e.version \in Nat
    BY <1>1, <2>1 DEF Latest
  <2>3. CASE d.version <= e.version
    <3>1. \A x \in A \cup B : x.item = i => x.version <= e.version
      BY <1>1, <2>2, <2>3
    <3> QED
      BY <2>2, <3>1 DEF Latest
  <2>4. CASE e.version <= d.version
    <3>1. \A x \in A \cup B : x.item = i => x.version <= d.version
      BY <1>1, <2>2, <2>4
    <3> QED
      BY <2>2, <3>1 DEF Latest
  <2>5. d.version <= e.version \/ e.version <= d.version
    BY <2>2
  <2> QED
    BY <2>3, <2>4, <2>5
<1> QED
  BY <1>2, <1>3, <1>4

LEMMA KeysCommit ==
    ASSUME Shape, Keys, NEW t \in Tasks, Commit(t)
    PROVE  Keys'
<1> DEFINE r == IF task[t].result = "failed" THEN Retried(task[t]) ELSE Off
<1>1. docs' = Sees(t) /\ task' = [task EXCEPT ![t] = r] /\ past' = past
  BY DEF Commit, Sees
<1>2. r.rows = {} /\ r.pc \in {"off", "queued"}
  BY RetriedType, OffType DEF Shape, TypeOK
<1>3. \A u \in Tasks : task'[u] = IF u = t THEN r ELSE task[u]
  BY <1>1 DEF Shape, TypeOK
<1> HIDE DEF r
<1>4. Top(docs)'
  BY <1>1 DEF Keys, Top, Latest
<1>5. Top(Sees(t))' /\ Apart(t)' /\ Fresh(t)'
  <2>1. Sees(t)' = docs'
    BY <1>2, <1>3 DEF Sees
  <2>2. Top(Sees(t))'
    BY <1>4, <2>1 DEF Top, Latest
  <2> QED
    BY <1>2, <1>3, <2>2 DEF Apart, Fresh, Pending
<1>6. ASSUME NEW u \in Tasks \ {t}
      PROVE  Top(Sees(u))' /\ Apart(u)' /\ Fresh(u)'
  <2>1. task'[u] = task[u] /\ Sees(u)' = Sees(u) \cup Sees(t)
    BY <1>1, <1>3 DEF Sees
  <2>2. Top(Sees(u))'
    <3>1. Sees(u) \subseteq Document /\ Sees(t) \subseteq Document
      BY DEF Shape, TypeOK, Task, Sees
    <3>2. Top(Sees(u) \cup Sees(t))
      BY <3>1, TopUnion DEF Keys
    <3> QED
      BY <2>1, <3>2 DEF Top, Latest
  <2>3. Apart(u)'
    <3>1. \A d \in task[u].rows : ~Keyed(Sees(t), d.item, d.content)
      BY DEF Keys, Apart, Keyed, Sees
    <3> QED
      BY <1>1, <1>2, <1>3, <2>1, <3>1 DEF Keys, Apart, Keyed
  <2>4. Fresh(u)'
    BY <1>1, <2>1 DEF Keys, Fresh, Pending, Content
  <2> QED
    BY <2>2, <2>3, <2>4
<1> QED
  BY <1>4, <1>5, <1>6 DEF Keys

LEMMA KeysEdit ==
    ASSUME Shape, Keys, NEW i \in Items, NEW c \in Contents, Edit(i, c)
    PROVE  Keys'
<1>1. docs' = docs /\ past' = [past EXCEPT ![i] = Append(past[i], c)] /\ TypeOK
  BY DEF Edit, Shape
<1>2. \A k \in Items \ {i} : Content(k)' = Content(k)
  BY <1>1 DEF TypeOK, Content
<1>3. ASSUME NEW t \in Tasks
      PROVE  Top(Sees(t))' /\ Apart(t)' /\ Fresh(t)'
  <2>1. \A u \in Tasks : task'[u].rows = task[u].rows
    BY <1>1, EditedTask
  <2>2. Top(Sees(t))'
    <3>1. Sees(t)' = Sees(t)
      BY <1>1, <2>1 DEF Sees
    <3> QED
      BY <3>1 DEF Keys, Top, Latest
  <2>3. Apart(t)'
    BY <1>1, <2>1 DEF Keys, Apart, Keyed
  <2>4. Fresh(t)'
    <3>1. CASE Running(t)
      <4>1. task[t].rows \subseteq Document /\ task[t].item \in Items \cup {NoItem}
        BY DEF Shape, TypeOK, Task
      <4>2. \A d \in task[t].rows : d.item \in task'[t].missed \/ d.content = Content(d.item)'
        BY <1>1, <1>2, <3>1, <4>1, EditedTask DEF Keys, Fresh, Document
      <4>3. Pending(t) => task[t].item \in task'[t].missed \/ task[t].content = Content(task[t].item)'
        BY <1>1, <1>2, <3>1, <4>1, EditedTask DEF Keys, Fresh, Pending
      <4> QED
        BY <1>1, <4>2, <4>3, EditedTask DEF Fresh, Pending
    <3>2. CASE ~Running(t)
      <4>1. task'[t].rows = {} /\ ~Pending(t)'
        BY <1>1, <3>2, EditedTask DEF Running, Shape, Sound, TypeOK, Task, Pending
      <4> QED
        BY <4>1 DEF Fresh
    <3> QED
      BY <3>1, <3>2
  <2> QED
    BY <2>2, <2>3, <2>4
<1>4. Top(docs)'
  BY <1>1 DEF Keys, Top, Latest
<1> QED
  BY <1>3, <1>4 DEF Keys

LEMMA KeysNext ==
    ASSUME Shape, Keys, [Next]_vars
    PROVE  Keys'
<1>1. CASE UNCHANGED vars
  BY <1>1 DEF vars, Keys, Top, Latest, Apart, Fresh, Pending, Sees, Keyed, Content
<1>2. ASSUME NEW t \in Tasks, Enqueue(t)
      PROVE  Keys'
  <2> DEFINE r == [Off EXCEPT !.pc = "queued", !.attempt = 1]
  <2>1. r.rows = {} /\ r.pc = "queued" /\ task' = [task EXCEPT ![t] = r] /\ UNCHANGED <<past, docs>>
    BY <1>2, OffType DEF Enqueue, Task
  <2> HIDE DEF r
  <2> QED
    BY <2>1, KeysKept
<1>3. ASSUME NEW t \in Tasks, StartJob(t)
      PROVE  Keys'
  <2>1. task' = [task EXCEPT ![t] = Started(task[t])] /\ UNCHANGED <<past, docs>>
    BY <1>3 DEF StartJob, Started
  <2>2. Started(task[t]).rows = {} /\ Started(task[t]).pc = "fetch"
    BY StartedType DEF Shape, TypeOK
  <2> QED
    BY <2>1, <2>2, KeysKept
<1>4. ASSUME NEW t \in Tasks, Fail(t) \/ InsertConflict(t)
      PROVE  Keys'
  BY <1>4, FailedType, KeysKept DEF Fail, InsertConflict, Shape, TypeOK
<1>5. ASSUME NEW t \in Tasks, WorkerDies(t) \/ JobTimeout(t)
      PROVE  Keys'
  BY <1>5, RetriedType, OffType, KeysKept DEF WorkerDies, JobTimeout, Shape, TypeOK
<1> QED
  BY <1>1, <1>2, <1>3, <1>4, <1>5, KeysEdit, KeysFetch, KeysProcess, KeysInsert, KeysCommit
     DEF Next, Work, SyncConnector, ScheduledReconciliation

LEMMA KeysInvariance == Spec => []Keys
<1> QED
  BY KeysInit, KeysNext, ShapeInvariance, PTL DEF Spec

-----------------------------------------------------------------------------
(* Part 3: the versions of the rows.                                        *)

LEMMA RowsInit == Init => Rows
<1> SUFFICES ASSUME Init PROVE Rows
  OBVIOUS
<1>1. docs = {} /\ \A t \in Tasks : task[t].rows = {} /\ task[t].pc = "off"
  BY OffType DEF Init
<1> QED
  BY <1>1 DEF Rows, Held, Numbered, Still, Pending, Sees

\* A step of one task that neither commits nor adds a row.
LEMMA RowsKept ==
    ASSUME Shape, Rows, NEW t \in Tasks, NEW r, task' = [task EXCEPT ![t] = r], UNCHANGED <<past, docs>>,
           r.rows = task[t].rows \/ r.rows = {},
           r.pc = "insert" => r.rows = task[t].rows /\ Follows(Sees(t), r.item, r.version),
           ~Racing /\ r.pc \in {"process", "insert"} /\ r.item # NoItem => r.content = Content(r.item)
    PROVE  Rows'
<1>1. \A u \in Tasks : task'[u] = IF u = t THEN r ELSE task[u]
  BY DEF Shape, TypeOK
<1>2. \A u \in Tasks : task'[u].rows \subseteq task[u].rows
  BY <1>1
<1>3. ASSUME NEW u \in Tasks
      PROVE  Held(u)'
  <2>1. Numbered(Sees(u))'
    <3>1. Sees(u)' = Sees(u) \/ Sees(u)' = docs
      BY <1>1 DEF Sees
    <3>2. \A R : (R = Sees(u) \/ R = docs) => Numbered(R)
      BY DEF Rows, Held
    <3> QED
      BY <3>1, <3>2 DEF Numbered
  <2>2. \A d \in task'[u].rows : \A e \in docs' : d.item = e.item => e.version < d.version
    BY <1>2 DEF Rows, Held
  <2>3. task'[u].pc = "insert" =>
          \/ Keyed(docs', task'[u].item, task'[u].content)
          \/ Follows(Sees(u)', task'[u].item, task'[u].version)
    BY <1>1 DEF Rows, Held, Sees
  <2>4. ~Racing => Still(u)'
    BY <1>1, <1>2 DEF Rows, Held, Still, Pending, Content
  <2> QED
    BY <2>1, <2>2, <2>3, <2>4 DEF Held, Follows, Keyed
<1>4. Numbered(docs)'
  BY DEF Rows, Numbered
<1> QED
  BY <1>3, <1>4 DEF Rows

\* The version that ProcessPage gives to a file that changed.
LEMMA NextFollows ==
    ASSUME NEW R \in SUBSET Document, NEW i, Top(R), Numbered(R)
    PROVE  Follows(R, i, NextVersion(Latest(R, i)))
<1>1. CASE Latest(R, i) = {}
  <2>1. ~ \E d \in R : d.item = i
    BY <1>1 DEF Top
  <2>2. NextVersion(Latest(R, i)) = 1
    BY <1>1, LatestVersion
  <2> QED
    BY <2>1, <2>2 DEF Follows
<1>2. CASE Latest(R, i) # {}
  <2>1. PICK e \in Latest(R, i) : TRUE
    BY <1>2
  <2>2. e \in R /\ e.item = i /\ e.version \in Nat /\ \A d \in R : d.item = i => d.version <= e.version /\ d.version \in Nat
    BY <2>1 DEF Latest, Document
  <2>3. NextVersion(Latest(R, i)) = e.version + 1
    BY <2>1, <2>2, LatestVersion
  <2>4. \A d \in R : d.item = i => d.version < e.version + 1
    BY <2>2
  <2>5. \A w \in 1..((e.version + 1) - 1) : \E d \in R : d.item = i /\ d.version = w
    BY <2>2 DEF Numbered
  <2> QED
    BY <2>3, <2>4, <2>5 DEF Follows
<1> QED
  BY <1>1, <1>2

LEMMA RowsFetch ==
    ASSUME Shape, Rows, NEW t \in Tasks, FetchPage(t)
    PROVE  Rows'
<1>1. PICK i \in IF Answer(task[t]) = {} THEN {NoItem} ELSE Answer(task[t]), refused \in BOOLEAN :
        task' = [task EXCEPT ![t] = Fetched(task[t], i, refused)]
  BY DEF FetchPage, Shape, TypeOK
<1> DEFINE r == Fetched(task[t], i, refused)
<1>2. task[t] \in Task
  BY DEF Shape, TypeOK
<1>3. /\ r.rows = task[t].rows /\ r.pc = "process"
      /\ r.item # NoItem => r.content = Content(r.item)
  BY <1>2 DEF Fetched, Task
<1> HIDE DEF r
<1> QED
  BY <1>1, <1>3, RowsKept DEF FetchPage, r

LEMMA RowsProcess ==
    ASSUME Shape, Keys, Rows, NEW t \in Tasks, ProcessPage(t)
    PROVE  Rows'
<1> DEFINE j == task[t]
           latest == Latest(Sees(t), j.item)
           insert == [j EXCEPT !.pc = "insert", !.version = NextVersion(latest)]
<1>1. j \in Task /\ j.pc = "process" /\ j.result = "none" /\ TypeOK /\ Sees(t) \in SUBSET Document
  BY DEF Shape, TypeOK, ProcessPage, Sound, Sees, Task
<1>2. task' = [task EXCEPT ![t] = IF Unchanged(t, latest) THEN Processed(j) ELSE insert] /\ UNCHANGED <<past, docs>>
  BY DEF ProcessPage, Sees
<1>3. ~Racing /\ j.item # NoItem => j.content = Content(j.item)
  BY <1>1 DEF Rows, Held, Still, Pending
<1>4. CASE Unchanged(t, latest)
  <2>1. Processed(j).rows = j.rows /\ Processed(j).pc \in {"fetch", "closing"}
    BY <1>1, ProcessedSound
  <2> QED
    BY <1>2, <1>4, <2>1, RowsKept
<1>5. CASE ~Unchanged(t, latest)
  <2>1. Follows(Sees(t), j.item, NextVersion(latest))
    BY <1>1, NextFollows DEF Keys, Rows, Held
  <2>2. task' = [task EXCEPT ![t] = insert]
    BY <1>2, <1>5
  <2> HIDE DEF latest
  <2>3. insert.rows = j.rows /\ insert.pc = "insert" /\ insert.item = j.item /\ insert.content = j.content
        /\ insert.version = NextVersion(latest)
    BY <1>1 DEF Task
  <2> HIDE DEF insert
  <2> QED
    BY <1>2, <1>3, <2>1, <2>2, <2>3, RowsKept
<1> QED
  BY <1>4, <1>5

LEMMA RowsInsert ==
    ASSUME Shape, Rows, NEW t \in Tasks, InsertDocument(t)
    PROVE  Rows'
<1> DEFINE j == task[t]
           row == [item |-> j.item, content |-> j.content, version |-> j.version]
           r == Processed(Inserted(t))
           R == Sees(t)
<1>1. j \in Task /\ j.pc = "insert" /\ row \in Document /\ R \subseteq Document
  BY InsertedType DEF InsertDocument, Shape, TypeOK, Sees, Task
<1>2. r.rows = j.rows \cup {row} /\ r.pc \in {"fetch", "closing"}
  <2>1. /\ Inserted(t) \in Task /\ Inserted(t).pc = "insert" /\ Inserted(t).result = "none"
        /\ Inserted(t).rows = j.rows \cup {row}
    BY <1>1, InsertedType
  <2> QED
    BY <2>1, ProcessedSound DEF Shape
<1>3. /\ task' = [task EXCEPT ![t] = r] /\ UNCHANGED <<past, docs>>
      /\ ~Keyed(R, j.item, j.content)
  BY DEF InsertDocument, Inserted, Sees
<1>4. \A u \in Tasks : task'[u] = IF u = t THEN r ELSE task[u]
  BY <1>3 DEF Shape, TypeOK
<1> HIDE DEF r
<1>5. Sees(t)' = R \cup {row} /\ \A u \in Tasks \ {t} : Sees(u)' = Sees(u)
  BY <1>2, <1>3, <1>4 DEF Sees
<1>6. Follows(R, j.item, j.version)
  BY <1>1, <1>3 DEF Rows, Held, Keyed, Sees
<1> HIDE DEF R, j, row
<1>7. row.item = j.item /\ row.content = j.content /\ row.version = j.version /\ row.version \in Nat
  BY <1>1 DEF row, Document
<1>8. Numbered(R \cup {row})
  <2>1. Numbered(R)
    BY DEF Rows, Held, R
  <2>2. \A v \in 1..row.version : \E e \in R \cup {row} : e.item = row.item /\ e.version = v
    BY <1>6, <1>7 DEF Follows
  <2> QED
    BY <2>1, <2>2 DEF Numbered
<1>9. Held(t)'
  <2>1. Numbered(Sees(t))'
    BY <1>5, <1>8 DEF Numbered
  <2>2. \A d \in task'[t].rows : \A e \in docs' : d.item = e.item => e.version < d.version
    <3>1. \A e \in docs : e.item = row.item => e.version < row.version
      BY <1>6, <1>7 DEF Follows, R, Sees
    <3> QED
      BY <1>2, <1>3, <1>4, <3>1 DEF Rows, Held, j
  <2>3. ~Racing => Still(t)'
    <3>1. ~Racing => row.content = Content(row.item)
      BY <1>1, <1>7 DEF Rows, Held, Still, Pending, j, Shape, Sound
    <3> QED
      BY <1>2, <1>3, <1>4, <3>1 DEF Rows, Held, Still, Pending, Content, j
  <2>4. task'[t].pc # "insert"
    BY <1>2, <1>4
  <2> QED
    BY <2>1, <2>2, <2>3, <2>4 DEF Held
<1>10. ASSUME NEW u \in Tasks \ {t}
       PROVE  Held(u)'
  <2>1. task'[u] = task[u] /\ Sees(u)' = Sees(u) /\ docs' = docs /\ past' = past
    BY <1>3, <1>4, <1>5
  <2> QED
    BY <2>1 DEF Rows, Held, Numbered, Follows, Keyed, Still, Pending, Content
<1>11. Numbered(docs)'
  BY <1>3 DEF Rows, Numbered
<1> QED
  BY <1>9, <1>10, <1>11 DEF Rows

\* Two transactions hold no rows of one file, when the source waits for the jobs.
LEMMA RowsApart ==
    ASSUME Keys, Rows, ~Racing, NEW t \in Tasks, NEW u \in Tasks \ {t},
           NEW d \in task[t].rows, NEW e \in task[u].rows
    PROVE  d.item # e.item
<1>1. d.content = Content(d.item) /\ e.content = Content(e.item)
  BY DEF Rows, Held, Still
<1>2. ~Keyed(task[u].rows, d.item, d.content)
  BY DEF Keys, Apart
<1> QED
  BY <1>1, <1>2 DEF Keyed

LEMMA RowsCommit ==
    ASSUME Orderly, Shape, Keys, Rows, NEW t \in Tasks, Commit(t)
    PROVE  Rows'
<1> DEFINE r == IF task[t].result = "failed" THEN Retried(task[t]) ELSE Off
<1>1. docs' = Sees(t) /\ task' = [task EXCEPT ![t] = r] /\ past' = past
  BY DEF Commit, Sees
<1>2. r.rows = {} /\ r.pc \in {"off", "queued"}
  BY RetriedType, OffType DEF Shape, TypeOK
<1>3. \A u \in Tasks : task'[u] = IF u = t THEN r ELSE task[u]
  BY <1>1 DEF Shape, TypeOK
<1> HIDE DEF r
<1>4. Numbered(docs)'
  BY <1>1 DEF Rows, Held, Numbered
<1>5. Held(t)'
  <2>1. Sees(t)' = docs'
    BY <1>2, <1>3 DEF Sees
  <2>2. Numbered(Sees(t))'
    BY <1>4, <2>1 DEF Numbered
  <2> QED
    BY <1>2, <1>3, <2>2 DEF Held, Still, Pending
<1>6. ASSUME NEW u \in Tasks \ {t}
      PROVE  Held(u)'
  <2>1. ~Racing
    BY DEF Orderly, OneJob
  <2>2. task'[u] = task[u] /\ Sees(u)' = Sees(u) \cup task[t].rows
    BY <1>1, <1>3 DEF Sees
  <2>3. \A d \in task[u].rows, e \in task[t].rows : d.item # e.item
    BY <2>1, RowsApart
  <2>4. Numbered(Sees(u) \cup task[t].rows)
    <3>1. Numbered(Sees(u)) /\ Numbered(Sees(t))
      BY DEF Rows, Held
    <3> QED
      BY <3>1 DEF Numbered, Sees
  <2>5. Numbered(Sees(u))'
    BY <2>2, <2>4 DEF Numbered
  <2>6. \A d \in task'[u].rows : \A e \in docs' : d.item = e.item => e.version < d.version
    BY <1>1, <2>2, <2>3 DEF Rows, Held, Sees
  <2>7. Still(u)'
    BY <1>1, <2>1, <2>2 DEF Rows, Held, Still, Pending, Content
  <2>8. task'[u].pc = "insert" =>
          \/ Keyed(docs', task'[u].item, task'[u].content)
          \/ Follows(Sees(u)', task'[u].item, task'[u].version)
    <3>1. SUFFICES ASSUME task[u].pc = "insert"
                   PROVE  \/ Keyed(docs', task[u].item, task[u].content)
                          \/ Follows(Sees(u)', task[u].item, task[u].version)
      BY <2>2
    <3>2. CASE Keyed(docs, task[u].item, task[u].content)
      BY <1>1, <3>2 DEF Keyed, Sees
    <3>3. CASE \E d \in task[t].rows : d.item = task[u].item
      <4>1. PICK d \in task[t].rows : d.item = task[u].item
        BY <3>3
      <4>2. d.content = Content(d.item) /\ task[u].content = Content(task[u].item)
        BY <2>1, <3>1 DEF Rows, Held, Still, Pending, Shape, Sound
      <4> QED
        BY <1>1, <4>1, <4>2 DEF Keyed, Sees
    <3>4. CASE ~Keyed(docs, task[u].item, task[u].content) /\ ~ \E d \in task[t].rows : d.item = task[u].item
      <4>1. Follows(Sees(u), task[u].item, task[u].version)
        BY <3>1, <3>4 DEF Rows, Held
      <4> QED
        BY <2>2, <3>4, <4>1 DEF Follows
    <3> QED
      BY <3>2, <3>3, <3>4
  <2> QED
    BY <2>1, <2>5, <2>6, <2>7, <2>8 DEF Held, Keyed, Follows
<1> QED
  BY <1>4, <1>5, <1>6 DEF Rows

LEMMA RowsEdit ==
    ASSUME Shape, Rows, NEW i \in Items, NEW c \in Contents, Edit(i, c)
    PROVE  Rows'
<1>1. docs' = docs /\ (Racing \/ \A t \in Tasks : ~Running(t)) /\ TypeOK
  BY DEF Edit, Shape
<1>2. ASSUME NEW t \in Tasks
      PROVE  Held(t)'
  <2>1. task'[t].rows = task[t].rows /\ Sees(t)' = Sees(t)
    BY <1>1, EditedTask DEF Sees
  <2>2. ~Racing => Still(t)'
    <3>1. ~Racing => task'[t].rows = {} /\ ~Pending(t)'
      BY <1>1, EditedTask DEF Running, Shape, Sound, TypeOK, Task, Pending
    <3> QED
      BY <3>1 DEF Still
  <2>3. Numbered(Sees(t))' /\ \A d \in task'[t].rows : \A e \in docs' : d.item = e.item => e.version < d.version
    BY <1>1, <2>1 DEF Rows, Held, Numbered
  <2>4. task'[t].pc = "insert" =>
          \/ Keyed(docs', task'[t].item, task'[t].content)
          \/ Follows(Sees(t)', task'[t].item, task'[t].version)
    BY <1>1, <2>1, EditedTask DEF Rows, Held
  <2> QED
    BY <2>2, <2>3, <2>4 DEF Held, Follows, Keyed
<1> QED
  BY <1>1, <1>2 DEF Rows, Numbered

LEMMA RowsNext ==
    ASSUME Orderly, Shape, Keys, Rows, [Next]_vars
    PROVE  Rows'
<1>1. CASE UNCHANGED vars
  <2>1. past' = past /\ docs' = docs /\ task' = task
    BY <1>1 DEF vars
  <2>2. \A t \in Tasks : Held(t)'
    BY <2>1 DEF Rows, Held, Numbered, Sees, Follows, Keyed, Still, Pending, Content
  <2> QED
    BY <2>1, <2>2 DEF Rows, Numbered
<1>2. ASSUME NEW t \in Tasks, Enqueue(t)
      PROVE  Rows'
  <2> DEFINE r == [Off EXCEPT !.pc = "queued", !.attempt = 1]
  <2>1. r.rows = {} /\ r.pc = "queued" /\ task' = [task EXCEPT ![t] = r] /\ UNCHANGED <<past, docs>>
    BY <1>2, OffType DEF Enqueue, Task
  <2> HIDE DEF r
  <2> QED
    BY <2>1, RowsKept
<1>3. ASSUME NEW t \in Tasks, StartJob(t)
      PROVE  Rows'
  <2>1. task' = [task EXCEPT ![t] = Started(task[t])] /\ UNCHANGED <<past, docs>>
    BY <1>3 DEF StartJob, Started
  <2>2. Started(task[t]).rows = {} /\ Started(task[t]).pc = "fetch"
    BY StartedType DEF Shape, TypeOK
  <2> QED
    BY <2>1, <2>2, RowsKept
<1>4. ASSUME NEW t \in Tasks, Fail(t) \/ InsertConflict(t)
      PROVE  Rows'
  BY <1>4, FailedType, RowsKept DEF Fail, InsertConflict, Shape, TypeOK
<1>5. ASSUME NEW t \in Tasks, WorkerDies(t) \/ JobTimeout(t)
      PROVE  Rows'
  BY <1>5, RetriedType, OffType, RowsKept DEF WorkerDies, JobTimeout, Shape, TypeOK
<1> QED
  BY <1>1, <1>2, <1>3, <1>4, <1>5, RowsEdit, RowsFetch, RowsProcess, RowsInsert, RowsCommit
     DEF Next, Work, SyncConnector, ScheduledReconciliation

-----------------------------------------------------------------------------
(* Part 4: the order of the versions.                                       *)

LEMMA OrderInit == Init => Order
<1> SUFFICES ASSUME Init PROVE Order
  OBVIOUS
<1>1. docs = {} /\ \A t \in Tasks : task[t].rows = {} /\ task[t].pc = "off"
  BY OffType DEF Init
<1>2. \A i \in Items : Len(past[i]) = 1
  BY DEF Init
<1> QED
  BY <1>1, <1>2 DEF Order, Ordered, InOrder, Pending, Sees

LEMMA OrderKept ==
    ASSUME Shape, Order, NEW t \in Tasks, NEW r, task' = [task EXCEPT ![t] = r], UNCHANGED <<past, docs>>,
           r.rows = task[t].rows \/ r.rows = {},
           r.pc \in {"process", "insert"} /\ r.item # NoItem =>
              /\ r.rows = task[t].rows
              /\ WasHeld(past[r.item], r.content)
              /\ \A d \in Sees(t) : d.item = r.item =>
                    d.content = r.content \/ Precedes(past[d.item], d.content, r.content)
    PROVE  Order'
<1>1. \A u \in Tasks : task'[u] = IF u = t THEN r ELSE task[u]
  BY DEF Shape, TypeOK
<1>2. ASSUME NEW u \in Tasks
      PROVE  Ordered(u)'
  <2>1. task'[u].rows = task[u].rows \/ task'[u].rows = {}
    BY <1>1
  <2>2. InOrder(Sees(u))'
    <3>1. Sees(u)' = Sees(u) \/ Sees(u)' = docs
      BY <2>1 DEF Sees
    <3>2. \A R : (R = Sees(u) \/ R = docs) => InOrder(R)
      BY DEF Order, Ordered
    <3>3. \A d, e \in Sees(u)' : d.item = e.item =>
            (d.version < e.version <=> Precedes(past[d.item], d.content, e.content))
      BY <3>1, <3>2 DEF InOrder
    <3> QED
      BY <3>3 DEF InOrder
  <2>3. (\A d \in task[u].rows : WasHeld(past[d.item], d.content))'
    BY <2>1 DEF Order, Ordered
  <2>4. CASE u = t
    <3>1. Pending(t)' => Sees(t)' = Sees(t)
      BY <1>1 DEF Pending, Sees
    <3> QED
      BY <1>1, <2>2, <2>3, <2>4, <3>1 DEF Ordered, Pending
  <2>5. CASE u # t
    <3>1. task'[u] = task[u] /\ Sees(u)' = Sees(u)
      BY <1>1, <2>5 DEF Sees
    <3> QED
      BY <2>2, <2>3, <3>1 DEF Order, Ordered, Pending
  <2> QED
    BY <2>4, <2>5
<1>3. (\A i \in Items : \A m, n \in 1..Len(past[i]) : past[i][m] = past[i][n] => m = n)'
  BY DEF Order
<1>4. InOrder(docs)' /\ (\A d \in docs : WasHeld(past[d.item], d.content))'
  BY DEF Order, InOrder
<1> QED
  BY <1>2, <1>3, <1>4 DEF Order

LEMMA OrderFetch ==
    ASSUME Shape, Order, NEW t \in Tasks, FetchPage(t)
    PROVE  Order'
<1>1. PICK i \in IF Answer(task[t]) = {} THEN {NoItem} ELSE Answer(task[t]), refused \in BOOLEAN :
        task' = [task EXCEPT ![t] = Fetched(task[t], i, refused)]
  BY DEF FetchPage, Shape, TypeOK
<1> DEFINE r == Fetched(task[t], i, refused)
<1>2. task[t] \in Task /\ task[t].site \in Sites
  BY DEF Shape, TypeOK, Sound, FetchPage
<1>3. r \in Task
  BY <1>2, FetchedType DEF Shape
<1>4. r.rows = task[t].rows /\ r.pc = "process" /\ (r.item # NoItem => r.content = Content(r.item))
  BY <1>2 DEF Fetched, Task
<1> HIDE DEF r
<1>5. ASSUME r.item # NoItem
      PROVE  /\ WasHeld(past[r.item], r.content)
             /\ \A d \in Sees(t) : d.item = r.item =>
                  d.content = r.content \/ Precedes(past[d.item], d.content, r.content)
  <2>1. r.item \in Items /\ past[r.item] \in Seq(Contents) /\ past[r.item] # <<>>
    BY <1>3, <1>5 DEF Task, Shape, TypeOK, Timely
  <2> DEFINE k == Len(past[r.item])
  <2>2. k \in Nat \ {0} /\ r.content = past[r.item][k]
    BY <1>4, <1>5, <2>1 DEF Content, Last
  <2>3. WasHeld(past[r.item], r.content)
    BY <2>2 DEF WasHeld
  <2>4. ASSUME NEW d \in Sees(t), d.item = r.item
        PROVE  d.content = r.content \/ Precedes(past[d.item], d.content, r.content)
    <3> WasHeld(past[d.item], d.content)
      BY <2>4 DEF Sees, Order, Ordered
    <3>1. PICK n \in 1..k : past[r.item][n] = d.content
      BY <2>4 DEF WasHeld
    <3>2. n = k \/ n < k
      BY <2>2
    <3> QED
      BY <2>2, <2>4, <3>1, <3>2 DEF Precedes
  <2> QED
    BY <2>3, <2>4
<1> QED
  BY <1>1, <1>4, <1>5, OrderKept DEF FetchPage, r

LEMMA OrderProcess ==
    ASSUME Shape, Order, NEW t \in Tasks, ProcessPage(t)
    PROVE  Order'
<1> DEFINE j == task[t]
           latest == Latest(Sees(t), j.item)
           insert == [j EXCEPT !.pc = "insert", !.version = NextVersion(latest)]
           r == IF Unchanged(t, latest) THEN Processed(j) ELSE insert
<1>1. j \in Task /\ j.pc = "process" /\ j.result = "none" /\ TypeOK
  BY DEF Shape, TypeOK, ProcessPage, Sound
<1>2. task' = [task EXCEPT ![t] = r] /\ UNCHANGED <<past, docs>>
  BY DEF ProcessPage, Sees
<1>3. Processed(j).rows = j.rows /\ Processed(j).pc \in {"fetch", "closing"}
  BY <1>1, ProcessedSound
<1>4. insert.rows = j.rows /\ insert.item = j.item /\ insert.content = j.content
  BY <1>1 DEF Task
<1> HIDE DEF latest, insert
<1>5. r.rows = j.rows
      /\ (r.pc \in {"process", "insert"} => r.item = j.item /\ r.content = j.content)
  BY <1>3, <1>4
<1>6. j.item # NoItem => Pending(t)
  BY <1>1 DEF Pending
<1> HIDE DEF r
<1> QED
  BY <1>2, <1>5, <1>6, OrderKept DEF Order, Ordered

\* The order of the contents of a file is a strict one, when none returns.
LEMMA PrecedesStrict ==
    ASSUME Order, NEW i \in Items, NEW b, NEW c, Precedes(past[i], b, c)
    PROVE  b # c /\ ~Precedes(past[i], c, b)
<1>1. \A m, n \in 1..Len(past[i]) : past[i][m] = past[i][n] => m = n
  BY DEF Order
<1> QED
  BY <1>1 DEF Precedes

LEMMA OrderInsert ==
    ASSUME Shape, Rows, Order, NEW t \in Tasks, InsertDocument(t)
    PROVE  Order'
<1> DEFINE j == task[t]
           row == [item |-> j.item, content |-> j.content, version |-> j.version]
           r == Processed(Inserted(t))
           R == Sees(t)
<1>1. j \in Task /\ j.pc = "insert" /\ row \in Document /\ R \subseteq Document
  BY InsertedType DEF InsertDocument, Shape, TypeOK, Sees, Task
<1>2. r.rows = j.rows \cup {row} /\ r.pc \in {"fetch", "closing"}
  <2>1. /\ Inserted(t) \in Task /\ Inserted(t).pc = "insert" /\ Inserted(t).result = "none"
        /\ Inserted(t).rows = j.rows \cup {row}
    BY <1>1, InsertedType
  <2> QED
    BY <2>1, ProcessedSound DEF Shape
<1>3. /\ task' = [task EXCEPT ![t] = r] /\ UNCHANGED <<past, docs>>
      /\ ~Keyed(R, j.item, j.content)
  BY DEF InsertDocument, Inserted, Sees
<1>4. \A u \in Tasks : task'[u] = IF u = t THEN r ELSE task[u]
  BY <1>3 DEF Shape, TypeOK
<1> HIDE DEF r
<1>5. Sees(t)' = R \cup {row} /\ \A u \in Tasks \ {t} : Sees(u)' = Sees(u)
  BY <1>2, <1>3, <1>4 DEF Sees
<1>6. Follows(R, j.item, j.version)
  BY <1>1, <1>3 DEF Rows, Held, Keyed, Sees
<1>7. Pending(t)
  BY <1>1 DEF Pending, Shape, Sound
<1> HIDE DEF R, j, row
<1>8. row.item = j.item /\ row.content = j.content /\ row.version = j.version /\ row.version \in Nat /\ row.item \in Items
  BY <1>1 DEF row, Document
<1>9. WasHeld(past[row.item], row.content)
  BY <1>7, <1>8 DEF Order, Ordered, j
<1>10. ASSUME NEW d \in R, d.item = row.item
       PROVE  /\ d.version < row.version /\ ~(row.version < d.version)
              /\ Precedes(past[row.item], d.content, row.content) /\ ~Precedes(past[row.item], row.content, d.content)
  <2>1. d.version < row.version /\ d.version \in Nat
    BY <1>1, <1>6, <1>8, <1>10 DEF Follows, Document
  <2>2. d.content # row.content
    BY <1>3, <1>8, <1>10 DEF Keyed
  <2>3. Precedes(past[row.item], d.content, row.content)
    BY <1>7, <1>8, <1>10, <2>2 DEF Order, Ordered, R, j
  <2> QED
    BY <1>8, <2>1, <2>3, PrecedesStrict
<1>11. InOrder(R \cup {row})
  <2>1. InOrder(R)
    BY DEF Order, Ordered, R
  <2>2. ~Precedes(past[row.item], row.content, row.content)
    BY <1>8, PrecedesStrict
  <2>3. ~(row.version < row.version)
    BY <1>8
  <2> QED
    BY <1>10, <2>1, <2>2, <2>3 DEF InOrder
<1>12. Ordered(t)'
  <2>1. ~Pending(t)'
    BY <1>2, <1>4 DEF Pending
  <2>2. InOrder(Sees(t))'
    BY <1>3, <1>5, <1>11 DEF InOrder
  <2>3. (\A d \in task[t].rows : WasHeld(past[d.item], d.content))'
    BY <1>2, <1>3, <1>4, <1>9 DEF Order, Ordered, j
  <2> QED
    BY <2>1, <2>2, <2>3 DEF Ordered
<1>13. ASSUME NEW u \in Tasks \ {t}
       PROVE  Ordered(u)'
  BY <1>3, <1>4, <1>5 DEF Order, Ordered, InOrder, Pending
<1> QED
  BY <1>3, <1>12, <1>13 DEF Order, InOrder

LEMMA OrderCommit ==
    ASSUME Orderly, Shape, Keys, Rows, Order, NEW t \in Tasks, Commit(t)
    PROVE  Order'
<1> DEFINE r == IF task[t].result = "failed" THEN Retried(task[t]) ELSE Off
<1>1. docs' = Sees(t) /\ task' = [task EXCEPT ![t] = r] /\ past' = past
  BY DEF Commit, Sees
<1>2. r.rows = {} /\ r.pc \in {"off", "queued"}
  BY RetriedType, OffType DEF Shape, TypeOK
<1>3. \A u \in Tasks : task'[u] = IF u = t THEN r ELSE task[u]
  BY <1>1 DEF Shape, TypeOK
<1> HIDE DEF r
<1>4. \A d, e \in Sees(t) : d.item = e.item =>
         (d.version < e.version <=> Precedes(past[d.item], d.content, e.content))
  BY DEF Order, Ordered, InOrder
<1>5. InOrder(docs)' /\ (\A d \in docs : WasHeld(past[d.item], d.content))'
  <2>1. \A d \in Sees(t) : WasHeld(past[d.item], d.content)
    BY DEF Order, Ordered, Sees
  <2>2. InOrder(docs)'
    BY <1>1, <1>4 DEF InOrder
  <2>3. (\A d \in docs : WasHeld(past[d.item], d.content))'
    BY <1>1, <2>1
  <2> QED
    BY <2>2, <2>3
<1>6. Ordered(t)'
  <2>1. Sees(t)' = Sees(t)
    BY <1>1, <1>2, <1>3 DEF Sees
  <2> QED
    BY <1>1, <1>2, <1>3, <1>4, <2>1 DEF Ordered, InOrder, Pending
<1>7. ASSUME NEW u \in Tasks \ {t}
      PROVE  Ordered(u)'
  <2>1. ~Racing
    BY DEF Orderly, OneJob
  <2>2. task'[u] = task[u] /\ Sees(u)' = Sees(u) \cup task[t].rows
    BY <1>1, <1>3 DEF Sees
  <2>3. \A d \in task[u].rows, e \in task[t].rows : d.item # e.item
    BY <2>1, RowsApart
  <2>4. \A d, e \in Sees(u)' : d.item = e.item =>
           (d.version < e.version <=> Precedes(past[d.item], d.content, e.content))
    <3>1. \A d, e \in Sees(u) : d.item = e.item =>
            (d.version < e.version <=> Precedes(past[d.item], d.content, e.content))
      BY DEF Order, Ordered, InOrder
    <3>2. ASSUME NEW d \in Sees(u)', NEW e \in Sees(u)', d.item = e.item
          PROVE  (d \in Sees(t) /\ e \in Sees(t)) \/ (d \in Sees(u) /\ e \in Sees(u))
      BY <2>2, <2>3, <3>2 DEF Sees
    <3> QED
      BY <1>4, <3>1, <3>2
  <2>5. InOrder(Sees(u))'
    BY <1>1, <2>4 DEF InOrder
  <2>6. (\A d \in task[u].rows : WasHeld(past[d.item], d.content))'
    BY <1>1, <2>2 DEF Order, Ordered
  <2>7. ASSUME Pending(u)
        PROVE  /\ WasHeld(past[task[u].item], task[u].content)
               /\ \A d \in Sees(u)' : d.item = task[u].item =>
                    d.content = task[u].content \/ Precedes(past[d.item], d.content, task[u].content)
    <3>1. \A d \in task[t].rows : d.item = task[u].item => d.content = task[u].content
      BY <2>1, <2>7 DEF Rows, Held, Still
    <3> QED
      BY <2>2, <2>7, <3>1 DEF Order, Ordered
  <2> QED
    BY <1>1, <2>2, <2>5, <2>6, <2>7 DEF Ordered, Pending
<1>8. (\A i \in Items : \A m, n \in 1..Len(past[i]) : past[i][m] = past[i][n] => m = n)'
  BY <1>1 DEF Order
<1> QED
  BY <1>5, <1>6, <1>7, <1>8 DEF Order

LEMMA OrderEdit ==
    ASSUME ~Reverting, Shape, Order, NEW i \in Items, NEW c \in Contents, Edit(i, c)
    PROVE  Order'
<1> DEFINE k == Len(past[i])
<1>1. /\ docs' = docs /\ past' = [past EXCEPT ![i] = Append(past[i], c)] /\ c \notin ToSet(past[i])
      /\ \A t \in Tasks : /\ task'[t].rows = task[t].rows /\ task'[t].pc = task[t].pc
                          /\ task'[t].item = task[t].item /\ task'[t].content = task[t].content
  BY EditedTask DEF Edit, Shape
<1>2. past \in [Items -> Seq(Contents)] /\ k \in Nat
  BY DEF Shape, TypeOK
<1>3. \A n \in 1..k : past[i][n] # c
  BY <1>1, <1>2 DEF ToSet
<1>4. /\ Len(past'[i]) = k + 1 /\ past'[i][k + 1] = c
      /\ \A n \in 1..k : past'[i][n] = past[i][n]
      /\ \A l \in Items \ {i} : past'[l] = past[l]
  BY <1>1, <1>2
<1>5. \A l \in Items : \A b : WasHeld(past[l], b) => WasHeld(past[l], b)'
  BY <1>2, <1>4 DEF WasHeld
<1>6. \A l \in Items : \A a, b : WasHeld(past[l], b) => (Precedes(past[l], a, b)' <=> Precedes(past[l], a, b))
  <2>1. ASSUME NEW a, NEW b, WasHeld(past[i], b)
        PROVE  Precedes(past[i], a, b)' <=> Precedes(past[i], a, b)
    <3>1. b # c
      BY <1>3, <2>1 DEF WasHeld
    <3>2. \A m, n \in 1..(k + 1) : m < n /\ past'[i][n] = b => m \in 1..k /\ n \in 1..k
      BY <1>2, <1>4, <3>1
    <3>3. 1..k \subseteq 1..(k + 1)
      BY <1>2
    <3> QED
      BY <1>4, <3>2, <3>3 DEF Precedes
  <2>2. ASSUME NEW l \in Items \ {i}, NEW a, NEW b
        PROVE  Precedes(past[l], a, b)' <=> Precedes(past[l], a, b)
    BY <1>4 DEF Precedes
  <2> QED
    BY <2>1, <2>2
<1>7. (\A l \in Items : \A m, n \in 1..Len(past[l]) : past[l][m] = past[l][n] => m = n)'
  <2>1. \A l \in Items : \A m, n \in 1..Len(past[l]) : past[l][m] = past[l][n] => m = n
    BY DEF Order
  <2>2. ASSUME NEW m \in 1..(k + 1), NEW n \in 1..(k + 1), past'[i][m] = past'[i][n]
        PROVE  m = n
    <3>1. (m \in 1..k \/ m = k + 1) /\ (n \in 1..k \/ n = k + 1)
      BY <1>2, <2>2
    <3> QED
      BY <1>3, <1>4, <2>1, <2>2, <3>1
  <2>3. ASSUME NEW l \in Items \ {i}
        PROVE  \A m, n \in 1..Len(past'[l]) : past'[l][m] = past'[l][n] => m = n
    BY <1>4, <2>1, <2>3
  <2> QED
    BY <1>4, <2>2, <2>3
<1> HIDE DEF k
<1>8. docs \subseteq Document /\ \A t \in Tasks : task[t].rows \subseteq Document /\ task[t].item \in Items \cup {NoItem}
  BY DEF Shape, TypeOK, Task
<1>9. \A d \in Document : d.item \in Items
  BY DEF Document
<1>10. InOrder(docs)' /\ (\A d \in docs : WasHeld(past[d.item], d.content))'
  BY <1>1, <1>5, <1>6, <1>8, <1>9 DEF Order, InOrder
<1>11. ASSUME NEW t \in Tasks
       PROVE  Ordered(t)'
  <2>1. \A d \in Sees(t) : WasHeld(past[d.item], d.content) /\ d.item \in Items
    BY <1>8, <1>9 DEF Order, Ordered, Sees
  <2>2. Sees(t)' = Sees(t) /\ task'[t].rows = task[t].rows /\ task'[t].pc = task[t].pc
        /\ task'[t].item = task[t].item /\ task'[t].content = task[t].content
    BY <1>1 DEF Sees
  <2>3. InOrder(Sees(t))'
    BY <1>6, <2>1, <2>2 DEF Order, Ordered, InOrder
  <2>4. (\A d \in task[t].rows : WasHeld(past[d.item], d.content))'
    BY <1>5, <2>1, <2>2 DEF Sees
  <2>5. Pending(t)' => task[t].item \in Items /\ Pending(t)
    BY <1>8, <2>2 DEF Pending
  <2> QED
    BY <1>5, <1>6, <2>1, <2>2, <2>3, <2>4, <2>5 DEF Order, Ordered
<1> QED
  BY <1>7, <1>10, <1>11 DEF Order

LEMMA OrderNext ==
    ASSUME Orderly, ~Reverting, Shape, Keys, Rows, Order, [Next]_vars
    PROVE  Order'
<1>1. CASE UNCHANGED vars
  <2>1. past' = past /\ docs' = docs /\ task' = task
    BY <1>1 DEF vars
  <2>2. \A t \in Tasks : Ordered(t)'
    BY <2>1 DEF Order, Ordered, InOrder, Sees, Pending
  <2>3. InOrder(docs)'
    BY <2>1 DEF Order, InOrder
  <2>4. (\A d \in docs : WasHeld(past[d.item], d.content))'
    BY <2>1 DEF Order
  <2> QED
    BY <2>1, <2>2, <2>3, <2>4 DEF Order
<1>2. ASSUME NEW t \in Tasks, Enqueue(t)
      PROVE  Order'
  <2> DEFINE r == [Off EXCEPT !.pc = "queued", !.attempt = 1]
  <2>1. r.rows = {} /\ r.pc = "queued" /\ task' = [task EXCEPT ![t] = r] /\ UNCHANGED <<past, docs>>
    BY <1>2, OffType DEF Enqueue, Task
  <2> HIDE DEF r
  <2> QED
    BY <2>1, OrderKept
<1>3. ASSUME NEW t \in Tasks, StartJob(t)
      PROVE  Order'
  <2>1. task' = [task EXCEPT ![t] = Started(task[t])] /\ UNCHANGED <<past, docs>>
    BY <1>3 DEF StartJob, Started
  <2>2. Started(task[t]).rows = {} /\ Started(task[t]).pc = "fetch"
    BY StartedType DEF Shape, TypeOK
  <2> QED
    BY <2>1, <2>2, OrderKept
<1>4. ASSUME NEW t \in Tasks, Fail(t) \/ InsertConflict(t)
      PROVE  Order'
  BY <1>4, FailedType, OrderKept DEF Fail, InsertConflict, Shape, TypeOK
<1>5. ASSUME NEW t \in Tasks, WorkerDies(t) \/ JobTimeout(t)
      PROVE  Order'
  BY <1>5, RetriedType, OffType, OrderKept DEF WorkerDies, JobTimeout, Shape, TypeOK
<1> QED
  BY <1>1, <1>2, <1>3, <1>4, <1>5, OrderEdit, OrderFetch, OrderProcess, OrderInsert, OrderCommit
     DEF Next, Work, SyncConnector, ScheduledReconciliation

-----------------------------------------------------------------------------
(* Part 5: nothing is lost out of sight.                                    *)

LEMMA CompleteInit == Init => Complete
<1> SUFFICES ASSUME Init PROVE Complete
  OBVIOUS
<1>1. \A t \in Tasks : task[t].pc = "off"
  BY OffType DEF Init
<1>2. ASSUME NEW i \in Items PROVE Visible(i)
  <2>1. modified[i] = 1 /\ config.since = 0 /\ \A s \in Sites : config.links[s] = 0
    BY DEF Init, Never
  <2> QED
    BY <2>1 DEF Visible
<1> QED
  BY <1>1, <1>2 DEF Complete, Accounted, Newer, Running

\* A step that leaves what a task sees, and the source, as they are.
LEMMA SameAccount ==
    ASSUME Complete, NEW u \in Tasks, UNCHANGED <<past, modified, docs, excused>>, task'[u] = task[u]
    PROVE  Newer(u)' /\ Accounted(u)'
<1>1. Sees(u)' = Sees(u)
  BY DEF Sees
<1>2. \A i : (Covered(u, i)' <=> Covered(u, i)) /\ (Due(task[u], i)' <=> Due(task[u], i))
  BY <1>1 DEF Covered, Latest, Content, Due, Answer, Changed
<1>3. Running(u)' <=> Running(u)
  BY DEF Running
<1> QED
  BY <1>1, <1>2, <1>3 DEF Complete, Newer, Accounted, Keyed

\* A step of one task that neither commits nor adds a row.
LEMMA CompleteKept ==
    ASSUME Shape, Complete, NEW t \in Tasks, NEW r, task' = [task EXCEPT ![t] = r],
           UNCHANGED <<past, modified, docs, config, excused>>,
           r.pc \in {"fetch", "process", "insert", "closing"} /\ r.result # "failed" =>
              /\ r.rows = task[t].rows
              /\ \A i \in Items \ (excused \cup r.missed) : Covered(t, i) \/ Due(r, i),
           r.pc = "insert" /\ r.item \notin excused \cup r.missed =>
              /\ r.rows = task[t].rows
              /\ \/ Keyed(docs, r.item, r.content)
                 \/ \A d \in Sees(t) : d.item = r.item => d.version < r.version
    PROVE  Complete'
<1>1. \A u \in Tasks : task'[u] = IF u = t THEN r ELSE task[u]
  BY DEF Shape, TypeOK
<1>2. (\A i \in Items \ excused : Current(i) \/ Visible(i))'
  BY DEF Complete, Current, Visible, Latest, Content
<1>3. \A u \in Tasks \ {t} : Newer(u)' /\ Accounted(u)'
  BY <1>1, SameAccount
<1>4. Newer(t)'
  <2>1. task'[t] = r
    BY <1>1
  <2> SUFFICES ASSUME r.pc = "insert", r.item \notin excused \cup r.missed
               PROVE  \/ Keyed(docs', r.item, r.content)
                      \/ \A d \in Sees(t)' : d.item = r.item => d.version < r.version
    BY <2>1 DEF Newer
  <2>2. Sees(t)' = Sees(t)
    BY <2>1 DEF Sees
  <2> QED
    BY <2>2 DEF Keyed
<1>5. Accounted(t)'
  <2>1. task'[t] = r
    BY <1>1
  <2>2. SUFFICES ASSUME r.pc \in {"fetch", "process", "insert", "closing"}, r.result # "failed",
                        NEW i \in Items \ (excused \cup r.missed)
                 PROVE  Covered(t, i)' \/ Due(task[t], i)'
    BY <2>1 DEF Accounted, Running
  <2>3. Sees(t)' = Sees(t)
    BY <2>1, <2>2 DEF Sees
  <2>4. Covered(t, i)' <=> Covered(t, i)
    BY <2>3 DEF Covered, Latest, Content
  <2>5. Due(task[t], i)' <=> Due(r, i)
    BY <2>1 DEF Due, Answer, Changed
  <2> QED
    BY <2>2, <2>4, <2>5
<1> QED
  BY <1>2, <1>3, <1>4, <1>5 DEF Complete

LEMMA CompleteStart ==
    ASSUME Shape, Complete, NEW t \in Tasks, StartJob(t)
    PROVE  Complete'
<1> DEFINE r == Started(task[t])
<1>1. /\ task' = [task EXCEPT ![t] = r] /\ UNCHANGED <<past, modified, docs, config, excused>>
      /\ task[t].rows = {} /\ task[t] \in Task /\ modified \in [Items -> Nat]
  BY DEF StartJob, Started, Shape, Sound, TypeOK
<1>2. r.pc = "fetch" /\ r.rows = {} /\ r.since = config.since /\ r.walk = Never /\ r.site = 1
      /\ \A s \in Sites : r.links[s] \in {Never, config.links[s]}
  BY <1>1, StartedType
<1> HIDE DEF r
<1>3. ASSUME NEW i \in Items \ excused, ~Covered(t, i)
      PROVE  Due(r, i)
  <2>1. ~Current(i)
    BY <1>1, <1>3 DEF Covered, Current, Sees
  <2>2. Visible(i)
    BY <2>1 DEF Complete
  <2>3. modified[i] > r.since /\ \A s \in Sites : i \in Drives[s] => modified[i] > r.links[s]
    BY <1>1, <1>2, <2>2 DEF Visible, Never, Shape, Timely
  <2>4. PICK s \in Sites : i \in Drives[s]
    BY IngestionAssumption DEF Sites
  <2>5. CASE s = 1
    <3>1. Answer(r) = Changed(1, r.links[1]) /\ r.site \in Sites
      BY <1>2, <2>5 DEF Answer
    <3>2. i \in Answer(r)
      BY <2>3, <2>4, <2>5, <3>1 DEF Changed
    <3> QED
      BY <2>3, <3>1, <3>2 DEF Due
  <2>6. CASE s # 1
    <3>1. s > 1
      BY <2>6, SitesNat DEF Sites
    <3> QED
      BY <1>2, <2>3, <2>4, <3>1 DEF Due
  <2> QED
    BY <2>5, <2>6
<1> QED
  BY <1>1, <1>2, <1>3, CompleteKept

LEMMA CompleteFetch ==
    ASSUME Shape, Complete, NEW t \in Tasks, FetchPage(t)
    PROVE  Complete'
<1> DEFINE j == task[t]
<1>1. PICK i \in IF Answer(j) = {} THEN {NoItem} ELSE Answer(j), refused \in BOOLEAN :
        task' = [task EXCEPT ![t] = Fetched(j, i, refused)]
  BY DEF FetchPage, Shape, TypeOK
<1> DEFINE r == Fetched(j, i, refused)
           ends == Answer(j) \subseteq {i}
           fresh == i # NoItem /\ (j.since = Never \/ modified[i] >= j.since)
           walk == IF j.walk = Never THEN clock ELSE j.walk
<1>2. j \in Task /\ j.pc = "fetch" /\ j.site \in Sites /\ j.result = "none"
      /\ clock >= 1 /\ clock \in Nat /\ Answer(j) \subseteq Items /\ modified \in [Items -> Nat]
  BY AnswerType DEF Shape, TypeOK, Sound, FetchPage, Timely
<1>3. /\ r.pc = "process" /\ r.rows = j.rows /\ r.since = j.since
      /\ r.item = IF fresh /\ ~refused THEN i ELSE NoItem
      /\ r.missed = IF fresh /\ refused THEN j.missed \cup {i} ELSE j.missed
      /\ r.site = IF ends THEN j.site + 1 ELSE j.site
      /\ r.walk = IF ends THEN Never ELSE walk
      /\ r.left = Answer(j) \ {i}
      /\ r.links = IF ends /\ config.resumable THEN [j.links EXCEPT ![j.site] = walk] ELSE j.links
  BY <1>2 DEF Fetched, Task
<1> HIDE DEF r
<1>4. ASSUME NEW k \in Items \ (excused \cup r.missed), ~Covered(t, k)
      PROVE  Due(r, k)
  <2>1. Due(j, k) /\ modified[k] > j.since
    BY <1>2, <1>3, <1>4 DEF Complete, Accounted, Running, Due
  <2>2. CASE k = i
    <3>1. fresh
      <4>1. j.since \in Nat /\ modified[i] \in Nat /\ i # NoItem
        BY <1>2, <2>2, IngestionAssumption DEF Task
      <4> QED
        BY <2>1, <2>2, <4>1
    <3>2. r.item = k
      BY <1>3, <1>4, <2>2, <3>1
    <3> QED
      BY <1>3, <2>1, <3>2 DEF Due
  <2>3. CASE k # i /\ k \in Answer(j)
    <3>1. ~ends
      BY <2>3
    <3>2. walk # Never
      BY <1>2 DEF Never
    <3>3. r.walk # Never /\ k \in r.left /\ r.site = j.site
      BY <1>3, <2>3, <3>1, <3>2
    <3> QED
      BY <1>2, <1>3, <2>1, <3>3 DEF Due, Answer
  <2>4. CASE \E s \in Sites : s > j.site /\ k \in Drives[s] /\ modified[k] > j.links[s]
    <3>1. PICK s \in Sites : s > j.site /\ k \in Drives[s] /\ modified[k] > j.links[s]
      BY <2>4
    <3>2. j.site \in Nat /\ s \in Nat
      BY <1>2, <3>1, SitesNat
    <3>3. r.links[s] = j.links[s]
      BY <1>2, <1>3, <3>1, <3>2 DEF Task, Links
    <3>4. CASE s > r.site
      BY <1>3, <2>1, <3>1, <3>3, <3>4 DEF Due
    <3>5. CASE ~(s > r.site)
      <4>1. ends
        BY <1>3, <3>1, <3>5
      <4>2. r.site = s /\ r.walk = Never
        BY <1>3, <3>1, <3>2, <3>5, <4>1
      <4>3. k \in Answer(r)
        BY <3>1, <3>3, <4>2 DEF Answer, Changed
      <4> QED
        BY <1>3, <2>1, <3>1, <4>2, <4>3 DEF Due
    <3> QED
      BY <3>4, <3>5
  <2> QED
    BY <1>2, <2>1, <2>2, <2>3, <2>4 DEF Due
<1> QED
  BY <1>1, <1>3, <1>4, CompleteKept DEF FetchPage, r

LEMMA CompleteProcess ==
    ASSUME Shape, Keys, Complete, NEW t \in Tasks, ProcessPage(t)
    PROVE  Complete'
<1> DEFINE j == task[t]
           latest == Latest(Sees(t), j.item)
           insert == [j EXCEPT !.pc = "insert", !.version = NextVersion(latest)]
           r == IF Unchanged(t, latest) THEN Processed(j) ELSE insert
<1>1. j \in Task /\ j.pc = "process" /\ j.result = "none" /\ TypeOK
  BY DEF Shape, TypeOK, ProcessPage, Sound
<1>2. task' = [task EXCEPT ![t] = r] /\ UNCHANGED <<past, modified, docs, config, excused>>
  BY DEF ProcessPage, Sees
<1>3. \A i \in Items \ (excused \cup j.missed) : Covered(t, i) \/ Due(j, i)
  BY <1>1 DEF Complete, Accounted, Running
<1>4. CASE Unchanged(t, latest)
  <2>1. r = Processed(j)
    BY <1>4
  <2>2. /\ r.rows = j.rows /\ r.links = j.links /\ r.since = j.since /\ r.missed = j.missed
        /\ r.site = j.site /\ r.walk = j.walk /\ r.left = j.left /\ r.pc # "insert"
    BY <1>1, <2>1, ProcessedType
  <2> HIDE DEF r
  <2>3. ASSUME NEW i \in Items \ (excused \cup j.missed), ~Covered(t, i)
        PROVE  Due(r, i)
    <3>1. i # j.item
      <4>1. SUFFICES ASSUME i = j.item PROVE FALSE
        OBVIOUS
      <4>2. j.item # NoItem
        BY <4>1, IngestionAssumption
      <4>3. j.content = Content(j.item)
        BY <1>1, <2>3, <4>1, <4>2 DEF Keys, Fresh, Pending
      <4>4. \E d \in latest : d.content = j.content
        BY <1>4, <4>2 DEF Unchanged
      <4> QED
        BY <2>3, <4>1, <4>3, <4>4 DEF Covered
    <3> QED
      BY <1>3, <2>2, <2>3, <3>1 DEF Due, Answer
  <2> QED
    BY <1>2, <2>2, <2>3, CompleteKept
<1>5. CASE ~Unchanged(t, latest)
  <2>1. r = insert
    BY <1>5
  <2>2. \A d \in Sees(t) : d.item = j.item => d.version < NextVersion(latest)
    <3>1. Sees(t) \in SUBSET Document
      BY <1>1 DEF Sees, TypeOK, Task
    <3> SUFFICES ASSUME NEW d \in Sees(t), d.item = j.item PROVE d.version < NextVersion(latest)
      OBVIOUS
    <3>2. PICK e \in latest : TRUE
      BY DEF Keys, Top
    <3>3. d.version <= e.version /\ d.version \in Nat /\ e.version \in Nat
      BY <3>1, <3>2 DEF Latest, Document
    <3>4. NextVersion(latest) = 1 + e.version
      BY <3>1, <3>2, LatestVersion
    <3> QED
      BY <3>3, <3>4
  <2> HIDE DEF latest
  <2>3. /\ insert.rows = j.rows /\ insert.links = j.links /\ insert.since = j.since /\ insert.pc = "insert"
        /\ insert.site = j.site /\ insert.walk = j.walk /\ insert.left = j.left /\ insert.item = j.item
        /\ insert.missed = j.missed /\ insert.version = NextVersion(latest)
    BY <1>1 DEF Task
  <2> HIDE DEF r, insert
  <2>4. \A i \in Items : Due(j, i) => Due(r, i)
    BY <1>1, <2>1, <2>3 DEF Due, Answer
  <2> QED
    BY <1>2, <1>3, <2>1, <2>2, <2>3, <2>4, CompleteKept
<1> QED
  BY <1>4, <1>5

LEMMA CompleteInsert ==
    ASSUME Shape, Keys, Complete, NEW t \in Tasks, InsertDocument(t)
    PROVE  Complete'
<1> DEFINE j == task[t]
           row == [item |-> j.item, content |-> j.content, version |-> j.version]
           k == Inserted(t)
           r == Processed(k)
           R == Sees(t)
<1>1. /\ j \in Task /\ j.pc = "insert" /\ j.result = "none" /\ j.item # NoItem
      /\ row \in Document /\ R \subseteq Document /\ TypeOK
  BY InsertedType DEF InsertDocument, Shape, TypeOK, Sees, Task, Sound
<1>2. /\ k \in Task /\ k.pc = "insert" /\ k.result = "none" /\ k.rows = j.rows \cup {row} /\ k.links = j.links
      /\ k.since = j.since /\ k.site = j.site /\ k.walk = j.walk /\ k.left = j.left /\ k.missed = j.missed
  BY <1>1, InsertedType
<1> HIDE DEF k, row
<1>3. /\ r.rows = j.rows \cup {row} /\ r.links = j.links /\ r.since = j.since /\ r.missed = j.missed
      /\ r.site = j.site /\ r.walk = j.walk /\ r.left = j.left /\ r.pc # "insert"
  BY <1>1, <1>2, ProcessedType
<1>4. /\ task' = [task EXCEPT ![t] = r] /\ UNCHANGED <<past, modified, docs, config, excused>>
      /\ ~Keyed(R, j.item, j.content)
  BY DEF InsertDocument, Inserted, Sees, k
<1>5. \A u \in Tasks : task'[u] = IF u = t THEN r ELSE task[u]
  BY <1>4 DEF Shape, TypeOK
<1> HIDE DEF r
<1>6. Sees(t)' = R \cup {row}
  BY <1>3, <1>4, <1>5 DEF Sees
<1>7. \A i \in Items \ (excused \cup j.missed) : Covered(t, i) \/ Due(j, i)
  BY <1>1 DEF Complete, Accounted, Running
<1>8. row.item = j.item /\ row.content = j.content /\ row.version = j.version /\ row.version \in Nat
  BY <1>1 DEF row, Document
<1>9. j.item \notin excused \cup j.missed => \E d \in Latest(R \cup {row}, j.item) : d.content = Content(j.item)
  <2> SUFFICES ASSUME j.item \notin excused \cup j.missed
               PROVE  \E d \in Latest(R \cup {row}, j.item) : d.content = Content(j.item)
    OBVIOUS
  <2>1. j.content = Content(j.item)
    BY <1>1 DEF Keys, Fresh, Pending
  <2>2. \A d \in R : d.item = j.item => d.version < j.version
    BY <1>1, <1>4 DEF Complete, Newer, Keyed, Sees
  <2>3. \A d \in R : d.item = row.item => d.version <= row.version
    BY <1>1, <1>8, <2>2 DEF Document
  <2>4. row \in Latest(R \cup {row}, j.item)
    BY <1>8, <2>3 DEF Latest
  <2> QED
    BY <1>8, <2>1, <2>4
<1> HIDE DEF R
<1>10. \A i \in Items : i # j.item => Latest(R \cup {row}, i) = Latest(R, i)
  BY <1>8 DEF Latest
<1>11. ASSUME NEW i \in Items \ (excused \cup j.missed)
       PROVE  Covered(t, i)' \/ Due(r, i)
  <2>1. CASE i = j.item
    BY <1>4, <1>6, <1>9, <2>1 DEF Covered, Latest, Content
  <2>2. CASE i # j.item
    <3>1. Due(j, i) => Due(r, i)
      BY <1>3, <2>2 DEF Due, Answer
    <3>2. Covered(t, i) => Covered(t, i)'
      <4>1. Covered(t, i) => \E d \in Latest(R \cup {row}, i) : d.content = Content(i)
        BY <1>10, <2>2 DEF Covered, R
      <4> QED
        BY <1>4, <1>6, <4>1 DEF Covered, Latest, Content
    <3> QED
      BY <1>7, <3>1, <3>2
  <2> QED
    BY <2>1, <2>2
<1>12. Newer(t)' /\ Accounted(t)'
  <2>1. \A i : Due(task[t], i)' <=> Due(r, i)
    BY <1>4, <1>5 DEF Due, Answer, Changed
  <2>2. task'[t].pc # "insert" /\ task'[t].missed = j.missed
    BY <1>3, <1>5
  <2> QED
    BY <1>4, <1>11, <2>1, <2>2 DEF Newer, Accounted
<1>13. \A u \in Tasks \ {t} : Newer(u)' /\ Accounted(u)'
  BY <1>4, <1>5, SameAccount
<1>14. (\A i \in Items \ excused : Current(i) \/ Visible(i))'
  BY <1>4 DEF Complete, Current, Visible, Latest, Content
<1> QED
  BY <1>12, <1>13, <1>14 DEF Complete

\* What a commit leaves out of sight is excused.
LEMMA CommitCurrent ==
    ASSUME Shape, Keys, Complete, NEW t \in Tasks, Commit(t)
    PROVE  /\ \A i \in Items \ excused' : Current(i)' \/ i \notin excused \cup Passed(task[t])
           /\ task[t].result = "succeeded" => \A i \in Items \ excused' : Current(i)'
<1> DEFINE j == task[t]
<1>1. docs' = Sees(t) /\ UNCHANGED <<past, modified>> /\ j.pc = "closing" /\ j \in Task
      /\ excused' = {i \in excused \cup Passed(j) : ~Current(i)'}
  BY DEF Commit, Sees, Shape, TypeOK
<1>2. \A i \in Items \ excused' : Current(i)' \/ i \notin excused \cup Passed(j)
  BY <1>1
<1>3. ASSUME j.result = "succeeded", NEW i \in Items \ excused'
      PROVE  Current(i)'
  <2>1. Passed(j) = j.missed
    BY <1>3 DEF Passed
  <2> SUFFICES ASSUME i \notin excused \cup j.missed PROVE Current(i)'
    BY <1>2, <2>1
  <2>2. ~Due(j, i)
    <3>1. j.site = Len(Drives) + 1
      BY <1>3 DEF Shape, Sound
    <3>2. \A s \in Sites : s <= Len(Drives)
      BY DEF Sites
    <3> QED
      BY <1>1, <3>1, <3>2, SitesNat DEF Due
  <2>3. Covered(t, i)
    BY <1>1, <1>3, <2>2 DEF Complete, Accounted, Running
  <2> QED
    BY <1>1, <2>3 DEF Covered, Current, Latest, Content
<1> QED
  BY <1>2, <1>3

\* A failed job adds no rows, and a job that succeeded none of file i unless the
\* file is then current.
LEMMA CommitApart ==
    ASSUME Shape, Keys, Complete, NEW t \in Tasks, Commit(t), NEW i \in Items \ excused'
    PROVE  Current(i)' \/ \A d \in task[t].rows : d.item # i
<1>1. task[t].result \in {"succeeded", "failed"}
  BY DEF Commit, Shape, TypeOK, Sound, Task
<1>2. task[t].result = "failed" => task[t].rows = {}
  BY DEF Shape, Sound
<1> QED
  BY <1>1, <1>2, CommitCurrent

\* What the commit of one task does to the account of another.
LEMMA CommitOther ==
    ASSUME Shape, Keys, Keys', Complete, NEW t \in Tasks, Commit(t), NEW u \in Tasks \ {t}
    PROVE  Newer(u)' /\ Accounted(u)'
<1>1. /\ task'[u] = task[u] /\ Sees(u)' = Sees(u) \cup task[t].rows /\ docs' = docs \cup task[t].rows
      /\ UNCHANGED <<past, modified>> /\ task[u] \in Task
  BY DEF Commit, Shape, TypeOK, Sees
<1>2. ASSUME NEW i \in Items \ (excused' \cup task[u].missed), Current(i)'
      PROVE  Covered(u, i)'
  <2>1. PICK e \in Latest(docs', i) : e.content = Content(i)
    BY <1>1, <1>2 DEF Current, Latest, Content
  <2>2. e \in docs' /\ e.item = i
    BY <2>1 DEF Latest
  <2>3. \A d \in task[u].rows : d.item # i
    <3> SUFFICES ASSUME NEW d \in task[u].rows, d.item = i PROVE FALSE
      OBVIOUS
    <3>1. d.content = Content(i)
      BY <1>2 DEF Keys, Fresh
    <3>2. ~Keyed(docs', d.item, d.content)
      BY <1>1 DEF Keys, Apart, Keyed
    <3> QED
      BY <2>1, <2>2, <3>1, <3>2 DEF Keyed
  <2>4. Latest(docs' \cup task[u].rows, i) = Latest(docs', i)
    BY <2>3 DEF Latest
  <2>5. Sees(u)' = docs' \cup task[u].rows
    BY <1>1 DEF Sees
  <2> QED
    BY <1>1, <2>1, <2>4, <2>5 DEF Covered, Latest, Content
<1>3. Accounted(u)'
  <2>1. SUFFICES ASSUME Running(u), task[u].result # "failed", NEW i \in Items \ (excused' \cup task[u].missed),
                        ~Current(i)'
                 PROVE  Covered(u, i)' \/ Due(task[u], i)'
    BY <1>1, <1>2 DEF Accounted, Running
  <2>2. i \notin excused
    BY <2>1, CommitCurrent
  <2>3. Covered(u, i) \/ Due(task[u], i)
    BY <2>1, <2>2 DEF Complete, Accounted
  <2>4. Due(task[u], i)' <=> Due(task[u], i)
    BY <1>1 DEF Due, Answer, Changed
  <2>5. Latest(Sees(u) \cup task[t].rows, i) = Latest(Sees(u), i)
    <3>1. \A d \in task[t].rows : d.item # i
      BY <2>1, CommitApart
    <3> QED
      BY <3>1 DEF Latest
  <2>6. Covered(u, i)' <=> Covered(u, i)
    <3>1. Covered(u, i) <=> \E d \in Latest(Sees(u) \cup task[t].rows, i) : d.content = Content(i)
      BY <2>5 DEF Covered
    <3> QED
      BY <1>1, <3>1 DEF Covered, Latest, Content
  <2> QED
    BY <2>3, <2>4, <2>6
<1>4. Newer(u)'
  <2>1. SUFFICES ASSUME task[u].pc = "insert", NEW i \in Items \ (excused' \cup task[u].missed), i = task[u].item
                 PROVE  \/ Keyed(docs', i, task[u].content)
                        \/ \A d \in Sees(u)' : d.item = i => d.version < task[u].version
    BY <1>1 DEF Newer, Shape, Sound, Task
  <2>2. task[u].content = Content(i)
    BY <1>1, <2>1 DEF Shape, Sound, Keys, Fresh, Pending
  <2>3. CASE Current(i)'
    <3>1. \E d \in docs' : d.item = i /\ d.content = Content(i)
      BY <1>1, <2>3 DEF Current, Latest, Content
    <3> QED
      BY <2>2, <3>1 DEF Keyed
  <2>4. CASE ~Current(i)'
    <3>1. i \notin excused /\ \A d \in task[t].rows : d.item # i
      BY <2>1, <2>4, CommitCurrent, CommitApart
    <3> QED
      BY <1>1, <2>1, <3>1 DEF Complete, Newer, Keyed
  <2> QED
    BY <2>3, <2>4
<1> QED
  BY <1>3, <1>4

LEMMA CompleteCommit ==
    ASSUME Shape, Keys, Keys', Complete, NEW t \in Tasks, Commit(t)
    PROVE  Complete'
<1> DEFINE j == task[t]
           r == IF j.result = "failed" THEN Retried(j) ELSE Off
<1>1. /\ docs' = Sees(t) /\ task' = [task EXCEPT ![t] = r] /\ UNCHANGED <<past, modified>>
      /\ j.pc = "closing" /\ j.result \in {"succeeded", "failed"} /\ j \in Task /\ TypeOK
      /\ config' = Reported(j)
  BY DEF Commit, Sees, Shape, TypeOK, Sound, Task
<1>2. r.pc \in {"off", "queued"}
  BY <1>1, RetriedType, OffType
<1>3. \A u \in Tasks : task'[u] = IF u = t THEN r ELSE task[u]
  BY <1>1 DEF TypeOK
<1> HIDE DEF r
<1>4. Newer(t)' /\ Accounted(t)'
  BY <1>2, <1>3 DEF Newer, Accounted, Running
<1>5. ASSUME NEW i \in Items \ excused', ~Current(i)'
      PROVE  Visible(i)'
  <2>1. j.result = "failed" /\ i \notin excused \cup Passed(j)
    BY <1>1, <1>5, CommitCurrent
  <2>2. /\ config'.since = config.since
        /\ config'.links = IF j.emitted THEN j.links ELSE config.links
    BY <1>1, <2>1 DEF Reported, TypeOK
  <2>3. docs' = docs
    BY <1>1, <2>1 DEF Sees, Shape, Sound
  <2>4. Visible(i)
    <3>1. ~Current(i)
      BY <1>1, <1>5, <2>3 DEF Current, Latest, Content
    <3> QED
      BY <2>1, <3>1 DEF Complete
  <2>5. ASSUME NEW s \in Sites, i \in Drives[s]
        PROVE  modified[i] > config'.links[s]
    <3>1. CASE config'.links[s] = config.links[s]
      BY <2>4, <2>5, <3>1 DEF Visible
    <3>2. CASE config'.links[s] # config.links[s]
      <4>1. j.emitted /\ config'.links[s] = j.links[s] /\ j.links[s] # config.links[s]
        BY <2>2, <3>2
      <4>2. ~(modified[i] <= j.links[s])
        BY <2>1, <2>5, <4>1 DEF Passed
      <4>3. modified[i] \in Nat /\ j.links[s] \in Nat
        BY <1>1 DEF TypeOK, Task, Links
      <4> QED
        BY <4>1, <4>2, <4>3
    <3> QED
      BY <3>1, <3>2
  <2> QED
    BY <1>1, <2>2, <2>4, <2>5 DEF Visible
<1>6. (\A i \in Items \ excused : Current(i) \/ Visible(i))'
  BY <1>5
<1> QED
  BY <1>4, <1>6, CommitOther DEF Complete

LEMMA CompleteEdit ==
    ASSUME Shape, Complete, NEW i \in Items, NEW c \in Contents, Edit(i, c)
    PROVE  Complete'
<1>1. /\ UNCHANGED <<docs, config>> /\ excused' = excused \ {i} /\ TypeOK
      /\ modified' = [modified EXCEPT ![i] = clock + 1] /\ past' = [past EXCEPT ![i] = Append(@, c)]
  BY DEF Edit, Shape
<1>2. \A k \in Items \ {i} : modified'[k] = modified[k] /\ Content(k)' = Content(k)
  BY <1>1 DEF TypeOK, Content
<1>3. ASSUME NEW k \in Items \ excused'
      PROVE  Current(k)' \/ Visible(k)'
  <2>1. CASE k = i
    <3>1. modified'[k] = clock + 1 /\ clock \in Nat /\ config \in [resumable : BOOLEAN,
             status : {"connecting", "active", "error"}, since : Nat, links : Links]
      BY <1>1, <2>1 DEF TypeOK
    <3> QED
      BY <1>1, <3>1 DEF Visible, Shape, Timely, Past, Links
  <2>2. CASE k # i
    <3>1. Current(k)' <=> Current(k)
      BY <1>1, <1>2, <2>2 DEF Current, Latest
    <3>2. Visible(k)' <=> Visible(k)
      BY <1>1, <1>2, <2>2 DEF Visible
    <3> QED
      BY <1>1, <2>2, <3>1, <3>2 DEF Complete
  <2> QED
    BY <2>1, <2>2
<1>4. ASSUME NEW t \in Tasks
      PROVE  Newer(t)' /\ Accounted(t)'
  <2>1. /\ task[t].missed \subseteq task'[t].missed /\ (Running(t) => i \in task'[t].missed)
        /\ task'[t].pc = task[t].pc /\ task'[t].since = task[t].since /\ task'[t].links = task[t].links
        /\ task'[t].site = task[t].site /\ task'[t].walk = task[t].walk /\ task'[t].left = task[t].left
        /\ task'[t].item = task[t].item /\ task'[t].content = task[t].content
        /\ task'[t].version = task[t].version /\ task'[t].rows = task[t].rows
        /\ task'[t].result = task[t].result
    BY <1>1, EditedTask
  <2>2. Sees(t)' = Sees(t) /\ (Running(t)' <=> Running(t))
    BY <1>1, <2>1 DEF Sees, Running
  <2>3. task[t].pc = "insert" => Running(t)
    BY DEF Running
  <2>4. Newer(t)'
    BY <1>1, <2>1, <2>2, <2>3 DEF Complete, Newer, Keyed
  <2>5. ASSUME Running(t), task[t].result # "failed", NEW k \in Items \ (excused' \cup task'[t].missed)
        PROVE  Covered(t, k)' \/ Due(task[t], k)'
    <3>1. k # i /\ k \in Items \ (excused \cup task[t].missed)
      BY <1>1, <2>1, <2>5
    <3>2. Covered(t, k) => Covered(t, k)'
      BY <1>2, <2>2, <3>1 DEF Covered, Latest
    <3>3. k \in Answer(task[t])' <=> k \in Answer(task[t])
      BY <1>2, <2>1, <3>1 DEF Answer, Changed
    <3>4. Due(task[t], k) => Due(task[t], k)'
      BY <1>2, <2>1, <3>1, <3>3 DEF Due
    <3> QED
      BY <2>5, <3>1, <3>2, <3>4 DEF Complete, Accounted
  <2> QED
    BY <2>1, <2>2, <2>4, <2>5 DEF Accounted
<1> QED
  BY <1>3, <1>4 DEF Complete

LEMMA CompleteNext ==
    ASSUME Shape, Keys, Keys', Complete, [Next]_vars
    PROVE  Complete'
<1>1. CASE UNCHANGED vars
  <2>1. UNCHANGED <<past, modified, docs, config, task, excused>>
    BY <1>1 DEF vars
  <2>2. \A t \in Tasks : Newer(t)' /\ Accounted(t)'
    BY <2>1, SameAccount
  <2>3. (\A i \in Items \ excused : Current(i) \/ Visible(i))'
    BY <2>1 DEF Complete, Current, Visible, Latest, Content
  <2> QED
    BY <2>2, <2>3 DEF Complete
<1>2. ASSUME NEW t \in Tasks, Enqueue(t)
      PROVE  Complete'
  <2> DEFINE r == [Off EXCEPT !.pc = "queued", !.attempt = 1]
  <2>1. r.pc = "queued" /\ task' = [task EXCEPT ![t] = r]
        /\ UNCHANGED <<past, modified, docs, config, excused>>
    BY <1>2, OffType DEF Enqueue, Task
  <2> HIDE DEF r
  <2> QED
    BY <2>1, CompleteKept
<1>3. ASSUME NEW t \in Tasks, Fail(t) \/ InsertConflict(t)
      PROVE  Complete'
  <2>1. Failed(task[t]).pc = "closing" /\ Failed(task[t]).result = "failed"
    BY FailedType DEF Shape, TypeOK
  <2> QED
    BY <1>3, <2>1, CompleteKept DEF Fail, InsertConflict
<1>4. ASSUME NEW t \in Tasks, WorkerDies(t) \/ JobTimeout(t)
      PROVE  Complete'
  <2>1. ASSUME NEW r \in {Retried(task[t]), Off}
        PROVE  r.pc \in {"off", "queued"}
    BY RetriedType, OffType DEF Shape, TypeOK
  <2> QED
    BY <1>4, <2>1, CompleteKept DEF WorkerDies, JobTimeout
<1> QED
  BY <1>1, <1>2, <1>3, <1>4, CompleteEdit, CompleteStart, CompleteFetch, CompleteProcess, CompleteInsert, CompleteCommit
     DEF Next, Work, SyncConnector, ScheduledReconciliation

LEMMA CompleteInvariance == Spec => []Complete
<1> QED
  BY CompleteInit, CompleteNext, ShapeInvariance, KeysInvariance, PTL DEF Spec

-----------------------------------------------------------------------------
(* The theorems.                                                            *)

LEMMA RowsInvariance == Orderly => (Spec => []Rows)
<1> SUFFICES ASSUME Orderly PROVE Spec => []Rows
  OBVIOUS
<1> QED
  BY RowsInit, RowsNext, ShapeInvariance, KeysInvariance, PTL DEF Spec

LEMMA OrderInvariance == Orderly /\ ~Reverting => (Spec => []Order)
<1> SUFFICES ASSUME Orderly, ~Reverting PROVE Spec => []Order
  OBVIOUS
<1> QED
  BY OrderInit, OrderNext, ShapeInvariance, KeysInvariance, RowsInvariance, PTL DEF Spec

\* The tables and the tasks stay well formed, whatever the environment does.
THEOREM TypeCorrect == Spec => []TypeOK
<1>1. Shape => TypeOK
  BY DEF Shape
<1> QED
  BY <1>1, ShapeInvariance, PTL

\* Whatever fails, dies or times out, the versions of a file are numbered without
\* gap or double and in the order of its contents, as long as no content returns,
\* and either one job runs at a time or the source waits for the jobs
\* (get_latest_document, insert_document).
THEOREM VersionsAreInOrder == Orderly /\ ~Reverting => (Spec => []VersionsFollowTheSource)
<1> SUFFICES ASSUME Orderly, ~Reverting PROVE Spec => []VersionsFollowTheSource
  OBVIOUS
<1>1. ASSUME Rows, Order
      PROVE  VersionsFollowTheSource
  <2>1. \A d, e \in docs : d.item = e.item =>
            (d.version < e.version <=> \E m, n \in 1..Len(past[d.item]) :
                m < n /\ past[d.item][m] = d.content /\ past[d.item][n] = e.content)
    BY <1>1 DEF Order, InOrder, Precedes
  <2>2. Numbered(docs)
    BY <1>1 DEF Rows
  <2> QED
    BY <2>1, <2>2 DEF Numbered, VersionsFollowTheSource
<1> QED
  BY <1>1, RowsInvariance, OrderInvariance, PTL

\* A step that changes the documents is the commit of a job that succeeded.
LEMMA DocumentsComeByCommit ==
    ASSUME Shape, [Next]_vars, docs' # docs
    PROVE  \E t \in Tasks : /\ task[t].result = "succeeded" /\ config'.since = task[t].completed
                            /\ task'[t].pc = "off"
<1>1. PICK t \in Tasks : Commit(t)
  BY DEF Next, vars, Edit, SyncConnector, ScheduledReconciliation, Enqueue, Work, StartJob, FetchPage, ProcessPage,
         InsertDocument, InsertConflict, Fail, WorkerDies, JobTimeout
<1>2. task[t].rows # {} /\ task[t].result \in {"succeeded", "failed"}
  BY <1>1 DEF Commit, Shape, Sound, TypeOK, Task
<1>3. task[t].result = "succeeded"
  BY <1>2 DEF Shape, Sound
<1>4. config'.since = task[t].completed
  BY <1>1, <1>3 DEF Commit, Reported, Shape, TypeOK
<1>5. task'[t] = Off
  BY <1>1, <1>3 DEF Commit, Shape, TypeOK
<1> QED
  BY <1>3, <1>4, <1>5, OffType

\* However many jobs overlap, fail, die or time out, documents appear only with
\* the end of a job that succeeded, in a step that moves last_synced_at to its
\* time (_execute_ingestion_job, update_connector_sync_status).
THEOREM SuccessBringsDocuments == Spec => DocumentsComeWithSuccess
<1>1. Shape /\ [Next]_vars =>
        [docs' # docs => \E t \in Tasks :
            /\ task[t].result = "succeeded" /\ task'[t].pc = "off"
            /\ config'.since = task[t].completed /\ config'.since # config.since]_vars
  BY DocumentsComeByCommit DEF Shape, Timely
<1> QED
  BY <1>1, ShapeInvariance, PTL DEF Spec, DocumentsComeWithSuccess

\* However many jobs overlap, fail, die, time out or are retried, of a connector
\* with resume tokens or without, while the source is edited: a job that succeeds
\* leaves only the files behind that some job put out of sight (list_documents,
\* last_synced_at, _resume_token).
THEOREM NothingElseIsMissed == Spec => SyncIsComplete
<1>1. ASSUME Shape, Keys, Complete, [Next]_vars, NEW t \in Tasks,
             task[t].pc = "closing", task[t].result = "succeeded",
             task'[t].pc = "off", config'.since = task[t].completed
      PROVE  \A i \in Items \ excused' : Current(i)'
  <2>1. Commit(t)
    <3>1. task'[t] # task[t]
      BY <1>1
    <3>2. config' # config
      BY <1>1 DEF Shape, Timely
    <3>3. PICK u \in Tasks : Commit(u)
      BY <1>1, <3>2 DEF Next, vars, Edit, SyncConnector, ScheduledReconciliation, Enqueue, Work, StartJob, FetchPage,
            ProcessPage, InsertDocument, InsertConflict, Fail, WorkerDies, JobTimeout
    <3>4. \A v \in Tasks : v # u => task'[v] = task[v]
      BY <1>1, <3>3 DEF Commit, Shape, TypeOK
    <3> QED
      BY <3>1, <3>3, <3>4
  <2> QED
    BY <1>1, <2>1, CommitCurrent
<1>2. Shape /\ Keys /\ Complete /\ [Next]_vars =>
        [\A t \in Tasks :
            /\ task[t].pc = "closing" /\ task[t].result = "succeeded"
            /\ task'[t].pc = "off" /\ config'.since = task[t].completed
            => (\A i \in Items \ excused : Current(i))']_vars
  BY <1>1
<1> QED
  BY <1>2, ShapeInvariance, KeysInvariance, CompleteInvariance, PTL DEF Spec, SyncIsComplete
=============================================================================
