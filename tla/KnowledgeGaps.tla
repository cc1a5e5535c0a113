--------------------------- MODULE KnowledgeGaps ---------------------------
(***************************************************************************)
(* Knowledge-gap detection (app/agents/knowledge_gap and its worker task)  *)
(* for one organization: low-confidence questions are clustered, and each  *)
(* cluster that is large enough is merged into an open report on its topic *)
(* or becomes a new one.                                                   *)
(*                                                                         *)
(* An embedding is a point of a line, on which similarity falls with the   *)
(* distance: a similarity threshold is a radius.  A centroid is kept as a  *)
(* sum and a count, so that distances are compared exactly.  A detection   *)
(* is one transaction that loads the questions and the open reports, asks  *)
(* the models about them, and writes at its commit.  The daily job carries *)
(* no id: after an outage several detections run at once.                  *)
(***************************************************************************)
EXTENDS Integers, Sequences, FiniteSets, SequencesExt

CONSTANTS
    Tasks,          \* detections that may exist at the same time
    Points,         \* the embeddings of questions: integers
    JoinRadius,     \* knowledge_gap_similarity_threshold
    MergeRadius,    \* _MERGE_SIMILARITY_THRESHOLD, the stricter one
    MinClusterSize, \* knowledge_gap_min_cluster_size
    MaxTries,       \* arq's max_tries
    MaxExecutions,  \* bound on the questions asked
    MaxScans        \* bound on the detections enqueued

\* An embedding is a number here, and thresholds are distances or sizes.
ASSUME GapsAssumption ==
    /\ Points \subseteq Int
    /\ {JoinRadius, MergeRadius, MinClusterSize} \subseteq Nat /\ MaxTries \in Nat \ {0}

VARIABLES
    asked,   \* the committed answer_question executions, by started_at
    since,      \* the position from which they are within the lookback
    reports,    \* the committed open reports, oldest first
    task,       \* the detections
    scans,      \* the number of detections enqueued
    raced,      \* history: a detection committed while this one was open
    seen        \* history: the questions of the last detection that committed

gapsVars == <<asked, since, reports, task, scans, raced, seen>>

Question == [id : Nat \ {0}, query : Points, low : BOOLEAN]
Report == [sum : Int, count : Nat \ {0}, support : SUBSET (Nat \ {0})]

GapsTypeOK ==
    /\ asked \in Seq(Question) /\ since \in Nat \ {0}
    /\ reports \in Seq(Report)
    /\ task \in [Tasks -> [pc : {"off", "queued", "open"}, attempt : 0..MaxTries,
                           questions : Seq(Question), reports : Seq(Report)]]
    /\ scans \in Nat /\ raced \subseteq Tasks /\ seen \in Seq(Question)

Off == [pc |-> "off", attempt |-> 0, questions |-> <<>>, reports |-> <<>>]

GapsInit ==
    /\ asked = <<>> /\ since = 1
    /\ reports = <<>>
    /\ task = [t \in Tasks |-> Off]
    /\ scans = 0 /\ raced = {} /\ seen = <<>>

-----------------------------------------------------------------------------
(* Similarity.                                                              *)

\* The distance of two centroids, as a fraction; a point is a centroid of one.
Distance(a, b) ==
    LET d == a.sum * b.count - b.sum * a.count
    IN [num |-> IF d < 0 THEN -d ELSE d, den |-> a.count * b.count]

Closer(p, q) == p.num * q.den < q.num * p.den
Within(p, radius) == p.num <= radius * p.den

\* The position of the first of the centroids that is closest to c.
Closest(c, centroids) ==
    CHOOSE k \in DOMAIN centroids :
        \A l \in DOMAIN centroids :
            LET dk == Distance(c, centroids[k])
                dl == Distance(c, centroids[l])
            IN ~Closer(dl, dk) /\ (l < k => Closer(dk, dl))

\* One question joins the closest cluster, or starts one.
Join(clusters, e) ==
    LET point == [sum |-> e.query, count |-> 1, support |-> {e.id}]
        k == Closest(point, clusters)
    IN IF clusters # <<>> /\ Within(Distance(point, clusters[k]), JoinRadius)
       THEN [clusters EXCEPT ![k] = [sum |-> @.sum + e.query, count |-> @.count + 1,
                                     support |-> @.support \cup {e.id}]]
       ELSE Append(clusters, point)

\* cluster_by_similarity.
ClusterBySimilarity(questions) == FoldLeft(Join, <<>>, questions)

\* The clusters that are a gap.
LargeOnly(gaps, c) == IF c.count >= MinClusterSize THEN Append(gaps, c) ELSE gaps

Gaps(questions) ==
    IF Len(questions) < MinClusterSize THEN <<>>
    ELSE FoldLeft(LargeOnly, <<>>, ClusterBySimilarity(questions))

-----------------------------------------------------------------------------
(* A detection.                                                             *)

\* Mutant of Merged: the report keeps only the questions of this run.
MergedAnew(report, gap) == [report EXCEPT !.support = gap.support]

\* update_gap_report_supporting_ids.  The embedding stays that of the first run.
Merged(report, gap) == [report EXCEPT !.support = @ \cup gap.support]

\* Mutant of Mergeable: the match is looked for among the gaps of this run.
MergeableNever(gap, existing) == 0

\* _find_mergeable_report, among the reports that were loaded, newest first: the
\* position of the report, or 0.
Mergeable(gap, existing) ==
    LET k == Closest(gap, Reverse(existing))
    IN IF existing # <<>> /\ Within(Distance(gap, Reverse(existing)[k]), MergeRadius)
       THEN Len(existing) + 1 - k ELSE 0

\* One gap: a report that was loaded takes it in, or it becomes a new report.
\* loaded: how many of the rows were loaded.
Place(loaded, rows, gap) ==
    LET k == Mergeable(gap, SubSeq(rows, 1, loaded))
    IN IF k # 0 THEN [rows EXCEPT ![k] = Merged(@, gap)] ELSE Append(rows, gap)

\* The rows of a detection that loaded these.
Detected(questions, existing) ==
    FoldLeft(LAMBDA rows, gap : Place(Len(existing), rows, gap), existing, Gaps(questions))

\* A question is answered, with a confidence below the threshold or not.
Ask(x, low) ==
    /\ Len(asked) < MaxExecutions
    /\ asked' = Append(asked, [id |-> Len(asked) + 1, query |-> x, low |-> low])
    /\ UNCHANGED <<since, reports, task, scans, raced, seen>>

\* The oldest question falls out of the lookback.
Age ==
    /\ since <= Len(asked)
    /\ since' = since + 1
    /\ UNCHANGED <<asked, reports, task, scans, raced, seen>>

\* scheduled_knowledge_gap_scan enqueues a detection.
Scan(t) ==
    /\ task[t].pc = "off" /\ scans < MaxScans
    /\ task' = [task EXCEPT ![t] = [Off EXCEPT !.pc = "queued", !.attempt = 1]]
    /\ scans' = scans + 1
    /\ UNCHANGED <<asked, since, reports, raced, seen>>

\* list_low_confidence_executions.
LowOnly(questions, e) == IF e.low THEN Append(questions, e) ELSE questions
LowConfidence == FoldLeft(LowOnly, <<>>, SubSeq(asked, since, Len(asked)))

\* The detection opens its transaction and loads what it decides on.
Load(t) ==
    /\ task[t].pc = "queued"
    /\ task' = [task EXCEPT ![t] = [@ EXCEPT !.pc = "open", !.questions = LowConfidence,
                                             !.reports = reports]]
    /\ raced' = raced \ {t}
    /\ UNCHANGED <<asked, since, reports, scans, seen>>

\* The rows at the commit: an update overwrites the support that the row has by
\* then, a new report is inserted whatever else was.
CommitDetection(t) ==
    /\ task[t].pc = "open"
    /\ LET old == task[t].reports
           new == Detected(task[t].questions, old)
       IN reports' = [k \in DOMAIN reports |->
                         IF k <= Len(old) /\ new[k] # old[k] THEN new[k] ELSE reports[k]]
                     \o SubSeq(new, Len(old) + 1, Len(new))
    /\ task' = [task EXCEPT ![t] = Off]
    /\ raced' = raced \cup {u \in Tasks \ {t} : task[u].pc = "open"}
    /\ seen' = task[t].questions
    /\ UNCHANGED <<asked, since, scans>>

\* A model or the database fails, or the worker dies: the transaction is lost, and
\* the task is tried again while it may.
Fail(t) ==
    /\ task[t].pc = "open"
    /\ task' = [task EXCEPT ![t] = IF @.attempt < MaxTries
                                   THEN [Off EXCEPT !.pc = "queued", !.attempt = task[t].attempt + 1]
                                   ELSE Off]
    /\ UNCHANGED <<asked, since, reports, scans, raced, seen>>

GapsNext ==
    \/ \E x \in Points, low \in BOOLEAN : Ask(x, low)
    \/ Age
    \/ \E t \in Tasks : Scan(t) \/ Load(t) \/ CommitDetection(t) \/ Fail(t)

GapsSpec == GapsInit /\ [][GapsNext]_gapsVars

-----------------------------------------------------------------------------
(* Properties.                                                              *)

\* What a detection that no other one overlapped commits loses no support that a
\* report had, and keeps the topic it was opened with: reports are merged into,
\* never replaced (update_gap_report_supporting_ids).
ReportsOnlyGrow ==
    [][\A t \in Tasks \ raced : task[t].pc = "open" /\ task'[t].pc = "off" /\ reports' # reports =>
          \A k \in DOMAIN reports :
              /\ reports[k].support \subseteq reports'[k].support
              /\ <<reports'[k].sum, reports'[k].count>> = <<reports[k].sum, reports[k].count>>]_gapsVars

\* "Every run of this pipeline would create a duplicate": a detection that finds
\* the questions of the last one, and that no other one overlapped, opens no
\* report, whatever was merged or added in between (_find_mergeable_report).
RepeatedRunsAddNothing ==
    [][\A t \in Tasks \ raced : task[t].pc = "open" /\ task'[t].pc = "off" /\ task[t].questions = seen =>
          Len(reports') = Len(reports)]_gapsVars
=============================================================================
