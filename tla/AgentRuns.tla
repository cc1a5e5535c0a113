----------------------------- MODULE AgentRuns -----------------------------
(***************************************************************************)
(* Runs of the agents (app/agents): answering a question, triaging an      *)
(* incident, drafting a postmortem, and the MCP dispatch around them.      *)
(*                                                                         *)
(* A run is one transaction: the agent_executions row is inserted in it,   *)
(* and so is the timeline entry of an investigation.  A statement that the *)
(* database refuses aborts that transaction: every later statement of it   *)
(* fails too, whoever catches the exception.  Calls of the language model, *)
(* the embedding model and the live connectors fail without that effect.   *)
(* The record of the MCP call is written afterwards, in a session of its   *)
(* own.                                                                    *)
(***************************************************************************)
EXTENDS Naturals, Sequences, FiniteSets, SequencesExt

CONSTANTS
    Runs,           \* agent_executions.id
    Documents,      \* the documents whose chunks a search may find
    Percents,       \* the values of a normalized signal, as percentages
    Threshold,      \* settings.confidence_threshold, as a percentage
    MaxRetries,     \* _MAX_RETRIES
    PerSource,      \* _PER_SOURCE_TOP_K
    EvidenceCap,    \* _EVIDENCE_CAP
    LiveMinCount,   \* _LIVE_EVIDENCE_MIN_COUNT
    LiveConnectors, \* the number of active connectors with a live source
    Invented,       \* a reference or marker that stands for nothing
    NoRow           \* "no row has this id"

VARIABLES
    run,        \* the runs, each with its uncommitted rows
    executions, \* the committed agent_executions
    timeline,   \* the committed investigation entry that each run added
    requests    \* the committed mcp_requests: the status of each call

agentVars == <<run, executions, timeline, requests>>

\* The numbered sources of gather_evidence that can contribute.
Sources == <<"code", "slack", "postmortems">>
References == (ToSet(Sources) \X (1..PerSource)) \cup ({"live"} \X (1..LiveConnectors) \X (1..PerSource))

Execution == [status : {"running", "succeeded", "failed"}, confidence : 0..100]
Investigation == [evidence : SUBSET References, hypotheses : SUBSET SUBSET References]

Reply == [kind : {"none", "answer", "declined", "investigation", "draft",
                  "apology", "error", "cancelled"},
          confidence : 0..100, citations : SUBSET Nat]
NoReply == [kind |-> "none", confidence |-> 0, citations |-> {}]

\* tries: the failed attempts of the current call.  aborted: the transaction is.
\* faults: history, what failed that no node degrades around; "entry": the insert of
\* the timeline entry was what aborted the transaction.
Run == [pc : {"off", "begin", "rewrite", "search", "evaluate", "answer", "gather", "connectors",
              "live", "hypothesize", "attach", "draft", "record", "fail", "leave", "log", "done"},
        agent : {"answer_question", "triage_incident", "generate_postmortem"},
        incident : BOOLEAN, mcp : BOOLEAN, aborted : BOOLEAN, tries : 0..MaxRetries,
        error : {"none", "domain", "other"},
        faults : SUBSET {"database", "entry", "domain", "rerank", "draft", "death"},
        confidence : 0..100, chunks : Seq(Documents), source : Nat,
        evidence : Seq(References), hypotheses : SUBSET SUBSET References,
        row : Execution \cup {NoRow}, entry : Investigation \cup {NoRow}, reply : Reply]

AgentsTypeOK ==
    /\ run \in [Runs -> Run]
    /\ executions \in [Runs -> Execution \cup {NoRow}]
    /\ timeline \in [Runs -> Investigation \cup {NoRow}]
    /\ requests \in [Runs -> {"none", "ok", "error"}]

IdleRun == [pc |-> "off", agent |-> "answer_question", incident |-> FALSE, mcp |-> FALSE,
         aborted |-> FALSE, tries |-> 0, error |-> "none", faults |-> {}, confidence |-> 0,
         chunks |-> <<>>, source |-> 1, evidence |-> <<>>, hypotheses |-> {},
         row |-> NoRow, entry |-> NoRow, reply |-> NoReply]

AgentsInit ==
    /\ run = [r \in Runs |-> IdleRun]
    /\ executions = [r \in Runs |-> NoRow]
    /\ timeline = [r \in Runs |-> NoRow]
    /\ requests = [r \in Runs |-> "none"]

-----------------------------------------------------------------------------
\* A step of r that commits nothing, from pc.
Step(r, pc, next) ==
    /\ run[r].pc = pc
    /\ run' = [run EXCEPT ![r] = next]
    /\ UNCHANGED <<executions, timeline, requests>>

\* A statement of a transaction that is not aborted.
Statement(r, pc, next) == ~run[r].aborted /\ Step(r, pc, next)

\* The run x goes on at pc, with a fresh count of attempts.
At(x, pc) == [x EXCEPT !.pc = pc, !.tries = 0]

\* A database statement fails; with the transaction aborted, it has to.
Refused(x) == [x EXCEPT !.aborted = TRUE, !.faults = @ \cup {"database"}]

\* An exception leaves the graph or the pipeline.
Raised(x, error) == [At(x, "fail") EXCEPT !.error = error]

\* The call is over before its run has a row: a permission, an unknown incident.
Denied(x) == [At(x, "leave") EXCEPT !.error = "domain", !.faults = {"domain"},
                                    !.reply.kind = "error"]

\* A request arrives, over REST or MCP, with or without an incident.
Arrive(r, agent, incident, mcp) ==
    /\ incident \/ agent = "answer_question"
    /\ Step(r, "off", [IdleRun EXCEPT !.pc = "begin", !.agent = agent, !.incident = incident, !.mcp = mcp])

\* insert_agent_execution, after triage_incident has found its incident.
Begin(r) ==
    LET first == [answer_question |-> "rewrite", triage_incident |-> "gather",
                  generate_postmortem |-> "draft"]
    IN Step(r, "begin", [At(run[r], first[run[r].agent]) EXCEPT
                            !.row = [status |-> "running", confidence |-> 0]])

Deny(r) == Step(r, "begin", Denied(run[r]))

-----------------------------------------------------------------------------
(* call_with_retry.                                                         *)

\* Where each node goes when its attempts are used up: to its degraded result.
Degraded(x) ==
    CASE x.pc = "rewrite" -> At(x, "search")
      [] x.pc = "search" -> [At(x, "evaluate") EXCEPT !.chunks = <<>>]
      [] x.pc = "answer" -> [At(x, "record") EXCEPT !.reply =
             [kind |-> "declined", confidence |-> x.confidence, citations |-> {}]]
      [] x.pc \in {"gather", "live"} -> [At(x, x.pc) EXCEPT !.source = @ + 1]
      [] x.pc = "hypothesize" -> At(x, "attach")

\* Mutant of Failed: the exhausted retries of the hypothesis call are not caught.
FailedUncaught(x) ==
    IF x.tries < MaxRetries THEN [x EXCEPT !.tries = @ + 1]
    ELSE IF x.pc = "hypothesize" THEN Raised(x, "other") ELSE Degraded(x)

\* Mutant of Failed: the attempts are not counted.
FailedForever(x) == x

Failed(x) == IF x.tries < MaxRetries THEN [x EXCEPT !.tries = @ + 1] ELSE Degraded(x)

\* The call that the current node retries.  connectors' list is not retried.
Retried(x) ==
    \/ x.pc \in {"rewrite", "search", "answer", "hypothesize"}
    \/ x.pc = "gather" /\ x.source <= Len(Sources) /\ Len(x.evidence) < EvidenceCap
    \/ x.pc = "live" /\ x.source <= LiveConnectors

\* An attempt raises: the model, an embedding, the source, an unusable answer.
AttemptFails(r) == Retried(run[r]) /\ Step(r, run[r].pc, Failed(run[r]))

\* An attempt that queries the database is refused: an aborted transaction stays so.
AttemptRefused(r) ==
    /\ Retried(run[r]) /\ run[r].pc \in {"search", "gather"}
    /\ Step(r, run[r].pc, Failed(Refused(run[r])))

-----------------------------------------------------------------------------
(* answer_question: the retrieval agent, the confidence, the answer agent.  *)

\* rewrite_query.  get_incident is outside its try.
RewriteQuery(r) == Statement(r, "rewrite", At(run[r], "search"))

IncidentUnknown(r) ==
    /\ run[r].incident /\ run[r].tries = 0
    /\ Statement(r, "rewrite", Raised([run[r] EXCEPT !.faults = @ \cup {"domain"}], "domain"))

IncidentRefused(r) ==
    /\ run[r].incident /\ run[r].tries = 0
    /\ Step(r, "rewrite", Raised(Refused(run[r]), "other"))

\* search, rerank and assemble_context: the chunks in their final order.
Search(r, found) == Statement(r, "search", [At(run[r], "evaluate") EXCEPT !.chunks = found])

\* The cross-encoder is not inside the try of the node.
RerankFails(r) ==
    Statement(r, "search", Raised([run[r] EXCEPT !.faults = @ \cup {"rerank"}], "other"))

\* The distinct documents that count, as a percentage of _SOURCE_COUNT_CAP = 5.
SourceCountSignal(found) ==
    IF Cardinality(ToSet(found)) >= 5 THEN 100 ELSE 20 * Cardinality(ToSet(found))

\* _weighted_score over the three signals that are ever present, renormalized.
WeightedScore(similarity, rerank, sources) == (40 * similarity + 35 * rerank + 15 * sources) \div 90

\* Mutant of ConfidenceOf: an empty search is scored like any other.
ConfidenceOfAnything(found, similarity, rerank) ==
    WeightedScore(similarity, rerank, SourceCountSignal(found))

ConfidenceOf(found, similarity, rerank) ==
    IF found = <<>> THEN 0 ELSE WeightedScore(similarity, rerank, SourceCountSignal(found))

\* confidence_evaluation, and the route.
EvaluateConfidence(r, similarity, rerank) ==
    LET score == ConfidenceOf(run[r].chunks, similarity, rerank)
    IN Step(r, "evaluate", [At(run[r], IF score >= Threshold THEN "answer" ELSE "gather")
                               EXCEPT !.confidence = score])

\* build_citations over the sentences that verify_grounding kept: a marker that
\* numbers no chunk is dropped.
CitationsOf(sentences, found) == {s.marker : s \in {t \in sentences : t.grounded}} \cap 1..Len(found)

Sentence(found) == [marker : 1..(Len(found) + 1), grounded : BOOLEAN]

\* _generate_and_verify succeeds: the evidence is sufficient and at least one
\* sentence of the model's answer is grounded.
Answer(r, sentences) ==
    /\ run[r].chunks # <<>> /\ \E s \in sentences : s.grounded
    /\ Step(r, "answer", [At(run[r], "record") EXCEPT !.reply =
           [kind |-> "answer", confidence |-> run[r].confidence,
            citations |-> CitationsOf(sentences, run[r].chunks)]])

-----------------------------------------------------------------------------
(* The investigation agent.                                                 *)

Contributed(tag, n) == [k \in 1..n |-> tag \o <<k>>]

\* The next indexed source contributes n items.
GatherSource(r, n) ==
    /\ Retried(run[r])
    /\ Statement(r, "gather", [At(run[r], "gather") EXCEPT !.source = @ + 1,
           !.evidence = @ \o Contributed(<<Sources[run[r].source]>>, n)])

\* _should_augment_with_live_evidence: for an incident, or when the evidence is
\* thin or stale.
AugmentLive(r, stale) ==
    /\ ~Retried(run[r])
    /\ LET wanted == /\ Len(run[r].evidence) < EvidenceCap
                     /\ run[r].incident \/ Len(run[r].evidence) < LiveMinCount \/ stale
       IN Step(r, "gather", At(run[r], IF wanted THEN "connectors" ELSE "hypothesize"))

ListConnectors(r) == Statement(r, "connectors", [At(run[r], "live") EXCEPT !.source = 1])

\* A refusal, by the database or for want of a permission, means no live evidence.
ConnectorsRefused(r) == Step(r, "connectors", At(Refused(run[r]), "hypothesize"))

ConnectorsDenied(r) == Statement(r, "connectors", At(run[r], "hypothesize"))

GatherLive(r, n) ==
    /\ Retried(run[r])
    /\ Step(r, "live", [At(run[r], "live") EXCEPT !.source = @ + 1,
           !.evidence = @ \o Contributed(<<"live", run[r].source>>, n)])

EndLive(r) == ~Retried(run[r]) /\ Step(r, "live", At(run[r], "hypothesize"))

Gathered(x) == {x.evidence[k] : k \in 1..EvidenceCap \cap DOMAIN x.evidence}

\* _validate_hypotheses: unknown references are dropped, and with its last one
\* the hypothesis.
Validated(proposed, known) == {h \cap known : h \in proposed} \ {{}}

\* generate_hypotheses.  Without evidence the model is not asked.
Hypothesize(r, proposed) ==
    Step(r, "hypothesize", [At(run[r], "attach") EXCEPT !.hypotheses =
        IF run[r].evidence = <<>> THEN {} ELSE Validated(proposed, Gathered(run[r]))])

Result(x) == [evidence |-> Gathered(x), hypotheses |-> x.hypotheses]

Investigated(x) == [At(x, "record") EXCEPT !.reply =
    [kind |-> "investigation", confidence |-> x.confidence, citations |-> {}]]

\* Mutant of AttachToTimeline: an investigation that found nothing is not recorded.
AttachFindings(r) ==
    /\ run[r].incident => ~run[r].aborted
    /\ Step(r, "attach", [Investigated(run[r]) EXCEPT
           !.entry = IF run[r].incident /\ run[r].evidence # <<>> THEN Result(run[r]) ELSE NoRow])

\* _attach_to_timeline.
AttachToTimeline(r) ==
    /\ run[r].incident => ~run[r].aborted
    /\ Step(r, "attach", [Investigated(run[r]) EXCEPT
           !.entry = IF run[r].incident THEN Result(run[r]) ELSE NoRow])

\* Its failure is swallowed.  fault: whether it was the first of the transaction.
AttachRefused(r) ==
    /\ run[r].incident
    /\ LET fault == IF run[r].aborted THEN "database" ELSE "entry"
       IN Step(r, "attach", Investigated([run[r] EXCEPT !.aborted = TRUE, !.faults = @ \cup {fault}]))

-----------------------------------------------------------------------------
(* generate_postmortem, and the record of a run.                            *)

\* get_timeline, run_postmortem_pipeline: one call of the model for the root
\* cause and one for the action items, without retries.
Draft(r) == Statement(r, "draft", [At(run[r], "record") EXCEPT !.reply.kind = "draft"])

DraftFails(r) ==
    Statement(r, "draft", Raised([run[r] EXCEPT !.faults = @ \cup {"draft"}], "other"))

DraftRefused(r) == Step(r, "draft", Raised(Refused(run[r]), "other"))

\* What is raised to the caller undoes everything.
RaisedOut(x) == [At(x, "leave") EXCEPT !.reply = [NoReply EXCEPT !.kind = "error"]]

Record(r) ==
    Statement(r, "record", [At(run[r], "leave") EXCEPT !.row =
        [status |-> "succeeded", confidence |-> run[r].confidence]])

\* create_postmortem, which stores what generate_postmortem returned, raises.
DraftNotStored(r) ==
    /\ run[r].reply.kind = "draft"
    /\ Step(r, "leave", RaisedOut([run[r] EXCEPT !.faults = @ \cup {"domain"}]))

RecordRefused(r) == Step(r, "record", RaisedOut(Refused(run[r])))

\* The exception of the graph: the failure is recorded; a domain error, and any
\* error of generate_postmortem, is raised again, another becomes an apology.
RecordFailure(r) ==
    LET failed == [run[r] EXCEPT !.row = [status |-> "failed", confidence |-> 0]]
    IN Statement(r, "fail",
           IF run[r].error = "domain" \/ run[r].agent = "generate_postmortem" THEN RaisedOut(failed)
           ELSE [At(failed, "leave") EXCEPT !.reply = [NoReply EXCEPT !.kind = "apology"]])

RecordFailureRefused(r) == Step(r, "fail", RaisedOut(Refused(run[r])))

\* The handler returned or raised.  The session ends: with a commit, unless the
\* handler raised.  A call over MCP is recorded next.
Ended(x) == IF x.mcp THEN "log" ELSE "done"

Commit(r) ==
    /\ run[r].pc = "leave" /\ run[r].reply.kind # "error"
    /\ executions' = [executions EXCEPT ![r] = run[r].row]
    /\ timeline' = [timeline EXCEPT ![r] = run[r].entry]
    /\ run' = [run EXCEPT ![r] = At(run[r], Ended(run[r]))]
    /\ UNCHANGED requests

Rollback(r) == run[r].reply.kind = "error" /\ Step(r, "leave", At(run[r], Ended(run[r])))

\* Mutant of Unsaved: the tool answers before its session has ended.
UnsavedAnswered(x) == [At(x, Ended(x)) EXCEPT !.faults = @ \cup {"database"}]

\* The commit fails.  Over MCP that is an error of the call; over REST the
\* response is sent before the dependency that commits is left.
Unsaved(x) == [At(x, Ended(x)) EXCEPT !.faults = @ \cup {"database"},
                                      !.reply.kind = IF x.mcp THEN "error" ELSE @]

CommitFails(r) == run[r].reply.kind # "error" /\ Step(r, "leave", Unsaved(run[r]))

Open(r) == run[r].pc \notin {"off", "log", "done"}

\* The process dies: no reply, nothing committed, nothing logged.
Die(r) ==
    /\ Open(r)
    /\ Step(r, run[r].pc, [At(run[r], "done") EXCEPT !.faults = @ \cup {"death"}, !.reply = NoReply])

\* The caller cancels an MCP call: no except clause sees it, the finally does.
CancelCall(r) ==
    /\ Open(r) /\ run[r].mcp
    /\ Step(r, run[r].pc, [At(run[r], "log") EXCEPT !.faults = @ \cup {"death"},
                                                    !.reply = [NoReply EXCEPT !.kind = "cancelled"]])

\* The finally of run_mcp_tool: status 200 unless an exception was seen.
LogRequest(r) ==
    /\ run[r].pc = "log"
    /\ requests' = [requests EXCEPT ![r] = IF run[r].reply.kind = "error" THEN "error" ELSE "ok"]
    /\ run' = [run EXCEPT ![r] = At(run[r], "done")]
    /\ UNCHANGED <<executions, timeline>>

\* A failure to log is swallowed.
LogFails(r) == Step(r, "log", At(run[r], "done"))

-----------------------------------------------------------------------------
Work(r) ==
    \/ Begin(r) \/ Deny(r)
    \/ AttemptFails(r) \/ AttemptRefused(r)
    \/ RewriteQuery(r) \/ IncidentUnknown(r) \/ IncidentRefused(r)
    \/ \E found \in SeqOf(Documents, 2) : Search(r, found)
    \/ RerankFails(r)
    \/ \E similarity, rerank \in Percents : EvaluateConfidence(r, similarity, rerank)
    \/ \E sentences \in SUBSET Sentence(run[r].chunks) : Answer(r, sentences)
    \/ \E n \in 0..PerSource : GatherSource(r, n) \/ GatherLive(r, n)
    \/ \E stale \in BOOLEAN : AugmentLive(r, stale)
    \/ ListConnectors(r) \/ ConnectorsRefused(r) \/ ConnectorsDenied(r) \/ EndLive(r)
    \/ \E h \in SUBSET (Gathered(run[r]) \cup {Invented}) : Hypothesize(r, {h})
    \/ AttachToTimeline(r) \/ AttachRefused(r)
    \/ Draft(r) \/ DraftFails(r) \/ DraftRefused(r)
    \/ Record(r) \/ RecordRefused(r) \/ DraftNotStored(r) \/ RecordFailure(r) \/ RecordFailureRefused(r)
    \/ Commit(r) \/ Rollback(r) \/ CommitFails(r)
    \/ LogRequest(r) \/ LogFails(r)

AgentsNext ==
    \E r \in Runs :
        \/ \E agent \in {"answer_question", "triage_incident", "generate_postmortem"},
              incident, mcp \in BOOLEAN : Arrive(r, agent, incident, mcp)
        \/ Work(r)
        \/ Die(r)
        \/ CancelCall(r)

\* The event loop keeps running the handlers, whose calls all time out.
AgentsSpec == AgentsInit /\ [][AgentsNext]_agentVars /\ \A r \in Runs : WF_agentVars(Work(r))

-----------------------------------------------------------------------------
(* Properties.                                                              *)

Success == {"answer", "declined", "investigation", "draft"}

\* What the caller was told is what the tables say: a result has its execution,
\* with the confidence it was given with, an apology a failed one, and the record
\* of an MCP call that raised does not say ok; over REST a commit may still fail
\* after the response, over MCP it may not (_run_graph_and_record, run_mcp_tool).
RepliesAreRecorded ==
    \A r \in Runs : run[r].pc = "done" =>
        LET reply == run[r].reply
            row == [status |-> IF reply.kind \in Success THEN "succeeded" ELSE "failed",
                    confidence |-> reply.confidence]
        IN /\ reply.kind \in Success \cup {"apology"} =>
                 executions[r] = row \/ (~run[r].mcp /\ executions[r] = NoRow)
           /\ reply.kind = "error" => requests[r] # "ok"

\* "Expected domain errors ...: marked failed for observability, then re-raised"
\* (the docstring of app/agents/service.py): the row that was marked failed is
\* there when the call is over, unless the database or the process failed, too.
FailuresAreRecorded ==
    \A r \in Runs :
        /\ run[r].pc = "done" /\ run[r].faults \cap {"database", "entry", "death"} = {}
        /\ run[r].row # NoRow /\ run[r].row.status = "failed"
        => executions[r] = run[r].row

\* The entry in the timeline and the execution of an investigation of an incident
\* are committed together or not at all, with the evidence and hypotheses that were
\* replied: a refused entry takes the execution with it (_attach_to_timeline).
InvestigationIsAttached ==
    \A r \in Runs :
        /\ executions[r] # NoRow /\ run[r].reply.kind = "investigation" /\ run[r].incident =>
               timeline[r] = Result(run[r])
        /\ timeline[r] # NoRow => executions[r] # NoRow /\ executions[r].status = "succeeded"

\* A failure of the timeline entry is "never allowed to turn an otherwise-successful
\* investigation into a failed one" (the docstring of app/agents/investigation/node.py).
EntryIsBestEffort ==
    \A r \in Runs : run[r].pc = "done" /\ "entry" \in run[r].faults /\ "death" \notin run[r].faults
                    => run[r].reply.kind \in Success

\* The answer agent is never reached without a chunk to ground an answer in ("the
\* Confidence Evaluation node should never route here with zero retrieved
\* chunks"), and what stands in a timeline cites evidence that stands with it,
\* within the cap.
ResultsRestOnEvidence ==
    \A r \in Runs :
        /\ run[r].pc = "answer" => run[r].chunks # <<>>
        /\ timeline[r] # NoRow =>
               /\ Cardinality(timeline[r].evidence) <= EvidenceCap
               /\ \A h \in timeline[r].hypotheses : h # {} /\ h \subseteq timeline[r].evidence

\* However many calls of models, sources and connectors fail, a run that meets no
\* other fault ends with a result (call_with_retry and the nodes' fallbacks).
DegradesGracefully ==
    \A r \in Runs : run[r].pc = "done" /\ run[r].faults = {} => run[r].reply.kind \in Success

\* Every run ends: the retries are bounded (_MAX_RETRIES).
EveryRunEnds == \A r \in Runs : run[r].pc = "begin" ~> run[r].pc = "done"
=============================================================================
