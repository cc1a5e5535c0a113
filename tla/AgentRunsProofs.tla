-------------------------- MODULE AgentRunsProofs --------------------------
(***************************************************************************)
(* Proofs about AgentRuns, for any number of runs, documents, sources,     *)
(* retries and scores: what a caller is told is what the tables say, an    *)
(* investigation has its timeline entry, and results rest on evidence.     *)
(***************************************************************************)
EXTENDS AgentRuns, FiniteSetTheorems, TLAPS

\* A threshold of zero, which the settings allow, would send a question without
\* any chunk to the answer agent.
AgentAssumption ==
    /\ Threshold \in Nat \ {0}
    /\ EvidenceCap \in Nat
    /\ \A status, confidence : NoRow # [status |-> status, confidence |-> confidence]

Fields == {"pc", "agent", "incident", "mcp", "aborted", "tries", "error", "faults", "confidence",
           "chunks", "source", "evidence", "hypotheses", "row", "entry", "reply"}

\* Before the hypotheses, and before there is anything to reply.
Gathering == {"begin", "rewrite", "search", "evaluate", "answer", "gather", "connectors", "live",
              "hypothesize", "draft"}
Unanswered == Gathering \cup {"attach", "fail"}

\* Every hypothesis cites evidence that was gathered.
Grounded(x) == \A h \in x.hypotheses : h # {} /\ h \subseteq Gathered(x)

\* An investigation of an incident has its entry.
Attached(x) == x.reply.kind = "investigation" /\ x.incident => x.entry = Result(x)

\* The row of an execution that goes with the reply of x.
RowOf(x) == [status |-> IF x.reply.kind \in Success THEN "succeeded" ELSE "failed",
             confidence |-> x.reply.confidence]

\* What a run says of itself before its transaction has ended.
Sound(x) ==
    /\ DOMAIN x = Fields
    /\ DOMAIN x.reply = {"kind", "confidence", "citations"}
    /\ x.agent \in {"answer_question", "triage_incident", "generate_postmortem"}
    /\ x.pc \in Unanswered => x.reply = NoReply /\ x.entry = NoRow
    /\ x.pc \in {"begin", "draft"} => x.confidence = 0
    /\ x.pc \in Gathering => x.hypotheses = {}
    /\ x.pc = "answer" => x.chunks # <<>>
    /\ x.pc = "record" => /\ x.reply.kind \in Success /\ x.reply.confidence = x.confidence
                          /\ ~x.aborted => Attached(x)
    /\ x.pc = "leave" => \/ x.reply.kind = "error"
                         \/ x.reply.kind \in Success /\ x.row = RowOf(x) /\ Attached(x)
                         \/ x.reply.kind = "apology" /\ x.row = RowOf(x) /\ x.entry = NoRow
    /\ Grounded(x)
    /\ x.entry # NoRow => x.entry = Result(x)
    /\ x.pc = "fail" => x.faults # {}
    /\ x.pc \in {"leave", "log", "done"} /\ x.reply.kind \notin Success => x.faults # {}

\* What the tables hold of a run: nothing until its transaction has ended.
Stored(x, execution, entry, request) ==
    /\ x.pc \notin {"log", "done"} => execution = NoRow /\ entry = NoRow
    /\ x.pc # "done" => request = "none"
    /\ x.pc \in {"log", "done"} =>
        /\ x.reply.kind \in Success \cup {"apology"} =>
               execution = RowOf(x) \/ (~x.mcp /\ execution = NoRow)
        /\ x.reply.kind = "error" => execution = NoRow /\ request # "ok"
        /\ execution # NoRow => Attached(x) /\ entry = x.entry
        /\ entry # NoRow => /\ execution # NoRow /\ execution.status = "succeeded"
                            /\ entry = Result(x) /\ Grounded(x)

\* The inductive invariant.
IInv ==
    /\ DOMAIN run = Runs /\ DOMAIN executions = Runs
    /\ DOMAIN timeline = Runs /\ DOMAIN requests = Runs
    /\ \A r \in Runs : Sound(run[r]) /\ Stored(run[r], executions[r], timeline[r], requests[r])

-----------------------------------------------------------------------------
\* At and the functions on runs that use it only change what they name.
LEMMA AtFields ==
    ASSUME NEW x, DOMAIN x = Fields, NEW pc
    PROVE  /\ DOMAIN At(x, pc) = Fields /\ At(x, pc).pc = pc
           /\ \A f \in Fields \ {"pc", "tries"} : At(x, pc)[f] = x[f]
BY DEF At, Fields

LEMMA InitOK == AgentsInit => IInv
BY DEF AgentsInit, IInv, IdleRun, Fields, Sound, Stored, Grounded, Result, NoReply, Unanswered, Gathering

\* A run that goes on before it has hypotheses or a reply.
LEMMA Quiet ==
    ASSUME NEW x, Sound(x), x.pc \in Gathering,
           NEW y, DOMAIN y = Fields, y.pc \in Unanswered \ {"begin"},
           y.pc = "draft" => y.confidence = 0,
           y.pc = "answer" => y.chunks # <<>>,
           y.pc = "fail" => y.faults # {},
           y.reply = x.reply, y.entry = x.entry, y.hypotheses = x.hypotheses, y.agent = x.agent
    PROVE  Sound(y)
BY DEF Sound, Grounded, Unanswered, Gathering

\* A step of one run that leaves its rows as they are stored.
LEMMA StepKeeps ==
    ASSUME IInv, NEW r \in Runs, NEW pc, NEW y, Step(r, pc, y), Sound(y),
           Stored(y, executions[r], timeline[r], requests[r])
    PROVE  IInv'
<1>1. \A q \in Runs : run'[q] = IF q = r THEN y ELSE run[q]
  BY DEF Step, IInv
<1>2. DOMAIN run' = Runs
  BY DEF Step, IInv
<1> QED
  BY <1>1, <1>2 DEF Step, IInv

\* A step before the transaction of a run ends.
LEMMA OpenStep ==
    ASSUME IInv, NEW r \in Runs, NEW pc, NEW y, Step(r, pc, y), pc \notin {"log", "done"},
           Sound(y), y.pc \notin {"log", "done"}
    PROVE  IInv'
<1>1. run[r].pc = pc /\ Stored(run[r], executions[r], timeline[r], requests[r])
  BY DEF Step, IInv
<1>2. Stored(y, executions[r], timeline[r], requests[r])
  BY <1>1 DEF Stored
<1> QED
  BY <1>2, StepKeeps

\* A step of the graph before there is anything to reply.
LEMMA QuietStep ==
    ASSUME IInv, NEW r \in Runs, NEW pc \in Gathering, NEW y, Step(r, pc, y),
           DOMAIN y = Fields, y.pc \in Unanswered \ {"begin"},
           y.pc = "draft" => y.confidence = 0,
           y.pc = "answer" => y.chunks # <<>>,
           y.pc = "fail" => y.faults # {},
           y.reply = run[r].reply, y.entry = run[r].entry, y.hypotheses = run[r].hypotheses,
           y.agent = run[r].agent
    PROVE  IInv'
<1>1. Sound(run[r]) /\ run[r].pc \in Gathering
  BY DEF IInv, Step
<1>2. Sound(y)
  BY <1>1, Quiet
<1> QED
  BY <1>2, OpenStep DEF Unanswered, Gathering

LEMMA RefusedFields ==
    ASSUME NEW x, DOMAIN x = Fields
    PROVE  /\ DOMAIN Refused(x) = Fields
           /\ Refused(x).aborted /\ Refused(x).faults # {}
           /\ \A f \in Fields \ {"aborted", "faults"} : Refused(x)[f] = x[f]
BY DEF Refused, Fields

LEMMA RaisedFields ==
    ASSUME NEW x, DOMAIN x = Fields, NEW error
    PROVE  /\ DOMAIN Raised(x, error) = Fields
           /\ Raised(x, error).pc = "fail"
           /\ \A f \in Fields \ {"pc", "tries", "error"} : Raised(x, error)[f] = x[f]
BY AtFields DEF Raised, Fields

-----------------------------------------------------------------------------
\* The steps of the graph and of the pipeline, by what they change.
LEMMA ArriveKeeps ==
    ASSUME IInv, NEW r \in Runs, NEW incident, NEW mcp,
           NEW agent \in {"answer_question", "triage_incident", "generate_postmortem"},
           Arrive(r, agent, incident, mcp)
    PROVE  IInv'
<1> DEFINE y == [IdleRun EXCEPT !.pc = "begin", !.agent = agent, !.incident = incident, !.mcp = mcp]
<1>1. Step(r, "off", y)
  BY DEF Arrive
<1>2. Sound(y) /\ y.pc = "begin"
  BY DEF IdleRun, Sound, Fields, NoReply, Unanswered, Gathering, Grounded
<1> HIDE DEF y
<1> QED
  BY <1>1, <1>2, OpenStep

LEMMA BeginKeeps ==
    ASSUME IInv, NEW r \in Runs, Begin(r)
    PROVE  IInv'
<1> DEFINE first == [answer_question |-> "rewrite", triage_incident |-> "gather",
                     generate_postmortem |-> "draft"][run[r].agent]
           y == [At(run[r], first) EXCEPT !.row = [status |-> "running", confidence |-> 0]]
<1>1. Sound(run[r])
  BY DEF IInv
<1>2. Step(r, "begin", y) /\ run[r].pc = "begin"
  BY DEF Begin, Step
<1>3. first \in {"rewrite", "gather", "draft"}
  BY <1>1 DEF Sound
<1> HIDE DEF first
<1>4. /\ DOMAIN y = Fields /\ y.pc = first
      /\ y.reply = run[r].reply /\ y.entry = run[r].entry /\ y.hypotheses = run[r].hypotheses
      /\ y.confidence = 0 /\ y.agent = run[r].agent
  BY <1>1, <1>2, AtFields DEF Sound, Fields
<1> HIDE DEF y
<1> QED
  BY <1>2, <1>3, <1>4, QuietStep DEF Unanswered, Gathering
\* The call of a node fails: it is tried again, or the node degrades.
LEMMA FailedSound ==
    ASSUME NEW x, Sound(x), Retried(x)
    PROVE  Sound(Failed(x)) /\ Failed(x).pc \notin {"log", "done"}
<1>1. /\ DOMAIN x = Fields
      /\ x.pc \in {"rewrite", "search", "answer", "hypothesize", "gather", "live"}
  BY DEF Sound, Retried
<1>2. CASE x.tries < MaxRetries
  <2> DEFINE y == [x EXCEPT !.tries = @ + 1]
  <2>1. /\ DOMAIN y = Fields /\ y.pc = x.pc /\ y.reply = x.reply /\ y.entry = x.entry
        /\ y.hypotheses = x.hypotheses /\ y.agent = x.agent /\ y.chunks = x.chunks
    BY <1>1 DEF Fields
  <2>2. Failed(x) = y
    BY <1>2 DEF Failed
  <2> HIDE DEF y
  <2> QED
    BY <1>1, <2>1, <2>2, Quiet DEF Unanswered, Gathering, Sound
<1>3. CASE ~(x.tries < MaxRetries) /\ x.pc # "answer"
  <2> DEFINE y == Degraded(x)
  <2>1. CASE x.pc \in {"rewrite", "hypothesize"}
    <3>1. y = At(x, IF x.pc = "rewrite" THEN "search" ELSE "attach")
      BY <2>1 DEF Degraded
    <3> QED
      BY <1>1, <1>3, <2>1, <3>1, AtFields, Quiet DEF Failed, Unanswered, Gathering, Fields
  <2>2. CASE x.pc = "search"
    <3>1. y = [At(x, "evaluate") EXCEPT !.chunks = <<>>]
      BY <2>2 DEF Degraded
    <3>2. /\ DOMAIN y = Fields /\ y.pc = "evaluate" /\ y.reply = x.reply /\ y.entry = x.entry
          /\ y.hypotheses = x.hypotheses /\ y.agent = x.agent
      BY <1>1, <3>1, AtFields DEF Fields
    <3> HIDE DEF y
    <3> QED
      BY <1>1, <1>3, <2>2, <3>2, Quiet DEF Failed, Unanswered, Gathering, y
  <2>3. CASE x.pc \in {"gather", "live"}
    <3>1. y = [At(x, x.pc) EXCEPT !.source = @ + 1]
      BY <2>3 DEF Degraded
    <3>2. /\ DOMAIN y = Fields /\ y.pc = x.pc /\ y.reply = x.reply /\ y.entry = x.entry
          /\ y.hypotheses = x.hypotheses /\ y.agent = x.agent
      BY <1>1, <3>1, AtFields DEF Fields
    <3> HIDE DEF y
    <3> QED
      BY <1>1, <1>3, <2>3, <3>2, Quiet DEF Failed, Unanswered, Gathering, y
  <2> QED
    BY <1>1, <1>3, <2>1, <2>2, <2>3
<1>4. CASE ~(x.tries < MaxRetries) /\ x.pc = "answer"
  <2> DEFINE reply == [kind |-> "declined", confidence |-> x.confidence, citations |-> {}]
             y == [At(x, "record") EXCEPT !.reply = reply]
  <2>1. /\ DOMAIN y = Fields /\ y.pc = "record" /\ y.reply = reply
        /\ \A f \in Fields \ {"pc", "tries", "reply"} : y[f] = x[f]
    BY <1>1, AtFields DEF Fields
  <2>2. Failed(x) = y
    BY <1>4 DEF Failed, Degraded
  <2>3. /\ y.hypotheses = {} /\ y.entry = NoRow
        /\ y.agent \in {"answer_question", "triage_incident", "generate_postmortem"}
        /\ y.confidence = x.confidence
    BY <1>4, <2>1 DEF Sound, Fields, Gathering, Unanswered
  <2> HIDE DEF y
  <2> QED
    BY <2>1, <2>2, <2>3 DEF Sound, Grounded, Attached, Success, Unanswered, Gathering
<1> QED
  BY <1>2, <1>3, <1>4

LEMMA AttemptKeeps ==
    ASSUME IInv, NEW r \in Runs, AttemptFails(r) \/ AttemptRefused(r)
    PROVE  IInv'
<1> DEFINE x == run[r]
<1>1. Sound(x) /\ Retried(x)
  BY DEF IInv, AttemptFails, AttemptRefused
<1>2. x.pc \in Gathering
  BY <1>1 DEF Retried, Gathering
<1>3. CASE AttemptFails(r)
  BY <1>1, <1>2, <1>3, FailedSound, OpenStep DEF AttemptFails, Gathering
<1>4. CASE AttemptRefused(r)
  <2> DEFINE z == Refused(x)
  <2>0. x.pc \in {"search", "gather"} /\ DOMAIN x = Fields
    BY <1>1, <1>4 DEF AttemptRefused, Sound
  <2>1. DOMAIN z = Fields /\ z.pc = x.pc
        /\ z.reply = x.reply /\ z.entry = x.entry /\ z.hypotheses = x.hypotheses /\ z.agent = x.agent
        /\ z.evidence = x.evidence /\ z.source = x.source
    BY <2>0, RefusedFields DEF Fields
  <2>2. Sound(z)
    BY <1>1, <1>2, <2>0, <2>1, Quiet DEF Unanswered, Gathering
  <2>3. Retried(z)
    BY <1>1, <2>0, <2>1 DEF Retried
  <2> HIDE DEF z
  <2>4. Sound(Failed(z)) /\ Failed(z).pc \notin {"log", "done"}
    BY <2>2, <2>3, FailedSound
  <2>5. Step(r, x.pc, Failed(z))
    BY <1>4 DEF AttemptRefused, z
  <2> QED
    BY <2>0, <2>4, <2>5, OpenStep
<1> QED
  BY <1>3, <1>4
\* The steps of the retrieval agent and of the gathering of evidence that do
\* not fail: they move the run on, with other chunks, evidence or confidence.
LEMMA GatheringKeeps ==
    ASSUME IInv, NEW r \in Runs,
           \/ RewriteQuery(r) \/ \E found : Search(r, found)
           \/ \E n : GatherSource(r, n) \/ GatherLive(r, n)
           \/ \E stale : AugmentLive(r, stale)
           \/ ListConnectors(r) \/ ConnectorsDenied(r) \/ ConnectorsRefused(r) \/ EndLive(r)
    PROVE  IInv'
<1>1. DOMAIN run[r] = Fields
  BY DEF IInv, Sound
<1>2. \A pc : /\ DOMAIN At(run[r], pc) = Fields /\ At(run[r], pc).pc = pc
              /\ \A f \in Fields \ {"pc", "tries"} : At(run[r], pc)[f] = run[r][f]
  BY <1>1, AtFields
<1>3. CASE RewriteQuery(r) \/ ConnectorsDenied(r) \/ EndLive(r) \/ \E stale : AugmentLive(r, stale)
  <2>1. PICK pc \in Gathering, to \in {"search", "hypothesize", "connectors"} :
           Step(r, pc, At(run[r], to))
    BY <1>3 DEF RewriteQuery, ConnectorsDenied, EndLive, AugmentLive, Statement, Gathering
  <2> QED
    BY <2>1, <1>2, QuietStep DEF Unanswered, Gathering, Fields
<1>4. ASSUME NEW found, Search(r, found) PROVE IInv'
  <2> DEFINE y == [At(run[r], "evaluate") EXCEPT !.chunks = found]
  <2>1. Step(r, "search", y)
    BY <1>4 DEF Search, Statement
  <2>2. /\ DOMAIN y = Fields /\ y.pc = "evaluate"
        /\ \A f \in {"reply", "entry", "hypotheses", "agent"} : y[f] = run[r][f]
    BY <1>2 DEF Fields
  <2> HIDE DEF y
  <2> QED
    BY <2>1, <2>2, QuietStep DEF Unanswered, Gathering
<1>5. ASSUME NEW n, GatherSource(r, n) \/ GatherLive(r, n) PROVE IInv'
  <2>0. PICK pc \in {"gather", "live"} :
           \E more : Step(r, pc, [At(run[r], pc) EXCEPT !.source = @ + 1, !.evidence = @ \o more])
    BY <1>5 DEF GatherSource, GatherLive, Statement
  <2>1. PICK more : Step(r, pc, [At(run[r], pc) EXCEPT !.source = @ + 1, !.evidence = @ \o more])
    BY <2>0
  <2> DEFINE y == [At(run[r], pc) EXCEPT !.source = @ + 1, !.evidence = @ \o more]
  <2>2. /\ DOMAIN y = Fields /\ y.pc = pc
        /\ \A f \in {"reply", "entry", "hypotheses", "agent"} : y[f] = run[r][f]
    BY <1>2 DEF Fields
  <2>3. Step(r, pc, y)
    BY <2>1
  <2> HIDE DEF y
  <2> QED
    BY <2>2, <2>3, QuietStep DEF Unanswered, Gathering
<1>6. CASE ListConnectors(r)
  <2> DEFINE y == [At(run[r], "live") EXCEPT !.source = 1]
  <2>1. Step(r, "connectors", y)
    BY <1>6 DEF ListConnectors, Statement
  <2>2. /\ DOMAIN y = Fields /\ y.pc = "live"
        /\ \A f \in {"reply", "entry", "hypotheses", "agent"} : y[f] = run[r][f]
    BY <1>2 DEF Fields
  <2> HIDE DEF y
  <2> QED
    BY <2>1, <2>2, QuietStep DEF Unanswered, Gathering
<1>7. CASE ConnectorsRefused(r)
  <2> DEFINE z == Refused(run[r])
             y == At(z, "hypothesize")
  <2>1. DOMAIN z = Fields /\ \A f \in {"reply", "entry", "hypotheses", "agent"} : z[f] = run[r][f]
    BY <1>1, RefusedFields DEF Fields
  <2>2. Step(r, "connectors", y)
    BY <1>7 DEF ConnectorsRefused
  <2> HIDE DEF z
  <2>3. /\ DOMAIN y = Fields /\ y.pc = "hypothesize"
        /\ \A f \in {"reply", "entry", "hypotheses", "agent"} : y[f] = run[r][f]
    BY <2>1, AtFields DEF Fields
  <2> HIDE DEF y
  <2> QED
    BY <2>2, <2>3, QuietStep DEF Unanswered, Gathering
<1> QED
  BY <1>3, <1>4, <1>5, <1>6, <1>7

\* An exception leaves the graph, which has nothing to reply.
LEMMA RaisingKeeps ==
    ASSUME IInv, NEW r \in Runs,
           \/ IncidentUnknown(r) \/ IncidentRefused(r) \/ RerankFails(r)
           \/ DraftFails(r) \/ DraftRefused(r)
    PROVE  IInv'
<1>1. DOMAIN run[r] = Fields
  BY DEF IInv, Sound
<1>2. PICK pc \in {"rewrite", "search", "draft"} : \E error, what :
         \/ Step(r, pc, Raised(Refused(run[r]), error))
         \/ what # {} /\ Step(r, pc, Raised([run[r] EXCEPT !.faults = @ \cup what], error))
  BY DEF IncidentUnknown, IncidentRefused, RerankFails, DraftFails, DraftRefused, Statement
<1>3. PICK z, error :
         /\ DOMAIN z = Fields /\ z.faults # {}
         /\ \A f \in {"reply", "entry", "hypotheses", "agent"} : z[f] = run[r][f]
         /\ Step(r, pc, Raised(z, error))
  <2>0. PICK error, what :
           \/ Step(r, pc, Raised(Refused(run[r]), error))
           \/ what # {} /\ Step(r, pc, Raised([run[r] EXCEPT !.faults = @ \cup what], error))
    BY <1>2
  <2>1. CASE Step(r, pc, Raised(Refused(run[r]), error))
    BY <1>1, <2>1, RefusedFields DEF Fields
  <2>2. CASE what # {} /\ Step(r, pc, Raised([run[r] EXCEPT !.faults = @ \cup what], error))
    <3> DEFINE z == [run[r] EXCEPT !.faults = @ \cup what]
    <3>1. /\ DOMAIN z = Fields /\ z.faults # {}
          /\ \A f \in {"reply", "entry", "hypotheses", "agent"} : z[f] = run[r][f]
      BY <1>1, <2>2 DEF Fields
    <3>2. Step(r, pc, Raised(z, error))
      BY <2>2
    <3> HIDE DEF z
    <3> QED
      BY <3>1, <3>2
  <2> QED
    BY <2>0, <2>1, <2>2
<1> DEFINE y == Raised(z, error)
<1>4. /\ DOMAIN y = Fields /\ y.pc = "fail" /\ y.faults # {}
      /\ \A f \in {"reply", "entry", "hypotheses", "agent"} : y[f] = run[r][f]
  BY <1>3, RaisedFields DEF Fields
<1>5. Step(r, pc, y)
  BY <1>3
<1> HIDE DEF y
<1> QED
  BY <1>4, <1>5, QuietStep DEF Unanswered, Gathering
\* The route after the confidence: only chunks lead to the answer agent.
LEMMA EvaluateKeeps ==
    ASSUME AgentAssumption, IInv, NEW r \in Runs, NEW similarity, NEW rerank,
           EvaluateConfidence(r, similarity, rerank)
    PROVE  IInv'
<1> DEFINE x == run[r]
           score == ConfidenceOf(x.chunks, similarity, rerank)
           to == IF score >= Threshold THEN "answer" ELSE "gather"
           y == [At(x, to) EXCEPT !.confidence = score]
<1>1. DOMAIN x = Fields
  BY DEF IInv, Sound
<1>2. Step(r, "evaluate", y)
  BY DEF EvaluateConfidence
<1>3. to = "answer" => x.chunks # <<>>
  <2> SUFFICES ASSUME x.chunks = <<>> PROVE to = "gather"
    OBVIOUS
  <2>1. score = 0
    BY DEF ConfidenceOf
  <2>2. ~(0 >= Threshold)
    BY DEF AgentAssumption
  <2> QED
    BY <2>1, <2>2
<1>4. to \in {"answer", "gather"}
  OBVIOUS
<1> HIDE DEF score, to
<1>5. /\ DOMAIN y = Fields /\ y.pc = to
      /\ \A f \in {"reply", "entry", "hypotheses", "agent", "chunks"} : y[f] = x[f]
  BY <1>1, AtFields DEF Fields
<1> HIDE DEF y
<1> QED
  BY <1>2, <1>3, <1>4, <1>5, QuietStep DEF Unanswered, Gathering

\* A reply that is to be recorded.
LEMMA RecordedNext ==
    ASSUME IInv, NEW r \in Runs, NEW pc \in Unanswered, NEW y, Step(r, pc, y),
           DOMAIN y = Fields, y.pc = "record",
           DOMAIN y.reply = {"kind", "confidence", "citations"},
           y.reply.kind \in Success, y.reply.confidence = y.confidence,
           ~y.aborted => Attached(y),
           y.agent = run[r].agent, y.hypotheses = run[r].hypotheses, y.evidence = run[r].evidence,
           y.entry \in {NoRow, Result(y)}
    PROVE  IInv'
<1>1. Sound(run[r]) /\ run[r].pc = pc
  BY DEF IInv, Step
<1>2. Grounded(y)
  BY <1>1 DEF Sound, Grounded, Gathered
<1>3. Sound(y)
  BY <1>1, <1>2 DEF Sound, Unanswered, Gathering
<1> QED
  BY <1>3, OpenStep DEF Unanswered, Gathering

LEMMA AnswerKeeps ==
    ASSUME IInv, NEW r \in Runs, NEW sentences, Answer(r, sentences)
    PROVE  IInv'
<1> DEFINE reply == [kind |-> "answer", confidence |-> run[r].confidence,
                     citations |-> CitationsOf(sentences, run[r].chunks)]
           y == [At(run[r], "record") EXCEPT !.reply = reply]
<1>1. DOMAIN run[r] = Fields /\ run[r].entry = NoRow
  BY DEF IInv, Sound, Answer, Step, Unanswered, Gathering
<1>2. Step(r, "answer", y)
  BY DEF Answer
<1>3. /\ DOMAIN y = Fields /\ y.pc = "record" /\ y.reply = reply
      /\ \A f \in {"entry", "hypotheses", "agent", "evidence", "confidence"} : y[f] = run[r][f]
  BY <1>1, AtFields DEF Fields
<1> HIDE DEF y
<1> QED
  BY <1>1, <1>2, <1>3, RecordedNext DEF Attached, Success, Unanswered, Gathering

LEMMA DraftKeeps ==
    ASSUME IInv, NEW r \in Runs, Draft(r)
    PROVE  IInv'
<1> DEFINE y == [At(run[r], "record") EXCEPT !.reply.kind = "draft"]
<1>1. /\ DOMAIN run[r] = Fields /\ run[r].entry = NoRow /\ run[r].reply = NoReply
      /\ run[r].confidence = 0
  BY DEF IInv, Sound, Draft, Statement, Step, Unanswered, Gathering
<1>2. Step(r, "draft", y)
  BY DEF Draft, Statement
<1>3. /\ DOMAIN y = Fields /\ y.pc = "record" /\ y.reply = [NoReply EXCEPT !.kind = "draft"]
      /\ \A f \in {"entry", "hypotheses", "agent", "evidence", "confidence"} : y[f] = run[r][f]
  BY <1>1, AtFields DEF Fields
<1>4. /\ DOMAIN y.reply = {"kind", "confidence", "citations"}
      /\ y.reply.kind = "draft" /\ y.reply.confidence = 0
  BY <1>3 DEF NoReply
<1> HIDE DEF y
<1> QED
  BY <1>1, <1>2, <1>3, <1>4, RecordedNext DEF Attached, Success, Unanswered, Gathering

\* Hypotheses that lost all of their references are dropped.
LEMMA HypothesizeKeeps ==
    ASSUME IInv, NEW r \in Runs, NEW proposed, Hypothesize(r, proposed)
    PROVE  IInv'
<1> DEFINE x == run[r]
           kept == IF x.evidence = <<>> THEN {} ELSE Validated(proposed, Gathered(x))
           y == [At(x, "attach") EXCEPT !.hypotheses = kept]
<1>1. Sound(x) /\ x.pc = "hypothesize" /\ DOMAIN x = Fields
  BY DEF IInv, Sound, Hypothesize, Step
<1>2. Step(r, "hypothesize", y)
  BY DEF Hypothesize
<1>3. \A h \in kept : h # {} /\ h \subseteq Gathered(x)
  BY DEF Validated
<1> HIDE DEF kept
<1>4. /\ DOMAIN y = Fields /\ y.pc = "attach" /\ y.hypotheses = kept
      /\ \A f \in {"entry", "reply", "agent", "evidence"} : y[f] = x[f]
  BY <1>1, AtFields DEF Fields
<1> HIDE DEF y
<1>5. Grounded(y)
  BY <1>3, <1>4 DEF Grounded, Gathered
<1>6. Sound(y)
  BY <1>1, <1>4, <1>5 DEF Sound, Unanswered, Gathering
<1> QED
  BY <1>2, <1>4, <1>6, OpenStep

LEMMA AttachKeeps ==
    ASSUME IInv, NEW r \in Runs, AttachToTimeline(r) \/ AttachRefused(r)
    PROVE  IInv'
<1> DEFINE x == run[r]
           reply(z) == [kind |-> "investigation", confidence |-> z.confidence, citations |-> {}]
<1>1. DOMAIN x = Fields /\ x.entry = NoRow
  BY DEF IInv, Sound, AttachToTimeline, AttachRefused, Step, Unanswered
<1>2. \A z : DOMAIN z = Fields =>
        /\ DOMAIN Investigated(z) = Fields /\ Investigated(z).pc = "record"
        /\ Investigated(z).reply = reply(z)
        /\ \A f \in Fields \ {"pc", "tries", "reply"} : Investigated(z)[f] = z[f]
  BY AtFields DEF Investigated, Fields
<1> HIDE DEF reply
<1>3. CASE AttachToTimeline(r)
  <2> DEFINE entry == IF x.incident THEN Result(x) ELSE NoRow
             y == [Investigated(x) EXCEPT !.entry = entry]
  <2>1. Step(r, "attach", y)
    BY <1>3 DEF AttachToTimeline
  <2> HIDE DEF entry
  <2>2. /\ DOMAIN y = Fields /\ y.pc = "record" /\ y.entry = entry /\ y.reply = reply(x)
        /\ \A f \in {"hypotheses", "agent", "evidence", "confidence", "incident"} : y[f] = x[f]
    BY <1>1, <1>2 DEF Fields
  <2> HIDE DEF y
  <2>3. Result(y) = Result(x)
    BY <2>2 DEF Result, Gathered
  <2> QED
    BY <2>1, <2>2, <2>3, RecordedNext DEF Attached, Success, Unanswered, entry, reply
<1>4. CASE AttachRefused(r)
  <2> DEFINE fault == IF x.aborted THEN "database" ELSE "entry"
             z == [x EXCEPT !.aborted = TRUE, !.faults = @ \cup {fault}]
             y == Investigated(z)
  <2>1. /\ DOMAIN z = Fields /\ z.aborted
        /\ \A f \in {"hypotheses", "agent", "evidence", "confidence", "entry"} : z[f] = x[f]
    BY <1>1 DEF Fields
  <2>2. Step(r, "attach", y)
    BY <1>4 DEF AttachRefused
  <2> HIDE DEF z
  <2>3. /\ DOMAIN y = Fields /\ y.pc = "record" /\ y.aborted /\ y.reply = reply(z)
        /\ \A f \in {"hypotheses", "agent", "evidence", "confidence", "entry"} : y[f] = z[f]
    BY <2>1, <1>2 DEF Fields
  <2> HIDE DEF y
  <2> QED
    BY <1>1, <2>1, <2>2, <2>3, RecordedNext DEF Success, Unanswered, reply
<1> QED
  BY <1>3, <1>4
-----------------------------------------------------------------------------
\* The end of a transaction.

\* What a step that neither gathers nor attaches leaves as it is.
Kept == {"agent", "hypotheses", "evidence", "entry"}

LEMMA KeptSound ==
    ASSUME NEW x, Sound(x), NEW y, DOMAIN y = Fields, \A f \in Kept : y[f] = x[f]
    PROVE  /\ y.agent \in {"answer_question", "triage_incident", "generate_postmortem"}
           /\ Grounded(y) /\ Result(y) = Result(x)
           /\ y.entry # NoRow => y.entry = Result(y)
BY ZenonT(60) DEF Kept, Sound, Grounded, Result, Gathered

\* An exception goes to the caller.
LEMMA ErrorNext ==
    ASSUME IInv, NEW r \in Runs, NEW pc, pc \notin {"log", "done"}, NEW y, Step(r, pc, y),
           DOMAIN y = Fields, \A f \in Kept : y[f] = run[r][f],
           y.pc = "leave", y.reply.kind = "error", y.faults # {},
           DOMAIN y.reply = {"kind", "confidence", "citations"}
    PROVE  IInv'
<1>1. Sound(run[r])
  BY DEF IInv
<1>2. Sound(y)
  BY <1>1, KeptSound DEF Sound, Unanswered, Gathering
<1> QED
  BY <1>2, OpenStep

LEMMA RaisedOutFields ==
    ASSUME NEW x, DOMAIN x = Fields
    PROVE  /\ DOMAIN RaisedOut(x) = Fields
           /\ RaisedOut(x).pc = "leave" /\ RaisedOut(x).reply.kind = "error"
           /\ DOMAIN RaisedOut(x).reply = {"kind", "confidence", "citations"}
           /\ RaisedOut(x).faults = x.faults
           /\ \A f \in Kept : RaisedOut(x)[f] = x[f]
<1>1. /\ DOMAIN RaisedOut(x) = Fields
      /\ RaisedOut(x).pc = "leave" /\ RaisedOut(x).reply = [NoReply EXCEPT !.kind = "error"]
      /\ RaisedOut(x).faults = x.faults
      /\ \A f \in Kept : RaisedOut(x)[f] = x[f]
  BY AtFields DEF RaisedOut, Fields, Kept
<1> QED
  BY <1>1 DEF NoReply

LEMMA DenyKeeps ==
    ASSUME IInv, NEW r \in Runs, Deny(r)
    PROVE  IInv'
<1> DEFINE y == Denied(run[r])
<1>1. DOMAIN run[r] = Fields /\ run[r].reply = NoReply
  BY DEF IInv, Sound, Deny, Step, Unanswered, Gathering
<1>2. Step(r, "begin", y)
  BY DEF Deny
<1>3. /\ DOMAIN y = Fields /\ y.pc = "leave" /\ y.reply = [NoReply EXCEPT !.kind = "error"]
      /\ y.faults = {"domain"}
      /\ \A f \in Kept : y[f] = run[r][f]
  BY <1>1, AtFields DEF Denied, Fields, Kept
<1>4. y.reply.kind = "error" /\ DOMAIN y.reply = {"kind", "confidence", "citations"}
  BY <1>3 DEF NoReply
<1> HIDE DEF y
<1> QED
  BY <1>2, <1>3, <1>4, ErrorNext

LEMMA RaisedOutKeeps ==
    ASSUME IInv, NEW r \in Runs, DraftNotStored(r) \/ RecordRefused(r) \/ RecordFailureRefused(r)
    PROVE  IInv'
<1>1. DOMAIN run[r] = Fields
  BY DEF IInv, Sound
<1>2. PICK pc, z : /\ pc \notin {"log", "done"} /\ DOMAIN z = Fields /\ z.faults # {}
                   /\ \A f \in Kept : z[f] = run[r][f]
                   /\ Step(r, pc, RaisedOut(z))
  <2>1. CASE DraftNotStored(r)
    <3> DEFINE z == [run[r] EXCEPT !.faults = @ \cup {"domain"}]
    <3>1. DOMAIN z = Fields /\ z.faults # {} /\ \A f \in Kept : z[f] = run[r][f]
      BY <1>1 DEF Fields, Kept
    <3>2. Step(r, "leave", RaisedOut(z))
      BY <2>1 DEF DraftNotStored
    <3> HIDE DEF z
    <3> QED
      BY <3>1, <3>2
  <2>2. CASE RecordRefused(r) \/ RecordFailureRefused(r)
    <3> DEFINE z == Refused(run[r])
    <3>1. DOMAIN z = Fields /\ z.faults # {} /\ \A f \in Kept : z[f] = run[r][f]
      BY <1>1, RefusedFields DEF Fields, Kept
    <3>2. PICK pc \in {"record", "fail"} : Step(r, pc, RaisedOut(z))
      BY <2>2 DEF RecordRefused, RecordFailureRefused
    <3> HIDE DEF z
    <3> QED
      BY <3>1, <3>2
  <2> QED
    BY <2>1, <2>2
<1> DEFINE y == RaisedOut(z)
<1>3. /\ DOMAIN y = Fields /\ y.pc = "leave" /\ y.reply.kind = "error" /\ y.faults # {}
      /\ DOMAIN y.reply = {"kind", "confidence", "citations"}
      /\ \A f \in Kept : y[f] = run[r][f]
  BY <1>2, RaisedOutFields DEF Fields, Kept
<1> HIDE DEF y
<1> QED
  BY <1>2, <1>3, ErrorNext DEF y

LEMMA RecordKeeps ==
    ASSUME IInv, NEW r \in Runs, Record(r)
    PROVE  IInv'
<1> DEFINE x == run[r]
           row == [status |-> "succeeded", confidence |-> x.confidence]
           y == [At(x, "leave") EXCEPT !.row = row]
<1>1. Sound(x) /\ x.pc = "record" /\ ~x.aborted /\ DOMAIN x = Fields
  BY DEF IInv, Sound, Record, Statement, Step
<1>2. Step(r, "record", y)
  BY DEF Record, Statement
<1> HIDE DEF row
<1>3. /\ DOMAIN y = Fields /\ y.pc = "leave" /\ y.row = row /\ y.reply = x.reply
      /\ y.incident = x.incident
      /\ \A f \in Kept : y[f] = x[f]
  BY <1>1, AtFields DEF Fields, Kept
<1> HIDE DEF y
<1>4. x.reply.kind \in Success /\ x.reply.confidence = x.confidence /\ Attached(x)
  BY <1>1 DEF Sound
<1>5. y.row = RowOf(y)
  BY <1>3, <1>4 DEF RowOf, row
<1>6. Attached(y)
  BY <1>1, <1>3, <1>4, KeptSound DEF Attached, Kept
<1>7. Sound(y)
  BY <1>1, <1>3, <1>4, <1>5, <1>6, KeptSound DEF Sound, Unanswered, Gathering
<1> QED
  BY <1>2, <1>3, <1>7, OpenStep

LEMMA RecordFailureKeeps ==
    ASSUME IInv, NEW r \in Runs, RecordFailure(r)
    PROVE  IInv'
<1> DEFINE x == run[r]
           row == [status |-> "failed", confidence |-> 0]
           z == [x EXCEPT !.row = row]
           y == [At(z, "leave") EXCEPT !.reply = [NoReply EXCEPT !.kind = "apology"]]
<1>1. Sound(x) /\ x.pc = "fail" /\ DOMAIN x = Fields /\ x.entry = NoRow
  BY DEF IInv, Sound, RecordFailure, Statement, Step, Unanswered
<1>0. x.faults # {}
  BY <1>1 DEF Sound
<1>2. DOMAIN z = Fields /\ z.row = row /\ z.faults = x.faults /\ \A f \in Kept : z[f] = x[f]
  BY <1>1 DEF Fields, Kept
<1>3. Step(r, "fail", RaisedOut(z)) \/ Step(r, "fail", y)
  BY DEF RecordFailure, Statement
<1> HIDE DEF z
<1>4. CASE Step(r, "fail", RaisedOut(z))
  <2> DEFINE w == RaisedOut(z)
  <2>1. /\ DOMAIN w = Fields /\ w.pc = "leave" /\ w.reply.kind = "error" /\ w.faults # {}
        /\ DOMAIN w.reply = {"kind", "confidence", "citations"}
        /\ \A f \in Kept : w[f] = x[f]
    BY <1>0, <1>2, RaisedOutFields
  <2>2. Step(r, "fail", w)
    BY <1>4
  <2> HIDE DEF w
  <2> QED
    BY <2>1, <2>2, ErrorNext
<1>5. CASE Step(r, "fail", y)
  <2>1. /\ DOMAIN y = Fields /\ y.pc = "leave" /\ y.reply = [NoReply EXCEPT !.kind = "apology"]
        /\ y.row = row /\ y.faults = x.faults /\ \A f \in Kept : y[f] = x[f]
    BY <1>2, AtFields DEF Fields, Kept
  <2>0. Step(r, "fail", y)
    BY <1>5
  <2> HIDE DEF y
  <2>2. /\ DOMAIN y.reply = {"kind", "confidence", "citations"}
        /\ y.reply.kind = "apology" /\ y.reply.confidence = 0
    BY <2>1 DEF NoReply
  <2>3. y.row = RowOf(y)
    BY <2>1, <2>2 DEF RowOf, Success
  <2>4. Sound(y)
    BY <1>0, <1>1, <2>1, <2>2, <2>3, KeptSound DEF Sound, Unanswered, Gathering, Kept
  <2> QED
    BY <2>0, <2>1, <2>4, OpenStep
<1> QED
  BY <1>3, <1>4, <1>5
\* A step that ends the transaction of r without a commit.
LEMMA UncommittedNext ==
    ASSUME IInv, NEW r \in Runs, NEW pc, pc \notin {"log", "done"}, NEW y, Step(r, pc, y),
           DOMAIN y = Fields, \A f \in Kept : y[f] = run[r][f], y.pc \in {"log", "done"},
           DOMAIN y.reply = {"kind", "confidence", "citations"},
           y.reply.kind \in Success \cup {"apology"} => ~y.mcp, y.faults # {}
    PROVE  IInv'
<1>1. /\ Sound(run[r]) /\ Stored(run[r], executions[r], timeline[r], requests[r])
      /\ run[r].pc = pc
  BY DEF IInv, Step
<1>2. Sound(y)
  BY <1>1, KeptSound DEF Sound, Unanswered, Gathering
<1>3. executions[r] = NoRow /\ timeline[r] = NoRow /\ requests[r] = "none"
  BY <1>1 DEF Stored
<1>4. Stored(y, executions[r], timeline[r], requests[r])
  BY <1>3 DEF Stored
<1> QED
  BY <1>2, <1>4, StepKeeps

\* What is still open when the process dies or the call is cancelled, and what
\* a rollback or a failed commit leaves.
LEMMA UncommittedKeeps ==
    ASSUME IInv, NEW r \in Runs, Rollback(r) \/ CommitFails(r) \/ Die(r) \/ CancelCall(r)
    PROVE  IInv'
<1> DEFINE x == run[r]
<1>1. Sound(x) /\ DOMAIN x = Fields /\ DOMAIN x.reply = {"kind", "confidence", "citations"}
  BY DEF IInv, Sound
<1>2. Ended(x) \in {"log", "done"}
  BY DEF Ended
<1>3. CASE Rollback(r)
  <2> DEFINE y == At(x, Ended(x))
  <2>1. Step(r, "leave", y) /\ x.reply.kind = "error" /\ x.faults # {}
    BY <1>1, <1>3 DEF Rollback, Step, Sound, Success
  <2>2. /\ DOMAIN y = Fields /\ y.pc = Ended(x) /\ y.reply = x.reply /\ y.faults = x.faults
        /\ \A f \in Kept : y[f] = x[f]
    BY <1>1, AtFields DEF Fields, Kept
  <2> HIDE DEF y
  <2>3. /\ y.pc \in {"log", "done"} /\ y.faults # {}
        /\ y.reply.kind \notin Success \cup {"apology"}
        /\ DOMAIN y.reply = {"kind", "confidence", "citations"}
    BY <1>1, <1>2, <2>1, <2>2 DEF Success
  <2> QED
    BY <2>1, <2>2, <2>3, UncommittedNext
<1>4. CASE CommitFails(r)
  <2> DEFINE y == Unsaved(x)
  <2>1. Step(r, "leave", y)
    BY <1>4 DEF CommitFails
  <2>2. /\ DOMAIN y = Fields /\ y.pc = Ended(x) /\ y.mcp = x.mcp /\ y.faults # {}
        /\ y.reply = [x.reply EXCEPT !.kind = IF x.mcp THEN "error" ELSE @]
        /\ \A f \in Kept : y[f] = x[f]
    BY <1>1, AtFields DEF Unsaved, Fields, Kept
  <2> HIDE DEF y
  <2>3. /\ DOMAIN y.reply = {"kind", "confidence", "citations"}
        /\ y.mcp => y.reply.kind = "error"
        /\ y.pc \in {"log", "done"}
    BY <1>1, <1>2, <2>2
  <2>4. y.reply.kind \in Success \cup {"apology"} => ~y.mcp
    BY <2>3 DEF Success
  <2>5. DOMAIN y = Fields /\ y.faults # {} /\ \A f \in Kept : y[f] = x[f]
    BY <2>2
  <2>6. "leave" \notin {"log", "done"}
    OBVIOUS
  <2> QED
    BY <2>1, <2>3, <2>4, <2>5, <2>6, UncommittedNext
<1>5. CASE Die(r)
  <2> DEFINE y == [At(x, "done") EXCEPT !.faults = @ \cup {"death"}, !.reply = NoReply]
  <2>1. Step(r, x.pc, y) /\ x.pc \notin {"log", "done"}
    BY <1>5 DEF Die, Open
  <2>2. /\ DOMAIN y = Fields /\ y.pc = "done" /\ y.reply = NoReply /\ y.faults # {}
        /\ \A f \in Kept : y[f] = x[f]
    BY <1>1, AtFields DEF Fields, Kept
  <2> HIDE DEF y
  <2>3. DOMAIN y.reply = {"kind", "confidence", "citations"} /\ y.reply.kind = "none"
    BY <2>2 DEF NoReply
  <2> QED
    BY ZenonT(60), <2>1, <2>2, <2>3, UncommittedNext DEF Success
<1>6. CASE CancelCall(r)
  <2> DEFINE y == [At(x, "log") EXCEPT !.faults = @ \cup {"death"},
                                       !.reply = [NoReply EXCEPT !.kind = "cancelled"]]
  <2>1. Step(r, x.pc, y) /\ x.pc \notin {"log", "done"}
    BY <1>6 DEF CancelCall, Open
  <2>2. /\ DOMAIN y = Fields /\ y.pc = "log" /\ y.reply = [NoReply EXCEPT !.kind = "cancelled"] /\ y.faults # {}
        /\ \A f \in Kept : y[f] = x[f]
    BY <1>1, AtFields DEF Fields, Kept
  <2> HIDE DEF y
  <2>3. DOMAIN y.reply = {"kind", "confidence", "citations"} /\ y.reply.kind = "cancelled"
    BY <2>2 DEF NoReply
  <2> QED
    BY SMTT(30), <2>1, <2>2, <2>3, UncommittedNext DEF Success
<1> QED
  BY <1>3, <1>4, <1>5, <1>6

LEMMA CommitKeeps ==
    ASSUME AgentAssumption, IInv, NEW r \in Runs, Commit(r)
    PROVE  IInv'
<1> DEFINE x == run[r]
           y == At(x, Ended(x))
<1>1. /\ Sound(x) /\ Stored(x, executions[r], timeline[r], requests[r])
      /\ x.pc = "leave" /\ x.reply.kind # "error" /\ DOMAIN x = Fields
  BY DEF IInv, Sound, Commit
<1>2. Ended(x) \in {"log", "done"}
  BY DEF Ended
<1>3. /\ DOMAIN y = Fields /\ y.pc = Ended(x)
      /\ \A f \in Fields \ {"pc", "tries"} : y[f] = x[f]
  BY <1>1, AtFields
<1>4. \A q \in Runs : /\ run'[q] = IF q = r THEN y ELSE run[q]
                      /\ executions'[q] = IF q = r THEN x.row ELSE executions[q]
                      /\ timeline'[q] = IF q = r THEN x.entry ELSE timeline[q]
                      /\ requests'[q] = requests[q]
  BY DEF Commit, IInv
<1>5. DOMAIN run' = Runs /\ DOMAIN executions' = Runs /\ DOMAIN timeline' = Runs /\ DOMAIN requests' = Runs
  BY DEF Commit, IInv
<1> HIDE DEF y
<1>6. /\ y.reply = x.reply /\ y.incident = x.incident /\ y.entry = x.entry /\ y.faults = x.faults
      /\ \A f \in Kept : y[f] = x[f]
  BY <1>3 DEF Fields, Kept
<1>7. Sound(y)
  BY <1>1, <1>2, <1>3, <1>6, KeptSound DEF Sound, Unanswered, Gathering
<1>8. /\ x.row = RowOf(x) /\ (x.entry # NoRow => x.reply.kind \in Success)
      /\ Attached(x)
  BY <1>1 DEF Sound, Attached, Success
<1>9. Result(y) = Result(x) /\ Grounded(y) /\ (y.entry # NoRow => y.entry = Result(y))
  BY <1>1, <1>3, <1>6, KeptSound
<1>10. RowOf(y) = RowOf(x) /\ Attached(y)
  BY <1>6, <1>8, <1>9 DEF RowOf, Attached
<1>11. x.row # NoRow /\ (x.reply.kind \in Success => x.row.status = "succeeded")
  BY <1>8 DEF RowOf, AgentAssumption
<1>12. Stored(y, x.row, x.entry, requests[r])
  <2>1. y.reply.kind # "error" /\ y.pc \in {"log", "done"} /\ requests[r] = "none"
    BY <1>1, <1>2, <1>3, <1>6 DEF Stored
  <2> QED
    BY <2>1, <1>6, <1>8, <1>9, <1>10, <1>11 DEF Stored
<1> QED
  BY <1>4, <1>5, <1>7, <1>12 DEF IInv

\* The record of an MCP call, or its failure, which is swallowed.
LEMMA LogKeeps ==
    ASSUME IInv, NEW r \in Runs, LogRequest(r) \/ LogFails(r)
    PROVE  IInv'
<1> DEFINE x == run[r]
           y == At(x, "done")
<1>1. /\ Sound(x) /\ Stored(x, executions[r], timeline[r], requests[r])
      /\ x.pc = "log" /\ DOMAIN x = Fields
  BY DEF IInv, Sound, LogRequest, LogFails, Step
<1>2. /\ DOMAIN y = Fields /\ y.pc = "done"
      /\ \A f \in Fields \ {"pc", "tries"} : y[f] = x[f]
  BY <1>1, AtFields
<1>3. /\ DOMAIN run' = Runs /\ DOMAIN requests' = Runs
      /\ executions' = executions /\ timeline' = timeline
      /\ \A q \in Runs : run'[q] = IF q = r THEN y ELSE run[q]
      /\ \A q \in Runs \ {r} : requests'[q] = requests[q]
      /\ requests'[r] = "ok" => x.reply.kind # "error"
  <2>1. requests[r] = "none"
    BY <1>1 DEF Stored
  <2> QED
    BY <2>1 DEF LogRequest, LogFails, Step, IInv
<1> HIDE DEF y
<1>4. /\ y.reply = x.reply /\ y.incident = x.incident /\ y.mcp = x.mcp /\ y.entry = x.entry
      /\ y.faults = x.faults
      /\ \A f \in Kept : y[f] = x[f]
  BY <1>2 DEF Fields, Kept
<1>5. Grounded(y) /\ Result(y) = Result(x) /\ Sound(y)
  BY <1>1, <1>2, <1>4, KeptSound DEF Sound, Unanswered, Gathering
<1>6. RowOf(y) = RowOf(x) /\ (Attached(x) => Attached(y))
  BY <1>4, <1>5 DEF RowOf, Attached
<1>7. Stored(y, executions[r], timeline[r], requests'[r])
  BY <1>1, <1>2, <1>3, <1>4, <1>5, <1>6 DEF Stored
<1> QED
  BY <1>3, <1>5, <1>7 DEF IInv

-----------------------------------------------------------------------------
LEMMA NextOK == AgentAssumption /\ IInv /\ [AgentsNext]_agentVars => IInv'
<1> SUFFICES ASSUME AgentAssumption, IInv, [AgentsNext]_agentVars PROVE IInv'
  OBVIOUS
<1>1. CASE UNCHANGED agentVars
  BY <1>1 DEF agentVars, IInv
<1>2. ASSUME NEW r \in Runs,
             NEW agent \in {"answer_question", "triage_incident", "generate_postmortem"},
             NEW incident \in BOOLEAN, NEW mcp \in BOOLEAN, Arrive(r, agent, incident, mcp)
      PROVE  IInv'
  BY <1>2, ArriveKeeps
<1>3. ASSUME NEW r \in Runs, Work(r)
      PROVE  IInv'
  <2>1. CASE Begin(r) \/ Deny(r)
    BY <2>1, BeginKeeps, DenyKeeps
  <2>2. CASE AttemptFails(r) \/ AttemptRefused(r)
    BY <2>2, AttemptKeeps
  <2>3. CASE IncidentUnknown(r) \/ IncidentRefused(r) \/ RerankFails(r) \/ DraftFails(r) \/ DraftRefused(r)
    BY <2>3, RaisingKeeps
  <2>4. CASE \/ RewriteQuery(r) \/ \E found : Search(r, found)
             \/ \E n : GatherSource(r, n) \/ GatherLive(r, n)
             \/ \E stale : AugmentLive(r, stale)
             \/ ListConnectors(r) \/ ConnectorsDenied(r) \/ ConnectorsRefused(r) \/ EndLive(r)
    BY <2>4, GatheringKeeps
  <2>5. ASSUME NEW similarity, NEW rerank, EvaluateConfidence(r, similarity, rerank) PROVE IInv'
    BY <2>5, EvaluateKeeps
  <2>6. ASSUME NEW sentences, Answer(r, sentences) PROVE IInv'
    BY <2>6, AnswerKeeps
  <2>7. ASSUME NEW proposed, Hypothesize(r, proposed) PROVE IInv'
    BY <2>7, HypothesizeKeeps
  <2>8. CASE AttachToTimeline(r) \/ AttachRefused(r)
    BY <2>8, AttachKeeps
  <2>9. CASE Draft(r) \/ Record(r) \/ RecordFailure(r)
    BY <2>9, DraftKeeps, RecordKeeps, RecordFailureKeeps
  <2>10. CASE DraftNotStored(r) \/ RecordRefused(r) \/ RecordFailureRefused(r)
    BY <2>10, RaisedOutKeeps
  <2>11. CASE Rollback(r) \/ CommitFails(r)
    BY <2>11, UncommittedKeeps
  <2>12. CASE Commit(r)
    BY <2>12, CommitKeeps
  <2>13. CASE LogRequest(r) \/ LogFails(r)
    BY <2>13, LogKeeps
  <2> QED
    BY <1>3, <2>1, <2>2, <2>3, <2>4, <2>5, <2>6, <2>7, <2>8, <2>9, <2>10, <2>11, <2>12, <2>13 DEF Work
<1>4. ASSUME NEW r \in Runs, Die(r) \/ CancelCall(r)
      PROVE  IInv'
  BY <1>4, UncommittedKeeps
<1> QED
  BY <1>1, <1>2, <1>3, <1>4 DEF AgentsNext

LEMMA Invariance == ASSUME AgentAssumption PROVE AgentsSpec => []IInv
<1>1. IInv /\ [AgentsNext]_agentVars => IInv'
  BY NextOK
<1>2. AgentsInit => IInv
  BY InitOK
<1> QED
  BY <1>1, <1>2, PTL DEF AgentsSpec

\* What a caller was told is what the tables say of its run: a result has its
\* execution, an apology a failed one, and an MCP call that raised is not recorded
\* as ok; only over REST may a response go without (_run_graph_and_record,
\* run_mcp_tool).
THEOREM RepliesAreTrue == AgentAssumption => (AgentsSpec => []RepliesAreRecorded)
<1> SUFFICES ASSUME AgentAssumption PROVE AgentsSpec => []RepliesAreRecorded
  OBVIOUS
<1>1. IInv => RepliesAreRecorded
  BY DEF IInv, Stored, RepliesAreRecorded, RowOf
<1> QED
  BY <1>1, Invariance, PTL

\* A committed investigation of an incident has the timeline entry it replied,
\* and no entry is committed without its execution (_attach_to_timeline).
THEOREM InvestigationsAttach == AgentAssumption => (AgentsSpec => []InvestigationIsAttached)
<1> SUFFICES ASSUME AgentAssumption PROVE AgentsSpec => []InvestigationIsAttached
  OBVIOUS
<1>1. IInv => InvestigationIsAttached
  <2> SUFFICES ASSUME IInv, NEW r \in Runs
               PROVE  /\ executions[r] # NoRow /\ run[r].reply.kind = "investigation" /\ run[r].incident =>
                             timeline[r] = Result(run[r])
                      /\ timeline[r] # NoRow => executions[r] # NoRow /\ executions[r].status = "succeeded"
    BY DEF InvestigationIsAttached
  <2> QED
    BY DEF IInv, Stored, Attached
<1> QED
  BY <1>1, Invariance, PTL

\* The evidence of a run is cut at the cap.
LEMMA GatheredBound ==
    ASSUME AgentAssumption, NEW x
    PROVE  IsFiniteSet(Gathered(x)) /\ Cardinality(Gathered(x)) <= EvidenceCap
<1> DEFINE I == 1..EvidenceCap \cap DOMAIN x.evidence
<1>1. IsFiniteSet(1..EvidenceCap) /\ Cardinality(1..EvidenceCap) = EvidenceCap
  BY FS_Interval DEF AgentAssumption
<1>2. IsFiniteSet(I) /\ Cardinality(I) <= EvidenceCap
  BY <1>1, FS_Subset
<1>3. IsFiniteSet(Gathered(x)) /\ Cardinality(Gathered(x)) <= Cardinality(I)
  <2> DEFINE f == [k \in I |-> x.evidence[k]]
  <2>1. f \in Surjection(I, Gathered(x))
    BY DEF Surjection, Gathered
  <2> QED
    BY <2>1, <1>2, FS_Surjection
<1>4. Cardinality(I) \in Nat /\ Cardinality(Gathered(x)) \in Nat
  BY <1>2, <1>3, FS_CardinalityType
<1> QED
  BY <1>2, <1>3, <1>4 DEF AgentAssumption

\* The answer agent is never reached without chunks, and a committed hypothesis
\* cites evidence committed with it, within the cap (_validate_hypotheses).
THEOREM ResultsAreGrounded == AgentAssumption => (AgentsSpec => []ResultsRestOnEvidence)
<1> SUFFICES ASSUME AgentAssumption PROVE AgentsSpec => []ResultsRestOnEvidence
  OBVIOUS
<1>1. IInv => ResultsRestOnEvidence
  <2> SUFFICES ASSUME IInv, NEW r \in Runs
               PROVE  /\ run[r].pc = "answer" => run[r].chunks # <<>>
                      /\ timeline[r] # NoRow =>
                             /\ Cardinality(timeline[r].evidence) <= EvidenceCap
                             /\ \A h \in timeline[r].hypotheses : h # {} /\ h \subseteq timeline[r].evidence
    BY DEF ResultsRestOnEvidence
  <2>1. timeline[r] # NoRow => timeline[r] = Result(run[r]) /\ Grounded(run[r])
    BY DEF IInv, Stored
  <2>2. Cardinality(Gathered(run[r])) <= EvidenceCap
    BY GatheredBound
  <2>3. run[r].pc = "answer" => run[r].chunks # <<>>
    BY DEF IInv, Sound
  <2> QED
    BY <2>1, <2>2, <2>3 DEF Result, Grounded
<1> QED
  BY <1>1, Invariance, PTL

\* However many calls fail, a run that ends without a result met a fault that no
\* node degrades around (call_with_retry and the nodes' fallbacks).
THEOREM RunsDegrade == AgentAssumption => (AgentsSpec => []DegradesGracefully)
<1> SUFFICES ASSUME AgentAssumption PROVE AgentsSpec => []DegradesGracefully
  OBVIOUS
<1>1. IInv => DegradesGracefully
  BY DEF IInv, Sound, DegradesGracefully
<1> QED
  BY <1>1, Invariance, PTL
=============================================================================
