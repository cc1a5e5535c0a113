# Verification of EKIP

EKIP is a multi-tenant platform that ingests an organization's documents from external tools, answers
questions about them, follows incidents, and has agents draft postmortems and runbooks that humans review.
This directory holds TLA+ models of its backend (`src/app`), their TLC configurations and TLAPS proofs.

Every definition is written from the code; `PROJECT.json` maps each to the lines it stands for, and lists
the runs, the mutants that show each property can fail, the findings, the hazards and the theorems.

- [Inventory](#inventory): what the system consists of
- [How transactions are modelled](#how-transactions-are-modelled): the one idea all modules share
- [Modules](#modules): state, actions and properties of each, and the code they stand for
- [Runs](#runs), [Findings](#findings), [Proofs](#proofs)
- [Limits](#limits) and [Plan](#plan)

To check: `tlc -config X.cfg MCModule` for a run (the pairs are in `PROJECT.json`), `tlapm XProofs.tla` for
a proof module.

## Inventory

The backend is an asyncio FastAPI process, an arq worker process and MCP servers, over one PostgreSQL
database and a Redis queue. Handlers keep no state across requests, with two exceptions: the OAuth bridge's
codes and the connectors' rate limiters live in memory. So nearly all interaction is through tables.

| Component | State | Operations | Hard behaviour | What makes it correct | Status |
|---|---|---|---|---|---|
| Sessions (`core/auth`) | `refresh_tokens`: hash, family, parent, revoked, expiry | login, refresh (rotation with reuse detection), logout, logout-everywhere | rotations of one token overlap; the revocation and the error that denies the request share a transaction | an exchanged token is dead, a login has one live token, a logout is final | `AuthSessions` (no identity provider, no hashing) |
| Transactions (`database/session`) | the open session | commit on return, rollback on exception, `set_tenant_context` | what a failure undoes; the context ends with the transaction | no partial effect | in each module; aborted transactions and failing commits in `AgentRuns`; tenant context in `Organizations` |
| OAuth bridge (`mcp/oauth`, `core/mcp_oauth`) | pending flows, codes and minted sessions in memory; `oauth_clients` | register, authorize, confirm, exchange code, exchange refresh token, revoke | check and exchange in two calls; pop before an await; restart | one code per flow, used once, by its client; nothing lost without a cause | `OAuthBridge`; refresh tokens in `AuthSessions` |
| Tenancy (`core/tenancy`) | organizations, projects, connectors, SSO configurations, invitations, access rules | signup, create organization and project, register connector, configure SSO; invite, revoke, accept, evaluate provisioning, rules | racing closings of one invitation; overlapping signups; row-level security hides rows; a mark made before a refusal | one pending invitation per email; roles trace to policy; who signs up administers what they signed up for | `Provisioning` (invitations, rules), `Organizations` (the rest) |
| Users (`core/users`) | users, identity mappings, role assignments | create at first login, link, assign role, permission lookups with project overrides | two first logins of one person; two bootstraps of the admin role | no role without a grant | login in `Provisioning`, signup and permissions in `Organizations` |
| Incidents and postmortems (`core/incidents`) | incidents, postmortems, timeline | create, update, trigger generation, create/update/approve postmortem | a language-model call between checks and insert; merged updates | human review before approval; one postmortem each; `resolved_at` in step | `IncidentLifecycle` |
| Knowledge documents (`core/knowledge`) | documents, metadata, documentation chunks | propose, update, publish, reject | publish reads, awaits an embedding, writes; publish races reject | only reviewed text is searchable, and it is the current text | `KnowledgeDocuments` |
| Ingestion (`app/ingestion`) | jobs, documents, connector status, `last_synced_at`, resume token | enqueue, cron, job loop, retry | overlapping jobs, worker death, timeout, savepoint rollback, edits at the source during a walk | nothing is lost but for a named cause; versions follow the source; tasks end | `IngestionSync` |
| SharePoint connector | site cursor, delta links | fetch a page, resume | links outlive rolled-back documents; a refused download is skipped, and the sync succeeds | what a sync leaves behind is what its code is known to skip | in `IngestionSync` |
| GitHub, Jira, Confluence, Slack, Teams, Azure DevOps connectors | their cursors; Teams' delta links | fetch a page, normalize | nested lists, offsets into lists that move, recency filters, skipped downloads | every item in its last version, but for what has a named cause; the walk ends | `ConnectorWalks` |
| Runbooks connector | none (reads approved postmortems) | fetch | filters by creation time; its session sets no tenant context | approved postmortems arrive, but for what the filter and the policies hide | `ConnectorWalks` |
| Rate limiter | a token bucket per connector and organization, in memory | acquire | concurrent waiters, cancelled waiters, a rate below one | never more than the burst and what accrued | `RateLimiter` |
| Chunking and cleaning | none | chunk a document | offsets of paragraphs, sections and slices | a chunk is the text at its offsets | `Retrieval` (cleaning is regular expressions) |
| Agent graph and executions (`app/agents`) | `agent_executions`, timeline entries | answer, triage, draft a postmortem; retry a call | a failed statement aborts the transaction of the record, too; calls degrade | a result the caller was told is what was recorded; every run ends | `AgentRuns` |
| Confidence scoring | none | score | missing signals, an empty search | no answer without a chunk | `AgentRuns` (`ConfidenceOf`) |
| Investigation and postmortem agents | – | gather evidence, hypothesize, draft | sources fail one by one; references that stand for nothing | results cite evidence that is there | `AgentRuns` (prompts and parsing left out) |
| Knowledge-gap detection | gap reports | daily batch: cluster, merge or open | overlapping batches after an outage, drifting clusters | reports grow, repeated runs open no duplicates | `KnowledgeGaps` |
| Retrieval | chunk tables, embeddings | upsert, search, fuse ranks | six rankings, filters per collection | only what the caller may read, cited where it stands | `Retrieval` (rankings are any order) |
| Row-level security (`migrations/c7d4…`, `d2e5…`) | policies over `app.current_organization_id` | set context, bypass functions | a query before the context, or after a commit | a transaction sees one organization | its effect on logins, signups, organizations and runbooks: `Provisioning`, `Organizations`, `ConnectorWalks` |
| MCP servers and dispatch | `mcp_requests` | run a tool | the record is written after, and apart from, the transaction | the log says ok only of calls that returned | agent tools in `AgentRuns`; the read tools are queries |
| Audit, observability | append-only rows, counters | – | – | – | `mcp_requests` in `AgentRuns`; the rest has no behaviour of its own |
| HTTP shell, key management, settings, initial schema, frontend | – | – | – | – | not modelled: wiring, cryptography, configuration, a client |

How they interact:

- The HTTP API and the MCP tools call the services in one session per request. `get_db_session` commits when
  the handler returns and rolls back on any exception.
- Login (`core/auth`) asks tenancy to *evaluate provisioning* and users to create and link the person, in its
  own transaction; that is why `Provisioning` models all three.
- The API and the hourly cron enqueue ingestion tasks in Redis with no job id, so nothing prevents two
  jobs of one connector at once.
- Ingestion writes documents and reports back to the connector row of tenancy. The retrieval index is
  written in the same transaction as the document.
- Incidents call the postmortem agent inside the request's transaction. Approved postmortems come back as
  documents through the runbooks connector.
- Every job takes a token of its connector and one of its organization before each page; the limiter is an object
  of the worker process.
- The agents' answers rest on what retrieval finds, an investigation also on the timeline, postmortems and live
  connectors; the detection of knowledge gaps reads the executions that ended with a low confidence.
- The MCP dispatch runs each tool in a session of its own and logs the call in another one afterwards.

## How transactions are modelled

No handler takes a row lock and no row has a version check. A handler under READ COMMITTED loads rows,
decides on what it loaded, and writes. The modules therefore split each handler at the point that matters:

1. one action makes the checks and remembers what was loaded (`UpdateIncident`, `PublishDocument`, `Refresh`, ...);
2. `Commit...` applies its writes to the tables as they are *then*: only the columns that were assigned, or
   that differ from the loaded row, as SQLAlchemy's unit of work emits them. Constraints that the database
   checks at the write (unique keys, partial unique indexes) are guards here;
3. `Rollback` drops them: an error of the handler, a lost constraint, a crash of the process. It is always
   possible, so every module covers a crash between any two steps.

Since handlers do not exclude each other, some promises hold only of what no two transactions wrote
at the same time. Each such module has a history variable **`raced`** (`mixed` in `KnowledgeDocuments`) that collects exactly those
rows or logins, and the property quantifies over the rest. It is not a guard: racing steps do happen in every run,
and the properties without the exception are claimed for all rows. What goes wrong for
raced rows was found by TLC when it checked the properties without the exception:

- two updates of one incident can leave `resolved_at` out of step with the status, and two generations can
  insert two drafts for one incident;
- an edit and a publication of one runbook leave the older text in the index; two edits count one version; a
  publication and a rejection leave the document published *and* deleted;
- a refresh that overlaps logout-everywhere leaves its new token live;
- an invitation revoked while its invitee logs in ends revoked, with the role granted.

## Modules

Each component has a module; `MCx` instantiates it for TLC (`MCReviews` two and `MCServices` seven that share no state); `xProofs` holds its theorems. Definitions whose comment
says "Mutant of" are wrong on purpose: they are the plausible bugs that the properties are tried against, and are
used by nothing else.

**AuthSessions** – `core/auth` (`login`, `refresh`, `logout`, `logout_all`, the reuse branch) and the refresh
grant of the OAuth bridge, which checks a token in one transaction and exchanges it in the next. State: the
committed `refresh_tokens` rows, the open handlers with their buffered writes, history. Tokens expire at any
moment after they are issued. Properties: `RotationLineage` (an exchanged token is revoked, and its successor is of the same
family, user and organization), `AtMostOneLivePerFamily`, `LoggedOutStaysOut`.
**SessionFamily** is the abstract specification (a login is opened once, may be closed, and a closed one is never live again; a rotation is a stutter);
`RefinesSessionFamily` shows that the handlers implement it, *including* the racing ones.

**IngestionSync** – `ingestion/service.py` (`_execute_ingestion_job`, `_process_one_item`), the worker task and
its retries, the cron, `update_connector_sync_status`, and `sharepoint.py` as the connector. State: a clock, the history of each
file at the source, committed documents, the connector row, the tasks. A site is a set of files. A task goes through fetch, process, insert,
closing; rows are inside a savepoint, the job's reports outside. Microsoft Graph is external: a delta answer is
the set of files changed since a link was issued. Whether the connector stores resume tokens (`config.resumable`) is chosen at the
start. A download that Graph refuses is swallowed (`sharepoint.py:272-276`), its file skipped (224-226), and the sync goes on to
succeed: `refused` in `Fetched`. Three things put a file out of sight of later syncs until it is edited: an edit after its page was
fetched, a refused download (both collected in `missed` of the task), and a link that a failed job stored; `Passed` says which files the end
of a job does this to, and the history `excused` holds them until they are ingested or edited. Properties: `SyncIsComplete` (a sync that
succeeds leaves nothing else behind, of all syncs, whatever came before), `DocumentsComeWithSuccess`, `VersionsFollowTheSource`,
`TasksEnd`. `Racing`, `Reverting` and `Faults` say what the source and the workers may do in an instance.

**IncidentLifecycle** – `core/incidents`: create and update incidents, trigger generation (checks, then the
model's answer, then the insert), update and approve postmortems. Properties: `NothingApprovedUnreviewed` and
`DraftedOnceResolved` whatever overlaps; `ResolvedAtReflectsStatus` for unraced incidents; `UnracedIsReviewed`: each
unraced incident's postmortem follows the abstract **PostmortemReview**, step by step. No operation assigns
the status "published" that the code tests for.

**KnowledgeDocuments** – `core/knowledge`: propose, update, publish with its embedding, reject. `SearchedWasPublished`
whatever overlaps; `IndexMatchesDocument`, `VersionCountsEdits` and, against the abstract **KnowledgeReview**,
`LifeIsFollowed` for the documents not in `mixed`.

**Provisioning** – invitations, access rules and `evaluate_provisioning` (`core/tenancy`), the login that calls it
(`core/auth` `_resolve_or_provision_user`), the creation, linking and role grant (`core/users`), and the REST accept route.
`rowSecurity` is chosen at the start: under row-level security the accept route, which sets no tenant context, finds
nothing. Properties: `OnePendingPerEmail` (only the partial unique index keeps it), `RolesWereGranted` (every
role traces to an accepted or raced invitation or a rule), `AcceptedIsProvisioned`, `ClosedStaysClosed`.

**Organizations** – signup and password login (`core/auth`), `create_organization`, `create_project`, `register_connector`,
`configure_sso` (`core/tenancy`), `resolve_identity`, permissions and the admin role (`core/users`). A request reads, then commits against
the unique keys, or is rolled back; a signup has a step between its reads and its commit at which the identities are created. `enforced`
is chosen at the start: whether the policies bind the database user. `HasPermission` is `Identity.has_permission`, in which the
permissions of a project override those of the organization. `signups` is the history of signups and of the slugs each saw. Property:
`SignupsTakeEffect`.

**OAuthBridge** – `mcp/oauth/provider.py` and the client table. State: the three dictionaries of the process (pending flows, codes, minted
sessions), the handlers that are between two awaits (`post`, `exchange`), and history. What is past its time (`stale`) may go at the
next sweep; `Restart` empties the dictionaries and ends the handlers. Properties: `OneCodePerFlow`, `CodeIsRedeemedOnce`,
`NothingIsLost`.

**RateLimiter** – `TokenBucketRateLimiter.acquire` and the job loop around it. Time and tokens are counted in fractions, so that no
rounding is hidden; a try is one step, as the lock is held over a passage without `await`. Jobs that share a
connector share its bucket, and all share the organization's. Property: `WithinRate`.

**ConnectorWalks** – the `fetch_batch` of GitHub, Jira, Confluence, Slack, Teams, Azure DevOps and the runbooks: the walk over
repositories or projects, phases and pages, the cursor after each page (`Advanced`), the external ids, while people edit the source
(`Change`) and sync follows sync. Each list has the order, filter and pagination of its service (external); a kind is chosen at the
start. The documents of a failed walk are rolled back, its delta links are kept. A commit has the date at which it was made, by which
GitHub filters, and may be pushed later. A Confluence attachment is a download of its own (`Attachments`): when it fails it is skipped
and the sync succeeds (`confluence.py:274-278`, 228-230), which the history `skipped` collects. With `rowSecurity`, chosen at the
start, the runbooks connector sees no postmortem, since its session sets no tenant context (`runbooks.py:136`). Properties:
`EveryWalkEnds`, and `SyncsMissOnlyWhatMoved`: every sync that succeeds has brought the last version of everything that was there when it
began, except, each by name: what changed during a walk (`walk.touched`), what changed in a way its filters cannot see (`Invisible`, in `excused`:
a commit pushed after a sync that is later than its date, a postmortem approved late, an edited Slack message, a link that a failed sync kept), a
refused download (`skipped`), what moved up in a list paged by offset (`MovedUp`), and hidden postmortems.

**AgentRuns** – `agents/service.py`, `graph.py`, the retrieval, answer and investigation nodes, `retry.py`, `confidence.py`, the
postmortem pipeline and `run_mcp_tool`. State: each run with its uncommitted rows and whether its transaction is aborted; the
committed executions, timeline entries and call log. A node's call is tried `MaxRetries + 1` times and then degrades; a statement that the
database refuses makes every later one fail. Properties: `RepliesAreRecorded` (results and apologies have the execution they were told with, and
the call log does not say ok of a call that raised), `InvestigationIsAttached` (entry and execution are committed together or not at
all), `ResultsRestOnEvidence`, `DegradesGracefully`, `EveryRunEnds`. What the repository promises of failures is not so: `FailuresAreRecorded`
and `EntryIsBestEffort` are violated (findings 6 and 7).

**KnowledgeGaps** – `agents/knowledge_gap` and its worker task. An embedding is an integer and similarity a radius; a centroid is kept as
a sum and a count, so distances are exact. A detection loads, clusters in the order of the questions, and commits; arq may retry it, and several
may overlap (`raced`). Properties: `ReportsOnlyGrow`, `RepeatedRunsAddNothing`.

**Retrieval** – `ingestion/processors/chunking.py`, `PgVectorStore`, `ranking/fusion.py`, `retrieval/service.py`. A text is sections of
paragraphs with lengths; `ChunkDocument` computes the offsets as the code does, with `str.find` for the start of a paragraph; a piece
carries both the offset it claims (`start`) and where its text is (`from`). A text of several sections that is a chat message is one
section, as no boundary is looked for in it (`Whole`). The rankings that SQL returns are any order of
the admitted rows; the fusion is exact, with scores as fractions. Property: `CitationsQuoteTheDocument`.

The two abstract review specifications are used step-wise: the property says that the initial
state maps to the initial state and every step of the detailed module maps, for each unraced object, to a step or a
stutter. `SessionFamily` is used as a whole, by `INSTANCE ... WITH` and `Spec => SessionFamily!Spec`.

## Runs

| Run | Expected | Shows |
|---|---|---|
| `AuthSessions` | pass | Three tokens, two users, two overlapping handlers: lineages, one live token per unraced login, logout is final, and the refinement of `SessionFamily`. |
| `AuthSessionsReuse` | violation | `ReusedFamilyIsDead`: finding 1. |
| `IngestionSync` | pass | Two sites of one file each; calls fail, downloads are refused, workers die or time out. Two workers that overlap, or one of a connector with or without resume tokens while files are edited: a sync that succeeds leaves behind only what has a named cause, failed jobs leave nothing, versions follow the source, every task ends. |
| `IngestionSyncLostOnFailure` | violation | `FailureKeepsLinksSafe`: finding 2. |
| `IngestionSyncRevert` | violation | `ReingestIsHarmless`: finding 3. |
| `Reviews` | pass | `IncidentLifecycle` (one incident, two postmortem ids, two overlapping requests) and `KnowledgeDocuments` (one proposal, three overlapping requests, texts with the empty one), each by itself. |
| `IncidentLifecycleLateEdit` | violation | `ApprovedIsClosed`: finding 4. |
| `Provisioning` | pass | Two invitations of one email, a rule, two subjects with that email, two overlapping requests, with and without row-level security. |
| `ProvisioningNoticed` | violation | `NoticedIsMarked`: finding 5. |
| `Services` | pass | `Organizations`, `OAuthBridge`, `RateLimiter`, `ConnectorWalks`, `AgentRuns`, `KnowledgeGaps` and `Retrieval`, each by itself: `part` is chosen at the start and never changes, the state of the others stays as it began. They share no state but whether the policies of row-level security bind, which never changes, so nothing is lost by not interleaving them. |
| `AgentRunsFailures` | violation | `FailuresAreRecorded`: finding 6. |
| `AgentRunsEntry` | violation | `EntryIsBestEffort`: finding 7. |

**Bounds and why they are enough.** Handlers interact only through rows they share, so two overlapping requests show
every pairwise race; `KnowledgeDocuments` has three, as its index depends on propose, edit and publish.
One incident and one document suffice because no operation touches two; two postmortem ids give the double
draft; three tokens give a family with a rotation and a rotation of the rotated one, or two families. Two sites give a job that
fails, or skips a file, after one site is complete, and a file that is edited after its page. In each
kind of behaviour of `IngestionSync`, edits and new tasks stop when the clock, which ticks with each edit and each completed sync, has reached
`Clocks`: after two ticks when jobs overlap, three with resume tokens, four without; the last are enough for a third version of a file. `MaxVersion`
bounds edits, `MaxTries` is arq's limit (2 or 3, the deployed value only adds repetitions). Symmetry is used
only over sets whose members the specifications never tell apart, and in no run that checks liveness; the contents of a file come in a
fixed order instead (`MCNext`), as the run of `IngestionSync` checks that tasks end.
What the proofs cover needs no bounds.

In `Services`: two flows, clients, codes, submissions and token requests, so that every pair can overlap. Three jobs, two on one connector
and one on a connector without a limit, over three ticks with a burst of one token. A source of three or more items in two containers
with pages of two, so that every list has a second page and an item can move over its edge; GitHub's has each of its four
phases. One agent run at a time, as runs share no row, with two retries. Three questions at two points and two detections give a cluster, a
merge and an overlap. Two documents with paragraphs that fit, that do not, and that are blank; a search fuses all rankings of at most
two. Two signups of one email or one slug may overlap, with or without policies.

**Deadlock.** Where a configuration says `CHECK_DEADLOCK FALSE`, ids, versions or the clock are used up and the model
may legitimately stop; the transactions cannot block each other, except an insert that waits for
the holder of its unique key (`Blocked`), and `TasksEnd` shows that wait ends.

**Fairness.** In `IngestionSync`: strong fairness of `Work(t)`, for each task. The arq worker pool keeps
taking queued tasks and the event loop keeps running them; an insert waiting for a key is woken when its holder ends, and
strong rather than weak because another transaction may take the key first. Edits, requests, the cron, faults,
timeouts and deaths are not fair: nothing makes a user or a fault act. In
`AgentRuns`, weak fairness of `Work(r)`: the event loop keeps running a handler, whose calls all have a timeout; a failure of
a call is one of the ways it goes on, so fairness does not make calls succeed. In `ConnectorWalks`, weak fairness of `Walking`: the loop of the
job goes on to the next page, while changes at the source come at any time. The other modules promise only safety.

**Mutants.** For every property of every passing run there is one mutated definition (a dropped guard, a missing
reset, a column left out) under which TLC finds that property violated in that run.

## Findings

1. *A reused refresh token revokes nothing.* `refresh` revokes the family and then raises; the session helper rolls the
   revocation back. The docstring says the whole family is revoked immediately.
2. *A failed sync can lose documents for good.* The failure path stores the resume link of every site it completed, although
   the savepoint has rolled back that site's documents; the next sync starts after them. The comment calls it safe even on failure.
3. *A file that returns to an earlier content fails its job, and every retry.* Only the latest version's hash is
   compared, the unique key covers all versions; the documentation calls the conflict a harmless no-op.
4. *An approved postmortem can still change.* An edit that loaded the row before its approval commits after it. The
   docstring calls it a closed state machine.
5. *An expired invitation is never marked.* The login that notices it past due is refused when no rule matches, which rolls
   the mark back; `create_invitation` then keeps answering "already pending".
6. *The record of a failure does not survive it.* A run that ends in a domain error is "marked `failed` for observability, then
   re-raised" (`agents/service.py:36-39`); the error rolls the mark back with the transaction. The unit test has no transaction.
7. *A refused timeline entry fails the investigation.* Its failure is "logged and swallowed, never allowed to turn an
   otherwise-successful investigation into a failed one" (`investigation/node.py:39-41`), but the refused statement has aborted the
   transaction, so that the record of the success fails and the caller gets an error.

Three more ways in which a sync that succeeds leaves content behind are contradicted by no document, so they are hazards and not findings:
a file edited after its page was fetched is older than the next filter, as `last_synced_at` is the *end* of the sync; a refused
download of SharePoint and of Confluence is skipped, and the filters move past it; and what an offset, a date or a creation time hides from a
connector. `SyncIsComplete` and `SyncsMissOnlyWhatMoved` except them by name, and say that nothing *else* is lost.

## Proofs

TLAPS proves the following for every value of the constants, where TLC's runs are instances.

| Module | Theorem | Property |
|---|---|---|
| `AuthSessionsProofs` | `TypeCorrect`, `LineageHolds`, `Refinement`, `RotationKeepsOne`, `LogoutIsFinal` | all five of the run |
| `IncidentLifecycleProofs` | `TypeCorrect`, `ReviewsAreHuman`, `ResolutionComesFirst`, `StampIsInStep`, `ReviewIsFollowed` | the five of this module |
| `ProvisioningProofs` | `TypeCorrect`, `PendingIsUnique`, `RolesAreGranted`, `AcceptanceProvisions`, `ClosedIsFinal` | all five of the run |
| `KnowledgeDocumentsProofs` | `TypeCorrect`, `OnlyPublishedIsSearched`, `UnracedIsInStep`, `UnracedVersionCounts`, `ReviewIsFollowed` | the five of this module |
| `IngestionSyncProofs` | `TypeCorrect`, `VersionsAreInOrder`, `SuccessBringsDocuments`, `NothingElseIsMissed` | all but `TasksEnd`: `TypeOK`, `VersionsFollowTheSource`, `DocumentsComeWithSuccess`, `SyncIsComplete` |
| `ServicesProofs` | `LimiterKeepsTheRate`; `FlowsYieldOneCode`, `CodesAreRedeemedOnce`, `LoginsAreNotLost`; `SignupsHold` | `WithinRate`; `OneCodePerFlow`, `CodeIsRedeemedOnce`, `NothingIsLost`; `SignupsTakeEffect`; and the types of the three modules |
| `AgentRunsProofs` | `RepliesAreTrue`, `InvestigationsAttach`, `ResultsAreGrounded`, `RunsDegrade` | `RepliesAreRecorded`, `InvestigationIsAttached`, `ResultsRestOnEvidence`, `DegradesGracefully` |
| `SearchProofs` | `CitationsAreTrue`; `ReportsGrow`, `RepeatsAddNothing`; `RetrievalInvariant`, `GapsInvariant` | `CitationsQuoteTheDocument` of `Retrieval`; `ReportsOnlyGrow`, `RepeatedRunsAddNothing` of `KnowledgeGaps` |

Assumptions on constants are named in the modules and evaluated by TLC in the runs: null markers are none of
the values they stand beside, bounds, rates and distances are numbers, there is the name "General" that `insert_project` gives the
first project, the confidence threshold is positive, the documents that arrive have a text of at least one section and the limit of a chunk
is not 0. The theorems of `ServicesProofs` and
`AgentRunsProofs` are implications from them. The settings also allow a threshold of 0 (`settings.py:113`), with which a question that
finds nothing is sent to the answer agent, where `answer/node.py:83` says only a routing bug would send it; it then declines.

One theorem has a hypothesis. `VersionsAreInOrder` needs `Orderly` (the source waits for the jobs, or there is one job at a time) and that no
content returns: when two jobs overlap *and* a file is edited meanwhile, both may read one latest version, fetch different
contents and commit both under the next number, as the unique key covers the content; a content that returns hits that key
(finding 3). The other theorems of `IngestionSync` hold for any number of overlapping jobs that fail, die and time out,
with or without resume tokens, while the source is edited and contents return.

Each proof has an inductive invariant: `IInv`, or what the list below names. A property about tables is not inductive, because a commit writes what an earlier
step decided: the invariant must say what is still true of an open transaction when it commits.

- **AuthSessions.** `IInv` = `TypeOK`, `Buffered` (what each handler's buffer says of the tokens it will write),
  `InsertsDistinct` (two handlers never insert one token), `FamiliesAreRooted` (a family has a first token, which gives a login
  its identity), `RotationLineage`. The refinement follows: a commit maps to one step of `SessionFamily` or a stutter, since
  two handlers that rotate one token insert two successors of *one* family. One live token per login, and none after its
  logout, need a second invariant on top, `LogoutInv`: for a login that is not in `raced`, `Held` says that the token an open
  rotation read is still live, and that what an open logout will revoke is still all that is live.
- **IncidentLifecycle.** `IInv` = `TypeOK`, `Holds` (the row that an open request loaded is still current, unless raced, and no commit
  takes a reviewer away), `InsertsDistinct`, `DoneWasResolved`, `OnePostmortem` (an unraced incident has one), and the three invariants. Handlers
  that only read keep it by the lemma `RequestStep`; commits have one lemma per table.
- **Provisioning.** `IInv` = `TypeOK`, `Holds` (an open request's invitation is still as it was loaded, unless raced),
  `Decided` (a login holds a role it was granted by what it loaded), `InvitesDistinct`, and the three invariants.
- **KnowledgeDocuments.** `IInv` = `TypeOK`, `Holds` (an open request loaded the current row, unless raced), `ProposalsDistinct`,
  `UnbornIsClean` (an id without a row has no index entry and no edit), and the three invariants. The key lemma
  `LoadedIsCurrent`: if two requests are open on one document, the first commit puts it in `raced`.
- **IngestionSync.** Five parts, each invariant under the ones before it and its hypotheses. `Shape`: what the fields of a task say at each stage,
  and that two successes never carry one time. `Keys`: a row of an open transaction has a key of its own, and holds what its file
  holds unless the task knows that it `missed` an edit. `Rows` (`Orderly`): the rows of an open transaction are the next versions of
  their files, and two transactions hold no row of one key. `Order` (`Orderly`, no returning content): contents lie in the order of
  the source's history, for committed rows, rows in savepoints and the file in hand. `Complete`, without hypotheses: a file that is not
  current is `excused`, or was modified after `last_synced_at` and its sites' links; and in every task that may yet
  succeed each file is covered by the rows the task sees, still `Due` on its walk, `missed`, or `excused`.
- **RateLimiter.** `WithinRate` speaks of any two grants, so the invariant must say what is left for the next one: for every stretch of grants that
  ends with the last, the tokens in the bucket *plus* what the stretch consumed are funded by the capacity and what accrued since its first.
  A refill keeps that (`RefillFunds`: the cap only takes away), and a grant turns tokens into consumption (`GrantFunds`). The products
  of rates and times, which are not linear, are isolated in four lemmas (`Products` to `OneMore`).
- **OAuthBridge.** A flow is in one place: pending, with one handler, or turned into one code; likewise a code is unused, loaded, or
  handed over. `BridgeInv` says so for every pair of handlers, and that what is in none of these places is `stale` or `excused`.
- **Organizations.** `SawOthers` (the slugs that an open signup saw belong to people with another email address, as its own was free), and
  `Effective` for each committed signup: its rows are there, and the password of its email address is that of some signup of it. Overlapping
  signups may overwrite one another's password, so the stronger "its own password" is not true.
- **AgentRuns.** Runs share no row, so the invariant speaks of one at a time: `Sound` says, by the node it is at, what a run holds (nothing to reply before
  its last node, no hypothesis before the evidence is complete, a reply that goes with its uncommitted rows, an entry unless the transaction is
  aborted, a fault to blame for what is no result), and `Stored` what the tables hold of it. Steps that only go on share the lemma `QuietStep`; the ends of a transaction have one each.

- **KnowledgeGaps.** `GapsInv` = the types, `Loaded` (what an open detection loaded is still there, topic by topic, and exactly so unless it is
  `raced`) and `Served` (every gap of the last committed detection has a report within the radius). The steps rest on what the folds compute: `DetectedRows`
  (the rows grow, every gap is served, none is added when all were), which needs that the closest of some reports exists (`ClosestExists`)
  and is no farther than the others (`WithinOrder`, by the order of fractions).
- **Retrieval.** `RetrievalInv` = the types, `Cited` (a stored chunk has the organization, the permission and no other repository than its document,
  and its piece is a `Quote` of the document's text) and that a result consists of stored chunks its filters admit. Ingestion keeps it
  by `ChunkDocumentQuotes`, which follows `chunk_document` fold by fold: a paragraph is where `Before` says (`ParagraphsAre`), the groups end
  where their last paragraph does (`GroupsFit`), slices start inside their group (`SliceStarts`), and a section or a whole message lies
  within the text (`TextGrows`, `WholeType`). A search keeps it because the fused list is made of what the rankings contain (`Fused`).

The library's induction theorems cannot be instantiated, as they take a statement as a parameter. The proofs about folds therefore take the
*set* of the positions where a statement holds (`Induct`), from the least-number principle. `FoldExists` shows that the function
which `FoldLeft` chooses exists, `FoldPrefixes` how it goes on from prefix to prefix.

Each has the shape `Init => IInv`, `IInv /\ [Next]_vars => IInv'` with a lemma per action or commit, and the theorems by
temporal logic; step properties (`ClosedStaysClosed`, the reviews) come from the same lemma.

## Limits

Only model-checked: liveness (`TasksEnd`, `EveryRunEnds`, `EveryWalkEnds`; TLAPS's backends do not do `ENABLED`) and
`SyncsMissOnlyWhatMoved` of `ConnectorWalks`, which compares each sync with everything the source did before. Of `Retrieval`
it is not proved that the fused list is sorted and names no chunk twice: the property does not depend on it.

Abstracted everywhere: ids and hashes are model values (fresh when the code draws a uuid or random bytes); audit, timeline and
usage rows, which are append-only in the caller's transaction; permission checks that precede everything else, whose refusal is
`Rollback`; formatting and logging. `resolved_at` and `reviewed_by` count as set or null. A text is a model value, or the lengths of its paragraphs
in `Retrieval`. In `AgentRuns` a signal of the confidence is one of a few percentages, and the confidence of a triage, which is NULL, is 0.
In `KnowledgeGaps` an embedding has one dimension. In `ConnectorWalks` time is the number of changes at the source, and a minute, the
precision of two of the filters, is two of them.

Not modelled: identity providers, password hashing and the encryption of credentials; `reindex`, which no production code calls; cleaning;
vector and text scores; prompts and the parsing of answers; the read-only MCP tools; and the components the inventory marks so.

### What the models show beyond the findings

Each is part of the modelled behaviour, and where a property would be broken by it, the property says so.

- *Transactions.* A statement that the database refuses aborts the transaction: retries, "logged and skipped" sources and the record of a failure then
  fail as well (findings 6 and 7 are two of the consequences). Over REST the commit comes after the response. A cancelled MCP call is logged with status 200, or not at all.
- *Detections that overlap* can open a report twice, and the later commit overwrites the support the earlier one added.
- *Walks.* A download that SharePoint refuses for any reason, or an attachment that Confluence does, is skipped by a sync that succeeds, and is
  fetched again only when it is edited (`sharepoint.py:186-189` says that failed downloads are filtered out, not that they are not retried). A commit that is pushed after a sync but was made before it is older than GitHub's filter.
  With the policies binding, the runbooks connector finds nothing. Pagination by offset can skip an item for good when another one moves; a file that is deleted after the last sync makes every later
  incremental sync of GitHub fail; edits of Slack messages are never fetched again; a postmortem that is approved after a later one was
  ingested never is; Teams' links are kept when the sync fails; Jira and Confluence filter by minutes, so items come again; a
  change of metadata alone is not ingested.
- *Retrieval.* A blank paragraph gets the offset of an earlier place (comments in `schemas.py:195` and `chunking.py:150` say otherwise); the chunks of older versions remain searchable; a search of conversations or of all
  collections with a repository raises.
- *Organizations.* With the policies binding the database user, signup and `POST /organizations` are refused and a password login finds no
  organization. `POST /organizations` leaves an organization without members. Several projects can be the default (`get_default_project` expects one). A password login of
  a user in several organizations may land in any. Permissions in a project replace those in the organization. Two overlapping signups of one
  email address both succeed, and the second sets the password.
- Outside the models: the score that decides whether a gap matches an existing document is a fused rank score, at most 2/61, compared with 0.6,
  so `update_existing` is never chosen; `_HTML_TAG` takes code such as `List<Foo>` for a tag.

## Plan

1. A proof of `SyncsMissOnlyWhatMoved` of `ConnectorWalks`, kind of source by kind of source.
2. **TenantContext** as an abstract specification (a table per organization) that the modules' transactions implement.
3. The exchange of a code composed with `AuthSessions`' login, and `ConnectorWalks` with `IngestionSync`'s savepoint, where today each has an
   abstraction of the other.
4. Lemmas about the operators that are not folds: `HasPermission`, `Capacity`, `Refilled`, `WeightedScore`.
