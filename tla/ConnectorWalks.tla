--------------------------- MODULE ConnectorWalks ---------------------------
(***************************************************************************)
(* How the connectors walk their sources (app/ingestion/connectors): one   *)
(* fetch_batch after the other, over the containers of the source (repos,  *)
(* projects, spaces, channels), a page at a time, while the source is      *)
(* being edited, and again and again, each sync from where the last one    *)
(* ended.                                                                  *)
(*                                                                         *)
(* Time is the number of changes at the source.  Each listing has the      *)
(* order, the filter and the pagination of the service it comes from       *)
(* (external): an offset counts from the start of the list as it is then,  *)
(* a token stands for the last item that was returned.  A commit has the   *)
(* date at which it was made, which may be before the time of its push.    *)
(***************************************************************************)
EXTENDS Naturals, Sequences, FiniteSets, FiniteSetsExt, Functions

CONSTANTS
    Items,       \* by connector: the items of its source, <<container, collection, number>>
    Start,       \* by connector: the times at which its items came to be
    Unreadable,  \* binary files, attachments without text
    Attachments, \* items whose content is a download of its own
    PageSize,    \* _SEARCH_PAGE_SIZE, _COMMITS_PAGE_SIZE, _BATCH_SIZE, ...
    MaxTime      \* bound on the changes at the source

Kinds == {"github", "jira", "confluence", "slack", "teams", "azure_devops", "runbooks"}

VARIABLES
    kind,        \* the connector
    now,         \* the number of changes at its source
    source,      \* its items
    commits,     \* the commits of its repositories
    walk,        \* the sync under way
    synced,      \* last_synced_at; 0: never
    held,        \* the documents of successful syncs
    links,       \* config._resume_token: the delta link of each container
    rowSecurity, \* the policies of row-level security bind the database user
    skipped,     \* history: the items whose download the last walk was refused
    excused      \* history: what the connector cannot know that it lacks

vars == <<kind, now, source, commits, walk, synced, held, links, rowSecurity, skipped, excused>>

Containers == 1..Max({i[1] : i \in Items[kind]})

\* live: the item exists, a postmortem is approved.
Item == [created : Nat, updated : Nat, live : BOOLEAN]
Commit == [at : Nat, date : Nat, file : Items[kind]]

\* A commit is an item, too, of the number of its time.
Everything == Items[kind] \cup (Containers \X {"commits"} \X (1..MaxTime))
Separators == {":", "@", "#pull-", "#issue-", "-"}
Document == [id : Containers \X Separators \X Nat, version : Nat]

_PHASES == <<"files", "commits", "pulls", "issues">>

Walk == [pc : {"idle", "walking"}, since : Nat, container : Nat, phase : 1..Len(_PHASES),
         at : Nat, stubborn : BOOLEAN, before : [Items[kind] -> Item], touched : SUBSET Everything, fetched : SUBSET Document,
         links : [Containers -> Nat]]

TypeOK ==
    /\ kind \in Kinds
    /\ now \in Nat
    /\ source \in [Items[kind] -> Item]
    /\ commits \subseteq Commit
    /\ walk \in Walk
    /\ synced \in Nat
    /\ held \subseteq Document
    /\ links \in [Containers -> Nat]
    /\ rowSecurity \in BOOLEAN
    /\ skipped \subseteq Items[kind]
    /\ excused \subseteq Everything

Idle == [pc |-> "idle", since |-> 0, container |-> 1, phase |-> 1, at |-> 0,
         stubborn |-> FALSE, before |-> source, touched |-> {}, fetched |-> {}, links |-> [c \in Containers |-> 0]]

Init ==
    /\ kind \in Kinds
    /\ now = Max({Start[kind][i] : i \in Items[kind]})
    /\ source = [i \in Items[kind] |-> [created |-> Start[kind][i], updated |-> Start[kind][i],
                                       live |-> Start[kind][i] # 0 /\ kind # "runbooks"]]
    /\ commits = {[at |-> source[i].created, date |-> source[i].created, file |-> i] :
                    i \in {j \in Items[kind] : j[2] = "files" /\ source[j].live}}
    /\ walk = Idle
    /\ synced = 0 /\ held = {}
    /\ links = [c \in Containers |-> 0]
    /\ rowSecurity \in BOOLEAN
    /\ skipped = {} /\ excused = {}

-----------------------------------------------------------------------------
(* The source.                                                              *)

CommitOf(i) == CHOOSE k \in commits : k.at = i[3]
FileOf(i) == CommitOf(i).file
Commits(c) == {<<c, "commits", k.at>> : k \in {l \in commits : l.file[1] = c}}

\* 0: the item is not there, not yet or no longer, or is not approved.
Updated(i) ==
    IF i[2] = "commits" THEN CommitOf(i).date ELSE IF source[i].live THEN source[i].updated ELSE 0

Present(c, collection) ==
    IF collection = "commits" THEN Commits(c)
    ELSE {i \in Items[kind] : i[1] = c /\ i[2] = collection /\ source[i].live}

\* Its users edit the source: anything may be created and changed, a file of a
\* repository deleted, and a postmortem is drafted and then approved.
MayChange(i, live) ==
    CASE kind = "github" -> live \/ (i[2] = "files" /\ source[i].live)
      [] kind = "runbooks" -> ~source[i].live /\ (live <=> source[i].created # 0)
      [] OTHER -> live

\* The change of an item, dated then, that an incremental sync does not look at:
\* Slack and the runbooks are filtered by the time of creation, commits by their date.
Invisible(i, date) ==
    \/ kind \in {"slack", "runbooks"} /\ source[i].created \in 1..synced
    \/ i[2] = "files" /\ date <= synced

\* A push of a commit of that date, for a file.
Pushed(i, date) == IF i[2] = "files" THEN {[at |-> now + 1, date |-> date, file |-> i]} ELSE {}
PushedItems(i) == IF i[2] = "files" THEN {i, <<i[1], "commits", now + 1>>} ELSE {i}

Change(i, live, date) ==
    /\ now < MaxTime
    /\ MayChange(i, live)
    /\ i[2] = "files" \/ date = now + 1
    /\ now' = now + 1
    /\ source' = [source EXCEPT ![i] = [created |-> IF @.created = 0 THEN now' ELSE @.created,
                                       updated |-> now', live |-> live]]
    /\ commits' = commits \cup Pushed(i, date)
    /\ walk' = IF walk.pc = "idle" THEN [walk EXCEPT !.before = source']
               ELSE [walk EXCEPT !.touched = @ \cup PushedItems(i)]
    /\ excused' = IF Invisible(i, date) THEN excused \cup PushedItems(i)
                  ELSE IF walk.pc = "walking" THEN excused ELSE excused \ {i}
    /\ UNCHANGED <<kind, synced, held, links, rowSecurity, skipped>>

-----------------------------------------------------------------------------
(* normalize: the external id, and the version of the text it stands for.   *)

NormalizeFile(i) == <<i[1], ":", i[3]>>
NormalizeCommit(i) == <<i[1], "@", i[3]>>
NormalizePullRequest(i) == <<i[1], "#pull-", i[3]>>
NormalizeIssue(i) == <<i[1], "#issue-", i[3]>>
NormalizeJira(i) == <<i[1], "-", i[3]>>
NormalizeConfluence(i) == <<i[1], ":", i[3]>>
NormalizeSlack(i) == <<i[1], ":", i[3]>>
NormalizeTeams(i) == <<i[1], ":", i[3]>>
NormalizeAzure(i) == <<i[1], ":", i[3]>>
NormalizeRunbook(i) == <<1, ":", i[3]>>

ExternalId(i) ==
    CASE i[2] = "commits" -> NormalizeCommit(i)
      [] i[2] = "pulls" -> NormalizePullRequest(i)
      [] i[2] = "issues" -> NormalizeIssue(i)
      [] i[2] = "files" -> NormalizeFile(i)
      [] kind = "jira" -> NormalizeJira(i)
      [] kind = "confluence" -> NormalizeConfluence(i)
      [] kind = "slack" -> NormalizeSlack(i)
      [] kind = "teams" -> NormalizeTeams(i)
      [] kind = "azure_devops" -> NormalizeAzure(i)
      [] kind = "runbooks" -> NormalizeRunbook(i)

Normalize(i) == [id |-> ExternalId(i), version |-> Updated(i)]

\* Stored over what is there: the documents of these ids are replaced.
Over(old, new) == {d \in old : \A e \in new : e.id # d.id} \cup new

-----------------------------------------------------------------------------
(* The pages of the sources: the items of a page, where the next one starts,*)
(* and whether there is none.                                               *)

Page(items, at, ends) == [items |-> items, at |-> at, ends |-> ends]

After(items, since) == {i \in items : Updated(i) > since}
Since(items, since) == {i \in items : source[i].created > since}

\* The orders of the lists: a list is its items, each with the key it is sorted by.
OldestFirst(items) == [i \in items |-> Updated(i)]
NewestFirst(items) == [i \in items |-> MaxTime - Updated(i)]
NewestCommitsFirst(items) == [i \in items |-> (MaxTime - Updated(i)) * (MaxTime + 1) + MaxTime - i[3]]
OldestCreatedFirst(items) == [i \in items |-> source[i].created]
NewestCreatedFirst(items) == [i \in items |-> MaxTime - source[i].created]
ByPath(items) == [i \in items |-> i[3]]

\* The items of a list with at least from and less than from + PageSize before them.
Slice(list, from) ==
    {i \in DOMAIN list :
        Cardinality({j \in DOMAIN list : list[j] < list[i]}) \in from..(from + PageSize - 1)}

\* The token for what comes after a page, in a list with the oldest first.
Newest(raw, token) == Max({Updated(i) : i \in raw} \cup {token})

\* The filters of Jira and Confluence have the precision of a minute, two events.
Minute(since) == since - (since % 2)

\* _list_tree_page.  The pages are slices of a tree that is fetched for each.
TreePage(c, page) ==
    LET tree == Present(c, "files")
    IN Page(Slice(ByPath(tree), page * PageSize), page + 1, (page + 1) * PageSize >= Cardinality(tree))

\* The commits of a page, newest first, by the dates they were made.
CommitsSlice(c, since, page) == Slice(NewestCommitsFirst(After(Commits(c), since)), page * PageSize)

\* _list_changed_paths_page: the files that the commits of a page touched.
ChangedPathsPage(c, since, page) ==
    LET raw == CommitsSlice(c, since, page)
    IN Page({FileOf(i) : i \in raw}, page + 1, Cardinality(raw) < PageSize)

\* _fetch_file_content: a path that is gone makes the request fail.
Gone(page) == \E i \in page.items : Updated(i) = 0

\* _list_file_items_page.  What cannot be decoded is left out.
FilesPage(c, since, page) ==
    IF since = 0 THEN TreePage(c, page) ELSE ChangedPathsPage(c, since, page)

CommitsPage(c, since, page) ==
    LET raw == CommitsSlice(c, since, page)
    IN Page(raw, page + 1, Cardinality(raw) < PageSize)

\* _list_pull_requests_page: newest first, up to the first that is too old.
PullsPage(c, since, page) ==
    LET raw == Slice(NewestFirst(Present(c, "pulls")), page * PageSize)
        items == After(raw, since)
    IN Page(items, page + 1, items # raw \/ Cardinality(raw) < PageSize)

\* _list_issues_page: pull requests are issues, too, and are left out.
IssuesPage(c, since, page) ==
    LET raw == Slice(NewestFirst(After(Present(c, "pulls") \cup Present(c, "issues"), since)), page * PageSize)
    IN Page(raw \cap Present(c, "issues"), page + 1, Cardinality(raw) < PageSize)

GithubPage(c, phase, since, page) ==
    CASE phase = "files" -> FilesPage(c, since, page)
      [] phase = "commits" -> CommitsPage(c, since, page)
      [] phase = "pulls" -> PullsPage(c, since, page)
      [] phase = "issues" -> IssuesPage(c, since, page)

\* Mutant of JiraPage: an empty page is not taken for the last one.
JiraPageTrusting(c, since, token, stubborn) ==
    LET list == After(Present(c, "issues"), Max({Minute(since), token}))
        raw == Slice(OldestFirst(list), 0)
    IN Page(raw, Newest(raw, token), ~stubborn /\ raw = list)

\* A page of Jira.  stubborn: it never says isLast and always has a next token.
JiraPage(c, since, token, stubborn) ==
    LET list == After(Present(c, "issues"), Max({Minute(since), token}))
        raw == Slice(OldestFirst(list), 0)
    IN Page(raw, Newest(raw, token), raw = {} \/ (~stubborn /\ raw = list))

\* Mutant of ConfluencePage: what was skipped does not count for the page.
ConfluencePageOfKept(c, since, start) ==
    LET raw == Slice(OldestFirst(After(Present(c, "items"), Minute(since))), start)
        results == raw \ Unreadable
    IN Page(results, start + Cardinality(results), Cardinality(results) < PageSize)

\* A page of Confluence: an offset into a list that is ordered by change.
ConfluencePage(c, since, start) ==
    LET raw == Slice(OldestFirst(After(Present(c, "items"), Minute(since))), start)
    IN Page(raw \ Unreadable, start + Cardinality(raw), Cardinality(raw) < PageSize)

\* A page of Slack: a cursor into the messages, newest first.
SlackPage(c, since, cursor) ==
    LET list == {i \in Since(Present(c, "items"), since) : cursor = 0 \/ source[i].created < cursor}
        raw == Slice(NewestCreatedFirst(list), 0)
    IN Page(raw, Min({source[i].created : i \in raw} \cup {now}), raw = list)

\* _fetch_full_sync_page: nextLink walks the messages, newest first.
TeamsFullPage(c, next_link) == SlackPage(c, 0, next_link)

\* _fetch_incremental_page: the changes since the delta link, or since the last
\* sync when there is none.
TeamsDeltaPage(c, since, next_link) ==
    LET from == IF next_link # 0 THEN next_link
                ELSE IF walk.links[c] # 0 THEN walk.links[c] ELSE since
        list == After(Present(c, "items"), from)
        raw == Slice(OldestFirst(list), 0)
    IN Page(raw, Newest(raw, from), raw = list)

TeamsPage(c, since, next_link) ==
    IF since = 0 THEN TeamsFullPage(c, next_link) ELSE TeamsDeltaPage(c, since, next_link)

\* A page of Azure DevOps: a slice of the ids, which are queried for each page.
AzurePage(c, since, batch_start) ==
    LET ids == After(Present(c, "items"), since)
        batch == Slice(OldestFirst(ids), batch_start)
    IN Page(batch, batch_start + Cardinality(batch), batch_start + Cardinality(batch) >= Cardinality(ids))

\* list_postmortems_for_ingestion, and a page of it: the approved, as created.  The
\* session is the connector's own, without a tenant: a policy shows it no row.
RunbooksPage(since, offset) ==
    LET shown == IF rowSecurity THEN {} ELSE Since(Present(1, "items"), since)
        raw == Slice(OldestCreatedFirst(shown), offset)
    IN Page(raw, offset + Cardinality(raw), Cardinality(raw) < PageSize)

PageOf(w) ==
    CASE kind = "github" -> GithubPage(w.container, _PHASES[w.phase], w.since, w.at)
      [] kind = "jira" -> JiraPage(w.container, w.since, w.at, w.stubborn)
      [] kind = "confluence" -> ConfluencePage(w.container, w.since, w.at)
      [] kind = "slack" -> SlackPage(w.container, w.since, w.at)
      [] kind = "teams" -> TeamsPage(w.container, w.since, w.at)
      [] kind = "azure_devops" -> AzurePage(w.container, w.since, w.at)
      [] kind = "runbooks" -> RunbooksPage(w.since, w.at)

-----------------------------------------------------------------------------
(* The walk.                                                                *)

\* authenticate, and the cursor None.
StartWalk(stubborn) ==
    /\ walk.pc = "idle"
    /\ stubborn => kind = "jira"
    /\ walk' = [Idle EXCEPT !.pc = "walking", !.since = synced, !.stubborn = stubborn, !.links = links]
    /\ skipped' = {}
    /\ UNCHANGED <<kind, now, source, commits, synced, held, links, rowSecurity, excused>>

\* _next_phase.
HasNextPhase(w) == kind = "github" /\ w.phase < Len(_PHASES)

\* The cursor after a page: the same list, the next phase, the next container.
Advanced(w, page) ==
    CASE ~page.ends -> [w EXCEPT !.at = page.at]
      [] page.ends /\ HasNextPhase(w) -> [w EXCEPT !.phase = @ + 1, !.at = 0]
      [] OTHER -> [w EXCEPT !.container = @ + 1, !.phase = 1, !.at = 0]

\* @odata.deltaLink, on the last page of an incremental walk.
Relinked(w, page) ==
    IF kind = "teams" /\ w.since # 0 /\ page.ends
    THEN [w EXCEPT !.links[w.container] = now] ELSE w

\* _fetch_attachment_content: an attachment whose download is refused is left out of
\* its page like one without text.
Downloaded(page) ==
    {[page EXCEPT !.items = @ \ refused] :
        refused \in IF kind = "confluence" THEN SUBSET (page.items \cap Attachments) ELSE {{}}}

\* The walk after a page was fetched.
Fetched(w, page) ==
    [Advanced(Relinked(w, page), page) EXCEPT
        !.fetched = Over(@, {Normalize(i) : i \in page.items \ Unreadable})]

FetchBatch ==
    /\ walk.pc = "walking"
    /\ \E page \in Downloaded(PageOf(walk)) :
        /\ ~Gone(page)
        /\ Fetched(walk, page).container \in Containers
        /\ walk' = Fetched(walk, page)
        /\ skipped' = skipped \cup (PageOf(walk).items \ page.items)
    /\ UNCHANGED <<kind, now, source, commits, synced, held, links, rowSecurity, excused>>

\* The items that are there, and of which the newest text is not in docs.
Lacking(docs) ==
    {i \in UNION {Present(c, collection) : c \in Containers,
                  collection \in {"items"} \cup Range(_PHASES)} \ Unreadable : Normalize(i) \notin docs}

\* Something that stood before item i in a list that is paged by offset was taken
\* out of its place during the walk, so that i may have moved over the edge of a page.
MovedUp(i) ==
    \E j \in walk.touched \cap Items[kind] :
        /\ j[1] = i[1] /\ j[2] = i[2]
        /\ walk.before[j].live
        /\ CASE kind = "confluence" -> walk.before[j].updated \in (Minute(walk.since) + 1)..Updated(i)
             [] kind = "azure_devops" -> walk.before[j].updated \in (walk.since + 1)..Updated(i)
             [] OTHER -> i[2] = "files" /\ walk.since = 0 /\ j[3] < i[3]

\* The last page: the sync succeeds, and ends now.
FinishWalk ==
    /\ walk.pc = "walking"
    /\ \E page \in Downloaded(PageOf(walk)) :
        /\ ~Gone(page)
        /\ Fetched(walk, page).container \notin Containers
        /\ skipped' = skipped \cup (PageOf(walk).items \ page.items)
        /\ held' = Over(held, Fetched(walk, page).fetched)
        /\ links' = Fetched(walk, page).links
    /\ synced' = now
    /\ excused' = (excused \cup walk.touched \cup skipped' \cup {i \in Items[kind] : MovedUp(i)})
                 \cap Lacking(held')
    /\ walk' = Idle
    /\ UNCHANGED <<kind, now, source, commits, rowSecurity>>

\* An exception: the documents are rolled back, the links are kept.
FailWalk ==
    /\ links' = walk.links
    /\ excused' = excused \cup {i \in Lacking(held) : walk.links[i[1]] # links[i[1]]}
    /\ walk' = Idle
    /\ UNCHANGED <<kind, now, source, commits, synced, held, rowSecurity, skipped>>

FetchFails == walk.pc = "walking" /\ FailWalk
FileIsGone == walk.pc = "walking" /\ Gone(PageOf(walk)) /\ FailWalk

Walking == FetchBatch \/ FinishWalk \/ FileIsGone

Next ==
    \/ \E i \in Items[kind], live \in BOOLEAN, date \in {now, now + 1} : Change(i, live, date)
    \/ \E stubborn \in BOOLEAN : StartWalk(stubborn)
    \/ Walking
    \/ FetchFails

\* The loop of the job goes on to the next page.
Spec == Init /\ [][Next]_vars /\ WF_vars(Walking)

-----------------------------------------------------------------------------
(* Properties.                                                              *)

\* A sync that succeeds has brought everything that was there when it began, in
\* its last version, whatever happened at the source since the first sync, but
\* for what changed during a walk or invisibly to it, for what failed syncs lost,
\* for downloads that this walk or an earlier one was refused, for what moved up in
\* a list that is paged by offset, and for postmortems a policy hides (fetch_batch).
SyncsMissOnlyWhatMoved ==
    [][FinishWalk =>
         \A i \in Lacking(held') \ (excused \cup walk.touched \cup skipped') :
             MovedUp(i) \/ (kind = "runbooks" /\ rowSecurity)]_vars

\* However the source changes and whatever it says of further pages, every walk
\* comes to its end ("a real termination guard against an infinite fetch loop").
EveryWalkEnds == walk.pc = "walking" ~> walk.pc = "idle"
=============================================================================
