------------------------- MODULE IncidentLifecycle -------------------------
(***************************************************************************)
(* Incidents and their postmortems (app/core/incidents) under concurrent   *)
(* requests.                                                               *)
(*                                                                         *)
(* A request runs in one READ COMMITTED transaction: it loads a row,       *)
(* decides on what it loaded, and its write reaches the table at Commit.   *)
(* The mapper writes only the columns whose value differs from the row as  *)
(* it was loaded, with no version check, so two writers of a row merge     *)
(* column by column.  Generating a postmortem calls the language model     *)
(* between its checks and its insert, in the same transaction.             *)
(***************************************************************************)
EXTENDS Naturals, FiniteSets

CONSTANTS
    Incidents,   \* incidents.id
    Postmortems, \* postmortems.id
    Texts,       \* root_cause and action_items, as one value
    Requests,    \* requests that may run at the same time
    NoRow,       \* "no row has this id"
    Absent       \* a field a PATCH leaves out

Statuses == {"open", "investigating", "resolved", "closed"}
Done == {"resolved", "closed"}
Editable == {"draft", "in_review"}
Reviewed == {"approved", "published"}

\* resolved_at and reviewed_by count as set or null.
IncidentRow == [status : Statuses, resolved_at : BOOLEAN]
PostmortemRow ==
    [incident : Incidents, status : Editable \cup Reviewed, text : Texts, reviewed_by : BOOLEAN]

ASSUME NullsAreFresh ==
    NoRow \notin IncidentRow \cup PostmortemRow /\ Absent \notin Texts \cup Statuses \cup Editable

VARIABLES
    incidents,    \* the committed tables
    postmortems,
    req,          \* the requests
    everResolved, \* history: the incidents that have been resolved or closed
    raced         \* history: what two requests were writing at the same time: the row
                  \*   of an incident, or its postmortems

vars == <<incidents, postmortems, req, everResolved, raced>>

\* pc "drafting": the checks are made, the model is writing a draft for `on`.
\* pc "writing": the row `on` of `table` was loaded as `old` and is to be `new`.
Request ==
    [pc : {"idle", "drafting", "writing"}, table : {"incidents", "postmortems"},
     on : Incidents \cup Postmortems \cup {NoRow},
     old : IncidentRow \cup PostmortemRow \cup {NoRow},
     new : IncidentRow \cup PostmortemRow \cup {NoRow}]

Idle == [pc |-> "idle", table |-> "incidents", on |-> NoRow, old |-> NoRow, new |-> NoRow]

TypeOK ==
    /\ incidents \in [Incidents -> IncidentRow \cup {NoRow}]
    /\ postmortems \in [Postmortems -> PostmortemRow \cup {NoRow}]
    /\ req \in [Requests -> Request]
    /\ everResolved \subseteq Incidents
    /\ raced \subseteq {"incidents", "postmortems"} \X Incidents

Init ==
    /\ incidents = [i \in Incidents |-> NoRow]
    /\ postmortems = [p \in Postmortems |-> NoRow]
    /\ req = [r \in Requests |-> Idle]
    /\ everResolved = {}
    /\ raced = {}

-----------------------------------------------------------------------------
\* The postmortems of an incident that are in the table.
PostmortemsOf(i) ==
    {p \in Postmortems : postmortems[p] # NoRow /\ postmortems[p].incident = i}

\* An id that no row and no open transaction uses.
Fresh(table, id) ==
    /\ table[id] = NoRow
    /\ \A r \in Requests : req[r].pc = "writing" => req[r].on # id

Write(r, table, id, old, new) ==
    /\ req' = [req EXCEPT ![r] = [pc |-> "writing", table |-> table, on |-> id,
                                  old |-> old, new |-> new]]
    /\ UNCHANGED <<incidents, postmortems, everResolved, raced>>

CreateIncident(r, i) ==
    /\ req[r].pc = "idle"
    /\ Fresh(incidents, i)
    /\ Write(r, "incidents", i, NoRow, [status |-> "open", resolved_at |-> FALSE])

\* resolved_at is stamped on the way into resolved or closed, unless the row that
\* was loaded has it already, and cleared on the way back.
ResolvedAt(status) == status \in Done

\* Mutant of UpdateIncident: reopening does not clear resolved_at.
UpdateIncidentKeepingStamp(r, i, status) ==
    /\ req[r].pc = "idle"
    /\ incidents[i] # NoRow
    /\ Write(r, "incidents", i, incidents[i],
             [status |-> status, resolved_at |-> incidents[i].resolved_at \/ ResolvedAt(status)])

UpdateIncident(r, i, status) ==
    /\ req[r].pc = "idle"
    /\ incidents[i] # NoRow
    /\ Write(r, "incidents", i, incidents[i],
             [status |-> status, resolved_at |-> ResolvedAt(status)])

\* Mutant of TriggerGeneration: the status of the incident is not looked at.
TriggerUnresolved(r, i) ==
    /\ req[r].pc = "idle"
    /\ incidents[i] # NoRow
    /\ PostmortemsOf(i) = {}
    /\ req' = [req EXCEPT ![r] = [Idle EXCEPT !.pc = "drafting", !.table = "postmortems", !.on = i]]
    /\ UNCHANGED <<incidents, postmortems, everResolved, raced>>

\* trigger_postmortem_generation, up to the call of generate_postmortem.
TriggerGeneration(r, i) ==
    /\ req[r].pc = "idle"
    /\ incidents[i] # NoRow /\ incidents[i].status \in Done
    /\ PostmortemsOf(i) = {}
    /\ req' = [req EXCEPT ![r] = [Idle EXCEPT !.pc = "drafting", !.table = "postmortems", !.on = i]]
    /\ UNCHANGED <<incidents, postmortems, everResolved, raced>>

\* create_postmortem, with the text the agent wrote: it looks for a postmortem
\* of the incident again, and does not look at the incident again.
CreatePostmortem(r, p, x) ==
    /\ req[r].pc = "drafting"
    /\ PostmortemsOf(req[r].on) = {}
    /\ Fresh(postmortems, p)
    /\ Write(r, "postmortems", p, NoRow,
             [incident |-> req[r].on, status |-> "draft", text |-> x, reviewed_by |-> FALSE])

\* Mutant of UpdatePostmortem: an approved postmortem can be edited.
UpdateAnyPostmortem(r, p, status, x) ==
    /\ req[r].pc = "idle"
    /\ postmortems[p] # NoRow
    /\ status # Absent \/ x # Absent
    /\ LET row == postmortems[p] IN
       Write(r, "postmortems", p, row,
             [row EXCEPT !.status = IF status = Absent THEN @ ELSE status,
                         !.text = IF x = Absent THEN @ ELSE x])

\* Mutant of UpdatePostmortem: a field the PATCH leaves out is written as null.
UpdateWithUnsetFields(r, p, status, x) ==
    /\ req[r].pc = "idle"
    /\ postmortems[p] # NoRow /\ postmortems[p].status \in Editable
    /\ status # Absent \/ x # Absent
    /\ Write(r, "postmortems", p, postmortems[p],
             [postmortems[p] EXCEPT !.text = x])

\* update_postmortem: a PATCH of the status, the text or both.
UpdatePostmortem(r, p, status, x) ==
    /\ req[r].pc = "idle"
    /\ postmortems[p] # NoRow /\ postmortems[p].status \in Editable
    /\ status # Absent \/ x # Absent
    /\ LET row == postmortems[p] IN
       Write(r, "postmortems", p, row,
             [row EXCEPT !.status = IF status = Absent THEN @ ELSE status,
                         !.text = IF x = Absent THEN @ ELSE x])

\* Mutant of ApprovePostmortem: reviewed_by is left null.
ApproveAnonymously(r, p) ==
    /\ req[r].pc = "idle"
    /\ postmortems[p] # NoRow /\ postmortems[p].status \in Editable
    /\ Write(r, "postmortems", p, postmortems[p], [postmortems[p] EXCEPT !.status = "approved"])

ApprovePostmortem(r, p) ==
    /\ req[r].pc = "idle"
    /\ postmortems[p] # NoRow /\ postmortems[p].status \in Editable
    /\ Write(r, "postmortems", p, postmortems[p],
             [postmortems[p] EXCEPT !.status = "approved", !.reviewed_by = TRUE])

\* The UPDATE of the columns in which new differs from old.
Merged(current, old, new) ==
    [column \in DOMAIN current |-> IF new[column] # old[column] THEN new[column] ELSE current[column]]

\* The row after the INSERT or the UPDATE of the transaction h.
Written(h, current) == IF h.old = NoRow THEN h.new ELSE Merged(current, h.old, h.new)

\* What an open request is about: an incident's row, or its postmortems.
Subject(h) ==
    <<h.table, IF h.table = "incidents" \/ h.pc = "drafting" THEN h.on
               ELSE IF h.old = NoRow THEN h.new.incident ELSE h.old.incident>>

Commit(r) ==
    /\ req[r].pc = "writing"
    /\ LET h == req[r] IN
       IF h.table = "incidents"
       THEN /\ incidents' = [incidents EXCEPT ![h.on] = Written(h, @)]
            /\ everResolved' = everResolved \cup
                   {i \in Incidents : i = h.on /\ incidents'[i].status \in Done}
            /\ UNCHANGED postmortems
       ELSE /\ postmortems' = [postmortems EXCEPT ![h.on] = Written(h, @)]
            /\ UNCHANGED <<incidents, everResolved>>
    /\ raced' = IF \E q \in Requests \ {r} : req[q].pc # "idle" /\ Subject(req[q]) = Subject(req[r])
                THEN raced \cup {Subject(req[r])} ELSE raced
    /\ req' = [req EXCEPT ![r] = Idle]

\* The model gives up, create_postmortem finds a postmortem, or the process dies.
Rollback(r) ==
    /\ req[r].pc # "idle"
    /\ req' = [req EXCEPT ![r] = Idle]
    /\ UNCHANGED <<incidents, postmortems, everResolved, raced>>

Next ==
    \E r \in Requests :
        \/ \E i \in Incidents :
            \/ CreateIncident(r, i)
            \/ \E s \in Statuses : UpdateIncident(r, i, s)
            \/ TriggerGeneration(r, i)
        \/ \E p \in Postmortems :
            \/ \E x \in Texts : CreatePostmortem(r, p, x)
            \/ \E s \in Editable \cup {Absent}, x \in Texts \cup {Absent} :
                   UpdatePostmortem(r, p, s, x)
            \/ ApprovePostmortem(r, p)
        \/ Commit(r)
        \/ Rollback(r)

Spec == Init /\ [][Next]_vars

-----------------------------------------------------------------------------
(* Properties that hold whatever requests overlap.                          *)

\* "Nothing an agent generates reaches knowledge without" a human review
\* (approve_postmortem): an approved postmortem has its reviewer on it.
NothingApprovedUnreviewed ==
    \A p \in Postmortems : postmortems[p] # NoRow =>
        (postmortems[p].status \in Reviewed => postmortems[p].reviewed_by)

\* "The incident must be resolved" (trigger_postmortem_generation): a postmortem
\* is only ever of an incident that has been resolved or closed.
DraftedOnceResolved ==
    \A p \in Postmortems : postmortems[p] # NoRow => postmortems[p].incident \in everResolved

-----------------------------------------------------------------------------
(* Properties of what no two requests were writing at the same time.        *)

\* "resolved_at should always reflect the incident's current resolution state"
\* (update_incident).
ResolvedAtReflectsStatus ==
    \A i \in Incidents : incidents[i] # NoRow /\ <<"incidents", i>> \notin raced =>
        (incidents[i].resolved_at <=> incidents[i].status \in Done)

\* "An approved or published postmortem is a closed state machine"
\* (update_postmortem).
ApprovedIsClosed ==
    [][\A p \in Postmortems :
        postmortems[p] # NoRow /\ postmortems[p].status \in Reviewed
        => postmortems'[p] = postmortems[p]]_vars

\* The reviews of PostmortemReview, as the tables show them.
Reviews == [i \in Incidents |->
    IF PostmortemsOf(i) = {} THEN [status |-> "none"]
    ELSE LET p == CHOOSE q \in PostmortemsOf(i) : TRUE
         IN [status |-> postmortems[p].status, text |-> postmortems[p].text]]

Review == INSTANCE PostmortemReview WITH review <- Reviews

\* What happens to postmortems that no two requests were writing at once is what
\* PostmortemReview allows of their incident: one postmortem, edited under review, closed by its
\* approval (create_postmortem, update_postmortem, approve_postmortem).
UnracedIsReviewed ==
    /\ Review!Init
    /\ [][\A i \in Incidents : <<"postmortems", i>> \notin raced' =>
             Review!Step(i) \/ Reviews'[i] = Reviews[i]]_vars
=============================================================================
