---------------------- MODULE IncidentLifecycleProofs ----------------------
(***************************************************************************)
(* Proofs about IncidentLifecycle, for any incidents, postmortems, texts   *)
(* and overlapping requests.                                               *)
(***************************************************************************)
EXTENDS IncidentLifecycle, TLAPS

\* The row of an incident that is to be inserted, or to be updated from what was
\* loaded, which is what the row holds unless another request wrote it since.
WritesIncident(h) ==
    /\ h.on \in Incidents /\ h.new \in IncidentRow
    /\ h.new.resolved_at <=> h.new.status \in Done
    /\ h.old = NoRow => incidents[h.on] = NoRow
    /\ h.old # NoRow => /\ h.old \in IncidentRow /\ incidents[h.on] # NoRow
                        /\ <<"incidents", h.on>> \in raced \/ h.old = incidents[h.on]

\* A draft that is to be inserted: of an incident that was resolved, and that has
\* no postmortem, unless another request inserted one since.
InsertsPostmortem(h) ==
    /\ postmortems[h.on] = NoRow
    /\ h.new.status = "draft" /\ h.new.incident \in everResolved
    /\ <<"postmortems", h.new.incident>> \in raced \/ PostmortemsOf(h.new.incident) = {}

\* A postmortem that is to be updated from an editable row: its reviewer is never
\* taken away, and an approval names one.
UpdatesPostmortem(h) ==
    /\ h.old \in PostmortemRow /\ h.old.status \in Editable
    /\ postmortems[h.on] # NoRow
    /\ h.new.incident = h.old.incident /\ postmortems[h.on].incident = h.old.incident
    /\ h.old.reviewed_by => h.new.reviewed_by /\ postmortems[h.on].reviewed_by
    /\ h.new.status \in Reviewed => h.new.status = "approved" /\ h.new.reviewed_by /\ h.new.text = h.old.text
    /\ <<"postmortems", h.old.incident>> \in raced \/ h.old = postmortems[h.on]

\* What an open request can rely on.
Holds(h) ==
    /\ h.pc = "drafting" => h.table = "postmortems" /\ h.on \in everResolved
    /\ h.pc = "writing" /\ h.table = "incidents" => WritesIncident(h)
    /\ h.pc = "writing" /\ h.table = "postmortems" =>
           /\ h.on \in Postmortems /\ h.new \in PostmortemRow
           /\ h.old = NoRow => InsertsPostmortem(h)
           /\ h.old # NoRow => UpdatesPostmortem(h)

Inserts(h) == h.pc = "writing" /\ h.old = NoRow

\* No two open requests insert one row.
InsertsDistinct ==
    \A r, q \in Requests : r # q /\ Inserts(req[r]) /\ Inserts(req[q]) => req[r].on # req[q].on

DoneWasResolved ==
    \A i \in Incidents : incidents[i] # NoRow /\ incidents[i].status \in Done => i \in everResolved

\* An unraced incident has one postmortem at most.
OnePostmortem ==
    \A p, q \in Postmortems :
        /\ postmortems[p] # NoRow /\ postmortems[q] # NoRow
        /\ postmortems[p].incident = postmortems[q].incident
        /\ <<"postmortems", postmortems[p].incident>> \notin raced
        => p = q

\* The inductive invariant.
IInv ==
    /\ TypeOK
    /\ \A r \in Requests : Holds(req[r])
    /\ InsertsDistinct /\ DoneWasResolved /\ OnePostmortem
    /\ NothingApprovedUnreviewed /\ DraftedOnceResolved /\ ResolvedAtReflectsStatus

-----------------------------------------------------------------------------
LEMMA MergedIncident ==
    ASSUME NEW current \in IncidentRow, NEW old \in IncidentRow, NEW new \in IncidentRow
    PROVE  /\ Merged(current, old, new) \in IncidentRow
           /\ current = old => Merged(current, old, new) = new
BY DEF Merged, IncidentRow

LEMMA MergedPostmortem ==
    ASSUME NEW current \in PostmortemRow, NEW old \in PostmortemRow, NEW new \in PostmortemRow
    PROVE  LET merged == Merged(current, old, new) IN
           /\ merged \in PostmortemRow
           /\ merged.status = IF new.status # old.status THEN new.status ELSE current.status
           /\ merged.incident = IF new.incident # old.incident THEN new.incident ELSE current.incident
           /\ merged.reviewed_by = IF new.reviewed_by # old.reviewed_by THEN new.reviewed_by ELSE current.reviewed_by
           /\ current = old => merged = new
BY DEF Merged, PostmortemRow

-----------------------------------------------------------------------------
\* An incident that no two requests wrote at once moves as a review may.
ReviewedSteps ==
    \A i \in Incidents : <<"postmortems", i>> \notin raced' => Review!Step(i) \/ Reviews'[i] = Reviews[i]

tables == <<incidents, postmortems, everResolved, raced>>

LEMMA IdleRequest == Idle \in Request /\ Holds(Idle) /\ ~Inserts(Idle)
BY DEF Idle, Request, Holds, Inserts

LEMMA InitOK == Init => IInv /\ Review!Init
<1> SUFFICES ASSUME Init PROVE IInv /\ Review!Init
  OBVIOUS
<1>1. TypeOK /\ \A r \in Requests : Holds(req[r]) /\ ~Inserts(req[r])
  BY IdleRequest DEF Init, TypeOK
<1>2. InsertsDistinct /\ DoneWasResolved /\ OnePostmortem
  BY <1>1 DEF Init, InsertsDistinct, DoneWasResolved, OnePostmortem
<1>3. NothingApprovedUnreviewed /\ DraftedOnceResolved /\ ResolvedAtReflectsStatus
  BY DEF Init, NothingApprovedUnreviewed, DraftedOnceResolved, ResolvedAtReflectsStatus
<1>4. Review!Init
  BY DEF Init, Review!Init, Review!None, Reviews, PostmortemsOf
<1> QED
  BY <1>1, <1>2, <1>3, <1>4 DEF IInv

\* A step that only changes what request r is about to do.
LEMMA RequestStep ==
    ASSUME IInv, NEW r \in Requests, NEW h \in Request, Holds(h),
           req' = [req EXCEPT ![r] = h], tables' = tables,
           Inserts(h) => \A q \in Requests \ {r} : Inserts(req[q]) => req[q].on # h.on
    PROVE  IInv' /\ ReviewedSteps
<1>1. /\ req \in [Requests -> Request] /\ req'[r] = h
      /\ \A q \in Requests \ {r} : req'[q] = req[q]
  BY DEF IInv, TypeOK
<1>2. TypeOK'
  BY DEF IInv, TypeOK, tables
<1>3. ASSUME NEW q \in Requests PROVE Holds(req[q])'
  <2>1. Holds(req'[q])
    BY <1>1 DEF IInv
  <2> QED
    BY <2>1 DEF Holds, WritesIncident, InsertsPostmortem, UpdatesPostmortem, PostmortemsOf, tables
<1>4. InsertsDistinct'
  <2> SUFFICES ASSUME NEW a \in Requests, NEW b \in Requests, a # b, Inserts(req'[a]), Inserts(req'[b])
               PROVE  req'[a].on # req'[b].on
    BY DEF InsertsDistinct, Inserts
  <2> QED
    BY <1>1 DEF IInv, InsertsDistinct
<1>5. DoneWasResolved' /\ OnePostmortem'
  BY DEF IInv, DoneWasResolved, OnePostmortem, tables
<1>6. NothingApprovedUnreviewed' /\ DraftedOnceResolved' /\ ResolvedAtReflectsStatus'
  BY DEF IInv, NothingApprovedUnreviewed, DraftedOnceResolved, ResolvedAtReflectsStatus, tables
<1>7. ReviewedSteps
  BY DEF ReviewedSteps, Reviews, PostmortemsOf, tables
<1> QED
  BY <1>2, <1>3, <1>4, <1>5, <1>6, <1>7 DEF IInv

\* What a fresh id is to the requests that are open.
LEMMA FreshId ==
    ASSUME NEW table, NEW id, Fresh(table, id)
    PROVE  table[id] = NoRow /\ \A q \in Requests : Inserts(req[q]) => req[q].on # id
BY DEF Fresh, Inserts

LEMMA CreateIncidentStep ==
    ASSUME IInv, NEW r \in Requests, NEW i \in Incidents, CreateIncident(r, i)
    PROVE  IInv' /\ ReviewedSteps
<1> DEFINE h == [pc |-> "writing", table |-> "incidents", on |-> i, old |-> NoRow,
                 new |-> [status |-> "open", resolved_at |-> FALSE]]
<1>1. h \in Request /\ h.on = i
  BY DEF Request, IncidentRow, Statuses
<1>2. incidents[i] = NoRow /\ \A q \in Requests : Inserts(req[q]) => req[q].on # i
  BY FreshId DEF CreateIncident
<1>3. Holds(h)
  BY <1>2 DEF Holds, WritesIncident, IncidentRow, Statuses, Done
<1>4. req' = [req EXCEPT ![r] = h] /\ tables' = tables
  BY DEF CreateIncident, Write, tables
<1> HIDE DEF h
<1> QED
  BY <1>1, <1>2, <1>3, <1>4, RequestStep

LEMMA UpdateIncidentStep ==
    ASSUME IInv, NEW r \in Requests, NEW i \in Incidents, NEW status \in Statuses,
           UpdateIncident(r, i, status)
    PROVE  IInv' /\ ReviewedSteps
<1> DEFINE new == [status |-> status, resolved_at |-> ResolvedAt(status)]
           h == [pc |-> "writing", table |-> "incidents", on |-> i, old |-> incidents[i], new |-> new]
<1>1. new \in IncidentRow /\ (new.resolved_at <=> new.status \in Done)
  <2>1. ResolvedAt(status) \in BOOLEAN
    BY DEF ResolvedAt
  <2> QED
    BY <2>1 DEF IncidentRow, ResolvedAt
<1>2. incidents[i] \in IncidentRow /\ incidents[i] # NoRow
  BY DEF UpdateIncident, IInv, TypeOK
<1>3. req' = [req EXCEPT ![r] = h] /\ tables' = tables
  BY DEF UpdateIncident, Write, tables
<1> HIDE DEF new
<1>4. h \in Request /\ Holds(h) /\ ~Inserts(h)
  BY <1>1, <1>2 DEF Request, Holds, WritesIncident, Inserts
<1> HIDE DEF h
<1> QED
  BY <1>3, <1>4, RequestStep

LEMMA TriggerGenerationStep ==
    ASSUME IInv, NEW r \in Requests, NEW i \in Incidents, TriggerGeneration(r, i)
    PROVE  IInv' /\ ReviewedSteps
<1> DEFINE h == [Idle EXCEPT !.pc = "drafting", !.table = "postmortems", !.on = i]
<1>1. h \in Request /\ ~Inserts(h)
  BY DEF Idle, Request, Inserts
<1>2. i \in everResolved
  BY DEF TriggerGeneration, IInv, DoneWasResolved
<1>3. Holds(h)
  BY <1>2 DEF Holds, Idle
<1>4. req' = [req EXCEPT ![r] = h] /\ tables' = tables
  BY DEF TriggerGeneration, tables
<1> HIDE DEF h
<1> QED
  BY <1>1, <1>3, <1>4, RequestStep

LEMMA CreatePostmortemStep ==
    ASSUME IInv, NEW r \in Requests, NEW p \in Postmortems, NEW x \in Texts, CreatePostmortem(r, p, x)
    PROVE  IInv' /\ ReviewedSteps
<1> PICK i : i = req[r].on
  OBVIOUS
<1> DEFINE new == [incident |-> i, status |-> "draft", text |-> x, reviewed_by |-> FALSE]
           h == [pc |-> "writing", table |-> "postmortems", on |-> p, old |-> NoRow, new |-> new]
<1>1. i \in everResolved /\ i \in Incidents /\ PostmortemsOf(i) = {}
  BY DEF CreatePostmortem, IInv, TypeOK, Holds
<1>2. new \in PostmortemRow /\ new.status = "draft" /\ new.incident = i
  BY <1>1 DEF PostmortemRow, Editable
<1>3. postmortems[p] = NoRow /\ \A q \in Requests : Inserts(req[q]) => req[q].on # p
  BY FreshId DEF CreatePostmortem
<1>4. req' = [req EXCEPT ![r] = h] /\ tables' = tables
  BY DEF CreatePostmortem, Write, tables
<1> HIDE DEF new
<1>5. h \in Request /\ h.on = p
  BY <1>2 DEF Request
<1>6. Holds(h)
  BY <1>1, <1>2, <1>3 DEF Holds, InsertsPostmortem
<1> HIDE DEF h
<1> QED
  BY <1>3, <1>4, <1>5, <1>6, RequestStep

\* A request that loaded an editable postmortem is to write new.
LEMMA EditStep ==
    ASSUME IInv, NEW r \in Requests, NEW p \in Postmortems, NEW new \in PostmortemRow,
           postmortems[p] # NoRow, postmortems[p].status \in Editable,
           new.incident = postmortems[p].incident,
           postmortems[p].reviewed_by => new.reviewed_by,
           new.status \in Reviewed => /\ new.status = "approved" /\ new.reviewed_by
                                      /\ new.text = postmortems[p].text,
           Write(r, "postmortems", p, postmortems[p], new)
    PROVE  IInv' /\ ReviewedSteps
<1> DEFINE h == [pc |-> "writing", table |-> "postmortems", on |-> p, old |-> postmortems[p], new |-> new]
<1>1. postmortems[p] \in PostmortemRow
  BY DEF IInv, TypeOK
<1>2. h \in Request /\ Holds(h) /\ ~Inserts(h)
  BY <1>1 DEF Request, Holds, UpdatesPostmortem, Inserts
<1>3. req' = [req EXCEPT ![r] = h] /\ tables' = tables
  BY DEF Write, tables
<1> HIDE DEF h
<1> QED
  BY <1>2, <1>3, RequestStep

LEMMA UpdatePostmortemStep ==
    ASSUME IInv, NEW r \in Requests, NEW p \in Postmortems, NEW status \in Editable \cup {Absent},
           NEW x \in Texts \cup {Absent}, UpdatePostmortem(r, p, status, x)
    PROVE  IInv' /\ ReviewedSteps
<1>1. postmortems[p] \in PostmortemRow /\ postmortems[p] # NoRow /\ postmortems[p].status \in Editable
  BY DEF UpdatePostmortem, IInv, TypeOK
<1>2. PICK s \in Editable, y \in Texts :
          s = (IF status = Absent THEN postmortems[p].status ELSE status)
          /\ y = (IF x = Absent THEN postmortems[p].text ELSE x)
  BY <1>1 DEF PostmortemRow
<1>3. PICK new : new = [postmortems[p] EXCEPT !.status = s, !.text = y]
  OBVIOUS
<1>4. /\ new \in PostmortemRow /\ new.status \notin Reviewed /\ new.incident = postmortems[p].incident
      /\ new.reviewed_by = postmortems[p].reviewed_by
  BY <1>1, <1>3 DEF PostmortemRow, Editable, Reviewed
<1>5. Write(r, "postmortems", p, postmortems[p], new)
  BY <1>1, <1>2, <1>3 DEF UpdatePostmortem, PostmortemRow
<1> QED
  BY <1>1, <1>4, <1>5, EditStep

LEMMA ApprovePostmortemStep ==
    ASSUME IInv, NEW r \in Requests, NEW p \in Postmortems, ApprovePostmortem(r, p)
    PROVE  IInv' /\ ReviewedSteps
<1>1. postmortems[p] \in PostmortemRow /\ postmortems[p] # NoRow /\ postmortems[p].status \in Editable
  BY DEF ApprovePostmortem, IInv, TypeOK
<1>2. PICK new : new = [postmortems[p] EXCEPT !.status = "approved", !.reviewed_by = TRUE]
  OBVIOUS
<1>3. /\ new \in PostmortemRow /\ new.incident = postmortems[p].incident
      /\ new.status = "approved" /\ new.reviewed_by /\ new.text = postmortems[p].text
  BY <1>1, <1>2 DEF PostmortemRow, Reviewed
<1>4. Write(r, "postmortems", p, postmortems[p], new)
  BY <1>2 DEF ApprovePostmortem
<1> QED
  BY <1>1, <1>3, <1>4, EditStep

LEMMA RollbackStep ==
    ASSUME IInv, NEW r \in Requests, Rollback(r)
    PROVE  IInv' /\ ReviewedSteps
BY IdleRequest, RequestStep DEF Rollback, tables

-----------------------------------------------------------------------------
\* A commit closes its request, and sets its subject down as raced if another
\* request was open on it.
LEMMA Closing ==
    ASSUME IInv, NEW r \in Requests, Commit(r), Subject(req[r]) \in {"incidents", "postmortems"} \X Incidents
    PROVE  /\ req'[r] = Idle /\ \A q \in Requests \ {r} : req'[q] = req[q]
           /\ req' \in [Requests -> Request]
           /\ raced \subseteq raced' /\ raced' \subseteq {"incidents", "postmortems"} \X Incidents
           /\ \A q \in Requests \ {r} :
                  req[q].pc # "idle" /\ Subject(req[q]) = Subject(req[r]) => Subject(req[r]) \in raced'
           /\ InsertsDistinct'
<1>1. req' = [req EXCEPT ![r] = Idle]
  BY DEF Commit
<1>2. raced' = IF \E q \in Requests \ {r} : req[q].pc # "idle" /\ Subject(req[q]) = Subject(req[r])
               THEN raced \cup {Subject(req[r])} ELSE raced
  BY DEF Commit
<1>3. /\ req'[r] = Idle /\ \A q \in Requests \ {r} : req'[q] = req[q]
      /\ req' \in [Requests -> Request]
  BY <1>1, IdleRequest DEF IInv, TypeOK
<1>4. InsertsDistinct'
  <2> SUFFICES ASSUME NEW a \in Requests, NEW b \in Requests, a # b, Inserts(req'[a]), Inserts(req'[b])
               PROVE  req'[a].on # req'[b].on
    BY DEF InsertsDistinct, Inserts
  <2> QED
    BY <1>3, IdleRequest DEF IInv, InsertsDistinct
<1>5. raced \subseteq {"incidents", "postmortems"} \X Incidents
  BY DEF IInv, TypeOK
<1> QED
  BY <1>2, <1>3, <1>4, <1>5

\* The commit of a request that writes the row of an incident.
LEMMA CommitIncidentStep ==
    ASSUME IInv, NEW r \in Requests, Commit(r), req[r].table = "incidents"
    PROVE  IInv' /\ ReviewedSteps
<1> PICK i \in Incidents : i = req[r].on
  BY DEF IInv, Holds, WritesIncident, Commit
<1>1. req[r].pc = "writing" /\ WritesIncident(req[r])
  BY DEF IInv, Holds, Commit
<1>2. Subject(req[r]) = <<"incidents", i>>
  BY DEF Subject
<1>3. /\ req'[r] = Idle /\ \A q \in Requests \ {r} : req'[q] = req[q]
      /\ req' \in [Requests -> Request]
      /\ raced \subseteq raced' /\ raced' \subseteq {"incidents", "postmortems"} \X Incidents
      /\ \A q \in Requests \ {r} :
             req[q].pc # "idle" /\ Subject(req[q]) = Subject(req[r]) => <<"incidents", i>> \in raced'
      /\ InsertsDistinct'
  BY <1>2, Closing
<1>4. PICK row : row = Written(req[r], incidents[i])
  OBVIOUS
<1>5. /\ row \in IncidentRow
      /\ <<"incidents", i>> \notin raced' => (row.resolved_at <=> row.status \in Done)
  <2>1. CASE req[r].old = NoRow
    BY <1>1, <1>4, <2>1 DEF Written, WritesIncident
  <2>2. CASE req[r].old # NoRow
    <3>1. req[r].old \in IncidentRow /\ req[r].new \in IncidentRow /\ incidents[i] \in IncidentRow
      BY <1>1, <2>2 DEF WritesIncident, IInv, TypeOK
    <3>2. row = Merged(incidents[i], req[r].old, req[r].new)
      BY <1>4, <2>2 DEF Written
    <3>3. row \in IncidentRow /\ (incidents[i] = req[r].old => row = req[r].new)
      BY <3>1, <3>2, MergedIncident
    <3> QED
      BY <1>1, <1>3, <2>2, <3>3 DEF WritesIncident
  <2> QED
    BY <2>1, <2>2
<1>6. /\ incidents' = [incidents EXCEPT ![i] = row]
      /\ everResolved' = everResolved \cup {j \in Incidents : j = i /\ incidents'[j].status \in Done}
      /\ postmortems' = postmortems
  BY <1>4 DEF Commit
<1>7. /\ incidents' \in [Incidents -> IncidentRow \cup {NoRow}] /\ incidents'[i] = row
      /\ \A j \in Incidents \ {i} : incidents'[j] = incidents[j]
      /\ row # NoRow
  BY <1>5, <1>6, NullsAreFresh DEF IInv, TypeOK
<1>8. everResolved \subseteq everResolved' /\ everResolved' \subseteq Incidents
  BY <1>6 DEF IInv, TypeOK
<1>9. TypeOK'
  BY <1>3, <1>6, <1>7, <1>8 DEF IInv, TypeOK
<1>10. ASSUME NEW q \in Requests PROVE Holds(req[q])'
  <2> PICK h : h = req'[q]
    OBVIOUS
  <2>1. CASE q = r
    BY <1>3, <2>1 DEF Holds, Idle
  <2>2. CASE q # r
    <3>1. h = req[q] /\ Holds(h)
      BY <1>3, <2>2 DEF IInv
    <3>2. ASSUME WritesIncident(h), h.pc = "writing", h.table = "incidents" PROVE WritesIncident(h)'
      <4>1. CASE h.on = i
        <5>1. Subject(h) = Subject(req[r])
          BY <1>2, <3>2, <4>1 DEF Subject
        <5>2. <<"incidents", i>> \in raced'
          BY <1>3, <2>2, <3>1, <3>2, <5>1
        <5>3. h.old # NoRow
          <6> SUFFICES ASSUME h.old = NoRow PROVE FALSE
            OBVIOUS
          <6>1. incidents[i] = NoRow
            BY <3>2, <4>1 DEF WritesIncident
          <6>2. req[r].old = NoRow
            BY <1>1, <6>1 DEF WritesIncident
          <6> QED
            BY <1>1, <2>2, <3>1, <3>2, <4>1, <6>2 DEF IInv, InsertsDistinct, Inserts
        <5> QED
          BY <1>7, <3>2, <4>1, <5>2, <5>3 DEF WritesIncident
      <4>2. CASE h.on # i
        BY <1>3, <1>7, <3>2, <4>2 DEF WritesIncident
      <4> QED
        BY <4>1, <4>2
    <3>3. ASSUME InsertsPostmortem(h) PROVE InsertsPostmortem(h)'
      BY <1>3, <1>6, <1>8, <3>3 DEF InsertsPostmortem, PostmortemsOf
    <3>4. ASSUME UpdatesPostmortem(h) PROVE UpdatesPostmortem(h)'
      BY <1>3, <1>6, <3>4 DEF UpdatesPostmortem
    <3>5. Holds(h)'
      BY <1>8, <3>1, <3>2, <3>3, <3>4 DEF Holds
    <3> QED
      BY <3>5 DEF Holds, WritesIncident, InsertsPostmortem, UpdatesPostmortem, PostmortemsOf
  <2> QED
    BY <2>1, <2>2
<1>11. DoneWasResolved'
  BY <1>6, <1>7 DEF IInv, DoneWasResolved
<1>12. ResolvedAtReflectsStatus'
  BY <1>3, <1>5, <1>7 DEF IInv, ResolvedAtReflectsStatus
<1>13. OnePostmortem' /\ NothingApprovedUnreviewed' /\ DraftedOnceResolved'
  BY <1>3, <1>6, <1>8 DEF IInv, OnePostmortem, NothingApprovedUnreviewed, DraftedOnceResolved
<1>14. ReviewedSteps
  BY <1>6 DEF ReviewedSteps, Reviews, PostmortemsOf
<1> QED
  BY <1>3, <1>9, <1>10, <1>11, <1>12, <1>13, <1>14 DEF IInv

\* A row is its columns.
LEMMA SameRow ==
    ASSUME NEW a \in PostmortemRow, NEW b \in PostmortemRow, a.incident = b.incident,
           a.status = b.status, a.text = b.text, a.reviewed_by = b.reviewed_by
    PROVE  a = b
<1>1. a = [incident |-> a.incident, status |-> a.status, text |-> a.text, reviewed_by |-> a.reviewed_by]
  BY DEF PostmortemRow
<1>2. b = [incident |-> b.incident, status |-> b.status, text |-> b.text, reviewed_by |-> b.reviewed_by]
  BY DEF PostmortemRow
<1> QED
  BY <1>1, <1>2

\* The row that a request writes to postmortem p of incident i.
PostmortemCommit(r, p, i, row) ==
    /\ row \in PostmortemRow /\ row.incident = i /\ i \in everResolved
    /\ row.status \in Reviewed => row.reviewed_by
    /\ postmortems' = [postmortems EXCEPT ![p] = row]
    /\ UNCHANGED <<incidents, everResolved>>
    /\ postmortems[p] = NoRow => Inserts(req[r])
    /\ postmortems[p] # NoRow => /\ postmortems[p].incident = i
                                 /\ postmortems[p].reviewed_by => row.reviewed_by
    /\ Subject(req[r]) = <<"postmortems", i>>
    /\ <<"postmortems", i>> \notin raced =>
           \/ /\ postmortems[p] = NoRow /\ PostmortemsOf(i) = {}
              /\ row.status = "draft"
           \/ /\ postmortems[p] # NoRow /\ postmortems[p].status \in Editable
              /\ row.status \in Reviewed => row = [postmortems[p] EXCEPT !.status = "approved", !.reviewed_by = TRUE]

LEMMA PostmortemWritten ==
    ASSUME IInv, NEW r \in Requests, Commit(r), req[r].table = "postmortems"
    PROVE  \E p \in Postmortems, i \in Incidents, row \in PostmortemRow :
               p = req[r].on /\ PostmortemCommit(r, p, i, row)
<1> PICK h : h = req[r]
  OBVIOUS
<1>1. /\ h.pc = "writing" /\ h.table = "postmortems" /\ h.on \in Postmortems /\ h.new \in PostmortemRow
      /\ h.old = NoRow => InsertsPostmortem(h)
      /\ h.old # NoRow => UpdatesPostmortem(h)
  BY DEF Commit, IInv, Holds
<1> PICK p \in Postmortems : p = h.on
  BY <1>1
<1>2. /\ postmortems' = [postmortems EXCEPT ![p] = Written(h, postmortems[p])]
      /\ UNCHANGED <<incidents, everResolved>>
  BY <1>1 DEF Commit
<1>3. CASE h.old = NoRow
  <2>1. h.new.incident \in Incidents
    BY <1>1 DEF PostmortemRow
  <2>2. Written(h, postmortems[p]) = h.new /\ Subject(h) = <<"postmortems", h.new.incident>>
    BY <1>1, <1>3 DEF Written, Subject
  <2>3. InsertsPostmortem(h) /\ Inserts(h) /\ postmortems[p] = NoRow
    BY <1>1, <1>3 DEF InsertsPostmortem, Inserts
  <2>4. PostmortemCommit(r, p, h.new.incident, h.new)
    BY <1>1, <1>2, <2>2, <2>3 DEF PostmortemCommit, InsertsPostmortem, Reviewed
  <2> QED
    BY <1>1, <2>1, <2>4
<1>4. CASE h.old # NoRow
  <2>1. UpdatesPostmortem(h) /\ h.old \in PostmortemRow /\ postmortems[p] \in PostmortemRow
        /\ postmortems[p] # NoRow
    BY <1>1, <1>4 DEF UpdatesPostmortem, IInv, TypeOK
  <2> PICK i \in Incidents : i = h.old.incident
    BY <2>1 DEF PostmortemRow
  <2> PICK row : row = Merged(postmortems[p], h.old, h.new)
    OBVIOUS
  <2>2. /\ row \in PostmortemRow
        /\ row.status = IF h.new.status # h.old.status THEN h.new.status ELSE postmortems[p].status
        /\ row.incident = IF h.new.incident # h.old.incident THEN h.new.incident ELSE postmortems[p].incident
        /\ row.reviewed_by = IF h.new.reviewed_by # h.old.reviewed_by THEN h.new.reviewed_by
                             ELSE postmortems[p].reviewed_by
        /\ postmortems[p] = h.old => row = h.new
    BY <1>1, <2>1, MergedPostmortem
  <2>3. postmortems' = [postmortems EXCEPT ![p] = row] /\ Subject(h) = <<"postmortems", i>>
    BY <1>1, <1>2, <1>4 DEF Written, Subject
  <2>4. row.incident = i /\ postmortems[p].incident = i /\ i \in everResolved
    BY <2>1, <2>2 DEF UpdatesPostmortem, IInv, DraftedOnceResolved
  <2>5. postmortems[p].reviewed_by => row.reviewed_by
    BY <1>1, <2>1, <2>2 DEF UpdatesPostmortem, PostmortemRow
  <2>6. row.status \in Reviewed => row.reviewed_by
    <3>1. CASE h.new.status # h.old.status
      BY <1>1, <2>1, <2>2, <3>1 DEF UpdatesPostmortem, PostmortemRow
    <3>2. CASE h.new.status = h.old.status
      BY <2>1, <2>2, <2>5, <3>2 DEF IInv, NothingApprovedUnreviewed
    <3> QED
      BY <3>1, <3>2
  <2>7. ASSUME <<"postmortems", i>> \notin raced
        PROVE  /\ postmortems[p].status \in Editable
               /\ row.status \in Reviewed =>
                      row = [postmortems[p] EXCEPT !.status = "approved", !.reviewed_by = TRUE]
    <3>1. postmortems[p] = h.old /\ row = h.new /\ h.old.status \in Editable
      BY <2>1, <2>2, <2>7 DEF UpdatesPostmortem
    <3>2. ASSUME row.status \in Reviewed
          PROVE  row = [postmortems[p] EXCEPT !.status = "approved", !.reviewed_by = TRUE]
      <4>1. /\ row.status = "approved" /\ row.reviewed_by /\ row.text = postmortems[p].text
            /\ row.incident = postmortems[p].incident
        BY <2>1, <3>1, <3>2 DEF UpdatesPostmortem
      <4>2. row.reviewed_by = TRUE
        BY <2>2, <4>1 DEF PostmortemRow
      <4> PICK approved : approved = [postmortems[p] EXCEPT !.status = "approved", !.reviewed_by = TRUE]
        OBVIOUS
      <4>3. /\ approved \in PostmortemRow /\ approved.status = "approved" /\ approved.reviewed_by = TRUE
            /\ approved.text = postmortems[p].text /\ approved.incident = postmortems[p].incident
        BY <2>1 DEF PostmortemRow, Reviewed
      <4>4. row = approved
        <5>1. row \in PostmortemRow /\ approved \in PostmortemRow
          BY <2>2, <4>3
        <5>2. row.incident = approved.incident /\ row.status = approved.status /\ row.text = approved.text
          BY <4>1, <4>3
        <5>3. row.reviewed_by = approved.reviewed_by
          BY <4>2, <4>3
        <5> QED
          BY <5>1, <5>2, <5>3, SameRow
      <4> QED
        BY <4>4
    <3> QED
      BY <3>1, <3>2
  <2>8. PostmortemCommit(r, p, i, row)
    BY <1>2, <2>1, <2>2, <2>3, <2>4, <2>5, <2>6, <2>7 DEF PostmortemCommit
  <2> QED
    BY <2>2, <2>8
<1> QED
  BY <1>3, <1>4

LEMMA CommitPostmortemStep ==
    ASSUME IInv, NEW r \in Requests, Commit(r), req[r].table = "postmortems"
    PROVE  IInv' /\ ReviewedSteps
<1> PICK p \in Postmortems, i \in Incidents, row \in PostmortemRow :
        p = req[r].on /\ PostmortemCommit(r, p, i, row)
  BY PostmortemWritten
<1>1. /\ req'[r] = Idle /\ \A q \in Requests \ {r} : req'[q] = req[q]
      /\ req' \in [Requests -> Request]
      /\ raced \subseteq raced' /\ raced' \subseteq {"incidents", "postmortems"} \X Incidents
      /\ \A q \in Requests \ {r} :
             req[q].pc # "idle" /\ Subject(req[q]) = <<"postmortems", i>> => <<"postmortems", i>> \in raced'
      /\ InsertsDistinct'
  BY Closing DEF PostmortemCommit
<1>2. /\ postmortems' \in [Postmortems -> PostmortemRow \cup {NoRow}]
      /\ postmortems'[p] = row /\ row # NoRow
      /\ \A q \in Postmortems \ {p} : postmortems'[q] = postmortems[q]
      /\ incidents' = incidents /\ everResolved' = everResolved
  BY NullsAreFresh DEF PostmortemCommit, IInv, TypeOK
<1>3. TypeOK'
  BY <1>1, <1>2 DEF IInv, TypeOK
<1>4. \A j \in Incidents \ {i} : PostmortemsOf(j)' = PostmortemsOf(j) /\ p \notin PostmortemsOf(j)
  <2> SUFFICES ASSUME NEW j \in Incidents \ {i}
               PROVE  PostmortemsOf(j)' = PostmortemsOf(j) /\ p \notin PostmortemsOf(j)
    OBVIOUS
  <2>1. p \notin PostmortemsOf(j) /\ p \notin PostmortemsOf(j)'
    BY <1>2 DEF PostmortemsOf, PostmortemCommit
  <2>2. \A q \in Postmortems \ {p} : q \in PostmortemsOf(j)' <=> q \in PostmortemsOf(j)
    BY <1>2 DEF PostmortemsOf
  <2>3. PostmortemsOf(j) \subseteq Postmortems /\ PostmortemsOf(j)' \subseteq Postmortems
    BY DEF PostmortemsOf
  <2> QED
    BY <2>1, <2>2, <2>3
<1>5. ASSUME NEW q \in Requests PROVE Holds(req[q])'
  <2> PICK h : h = req'[q]
    OBVIOUS
  <2>1. CASE q = r
    BY <1>1, <2>1 DEF Holds, Idle
  <2>2. CASE q # r
    <3>1. h = req[q] /\ Holds(h)
      BY <1>1, <2>2 DEF IInv
    <3>2. ASSUME WritesIncident(h) PROVE WritesIncident(h)'
      BY <1>1, <1>2, <3>2 DEF WritesIncident
    <3>3. ASSUME h.pc = "writing", h.table = "postmortems", h.new \in PostmortemRow, h.old = NoRow,
                 InsertsPostmortem(h)
          PROVE  InsertsPostmortem(h)'
      <4>1. h.on # p
        <5>1. CASE postmortems[p] = NoRow
          BY <2>2, <3>1, <3>3, <5>1 DEF PostmortemCommit, IInv, InsertsDistinct, Inserts
        <5>2. CASE postmortems[p] # NoRow
          BY <3>3, <5>2 DEF InsertsPostmortem
        <5> QED
          BY <5>1, <5>2
      <4>2. h.new.incident \in Incidents
        BY <3>3 DEF PostmortemRow
      <4>3. CASE h.new.incident = i
        <5>1. Subject(h) = <<"postmortems", i>>
          BY <3>3, <4>3 DEF Subject
        <5>2. <<"postmortems", i>> \in raced'
          BY <1>1, <2>2, <3>1, <3>3, <5>1
        <5>3. postmortems'[h.on] = NoRow
          <6>1. CASE h.on \in Postmortems
            BY <1>2, <3>3, <4>1, <6>1 DEF InsertsPostmortem
          <6> QED
            BY <3>1, <3>3, <6>1 DEF Holds
        <5> QED
          BY <1>2, <3>3, <4>3, <5>2, <5>3 DEF InsertsPostmortem
      <4>4. CASE h.new.incident # i
        <5>1. h.on \in Postmortems
          BY <3>1, <3>3 DEF Holds
        <5>2. postmortems'[h.on] = NoRow
          BY <1>2, <3>3, <4>1, <5>1 DEF InsertsPostmortem
        <5>3. PostmortemsOf(h.new.incident)' = PostmortemsOf(h.new.incident)
          BY <1>4, <4>2, <4>4
        <5> QED
          BY <1>1, <1>2, <3>3, <5>2, <5>3 DEF InsertsPostmortem
      <4> QED
        BY <4>3, <4>4
    <3>4. ASSUME h.pc = "writing", h.table = "postmortems", h.on \in Postmortems, h.old # NoRow,
                 UpdatesPostmortem(h)
          PROVE  UpdatesPostmortem(h)'
      <4>1. CASE h.on = p
        <5>1. h.old.incident = i /\ postmortems[p] # NoRow
          BY <3>4, <4>1 DEF UpdatesPostmortem, PostmortemCommit
        <5>2. Subject(h) = <<"postmortems", i>>
          BY <3>4, <5>1 DEF Subject
        <5>3. <<"postmortems", i>> \in raced'
          BY <1>1, <2>2, <3>1, <3>4, <5>2
        <5>4. row.incident = i /\ (postmortems[p].reviewed_by => row.reviewed_by)
          BY <5>1 DEF PostmortemCommit
        <5> QED
          BY <1>2, <3>4, <4>1, <5>1, <5>3, <5>4 DEF UpdatesPostmortem
      <4>2. CASE h.on # p
        BY <1>1, <1>2, <3>4, <4>2 DEF UpdatesPostmortem
      <4> QED
        BY <4>1, <4>2
    <3>5. Holds(h)'
      BY <1>2, <3>1, <3>2, <3>3, <3>4 DEF Holds
    <3> QED
      BY <3>5 DEF Holds, WritesIncident, InsertsPostmortem, UpdatesPostmortem, PostmortemsOf
  <2> QED
    BY <2>1, <2>2
<1>6. <<"postmortems", i>> \notin raced' => PostmortemsOf(i)' = {p} /\ PostmortemsOf(i) \subseteq {p}
  <2> SUFFICES ASSUME <<"postmortems", i>> \notin raced'
               PROVE  PostmortemsOf(i)' = {p} /\ PostmortemsOf(i) \subseteq {p}
    OBVIOUS
  <2>1. PostmortemsOf(i) \subseteq {p}
    <3>1. <<"postmortems", i>> \notin raced
      BY <1>1
    <3>2. CASE postmortems[p] = NoRow
      BY <3>1, <3>2 DEF PostmortemCommit
    <3>3. CASE postmortems[p] # NoRow
      BY <3>1, <3>3 DEF PostmortemCommit, PostmortemsOf, IInv, OnePostmortem
    <3> QED
      BY <3>2, <3>3
  <2>2. p \in PostmortemsOf(i)'
    BY <1>2 DEF PostmortemsOf, PostmortemCommit
  <2>3. \A q \in PostmortemsOf(i)' : q = p
    BY <1>2, <2>1 DEF PostmortemsOf
  <2> QED
    BY <2>1, <2>2, <2>3
<1>7. OnePostmortem'
  <2> SUFFICES ASSUME NEW a \in Postmortems, NEW b \in Postmortems,
                      postmortems'[a] # NoRow, postmortems'[b] # NoRow,
                      postmortems'[a].incident = postmortems'[b].incident,
                      <<"postmortems", postmortems'[a].incident>> \notin raced'
               PROVE  a = b
    BY DEF OnePostmortem
  <2>1. CASE postmortems'[a].incident = i
    <3>1. a \in PostmortemsOf(i)' /\ b \in PostmortemsOf(i)'
      BY <2>1 DEF PostmortemsOf
    <3>2. PostmortemsOf(i)' = {p}
      BY <1>6, <2>1
    <3> QED
      BY <3>1, <3>2
  <2>2. CASE postmortems'[a].incident # i
    <3>1. row.incident = i
      BY DEF PostmortemCommit
    <3>2. a # p /\ b # p
      BY <1>2, <2>2, <3>1
    <3> QED
      BY <1>1, <1>2, <3>2 DEF IInv, OnePostmortem
  <2> QED
    BY <2>1, <2>2
<1>8. NothingApprovedUnreviewed' /\ DraftedOnceResolved'
  BY <1>2 DEF IInv, NothingApprovedUnreviewed, DraftedOnceResolved, PostmortemCommit
<1>9. DoneWasResolved' /\ ResolvedAtReflectsStatus'
  BY <1>1, <1>2 DEF IInv, DoneWasResolved, ResolvedAtReflectsStatus
<1>10. \A j \in Incidents \ {i} : Reviews'[j] = Reviews[j]
  <2> SUFFICES ASSUME NEW j \in Incidents \ {i} PROVE Reviews'[j] = Reviews[j]
    OBVIOUS
  <2>1. CASE PostmortemsOf(j) = {}
    BY <1>4, <2>1 DEF Reviews
  <2>2. CASE PostmortemsOf(j) # {}
    <3> PICK q : q = CHOOSE o \in PostmortemsOf(j) : TRUE
      OBVIOUS
    <3>1. q \in PostmortemsOf(j) /\ q \in Postmortems \ {p}
      BY <1>4, <2>2 DEF PostmortemsOf
    <3>2. Reviews[j] = [status |-> postmortems[q].status, text |-> postmortems[q].text]
      BY <2>2 DEF Reviews
    <3>3. Reviews'[j] = [status |-> postmortems'[q].status, text |-> postmortems'[q].text]
      BY <1>4, <2>2 DEF Reviews
    <3> QED
      BY <1>2, <3>1, <3>2, <3>3
  <2> QED
    BY <2>1, <2>2
<1>11. ASSUME <<"postmortems", i>> \notin raced' PROVE Review!Step(i)
  <2>1. <<"postmortems", i>> \notin raced /\ PostmortemsOf(i)' = {p} /\ PostmortemsOf(i) \subseteq {p}
    BY <1>1, <1>6, <1>11
  <2>2. Reviews'[i] = [status |-> row.status, text |-> row.text]
    <3>1. (CHOOSE q \in {p} : TRUE) = p
      OBVIOUS
    <3>2. Reviews'[i] = [status |-> postmortems'[p].status, text |-> postmortems'[p].text]
      BY <2>1, <3>1 DEF Reviews
    <3> QED
      BY <1>2, <3>2
  <2>3. Reviews' = [Reviews EXCEPT ![i] = [status |-> row.status, text |-> row.text]]
    <3>1. Reviews = [j \in Incidents |-> Reviews[j]] /\ Reviews' = [j \in Incidents |-> Reviews'[j]]
      BY DEF Reviews
    <3> QED
      BY <1>10, <2>2, <3>1
  <2>4. row.text \in Texts
    BY DEF PostmortemRow
  <2>5. CASE postmortems[p] = NoRow
    <3>1. row.status = "draft" /\ PostmortemsOf(i) = {}
      BY <2>1, <2>5 DEF PostmortemCommit
    <3>2. Reviews[i] = Review!None
      BY <3>1 DEF Reviews, Review!None
    <3>3. Review!Draft(i, row.text)
      BY <2>3, <3>1, <3>2 DEF Review!Draft
    <3> QED
      BY <2>4, <3>3 DEF Review!Step
  <2>6. CASE postmortems[p] # NoRow
    <3>1. /\ postmortems[p].status \in Editable /\ postmortems[p] \in PostmortemRow
          /\ row.status \in Reviewed =>
                 row = [postmortems[p] EXCEPT !.status = "approved", !.reviewed_by = TRUE]
      BY <2>1, <2>6 DEF PostmortemCommit, IInv, TypeOK
    <3>2. PostmortemsOf(i) = {p}
      BY <2>1, <2>6 DEF PostmortemCommit, PostmortemsOf
    <3>3. Reviews[i] = [status |-> postmortems[p].status, text |-> postmortems[p].text]
      <4>1. (CHOOSE q \in {p} : TRUE) = p
        OBVIOUS
      <4> QED
        BY <3>2, <4>1 DEF Reviews
    <3>4. Reviews[i] \in Review!Drafts
      BY <3>1, <3>3 DEF Review!Drafts, Review!Open, Editable, PostmortemRow
    <3>5. CASE row.status \in Reviewed
      <4>1. row.status = "approved" /\ row.text = postmortems[p].text
        BY <3>1, <3>5 DEF PostmortemRow
      <4>2. Reviews' = [Reviews EXCEPT ![i].status = "approved"]
        <5>1. [Reviews[i] EXCEPT !.status = "approved"] = [status |-> row.status, text |-> row.text]
          BY <3>3, <4>1
        <5>2. Reviews' = [Reviews EXCEPT ![i] = [Reviews[i] EXCEPT !.status = "approved"]]
          BY <2>3, <5>1
        <5> QED
          BY <5>2
      <4> QED
        BY <3>4, <4>2 DEF Review!Approve, Review!Step
    <3>6. CASE row.status \notin Reviewed
      <4>1. row.status \in Review!Open
        BY <3>6 DEF PostmortemRow, Editable, Reviewed, Review!Open
      <4>2. Review!Edit(i, row.status, row.text)
        BY <2>3, <3>4 DEF Review!Edit
      <4> QED
        BY <2>4, <4>1, <4>2 DEF Review!Step
    <3> QED
      BY <3>5, <3>6
  <2> QED
    BY <2>5, <2>6
<1>12. ReviewedSteps
  BY <1>10, <1>11 DEF ReviewedSteps
<1> QED
  BY <1>1, <1>3, <1>5, <1>7, <1>8, <1>9, <1>12 DEF IInv

\* Every step keeps the invariant, and is a review of each unraced incident.
LEMMA NextOK == IInv /\ [Next]_vars => IInv' /\ ReviewedSteps
<1> SUFFICES ASSUME IInv, [Next]_vars PROVE IInv' /\ ReviewedSteps
  OBVIOUS
<1>1. ASSUME NEW r \in Requests, Commit(r) PROVE IInv' /\ ReviewedSteps
  <2>1. req[r].table \in {"incidents", "postmortems"}
    BY DEF IInv, TypeOK, Request
  <2> QED
    BY <1>1, <2>1, CommitIncidentStep, CommitPostmortemStep
<1>2. CASE UNCHANGED vars
  <2>1. IInv'
    BY <1>2 DEF vars, IInv, TypeOK, Holds, WritesIncident, InsertsPostmortem, UpdatesPostmortem, PostmortemsOf,
       InsertsDistinct, Inserts, DoneWasResolved, OnePostmortem, NothingApprovedUnreviewed, DraftedOnceResolved,
       ResolvedAtReflectsStatus
  <2>2. ReviewedSteps
    BY <1>2 DEF vars, ReviewedSteps, Reviews, PostmortemsOf
  <2> QED
    BY <2>1, <2>2
<1>3. CASE Next
  BY <1>1, <1>3, CreateIncidentStep, UpdateIncidentStep, TriggerGenerationStep, CreatePostmortemStep,
     UpdatePostmortemStep, ApprovePostmortemStep, RollbackStep DEF Next
<1> QED
  BY <1>2, <1>3

LEMMA Invariance == Spec => []IInv
BY InitOK, NextOK, PTL DEF Spec

-----------------------------------------------------------------------------
\* The tables and the open requests stay well formed.
THEOREM TypeCorrect == Spec => []TypeOK
<1>1. IInv => TypeOK
  BY DEF IInv
<1> QED
  BY <1>1, Invariance, PTL

\* Whatever requests overlap, an approved postmortem has its reviewer on it
\* (approve_postmortem).
THEOREM ReviewsAreHuman == Spec => []NothingApprovedUnreviewed
<1>1. IInv => NothingApprovedUnreviewed
  BY DEF IInv
<1> QED
  BY <1>1, Invariance, PTL

\* Whatever requests overlap, no incident has a postmortem that was not resolved
\* first (trigger_postmortem_generation).
THEOREM ResolutionComesFirst == Spec => []DraftedOnceResolved
<1>1. IInv => DraftedOnceResolved
  BY DEF IInv
<1> QED
  BY <1>1, Invariance, PTL

\* resolved_at of an incident that no two requests wrote at once is in step with
\* its status (update_incident).
THEOREM StampIsInStep == Spec => []ResolvedAtReflectsStatus
<1>1. IInv => ResolvedAtReflectsStatus
  BY DEF IInv
<1> QED
  BY <1>1, Invariance, PTL

\* The postmortems of an incident that no two requests write at once follow
\* PostmortemReview, step by step.
THEOREM ReviewIsFollowed == Spec => UnracedIsReviewed
<1>1. IInv /\ [Next]_vars =>
        [\A i \in Incidents : <<"postmortems", i>> \notin raced' =>
             Review!Step(i) \/ Reviews'[i] = Reviews[i]]_vars
  BY NextOK DEF ReviewedSteps
<1>2. Init => Review!Init
  BY InitOK
<1> QED
  BY <1>1, <1>2, Invariance, PTL DEF Spec, UnracedIsReviewed
=============================================================================
