CONSTANTS
    x1 = x1
    x2 = x2
\* IncidentLifecycle
    Incidents = {i1}
    Postmortems = {p1, p2}
    Texts = {x1, x2}
    Requests = {r1, r2}
    NoRow = NoRow
    Absent = Absent
\* KnowledgeDocuments
    Documents = {d1}
    Words = {x1, x2, empty}
    EmptyText = empty
    Handlers = {h1, h2, h3}
    NoDoc = NoDoc
    Unsent = Unsent
    MaxVersion = 3
SPECIFICATION MCSpec
SYMMETRY Symmetry
\* The editing of a document ends at MaxVersion.
CHECK_DEADLOCK FALSE
INVARIANTS
    TypeOK
    NothingApprovedUnreviewed
    DraftedOnceResolved
    ResolvedAtReflectsStatus
    DocumentsTypeOK
    SearchedWasPublished
    IndexMatchesDocument
    VersionCountsEdits
PROPERTIES
    UnracedIsReviewed
    LifeIsFollowed
