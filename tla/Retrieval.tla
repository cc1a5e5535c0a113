----------------------------- MODULE Retrieval -----------------------------
(***************************************************************************)
(* From the text of a document to the passages a search cites              *)
(* (app/ingestion/processors, app/retrieval): a cleaned text is cut into   *)
(* chunks that carry their offsets, the chunks are stored in their         *)
(* collection, a search ranks those its filters admit in two ways per      *)
(* collection, and fuses the rankings.                                     *)
(*                                                                         *)
(* A text is a sequence of sections, a section a sequence of paragraphs,   *)
(* separated by a blank line, two characters.  A blank paragraph is empty  *)
(* or a single newline.  What the paragraphs say, the embeddings and the   *)
(* scores of the two rankings are left out: each ranks in any order.       *)
(***************************************************************************)
EXTENDS Integers, Sequences, FiniteSets, SequencesExt, Functions

CONSTANTS
    MaxDocuments, \* bound on the documents
    Orgs,        \* organizations.id
    Permissions, \* permission codes
    Repos,       \* repositories
    Incoming,    \* the documents the connectors deliver, cleaned
    MaxChars,    \* _MAX_CHUNK_CHARS
    K,           \* _DEFAULT_K
    TopK,        \* top_k
    Absent         \* no permission, no repository, no document

Collections == {"documentation", "code", "conversations"}
_REPO_SCOPED_COLLECTIONS == {"code", "documentation"}

\* A paragraph of a text: its length, and whether it is a blank one.
Paragraph == [len : Nat, blank : BOOLEAN]
Section == Seq(Paragraph) \ {<<>>}

Document ==
    [key : STRING, org : Orgs, acl : Permissions \cup {Absent}, repo : Repos \cup {Absent},
     type : {"document", "code", "chat"}, text : Seq(Section) \ {<<>>}]

ASSUME RetrievalAssumption ==
    /\ Incoming \subseteq Document
    /\ MaxChars \in Nat \ {0} /\ TopK \in Nat

VARIABLES
    documents, \* the committed documents, in the order of their ids
    chunks,    \* the committed <collection>_chunks, in order of insertion
    result     \* a search under way: its filters, and the chunks it returned

retrievalVars == <<documents, chunks, result>>

\* start, length: source_offset_start, and the length of content.  from: where
\* in the text that content really is; blank: it begins with a blank paragraph.
Piece == [start : Nat, from : Nat, length : Nat, blank : BOOLEAN]
Chunk ==
    [id : Nat \ {0}, index : Nat, collection : Collections, org : Orgs, acl : Permissions \cup {Absent},
     repo : Repos \cup {Absent}, piece : Piece]
SearchFilters == [org : Orgs, permissions : SUBSET Permissions, repository : Repos \cup {Absent}]

NoSearch == [filters |-> Absent, list |-> <<>>]

RetrievalTypeOK ==
    /\ documents \in Seq(Incoming)
    /\ chunks \in Seq(Chunk)
    /\ result = NoSearch \/ result \in [filters : SearchFilters, list : Seq(ToSet(chunks))]

RetrievalInit ==
    /\ documents = <<>>
    /\ chunks = <<>>
    /\ result = NoSearch

-----------------------------------------------------------------------------
(* chunk_document.                                                          *)

Total(lengths) == FoldLeft(LAMBDA sum, l : sum + l, 0, lengths)

\* len of the first n paragraphs, with the separators after them, and of sections.
Before(section, n) == Total([k \in 1..n |-> section[k].len + 2])
LengthOf(section) == Before(section, Len(section)) - 2
TextBefore(text, n) == Total([k \in 1..n |-> LengthOf(text[k])])

\* Mutant of Offset: the separators are forgotten.
OffsetBare(section, found, n) == found

\* str.find from where the last paragraph was found to end: a paragraph with text
\* is found where it is, a blank one on the spot.
Offset(section, found, n) == IF section[n].blank THEN found ELSE Before(section, n - 1)

Spotted(section, done, n) ==
    LET found == IF done = <<>> THEN 0 ELSE Last(done).start + Last(done).length
    IN Append(done, [start |-> IF n = 1 THEN 0 ELSE Offset(section, found, n), from |-> Before(section, n - 1),
                     length |-> section[n].len, blank |-> section[n].blank])
Paragraphs(section) == FoldLeftDomain(LAMBDA done, n : Spotted(section, done, n), <<>>, section)

\* A paragraph joins the last group, as long as that stays within the limit.
Group(groups, p) ==
    IF groups # <<>> /\ Last(groups).length + 2 + p.length <= MaxChars
    THEN Append(Front(groups), [Last(groups) EXCEPT !.length = @ + 2 + p.length])
    ELSE Append(groups, p)

\* A group that is a paragraph too long by itself is sliced.
Slices(p) ==
    IF p.length <= MaxChars THEN <<p>>
    ELSE [n \in 1..((p.length + MaxChars - 1) \div MaxChars) |->
             LET at == (n - 1) * MaxChars
             IN [p EXCEPT !.start = @ + at, !.from = @ + at,
                          !.length = IF @ - at < MaxChars THEN @ - at ELSE MaxChars]]

\* _split_oversized.
SplitOversized(section) ==
    IF LengthOf(section) <= MaxChars
    THEN <<[start |-> 0, from |-> 0, length |-> LengthOf(section), blank |-> section[1].blank]>>
    ELSE FoldLeft(LAMBDA pieces, p : pieces \o Slices(p), <<>>, FoldLeft(Group, <<>>, Paragraphs(section)))

\* A chat message is one section: a section that follows another begins in the
\* last paragraph of that, which ends in a newline or is blank.
Continued(whole, s) ==
    Front(whole) \o <<[len |-> Last(whole).len + s[1].len, blank |-> Last(whole).blank /\ s[1].blank]>> \o Tail(s)
Whole(text) == FoldLeft(Continued, text[1], Tail(text))

\* The pieces of the n-th section; one without text is dropped (_slice_by_boundaries).
Sliced(text, n) ==
    IF \A k \in DOMAIN text[n] : text[n][k].blank THEN <<>>
    ELSE LET pieces == SplitOversized(text[n])
             at == TextBefore(text, n - 1)
         IN [k \in DOMAIN pieces |-> [pieces[k] EXCEPT !.start = @ + at, !.from = @ + at]]

ChunkDocument(text, type) ==
    LET sections == IF type = "chat" THEN <<Whole(text)>> ELSE text
    IN FoldLeftDomain(LAMBDA pieces, n : pieces \o Sliced(sections, n), <<>>, sections)

-----------------------------------------------------------------------------
(* The store.                                                               *)

_CONTENT_TYPE_TO_COLLECTION == [document |-> "documentation", code |-> "code", chat |-> "conversations"]

\* The rows of upsert for a document that is new.
Upserted(d, document) ==
    LET pieces == ChunkDocument(document.text, document.type)
        collection == _CONTENT_TYPE_TO_COLLECTION[document.type]
    IN [n \in DOMAIN pieces |->
           [id |-> d, index |-> n - 1, collection |-> collection, org |-> document.org, acl |-> document.acl,
            repo |-> IF collection \in _REPO_SCOPED_COLLECTIONS THEN document.repo ELSE Absent,
            piece |-> pieces[n]]]

\* _process_one_item: a document, a new version of its key or the first, with its
\* chunks, in one transaction.  The chunks of older versions stay.
Ingest(document) ==
    /\ Len(documents) < MaxDocuments
    /\ \A e \in DOMAIN documents : documents[e].key = document.key /\ documents[e].org = document.org =>
                                      documents[e].text # document.text
    /\ documents' = Append(documents, document)
    /\ chunks' = chunks \o Upserted(Len(documents) + 1, document)
    /\ UNCHANGED result

\* The WHERE of both searches.
Admits(filters, c) ==
    /\ c.org = filters.org
    /\ c.acl = Absent \/ c.acl \in filters.permissions
    /\ filters.repository = Absent \/ c.repo = filters.repository

Rows(filters, collection) ==
    {c \in ToSet(chunks) : c.collection = collection /\ Admits(filters, c)}

AtMost(n) == IF n < TopK THEN n ELSE TopK

\* Store.search ranks every row that is admitted, lexical_search those that match.
Ranked(rows) == Injection(1..AtMost(Cardinality(rows)), rows)
Matched(rows) == UNION {Injection(1..n, rows) : n \in 0..AtMost(Cardinality(rows))}

-----------------------------------------------------------------------------
(* reciprocal_rank_fusion.                                                  *)

\* score + 1 / (K + rank), as a fraction.
Plus(score, rank) == [num |-> score.num * (K + rank) + score.den, den |-> score.den * (K + rank)]
Zero == [num |-> 0, den |-> 1]

Less(p, q) == p.num * q.den < q.num * p.den

FusedScore(c, lists) ==
    FoldLeft(LAMBDA score, list : IF Contains(list, c) THEN Plus(score, SelectInSeq(list, LAMBDA x : x = c))
                                  ELSE score, Zero, lists)

\* The chunks in the order the lists name them first.
Met(done, c) == IF Contains(done, c) THEN done ELSE Append(done, c)
Concatenated(lists) == FoldLeft(LAMBDA done, list : FoldLeft(Met, done, list), <<>>, lists)

\* Sorted by the fused score, a stable sort of what was met first.
Sorted(ranked, c) ==
    InsertAt(ranked, Cardinality({n \in DOMAIN ranked : ~Less(ranked[n].score, c.score)}) + 1, c)
ReciprocalRankFusion(lists) ==
    LET met == Concatenated(lists)
        sorted == FoldLeft(Sorted, <<>>, [n \in DOMAIN met |-> [chunk |-> met[n], score |-> FusedScore(met[n], lists)]])
    IN [n \in 1..AtMost(Len(sorted)) |-> sorted[n].chunk]

\* search.  A repository cannot be looked for among the conversations: that, and a
\* search of all collections, raises.
SearchCollection(filters, collection) ==
    /\ result = NoSearch
    /\ filters.repository # Absent => collection \in _REPO_SCOPED_COLLECTIONS
    /\ \E dense \in Ranked(Rows(filters, collection)), lexical \in Matched(Rows(filters, collection)) :
           result' = [filters |-> filters, list |-> ReciprocalRankFusion(<<dense, lexical>>)]
    /\ UNCHANGED <<documents, chunks>>

SearchAll(filters) ==
    /\ result = NoSearch
    /\ filters.repository = Absent
    /\ \E d1 \in Ranked(Rows(filters, "documentation")), l1 \in Matched(Rows(filters, "documentation")),
          d2 \in Ranked(Rows(filters, "code")), l2 \in Matched(Rows(filters, "code")),
          d3 \in Ranked(Rows(filters, "conversations")), l3 \in Matched(Rows(filters, "conversations")) :
           result' = [filters |-> filters, list |-> ReciprocalRankFusion(<<d1, l1, d2, l2, d3, l3>>)]
    /\ UNCHANGED <<documents, chunks>>

\* The agent has read what its search returned.
Answered ==
    /\ result # NoSearch
    /\ result' = NoSearch
    /\ UNCHANGED <<documents, chunks>>

RetrievalNext ==
    \/ Answered
    \/ \E document \in Incoming : Ingest(document)
    \/ \E filters \in SearchFilters :
        \/ \E collection \in Collections : SearchCollection(filters, collection)
        \/ SearchAll(filters)

RetrievalSpec == RetrievalInit /\ [][RetrievalNext]_retrievalVars

-----------------------------------------------------------------------------
(* Properties.                                                              *)

\* What a search returns is text of a document of the organization that the caller
\* may read, and stands in it at the offsets it is cited with, unless it begins
\* with a blank paragraph ("preserving source-anchored offsets for citation").
CitationsQuoteTheDocument ==
    \A n \in DOMAIN result.list :
        LET c == result.list[n]
            d == documents[c.id]
        IN /\ d.org = result.filters.org
           /\ d.acl = Absent \/ d.acl \in result.filters.permissions
           /\ result.filters.repository # Absent => d.repo = result.filters.repository
           /\ c.piece.length <= MaxChars
           /\ ~c.piece.blank => c.piece.start = c.piece.from
           /\ c.piece.from + c.piece.length <= TextBefore(d.text, Len(d.text))
=============================================================================
