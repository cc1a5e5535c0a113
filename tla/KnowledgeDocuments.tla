------------------------- MODULE KnowledgeDocuments -------------------------
(***************************************************************************)
(* Proposed runbooks (app/core/knowledge) and the search index they are    *)
(* published to (app/retrieval), under concurrent requests.                *)
(*                                                                         *)
(* A request runs in one READ COMMITTED transaction.  It loads the         *)
(* document and decides on what it loaded; its writes reach the tables at  *)
(* its commit, and only the columns it assigned are written.  The version  *)
(* is counted up from the loaded one.  Publishing reads the text before it *)
(* updates the row, and embeds what it read in the same transaction.       *)
(***************************************************************************)
EXTENDS Naturals

CONSTANTS
    Documents,  \* documents.id
    Words,      \* the "content" entry of document_metadata
    EmptyText,  \* the text "", which is not embedded
    Handlers,   \* requests that may run at the same time
    NoDoc,      \* "no row has this id"
    Unsent,     \* a field a PATCH leaves out
    MaxVersion  \* bound on the number of edits

Row == [status : {"proposed", "published"}, deleted : BOOLEAN, version : Nat, text : Words]

ASSUME KnowledgeAssumption ==
    /\ EmptyText \in Words /\ Unsent \notin Words
    /\ NoDoc \notin Row \cup Words \cup Documents
    /\ MaxVersion \in Nat

VARIABLES
    documents,  \* the committed rows, with their text
    chunks,     \* the committed documentation_chunks: the text a search finds
    txn,        \* the requests
    edits,      \* history: the number of edits committed to each document
    mixed       \* history: the documents that two requests wrote at the same time

documentVars == <<documents, chunks, txn, edits, mixed>>

\* op "none": no request is open.  old is the row as it was loaded.
Handler ==
    [op : {"none", "propose", "publish", "update", "reject"},
     on : Documents \cup {NoDoc}, old : Row \cup {NoDoc}, text : Words \cup {Unsent}]

NoTxn == [op |-> "none", on |-> NoDoc, old |-> NoDoc, text |-> Unsent]

DocumentsTypeOK ==
    /\ documents \in [Documents -> Row \cup {NoDoc}]
    /\ chunks \in [Documents -> Words \cup {NoDoc}]
    /\ txn \in [Handlers -> Handler]
    /\ edits \in [Documents -> Nat]
    /\ mixed \subseteq Documents

DocumentsInit ==
    /\ documents = [d \in Documents |-> NoDoc]
    /\ chunks = [d \in Documents |-> NoDoc]
    /\ txn = [r \in Handlers |-> NoTxn]
    /\ edits = [d \in Documents |-> 0]
    /\ mixed = {}

-----------------------------------------------------------------------------
\* _get_owned_document finds d: a rejected document is not found.
Found(d) == documents[d] # NoDoc /\ ~documents[d].deleted

Pending(d) == Found(d) /\ documents[d].status = "proposed"

\* Request r has made its checks on d.
Open(r, op, d, text) ==
    /\ txn[r].op = "none"
    /\ txn' = [txn EXCEPT ![r] = [op |-> op, on |-> d, old |-> documents[d], text |-> text]]
    /\ UNCHANGED <<documents, chunks, edits, mixed>>

\* The id is a fresh uuid.
ProposeDocument(r, d, x) ==
    /\ documents[d] = NoDoc /\ \A q \in Handlers : txn[q].on # d
    /\ Open(r, "propose", d, x)

PublishDocument(r, d) == Pending(d) /\ Open(r, "publish", d, Unsent)

\* Mutant of UpdateDocument: a published document can be edited.
UpdatePublished(r, d, x) ==
    Found(d) /\ documents[d].version < MaxVersion /\ Open(r, "update", d, x)

\* A PATCH of the text, or (x = Unsent) of the title alone.
UpdateDocument(r, d, x) ==
    Pending(d) /\ documents[d].version < MaxVersion /\ Open(r, "update", d, x)

\* Mutant of RejectDocument: the status is not looked at.
RejectPublished(r, d) == Found(d) /\ Open(r, "reject", d, Unsent)

RejectDocument(r, d) == Pending(d) /\ Open(r, "reject", d, Unsent)

\* The session helper commits r, whose document it has written.
Close(r) ==
    /\ txn' = [txn EXCEPT ![r] = NoTxn]
    /\ mixed' = IF \E q \in Handlers \ {r} : txn[q].on = txn[r].on
                THEN mixed \cup {txn[r].on} ELSE mixed

\* Mutant of CommitProposal: the proposal is embedded at once.
CommitProposalEmbedded(r) ==
    /\ txn[r].op = "propose"
    /\ documents' = [documents EXCEPT ![txn[r].on] =
         [status |-> "proposed", deleted |-> FALSE, version |-> 1, text |-> txn[r].text]]
    /\ chunks' = [chunks EXCEPT ![txn[r].on] = txn[r].text]
    /\ Close(r)
    /\ UNCHANGED edits

CommitProposal(r) ==
    /\ txn[r].op = "propose"
    /\ documents' = [documents EXCEPT ![txn[r].on] =
         [status |-> "proposed", deleted |-> FALSE, version |-> 1, text |-> txn[r].text]]
    /\ Close(r)
    /\ UNCHANGED <<chunks, edits>>

\* update_document_status, and the upsert of the one chunk of a text not empty.
CommitPublication(r) ==
    /\ txn[r].op = "publish"
    /\ documents' = [documents EXCEPT ![txn[r].on].status = "published"]
    /\ chunks' = IF txn[r].old.text = EmptyText THEN chunks
                 ELSE [chunks EXCEPT ![txn[r].on] = txn[r].old.text]
    /\ Close(r)
    /\ UNCHANGED edits

\* Mutant of CommitUpdate: a title set alone clears the text.
CommitUpdateUnset(r) ==
    /\ txn[r].op = "update"
    /\ documents' = [documents EXCEPT
         ![txn[r].on].version = txn[r].old.version + 1,
         ![txn[r].on].text = txn[r].text]
    /\ edits' = [edits EXCEPT ![txn[r].on] = @ + 1]
    /\ Close(r)
    /\ UNCHANGED chunks

\* Mutant of CommitUpdate: only a new title counts the version up.
CommitUpdateTitleOnly(r) ==
    /\ txn[r].op = "update"
    /\ documents' = [documents EXCEPT
         ![txn[r].on].version = txn[r].old.version + (IF txn[r].text = Unsent THEN 1 ELSE 0),
         ![txn[r].on].text = IF txn[r].text = Unsent THEN @ ELSE txn[r].text]
    /\ edits' = [edits EXCEPT ![txn[r].on] = @ + 1]
    /\ Close(r)
    /\ UNCHANGED chunks

\* update_document_title or bump_document_version, and upsert_metadata.
CommitUpdate(r) ==
    /\ txn[r].op = "update"
    /\ documents' = [documents EXCEPT
         ![txn[r].on].version = txn[r].old.version + 1,
         ![txn[r].on].text = IF txn[r].text = Unsent THEN @ ELSE txn[r].text]
    /\ edits' = [edits EXCEPT ![txn[r].on] = @ + 1]
    /\ Close(r)
    /\ UNCHANGED chunks

\* soft_delete_document.
CommitRejection(r) ==
    /\ txn[r].op = "reject"
    /\ documents' = [documents EXCEPT ![txn[r].on].deleted = TRUE]
    /\ Close(r)
    /\ UNCHANGED <<chunks, edits>>

\* The caller lacks the permission, the embedding fails, or the process dies.
RollbackDocument(r) ==
    /\ txn[r].op # "none"
    /\ txn' = [txn EXCEPT ![r] = NoTxn]
    /\ UNCHANGED <<documents, chunks, edits, mixed>>

DocumentsNext ==
    \E r \in Handlers :
        \/ \E d \in Documents :
            \/ \E x \in Words : ProposeDocument(r, d, x)
            \/ PublishDocument(r, d)
            \/ \E x \in Words \cup {Unsent} : UpdateDocument(r, d, x)
            \/ RejectDocument(r, d)
        \/ CommitProposal(r)
        \/ CommitPublication(r)
        \/ CommitUpdate(r)
        \/ CommitRejection(r)
        \/ RollbackDocument(r)

DocumentsSpec == DocumentsInit /\ [][DocumentsNext]_documentVars

-----------------------------------------------------------------------------
(* Properties.                                                              *)

\* Whatever requests overlap, a search finds nothing of a document that no
\* reviewer published (publish_document).
SearchedWasPublished ==
    \A d \in Documents : chunks[d] # NoDoc =>
        documents[d] # NoDoc /\ documents[d].status = "published"

\* A document that no two requests wrote at once is found by a search exactly
\* when it is published, with the text it has: editing "would silently
\* desynchronize the two" (update_document).
IndexMatchesDocument ==
    \A d \in Documents \ mixed : documents[d] # NoDoc =>
        chunks[d] = IF documents[d].status = "published" /\ documents[d].text # EmptyText
                    THEN documents[d].text ELSE NoDoc

\* The version counts the edits of a document that no two requests wrote at
\* once (update_document_title, bump_document_version).
VersionCountsEdits ==
    \A d \in Documents \ mixed : documents[d] # NoDoc => documents[d].version = 1 + edits[d]

\* The reviews of KnowledgeReview, as the tables show them.
Stages == [d \in Documents |->
    IF documents[d] = NoDoc THEN [stage |-> "none"]
    ELSE IF documents[d].deleted THEN [stage |-> "rejected"]
    ELSE [stage |-> documents[d].status, text |-> documents[d].text]]

Life == INSTANCE KnowledgeReview WITH Texts <- Words, review <- Stages

\* What happens to a document that no two requests write at once is what
\* KnowledgeReview allows: publishing and rejecting exclude each other and are
\* final (publish_document, update_document, reject_document).
LifeIsFollowed ==
    /\ Life!Init
    /\ [][\A d \in Documents \ mixed' : Life!Step(d) \/ Stages'[d] = Stages[d]]_documentVars
=============================================================================
