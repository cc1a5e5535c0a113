---------------------- MODULE KnowledgeDocumentsProofs ----------------------
(***************************************************************************)
(* Proofs about KnowledgeDocuments, for any number of documents, texts and *)
(* overlapping requests, and with no use of the bound on the versions.     *)
(***************************************************************************)
EXTENDS KnowledgeDocuments, TLAPS

\* What request q can rely on.  A proposal's id has no row yet.  Any other
\* request found the row it is about to write, and what it loaded is what the
\* row still holds, unless another request wrote it meanwhile.
Holds(q) ==
    /\ q.op = "none" => q.on = NoDoc
    /\ q.op = "propose" => q.on \in Documents /\ q.text \in Words /\ documents[q.on] = NoDoc
    /\ q.op \in {"publish", "update", "reject"} =>
        /\ q.on \in Documents /\ documents[q.on] # NoDoc
        /\ q.old \in Row /\ q.old.status = "proposed" /\ ~q.old.deleted
        /\ q.on \in mixed \/ q.old = documents[q.on]

\* No other request holds the id of an open proposal.
ProposalsDistinct ==
    \A r, p \in Handlers : r # p /\ txn[r].op = "propose" => txn[p].on # txn[r].on

\* An id with no row is not searched, and was never edited.
UnbornIsClean == \A d \in Documents : documents[d] = NoDoc => chunks[d] = NoDoc /\ edits[d] = 0

\* The inductive invariant.
IInv ==
    /\ DocumentsTypeOK
    /\ \A r \in Handlers : Holds(txn[r])
    /\ ProposalsDistinct
    /\ UnbornIsClean
    /\ SearchedWasPublished /\ IndexMatchesDocument /\ VersionCountsEdits

-----------------------------------------------------------------------------
\* A document that no two requests wrote at once moves as a review may.
Reviewed == \A d \in Documents \ mixed' : Life!Step(d) \/ Stages'[d] = Stages[d]

LEMMA IdleRequest == NoTxn \in Handler /\ Holds(NoTxn)
BY DEF NoTxn, Handler, Holds

LEMMA InitOK == DocumentsInit => IInv /\ Life!Init
<1> SUFFICES ASSUME DocumentsInit PROVE IInv /\ Life!Init
  OBVIOUS
<1>1. DocumentsTypeOK /\ \A r \in Handlers : Holds(txn[r])
  BY IdleRequest DEF DocumentsInit, DocumentsTypeOK
<1>2. ProposalsDistinct
  BY DEF DocumentsInit, ProposalsDistinct, NoTxn
<1>3. UnbornIsClean /\ SearchedWasPublished /\ IndexMatchesDocument /\ VersionCountsEdits
  BY DEF DocumentsInit, UnbornIsClean, SearchedWasPublished, IndexMatchesDocument, VersionCountsEdits
<1>4. Life!Init
  BY DEF DocumentsInit, Life!Init, Life!None, Stages
<1> QED
  BY <1>1, <1>2, <1>3, <1>4 DEF IInv

\* A request that only made its checks keeps the invariant.
LEMMA OpenStep ==
    ASSUME IInv, NEW r \in Handlers, NEW d \in Documents, NEW text \in Words \cup {Unsent},
           NEW op \in {"propose", "publish", "update", "reject"},
           Open(r, op, d, text),
           op = "propose" => /\ text \in Words /\ documents[d] = NoDoc
                             /\ \A p \in Handlers : txn[p].on # d,
           op # "propose" => Pending(d)
    PROVE  IInv' /\ Reviewed
<1> DEFINE q == [op |-> op, on |-> d, old |-> documents[d], text |-> text]
<1>1. q \in Handler /\ Holds(q)
  BY DEF IInv, DocumentsTypeOK, Handler, Holds, Pending, Found
<1>2. q.op = op /\ q.on = d
  OBVIOUS
<1> HIDE DEF q
<1>3. txn' = [txn EXCEPT ![r] = q]
  BY DEF Open, q
<1>4. DocumentsTypeOK'
  BY <1>1, <1>3 DEF IInv, DocumentsTypeOK, Open
<1>5. ASSUME NEW p \in Handlers PROVE Holds(txn[p])'
  <2>1. Holds(txn'[p])
    BY <1>1, <1>3 DEF IInv, DocumentsTypeOK
  <2> QED
    BY <2>1 DEF Holds, Open
<1>6. ProposalsDistinct'
  <2> SUFFICES ASSUME NEW a \in Handlers, NEW b \in Handlers, a # b, txn'[a].op = "propose"
               PROVE  txn'[b].on # txn'[a].on
    BY DEF ProposalsDistinct
  <2>1. CASE a = r
    BY <1>2, <1>3, <2>1 DEF IInv, DocumentsTypeOK
  <2>2. CASE b = r
    <3>1. txn'[a] = txn[a] /\ txn'[b] = q /\ documents[txn[a].on] = NoDoc /\ txn[a].on \in Documents
      BY <1>3, <2>2 DEF IInv, DocumentsTypeOK, Holds
    <3> QED
      BY <1>2, <3>1 DEF Pending, Found
  <2>3. CASE a # r /\ b # r
    BY <1>3, <2>3 DEF IInv, DocumentsTypeOK, ProposalsDistinct
  <2> QED
    BY <2>1, <2>2, <2>3
<1>7. (UnbornIsClean /\ SearchedWasPublished /\ IndexMatchesDocument /\ VersionCountsEdits)'
  BY DEF IInv, UnbornIsClean, SearchedWasPublished, IndexMatchesDocument, VersionCountsEdits, Open
<1>8. Reviewed
  BY DEF Reviewed, Stages, Open
<1> QED
  BY <1>4, <1>5, <1>6, <1>7, <1>8 DEF IInv

\* Where only d moves, the reviews are those of before but for d.
LEMMA OneReview ==
    ASSUME NEW d \in Documents, NEW v, Stages'[d] = v,
           \A e \in Documents \ {d} : Stages'[e] = Stages[e]
    PROVE  Stages' = [Stages EXCEPT ![d] = v]
<1>1. /\ Stages = [e \in Documents |-> Stages[e]]
      /\ Stages' = [e \in Documents |-> Stages'[e]]
  BY DEF Stages
<1> QED
  BY <1>1

\* What the commit of r must establish of the one document d it writes.
LEMMA CommitStep ==
    ASSUME IInv, NEW r \in Handlers, NEW d \in Documents, txn[r].on = d, Close(r),
           NEW row \in Row, NEW chunk \in Words \cup {NoDoc}, NEW count \in Nat,
           documents' = [documents EXCEPT ![d] = row],
           chunks' = [chunks EXCEPT ![d] = chunk],
           edits' = [edits EXCEPT ![d] = count],
           chunk # NoDoc => row.status = "published",
           d \notin mixed' =>
               /\ chunk = IF row.status = "published" /\ row.text # EmptyText
                          THEN row.text ELSE NoDoc
               /\ row.version = 1 + count
    PROVE  IInv' /\ \A e \in Documents \ {d} : Stages'[e] = Stages[e]
<1>1. /\ txn' = [txn EXCEPT ![r] = NoTxn]
      /\ mixed \subseteq mixed' /\ mixed' \subseteq Documents
      /\ \A p \in Handlers \ {r} : txn[p].on = d => d \in mixed'
  BY DEF Close, IInv, DocumentsTypeOK
<1>2. DocumentsTypeOK'
  BY <1>1, IdleRequest DEF IInv, DocumentsTypeOK
<1>3. row # NoDoc
  BY KnowledgeAssumption
<1>4. ASSUME NEW p \in Handlers PROVE Holds(txn[p])'
  <2>1. CASE p = r
    <3>1. txn'[p] = NoTxn
      BY <1>1, <2>1 DEF IInv, DocumentsTypeOK
    <3> QED
      BY <3>1 DEF Holds, NoTxn
  <2>2. CASE p # r
    <3>1. txn'[p] = txn[p] /\ Holds(txn[p]) /\ txn[p] \in Handler
      BY <1>1, <2>2 DEF IInv, DocumentsTypeOK
    <3>2. txn[p].op = "propose" => txn[p].on # d
      BY <2>2 DEF IInv, ProposalsDistinct
    <3> QED
      BY <1>1, <1>3, <2>2, <3>1, <3>2 DEF IInv, DocumentsTypeOK, Holds, Handler
  <2> QED
    BY <2>1, <2>2
<1>5. ProposalsDistinct'
  <2> SUFFICES ASSUME NEW a \in Handlers, NEW b \in Handlers, a # b, txn'[a].op = "propose"
               PROVE  txn'[b].on # txn'[a].on
    BY DEF ProposalsDistinct
  <2>1. a # r /\ txn'[a] = txn[a] /\ txn[a].on \in Documents /\ documents[txn[a].on] = NoDoc
    BY <1>1 DEF IInv, DocumentsTypeOK, NoTxn, Holds
  <2>2. CASE b = r
    <3>1. Holds(NoTxn) /\ txn'[b].on = NoDoc
      BY <1>1, <2>2, IdleRequest DEF IInv, DocumentsTypeOK, NoTxn
    <3>2. txn'[a].on \in Documents
      BY <2>1
    <3>3. NoDoc \notin Documents
      BY KnowledgeAssumption
    <3> QED
      BY <3>1, <3>2, <3>3
  <2>3. CASE b # r
    BY <1>1, <2>1, <2>3 DEF IInv, DocumentsTypeOK, ProposalsDistinct
  <2> QED
    BY <2>2, <2>3
<1>6. UnbornIsClean' /\ SearchedWasPublished'
  BY <1>3 DEF IInv, DocumentsTypeOK, UnbornIsClean, SearchedWasPublished
<1>7. IndexMatchesDocument' /\ VersionCountsEdits'
  BY <1>1, <1>3 DEF IInv, DocumentsTypeOK, IndexMatchesDocument, VersionCountsEdits
<1>8. \A e \in Documents \ {d} : Stages'[e] = Stages[e]
  BY DEF IInv, DocumentsTypeOK, Stages
<1> QED
  BY <1>2, <1>4, <1>5, <1>6, <1>7, <1>8 DEF IInv

\* Where r commits and no other request is open on its document, what r loaded
\* is what the row holds.
LEMMA LoadedIsCurrent ==
    ASSUME IInv, NEW r \in Handlers, Close(r), txn[r].op \in {"publish", "update", "reject"}
    PROVE  /\ txn[r].on \in Documents /\ documents[txn[r].on] \in Row
           /\ txn[r].on \notin mixed' =>
                /\ txn[r].on \notin mixed /\ txn[r].old = documents[txn[r].on]
                /\ documents[txn[r].on].status = "proposed" /\ ~documents[txn[r].on].deleted
BY DEF IInv, DocumentsTypeOK, Close, Holds

LEMMA CommitProposalStep ==
    ASSUME IInv, NEW r \in Handlers, CommitProposal(r)
    PROVE  IInv' /\ Reviewed
<1> PICK d \in Documents : d = txn[r].on
  BY DEF IInv, Holds, CommitProposal
<1>1. Holds(txn[r]) /\ txn[r].op = "propose" /\ documents[d] = NoDoc /\ txn[r].text \in Words
  BY DEF IInv, Holds, CommitProposal
<1>2. PICK row \in Row :
          /\ row = [status |-> "proposed", deleted |-> FALSE, version |-> 1, text |-> txn[r].text]
          /\ documents' = [documents EXCEPT ![d] = row]
  BY <1>1 DEF CommitProposal, Row
<1>3. chunks[d] = NoDoc /\ edits[d] = 0
  BY <1>1 DEF IInv, UnbornIsClean
<1>4. chunks' = [chunks EXCEPT ![d] = NoDoc] /\ edits' = [edits EXCEPT ![d] = 0]
  BY <1>3 DEF CommitProposal, IInv, DocumentsTypeOK
<1>5. IInv' /\ \A e \in Documents \ {d} : Stages'[e] = Stages[e]
  <2>1. Close(r) /\ txn[r].on = d
    BY DEF CommitProposal
  <2>2. row.version = 1 + 0 /\ row.status = "proposed"
    BY <1>2
  <2> QED
    BY <1>2, <1>4, <2>1, <2>2, CommitStep
<1>6. Life!Propose(d, row.text)
  <2>1. Stages[d] = Life!None
    BY <1>1 DEF Stages, Life!None
  <2>2. Stages'[d] = [stage |-> "proposed", text |-> row.text]
    BY <1>2, KnowledgeAssumption DEF Stages, IInv, DocumentsTypeOK
  <2>3. Stages' = [Stages EXCEPT ![d] = [stage |-> "proposed", text |-> row.text]]
    BY <1>5, <2>2, OneReview
  <2> QED
    BY <2>1, <2>3 DEF Life!Propose
<1> QED
  BY <1>1, <1>2, <1>5, <1>6 DEF Reviewed, Life!Step

LEMMA CommitPublicationStep ==
    ASSUME IInv, NEW r \in Handlers, CommitPublication(r)
    PROVE  IInv' /\ Reviewed
<1> PICK d \in Documents : d = txn[r].on
  BY DEF IInv, Holds, CommitPublication
<1>1. /\ documents[d] \in Row /\ txn[r].old \in Row
      /\ d \notin mixed' => /\ d \notin mixed /\ txn[r].old = documents[d]
                            /\ documents[d].status = "proposed" /\ ~documents[d].deleted
  BY LoadedIsCurrent DEF CommitPublication, IInv, Holds
<1>2. PICK row \in Row :
          /\ row = [documents[d] EXCEPT !.status = "published"]
          /\ documents' = [documents EXCEPT ![d] = row]
  BY <1>1 DEF CommitPublication, Row
<1>3. PICK chunk \in Words \cup {NoDoc} :
          /\ chunk = IF txn[r].old.text = EmptyText THEN chunks[d] ELSE txn[r].old.text
          /\ chunks' = [chunks EXCEPT ![d] = chunk]
  <2>1. chunks[d] \in Words \cup {NoDoc} /\ txn[r].old.text \in Words
    BY <1>1 DEF IInv, DocumentsTypeOK, Row
  <2>2. chunks' = IF txn[r].old.text = EmptyText THEN chunks
                  ELSE [chunks EXCEPT ![d] = txn[r].old.text]
    BY DEF CommitPublication
  <2>3. chunks = [chunks EXCEPT ![d] = chunks[d]]
    BY DEF IInv, DocumentsTypeOK
  <2> QED
    BY <2>1, <2>2, <2>3
<1>4. edits' = [edits EXCEPT ![d] = edits[d]]
  BY DEF CommitPublication, IInv, DocumentsTypeOK
<1>5. d \notin mixed' => chunks[d] = NoDoc /\ documents[d].version = 1 + edits[d]
  BY <1>1, KnowledgeAssumption DEF IInv, IndexMatchesDocument, VersionCountsEdits
<1>6. row.status = "published" /\ row.text = documents[d].text /\ row.version = documents[d].version
      /\ row.deleted = documents[d].deleted
  BY <1>1, <1>2 DEF Row
<1>7. edits[d] \in Nat /\ txn[r].on = d /\ Close(r)
  BY DEF IInv, DocumentsTypeOK, CommitPublication
<1>8. d \notin mixed' => chunk = IF row.text # EmptyText THEN row.text ELSE NoDoc
  BY <1>1, <1>3, <1>5, <1>6
<1>9. IInv' /\ \A e \in Documents \ {d} : Stages'[e] = Stages[e]
  BY <1>2, <1>3, <1>4, <1>5, <1>6, <1>7, <1>8, <1>1, CommitStep
<1>10. d \notin mixed' => Life!Publish(d)
  <2> SUFFICES ASSUME d \notin mixed' PROVE Life!Publish(d)
    OBVIOUS
  <2>1. Stages[d] = [stage |-> "proposed", text |-> documents[d].text]
    BY <1>1, KnowledgeAssumption DEF Stages
  <2>2. Stages'[d] = [stage |-> "published", text |-> documents[d].text]
    BY <1>1, <1>2, <1>6, KnowledgeAssumption DEF Stages, IInv, DocumentsTypeOK
  <2>3. Stages[d] \in Life!Proposed
    BY <1>1, <2>1 DEF Life!Proposed, Row
  <2>4. Stages' = [Stages EXCEPT ![d].stage = "published"]
    BY <1>9, <2>1, <2>2, OneReview
  <2> QED
    BY <2>3, <2>4 DEF Life!Publish
<1> QED
  BY <1>9, <1>10 DEF Reviewed, Life!Step

LEMMA CommitUpdateStep ==
    ASSUME IInv, NEW r \in Handlers, CommitUpdate(r)
    PROVE  IInv' /\ Reviewed
<1> PICK d \in Documents : d = txn[r].on
  BY DEF IInv, Holds, CommitUpdate
<1>1. /\ documents[d] \in Row /\ txn[r].old \in Row /\ txn[r].text \in Words \cup {Unsent}
      /\ d \notin mixed' => /\ d \notin mixed /\ txn[r].old = documents[d]
                            /\ documents[d].status = "proposed" /\ ~documents[d].deleted
  BY LoadedIsCurrent DEF CommitUpdate, IInv, DocumentsTypeOK, Handler, Holds
<1>2. PICK text \in Words : text = IF txn[r].text = Unsent THEN documents[d].text ELSE txn[r].text
  BY <1>1 DEF Row
<1>3. PICK row \in Row :
          /\ row = [documents[d] EXCEPT !.version = txn[r].old.version + 1, !.text = text]
          /\ documents' = [documents EXCEPT ![d] = row]
  <2> DEFINE next == txn[r].old.version + 1
  <2>0. next \in Nat
    BY <1>1 DEF Row
  <2> HIDE DEF next
  <2>a. [documents[d] EXCEPT !.version = next] \in Row
    BY <1>1, <2>0 DEF Row
  <2>b. [documents[d] EXCEPT !.version = next, !.text = text] \in Row
    BY <1>2, <2>a DEF Row
  <2>1. [documents[d] EXCEPT !.version = txn[r].old.version + 1, !.text = text] \in Row
    BY <2>b DEF next
  <2>2. documents' = [documents EXCEPT
          ![d].version = txn[r].old.version + 1,
          ![d].text = IF txn[r].text = Unsent THEN @ ELSE txn[r].text]
    BY DEF CommitUpdate
  <2>3. documents' = [documents EXCEPT
          ![d] = [documents[d] EXCEPT !.version = txn[r].old.version + 1, !.text = text]]
    BY <1>1, <1>2, <2>2 DEF IInv, DocumentsTypeOK, Row
  <2> QED
    BY <2>1, <2>3
<1>4. chunks' = [chunks EXCEPT ![d] = chunks[d]] /\ edits' = [edits EXCEPT ![d] = edits[d] + 1]
  BY DEF CommitUpdate, IInv, DocumentsTypeOK
<1>5. d \notin mixed' => chunks[d] = NoDoc /\ documents[d].version = 1 + edits[d]
  BY <1>1, KnowledgeAssumption DEF IInv, IndexMatchesDocument, VersionCountsEdits
<1>6. row.status = documents[d].status /\ row.text = text /\ row.version = txn[r].old.version + 1
      /\ row.deleted = documents[d].deleted
  BY <1>1, <1>3 DEF Row
<1>7. edits[d] \in Nat /\ edits[d] + 1 \in Nat /\ txn[r].on = d /\ Close(r)
      /\ chunks[d] \in Words \cup {NoDoc}
  BY DEF IInv, DocumentsTypeOK, CommitUpdate
<1>8. chunks[d] # NoDoc => row.status = "published"
  BY <1>6 DEF IInv, SearchedWasPublished
<1>9. d \notin mixed' => row.version = 1 + (edits[d] + 1) /\ row.status = "proposed"
  BY <1>1, <1>5, <1>6, <1>7
<1>10. IInv' /\ \A e \in Documents \ {d} : Stages'[e] = Stages[e]
  BY <1>3, <1>4, <1>5, <1>7, <1>8, <1>9, CommitStep
<1>11. d \notin mixed' => Life!Edit(d, text)
  <2> SUFFICES ASSUME d \notin mixed' PROVE Life!Edit(d, text)
    OBVIOUS
  <2>1. Stages[d] = [stage |-> "proposed", text |-> documents[d].text]
    BY <1>1, KnowledgeAssumption DEF Stages
  <2>2. Stages'[d] = [stage |-> "proposed", text |-> text]
    BY <1>1, <1>3, <1>6, KnowledgeAssumption DEF Stages, IInv, DocumentsTypeOK
  <2>3. Stages[d] \in Life!Proposed
    BY <1>1, <2>1 DEF Life!Proposed, Row
  <2>4. Stages' = [Stages EXCEPT ![d].text = text]
    BY <1>10, <2>1, <2>2, OneReview
  <2> QED
    BY <2>3, <2>4 DEF Life!Edit
<1> QED
  BY <1>10, <1>11 DEF Reviewed, Life!Step

LEMMA CommitRejectionStep ==
    ASSUME IInv, NEW r \in Handlers, CommitRejection(r)
    PROVE  IInv' /\ Reviewed
<1> PICK d \in Documents : d = txn[r].on
  BY DEF IInv, Holds, CommitRejection
<1>1. /\ documents[d] \in Row
      /\ d \notin mixed' => /\ d \notin mixed
                            /\ documents[d].status = "proposed" /\ ~documents[d].deleted
  BY LoadedIsCurrent DEF CommitRejection
<1>2. PICK row \in Row :
          /\ row = [documents[d] EXCEPT !.deleted = TRUE]
          /\ documents' = [documents EXCEPT ![d] = row]
  BY <1>1 DEF CommitRejection, Row
<1>3. chunks' = [chunks EXCEPT ![d] = chunks[d]] /\ edits' = [edits EXCEPT ![d] = edits[d]]
  BY DEF CommitRejection, IInv, DocumentsTypeOK
<1>4. row.status = documents[d].status /\ row.text = documents[d].text
      /\ row.version = documents[d].version /\ row.deleted
  BY <1>1, <1>2 DEF Row
<1>5. edits[d] \in Nat /\ txn[r].on = d /\ Close(r) /\ chunks[d] \in Words \cup {NoDoc}
  BY DEF IInv, DocumentsTypeOK, CommitRejection
<1>6. chunks[d] # NoDoc => row.status = "published"
  BY <1>4 DEF IInv, SearchedWasPublished
<1>7. d \notin mixed' => /\ chunks[d] = IF row.status = "published" /\ row.text # EmptyText
                                        THEN row.text ELSE NoDoc
                         /\ row.version = 1 + edits[d]
  BY <1>1, <1>4, KnowledgeAssumption DEF IInv, IndexMatchesDocument, VersionCountsEdits
<1>8. IInv' /\ \A e \in Documents \ {d} : Stages'[e] = Stages[e]
  BY <1>2, <1>3, <1>5, <1>6, <1>7, CommitStep
<1>9. d \notin mixed' => Life!Reject(d)
  <2> SUFFICES ASSUME d \notin mixed' PROVE Life!Reject(d)
    OBVIOUS
  <2>1. Stages[d] = [stage |-> "proposed", text |-> documents[d].text]
    BY <1>1, KnowledgeAssumption DEF Stages
  <2>2. Stages'[d] = Life!Rejected
    BY <1>1, <1>2, <1>4, KnowledgeAssumption DEF Stages, IInv, DocumentsTypeOK, Life!Rejected
  <2>3. Stages[d] \in Life!Proposed
    BY <1>1, <2>1 DEF Life!Proposed, Row
  <2>4. Stages' = [Stages EXCEPT ![d] = Life!Rejected]
    BY <1>8, <2>2, OneReview
  <2> QED
    BY <2>3, <2>4 DEF Life!Reject
<1> QED
  BY <1>8, <1>9 DEF Reviewed, Life!Step

\* A transaction that is rolled back leaves the tables as they are.
LEMMA RollbackStep ==
    ASSUME IInv, NEW r \in Handlers, RollbackDocument(r)
    PROVE  IInv' /\ Reviewed
<1>1. DocumentsTypeOK'
  BY IdleRequest DEF IInv, DocumentsTypeOK, RollbackDocument
<1>2. ASSUME NEW p \in Handlers PROVE Holds(txn[p])'
  <2>1. Holds(txn'[p])
    BY IdleRequest DEF IInv, DocumentsTypeOK, RollbackDocument
  <2> QED
    BY <2>1 DEF Holds, RollbackDocument
<1>3. ProposalsDistinct'
  <2> SUFFICES ASSUME NEW a \in Handlers, NEW b \in Handlers, a # b, txn'[a].op = "propose"
               PROVE  txn'[b].on # txn'[a].on
    BY DEF ProposalsDistinct
  <2>1. a # r /\ txn'[a] = txn[a] /\ txn[a].on \in Documents
    BY DEF IInv, DocumentsTypeOK, NoTxn, Holds, RollbackDocument
  <2>2. CASE b = r
    BY <2>1, <2>2, KnowledgeAssumption DEF IInv, DocumentsTypeOK, NoTxn, RollbackDocument
  <2>3. CASE b # r
    BY <2>1, <2>3 DEF IInv, DocumentsTypeOK, ProposalsDistinct, RollbackDocument
  <2> QED
    BY <2>2, <2>3
<1>4. (UnbornIsClean /\ SearchedWasPublished /\ IndexMatchesDocument /\ VersionCountsEdits)'
  BY DEF IInv, UnbornIsClean, SearchedWasPublished, IndexMatchesDocument, VersionCountsEdits,
     RollbackDocument
<1>5. Reviewed
  BY DEF Reviewed, Stages, RollbackDocument
<1> QED
  BY <1>1, <1>2, <1>3, <1>4, <1>5 DEF IInv

\* Every step keeps the invariant, and is a review of each unraced document.
LEMMA NextOK == IInv /\ [DocumentsNext]_documentVars => IInv' /\ (Reviewed \/ UNCHANGED documentVars)
<1> SUFFICES ASSUME IInv, [DocumentsNext]_documentVars PROVE IInv' /\ (Reviewed \/ UNCHANGED documentVars)
  OBVIOUS
<1>1. ASSUME NEW r \in Handlers, NEW d \in Documents,
             \/ \E x \in Words : ProposeDocument(r, d, x)
             \/ PublishDocument(r, d)
             \/ \E x \in Words \cup {Unsent} : UpdateDocument(r, d, x)
             \/ RejectDocument(r, d)
      PROVE  IInv' /\ Reviewed
  BY <1>1, OpenStep DEF ProposeDocument, PublishDocument, UpdateDocument, RejectDocument
<1>2. CASE UNCHANGED documentVars
  BY <1>2 DEF documentVars, IInv, DocumentsTypeOK, Holds, ProposalsDistinct, UnbornIsClean,
     SearchedWasPublished, IndexMatchesDocument, VersionCountsEdits
<1>3. CASE DocumentsNext
  BY <1>1, <1>3, CommitProposalStep, CommitPublicationStep, CommitUpdateStep,
     CommitRejectionStep, RollbackStep DEF DocumentsNext
<1> QED
  BY <1>2, <1>3

LEMMA Invariance == DocumentsSpec => []IInv
BY InitOK, NextOK, PTL DEF DocumentsSpec

-----------------------------------------------------------------------------
\* The tables and the open requests stay well formed.
THEOREM TypeCorrect == DocumentsSpec => []DocumentsTypeOK
<1>1. IInv => DocumentsTypeOK
  BY DEF IInv
<1> QED
  BY <1>1, Invariance, PTL

\* Whatever requests overlap, a search finds nothing that no reviewer published
\* (publish_document is the only one that embeds).
THEOREM OnlyPublishedIsSearched == DocumentsSpec => []SearchedWasPublished
<1>1. IInv => SearchedWasPublished
  BY DEF IInv
<1> QED
  BY <1>1, Invariance, PTL

\* A search finds a document that no two requests wrote at once exactly when it
\* is published, with the text it has (update_document, publish_document).
THEOREM UnracedIsInStep == DocumentsSpec => []IndexMatchesDocument
<1>1. IInv => IndexMatchesDocument
  BY DEF IInv
<1> QED
  BY <1>1, Invariance, PTL

\* The version of a document that no two requests wrote at once is the number of
\* its edits (update_document_title, bump_document_version).
THEOREM UnracedVersionCounts == DocumentsSpec => []VersionCountsEdits
<1>1. IInv => VersionCountsEdits
  BY DEF IInv
<1> QED
  BY <1>1, Invariance, PTL

\* The life of a document that no two requests write at once is a behaviour of
\* KnowledgeReview, step by step.
THEOREM ReviewIsFollowed == DocumentsSpec => LifeIsFollowed
<1>1. IInv /\ [DocumentsNext]_documentVars =>
        [\A d \in Documents \ mixed' : Life!Step(d) \/ Stages'[d] = Stages[d]]_documentVars
  BY NextOK DEF Reviewed
<1>2. DocumentsInit => Life!Init
  BY InitOK
<1> QED
  BY <1>1, <1>2, Invariance, PTL DEF DocumentsSpec, LifeIsFollowed
=============================================================================
