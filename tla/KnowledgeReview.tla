-------------------------- MODULE KnowledgeReview --------------------------
(***************************************************************************)
(* What app/core/knowledge promises of a proposed runbook: it is edited    *)
(* while it is a proposal, and a reviewer either publishes what it says or *)
(* rejects it; both are final.                                             *)
(***************************************************************************)
CONSTANTS
    Documents,  \* documents.id
    Texts       \* what a document may say

VARIABLE review \* where each document stands

None == [stage |-> "none"]
Rejected == [stage |-> "rejected"]
Proposed == [stage : {"proposed"}, text : Texts]
Published == [stage : {"published"}, text : Texts]

TypeOK == \A d \in Documents : review[d] \in Proposed \cup Published \cup {None, Rejected}

Init == review = [d \in Documents |-> None]

Propose(d, x) ==
    /\ review[d] = None
    /\ review' = [review EXCEPT ![d] = [stage |-> "proposed", text |-> x]]

Edit(d, x) ==
    /\ review[d] \in Proposed
    /\ review' = [review EXCEPT ![d].text = x]

Publish(d) ==
    /\ review[d] \in Proposed
    /\ review' = [review EXCEPT ![d].stage = "published"]

Reject(d) ==
    /\ review[d] \in Proposed
    /\ review' = [review EXCEPT ![d] = Rejected]

Step(d) ==
    \/ \E x \in Texts : Propose(d, x) \/ Edit(d, x)
    \/ Publish(d)
    \/ Reject(d)

Next == \E d \in Documents : Step(d)

Spec == Init /\ [][Next]_review
=============================================================================
