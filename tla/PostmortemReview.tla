-------------------------- MODULE PostmortemReview --------------------------
(***************************************************************************)
(* What app/core/incidents promises of postmortems: an incident has at     *)
(* most one, it is edited while it is under review, and its approval by a  *)
(* human closes it for good.                                               *)
(***************************************************************************)
CONSTANTS
    Incidents,  \* incidents.id
    Texts       \* what a postmortem may say

VARIABLE review \* the postmortem of each incident

Open == {"draft", "in_review"}

None == [status |-> "none"]      \* no postmortem

Drafts == [status : Open, text : Texts]
Closed == [status : {"approved"}, text : Texts]

TypeOK == \A i \in Incidents : review[i] \in Drafts \cup Closed \cup {None}

Init == review = [i \in Incidents |-> None]

\* The Postmortem Agent writes the first draft.
Draft(i, x) ==
    /\ review[i] = None
    /\ review' = [review EXCEPT ![i] = [status |-> "draft", text |-> x]]

\* A reviewer edits it, or moves it between draft and in_review.
Edit(i, s, x) ==
    /\ review[i] \in Drafts
    /\ review' = [review EXCEPT ![i] = [status |-> s, text |-> x]]

\* A reviewer approves what it says now.
Approve(i) ==
    /\ review[i] \in Drafts
    /\ review' = [review EXCEPT ![i].status = "approved"]

Step(i) ==
    \/ \E x \in Texts : Draft(i, x) \/ \E s \in Open : Edit(i, s, x)
    \/ Approve(i)

Next == \E i \in Incidents : Step(i)

Spec == Init /\ [][Next]_review
=============================================================================
