----------------------------- MODULE MCReviews -----------------------------
(***************************************************************************)
(* The two review workflows, which share no state, in one run: a behaviour *)
(* is one of incidents and postmortems or one of proposed documents, as    *)
(* part says, and the state of the other stays as it began.                *)
(***************************************************************************)
EXTENDS IncidentLifecycle, KnowledgeDocuments, TLC

CONSTANTS x1, x2

VARIABLE part

MCvars == <<part, vars, documentVars>>

MCInit ==
    /\ part \in {"incidents", "documents"}
    /\ Init /\ DocumentsInit

MCNext ==
    /\ part' = part
    /\ \/ part = "incidents" /\ Next /\ UNCHANGED documentVars
       \/ part = "documents" /\ DocumentsNext /\ UNCHANGED vars

MCSpec == MCInit /\ [][MCNext]_MCvars

\* Texts that are not empty and requests are interchangeable.
Symmetry == Permutations({x1, x2}) \cup Permutations(Requests) \cup Permutations(Handlers)
=============================================================================
