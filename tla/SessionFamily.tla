--------------------------- MODULE SessionFamily ---------------------------
(***************************************************************************)
(* What app/core/auth promises of a login, whatever tokens carry it: it is *)
(* opened once, it may be closed, and a closed login is never reopened.    *)
(***************************************************************************)
CONSTANT Families   \* the logins (values of refresh_tokens.family_id)

VARIABLE state      \* what each login is

States == {"none", "live", "dead"}

TypeOK == state \in [Families -> States]

Init == state = [f \in Families |-> "none"]

\* A login: the first token of a family is issued.
Open(f) ==
    /\ state[f] = "none"
    /\ state' = [state EXCEPT ![f] = "live"]

\* A logout closes one login, logging out everywhere several at once.
Close(F) ==
    /\ \A f \in F : state[f] = "live"
    /\ state' = [f \in Families |-> IF f \in F THEN "dead" ELSE state[f]]

Next ==
    \/ \E f \in Families : Open(f)
    \/ \E F \in SUBSET Families : Close(F)

Spec == Init /\ [][Next]_state

\* A closed login stays closed.
DeadStaysDead == [][\A f \in Families : state[f] = "dead" => state'[f] = "dead"]_state
=============================================================================
