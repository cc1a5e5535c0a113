--------------------------- MODULE MCProvisioning ---------------------------
(* Instances of Provisioning for TLC. *)
EXTENDS Provisioning, TLC

CONSTANTS s1, s2, acme, oncall

\* s1 is of the company, by its domain; s2 is not, but its claims name a group.
MCEmailOf == [s \in Subjects |-> CHOOSE e \in Emails : TRUE]
MCClaims == [s \in Subjects |-> IF s = s1 THEN [domain |-> {acme}, group |-> {}]
                                ELSE [domain |-> {}, group |-> {oncall}]]

Symmetry == Permutations(Requests) \cup Permutations(Invitations) \cup Permutations(Roles)
=============================================================================
