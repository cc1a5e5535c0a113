--------------------------- MODULE MCAuthSessions ---------------------------
(* Instances of AuthSessions for TLC. *)
EXTENDS AuthSessions, TLC

\* Token values and handlers are interchangeable.
Symmetry == Permutations(Tokens) \cup Permutations(Requests)

\* The same of token values only, for one handler.
TokenSymmetry == Permutations(Tokens)
=============================================================================
