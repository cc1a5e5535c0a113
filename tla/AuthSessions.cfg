CONSTANTS
    Tokens = {t1, t2, t3}
    Requests = {r1, r2}
    Users = {u1, u2}
    Orgs = {o1}
    NoRow = NoRow
    NoToken = NoToken
SPECIFICATION Spec
SYMMETRY Symmetry
CHECK_DEADLOCK FALSE
INVARIANT TypeOK
INVARIANT RotationLineage
INVARIANT AtMostOneLivePerFamily
INVARIANT LoggedOutStaysOut
PROPERTY RefinesSessionFamily
