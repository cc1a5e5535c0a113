CONSTANTS
    Tokens = {t1, t2, t3}
    Requests = {r1}
    Users = {u1}
    Orgs = {o1}
    NoRow = NoRow
    NoToken = NoToken
SPECIFICATION Spec
SYMMETRY TokenSymmetry
CHECK_DEADLOCK FALSE
INVARIANT ReusedFamilyIsDead
