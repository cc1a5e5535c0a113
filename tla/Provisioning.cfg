CONSTANTS
    s1 = s1
    s2 = s2
    acme = acme
    oncall = oncall
    Orgs = {o1}
    Emails = {e1}
    Roles = {admin, viewer}
    Subjects = {s1, s2}
    EmailOf <- MCEmailOf
    Claims <- MCClaims
    Values = {acme, oncall}
    Invitations = {i1, i2}
    Rules = {k1}
    Requests = {r1, r2}
    NoRow = NoRow
SPECIFICATION Spec
SYMMETRY Symmetry
CHECK_DEADLOCK FALSE
INVARIANT TypeOK
INVARIANT OnePendingPerEmail
INVARIANT RolesWereGranted
INVARIANT AcceptedIsProvisioned
PROPERTY ClosedStaysClosed
