CONSTANTS
    Incidents = {i1}
    Postmortems = {p1}
    Texts = {x1, x2}
    Requests = {r1, r2}
    NoRow = NoRow
    Absent = Absent
SPECIFICATION Spec
PROPERTY ApprovedIsClosed
