------------------------- MODULE ProvisioningProofs -------------------------
(***************************************************************************)
(* Proofs about Provisioning, for any number of organizations, invitations *)
(* and overlapping requests.  The invariant says what every open request   *)
(* can still rely on: what it loaded names a policy that is still there,   *)
(* and an invitation it holds is pending unless it is raced.               *)
(***************************************************************************)
EXTENDS Provisioning, TLAPS

\* An open invite holds an id that has no row yet.  Any other request found the
\* row it holds, and holds it while it is pending, unless another one wrote it
\* meanwhile.
Holds(q) ==
    /\ q.op = "invite" =>
        /\ q.org \in Orgs /\ q.email \in Emails /\ q.role \in Roles
        /\ q.on \in Invitations /\ invitations[q.on] = NoRow
    /\ q.op # "invite" /\ q.on # NoRow =>
        /\ invitations[q.on] # NoRow
        /\ q.on \in raced \/ invitations[q.on].status = "pending"
    /\ q.op \in {"revoke", "accept"} => q.on \in Invitations
    /\ rowSecurity => q.op # "accept"

\* A login is of one of the subjects, with the email it claims.  Once it is
\* decided, its role is the one of the matched invitation or of a rule.
Decided(q) ==
    /\ q.op \in {"match", "provision", "link"} =>
        /\ q.org \in Orgs /\ q.subject \in Subjects /\ q.email = EmailOf[q.subject]
    /\ q.op = "match" => ~q.matched
    /\ q.op \in {"provision", "link"} =>
        /\ q.role \in Roles
        /\ q.matched => q.on \in Invitations /\ Invites(q.on, q.org, q.email, q.role)
        /\ ~q.matched => \E k \in Rules : Covers(k, q.org, q.email, q.role)

\* No other request holds the id of an open invite.
InvitesDistinct ==
    \A r, p \in Requests : r # p /\ req[r].op = "invite" => req[p].on # req[r].on

\* The inductive invariant.
IInv ==
    /\ TypeOK
    /\ \A r \in Requests : Holds(req[r]) /\ Decided(req[r])
    /\ InvitesDistinct
    /\ OnePendingPerEmail /\ RolesWereGranted /\ AcceptedIsProvisioned

-----------------------------------------------------------------------------
\* What a step never undoes: what a row says of its policy, what was granted.
Kept ==
    /\ \A i \in Invitations : invitations[i] # NoRow =>
        /\ invitations'[i] # NoRow
        /\ invitations'[i].org = invitations[i].org
        /\ invitations'[i].email = invitations[i].email
        /\ invitations'[i].role = invitations[i].role
    /\ \A k \in Rules : rules[k] # NoRow =>
        /\ rules'[k] # NoRow
        /\ rules'[k].org = rules[k].org /\ rules'[k].kind = rules[k].kind
        /\ rules'[k].value = rules[k].value /\ rules'[k].role = rules[k].role
    /\ roles \subseteq roles' /\ mappings \subseteq mappings' /\ raced \subseteq raced'
    /\ rowSecurity' = rowSecurity

\* An invitation that is not pending keeps its status, or is raced.
Closed ==
    \A i \in Invitations \ raced' :
        invitations[i] # NoRow /\ invitations[i].status # "pending" =>
            invitations'[i].status = invitations[i].status

\* Every request that stays open can rely on what the step leaves of its row.
OpenHold ==
    \A p \in Requests :
        \/ req'[p] = Idle
        \/ /\ req'[p] = req[p]
           /\ req[p].op = "invite" => invitations'[req[p].on] = NoRow
           /\ req[p].op # "invite" /\ req[p].on # NoRow =>
                req[p].on \in raced' \/ invitations'[req[p].on].status = "pending"

\* An idle request holds nothing.
LEMMA IdleRequest == Idle \in Request /\ Holds(Idle) /\ Decided(Idle)
BY DEF Idle, Request, Holds, Decided

LEMMA InitOK == Init => IInv
<1> SUFFICES ASSUME Init PROVE IInv
  OBVIOUS
<1>1. TypeOK
  BY IdleRequest DEF Init, TypeOK
<1>2. \A r \in Requests : Holds(req[r]) /\ Decided(req[r])
  BY IdleRequest DEF Init
<1>3. InvitesDistinct
  BY DEF Init, InvitesDistinct, Idle
<1>4. OnePendingPerEmail /\ RolesWereGranted /\ AcceptedIsProvisioned
  BY DEF Init, OnePendingPerEmail, RolesWereGranted, AcceptedIsProvisioned, Pending
<1> QED
  BY <1>1, <1>2, <1>3, <1>4 DEF IInv

\* A request that only reads, and goes on as q, keeps the invariant.
LEMMA RequestStep ==
    ASSUME IInv, NEW r \in Requests, NEW q \in Request, Holds(q), Decided(q),
           q.op = "invite" => \A p \in Requests : req[p].on # q.on,
           Continue(r, q)
    PROVE  IInv'
<1>1. TypeOK'
  BY DEF IInv, TypeOK, Continue
<1>2. ASSUME NEW p \in Requests PROVE Holds(req[p])' /\ Decided(req[p])'
  <2>1. Holds(req'[p]) /\ Decided(req'[p])
    BY DEF IInv, TypeOK, Continue
  <2> QED
    BY <2>1 DEF Continue, Holds, Decided, Invites, Covers
<1>3. ASSUME NEW a \in Requests, NEW b \in Requests, a # b, req'[a].op = "invite"
      PROVE  req'[b].on # req'[a].on
  <2>1. CASE a = r
    BY <1>3, <2>1 DEF IInv, TypeOK, Continue
  <2>2. CASE b = r
    <3>1. req'[a] = req[a] /\ req'[b] = q
      BY <1>3, <2>2 DEF IInv, TypeOK, Continue
    <3>2. req[a].on \in Invitations /\ invitations[req[a].on] = NoRow
      BY <1>3, <3>1 DEF IInv, Holds
    <3> QED
      BY <3>1, <3>2, ProvisioningAssumption DEF Holds
  <2>3. CASE a # r /\ b # r
    BY <1>3, <2>3 DEF IInv, TypeOK, InvitesDistinct, Continue
  <2> QED
    BY <2>1, <2>2, <2>3
<1>4. OnePendingPerEmail' /\ RolesWereGranted' /\ AcceptedIsProvisioned'
  BY SMTT(30) DEF IInv, OnePendingPerEmail, RolesWereGranted, AcceptedIsProvisioned, Pending,
         Invites, Covers, Continue
<1> QED
  BY <1>1, <1>2, <1>3, <1>4 DEF IInv, InvitesDistinct

\* A role that was granted stays granted by a policy.
LEMMA RolesKept ==
    ASSUME IInv, Kept, Closed,
           NEW o \in Orgs, NEW e \in Emails, NEW role \in Roles, <<o, e, role>> \in roles
    PROVE  \/ \E i \in Invitations :
                (Invites(i, o, e, role) /\ (i \in raced \/ invitations[i].status = "accepted"))'
           \/ \E k \in Rules : Covers(k, o, e, role)'
<1>1. CASE \E i \in Invitations :
              Invites(i, o, e, role) /\ (i \in raced \/ invitations[i].status = "accepted")
  <2> PICK i \in Invitations :
              Invites(i, o, e, role) /\ (i \in raced \/ invitations[i].status = "accepted")
    BY <1>1
  <2>1. Invites(i, o, e, role)'
    BY DEF Kept, Invites
  <2>2. i \in raced' \/ invitations'[i].status = "accepted"
    BY DEF Kept, Closed, Invites
  <2> QED
    BY <2>1, <2>2
<1>2. CASE \E k \in Rules : Covers(k, o, e, role)
  BY <1>2 DEF Kept, Covers
<1> QED
  BY <1>1, <1>2 DEF IInv, RolesWereGranted

\* Where transactions only end, what the open requests rely on is still there.
LEMMA RequestsKept ==
    ASSUME IInv, TypeOK', Kept, OpenHold
    PROVE  (\A p \in Requests : Holds(req[p]) /\ Decided(req[p]))' /\ InvitesDistinct'
<1>1. ASSUME NEW p \in Requests PROVE Holds(req[p])' /\ Decided(req[p])'
  <2>1. CASE req'[p] = Idle
    BY <2>1 DEF Holds, Decided, Idle
  <2>2. CASE req'[p] # Idle
    <3>1. req'[p] = req[p] /\ Holds(req[p]) /\ Decided(req[p]) /\ req[p] \in Request
      BY <2>2 DEF IInv, TypeOK, OpenHold
    <3>2. Holds(req[p])'
      BY <2>2, <3>1 DEF Holds, OpenHold, Kept, Request
    <3>3. Decided(req[p])'
      BY <3>1 DEF Decided, Kept, Invites, Covers
    <3> QED
      BY <3>2, <3>3
  <2> QED
    BY <2>1, <2>2
<1>2. ASSUME NEW a \in Requests, NEW b \in Requests, a # b, req'[a].op = "invite"
      PROVE  req'[b].on # req'[a].on
  <2>1. req'[a] = req[a] /\ req[a].on \in Invitations
    BY <1>2 DEF IInv, OpenHold, Idle, Holds
  <2>2. CASE req'[b] = Idle
    BY <2>1, <2>2, ProvisioningAssumption DEF Idle
  <2>3. CASE req'[b] = req[b]
    BY <1>2, <2>1, <2>3 DEF IInv, InvitesDistinct
  <2> QED
    BY <2>2, <2>3 DEF OpenHold
<1> QED
  BY <1>1, <1>2 DEF InvitesDistinct

\* What is left to show of a step that only ends transactions.
LEMMA TablesStep ==
    ASSUME IInv, TypeOK', Kept, Closed, OpenHold, OnePendingPerEmail', AcceptedIsProvisioned',
           \A o \in Orgs, e \in Emails, role \in Roles :
               <<o, e, role>> \in roles' \ roles =>
                   \/ \E i \in Invitations : /\ Invites(i, o, e, role)'
                                             /\ i \in raced' \/ invitations'[i].status = "accepted"
                   \/ \E k \in Rules : Covers(k, o, e, role)'
    PROVE  IInv'
<1>1. RolesWereGranted'
  BY RolesKept DEF RolesWereGranted
<1> QED
  BY <1>1, RequestsKept DEF IInv

-----------------------------------------------------------------------------
(* The requests that read and go on.                                        *)

LEMMA CreateInvitationStep ==
    ASSUME IInv, NEW r \in Requests, NEW i \in Invitations, NEW o \in Orgs, NEW e \in Emails,
           NEW role \in Roles, CreateInvitation(r, i, o, e, role)
    PROVE  IInv'
<1> DEFINE q == [Idle EXCEPT !.op = "invite", !.org = o, !.email = e, !.on = i, !.role = role]
<1>1. q \in Request /\ q.op = "invite" /\ q.on = i
  BY DEF Idle, Request
<1>2. Holds(q) /\ Decided(q)
  BY DEF Idle, Holds, Decided, CreateInvitation
<1> HIDE DEF q
<1> QED
  BY <1>1, <1>2, RequestStep DEF CreateInvitation, q

LEMMA StatusRequestStep ==
    ASSUME IInv, NEW r \in Requests, NEW i \in Invitations,
           RevokeInvitation(r, i) \/ AcceptInvitation(r, i)
    PROVE  IInv'
<1>1. PICK op \in {"revoke", "accept"} :
          /\ Continue(r, [Idle EXCEPT !.op = op, !.on = i])
          /\ op = "accept" => ~rowSecurity
  BY DEF RevokeInvitation, AcceptInvitation
<1> DEFINE q == [Idle EXCEPT !.op = op, !.on = i]
<1>2. q \in Request /\ q.op = op
  BY DEF Idle, Request
<1>3. Holds(q) /\ Decided(q)
  BY <1>1 DEF Idle, Holds, Decided, RevokeInvitation, AcceptInvitation
<1> HIDE DEF q
<1> QED
  BY <1>1, <1>2, <1>3, RequestStep DEF q

LEMMA EvaluateInvitationStep ==
    ASSUME IInv, NEW r \in Requests, NEW o \in Orgs, NEW s \in Subjects,
           EvaluateInvitation(r, o, s)
    PROVE  IInv'
<1> DEFINE q == [Idle EXCEPT !.org = o, !.email = EmailOf[s], !.subject = s]
<1>0. EmailOf[s] \in Emails
  BY ProvisioningAssumption
<1>1. ASSUME Continue(r, [q EXCEPT !.op = "match"])
      PROVE  IInv'
  <2> DEFINE m == [q EXCEPT !.op = "match"]
  <2>1. m \in Request /\ m.op = "match" /\ Holds(m) /\ Decided(m)
    BY <1>0 DEF Idle, Request, Holds, Decided
  <2> HIDE DEF m
  <2> QED
    BY <1>1, <2>1, RequestStep DEF m
<1>2. ASSUME NEW i \in Invitations, Pending(i, o, EmailOf[s]), invitations[i].due,
             Continue(r, [q EXCEPT !.op = "match", !.on = i])
      PROVE  IInv'
  <2> DEFINE m == [q EXCEPT !.op = "match", !.on = i]
  <2>1. m \in Request /\ m.op = "match" /\ Holds(m) /\ Decided(m)
    BY <1>0, <1>2 DEF Idle, Request, Holds, Decided, Pending
  <2> HIDE DEF m
  <2> QED
    BY <1>2, <2>1, RequestStep DEF m
<1>3. ASSUME NEW i \in Invitations, Pending(i, o, EmailOf[s]), ~invitations[i].due,
             Continue(r, [q EXCEPT !.op = "provision", !.on = i, !.matched = TRUE,
                                   !.role = invitations[i].role])
      PROVE  IInv'
  <2> DEFINE m == [q EXCEPT !.op = "provision", !.on = i, !.matched = TRUE,
                            !.role = invitations[i].role]
  <2>1. invitations[i].role \in Roles
    BY <1>3 DEF Pending, IInv, TypeOK, Invitation
  <2>2. m \in Request /\ m.op = "provision"
    BY <1>0, <2>1 DEF Idle, Request
  <2>3. Holds(m) /\ Decided(m)
    BY <1>0, <1>3, <2>1 DEF Idle, Holds, Decided, Pending, Invites
  <2> HIDE DEF m
  <2> QED
    BY <1>3, <2>2, <2>3, RequestStep DEF m
<1> QED
  BY <1>1, <1>2, <1>3 DEF EvaluateInvitation

LEMMA MatchRuleStep ==
    ASSUME IInv, NEW r \in Requests, MatchRule(r)
    PROVE  IInv'
<1> PICK kind \in Kinds, k \in Rules :
        /\ Matches(k, req[r].org, kind, req[r].subject)
        /\ Continue(r, [req[r] EXCEPT !.op = "provision", !.role = rules[k].role])
  BY DEF MatchRule
<1> DEFINE q == [req[r] EXCEPT !.op = "provision", !.role = rules[k].role]
<1>1. req[r] \in Request /\ req[r].op = "match" /\ Holds(req[r]) /\ Decided(req[r])
  BY DEF MatchRule, IInv, TypeOK
<1>2. rules[k] \in AccessRule
  BY DEF Matches, IInv, TypeOK
<1>3. q \in Request /\ q.op = "provision"
  BY <1>1, <1>2 DEF Request, AccessRule
<1>4. Holds(q)
  BY <1>1 DEF Request, Holds
<1>5. Covers(k, req[r].org, req[r].email, rules[k].role)
  BY <1>1, <1>2 DEF Matches, Covers, Decided, AccessRule
<1>6. Decided(q)
  BY <1>1, <1>2, <1>5 DEF Request, AccessRule, Decided
<1> HIDE DEF q
<1> QED
  BY <1>3, <1>4, <1>6, RequestStep DEF q

LEMMA ProvisionUserStep ==
    ASSUME IInv, NEW r \in Requests, ProvisionUser(r)
    PROVE  IInv'
<1> DEFINE q == [req[r] EXCEPT !.op = "link",
                   !.newUser = req[r].email \notin users,
                   !.newRole = <<req[r].org, req[r].email, req[r].role>> \notin roles]
<1>1. req[r] \in Request /\ req[r].op = "provision" /\ Holds(req[r]) /\ Decided(req[r])
  BY DEF ProvisionUser, IInv, TypeOK
<1>2. q \in Request /\ q.op = "link"
  BY ZenonT(60), <1>1 DEF Request
<1>3. Holds(q) /\ Decided(q)
  BY <1>1 DEF Request, Holds, Decided
<1> HIDE DEF q
<1> QED
  BY <1>2, <1>3, RequestStep DEF ProvisionUser, q

-----------------------------------------------------------------------------
(* The steps that write the tables.                                         *)

\* A transaction that ends with Ends leaves one request idle.
LEMMA EndedRequest ==
    ASSUME TypeOK, NEW r \in Requests, NEW i \in Invitations \cup {NoRow}, Ends(r, i)
    PROVE  /\ req' \in [Requests -> Request] /\ raced' \subseteq Invitations
           /\ req'[r] = Idle /\ \A p \in Requests \ {r} : req'[p] = req[p]
           /\ raced \subseteq raced' /\ rowSecurity' = rowSecurity
           /\ i # NoRow => \A p \in Requests \ {r} : req[p].on = i => i \in raced'
BY IdleRequest DEF TypeOK, Ends

LEMMA CommitInvitationStep ==
    ASSUME IInv, NEW r \in Requests, NEW due \in BOOLEAN, CommitInvitation(r, due)
    PROVE  IInv' /\ Closed
<1> DEFINE new == [org |-> req[r].org, email |-> req[r].email, role |-> req[r].role,
                   due |-> due, status |-> "pending"]
           i == req[r].on
<1>1. req[r].op = "invite" /\ Holds(req[r]) /\ TypeOK /\ InvitesDistinct
  BY DEF IInv, CommitInvitation
<1>2. i \in Invitations /\ invitations[i] = NoRow
  BY <1>1 DEF Holds
<1>3. new \in Invitation /\ new # NoRow
  BY <1>1, ProvisioningAssumption DEF Holds, Invitation
<1>4. invitations' = [invitations EXCEPT ![i] = new]
  BY DEF CommitInvitation
<1>5. /\ req' \in [Requests -> Request] /\ raced' \subseteq Invitations
      /\ req'[r] = Idle /\ \A p \in Requests \ {r} : req'[p] = req[p]
      /\ raced \subseteq raced' /\ rowSecurity' = rowSecurity
  BY <1>1, EndedRequest DEF CommitInvitation
<1>6. TypeOK'
  BY <1>1, <1>3, <1>4, <1>5 DEF CommitInvitation, TypeOK
<1>7. Kept /\ Closed
  BY <1>1, <1>2, <1>4, <1>5 DEF CommitInvitation, TypeOK, Kept, Closed
<1>8. OpenHold
  <2> SUFFICES ASSUME NEW p \in Requests, p # r
               PROVE  /\ req[p].op = "invite" => invitations'[req[p].on] = NoRow
                      /\ req[p].op # "invite" /\ req[p].on # NoRow =>
                           req[p].on \in raced' \/ invitations'[req[p].on].status = "pending"
    BY <1>5 DEF OpenHold
  <2>1. req[p].on # i
    BY <1>1 DEF InvitesDistinct
  <2>2. Holds(req[p]) /\ req[p] \in Request
    BY <1>1 DEF IInv, TypeOK
  <2> QED
    BY <1>1, <1>4, <1>5, <2>1, <2>2 DEF Holds, TypeOK, Request
<1>9. OnePendingPerEmail'
  BY <1>1, <1>2, <1>4 DEF CommitInvitation, IInv, TypeOK, OnePendingPerEmail, Pending, NonePending
<1>10. AcceptedIsProvisioned'
  BY <1>1, <1>2, <1>4, <1>5 DEF CommitInvitation, IInv, TypeOK, AcceptedIsProvisioned
<1>11. roles' = roles
  BY DEF CommitInvitation
<1> HIDE DEF new, i
<1> QED
  BY <1>6, <1>7, <1>8, <1>9, <1>10, <1>11, TablesStep

LEMMA CommitStatusStep ==
    ASSUME IInv, NEW r \in Requests, CommitStatus(r)
    PROVE  IInv' /\ Closed
<1> DEFINE i == req[r].on
           new == IF req[r].op = "revoke" THEN "revoked" ELSE "accepted"
<1>1. /\ req[r].op \in {"revoke", "accept"} /\ Holds(req[r]) /\ TypeOK
      /\ i \in Invitations /\ i # NoRow
  BY ProvisioningAssumption DEF IInv, CommitStatus, Holds
<1>2. /\ invitations[i] \in Invitation /\ invitations[i] # NoRow
      /\ i \in raced \/ invitations[i].status = "pending"
  BY <1>1 DEF Holds, TypeOK
<1>3. invitations' = [invitations EXCEPT ![i] = [invitations[i] EXCEPT !.status = new]]
  BY DEF CommitStatus
<1>4. [invitations[i] EXCEPT !.status = new] \in Invitation
  BY <1>2 DEF Invitation
<1>5. /\ req' \in [Requests -> Request] /\ raced' \subseteq Invitations
      /\ req'[r] = Idle /\ \A p \in Requests \ {r} : req'[p] = req[p]
      /\ raced \subseteq raced' /\ rowSecurity' = rowSecurity
      /\ \A p \in Requests \ {r} : req[p].on = i => i \in raced'
  BY <1>1, EndedRequest DEF CommitStatus
<1>6. TypeOK'
  BY <1>1, <1>3, <1>4, <1>5 DEF CommitStatus, TypeOK
<1>7. Kept
  BY <1>1, <1>2, <1>3, <1>4, <1>5, ProvisioningAssumption DEF CommitStatus, TypeOK, Kept, Invitation
<1>8. Closed
  BY <1>1, <1>2, <1>3, <1>5 DEF TypeOK, Closed
<1>9. OpenHold
  <2> SUFFICES ASSUME NEW p \in Requests, p # r
               PROVE  /\ req[p].op = "invite" => invitations'[req[p].on] = NoRow
                      /\ req[p].op # "invite" /\ req[p].on # NoRow =>
                           req[p].on \in raced' \/ invitations'[req[p].on].status = "pending"
    BY <1>5 DEF OpenHold
  <2>1. Holds(req[p]) /\ req[p] \in Request
    BY <1>1 DEF IInv, TypeOK
  <2> QED
    BY <1>1, <1>2, <1>3, <1>5, <2>1 DEF Holds, TypeOK, Request
<1>10. new # "pending"
  OBVIOUS
<1>11. OnePendingPerEmail'
  BY <1>1, <1>2, <1>3, <1>7, <1>10 DEF IInv, TypeOK, OnePendingPerEmail, Pending, Kept, Invitation
<1>12. AcceptedIsProvisioned'
  <2> SUFFICES ASSUME rowSecurity', NEW j \in Invitations,
                      invitations'[j] # NoRow, invitations'[j].status = "accepted"
               PROVE  /\ invitations[j] # NoRow /\ invitations[j].status = "accepted"
                      /\ invitations'[j] = invitations[j] /\ roles' = roles /\ mappings' = mappings
    BY <1>5 DEF IInv, AcceptedIsProvisioned
  <2>1. req[r].op = "revoke"
    BY <1>1, <1>5 DEF Holds
  <2>2. j # i
    BY <1>1, <1>2, <1>3, <2>1 DEF TypeOK, Invitation
  <2> QED
    BY <1>1, <1>3, <2>2 DEF CommitStatus, TypeOK
<1>13. roles' = roles
  BY DEF CommitStatus
<1> HIDE DEF new, i
<1> QED
  BY <1>6, <1>7, <1>8, <1>9, <1>11, <1>12, <1>13, TablesStep

\* Requests that the step leaves as they are, and rows that keep their policy
\* and their status, keep the invariant.
LEMMA PassiveStep ==
    ASSUME IInv, TypeOK', Kept, UNCHANGED <<users, roles, mappings, req, raced>>,
           \A i \in Invitations :
               \/ invitations'[i] = invitations[i]
               \/ /\ invitations[i] # NoRow
                  /\ invitations'[i].status = invitations[i].status
    PROVE  IInv' /\ Closed
<1>1. Closed
  BY DEF Closed
<1>2. OpenHold
  <2> SUFFICES ASSUME NEW p \in Requests
               PROVE  /\ req[p].op = "invite" => invitations'[req[p].on] = NoRow
                      /\ req[p].op # "invite" /\ req[p].on # NoRow =>
                           req[p].on \in raced' \/ invitations'[req[p].on].status = "pending"
    BY DEF OpenHold
  <2>1. Holds(req[p]) /\ req[p] \in Request
    BY DEF IInv, TypeOK
  <2> QED
    BY <2>1 DEF Holds, Request
<1>3. \A i \in Invitations, o \in Orgs, e \in Emails : Pending(i, o, e)' => Pending(i, o, e)
  BY DEF Kept, Pending
<1>4. OnePendingPerEmail'
  BY <1>3 DEF IInv, OnePendingPerEmail
<1>5. AcceptedIsProvisioned'
  <2>1. \A i \in Invitations : invitations'[i] # NoRow =>
            /\ invitations[i] # NoRow
            /\ invitations'[i].status = invitations[i].status
            /\ invitations'[i].org = invitations[i].org
            /\ invitations'[i].email = invitations[i].email
            /\ invitations'[i].role = invitations[i].role
    BY DEF Kept
  <2> QED
    BY ZenonT(60), <2>1 DEF IInv, AcceptedIsProvisioned, Kept
<1> QED
  BY <1>1, <1>2, <1>4, <1>5, TablesStep

LEMMA CreateAccessRuleStep ==
    ASSUME IInv, NEW k \in Rules, NEW rule \in AccessRule, CreateAccessRule(k, rule)
    PROVE  IInv' /\ Closed
<1>1. TypeOK'
  BY DEF IInv, TypeOK, CreateAccessRule
<1>2. Kept
  BY DEF IInv, TypeOK, CreateAccessRule, Kept
<1> QED
  BY <1>1, <1>2, PassiveStep DEF CreateAccessRule

LEMMA DeactivateAccessRuleStep ==
    ASSUME IInv, NEW k \in Rules, DeactivateAccessRule(k)
    PROVE  IInv' /\ Closed
<1>1. rules[k] \in AccessRule /\ [rules[k] EXCEPT !.active = FALSE] \in AccessRule
  BY DEF IInv, TypeOK, DeactivateAccessRule, AccessRule
<1>2. TypeOK'
  BY <1>1 DEF IInv, TypeOK, DeactivateAccessRule
<1>3. Kept
  BY <1>1, ProvisioningAssumption DEF IInv, TypeOK, DeactivateAccessRule, Kept, AccessRule
<1> QED
  BY <1>2, <1>3, PassiveStep DEF DeactivateAccessRule

LEMMA PassExpiryStep ==
    ASSUME IInv, NEW i \in Invitations, PassExpiry(i)
    PROVE  IInv' /\ Closed
<1>1. invitations[i] \in Invitation /\ [invitations[i] EXCEPT !.due = TRUE] \in Invitation
  BY DEF IInv, TypeOK, PassExpiry, Invitation
<1>2. TypeOK'
  BY <1>1 DEF IInv, TypeOK, PassExpiry
<1>3. Kept
  BY <1>1, ProvisioningAssumption DEF IInv, TypeOK, PassExpiry, Kept, Invitation
<1>4. \A j \in Invitations :
          \/ invitations'[j] = invitations[j]
          \/ /\ invitations[j] # NoRow
             /\ invitations'[j].status = invitations[j].status
  BY <1>1 DEF IInv, TypeOK, PassExpiry, Invitation
<1> QED
  BY <1>2, <1>3, <1>4, PassiveStep DEF PassExpiry

\* A transaction that ends without writing a table.
LEMMA EndOnlyStep ==
    ASSUME IInv, NEW r \in Requests, Ends(r, NoRow), noticed' \subseteq Invitations,
           UNCHANGED <<invitations, rules, users, roles, mappings>>
    PROVE  IInv' /\ Closed
<1>1. /\ req' \in [Requests -> Request] /\ raced' \subseteq Invitations
      /\ req'[r] = Idle /\ \A p \in Requests \ {r} : req'[p] = req[p]
      /\ raced \subseteq raced' /\ rowSecurity' = rowSecurity
  BY EndedRequest DEF IInv
<1>2. TypeOK'
  BY <1>1 DEF IInv, TypeOK
<1>3. Kept /\ Closed
  BY <1>1 DEF Kept, Closed
<1>4. OpenHold
  <2> SUFFICES ASSUME NEW p \in Requests, p # r
               PROVE  /\ req[p].op = "invite" => invitations'[req[p].on] = NoRow
                      /\ req[p].op # "invite" /\ req[p].on # NoRow =>
                           req[p].on \in raced' \/ invitations'[req[p].on].status = "pending"
    BY <1>1 DEF OpenHold
  <2>1. Holds(req[p]) /\ req[p] \in Request
    BY DEF IInv, TypeOK
  <2> QED
    BY <1>1, <2>1 DEF Holds, Request
<1>5. OnePendingPerEmail' /\ AcceptedIsProvisioned'
  BY <1>1 DEF IInv, OnePendingPerEmail, Pending, AcceptedIsProvisioned
<1> QED
  BY <1>2, <1>3, <1>4, <1>5, TablesStep

LEMMA DenyLoginStep ==
    ASSUME IInv, NEW r \in Requests, DenyLogin(r)
    PROVE  IInv' /\ Closed
<1>1. noticed' \subseteq Invitations
  BY DEF DenyLogin, IInv, TypeOK, Request
<1> QED
  BY <1>1, EndOnlyStep DEF DenyLogin

LEMMA RollbackStep ==
    ASSUME IInv, NEW r \in Requests, Rollback(r)
    PROVE  IInv' /\ Closed
BY EndOnlyStep DEF Rollback, IInv, TypeOK

LEMMA CommitLoginStep ==
    ASSUME IInv, NEW r \in Requests, CommitLogin(r)
    PROVE  IInv' /\ Closed
<1> DEFINE q == req[r]
           i == req[r].on
           new == IF req[r].matched THEN "accepted" ELSE "expired"
<1>1. /\ q.op = "link" /\ Holds(q) /\ Decided(q) /\ q \in Request /\ TypeOK
      /\ i \in Invitations \cup {NoRow}
  BY DEF CommitLogin, IInv, TypeOK, Request
<1>2. i # NoRow =>
        /\ i \in Invitations /\ invitations[i] \in Invitation /\ invitations[i] # NoRow
        /\ i \in raced \/ invitations[i].status = "pending"
  BY <1>1 DEF Holds, TypeOK
<1>3. invitations' = IF i = NoRow THEN invitations
                     ELSE [invitations EXCEPT ![i] = [invitations[i] EXCEPT !.status = new]]
  BY DEF CommitLogin
<1>4. i # NoRow => [invitations[i] EXCEPT !.status = new] \in Invitation
  BY <1>2 DEF Invitation
<1>5. /\ req' \in [Requests -> Request] /\ raced' \subseteq Invitations
      /\ req'[r] = Idle /\ \A p \in Requests \ {r} : req'[p] = req[p]
      /\ raced \subseteq raced' /\ rowSecurity' = rowSecurity
      /\ i # NoRow => \A p \in Requests \ {r} : req[p].on = i => i \in raced'
  BY <1>1, EndedRequest DEF CommitLogin
<1>6. q.org \in Orgs /\ q.email \in Emails /\ q.role \in Roles /\ q.subject \in Subjects
      /\ q.email = EmailOf[q.subject]
  BY <1>1, ProvisioningAssumption DEF Decided
<1>7. /\ users' = users \cup {q.email}
      /\ roles' = roles \cup {<<q.org, q.email, q.role>>}
      /\ mappings' = mappings \cup {<<q.org, q.subject>>}
      /\ rules' = rules
  BY DEF CommitLogin
<1>8. TypeOK'
  <2>1. noticed' \subseteq Invitations
    BY <1>1 DEF CommitLogin, TypeOK
  <2>2. invitations' \in [Invitations -> Invitation \cup {NoRow}]
    BY <1>1, <1>2, <1>3, <1>4 DEF TypeOK
  <2> QED
    BY <1>1, <1>5, <1>6, <1>7, <2>1, <2>2 DEF TypeOK
<1>9. Kept
  BY <1>1, <1>2, <1>3, <1>4, <1>5, <1>7, ProvisioningAssumption DEF TypeOK, Kept, Invitation
<1>10. Closed
  BY <1>1, <1>2, <1>3, <1>5 DEF TypeOK, Closed
<1>11. OpenHold
  <2> SUFFICES ASSUME NEW p \in Requests, p # r
               PROVE  /\ req[p].op = "invite" => invitations'[req[p].on] = NoRow
                      /\ req[p].op # "invite" /\ req[p].on # NoRow =>
                           req[p].on \in raced' \/ invitations'[req[p].on].status = "pending"
    BY <1>5 DEF OpenHold
  <2>1. Holds(req[p]) /\ req[p] \in Request
    BY <1>1 DEF IInv, TypeOK
  <2> QED
    BY <1>1, <1>2, <1>3, <1>5, <2>1 DEF Holds, TypeOK, Request
<1>12. new # "pending"
  OBVIOUS
<1>13. \A j \in Invitations, o \in Orgs, e \in Emails : Pending(j, o, e)' => Pending(j, o, e)
  BY <1>1, <1>2, <1>3, <1>9, <1>12 DEF TypeOK, Pending, Kept, Invitation
<1>14. OnePendingPerEmail'
  BY <1>13 DEF IInv, OnePendingPerEmail
<1>15. AcceptedIsProvisioned'
  <2> SUFFICES ASSUME rowSecurity', NEW j \in Invitations,
                      invitations'[j] # NoRow, invitations'[j].status = "accepted"
               PROVE  /\ <<invitations'[j].org, invitations'[j].email, invitations'[j].role>> \in roles'
                      /\ \E s \in Subjects : /\ EmailOf[s] = invitations'[j].email
                                             /\ <<invitations'[j].org, s>> \in mappings'
    BY DEF AcceptedIsProvisioned
  <2>1. CASE invitations'[j] = invitations[j]
    BY <1>5, <1>7, <2>1 DEF IInv, AcceptedIsProvisioned
  <2>2. CASE invitations'[j] # invitations[j]
    <3>1. j = i /\ i # NoRow /\ q.matched
      BY <1>1, <1>2, <1>3, <2>2 DEF TypeOK, Invitation
    <3>2. Invites(i, q.org, q.email, q.role)
      BY <1>1, <3>1 DEF Decided
    <3>3. /\ invitations'[j].org = q.org /\ invitations'[j].email = q.email
          /\ invitations'[j].role = q.role
      BY <1>2, <1>9, <3>1, <3>2 DEF Kept, Invites
    <3> QED
      BY <1>6, <1>7, <3>3
  <2> QED
    BY <2>1, <2>2
<1>16. ASSUME NEW o \in Orgs, NEW e \in Emails, NEW role \in Roles,
              <<o, e, role>> \in roles' \ roles
       PROVE  \/ \E j \in Invitations : /\ Invites(j, o, e, role)'
                                        /\ j \in raced' \/ invitations'[j].status = "accepted"
              \/ \E k \in Rules : Covers(k, o, e, role)'
  <2>1. o = q.org /\ e = q.email /\ role = q.role
    BY <1>7, <1>16
  <2>2. CASE q.matched
    <3> PICK j \in Invitations : j = i /\ Invites(j, o, e, role) /\ i # NoRow
      BY <1>1, <2>1, <2>2, ProvisioningAssumption DEF Decided
    <3>1. Invites(j, o, e, role)'
      BY <1>9 DEF Kept, Invites
    <3>2. invitations'[j].status = "accepted"
      BY <1>1, <1>2, <1>3, <2>2 DEF TypeOK, Invitation
    <3> QED
      BY <3>1, <3>2
  <2>3. CASE ~q.matched
    BY <1>1, <1>7, <2>1, <2>3 DEF Decided, Covers
  <2> QED
    BY <2>2, <2>3
<1> HIDE DEF q, i, new
<1> QED
  BY <1>8, <1>9, <1>10, <1>11, <1>14, <1>15, <1>16, TablesStep

\* Every step keeps the invariant, and closed invitations closed.
LEMMA NextOK == IInv /\ [Next]_vars => IInv' /\ Closed
<1> SUFFICES ASSUME IInv, [Next]_vars PROVE IInv' /\ Closed
  OBVIOUS
<1>1. ASSUME NEW r \in Requests, NEW q, Continue(r, q) PROVE Closed
  BY <1>1 DEF Continue, Closed
<1>2. ASSUME NEW r \in Requests, NEW i \in Invitations, NEW o \in Orgs, NEW e \in Emails,
             NEW role \in Roles, CreateInvitation(r, i, o, e, role)
      PROVE  IInv' /\ Closed
  BY <1>1, <1>2, CreateInvitationStep DEF CreateInvitation
<1>3. ASSUME NEW r \in Requests, NEW i \in Invitations,
             RevokeInvitation(r, i) \/ AcceptInvitation(r, i)
      PROVE  IInv' /\ Closed
  BY <1>1, <1>3, StatusRequestStep DEF RevokeInvitation, AcceptInvitation
<1>4. ASSUME NEW r \in Requests, NEW o \in Orgs, NEW s \in Subjects, EvaluateInvitation(r, o, s)
      PROVE  IInv' /\ Closed
  <2>1. Closed
    BY <1>4 DEF EvaluateInvitation, Continue, Closed
  <2> QED
    BY <1>4, <2>1, EvaluateInvitationStep
<1>5. ASSUME NEW r \in Requests, MatchRule(r) PROVE IInv' /\ Closed
  <2>1. Closed
    BY <1>5 DEF MatchRule, Continue, Closed
  <2> QED
    BY <1>5, <2>1, MatchRuleStep
<1>6. ASSUME NEW r \in Requests, ProvisionUser(r) PROVE IInv' /\ Closed
  BY <1>1, <1>6, ProvisionUserStep DEF ProvisionUser
<1>7. CASE UNCHANGED vars
  BY SMTT(30), <1>7 DEF vars, IInv, TypeOK, Holds, Decided, InvitesDistinct, OnePendingPerEmail, Pending,
     RolesWereGranted, Invites, Covers, AcceptedIsProvisioned, Closed
<1>8. CASE Next
  BY <1>2, <1>3, <1>4, <1>5, <1>6, <1>8, CommitInvitationStep, CommitStatusStep, DenyLoginStep,
     CommitLoginStep, RollbackStep, CreateAccessRuleStep, DeactivateAccessRuleStep,
     PassExpiryStep DEF Next
<1> QED
  BY <1>7, <1>8

LEMMA Invariance == Spec => []IInv
BY InitOK, NextOK, PTL DEF Spec

-----------------------------------------------------------------------------
\* The tables and the open requests stay well formed.
THEOREM TypeCorrect == Spec => []TypeOK
<1>1. IInv => TypeOK
  BY DEF IInv
<1> QED
  BY <1>1, Invariance, PTL

\* However many requests overlap, an email has at most one pending invitation
\* in an organization (the partial unique index of Invitation).
THEOREM PendingIsUnique == Spec => []OnePendingPerEmail
<1>1. IInv => OnePendingPerEmail
  BY DEF IInv
<1> QED
  BY <1>1, Invariance, PTL

\* Every role was given by a policy of its organization (evaluate_provisioning).
THEOREM RolesAreGranted == Spec => []RolesWereGranted
<1>1. IInv => RolesWereGranted
  BY DEF IInv
<1> QED
  BY <1>1, Invariance, PTL

\* Under row-level security an accepted invitation has provisioned its invitee
\* (accept_invitation, _resolve_or_provision_user).
THEOREM AcceptanceProvisions == Spec => []AcceptedIsProvisioned
<1>1. IInv => AcceptedIsProvisioned
  BY DEF IInv
<1> QED
  BY <1>1, Invariance, PTL

\* An invitation no two requests held at once is a closed state machine
\* (revoke_invitation).
THEOREM ClosedIsFinal == Spec => ClosedStaysClosed
<1>1. IInv /\ [Next]_vars =>
        [\A i \in Invitations \ raced' :
            invitations[i] # NoRow /\ invitations[i].status # "pending" =>
                invitations'[i].status = invitations[i].status]_vars
  BY NextOK DEF Closed
<1> QED
  BY <1>1, Invariance, PTL DEF Spec, ClosedStaysClosed
=============================================================================
