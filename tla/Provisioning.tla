---------------------------- MODULE Provisioning ----------------------------
(***************************************************************************)
(* Who may join an organization, and with which role: invitations and      *)
(* access rules (app/core/tenancy), and the single sign-on login that      *)
(* reads them, creates the user, grants the role and links the subject     *)
(* (app/core/auth, app/core/users), under concurrent requests.             *)
(*                                                                         *)
(* A request runs in one READ COMMITTED transaction: it decides on the     *)
(* rows it loaded, its writes reach the tables at its commit, and a unique *)
(* index refuses the second of two commits that insert the same key.  The  *)
(* exchange with the identity provider comes before any of this, and the   *)
(* session it ends in is in AuthSessions.                                  *)
(***************************************************************************)
EXTENDS Naturals

CONSTANTS
    Orgs, Emails, Roles,   \* organizations.id, users.email, roles.id
    Subjects,              \* subjects of the identity providers
    EmailOf,               \* the email claim of a subject
    Claims,                \* the values its domain and group claims match, by rule_type
    Values,                \* organization_access_rules.value
    Invitations, Rules,    \* ids of the two tables
    Requests,              \* requests that may run at the same time
    NoRow                  \* "no row has this id", "nothing was loaded"

Kinds == {"domain", "group"}

Invitation == [org : Orgs, email : Emails, role : Roles, due : BOOLEAN,
               status : {"pending", "accepted", "expired", "revoked"}]
AccessRule == [org : Orgs, kind : Kinds, value : Values, role : Roles, active : BOOLEAN]

ASSUME ProvisioningAssumption ==
    /\ EmailOf \in [Subjects -> Emails]
    /\ Claims \in [Subjects -> [Kinds -> SUBSET Values]]
    /\ NoRow \notin Invitation \cup AccessRule \cup Orgs \cup Emails \cup Roles
                    \cup Subjects \cup Invitations

VARIABLES
    invitations,  \* the committed rows; due: expires_at has passed
    rules,        \* the committed organization_access_rules
    users,        \* the emails of the users there are
    roles,        \* the committed user_roles, with the user by email
    mappings,     \* the committed external_identity_mappings
    req,          \* the requests
    rowSecurity,  \* the database role is bound by row-level security: a matter
                  \* of deployment, fixed from the start
    noticed,      \* history: the invitations a login found past due, and ended
    raced         \* history: the invitations that two requests held at once

vars == <<invitations, rules, users, roles, mappings, req, rowSecurity, noticed, raced>>

\* op is what the request does next; on is the invitation it is about to write,
\* and matched says that it is matched_invitation_id.
Request ==
    [op : {"none", "invite", "revoke", "accept", "match", "provision", "link"},
     org : Orgs \cup {NoRow}, email : Emails \cup {NoRow}, subject : Subjects \cup {NoRow},
     on : Invitations \cup {NoRow}, role : Roles \cup {NoRow},
     matched : BOOLEAN, newUser : BOOLEAN, newRole : BOOLEAN]

Idle == [op |-> "none", org |-> NoRow, email |-> NoRow, subject |-> NoRow,
         on |-> NoRow, role |-> NoRow,
         matched |-> FALSE, newUser |-> FALSE, newRole |-> FALSE]

TypeOK ==
    /\ invitations \in [Invitations -> Invitation \cup {NoRow}]
    /\ rules \in [Rules -> AccessRule \cup {NoRow}]
    /\ users \subseteq Emails
    /\ roles \subseteq Orgs \X Emails \X Roles
    /\ mappings \subseteq Orgs \X Subjects
    /\ req \in [Requests -> Request]
    /\ rowSecurity \in BOOLEAN
    /\ noticed \subseteq Invitations
    /\ raced \subseteq Invitations

Init ==
    /\ invitations = [i \in Invitations |-> NoRow]
    /\ rules = [k \in Rules |-> NoRow]
    /\ users = {} /\ roles = {} /\ mappings = {}
    /\ req = [r \in Requests |-> Idle]
    /\ rowSecurity \in BOOLEAN
    /\ noticed = {} /\ raced = {}

-----------------------------------------------------------------------------
\* get_pending_invitation finds i for email e of o, whether it is due or not.
Pending(i, o, e) ==
    /\ invitations[i] # NoRow
    /\ invitations[i].org = o /\ invitations[i].email = e
    /\ invitations[i].status = "pending"

NonePending(o, e) == \A i \in Invitations : ~Pending(i, o, e)

\* Rule k is active and of the kind, and matches what the subject claims.
Matches(k, o, kind, s) ==
    /\ rules[k] # NoRow
    /\ rules[k].org = o /\ rules[k].kind = kind /\ rules[k].active
    /\ rules[k].value \in Claims[s][kind]

\* Request r, new or under way, has read what it needs and goes on as q.
Continue(r, q) ==
    /\ req' = [req EXCEPT ![r] = q]
    /\ UNCHANGED <<invitations, rules, users, roles, mappings, rowSecurity, noticed, raced>>

\* The transaction of r ends; it holds or has written invitation i.
Ends(r, i) ==
    /\ req' = [req EXCEPT ![r] = Idle]
    /\ raced' = IF i # NoRow /\ \E q \in Requests \ {r} : req[q].on = i
                THEN raced \cup {i} ELSE raced
    /\ UNCHANGED rowSecurity

-----------------------------------------------------------------------------
\* The id is a fresh uuid.
CreateInvitation(r, i, o, e, role) ==
    /\ req[r].op = "none"
    /\ invitations[i] = NoRow /\ \A q \in Requests : req[q].on # i
    /\ NonePending(o, e)
    /\ Continue(r, [Idle EXCEPT !.op = "invite", !.org = o, !.email = e, !.on = i, !.role = role])

\* Mutant of CommitInvitation: no unique index backs the check.
CommitInvitationUnchecked(r, due) ==
    /\ req[r].op = "invite"
    /\ invitations' = [invitations EXCEPT ![req[r].on] =
         [org |-> req[r].org, email |-> req[r].email, role |-> req[r].role,
          due |-> due, status |-> "pending"]]
    /\ Ends(r, NoRow)
    /\ UNCHANGED <<rules, users, roles, mappings, noticed>>

\* Mutant of CommitInvitation: the row is inserted without its status.
CommitInvitationNoStatus(r, due) ==
    /\ req[r].op = "invite"
    /\ NonePending(req[r].org, req[r].email)
    /\ invitations' = [invitations EXCEPT ![req[r].on] =
         [org |-> req[r].org, email |-> req[r].email, role |-> req[r].role,
          due |-> due, status |-> NoRow]]
    /\ Ends(r, NoRow)
    /\ UNCHANGED <<rules, users, roles, mappings, noticed>>

\* uq_invitations_org_email_pending admits the row.  A caller may give an
\* expiry in the past.
CommitInvitation(r, due) ==
    /\ req[r].op = "invite"
    /\ NonePending(req[r].org, req[r].email)
    /\ invitations' = [invitations EXCEPT ![req[r].on] =
         [org |-> req[r].org, email |-> req[r].email, role |-> req[r].role,
          due |-> due, status |-> "pending"]]
    /\ Ends(r, NoRow)
    /\ UNCHANGED <<rules, users, roles, mappings, noticed>>

\* Mutant of RevokeInvitation: an accepted invitation can be revoked.
RevokeAnyInvitation(r, i) ==
    /\ req[r].op = "none"
    /\ invitations[i] # NoRow
    /\ Continue(r, [Idle EXCEPT !.op = "revoke", !.on = i])

RevokeInvitation(r, i) ==
    /\ req[r].op = "none"
    /\ invitations[i] # NoRow /\ invitations[i].status = "pending"
    /\ Continue(r, [Idle EXCEPT !.op = "revoke", !.on = i])

\* Mutant of AcceptInvitation: the rows are read without a tenant context.
AcceptInvitationAnyRole(r, i) ==
    /\ req[r].op = "none"
    /\ invitations[i] # NoRow /\ invitations[i].status = "pending" /\ ~invitations[i].due
    /\ Continue(r, [Idle EXCEPT !.op = "accept", !.on = i])

\* POST /invitations/{id}/accept has no identity and sets no tenant context,
\* so it finds no row when row-level security binds.
AcceptInvitation(r, i) ==
    /\ req[r].op = "none"
    /\ ~rowSecurity
    /\ invitations[i] # NoRow /\ invitations[i].status = "pending" /\ ~invitations[i].due
    /\ Continue(r, [Idle EXCEPT !.op = "accept", !.on = i])

\* update_invitation_status of a revocation or of the accept route.
CommitStatus(r) ==
    /\ req[r].op \in {"revoke", "accept"}
    /\ invitations' = [invitations EXCEPT ![req[r].on].status =
         IF req[r].op = "revoke" THEN "revoked" ELSE "accepted"]
    /\ Ends(r, req[r].on)
    /\ UNCHANGED <<rules, users, roles, mappings, noticed>>

\* Nothing is checked that another request could change: one step.
CreateAccessRule(k, rule) ==
    /\ rules[k] = NoRow
    /\ rules' = [rules EXCEPT ![k] = rule]
    /\ UNCHANGED <<invitations, users, roles, mappings, req, rowSecurity, noticed, raced>>

DeactivateAccessRule(k) ==
    /\ rules[k] # NoRow
    /\ rules' = [rules EXCEPT ![k].active = FALSE]
    /\ UNCHANGED <<invitations, users, roles, mappings, req, rowSecurity, noticed, raced>>

\* The expires_at of a row passes.
PassExpiry(i) ==
    /\ invitations[i] # NoRow /\ ~invitations[i].due
    /\ invitations' = [invitations EXCEPT ![i].due = TRUE]
    /\ UNCHANGED <<rules, users, roles, mappings, req, rowSecurity, noticed, raced>>

-----------------------------------------------------------------------------
(* complete_sso_login, from the verified claims to the linked user.          *)

\* A subject that is linked already changes nothing.  A pending invitation that
\* is not due decides; one that is due is marked, in this transaction.
EvaluateInvitation(r, o, s) ==
    /\ req[r].op = "none"
    /\ <<o, s>> \notin mappings
    /\ LET q == [Idle EXCEPT !.org = o, !.email = EmailOf[s], !.subject = s]
       IN \/ /\ NonePending(o, EmailOf[s])
             /\ Continue(r, [q EXCEPT !.op = "match"])
          \/ \E i \in Invitations :
                /\ Pending(i, o, EmailOf[s])
                /\ Continue(r, IF invitations[i].due
                               THEN [q EXCEPT !.op = "match", !.on = i]
                               ELSE [q EXCEPT !.op = "provision", !.on = i, !.matched = TRUE,
                                              !.role = invitations[i].role])

\* Mutant of MatchRule: the value of a group rule is not compared.
MatchRuleAnyGroup(r) ==
    /\ req[r].op = "match"
    /\ \E k \in Rules :
        /\ rules[k] # NoRow /\ rules[k].org = req[r].org /\ rules[k].active
        /\ rules[k].kind = "domain" => rules[k].value \in Claims[req[r].subject]["domain"]
        /\ Continue(r, [req[r] EXCEPT !.op = "provision", !.role = rules[k].role])

\* The domain rules come first; rows of one kind come in any order.
MatchRule(r) ==
    /\ req[r].op = "match"
    /\ \E kind \in Kinds, k \in Rules :
        /\ Matches(k, req[r].org, kind, req[r].subject)
        /\ kind = "group" => \A l \in Rules : ~Matches(l, req[r].org, "domain", req[r].subject)
        /\ Continue(r, [req[r] EXCEPT !.op = "provision", !.role = rules[k].role])

\* No policy matches: the exception rolls the transaction back, and the mark
\* on an expired invitation with it.
DenyLogin(r) ==
    /\ req[r].op = "match"
    /\ \A kind \in Kinds, k \in Rules : ~Matches(k, req[r].org, kind, req[r].subject)
    /\ noticed' = noticed \cup ({req[r].on} \ {NoRow})
    /\ Ends(r, NoRow)
    /\ UNCHANGED <<invitations, rules, users, roles, mappings>>

\* get_or_create_user and assign_role look for what is there already, and
\* accept_invitation checks the expiry again.
ProvisionUser(r) ==
    /\ req[r].op = "provision"
    /\ req[r].matched => ~invitations[req[r].on].due
    /\ Continue(r, [req[r] EXCEPT !.op = "link",
         !.newUser = req[r].email \notin users,
         !.newRole = <<req[r].org, req[r].email, req[r].role>> \notin roles])

\* The keys of the rows that r inserts are free, and its writes reach the tables.
CommitLogin(r) ==
    /\ req[r].op = "link"
    /\ req[r].newUser => req[r].email \notin users
    /\ req[r].newRole => <<req[r].org, req[r].email, req[r].role>> \notin roles
    /\ <<req[r].org, req[r].subject>> \notin mappings
    /\ users' = users \cup {req[r].email}
    /\ roles' = roles \cup {<<req[r].org, req[r].email, req[r].role>>}
    /\ mappings' = mappings \cup {<<req[r].org, req[r].subject>>}
    /\ invitations' = IF req[r].on = NoRow THEN invitations
                      ELSE [invitations EXCEPT ![req[r].on].status =
                              IF req[r].matched THEN "accepted" ELSE "expired"]
    /\ noticed' = IF req[r].matched THEN noticed ELSE noticed \cup ({req[r].on} \ {NoRow})
    /\ Ends(r, req[r].on)
    /\ UNCHANGED rules

\* A check or a unique index refuses the request, or the process dies.
Rollback(r) ==
    /\ req[r].op # "none"
    /\ Ends(r, NoRow)
    /\ UNCHANGED <<invitations, rules, users, roles, mappings, noticed>>

Next ==
    \/ \E r \in Requests :
        \/ \E i \in Invitations :
            \/ \E o \in Orgs, e \in Emails, role \in Roles : CreateInvitation(r, i, o, e, role)
            \/ RevokeInvitation(r, i)
            \/ AcceptInvitation(r, i)
        \/ \E due \in BOOLEAN : CommitInvitation(r, due)
        \/ CommitStatus(r)
        \/ \E o \in Orgs, s \in Subjects : EvaluateInvitation(r, o, s)
        \/ MatchRule(r)
        \/ DenyLogin(r)
        \/ ProvisionUser(r)
        \/ CommitLogin(r)
        \/ Rollback(r)
    \/ \E k \in Rules :
        \/ \E rule \in AccessRule : CreateAccessRule(k, rule)
        \/ DeactivateAccessRule(k)
    \/ \E i \in Invitations : PassExpiry(i)

Spec == Init /\ [][Next]_vars

-----------------------------------------------------------------------------
(* Properties.                                                              *)

\* However requests overlap, an email has at most one pending invitation in an
\* organization: create_invitation's check can be overtaken, the partial unique
\* index cannot, and get_pending_invitation fails if it finds two.
OnePendingPerEmail ==
    \A i, j \in Invitations, o \in Orgs, e \in Emails :
        Pending(i, o, e) /\ Pending(j, o, e) => i = j

\* Invitation i, or rule k, gives email e the role in o.
Invites(i, o, e, role) ==
    /\ invitations[i] # NoRow
    /\ invitations[i].org = o /\ invitations[i].email = e /\ invitations[i].role = role

Covers(k, o, e, role) ==
    /\ rules[k] # NoRow
    /\ rules[k].org = o /\ rules[k].role = role
    /\ \E s \in Subjects : EmailOf[s] = e /\ rules[k].value \in Claims[s][rules[k].kind]

\* Every role anyone holds was given by a policy of that organization: by an
\* invitation of that email which the login accepted, unless a revocation
\* overlapped it, or by a rule that covers it (evaluate_provisioning).
RolesWereGranted ==
    \A o \in Orgs, e \in Emails, role \in Roles : <<o, e, role>> \in roles =>
        \/ \E i \in Invitations :
            Invites(i, o, e, role) /\ (i \in raced \/ invitations[i].status = "accepted")
        \/ \E k \in Rules : Covers(k, o, e, role)

\* Where row-level security binds, an accepted invitation has been "consumed at
\* the invitee's successful first SSO login" (Invitation): its role is held and
\* a subject with its email is linked, however requests overlap.
AcceptedIsProvisioned ==
    rowSecurity => \A i \in Invitations :
        invitations[i] # NoRow /\ invitations[i].status = "accepted" =>
            /\ <<invitations[i].org, invitations[i].email, invitations[i].role>> \in roles
            /\ \E s \in Subjects : /\ EmailOf[s] = invitations[i].email
                                   /\ <<invitations[i].org, s>> \in mappings

\* An invitation that is accepted, expired or revoked is "a closed state
\* machine" (revoke_invitation), unless two requests held it at once.
ClosedStaysClosed ==
    [][\A i \in Invitations \ raced' :
        invitations[i] # NoRow /\ invitations[i].status # "pending" =>
            invitations'[i].status = invitations[i].status]_vars

\* An invitation that a login found past due is marked "now that we've noticed"
\* (evaluate_provisioning).
NoticedIsMarked == \A i \in noticed : invitations[i].status # "pending"
=============================================================================
