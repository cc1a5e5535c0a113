--------------------------- MODULE Organizations ---------------------------
(***************************************************************************)
(* How an organization comes to be and who may act in it (core/tenancy,    *)
(* core/users, core/auth: signup, password and SSO login, projects,        *)
(* connectors, the SSO configuration).  What core/tenancy does for         *)
(* invitations and access rules is in Provisioning, what becomes of a      *)
(* session in AuthSessions.                                                *)
(*                                                                         *)
(* A request reads, and commits or is rolled back: what it inserts the     *)
(* unique constraints check against what others committed meanwhile.  No   *)
(* code deactivates a user, removes a role or deletes a row of these       *)
(* tables.  An organization goes by its slug, a user by the email address, *)
(* both unique, a project by its name, unique in its organization.         *)
(***************************************************************************)
EXTENDS Naturals, FiniteSets

CONSTANTS
    Slugs, Emails, Passwords,
    Names,       \* of projects, "General" among them
    Memberships, \* project_memberships, which no code of the application writes:
                 \* [email, org, project, manage: does the role grant tenancy:manage]
    Requests,    \* the HTTP requests under way
    MaxConnectors, MaxProjects, \* bounds on the rows of these tables
    NoUser,      \* users[email]: there is no such row
    NoPassword,  \* ... or it has no password_hash
    NoProject    \* no project

VARIABLES
    enforced,      \* the policies of row-level security bind the database user
    organizations, \* the committed rows of each table
    projects, users, userRoles, adminRole, connectors, ssoConfigurations,
    request,       \* what each request has read and is about to commit
    signups        \* history: the signups that committed

tables == <<organizations, projects, users, userRoles, adminRole, connectors, ssoConfigurations>>
tenancyVars == <<enforced, tables, request, signups>>

Idle == [op |-> "none"]
Actors == [email : Emails, org : Slugs]
Projects == [org : Slugs, name : Names, isDefault : BOOLEAN]
Signup == [email : Emails, slug : Slugs, password : Passwords, saw : SUBSET Slugs]

TenancyTypeOK ==
    /\ {enforced, adminRole} \subseteq BOOLEAN
    /\ organizations \subseteq Slugs
    /\ projects \subseteq Projects
    /\ users \in [Emails -> Passwords \cup {NoUser, NoPassword}]
    /\ userRoles \subseteq [email : Emails, org : Slugs, role : {"admin", "member"}]
    /\ connectors \subseteq [org : Slugs, project : Names \cup {NoProject}]
    /\ ssoConfigurations \subseteq Slugs
    /\ \A r \in Requests : request[r].op \in {"none", "signup", "signup_inserted", "organization", "sso"}
    /\ signups \subseteq Signup

TenancyInit ==
    /\ enforced \in BOOLEAN
    /\ organizations = {} /\ projects = {} /\ userRoles = {}
    /\ users = [e \in Emails |-> NoUser]
    /\ adminRole = FALSE
    /\ connectors = {} /\ ssoConfigurations = {}
    /\ request = [r \in Requests |-> Idle]
    /\ signups = {}

Continue(r, q) == request' = [request EXCEPT ![r] = q]
Finish(r) == Continue(r, Idle)

\* An exception, or the database refusing a row: the transaction is rolled back.
RollBack(r) ==
    /\ request[r] # Idle
    /\ Finish(r)
    /\ UNCHANGED <<enforced, tables, signups>>

-----------------------------------------------------------------------------
(* signup.                                                                  *)

\* What both ways to create an organization insert: it, and its project.
General(slug) == [org |-> slug, name |-> "General", isDefault |-> TRUE]

\* Mutant of EmailFree: nothing is looked up.
EmailUnlooked(email) == TRUE

\* get_credential_lookup finds no account.
EmailFree(email) == users[email] = NoUser

SlugFree(slug) == slug \notin organizations

BeginSignup(r, email, slug, password) ==
    /\ request[r] = Idle
    /\ EmailFree(email) /\ SlugFree(slug)
    /\ Continue(r, [op |-> "signup", email |-> email, slug |-> slug, password |-> password,
                    saw |-> {s.slug : s \in signups}])
    /\ UNCHANGED <<enforced, tables, signups>>

\* The project is refused where the policies are enforced: no tenant is set.  Then
\* get_or_create_user looks for the email address again, and ensure_admin_role for
\* the role: a row found is used, the others are inserted.
InsertSignup(r) ==
    LET q == request[r]
    IN /\ q.op = "signup"
       /\ ~enforced
       /\ Continue(r, [op |-> "signup_inserted", email |-> q.email, slug |-> q.slug, password |-> q.password,
                       saw |-> q.saw, newUser |-> users[q.email] = NoUser, newRole |-> ~adminRole])
       /\ UNCHANGED <<enforced, tables, signups>>

\* The password is set whether the user is new or not.
CommitSignup(r) ==
    LET q == request[r]
    IN /\ q.op = "signup_inserted"
       /\ SlugFree(q.slug)
       /\ q.newUser => users[q.email] = NoUser
       /\ q.newRole => ~adminRole
       /\ organizations' = organizations \cup {q.slug}
       /\ projects' = projects \cup {General(q.slug)}
       /\ users' = [users EXCEPT ![q.email] = q.password]
       /\ adminRole' = TRUE
       /\ userRoles' = userRoles \cup {[email |-> q.email, org |-> q.slug, role |-> "admin"]}
       /\ signups' = signups \cup {[email |-> q.email, slug |-> q.slug, password |-> q.password, saw |-> q.saw]}
       /\ Finish(r)
       /\ UNCHANGED <<enforced, connectors, ssoConfigurations>>

-----------------------------------------------------------------------------
(* Logins.                                                                  *)

MemberOf(email) == {org \in Slugs : \E row \in userRoles : row.email = email /\ row.org = org}

\* Every login is for an organization the user has a role in, and resolve_identity
\* reads the roles anew for every request.
Acts(actor) == actor.org \in MemberOf(actor.email)

\* Where login_with_password may end up: get_first_organization_id has a limit and no order,
\* and without a tenant it sees no role where the policies are enforced.
LoginOrganizations(email, password) ==
    IF users[email] = password /\ ~enforced THEN MemberOf(email) ELSE {}

\* handle_sso_callback of someone whom the organization's rules let in, and who is
\* made a user, without a password, if need be (see Provisioning).
LoginWithSso(email, org) ==
    /\ org \in ssoConfigurations
    /\ users' = [users EXCEPT ![email] = IF @ = NoUser THEN NoPassword ELSE @]
    /\ userRoles' = userRoles \cup {[email |-> email, org |-> org, role |-> "member"]}
    /\ UNCHANGED <<enforced, organizations, projects, adminRole, connectors, ssoConfigurations, request, signups>>

-----------------------------------------------------------------------------
(* What a member of an organization may do.                                 *)

\* get_project_permission_map: the rows of this project, for this actor.
Overrides(actor, project) ==
    {m \in Memberships : m.email = actor.email /\ m.org = actor.org /\ m.project = project}

\* has_permission("tenancy:manage"): a row for the project replaces what the
\* actor's roles in the organization grant.
HasPermission(actor, project) ==
    IF Overrides(actor, project) # {} THEN \E m \in Overrides(actor, project) : m.manage
    ELSE [email |-> actor.email, org |-> actor.org, role |-> "admin"] \in userRoles

\* POST /organizations, by any user: an organization without members.  Its project
\* is refused as that of a signup is.
BeginOrganization(r, actor, slug) ==
    /\ request[r] = Idle
    /\ Acts(actor)
    /\ SlugFree(slug)
    /\ Continue(r, [op |-> "organization", slug |-> slug])
    /\ UNCHANGED <<enforced, tables, signups>>

CommitOrganization(r) ==
    LET slug == request[r].slug
    IN /\ request[r].op = "organization"
       /\ SlugFree(slug) /\ ~enforced
       /\ organizations' = organizations \cup {slug}
       /\ projects' = projects \cup {General(slug)}
       /\ Finish(r)
       /\ UNCHANGED <<enforced, users, userRoles, adminRole, connectors, ssoConfigurations, signups>>

\* Any number of an organization's projects may be its default.
CreateProject(actor, name, isDefault) ==
    /\ Acts(actor)
    /\ HasPermission(actor, NoProject)
    /\ \A p \in projects : ~(p.org = actor.org /\ p.name = name)
    /\ Cardinality(projects) < MaxProjects
    /\ projects' = projects \cup {[org |-> actor.org, name |-> name, isDefault |-> isDefault]}
    /\ UNCHANGED <<enforced, organizations, users, userRoles, adminRole, connectors, ssoConfigurations, request, signups>>

\* A project of another organization is not accepted.
RegisterConnector(actor, project) ==
    /\ Acts(actor)
    /\ project = NoProject \/ \E p \in projects : p.org = actor.org /\ p.name = project
    /\ HasPermission(actor, project)
    /\ Cardinality(connectors) < MaxConnectors
    /\ connectors' = connectors \cup {[org |-> actor.org, project |-> project]}
    /\ UNCHANGED <<enforced, organizations, projects, users, userRoles, adminRole, ssoConfigurations, request, signups>>

\* configure_sso.
BeginSso(r, actor) ==
    /\ request[r] = Idle
    /\ Acts(actor)
    /\ HasPermission(actor, NoProject)
    /\ actor.org \notin ssoConfigurations
    /\ Continue(r, [op |-> "sso", org |-> actor.org])
    /\ UNCHANGED <<enforced, tables, signups>>

CommitSso(r) ==
    /\ request[r].op = "sso"
    /\ request[r].org \notin ssoConfigurations
    /\ ssoConfigurations' = ssoConfigurations \cup {request[r].org}
    /\ Finish(r)
    /\ UNCHANGED <<enforced, organizations, projects, users, userRoles, adminRole, connectors, signups>>

TenancyNext ==
    \/ \E r \in Requests :
        \/ RollBack(r)
        \/ \E email \in Emails, slug \in Slugs, password \in Passwords : BeginSignup(r, email, slug, password)
        \/ InsertSignup(r)
        \/ CommitSignup(r)
        \/ \E actor \in Actors, slug \in Slugs : BeginOrganization(r, actor, slug)
        \/ CommitOrganization(r)
        \/ \E actor \in Actors : BeginSso(r, actor)
        \/ CommitSso(r)
    \/ \E email \in Emails, org \in Slugs : LoginWithSso(email, org)
    \/ \E actor \in Actors :
        \/ \E name \in Names, isDefault \in BOOLEAN : CreateProject(actor, name, isDefault)
        \/ \E project \in Names \cup {NoProject} : RegisterConnector(actor, project)

TenancySpec == TenancyInit /\ [][TenancyNext]_tenancyVars

-----------------------------------------------------------------------------
(* Properties.                                                              *)

\* get_default_project finds a row (and raises if it finds two).
HasDefault(slug) == \E p \in projects : p.org = slug /\ p.isDefault

\* What someone signed up for is there: the organization with its default project,
\* which they administer, and which a password of theirs may open.  Another signup of the same
\* email address can only have been under way at the same time.
SignupsTakeEffect ==
    \A s \in signups :
        /\ s.slug \in organizations /\ HasDefault(s.slug)
        /\ HasPermission([email |-> s.email, org |-> s.slug], NoProject)
        /\ \E t \in signups : t.email = s.email /\ s.slug \in LoginOrganizations(s.email, t.password)
        /\ \A t \in signups : t.email = s.email => t.slug \notin s.saw
        /\ \A t \in signups : t.slug = s.slug => t = s

=============================================================================
