---------------------------- MODULE AuthSessions ----------------------------
(***************************************************************************)
(* Refresh-token sessions of app/core/auth: issuing, rotation, reuse       *)
(* detection, logout and logout-everywhere, run by concurrent requests.    *)
(*                                                                         *)
(* Every request runs in one READ COMMITTED transaction that the session   *)
(* helper of app/database/session.py commits when the handler returns and  *)
(* rolls back when an exception escapes it.  A handler reads the committed *)
(* table once, buffers its writes (the "flushed" state), and its writes    *)
(* reach the table only at the commit.  Row locks order the commits of two *)
(* requests that update one row; since every update here sets a constant,  *)
(* the order of the commits is all they decide.                            *)
(***************************************************************************)
EXTENDS Naturals, FiniteSets

CONSTANTS
    Tokens,     \* refresh tokens; a token stands for its hash and its row id
    Requests,   \* request handlers that may run at the same time
    Users,      \* users.id
    Orgs,       \* organizations.id
    NoRow,      \* "no row has this hash"
    NoToken     \* "no token"

\* A row of refresh_tokens.  A family id is a fresh uuid made with the first
\* token of a login: it is represented by that token.
Row == [user : Users, org : Orgs, family : Tokens, revoked : BOOLEAN]

ASSUME NullsAreFresh == NoRow \notin Row /\ NoToken \notin Tokens

VARIABLES
    row,        \* the committed table refresh_tokens
    expired,    \* tokens whose expires_at has passed
    req,        \* the state of each request handler
    parent,     \* history: the token that was exchanged for this one
    reused,     \* history: families whose reuse was detected and answered
    ended,      \* history: families whose live tokens a committed logout revoked
    raced       \* history: families that two transactions wrote at the same time

vars == <<row, expired, req, parent, reused, ended, raced>>

Steps == {"idle", "peeked", "reused", "flushed"}
Ops == {"none", "login", "refresh", "reuse", "logout"}

Handler ==
    [pc : Steps, op : Ops, token : Tokens \cup {NoToken},
     revokes : SUBSET Tokens, insert : Tokens \cup {NoToken},
     new : Row \cup {NoRow}]

Idle == [pc |-> "idle", op |-> "none", token |-> NoToken,
         revokes |-> {}, insert |-> NoToken, new |-> NoRow]

TypeOK ==
    /\ row \in [Tokens -> Row \cup {NoRow}]
    /\ expired \subseteq Tokens
    /\ req \in [Requests -> Handler]
    /\ parent \in [Tokens -> Tokens \cup {NoToken}]
    /\ reused \subseteq Tokens
    /\ ended \subseteq Tokens
    /\ raced \subseteq Tokens

Init ==
    /\ row = [t \in Tokens |-> NoRow]
    /\ expired = {}
    /\ req = [r \in Requests |-> Idle]
    /\ parent = [t \in Tokens |-> NoToken]
    /\ reused = {}
    /\ ended = {}
    /\ raced = {}

-----------------------------------------------------------------------------
Issued(t) == row[t] # NoRow

Live(t) == Issued(t) /\ ~row[t].revoked

\* Mutant of Usable: the check of revoked_at is gone.
UsableThoughRevoked(t) == Issued(t) /\ t \notin expired

\* The checks peek_refresh_token and refresh make on the row they read.
Usable(t) == Live(t) /\ t \notin expired

\* A token value no row and no open transaction holds.
Unused(t) == ~Issued(t) /\ \A r \in Requests : req[r].insert # t

\* f is the family of a login: the one its first token made.
IsFamily(f) == Issued(f) /\ row[f].family = f

LiveInFamily(f) == {t \in Tokens : Live(t) /\ row[t].family = f}

LiveOfUser(u, o) == {t \in Tokens : Live(t) /\ row[t].user = u /\ row[t].org = o}

\* The handler has made its last write; the transaction is still open.
Flush(r, op, t, revokes, insert, new) ==
    req' = [req EXCEPT ![r] = [pc |-> "flushed", op |-> op, token |-> t,
                               revokes |-> revokes, insert |-> insert, new |-> new]]

\* The handler has written nothing yet.
Read(r, pc, op, t) ==
    req' = [req EXCEPT ![r] = [pc |-> pc, op |-> op, token |-> t,
                               revokes |-> {}, insert |-> NoToken, new |-> NoRow]]

Finish(r) == req' = [req EXCEPT ![r] = Idle]

\* Mutant of IssueSession: the family id is not carried into the row.
IssueWithoutFamily(u, o, f) == [user |-> u, org |-> o, family |-> NoToken, revoked |-> FALSE]

\* _issue_session: the row of a new token.
IssueSession(u, o, f) == [user |-> u, org |-> o, family |-> f, revoked |-> FALSE]

\* Every login path (password, SSO, signup, the MCP confirmation page) ends in
\* _issue_session with a new family.
Login(r, u, o, n) ==
    /\ req[r].pc = "idle"
    /\ Unused(n)
    /\ Flush(r, "login", NoToken, {}, n, IssueSession(u, o, n))
    /\ UNCHANGED <<row, expired, parent, reused, ended, raced>>

\* The MCP bridge looks at a token, in a transaction of its own, before it
\* exchanges it; a token that is not usable is answered there.
LoadRefreshToken(r, t) ==
    /\ req[r].pc = "idle"
    /\ Usable(t)
    /\ Read(r, "peeked", "none", t)
    /\ UNCHANGED <<row, expired, parent, reused, ended, raced>>

\* The request that presents t to refresh: directly, or after LoadRefreshToken.
Presents(r, t) ==
    \/ req[r].pc = "idle"
    \/ req[r].pc = "peeked" /\ req[r].token = t

\* Mutant of Refresh: the exchanged token is not revoked.
RefreshKeepingOld(r, t, n) ==
    /\ Presents(r, t)
    /\ Usable(t)
    /\ Unused(n)
    /\ Flush(r, "refresh", t, {}, n, IssueSession(row[t].user, row[t].org, row[t].family))
    /\ UNCHANGED <<row, expired, parent, reused, ended, raced>>

\* refresh of a usable token: revoke it and issue a session in its family.
Refresh(r, t, n) ==
    /\ Presents(r, t)
    /\ Usable(t)
    /\ Unused(n)
    /\ Flush(r, "refresh", t, {t}, n, IssueSession(row[t].user, row[t].org, row[t].family))
    /\ UNCHANGED <<row, expired, parent, reused, ended, raced>>

\* refresh of a revoked token; the check precedes the one of expires_at.
RefreshRevoked(r, t) ==
    /\ Presents(r, t)
    /\ Issued(t) /\ row[t].revoked
    /\ Read(r, "reused", "reuse", t)
    /\ UNCHANGED <<row, expired, parent, reused, ended, raced>>

\* refresh of a token that expired since it was peeked at: denied.
RefreshExpired(r, t) ==
    /\ req[r].pc = "peeked" /\ req[r].token = t
    /\ Live(t) /\ t \in expired
    /\ Finish(r)
    /\ UNCHANGED <<row, expired, parent, reused, ended, raced>>

\* revoke_family: one UPDATE of the family's live rows, then refresh raises.
RevokeFamily(r) ==
    /\ req[r].pc = "reused"
    /\ Flush(r, "reuse", req[r].token, LiveInFamily(row[req[r].token].family), NoToken, NoRow)
    /\ UNCHANGED <<row, expired, parent, reused, ended, raced>>

\* logout of a token that is still live (expired or not).
Logout(r, t) ==
    /\ req[r].pc = "idle"
    /\ Live(t)
    /\ Flush(r, "logout", t, {t}, NoToken, NoRow)
    /\ UNCHANGED <<row, expired, parent, reused, ended, raced>>

\* logout-all: one UPDATE of the live rows of the caller in its organization.
\* The caller holds an access token, so a session was issued to it.
LogoutAll(r, u, o) ==
    /\ req[r].pc = "idle"
    /\ \E t \in Tokens : Issued(t) /\ row[t].user = u /\ row[t].org = o
    /\ Flush(r, "logout", NoToken, LiveOfUser(u, o), NoToken, NoRow)
    /\ UNCHANGED <<row, expired, parent, reused, ended, raced>>

\* The table after the open transaction of r is applied.
Applied(r) ==
    [t \in Tokens |->
        IF t = req[r].insert THEN req[r].new
        ELSE IF t \in req[r].revokes THEN [row[t] EXCEPT !.revoked = TRUE]
        ELSE row[t]]

\* The families whose rows the transaction h updates.
Writes(h) == {row[t].family : t \in h.revokes}

\* Does an exception escape the handler?  refresh raises after revoke_family.
Raises(r) == req[r].op = "reuse"

\* The handler returned: the session helper commits.
Commit(r) ==
    /\ req[r].pc = "flushed" /\ ~Raises(r)
    /\ row' = Applied(r)
    /\ parent' = IF req[r].op = "refresh"
                 THEN [parent EXCEPT ![req[r].insert] = req[r].token] ELSE parent
    /\ reused' = IF req[r].op = "reuse"
                 THEN reused \cup {row[req[r].token].family} ELSE reused
    /\ ended' = IF req[r].op = "logout"
                THEN ended \cup Writes(req[r]) ELSE ended
    /\ raced' = raced \cup
         (Writes(req[r]) \cap UNION {Writes(req[q]) : q \in Requests \ {r}})
    /\ Finish(r)
    /\ UNCHANGED expired

\* An exception escaped the handler: the session helper rolls back.
Rollback(r) ==
    /\ req[r].pc = "flushed" /\ Raises(r)
    /\ reused' = reused \cup {row[req[r].token].family}
    /\ Finish(r)
    /\ UNCHANGED <<row, expired, parent, ended, raced>>

\* The process or its connection dies before the commit.
Crash(r) ==
    /\ req[r].pc # "idle"
    /\ Finish(r)
    /\ UNCHANGED <<row, expired, parent, reused, ended, raced>>

\* expires_at passes.
Expire(t) ==
    /\ Issued(t) /\ t \notin expired
    /\ expired' = expired \cup {t}
    /\ UNCHANGED <<row, req, parent, reused, ended, raced>>

Next ==
    \/ \E r \in Requests :
        \/ \E u \in Users, o \in Orgs :
            \/ \E n \in Tokens : Login(r, u, o, n)
            \/ LogoutAll(r, u, o)
        \/ \E t \in Tokens :
            \/ LoadRefreshToken(r, t)
            \/ \E n \in Tokens : Refresh(r, t, n)
            \/ RefreshRevoked(r, t)
            \/ RefreshExpired(r, t)
            \/ Logout(r, t)
        \/ RevokeFamily(r)
        \/ Commit(r)
        \/ Rollback(r)
        \/ Crash(r)
    \/ \E t \in Tokens : Expire(t)

Spec == Init /\ [][Next]_vars

-----------------------------------------------------------------------------
(* Properties.                                                              *)

\* A token that was exchanged for another is revoked, and its successor is of
\* the same login: same family, user and organization (refresh).
RotationLineage ==
    \A n \in Tokens : parent[n] # NoToken =>
        LET p == parent[n] IN
        /\ Issued(n) /\ Issued(p) /\ row[p].revoked
        /\ row[n].family = row[p].family
        /\ row[n].user = row[p].user /\ row[n].org = row[p].org

\* Rotation keeps one usable token per login (refresh, _issue_session), unless
\* two transactions that updated the login's rows were open at the same time:
\* the handlers take no lock.
AtMostOneLivePerFamily ==
    \A f \in Tokens \ raced : \A s, t \in LiveInFamily(f) : s = t

\* "Revoke every active session" (revoke_all_sessions): a login whose session a
\* committed logout or logout-all revoked has no live token again, unless a
\* transaction that updated the login's rows was open when the logout committed.
LoggedOutStaysOut == \A f \in ended \ raced : LiveInFamily(f) = {}

\* "The entire token family is revoked immediately and the request is denied"
\* (refresh): after a reuse is answered, its family has no live token.
ReusedFamilyIsDead == \A f \in reused : LiveInFamily(f) = {}

\* A rotation in flight has read a live token of f and will keep f alive.
Rotating(f) ==
    \E r \in Requests : /\ req[r].pc = "flushed" /\ req[r].op = "refresh"
                        /\ req[r].new.family = f

\* The abstract state of the login f: refinement of SessionFamily.
FamilyState == [f \in Tokens |->
    IF ~IsFamily(f) THEN "none"
    ELSE IF LiveInFamily(f) # {} \/ Rotating(f) THEN "live" ELSE "dead"]

Families == INSTANCE SessionFamily WITH Families <- Tokens, state <- FamilyState

\* Every behaviour of the handlers is one of SessionFamily: a login opens once,
\* and a dead login stays dead whatever is presented, by whom, in what order.
RefinesSessionFamily == Families!Spec
=============================================================================
