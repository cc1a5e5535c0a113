------------------------- MODULE AuthSessionsProofs -------------------------
(***************************************************************************)
(* Proofs about AuthSessions, for any number of tokens, requests, users    *)
(* and organizations: type correctness, the rotation lineage, that the     *)
(* handlers implement SessionFamily, and that a login has one live token   *)
(* and none after its logout.                                              *)
(***************************************************************************)
EXTENDS AuthSessions, TLAPS

\* What a handler in state h holds back until its transaction commits.
Buffered(h) ==
    /\ \A t \in h.revokes : Issued(t)
    /\ h.insert # NoToken => /\ h.op \in {"login", "refresh"}
                             /\ h.new \in Row
                             /\ ~Issued(h.insert)
    /\ h.op \in {"login", "refresh"} => h.insert \in Tokens /\ h.pc = "flushed"
    /\ h.op = "login" =>
        h.new.family = h.insert /\ ~h.new.revoked /\ h.revokes = {}
    /\ h.op = "refresh" =>
        /\ h.token \in Tokens /\ Issued(h.token)
        /\ h.revokes = {h.token}
        /\ h.new = IssueSession(row[h.token].user, row[h.token].org, row[h.token].family)
    /\ h.op = "reuse" => h.token \in Tokens /\ Issued(h.token)
    /\ h.pc = "reused" => h.op = "reuse"
    /\ h.pc = "flushed" => h.op # "none"

\* No two open transactions insert the same token.
InsertsDistinct ==
    \A q, r \in Requests :
        q # r /\ req[q].insert # NoToken => req[q].insert # req[r].insert

\* Every token's family was made by a login.
FamiliesAreRooted == \A t \in Tokens : Issued(t) => IsFamily(row[t].family)

\* The inductive invariant.
IInv ==
    /\ TypeOK
    /\ \A r \in Requests : Buffered(req[r])
    /\ InsertsDistinct
    /\ FamiliesAreRooted
    /\ RotationLineage

-----------------------------------------------------------------------------
\* What a token row says of its login never changes, and revocation is final.
RowsKept ==
    \A t \in Tokens : Issued(t) =>
        /\ row'[t] \in Row /\ row'[t] # NoRow
        /\ row'[t].user = row[t].user
        /\ row'[t].org = row[t].org
        /\ row'[t].family = row[t].family
        /\ row[t].revoked => row'[t].revoked

\* An idle handler holds nothing back.
LEMMA IdleHandler == Idle \in Handler /\ Buffered(Idle)
BY NullsAreFresh DEF Idle, Handler, Steps, Ops, Buffered

LEMMA InitOK == Init => IInv
<1> SUFFICES ASSUME Init PROVE IInv
  OBVIOUS
<1>1. TypeOK
  BY IdleHandler DEF Init, TypeOK
<1>2. \A r \in Requests : Buffered(req[r])
  BY IdleHandler DEF Init
<1>3. InsertsDistinct
  BY DEF Init, InsertsDistinct, Idle
<1>4. FamiliesAreRooted /\ RotationLineage
  BY DEF Init, FamiliesAreRooted, RotationLineage, Issued
<1> QED
  BY <1>1, <1>2, <1>3, <1>4 DEF IInv

\* A step that writes nothing to the table but moves one handler to a state h
\* whose insert, if any, is a fresh token keeps the invariant.
LEMMA HandlerStep ==
    ASSUME IInv, NEW r \in Requests, NEW h \in Handler, Buffered(h),
           h.insert = NoToken \/ Unused(h.insert),
           req' = [req EXCEPT ![r] = h],
           row' = row, parent' = parent, expired' = expired, ended' = ended, raced' = raced,
           reused' \subseteq Tokens
    PROVE  IInv'
<1>1. TypeOK'
  BY DEF IInv, TypeOK
<1>2. ASSUME NEW q \in Requests PROVE Buffered(req[q])'
  <2>1. Buffered(req'[q])
    BY DEF IInv, TypeOK
  <2> QED
    BY <2>1 DEF Buffered, Issued
<1>3. InsertsDistinct'
  BY DEF IInv, TypeOK, InsertsDistinct, Unused
<1>4. FamiliesAreRooted' /\ RotationLineage'
  BY DEF IInv, FamiliesAreRooted, RotationLineage, Issued, IsFamily
<1> QED
  BY <1>1, <1>2, <1>3, <1>4 DEF IInv

\* The transaction a handler opens satisfies Buffered: one fact per operation.
LEMMA LoginStep ==
    ASSUME IInv, NEW r \in Requests, NEW u \in Users, NEW o \in Orgs,
           NEW n \in Tokens, Login(r, u, o, n)
    PROVE  IInv'
<1> DEFINE h == [pc |-> "flushed", op |-> "login", token |-> NoToken,
                 revokes |-> {}, insert |-> n, new |-> IssueSession(u, o, n)]
<1>1. h.new \in Row
  BY DEF IssueSession, Row
<1>2. h \in Handler
  BY <1>1 DEF Handler, Steps, Ops
<1>3. Buffered(h)
  BY <1>1 DEF Buffered, Login, Unused, IssueSession
<1>4. Unused(h.insert) /\ req' = [req EXCEPT ![r] = h]
  BY DEF Login, Flush
<1> HIDE DEF h
<1> QED
  BY <1>2, <1>3, <1>4, HandlerStep DEF Login, IInv, TypeOK

LEMMA RefreshStep ==
    ASSUME IInv, NEW r \in Requests, NEW t \in Tokens, NEW n \in Tokens,
           Refresh(r, t, n)
    PROVE  IInv'
<1> DEFINE new == IssueSession(row[t].user, row[t].org, row[t].family)
           h == [pc |-> "flushed", op |-> "refresh", token |-> t,
                 revokes |-> {t}, insert |-> n, new |-> new]
<1>1. Issued(t) /\ row[t] \in Row
  BY DEF Refresh, Usable, Live, Issued, IInv, TypeOK
<1>2. new \in Row
  BY <1>1 DEF IssueSession, Row
<1>3. h \in Handler
  BY <1>2 DEF Handler, Steps, Ops
<1>4. Buffered(h)
  BY <1>1, <1>2 DEF Buffered, Refresh, Unused
<1>5. Unused(h.insert) /\ req' = [req EXCEPT ![r] = h]
  BY DEF Refresh, Flush
<1> HIDE DEF h
<1> QED
  BY <1>3, <1>4, <1>5, HandlerStep DEF Refresh, IInv, TypeOK

\* The other writing operations only revoke issued tokens.
LEMMA RevokeStep ==
    ASSUME IInv, NEW r \in Requests, NEW op \in {"logout", "reuse"},
           NEW t \in Tokens \cup {NoToken}, NEW R \in SUBSET Tokens,
           \A s \in R : Issued(s), op = "reuse" => t \in Tokens /\ Issued(t),
           Flush(r, op, t, R, NoToken, NoRow),
           UNCHANGED <<row, expired, parent, reused, ended, raced>>
    PROVE  IInv'
<1> DEFINE h == [pc |-> "flushed", op |-> op, token |-> t,
                 revokes |-> R, insert |-> NoToken, new |-> NoRow]
<1>1. h \in Handler
  BY DEF Handler, Steps, Ops
<1>2. Buffered(h)
  BY DEF Buffered
<1>3. h.insert = NoToken /\ req' = [req EXCEPT ![r] = h]
  BY DEF Flush
<1> HIDE DEF h
<1> QED
  BY <1>1, <1>2, <1>3, HandlerStep DEF IInv, TypeOK

\* The handlers' steps that write nothing at all.
LEMMA ReadStep ==
    ASSUME IInv, NEW r \in Requests, NEW t \in Tokens \cup {NoToken},
           NEW pc \in {"idle", "peeked", "reused"}, NEW op \in {"none", "reuse"},
           (pc = "reused") <=> (op = "reuse"), op = "reuse" => t \in Tokens /\ Issued(t),
           Read(r, pc, op, t),
           row' = row, parent' = parent, expired' = expired, ended' = ended, raced' = raced,
           reused' \subseteq Tokens
    PROVE  IInv'
<1> DEFINE h == [pc |-> pc, op |-> op, token |-> t,
                 revokes |-> {}, insert |-> NoToken, new |-> NoRow]
<1>1. h \in Handler
  BY DEF Handler, Steps, Ops, Idle
<1>2. Buffered(h)
  BY DEF Buffered
<1>3. h.insert = NoToken /\ req' = [req EXCEPT ![r] = h]
  BY DEF Read
<1> HIDE DEF h
<1> QED
  BY <1>1, <1>2, <1>3, HandlerStep

\* A handler that finishes leaves nothing behind.
LEMMA FinishStep ==
    ASSUME IInv, NEW r \in Requests, Finish(r),
           row' = row, parent' = parent, expired' = expired, ended' = ended, raced' = raced,
           reused' \subseteq Tokens
    PROVE  IInv'
<1>1. Idle \in Handler /\ Buffered(Idle) /\ Idle.insert = NoToken
  BY IdleHandler DEF Idle
<1>2. req' = [req EXCEPT ![r] = Idle]
  BY DEF Finish
<1> QED
  BY <1>1, <1>2, HandlerStep

-----------------------------------------------------------------------------
\* What the commit of r does to the table.
LEMMA CommitRows ==
    ASSUME IInv, NEW r \in Requests, Commit(r)
    PROVE  /\ RowsKept
           /\ row' \in [Tokens -> Row \cup {NoRow}]
           /\ \A t \in Tokens : row'[t] # NoRow => Issued(t) \/ t = req[r].insert
           /\ req[r].insert # NoToken => row'[req[r].insert] = req[r].new
           /\ \A t \in req[r].revokes : row'[t].revoked
<1> DEFINE h == req[r]
<1>1. /\ h \in Handler /\ Buffered(h)
      /\ row \in [Tokens -> Row \cup {NoRow}]
      /\ row' = [t \in Tokens |-> IF t = h.insert THEN h.new
                   ELSE IF t \in h.revokes THEN [row[t] EXCEPT !.revoked = TRUE]
                   ELSE row[t]]
  BY DEF IInv, TypeOK, Commit, Applied
<1> HIDE DEF h
<1>2. NoToken \notin Tokens /\ NoRow \notin Row
  BY NullsAreFresh
<1>3. \A t \in Tokens : Issued(t) => row[t] \in Row
  BY <1>1 DEF Issued
<1>4. h.revokes \subseteq Tokens /\ \A t \in h.revokes : Issued(t)
  BY <1>1 DEF Buffered, Handler
<1>5. h.insert # NoToken => h.insert \in Tokens /\ h.new \in Row /\ ~Issued(h.insert)
  BY <1>1 DEF Buffered, Handler
<1>6. ASSUME NEW t \in Tokens, t \in h.revokes
      PROVE  /\ row'[t] \in Row /\ row'[t].revoked
             /\ row'[t].user = row[t].user /\ row'[t].org = row[t].org
             /\ row'[t].family = row[t].family
  <2>1. row[t] \in Row /\ Issued(t)
    BY <1>3, <1>4, <1>6
  <2>2. t # h.insert
    BY <2>1, <1>2, <1>5
  <2>3. row'[t] = [row[t] EXCEPT !.revoked = TRUE]
    BY <2>2, <1>1, <1>6
  <2> QED
    BY <2>1, <2>3 DEF Row
<1>7. ASSUME NEW t \in Tokens, t \notin h.revokes, t # h.insert
      PROVE  row'[t] = row[t]
  BY <1>7, <1>1
<1>8. h.insert # NoToken => row'[h.insert] = h.new
  BY <1>1, <1>5
<1>9. RowsKept
  <2> SUFFICES ASSUME NEW t \in Tokens, Issued(t)
               PROVE  /\ row'[t] \in Row /\ row'[t] # NoRow
                      /\ row'[t].user = row[t].user /\ row'[t].org = row[t].org
                      /\ row'[t].family = row[t].family
                      /\ row[t].revoked => row'[t].revoked
    BY DEF RowsKept
  <2>1. row[t] \in Row /\ t # h.insert
    BY <1>2, <1>3, <1>5
  <2> QED
    BY <2>1, <1>2, <1>6, <1>7
<1>10. row' \in [Tokens -> Row \cup {NoRow}]
  <2>1. \A t \in Tokens : row'[t] \in Row \cup {NoRow}
    BY <1>1, <1>2, <1>5, <1>6, <1>7, <1>8
  <2> QED
    BY <2>1, <1>1
<1>11. \A t \in Tokens : row'[t] # NoRow => Issued(t) \/ t = h.insert
  BY <1>4, <1>7 DEF Issued
<1> QED
  BY <1>4, <1>6, <1>8, <1>9, <1>10, <1>11 DEF h

LEMMA CommitStep ==
    ASSUME IInv, NEW r \in Requests, Commit(r)
    PROVE  IInv'
<1> DEFINE h == req[r]
<1>1. /\ h \in Handler /\ Buffered(h) /\ h.pc = "flushed"
      /\ req' = [req EXCEPT ![r] = Idle] /\ expired' = expired
      /\ parent' = IF h.op = "refresh" THEN [parent EXCEPT ![h.insert] = h.token] ELSE parent
      /\ reused' = reused
      /\ ended' = IF h.op = "logout" THEN ended \cup {row[t].family : t \in h.revokes} ELSE ended
      /\ raced' \subseteq raced \cup {row[t].family : t \in h.revokes}
  BY DEF IInv, TypeOK, Commit, Finish, Raises, Writes
<1>2. /\ RowsKept
      /\ row' \in [Tokens -> Row \cup {NoRow}]
      /\ \A t \in Tokens : row'[t] # NoRow => Issued(t) \/ t = h.insert
      /\ h.insert # NoToken => row'[h.insert] = h.new
      /\ \A t \in h.revokes : row'[t].revoked
  BY CommitRows
<1>3. /\ h.insert # NoToken =>
           h.insert \in Tokens /\ h.new \in Row /\ h.op \in {"login", "refresh"}
      /\ h.op \in {"login", "refresh"} => h.insert \in Tokens /\ h.insert # NoToken
      /\ ~Issued(h.insert) \/ h.insert = NoToken
  BY <1>1, NullsAreFresh DEF Buffered, Handler
<1> HIDE DEF h
<1>4. TypeOK'
  <2>1. req' \in [Requests -> Handler]
    BY <1>1, IdleHandler DEF IInv, TypeOK
  <2>2. parent' \in [Tokens -> Tokens \cup {NoToken}]
    BY <1>1, <1>3 DEF IInv, TypeOK, Handler
  <2>3. {row[t].family : t \in h.revokes} \subseteq Tokens
    <3>1. \A t \in h.revokes : t \in Tokens /\ row[t] \in Row
      BY <1>1 DEF Buffered, Handler, Issued, IInv, TypeOK
    <3> QED
      BY <3>1 DEF Row
  <2> QED
    BY <1>1, <1>2, <2>1, <2>2, <2>3 DEF IInv, TypeOK
<1>5. ASSUME NEW q \in Requests PROVE Buffered(req[q])'
  <2>1. CASE q = r
    <3>1. req'[q] = Idle
      BY <1>1, <2>1 DEF IInv, TypeOK
    <3> QED
      BY <3>1 DEF Buffered, Idle
  <2>2. CASE q # r
    <3> DEFINE g == req[q]
    <3>1. req'[q] = g /\ g \in Handler /\ Buffered(g)
      BY <1>1, <2>2 DEF IInv, TypeOK
    <3>2. g.insert # NoToken => g.insert \in Tokens /\ g.insert # h.insert
      BY <2>2, <3>1 DEF IInv, InsertsDistinct, Handler, h
    <3> HIDE DEF g
    <3>3. \A t \in Tokens : Issued(t) => row'[t] # NoRow
      BY <1>2 DEF RowsKept
    <3>4. g.insert # NoToken => row'[g.insert] = NoRow
      BY <1>2, <3>1, <3>2 DEF Buffered, Issued
    <3>5. g.op = "refresh" =>
            g.new = IssueSession(row'[g.token].user, row'[g.token].org, row'[g.token].family)
      BY <1>2, <3>1 DEF Buffered, RowsKept
    <3>6. \A t \in g.revokes : row'[t] # NoRow
      BY <3>1, <3>3 DEF Buffered, Handler
    <3> QED
      BY <3>1, <3>3, <3>4, <3>5, <3>6 DEF Buffered, Issued
  <2> QED
    BY <2>1, <2>2
<1>6. InsertsDistinct'
  BY <1>1 DEF IInv, TypeOK, InsertsDistinct, Idle
<1>7. FamiliesAreRooted'
  <2>1. ASSUME NEW f \in Tokens, IsFamily(f) PROVE IsFamily(f)'
    BY <1>2, <2>1 DEF RowsKept, IsFamily, Issued
  <2>2. ASSUME NEW t \in Tokens, Issued(t) PROVE IsFamily(row[t].family)' /\ row'[t].family = row[t].family
    <3>1. row[t].family \in Tokens /\ IsFamily(row[t].family)
      BY <2>2 DEF IInv, FamiliesAreRooted, TypeOK, Issued, Row
    <3>2. row'[t].family = row[t].family
      BY <1>2, <2>2 DEF RowsKept
    <3>3. row'[row[t].family].family = row[t].family /\ row'[row[t].family] # NoRow
      BY <1>2, <3>1 DEF RowsKept, IsFamily
    <3> QED
      BY <3>2, <3>3 DEF IsFamily, Issued
  <2>3. ASSUME NEW t \in Tokens, Issued(t) PROVE IsFamily(row[t].family)'
    BY <2>2, <2>3
  <2>4. CASE h.insert = NoToken
    <3>1. \A t \in Tokens : row'[t] # NoRow => Issued(t)
      BY <1>2, <2>4, NullsAreFresh
    <3> QED
      BY <3>1, <2>2 DEF FamiliesAreRooted, IsFamily, Issued
  <2>5. CASE h.op = "login"
    <3>1. row'[h.insert].family = h.insert /\ row'[h.insert] # NoRow
      BY <1>1, <1>2, <1>3, <2>5, NullsAreFresh DEF Buffered
    <3> QED
      BY <3>1, <1>2, <2>2 DEF FamiliesAreRooted, IsFamily, Issued
  <2>6. CASE h.op = "refresh"
    <3>1. row'[h.insert].family = row[h.token].family /\ h.token \in Tokens /\ Issued(h.token)
      BY <1>1, <1>2, <1>3, <2>6 DEF Buffered, IssueSession
    <3>2. /\ row'[row'[h.insert].family] # NoRow
          /\ row'[row'[h.insert].family].family = row'[h.insert].family
      BY <3>1, <2>2 DEF IsFamily, Issued
    <3> QED
      BY <3>2, <1>2, <2>2 DEF FamiliesAreRooted, IsFamily, Issued
  <2> QED
    BY <1>3, <2>4, <2>5, <2>6
<1>8. RotationLineage'
  <2> SUFFICES ASSUME NEW n \in Tokens, parent'[n] # NoToken
               PROVE  LET p == parent'[n] IN
                      /\ row'[n] # NoRow /\ row'[p] # NoRow /\ row'[p].revoked
                      /\ row'[n].family = row'[p].family
                      /\ row'[n].user = row'[p].user /\ row'[n].org = row'[p].org
    BY DEF RotationLineage, Issued
  <2>1. CASE h.op = "refresh" /\ n = h.insert
    <3>1. parent'[n] = h.token
      BY <1>1, <2>1 DEF IInv, TypeOK
    <3>2. /\ h.token \in Tokens /\ Issued(h.token) /\ h.token \in h.revokes
          /\ row'[n] = IssueSession(row[h.token].user, row[h.token].org, row[h.token].family)
          /\ row'[n] # NoRow
      BY <1>1, <1>2, <1>3, <2>1, NullsAreFresh DEF Buffered
    <3> QED
      BY <3>1, <3>2, <1>2 DEF RowsKept, IssueSession
  <2>2. CASE ~(h.op = "refresh" /\ n = h.insert)
    <3>1. parent'[n] = parent[n]
      BY <1>1, <2>2, <1>3 DEF IInv, TypeOK
    <3>2. parent[n] \in Tokens
      BY <3>1 DEF IInv, TypeOK
    <3> QED
      BY <3>1, <3>2, <1>2 DEF IInv, RotationLineage, RowsKept
  <2> QED
    BY <2>1, <2>2
<1> QED
  BY <1>4, <1>5, <1>6, <1>7, <1>8 DEF IInv

-----------------------------------------------------------------------------
\* Every step of the handlers keeps the invariant.
LEMMA StepOK == IInv /\ [Next]_vars => IInv'
<1> SUFFICES ASSUME IInv, [Next]_vars PROVE IInv'
  OBVIOUS
<1>1. CASE UNCHANGED vars
  BY <1>1 DEF vars, IInv, TypeOK, Buffered, InsertsDistinct, FamiliesAreRooted,
              RotationLineage, Issued, IsFamily
<1>2. ASSUME NEW r \in Requests, NEW u \in Users, NEW o \in Orgs, NEW n \in Tokens,
             Login(r, u, o, n)
      PROVE  IInv'
  BY <1>2, LoginStep
<1>3. ASSUME NEW r \in Requests, NEW u \in Users, NEW o \in Orgs, LogoutAll(r, u, o)
      PROVE  IInv'
  <2>1. LiveOfUser(u, o) \in SUBSET Tokens /\ \A s \in LiveOfUser(u, o) : Issued(s)
    BY DEF LiveOfUser, Live
  <2> QED
    BY <1>3, <2>1, RevokeStep DEF LogoutAll
<1>4. ASSUME NEW r \in Requests, NEW t \in Tokens, LoadRefreshToken(r, t)
      PROVE  IInv'
  BY <1>4, ReadStep DEF LoadRefreshToken, IInv, TypeOK
<1>5. ASSUME NEW r \in Requests, NEW t \in Tokens, NEW n \in Tokens, Refresh(r, t, n)
      PROVE  IInv'
  BY <1>5, RefreshStep
<1>6. ASSUME NEW r \in Requests, NEW t \in Tokens, RefreshRevoked(r, t)
      PROVE  IInv'
  BY <1>6, ReadStep DEF RefreshRevoked, IInv, TypeOK
<1>7. ASSUME NEW r \in Requests, NEW t \in Tokens, RefreshExpired(r, t)
      PROVE  IInv'
  BY <1>7, FinishStep DEF RefreshExpired, IInv, TypeOK
<1>8. ASSUME NEW r \in Requests, NEW t \in Tokens, Logout(r, t)
      PROVE  IInv'
  BY <1>8, RevokeStep DEF Logout, Live
<1>9. ASSUME NEW r \in Requests, RevokeFamily(r)
      PROVE  IInv'
  <2>1. req[r].token \in Tokens /\ Issued(req[r].token)
    BY <1>9 DEF RevokeFamily, IInv, Buffered
  <2>2. \A f : LiveInFamily(f) \in SUBSET Tokens /\ \A s \in LiveInFamily(f) : Issued(s)
    BY DEF LiveInFamily, Live
  <2> QED
    BY <1>9, <2>1, <2>2, RevokeStep DEF RevokeFamily
<1>10. ASSUME NEW r \in Requests, Commit(r)
       PROVE  IInv'
  BY <1>10, CommitStep
<1>11. ASSUME NEW r \in Requests, Rollback(r)
       PROVE  IInv'
  <2>1. req[r].token \in Tokens /\ row[req[r].token] \in Row
    BY <1>11 DEF Rollback, Raises, IInv, TypeOK, Buffered, Issued
  <2>2. reused' \subseteq Tokens
    BY <2>1, <1>11 DEF Rollback, IInv, TypeOK, Row
  <2> QED
    BY <1>11, <2>2, FinishStep DEF Rollback
<1>12. ASSUME NEW r \in Requests, Crash(r)
       PROVE  IInv'
  BY <1>12, FinishStep DEF Crash, IInv, TypeOK
<1>13. ASSUME NEW t \in Tokens, Expire(t)
       PROVE  IInv'
  BY <1>13 DEF Expire, IInv, TypeOK, Buffered, InsertsDistinct, FamiliesAreRooted,
               RotationLineage, Issued, IsFamily
<1> QED
  BY <1>1, <1>2, <1>3, <1>4, <1>5, <1>6, <1>7, <1>8, <1>9, <1>10, <1>11, <1>12, <1>13
  DEF Next

LEMMA Invariance == Spec => []IInv
BY InitOK, StepOK, PTL DEF Spec

\* The handlers' state is well formed in every reachable state.
THEOREM TypeCorrect == Spec => []TypeOK
<1>1. IInv => TypeOK
  BY DEF IInv
<1> QED
  BY <1>1, Invariance, PTL

\* Whatever requests overlap, a rotated token is revoked and its successor
\* belongs to the same login.
THEOREM LineageHolds == Spec => []RotationLineage
<1>1. IInv => RotationLineage
  BY DEF IInv
<1> QED
  BY <1>1, Invariance, PTL

-----------------------------------------------------------------------------
(* Refinement of SessionFamily.                                             *)

Alive(f) == LiveInFamily(f) # {} \/ Rotating(f)

\* A step that opens no login and revives none is a Close (of no login at all
\* when it only stutters).
LEMMA CloseMaps ==
    ASSUME \A f \in Tokens : IsFamily(f)' <=> IsFamily(f),
           \A f \in Tokens : Alive(f)' => Alive(f)
    PROVE  Families!Next
<1> DEFINE F == {f \in Tokens : FamilyState[f] = "live" /\ FamilyState'[f] = "dead"}
<1>1. \A f \in Tokens :
        FamilyState[f] = IF ~IsFamily(f) THEN "none" ELSE IF Alive(f) THEN "live" ELSE "dead"
  BY DEF FamilyState, Alive
<1>2. FamilyState' = [f \in Tokens |->
        IF ~IsFamily(f)' THEN "none" ELSE IF Alive(f)' THEN "live" ELSE "dead"]
  BY DEF FamilyState, Alive
<1>3. \A f \in Tokens : FamilyState'[f] = IF f \in F THEN "dead" ELSE FamilyState[f]
  BY <1>1, <1>2
<1>4. FamilyState' = [f \in Tokens |-> IF f \in F THEN "dead" ELSE FamilyState[f]]
  BY <1>2, <1>3
<1>5. Families!Close(F)
  BY <1>4 DEF Families!Close
<1> QED
  BY <1>5 DEF Families!Next

\* A handler step that writes nothing and starts no rotation revives nothing.
LEMMA QuietMaps ==
    ASSUME IInv, NEW r \in Requests, NEW h, req' = [req EXCEPT ![r] = h],
           h.op # "refresh", row' = row
    PROVE  Families!Next
<1>1. \A q \in Requests : req'[q] = IF q = r THEN h ELSE req[q]
  BY DEF IInv, TypeOK
<1>2. \A f \in Tokens : Rotating(f)' => Rotating(f)
  BY <1>1 DEF Rotating
<1>3. \A f \in Tokens : (LiveInFamily(f)' = LiveInFamily(f)) /\ (IsFamily(f)' <=> IsFamily(f))
  BY DEF LiveInFamily, IsFamily, Live, Issued
<1> QED
  BY <1>2, <1>3, CloseMaps DEF Alive

\* A rotation that begins has read a live token of the login it carries on.
LEMMA RefreshMaps ==
    ASSUME IInv, NEW r \in Requests, NEW t \in Tokens, NEW n \in Tokens,
           Refresh(r, t, n)
    PROVE  Families!Next
<1>1. \A f \in Tokens : (LiveInFamily(f)' = LiveInFamily(f)) /\ (IsFamily(f)' <=> IsFamily(f))
  BY DEF Refresh, LiveInFamily, IsFamily, Live, Issued
<1>2. t \in LiveInFamily(row[t].family)
  BY DEF Refresh, Usable, LiveInFamily
<1>3. \A q \in Requests : q # r => req'[q] = req[q]
  BY DEF Refresh, Flush, IInv, TypeOK
<1>4. req'[r].new.family = row[t].family
  BY DEF Refresh, Flush, IInv, TypeOK, IssueSession
<1>5. \A f \in Tokens : Rotating(f)' => Rotating(f) \/ f = row[t].family
  BY <1>3, <1>4 DEF Rotating
<1> QED
  BY <1>1, <1>2, <1>5, CloseMaps DEF Alive

\* The commit of a login opens it.
LEMMA LoginMaps ==
    ASSUME IInv, NEW r \in Requests, Commit(r), req[r].op = "login"
    PROVE  Families!Next
<1>0. PICK n \in Tokens : n = req[r].insert
  BY DEF IInv, Buffered
<1>1. /\ ~Issued(n) /\ req[r].new \in Row /\ req[r].new.family = n
      /\ ~req[r].new.revoked /\ req[r].revokes = {}
  BY <1>0, NullsAreFresh DEF IInv, Buffered
<1>2. \A t \in Tokens : row'[t] = IF t = n THEN req[r].new ELSE row[t]
  BY <1>0, <1>1 DEF Commit, Applied
<1>3. \A q \in Requests : req'[q] = IF q = r THEN Idle ELSE req[q]
  BY DEF Commit, Finish, IInv, TypeOK
<1>4. /\ ~req[r].op = "refresh"
      /\ ~req'[r].op = "refresh"
  BY <1>3 DEF Idle
<1>5. \A f \in Tokens : Rotating(f)' <=> Rotating(f)
  BY <1>3, <1>4 DEF Rotating
<1>6. /\ row'[n] # NoRow /\ row'[n].family = n
      /\ \A f \in Tokens \ {n} : (IsFamily(f)' <=> IsFamily(f))
  BY <1>1, <1>2, NullsAreFresh DEF IsFamily, Issued
<1>7. \A f \in Tokens \ {n} : LiveInFamily(f)' = LiveInFamily(f)
  <2> SUFFICES ASSUME NEW f \in Tokens \ {n}, NEW t \in Tokens
               PROVE  (t \in LiveInFamily(f))' <=> t \in LiveInFamily(f)
    BY DEF LiveInFamily
  <2>1. CASE t = n
    BY <2>1, <1>1, <1>2 DEF LiveInFamily, Live
  <2>2. CASE t # n
    BY <2>2, <1>2 DEF LiveInFamily, Live, Issued
  <2> QED
    BY <2>1, <2>2
<1>8. IsFamily(n)' /\ ~IsFamily(n)
  BY <1>1, <1>6 DEF IsFamily, Issued
<1>9. Alive(n)'
  <2>1. Live(n)'
    BY <1>1, <1>2, <1>6 DEF Live, Issued
  <2> QED
    BY <2>1, <1>1, <1>6 DEF Alive, LiveInFamily
<1>10. /\ FamilyState = [f \in Tokens |->
            IF ~IsFamily(f) THEN "none" ELSE IF Alive(f) THEN "live" ELSE "dead"]
       /\ FamilyState' = [f \in Tokens |->
            IF ~IsFamily(f)' THEN "none" ELSE IF Alive(f)' THEN "live" ELSE "dead"]
  BY DEF FamilyState, Alive
<1> QED
  BY <1>5, <1>6, <1>7, <1>8, <1>9, <1>10
  DEF Families!Next, Families!Open, Alive

\* The commit of a rotation or a logout revives nothing: a token that is live
\* after it was live before, or is the successor the rotation held back.
LEMMA OtherCommitMaps ==
    ASSUME IInv, NEW r \in Requests, Commit(r), req[r].op # "login"
    PROVE  Families!Next
<1> DEFINE n == req[r].insert
<1>1. \A q \in Requests : req'[q] = IF q = r THEN Idle ELSE req[q]
  BY DEF Commit, Finish, IInv, TypeOK
<1>2. \A f \in Tokens : Rotating(f)' => Rotating(f)
  BY <1>1 DEF Rotating, Idle
<1>3. /\ RowsKept
      /\ \A t \in Tokens : row'[t] # NoRow => Issued(t) \/ t = n
      /\ n # NoToken => row'[n] = req[r].new
  BY CommitRows
<1>4. n # NoToken =>
        /\ req[r].op = "refresh" /\ req[r].pc = "flushed" /\ ~Issued(n) /\ n \in Tokens
        /\ req[r].token \in Tokens /\ Issued(req[r].token)
        /\ req[r].new.family = row[req[r].token].family
        /\ row'[n].family = row[req[r].token].family
  <2> DEFINE h == req[r]
  <2>1. h \in Handler /\ Buffered(h) /\ h.pc = "flushed" /\ h.op # "login"
    BY DEF IInv, TypeOK, Commit
  <2>2. n # NoToken => row'[n] = h.new /\ n = h.insert
    BY <1>3
  <2> HIDE DEF h
  <2>3. n # NoToken =>
          /\ h.op = "refresh" /\ h.pc = "flushed" /\ ~Issued(n) /\ n \in Tokens
          /\ h.token \in Tokens /\ Issued(h.token)
          /\ h.new.family = row[h.token].family
    BY <2>1, <2>2 DEF Buffered, IssueSession
  <2> QED
    BY <2>2, <2>3 DEF h
<1>5. \A t \in Tokens : Issued(t) => row[t].family \in Tokens /\ IsFamily(row[t].family)
  BY DEF IInv, FamiliesAreRooted, TypeOK, Issued, Row
<1>6. ASSUME NEW f \in Tokens PROVE IsFamily(f)' <=> IsFamily(f)
  <2>1. IsFamily(f) => row'[f] # NoRow /\ row'[f].family = f
    BY <1>3 DEF RowsKept, IsFamily
  <2>2. CASE f = n
    <3>1. f # NoToken
      BY NullsAreFresh
    <3>2. row'[f].family = row[req[r].token].family /\ ~Issued(f)
      BY <3>1, <2>2, <1>4
    <3>3. Issued(row[req[r].token].family)
      BY <3>1, <2>2, <1>4, <1>5 DEF IsFamily
    <3> QED
      BY <3>2, <3>3 DEF IsFamily
  <2>3. CASE f # n
    BY <2>1, <2>3, <1>3 DEF IsFamily, Issued, RowsKept
  <2> QED
    BY <2>2, <2>3
<1>7. ASSUME NEW f \in Tokens, Alive(f)' PROVE Alive(f)
  <2>1. CASE Rotating(f)'
    BY <2>1, <1>2 DEF Alive
  <2>2. ASSUME NEW t \in Tokens, row'[t] # NoRow, ~row'[t].revoked, row'[t].family = f
        PROVE  Alive(f)
    <3>1. CASE Issued(t)
      <4>1. Live(t) /\ row[t].family = f
        BY <2>2, <3>1, <1>3 DEF RowsKept, Live
      <4> QED
        BY <4>1 DEF Alive, LiveInFamily
    <3>2. CASE ~Issued(t)
      <4>1. n # NoToken /\ t = n
        BY <3>2, <2>2, <1>3, NullsAreFresh
      <4>2. req[r].pc = "flushed" /\ req[r].op = "refresh" /\ req[r].new.family = f
        BY <4>1, <2>2, <1>4
      <4> QED
        BY <4>2 DEF Alive, Rotating
    <3> QED
      BY <3>1, <3>2
  <2> QED
    BY <1>7, <2>1, <2>2 DEF Alive, LiveInFamily, Live, Issued
<1> QED
  BY <1>6, <1>7, CloseMaps

LEMMA InitMaps == Init => Families!Init
BY DEF Init, Families!Init, FamilyState, IsFamily, Issued

LEMMA StepMaps == IInv /\ [Next]_vars => [Families!Next]_FamilyState
<1> SUFFICES ASSUME IInv, [Next]_vars
             PROVE  Families!Next \/ UNCHANGED FamilyState
  BY DEF Families!Next
<1>1. CASE UNCHANGED vars
  BY <1>1 DEF vars, FamilyState, IsFamily, LiveInFamily, Live, Issued, Rotating
<1>2. ASSUME NEW r \in Requests, NEW t \in Tokens, NEW n \in Tokens, Refresh(r, t, n)
      PROVE  Families!Next
  BY <1>2, RefreshMaps
<1>3. ASSUME NEW r \in Requests, Commit(r)
      PROVE  Families!Next
  BY <1>3, LoginMaps, OtherCommitMaps
<1>4. ASSUME NEW t \in Tokens, Expire(t)
      PROVE  UNCHANGED FamilyState
  BY <1>4 DEF Expire, FamilyState, IsFamily, LiveInFamily, Live, Issued, Rotating
<1>5. ASSUME NEW r \in Requests,
             \/ \E u \in Users, o \in Orgs :
                    (\E n \in Tokens : Login(r, u, o, n)) \/ LogoutAll(r, u, o)
             \/ \E t \in Tokens : \/ LoadRefreshToken(r, t)
                                  \/ RefreshRevoked(r, t)
                                  \/ RefreshExpired(r, t)
                                  \/ Logout(r, t)
             \/ RevokeFamily(r) \/ Rollback(r) \/ Crash(r)
      PROVE  Families!Next
  <2>1. ASSUME NEW op, op # "refresh", NEW t, NEW R, NEW n, NEW w,
               Flush(r, op, t, R, n, w), row' = row
        PROVE  Families!Next
    <3> DEFINE h == [pc |-> "flushed", op |-> op, token |-> t,
                     revokes |-> R, insert |-> n, new |-> w]
    <3>1. req' = [req EXCEPT ![r] = h] /\ h.op # "refresh"
      BY <2>1 DEF Flush
    <3> HIDE DEF h
    <3> QED
      BY <3>1, <2>1, QuietMaps
  <2>2. ASSUME NEW pc, NEW op, op # "refresh", NEW t, Read(r, pc, op, t), row' = row
        PROVE  Families!Next
    <3> DEFINE h == [pc |-> pc, op |-> op, token |-> t,
                     revokes |-> {}, insert |-> NoToken, new |-> NoRow]
    <3>1. req' = [req EXCEPT ![r] = h] /\ h.op # "refresh"
      BY <2>2 DEF Read
    <3> HIDE DEF h
    <3> QED
      BY <3>1, <2>2, QuietMaps
  <2>3. ASSUME Finish(r), row' = row PROVE Families!Next
    <3>1. req' = [req EXCEPT ![r] = Idle] /\ Idle.op # "refresh"
      BY <2>3 DEF Finish, Idle
    <3> QED
      BY <3>1, <2>3, QuietMaps
  <2>4. ASSUME NEW u \in Users, NEW o \in Orgs, NEW n \in Tokens, Login(r, u, o, n)
        PROVE  Families!Next
    BY <2>1, <2>4 DEF Login
  <2>5. ASSUME NEW u \in Users, NEW o \in Orgs, LogoutAll(r, u, o)
        PROVE  Families!Next
    BY <2>1, <2>5 DEF LogoutAll
  <2>6. ASSUME NEW t \in Tokens, LoadRefreshToken(r, t) \/ RefreshRevoked(r, t)
        PROVE  Families!Next
    BY <2>2, <2>6 DEF LoadRefreshToken, RefreshRevoked
  <2>7. ASSUME NEW t \in Tokens, Logout(r, t)
        PROVE  Families!Next
    BY <2>1, <2>7 DEF Logout
  <2>8. ASSUME RevokeFamily(r)
        PROVE  Families!Next
    BY <2>1, <2>8 DEF RevokeFamily
  <2>9. ASSUME \/ \E t \in Tokens : RefreshExpired(r, t)
               \/ Rollback(r) \/ Crash(r)
        PROVE  Families!Next
    BY <2>3, <2>9 DEF RefreshExpired, Rollback, Crash
  <2> QED
    BY <1>5, <2>4, <2>5, <2>6, <2>7, <2>8, <2>9
<1> QED
  BY <1>1, <1>2, <1>3, <1>4, <1>5 DEF Next

\* The handlers implement SessionFamily: a login opens once, and nothing any
\* request presents reopens a login whose tokens are all revoked.
THEOREM Refinement == Spec => RefinesSessionFamily
<1>1. Init => Families!Init
  BY InitMaps
<1>2. IInv /\ [Next]_vars => [Families!Next]_FamilyState
  BY StepMaps
<1> QED
  BY <1>1, <1>2, Invariance, PTL DEF Spec, RefinesSessionFamily, Families!Spec

-----------------------------------------------------------------------------
(* One live token per login, and logout.                                    *)

\* What the handler state h read is still so when it commits, unless another
\* transaction wrote the login meanwhile: the token it rotates is live, and the
\* tokens it logs out are all that is live.
Held(h) ==
    /\ h.op = "refresh" /\ row[h.token].family \notin raced => Live(h.token)
    /\ h.op = "logout" => \A f \in Writes(h) \ raced : LiveInFamily(f) \subseteq h.revokes

LogoutInv ==
    /\ \A r \in Requests : Held(req[r])
    /\ \A f \in ended : Issued(f)
    /\ AtMostOneLivePerFamily
    /\ LoggedOutStaysOut

\* A step that leaves the table alone keeps LogoutInv if the state h it moves a
\* handler to holds.
LEMMA HeldStep ==
    ASSUME IInv, LogoutInv, NEW r \in Requests, NEW h, Held(h),
           req' = [req EXCEPT ![r] = h],
           row' = row, ended' = ended, raced' = raced
    PROVE  LogoutInv'
<1>1. ASSUME NEW q \in Requests PROVE Held(req[q])'
  <2>1. req'[q] = IF q = r THEN h ELSE req[q]
    BY DEF IInv, TypeOK
  <2>2. Held(req'[q])
    BY <2>1 DEF LogoutInv
  <2> QED
    BY <2>2 DEF Held, Writes, LiveInFamily, Live, Issued
<1>2. (\A f \in ended : Issued(f))' /\ AtMostOneLivePerFamily' /\ LoggedOutStaysOut'
  BY DEF LogoutInv, AtMostOneLivePerFamily, LoggedOutStaysOut, LiveInFamily, Live, Issued
<1> QED
  BY <1>1, <1>2 DEF LogoutInv

\* A commit leaves every login as it was, but those it writes and the one it
\* opens: what is live there was live and not revoked, or is its new token.
LEMMA CommitLive ==
    ASSUME IInv, NEW r \in Requests, Commit(r)
    PROVE  /\ \A t \in Tokens : t \notin req[r].revokes /\ t # req[r].insert => row'[t] = row[t]
           /\ \A f : \A t \in LiveInFamily(f)' :
                \/ t = req[r].insert /\ req[r].new.family = f
                                     /\ req[r].op \in {"login", "refresh"}
                \/ t \in LiveInFamily(f) /\ t \notin req[r].revokes
<1> DEFINE h == req[r]
<1>0. h \in Handler /\ Buffered(h)
  BY DEF IInv, TypeOK
<1>1. \A t \in Tokens : t \notin h.revokes /\ t # h.insert => row'[t] = row[t]
  BY DEF Commit, Applied
<1>2. /\ \A t \in Tokens : row'[t] # NoRow => Issued(t) \/ t = h.insert
      /\ h.insert # NoToken => row'[h.insert] = h.new
      /\ \A t \in h.revokes : row'[t].revoked
      /\ RowsKept
  BY CommitRows
<1> HIDE DEF h
<1>3. ASSUME NEW f, NEW t \in LiveInFamily(f)'
      PROVE  \/ t = h.insert /\ h.new.family = f /\ h.op \in {"login", "refresh"}
             \/ t \in LiveInFamily(f) /\ t \notin h.revokes
  <2>1. t \in Tokens /\ row'[t] # NoRow /\ ~row'[t].revoked /\ row'[t].family = f
    BY <1>3 DEF LiveInFamily, Live, Issued
  <2>2. t \notin h.revokes
    BY <2>1, <1>2
  <2>3. CASE t = h.insert
    BY <2>1, <2>3, <1>0, <1>2, NullsAreFresh DEF Buffered
  <2>4. CASE t # h.insert
    BY <2>1, <2>2, <2>4, <1>1 DEF LiveInFamily, Live, Issued
  <2> QED
    BY <2>3, <2>4
<1> QED
  BY <1>1, <1>3 DEF h

\* The families the open transactions write are those of rows that stay, and
\* one that two transactions write counts as raced once one of them commits.
LEMMA CommitWrites ==
    ASSUME IInv, NEW r \in Requests, Commit(r)
    PROVE  /\ req'[r] = Idle
           /\ raced \subseteq raced'
           /\ \A f \in Writes(req[r]) : Issued(f)
           /\ \A q \in Requests \ {r} :
                /\ req'[q] = req[q]
                /\ Writes(req[q])' = Writes(req[q])
                /\ \A f \in Writes(req[q]) : Issued(f)
                /\ \A f \in Writes(req[q]) \cap Writes(req[r]) : f \in raced'
<1>1. \A q \in Requests : req'[q] = IF q = r THEN Idle ELSE req[q]
  BY DEF Commit, Finish, IInv, TypeOK
<1>2. RowsKept
  BY CommitRows
<1>3. ASSUME NEW q \in Requests
      PROVE  \A t \in req[q].revokes : t \in Tokens /\ Issued(t)
  <2>1. req[q] \in Handler /\ Buffered(req[q])
    BY DEF IInv, TypeOK
  <2> QED
    BY <2>1 DEF Handler, Buffered
<1>4. \A q \in Requests : \A f \in Writes(req[q]) : Issued(f)
  BY <1>3 DEF Writes, IInv, FamiliesAreRooted, IsFamily
<1>5. ASSUME NEW q \in Requests \ {r}
      PROVE  Writes(req[q])' = Writes(req[q])
  <2>1. req'[q] = req[q]
    BY <1>1
  <2>2. \A t \in req[q].revokes : row'[t].family = row[t].family
    BY <1>2, <1>3 DEF RowsKept
  <2> QED
    BY <2>1, <2>2 DEF Writes
<1>6. /\ raced \subseteq raced'
      /\ \A q \in Requests \ {r} :
            \A f \in Writes(req[q]) \cap Writes(req[r]) : f \in raced'
  BY DEF Commit
<1> QED
  BY <1>1, <1>4, <1>5, <1>6

\* The token a commit makes live opens its login, or replaces the only live
\* token of a login that no other transaction wrote.
LEMMA CommitInsert ==
    ASSUME IInv, LogoutInv, NEW r \in Requests, NEW f, req[r].new.family = f,
           req[r].op \in {"login", "refresh"}
    PROVE  \/ req[r].op = "login" /\ ~Issued(f)
           \/ /\ req[r].op = "refresh" /\ Issued(f) /\ f \in Writes(req[r])
              /\ f \notin raced => req[r].revokes \cap LiveInFamily(f) # {}
<1> DEFINE h == req[r]
<1>1. Buffered(h) /\ Held(h) /\ h \in Handler
  BY DEF IInv, TypeOK, LogoutInv
<1>2. h.new.family = f
  OBVIOUS
<1> HIDE DEF h
<1>3. CASE h.op = "login"
  <2>1. ~Issued(f)
    BY <1>1, <1>2, <1>3, NullsAreFresh DEF Buffered
  <2> QED
    BY <1>3, <2>1 DEF h
<1>4. CASE h.op = "refresh"
  <2>1. /\ h.token \in Tokens /\ Issued(h.token) /\ h.revokes = {h.token}
        /\ row[h.token].family = f
    BY <1>1, <1>2, <1>4 DEF Buffered, IssueSession
  <2>2. Issued(f)
    BY <2>1 DEF IInv, FamiliesAreRooted, IsFamily
  <2>3. f \in Writes(h)
    BY <2>1 DEF Writes
  <2>4. f \notin raced => h.token \in LiveInFamily(f)
    BY <1>1, <1>4, <2>1 DEF Held, LiveInFamily
  <2> QED
    BY <1>4, <2>1, <2>2, <2>3, <2>4 DEF h
<1> QED
  BY <1>3, <1>4 DEF h

LEMMA CommitHeld ==
    ASSUME IInv, LogoutInv, NEW r \in Requests, Commit(r)
    PROVE  LogoutInv'
<1> DEFINE c == req[r]
<1>1. \A f : \A t \in LiveInFamily(f)' :
        \/ t = c.insert /\ c.new.family = f /\ c.op \in {"login", "refresh"}
        \/ t \in LiveInFamily(f) /\ t \notin c.revokes
  BY CommitLive
<1>2. \A t \in Tokens : t \notin c.revokes /\ t # c.insert => row'[t] = row[t]
  BY CommitLive
<1>3. /\ req'[r] = Idle
      /\ raced \subseteq raced'
      /\ \A f \in Writes(c) : Issued(f)
      /\ \A q \in Requests \ {r} :
            /\ req'[q] = req[q]
            /\ Writes(req[q])' = Writes(req[q])
            /\ \A f \in Writes(req[q]) : Issued(f)
            /\ \A f \in Writes(req[q]) \cap Writes(c) : f \in raced'
  BY CommitWrites
<1>4. ASSUME NEW f, c.new.family = f, c.op \in {"login", "refresh"}
      PROVE  \/ c.op = "login" /\ ~Issued(f)
             \/ /\ c.op = "refresh" /\ Issued(f) /\ f \in Writes(c)
                /\ f \notin raced => c.revokes \cap LiveInFamily(f) # {}
  BY <1>4, CommitInsert
<1>5. RowsKept
  BY CommitRows
<1>6. ended' = IF c.op = "logout" THEN ended \cup Writes(c) ELSE ended
  BY DEF Commit
<1>7. c \in Handler /\ Buffered(c) /\ Held(c)
  BY DEF IInv, TypeOK, LogoutInv
<1>8. \A f : \A t \in LiveInFamily(f) : Issued(f) /\ t \in Tokens
  BY DEF LiveInFamily, Live, IInv, FamiliesAreRooted, IsFamily
<1> HIDE DEF c
<1>9. ASSUME NEW q \in Requests PROVE Held(req[q])'
  <2>1. CASE q = r
    <3>1. req'[q].op = "none"
      BY <2>1, <1>3 DEF Idle
    <3> QED
      BY <3>1 DEF Held
  <2>2. CASE q # r
    <3>1. PICK h \in Handler : h = req[q]
      BY DEF IInv, TypeOK
    <3>2. req'[q] = h /\ Held(h) /\ Buffered(h)
      BY <2>2, <3>1, <1>3 DEF LogoutInv, IInv
    <3>3. /\ Writes(h)' = Writes(h)
          /\ \A f \in Writes(h) : Issued(f)
          /\ \A f \in Writes(h) \cap Writes(c) : f \in raced'
      BY <2>2, <3>1, <3>2, <1>3 DEF Writes
    <3>4. ASSUME h.op = "refresh", row'[h.token].family \notin raced'
          PROVE  Live(h.token)'
      <4>1. h.token \in Tokens /\ Issued(h.token) /\ h.revokes = {h.token}
        BY <3>2, <3>4 DEF Buffered
      <4>2. row'[h.token].family = row[h.token].family
        BY <4>1, <1>5 DEF RowsKept
      <4>3. row[h.token].family \in Writes(h)
        BY <4>1 DEF Writes
      <4>4. h.token \notin c.revokes
        BY <4>2, <4>3, <3>3, <3>4 DEF Writes
      <4>5. h.token # c.insert
        BY <4>1, <1>7, NullsAreFresh DEF Buffered
      <4>6. Live(h.token)
        BY <3>2, <3>4, <4>2, <1>3 DEF Held
      <4> QED
        BY <4>1, <4>4, <4>5, <4>6, <1>2 DEF Live, Issued
    <3>5. ASSUME h.op = "logout", NEW f \in Writes(h), f \notin raced',
                 NEW t \in LiveInFamily(f)'
          PROVE  t \in h.revokes
      <4>1. f \notin Writes(c) /\ Issued(f) /\ f \notin raced
        BY <3>3, <3>5, <1>3
      <4>2. t \in LiveInFamily(f)
        BY <4>1, <3>5, <1>1, <1>4
      <4> QED
        BY <4>1, <4>2, <3>2, <3>5 DEF Held
    <3>6. Held(h)'
      BY <3>3, <3>4, <3>5 DEF Held
    <3> QED
      BY <3>2, <3>6
  <2> QED
    BY <2>1, <2>2
<1>10. ASSUME NEW f \in ended' PROVE Issued(f)'
  <2>1. Issued(f)
    BY <1>3, <1>6, <1>10 DEF LogoutInv
  <2>2. f \in Tokens
    BY <1>6, <1>10, <1>7 DEF IInv, TypeOK, Writes, Buffered, Handler, Issued, Row
  <2> QED
    BY <2>1, <2>2, <1>5 DEF RowsKept, Issued
<1>11. ASSUME NEW f \in Tokens \ raced', NEW s \in LiveInFamily(f)', NEW t \in LiveInFamily(f)'
       PROVE  s = t
  <2>1. f \notin raced
    BY <1>3
  <2>2. \A u, v \in LiveInFamily(f) : u = v
    BY <2>1 DEF LogoutInv, AtMostOneLivePerFamily
  <2>3. CASE c.new.family = f /\ c.op \in {"login", "refresh"}
    BY <2>1, <2>2, <2>3, <1>1, <1>4, <1>8
  <2>4. CASE ~(c.new.family = f /\ c.op \in {"login", "refresh"})
    BY <2>2, <2>4, <1>1
  <2> QED
    BY <2>3, <2>4
<1>12. ASSUME NEW f \in ended' \ raced', NEW t \in LiveInFamily(f)'
       PROVE  FALSE
  <2>1. f \notin raced
    BY <1>3
  <2>2. CASE f \in ended
    <3>1. LiveInFamily(f) = {} /\ Issued(f)
      BY <2>1, <2>2 DEF LogoutInv, LoggedOutStaysOut
    <3> QED
      BY <3>1, <2>1, <1>1, <1>4
  <2>3. CASE f \notin ended
    <3>1. c.op = "logout" /\ f \in Writes(c)
      BY <2>3, <1>6
    <3>2. LiveInFamily(f) \subseteq c.revokes
      BY <3>1, <2>1, <1>7 DEF Held
    <3> QED
      BY <3>1, <3>2, <1>1
  <2> QED
    BY <2>2, <2>3
<1> QED
  BY <1>9, <1>10, <1>11, <1>12 DEF LogoutInv, AtMostOneLivePerFamily, LoggedOutStaysOut

LEMMA InitHeld == Init => LogoutInv
BY DEF Init, LogoutInv, Held, Idle, AtMostOneLivePerFamily, LoggedOutStaysOut,
       LiveInFamily, Live, Issued

\* Every step of the handlers keeps LogoutInv.
LEMMA StepHeld == IInv /\ LogoutInv /\ [Next]_vars => LogoutInv'
<1> SUFFICES ASSUME IInv, LogoutInv, [Next]_vars PROVE LogoutInv'
  OBVIOUS
<1>1. ASSUME NEW r \in Requests, NEW op, NEW t, NEW R, NEW n, NEW w,
             Flush(r, op, t, R, n, w),
             op = "refresh" => Live(t),
             op = "logout" => \A f \in {row[s].family : s \in R} \ raced :
                                 LiveInFamily(f) \subseteq R,
             row' = row, ended' = ended, raced' = raced
      PROVE  LogoutInv'
  <2> DEFINE h == [pc |-> "flushed", op |-> op, token |-> t,
                   revokes |-> R, insert |-> n, new |-> w]
  <2>1. Held(h)
    BY <1>1 DEF Held, Writes
  <2>2. req' = [req EXCEPT ![r] = h]
    BY <1>1 DEF Flush
  <2> HIDE DEF h
  <2> QED
    BY <1>1, <2>1, <2>2, HeldStep
<1>2. ASSUME NEW r \in Requests, NEW pc, NEW op, op \notin {"refresh", "logout"}, NEW t,
             Read(r, pc, op, t), row' = row, ended' = ended, raced' = raced
      PROVE  LogoutInv'
  <2> DEFINE h == [pc |-> pc, op |-> op, token |-> t,
                   revokes |-> {}, insert |-> NoToken, new |-> NoRow]
  <2>1. Held(h)
    BY <1>2 DEF Held
  <2>2. req' = [req EXCEPT ![r] = h]
    BY <1>2 DEF Read
  <2> HIDE DEF h
  <2> QED
    BY <1>2, <2>1, <2>2, HeldStep
<1>3. ASSUME NEW r \in Requests, Finish(r), row' = row, ended' = ended, raced' = raced
      PROVE  LogoutInv'
  <2>1. Held(Idle)
    BY DEF Held, Idle
  <2> QED
    BY <1>3, <2>1, HeldStep DEF Finish
<1>4. \A f \in Tokens \ raced : \A s \in LiveInFamily(f) : LiveInFamily(f) \subseteq {s}
  BY DEF LogoutInv, AtMostOneLivePerFamily
<1>5. \A t \in Tokens : Live(t) => row[t].family \in Tokens /\ t \in LiveInFamily(row[t].family)
  BY DEF IInv, TypeOK, Live, Issued, Row, LiveInFamily
<1>6. CASE UNCHANGED vars \/ \E t \in Tokens : Expire(t)
  <2>1. row' = row /\ req' = req /\ ended' = ended /\ raced' = raced
    BY <1>6 DEF vars, Expire
  <2> QED
    BY <2>1 DEF LogoutInv, Held, Writes, AtMostOneLivePerFamily, LoggedOutStaysOut,
                LiveInFamily, Live, Issued
<1>7. ASSUME NEW r \in Requests, NEW u \in Users, NEW o \in Orgs, NEW n \in Tokens,
             Login(r, u, o, n)
      PROVE  LogoutInv'
  BY <1>1, <1>7 DEF Login
<1>8. ASSUME NEW r \in Requests, NEW u \in Users, NEW o \in Orgs, LogoutAll(r, u, o)
      PROVE  LogoutInv'
  <2> DEFINE R == LiveOfUser(u, o)
  <2>1. \A s \in R : s \in Tokens /\ Live(s)
    BY DEF LiveOfUser
  <2>2. \A f \in {row[s].family : s \in R} \ raced : LiveInFamily(f) \subseteq R
    <3> SUFFICES ASSUME NEW s \in R, row[s].family \notin raced
                 PROVE  LiveInFamily(row[s].family) \subseteq R
      OBVIOUS
    <3> HIDE DEF R
    <3> QED
      BY <2>1, <1>4, <1>5
  <2> QED
    BY <1>1, <1>8, <2>2 DEF LogoutAll
<1>9. ASSUME NEW r \in Requests, NEW t \in Tokens, NEW n \in Tokens, Refresh(r, t, n)
      PROVE  LogoutInv'
  BY <1>1, <1>9 DEF Refresh, Usable
<1>10. ASSUME NEW r \in Requests, NEW t \in Tokens, Logout(r, t)
       PROVE  LogoutInv'
  <2>1. \A f \in {row[s].family : s \in {t}} \ raced : LiveInFamily(f) \subseteq {t}
    BY <1>4, <1>5, <1>10 DEF Logout
  <2> QED
    BY <1>1, <1>10, <2>1 DEF Logout
<1>11. ASSUME NEW r \in Requests, NEW t \in Tokens,
              LoadRefreshToken(r, t) \/ RefreshRevoked(r, t)
       PROVE  LogoutInv'
  BY <1>2, <1>11 DEF LoadRefreshToken, RefreshRevoked
<1>12. ASSUME NEW r \in Requests, RevokeFamily(r)
       PROVE  LogoutInv'
  BY <1>1, <1>12 DEF RevokeFamily
<1>13. ASSUME NEW r \in Requests,
              (\E t \in Tokens : RefreshExpired(r, t)) \/ Rollback(r) \/ Crash(r)
       PROVE  LogoutInv'
  BY <1>3, <1>13 DEF RefreshExpired, Rollback, Crash
<1>14. ASSUME NEW r \in Requests, Commit(r)
       PROVE  LogoutInv'
  BY <1>14, CommitHeld
<1> QED
  BY <1>6, <1>7, <1>8, <1>9, <1>10, <1>11, <1>12, <1>13, <1>14 DEF Next

LEMMA HeldInvariance == Spec => []LogoutInv
<1>1. IInv /\ LogoutInv /\ [Next]_vars => LogoutInv'
  BY StepHeld
<1> QED
  BY <1>1, InitHeld, Invariance, PTL DEF Spec

\* Rotation keeps one usable token per login, however many requests overlap,
\* unless two that write that login are open at once.
THEOREM RotationKeepsOne == Spec => []AtMostOneLivePerFamily
<1>1. LogoutInv => AtMostOneLivePerFamily
  BY DEF LogoutInv
<1> QED
  BY <1>1, HeldInvariance, PTL

\* A login that a committed logout ended has no live token again, unless a
\* transaction that wrote it was open when the logout committed.
THEOREM LogoutIsFinal == Spec => []LoggedOutStaysOut
<1>1. LogoutInv => LoggedOutStaysOut
  BY DEF LogoutInv
<1> QED
  BY <1>1, HeldInvariance, PTL
=============================================================================
