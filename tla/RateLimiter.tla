---------------------------- MODULE RateLimiter ----------------------------
(***************************************************************************)
(* The token buckets in front of the connectors                            *)
(* (app/ingestion/rate_limiter) and the jobs that draw on them             *)
(* (_execute_ingestion_job): before every page a token of the connector,   *)
(* then one of the organization.                                           *)
(*                                                                         *)
(* Time and tokens are counted in fractions: a second has Second ticks, a  *)
(* token has Unit parts, and Rate is in parts per tick.  The lock of the   *)
(* limiter is held over a passage without await: a try is one step.        *)
(***************************************************************************)
EXTENDS Naturals, Sequences

CONSTANTS
    Jobs,        \* jobs that run in this process
    Connectors,  \* connector:<id>
    Org,         \* org:<id>
    ConnectorOf, \* the connector of each job
    Rate,        \* by key: parts of a token that accrue in a tick; 0: no limit
    Unit,        \* the parts of a token
    Second,      \* the ticks of a second
    MaxNow,      \* bound on the time
    MaxGrants    \* bound on the tokens granted

Keys == Connectors \cup {Org}

VARIABLES
    now,     \* time.monotonic
    buckets, \* _buckets: the tokens at the last refill, and its time
    job,     \* the jobs: which key each waits for, and until when it sleeps
    grants   \* history: the times at which each key granted its tokens

limiterVars == <<now, buckets, job, grants>>

LimiterTypeOK ==
    /\ now \in Nat
    /\ buckets \in [Keys -> [known : BOOLEAN, tokens : Nat, last : Nat]]
    /\ job \in [Jobs -> [key : Keys, waiting : BOOLEAN, until : Nat, passed : BOOLEAN]]
    /\ grants \in [Keys -> Seq(Nat)]

Begun(j) == [key |-> ConnectorOf[j], waiting |-> FALSE, until |-> 0, passed |-> FALSE]

LimiterInit ==
    /\ now = 0
    /\ buckets = [k \in Keys |-> [known |-> FALSE, tokens |-> 0, last |-> 0]]
    /\ job = [j \in Jobs |-> Begun(j)]
    /\ grants = [k \in Keys |-> <<>>]

-----------------------------------------------------------------------------
PerSecond(k) == Rate[k] * Second

\* max(rate, 1.0), as a number of parts.
Capacity(k) == IF PerSecond(k) < Unit THEN Unit ELSE PerSecond(k)

\* Mutant of Refilled: what accrues is added without the cap.
RefilledBeyond(k) ==
    IF buckets[k].known THEN buckets[k].tokens + Rate[k] * (now - buckets[k].last) ELSE PerSecond(k)

\* The tokens of k now; the first time, a second's worth.
Refilled(k) ==
    IF ~buckets[k].known THEN PerSecond(k)
    ELSE LET accrued == buckets[k].tokens + Rate[k] * (now - buckets[k].last)
         IN IF accrued > Capacity(k) THEN Capacity(k) ELSE accrued

\* The sleep until a whole token has accrued, rounded up.
Wait(k, tokens) == (Unit - tokens + Rate[k] - 1) \div Rate[k]

\* The job tries to acquire its key: not asleep any more.
Tries(j) == ~job[j].passed /\ job[j].until <= now

\* Job j has its token: of the connector, then of the organization, then it fetches.
Granted(j) ==
    job' = [job EXCEPT ![j] = [Begun(j) EXCEPT !.key = Org, !.passed = job[j].key = Org]]

\* No limit is configured for the key.
Unlimited(j) ==
    /\ Tries(j) /\ Rate[job[j].key] = 0
    /\ Granted(j)
    /\ UNCHANGED <<now, buckets, grants>>

\* A whole token is there: it is consumed.
Acquire(j) ==
    LET k == job[j].key IN
    /\ Tries(j) /\ Rate[k] # 0 /\ Refilled(k) >= Unit
    /\ Len(grants[k]) < MaxGrants
    /\ buckets' = [buckets EXCEPT ![k] = [known |-> TRUE, tokens |-> Refilled(k) - Unit, last |-> now]]
    /\ grants' = [grants EXCEPT ![k] = Append(@, now)]
    /\ Granted(j)
    /\ UNCHANGED now

\* It is not: the refill is recorded, and the job sleeps.
Sleep(j) ==
    LET k == job[j].key IN
    /\ Tries(j) /\ Rate[k] # 0 /\ Refilled(k) < Unit
    /\ buckets' = [buckets EXCEPT ![k] = [known |-> TRUE, tokens |-> Refilled(k), last |-> now]]
    /\ job' = [job EXCEPT ![j].waiting = TRUE, ![j].until = now + Wait(k, Refilled(k))]
    /\ UNCHANGED <<now, grants>>

\* The page is fetched, and the next one wanted.
NextPage(j) ==
    /\ job[j].passed
    /\ job' = [job EXCEPT ![j] = Begun(j)]
    /\ UNCHANGED <<now, buckets, grants>>

\* The job is cancelled while it sleeps, by its timeout, and another one begins.
Cancel(j) ==
    /\ job[j].waiting
    /\ job' = [job EXCEPT ![j] = Begun(j)]
    /\ UNCHANGED <<now, buckets, grants>>

Tick ==
    /\ now < MaxNow
    /\ now' = now + 1
    /\ UNCHANGED <<buckets, job, grants>>

LimiterNext ==
    \/ \E j \in Jobs : Unlimited(j) \/ Acquire(j) \/ Sleep(j) \/ NextPage(j) \/ Cancel(j)
    \/ Tick

LimiterSpec == LimiterInit /\ [][LimiterNext]_limiterVars

-----------------------------------------------------------------------------
(* Properties.                                                              *)

\* Between any two moments a key grants no more than its burst and what accrued
\* in between, however many jobs share it and sleep and are cancelled ("two
\* coroutines could both read a stale token count and both proceed").
WithinRate ==
    \A k \in Keys : \A m, n \in DOMAIN grants[k] :
        m <= n => (n - m + 1) * Unit <= Capacity(k) + Rate[k] * (grants[k][n] - grants[k][m])
=============================================================================
