--------------------------- MODULE ServicesProofs ---------------------------
(***************************************************************************)
(* Proofs about three of the services: the rate limiter of the connectors, *)
(* the sign-ups of new organizations, and the OAuth bridge.                *)
(***************************************************************************)
EXTENDS RateLimiter, Organizations, OAuthBridge, Integers, TLAPS

-----------------------------------------------------------------------------
(* RateLimiter: WithinRate, for any jobs, connectors, rates and capacities.*)

\* Rates and units are numbers; a job draws on a connector of its own.
LimiterAssumption ==
    /\ Rate \in [Keys -> Nat]
    /\ Unit \in Nat \ {0} /\ Second \in Nat \ {0}
    /\ ConnectorOf \in [Jobs -> Connectors]
    /\ MaxNow \in Nat /\ MaxGrants \in Nat

\* The tokens left come on top of those granted since any earlier grant: with
\* capacity c, rate r and unit u, given the times of the grants.
Funds(times, tokens, last, c, r, u) ==
    \A m \in 1..Len(times) :
        /\ times[m] <= last
        /\ tokens + (Len(times) - m + 1) * u <= c + r * (last - times[m])

\* WithinRate of one key.
Rated(times, c, r, u) ==
    \A m, n \in 1..Len(times) : m <= n => (n - m + 1) * u <= c + r * (times[n] - times[m])

\* What makes WithinRate inductive.
Funded(k) ==
    /\ buckets[k].last <= now
    /\ buckets[k].tokens <= Capacity(k)
    /\ ~buckets[k].known => grants[k] = <<>>
    /\ Funds(grants[k], buckets[k].tokens, buckets[k].last, Capacity(k), Rate[k], Unit)
    /\ Rated(grants[k], Capacity(k), Rate[k], Unit)

LimiterInv == LimiterTypeOK /\ \A k \in Keys : Funded(k)

-----------------------------------------------------------------------------
(* Arithmetic.                                                              *)

LEMMA Products ==
    ASSUME NEW a \in Int, NEW b \in Int
    PROVE  a * b \in Int
BY SMT

LEMMA Quotients ==
    ASSUME NEW a \in Nat, NEW b \in Nat \ {0}
    PROVE  a \div b \in Nat
BY SMT

\* A product distributes over a sum of spans of time.
LEMMA Spans ==
    ASSUME NEW r \in Nat, NEW g \in Nat, NEW l \in Nat, NEW w \in Nat
    PROVE  r * (w - g) = r * (w - l) + r * (l - g)
BY SMT

\* One grant more is one unit more.
LEMMA OneMore ==
    ASSUME NEW u \in Nat, NEW n \in Int
    PROVE  (n + 1) * u = n * u + u
BY SMT

\* What is granted and kept stays funded by what accrues.
LEMMA Accrual ==
    ASSUME NEW r \in Nat, NEW c \in Nat, NEW g \in Nat, NEW l \in Nat, NEW w \in Nat,
           NEW granted \in Int, NEW tokens \in Nat, NEW refilled \in Nat,
           tokens + granted <= c + r * (l - g),
           refilled <= tokens + r * (w - l)
    PROVE  refilled + granted <= c + r * (w - g)
<1>1. r * (w - g) = r * (w - l) + r * (l - g)
  BY Spans
<1>2. r * (w - l) \in Int /\ r * (l - g) \in Int
  BY SMT
<1> QED
  BY <1>1, <1>2, SMT

\* A refill keeps the grants funded.
LEMMA RefillFunds ==
    ASSUME NEW r \in Nat, NEW c \in Nat, NEW u \in Nat, NEW times \in Seq(Nat),
           NEW tokens \in Nat, NEW l \in Nat, NEW w \in Nat, NEW refilled \in Nat,
           l <= w, Funds(times, tokens, l, c, r, u),
           times # <<>> => refilled <= tokens + r * (w - l)
    PROVE  Funds(times, refilled, w, c, r, u)
<1> SUFFICES ASSUME NEW m \in 1..Len(times)
             PROVE  /\ times[m] <= w
                    /\ refilled + (Len(times) - m + 1) * u <= c + r * (w - times[m])
  BY DEF Funds
<1>1. times[m] \in Nat /\ times # <<>> /\ Len(times) - m + 1 \in Int /\ u \in Int
  BY SMT
<1>2. (Len(times) - m + 1) * u \in Int
  BY <1>1, Products
<1>3. times[m] <= l /\ tokens + (Len(times) - m + 1) * u <= c + r * (l - times[m])
  BY DEF Funds
<1>4. refilled + (Len(times) - m + 1) * u <= c + r * (w - times[m])
  BY <1>1, <1>2, <1>3, Accrual
<1> QED
  BY <1>1, <1>3, <1>4, SMT

\* So does a grant that is paid for, and it is within the rate itself.
LEMMA GrantFunds ==
    ASSUME NEW r \in Nat, NEW c \in Nat, NEW u \in Nat, NEW times \in Seq(Nat),
           NEW w \in Nat, NEW refilled \in Nat,
           u <= refilled, refilled <= c,
           Funds(times, refilled, w, c, r, u), Rated(times, c, r, u)
    PROVE  /\ Funds(Append(times, w), refilled - u, w, c, r, u)
           /\ Rated(Append(times, w), c, r, u)
<1> DEFINE s == Append(times, w)
           L == Len(times)
<1>1. /\ s \in Seq(Nat) /\ L \in Nat /\ Len(s) = L + 1 /\ s[L + 1] = w
      /\ \A m \in 1..L : s[m] = times[m] /\ times[m] \in Nat
  BY SMT
<1> HIDE DEF s, L
<1>2. ASSUME NEW e \in Nat, e = L + 1, NEW m \in 1..e
      PROVE  /\ s[m] \in Nat /\ s[m] <= w
             /\ (refilled - u) + (e - m + 1) * u <= c + r * (w - s[m])
  <2>1. CASE m = e
    <3>1. e - m + 1 = 0 + 1 /\ w - s[m] = 0
      BY <2>1, <1>1, <1>2, SMT
    <3>2. (e - m + 1) * u = u /\ r * (w - s[m]) = 0
      <4>1. (0 + 1) * u = u /\ r * 0 = 0
        BY SMT
      <4> QED
        BY <3>1, <4>1, Zenon
    <3>3. s[m] \in Nat /\ s[m] <= w
      BY <2>1, <1>1, <1>2, SMT
    <3>4. (refilled - u) + u <= c + 0
      BY SMT
    <3> QED
      BY <3>2, <3>3, <3>4, Zenon
  <2>2. CASE m \in 1..L
    <3>1. s[m] = times[m] /\ times[m] \in Nat
      BY <2>2, <1>1
    <3>2. times[m] <= w /\ refilled + (L - m + 1) * u <= c + r * (w - times[m])
      BY <2>2 DEF Funds, L
    <3>3. L - m + 1 \in Int /\ e - m + 1 = (L - m + 1) + 1
      BY <2>2, <1>1, <1>2, SMT
    <3>4. (e - m + 1) * u = (L - m + 1) * u + u
      BY <3>3, OneMore
    <3>5. (L - m + 1) * u \in Int /\ r * (w - times[m]) \in Int
      <4>1. w - times[m] \in Int /\ r \in Int /\ u \in Int
        BY <3>1, SMT
      <4> QED
        BY <4>1, <3>3, Products
    <3> HIDE DEF Funds
    <3>6. (refilled - u) + (e - m + 1) * u <= c + r * (w - times[m])
      BY <3>2, <3>4, <3>5, SMT
    <3> QED
      BY <3>1, <3>2, <3>6
  <2> QED
    BY <2>1, <2>2, <1>1, <1>2, SMT
<1>3. Funds(s, refilled - u, w, c, r, u)
  <2> SUFFICES ASSUME NEW m \in 1..Len(s)
               PROVE  s[m] <= w /\ (refilled - u) + (Len(s) - m + 1) * u <= c + r * (w - s[m])
    BY DEF Funds
  <2>1. Len(s) \in Nat /\ Len(s) = L + 1
    BY <1>1
  <2> QED
    BY <2>1, <1>2, Zenon
<1>4. ASSUME NEW m \in 1..(L + 1), NEW n \in 1..(L + 1), m <= n
      PROVE  (n - m + 1) * u <= c + r * (s[n] - s[m])
  <2>1. CASE n = L + 1
    <3>1. (refilled - u) + (n - m + 1) * u <= c + r * (s[n] - s[m]) /\ s[m] \in Nat
      <4>1. (refilled - u) + (n - m + 1) * u <= c + r * (w - s[m]) /\ s[m] \in Nat
        <5>1. n \in Nat /\ n = L + 1 /\ m \in 1..n
          BY <2>1, <1>1
        <5> QED
          BY <5>1, <1>2, Zenon
      <4>2. s[n] = w
        BY <2>1, <1>1
      <4> QED
        BY <4>1, <4>2, Zenon
    <3>2. (n - m + 1) * u \in Int /\ r * (s[n] - s[m]) \in Int
      <4>1. n - m + 1 \in Int /\ s[n] - s[m] \in Int /\ u \in Int /\ r \in Int
        BY <2>1, <3>1, <1>1, SMT
      <4> QED
        BY <4>1, Products
    <3> QED
      BY <3>1, <3>2, SMT
  <2>2. CASE n \in 1..L
    <3>1. m \in 1..L
      BY <2>2, <1>1, <1>4, SMT
    <3> QED
      BY <2>2, <3>1, <1>1, <1>4 DEF Rated, L
  <2> QED
    BY <2>1, <2>2, <1>1, SMT
<1>5. Rated(s, c, r, u)
  BY <1>1, <1>4 DEF Rated
<1> QED
  BY <1>3, <1>5 DEF s

-----------------------------------------------------------------------------
(* The operators.                                                           *)

LEMMA CapacityType ==
    ASSUME LimiterAssumption, NEW k \in Keys
    PROVE  /\ Capacity(k) \in Nat /\ PerSecond(k) \in Nat /\ PerSecond(k) <= Capacity(k)
           /\ Rate[k] \in Nat /\ Unit \in Nat
<1>1. Rate[k] \in Nat /\ Second \in Nat /\ Unit \in Nat
  BY DEF LimiterAssumption
<1>2. PerSecond(k) \in Nat
  BY <1>1, SMT DEF PerSecond
<1> QED
  BY <1>1, <1>2, SMT DEF Capacity

\* A refill adds what accrued at most, and respects the capacity.
LEMMA RefilledBounds ==
    ASSUME LimiterAssumption, LimiterTypeOK, NEW k \in Keys, Funded(k)
    PROVE  /\ Refilled(k) \in Nat
           /\ Refilled(k) <= Capacity(k)
           /\ buckets[k].known => Refilled(k) <= buckets[k].tokens + Rate[k] * (now - buckets[k].last)
<1>1. buckets[k].tokens \in Nat /\ buckets[k].last \in Nat /\ now \in Nat /\ buckets[k].last <= now
  BY DEF LimiterTypeOK, Funded
<1>2. Rate[k] \in Nat
  BY DEF LimiterAssumption
<1>3. Rate[k] * (now - buckets[k].last) \in Nat
  BY <1>1, <1>2, SMT
<1>4. Capacity(k) \in Nat /\ PerSecond(k) \in Nat /\ PerSecond(k) <= Capacity(k)
  BY CapacityType
<1> QED
  BY <1>1, <1>3, <1>4, SMT DEF Refilled

LEMMA GrantedType ==
    ASSUME LimiterAssumption, LimiterTypeOK, NEW j \in Jobs, Granted(j)
    PROVE  job' \in [Jobs -> [key : Keys, waiting : BOOLEAN, until : Nat, passed : BOOLEAN]]
BY DEF Granted, LimiterTypeOK, LimiterAssumption, Begun, Keys

\* The refilled bucket of k, at this time, funds the grants of k.
LEMMA RefilledFunds ==
    ASSUME LimiterAssumption, LimiterTypeOK, NEW k \in Keys, Funded(k)
    PROVE  Funds(grants[k], Refilled(k), now, Capacity(k), Rate[k], Unit)
<1>1. /\ buckets[k].tokens \in Nat /\ buckets[k].last \in Nat /\ now \in Nat
      /\ grants[k] \in Seq(Nat)
  BY DEF LimiterTypeOK
<1>2. /\ buckets[k].last <= now
      /\ Funds(grants[k], buckets[k].tokens, buckets[k].last, Capacity(k), Rate[k], Unit)
      /\ grants[k] # <<>> => buckets[k].known
  BY <1>1 DEF Funded, LimiterTypeOK
<1>3. /\ Refilled(k) \in Nat
      /\ buckets[k].known => Refilled(k) <= buckets[k].tokens + Rate[k] * (now - buckets[k].last)
  BY RefilledBounds
<1>4. Capacity(k) \in Nat /\ Rate[k] \in Nat /\ Unit \in Nat
  BY CapacityType
<1> QED
  BY ZenonT(60), <1>1, <1>2, <1>3, <1>4, RefillFunds

-----------------------------------------------------------------------------
(* The steps.                                                               *)

LEMMA LimiterInitInv ==
    ASSUME LimiterAssumption, LimiterInit
    PROVE  LimiterInv
<1>1. LimiterTypeOK
  BY DEF LimiterInit, LimiterTypeOK, Begun, LimiterAssumption, Keys
<1>2. ASSUME NEW k \in Keys PROVE Funded(k)
  <2>1. buckets[k] = [known |-> FALSE, tokens |-> 0, last |-> 0] /\ grants[k] = <<>> /\ now = 0
    BY DEF LimiterInit
  <2>2. Capacity(k) \in Nat
    BY CapacityType
  <2>3. Len(grants[k]) = 0
    BY <2>1
  <2> QED
    BY <2>1, <2>2, <2>3, SMT DEF Funded, Funds, Rated
<1> QED
  BY <1>1, <1>2 DEF LimiterInv

\* What does not touch a bucket and its grants leaves it funded.
LEMMA Untouched ==
    ASSUME NEW k \in Keys, Funded(k), LimiterTypeOK,
           buckets'[k] = buckets[k], grants'[k] = grants[k], now' \in Nat, now <= now'
    PROVE  Funded(k)'
<1>1. buckets[k].last \in Nat /\ now \in Nat
  BY DEF LimiterTypeOK
<1>2. Capacity(k)' = Capacity(k)
  BY DEF Capacity, PerSecond
<1>3. (buckets'[k].last <= now') /\ (Funded(k)' <=> /\ buckets'[k].last <= now'
                                                 /\ buckets'[k].tokens <= Capacity(k)
                                                 /\ ~buckets'[k].known => grants'[k] = <<>>
                                                 /\ Funds(grants'[k], buckets'[k].tokens, buckets'[k].last,
                                                          Capacity(k), Rate[k], Unit)
                                                 /\ Rated(grants'[k], Capacity(k), Rate[k], Unit))
  BY <1>1, <1>2, SMT DEF Funded
<1> QED
  BY <1>3 DEF Funded

LEMMA AcquireInv ==
    ASSUME LimiterAssumption, LimiterInv, NEW j \in Jobs, NEW k \in Keys, k = job[j].key, Acquire(j)
    PROVE  LimiterInv'
<1> DEFINE f == Refilled(k)
<1>0. LimiterTypeOK /\ (\A q \in Keys : Funded(q))
  BY DEF LimiterInv
<1>1. /\ f >= Unit
      /\ buckets' = [buckets EXCEPT ![k] = [known |-> TRUE, tokens |-> f - Unit, last |-> now]]
      /\ grants' = [grants EXCEPT ![k] = Append(@, now)]
      /\ now' = now
      /\ Granted(j)
  BY DEF Acquire
<1>2. f \in Nat /\ f <= Capacity(k)
  BY <1>0, RefilledBounds
<1>3. /\ Unit \in Nat /\ Rate[k] \in Nat /\ Capacity(k) \in Nat /\ now \in Nat
      /\ grants[k] \in Seq(Nat)
  BY <1>0, CapacityType DEF LimiterTypeOK
<1>4. Funds(grants[k], f, now, Capacity(k), Rate[k], Unit) /\ Rated(grants[k], Capacity(k), Rate[k], Unit)
  BY <1>0, RefilledFunds DEF Funded
<1> HIDE DEF f
<1>5. /\ Funds(Append(grants[k], now), f - Unit, now, Capacity(k), Rate[k], Unit)
      /\ Rated(Append(grants[k], now), Capacity(k), Rate[k], Unit)
  <2>1. Unit <= f
    BY <1>1, <1>2, <1>3, SMT
  <2> QED
    BY <2>1, <1>2, <1>3, <1>4, GrantFunds
<1>6. f - Unit \in Nat /\ f - Unit <= Capacity(k)
  BY <1>1, <1>2, <1>3, SMT
<1>7. LimiterTypeOK'
  <2>1. buckets' \in [Keys -> [known : BOOLEAN, tokens : Nat, last : Nat]]
    BY <1>0, <1>1, <1>3, <1>6 DEF LimiterTypeOK
  <2>2. grants' \in [Keys -> Seq(Nat)]
    BY <1>0, <1>1, <1>3 DEF LimiterTypeOK
  <2> QED
    BY <1>0, <1>1, <1>3, <2>1, <2>2, GrantedType DEF LimiterTypeOK
<1>8. /\ buckets'[k] = [known |-> TRUE, tokens |-> f - Unit, last |-> now]
      /\ grants'[k] = Append(grants[k], now)
  BY <1>0, <1>1 DEF LimiterTypeOK
<1>9. ASSUME NEW q \in Keys PROVE Funded(q)'
  <2>1. CASE q = k
    <3>1. Capacity(k)' = Capacity(k)
      BY DEF Capacity, PerSecond
    <3>2. now <= now' /\ now' = now
      BY <1>1, <1>3, SMT
    <3> QED
      BY <2>1, <3>1, <3>2, <1>5, <1>6, <1>8 DEF Funded
  <2>2. CASE q # k
    <3>1. buckets'[q] = buckets[q] /\ grants'[q] = grants[q] /\ now' \in Nat /\ now <= now'
      BY <2>2, <1>0, <1>1, <1>3, SMT DEF LimiterTypeOK
    <3> QED
      BY <3>1, <1>0, Untouched
  <2> QED
    BY <2>1, <2>2
<1> QED
  BY <1>7, <1>9 DEF LimiterInv

LEMMA SleepInv ==
    ASSUME LimiterAssumption, LimiterInv, NEW j \in Jobs, NEW k \in Keys, k = job[j].key, Sleep(j)
    PROVE  LimiterInv'
<1> DEFINE f == Refilled(k)
<1>0. LimiterTypeOK /\ (\A q \in Keys : Funded(q))
  BY DEF LimiterInv
<1>1. /\ Rate[k] # 0 /\ f < Unit
      /\ buckets' = [buckets EXCEPT ![k] = [known |-> TRUE, tokens |-> f, last |-> now]]
      /\ job' = [job EXCEPT ![j].waiting = TRUE, ![j].until = now + Wait(k, f)]
      /\ now' = now /\ grants' = grants
  BY DEF Sleep
<1>2. f \in Nat /\ f <= Capacity(k)
  BY <1>0, RefilledBounds
<1>3. /\ Unit \in Nat /\ Rate[k] \in Nat /\ Capacity(k) \in Nat /\ now \in Nat
  BY <1>0, CapacityType DEF LimiterTypeOK
<1>4. Funds(grants[k], f, now, Capacity(k), Rate[k], Unit) /\ Rated(grants[k], Capacity(k), Rate[k], Unit)
  BY <1>0, RefilledFunds DEF Funded
<1> HIDE DEF f
<1>5. now + Wait(k, f) \in Nat
  <2>1. Unit - f + Rate[k] - 1 \in Nat /\ Rate[k] \in Nat \ {0}
    BY <1>1, <1>2, <1>3, SMT
  <2>2. Wait(k, f) \in Nat
    BY <2>1, Quotients DEF Wait
  <2> QED
    BY <2>2, <1>3, SMT
<1>6. LimiterTypeOK'
  <2>1. buckets' \in [Keys -> [known : BOOLEAN, tokens : Nat, last : Nat]]
    BY <1>0, <1>1, <1>2, <1>3 DEF LimiterTypeOK
  <2> DEFINE w == now + Wait(k, f)
  <2>2. job \in [Jobs -> [key : Keys, waiting : BOOLEAN, until : Nat, passed : BOOLEAN]]
    BY <1>0 DEF LimiterTypeOK
  <2>3. w \in Nat /\ job' = [job EXCEPT ![j].waiting = TRUE, ![j].until = w]
    BY <1>1, <1>5
  <2> HIDE DEF w
  <2>4. job' \in [Jobs -> [key : Keys, waiting : BOOLEAN, until : Nat, passed : BOOLEAN]]
    BY <2>2, <2>3
  <2> QED
    BY <1>0, <1>1, <2>1, <2>4 DEF LimiterTypeOK
<1>7. buckets'[k] = [known |-> TRUE, tokens |-> f, last |-> now]
  BY <1>0, <1>1 DEF LimiterTypeOK
<1>8. ASSUME NEW q \in Keys PROVE Funded(q)'
  <2>1. CASE q = k
    <3>1. Capacity(k)' = Capacity(k)
      BY DEF Capacity, PerSecond
    <3>2. now <= now' /\ now' = now
      BY <1>1, <1>3, SMT
    <3> QED
      BY <2>1, <3>1, <3>2, <1>1, <1>2, <1>4, <1>7 DEF Funded
  <2>2. CASE q # k
    <3>1. buckets'[q] = buckets[q] /\ grants'[q] = grants[q] /\ now' \in Nat /\ now <= now'
      BY <2>2, <1>0, <1>1, <1>3, SMT DEF LimiterTypeOK
    <3> QED
      BY <3>1, <1>0, Untouched
  <2> QED
    BY <2>1, <2>2
<1> QED
  BY <1>6, <1>8 DEF LimiterInv

\* The other steps grant nothing.
LEMMA LimiterOtherInv ==
    ASSUME LimiterAssumption, LimiterInv, LimiterTypeOK', buckets' = buckets, grants' = grants, now <= now'
    PROVE  LimiterInv'
<1>1. now' \in Nat
  BY DEF LimiterTypeOK
<1>2. ASSUME NEW k \in Keys PROVE Funded(k)'
  BY <1>1, Untouched DEF LimiterInv
<1> QED
  BY <1>2 DEF LimiterInv

LEMMA LimiterNextInv ==
    ASSUME LimiterAssumption, LimiterInv, [LimiterNext]_limiterVars
    PROVE  LimiterInv'
<1>0. LimiterTypeOK /\ now \in Nat /\ now <= now /\ \A j \in Jobs : job[j].key \in Keys
  BY SMT DEF LimiterInv, LimiterTypeOK
<1>1. ASSUME NEW j \in Jobs, Unlimited(j) PROVE LimiterInv'
  <2>1. LimiterTypeOK'
    BY <1>0, <1>1, GrantedType DEF Unlimited, LimiterTypeOK
  <2> QED
    BY <1>0, <1>1, <2>1, LimiterOtherInv DEF Unlimited
<1>2. ASSUME NEW j \in Jobs, Acquire(j) PROVE LimiterInv'
  BY <1>0, <1>2, AcquireInv
<1>3. ASSUME NEW j \in Jobs, Sleep(j) PROVE LimiterInv'
  BY <1>0, <1>3, SleepInv
<1>4. ASSUME NEW j \in Jobs, NextPage(j) \/ Cancel(j) PROVE LimiterInv'
  <2>1. job' = [job EXCEPT ![j] = Begun(j)] /\ UNCHANGED <<now, buckets, grants>>
    BY <1>4 DEF NextPage, Cancel
  <2>2. LimiterTypeOK'
    BY <1>0, <2>1 DEF LimiterTypeOK, Begun, LimiterAssumption, Keys
  <2> QED
    BY <1>0, <2>1, <2>2, LimiterOtherInv
<1>5. CASE Tick
  <2>1. LimiterTypeOK' /\ now <= now'
    BY <1>0, <1>5, SMT DEF Tick, LimiterTypeOK
  <2> QED
    BY <1>5, <2>1, LimiterOtherInv DEF Tick
<1>6. CASE UNCHANGED limiterVars
  <2>1. LimiterTypeOK'
    BY <1>0, <1>6 DEF limiterVars, LimiterTypeOK
  <2> QED
    BY <1>0, <1>6, <2>1, LimiterOtherInv DEF limiterVars
<1> QED
  BY <1>1, <1>2, <1>3, <1>4, <1>5, <1>6 DEF LimiterNext

\* However many jobs share a bucket, sleep on it and are cancelled, no stretch of
\* time sees more tokens granted than the burst and what accrued in it (acquire).
THEOREM LimiterKeepsTheRate == LimiterAssumption => (LimiterSpec => [](LimiterTypeOK /\ WithinRate))
<1> SUFFICES ASSUME LimiterAssumption PROVE LimiterSpec => [](LimiterTypeOK /\ WithinRate)
  OBVIOUS
<1>1. LimiterInit => LimiterInv
  BY LimiterInitInv
<1>2. LimiterInv /\ [LimiterNext]_limiterVars => LimiterInv'
  BY LimiterNextInv
<1>3. LimiterInv => LimiterTypeOK /\ WithinRate
  <2> SUFFICES ASSUME LimiterInv PROVE WithinRate
    BY DEF LimiterInv
  <2>1. ASSUME NEW k \in Keys PROVE Rated(grants[k], Capacity(k), Rate[k], Unit) /\ grants[k] \in Seq(Nat)
    BY DEF LimiterInv, Funded, LimiterTypeOK
  <2>2. ASSUME NEW k \in Keys PROVE DOMAIN grants[k] = 1..Len(grants[k])
    BY <2>1
  <2> QED
    BY <2>1, <2>2, Zenon DEF WithinRate, Rated
<1> QED
  BY <1>1, <1>2, <1>3, PTL DEF LimiterSpec

-----------------------------------------------------------------------------
(* Organizations: SignupsTakeEffect, for any organizations, people,
   passwords, project memberships and overlapping requests.                *)

\* The nulls are no passwords or projects, a membership is of a project, and there
\* is the name that the first project is given.
OrganizationsAssumption ==
    /\ NoUser \notin Passwords /\ NoPassword \notin Passwords /\ NoUser # NoPassword
    /\ NoProject \notin Names /\ "General" \in Names
    /\ \A m \in Memberships : m.project \in Names

\* The slugs that a signup saw are of people with another email address.
SawOthers(q) == \A x \in q.saw : \E u \in signups : u.slug = x /\ u.email # q.email

\* An open signup holds what was sent, and got to its inserts with no policy bound.
OpenSignup(q) ==
    q.op \in {"signup", "signup_inserted"} =>
        /\ q.email \in Emails /\ q.slug \in Slugs /\ q.password \in Passwords /\ q.saw \subseteq Slugs
        /\ SawOthers(q)
        /\ q.op = "signup_inserted" => ~enforced

Requested ==
    /\ request = [r \in Requests |-> request[r]]
    /\ \A r \in Requests : OpenSignup(request[r])
    /\ \A r \in Requests : request[r].op = "organization" => request[r].slug \in Slugs
    /\ \A r \in Requests : request[r].op = "sso" => request[r].org \in Slugs

\* What became of a signup: its rows are there, and its email address has a
\* password that some signup of it has set.
Effective(s) ==
    /\ s.slug \in organizations
    /\ General(s.slug) \in projects
    /\ [email |-> s.email, org |-> s.slug, role |-> "admin"] \in userRoles
    /\ \E t \in signups : t.email = s.email /\ users[s.email] = t.password
    /\ SawOthers(s)
    /\ \A t \in signups : t.slug = s.slug => t = s

TenancyInv ==
    /\ TenancyTypeOK /\ Requested
    /\ signups # {} => ~enforced
    /\ \A s \in signups : Effective(s)

-----------------------------------------------------------------------------
LEMMA TenancyInitInv ==
    ASSUME OrganizationsAssumption, TenancyInit
    PROVE  TenancyInv
<1>1. TenancyTypeOK
  BY DEF TenancyInit, TenancyTypeOK, Idle
<1>2. Requested
  BY DEF TenancyInit, Requested, OpenSignup, Idle
<1> QED
  BY <1>1, <1>2 DEF TenancyInit, TenancyInv

\* A step that adds no signup, leaves passwords and keeps rows.
LEMMA EffectiveFrame ==
    ASSUME TenancyInv, signups' = signups, enforced' = enforced,
           organizations \subseteq organizations', projects \subseteq projects',
           userRoles \subseteq userRoles',
           \A e \in Emails : users[e] \in Passwords => users'[e] = users[e]
    PROVE  /\ signups' # {} => ~enforced'
           /\ \A s \in signups' : Effective(s)'
<1>1. signups \subseteq Signup
  BY DEF TenancyInv, TenancyTypeOK
<1>2. ASSUME NEW s \in signups PROVE Effective(s)'
  <2>1. Effective(s)
    BY DEF TenancyInv
  <2>2. PICK t \in signups : t.email = s.email /\ users[s.email] = t.password
    BY <2>1 DEF Effective
  <2>3. users'[s.email] = t.password
    BY <1>1, <2>2 DEF Signup
  <2>4. SawOthers(s)' /\ General(s.slug)' = General(s.slug)
    BY <2>1 DEF Effective, SawOthers, General
  <2> QED
    BY <2>1, <2>2, <2>3, <2>4 DEF Effective
<1> QED
  BY <1>2 DEF TenancyInv

\* A step that only moves a request on.
LEMMA RequestFrame ==
    ASSUME TenancyInv, NEW r \in Requests, NEW q, request' = [request EXCEPT ![r] = q],
           signups' = signups, enforced' = enforced, tables' = tables,
           q.op \in {"none", "signup", "signup_inserted", "organization", "sso"}, OpenSignup(q),
           q.op = "organization" => q.slug \in Slugs, q.op = "sso" => q.org \in Slugs
    PROVE  TenancyInv'
<1>1. Requested /\ TenancyTypeOK
  BY DEF TenancyInv
<1>2. /\ request' = [o \in Requests |-> request'[o]] /\ request'[r] = q
      /\ \A o \in Requests \ {r} : request'[o] = request[o]
  BY <1>1 DEF Requested
<1>3. TenancyTypeOK'
  BY <1>1, <1>2 DEF TenancyTypeOK, tables, Projects, Signup
<1>4. Requested'
  <2>1. \A o \in Requests : OpenSignup(request'[o])
    BY <1>1, <1>2 DEF Requested
  <2>2. ASSUME NEW o \in Requests PROVE OpenSignup(request[o])'
    BY <2>1 DEF OpenSignup, SawOthers
  <2> QED
    BY <1>1, <1>2, <2>2 DEF Requested
<1>5. (signups' # {} => ~enforced') /\ \A s \in signups' : Effective(s)'
  BY EffectiveFrame DEF tables
<1> QED
  BY <1>3, <1>4, <1>5 DEF TenancyInv

\* A step that writes tables, and ends a request or none.
LEMMA TablesFrame ==
    ASSUME TenancyInv, TenancyTypeOK',
           signups' = signups, enforced' = enforced,
           request' = request \/ \E r \in Requests : request' = [request EXCEPT ![r] = Idle],
           organizations \subseteq organizations', projects \subseteq projects',
           userRoles \subseteq userRoles',
           \A e \in Emails : users[e] \in Passwords => users'[e] = users[e]
    PROVE  TenancyInv'
<1>1. Requested
  BY DEF TenancyInv
<1>2. Requested'
  <2>1. request' = [o \in Requests |-> request'[o]] /\ \A o \in Requests : request'[o] = request[o] \/ request'[o] = Idle
    BY <1>1 DEF Requested
  <2>2. \A o \in Requests : OpenSignup(request'[o])
    BY <1>1, <2>1 DEF Requested, OpenSignup, Idle
  <2>3. ASSUME NEW o \in Requests PROVE OpenSignup(request[o])'
    BY <2>2 DEF OpenSignup, SawOthers
  <2> QED
    BY <1>1, <2>1, <2>3 DEF Requested, Idle
<1>3. (signups' # {} => ~enforced') /\ \A s \in signups' : Effective(s)'
  BY EffectiveFrame
<1> QED
  BY <1>2, <1>3 DEF TenancyInv

-----------------------------------------------------------------------------
LEMMA BeginSignupInv ==
    ASSUME OrganizationsAssumption, TenancyInv, NEW r \in Requests,
           NEW email \in Emails, NEW slug \in Slugs, NEW password \in Passwords,
           BeginSignup(r, email, slug, password)
    PROVE  TenancyInv'
<1> DEFINE q == [op |-> "signup", email |-> email, slug |-> slug, password |-> password,
                 saw |-> {s.slug : s \in signups}]
<1>1. signups \subseteq Signup
  BY DEF TenancyInv, TenancyTypeOK
\* Who has signed up has an account, and the email address was free.
<1>2. \A u \in signups : u.email # email
  <2>1. users[email] = NoUser
    BY DEF BeginSignup, EmailFree
  <2>2. ASSUME NEW u \in signups PROVE users[u.email] \in Passwords
    BY <1>1 DEF TenancyInv, Effective, Signup
  <2> QED
    BY <2>1, <2>2 DEF OrganizationsAssumption
<1>3. OpenSignup(q)
  BY <1>1, <1>2 DEF OpenSignup, SawOthers, Signup
<1>4. request' = [request EXCEPT ![r] = q] /\ signups' = signups /\ enforced' = enforced /\ tables' = tables
  BY DEF BeginSignup, Continue, tables
<1>5. q.op = "signup"
  OBVIOUS
<1> HIDE DEF q
<1> QED
  BY <1>3, <1>4, <1>5, RequestFrame

LEMMA InsertSignupInv ==
    ASSUME TenancyInv, NEW r \in Requests, InsertSignup(r)
    PROVE  TenancyInv'
<1> DEFINE o == request[r]
           q == [op |-> "signup_inserted", email |-> o.email, slug |-> o.slug, password |-> o.password,
                 saw |-> o.saw, newUser |-> users[o.email] = NoUser, newRole |-> ~adminRole]
<1>1. o.op = "signup" /\ ~enforced /\ request' = [request EXCEPT ![r] = q]
      /\ signups' = signups /\ enforced' = enforced /\ tables' = tables
  BY DEF InsertSignup, Continue, tables
<1>2. OpenSignup(o)
  BY DEF TenancyInv, Requested
<1>3. OpenSignup(q) /\ q.op = "signup_inserted"
  BY <1>1, <1>2 DEF OpenSignup, SawOthers
<1> HIDE DEF q
<1> QED
  BY <1>1, <1>3, RequestFrame

LEMMA CommitSignupInv ==
    ASSUME OrganizationsAssumption, TenancyInv, NEW r \in Requests, CommitSignup(r), NEW CONSTANT q, q = request[r]
    PROVE  TenancyInv'
<1> DEFINE new == [email |-> q.email, slug |-> q.slug, password |-> q.password, saw |-> q.saw]
           role == [email |-> q.email, org |-> q.slug, role |-> "admin"]
<1>0. TenancyTypeOK /\ Requested /\ OpenSignup(q)
  BY DEF TenancyInv, Requested
<1>1. /\ q.op = "signup_inserted" /\ q.slug \notin organizations
      /\ organizations' = organizations \cup {q.slug}
      /\ projects' = projects \cup {General(q.slug)}
      /\ users' = [users EXCEPT ![q.email] = q.password]
      /\ adminRole' = TRUE
      /\ userRoles' = userRoles \cup {role}
      /\ signups' = signups \cup {new}
      /\ request' = [request EXCEPT ![r] = Idle]
      /\ UNCHANGED <<enforced, connectors, ssoConfigurations>>
  BY DEF CommitSignup, SlugFree, Finish, Continue
<1>2. /\ q.email \in Emails /\ q.slug \in Slugs /\ q.password \in Passwords /\ q.saw \subseteq Slugs
      /\ SawOthers(q) /\ ~enforced
  BY <1>0, <1>1 DEF OpenSignup
<1>3. new \in Signup /\ new.email = q.email /\ new.slug = q.slug /\ new.password = q.password /\ new.saw = q.saw
  BY <1>2 DEF Signup
<1>4. General(q.slug) \in Projects
  BY <1>2 DEF General, Projects, OrganizationsAssumption
<1>5. /\ request' = [o \in Requests |-> request'[o]]
      /\ \A o \in Requests : request'[o] = request[o] \/ request'[o] = Idle
  BY <1>0, <1>1 DEF Requested
<1>6. /\ users \in [Emails -> Passwords \cup {NoUser, NoPassword}]
      /\ users'[q.email] = q.password
      /\ \A e \in Emails \ {q.email} : users'[e] = users[e]
  BY <1>0, <1>1, <1>2 DEF TenancyTypeOK
<1>7. role \in [email : Emails, org : Slugs, role : {"admin", "member"}]
  BY <1>2
<1> HIDE DEF new, role
<1>8. TenancyTypeOK'
  <2>1. users' \in [Emails -> Passwords \cup {NoUser, NoPassword}]
    BY <1>1, <1>2, <1>6
  <2>2. \A o \in Requests : request'[o].op \in {"none", "signup", "signup_inserted", "organization", "sso"}
    BY <1>0, <1>5 DEF TenancyTypeOK, Idle
  <2> QED
    BY <1>0, <1>1, <1>2, <1>3, <1>4, <1>7, <2>1, <2>2 DEF TenancyTypeOK, Projects, Signup
<1>9. Requested'
  <2>1. ASSUME NEW o \in Requests PROVE OpenSignup(request[o])'
    <3>1. CASE request'[o] = Idle
      BY <3>1 DEF OpenSignup, Idle
    <3>2. CASE request'[o] = request[o]
      BY <3>2, <1>0, <1>1 DEF Requested, OpenSignup, SawOthers
    <3> QED
      BY <3>1, <3>2, <1>5
  <2> QED
    BY <1>0, <1>5, <2>1 DEF Requested, Idle
<1>10. ASSUME NEW s \in signups PROVE Effective(s)'
  <2>1. Effective(s) /\ s.email \in Emails
    BY <1>0 DEF TenancyInv, TenancyTypeOK, Signup
  <2>2. s.slug # q.slug
    BY <2>1, <1>1 DEF Effective
  <2>3. \E t \in signups' : t.email = s.email /\ users'[s.email] = t.password
    <3>1. CASE s.email = q.email
      BY <3>1, <1>1, <1>3, <1>6
    <3>2. CASE s.email # q.email
      BY <3>2, <2>1, <1>1, <1>6 DEF Effective
    <3> QED
      BY <3>1, <3>2
  <2>4. SawOthers(s)'
    BY <2>1, <1>1 DEF Effective, SawOthers
  <2>5. \A t \in signups' : t.slug = s.slug => t = s
    BY <2>1, <2>2, <1>1, <1>3 DEF Effective
  <2> QED
    BY <2>1, <2>3, <2>4, <2>5, <1>1 DEF Effective, General
<1>11. Effective(new)'
  <2>1. SawOthers(new)'
    BY <1>1, <1>2, <1>3 DEF SawOthers
  <2>2. \A t \in signups' : t.slug = new.slug => t = new
    BY <1>1, <1>3 DEF TenancyInv, Effective
  <2>3. \E t \in signups' : t.email = new.email /\ users'[new.email] = t.password
    BY <1>1, <1>3, <1>6
  <2>4. role = [email |-> new.email, org |-> new.slug, role |-> "admin"]
    BY <1>3 DEF role
  <2>5. General(new.slug) = General(q.slug)
    BY <1>3
  <2> QED
    BY <2>1, <2>2, <2>3, <2>4, <2>5, <1>1, <1>3 DEF Effective, General
<1> QED
  BY <1>1, <1>2, <1>8, <1>9, <1>10, <1>11 DEF TenancyInv

-----------------------------------------------------------------------------
LEMMA TenancyNextInv ==
    ASSUME OrganizationsAssumption, TenancyInv, [TenancyNext]_tenancyVars
    PROVE  TenancyInv'
<1>0. TenancyTypeOK /\ Requested
  BY DEF TenancyInv
<1>1. ASSUME NEW r \in Requests, RollBack(r) PROVE TenancyInv'
  BY <1>1, RequestFrame DEF RollBack, Finish, Continue, OpenSignup, Idle, tables
<1>2. ASSUME NEW r \in Requests, NEW actor \in Actors, NEW slug \in Slugs, BeginOrganization(r, actor, slug)
      PROVE  TenancyInv'
  <2> DEFINE q == [op |-> "organization", slug |-> slug]
  <2>1. request' = [request EXCEPT ![r] = q] /\ signups' = signups /\ enforced' = enforced /\ tables' = tables
    BY <1>2 DEF BeginOrganization, Continue, tables
  <2>2. q.op = "organization" /\ q.slug \in Slugs /\ OpenSignup(q)
    BY DEF OpenSignup
  <2> HIDE DEF q
  <2> QED
    BY <2>1, <2>2, RequestFrame
<1>3. ASSUME NEW r \in Requests, NEW actor \in Actors, BeginSso(r, actor) PROVE TenancyInv'
  <2> DEFINE q == [op |-> "sso", org |-> actor.org]
  <2>1. request' = [request EXCEPT ![r] = q] /\ signups' = signups /\ enforced' = enforced /\ tables' = tables
    BY <1>3 DEF BeginSso, Continue, tables
  <2>2. q.op = "sso" /\ q.org \in Slugs /\ OpenSignup(q)
    BY DEF OpenSignup, Actors
  <2> HIDE DEF q
  <2> QED
    BY <2>1, <2>2, RequestFrame
<1>4. ASSUME NEW r \in Requests, CommitOrganization(r) PROVE TenancyInv'
  <2>1. /\ request[r].slug \in Slugs
        /\ organizations' = organizations \cup {request[r].slug}
        /\ projects' = projects \cup {General(request[r].slug)}
        /\ request' = [request EXCEPT ![r] = Idle]
        /\ UNCHANGED <<enforced, users, userRoles, adminRole, connectors, ssoConfigurations, signups>>
    BY <1>0, <1>4 DEF CommitOrganization, Requested, Finish, Continue
  <2>2. General(request[r].slug) \in Projects
    BY <2>1 DEF General, Projects, OrganizationsAssumption
  <2>3. \A o \in Requests : request'[o] = request[o] \/ request'[o] = Idle
    BY <1>0, <2>1 DEF Requested
  <2>4. TenancyTypeOK'
    BY <1>0, <2>1, <2>2, <2>3 DEF TenancyTypeOK, Projects, Signup, Idle
  <2> QED
    BY <2>1, <2>4, TablesFrame
<1>5. ASSUME NEW r \in Requests, CommitSso(r) PROVE TenancyInv'
  <2>1. /\ request[r].org \in Slugs
        /\ ssoConfigurations' = ssoConfigurations \cup {request[r].org}
        /\ request' = [request EXCEPT ![r] = Idle]
        /\ UNCHANGED <<enforced, organizations, projects, users, userRoles, adminRole, connectors, signups>>
    BY <1>0, <1>5 DEF CommitSso, Requested, Finish, Continue
  <2>2. \A o \in Requests : request'[o] = request[o] \/ request'[o] = Idle
    BY <1>0, <2>1 DEF Requested
  <2>3. TenancyTypeOK'
    BY <1>0, <2>1, <2>2 DEF TenancyTypeOK, Projects, Signup, Idle
  <2> QED
    BY <2>1, <2>3, TablesFrame
<1>6. ASSUME NEW email \in Emails, NEW org \in Slugs, LoginWithSso(email, org) PROVE TenancyInv'
  <2>1. /\ users' = [users EXCEPT ![email] = IF @ = NoUser THEN NoPassword ELSE @]
        /\ userRoles' = userRoles \cup {[email |-> email, org |-> org, role |-> "member"]}
        /\ UNCHANGED <<enforced, organizations, projects, adminRole, connectors, ssoConfigurations, request, signups>>
    BY <1>6 DEF LoginWithSso
  <2>2. \A e \in Emails : users[e] \in Passwords => users'[e] = users[e]
    BY <1>0, <2>1 DEF TenancyTypeOK, OrganizationsAssumption
  <2>3. TenancyTypeOK'
    BY <1>0, <2>1 DEF TenancyTypeOK, Projects, Signup
  <2> QED
    BY <2>1, <2>2, <2>3, TablesFrame
<1>7. ASSUME NEW actor \in Actors, NEW name \in Names, NEW isDefault \in BOOLEAN, CreateProject(actor, name, isDefault)
      PROVE  TenancyInv'
  <2>1. TenancyTypeOK'
    BY <1>0, <1>7 DEF CreateProject, TenancyTypeOK, Projects, Actors, Signup
  <2> QED
    BY <1>7, <2>1, TablesFrame DEF CreateProject
<1>8. ASSUME NEW actor \in Actors, NEW project \in Names \cup {NoProject}, RegisterConnector(actor, project)
      PROVE  TenancyInv'
  <2>1. TenancyTypeOK'
    BY <1>0, <1>8 DEF RegisterConnector, TenancyTypeOK, Projects, Actors, Signup
  <2> QED
    BY <1>8, <2>1, TablesFrame DEF RegisterConnector
<1>9. CASE UNCHANGED tenancyVars
  <2>1. TenancyTypeOK'
    BY <1>0, <1>9 DEF tenancyVars, tables, TenancyTypeOK, Projects, Signup
  <2> QED
    BY <1>9, <2>1, TablesFrame DEF tenancyVars, tables
<1> QED
  BY <1>1, <1>2, <1>3, <1>4, <1>5, <1>6, <1>7, <1>8, <1>9,
     BeginSignupInv, InsertSignupInv, CommitSignupInv DEF TenancyNext

\* Whatever signups, logins and changes of an organization overlap, whoever signed
\* up administers what they signed up for, and can get in with a password of theirs.
THEOREM SignupsHold == OrganizationsAssumption => (TenancySpec => [](TenancyTypeOK /\ SignupsTakeEffect))
<1> SUFFICES ASSUME OrganizationsAssumption PROVE TenancySpec => [](TenancyTypeOK /\ SignupsTakeEffect)
  OBVIOUS
<1>1. TenancyInit => TenancyInv
  BY TenancyInitInv
<1>2. TenancyInv /\ [TenancyNext]_tenancyVars => TenancyInv'
  BY TenancyNextInv
<1>3. TenancyInv => TenancyTypeOK /\ SignupsTakeEffect
  <2> SUFFICES ASSUME TenancyInv PROVE SignupsTakeEffect
    BY DEF TenancyInv
  <2> SUFFICES ASSUME NEW s \in signups
               PROVE  /\ s.slug \in organizations /\ HasDefault(s.slug)
                      /\ HasPermission([email |-> s.email, org |-> s.slug], NoProject)
                      /\ \E t \in signups : t.email = s.email /\ s.slug \in LoginOrganizations(s.email, t.password)
                      /\ \A t \in signups : t.email = s.email => t.slug \notin s.saw
                      /\ \A t \in signups : t.slug = s.slug => t = s
    BY DEF SignupsTakeEffect
  <2>1. Effective(s) /\ ~enforced /\ s.slug \in Slugs
    BY DEF TenancyInv, TenancyTypeOK, Signup
  <2>2. HasDefault(s.slug)
    BY <2>1 DEF Effective, HasDefault, General
  <2>3. HasPermission([email |-> s.email, org |-> s.slug], NoProject)
    BY <2>1 DEF Effective, HasPermission, Overrides, OrganizationsAssumption
  <2>4. s.slug \in MemberOf(s.email)
    BY <2>1 DEF Effective, MemberOf
  <2>5. \E t \in signups : t.email = s.email /\ s.slug \in LoginOrganizations(s.email, t.password)
    BY <2>1, <2>4 DEF Effective, LoginOrganizations
  <2>6. ASSUME NEW t \in signups, t.email = s.email PROVE t.slug \notin s.saw
    <3>1. Effective(t)
      BY DEF TenancyInv
    <3> QED
      BY <2>1, <2>6, <3>1 DEF Effective, SawOthers
  <2> QED
    BY <2>1, <2>2, <2>3, <2>5, <2>6 DEF Effective
<1> QED
  BY <1>1, <1>2, <1>3, PTL DEF TenancySpec

-----------------------------------------------------------------------------
(* OAuthBridge: OneCodePerFlow, CodeIsRedeemedOnce and NothingIsLost, for
   any clients, flows, codes and overlapping requests.                     *)

\* No client, flow or code is called None.
BridgeAssumption == None \notin Clients \cup Flows \cup Codes

\* A flow is pending, or in the hands of one handler, or has its code: one of the
\* three at a time.
FlowInv ==
    /\ \A f \in Flows : pending[f] # None => pending[f] = clientOf[f] /\ ~InHand(f) /\ ~HasCode(f)
    /\ \A p \in Posts : post[p].pc = "idle" <=> post[p].flow = None
    /\ \A p \in Posts : post[p].flow # None => clientOf[post[p].flow] # None /\ ~HasCode(post[p].flow)
    /\ \A p, q \in Posts : post[p].flow # None /\ post[p].flow = post[q].flow => p = q

\* A code is of the client of its flow, lies with its session until both go, and
\* what was handed out is no longer there.
CodeInv ==
    /\ OneCodePerFlow
    /\ \A k \in Codes : flowOf[k] # None => clientOf[flowOf[k]] # None
    /\ \A k \in Codes : codes[k] # None => flowOf[k] # None /\ codes[k] = clientOf[flowOf[k]]
    /\ sessions = {k \in Codes : codes[k] # None}
    /\ \A k \in Codes : handed[k] # <<>> =>
           codes[k] = None /\ flowOf[k] # None /\ handed[k] = <<clientOf[flowOf[k]]>>
    /\ \A e \in Exchanges : exchange[e] # NoExchange =>
           /\ exchange[e].code \in Codes /\ flowOf[exchange[e].code] # None
           /\ exchange[e].client = clientOf[flowOf[exchange[e].code]]

BridgeInv == BridgeTypeOK /\ FlowInv /\ CodeInv /\ NothingIsLost

-----------------------------------------------------------------------------
(* What a step leaves alone.                                                *)

LEMMA FlowFrame ==
    ASSUME FlowInv, UNCHANGED <<pending, post, clientOf, flowOf>>
    PROVE  FlowInv'
BY DEF FlowInv, InHand, HasCode

LEMMA CodeFrame ==
    ASSUME CodeInv, UNCHANGED <<clientOf, flowOf, codes, sessions, handed, exchange>>
    PROVE  CodeInv'
BY DEF CodeInv, OneCodePerFlow

LEMMA LostFrame ==
    ASSUME NothingIsLost, UNCHANGED <<pending, post, clientOf, flowOf, codes, sessions, handed>>,
           stale \subseteq stale', excused \subseteq excused'
    PROVE  NothingIsLost'
BY DEF NothingIsLost, InHand, HasCode

-----------------------------------------------------------------------------
(* The steps.                                                               *)

LEMMA BridgeInitInv ==
    ASSUME BridgeAssumption, BridgeInit
    PROVE  BridgeInv
<1>1. BridgeTypeOK
  BY DEF BridgeInit, BridgeTypeOK, NoPost, NoExchange
<1>2. FlowInv
  BY DEF BridgeInit, FlowInv, NoPost
<1>3. CodeInv
  BY DEF BridgeInit, CodeInv, OneCodePerFlow, NoExchange
<1>4. NothingIsLost
  BY DEF BridgeInit, NothingIsLost
<1> QED
  BY <1>1, <1>2, <1>3, <1>4 DEF BridgeInv

LEMMA AuthorizeInv ==
    ASSUME BridgeAssumption, BridgeInv, NEW c \in Clients, NEW f \in Flows, Authorize(c, f)
    PROVE  BridgeInv'
<1>0. BridgeTypeOK /\ FlowInv /\ CodeInv /\ NothingIsLost
  BY DEF BridgeInv
<1>1. BridgeTypeOK'
  BY <1>0 DEF BridgeTypeOK, Authorize
<1>2. c # None /\ clientOf[f] = None /\ pending' = [pending EXCEPT ![f] = c]
      /\ clientOf' = [clientOf EXCEPT ![f] = c]
      /\ UNCHANGED <<registered, codes, sessions, post, exchange, stale, flowOf, handed, excused>>
  BY DEF Authorize, BridgeAssumption
<1>3. ~InHand(f) /\ ~HasCode(f)
  BY <1>0, <1>2, BridgeAssumption DEF FlowInv, CodeInv, InHand, HasCode, BridgeAssumption
<1>4. FlowInv'
  BY <1>0, <1>2, <1>3 DEF FlowInv, InHand, HasCode, BridgeTypeOK, BridgeAssumption
<1>5. CodeInv'
  BY <1>0, <1>2, <1>3 DEF CodeInv, OneCodePerFlow, HasCode, BridgeTypeOK, BridgeAssumption
<1>6. NothingIsLost'
  BY <1>0, <1>2, <1>3 DEF NothingIsLost, InHand, HasCode, BridgeTypeOK
<1> QED
  BY <1>1, <1>4, <1>5, <1>6 DEF BridgeInv

LEMMA ShowPageInv ==
    ASSUME BridgeAssumption, BridgeInv, ShowPage
    PROVE  BridgeInv'
<1>0. BridgeTypeOK /\ FlowInv /\ CodeInv /\ NothingIsLost
  BY DEF BridgeInv
<1>1. /\ pending' = Swept
      /\ UNCHANGED <<registered, codes, sessions, post, exchange, stale, clientOf, flowOf, handed, excused>>
  BY DEF ShowPage
<1>2. BridgeTypeOK'
  BY <1>0, <1>1 DEF BridgeTypeOK, Swept
<1>3. FlowInv'
  BY <1>0, <1>1 DEF FlowInv, InHand, HasCode, Swept
<1>4. CodeInv'
  BY <1>0, <1>1, CodeFrame
<1>5. NothingIsLost'
  BY <1>0, <1>1 DEF NothingIsLost, InHand, HasCode, Swept
<1> QED
  BY <1>2, <1>3, <1>4, <1>5 DEF BridgeInv

LEMMA ClaimFlowInv ==
    ASSUME BridgeAssumption, BridgeInv, NEW p \in Posts, NEW f \in Flows, ClaimFlow(p, f)
    PROVE  BridgeInv'
<1>0. BridgeTypeOK /\ FlowInv /\ CodeInv /\ NothingIsLost
  BY DEF BridgeInv
<1>1. /\ post[p].pc = "idle" /\ Swept[f] # None
      /\ pending' = [Swept EXCEPT ![f] = None]
      /\ post' = [post EXCEPT ![p] = [pc |-> "verifying", flow |-> f]]
      /\ UNCHANGED <<registered, codes, sessions, exchange, stale, clientOf, flowOf, handed, excused>>
  BY DEF ClaimFlow
<1>2. BridgeTypeOK'
  <2>1. Swept \in [Flows -> Clients \cup {None}]
    BY <1>0 DEF BridgeTypeOK, Swept
  <2> QED
    BY <1>0, <1>1, <2>1 DEF BridgeTypeOK
<1>3. /\ pending[f] # None /\ clientOf[f] # None /\ ~InHand(f) /\ ~HasCode(f)
      /\ f # None /\ post[p].flow = None
  BY <1>0, <1>1 DEF FlowInv, Swept, BridgeAssumption
<1>4. /\ post'[p] = [pc |-> "verifying", flow |-> f]
      /\ \A q \in Posts \ {p} : post'[q] = post[q]
      /\ pending'[f] = None
      /\ \A g \in Flows \ {f} : pending'[g] = IF g \in stale THEN None ELSE pending[g]
  BY <1>0, <1>1 DEF BridgeTypeOK, Swept
<1>5. FlowInv'
  <2>1. ASSUME NEW g \in Flows, pending'[g] # None
        PROVE  pending'[g] = clientOf'[g] /\ ~InHand(g)' /\ ~HasCode(g)'
    <3>1. g # f /\ pending'[g] = pending[g]
      BY <1>4, <2>1
    <3> QED
      BY <2>1, <3>1, <1>0, <1>1, <1>4 DEF FlowInv, InHand, HasCode
  <2>2. \A q \in Posts : post'[q].pc = "idle" <=> post'[q].flow = None
    BY <1>0, <1>3, <1>4 DEF FlowInv
  <2>3. \A q \in Posts : post'[q].flow # None => clientOf'[post'[q].flow] # None /\ ~HasCode(post[q].flow)'
    BY <1>0, <1>1, <1>3, <1>4 DEF FlowInv, HasCode
  <2>4. \A q, o \in Posts : post'[q].flow # None /\ post'[q].flow = post'[o].flow => q = o
    BY <1>0, <1>3, <1>4 DEF FlowInv, InHand
  <2> QED
    BY <2>1, <2>2, <2>3, <2>4 DEF FlowInv, HasCode
<1>6. CodeInv'
  BY <1>0, <1>1, CodeFrame
<1>7. NothingIsLost'
  <2>1. ASSUME NEW g \in Flows, InHand(g) PROVE InHand(g)'
    <3>1. PICK q \in Posts : post[q].flow = g
      BY <2>1 DEF InHand
    <3>2. q # p
      BY <3>1, <1>3, BridgeAssumption DEF BridgeAssumption
    <3> QED
      BY <3>1, <3>2, <1>4 DEF InHand
  <2>2. InHand(f)'
    BY <1>4 DEF InHand
  <2> QED
    BY <1>0, <1>1, <1>4, <2>1, <2>2 DEF NothingIsLost, HasCode
<1> QED
  BY <1>2, <1>5, <1>6, <1>7 DEF BridgeInv

LEMMA PutBackInv ==
    ASSUME BridgeAssumption, BridgeInv, NEW p \in Posts, PutBack(p)
    PROVE  BridgeInv'
<1>0. BridgeTypeOK /\ FlowInv /\ CodeInv /\ NothingIsLost
  BY DEF BridgeInv
<1> DEFINE f == post[p].flow
<1>1. /\ post[p].pc = "verifying"
      /\ pending' = [pending EXCEPT ![f] = clientOf[f]]
      /\ post' = [post EXCEPT ![p] = NoPost]
      /\ UNCHANGED <<registered, codes, sessions, exchange, stale, clientOf, flowOf, handed, excused>>
  BY DEF PutBack
<1>2. f \in Flows /\ clientOf[f] # None /\ ~HasCode(f)
  BY <1>0, <1>1 DEF FlowInv, BridgeTypeOK
<1>3. BridgeTypeOK'
  BY <1>0, <1>1, <1>2 DEF BridgeTypeOK, NoPost
<1>4. /\ post'[p] = NoPost
      /\ \A q \in Posts \ {p} : post'[q] = post[q] /\ post[q].flow # f
      /\ pending'[f] = clientOf[f]
      /\ \A g \in Flows \ {f} : pending'[g] = pending[g]
  BY <1>0, <1>1, <1>2 DEF BridgeTypeOK, FlowInv, BridgeAssumption
<1> HIDE DEF f
<1>5. FlowInv'
  <2>1. ASSUME NEW g \in Flows, pending'[g] # None
        PROVE  pending'[g] = clientOf'[g] /\ ~InHand(g)' /\ ~HasCode(g)'
    <3>1. CASE g = f
      BY <3>1, <1>1, <1>2, <1>4 DEF InHand, HasCode, NoPost, BridgeAssumption
    <3>2. CASE g # f
      BY <2>1, <3>2, <1>0, <1>1, <1>4 DEF FlowInv, InHand, HasCode, NoPost, BridgeAssumption
    <3> QED
      BY <3>1, <3>2
  <2>2. \A q \in Posts : post'[q].pc = "idle" <=> post'[q].flow = None
    BY <1>0, <1>4 DEF FlowInv, NoPost
  <2>3. \A q \in Posts : post'[q].flow # None => clientOf'[post'[q].flow] # None /\ ~HasCode(post[q].flow)'
    BY <1>0, <1>1, <1>4 DEF FlowInv, HasCode, NoPost
  <2>4. \A q, o \in Posts : post'[q].flow # None /\ post'[q].flow = post'[o].flow => q = o
    BY <1>0, <1>4 DEF FlowInv, NoPost
  <2> QED
    BY <2>1, <2>2, <2>3, <2>4 DEF FlowInv, HasCode
<1>6. CodeInv'
  BY <1>0, <1>1, CodeFrame
<1>7. NothingIsLost'
  <2>1. ASSUME NEW g \in Flows, InHand(g) PROVE InHand(g)' \/ pending'[g] = clientOf'[g]
    BY <2>1, <1>1, <1>4 DEF InHand, f
  <2> QED
    BY <1>0, <1>1, <1>2, <1>4, <2>1 DEF NothingIsLost, HasCode
<1> QED
  BY <1>3, <1>5, <1>6, <1>7 DEF BridgeInv
\* The handler gives the flow up: it was met by a failure.
LEMMA PostFailsInv ==
    ASSUME BridgeAssumption, BridgeInv, NEW p \in Posts, PostFails(p)
    PROVE  BridgeInv'
<1>0. BridgeTypeOK /\ FlowInv /\ CodeInv /\ NothingIsLost
  BY DEF BridgeInv
<1>1. /\ post[p].pc = "verifying"
      /\ post' = [post EXCEPT ![p] = NoPost]
      /\ excused' = excused \cup {post[p].flow}
      /\ UNCHANGED <<registered, pending, codes, sessions, exchange, stale, clientOf, flowOf, handed>>
  BY DEF PostFails
<1>2. post[p].flow \in Flows
  BY <1>0, <1>1 DEF FlowInv, BridgeTypeOK
<1>3. BridgeTypeOK'
  BY <1>0, <1>1, <1>2 DEF BridgeTypeOK, NoPost
<1>4. post'[p] = NoPost /\ \A q \in Posts \ {p} : post'[q] = post[q]
  BY <1>0, <1>1 DEF BridgeTypeOK
<1>5. FlowInv'
  <2>1. ASSUME NEW g \in Flows, pending'[g] # None
        PROVE  pending'[g] = clientOf'[g] /\ ~InHand(g)' /\ ~HasCode(g)'
    BY <2>1, <1>0, <1>1, <1>4 DEF FlowInv, InHand, HasCode, NoPost, BridgeAssumption
  <2>2. \A q \in Posts : post'[q].pc = "idle" <=> post'[q].flow = None
    BY <1>0, <1>4 DEF FlowInv, NoPost
  <2>3. \A q \in Posts : post'[q].flow # None => clientOf'[post'[q].flow] # None /\ ~HasCode(post[q].flow)'
    BY <1>0, <1>1, <1>4 DEF FlowInv, HasCode, NoPost
  <2>4. \A q, o \in Posts : post'[q].flow # None /\ post'[q].flow = post'[o].flow => q = o
    BY <1>0, <1>4 DEF FlowInv, NoPost
  <2> QED
    BY <2>1, <2>2, <2>3, <2>4 DEF FlowInv, HasCode
<1>6. CodeInv'
  BY <1>0, <1>1, CodeFrame
<1>7. NothingIsLost'
  <2>1. ASSUME NEW g \in Flows, InHand(g), g \notin excused' PROVE InHand(g)'
    BY <2>1, <1>1, <1>4 DEF InHand
  <2> QED
    BY <1>0, <1>1, <2>1 DEF NothingIsLost, HasCode
<1> QED
  BY <1>3, <1>5, <1>6, <1>7 DEF BridgeInv

LEMMA MintSessionInv ==
    ASSUME BridgeAssumption, BridgeInv, NEW p \in Posts, MintSession(p)
    PROVE  BridgeInv'
<1>0. BridgeTypeOK /\ FlowInv /\ CodeInv /\ NothingIsLost
  BY DEF BridgeInv
<1>1. /\ post[p].pc = "verifying"
      /\ post' = [post EXCEPT ![p].pc = "minted"]
      /\ UNCHANGED <<registered, pending, codes, sessions, exchange, stale, clientOf, flowOf, handed, excused>>
  BY DEF MintSession
<1>2. BridgeTypeOK'
  BY <1>0, <1>1 DEF BridgeTypeOK
<1>3. /\ \A q \in Posts : post'[q].flow = post[q].flow
      /\ post'[p].pc = "minted"
      /\ \A q \in Posts \ {p} : post'[q].pc = post[q].pc
  BY <1>0, <1>1 DEF BridgeTypeOK
<1>4. FlowInv'
  BY <1>0, <1>1, <1>3 DEF FlowInv, InHand, HasCode
<1>5. CodeInv'
  BY <1>0, <1>1, CodeFrame
<1>6. NothingIsLost'
  BY <1>0, <1>1, <1>3 DEF NothingIsLost, InHand, HasCode
<1> QED
  BY <1>2, <1>4, <1>5, <1>6 DEF BridgeInv

LEMMA IssueCodeInv ==
    ASSUME BridgeAssumption, BridgeInv, NEW p \in Posts, NEW k \in Codes, IssueCode(p, k)
    PROVE  BridgeInv'
<1>0. BridgeTypeOK /\ FlowInv /\ CodeInv /\ NothingIsLost
  BY DEF BridgeInv
<1> DEFINE f == post[p].flow
<1>1. /\ post[p].pc = "minted" /\ flowOf[k] = None
      /\ codes' = [codes EXCEPT ![k] = clientOf[f]]
      /\ sessions' = sessions \cup {k}
      /\ flowOf' = [flowOf EXCEPT ![k] = f]
      /\ post' = [post EXCEPT ![p] = NoPost]
      /\ UNCHANGED <<registered, pending, exchange, stale, clientOf, handed, excused>>
  BY DEF IssueCode
<1>2. /\ f \in Flows /\ f # None /\ clientOf[f] \in Clients /\ clientOf[f] # None /\ ~HasCode(f) /\ InHand(f)
  BY <1>0, <1>1 DEF FlowInv, BridgeTypeOK, InHand, BridgeAssumption
<1>3. BridgeTypeOK'
  BY <1>0, <1>1, <1>2 DEF BridgeTypeOK, NoPost
<1>4. /\ post'[p] = NoPost
      /\ \A q \in Posts \ {p} : post'[q] = post[q] /\ post[q].flow # f
      /\ flowOf'[k] = f /\ codes'[k] = clientOf[f]
      /\ \A l \in Codes \ {k} : flowOf'[l] = flowOf[l] /\ codes'[l] = codes[l] /\ flowOf[l] # f
      /\ pending[f] = None
  BY <1>0, <1>1, <1>2 DEF BridgeTypeOK, FlowInv, HasCode
<1> HIDE DEF f
<1>5. FlowInv'
  <2>1. ASSUME NEW g \in Flows, pending'[g] # None
        PROVE  pending'[g] = clientOf'[g] /\ ~InHand(g)' /\ ~HasCode(g)'
    <3>1. g # f /\ pending[g] = clientOf[g] /\ ~InHand(g) /\ ~HasCode(g)
      BY <2>1, <1>0, <1>1, <1>4 DEF FlowInv
    <3>2. ~InHand(g)'
      BY <3>1, <1>4, BridgeAssumption DEF InHand, NoPost, BridgeAssumption
    <3>3. ~HasCode(g)'
      BY <3>1, <1>4 DEF HasCode
    <3> QED
      BY <3>1, <3>2, <3>3, <1>1
  <2>2. \A q \in Posts : post'[q].pc = "idle" <=> post'[q].flow = None
    BY <1>0, <1>4 DEF FlowInv, NoPost
  <2>3. \A q \in Posts : post'[q].flow # None => clientOf'[post'[q].flow] # None /\ ~HasCode(post[q].flow)'
    BY <1>0, <1>1, <1>4 DEF FlowInv, HasCode, NoPost
  <2>4. \A q, o \in Posts : post'[q].flow # None /\ post'[q].flow = post'[o].flow => q = o
    BY <1>0, <1>4 DEF FlowInv, NoPost
  <2> QED
    BY <2>1, <2>2, <2>3, <2>4 DEF FlowInv, HasCode
<1>6. CodeInv'
  <2>1. OneCodePerFlow'
    BY <1>0, <1>4 DEF CodeInv, OneCodePerFlow
  <2>2. \A l \in Codes : flowOf'[l] # None => clientOf'[flowOf'[l]] # None
    BY <1>0, <1>1, <1>2, <1>4 DEF CodeInv
  <2>3. \A l \in Codes : codes'[l] # None => flowOf'[l] # None /\ codes'[l] = clientOf'[flowOf'[l]]
    BY <1>0, <1>1, <1>2, <1>4 DEF CodeInv
  <2>4. sessions' = {l \in Codes : codes'[l] # None}
    BY <1>0, <1>1, <1>2, <1>4 DEF CodeInv
  <2>5. \A l \in Codes : handed'[l] # <<>> =>
            codes'[l] = None /\ flowOf'[l] # None /\ handed'[l] = <<clientOf'[flowOf'[l]]>>
    BY <1>0, <1>1, <1>4 DEF CodeInv
  <2>6. ASSUME NEW e \in Exchanges, exchange'[e] # NoExchange
        PROVE  /\ exchange'[e].code \in Codes /\ flowOf'[exchange'[e].code] # None
               /\ exchange'[e].client = clientOf'[flowOf'[exchange'[e].code]]
    BY <2>6, <1>0, <1>1, <1>4 DEF CodeInv
  <2> QED
    BY <2>1, <2>2, <2>3, <2>4, <2>5, <2>6 DEF CodeInv, NoExchange
<1>7. NothingIsLost'
  <2>1. ASSUME NEW g \in Flows, InHand(g) PROVE InHand(g)' \/ HasCode(g)'
    BY <2>1, <1>1, <1>4 DEF InHand, HasCode, f
  <2>2. ASSUME NEW g \in Flows, HasCode(g) PROVE HasCode(g)'
    BY <2>2, <1>1, <1>4, BridgeAssumption DEF HasCode, BridgeAssumption
  <2>3. codes'[k] # None /\ k \in sessions'
    BY <1>1, <1>2, <1>4
  <2> QED
    BY <1>0, <1>1, <1>4, <2>1, <2>2, <2>3 DEF NothingIsLost
<1> QED
  BY <1>3, <1>5, <1>6, <1>7 DEF BridgeInv

LEMMA LoadCodeInv ==
    ASSUME BridgeAssumption, BridgeInv, NEW e \in Exchanges, NEW c \in Clients, NEW k \in Codes, LoadCode(e, c, k)
    PROVE  BridgeInv'
<1>0. BridgeTypeOK /\ FlowInv /\ CodeInv /\ NothingIsLost
  BY DEF BridgeInv
<1>1. /\ codes[k] = c /\ c # None
      /\ exchange' = [exchange EXCEPT ![e] = [client |-> c, code |-> k]]
      /\ UNCHANGED <<registered, pending, codes, sessions, post, stale, clientOf, flowOf, handed, excused>>
  BY DEF LoadCode, BridgeAssumption
<1>2. BridgeTypeOK'
  BY <1>0, <1>1 DEF BridgeTypeOK
<1>3. FlowInv'
  BY <1>0, <1>1, FlowFrame
<1>4. CodeInv'
  BY <1>0, <1>1 DEF CodeInv, OneCodePerFlow, BridgeTypeOK
<1>5. NothingIsLost'
  BY <1>0, <1>1, LostFrame
<1> QED
  BY <1>2, <1>3, <1>4, <1>5 DEF BridgeInv

LEMMA LoadExpiredInv ==
    ASSUME BridgeAssumption, BridgeInv, NEW c \in Clients, NEW k \in Codes, LoadExpired(c, k)
    PROVE  BridgeInv'
<1>0. BridgeTypeOK /\ FlowInv /\ CodeInv /\ NothingIsLost
  BY DEF BridgeInv
<1>1. /\ k \in stale
      /\ codes' = [codes EXCEPT ![k] = None]
      /\ sessions' = sessions \ {k}
      /\ UNCHANGED <<registered, pending, post, exchange, stale, clientOf, flowOf, handed, excused>>
  BY DEF LoadExpired
<1>2. BridgeTypeOK'
  BY <1>0, <1>1 DEF BridgeTypeOK
<1>3. FlowInv'
  BY <1>0, <1>1, FlowFrame
<1>4. codes'[k] = None /\ \A l \in Codes \ {k} : codes'[l] = codes[l]
  BY <1>0, <1>1 DEF BridgeTypeOK
<1>5. CodeInv'
  BY <1>0, <1>1, <1>4 DEF CodeInv, OneCodePerFlow
<1>6. NothingIsLost'
  BY <1>0, <1>1, <1>4 DEF NothingIsLost, InHand, HasCode
<1> QED
  BY <1>2, <1>3, <1>5, <1>6 DEF BridgeInv

LEMMA ExchangeCodeInv ==
    ASSUME BridgeAssumption, BridgeInv, NEW e \in Exchanges, ExchangeCode(e)
    PROVE  BridgeInv'
<1>0. BridgeTypeOK /\ FlowInv /\ CodeInv /\ NothingIsLost
  BY DEF BridgeInv
<1> DEFINE k == exchange[e].code
           c == exchange[e].client
<1>1. /\ exchange[e] # NoExchange
      /\ codes' = [codes EXCEPT ![k] = None]
      /\ sessions' = sessions \ {k}
      /\ handed' = IF k \in sessions THEN [handed EXCEPT ![k] = Append(@, c)] ELSE handed
      /\ exchange' = [exchange EXCEPT ![e] = NoExchange]
      /\ UNCHANGED <<registered, pending, post, stale, clientOf, flowOf, excused>>
  BY DEF ExchangeCode
<1>2. /\ k \in Codes /\ flowOf[k] # None /\ c = clientOf[flowOf[k]] /\ c \in Clients
      /\ k \in sessions => codes[k] # None /\ handed[k] = <<>>
  BY <1>0, <1>1 DEF CodeInv, BridgeTypeOK
<1>3. /\ codes'[k] = None /\ \A l \in Codes \ {k} : codes'[l] = codes[l] /\ handed'[l] = handed[l]
      /\ handed'[k] = IF k \in sessions THEN <<c>> ELSE handed[k]
      /\ exchange'[e] = NoExchange /\ \A o \in Exchanges \ {e} : exchange'[o] = exchange[o]
  <2>1. k \in sessions => Append(handed[k], c) = <<c>>
    <3>1. Append(<<>>, c) = <<c>>
      OBVIOUS
    <3> QED
      BY <3>1, <1>2
  <2>2. /\ codes'[k] = None /\ \A l \in Codes \ {k} : codes'[l] = codes[l]
        /\ exchange'[e] = NoExchange /\ \A o \in Exchanges \ {e} : exchange'[o] = exchange[o]
    BY <1>0, <1>1, <1>2 DEF BridgeTypeOK
  <2>3. handed \in [Codes -> Seq(Clients)]
    BY <1>0 DEF BridgeTypeOK
  <2>4. handed'[k] = IF k \in sessions THEN <<c>> ELSE handed[k]
    BY <1>1, <1>2, <2>1, <2>3
  <2>5. \A l \in Codes \ {k} : handed'[l] = handed[l]
    BY <1>1, <1>2, <2>3
  <2> QED
    BY <2>2, <2>4, <2>5
<1>4. BridgeTypeOK'
  BY <1>0, <1>1, <1>2 DEF BridgeTypeOK, NoExchange
<1> HIDE DEF k, c
<1>5. FlowInv'
  BY <1>0, <1>1, FlowFrame
<1>6. CodeInv'
  <2>1. OneCodePerFlow' /\ \A l \in Codes : flowOf'[l] # None => clientOf'[flowOf'[l]] # None
    BY <1>0, <1>1 DEF CodeInv, OneCodePerFlow
  <2>2. \A l \in Codes : codes'[l] # None => flowOf'[l] # None /\ codes'[l] = clientOf'[flowOf'[l]]
    BY <1>0, <1>1, <1>3 DEF CodeInv
  <2>3. sessions' = {l \in Codes : codes'[l] # None}
    BY <1>0, <1>1, <1>3 DEF CodeInv
  <2>4. ASSUME NEW l \in Codes, handed'[l] # <<>>
        PROVE  codes'[l] = None /\ flowOf'[l] # None /\ handed'[l] = <<clientOf'[flowOf'[l]]>>
    BY <2>4, <1>0, <1>1, <1>2, <1>3 DEF CodeInv
  <2>5. \A o \in Exchanges : exchange'[o] # NoExchange =>
            /\ exchange'[o].code \in Codes /\ flowOf'[exchange'[o].code] # None
            /\ exchange'[o].client = clientOf'[flowOf'[exchange'[o].code]]
    BY <1>0, <1>1, <1>3 DEF CodeInv
  <2> QED
    BY <2>1, <2>2, <2>3, <2>4, <2>5 DEF CodeInv, NoExchange
<1>7. NothingIsLost'
  <2>1. \A f \in Flows \ (stale \cup excused) : clientOf[f] # None => pending[f] = clientOf[f] \/ InHand(f) \/ HasCode(f)
    BY <1>0 DEF NothingIsLost
  <2>2. ASSUME NEW l \in Codes \ (stale \cup excused), flowOf[l] # None
        PROVE  (codes'[l] # None /\ l \in sessions') \/ handed'[l] # <<>>
    BY <2>2, <1>0, <1>1, <1>3 DEF NothingIsLost
  <2> QED
    BY <2>1, <2>2, <1>1 DEF NothingIsLost, InHand, HasCode
<1> QED
  BY <1>4, <1>5, <1>6, <1>7 DEF BridgeInv

\* Requests that change no flow and no code: registration, refused exchanges, age.
LEMMA BridgeOtherInv ==
    ASSUME BridgeInv, BridgeTypeOK',
           UNCHANGED <<pending, codes, sessions, post, clientOf, flowOf, handed>>,
           stale \subseteq stale', excused \subseteq excused',
           \A e \in Exchanges : exchange'[e] = exchange[e] \/ exchange'[e] = NoExchange
    PROVE  BridgeInv'
<1>0. BridgeTypeOK /\ FlowInv /\ CodeInv /\ NothingIsLost
  BY DEF BridgeInv
<1>1. FlowInv'
  BY <1>0, FlowFrame
<1>2. CodeInv'
  BY <1>0 DEF CodeInv, OneCodePerFlow, NoExchange
<1>3. NothingIsLost'
  BY <1>0, LostFrame
<1> QED
  BY <1>1, <1>2, <1>3 DEF BridgeInv

LEMMA RestartInv ==
    ASSUME BridgeAssumption, BridgeInv, Restart
    PROVE  BridgeInv'
<1>0. BridgeTypeOK /\ FlowInv /\ CodeInv /\ NothingIsLost
  BY DEF BridgeInv
<1>1. /\ pending' = [f \in Flows |-> None] /\ codes' = [k \in Codes |-> None] /\ sessions' = {}
      /\ post' = [p \in Posts |-> NoPost] /\ exchange' = [e \in Exchanges |-> NoExchange]
      /\ excused' = excused \cup {f \in Flows : clientOf[f] # None} \cup {k \in Codes : flowOf[k] # None}
      /\ UNCHANGED <<registered, stale, clientOf, flowOf, handed>>
  BY DEF Restart
<1>2. BridgeTypeOK'
  BY <1>0, <1>1 DEF BridgeTypeOK, NoPost, NoExchange
<1>3. FlowInv'
  BY <1>1 DEF FlowInv, NoPost
<1>4. CodeInv'
  BY <1>0, <1>1 DEF CodeInv, OneCodePerFlow, NoExchange
<1>5. NothingIsLost'
  BY <1>1 DEF NothingIsLost
<1> QED
  BY <1>2, <1>3, <1>4, <1>5 DEF BridgeInv

LEMMA BridgeNextInv ==
    ASSUME BridgeAssumption, BridgeInv, [BridgeNext]_bridgeVars
    PROVE  BridgeInv'
<1>0. BridgeTypeOK
  BY DEF BridgeInv
<1>1. ASSUME NEW c \in Clients, RegisterClient(c) PROVE BridgeInv'
  BY <1>0, <1>1, BridgeOtherInv DEF RegisterClient, BridgeTypeOK
<1>2. ASSUME NEW x \in Flows \cup Codes, GrowStale(x) PROVE BridgeInv'
  BY <1>0, <1>2, BridgeOtherInv DEF GrowStale, BridgeTypeOK
<1>3. ASSUME NEW e \in Exchanges, RefuseExchange(e) PROVE BridgeInv'
  <2>1. BridgeTypeOK'
    BY <1>0, <1>3 DEF RefuseExchange, BridgeTypeOK, NoExchange
  <2>2. \A o \in Exchanges : exchange'[o] = exchange[o] \/ exchange'[o] = NoExchange
    BY <1>0, <1>3 DEF RefuseExchange, BridgeTypeOK
  <2> QED
    BY <1>3, <2>1, <2>2, BridgeOtherInv DEF RefuseExchange
<1>4. CASE UNCHANGED bridgeVars
  <2>1. BridgeTypeOK'
    BY <1>0, <1>4 DEF BridgeTypeOK, bridgeVars
  <2> QED
    BY <1>4, <2>1, BridgeOtherInv DEF bridgeVars
<1> QED
  BY <1>1, <1>2, <1>3, <1>4, AuthorizeInv, ShowPageInv, ClaimFlowInv, PutBackInv, PostFailsInv,
     MintSessionInv, IssueCodeInv, LoadCodeInv, LoadExpiredInv, ExchangeCodeInv, RestartInv DEF BridgeNext

LEMMA BridgeInvHolds == BridgeAssumption => (BridgeSpec => []BridgeInv)
<1> SUFFICES ASSUME BridgeAssumption PROVE BridgeSpec => []BridgeInv
  OBVIOUS
<1>1. BridgeInit => BridgeInv
  BY BridgeInitInv
<1>2. BridgeInv /\ [BridgeNext]_bridgeVars => BridgeInv'
  BY BridgeNextInv
<1> QED
  BY <1>1, <1>2, PTL DEF BridgeSpec

-----------------------------------------------------------------------------
(* The theorems.                                                            *)

\* Submitted twice, put back and submitted again, a flow yields one code.
THEOREM FlowsYieldOneCode == BridgeAssumption => (BridgeSpec => []OneCodePerFlow)
<1>1. BridgeInv => OneCodePerFlow
  BY DEF BridgeInv, CodeInv
<1> QED
  BY <1>1, BridgeInvHolds, PTL

\* The session of a code is handed out once, and to the client of its flow.
THEOREM CodesAreRedeemedOnce == BridgeAssumption => (BridgeSpec => []CodeIsRedeemedOnce)
<1>1. BridgeInv => CodeIsRedeemedOnce
  <2> SUFFICES ASSUME BridgeInv, NEW k \in Codes
               PROVE  /\ Len(handed[k]) <= 1
                      /\ \A i \in DOMAIN handed[k] : flowOf[k] # None /\ handed[k][i] = clientOf[flowOf[k]]
    BY DEF CodeIsRedeemedOnce
  <2>1. handed[k] # <<>> => flowOf[k] # None /\ handed[k] = <<clientOf[flowOf[k]]>>
    BY DEF BridgeInv, CodeInv
  <2>2. CASE handed[k] = <<>>
    BY <2>2
  <2>3. CASE handed[k] # <<>>
    <3> DEFINE c == clientOf[flowOf[k]]
    <3>1. flowOf[k] # None /\ handed[k] = <<c>>
      BY <2>1, <2>3
    <3> HIDE DEF c
    <3>2. Len(handed[k]) = 1 /\ DOMAIN handed[k] = {1} /\ handed[k][1] = c
      BY <3>1
    <3> QED
      BY <3>1, <3>2 DEF c
  <2> QED
    BY <2>2, <2>3
<1> QED
  BY <1>1, BridgeInvHolds, PTL

\* A flow that no restart, failure or delay met is pending, in hand or has its
\* code, and such a code can be exchanged or was.
THEOREM LoginsAreNotLost == BridgeAssumption => (BridgeSpec => [](BridgeTypeOK /\ NothingIsLost))
<1>1. BridgeInv => BridgeTypeOK /\ NothingIsLost
  BY DEF BridgeInv
<1> QED
  BY <1>1, BridgeInvHolds, PTL
=============================================================================
