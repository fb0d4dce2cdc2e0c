---------------------------- MODULE RateLimiter ----------------------------
(***************************************************************************)
(* The limits on requests (module/scripts/server/rate-limiter.mjs): how    *)
(* many calls a key may make in a fixed window of a minute, by kind of     *)
(* call, and how long an address that fails to authenticate is kept away.  *)
(*                                                                         *)
(* Every function of the code runs to its end without a suspension, so     *)
(* each is one action.  Time is a bounded clock whose ticks may come       *)
(* between any two of them.                                                *)
(***************************************************************************)
EXTENDS Integers, Sequences

CONSTANTS
  Keys,              \* ids of API keys
  Addresses,         \* source IPs
  Limit,             \* what one window allows, by counter
  Minute,            \* MINUTE_MS, in ticks of the clock
  FailedAuthLimit,   \* FAILED_AUTH_LIMIT
  FailedAuthWindow,  \* FAILED_AUTH_WINDOW_MS
  BaseBackoff,       \* FAILED_AUTH_BASE_BACKOFF_MS
  MaxBackoff,        \* FAILED_AUTH_MAX_BACKOFF_MS
  MaxTime            \* bound on the clock

\* The counters of a bucket; they are also the kinds of tool.
Counters == {"request", "mutation", "destructive"}

ASSUME LimitAssumption == Limit \in [Counters -> Nat]
ASSUME TimesAssumption ==
  /\ Minute \in Nat /\ Minute > 0 /\ FailedAuthWindow \in Nat /\ MaxTime \in Nat
  /\ BaseBackoff \in Nat /\ MaxBackoff \in Nat
  /\ FailedAuthLimit \in Nat

VARIABLES
  now,         \* Date.now()
  keyBuckets,  \* the bucket of each key
  failedAuth,  \* the failed attempts of each address
  admitted,    \* history: when calls of a key were counted, by counter
  retryAt,     \* history: the end of the Retry-After a key was told last, by kind
  failures     \* history: the failures an address had since it last succeeded
               \* or a new window of its failures began

limiterVars == <<keyBuckets, failedAuth, admitted, retryAt, failures>>

\* A key without a bucket is one whose window is over; an address without an
\* entry is one without failures.
NoBucket == [used |-> [c \in Counters |-> 0], windowEndsAt |-> 0]
NoFailure == [count |-> 0, lastFailureAt |-> 0, windowStartedAt |-> 0]

LimiterTypeOK ==
  /\ now \in 0..MaxTime
  /\ keyBuckets \in [Keys -> [used : [Counters -> Nat], windowEndsAt : Nat]]
  /\ failedAuth \in [Addresses -> [count : Nat, lastFailureAt : Nat, windowStartedAt : Nat]]
  /\ admitted \in [Keys -> [Counters -> Seq(Nat)]]
  /\ retryAt \in [Keys -> [Counters -> Nat]]
  /\ failures \in [Addresses -> SUBSET [at : Nat, count : Nat]]

LimiterInit ==
  /\ now = 0
  /\ keyBuckets = [k \in Keys |-> NoBucket]
  /\ failedAuth = [a \in Addresses |-> NoFailure]
  /\ admitted = [k \in Keys |-> [c \in Counters |-> <<>>]]
  /\ retryAt = [k \in Keys |-> [c \in Counters |-> 0]]
  /\ failures = [a \in Addresses |-> {}]

-----------------------------------------------------------------------------
(***************************************************************************)
(* Calls of a key.                                                         *)
(***************************************************************************)
\* A destructive call is counted as a mutation and as a request, too.
Bumps(kind) ==
  {c \in Counters : \/ c = "request"
                    \/ c = "mutation" /\ kind \in {"mutation", "destructive"}
                    \/ c = "destructive" /\ kind = "destructive"}

\* Mutant: the next window follows on the last one.
BucketInStep(k) ==
  IF now >= keyBuckets[k].windowEndsAt
  THEN [NoBucket EXCEPT !.windowEndsAt = keyBuckets[k].windowEndsAt + Minute]
  ELSE keyBuckets[k]

\* Mutant: a window ends one tick early.
BucketEarly(k) ==
  IF now + 1 >= keyBuckets[k].windowEndsAt
  THEN [NoBucket EXCEPT !.windowEndsAt = now + Minute]
  ELSE keyBuckets[k]

\* ensureBucket()
Bucket(k) ==
  IF now >= keyBuckets[k].windowEndsAt
  THEN [NoBucket EXCEPT !.windowEndsAt = now + Minute]
  ELSE keyBuckets[k]

Exceeded(k, kind) == \E c \in Bumps(kind) : Bucket(k).used[c] >= Limit[c]

\* checkKeyRateLimit(): the two answers.
Throttle(k, kind) ==
  /\ Exceeded(k, kind)
  /\ keyBuckets' = [keyBuckets EXCEPT ![k] = Bucket(k)]
  /\ retryAt' = [retryAt EXCEPT ![k][kind] = Bucket(k).windowEndsAt]
  /\ UNCHANGED <<failedAuth, admitted, failures>>

Admit(k, kind) ==
  /\ ~Exceeded(k, kind)
  /\ keyBuckets' = [keyBuckets EXCEPT ![k] =
       [Bucket(k) EXCEPT !.used =
          [c \in Counters |-> IF c \in Bumps(kind) THEN @[c] + 1 ELSE @[c]]]]
  /\ admitted' = [admitted EXCEPT ![k] =
       [c \in Counters |-> IF c \in Bumps(kind) THEN Append(@[c], now) ELSE @[c]]]
  /\ UNCHANGED <<failedAuth, retryAt, failures>>

(***************************************************************************)
(* Failed attempts of an address.                                          *)
(***************************************************************************)
AtMost(n, bound) == IF n <= bound THEN n ELSE bound

\* The powers of two: the back-off doubles with each failure above the limit,
\* ten times at most.
Doubling == <<2, 4, 8, 16, 32, 64, 128, 256, 512, 1024>>

\* How long an address is kept away after its count-th failure of a window,
\* when that is above the limit.
Backoff(count) ==
  AtMost(BaseBackoff * Doubling[AtMost(count - FailedAuthLimit, 10)], MaxBackoff)

\* checkAuthBackoff()
InBackoff(a) ==
  /\ failedAuth[a].count > FailedAuthLimit
  /\ now - failedAuth[a].lastFailureAt < Backoff(failedAuth[a].count)

\* The failure begins a new window.
BeginsWindow(a) ==
  \/ failedAuth[a].count = 0
  \/ now - failedAuth[a].windowStartedAt > FailedAuthWindow

\* Mutant: lastFailureAt is set by the first failure only.
OneMoreAtFirst(a) ==
  IF BeginsWindow(a)
  THEN [count |-> 1, lastFailureAt |-> now, windowStartedAt |-> now]
  ELSE [failedAuth[a] EXCEPT !.count = @ + 1]

\* The entry of an address with one more failure.
OneMore(a) ==
  IF BeginsWindow(a)
  THEN [count |-> 1, lastFailureAt |-> now, windowStartedAt |-> now]
  ELSE [failedAuth[a] EXCEPT !.count = @ + 1, !.lastFailureAt = now]

RecordFailedAuth(a) ==
  /\ failedAuth' = [failedAuth EXCEPT ![a] = OneMore(a)]
  /\ failures' = [failures EXCEPT ![a] =
       (IF BeginsWindow(a) THEN {} ELSE @) \cup {[at |-> now, count |-> OneMore(a).count]}]
  /\ UNCHANGED <<keyBuckets, admitted, retryAt>>

ClearFailedAuth(a) ==
  /\ failedAuth' = [failedAuth EXCEPT ![a] = NoFailure]
  /\ failures' = [failures EXCEPT ![a] = {}]
  /\ UNCHANGED <<keyBuckets, admitted, retryAt>>

Tick ==
  /\ now < MaxTime
  /\ now' = now + 1
  /\ UNCHANGED limiterVars

\* Any calls and attempts in any order; who makes them is the business of the
\* transport guards.
LimiterNext ==
  \/ \E k \in Keys, kind \in Counters :
       (Throttle(k, kind) \/ Admit(k, kind)) /\ UNCHANGED now
  \/ \E a \in Addresses :
       (RecordFailedAuth(a) \/ ClearFailedAuth(a)) /\ UNCHANGED now
  \/ Tick

LimiterSpec == LimiterInit /\ [][LimiterNext]_<<now, limiterVars>>

-----------------------------------------------------------------------------
\* Of any calls a key made one after the other, those that count for c, the
\* last of 2 * Limit[c] + 1 comes more than a minute after the first: the
\* windows are fixed ones, so twice the limit can fall into a minute, but never
\* more (docs/safety-and-permissions.md: "60 / minute").
TwoLimitsPerMinute ==
  \A k \in Keys, c \in Counters :
    \A i \in 1..Len(admitted[k][c]) - 2 * Limit[c] :
      admitted[k][c][i + 2 * Limit[c]] > admitted[k][c][i] + Minute

\* Retry-After is not too short: until the time a key was told, a call of that
\* kind would be refused again, whatever other calls came in between.
RetryAfterHolds ==
  \A k \in Keys, kind \in Counters : now < retryAt[k][kind] => Exceeded(k, kind)

\* An address is in back-off exactly while the back-off of one of the failures
\* of its window runs: a later one never shortens it, and it ends.
BackoffIsExact ==
  \A a \in Addresses :
    InBackoff(a) <=> \E f \in failures[a] : /\ f.count > FailedAuthLimit
                                            /\ now < f.at + Backoff(f.count)
=============================================================================
