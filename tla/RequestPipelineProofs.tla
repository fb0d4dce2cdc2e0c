----------------------- MODULE RequestPipelineProofs -----------------------
(***************************************************************************)
(* What the rate limiter keeps, for every limit, window and back-off, and  *)
(* what the request pipeline keeps, for any requests, keys and tools.      *)
(***************************************************************************)
EXTENDS RequestPipeline, WellFoundedInduction, TLAPS

-----------------------------------------------------------------------------
(* The limiter by itself. *)

USE LimitAssumption, TimesAssumption DEF Counters

\* Whether u calls were counted in the window that ends at e, and how the
\* times s of all calls lie: those before the window's calls are older than
\* the window, and those before a whole limit of these older than a minute
\* before it.
Window(u, e, s, limit) ==
  /\ u <= Len(s) /\ u <= limit
  /\ \A i \in 1..Len(s) : s[i] < e
  /\ \A i \in 1..Len(s) - u : s[i] < e - Minute
  /\ \A i \in 1..Len(s) - u - limit : s[i] + Minute < e - Minute

TwoLimits(s, limit) ==
  \A i \in 1..Len(s) - 2 * limit : s[i + 2 * limit] > s[i] + Minute

\* A window that is over is followed by one that begins now.
LEMMA WindowRolls ==
  ASSUME NEW u \in Nat, NEW e \in Nat, NEW s \in Seq(Nat), NEW limit \in Nat, NEW t \in Nat,
         Window(u, e, s, limit), t >= e
  PROVE  Window(0, t + Minute, s, limit)
<1>1. \A i \in 1..Len(s) : s[i] \in Nat /\ s[i] < e
  BY DEF Window
<1>2. \A i \in 1..Len(s) - limit : i \in 1..Len(s) - u /\ s[i] \in Nat
  BY DEF Window
<1>3. \A i \in 1..Len(s) - limit : s[i] < e - Minute
  BY <1>2 DEF Window
<1>4. Len(s) \in Nat /\ 0 <= Len(s) /\ Minute > 0
  OBVIOUS
<1>5. \A i \in 1..Len(s) : s[i] < t + Minute /\ s[i] < t + Minute - Minute
  BY <1>1
<1>6. \A i \in 1..Len(s) - limit : s[i] + Minute < t + Minute - Minute
  <2>1. \A x \in Nat : x < e - Minute => x + Minute < t + Minute - Minute
    OBVIOUS
  <2> QED
    BY <1>2, <1>3, <2>1
<1> QED
  BY <1>4, <1>5, <1>6 DEF Window

\* One more call is counted while the window runs and has room.
LEMMA WindowCounts ==
  ASSUME NEW u \in Nat, NEW e \in Nat, NEW s \in Seq(Nat), NEW limit \in Nat, NEW t \in Nat,
         Window(u, e, s, limit), TwoLimits(s, limit),
         t < e, e <= t + Minute, u < limit
  PROVE  /\ Window(u + 1, e, Append(s, t), limit)
         /\ TwoLimits(Append(s, t), limit)
<1> DEFINE z == Append(s, t)
<1>1. /\ z \in Seq(Nat) /\ Len(z) = Len(s) + 1 /\ Len(s) \in Nat
      /\ \A i \in 1..Len(s) : z[i] = s[i] /\ s[i] \in Nat
      /\ z[Len(s) + 1] = t
  OBVIOUS
<1> HIDE DEF z
<1>2. Window(u + 1, e, z, limit)
  <2>0. \A i \in 1..Len(s) : s[i] < e
    BY DEF Window
  <2>1. \A i \in 1..Len(z) : z[i] < e
    <3> TAKE i \in 1..Len(z)
    <3>1. i \in 1..Len(s) \/ i = Len(s) + 1
      BY <1>1
    <3> QED
      BY <1>1, <2>0, <3>1
  <2>2. \A i \in 1..Len(z) - (u + 1) : i \in 1..Len(s) /\ i \in 1..Len(s) - u
    <3>1. Len(z) - (u + 1) = Len(s) - u
      BY <1>1
    <3>2. \A i \in 1..Len(s) - u : i \in 1..Len(s)
      BY <1>1
    <3> QED
      BY <3>1, <3>2, Zenon
  <2>3. \A i \in 1..Len(z) - (u + 1) : z[i] < e - Minute
    BY <1>1, <2>2 DEF Window
  <2>4. \A i \in 1..Len(z) - (u + 1) - limit : i \in 1..Len(s) /\ i \in 1..Len(s) - u - limit
    <3>1. Len(z) - (u + 1) - limit = Len(s) - u - limit
      BY <1>1
    <3>2. \A i \in 1..Len(s) - u - limit : i \in 1..Len(s)
      BY <1>1
    <3> QED
      BY <3>1, <3>2, Zenon
  <2>5. \A i \in 1..Len(z) - (u + 1) - limit : z[i] + Minute < e - Minute
    BY <1>1, <2>4 DEF Window
  <2> QED
    BY <1>1, <2>1, <2>3, <2>5 DEF Window
<1>3. TwoLimits(z, limit)
  <2> SUFFICES ASSUME NEW i \in 1..Len(z) - 2 * limit
               PROVE  z[i + 2 * limit] > z[i] + Minute
    BY DEF TwoLimits
  <2> DEFINE j == i + 2 * limit
  <2>0. i \in Nat /\ i >= 1 /\ j \in Nat /\ j >= i /\ j <= Len(s) + 1
    BY <1>1
  <2>1. CASE j <= Len(s)
    <3>1. i \in 1..Len(s) /\ j \in 1..Len(s) /\ i \in 1..Len(s) - 2 * limit
      BY <1>1, <2>0, <2>1
    <3> QED
      BY <1>1, <3>1 DEF TwoLimits
  <2>2. CASE j = Len(s) + 1
    <3>0. Len(s) - u - limit >= i
      BY <1>1, <2>2, <2>0
    <3>1. i \in 1..Len(s) - u - limit /\ i \in 1..Len(s)
      BY <1>1, <2>2, <2>0, <3>0
    <3>2. s[i] + Minute < e - Minute
      BY <3>1 DEF Window
    <3>3. s[i] \in Nat /\ z[i] = s[i] /\ z[j] = t
      BY <3>1, <1>1, <2>2
    <3>4. \A x \in Nat : x + Minute < e - Minute => t > x + Minute
      OBVIOUS
    <3>5. t > s[i] + Minute
      BY <3>2, <3>3, <3>4, Zenon
    <3> QED
      BY <3>3, <3>5, Zenon
  <2>3. \A m, n \in Nat : m <= n + 1 => m <= n \/ m = n + 1
    OBVIOUS
  <2>4. j <= Len(s) \/ j = Len(s) + 1
    BY <1>1, <2>0, <2>3, Zenon
  <2> QED
    BY <2>1, <2>2, <2>4, Zenon
<1> QED
  BY <1>2, <1>3 DEF z

-----------------------------------------------------------------------------
(***************************************************************************)
(* Types.                                                                  *)
(***************************************************************************)
LEMMA BucketType ==
  ASSUME LimiterTypeOK, NEW k \in Keys
  PROVE  /\ Bucket(k) \in [used : [Counters -> Nat], windowEndsAt : Nat]
         /\ Bucket(k).windowEndsAt >= now
<1>1. now \in Nat /\ keyBuckets[k] \in [used : [Counters -> Nat], windowEndsAt : Nat]
  BY DEF LimiterTypeOK
<1>2. [used |-> [c \in Counters |-> 0], windowEndsAt |-> now + Minute]
        \in [used : [Counters -> Nat], windowEndsAt : Nat]
  BY <1>1
<1>3. CASE now >= keyBuckets[k].windowEndsAt
  BY <1>1, <1>2, <1>3 DEF Bucket, NoBucket
<1>4. CASE ~(now >= keyBuckets[k].windowEndsAt)
  BY <1>1, <1>4 DEF Bucket
<1> QED
  BY <1>3, <1>4

LEMMA OneMoreType ==
  ASSUME LimiterTypeOK, NEW a \in Addresses
  PROVE  /\ OneMore(a) \in [count : Nat, lastFailureAt : Nat, windowStartedAt : Nat]
         /\ now \in Nat
         /\ OneMore(a).lastFailureAt = now
         /\ OneMore(a).count = IF BeginsWindow(a) THEN 1 ELSE failedAuth[a].count + 1
<1>1. /\ failedAuth[a] \in [count : Nat, lastFailureAt : Nat, windowStartedAt : Nat]
      /\ now \in Nat
  BY DEF LimiterTypeOK
<1>2. CASE BeginsWindow(a)
  BY <1>1, <1>2 DEF OneMore
<1>3. CASE ~BeginsWindow(a)
  <2>1. OneMore(a) = [count |-> failedAuth[a].count + 1, lastFailureAt |-> now,
                      windowStartedAt |-> failedAuth[a].windowStartedAt]
    BY <1>1, <1>3 DEF OneMore
  <2> QED
    BY <1>1, <1>3, <2>1
<1> QED
  BY <1>2, <1>3

LEMMA LimiterTypeStep ==
  ASSUME LimiterTypeOK, [LimiterNext]_<<now, limiterVars>>
  PROVE  LimiterTypeOK'
<1>1. CASE UNCHANGED <<now, limiterVars>>
  BY <1>1 DEF LimiterTypeOK, limiterVars
<1>2. ASSUME NEW k \in Keys, NEW kind \in Counters, Throttle(k, kind), UNCHANGED now
      PROVE  LimiterTypeOK'
  BY <1>2, BucketType DEF LimiterTypeOK, Throttle
<1>3. ASSUME NEW k \in Keys, NEW kind \in Counters, Admit(k, kind), UNCHANGED now
      PROVE  LimiterTypeOK'
  <2> DEFINE b == [Bucket(k) EXCEPT !.used =
                     [c \in Counters |-> IF c \in Bumps(kind) THEN @[c] + 1 ELSE @[c]]]
             s == [c \in Counters |-> IF c \in Bumps(kind) THEN Append(admitted[k][c], now)
                                      ELSE admitted[k][c]]
  <2>1. b \in [used : [Counters -> Nat], windowEndsAt : Nat]
    BY BucketType
  <2>2. s \in [Counters -> Seq(Nat)]
    BY DEF LimiterTypeOK
  <2>3. keyBuckets' = [keyBuckets EXCEPT ![k] = b] /\ admitted' = [admitted EXCEPT ![k] = s]
    BY <1>3 DEF Admit
  <2>4. UNCHANGED <<now, failedAuth, retryAt, failures>>
    BY <1>3 DEF Admit
  <2> HIDE DEF b, s
  <2>5. keyBuckets' \in [Keys -> [used : [Counters -> Nat], windowEndsAt : Nat]]
    BY <2>1, <2>3 DEF LimiterTypeOK
  <2>6. admitted' \in [Keys -> [Counters -> Seq(Nat)]]
    BY <2>2, <2>3 DEF LimiterTypeOK
  <2> QED
    BY <2>4, <2>5, <2>6 DEF LimiterTypeOK
<1>4. ASSUME NEW a \in Addresses, RecordFailedAuth(a), UNCHANGED now
      PROVE  LimiterTypeOK'
  <2> DEFINE n == OneMore(a)
             F == (IF BeginsWindow(a) THEN {} ELSE failures[a]) \cup {[at |-> now, count |-> n.count]}
  <2>1. n \in [count : Nat, lastFailureAt : Nat, windowStartedAt : Nat] /\ now \in Nat
    BY OneMoreType
  <2>2. F \in SUBSET [at : Nat, count : Nat]
    <3>1. n.count \in Nat
      BY <2>1
    <3>2. [at |-> now, count |-> n.count] \in [at : Nat, count : Nat]
      BY <2>1, <3>1
    <3>3. failures[a] \in SUBSET [at : Nat, count : Nat]
      BY DEF LimiterTypeOK
    <3> QED
      BY <3>2, <3>3
  <2>3. failedAuth' = [failedAuth EXCEPT ![a] = n] /\ failures' = [failures EXCEPT ![a] = F]
    BY <1>4 DEF RecordFailedAuth
  <2>4. UNCHANGED <<now, keyBuckets, admitted, retryAt>>
    BY <1>4 DEF RecordFailedAuth
  <2> HIDE DEF n, F
  <2>5. failedAuth' \in [Addresses -> [count : Nat, lastFailureAt : Nat, windowStartedAt : Nat]]
    BY <2>1, <2>3 DEF LimiterTypeOK
  <2>6. failures' \in [Addresses -> SUBSET [at : Nat, count : Nat]]
    BY <2>2, <2>3 DEF LimiterTypeOK
  <2> QED
    BY <2>4, <2>5, <2>6 DEF LimiterTypeOK
<1>5. ASSUME NEW a \in Addresses, ClearFailedAuth(a), UNCHANGED now
      PROVE  LimiterTypeOK'
  BY <1>5 DEF LimiterTypeOK, ClearFailedAuth, NoFailure
<1>6. CASE Tick
  BY <1>6 DEF LimiterTypeOK, Tick, limiterVars
<1> QED
  BY <1>1, <1>2, <1>3, <1>4, <1>5, <1>6 DEF LimiterNext

LEMMA LimiterTypeInit == LimiterInit => LimiterTypeOK
  BY DEF LimiterInit, LimiterTypeOK, NoBucket, NoFailure

\* The values of the limiter are of their types.
THEOREM LimiterTypes == LimiterSpec => []LimiterTypeOK
  BY LimiterTypeInit, LimiterTypeStep, PTL DEF LimiterSpec

-----------------------------------------------------------------------------
(***************************************************************************)
(* The windows.                                                            *)
(***************************************************************************)
WindowsOf(k) ==
  /\ keyBuckets[k].windowEndsAt <= now + Minute
  /\ \A c \in Counters :
       /\ Window(keyBuckets[k].used[c], keyBuckets[k].windowEndsAt, admitted[k][c], Limit[c])
       /\ TwoLimits(admitted[k][c], Limit[c])

WindowsInv == \A k \in Keys : WindowsOf(k)

\* ensureBucket() keeps what is known of the window.
LEMMA BucketWindow ==
  ASSUME LimiterTypeOK, WindowsInv, NEW k \in Keys, NEW c \in Counters
  PROVE  /\ Window(Bucket(k).used[c], Bucket(k).windowEndsAt, admitted[k][c], Limit[c])
         /\ TwoLimits(admitted[k][c], Limit[c])
         /\ Bucket(k).windowEndsAt <= now + Minute
         /\ now < Bucket(k).windowEndsAt
<1>1. /\ keyBuckets[k].used[c] \in Nat /\ keyBuckets[k].windowEndsAt \in Nat
      /\ admitted[k][c] \in Seq(Nat) /\ Limit[c] \in Nat /\ now \in Nat
  BY DEF LimiterTypeOK
<1>2. /\ Window(keyBuckets[k].used[c], keyBuckets[k].windowEndsAt, admitted[k][c], Limit[c])
      /\ TwoLimits(admitted[k][c], Limit[c])
      /\ keyBuckets[k].windowEndsAt <= now + Minute
  BY DEF WindowsInv, WindowsOf
<1>3. CASE now >= keyBuckets[k].windowEndsAt
  <2>1. Bucket(k).used[c] = 0 /\ Bucket(k).windowEndsAt = now + Minute
    BY <1>3 DEF Bucket, NoBucket
  <2>2. Window(0, now + Minute, admitted[k][c], Limit[c])
    BY <1>1, <1>2, <1>3, WindowRolls
  <2> QED
    BY <1>1, <1>2, <2>1, <2>2
<1>4. CASE ~(now >= keyBuckets[k].windowEndsAt)
  <2>1. Bucket(k) = keyBuckets[k]
    BY <1>4, Zenon DEF Bucket
  <2>2. now < keyBuckets[k].windowEndsAt
    BY <1>1, <1>4
  <2> QED
    BY <1>2, <2>1, <2>2
<1> QED
  BY <1>3, <1>4

LEMMA WindowsInit == LimiterInit => WindowsInv
<1> SUFFICES ASSUME LimiterInit, NEW k \in Keys, NEW c \in Counters
             PROVE  /\ keyBuckets[k].windowEndsAt <= now + Minute
                    /\ Window(keyBuckets[k].used[c], keyBuckets[k].windowEndsAt, admitted[k][c], Limit[c])
                    /\ TwoLimits(admitted[k][c], Limit[c])
  BY DEF WindowsInv, WindowsOf
<1>1. /\ keyBuckets[k].windowEndsAt = 0 /\ keyBuckets[k].used[c] = 0
      /\ admitted[k][c] = <<>> /\ now = 0
  BY DEF LimiterInit, NoBucket
<1>2. Window(0, 0, <<>>, Limit[c]) /\ TwoLimits(<<>>, Limit[c])
  BY DEF Window, TwoLimits
<1> QED
  BY <1>1, <1>2

LEMMA WindowsStep ==
  ASSUME LimiterTypeOK, LimiterTypeOK', WindowsInv,
         [LimiterNext]_<<now, limiterVars>>
  PROVE  WindowsInv'
<1> SUFFICES ASSUME NEW k \in Keys PROVE WindowsOf(k)'
  BY DEF WindowsInv
<1>0. now \in Nat /\ now' \in Nat /\ keyBuckets[k].windowEndsAt \in Nat
  BY DEF LimiterTypeOK
<1>1. CASE now' >= now /\ UNCHANGED <<keyBuckets, admitted>>
  BY <1>0, <1>1 DEF WindowsInv, WindowsOf
<1>2. ASSUME NEW key \in Keys, NEW kind \in Counters, Throttle(key, kind), UNCHANGED now
      PROVE  WindowsOf(k)'
  <2>1. CASE k = key
    <3>1. keyBuckets'[k] = Bucket(k) /\ admitted' = admitted
      BY <1>2, <2>1 DEF Throttle, LimiterTypeOK
    <3> QED
      BY <1>2, <3>1, BucketWindow DEF WindowsOf
  <2>2. CASE k # key
    BY <1>2, <2>2 DEF Throttle, LimiterTypeOK, WindowsInv, WindowsOf
  <2> QED
    BY <2>1, <2>2
<1>3. ASSUME NEW key \in Keys, NEW kind \in Counters, Admit(key, kind), UNCHANGED now
      PROVE  WindowsOf(k)'
  <2>1. CASE k = key
    <3>1. keyBuckets'[k].windowEndsAt = Bucket(k).windowEndsAt
      BY <1>3, <2>1, BucketType DEF Admit, LimiterTypeOK
    <3>2. ASSUME NEW c \in Counters
          PROVE  /\ Window(keyBuckets'[k].used[c], Bucket(k).windowEndsAt, admitted'[k][c], Limit[c])
                 /\ TwoLimits(admitted'[k][c], Limit[c])
      <4>1. /\ Bucket(k).used[c] \in Nat /\ Bucket(k).windowEndsAt \in Nat
            /\ admitted[k][c] \in Seq(Nat) /\ Limit[c] \in Nat
        <5>1. admitted[k] \in [Counters -> Seq(Nat)]
          BY DEF LimiterTypeOK
        <5>2. Limit[c] \in Nat /\ admitted[k][c] \in Seq(Nat)
          BY <5>1
        <5> QED
          BY <5>2, BucketType
      <4>2. CASE c \in Bumps(kind)
        <5>1. /\ keyBuckets'[k].used[c] = Bucket(k).used[c] + 1
              /\ admitted'[k][c] = Append(admitted[k][c], now)
          BY <1>3, <2>1, <4>2, BucketType DEF Admit, LimiterTypeOK
        <5>2. Bucket(k).used[c] < Limit[c]
          <6>1. ~(Bucket(k).used[c] >= Limit[c])
            BY <1>3, <2>1, <4>2, Zenon DEF Admit, Exceeded
          <6> QED
            BY <4>1, <6>1
        <5> DEFINE u == Bucket(k).used[c]
                   e == Bucket(k).windowEndsAt
                   s == admitted[k][c]
        <5>3. /\ Window(u, e, s, Limit[c]) /\ TwoLimits(s, Limit[c])
              /\ now < e /\ e <= now + Minute
          BY BucketWindow
        <5>4. u < Limit[c] /\ u \in Nat /\ e \in Nat /\ s \in Seq(Nat) /\ Limit[c] \in Nat
          BY <4>1, <5>2
        <5> HIDE DEF u, e, s
        <5>5. /\ Window(u + 1, e, Append(s, now), Limit[c])
              /\ TwoLimits(Append(s, now), Limit[c])
          BY <1>0, <5>3, <5>4, WindowCounts
        <5> QED
          BY <5>1, <5>5 DEF u, e, s
      <4>3. CASE c \notin Bumps(kind)
        <5>1. /\ keyBuckets'[k].used[c] = Bucket(k).used[c]
              /\ admitted'[k][c] = admitted[k][c]
          BY <1>3, <2>1, <4>3, BucketType DEF Admit, LimiterTypeOK
        <5> QED
          BY <5>1, BucketWindow
      <4> QED
        BY <4>2, <4>3
    <3>3. Bucket(k).windowEndsAt <= now + Minute
      BY BucketWindow
    <3> QED
      BY <1>3, <3>1, <3>2, <3>3 DEF WindowsOf
  <2>2. CASE k # key
    BY <1>3, <2>2 DEF Admit, LimiterTypeOK, WindowsInv, WindowsOf
  <2> QED
    BY <2>1, <2>2
<1>4. ASSUME NEW a \in Addresses, RecordFailedAuth(a) \/ ClearFailedAuth(a), UNCHANGED now
      PROVE  WindowsOf(k)'
  BY <1>0, <1>1, <1>4 DEF RecordFailedAuth, ClearFailedAuth
<1>5. CASE Tick
  BY <1>0, <1>1, <1>5 DEF Tick, limiterVars
<1>6. CASE UNCHANGED <<now, limiterVars>>
  BY <1>0, <1>1, <1>6 DEF limiterVars
<1> QED
  BY <1>2, <1>3, <1>4, <1>5, <1>6 DEF LimiterNext

\* Whatever the order of calls and keys, 2 * limit + 1 calls that count for one
\* limit take more than a minute.
THEOREM TwoLimitsPerMinuteTheorem == LimiterSpec => []TwoLimitsPerMinute
<1>1. LimiterInit => WindowsInv
  BY WindowsInit
<1>2. LimiterTypeOK /\ WindowsInv => TwoLimitsPerMinute
  BY DEF WindowsInv, WindowsOf, TwoLimits, TwoLimitsPerMinute
<1> QED
  BY <1>1, <1>2, LimiterTypes, WindowsStep, PTL DEF LimiterSpec

-----------------------------------------------------------------------------
(***************************************************************************)
(* Retry-After.                                                            *)
(***************************************************************************)
RetryOf(k) ==
  \A kind \in Counters : now < retryAt[k][kind] =>
    /\ retryAt[k][kind] <= keyBuckets[k].windowEndsAt
    /\ \E c \in Bumps(kind) : keyBuckets[k].used[c] >= Limit[c]

RetryInv == \A k \in Keys : RetryOf(k)

\* While the window runs the bucket is the one that is stored.
LEMMA BucketRuns ==
  ASSUME LimiterTypeOK, NEW k \in Keys, now < keyBuckets[k].windowEndsAt
  PROVE  Bucket(k) = keyBuckets[k]
<1>1. now \in Nat /\ keyBuckets[k].windowEndsAt \in Nat
  BY DEF LimiterTypeOK
<1>2. ~(now >= keyBuckets[k].windowEndsAt)
  BY <1>1
<1> QED
  BY <1>2, Zenon DEF Bucket

LEMMA RetryStep ==
  ASSUME LimiterTypeOK, LimiterTypeOK', WindowsInv, RetryInv,
         [LimiterNext]_<<now, limiterVars>>
  PROVE  RetryInv'
<1> SUFFICES ASSUME NEW k \in Keys PROVE RetryOf(k)'
  BY DEF RetryInv
<1>0. /\ now \in Nat /\ now' \in Nat /\ keyBuckets[k].windowEndsAt \in Nat
      /\ \A kind \in Counters : retryAt[k][kind] \in Nat
  <2>1. now \in Nat /\ now' \in Nat /\ keyBuckets[k].windowEndsAt \in Nat
    BY DEF LimiterTypeOK
  <2>2. retryAt[k] \in [Counters -> Nat]
    BY DEF LimiterTypeOK
  <2> QED
    BY <2>1, <2>2
<1>1. CASE now' >= now /\ UNCHANGED <<keyBuckets, retryAt>>
  BY <1>0, <1>1 DEF RetryInv, RetryOf
<1>2. ASSUME NEW key \in Keys, NEW kind \in Counters, Throttle(key, kind), UNCHANGED now
      PROVE  RetryOf(k)'
  <2>1. CASE k = key
    <3>1. keyBuckets'[k] = Bucket(k) /\ Bucket(k).windowEndsAt \in Nat
      BY <1>2, <2>1, BucketType DEF Throttle, LimiterTypeOK
    <3> SUFFICES ASSUME NEW x \in Counters, now < retryAt'[k][x]
                 PROVE  /\ retryAt'[k][x] <= Bucket(k).windowEndsAt
                        /\ \E c \in Bumps(x) : Bucket(k).used[c] >= Limit[c]
      BY <1>2, <3>1 DEF RetryOf
    <3>2. CASE x = kind
      <4>1. retryAt'[k][x] = Bucket(k).windowEndsAt
        BY <1>2, <2>1, <3>2 DEF Throttle, LimiterTypeOK
      <4>2. \E c \in Bumps(x) : Bucket(k).used[c] >= Limit[c]
        BY <1>2, <2>1, <3>2, Zenon DEF Throttle, Exceeded
      <4> QED
        BY <3>1, <4>1, <4>2
    <3>3. CASE x # kind
      <4>1. retryAt'[k][x] = retryAt[k][x]
        BY <1>2, <2>1, <3>3 DEF Throttle, LimiterTypeOK
      <4>2. /\ retryAt[k][x] <= keyBuckets[k].windowEndsAt
            /\ \E c \in Bumps(x) : keyBuckets[k].used[c] >= Limit[c]
        BY <4>1 DEF RetryInv, RetryOf
      <4>3. now < keyBuckets[k].windowEndsAt
        BY <1>0, <4>1, <4>2
      <4>4. Bucket(k) = keyBuckets[k]
        BY <4>3, BucketRuns
      <4> QED
        BY <4>1, <4>2, <4>4, Zenon
    <3> QED
      BY <3>2, <3>3
  <2>2. CASE k # key
    BY <1>2, <2>2 DEF Throttle, LimiterTypeOK, RetryInv, RetryOf
  <2> QED
    BY <2>1, <2>2
<1>3. ASSUME NEW key \in Keys, NEW kind \in Counters, Admit(key, kind), UNCHANGED now
      PROVE  RetryOf(k)'
  <2>1. CASE k = key
    <3> SUFFICES ASSUME NEW x \in Counters, now < retryAt[k][x]
                 PROVE  /\ retryAt[k][x] <= keyBuckets'[k].windowEndsAt
                        /\ \E c \in Bumps(x) : keyBuckets'[k].used[c] >= Limit[c]
      BY <1>3 DEF RetryOf, Admit
    <3>1. retryAt[k][x] <= keyBuckets[k].windowEndsAt
      BY DEF RetryInv, RetryOf
    <3>2. PICK c \in Bumps(x) : keyBuckets[k].used[c] >= Limit[c]
      BY DEF RetryInv, RetryOf
    <3>3. Bucket(k) = keyBuckets[k]
      BY <1>0, <3>1, BucketRuns
    <3>4. c \in Counters
      BY DEF Bumps
    <3>5. keyBuckets[k].used[c] \in Nat /\ Limit[c] \in Nat
      <4>1. Limit[c] \in Nat
        BY <3>4
      <4>2. keyBuckets[k].used \in [Counters -> Nat]
        BY DEF LimiterTypeOK
      <4> QED
        BY <3>4, <4>1, <4>2
    <3>6. /\ keyBuckets'[k].windowEndsAt = keyBuckets[k].windowEndsAt
          /\ keyBuckets'[k].used[c] \in {keyBuckets[k].used[c], keyBuckets[k].used[c] + 1}
      BY <1>3, <2>1, <3>3, <3>4 DEF Admit, LimiterTypeOK
    <3>7. keyBuckets'[k].used[c] >= Limit[c]
      BY <3>2, <3>5, <3>6
    <3> QED
      BY <3>1, <3>6, <3>7
  <2>2. CASE k # key
    BY <1>3, <2>2 DEF Admit, LimiterTypeOK, RetryInv, RetryOf
  <2> QED
    BY <2>1, <2>2
<1>4. ASSUME NEW a \in Addresses, RecordFailedAuth(a) \/ ClearFailedAuth(a), UNCHANGED now
      PROVE  RetryOf(k)'
  BY <1>0, <1>1, <1>4 DEF RecordFailedAuth, ClearFailedAuth
<1>5. CASE Tick
  BY <1>0, <1>1, <1>5 DEF Tick, limiterVars
<1>6. CASE UNCHANGED <<now, limiterVars>>
  BY <1>0, <1>1, <1>6 DEF limiterVars
<1> QED
  BY <1>2, <1>3, <1>4, <1>5, <1>6 DEF LimiterNext

\* A key that was told when to come back is refused until then.
THEOREM RetryAfterTheorem == LimiterSpec => []RetryAfterHolds
<1>1. LimiterInit => WindowsInv /\ RetryInv
  BY WindowsInit DEF LimiterInit, RetryInv, RetryOf
<1>2. ASSUME LimiterTypeOK, RetryInv
      PROVE  RetryAfterHolds
  <2> SUFFICES ASSUME NEW k \in Keys, NEW kind \in Counters, now < retryAt[k][kind]
               PROVE  Exceeded(k, kind)
    BY DEF RetryAfterHolds
  <2>1. /\ retryAt[k][kind] <= keyBuckets[k].windowEndsAt
        /\ \E c \in Bumps(kind) : keyBuckets[k].used[c] >= Limit[c]
    BY <1>2 DEF RetryInv, RetryOf
  <2>2. now \in Nat /\ keyBuckets[k].windowEndsAt \in Nat /\ retryAt[k][kind] \in Nat
    BY <1>2 DEF LimiterTypeOK
  <2>3. Bucket(k) = keyBuckets[k]
    BY <1>2, <2>1, <2>2, BucketRuns
  <2> QED
    BY <2>1, <2>3, Zenon DEF Exceeded
<1> QED
  BY <1>1, <1>2, LimiterTypes, WindowsStep, RetryStep, PTL DEF LimiterSpec

-----------------------------------------------------------------------------
(***************************************************************************)
(* The back-off.                                                           *)
(***************************************************************************)
LEMMA ProductGrows ==
  ASSUME NEW b \in Nat, NEW x \in Nat, NEW y \in Nat, x <= y
  PROVE  b * x <= b * y /\ b * x \in Nat /\ b * y \in Nat
<1>1. b * (y - x) >= 0 /\ b * y = b * x + b * (y - x)
  OBVIOUS
<1> QED
  BY <1>1

LEMMA DoublingGrows ==
  ASSUME NEW i \in 1..10, NEW j \in 1..10, i <= j
  PROVE  Doubling[i] \in Nat /\ Doubling[j] \in Nat /\ Doubling[i] <= Doubling[j]
<1>1. /\ Doubling[1] = 2 /\ Doubling[2] = 4 /\ Doubling[3] = 8 /\ Doubling[4] = 16
      /\ Doubling[5] = 32 /\ Doubling[6] = 64 /\ Doubling[7] = 128 /\ Doubling[8] = 256
      /\ Doubling[9] = 512 /\ Doubling[10] = 1024
  BY DEF Doubling
<1>2. /\ i \in {1, 2, 3, 4, 5, 6, 7, 8, 9, 10}
      /\ j \in {1, 2, 3, 4, 5, 6, 7, 8, 9, 10}
  OBVIOUS
<1> HIDE DEF Doubling
<1> QED
  BY <1>1, <1>2

\* A later failure is kept away no shorter than an earlier one of its window.
LEMMA BackoffGrows ==
  ASSUME NEW m \in Nat, NEW n \in Nat, FailedAuthLimit < m, m <= n
  PROVE  Backoff(m) \in Nat /\ Backoff(n) \in Nat /\ Backoff(m) <= Backoff(n)
<1> DEFINE i == AtMost(m - FailedAuthLimit, 10)
           j == AtMost(n - FailedAuthLimit, 10)
<1>1. i \in 1..10 /\ j \in 1..10 /\ i <= j
  BY DEF AtMost
<1>2. Doubling[i] \in Nat /\ Doubling[j] \in Nat /\ Doubling[i] <= Doubling[j]
  BY <1>1, DoublingGrows
<1> DEFINE x == BaseBackoff * Doubling[i]
           y == BaseBackoff * Doubling[j]
<1>3. x \in Nat /\ y \in Nat /\ x <= y
  BY <1>2, ProductGrows
<1>4. Backoff(m) = AtMost(x, MaxBackoff) /\ Backoff(n) = AtMost(y, MaxBackoff)
  BY DEF Backoff
<1> HIDE DEF i, j, x, y
<1> QED
  BY <1>3, <1>4 DEF AtMost

\* The entry is the last of the failures, which came one after the other.
FailuresOf(a) ==
  /\ failedAuth[a].lastFailureAt <= now
  /\ failures[a] = {} <=> failedAuth[a].count = 0
  /\ failedAuth[a].count > 0 =>
       [at |-> failedAuth[a].lastFailureAt, count |-> failedAuth[a].count] \in failures[a]
  /\ \A f \in failures[a] : /\ f.at <= failedAuth[a].lastFailureAt
                            /\ f.count <= failedAuth[a].count

FailuresInv == \A a \in Addresses : FailuresOf(a)

LEMMA FailuresStep ==
  ASSUME LimiterTypeOK, LimiterTypeOK', FailuresInv, [LimiterNext]_<<now, limiterVars>>
  PROVE  FailuresInv'
<1> SUFFICES ASSUME NEW a \in Addresses PROVE FailuresOf(a)'
  BY DEF FailuresInv
<1>0. /\ now \in Nat /\ now' \in Nat
      /\ failedAuth[a] \in [count : Nat, lastFailureAt : Nat, windowStartedAt : Nat]
      /\ failures[a] \subseteq [at : Nat, count : Nat]
  BY DEF LimiterTypeOK
<1>1. CASE now' >= now /\ UNCHANGED <<failedAuth, failures>>
  BY <1>0, <1>1 DEF FailuresInv, FailuresOf
<1>2. ASSUME NEW b \in Addresses, RecordFailedAuth(b), UNCHANGED now
      PROVE  FailuresOf(a)'
  <2>1. CASE a = b
    <3> DEFINE e == OneMore(a)
               last == [at |-> now, count |-> e.count]
               old == IF BeginsWindow(a) THEN {} ELSE failures[a]
    <3>1. /\ e \in [count : Nat, lastFailureAt : Nat, windowStartedAt : Nat]
          /\ e.lastFailureAt = now
          /\ e.count = IF BeginsWindow(a) THEN 1 ELSE failedAuth[a].count + 1
      BY OneMoreType
    <3>2. failedAuth'[a] = e /\ failures'[a] = old \cup {last}
      BY <1>2, <2>1 DEF RecordFailedAuth, LimiterTypeOK
    <3>3. \A f \in old : f.at <= now /\ f.count <= e.count
      <4> SUFFICES ASSUME NEW f \in failures[a], ~BeginsWindow(a)
                   PROVE  f.at <= now /\ f.count <= e.count
        OBVIOUS
      <4>1. f.at \in Nat /\ f.count \in Nat
        <5>1. f \in [at : Nat, count : Nat]
          BY <1>0
        <5> QED
          BY <5>1
      <4>2. /\ f.at <= failedAuth[a].lastFailureAt /\ f.count <= failedAuth[a].count
            /\ failedAuth[a].lastFailureAt <= now
        BY DEF FailuresInv, FailuresOf
      <4>3. e.count = failedAuth[a].count + 1 /\ failedAuth[a].count \in Nat
            /\ failedAuth[a].lastFailureAt \in Nat
        BY <1>0, <3>1
      <4> HIDE DEF e
      <4> QED
        BY <1>0, <4>1, <4>2, <4>3
    <3>4. last.at = now /\ last.count = e.count /\ e.count > 0 /\ e.count \in Nat
      BY <1>0, <3>1
    <3>5. last = [at |-> e.lastFailureAt, count |-> e.count]
      BY <3>1
    <3> HIDE DEF e, last, old
    <3> QED
      BY <1>0, <1>2, <3>1, <3>2, <3>3, <3>4, <3>5 DEF FailuresOf
  <2>2. CASE a # b
    BY <1>2, <2>2 DEF RecordFailedAuth, LimiterTypeOK, FailuresInv, FailuresOf
  <2> QED
    BY <2>1, <2>2
<1>3. ASSUME NEW b \in Addresses, ClearFailedAuth(b), UNCHANGED now
      PROVE  FailuresOf(a)'
  <2>1. CASE a = b
    BY <1>0, <1>3, <2>1 DEF ClearFailedAuth, LimiterTypeOK, NoFailure, FailuresOf
  <2>2. CASE a # b
    BY <1>3, <2>2 DEF ClearFailedAuth, LimiterTypeOK, FailuresInv, FailuresOf
  <2> QED
    BY <2>1, <2>2
<1>4. ASSUME NEW k \in Keys, NEW kind \in Counters, Throttle(k, kind) \/ Admit(k, kind), UNCHANGED now
      PROVE  FailuresOf(a)'
  BY <1>0, <1>1, <1>4 DEF Throttle, Admit
<1>5. CASE Tick
  BY <1>0, <1>1, <1>5 DEF Tick, limiterVars
<1>6. CASE UNCHANGED <<now, limiterVars>>
  BY <1>0, <1>1, <1>6 DEF limiterVars
<1> QED
  BY <1>2, <1>3, <1>4, <1>5, <1>6 DEF LimiterNext

LEMMA BackoffFromFailures ==
  ASSUME LimiterTypeOK, FailuresInv
  PROVE  BackoffIsExact
<1> SUFFICES ASSUME NEW a \in Addresses
             PROVE  InBackoff(a) <=> \E f \in failures[a] : /\ f.count > FailedAuthLimit
                                                           /\ now < f.at + Backoff(f.count)
  BY DEF BackoffIsExact
<1> DEFINE n == failedAuth[a].count
           t == failedAuth[a].lastFailureAt
<1>0. now \in Nat /\ n \in Nat /\ t \in Nat
  BY DEF LimiterTypeOK
<1>1. ASSUME InBackoff(a)
      PROVE  \E f \in failures[a] : f.count > FailedAuthLimit /\ now < f.at + Backoff(f.count)
  <2>1. n > FailedAuthLimit /\ now - t < Backoff(n)
    BY <1>1 DEF InBackoff
  <2>2. [at |-> t, count |-> n] \in failures[a]
    BY <1>0, <2>1 DEF FailuresInv, FailuresOf
  <2>3. Backoff(n) \in Nat
    BY <1>0, <2>1, BackoffGrows
  <2>4. now < t + Backoff(n)
    BY <1>0, <2>1, <2>3
  <2> QED
    BY <2>1, <2>2, <2>4
<1>2. ASSUME NEW f \in failures[a], f.count > FailedAuthLimit, now < f.at + Backoff(f.count)
      PROVE  InBackoff(a)
  <2>1. f.at \in Nat /\ f.count \in Nat /\ f.at <= t /\ f.count <= n
    <3>1. failures[a] \in SUBSET [at : Nat, count : Nat]
      BY DEF LimiterTypeOK
    <3>2. f \in [at : Nat, count : Nat]
      BY <3>1
    <3>3. f.at <= t /\ f.count <= n
      BY DEF FailuresInv, FailuresOf
    <3> QED
      BY <3>2, <3>3
  <2>2. Backoff(f.count) \in Nat /\ Backoff(n) \in Nat /\ Backoff(f.count) <= Backoff(n)
    BY <1>0, <1>2, <2>1, BackoffGrows
  <2>3. n > FailedAuthLimit /\ now - t < Backoff(n)
    BY <1>0, <1>2, <2>1, <2>2
  <2> QED
    BY <2>3 DEF InBackoff
<1> QED
  BY <1>1, <1>2

\* An address is kept away while the back-off of any of its failures runs, and
\* no longer.
THEOREM BackoffTheorem == LimiterSpec => []BackoffIsExact
<1>1. LimiterInit => FailuresInv
  BY DEF LimiterInit, FailuresInv, FailuresOf, NoFailure
<1> QED
  BY <1>1, LimiterTypes, FailuresStep, BackoffFromFailures, PTL DEF LimiterSpec

HIDE DEF Counters

-----------------------------------------------------------------------------
(* The pipeline. *)

USE KindAssumption, MayCallAssumption, ExpiresAtAssumption,
    InitialKeysAssumption, NoneAssumption

-----------------------------------------------------------------------------
(***************************************************************************)
(* The limiter inside the pipeline takes only steps of its own.            *)
(***************************************************************************)
LEMMA PipelineStepOfLimiter ==
  ASSUME [Next]_vars, TypeOK
  PROVE  [LimiterNext]_<<now, limiterVars>>
<1>1. CASE UNCHANGED vars
  BY <1>1 DEF vars
<1>2. ASSUME NEW r \in Requests,
             \/ \E a \in Addresses :
                  \/ Refuse(r, a)
                  \/ \E bearer \in Keys \cup {None}, tool \in Tools \cup {None} :
                       Arrive(r, a, bearer, tool)
             \/ Hashed(r) \/ ReadBody(r) \/ RejectBody(r) \/ HashFails(r) \/ RejectCall(r)
             \/ ToolActs(r) \/ ToolReturns(r) \/ ToolThrows(r) \/ RecordAuditEntry(r)
      PROVE  UNCHANGED <<now, limiterVars>>
  BY <1>2 DEF Refuse, Arrive, Hashed, ReadBody, RejectBody, HashFails, RejectCall, ToolActs,
              ToolReturns, ToolThrows, RecordAuditEntry
<1>3. ASSUME NEW k \in Keys, IssueKey(k) \/ RevokeKey(k)
      PROVE  UNCHANGED <<now, limiterVars>>
  BY <1>3 DEF IssueKey, RevokeKey
<1>4. ASSUME NEW r \in Requests, req[r] # NotMade
      PROVE  req[r].from \in Addresses /\ req[r].matched \in Keys \cup {None} /\ req[r].tool \in Tools \cup {None}
  <2>1. req[r] \in RequestRecords
    BY <1>4 DEF TypeOK
  <2> QED
    BY <2>1 DEF RequestRecords
<1>5. ASSUME NEW r \in Requests, Authenticate(r) \/ FailAuthentication(r)
      PROVE  LimiterNext
  <2>1. req[r] # NotMade
    BY <1>5 DEF Authenticate, FailAuthentication, NotMade
  <2>2. req[r].from \in Addresses
    BY <1>4, <2>1
  <2> QED
    BY <1>5, <2>2, Zenon DEF Authenticate, FailAuthentication, LimiterNext
<1>6. ASSUME NEW r \in Requests, ThrottleCall(r) \/ CallTool(r)
      PROVE  LimiterNext
  <2>1. <<req[r].matched, req[r].tool>> \in MayCall
    BY <1>6 DEF ThrottleCall, CallTool
  <2>2. req[r].matched \in Keys /\ Kind[req[r].tool] \in Counters
    BY <2>1
  <2> QED
    BY <1>6, <2>2, Zenon DEF ThrottleCall, CallTool, LimiterNext
<1> QED
  BY <1>1, <1>2, <1>3, <1>5, <1>6, Zenon DEF Next, LimiterNext

-----------------------------------------------------------------------------
(***************************************************************************)
(* The search through the key list.                                        *)
(***************************************************************************)
LEMMA Smallest ==
  ASSUME NEW S \in SUBSET Nat, S # {}
  PROVE  \E x \in S : \A y \in S : x <= y
<1>1. IsWellFoundedOn(OpToRel(<, Nat), Nat)
  BY NatLessThanWellFounded
<1>2. PICK x \in S : \A y \in S : ~(<<y, x>> \in OpToRel(<, Nat))
  BY <1>1, WFMin
<1>3. \A y \in Nat, z \in Nat : y < z => <<y, z>> \in {ss \in Nat \X Nat : ss[1] < ss[2]}
  OBVIOUS
<1>4. \A y \in S : ~(y < x)
  BY <1>2, <1>3 DEF OpToRel
<1> QED
  BY <1>4

\* The search comes to the next key that is in order and passes over none.
LEMMA NextPlaceIsNext ==
  ASSUME TypeOK, NEW place \in Nat, NEW since \in Nat
  PROVE  \/ /\ NextPlace(place, since) \in place + 1..Len(keyList)
            /\ \A i \in place + 1..NextPlace(place, since) - 1 : ~Usable(keyList[i], since)
         \/ /\ NextPlace(place, since) = 0
            /\ \A i \in place + 1..Len(keyList) : ~Usable(keyList[i], since)
<1> DEFINE ahead == {i \in place + 1..Len(keyList) : Usable(keyList[i], since)}
<1>1. CASE ahead = {}
  BY <1>1 DEF NextPlace
<1>2. CASE ahead # {}
  <2>1. ahead \in SUBSET Nat
    BY DEF TypeOK
  <2>2. \E x \in ahead : \A y \in ahead : x <= y
    BY <1>2, <2>1, Smallest
  <2>3. Min(ahead) \in ahead /\ \A y \in ahead : Min(ahead) <= y
    BY <2>2, Zenon DEF Min
  <2>4. NextPlace(place, since) = Min(ahead)
    BY <1>2 DEF NextPlace
  <2>5. \A i \in place + 1..Min(ahead) - 1 : i \in place + 1..Len(keyList) /\ ~(Min(ahead) <= i)
    BY <2>3 DEF TypeOK
  <2> QED
    BY <2>3, <2>4, <2>5
<1> QED
  BY <1>1, <1>2

\* A record is a request with the fields of one.
LEMMA RequestFields ==
  ASSUME NEW s \in RequestRecords
  PROVE  /\ s.at \in Stages /\ s.from \in Addresses /\ s.bearer \in Keys \cup {None}
         /\ s.tool \in Tools \cup {None} /\ s.since \in Nat /\ s.place \in Nat
         /\ s.matched \in Keys \cup {None} /\ s.success \in BOOLEAN
         /\ s.key_id \in Keys \cup {None}
  BY DEF RequestRecords

LEMMA UnderWay ==
  ASSUME TypeOK, NEW r \in Requests, req[r].at # "none"
  PROVE  req[r] \in RequestRecords
  BY DEF TypeOK, NotMade

\* What a step does to the table of requests when it gives one of them a record.
LEMMA OneRequest ==
  ASSUME TypeOK, NEW r \in Requests, NEW s \in RequestRecords, req' = [req EXCEPT ![r] = s]
  PROVE  /\ req' \in [Requests -> RequestRecords \cup {NotMade}]
         /\ req'[r] = s
         /\ \A q \in Requests : q # r => req'[q] = req[q]
  BY DEF TypeOK

\* How the search leaves a request: at the next key in order or, past the last
\* one, at its end.
LEMMA SearchEffect ==
  ASSUME TypeOK, NEW s \in RequestRecords
  PROVE  /\ SearchOn(s) \in RequestRecords
         /\ SearchOn(s).bearer = s.bearer /\ SearchOn(s).matched = s.matched
         /\ SearchOn(s).since = s.since /\ SearchOn(s).success = s.success
         /\ \/ /\ SearchOn(s).at = "hashing"
               /\ SearchOn(s).place \in s.place + 1..Len(keyList)
               /\ \A i \in s.place + 1..SearchOn(s).place - 1 : ~Usable(keyList[i], s.since)
            \/ /\ SearchOn(s).at = "verified"
               /\ \A i \in s.place + 1..Len(keyList) : ~Usable(keyList[i], s.since)
<1> DEFINE n == NextPlace(s.place, s.since)
<1>1. s.place \in Nat /\ s.since \in Nat
  BY RequestFields
<1>2. \/ n \in s.place + 1..Len(keyList) /\ \A i \in s.place + 1..n - 1 : ~Usable(keyList[i], s.since)
      \/ n = 0 /\ \A i \in s.place + 1..Len(keyList) : ~Usable(keyList[i], s.since)
  BY <1>1, NextPlaceIsNext
<1>3. n \in Nat /\ (n \in s.place + 1..Len(keyList) => n # 0)
  BY <1>1, <1>2
<1>4. SearchOn(s) = IF n = 0 THEN [s EXCEPT !.at = "verified"]
                    ELSE [s EXCEPT !.at = "hashing", !.place = n]
  BY DEF SearchOn
<1> HIDE DEF n
<1>5. CASE n = 0
  <2>1. SearchOn(s) = [s EXCEPT !.at = "verified"]
    BY <1>4, <1>5
  <2>2. /\ SearchOn(s) \in RequestRecords /\ SearchOn(s).at = "verified"
        /\ SearchOn(s).bearer = s.bearer /\ SearchOn(s).matched = s.matched
        /\ SearchOn(s).since = s.since /\ SearchOn(s).success = s.success
    BY <2>1 DEF RequestRecords, Stages
  <2> QED
    BY <1>2, <1>3, <1>5, <2>2
<1>6. CASE n # 0
  <2>1. SearchOn(s) = [s EXCEPT !.at = "hashing", !.place = n]
    BY <1>4, <1>6
  <2>2. /\ SearchOn(s) \in RequestRecords /\ SearchOn(s).at = "hashing" /\ SearchOn(s).place = n
        /\ SearchOn(s).bearer = s.bearer /\ SearchOn(s).matched = s.matched
        /\ SearchOn(s).since = s.since /\ SearchOn(s).success = s.success
    BY <1>3, <2>1 DEF RequestRecords, Stages
  <2> QED
    BY <1>2, <1>6, <2>2
<1> QED
  BY <1>5, <1>6
-----------------------------------------------------------------------------
(***************************************************************************)
(* What a step of a request leaves behind: the record of the request, and  *)
(* the others as they were.                                                *)
(***************************************************************************)
RequestStep(r) ==
  \/ \E a \in Addresses :
       \/ Refuse(r, a)
       \/ \E bearer \in Keys \cup {None}, tool \in Tools \cup {None} : Arrive(r, a, bearer, tool)
  \/ Hashed(r) \/ Authenticate(r) \/ FailAuthentication(r)
  \/ ReadBody(r) \/ RejectBody(r) \/ HashFails(r)
  \/ RejectCall(r) \/ ThrottleCall(r) \/ CallTool(r)
  \/ ToolActs(r) \/ ToolReturns(r) \/ ToolThrows(r) \/ RecordAuditEntry(r)

\* The steps that only take a request on from one stage to another.
Moves(r, stage) ==
  \/ Authenticate(r) /\ stage = "body"
  \/ ReadBody(r) /\ stage = "use"
  \/ (FailAuthentication(r) \/ RejectBody(r) \/ HashFails(r) \/ ToolThrows(r)) /\ stage = "entry"
  \/ RecordAuditEntry(r) /\ stage = "done"

\* The steps that set the key of the entry as well.
Identifies(r, stage) ==
  \/ (RejectCall(r) \/ ThrottleCall(r)) /\ stage = "entry"
  \/ CallTool(r) /\ stage = "tool"

LEMMA Moved ==
  ASSUME TypeOK, NEW r \in Requests, NEW stage, Moves(r, stage)
  PROVE  /\ req[r] \in RequestRecords
         /\ \E s \in RequestRecords :
              /\ req' = [req EXCEPT ![r] = s]
              /\ s.at = stage /\ s.bearer = req[r].bearer /\ s.tool = req[r].tool
              /\ s.matched = req[r].matched
              /\ s.success = req[r].success /\ s.key_id = req[r].key_id
<1>1. req[r].at # "none" /\ stage \in Stages /\ Advance(r, stage)
  BY DEF Moves, Authenticate, ReadBody, FailAuthentication, RejectBody, HashFails, ToolThrows,
         RecordAuditEntry, Stages
<1>2. req[r] \in RequestRecords
  BY <1>1, UnderWay
<1> DEFINE s == [req[r] EXCEPT !.at = stage]
<1>3. req' = [req EXCEPT ![r] = s]
  BY <1>1 DEF Advance
<1>4. /\ s \in RequestRecords /\ s.at = stage
      /\ s.bearer = req[r].bearer /\ s.tool = req[r].tool /\ s.matched = req[r].matched
      /\ s.success = req[r].success /\ s.key_id = req[r].key_id
  BY <1>1, <1>2 DEF RequestRecords
<1> QED
  BY <1>2, <1>3, <1>4

LEMMA IdentifiedIs ==
  ASSUME TypeOK, NEW r \in Requests, NEW stage, Identifies(r, stage)
  PROVE  /\ req[r] \in RequestRecords /\ req[r].at = "use"
         /\ \E s \in RequestRecords :
              /\ req' = [req EXCEPT ![r] = s]
              /\ s.at = stage /\ s.bearer = req[r].bearer /\ s.tool = req[r].tool
              /\ s.matched = req[r].matched
              /\ s.success = req[r].success /\ s.key_id = req[r].matched
<1>1. req[r].at = "use" /\ stage \in Stages /\ Identified(r, stage)
  BY DEF Identifies, RejectCall, ThrottleCall, CallTool, Stages
<1>2. req[r] \in RequestRecords
  BY <1>1, UnderWay
<1> DEFINE s == [req[r] EXCEPT !.at = stage, !.key_id = req[r].matched]
<1>3. req' = [req EXCEPT ![r] = s]
  BY <1>1 DEF Identified
<1>4. /\ s \in RequestRecords /\ s.at = stage
      /\ s.bearer = req[r].bearer /\ s.tool = req[r].tool /\ s.matched = req[r].matched
      /\ s.success = req[r].success /\ s.key_id = req[r].matched
  BY <1>1, <1>2 DEF RequestRecords
<1> QED
  BY <1>1, <1>2, <1>3, <1>4

LEMMA Returned ==
  ASSUME TypeOK, NEW r \in Requests, ToolReturns(r)
  PROVE  /\ req[r] \in RequestRecords
         /\ \E s \in RequestRecords :
              /\ req' = [req EXCEPT ![r] = s]
              /\ s.at = "entry" /\ s.bearer = req[r].bearer /\ s.tool = req[r].tool
              /\ s.matched = req[r].matched
              /\ s.success = TRUE /\ s.key_id = req[r].key_id
<1>1. req[r].at = "tool"
  BY DEF ToolReturns
<1>2. req[r] \in RequestRecords
  BY <1>1, UnderWay
<1> DEFINE s == [req[r] EXCEPT !.at = "entry", !.success = TRUE]
<1>3. req' = [req EXCEPT ![r] = s]
  BY DEF ToolReturns
<1>4. /\ s \in RequestRecords /\ s.at = "entry"
      /\ s.bearer = req[r].bearer /\ s.tool = req[r].tool /\ s.matched = req[r].matched
      /\ s.success = TRUE /\ s.key_id = req[r].key_id
  BY <1>2 DEF RequestRecords, Stages
<1> QED
  BY <1>2, <1>3, <1>4

LEMMA Refused ==
  ASSUME TypeOK, NEW r \in Requests, NEW a \in Addresses, Refuse(r, a)
  PROVE  \E s \in RequestRecords :
           /\ req' = [req EXCEPT ![r] = s]
           /\ s.at = "entry" /\ s.success = FALSE
<1>1. /\ Request(a, None, None) \in RequestRecords
      /\ Request(a, None, None).at = "entry" /\ Request(a, None, None).success = FALSE
  BY DEF Request, RequestRecords, Stages, TypeOK, LimiterTypeOK
<1> QED
  BY <1>1, Zenon DEF Refuse

\* A request whose search has begun: nothing matched yet, and the keys passed
\* over, all of them if the search is over, were not in order.
Begun(s, bearer) ==
  /\ s.bearer = bearer /\ s.matched = None /\ s.success = FALSE /\ s.since = now
  /\ \/ /\ s.at = "hashing" /\ s.place \in 1..Len(keyList)
        /\ \A i \in 1..s.place - 1 : ~Usable(keyList[i], now)
     \/ /\ s.at = "verified"
        /\ bearer = None \/ \A i \in 1..Len(keyList) : ~Usable(keyList[i], now)

LEMMA Arrived ==
  ASSUME TypeOK, NEW r \in Requests, NEW a \in Addresses, NEW bearer \in Keys \cup {None},
         NEW tool \in Tools \cup {None}, Arrive(r, a, bearer, tool)
  PROVE  \E s \in RequestRecords : req' = [req EXCEPT ![r] = s] /\ Begun(s, bearer)
<1> DEFINE q == Request(a, bearer, tool)
<1>1. /\ q \in RequestRecords /\ q.at = "entry" /\ q.bearer = bearer /\ q.since = now
      /\ q.place = 0 /\ q.matched = None /\ q.success = FALSE
  BY DEF Request, RequestRecords, Stages, TypeOK, LimiterTypeOK
<1>2. \/ req' = [req EXCEPT ![r] = SearchOn(q)]
      \/ bearer = None /\ req' = [req EXCEPT ![r] = [q EXCEPT !.at = "verified"]]
  BY DEF Arrive
<1> HIDE DEF q
<1>3. CASE req' = [req EXCEPT ![r] = SearchOn(q)]
  <2> DEFINE s == SearchOn(q)
  <2>1. /\ s \in RequestRecords
        /\ s.bearer = q.bearer /\ s.matched = q.matched
        /\ s.since = q.since /\ s.success = q.success
        /\ \/ /\ s.at = "hashing" /\ s.place \in q.place + 1..Len(keyList)
              /\ \A i \in q.place + 1..s.place - 1 : ~Usable(keyList[i], q.since)
           \/ /\ s.at = "verified"
              /\ \A i \in q.place + 1..Len(keyList) : ~Usable(keyList[i], q.since)
    BY <1>1, SearchEffect
  <2>2. 0 + 1 = 1
    OBVIOUS
  <2> HIDE DEF s
  <2>3. req' = [req EXCEPT ![r] = s]
    BY <1>3 DEF s
  <2>4. \/ /\ s.at = "hashing" /\ s.place \in 1..Len(keyList)
           /\ \A i \in 1..s.place - 1 : ~Usable(keyList[i], now)
        \/ /\ s.at = "verified"
           /\ \A i \in 1..Len(keyList) : ~Usable(keyList[i], now)
    BY <2>1, <2>2, <1>1
  <2>5. s.bearer = bearer /\ s.matched = None /\ s.success = FALSE /\ s.since = now
    BY <1>1, <2>1
  <2> QED
    BY <2>1, <2>3, <2>4, <2>5, Zenon DEF Begun
<1>4. CASE bearer = None /\ req' = [req EXCEPT ![r] = [q EXCEPT !.at = "verified"]]
  <2> DEFINE s == [q EXCEPT !.at = "verified"]
  <2>1. /\ s \in RequestRecords /\ s.at = "verified" /\ s.bearer = q.bearer
        /\ s.matched = q.matched /\ s.success = q.success /\ s.since = q.since
    BY <1>1 DEF RequestRecords, Stages
  <2>2. req' = [req EXCEPT ![r] = s]
    BY <1>4
  <2> HIDE DEF s
  <2> QED
    BY <1>1, <1>4, <2>1, <2>2 DEF Begun
<1> QED
  BY <1>2, <1>3, <1>4

LEMMA HashedIs ==
  ASSUME TypeOK, NEW r \in Requests, Hashed(r)
  PROVE  /\ req[r] \in RequestRecords
         /\ \E s \in RequestRecords :
              /\ req' = [req EXCEPT ![r] = s]
              /\ s.bearer = req[r].bearer /\ s.since = req[r].since /\ s.success = req[r].success
              /\ s.matched = IF keyList[req[r].place] = req[r].bearer THEN req[r].bearer
                             ELSE req[r].matched
              /\ \/ /\ s.at = "hashing" /\ s.place \in req[r].place + 1..Len(keyList)
                    /\ \A i \in req[r].place + 1..s.place - 1 : ~Usable(keyList[i], s.since)
                 \/ /\ s.at = "verified"
                    /\ \A i \in req[r].place + 1..Len(keyList) : ~Usable(keyList[i], s.since)
<1> DEFINE p == req[r]
           m == IF keyList[p.place] = p.bearer THEN p.bearer ELSE p.matched
           q == [p EXCEPT !.matched = m]
           s == SearchOn(q)
<1>1. p \in RequestRecords
  BY UnderWay DEF Hashed
<1>2. m \in Keys \cup {None}
  BY <1>1, RequestFields
<1>3. req' = [req EXCEPT ![r] = s]
  <2>1. [p EXCEPT !.matched = IF keyList[p.place] = p.bearer THEN keyList[p.place] ELSE @] = q
    OBVIOUS
  <2> QED
    BY <2>1 DEF Hashed
<1> HIDE DEF m
<1>4. /\ q \in RequestRecords /\ q.bearer = p.bearer /\ q.since = p.since
      /\ q.place = p.place /\ q.success = p.success /\ q.matched = m
  BY <1>1, <1>2 DEF RequestRecords
<1> HIDE DEF q
<1>5. /\ s \in RequestRecords
      /\ s.bearer = q.bearer /\ s.matched = q.matched
      /\ s.since = q.since /\ s.success = q.success
      /\ \/ /\ s.at = "hashing" /\ s.place \in q.place + 1..Len(keyList)
            /\ \A i \in q.place + 1..s.place - 1 : ~Usable(keyList[i], q.since)
         \/ /\ s.at = "verified"
            /\ \A i \in q.place + 1..Len(keyList) : ~Usable(keyList[i], q.since)
  BY <1>4, SearchEffect
<1> HIDE DEF s
<1>6. /\ s.bearer = p.bearer /\ s.since = p.since /\ s.success = p.success /\ s.matched = m
  BY <1>4, <1>5
<1>7. \/ /\ s.at = "hashing" /\ s.place \in p.place + 1..Len(keyList)
         /\ \A i \in p.place + 1..s.place - 1 : ~Usable(keyList[i], s.since)
      \/ /\ s.at = "verified"
         /\ \A i \in p.place + 1..Len(keyList) : ~Usable(keyList[i], s.since)
  BY <1>4, <1>5
<1> QED
  BY <1>1, <1>3, <1>5, <1>6, <1>7 DEF m
-----------------------------------------------------------------------------
(***************************************************************************)
(* Type correctness.                                                       *)
(***************************************************************************)
LEMMA Responded ==
  ASSUME TypeOK, NEW r \in Requests,
         NEW a \in {"ok", "error", "hidden", "throttled"}, Respond(r, a)
  PROVE  /\ answer' \in [Requests -> {"none", "ok", "error", "hidden", "throttled"}]
         /\ answer'[r] = a
         /\ \A q \in Requests : q # r => answer'[q] = answer[q]
         /\ performed' = performed /\ recorded' = recorded
  BY DEF Respond, TypeOK

\* A step of one request does nothing to another.
LEMMA OthersStay ==
  ASSUME TypeOK, NEW r \in Requests, RequestStep(r)
  PROVE  /\ req' \in [Requests -> RequestRecords \cup {NotMade}]
         /\ \A q \in Requests : q # r => req'[q] = req[q]
         /\ UNCHANGED keyVars
<1>1. CASE \E stage : Moves(r, stage)
  <2>1. \E s \in RequestRecords : req' = [req EXCEPT ![r] = s]
    BY <1>1, Moved
  <2>2. UNCHANGED keyVars
    BY <1>1 DEF Moves, Authenticate, ReadBody, FailAuthentication, RejectBody, HashFails, ToolThrows,
                RecordAuditEntry
  <2> QED
    BY <2>1, <2>2, OneRequest
<1>2. CASE \E stage : Identifies(r, stage)
  <2>1. \E s \in RequestRecords : req' = [req EXCEPT ![r] = s]
    BY <1>2, IdentifiedIs
  <2>2. UNCHANGED keyVars
    BY <1>2 DEF Identifies, RejectCall, ThrottleCall, CallTool
  <2> QED
    BY <2>1, <2>2, OneRequest
<1>3. CASE ToolReturns(r)
  <2>1. \E s \in RequestRecords : req' = [req EXCEPT ![r] = s]
    BY <1>3, Returned
  <2> QED
    BY <1>3, <2>1, OneRequest DEF ToolReturns
<1>4. ASSUME NEW a \in Addresses, Refuse(r, a)
      PROVE  \E s \in RequestRecords : req' = [req EXCEPT ![r] = s]
  BY <1>4, Refused
<1>5. ASSUME NEW a \in Addresses, NEW bearer \in Keys \cup {None}, NEW tool \in Tools \cup {None},
             Arrive(r, a, bearer, tool)
      PROVE  \E s \in RequestRecords : req' = [req EXCEPT ![r] = s]
  BY <1>5, Arrived
<1>6. CASE \E a \in Addresses :
             \/ Refuse(r, a)
             \/ \E bearer \in Keys \cup {None}, tool \in Tools \cup {None} :
                  Arrive(r, a, bearer, tool)
  <2>1. \E s \in RequestRecords : req' = [req EXCEPT ![r] = s]
    BY <1>4, <1>5, <1>6
  <2>2. UNCHANGED keyVars
    BY <1>6 DEF Refuse, Arrive
  <2> QED
    BY <2>1, <2>2, OneRequest
<1>7. CASE Hashed(r)
  <2>1. \E s \in RequestRecords : req' = [req EXCEPT ![r] = s]
    BY <1>7, HashedIs
  <2> QED
    BY <1>7, <2>1, OneRequest DEF Hashed
<1>8. CASE ToolActs(r)
  BY <1>8 DEF ToolActs, TypeOK
<1> QED
  BY <1>1, <1>2, <1>3, <1>6, <1>7, <1>8 DEF RequestStep, Moves, Identifies

\* What a step of a request answers and records.
LEMMA CallStep ==
  ASSUME TypeOK, NEW r \in Requests, RequestStep(r)
  PROVE  /\ performed' \subseteq Requests
         /\ answer' \in [Requests -> {"none", "ok", "error", "hidden", "throttled"}]
         /\ recorded' \in [Requests -> {"none", "success", "failure"}]
         /\ \A q \in Requests : q # r =>
              /\ answer'[q] = answer[q] /\ recorded'[q] = recorded[q]
              /\ q \in performed' <=> q \in performed
<1>1. CASE UNCHANGED callVars
  BY <1>1 DEF callVars, TypeOK
<1>2. CASE \E a \in {"ok", "error", "hidden", "throttled"} : Respond(r, a)
  <2>1. PICK a \in {"ok", "error", "hidden", "throttled"} : Respond(r, a)
    BY <1>2
  <2> QED
    BY <2>1, Responded DEF TypeOK
<1>3. CASE ToolActs(r)
  BY <1>3 DEF ToolActs, TypeOK
<1>4. CASE RecordAuditEntry(r)
  BY <1>4 DEF RecordAuditEntry, TypeOK
<1>5. ASSUME NEW a \in Addresses, Refuse(r, a)
      PROVE  Respond(r, "hidden") \/ Respond(r, "error")
  BY <1>5 DEF Refuse
<1>6. ASSUME NEW a \in Addresses, NEW bearer, NEW tool, Arrive(r, a, bearer, tool)
      PROVE  UNCHANGED callVars
  BY <1>6 DEF Arrive
<1>7. CASE Hashed(r) \/ Authenticate(r) \/ ReadBody(r) \/ CallTool(r)
  BY <1>1, <1>7 DEF Hashed, Authenticate, ReadBody, CallTool
<1>8. CASE FailAuthentication(r) \/ RejectBody(r) \/ HashFails(r) \/ RejectCall(r) \/ ThrottleCall(r)
           \/ ToolReturns(r) \/ ToolThrows(r)
  <2>1. Respond(r, "hidden") \/ Respond(r, "error") \/ Respond(r, "throttled") \/ Respond(r, "ok")
    BY <1>8 DEF FailAuthentication, RejectBody, HashFails, RejectCall, ThrottleCall, ToolReturns, ToolThrows
  <2> QED
    BY <1>2, <2>1
<1> QED
  BY <1>1, <1>2, <1>3, <1>4, <1>5, <1>6, <1>7, <1>8 DEF RequestStep

\* A step is one of a request, or of the keys or of the clock.
LEMMA StepKinds ==
  ASSUME [Next]_vars
  PROVE  \/ \E r \in Requests : RequestStep(r)
         \/ UNCHANGED <<req, callVars>>
  BY DEF Next, RequestStep, IssueKey, RevokeKey, vars

LEMMA KeysStep ==
  ASSUME TypeOK, [Next]_vars
  PROVE  keyList' \in Seq(Keys) /\ revoked' \subseteq Keys
<1>1. CASE UNCHANGED keyVars
  BY <1>1 DEF keyVars, TypeOK
<1>2. ASSUME NEW k \in Keys, IssueKey(k)
      PROVE  keyList' \in Seq(Keys) /\ revoked' \subseteq Keys
  BY <1>2 DEF IssueKey, TypeOK
<1>3. ASSUME NEW k \in Keys, RevokeKey(k)
      PROVE  keyList' \in Seq(Keys) /\ revoked' \subseteq Keys
  BY <1>3 DEF RevokeKey, TypeOK
<1>4. ASSUME NEW r \in Requests, RequestStep(r)
      PROVE  UNCHANGED keyVars
  BY <1>4, OthersStay
<1>5. CASE Tick /\ UNCHANGED <<keyVars, req, callVars>>
  BY <1>1, <1>5
<1>6. CASE UNCHANGED vars
  BY <1>1, <1>6 DEF vars
<1> QED
  BY <1>1, <1>2, <1>3, <1>4, <1>5, <1>6 DEF Next, RequestStep

LEMMA PipelineTypeInit == Init => TypeOK
  BY LimiterTypeInit DEF Init, TypeOK

LEMMA PipelineTypeStep ==
  ASSUME TypeOK, [Next]_vars
  PROVE  TypeOK'
<1>1. LimiterTypeOK'
  BY PipelineStepOfLimiter, LimiterTypeStep DEF TypeOK
<1>2. keyList' \in Seq(Keys) /\ revoked' \subseteq Keys
  BY KeysStep
<1>3. CASE \E r \in Requests : RequestStep(r)
  BY <1>1, <1>2, <1>3, OthersStay, CallStep DEF TypeOK
<1>4. CASE UNCHANGED <<req, callVars>>
  BY <1>1, <1>2, <1>4 DEF TypeOK, callVars
<1> QED
  BY <1>3, <1>4, StepKinds

\* The values of the pipeline are of their types.
THEOREM PipelineTypes == Spec => []TypeOK
  BY PipelineTypeInit, PipelineTypeStep, PTL DEF Spec

\* The limits of RateLimiter hold for the requests that the pipeline lets
\* through: it uses the limiter only as the limiter is meant to be used.
THEOREM PipelineKeepsLimiter == Spec => LimiterSpec
<1>1. Init => LimiterInit
  BY DEF Init
<1>2. TypeOK /\ [Next]_vars => [LimiterNext]_<<now, limiterVars>>
  BY PipelineStepOfLimiter
<1> QED
  BY <1>1, <1>2, PipelineTypes, PTL DEF Spec, LimiterSpec

\* So no request goes beyond twice the limit in a minute, a Retry-After is not
\* too short and a back-off is neither lost nor prolonged, whatever suspends
\* between the checks.
THEOREM PipelineLimits == Spec => [](TwoLimitsPerMinute /\ RetryAfterHolds /\ BackoffIsExact)
  BY PipelineKeepsLimiter, TwoLimitsPerMinuteTheorem, RetryAfterTheorem, BackoffTheorem, PTL
-----------------------------------------------------------------------------
(***************************************************************************)
(* A request and what is known of its call.                                *)
(***************************************************************************)
Unanswered == {"none", "hashing", "verified", "body", "use", "tool"}

\* How far a request is, what it did and was answered, and for whom.
Consistent(r) ==
  /\ answer[r] = "none" <=> req[r].at \in Unanswered
  /\ recorded[r] # "none" => req[r].at = "done"
  /\ r \in performed => req[r].at \in {"tool", "entry", "done"}
  /\ req[r].at = "entry" => (req[r].success = TRUE <=> answer[r] = "ok")
  /\ req[r].at \in Unanswered \ {"none"} => req[r].success = FALSE
  /\ req[r].at \in {"hashing", "verified"} => req[r].matched \in {None, req[r].bearer}
  /\ req[r].at \in {"body", "use"} => req[r].matched = req[r].bearer
  /\ req[r].at = "tool" \/ r \in performed =>
       /\ req[r].key_id = req[r].bearer
       /\ <<req[r].bearer, req[r].tool>> \in MayCall

AllConsistent == \A r \in Requests : Consistent(r)

LEMMA ConsistentInit == Init => AllConsistent
  BY DEF Init, AllConsistent, Consistent, Unanswered, NotMade

LEMMA ConsistentBefore ==
  ASSUME TypeOK, NEW r \in Requests, Consistent(r),
         \/ \E a \in Addresses : Refuse(r, a)
         \/ \E a \in Addresses, bearer \in Keys \cup {None}, tool \in Tools \cup {None} :
              Arrive(r, a, bearer, tool)
         \/ Hashed(r)
  PROVE  Consistent(r)'
<1>1. CASE \E a \in Addresses : Refuse(r, a)
  <2>1. PICK a \in Addresses : Refuse(r, a)
    BY <1>1
  <2>2. PICK s \in RequestRecords :
          req' = [req EXCEPT ![r] = s] /\ s.at = "entry" /\ s.success = FALSE
    BY <2>1, Refused
  <2>3. req'[r] = s
    BY <2>2, OneRequest
  <2>4. Respond(r, "hidden") \/ Respond(r, "error")
    BY <2>1 DEF Refuse
  <2>5. answer'[r] \in {"hidden", "error"} /\ performed' = performed /\ recorded' = recorded
    BY <2>4, Responded
  <2>6. req[r].at = "none"
    BY <2>1 DEF Refuse, NotMade
  <2> QED
    BY <2>2, <2>3, <2>5, <2>6 DEF Consistent, Unanswered
<1>2. ASSUME NEW a \in Addresses, NEW bearer \in Keys \cup {None}, NEW tool \in Tools \cup {None},
             Arrive(r, a, bearer, tool)
      PROVE  Consistent(r)'
  <2>1. PICK s \in RequestRecords : req' = [req EXCEPT ![r] = s] /\ Begun(s, bearer)
    BY <1>2, Arrived
  <2>2. s.at \in {"hashing", "verified"} /\ s.matched = None /\ s.success = FALSE
    BY <2>1 DEF Begun
  <2>3. req'[r] = s
    BY <2>1, OneRequest
  <2>4. req[r].at = "none" /\ UNCHANGED callVars
    BY <1>2 DEF Arrive, NotMade
  <2> QED
    BY <2>2, <2>3, <2>4 DEF Consistent, Unanswered, callVars
<1>3. CASE Hashed(r)
  <2>1. PICK s \in RequestRecords :
          /\ req' = [req EXCEPT ![r] = s] /\ s.at \in {"hashing", "verified"}
          /\ s.bearer = req[r].bearer /\ s.success = req[r].success
          /\ s.matched \in {req[r].bearer, req[r].matched}
    BY <1>3, HashedIs
  <2>2. req'[r] = s
    BY <2>1, OneRequest
  <2>3. req[r].at = "hashing" /\ UNCHANGED callVars
    BY <1>3 DEF Hashed
  <2> QED
    BY <2>1, <2>2, <2>3 DEF Consistent, Unanswered, callVars
<1> QED
  BY <1>1, <1>2, <1>3

LEMMA ConsistentMoves ==
  ASSUME TypeOK, NEW r \in Requests, Consistent(r), NEW stage, Moves(r, stage)
  PROVE  Consistent(r)'
<1>1. PICK s \in RequestRecords :
        /\ req' = [req EXCEPT ![r] = s]
        /\ s.at = stage /\ s.bearer = req[r].bearer /\ s.tool = req[r].tool
        /\ s.matched = req[r].matched
        /\ s.success = req[r].success /\ s.key_id = req[r].key_id
  BY Moved
<1>2. req'[r] = s
  BY <1>1, OneRequest
<1>3. CASE Authenticate(r) /\ stage = "body"
  <2>1. req[r].at = "verified" /\ req[r].matched # None /\ UNCHANGED callVars
    BY <1>3 DEF Authenticate
  <2> QED
    BY <1>1, <1>2, <1>3, <2>1 DEF Consistent, Unanswered, callVars
<1>4. CASE ReadBody(r) /\ stage = "use"
  <2>1. req[r].at = "body" /\ UNCHANGED callVars
    BY <1>4 DEF ReadBody
  <2> QED
    BY <1>1, <1>2, <1>4, <2>1 DEF Consistent, Unanswered, callVars
<1>5. CASE (FailAuthentication(r) \/ RejectBody(r) \/ HashFails(r) \/ ToolThrows(r)) /\ stage = "entry"
  <2>1. /\ req[r].at \in {"hashing", "verified", "body", "tool"}
        /\ Respond(r, "hidden") \/ Respond(r, "error")
    BY <1>5 DEF FailAuthentication, RejectBody, HashFails, ToolThrows
  <2>2. answer'[r] \in {"hidden", "error"} /\ performed' = performed /\ recorded' = recorded
    BY <2>1, Responded
  <2> QED
    BY <1>1, <1>2, <1>5, <2>1, <2>2 DEF Consistent, Unanswered
<1>6. CASE RecordAuditEntry(r) /\ stage = "done"
  <2>1. req[r].at = "entry" /\ UNCHANGED <<performed, answer>>
    BY <1>6 DEF RecordAuditEntry
  <2> QED
    BY <1>1, <1>2, <1>6, <2>1 DEF Consistent, Unanswered
<1> QED
  BY <1>3, <1>4, <1>5, <1>6 DEF Moves

LEMMA ConsistentTool ==
  ASSUME TypeOK, NEW r \in Requests, Consistent(r),
         ToolReturns(r) \/ ToolActs(r) \/ \E stage : Identifies(r, stage)
  PROVE  Consistent(r)'
<1>1. CASE ToolReturns(r)
  <2>1. PICK s \in RequestRecords :
          /\ req' = [req EXCEPT ![r] = s]
          /\ s.at = "entry" /\ s.bearer = req[r].bearer /\ s.tool = req[r].tool
          /\ s.success = TRUE /\ s.key_id = req[r].key_id
    BY <1>1, Returned
  <2>2. req'[r] = s
    BY <2>1, OneRequest
  <2>3. req[r].at = "tool" /\ Respond(r, "ok")
    BY <1>1 DEF ToolReturns
  <2>4. answer'[r] = "ok" /\ performed' = performed /\ recorded' = recorded
    BY <2>3, Responded
  <2> QED
    BY <2>1, <2>2, <2>3, <2>4 DEF Consistent, Unanswered
<1>2. CASE ToolActs(r)
  BY <1>2 DEF ToolActs, Consistent, Unanswered
<1>3. CASE \E stage : Identifies(r, stage)
  <2>1. PICK stage : Identifies(r, stage)
    BY <1>3
  <2>2. req[r].at = "use"
    BY <2>1, IdentifiedIs
  <2>3. PICK s \in RequestRecords :
          /\ req' = [req EXCEPT ![r] = s]
          /\ s.at = stage /\ s.bearer = req[r].bearer /\ s.tool = req[r].tool
          /\ s.success = req[r].success /\ s.key_id = req[r].matched
    BY <2>1, IdentifiedIs
  <2>4. req'[r] = s
    BY <2>3, OneRequest
  <2>5. CASE (RejectCall(r) \/ ThrottleCall(r)) /\ stage = "entry"
    <3>1. Respond(r, "error") \/ Respond(r, "throttled")
      BY <2>5 DEF RejectCall, ThrottleCall
    <3>2. answer'[r] \in {"error", "throttled"} /\ performed' = performed /\ recorded' = recorded
      BY <3>1, Responded
    <3> QED
      BY <2>2, <2>3, <2>4, <2>5, <3>2 DEF Consistent, Unanswered
  <2>6. CASE CallTool(r) /\ stage = "tool"
    <3>1. <<req[r].matched, req[r].tool>> \in MayCall /\ UNCHANGED callVars
      BY <2>6 DEF CallTool
    <3> QED
      BY <2>2, <2>3, <2>4, <2>6, <3>1 DEF Consistent, Unanswered, callVars
  <2> QED
    BY <2>1, <2>5, <2>6 DEF Identifies
<1> QED
  BY <1>1, <1>2, <1>3

LEMMA ConsistentStep ==
  ASSUME TypeOK, AllConsistent, [Next]_vars
  PROVE  AllConsistent'
<1> SUFFICES ASSUME NEW q \in Requests PROVE Consistent(q)'
  BY DEF AllConsistent
<1>1. Consistent(q)
  BY DEF AllConsistent
<1>2. CASE UNCHANGED <<req, callVars>>
  BY <1>1, <1>2 DEF Consistent, callVars
<1>3. CASE RequestStep(q)
  BY <1>1, <1>3, ConsistentBefore, ConsistentMoves, ConsistentTool
     DEF RequestStep, Moves, Identifies
<1>4. ASSUME NEW r \in Requests, RequestStep(r), r # q
      PROVE  Consistent(q)'
  <2>1. req'[q] = req[q]
    BY <1>4, OthersStay
  <2>2. answer'[q] = answer[q] /\ recorded'[q] = recorded[q] /\ (q \in performed' <=> q \in performed)
    BY <1>4, CallStep
  <2> QED
    BY <1>1, <2>1, <2>2 DEF Consistent
<1> QED
  BY <1>2, <1>3, <1>4, StepKinds

LEMMA PipelineConsistent == Spec => []AllConsistent
<1>1. TypeOK /\ AllConsistent /\ [Next]_vars => AllConsistent'
  BY ConsistentStep
<1> QED
  BY <1>1, ConsistentInit, PipelineTypes, PTL DEF Spec

\* A tool runs only for the holder of a key that may call it: whatever other
\* requests do while this one is suspended, the key of its entry is the one it
\* presented, and the scopes that were looked at are that key's.
THEOREM OnlyWithKeyTheorem == Spec => []OnlyWithKey
<1>1. AllConsistent => OnlyWithKey
  BY DEF AllConsistent, Consistent, OnlyWithKey
<1> QED
  BY <1>1, PipelineConsistent, PTL
-----------------------------------------------------------------------------
(***************************************************************************)
(* The search finds the key of a request in a list that changes under it.  *)
(***************************************************************************)
\* What the search owes the holder of a key that is still in order: it has
\* matched, or its place in the list is still ahead.
SearchOK(r) ==
  req[r].at \in {"hashing", "verified"} =>
    /\ req[r].since <= now
    /\ req[r].bearer # None => IsListed(req[r].bearer)
    /\ req[r].at = "hashing" => req[r].place \in 1..Len(keyList)
    /\ req[r].bearer # None /\ Usable(req[r].bearer, now) /\ req[r].matched # req[r].bearer =>
         /\ req[r].at = "hashing"
         /\ \A i \in 1..req[r].place - 1 : keyList[i] # req[r].bearer

AllSearchOK == \A r \in Requests : SearchOK(r)

LEMMA SearchInit == Init => AllSearchOK
  BY DEF Init, AllSearchOK, SearchOK, NotMade

\* Of the keys and the clock, what other steps cannot take back.
LEMMA KeysGrow ==
  ASSUME TypeOK, [Next]_vars
  PROVE  /\ now \in Nat /\ now' \in Nat /\ now <= now'
         /\ Len(keyList) \in Nat /\ Len(keyList') \in Nat /\ Len(keyList) <= Len(keyList')
         /\ \A i \in 1..Len(keyList) : keyList'[i] = keyList[i]
         /\ revoked \subseteq revoked'
<1>1. now \in Nat /\ keyList \in Seq(Keys) /\ Len(keyList) \in Nat
  BY DEF TypeOK, LimiterTypeOK
<1>2. CASE UNCHANGED <<now, keyVars>>
  BY <1>1, <1>2 DEF keyVars
<1>3. ASSUME NEW k \in Keys, IssueKey(k)
      PROVE  /\ UNCHANGED <<now, revoked>> /\ Len(keyList') = Len(keyList) + 1
             /\ \A i \in 1..Len(keyList) : keyList'[i] = keyList[i]
  BY <1>1, <1>3 DEF IssueKey
<1>4. ASSUME NEW k \in Keys, RevokeKey(k)
      PROVE  UNCHANGED <<now, keyList>> /\ revoked \subseteq revoked'
  BY <1>4 DEF RevokeKey
<1>5. CASE Tick /\ UNCHANGED <<keyVars, req, callVars>>
  BY <1>1, <1>5 DEF Tick, keyVars
<1>6. CASE UNCHANGED vars
  BY <1>2, <1>6 DEF vars
<1>7. ASSUME NEW r \in Requests, RequestStep(r)
      PROVE  UNCHANGED <<now, keyVars>>
  BY <1>7 DEF RequestStep, Refuse, Arrive, Hashed, Authenticate, FailAuthentication, ReadBody,
              RejectBody, HashFails, RejectCall, ThrottleCall, CallTool, ToolActs, ToolReturns, ToolThrows,
              RecordAuditEntry, keyVars
<1>8. CASE \E k \in Keys : IssueKey(k)
  <2>1. PICK k \in Keys : IssueKey(k)
    BY <1>8
  <2>2. /\ UNCHANGED <<now, revoked>> /\ Len(keyList') = Len(keyList) + 1
        /\ \A i \in 1..Len(keyList) : keyList'[i] = keyList[i]
    BY <1>3, <2>1
  <2> QED
    BY <1>1, <2>2
<1>9. CASE \E k \in Keys : RevokeKey(k)
  <2>1. PICK k \in Keys : RevokeKey(k)
    BY <1>9
  <2>2. UNCHANGED <<now, keyList>> /\ revoked \subseteq revoked'
    BY <1>4, <2>1
  <2> QED
    BY <1>1, <2>2
<1> QED
  BY <1>2, <1>5, <1>6, <1>7, <1>8, <1>9 DEF Next, RequestStep

\* A key that is in order was in order before.
LEMMA UsableBefore ==
  ASSUME TypeOK, [Next]_vars, NEW k, Usable(k, now)'
  PROVE  Usable(k, now)
<1>1. now \in Nat /\ now' \in Nat /\ now <= now' /\ revoked \subseteq revoked'
  BY KeysGrow
<1>2. k \in DOMAIN ExpiresAt => ExpiresAt[k] \in Nat
  OBVIOUS
<1> QED
  BY <1>1, <1>2 DEF Usable

LEMMA UsableAtStart ==
  ASSUME TypeOK, NEW k, NEW since \in Nat, since <= now, Usable(k, now)
  PROVE  Usable(k, since)
<1>1. now \in Nat
  BY DEF TypeOK, LimiterTypeOK
<1>2. k \in DOMAIN ExpiresAt => ExpiresAt[k] \in Nat
  OBVIOUS
<1> QED
  BY <1>1, <1>2 DEF Usable

\* A search that is not taken on stays in order while the list grows, keys are
\* revoked and time passes.
LEMMA SearchStays ==
  ASSUME TypeOK, [Next]_vars, NEW r \in Requests, SearchOK(r), req'[r] = req[r]
  PROVE  SearchOK(r)'
<1> SUFFICES ASSUME req[r].at \in {"hashing", "verified"}
             PROVE  /\ req[r].since <= now'
                    /\ req[r].bearer # None => IsListed(req[r].bearer)'
                    /\ req[r].at = "hashing" => req[r].place \in 1..Len(keyList')
                    /\ req[r].bearer # None /\ Usable(req[r].bearer, now)' /\ req[r].matched # req[r].bearer =>
                         /\ req[r].at = "hashing"
                         /\ \A i \in 1..req[r].place - 1 : keyList'[i] # req[r].bearer
  <2>1. \A k : IsListed(k)' <=> \E i \in 1..Len(keyList') : keyList'[i] = k
    BY DEF IsListed
  <2> QED
    BY <2>1 DEF SearchOK, IsListed, Usable
<1>1. /\ now \in Nat /\ now' \in Nat /\ now <= now'
      /\ Len(keyList) \in Nat /\ Len(keyList') \in Nat /\ Len(keyList) <= Len(keyList')
      /\ \A i \in 1..Len(keyList) : keyList'[i] = keyList[i]
  BY KeysGrow
<1>2. req[r].since \in Nat /\ req[r].place \in Nat
  BY UnderWay, RequestFields
<1>3. \A i \in 1..Len(keyList) : i \in 1..Len(keyList')
  BY <1>1
<1>4. req[r].since <= now'
  BY <1>1, <1>2 DEF SearchOK
<1>5. req[r].bearer # None => IsListed(req[r].bearer)'
  BY <1>1, <1>3 DEF SearchOK, IsListed
<1>6. req[r].at = "hashing" => req[r].place \in 1..Len(keyList)
  BY DEF SearchOK
<1>7. req[r].at = "hashing" => \A i \in 1..req[r].place - 1 : i \in 1..Len(keyList)
  BY <1>1, <1>2, <1>6
<1>8. ASSUME req[r].bearer # None, Usable(req[r].bearer, now)', req[r].matched # req[r].bearer
      PROVE  /\ req[r].at = "hashing"
             /\ \A i \in 1..req[r].place - 1 : keyList'[i] # req[r].bearer
  <2>1. Usable(req[r].bearer, now)
    BY <1>8, UsableBefore
  <2>2. /\ req[r].at = "hashing"
        /\ \A i \in 1..req[r].place - 1 : keyList[i] # req[r].bearer
    BY <1>8, <2>1 DEF SearchOK
  <2> QED
    BY <1>1, <1>7, <2>2
<1> QED
  BY <1>3, <1>4, <1>5, <1>6, <1>8
LEMMA SearchArrives ==
  ASSUME TypeOK, NEW r \in Requests, NEW a \in Addresses, NEW bearer \in Keys \cup {None},
         NEW tool \in Tools \cup {None}, Arrive(r, a, bearer, tool)
  PROVE  SearchOK(r)'
<1>1. PICK s \in RequestRecords : req' = [req EXCEPT ![r] = s] /\ Begun(s, bearer)
  BY Arrived
<1>2. req'[r] = s
  BY <1>1, OneRequest
<1>3. UNCHANGED <<now, keyList, revoked>> /\ (bearer = None \/ IsListed(bearer))
  BY DEF Arrive, keyVars
<1>4. now \in Nat /\ Len(keyList) \in Nat
  BY DEF TypeOK, LimiterTypeOK
<1>5. /\ s.bearer = bearer /\ s.since = now
      /\ \/ /\ s.at = "hashing" /\ s.place \in 1..Len(keyList)
            /\ \A i \in 1..s.place - 1 : ~Usable(keyList[i], now)
         \/ /\ s.at = "verified"
            /\ bearer = None \/ \A i \in 1..Len(keyList) : ~Usable(keyList[i], now)
  BY <1>1 DEF Begun
<1>6. ASSUME bearer # None, Usable(bearer, now)
      PROVE  s.at = "hashing" /\ \A i \in 1..s.place - 1 : keyList[i] # bearer
  BY <1>3, <1>5, <1>6 DEF IsListed
<1>7. (IsListed(bearer)' <=> IsListed(bearer)) /\ (Usable(bearer, now)' <=> Usable(bearer, now))
  BY <1>3 DEF IsListed, Usable
<1>8. now <= now'
  BY <1>3, <1>4
<1> QED
  BY <1>2, <1>3, <1>5, <1>6, <1>7, <1>8 DEF SearchOK

LEMMA SearchGoesOn ==
  ASSUME TypeOK, NEW r \in Requests, Consistent(r), SearchOK(r), Hashed(r)
  PROVE  SearchOK(r)'
<1> DEFINE p == req[r]
<1>1. PICK s \in RequestRecords :
        /\ req' = [req EXCEPT ![r] = s]
        /\ s.bearer = p.bearer /\ s.since = p.since /\ s.success = p.success
        /\ s.matched = IF keyList[p.place] = p.bearer THEN p.bearer ELSE p.matched
        /\ \/ /\ s.at = "hashing" /\ s.place \in p.place + 1..Len(keyList)
              /\ \A i \in p.place + 1..s.place - 1 : ~Usable(keyList[i], s.since)
           \/ /\ s.at = "verified"
              /\ \A i \in p.place + 1..Len(keyList) : ~Usable(keyList[i], s.since)
  BY HashedIs
<1>2. req'[r] = s
  BY <1>1, OneRequest
<1>3. UNCHANGED <<now, keyList, revoked>> /\ p.at = "hashing"
  BY DEF Hashed, keyVars
<1>4. now \in Nat /\ Len(keyList) \in Nat /\ p.since \in Nat /\ p.place \in Nat /\ s.place \in Nat
  BY <1>3, UnderWay, RequestFields DEF TypeOK, LimiterTypeOK
<1>5. /\ p.since <= now
      /\ p.bearer # None => IsListed(p.bearer)
      /\ p.place \in 1..Len(keyList)
      /\ p.bearer # None /\ Usable(p.bearer, now) /\ p.matched # p.bearer =>
           \A i \in 1..p.place - 1 : keyList[i] # p.bearer
  BY <1>3 DEF SearchOK
<1>6. s.at = "hashing" => s.place \in 1..Len(keyList)
  BY <1>1, <1>4
<1>7. ASSUME s.bearer # None, Usable(s.bearer, now), s.matched # s.bearer
      PROVE  s.at = "hashing" /\ \A i \in 1..s.place - 1 : keyList[i] # s.bearer
  <2>1. keyList[p.place] # s.bearer /\ p.matched # p.bearer
    BY <1>1, <1>7
  <2>2. \A i \in 1..p.place - 1 : keyList[i] # s.bearer
    BY <1>1, <1>5, <1>7, <2>1
  <2>3. Usable(s.bearer, s.since)
    BY <1>1, <1>4, <1>5, <1>7, UsableAtStart
  <2>4. \A i \in Nat : i \in 1..p.place - 1 \/ i = p.place \/ i > p.place \/ i < 1
    BY <1>4
  <2>5. CASE s.at = "verified"
    <3>1. \A i \in p.place + 1..Len(keyList) : keyList[i] # s.bearer
      BY <1>1, <2>3, <2>5
    <3>2. \A i \in 1..Len(keyList) : keyList[i] # s.bearer
      BY <1>4, <2>1, <2>2, <2>4, <3>1
    <3>3. \E i \in 1..Len(keyList) : keyList[i] = s.bearer
      BY <1>1, <1>5, <1>7 DEF IsListed
    <3> QED
      BY <3>2, <3>3
  <2>6. CASE s.at = "hashing"
    <3>1. \A i \in p.place + 1..s.place - 1 : keyList[i] # s.bearer
      BY <1>1, <2>3, <2>6
    <3>2. \A i \in 1..s.place - 1 : keyList[i] # s.bearer
      BY <1>4, <2>1, <2>2, <2>4, <3>1
    <3> QED
      BY <2>6, <3>2
  <2> QED
    BY <1>1, <2>5, <2>6
<1>8. /\ IsListed(s.bearer)' <=> IsListed(s.bearer)
      /\ Usable(s.bearer, now)' <=> Usable(s.bearer, now)
  BY <1>3 DEF IsListed, Usable
<1> QED
  BY <1>1, <1>2, <1>3, <1>5, <1>6, <1>7, <1>8 DEF SearchOK

\* Every other step of a request leaves it outside the search.
LEMMA SearchIsOver ==
  ASSUME TypeOK, NEW r \in Requests,
         \/ \E a \in Addresses : Refuse(r, a)
         \/ ToolReturns(r) \/ ToolActs(r)
         \/ \E stage : Moves(r, stage) \/ Identifies(r, stage)
  PROVE  req'[r].at \notin {"hashing", "verified"}
<1>1. CASE \E a \in Addresses : Refuse(r, a)
  BY <1>1, Refused, OneRequest
<1>2. CASE ToolReturns(r)
  BY <1>2, Returned, OneRequest
<1>3. CASE ToolActs(r)
  BY <1>3 DEF ToolActs
<1>4. CASE \E stage : Moves(r, stage)
  <2>1. PICK stage : Moves(r, stage)
    BY <1>4
  <2>2. stage \notin {"hashing", "verified"}
    BY <2>1 DEF Moves
  <2> QED
    BY <2>1, <2>2, Moved, OneRequest
<1>5. CASE \E stage : Identifies(r, stage)
  <2>1. PICK stage : Identifies(r, stage)
    BY <1>5
  <2>2. stage \notin {"hashing", "verified"}
    BY <2>1 DEF Identifies
  <2> QED
    BY <2>1, <2>2, IdentifiedIs, OneRequest
<1> QED
  BY <1>1, <1>2, <1>3, <1>4, <1>5

LEMMA SearchStep ==
  ASSUME TypeOK, AllConsistent, AllSearchOK, [Next]_vars
  PROVE  AllSearchOK'
<1> SUFFICES ASSUME NEW q \in Requests PROVE SearchOK(q)'
  BY DEF AllSearchOK
<1>1. SearchOK(q) /\ Consistent(q)
  BY DEF AllSearchOK, AllConsistent
<1>2. CASE req'[q] = req[q]
  BY <1>1, <1>2, SearchStays
<1>3. CASE RequestStep(q)
  <2>1. ASSUME NEW a \in Addresses, NEW bearer \in Keys \cup {None}, NEW tool \in Tools \cup {None},
               Arrive(q, a, bearer, tool)
        PROVE  SearchOK(q)'
    BY <2>1, SearchArrives
  <2>2. CASE Hashed(q)
    BY <1>1, <2>2, SearchGoesOn
  <2>3. CASE \/ \E a \in Addresses : Refuse(q, a)
             \/ ToolReturns(q) \/ ToolActs(q)
             \/ \E stage : Moves(q, stage) \/ Identifies(q, stage)
    <3>1. req'[q].at \notin {"hashing", "verified"}
      BY <2>3, SearchIsOver
    <3> QED
      BY <3>1 DEF SearchOK
  <2> QED
    BY <1>3, <2>1, <2>2, <2>3 DEF RequestStep, Moves, Identifies
<1>4. ASSUME NEW r \in Requests, RequestStep(r), r # q
      PROVE  req'[q] = req[q]
  BY <1>4, OthersStay
<1> QED
  BY <1>2, <1>3, <1>4, StepKinds

LEMMA PipelineSearch == Spec => []AllSearchOK
<1>1. TypeOK /\ AllConsistent /\ AllSearchOK /\ [Next]_vars => AllSearchOK'
  BY SearchStep
<1> QED
  BY <1>1, SearchInit, PipelineTypes, PipelineConsistent, PTL DEF Spec

\* Only authenticate() takes a request from its search.
LEMMA LeavesSearch ==
  ASSUME TypeOK, [Next]_vars, NEW r \in Requests,
         req[r].at = "verified", req'[r].at # "verified"
  PROVE  Authenticate(r) \/ FailAuthentication(r)
<1>1. req' # req
  OBVIOUS
<1>2. ASSUME NEW q \in Requests, RequestStep(q), q # r
      PROVE  FALSE
  BY <1>2, OthersStay
<1>3. RequestStep(r)
  BY <1>1, <1>2, StepKinds
<1> QED
  BY <1>3 DEF RequestStep, Refuse, Arrive, NotMade, Hashed, ReadBody, RejectBody, HashFails, RejectCall,
              ThrottleCall, CallTool, ToolActs, ToolReturns, ToolThrows, RecordAuditEntry

\* authenticate() lets in no key that was revoked or has expired during the
\* hashes.
THEOREM RevokedIsNotLetInTheorem == Spec => RevokedIsNotLetIn
<1> DEFINE Step == \A r \in Requests : req[r].at = "verified" /\ req'[r].at = "body" =>
                     Usable(req[r].bearer, now)
<1>1. ASSUME TypeOK, AllConsistent, [Next]_vars, NEW r \in Requests,
             req[r].at = "verified", req'[r].at = "body"
      PROVE  Usable(req[r].bearer, now)
  <2>1. Authenticate(r) \/ FailAuthentication(r)
    BY <1>1, LeavesSearch
  <2>2. ~FailAuthentication(r)
    <3>1. FailAuthentication(r) => Moves(r, "entry")
      BY DEF Moves
    <3>2. Moves(r, "entry") => req'[r].at = "entry"
      BY <1>1, Moved, OneRequest
    <3> QED
      BY <1>1, <3>1, <3>2
  <2>3. req[r].matched # None /\ Usable(req[r].matched, now)
    BY <2>1, <2>2 DEF Authenticate, IsKeyStillActive
  <2>4. req[r].matched = req[r].bearer
    BY <1>1, <2>3 DEF AllConsistent, Consistent
  <2> QED
    BY <2>3, <2>4
<1>2. TypeOK /\ AllConsistent /\ [Next]_vars => [Step]_vars
  BY <1>1
<1> QED
  BY <1>2, PipelineTypes, PipelineConsistent, PTL DEF Spec, RevokedIsNotLetIn

\* verifyBearer() over a list that grows while it waits never misses a key that
\* is in order, so its holder is never counted as a failed attempt.
THEOREM ValidIsLetInTheorem == Spec => ValidIsLetIn
<1> DEFINE Step == \A r \in Requests : req[r].at = "verified" /\ req'[r].at = "entry" =>
                     ~(req[r].bearer # None /\ Usable(req[r].bearer, now))
<1>1. ASSUME TypeOK, AllSearchOK, [Next]_vars, NEW r \in Requests,
             req[r].at = "verified", req'[r].at = "entry",
             req[r].bearer # None, Usable(req[r].bearer, now)
      PROVE  FALSE
  <2>1. Authenticate(r) \/ FailAuthentication(r)
    BY <1>1, LeavesSearch
  <2>2. ~Authenticate(r)
    <3>1. Authenticate(r) => Moves(r, "body")
      BY DEF Moves
    <3>2. Moves(r, "body") => req'[r].at = "body"
      BY <1>1, Moved, OneRequest
    <3> QED
      BY <1>1, <3>1, <3>2
  <2>3. ~(req[r].matched # None /\ IsKeyStillActive(req[r].matched))
    BY <2>1, <2>2 DEF FailAuthentication
  <2>4. SearchOK(r)
    BY <1>1 DEF AllSearchOK
  <2>5. req[r].matched = req[r].bearer /\ IsListed(req[r].bearer)
    BY <1>1, <2>4 DEF SearchOK
  <2> QED
    BY <1>1, <2>3, <2>5 DEF IsKeyStillActive
<1>2. TypeOK /\ AllSearchOK /\ [Next]_vars => [Step]_vars
  BY <1>1
<1> QED
  BY <1>2, PipelineTypes, PipelineSearch, PTL DEF Spec, ValidIsLetIn
-----------------------------------------------------------------------------
(***************************************************************************)
(* The pipeline keeps what AuditedCall promises: every way out of the      *)
(* handler answers once, and the entry says what was answered.             *)
(***************************************************************************)
\* Every answer of the handler is one that the promise allows.
LEMMA AnswerAllowed ==
  ASSUME TypeOK, NEW r \in Requests, Consistent(r),
         NEW a \in {"ok", "error", "hidden", "throttled"}, Respond(r, a),
         req[r].at \in Unanswered,
         a = "ok" => r \in performed,
         a \in {"hidden", "throttled"} => req[r].at # "tool"
  PROVE  Call!Next
<1>1. answer[r] = "none"
  BY DEF Consistent
<1>2. a \in {"hidden", "throttled"} => r \notin performed
  BY DEF Consistent, Unanswered
<1>3. Call!Answer(r, a)
  BY <1>1, <1>2 DEF Call!Answer, Respond
<1>4. a \in Call!Answers
  BY DEF Call!Answers
<1> QED
  BY <1>3, <1>4 DEF Call!Next

LEMMA CallNext ==
  ASSUME TypeOK, NEW r \in Requests, Consistent(r), RequestStep(r)
  PROVE  Call!Next \/ UNCHANGED callVars
<1>1. ASSUME NEW a \in Addresses, Refuse(r, a)
      PROVE  Call!Next
  <2>1. /\ req[r].at = "none"
        /\ Respond(r, "hidden") \/ Respond(r, "error")
    BY <1>1 DEF Refuse, NotMade
  <2> QED
    BY <2>1, AnswerAllowed DEF Unanswered
<1>2. ASSUME NEW a \in Addresses, NEW bearer, NEW tool, Arrive(r, a, bearer, tool)
      PROVE  UNCHANGED callVars
  BY <1>2 DEF Arrive
<1>3. CASE Hashed(r) \/ Authenticate(r) \/ ReadBody(r) \/ CallTool(r)
  BY <1>3 DEF Hashed, Authenticate, ReadBody, CallTool
<1>4. CASE FailAuthentication(r)
  <2>1. req[r].at = "verified" /\ Respond(r, "hidden")
    BY <1>4 DEF FailAuthentication
  <2> QED
    BY <2>1, AnswerAllowed DEF Unanswered
<1>5. CASE RejectBody(r) \/ HashFails(r) \/ RejectCall(r) \/ ToolThrows(r)
  <2>1. req[r].at \in {"hashing", "body", "use", "tool"} /\ Respond(r, "error")
    BY <1>5 DEF RejectBody, HashFails, RejectCall, ToolThrows
  <2> QED
    BY <2>1, AnswerAllowed DEF Unanswered
<1>6. CASE ThrottleCall(r)
  <2>1. req[r].at = "use" /\ Respond(r, "throttled")
    BY <1>6 DEF ThrottleCall
  <2> QED
    BY <2>1, AnswerAllowed DEF Unanswered
<1>7. CASE ToolReturns(r)
  <2>1. req[r].at = "tool" /\ Respond(r, "ok") /\ r \in performed
    BY <1>7 DEF ToolReturns
  <2> QED
    BY <2>1, AnswerAllowed DEF Unanswered
<1>8. CASE ToolActs(r)
  <2>1. answer[r] = "none"
    BY <1>8 DEF ToolActs, Consistent, Unanswered
  <2>2. Call!Perform(r)
    BY <1>8, <2>1 DEF Call!Perform, ToolActs
  <2> QED
    BY <2>2 DEF Call!Next
<1>9. CASE RecordAuditEntry(r)
  <2>1. req[r] \in RequestRecords
    BY <1>9, UnderWay DEF RecordAuditEntry
  <2>2. req[r].success \in BOOLEAN
    BY <2>1, RequestFields
  <2>3. answer[r] # "none" /\ recorded[r] = "none" /\ (req[r].success = TRUE <=> answer[r] = "ok")
    BY <1>9 DEF RecordAuditEntry, Consistent, Unanswered
  <2>4. CASE UNCHANGED recorded
    BY <1>9, <2>4 DEF RecordAuditEntry, callVars
  <2>5. CASE recorded' = [recorded EXCEPT ![r] = IF req[r].success THEN "success" ELSE "failure"]
    <3>1. (IF req[r].success THEN "success" ELSE "failure")
            = (IF answer[r] = "ok" THEN "success" ELSE "failure")
      BY <2>2, <2>3
    <3>2. Call!Record(r)
      BY <1>9, <2>3, <2>5, <3>1 DEF Call!Record, RecordAuditEntry
    <3> QED
      BY <3>2 DEF Call!Next
  <2> QED
    BY <1>9, <2>4, <2>5 DEF RecordAuditEntry
<1> QED
  BY <1>1, <1>2, <1>3, <1>4, <1>5, <1>6, <1>7, <1>8, <1>9 DEF RequestStep

\* Every behaviour of the pipeline is one that AuditedCall allows.
THEOREM PipelineImplementsAuditedCall == Spec => AuditedCallSpec
<1>1. Init => Call!Init
  BY DEF Init, Call!Init
<1>2. TypeOK /\ AllConsistent /\ [Next]_vars => [Call!Next]_Call!vars
  <2> SUFFICES ASSUME TypeOK, AllConsistent, [Next]_vars
               PROVE  Call!Next \/ UNCHANGED callVars
    BY DEF Call!vars, callVars
  <2>1. ASSUME NEW r \in Requests, RequestStep(r)
        PROVE  Call!Next \/ UNCHANGED callVars
    BY <2>1, CallNext DEF AllConsistent
  <2> QED
    BY <2>1, StepKinds
<1> QED
  BY <1>1, <1>2, PipelineTypes, PipelineConsistent, PTL DEF Spec, AuditedCallSpec, Call!Spec
=============================================================================
