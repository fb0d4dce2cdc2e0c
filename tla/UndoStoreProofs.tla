--------------------------- MODULE UndoStoreProofs ---------------------------
(***************************************************************************)
(* Proofs about the undo store, for any number of keys and any cap.        *)
(***************************************************************************)
EXTENDS UndoStore, FiniteSetTheorems, WellFoundedInduction, TLAPS

\* A non-empty set of naturals has a least element.
LEMMA LeastElement ==
  ASSUME NEW S \in SUBSET Nat, S # {}
  PROVE  \E m \in S : \A x \in S : m <= x
<1>1. PICK m \in S : \A y \in S : <<y, m>> \notin OpToRel(<, Nat)
  BY NatLessThanWellFounded, WFMin
<1>2. ASSUME NEW y \in S
      PROVE  m <= y
  <2>1. m \in Nat /\ y \in Nat
    OBVIOUS
  <2>2. ~(y < m)
    BY <1>1, <2>1 DEF OpToRel
  <2>3. QED  BY <2>1, <2>2
<1>3. QED  BY <1>2

\* What the eviction loop of capture() leaves of an array that has just been
\* pushed to: at most MaxPerKey tokens, and if the array was at the cap exactly
\* the oldest one is gone.
LEMMA OverCapLeaves ==
  ASSUME NEW L \in SUBSET Nat, IsFiniteSet(L), Cardinality(L) <= MaxPerKey + 1
  PROVE  /\ Cardinality(L \ OverCap(L)) <= MaxPerKey
         /\ OverCap(L) \subseteq L
         /\ \A t \in OverCap(L) : /\ Cardinality(L) = MaxPerKey + 1
                                  /\ \A x \in L : t <= x
<1>0. MaxPerKey \in Nat \ {0} /\ Cardinality(L) \in Nat
  BY BoundsAssumption, FS_CardinalityType
<1> DEFINE newer(t) == {x \in L : x > t}
<1>1. ASSUME NEW t \in L
      PROVE  /\ IsFiniteSet(newer(t)) /\ Cardinality(newer(t)) \in Nat
             /\ Cardinality(newer(t)) <= Cardinality(L) - 1
             /\ Cardinality(newer(t)) = Cardinality(L) - 1 => newer(t) = L \ {t}
  <2>1. IsFiniteSet(L \ {t}) /\ Cardinality(L \ {t}) = Cardinality(L) - 1
    BY FS_RemoveElement
  <2>2. newer(t) \in SUBSET (L \ {t})
    OBVIOUS
  <2>3. QED  BY <2>1, <2>2, FS_Subset, FS_CardinalityType
<1>2. OverCap(L) = {t \in L : Cardinality(newer(t)) >= MaxPerKey}
  BY DEF OverCap
<1>3. ASSUME NEW t \in OverCap(L)
      PROVE  /\ Cardinality(L) = MaxPerKey + 1
             /\ \A x \in L : t <= x
  <2>1. t \in L /\ Cardinality(newer(t)) >= MaxPerKey
    BY <1>2
  <2>2. /\ Cardinality(newer(t)) \in Nat
        /\ Cardinality(newer(t)) <= Cardinality(L) - 1
        /\ Cardinality(newer(t)) = Cardinality(L) - 1 => newer(t) = L \ {t}
    BY <1>1, <2>1
  <2> HIDE DEF newer
  <2>3. Cardinality(L) = MaxPerKey + 1 /\ newer(t) = L \ {t}
    BY <1>0, <2>1, <2>2
  <2> USE DEF newer
  <2>4. \A x \in L : x = t \/ x > t
    BY <2>3
  <2>5. QED  BY <2>1, <2>3, <2>4
<1>4. Cardinality(L \ OverCap(L)) <= MaxPerKey
  <2>1. CASE Cardinality(L) <= MaxPerKey
    <3>1. L \ OverCap(L) \in SUBSET L
      OBVIOUS
    <3>2. QED  BY <1>0, <2>1, <3>1, FS_Subset, FS_CardinalityType
  <2>2. CASE Cardinality(L) = MaxPerKey + 1
    <3>1. L # {}
      BY <1>0, <2>2, FS_EmptySet
    <3>2. PICK m \in L : \A x \in L : m <= x
      BY <3>1, LeastElement
    <3>3. newer(m) = L \ {m}
      <4>1. \A x \in L : x # m <=> x > m
        BY <3>2
      <4>2. QED  BY <4>1
    <3>4. IsFiniteSet(L \ {m}) /\ Cardinality(L \ {m}) = Cardinality(L) - 1
      BY FS_RemoveElement
    <3>5. Cardinality(L \ {m}) = MaxPerKey
      <4>1. \A c, n \in Nat : n = c + 1 => n - 1 = c
        OBVIOUS
      <4>2. QED  BY <1>0, <2>2, <3>4, <4>1
    <3>6. m \in OverCap(L)
      <4>1. MaxPerKey >= MaxPerKey
        BY <1>0
      <4>2. QED  BY <1>2, <3>3, <3>5, <4>1
    <3>7. L \ OverCap(L) \in SUBSET (L \ {m})
      BY <3>6
    <3>8. QED  BY <3>4, <3>5, <3>7, FS_Subset
  <2>3. QED  BY <1>0, <2>1, <2>2
<1>5. QED  BY <1>2, <1>3, <1>4

USE ScopesAssumption, BoundsAssumption, NoneAssumption

LEMMA TokensFinite == IsFiniteSet(Tokens)
<1>1. 1 \in Int /\ MaxTokens \in Int
  OBVIOUS
<1>2. QED  BY <1>1, FS_Interval DEF Tokens

\* Snapshots leave the store by way of Drop only, apart from eviction.
LEMMA DropKeepsStore ==
  ASSUME StoreInv, NEW S \in SUBSET Tokens, S \subseteq {t \in Tokens : Held(t)}, Drop(S)
  PROVE  /\ snapshots' \in [Tokens -> Snapshot \cup {None}]
         /\ tokensByKey' \in [Keys -> SUBSET Tokens]
         /\ IndexAgrees' /\ Capped'
         /\ \A t \in Tokens : Held(t)' <=> Held(t) /\ t \notin S
<1>1. snapshots' \in [Tokens -> Snapshot \cup {None}]
  BY DEF Drop, StoreInv, TypeOK
<1>2. tokensByKey' \in [Keys -> SUBSET Tokens]
  BY DEF Drop, StoreInv, TypeOK
<1>3. \A t \in Tokens : snapshots'[t] = IF t \in S THEN None ELSE snapshots[t]
  BY DEF Drop
<1>4. \A t \in Tokens : Held(t)' <=> Held(t) /\ t \notin S
  BY <1>3 DEF Held
<1>5. ASSUME NEW k \in Keys
      PROVE  /\ tokensByKey'[k] = {t \in Tokens : Held(t)' /\ snapshots'[t].key_id = k}
             /\ tokensByKey'[k] \in SUBSET tokensByKey[k]
  <2>1. tokensByKey'[k] = tokensByKey[k] \ {t \in S : snapshots[t].key_id = k}
    BY DEF Drop
  <2>2. tokensByKey[k] = {t \in Tokens : Held(t) /\ snapshots[t].key_id = k}
    BY DEF StoreInv, IndexAgrees
  <2>3. QED  BY <1>3, <1>4, <2>1, <2>2
<1>6. IndexAgrees'
  BY <1>5 DEF IndexAgrees
<1>7. Capped'
  <2>1. ASSUME NEW k \in Keys
        PROVE  Cardinality(tokensByKey'[k]) <= MaxPerKey
    <3>1. IsFiniteSet(tokensByKey[k]) /\ Cardinality(tokensByKey[k]) <= MaxPerKey
      <4>1. tokensByKey[k] \in SUBSET Tokens
        BY DEF StoreInv, TypeOK
      <4>2. IsFiniteSet(tokensByKey[k])
        BY <4>1, TokensFinite, FS_Subset
      <4>3. QED  BY <4>2 DEF StoreInv, Capped
    <3>2. /\ Cardinality(tokensByKey'[k]) <= Cardinality(tokensByKey[k])
          /\ IsFiniteSet(tokensByKey'[k])
      BY <1>5, <3>1, FS_Subset
    <3>3. Cardinality(tokensByKey'[k]) \in Nat /\ Cardinality(tokensByKey[k]) \in Nat
      BY <3>1, <3>2, FS_CardinalityType
    <3>4. QED  BY <3>1, <3>2, <3>3
  <2>2. QED  BY <2>1 DEF Capped
<1>8. QED  BY <1>1, <1>2, <1>4, <1>6, <1>7

\* What capture() does to the array of the capturing key.
LEMMA CaptureShape ==
  ASSUME StoreInv, NEW k \in Keys, NEW scope \in Scopes \ {ReadScope}, NEW client \in BOOLEAN,
         Capture(k, scope, client)
  PROVE  LET list == tokensByKey[k] \cup {captured + 1}
         IN  /\ captured + 1 \in Tokens /\ captured + 1 \notin tokensByKey[k]
             /\ IsFiniteSet(tokensByKey[k])
             /\ list \in SUBSET Tokens /\ IsFiniteSet(list)
             /\ Cardinality(list) = Cardinality(tokensByKey[k]) + 1
             /\ Cardinality(tokensByKey[k]) \in Nat
             /\ Cardinality(list \ OverCap(list)) <= MaxPerKey
             /\ OverCap(list) \subseteq tokensByKey[k]
             /\ \A t \in OverCap(list) : /\ Cardinality(tokensByKey[k]) = MaxPerKey
                                         /\ \A x \in list : t <= x
<1> DEFINE list == tokensByKey[k] \cup {captured + 1}
<1>1. captured + 1 \in Tokens
  BY DEF Capture
<1>2. tokensByKey[k] \in SUBSET (1..MaxTokens) /\ captured \in Nat
  BY DEF StoreInv, TypeOK, Tokens
<1>3. /\ captured + 1 \notin tokensByKey[k]
      /\ \A x \in tokensByKey[k] : x < captured + 1
  <2>1. \A x \in tokensByKey[k] : Held(x) /\ x \in Tokens
    BY DEF StoreInv, IndexAgrees
  <2>2. \A x \in tokensByKey[k] : ~(x > captured)
    BY <2>1 DEF StoreInv, Fresh
  <2>3. QED  BY <1>2, <2>2
<1>4. IsFiniteSet(tokensByKey[k])
  <2>1. tokensByKey[k] \in SUBSET Tokens
    BY <1>2 DEF Tokens
  <2>2. QED  BY <2>1, TokensFinite, FS_Subset
<1>5. /\ IsFiniteSet(list) /\ Cardinality(list) = Cardinality(tokensByKey[k]) + 1
      /\ Cardinality(tokensByKey[k]) \in Nat
  BY <1>3, <1>4, FS_AddElement, FS_CardinalityType
<1>6. list \in SUBSET Tokens /\ list \in SUBSET Nat
  BY <1>1, <1>2 DEF Tokens
<1>7. Cardinality(tokensByKey[k]) <= MaxPerKey
  BY DEF StoreInv, Capped
<1> HIDE DEF list
<1>8. /\ Cardinality(list \ OverCap(list)) <= MaxPerKey
      /\ OverCap(list) \subseteq list
      /\ \A t \in OverCap(list) : /\ Cardinality(list) = MaxPerKey + 1
                                  /\ \A x \in list : t <= x
  BY <1>5, <1>6, <1>7, OverCapLeaves
<1>9. captured + 1 \notin OverCap(list)
  <2>1. SUFFICES ASSUME captured + 1 \in OverCap(list) PROVE FALSE
    OBVIOUS
  <2>2. Cardinality(tokensByKey[k]) = MaxPerKey /\ \A x \in list : captured + 1 <= x
    BY <1>5, <1>8, <2>1
  <2>3. PICK x \in tokensByKey[k] : TRUE
    BY <1>4, <2>2, FS_EmptySet
  <2>4. captured + 1 <= x /\ x < captured + 1 /\ x \in Nat
    BY <1>2, <1>3, <2>2, <2>3 DEF list
  <2>5. QED  BY <1>2, <2>4
<1>10. OverCap(list) \subseteq tokensByKey[k]
  BY <1>8, <1>9 DEF list
<1>11. \A t \in OverCap(list) : /\ Cardinality(tokensByKey[k]) = MaxPerKey
                                /\ \A x \in list : t <= x
  BY <1>5, <1>8
<1>12. QED  BY <1>1, <1>3, <1>4, <1>5, <1>6, <1>8, <1>10, <1>11 DEF list

LEMMA CaptureKeepsInv ==
  ASSUME StoreInv, NEW k \in Keys, NEW scope \in Scopes \ {ReadScope}, NEW client \in BOOLEAN,
         Capture(k, scope, client)
  PROVE  StoreInv'
<1> DEFINE token == captured + 1
           list == tokensByKey[k] \cup {token}
           evicted == OverCap(list)
           new == [key_id |-> k, scope_required |-> scope, client_required |-> client,
                   expires_at |-> now + TTL]
<1>1. /\ token \in Tokens /\ token \notin tokensByKey[k]
      /\ list \in SUBSET Tokens
      /\ Cardinality(list \ evicted) <= MaxPerKey
      /\ evicted \subseteq tokensByKey[k]
  BY CaptureShape
<1>2. /\ captured' = token
      /\ snapshots' = [t \in Tokens |-> IF t \in evicted THEN None
                                        ELSE IF t = token THEN new ELSE snapshots[t]]
      /\ tokensByKey' = [tokensByKey EXCEPT ![k] = list \ evicted]
      /\ UNCHANGED <<now, gmConnected, reverting, spent>>
  BY DEF Capture
<1> HIDE DEF evicted
<1>3. new \in Snapshot
  BY DEF Snapshot, StoreInv, TypeOK
<1>4. ~Held(token) /\ spent[token] = 0 /\ captured \in Nat
  <2>1. captured \in Nat /\ token > captured
    BY DEF StoreInv, TypeOK
  <2>2. QED  BY <1>1, <2>1 DEF StoreInv, Fresh
<1> HIDE DEF new
<1>5. TypeOK'
  <2>1. snapshots' \in [Tokens -> Snapshot \cup {None}]
    BY <1>2, <1>3 DEF StoreInv, TypeOK
  <2>2. tokensByKey' \in [Keys -> SUBSET Tokens]
    BY <1>1, <1>2 DEF StoreInv, TypeOK
  <2>3. captured' \in 0..MaxTokens
    BY <1>1, <1>2 DEF Tokens
  <2>4. QED  BY <1>2, <2>1, <2>2, <2>3 DEF StoreInv, TypeOK
<1>6. \A t \in Tokens : Held(t)' <=> t \notin evicted /\ (t = token \/ Held(t))
  BY <1>2, <1>3 DEF Held
<1>7. IndexAgrees'
  <2>0. \A t \in Tokens \ evicted : snapshots'[t].key_id = IF t = token THEN k
                                                           ELSE snapshots[t].key_id
    BY <1>2 DEF new
  <2>1. ASSUME NEW q \in Keys
        PROVE  tokensByKey'[q] = {t \in Tokens : Held(t)' /\ snapshots'[t].key_id = q}
    <3>1. tokensByKey[q] = {t \in Tokens : Held(t) /\ snapshots[t].key_id = q}
      BY DEF StoreInv, IndexAgrees
    <3>2. evicted \subseteq {t \in Tokens : Held(t) /\ snapshots[t].key_id = k}
      BY <1>1 DEF StoreInv, IndexAgrees
    <3>3. CASE q = k
      <4>1. tokensByKey'[q] = list \ evicted
        BY <1>2, <3>3 DEF StoreInv, TypeOK
      <4>2. QED  BY <1>1, <1>4, <1>6, <2>0, <3>1, <3>2, <3>3, <4>1
    <3>4. CASE q # k
      <4>1. tokensByKey'[q] = tokensByKey[q]
        BY <1>2, <3>4 DEF StoreInv, TypeOK
      <4>2. QED  BY <1>1, <1>4, <1>6, <2>0, <3>1, <3>2, <3>4, <4>1
    <3>5. QED  BY <3>3, <3>4
  <2>2. QED  BY <2>1 DEF IndexAgrees
<1>8. Capped'
  BY <1>1, <1>2 DEF StoreInv, TypeOK, Capped
<1>9. OneShot'
  <2>1. \A t \in Tokens : spent[t] <= 1 /\ (spent[t] = 1 => ~Held(t)')
    BY <1>4, <1>6 DEF StoreInv, OneShot
  <2>2. QED  BY <1>2, <2>1 DEF StoreInv, OneShot
<1>10. Fresh'
  <2>1. \A t \in Tokens : t > token => t > captured /\ t # token
    BY <1>4 DEF Tokens
  <2>2. QED  BY <1>2, <1>6, <2>1 DEF StoreInv, Fresh
<1>11. RevertsSpent'
  BY <1>2 DEF StoreInv, RevertsSpent
<1>12. QED
  BY <1>5, <1>7, <1>8, <1>9, <1>10, <1>11 DEF StoreInv

\* Sweeping, on its own or on behalf of a refused request.
LEMMA SweepKeepsInv ==
  ASSUME StoreInv, Drop(Expired), UNCHANGED <<now, gmConnected, captured, reverting, spent>>
  PROVE  StoreInv'
<1>1. Expired \in SUBSET Tokens /\ Expired \subseteq {t \in Tokens : Held(t)}
  BY DEF Expired
<1>2. /\ snapshots' \in [Tokens -> Snapshot \cup {None}]
      /\ tokensByKey' \in [Keys -> SUBSET Tokens]
      /\ IndexAgrees' /\ Capped'
      /\ \A t \in Tokens : Held(t)' => Held(t)
  BY <1>1, DropKeepsStore
<1>3. TypeOK'
  BY <1>2 DEF StoreInv, TypeOK
<1>4. OneShot' /\ Fresh'
  BY <1>2 DEF StoreInv, OneShot, Fresh
<1>5. RevertsSpent'
  BY DEF StoreInv, RevertsSpent
<1>6. QED  BY <1>2, <1>3, <1>4, <1>5 DEF StoreInv

LEMMA UndoKeepsInv ==
  ASSUME StoreInv, NEW k \in Keys, NEW t \in Tokens, Undo(k, t)
  PROVE  StoreInv'
<1> DEFINE r == [token |-> t, snapshot |-> snapshots[t], by |-> k]
           S == Expired \cup {t}
<1>1. /\ Held(t) /\ Grants(k, snapshots[t].scope_required)
      /\ Drop(S)
      /\ reverting' = reverting \cup {r}
      /\ spent' = [spent EXCEPT ![t] = @ + 1]
      /\ UNCHANGED <<now, gmConnected, captured>>
  BY DEF Undo
<1>2. S \in SUBSET Tokens /\ S \subseteq {x \in Tokens : Held(x)}
  BY <1>1 DEF Expired
<1> HIDE DEF S
<1>3. /\ snapshots' \in [Tokens -> Snapshot \cup {None}]
      /\ tokensByKey' \in [Keys -> SUBSET Tokens]
      /\ IndexAgrees' /\ Capped'
      /\ \A x \in Tokens : Held(x)' <=> Held(x) /\ x \notin S
  BY <1>1, <1>2, DropKeepsStore
<1>4. spent[t] = 0 /\ spent'[t] = 1 /\ \A x \in Tokens : x # t => spent'[x] = spent[x]
  <2>1. spent \in [Tokens -> Nat] /\ spent[t] <= 1 /\ spent[t] # 1
    BY <1>1 DEF StoreInv, TypeOK, OneShot
  <2>2. QED  BY <1>1, <2>1
<1>5. r \in [token : Tokens, snapshot : Snapshot, by : Keys]
  BY <1>1 DEF StoreInv, TypeOK, Held
<1>6. \A q \in reverting : q.token \in Tokens /\ q.token # t /\ spent[q.token] = 1
  BY <1>4 DEF StoreInv, TypeOK, RevertsSpent
<1>7. TypeOK'
  <2>1. spent' \in [Tokens -> Nat]
    BY <1>1 DEF StoreInv, TypeOK
  <2>2. reverting' \subseteq [token : Tokens, snapshot : Snapshot, by : Keys]
    BY <1>1, <1>5 DEF StoreInv, TypeOK
  <2>3. QED  BY <1>1, <1>3, <2>1, <2>2 DEF StoreInv, TypeOK
<1>8. OneShot'
  <2>1. \A x \in Tokens : spent'[x] <= 1 /\ (spent'[x] = 1 => ~Held(x)')
    <3>1. ~Held(t)'
      BY <1>3 DEF S
    <3>2. QED  BY <1>3, <1>4, <3>1 DEF StoreInv, OneShot
  <2>2. \A p, q \in reverting' : p.token = q.token => p = q
    BY <1>1, <1>6 DEF StoreInv, OneShot
  <2>3. QED  BY <2>1, <2>2 DEF OneShot
<1>9. Fresh'
  BY <1>1, <1>3, <1>4 DEF StoreInv, Fresh
<1>10. RevertsSpent'
  BY <1>1, <1>4, <1>6 DEF RevertsSpent
<1>11. QED  BY <1>3, <1>7, <1>8, <1>9, <1>10 DEF StoreInv

\* Steps that do not touch the store.
LEMMA OtherStepsKeepInv ==
  ASSUME StoreInv,
         UNCHANGED <<snapshots, tokensByKey, captured, spent>>,
         reverting' \subseteq reverting, now' \in 0..MaxTime, gmConnected' \in BOOLEAN
  PROVE  StoreInv'
<1>1. TypeOK'
  BY DEF StoreInv, TypeOK
<1>2. IndexAgrees' /\ Capped' /\ OneShot' /\ Fresh'
  BY DEF StoreInv, IndexAgrees, Capped, OneShot, Fresh, Held
<1>3. RevertsSpent'
  BY DEF StoreInv, RevertsSpent
<1>4. QED  BY <1>1, <1>2, <1>3 DEF StoreInv

LEMMA StoreStep == StoreInv /\ [Next]_vars => StoreInv'
<1> SUFFICES ASSUME StoreInv, [Next]_vars
             PROVE  StoreInv'
  OBVIOUS
<1>1. ASSUME NEW k \in Keys, NEW scope \in Scopes \ {ReadScope}, NEW client \in BOOLEAN,
             Capture(k, scope, client)
      PROVE  StoreInv'
  BY <1>1, CaptureKeepsInv
<1>2. CASE Sweep
  BY <1>2, SweepKeepsInv DEF Sweep
<1>3. ASSUME NEW k \in Keys, NEW t \in Tokens, UndoRefused(k, t)
      PROVE  StoreInv'
  BY <1>3, SweepKeepsInv DEF UndoRefused
<1>4. ASSUME NEW k \in Keys, NEW t \in Tokens, Undo(k, t)
      PROVE  StoreInv'
  BY <1>4, UndoKeepsInv
<1>5. ASSUME NEW r \in reverting, UndoEnds(r)
      PROVE  StoreInv'
  BY <1>5, OtherStepsKeepInv DEF UndoEnds, StoreInv, TypeOK
<1>6. CASE Tick
  <2>1. now' \in 0..MaxTime
    BY <1>6 DEF Tick, StoreInv, TypeOK
  <2>2. QED  BY <1>6, <2>1, OtherStepsKeepInv DEF Tick, StoreInv, TypeOK
<1>7. CASE GmComesOrGoes
  BY <1>7, OtherStepsKeepInv DEF GmComesOrGoes, StoreInv, TypeOK
<1>8. CASE UNCHANGED vars
  BY <1>8, OtherStepsKeepInv DEF vars, StoreInv, TypeOK
<1>9. QED  BY <1>1, <1>2, <1>3, <1>4, <1>5, <1>6, <1>7, <1>8 DEF Next

LEMMA StoreStart == Init => StoreInv
<1> SUFFICES ASSUME Init PROVE StoreInv
  OBVIOUS
<1>1. TypeOK
  BY DEF Init, TypeOK
<1>2. IndexAgrees /\ OneShot /\ Fresh /\ RevertsSpent
  BY DEF Init, IndexAgrees, OneShot, Fresh, RevertsSpent, Held
<1>3. Capped
  BY FS_EmptySet DEF Init, Capped
<1>4. QED  BY <1>1, <1>2, <1>3 DEF StoreInv

\* The store's two Maps agree, no key exceeds its cap, a token is spent at most
\* once, and only for a key that holds the scope of the original operation.
THEOREM StoreInvariant == Spec => []StoreInv
  BY StoreStart, StoreStep, PTL DEF Spec

\* A snapshot leaves the store when it is spent, when its hour is over, or as
\* the oldest of a key that is at its cap and captures another; never on account
\* of another key.
THEOREM SnapshotsKept == Spec => KeptAsPromised
<1> DEFINE Oldest(t) ==
             LET list == tokensByKey[snapshots[t].key_id]
             IN  /\ captured' = captured + 1
                 /\ snapshots'[captured'].key_id = snapshots[t].key_id
                 /\ Cardinality(list) = MaxPerKey
                 /\ \A x \in list : t <= x
           Reason(t) == \/ spent'[t] = spent[t] + 1
                        \/ snapshots[t].expires_at < now
                        \/ Oldest(t)
           Kept == \A t \in Tokens : Held(t) /\ ~Held(t)' => Reason(t)
<1>1. ASSUME StoreInv, NEW k \in Keys, NEW scope \in Scopes \ {ReadScope}, NEW client \in BOOLEAN,
             Capture(k, scope, client), NEW t \in Tokens, Held(t), ~Held(t)'
      PROVE  Oldest(t)
  <2> DEFINE token == captured + 1
             list == tokensByKey[k] \cup {token}
             evicted == OverCap(list)
             new == [key_id |-> k, scope_required |-> scope, client_required |-> client,
                     expires_at |-> now + TTL]
  <2>1. /\ token \in Tokens /\ token \notin tokensByKey[k]
        /\ evicted \subseteq tokensByKey[k]
        /\ \A x \in evicted : /\ Cardinality(tokensByKey[k]) = MaxPerKey
                              /\ \A y \in list : x <= y
    BY <1>1, CaptureShape
  <2>2. /\ captured' = token
        /\ snapshots' = [x \in Tokens |-> IF x \in evicted THEN None
                                          ELSE IF x = token THEN new ELSE snapshots[x]]
    BY <1>1 DEF Capture
  <2>3. ~Held(token)
    <3>1. token > captured
      BY <1>1 DEF StoreInv, TypeOK
    <3>2. QED  BY <1>1, <2>1, <3>1 DEF StoreInv, Fresh
  <2> HIDE DEF evicted
  <2>4. t \in evicted
    BY <1>1, <2>2, <2>3 DEF Held
  <2>5. snapshots[t].key_id = k
    BY <1>1, <2>1, <2>4 DEF StoreInv, IndexAgrees
  <2>6. snapshots'[captured'].key_id = k
    BY <2>1, <2>2
  <2>7. QED  BY <2>1, <2>2, <2>4, <2>5, <2>6
<1>2. ASSUME NEW S, Drop(S), NEW t \in Tokens, Held(t), ~Held(t)'
      PROVE  t \in S
  BY <1>2 DEF Drop, Held
<1>3. ASSUME StoreInv, Next, NEW t \in Tokens, Held(t), ~Held(t)'
      PROVE  Reason(t)
  <2>1. ASSUME NEW k \in Keys, NEW scope \in Scopes \ {ReadScope}, NEW client \in BOOLEAN,
               Capture(k, scope, client)
        PROVE  Reason(t)
    BY <1>1, <1>3, <2>1
  <2>2. CASE Drop(Expired)
    BY <1>2, <1>3, <2>2 DEF Expired
  <2>3. ASSUME NEW k \in Keys, NEW x \in Tokens, Undo(k, x)
        PROVE  Reason(t)
    <3>1. Drop(Expired \cup {x}) /\ spent' = [spent EXCEPT ![x] = @ + 1]
      BY <2>3 DEF Undo
    <3>2. t \in Expired \/ t = x
      BY <1>2, <1>3, <3>1
    <3>3. CASE t \in Expired
      BY <3>3 DEF Expired
    <3>4. CASE t = x
      BY <1>3, <3>1, <3>4 DEF StoreInv, TypeOK
    <3>5. QED  BY <3>2, <3>3, <3>4
  <2>4. CASE UNCHANGED snapshots
    BY <1>3, <2>4 DEF Held
  <2>5. QED
    BY <1>3, <2>1, <2>2, <2>3, <2>4
       DEF Next, Sweep, UndoRefused, UndoEnds, Tick, GmComesOrGoes
<1>4. StoreInv /\ [Next]_vars => [Kept]_vars
  BY <1>3
<1>5. Kept <=> \A t \in Tokens : Held(t) /\ ~Held(t)' =>
       \/ spent'[t] = spent[t] + 1
       \/ snapshots[t].expires_at < now
       \/ LET list == tokensByKey[snapshots[t].key_id]
          IN  /\ captured' = captured + 1
              /\ snapshots'[captured'].key_id = snapshots[t].key_id
              /\ Cardinality(list) = MaxPerKey
              /\ \A x \in list : t <= x
  OBVIOUS
<1> HIDE DEF Kept
<1>6. QED  BY <1>4, <1>5, StoreInvariant, PTL DEF Spec, KeptAsPromised

\* A token is good for one undo, whatever requests present it at once.
THEOREM UndoIsOneShot == Spec => []OneShot
<1>1. StoreInv => OneShot
  BY DEF StoreInv
<1>2. QED  BY <1>1, StoreInvariant, PTL

\* The two Maps of the store agree and no key holds more than MaxPerKey.
THEOREM StoreIsCapped == Spec => [](IndexAgrees /\ Capped)
<1>1. StoreInv => IndexAgrees /\ Capped
  BY DEF StoreInv
<1>2. QED  BY <1>1, StoreInvariant, PTL

\* The array of a key lists exactly the snapshots the store holds for it, so an
\* eviction never spends its place on a token that has gone.
THEOREM StoreIndexAgrees == Spec => []IndexAgrees
<1>1. StoreInv => IndexAgrees
  BY DEF StoreInv
<1>2. QED  BY <1>1, StoreInvariant, PTL

\* The store, its arrays and the reversals under way keep their types.
THEOREM StoreTypes == Spec => []TypeOK
<1>1. StoreInv => TypeOK
  BY DEF StoreInv
<1>2. QED  BY <1>1, StoreInvariant, PTL

\* A reversal begins only within the lifetime of its snapshot and for a key that
\* holds its scope, and a client-side one only while a GM is there: the undo tool
\* checks all of it before it consumes.
THEOREM RevertsInTime == Spec => RevertedInTime
<1> DEFINE InTime == \A r \in reverting' \ reverting :
                       /\ now <= r.snapshot.expires_at
                       /\ Grants(r.by, r.snapshot.scope_required)
                       /\ r.snapshot.client_required => gmConnected
<1>1. ASSUME StoreInv, NEW k \in Keys, NEW t \in Tokens, Undo(k, t)
      PROVE  InTime
  <2>1. /\ Held(t) /\ t \notin Expired
        /\ snapshots[t].client_required => gmConnected
        /\ Grants(k, snapshots[t].scope_required)
        /\ reverting' \ reverting \subseteq {[token |-> t, snapshot |-> snapshots[t], by |-> k]}
    BY <1>1 DEF Undo
  <2>2. snapshots[t].expires_at \in Nat /\ now \in Nat
    BY <1>1, <2>1, BoundsAssumption DEF StoreInv, TypeOK, Snapshot, Held
  <2>3. now <= snapshots[t].expires_at
    BY <2>1, <2>2 DEF Expired
  <2>4. QED  BY <2>1, <2>3
<1>2. ASSUME StoreInv, Next  PROVE  InTime
  <2>1. CASE \E k \in Keys, t \in Tokens : Undo(k, t)
    BY <1>1, <1>2, <2>1
  <2>2. CASE reverting' \subseteq reverting
    BY <2>2
  <2>3. QED
    BY <1>2, <2>1, <2>2
       DEF Next, Capture, Sweep, UndoRefused, UndoEnds, Tick, GmComesOrGoes
<1>3. StoreInv /\ [Next]_vars => [InTime]_vars
  BY <1>2
<1>4. QED  BY <1>3, StoreInvariant, PTL DEF Spec, RevertedInTime
=============================================================================
