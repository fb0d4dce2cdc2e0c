------------------------- MODULE VoiceDispatchProofs -------------------------
(***************************************************************************)
(* Proofs about the GM registry, for any number of users and sockets, and  *)
(* about dispatched calls, for any number of GMs, tabs, sockets and calls. *)
(***************************************************************************)
EXTENDS VoiceDispatch, Integers, SequenceTheorems, TLAPS

-----------------------------------------------------------------------------
(* The sequence operators the specifications use. *)

\* Removing an element that occurs once closes the gap it leaves: what was
\* before it stays put and what was behind it moves up by one.
LEMMA RemoveFirstProperties ==
  ASSUME NEW S, NEW q \in Seq(S), NEW k \in 1..Len(q),
         \A i \in 1..Len(q) : q[i] = q[k] => i = k
  PROVE  /\ RemoveFirst(q, q[k]) \in Seq(S)
         /\ Len(RemoveFirst(q, q[k])) = Len(q) - 1
         /\ \A i \in 1..(Len(q) - 1) :
              RemoveFirst(q, q[k])[i] = IF i < k THEN q[i] ELSE q[i+1]
<1>0. Len(q) \in Nat /\ k \in Nat /\ 1 <= k /\ k <= Len(q)
  OBVIOUS
<1> DEFINE I == {i \in 1..Len(q) : q[i] = q[k]}
<1>1. I = {k}
  OBVIOUS
<1>2. Min(I) = k
  BY <1>1 DEF Min
<1>3. RemoveFirst(q, q[k]) = RemoveAt(q, k)
  <2>1. SelectInSeq(q, LAMBDA v : v = q[k]) = k
    BY <1>1, <1>2 DEF SelectInSeq
  <2>2. QED  BY <2>1 DEF RemoveFirst
<1>4. RemoveFirst(q, q[k]) = SubSeq(q, 1, k-1) \o SubSeq(q, k+1, Len(q))
  BY <1>3 DEF RemoveAt
<1> DEFINE a == SubSeq(q, 1, k-1)
           b == SubSeq(q, k+1, Len(q))
<1>5. /\ a \in Seq(S) /\ Len(a) = k - 1
      /\ \A i \in 1..(k-1) : a[i] = q[i]
  <2>1. \A i \in 1..(k-1) : q[i] \in S
    OBVIOUS
  <2>2. QED  BY <2>1, SubSeqProperties
<1>6. /\ b \in Seq(S) /\ Len(b) = Len(q) - k
      /\ \A i \in 1..(Len(q) - k) : b[i] = q[i+k]
  <2>1. \A i \in (k+1)..Len(q) : q[i] \in S
    OBVIOUS
  <2>2. QED  BY <2>1, SubSeqProperties
<1>7. RemoveFirst(q, q[k]) = a \o b
  BY <1>4
<1> HIDE DEF a, b
<1>8. /\ a \o b \in Seq(S)
      /\ Len(a \o b) = Len(a) + Len(b)
      /\ \A i \in 1..(Len(a) + Len(b)) :
           (a \o b)[i] = IF i <= Len(a) THEN a[i] ELSE b[i - Len(a)]
  BY <1>5, <1>6, ConcatProperties
<1>9. ASSUME NEW i \in 1..(Len(q) - 1)
      PROVE  (a \o b)[i] = IF i < k THEN q[i] ELSE q[i+1]
  <2>0. i \in Nat /\ 1 <= i /\ i <= Len(q) - 1
    BY <1>0
  <2>1. CASE i < k
    BY <2>0, <2>1, <1>0, <1>5, <1>6, <1>8
  <2>2. CASE ~(i < k)
    <3>1. (i - (k-1)) \in 1..(Len(q) - k) /\ (i - (k-1)) + k = i + 1
      BY <2>0, <2>2, <1>0
    <3>2. (a \o b)[i] = b[i - (k-1)]
      BY <2>0, <2>2, <1>0, <1>5, <1>6, <1>8
    <3>3. b[i - (k-1)] = q[i+1]
      BY <3>1, <1>6
    <3>4. QED  BY <2>2, <3>2, <3>3
  <2>3. QED  BY <2>1, <2>2
<1>10. QED  BY <1>0, <1>5, <1>6, <1>7, <1>8, <1>9

\* A queue that is appended to holds one more element, at its end.
LEMMA ContainsAppend ==
  ASSUME NEW S, NEW q \in Seq(S), NEW x \in S
  PROVE  /\ Append(q, x) \in Seq(S) /\ Append(q, x) # <<>>
         /\ \A y : Contains(Append(q, x), y) <=> y = x \/ Contains(q, y)
<1>1. /\ Append(q, x) \in Seq(S) /\ Len(q) \in Nat
      /\ Len(Append(q, x)) = Len(q) + 1
      /\ \A i \in 1..Len(q) : Append(q, x)[i] = q[i]
      /\ Append(q, x)[Len(q) + 1] = x
  BY AppendProperties
<1>2. \A i : i \in 1..Len(Append(q, x)) <=> i \in 1..Len(q) \/ i = Len(q) + 1
  BY <1>1
<1>3. \A y : Contains(Append(q, x), y) <=> y = x \/ Contains(q, y)
  BY <1>1, <1>2 DEF Contains
<1>4. Append(q, x) # <<>>
  BY <1>1
<1>5. QED  BY <1>1, <1>3, <1>4

\* Appending an element that is not there keeps the elements distinct.
LEMMA InjectiveAppend ==
  ASSUME NEW S, NEW q \in Seq(S), NEW x \in S, IsInjective(q), ~Contains(q, x)
  PROVE  IsInjective(Append(q, x))
<1>1. /\ Len(q) \in Nat /\ DOMAIN q = 1..Len(q)
      /\ DOMAIN Append(q, x) = 1..(Len(q) + 1)
      /\ \A i \in 1..Len(q) : Append(q, x)[i] = q[i]
      /\ Append(q, x)[Len(q) + 1] = x
  BY AppendProperties
<1>2. \A i \in 1..Len(q) : q[i] # x
  BY DEF Contains
<1>3. \A i, j \in 1..Len(q) : q[i] = q[j] => i = j
  BY <1>1 DEF IsInjective
<1>4. \A i \in 1..(Len(q) + 1) : i \in 1..Len(q) \/ i = Len(q) + 1
  BY <1>1
<1>5. \A i, j \in 1..(Len(q) + 1) : Append(q, x)[i] = Append(q, x)[j] => i = j
  BY <1>1, <1>2, <1>3, <1>4
<1>6. QED  BY <1>1, <1>5 DEF IsInjective

\* The tail of a queue holds nothing new.
LEMMA ContainsTail ==
  ASSUME NEW S, NEW q \in Seq(S), q # <<>>
  PROVE  /\ Tail(q) \in Seq(S) /\ Head(q) \in S
         /\ Contains(q, Head(q))
         /\ \A y : Contains(Tail(q), y) => Contains(q, y)
<1>1. /\ Tail(q) \in Seq(S) /\ Len(q) \in Nat /\ Len(q) >= 1
      /\ Len(Tail(q)) = Len(q) - 1
      /\ \A i \in 1..(Len(q) - 1) : Tail(q)[i] = q[i + 1]
      /\ Head(q) = q[1]
  BY HeadTailProperties
<1>2. 1 \in 1..Len(q) /\ \A i \in 1..(Len(q) - 1) : i + 1 \in 1..Len(q)
  BY <1>1
<1>3. QED  BY <1>1, <1>2 DEF Contains

\* What is taken from a queue without repetitions is not in it any more.
LEMMA InjectiveTail ==
  ASSUME NEW S, NEW q \in Seq(S), q # <<>>, IsInjective(q)
  PROVE  IsInjective(Tail(q)) /\ ~Contains(Tail(q), Head(q))
<1>1. /\ Tail(q) \in Seq(S) /\ Len(q) \in Nat /\ Len(q) >= 1
      /\ Len(Tail(q)) = Len(q) - 1
      /\ \A i \in 1..(Len(q) - 1) : Tail(q)[i] = q[i + 1]
      /\ Head(q) = q[1]
      /\ DOMAIN q = 1..Len(q) /\ DOMAIN Tail(q) = 1..(Len(q) - 1)
  BY HeadTailProperties
<1>2. 1 \in 1..Len(q) /\ \A i \in 1..(Len(q) - 1) : i \in Nat /\ i >= 1 /\ i + 1 \in 1..Len(q)
  BY <1>1
<1>3. \A i, j \in 1..Len(q) : q[i] = q[j] => i = j
  BY <1>1 DEF IsInjective
<1>4. IsInjective(Tail(q))
  BY <1>1, <1>2, <1>3 DEF IsInjective
<1>5. ASSUME NEW i \in 1..(Len(q) - 1) PROVE Tail(q)[i] # Head(q)
  <2>1. Tail(q)[i] = Head(q) => i + 1 = 1
    BY <1>1, <1>2, <1>3
  <2>2. QED  BY <2>1, <1>2
<1>6. QED  BY <1>1, <1>4, <1>5 DEF Contains

\* Nothing is in the empty queue.
LEMMA EmptyQueue == IsInjective(<<>>) /\ \A y : ~Contains(<<>>, y)
<1>1. Len(<<>>) = 0 /\ DOMAIN <<>> = {} /\ 1..0 = {}
  OBVIOUS
<1>2. QED  BY <1>1 DEF IsInjective, Contains

-----------------------------------------------------------------------------
(* The registry.  PresenceInv is inductive as it stands.  Each operation   *)
(* has a lemma of its own, which the proofs about the whole system cite.   *)

USE SocketUserAssumption, NoneAssumption

\* presence:online keeps the two indexes inverse to each other and the order
\* free of duplicates.
LEMMA RecordOnlineKeepsInv ==
  ASSUME PresenceInv, NEW s \in Sockets, RecordOnline(SocketUser[s], s)
  PROVE  PresenceInv'
<1> DEFINE u == SocketUser[s]
<1>1. u \in Users
  OBVIOUS
<1>2. PresenceTypeOK'
  <2>1. gmOrder' \in Seq(Users)
    BY <1>1, AppendProperties DEF PresenceInv, PresenceTypeOK, RecordOnline
  <2>2. gmSocket' \in [Users -> Sockets \cup {None}]
    BY <1>1 DEF PresenceInv, PresenceTypeOK, RecordOnline
  <2>3. socketToUser' \in [Sockets -> Users \cup {None}]
    <3> DEFINE f(x) == IF x = s THEN u ELSE IF x = gmSocket[u] THEN None ELSE socketToUser[x]
    <3>1. socketToUser' = [x \in Sockets |-> f(x)]
      BY DEF RecordOnline
    <3>2. \A x \in Sockets : f(x) \in Users \cup {None}
      BY <1>1 DEF PresenceInv, PresenceTypeOK
    <3> HIDE DEF f
    <3>3. QED  BY <3>1, <3>2
  <2>4. QED  BY <2>1, <2>2, <2>3 DEF PresenceTypeOK
<1>3. IndexesAgree'
  <2>1. ASSUME NEW v \in Users, NEW x \in Sockets
        PROVE  gmSocket'[v] = x <=> socketToUser'[x] = v
    <3>1. gmSocket'[v] = IF v = u THEN s ELSE gmSocket[v]
      BY <1>1 DEF PresenceInv, PresenceTypeOK, RecordOnline
    <3>2. socketToUser'[x] = IF x = s THEN u
                             ELSE IF x = gmSocket[u] THEN None ELSE socketToUser[x]
      BY DEF RecordOnline
    <3>3. \A w \in Users, y \in Sockets : gmSocket[w] = y <=> socketToUser[y] = w
      BY DEF PresenceInv, IndexesAgree
    <3>4. gmSocket[v] = s => v = u
      BY DEF PresenceInv, EntryIsOwn, IsUserConnectedGm
    <3>5. QED  BY <1>1, <3>1, <3>2, <3>3, <3>4
  <2>2. QED  BY <2>1 DEF IndexesAgree
<1>4. OrderIsConnected'
  <2>1. CASE IsUserConnectedGm(u)
    BY <1>1, <2>1 DEF PresenceInv, PresenceTypeOK, OrderIsConnected, RecordOnline,
                      IsUserConnectedGm
  <2>2. CASE ~IsUserConnectedGm(u)
    <3>1. /\ gmOrder \in Seq(Users) /\ Len(gmOrder) \in Nat
          /\ gmOrder' = Append(gmOrder, u)
          /\ Len(gmOrder') = Len(gmOrder) + 1
          /\ \A i \in 1..Len(gmOrder) : gmOrder'[i] = gmOrder[i] /\ gmOrder'[i] # u
          /\ gmOrder'[Len(gmOrder) + 1] = u
      BY <1>1, <2>2 DEF PresenceInv, PresenceTypeOK, OrderIsConnected, RecordOnline
    <3>2. \A v \in Users : IsUserConnectedGm(v)' <=> v = u \/ IsUserConnectedGm(v)
      BY <1>1 DEF PresenceInv, PresenceTypeOK, RecordOnline, IsUserConnectedGm
    <3>3. \A v \in Users : IsUserConnectedGm(v)' <=> \E i \in 1..Len(gmOrder') : gmOrder'[i] = v
      BY <1>1, <3>1, <3>2 DEF PresenceInv, OrderIsConnected
    <3>4. \A i, j \in 1..Len(gmOrder') : gmOrder'[i] = gmOrder'[j] => i = j
      BY <3>1 DEF PresenceInv, OrderIsConnected
    <3>5. QED  BY <3>3, <3>4 DEF OrderIsConnected
  <2>3. QED  BY <2>1, <2>2
<1>5. EntryIsOwn'
  BY <1>1 DEF PresenceInv, PresenceTypeOK, EntryIsOwn, RecordOnline, IsUserConnectedGm
<1>6. QED  BY <1>2, <1>3, <1>4, <1>5 DEF PresenceInv

\* How the order changes when a connected user is removed.
LEMMA RemovedFromOrder ==
  ASSUME PresenceInv, NEW u \in Users, IsUserConnectedGm(u),
         gmOrder' = RemoveFirst(gmOrder, u)
  PROVE  \E k \in 1..Len(gmOrder) :
           /\ gmOrder[k] = u
           /\ gmOrder' \in Seq(Users)
           /\ Len(gmOrder') = Len(gmOrder) - 1
           /\ \A i \in 1..(Len(gmOrder) - 1) :
                gmOrder'[i] = IF i < k THEN gmOrder[i] ELSE gmOrder[i+1]
<1>1. PICK k \in 1..Len(gmOrder) : gmOrder[k] = u
  BY DEF PresenceInv, OrderIsConnected
<1>2. gmOrder \in Seq(Users) /\ \A i \in 1..Len(gmOrder) : gmOrder[i] = gmOrder[k] => i = k
  BY DEF PresenceInv, PresenceTypeOK, OrderIsConnected
<1>3. QED  BY <1>1, <1>2, RemoveFirstProperties

\* presence:offline likewise, whoever is removed.
LEMMA RecordOfflineByUserKeepsInv ==
  ASSUME PresenceInv, NEW u \in Users, RecordOfflineByUser(u)
  PROVE  PresenceInv'
<1>1. CASE ~IsUserConnectedGm(u)
  BY <1>1 DEF RecordOfflineByUser, presenceVars, PresenceInv, PresenceTypeOK,
              IndexesAgree, OrderIsConnected, EntryIsOwn, IsUserConnectedGm
<1>2. CASE IsUserConnectedGm(u)
  <2>1. /\ gmOrder' = RemoveFirst(gmOrder, u)
        /\ gmSocket' = [gmSocket EXCEPT ![u] = None]
        /\ socketToUser' = [socketToUser EXCEPT ![gmSocket[u]] = None]
    BY <1>2 DEF RecordOfflineByUser
  <2>2. PICK k \in 1..Len(gmOrder) :
           /\ gmOrder[k] = u
           /\ gmOrder' \in Seq(Users)
           /\ Len(gmOrder') = Len(gmOrder) - 1
           /\ \A i \in 1..(Len(gmOrder) - 1) :
                gmOrder'[i] = IF i < k THEN gmOrder[i] ELSE gmOrder[i+1]
    BY <1>2, <2>1, RemovedFromOrder
  <2>3. PresenceTypeOK'
    BY <2>1, <2>2 DEF PresenceInv, PresenceTypeOK
  <2>4. IndexesAgree'
    BY <1>2, <2>1 DEF PresenceInv, PresenceTypeOK, IndexesAgree, IsUserConnectedGm
  <2>5. OrderIsConnected'
    <3> DEFINE n == Len(gmOrder)
    <3>1. n \in Nat /\ k \in 1..n /\ Len(gmOrder') = n - 1
      BY <2>2 DEF PresenceInv, PresenceTypeOK
    <3>2. \A i, j \in 1..n : gmOrder[i] = gmOrder[j] => i = j
      BY DEF PresenceInv, OrderIsConnected
    <3>3. \A v \in Users : IsUserConnectedGm(v)' <=> v # u /\ IsUserConnectedGm(v)
      BY <2>1 DEF PresenceInv, PresenceTypeOK, IsUserConnectedGm
    <3>4. ASSUME NEW v \in Users, IsUserConnectedGm(v)'
          PROVE  \E i \in 1..Len(gmOrder') : gmOrder'[i] = v
      <4>1. PICK i \in 1..n : gmOrder[i] = v
        BY <3>3, <3>4 DEF PresenceInv, OrderIsConnected
      <4>2. i # k
        BY <2>2, <3>3, <3>4, <4>1
      <4>3. CASE i < k
        <5>1. i \in 1..(n-1)
          BY <3>1, <4>3
        <5>2. gmOrder'[i] = v
          BY <2>2, <4>1, <4>3, <5>1
        <5>3. QED  BY <3>1, <5>1, <5>2
      <4>4. CASE i > k
        <5>1. i - 1 \in 1..(n-1) /\ ~(i - 1 < k) /\ (i - 1) + 1 = i
          BY <3>1, <4>4
        <5>2. gmOrder'[i-1] = v
          BY <2>2, <4>1, <5>1
        <5>3. QED  BY <3>1, <5>1, <5>2
      <4>5. QED  BY <3>1, <4>2, <4>3, <4>4
    <3>5. ASSUME NEW v \in Users, NEW i \in 1..Len(gmOrder'), gmOrder'[i] = v
          PROVE  IsUserConnectedGm(v)'
      <4> DEFINE p == IF i < k THEN i ELSE i + 1
      <4>a. i \in 1..(n-1) /\ gmOrder'[i] = gmOrder[p]
        BY <2>2, <3>5
      <4>b. p \in 1..n /\ p # k
        BY <3>1, <4>a
      <4>1. p \in 1..n /\ p # k /\ gmOrder[p] = v
        BY <3>5, <4>a, <4>b
      <4>2. v # u /\ IsUserConnectedGm(v)
        BY <2>2, <3>2, <4>1 DEF PresenceInv, OrderIsConnected
      <4>3. QED  BY <3>3, <4>2
    <3>6. ASSUME NEW i \in 1..Len(gmOrder'), NEW j \in 1..Len(gmOrder'),
                 gmOrder'[i] = gmOrder'[j]
          PROVE  i = j
      <4> DEFINE p(x) == IF x < k THEN x ELSE x + 1
      <4>1. p(i) \in 1..n /\ gmOrder'[i] = gmOrder[p(i)]
        BY <2>2, <3>1
      <4>2. p(j) \in 1..n /\ gmOrder'[j] = gmOrder[p(j)]
        BY <2>2, <3>1
      <4>3. p(i) = p(j)
        BY <3>2, <3>6, <4>1, <4>2
      <4>4. QED  BY <3>1, <4>3
    <3>7. QED  BY <3>4, <3>5, <3>6 DEF OrderIsConnected
  <2>6. EntryIsOwn'
    BY <2>1 DEF PresenceInv, PresenceTypeOK, EntryIsOwn, IsUserConnectedGm
  <2>7. QED  BY <2>3, <2>4, <2>5, <2>6 DEF PresenceInv
<1>3. QED  BY <1>1, <1>2

\* A socket's disconnect likewise.
LEMMA RecordOfflineBySocketKeepsInv ==
  ASSUME PresenceInv, NEW s \in Sockets, RecordOfflineBySocket(s)
  PROVE  PresenceInv'
<1>1. CASE socketToUser[s] = None
  BY <1>1 DEF RecordOfflineBySocket, presenceVars, PresenceInv, PresenceTypeOK,
              IndexesAgree, OrderIsConnected, EntryIsOwn, IsUserConnectedGm
<1>2. CASE socketToUser[s] # None
  <2>1. socketToUser[s] \in Users /\ RecordOfflineByUser(socketToUser[s])
    BY <1>2 DEF RecordOfflineBySocket, PresenceInv, PresenceTypeOK
  <2>2. QED  BY <2>1, RecordOfflineByUserKeepsInv
<1>3. QED  BY <1>1, <1>2

\* The registry starts consistent.
LEMMA PresenceInitInv == PresenceInit => PresenceInv
  BY DEF PresenceInit, PresenceInv, PresenceTypeOK, IndexesAgree, OrderIsConnected,
         EntryIsOwn, IsUserConnectedGm

\* A step that leaves the registry alone leaves the invariant alone.
LEMMA PresenceStutterInv ==
  ASSUME PresenceInv, UNCHANGED presenceVars
  PROVE  PresenceInv'
<1>1. gmOrder' = gmOrder /\ gmSocket' = gmSocket /\ socketToUser' = socketToUser
  BY DEF presenceVars
<1>2. PresenceTypeOK'
  BY <1>1 DEF PresenceInv, PresenceTypeOK
<1>3. IndexesAgree'
  BY <1>1 DEF PresenceInv, IndexesAgree
<1>4. OrderIsConnected'
  BY <1>1 DEF PresenceInv, OrderIsConnected, IsUserConnectedGm
<1>5. EntryIsOwn'
  BY <1>1 DEF PresenceInv, EntryIsOwn, IsUserConnectedGm
<1>6. QED  BY <1>2, <1>3, <1>4, <1>5 DEF PresenceInv

\* Whatever announcements and disconnects arrive, in whatever order, the two
\* Maps of gm-presence.mjs stay inverse to each other and the dispatch order
\* lists the connected GMs exactly once.
THEOREM PresenceInvariant == PresenceSpec => []PresenceInv
<1>1. PresenceInv /\ [PresenceNext]_presenceVars => PresenceInv'
  BY RecordOnlineKeepsInv, RecordOfflineByUserKeepsInv, RecordOfflineBySocketKeepsInv,
     PresenceStutterInv DEF PresenceNext
<1>2. QED  BY PresenceInitInv, <1>1, PTL DEF PresenceSpec

\* u is before v in the order q.
Ahead(q, u, v) == \E i, j \in 1..Len(q) : i < j /\ q[i] = u /\ q[j] = v

\* Removing a user keeps the order of the others.
LEMMA RemovalKeepsOrder ==
  ASSUME PresenceInv, NEW w \in Users, RecordOfflineByUser(w),
         NEW u \in Users, NEW v \in Users, Ahead(gmOrder, u, v),
         gmSocket'[u] # None, gmSocket'[v] # None
  PROVE  Ahead(gmOrder', u, v)
<1>1. CASE ~IsUserConnectedGm(w)
  BY <1>1 DEF RecordOfflineByUser, presenceVars, Ahead
<1>2. CASE IsUserConnectedGm(w)
  <2>1. PICK i, j \in 1..Len(gmOrder) : i < j /\ gmOrder[i] = u /\ gmOrder[j] = v
    BY DEF Ahead
  <2>2. u # w /\ v # w
    BY <1>2 DEF RecordOfflineByUser, PresenceInv, PresenceTypeOK
  <2>3. PICK k \in 1..Len(gmOrder) :
           /\ gmOrder[k] = w
           /\ Len(gmOrder') = Len(gmOrder) - 1
           /\ \A m \in 1..(Len(gmOrder) - 1) :
                gmOrder'[m] = IF m < k THEN gmOrder[m] ELSE gmOrder[m+1]
    BY <1>2, RemovedFromOrder DEF RecordOfflineByUser
  <2> DEFINE n == Len(gmOrder)
             p(x) == IF x < k THEN x ELSE x - 1
  <2>4. n \in Nat /\ i # k /\ j # k
    BY <2>1, <2>2, <2>3 DEF PresenceInv, PresenceTypeOK
  <2>5. ASSUME NEW x \in 1..n, x # k
        PROVE  p(x) \in 1..(n-1) /\ gmOrder'[p(x)] = gmOrder[x]
    <3>0. x \in Nat /\ k \in Nat /\ 1 <= x /\ x <= n /\ 1 <= k /\ k <= n
      BY <2>4
    <3>1. CASE x < k
      BY <3>0, <3>1, <2>3, <2>4
    <3>2. CASE x > k
      <4>1. x - 1 \in 1..(n-1) /\ ~(x - 1 < k) /\ ~(x < k) /\ (x - 1) + 1 = x
        BY <3>0, <3>2, <2>4
      <4>2. p(x) = x - 1
        BY <4>1
      <4>3. QED  BY <2>3, <4>1, <4>2
    <3>3. QED  BY <3>0, <3>1, <3>2, <2>5
  <2>6. p(i) < p(j)
    BY <2>1, <2>4
  <2>7. p(i) \in 1..(n-1) /\ p(j) \in 1..(n-1) /\ gmOrder'[p(i)] = u /\ gmOrder'[p(j)] = v
    BY <2>1, <2>4, <2>5
  <2> HIDE DEF p
  <2>8. QED  BY <2>3, <2>6, <2>7 DEF Ahead
<1>3. QED  BY <1>1, <1>2

\* So does an announcement.
LEMMA AnnouncementKeepsOrder ==
  ASSUME PresenceInv, NEW w \in Users, NEW s \in Sockets, RecordOnline(w, s),
         NEW u, NEW v, Ahead(gmOrder, u, v)
  PROVE  Ahead(gmOrder', u, v)
<1>1. PICK i, j \in 1..Len(gmOrder) : i < j /\ gmOrder[i] = u /\ gmOrder[j] = v
  BY DEF Ahead
<1>2. /\ Len(gmOrder') >= Len(gmOrder) /\ Len(gmOrder') \in Nat /\ Len(gmOrder) \in Nat
      /\ \A m \in 1..Len(gmOrder) : gmOrder'[m] = gmOrder[m]
  BY DEF PresenceInv, PresenceTypeOK, RecordOnline
<1>3. i \in 1..Len(gmOrder') /\ j \in 1..Len(gmOrder')
  BY <1>1, <1>2
<1>4. QED  BY <1>1, <1>2, <1>3 DEF Ahead

\* The multi-GM rule of gm-presence.mjs: among GMs that stay connected the one
\* that announced itself first keeps its precedence, so the dispatch target
\* changes only when the current one disconnects.
THEOREM FirstAnnouncedTheorem == PresenceSpec => FirstAnnouncedStaysFirst
<1> DEFINE Keeps == \A u, v \in Users :
             Ahead(gmOrder, u, v) /\ gmSocket'[u] # None /\ gmSocket'[v] # None
               => Ahead(gmOrder', u, v)
<1>1. ASSUME PresenceInv, PresenceNext
      PROVE  Keeps
  <2>1. PICK s \in Sockets : \/ RecordOnline(SocketUser[s], s)
                             \/ RecordOfflineByUser(SocketUser[s])
                             \/ RecordOfflineBySocket(s)
    BY <1>1 DEF PresenceNext
  <2>2. CASE RecordOnline(SocketUser[s], s)
    BY <1>1, <2>2, AnnouncementKeepsOrder
  <2>3. CASE RecordOfflineByUser(SocketUser[s])
    BY <1>1, <2>3, RemovalKeepsOrder
  <2>4. CASE RecordOfflineBySocket(s) /\ socketToUser[s] # None
    <3>1. socketToUser[s] \in Users /\ RecordOfflineByUser(socketToUser[s])
      BY <1>1, <2>4 DEF RecordOfflineBySocket, PresenceInv, PresenceTypeOK
    <3>2. QED  BY <1>1, <3>1, RemovalKeepsOrder
  <2>5. CASE RecordOfflineBySocket(s) /\ socketToUser[s] = None
    BY <2>5 DEF RecordOfflineBySocket, presenceVars
  <2>6. QED  BY <2>1, <2>2, <2>3, <2>4, <2>5
<1>2. PresenceInv /\ [PresenceNext]_presenceVars => [Keeps]_presenceVars
  BY <1>1
<1>3. Keeps <=> \A u, v \in Users :
         LET ahead(q) == \E i, j \in 1..Len(q) : i < j /\ q[i] = u /\ q[j] = v
         IN  ahead(gmOrder) /\ gmSocket'[u] # None /\ gmSocket'[v] # None
               => ahead(gmOrder')
  BY DEF Ahead
<1> HIDE DEF Keeps
<1>4. QED
  BY <1>2, <1>3, PresenceInvariant, PTL DEF PresenceSpec, FirstAnnouncedStaysFirst

-----------------------------------------------------------------------------
(* The whole system. *)

\* The call has been sent to a GM.
Sent(d) == outcome[d] \notin {"idle", "unavailable"}

\* A queue to a tab holds calls for the user of its socket, each once.
QueuesOfTarget ==
  \A s \in Sockets :
    /\ IsInjective(toClient[s])
    /\ \A d \in Calls : Contains(toClient[s], d) => Sent(d) /\ target[d] = SocketUser[s]

\* A tab's connection is one of its own sockets; a socket no tab has had yet
\* carries nothing.
LinksAreOwn ==
  /\ \A t \in Tabs : link[t] # None => SocketTab[link[t]] = t /\ sock[link[t]] # "unused"
  /\ \A s \in Sockets : sock[s] = "unused" => toClient[s] = <<>>

\* Only calls that were sent are worked on, by tabs of the GM they went to.
WorkIsSent ==
  \A t \in Tabs, d \in Calls :
    /\ work[t][d] # "none" => Sent(d) /\ TabIsOf(t, target[d])
    /\ work[t][d] = "done" => executed[d] # <<>>

\* A tab that works on a call or has carried it out will not read it again.
NotReadAgain ==
  \A t \in Tabs, d \in Calls :
    /\ work[t][d] = "running" => ~Contains(executed[d], t)
    /\ work[t][d] # "none" \/ Contains(executed[d], t) =>
         link[t] = None \/ ~Contains(toClient[link[t]], d)

ExecutedBySent ==
  \A d \in Calls :
    /\ IsInjective(executed[d])
    /\ \A t \in Tabs : Contains(executed[d], t) => Sent(d) /\ TabIsOf(t, target[d])

\* A success that is on its way to the server, or waits for a socket, is about a
\* call that was carried out.
ReportedOk(d) ==
  \/ \E s \in Sockets : Contains(toServer[s], ReplyMsg(d, TRUE))
  \/ \E t \in Tabs : Contains(outbox[t], ReplyMsg(d, TRUE))

RepliesAreTrue == \A d \in Calls : ReportedOk(d) => executed[d] # <<>>

DispatchInv ==
  /\ TypeOK /\ NoGhostGm /\ PendingIsWaiting
  /\ QueuesOfTarget /\ LinksAreOwn /\ WorkIsSent /\ NotReadAgain /\ ExecutedBySent
  /\ RepliesAreTrue

-----------------------------------------------------------------------------
USE SocketTabAssumption, TabsAssumption

\* Every step of the dispatcher is one of the registry, or leaves it alone.
LEMMA PresenceStep == [Next]_vars => [PresenceNext]_presenceVars
<1> SUFFICES ASSUME [Next]_vars PROVE [PresenceNext]_presenceVars
  OBVIOUS
<1>1. CASE UNCHANGED vars
  BY <1>1 DEF vars
<1>2. ASSUME NEW s \in Sockets,
             ReceiveOnline(s) \/ ReceiveOffline(s) \/ ReceiveReply(s) \/ Disconnect(s)
      PROVE  [PresenceNext]_presenceVars
  BY <1>2 DEF ReceiveOnline, ReceiveOffline, ReceiveReply, Disconnect, PresenceNext
<1>3. ASSUME NEW d \in Calls, DispatchToClient(d) \/ Timeout(d)
      PROVE  UNCHANGED presenceVars
  BY <1>3 DEF DispatchToClient, Timeout
<1>4. ASSUME TabStep PROVE UNCHANGED presenceVars
  BY <1>4 DEF TabStep, Open, InitClientSocket, Unload, LoseLink, Reconnect,
              ReceiveDispatch, RunDispatched, SendReply
<1>5. QED
  BY <1>1, <1>2, <1>3, <1>4 DEF Next, ServerStep

\* The registry inside the dispatcher behaves as the registry on its own.
THEOREM DispatchKeepsPresence == Spec => PresenceSpec
<1>1. Init => PresenceInit
  BY DEF Init
<1>2. QED  BY <1>1, PresenceStep, PTL DEF Spec, PresenceSpec

\* Hence the two Maps stay inverse to each other and the order of dispatch lists
\* each connected GM once, whatever the sockets do.
THEOREM DispatchPresenceInvariant == Spec => []PresenceInv
<1>1. QED  BY DispatchKeepsPresence, PresenceInvariant, PTL

\* And no GM overtakes one who stays connected.
THEOREM DispatchFirstAnnounced == Spec => FirstAnnouncedStaysFirst
<1>1. QED  BY DispatchKeepsPresence, FirstAnnouncedTheorem, PTL

-----------------------------------------------------------------------------
\* The messages a tab sends are of the right kind.
LEMMA MessageTypes ==
  /\ OnlineMsg \in ServerMsgs /\ OfflineMsg \in ServerMsgs
  /\ \A d \in Calls, ok \in BOOLEAN : ReplyMsg(d, ok) \in ServerMsgs
  /\ \A d, e \in Calls, ok \in BOOLEAN :
       /\ ReplyMsg(d, ok) # OnlineMsg /\ ReplyMsg(d, ok) # OfflineMsg
       /\ ReplyMsg(d, TRUE) = ReplyMsg(e, ok) => d = e /\ ok = TRUE
<1>1. /\ OnlineMsg \in ServerMsgs /\ OfflineMsg \in ServerMsgs
      /\ \A d \in Calls, ok \in BOOLEAN : ReplyMsg(d, ok) \in ServerMsgs
  BY DEF ServerMsgs
<1>2. ASSUME NEW d \in Calls, NEW e \in Calls, NEW ok \in BOOLEAN
      PROVE  /\ ReplyMsg(d, ok) # OnlineMsg /\ ReplyMsg(d, ok) # OfflineMsg
             /\ ReplyMsg(d, TRUE) = ReplyMsg(e, ok) => d = e /\ ok = TRUE
  <2>1. /\ ReplyMsg(d, ok).kind = "reply" /\ OnlineMsg.kind = "presence:online"
        /\ OfflineMsg.kind = "presence:offline"
    BY DEF ReplyMsg, OnlineMsg, OfflineMsg
  <2>2. /\ ReplyMsg(d, TRUE).dispatch_id = d /\ ReplyMsg(e, ok).dispatch_id = e
        /\ ReplyMsg(d, TRUE).ok = TRUE /\ ReplyMsg(e, ok).ok = ok
    BY DEF ReplyMsg
  <2>3. QED  BY <2>1, <2>2
<1>3. QED  BY <1>1, <1>2

\* Sending over a tab's connection changes one queue at most.
LEMMA EmitEffect ==
  ASSUME TypeOK, NEW t \in Tabs, NEW m \in ServerMsgs, Emit(t, m)
  PROVE  /\ toServer' \in [Sockets -> Seq(ServerMsgs)]
         /\ outbox' \in [Tabs -> Seq(ServerMsgs)]
         /\ \A s \in Sockets : \A y : Contains(toServer'[s], y) => y = m \/ Contains(toServer[s], y)
         /\ \A x \in Tabs : \A y : Contains(outbox'[x], y) => y = m \/ Contains(outbox[x], y)
<1>1. toServer \in [Sockets -> Seq(ServerMsgs)] /\ outbox \in [Tabs -> Seq(ServerMsgs)]
      /\ link[t] \in Sockets \cup {None}
  BY DEF TypeOK
<1>2. CASE link[t] = None
  <2>1. outbox' = [outbox EXCEPT ![t] = Append(outbox[t], m)] /\ toServer' = toServer
    BY <1>2 DEF Emit
  <2>2. /\ Append(outbox[t], m) \in Seq(ServerMsgs)
        /\ \A y : Contains(Append(outbox[t], m), y) <=> y = m \/ Contains(outbox[t], y)
    BY <1>1, ContainsAppend
  <2>3. QED  BY <1>1, <2>1, <2>2
<1>3. CASE link[t] # None
  <2>1. outbox' = outbox /\ \/ toServer' = toServer
                            \/ toServer' = [toServer EXCEPT ![link[t]] = Append(toServer[link[t]], m)]
    BY <1>3 DEF Emit
  <2>2. /\ link[t] \in Sockets
        /\ Append(toServer[link[t]], m) \in Seq(ServerMsgs)
        /\ \A y : Contains(Append(toServer[link[t]], m), y) <=> y = m \/ Contains(toServer[link[t]], y)
    BY <1>1, <1>3, ContainsAppend
  <2>3. CASE toServer' = toServer
    BY <1>1, <2>1, <2>3
  <2>4. CASE toServer' = [toServer EXCEPT ![link[t]] = Append(toServer[link[t]], m)]
    <3>1. toServer' \in [Sockets -> Seq(ServerMsgs)]
      BY <1>1, <2>2, <2>4
    <3>2. \A s \in Sockets : s # link[t] => toServer'[s] = toServer[s]
      BY <1>1, <2>4
    <3>3. toServer'[link[t]] = Append(toServer[link[t]], m)
      BY <1>1, <2>2, <2>4
    <3>4. QED  BY <1>1, <2>1, <2>2, <3>1, <3>2, <3>3
  <2>5. QED  BY <2>1, <2>3, <2>4
<1>4. QED  BY <1>2, <1>3

\* An envelope goes to the queues of the user's sockets and to no other.
LEMMA EmitTypes ==
  ASSUME toClient \in [Sockets -> Seq(Calls)], NEW u \in Users, NEW d \in Calls, EmitToUser(u, d)
  PROVE  /\ toClient' \in [Sockets -> Seq(Calls)]
         /\ \A s \in Sockets :
              \/ toClient'[s] = toClient[s]
              \/ /\ toClient'[s] = Append(toClient[s], d)
                 /\ sock[s] = "open" /\ SocketUser[s] = u
<1> DEFINE f(s) == IF sock[s] = "open" /\ SocketUser[s] = u
                   THEN Append(toClient[s], d) ELSE toClient[s]
<1>1. toClient' = [s \in Sockets |-> f(s)]
  BY DEF EmitToUser
<1>2. \A s \in Sockets : f(s) \in Seq(Calls)
  BY ContainsAppend
<1>3. \A s \in Sockets : \/ f(s) = toClient[s]
                         \/ f(s) = Append(toClient[s], d) /\ sock[s] = "open" /\ SocketUser[s] = u
  OBVIOUS
<1> HIDE DEF f
<1>4. QED  BY <1>1, <1>2, <1>3

Progress == {"none", "running", "done", "failed"}

\* One entry of a tab's work changes.
LEMMA WorkEffect ==
  ASSUME work \in [Tabs -> [Calls -> Progress]], NEW t \in Tabs, NEW d \in Calls,
         NEW v \in Progress, work' = [work EXCEPT ![t][d] = v]
  PROVE  /\ work' \in [Tabs -> [Calls -> Progress]]
         /\ \A x \in Tabs, e \in Calls :
              work'[x][e] = IF x = t /\ e = d THEN v ELSE work[x][e]
<1> DEFINE row == [work[t] EXCEPT ![d] = v]
<1>1. row \in [Calls -> Progress] /\ \A e \in Calls : row[e] = IF e = d THEN v ELSE work[t][e]
  OBVIOUS
<1>2. work' = [work EXCEPT ![t] = row]
  OBVIOUS
<1> HIDE DEF row, Progress
<1>3. QED  BY <1>1, <1>2

LEMMA EmptyOfType == \A S : <<>> \in Seq(S)
  OBVIOUS

\* Every variable keeps its type.
LEMMA TypeStep ==
  ASSUME TypeOK, PresenceTypeOK', Next
  PROVE  TypeOK'
<1> USE DEF TypeOK
<1>1. ASSUME NEW d \in Calls, DispatchToClient(d) PROVE TypeOK'
  <2>1. CASE PickGm = None
    BY <1>1, <2>1 DEF DispatchToClient, Outcomes, tabVars
  <2>2. CASE PickGm # None
    <3>1. PickGm \in Users
      BY <2>2 DEF PickGm, PresenceTypeOK
    <3>2. toClient' \in [Sockets -> Seq(Calls)]
      BY <1>1, <2>2, <3>1, EmitTypes DEF DispatchToClient
    <3>3. "waiting" \in Outcomes
      BY DEF Outcomes
    <3>4. /\ outcome' = [outcome EXCEPT ![d] = "waiting"] /\ pending' = pending \cup {d}
          /\ target' = [target EXCEPT ![d] = PickGm]
          /\ UNCHANGED <<undoable, sock, toServer, tabVars, executed>>
      BY <1>1, <2>2 DEF DispatchToClient
    <3> HIDE DEF PickGm, Outcomes
    <3>5. QED  BY <3>1, <3>2, <3>3, <3>4 DEF tabVars
  <2>3. QED  BY <2>1, <2>2
<1>2. ASSUME NEW d \in Calls, Timeout(d) PROVE TypeOK'
  BY <1>2 DEF Timeout, Outcomes, netVars, tabVars
<1>3. ASSUME NEW s \in Sockets, ReceiveOnline(s) \/ ReceiveOffline(s) \/ ReceiveReply(s)
      PROVE TypeOK'
  <2>1. toServer' \in [Sockets -> Seq(ServerMsgs)]
    <3>1. toServer[s] \in Seq(ServerMsgs) /\ toServer[s] # <<>>
          /\ toServer' = [toServer EXCEPT ![s] = Tail(toServer[s])]
      BY <1>3 DEF ReceiveOnline, ReceiveOffline, ReceiveReply, Receive
    <3>2. Tail(toServer[s]) \in Seq(ServerMsgs)
      BY <3>1, ContainsTail
    <3>3. QED  BY <3>1, <3>2
  <2>2. pending' \subseteq Calls /\ outcome' \in [Calls -> Outcomes] /\ undoable' \subseteq Calls
        /\ target' = target
    BY <1>3 DEF ReceiveOnline, ReceiveOffline, ReceiveReply, HandleReply, dispatchVars, Outcomes
  <2>3. QED
    BY <1>3, <2>1, <2>2 DEF ReceiveOnline, ReceiveOffline, ReceiveReply, Receive, tabVars
<1>4. ASSUME NEW s \in Sockets, Disconnect(s) PROVE TypeOK'
  BY <1>4, EmptyOfType DEF Disconnect, dispatchVars, tabVars
<1>5. ASSUME NEW t \in Tabs, Open(t) PROVE TypeOK'
  BY <1>5 DEF Open, dispatchVars
<1>6. ASSUME NEW t \in Tabs, InitClientSocket(t) PROVE TypeOK'
  <2>1. Emit(t, OnlineMsg)
    BY <1>6 DEF InitClientSocket
  <2>2. QED  BY <1>6, <2>1, EmitEffect, MessageTypes DEF InitClientSocket, dispatchVars
<1>7. ASSUME NEW t \in Tabs, Unload(t) PROVE TypeOK'
  <2>1. toServer' \in [Sockets -> Seq(ServerMsgs)]
    <3>1. CASE UNCHANGED toServer
      BY <3>1
    <3>2. CASE /\ link[t] # None
               /\ toServer' = [toServer EXCEPT ![link[t]] = Append(toServer[link[t]], OfflineMsg)]
      <4>1. link[t] \in Sockets /\ Append(toServer[link[t]], OfflineMsg) \in Seq(ServerMsgs)
        BY <3>2, ContainsAppend, MessageTypes
      <4>2. QED  BY <3>2, <4>1
    <3>3. QED  BY <1>7, <3>1, <3>2 DEF Unload
  <2>2. QED  BY <1>7, <2>1, EmptyOfType DEF Unload, dispatchVars
<1>8. ASSUME NEW t \in Tabs, LoseLink(t) PROVE TypeOK'
  BY <1>8, EmptyOfType DEF LoseLink, dispatchVars
<1>9. ASSUME NEW t \in Tabs, Reconnect(t) PROVE TypeOK'
  BY <1>9, EmptyOfType DEF Reconnect, dispatchVars
<1>10. ASSUME NEW t \in Tabs, ReceiveDispatch(t) PROVE TypeOK'
  <2>1. link[t] \in Sockets /\ Head(toClient[link[t]]) \in Calls
        /\ Tail(toClient[link[t]]) \in Seq(Calls)
    BY <1>10, ContainsTail DEF ReceiveDispatch
  <2>2. work' \in [Tabs -> [Calls -> {"none", "running", "done", "failed"}]]
    BY <1>10, <2>1 DEF ReceiveDispatch
  <2>3. QED  BY <1>10, <2>1, <2>2 DEF ReceiveDispatch, dispatchVars
<1>11. ASSUME NEW t \in Tabs, NEW d \in Calls, RunDispatched(t, d) PROVE TypeOK'
  <2>1. Append(executed[d], t) \in Seq(Tabs)
    BY ContainsAppend
  <2>2. executed' \in [Calls -> Seq(Tabs)]
    BY <1>11, <2>1 DEF RunDispatched
  <2>3. work' \in [Tabs -> [Calls -> Progress]]
    <3>1. PICK v \in {"done", "failed"} : work' = [work EXCEPT ![t][d] = v]
      BY <1>11 DEF RunDispatched
    <3>2. QED  BY <3>1, WorkEffect DEF Progress
  <2>4. QED  BY <1>11, <2>2, <2>3 DEF RunDispatched, dispatchVars, netVars, Progress
<1>12. ASSUME NEW t \in Tabs, NEW d \in Calls, SendReply(t, d) PROVE TypeOK'
  <2>1. ReplyMsg(d, work[t][d] = "done") \in ServerMsgs
    BY MessageTypes
  <2>2. Emit(t, ReplyMsg(d, work[t][d] = "done"))
    BY <1>12 DEF SendReply
  <2>3. QED  BY <1>12, <2>1, <2>2, EmitEffect DEF SendReply, dispatchVars
<1>13. QED
  BY <1>1, <1>2, <1>3, <1>4, <1>5, <1>6, <1>7, <1>8, <1>9, <1>10, <1>11, <1>12
     DEF Next, ServerStep, TabStep

-----------------------------------------------------------------------------
(***************************************************************************)
(* What a step does to the history of a call and to each queue.            *)
(***************************************************************************)

\* A call that was sent stays so and its target does not change; only a
\* dispatch makes one sent.
LEMMA SentStep ==
  ASSUME TypeOK, PendingIsWaiting, Next, NEW d \in Calls
  PROVE  Sent(d) => Sent(d)' /\ target'[d] = target[d]
<1> USE DEF TypeOK, Sent
<1>1. ASSUME NEW e \in Calls, DispatchToClient(e)
      PROVE  Sent(d) => Sent(d)' /\ target'[d] = target[d]
  BY <1>1 DEF DispatchToClient
<1>2. ASSUME NEW e \in Calls, Timeout(e)
      PROVE  Sent(d) => Sent(d)' /\ target'[d] = target[d]
  BY <1>2 DEF Timeout
<1>3. ASSUME NEW s \in Sockets, ReceiveReply(s)
      PROVE  Sent(d) => Sent(d)' /\ target'[d] = target[d]
  BY <1>3 DEF ReceiveReply, HandleReply, dispatchVars
<1>4. ASSUME NEW s \in Sockets, ReceiveOnline(s) \/ ReceiveOffline(s) \/ Disconnect(s)
      PROVE  UNCHANGED <<outcome, target>>
  BY <1>4 DEF ReceiveOnline, ReceiveOffline, Disconnect, dispatchVars
<1>5. ASSUME TabStep PROVE UNCHANGED <<outcome, target>>
  BY <1>5 DEF TabStep, Open, InitClientSocket, Unload, LoseLink, Reconnect,
              ReceiveDispatch, RunDispatched, SendReply, dispatchVars
<1>6. QED  BY <1>1, <1>2, <1>3, <1>4, <1>5 DEF Next, ServerStep

\* A call is carried out by a tab that runs it.
LEMMA ExecutedStep ==
  ASSUME TypeOK, Next, NEW d \in Calls
  PROVE  \/ executed'[d] = executed[d]
         \/ \E t \in Tabs : /\ work[t][d] = "running" /\ work'[t][d] \in {"done", "failed"}
                            /\ executed'[d] = Append(executed[d], t)
<1>1. ASSUME NEW t \in Tabs, NEW e \in Calls, RunDispatched(t, e), executed' # executed
      PROVE  /\ work[t][e] = "running" /\ work'[t][e] \in {"done", "failed"}
             /\ executed' = [executed EXCEPT ![e] = Append(executed[e], t)]
  <2>1. PICK v \in {"done", "failed"} : work' = [work EXCEPT ![t][e] = v]
    BY <1>1 DEF RunDispatched
  <2>2. work'[t][e] \in {"done", "failed"}
    BY <2>1, WorkEffect DEF TypeOK, Progress
  <2>3. QED  BY <1>1, <2>2 DEF RunDispatched
<1>2. CASE \E t \in Tabs, e \in Calls : RunDispatched(t, e) /\ executed' # executed
  BY <1>1, <1>2 DEF TypeOK
<1>3. ASSUME ~\E t \in Tabs, e \in Calls : RunDispatched(t, e) /\ executed' # executed
      PROVE  executed' = executed
  BY <1>3 DEF Next, ServerStep, TabStep, DispatchToClient, Timeout, ReceiveOnline,
              ReceiveOffline, ReceiveReply, Receive, Disconnect, Open, InitClientSocket,
              Unload, LoseLink, Reconnect, ReceiveDispatch, SendReply
<1>4. QED  BY <1>2, <1>3

\* A queue to a tab gains a call that is dispatched, loses its head, is cut off,
\* or stays.
QueueStep(s) ==
  \/ toClient'[s] = toClient[s]
  \/ toClient'[s] = <<>>
  \/ toClient[s] # <<>> /\ toClient'[s] = Tail(toClient[s])
  \/ \E d \in Calls : /\ ~Sent(d) /\ Sent(d)' /\ target'[d] = SocketUser[s]
                      /\ sock[s] = "open"
                      /\ toClient'[s] = Append(toClient[s], d)

LEMMA QueueEffect ==
  ASSUME TypeOK, Next, NEW s \in Sockets
  PROVE  QueueStep(s)
<1> USE DEF TypeOK
<1>1. ASSUME NEW d \in Calls, DispatchToClient(d) PROVE QueueStep(s)
  <2>1. CASE PickGm = None
    BY <1>1, <2>1 DEF DispatchToClient, QueueStep
  <2>2. CASE PickGm # None
    <3>1. PickGm \in Users
      BY <2>2 DEF PickGm, PresenceTypeOK
    <3>2. \/ toClient'[s] = toClient[s]
          \/ toClient'[s] = Append(toClient[s], d) /\ sock[s] = "open" /\ SocketUser[s] = PickGm
      BY <1>1, <2>2, <3>1, EmitTypes DEF DispatchToClient
    <3>3. ~Sent(d) /\ Sent(d)' /\ target'[d] = PickGm
      BY <1>1, <2>2 DEF DispatchToClient, Sent
    <3> HIDE DEF PickGm
    <3>4. QED  BY <3>2, <3>3 DEF QueueStep
  <2>3. QED  BY <2>1, <2>2
<1>2. ASSUME NEW x \in Sockets, Disconnect(x) PROVE QueueStep(s)
  BY <1>2 DEF Disconnect, QueueStep
<1>3. ASSUME NEW t \in Tabs, LoseLink(t) PROVE QueueStep(s)
  BY <1>3 DEF LoseLink, QueueStep
<1>4. ASSUME NEW t \in Tabs, ReceiveDispatch(t) PROVE QueueStep(s)
  BY <1>4 DEF ReceiveDispatch, QueueStep
<1>5. ASSUME NEW d \in Calls, Timeout(d) PROVE UNCHANGED toClient
  BY <1>5 DEF Timeout, netVars
<1>6. ASSUME NEW x \in Sockets, ReceiveOnline(x) \/ ReceiveOffline(x) \/ ReceiveReply(x)
      PROVE  UNCHANGED toClient
  BY <1>6 DEF ReceiveOnline, ReceiveOffline, ReceiveReply, Receive
<1>7. ASSUME NEW t \in Tabs, Open(t) \/ InitClientSocket(t) \/ Unload(t) \/ Reconnect(t)
      PROVE  UNCHANGED toClient
  BY <1>7 DEF Open, InitClientSocket, Unload, Reconnect
<1>8. ASSUME NEW t \in Tabs, NEW d \in Calls, RunDispatched(t, d) \/ SendReply(t, d)
      PROVE  UNCHANGED toClient
  BY <1>8 DEF RunDispatched, SendReply, netVars
<1>9. QED
  BY <1>1, <1>2, <1>3, <1>4, <1>5, <1>6, <1>7, <1>8 DEF Next, ServerStep, TabStep, QueueStep

\* A tab keeps its connection, gives it up, or gets a socket nobody has had; a
\* socket that was given out stays so.
LEMMA LinkEffect ==
  ASSUME TypeOK, Next
  PROVE  /\ \A t \in Tabs : \/ link'[t] = link[t]
                            \/ link'[t] = None
                            \/ /\ link'[t] \in Sockets /\ SocketTab[link'[t]] = t
                               /\ sock[link'[t]] = "unused" /\ sock'[link'[t]] # "unused"
                               /\ UNCHANGED toClient
         /\ \A s \in Sockets : sock'[s] = "unused" => sock[s] = "unused"
<1> USE DEF TypeOK
<1> DEFINE P == /\ \A t \in Tabs : \/ link'[t] = link[t]
                                   \/ link'[t] = None
                                   \/ /\ link'[t] \in Sockets /\ SocketTab[link'[t]] = t
                                      /\ sock[link'[t]] = "unused" /\ sock'[link'[t]] # "unused"
                                      /\ UNCHANGED toClient
                /\ \A s \in Sockets : sock'[s] = "unused" => sock[s] = "unused"
<1>1. ASSUME NEW t \in Tabs, Open(t) \/ Reconnect(t) PROVE P
  <2>1. PICK s \in Sockets : /\ SocketTab[s] = t /\ sock[s] = "unused"
                             /\ sock' = [sock EXCEPT ![s] = "open"]
                             /\ link' = [link EXCEPT ![t] = s]
    BY <1>1 DEF Open, Reconnect
  <2>2. UNCHANGED toClient
    BY <1>1 DEF Open, Reconnect
  <2>3. QED  BY <2>1, <2>2
<1>2. ASSUME NEW s \in Sockets, Disconnect(s) PROVE P
  BY <1>2 DEF Disconnect, tabVars
<1>3. ASSUME NEW t \in Tabs, Unload(t) \/ LoseLink(t) PROVE P
  BY <1>3 DEF Unload, LoseLink
<1>4. ASSUME NEW d \in Calls, DispatchToClient(d) \/ Timeout(d) PROVE UNCHANGED <<sock, link>>
  BY <1>4 DEF DispatchToClient, Timeout, netVars, tabVars
<1>5. ASSUME NEW s \in Sockets, ReceiveOnline(s) \/ ReceiveOffline(s) \/ ReceiveReply(s)
      PROVE  UNCHANGED <<sock, link>>
  BY <1>5 DEF ReceiveOnline, ReceiveOffline, ReceiveReply, Receive, tabVars
<1>6. ASSUME NEW t \in Tabs, InitClientSocket(t) \/ ReceiveDispatch(t)
      PROVE  UNCHANGED <<sock, link>>
  BY <1>6 DEF InitClientSocket, ReceiveDispatch
<1>7. ASSUME NEW t \in Tabs, NEW d \in Calls, RunDispatched(t, d) \/ SendReply(t, d)
      PROVE  UNCHANGED <<sock, link>>
  BY <1>7 DEF RunDispatched, SendReply, netVars
<1>8. UNCHANGED <<sock, link>> => P
  OBVIOUS
<1> HIDE DEF P
<1>9. P
  BY <1>1, <1>2, <1>3, <1>4, <1>5, <1>6, <1>7, <1>8 DEF Next, ServerStep, TabStep
<1>10. QED  BY <1>9 DEF P

\* A tab begins to work on a call when it reads it, reports what it has carried
\* out when it is done, and otherwise stays where it is or stops.
WorkStep(t, d) ==
  \/ work'[t][d] = work[t][d]
  \/ work'[t][d] = "none"
  \/ /\ work'[t][d] = "running"
     /\ link[t] # None /\ link'[t] = link[t]
     /\ toClient[link[t]] # <<>> /\ d = Head(toClient[link[t]])
     /\ toClient'[link[t]] = Tail(toClient[link[t]])
     /\ UNCHANGED executed
  \/ /\ work[t][d] = "running" /\ work'[t][d] = "failed"
  \/ /\ work[t][d] = "running" /\ work'[t][d] = "done"
     /\ executed' = [executed EXCEPT ![d] = Append(executed[d], t)]

LEMMA WorkChange ==
  ASSUME TypeOK, Next, NEW t \in Tabs, NEW d \in Calls
  PROVE  WorkStep(t, d)
<1>0. /\ work \in [Tabs -> [Calls -> Progress]] /\ link \in [Tabs -> Sockets \cup {None}]
      /\ toClient \in [Sockets -> Seq(Calls)] /\ executed \in [Calls -> Seq(Tabs)]
  BY DEF TypeOK, Progress
<1>1. ASSUME NEW x \in Tabs, Unload(x) PROVE WorkStep(t, d)
  BY <1>0, <1>1 DEF Unload, WorkStep
<1>2. ASSUME NEW x \in Tabs, ReceiveDispatch(x) PROVE WorkStep(t, d)
  <2> DEFINE e == Head(toClient[link[x]])
  <2>1. link[x] \in Sockets /\ toClient[link[x]] # <<>> /\ e \in Calls
        /\ toClient'[link[x]] = Tail(toClient[link[x]])
        /\ UNCHANGED <<link, executed>>
    BY <1>0, <1>2, ContainsTail DEF ReceiveDispatch
  <2>2. work' = work \/ work' = [work EXCEPT ![x][e] = "running"]
    BY <1>2 DEF ReceiveDispatch
  <2>3. CASE work' = [work EXCEPT ![x][e] = "running"]
    <3>1. "running" \in Progress
      BY DEF Progress
    <3>2. work'[t][d] = IF t = x /\ d = e THEN "running" ELSE work[t][d]
      <4> HIDE DEF e, Progress
      <4>1. QED  BY <1>0, <2>1, <2>3, <3>1, WorkEffect
    <3>3. QED  BY <2>1, <3>2, NoneAssumption DEF WorkStep
  <2>4. QED  BY <2>2, <2>3 DEF WorkStep
<1>3. ASSUME NEW x \in Tabs, NEW e \in Calls, RunDispatched(x, e) PROVE WorkStep(t, d)
  <2>1. PICK v \in {"done", "failed"} :
          /\ work' = [work EXCEPT ![x][e] = v]
          /\ v = "done" => executed' = [executed EXCEPT ![e] = Append(executed[e], x)]
    BY <1>3 DEF RunDispatched
  <2>2. work'[t][d] = IF t = x /\ d = e THEN v ELSE work[t][d]
    <3>1. v \in Progress
      BY DEF Progress
    <3> HIDE DEF Progress
    <3>2. QED  BY <1>0, <2>1, <3>1, WorkEffect
  <2>3. QED  BY <1>3, <2>1, <2>2 DEF WorkStep, RunDispatched
<1>4. ASSUME NEW x \in Tabs, NEW e \in Calls, SendReply(x, e) PROVE WorkStep(t, d)
  <2>1. work' = [work EXCEPT ![x][e] = "none"] /\ "none" \in Progress
    BY <1>4 DEF SendReply, Progress
  <2>2. work'[t][d] = IF t = x /\ d = e THEN "none" ELSE work[t][d]
    <3> HIDE DEF Progress
    <3>1. QED  BY <1>0, <2>1, WorkEffect
  <2>3. QED  BY <2>2 DEF WorkStep
<1>5. ASSUME ServerStep PROVE UNCHANGED work
  BY <1>5 DEF ServerStep, DispatchToClient, Timeout, ReceiveOnline, ReceiveOffline,
              ReceiveReply, Receive, Disconnect, tabVars
<1>6. ASSUME NEW x \in Tabs, Open(x) \/ InitClientSocket(x) \/ LoseLink(x) \/ Reconnect(x)
      PROVE  UNCHANGED work
  BY <1>6 DEF Open, InitClientSocket, LoseLink, Reconnect
<1>7. QED
  BY <1>1, <1>2, <1>3, <1>4, <1>5, <1>6 DEF Next, TabStep, WorkStep

-----------------------------------------------------------------------------
(***************************************************************************)
(* Each part of the invariant after a step.                                *)
(***************************************************************************)
LEMMA QueuesStep ==
  ASSUME TypeOK, PendingIsWaiting, QueuesOfTarget, Next
  PROVE  QueuesOfTarget'
<1> SUFFICES ASSUME NEW s \in Sockets
             PROVE  /\ IsInjective(toClient'[s])
                    /\ \A d \in Calls : Contains(toClient'[s], d)
                         => Sent(d)' /\ target'[d] = SocketUser[s]
  BY DEF QueuesOfTarget
<1>1. /\ toClient[s] \in Seq(Calls) /\ IsInjective(toClient[s])
      /\ \A d \in Calls : Contains(toClient[s], d) => Sent(d) /\ target[d] = SocketUser[s]
  BY DEF TypeOK, QueuesOfTarget
<1>2. \A d \in Calls : Sent(d) => Sent(d)' /\ target'[d] = target[d]
  BY SentStep
<1>3. CASE toClient'[s] = toClient[s]
  BY <1>1, <1>2, <1>3
<1>4. CASE toClient'[s] = <<>>
  BY <1>4, EmptyQueue
<1>5. CASE toClient[s] # <<>> /\ toClient'[s] = Tail(toClient[s])
  BY <1>1, <1>2, <1>5, ContainsTail, InjectiveTail
<1>6. ASSUME NEW e \in Calls, ~Sent(e), Sent(e)', target'[e] = SocketUser[s],
             toClient'[s] = Append(toClient[s], e)
      PROVE  /\ IsInjective(toClient'[s])
             /\ \A d \in Calls : Contains(toClient'[s], d)
                  => Sent(d)' /\ target'[d] = SocketUser[s]
  <2>1. ~Contains(toClient[s], e)
    BY <1>1, <1>6
  <2>2. \A y : Contains(toClient'[s], y) <=> y = e \/ Contains(toClient[s], y)
    BY <1>1, <1>6, ContainsAppend
  <2>3. IsInjective(toClient'[s])
    BY <1>1, <1>6, <2>1, InjectiveAppend
  <2>4. QED  BY <1>1, <1>2, <1>6, <2>2, <2>3
<1>7. QED  BY <1>3, <1>4, <1>5, <1>6, QueueEffect DEF QueueStep

LEMMA LinksStep ==
  ASSUME TypeOK, LinksAreOwn, Next
  PROVE  LinksAreOwn'
<1>1. ASSUME NEW t \in Tabs, link'[t] # None
      PROVE  SocketTab[link'[t]] = t /\ sock'[link'[t]] # "unused"
  BY <1>1, LinkEffect DEF LinksAreOwn, TypeOK
<1>2. ASSUME NEW s \in Sockets, sock'[s] = "unused"
      PROVE  toClient'[s] = <<>>
  <2>1. sock[s] = "unused" /\ toClient[s] = <<>>
    BY <1>2, LinkEffect DEF LinksAreOwn
  <2>2. QED  BY <2>1, QueueEffect DEF QueueStep
<1>3. QED  BY <1>1, <1>2 DEF LinksAreOwn

LEMMA ExecutedKept ==
  ASSUME TypeOK, Next, NEW d \in Calls
  PROVE  /\ executed[d] # <<>> => executed'[d] # <<>>
         /\ \A t \in Tabs : Contains(executed'[d], t) =>
              \/ Contains(executed[d], t)
              \/ /\ work[t][d] = "running" /\ work'[t][d] \in {"done", "failed"}
<1>1. executed[d] \in Seq(Tabs)
  BY DEF TypeOK
<1>2. CASE executed'[d] = executed[d]
  BY <1>2
<1>3. ASSUME NEW x \in Tabs, work[x][d] = "running", work'[x][d] \in {"done", "failed"},
             executed'[d] = Append(executed[d], x)
      PROVE  /\ executed'[d] # <<>>
             /\ \A t \in Tabs : Contains(executed'[d], t) => t = x \/ Contains(executed[d], t)
  BY <1>1, <1>3, ContainsAppend
<1>4. QED  BY <1>2, <1>3, ExecutedStep

LEMMA WorkSentStep ==
  ASSUME TypeOK, PendingIsWaiting, QueuesOfTarget, LinksAreOwn, WorkIsSent, Next
  PROVE  WorkIsSent'
<1> SUFFICES ASSUME NEW t \in Tabs, NEW d \in Calls
             PROVE  /\ work'[t][d] # "none" => Sent(d)' /\ TabIsOf(t, target'[d])
                    /\ work'[t][d] = "done" => executed'[d] # <<>>
  BY DEF WorkIsSent, TabIsOf
<1>1. /\ work[t][d] # "none" => Sent(d) /\ TabIsOf(t, target[d])
      /\ work[t][d] = "done" => executed[d] # <<>>
  BY DEF WorkIsSent
<1>2. Sent(d) => Sent(d)' /\ target'[d] = target[d]
  BY SentStep
<1>3. executed[d] # <<>> => executed'[d] # <<>>
  BY ExecutedKept
<1>4. CASE work'[t][d] \in {work[t][d], "none", "failed"} /\ (work'[t][d] = "failed" => work[t][d] # "none")
  BY <1>1, <1>2, <1>3, <1>4
<1>5. CASE /\ work'[t][d] = "running"
           /\ link[t] # None /\ toClient[link[t]] # <<>> /\ d = Head(toClient[link[t]])
  <2>1. link[t] \in Sockets /\ SocketTab[link[t]] = t /\ toClient[link[t]] \in Seq(Calls)
    BY <1>5 DEF LinksAreOwn, TypeOK
  <2>2. Contains(toClient[link[t]], d)
    BY <1>5, <2>1, ContainsTail
  <2>3. Sent(d) /\ target[d] = SocketUser[link[t]]
    BY <2>1, <2>2 DEF QueuesOfTarget
  <2>4. TabIsOf(t, target[d])
    BY <2>1, <2>3 DEF TabIsOf
  <2>5. QED  BY <1>2, <1>5, <2>3, <2>4
<1>6. CASE /\ work[t][d] = "running" /\ work'[t][d] = "done"
           /\ executed' = [executed EXCEPT ![d] = Append(executed[d], t)]
  <2>1. executed[d] \in Seq(Tabs) /\ executed'[d] = Append(executed[d], t)
    BY <1>6 DEF TypeOK
  <2>2. executed'[d] # <<>>
    BY <2>1, ContainsAppend
  <2>3. QED  BY <1>1, <1>2, <1>6, <2>2
<1>7. QED  BY <1>4, <1>5, <1>6, WorkChange DEF WorkStep

LEMMA NotReadAgainStep ==
  ASSUME TypeOK, PendingIsWaiting, QueuesOfTarget, LinksAreOwn, WorkIsSent, NotReadAgain,
         ExecutedBySent, Next
  PROVE  NotReadAgain'
<1> SUFFICES ASSUME NEW t \in Tabs, NEW d \in Calls
             PROVE  /\ work'[t][d] = "running" => ~Contains(executed'[d], t)
                    /\ work'[t][d] # "none" \/ Contains(executed'[d], t) =>
                         link'[t] = None \/ ~Contains(toClient'[link'[t]], d)
  BY DEF NotReadAgain
<1>0. /\ work[t][d] = "running" => ~Contains(executed[d], t)
      /\ work[t][d] # "none" \/ Contains(executed[d], t) =>
           link[t] = None \/ ~Contains(toClient[link[t]], d)
      /\ work[t][d] # "none" \/ Contains(executed[d], t) => Sent(d)
      /\ link[t] \in Sockets \cup {None}
      /\ \A s \in Sockets : toClient[s] \in Seq(Calls) /\ IsInjective(toClient[s])
  BY DEF NotReadAgain, WorkIsSent, ExecutedBySent, TypeOK, QueuesOfTarget
<1> DEFINE Reads == /\ link[t] # None /\ link'[t] = link[t]
                    /\ toClient[link[t]] # <<>> /\ d = Head(toClient[link[t]])
                    /\ toClient'[link[t]] = Tail(toClient[link[t]])
                    /\ UNCHANGED executed
<1>1. work'[t][d] = "running" => ~Contains(executed'[d], t)
  <2>1. CASE Reads
    <3>1. Contains(toClient[link[t]], d)
      BY <1>0, <2>1, ContainsTail
    <3>2. QED  BY <1>0, <2>1, <3>1
  <2>2. ASSUME work'[t][d] = "running", ~Reads PROVE work[t][d] = "running"
    BY <2>2, WorkChange DEF WorkStep
  <2> HIDE DEF Reads
  <2>3. Contains(executed'[d], t) => Contains(executed[d], t) \/ work'[t][d] \in {"done", "failed"}
    BY ExecutedKept
  <2>4. QED  BY <1>0, <2>1, <2>2, <2>3
<1>2. work'[t][d] # "none" \/ Contains(executed'[d], t) =>
        Reads \/ work[t][d] # "none" \/ Contains(executed[d], t)
  BY WorkChange, ExecutedKept DEF WorkStep
<1>3. CASE link'[t] \in Sockets /\ sock[link'[t]] = "unused" /\ UNCHANGED toClient
  <2>1. toClient'[link'[t]] = <<>>
    BY <1>3 DEF LinksAreOwn
  <2>2. ~Contains(toClient'[link'[t]], d)
    BY <2>1, EmptyQueue
  <2>3. QED  BY <1>1, <2>2
<1>4. CASE link'[t] = None
  BY <1>1, <1>4
<1>5. ASSUME link'[t] = link[t], link[t] # None, Reads
      PROVE  ~Contains(toClient'[link[t]], d)
  BY <1>0, <1>5, InjectiveTail
<1>6. ASSUME link'[t] = link[t], link[t] # None,
             work[t][d] # "none" \/ Contains(executed[d], t)
      PROVE  ~Contains(toClient'[link[t]], d)
  <2>1. PICK s \in Sockets : s = link[t]
    BY <1>0, <1>6
  <2>2. toClient[s] \in Seq(Calls) /\ ~Contains(toClient[s], d) /\ Sent(d)
    BY <1>0, <1>6, <2>1
  <2> SUFFICES ~Contains(toClient'[s], d)
    BY <2>1
  <2>3. CASE toClient'[s] = toClient[s]
    BY <2>2, <2>3
  <2>4. CASE toClient'[s] = <<>>
    BY <2>4, EmptyQueue
  <2>5. CASE toClient[s] # <<>> /\ toClient'[s] = Tail(toClient[s])
    BY <2>2, <2>5, ContainsTail
  <2>6. ASSUME NEW e \in Calls, ~Sent(e), toClient'[s] = Append(toClient[s], e)
        PROVE  ~Contains(toClient'[s], d)
    BY <2>2, <2>6, ContainsAppend
  <2>7. QED  BY <2>3, <2>4, <2>5, <2>6, QueueEffect DEF QueueStep
<1> HIDE DEF Reads
<1>7. QED  BY <1>1, <1>2, <1>3, <1>4, <1>5, <1>6, LinkEffect

LEMMA ExecutedBySentStep ==
  ASSUME TypeOK, PendingIsWaiting, WorkIsSent, NotReadAgain, ExecutedBySent, Next
  PROVE  ExecutedBySent'
<1> SUFFICES ASSUME NEW d \in Calls
             PROVE  /\ IsInjective(executed'[d])
                    /\ \A t \in Tabs : Contains(executed'[d], t)
                         => Sent(d)' /\ TabIsOf(t, target'[d])
  BY DEF ExecutedBySent, TabIsOf
<1>1. executed[d] \in Seq(Tabs) /\ IsInjective(executed[d])
  BY DEF TypeOK, ExecutedBySent
<1>2. \A t \in Tabs : Contains(executed'[d], t) => Sent(d)' /\ TabIsOf(t, target'[d])
  <2>1. ASSUME NEW t \in Tabs, Contains(executed'[d], t)
        PROVE  Sent(d) /\ TabIsOf(t, target[d])
    BY <2>1, ExecutedKept DEF ExecutedBySent, WorkIsSent
  <2>2. QED  BY <2>1, SentStep
<1>3. IsInjective(executed'[d])
  <2>1. ASSUME NEW t \in Tabs, work[t][d] = "running", executed'[d] = Append(executed[d], t)
        PROVE  IsInjective(executed'[d])
    <3>1. ~Contains(executed[d], t)
      BY <2>1 DEF NotReadAgain
    <3>2. QED  BY <1>1, <2>1, <3>1, InjectiveAppend
  <2>2. QED  BY <1>1, <2>1, ExecutedStep
<1>4. QED  BY <1>2, <1>3

\* What travels to the server: a step adds a report of success only for a call
\* that its tab has carried out.
LEMMA RepliesStep ==
  ASSUME TypeOK, WorkIsSent, RepliesAreTrue, Next
  PROVE  RepliesAreTrue'
<1> SUFFICES ASSUME NEW d \in Calls, ReportedOk(d)' PROVE executed'[d] # <<>>
  BY DEF RepliesAreTrue
<1> DEFINE r == ReplyMsg(d, TRUE)
           NoNews == /\ \A s \in Sockets : Contains(toServer'[s], r) => ReportedOk(d)
                     /\ \A t \in Tabs : Contains(outbox'[t], r) => ReportedOk(d)
<1>0. /\ toServer \in [Sockets -> Seq(ServerMsgs)] /\ outbox \in [Tabs -> Seq(ServerMsgs)]
      /\ link \in [Tabs -> Sockets \cup {None}]
  BY DEF TypeOK
<1>1. NoNews => executed'[d] # <<>>
  <2>1. NoNews => ReportedOk(d)
    BY DEF ReportedOk
  <2>2. QED  BY <2>1, ExecutedKept DEF RepliesAreTrue
<1>2. UNCHANGED <<toServer, outbox>> => NoNews
  BY DEF ReportedOk
<1>3. ASSUME NEW t \in Tabs, NEW m \in ServerMsgs, Emit(t, m), m # r
      PROVE  NoNews
  BY <1>3, EmitEffect DEF ReportedOk
<1>4. ASSUME NEW s \in Sockets, ReceiveOnline(s) \/ ReceiveOffline(s) \/ ReceiveReply(s)
      PROVE  NoNews
  <2>1. /\ toServer[s] \in Seq(ServerMsgs) /\ toServer[s] # <<>> /\ UNCHANGED outbox
        /\ toServer' = [toServer EXCEPT ![s] = Tail(toServer[s])]
    BY <1>0, <1>4 DEF ReceiveOnline, ReceiveOffline, ReceiveReply, Receive, tabVars
  <2>2. \A y : Contains(Tail(toServer[s]), y) => Contains(toServer[s], y)
    BY <2>1, ContainsTail
  <2>3. QED  BY <1>0, <2>1, <2>2 DEF ReportedOk
<1>5. ASSUME NEW s \in Sockets, Disconnect(s) PROVE NoNews
  <2>1. UNCHANGED outbox /\ toServer' = [toServer EXCEPT ![s] = <<>>]
    BY <1>5 DEF Disconnect, tabVars
  <2>2. QED  BY <1>0, <2>1, EmptyQueue DEF ReportedOk
<1>6. ASSUME NEW t \in Tabs, InitClientSocket(t) PROVE NoNews
  <2>1. Emit(t, OnlineMsg)
    BY <1>6 DEF InitClientSocket
  <2> HIDE DEF NoNews, r
  <2>2. QED  BY <1>3, <2>1, MessageTypes DEF r
<1>7. ASSUME NEW t \in Tabs, Unload(t) PROVE NoNews
  <2>1. outbox' = [outbox EXCEPT ![t] = <<>>]
    BY <1>7 DEF Unload
  <2>2. \A x \in Tabs : Contains(outbox'[x], r) => ReportedOk(d)
    BY <1>0, <2>1, EmptyQueue DEF ReportedOk
  <2>3. CASE UNCHANGED toServer
    BY <2>2, <2>3 DEF ReportedOk
  <2>4. CASE /\ link[t] # None
             /\ toServer' = [toServer EXCEPT ![link[t]] = Append(toServer[link[t]], OfflineMsg)]
    <3>1. PICK s \in Sockets : s = link[t]
      BY <1>0, <2>4
    <3>2. \A y : Contains(Append(toServer[s], OfflineMsg), y)
                   <=> y = OfflineMsg \/ Contains(toServer[s], y)
      BY <1>0, ContainsAppend, MessageTypes
    <3>3. r # OfflineMsg
      BY MessageTypes
    <3> HIDE DEF r
    <3>4. \A x \in Sockets : Contains(toServer'[x], r) => Contains(toServer[x], r)
      BY <1>0, <2>4, <3>1, <3>2, <3>3
    <3>5. QED  BY <2>2, <3>4 DEF ReportedOk, r
  <2>5. QED  BY <1>7, <2>3, <2>4 DEF Unload
<1>8. ASSUME NEW t \in Tabs, Reconnect(t) PROVE NoNews
  <2>1. PICK s \in Sockets : toServer' = [toServer EXCEPT ![s] = outbox[t]]
    BY <1>8 DEF Reconnect
  <2>2. outbox' = [outbox EXCEPT ![t] = <<>>]
    BY <1>8 DEF Reconnect
  <2>3. QED  BY <1>0, <2>1, <2>2, EmptyQueue DEF ReportedOk
<1>9. ASSUME NEW t \in Tabs, NEW e \in Calls, SendReply(t, e)
      PROVE  NoNews \/ executed'[d] # <<>>
  <2> DEFINE ok == work[t][e] = "done"
  <2>1. Emit(t, ReplyMsg(e, ok)) /\ UNCHANGED executed /\ ok \in BOOLEAN
    BY <1>9 DEF SendReply
  <2>2. CASE ReplyMsg(e, ok) = r
    <3>1. d = e /\ ok
      BY <2>1, <2>2, MessageTypes
    <3>2. QED  BY <2>1, <3>1 DEF WorkIsSent
  <2>3. CASE ReplyMsg(e, ok) # r
    <3>1. ReplyMsg(e, ok) \in ServerMsgs
      BY <2>1, MessageTypes
    <3> HIDE DEF NoNews, r, ok
    <3>2. QED  BY <1>3, <2>1, <2>3, <3>1
  <2>4. QED  BY <2>2, <2>3
<1>10. ASSUME NEW e \in Calls, DispatchToClient(e) \/ Timeout(e)
       PROVE  UNCHANGED <<toServer, outbox>>
  BY <1>10 DEF DispatchToClient, Timeout, netVars, tabVars
<1>11. ASSUME NEW t \in Tabs,
              \/ Open(t) \/ LoseLink(t) \/ ReceiveDispatch(t)
              \/ \E e \in Calls : RunDispatched(t, e)
       PROVE  UNCHANGED <<toServer, outbox>>
  BY <1>11 DEF Open, LoseLink, ReceiveDispatch, RunDispatched, netVars
<1> HIDE DEF NoNews
<1>12. QED
  BY <1>1, <1>2, <1>4, <1>5, <1>6, <1>7, <1>8, <1>9, <1>10, <1>11
     DEF Next, ServerStep, TabStep

LEMMA PendingStep ==
  ASSUME TypeOK, PendingIsWaiting, Next
  PROVE  PendingIsWaiting'
<1> USE DEF TypeOK, PendingIsWaiting
<1>1. ASSUME NEW d \in Calls, DispatchToClient(d) PROVE PendingIsWaiting'
  BY <1>1 DEF DispatchToClient
<1>2. ASSUME NEW d \in Calls, Timeout(d) PROVE PendingIsWaiting'
  BY <1>2 DEF Timeout
<1>3. ASSUME NEW s \in Sockets, ReceiveReply(s) PROVE PendingIsWaiting'
  BY <1>3 DEF ReceiveReply, HandleReply, dispatchVars
<1>4. ASSUME NEW s \in Sockets, ReceiveOnline(s) \/ ReceiveOffline(s) \/ Disconnect(s)
      PROVE  UNCHANGED <<pending, outcome>>
  BY <1>4 DEF ReceiveOnline, ReceiveOffline, Disconnect, dispatchVars
<1>5. ASSUME TabStep PROVE UNCHANGED <<pending, outcome>>
  BY <1>5 DEF TabStep, Open, InitClientSocket, Unload, LoseLink, Reconnect,
              ReceiveDispatch, RunDispatched, SendReply, dispatchVars
<1>6. QED  BY <1>1, <1>2, <1>3, <1>4, <1>5 DEF Next, ServerStep

\* The disconnect of a socket takes the entry that names it along, if there is
\* one: here the two Maps must agree.
LEMMA NoGhostStep ==
  ASSUME TypeOK, PresenceInv, NoGhostGm, Next
  PROVE  NoGhostGm'
<1> SUFFICES ASSUME NEW u \in Users, gmSocket'[u] # None
             PROVE  SocketUser[gmSocket'[u]] = u /\ sock'[gmSocket'[u]] = "open"
  BY DEF NoGhostGm, IsUserConnectedGm
<1>0. /\ sock \in [Sockets -> {"unused", "open", "gone"}]
      /\ gmSocket \in [Users -> Sockets \cup {None}]
      /\ socketToUser \in [Sockets -> Users \cup {None}]
      /\ gmSocket[u] # None => SocketUser[gmSocket[u]] = u /\ sock[gmSocket[u]] = "open"
  BY DEF TypeOK, PresenceTypeOK, NoGhostGm, IsUserConnectedGm
<1>1. ASSUME NEW s \in Sockets, ReceiveOnline(s)
      PROVE  SocketUser[gmSocket'[u]] = u /\ sock'[gmSocket'[u]] = "open"
  <2>1. gmSocket' = [gmSocket EXCEPT ![SocketUser[s]] = s] /\ sock[s] = "open" /\ sock' = sock
    BY <1>1 DEF ReceiveOnline, Receive, RecordOnline
  <2>2. QED  BY <1>0, <2>1
<1>2. ASSUME NEW v \in Users, RecordOfflineByUser(v)
      PROVE  gmSocket'[u] = gmSocket[u] /\ (u = v => gmSocket[v] = None)
  BY <1>0, <1>2 DEF RecordOfflineByUser, IsUserConnectedGm, presenceVars
<1>3. ASSUME NEW s \in Sockets, ReceiveOffline(s)
      PROVE  SocketUser[gmSocket'[u]] = u /\ sock'[gmSocket'[u]] = "open"
  <2>1. RecordOfflineByUser(SocketUser[s]) /\ sock' = sock
    BY <1>3 DEF ReceiveOffline, Receive
  <2>2. gmSocket'[u] = gmSocket[u]
    BY <1>2, <2>1, SocketUserAssumption
  <2>3. QED  BY <1>0, <2>1, <2>2
<1>4. ASSUME NEW s \in Sockets, Disconnect(s)
      PROVE  SocketUser[gmSocket'[u]] = u /\ sock'[gmSocket'[u]] = "open"
  <2>1. RecordOfflineBySocket(s) /\ sock' = [sock EXCEPT ![s] = "gone"]
    BY <1>4 DEF Disconnect
  <2>2. gmSocket[u] = s <=> socketToUser[s] = u
    BY DEF PresenceInv, IndexesAgree
  <2>3. gmSocket'[u] = gmSocket[u] /\ gmSocket[u] # s
    <3>1. CASE socketToUser[s] = None
      BY <2>1, <2>2, <3>1, NoneAssumption DEF RecordOfflineBySocket, presenceVars
    <3>2. CASE socketToUser[s] # None
      <4>1. socketToUser[s] \in Users /\ RecordOfflineByUser(socketToUser[s])
        BY <1>0, <2>1, <3>2 DEF RecordOfflineBySocket
      <4>2. gmSocket'[u] = gmSocket[u] /\ (u = socketToUser[s] => gmSocket[socketToUser[s]] = None)
        BY <1>2, <4>1
      <4>3. QED  BY <2>2, <4>2
    <3>3. QED  BY <3>1, <3>2
  <2>4. QED  BY <1>0, <2>1, <2>3
<1>5. ASSUME NEW t \in Tabs, Open(t) \/ Reconnect(t)
      PROVE  SocketUser[gmSocket'[u]] = u /\ sock'[gmSocket'[u]] = "open"
  <2>1. UNCHANGED gmSocket /\ \E s \in Sockets : sock' = [sock EXCEPT ![s] = "open"]
    BY <1>5 DEF Open, Reconnect, presenceVars
  <2>2. QED  BY <1>0, <2>1
<1>6. UNCHANGED <<gmSocket, sock>> => SocketUser[gmSocket'[u]] = u /\ sock'[gmSocket'[u]] = "open"
  BY <1>0
<1>7. ASSUME NEW d \in Calls, DispatchToClient(d) \/ Timeout(d) PROVE UNCHANGED <<gmSocket, sock>>
  BY <1>7 DEF DispatchToClient, Timeout, netVars, presenceVars
<1>8. ASSUME NEW s \in Sockets, ReceiveReply(s) PROVE UNCHANGED <<gmSocket, sock>>
  BY <1>8 DEF ReceiveReply, Receive, presenceVars
<1>9. ASSUME NEW t \in Tabs,
             \/ InitClientSocket(t) \/ Unload(t) \/ LoseLink(t) \/ ReceiveDispatch(t)
             \/ \E d \in Calls : RunDispatched(t, d) \/ SendReply(t, d)
      PROVE  UNCHANGED <<gmSocket, sock>>
  BY <1>9 DEF InitClientSocket, Unload, LoseLink, ReceiveDispatch, RunDispatched, SendReply,
              netVars, presenceVars
<1>10. QED
  BY <1>1, <1>3, <1>4, <1>5, <1>6, <1>7, <1>8, <1>9 DEF Next, ServerStep, TabStep

-----------------------------------------------------------------------------
LEMMA DispatchInit == Init => DispatchInv
<1> SUFFICES ASSUME Init PROVE DispatchInv
  OBVIOUS
<1>1. TypeOK
  BY EmptyOfType DEF Init, TypeOK, PresenceInit, PresenceTypeOK, Outcomes
<1>2. NoGhostGm /\ PendingIsWaiting /\ LinksAreOwn
  BY DEF Init, PresenceInit, NoGhostGm, IsUserConnectedGm, PendingIsWaiting, LinksAreOwn
<1>3. QueuesOfTarget /\ WorkIsSent /\ NotReadAgain /\ ExecutedBySent /\ RepliesAreTrue
  BY EmptyQueue DEF Init, QueuesOfTarget, WorkIsSent, NotReadAgain, ExecutedBySent,
                    RepliesAreTrue, ReportedOk
<1>4. QED  BY <1>1, <1>2, <1>3 DEF DispatchInv

LEMMA DispatchStep == DispatchInv /\ PresenceInv /\ PresenceInv' /\ [Next]_vars => DispatchInv'
<1> SUFFICES ASSUME DispatchInv, PresenceInv, PresenceInv', [Next]_vars PROVE DispatchInv'
  OBVIOUS
<1>1. CASE Next
  <2>1. TypeOK'
    BY <1>1, TypeStep DEF DispatchInv, PresenceInv
  <2>2. NoGhostGm' /\ PendingIsWaiting'
    BY <1>1, NoGhostStep, PendingStep DEF DispatchInv
  <2>3. QueuesOfTarget' /\ LinksAreOwn'
    BY <1>1, QueuesStep, LinksStep DEF DispatchInv
  <2>4. WorkIsSent' /\ NotReadAgain'
    BY <1>1, WorkSentStep, NotReadAgainStep DEF DispatchInv
  <2>5. ExecutedBySent' /\ RepliesAreTrue'
    BY <1>1, ExecutedBySentStep, RepliesStep DEF DispatchInv
  <2>6. QED  BY <2>1, <2>2, <2>3, <2>4, <2>5 DEF DispatchInv
<1>2. CASE UNCHANGED vars
  <2>1. TypeOK' /\ NoGhostGm' /\ PendingIsWaiting'
    BY <1>2 DEF DispatchInv, TypeOK, PresenceTypeOK, NoGhostGm, IsUserConnectedGm,
                PendingIsWaiting, vars, presenceVars, dispatchVars, netVars, tabVars
  <2>2. QueuesOfTarget' /\ LinksAreOwn' /\ WorkIsSent'
    BY <1>2 DEF DispatchInv, QueuesOfTarget, LinksAreOwn, WorkIsSent, Sent, TabIsOf,
                vars, dispatchVars, netVars, tabVars
  <2>3. NotReadAgain' /\ ExecutedBySent'
    BY <1>2 DEF DispatchInv, NotReadAgain, ExecutedBySent, Sent, TabIsOf,
                vars, dispatchVars, netVars, tabVars
  <2>4. RepliesAreTrue'
    <3>1. UNCHANGED <<toServer, outbox, executed>>
      BY <1>2 DEF vars, netVars, tabVars
    <3>2. QED  BY <3>1 DEF DispatchInv, RepliesAreTrue, ReportedOk
  <2>5. QED  BY <2>1, <2>2, <2>3, <2>4 DEF DispatchInv
<1>3. QED  BY <1>1, <1>2

\* The invariant of the dispatcher.
THEOREM DispatchInvariant == Spec => []DispatchInv
<1>1. QED  BY DispatchInit, DispatchStep, DispatchPresenceInvariant, PTL DEF Spec

\* The registry lists nobody who is gone.
THEOREM NoGhosts == Spec => []NoGhostGm
<1>1. DispatchInv => NoGhostGm
  BY DEF DispatchInv
<1>2. QED  BY <1>1, DispatchInvariant, PTL

\* A call waits exactly as long as its timer is armed.
THEOREM TimersArmed == Spec => []PendingIsWaiting
<1>1. DispatchInv => PendingIsWaiting
  BY DEF DispatchInv
<1>2. QED  BY <1>1, DispatchInvariant, PTL

\* Only browsers of the chosen GM carry a call out.
THEOREM TargetExecutes == Spec => []OnlyTargetExecutes
<1>1. DispatchInv => OnlyTargetExecutes
  <2> SUFFICES ASSUME DispatchInv, NEW d \in Calls, NEW i \in 1..Len(executed[d])
               PROVE  TabIsOf(executed[d][i], target[d])
    BY DEF OnlyTargetExecutes
  <2>1. executed[d][i] \in Tabs
    BY DEF DispatchInv, TypeOK
  <2>2. Contains(executed[d], executed[d][i])
    BY DEF Contains
  <2>3. QED  BY <2>1, <2>2 DEF DispatchInv, ExecutedBySent
<1>2. QED  BY <1>1, DispatchInvariant, PTL

\* No tab carries a call out twice, however often its socket is replaced.
THEOREM NoTabTwice == Spec => []OncePerTab
<1>1. DispatchInv => OncePerTab
  <2> SUFFICES ASSUME DispatchInv, NEW d \in Calls
               PROVE  \A i, j \in 1..Len(executed[d]) : executed[d][i] = executed[d][j] => i = j
    BY DEF OncePerTab
  <2>1. IsInjective(executed[d]) /\ executed[d] \in Seq(Tabs)
    BY DEF DispatchInv, ExecutedBySent, TypeOK
  <2>2. QED  BY <2>1 DEF IsInjective
<1>2. QED  BY <1>1, DispatchInvariant, PTL

\* With one tab open per GM a call is carried out once: only tabs of the GM it was
\* dispatched to carry it out, and none of them twice.
THEOREM SingleTabExecutesOnce ==
  ASSUME \A p, q \in Tabs, u \in Users : TabIsOf(p, u) /\ TabIsOf(q, u) => p = q
  PROVE  Spec => []ExecutedOnce
<1>1. DispatchInv /\ OnlyTargetExecutes /\ OncePerTab => ExecutedOnce
  <2> SUFFICES ASSUME DispatchInv, OnlyTargetExecutes, OncePerTab,
                      NEW d \in Calls, Len(executed[d]) > 1
               PROVE  FALSE
    <3>1. DispatchInv => \A d \in Calls : Len(executed[d]) \in Nat
      BY DEF DispatchInv, TypeOK
    <3>2. QED  BY <3>1 DEF ExecutedOnce
  <2>1. executed[d] \in Seq(Tabs)
    BY DEF DispatchInv, TypeOK
  <2>2. 1 \in 1..Len(executed[d]) /\ 2 \in 1..Len(executed[d])
    BY <2>1
  <2>3. executed[d][1] \in Tabs /\ executed[d][2] \in Tabs
    BY <2>1, <2>2
  <2>4. TabIsOf(executed[d][1], target[d]) /\ TabIsOf(executed[d][2], target[d])
    BY <2>2 DEF OnlyTargetExecutes
  <2>5. target[d] \in Users
    BY <2>4, SocketUserAssumption DEF TabIsOf
  <2>6. executed[d][1] = executed[d][2]
    BY <2>3, <2>4, <2>5
  <2>7. QED  BY <2>2, <2>6 DEF OncePerTab
<1>2. QED  BY <1>1, DispatchInvariant, TargetExecutes, NoTabTwice, PTL

\* The dispatcher implements the remote call: each of its steps is a step of one
\* call of RemoteCall, or changes neither outcomes nor executions.
THEOREM DispatchImplementsCall == Spec => RemoteCallSafety
<1>1. Init => RPC!CallInit
  BY DEF Init, RPC!CallInit
<1>2. ASSUME DispatchInv, Next PROVE [RPC!CallNext]_(RPC!callVars)
  <2> USE DEF RPC!callVars
  <2>0. outcome \in [Calls -> Outcomes] /\ executed \in [Calls -> Seq(Tabs)]
    BY <1>2 DEF DispatchInv, TypeOK
  <2>1. ASSUME NEW d \in Calls, DispatchToClient(d) PROVE RPC!Invoke(d)
    BY <2>1 DEF DispatchToClient, RPC!Invoke
  <2>2. ASSUME NEW d \in Calls, Timeout(d) PROVE RPC!Settle(d)
    <3>1. outcome[d] = "waiting"
      BY <1>2, <2>2 DEF Timeout, DispatchInv, PendingIsWaiting
    <3>2. outcome' = [outcome EXCEPT ![d] = "timeout"] /\ UNCHANGED executed
      BY <2>2 DEF Timeout
    <3>3. QED  BY <3>1, <3>2 DEF RPC!Settle
  <2>3. ASSUME NEW s \in Sockets, ReceiveReply(s)
        PROVE  UNCHANGED <<outcome, executed>> \/ \E d \in Calls : RPC!Settle(d)
    <3>1. PICK d \in Calls, ok \in BOOLEAN : /\ Head(toServer[s]) = ReplyMsg(d, ok)
                                             /\ HandleReply(d, ok)
      BY <2>3 DEF ReceiveReply
    <3>2. UNCHANGED executed /\ toServer[s] # <<>>
      BY <2>3 DEF ReceiveReply, Receive
    <3>3. CASE d \notin pending
      BY <3>1, <3>2, <3>3 DEF HandleReply, dispatchVars
    <3>4. CASE d \in pending
      <4>1. outcome[d] = "waiting"
        BY <1>2, <3>4 DEF DispatchInv, PendingIsWaiting
      <4>2. outcome' = [outcome EXCEPT ![d] = IF ok THEN "ok" ELSE "error"]
        BY <3>1, <3>4 DEF HandleReply
      <4>3. ok => executed[d] # <<>>
        <5>1. Contains(toServer[s], ReplyMsg(d, ok))
          BY <1>2, <3>1, <3>2, ContainsTail DEF DispatchInv, TypeOK
        <5>2. QED  BY <1>2, <5>1 DEF DispatchInv, RepliesAreTrue, ReportedOk
      <4>4. QED  BY <3>2, <4>1, <4>2, <4>3 DEF RPC!Settle
    <3>5. QED  BY <3>3, <3>4
  <2>4. ASSUME NEW s \in Sockets, ReceiveOnline(s) \/ ReceiveOffline(s) \/ Disconnect(s)
        PROVE  UNCHANGED <<outcome, executed>>
    BY <2>4 DEF ReceiveOnline, ReceiveOffline, Receive, Disconnect, dispatchVars
  <2>5. ASSUME NEW t \in Tabs, NEW d \in Calls, RunDispatched(t, d)
        PROVE  UNCHANGED <<outcome, executed>> \/ RPC!Perform(d, t)
    <3>1. Sent(d)
      BY <1>2, <2>5 DEF RunDispatched, DispatchInv, WorkIsSent
    <3>2. QED  BY <2>5, <3>1 DEF RunDispatched, RPC!Perform, Sent, dispatchVars
  <2>6. ASSUME NEW t \in Tabs,
               \/ Open(t) \/ InitClientSocket(t) \/ Unload(t) \/ LoseLink(t) \/ Reconnect(t)
               \/ ReceiveDispatch(t) \/ \E d \in Calls : SendReply(t, d)
        PROVE  UNCHANGED <<outcome, executed>>
    BY <2>6 DEF Open, InitClientSocket, Unload, LoseLink, Reconnect, ReceiveDispatch,
                SendReply, dispatchVars
  <2>7. QED
    BY <1>2, <2>1, <2>2, <2>3, <2>4, <2>5, <2>6 DEF Next, ServerStep, TabStep, RPC!CallNext
<1>3. UNCHANGED vars => UNCHANGED RPC!callVars
  BY DEF vars, dispatchVars, RPC!callVars
<1>4. DispatchInv /\ [Next]_vars => [RPC!CallNext]_(RPC!callVars)
  BY <1>2, <1>3
<1>5. QED
  BY <1>1, <1>4, DispatchInvariant, PTL DEF Spec, RemoteCallSafety, RPC!CallSafety
=============================================================================
