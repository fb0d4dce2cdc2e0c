------------------------------ MODULE UndoStore ------------------------------
(***************************************************************************)
(* The undo snapshots of the server (module/scripts/server/undo-store.mjs) *)
(* and the `undo` tool that spends them                                    *)
(* (module/scripts/server/handlers/undo.mjs).                              *)
(*                                                                         *)
(* An undo token is random in the code; here it is the number of the       *)
(* capture that issued it.  tokensByKey[k], in the code an array that is   *)
(* only pushed to at the end and removed from, is then the set of its      *)
(* tokens: its order is the order of the numbers.                          *)
(***************************************************************************)
EXTENDS Naturals, FiniteSets

CONSTANTS
  Keys,          \* API keys
  Scopes,        \* permission scopes
  ReadScope,     \* the scope every undo needs, and no mutation
  GmScope,       \* the scope that grants every other
  KeyScopes,     \* the scopes granted to each key
  MaxPerKey,     \* MAX_PER_KEY
  TTL,           \* TTL_MS
  MaxTokens,     \* bound on the captures of a behaviour
  MaxTime,       \* bound on the clock
  None           \* no snapshot

ASSUME ScopesAssumption == {ReadScope, GmScope} \subseteq Scopes /\ KeyScopes \in [Keys -> SUBSET Scopes]
ASSUME BoundsAssumption ==
  /\ MaxPerKey \in Nat \ {0} /\ TTL \in Nat
  /\ MaxTokens \in Nat /\ MaxTime \in Nat

Tokens == 1..MaxTokens

Snapshot == [key_id : Keys, scope_required : Scopes, client_required : BOOLEAN,
             expires_at : 0..(MaxTime + TTL)]

ASSUME NoneAssumption == None \notin Snapshot

VARIABLES
  now,           \* Date.now()
  gmConnected,   \* isAnyGmConnected()
  snapshots,     \* undo_token -> snapshot, None if absent
  tokensByKey,   \* the tokens of each key, in capture order
  captured,      \* number of captures so far
  reverting,     \* undo requests past consume() that have not answered
  spent          \* history: how often each token has been consumed for an undo

vars == <<now, gmConnected, snapshots, tokensByKey, captured, reverting, spent>>

Held(t) == snapshots[t] # None

TypeOK ==
  /\ now \in 0..MaxTime
  /\ gmConnected \in BOOLEAN
  /\ snapshots \in [Tokens -> Snapshot \cup {None}]
  /\ tokensByKey \in [Keys -> SUBSET Tokens]
  /\ captured \in 0..MaxTokens
  /\ reverting \subseteq [token : Tokens, snapshot : Snapshot, by : Keys]
  /\ spent \in [Tokens -> Nat]

Init ==
  /\ now = 0
  /\ gmConnected \in BOOLEAN
  /\ snapshots = [t \in Tokens |-> None]
  /\ tokensByKey = [k \in Keys |-> {}]
  /\ captured = 0
  /\ reverting = {}
  /\ spent = [t \in Tokens |-> 0]

-----------------------------------------------------------------------------
\* requireScope: the scope itself or `gm`.
Grants(k, scope) == scope \in KeyScopes[k] \/ GmScope \in KeyScopes[k]

\* Mutant: a snapshot expires one instant early.
ExpiredAtTheInstant == {t \in Tokens : Held(t) /\ snapshots[t].expires_at <= now}

\* What sweepExpired() finds to delete: the comparison is strict.
Expired == {t \in Tokens : Held(t) /\ snapshots[t].expires_at < now}

\* Mutant: the cap is compared with > where >= is meant.
OverCapByOne(list) == {t \in list : Cardinality({x \in list : x > t}) > MaxPerKey}

\* The tokens the while loop shifts off an array: all but the newest MaxPerKey.
OverCap(list) == {t \in list : Cardinality({x \in list : x > t}) >= MaxPerKey}

\* Mutant: the array of the key is forgotten.
DropFromStoreOnly(S) ==
  /\ snapshots' = [t \in Tokens |-> IF t \in S THEN None ELSE snapshots[t]]
  /\ UNCHANGED tokensByKey

\* Delete the tokens of S from the store and from the array of their key.
Drop(S) ==
  /\ snapshots' = [t \in Tokens |-> IF t \in S THEN None ELSE snapshots[t]]
  /\ tokensByKey' = [k \in Keys |-> tokensByKey[k] \ {t \in S : snapshots[t].key_id = k}]

\* recordUndo/capture, called by a handler that has just changed the game.
Capture(k, scope, client) ==
  LET token    == captured + 1
      snapshot == [key_id |-> k, scope_required |-> scope, client_required |-> client,
                   expires_at |-> now + TTL]
      list     == tokensByKey[k] \cup {token}
      evicted  == OverCap(list)
  IN  /\ token \in Tokens
      /\ captured' = token
      /\ snapshots' = [t \in Tokens |-> IF t \in evicted THEN None
                                        ELSE IF t = token THEN snapshot
                                        ELSE snapshots[t]]
      /\ tokensByKey' = [tokensByKey EXCEPT ![k] = list \ evicted]
      /\ UNCHANGED <<now, gmConnected, reverting, spent>>

\* Mutant: the timer clears the arrays and leaves the snapshots.
SweepIndexOnly ==
  /\ tokensByKey' = [k \in Keys |-> tokensByKey[k] \ Expired]
  /\ UNCHANGED <<now, gmConnected, snapshots, captured, reverting, spent>>

\* The interval timer's sweep.
Sweep ==
  /\ Drop(Expired)
  /\ UNCHANGED <<now, gmConnected, captured, reverting, spent>>

\* The undo tool up to its first await.  peek() and consume() both sweep first;
\* between them the scope and, for a client-side snapshot, the GM are checked.
\* A refused request leaves the snapshot where it is.  A key that may not even
\* read is turned away before the tool is called.
UndoRefused(k, t) ==
  /\ Grants(k, ReadScope)
  /\ \/ ~Held(t)
     \/ t \in Expired
     \/ Held(t) /\ ~Grants(k, snapshots[t].scope_required)
     \/ Held(t) /\ snapshots[t].client_required /\ ~gmConnected
  /\ Drop(Expired)
  /\ UNCHANGED <<now, gmConnected, captured, reverting, spent>>

\* Mutants: the undo tool only peeks, or does not sweep.
UndoPeeking(k, t) ==
  /\ Grants(k, ReadScope)
  /\ Held(t) /\ t \notin Expired
  /\ Grants(k, snapshots[t].scope_required)
  /\ snapshots[t].client_required => gmConnected
  /\ Drop(Expired)
  /\ reverting' = reverting \cup {[token |-> t, snapshot |-> snapshots[t], by |-> k]}
  /\ spent' = [spent EXCEPT ![t] = @ + 1]
  /\ UNCHANGED <<now, gmConnected, captured>>

UndoUnswept(k, t) ==
  /\ Grants(k, ReadScope)
  /\ Held(t)
  /\ Grants(k, snapshots[t].scope_required)
  /\ snapshots[t].client_required => gmConnected
  /\ Drop({t})
  /\ reverting' = reverting \cup {[token |-> t, snapshot |-> snapshots[t], by |-> k]}
  /\ spent' = [spent EXCEPT ![t] = @ + 1]
  /\ UNCHANGED <<now, gmConnected, captured>>

Undo(k, t) ==
  /\ Grants(k, ReadScope)
  /\ Held(t) /\ t \notin Expired
  /\ Grants(k, snapshots[t].scope_required)
  /\ snapshots[t].client_required => gmConnected
  /\ Drop(Expired \cup {t})
  /\ reverting' = reverting \cup {[token |-> t, snapshot |-> snapshots[t], by |-> k]}
  /\ spent' = [spent EXCEPT ![t] = @ + 1]
  /\ UNCHANGED <<now, gmConnected, captured>>

\* The reversal succeeds or fails; the token is not given back either way.
UndoEnds(r) ==
  /\ reverting' = reverting \ {r}
  /\ UNCHANGED <<now, gmConnected, snapshots, tokensByKey, captured, spent>>

\* The rest of the server.
Tick ==
  /\ now < MaxTime
  /\ now' = now + 1
  /\ UNCHANGED <<gmConnected, snapshots, tokensByKey, captured, reverting, spent>>

GmComesOrGoes ==
  /\ gmConnected' = ~gmConnected
  /\ UNCHANGED <<now, snapshots, tokensByKey, captured, reverting, spent>>

Next ==
  \/ \E k \in Keys, scope \in Scopes \ {ReadScope}, client \in BOOLEAN : Capture(k, scope, client)
  \/ Sweep
  \/ \E k \in Keys, t \in Tokens : UndoRefused(k, t) \/ Undo(k, t)
  \/ \E r \in reverting : UndoEnds(r)
  \/ Tick
  \/ GmComesOrGoes

Spec == Init /\ [][Next]_vars

\* startSweep(): the interval fires again and again.
FairSpec == Spec /\ WF_vars(Sweep)

-----------------------------------------------------------------------------
\* The two Maps agree: a key's array holds exactly the live snapshots of that
\* key.  A leftover id would count towards the cap and push a live one out.
IndexAgrees ==
  \A k \in Keys : tokensByKey[k] = {t \in Tokens : Held(t) /\ snapshots[t].key_id = k}

\* No key holds more than MaxPerKey snapshots.
Capped == \A k \in Keys : Cardinality(tokensByKey[k]) <= MaxPerKey

\* A token is good for one undo, however many requests present it at once.
OneShot ==
  /\ \A t \in Tokens : spent[t] <= 1 /\ (spent[t] = 1 => ~Held(t))
  /\ \A r, q \in reverting : r.token = q.token => r = q

\* The inductive invariant: a number not yet handed out is in no table, and
\* a reversal under way is the one its token was spent on.
Fresh ==
  \A t \in Tokens : t > captured => ~Held(t) /\ spent[t] = 0

RevertsSpent == \A r \in reverting : spent[r.token] = 1

StoreInv ==
  /\ TypeOK /\ IndexAgrees /\ Capped /\ OneShot
  /\ Fresh /\ RevertsSpent

\* A snapshot is kept as promised: it goes only when it is spent, when its time
\* is up, or when its own key, at the cap, captures another and it is the
\* oldest of that key.  No other key's activity can push it out.
KeptAsPromised ==
  [][\A t \in Tokens : Held(t) /\ ~Held(t)' =>
       \/ spent'[t] = spent[t] + 1
       \/ snapshots[t].expires_at < now
       \/ LET list == tokensByKey[snapshots[t].key_id]
          IN  /\ captured' = captured + 1
              /\ snapshots'[captured'].key_id = snapshots[t].key_id
              /\ Cardinality(list) = MaxPerKey
              /\ \A x \in list : t <= x]_vars

\* Nothing is reverted after its time, nor for a key without the scope of the
\* original operation (any key with it may ask), and nothing client-side while no
\* GM is there to do it (which would lose the token for nothing).
RevertedInTime ==
  [][\A r \in reverting' \ reverting :
       /\ now <= r.snapshot.expires_at
       /\ Grants(r.by, r.snapshot.scope_required)
       /\ r.snapshot.client_required => gmConnected]_vars

\* An expired snapshot does not stay in memory, even if nobody asks for it.
ExpiredAreSwept == \A t \in Tokens : t \in Expired ~> ~Held(t)
=============================================================================
