-------------------------- MODULE RequestPipeline --------------------------
(***************************************************************************)
(* An API request from its arrival to its audit entry: the handler of      *)
(* module/scripts/server/routes.mjs, the guards of transport.mjs, the      *)
(* search of auth.mjs for the key that was presented, and the limits of    *)
(* RateLimiter.                                                            *)
(*                                                                         *)
(* A request suspends at every hash of verifyBearer(), when that returns,  *)
(* while its body comes in, while the use of its key is persisted, in its  *)
(* tool and in the append to the audit log.  Other requests run in         *)
(* between, keys are issued and revoked, and time passes.                  *)
(***************************************************************************)
EXTENDS RateLimiter, FiniteSetsExt

CONSTANTS
  Requests,    \* the requests that may be made
  Tools,       \* tools that are registered
  Kind,        \* the kind of each tool
  MayCall,     \* pairs of a key and a tool: requireScope() accepts its scopes
  ExpiresAt,   \* expires_at of each key that has one
  InitialKeys, \* the keys that loadKeys() found
  None

ASSUME KindAssumption == Kind \in [Tools -> Counters]
ASSUME MayCallAssumption == MayCall \subseteq Keys \X Tools
ASSUME ExpiresAtAssumption == \A k \in DOMAIN ExpiresAt : ExpiresAt[k] \in Nat
ASSUME InitialKeysAssumption == InitialKeys \in Seq(Keys)
ASSUME NoneAssumption == None \notin Keys \cup Tools

VARIABLES
  keyList,    \* keyState.keys, in the order of issue
  revoked,    \* the keys that have a revoked_at
  req,        \* how far each request is
  performed,  \* history: the requests whose tool has acted
  answer,     \* what each request was answered
  recorded    \* the entry of each request in the audit log

keyVars == <<keyList, revoked>>
callVars == <<performed, answer, recorded>>
vars == <<now, limiterVars, keyVars, req, callVars>>

NotMade == [at |-> "none"]
Stages == {"hashing", "verified", "body", "use", "tool", "entry", "done"}

\* A request: where it is suspended, its address, the key whose value it
\* presents (None: another value), its tool (None: no such tool), the `now` of
\* verifyBearer(), the place in the key list and the match so far, and
\* auditEntry.success and auditEntry.key_id.
RequestRecords ==
  [at : Stages, from : Addresses, bearer : Keys \cup {None}, tool : Tools \cup {None},
   since : Nat, place : Nat, matched : Keys \cup {None},
   success : BOOLEAN, key_id : Keys \cup {None}]

TypeOK ==
  /\ LimiterTypeOK
  /\ keyList \in Seq(Keys)
  /\ revoked \subseteq Keys
  /\ req \in [Requests -> RequestRecords \cup {NotMade}]
  /\ performed \subseteq Requests
  /\ answer \in [Requests -> {"none", "ok", "error", "hidden", "throttled"}]
  /\ recorded \in [Requests -> {"none", "success", "failure"}]

Init ==
  /\ LimiterInit
  /\ keyList = InitialKeys
  /\ revoked = {}
  /\ req = [r \in Requests |-> NotMade]
  /\ performed = {}
  /\ answer = [r \in Requests |-> "none"]
  /\ recorded = [r \in Requests |-> "none"]

-----------------------------------------------------------------------------
IsListed(k) == \E i \in 1..Len(keyList) : keyList[i] = k

\* The key is neither revoked nor, at the given time, expired.
Usable(k, time) == k \notin revoked /\ (k \in DOMAIN ExpiresAt => ExpiresAt[k] >= time)

IsKeyStillActive(k) == IsListed(k) /\ Usable(k, now)

\* Mutant: the search ends before the last key.
NextPlaceButLast(place, since) ==
  LET ahead == {i \in place + 1..Len(keyList) - 1 : Usable(keyList[i], since)}
  IN  IF ahead = {} THEN 0 ELSE Min(ahead)

\* The place of the live list that verifyBearer() comes to after this one, 0 at
\* the end.
NextPlace(place, since) ==
  LET ahead == {i \in place + 1..Len(keyList) : Usable(keyList[i], since)}
  IN  IF ahead = {} THEN 0 ELSE Min(ahead)

\* The search goes on from s.place to the hash of the next key, or ends.
SearchOn(s) ==
  LET next == NextPlace(s.place, s.since)
  IN  IF next = 0 THEN [s EXCEPT !.at = "verified"]
      ELSE [s EXCEPT !.at = "hashing", !.place = next]

Advance(r, stage) == req' = [req EXCEPT ![r].at = stage]

\* The answer is sent and the `finally` block begins.
Respond(r, a) ==
  /\ answer' = [answer EXCEPT ![r] = a]
  /\ UNCHANGED <<performed, recorded>>

(***************************************************************************)
(* runTransportGuards().                                                   *)
(***************************************************************************)
Request(a, bearer, tool) ==
  [at |-> "entry", from |-> a, bearer |-> bearer, tool |-> tool, since |-> now,
   place |-> 0, matched |-> None, success |-> FALSE, key_id |-> None]

\* A guard that needs no key says no: denied like an unknown route for TLS, the
\* address, its back-off and the header, an error for method and content type.
\* What it asks for is never looked at.
Refuse(r, a) ==
  /\ req[r] = NotMade
  /\ req' = [req EXCEPT ![r] = Request(a, None, None)]
  /\ Respond(r, "hidden") \/ Respond(r, "error")
  /\ UNCHANGED <<now, limiterVars, keyVars>>

\* The guards are passed and verifyBearer() begins; a value without the prefix
\* of a key ends it at once.  Nobody has the value of a key that is not issued.
Arrive(r, a, bearer, tool) ==
  /\ req[r] = NotMade
  /\ ~InBackoff(a)
  /\ bearer = None \/ IsListed(bearer)
  /\ LET s == Request(a, bearer, tool)
     IN  \/ req' = [req EXCEPT ![r] = SearchOn(s)]
         \/ bearer = None /\ req' = [req EXCEPT ![r] = [s EXCEPT !.at = "verified"]]
  /\ UNCHANGED <<now, limiterVars, keyVars, callVars>>

\* One hash is there; a match does not end the search.
Hashed(r) ==
  /\ req[r].at = "hashing"
  /\ LET entry == keyList[req[r].place]
         s == [req[r] EXCEPT !.matched = IF entry = req[r].bearer THEN entry ELSE @]
     IN  req' = [req EXCEPT ![r] = SearchOn(s)]
  /\ UNCHANGED <<now, limiterVars, keyVars, callVars>>

\* A hash that cannot be computed ends the request, and is no failed attempt.
HashFails(r) ==
  /\ req[r].at = "hashing"
  /\ Advance(r, "entry")
  /\ Respond(r, "error")
  /\ UNCHANGED <<now, limiterVars, keyVars>>

\* Mutant: the key found is not looked at again after the hashes.
AuthenticateMatched(r) ==
  /\ req[r].at = "verified" /\ req[r].matched # None
  /\ ClearFailedAuth(req[r].from)
  /\ Advance(r, "body")
  /\ UNCHANGED <<now, keyVars, callVars>>

\* authenticate() after the await: the key found is still active, or not.
Authenticate(r) ==
  /\ req[r].at = "verified"
  /\ req[r].matched # None /\ IsKeyStillActive(req[r].matched)
  /\ ClearFailedAuth(req[r].from)
  /\ Advance(r, "body")
  /\ UNCHANGED <<now, keyVars, callVars>>

FailAuthentication(r) ==
  /\ req[r].at = "verified"
  /\ ~(req[r].matched # None /\ IsKeyStillActive(req[r].matched))
  /\ RecordFailedAuth(req[r].from)
  /\ Advance(r, "entry")
  /\ Respond(r, "hidden")
  /\ UNCHANGED <<now, keyVars>>

\* The body has come in; it is well-formed and recordKeyUse() begins, or not.
ReadBody(r) ==
  /\ req[r].at = "body"
  /\ Advance(r, "use")
  /\ UNCHANGED <<now, limiterVars, keyVars, callVars>>

RejectBody(r) ==
  /\ req[r].at = "body"
  /\ Advance(r, "entry")
  /\ Respond(r, "error")
  /\ UNCHANGED <<now, limiterVars, keyVars>>

(***************************************************************************)
(* The handler of the route, after its guards: the three ways from the use *)
(* of the key to a tool or an answer.                                      *)
(***************************************************************************)
Identified(r, stage) == req' = [req EXCEPT ![r].at = stage, ![r].key_id = req[r].matched]

RejectCall(r) ==
  /\ req[r].at = "use"
  /\ <<req[r].matched, req[r].tool>> \notin MayCall
  /\ Identified(r, "entry")
  /\ Respond(r, "error")
  /\ UNCHANGED <<now, limiterVars, keyVars>>

ThrottleCall(r) ==
  /\ req[r].at = "use"
  /\ <<req[r].matched, req[r].tool>> \in MayCall
  /\ Throttle(req[r].matched, Kind[req[r].tool])
  /\ Identified(r, "entry")
  /\ Respond(r, "throttled")
  /\ UNCHANGED <<now, keyVars>>

\* Mutant: the tool is called whatever the scopes of the key.
CallAnyTool(r) ==
  /\ req[r].at = "use" /\ req[r].tool # None
  /\ Admit(req[r].matched, Kind[req[r].tool])
  /\ Identified(r, "tool")
  /\ UNCHANGED <<now, keyVars, callVars>>

CallTool(r) ==
  /\ req[r].at = "use"
  /\ <<req[r].matched, req[r].tool>> \in MayCall
  /\ Admit(req[r].matched, Kind[req[r].tool])
  /\ Identified(r, "tool")
  /\ UNCHANGED <<now, keyVars, callVars>>

\* The handler of the tool does what it is for, once.
ToolActs(r) ==
  /\ req[r].at = "tool" /\ r \notin performed
  /\ performed' = performed \cup {r}
  /\ UNCHANGED <<now, limiterVars, keyVars, req, answer, recorded>>

\* Mutant: auditEntry.success is set before the handler has returned.
ToolReturnsOrThrows(r) ==
  /\ req[r].at = "tool"
  /\ req' = [req EXCEPT ![r].at = "entry", ![r].success = TRUE]
  /\ Respond(r, IF r \in performed THEN "ok" ELSE "error")
  /\ UNCHANGED <<now, limiterVars, keyVars>>

\* The handler returns its result, or throws before or after it has acted.  What
\* handlers return is made of plain data, so that writing it out does not fail
\* once auditEntry.success is set; a result that says no counts as thrown.
ToolReturns(r) ==
  /\ req[r].at = "tool" /\ r \in performed
  /\ req' = [req EXCEPT ![r].at = "entry", ![r].success = TRUE]
  /\ Respond(r, "ok")
  /\ UNCHANGED <<now, limiterVars, keyVars>>

ToolThrows(r) ==
  /\ req[r].at = "tool"
  /\ Advance(r, "entry")
  /\ Respond(r, "error")
  /\ UNCHANGED <<now, limiterVars, keyVars>>

\* recordAuditEntry() ends; an append that fails leaves no entry.
RecordAuditEntry(r) ==
  /\ req[r].at = "entry"
  /\ Advance(r, "done")
  /\ \/ recorded' = [recorded EXCEPT ![r] = IF req[r].success THEN "success" ELSE "failure"]
     \/ UNCHANGED recorded
  /\ UNCHANGED <<now, limiterVars, keyVars, performed, answer>>

(***************************************************************************)
(* Meanwhile: admin commands and the clock.                                *)
(***************************************************************************)
IssueKey(k) ==
  /\ ~IsListed(k)
  /\ keyList' = Append(keyList, k)
  /\ UNCHANGED <<now, limiterVars, revoked, req, callVars>>

RevokeKey(k) ==
  /\ IsListed(k) /\ k \notin revoked
  /\ revoked' = revoked \cup {k}
  /\ UNCHANGED <<now, limiterVars, keyList, req, callVars>>

Next ==
  \/ \E r \in Requests :
       \/ \E a \in Addresses :
            \/ Refuse(r, a)
            \/ \E bearer \in Keys \cup {None}, tool \in Tools \cup {None} :
                 Arrive(r, a, bearer, tool)
       \/ Hashed(r) \/ HashFails(r) \/ Authenticate(r) \/ FailAuthentication(r)
       \/ ReadBody(r) \/ RejectBody(r)
       \/ RejectCall(r) \/ ThrottleCall(r) \/ CallTool(r)
       \/ ToolActs(r) \/ ToolReturns(r) \/ ToolThrows(r) \/ RecordAuditEntry(r)
  \/ \E k \in Keys : IssueKey(k) \/ RevokeKey(k)
  \/ Tick /\ UNCHANGED <<keyVars, req, callVars>>

Spec == Init /\ [][Next]_vars

-----------------------------------------------------------------------------
Call == INSTANCE AuditedCall WITH
          Requests <- Requests, performed <- performed,
          answer <- answer, recorded <- recorded

\* A request has one answer and one entry, and they agree with each other and
\* with what was done, on every way through the handler: early return, denial,
\* exception.
AuditedCallSpec == Call!Spec

\* A tool runs only for the holder of a key that may call it.
OnlyWithKey ==
  \A r \in Requests : req[r].at = "tool" \/ r \in performed =>
    /\ req[r].key_id = req[r].bearer
    /\ <<req[r].bearer, req[r].tool>> \in MayCall

\* No request gets past authentication with a key that is revoked or has
\* expired by then, even if it was in order while its hash was computed.
RevokedIsNotLetIn ==
  [][\A r \in Requests : req[r].at = "verified" /\ req'[r].at = "body" =>
       Usable(req[r].bearer, now)]_vars

\* The holder of a key that is in order is let in, however the list grows and
\* other keys change during the search: no attempt of his counts as failed.
ValidIsLetIn ==
  [][\A r \in Requests : req[r].at = "verified" /\ req'[r].at = "entry" =>
       ~(req[r].bearer # None /\ Usable(req[r].bearer, now))]_vars
=============================================================================
