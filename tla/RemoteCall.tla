----------------------------- MODULE RemoteCall -----------------------------
(***************************************************************************)
(* What a tool handler is promised of a call it has dispatched to a GM     *)
(* browser: exactly one outcome, and a success only for a call a browser   *)
(* has really carried out.  It is not promised the converse: a call that   *)
(* timed out or failed may have been carried out, before or after.         *)
(***************************************************************************)
EXTENDS Naturals, Sequences

CONSTANTS
  Calls,   \* the dispatched calls
  Tabs     \* the browser tabs that may carry one out

VARIABLES
  outcome,    \* what the caller has been told
  executed    \* the tabs that have carried the call out, in order

callVars == <<outcome, executed>>

Outcomes == {"idle", "waiting", "ok", "error", "timeout", "unavailable"}

\* The outcomes that end a call.
Final == {"ok", "error", "timeout", "unavailable"}

CallInit ==
  /\ outcome = [d \in Calls |-> "idle"]
  /\ executed = [d \in Calls |-> <<>>]

Invoke(d) ==
  /\ outcome[d] = "idle"
  /\ \E o \in {"waiting", "unavailable"} : outcome' = [outcome EXCEPT ![d] = o]
  /\ UNCHANGED executed

\* A tab carries the call out, at any time once it has been sent: a timeout
\* does not recall it.
Perform(d, t) ==
  /\ outcome[d] \notin {"idle", "unavailable"}
  /\ executed' = [executed EXCEPT ![d] = Append(@, t)]
  /\ UNCHANGED outcome

Settle(d) ==
  /\ outcome[d] = "waiting"
  /\ \E o \in {"ok", "error", "timeout"} :
       /\ o = "ok" => executed[d] # <<>>
       /\ outcome' = [outcome EXCEPT ![d] = o]
  /\ UNCHANGED executed

CallNext == \E d \in Calls : Invoke(d) \/ Settle(d) \/ \E t \in Tabs : Perform(d, t)

CallSafety == CallInit /\ [][CallNext]_callVars

\* A call that was made is answered.
CallSpec == CallSafety /\ \A d \in Calls : WF_callVars(Settle(d))
=============================================================================
