---------------------------- MODULE AuditedCall ----------------------------
(***************************************************************************)
(* What the API promises of a request, whatever guards it passes through:  *)
(* one answer, an `ok` only if the tool acted, a 404 or a 429 only if it   *)
(* did not, and then at most one audit entry, which tells of the success   *)
(* that was answered.                                                      *)
(***************************************************************************)
CONSTANT Requests   \* the requests that may be made

VARIABLES
  performed,  \* the requests whose tool has acted
  answer,     \* what each request was answered
  recorded    \* the entry of each request in the audit log

vars == <<performed, answer, recorded>>

Answers == {"ok", "error", "hidden", "throttled"}

Init ==
  /\ performed = {}
  /\ answer = [r \in Requests |-> "none"]
  /\ recorded = [r \in Requests |-> "none"]

Perform(r) ==
  /\ answer[r] = "none" /\ r \notin performed
  /\ performed' = performed \cup {r}
  /\ UNCHANGED <<answer, recorded>>

Answer(r, a) ==
  /\ answer[r] = "none"
  /\ a = "ok" => r \in performed
  /\ a \in {"hidden", "throttled"} => r \notin performed
  /\ answer' = [answer EXCEPT ![r] = a]
  /\ UNCHANGED <<performed, recorded>>

Record(r) ==
  /\ answer[r] # "none" /\ recorded[r] = "none"
  /\ recorded' = [recorded EXCEPT ![r] = IF answer[r] = "ok" THEN "success" ELSE "failure"]
  /\ UNCHANGED <<performed, answer>>

Next == \E r \in Requests : \/ Perform(r) \/ Record(r)
                            \/ \E a \in Answers : Answer(r, a)

Spec == Init /\ [][Next]_vars
=============================================================================
