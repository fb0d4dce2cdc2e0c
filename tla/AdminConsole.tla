---------------------------- MODULE AdminConsole ----------------------------
(***************************************************************************)
(* The /voice commands of the GMs: the chat command (client/chat-commands),*)
(* the request and its timer (client/admin-rpc), and the server's handler  *)
(* (server/admin-handler) with the operations on keys it calls.            *)
(*                                                                         *)
(* A tab keeps the requests it waits for.  The server replies to the user, *)
(* that is to all tabs of the user, when the operation is over; operations *)
(* of several requests overlap at every await.  What keys.json holds is    *)
(* the matter of KeyStore; here a key is what the process remembers.       *)
(***************************************************************************)
EXTENDS ServerBoot

CONSTANTS
  Tabs, Users, Commands, Keys,
  UserOf,   \* the user a tab belongs to
  Active,   \* the keys that were issued before
  None

Actions == {"new", "rotate", "revoke", "revoke-all", "read"}
ClientStates == {"none", "confirming", "waiting", "shown", "failed", "cancelled", "gone"}
ServerStates == {"none", "lost", "sent", "hashing", "saving", "ok", "error"}

ASSUME AdminAssumption ==
  /\ UserOf \in [Tabs -> Users]
  /\ Active \subseteq Keys
  /\ None \notin Keys \cup Commands \cup Tabs

VARIABLES
  page,     \* tab -> "none", "open" or "closed"; a reload is another tab
  present,  \* users in the server's list of connected GMs
  gms,      \* users who are GMs in the world
  pending,  \* tab -> commands whose reply it waits for
  keys,     \* key -> "unused", "active" or "revoked"
  cmd       \* command -> what was typed, how far the two sides have got

adminVars == <<page, present, gms, pending, keys, cmd>>
vars == <<bootVars, adminVars>>

Open == {t \in Tabs : page[t] = "open"}
Unused == {k \in Keys : keys[k] = "unused"}
ActiveKeys == {k \in Keys : keys[k] = "active"}

NoCommand ==
  [tab |-> None, action |-> None, key |-> None, client |-> "none", server |-> "none",
   made |-> None, all |-> {}, shown |-> None]

AdminInit ==
  /\ page = [t \in Tabs |-> "none"] /\ present = {} /\ gms = Users
  /\ pending = [t \in Tabs |-> {}]
  /\ keys = [k \in Keys |-> IF k \in Active THEN "active" ELSE "unused"]
  /\ cmd = [c \in Commands |-> NoCommand]

-----------------------------------------------------------------------------
(* The tab *)

\* The announcement of a tab that opens before the sockets are wired is lost.
TabOpens(t) ==
  /\ page[t] = "none" /\ page' = [page EXCEPT ![t] = "open"]
  /\ present' = IF wired /\ UserOf[t] \in gms THEN present \cup {UserOf[t]} ELSE present
  /\ UNCHANGED <<bootVars, gms, pending, keys, cmd>>

\* Its goodbye may be lost; then the disconnect of its socket is noticed later.
TabCloses(t) ==
  /\ page[t] = "open" /\ page' = [page EXCEPT ![t] = "closed"]
  /\ present' \in {present \ {UserOf[t]}, present}
  /\ pending' = [pending EXCEPT ![t] = {}]
  /\ cmd' = [c \in Commands |-> IF cmd[c].tab = t THEN [cmd[c] EXCEPT !.client = "gone"] ELSE cmd[c]]
  /\ UNCHANGED <<bootVars, gms, keys>>

Disconnects(t) ==
  /\ page[t] = "closed" /\ UserOf[t] \in present
  /\ present' = present \ {UserOf[t]}
  /\ UNCHANGED <<bootVars, page, gms, pending, keys, cmd>>

\* The world takes the role of a GM away.
Demote(u) ==
  /\ u \in gms /\ gms' = gms \ {u}
  /\ UNCHANGED <<bootVars, page, present, pending, keys, cmd>>

\* A message to a server that does not listen yet is lost.
Sends(c, t, a, k) ==
  /\ cmd' = [cmd EXCEPT ![c] = [@ EXCEPT !.tab = t, !.action = a, !.key = k, !.client = "waiting",
                                         !.server = IF wired THEN "sent" ELSE "lost"]]
  /\ pending' = [pending EXCEPT ![t] = @ \cup {c}]
  /\ UNCHANGED <<bootVars, page, present, gms, keys>>

\* The dialog that asks before all keys are revoked opens.
Asks(c, t) ==
  /\ cmd' = [cmd EXCEPT ![c] = [@ EXCEPT !.tab = t, !.action = "revoke-all", !.client = "confirming"]]
  /\ UNCHANGED <<bootVars, page, present, gms, pending, keys>>

\* A command of a GM; usage errors are answered by the tab and left out, and an
\* id that nothing was issued for meets the same end as that of a revoked key.
Type(c) ==
  \E t \in Open :
    /\ cmd[c].client = "none"
    /\ UserOf[t] \in gms
    /\ \/ \E a \in {"new", "read"} : Sends(c, t, a, None)
       \/ \E a \in {"rotate", "revoke"}, k \in Keys \ Unused : Sends(c, t, a, k)
       \/ Asks(c, t)

Confirm(c) == cmd[c].client = "confirming" /\ Sends(c, cmd[c].tab, cmd[c].action, cmd[c].key)

Cancel(c) ==
  /\ cmd[c].client = "confirming"
  /\ cmd' = [cmd EXCEPT ![c].client = "cancelled"]
  /\ UNCHANGED <<bootVars, page, present, gms, pending, keys>>

\* Mutant: the entry stays when the timer has fired.
TimesOutKeepingEntry(c) ==
  /\ cmd[c].client = "waiting"
  /\ cmd' = [cmd EXCEPT ![c].client = "failed"]
  /\ UNCHANGED <<bootVars, page, present, gms, pending, keys>>

\* Ten seconds without a reply.
TimesOut(c) ==
  /\ cmd[c].client = "waiting"
  /\ pending' = [pending EXCEPT ![cmd[c].tab] = @ \ {c}]
  /\ cmd' = [cmd EXCEPT ![c].client = "failed"]
  /\ UNCHANGED <<bootVars, page, present, gms, keys>>

\* Mutant: a tab takes any reply for the one it waits for.
HandleReplyToAny(c) ==
  /\ cmd[c].server \in {"ok", "error"}
  /\ \E t \in Open : UserOf[t] = UserOf[cmd[c].tab] /\ \E d \in pending[t] :
       /\ pending' = [pending EXCEPT ![t] = @ \ {d}]
       /\ cmd' = [cmd EXCEPT ![d].client = IF cmd[c].server = "ok" THEN "shown" ELSE "failed",
                             ![d].shown = c]
  /\ UNCHANGED <<bootVars, page, present, gms, keys>>

\* handleAdminReply: every tab of the user receives the reply, and the one with
\* an entry for it shows it, whispered to its own user.
HandleReply(c) ==
  /\ cmd[c].server \in {"ok", "error"}
  /\ \E t \in Open : UserOf[t] = UserOf[cmd[c].tab] /\ c \in pending[t] /\
       pending' = [pending EXCEPT ![t] = @ \ {c}]
  /\ cmd' = [cmd EXCEPT ![c].client = IF cmd[c].server = "ok" THEN "shown" ELSE "failed",
                        ![c].shown = c]
  /\ UNCHANGED <<bootVars, page, present, gms, keys>>

-----------------------------------------------------------------------------
(* The server *)

Becomes(c, server) == cmd' = [cmd EXCEPT ![c].server = server]
Server == <<bootVars, page, present, gms, pending>>

\* The authorisation, and what the operation does before its first await.  A tab
\* names its own user, so the socket's and the message's agree, or the socket has
\* none and the message's is taken.  The server refuses a label, a scope or a
\* duration it cannot read, and the audit log may be unreadable.
HandleRequest(c) ==
  LET user == UserOf[cmd[c].tab]
      k == cmd[c].key
      a == cmd[c].action
  IN /\ cmd[c].server = "sent"
     /\ UNCHANGED Server
     /\ \/ /\ user \notin present \cap gms \/ a \in {"new", "rotate", "read"}
           /\ Becomes(c, "error") /\ UNCHANGED keys
        \/ /\ user \in present \cap gms
           /\ \/ a = "read" /\ Becomes(c, "ok") /\ UNCHANGED keys
              \/ a = "new" /\ Becomes(c, "hashing") /\ UNCHANGED keys
              \/ /\ a = "rotate" /\ UNCHANGED keys
                 /\ Becomes(c, IF k \in ActiveKeys THEN "hashing" ELSE "error")
              \/ /\ a = "revoke" /\ k \notin ActiveKeys
                 /\ Becomes(c, "error") /\ UNCHANGED keys
              \/ /\ a = "revoke" /\ k \in ActiveKeys
                 /\ keys' = [keys EXCEPT ![k] = "revoked"]
                 /\ Becomes(c, "saving")
              \/ /\ a = "revoke-all"
                 /\ keys' = [i \in Keys |-> IF i \in ActiveKeys THEN "revoked" ELSE keys[i]]
                 /\ cmd' = [cmd EXCEPT ![c].all = ActiveKeys,
                                       ![c].server = IF ActiveKeys = {} THEN "ok" ELSE "saving"]

\* issueKey after the hash.  Ids are random; which one it is does not matter.
PushKey(c) ==
  /\ cmd[c].server = "hashing"
  /\ Unused # {}
  /\ LET k == CHOOSE i \in Unused : TRUE
     IN /\ keys' = [keys EXCEPT ![k] = "active"]
        /\ cmd' = [cmd EXCEPT ![c].server = "saving", ![c].made = k]
  /\ UNCHANGED Server

\* keys.json has been written, or could not be: the change stays in memory.
Saved(c) ==
  /\ cmd[c].server = "saving"
  /\ Becomes(c, "ok") \/ Becomes(c, "error")
  /\ UNCHANGED <<Server, keys>>

\* The timer of a rotation that went through.
RotationDue(c) ==
  /\ cmd[c].action = "rotate" /\ cmd[c].server = "ok"
  /\ cmd[c].key \in ActiveKeys
  /\ keys' = [keys EXCEPT ![cmd[c].key] = "revoked"]
  /\ UNCHANGED <<Server, cmd>>

Command(c) ==
  \/ Type(c) \/ Confirm(c) \/ Cancel(c) \/ TimesOut(c) \/ HandleReply(c)
  \/ HandleRequest(c) \/ PushKey(c) \/ Saved(c) \/ RotationDue(c)

Init == BootInit /\ AdminInit

Next ==
  \/ BootNext /\ UNCHANGED adminVars
  \/ \E t \in Tabs : TabOpens(t) \/ TabCloses(t) \/ Disconnects(t)
  \/ \E u \in Users : Demote(u)
  \/ \E c \in Commands : Command(c)

AdminSpec == Init /\ [][Next]_vars

-----------------------------------------------------------------------------
(* What the console promises *)

CommandRecords ==
  [tab : Tabs \cup {None}, action : Actions \cup {None}, key : Keys \cup {None},
   client : ClientStates, server : ServerStates,
   made : Keys \cup {None}, all : SUBSET Keys, shown : Commands \cup {None}]

AdminTypeOK ==
  /\ page \in [Tabs -> {"none", "open", "closed"}]
  /\ present \subseteq Users /\ gms \subseteq Users
  /\ pending \in [Tabs -> SUBSET Commands]
  /\ keys \in [Keys -> {"unused", "active", "revoked"}]
  /\ cmd \in [Commands -> CommandRecords]

\* chat-commands.mjs, admin-rpc.mjs: what a tab shows is the answer to its own
\* command, whichever tabs of the user and commands are waiting; and it is true:
\* a value that is shown belongs to a key this command issued, a key shown as
\* revoked is revoked, and after revoke-all no key it counted is active.
AnswersAreTrue ==
  \A c \in Commands : cmd[c].client = "shown" =>
    /\ cmd[c].shown = c
    /\ cmd[c].action \in {"new", "rotate"} =>
         /\ cmd[c].made \in Keys /\ keys[cmd[c].made] # "unused"
         /\ \A d \in Commands : cmd[d].made = cmd[c].made => d = c
    /\ cmd[c].action = "revoke" => keys[cmd[c].key] = "revoked"
    /\ \A k \in cmd[c].all : keys[k] = "revoked"

\* admin-rpc.mjs: a command ends once in its tab; a reply that comes after the
\* timer does not turn the error into an answer, although it was carried out.
EndsOnce ==
  [][\A c \in Commands : cmd[c].client \in {"shown", "failed", "cancelled"} =>
       cmd'[c].client \in {cmd[c].client, "gone"} /\ cmd'[c].shown = cmd[c].shown]_vars

(***************************************************************************)
(* What the proofs rest on.                                                *)
(***************************************************************************)

\* A tab waits for commands of its own which have not ended.
PendingIsWaiting == \A t \in Tabs : \A c \in pending[t] : cmd[c].client = "waiting" /\ cmd[c].tab = t

\* How far the server is with a command, and what that has done to the keys.
CommandDone(c) ==
  /\ cmd[c].client \in {"none", "confirming"} => cmd[c].server = "none"
  /\ cmd[c].client = "confirming" => cmd[c].tab \in Tabs /\ cmd[c].action \in Actions
  /\ cmd[c].client = "shown" => cmd[c].shown = c /\ cmd[c].server = "ok"
  /\ cmd[c].server = "hashing" => cmd[c].action \in {"new", "rotate"}
  /\ cmd[c].server \in {"saving", "ok"} =>
       /\ cmd[c].action \in {"new", "rotate"} => cmd[c].made \in Keys
       /\ cmd[c].action = "revoke" => cmd[c].key \in Keys /\ keys[cmd[c].key] = "revoked"
  /\ cmd[c].made \in Keys => keys[cmd[c].made] # "unused"
  /\ \A k \in cmd[c].all : keys[k] = "revoked"

MadeOnce == \A c, d \in Commands : cmd[c].made \in Keys /\ cmd[c].made = cmd[d].made => c = d

AdminInv ==
  /\ AdminTypeOK /\ PendingIsWaiting /\ MadeOnce
  /\ \A c \in Commands : CommandDone(c)
=============================================================================
