-------------------------- MODULE AdminAuditProofs --------------------------
(***************************************************************************)
(* Proofs about the start of the server, the /voice commands and the audit *)
(* log, for any number of tabs, users, commands, keys and requests, any    *)
(* retention and any interleaving of the appends with a prune.             *)
(***************************************************************************)
EXTENDS AdminConsole, AuditLog, WellFoundedInduction, TLAPS

-----------------------------------------------------------------------------
(* The start *)

\* How far `setup` has got decides what is loaded, whatever the hooks do.
LEMMA BootStep == BootInv /\ [BootNext]_bootVars => BootInv'
<1> SUFFICES ASSUME BootInv, [BootNext]_bootVars PROVE BootInv'
  OBVIOUS
<1> USE DEF BootInv, OpenOnlyWhenLoaded
<1>1. CASE InitHook
  BY <1>1 DEF InitHook
<1>2. CASE SetupHook
  BY <1>2 DEF SetupHook
<1>3. CASE KeysLoaded
  BY <1>3 DEF KeysLoaded
<1>4. CASE SetupFails
  BY <1>4 DEF SetupFails
<1>5. CASE SetupEnds
  <2>1. CASE \E socketOk, routesOk \in BOOLEAN : Opens(socketOk, routesOk)
    <3>1. bootState' = "ready" => wired' /\ routes'
      BY <2>1 DEF Opens
    <3>2. QED  BY <1>5, <3>1 DEF SetupEnds
  <2>2. CASE OpensInPart
    BY <1>5, <2>2 DEF SetupEnds, OpensInPart
  <2>3. (\E socketOk, routesOk \in BOOLEAN : Opens(socketOk, routesOk)) \/ OpensInPart
    BY <1>5 DEF SetupEnds
  <2>4. QED  BY <2>1, <2>2, <2>3
<1>6. CASE ReadyHook
  BY <1>6 DEF ReadyHook
<1>7. CASE UNCHANGED bootVars
  BY <1>7 DEF bootVars
<1>8. QED  BY <1>1, <1>2, <1>3, <1>4, <1>5, <1>6, <1>7 DEF BootNext

\* The commands leave the start alone.
LEMMA BootAlone == [Next]_vars => [BootNext]_bootVars
<1>1. ASSUME NEW c \in Commands, Command(c) PROVE UNCHANGED bootVars
  BY <1>1 DEF Command, Type, Asks, Sends, Confirm, Cancel, TimesOut, HandleReply, HandleRequest,
              PushKey, Saved, RotationDue, Server
<1>2. QED  BY <1>1 DEF Next, TabOpens, TabCloses, Disconnects, Demote, vars

\* server.mjs: nothing is served before the keys and the audit log are read,
\* and a server that says it is ready can be reached on both ways.
THEOREM OpensWhenLoaded == AdminSpec => []OpenOnlyWhenLoaded
<1>1. Init => BootInv
  BY DEF Init, BootInit, BootInv, OpenOnlyWhenLoaded
<1>2. BootInv => OpenOnlyWhenLoaded
  BY DEF BootInv
<1>3. QED  BY <1>1, <1>2, BootStep, BootAlone, PTL DEF AdminSpec

-----------------------------------------------------------------------------
(* The commands *)

LEMMA AdminStart == Init => AdminInv
<1> SUFFICES ASSUME Init PROVE AdminInv
  OBVIOUS
<1> USE DEF Init, AdminInit, NoCommand
<1>1. AdminTypeOK
  BY AdminAssumption DEF AdminTypeOK, CommandRecords, ClientStates, ServerStates
<1>2. PendingIsWaiting /\ MadeOnce /\ \A c \in Commands : CommandDone(c)
  BY AdminAssumption DEF PendingIsWaiting, MadeOnce, CommandDone
<1>3. QED  BY <1>1, <1>2 DEF AdminInv

\* A key that has been issued stays issued, and one that is revoked stays so.
KeysGoOn ==
  \A k \in Keys : /\ keys[k] # "unused" => keys'[k] # "unused"
                  /\ keys[k] = "revoked" => keys'[k] = "revoked"

\* What a command has done is not undone by what becomes of another.
LEMMA OthersStay ==
  ASSUME AdminTypeOK, KeysGoOn, NEW c \in Commands, CommandDone(c),
         cmd'[c] = cmd[c]
  PROVE  CommandDone(c)'
BY DEF CommandDone, KeysGoOn, AdminTypeOK, CommandRecords

\* Where a command gets with a message from its tab.
LEMMA SendsStep ==
  ASSUME AdminInv, NEW c \in Commands, NEW t \in Tabs,
         NEW a \in Actions, NEW k \in Keys \cup {None},
         cmd[c].client \in {"none", "confirming"}, Sends(c, t, a, k)
  PROVE  AdminInv'
<1> DEFINE new == [cmd[c] EXCEPT !.tab = t, !.action = a, !.key = k, !.client = "waiting",
                                 !.server = IF wired THEN "sent" ELSE "lost"]
<1>0. AdminTypeOK /\ PendingIsWaiting /\ MadeOnce /\ \A d \in Commands : CommandDone(d)
  BY DEF AdminInv
<1>1. cmd' = [cmd EXCEPT ![c] = new] /\ pending' = [pending EXCEPT ![t] = @ \cup {c}]
      /\ UNCHANGED <<page, present, gms, keys>>
  BY DEF Sends
<1>2. new.tab = t /\ new.client = "waiting" /\ new.server \in {"sent", "lost"}
      /\ new.made = cmd[c].made /\ new.all = cmd[c].all /\ new.shown = cmd[c].shown
      /\ new.action = a /\ new.key = k
  BY <1>0 DEF AdminTypeOK, CommandRecords
<1>3. new \in CommandRecords
  <2>1. cmd[c] \in CommandRecords
    BY <1>0 DEF AdminTypeOK
  <2>2. QED  BY <2>1 DEF CommandRecords, ClientStates, ServerStates
<1> HIDE DEF new
<1>4. cmd'[c] = new /\ \A d \in Commands \ {c} : cmd'[d] = cmd[d]
  BY <1>0, <1>1 DEF AdminTypeOK
<1>5. AdminTypeOK'
  BY <1>0, <1>1, <1>3 DEF AdminTypeOK
<1>6. PendingIsWaiting'
  <2> SUFFICES ASSUME NEW p \in Tabs, NEW d \in pending'[p]
               PROVE  cmd'[d].client = "waiting" /\ cmd'[d].tab = p
    BY DEF PendingIsWaiting
  <2>1. d \in Commands /\ (d \in pending[p] \/ (d = c /\ p = t))
    BY <1>0, <1>1, <1>5 DEF AdminTypeOK
  <2>2. CASE d = c
    <3>1. c \notin pending[p]
      BY <1>0 DEF PendingIsWaiting
    <3>2. QED  BY <2>1, <2>2, <3>1, <1>2, <1>4
  <2>3. CASE d # c
    BY <2>1, <2>3, <1>0, <1>4 DEF PendingIsWaiting
  <2>4. QED  BY <2>2, <2>3
<1>7. MadeOnce'
  <2>1. \A d \in Commands : cmd'[d].made = cmd[d].made
    BY <1>2, <1>4
  <2>2. QED  BY <1>0, <2>1 DEF MadeOnce
<1>8. CommandDone(c)'
  BY <1>0, <1>1, <1>2, <1>4 DEF CommandDone
<1>9. ASSUME NEW d \in Commands \ {c} PROVE CommandDone(d)'
  BY <1>0, <1>1, <1>4, OthersStay DEF KeysGoOn
<1>10. QED  BY <1>5, <1>6, <1>7, <1>8, <1>9 DEF AdminInv

\* A step that moves the tab's side of one command, or the server's side of one,
\* and leaves its tab, its action and what it made alone.
LEMMA MovesStep ==
  ASSUME AdminInv, NEW c \in Commands,
         NEW client \in ClientStates, NEW server \in ServerStates, NEW shown \in Commands \cup {None},
         NEW all \in SUBSET Keys,
         cmd' = [cmd EXCEPT ![c] = [@ EXCEPT !.client = client, !.server = server,
                                             !.shown = shown, !.all = all]],
         UNCHANGED <<page, present, gms>>,
         keys' \in [Keys -> {"unused", "active", "revoked"}], KeysGoOn,
         pending' \in [Tabs -> SUBSET Commands],
         \A t \in Tabs : pending'[t] \subseteq pending[t] /\ (client # "waiting" => c \notin pending'[t]),
         CommandDone(c)'
  PROVE  AdminInv'
<1> DEFINE new == [cmd[c] EXCEPT !.client = client, !.server = server, !.shown = shown, !.all = all]
<1>0. AdminTypeOK /\ PendingIsWaiting /\ MadeOnce /\ \A d \in Commands : CommandDone(d)
  BY DEF AdminInv
<1>1. new.tab = cmd[c].tab /\ new.client = client /\ new.made = cmd[c].made
  BY <1>0 DEF AdminTypeOK, CommandRecords
<1>11. new \in CommandRecords
  <2>1. cmd[c] \in CommandRecords
    BY <1>0 DEF AdminTypeOK
  <2>2. QED  BY <2>1 DEF CommandRecords
<1>2. cmd' = [cmd EXCEPT ![c] = new]
  OBVIOUS
<1> HIDE DEF new
<1>3. cmd'[c] = new /\ \A d \in Commands \ {c} : cmd'[d] = cmd[d]
  BY <1>0, <1>2 DEF AdminTypeOK
<1>4. AdminTypeOK'
  BY <1>0, <1>11, <1>2 DEF AdminTypeOK
<1>5. PendingIsWaiting'
  <2> SUFFICES ASSUME NEW t \in Tabs, NEW d \in pending'[t]
               PROVE  cmd'[d].client = "waiting" /\ cmd'[d].tab = t
    BY DEF PendingIsWaiting
  <2>1. d \in Commands /\ d \in pending[t] /\ cmd[d].client = "waiting" /\ cmd[d].tab = t
    BY <1>0 DEF PendingIsWaiting, AdminTypeOK
  <2>2. QED  BY <2>1, <1>1, <1>3
<1>6. MadeOnce'
  <2>1. \A d \in Commands : cmd'[d].made = cmd[d].made
    BY <1>1, <1>3
  <2>2. QED  BY <1>0, <2>1 DEF MadeOnce
<1>7. ASSUME NEW d \in Commands \ {c} PROVE CommandDone(d)'
  BY <1>0, <1>3, OthersStay
<1>8. QED  BY <1>4, <1>5, <1>6, <1>7 DEF AdminInv

\* The dialog: nothing has been sent, and nothing is waited for.
LEMMA AsksStep ==
  ASSUME AdminInv, NEW c \in Commands, NEW t \in Tabs, cmd[c].client = "none", Asks(c, t)
  PROVE  AdminInv'
<1> DEFINE new == [cmd[c] EXCEPT !.tab = t, !.action = "revoke-all", !.client = "confirming"]
<1>0. AdminTypeOK /\ PendingIsWaiting /\ MadeOnce /\ \A d \in Commands : CommandDone(d)
  BY DEF AdminInv
<1>1. cmd' = [cmd EXCEPT ![c] = new] /\ UNCHANGED <<page, present, gms, keys, pending>>
  BY DEF Asks
<1>2. /\ new.client = "confirming" /\ new.tab = t /\ new.action = "revoke-all" /\ new.action \in Actions /\ new.server = cmd[c].server
      /\ new.made = cmd[c].made /\ new.all = cmd[c].all
  BY <1>0 DEF AdminTypeOK, CommandRecords, Actions
<1>3. new \in CommandRecords
  <2>1. cmd[c] \in CommandRecords
    BY <1>0 DEF AdminTypeOK
  <2>2. QED  BY <2>1 DEF CommandRecords, ClientStates, Actions
<1> HIDE DEF new
<1>4. cmd'[c] = new /\ \A d \in Commands \ {c} : cmd'[d] = cmd[d]
  BY <1>0, <1>1 DEF AdminTypeOK
<1>5. AdminTypeOK'
  BY <1>0, <1>1, <1>3 DEF AdminTypeOK
<1>6. PendingIsWaiting'
  BY <1>0, <1>1, <1>4 DEF PendingIsWaiting, AdminTypeOK
<1>7. MadeOnce'
  <2>1. \A d \in Commands : cmd'[d].made = cmd[d].made
    BY <1>2, <1>4
  <2>2. QED  BY <1>0, <2>1 DEF MadeOnce
<1>8. CommandDone(c)'
  BY <1>0, <1>1, <1>2, <1>4 DEF CommandDone
<1>9. ASSUME NEW d \in Commands \ {c} PROVE CommandDone(d)'
  BY <1>0, <1>1, <1>4, OthersStay DEF KeysGoOn
<1>10. QED  BY <1>5, <1>6, <1>7, <1>8, <1>9 DEF AdminInv

\* The tab's side of a command moves, and what the server did stays.
LEMMA TabStep ==
  ASSUME AdminInv, NEW c \in Commands, NEW client \in {"cancelled", "failed", "shown"},
         NEW shown \in Commands \cup {None},
         cmd[c].client \in {"confirming", "waiting"},
         client = "shown" => cmd[c].server = "ok" /\ shown = c,
         cmd' = [cmd EXCEPT ![c] = [@ EXCEPT !.client = client, !.server = cmd[c].server,
                                             !.shown = shown, !.all = cmd[c].all]],
         UNCHANGED <<page, present, gms, keys>>,
         pending' \in [Tabs -> SUBSET Commands],
         \A t \in Tabs : pending'[t] \subseteq pending[t] /\ c \notin pending'[t]
  PROVE  AdminInv'
<1>0. AdminTypeOK /\ CommandDone(c) /\ cmd[c] \in CommandRecords
  BY DEF AdminInv, AdminTypeOK
<1>1. cmd[c].server \in ServerStates /\ cmd[c].all \in SUBSET Keys
  BY <1>0 DEF CommandRecords
<1>2. /\ cmd'[c].client = client /\ cmd'[c].server = cmd[c].server /\ cmd'[c].all = cmd[c].all
      /\ cmd'[c].shown = shown
      /\ cmd'[c].action = cmd[c].action /\ cmd'[c].key = cmd[c].key /\ cmd'[c].made = cmd[c].made
  BY <1>0 DEF AdminTypeOK, CommandRecords
<1>3. CommandDone(c)'
  BY <1>0, <1>2 DEF CommandDone
<1>4. KeysGoOn /\ keys' \in [Keys -> {"unused", "active", "revoked"}]
  BY <1>0 DEF KeysGoOn, AdminTypeOK
<1>5. client \in ClientStates /\ client # "waiting"
  BY DEF ClientStates
<1>6. QED  BY <1>1, <1>3, <1>4, <1>5, MovesStep

\* The server's side of a command moves.
LEMMA ServerStep ==
  ASSUME AdminInv, NEW c \in Commands, NEW server \in ServerStates, NEW all \in SUBSET Keys,
         cmd[c].server \in {"sent", "hashing", "saving"},
         cmd' = [cmd EXCEPT ![c] = [@ EXCEPT !.client = cmd[c].client, !.server = server,
                                             !.shown = cmd[c].shown, !.all = all]],
         UNCHANGED <<page, present, gms, pending>>,
         keys' \in [Keys -> {"unused", "active", "revoked"}], KeysGoOn,
         server = "hashing" => cmd[c].action \in {"new", "rotate"},
         server \in {"saving", "ok"} => cmd[c].server = "saving" \/ cmd[c].action \notin {"new", "rotate"},
         server \in {"saving", "ok"} /\ cmd[c].server # "saving" /\ cmd[c].action = "revoke" =>
           cmd[c].key \in Keys /\ keys'[cmd[c].key] = "revoked",
         \A k \in all : keys'[k] = "revoked"
  PROVE  AdminInv'
<1>0. AdminTypeOK /\ CommandDone(c) /\ cmd[c] \in CommandRecords /\ PendingIsWaiting
  BY DEF AdminInv, AdminTypeOK
<1>1. cmd[c].client \in ClientStates /\ cmd[c].shown \in Commands \cup {None}
  BY <1>0 DEF CommandRecords
<1>2. /\ cmd'[c].client = cmd[c].client /\ cmd'[c].server = server /\ cmd'[c].all = all
      /\ cmd'[c].shown = cmd[c].shown
      /\ cmd'[c].action = cmd[c].action /\ cmd'[c].key = cmd[c].key /\ cmd'[c].made = cmd[c].made
  BY <1>0 DEF AdminTypeOK, CommandRecords
<1>3. CommandDone(c)'
  <2>1. cmd[c].client \notin {"none", "confirming", "shown"}
    BY <1>0 DEF CommandDone
  <2>2. \A k \in Keys : /\ keys[k] # "unused" => keys'[k] # "unused"
                        /\ keys[k] = "revoked" => keys'[k] = "revoked"
    BY DEF KeysGoOn
  <2>3. QED  BY <1>0, <1>2, <2>1, <2>2 DEF CommandDone
<1>4. \A t \in Tabs : pending'[t] \subseteq pending[t] /\ (cmd[c].client # "waiting" => c \notin pending'[t])
  BY <1>0 DEF PendingIsWaiting
<1>5. pending' \in [Tabs -> SUBSET Commands]
  BY <1>0 DEF AdminTypeOK
<1>6. QED  BY <1>1, <1>3, <1>4, <1>5, MovesStep

\* The request reaches the server.
LEMMA HandleRequestStep == ASSUME AdminInv, NEW c \in Commands, HandleRequest(c) PROVE AdminInv'
<1> DEFINE a == cmd[c].action
           k == cmd[c].key
<1>0. AdminTypeOK /\ CommandDone(c) /\ cmd[c] \in CommandRecords
  BY DEF AdminInv, AdminTypeOK
<1>1. cmd[c].server = "sent" /\ UNCHANGED <<page, present, gms, pending>>
  BY DEF HandleRequest, Server
<1>2. keys \in [Keys -> {"unused", "active", "revoked"}] /\ cmd[c].all \in SUBSET Keys
      /\ k \in Keys \cup {None} /\ ActiveKeys \in SUBSET Keys /\ \A i \in cmd[c].all : keys[i] = "revoked"
  BY <1>0 DEF AdminTypeOK, CommandRecords, ActiveKeys, CommandDone
<1>3. ASSUME NEW server \in ServerStates, Becomes(c, server)
      PROVE  cmd' = [cmd EXCEPT ![c] = [@ EXCEPT !.client = cmd[c].client, !.server = server,
                                                 !.shown = cmd[c].shown, !.all = cmd[c].all]]
  <2>1. [cmd[c] EXCEPT !.server = server]
        = [cmd[c] EXCEPT !.client = cmd[c].client, !.server = server, !.shown = cmd[c].shown,
                         !.all = cmd[c].all]
    BY <1>0 DEF CommandRecords
  <2>2. QED  BY <1>3, <2>1 DEF Becomes
<1>4. ASSUME UNCHANGED keys 
      PROVE  KeysGoOn /\ keys' \in [Keys -> {"unused", "active", "revoked"}]
             /\ \A i \in cmd[c].all : keys'[i] = "revoked"
  BY <1>2, <1>4 DEF KeysGoOn
<1>5. CASE Becomes(c, "error") /\ UNCHANGED keys
  <2>1. "error" \in ServerStates
    BY DEF ServerStates
  <2>2. cmd' = [cmd EXCEPT ![c] = [@ EXCEPT !.client = cmd[c].client, !.server = "error",
                                            !.shown = cmd[c].shown, !.all = cmd[c].all]]
    BY <1>3, <1>5, <2>1
  <2>3. QED  BY <1>1, <1>2, <1>4, <1>5, <2>1, <2>2, ServerStep
<1>6. CASE a = "read" /\ Becomes(c, "ok") /\ UNCHANGED keys
  <2>1. "ok" \in ServerStates
    BY DEF ServerStates
  <2>2. cmd' = [cmd EXCEPT ![c] = [@ EXCEPT !.client = cmd[c].client, !.server = "ok",
                                            !.shown = cmd[c].shown, !.all = cmd[c].all]]
    BY <1>3, <1>6, <2>1
  <2>3. QED  BY <1>1, <1>2, <1>4, <1>6, <2>1, <2>2, ServerStep
<1>7. CASE a \in {"new", "rotate"} /\ Becomes(c, "hashing") /\ UNCHANGED keys
  <2>1. "hashing" \in ServerStates
    BY DEF ServerStates
  <2>2. cmd' = [cmd EXCEPT ![c] = [@ EXCEPT !.client = cmd[c].client, !.server = "hashing",
                                            !.shown = cmd[c].shown, !.all = cmd[c].all]]
    BY <1>3, <1>7, <2>1
  <2>3. cmd[c].action \in {"new", "rotate"} /\ KeysGoOn
        /\ keys' \in [Keys -> {"unused", "active", "revoked"}]
        /\ \A i \in cmd[c].all : keys'[i] = "revoked"
    BY <1>4, <1>7
  <2>4. cmd[c].server \in {"sent", "hashing", "saving"} /\ "hashing" \notin {"saving", "ok"}
    BY <1>1
  <2> HIDE DEF a, k
  <2>5. QED  BY <1>1, <1>2, <2>1, <2>2, <2>3, <2>4, ServerStep
<1>8. CASE a = "revoke" /\ k \in ActiveKeys /\ keys' = [keys EXCEPT ![k] = "revoked"]
           /\ Becomes(c, "saving")
  <2>1. "saving" \in ServerStates
    BY DEF ServerStates
  <2>2. k \in Keys /\ keys' \in [Keys -> {"unused", "active", "revoked"}] /\ keys'[k] = "revoked"
        /\ KeysGoOn /\ \A i \in cmd[c].all : keys'[i] = "revoked"
    BY <1>2, <1>8 DEF KeysGoOn
  <2>3. QED  BY <1>1, <1>2, <1>3, <1>8, <2>1, <2>2, ServerStep
<1>9. CASE /\ a = "revoke-all"
           /\ keys' = [i \in Keys |-> IF i \in ActiveKeys THEN "revoked" ELSE keys[i]]
           /\ cmd' = [cmd EXCEPT ![c].all = ActiveKeys,
                                 ![c].server = IF ActiveKeys = {} THEN "ok" ELSE "saving"]
  <2> DEFINE server == IF ActiveKeys = {} THEN "ok" ELSE "saving"
  <2>1. server \in ServerStates /\ server \in {"ok", "saving"}
    BY DEF ServerStates
  <2>2. keys' \in [Keys -> {"unused", "active", "revoked"}] /\ KeysGoOn
        /\ \A i \in ActiveKeys : keys'[i] = "revoked"
    BY <1>2, <1>9 DEF KeysGoOn
  <2>3. [[cmd[c] EXCEPT !.all = ActiveKeys] EXCEPT !.server = server]
        = [cmd[c] EXCEPT !.client = cmd[c].client, !.server = server, !.shown = cmd[c].shown,
                         !.all = ActiveKeys]
    BY <1>0 DEF CommandRecords
  <2> HIDE DEF server
  <2>4. cmd' = [cmd EXCEPT ![c] = [@ EXCEPT !.client = cmd[c].client, !.server = server,
                                            !.shown = cmd[c].shown, !.all = ActiveKeys]]
    <3>1. cmd' = [cmd EXCEPT ![c] = [[cmd[c] EXCEPT !.all = ActiveKeys] EXCEPT !.server = server]]
      BY <1>0, <1>9 DEF server, AdminTypeOK, CommandRecords
    <3>2. QED  BY <2>3, <3>1
  <2>5. QED  BY <1>1, <1>2, <1>9, <2>1, <2>2, <2>4, ServerStep
<1>10. QED  BY <1>5, <1>6, <1>7, <1>8, <1>9 DEF HandleRequest

\* keys.json has been written, or could not be.
LEMMA SavedStep == ASSUME AdminInv, NEW c \in Commands, Saved(c) PROVE AdminInv'
<1>0. AdminTypeOK /\ CommandDone(c) /\ cmd[c] \in CommandRecords
  BY DEF AdminInv, AdminTypeOK
<1>1. PICK server \in {"ok", "error"} : Becomes(c, server)
  BY DEF Saved
<1>2. cmd[c].server = "saving" /\ UNCHANGED <<page, present, gms, pending, keys>>
  BY DEF Saved, Server
<1>3. server \in ServerStates /\ cmd[c].all \in SUBSET Keys
      /\ \A k \in cmd[c].all : keys[k] = "revoked"
  BY <1>0 DEF ServerStates, CommandRecords, CommandDone
<1>4. [cmd[c] EXCEPT !.server = server]
      = [cmd[c] EXCEPT !.client = cmd[c].client, !.server = server, !.shown = cmd[c].shown,
                       !.all = cmd[c].all]
  BY <1>0 DEF CommandRecords
<1>5. cmd' = [cmd EXCEPT ![c] = [@ EXCEPT !.client = cmd[c].client, !.server = server,
                                          !.shown = cmd[c].shown, !.all = cmd[c].all]]
  BY <1>1, <1>4 DEF Becomes
<1>6. KeysGoOn /\ keys' \in [Keys -> {"unused", "active", "revoked"}]
  BY <1>0, <1>2 DEF KeysGoOn, AdminTypeOK
<1>7. QED  BY <1>2, <1>3, <1>5, <1>6, ServerStep

\* A key is made active: no other command has made it, since it was unused.
LEMMA PushKeyStep == ASSUME AdminInv, NEW c \in Commands, PushKey(c) PROVE AdminInv'
<1>0. AdminTypeOK /\ PendingIsWaiting /\ MadeOnce /\ \A d \in Commands : CommandDone(d)
  BY DEF AdminInv
<1>1. PICK k \in Unused : keys' = [keys EXCEPT ![k] = "active"]
                          /\ cmd' = [cmd EXCEPT ![c].server = "saving", ![c].made = k]
  BY DEF PushKey
<1>2. cmd[c].server = "hashing" /\ UNCHANGED <<page, present, gms, pending>>
  BY DEF PushKey, Server
<1>3. k \in Keys /\ keys[k] = "unused" /\ cmd[c] \in CommandRecords
  BY <1>0 DEF Unused, AdminTypeOK
<1> DEFINE new == [[cmd[c] EXCEPT !.server = "saving"] EXCEPT !.made = k]
<1>4. cmd' = [cmd EXCEPT ![c] = new]
  BY <1>0, <1>1, <1>3 DEF AdminTypeOK, CommandRecords
<1>5. /\ new \in CommandRecords /\ new.made = k /\ new.server = "saving"
      /\ new.client = cmd[c].client /\ new.tab = cmd[c].tab /\ new.action = cmd[c].action
      /\ new.shown = cmd[c].shown /\ new.all = cmd[c].all
  BY <1>3 DEF CommandRecords, ServerStates
<1> HIDE DEF new
<1>6. cmd'[c] = new /\ \A d \in Commands \ {c} : cmd'[d] = cmd[d]
  BY <1>0, <1>4 DEF AdminTypeOK
<1>7. keys' \in [Keys -> {"unused", "active", "revoked"}] /\ KeysGoOn /\ keys'[k] = "active"
  BY <1>0, <1>1, <1>3 DEF AdminTypeOK, KeysGoOn
<1>8. AdminTypeOK'
  BY <1>0, <1>2, <1>4, <1>5, <1>7 DEF AdminTypeOK
<1>9. PendingIsWaiting'
  BY <1>0, <1>2, <1>5, <1>6 DEF PendingIsWaiting, AdminTypeOK
<1>10. MadeOnce'
  <2>1. \A d \in Commands : cmd[d].made # k
    BY <1>0, <1>3 DEF CommandDone
  <2>2. QED  BY <1>0, <1>5, <1>6, <2>1 DEF MadeOnce
<1>11. CommandDone(c)'
  <2>1. cmd[c].client \notin {"none", "confirming", "shown"} /\ cmd[c].action \in {"new", "rotate"}
        /\ \A i \in cmd[c].all : keys[i] = "revoked"
    BY <1>0, <1>2 DEF CommandDone
  <2>2. \A i \in cmd[c].all : i \in Keys
    BY <1>3 DEF CommandRecords
  <2>3. QED  BY <1>3, <1>5, <1>6, <1>7, <2>1, <2>2 DEF CommandDone, KeysGoOn
<1>12. ASSUME NEW d \in Commands \ {c} PROVE CommandDone(d)'
  BY <1>0, <1>6, <1>7, OthersStay
<1>13. QED  BY <1>8, <1>9, <1>10, <1>11, <1>12 DEF AdminInv

\* The timer of a rotation revokes the key that was rotated.
LEMMA RotationStep == ASSUME AdminInv, NEW c \in Commands, RotationDue(c) PROVE AdminInv'
<1>0. AdminTypeOK /\ PendingIsWaiting /\ MadeOnce /\ \A d \in Commands : CommandDone(d)
  BY DEF AdminInv
<1>1. UNCHANGED <<page, present, gms, pending, cmd>> /\ cmd[c].key \in Keys
      /\ keys' = [keys EXCEPT ![cmd[c].key] = "revoked"]
  BY DEF RotationDue, Server, ActiveKeys
<1>2. keys' \in [Keys -> {"unused", "active", "revoked"}] /\ KeysGoOn
  BY <1>0, <1>1 DEF AdminTypeOK, KeysGoOn
<1>3. AdminTypeOK' /\ PendingIsWaiting' /\ MadeOnce'
  BY <1>0, <1>1, <1>2 DEF AdminTypeOK, PendingIsWaiting, MadeOnce
<1>4. ASSUME NEW d \in Commands PROVE CommandDone(d)'
  BY <1>0, <1>1, <1>2, OthersStay
<1>5. QED  BY <1>3, <1>4 DEF AdminInv

\* The tab's side of a command: the dialog, the timer and the reply.
LEMMA CancelStep == ASSUME AdminInv, NEW c \in Commands, Cancel(c) PROVE AdminInv'
<1>0. AdminTypeOK /\ PendingIsWaiting /\ cmd[c] \in CommandRecords
  BY DEF AdminInv, AdminTypeOK
<1>1. [cmd[c] EXCEPT !.client = "cancelled"]
      = [cmd[c] EXCEPT !.client = "cancelled", !.server = cmd[c].server, !.shown = cmd[c].shown,
                       !.all = cmd[c].all]
  BY <1>0 DEF CommandRecords
<1>2. cmd' = [cmd EXCEPT ![c] = [@ EXCEPT !.client = "cancelled", !.server = cmd[c].server,
                                          !.shown = cmd[c].shown, !.all = cmd[c].all]]
  BY <1>1 DEF Cancel
<1>3. cmd[c].shown \in Commands \cup {None}
  BY <1>0 DEF CommandRecords
<1>4. cmd[c].client = "confirming" /\ UNCHANGED <<page, present, gms, pending, keys>>
  BY DEF Cancel
<1>5. pending' \in [Tabs -> SUBSET Commands] /\ \A t \in Tabs : c \notin pending'[t]
  BY <1>0, <1>4 DEF PendingIsWaiting, AdminTypeOK
<1>6. QED  BY <1>2, <1>3, <1>4, <1>5, TabStep

LEMMA TimesOutStep == ASSUME AdminInv, NEW c \in Commands, TimesOut(c) PROVE AdminInv'
<1>0. AdminTypeOK /\ PendingIsWaiting /\ cmd[c] \in CommandRecords
  BY DEF AdminInv, AdminTypeOK
<1>1. [cmd[c] EXCEPT !.client = "failed"]
      = [cmd[c] EXCEPT !.client = "failed", !.server = cmd[c].server, !.shown = cmd[c].shown,
                       !.all = cmd[c].all]
  BY <1>0 DEF CommandRecords
<1>2. cmd' = [cmd EXCEPT ![c] = [@ EXCEPT !.client = "failed", !.server = cmd[c].server,
                                          !.shown = cmd[c].shown, !.all = cmd[c].all]]
  BY <1>1 DEF TimesOut
<1>3. cmd[c].shown \in Commands \cup {None}
  BY <1>0 DEF CommandRecords
<1>4. cmd[c].client = "waiting" /\ UNCHANGED <<page, present, gms, keys>>
      /\ pending' = [pending EXCEPT ![cmd[c].tab] = @ \ {c}]
  BY DEF TimesOut
<1>5. pending \in [Tabs -> SUBSET Commands] /\ \A t \in Tabs : c \in pending[t] => cmd[c].tab = t
  BY <1>0 DEF PendingIsWaiting, AdminTypeOK
<1>6. pending' \in [Tabs -> SUBSET Commands]
      /\ \A t \in Tabs : pending'[t] \subseteq pending[t] /\ c \notin pending'[t]
  BY <1>4, <1>5
<1>7. QED  BY <1>2, <1>3, <1>4, <1>6, TabStep

LEMMA HandleReplyStep == ASSUME AdminInv, NEW c \in Commands, HandleReply(c) PROVE AdminInv'
<1>0. AdminTypeOK /\ PendingIsWaiting /\ cmd[c] \in CommandRecords
  BY DEF AdminInv, AdminTypeOK
<1> DEFINE client == IF cmd[c].server = "ok" THEN "shown" ELSE "failed"
<1>1. [[cmd[c] EXCEPT !.client = client] EXCEPT !.shown = c]
      = [cmd[c] EXCEPT !.client = client, !.server = cmd[c].server, !.shown = c, !.all = cmd[c].all]
  BY <1>0 DEF CommandRecords
<1>2. cmd' = [cmd EXCEPT ![c] = [[cmd[c] EXCEPT !.client = client] EXCEPT !.shown = c]]
  BY <1>0 DEF HandleReply, AdminTypeOK, CommandRecords
<1>3. client \in {"shown", "failed"} /\ (client = "shown" => cmd[c].server = "ok")
  OBVIOUS
<1> HIDE DEF client
<1>4. cmd' = [cmd EXCEPT ![c] = [@ EXCEPT !.client = client, !.server = cmd[c].server,
                                          !.shown = c, !.all = cmd[c].all]]
  BY <1>1, <1>2
<1>5. PICK t \in Open : c \in pending[t] /\ pending' = [pending EXCEPT ![t] = @ \ {c}]
  BY DEF HandleReply
<1>6. t \in Tabs /\ pending \in [Tabs -> SUBSET Commands]
      /\ cmd[c].client = "waiting" /\ \A p \in Tabs : c \in pending[p] => p = t
  BY <1>0, <1>5 DEF Open, PendingIsWaiting, AdminTypeOK
<1>7. pending' \in [Tabs -> SUBSET Commands]
      /\ \A p \in Tabs : pending'[p] \subseteq pending[p] /\ c \notin pending'[p]
  BY <1>5, <1>6
<1>8. UNCHANGED <<page, present, gms, keys>>
  BY DEF HandleReply
<1>9. QED  BY <1>3, <1>4, <1>6, <1>7, <1>8, TabStep

\* A command that is typed, and one that is confirmed.
LEMMA TypeStep == ASSUME AdminInv, NEW c \in Commands, Type(c) PROVE AdminInv'
<1>1. PICK t \in Open : /\ cmd[c].client = "none"
                        /\ \/ \E a \in {"new", "read"} : Sends(c, t, a, None)
                           \/ \E a \in {"rotate", "revoke"}, k \in Keys \ Unused : Sends(c, t, a, k)
                           \/ Asks(c, t)
  BY DEF Type
<1>2. t \in Tabs
  BY DEF Open
<1>3. CASE \E a \in {"new", "read"} : Sends(c, t, a, None)
  BY <1>1, <1>2, <1>3, SendsStep DEF Actions
<1>4. CASE \E a \in {"rotate", "revoke"}, k \in Keys \ Unused : Sends(c, t, a, k)
  BY <1>1, <1>2, <1>4, SendsStep DEF Actions
<1>5. CASE Asks(c, t)
  BY <1>1, <1>2, <1>5, AsksStep
<1>6. QED  BY <1>1, <1>3, <1>4, <1>5

LEMMA ConfirmStep == ASSUME AdminInv, NEW c \in Commands, Confirm(c) PROVE AdminInv'
<1>1. cmd[c].tab \in Tabs /\ cmd[c].action \in Actions /\ cmd[c].key \in Keys \cup {None}
  BY DEF AdminInv, AdminTypeOK, CommandRecords, CommandDone, Confirm
<1>2. QED  BY <1>1, SendsStep DEF Confirm

-----------------------------------------------------------------------------
(* The pages and the world *)

LEMMA TabClosesStep == ASSUME AdminInv, NEW t \in Tabs, TabCloses(t) PROVE AdminInv'
<1>0. AdminTypeOK /\ PendingIsWaiting /\ MadeOnce /\ \A d \in Commands : CommandDone(d)
  BY DEF AdminInv
<1>1. /\ page' = [page EXCEPT ![t] = "closed"] /\ present' \subseteq present
      /\ pending' = [pending EXCEPT ![t] = {}] /\ UNCHANGED <<gms, keys>>
      /\ cmd' = [c \in Commands |-> IF cmd[c].tab = t THEN [cmd[c] EXCEPT !.client = "gone"] ELSE cmd[c]]
  BY DEF TabCloses
<1>2. ASSUME NEW c \in Commands
      PROVE  /\ cmd'[c] \in CommandRecords
             /\ cmd'[c].made = cmd[c].made /\ cmd'[c].all = cmd[c].all /\ cmd'[c].tab = cmd[c].tab
             /\ cmd'[c].server = cmd[c].server /\ cmd'[c].action = cmd[c].action
             /\ cmd'[c].key = cmd[c].key /\ cmd'[c].shown = cmd[c].shown
             /\ cmd'[c].client = IF cmd[c].tab = t THEN "gone" ELSE cmd[c].client
  <2>1. cmd[c] \in CommandRecords
    BY <1>0 DEF AdminTypeOK
  <2>2. CASE cmd[c].tab = t
    <3>1. cmd'[c] = [cmd[c] EXCEPT !.client = "gone"]
      BY <1>1, <2>2
    <3>2. QED  BY <2>1, <2>2, <3>1 DEF CommandRecords, ClientStates
  <2>3. CASE cmd[c].tab # t
    BY <1>1, <2>1, <2>3
  <2>4. QED  BY <2>2, <2>3
<1>3. AdminTypeOK'
  BY <1>0, <1>1, <1>2 DEF AdminTypeOK
<1>4. PendingIsWaiting'
  BY <1>0, <1>1, <1>2 DEF PendingIsWaiting, AdminTypeOK
<1>5. MadeOnce'
  BY <1>0, <1>2 DEF MadeOnce
<1>6. ASSUME NEW c \in Commands PROVE CommandDone(c)'
  <2>1. CommandDone(c)
    BY <1>0
  <2>2. QED  BY <1>1, <1>2, <2>1 DEF CommandDone
<1>7. QED  BY <1>3, <1>4, <1>5, <1>6 DEF AdminInv

\* Steps that leave the commands and the keys alone.
LEMMA RestStep ==
  ASSUME AdminInv, UNCHANGED <<pending, keys, cmd>>,
         page' \in [Tabs -> {"none", "open", "closed"}], present' \subseteq Users, gms' \subseteq Users
  PROVE  AdminInv'
<1>1. AdminTypeOK' /\ PendingIsWaiting' /\ MadeOnce'
  BY DEF AdminInv, AdminTypeOK, PendingIsWaiting, MadeOnce
<1>2. \A c \in Commands : CommandDone(c)'
  BY DEF AdminInv, CommandDone
<1>3. QED  BY <1>1, <1>2 DEF AdminInv

LEMMA AdminStep == AdminInv /\ [Next]_vars => AdminInv'
<1> SUFFICES ASSUME AdminInv, [Next]_vars PROVE AdminInv'
  OBVIOUS
<1>0. page \in [Tabs -> {"none", "open", "closed"}] /\ present \subseteq Users /\ gms \subseteq Users
  BY DEF AdminInv, AdminTypeOK
<1>1. CASE UNCHANGED adminVars
  BY <1>0, <1>1, RestStep DEF adminVars
<1>2. ASSUME NEW t \in Tabs, TabOpens(t) PROVE AdminInv'
  <2>1. UserOf[t] \in Users
    BY AdminAssumption
  <2>2. QED  BY <1>0, <1>2, <2>1, RestStep DEF TabOpens
<1>3. ASSUME NEW u \in Users, Demote(u) PROVE AdminInv'
  BY <1>0, <1>3, RestStep DEF Demote
<1>31. ASSUME NEW t \in Tabs, Disconnects(t) PROVE AdminInv'
  BY <1>0, <1>31, RestStep DEF Disconnects
<1>4. ASSUME NEW c \in Commands, Command(c) PROVE AdminInv'
  BY <1>4, TypeStep, ConfirmStep, CancelStep, TimesOutStep, HandleReplyStep, HandleRequestStep,
     PushKeyStep, SavedStep, RotationStep DEF Command
<1>5. QED  BY <1>1, <1>2, <1>3, <1>31, <1>4, TabClosesStep DEF Next, vars, adminVars

\* chat-commands.mjs, admin-rpc.mjs: what a tab shows answers its own command,
\* and is true when it is shown and ever after.
THEOREM CommandsAnswerTruly == AdminSpec => []AnswersAreTrue
<1>1. ASSUME AdminInv, NEW c \in Commands, cmd[c].client = "shown"
      PROVE  /\ cmd[c].shown = c
             /\ cmd[c].action \in {"new", "rotate"} =>
                  /\ cmd[c].made \in Keys /\ keys[cmd[c].made] # "unused"
                  /\ \A d \in Commands : cmd[d].made = cmd[c].made => d = c
             /\ cmd[c].action = "revoke" => keys[cmd[c].key] = "revoked"
             /\ \A k \in cmd[c].all : keys[k] = "revoked"
  BY <1>1 DEF AdminInv, CommandDone, MadeOnce
<1>2. AdminInv => AnswersAreTrue
  BY <1>1 DEF AnswersAreTrue
<1>3. QED  BY <1>2, AdminStart, AdminStep, PTL DEF AdminSpec

\* admin-rpc.mjs: a tab shows what it waits for, or stops waiting, once.
THEOREM CommandsEndOnce == AdminSpec => EndsOnce
<1> DEFINE Ended(c) == cmd[c].client \in {"shown", "failed", "cancelled"}
           Stays(c) == cmd'[c].client \in {cmd[c].client, "gone"} /\ cmd'[c].shown = cmd[c].shown
<1>1. ASSUME AdminInv, [Next]_vars, NEW c \in Commands, Ended(c) PROVE Stays(c)
  <2>0. /\ cmd \in [Commands -> CommandRecords] /\ cmd[c] \in CommandRecords
        /\ \A t \in Tabs : c \notin pending[t]
    BY <1>1 DEF AdminInv, AdminTypeOK, PendingIsWaiting
  <2>1. ASSUME NEW d \in Commands, Command(d) PROVE Stays(c)
    <3>1. CASE d # c
      <4>1. cmd'[c] = cmd[c]
        BY <2>0, <2>1, <3>1 DEF Command, Type, Asks, Sends, Confirm, Cancel, TimesOut, HandleReply,
             HandleRequest, PushKey, Saved, RotationDue, Becomes
      <4>2. QED  BY <4>1
    <3>2. CASE d = c
      <4>1. ~ Type(c) /\ ~ Confirm(c) /\ ~ Cancel(c) /\ ~ TimesOut(c)
        BY <1>1 DEF Type, Confirm, Cancel, TimesOut
      <4>2. ~ HandleReply(c)
        BY <2>0 DEF HandleReply, Open
      <4>3. ASSUME HandleRequest(c) \/ PushKey(c) \/ Saved(c) \/ RotationDue(c) PROVE Stays(c)
        BY <2>0, <4>3 DEF HandleRequest, PushKey, Saved, RotationDue, Becomes, CommandRecords
      <4>4. QED  BY <2>1, <3>2, <4>1, <4>2, <4>3 DEF Command
    <3>3. QED  BY <3>1, <3>2
  <2>2. ASSUME NEW t \in Tabs, TabCloses(t) PROVE Stays(c)
    BY <2>0, <2>2 DEF TabCloses, CommandRecords
  <2>3. ASSUME UNCHANGED cmd PROVE Stays(c)
    BY <2>3
  <2>4. QED  BY <1>1, <2>1, <2>2, <2>3 DEF Next, vars, adminVars, TabOpens, Disconnects, Demote
<1>2. AdminInv /\ [Next]_vars => [\A c \in Commands : Ended(c) => Stays(c)]_vars
  BY <1>1
<1>3. QED  BY <1>2, AdminStart, AdminStep, PTL DEF AdminSpec, EndsOnce

-----------------------------------------------------------------------------
(* The audit log *)

\* Induction over the numbers up to N, for a set of them.
LEMMA CountsUp ==
  ASSUME NEW N \in Nat, NEW S, 0 \in S, \A n \in 1..N : n - 1 \in S => n \in S
  PROVE  \A n \in 0..N : n \in S
<1> DEFINE Bad == {n \in 0..N : n \notin S}
<1>1. SUFFICES ASSUME Bad # {}
               PROVE  FALSE
  OBVIOUS
<1>2. PICK m \in Bad : \A y \in Bad : <<y, m>> \notin OpToRel(<, Nat)
  <2>1. Bad \in SUBSET Nat
    OBVIOUS
  <2> HIDE DEF Bad
  <2>2. QED  BY <1>1, <2>1, NatLessThanWellFounded, WFMin
<1>3. m \in Nat /\ m \in 0..N /\ m \notin S
  <2>1. m \in 0..N /\ m \notin S
    OBVIOUS
  <2>2. QED  BY <2>1
<1>4. m # 0
  BY <1>3
<1>5. m - 1 \in 0..N /\ m \in 1..N /\ m - 1 \in Nat /\ m - 1 < m
  BY <1>3, <1>4
<1>6. m - 1 \notin Bad
  <2>1. \A y \in Bad : ~(y \in Nat /\ m \in Nat /\ y < m)
    BY <1>2 DEF OpToRel
  <2>2. QED  BY <1>3, <1>5, <2>1
<1>7. QED  BY <1>3, <1>5, <1>6

\* The list of the lines to keep, line by line.
LEMMA KeptLoop ==
  ASSUME NEW lines \in Seq(Requests), NEW since
  PROVE  \E f : /\ Kept(lines, since) = f[Len(lines)]
                /\ f[0] = <<>>
                /\ \A n \in 1..Len(lines) :
                     f[n] = IF OldAt(since, lines[n]) THEN f[n - 1] ELSE Append(f[n - 1], lines[n])
<1> DEFINE Loop(f, n) == IF n = 0 THEN <<>>
                         ELSE IF OldAt(since, lines[n]) THEN f[n - 1] ELSE Append(f[n - 1], lines[n])
           Upto(f, m) == f = [n \in 0..m |-> Loop(f, n)]
           S == {m \in Nat : \E f : Upto(f, m)}
<1>1. 0 \in S
  <2>1. Upto([n \in 0..0 |-> <<>>], 0)
    OBVIOUS
  <2>2. QED  BY <2>1
<1>2. ASSUME NEW m \in 1..Len(lines), m - 1 \in S
      PROVE  m \in S
  <2>1. PICK f : Upto(f, m - 1)
    BY <1>2
  <2> DEFINE g == [n \in 0..m |-> IF n = m THEN Loop(f, m) ELSE f[n]]
  <2>2. ASSUME NEW n \in 0..m
        PROVE  g[n] = Loop(g, n)
    <3>1. CASE n = m
      BY <3>1
    <3>2. CASE n # m
      <4>1. n \in 0..(m - 1) /\ g[n] = f[n] /\ (n # 0 => g[n - 1] = f[n - 1])
        BY <3>2
      <4>2. f[n] = Loop(f, n)
        BY <2>1, <4>1
      <4>3. QED  BY <4>1, <4>2
    <3>3. QED  BY <3>1, <3>2
  <2>3. Upto(g, m)
    BY <2>2
  <2>4. m \in Nat
    OBVIOUS
  <2> HIDE DEF Upto, g
  <2>5. QED  BY <2>3, <2>4
<1>3. Len(lines) \in Nat
  OBVIOUS
<1>4. \E f : Upto(f, Len(lines))
  <2> HIDE DEF S
  <2>0. Len(lines) \in 0..Len(lines) /\ \A m \in 1..Len(lines) : m - 1 \in S => m \in S
    BY <1>2, <1>3
  <2>1. Len(lines) \in S
    BY <1>1, <1>3, <2>0, CountsUp, Zenon
  <2>2. QED  BY <2>1 DEF S
<1> DEFINE kept == CHOOSE f : Upto(f, Len(lines))
<1>5. Kept(lines, since) = kept[Len(lines)]
  BY DEF Kept
<1>6. Upto(kept, Len(lines))
  BY <1>4
<1> HIDE DEF kept
<1>7. /\ kept[0] = <<>>
      /\ \A n \in 1..Len(lines) :
           kept[n] = IF OldAt(since, lines[n]) THEN kept[n - 1] ELSE Append(kept[n - 1], lines[n])
  <2>1. \A n \in 0..Len(lines) : kept[n] = Loop(kept, n)
    BY <1>6
  <2>2. 0 \in 0..Len(lines) /\ \A n \in 1..Len(lines) : n \in 0..Len(lines) /\ n # 0
    BY <1>3
  <2>3. QED  BY <2>1, <2>2
<1>8. QED  BY <1>5, <1>7

\* What the prune keeps of the lines it has read: all that are not too old, and
\* no other line.
LEMMA KeptLines ==
  ASSUME NEW lines \in Seq(Requests), NEW since
  PROVE  /\ Kept(lines, since) \in Seq(Requests)
         /\ \A i \in DOMAIN lines :
              \/ OldAt(since, lines[i])
              \/ \E k \in DOMAIN Kept(lines, since) : Kept(lines, since)[k] = lines[i]
         /\ \A k \in DOMAIN Kept(lines, since) :
              /\ \E i \in DOMAIN lines : Kept(lines, since)[k] = lines[i]
              /\ ~OldAt(since, Kept(lines, since)[k])
<1>1. PICK f : /\ Kept(lines, since) = f[Len(lines)]
               /\ f[0] = <<>>
               /\ \A n \in 1..Len(lines) :
                    f[n] = IF OldAt(since, lines[n]) THEN f[n - 1] ELSE Append(f[n - 1], lines[n])
  BY KeptLoop
<1> DEFINE Good(n) == /\ f[n] \in Seq(Requests)
                      /\ \A i \in 1..n : \/ OldAt(since, lines[i])
                                         \/ \E k \in DOMAIN f[n] : f[n][k] = lines[i]
                      /\ \A k \in DOMAIN f[n] : /\ \E i \in 1..n : f[n][k] = lines[i]
                                                /\ ~OldAt(since, f[n][k])
           S == {n \in Nat : Good(n)}
<1>2. 0 \in S
  <2>1. <<>> \in Seq(Requests) /\ DOMAIN <<>> = {}
    OBVIOUS
  <2>2. Good(0)
    BY <1>1, <2>1
  <2>3. QED  BY <2>2
<1>3. ASSUME NEW n \in 1..Len(lines), n - 1 \in S
      PROVE  n \in S
  <2>1. Good(n - 1) /\ n \in Nat /\ n - 1 \in Nat /\ lines[n] \in Requests
    BY <1>3
  <2>2. CASE OldAt(since, lines[n])
    <3>1. f[n] = f[n - 1]
      BY <1>1, <2>2
    <3>2. Good(n)
      BY <2>1, <2>2, <3>1
    <3>3. QED  BY <2>1, <3>2
  <2>3. CASE ~OldAt(since, lines[n])
    <3>1. f[n] = Append(f[n - 1], lines[n])
      BY <1>1, <2>3
    <3> DEFINE old == f[n - 1]
    <3>2. old \in Seq(Requests) /\ f[n] = Append(old, lines[n])
      BY <2>1, <3>1
    <3> HIDE DEF old
    <3>3. /\ f[n] \in Seq(Requests) /\ DOMAIN f[n] = 1..(Len(old) + 1)
          /\ f[n][Len(old) + 1] = lines[n] /\ Len(old) \in Nat
          /\ DOMAIN old = 1..Len(old)
          /\ \A k \in DOMAIN old : f[n][k] = old[k]
      BY <2>1, <3>2
    <3>4. ASSUME NEW i \in 1..n
          PROVE  \/ OldAt(since, lines[i])
                 \/ \E k \in DOMAIN f[n] : f[n][k] = lines[i]
      <4>1. CASE i = n
        BY <3>3, <4>1
      <4>2. CASE i \in 1..(n - 1)
        <5>1. OldAt(since, lines[i]) \/ \E k \in DOMAIN old : old[k] = lines[i]
          BY <2>1, <4>2 DEF old
        <5>2. \A k \in DOMAIN old : k \in DOMAIN f[n] /\ f[n][k] = old[k]
          BY <3>3
        <5>3. QED  BY <5>1, <5>2
      <4>3. QED  BY <2>1, <4>1, <4>2
    <3>5. ASSUME NEW k \in DOMAIN f[n]
          PROVE  (\E i \in 1..n : f[n][k] = lines[i]) /\ ~OldAt(since, f[n][k])
      <4>1. CASE k = Len(old) + 1
        BY <2>1, <2>3, <3>3, <4>1
      <4>2. CASE k \in DOMAIN old
        <5>1. ~OldAt(since, old[k]) /\ \E i \in 1..(n - 1) : old[k] = lines[i]
          BY <2>1, <4>2 DEF old
        <5>2. PICK i \in 1..(n - 1) : old[k] = lines[i]
          BY <5>1
        <5>3. i \in 1..n /\ f[n][k] = lines[i] /\ f[n][k] = old[k]
          BY <2>1, <3>3, <4>2, <5>2
        <5>4. QED  BY <5>1, <5>3
      <4>3. QED  BY <3>3, <4>1, <4>2
    <3>6. QED  BY <2>1, <3>3, <3>4, <3>5
  <2>4. QED  BY <2>2, <2>3
<1>4. Len(lines) \in Nat /\ DOMAIN lines = 1..Len(lines)
  OBVIOUS
<1>5. Good(Len(lines))
  <2> HIDE DEF S
  <2>0. Len(lines) \in 0..Len(lines) /\ \A n \in 1..Len(lines) : n - 1 \in S => n \in S
    BY <1>3, <1>4
  <2>1. Len(lines) \in S
    BY <1>2, <1>4, <2>0, CountsUp, Zenon
  <2>2. QED  BY <2>1 DEF S
<1>6. QED  BY <1>1, <1>4, <1>5

-----------------------------------------------------------------------------
LEMMA LogStart == LogInit => LogInv
<1> SUFFICES ASSUME LogInit PROVE LogInv
  OBVIOUS
<1>1. LogTypeOK
  <2>1. MaxTime \in Nat /\ 0 \in 0..MaxTime /\ <<>> \in Seq(Requests)
    BY TimeAssumption
  <2>2. prune = Idle
    BY DEF LogInit
  <2>3. QED  BY <2>1, <2>2 DEF LogInit, LogTypeOK
<1>2. log = <<>> /\ prune.at = "idle"
  BY DEF LogInit, Idle
<1>3. QED  BY <1>1, <1>2 DEF LogInv

\* Whatever a request does with its entry, and whatever becomes of the
\* process: a line that is written is not touched, and a prune is either as
\* far as it was or over.
LEMMA EntriesKeep ==
  ASSUME LogInv, entry' \in [Requests -> {"none", "due", "open", "stale", "written", "lost"}],
         now' \in 0..MaxTime, booted' \in BOOLEAN, stamp' \in [Requests -> 0..MaxTime],
         log' = log, prune' = prune \/ prune' = Idle,
         \A r \in Requests : entry[r] = "written" => entry'[r] = "written" /\ stamp'[r] = stamp[r]
  PROVE  LogInv'
<1> USE DEF LogInv, LogTypeOK
<1>1. \A i \in DOMAIN log : log[i] \in Requests
  OBVIOUS
<1>2. LogTypeOK' /\ \A i \in DOMAIN log' : entry'[log'[i]] = "written"
  BY <1>1
<1>3. CASE prune' = Idle
  BY <1>2, <1>3 DEF Idle
<1>4. CASE prune' = prune /\ prune # Idle
  <2>1. /\ prune.read \in Nat /\ \A k \in DOMAIN prune.kept : prune.kept[k] \in Requests
        /\ Len(log) \in Nat /\ DOMAIN log = 1..Len(log)
    BY <1>4
  <2>2. ASSUME prune.at \in {"write", "rename"}
        PROVE  /\ prune.read <= Len(log)
               /\ \A k \in DOMAIN prune.kept :
                    entry'[prune.kept[k]] = "written" /\ ~OldAt(prune.since, prune.kept[k])'
               /\ \A i \in 1..prune.read :
                    \/ OldAt(prune.since, log[i])'
                    \/ \E k \in DOMAIN prune.kept : prune.kept[k] = log[i]
    <3>1. /\ prune.read <= Len(log)
          /\ \A i \in 1..prune.read :
               \/ OldAt(prune.since, log[i])
               \/ \E k \in DOMAIN prune.kept : prune.kept[k] = log[i]
      BY <2>2
    <3>2. \A i \in 1..prune.read : i \in DOMAIN log
      BY <2>1, <3>1
    <3>3. \A i \in DOMAIN log : stamp'[log[i]] = stamp[log[i]]
      BY <1>1
    <3>4. \A k \in DOMAIN prune.kept :
            /\ entry'[prune.kept[k]] = "written" /\ ~OldAt(prune.since, prune.kept[k])
            /\ stamp'[prune.kept[k]] = stamp[prune.kept[k]]
      BY <2>1, <2>2
    <3>5. QED  BY <1>4, <3>1, <3>2, <3>3, <3>4 DEF OldAt
  <2>3. QED  BY <1>2, <1>4, <2>2 DEF OldAt
<1>5. QED  BY <1>3, <1>4

\* Every step keeps it.
LEMMA LogStep == LogInv /\ [LogNext]_logVars => LogInv'
<1> SUFFICES ASSUME LogInv, [LogNext]_logVars PROVE LogInv'
  OBVIOUS
<1>0. LogTypeOK /\ \A i \in DOMAIN log : log[i] \in Requests
  BY TimeAssumption DEF LogInv, LogTypeOK
<1>1. ASSUME NEW r \in Requests, Arrive(r) \/ OpenLog(r) \/ AppendFails(r) \/ (AppendLine(r) /\ entry[r] = "stale")
      PROVE  LogInv'
  BY <1>0, <1>1, EntriesKeep DEF Arrive, OpenLog, AppendFails, AppendLine, LogTypeOK
<1>2. ASSUME NEW r \in Requests, AppendLine(r), entry[r] = "open"
      PROVE  LogInv'
  <2>1. /\ log \in Seq(Requests) /\ log' = Append(log, r) /\ UNCHANGED <<now, booted, stamp, prune>>
        /\ entry' = [entry EXCEPT ![r] = "written"]
    BY <1>0, <1>2 DEF AppendLine, LogTypeOK
  <2>2. /\ log' \in Seq(Requests) /\ Len(log) \in Nat /\ Len(log') = Len(log) + 1
        /\ \A i \in DOMAIN log' : (i \in DOMAIN log /\ log'[i] = log[i]) \/ log'[i] = r
        /\ \A i \in 1..Len(log) : log'[i] = log[i]
    BY <2>1
  <2>3. LogTypeOK'
    BY <1>0, <2>1, <2>2 DEF LogTypeOK
  <2>4. \A q \in Requests : entry[q] = "written" \/ q = r => entry'[q] = "written"
    BY <1>0, <2>1 DEF LogTypeOK
  <2>5. \A i \in DOMAIN log' : entry'[log'[i]] = "written"
    BY <1>0, <2>2, <2>4 DEF LogInv
  <2>6. ASSUME prune'.at \in {"write", "rename"}
        PROVE  /\ prune'.read <= Len(log')
               /\ \A k \in DOMAIN prune'.kept :
                    entry'[prune'.kept[k]] = "written" /\ ~OldAt(prune.since, prune.kept[k])'
               /\ \A i \in 1..prune'.read :
                    \/ OldAt(prune.since, log[i])'
                    \/ \E k \in DOMAIN prune'.kept : prune'.kept[k] = log'[i]
    <3>1. /\ prune' = prune /\ prune.read \in Nat /\ prune.read <= Len(log)
          /\ \A k \in DOMAIN prune.kept : prune.kept[k] \in Requests
      BY <1>0, <2>1, <2>6 DEF LogInv, LogTypeOK, Idle
    <3>2. QED  BY <2>1, <2>2, <2>4, <2>6, <3>1 DEF LogInv, OldAt
  <2>7. QED  BY <2>3, <2>5, <2>6 DEF LogInv
<1>3. CASE PruneStart
  BY <1>0, <1>3 DEF PruneStart, LogInv, LogTypeOK
<1>4. CASE PruneRead /\ prune' # Idle
  <2> DEFINE kept == Kept(log, prune.since)
  <2>1. /\ prune' = [prune EXCEPT !.at = "write", !.kept = kept, !.read = Len(log)]
        /\ prune # Idle /\ UNCHANGED <<now, booted, log, entry, stamp>>
    BY <1>4 DEF PruneRead, PruneEnds, Idle
  <2>2. /\ kept \in Seq(Requests)
        /\ \A i \in DOMAIN log : \/ OldAt(prune.since, log[i])
                                 \/ \E k \in DOMAIN kept : kept[k] = log[i]
        /\ \A k \in DOMAIN kept : /\ \E i \in DOMAIN log : kept[k] = log[i]
                                  /\ ~OldAt(prune.since, kept[k])
    BY <1>0, KeptLines DEF LogTypeOK
  <2> HIDE DEF kept
  <2>3. /\ prune'.at = "write" /\ prune'.kept = kept /\ prune'.read = Len(log)
        /\ prune'.since = prune.since /\ Len(log) \in Nat /\ DOMAIN log = 1..Len(log)
        /\ prune' \in [at : {"read", "write", "rename"}, since : 0..MaxTime,
                       kept : Seq(Requests), read : Nat]
    <3>1. prune \in [at : {"read", "write", "rename"}, since : 0..MaxTime, kept : Seq(Requests), read : Nat]
      BY <1>0, <2>1 DEF LogTypeOK
    <3>2. Len(log) \in Nat /\ DOMAIN log = 1..Len(log)
      BY <1>0 DEF LogTypeOK
    <3>3. QED  BY <2>1, <2>2, <3>1, <3>2
  <2>4. LogTypeOK'
    BY <1>0, <2>1, <2>3 DEF LogTypeOK
  <2>5. QED  BY <1>0, <2>1, <2>2, <2>3, <2>4 DEF LogInv, OldAt
<1>5. CASE PruneWrite
  <2>1. /\ prune' \in [at : {"read", "write", "rename"}, since : 0..MaxTime,
                       kept : Seq(Requests), read : Nat]
        /\ prune'.kept = prune.kept /\ prune'.read = prune.read /\ prune'.since = prune.since
        /\ UNCHANGED <<now, booted, log, entry, stamp>>
    <3>1. /\ prune.at = "write" /\ prune' = [prune EXCEPT !.at = "rename"]
          /\ UNCHANGED <<now, booted, log, entry, stamp>>
      BY <1>5 DEF PruneWrite
    <3>2. prune \in [at : {"read", "write", "rename"}, since : 0..MaxTime, kept : Seq(Requests), read : Nat]
      BY <1>0, <3>1 DEF LogTypeOK, Idle
    <3>3. QED  BY <3>1, <3>2
  <2>2. LogTypeOK'
    BY <1>0, <2>1 DEF LogTypeOK
  <2>3. QED  BY <1>0, <1>5, <2>1, <2>2 DEF LogInv, PruneWrite, OldAt
<1>6. CASE PruneRename
  <2>1. /\ prune.at = "rename" /\ prune.kept \in Seq(Requests) /\ log' = prune.kept
        /\ prune' = Idle /\ booted' = TRUE /\ UNCHANGED <<now, stamp>>
        /\ entry' = [r \in Requests |-> IF entry[r] = "open" THEN "stale" ELSE entry[r]]
    BY <1>0, <1>6 DEF PruneRename, PruneEnds, LogTypeOK, Idle
  <2>2. LogTypeOK'
    BY <1>0, <2>1 DEF LogTypeOK
  <2>3. \A i \in DOMAIN log' : entry'[log'[i]] = "written"
    <3>1. \A i \in DOMAIN prune.kept : prune.kept[i] \in Requests /\ entry[prune.kept[i]] = "written"
      BY <2>1 DEF LogInv
    <3>2. QED  BY <2>1, <3>1
  <2>4. QED  BY <2>1, <2>2, <2>3 DEF LogInv, Idle
<1>7. CASE PruneFails \/ (PruneRead /\ prune' = Idle)
  <2>1. UNCHANGED <<now, log, entry, stamp>> /\ prune' = Idle /\ booted' \in BOOLEAN
    BY <1>0, <1>7 DEF PruneFails, PruneRead, PruneEnds, LogTypeOK
  <2>2. QED  BY <1>0, <2>1, EntriesKeep DEF LogTypeOK
<1>8. CASE Crash
  BY <1>0, <1>8, EntriesKeep DEF Crash, LogTypeOK
<1>9. CASE Tick \/ UNCHANGED logVars
  <2>1. UNCHANGED <<booted, log, entry, stamp, prune>> /\ now' \in 0..MaxTime
    BY <1>0, <1>9, TimeAssumption DEF Tick, logVars, LogTypeOK
  <2>2. QED  BY <1>0, <2>1, EntriesKeep DEF LogTypeOK
<1>10. QED
  <2>1. ASSUME NEW r \in Requests, AppendLine(r) PROVE entry[r] \in {"open", "stale"}
    BY <2>1 DEF AppendLine
  <2>2. PruneRead => (PruneRead /\ prune' = Idle) \/ (PruneRead /\ prune' # Idle)
    OBVIOUS
  <2>3. QED  BY <1>1, <1>2, <1>3, <1>4, <1>5, <1>6, <1>7, <1>8, <1>9, <2>1, <2>2 DEF LogNext, Prune

\* A prune that has read the file holds what it must not lose, whatever requests
\* append meanwhile and wherever the process stops.
THEOREM LogInvariant == LogSpec => []LogInv
  BY LogStart, LogStep, PTL DEF LogSpec

\* The log loses only lines that were too old when the prune began, and lines
\* appended after it had read the file; and it leaves no old one that it has read.
LEMMA OldLostOnly ==
  ASSUME LogInv, [LogNext]_logVars
  PROVE  OldLost(log, log', prune.since, prune.read)
<1>1. log \in Seq(Requests) /\ Len(log) \in Nat
  BY DEF LogInv, LogTypeOK
<1>2. CASE log' = log
  BY <1>1, <1>2 DEF OldLost
<1>3. ASSUME NEW r \in Requests, log' = Append(log, r)
      PROVE  OldLost(log, log', prune.since, prune.read)
  <2>1. Len(log') = Len(log) + 1 /\ \A i \in 1..Len(log) : log'[i] = log[i]
    BY <1>1, <1>3
  <2>2. QED  BY <1>1, <2>1 DEF OldLost
<1>4. CASE PruneRename
  <2>1. /\ prune.at = "rename" /\ log' = prune.kept /\ prune.kept \in Seq(Requests)
        /\ prune.read \in Nat /\ prune.since \in Nat
    BY <1>4, TimeAssumption DEF PruneRename, LogInv, LogTypeOK, Idle
  <2>2. ASSUME NEW i \in 1..Len(log), \A j \in 1..Len(log') : log'[j] # log[i]
        PROVE  stamp[log[i]] + Retention < prune.since \/ i > prune.read
    BY <1>1, <2>1, <2>2 DEF LogInv, OldAt
  <2>3. ASSUME NEW j \in 1..Len(log')
        PROVE  stamp[log'[j]] + Retention >= prune.since
    <3>1. j \in DOMAIN prune.kept /\ prune.kept[j] \in Requests
      BY <2>1, <2>3
    <3>2. stamp[prune.kept[j]] \in Nat
      BY <3>1, TimeAssumption DEF LogInv, LogTypeOK
    <3>3. ~OldAt(prune.since, prune.kept[j])
      BY <2>1, <3>1 DEF LogInv
    <3>4. QED  BY <2>1, <3>2, <3>3, TimeAssumption DEF OldAt
  <2>4. QED  BY <2>2, <2>3 DEF OldLost
<1>5. QED
  BY <1>2, <1>3, <1>4 DEF LogNext, logVars, Arrive, OpenLog, AppendLine, AppendFails,
     PruneStart, Prune, PruneRead, PruneWrite, PruneFails, Crash, Tick

\* Whenever requests end and the process stops, a prune drops what is too old
\* and nothing else that it has read.
THEOREM OldAreDropped == LogSpec => PruneDropsTheOld
<1>1. LogInv /\ [LogNext]_logVars => [OldLost(log, log', prune.since, prune.read)]_logVars
  BY OldLostOnly
<1>2. QED  BY <1>1, LogStart, LogStep, PTL DEF LogSpec, PruneDropsTheOld
=============================================================================
