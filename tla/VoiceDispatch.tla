---------------------------- MODULE VoiceDispatch ----------------------------
(***************************************************************************)
(* Calls from the server to a GM's browser: the dispatcher and its pending *)
(* table (server/dispatcher.mjs), the GM registry (GmPresence), the socket *)
(* layer (server/socket-integration.mjs), the browser side                 *)
(* (client/socket-handler.mjs) and the undo snapshot a dispatched mutation *)
(* leaves behind (server/handlers/client-dispatched.mjs).                  *)
(*                                                                         *)
(* JavaScript runs a handler to its next await without interruption, so an *)
(* action is one such stretch.  What happens in between is the network's:  *)
(* each socket is a pair of FIFO queues that a disconnect cuts off at any  *)
(* point, and nothing orders the queues of two sockets.                    *)
(***************************************************************************)
EXTENDS GmPresence

CONSTANTS
  Tabs,             \* browser tabs with the world open as a GM
  SocketTab,        \* the tab each socket id is (or would be) handed to
  Calls,            \* dispatch ids
  Reconnects,       \* TRUE: a tab that lost its socket gets a new one
  UnloadAnnounces   \* TRUE: presence:offline may leave a closing tab

ASSUME SocketTabAssumption ==
  /\ SocketTab \in [Sockets -> Tabs]
  /\ \A r, s \in Sockets : SocketTab[r] = SocketTab[s] => SocketUser[r] = SocketUser[s]
ASSUME TabsAssumption == None \notin Tabs
ASSUME SwitchesAssumption == Reconnects \in BOOLEAN /\ UnloadAnnounces \in BOOLEAN

VARIABLES
  pending,    \* dispatch ids in the pending table, their timers armed
  outcome,    \* how the promise of each dispatched call stands
  target,     \* the user each call was dispatched to
  undoable,   \* calls whose handler recorded an undo snapshot
  sock,       \* each socket as the server sees it
  toServer,   \* messages under way to the server, per socket
  toClient,   \* dispatch envelopes under way to the tab, per socket
  page,       \* how far each tab has loaded the world
  link,       \* the socket each tab believes it is connected with
  outbox,     \* what a tab emitted while it had no socket
  work,       \* per tab and call: the client handler's progress
  executed    \* history: the tabs that carried each call out, in order

dispatchVars == <<pending, outcome, target, undoable>>
netVars      == <<sock, toServer, toClient>>
tabVars      == <<page, link, outbox, work>>
vars == <<presenceVars, dispatchVars, netVars, tabVars, executed>>

Outcomes == {"idle", "waiting", "ok", "error", "timeout", "unavailable"}

OnlineMsg == [kind |-> "presence:online"]
OfflineMsg == [kind |-> "presence:offline"]
ReplyMsg(d, ok) == [kind |-> "reply", dispatch_id |-> d, ok |-> ok]
ServerMsgs == {OnlineMsg, OfflineMsg} \cup {ReplyMsg(d, ok) : d \in Calls, ok \in BOOLEAN}

TypeOK ==
  /\ PresenceTypeOK
  /\ pending \subseteq Calls
  /\ outcome \in [Calls -> Outcomes]
  /\ target \in [Calls -> Users \cup {None}]
  /\ undoable \subseteq Calls
  /\ sock \in [Sockets -> {"unused", "open", "gone"}]
  /\ toServer \in [Sockets -> Seq(ServerMsgs)]
  /\ toClient \in [Sockets -> Seq(Calls)]
  /\ page \in [Tabs -> {"closed", "loading", "ready"}]
  /\ link \in [Tabs -> Sockets \cup {None}]
  /\ outbox \in [Tabs -> Seq(ServerMsgs)]
  /\ work \in [Tabs -> [Calls -> {"none", "running", "done", "failed"}]]
  /\ executed \in [Calls -> Seq(Tabs)]

Init ==
  /\ PresenceInit
  /\ pending = {}
  /\ outcome = [d \in Calls |-> "idle"]
  /\ target = [d \in Calls |-> None]
  /\ undoable = {}
  /\ sock = [s \in Sockets |-> "unused"]
  /\ toServer = [s \in Sockets |-> <<>>]
  /\ toClient = [s \in Sockets |-> <<>>]
  /\ page = [t \in Tabs |-> "closed"]
  /\ link = [t \in Tabs |-> None]
  /\ outbox = [t \in Tabs |-> <<>>]
  /\ work = [t \in Tabs |-> [d \in Calls |-> "none"]]
  /\ executed = [d \in Calls |-> <<>>]

-----------------------------------------------------------------------------
(***************************************************************************)
(* Server: dispatchToClient, its timer, and the message switch.            *)
(***************************************************************************)

\* Mutant: the envelope is broadcast to every open socket.
EmitToAll(u, d) ==
  toClient' = [s \in Sockets |-> IF sock[s] = "open" THEN Append(toClient[s], d) ELSE toClient[s]]

\* emitToUser: the user's room holds every open socket of that user.
EmitToUser(u, d) ==
  toClient' = [s \in Sockets |-> IF sock[s] = "open" /\ SocketUser[s] = u
                                 THEN Append(toClient[s], d)
                                 ELSE toClient[s]]

\* Nobody to ask (or no socket layer, and then nobody has announced either): the
\* call is refused.  An emit that fails is only logged: the call waits all the same.
DispatchToClient(d) ==
  /\ outcome[d] = "idle"
  /\ \/ /\ PickGm = None
        /\ outcome' = [outcome EXCEPT ![d] = "unavailable"]
        /\ UNCHANGED <<pending, target, toClient>>
     \/ /\ PickGm # None
        /\ outcome' = [outcome EXCEPT ![d] = "waiting"]
        /\ target' = [target EXCEPT ![d] = PickGm]
        /\ pending' = pending \cup {d}
        /\ EmitToUser(PickGm, d) \/ UNCHANGED toClient
  /\ UNCHANGED <<presenceVars, undoable, sock, toServer, tabVars, executed>>

Timeout(d) ==
  /\ d \in pending
  /\ pending' = pending \ {d}
  /\ outcome' = [outcome EXCEPT ![d] = "timeout"]
  /\ UNCHANGED <<presenceVars, target, undoable, netVars, tabVars, executed>>

\* Mutant: a reply is taken whether or not its call is still pending.
HandleAnyReply(d, ok) ==
  /\ pending' = pending \ {d}
  /\ outcome' = [outcome EXCEPT ![d] = IF ok THEN "ok" ELSE "error"]
  /\ undoable' = IF ok THEN undoable \cup {d} ELSE undoable
  /\ UNCHANGED target

\* A reply without a pending entry is dropped.  Resolving the promise resumes
\* the tool's handler, which records the undo snapshot in the same turn.
HandleReply(d, ok) ==
  \/ /\ d \notin pending
     /\ UNCHANGED dispatchVars
  \/ /\ d \in pending
     /\ pending' = pending \ {d}
     /\ outcome' = [outcome EXCEPT ![d] = IF ok THEN "ok" ELSE "error"]
     /\ undoable' = IF ok THEN undoable \cup {d} ELSE undoable
     /\ UNCHANGED target

\* The message at the head of an open socket's queue.  Presence is taken of the
\* user the socket is logged in as, or of the one the message names where Foundry
\* does not tell; the module's own client names its own user, so they agree.
Receive(s) ==
  /\ sock[s] = "open"
  /\ toServer[s] # <<>>
  /\ toServer' = [toServer EXCEPT ![s] = Tail(@)]
  /\ UNCHANGED <<sock, toClient, tabVars, executed>>

ReceiveOnline(s) ==
  /\ Receive(s)
  /\ Head(toServer[s]) = OnlineMsg
  /\ RecordOnline(SocketUser[s], s)
  /\ UNCHANGED dispatchVars

ReceiveOffline(s) ==
  /\ Receive(s)
  /\ Head(toServer[s]) = OfflineMsg
  /\ RecordOfflineByUser(SocketUser[s])
  /\ UNCHANGED dispatchVars

ReceiveReply(s) ==
  /\ Receive(s)
  /\ \E d \in Calls, ok \in BOOLEAN :
       /\ Head(toServer[s]) = ReplyMsg(d, ok)
       /\ HandleReply(d, ok)
  /\ UNCHANGED presenceVars

\* Mutant: the disconnect event is not passed on to the registry.
DisconnectUnnoticed(s) ==
  /\ sock[s] = "open"
  /\ sock' = [sock EXCEPT ![s] = "gone"]
  /\ toServer' = [toServer EXCEPT ![s] = <<>>]
  /\ toClient' = [toClient EXCEPT ![s] = <<>>]
  /\ UNCHANGED <<presenceVars, dispatchVars, tabVars, executed>>

\* The server learns that a socket is gone, possibly long after the tab did
\* or before it does; what was still under way is lost.
Disconnect(s) ==
  /\ sock[s] = "open"
  /\ sock' = [sock EXCEPT ![s] = "gone"]
  /\ toServer' = [toServer EXCEPT ![s] = <<>>]
  /\ toClient' = [toClient EXCEPT ![s] = <<>>]
  /\ RecordOfflineBySocket(s)
  /\ UNCHANGED <<dispatchVars, tabVars, executed>>

-----------------------------------------------------------------------------
(***************************************************************************)
(* Browser tabs.                                                           *)
(***************************************************************************)

\* game.socket.emit: over the tab's socket; kept back while there is none;
\* lost if the server has given the socket up already.
Emit(t, msg) ==
  \/ /\ link[t] = None
     /\ outbox' = [outbox EXCEPT ![t] = Append(@, msg)]
     /\ UNCHANGED toServer
  \/ /\ link[t] # None
     /\ toServer' = IF sock[link[t]] = "open"
                    THEN [toServer EXCEPT ![link[t]] = Append(@, msg)]
                    ELSE toServer
     /\ UNCHANGED outbox

\* A page is opened: its socket joins the user's room before the module's
\* `ready` hook has run.
Open(t) ==
  /\ page[t] = "closed"
  /\ \E s \in Sockets :
       /\ SocketTab[s] = t /\ sock[s] = "unused"
       /\ sock' = [sock EXCEPT ![s] = "open"]
       /\ link' = [link EXCEPT ![t] = s]
  /\ page' = [page EXCEPT ![t] = "loading"]
  /\ UNCHANGED <<presenceVars, dispatchVars, toServer, toClient, outbox, work, executed>>

\* initClientSocket: install the listener and announce presence, once.
InitClientSocket(t) ==
  /\ page[t] = "loading"
  /\ page' = [page EXCEPT ![t] = "ready"]
  /\ Emit(t, OnlineMsg)
  /\ UNCHANGED <<presenceVars, dispatchVars, sock, toClient, link, work, executed>>

\* The tab is closed or reloaded.  The beforeunload listener tries to say so
\* first; whatever the page was doing stops.
Unload(t) ==
  /\ page[t] # "closed"
  /\ page' = [page EXCEPT ![t] = "closed"]
  /\ link' = [link EXCEPT ![t] = None]
  /\ outbox' = [outbox EXCEPT ![t] = <<>>]
  /\ work' = [work EXCEPT ![t] = [d \in Calls |-> "none"]]
  /\ \/ UNCHANGED toServer
     \/ /\ UnloadAnnounces
        /\ page[t] = "ready" /\ link[t] # None /\ sock[link[t]] = "open"
        /\ toServer' = [toServer EXCEPT ![link[t]] = Append(@, OfflineMsg)]
  /\ UNCHANGED <<presenceVars, dispatchVars, sock, toClient, executed>>

\* The tab loses its connection, or notices that it has; what the server sent
\* and the tab had not read is lost.
LoseLink(t) ==
  /\ page[t] # "closed" /\ link[t] # None
  /\ link' = [link EXCEPT ![t] = None]
  /\ toClient' = [toClient EXCEPT ![link[t]] = <<>>]
  /\ UNCHANGED <<presenceVars, dispatchVars, sock, toServer, page, outbox, work, executed>>

\* The socket layer reconnects by itself, with a new id, and sends what was
\* kept back.  Presence is not announced again.
Reconnect(t) ==
  /\ Reconnects
  /\ page[t] # "closed" /\ link[t] = None
  /\ \E s \in Sockets :
       /\ SocketTab[s] = t /\ sock[s] = "unused"
       /\ sock' = [sock EXCEPT ![s] = "open"]
       /\ link' = [link EXCEPT ![t] = s]
       /\ toServer' = [toServer EXCEPT ![s] = outbox[t]]
  /\ outbox' = [outbox EXCEPT ![t] = <<>>]
  /\ UNCHANGED <<presenceVars, dispatchVars, toClient, page, work, executed>>

\* Mutant: the listeners of earlier sockets of the tab keep working.
ReceiveOnAnySocket(t) ==
  /\ page[t] = "ready"
  /\ \E s \in Sockets :
       /\ SocketTab[s] = t /\ toClient[s] # <<>>
       /\ toClient' = [toClient EXCEPT ![s] = Tail(@)]
       /\ work' = [work EXCEPT ![t][Head(toClient[s])] = "running"]
  /\ UNCHANGED <<presenceVars, dispatchVars, sock, toServer, page, link, outbox, executed>>

\* A dispatch envelope reaches the tab.  Before `ready` nobody listens;
\* afterwards the handler is started, whatever dispatch ids came before.
ReceiveDispatch(t) ==
  /\ link[t] # None
  /\ toClient[link[t]] # <<>>
  /\ toClient' = [toClient EXCEPT ![link[t]] = Tail(@)]
  /\ work' = IF page[t] = "ready"
             THEN [work EXCEPT ![t][Head(toClient[link[t]])] = "running"]
             ELSE work
  /\ UNCHANGED <<presenceVars, dispatchVars, sock, toServer, page, link, outbox, executed>>

\* runDispatched: the handler awaits the canvas and Foundry, and changes the game
\* or throws; it may throw after it has changed the game.
RunDispatched(t, d) ==
  /\ work[t][d] = "running"
  /\ \/ /\ \E end \in {"done", "failed"} : work' = [work EXCEPT ![t][d] = end]
        /\ executed' = [executed EXCEPT ![d] = Append(@, t)]
     \/ /\ work' = [work EXCEPT ![t][d] = "failed"]
        /\ UNCHANGED executed
  /\ UNCHANGED <<presenceVars, dispatchVars, netVars, page, link, outbox>>

SendReply(t, d) ==
  /\ work[t][d] \in {"done", "failed"}
  /\ work' = [work EXCEPT ![t][d] = "none"]
  /\ Emit(t, ReplyMsg(d, work[t][d] = "done"))
  /\ UNCHANGED <<presenceVars, dispatchVars, sock, toClient, page, link, executed>>

-----------------------------------------------------------------------------
ServerStep ==
  \/ \E d \in Calls : DispatchToClient(d) \/ Timeout(d)
  \/ \E s \in Sockets :
       ReceiveOnline(s) \/ ReceiveOffline(s) \/ ReceiveReply(s) \/ Disconnect(s)

TabStep ==
  \E t \in Tabs :
    \/ Open(t) \/ InitClientSocket(t) \/ Unload(t) \/ LoseLink(t) \/ Reconnect(t)
    \/ ReceiveDispatch(t)
    \/ \E d \in Calls : RunDispatched(t, d) \/ SendReply(t, d)

Next == ServerStep \/ TabStep

Spec == Init /\ [][Next]_vars

\* A timer that is armed fires.  Nothing else is certain to happen: sockets may
\* stall, handlers may wait for a canvas that never comes.
FairSpec == Spec /\ \A d \in Calls : WF_vars(Timeout(d))
-----------------------------------------------------------------------------
(***************************************************************************)
(* Properties.                                                             *)
(***************************************************************************)

\* The user a tab is logged in as.
TabIsOf(t, u) == \E s \in Sockets : SocketTab[s] = t /\ SocketUser[s] = u

\* The registry lists nobody who is gone: the entry of a listed user names a
\* socket of that user which the server has not lost.  A ghost entry would
\* attract every dispatch and let each of them run into its timeout.
NoGhostGm ==
  \A u \in Users : IsUserConnectedGm(u) =>
    SocketUser[gmSocket[u]] = u /\ sock[gmSocket[u]] = "open"

\* A call is carried out only by browsers of the GM it was dispatched to, never
\* by another GM's, however the sockets of the two come and go.
OnlyTargetExecutes ==
  \A d \in Calls : \A i \in 1..Len(executed[d]) : TabIsOf(executed[d][i], target[d])

\* No tab carries a call out twice, not even one that changed sockets between
\* the dispatch and the reply.
OncePerTab ==
  \A d \in Calls : \A i, j \in 1..Len(executed[d]) :
    executed[d][i] = executed[d][j] => i = j

\* A call is carried out at most once when each GM has a single tab open (with
\* two, nothing in the browser recognises a call that the other one runs, too).
ExecutedOnce == \A d \in Calls : Len(executed[d]) <= 1

\* The pending table and the promises agree: a call waits exactly as long as
\* its timer is armed, so none can wait for ever or be answered twice.
PendingIsWaiting == pending = {d \in Calls : outcome[d] = "waiting"}

\* The calls and their outcomes are those of the abstract remote call; under
\* FairSpec every call that was made is answered as well.
RPC == INSTANCE RemoteCall WITH
         Calls <- Calls, Tabs <- Tabs, outcome <- outcome, executed <- executed
RemoteCallSafety == RPC!CallSafety
RemoteCallSpec == RPC!CallSpec
=============================================================================
