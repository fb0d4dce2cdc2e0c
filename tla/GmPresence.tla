----------------------------- MODULE GmPresence -----------------------------
(***************************************************************************)
(* The server's record of the GM users that can be dispatched to           *)
(* (module/scripts/server/gm-presence.mjs).                                *)
(*                                                                         *)
(* The code keeps two Maps: connectedGms, from a user to the entry of the  *)
(* socket that announced it last, iterated in insertion order, and         *)
(* socketToUser, the reverse index used when a socket goes away.  The      *)
(* insertion order of connectedGms is the sequence gmOrder; its values are *)
(* reduced to the socket id (the name and the connect time are only        *)
(* displayed).                                                             *)
(***************************************************************************)
EXTENDS Naturals, Sequences, SequencesExt

CONSTANTS
  Users,        \* GM users of the world
  Sockets,      \* socket ids the server's socket layer hands out
  SocketUser,   \* the user each socket is authenticated as
  None          \* no user, no socket: an absent Map entry

ASSUME SocketUserAssumption == SocketUser \in [Sockets -> Users]
ASSUME NoneAssumption == None \notin Users /\ None \notin Sockets

VARIABLES
  gmOrder,      \* keys of connectedGms, in insertion order
  gmSocket,     \* socketId of the entry of each user, None if not connected
  socketToUser  \* reverse index, None if the socket is not in it

presenceVars == <<gmOrder, gmSocket, socketToUser>>

PresenceTypeOK ==
  /\ gmOrder \in Seq(Users)
  /\ gmSocket \in [Users -> Sockets \cup {None}]
  /\ socketToUser \in [Sockets -> Users \cup {None}]

PresenceInit ==
  /\ gmOrder = <<>>
  /\ gmSocket = [u \in Users |-> None]
  /\ socketToUser = [s \in Sockets |-> None]

IsUserConnectedGm(u) == gmSocket[u] # None

\* The user the next dispatch goes to: the first in insertion order.
PickGm == IF gmOrder = <<>> THEN None ELSE Head(gmOrder)

(***************************************************************************)
(* Mutated operations, each with the bug a property below is there for.    *)
(***************************************************************************)

\* The reverse entry of the replaced socket is left behind.
RecordOnlineKeepingOld(u, s) ==
  /\ gmOrder' = IF IsUserConnectedGm(u) THEN gmOrder ELSE Append(gmOrder, u)
  /\ gmSocket' = [gmSocket EXCEPT ![u] = s]
  /\ socketToUser' = [socketToUser EXCEPT ![s] = u]

\* Announcing again deletes the entry and sets it anew.
RecordOnlineAtTheEnd(u, s) ==
  /\ gmOrder' = Append(RemoveFirst(gmOrder, u), u)
  /\ gmSocket' = [gmSocket EXCEPT ![u] = s]
  /\ socketToUser' = [x \in Sockets |-> IF x = s THEN u
                                        ELSE IF x = gmSocket[u] THEN None
                                        ELSE socketToUser[x]]

(***************************************************************************)
(* The three operations.  Setting a key that is already in a Map keeps its *)
(* place in the iteration order.                                           *)
(***************************************************************************)
RecordOnline(u, s) ==
  /\ gmOrder' = IF IsUserConnectedGm(u) THEN gmOrder ELSE Append(gmOrder, u)
  /\ gmSocket' = [gmSocket EXCEPT ![u] = s]
  /\ socketToUser' = [x \in Sockets |-> IF x = s THEN u
                                        ELSE IF x = gmSocket[u] THEN None
                                        ELSE socketToUser[x]]

RecordOfflineByUser(u) ==
  \/ /\ ~IsUserConnectedGm(u)
     /\ UNCHANGED presenceVars
  \/ /\ IsUserConnectedGm(u)
     /\ gmOrder' = RemoveFirst(gmOrder, u)
     /\ gmSocket' = [gmSocket EXCEPT ![u] = None]
     /\ socketToUser' = [socketToUser EXCEPT ![gmSocket[u]] = None]

RecordOfflineBySocket(s) ==
  \/ /\ socketToUser[s] = None
     /\ UNCHANGED presenceVars
  \/ /\ socketToUser[s] # None
     /\ RecordOfflineByUser(socketToUser[s])

(***************************************************************************)
(* The component on its own: any order of calls the dispatcher can make.   *)
(* Every call names the authenticated user of the socket it came from.     *)
(***************************************************************************)
PresenceNext ==
  \E s \in Sockets :
    \/ RecordOnline(SocketUser[s], s)
    \/ RecordOfflineByUser(SocketUser[s])
    \/ RecordOfflineBySocket(s)

PresenceSpec == PresenceInit /\ [][PresenceNext]_presenceVars

-----------------------------------------------------------------------------
\* The two Maps are inverse to each other: a user's entry names a socket
\* exactly when the reverse index leads from that socket back to the user.  A
\* stale reverse entry would let the disconnect of a socket that was replaced
\* evict a GM who is still there.
IndexesAgree ==
  \A u \in Users, s \in Sockets : gmSocket[u] = s <=> socketToUser[s] = u

\* The iteration order lists the connected users, each of them once.
OrderIsConnected ==
  /\ \A u \in Users : IsUserConnectedGm(u) <=> \E i \in 1..Len(gmOrder) : gmOrder[i] = u
  /\ \A i, j \in 1..Len(gmOrder) : gmOrder[i] = gmOrder[j] => i = j

\* A user's entry names a socket authenticated as that user.
EntryIsOwn == \A u \in Users : IsUserConnectedGm(u) => SocketUser[gmSocket[u]] = u

\* The conjunction is inductive; without EntryIsOwn it is not, since a socket
\* of another user could take over an entry.
PresenceInv == PresenceTypeOK /\ IndexesAgree /\ OrderIsConnected /\ EntryIsOwn

\* Multi-GM rule: while a user stays connected nobody who was behind it in the
\* order gets ahead of it; announcing again, from whatever socket, neither
\* gains nor loses a place.  In particular the dispatch target changes only
\* when the current one disconnects.
FirstAnnouncedStaysFirst ==
  [][\A u, v \in Users :
       LET ahead(q) == \E i, j \in 1..Len(q) : i < j /\ q[i] = u /\ q[j] = v
       IN  ahead(gmOrder) /\ gmSocket'[u] # None /\ gmSocket'[v] # None
             => ahead(gmOrder')]_presenceVars
=============================================================================
