----------------------------- MODULE ServerBoot -----------------------------
(***************************************************************************)
(* The start of the server half (server.mjs, server/settings): the hooks   *)
(* init, setup and ready run in this order, but Foundry does not wait for  *)
(* what setup does asynchronously, so ready may come while keys or audit   *)
(* log are still being read, and setup may end after it.                   *)
(***************************************************************************)
EXTENDS FiniteSets

VARIABLES
  hook,      \* the last hook that ran
  setup,     \* how far the setup hook has got
  loaded,    \* what has been read from disk: "keys", "audit"
  settings,  \* whether the settings are registered
  wired,     \* whether messages from browsers reach the dispatcher
  routes,    \* whether the API answers
  tools,     \* what can be called: "stubs", "some" or "all" of the handlers
  bootState

bootVars == <<hook, setup, loaded, settings, wired, routes, tools, bootState>>

BootInit ==
  /\ hook = "none" /\ setup = "none" /\ loaded = {} /\ settings = FALSE
  /\ wired = FALSE /\ routes = FALSE /\ tools = {} /\ bootState = "starting"

\* A failing registration is logged and the start goes on.
InitHook ==
  /\ hook = "none" /\ hook' = "init"
  /\ settings' \in BOOLEAN
  /\ UNCHANGED <<setup, loaded, wired, routes, tools, bootState>>

SetupHook ==
  /\ hook = "init" /\ hook' = "setup"
  /\ setup' = "keys"
  /\ UNCHANGED <<loaded, settings, wired, routes, tools, bootState>>

KeysLoaded ==
  /\ setup = "keys" /\ setup' = "audit"
  /\ loaded' = loaded \cup {"keys"}
  /\ UNCHANGED <<hook, settings, wired, routes, tools, bootState>>

\* A malformed keys.json, a disk error, or no setting for the first prune.
SetupFails ==
  /\ setup \in {"keys", "audit"} /\ setup' = "done"
  /\ bootState' = "failed"
  /\ UNCHANGED <<hook, loaded, settings, wired, routes, tools>>

Opens(socketOk, routesOk) ==
  /\ wired' = socketOk
  /\ routes' = routesOk
  /\ tools' = IF routesOk THEN tools \cup {"stubs"} ELSE tools
  /\ bootState' = IF ~routesOk THEN "no-routes" ELSE IF ~socketOk THEN "no-socket" ELSE "ready"

\* One of the three calls throws, which nothing catches: what was done before it
\* stays, and the state of the start keeps what it said.
OpensInPart ==
  /\ wired' \in BOOLEAN /\ routes' \in BOOLEAN
  /\ tools' = tools \/ (routes' /\ tools' = tools \cup {"stubs"})
  /\ UNCHANGED bootState

\* Mutant: setup does not wait for the audit log.
SetupEndsEarly ==
  /\ setup = "audit" /\ setup' = "done"
  /\ \E socketOk, routesOk \in BOOLEAN : Opens(socketOk, routesOk)
  /\ UNCHANGED <<hook, loaded, settings>>

\* The audit log is there: sockets and routes are opened in the same step.
SetupEnds ==
  /\ setup = "audit" /\ setup' = "done"
  /\ settings
  /\ loaded' = loaded \cup {"audit"}
  /\ \/ \E socketOk, routesOk \in BOOLEAN : Opens(socketOk, routesOk)
     \/ OpensInPart
  /\ UNCHANGED <<hook, settings>>

\* The systems and the handlers, one file after the other; the first that
\* throws is the last, and the sweep of the undo store is not started.
ReadyHook ==
  /\ hook = "setup" /\ hook' = "ready"
  /\ \/ tools' = tools \cup {"some", "all"} /\ UNCHANGED bootState
     \/ tools' = tools \cup {"some"} /\ bootState' = "handlers-failed"
  /\ UNCHANGED <<setup, loaded, settings, wired, routes>>

BootNext ==
  InitHook \/ SetupHook \/ KeysLoaded \/ SetupFails \/ SetupEnds \/ ReadyHook

-----------------------------------------------------------------------------
\* server.mjs: nothing from outside is served before the keys and the audit log
\* are there, whenever the hooks run and whatever fails; and a server that says
\* it is ready can be reached on both ways.
OpenOnlyWhenLoaded ==
  /\ wired \/ routes => loaded = {"keys", "audit"}
  /\ bootState = "ready" => wired /\ routes

\* How far setup has got tells what is loaded; nothing is open before it ends.
BootInv ==
  /\ OpenOnlyWhenLoaded
  /\ hook \in {"none", "init"} => setup = "none"
  /\ setup \in {"none", "keys", "audit", "done"}
  /\ setup \in {"none", "keys"} => loaded = {}
  /\ setup = "audit" => loaded = {"keys"}
  /\ setup # "done" => ~wired /\ ~routes /\ bootState # "ready"
=============================================================================
