# A TLA+ model of Foundry Voice Control

The module lets an external agent drive a Foundry VTT world: an HTTP request
names a tool and its arguments, the server checks the caller's API key, and the
tool runs either in the server process or in the browser of a connected GM.
This directory holds the specifications, the TLC configurations that check them
on small instances, and proofs that TLAPS checks for every value of the
constants. Paths below are relative to `src/module/scripts/`.

JavaScript runs a function to its next `await` without interruption. An action
of these models is one such stretch; everything that can happen between two of
them is an interleaving of actions.

## The system

| part | state it keeps | operations | talks to |
|---|---|---|---|
| GM presence registry, `server/gm-presence.mjs` | GMs in the order they announced, socket of each, user of each socket | online, offline, disconnect, `pickGm`, queries | dispatcher, tools, undo |
| Dispatcher, `server/dispatcher.mjs` | pending table: dispatch id, promise, timer | dispatch, reply, timeout, message switch | sockets, registry, client-dispatched tools |
| Server sockets, `server/socket-integration.mjs` | handlers | emit to a user's room, message and disconnect events | Foundry's socket.io |
| Browser side, `client/socket-handler.mjs`, `client.mjs` | listener, page state | announce, run a dispatched tool, reply, say goodbye on unload | server over the socket |
| Client-dispatched tools, `server/handlers/client-dispatched.mjs` | none | dispatch, await, record the undo snapshot | dispatcher, undo store |
| Undo store, `server/undo-store.mjs` | snapshots by token, an index per key | capture, peek, consume, sweep | tools, undo tool |
| Undo tool, `server/handlers/undo.mjs` | none | authorise, consume, revert | undo store, registry, dispatcher, the world |
| Key store, `server/auth.mjs` | key list, `keys.json`, rotation timers | issue, rotate, revoke, revoke all, note a use, verify, load | file system, transport, admin |
| Audit log, `server/audit-log.mjs` | `audit.log` | append, prune, read | file system, routes |
| Rate limiter, `server/rate-limiter.mjs` | request buckets per key, failed authentications per address | check, record, back off | transport |
| Transport and routes, `server/transport.mjs`, `server/routes.mjs` | none of their own | guards, authentication, body, tool call, response, audit entry | all of the above |
| Admin, `server/admin-handler.mjs`, `client/admin-rpc.mjs`, `client/chat-commands.mjs` | pending admin requests in the browser | key management, test, read the log | key store, audit log, sockets |
| Boot, `server.mjs`, `server/settings.mjs` | boot state | `setup` and `ready` hooks | all of the above |
| World tools, `server/handlers/{actor,item,scene,set-token-image}.mjs` | the world's documents | update, create, delete with a reverse patch | Foundry documents, undo store |
| Client tools, `client/handlers/*.mjs` | selection, targets, viewed scene | select, target, place, apply an undo | Foundry canvas |
| Perception tools, `server/handlers/perception.mjs`, `client/handlers/perception.mjs` | none | describe a scene, merging the server's view with a browser's | registry, dispatcher |
| System tools, `server/handlers/system-tools.mjs`, `client/handlers/system-tools.mjs` | none | look up an actor and an item, on the server and again in the browser | resolver, dispatcher, executors |
| Executors of the game systems, `client/systems/*.mjs` | spells lost, torches lit, in the game's items | use an item, roll | Foundry and the system's own API |
| Name resolver, `shared/resolver.mjs` | none | exact and fuzzy matching of ids and names | tools |
| Image validation, envelopes, errors, logger, server system adapters | none | checks, formatting, tables | tools |

### What is hard, and what makes each part correct

* **Interleaving at awaits.** A key is revoked while another is being hashed; two
  undo requests present one token; a request ends while the log is being pruned;
  every API request rewrites `keys.json` through one temporary file. Correct
  means: a revocation is final, a token is good once, the log loses nothing but
  old lines, the file on disk is whole and up to date.
* **Messages.** A dispatch goes to all sockets of a user, the reply may come
  late, twice or never, a socket may be replaced at any time and its disconnect
  is noticed later. Correct means: only the chosen GM's browser acts, each tab at
  most once, every call ends exactly once, and the registry has no ghosts.
* **Time.** Timers of calls, lifetimes of snapshots, grace windows of rotations,
  windows of the rate limiter. Correct means: a late answer changes nothing, an
  expired snapshot is never applied, old keys go.
* **Documents that others change.** A tool reads a document, awaits its operation
  on it, and keeps what it read for undo; the GM and other requests change, delete
  and bring back the same documents meanwhile. Correct means: an undo restores what
  its operation changed, wherever nobody else has written since, and nothing else.
* **Browsers that move on.** The scene a browser shows, its selection and the browser
  itself may be other ones when a reply or an undo arrives. Correct means: an answer
  is about what was asked for, and what is undone is what was done.
* **Crashes.** Memory and timers are gone, files stay as the last completed file
  operation left them. Correct means: what the GM was told before is still so.
* **Partial failure.** A tool changes the game and then fails to report it; a
  rename fails after memory was changed.

`PROJECT.json` lists each hazard with its line and the properties that would
catch it.

## Modules

| module | models | main actions |
|---|---|---|
| `GmPresence` | `gm-presence.mjs` | `RecordOnline`, `RecordOfflineByUser`, `RecordOfflineBySocket`; `PickGm` |
| `VoiceDispatch` (extends `GmPresence`) | dispatcher, both ends of the socket, the tool's await | `DispatchToClient`, `Timeout`, `Receive*`, `Disconnect`; `Open`, `InitClientSocket`, `Unload`, `LoseLink`, `Reconnect`, `ReceiveDispatch`, `RunDispatched`, `SendReply` |
| `RemoteCall` | what a tool is promised of a dispatched call, abstractly | `Invoke`, `Perform`, `Settle` |
| `UndoStore` | undo store and the undo tool around it | `Capture`, `Sweep`, `Undo`, `UndoRefused`, `UndoEnds` |
| `KeyLoss` (extends `KeyStore`) | what it takes to tear `keys.json` or to let it fall behind: history variables for writes that overlap | `Tracked`, beside every action of `KeyStore` |
| `KeyStore` | the calls of `auth.mjs` that write, and `keys.json` | `IssueKey`, `RotateKey`, `PushKey`, `RevokeKey`, `RevokeAll`, `RotationDue`, `RecordKeyUse`, `OpenTemp`, `WriteTemp`, `RenameTemp`, `PersistFails`, `LoadKeys`, `Crash` |
| `AuditLog` | `audit-log.mjs` | `Arrive`, `OpenLog`, `AppendLine`, `PruneStart`, `PruneRead`, `PruneWrite`, `PruneRename`, `PruneFails`, `Crash` |
| `RateLimiter` | `rate-limiter.mjs` | `Throttle`, `Admit`, `RecordFailedAuth`, `ClearFailedAuth`, `Tick` |
| `RequestPipeline` (extends `RateLimiter`) | the handler of a route, `transport.mjs`, `verifyBearer` and `isKeyStillActive` | `Refuse`, `Arrive`, `Hashed`, `HashFails`, `Authenticate`, `FailAuthentication`, `ReadBody`, `RejectBody`, `RejectCall`, `ThrottleCall`, `CallTool`, `ToolActs`, `ToolReturns`, `ToolThrows`, `RecordAuditEntry`; `IssueKey`, `RevokeKey` |
| `AuditedCall` | what the API promises of a request, abstractly | `Perform`, `Answer`, `Record` |
| `WorldUndo` | the tools that change documents (`actor`, `item`, `scene`, `set-token-image`) and `applyServerSide` | `CreateActor`, `UpdateActor`, `SetActorImage`, `DeleteActor`, `AddItem`, `RemoveItem`, `UpdateItem`, `ActivateScene`, `SetTokenImage`, `DocOp`, `Finish`, `Refused`, `DbFails`, `Undo`, `GmDeletes` |
| `CanvasTools` | the tools that run on a browser's canvas, their undo payloads and `undo-apply.mjs`, `describe_scene` | `CallTool`, `CallPlace`, `CallDescribe`, `CallUndo`; `SelectOrTarget`, `Clear`, `BeginPlace`, `EndPlace`, `Throws`, `Describe`, `UndoApply`, `UndoDeletes`; `Replied`, `Failed`; `GmLeaves`, `GmComes`, `SwitchScene`, `CanvasReady`, `MarkByHand`, `DeleteToken` |
| `ServerBoot` | `server.mjs`, `settings.mjs`, registration of routes and handlers | `InitHook`, `SetupHook`, `KeysLoaded`, `SetupEnds`, `OpensInPart`, `SetupFails`, `ReadyHook` |
| `AdminConsole` (extends `ServerBoot`) | the `/voice` commands: chat, request with its timer, server handler, replies | `Type`, `Confirm`, `Cancel`, `TimesOut`, `HandleReply`, `HandleRequest`, `PushKey`, `Saved`, `RotationDue`, `TabOpens`, `TabCloses`, `Disconnects`, `Demote` |
| `NameResolver` | `resolver.mjs`, with a reference definition of the distance | operators `Levenshtein`, `FuzzyScore`, `ResolveByIdOrName` |
| `SystemTools` (extends `NameResolver`) | `use_item` and `roll` and the executors of the systems | `Resolve`, `SendRoll`, `Missing`, `CastSpell`, `SpellMarked`, `SpellNotMarked`, `ToggleLight`, `LightToggled`, `LightFails`, `ByHand`, `Attack`, `DamageRolled`, `PlainRoll`, `RunTest`, `Reroll`, `Taken` |
| `MC*` | values of the constants for TLC | |
| `*Proofs` | lemmas and proofs; `VoiceDispatchProofs` has those of `GmPresence`, `RequestPipelineProofs` those of `RateLimiter`, `AdminAuditProofs` those of `ServerBoot`, `AdminConsole` and `AuditLog` | |

Each operator keeps the name of the function it stands for where there is one;
`map` in `PROJECT.json` gives the lines. Operators marked `Mutant:` are
deliberately wrong variants of the definition that follows them. No specification
uses them: exchanging one for its definition must break the property it is
paired with in `PROJECT.json`.

### State and code

* **Registry.** `connectedGms` is a JavaScript `Map` whose insertion order decides
  who is picked; the model keeps that order as the sequence `gmOrder` and the
  entries as `gmSocket`, and `socketToUser` as it is. Names and times of
  connection are left out.
* **Sockets.** A socket has two FIFO queues. The server's view (`sock`) and the
  tab's view (`link`) of one connection differ until each has noticed its end.
  Which user a socket belongs to is given by `SocketUser`, which stands for
  Foundry's session: `ReceiveOnline` takes the user from the socket, never from
  the message.
* **Calls.** `outcome` is the promise, `pending` the table with its timers,
  `executed` a history of the tabs that changed the game. The browser's `await`s
  inside a tool are between `ReceiveDispatch` and `RunDispatched`. A tool may change
  the game and fail after that; an emit that fails is only logged, and the call waits.
* **Undo.** `snapshots` by token and the array per key are two structures in the
  code and two variables here. The lazy sweep at the head of `peek` and
  `consume` is part of the action that calls them; `capture` does not sweep. Time is
  a bounded clock.
* **Keys.** A call passes `hash`, `open`, `write`, `rename`. A file is an inode, so
  that a handle opened before a rename still writes to the renamed file; a text is
  the state it spells and, if a longer one had been written over the same inode,
  the tail that remains of that one, which `JSON.parse` rejects. `told` is what
  the GM has been told and survives crashes.
* **Log.** A line is the id of its request. A handle opened before the prune's
  rename (`stale`) leads to the replaced file. Every file operation of this and of
  the key store may fail instead (`PruneFails`, `PersistFails`).
* **Limits.** A key without a bucket is one with a window that is over, an address
  without an entry one with a count of zero: the code treats them alike. `admitted`,
  `retryAt` and `failures` are histories that the properties read.
* **Requests.** `req[r].at` names the await a request is suspended at. The fields
  are the local variables that live across it: the `now` of `verifyBearer`, its
  place in the list (the loop runs over the live array, so a key issued meanwhile
  is met, and keys are never taken out), its match so far. A request presents the
  value of a listed key or no valid one, because the value of a key that has not
  been issued is not known to anyone. What a header, an address or a body must look
  like is a free choice between passing a guard and not. A hash that fails ends the
  request (`HashFails`). What handlers return is plain data, so that writing the
  answer does not fail after the entry has been marked a success.

* **Documents.** `world` maps a document to its fields or to `Gone`. An operation of
  Foundry is a record of what it writes, what it needs and what must not be there;
  `DocOp` lets it take effect, `Refused` and `DbFails` are the two ways it can fail.
  A call is two stretches, the one that reads and issues and the one after the await,
  or three for the two updates of `set_token_image`. `back` is the snapshot. Expiry,
  scopes and one-time use of its token are the matter of `UndoStore`. `others`
  collects the places that anybody else has written since; the properties read it.
  An undefined value in a patch leaves the field as it is (`Written`), as in Foundry.
  `getPath` reads the live document: at the places `Derived`, where an active effect or
  a data model has overwritten the stored value, it finds `Prepared` of that (`Shown`).
* **Canvas.** `marks` are the tokens a GM controls and targets, gone when the canvas
  is drawn anew. An envelope goes to the first of `online`; what a browser was doing
  is lost with it. The server's timer is `Failed`, which may come before, between or
  after the steps in the browser. Creating the token may fail (`Throws`), and the undo
  of a placement looks the token up and deletes it across an await (`UndoDeletes`).
* **Start.** `loaded`, `wired`, `routes` and `tools` are what the hooks have brought
  about. Foundry runs `init`, `setup` and `ready` in this order but does not wait for
  what `setup` awaits, so `ReadyHook` may come between its parts; what `setup` does
  after it may throw half-way (`OpensInPart`).
* **Commands.** `cmd[c]` has the tab's side (`client`) and the server's side
  (`server`) of one command; a reply goes to all tabs of the user. What the GM is
  shown is `shown`, the command whose reply it was. Keys are here what memory holds.
  The server may reject the arguments of a command. A tab's goodbye may be lost, and
  the disconnect come late (`Disconnects`) or not at all.
* **Names and dice.** A name is a short sequence of letters and a score a fraction.
  The code subtracts doubles, so that of two scores that differ by exactly the margin
  the lead may come out too small: those from which it does are the constant `Short`
  (0.95 against 0.9 is one, 0.8 against 0.75 is not). A roll is a free choice of faces,
  of which the first die and the one that counts are told apart because the code reads
  both. `roll` finds no item on the server (`SendRoll`). `stale` is a history of the
  toggles that looked at a torch which somebody, a player by hand or another call, has
  changed since.

## What is checked

| run | question | bounds |
|---|---|---|
| `dispatch` | does a dispatched call keep the contract of `RemoteCall`, the answer in the end included; does only the chosen GM act, no tab twice; is the registry consistent, free of ghosts and fair? | two GMs, one tab each, one of them with two sockets, one call |
| `undo_store` | do index and store agree, is the cap kept, is a token good once, in time and for an authorised key only, and do snapshots stay as long as they should and no longer? | two keys with different scopes, cap 2, three tokens, lifetime 1, clock 0..2 |
| `keys_overlap` | overlapping calls: is anything but writes that overlap able to tear `keys.json`, or to let it fall behind what the GM was told; is a revocation final while the process runs, and does the timer of a rotation go only with its key? | two keys, two calls, crashes and failing file operations |
| `audit` | what does a prune lose and leave, and do old lines go? | three requests, retention 1, clock 0..3, crashes and failing file operations |
| `rate_limits` | do the fixed windows, the `Retry-After` and the back-off keep their limits at every boundary? | one key, one address, limits 2, 1 and 1, window 2, at most 3 failures counted in a window (`MCSpec`), back-off 1 doubling to 3, clock 0..4 |
| `requests` | is every request answered and recorded as `AuditedCall` promises, does a tool run only with a key, does authentication neither let in a revoked key nor miss a valid one? | two requests, two keys (one issued later, one that expires), a reading and a deleting tool, one call of each kind in a window, clock 0..2; requests are symmetric |
| `world_undo` | does an undo restore what its operation found, is it refused only for a reason, and does it touch nothing else? | two calls of any tool, two undos, two actors (the image of one overwritten by data preparation) with an item each, a token, two scenes, one deletion by the GM |
| `canvas` | does an undo put back the marks or take away the token, does a description belong to the scene asked for and always come? | two GMs, one call and its undo, three tokens, two scenes, two acts by hand |
| `admin` | is nothing served before keys and log are read; is what a tab shows the true answer to its own command, once? | two tabs of one GM, two commands, three keys, the whole start with every failure |
| `tools` | which spells are marked as lost, what can a reroll do to a test, is a torch as the reply says; is the item found the one meant, and is there a reason when none is? | an item of each kind, faces that matter, one item taken away, torches changed by hand at any time; names of two to six letters, some of them one to three letters apart: two calls by exact names where no two names are alike, and one call by any query elsewhere (`MCToolSpec`) |
| `doc_revoked_stays`, `doc_rotation` | two sentences that the code does not keep, see below | two keys; two calls, or one, with crashes and failing file operations |

Why the bounds are enough for the cases of interest: a second socket of the same
tab is what a reconnect needs, and two GMs are what a wrong choice needs (two tabs of
one GM never share a call's work, and `NoTabTwice` is proved for any number of them); three tokens at a cap of two force an eviction
while an older one may have been spent or expired; two calls suffice for every
overlap on the one temporary file, and three inodes are all that two names and
one nameless open handle can refer to; two lines are what a prune needs to keep
one and drop the other, with a clock that lets the first grow old. A clock of two
windows has every boundary between two of them, and one key and one address are
enough because the limiter never reads the entry of one for another. Two keys are
what a search can pass over or run past, and two requests what can use up a limit or
clear a back-off under one that is suspended. Two calls of `WorldUndo` are every pair
of tools that meet in one document, and their undos every order of going back; an
actor with an item has what must be brought back in order. A canvas needs one scene
that is shown and one that is not, a GM who acts and one who takes over. Two tabs and
two commands are what a reply to the wrong one needs, and three keys one that is there
and one for each command to make. The names of the `tools` run lie on both sides of
the threshold and of the margin, and on it where doubles are exact enough (0.8 against
0.75); the shortest names that tie where they are not have eleven letters, too many for
the reference to enumerate, and are covered by the theorem, which holds for any `Short`. In the models
the number of sockets and tokens bounds the length of a behaviour, and no guard
refuses a step the code could take for any other reason than these sets being
used up. `CHECK_DEADLOCK FALSE` is set because a world where nobody connects,
all tokens are used and the clock is at its bound may rest.

The runs spend their properties on behaviour. The type invariants (`TypeOK`,
`LimiterTypeOK`, `AdminTypeOK`) are stated in the modules and, where a module has
proofs, proved: they are conjuncts of the inductive invariants below.

### Statements the code does not keep

Two runs each refute a sentence of a document.

* `doc_revoked_stays` ("Module update never re-enables a revoked key",
  `docs/safety-and-permissions.md:186`): a write that took its text before a
  revocation may complete after it, and the next start loads the key as active.
  `keys_overlap` and `ToldSurvives` show that overlapping is all it takes.
* `doc_rotation` ("then the old one auto-revokes", `docs/safety-and-permissions.md:53`):
  the timer is not persisted, so after a restart within the grace window the old key
  stays active, and this although the process is started again and every armed timer
  fires. `RotationKept` is what does hold, until the process stops.

Others were met while modelling and have no run of their own; the models do what the
code does, and the properties are about that. About connections:

* Presence is announced once per page and a user has one entry. After the socket
  layer replaces a lost socket, or when the tab that announced last closes, calls are
  answered `gm_unavailable` although a tab of the GM is there
  (`docs/api-contract.md:73` says no GM is connected). A disconnect only updates the
  registry, so a call that is already with that GM waits for its timer.
* Nothing remembers dispatch ids in the browser, so a GM with two tabs carries a
  call out in each of them; `SingleTabExecutesOnce` is about GMs with one.
* A snapshot is recorded when the reply arrives in time; a mutation whose reply is
  late or lost leaves none (`docs/safety-and-permissions.md:154`).

About keys, requests and the log:

* A key that is being hashed for, issued or rotated, when all keys are revoked becomes
  active afterwards.
* "Active sessions will break immediately" (`client/chat-commands.mjs:219`): a key is
  looked at again after its hash, and not after the body has come in; a request that
  waits there goes on to its tool. `OnlyWithKey` is about the scopes of the key it
  was let in with.
* Two overlapping writes can put a truncated temporary file in place of `keys.json`,
  whose comment promises an atomic write (`WholeUnlessOverlapped` says what holds).
* Lines appended between the read and the rename of a prune are lost.
* The windows of the limiter are fixed ones: twice the documented number of calls can
  fall into a minute (`TwoLimitsPerMinute` states what does hold). A failure that
  begins a new window forgets the old count; one that had passed the back-off check
  before can so end a back-off that is running (`BackoffIsExact` is about the failures
  of one window).
* The hourly limits on creating and deleting actors that the documentation lists are
  not in the code. A revoked key is answered like an unknown route, not `permission`.

About undo, tools and the start:

* "`ambiguous` rather than guessing" (`docs/api-contract.md:104`, and `:70`): of
  several names above the threshold the best one is taken when it leads the next by
  0.05. `ResolvedIsJustified` is about this rule of the code.
* "Foundry system tracks this on the spell item" (`references/systems/shadowdark.md:212`):
  when the update that marks the spell is refused the error is swallowed and the spell
  told to be lost all the same (`SpellNotMarked`). `LostAsTold` names these casts as the
  exception.
* "succeeds only on 1" (`client/systems/whtow.mjs:114`): a reroll of the one die of an
  empty pool is counted by the skill, so that a grim one may add a success
  (`OneSided` bounds it by the more favourable count).
* "so undo can apply this object to restore the prior state"
  (`server/handlers/actor.mjs:335`): what `computeReversePatch` reads is the prepared
  value, and the undo writes it into the stored field (`Derived`). That a field is
  overwritten is Foundry's doing, outside this repository; `UndoRestores` is about the
  other fields.
* An undo does not remove a field that was not set before its operation, since
  Foundry drops undefined values; `UndoRestores` is about fields that were set.
* `set_token_image` with scope `both` leaves no snapshot when its second update fails.
* The undo of a selection goes to the GM who is first now and may change the selection
  of another one than the call did (the antecedent of `UndoRestoresMarks`).
* `place_token` with a `scene` always fails: `resolveScene` returns `{match}` and its
  caller reads the document from it (`Throws`).
* A spell check of two dice reads nat 1 from the first die and not from the kept one,
  so a cast that reaches its DC may be told as a fumble and the spell lost
  (`client/systems/shadowdark.mjs:231`). Nothing looks at the mark of a lost spell
  before a cast. What a reply says of a torch was settled before the toggle, and is
  wrong when the torch was changed in between (`stale` in `LightAsTold`).
* A failure to register handlers is forgotten when `setup` ends after it, and the
  comment at `server.mjs:28` promises a 503 that no code gives.

### Fairness

* `VoiceDispatch!FairSpec`: weak fairness of `Timeout` alone. Node's event loop fires
  an armed timer; no message, tab or handler is assumed to make progress.
* `UndoStore!FairSpec`: the sweep's interval fires. Requests and the clock may stop.
* `KeyStore!FairSpec`, under which `doc_rotation` still fails: the process is started again, hashes and file operations come
  to an end (well or badly), and an armed rotation timer fires. That last one is
  strong fairness because the model has a bounded number of calls under way at
  once: the timer is not enabled while the slots are taken, which happens again
  and again, whereas the code has no such limit.
* `CanvasTools!CanvasSpec`: weak fairness of `Failed`, the timer of a call, and of
  nothing else; `DescribeSucceeds` rests on it.
* `AuditLog!FairSpec`: the interval fires; a prune's steps are under strong fairness
  because each of them may fail or be cut off by a crash, and the property is about
  a disk and a process that do not do so for ever.

## What is proved

`tlapm` checks these for every value of the constants, under the named
assumptions of each module.

* `UndoStoreProofs`: `StoreIsCapped`, `UndoIsOneShot`,
  `SnapshotsKept`, `RevertsInTime`, and `StoreIndexAgrees` with `StoreTypes`, the
  agreement of the two Maps itself. The inductive invariant adds to the agreement
  of index and store that tokens not handed out yet are not in it (`Fresh`) and
  that a token with a reversal is out of it (`RevertsSpent`); `OneShot` is not
  inductive without them.
* `VoiceDispatchProofs`, of the registry: `PresenceInvariant` (the two Maps are inverse to each other
  and the order lists the connected users once each) and `FirstAnnouncedTheorem`
  (nobody overtakes a GM who stays connected). The second needs the first: removing
  an entry may shorten the order only at one place, and that is so because no user
  is listed twice. `EntryIsOwn`, that an entry's socket belongs to the user, is
  what makes the invariant inductive: without it a disconnect could remove the
  entry of somebody else.
  Of the dispatcher: `NoGhosts`, `TimersArmed`, `TargetExecutes`, `NoTabTwice`,
  `SingleTabExecutesOnce` (with one tab to a user, a call is carried out once),
  `DispatchFirstAnnounced` (the registry's order inside the whole system), and
  `DispatchImplementsCall`: each step of the system is a step of `RemoteCall` or
  leaves it alone. The inductive invariant `DispatchInv` relates the calls to
  everything in flight. A reply in a queue must be truthful, or `ok` would not
  imply that a tab acted (`RepliesAreTrue`); a tab that works on a call, or has
  carried it out, has no copy of it left to read (`NotReadAgain`), or it could act
  twice; queues, links and work belong to the user the call was sent to
  (`QueuesOfTarget`, `LinksAreOwn`, `WorkIsSent`, `ExecutedBySent`). `NoGhosts` rests
  on `PresenceInv` of the registry: a disconnect finds the entry to remove through
  the inverse Map.
* `RequestPipelineProofs`, of the limiter: `TwoLimitsPerMinuteTheorem`, `RetryAfterTheorem`,
  `BackoffTheorem`. What makes the first inductive is a statement about the open
  window: the calls before those it counts are older than the window, and all but the
  last `Limit` of these are older by a minute more. `RetryAfterHolds` needs
  that counters only grow within a window, `BackoffIsExact` that the back-off grows
  with the count and that the failure told of last is the one with the highest count.
  Of the requests: `PipelineKeepsLimiter` (the pipeline uses the limiter as
  its own specification allows, so `PipelineLimits` hands its theorems down),
  `OnlyWithKeyTheorem`, `RevokedIsNotLetInTheorem`, `ValidIsLetInTheorem` and
  `PipelineImplementsAuditedCall`. `Consistent` relates the stage of a request to what
  it has done and was answered, and the match of its search to the key it presented;
  the refinement and `OnlyWithKey` follow from it. `SearchOK` is what the search owes
  a key that is in order: it has matched, or its place is still ahead. It survives
  growth of the list because keys are only appended, and the passing of time because
  a key in order now was in order when the search began.
* `KeyStoreProofs`: `RevocationIsFinal`, for any number of overlapping calls. `KeyInv`
  says that a key nobody has asked for is nowhere, and that a key being hashed for is
  absent and hashed for by one call only: without it `PushKey` could make a revoked key
  active. `FileIsWhole` and `ToldSurvives` are about any
  number of calls, too, with the history of `KeyLoss`: `suspect` from the first overlap
  of two writes until the next one that was alone has been renamed, `forgotten` once the
  process has stopped in between. Of `LossInv`, `HistoryInv` makes a writer that is not
  `overlapped` the only one; `WritersInv` then relates the temporary file to how far it
  has got, and its text to what is in memory; and by `TellsInv` the renamed file tells
  nothing else than the GM was told. `RotationsAreKept`: calls may
  overlap, and still the timer of a rotation goes only when the old key is revoked or
  the process stops. It rests on
  `RotationInv`, that the old key of a rotation is never forgotten, neither before its
  timer is armed nor after; the timer would take a key that is absent for one that needs
  no revoking.
* `AdminAuditProofs`, of the commands: `OpensWhenLoaded`, from how far `setup` has got
  (`BootInv`), and `CommandsAnswerTruly` and `CommandsEndOnce` from `AdminInv`: a tab waits only for
  commands of its own that have not ended, no two commands made the same key, and what
  the server has done for a command is not undone by another (`OthersStay`), because
  keys only go from unused to active to revoked. Of the
  log: `OldAreDropped`, what a prune loses and what it leaves, from `LogInv`: the lines a
  prune has read are still the first ones of the file when it renames, it keeps each of
  them that is not too old, and every line it keeps was written and is not too old. That
  the code's loop over the lines does so (`KeptLines`) is proved by induction over their
  number (`CountsUp`, below).
* `CanvasToolsProofs`: `MarksRestored`, `PlacedIsGone`, `DescriptionsAgree` from
  `CanvasInv`. It ties a reply to what its call did (the token of a reply is where it was
  placed or has been deleted, the marks kept for undo are those the call found), keeps an
  undo to calls that were answered `ok`, and says that the marks of a GM lie on the canvas
  that GM is shown: a token that has left it meanwhile cannot be marked again.
* `SystemToolsProofs`: `LostSpells`, `OneSidedRerolls`, `LightIsAsTold` from `ToolInv`,
  what a call holds at each of its stages; for the torch, that a toggle which is not
  `stale` still knows what it is (`Seen`). A grim reroll takes up only dice
  that succeeded and a glorious one only dice that failed, so that the successes of the
  new pool are a subset, or a superset, of those that were rolled. `FoundAsMeant`
  (`ResolvedIsJustified`) is about the resolver of names and needs no invariant but an
  argument about its arithmetic: a row of the table of `Levenshtein` holds the costs of
  the cheapest alignments of one more letter (`LevenshteinIsDistance`, by `CountsUp` over
  the rows and within each over the columns, an alignment being taken apart at its last
  letters); a finite set of candidates has a best one in the resolver's order; and a lead
  over the best rival is a lead over all of them.
* `WorldUndoProofs`: `UndoneIsRestored`, `RefusalHasReason`, `ReversalKeepsOthers` from
  `WorldInv`. A call is one of three kinds, one that makes documents, removes them or
  edits them (`Makes`, `Removes`, `Edits`), and each kind says what its record must
  look like: which operations are left, which reversal is kept and what was there
  before. `CallAgrees` then says what the world is, wherever nobody else has written,
  in terms of how many operations of the call are done (`Done`), and `UndoAgrees` the
  same for a reversal, whose rest is a suffix of the snapshot (`Remains`) and can be
  carried out unless somebody removed or brought back a document (`Ready`). `Ready` is
  what `RefusedForAReason` rests on: a restored actor must come before its items, and the
  items a deletion took along must all still be absent.

Recursive functions are reasoned about by induction on the set of numbers up to which a
statement holds (`CountsUp`): the library's induction theorems take a predicate, which no
prover here can instantiate, but a set of numbers they can.

Only model-checked: that every call of `VoiceDispatch` ends (the liveness conjunct of
`RemoteCallSpec`) and the other liveness properties, `ExpiredAreSwept`,
`OldLinesGo` and `DescribeSucceeds`, since the proof system does not
reason about `ENABLED`.

## What is not modelled

`PROJECT.json` gives the status of every part. Image validation, envelopes, error
classes, the logger and the system adapters of the server (tables of field paths and
checks against them) are pure functions of one argument, which unit tests reach. The
tools that only read (`get_actor`, `find_actor`, `list_items`, `list_scenes`,
`get_active_scene`, `get_world_state`, the server's half of a description) change
nothing and answer from one uninterrupted reading. Of the executors, an item whose
`use` or `roll` is the game system's own is left out (what it does is not in this
repository), and so are the dialogs of the game systems; checks and saves that roll and
tell are the one action `PlainRoll`. Of patches, a path that removes a key (`-=name`) is
left out: its reverse patch holds nothing, and the undo does not bring the key back. Of
tokens, those not linked to their actor are: `set_token_image` updates the token's own
actor, and the undo looks the actor of that id up in the world. In what is
modelled, left out are: names, labels and timestamps for display, the text of log
lines, positions on a scene, and the scrypt hash itself.

## Plan

What is left: `AdminConsole` over the calls of `KeyStore` instead of its own keys in memory.
