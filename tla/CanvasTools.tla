----------------------------- MODULE CanvasTools -----------------------------
(***************************************************************************)
(* The tools that work in a GM's browser (client/handlers/tokens and       *)
(* perception), what the server keeps of their replies for undo            *)
(* (server/handlers/client-dispatched), the reversal in a browser          *)
(* (client/handlers/undo-apply) and the two perception tools that merge    *)
(* the server's view of a scene with a browser's (server/handlers/         *)
(* perception).                                                            *)
(*                                                                         *)
(* A call is dispatched to the first connected GM and waits for its reply  *)
(* or a timer; the module VoiceDispatch says how.  Here an envelope is     *)
(* lost with its browser, and what matters is which canvas it finds: GMs   *)
(* come and go, switch scenes and mark tokens by hand, and anybody deletes *)
(* tokens.  Selecting and targeting differ in the set of tokens they       *)
(* change; `Marks` names the two sets.                                     *)
(***************************************************************************)
EXTENDS Naturals, SequencesExt

CONSTANTS
  Gms, Calls, Undos, Scenes, Tokens,
  Start,    \* where each token is in the beginning, None for one not yet made
  Moves,    \* bound: how often somebody acts by hand
  None

Marks == {"controlled", "targeted"}
Requests == Calls \cup Undos

ASSUME CanvasAssumption ==
  /\ Start \in [Tokens -> Scenes \cup {None}]
  /\ Calls \cap Undos = {}
  /\ None \notin Scenes \cup Gms \cup Calls \cup Tokens \cup Marks \cup {"ok"}
  /\ IsFiniteSet(Gms)

VARIABLES
  on,       \* token -> the scene it is on
  online,   \* connected GMs, in the order of their announcements
  view,     \* GM -> the scene the browser shows
  ready,    \* GM -> whether its canvas is drawn
  marks,    \* GM -> the tokens it controls and targets
  req,      \* request -> its tool, its progress in a browser, its answer
  moves

vars == <<on, online, view, ready, marks, req, moves>>

Browsers == <<online, view, ready>>
OnScene(s) == {t \in Tokens : on[t] = s}
Unmarked == [k \in Marks |-> {}]

-----------------------------------------------------------------------------
NoRequest ==
  [tool |-> None, kind |-> None, at |-> "none", answer |-> None, gm |-> None,
   arg |-> {}, scene |-> None, token |-> None, of |-> None, before |-> {}, was |-> Unmarked]

Init ==
  /\ on = Start
  /\ online = SetToSeq(Gms)
  /\ view \in [Gms -> Scenes]
  /\ ready = [g \in Gms |-> TRUE]
  /\ marks = [g \in Gms |-> Unmarked]
  /\ req = [c \in Requests |-> NoRequest]
  /\ moves = 0

\* dispatchToClient: an envelope for the first GM; without one the call fails.
Dispatch(c, call) ==
  /\ req[c].at = "none"
  /\ online # <<>>
  /\ req' = [req EXCEPT ![c] = [call EXCEPT !.at = "sent", !.gm = Head(online)]]
  /\ UNCHANGED <<on, online, view, ready, marks, moves>>

Request(tool, kind, arg) == [NoRequest EXCEPT !.tool = tool, !.kind = kind, !.arg = arg]

\* select_tokens, target_tokens and their opposites; `some` are the tokens
\* asked for, and no ids to an opposite means all.
CallTool(c) ==
  /\ c \in Calls
  /\ \E k \in Marks, some \in SUBSET Tokens :
       \/ some # {} /\ Dispatch(c, Request("add", k, some))
       \/ some # {} /\ Dispatch(c, Request("set", k, some))
       \/ Dispatch(c, Request("clear", k, some))

\* place_token; a call that names a scene fails before it places anything.
CallPlace(c) == c \in Calls /\ Dispatch(c, Request("place", None, {}))

\* describe_scene: the scene is picked here and named in the envelope; without
\* a GM the canvas fields are left out.
CallDescribe(c) ==
  /\ c \in Calls
  /\ \E s \in Scenes :
       \/ Dispatch(c, [NoRequest EXCEPT !.tool = "describe", !.scene = s])
       \/ /\ req[c].at = "none" /\ online = <<>>
          /\ req' = [req EXCEPT ![c] = [@ EXCEPT !.tool = "describe", !.scene = s,
                                                 !.at = "done", !.answer = "ok"]]
          /\ UNCHANGED <<on, online, view, ready, marks, moves>>

\* undo of a call that has been answered: its payload goes to the first GM.
CallUndo(u) ==
  \E c \in Calls :
    /\ u \in Undos
    /\ req[c].answer = "ok" /\ req[c].tool # "describe"
    /\ \A v \in Undos : req[v].of # c
    /\ Dispatch(u, [NoRequest EXCEPT !.tool = "undo", !.of = c])

-----------------------------------------------------------------------------
(* In the browser: every tool waits for the canvas first *)

Runs(c, tool) ==
  /\ req[c].at = "sent" /\ req[c].tool = tool
  /\ ready[req[c].gm]

Canvas(g) == OnScene(view[g])
Marked(c) == marks[req[c].gm][req[c].kind]

Reply(c, request) == req' = [req EXCEPT ![c] = [request EXCEPT !.at = "replied"]]

\* Mutant: the marks for undo are read after the change.
ChangedLate(c, new) ==
  /\ marks' = [marks EXCEPT ![req[c].gm][req[c].kind] = new]
  /\ Reply(c, [req[c] EXCEPT !.before = new, !.was = marks[req[c].gm]])
  /\ UNCHANGED <<on, Browsers, moves>>

\* The browser's marks change and the reply tells what they were; `was` is
\* history, for the properties.
Changed(c, new) ==
  /\ marks' = [marks EXCEPT ![req[c].gm][req[c].kind] = new]
  /\ Reply(c, [req[c] EXCEPT !.before = Marked(c), !.was = marks[req[c].gm]])
  /\ UNCHANGED <<on, Browsers, moves>>

\* doSelectOrTarget: all targets are found before the first is marked; the
\* first one releases the others unless the call is additive.
SelectOrTarget(c) ==
  /\ Runs(c, "set") \/ Runs(c, "add")
  /\ req[c].arg \subseteq Canvas(req[c].gm)
  /\ Changed(c, req[c].arg \cup IF req[c].tool = "set" THEN {} ELSE Marked(c))

Clear(c) ==
  /\ Runs(c, "clear")
  /\ Changed(c, IF req[c].arg = {} THEN {} ELSE Marked(c) \ req[c].arg)

\* An error, and nothing has changed: a target that is not on the canvas, an
\* actor that is not known, any call of place_token that names a scene, and a
\* token whose data or document Foundry does not give.
Throws(c) ==
  /\ \/ Runs(c, "place")
     \/ req[c].at = "placing"
     \/ Runs(c, "set") /\ ~(req[c].arg \subseteq Canvas(req[c].gm))
     \/ Runs(c, "add") /\ ~(req[c].arg \subseteq Canvas(req[c].gm))
  /\ req' = [req EXCEPT ![c].at = "threw"]
  /\ UNCHANGED <<on, Browsers, marks, moves>>

\* place_token remembers the scene shown when it starts, and waits for the
\* token's data and for the document.
BeginPlace(c) ==
  /\ Runs(c, "place")
  /\ req' = [req EXCEPT ![c].at = "placing", ![c].scene = view[req[c].gm]]
  /\ UNCHANGED <<on, Browsers, marks, moves>>

\* Mutant: the token is created on the scene that is shown by then.
EndPlaceOnCanvas(c) ==
  /\ req[c].at = "placing"
  /\ \E t \in Tokens :
       /\ on[t] = None /\ Start[t] = None /\ \A d \in Calls : req[d].token # t
       /\ on' = [on EXCEPT ![t] = view[req[c].gm]]
       /\ Reply(c, [req[c] EXCEPT !.token = t])
  /\ UNCHANGED <<Browsers, marks, moves>>

EndPlace(c) ==
  /\ req[c].at = "placing"
  /\ \E t \in Tokens :
       /\ on[t] = None /\ Start[t] = None /\ \A d \in Calls : req[d].token # t
       /\ on' = [on EXCEPT ![t] = req[c].scene]
       /\ Reply(c, [req[c] EXCEPT !.token = t])
  /\ UNCHANGED <<Browsers, marks, moves>>

\* Mutant: a browser answers for the scene it shows.
DescribeAny(c) ==
  LET g == req[c].gm
  IN /\ Runs(c, "describe")
     /\ Reply(c, [req[c] EXCEPT !.was = marks[g]])
     /\ UNCHANGED <<on, Browsers, marks, moves>>

\* The canvas fields, or scene_mismatch when the GM looks at another scene.
Describe(c) ==
  LET g == req[c].gm
  IN /\ Runs(c, "describe")
     /\ Reply(c, [req[c] EXCEPT !.was = IF view[g] = req[c].scene THEN marks[g] ELSE Unmarked])
     /\ UNCHANGED <<on, Browsers, marks, moves>>

\* _undo_apply: the marks of the snapshot that this canvas has; or the look-up of
\* the token on the scene it was placed on, wherever that is shown.
UndoApply(u) ==
  LET g == req[u].gm
      c == req[req[u].of]
  IN /\ Runs(u, "undo")
     /\ \/ /\ c.tool # "place"
           /\ marks' = [marks EXCEPT ![g][c.kind] = c.before \cap Canvas(g)]
           /\ req' = [req EXCEPT ![u].at = "replied"]
        \/ /\ c.tool = "place"
           /\ req' = [req EXCEPT ![u].at = IF on[c.token] = c.scene THEN "deleting" ELSE "replied"]
           /\ UNCHANGED marks
     /\ UNCHANGED <<on, Browsers, moves>>

\* The deletion it waits for.  Foundry may refuse it, and it does when somebody
\* has deleted the token since it was found.
UndoDeletes(u) ==
  LET t == req[req[u].of].token
  IN /\ req[u].at = "deleting"
     /\ \/ /\ on[t] # None
           /\ on' = [on EXCEPT ![t] = None]
           /\ marks' = [g \in Gms |-> [k \in Marks |-> marks[g][k] \ {t}]]
           /\ req' = [req EXCEPT ![u].at = "replied"]
        \/ req' = [req EXCEPT ![u].at = "threw"] /\ UNCHANGED <<on, marks>>
     /\ UNCHANGED <<Browsers, moves>>

-----------------------------------------------------------------------------
(* Back on the server *)

Answer(c, how) ==
  /\ req' = [req EXCEPT ![c].answer = how, ![c].at = IF @ = "replied" THEN "done" ELSE @]
  /\ UNCHANGED <<on, Browsers, marks, moves>>

\* The wrapper of a tool records the undo snapshot from the reply.
Replied(c) == req[c].at = "replied" /\ req[c].answer = None /\ Answer(c, "ok")

\* Mutant: a perception tool fails when the browser does.
FailedAlways(c) ==
  /\ req[c].at # "none" /\ req[c].answer = None
  /\ Answer(c, "failed")

\* The timer, or an error from the browser.  A perception tool answers without
\* the canvas fields and adds a warning; any other call fails.
Failed(c) ==
  /\ req[c].at # "none" /\ req[c].answer = None
  /\ IF req[c].tool # "describe" THEN Answer(c, "failed")
     ELSE /\ req' = [req EXCEPT ![c] = [@ EXCEPT !.answer = "ok", !.at = "done", !.was = Unmarked]]
          /\ UNCHANGED <<on, Browsers, marks, moves>>

-----------------------------------------------------------------------------
(* GMs and their canvases *)

ByHand == moves < Moves /\ moves' = moves + 1

\* What the browser was doing is lost.
GmLeaves(g) ==
  /\ ByHand
  /\ g \in ToSet(online)
  /\ online' = RemoveFirst(online, g)
  /\ marks' = [marks EXCEPT ![g] = Unmarked]
  /\ req' = [c \in Requests |->
       IF req[c].gm = g /\ req[c].at \in {"sent", "placing", "deleting"}
       THEN [req[c] EXCEPT !.at = "lost"] ELSE req[c]]
  /\ UNCHANGED <<on, view, ready>>

GmComes(g) ==
  /\ ByHand
  /\ g \notin ToSet(online)
  /\ online' = Append(online, g)
  /\ ready' = [ready EXCEPT ![g] = FALSE]
  /\ UNCHANGED <<on, view, marks, req>>

\* The canvas is torn down and drawn again; its marks are gone.
SwitchScene(g) ==
  /\ ByHand
  /\ g \in ToSet(online)
  /\ \E s \in Scenes \ {view[g]} : view' = [view EXCEPT ![g] = s]
  /\ ready' = [ready EXCEPT ![g] = FALSE]
  /\ marks' = [marks EXCEPT ![g] = Unmarked]
  /\ UNCHANGED <<on, online, req>>

CanvasReady(g) ==
  /\ ~ready[g]
  /\ ready' = [ready EXCEPT ![g] = TRUE]
  /\ UNCHANGED <<on, online, view, marks, req, moves>>

MarkByHand(g) ==
  /\ ByHand
  /\ g \in ToSet(online) /\ ready[g]
  /\ \E k \in Marks, some \in SUBSET Canvas(g) : marks' = [marks EXCEPT ![g][k] = some]
  /\ UNCHANGED <<on, Browsers, req>>

DeleteToken(t) ==
  /\ ByHand
  /\ on[t] # None
  /\ on' = [on EXCEPT ![t] = None]
  /\ marks' = [g \in Gms |-> [k \in Marks |-> marks[g][k] \ {t}]]
  /\ UNCHANGED <<Browsers, req>>

Next ==
  \/ \E c \in Calls : CallTool(c) \/ CallPlace(c) \/ CallDescribe(c)
  \/ \E c \in Calls : SelectOrTarget(c) \/ Clear(c) \/ Throws(c)
  \/ \E c \in Calls : BeginPlace(c) \/ EndPlace(c) \/ Describe(c)
  \/ \E u \in Undos : CallUndo(u) \/ UndoApply(u) \/ UndoDeletes(u)
  \/ \E c \in Requests : Replied(c) \/ Failed(c)
  \/ \E g \in Gms : GmLeaves(g) \/ GmComes(g) \/ SwitchScene(g) \/ CanvasReady(g) \/ MarkByHand(g)
  \/ \E t \in Tokens : DeleteToken(t)

\* The timer of a call fires unless its reply comes first.
CanvasSpec == Init /\ [][Next]_vars /\ \A c \in Requests : WF_vars(Failed(c))

-----------------------------------------------------------------------------
(* What the tools promise *)

\* undo-apply.mjs: an undo carried out where its call was leaves the marks that
\* were there before the call, as far as the tokens still are on this canvas,
\* whatever was marked meanwhile; and the marks of the other kind alone.
UndoRestoresMarks ==
  [][\A u \in Undos : UndoApply(u) /\ req[req[u].of].tool # "place" =>
       LET c == req[req[u].of] IN
       c.gm = req[u].gm =>
         \A k \in Marks : marks'[c.gm][k] =
           IF k = c.kind THEN {t \in c.was[k] : on[t] = view[c.gm]} ELSE marks[c.gm][k]]_vars

UndoReplies(u) == (UndoApply(u) \/ UndoDeletes(u)) /\ req'[u].at = "replied"

\* client-dispatched.mjs, undo-apply.mjs: the snapshot of a placed token finds
\* it, whatever scene the browser that placed it, or the one that takes it
\* back, shows by then: an undo that replies leaves the token gone, although it
\* may be deleted by hand while the undo waits, and no other token is gone.
UndoneMeansGone ==
  [][\A u \in Undos : UndoReplies(u) =>
       LET c == req[req[u].of] IN
       \A t \in Tokens : on'[t] = IF c.tool = "place" /\ t = c.token THEN None ELSE on[t]]_vars

\* perception.mjs (both): what a browser adds to the description of a scene is
\* about tokens of that scene, although the GM may have turned to another one.
DescribesOneScene ==
  [][\A c \in Calls : Describe(c) =>
       \A k \in Marks : req'[c].was[k] \subseteq OnScene(req[c].scene)]_vars

\* server/handlers/perception.mjs: a description is given in the end and never
\* fails, with GMs who leave, do not answer, or look elsewhere.
DescribeSucceeds ==
  \A c \in Calls : (req[c].tool = "describe") ~> (req[c].answer = "ok")

-----------------------------------------------------------------------------
(* What the proofs rest on *)

RequestRecords ==
  [tool : {None, "add", "set", "clear", "place", "describe", "undo"}, kind : Marks \cup {None},
   at : {"none", "sent", "placing", "deleting", "replied", "done", "threw", "lost"},
   answer : {None, "ok", "failed"}, gm : Gms \cup {None}, arg : SUBSET Tokens,
   scene : Scenes \cup {None}, token : Tokens \cup {None}, of : Calls \cup {None},
   before : SUBSET Tokens, was : [Marks -> SUBSET Tokens]]

TypeOK ==
  /\ on \in [Tokens -> Scenes \cup {None}]
  /\ online \in Seq(Gms)
  /\ view \in [Gms -> Scenes] /\ ready \in [Gms -> BOOLEAN]
  /\ marks \in [Gms -> [Marks -> SUBSET Tokens]]
  /\ req \in [Requests -> RequestRecords]

\* A canvas shows marks on its own tokens only.
MarksOnCanvas == \A g \in Gms, k \in Marks : marks[g][k] \subseteq Canvas(g)

\* A placed token is where it was placed, or has been deleted.
PlacedAsReplied(c) ==
  /\ req[c].token \in Tokens
  /\ on[req[c].token] \in {req[c].scene, None}

\* Until it has replied a call has placed nothing; the reply is true, and stays
\* so whatever happens on the canvas.
CallAsReplied(c) ==
  /\ req[c].at = "none" => req[c] = NoRequest
  /\ req[c].at # "none" =>
       \/ req[c].tool \in {"add", "set", "clear"} /\ req[c].kind \in Marks
       \/ req[c].tool \in {"place", "describe"} /\ req[c].kind = None
  /\ req[c].at \in {"sent", "placing", "replied"} => req[c].gm \in Gms
  /\ req[c].at \notin {"replied", "done"} => req[c].token = None /\ req[c].answer # "ok"
  /\ req[c].at \in {"replied", "done"} /\ req[c].kind \in Marks =>
       req[c].before = req[c].was[req[c].kind]
  /\ req[c].at = "placing" => req[c].tool = "place" /\ req[c].scene \in Scenes
  /\ req[c].at \in {"replied", "done"} /\ req[c].tool = "place" => PlacedAsReplied(c)

\* An undo is of a call that was answered and can be taken back.
UndoOfAnswered(u) ==
  /\ req[u].token = None
  /\ req[u].at # "none" =>
       /\ req[u].tool = "undo" /\ req[u].of \in Calls /\ req[u].gm \in Gms
       /\ req[req[u].of].answer = "ok" /\ req[req[u].of].tool # "describe"
  /\ req[u].at = "deleting" => req[req[u].of].tool = "place"

CanvasInv ==
  /\ TypeOK /\ MarksOnCanvas
  /\ \A c \in Calls : CallAsReplied(c)
  /\ \A u \in Undos : UndoOfAnswered(u)
=============================================================================
