------------------------------ MODULE WorldUndo ------------------------------
(***************************************************************************)
(* The tools of the server that change the world (server/handlers/actor,   *)
(* item, scene and set-token-image) and the reversal of what they did      *)
(* (applyServerSide in server/handlers/undo).                              *)
(*                                                                         *)
(* A tool reads the world, keeps what it needs for the way back, and       *)
(* issues one or two operations on Foundry's documents, awaiting each.     *)
(* Reading and issuing are one uninterrupted stretch; the operation takes  *)
(* effect later, and in between other requests and the GM change the same  *)
(* documents.  Requests that are rejected before they issue anything       *)
(* (validation, dry run, unknown name, a scene that is active already)     *)
(* change nothing and record no snapshot, and are left out.                *)
(***************************************************************************)
EXTENDS Naturals, SequencesExt

CONSTANTS
  Calls, Undos,  \* requests for a tool, and for undo
  GmMoves,       \* bound: how often the GM deletes something by hand
  Actors, Items, Tokens, Scenes,
  Stage,     \* the document that says which scene is active
  Owner,     \* the document an item or a token is embedded in
  Subject,   \* the actor a token stands for
  Values,    \* values of a field
  New,       \* the values that requests write
  Start,     \* the documents there are in the beginning
  Absent,    \* the value of a field that is not set
  Derived,   \* the places <<document, field>> that data preparation overwrites
  Prepared,  \* what it makes of a stored value
  Gone,      \* what the world has in place of a document that does not exist
  None

Embedded == Items \cup Tokens
Docs == Actors \cup Items \cup Tokens \cup Scenes \cup {Stage}

Fields(d) == CASE d \in Actors -> {"img", "proto"}
               [] d \in Items -> {"system"}
               [] d \in Tokens -> {"src"}
               [] d = Stage -> {"active"}
               [] OTHER -> {}

\* What a request can change: a field of a document, and whether it exists.
Places == UNION {{d} \X (Fields(d) \cup {"self"}) : d \in Docs}

FieldValues(d) == IF d = Stage THEN Scenes ELSE Values
Patch(d, fs) == [fs -> FieldValues(d) \cup {Absent}]
DocData(d) == Patch(d, Fields(d))

ASSUME WorldAssumption ==
  /\ Owner \in [Embedded -> Actors \cup Scenes]
  /\ Subject \in [Tokens -> Actors]
  /\ Stage \notin Actors \cup Items \cup Tokens \cup Scenes
  /\ Actors \cap (Embedded \cup Scenes) = {} /\ Embedded \cap Scenes = {} /\ Items \cap Tokens = {}
  /\ Calls \cap Undos = {} /\ None \notin Calls \cup Undos
  /\ DOMAIN Start = Docs
  /\ \A d \in Docs : Start[d] = Gone \/ Start[d] \in DocData(d)
  /\ Start[Stage] # Gone
  /\ \A d \in Embedded : Start[d] # Gone => Start[Owner[d]] # Gone
  /\ New \subseteq Values /\ Absent \notin Values
  /\ Derived \subseteq (Actors \X {"img"}) \cup (Items \X {"system"})
  /\ Prepared \in [Values \cup {Absent} -> Values \cup {Absent}]
  /\ \A d \in Docs : \A fs \in SUBSET Fields(d) : Gone \notin Patch(d, fs)

Requests == Calls \cup Undos

VARIABLES
  world,   \* document -> its fields, or Gone
  unused,  \* ids that have not been given out
  req,     \* request -> what it does, and a history of what happened meanwhile
  moves    \* what the GM has done by hand

vars == <<world, unused, req, moves>>

-----------------------------------------------------------------------------
(* Foundry's documents.  An operation writes fields of documents; it fails *)
(* when a document it needs is gone or one that it creates is there.       *)

Live(w) == {d \in Docs : w[d] # Gone}
Children(d) == {e \in Embedded : Owner[e] = d}
Whole(docs) == UNION {{d} \X (Fields(d) \cup {"self"}) : d \in docs}

Create(data) ==
  [writes |-> data, places |-> Whole(DOMAIN data), absent |-> DOMAIN data,
   needs |-> {Owner[d] : d \in DOMAIN data \cap Embedded} \ DOMAIN data,
   optional |-> FALSE]

Update(d, patch) ==
  [writes |-> [e \in {d} |-> patch], places |-> {d} \X DOMAIN patch, absent |-> {},
   needs |-> {d}, optional |-> FALSE]

Delete(d) ==
  [writes |-> [e \in {d} \cup Children(d) |-> Gone],
   places |-> Whole({d} \cup Children(d)), absent |-> {}, needs |-> {d},
   optional |-> FALSE]

Activate(s) ==
  [Update(Stage, [active |-> s]) EXCEPT !.needs = {s}]

Possible(o, w) == o.needs \subseteq Live(w) /\ o.absent \cap Live(w) = {}

\* An undefined value in a patch leaves the field as it is.
Written(old, new) ==
  IF new = Gone \/ old = Gone THEN new
  ELSE [f \in DOMAIN old |->
          IF f \in DOMAIN new /\ new[f] # Absent THEN new[f] ELSE old[f]]

Effect(o, w) ==
  [d \in Docs |-> IF d \in DOMAIN o.writes THEN Written(w[d], o.writes[d]) ELSE w[d]]

\* An undo looks a document up before it reverts it, and some pass over one
\* that is gone.
IfThere(o) == [o EXCEPT !.optional = TRUE]

Skipped(o, w) == o.optional /\ ~(o.needs \subseteq Live(w))

PassedOver(todo, w) ==
  CHOOSE n \in 0..Len(todo) : /\ \A i \in 1..n : Skipped(todo[i], w)
                              /\ n < Len(todo) => ~Skipped(todo[n + 1], w)

Due(todo, w) == SubSeq(todo, PassedOver(todo, w) + 1, Len(todo))

-----------------------------------------------------------------------------
Nothing == [at |-> "none", of |-> None, todo |-> <<>>, back |-> <<>>, needs |-> {},
            was |-> Start, wrote |-> {}, others |-> {}]

Init ==
  /\ world = Start
  /\ unused = Docs \ Live(Start)
  /\ req = [r \in Requests |-> Nothing]
  /\ moves = 0

\* A tool issues the first of its operations.  `back` and `needs` go into the
\* snapshot: the operations that revert it, and what must be there to try.
Begin(r, todo, back, needs) ==
  /\ r \in Calls /\ req[r].at = "none"
  /\ req' = [req EXCEPT ![r] =
       [@ EXCEPT !.at = "doing", !.todo = todo, !.back = back, !.needs = needs,
                 !.was = world, !.wrote = UNION {todo[i].places : i \in DOMAIN todo}]]
  /\ UNCHANGED <<world, moves>>

Fresh(docs) == docs \subseteq unused /\ unused' = unused \ docs

\* Mutant: the values are read after the update.
ReversePatchLate(d, patch) == patch

\* Mutant: the snapshot is of the whole document.
ReversePatchWhole(d, patch) == world[d]

\* What getPath() finds on a document: the prepared value, which an active
\* effect or the system's data model may have changed, and not the stored one.
Shown(d, f) == IF <<d, f>> \in Derived THEN Prepared[world[d][f]] ELSE world[d][f]

\* computeReversePatch: the present values at the paths of the patch.  A path
\* that removes a key ("-=name") has none and is not restored; left out.
ReversePatch(d, patch) == [f \in DOMAIN patch |-> Shown(d, f)]

Patches(d) == UNION {[fs -> New] : fs \in SUBSET Fields(d) \ {{}}}

\* A request that changes what is there gives out no id.
Existing(r, todo, back, needs) == Begin(r, todo, back, needs) /\ UNCHANGED unused

\* The data of a new document: which value it has matters, not its variety.
Spec(docs, v) == [d \in docs |-> [f \in Fields(d) |-> v]]

CreateActor(r) ==
  \E a \in Actors, v \in New : \E items \in SUBSET Children(a) :
    /\ Fresh({a} \cup items)
    /\ Begin(r, <<Create(Spec({a} \cup items, v))>>, <<IfThere(Delete(a))>>, {})

UpdateActor(r) ==
  \E a \in Actors \cap Live(world) : \E patch \in Patches(a) :
    Existing(r, <<Update(a, patch)>>, <<Update(a, ReversePatch(a, patch))>>, {a})

\* The actor was looked up before the image was validated, across an await;
\* the old images are read after it, from an actor that may be gone.
SetActorImage(r) ==
  \E a \in Actors \ unused, v \in New, fs \in {{"img"}, {"img", "proto"}} :
    LET old == IF world[a] = Gone THEN [f \in fs |-> Absent]
               ELSE ReversePatch(a, [f \in fs |-> v])
    IN Existing(r, <<Update(a, [f \in fs |-> v])>>, <<Update(a, old)>>, {a})

\* Mutant: the items are brought back before the actor they are on.
DeleteActorItemsFirst(r) ==
  \E a \in Actors \cap Live(world) :
    LET items == Children(a) \cap Live(world)
    IN Existing(r, <<Delete(a)>>,
                <<Create([d \in items |-> world[d]]), Create([d \in {a} |-> world[d]])>>, {})

\* delete_actor, confirmed: the snapshot is the actor with its items.
DeleteActor(r) ==
  \E a \in Actors \cap Live(world) :
    LET docs == ({a} \cup Children(a)) \cap Live(world)
    IN Existing(r, <<Delete(a)>>, <<Create([d \in docs |-> world[d]])>>, {})

\* The actor was looked up before the compendium was read, across an await.
AddItem(r) ==
  \E i \in Items, v \in New :
    /\ Owner[i] \notin unused
    /\ Fresh({i})
    /\ Begin(r, <<Create(Spec({i}, v))>>, <<Delete(i)>>, {Owner[i]})

RemoveItem(r) ==
  \E i \in Items \cap Live(world) :
    Existing(r, <<Delete(i)>>, <<Create([d \in {i} |-> world[d]])>>, {Owner[i]})

UpdateItem(r) ==
  \E i \in Items \cap Live(world) : \E patch \in Patches(i) :
    Existing(r, <<Update(i, patch)>>, <<Update(i, ReversePatch(i, patch))>>, {Owner[i]})

ActivateScene(r) ==
  LET previous == world[Stage].active
  IN \E s \in (Scenes \cap Live(world)) \ {previous} :
       Existing(r, <<Activate(s)>>, IF previous = Absent THEN <<>> ELSE <<Activate(previous)>>,
                {previous} \ {Absent})

\* A token of the active scene, the prototype of its actor, or one after the
\* other; both old images are read before the first update, and one that was
\* not set is not restored.  The tokens modelled are linked to their actor: an
\* unlinked one has an actor of its own, which the reversal does not look up.
TokenImage(t, scope, x) ==
  IF scope = "prototype" \/ x = Absent THEN <<>> ELSE <<Update(t, [src |-> x])>>

ProtoImage(a, scope, x) ==
  IF scope = "this_token" \/ a \notin Live(world) \/ x = Absent THEN <<>>
  ELSE <<Update(a, [proto |-> x])>>

SetTokenImage(r) ==
  \E t \in Tokens \cap Live(world), v \in New, scope \in {"this_token", "prototype", "both"} :
    LET a == Subject[t]
        old == TokenImage(t, scope, world[t].src) \o ProtoImage(a, scope, world[a].proto)
    IN /\ Owner[t] = world[Stage].active
       /\ Existing(r, TokenImage(t, scope, v) \o ProtoImage(a, scope, v),
                   [n \in DOMAIN old |-> IfThere(old[n])], {Owner[t]})

\* A document operation takes effect, and the request goes on to its next one.
DocOp(r) ==
  LET o == Head(req[r].todo)
      IsOther(s) == req[s].at \notin {"none", "over"} /\ s # r /\ s # req[r].of /\ req[s].of # r
  IN /\ req[r].at = "doing"
     /\ req[r].todo # <<>>
     /\ Possible(o, world)
     /\ world' = Effect(o, world)
     /\ req' = [s \in Requests |->
          IF s = r THEN [req[s] EXCEPT !.todo = Due(Tail(@), world')]
          ELSE IF IsOther(s) THEN [req[s] EXCEPT !.others = @ \cup o.places] ELSE req[s]]
     /\ UNCHANGED <<unused, moves>>

\* What is over leaves nothing behind but the name.
Over == [Nothing EXCEPT !.at = "over"]

\* The last operation is done: the snapshot is recorded, the call answered.
Finish(r) ==
  /\ req[r].at = "doing" /\ req[r].todo = <<>>
  /\ req' = [req EXCEPT ![r] = IF r \in Calls THEN [@ EXCEPT !.at = "ok"] ELSE Over]
  /\ UNCHANGED <<world, unused, moves>>

Fails(r) ==
  /\ req[r].at = "doing" /\ req[r].todo # <<>>
  /\ req' = [req EXCEPT ![r] = Over]
  /\ UNCHANGED <<world, unused, moves>>

\* What an operation is for has gone, or is there already.
Refused(r) == Fails(r) /\ ~Possible(Head(req[r].todo), world)

\* The database fails; what has been done of the request stays, without a snapshot.
DbFails(r) == Fails(r) /\ Possible(Head(req[r].todo), world)

\* The token of r is spent, the documents looked up, the reversal issued.
Undo(u, r) ==
  LET there == req[r].needs \subseteq Live(world)
      todo == Due(req[r].back, world)
  IN /\ req[u].at = "none" /\ req[r].at = "ok"
     /\ req' = [req EXCEPT
          ![r].at = "spent",
          ![u] = IF there THEN [@ EXCEPT !.at = "doing", !.of = r, !.todo = todo] ELSE Over]
     /\ UNCHANGED <<world, unused, moves>>

\* The GM deletes a document by hand.
GmDeletes(d) ==
  /\ moves < GmMoves /\ moves' = moves + 1
  /\ d \in Live(world) \ {Stage, world[Stage].active}
  /\ world' = Effect(Delete(d), world)
  /\ req' = [s \in Requests |->
       IF req[s].at \in {"none", "over"} THEN req[s]
       ELSE [req[s] EXCEPT !.others = @ \cup Delete(d).places]]
  /\ UNCHANGED unused

Mutation(r) ==
  \/ CreateActor(r) \/ UpdateActor(r) \/ SetActorImage(r) \/ DeleteActor(r)
  \/ AddItem(r) \/ RemoveItem(r) \/ UpdateItem(r)
  \/ ActivateScene(r) \/ SetTokenImage(r)

Next ==
  \/ \E r \in Calls : Mutation(r)
  \/ \E r \in Requests : DocOp(r) \/ Finish(r) \/ Refused(r) \/ DbFails(r)
  \/ \E u \in Undos, r \in Calls : Undo(u, r)
  \/ \E d \in Docs : GmDeletes(d)

WorldSpec == Init /\ [][Next]_vars

-----------------------------------------------------------------------------
(* What undo promises *)

\* undo.mjs, applyServerSide: when an undo is through, every place that nobody
\* else has written since its operation began is as that found it, whatever else
\* was going on.  A field that was not set keeps the value it was given; one
\* that data preparation overwrites is written by another, too.
Ours(k, d, f) == <<d, f>> \notin k.others \cup Derived

Restored(k, w, d) ==
  LET was == k.was[d]
  IN Ours(k, d, "self") =>
       /\ (was = Gone) <=> (w[d] = Gone)
       /\ was # Gone => \A f \in Fields(d) :
            Ours(k, d, f) /\ was[f] # Absent => w[d][f] = was[f]

UndoRestores ==
  [][\A u \in Undos : Finish(u) => \A d \in Docs : Restored(req[req[u].of], world, d)]_vars

\* An undo that has begun finds that it cannot go on only when somebody else
\* removed or brought back a document.
RefusedForAReason ==
  [][\A u \in Undos : Refused(u) =>
       \E d \in Docs : <<d, "self">> \in req[req[u].of].others]_vars

\* A reversal changes nothing but what its operation wrote, and what has been
\* put into a document that it deletes again.
UndoTouchesOnlyOwn ==
  [][\A u \in Undos : DocOp(u) =>
       \A d \in Docs : LET Own(f) == <<d, f>> \in req[req[u].of].wrote IN
         \/ world'[d] = world[d] \/ Own("self")
         \/ d \in Embedded /\ world'[d] = Gone /\ world'[Owner[d]] = Gone
         \/ /\ Gone \notin {world[d], world'[d]}
            /\ \A f \in Fields(d) : world'[d][f] = world[d][f] \/ Own(f)]_vars

-----------------------------------------------------------------------------
(* What the proofs rest on *)

\* Every document that exists has its own fields and is in a document that exists.
WorldOK(w) ==
  /\ DOMAIN w = Docs /\ w[Stage] # Gone
  /\ \A d \in Docs : w[d] = Gone \/ w[d] \in DocData(d)
  /\ \A d \in Embedded : w[d] # Gone => w[Owner[d]] # Gone

\* An id that has not been given out is nobody's, and nobody is about to use it.
OpsOK(todo) == \A i \in DOMAIN todo : /\ todo[i].needs \subseteq Docs
                                      /\ todo[i].absent \subseteq Docs \ unused

TypeOK ==
  /\ WorldOK(world)
  /\ unused \subseteq Docs \ Live(world)
  /\ DOMAIN req = Requests
  /\ \A r \in Requests :
       /\ DOMAIN req[r] = DOMAIN Nothing
       /\ req[r].at \in {"none", "doing", "ok", "spent", "over"}
       /\ req[r].todo \in Seq(Range(req[r].todo)) /\ req[r].back \in Seq(Range(req[r].back))
  /\ \A r \in Calls : OpsOK(req[r].todo) /\ OpsOK(req[r].back)

\* The operations there are.
IsDelete(o, x) ==
  /\ o.writes = [d \in {x} \cup Children(x) |-> Gone]
  /\ o.places = Whole({x} \cup Children(x)) /\ o.absent = {} /\ o.needs = {x}

IsCreate(o, docs) ==
  /\ DOMAIN o.writes = docs /\ o.places = Whole(docs) /\ o.absent = docs /\ docs \subseteq Docs
  /\ \A d \in docs : /\ o.writes[d] \in DocData(d)
                     /\ d \in Embedded => Owner[d] \in docs \cup o.needs

IsUpdate(o) == \E d \in Docs :
  /\ DOMAIN o.writes = {d} /\ DOMAIN o.writes[d] \subseteq Fields(d)
  /\ o.writes[d] \in Patch(d, DOMAIN o.writes[d])
  /\ o.places = {d} \X DOMAIN o.writes[d] /\ o.absent = {} /\ d \in o.needs \cup {Stage}

Changes(todo, d, f) ==
  \E i \in DOMAIN todo : d \in DOMAIN todo[i].writes /\ f \in DOMAIN todo[i].writes[d]

\* What a request does, and what reverts it.
ComesOrGoes(k) == {d \in Docs : <<d, "self">> \in k.wrote}

Makes(k, x) ==
  /\ x \in ComesOrGoes(k) /\ ComesOrGoes(k) \subseteq {x} \cup Children(x)
  /\ \A d \in {x} \cup Children(x) : k.was[d] = Gone
  /\ k.todo = <<>> \/ (Len(k.todo) = 1 /\ IsCreate(k.todo[1], ComesOrGoes(k)))
  /\ Len(k.back) = 1 /\ IsDelete(k.back[1], x)

Removes(k, x) ==
  /\ ComesOrGoes(k) = {x} \cup Children(x) /\ k.was[x] # Gone
  /\ k.todo = <<>> \/ (Len(k.todo) = 1 /\ IsDelete(k.todo[1], x))
  /\ Len(k.back) = 1 /\ IsCreate(k.back[1], ComesOrGoes(k) \cap Live(k.was))
  /\ \A d \in ComesOrGoes(k) \cap Live(k.was) : k.back[1].writes[d] = k.was[d]
  /\ k.back[1].needs \subseteq k.needs /\ ~k.back[1].optional

Edits(k) ==
  /\ ComesOrGoes(k) = {}
  /\ \A i \in DOMAIN k.todo : IsUpdate(k.todo[i])
  /\ \A d \in Docs : k.was[d] # Gone =>
       \A f \in Fields(d) : k.was[d][f] # Absent /\ Changes(k.todo, d, f) => Changes(k.back, d, f)
  /\ \A i \in DOMAIN k.back :
       /\ IsUpdate(k.back[i]) /\ k.back[i].places \subseteq k.wrote
       /\ \A d \in DOMAIN k.back[i].writes : \A f \in DOMAIN k.back[i].writes[d] :
            \/ <<d, f>> \in Derived
            \/ k.back[i].writes[d][f] = IF k.was[d] = Gone THEN Absent ELSE k.was[d][f]
       /\ IF k.back[i].optional THEN k.back[i].needs = DOMAIN k.back[i].writes
          ELSE i = 1 /\ k.back[i].needs \subseteq k.needs \cup Live(k.was)

\* How the world differs from what a request found, as far as nobody else has
\* changed it, once its operation is done, and before that or once it is
\* reverted.  An update is reverted field by field: `rest` is yet to come.
Edited(k, w, rest) ==
  /\ Edits(k)
  /\ \A d \in Docs : Ours(k, d, "self") =>
       /\ (k.was[d] = Gone) <=> (w[d] = Gone)
       /\ k.was[d] # Gone => \A f \in Fields(d) :
            Ours(k, d, f) /\ k.was[d][f] # Absent => w[d][f] = k.was[d][f] \/ Changes(rest, d, f)

Done(k, w, rest) ==
  \/ /\ \E x \in Actors \cup Items : Makes(k, x)
     /\ \A d \in Docs : IF d \in ComesOrGoes(k) THEN Ours(k, d, "self") => w[d] # Gone
                       ELSE Restored(k, w, d)
  \/ /\ \E x \in Actors \cup Items : Removes(k, x)
     /\ \A d \in Docs : IF d \in ComesOrGoes(k) THEN Ours(k, d, "self") => w[d] = Gone
                       ELSE Restored(k, w, d)
  \/ Edited(k, w, rest)

Undone(k, w, rest) ==
  \/ /\ \E x \in Actors \cup Items : Makes(k, x) \/ Removes(k, x)
     /\ \A d \in Docs : Restored(k, w, d)
  \/ Edited(k, w, rest)

CallAgrees(r) ==
  LET k == req[r] IN
  /\ k.of = None
  /\ k.at \in {"none", "ok", "spent", "over"} => k.todo = <<>>
  /\ k.at \in {"doing", "ok"} => IF k.todo = <<>> THEN Done(k, world, k.back)
                                 ELSE Undone(k, world, k.back)

\* What is left of a reversal is of the snapshot, and can be done unless somebody
\* else has removed or brought back a document.
Remains(rest, back) ==
  /\ Len(rest) <= Len(back)
  /\ \A i \in DOMAIN rest : \E j \in DOMAIN back : rest[i] = back[j] /\ i <= j

Ready(k, w, rest) ==
  rest # <<>> => Possible(rest[1], w) \/ \E d \in Docs : ~Ours(k, d, "self")

UndoAgrees(u) ==
  /\ req[u].at \in {"none", "doing", "over"}
  /\ req[u].at = "doing" =>
       LET k == req[req[u].of]
           rest == req[u].todo
       IN /\ req[u].of \in Calls /\ k.at = "spent"
          /\ \A v \in Undos : req[v].at = "doing" /\ req[v].of = req[u].of => v = u
          /\ Remains(rest, k.back)
          /\ IF rest = <<>> THEN Undone(k, world, rest) ELSE Done(k, world, rest)
          /\ Ready(k, world, rest)

WorldInv ==
  /\ TypeOK
  /\ \A r \in Calls : CallAgrees(r)
  /\ \A u \in Undos : UndoAgrees(u)
=============================================================================
