----------------------------- MODULE SystemTools -----------------------------
(***************************************************************************)
(* use_item and roll: the server looks the actor and the item up           *)
(* (server/handlers/system-tools) and dispatches their ids to a browser,   *)
(* which looks them up again (client/handlers/system-tools) and hands them *)
(* to the executors of the game system (client/systems).  Modelled are     *)
(* the ones whose outcome matters afterwards: casting a spell and lighting *)
(* a torch in Shadowdark, attacks with a d20 in Shadowdark and D&D 5e, and *)
(* the pool of d10 of The Old World.  A roll is a choice of faces.  Left   *)
(* out: an item with a use or roll method of its own, which is the game    *)
(* system's, and the look-up of the actor, of which there is one.          *)
(***************************************************************************)
EXTENDS NameResolver

CONSTANTS
  Calls,
  Spells, Torches, Blades, Pools,  \* items by what using them does
  Place,      \* item -> where it comes in the actor's collection
  Id,         \* item -> its id
  Names,      \* item -> the names it may have
  D20,        \* faces of a d20 that are told apart
  D10,        \* faces of a d10 that are told apart
  Bonus, Dc,  \* of a spell check
  Char, Skill,  \* of a pool
  Losses,     \* bound on the items that are taken away
  None

Items == Spells \cup Torches \cup Blades \cup Pools
Errors == {"validation", "not_found", "ambiguous"}

ASSUME ToolAssumption ==
  /\ IsFiniteSet(Items) /\ Items \cap Errors = {}
  /\ Spells \cap (Torches \cup Blades \cup Pools) = {} /\ Torches \cap (Blades \cup Pools) = {}
  /\ Blades \cap Pools = {}
  /\ Place \in [Items -> Nat] /\ \A x, y \in Items : Place[x] = Place[y] => x = y
  /\ \A x \in Items : Names[x] \subseteq Texts
  /\ D20 \subseteq 1..20 /\ D10 \subseteq 1..10
  /\ Char \in Nat \ {0} /\ Skill \in Nat /\ Bonus \in Nat /\ Dc \in Nat
  /\ Losses \in Nat /\ None \notin {"grim", "glorious", "neither"} \cup Items

VARIABLES
  name,   \* item -> its name
  there,  \* items of the actor
  lost,   \* spells that are marked as lost
  lit,    \* torches that burn
  call,
  stale   \* history: calls whose torch was changed since they looked at it

vars == <<name, there, lost, lit, call, stale>>

NoCall == [at |-> "none", query |-> None, item |-> None, told |-> None,
           dice |-> <<>>, hits |-> 0, first |-> 0, last |-> 0, reroll |-> None, small |-> FALSE]

Init ==
  /\ name \in {n \in [Items -> Texts] : \A x \in Items : n[x] \in Names[x]}
  /\ there = Items /\ lost = {} /\ lit = {} /\ stale = {}
  /\ call = [c \in Calls |-> NoCall]

Goes(c, next) == call' = [call EXCEPT ![c] = next]
World == <<name, there, lost, lit, stale>>

\* use_item: the server finds the item, or the request ends with an error.
Resolve(c) ==
  /\ call[c].at = "none"
  /\ \E q \in Queries :
       LET found == ResolveByIdOrName(there, Place, Id, name, q)
       IN Goes(c, [call[c] EXCEPT !.at = IF found \in Errors THEN "error" ELSE "sent",
                                  !.query = q, !.item = found])
  /\ UNCHANGED World

\* roll: the server passes on what is to be rolled as it was asked.
SendRoll(c) ==
  /\ call[c].at = "none"
  /\ \E q \in Queries : Goes(c, [call[c] EXCEPT !.at = "rolling", !.query = q])
  /\ UNCHANGED World

\* In the browser: the item may have gone in the meantime, or what is to be
\* rolled is neither an item nor a characteristic nor a formula.
Missing(c) ==
  /\ \/ call[c].at = "sent" /\ call[c].item \notin there
     \/ call[c].at = "rolling"
  /\ Goes(c, [call[c] EXCEPT !.at = "error", !.query = None])
  /\ UNCHANGED World

Starts(c, kind, next) ==
  /\ call[c].at = "sent" /\ call[c].item \in kind \cap there
  /\ Goes(c, [next EXCEPT !.query = None])
  /\ UNCHANGED World

Rolls(c, next) ==
  /\ call[c].at = "rolling"
  /\ Goes(c, [next EXCEPT !.query = None])
  /\ UNCHANGED World

\* A d20, or two of which the higher or the lower counts.
D20Roll == {[first |-> d, kept |-> d] : d \in D20}
       \cup {[first |-> d, kept |-> Max({d, e})] : d, e \in D20}
       \cup {[first |-> d, kept |-> Min({d, e})] : d, e \in D20}

\* castSpell: nat 1 and nat 20 are told from the first die that was rolled.
CastSpell(c) ==
  \E r \in D20Roll :
    LET outcome == IF r.first = 1 THEN "fumble"
                   ELSE IF r.kept + Bonus < Dc THEN "fail"
                   ELSE IF r.first = 20 THEN "crit" ELSE "success"
    IN Starts(c, Spells, [call[c] EXCEPT !.at = "casting", !.told = outcome])

\* Mutant: the spell is marked on a fumble only.
SpellMarkedOnFumble(c) ==
  /\ call[c].at = "casting"
  /\ call[c].told \in {"fumble", "fail"} => call[c].item \in there
  /\ lost' = IF call[c].told = "fumble" THEN lost \cup {call[c].item} ELSE lost
  /\ Goes(c, [call[c] EXCEPT !.at = "replied"])
  /\ UNCHANGED <<name, there, lit, stale>>

\* The spell is marked as lost when the cast failed.
SpellMarked(c) ==
  /\ call[c].at = "casting"
  /\ call[c].told \in {"fumble", "fail"} => call[c].item \in there
  /\ lost' = IF call[c].told \in {"fumble", "fail"} THEN lost \cup {call[c].item} ELSE lost
  /\ Goes(c, [call[c] EXCEPT !.at = "replied"])
  /\ UNCHANGED <<name, there, lit, stale>>

\* The update is refused or the item gone: that is swallowed, and the spell told
\* to be lost all the same.
SpellNotMarked(c) ==
  /\ call[c].at = "casting" /\ call[c].told \in {"fumble", "fail"}
  /\ Goes(c, [call[c] EXCEPT !.at = "unmarked"])
  /\ UNCHANGED World

Burns(i) == IF i \in lit THEN "lit" ELSE "dark"
Other(state) == IF state = "lit" THEN "dark" ELSE "lit"

\* Mutant: what it says is what the torch was.
ToggleLightAsItWas(c) ==
  Starts(c, Torches, [call[c] EXCEPT !.at = "toggling", !.told = Burns(call[c].item)])

\* toggleLight: what it will say is decided before the torch is toggled.
ToggleLight(c) ==
  Starts(c, Torches, [call[c] EXCEPT !.at = "toggling", !.told = Other(Burns(call[c].item))])

\* Calls other than `by` that have looked at torch i no longer know what it is.
Overtaken(i, by) ==
  stale' = stale \cup IF lit' = lit THEN {}
                      ELSE {d \in Calls \ by : call[d].at = "toggling" /\ call[d].item = i}

\* By the system's tracker, which toggles what it finds, or by the flag, which
\* is set to the opposite of what was read.
LightToggled(c) ==
  LET i == call[c].item
  IN /\ call[c].at = "toggling" /\ i \in there
     /\ \/ lit' = IF i \in lit THEN lit \ {i} ELSE lit \cup {i}
        \/ lit' = IF call[c].told = "lit" THEN lit \cup {i} ELSE lit \ {i}
     /\ Overtaken(i, {c})
     /\ Goes(c, [call[c] EXCEPT !.at = "replied"])
     /\ UNCHANGED <<name, there, lost>>

\* A player lights a torch or puts it out, or it has burnt down.
ByHand(i) ==
  /\ i \in Torches \cap there
  /\ lit' = IF i \in lit THEN lit \ {i} ELSE lit \cup {i}
  /\ Overtaken(i, {})
  /\ UNCHANGED <<name, there, lost, call>>

\* The torch is gone or the update refused.
LightFails(c) ==
  /\ call[c].at = "toggling"
  /\ Goes(c, [call[c] EXCEPT !.at = "error"])
  /\ UNCHANGED World

\* An attack, with the item or with any that roll names exactly: a fumble rolls
\* no damage, a system's dialog may be cancelled.
Attack(c) ==
  \E at \in {"replied", "hitting"}, told \in {"cancelled", "fumble", "crit", "hit"} :
    LET next == [call[c] EXCEPT !.at = at, !.told = told]
    IN /\ \/ told = "cancelled" /\ at = "replied"
          \/ \E r \in D20Roll :
               /\ told = IF r.first = 1 THEN "fumble" ELSE IF r.first = 20 THEN "crit" ELSE "hit"
               /\ at = IF r.first = 1 THEN "replied" ELSE "hitting"
       /\ \/ Starts(c, Blades, next)
          \/ /\ \E x \in there : call[c].query \in {Id[x], name[x]}
             /\ Rolls(c, next)

\* A check with a d20, or a free formula: nothing but the reply.
PlainRoll(c) == Rolls(c, [call[c] EXCEPT !.at = "replied", !.told = "rolled"])

DamageRolled(c) ==
  /\ call[c].at = "hitting"
  /\ Goes(c, [call[c] EXCEPT !.at = "replied"])
  /\ UNCHANGED World

-----------------------------------------------------------------------------
(* The Old World: a pool of d10, every die up to the skill is a success *)

Successes(dice) == Cardinality({n \in DOMAIN dice : dice[n] <= Skill})
Faces(n) == [1..n -> D10]

\* runTest: bonus and penalty dice, within 0 and twice the characteristic; an
\* empty pool rolls one die that succeeds on 1 only.  Grim and glorious cancel.
\* The Old World's weapons and spells are tests, and so are its skills.
RunTest(c) ==
  \E bonus, penalty \in 0..1, reroll \in {"grim", "glorious", "neither"} :
    LET pool == Max({0, Min({Char + bonus - penalty, 2 * Char})})
    IN \E dice \in Faces(Max({pool, 1})) :
         LET next == [call[c] EXCEPT
               !.at = "pool", !.dice = dice, !.reroll = reroll, !.small = pool < 1,
               !.hits = Successes(dice),
               !.first = IF pool < 1 THEN (IF dice[1] = 1 THEN 1 ELSE 0) ELSE Successes(dice)]
         IN Starts(c, Pools, next) \/ Rolls(c, next)

\* Mutant: grim rerolls the failures, glorious the successes.
ToRerollSwapped(dice, reroll) ==
  {n \in DOMAIN dice : \/ reroll = "grim" /\ dice[n] > Skill
                       \/ reroll = "glorious" /\ dice[n] <= Skill}

ToReroll(dice, reroll) ==
  {n \in DOMAIN dice : \/ reroll = "grim" /\ dice[n] <= Skill
                       \/ reroll = "glorious" /\ dice[n] > Skill}

Reroll(c) ==
  LET dice == call[c].dice
      again == ToReroll(dice, call[c].reroll)
  IN /\ call[c].at = "pool"
     /\ \E faces \in [again -> D10] :
          LET new == [n \in DOMAIN dice |-> IF n \in again THEN faces[n] ELSE dice[n]]
          IN Goes(c, [call[c] EXCEPT
               !.at = "replied", !.dice = new,
               !.last = IF again = {} THEN call[c].first ELSE Successes(new)])
     /\ UNCHANGED World

\* The GM or a player takes an item away.
Taken(i) ==
  /\ there' = there \ {i}
  /\ i \in there /\ Cardinality(Items \ there) < Losses
  /\ UNCHANGED <<name, lost, lit, call, stale>>

Next ==
  \/ \E c \in Calls :
       \/ Resolve(c) \/ SendRoll(c) \/ Missing(c)
       \/ CastSpell(c) \/ SpellMarked(c) \/ SpellNotMarked(c)
       \/ ToggleLight(c) \/ LightToggled(c) \/ LightFails(c)
       \/ Attack(c) \/ DamageRolled(c) \/ PlainRoll(c)
       \/ RunTest(c) \/ Reroll(c)
  \/ \E i \in Items : Taken(i) \/ ByHand(i)

ToolSpec == Init /\ [][Next]_vars

-----------------------------------------------------------------------------
(* What the tools promise *)

\* resolver.mjs: an item is found by its id, its name, or as the clearly most
\* similar one by the distance as it is defined; a query is refused only for the
\* reason that is given.
ResolvedIsJustified ==
  [][\A c \in Calls : Resolve(c) =>
       Justified(there, Id, name, call'[c].query, call'[c].item)]_vars

ToldLost(k) == k.at \in {"replied", "unmarked"} /\ k.item \in Spells /\ k.told \in {"fumble", "fail"}

\* shadowdark.mjs: the spells that are marked as lost are those of the casts that
\* were told to have failed, but for the casts whose update was refused; no cast
\* clears the mark of another.
LostAsTold ==
  lost = {call[c].item : c \in {d \in Calls : ToldLost(call[d]) /\ call[d].at # "unmarked"}}

\* shadowdark.mjs: after a toggle the torch is what the reply says, by the tracker
\* and by the flag, unless somebody changed it since the call looked at it.
LightAsTold ==
  [][\A c \in Calls : LightToggled(c) /\ c \notin stale =>
       (call[c].item \in lit') = (call[c].told = "lit")]_vars

\* whtow.mjs: a grim test never ends with more successes than the first throw
\* had, a glorious one never with fewer.  In an empty pool the first throw counts
\* a 1 only but the reroll goes by the skill: the bound there is the more
\* favourable of the two counts for grim, and the less favourable for glorious.
OneSided(k) ==
  /\ k.reroll = "grim" => k.last <= IF k.small THEN Max({k.first, k.hits}) ELSE k.first
  /\ k.reroll = "glorious" => k.last >= IF k.small THEN Min({k.first, k.hits}) ELSE k.first
  /\ k.reroll = "neither" => k.last = k.first

RerollsAreOneSided == \A c \in Calls : call[c].at = "replied" => OneSided(call[c])

-----------------------------------------------------------------------------
(* What the proofs rest on: what a call holds at each of its stages *)

TypeOK ==
  /\ name \in [Items -> Texts]
  /\ there \subseteq Items
  /\ call = [c \in Calls |-> call[c]]
  /\ \A c \in Calls : DOMAIN call[c] = DOMAIN NoCall

Held(k) ==
  /\ k.at \in {"none", "error", "sent", "rolling", "casting", "unmarked", "toggling", "hitting",
               "pool", "replied"}
  /\ k.at \in {"none", "rolling"} => k.item = None
  /\ k.at = "casting" => k.item \in Spells
  /\ k.at = "toggling" => k.item \in Torches /\ k.told \in {"lit", "dark"}
  /\ k.at = "hitting" => k.item \in Blades \cup {None}
  /\ k.at \notin {"pool", "replied"} => k.reroll = None
  /\ k.at = "pool" =>
       /\ k.item \in Pools \cup {None} /\ k.reroll \in {"grim", "glorious", "neither"}
       /\ IsFiniteSet(DOMAIN k.dice) /\ \A n \in DOMAIN k.dice : k.dice[n] \in D10
       /\ k.hits = Successes(k.dice) /\ k.first \in Nat
       /\ ~k.small => k.first = k.hits

\* A call that has looked at its torch still knows what it is, or is stale.
Seen == \A c \in Calls :
  call[c].at = "toggling" /\ c \notin stale =>
    call[c].told = IF call[c].item \in lit THEN "dark" ELSE "lit"

ToolInv == /\ TypeOK /\ \A c \in Calls : Held(call[c])
           /\ Seen /\ LostAsTold /\ RerollsAreOneSided
=============================================================================
