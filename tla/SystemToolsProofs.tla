-------------------------- MODULE SystemToolsProofs --------------------------
(***************************************************************************)
(* Proofs about the tools of the game systems, for any calls, items, dice, *)
(* and any bonus, difficulty and skill; and about the name resolver, for   *)
(* any names and queries.                                                  *)
(***************************************************************************)
EXTENDS SystemTools, FiniteSetTheorems, SequenceTheorems, WellFoundedInduction, TLAPS

-----------------------------------------------------------------------------
(* The records of the calls *)

CallFields == {"at", "query", "item", "told", "dice", "hits", "first", "last", "reroll", "small"}

LEMMA NoCallFields == DOMAIN NoCall = CallFields
  BY DEF NoCall, CallFields

\* The cast of spell k.item was told to have failed, and its update was taken.
Marked(k) == ToldLost(k) /\ k.at # "unmarked"

LEMMA MarksAre == LostAsTold <=> lost = {call[c].item : c \in {d \in Calls : Marked(call[d])}}
  BY DEF LostAsTold, Marked

\* One call goes on: what it holds now is as it should be, and if it tells of a
\* spell that failed, that spell is marked in the same step.
LEMMA CallGoes ==
  ASSUME ToolInv, NEW c \in Calls, NEW next, Goes(c, next), UNCHANGED <<name, there>>,
         DOMAIN next = DOMAIN NoCall, Held(next), next.at = "replied" => OneSided(next),
         call[c].at \notin {"replied", "unmarked"},
         next.at = "toggling" => next.told = IF next.item \in lit' THEN "dark" ELSE "lit",
         \A d \in Calls \ {c} : call[d].at = "toggling" =>
           d \in stale' \/ (d \notin stale /\ (call[d].item \in lit' <=> call[d].item \in lit)),
         lost' = lost \cup (IF Marked(next) THEN {next.item} ELSE {})
  PROVE  ToolInv'
<1>1. /\ call'[c] = next /\ \A d \in Calls \ {c} : call'[d] = call[d]
      /\ call' = [d \in Calls |-> call'[d]]
  BY DEF Goes, ToolInv, TypeOK
<1>2. TypeOK' /\ (\A d \in Calls : Held(call[d]))' /\ RerollsAreOneSided'
  <2>1. TypeOK'
    BY <1>1 DEF ToolInv, TypeOK, NoCall
  <2>2. \A d \in Calls : Held(call'[d])
    BY <1>1 DEF ToolInv
  <2>3. \A d \in Calls : call'[d].at = "replied" => OneSided(call'[d])
    BY <1>1 DEF ToolInv, RerollsAreOneSided
  <2>4. QED  BY <2>1, <2>2, <2>3 DEF RerollsAreOneSided
<1>3. LostAsTold'
  <2> DEFINE told == {d \in Calls : Marked(call[d])}
  <2>1. lost = {call[d].item : d \in told} /\ c \notin told
    BY MarksAre DEF ToolInv, Marked, ToldLost
  <2>2. {d \in Calls : Marked(call'[d])} = told \cup (IF Marked(next) THEN {c} ELSE {})
    BY <1>1, <2>1
  <2> HIDE DEF told
  <2>3. \A d \in told : d \in Calls \ {c}
    BY <2>1 DEF told
  <2>4. {call'[d].item : d \in told \cup (IF Marked(next) THEN {c} ELSE {})} = lost'
    <3>1. CASE Marked(next)
      BY <1>1, <2>1, <2>3, <3>1
    <3>2. CASE ~Marked(next)
      BY <1>1, <2>1, <2>3, <3>2
    <3>3. QED  BY <3>1, <3>2
  <2>5. QED  BY <2>2, <2>4 DEF LostAsTold, Marked
<1>4. Seen'
  <2>1. SUFFICES ASSUME NEW d \in Calls, call'[d].at = "toggling", d \notin stale'
                 PROVE  call'[d].told = IF call'[d].item \in lit' THEN "dark" ELSE "lit"
    BY DEF Seen
  <2>2. CASE d = c
    BY <1>1, <2>1, <2>2
  <2>3. CASE d # c
    <3>1. /\ call'[d] = call[d] /\ d \notin stale
          /\ call[d].item \in lit' <=> call[d].item \in lit
      BY <1>1, <2>1, <2>3
    <3>2. call[d].told = IF call[d].item \in lit THEN "dark" ELSE "lit"
      BY <2>1, <3>1 DEF ToolInv, Seen
    <3>3. QED  BY <3>1, <3>2
  <2>4. QED  BY <2>2, <2>3
<1>5. QED  BY <1>2, <1>3, <1>4 DEF ToolInv

-----------------------------------------------------------------------------
(* Every step keeps the invariant *)

LEMMA ToolStart == Init => ToolInv
<1> SUFFICES ASSUME Init PROVE ToolInv
  OBVIOUS
<1>1. /\ call = [c \in Calls |-> NoCall] /\ there = Items /\ lost = {}
      /\ name \in [Items -> Texts]
  BY DEF Init
<1>2. NoCall.at = "none" /\ Held(NoCall) /\ ~ToldLost(NoCall)
  BY DEF NoCall, Held, ToldLost
<1>3. \A c \in Calls : call[c] = NoCall
  BY <1>1
<1>4. TypeOK /\ (\A c \in Calls : Held(call[c])) /\ Seen
  BY <1>1, <1>2, <1>3 DEF TypeOK, Seen
<1>5. LostAsTold
  BY <1>1, <1>2, <1>3 DEF LostAsTold
<1>6. RerollsAreOneSided
  BY <1>2, <1>3 DEF RerollsAreOneSided
<1>7. QED  BY <1>4, <1>5, <1>6 DEF ToolInv

\* Of two kinds at most one is the item's.
LEMMA KindsDiffer ==
  /\ \A x \in Spells : x \notin Torches /\ x \notin Blades /\ x \notin Pools /\ x # None
  /\ \A x \in Torches : x \notin Blades /\ x \notin Pools
  /\ \A x \in Blades : x \notin Pools
  BY ToolAssumption DEF Items

\* A call that changes nothing and marks nothing.
LEMMA CallGoesUnmarked ==
  ASSUME ToolInv, NEW c \in Calls, NEW next, Goes(c, next), UNCHANGED World,
         DOMAIN next = DOMAIN NoCall, Held(next), next.at = "replied" => OneSided(next),
         call[c].at \notin {"replied", "unmarked"}, ~Marked(next),
         next.at = "toggling" => next.told = IF next.item \in lit THEN "dark" ELSE "lit"
  PROVE  ToolInv'
<1>1. lost' = lost \cup (IF Marked(next) THEN {next.item} ELSE {})
  BY DEF World
<1>2. next.at = "toggling" => next.told = IF next.item \in lit' THEN "dark" ELSE "lit"
  BY DEF World
<1>3. \A d \in Calls \ {c} : call[d].at = "toggling" =>
        d \in stale' \/ (d \notin stale /\ (call[d].item \in lit' <=> call[d].item \in lit))
  BY DEF World
<1>4. QED  BY <1>1, <1>2, <1>3, CallGoes DEF World

LEMMA FindKeeps ==
  ASSUME ToolInv, NEW c \in Calls, Resolve(c) \/ SendRoll(c) \/ Missing(c)
  PROVE  ToolInv'
<1>0. DOMAIN call[c] = CallFields /\ Held(call[c])
  BY NoCallFields DEF ToolInv, TypeOK
<1>1. PICK next : /\ Goes(c, next) /\ DOMAIN next = CallFields /\ UNCHANGED World
                  /\ next.at \in {"error", "sent", "rolling"} /\ next.reroll = None
                  /\ next.at = "rolling" => next.item = None
                  /\ call[c].at \notin {"replied", "unmarked"}
  <2>1. CASE Resolve(c)
    <3>1. PICK q, found :
            Goes(c, [call[c] EXCEPT !.at = IF found \in Errors THEN "error" ELSE "sent",
                                    !.query = q, !.item = found])
      BY <2>1 DEF Resolve
    <3> DEFINE next == [call[c] EXCEPT !.at = IF found \in Errors THEN "error" ELSE "sent",
                                      !.query = q, !.item = found]
    <3>2. /\ DOMAIN next = CallFields /\ next.at \in {"error", "sent"}
          /\ next.reroll = call[c].reroll
      BY <1>0 DEF CallFields
    <3>3. call[c].at = "none" /\ call[c].reroll = None /\ UNCHANGED World /\ Goes(c, next)
      BY <1>0, <2>1, <3>1 DEF Resolve, Held
    <3> HIDE DEF next
    <3>4. QED  BY <3>2, <3>3
  <2>2. CASE SendRoll(c)
    <3>1. PICK q : Goes(c, [call[c] EXCEPT !.at = "rolling", !.query = q])
      BY <2>2 DEF SendRoll
    <3> DEFINE next == [call[c] EXCEPT !.at = "rolling", !.query = q]
    <3>2. /\ DOMAIN next = CallFields /\ next.at = "rolling"
          /\ next.reroll = call[c].reroll /\ next.item = call[c].item
      BY <1>0 DEF CallFields
    <3>3. /\ call[c].at = "none" /\ call[c].reroll = None /\ call[c].item = None
          /\ UNCHANGED World /\ Goes(c, next)
      BY <1>0, <2>2, <3>1 DEF SendRoll, Held
    <3> HIDE DEF next
    <3>4. QED  BY <3>2, <3>3
  <2>3. CASE Missing(c)
    <3> DEFINE next == [call[c] EXCEPT !.at = "error", !.query = None]
    <3>1. DOMAIN next = CallFields /\ next.at = "error" /\ next.reroll = call[c].reroll
      BY <1>0 DEF CallFields
    <3>2. /\ Goes(c, next) /\ UNCHANGED World /\ call[c].at \in {"sent", "rolling"}
          /\ call[c].reroll = None
      BY <1>0, <2>3 DEF Missing, Held
    <3> HIDE DEF next
    <3>3. QED  BY <3>1, <3>2
  <2>4. QED  BY <2>1, <2>2, <2>3
<1>2. Held(next) /\ ~Marked(next) /\ next.at # "replied"
  BY <1>1 DEF Held, Marked, ToldLost
<1>3. QED  BY <1>1, <1>2, NoCallFields, CallGoesUnmarked

\* In the browser the item is one of the kind, or none for a roll.
LEMMA StartsWith ==
  ASSUME ToolInv, NEW c \in Calls, NEW kind, NEW next, Starts(c, kind, next) \/ Rolls(c, next),
         DOMAIN next = CallFields, next.item = call[c].item
  PROVE  \E new : /\ Goes(c, new) /\ UNCHANGED World /\ call[c].at \in {"sent", "rolling"}
                  /\ DOMAIN new = CallFields
                  /\ new.item \in kind \/ (Rolls(c, next) /\ new.item = None)
                  /\ new.at = next.at /\ new.told = next.told /\ new.dice = next.dice
                  /\ new.reroll = next.reroll /\ new.small = next.small
                  /\ new.hits = next.hits /\ new.first = next.first
                  /\ call[c].reroll = None
<1> DEFINE new == [next EXCEPT !.query = None]
<1>1. /\ DOMAIN new = CallFields /\ new.item = next.item
      /\ new.at = next.at /\ new.told = next.told /\ new.dice = next.dice
      /\ new.reroll = next.reroll /\ new.small = next.small
      /\ new.hits = next.hits /\ new.first = next.first
  BY DEF CallFields
<1>2. /\ Goes(c, new) /\ UNCHANGED World /\ call[c].at \in {"sent", "rolling"}
      /\ call[c].item \in kind \/ (Rolls(c, next) /\ call[c].at = "rolling")
  BY DEF Starts, Rolls
<1>3. call[c].reroll = None /\ (call[c].at = "rolling" => call[c].item = None)
  BY <1>2 DEF ToolInv, Held
<1> HIDE DEF new
<1>4. QED  BY <1>1, <1>2, <1>3

LEMMA BrowserKeeps ==
  ASSUME ToolInv, NEW c \in Calls,
         CastSpell(c) \/ ToggleLight(c) \/ Attack(c) \/ PlainRoll(c)
  PROVE  ToolInv'
<1>0. DOMAIN call[c] = CallFields /\ Held(call[c])
  BY NoCallFields DEF ToolInv, TypeOK
<1>1. ASSUME NEW kind, NEW stage, NEW told,
             LET next == [call[c] EXCEPT !.at = stage, !.told = told]
             IN \/ /\ Starts(c, kind, next)
                   /\ \/ kind = Spells /\ stage = "casting"
                      \/ /\ kind = Torches /\ stage = "toggling"
                         /\ told = IF call[c].item \in lit THEN "dark" ELSE "lit"
                      \/ kind = Blades /\ stage \in {"hitting", "replied"}
                \/ Rolls(c, next) /\ kind = {} /\ stage \in {"hitting", "replied"}
      PROVE  ToolInv'
  <2> DEFINE next == [call[c] EXCEPT !.at = stage, !.told = told]
  <2>1. /\ DOMAIN next = CallFields /\ next.item = call[c].item /\ next.at = stage
        /\ next.told = told /\ next.reroll = call[c].reroll
    BY <1>0 DEF CallFields
  <2>2. /\ Starts(c, kind, next) \/ Rolls(c, next)
        /\ \/ kind = Spells /\ stage = "casting" /\ Starts(c, kind, next)
           \/ /\ kind = Torches /\ stage = "toggling" /\ Starts(c, kind, next)
              /\ told = IF call[c].item \in lit THEN "dark" ELSE "lit"
           \/ kind \in {Blades, {}} /\ stage \in {"hitting", "replied"}
    BY <1>1
  <2>3. /\ Starts(c, kind, next) => call[c].at = "sent" /\ call[c].item \in kind
        /\ Rolls(c, next) => call[c].at = "rolling" /\ call[c].item = None
    BY <1>0 DEF Starts, Rolls, Held
  <2> DEFINE new == [next EXCEPT !.query = None]
  <2>4. /\ DOMAIN new = CallFields /\ new.item = call[c].item /\ new.at = stage
        /\ new.told = told /\ new.reroll = call[c].reroll
    BY <2>1 DEF CallFields
  <2>5. Goes(c, new) /\ UNCHANGED World /\ call[c].at \in {"sent", "rolling"}
    BY <2>2 DEF Starts, Rolls
  <2>6. new.reroll = None
    BY <1>0, <2>4, <2>5 DEF Held
  <2> HIDE DEF next, new
  <2>7. /\ new.item \in kind \/ new.item = None
        /\ stage \in {"casting", "toggling"} => new.item \in kind
    BY <2>2, <2>3, <2>4
  <2>8. told = (IF call[c].item \in lit THEN "dark" ELSE "lit") => told \in {"lit", "dark"}
    OBVIOUS
  <2>9. Held(new)
    BY <2>2, <2>4, <2>6, <2>7, <2>8 DEF Held
  <2>10. (new.at = "replied" => OneSided(new)) /\ ~Marked(new)
    BY <2>2, <2>4, <2>6, <2>7, KindsDiffer, ToolAssumption DEF OneSided, Marked, ToldLost
  <2>11. new.at = "toggling" => new.told = IF new.item \in lit THEN "dark" ELSE "lit"
    BY <2>2, <2>4
  <2>12. QED  BY <2>4, <2>5, <2>9, <2>10, <2>11, NoCallFields, CallGoesUnmarked
<1>2. CASE CastSpell(c)
  BY <1>1, <1>2 DEF CastSpell
<1>3. CASE ToggleLight(c)
  BY <1>1, <1>3 DEF ToggleLight, Burns, Other
<1>4. CASE Attack(c)
  <2>1. PICK at \in {"replied", "hitting"}, told \in {"cancelled", "fumble", "crit", "hit"} :
          \/ Starts(c, Blades, [call[c] EXCEPT !.at = at, !.told = told])
          \/ Rolls(c, [call[c] EXCEPT !.at = at, !.told = told])
    BY <1>4 DEF Attack
  <2>2. QED  BY <1>1, <2>1
<1>5. CASE PlainRoll(c)
  BY <1>1, <1>5 DEF PlainRoll
<1>6. QED  BY <1>2, <1>3, <1>4, <1>5

\* A call goes from one stage to another, and holds what it held.
LEMMA StageKeeps ==
  ASSUME ToolInv, NEW c \in Calls, call[c].at \in {"casting", "toggling", "hitting"},
         UNCHANGED <<name, there>>,
         NEW stage \in {"error", "unmarked", "replied"},
         Goes(c, [call[c] EXCEPT !.at = stage]),
         \A d \in Calls \ {c} : call[d].at = "toggling" =>
           d \in stale' \/ (d \notin stale /\ (call[d].item \in lit' <=> call[d].item \in lit)),
         lost' = lost \cup (IF /\ stage = "replied" /\ call[c].item \in Spells
                              /\ call[c].told \in {"fumble", "fail"}
                           THEN {call[c].item} ELSE {})
  PROVE  ToolInv'
<1> DEFINE next == [call[c] EXCEPT !.at = stage]
<1>1. /\ DOMAIN next = DOMAIN NoCall /\ next.item = call[c].item /\ next.told = call[c].told
      /\ next.at = stage /\ next.reroll = call[c].reroll
  BY NoCallFields DEF ToolInv, TypeOK, CallFields
<1>2. Goes(c, next) /\ call[c].reroll = None
  BY DEF ToolInv, Held
<1> HIDE DEF next
<1>3. Held(next) /\ (next.at = "replied" => OneSided(next)) /\ next.at # "toggling"
  BY <1>1, <1>2, ToolAssumption DEF Held, OneSided
<1>4. lost' = lost \cup (IF Marked(next) THEN {next.item} ELSE {})
  BY <1>1 DEF Marked, ToldLost
<1>5. QED  BY <1>1, <1>2, <1>3, <1>4, CallGoes

\* Whoever has looked at a torch that is changed is stale, but for the one that
\* changes it.
LEMMA OthersAreStale ==
  ASSUME NEW i, NEW by, Overtaken(i, by), \A x : x # i => (x \in lit' <=> x \in lit)
  PROVE  \A d \in Calls \ by : call[d].at = "toggling" =>
           d \in stale' \/ (d \notin stale /\ (call[d].item \in lit' <=> call[d].item \in lit))
  BY DEF Overtaken

LEMMA EffectKeeps ==
  ASSUME ToolInv, NEW c \in Calls,
         \/ SpellMarked(c) \/ SpellNotMarked(c) \/ LightToggled(c) \/ LightFails(c)
         \/ DamageRolled(c)
  PROVE  ToolInv'
<1>0. Held(call[c])
  BY DEF ToolInv
<1>1. CASE SpellMarked(c)
  BY <1>0, <1>1, StageKeeps DEF SpellMarked, Held
<1>2. CASE SpellNotMarked(c)
  BY <1>0, <1>2, StageKeeps DEF SpellNotMarked, Held, World
<1>3. CASE LightToggled(c)
  <2>1. \A x : x # call[c].item => (x \in lit' <=> x \in lit)
    BY <1>3 DEF LightToggled
  <2>2. Overtaken(call[c].item, {c})
    BY <1>3 DEF LightToggled
  <2>3. \A d \in Calls \ {c} : call[d].at = "toggling" =>
          d \in stale' \/ (d \notin stale /\ (call[d].item \in lit' <=> call[d].item \in lit))
    BY <2>1, <2>2, OthersAreStale
  <2>4. call[c].at = "toggling" /\ call[c].item \notin Spells
    BY <1>0, <1>3, KindsDiffer DEF LightToggled, Held
  <2>5. QED  BY <1>3, <2>3, <2>4, StageKeeps DEF LightToggled
<1>4. CASE LightFails(c)
  BY <1>0, <1>4, StageKeeps DEF LightFails, Held, World
<1>5. CASE DamageRolled(c)
  BY <1>0, <1>5, StageKeeps, KindsDiffer DEF DamageRolled, Held, World
<1>6. QED  BY <1>1, <1>2, <1>3, <1>4, <1>5

-----------------------------------------------------------------------------
(* The pools of The Old World *)

LEMMA SuccessesOf ==
  ASSUME NEW old, NEW new, DOMAIN new = DOMAIN old, IsFiniteSet(DOMAIN old),
         \A n \in DOMAIN old : old[n] <= Skill => new[n] <= Skill
  PROVE  /\ Successes(old) \in Nat /\ Successes(new) \in Nat
         /\ Successes(old) <= Successes(new)
<1> DEFINE good(dice) == {n \in DOMAIN dice : dice[n] <= Skill}
<1>1. good(old) \subseteq good(new) /\ good(new) \subseteq DOMAIN old
  OBVIOUS
<1>2. IsFiniteSet(good(new)) /\ IsFiniteSet(good(old))
  BY <1>1, FS_Subset
<1>3. Cardinality(good(old)) <= Cardinality(good(new))
  BY <1>1, <1>2, FS_Subset
<1>4. QED  BY <1>2, <1>3, FS_CardinalityType DEF Successes

LEMMA OfTwo ==
  ASSUME NEW x \in Int, NEW y \in Int
  PROVE  Max({x, y}) \in {x, y} /\ Min({x, y}) \in {x, y}
<1>1. CASE x <= y
  <2>1. y \in {x, y} /\ (\A z \in {x, y} : y >= z) /\ x \in {x, y} /\ (\A z \in {x, y} : x <= z)
    BY <1>1
  <2>2. QED  BY <2>1 DEF Max, Min
<1>2. CASE y <= x
  <2>1. x \in {x, y} /\ (\A z \in {x, y} : x >= z) /\ y \in {x, y} /\ (\A z \in {x, y} : y <= z)
    BY <1>2
  <2>2. QED  BY <2>1 DEF Max, Min
<1>3. QED  BY <1>1, <1>2

LEMMA OfTwoBounds ==
  ASSUME NEW x \in Nat, NEW y \in Nat
  PROVE  /\ Max({x, y}) \in Nat /\ x <= Max({x, y}) /\ y <= Max({x, y})
         /\ Min({x, y}) \in Nat /\ Min({x, y}) <= x /\ Min({x, y}) <= y
<1>1. CASE x <= y
  <2>1. y \in {x, y} /\ (\A z \in {x, y} : y >= z) /\ x \in {x, y} /\ (\A z \in {x, y} : x <= z)
    BY <1>1
  <2>2. QED  BY <1>1, <2>1 DEF Max, Min
<1>2. CASE y <= x
  <2>1. x \in {x, y} /\ (\A z \in {x, y} : x >= z) /\ y \in {x, y} /\ (\A z \in {x, y} : y <= z)
    BY <1>2
  <2>2. QED  BY <1>2, <2>1 DEF Max, Min
<1>3. QED  BY <1>1, <1>2

LEMMA PoolKeeps ==
  ASSUME ToolInv, NEW c \in Calls, RunTest(c)
  PROVE  ToolInv'
<1>0. DOMAIN call[c] = CallFields
  BY NoCallFields DEF ToolInv, TypeOK
<1> DEFINE Pooled(dice, reroll, pool) ==
             [call[c] EXCEPT
               !.at = "pool", !.dice = dice, !.reroll = reroll, !.small = pool < 1,
               !.hits = Successes(dice),
               !.first = IF pool < 1 THEN (IF dice[1] = 1 THEN 1 ELSE 0) ELSE Successes(dice)]
<1>r. PICK reroll \in {"grim", "glorious", "neither"}, pool \in Int :
        \E dice \in Faces(Max({pool, 1})) :
          Starts(c, Pools, Pooled(dice, reroll, pool)) \/ Rolls(c, Pooled(dice, reroll, pool))
  <2>1. \A bonus, penalty \in 0..1 : Max({0, Min({Char + bonus - penalty, 2 * Char})}) \in Int
    <3> TAKE bonus, penalty \in 0..1
    <3>1. Char + bonus - penalty \in Int /\ 2 * Char \in Int
      BY ToolAssumption
    <3>2. Min({Char + bonus - penalty, 2 * Char}) \in Int
      BY <3>1, OfTwo
    <3> DEFINE least == Min({Char + bonus - penalty, 2 * Char})
    <3>3. Max({0, least}) \in {0, least}
      <4> HIDE DEF least
      <4>1. least \in Int /\ 0 \in Int
        BY <3>2 DEF least
      <4>2. QED  BY <4>1, OfTwo
    <3>4. QED  BY <3>2, <3>3
  <2>2. PICK bonus \in 0..1, penalty \in 0..1, reroll \in {"grim", "glorious", "neither"} :
          LET pool == Max({0, Min({Char + bonus - penalty, 2 * Char})})
          IN \E dice \in Faces(Max({pool, 1})) :
               Starts(c, Pools, Pooled(dice, reroll, pool)) \/ Rolls(c, Pooled(dice, reroll, pool))
    BY DEF RunTest
  <2> DEFINE pool == Max({0, Min({Char + bonus - penalty, 2 * Char})})
  <2>3. pool \in Int
    BY <2>1
  <2>4. \E dice \in Faces(Max({pool, 1})) :
          Starts(c, Pools, Pooled(dice, reroll, pool)) \/ Rolls(c, Pooled(dice, reroll, pool))
    BY <2>2
  <2> HIDE DEF pool, Pooled
  <2>5. QED  BY <2>3, <2>4
<1>1. PICK dice \in Faces(Max({pool, 1})) :
        Starts(c, Pools, Pooled(dice, reroll, pool)) \/ Rolls(c, Pooled(dice, reroll, pool))
  BY <1>r
<1>d. IsFiniteSet(DOMAIN dice) /\ (\A n \in DOMAIN dice : dice[n] \in D10) /\ Successes(dice) \in Nat
  <2>1. dice \in [1..Max({pool, 1}) -> D10]
    BY <1>1 DEF Faces
  <2>2. Max({pool, 1}) \in Int
    BY OfTwo
  <2>3. IsFiniteSet(1..Max({pool, 1}))
    BY <2>2, FS_Interval
  <2>4. QED  BY <2>1, <2>3, SuccessesOf
<1> DEFINE next == Pooled(dice, reroll, pool)
<1>2. /\ DOMAIN next = CallFields /\ next.item = call[c].item /\ next.at = "pool"
      /\ next.dice = dice /\ next.reroll = reroll /\ next.hits = Successes(dice)
      /\ next.first \in Nat
      /\ ~next.small => next.first = next.hits
  BY <1>0, <1>d DEF CallFields
<1>3. Starts(c, Pools, next) \/ Rolls(c, next)
  BY <1>1
<1> HIDE DEF next
<1>4. PICK new : /\ Goes(c, new) /\ UNCHANGED World /\ call[c].at \in {"sent", "rolling"}
                 /\ DOMAIN new = CallFields /\ new.item \in Pools \cup {None} /\ new.at = "pool"
                 /\ new.dice = dice /\ new.reroll = reroll /\ new.hits = Successes(dice)
                 /\ new.first \in Nat /\ (~new.small => new.first = new.hits)
  BY <1>2, <1>3, StartsWith
<1>5. Held(new) /\ ~Marked(new)
  BY <1>4, <1>d DEF Held, Marked, ToldLost
<1>6. QED  BY <1>4, <1>5, NoCallFields, CallGoesUnmarked

LEMMA RerollKeeps ==
  ASSUME ToolInv, NEW c \in Calls, Reroll(c)
  PROVE  ToolInv'
<1> DEFINE dice == call[c].dice
           again == ToReroll(dice, call[c].reroll)
           new(faces) == [n \in DOMAIN dice |-> IF n \in again THEN faces[n] ELSE dice[n]]
<1>0. /\ DOMAIN call[c] = CallFields /\ call[c].at = "pool" /\ call[c].item \in Pools \cup {None}
      /\ call[c].reroll \in {"grim", "glorious", "neither"}
      /\ IsFiniteSet(DOMAIN dice) /\ \A n \in DOMAIN dice : dice[n] \in D10
      /\ call[c].hits = Successes(dice) /\ call[c].first \in Nat
      /\ ~call[c].small => call[c].first = call[c].hits
      /\ UNCHANGED World
  BY NoCallFields DEF ToolInv, TypeOK, Held, Reroll
<1>1. PICK faces \in [again -> D10] :
        Goes(c, [call[c] EXCEPT
               !.at = "replied", !.dice = new(faces),
               !.last = IF again = {} THEN call[c].first ELSE Successes(new(faces))])
  BY DEF Reroll
<1> DEFINE next == [call[c] EXCEPT
               !.at = "replied", !.dice = new(faces),
               !.last = IF again = {} THEN call[c].first ELSE Successes(new(faces))]
<1>2. /\ DOMAIN next = CallFields /\ next.item = call[c].item /\ next.at = "replied"
      /\ next.reroll = call[c].reroll /\ next.small = call[c].small
      /\ next.first = call[c].first /\ next.hits = call[c].hits
      /\ next.last = IF again = {} THEN call[c].first ELSE Successes(new(faces))
  BY <1>0 DEF CallFields
<1>3. Goes(c, next)
  BY <1>1
<1> HIDE DEF next
<1>4. /\ Skill \in Nat
      /\ \A n \in DOMAIN dice : dice[n] \in Int
  <2>1. D10 \subseteq 1..10 /\ Skill \in Nat
    BY ToolAssumption
  <2>2. \A x \in D10 : x \in Int
    BY <2>1
  <2>3. \A n \in DOMAIN dice : dice[n] \in Int
    BY <1>0, <2>2
  <2>4. QED  BY <2>1, <2>3
<1>5. DOMAIN new(faces) = DOMAIN dice
  OBVIOUS
<1>6. Successes(dice) \in Nat
  BY <1>0, SuccessesOf
<1> DEFINE rolled == Successes(new(faces))
<1>7. /\ call[c].reroll = "grim" => rolled \in Nat /\ rolled <= next.hits
      /\ call[c].reroll = "glorious" => rolled \in Nat /\ rolled >= next.hits
  <2>1. CASE call[c].reroll = "grim"
    <3>1. again = {n \in DOMAIN dice : dice[n] <= Skill}
      BY <2>1 DEF ToReroll
    <3>2. \A n \in DOMAIN dice : new(faces)[n] <= Skill => dice[n] <= Skill
      BY <3>1
    <3>3. IsFiniteSet(DOMAIN new(faces))
      BY <1>0, <1>5
    <3> HIDE DEF new, dice, again
    <3>4. Successes(new(faces)) <= Successes(dice) /\ Successes(new(faces)) \in Nat
      BY <1>0, <1>5, <3>2, <3>3, SuccessesOf
    <3>5. QED  BY <1>0, <1>2, <2>1, <3>4
  <2>2. CASE call[c].reroll = "glorious"
    <3>1. again = {n \in DOMAIN dice : dice[n] > Skill}
      BY <1>4, <2>2 DEF ToReroll
    <3>2. \A n \in DOMAIN dice : dice[n] <= Skill => new(faces)[n] <= Skill
      BY <1>4, <3>1
    <3> HIDE DEF new, dice, again
    <3>3. Successes(dice) <= Successes(new(faces)) /\ Successes(new(faces)) \in Nat
      BY <1>0, <1>5, <3>2, SuccessesOf
    <3>4. QED  BY <1>0, <1>2, <1>6, <2>2, <3>3
  <2>3. QED  BY <1>0, <2>1, <2>2
<1>8. call[c].reroll = "neither" => next.last = next.first
  BY <1>2 DEF ToReroll
<1>9. next.hits \in Nat /\ next.first \in Nat /\ (~next.small => next.first = next.hits)
  BY <1>0, <1>2, <1>6
<1>10. next.last = next.first \/ next.last = rolled
  BY <1>2
<1> HIDE DEF rolled
<1>11. OneSided(next)
  <2>1. /\ Max({next.first, next.hits}) \in Nat
        /\ next.first <= Max({next.first, next.hits}) /\ next.hits <= Max({next.first, next.hits})
        /\ Min({next.first, next.hits}) \in Nat
        /\ Min({next.first, next.hits}) <= next.first /\ Min({next.first, next.hits}) <= next.hits
    BY <1>9, OfTwoBounds
  <2>2. CASE next.reroll = "grim"
    BY <1>2, <1>7, <1>9, <1>10, <2>1, <2>2 DEF OneSided
  <2>3. CASE next.reroll = "glorious"
    BY <1>2, <1>7, <1>9, <1>10, <2>1, <2>3 DEF OneSided
  <2>4. CASE next.reroll = "neither"
    BY <1>2, <1>8, <2>4 DEF OneSided
  <2>5. QED  BY <1>0, <1>2, <2>2, <2>3, <2>4
<1>12. Held(next) /\ ~Marked(next)
  BY <1>0, <1>2, KindsDiffer DEF Held, Marked, ToldLost
<1>13. QED  BY <1>0, <1>2, <1>3, <1>11, <1>12, NoCallFields, CallGoesUnmarked

-----------------------------------------------------------------------------
LEMMA ToolStep == ToolInv /\ [Next]_vars => ToolInv'
<1> SUFFICES ASSUME ToolInv, [Next]_vars PROVE ToolInv'
  OBVIOUS
<1>1. ASSUME NEW c \in Calls, Resolve(c) \/ SendRoll(c) \/ Missing(c) PROVE ToolInv'
  BY <1>1, FindKeeps
<1>2. ASSUME NEW c \in Calls, CastSpell(c) \/ ToggleLight(c) \/ Attack(c) \/ PlainRoll(c)
      PROVE ToolInv'
  BY <1>2, BrowserKeeps
<1>3. ASSUME NEW c \in Calls, \/ SpellMarked(c) \/ SpellNotMarked(c) \/ LightToggled(c)
                              \/ LightFails(c) \/ DamageRolled(c)
      PROVE ToolInv'
  BY <1>3, EffectKeeps
<1>4. ASSUME NEW c \in Calls, RunTest(c) PROVE ToolInv'
  BY <1>4, PoolKeeps
<1>5. ASSUME NEW c \in Calls, Reroll(c) PROVE ToolInv'
  BY <1>5, RerollKeeps
<1>6. ASSUME NEW i \in Items, Taken(i) PROVE ToolInv'
  <2>1. UNCHANGED <<name, lost, lit, call, stale>> /\ there' \subseteq there
    BY <1>6 DEF Taken
  <2>2. QED  BY <2>1 DEF ToolInv, TypeOK, Seen, LostAsTold, RerollsAreOneSided
<1>7. ASSUME NEW i \in Items, ByHand(i) PROVE ToolInv'
  <2>1. UNCHANGED <<name, there, lost, call>>
    BY <1>7 DEF ByHand
  <2>2. \A d \in Calls : call[d].at = "toggling" =>
          d \in stale' \/ (d \notin stale /\ (call[d].item \in lit' <=> call[d].item \in lit))
    <3>1. Overtaken(i, {}) /\ \A x : x # i => (x \in lit' <=> x \in lit)
      BY <1>7 DEF ByHand
    <3>2. QED  BY <3>1, OthersAreStale
  <2>3. Seen'
    BY <2>1, <2>2 DEF ToolInv, Seen
  <2>4. QED  BY <2>1, <2>3 DEF ToolInv, TypeOK, LostAsTold, RerollsAreOneSided
<1>8. CASE UNCHANGED vars
  BY <1>8 DEF vars, ToolInv, TypeOK, Seen, LostAsTold, RerollsAreOneSided
<1>9. QED  BY <1>1, <1>2, <1>3, <1>4, <1>5, <1>6, <1>7, <1>8 DEF Next

\* A call holds what its stage needs, whatever other calls do and whatever is
\* taken from the actor meanwhile.
THEOREM ToolInvariant == ToolSpec => []ToolInv
  BY ToolStart, ToolStep, PTL DEF ToolSpec

\* The spells marked as lost are those of the casts told to have failed whose
\* update was not refused, however casts overlap.
THEOREM LostSpells == ToolSpec => []LostAsTold
<1>1. ToolInv => LostAsTold
  BY DEF ToolInv
<1>2. QED  BY <1>1, ToolInvariant, PTL

\* Grim never adds to the first throw, glorious never takes from it, for any
\* characteristic, skill and dice; an empty pool is bounded by the skill as well.
THEOREM OneSidedRerolls == ToolSpec => []RerollsAreOneSided
<1>1. ToolInv => RerollsAreOneSided
  BY DEF ToolInv
<1>2. QED  BY <1>1, ToolInvariant, PTL

\* A torch ends up as the reply says when nobody changed it since it was looked
\* at, by either way of toggling it: what the reply says is still the opposite
\* of what the torch is.
THEOREM LightIsAsTold == ToolSpec => LightAsTold
<1> DEFINE Told == \A c \in Calls : LightToggled(c) /\ c \notin stale =>
                     (call[c].item \in lit') = (call[c].told = "lit")
<1>1. ASSUME ToolInv, NEW c \in Calls, LightToggled(c), c \notin stale
      PROVE  (call[c].item \in lit') = (call[c].told = "lit")
  <2>1. call[c].told = IF call[c].item \in lit THEN "dark" ELSE "lit"
    BY <1>1 DEF ToolInv, Seen, LightToggled
  <2>2. CASE call[c].item \in lit
    BY <1>1, <2>1, <2>2 DEF LightToggled
  <2>3. CASE call[c].item \notin lit
    BY <1>1, <2>1, <2>3 DEF LightToggled
  <2>4. QED  BY <2>2, <2>3
<1>2. ToolInv /\ [Next]_vars => [Told]_vars
  BY <1>1
<1>3. QED  BY <1>2, ToolStart, ToolStep, PTL DEF ToolSpec, LightAsTold
-----------------------------------------------------------------------------
(* Counting *)

\* A set of numbers that has zero and with each number the next has all numbers.
LEMMA CountsUp ==
  ASSUME NEW N \in Nat, NEW S, 0 \in S, \A n \in 1..N : n - 1 \in S => n \in S
  PROVE  \A n \in 0..N : n \in S
<1> DEFINE Bad == {n \in 0..N : n \notin S}
<1>1. SUFFICES ASSUME Bad # {}
               PROVE  FALSE
  OBVIOUS
<1>2. PICK m \in Bad : \A y \in Bad : <<y, m>> \notin OpToRel(<, Nat)
  <2>1. Bad \in SUBSET Nat
    OBVIOUS
  <2> HIDE DEF Bad
  <2>2. QED  BY <1>1, <2>1, NatLessThanWellFounded, WFMin
<1>3. m \in Nat /\ m \in 0..N /\ m \notin S
  <2>1. m \in 0..N /\ m \notin S
    OBVIOUS
  <2>2. QED  BY <2>1
<1>4. m # 0
  BY <1>3
<1>5. m - 1 \in 0..N /\ m \in 1..N /\ m - 1 \in Nat /\ m - 1 < m
  BY <1>3, <1>4
<1>6. m - 1 \notin Bad
  <2>1. \A y \in Bad : ~(y \in Nat /\ m \in Nat /\ y < m)
    BY <1>2 DEF OpToRel
  <2>2. QED  BY <1>3, <1>5, <2>1
<1>7. QED  BY <1>3, <1>5, <1>6

-----------------------------------------------------------------------------
(* The edit distance *)

\* The least of a set of numbers.
LEMMA MinIs ==
  ASSUME NEW S, S \subseteq Int, NEW x \in S, \A y \in S : x <= y
  PROVE  Min(S) = x
<1>1. Min(S) \in S /\ \A y \in S : Min(S) <= y
  BY DEF Min
<1>2. Min(S) \in Int /\ x \in Int /\ Min(S) <= x /\ x <= Min(S)
  BY <1>1
<1>3. QED  BY <1>2

LEMMA MinExists ==
  ASSUME NEW S, S \subseteq Nat, S # {}
  PROVE  Min(S) \in S /\ \A y \in S : Min(S) <= y
<1>1. PICK x \in S : \A y \in S : <<y, x>> \notin OpToRel(<, Nat)
  BY NatLessThanWellFounded, WFMin
<1>2. \A y \in S : ~(y \in Nat /\ x \in Nat /\ y < x)
  BY <1>1 DEF OpToRel
<1>3. \A y \in S : x <= y
  <2> TAKE y \in S
  <2>1. y \in Nat /\ x \in Nat
    OBVIOUS
  <2>2. QED  BY <1>2, <2>1
<1>4. QED  BY <1>3 DEF Min

\* An increasing choice of k positions among n goes up at least one by one.
LEMMA IncreasingGrows ==
  ASSUME NEW k \in Nat, NEW n \in Nat, NEW f \in Increasing(k, n)
  PROVE  /\ \A h \in 1..k : f[h] \in Int /\ h <= f[h] /\ f[h] <= n
         /\ k <= n
<1>1. \A h \in 1..k : f[h] \in 1..n
  BY DEF Increasing
<1> DEFINE S == {h \in 0..k : h = 0 \/ h <= f[h]}
<1>2. 0 \in S
  OBVIOUS
<1>3. ASSUME NEW h \in 1..k, h - 1 \in S
      PROVE  h \in S
  <2>1. CASE h = 1
    BY <1>1, <2>1
  <2>2. CASE h # 1
    <3>1. h - 1 \in 1..k /\ h - 1 < h
      BY <2>2
    <3>2. f[h - 1] < f[h] /\ h - 1 <= f[h - 1]
      BY <1>3, <2>2, <3>1 DEF Increasing
    <3>3. QED  BY <1>1, <3>1, <3>2
  <2>3. QED  BY <2>1, <2>2
<1>4. \A h \in 0..k : h \in S
  <2> HIDE DEF S
  <2>1. \A h \in 1..k : h - 1 \in S => h \in S
    BY <1>3
  <2>2. QED  BY <1>2, <2>1, CountsUp, Zenon
<1>5. \A h \in 1..k : h <= f[h]
  <2> TAKE h \in 1..k
  <2>1. h \in 0..k /\ h # 0
    OBVIOUS
  <2>2. QED  BY <1>4, <2>1
<1>6. k <= n
  <2>1. CASE k = 0
    BY <2>1
  <2>2. CASE k # 0
    <3>1. k \in 1..k
      BY <2>2
    <3>2. QED  BY <1>1, <1>5, <3>1
  <2>3. QED  BY <2>1, <2>2
<1>7. QED  BY <1>1, <1>5, <1>6

\* The positions that are matched with a letter that differs.
Differing(a, b, k, f, g) == {h \in 1..k : a[f[h]] # b[g[h]]}

LEMMA DifferingIsFinite ==
  ASSUME NEW a, NEW b, NEW k \in Nat, NEW f, NEW g
  PROVE  /\ IsFiniteSet(Differing(a, b, k, f, g))
         /\ Cardinality(Differing(a, b, k, f, g)) \in Nat
         /\ Cardinality(Differing(a, b, k, f, g)) <= k
<1>1. IsFiniteSet(1..k) /\ Cardinality(1..k) = k
  BY FS_Interval
<1>2. Differing(a, b, k, f, g) \subseteq 1..k
  BY DEF Differing
<1>3. QED  BY <1>1, <1>2, FS_Subset, FS_CardinalityType

\* An alignment taken apart and put together.
LEMMA AlignedBy ==
  ASSUME NEW a, NEW b, NEW m \in Nat, NEW n \in Nat, NEW k \in Nat,
         NEW f \in Increasing(k, m), NEW g \in Increasing(k, n)
  PROVE  Aligned(a, b, m, n, m + n - 2 * k + Cardinality(Differing(a, b, k, f, g)))
<1>1. k \in 0..m
  BY IncreasingGrows
<1>2. QED  BY <1>1 DEF Aligned, Differing

LEMMA AlignedParts ==
  ASSUME NEW a, NEW b, NEW m \in Nat, NEW n \in Nat, NEW c, Aligned(a, b, m, n, c)
  PROVE  \E k \in Nat : \E f \in Increasing(k, m), g \in Increasing(k, n) :
           /\ c = m + n - 2 * k + Cardinality(Differing(a, b, k, f, g))
           /\ k <= m /\ k <= n /\ c \in 0..m + n
<1>0. PICK k \in 0..m : \E f \in Increasing(k, m), g \in Increasing(k, n) :
        c = m + n - 2 * k + Cardinality({h \in 1..k : a[f[h]] # b[g[h]]})
  BY DEF Aligned
<1>1. PICK f \in Increasing(k, m), g \in Increasing(k, n) :
        c = m + n - 2 * k + Cardinality({h \in 1..k : a[f[h]] # b[g[h]]})
  BY <1>0
<1>2. k \in Nat
  OBVIOUS
<1>3. k <= m /\ k <= n
  BY <1>2, IncreasingGrows
<1>4. Cardinality(Differing(a, b, k, f, g)) \in 0..k
  BY <1>2, DifferingIsFinite
<1>5. c = m + n - 2 * k + Cardinality(Differing(a, b, k, f, g))
  BY <1>1 DEF Differing
<1>6. c \in 0..m + n
  BY <1>2, <1>3, <1>4, <1>5
<1>7. QED  BY <1>2, <1>3, <1>5, <1>6

LEMMA MoreRoom ==
  ASSUME NEW k \in Nat, NEW n \in Nat, NEW f \in Increasing(k, n)
  PROVE  f \in Increasing(k, n + 1)
  BY DEF Increasing

\* A letter of either name that is left out costs one edit.
LEMMA AlignedSkips ==
  ASSUME NEW a, NEW b, NEW m \in Nat, NEW n \in Nat, NEW c, Aligned(a, b, m, n, c)
  PROVE  Aligned(a, b, m + 1, n, c + 1) /\ Aligned(a, b, m, n + 1, c + 1)
<1>1. PICK k \in Nat : \E f \in Increasing(k, m), g \in Increasing(k, n) :
        c = m + n - 2 * k + Cardinality(Differing(a, b, k, f, g))
  BY AlignedParts
<1>2. PICK f \in Increasing(k, m), g \in Increasing(k, n) :
        c = m + n - 2 * k + Cardinality(Differing(a, b, k, f, g))
  BY <1>1
<1> DEFINE x == Cardinality(Differing(a, b, k, f, g))
<1>3. x \in Nat
  BY DifferingIsFinite
<1>4. f \in Increasing(k, m + 1) /\ g \in Increasing(k, n + 1) /\ m + 1 \in Nat /\ n + 1 \in Nat
  BY MoreRoom
<1>5. Aligned(a, b, m + 1, n, (m + 1) + n - 2 * k + x) /\ Aligned(a, b, m, n + 1, m + (n + 1) - 2 * k + x)
  BY <1>4, AlignedBy
<1>6. (m + 1) + n - 2 * k + x = c + 1 /\ m + (n + 1) - 2 * k + x = c + 1
  <2> HIDE DEF x
  <2>1. c = m + n - 2 * k + x
    BY <1>2 DEF x
  <2>2. QED  BY <1>3, <2>1
<1>7. QED  BY <1>5, <1>6

\* The next letters of both may be matched, at no cost if they are the same.
Cost(a, b, m, n) == IF a[m] = b[n] THEN 0 ELSE 1

LEMMA DifferingOneMore ==
  ASSUME NEW a, NEW b, NEW k \in Nat, NEW f, NEW g
  PROVE  Cardinality(Differing(a, b, k + 1, f, g))
           = Cardinality(Differing(a, b, k, f, g)) + Cost(a, b, f[k + 1], g[k + 1])
<1> DEFINE D == Differing(a, b, k, f, g)
           E == Differing(a, b, k + 1, f, g)
<1>1. IsFiniteSet(D) /\ Cardinality(D) \in Nat /\ k + 1 \notin D
  <2>1. k + 1 \notin 1..k
    OBVIOUS
  <2>2. k + 1 \notin D
    BY <2>1 DEF Differing
  <2>3. QED  BY <2>2, DifferingIsFinite
<1>2. 1..(k + 1) = (1..k) \cup {k + 1}
  OBVIOUS
<1>3. CASE a[f[k + 1]] = b[g[k + 1]]
  <2>1. E = D
    BY <1>2, <1>3 DEF Differing
  <2>2. QED  BY <1>1, <1>3, <2>1 DEF Cost
<1>4. CASE a[f[k + 1]] # b[g[k + 1]]
  <2>1. E = D \cup {k + 1}
    BY <1>2, <1>4 DEF Differing
  <2>2. Cardinality(E) = Cardinality(D) + 1
    BY <1>1, <2>1, FS_AddElement
  <2>3. QED  BY <1>4, <2>2 DEF Cost
<1>5. QED  BY <1>3, <1>4

LEMMA DifferingSame ==
  ASSUME NEW a, NEW b, NEW k \in Nat, NEW f, NEW g, NEW d, NEW e,
         \A h \in 1..k : d[h] = f[h] /\ e[h] = g[h]
  PROVE  Differing(a, b, k, d, e) = Differing(a, b, k, f, g)
  BY DEF Differing

LEMMA IncreasingFurther ==
  ASSUME NEW k \in Nat, NEW n \in Nat, NEW f \in Increasing(k, n)
  PROVE  \E d \in Increasing(k + 1, n + 1) : d[k + 1] = n + 1 /\ \A h \in 1..k : d[h] = f[h]
<1> DEFINE d == [h \in 1..(k + 1) |-> IF h = k + 1 THEN n + 1 ELSE f[h]]
<1>1. \A h \in 1..k : h \in 1..(k + 1) /\ h # k + 1 /\ f[h] \in 1..n
  BY DEF Increasing
<1>2. d[k + 1] = n + 1 /\ \A h \in 1..k : d[h] = f[h]
  BY <1>1
<1>3. \A h \in 1..(k + 1) : h \in 1..k \/ h = k + 1
  OBVIOUS
<1>4. d \in [1..(k + 1) -> 1..(n + 1)]
  BY <1>1, <1>3
<1> HIDE DEF d
<1>5. ASSUME NEW i \in 1..(k + 1), NEW j \in 1..(k + 1), i < j
      PROVE  d[i] < d[j]
  <2>1. i \in 1..k
    BY <1>5
  <2>2. CASE j = k + 1
    BY <1>1, <1>2, <2>1, <2>2
  <2>3. CASE j \in 1..k
    BY <1>2, <1>5, <2>1, <2>3 DEF Increasing
  <2>4. QED  BY <1>3, <2>2, <2>3
<1>6. d \in Increasing(k + 1, n + 1)
  BY <1>4, <1>5 DEF Increasing
<1>7. QED  BY <1>2, <1>6

LEMMA AlignedMatches ==
  ASSUME NEW a, NEW b, NEW m \in Nat, NEW n \in Nat, NEW c, Aligned(a, b, m, n, c)
  PROVE  Aligned(a, b, m + 1, n + 1, c + Cost(a, b, m + 1, n + 1))
<1>1. PICK k \in Nat : \E f \in Increasing(k, m), g \in Increasing(k, n) :
        c = m + n - 2 * k + Cardinality(Differing(a, b, k, f, g))
  BY AlignedParts
<1>2. PICK f \in Increasing(k, m), g \in Increasing(k, n) :
        c = m + n - 2 * k + Cardinality(Differing(a, b, k, f, g))
  BY <1>1
<1>3. PICK d \in Increasing(k + 1, m + 1) : d[k + 1] = m + 1 /\ \A h \in 1..k : d[h] = f[h]
  BY IncreasingFurther
<1>4. PICK e \in Increasing(k + 1, n + 1) : e[k + 1] = n + 1 /\ \A h \in 1..k : e[h] = g[h]
  BY IncreasingFurther
<1> DEFINE x == Cardinality(Differing(a, b, k, f, g))
           y == Cardinality(Differing(a, b, k + 1, d, e))
<1>5. y = Cardinality(Differing(a, b, k, d, e)) + Cost(a, b, m + 1, n + 1)
  BY <1>3, <1>4, DifferingOneMore
<1>6. y = x + Cost(a, b, m + 1, n + 1) /\ x \in Nat
  <2>1. Differing(a, b, k, d, e) = Differing(a, b, k, f, g)
    BY <1>3, <1>4, DifferingSame
  <2>2. QED  BY <1>5, <2>1, DifferingIsFinite
<1>7. Aligned(a, b, m + 1, n + 1, (m + 1) + (n + 1) - 2 * (k + 1) + y)
  <2>1. m + 1 \in Nat /\ n + 1 \in Nat /\ k + 1 \in Nat
    OBVIOUS
  <2>2. QED  BY <2>1, AlignedBy
<1>8. (m + 1) + (n + 1) - 2 * (k + 1) + y = c + Cost(a, b, m + 1, n + 1)
  <2>1. c = m + n - 2 * k + x /\ Cost(a, b, m + 1, n + 1) \in Nat
    BY <1>2 DEF Cost
  <2> HIDE DEF x, y
  <2>2. QED  BY <1>6, <2>1
<1>9. QED  BY <1>7, <1>8

\* Seen from the end, an alignment does without one last letter or with neither.
LEMMA ShorterBy ==
  ASSUME NEW k \in Nat, NEW n \in Nat, NEW f \in Increasing(k, n), n # 0, k = 0 \/ f[k] # n
  PROVE  f \in Increasing(k, n - 1)
<1>1. f \in [1..k -> 1..n] /\ \A i, j \in 1..k : i < j => f[i] < f[j]
  BY DEF Increasing
<1>2. ASSUME NEW h \in 1..k
      PROVE  f[h] \in 1..(n - 1)
  <2>1. k \in 1..k /\ f[k] \in 1..n /\ f[h] \in 1..n
    BY <1>1
  <2>2. h = k \/ f[h] < f[k]
    BY <1>1, <2>1
  <2>3. f[k] # n
    BY <1>2
  <2>4. QED  BY <2>1, <2>2, <2>3
<1>3. f \in [1..k -> 1..(n - 1)]
  BY <1>1, <1>2
<1>4. QED  BY <1>1, <1>3 DEF Increasing

LEMMA WithoutLast ==
  ASSUME NEW k \in Nat, k # 0, NEW n \in Nat, NEW f \in Increasing(k, n), f[k] = n
  PROVE  \E d \in Increasing(k - 1, n - 1) : \A h \in 1..(k - 1) : d[h] = f[h]
<1>1. f \in [1..k -> 1..n] /\ \A i, j \in 1..k : i < j => f[i] < f[j]
  BY DEF Increasing
<1> DEFINE d == [h \in 1..(k - 1) |-> f[h]]
<1>2. \A h \in 1..(k - 1) : h \in 1..k /\ f[h] \in 1..(n - 1)
  <2> TAKE h \in 1..(k - 1)
  <2>1. h \in 1..k /\ k \in 1..k /\ h < k
    OBVIOUS
  <2>2. f[h] < f[k] /\ f[h] \in 1..n
    BY <1>1, <2>1
  <2>3. QED  BY <2>1, <2>2
<1>3. d \in [1..(k - 1) -> 1..(n - 1)] /\ \A h \in 1..(k - 1) : d[h] = f[h]
  BY <1>2
<1> HIDE DEF d
<1>4. d \in Increasing(k - 1, n - 1)
  BY <1>1, <1>2, <1>3 DEF Increasing
<1>5. QED  BY <1>3, <1>4

LEMMA AlignedLast ==
  ASSUME NEW a, NEW b, NEW m \in Nat, NEW n \in Nat, m # 0, n # 0, NEW c, Aligned(a, b, m, n, c)
  PROVE  \/ Aligned(a, b, m - 1, n, c - 1)
         \/ Aligned(a, b, m, n - 1, c - 1)
         \/ Aligned(a, b, m - 1, n - 1, c - Cost(a, b, m, n))
<1>1. PICK k \in Nat : \E f \in Increasing(k, m), g \in Increasing(k, n) :
        c = m + n - 2 * k + Cardinality(Differing(a, b, k, f, g))
  BY AlignedParts
<1>2. PICK f \in Increasing(k, m), g \in Increasing(k, n) :
        c = m + n - 2 * k + Cardinality(Differing(a, b, k, f, g))
  BY <1>1
<1> DEFINE x == Cardinality(Differing(a, b, k, f, g))
<1>3. x \in Nat /\ c = m + n - 2 * k + x /\ m - 1 \in Nat /\ n - 1 \in Nat
  BY <1>2, DifferingIsFinite
<1>4. CASE k = 0 \/ f[k] # m
  <2>1. f \in Increasing(k, m - 1)
    BY <1>4, ShorterBy
  <2>2. Aligned(a, b, m - 1, n, (m - 1) + n - 2 * k + x)
    BY <1>3, <2>1, AlignedBy
  <2> HIDE DEF x
  <2>3. (m - 1) + n - 2 * k + x = c - 1
    BY <1>3
  <2>4. QED  BY <2>2, <2>3
<1>5. CASE k = 0 \/ g[k] # n
  <2>1. g \in Increasing(k, n - 1)
    BY <1>5, ShorterBy
  <2>2. Aligned(a, b, m, n - 1, m + (n - 1) - 2 * k + x)
    BY <1>3, <2>1, AlignedBy
  <2> HIDE DEF x
  <2>3. m + (n - 1) - 2 * k + x = c - 1
    BY <1>3
  <2>4. QED  BY <2>2, <2>3
<1>6. CASE k # 0 /\ f[k] = m /\ g[k] = n
  <2>1. PICK d \in Increasing(k - 1, m - 1) : \A h \in 1..(k - 1) : d[h] = f[h]
    BY <1>6, WithoutLast
  <2>2. PICK e \in Increasing(k - 1, n - 1) : \A h \in 1..(k - 1) : e[h] = g[h]
    BY <1>6, WithoutLast
  <2>3. k - 1 \in Nat /\ (k - 1) + 1 = k
    BY <1>6
  <2> DEFINE y == Cardinality(Differing(a, b, k - 1, d, e))
  <2>4. x = Cardinality(Differing(a, b, k - 1, f, g)) + Cost(a, b, m, n)
    <3>1. PICK l \in Nat : l = k - 1 /\ l + 1 = k
      BY <2>3
    <3>2. Cardinality(Differing(a, b, l + 1, f, g))
            = Cardinality(Differing(a, b, l, f, g)) + Cost(a, b, f[l + 1], g[l + 1])
      BY DifferingOneMore
    <3>3. QED  BY <1>6, <3>1, <3>2
  <2>5. Differing(a, b, k - 1, d, e) = Differing(a, b, k - 1, f, g)
    BY <2>1, <2>2, <2>3, DifferingSame
  <2>6. x = y + Cost(a, b, m, n) /\ y \in Nat
    BY <2>3, <2>4, <2>5, DifferingIsFinite
  <2>7. Aligned(a, b, m - 1, n - 1, (m - 1) + (n - 1) - 2 * (k - 1) + y)
    BY <1>3, <2>1, <2>2, <2>3, AlignedBy
  <2>8. Cost(a, b, m, n) \in Nat
    BY DEF Cost
  <2> HIDE DEF x, y
  <2>9. (m - 1) + (n - 1) - 2 * (k - 1) + y = c - Cost(a, b, m, n)
    BY <1>3, <2>6, <2>8
  <2>10. QED  BY <2>7, <2>9
<1>7. QED  BY <1>4, <1>5, <1>6

LEMMA AlignedEmpty ==
  ASSUME NEW a, NEW b, NEW m \in Nat, NEW n \in Nat, m = 0 \/ n = 0
  PROVE  /\ Aligned(a, b, m, n, m + n)
         /\ \A c : Aligned(a, b, m, n, c) => c = m + n
<1>1. \A f, g : Cardinality(Differing(a, b, 0, f, g)) = 0
  BY DifferingIsFinite
<1>2. <<>> \in Increasing(0, m) /\ <<>> \in Increasing(0, n)
  BY DEF Increasing
<1>3. Aligned(a, b, m, n, m + n)
  <2>1. Aligned(a, b, m, n, m + n - 2 * 0 + Cardinality(Differing(a, b, 0, <<>>, <<>>)))
    BY <1>2, AlignedBy
  <2>2. m + n - 2 * 0 + 0 = m + n
    OBVIOUS
  <2>3. QED  BY <1>1, <2>1, <2>2
<1>4. ASSUME NEW c, Aligned(a, b, m, n, c)
      PROVE  c = m + n
  <2>1. PICK k \in Nat : \E f \in Increasing(k, m), g \in Increasing(k, n) :
          c = m + n - 2 * k + Cardinality(Differing(a, b, k, f, g)) /\ k <= m /\ k <= n
    BY <1>4, AlignedParts
  <2>2. PICK f \in Increasing(k, m), g \in Increasing(k, n) :
          c = m + n - 2 * k + Cardinality(Differing(a, b, k, f, g)) /\ k <= m /\ k <= n
    BY <2>1
  <2>3. k = 0
    BY <2>2
  <2>4. c = m + n - 2 * 0 + 0
    BY <1>1, <2>2, <2>3
  <2>5. QED  BY <2>4
<1>5. QED  BY <1>3, <1>4
\* The cheapest alignment of the first letters of two names.
Cheapest(a, b, m, n) == Min({c \in Nat : Aligned(a, b, m, n, c)})

LEMMA CheapestIs ==
  ASSUME NEW a, NEW b, NEW m \in Nat, NEW n \in Nat
  PROVE  /\ Cheapest(a, b, m, n) \in Nat /\ Aligned(a, b, m, n, Cheapest(a, b, m, n))
         /\ \A c : Aligned(a, b, m, n, c) => c \in 0..m + n /\ Cheapest(a, b, m, n) <= c
<1> DEFINE S == {c \in Nat : Aligned(a, b, m, n, c)}
<1>1. \A c : Aligned(a, b, m, n, c) => c \in 0..m + n
  <2> TAKE c
  <2> HAVE Aligned(a, b, m, n, c)
  <2>1. PICK k \in Nat : \E f \in Increasing(k, m), g \in Increasing(k, n) : c \in 0..m + n
    BY AlignedParts
  <2>2. QED  BY <2>1
<1>2. \A c : Aligned(a, b, m, n, c) => c \in S
  BY <1>1
<1>3. S # {}
  <2>1. <<>> \in Increasing(0, m) /\ <<>> \in Increasing(0, n)
    BY DEF Increasing
  <2>2. Aligned(a, b, m, n, m + n - 2 * 0 + Cardinality(Differing(a, b, 0, <<>>, <<>>)))
    BY <2>1, AlignedBy
  <2> HIDE DEF S
  <2>3. QED  BY <1>2, <2>2
<1>4. Min(S) \in S /\ \A c \in S : Min(S) <= c
  <2>1. S \subseteq Nat
    OBVIOUS
  <2> HIDE DEF S
  <2>2. QED  BY <1>3, <2>1, MinExists
<1>5. Cheapest(a, b, m, n) = Min(S)
  BY DEF Cheapest
<1>6. QED  BY <1>1, <1>2, <1>4, <1>5

\* As the distance of the names.
LEMMA DistanceIsCheapest ==
  ASSUME NEW a, NEW b, Len(a) \in Nat, Len(b) \in Nat
  PROVE  Distance(a, b) = Cheapest(a, b, Len(a), Len(b))
<1>1. {c \in 0..Len(a) + Len(b) : Aligned(a, b, Len(a), Len(b), c)}
        = {c \in Nat : Aligned(a, b, Len(a), Len(b), c)}
  BY CheapestIs
<1>2. QED  BY <1>1 DEF Distance, Cheapest

LEMMA CheapestFirst ==
  ASSUME NEW a, NEW b, NEW m \in Nat, NEW n \in Nat, m = 0 \/ n = 0
  PROVE  Cheapest(a, b, m, n) = m + n
<1>1. Aligned(a, b, m, n, Cheapest(a, b, m, n))
  BY CheapestIs
<1>2. QED  BY <1>1, AlignedEmpty

LEMMA CheapestNext ==
  ASSUME NEW a, NEW b, NEW m \in Nat, NEW n \in Nat, m # 0, n # 0
  PROVE  Cheapest(a, b, m, n)
           = Min({Cheapest(a, b, m, n - 1) + 1, Cheapest(a, b, m - 1, n) + 1,
                  Cheapest(a, b, m - 1, n - 1) + Cost(a, b, m, n)})
<1> DEFINE x == Cheapest(a, b, m, n - 1)
           y == Cheapest(a, b, m - 1, n)
           z == Cheapest(a, b, m - 1, n - 1)
           least == Cheapest(a, b, m, n)
           cost == Cost(a, b, m, n)
<1>1. m - 1 \in Nat /\ n - 1 \in Nat /\ (m - 1) + 1 = m /\ (n - 1) + 1 = n
  OBVIOUS
<1>2. cost \in Nat
  BY DEF Cost
<1>3. x \in Nat /\ y \in Nat /\ z \in Nat /\ least \in Nat
  BY <1>1, CheapestIs
<1>4. PICK k \in Nat, l \in Nat : k = m - 1 /\ l = n - 1 /\ k + 1 = m /\ l + 1 = n
  BY <1>1
<1>5. least <= x + 1
  <2>1. Aligned(a, b, m, l, x)
    BY <1>1, <1>4, CheapestIs
  <2>2. Aligned(a, b, m, l + 1, x + 1)
    BY <2>1, AlignedSkips
  <2>3. QED  BY <1>4, <2>2, CheapestIs
<1>6. least <= y + 1
  <2>1. Aligned(a, b, k, n, y)
    BY <1>1, <1>4, CheapestIs
  <2>2. Aligned(a, b, k + 1, n, y + 1)
    BY <2>1, AlignedSkips
  <2>3. QED  BY <1>4, <2>2, CheapestIs
<1>7. least <= z + cost
  <2>1. Aligned(a, b, k, l, z)
    BY <1>1, <1>4, CheapestIs
  <2>2. Aligned(a, b, k + 1, l + 1, z + Cost(a, b, k + 1, l + 1))
    BY <2>1, AlignedMatches
  <2>3. QED  BY <1>4, <2>2, CheapestIs
<1>8. least \in {x + 1, y + 1, z + cost}
  <2>1. Aligned(a, b, m, n, least)
    BY CheapestIs
  <2>2. \/ Aligned(a, b, m - 1, n, least - 1)
        \/ Aligned(a, b, m, n - 1, least - 1)
        \/ Aligned(a, b, m - 1, n - 1, least - cost)
    BY <2>1, AlignedLast
  <2>3. y <= least - 1 \/ x <= least - 1 \/ z <= least - cost
    BY <1>1, <2>2, CheapestIs
  <2> HIDE DEF x, y, z, least, cost
  <2>4. QED  BY <1>2, <1>3, <1>5, <1>6, <1>7, <2>3
<1>9. least = Min({x + 1, y + 1, z + cost})
  <2> HIDE DEF x, y, z, least, cost
  <2> DEFINE S == {x + 1, y + 1, z + cost}
  <2>1. S \subseteq Int /\ least \in S /\ \A c \in S : least <= c
    BY <1>2, <1>3, <1>5, <1>6, <1>7, <1>8
  <2> HIDE DEF S
  <2>2. least = Min(S)
    BY <2>1, MinIs
  <2>3. QED  BY <2>2 DEF S
<1>10. QED  BY <1>9
\* A row of the code's table, and then the last one.
LEMMA NextRowIs ==
  ASSUME NEW a, NEW b, Len(a) \in Nat, NEW i \in Nat, i # 0, NEW prev,
         \A j \in 0..Len(a) : prev[j] = Cheapest(a, b, j, i - 1)
  PROVE  NextRow(a, b, i, prev) = [j \in 0..Len(a) |-> Cheapest(a, b, j, i)]
<1> DEFINE N == 0..Len(a)
           Loop(f, j) == IF j = 0 THEN i
                         ELSE Min({prev[j] + 1, f[j - 1] + 1,
                                   prev[j - 1] + IF a[j] = b[i] THEN 0 ELSE 1})
           e == [j \in N |-> Cheapest(a, b, j, i)]
           curr == CHOOSE f : f = [j \in N |-> Loop(f, j)]
<1>1. Cheapest(a, b, 0, i) = i
  BY CheapestFirst
<1>2. ASSUME NEW f, NEW j \in N, j # 0, f[j - 1] = Cheapest(a, b, j - 1, i)
      PROVE  Loop(f, j) = Cheapest(a, b, j, i)
  <2>1. j \in Nat /\ j - 1 \in N
    BY <1>2
  <2>2. prev[j] = Cheapest(a, b, j, i - 1) /\ prev[j - 1] = Cheapest(a, b, j - 1, i - 1)
    BY <2>1
  <2>3. Loop(f, j) = Min({prev[j] + 1, f[j - 1] + 1, prev[j - 1] + Cost(a, b, j, i)})
    BY <1>2 DEF Cost
  <2>4. Cheapest(a, b, j, i)
          = Min({Cheapest(a, b, j, i - 1) + 1, Cheapest(a, b, j - 1, i) + 1,
                 Cheapest(a, b, j - 1, i - 1) + Cost(a, b, j, i)})
    BY <1>2, <2>1, CheapestNext
  <2> HIDE DEF Loop
  <2>5. QED  BY <1>2, <2>2, <2>3, <2>4
<1>3. \A j \in N : e[j] = Loop(e, j)
  <2> TAKE j \in N
  <2>1. CASE j = 0
    BY <1>1, <2>1
  <2>2. CASE j # 0
    <3>1. j - 1 \in N
      BY <2>2
    <3>2. e[j - 1] = Cheapest(a, b, j - 1, i)
      BY <3>1
    <3> HIDE DEF Loop
    <3>3. Loop(e, j) = Cheapest(a, b, j, i)
      BY <1>2, <2>2, <3>2
    <3>4. QED  BY <3>3
  <2>3. QED  BY <2>1, <2>2
<1>4. e = [j \in N |-> Loop(e, j)]
  <2> HIDE DEF Loop
  <2>1. QED  BY <1>3
<1>5. curr = [j \in N |-> Loop(curr, j)]
  BY <1>4
<1>6. NextRow(a, b, i, prev) = curr
  BY DEF NextRow
<1> HIDE DEF curr
<1> DEFINE S == {j \in N : curr[j] = Cheapest(a, b, j, i)}
<1>7. 0 \in S
  BY <1>1, <1>5
<1>8. ASSUME NEW j \in 1..Len(a), j - 1 \in S
      PROVE  j \in S
  <2>1. j \in N /\ j # 0 /\ curr[j - 1] = Cheapest(a, b, j - 1, i)
    BY <1>8
  <2> HIDE DEF Loop
  <2>2. Loop(curr, j) = Cheapest(a, b, j, i)
    BY <1>2, <2>1
  <2>3. QED  BY <1>5, <2>1, <2>2
<1>9. \A j \in N : j \in S
  <2> HIDE DEF S
  <2>1. \A j \in 1..Len(a) : j - 1 \in S => j \in S
    BY <1>8
  <2>2. QED  BY <1>7, <2>1, CountsUp, Zenon
<1>10. DOMAIN curr = N /\ curr = [j \in N |-> curr[j]]
  <2> HIDE DEF Loop
  <2>1. QED  BY <1>5
<1>11. QED  BY <1>6, <1>9, <1>10

LEMMA LevenshteinIsDistance ==
  ASSUME NEW a, NEW b, Len(a) \in Nat, Len(b) \in Nat
  PROVE  Levenshtein(a, b) = Distance(a, b)
<1> DEFINE N == 0..Len(b)
           Row(i) == [j \in 0..Len(a) |-> Cheapest(a, b, j, i)]
           Loop(f, i) == IF i = 0 THEN [j \in 0..Len(a) |-> j] ELSE NextRow(a, b, i, f[i - 1])
           e == [i \in N |-> Row(i)]
           row == CHOOSE f : f = [i \in N |-> Loop(f, i)]
<1>1. Row(0) = [j \in 0..Len(a) |-> j]
  <2>1. \A j \in 0..Len(a) : Cheapest(a, b, j, 0) = j
    BY CheapestFirst
  <2>2. QED  BY <2>1
<1>2. ASSUME NEW f, NEW i \in N, i # 0, f[i - 1] = Row(i - 1)
      PROVE  Loop(f, i) = Row(i)
  <2>1. i \in Nat /\ \A j \in 0..Len(a) : f[i - 1][j] = Cheapest(a, b, j, i - 1)
    BY <1>2
  <2>2. NextRow(a, b, i, f[i - 1]) = Row(i)
    BY <1>2, <2>1, NextRowIs
  <2>3. QED  BY <1>2, <2>2
<1>3. \A i \in N : e[i] = Loop(e, i)
  <2> TAKE i \in N
  <2>1. CASE i = 0
    BY <1>1, <2>1
  <2>2. CASE i # 0
    <3>1. i - 1 \in N
      BY <2>2
    <3> HIDE DEF Row
    <3>2. e[i - 1] = Row(i - 1) /\ e[i] = Row(i)
      BY <3>1
    <3> HIDE DEF Loop, e
    <3>3. Loop(e, i) = Row(i)
      BY <1>2, <2>2, <3>2
    <3>4. QED  BY <3>2, <3>3
  <2>3. QED  BY <2>1, <2>2
<1>4. e = [i \in N |-> Loop(e, i)]
  <2> HIDE DEF Loop, Row
  <2>1. QED  BY <1>3
<1>5. row = [i \in N |-> Loop(row, i)]
  BY <1>4
<1>6. Levenshtein(a, b) = row[Len(b)][Len(a)]
  BY DEF Levenshtein
<1> HIDE DEF row, Row
<1> DEFINE S == {i \in N : row[i] = Row(i)}
<1>7. 0 \in S
  BY <1>1, <1>5
<1>8. ASSUME NEW i \in 1..Len(b), i - 1 \in S
      PROVE  i \in S
  <2>1. i \in N /\ i # 0 /\ row[i - 1] = Row(i - 1)
    BY <1>8
  <2> HIDE DEF Loop
  <2>2. Loop(row, i) = Row(i)
    BY <1>2, <2>1
  <2>3. QED  BY <1>5, <2>1, <2>2
<1>9. \A i \in N : i \in S
  <2> HIDE DEF S
  <2>1. \A i \in 1..Len(b) : i - 1 \in S => i \in S
    BY <1>8
  <2>2. QED  BY <1>7, <2>1, CountsUp, Zenon
<1>10. row[Len(b)] = Row(Len(b)) /\ Len(a) \in 0..Len(a)
  BY <1>9
<1>11. QED  BY <1>6, <1>10, DistanceIsCheapest DEF Row
Score == [of : Int, length : Nat \ {0}]

\* The scores of the code are the similarities of the reference.
LEMMA ScoreIsSimilarity ==
  ASSUME NEW q \in Queries, NEW t \in Texts
  PROVE  /\ FuzzyScore[q][t] = Similarity[q][t]
         /\ Len(q) > 0 => FuzzyScore[q][t] \in Score
<1>1. Len(q) \in Nat /\ Len(t) \in Nat
  BY NameAssumption, LenProperties
<1>2. Levenshtein(q, t) = Distance(q, t)
  BY <1>1, LevenshteinIsDistance
<1>3. Distance(q, t) \in Nat
  <2>1. Cheapest(q, t, Len(q), Len(t)) \in Nat
    BY <1>1, CheapestIs
  <2>2. QED  BY <1>1, <2>1, DistanceIsCheapest
<1> DEFINE longest == Max({Len(q), Len(t)})
<1>4. longest \in Nat /\ longest >= Len(q)
  <2>1. CASE Len(q) >= Len(t)
    <3>1. Len(q) \in {Len(q), Len(t)} /\ \A x \in {Len(q), Len(t)} : Len(q) >= x
      BY <1>1, <2>1
    <3>2. longest \in {Len(q), Len(t)} /\ \A x \in {Len(q), Len(t)} : longest >= x
      BY <3>1 DEF Max
    <3>3. QED  BY <1>1, <3>2
  <2>2. CASE Len(t) >= Len(q)
    <3>1. Len(t) \in {Len(q), Len(t)} /\ \A x \in {Len(q), Len(t)} : Len(t) >= x
      BY <1>1, <2>2
    <3>2. longest \in {Len(q), Len(t)} /\ \A x \in {Len(q), Len(t)} : longest >= x
      BY <3>1 DEF Max
    <3>3. QED  BY <1>1, <3>2
  <2>3. QED  BY <1>1, <2>1, <2>2
<1>5. FuzzyScore[q][t] = [of |-> longest - Levenshtein(q, t), length |-> longest]
  BY DEF FuzzyScore
<1>6. Similarity[q][t] = [of |-> longest - Distance(q, t), length |-> longest]
  BY DEF Similarity
<1> HIDE DEF longest
<1>7. QED  BY <1>1, <1>2, <1>3, <1>4, <1>5, <1>6 DEF Score

-----------------------------------------------------------------------------
(* The best of the candidates *)

\* Products of numbers keep their order.
LEMMA TimesKeeps ==
  ASSUME NEW x \in Int, NEW y \in Int, NEW n \in Nat \ {0}
  PROVE  /\ x < y => x * n < y * n
         /\ x <= y => x * n <= y * n
         /\ x * n \in Int /\ y * n \in Int
  OBVIOUS

LEMMA TimesOrder ==
  ASSUME NEW x \in Int, NEW y \in Int, NEW n \in Nat \ {0}
  PROVE  /\ x * n < y * n => x < y
         /\ x * n <= y * n => x <= y
<1>1. y <= x => y * n <= x * n
  BY TimesKeeps
<1>2. y < x => y * n < x * n
  BY TimesKeeps
<1>3. x * n \in Int /\ y * n \in Int
  OBVIOUS
<1>4. QED  BY <1>1, <1>2, <1>3

LEMMA TimesOf ==
  ASSUME NEW x \in Int, NEW y \in Int, NEW z \in Int
  PROVE  x * y * z = x * z * y /\ x * y * z = z * y * x /\ x * y \in Int /\ x * y * z \in Int
  OBVIOUS

\* Not being worse is transitive, and so is being better.
LEMMA BetterOrder ==
  ASSUME NEW s \in Score, NEW t \in Score, NEW u \in Score
  PROVE  /\ ~Better(t, s) /\ ~Better(u, t) => ~Better(u, s)
         /\ ~Better(t, s) /\ Better(t, u) => Better(s, u)
         /\ Better(s, t) /\ ~Better(u, t) => Better(s, u)
         /\ Better(s, t) => ~Better(t, s)
<1> DEFINE st == s.of * t.length
           ts == t.of * s.length
           tu == t.of * u.length
           ut == u.of * t.length
           su == s.of * u.length
           us == u.of * s.length
<1>0. /\ s.of \in Int /\ t.of \in Int /\ u.of \in Int
      /\ s.length \in Nat \ {0} /\ t.length \in Nat \ {0} /\ u.length \in Nat \ {0}
  BY DEF Score
<1>1. st \in Int /\ ts \in Int /\ tu \in Int /\ ut \in Int /\ su \in Int /\ us \in Int
  BY <1>0
<1>2. st * u.length = su * t.length /\ ts * u.length = tu * s.length /\ ut * s.length = us * t.length
  BY <1>0, TimesOf
<1>3. /\ Better(s, t) <=> st > ts
      /\ Better(t, s) <=> ts > st
      /\ Better(t, u) <=> tu > ut
      /\ Better(u, t) <=> ut > tu
      /\ Better(s, u) <=> su > us
      /\ Better(u, s) <=> us > su
  BY DEF Better
<1> HIDE DEF st, ts, tu, ut, su, us
<1>4. ts <= st => tu * s.length <= su * t.length
  BY <1>0, <1>1, <1>2, TimesKeeps
<1>5. ts < st => tu * s.length < su * t.length
  BY <1>0, <1>1, <1>2, TimesKeeps
<1>6. ut <= tu => us * t.length <= tu * s.length
  BY <1>0, <1>1, <1>2, TimesKeeps
<1>7. ut < tu => us * t.length < tu * s.length
  BY <1>0, <1>1, <1>2, TimesKeeps
<1>8. (us * t.length < su * t.length => us < su) /\ (us * t.length <= su * t.length => us <= su)
  BY <1>0, <1>1, TimesOrder
<1>9. us * t.length \in Int /\ su * t.length \in Int /\ tu * s.length \in Int
  BY <1>0, <1>1, TimesKeeps
<1>10. QED  BY <1>1, <1>3, <1>4, <1>5, <1>6, <1>7, <1>8, <1>9
\* Of two candidates one comes first; sorting by that order has a first one.
Ahead(x, y, place, score) ==
  \/ Better(score[x], score[y])
  \/ ~Better(score[y], score[x]) /\ place[x] < place[y]

LEMMA AheadOrder ==
  ASSUME NEW score, NEW place, NEW x, NEW y, NEW z,
         score[x] \in Score, score[y] \in Score, score[z] \in Score,
         place[x] \in Nat, place[y] \in Nat, place[z] \in Nat
  PROVE  /\ Ahead(x, y, place, score) /\ Ahead(y, z, place, score) => Ahead(x, z, place, score)
         /\ place[x] # place[y] => Ahead(x, y, place, score) \/ Ahead(y, x, place, score)
         /\ Ahead(x, y, place, score) => ~Better(score[y], score[x])
<1>1. Ahead(x, y, place, score) => ~Better(score[y], score[x])
  BY BetterOrder DEF Ahead
<1>2. place[x] # place[y] => Ahead(x, y, place, score) \/ Ahead(y, x, place, score)
  BY DEF Ahead
<1>3. ASSUME Ahead(x, y, place, score), Ahead(y, z, place, score)
      PROVE  Ahead(x, z, place, score)
  <2>1. ~Better(score[y], score[x]) /\ ~Better(score[z], score[y])
    BY <1>3, BetterOrder DEF Ahead
  <2>2. CASE Better(score[x], score[y]) \/ Better(score[y], score[z])
    <3>1. Better(score[x], score[z])
      BY <2>1, <2>2, BetterOrder
    <3>2. QED  BY <3>1 DEF Ahead
  <2>3. CASE ~Better(score[x], score[y]) /\ ~Better(score[y], score[z])
    <3>1. place[x] < place[z]
      BY <1>3, <2>3 DEF Ahead
    <3>2. ~Better(score[z], score[x])
      BY <2>1, BetterOrder
    <3>3. QED  BY <3>1, <3>2 DEF Ahead
  <2>4. QED  BY <2>2, <2>3
<1>4. QED  BY <1>1, <1>2, <1>3

LEMMA FirstExists ==
  ASSUME NEW items, IsFiniteSet(items), NEW score, NEW place,
         \A x \in items : score[x] \in Score /\ place[x] \in Nat,
         \A x, y \in items : place[x] = place[y] => x = y
  PROVE  \A T \in SUBSET items : T # {} =>
           \E x \in T : \A y \in T \ {x} : Ahead(x, y, place, score)
<1> DEFINE First(T) == \E x \in T : \A y \in T \ {x} : Ahead(x, y, place, score)
           S == {n \in Nat : \A T \in SUBSET items : T # {} /\ Cardinality(T) = n => First(T)}
<1>1. \A T \in SUBSET items : IsFiniteSet(T) /\ Cardinality(T) \in Nat /\ Cardinality(T) <= Cardinality(items)
  BY FS_Subset, FS_CardinalityType
<1>2. Cardinality(items) \in Nat
  BY FS_CardinalityType
<1>3. 0 \in S
  <2>1. \A T \in SUBSET items : Cardinality(T) = 0 => T = {}
    BY <1>1, FS_EmptySet
  <2>2. QED  BY <2>1
<1>4. ASSUME NEW n \in 1..Cardinality(items), n - 1 \in S
      PROVE  n \in S
  <2>1. SUFFICES ASSUME NEW T \in SUBSET items, T # {}, Cardinality(T) = n
                 PROVE  First(T)
    OBVIOUS
  <2>2. PICK z \in T : TRUE
    BY <2>1
  <2> DEFINE U == T \ {z}
  <2>3. Cardinality(U) = n - 1 /\ U \in SUBSET items
    BY <1>1, <2>1, FS_RemoveElement
  <2>4. CASE U = {}
    BY <2>2, <2>4
  <2>5. CASE U # {}
    <3>1. PICK x \in U : \A y \in U \ {x} : Ahead(x, y, place, score)
      BY <1>4, <2>3, <2>5
    <3>2. \A y \in T \ {x, z} : Ahead(x, y, place, score)
      BY <3>1
    <3>3. x \in T /\ x # z /\ place[x] # place[z]
      BY <3>1
    <3>4. CASE Ahead(x, z, place, score)
      BY <3>2, <3>3, <3>4
    <3>5. CASE Ahead(z, x, place, score)
      <4>1. \A y \in T \ {x, z} : Ahead(z, y, place, score)
        BY <3>2, <3>3, <3>5, AheadOrder
      <4>2. QED  BY <3>5, <4>1
    <3>6. Ahead(x, z, place, score) \/ Ahead(z, x, place, score)
      BY <3>3, AheadOrder
    <3>7. QED  BY <3>4, <3>5, <3>6
  <2>6. QED  BY <2>4, <2>5
<1>5. \A n \in 0..Cardinality(items) : n \in S
  <2> HIDE DEF S
  <2>1. \A n \in 1..Cardinality(items) : n - 1 \in S => n \in S
    BY <1>4
  <2>2. QED  BY <1>2, <1>3, <2>1, CountsUp, Zenon
<1>6. \A T \in SUBSET items : Cardinality(T) \in 0..Cardinality(items)
  BY <1>1, <1>2
<1>7. QED  BY <1>5, <1>6

LEMMA BestIs ==
  ASSUME NEW items, IsFiniteSet(items), items # {}, NEW score, NEW place,
         \A x \in items : score[x] \in Score /\ place[x] \in Nat,
         \A x, y \in items : place[x] = place[y] => x = y
  PROVE  /\ Best(items, place, score) \in items
         /\ \A y \in items \ {Best(items, place, score)} :
              ~Better(score[y], score[Best(items, place, score)])
<1> DEFINE best == Best(items, place, score)
<1>1. \E x \in items : \A y \in items \ {x} : Ahead(x, y, place, score)
  BY FirstExists
<1>2. best \in items /\ \A y \in items \ {best} : Ahead(best, y, place, score)
  BY <1>1 DEF Best, Ahead
<1> HIDE DEF best
<1>3. \A y \in items \ {best} : ~Better(score[y], score[best])
  BY <1>2, AheadOrder
<1>4. QED  BY <1>2, <1>3 DEF best
\* A distance from the best that is large enough is so from all that are worse.
LEMMA MarginGrows ==
  ASSUME NEW s \in Score, NEW t \in Score, NEW u \in Score,
         ~WithinMargin(s, t), ~Better(u, t)
  PROVE  ~WithinMargin(s, u)
<1> DEFINE st == s.of * t.length
           ts == t.of * s.length
           tu == t.of * u.length
           ut == u.of * t.length
           su == s.of * u.length
           us == u.of * s.length
           both == s.length * t.length
           other == s.length * u.length
<1>0. /\ s.of \in Int /\ t.of \in Int /\ u.of \in Int
      /\ s.length \in Nat \ {0} /\ t.length \in Nat \ {0} /\ u.length \in Nat \ {0}
  BY DEF Score
<1>1. /\ st \in Int /\ ts \in Int /\ tu \in Int /\ ut \in Int /\ su \in Int /\ us \in Int
      /\ both \in Int /\ other \in Int
  BY <1>0
<1>2. /\ st * u.length = su * t.length /\ ts * u.length = tu * s.length
      /\ ut * s.length = us * t.length /\ both * u.length = other * t.length
  BY <1>0, TimesOf
<1>3. /\ both <= 20 * (st - ts) /\ ut <= tu
      /\ both = 20 * (st - ts) => s \notin Short
      /\ other < 20 * (su - us) => ~WithinMargin(s, u)
      /\ other <= 20 * (su - us) /\ s \notin Short => ~WithinMargin(s, u)
  <2>1. /\ ~(20 * (st - ts) < both) /\ ~(ut > tu)
        /\ 20 * (st - ts) = both => s \notin Short
    BY DEF WithinMargin, Better
  <2>2. WithinMargin(s, u) => \/ 20 * (su - us) < other
                              \/ 20 * (su - us) = other /\ s \in Short
    BY DEF WithinMargin
  <2> HIDE DEF st, ts, tu, ut, su, us, both, other
  <2>3. QED  BY <1>1, <2>1, <2>2
<1> HIDE DEF st, ts, tu, ut, su, us, both, other
<1>4. both * u.length <= (20 * (st - ts)) * u.length
  BY <1>0, <1>1, <1>3, TimesKeeps
<1>5. us * t.length <= tu * s.length
  BY <1>0, <1>1, <1>2, <1>3, TimesKeeps
<1>6. (20 * (st - ts)) * u.length = 20 * (st * u.length) - 20 * (ts * u.length)
  BY <1>0, <1>1
<1>7. (20 * (su - us)) * t.length = 20 * (su * t.length) - 20 * (us * t.length)
  BY <1>0, <1>1
<1>8. other * t.length <= (20 * (su - us)) * t.length
  <2>1. /\ us * t.length \in Int /\ su * t.length \in Int /\ tu * s.length \in Int
        /\ other * t.length \in Int
    BY <1>0, <1>1, TimesKeeps
  <2>2. other * t.length <= 20 * (su * t.length) - 20 * (tu * s.length)
    BY <1>2, <1>4, <1>6
  <2>3. QED  BY <1>5, <1>7, <2>1, <2>2
<1>9. other <= 20 * (su - us)
  <2>1. 20 * (su - us) \in Int
    BY <1>1
  <2>2. QED  BY <1>0, <1>1, <1>8, <2>1, TimesOrder
<1>10. other = 20 * (su - us) => s \notin Short
  <2>1. SUFFICES ASSUME other = 20 * (su - us)
                 PROVE  20 * (st - ts) <= both
    BY <1>1, <1>3
  <2>2. (20 * (st - ts)) * u.length <= both * u.length
    <3>1. /\ us * t.length \in Int /\ su * t.length \in Int /\ tu * s.length \in Int
          /\ other * t.length \in Int
      BY <1>0, <1>1, TimesKeeps
    <3>2. (20 * (st - ts)) * u.length = 20 * (su * t.length) - 20 * (tu * s.length)
      BY <1>2, <1>6
    <3>3. other * t.length = 20 * (su * t.length) - 20 * (us * t.length)
      BY <1>7, <2>1
    <3>4. QED  BY <1>2, <1>5, <3>1, <3>2, <3>3
  <2>3. 20 * (st - ts) \in Int
    BY <1>1
  <2>4. QED  BY <1>0, <1>1, <2>2, <2>3, TimesOrder
<1>11. QED
  <2>1. 20 * (su - us) \in Int
    BY <1>1
  <2>2. QED  BY <1>1, <1>3, <1>9, <1>10, <2>1

LEMMA WorseIsWithin ==
  ASSUME NEW s \in Score, NEW t \in Score, ~Better(t, s)
  PROVE  WithinMargin(t, s)
<1> DEFINE st == s.of * t.length
           ts == t.of * s.length
           both == t.length * s.length
<1>0. /\ s.of \in Int /\ t.of \in Int /\ s.length \in Nat \ {0} /\ t.length \in Nat \ {0}
  BY DEF Score
<1>1. st \in Int /\ ts \in Int /\ both \in Int /\ both > 0
  BY <1>0
<1>2. ~(ts > st) /\ (20 * (ts - st) < both => WithinMargin(t, s))
  BY DEF Better, WithinMargin
<1> HIDE DEF st, ts, both
<1>3. QED  BY <1>1, <1>2

-----------------------------------------------------------------------------
(* What a query finds *)

LEMMA FirstOf ==
  ASSUME NEW hits, hits \subseteq Items, hits # {}
  PROVE  (CHOOSE x \in hits : \A y \in hits : Place[x] <= Place[y]) \in hits
<1> DEFINE places == {Place[x] : x \in hits}
<1>1. places \subseteq Nat /\ places # {}
  BY ToolAssumption
<1>2. Min(places) \in places /\ \A n \in places : Min(places) <= n
  BY <1>1, MinExists
<1>3. PICK x \in hits : Place[x] = Min(places)
  BY <1>2
<1>4. \A y \in hits : Place[x] <= Place[y]
  BY <1>2, <1>3
<1>5. QED  BY <1>4

\* What the code finds is what the reference allows, whatever the names are.
LEMMA FoundIsJustified ==
  ASSUME NEW items, items \subseteq Items, NEW names \in [Items -> Texts], NEW query \in Queries
  PROVE  Justified(items, Id, names, query, ResolveByIdOrName(items, Place, Id, names, query))
<1> DEFINE found == ResolveByIdOrName(items, Place, Id, names, query)
           First(hits) == CHOOSE x \in hits : \A y \in hits : Place[x] <= Place[y]
           byId == {x \in items : Id[x] = query}
           byName == {x \in items : names[x] = query}
           score == [x \in items |-> FuzzyScore[query][names[x]]]
           above == {x \in items : AboveThreshold(score[x])}
           best == Best(above, Place, score)
           next == Best(above \ {best}, Place, score)
           similar(x) == Similarity[query][names[x]]
           near == {x \in items : AboveThreshold(similar(x))}
<1>1. /\ Len(query) < 2 => found = "validation"
      /\ ~(Len(query) < 2) /\ byId # {} => found = First(byId)
      /\ ~(Len(query) < 2) /\ byId = {} /\ byName # {} => found = First(byName)
      /\ ~(Len(query) < 2) /\ byId = {} /\ byName = {} =>
           /\ above = {} => found = "not_found"
           /\ above # {} =>
                found = IF above # {best} /\ WithinMargin(score[best], score[next])
                        THEN "ambiguous" ELSE best
  BY DEF ResolveByIdOrName
<1>2. \A x \in items : x \notin Errors
  BY ToolAssumption
<1>3. CASE Len(query) < 2
  BY <1>1, <1>3 DEF Justified
<1>4. CASE ~(Len(query) < 2) /\ byId # {}
  <2>1. found \in byId
    BY <1>1, <1>4, FirstOf
  <2>2. found \notin Errors /\ Id[found] = query
    BY <1>2, <2>1
  <2> HIDE DEF found
  <2>3. Justified(items, Id, names, query, found)
    BY <2>2 DEF Justified, Errors
  <2>4. QED  BY <2>3 DEF found
<1>5. CASE ~(Len(query) < 2) /\ byId = {} /\ byName # {}
  <2>1. found \in byName
    BY <1>1, <1>5, FirstOf
  <2>2. found \notin Errors /\ query \notin {Id[x] : x \in items}
    BY <1>2, <1>5, <2>1
  <2> HIDE DEF found
  <2>3. Justified(items, Id, names, query, found)
    BY <2>1, <2>2 DEF Justified, Errors
  <2>4. QED  BY <2>3 DEF found
<1>6. CASE ~(Len(query) < 2) /\ byId = {} /\ byName = {}
  <2>1. \A x \in items : score[x] = similar(x) /\ score[x] \in Score
    <3> TAKE x \in items
    <3>1. names[x] \in Texts /\ Len(query) > 0
      <4>1. Len(query) \in Nat
        BY NameAssumption, LenProperties
      <4>2. QED  BY <1>6, <4>1
    <3>2. QED  BY <3>1, ScoreIsSimilarity
  <2>2. above = near
    BY <2>1
  <2>3. CASE above = {}
    <3>1. found = "not_found"
      BY <1>1, <1>6, <2>3
    <3> HIDE DEF found
    <3>2. Justified(items, Id, names, query, found)
      BY <2>2, <2>3, <3>1 DEF Justified
    <3>3. QED  BY <3>2 DEF found
  <2>4. CASE above # {}
    <3> HIDE DEF score, next, best
    <3>1. /\ \A x \in items : score[x] \in Score /\ Place[x] \in Nat
          /\ \A x, y \in items : Place[x] = Place[y] => x = y
      BY <2>1, ToolAssumption
    <3>2. IsFiniteSet(above) /\ IsFiniteSet(above \ {best}) /\ above \subseteq items
      <4>1. above \subseteq Items /\ above \ {best} \subseteq Items
        OBVIOUS
      <4>2. QED  BY <4>1, ToolAssumption, FS_Subset
    <3>3. best \in above /\ \A y \in above \ {best} : ~Better(score[y], score[best])
      BY <2>4, <3>1, <3>2, BestIs DEF best
    <3>4. above # {best} =>
            /\ next \in above \ {best}
            /\ \A y \in above \ {best, next} : ~Better(score[y], score[next])
      <4> DEFINE rest == above \ {best}
      <4>1. SUFFICES ASSUME above # {best}
                     PROVE  next \in rest /\ \A y \in rest \ {next} : ~Better(score[y], score[next])
        OBVIOUS
      <4>2. rest # {} /\ rest \subseteq items /\ IsFiniteSet(rest)
        BY <3>2, <3>3, <4>1
      <4>3. next = Best(rest, Place, score)
        BY DEF next
      <4> HIDE DEF rest
      <4>4. QED  BY <3>1, <4>2, <4>3, BestIs
    <3>5. CASE above # {best} /\ WithinMargin(score[best], score[next])
      <4>1. found = "ambiguous"
        BY <1>1, <1>6, <2>4, <3>5
      <4>2. WithinMargin(score[next], score[best])
        BY <3>1, <3>2, <3>3, <3>4, <3>5, WorseIsWithin
      <4>3. best \in near /\ next \in near /\ best # next
        BY <2>2, <3>3, <3>4, <3>5
      <4>4. WithinMargin(similar(best), similar(next)) /\ WithinMargin(similar(next), similar(best))
        BY <2>1, <3>5, <4>2, <4>3
      <4> HIDE DEF found
      <4>5. Justified(items, Id, names, query, found)
        BY <1>6, <4>1, <4>3, <4>4 DEF Justified
      <4>6. QED  BY <4>5 DEF found
    <3>6. CASE ~(above # {best} /\ WithinMargin(score[best], score[next]))
      <4>1. found = best
        BY <1>1, <1>6, <2>4, <3>6
      <4>2. \A x \in near \ {best} : ~WithinMargin(similar(best), similar(x))
        <5>1. SUFFICES ASSUME NEW x \in above, x # best
                       PROVE  ~WithinMargin(score[best], score[x])
          BY <2>1, <2>2, <3>3
        <5>2. above # {best} /\ ~WithinMargin(score[best], score[next])
          BY <3>6, <5>1
        <5>3. CASE x = next
          BY <5>2, <5>3
        <5>4. CASE x # next
          <6>1. ~Better(score[x], score[next])
            BY <3>4, <5>1, <5>2, <5>4
          <6>2. score[x] \in Score /\ score[best] \in Score /\ score[next] \in Score
            BY <3>1, <3>2, <3>3, <3>4, <5>2
          <6>3. QED  BY <5>2, <6>1, <6>2, MarginGrows
        <5>5. QED  BY <5>3, <5>4
      <4>3. found \in near /\ found \notin Errors
        BY <1>2, <2>2, <3>2, <3>3, <4>1
      <4>4. \A x \in near \ {found} : ~WithinMargin(similar(found), similar(x))
        BY <4>1, <4>2
      <4> HIDE DEF found
      <4>5. Justified(items, Id, names, query, found)
        BY <1>6, <4>3, <4>4 DEF Justified, Errors
      <4>6. QED  BY <4>5 DEF found
    <3>7. QED  BY <3>5, <3>6
  <2>5. QED  BY <2>3, <2>4
<1>7. QED  BY <1>3, <1>4, <1>5, <1>6
\* resolver.mjs: what its header promises of an id, a name and a fuzzy match, for
\* any names and queries, and whichever scores are Short of the margin: the table
\* computes the edit distance, and the item found is named, or is above the
\* threshold and leads all others by the margin.
THEOREM FoundAsMeant == ToolSpec => ResolvedIsJustified
<1>1. ASSUME ToolInv, NEW c \in Calls, Resolve(c)
      PROVE  Justified(there, Id, name, call'[c].query, call'[c].item)
  <2>1. DOMAIN call[c] = CallFields /\ call = [d \in Calls |-> call[d]]
    BY <1>1, NoCallFields DEF ToolInv, TypeOK
  <2>2. there \subseteq Items /\ name \in [Items -> Texts]
    BY <1>1 DEF ToolInv, TypeOK
  <2>3. PICK q \in Queries :
          LET found == ResolveByIdOrName(there, Place, Id, name, q)
          IN Goes(c, [call[c] EXCEPT !.at = IF found \in Errors THEN "error" ELSE "sent",
                                     !.query = q, !.item = found])
    BY <1>1 DEF Resolve
  <2> DEFINE found == ResolveByIdOrName(there, Place, Id, name, q)
  <2>4. call'[c].query = q /\ call'[c].item = found
    BY <2>1, <2>3 DEF Goes, CallFields
  <2>5. Justified(there, Id, name, q, found)
    BY <2>2, FoundIsJustified
  <2>6. QED  BY <2>4, <2>5
<1>2. ToolInv /\ [Next]_vars =>
        [\A c \in Calls : Resolve(c) => Justified(there, Id, name, call'[c].query, call'[c].item)]_vars
  BY <1>1
<1>3. QED  BY <1>2, ToolInvariant, PTL DEF ToolSpec, ResolvedIsJustified
=============================================================================
