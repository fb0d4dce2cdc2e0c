--------------------------- MODULE WorldUndoProofs ---------------------------
(***************************************************************************)
(* Proofs about the tools that change the world and their reversal, for    *)
(* any documents, any number of requests under way and any values.         *)
(***************************************************************************)
EXTENDS WorldUndo, SequenceTheorems, WellFoundedInduction, TLAPS

-----------------------------------------------------------------------------
(* Documents and places *)

LEMMA Documents ==
  /\ Embedded \subseteq Docs /\ Stage \in Docs /\ Stage \notin Embedded
  /\ Actors \cup Items \subseteq Docs \ {Stage}
  /\ \A d \in Embedded : Owner[d] \in Docs \ Embedded
  /\ \A x : Children(x) \subseteq Embedded /\ x \notin Children(x)
  /\ \A x \in Embedded : Children(x) = {}
<1>1. /\ Embedded = Items \cup Tokens /\ Stage \notin Actors \cup Items \cup Tokens \cup Scenes
      /\ Actors \cap (Embedded \cup Scenes) = {} /\ Embedded \cap Scenes = {}
      /\ Owner \in [Embedded -> Actors \cup Scenes]
  BY WorldAssumption DEF Embedded
<1>2. \A d \in Embedded : Owner[d] \in Docs \ Embedded
  BY <1>1 DEF Docs
<1>3. \A x : Children(x) \subseteq Embedded /\ x \notin Children(x)
  BY <1>1, <1>2 DEF Children
<1>4. \A x \in Embedded : Children(x) = {}
  BY <1>2 DEF Children
<1>5. QED  BY <1>1, <1>2, <1>3, <1>4 DEF Docs

LEMMA NoSelf == \A d \in Docs : "self" \notin Fields(d)
  BY DEF Fields

LEMMA InWhole ==
  ASSUME NEW docs, NEW d, NEW f
  PROVE  <<d, f>> \in Whole(docs) <=> d \in docs /\ f \in Fields(d) \cup {"self"}
<1>1. ASSUME <<d, f>> \in Whole(docs)
      PROVE  d \in docs /\ f \in Fields(d) \cup {"self"}
  <2>1. PICK e \in docs : <<d, f>> \in {e} \X (Fields(e) \cup {"self"})
    BY <1>1 DEF Whole
  <2>2. d = e
    BY <2>1
  <2>3. QED  BY <2>1, <2>2
<1>2. ASSUME d \in docs, f \in Fields(d) \cup {"self"}
      PROVE  <<d, f>> \in Whole(docs)
  <2>1. <<d, f>> \in {d} \X (Fields(d) \cup {"self"})
    BY <1>2
  <2>2. QED  BY <1>2, <2>1 DEF Whole
<1>3. QED  BY <1>1, <1>2

\* No patch is Gone, and none says that a field is anything but what it may be.
LEMMA PatchIsThere ==
  ASSUME NEW d \in Docs, NEW fs \in SUBSET Fields(d), NEW p \in Patch(d, fs)
  PROVE  p # Gone
  BY WorldAssumption

-----------------------------------------------------------------------------
(* What an operation does to the world *)

\* Outside of the places of an operation nothing comes, goes or changes.
Untouched(places, w, new) == \A d \in Docs :
  <<d, "self">> \notin places =>
    /\ (new[d] = Gone) <=> (w[d] = Gone)
    /\ w[d] # Gone => \A f \in Fields(d) : <<d, f>> \notin places => new[d][f] = w[d][f]

LEMMA DeleteEffect ==
  ASSUME NEW w, WorldOK(w), NEW x \in Docs \ {Stage}, NEW o, IsDelete(o, x)
  PROVE  /\ WorldOK(Effect(o, w)) /\ Untouched(o.places, w, Effect(o, w))
         /\ \A d \in Docs : Effect(o, w)[d] = IF d \in {x} \cup Children(x) THEN Gone ELSE w[d]
<1> DEFINE new == Effect(o, w)
<1>1. DOMAIN new = Docs /\ \A d \in Docs : new[d] = IF d \in {x} \cup Children(x) THEN Gone ELSE w[d]
  BY DEF IsDelete, Effect, Written
<1>2. WorldOK(new)
  <2>1. Stage \notin {x} \cup Children(x)
    BY Documents
  <2>2. ASSUME NEW d \in Embedded, new[d] # Gone
        PROVE  new[Owner[d]] # Gone
    <3>1. d \in Docs /\ Owner[d] \in Docs /\ Owner[d] \notin Embedded
      BY Documents
    <3>2. d \notin {x} \cup Children(x) /\ w[d] # Gone
      BY <1>1, <2>2, <3>1
    <3>3. Owner[d] \notin {x} \cup Children(x)
      BY <3>1, <3>2, Documents DEF Children
    <3>4. QED  BY <1>1, <3>1, <3>2, <3>3 DEF WorldOK
  <2> HIDE DEF new
  <2>3. QED  BY <1>1, <2>1, <2>2, Documents DEF WorldOK
<1>3. Untouched(o.places, w, new)
  <2>1. \A d \in Docs : <<d, "self">> \notin o.places => d \notin {x} \cup Children(x)
    BY InWhole DEF IsDelete
  <2> HIDE DEF new
  <2>2. QED  BY <1>1, <2>1 DEF Untouched
<1>4. QED  BY <1>1, <1>2, <1>3

LEMMA CreateEffect ==
  ASSUME NEW w, WorldOK(w), NEW docs, NEW o, IsCreate(o, docs), Possible(o, w)
  PROVE  /\ WorldOK(Effect(o, w)) /\ Untouched(o.places, w, Effect(o, w))
         /\ \A d \in Docs : Effect(o, w)[d] = IF d \in docs THEN o.writes[d] ELSE w[d]
         /\ \A d \in docs : w[d] = Gone /\ o.writes[d] # Gone
<1> DEFINE new == Effect(o, w)
<1>1. /\ DOMAIN o.writes = docs /\ docs \subseteq Docs /\ o.needs \subseteq Live(w)
      /\ \A d \in docs : /\ o.writes[d] \in DocData(d)
                         /\ d \in Embedded => Owner[d] \in docs \cup o.needs
      /\ \A d \in docs : w[d] = Gone
  BY DEF IsCreate, Possible, Live
<1>2. \A d \in docs : o.writes[d] # Gone
  BY <1>1, PatchIsThere DEF DocData
<1>3. DOMAIN new = Docs /\ \A d \in Docs : new[d] = IF d \in docs THEN o.writes[d] ELSE w[d]
  BY <1>1 DEF Effect, Written
<1>4. WorldOK(new)
  <2>1. ASSUME NEW d \in Embedded, new[d] # Gone
        PROVE  new[Owner[d]] # Gone
    <3>1. d \in Docs /\ Owner[d] \in Docs
      BY Documents
    <3>2. w[Owner[d]] # Gone \/ Owner[d] \in docs
      BY <1>1, <1>3, <2>1, <3>1 DEF Live, WorldOK
    <3>3. QED  BY <1>2, <1>3, <3>1, <3>2
  <2> HIDE DEF new
  <2>2. \A d \in Docs : new[d] = Gone \/ new[d] \in DocData(d)
    BY <1>1, <1>3 DEF WorldOK
  <2>3. new[Stage] # Gone
    BY <1>2, <1>3, Documents DEF WorldOK
  <2>4. QED  BY <1>3, <2>1, <2>2, <2>3 DEF WorldOK
<1>5. Untouched(o.places, w, new)
  <2>1. \A d \in Docs : <<d, "self">> \notin o.places => d \notin docs
    BY InWhole DEF IsCreate
  <2> HIDE DEF new
  <2>2. QED  BY <1>3, <2>1 DEF Untouched
<1>6. QED  BY <1>1, <1>2, <1>3, <1>4, <1>5

LEMMA UpdateEffect ==
  ASSUME NEW w, WorldOK(w), NEW o, IsUpdate(o), Possible(o, w)
  PROVE  /\ WorldOK(Effect(o, w)) /\ Untouched(o.places, w, Effect(o, w))
         /\ \A d \in Docs :
              /\ (Effect(o, w)[d] = Gone) <=> (w[d] = Gone)
              /\ w[d] # Gone => \A f \in Fields(d) :
                   Effect(o, w)[d][f] = IF /\ d \in DOMAIN o.writes /\ f \in DOMAIN o.writes[d]
                                           /\ o.writes[d][f] # Absent
                                        THEN o.writes[d][f] ELSE w[d][f]
<1> DEFINE new == Effect(o, w)
<1>1. PICK x \in Docs :
        /\ DOMAIN o.writes = {x} /\ DOMAIN o.writes[x] \subseteq Fields(x)
        /\ o.writes[x] \in Patch(x, DOMAIN o.writes[x])
        /\ o.places = {x} \X DOMAIN o.writes[x] /\ o.absent = {} /\ x \in o.needs \cup {Stage}
  BY DEF IsUpdate
<1> DEFINE patch == o.writes[x]
<1>2. patch # Gone /\ w[x] # Gone
  <2>1. patch # Gone
    BY <1>1, PatchIsThere
  <2>2. QED  BY <1>1, <2>1 DEF Possible, Live, WorldOK
<1>3. /\ DOMAIN w[x] = Fields(x) /\ w[x] \in [Fields(x) -> FieldValues(x) \cup {Absent}]
  BY <1>2 DEF WorldOK, DocData, Patch
<1>4. /\ DOMAIN new = Docs /\ \A d \in Docs : d # x => new[d] = w[d]
      /\ new[x] = [f \in Fields(x) |-> IF f \in DOMAIN patch /\ patch[f] # Absent THEN patch[f]
                                       ELSE w[x][f]]
  BY <1>1, <1>2, <1>3 DEF Effect, Written
<1> HIDE DEF new
<1>5. new[x] \in DocData(x) /\ new[x] # Gone
  <2>1. patch \in [DOMAIN patch -> FieldValues(x) \cup {Absent}]
    BY <1>1 DEF Patch
  <2> HIDE DEF patch
  <2>2. new[x] \in [Fields(x) -> FieldValues(x) \cup {Absent}]
    BY <1>3, <1>4, <2>1
  <2>3. new[x] \in Patch(x, Fields(x))
    BY <2>2 DEF Patch
  <2>4. QED  BY <2>3, PatchIsThere DEF DocData
<1>6. WorldOK(new)
  BY <1>2, <1>4, <1>5, Documents DEF WorldOK
<1>7. \A d \in Docs :
        /\ (new[d] = Gone) <=> (w[d] = Gone)
        /\ w[d] # Gone => \A f \in Fields(d) :
             new[d][f] = IF d \in DOMAIN o.writes /\ f \in DOMAIN o.writes[d] /\ o.writes[d][f] # Absent
                         THEN o.writes[d][f] ELSE w[d][f]
  BY <1>1, <1>2, <1>4, <1>5
<1>8. Untouched(o.places, w, new)
  BY <1>1, <1>7 DEF Untouched
<1>9. QED  BY <1>6, <1>7, <1>8 DEF new

-----------------------------------------------------------------------------
(* What others do is in the history *)

\* k and new_k differ in the places that others have written only.
SameButOthers(k, new_k, places) ==
  /\ new_k.was = k.was /\ new_k.wrote = k.wrote /\ new_k.todo = k.todo
  /\ new_k.back = k.back /\ new_k.needs = k.needs
  /\ new_k.others = k.others \cup places

LEMMA OthersRestored ==
  ASSUME NEW k, NEW new_k, NEW places, NEW w, NEW new, SameButOthers(k, new_k, places),
         Untouched(places, w, new), NEW d \in Docs
  PROVE  /\ Restored(k, w, d) => Restored(new_k, new, d)
         /\ Ours(new_k, d, "self") =>
              /\ Ours(k, d, "self") /\ ((w[d] = Gone) <=> (new[d] = Gone))
              /\ w[d] # Gone => \A f \in Fields(d) :
                   Ours(new_k, d, f) => Ours(k, d, f) /\ new[d][f] = w[d][f]
<1>1. /\ new_k.was = k.was
      /\ \A f : Ours(new_k, d, f) => Ours(k, d, f) /\ <<d, f>> \notin places
  BY DEF SameButOthers, Ours
<1>2. Ours(new_k, d, "self") =>
        /\ Ours(k, d, "self") /\ ((w[d] = Gone) <=> (new[d] = Gone))
        /\ w[d] # Gone => \A f \in Fields(d) :
             Ours(new_k, d, f) => Ours(k, d, f) /\ new[d][f] = w[d][f]
  BY <1>1 DEF Untouched
<1>3. Restored(k, w, d) => Restored(new_k, new, d)
  BY <1>1, <1>2 DEF Restored
<1>4. QED  BY <1>2, <1>3

LEMMA OthersKeepKind ==
  ASSUME NEW k, NEW new_k, NEW places, SameButOthers(k, new_k, places)
  PROVE  /\ ComesOrGoes(new_k) = ComesOrGoes(k)
         /\ \A x : (Makes(k, x) => Makes(new_k, x)) /\ (Removes(k, x) => Removes(new_k, x))
         /\ Edits(k) => Edits(new_k)
<1>1. ComesOrGoes(new_k) = ComesOrGoes(k)
  BY DEF SameButOthers, ComesOrGoes
<1>2. ASSUME NEW x, Makes(k, x)
      PROVE  Makes(new_k, x)
  BY <1>1, <1>2 DEF Makes, SameButOthers
<1>3. ASSUME NEW x, Removes(k, x)
      PROVE  Removes(new_k, x)
  BY <1>1, <1>3 DEF Removes, SameButOthers
<1>4. ASSUME Edits(k)
      PROVE  Edits(new_k)
  BY <1>1, <1>4 DEF Edits, SameButOthers
<1>5. QED  BY <1>1, <1>2, <1>3, <1>4

LEMMA OthersEdited ==
  ASSUME NEW k, NEW new_k, NEW places, NEW w, NEW new, SameButOthers(k, new_k, places),
         Untouched(places, w, new), NEW rest, Edited(k, w, rest)
  PROVE  Edited(new_k, new, rest)
<1>1. Edits(new_k)
  BY OthersKeepKind DEF Edited
<1>2. new_k.was = k.was
  BY DEF SameButOthers
<1>3. ASSUME NEW d \in Docs, Ours(new_k, d, "self")
      PROVE  /\ (k.was[d] = Gone) <=> (new[d] = Gone)
             /\ k.was[d] # Gone => \A f \in Fields(d) :
                  Ours(new_k, d, f) /\ k.was[d][f] # Absent =>
                    new[d][f] = k.was[d][f] \/ Changes(rest, d, f)
  <2>1. /\ Ours(k, d, "self") /\ ((w[d] = Gone) <=> (new[d] = Gone))
        /\ w[d] # Gone => \A f \in Fields(d) :
             Ours(new_k, d, f) => Ours(k, d, f) /\ new[d][f] = w[d][f]
    BY <1>3, OthersRestored
  <2>2. QED  BY <2>1 DEF Edited
<1>4. QED  BY <1>1, <1>2, <1>3 DEF Edited

LEMMA OthersDone ==
  ASSUME NEW k, NEW new_k, NEW places, NEW w, NEW new, SameButOthers(k, new_k, places),
         Untouched(places, w, new), NEW rest, Done(k, w, rest)
  PROVE  Done(new_k, new, rest)
<1>1. ComesOrGoes(new_k) = ComesOrGoes(k)
  BY OthersKeepKind
<1>2. ASSUME NEW x \in Actors \cup Items, Makes(k, x),
             \A d \in Docs : IF d \in ComesOrGoes(k) THEN Ours(k, d, "self") => w[d] # Gone
                            ELSE Restored(k, w, d)
      PROVE  Done(new_k, new, rest)
  <2>1. Makes(new_k, x)
    BY <1>2, OthersKeepKind
  <2>2. ASSUME NEW d \in Docs
        PROVE  IF d \in ComesOrGoes(new_k) THEN Ours(new_k, d, "self") => new[d] # Gone
               ELSE Restored(new_k, new, d)
    BY <1>1, <1>2, OthersRestored
  <2>3. QED  BY <2>1, <2>2 DEF Done
<1>3. ASSUME NEW x \in Actors \cup Items, Removes(k, x),
             \A d \in Docs : IF d \in ComesOrGoes(k) THEN Ours(k, d, "self") => w[d] = Gone
                            ELSE Restored(k, w, d)
      PROVE  Done(new_k, new, rest)
  <2>1. Removes(new_k, x)
    BY <1>3, OthersKeepKind
  <2>2. ASSUME NEW d \in Docs
        PROVE  IF d \in ComesOrGoes(new_k) THEN Ours(new_k, d, "self") => new[d] = Gone
               ELSE Restored(new_k, new, d)
    BY <1>1, <1>3, OthersRestored
  <2>3. QED  BY <2>1, <2>2 DEF Done
<1>4. QED  BY <1>2, <1>3, OthersEdited DEF Done

LEMMA OthersUndone ==
  ASSUME NEW k, NEW new_k, NEW places, NEW w, NEW new, SameButOthers(k, new_k, places),
         Untouched(places, w, new), NEW rest, Undone(k, w, rest)
  PROVE  Undone(new_k, new, rest)
<1>1. ASSUME NEW x \in Actors \cup Items, Makes(k, x) \/ Removes(k, x),
             \A d \in Docs : Restored(k, w, d)
      PROVE  Undone(new_k, new, rest)
  <2>1. Makes(new_k, x) \/ Removes(new_k, x)
    BY <1>1, OthersKeepKind
  <2>2. \A d \in Docs : Restored(new_k, new, d)
    BY <1>1, OthersRestored
  <2>3. QED  BY <2>1, <2>2 DEF Undone
<1>2. QED  BY <1>1, OthersEdited DEF Undone

LEMMA OthersReady ==
  ASSUME NEW k, NEW new_k, NEW places, NEW w, NEW new, SameButOthers(k, new_k, places),
         Untouched(places, w, new), NEW rest, Ready(k, w, rest),
         rest # <<>> => rest[1].needs \subseteq Docs /\ rest[1].absent \subseteq Docs
  PROVE  Ready(new_k, new, rest)
<1> SUFFICES ASSUME rest # <<>>, \A d \in Docs : Ours(new_k, d, "self")
             PROVE  Possible(rest[1], new)
  BY DEF Ready
<1>1. \A d \in Docs : Ours(k, d, "self") /\ ((w[d] = Gone) <=> (new[d] = Gone))
  BY OthersRestored
<1>2. Live(new) = Live(w)
  BY <1>1 DEF Live
<1>3. QED  BY <1>1, <1>2 DEF Ready, Possible

-----------------------------------------------------------------------------
(* Passing over what is gone *)

LEMMA CountsUp ==
  ASSUME NEW N \in Nat, NEW S, 0 \in S, \A n \in 1..N : n - 1 \in S => n \in S
  PROVE  \A n \in 0..N : n \in S
<1> DEFINE Bad == {n \in 0..N : n \notin S}
<1>1. SUFFICES ASSUME Bad # {}
               PROVE  FALSE
  OBVIOUS
<1>2. PICK m \in Bad : \A y \in Bad : <<y, m>> \notin OpToRel(<, Nat)
  <2>1. Bad \in SUBSET Nat
    OBVIOUS
  <2> HIDE DEF Bad
  <2>2. QED  BY <1>1, <2>1, NatLessThanWellFounded, WFMin
<1>3. m \in Nat /\ m \in 0..N /\ m \notin S
  <2>1. m \in 0..N /\ m \notin S
    OBVIOUS
  <2>2. QED  BY <2>1
<1>4. m # 0
  BY <1>3
<1>5. m - 1 \in 0..N /\ m \in 1..N /\ m - 1 \in Nat /\ m - 1 < m
  BY <1>3, <1>4
<1>6. m - 1 \notin Bad
  <2>1. \A y \in Bad : ~(y \in Nat /\ m \in Nat /\ y < m)
    BY <1>2 DEF OpToRel
  <2>2. QED  BY <1>3, <1>5, <2>1
<1>7. QED  BY <1>3, <1>5, <1>6

LEMMA SeqOfItsRange ==
  ASSUME NEW S, NEW s \in Seq(S)
  PROVE  s \in Seq(Range(s))
<1>1. Len(s) \in Nat /\ s \in [1..Len(s) -> S] /\ DOMAIN s = 1..Len(s)
  BY LenProperties
<1>2. s \in [1..Len(s) -> Range(s)]
  BY <1>1 DEF Range
<1>3. QED  BY <1>1, <1>2, SeqDef

\* What is due of a list of operations is the rest of it, after some that can be
\* passed over; the first one of it cannot.
LEMMA DueIsRest ==
  ASSUME NEW todo, todo \in Seq(Range(todo)), NEW w
  PROVE  \E n \in 0..Len(todo) :
           /\ Due(todo, w) = SubSeq(todo, n + 1, Len(todo))
           /\ \A i \in 1..n : Skipped(todo[i], w)
           /\ n < Len(todo) => ~Skipped(todo[n + 1], w)
<1> DEFINE Right(m) == /\ \A i \in 1..m : Skipped(todo[i], w)
                       /\ m < Len(todo) => ~Skipped(todo[m + 1], w)
           S == {m \in Nat : \A i \in 1..m : Skipped(todo[i], w)}
<1>1. Len(todo) \in Nat
  OBVIOUS
<1>2. \E m \in 0..Len(todo) : Right(m)
  <2>1. SUFFICES ASSUME \A m \in 0..Len(todo) : ~Right(m)
                 PROVE  FALSE
    OBVIOUS
  <2>2. 0 \in S
    OBVIOUS
  <2>3. ASSUME NEW m \in 1..Len(todo), m - 1 \in S
        PROVE  m \in S
    <3>1. m - 1 \in 0..Len(todo) /\ m - 1 < Len(todo) /\ (m - 1) + 1 = m /\ m \in Nat
      BY <1>1
    <3>2. ~Right(m - 1) /\ \A i \in 1..(m - 1) : Skipped(todo[i], w)
      BY <2>1, <2>3, <3>1
    <3>3. Skipped(todo[m], w)
      BY <3>1, <3>2
    <3>4. \A i \in 1..m : i \in 1..(m - 1) \/ i = m
      BY <3>1
    <3>5. QED  BY <3>1, <3>2, <3>3, <3>4
  <2> HIDE DEF S
  <2>4. Len(todo) \in 0..Len(todo) /\ \A m \in 1..Len(todo) : m - 1 \in S => m \in S
    BY <1>1, <2>3
  <2>5. Len(todo) \in S
    BY <1>1, <2>2, <2>4, CountsUp, Zenon
  <2> USE DEF S
  <2>6. Right(Len(todo))
    BY <1>1, <2>5
  <2>7. QED  BY <2>1, <2>4, <2>6
<1> DEFINE n == PassedOver(todo, w)
<1>3. n \in 0..Len(todo) /\ Right(n)
  BY <1>2 DEF PassedOver
<1>4. Due(todo, w) = SubSeq(todo, n + 1, Len(todo))
  BY DEF Due
<1> HIDE DEF n
<1>5. QED  BY <1>3, <1>4

LEMMA DueOf ==
  ASSUME NEW todo, todo \in Seq(Range(todo)), NEW w, NEW due, due = Due(todo, w)
  PROVE  /\ due \in Seq(Range(due)) /\ Len(due) <= Len(todo)
         /\ \A i \in DOMAIN due : \E j \in DOMAIN todo : due[i] = todo[j] /\ i <= j
         /\ \A j \in DOMAIN todo : (\E i \in DOMAIN due : due[i] = todo[j]) \/ Skipped(todo[j], w)
         /\ due # <<>> => 1 \in DOMAIN due /\ ~Skipped(due[1], w)
<1>1. PICK n \in 0..Len(todo) :
        /\ due = SubSeq(todo, n + 1, Len(todo))
        /\ \A i \in 1..n : Skipped(todo[i], w)
        /\ n < Len(todo) => ~Skipped(todo[n + 1], w)
  BY DueIsRest
<1>2. Len(todo) \in Nat /\ DOMAIN todo = 1..Len(todo) /\ n \in Nat /\ n <= Len(todo)
  <2>1. Len(todo) \in Nat /\ DOMAIN todo = 1..Len(todo)
    BY LenProperties
  <2>2. QED  BY <2>1
<1>3. /\ due \in Seq(Range(todo)) /\ Len(due) = Len(todo) - n
      /\ \A i \in 1..(Len(todo) - n) : due[i] = todo[n + i]
  <2>1. n + 1 \in Int /\ Len(todo) \in Int
    BY <1>2
  <2>2. \A i \in (n + 1)..Len(todo) : todo[i] \in Range(todo)
    BY <1>2 DEF Range
  <2>3. /\ due \in Seq(Range(todo))
        /\ Len(due) = IF n + 1 <= Len(todo) THEN Len(todo) - (n + 1) + 1 ELSE 0
        /\ \A i \in 1..(Len(todo) - (n + 1) + 1) : due[i] = todo[(n + 1) + i - 1]
    BY <1>1, <2>1, <2>2, SubSeqProperties
  <2>4. \A i \in 1..(Len(todo) - n) : i \in 1..(Len(todo) - (n + 1) + 1) /\ (n + 1) + i - 1 = n + i
    BY <1>2
  <2>5. QED  BY <1>2, <2>3, <2>4
<1>4. DOMAIN due = 1..(Len(todo) - n) /\ due \in Seq(Range(due))
  BY <1>3, LenProperties, SeqOfItsRange
<1>5. \A i \in DOMAIN due : n + i \in DOMAIN todo /\ due[i] = todo[n + i] /\ i <= n + i
  BY <1>2, <1>3, <1>4
<1>6. ASSUME NEW j \in DOMAIN todo
      PROVE  (\E i \in DOMAIN due : due[i] = todo[j]) \/ Skipped(todo[j], w)
  <2>1. CASE j \in 1..n
    BY <1>1, <2>1
  <2>2. CASE j \notin 1..n
    <3>1. j - n \in DOMAIN due /\ n + (j - n) = j
      BY <1>2, <1>4, <2>2
    <3>2. QED  BY <1>5, <3>1
  <2>3. QED  BY <2>1, <2>2
<1>7. ASSUME due # <<>>
      PROVE  1 \in DOMAIN due /\ ~Skipped(due[1], w)
  <2>1. n < Len(todo)
    <3>1. Len(due) # 0
      BY <1>3, <1>7, EmptySeq
    <3>2. QED  BY <1>2, <1>3, <3>1
  <2>2. 1 \in DOMAIN due /\ due[1] = todo[n + 1]
    BY <1>2, <1>4, <1>5, <2>1
  <2>3. QED  BY <1>1, <2>1, <2>2
<1>8. QED  BY <1>2, <1>3, <1>4, <1>5, <1>6, <1>7

-----------------------------------------------------------------------------
(* A request that a step is not about *)

LEMMA CallStays ==
  ASSUME NEW s \in Calls, CallAgrees(s), world' = world, req'[s] = req[s]
  PROVE  CallAgrees(s)'
  BY DEF CallAgrees

LEMMA CallOthers ==
  ASSUME NEW s \in Calls, CallAgrees(s), NEW places, Untouched(places, world, world'),
         req'[s].at = req[s].at, req'[s].of = req[s].of,
         \/ req[s].at \in {"none", "spent", "over"} /\ req'[s].todo = req[s].todo
         \/ SameButOthers(req[s], req'[s], places)
  PROVE  CallAgrees(s)'
<1>1. req'[s].todo = req[s].todo
  BY DEF SameButOthers
<1>2. ASSUME req[s].at \in {"doing", "ok"}
      PROVE  IF req'[s].todo = <<>> THEN Done(req'[s], world', req'[s].back)
             ELSE Undone(req'[s], world', req'[s].back)
  <2>1. SameButOthers(req[s], req'[s], places) /\ req'[s].back = req[s].back
    BY <1>2 DEF SameButOthers
  <2>2. QED  BY <1>1, <1>2, <2>1, OthersDone, OthersUndone DEF CallAgrees
<1>3. QED  BY <1>1, <1>2 DEF CallAgrees

\* A reversal that others go on beside.
LEMMA UndoOthers ==
  ASSUME TypeOK, NEW u \in Undos, UndoAgrees(u), NEW places, Untouched(places, world, world'),
         req'[u].at = req[u].at, req'[u].of = req[u].of, req'[u].todo = req[u].todo,
         req[u].at = "doing" =>
           /\ SameButOthers(req[req[u].of], req'[req[u].of], places)
           /\ req'[req[u].of].at = "spent"
           /\ \A v \in Undos : req'[v].at = "doing" /\ req'[v].of = req[u].of =>
                               req[v].at = "doing" /\ req[v].of = req[u].of
  PROVE  UndoAgrees(u)'
<1> SUFFICES ASSUME req[u].at = "doing"
             PROVE  UndoAgrees(u)'
  BY DEF UndoAgrees
<1> DEFINE c == req[u].of
           rest == req[u].todo
<1>1. /\ c \in Calls /\ req[c].at = "spent" /\ Remains(rest, req[c].back)
      /\ \A v \in Undos : req[v].at = "doing" /\ req[v].of = c => v = u
      /\ IF rest = <<>> THEN Undone(req[c], world, rest) ELSE Done(req[c], world, rest)
      /\ Ready(req[c], world, rest)
  BY DEF UndoAgrees
<1>2. SameButOthers(req[c], req'[c], places) /\ req'[c].back = req[c].back /\ req'[c].at = "spent"
  BY DEF SameButOthers
<1>3. IF rest = <<>> THEN Undone(req'[c], world', rest) ELSE Done(req'[c], world', rest)
  BY <1>1, <1>2, OthersDone, OthersUndone
<1>4. Ready(req'[c], world', rest)
  <2>1. CASE rest = <<>>
    BY <2>1 DEF Ready
  <2>2. CASE rest # <<>>
    <3>1. 1 \in DOMAIN rest
      <4>1. rest \in Seq(Range(rest))
        BY DEF TypeOK, Requests
      <4>2. Len(rest) \in Nat \ {0} /\ DOMAIN rest = 1..Len(rest)
        BY <2>2, <4>1, EmptySeq, LenProperties
      <4>3. QED  BY <4>2
    <3>2. rest[1].needs \subseteq Docs /\ rest[1].absent \subseteq Docs
      <4>1. PICK j \in DOMAIN req[c].back : rest[1] = req[c].back[j]
        BY <1>1, <3>1 DEF Remains
      <4>2. QED  BY <1>1, <4>1 DEF TypeOK, OpsOK
    <3>3. QED  BY <1>1, <1>2, <3>2, OthersReady
  <2>3. QED  BY <2>1, <2>2
<1>5. QED  BY <1>1, <1>2, <1>3, <1>4, Zenon DEF UndoAgrees

LEMMA UndoStays ==
  ASSUME TypeOK, NEW u \in Undos, UndoAgrees(u), world' = world, req'[u] = req[u],
         req[u].at = "doing" =>
           /\ req'[req[u].of] = req[req[u].of]
           /\ \A v \in Undos : req'[v].at = "doing" /\ req'[v].of = req[u].of =>
                               req[v].at = "doing" /\ req[v].of = req[u].of
  PROVE  UndoAgrees(u)'
<1>1. Untouched({}, world, world')
  BY DEF Untouched
<1>2. req[u].at = "doing" => /\ SameButOthers(req[req[u].of], req'[req[u].of], {})
                             /\ req'[req[u].of].at = "spent"
  BY DEF SameButOthers, UndoAgrees
<1>3. QED  BY <1>1, <1>2, UndoOthers

-----------------------------------------------------------------------------
(* A request begins *)

LEMMA BeginKeeps ==
  ASSUME WorldInv, NEW r \in Calls, NEW todo, NEW back, NEW needs, Begin(r, todo, back, needs),
         todo \in Seq(Range(todo)), back \in Seq(Range(back)), unused' \subseteq unused,
         \A i \in DOMAIN todo : todo[i].needs \subseteq Docs /\ todo[i].absent \subseteq Docs \ unused',
         \A i \in DOMAIN back : back[i].needs \subseteq Docs /\ back[i].absent \subseteq Docs \ unused',
         \/ todo # <<>> /\ \E x \in Actors \cup Items : Makes(req'[r], x) \/ Removes(req'[r], x)
         \/ Edits(req'[r])
  PROVE  WorldInv'
<1> DEFINE k == req'[r]
<1>1. /\ r \in Requests /\ req[r].at = "none" /\ req[r].of = None /\ world' = world
      /\ DOMAIN req = Requests /\ DOMAIN req[r] = DOMAIN Nothing
  BY DEF Requests, WorldInv, TypeOK, CallAgrees, Begin
<1>2. /\ DOMAIN req' = Requests /\ \A s \in Requests : s # r => req'[s] = req[s]
      /\ k.at = "doing" /\ k.of = None /\ k.todo = todo /\ k.back = back /\ k.needs = needs
      /\ k.was = world /\ DOMAIN k = DOMAIN Nothing
  BY <1>1 DEF Begin, Nothing
<1>3. \A d \in Docs : Restored(k, world, d)
  BY <1>2 DEF Restored
<1>4. CallAgrees(r)'
  <2>1. Edits(k) => Edited(k, world, back)
    BY <1>2 DEF Edited
  <2>2. IF todo = <<>> THEN Done(k, world, back) ELSE Undone(k, world, back)
    BY <1>3, <2>1 DEF Done, Undone
  <2>3. QED  BY <1>1, <1>2, <2>2 DEF CallAgrees
<1>5. ASSUME NEW s \in Calls
      PROVE  CallAgrees(s)'
  BY <1>1, <1>2, <1>4, CallStays DEF WorldInv, Requests
<1>6. ASSUME NEW u \in Undos
      PROVE  UndoAgrees(u)'
  <2>1. u \in Requests /\ u # r /\ req'[u] = req[u]
    BY <1>2, WorldAssumption DEF Requests
  <2>2. req[u].at = "doing" => req[u].of # r /\ req[u].of \in Requests
    BY <1>1 DEF WorldInv, UndoAgrees, Requests
  <2>3. \A v \in Undos : req'[v] = req[v]
    BY <1>2, WorldAssumption DEF Requests
  <2>4. QED  BY <1>1, <1>2, <2>1, <2>2, <2>3, UndoStays DEF WorldInv
<1>7. TypeOK'
  <2>1. WorldOK(world') /\ unused' \subseteq Docs \ Live(world')
    BY <1>1 DEF WorldInv, TypeOK
  <2>2. ASSUME NEW s \in Requests
        PROVE  /\ DOMAIN req'[s] = DOMAIN Nothing
               /\ req'[s].at \in {"none", "doing", "ok", "spent", "over"}
               /\ req'[s].todo \in Seq(Range(req'[s].todo)) /\ req'[s].back \in Seq(Range(req'[s].back))
    BY <1>2 DEF WorldInv, TypeOK
  <2>3. ASSUME NEW s \in Calls
        PROVE  OpsOK(req[s].todo)' /\ OpsOK(req[s].back)'
    <3>1. CASE s = r
      BY <1>2, <3>1 DEF OpsOK
    <3>2. CASE s # r
      BY <1>2, <3>2 DEF OpsOK, WorldInv, TypeOK, Requests
    <3>3. QED  BY <3>1, <3>2
  <2>4. QED  BY <1>2, <2>1, <2>2, <2>3 DEF TypeOK
<1>8. QED  BY <1>5, <1>6, <1>7 DEF WorldInv

LEMMA One ==
  ASSUME NEW o
  PROVE  /\ <<o>> # <<>> /\ Len(<<o>>) = 1 /\ DOMAIN <<o>> = {1} /\ <<o>>[1] = o
         /\ <<o>> \in Seq(Range(<<o>>))
<1>1. <<o>> \in Seq({o})
  OBVIOUS
<1>2. <<o>> \in Seq(Range(<<o>>))
  BY <1>1, SeqOfItsRange
<1>3. QED  BY <1>2

LEMMA BeginRecord ==
  ASSUME WorldInv, NEW r \in Calls, NEW todo, NEW back, NEW needs, Begin(r, todo, back, needs)
  PROVE  /\ req'[r].todo = todo /\ req'[r].back = back /\ req'[r].needs = needs
         /\ req'[r].was = world
         /\ req'[r].wrote = UNION {todo[i].places : i \in DOMAIN todo}
<1>1. r \in Requests /\ DOMAIN req = Requests /\ DOMAIN req[r] = DOMAIN Nothing
  BY DEF Requests, WorldInv, TypeOK
<1>2. QED  BY <1>1 DEF Begin, Nothing

\* One operation that makes documents, and one that removes them again.
LEMMA BeginMakes ==
  ASSUME WorldInv, NEW r \in Calls, NEW x \in Actors \cup Items, NEW docs, NEW v \in New,
         x \in docs, docs \subseteq {x} \cup Children(x), Fresh(docs), x \in unused,
         NEW b, IsDelete(b, x), NEW needs, Begin(r, <<Create(Spec(docs, v))>>, <<b>>, needs)
  PROVE  WorldInv'
<1> DEFINE o == Create(Spec(docs, v))
           k == req'[r]
<1>1. /\ x \in Docs /\ docs \subseteq Docs \ {Stage} /\ unused' = unused \ docs
      /\ unused \subseteq Docs \ Live(world)
  BY Documents DEF Fresh, WorldInv, TypeOK
<1>2. \A d \in docs : Spec(docs, v)[d] \in DocData(d)
  BY <1>1, WorldAssumption DEF Spec, DocData, Patch, FieldValues
<1>3. /\ o.writes = Spec(docs, v) /\ DOMAIN o.writes = docs /\ o.places = Whole(docs)
      /\ o.absent = docs /\ o.needs = {Owner[d] : d \in docs \cap Embedded} \ docs
  BY DEF Create, Spec
<1>4. IsCreate(o, docs) /\ o.needs \subseteq Docs
  <2>1. \A d \in docs \cap Embedded : Owner[d] \in Docs /\ Owner[d] \in docs \cup o.needs
    BY <1>3, Documents
  <2> HIDE DEF o
  <2>2. QED  BY <1>1, <1>2, <1>3, <2>1 DEF IsCreate
<1> HIDE DEF o
<1>5. k.todo = <<o>> /\ k.back = <<b>> /\ k.was = world /\ k.wrote = o.places
  <2>1. k.wrote = UNION {<<o>>[i].places : i \in DOMAIN <<o>>}
    BY BeginRecord DEF o
  <2>2. k.wrote = o.places
    BY <2>1, One
  <2>3. QED  BY <2>2, BeginRecord DEF o
<1>6. ComesOrGoes(k) = docs
  BY <1>1, <1>3, <1>5, InWhole DEF ComesOrGoes
<1>7. \A d \in {x} \cup Children(x) : world[d] = Gone
  <2>1. world[x] = Gone
    BY <1>1 DEF Live
  <2>2. \A d \in Children(x) : d \in Embedded /\ Owner[d] = x
    BY DEF Children
  <2>3. QED  BY <2>1, <2>2 DEF WorldInv, TypeOK, WorldOK
<1>8. Makes(k, x)
  BY <1>4, <1>5, <1>6, <1>7, One DEF Makes
<1>9. /\ o.needs \subseteq Docs /\ o.absent \subseteq Docs \ unused'
      /\ b.needs \subseteq Docs /\ b.absent \subseteq Docs \ unused'
  BY <1>1, <1>3, <1>4 DEF IsDelete
<1>10. QED
  <2>1. Begin(r, <<o>>, <<b>>, needs)
    BY DEF o
  <2>2. /\ <<o>> \in Seq(Range(<<o>>)) /\ <<b>> \in Seq(Range(<<b>>)) /\ <<o>> # <<>>
        /\ \A i \in DOMAIN <<o>> : <<o>>[i] = o
        /\ \A i \in DOMAIN <<b>> : <<b>>[i] = b
    BY One
  <2>3. /\ \A i \in DOMAIN <<o>> : <<o>>[i].needs \subseteq Docs /\ <<o>>[i].absent \subseteq Docs \ unused'
        /\ \A i \in DOMAIN <<b>> : <<b>>[i].needs \subseteq Docs /\ <<b>>[i].absent \subseteq Docs \ unused'
    BY <1>9, <2>2
  <2>4. unused' \subseteq unused
    BY <1>1
  <2>5. QED  BY <1>8, <2>1, <2>2, <2>3, <2>4, BeginKeeps

\* One operation that removes documents, and one that brings them back.
LEMMA BeginRemoves ==
  ASSUME WorldInv, NEW r \in Calls, NEW x \in Actors \cup Items, x \in Live(world), NEW docs,
         docs = ({x} \cup Children(x)) \cap Live(world), NEW needs,
         {Owner[d] : d \in docs \cap Embedded} \ docs \subseteq needs,
         Begin(r, <<Delete(x)>>, <<Create([d \in docs |-> world[d]])>>, needs), unused' = unused
  PROVE  WorldInv'
<1> DEFINE o == Delete(x)
           b == Create([d \in docs |-> world[d]])
           k == req'[r]
<1>1. /\ x \in Docs /\ {x} \cup Children(x) \subseteq Docs
      /\ unused \subseteq Docs \ Live(world) /\ docs \subseteq Docs
  BY Documents DEF WorldInv, TypeOK
<1>2. \A d \in docs : world[d] \in DocData(d)
  BY <1>1 DEF WorldInv, TypeOK, WorldOK, Live
<1>3. /\ b.writes = [d \in docs |-> world[d]] /\ DOMAIN b.writes = docs /\ b.places = Whole(docs)
      /\ b.absent = docs /\ b.needs = {Owner[d] : d \in docs \cap Embedded} \ docs
      /\ b.optional = FALSE
  BY DEF Create
<1>4. IsCreate(b, docs) /\ b.needs \subseteq Docs
  <2>1. \A d \in docs \cap Embedded : Owner[d] \in Docs /\ Owner[d] \in docs \cup b.needs
    BY <1>3, Documents
  <2> HIDE DEF b
  <2>2. QED  BY <1>1, <1>2, <1>3, <2>1 DEF IsCreate
<1>5. IsDelete(o, x)
  BY DEF IsDelete, Delete
<1> HIDE DEF o, b
<1>6. k.todo = <<o>> /\ k.back = <<b>> /\ k.was = world /\ k.wrote = o.places /\ k.needs = needs
  <2>1. k.wrote = UNION {<<o>>[i].places : i \in DOMAIN <<o>>}
    BY BeginRecord DEF o, b
  <2>2. k.wrote = o.places
    BY <2>1, One
  <2>3. QED  BY <2>2, BeginRecord DEF o, b
<1>7. ComesOrGoes(k) = {x} \cup Children(x)
  BY <1>1, <1>5, <1>6, InWhole DEF ComesOrGoes, IsDelete
<1>8. Removes(k, x)
  BY <1>3, <1>4, <1>5, <1>6, <1>7, One DEF Removes, Live
<1>9. /\ o.needs \subseteq Docs /\ o.absent \subseteq Docs \ unused'
      /\ b.needs \subseteq Docs /\ b.absent \subseteq Docs \ unused'
  BY <1>1, <1>3, <1>4, <1>5 DEF IsDelete
<1>10. QED
  <2>1. Begin(r, <<o>>, <<b>>, needs)
    BY DEF o, b
  <2>2. /\ <<o>> \in Seq(Range(<<o>>)) /\ <<b>> \in Seq(Range(<<b>>)) /\ <<o>> # <<>>
        /\ \A i \in DOMAIN <<o>> : <<o>>[i] = o
        /\ \A i \in DOMAIN <<b>> : <<b>>[i] = b
    BY One
  <2>3. /\ \A i \in DOMAIN <<o>> : <<o>>[i].needs \subseteq Docs /\ <<o>>[i].absent \subseteq Docs \ unused'
        /\ \A i \in DOMAIN <<b>> : <<b>>[i].needs \subseteq Docs /\ <<b>>[i].absent \subseteq Docs \ unused'
    BY <1>9, <2>2
  <2>4. unused' \subseteq unused
    BY <1>1
  <2>5. QED  BY <1>8, <2>1, <2>2, <2>3, <2>4, BeginKeeps

LEMMA UpdateIs ==
  ASSUME NEW d \in Docs, NEW fs \in SUBSET Fields(d), NEW patch \in Patch(d, fs), NEW o,
         DOMAIN o.writes = {d}, o.writes[d] = patch, o.places = {d} \X DOMAIN patch, o.absent = {},
         d \in o.needs \cup {Stage}
  PROVE  IsUpdate(o) /\ DOMAIN patch = fs /\ o.places = {d} \X fs
<1>1. DOMAIN patch = fs
  BY DEF Patch
<1>2. QED  BY <1>1 DEF IsUpdate

\* Operations that write fields, and operations that write them back.
LEMMA BeginEdits ==
  ASSUME WorldInv, NEW r \in Calls, NEW todo, NEW back, NEW needs, Begin(r, todo, back, needs),
         todo \in Seq(Range(todo)), back \in Seq(Range(back)), unused' = unused,
         \A i \in DOMAIN todo : IsUpdate(todo[i]) /\ todo[i].needs \subseteq Docs,
         \A i \in DOMAIN back :
           /\ IsUpdate(back[i]) /\ back[i].needs \subseteq Docs
           /\ \E j \in DOMAIN todo : back[i].places \subseteq todo[j].places
           /\ \A d \in DOMAIN back[i].writes : \A f \in DOMAIN back[i].writes[d] :
                \/ <<d, f>> \in Derived
                \/ back[i].writes[d][f] = IF world[d] = Gone THEN Absent ELSE world[d][f]
           /\ IF back[i].optional THEN back[i].needs = DOMAIN back[i].writes
              ELSE i = 1 /\ back[i].needs \subseteq needs \cup Live(world),
         \A d \in Docs : world[d] # Gone => \A f \in Fields(d) :
           world[d][f] # Absent /\ Changes(todo, d, f) => Changes(back, d, f)
  PROVE  WorldInv'
<1> DEFINE k == req'[r]
<1>1. /\ k.todo = todo /\ k.back = back /\ k.was = world /\ k.needs = needs
      /\ k.wrote = UNION {todo[i].places : i \in DOMAIN todo}
  BY BeginRecord
<1>2. ASSUME NEW i \in DOMAIN todo
      PROVE  \A d \in Docs : <<d, "self">> \notin todo[i].places
  <2>1. PICK d \in Docs : DOMAIN todo[i].writes[d] \subseteq Fields(d)
                         /\ todo[i].places = {d} \X DOMAIN todo[i].writes[d]
    BY DEF IsUpdate
  <2>2. QED  BY <2>1, NoSelf
<1>3. ComesOrGoes(k) = {}
  BY <1>1, <1>2 DEF ComesOrGoes
<1>4. \A i \in DOMAIN back : back[i].places \subseteq k.wrote
  BY <1>1
<1> HIDE DEF k
<1>5. Edits(k)
  BY <1>1, <1>3, <1>4 DEF Edits
<1>6. \A o : IsUpdate(o) => o.absent = {}
  BY DEF IsUpdate
<1>7. QED  BY <1>5, <1>6, BeginKeeps DEF k

\* One update and one that writes the old values back.
LEMMA BeginOneEdit ==
  ASSUME WorldInv, NEW r \in Calls, NEW d \in Docs, NEW fs \in SUBSET Fields(d),
         NEW patch \in Patch(d, fs), NEW old \in Patch(d, fs), NEW needs, NEW o, NEW b,
         \A f \in fs : \/ <<d, f>> \in Derived
                      \/ old[f] = IF world[d] = Gone THEN Absent ELSE world[d][f],
         DOMAIN o.writes = {d}, o.writes[d] = patch, o.places = {d} \X DOMAIN patch, o.absent = {},
         DOMAIN b.writes = {d}, b.writes[d] = old, b.places = {d} \X DOMAIN old, b.absent = {},
         d \in o.needs \cup {Stage}, d \in b.needs \cup {Stage},
         o.needs \subseteq Docs, b.needs \subseteq Docs,
         b.needs \subseteq needs \cup Live(world), ~b.optional,
         Begin(r, <<o>>, <<b>>, needs), unused' = unused
  PROVE  WorldInv'
<1>1. IsUpdate(o) /\ DOMAIN patch = fs /\ o.places = {d} \X fs
  BY UpdateIs
<1>2. IsUpdate(b) /\ DOMAIN old = fs /\ b.places = {d} \X fs
  BY UpdateIs
<1> DEFINE todo == <<o>>
           back == <<b>>
<1>3. /\ todo \in Seq(Range(todo)) /\ back \in Seq(Range(back))
      /\ DOMAIN todo = {1} /\ todo[1] = o /\ DOMAIN back = {1} /\ back[1] = b
      /\ Begin(r, todo, back, needs)
  BY One
<1> HIDE DEF todo, back
<1>4. \A i \in DOMAIN todo : IsUpdate(todo[i]) /\ todo[i].needs \subseteq Docs
  BY <1>1, <1>3
<1>5. ASSUME NEW i \in DOMAIN back
      PROVE  /\ IsUpdate(back[i]) /\ back[i].needs \subseteq Docs
             /\ \E j \in DOMAIN todo : back[i].places \subseteq todo[j].places
             /\ \A e \in DOMAIN back[i].writes : \A f \in DOMAIN back[i].writes[e] :
                  \/ <<e, f>> \in Derived
                  \/ back[i].writes[e][f] = IF world[e] = Gone THEN Absent ELSE world[e][f]
             /\ IF back[i].optional THEN back[i].needs = DOMAIN back[i].writes
                ELSE i = 1 /\ back[i].needs \subseteq needs \cup Live(world)
  BY <1>1, <1>2, <1>3
<1>6. \A e, f : Changes(todo, e, f) => Changes(back, e, f)
  BY <1>1, <1>2, <1>3 DEF Changes
<1>7. QED  BY <1>3, <1>4, <1>5, <1>6, BeginEdits

LEMMA BeginActors ==
  ASSUME WorldInv, NEW r \in Calls, CreateActor(r) \/ DeleteActor(r) \/ AddItem(r) \/ RemoveItem(r)
  PROVE  WorldInv'
<1>1. CASE CreateActor(r)
  <2>1. PICK a \in Actors, v \in New : \E items \in SUBSET Children(a) :
          /\ Fresh({a} \cup items)
          /\ Begin(r, <<Create(Spec({a} \cup items, v))>>, <<IfThere(Delete(a))>>, {})
    BY <1>1 DEF CreateActor
  <2>2. PICK items \in SUBSET Children(a) :
          /\ Fresh({a} \cup items)
          /\ Begin(r, <<Create(Spec({a} \cup items, v))>>, <<IfThere(Delete(a))>>, {})
    BY <2>1
  <2>3. IsDelete(IfThere(Delete(a)), a)
    BY DEF IsDelete, IfThere, Delete
  <2>4. a \in unused
    BY <2>2 DEF Fresh
  <2>5. {a} \cup items \subseteq {a} \cup Children(a) /\ a \in {a} \cup items
    OBVIOUS
  <2>6. QED  BY <2>2, <2>3, <2>4, <2>5, BeginMakes
<1>2. CASE AddItem(r)
  <2>1. PICK i \in Items, v \in New :
          /\ Fresh({i}) /\ Begin(r, <<Create(Spec({i}, v))>>, <<Delete(i)>>, {Owner[i]})
    BY <1>2 DEF AddItem
  <2>2. IsDelete(Delete(i), i)
    BY DEF IsDelete, Delete
  <2>3. i \in unused /\ i \in {i} /\ {i} \subseteq {i} \cup Children(i)
    BY <2>1 DEF Fresh
  <2>4. QED  BY <2>1, <2>2, <2>3, BeginMakes
<1>3. CASE DeleteActor(r)
  <2>1. PICK a \in Actors \cap Live(world) :
          Existing(r, <<Delete(a)>>,
                   <<Create([d \in ({a} \cup Children(a)) \cap Live(world) |-> world[d]])>>, {})
    BY <1>3 DEF DeleteActor
  <2> DEFINE docs == ({a} \cup Children(a)) \cap Live(world)
  <2>2. /\ Begin(r, <<Delete(a)>>, <<Create([d \in docs |-> world[d]])>>, {}) /\ unused' = unused
    BY <2>1 DEF Existing
  <2>3. {Owner[d] : d \in docs \cap Embedded} \ docs \subseteq {}
    <3>1. a \notin Embedded /\ a \in docs
      BY WorldAssumption
    <3>2. \A d \in docs \cap Embedded : Owner[d] = a
      BY <3>1 DEF Children
    <3>3. QED  BY <3>1, <3>2
  <2>4. docs = ({a} \cup Children(a)) \cap Live(world)
    OBVIOUS
  <2> HIDE DEF docs
  <2>5. QED  BY <2>2, <2>3, <2>4, BeginRemoves
<1>4. CASE RemoveItem(r)
  <2>1. PICK i \in Items \cap Live(world) :
          Existing(r, <<Delete(i)>>, <<Create([d \in {i} |-> world[d]])>>, {Owner[i]})
    BY <1>4 DEF RemoveItem
  <2>2. /\ Begin(r, <<Delete(i)>>, <<Create([d \in {i} |-> world[d]])>>, {Owner[i]})
        /\ unused' = unused
    BY <2>1 DEF Existing
  <2>3. {i} = ({i} \cup Children(i)) \cap Live(world)
    BY Documents DEF Embedded
  <2>4. {Owner[d] : d \in {i} \cap Embedded} \ {i} \subseteq {Owner[i]}
    OBVIOUS
  <2>5. QED  BY <2>2, <2>3, <2>4, BeginRemoves
<1>5. QED  BY <1>1, <1>2, <1>3, <1>4

LEMMA ActorFields ==
  /\ \A a \in Actors : Fields(a) = {"img", "proto"} /\ FieldValues(a) = Values
  /\ \A i \in Items : Fields(i) = {"system"} /\ FieldValues(i) = Values
  /\ \A t \in Tokens : Fields(t) = {"src"} /\ FieldValues(t) = Values
  /\ Fields(Stage) = {"active"} /\ FieldValues(Stage) = Scenes
  BY WorldAssumption DEF Fields, FieldValues, Embedded

\* What is there of a document is a patch of it.
LEMMA PresentValues ==
  ASSUME WorldInv, NEW d \in Live(world)
  PROVE  \A f \in Fields(d) : world[d][f] \in FieldValues(d) \cup {Absent}
  BY DEF WorldInv, TypeOK, WorldOK, Live, DocData, Patch

\* What a document shows is a value its field can have.
LEMMA ShownValues ==
  ASSUME WorldInv, NEW d \in Docs \cap Live(world), FieldValues(d) = Values, NEW f \in Fields(d)
  PROVE  Shown(d, f) \in FieldValues(d) \cup {Absent}
  BY PresentValues, WorldAssumption DEF Shown

LEMMA BeginUpdates ==
  ASSUME WorldInv, NEW r \in Calls, UpdateActor(r) \/ SetActorImage(r) \/ UpdateItem(r)
  PROVE  WorldInv'
<1>1. ASSUME NEW d \in Actors \cup Items, NEW patch \in Patches(d), d \in Live(world),
             NEW needs, Existing(r, <<Update(d, patch)>>, <<Update(d, ReversePatch(d, patch))>>, needs)
      PROVE  WorldInv'
  <2>1. PICK fs \in SUBSET Fields(d) : patch \in [fs -> New]
    BY DEF Patches
  <2>2. d \in Docs /\ FieldValues(d) = Values
    BY Documents, ActorFields
  <2> DEFINE old == ReversePatch(d, patch)
             o == Update(d, patch)
             b == Update(d, old)
  <2>3. patch \in Patch(d, fs)
    BY <2>1, <2>2, WorldAssumption DEF Patch
  <2>4. old = [f \in fs |-> Shown(d, f)]
    BY <2>1 DEF ReversePatch
  <2>5. \A f \in fs : Shown(d, f) \in FieldValues(d) \cup {Absent}
    BY <1>1, <2>2, ShownValues
  <2> HIDE DEF old
  <2>6. /\ old \in Patch(d, fs)
        /\ \A f \in fs : \/ <<d, f>> \in Derived
                         \/ old[f] = IF world[d] = Gone THEN Absent ELSE world[d][f]
    <3>1. old \in Patch(d, fs)
      BY <2>4, <2>5 DEF Patch
    <3>2. world[d] # Gone
      BY <1>1 DEF Live
    <3>3. QED  BY <2>4, <3>1, <3>2 DEF Shown
  <2>7. /\ DOMAIN o.writes = {d} /\ o.writes[d] = patch /\ o.places = {d} \X DOMAIN patch
        /\ o.absent = {} /\ o.needs = {d}
        /\ DOMAIN b.writes = {d} /\ b.writes[d] = old /\ b.places = {d} \X DOMAIN old
        /\ b.absent = {} /\ b.needs = {d} /\ ~b.optional
    BY DEF Update
  <2>8. Begin(r, <<o>>, <<b>>, needs) /\ unused' = unused
    BY <1>1 DEF Existing, old
  <2> HIDE DEF o, b
  <2>9. QED  BY <1>1, <2>2, <2>3, <2>6, <2>7, <2>8, BeginOneEdit
<1>2. CASE UpdateActor(r)
  BY <1>1, <1>2 DEF UpdateActor
<1>3. CASE UpdateItem(r)
  BY <1>1, <1>3 DEF UpdateItem
<1>4. CASE SetActorImage(r)
  <2>1. PICK a \in Actors, v \in New, fs \in {{"img"}, {"img", "proto"}} :
          LET was == IF world[a] = Gone THEN [f \in fs |-> Absent]
                     ELSE ReversePatch(a, [f \in fs |-> v])
          IN Existing(r, <<Update(a, [f \in fs |-> v])>>, <<Update(a, was)>>, {a})
    BY <1>4 DEF SetActorImage
  <2> DEFINE patch == [f \in fs |-> v]
             old == IF world[a] = Gone THEN [f \in fs |-> Absent] ELSE ReversePatch(a, patch)
             o == Update(a, patch)
             b == Update(a, old)
  <2>2. a \in Docs /\ FieldValues(a) = Values /\ fs \in SUBSET Fields(a)
    BY Documents, ActorFields
  <2>3. patch \in Patch(a, fs)
    BY <2>2, WorldAssumption DEF Patch
  <2>4. old = [f \in fs |-> IF world[a] = Gone THEN Absent ELSE Shown(a, f)]
    BY DEF ReversePatch
  <2>5. world[a] # Gone => \A f \in fs : Shown(a, f) \in FieldValues(a) \cup {Absent}
    BY <2>2, ShownValues DEF Live
  <2> HIDE DEF old, patch
  <2>6. /\ old \in Patch(a, fs)
        /\ \A f \in fs : \/ <<a, f>> \in Derived
                         \/ old[f] = IF world[a] = Gone THEN Absent ELSE world[a][f]
    <3>1. CASE world[a] = Gone
      <4>1. old \in Patch(a, fs) /\ \A f \in fs : old[f] = Absent
        BY <2>4, <3>1 DEF Patch
      <4>2. QED  BY <3>1, <4>1
    <3>2. CASE world[a] # Gone
      <4>1. old = [f \in fs |-> Shown(a, f)]
        BY <2>4, <3>2, Zenon
      <4>2. old \in Patch(a, fs)
        BY <2>5, <3>2, <4>1 DEF Patch
      <4>3. QED  BY <3>2, <4>1, <4>2 DEF Shown
    <3>3. QED  BY <3>1, <3>2
  <2>7. /\ DOMAIN o.writes = {a} /\ o.writes[a] = patch /\ o.places = {a} \X DOMAIN patch
        /\ o.absent = {} /\ o.needs = {a}
        /\ DOMAIN b.writes = {a} /\ b.writes[a] = old /\ b.places = {a} \X DOMAIN old
        /\ b.absent = {} /\ b.needs = {a} /\ ~b.optional
    BY DEF Update
  <2>8. Begin(r, <<o>>, <<b>>, {a}) /\ unused' = unused
    BY <2>1 DEF Existing, old, patch
  <2> HIDE DEF o, b
  <2>9. QED  BY <2>2, <2>3, <2>6, <2>7, <2>8, BeginOneEdit
<1>5. QED  BY <1>2, <1>3, <1>4

LEMMA BeginScene ==
  ASSUME WorldInv, NEW r \in Calls, ActivateScene(r)
  PROVE  WorldInv'
<1> DEFINE previous == world[Stage].active
<1>1. PICK s \in (Scenes \cap Live(world)) \ {previous} :
        Existing(r, <<Activate(s)>>, IF previous = Absent THEN <<>> ELSE <<Activate(previous)>>,
                 {previous} \ {Absent})
  BY DEF ActivateScene
<1>2. /\ Stage \in Docs /\ Stage \in Live(world) /\ previous \in Scenes \cup {Absent}
      /\ Fields(Stage) = {"active"} /\ Scenes \subseteq Docs
  <2>1. Stage \in Live(world)
    BY Documents DEF WorldInv, TypeOK, WorldOK, Live
  <2>2. QED  BY <2>1, Documents, ActorFields, PresentValues DEF Docs
<1>3. \A x \in Scenes :
        /\ [active |-> x] \in Patch(Stage, {"active"})
        /\ DOMAIN Activate(x).writes = {Stage} /\ Activate(x).writes[Stage] = [active |-> x]
        /\ Activate(x).places = {Stage} \X DOMAIN [active |-> x]
        /\ Activate(x).absent = {} /\ Activate(x).needs = {x} /\ ~Activate(x).optional
  BY ActorFields DEF Patch, Activate, Update
<1> HIDE DEF previous
<1>4. CASE previous # Absent
  <2>1. /\ Begin(r, <<Activate(s)>>, <<Activate(previous)>>, {previous} \ {Absent})
        /\ unused' = unused
    BY <1>1, <1>4 DEF Existing
  <2>2. \A f \in {"active"} :
          [active |-> previous][f] = IF world[Stage] = Gone THEN Absent ELSE world[Stage][f]
    BY <1>2 DEF Live, previous
  <2>3. previous \in Scenes /\ {"active"} \in SUBSET Fields(Stage)
    BY <1>2, <1>4
  <2> DEFINE o == Activate(s)
             b == Activate(previous)
             patch == [active |-> s]
             old == [active |-> previous]
             needs == {previous} \ {Absent}
  <2>4. /\ patch \in Patch(Stage, {"active"}) /\ old \in Patch(Stage, {"active"})
        /\ DOMAIN o.writes = {Stage} /\ o.writes[Stage] = patch
        /\ o.places = {Stage} \X DOMAIN patch /\ o.absent = {} /\ o.needs \subseteq Docs
        /\ DOMAIN b.writes = {Stage} /\ b.writes[Stage] = old
        /\ b.places = {Stage} \X DOMAIN old /\ b.absent = {} /\ b.needs \subseteq Docs
        /\ b.needs \subseteq needs \cup Live(world) /\ ~b.optional
    BY <1>2, <1>3, <1>4, <2>3
  <2>5. /\ Begin(r, <<o>>, <<b>>, needs)
        /\ \A f \in {"active"} : old[f] = IF world[Stage] = Gone THEN Absent ELSE world[Stage][f]
        /\ Stage \in o.needs \cup {Stage} /\ Stage \in b.needs \cup {Stage}
    BY <2>1, <2>2
  <2> HIDE DEF o, b, patch, old, needs
  <2>6. QED  BY <1>2, <2>1, <2>3, <2>4, <2>5, BeginOneEdit
<1>5. CASE previous = Absent
  <2> DEFINE todo == <<Activate(s)>>
             back == <<>>
  <2>1. Begin(r, todo, back, {}) /\ unused' = unused
    <3>1. {previous} \ {Absent} = {}
      BY <1>5
    <3>2. QED  BY <1>1, <1>5, <3>1 DEF Existing
  <2>2. /\ todo \in Seq(Range(todo)) /\ DOMAIN todo = {1} /\ todo[1] = Activate(s)
    BY One
  <2>3. back \in Seq(Range(back)) /\ DOMAIN back = {}
    OBVIOUS
  <2>4. IsUpdate(Activate(s)) /\ Activate(s).needs \subseteq Docs
    <3> DEFINE patch == [active |-> s]
               o == Activate(s)
               fs == {"active"}
    <3>1. /\ patch \in Patch(Stage, fs) /\ DOMAIN o.writes = {Stage} /\ o.writes[Stage] = patch
          /\ o.places = {Stage} \X DOMAIN patch /\ o.absent = {} /\ o.needs \subseteq Docs
          /\ Stage \in o.needs \cup {Stage} /\ fs \in SUBSET Fields(Stage)
      BY <1>2, <1>3
    <3> HIDE DEF patch, o, fs
    <3>2. IsUpdate(o)
      BY <1>2, <3>1, UpdateIs
    <3>3. QED  BY <3>1, <3>2 DEF o
  <2>5. ASSUME NEW d, NEW f, Changes(todo, d, f)
        PROVE  world[d][f] = Absent
    <3>1. d \in {Stage} /\ f \in DOMAIN [active |-> s]
      <4>1. d \in DOMAIN Activate(s).writes /\ f \in DOMAIN Activate(s).writes[d]
        BY <2>2, <2>5 DEF Changes
      <4>2. DOMAIN Activate(s).writes = {Stage} /\ Activate(s).writes[Stage] = [active |-> s]
        BY <1>3
      <4>3. QED  BY <4>1, <4>2
    <3>2. QED  BY <1>5, <3>1 DEF previous
  <2> HIDE DEF todo, back
  <2>6. \A i \in DOMAIN todo : IsUpdate(todo[i]) /\ todo[i].needs \subseteq Docs
    BY <2>2, <2>4
  <2>7. \A d \in Docs : world[d] # Gone => \A f \in Fields(d) :
          world[d][f] # Absent /\ Changes(todo, d, f) => Changes(back, d, f)
    BY <2>5
  <2>8. QED  BY <2>1, <2>2, <2>3, <2>6, <2>7, BeginEdits
<1>6. QED  BY <1>4, <1>5

LEMMA AtMostOne ==
  ASSUME NEW o, NEW s, s = <<>> \/ s = <<o>>
  PROVE  s \in Seq({o}) /\ Len(s) \in {0, 1} /\ (Len(s) = 0 <=> s = <<>>) /\ (Len(s) = 1 => s[1] = o)
<1>1. CASE s = <<>>
  BY <1>1
<1>2. CASE s = <<o>>
  <2>1. <<o>> \in Seq({o}) /\ Len(<<o>>) = 1 /\ <<o>>[1] = o
    OBVIOUS
  <2>2. s # <<>>
    BY <1>2, One
  <2>3. QED  BY <1>2, <2>1, <2>2
<1>3. QED  BY <1>1, <1>2

\* One update after the other, each of them there or not.
LEMMA Both ==
  ASSUME NEW o, NEW p, NEW s \in {<<>>, <<o>>}, NEW t \in {<<>>, <<p>>}, NEW st, st = s \o t
  PROVE  /\ st \in Seq(Range(st))
         /\ \A i \in DOMAIN st : \/ st[i] = o /\ s # <<>>
                                 \/ st[i] = p /\ t # <<>>
         /\ s # <<>> => \E i \in DOMAIN st : st[i] = o
         /\ t # <<>> => \E i \in DOMAIN st : st[i] = p
<1>0. /\ s \in Seq({o}) /\ Len(s) \in {0, 1} /\ (Len(s) = 0 <=> s = <<>>) /\ (Len(s) = 1 => s[1] = o)
      /\ t \in Seq({p}) /\ Len(t) \in {0, 1} /\ (Len(t) = 0 <=> t = <<>>) /\ (Len(t) = 1 => t[1] = p)
  BY AtMostOne
<1>1. s \in Seq({o, p}) /\ t \in Seq({o, p})
  BY <1>0, SeqMonotonic
<1>2. /\ st \in Seq({o, p}) /\ Len(st) = Len(s) + Len(t) /\ DOMAIN st = 1..(Len(s) + Len(t))
      /\ \A i \in 1..(Len(s) + Len(t)) : st[i] = IF i <= Len(s) THEN s[i] ELSE t[i - Len(s)]
  BY <1>0, <1>1, ConcatProperties, LenProperties
<1>3. st \in Seq(Range(st))
  BY <1>2, SeqOfItsRange
<1>4. ASSUME NEW i \in DOMAIN st
      PROVE  \/ st[i] = o /\ Len(s) = 1
             \/ st[i] = p /\ Len(t) = 1
  <2>1. CASE i <= Len(s)
    BY <1>0, <1>2, <2>1
  <2>2. CASE ~(i <= Len(s))
    <3>1. Len(t) = 1 /\ i - Len(s) = 1
      BY <1>0, <1>2, <2>2
    <3>2. QED  BY <1>0, <1>2, <2>2, <3>1
  <2>3. QED  BY <2>1, <2>2
<1>5. Len(s) = 1 => \E i \in DOMAIN st : st[i] = o
  <2>1. SUFFICES ASSUME Len(s) = 1
                 PROVE  1 \in DOMAIN st /\ st[1] = o
    OBVIOUS
  <2>2. QED  BY <1>0, <1>2, <2>1
<1>6. Len(t) = 1 => \E i \in DOMAIN st : st[i] = p
  <2>1. SUFFICES ASSUME Len(t) = 1
                 PROVE  Len(s) + 1 \in DOMAIN st /\ st[Len(s) + 1] = p
    OBVIOUS
  <2>2. QED  BY <1>0, <1>2, <2>1
<1>7. QED  BY <1>0, <1>2, <1>3, <1>4, <1>5, <1>6

LEMMA BeginTokenImage ==
  ASSUME WorldInv, NEW r \in Calls, SetTokenImage(r)
  PROVE  WorldInv'
<1>1. PICK t \in Tokens \cap Live(world), v \in New, scope \in {"this_token", "prototype", "both"} :
        LET a == Subject[t]
            old == TokenImage(t, scope, world[t].src) \o ProtoImage(a, scope, world[a].proto)
        IN Existing(r, TokenImage(t, scope, v) \o ProtoImage(a, scope, v),
                    [n \in DOMAIN old |-> IfThere(old[n])], {Owner[t]})
  BY DEF SetTokenImage
<1> DEFINE a == Subject[t]
           x == world[t].src
           y == world[a].proto
           tv == TokenImage(t, scope, v)
           av == ProtoImage(a, scope, v)
           tx == TokenImage(t, scope, x)
           ay == ProtoImage(a, scope, y)
           todo == tv \o av
           old == tx \o ay
           back == [n \in DOMAIN old |-> IfThere(old[n])]
<1>2. Begin(r, todo, back, {Owner[t]}) /\ unused' = unused
  BY <1>1 DEF Existing
<1>3. /\ a \in Actors /\ a \in Docs /\ t \in Docs /\ v \in Values /\ v # Absent
      /\ Fields(t) = {"src"} /\ FieldValues(t) = Values
      /\ Fields(a) = {"img", "proto"} /\ FieldValues(a) = Values
  BY WorldAssumption, ActorFields, Documents DEF Embedded
<1>4. x \in Values \cup {Absent} /\ (a \in Live(world) => y \in Values \cup {Absent})
  BY <1>3, PresentValues
<1> HIDE DEF a, x, y
<1>5. ASSUME NEW z \in Values \cup {Absent}
      PROVE  LET o == Update(t, [src |-> z])
             IN /\ IsUpdate(o) /\ o.needs = {t} /\ DOMAIN o.writes = {t} /\ ~o.optional
                /\ DOMAIN o.writes[t] = {"src"} /\ o.writes[t]["src"] = z /\ o.places = {t} \X {"src"}
  <2> DEFINE patch == [src |-> z]
             o == Update(t, patch)
             fs == {"src"}
  <2>1. /\ patch \in Patch(t, fs) /\ fs \in SUBSET Fields(t) /\ DOMAIN patch = {"src"} /\ patch["src"] = z
    BY <1>3 DEF Patch
  <2>2. /\ DOMAIN o.writes = {t} /\ o.writes[t] = patch /\ o.places = {t} \X DOMAIN patch
        /\ o.absent = {} /\ o.needs = {t} /\ t \in o.needs \cup {Stage} /\ ~o.optional
    BY DEF Update
  <2> HIDE DEF patch, o, fs
  <2>3. IsUpdate(o)
    BY <1>3, <2>1, <2>2, UpdateIs
  <2>4. QED  BY <2>1, <2>2, <2>3 DEF o, patch
<1>6. ASSUME NEW z \in Values \cup {Absent}
      PROVE  LET o == Update(a, [proto |-> z])
             IN /\ IsUpdate(o) /\ o.needs = {a} /\ DOMAIN o.writes = {a} /\ ~o.optional
                /\ DOMAIN o.writes[a] = {"proto"} /\ o.writes[a]["proto"] = z
                /\ o.places = {a} \X {"proto"}
  <2> DEFINE patch == [proto |-> z]
             o == Update(a, patch)
             fs == {"proto"}
  <2>1. /\ patch \in Patch(a, fs) /\ fs \in SUBSET Fields(a)
        /\ DOMAIN patch = {"proto"} /\ patch["proto"] = z
    BY <1>3 DEF Patch
  <2>2. /\ DOMAIN o.writes = {a} /\ o.writes[a] = patch /\ o.places = {a} \X DOMAIN patch
        /\ o.absent = {} /\ o.needs = {a} /\ a \in o.needs \cup {Stage} /\ ~o.optional
    BY DEF Update
  <2> HIDE DEF patch, o, fs
  <2>3. IsUpdate(o)
    BY <1>3, <2>1, <2>2, UpdateIs
  <2>4. QED  BY <2>1, <2>2, <2>3 DEF o, patch
<1> DEFINE o == Update(t, [src |-> v])
           p == Update(a, [proto |-> v])
           ox == Update(t, [src |-> x])
           py == Update(a, [proto |-> y])
<1>7. /\ tv \in {<<>>, <<o>>} /\ av \in {<<>>, <<p>>}
      /\ tx \in {<<>>, <<ox>>} /\ ay \in {<<>>, <<py>>}
  BY DEF TokenImage, ProtoImage
<1>8. /\ tx # <<>> => tv # <<>>
      /\ ay # <<>> => av # <<>> /\ a \in Live(world)
      /\ tv # <<>> /\ x # Absent => tx # <<>>
      /\ av # <<>> /\ y # Absent => ay # <<>>
  BY <1>3 DEF TokenImage, ProtoImage
<1>9. /\ IsUpdate(o) /\ o.needs = {t} /\ DOMAIN o.writes = {t} /\ DOMAIN o.writes[t] = {"src"}
      /\ o.places = {t} \X {"src"}
      /\ IsUpdate(p) /\ p.needs = {a} /\ DOMAIN p.writes = {a} /\ DOMAIN p.writes[a] = {"proto"}
      /\ p.places = {a} \X {"proto"}
      /\ IsUpdate(ox) /\ ox.needs = {t} /\ DOMAIN ox.writes = {t} /\ DOMAIN ox.writes[t] = {"src"}
      /\ ox.places = {t} \X {"src"} /\ ox.writes[t]["src"] = x
  BY <1>3, <1>4, <1>5, <1>6
<1>10. a \in Live(world) =>
         /\ IsUpdate(py) /\ py.needs = {a} /\ DOMAIN py.writes = {a}
         /\ DOMAIN py.writes[a] = {"proto"} /\ py.places = {a} \X {"proto"}
         /\ py.writes[a]["proto"] = y
  BY <1>4, <1>6
<1> HIDE DEF o, p, ox, py, tv, av, tx, ay
<1>11. /\ todo \in Seq(Range(todo))
       /\ \A i \in DOMAIN todo : \/ todo[i] = o /\ tv # <<>>
                                 \/ todo[i] = p /\ av # <<>>
       /\ tv # <<>> => \E i \in DOMAIN todo : todo[i] = o
       /\ av # <<>> => \E i \in DOMAIN todo : todo[i] = p
  <2>1. todo = tv \o av
    OBVIOUS
  <2> HIDE DEF todo
  <2>2. todo \in Seq(Range(todo))
    BY <1>7, <2>1, Both
  <2>3. \A i \in DOMAIN todo : (todo[i] = o /\ tv # <<>>) \/ (todo[i] = p /\ av # <<>>)
    BY <1>7, <2>1, Both
  <2>4. tv # <<>> => \E i \in DOMAIN todo : todo[i] = o
    BY <1>7, <2>1, Both
  <2>5. av # <<>> => \E i \in DOMAIN todo : todo[i] = p
    BY <1>7, <2>1, Both
  <2>6. QED  BY <2>2, <2>3, <2>4, <2>5
<1>12. /\ old \in Seq(Range(old))
       /\ \A i \in DOMAIN old : \/ old[i] = ox /\ tx # <<>>
                                \/ old[i] = py /\ ay # <<>>
       /\ tx # <<>> => \E i \in DOMAIN old : old[i] = ox
       /\ ay # <<>> => \E i \in DOMAIN old : old[i] = py
  <2>1. old = tx \o ay
    OBVIOUS
  <2> HIDE DEF old
  <2>2. old \in Seq(Range(old))
    BY <1>7, <2>1, Both
  <2>3. \A i \in DOMAIN old : (old[i] = ox /\ tx # <<>>) \/ (old[i] = py /\ ay # <<>>)
    BY <1>7, <2>1, Both
  <2>4. tx # <<>> => \E i \in DOMAIN old : old[i] = ox
    BY <1>7, <2>1, Both
  <2>5. ay # <<>> => \E i \in DOMAIN old : old[i] = py
    BY <1>7, <2>1, Both
  <2>6. QED  BY <2>2, <2>3, <2>4, <2>5
<1> HIDE DEF todo, old
<1>13. /\ back \in Seq(Range(back)) /\ DOMAIN back = DOMAIN old
       /\ \A i \in DOMAIN back : back[i] = IfThere(old[i])
  <2>1. Len(old) \in Nat /\ DOMAIN old = 1..Len(old) /\ DOMAIN back = 1..Len(old)
    BY <1>12, LenProperties
  <2>2. back \in [1..Len(old) -> Range(back)]
    BY <2>1 DEF Range
  <2>3. QED  BY <2>1, <2>2, SeqDef
<1>14. ASSUME NEW i \in DOMAIN back
       PROVE  LET b == back[i] IN
              /\ b.optional /\ b.needs = DOMAIN b.writes /\ b.needs \subseteq Docs /\ IsUpdate(b)
              /\ \E j \in DOMAIN todo : b.places \subseteq todo[j].places
              /\ \A d \in DOMAIN b.writes : \A f \in DOMAIN b.writes[d] :
                   \/ <<d, f>> \in Derived
                   \/ b.writes[d][f] = IF world[d] = Gone THEN Absent ELSE world[d][f]
  <2> DEFINE b == back[i]
  <2>1. CASE old[i] = ox /\ tx # <<>>
    <3>1. /\ b.writes = ox.writes /\ b.places = ox.places /\ b.needs = ox.needs
          /\ b.absent = ox.absent /\ b.optional
      BY <1>13, <2>1 DEF IfThere, ox, Update
    <3>2. \E j \in DOMAIN todo : b.places \subseteq todo[j].places
      BY <1>8, <1>9, <1>11, <2>1, <3>1
    <3>3. IsUpdate(b)
      BY <1>9, <3>1 DEF IsUpdate
    <3>4. world[t] # Gone
      BY DEF Live
    <3> HIDE DEF b
    <3>5. QED  BY <1>3, <1>9, <3>1, <3>2, <3>3, <3>4 DEF x, b
  <2>2. CASE old[i] = py /\ ay # <<>>
    <3>1. /\ b.writes = py.writes /\ b.places = py.places /\ b.needs = py.needs
          /\ b.absent = py.absent /\ b.optional
      BY <1>13, <2>2 DEF IfThere, py, Update
    <3>2. \E j \in DOMAIN todo : b.places \subseteq todo[j].places
      BY <1>8, <1>9, <1>10, <1>11, <2>2, <3>1
    <3>3. IsUpdate(b)
      BY <1>8, <1>10, <2>2, <3>1 DEF IsUpdate
    <3>4. world[a] # Gone
      BY <1>8, <2>2 DEF Live
    <3> HIDE DEF b
    <3>5. QED  BY <1>3, <1>8, <1>10, <2>2, <3>1, <3>2, <3>3, <3>4 DEF y, b
  <2>3. QED  BY <1>12, <1>13, <2>1, <2>2
<1>15. \A i \in DOMAIN todo : IsUpdate(todo[i]) /\ todo[i].needs \subseteq Docs
  BY <1>3, <1>9, <1>11
<1>16. ASSUME NEW d, NEW f, world[d][f] # Absent, Changes(todo, d, f)
       PROVE  Changes(back, d, f)
  <2>1. PICK i \in DOMAIN todo : d \in DOMAIN todo[i].writes /\ f \in DOMAIN todo[i].writes[d]
    BY <1>16 DEF Changes
  <2>2. CASE todo[i] = o /\ tv # <<>>
    <3>1. d = t /\ f = "src" /\ tx # <<>>
      BY <1>8, <1>9, <1>16, <2>1, <2>2 DEF x
    <3>2. PICK j \in DOMAIN back : back[j] = IfThere(ox)
      BY <1>12, <1>13, <3>1
    <3>3. back[j].writes = ox.writes
      BY <3>2 DEF IfThere, ox, Update
    <3>4. QED  BY <1>9, <3>1, <3>3 DEF Changes
  <2>3. CASE todo[i] = p /\ av # <<>>
    <3>1. d = a /\ f = "proto" /\ ay # <<>>
      BY <1>8, <1>9, <1>16, <2>1, <2>3 DEF y
    <3>2. PICK j \in DOMAIN back : back[j] = IfThere(py)
      BY <1>12, <1>13, <3>1
    <3>3. back[j].writes = py.writes
      BY <3>2 DEF IfThere, py, Update
    <3>4. QED  BY <1>8, <1>10, <3>1, <3>3 DEF Changes
  <2>4. QED  BY <1>11, <2>2, <2>3
<1> HIDE DEF back
<1>17. \A i \in DOMAIN back :
         /\ IsUpdate(back[i]) /\ back[i].needs \subseteq Docs
         /\ \E j \in DOMAIN todo : back[i].places \subseteq todo[j].places
         /\ \A d \in DOMAIN back[i].writes : \A f \in DOMAIN back[i].writes[d] :
              \/ <<d, f>> \in Derived
              \/ back[i].writes[d][f] = IF world[d] = Gone THEN Absent ELSE world[d][f]
         /\ IF back[i].optional THEN back[i].needs = DOMAIN back[i].writes
            ELSE i = 1 /\ back[i].needs \subseteq {Owner[t]} \cup Live(world)
  BY <1>14
<1>18. \A d \in Docs : world[d] # Gone => \A f \in Fields(d) :
         world[d][f] # Absent /\ Changes(todo, d, f) => Changes(back, d, f)
  BY <1>16
<1>19. todo \in Seq(Range(todo)) /\ back \in Seq(Range(back))
  BY <1>11, <1>13
<1> DEFINE needs == {Owner[t]}
<1>20. Begin(r, todo, back, needs) /\ unused' = unused
  BY <1>2
<1>21. \A i \in DOMAIN back :
         /\ IsUpdate(back[i]) /\ back[i].needs \subseteq Docs
         /\ \E j \in DOMAIN todo : back[i].places \subseteq todo[j].places
         /\ \A d \in DOMAIN back[i].writes : \A f \in DOMAIN back[i].writes[d] :
              \/ <<d, f>> \in Derived
              \/ back[i].writes[d][f] = IF world[d] = Gone THEN Absent ELSE world[d][f]
         /\ IF back[i].optional THEN back[i].needs = DOMAIN back[i].writes
            ELSE i = 1 /\ back[i].needs \subseteq needs \cup Live(world)
  BY <1>17
<1> HIDE DEF needs
<1>22. QED  BY <1>15, <1>18, <1>19, <1>20, <1>21, BeginEdits

LEMMA MutationKeeps ==
  ASSUME WorldInv, NEW r \in Calls, Mutation(r)
  PROVE  WorldInv'
  BY BeginActors, BeginUpdates, BeginScene, BeginTokenImage DEF Mutation

-----------------------------------------------------------------------------
(* An operation takes effect *)

\* What is left of a request after its first operation.
LEMMA NextDue ==
  ASSUME NEW rest, rest \in Seq(Range(rest)), rest # <<>>, NEW w, NEW due, due = Due(Tail(rest), w)
  PROVE  /\ due \in Seq(Range(due)) /\ 1 \in DOMAIN rest /\ Head(rest) = rest[1]
         /\ Len(due) < Len(rest) /\ (Len(rest) = 1 => due = <<>>)
         /\ \A i \in DOMAIN due : \E j \in DOMAIN rest : due[i] = rest[j] /\ i < j
         /\ \A j \in DOMAIN rest : \/ j = 1 \/ Skipped(rest[j], w)
                                  \/ \E i \in DOMAIN due : due[i] = rest[j]
         /\ due # <<>> => 1 \in DOMAIN due /\ ~Skipped(due[1], w)
<1> DEFINE tail == Tail(rest)
<1>1. /\ Len(rest) \in Nat \ {0} /\ DOMAIN rest = 1..Len(rest) /\ 1 \in DOMAIN rest
      /\ Head(rest) = rest[1]
  <2>1. Len(rest) \in Nat \ {0} /\ DOMAIN rest = 1..Len(rest)
    BY EmptySeq, LenProperties
  <2>2. QED  BY <2>1
<1>2. /\ tail \in Seq(Range(rest)) /\ Len(tail) = Len(rest) - 1 /\ DOMAIN tail = 1..(Len(rest) - 1)
      /\ \A i \in 1..(Len(rest) - 1) : tail[i] = rest[i + 1]
  BY HeadTailProperties, LenProperties
<1>3. tail \in Seq(Range(tail))
  BY <1>2, SeqOfItsRange
<1> HIDE DEF tail
<1>4. due = Due(tail, w)
  BY DEF tail
<1>5. /\ due \in Seq(Range(due)) /\ Len(due) <= Len(tail)
      /\ due # <<>> => 1 \in DOMAIN due /\ ~Skipped(due[1], w)
  BY <1>3, <1>4, DueOf
<1>6. Len(due) \in Nat /\ DOMAIN due = 1..Len(due) /\ (Len(due) = 0 => due = <<>>)
  BY <1>5, EmptySeq, LenProperties
<1>7. ASSUME NEW i \in DOMAIN due
      PROVE  \E j \in DOMAIN rest : due[i] = rest[j] /\ i < j
  <2>1. PICK m \in DOMAIN tail : due[i] = tail[m] /\ i <= m
    BY <1>3, <1>4, DueOf
  <2>2. m + 1 \in DOMAIN rest /\ due[i] = rest[m + 1] /\ i < m + 1
    BY <1>1, <1>2, <1>6, <2>1
  <2>3. QED  BY <2>2
<1>8. ASSUME NEW j \in DOMAIN rest, j # 1, ~Skipped(rest[j], w)
      PROVE  \E i \in DOMAIN due : due[i] = rest[j]
  <2>1. j - 1 \in DOMAIN tail /\ tail[j - 1] = rest[j]
    BY <1>1, <1>2, <1>8
  <2>2. QED  BY <1>3, <1>4, <1>8, <2>1, DueOf
<1>9. Len(due) < Len(rest) /\ (Len(rest) = 1 => due = <<>>)
  BY <1>1, <1>2, <1>5, <1>6
<1>10. QED  BY <1>1, <1>5, <1>7, <1>8, <1>9

LEMMA DocOpRecords ==
  ASSUME WorldInv, NEW r \in Requests, DocOp(r), NEW o, o = Head(req[r].todo)
  PROVE  /\ req[r].at = "doing" /\ req[r].todo # <<>> /\ o = req[r].todo[1] /\ 1 \in DOMAIN req[r].todo
         /\ Possible(o, world) /\ world' = Effect(o, world)
         /\ unused' = unused /\ DOMAIN req' = Requests
         /\ \A s \in Requests :
              /\ DOMAIN req'[s] = DOMAIN Nothing
              /\ req'[s].at = req[s].at /\ req'[s].of = req[s].of /\ req'[s].was = req[s].was
              /\ req'[s].back = req[s].back /\ req'[s].needs = req[s].needs
              /\ req'[s].wrote = req[s].wrote
              /\ s # r => req'[s].todo = req[s].todo
              /\ \/ s = r \/ s = req[r].of \/ req[s].of = r \/ req[s].at \in {"none", "over"}
                 \/ SameButOthers(req[s], req'[s], o.places)
              /\ s = req[r].of /\ s # r => req'[s] = req[s]
         /\ req'[r].todo = Due(Tail(req[r].todo), world') /\ req'[r].others = req[r].others
<1>1. /\ DOMAIN req = Requests /\ \A s \in Requests : DOMAIN req[s] = DOMAIN Nothing
      /\ req[r].todo \in Seq(Range(req[r].todo)) /\ req[r].todo # <<>>
  BY DEF WorldInv, TypeOK, DocOp
<1>2. o = req[r].todo[1] /\ 1 \in DOMAIN req[r].todo
  BY <1>1, NextDue
<1>3. /\ req[r].at = "doing" /\ Possible(o, world) /\ world' = Effect(o, world)
      /\ unused' = unused /\ DOMAIN req' = Requests
  BY DEF DocOp
<1>4. ASSUME NEW s \in Requests
      PROVE  /\ s = r => req'[s] = [req[s] EXCEPT !.todo = Due(Tail(@), world')]
             /\ s # r => \/ req'[s] = [req[s] EXCEPT !.others = @ \cup o.places]
                         \/ /\ s = req[r].of \/ req[s].of = r \/ req[s].at \in {"none", "over"}
                            /\ req'[s] = req[s]
             /\ s = req[r].of /\ s # r => req'[s] = req[s]
  BY DEF DocOp
<1>5. ASSUME NEW s \in Requests
      PROVE  /\ DOMAIN req'[s] = DOMAIN Nothing
             /\ req'[s].at = req[s].at /\ req'[s].of = req[s].of /\ req'[s].was = req[s].was
             /\ req'[s].back = req[s].back /\ req'[s].needs = req[s].needs
             /\ req'[s].wrote = req[s].wrote
             /\ s # r => req'[s].todo = req[s].todo
             /\ \/ s = r \/ s = req[r].of \/ req[s].of = r \/ req[s].at \in {"none", "over"}
                \/ SameButOthers(req[s], req'[s], o.places)
  BY <1>1, <1>4 DEF Nothing, SameButOthers
<1>6. req'[r].todo = Due(Tail(req[r].todo), world') /\ req'[r].others = req[r].others
  BY <1>1, <1>4 DEF Nothing
<1>7. QED  BY <1>1, <1>2, <1>3, <1>4, <1>5, <1>6

LEMMA DocOpBeside ==
  ASSUME WorldInv, NEW r \in Requests, DocOp(r), NEW o, o = Head(req[r].todo),
         Untouched(o.places, world, world')
  PROVE  /\ \A s \in Calls \ {r} : CallAgrees(s)'
         /\ \A u \in Undos \ {r} : UndoAgrees(u)'
<1>1. /\ req[r].at = "doing"
      /\ \A s \in Requests :
           /\ req'[s].at = req[s].at /\ req'[s].of = req[s].of
           /\ s # r => req'[s].todo = req[s].todo
           /\ \/ s = r \/ s = req[r].of \/ req[s].of = r \/ req[s].at \in {"none", "over"}
              \/ SameButOthers(req[s], req'[s], o.places)
  BY DocOpRecords
<1>2. /\ \A s \in Calls : CallAgrees(s) /\ req[s].of = None /\ s \in Requests
      /\ \A u \in Undos : UndoAgrees(u) /\ u \in Requests
      /\ None \notin Requests /\ Calls \cap Undos = {}
  BY WorldAssumption DEF WorldInv, CallAgrees, Requests
<1>3. /\ r \in Calls => req[r].of \notin Requests
      /\ r \in Undos => /\ req[r].of \in Calls /\ req[req[r].of].at = "spent"
                        /\ \A v \in Undos : req[v].at = "doing" /\ req[v].of = req[r].of => v = r
  BY <1>1, <1>2 DEF UndoAgrees
<1>4. r \in Calls \/ r \in Undos
  BY DEF Requests
<1>5. ASSUME NEW s \in Calls \ {r}
      PROVE  CallAgrees(s)'
  <2>1. req[s].of # r /\ (s = req[r].of => req[s].at = "spent")
    BY <1>2, <1>3, <1>4
  <2>2. /\ req'[s].at = req[s].at /\ req'[s].of = req[s].of
        /\ \/ req[s].at \in {"none", "spent", "over"} /\ req'[s].todo = req[s].todo
           \/ SameButOthers(req[s], req'[s], o.places)
    BY <1>1, <1>2, <2>1
  <2>3. QED  BY <1>2, <2>2, CallOthers
<1>6. ASSUME NEW u \in Undos \ {r}
      PROVE  UndoAgrees(u)'
  <2>1. req'[u].at = req[u].at /\ req'[u].of = req[u].of /\ req'[u].todo = req[u].todo
    BY <1>1, <1>2
  <2>2. ASSUME req[u].at = "doing"
        PROVE  /\ SameButOthers(req[req[u].of], req'[req[u].of], o.places)
               /\ req'[req[u].of].at = "spent"
    <3>1. /\ req[u].of \in Calls /\ req[req[u].of].at = "spent"
      BY <1>2, <2>2 DEF UndoAgrees
    <3>2. req[u].of # r /\ req[u].of # req[r].of /\ req[req[u].of].of # r
      BY <1>1, <1>2, <1>3, <1>4, <2>2, <3>1
    <3>3. QED  BY <1>1, <1>2, <3>1, <3>2
  <2>3. \A v \in Undos : req'[v].at = req[v].at /\ req'[v].of = req[v].of
    BY <1>1, <1>2
  <2>4. QED  BY <1>2, <2>1, <2>2, <2>3, UndoOthers DEF WorldInv
<1>7. QED  BY <1>5, <1>6

\* k and next differ in what there is left to do only.
GoesOn(k, next) ==
  /\ next.was = k.was /\ next.wrote = k.wrote /\ next.back = k.back /\ next.needs = k.needs
  /\ next.others = k.others

LEMMA GoesOnKeeps ==
  ASSUME NEW k, NEW next, GoesOn(k, next)
  PROVE  /\ ComesOrGoes(next) = ComesOrGoes(k)
         /\ \A d, f : Ours(next, d, f) <=> Ours(k, d, f)
         /\ \A w : \A d \in Docs : Restored(k, w, d) => Restored(next, w, d)
         /\ Edits(k) /\ (\A i \in DOMAIN next.todo : \E j \in DOMAIN k.todo : next.todo[i] = k.todo[j])
              => Edits(next)
<1>1. ComesOrGoes(next) = ComesOrGoes(k) /\ \A d, f : Ours(next, d, f) <=> Ours(k, d, f)
  BY DEF GoesOn, ComesOrGoes, Ours
<1>2. \A w : \A d \in Docs : Restored(k, w, d) => Restored(next, w, d)
  BY <1>1 DEF GoesOn, Restored
<1>3. ASSUME Edits(k), \A i \in DOMAIN next.todo : \E j \in DOMAIN k.todo : next.todo[i] = k.todo[j]
      PROVE  Edits(next)
  <2>1. \A d, f : Changes(next.todo, d, f) => Changes(k.todo, d, f)
    BY <1>3 DEF Changes
  <2>2. \A i \in DOMAIN next.todo : IsUpdate(next.todo[i])
    BY <1>3 DEF Edits
  <2>3. QED  BY <1>1, <1>3, <2>1, <2>2 DEF GoesOn, Edits
<1>4. QED  BY <1>1, <1>2, <1>3

LEMMA GoesOnMakes ==
  ASSUME NEW k, NEW next, GoesOn(k, next), next.todo = <<>>, NEW x, Makes(k, x)
  PROVE  Makes(next, x)
<1>1. ComesOrGoes(next) = ComesOrGoes(k)
  BY GoesOnKeeps
<1>2. QED  BY <1>1 DEF GoesOn, Makes

LEMMA GoesOnRemoves ==
  ASSUME NEW k, NEW next, GoesOn(k, next), next.todo = <<>>, NEW x, Removes(k, x)
  PROVE  Removes(next, x)
<1>1. ComesOrGoes(next) = ComesOrGoes(k)
  BY GoesOnKeeps
<1>2. QED  BY <1>1 DEF GoesOn, Removes

LEMMA CallOp ==
  ASSUME WorldInv, NEW c \in Calls, DocOp(c), NEW o, o = Head(req[c].todo)
  PROVE  /\ WorldOK(world') /\ Untouched(o.places, world, world')
         /\ Live(world') \subseteq Live(world) \cup o.absent
         /\ CallAgrees(c)'
<1> DEFINE k == req[c]
           next == req'[c]
<1>1. /\ c \in Requests /\ k.todo \in Seq(Range(k.todo)) /\ k.of = None /\ WorldOK(world)
      /\ k.at = "doing" => IF k.todo = <<>> THEN Done(k, world, k.back) ELSE Undone(k, world, k.back)
  BY DEF Requests, WorldInv, TypeOK, CallAgrees
<1>2. /\ k.at = "doing" /\ k.todo # <<>> /\ o = k.todo[1] /\ 1 \in DOMAIN k.todo
      /\ Possible(o, world) /\ world' = Effect(o, world)
      /\ next.at = "doing" /\ next.of = None /\ next.back = k.back
      /\ next.todo = Due(Tail(k.todo), world') /\ GoesOn(k, next)
  BY <1>1, DocOpRecords DEF GoesOn
<1>3. Undone(k, world, k.back)
  BY <1>1, <1>2
<1>4. /\ Len(k.todo) = 1 => next.todo = <<>>
      /\ \A i \in DOMAIN next.todo : \E j \in DOMAIN k.todo : next.todo[i] = k.todo[j]
  BY <1>1, <1>2, NextDue
<1> HIDE DEF k, next
<1> DEFINE Goal == /\ WorldOK(world') /\ Untouched(o.places, world, world')
                   /\ Live(world') \subseteq Live(world) \cup o.absent
                   /\ IF next.todo = <<>> THEN Done(next, world', k.back)
                      ELSE Undone(next, world', k.back)
<1>5. ASSUME NEW x \in Actors \cup Items, Makes(k, x), \A d \in Docs : Restored(k, world, d)
      PROVE  Goal
  <2>1. IsCreate(o, ComesOrGoes(k)) /\ Len(k.todo) = 1
    BY <1>2, <1>5 DEF Makes
  <2>2. /\ WorldOK(world') /\ Untouched(o.places, world, world')
        /\ \A d \in Docs : world'[d] = IF d \in ComesOrGoes(k) THEN o.writes[d] ELSE world[d]
        /\ \A d \in ComesOrGoes(k) : world[d] = Gone /\ o.writes[d] # Gone
    BY <1>1, <1>2, <2>1, CreateEffect
  <2>3. Live(world') \subseteq Live(world) \cup o.absent
    BY <2>1, <2>2 DEF Live, IsCreate
  <2>4. Makes(next, x) /\ ComesOrGoes(next) = ComesOrGoes(k) /\ next.todo = <<>>
    <3>1. next.todo = <<>>
      BY <1>4, <2>1
    <3>2. ComesOrGoes(next) = ComesOrGoes(k)
      BY <1>2, GoesOnKeeps
    <3>3. Makes(next, x)
      BY <1>2, <1>5, <3>1, GoesOnMakes
    <3>4. QED  BY <3>1, <3>2, <3>3
  <2>5. ASSUME NEW d \in Docs
        PROVE  IF d \in ComesOrGoes(next) THEN Ours(next, d, "self") => world'[d] # Gone
               ELSE Restored(next, world', d)
    <3>1. CASE d \in ComesOrGoes(k)
      BY <2>2, <2>4, <3>1
    <3>2. CASE d \notin ComesOrGoes(k)
      <4>1. Restored(k, world', d)
        BY <1>5, <2>2, <3>2 DEF Restored
      <4>2. QED  BY <1>2, <2>4, <3>2, <4>1, GoesOnKeeps
    <3>3. QED  BY <3>1, <3>2
  <2>6. Done(next, world', k.back)
    BY <2>4, <2>5 DEF Done
  <2>7. QED  BY <2>2, <2>3, <2>4, <2>6
<1>6. ASSUME NEW x \in Actors \cup Items, Removes(k, x), \A d \in Docs : Restored(k, world, d)
      PROVE  Goal
  <2>1. IsDelete(o, x) /\ Len(k.todo) = 1 /\ ComesOrGoes(k) = {x} \cup Children(x)
    BY <1>2, <1>6 DEF Removes
  <2>2. x \in Docs \ {Stage}
    BY Documents
  <2>3. /\ WorldOK(world') /\ Untouched(o.places, world, world')
        /\ \A d \in Docs : world'[d] = IF d \in ComesOrGoes(k) THEN Gone ELSE world[d]
    BY <1>1, <1>2, <2>1, <2>2, DeleteEffect
  <2>4. Live(world') \subseteq Live(world) \cup o.absent
    BY <2>3 DEF Live
  <2>5. Removes(next, x) /\ ComesOrGoes(next) = ComesOrGoes(k) /\ next.todo = <<>>
    <3>1. next.todo = <<>>
      BY <1>4, <2>1
    <3>2. ComesOrGoes(next) = ComesOrGoes(k)
      BY <1>2, GoesOnKeeps
    <3>3. Removes(next, x)
      BY <1>2, <1>6, <3>1, GoesOnRemoves
    <3>4. QED  BY <3>1, <3>2, <3>3
  <2>6. ASSUME NEW d \in Docs
        PROVE  IF d \in ComesOrGoes(next) THEN Ours(next, d, "self") => world'[d] = Gone
               ELSE Restored(next, world', d)
    <3>1. CASE d \in ComesOrGoes(k)
      BY <2>3, <2>5, <3>1
    <3>2. CASE d \notin ComesOrGoes(k)
      <4>1. Restored(k, world', d)
        BY <1>6, <2>3, <3>2 DEF Restored
      <4>2. QED  BY <1>2, <2>5, <3>2, <4>1, GoesOnKeeps
    <3>3. QED  BY <3>1, <3>2
  <2>7. Done(next, world', k.back)
    BY <2>5, <2>6 DEF Done
  <2>8. QED  BY <2>3, <2>4, <2>5, <2>7
<1>7. ASSUME Edited(k, world, k.back)
      PROVE  Goal
  <2>1. Edits(k) /\ IsUpdate(o)
    BY <1>2, <1>7 DEF Edited, Edits
  <2>2. /\ WorldOK(world') /\ Untouched(o.places, world, world')
        /\ \A d \in Docs :
             /\ (world'[d] = Gone) <=> (world[d] = Gone)
             /\ world[d] # Gone => \A f \in Fields(d) :
                  world'[d][f] = IF /\ d \in DOMAIN o.writes /\ f \in DOMAIN o.writes[d]
                                    /\ o.writes[d][f] # Absent
                                 THEN o.writes[d][f] ELSE world[d][f]
    BY <1>1, <1>2, <2>1, UpdateEffect
  <2>3. Live(world') \subseteq Live(world) \cup o.absent
    BY <2>2 DEF Live
  <2>4. Edits(next) /\ next.was = k.was
    BY <1>2, <1>4, <2>1, GoesOnKeeps DEF GoesOn
  <2>5. ASSUME NEW d \in Docs, Ours(next, d, "self")
        PROVE  /\ (k.was[d] = Gone) <=> (world'[d] = Gone)
               /\ k.was[d] # Gone => \A f \in Fields(d) :
                    Ours(next, d, f) /\ k.was[d][f] # Absent =>
                      world'[d][f] = k.was[d][f] \/ Changes(k.back, d, f)
    <3>1. Ours(k, d, "self") /\ \A f : Ours(next, d, f) => Ours(k, d, f)
      BY <1>2, <2>5, GoesOnKeeps
    <3>2. (k.was[d] = Gone) <=> (world'[d] = Gone)
      BY <1>7, <2>2, <3>1 DEF Edited
    <3>3. ASSUME k.was[d] # Gone, NEW f \in Fields(d), Ours(next, d, f), k.was[d][f] # Absent
          PROVE  world'[d][f] = k.was[d][f] \/ Changes(k.back, d, f)
      <4>1. world[d][f] = k.was[d][f] \/ Changes(k.back, d, f)
        BY <1>7, <3>1, <3>3 DEF Edited
      <4>2. CASE d \in DOMAIN o.writes /\ f \in DOMAIN o.writes[d]
        <5>1. Changes(k.todo, d, f)
          BY <1>2, <4>2 DEF Changes
        <5>2. QED  BY <2>1, <3>3, <5>1 DEF Edits
      <4>3. CASE ~(d \in DOMAIN o.writes /\ f \in DOMAIN o.writes[d])
        BY <2>2, <3>2, <3>3, <4>1, <4>3
      <4>4. QED  BY <4>2, <4>3
    <3>4. QED  BY <3>2, <3>3
  <2>6. Edited(next, world', k.back)
    BY <2>4, <2>5 DEF Edited
  <2>7. QED  BY <2>2, <2>3, <2>6 DEF Done, Undone
<1>8. Goal
  BY <1>3, <1>5, <1>6, <1>7 DEF Undone
<1>9. QED  BY <1>2, <1>8 DEF CallAgrees, next

\* An operation of a reversal changes only what the reverted operation wrote.
OnlyOwn(k, w, new) == \A d \in Docs :
  \/ new[d] = w[d] \/ <<d, "self">> \in k.wrote
  \/ d \in Embedded /\ new[d] = Gone /\ new[Owner[d]] = Gone
  \/ /\ Gone \notin {w[d], new[d]}
     /\ \A f \in Fields(d) : new[d][f] = w[d][f] \/ <<d, f>> \in k.wrote

\* What an operation of a reversal does, and how far the reversal has then come.
Reverts(k, o, w, new, due) ==
  /\ WorldOK(new) /\ Untouched(o.places, w, new) /\ Live(new) \subseteq Live(w) \cup o.absent
  /\ IF due = <<>> THEN Undone(k, new, due) ELSE Done(k, new, due)
  /\ Ready(k, new, due) /\ OnlyOwn(k, w, new)

LEMMA RevertsMaking ==
  ASSUME NEW k, NEW w, WorldOK(w), NEW x \in Actors \cup Items, Makes(k, x),
         \A d \in Docs : IF d \in ComesOrGoes(k) THEN Ours(k, d, "self") => w[d] # Gone
                        ELSE Restored(k, w, d),
         NEW o, o = k.back[1]
  PROVE  Reverts(k, o, w, Effect(o, w), <<>>)
<1> DEFINE new == Effect(o, w)
<1>1. /\ IsDelete(o, x) /\ ComesOrGoes(k) \subseteq {x} \cup Children(x) /\ x \in ComesOrGoes(k)
      /\ \A d \in {x} \cup Children(x) : k.was[d] = Gone
  BY DEF Makes
<1>2. x \in Docs \ {Stage}
  BY Documents
<1>3. /\ WorldOK(new) /\ Untouched(o.places, w, new)
      /\ \A d \in Docs : new[d] = IF d \in {x} \cup Children(x) THEN Gone ELSE w[d]
  BY <1>1, <1>2, DeleteEffect
<1> HIDE DEF new
<1>4. Live(new) \subseteq Live(w)
  BY <1>3 DEF Live
<1>5. \A d \in Docs : Restored(k, new, d)
  <2>1. ASSUME NEW d \in {x} \cup Children(x), d \in Docs
        PROVE  Restored(k, new, d)
    BY <1>1, <1>3, <2>1 DEF Restored
  <2>2. ASSUME NEW d \in Docs, d \notin {x} \cup Children(x)
        PROVE  Restored(k, new, d)
    <3>1. Restored(k, w, d) /\ new[d] = w[d]
      BY <1>1, <1>3, <2>2
    <3>2. QED  BY <3>1 DEF Restored
  <2>3. QED  BY <2>1, <2>2
<1>6. OnlyOwn(k, w, new)
  <2>1. <<x, "self">> \in k.wrote
    BY <1>1 DEF ComesOrGoes
  <2>2. \A d \in Children(x) : d \in Embedded /\ Owner[d] = x /\ d \in Docs
    BY Documents DEF Children
  <2>3. QED  BY <1>2, <1>3, <2>1, <2>2 DEF OnlyOwn
<1>7. Undone(k, new, <<>>) /\ Ready(k, new, <<>>)
  BY <1>5 DEF Undone, Ready
<1>8. QED  BY <1>3, <1>4, <1>6, <1>7 DEF Reverts, new

LEMMA RevertsRemoval ==
  ASSUME NEW k, NEW w, WorldOK(w), NEW x \in Actors \cup Items, Removes(k, x),
         \A d \in Docs : IF d \in ComesOrGoes(k) THEN Ours(k, d, "self") => w[d] = Gone
                        ELSE Restored(k, w, d),
         NEW o, o = k.back[1], Possible(o, w)
  PROVE  Reverts(k, o, w, Effect(o, w), <<>>)
<1> DEFINE new == Effect(o, w)
           docs == ComesOrGoes(k) \cap Live(k.was)
<1>1. /\ IsCreate(o, docs) /\ \A d \in docs : o.writes[d] = k.was[d]
  BY DEF Removes
<1>2. /\ WorldOK(new) /\ Untouched(o.places, w, new)
      /\ \A d \in Docs : new[d] = IF d \in docs THEN o.writes[d] ELSE w[d]
      /\ \A d \in docs : w[d] = Gone /\ o.writes[d] # Gone
  BY <1>1, CreateEffect
<1> HIDE DEF new
<1>3. Live(new) \subseteq Live(w) \cup o.absent
  BY <1>1, <1>2 DEF Live, IsCreate
<1>4. \A d \in Docs : Restored(k, new, d)
  <2>1. ASSUME NEW d \in Docs, d \in docs
        PROVE  Restored(k, new, d)
    <3>1. new[d] = k.was[d] /\ k.was[d] # Gone
      BY <1>1, <1>2, <2>1 DEF Live
    <3>2. QED  BY <3>1 DEF Restored
  <2>2. ASSUME NEW d \in Docs, d \in ComesOrGoes(k), d \notin docs
        PROVE  Restored(k, new, d)
    <3>1. k.was[d] = Gone /\ new[d] = w[d] /\ (Ours(k, d, "self") => w[d] = Gone)
      BY <1>2, <2>2 DEF Live
    <3>2. QED  BY <3>1 DEF Restored
  <2>3. ASSUME NEW d \in Docs, d \notin ComesOrGoes(k)
        PROVE  Restored(k, new, d)
    <3>1. Restored(k, w, d) /\ new[d] = w[d]
      BY <1>2, <2>3
    <3>2. QED  BY <3>1 DEF Restored
  <2>4. QED  BY <2>1, <2>2, <2>3
<1>5. OnlyOwn(k, w, new)
  BY <1>2 DEF OnlyOwn, ComesOrGoes
<1>6. Undone(k, new, <<>>) /\ Ready(k, new, <<>>)
  BY <1>4 DEF Undone, Ready
<1>7. QED  BY <1>2, <1>3, <1>5, <1>6 DEF Reverts, new

\* What an update needs when the documents are those that its request found.
LEMMA EditReady ==
  ASSUME NEW k, Edits(k), NEW w, NEW i \in DOMAIN k.back, ~Skipped(k.back[i], w),
         i = 1 => k.needs \subseteq Live(w) \/ k.back[i].optional,
         \A d \in Docs : Ours(k, d, "self") => ((k.was[d] = Gone) <=> (w[d] = Gone))
  PROVE  Possible(k.back[i], w) \/ \E d \in Docs : ~Ours(k, d, "self")
<1>1. IsUpdate(k.back[i]) /\ IF k.back[i].optional THEN TRUE
                             ELSE i = 1 /\ k.back[i].needs \subseteq k.needs \cup Live(k.was)
  BY DEF Edits
<1>2. k.back[i].absent = {}
  BY <1>1 DEF IsUpdate
<1>3. CASE k.back[i].optional
  BY <1>2, <1>3 DEF Skipped, Possible
<1>4. CASE ~k.back[i].optional
  <2>1. SUFFICES ASSUME \A d \in Docs : Ours(k, d, "self")
                 PROVE  k.back[i].needs \subseteq Live(w)
    BY <1>2 DEF Possible
  <2>2. Live(k.was) = Live(w)
    BY <2>1 DEF Live
  <2>3. QED  BY <1>1, <1>4, <2>2
<1>5. QED  BY <1>3, <1>4

\* An update that would be passed over is of a document that is gone.
LEMMA PassedOverIsGone ==
  ASSUME NEW k, Edits(k), NEW i \in DOMAIN k.back, NEW w, Skipped(k.back[i], w),
         NEW d \in DOMAIN k.back[i].writes, d \in Docs
  PROVE  w[d] = Gone
<1>1. k.back[i].optional /\ ~(k.back[i].needs \subseteq Live(w))
  BY DEF Skipped
<1>2. k.back[i].needs = DOMAIN k.back[i].writes /\ IsUpdate(k.back[i])
  BY <1>1 DEF Edits
<1>3. DOMAIN k.back[i].writes = {d}
  BY <1>2 DEF IsUpdate
<1>4. QED  BY <1>1, <1>2, <1>3 DEF Live

LEMMA RevertsEdit ==
  ASSUME NEW k, NEW w, WorldOK(w), NEW rest, rest \in Seq(Range(rest)), rest # <<>>,
         Edited(k, w, rest), Remains(rest, k.back),
         NEW o, o = rest[1], Possible(o, w), NEW new, new = Effect(o, w),
         NEW due, due = Due(Tail(rest), new)
  PROVE  Reverts(k, o, w, new, due)
<1>1. /\ 1 \in DOMAIN rest
      /\ \A i \in DOMAIN due : \E j \in DOMAIN rest : due[i] = rest[j] /\ i < j
      /\ \A j \in DOMAIN rest : \/ j = 1 \/ Skipped(rest[j], new)
                               \/ \E i \in DOMAIN due : due[i] = rest[j]
      /\ due # <<>> => 1 \in DOMAIN due /\ ~Skipped(due[1], new)
  BY NextDue
<1>2. Edits(k) /\ \A i \in DOMAIN rest : \E j \in DOMAIN k.back : rest[i] = k.back[j] /\ i <= j
  BY DEF Edited, Remains
<1>3. PICK j \in DOMAIN k.back : o = k.back[j]
  BY <1>1, <1>2
<1>4. /\ IsUpdate(o) /\ o.places \subseteq k.wrote
      /\ \A d \in DOMAIN o.writes : \A f \in DOMAIN o.writes[d] :
           \/ <<d, f>> \in Derived
           \/ o.writes[d][f] = IF k.was[d] = Gone THEN Absent ELSE k.was[d][f]
  BY <1>2, <1>3 DEF Edits
<1>5. /\ WorldOK(new) /\ Untouched(o.places, w, new)
      /\ \A d \in Docs :
           /\ (new[d] = Gone) <=> (w[d] = Gone)
           /\ w[d] # Gone => \A f \in Fields(d) :
                new[d][f] = IF /\ d \in DOMAIN o.writes /\ f \in DOMAIN o.writes[d]
                               /\ o.writes[d][f] # Absent
                            THEN o.writes[d][f] ELSE w[d][f]
  BY <1>4, UpdateEffect
<1>6. ASSUME NEW d \in Docs, Ours(k, d, "self")
      PROVE  /\ (k.was[d] = Gone) <=> (new[d] = Gone)
             /\ k.was[d] # Gone => \A f \in Fields(d) :
                  Ours(k, d, f) /\ k.was[d][f] # Absent =>
                    new[d][f] = k.was[d][f] \/ Changes(due, d, f)
  <2>1. (k.was[d] = Gone) <=> (new[d] = Gone)
    BY <1>5, <1>6 DEF Edited
  <2>2. ASSUME k.was[d] # Gone, NEW f \in Fields(d), Ours(k, d, f), k.was[d][f] # Absent
        PROVE  new[d][f] = k.was[d][f] \/ Changes(due, d, f)
    <3>1. w[d] # Gone /\ (w[d][f] = k.was[d][f] \/ Changes(rest, d, f))
      BY <1>6, <2>2 DEF Edited
    <3>2. CASE d \in DOMAIN o.writes /\ f \in DOMAIN o.writes[d]
      BY <1>4, <1>5, <2>2, <3>1, <3>2 DEF Ours
    <3>3. CASE ~(d \in DOMAIN o.writes /\ f \in DOMAIN o.writes[d])
      <4>1. new[d][f] = w[d][f]
        BY <1>5, <3>1, <3>3
      <4>2. ASSUME Changes(rest, d, f)
            PROVE  Changes(due, d, f)
        <5>1. PICK i \in DOMAIN rest : d \in DOMAIN rest[i].writes /\ f \in DOMAIN rest[i].writes[d]
          BY <4>2 DEF Changes
        <5>2. i # 1
          BY <3>3, <5>1
        <5>3. ~Skipped(rest[i], new)
          <6>1. PICK m \in DOMAIN k.back : rest[i] = k.back[m]
            BY <1>2
          <6>2. new[d] # Gone
            BY <2>1, <2>2
          <6>3. QED  BY <1>2, <5>1, <6>1, <6>2, PassedOverIsGone
        <5>4. \E m \in DOMAIN due : due[m] = rest[i]
          BY <1>1, <5>2, <5>3
        <5>5. QED  BY <5>1, <5>4 DEF Changes
      <4>3. QED  BY <3>1, <4>1, <4>2
    <3>4. QED  BY <3>2, <3>3
  <2>3. QED  BY <2>1, <2>2
<1>7. Edited(k, new, due)
  BY <1>2, <1>6 DEF Edited
<1>8. Ready(k, new, due)
  <2>1. SUFFICES ASSUME due # <<>>
                 PROVE  Possible(due[1], new) \/ \E d \in Docs : ~Ours(k, d, "self")
    BY DEF Ready
  <2>2. PICK i \in DOMAIN rest : due[1] = rest[i] /\ 1 < i
    BY <1>1, <2>1
  <2>3. PICK m \in DOMAIN k.back : due[1] = k.back[m] /\ i <= m
    BY <1>2, <2>2
  <2>4. m # 1
    <3>1. DOMAIN rest = 1..Len(rest) /\ Len(rest) \in Nat
      BY LenProperties
    <3>2. QED  BY <2>2, <2>3, <3>1
  <2>5. ~Skipped(k.back[m], new)
    BY <1>1, <2>1, <2>3
  <2>6. \A d \in Docs : Ours(k, d, "self") => ((k.was[d] = Gone) <=> (new[d] = Gone))
    BY <1>6
  <2>7. Possible(k.back[m], new) \/ \E d \in Docs : ~Ours(k, d, "self")
    BY <1>2, <2>4, <2>5, <2>6, EditReady
  <2>8. QED  BY <2>3, <2>7
<1>9. OnlyOwn(k, w, new)
  <2>1. ASSUME NEW d \in Docs, NEW f \in Fields(d), w[d] # Gone, new[d][f] # w[d][f]
        PROVE  <<d, f>> \in k.wrote
    <3>1. d \in DOMAIN o.writes /\ f \in DOMAIN o.writes[d]
      BY <1>5, <2>1
    <3>2. <<d, f>> \in o.places
      BY <1>4, <3>1 DEF IsUpdate
    <3>3. QED  BY <1>4, <3>2
  <2>2. QED  BY <1>5, <2>1 DEF OnlyOwn
<1>10. Live(new) \subseteq Live(w)
  BY <1>5 DEF Live
<1>11. QED  BY <1>5, <1>7, <1>8, <1>9, <1>10 DEF Reverts, Done, Undone

LEMMA UndoOp ==
  ASSUME WorldInv, NEW u \in Undos, DocOp(u), NEW o, o = Head(req[u].todo)
  PROVE  /\ Reverts(req[req[u].of], o, world, world', req'[u].todo)
         /\ UndoAgrees(u)'
<1> DEFINE c == req[u].of
           k == req[c]
           rest == req[u].todo
           due == req'[u].todo
<1>1. /\ u \in Requests /\ WorldOK(world) /\ rest \in Seq(Range(rest))
      /\ req[u].at = "doing" =>
           /\ c \in Calls /\ k.at = "spent"
           /\ \A v \in Undos : req[v].at = "doing" /\ req[v].of = c => v = u
           /\ Remains(rest, k.back) /\ IF rest = <<>> THEN Undone(k, world, rest) ELSE Done(k, world, rest)
  BY DEF Requests, WorldInv, TypeOK, UndoAgrees
<1>2. /\ req[u].at = "doing" /\ rest # <<>> /\ o = rest[1] /\ 1 \in DOMAIN rest
      /\ Possible(o, world) /\ world' = Effect(o, world) /\ due = Due(Tail(rest), world')
      /\ req'[u].at = "doing" /\ req'[u].of = c
  BY <1>1, DocOpRecords
<1>3. /\ req'[c] = k
      /\ \A v \in Undos : req'[v].at = req[v].at /\ req'[v].of = req[v].of
  <2>1. c # u /\ c \in Requests
    BY <1>1, <1>2, WorldAssumption DEF Requests
  <2>2. QED  BY <1>1, <2>1, DocOpRecords DEF Requests
<1>4. /\ c \in Calls /\ k.at = "spent" /\ Remains(rest, k.back) /\ Done(k, world, rest)
      /\ \A v \in Undos : req[v].at = "doing" /\ req[v].of = c => v = u
  BY <1>1, <1>2
<1>5. /\ due \in Seq(Range(due)) /\ Len(due) < Len(rest) /\ (Len(rest) = 1 => due = <<>>)
      /\ \A i \in DOMAIN due : \E j \in DOMAIN rest : due[i] = rest[j] /\ i < j
  BY <1>1, <1>2, NextDue
<1> HIDE DEF c, k, rest, due
<1>6. /\ Len(rest) \in Nat \ {0} /\ DOMAIN rest = 1..Len(rest)
      /\ Len(due) \in Nat /\ DOMAIN due = 1..Len(due)
  BY <1>1, <1>2, <1>5, EmptySeq, LenProperties
<1>7. PICK j \in DOMAIN k.back : o = k.back[j] /\ 1 <= j
  BY <1>2, <1>4 DEF Remains
<1>8. Remains(due, k.back)
  <2>1. Len(due) <= Len(k.back)
    <3>1. Len(rest) <= Len(k.back)
      BY <1>4 DEF Remains
    <3>2. Len(k.back) \in Nat
      BY <1>4 DEF k, WorldInv, TypeOK, Requests
    <3>3. QED  BY <1>5, <1>6, <3>1, <3>2
  <2>2. ASSUME NEW i \in DOMAIN due
        PROVE  \E m \in DOMAIN k.back : due[i] = k.back[m] /\ i <= m
    <3>1. PICK n \in DOMAIN rest : due[i] = rest[n] /\ i < n
      BY <1>5
    <3>2. PICK m \in DOMAIN k.back : rest[n] = k.back[m] /\ n <= m
      BY <1>4 DEF Remains
    <3>3. m \in Nat
      <4>1. k.back \in Seq(Range(k.back))
        BY <1>4 DEF k, WorldInv, TypeOK, Requests
      <4>2. QED  BY <4>1, LenProperties
    <3>4. QED  BY <1>6, <3>1, <3>2, <3>3
  <2>3. QED  BY <2>1, <2>2 DEF Remains
<1>9. Len(k.back) = 1 => o = k.back[1] /\ due = <<>>
  <2>1. ASSUME Len(k.back) = 1
        PROVE  o = k.back[1] /\ due = <<>>
    <3>1. k.back \in Seq(Range(k.back))
      BY <1>4 DEF k, WorldInv, TypeOK, Requests
    <3>2. j = 1
      BY <2>1, <3>1, LenProperties
    <3>3. Len(rest) = 1
      BY <1>4, <1>6, <2>1 DEF Remains
    <3>4. QED  BY <1>5, <1>7, <3>2, <3>3
  <2>2. QED  BY <2>1
<1>10. Reverts(k, o, world, world', due)
  <2>1. ASSUME NEW x \in Actors \cup Items, Makes(k, x),
               \A d \in Docs : IF d \in ComesOrGoes(k) THEN Ours(k, d, "self") => world[d] # Gone
                              ELSE Restored(k, world, d)
        PROVE  Reverts(k, o, world, world', due)
    <3>1. o = k.back[1] /\ due = <<>>
      BY <1>9, <2>1 DEF Makes
    <3>2. Reverts(k, o, world, Effect(o, world), <<>>)
      BY <1>1, <2>1, <3>1, RevertsMaking
    <3>3. QED  BY <1>2, <3>1, <3>2
  <2>2. ASSUME NEW x \in Actors \cup Items, Removes(k, x),
               \A d \in Docs : IF d \in ComesOrGoes(k) THEN Ours(k, d, "self") => world[d] = Gone
                              ELSE Restored(k, world, d)
        PROVE  Reverts(k, o, world, world', due)
    <3>1. o = k.back[1] /\ due = <<>>
      BY <1>9, <2>2 DEF Removes
    <3>2. Reverts(k, o, world, Effect(o, world), <<>>)
      BY <1>1, <1>2, <2>2, <3>1, RevertsRemoval
    <3>3. QED  BY <1>2, <3>1, <3>2
  <2>3. CASE Edited(k, world, rest)
    BY <1>1, <1>2, <1>4, <2>3, RevertsEdit
  <2>4. QED  BY <1>4, <2>1, <2>2, <2>3 DEF Done
<1>11. UndoAgrees(u)'
  <2>1. /\ c \in Calls /\ k.at = "spent" /\ Remains(due, k.back)
        /\ IF due = <<>> THEN Undone(k, world', due) ELSE Done(k, world', due)
        /\ Ready(k, world', due)
        /\ \A v \in Undos : req'[v].at = "doing" /\ req'[v].of = c => v = u
    BY <1>3, <1>4, <1>8, <1>10 DEF Reverts
  <2>2. QED  BY <1>2, <1>3, <2>1 DEF UndoAgrees, due
<1>12. QED  BY <1>10, <1>11 DEF c, k, due

LEMMA DocOpTypes ==
  ASSUME WorldInv, NEW r \in Requests, DocOp(r), NEW o, o = Head(req[r].todo),
         WorldOK(world'), Live(world') \subseteq Live(world) \cup o.absent,
         o.absent \cap unused = {}
  PROVE  TypeOK'
<1>1. /\ req[r].todo # <<>> /\ unused' = unused /\ DOMAIN req' = Requests
      /\ \A s \in Requests :
           /\ DOMAIN req'[s] = DOMAIN Nothing /\ req'[s].at = req[s].at
           /\ req'[s].back = req[s].back /\ (s # r => req'[s].todo = req[s].todo)
      /\ req'[r].todo = Due(Tail(req[r].todo), world')
  BY DocOpRecords
<1>2. /\ \A s \in Requests :
           /\ req[s].at \in {"none", "doing", "ok", "spent", "over"}
           /\ req[s].todo \in Seq(Range(req[s].todo)) /\ req[s].back \in Seq(Range(req[s].back))
      /\ unused \subseteq Docs \ Live(world)
      /\ \A s \in Calls : OpsOK(req[s].todo) /\ OpsOK(req[s].back)
  BY DEF WorldInv, TypeOK
<1>3. /\ req'[r].todo \in Seq(Range(req'[r].todo))
      /\ \A i \in DOMAIN req'[r].todo : \E j \in DOMAIN req[r].todo : req'[r].todo[i] = req[r].todo[j]
  BY <1>1, <1>2, NextDue
<1>4. unused' \subseteq Docs \ Live(world')
  BY <1>1, <1>2
<1>5. ASSUME NEW s \in Requests
      PROVE  /\ DOMAIN req'[s] = DOMAIN Nothing
             /\ req'[s].at \in {"none", "doing", "ok", "spent", "over"}
             /\ req'[s].todo \in Seq(Range(req'[s].todo)) /\ req'[s].back \in Seq(Range(req'[s].back))
  BY <1>1, <1>2, <1>3
<1>6. ASSUME NEW s \in Calls
      PROVE  OpsOK(req[s].todo)' /\ OpsOK(req[s].back)'
  <2>1. s \in Requests
    BY DEF Requests
  <2>2. OpsOK(req[s].back)'
    BY <1>1, <1>2, <2>1 DEF OpsOK
  <2>3. CASE s = r
    BY <1>1, <1>2, <1>3, <2>2, <2>3 DEF OpsOK
  <2>4. CASE s # r
    BY <1>1, <1>2, <2>1, <2>2, <2>4 DEF OpsOK
  <2>5. QED  BY <2>3, <2>4
<1>7. QED  BY <1>1, <1>4, <1>5, <1>6 DEF TypeOK

LEMMA DocOpKeeps ==
  ASSUME WorldInv, NEW r \in Requests, DocOp(r)
  PROVE  WorldInv'
<1> DEFINE o == Head(req[r].todo)
<1>1. CASE r \in Calls
  <2>1. /\ WorldOK(world') /\ Untouched(o.places, world, world')
        /\ Live(world') \subseteq Live(world) \cup o.absent /\ CallAgrees(r)'
    BY <1>1, CallOp
  <2>2. o.absent \cap unused = {}
    <3>1. o = req[r].todo[1] /\ 1 \in DOMAIN req[r].todo
      BY DocOpRecords
    <3>2. QED  BY <1>1, <3>1 DEF WorldInv, TypeOK, OpsOK
  <2> HIDE DEF o
  <2>3. TypeOK'
    BY <2>1, <2>2, DocOpTypes DEF o
  <2>4. /\ \A s \in Calls \ {r} : CallAgrees(s)'
        /\ \A u \in Undos \ {r} : UndoAgrees(u)'
    BY <2>1, DocOpBeside DEF o
  <2>5. r \notin Undos
    BY <1>1, WorldAssumption
  <2>6. QED  BY <2>1, <2>3, <2>4, <2>5 DEF WorldInv
<1>2. CASE r \in Undos
  <2>1. Reverts(req[req[r].of], o, world, world', req'[r].todo) /\ UndoAgrees(r)'
    BY <1>2, UndoOp
  <2>2. o.absent \cap unused = {}
    <3>1. o = req[r].todo[1] /\ 1 \in DOMAIN req[r].todo /\ req[r].at = "doing"
      BY DocOpRecords
    <3>2. PICK j \in DOMAIN req[req[r].of].back : o = req[req[r].of].back[j]
      BY <1>2, <3>1 DEF WorldInv, UndoAgrees, Remains
    <3>3. req[r].of \in Calls
      BY <1>2, <3>1 DEF WorldInv, UndoAgrees
    <3>4. QED  BY <3>2, <3>3 DEF WorldInv, TypeOK, OpsOK
  <2> HIDE DEF o
  <2>3. TypeOK'
    BY <2>1, <2>2, DocOpTypes DEF o, Reverts
  <2>4. /\ \A s \in Calls \ {r} : CallAgrees(s)'
        /\ \A u \in Undos \ {r} : UndoAgrees(u)'
    BY <2>1, DocOpBeside DEF o, Reverts
  <2>5. r \notin Calls
    BY <1>2, WorldAssumption
  <2>6. QED  BY <2>1, <2>3, <2>4, <2>5 DEF WorldInv
<1>3. QED  BY <1>1, <1>2 DEF Requests

-----------------------------------------------------------------------------
(* The other steps *)

\* A step that leaves the world alone and gives records that are in order.
LEMMA RecordTypes ==
  ASSUME WorldInv, world' = world, unused' = unused, DOMAIN req' = Requests,
         \A s \in Requests :
           \/ req'[s] = Over
           \/ /\ DOMAIN req'[s] = DOMAIN Nothing
              /\ req'[s].at \in {"none", "doing", "ok", "spent", "over"}
              /\ req'[s].back = req[s].back
              /\ \/ req'[s].todo = req[s].todo
                 \/ s \in Undos /\ req'[s].todo \in Seq(Range(req'[s].todo))
  PROVE  TypeOK'
<1>1. WorldOK(world') /\ unused' \subseteq Docs \ Live(world')
  BY DEF WorldInv, TypeOK
<1>2. DOMAIN Over = DOMAIN Nothing /\ Over.at = "over" /\ Over.todo = <<>> /\ Over.back = <<>>
  BY DEF Over, Nothing
<1>3. <<>> \in Seq(Range(<<>>)) /\ DOMAIN <<>> = {}
  OBVIOUS
<1>4. ASSUME NEW s \in Requests
      PROVE  /\ DOMAIN req'[s] = DOMAIN Nothing
             /\ req'[s].at \in {"none", "doing", "ok", "spent", "over"}
             /\ req'[s].todo \in Seq(Range(req'[s].todo)) /\ req'[s].back \in Seq(Range(req'[s].back))
  <2>1. CASE req'[s] = Over
    BY <1>2, <1>3, <2>1
  <2>2. CASE req'[s] # Over
    BY <2>2 DEF WorldInv, TypeOK
  <2>3. QED  BY <2>1, <2>2
<1>5. ASSUME NEW s \in Calls
      PROVE  OpsOK(req[s].todo)' /\ OpsOK(req[s].back)'
  <2>1. s \in Requests /\ s \notin Undos /\ OpsOK(req[s].todo) /\ OpsOK(req[s].back)
    BY WorldAssumption DEF Requests, WorldInv, TypeOK
  <2>2. CASE req'[s] = Over
    BY <1>2, <1>3, <2>2 DEF OpsOK
  <2>3. CASE req'[s] # Over
    BY <2>1, <2>3 DEF OpsOK
  <2>4. QED  BY <2>2, <2>3
<1>6. QED  BY <1>1, <1>4, <1>5 DEF TypeOK

LEMMA OverAgrees ==
  ASSUME NEW r \in Requests, req'[r] = Over
  PROVE  CallAgrees(r)' /\ UndoAgrees(r)'
<1>1. Over.at = "over" /\ Over.todo = <<>> /\ Over.of = None
  BY DEF Over, Nothing
<1>2. QED  BY <1>1 DEF CallAgrees, UndoAgrees

LEMMA EndKeeps ==
  ASSUME WorldInv, NEW r \in Requests, Finish(r) \/ Fails(r)
  PROVE  WorldInv'
<1>1. /\ req[r].at = "doing" /\ world' = world /\ unused' = unused
      /\ DOMAIN req' = Requests /\ \A s \in Requests : s # r => req'[s] = req[s]
      /\ DOMAIN req[r] = DOMAIN Nothing /\ DOMAIN req = Requests
  BY DEF WorldInv, TypeOK, Finish, Fails
<1>2. \/ req'[r] = Over
      \/ /\ r \in Calls /\ req[r].todo = <<>> /\ req'[r].at = "ok" /\ req'[r].of = req[r].of
         /\ DOMAIN req'[r] = DOMAIN Nothing /\ SameButOthers(req[r], req'[r], {})
  <2>1. CASE r \in Calls /\ Finish(r)
    BY <1>1, <2>1 DEF Finish, SameButOthers, Nothing
  <2>2. CASE ~(r \in Calls /\ Finish(r))
    BY <1>1, <2>2 DEF Finish, Fails
  <2>3. QED  BY <2>1, <2>2
<1>3. CallAgrees(r)' \/ r \notin Calls
  <2>1. CASE req'[r] = Over
    BY <2>1, OverAgrees
  <2>2. CASE req'[r] # Over
    <3>1. Done(req[r], world, req[r].back) /\ req[r].of = None /\ r \in Calls /\ req[r].todo = <<>>
      BY <1>1, <1>2, <2>2 DEF WorldInv, CallAgrees
    <3>2. Untouched({}, world, world)
      BY DEF Untouched
    <3>3. Done(req'[r], world, req[r].back)
      BY <1>2, <2>2, <3>1, <3>2, OthersDone
    <3>4. req'[r].back = req[r].back /\ req'[r].todo = <<>> /\ req'[r].of = None /\ req'[r].at = "ok"
      BY <1>2, <2>2, <3>1 DEF SameButOthers
    <3>5. QED  BY <1>1, <3>3, <3>4 DEF CallAgrees
  <2>3. QED  BY <2>1, <2>2
<1>4. ASSUME NEW s \in Calls
      PROVE  CallAgrees(s)'
  BY <1>1, <1>3, CallStays DEF WorldInv, Requests
<1>5. ASSUME NEW u \in Undos
      PROVE  UndoAgrees(u)'
  <2>1. CASE u = r
    <3>1. req'[r] = Over
      BY <1>2, <2>1, WorldAssumption
    <3>2. QED  BY <2>1, <3>1, OverAgrees
  <2>2. CASE u # r
    <3>1. u \in Requests /\ req'[u] = req[u] /\ UndoAgrees(u)
      BY <1>1, <2>2 DEF Requests, WorldInv
    <3>2. ASSUME req[u].at = "doing"
          PROVE  req'[req[u].of] = req[req[u].of]
      BY <1>1, <3>1, <3>2 DEF UndoAgrees, Requests
    <3>3. \A v \in Undos : req'[v].at = "doing" => req'[v] = req[v]
      <4>1. r \in Undos => req'[r].at = "over"
        BY <1>2, WorldAssumption DEF Over, Nothing
      <4>2. QED  BY <1>1, <4>1 DEF Requests
    <3>4. QED  BY <1>1, <3>1, <3>2, <3>3, UndoStays DEF WorldInv
  <2>3. QED  BY <2>1, <2>2
<1>6. TypeOK'
  <2>1. ASSUME NEW s \in Requests
        PROVE  \/ req'[s] = Over
               \/ /\ DOMAIN req'[s] = DOMAIN Nothing
                  /\ req'[s].at \in {"none", "doing", "ok", "spent", "over"}
                  /\ req'[s].back = req[s].back /\ req'[s].todo = req[s].todo
    BY <1>1, <1>2 DEF SameButOthers, WorldInv, TypeOK
  <2>2. QED  BY <1>1, <2>1, RecordTypes
<1>7. QED  BY <1>4, <1>5, <1>6 DEF WorldInv

\* When a reversal begins, what is due of it can be done.
LEMMA ReversalBegins ==
  ASSUME NEW k, NEW w, WorldOK(w), k.back \in Seq(Range(k.back)), k.needs \subseteq Live(w),
         Done(k, w, k.back), NEW rest, rest = Due(k.back, w)
  PROVE  /\ IF rest = <<>> THEN Undone(k, w, rest) ELSE Done(k, w, rest)
         /\ Ready(k, w, rest) /\ Remains(rest, k.back) /\ rest \in Seq(Range(rest))
<1>1. /\ rest \in Seq(Range(rest)) /\ Len(rest) <= Len(k.back)
      /\ \A i \in DOMAIN rest : \E j \in DOMAIN k.back : rest[i] = k.back[j] /\ i <= j
      /\ \A j \in DOMAIN k.back : (\E i \in DOMAIN rest : rest[i] = k.back[j]) \/ Skipped(k.back[j], w)
      /\ rest # <<>> => 1 \in DOMAIN rest /\ ~Skipped(rest[1], w)
  BY DueOf
<1>2. Remains(rest, k.back)
  BY <1>1 DEF Remains
<1>3. Len(k.back) = 1 => DOMAIN k.back = {1}
  BY LenProperties
<1>4. ASSUME NEW x \in Actors \cup Items, Makes(k, x),
             \A d \in Docs : IF d \in ComesOrGoes(k) THEN Ours(k, d, "self") => w[d] # Gone
                            ELSE Restored(k, w, d)
      PROVE  /\ IF rest = <<>> THEN Undone(k, w, rest) ELSE Done(k, w, rest)
             /\ Ready(k, w, rest)
  <2>1. /\ DOMAIN k.back = {1} /\ IsDelete(k.back[1], x)
        /\ x \in ComesOrGoes(k) /\ ComesOrGoes(k) \subseteq {x} \cup Children(x)
        /\ \A d \in {x} \cup Children(x) : k.was[d] = Gone
    BY <1>3, <1>4 DEF Makes
  <2>2. x \in Docs /\ k.back[1].needs = {x} /\ k.back[1].absent = {}
    BY <2>1, Documents DEF IsDelete
  <2>3. CASE rest = <<>>
    <3>1. w[x] = Gone
      <4>1. Skipped(k.back[1], w)
        BY <1>1, <2>1, <2>3
      <4>2. QED  BY <2>2, <4>1 DEF Skipped, Live
    <3>2. \A d \in Children(x) : w[d] = Gone
      BY <3>1 DEF Children, WorldOK
    <3>3. ASSUME NEW d \in Docs
          PROVE  Restored(k, w, d)
      <4>1. CASE d \in ComesOrGoes(k)
        BY <2>1, <3>1, <3>2, <4>1 DEF Restored
      <4>2. CASE d \notin ComesOrGoes(k)
        BY <1>4, <4>2
      <4>3. QED  BY <4>1, <4>2
    <3>4. QED  BY <1>4, <2>3, <3>3 DEF Undone, Ready
  <2>4. CASE rest # <<>>
    <3>1. rest[1] = k.back[1]
      BY <1>1, <2>1, <2>4
    <3>2. Ready(k, w, rest)
      <4>1. SUFFICES ASSUME \A d \in Docs : Ours(k, d, "self")
                     PROVE  Possible(rest[1], w)
        BY DEF Ready
      <4>2. w[x] # Gone
        BY <1>4, <2>1, <2>2, <4>1
      <4>3. QED  BY <2>2, <3>1, <4>2 DEF Possible, Live
    <3>3. Done(k, w, rest)
      BY <1>4 DEF Done
    <3>4. QED  BY <2>4, <3>2, <3>3
  <2>5. QED  BY <2>3, <2>4
<1>5. ASSUME NEW x \in Actors \cup Items, Removes(k, x),
             \A d \in Docs : IF d \in ComesOrGoes(k) THEN Ours(k, d, "self") => w[d] = Gone
                            ELSE Restored(k, w, d)
      PROVE  /\ IF rest = <<>> THEN Undone(k, w, rest) ELSE Done(k, w, rest)
             /\ Ready(k, w, rest)
  <2>1. /\ DOMAIN k.back = {1} /\ IsCreate(k.back[1], ComesOrGoes(k) \cap Live(k.was))
        /\ k.back[1].needs \subseteq k.needs /\ ~k.back[1].optional
    BY <1>3, <1>5 DEF Removes
  <2>2. rest # <<>>
    <3>1. ~Skipped(k.back[1], w)
      BY <2>1 DEF Skipped
    <3>2. PICK i \in DOMAIN rest : rest[i] = k.back[1]
      BY <1>1, <2>1, <3>1
    <3>3. QED  BY <3>2
  <2>3. rest[1] = k.back[1]
    BY <1>1, <2>1, <2>2
  <2>4. Ready(k, w, rest)
    <3>1. SUFFICES ASSUME \A d \in Docs : Ours(k, d, "self")
                   PROVE  Possible(rest[1], w)
      BY DEF Ready
    <3>2. k.back[1].absent \subseteq ComesOrGoes(k) \cap Docs
      BY <2>1 DEF IsCreate
    <3>3. k.back[1].absent \cap Live(w) = {}
      BY <1>5, <3>1, <3>2 DEF Live
    <3>4. QED  BY <2>1, <2>3, <3>3 DEF Possible
  <2>5. Done(k, w, rest)
    BY <1>5 DEF Done
  <2>6. QED  BY <2>2, <2>4, <2>5
<1>6. ASSUME Edited(k, w, k.back)
      PROVE  /\ IF rest = <<>> THEN Undone(k, w, rest) ELSE Done(k, w, rest)
             /\ Ready(k, w, rest)
  <2>1. Edits(k) /\ \A d \in Docs : Ours(k, d, "self") => ((k.was[d] = Gone) <=> (w[d] = Gone))
    BY <1>6 DEF Edited
  <2>2. ASSUME NEW d \in Docs, Ours(k, d, "self"), k.was[d] # Gone, NEW f \in Fields(d),
               Changes(k.back, d, f)
        PROVE  Changes(rest, d, f)
    <3>1. PICK j \in DOMAIN k.back : d \in DOMAIN k.back[j].writes /\ f \in DOMAIN k.back[j].writes[d]
      BY <2>2 DEF Changes
    <3>2. ~Skipped(k.back[j], w)
      BY <2>1, <2>2, <3>1, PassedOverIsGone
    <3>3. PICK i \in DOMAIN rest : rest[i] = k.back[j]
      BY <1>1, <3>2
    <3>4. QED  BY <3>1, <3>3 DEF Changes
  <2>3. Edited(k, w, rest)
    <3>1. ASSUME NEW d \in Docs, Ours(k, d, "self"), k.was[d] # Gone, NEW f \in Fields(d),
                 Ours(k, d, f), k.was[d][f] # Absent
          PROVE  w[d][f] = k.was[d][f] \/ Changes(rest, d, f)
      BY <1>6, <2>2, <3>1 DEF Edited
    <3>2. QED  BY <2>1, <3>1 DEF Edited
  <2>4. Ready(k, w, rest)
    <3>1. SUFFICES ASSUME rest # <<>>
                   PROVE  Possible(rest[1], w) \/ \E d \in Docs : ~Ours(k, d, "self")
      BY DEF Ready
    <3>2. PICK j \in DOMAIN k.back : rest[1] = k.back[j]
      BY <1>1, <3>1
    <3>3. ~Skipped(k.back[j], w)
      BY <1>1, <3>1, <3>2
    <3>4. Possible(k.back[j], w) \/ \E d \in Docs : ~Ours(k, d, "self")
      BY <2>1, <3>3, EditReady
    <3>5. QED  BY <3>2, <3>4
  <2>5. QED  BY <2>3, <2>4 DEF Done, Undone
<1>7. QED  BY <1>1, <1>2, <1>4, <1>5, <1>6 DEF Done

LEMMA UndoKeeps ==
  ASSUME WorldInv, NEW u \in Undos, NEW r \in Calls, Undo(u, r)
  PROVE  WorldInv'
<1> DEFINE k == req[r]
           rest == Due(k.back, world)
<1>1. /\ u \in Requests /\ r \in Requests /\ u # r /\ DOMAIN req = Requests
      /\ DOMAIN req[r] = DOMAIN Nothing /\ DOMAIN req[u] = DOMAIN Nothing
      /\ k.back \in Seq(Range(k.back)) /\ OpsOK(k.back)
  BY WorldAssumption DEF Requests, WorldInv, TypeOK
<1>2. req[u].at = "none" /\ k.at = "ok" /\ world' = world /\ unused' = unused
  BY DEF Undo
<1>3. Done(k, world, k.back) /\ k.of = None /\ k.todo = <<>>
  BY <1>2 DEF WorldInv, CallAgrees
<1>4. /\ DOMAIN req' = Requests /\ \A s \in Requests \ {u, r} : req'[s] = req[s]
      /\ req'[r] = [k EXCEPT !.at = "spent"]
      /\ req'[u] = IF k.needs \subseteq Live(world)
                   THEN [req[u] EXCEPT !.at = "doing", !.of = r, !.todo = rest] ELSE Over
  BY <1>1 DEF Undo
<1>5. /\ req'[r].at = "spent" /\ req'[r].of = None /\ req'[r].todo = <<>> /\ req'[r].back = k.back
      /\ DOMAIN req'[r] = DOMAIN Nothing /\ SameButOthers(k, req'[r], {})
  BY <1>1, <1>3, <1>4 DEF SameButOthers, Nothing
<1>6. \/ req'[u] = Over
      \/ /\ k.needs \subseteq Live(world) /\ DOMAIN req'[u] = DOMAIN Nothing
         /\ req'[u].at = "doing" /\ req'[u].of = r /\ req'[u].todo = rest
         /\ req'[u].back = req[u].back
  BY <1>1, <1>4 DEF Nothing
<1>7. \A v \in Undos : req[v].at = "doing" => req[v].of # r /\ req[v].of \in Calls
  BY <1>2 DEF WorldInv, UndoAgrees
<1>8. WorldOK(world)
  BY DEF WorldInv, TypeOK
<1>9. k.needs \subseteq Live(world) =>
        /\ IF rest = <<>> THEN Undone(k, world, rest) ELSE Done(k, world, rest)
        /\ Ready(k, world, rest) /\ Remains(rest, k.back) /\ rest \in Seq(Range(rest))
  BY <1>1, <1>3, <1>8, ReversalBegins
<1> HIDE DEF rest
<1>10. UndoAgrees(u)'
  <2>1. CASE req'[u] = Over
    BY <1>1, <2>1, OverAgrees
  <2>2. CASE req'[u] # Over
    <3>1. Untouched({}, world, world)
      BY DEF Untouched
    <3>2. IF rest = <<>> THEN Undone(req'[r], world, rest) ELSE Done(req'[r], world, rest)
      BY <1>5, <1>6, <1>9, <2>2, <3>1, OthersDone, OthersUndone
    <3>3. Ready(req'[r], world, rest)
      <4>1. rest # <<>> => rest[1].needs \subseteq Docs /\ rest[1].absent \subseteq Docs
        <5>1. SUFFICES ASSUME rest # <<>>
                       PROVE  rest[1].needs \subseteq Docs /\ rest[1].absent \subseteq Docs
          OBVIOUS
        <5>2. 1 \in DOMAIN rest
          <6>1. Len(rest) \in Nat \ {0} /\ DOMAIN rest = 1..Len(rest)
            BY <1>6, <1>9, <2>2, <5>1, EmptySeq, LenProperties
          <6>2. QED  BY <6>1
        <5>3. PICK j \in DOMAIN k.back : rest[1] = k.back[j]
          BY <1>6, <1>9, <2>2, <5>2 DEF Remains
        <5>4. QED  BY <1>1, <5>3 DEF OpsOK
      <4>2. QED  BY <1>5, <1>6, <1>9, <2>2, <3>1, <4>1, OthersReady
    <3>4. \A v \in Undos : req'[v].at = "doing" /\ req'[v].of = r => v = u
      BY <1>1, <1>4, <1>7, WorldAssumption DEF Requests
    <3>5. QED  BY <1>2, <1>5, <1>6, <1>9, <2>2, <3>2, <3>3, <3>4 DEF UndoAgrees
  <2>3. QED  BY <2>1, <2>2
<1>11. ASSUME NEW v \in Undos, v # u
       PROVE  UndoAgrees(v)'
  <2>1. v \in Requests /\ v # r /\ req'[v] = req[v] /\ UndoAgrees(v)
    BY <1>1, <1>4, <1>11, WorldAssumption DEF Requests, WorldInv
  <2>2. ASSUME req[v].at = "doing"
        PROVE  req'[req[v].of] = req[req[v].of]
    BY <1>4, <1>7, <2>2, WorldAssumption DEF Requests
  <2>3. ASSUME req[v].at = "doing", NEW t \in Undos, req'[t].at = "doing" /\ req'[t].of = req[v].of
        PROVE  req[t].at = "doing" /\ req[t].of = req[v].of
    <3>1. t # u
      BY <1>6, <1>7, <2>3 DEF Over, Nothing
    <3>2. req'[t] = req[t]
      BY <1>1, <1>4, <3>1, WorldAssumption DEF Requests
    <3>3. QED  BY <2>3, <3>2
  <2>4. QED  BY <1>2, <2>1, <2>2, <2>3, UndoStays DEF WorldInv
<1>12. ASSUME NEW s \in Calls
       PROVE  CallAgrees(s)'
  <2>1. CASE s = r
    BY <1>5, <2>1 DEF CallAgrees
  <2>2. CASE s # r
    <3>1. req'[s] = req[s] /\ CallAgrees(s)
      BY <1>4, <2>2, WorldAssumption DEF Requests, WorldInv
    <3>2. QED  BY <1>2, <3>1, CallStays
  <2>3. QED  BY <2>1, <2>2
<1>13. TypeOK'
  <2>1. ASSUME NEW s \in Requests
        PROVE  \/ req'[s] = Over
               \/ /\ DOMAIN req'[s] = DOMAIN Nothing
                  /\ req'[s].at \in {"none", "doing", "ok", "spent", "over"}
                  /\ req'[s].back = req[s].back
                  /\ \/ req'[s].todo = req[s].todo
                     \/ s \in Undos /\ req'[s].todo \in Seq(Range(req'[s].todo))
    <3>1. CASE s = r
      BY <1>3, <1>5, <3>1
    <3>2. CASE s = u
      BY <1>6, <1>9, <3>2
    <3>3. CASE s \notin {u, r}
      BY <1>4, <3>3 DEF WorldInv, TypeOK
    <3>4. QED  BY <3>1, <3>2, <3>3
  <2>2. QED  BY <1>2, <1>4, <2>1, RecordTypes
<1>14. QED  BY <1>10, <1>11, <1>12, <1>13 DEF WorldInv

LEMMA GmDeletesKeeps ==
  ASSUME WorldInv, NEW d \in Docs, GmDeletes(d)
  PROVE  WorldInv'
<1> DEFINE o == Delete(d)
<1>1. /\ d \in Docs \ {Stage} /\ world' = Effect(o, world) /\ unused' = unused
      /\ DOMAIN req' = Requests /\ DOMAIN req = Requests /\ WorldOK(world)
      /\ \A s \in Requests : req'[s] = IF req[s].at \in {"none", "over"} THEN req[s]
                                       ELSE [req[s] EXCEPT !.others = @ \cup o.places]
  BY DEF GmDeletes, WorldInv, TypeOK
<1>2. IsDelete(o, d)
  BY DEF IsDelete, Delete
<1> HIDE DEF o
<1>3. /\ WorldOK(world') /\ Untouched(o.places, world, world')
      /\ \A e \in Docs : world'[e] = IF e \in {d} \cup Children(d) THEN Gone ELSE world[e]
  BY <1>1, <1>2, DeleteEffect
<1>4. Live(world') \subseteq Live(world)
  BY <1>3 DEF Live
<1>5. ASSUME NEW s \in Requests
      PROVE  /\ DOMAIN req'[s] = DOMAIN Nothing
             /\ req'[s].at = req[s].at /\ req'[s].of = req[s].of
             /\ req'[s].todo = req[s].todo /\ req'[s].back = req[s].back
             /\ req[s].at \in {"none", "over"} \/ SameButOthers(req[s], req'[s], o.places)
  <2>1. DOMAIN req[s] = DOMAIN Nothing
    BY DEF WorldInv, TypeOK
  <2>2. QED  BY <1>1, <2>1 DEF Nothing, SameButOthers
<1>6. ASSUME NEW s \in Calls
      PROVE  CallAgrees(s)'
  <2>1. s \in Requests /\ CallAgrees(s)
    BY DEF Requests, WorldInv
  <2>2. /\ req'[s].at = req[s].at /\ req'[s].of = req[s].of
        /\ \/ req[s].at \in {"none", "spent", "over"} /\ req'[s].todo = req[s].todo
           \/ SameButOthers(req[s], req'[s], o.places)
    BY <1>5, <2>1
  <2>3. QED  BY <1>3, <2>1, <2>2, CallOthers
<1>7. ASSUME NEW u \in Undos
      PROVE  UndoAgrees(u)'
  <2>1. u \in Requests /\ UndoAgrees(u) /\ \A v \in Undos : v \in Requests
    BY DEF Requests, WorldInv
  <2>2. ASSUME req[u].at = "doing"
        PROVE  /\ SameButOthers(req[req[u].of], req'[req[u].of], o.places)
               /\ req'[req[u].of].at = "spent"
    <3>1. req[u].of \in Requests /\ req[req[u].of].at = "spent"
      BY <2>1, <2>2 DEF UndoAgrees, Requests
    <3>2. QED  BY <1>5, <3>1
  <2>3. req'[u].at = req[u].at /\ req'[u].of = req[u].of /\ req'[u].todo = req[u].todo
    BY <1>5, <2>1
  <2>4. \A v \in Undos : req'[v].at = req[v].at /\ req'[v].of = req[v].of
    BY <1>5, <2>1
  <2>5. QED  BY <1>3, <2>1, <2>2, <2>3, <2>4, UndoOthers DEF WorldInv
<1>8. TypeOK'
  <2>1. ASSUME NEW s \in Requests
        PROVE  /\ DOMAIN req'[s] = DOMAIN Nothing
               /\ req'[s].at \in {"none", "doing", "ok", "spent", "over"}
               /\ req'[s].todo \in Seq(Range(req'[s].todo)) /\ req'[s].back \in Seq(Range(req'[s].back))
    BY <1>5 DEF WorldInv, TypeOK
  <2>2. ASSUME NEW s \in Calls
        PROVE  OpsOK(req[s].todo)' /\ OpsOK(req[s].back)'
    <3>1. s \in Requests
      BY DEF Requests
    <3>2. OpsOK(req[s].todo) /\ OpsOK(req[s].back)
      BY DEF WorldInv, TypeOK
    <3>3. req'[s].todo = req[s].todo /\ req'[s].back = req[s].back
      BY <1>5, <3>1
    <3>4. QED  BY <1>1, <3>2, <3>3 DEF OpsOK
  <2>3. unused' \subseteq Docs \ Live(world')
    BY <1>1, <1>4 DEF WorldInv, TypeOK
  <2>4. QED  BY <1>1, <1>3, <2>1, <2>2, <2>3 DEF TypeOK
<1>9. QED  BY <1>6, <1>7, <1>8 DEF WorldInv

LEMMA InitInv ==
  ASSUME Init
  PROVE  WorldInv
<1>1. world = Start /\ unused = Docs \ Live(Start) /\ req = [r \in Requests |-> Nothing]
  BY DEF Init
<1>2. /\ Nothing.at = "none" /\ Nothing.of = None /\ Nothing.todo = <<>> /\ Nothing.back = <<>>
  BY DEF Nothing
<1>3. <<>> \in Seq(Range(<<>>)) /\ DOMAIN <<>> = {}
  OBVIOUS
<1>4. WorldOK(Start)
  BY WorldAssumption DEF WorldOK
<1>5. \A r \in Requests : req[r] = Nothing
  BY <1>1
<1>6. TypeOK
  BY <1>1, <1>2, <1>3, <1>4, <1>5 DEF TypeOK, OpsOK, Requests
<1>7. /\ \A r \in Calls : CallAgrees(r)
      /\ \A u \in Undos : UndoAgrees(u)
  BY <1>2, <1>5 DEF CallAgrees, UndoAgrees, Requests
<1>8. QED  BY <1>6, <1>7 DEF WorldInv

LEMMA StutterKeeps ==
  ASSUME WorldInv, UNCHANGED vars
  PROVE  WorldInv'
<1>1. world' = world /\ unused' = unused /\ req' = req
  BY DEF vars
<1>2. TypeOK'
  BY <1>1 DEF WorldInv, TypeOK, OpsOK
<1>3. ASSUME NEW s \in Calls
      PROVE  CallAgrees(s)'
  BY <1>1, CallStays DEF WorldInv
<1>4. ASSUME NEW u \in Undos
      PROVE  UndoAgrees(u)'
  BY <1>1, UndoStays DEF WorldInv
<1>5. QED  BY <1>2, <1>3, <1>4 DEF WorldInv

\* Whatever requests, failures and deletions by hand there are, in any order: every
\* snapshot of a request reverts what the request did, and every reversal under way
\* has reverted just what is not left of it (undo.mjs, applyServerSide, and the
\* captures of the mutation tools).
THEOREM WorldInvariant == WorldSpec => []WorldInv
<1>1. Init => WorldInv
  BY InitInv
<1>2. WorldInv /\ [Next]_vars => WorldInv'
  <2>1. SUFFICES ASSUME WorldInv, [Next]_vars
                 PROVE  WorldInv'
    OBVIOUS
  <2>2. ASSUME NEW r \in Calls, Mutation(r)
        PROVE  WorldInv'
    BY <2>1, <2>2, MutationKeeps
  <2>3. ASSUME NEW r \in Requests, DocOp(r)
        PROVE  WorldInv'
    BY <2>1, <2>3, DocOpKeeps
  <2>4. ASSUME NEW r \in Requests, Finish(r) \/ Refused(r) \/ DbFails(r)
        PROVE  WorldInv'
    BY <2>1, <2>4, EndKeeps DEF Refused, DbFails
  <2>5. ASSUME NEW u \in Undos, NEW r \in Calls, Undo(u, r)
        PROVE  WorldInv'
    BY <2>1, <2>5, UndoKeeps
  <2>6. ASSUME NEW d \in Docs, GmDeletes(d)
        PROVE  WorldInv'
    BY <2>1, <2>6, GmDeletesKeeps
  <2>7. CASE UNCHANGED vars
    BY <2>1, <2>7, StutterKeeps
  <2>8. QED  BY <2>1, <2>2, <2>3, <2>4, <2>5, <2>6, <2>7 DEF Next
<1>3. QED  BY <1>1, <1>2, PTL DEF WorldSpec

-----------------------------------------------------------------------------
(* What follows for an undo *)

\* When an undo is through, every place that nobody else has written since its
\* operation began is as that found it (undo.mjs, applyServerSide).
THEOREM UndoneIsRestored == WorldSpec => UndoRestores
<1> DEFINE Holds == \A u \in Undos : Finish(u) => \A d \in Docs : Restored(req[req[u].of], world, d)
<1>1. WorldInv => Holds
  <2>1. SUFFICES ASSUME WorldInv, NEW u \in Undos, Finish(u), NEW d \in Docs
                 PROVE  Restored(req[req[u].of], world, d)
    OBVIOUS
  <2> DEFINE k == req[req[u].of]
  <2>2. Undone(k, world, <<>>)
    BY <2>1 DEF Finish, WorldInv, UndoAgrees
  <2>3. DOMAIN <<>> = {}
    OBVIOUS
  <2> HIDE DEF k
  <2>4. ASSUME Edited(k, world, <<>>)
        PROVE  Restored(k, world, d)
    <3>1. \A f : ~Changes(<<>>, d, f)
      BY <2>3 DEF Changes
    <3>2. QED  BY <2>4, <3>1 DEF Edited, Restored
  <2>5. QED  BY <2>2, <2>4 DEF Undone, k
<1>2. QED  BY <1>1, WorldInvariant, PTL DEF UndoRestores

\* An undo that has begun is refused by the world only when somebody else removed
\* or brought back a document since its operation began.
THEOREM RefusalHasReason == WorldSpec => RefusedForAReason
<1> DEFINE Holds == \A u \in Undos : Refused(u) =>
                      \E d \in Docs : <<d, "self">> \in req[req[u].of].others
<1>1. WorldInv => Holds
  <2>1. SUFFICES ASSUME WorldInv, NEW u \in Undos, Refused(u)
                 PROVE  \E d \in Docs : <<d, "self">> \in req[req[u].of].others
    OBVIOUS
  <2>2. /\ req[u].at = "doing" /\ req[u].todo # <<>> /\ ~Possible(Head(req[u].todo), world)
    BY <2>1 DEF Refused, Fails
  <2>3. Ready(req[req[u].of], world, req[u].todo)
    BY <2>1, <2>2 DEF WorldInv, UndoAgrees
  <2>4. Head(req[u].todo) = req[u].todo[1]
    <3>1. req[u].todo \in Seq(Range(req[u].todo))
      BY <2>1 DEF WorldInv, TypeOK, Requests
    <3>2. QED  BY <2>2, <3>1, NextDue
  <2>5. \A d \in Docs : <<d, "self">> \notin Derived
    BY WorldAssumption
  <2>6. QED  BY <2>2, <2>3, <2>4, <2>5 DEF Ready, Ours
<1>2. QED  BY <1>1, WorldInvariant, PTL DEF RefusedForAReason

\* No operation of a reversal changes what the reverted operation has not written,
\* but for what has been put into a document that it deletes again.
THEOREM ReversalKeepsOthers == WorldSpec => UndoTouchesOnlyOwn
<1> DEFINE Holds == \A u \in Undos : DocOp(u) => OnlyOwn(req[req[u].of], world, world')
<1>1. WorldInv => Holds
  <2>1. SUFFICES ASSUME WorldInv, NEW u \in Undos, DocOp(u)
                 PROVE  OnlyOwn(req[req[u].of], world, world')
    OBVIOUS
  <2>2. QED  BY <2>1, UndoOp DEF Reverts
<1>2. QED  BY <1>1, WorldInvariant, PTL DEF UndoTouchesOnlyOwn, OnlyOwn
=============================================================================
