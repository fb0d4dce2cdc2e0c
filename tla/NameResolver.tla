---------------------------- MODULE NameResolver ----------------------------
(***************************************************************************)
(* Finding a document by id or by name (shared/resolver.mjs): an exact id, *)
(* an exact name, or the one name that is similar enough and clearly the   *)
(* most similar.  A name is a sequence of letters, trimmed and in lower    *)
(* case; a score 1 - distance / longest is a pair of numbers.  The code    *)
(* computes with doubles: those of two scores are ordered as the scores    *)
(* are, and reach 0.7 exactly when they do, but of two scores that differ  *)
(* by just 1/20 the difference may come out below 0.05 (0.95 - 0.9 does,   *)
(* 0.8 - 0.75 does not).  Short are the scores from which it does.         *)
(***************************************************************************)
EXTENDS Integers, SequencesExt

CONSTANTS
  Queries, Texts,  \* what is asked for, and the ids and names there may be
  Short            \* scores, as pairs of numbers, that are just short of the margin

ASSUME NameAssumption == \A x \in Queries \cup Texts : x \in Seq(Range(x))

\* The default threshold 0.7 and the default margin 0.05.
AboveThreshold(s) == 10 * s.of >= 7 * s.length
WithinMargin(s, t) ==
  LET lead == 20 * (s.of * t.length - t.of * s.length)
      margin == s.length * t.length
  IN lead < margin \/ (lead = margin /\ s \in Short)
Better(s, t) == s.of * t.length > t.of * s.length

\* Mutant: a letter that differs costs two edits.
NextRowWithoutSubstitution(a, b, i, prev) ==
  LET curr[j \in 0..Len(a)] ==
        IF j = 0 THEN i
        ELSE Min({prev[j] + 1, curr[j - 1] + 1, prev[j - 1] + IF a[j] = b[i] THEN 0 ELSE 2})
  IN curr

\* A row of the table: deletion, insertion or substitution of a letter.
NextRow(a, b, i, prev) ==
  LET curr[j \in 0..Len(a)] ==
        IF j = 0 THEN i
        ELSE Min({prev[j] + 1, curr[j - 1] + 1, prev[j - 1] + IF a[j] = b[i] THEN 0 ELSE 1})
  IN curr

Levenshtein(a, b) ==
  LET row[i \in 0..Len(b)] ==
        IF i = 0 THEN [j \in 0..Len(a) |-> j] ELSE NextRow(a, b, i, row[i - 1])
  IN row[Len(b)][Len(a)]

FuzzyScore == [q \in Queries |-> [t \in Texts |->
  LET longest == Max({Len(q), Len(t)})
  IN [of |-> longest - Levenshtein(q, t), length |-> longest]]]

\* `items` are the candidates, place[x] is where x comes in their list.  Sorting
\* is stable: of equal scores the one that comes first in the list stays first.
Best(items, place, score) ==
  CHOOSE x \in items : \A y \in items \ {x} :
    \/ Better(score[x], score[y])
    \/ ~Better(score[y], score[x]) /\ place[x] < place[y]

\* What a query for one of `items` finds, or why it does not.
ResolveByIdOrName(items, place, id, name, query) ==
  LET First(hits) == CHOOSE x \in hits : \A y \in hits : place[x] <= place[y]
      byId == {x \in items : id[x] = query}
      byName == {x \in items : name[x] = query}
      score == [x \in items |-> FuzzyScore[query][name[x]]]
      above == {x \in items : AboveThreshold(score[x])}
      best == Best(above, place, score)
      next == Best(above \ {best}, place, score)
  IN IF Len(query) < 2 THEN "validation"
     ELSE IF byId # {} THEN First(byId)
     ELSE IF byName # {} THEN First(byName)
     ELSE IF above = {} THEN "not_found"
     ELSE IF above # {best} /\ WithinMargin(score[best], score[next]) THEN "ambiguous"
     ELSE best

-----------------------------------------------------------------------------
(* The reference: an edit distance is the cost of the cheapest alignment, a *)
(* choice of equally many positions of either name, matched in their order. *)

Increasing(k, n) == {f \in [1..k -> 1..n] : \A i, j \in 1..k : i < j => f[i] < f[j]}

\* The first m letters of a and the first n of b can be aligned at a cost of c:
\* letters that are not matched are edits, and matched ones that differ.
Aligned(a, b, m, n, c) ==
  \E k \in 0..m : \E f \in Increasing(k, m), g \in Increasing(k, n) :
    c = m + n - 2 * k + Cardinality({h \in 1..k : a[f[h]] # b[g[h]]})

Distance(a, b) == Min({c \in 0..Len(a) + Len(b) : Aligned(a, b, Len(a), Len(b), c)})

Similarity == [q \in Queries |-> [t \in Texts |->
  LET longest == Max({Len(q), Len(t)})
  IN [of |-> longest - Distance(q, t), length |-> longest]]]

\* What a caller may rely on, stated without an order of search.
Justified(items, id, name, query, found) ==
  LET similar(x) == Similarity[query][name[x]]
      near == {x \in items : AboveThreshold(similar(x))}
      same == {x \in items : name[x] = query}
  IN CASE found = "validation" -> Len(query) < 2
       [] found = "not_found" -> near = {}
       [] found = "ambiguous" ->
            /\ same = {}
            /\ \E x, y \in near : /\ x # y
                                 /\ WithinMargin(similar(x), similar(y))
                                 /\ WithinMargin(similar(y), similar(x))
       [] OTHER ->
            \/ id[found] = query
            \/ found \in same /\ query \notin {id[x] : x \in items}
            \/ /\ found \in near /\ same = {}
               /\ \A x \in near \ {found} : ~WithinMargin(similar(found), similar(x))
=============================================================================
