--------------------------- MODULE MCSystemTools ---------------------------
EXTENDS SystemTools

CONSTANTS c1, c2, spell, torch, blade, test

MCSymmetry == Permutations(Calls)

MCPlace == [x \in {spell, torch, blade, test} |->
  CASE x = spell -> 1 [] x = torch -> 2 [] x = blade -> 3 [] x = test -> 4]

\* Names of four to six letters around the same word, so that one edit is above
\* the threshold and two are not; the spell and the torch share some.
MCNames == [x \in {spell, torch, blade, test} |->
  CASE x = spell -> {<<1, 2, 3, 4>>, <<1, 2, 3, 5>>, <<1, 2, 3, 4, 5>>, <<1, 2, 3, 4, 5, 6>>}
    [] x = torch -> {<<1, 2, 3, 4>>, <<5, 2, 3, 4>>, <<1, 2, 4, 3>>, <<2, 3, 4, 5, 6>>, <<5, 2, 3, 6>>}
    [] x = blade -> {<<5, 5>>}
    [] x = test -> {<<4, 4, 4>>}]

MCTexts == UNION {MCNames[x] : x \in {spell, torch, blade, test}}

\* Queries that are names, and others.
Exact == {<<1, 2, 3, 4>>, <<5, 2, 3, 6>>, <<5, 5>>, <<4, 4, 4>>}
MCQueries == Exact \cup {<<1, 2, 3>>, <<2, 2, 3, 4>>, <<1, 2, 3, 4, 4>>, <<1, 3, 4, 5, 6>>,
                        <<1>>, <<9, 9, 1>>}

\* Both calls are made, by exact names, where no two names are alike; elsewhere one.
Apart == name[spell] = <<1, 2, 3, 4>> /\ name[torch] = <<5, 2, 3, 6>>
MCNext ==
  /\ Next
  /\ IF Apart THEN \A c \in Calls : call'[c].query \in Exact \cup {None}
     ELSE \E c \in Calls : \A d \in Calls \ {c} : call'[d] = NoCall
MCToolSpec == Init /\ [][MCNext]_vars

MCId == [x \in {spell, torch, blade, test} |->
  CASE x = spell -> <<9, 9, 1>> [] x = torch -> <<9, 9, 2>>
    [] x = blade -> <<9, 9, 3>> [] x = test -> <<9, 9, 4>>]

\* The shortest pairs for scores from which a lead of 1/20 comes out short in
\* doubles.  The names above are too short to reach one of them.
MCShort == {[of |-> n[1], length |-> n[2]] :
  n \in {<<11, 12>>, <<17, 20>>, <<19, 20>>, <<23, 28>>, <<33, 35>>, <<33, 40>>, <<39, 40>>}}
=============================================================================
