-------------------------- MODULE CanvasToolsProofs --------------------------
(***************************************************************************)
(* Proofs about the tools in a GM's browser and their reversal, for any    *)
(* GMs, scenes, tokens, calls and undos.                                   *)
(***************************************************************************)
EXTENDS CanvasTools, FiniteSetTheorems, SequenceTheorems,
        WellFoundedInduction, TLAPS

USE CanvasAssumption

-----------------------------------------------------------------------------
(* The lists of GMs *)

\* A finite set has a list.
LEMMA ListOfFinite ==
  ASSUME NEW S, IsFiniteSet(S)
  PROVE  SetToSeq(S) \in Seq(S)
<1> DEFINE n == Cardinality(S)
<1>1. n \in Nat /\ ExistsBijection(1..n, S)
  BY FS_CardinalityType
<1>2. \E f \in [1..n -> S] : IsInjective(f)
  BY <1>1 DEF ExistsBijection, Bijection, Injection
<1>3. SetToSeq(S) \in [1..n -> S]
  BY <1>2 DEF SetToSeq
<1>4. QED  BY <1>1, <1>3

\* Removing from a list adds nothing to it.
LEMMA RemoveFirstType ==
  ASSUME NEW S, NEW q \in Seq(S), NEW x
  PROVE  RemoveFirst(q, x) \in Seq(S)
<1>1. CASE ~\E i \in 1..Len(q) : q[i] = x
  BY <1>1 DEF RemoveFirst
<1>2. CASE \E i \in 1..Len(q) : q[i] = x
  <2> DEFINE I == {i \in 1..Len(q) : q[i] = x}
  <2>1. PICK k \in 1..Len(q) : q[k] = x /\ RemoveFirst(q, x) = RemoveAt(q, k)
    <3>1. I # {} /\ I \subseteq Nat
      BY <1>2
    <3>2. PICK m \in I : \A y \in I : <<y, m>> \notin OpToRel(<, Nat)
      BY <3>1, NatLessThanWellFounded, WFMin
    <3>3. \A y \in I : m <= y
      <4>1. \A y \in Nat, z \in Nat : y < z => <<y, z>> \in {ss \in Nat \X Nat : ss[1] < ss[2]}
        OBVIOUS
      <4>2. \A y \in I : y \in Nat /\ m \in Nat /\ ~(y < m)
        BY <3>1, <3>2, <4>1 DEF OpToRel
      <4>3. QED  BY <4>2
    <3>4. Min(I) \in I
      BY <3>3 DEF Min
    <3>5. SelectInSeq(q, LAMBDA v : v = x) = Min(I)
      BY <3>1 DEF SelectInSeq
    <3>6. QED  BY <1>2, <3>4, <3>5 DEF RemoveFirst
  <2>2. \A i \in 1..(k-1) : q[i] \in S
    OBVIOUS
  <2>3. \A i \in (k+1)..Len(q) : q[i] \in S
    OBVIOUS
  <2>4. SubSeq(q, 1, k-1) \in Seq(S) /\ SubSeq(q, k+1, Len(q)) \in Seq(S)
    BY <2>2, <2>3, SubSeqProperties
  <2>5. QED  BY <2>1, <2>4, ConcatProperties DEF RemoveAt
<1>3. QED  BY <1>1, <1>2

-----------------------------------------------------------------------------
(* Steps of requests *)

LEMMA OneRequest ==
  ASSUME TypeOK, NEW r \in Requests, NEW s \in RequestRecords, req' = [req EXCEPT ![r] = s]
  PROVE  /\ req' \in [Requests -> RequestRecords]
         /\ req'[r] = s
         /\ \A q \in Requests : q # r => req'[q] = req[q]
  BY DEF TypeOK

\* Tokens that calls have placed stay where they are or are deleted.
PlacedStay == \A c \in Calls : req[c].token \in Tokens => on'[req[c].token] \in {on[req[c].token], None}

LEMMA CallStays ==
  ASSUME CanvasInv, PlacedStay, NEW c \in Calls, req'[c] = req[c]
  PROVE  CallAsReplied(c)'
  BY DEF CanvasInv, CallAsReplied, PlacedStay, PlacedAsReplied

\* What has been answered stays so.
Answered(c, s) == req[c].answer = "ok" => s.answer = "ok" /\ s.tool = req[c].tool

LEMMA UndoStays ==
  ASSUME CanvasInv, NEW u \in Undos, req'[u] = req[u], \A c \in Calls : Answered(c, req'[c])
  PROVE  UndoOfAnswered(u)'
  BY DEF CanvasInv, UndoOfAnswered, Answered

\* A step of one call.
LEMMA CallMoves ==
  ASSUME CanvasInv, PlacedStay, NEW c \in Calls, NEW s \in RequestRecords,
         req' = [req EXCEPT ![c] = s], Answered(c, s), CallAsReplied(c)'
  PROVE  /\ req' \in [Requests -> RequestRecords]
         /\ \A d \in Calls : CallAsReplied(d)'
         /\ \A u \in Undos : UndoOfAnswered(u)'
<1>1. /\ req' \in [Requests -> RequestRecords] /\ req'[c] = s
      /\ \A q \in Requests : q # c => req'[q] = req[q]
  BY OneRequest DEF CanvasInv, Requests
<1>2. \A d \in Calls : CallAsReplied(d)'
  BY <1>1, CallStays DEF Requests
<1>3. \A d \in Calls : Answered(d, req'[d])
  BY <1>1 DEF Requests, Answered
<1>4. \A u \in Undos : req'[u] = req[u]
  BY <1>1 DEF Requests
<1>5. QED  BY <1>1, <1>2, <1>3, <1>4, UndoStays

\* A step of one undo.
LEMMA UndoMoves ==
  ASSUME CanvasInv, PlacedStay, NEW u \in Undos, NEW s \in RequestRecords,
         req' = [req EXCEPT ![u] = s], UndoOfAnswered(u)'
  PROVE  /\ req' \in [Requests -> RequestRecords]
         /\ \A d \in Calls : CallAsReplied(d)'
         /\ \A v \in Undos : UndoOfAnswered(v)'
<1>1. /\ req' \in [Requests -> RequestRecords] /\ req'[u] = s
      /\ \A q \in Requests : q # u => req'[q] = req[q]
  BY OneRequest DEF CanvasInv, Requests
<1>2. \A d \in Calls : req'[d] = req[d]
  BY <1>1 DEF Requests
<1>3. \A d \in Calls : CallAsReplied(d)'
  BY <1>2, CallStays
<1>4. \A d \in Calls : Answered(d, req'[d])
  BY <1>2 DEF Answered
<1>5. QED  BY <1>1, <1>3, <1>4, UndoStays DEF Requests

-----------------------------------------------------------------------------
(* The initial state *)

LEMMA CanvasInit == Init => CanvasInv
<1> SUFFICES ASSUME Init PROVE CanvasInv
  OBVIOUS
<1>1. NoRequest \in RequestRecords
  BY DEF NoRequest, RequestRecords, Unmarked
<1>2. online \in Seq(Gms)
  BY ListOfFinite DEF Init
<1>3. Unmarked \in [Marks -> SUBSET Tokens] /\ \A k \in Marks : Unmarked[k] = {}
  BY DEF Unmarked
<1>4. TypeOK
  BY <1>1, <1>2, <1>3 DEF Init, TypeOK
<1>5. MarksOnCanvas
  BY <1>3 DEF Init, MarksOnCanvas
<1>6. \A c \in Calls : CallAsReplied(c)
  BY DEF Init, Requests, CallAsReplied, NoRequest
<1>7. \A u \in Undos : UndoOfAnswered(u)
  BY DEF Init, Requests, UndoOfAnswered, NoRequest
<1>8. QED  BY <1>4, <1>5, <1>6, <1>7 DEF CanvasInv

-----------------------------------------------------------------------------
(* Requests are sent *)

\* The effect of sending one, whoever asked.
LEMMA DispatchEffect ==
  ASSUME TypeOK, NEW r \in Requests, NEW call \in RequestRecords, Dispatch(r, call)
  PROVE  \E g \in Gms : LET s == [call EXCEPT !.at = "sent", !.gm = g] IN
           /\ s \in RequestRecords /\ req' = [req EXCEPT ![r] = s]
           /\ req[r].at = "none" /\ UNCHANGED <<on, online, view, ready, marks, moves>>
<1>1. Head(online) \in Gms
  BY HeadTailProperties DEF TypeOK, Dispatch
<1>2. [call EXCEPT !.at = "sent", !.gm = Head(online)] \in RequestRecords
  BY <1>1 DEF RequestRecords
<1>3. QED  BY <1>1, <1>2 DEF Dispatch

\* A record of a call as it is sent.
LEMMA SentRecords ==
  /\ NoRequest \in RequestRecords
  /\ \A k \in Marks, some \in SUBSET Tokens, tool \in {"add", "set", "clear"} :
       Request(tool, k, some) \in RequestRecords
  /\ Request("place", None, {}) \in RequestRecords
  /\ \A s \in Scenes : [NoRequest EXCEPT !.tool = "describe", !.scene = s] \in RequestRecords
  /\ \A c \in Calls : [NoRequest EXCEPT !.tool = "undo", !.of = c] \in RequestRecords
  BY DEF NoRequest, Unmarked, Request, RequestRecords

\* A call that has only been sent says what every sent call says.
LEMMA SentCall ==
  ASSUME CanvasInv, NEW c \in Calls, NEW call \in RequestRecords, Dispatch(c, call),
         call.token = None, call.answer = None,
         \/ call.tool \in {"add", "set", "clear"} /\ call.kind \in Marks
         \/ call.tool \in {"place", "describe"} /\ call.kind = None
  PROVE  CanvasInv'
<1>1. PICK g \in Gms :
        LET s == [call EXCEPT !.at = "sent", !.gm = g] IN
        /\ s \in RequestRecords /\ req' = [req EXCEPT ![c] = s]
        /\ req[c].at = "none" /\ UNCHANGED <<on, online, view, ready, marks, moves>>
  BY DispatchEffect DEF CanvasInv, Requests
<1> DEFINE s == [call EXCEPT !.at = "sent", !.gm = g]
<1>2. s \in RequestRecords /\ req' = [req EXCEPT ![c] = s]
  BY <1>1
<1>3. s.at = "sent" /\ s.gm = g /\ s.tool = call.tool /\ s.kind = call.kind
      /\ s.token = call.token /\ s.answer = call.answer
  BY DEF RequestRecords
<1>4. req'[c] = s
  BY <1>2, OneRequest DEF CanvasInv, Requests
<1> HIDE DEF s
<1>5. CallAsReplied(c)'
  BY <1>3, <1>4 DEF CallAsReplied
<1>6. Answered(c, s)
  BY <1>1 DEF CanvasInv, CallAsReplied, Answered
<1>7. PlacedStay
  BY <1>1 DEF PlacedStay
<1>8. /\ req' \in [Requests -> RequestRecords]
      /\ \A d \in Calls : CallAsReplied(d)'
      /\ \A u \in Undos : UndoOfAnswered(u)'
  BY <1>2, <1>5, <1>6, <1>7, CallMoves
<1>9. TypeOK' /\ MarksOnCanvas'
  BY <1>1, <1>8 DEF CanvasInv, TypeOK, MarksOnCanvas, Canvas, OnScene
<1>10. QED  BY <1>8, <1>9 DEF CanvasInv

LEMMA SendsKeep ==
  ASSUME CanvasInv, NEW c \in Calls, CallTool(c) \/ CallPlace(c) \/ CallDescribe(c)
  PROVE  CanvasInv'
<1>1. CASE CallTool(c)
  <2>1. PICK k \in Marks, some \in SUBSET Tokens, tool \in {"add", "set", "clear"} :
          Dispatch(c, Request(tool, k, some))
    BY <1>1 DEF CallTool
  <2>2. Request(tool, k, some) \in RequestRecords
    BY SentRecords
  <2>3. LET s == Request(tool, k, some) IN
        s.tool = tool /\ s.kind = k /\ s.token = None /\ s.answer = None
    BY DEF Request, NoRequest
  <2>4. QED  BY <2>1, <2>2, <2>3, SentCall
<1>2. CASE CallPlace(c)
  <2>1. LET s == Request("place", None, {}) IN
        s.tool = "place" /\ s.kind = None /\ s.token = None /\ s.answer = None
    BY DEF Request, NoRequest
  <2>2. QED  BY <1>2, <2>1, SentRecords, SentCall DEF CallPlace
<1>3. ASSUME NEW s \in Scenes, Dispatch(c, [NoRequest EXCEPT !.tool = "describe", !.scene = s])
      PROVE  CanvasInv'
  <2>1. LET r == [NoRequest EXCEPT !.tool = "describe", !.scene = s] IN
        r.tool = "describe" /\ r.kind = None /\ r.token = None /\ r.answer = None
    BY DEF NoRequest
  <2>2. QED  BY <1>3, <2>1, SentRecords, SentCall
<1>4. ASSUME NEW s \in Scenes, req[c].at = "none",
             req' = [req EXCEPT ![c] = [@ EXCEPT !.tool = "describe", !.scene = s,
                                                 !.at = "done", !.answer = "ok"]],
             UNCHANGED <<on, online, view, ready, marks, moves>>
      PROVE  CanvasInv'
  <2> DEFINE r == [req[c] EXCEPT !.tool = "describe", !.scene = s, !.at = "done", !.answer = "ok"]
  <2>1. req[c] \in RequestRecords /\ req[c].kind = None
    BY <1>4 DEF CanvasInv, TypeOK, Requests, CallAsReplied, NoRequest
  <2>2. /\ r \in RequestRecords /\ r.at = "done" /\ r.answer = "ok" /\ r.tool = "describe"
        /\ r.kind = None
    <3>1. r \in RequestRecords
      <4>1. req[c] = NoRequest
        BY <1>4 DEF CanvasInv, CallAsReplied
      <4> DEFINE asked == [NoRequest EXCEPT !.tool = "describe", !.scene = s]
      <4>2. asked \in RequestRecords
        BY SentRecords
      <4>3. r = [asked EXCEPT !.at = "done", !.answer = "ok"]
        BY <4>1
      <4> HIDE DEF asked, r
      <4>4. QED  BY <4>2, <4>3 DEF RequestRecords
    <3>2. r.at = "done" /\ r.answer = "ok" /\ r.tool = "describe" /\ r.kind = None
      BY <2>1 DEF RequestRecords
    <3>3. QED  BY <3>1, <3>2
  <2>3. req' = [req EXCEPT ![c] = r]
    BY <1>4
  <2> HIDE DEF r
  <2>4. req'[c] = r
    BY <2>2, <2>3, OneRequest DEF CanvasInv, Requests
  <2>5. CallAsReplied(c)'
    BY <2>2, <2>4 DEF CallAsReplied
  <2>6. Answered(c, r) /\ PlacedStay
    BY <1>4 DEF CanvasInv, CallAsReplied, Answered, PlacedStay
  <2>7. /\ req' \in [Requests -> RequestRecords]
        /\ \A d \in Calls : CallAsReplied(d)'
        /\ \A u \in Undos : UndoOfAnswered(u)'
    BY <2>2, <2>3, <2>5, <2>6, CallMoves
  <2>8. TypeOK' /\ MarksOnCanvas'
    BY <1>4, <2>7 DEF CanvasInv, TypeOK, MarksOnCanvas, Canvas, OnScene
  <2>9. QED  BY <2>7, <2>8 DEF CanvasInv
<1>5. QED  BY <1>1, <1>2, <1>3, <1>4 DEF CallDescribe

LEMMA CallUndoKeeps ==
  ASSUME CanvasInv, NEW u \in Undos, CallUndo(u)
  PROVE  CanvasInv'
<1>1. PICK c \in Calls :
        /\ req[c].answer = "ok" /\ req[c].tool # "describe"
        /\ Dispatch(u, [NoRequest EXCEPT !.tool = "undo", !.of = c])
  BY DEF CallUndo
<1> DEFINE call == [NoRequest EXCEPT !.tool = "undo", !.of = c]
<1>2. call \in RequestRecords /\ call.tool = "undo" /\ call.of = c /\ call.token = None
  BY SentRecords DEF NoRequest
<1> HIDE DEF call
<1>3. Dispatch(u, call)
  BY <1>1 DEF call
<1>4. PICK g \in Gms :
        LET s == [call EXCEPT !.at = "sent", !.gm = g] IN
        /\ s \in RequestRecords /\ req' = [req EXCEPT ![u] = s]
        /\ UNCHANGED <<on, online, view, ready, marks, moves>>
  BY <1>2, <1>3, DispatchEffect DEF CanvasInv, Requests
<1> DEFINE s == [call EXCEPT !.at = "sent", !.gm = g]
<1>5. s \in RequestRecords /\ req' = [req EXCEPT ![u] = s]
  BY <1>4
<1>6. s.at = "sent" /\ s.gm = g /\ s.tool = "undo" /\ s.of = c /\ s.token = None
  BY <1>2 DEF RequestRecords
<1> HIDE DEF s
<1>7. req'[u] = s /\ req'[c] = req[c]
  BY <1>5, OneRequest DEF CanvasInv, Requests
<1>8. UndoOfAnswered(u)'
  BY <1>1, <1>6, <1>7 DEF UndoOfAnswered
<1>9. PlacedStay
  BY <1>4 DEF PlacedStay
<1>10. /\ req' \in [Requests -> RequestRecords]
       /\ \A d \in Calls : CallAsReplied(d)'
       /\ \A v \in Undos : UndoOfAnswered(v)'
  BY <1>5, <1>8, <1>9, UndoMoves
<1>11. TypeOK' /\ MarksOnCanvas'
  BY <1>4, <1>10 DEF CanvasInv, TypeOK, MarksOnCanvas, Canvas, OnScene
<1>12. QED  BY <1>10, <1>11 DEF CanvasInv

-----------------------------------------------------------------------------
(* In the browser *)

\* A call under way has a browser, and its record is one.
LEMMA CallUnderWay ==
  ASSUME CanvasInv, NEW c \in Calls, req[c].at \in {"sent", "placing", "replied"}
  PROVE  /\ req[c] \in RequestRecords /\ req[c].gm \in Gms
         /\ \/ req[c].tool \in {"add", "set", "clear"} /\ req[c].kind \in Marks
            \/ req[c].tool \in {"place", "describe"} /\ req[c].kind = None
         /\ req[c].at # "replied" => req[c].token = None /\ req[c].answer # "ok"
  BY DEF CanvasInv, TypeOK, Requests, CallAsReplied

\* A step that moves one call and leaves the world and the marks alone.
LEMMA QuietStep ==
  ASSUME CanvasInv, NEW c \in Calls, NEW s \in RequestRecords,
         req' = [req EXCEPT ![c] = s], Answered(c, s), CallAsReplied(c)',
         UNCHANGED <<on, online, view, ready, marks>>
  PROVE  CanvasInv'
<1>1. PlacedStay
  BY DEF PlacedStay
<1>2. /\ req' \in [Requests -> RequestRecords]
      /\ \A d \in Calls : CallAsReplied(d)'
      /\ \A u \in Undos : UndoOfAnswered(u)'
  BY <1>1, CallMoves
<1>3. TypeOK' /\ MarksOnCanvas'
  BY <1>2 DEF CanvasInv, TypeOK, MarksOnCanvas, Canvas, OnScene
<1>4. QED  BY <1>2, <1>3 DEF CanvasInv

\* The marks of one GM's canvas become others on it.
LEMMA MarksChange ==
  ASSUME CanvasInv, NEW g \in Gms, NEW k \in Marks, NEW new \in SUBSET Tokens,
         new \subseteq Canvas(g), marks' = [marks EXCEPT ![g][k] = new],
         UNCHANGED <<on, online, view, ready>>, req' \in [Requests -> RequestRecords]
  PROVE  TypeOK' /\ MarksOnCanvas'
<1>1. marks \in [Gms -> [Marks -> SUBSET Tokens]] /\ marks[g] \in [Marks -> SUBSET Tokens]
  BY DEF CanvasInv, TypeOK
<1>2. marks' \in [Gms -> [Marks -> SUBSET Tokens]]
  BY <1>1
<1>3. \A h \in Gms, j \in Marks : marks'[h][j] = IF h = g /\ j = k THEN new ELSE marks[h][j]
  BY <1>1
<1>4. \A h \in Gms : Canvas(h)' = Canvas(h)
  BY DEF Canvas, OnScene
<1>5. MarksOnCanvas'
  BY <1>3, <1>4 DEF CanvasInv, MarksOnCanvas
<1>6. TypeOK'
  BY <1>2 DEF CanvasInv, TypeOK
<1>7. QED  BY <1>5, <1>6

LEMMA ChangedKeeps ==
  ASSUME CanvasInv, NEW c \in Calls, req[c].at = "sent", req[c].tool \in {"add", "set", "clear"},
         NEW new \in SUBSET Tokens, new \subseteq Canvas(req[c].gm), Changed(c, new)
  PROVE  CanvasInv'
<1> DEFINE g == req[c].gm
           k == req[c].kind
           s == [req[c] EXCEPT !.before = Marked(c), !.was = marks[g], !.at = "replied"]
<1>1. req[c] \in RequestRecords /\ g \in Gms /\ req[c].answer # "ok"
  BY CallUnderWay
<1>2. k \in Marks
  BY DEF CanvasInv, CallAsReplied
<1>3. marks[g] \in [Marks -> SUBSET Tokens] /\ Marked(c) = marks[g][k]
  BY <1>1 DEF CanvasInv, TypeOK, Marked
<1>4. /\ marks' = [marks EXCEPT ![g][k] = new] /\ req' = [req EXCEPT ![c] = s]
      /\ UNCHANGED <<on, online, view, ready>>
  BY DEF Changed, Reply, Browsers
<1>5. /\ s \in RequestRecords /\ s.at = "replied" /\ s.tool = req[c].tool /\ s.kind = k
      /\ s.gm = g /\ s.before = marks[g][k] /\ s.was = marks[g]
  BY <1>1, <1>2, <1>3 DEF RequestRecords
<1> HIDE DEF s
<1>6. req'[c] = s
  BY <1>4, <1>5, OneRequest DEF CanvasInv, Requests
<1>7. CallAsReplied(c)'
  BY <1>1, <1>2, <1>5, <1>6 DEF CallAsReplied
<1>8. Answered(c, s) /\ PlacedStay
  BY <1>1, <1>4 DEF Answered, PlacedStay
<1>9. /\ req' \in [Requests -> RequestRecords]
      /\ \A d \in Calls : CallAsReplied(d)'
      /\ \A u \in Undos : UndoOfAnswered(u)'
  BY <1>4, <1>5, <1>7, <1>8, CallMoves
<1>10. TypeOK' /\ MarksOnCanvas'
  BY <1>1, <1>2, <1>4, <1>9, MarksChange
<1>11. QED  BY <1>9, <1>10 DEF CanvasInv

LEMMA MarksKeep ==
  ASSUME CanvasInv, NEW c \in Calls, SelectOrTarget(c) \/ Clear(c)
  PROVE  CanvasInv'
<1>1. req[c].at = "sent" /\ req[c].tool \in {"add", "set", "clear"}
  BY DEF SelectOrTarget, Clear, Runs
<1>2. /\ req[c].gm \in Gms /\ req[c].kind \in Marks /\ req[c].arg \in SUBSET Tokens
      /\ req[c] \in RequestRecords
  BY <1>1, CallUnderWay DEF CanvasInv, CallAsReplied, RequestRecords
<1>3. Marked(c) \in SUBSET Tokens /\ Marked(c) \subseteq Canvas(req[c].gm)
  BY <1>2 DEF CanvasInv, TypeOK, MarksOnCanvas, Marked
<1>4. CASE SelectOrTarget(c)
  BY <1>1, <1>2, <1>3, <1>4, ChangedKeeps DEF SelectOrTarget
<1>5. CASE Clear(c)
  BY <1>1, <1>2, <1>3, <1>5, ChangedKeeps DEF Clear
<1>6. QED  BY <1>4, <1>5

LEMMA ThrowsKeeps ==
  ASSUME CanvasInv, NEW c \in Calls, Throws(c)
  PROVE  CanvasInv'
<1> DEFINE s == [req[c] EXCEPT !.at = "threw"]
<1>1. req[c].at \in {"sent", "placing"}
  BY DEF Throws, Runs
<1>2. req' = [req EXCEPT ![c] = s] /\ UNCHANGED <<on, online, view, ready, marks>>
  BY DEF Throws, Browsers
<1>3. /\ s \in RequestRecords /\ s.at = "threw" /\ s.tool = req[c].tool /\ s.kind = req[c].kind
      /\ s.token = None /\ s.answer = req[c].answer
  BY <1>1, CallUnderWay DEF RequestRecords
<1> HIDE DEF s
<1>4. req'[c] = s
  BY <1>2, <1>3, OneRequest DEF CanvasInv, Requests
<1>5. CallAsReplied(c)' /\ Answered(c, s)
  BY <1>1, <1>3, <1>4, CallUnderWay DEF CallAsReplied, Answered
<1>6. QED  BY <1>2, <1>3, <1>5, QuietStep

LEMMA BeginPlaceKeeps ==
  ASSUME CanvasInv, NEW c \in Calls, BeginPlace(c)
  PROVE  CanvasInv'
<1> DEFINE v == view[req[c].gm]
           s == [req[c] EXCEPT !.at = "placing", !.scene = v]
<1>1. req[c].at = "sent" /\ req[c].tool = "place"
  BY DEF BeginPlace, Runs
<1>0. req[c] \in RequestRecords /\ req[c].token = None /\ req[c].gm \in Gms
  BY <1>1, CallUnderWay
<1>2. req' = [req EXCEPT ![c] = s] /\ UNCHANGED <<on, online, view, ready, marks>>
  BY DEF BeginPlace, Browsers
<1>3. v \in Scenes
  BY <1>0 DEF CanvasInv, TypeOK
<1> HIDE DEF v
<1>4. /\ s \in RequestRecords /\ s.at = "placing" /\ s.tool = req[c].tool /\ s.kind = req[c].kind
      /\ s.token = None /\ s.answer = req[c].answer /\ s.gm = req[c].gm
      /\ s.scene \in Scenes
  BY <1>1, <1>0, <1>3 DEF RequestRecords
<1> HIDE DEF s
<1>5. req'[c] = s
  BY <1>2, <1>4, OneRequest DEF CanvasInv, Requests
<1>6. CallAsReplied(c)' /\ Answered(c, s)
  BY <1>1, <1>4, <1>5, CallUnderWay DEF CallAsReplied, Answered
<1>7. QED  BY <1>2, <1>4, <1>6, QuietStep

LEMMA DescribeKeeps ==
  ASSUME CanvasInv, NEW c \in Calls, Describe(c)
  PROVE  CanvasInv'
<1> DEFINE g == req[c].gm
           W == IF view[g] = req[c].scene THEN marks[g] ELSE Unmarked
           s == [req[c] EXCEPT !.was = W, !.at = "replied"]
<1>1. req[c].at = "sent" /\ req[c].tool = "describe"
  BY DEF Describe, Runs
<1>0. req[c] \in RequestRecords /\ req[c].token = None /\ req[c].gm \in Gms
  BY <1>1, CallUnderWay
<1>2. req' = [req EXCEPT ![c] = s] /\ UNCHANGED <<on, online, view, ready, marks>>
  BY DEF Describe, Reply, Browsers
<1>3. W \in [Marks -> SUBSET Tokens]
  BY <1>0 DEF CanvasInv, TypeOK, Unmarked
<1> HIDE DEF W
<1>4. /\ s \in RequestRecords /\ s.at = "replied" /\ s.tool = "describe" /\ s.kind = req[c].kind
      /\ s.token = None /\ s.answer = req[c].answer /\ s.gm = g
  BY <1>1, <1>0, <1>3 DEF RequestRecords
<1> HIDE DEF s
<1>5. req'[c] = s
  BY <1>2, <1>4, OneRequest DEF CanvasInv, Requests
<1>6. CallAsReplied(c)' /\ Answered(c, s)
  BY <1>1, <1>4, <1>5, CallUnderWay DEF CallAsReplied, Answered
<1>7. QED  BY <1>2, <1>4, <1>6, QuietStep

\* No call has placed the token that is placed now.
LEMMA EndPlaceKeeps ==
  ASSUME CanvasInv, NEW c \in Calls, EndPlace(c)
  PROVE  CanvasInv'
<1>1. PICK t \in Tokens :
        /\ on[t] = None /\ \A d \in Calls : req[d].token # t
        /\ on' = [on EXCEPT ![t] = req[c].scene]
        /\ Reply(c, [req[c] EXCEPT !.token = t])
  BY DEF EndPlace
<1> DEFINE s == [req[c] EXCEPT !.token = t, !.at = "replied"]
<1>2. req[c].at = "placing" /\ UNCHANGED <<online, view, ready, marks>>
  BY DEF EndPlace, Browsers
<1>3. req' = [req EXCEPT ![c] = s]
  BY <1>1 DEF Reply
<1>4. req[c] \in RequestRecords /\ req[c].tool = "place" /\ req[c].scene \in Scenes
      /\ req[c].gm \in Gms /\ req[c].kind = None /\ req[c].answer # "ok"
  BY <1>2, CallUnderWay DEF CanvasInv, CallAsReplied
<1>5. /\ s \in RequestRecords /\ s.at = "replied" /\ s.tool = "place" /\ s.kind = None
      /\ s.token = t /\ s.scene = req[c].scene /\ s.gm = req[c].gm
  BY <1>4 DEF RequestRecords
<1> HIDE DEF s
<1>6. req'[c] = s
  BY <1>3, <1>5, OneRequest DEF CanvasInv, Requests
<1>7. /\ on' \in [Tokens -> Scenes \cup {None}] /\ on'[t] = req[c].scene
      /\ \A x \in Tokens : x # t => on'[x] = on[x]
  BY <1>1, <1>4 DEF CanvasInv, TypeOK
<1>8. CallAsReplied(c)'
  BY <1>4, <1>5, <1>6, <1>7 DEF CallAsReplied, PlacedAsReplied
<1>9. Answered(c, s) /\ PlacedStay
  BY <1>1, <1>4, <1>7 DEF Answered, PlacedStay
<1>10. /\ req' \in [Requests -> RequestRecords]
       /\ \A d \in Calls : CallAsReplied(d)'
       /\ \A u \in Undos : UndoOfAnswered(u)'
  BY <1>3, <1>5, <1>8, <1>9, CallMoves
<1>11. TypeOK'
  BY <1>2, <1>7, <1>10 DEF CanvasInv, TypeOK
<1>12. MarksOnCanvas'
  <2>1. \A g \in Gms : view[g] \in Scenes /\ Canvas(g) \subseteq Canvas(g)'
    BY <1>1, <1>2, <1>7 DEF CanvasInv, TypeOK, Canvas, OnScene
  <2>2. QED  BY <1>2, <2>1 DEF CanvasInv, MarksOnCanvas
<1>13. QED  BY <1>10, <1>11, <1>12 DEF CanvasInv

\* What an undo finds of the call it takes back.
LEMMA UndoFinds ==
  ASSUME CanvasInv, NEW u \in Undos, req[u].at # "none"
  PROVE  LET c == req[req[u].of] IN
         /\ req[u] \in RequestRecords /\ req[u].gm \in Gms /\ req[u].token = None
         /\ c \in RequestRecords /\ c.at \in {"replied", "done"}
         /\ c.tool = "place" => c.token \in Tokens /\ on[c.token] \in {c.scene, None}
         /\ c.tool # "place" => c.kind \in Marks /\ c.before = c.was[c.kind]
<1> DEFINE d == req[u].of
<1>1. /\ d \in Calls /\ req[u].gm \in Gms /\ req[u].token = None
      /\ req[d].answer = "ok" /\ req[d].tool # "describe"
  BY DEF CanvasInv, UndoOfAnswered
<1>2. req[u] \in RequestRecords /\ req[d] \in RequestRecords
  BY <1>1 DEF CanvasInv, TypeOK, Requests
<1>3. CallAsReplied(d)
  BY <1>1 DEF CanvasInv
<1>4. req[d].at \in {"replied", "done"}
  BY <1>1, <1>3 DEF CallAsReplied
<1>5. QED  BY <1>1, <1>2, <1>3, <1>4 DEF CallAsReplied, PlacedAsReplied

\* An undo goes on, with the tokens it has not yet deleted where they were.
LEMMA UndoGoesOn ==
  ASSUME CanvasInv, PlacedStay, NEW u \in Undos, req[u].at # "none",
         NEW stage \in {"deleting", "replied", "threw"},
         stage = "deleting" => req[req[u].of].tool = "place",
         req' = [req EXCEPT ![u].at = stage]
  PROVE  /\ req' \in [Requests -> RequestRecords] /\ req'[u].at = stage
         /\ \A d \in Calls : CallAsReplied(d)'
         /\ \A v \in Undos : UndoOfAnswered(v)'
<1> DEFINE s == [req[u] EXCEPT !.at = stage]
<1>1. req[u] \in RequestRecords /\ req[u].token = None
  BY UndoFinds
<1>2. /\ s \in RequestRecords /\ s.tool = req[u].tool /\ s.of = req[u].of /\ s.gm = req[u].gm
      /\ s.token = None /\ s.at = stage
  BY <1>1 DEF RequestRecords
<1>3. req' = [req EXCEPT ![u] = s]
  OBVIOUS
<1> HIDE DEF s
<1>4. req'[u] = s /\ \A d \in Calls : req'[d] = req[d]
  <2>1. TypeOK /\ u \in Requests /\ \A d \in Calls : d \in Requests /\ d # u
    BY DEF CanvasInv, Requests
  <2>2. QED  BY <1>2, <1>3, <2>1, OneRequest
<1>5. UndoOfAnswered(u)'
  BY <1>2, <1>4 DEF CanvasInv, UndoOfAnswered
<1>6. QED  BY <1>2, <1>3, <1>4, <1>5, UndoMoves

LEMMA UndoApplyKeeps ==
  ASSUME CanvasInv, NEW u \in Undos, UndoApply(u)
  PROVE  CanvasInv'
<1> DEFINE c == req[req[u].of]
           g == req[u].gm
           new == c.before \cap Canvas(g)
<1>1. req[u].at = "sent" /\ UNCHANGED <<on, online, view, ready>>
  BY DEF UndoApply, Runs, Browsers
<1>2. g \in Gms /\ (c.tool # "place" => c.kind \in Marks)
  BY <1>1, UndoFinds
<1>3. PICK stage \in {"deleting", "replied", "threw"} :
        req' = [req EXCEPT ![u].at = stage] /\ (stage = "deleting" => c.tool = "place")
  BY DEF UndoApply
<1>4. PlacedStay
  BY <1>1 DEF PlacedStay
<1>5. /\ req' \in [Requests -> RequestRecords]
      /\ \A d \in Calls : CallAsReplied(d)'
      /\ \A v \in Undos : UndoOfAnswered(v)'
  BY <1>1, <1>3, <1>4, UndoGoesOn
<1>6. CASE c.tool = "place"
  <2>1. marks' = marks
    BY <1>6 DEF UndoApply
  <2>2. TypeOK' /\ MarksOnCanvas'
    BY <1>1, <1>5, <2>1 DEF CanvasInv, TypeOK, MarksOnCanvas, Canvas, OnScene
  <2>3. QED  BY <1>5, <2>2 DEF CanvasInv
<1>7. CASE c.tool # "place"
  <2>1. marks' = [marks EXCEPT ![g][c.kind] = new] /\ c.kind \in Marks
    BY <1>2, <1>7 DEF UndoApply
  <2>2. new \in SUBSET Tokens /\ new \subseteq Canvas(g)
    BY DEF Canvas, OnScene
  <2> HIDE DEF c, g, new
  <2>3. TypeOK' /\ MarksOnCanvas'
    BY <1>1, <1>2, <1>5, <2>1, <2>2, MarksChange
  <2>4. QED  BY <1>5, <2>3 DEF CanvasInv
<1>8. QED  BY <1>6, <1>7

\* A placed token is deleted, wherever it is shown, or the deletion fails.
LEMMA UndoDeletesKeeps ==
  ASSUME CanvasInv, NEW u \in Undos, UndoDeletes(u)
  PROVE  CanvasInv'
<1> DEFINE t == req[req[u].of].token
<1>1. req[u].at = "deleting" /\ UNCHANGED <<online, view, ready>>
  BY DEF UndoDeletes, Browsers
<1>2. CASE on' = on /\ marks' = marks /\ req' = [req EXCEPT ![u].at = "threw"]
  <2>1. PlacedStay
    BY <1>2 DEF PlacedStay
  <2>2. /\ req' \in [Requests -> RequestRecords]
        /\ \A d \in Calls : CallAsReplied(d)'
        /\ \A v \in Undos : UndoOfAnswered(v)'
    BY <1>1, <1>2, <2>1, UndoGoesOn
  <2>3. TypeOK' /\ MarksOnCanvas'
    BY <1>1, <1>2, <2>2 DEF CanvasInv, TypeOK, MarksOnCanvas, Canvas, OnScene
  <2>4. QED  BY <2>2, <2>3 DEF CanvasInv
<1>3. CASE /\ on' = [on EXCEPT ![t] = None]
           /\ marks' = [g \in Gms |-> [k \in Marks |-> marks[g][k] \ {t}]]
           /\ req' = [req EXCEPT ![u].at = "replied"]
  <2> HIDE DEF t
  <2>1. /\ on' \in [Tokens -> Scenes \cup {None}]
        /\ \A x \in Tokens : on'[x] = IF x = t THEN None ELSE on[x]
    BY <1>3 DEF CanvasInv, TypeOK
  <2>2. /\ marks' \in [Gms -> [Marks -> SUBSET Tokens]]
        /\ \A g \in Gms, k \in Marks : marks'[g][k] = marks[g][k] \ {t}
    BY <1>3 DEF CanvasInv, TypeOK
  <2>3. PlacedStay
    BY <2>1 DEF PlacedStay
  <2>4. /\ req' \in [Requests -> RequestRecords]
        /\ \A d \in Calls : CallAsReplied(d)'
        /\ \A v \in Undos : UndoOfAnswered(v)'
    BY <1>1, <1>3, <2>3, UndoGoesOn
  <2>5. TypeOK'
    BY <1>1, <2>1, <2>2, <2>4 DEF CanvasInv, TypeOK
  <2>6. MarksOnCanvas'
    <3>1. \A g \in Gms : Canvas(g) \ {t} \subseteq Canvas(g)'
      BY <1>1, <2>1 DEF Canvas, OnScene
    <3>2. QED  BY <2>2, <3>1 DEF CanvasInv, MarksOnCanvas
  <2>7. QED  BY <2>4, <2>5, <2>6 DEF CanvasInv
<1>4. QED  BY <1>2, <1>3 DEF UndoDeletes

-----------------------------------------------------------------------------
(* Back on the server *)

\* A request gets its answer: its record keeps all that is told of its call.
LEMMA AnswerKeeps ==
  ASSUME CanvasInv, NEW r \in Requests, NEW s \in RequestRecords,
         req[r].answer = None, req[r].at # "none", req' = [req EXCEPT ![r] = s],
         UNCHANGED <<on, online, view, ready, marks>>,
         s.tool = req[r].tool, s.kind = req[r].kind, s.gm = req[r].gm, s.of = req[r].of,
         s.token = req[r].token, s.scene = req[r].scene, s.before = req[r].before,
         s.was = req[r].was \/ req[r].tool = "describe",
         \/ s.at = req[r].at /\ s.answer # "ok"
         \/ s.at = "done" /\ req[r].at = "replied"
         \/ s.at = "done" /\ req[r].tool = "describe"
  PROVE  CanvasInv'
<1>1. req'[r] = s
  BY OneRequest DEF CanvasInv
<1>2. CASE r \in Calls
  <2>1. CallAsReplied(r)
    BY <1>2 DEF CanvasInv
  <2>2. UNCHANGED on /\ Answered(r, s)
    BY DEF Answered
  <2>3. CallAsReplied(r)'
    <3>1. CASE req[r].tool = "describe"
      BY <1>1, <2>1, <3>1 DEF CallAsReplied
    <3>2. CASE req[r].tool # "describe"
      BY <1>1, <2>1, <3>2 DEF CallAsReplied, PlacedAsReplied
    <3>3. QED  BY <3>1, <3>2
  <2>4. QED  BY <1>2, <2>2, <2>3, QuietStep
<1>3. CASE r \in Undos
  <2>1. /\ UndoOfAnswered(r) /\ PlacedStay
    BY <1>3 DEF CanvasInv, PlacedStay
  <2>2. req[r].of # r /\ req'[req[r].of] = req[req[r].of]
    BY <1>3, <2>1, OneRequest DEF CanvasInv, UndoOfAnswered, Requests
  <2>3. UndoOfAnswered(r)'
    BY <1>1, <2>1, <2>2 DEF UndoOfAnswered
  <2>4. /\ req' \in [Requests -> RequestRecords]
        /\ \A d \in Calls : CallAsReplied(d)'
        /\ \A v \in Undos : UndoOfAnswered(v)'
    BY <1>3, <2>1, <2>3, UndoMoves
  <2>5. TypeOK' /\ MarksOnCanvas'
    BY <2>4 DEF CanvasInv, TypeOK, MarksOnCanvas, Canvas, OnScene
  <2>6. QED  BY <2>4, <2>5 DEF CanvasInv
<1>4. QED  BY <1>2, <1>3 DEF Requests

LEMMA AnswersKeep ==
  ASSUME CanvasInv, NEW r \in Requests, Replied(r) \/ Failed(r)
  PROVE  CanvasInv'
<1>1. /\ req[r] \in RequestRecords /\ req[r].answer = None /\ req[r].at # "none"
      /\ UNCHANGED <<on, online, view, ready, marks>>
  BY DEF Replied, Failed, Answer, Browsers, CanvasInv, TypeOK
<1>2. ASSUME NEW how \in {"ok", "failed"}, Answer(r, how),
             how = "ok" => req[r].at = "replied"
      PROVE  CanvasInv'
  <2> DEFINE stage == IF req[r].at = "replied" THEN "done" ELSE req[r].at
             s == [req[r] EXCEPT !.answer = how, !.at = stage]
  <2>1. req' = [req EXCEPT ![r] = s]
    BY <1>1, <1>2 DEF Answer, CanvasInv, TypeOK
  <2>2. stage \in {"none", "sent", "placing", "deleting", "replied", "done", "threw", "lost"}
    BY <1>1 DEF RequestRecords
  <2> HIDE DEF stage
  <2>3. /\ s \in RequestRecords /\ s.answer = how /\ s.at = stage
        /\ s.tool = req[r].tool /\ s.kind = req[r].kind /\ s.gm = req[r].gm /\ s.of = req[r].of
        /\ s.token = req[r].token /\ s.scene = req[r].scene /\ s.before = req[r].before
        /\ s.was = req[r].was
    <3>1. PICK old \in RequestRecords : old = req[r]
      BY <1>1
    <3>2. how \in {None, "ok", "failed"} /\ s = [old EXCEPT !.answer = how, !.at = stage]
      BY <3>1
    <3> HIDE DEF s
    <3>3. /\ s \in RequestRecords /\ s.answer = how /\ s.at = stage
          /\ s.tool = old.tool /\ s.kind = old.kind /\ s.gm = old.gm /\ s.of = old.of
          /\ s.token = old.token /\ s.scene = old.scene /\ s.before = old.before
          /\ s.was = old.was
      BY <2>2, <3>2 DEF RequestRecords
    <3>4. QED  BY <3>1, <3>3
  <2> HIDE DEF s
  <2>4. QED  BY <1>1, <1>2, <2>1, <2>3, AnswerKeeps DEF stage
<1>3. ASSUME req[r].tool = "describe",
             req' = [req EXCEPT ![r] = [@ EXCEPT !.answer = "ok", !.at = "done", !.was = Unmarked]]
      PROVE  CanvasInv'
  <2> DEFINE s == [req[r] EXCEPT !.answer = "ok", !.at = "done", !.was = Unmarked]
  <2>1. req' = [req EXCEPT ![r] = s]
    BY <1>3
  <2>2. Unmarked \in [Marks -> SUBSET Tokens]
    BY DEF Unmarked
  <2>3. /\ s \in RequestRecords /\ s.answer = "ok" /\ s.at = "done"
        /\ s.tool = req[r].tool /\ s.kind = req[r].kind /\ s.gm = req[r].gm /\ s.of = req[r].of
        /\ s.token = req[r].token /\ s.scene = req[r].scene /\ s.before = req[r].before
    <3>1. req[r] \in RequestRecords
      BY <1>1
    <3>2. s \in RequestRecords
      BY <2>2, <3>1 DEF RequestRecords
    <3>3. s.answer = "ok" /\ s.at = "done"
      BY <3>1 DEF RequestRecords
    <3>4. /\ s.tool = req[r].tool /\ s.kind = req[r].kind /\ s.gm = req[r].gm /\ s.of = req[r].of
          /\ s.token = req[r].token /\ s.scene = req[r].scene /\ s.before = req[r].before
      BY <3>1 DEF RequestRecords
    <3>5. QED  BY <3>2, <3>3, <3>4
  <2> HIDE DEF s
  <2>4. QED  BY <1>1, <1>3, <2>1, <2>3, AnswerKeeps
<1>4. QED  BY <1>2, <1>3 DEF Replied, Failed

-----------------------------------------------------------------------------
(* GMs and their canvases *)

\* What is done by hand leaves a request alone, or cuts it off before it replies.
CutOff(r) ==
  req'[r] = req[r] \/ (req[r].at \in {"sent", "placing", "deleting"} /\ req'[r] = [req[r] EXCEPT !.at = "lost"])

LEMMA ByHandKeeps ==
  ASSUME CanvasInv, PlacedStay, TypeOK', MarksOnCanvas',
         \A r \in Requests : CutOff(r)
  PROVE  CanvasInv'
<1>1. ASSUME NEW c \in Calls PROVE CallAsReplied(c)' /\ Answered(c, req'[c])
  <2>1. req[c] \in RequestRecords /\ CallAsReplied(c)
    BY DEF CanvasInv, TypeOK, Requests
  <2>2. CASE req'[c] = req[c]
    BY <2>2, CallStays DEF Answered
  <2>3. CASE req[c].at \in {"sent", "placing", "deleting"} /\ req'[c] = [req[c] EXCEPT !.at = "lost"]
    <3>1. /\ req'[c].at = "lost" /\ req'[c].tool = req[c].tool /\ req'[c].kind = req[c].kind
          /\ req'[c].token = req[c].token /\ req'[c].answer = req[c].answer
      BY <2>1, <2>3 DEF RequestRecords
    <3>2. QED  BY <2>1, <2>3, <3>1 DEF CallAsReplied, Answered
  <2>4. QED  BY <2>2, <2>3 DEF Requests, CutOff
<1>2. ASSUME NEW u \in Undos PROVE UndoOfAnswered(u)'
  <2>1. req[u] \in RequestRecords /\ UndoOfAnswered(u)
    BY DEF CanvasInv, TypeOK, Requests
  <2>2. CASE req'[u] = req[u]
    BY <1>1, <2>2, UndoStays
  <2>3. CASE req[u].at \in {"sent", "placing", "deleting"} /\ req'[u] = [req[u] EXCEPT !.at = "lost"]
    <3>1. /\ req'[u].tool = req[u].tool /\ req'[u].of = req[u].of /\ req'[u].gm = req[u].gm
          /\ req'[u].token = req[u].token
      BY <2>1, <2>3 DEF RequestRecords
    <3>2. QED  BY <1>1, <2>1, <2>3, <3>1 DEF UndoOfAnswered, Answered
  <2>4. QED  BY <2>2, <2>3 DEF Requests, CutOff
<1>3. QED  BY <1>1, <1>2 DEF CanvasInv

LEMMA GmLeavesKeeps ==
  ASSUME CanvasInv, NEW g \in Gms, GmLeaves(g)
  PROVE  CanvasInv'
<1>1. /\ online' = RemoveFirst(online, g) /\ marks' = [marks EXCEPT ![g] = Unmarked]
      /\ req' = [c \in Requests |->
           IF req[c].gm = g /\ req[c].at \in {"sent", "placing", "deleting"}
           THEN [req[c] EXCEPT !.at = "lost"] ELSE req[c]]
      /\ UNCHANGED <<on, view, ready>>
  BY DEF GmLeaves
<1>2. \A r \in Requests : CutOff(r)
  BY <1>1 DEF CutOff
<1>3. \A r \in Requests : [req[r] EXCEPT !.at = "lost"] \in RequestRecords
  <2>1. \A s \in RequestRecords : [s EXCEPT !.at = "lost"] \in RequestRecords
    BY DEF RequestRecords
  <2>2. QED  BY <2>1 DEF CanvasInv, TypeOK
<1>4. req' \in [Requests -> RequestRecords]
  BY <1>1, <1>3 DEF CanvasInv, TypeOK
<1>5. online' \in Seq(Gms)
  BY <1>1, RemoveFirstType DEF CanvasInv, TypeOK
<1>6. Unmarked \in [Marks -> SUBSET Tokens] /\ \A k \in Marks : Unmarked[k] = {}
  BY DEF Unmarked
<1>7. TypeOK'
  BY <1>1, <1>4, <1>5, <1>6 DEF CanvasInv, TypeOK
<1>8. MarksOnCanvas'
  BY <1>1, <1>6 DEF CanvasInv, TypeOK, MarksOnCanvas, Canvas, OnScene
<1>9. PlacedStay
  BY <1>1 DEF PlacedStay
<1>10. QED  BY <1>2, <1>7, <1>8, <1>9, ByHandKeeps

LEMMA GmComesKeeps ==
  ASSUME CanvasInv, NEW g \in Gms, GmComes(g) \/ CanvasReady(g)
  PROVE  CanvasInv'
<1>1. /\ online' = Append(online, g) \/ online' = online
      /\ ready' \in [Gms -> BOOLEAN]
      /\ UNCHANGED <<on, view, marks, req>>
  BY DEF GmComes, CanvasReady, CanvasInv, TypeOK
<1>2. online' \in Seq(Gms)
  <2>1. online \in Seq(Gms)
    BY DEF CanvasInv, TypeOK
  <2>2. Append(online, g) \in Seq(Gms)
    BY <2>1
  <2>3. QED  BY <1>1, <2>1, <2>2
<1>3. TypeOK' /\ MarksOnCanvas' /\ PlacedStay
  BY <1>1, <1>2 DEF CanvasInv, TypeOK, MarksOnCanvas, Canvas, OnScene, PlacedStay
<1>4. QED  BY <1>1, <1>3, ByHandKeeps DEF CutOff

LEMMA SwitchSceneKeeps ==
  ASSUME CanvasInv, NEW g \in Gms, SwitchScene(g)
  PROVE  CanvasInv'
<1>1. /\ view' \in [Gms -> Scenes] /\ \A h \in Gms : h # g => view'[h] = view[h]
      /\ ready' \in [Gms -> BOOLEAN] /\ marks' = [marks EXCEPT ![g] = Unmarked]
      /\ UNCHANGED <<on, online, req>>
  BY DEF SwitchScene, CanvasInv, TypeOK
<1>2. Unmarked \in [Marks -> SUBSET Tokens] /\ \A k \in Marks : Unmarked[k] = {}
  BY DEF Unmarked
<1>3. TypeOK' /\ PlacedStay
  BY <1>1, <1>2 DEF CanvasInv, TypeOK, PlacedStay
<1>4. MarksOnCanvas'
  BY <1>1, <1>2 DEF CanvasInv, TypeOK, MarksOnCanvas, Canvas, OnScene
<1>5. QED  BY <1>1, <1>3, <1>4, ByHandKeeps DEF CutOff

LEMMA MarkByHandKeeps ==
  ASSUME CanvasInv, NEW g \in Gms, MarkByHand(g)
  PROVE  CanvasInv'
<1>1. PICK k \in Marks, some \in SUBSET Canvas(g) : marks' = [marks EXCEPT ![g][k] = some]
  BY DEF MarkByHand
<1>2. UNCHANGED <<on, online, view, ready, req>> /\ some \in SUBSET Tokens /\ PlacedStay
  BY DEF MarkByHand, Browsers, Canvas, OnScene, PlacedStay
<1>3. TypeOK' /\ MarksOnCanvas'
  BY <1>1, <1>2, MarksChange DEF CanvasInv, TypeOK
<1>4. QED  BY <1>2, <1>3, ByHandKeeps DEF CutOff

LEMMA DeleteTokenKeeps ==
  ASSUME CanvasInv, NEW t \in Tokens, DeleteToken(t)
  PROVE  CanvasInv'
<1>1. /\ on' = [on EXCEPT ![t] = None]
      /\ marks' = [g \in Gms |-> [k \in Marks |-> marks[g][k] \ {t}]]
      /\ UNCHANGED <<online, view, ready, req>>
  BY DEF DeleteToken, Browsers
<1>2. on' \in [Tokens -> Scenes \cup {None}] /\ on'[t] = None
      /\ \A x \in Tokens : x # t => on'[x] = on[x]
  BY <1>1 DEF CanvasInv, TypeOK
<1>3. /\ marks' \in [Gms -> [Marks -> SUBSET Tokens]]
      /\ \A g \in Gms, k \in Marks : marks'[g][k] = marks[g][k] \ {t}
  BY <1>1 DEF CanvasInv, TypeOK
<1>4. TypeOK' /\ PlacedStay
  BY <1>1, <1>2, <1>3 DEF CanvasInv, TypeOK, PlacedStay
<1>5. MarksOnCanvas'
  <2>1. \A g \in Gms : Canvas(g) \ {t} \subseteq Canvas(g)'
    BY <1>1, <1>2 DEF Canvas, OnScene
  <2>2. QED  BY <1>3, <2>1 DEF CanvasInv, MarksOnCanvas
<1>6. QED  BY <1>1, <1>4, <1>5, ByHandKeeps DEF CutOff

-----------------------------------------------------------------------------
(* The theorems *)

LEMMA CanvasStep == CanvasInv /\ [Next]_vars => CanvasInv'
<1> SUFFICES ASSUME CanvasInv, [Next]_vars PROVE CanvasInv'
  OBVIOUS
<1>1. ASSUME NEW c \in Calls, CallTool(c) \/ CallPlace(c) \/ CallDescribe(c)
      PROVE  CanvasInv'
  BY <1>1, SendsKeep
<1>2. ASSUME NEW c \in Calls, SelectOrTarget(c) \/ Clear(c) \/ Throws(c)
      PROVE  CanvasInv'
  BY <1>2, MarksKeep, ThrowsKeeps
<1>3. ASSUME NEW c \in Calls, BeginPlace(c) \/ EndPlace(c) \/ Describe(c)
      PROVE  CanvasInv'
  BY <1>3, BeginPlaceKeeps, EndPlaceKeeps, DescribeKeeps
<1>4. ASSUME NEW u \in Undos, CallUndo(u) \/ UndoApply(u) \/ UndoDeletes(u)
      PROVE  CanvasInv'
  BY <1>4, CallUndoKeeps, UndoApplyKeeps, UndoDeletesKeeps
<1>5. ASSUME NEW c \in Requests, Replied(c) \/ Failed(c)
      PROVE  CanvasInv'
  BY <1>5, AnswersKeep
<1>6. ASSUME NEW g \in Gms,
             GmLeaves(g) \/ GmComes(g) \/ SwitchScene(g) \/ CanvasReady(g) \/ MarkByHand(g)
      PROVE  CanvasInv'
  BY <1>6, GmLeavesKeeps, GmComesKeeps, SwitchSceneKeeps, MarkByHandKeeps
<1>7. ASSUME NEW t \in Tokens, DeleteToken(t)
      PROVE  CanvasInv'
  BY <1>7, DeleteTokenKeeps
<1>8. CASE UNCHANGED vars
  <2>1. PlacedStay /\ TypeOK' /\ MarksOnCanvas' /\ req' = req
    BY <1>8 DEF vars, CanvasInv, TypeOK, MarksOnCanvas, Canvas, OnScene, PlacedStay
  <2>2. QED  BY <2>1, ByHandKeeps DEF CutOff
<1>9. QED  BY <1>1, <1>2, <1>3, <1>4, <1>5, <1>6, <1>7, <1>8 DEF Next

\* What the replies of the tools told stays true of tokens and marks, whatever
\* GMs and their canvases do.
THEOREM CanvasInvariant == CanvasSpec => []CanvasInv
<1>1. QED  BY CanvasInit, CanvasStep, PTL DEF CanvasSpec

\* undo-apply.mjs: an undo restores the marks its call found, as far as the
\* tokens are still on the canvas of that GM.
THEOREM MarksRestored == CanvasSpec => UndoRestoresMarks
<1>1. ASSUME CanvasInv, NEW u \in Undos, UndoApply(u), req[req[u].of].tool # "place",
             req[req[u].of].gm = req[u].gm, NEW k \in Marks
      PROVE  LET c == req[req[u].of] IN
             marks'[c.gm][k] =
               IF k = c.kind THEN {t \in c.was[k] : on[t] = view[c.gm]} ELSE marks[c.gm][k]
  <2> DEFINE c == req[req[u].of]
             g == req[u].gm
  <2>1. /\ g \in Gms /\ c \in RequestRecords /\ c.kind \in Marks /\ c.before = c.was[c.kind]
        /\ c.gm = g
    BY <1>1, UndoFinds DEF UndoApply, Runs
  <2>2. marks' = [marks EXCEPT ![g][c.kind] = c.before \cap Canvas(g)]
    BY <1>1 DEF UndoApply
  <2> HIDE DEF c, g
  <2>3. c.was[c.kind] \subseteq Tokens
    BY <2>1 DEF RequestRecords
  <2>4. marks'[g][k] = IF k = c.kind THEN c.before \cap Canvas(g) ELSE marks[g][k]
    BY <1>1, <2>1, <2>2 DEF CanvasInv, TypeOK
  <2>5. c.before \cap Canvas(g) = {t \in c.was[c.kind] : on[t] = view[g]}
    BY <2>1, <2>3 DEF Canvas, OnScene
  <2>6. QED  BY <2>1, <2>4, <2>5 DEF c
<1>2. CanvasInv /\ [Next]_vars =>
        [\A u \in Undos : UndoApply(u) /\ req[req[u].of].tool # "place" =>
           LET c == req[req[u].of] IN
           c.gm = req[u].gm =>
             \A k \in Marks : marks'[c.gm][k] =
               IF k = c.kind THEN {t \in c.was[k] : on[t] = view[c.gm]} ELSE marks[c.gm][k]]_vars
  BY <1>1
<1>3. QED  BY <1>2, CanvasInvariant, PTL DEF CanvasSpec, UndoRestoresMarks

\* undo-apply.mjs: an undo that replies leaves the token its call has placed gone,
\* wherever that is shown, and every other where it was.
THEOREM PlacedIsGone == CanvasSpec => UndoneMeansGone
<1> DEFINE Gone(c, t) == on'[t] = IF c.tool = "place" /\ t = c.token THEN None ELSE on[t]
<1>1. ASSUME CanvasInv, NEW u \in Undos, UndoApply(u), req'[u].at = "replied", NEW t \in Tokens
      PROVE  Gone(req[req[u].of], t)
  <2> DEFINE c == req[req[u].of]
  <2>1. req[u].at = "sent" /\ on' = on
    BY <1>1 DEF UndoApply, Runs
  <2>2. CASE c.tool = "place" /\ t = c.token
    <3>1. on[t] \in {c.scene, None}
      BY <1>1, <2>1, <2>2, UndoFinds
    <3>2. on[t] # c.scene
      <4>1. req' = [req EXCEPT ![u].at = IF on[t] = c.scene THEN "deleting" ELSE "replied"]
        BY <1>1, <2>2 DEF UndoApply
      <4>2. req[u] \in RequestRecords /\ u \in DOMAIN req
        BY <1>1 DEF CanvasInv, TypeOK, Requests
      <4>3. req'[u].at = IF on[t] = c.scene THEN "deleting" ELSE "replied"
        BY <4>1, <4>2 DEF RequestRecords
      <4>4. QED  BY <1>1, <4>3
    <3>3. QED  BY <2>1, <2>2, <3>1, <3>2
  <2>3. QED  BY <2>1, <2>2
<1>2. ASSUME CanvasInv, NEW u \in Undos, UndoDeletes(u), req'[u].at = "replied", NEW t \in Tokens
      PROVE  Gone(req[req[u].of], t)
  <2> DEFINE c == req[req[u].of]
  <2>1. req[u].at = "deleting" /\ req[u] \in RequestRecords /\ u \in DOMAIN req
    BY <1>2 DEF UndoDeletes, CanvasInv, TypeOK, Requests
  <2>2. ~(req' = [req EXCEPT ![u].at = "threw"])
    BY <1>2, <2>1 DEF RequestRecords
  <2>3. on' = [on EXCEPT ![c.token] = None]
    BY <1>2, <2>2 DEF UndoDeletes
  <2>4. c.tool = "place"
    BY <1>2, <2>1 DEF CanvasInv, UndoOfAnswered
  <2> HIDE DEF c
  <2>5. on'[t] = IF t = c.token THEN None ELSE on[t]
    BY <1>2, <2>3 DEF CanvasInv, TypeOK
  <2>6. QED  BY <2>4, <2>5 DEF c
<1>3. CanvasInv /\ [Next]_vars =>
        [\A u \in Undos : UndoReplies(u) =>
           LET c == req[req[u].of] IN
           \A t \in Tokens : on'[t] = IF c.tool = "place" /\ t = c.token THEN None ELSE on[t]]_vars
  BY <1>1, <1>2 DEF UndoReplies
<1>4. QED  BY <1>3, CanvasInvariant, PTL DEF CanvasSpec, UndoneMeansGone

\* perception.mjs: a browser adds nothing to a description that is of another
\* scene than the server picked.
THEOREM DescriptionsAgree == CanvasSpec => DescribesOneScene
<1>1. ASSUME CanvasInv, NEW c \in Calls, Describe(c), NEW k \in Marks
      PROVE  req'[c].was[k] \subseteq OnScene(req[c].scene)
  <2> DEFINE g == req[c].gm
             W == IF view[g] = req[c].scene THEN marks[g] ELSE Unmarked
  <2>1. req[c].at = "sent"
    BY <1>1 DEF Describe, Runs
  <2>2. g \in Gms /\ req[c] \in RequestRecords
    BY <1>1, <2>1, CallUnderWay
  <2>3. W[k] \subseteq OnScene(req[c].scene)
    BY <1>1, <2>2 DEF CanvasInv, MarksOnCanvas, Canvas, Unmarked
  <2>4. req' = [req EXCEPT ![c] = [req[c] EXCEPT !.was = W, !.at = "replied"]]
    BY <1>1 DEF Describe, Reply
  <2> HIDE DEF W
  <2>5. req'[c].was = W
    BY <1>1, <2>2, <2>4 DEF CanvasInv, TypeOK, Requests, RequestRecords
  <2>6. QED  BY <2>3, <2>5
<1>2. CanvasInv /\ [Next]_vars =>
        [\A c \in Calls : Describe(c) =>
           \A k \in Marks : req'[c].was[k] \subseteq OnScene(req[c].scene)]_vars
  BY <1>1
<1>3. QED  BY <1>2, CanvasInvariant, PTL DEF CanvasSpec, DescribesOneScene
=============================================================================
