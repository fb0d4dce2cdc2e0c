------------------------------- MODULE KeyLoss -------------------------------
(***************************************************************************)
(* What it takes to lose what the file of KeyStore is there to keep.       *)
(* Nothing in auth.mjs keeps two calls from writing at the same time, and  *)
(* then the file can be torn or fall behind.  History variables record     *)
(* which writes overlapped, so that it can be stated that nothing else     *)
(* does any harm, and that one write on its own makes it good again.       *)
(***************************************************************************)
EXTENDS KeyStore

VARIABLES
  overlapped,  \* history: writing calls that were not alone all the time
  suspect,     \* history: no write has been alone since some overlapped
  forgotten    \* history: the process stopped while the file was suspect

history == <<overlapped, suspect, forgotten>>

\* Calls that have taken their text and are on their way to the file.
Writing == {c \in Calls : call[c] # Idle /\ call[c].at # "hash"}
Overlap == \E c, d \in Writing : c # d

LossInit == Init /\ overlapped = {} /\ suspect = FALSE /\ forgotten = FALSE

Tracked ==
  /\ overlapped' = IF Overlap' THEN Writing' ELSE overlapped \cap Writing'
  /\ suspect' = (Overlap' \/ (suspect /\ ~\E c \in Writing \ overlapped : RenameTemp(c)))
  /\ forgotten' = (forgotten \/ (suspect /\ server' = "down"))

LossNext == Next /\ Tracked

LossSpec == LossInit /\ [][LossNext]_<<vars, history>>

-----------------------------------------------------------------------------
\* persistKeys(): whatever fails and whenever the process stops, keys.json holds a
\* complete text, unless writes have overlapped since the last that was alone.
WholeUnlessOverlapped == ~suspect => WriteIsAtomic

\* What the GM has been told of a key outlives crashes and failing file operations,
\* unless the process stopped between writes that overlapped and the next that was
\* alone.
KeptUnlessOverlapped == ~forgotten => ConfirmedSurvives

-----------------------------------------------------------------------------
(* What the proofs rest on, besides KeyInv *)

HistoryInv ==
  /\ overlapped \subseteq Writing
  /\ Overlap => overlapped = Writing
  /\ overlapped # {} => suspect
  /\ server = "down" /\ suspect => forgotten

\* What is under the temporary name is what a call that is alone has got to.
TempIsOwn(c) ==
  /\ call[c].at = "write" => tmp # None /\ call[c].fd = tmp /\ content[tmp] = Empty
  /\ call[c].at = "rename" /\ tmp # None => content[tmp] = Text(call[c].data)

\* A state of the keys says what the GM has been told.
Tells(s) ==
  \A k \in Keys : /\ told[k] = "revoked" => s[k] = "revoked"
                  /\ told[k] = "issued" => s[k] # "absent"

\* A call has done in memory what it will tell of.
HasDone(c) ==
  call[c] # Idle =>
    /\ call[c].kind = "revoke" =>
         /\ call[c].at # "hash" /\ call[c].issuing = {}
         /\ \A k \in call[c].revoking : keys[k] = "revoked"
    /\ call[c].at # "hash" => \A k \in call[c].issuing : keys[k] # "absent"

WritersInv ==
  /\ tmp # None => tmp # file
  /\ \A c \in Writing \ overlapped : TempIsOwn(c) /\ call[c].data = keys
  /\ \A c \in Calls : HasDone(c)
  /\ Writing # {} => server \in {"up", "loading"}

TellsInv ==
  /\ ~forgotten /\ server \in {"up", "loading"} => Tells(keys)
  /\ file = None => \A k \in Keys : told[k] \notin {"issued", "revoked"}
  /\ file # None /\ ~suspect => Parses(content[file])
  /\ file # None /\ ~suspect /\ ~forgotten => Tells(content[file].last)

LossInv == HistoryInv /\ WritersInv /\ TellsInv
=============================================================================
