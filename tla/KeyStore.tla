------------------------------ MODULE KeyStore ------------------------------
(***************************************************************************)
(* The API keys (module/scripts/server/auth.mjs): the keys in memory, the  *)
(* calls that change them, and keys.json, which every change rewrites by   *)
(* way of the one temporary file keys.json.tmp.                            *)
(*                                                                         *)
(* Each call suspends at the scrypt hash and at each file operation of     *)
(* persistKeys(); other calls run in between, and nothing queues them.  An *)
(* open file stays the same file when its name is moved, so the two names  *)
(* are references to inodes.  A crash is one of the process: what was      *)
(* written to a file stays written.                                        *)
(***************************************************************************)
EXTENDS Naturals, FiniteSets

CONSTANTS
  Keys,      \* key ids
  Calls,     \* calls of auth.mjs that may be under way at the same time
  Inodes,    \* files the directory may have held
  Crashes,   \* TRUE: the process may be stopped at any point
  None

ASSUME InodesAssumption == Inodes \subseteq Nat /\ None \notin Inodes
ASSUME CrashesAssumption == Crashes \in BOOLEAN

VARIABLES
  server,    \* the phase of the process: loadKeys() done or not
  keys,      \* keyState.keys: what is in memory of each key
  call,      \* the calls under way
  rotating,  \* keys a rotation timer is armed for
  tmp,       \* inode of keys.json.tmp, None if there is no such file
  file,      \* inode of keys.json, None if there is no such file
  content,   \* what each inode holds
  told       \* history: what the GM last knows of each key id

memory == <<server, keys, rotating>>
disk == <<tmp, file, content>>
vars == <<memory, call, disk, told>>

\* One state of the key list: revoked_at is null or a date.
States == [Keys -> {"absent", "active", "revoked"}]
NoKeys == [k \in Keys |-> "absent"]

\* While a process runs the key list only grows: entries are added and
\* revoked_at is filled in, both of which lengthen its JSON text.
Shorter(a, b) == a # b /\ \A k \in Keys : a[k] \in {b[k], "absent"} \/ b[k] = "revoked"

\* A file is empty since it was truncated, or holds a text: the state written
\* last over the start of the longest one written since.
Empty == [last |-> NoKeys, longest |-> NoKeys, size |-> 0]
Texts == {t \in [last : States, longest : States, size : 0..1] :
            t.size = 0 => t = Empty}

Text(s) == [last |-> s, longest |-> s, size |-> 1]
Overwrite(t, s) == [Text(s) EXCEPT !.longest = IF t.size = 1 /\ Shorter(s, t.longest)
                                               THEN t.longest ELSE s]

\* JSON.parse accepts the text.
Parses(t) == t.size = 1 /\ t.last = t.longest

Idle == [kind |-> "idle"]
Started(kind, revoking, issuing) ==
  [kind |-> kind, revoking |-> revoking, issuing |-> issuing, at |-> "hash",
   data |-> NoKeys, fd |-> None]

Kinds == {"load", "issue", "rotate", "revoke", "use"}
CallRecords ==
  [kind : Kinds, revoking : SUBSET Keys, issuing : SUBSET Keys,
   at : {"hash", "open", "write", "rename"}, data : States, fd : Inodes \cup {None}]

TypeOK ==
  /\ server \in {"down", "loading", "up", "failed"}
  /\ keys \in States
  /\ call \in [Calls -> {Idle} \cup CallRecords]
  /\ rotating \subseteq Keys
  /\ tmp \in Inodes \cup {None}
  /\ file \in Inodes \cup {None}
  /\ content \in [Inodes -> Texts]
  /\ told \in [Keys -> {"unused", "requested", "issued", "revoked"}]

Init ==
  /\ server = "down"
  /\ keys = NoKeys
  /\ call = [c \in Calls |-> Idle]
  /\ rotating = {}
  /\ tmp = None
  /\ file = None
  /\ content = [i \in Inodes |-> Empty]
  /\ told = [k \in Keys |-> "unused"]

-----------------------------------------------------------------------------
(***************************************************************************)
(* persistKeys(): the text is taken when it is called; then writeFile      *)
(* opens (and truncates) the temporary file and writes it, and rename puts *)
(* it in place of keys.json.                                               *)
(***************************************************************************)
Persisting(s, data) == [s EXCEPT !.at = "open", !.data = data]

\* A new file gets the lowest number that is free; an inode without a name
\* and without an open handle is freed.
Referenced == {tmp, file} \cup {call[c].fd : c \in {d \in Calls : call[d] # Idle}}
IsFree(i) == i \notin Referenced /\ \A j \in Inodes : j < i => j \in Referenced
Freed(text) == [i \in Inodes |-> IF i \in Referenced' THEN text[i] ELSE Empty]

\* Mutant: keys.json itself is opened and truncated.
OpenInPlace(c) ==
  /\ call[c] # Idle /\ call[c].at = "open"
  /\ \E i \in Inodes :
       /\ IF file = None THEN IsFree(i) ELSE i = file
       /\ file' = i
       /\ content' = [content EXCEPT ![i] = Empty]
       /\ call' = [call EXCEPT ![c].at = "write", ![c].fd = i]
  /\ UNCHANGED <<memory, tmp, told>>

OpenTemp(c) ==
  /\ call[c] # Idle /\ call[c].at = "open"
  /\ \E i \in Inodes :
       /\ IF tmp = None THEN IsFree(i) ELSE i = tmp
       /\ tmp' = i
       /\ content' = [content EXCEPT ![i] = Empty]
       /\ call' = [call EXCEPT ![c].at = "write", ![c].fd = i]
  /\ UNCHANGED <<memory, file, told>>

WriteTemp(c) ==
  /\ call[c] # Idle /\ call[c].at = "write"
  /\ call' = [call EXCEPT ![c].at = "rename", ![c].fd = None]
  /\ UNCHANGED <<memory, tmp, file, told>>
  /\ content' = Freed([content EXCEPT ![call[c].fd] = Overwrite(@, call[c].data)])

\* The last step, and what the caller does next: the GM is told, a rotation
\* arms its timer, the first start of the module is over.
RenameTemp(c) ==
  /\ call[c] # Idle /\ call[c].at = "rename" /\ tmp # None
  /\ file' = tmp
  /\ tmp' = None
  /\ call' = [call EXCEPT ![c] = Idle]
  /\ told' = [k \in Keys |-> IF k \in call[c].issuing THEN "issued"
                             ELSE IF k \in call[c].revoking /\ call[c].kind = "revoke" THEN "revoked"
                             ELSE told[k]]
  /\ rotating' = IF call[c].kind = "rotate" THEN rotating \cup call[c].revoking ELSE rotating
  /\ server' = IF call[c].kind = "load" THEN "up" ELSE server
  /\ content' = Freed(content)
  /\ UNCHANGED keys

\* A file operation fails; rename does when another call has moved the temporary
\* file away.  The caller throws (recordKeyUse swallows it, the first start of the
\* module gives up); what it changed in memory stays changed.
PersistFails(c) ==
  /\ call[c] # Idle /\ call[c].at # "hash"
  /\ call' = [call EXCEPT ![c] = Idle]
  /\ server' = IF call[c].kind = "load" THEN "failed" ELSE server
  /\ UNCHANGED <<keys, rotating, tmp, file, told>>
  /\ content' = Freed(content)

-----------------------------------------------------------------------------
(***************************************************************************)
(* The calls.                                                              *)
(***************************************************************************)
Ready(c) == server = "up" /\ call[c] = Idle

\* issueKey(), alone or for rotateKey(), which has first looked up the old key.
IssueKey(c, k) ==
  /\ Ready(c) /\ told[k] = "unused"
  /\ call' = [call EXCEPT ![c] = Started("issue", {}, {k})]
  /\ told' = [told EXCEPT ![k] = "requested"]
  /\ UNCHANGED <<memory, disk>>

RotateKey(c, old, k) ==
  /\ Ready(c) /\ told[k] = "unused"
  /\ keys[old] = "active"
  /\ call' = [call EXCEPT ![c] = Started("rotate", {old}, {k})]
  /\ told' = [told EXCEPT ![k] = "requested"]
  /\ UNCHANGED <<memory, disk>>

\* Mutant: the entry is added to the list read back from keys.json.
PushOntoFile(c) ==
  /\ call[c] # Idle /\ call[c].at = "hash"
  /\ keys' = [k \in Keys |-> IF k \in call[c].issuing THEN "active" ELSE content[file].last[k]]
  /\ call' = [call EXCEPT ![c] = Persisting(@, keys')]
  /\ UNCHANGED <<server, rotating, disk, told>>

\* The hash is there: the entry is pushed and persisted.
PushKey(c) ==
  /\ call[c] # Idle /\ call[c].at = "hash"
  /\ keys' = [k \in Keys |-> IF k \in call[c].issuing THEN "active" ELSE keys[k]]
  /\ call' = [call EXCEPT ![c] = Persisting(@, keys')]
  /\ UNCHANGED <<server, rotating, disk, told>>

\* Mutant: the text is taken before the keys are marked.
RevokeAfterText(c, S) ==
  /\ S # {}
  /\ keys' = [k \in Keys |-> IF k \in S THEN "revoked" ELSE keys[k]]
  /\ call' = [call EXCEPT ![c] = Persisting(Started("revoke", S, {}), keys)]

\* Set revoked_at on the keys of S and persist.
Revoke(c, S) ==
  /\ S # {}
  /\ keys' = [k \in Keys |-> IF k \in S THEN "revoked" ELSE keys[k]]
  /\ call' = [call EXCEPT ![c] = Persisting(Started("revoke", S, {}), keys')]

\* A key that is absent or revoked already is reported as not found.
RevokeKey(c, k) ==
  /\ Ready(c) /\ keys[k] = "active"
  /\ Revoke(c, {k})
  /\ UNCHANGED <<server, rotating, disk, told>>

RevokeAll(c) ==
  /\ Ready(c)
  /\ Revoke(c, {k \in Keys : keys[k] = "active"})
  /\ UNCHANGED <<server, rotating, disk, told>>

\* Mutant: the timer forgets the key without revoking it.
RotationForgotten(c, k) ==
  /\ Ready(c) /\ k \in rotating
  /\ rotating' = rotating \ {k}
  /\ UNCHANGED <<server, keys, call, disk, told>>

\* The timer of rotateKey(), at any time after it was armed: there is no clock,
\* which covers a grace too long for setTimeout, and that fires at once.  Nobody
\* catches a write of it that fails; Node then stops the process: Crash.
RotationDue(c, k) ==
  /\ Ready(c) /\ k \in rotating
  /\ rotating' = rotating \ {k}
  /\ \/ /\ keys[k] = "active"
        /\ Revoke(c, {k})
     \/ /\ keys[k] # "active"
        /\ UNCHANGED <<keys, call>>
  /\ UNCHANGED <<server, disk, told>>

\* recordKeyUse(), on every request that passed the guards, even if its key was
\* revoked while the body was read.
RecordKeyUse(c, k) ==
  /\ Ready(c) /\ keys[k] # "absent"
  /\ call' = [call EXCEPT ![c] = Persisting(Started("use", {}, {}), keys)]
  /\ UNCHANGED <<memory, disk, told>>

\* loadKeys(), when the process starts.
LoadKeys(c) ==
  /\ server = "down"
  /\ \/ /\ file = None
        /\ server' = "loading"
        /\ call' = [call EXCEPT ![c] = Persisting(Started("load", {}, {}), NoKeys)]
        /\ UNCHANGED keys
     \/ /\ file # None /\ Parses(content[file])
        /\ server' = "up"
        /\ keys' = content[file].last
        /\ UNCHANGED call
     \/ \* the text does not parse, or the directory or the file cannot be read
        /\ server' = "failed"
        /\ UNCHANGED <<keys, call>>
  /\ UNCHANGED <<rotating, disk, told>>

\* The process stops: memory, timers and calls under way are gone.
Crash ==
  /\ Crashes /\ server # "down"
  /\ server' = "down"
  /\ keys' = NoKeys
  /\ call' = [c \in Calls |-> Idle]
  /\ rotating' = {}
  /\ UNCHANGED <<tmp, file, told>>
  /\ content' = Freed(content)

Persist(c) == OpenTemp(c) \/ WriteTemp(c) \/ RenameTemp(c) \/ PersistFails(c)

Next ==
  \/ \E c \in Calls :
       \/ LoadKeys(c) \/ PushKey(c) \/ Persist(c) \/ RevokeAll(c)
       \/ \E k \in Keys : \/ IssueKey(c, k) \/ RevokeKey(c, k)
                          \/ RotationDue(c, k) \/ RecordKeyUse(c, k)
                          \/ \E old \in Keys : RotateKey(c, old, k)
  \/ Crash

Spec == Init /\ [][Next]_vars

\* The process is started again when it is down, file operations and hashes
\* come to an end, and a timer that is armed fires unless the process stops first.
FairSpec ==
  /\ Spec
  /\ WF_vars(\E c \in Calls : LoadKeys(c))
  /\ \A c \in Calls : WF_vars(PushKey(c) \/ Persist(c))
  /\ \A k \in Keys : SF_vars(\E c \in Calls : RotationDue(c, k))

-----------------------------------------------------------------------------
\* What the GM has been told outlives the process: a key reported revoked is
\* never active again and a key that was handed out is not forgotten
\* (docs/safety-and-permissions.md: "never re-enables a revoked key").
ConfirmedSurvives ==
  server = "up" => \A k \in Keys :
    /\ told[k] = "revoked" => keys[k] = "revoked"
    /\ told[k] = "issued" => keys[k] # "absent"

\* At every moment keys.json, if there is one, holds a complete text: whenever
\* the process stops, the next one can read its keys (the comment of
\* persistKeys(): "Atomic write: temp file + rename").
WriteIsAtomic == file # None => Parses(content[file])

\* While the process runs a revocation is final and no key is forgotten, even
\* by a call that was suspended when it happened and whatever becomes of the
\* file.
RevokedIsFinal ==
  [][\A k \in Keys : server = "up" /\ server' = "up" =>
       /\ keys[k] = "revoked" => keys'[k] = "revoked"
       /\ keys[k] # "absent" => keys'[k] # "absent"]_vars

\* A rotation that has armed its timer is not given up: while the process runs
\* the timer goes only when the old key is revoked, by it or by somebody else.
RotationKept ==
  [][\A k \in rotating : k \in rotating' \/ keys'[k] = "revoked" \/ server' = "down"]_vars

\* docs/safety-and-permissions.md: "both keys work for a configurable grace window
\* (default 5 minutes), then the old one auto-revokes".  A process that is up in
\* the end, restarted or not, has revoked the old key of a rotation.  The timer
\* does not survive a restart.
OldKeyIsGone ==
  <>[](server = "up") => \A k \in Keys : k \in rotating ~> keys[k] = "revoked"

(***************************************************************************)
(* What the proofs rest on, whatever calls overlap.                        *)
(***************************************************************************)

\* A key nobody has asked for is nowhere, in memory, in a call or on disk.
UnusedIsNowhere ==
  \A k \in Keys : told[k] = "unused" =>
    /\ keys[k] = "absent"
    /\ \A c \in Calls : call[c] # Idle => k \notin call[c].issuing /\ call[c].data[k] = "absent"
    /\ \A i \in Inodes : content[i].last[k] = "absent"

\* A key that is being hashed for is new, and is so for one call only.
HashedIsNew ==
  \A c \in Calls : call[c] # Idle /\ call[c].at = "hash" =>
    /\ server = "up"
    /\ \A k \in call[c].issuing :
         /\ keys[k] = "absent"
         /\ \A d \in Calls : call[d] # Idle /\ k \in call[d].issuing => d = c

\* While the first start writes an empty key list nothing else is under way.
LoadIsAlone ==
  \A c \in Calls : call[c] # Idle /\ call[c].kind = "load" =>
    server = "loading" /\ \A d \in Calls : call[d] # Idle => d = c

KeyInv ==
  /\ TypeOK /\ UnusedIsNowhere /\ HashedIsNew /\ LoadIsAlone
  /\ server = "down" => keys = NoKeys /\ \A c \in Calls : call[c] = Idle

\* The old key of a rotation, under way or waiting for its timer, is there.
RotationInv ==
  /\ KeyInv
  /\ server = "down" => rotating = {}
  /\ \A k \in rotating : keys[k] # "absent"
  /\ \A c \in Calls : call[c] # Idle /\ call[c].kind = "rotate" =>
       \A k \in call[c].revoking : keys[k] # "absent"
=============================================================================
