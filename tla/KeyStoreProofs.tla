---------------------------- MODULE KeyStoreProofs ----------------------------
(***************************************************************************)
(* Proofs about the API keys, for any number of keys and of calls: what    *)
(* overlapping calls cannot do to the keys in memory, and that nothing but *)
(* writes that overlap tears the file or lets it fall behind what the GM   *)
(* was told.                                                               *)
(***************************************************************************)
EXTENDS KeyLoss, TLAPS

-----------------------------------------------------------------------------
(* Records and texts *)

LEMMA RecordIsNotIdle == \A s \in CallRecords : s # Idle
<1>1. ASSUME NEW s \in CallRecords PROVE s.kind # "idle"
  BY DEF CallRecords, Kinds
<1>2. Idle.kind = "idle"
  BY DEF Idle
<1>3. QED  BY <1>1, <1>2

LEMMA RunningIsRecord ==
  ASSUME TypeOK, NEW c \in Calls, call[c] # Idle PROVE call[c] \in CallRecords
BY DEF TypeOK

LEMMA NoKeysIsState == NoKeys \in States /\ \A k \in Keys : NoKeys[k] = "absent"
BY DEF NoKeys, States

LEMMA StartedRecord ==
  ASSUME NEW kind \in Kinds, NEW S \in SUBSET Keys, NEW I \in SUBSET Keys
  PROVE  /\ Started(kind, S, I) \in CallRecords
         /\ Started(kind, S, I).kind = kind /\ Started(kind, S, I).at = "hash"
         /\ Started(kind, S, I).revoking = S /\ Started(kind, S, I).issuing = I
         /\ Started(kind, S, I).data = NoKeys
BY NoKeysIsState DEF Started, CallRecords

LEMMA PersistingRecord ==
  ASSUME NEW s \in CallRecords, NEW data \in States
  PROVE  /\ Persisting(s, data) \in CallRecords
         /\ Persisting(s, data).kind = s.kind /\ Persisting(s, data).at = "open"
         /\ Persisting(s, data).revoking = s.revoking /\ Persisting(s, data).issuing = s.issuing
         /\ Persisting(s, data).data = data
BY DEF Persisting, CallRecords

LEMMA EmptyIsText == Empty \in Texts /\ Empty.last = NoKeys /\ Empty.size = 0
BY NoKeysIsState DEF Empty, Texts

LEMMA OverwriteIsText ==
  ASSUME NEW t \in Texts, NEW s \in States
  PROVE  Overwrite(t, s) \in Texts /\ Overwrite(t, s).last = s
<1>1. t.longest \in States
  BY DEF Texts
<1>2. Text(s) = [last |-> s, longest |-> s, size |-> 1]
  BY DEF Text
<1>3. PICK l \in States : Overwrite(t, s) = [Text(s) EXCEPT !.longest = l]
  BY <1>1 DEF Overwrite
<1>4. Overwrite(t, s) = [last |-> s, longest |-> l, size |-> 1]
  BY <1>2, <1>3
<1>5. QED  BY <1>4 DEF Texts

\* A file that is freed holds nothing.
LEMMA FreedIsContent ==
  ASSUME NEW text \in [Inodes -> Texts]
  PROVE  /\ Freed(text) \in [Inodes -> Texts]
         /\ \A i \in Inodes : Freed(text)[i] = text[i] \/ Freed(text)[i] = Empty
         /\ \A i \in Inodes : i \in {tmp', file'} => Freed(text)[i] = text[i]
BY EmptyIsText DEF Freed, Referenced

-----------------------------------------------------------------------------
(* What overlapping calls cannot do *)

LEMMA KeyStart == Init => KeyInv
BY NoKeysIsState, EmptyIsText
   DEF Init, KeyInv, TypeOK, UnusedIsNowhere, HashedIsNew, LoadIsAlone

\* One call goes on.
LEMMA CallGoesOn ==
  ASSUME KeyInv, NEW c \in Calls, NEW new \in {Idle} \cup CallRecords,
         call' = [call EXCEPT ![c] = new],
         server' \in {"loading", "up", "failed"}, keys' \in States, rotating' \subseteq Keys,
         tmp' \in Inodes \cup {None}, file' \in Inodes \cup {None},
         content' \in [Inodes -> Texts],
         told' \in [Keys -> {"unused", "requested", "issued", "revoked"}],
         \A k \in Keys : told'[k] = "unused" =>
           /\ told[k] = "unused" /\ keys'[k] = "absent"
           /\ new # Idle => k \notin new.issuing /\ new.data[k] = "absent"
           /\ \A i \in Inodes : content'[i].last[k] = "absent",
         \A d \in Calls : d # c /\ call[d] # Idle /\ call[d].at = "hash" =>
           /\ server' = "up"
           /\ \A k \in call[d].issuing : keys'[k] = "absent" /\ (new # Idle => k \notin new.issuing),
         new # Idle /\ new.at = "hash" =>
           /\ server' = "up"
           /\ \A k \in new.issuing :
                /\ keys'[k] = "absent"
                /\ \A d \in Calls : d # c /\ call[d] # Idle => k \notin call[d].issuing,
         new # Idle /\ new.kind = "load" =>
           server' = "loading" /\ \A d \in Calls : d # c => call[d] = Idle,
         call[c] # Idle \/ server \in {"up", "down"}
  PROVE  KeyInv'
<1>0. TypeOK /\ UnusedIsNowhere /\ HashedIsNew /\ LoadIsAlone
      /\ (server = "down" => \A d \in Calls : call[d] = Idle)
  BY DEF KeyInv
<1>1. call'[c] = new /\ \A d \in Calls : d # c => call'[d] = call[d]
  BY <1>0 DEF TypeOK
<1>2. TypeOK'
  BY <1>0 DEF TypeOK
<1>3. UnusedIsNowhere'
  BY <1>0, <1>1 DEF UnusedIsNowhere
<1>4. HashedIsNew'
  <2> SUFFICES ASSUME NEW d \in Calls, call'[d] # Idle, call'[d].at = "hash"
               PROVE  /\ server' = "up"
                      /\ \A k \in call'[d].issuing :
                           /\ keys'[k] = "absent"
                           /\ \A e \in Calls : call'[e] # Idle /\ k \in call'[e].issuing => e = d
    BY DEF HashedIsNew
  <2>1. CASE d = c
    BY <1>1, <2>1
  <2>2. CASE d # c
    BY <1>0, <1>1, <2>2 DEF HashedIsNew
  <2>3. QED  BY <2>1, <2>2
<1>5. LoadIsAlone'
  <2> SUFFICES ASSUME NEW d \in Calls, call'[d] # Idle, call'[d].kind = "load"
               PROVE  server' = "loading" /\ \A e \in Calls : call'[e] # Idle => e = d
    BY DEF LoadIsAlone
  <2>1. CASE d = c
    BY <1>1, <2>1
  <2>2. CASE d # c
    BY <1>0, <1>1, <2>2 DEF LoadIsAlone
  <2>3. QED  BY <2>1, <2>2
<1>6. server' # "down"
  OBVIOUS
<1>7. QED  BY <1>2, <1>3, <1>4, <1>5, <1>6 DEF KeyInv

LEMMA OpenTempKeys == ASSUME KeyInv, NEW c \in Calls, OpenTemp(c) PROVE KeyInv'
<1>0. TypeOK /\ UnusedIsNowhere /\ HashedIsNew /\ call[c] \in CallRecords
  BY RunningIsRecord DEF KeyInv, OpenTemp
<1>1. PICK i \in Inodes : /\ tmp' = i /\ content' = [content EXCEPT ![i] = Empty]
                         /\ call' = [call EXCEPT ![c].at = "write", ![c].fd = i]
  BY DEF OpenTemp
<1> DEFINE new == [call[c] EXCEPT !.at = "write", !.fd = i]
<1>2. call' = [call EXCEPT ![c] = new]
  BY <1>0, <1>1 DEF TypeOK, CallRecords
<1>3. new \in CallRecords /\ new.at = "write" /\ new.kind = call[c].kind /\ new.issuing = call[c].issuing /\ new.data = call[c].data
  BY <1>0 DEF CallRecords
<1> HIDE DEF new
<1>4. UNCHANGED <<server, keys, rotating, file, told>> /\ call[c] # Idle
  BY DEF OpenTemp, memory
<1>5. server \in {"loading", "up", "failed"}
  BY <1>0, <1>4 DEF KeyInv, TypeOK
<1>6. content' \in [Inodes -> Texts] /\ \A j \in Inodes : content'[j] = content[j] \/ content'[j] = Empty
  BY <1>0, <1>1, EmptyIsText DEF TypeOK
<1>7. \A k \in Keys : told'[k] = "unused" =>
           /\ told[k] = "unused" /\ keys'[k] = "absent"
           /\ new # Idle => k \notin new.issuing /\ new.data[k] = "absent"
           /\ \A j \in Inodes : content'[j].last[k] = "absent"
  BY <1>0, <1>3, <1>4, <1>6, EmptyIsText, NoKeysIsState DEF UnusedIsNowhere
<1>8. \A d \in Calls : d # c /\ call[d] # Idle /\ call[d].at = "hash" =>
           /\ server' = "up"
           /\ \A k \in call[d].issuing : keys'[k] = "absent" /\ (new # Idle => k \notin new.issuing)
  BY <1>0, <1>3, <1>4 DEF HashedIsNew
<1>9. /\ server' \in {"loading", "up", "failed"} /\ keys' \in States /\ rotating' \subseteq Keys
      /\ tmp' \in Inodes \cup {None} /\ file' \in Inodes \cup {None}
      /\ told' \in [Keys -> {"unused", "requested", "issued", "revoked"}]
  BY <1>0, <1>1, <1>4, <1>5 DEF TypeOK
<1>10. new \in {Idle} \cup CallRecords /\ new.at # "hash"
  BY <1>3
<1>11. new.kind = "load" => server' = "loading" /\ \A d \in Calls : d # c => call[d] = Idle
  BY <1>3, <1>4 DEF KeyInv, LoadIsAlone
<1>12. QED  BY <1>2, <1>4, <1>6, <1>7, <1>8, <1>9, <1>10, <1>11, CallGoesOn

LEMMA WriteTempKeys == ASSUME KeyInv, NEW c \in Calls, WriteTemp(c) PROVE KeyInv'
<1>0. TypeOK /\ UnusedIsNowhere /\ HashedIsNew /\ call[c] \in CallRecords /\ call[c] # Idle
  BY RunningIsRecord DEF KeyInv, WriteTemp
<1> DEFINE new == [call[c] EXCEPT !.at = "rename", !.fd = None]
           text == [content EXCEPT ![call[c].fd] = Overwrite(@, call[c].data)]
<1>1. /\ call' = [call EXCEPT ![c] = new] /\ content' = Freed(text)
      /\ UNCHANGED <<server, keys, rotating, tmp, file, told>>
  BY <1>0 DEF WriteTemp, memory, TypeOK, CallRecords
<1>2. new \in CallRecords /\ new.at = "rename" /\ new.kind = call[c].kind /\ new.issuing = call[c].issuing /\ new.data = call[c].data
  BY <1>0 DEF CallRecords
<1>3. call[c].data \in States
  BY <1>0 DEF CallRecords
<1>4. text \in [Inodes -> Texts]
      /\ \A j \in Inodes : text[j] = content[j] \/ text[j].last = call[c].data
  BY <1>0, <1>3, OverwriteIsText DEF TypeOK
<1> HIDE DEF new, text
<1>5. content' \in [Inodes -> Texts]
      /\ \A j \in Inodes : content'[j] = text[j] \/ content'[j] = Empty
  BY <1>1, <1>4, FreedIsContent
<1>6. server \in {"loading", "up", "failed"}
  BY <1>0 DEF KeyInv, TypeOK
<1>7. \A k \in Keys : told'[k] = "unused" =>
           /\ told[k] = "unused" /\ keys'[k] = "absent"
           /\ new # Idle => k \notin new.issuing /\ new.data[k] = "absent"
           /\ \A j \in Inodes : content'[j].last[k] = "absent"
  BY <1>0, <1>1, <1>2, <1>4, <1>5, EmptyIsText, NoKeysIsState DEF UnusedIsNowhere
<1>8. \A d \in Calls : d # c /\ call[d] # Idle /\ call[d].at = "hash" =>
           /\ server' = "up"
           /\ \A k \in call[d].issuing : keys'[k] = "absent" /\ (new # Idle => k \notin new.issuing)
  BY <1>0, <1>1, <1>2 DEF HashedIsNew
<1>9. /\ server' \in {"loading", "up", "failed"} /\ keys' \in States /\ rotating' \subseteq Keys
      /\ tmp' \in Inodes \cup {None} /\ file' \in Inodes \cup {None}
      /\ told' \in [Keys -> {"unused", "requested", "issued", "revoked"}]
  BY <1>0, <1>1, <1>6 DEF TypeOK
<1>10. new \in {Idle} \cup CallRecords /\ new.at # "hash"
  BY <1>2
<1>11. new.kind = "load" => server' = "loading" /\ \A d \in Calls : d # c => call[d] = Idle
  BY <1>0, <1>1, <1>2 DEF KeyInv, LoadIsAlone
<1>12. QED  BY <1>0, <1>1, <1>5, <1>7, <1>8, <1>9, <1>10, <1>11, CallGoesOn

\* A call is over, with the file renamed or without.
LEMMA CallEnds ==
  ASSUME KeyInv, NEW c \in Calls, call[c] # Idle, call' = [call EXCEPT ![c] = Idle],
         UNCHANGED keys, content' = Freed(content), rotating' \subseteq Keys,
         server' = server \/ (server' \in {"up", "failed"} /\ call[c].kind = "load"),
         tmp' \in {tmp, None}, file' \in {file, tmp},
         told' \in [Keys -> {"unused", "requested", "issued", "revoked"}],
         \A k \in Keys : told'[k] = "unused" => told[k] = "unused"
  PROVE  KeyInv'
<1>0. TypeOK /\ UnusedIsNowhere /\ HashedIsNew /\ LoadIsAlone
  BY DEF KeyInv
<1>1. server \in {"loading", "up", "failed"}
  BY <1>0 DEF KeyInv, TypeOK
<1>2. content' \in [Inodes -> Texts] /\ \A j \in Inodes : content'[j] = content[j] \/ content'[j] = Empty
  BY <1>0, FreedIsContent DEF TypeOK
<1>3. \A k \in Keys : told'[k] = "unused" =>
           /\ told[k] = "unused" /\ keys'[k] = "absent"
           /\ \A j \in Inodes : content'[j].last[k] = "absent"
  BY <1>0, <1>2, EmptyIsText, NoKeysIsState DEF UnusedIsNowhere
<1>4. \A d \in Calls : d # c /\ call[d] # Idle /\ call[d].at = "hash" =>
           server' = "up" /\ \A k \in call[d].issuing : keys'[k] = "absent"
  BY <1>0 DEF HashedIsNew, LoadIsAlone
<1>5. /\ server' \in {"loading", "up", "failed"} /\ keys' \in States
      /\ tmp' \in Inodes \cup {None} /\ file' \in Inodes \cup {None}
  BY <1>0, <1>1 DEF TypeOK
<1>6. \A k \in Keys : told'[k] = "unused" =>
           /\ told[k] = "unused" /\ keys'[k] = "absent"
           /\ Idle # Idle => k \notin Idle.issuing /\ Idle.data[k] = "absent"
           /\ \A i \in Inodes : content'[i].last[k] = "absent"
  BY <1>3
<1>7. \A d \in Calls : d # c /\ call[d] # Idle /\ call[d].at = "hash" =>
           /\ server' = "up"
           /\ \A k \in call[d].issuing : keys'[k] = "absent" /\ (Idle # Idle => k \notin Idle.issuing)
  BY <1>4
<1>8. Idle \in {Idle} \cup CallRecords
  OBVIOUS
<1>9. QED  BY <1>2, <1>5, <1>6, <1>7, <1>8, CallGoesOn

LEMMA RenameTempKeys == ASSUME KeyInv, NEW c \in Calls, RenameTemp(c) PROVE KeyInv'
<1>0. TypeOK /\ call[c] # Idle /\ call[c] \in CallRecords
  BY RunningIsRecord DEF KeyInv, RenameTemp
<1>1. told' \in [Keys -> {"unused", "requested", "issued", "revoked"}]
      /\ \A k \in Keys : told'[k] = "unused" => told[k] = "unused"
  BY <1>0 DEF RenameTemp, TypeOK
<1>2. rotating' \subseteq Keys
  BY <1>0 DEF RenameTemp, TypeOK, CallRecords
<1>3. QED  BY <1>0, <1>1, <1>2, CallEnds DEF RenameTemp

LEMMA PersistFailsKeys == ASSUME KeyInv, NEW c \in Calls, PersistFails(c) PROVE KeyInv'
<1>1. TypeOK
  BY DEF KeyInv
<1>2. QED  BY <1>1, CallEnds DEF PersistFails, TypeOK

\* A call is made while the server is up: the disk is as it was.
LEMMA CallBegins ==
  ASSUME KeyInv, NEW c \in Calls, Ready(c), NEW new \in CallRecords,
         call' = [call EXCEPT ![c] = new], UNCHANGED <<server, tmp, file, content>>,
         new.kind # "load", keys' \in States, rotating' \subseteq Keys,
         \A k \in Keys : keys[k] = "absent" => keys'[k] = "absent",
         \/ /\ new.at # "hash" /\ new.issuing = {} /\ new.data = keys' /\ UNCHANGED told
         \/ /\ new.at = "hash" /\ new.data = NoKeys
            /\ \E k \in Keys : /\ new.issuing = {k} /\ told[k] = "unused"
                               /\ told' = [told EXCEPT ![k] = "requested"]
  PROVE  KeyInv'
<1>0. TypeOK /\ UnusedIsNowhere /\ HashedIsNew /\ server = "up"
  BY DEF KeyInv, Ready
<1>1. told' \in [Keys -> {"unused", "requested", "issued", "revoked"}]
      /\ \A k \in Keys : told'[k] = "unused" => told[k] = "unused" /\ k \notin new.issuing
  BY <1>0 DEF TypeOK
<1>2. new \in {Idle} \cup CallRecords /\ new.issuing \subseteq Keys
      /\ \A k \in new.issuing : told[k] = "unused"
  BY DEF CallRecords
<1>3. \A k \in Keys : told'[k] = "unused" =>
           /\ told[k] = "unused" /\ keys'[k] = "absent"
           /\ k \notin new.issuing /\ new.data[k] = "absent"
           /\ \A j \in Inodes : content'[j].last[k] = "absent"
  BY <1>0, <1>1, NoKeysIsState DEF UnusedIsNowhere
<1>4. \A d \in Calls : call[d] # Idle => call[d].issuing \subseteq Keys
  BY <1>0, RunningIsRecord DEF CallRecords
<1>5. \A k \in new.issuing : /\ keys'[k] = "absent"
                             /\ \A d \in Calls : call[d] # Idle => k \notin call[d].issuing
  BY <1>0, <1>2 DEF UnusedIsNowhere
<1>6. \A d \in Calls : d # c /\ call[d] # Idle /\ call[d].at = "hash" =>
           \A k \in call[d].issuing : keys'[k] = "absent" /\ k \notin new.issuing
  BY <1>0, <1>4, <1>5 DEF HashedIsNew
<1>7. /\ server' \in {"loading", "up", "failed"} /\ tmp' \in Inodes \cup {None}
      /\ file' \in Inodes \cup {None} /\ content' \in [Inodes -> Texts]
  BY <1>0 DEF TypeOK
<1>8. \A k \in Keys : told'[k] = "unused" =>
           /\ told[k] = "unused" /\ keys'[k] = "absent"
           /\ new # Idle => k \notin new.issuing /\ new.data[k] = "absent"
           /\ \A i \in Inodes : content'[i].last[k] = "absent"
  BY <1>3
<1>9. \A d \in Calls : d # c /\ call[d] # Idle /\ call[d].at = "hash" =>
           /\ server' = "up"
           /\ \A k \in call[d].issuing : keys'[k] = "absent" /\ (new # Idle => k \notin new.issuing)
  BY <1>0, <1>6
<1>10. new # Idle /\ new.at = "hash" =>
           /\ server' = "up"
           /\ \A k \in new.issuing :
                /\ keys'[k] = "absent"
                /\ \A d \in Calls : d # c /\ call[d] # Idle => k \notin call[d].issuing
  BY <1>0, <1>5
<1>11. told' \in [Keys -> {"unused", "requested", "issued", "revoked"}]
  BY <1>1
<1>12. QED  BY <1>0, <1>2, <1>7, <1>8, <1>9, <1>10, <1>11, CallGoesOn

LEMMA IssueKeyKeys ==
  ASSUME KeyInv, NEW c \in Calls, NEW k \in Keys, IssueKey(c, k) PROVE KeyInv'
<1>1. "issue" \in Kinds /\ {} \in SUBSET Keys /\ {k} \in SUBSET Keys
  BY DEF Kinds
<1>2. keys \in States /\ rotating \subseteq Keys
  BY DEF KeyInv, TypeOK
<1> DEFINE new == Started("issue", {}, {k})
<1>3. new \in CallRecords /\ new.kind = "issue" /\ new.at = "hash" /\ new.issuing = {k} /\ new.data = NoKeys
  BY <1>1, StartedRecord
<1> HIDE DEF new
<1>4. /\ Ready(c) /\ told[k] = "unused" /\ call' = [call EXCEPT ![c] = new]
      /\ told' = [told EXCEPT ![k] = "requested"]
      /\ UNCHANGED <<server, keys, rotating, tmp, file, content>>
  BY DEF IssueKey, new, memory, disk
<1>5. QED  BY <1>2, <1>3, <1>4, CallBegins

LEMMA RotateKeyKeys ==
  ASSUME KeyInv, NEW c \in Calls, NEW old \in Keys, NEW k \in Keys, RotateKey(c, old, k) PROVE KeyInv'
<1>1. "rotate" \in Kinds /\ {old} \in SUBSET Keys /\ {k} \in SUBSET Keys
  BY DEF Kinds
<1>2. keys \in States /\ rotating \subseteq Keys
  BY DEF KeyInv, TypeOK
<1> DEFINE new == Started("rotate", {old}, {k})
<1>3. new \in CallRecords /\ new.kind = "rotate" /\ new.at = "hash" /\ new.issuing = {k} /\ new.data = NoKeys
  BY <1>1, StartedRecord
<1> HIDE DEF new
<1>4. /\ Ready(c) /\ told[k] = "unused" /\ call' = [call EXCEPT ![c] = new]
      /\ told' = [told EXCEPT ![k] = "requested"]
      /\ UNCHANGED <<server, keys, rotating, tmp, file, content>>
  BY DEF RotateKey, new, memory, disk
<1>5. QED  BY <1>2, <1>3, <1>4, CallBegins

\* The keys of S are revoked in memory.
LEMMA RevokeMarks ==
  ASSUME TypeOK, NEW c \in Calls, NEW S \in SUBSET Keys, Revoke(c, S)
  PROVE  /\ keys' \in States /\ \A k \in Keys : keys'[k] = IF k \in S THEN "revoked" ELSE keys[k]
         /\ \E new \in CallRecords :
              /\ call' = [call EXCEPT ![c] = new] /\ new.kind = "revoke" /\ new.at = "open"
              /\ new.issuing = {} /\ new.revoking = S /\ new.data = keys'
<1>1. keys' \in States /\ \A k \in Keys : keys'[k] = IF k \in S THEN "revoked" ELSE keys[k]
  BY DEF Revoke, TypeOK, States
<1>2. "revoke" \in Kinds /\ {} \in SUBSET Keys
  BY DEF Kinds
<1>3. Started("revoke", S, {}) \in CallRecords /\ Started("revoke", S, {}).kind = "revoke"
      /\ Started("revoke", S, {}).issuing = {} /\ Started("revoke", S, {}).revoking = S
  BY <1>2, StartedRecord
<1> DEFINE new == Persisting(Started("revoke", S, {}), keys')
<1>4. new \in CallRecords /\ new.kind = "revoke" /\ new.at = "open" /\ new.issuing = {}
      /\ new.revoking = S /\ new.data = keys'
  BY <1>1, <1>3, PersistingRecord
<1>5. call' = [call EXCEPT ![c] = new]
  BY DEF Revoke
<1> HIDE DEF new
<1>6. QED  BY <1>1, <1>4, <1>5

LEMMA RevokeKeys ==
  ASSUME KeyInv, NEW c \in Calls, Ready(c), NEW S \in SUBSET Keys, Revoke(c, S),
         \A k \in S : keys[k] = "active",
         rotating' \subseteq Keys, UNCHANGED <<server, tmp, file, content, told>>
  PROVE  KeyInv'
<1>0. TypeOK
  BY DEF KeyInv
<1>1. keys' \in States /\ \A k \in Keys : keys[k] = "absent" => keys'[k] = "absent"
  BY <1>0, RevokeMarks
<1>2. PICK new \in CallRecords :
              /\ call' = [call EXCEPT ![c] = new] /\ new.kind = "revoke" /\ new.at = "open"
              /\ new.issuing = {} /\ new.data = keys'
  BY <1>0, RevokeMarks
<1>3. QED  BY <1>1, <1>2, CallBegins

LEMMA RotationDueKeys ==
  ASSUME KeyInv, NEW c \in Calls, NEW k \in Keys, RotationDue(c, k) PROVE KeyInv'
<1>0. TypeOK
  BY DEF KeyInv
<1>1. rotating' \subseteq Keys /\ UNCHANGED <<server, tmp, file, content, told>> /\ Ready(c)
  BY <1>0 DEF RotationDue, TypeOK, disk
<1>2. CASE keys[k] = "active" /\ Revoke(c, {k})
  BY <1>1, <1>2, RevokeKeys
<1>3. CASE UNCHANGED <<keys, call>>
  <2>1. TypeOK'
    BY <1>0, <1>1, <1>3 DEF TypeOK
  <2>2. UnusedIsNowhere' /\ HashedIsNew' /\ LoadIsAlone'
    BY <1>1, <1>3 DEF KeyInv, UnusedIsNowhere, HashedIsNew, LoadIsAlone
  <2>3. QED  BY <1>1, <1>3, <2>1, <2>2 DEF KeyInv
<1>4. QED  BY <1>2, <1>3 DEF RotationDue

LEMMA RecordKeyUseKeys ==
  ASSUME KeyInv, NEW c \in Calls, NEW k \in Keys, RecordKeyUse(c, k) PROVE KeyInv'
<1>0. keys \in States /\ rotating \subseteq Keys
  BY DEF KeyInv, TypeOK
<1>1. "use" \in Kinds /\ {} \in SUBSET Keys
  BY DEF Kinds
<1>2. Started("use", {}, {}) \in CallRecords /\ Started("use", {}, {}).kind = "use"
      /\ Started("use", {}, {}).issuing = {}
  BY <1>1, StartedRecord
<1> DEFINE new == Persisting(Started("use", {}, {}), keys)
<1>3. new \in CallRecords /\ new.kind = "use" /\ new.at = "open" /\ new.issuing = {} /\ new.data = keys
  BY <1>0, <1>2, PersistingRecord
<1>4. call' = [call EXCEPT ![c] = new]
  BY DEF RecordKeyUse
<1> HIDE DEF new
<1>5. Ready(c) /\ UNCHANGED <<server, keys, rotating, tmp, file, content, told>>
  BY DEF RecordKeyUse, memory, disk
<1>6. QED  BY <1>0, <1>3, <1>4, <1>5, CallBegins

\* The key is pushed: it was new, and no other call is hashing for it.
LEMMA PushKeyKeys == ASSUME KeyInv, NEW c \in Calls, PushKey(c) PROVE KeyInv'
<1>0. TypeOK /\ UnusedIsNowhere /\ HashedIsNew /\ call[c] # Idle /\ call[c] \in CallRecords
  BY RunningIsRecord DEF KeyInv, PushKey
<1>1. /\ keys' = [k \in Keys |-> IF k \in call[c].issuing THEN "active" ELSE keys[k]]
      /\ call' = [call EXCEPT ![c] = Persisting(call[c], keys')]
      /\ UNCHANGED <<server, rotating, tmp, file, content, told>> /\ call[c].at = "hash"
  BY <1>0 DEF PushKey, TypeOK, disk
<1>2. keys' \in States
  BY <1>0, <1>1 DEF TypeOK, States
<1> DEFINE new == Persisting(call[c], keys')
<1>3. new \in CallRecords /\ new.kind = call[c].kind /\ new.at = "open"
      /\ new.issuing = call[c].issuing /\ new.data = keys'
  BY <1>0, <1>2, PersistingRecord
<1> HIDE DEF new
<1>4. call' = [call EXCEPT ![c] = new] /\ new \in {Idle} \cup CallRecords
  BY <1>1, <1>3 DEF new
<1>5. server = "up" /\ call[c].issuing \subseteq Keys
  BY <1>0, <1>1 DEF HashedIsNew, CallRecords
<1>6. \A k \in Keys : told'[k] = "unused" =>
           /\ told[k] = "unused" /\ keys'[k] = "absent"
           /\ new # Idle => k \notin new.issuing /\ new.data[k] = "absent"
           /\ \A i \in Inodes : content'[i].last[k] = "absent"
  BY <1>0, <1>1, <1>3 DEF UnusedIsNowhere
<1>7. \A d \in Calls : call[d] # Idle => call[d].issuing \subseteq Keys
  BY <1>0, RunningIsRecord DEF CallRecords
<1>8. \A d \in Calls : d # c /\ call[d] # Idle /\ call[d].at = "hash" =>
           /\ server' = "up"
           /\ \A k \in call[d].issuing : keys'[k] = "absent" /\ (new # Idle => k \notin new.issuing)
  <2> SUFFICES ASSUME NEW d \in Calls, d # c, call[d] # Idle, call[d].at = "hash",
                      NEW k \in call[d].issuing
               PROVE  keys'[k] = "absent" /\ k \notin call[c].issuing
    BY <1>1, <1>3, <1>5
  <2>1. k \in Keys /\ keys[k] = "absent" /\ k \notin call[c].issuing
    BY <1>0, <1>7 DEF HashedIsNew
  <2>2. QED  BY <1>1, <2>1
<1>9. new.kind # "load"
  BY <1>0, <1>3, <1>5 DEF KeyInv, LoadIsAlone
<1>10. /\ server' \in {"loading", "up", "failed"} /\ rotating' \subseteq Keys
       /\ tmp' \in Inodes \cup {None} /\ file' \in Inodes \cup {None}
       /\ content' \in [Inodes -> Texts]
       /\ told' \in [Keys -> {"unused", "requested", "issued", "revoked"}]
  BY <1>0, <1>1, <1>5 DEF TypeOK
<1>11. new.at # "hash"
  BY <1>3
<1>12. QED  BY <1>0, <1>2, <1>4, <1>6, <1>8, <1>9, <1>10, <1>11, CallGoesOn

LEMMA LoadKeysKeys == ASSUME KeyInv, NEW c \in Calls, LoadKeys(c) PROVE KeyInv'
<1>0. TypeOK /\ UnusedIsNowhere /\ (\A d \in Calls : call[d] = Idle) /\ server = "down"
  BY DEF KeyInv, LoadKeys
<1>1. UNCHANGED <<rotating, tmp, file, content, told>>
  BY DEF LoadKeys, disk
<1>2. ASSUME server' = "loading", UNCHANGED keys,
             call' = [call EXCEPT ![c] = Persisting(Started("load", {}, {}), NoKeys)]
      PROVE  KeyInv'
  <2>1. server' = "loading" /\ UNCHANGED keys
        /\ call' = [call EXCEPT ![c] = Persisting(Started("load", {}, {}), NoKeys)]
    BY <1>2
  <2>2. "load" \in Kinds /\ {} \in SUBSET Keys
    BY DEF Kinds
  <2>3. Started("load", {}, {}) \in CallRecords /\ Started("load", {}, {}).kind = "load"
        /\ Started("load", {}, {}).issuing = {}
    BY <2>2, StartedRecord
  <2> DEFINE new == Persisting(Started("load", {}, {}), NoKeys)
  <2>4. new \in CallRecords /\ new.kind = "load" /\ new.at = "open" /\ new.issuing = {} /\ new.data = NoKeys
    BY <2>3, NoKeysIsState, PersistingRecord
  <2> HIDE DEF new
  <2>5. \A k \in Keys : told'[k] = "unused" =>
           /\ told[k] = "unused" /\ keys'[k] = "absent"
           /\ new # Idle => k \notin new.issuing /\ new.data[k] = "absent"
           /\ \A i \in Inodes : content'[i].last[k] = "absent"
    BY <1>0, <1>1, <2>1, <2>4, NoKeysIsState DEF UnusedIsNowhere
  <2>6. /\ keys' \in States /\ rotating' \subseteq Keys
        /\ tmp' \in Inodes \cup {None} /\ file' \in Inodes \cup {None}
        /\ content' \in [Inodes -> Texts]
        /\ told' \in [Keys -> {"unused", "requested", "issued", "revoked"}]
    BY <1>0, <1>1, <2>1 DEF TypeOK
  <2>7. call' = [call EXCEPT ![c] = new] /\ new \in {Idle} \cup CallRecords /\ new.at # "hash"
    BY <2>1, <2>4 DEF new
  <2>8. \A d \in Calls : d # c /\ call[d] # Idle /\ call[d].at = "hash" =>
           /\ server' = "up"
           /\ \A k \in call[d].issuing : keys'[k] = "absent" /\ (new # Idle => k \notin new.issuing)
    BY <1>0
  <2>9. /\ server' \in {"loading", "up", "failed"} /\ server' = "loading" /\ server \in {"up", "down"}
        /\ \A d \in Calls : d # c => call[d] = Idle
    BY <1>0, <2>1
  <2>10. QED  BY <2>5, <2>6, <2>7, <2>8, <2>9, CallGoesOn
<1>3. ASSUME UNCHANGED call, server' \in {"up", "failed"},
             UNCHANGED keys \/ (file # None /\ keys' = content[file].last)
      PROVE  KeyInv'
  <2>1. UNCHANGED call /\ server' \in {"up", "failed"}
    BY <1>3
  <2>2. file # None => file \in Inodes /\ content[file] \in Texts
    BY <1>0 DEF TypeOK
  <2>3. keys' \in States
    BY <1>0, <1>3, <2>2 DEF TypeOK, Texts
  <2>4. TypeOK'
    BY <1>0, <1>1, <2>1, <2>3 DEF TypeOK
  <2>5. UnusedIsNowhere'
    BY <1>0, <1>1, <1>3, <2>2 DEF UnusedIsNowhere
  <2>6. HashedIsNew' /\ LoadIsAlone'
    BY <1>0, <2>1 DEF HashedIsNew, LoadIsAlone
  <2>7. QED  BY <2>1, <2>4, <2>5, <2>6 DEF KeyInv
<1>4. QED  BY <1>2, <1>3 DEF LoadKeys

LEMMA CrashKeys == ASSUME KeyInv, Crash PROVE KeyInv'
<1>0. TypeOK /\ UnusedIsNowhere
  BY DEF KeyInv
<1>1. /\ server' = "down" /\ keys' = NoKeys /\ call' = [c \in Calls |-> Idle] /\ rotating' = {}
      /\ content' = Freed(content) /\ UNCHANGED <<tmp, file, told>>
  BY DEF Crash
<1>2. content' \in [Inodes -> Texts] /\ \A j \in Inodes : content'[j] = content[j] \/ content'[j] = Empty
  BY <1>0, <1>1, FreedIsContent DEF TypeOK
<1>3. TypeOK'
  BY <1>0, <1>1, <1>2, NoKeysIsState DEF TypeOK
<1>4. UnusedIsNowhere'
  BY <1>0, <1>1, <1>2, EmptyIsText, NoKeysIsState DEF UnusedIsNowhere
<1>5. HashedIsNew' /\ LoadIsAlone'
  BY <1>1 DEF HashedIsNew, LoadIsAlone
<1>6. QED  BY <1>1, <1>3, <1>4, <1>5 DEF KeyInv

LEMMA KeyStep == KeyInv /\ [Next]_vars => KeyInv'
<1> SUFFICES ASSUME KeyInv, [Next]_vars PROVE KeyInv'
  OBVIOUS
<1>1. ASSUME UNCHANGED vars PROVE KeyInv'
  <2>1. TypeOK' /\ UnusedIsNowhere' /\ HashedIsNew' /\ LoadIsAlone'
    BY <1>1 DEF KeyInv, TypeOK, UnusedIsNowhere, HashedIsNew, LoadIsAlone, vars, memory, disk
  <2>2. QED  BY <1>1, <2>1 DEF KeyInv, vars, memory
<1>2. ASSUME NEW c \in Calls, NEW k \in Keys, RevokeKey(c, k) PROVE KeyInv'
  <2>1. rotating \subseteq Keys
    BY DEF KeyInv, TypeOK
  <2>2. QED  BY <1>2, <2>1, RevokeKeys DEF RevokeKey, disk
<1>3. ASSUME NEW c \in Calls, RevokeAll(c) PROVE KeyInv'
  <2>1. rotating \subseteq Keys
    BY DEF KeyInv, TypeOK
  <2>2. QED  BY <1>3, <2>1, RevokeKeys DEF RevokeAll, disk
<1>4. QED
  BY <1>1, <1>2, <1>3, IssueKeyKeys, RotateKeyKeys, PushKeyKeys, RotationDueKeys, RecordKeyUseKeys,
     LoadKeysKeys, OpenTempKeys, WriteTempKeys, RenameTempKeys, PersistFailsKeys, CrashKeys
     DEF Next, Persist

\* auth.mjs: while the process runs a revocation is final and no key is forgotten,
\* however many calls overlap and whatever becomes of the file.
THEOREM RevocationIsFinal == Spec => RevokedIsFinal
<1>1. ASSUME KeyInv, Next, server = "up", server' = "up", NEW k \in Keys
      PROVE  /\ keys[k] = "revoked" => keys'[k] = "revoked"
             /\ keys[k] # "absent" => keys'[k] # "absent"
  <2>0. TypeOK /\ HashedIsNew
    BY <1>1 DEF KeyInv
  <2>1. ASSUME NEW c \in Calls, PushKey(c)
        PROVE  keys'[k] = IF k \in call[c].issuing THEN "active" ELSE keys[k]
    BY <2>1 DEF PushKey
  <2>2. ASSUME NEW c \in Calls, NEW S \in SUBSET Keys, Revoke(c, S)
        PROVE  keys'[k] \in {keys[k], "revoked"}
    BY <2>0, <2>2, RevokeMarks
  <2>3. ASSUME NEW c \in Calls, PushKey(c), k \in call[c].issuing PROVE keys[k] = "absent"
    BY <2>0, <2>3 DEF PushKey, HashedIsNew
  <2>4. ASSUME NEW c \in Calls, LoadKeys(c) \/ Crash PROVE FALSE
    BY <1>1, <2>4 DEF LoadKeys, Crash
  <2>5. ASSUME NEW c \in Calls, Persist(c) PROVE UNCHANGED keys
    BY <2>5 DEF Persist, OpenTemp, WriteTemp, RenameTemp, PersistFails, memory
  <2>6. ASSUME NEW c \in Calls, NEW l \in Keys, NEW old \in Keys,
               IssueKey(c, l) \/ RotateKey(c, old, l) \/ RecordKeyUse(c, l)
        PROVE  UNCHANGED keys
    BY <2>6 DEF IssueKey, RotateKey, RecordKeyUse, memory
  <2>7. ASSUME NEW c \in Calls, NEW l \in Keys, RevokeKey(c, l) \/ RevokeAll(c) \/ RotationDue(c, l)
        PROVE  keys'[k] \in {keys[k], "revoked"}
    BY <2>2, <2>7 DEF RevokeKey, RevokeAll, RotationDue
  <2>8. Crash => FALSE
    BY <1>1 DEF Crash
  <2>9. QED  BY <1>1, <2>1, <2>3, <2>4, <2>5, <2>6, <2>7, <2>8 DEF Next
<1>2. KeyInv /\ [Next]_vars =>
        [\A k \in Keys : server = "up" /\ server' = "up" =>
           /\ keys[k] = "revoked" => keys'[k] = "revoked"
           /\ keys[k] # "absent" => keys'[k] # "absent"]_vars
  BY <1>1
<1>3. QED  BY <1>2, KeyStart, KeyStep, PTL DEF Spec, RevokedIsFinal

-----------------------------------------------------------------------------
(* A rotation that has armed its timer *)

\* One call goes on and no key is forgotten; what it puts under a timer are the
\* old keys of its own rotation.
LEMMA RotationGoesOn ==
  ASSUME RotationInv, KeyInv', NEW c \in Calls, server' = "down" => server = "down",
         \A k \in Keys : keys[k] # "absent" => keys'[k] # "absent",
         \A k \in rotating' : \/ k \in rotating
                              \/ call[c] # Idle /\ call[c].kind = "rotate" /\ k \in call[c].revoking,
         \A d \in Calls \ {c} : call'[d] = call[d],
         call'[c] # Idle /\ call'[c].kind = "rotate" =>
           \A k \in call'[c].revoking : k \in Keys /\ keys[k] # "absent"
  PROVE  RotationInv'
<1>1. rotating' \subseteq Keys
  BY DEF KeyInv, TypeOK
<1>2. \A k \in rotating' : keys'[k] # "absent"
  BY <1>1 DEF RotationInv
<1>3. server' = "down" => rotating' = {}
  BY DEF RotationInv, KeyInv
<1>4. \A d \in Calls : call'[d] # Idle /\ call'[d].kind = "rotate" =>
        \A k \in call'[d].revoking : keys'[k] # "absent"
  <2>1. \A d \in Calls : call'[d] # Idle => call'[d].revoking \subseteq Keys
    BY RunningIsRecord DEF KeyInv, TypeOK, CallRecords
  <2>2. QED  BY <2>1 DEF RotationInv
<1>5. QED  BY <1>2, <1>3, <1>4 DEF RotationInv

LEMMA RotationStep == RotationInv /\ [Next]_vars => RotationInv'
<1> SUFFICES ASSUME RotationInv, [Next]_vars PROVE RotationInv'
  OBVIOUS
<1>0. KeyInv /\ KeyInv' /\ TypeOK
  BY KeyStep DEF RotationInv, KeyInv
<1>1. CASE UNCHANGED vars
  BY <1>0, <1>1 DEF RotationInv, vars, memory
<1>2. ASSUME NEW c \in Calls, NEW k \in Keys, IssueKey(c, k) \/ RecordKeyUse(c, k)
      PROVE  RotationInv'
  <2>1. \E next : call' = [call EXCEPT ![c] = next] /\ next.kind # "rotate"
    <3>1. /\ Started("issue", {}, {k}).kind = "issue"
          /\ Persisting(Started("use", {}, {}), keys).kind = "use"
      BY DEF Started, Persisting
    <3>2. \/ call' = [call EXCEPT ![c] = Started("issue", {}, {k})]
          \/ call' = [call EXCEPT ![c] = Persisting(Started("use", {}, {}), keys)]
      BY <1>2 DEF IssueKey, RecordKeyUse
    <3>3. QED  BY <3>1, <3>2
  <2>2. \A d \in Calls \ {c} : call'[d] = call[d]
    BY <1>0, <2>1 DEF TypeOK
  <2>3. call'[c].kind # "rotate"
    BY <1>0, <2>1 DEF TypeOK
  <2>4. UNCHANGED memory
    BY <1>2 DEF IssueKey, RecordKeyUse
  <2>5. QED  BY <1>0, <2>2, <2>3, <2>4, RotationGoesOn DEF memory
<1>3. ASSUME NEW c \in Calls, NEW old \in Keys, NEW k \in Keys, RotateKey(c, old, k)
      PROVE  RotationInv'
  <2>1. call' = [call EXCEPT ![c] = Started("rotate", {old}, {k})] /\ keys[old] = "active"
    BY <1>3 DEF RotateKey
  <2>2. \A d \in Calls \ {c} : call'[d] = call[d]
    BY <1>0, <2>1 DEF TypeOK
  <2>3. call'[c].revoking = {old}
    BY <1>0, <2>1 DEF TypeOK, Started
  <2>4. UNCHANGED memory
    BY <1>3 DEF RotateKey
  <2>5. QED  BY <1>0, <2>1, <2>2, <2>3, <2>4, RotationGoesOn DEF memory
<1>4. ASSUME NEW c \in Calls, RevokeAll(c) \/ \E k \in Keys : RevokeKey(c, k) \/ RotationDue(c, k)
      PROVE  RotationInv'
  <2>1. rotating' \subseteq rotating /\ UNCHANGED server
    BY <1>4 DEF RevokeKey, RevokeAll, RotationDue
  <2>2. CASE \E S \in SUBSET Keys : Revoke(c, S)
    <3>1. PICK S \in SUBSET Keys : Revoke(c, S)
      BY <2>2
    <3>2. \A l \in Keys : keys'[l] \in {keys[l], "revoked"}
      BY <1>0, <3>1, RevokeMarks
    <3>3. \E next : call' = [call EXCEPT ![c] = next] /\ next.kind = "revoke"
      BY <1>0, <3>1, RevokeMarks
    <3>4. (\A d \in Calls \ {c} : call'[d] = call[d]) /\ call'[c].kind = "revoke"
      BY <1>0, <3>3 DEF TypeOK
    <3>5. QED  BY <1>0, <2>1, <3>2, <3>4, RotationGoesOn
  <2>3. CASE UNCHANGED <<keys, call>>
    <3>1. call[c] = Idle
      BY <1>4, <2>3 DEF RevokeKey, RevokeAll, RotationDue, Ready
    <3>2. QED  BY <1>0, <2>1, <2>3, <3>1, RotationGoesOn
  <2>4. QED  BY <1>4, <2>2, <2>3 DEF RevokeKey, RevokeAll, RotationDue
<1>5. ASSUME NEW c \in Calls, PushKey(c) \/ OpenTemp(c) \/ WriteTemp(c)
      PROVE  RotationInv'
  <2>1. call[c] # Idle /\ call[c] \in CallRecords /\ UNCHANGED <<server, rotating>>
    BY <1>0, <1>5, RunningIsRecord DEF PushKey, OpenTemp, WriteTemp, memory, TypeOK
  <2>2. \A d \in Calls \ {c} : call'[d] = call[d]
    BY <1>0, <1>5 DEF PushKey, OpenTemp, WriteTemp, TypeOK
  <2>3. call'[c].kind = call[c].kind /\ call'[c].revoking = call[c].revoking
    <3>1. CASE PushKey(c)
      <4>1. call'[c] = Persisting(call[c], keys') /\ keys' \in States
        BY <1>0, <3>1 DEF PushKey, TypeOK, KeyInv
      <4>2. QED  BY <2>1, <4>1, PersistingRecord
    <3>2. CASE OpenTemp(c)
      <4>1. PICK i \in Inodes : call' = [call EXCEPT ![c].at = "write", ![c].fd = i]
        BY <3>2 DEF OpenTemp
      <4>2. call'[c] = [call[c] EXCEPT !.at = "write", !.fd = i]
        BY <1>0, <4>1 DEF TypeOK
      <4>3. QED  BY <2>1, <4>2 DEF CallRecords
    <3>3. CASE WriteTemp(c)
      <4>1. call'[c] = [call[c] EXCEPT !.at = "rename", !.fd = None]
        BY <1>0, <3>3 DEF WriteTemp, TypeOK
      <4>2. QED  BY <2>1, <4>1 DEF CallRecords
    <3>4. QED  BY <1>5, <3>1, <3>2, <3>3
  <2>4. \A k \in Keys : keys[k] # "absent" => keys'[k] # "absent"
    BY <1>5 DEF PushKey, OpenTemp, WriteTemp, memory
  <2>5. call[c].kind = "rotate" => \A k \in call[c].revoking : k \in Keys /\ keys[k] # "absent"
    BY <2>1 DEF RotationInv, CallRecords
  <2>6. QED  BY <1>0, <2>1, <2>2, <2>3, <2>4, <2>5, RotationGoesOn
<1>6. ASSUME NEW c \in Calls, RenameTemp(c) \/ PersistFails(c)
      PROVE  RotationInv'
  <2>1. call[c] # Idle /\ UNCHANGED keys /\ call' = [call EXCEPT ![c] = Idle]
    BY <1>6 DEF RenameTemp, PersistFails
  <2>2. (\A d \in Calls \ {c} : call'[d] = call[d]) /\ call'[c] = Idle
    BY <1>0, <2>1 DEF TypeOK
  <2>3. server' = "down" => server = "down"
    BY <1>6 DEF RenameTemp, PersistFails
  <2>4. \A k \in rotating' :
          k \in rotating \/ (call[c].kind = "rotate" /\ k \in call[c].revoking)
    <3>1. CASE RenameTemp(c)
      BY <3>1 DEF RenameTemp
    <3>2. CASE PersistFails(c)
      BY <3>2 DEF PersistFails
    <3>3. QED  BY <1>6, <3>1, <3>2
  <2>5. QED  BY <1>0, <2>1, <2>2, <2>3, <2>4, RotationGoesOn
<1>7. ASSUME NEW c \in Calls, LoadKeys(c)
      PROVE  RotationInv'
  <2>1. rotating' = {} /\ \A d \in Calls : call[d] = Idle
    BY <1>7 DEF LoadKeys, RotationInv, KeyInv
  <2>2. \A d \in Calls : call'[d] = Idle \/ call'[d].kind = "load"
    <3>1. UNCHANGED call \/ call' = [call EXCEPT ![c] = Persisting(Started("load", {}, {}), NoKeys)]
      BY <1>7 DEF LoadKeys
    <3>2. \E next : next.kind = "load" /\ (UNCHANGED call \/ call' = [call EXCEPT ![c] = next])
      <4>1. Persisting(Started("load", {}, {}), NoKeys).kind = "load"
        BY DEF Persisting, Started
      <4>2. QED  BY <3>1, <4>1
    <3>3. QED  BY <1>0, <2>1, <3>2 DEF TypeOK
  <2>3. QED  BY <1>0, <2>1, <2>2 DEF RotationInv
<1>8. CASE Crash
  <2>1. rotating' = {} /\ \A d \in Calls : call'[d] = Idle
    BY <1>8 DEF Crash
  <2>2. QED  BY <1>0, <2>1 DEF RotationInv
<1>9. ASSUME NEW c \in Calls, Persist(c)
      PROVE  RotationInv'
  BY <1>5, <1>6, <1>9 DEF Persist
<1>10. ASSUME NEW c \in Calls,
              \/ LoadKeys(c) \/ PushKey(c) \/ Persist(c) \/ RevokeAll(c)
              \/ \E k \in Keys : \/ IssueKey(c, k) \/ RevokeKey(c, k)
                                 \/ RotationDue(c, k) \/ RecordKeyUse(c, k)
                                 \/ \E old \in Keys : RotateKey(c, old, k)
       PROVE  RotationInv'
  BY <1>2, <1>3, <1>4, <1>5, <1>7, <1>9, <1>10
<1>11. QED  BY <1>1, <1>8, <1>10 DEF Next

LEMMA RotationStart == Init => RotationInv
  BY KeyStart DEF Init, RotationInv

\* auth.mjs, rotateKey: however calls overlap and fail, a timer that was armed goes
\* only when the old key is revoked or the process stops.
THEOREM RotationsAreKept == Spec => RotationKept
<1>1. ASSUME RotationInv, Next, NEW k \in rotating
      PROVE  k \in rotating' \/ keys'[k] = "revoked" \/ server' = "down"
  <2>0. TypeOK /\ k \in Keys /\ keys[k] \in {"active", "revoked"}
    BY <1>1 DEF RotationInv, KeyInv, TypeOK, States
  <2>1. ASSUME NEW c \in Calls, RotationDue(c, k) PROVE keys'[k] = "revoked"
    <3>1. CASE Revoke(c, {k})
      BY <2>0, <3>1 DEF Revoke
    <3>2. CASE keys[k] # "active" /\ UNCHANGED keys
      BY <2>0, <3>2
    <3>3. QED  BY <2>1, <3>1, <3>2 DEF RotationDue
  <2>2. ASSUME NEW c \in Calls, NEW l \in Keys, l # k, RotationDue(c, l) PROVE k \in rotating'
    BY <1>1, <2>2 DEF RotationDue
  <2>3. ASSUME NEW c \in Calls, Persist(c) PROVE k \in rotating'
    BY <1>1, <2>3 DEF Persist, OpenTemp, WriteTemp, RenameTemp, PersistFails, memory
  <2>4. ASSUME NEW c \in Calls, NEW l \in Keys, NEW old \in Keys,
               \/ IssueKey(c, l) \/ RotateKey(c, old, l) \/ RecordKeyUse(c, l)
               \/ RevokeKey(c, l) \/ RevokeAll(c) \/ PushKey(c) \/ LoadKeys(c)
        PROVE  k \in rotating'
    BY <1>1, <2>4 DEF IssueKey, RotateKey, RecordKeyUse, RevokeKey, RevokeAll, PushKey, LoadKeys, memory
  <2>5. Crash => server' = "down"
    BY DEF Crash
  <2>6. QED  BY <1>1, <2>0, <2>1, <2>2, <2>3, <2>4, <2>5 DEF Next
<1>2. RotationInv /\ [Next]_vars =>
        [\A k \in rotating : k \in rotating' \/ keys'[k] = "revoked" \/ server' = "down"]_vars
  BY <1>1
<1>3. QED  BY <1>2, RotationStart, RotationStep, PTL DEF Spec, RotationKept

-----------------------------------------------------------------------------
(* What writes that overlap can do, and nothing else can *)

LEMMA TextParses ==
  ASSUME NEW s \in States
  PROVE  Text(s) \in Texts /\ Parses(Text(s)) /\ Text(s).last = s /\ Overwrite(Empty, s) = Text(s)
BY DEF Text, Texts, Parses, Overwrite, Empty

\* A call that is not among those that overlapped is the only one that writes.
LEMMA IsAlone == ASSUME HistoryInv, NEW c \in Writing \ overlapped PROVE Writing = {c}
BY DEF HistoryInv, Overlap, Writing

LEMMA StaysAlone ==
  ASSUME HistoryInv, Tracked, NEW c \in Writing' \ overlapped'
  PROVE  Writing' = {c} /\ c \notin overlapped
BY DEF HistoryInv, Tracked, Overlap, Writing

LEMMA HistoryKeeps == ASSUME KeyInv', HistoryInv, Tracked PROVE HistoryInv'
<1>1. overlapped' \subseteq Writing' /\ (Overlap' => overlapped' = Writing')
  BY DEF Tracked
<1>2. overlapped' # {} => suspect'
  <2>1. ASSUME ~Overlap', NEW d \in overlapped' PROVE suspect'
    <3>1. d \in overlapped /\ suspect /\ d \in Writing /\ d \in Writing'
      BY <2>1 DEF Tracked, HistoryInv
    <3>2. ASSUME NEW c \in Writing \ overlapped PROVE FALSE
      BY <3>1, <3>2, IsAlone
    <3>3. QED  BY <2>1, <3>1, <3>2 DEF Tracked
  <2>2. QED  BY <2>1 DEF Tracked
<1>3. server' = "down" /\ suspect' => forgotten'
  <2>1. server' = "down" => ~Overlap'
    BY DEF KeyInv, Overlap, Writing
  <2>2. QED  BY <2>1 DEF Tracked
<1>4. QED  BY <1>1, <1>2, <1>3 DEF HistoryInv

\* One call goes on.
LEMMA WritersGoOn ==
  ASSUME TypeOK, HistoryInv, WritersInv, Tracked, NEW c \in Calls, NEW new,
         call' = [call EXCEPT ![c] = new],
         tmp' # None => tmp' # file',
         c \in Writing' \ overlapped' => TempIsOwn(c)' /\ new.data = keys',
         c \in Writing \/ c \in Writing' \/ UNCHANGED <<keys, tmp, content>>,
         \A k \in Keys : keys[k] = "revoked" => keys'[k] = "revoked",
         \A k \in Keys : keys[k] # "absent" => keys'[k] # "absent",
         HasDone(c)',
         Writing' # {} => server' \in {"up", "loading"}
  PROVE  WritersInv'
<1>1. call'[c] = new /\ \A d \in Calls : d # c => call'[d] = call[d]
  BY DEF TypeOK
<1>2. ASSUME NEW d \in Writing' \ overlapped' PROVE TempIsOwn(d)' /\ call'[d].data = keys'
  <2>1. CASE d = c
    BY <1>1, <1>2, <2>1
  <2>2. CASE d # c
    <3>1. d \in Calls /\ call'[d] = call[d] /\ d \in Writing
      BY <1>1, <1>2, <2>2 DEF Writing
    <3>2. Writing' = {d} /\ d \notin overlapped
      BY <1>2, StaysAlone
    <3>3. Writing = {d}
      BY <3>1, <3>2, IsAlone
    <3>4. UNCHANGED <<keys, tmp, content>>
      BY <2>2, <3>2, <3>3
    <3>5. TempIsOwn(d) /\ call[d].data = keys
      BY <3>1, <3>2 DEF WritersInv
    <3>6. QED  BY <3>1, <3>4, <3>5 DEF TempIsOwn
  <2>3. QED  BY <2>1, <2>2
<1>3. ASSUME NEW d \in Calls PROVE HasDone(d)'
  <2>1. CASE d = c
    BY <2>1
  <2>2. CASE d # c
    <3>1. call'[d] = call[d] /\ HasDone(d)
      BY <1>1, <2>2 DEF WritersInv
    <3>2. call[d] # Idle => call[d].revoking \subseteq Keys /\ call[d].issuing \subseteq Keys
      BY RunningIsRecord DEF CallRecords
    <3>3. QED  BY <3>1, <3>2 DEF HasDone
  <2>3. QED  BY <2>1, <2>2
<1>4. QED  BY <1>2, <1>3 DEF WritersInv

\* The file keeps its inode, and its text if no writes have overlapped.
LEMMA TellsStay ==
  ASSUME WritersInv, TellsInv, Tracked, UNCHANGED file,
         \A k \in Keys : told'[k] = told[k] \/ told'[k] = "requested",
         file # None /\ ~suspect => content'[file] = content[file],
         ~forgotten' /\ server' \in {"up", "loading"} => Tells(keys)'
  PROVE  TellsInv'
<1>1. ~\E c \in Writing : RenameTemp(c)
  BY DEF RenameTemp, WritersInv
<1>2. (suspect => suspect') /\ (forgotten => forgotten')
  BY <1>1 DEF Tracked
<1>3. file' # None /\ ~suspect' /\ ~forgotten' => Tells(content[file].last)'
  BY <1>2 DEF TellsInv, Tells
<1>4. QED  BY <1>2, <1>3 DEF TellsInv

\* Nothing moves on but the names and texts of files.
LEMMA TellsKept ==
  ASSUME TellsInv, Tracked, UNCHANGED keys,
         \A k \in Keys : told'[k] = told[k] \/ told'[k] = "requested",
         server' \in {"up", "loading"} => server \in {"up", "loading"}
  PROVE  ~forgotten' /\ server' \in {"up", "loading"} => Tells(keys)'
BY DEF TellsInv, Tells, Tracked

\* A call begins, or gets its hash; the disk is as it was.
LEMMA LossBegins ==
  ASSUME KeyInv, LossInv, Tracked, NEW c \in Calls, NEW new \in CallRecords,
         call' = [call EXCEPT ![c] = new], UNCHANGED <<tmp, file, content>>,
         server' \in {"up", "loading"}, new.at \in {"hash", "open"},
         new.at = "hash" => UNCHANGED keys,
         new.at = "open" => new.data = keys',
         \A k \in Keys : keys[k] = "revoked" => keys'[k] = "revoked",
         \A k \in Keys : keys[k] # "absent" => keys'[k] # "absent",
         \A k \in Keys : told'[k] = told[k] \/ told'[k] = "requested",
         new.kind = "revoke" => /\ new.at # "hash" /\ new.issuing = {}
                                /\ \A k \in new.revoking : keys'[k] = "revoked",
         new.at # "hash" => \A k \in new.issuing : keys'[k] # "absent",
         ~forgotten' => Tells(keys)'
  PROVE  WritersInv' /\ TellsInv'
<1>0. TypeOK /\ HistoryInv /\ WritersInv /\ TellsInv
  BY DEF KeyInv, LossInv
<1>1. call'[c] = new
  BY <1>0 DEF TypeOK
<1>2. HasDone(c)'
  BY <1>1 DEF HasDone
<1>3. c \in Writing' => new.at = "open"
  BY <1>1 DEF Writing
<1>4. c \in Writing' \ overlapped' => TempIsOwn(c)' /\ new.data = keys'
  BY <1>1, <1>3 DEF TempIsOwn
<1>5. new # Idle
  BY RecordIsNotIdle
<1>6. c \in Writing' \/ UNCHANGED <<keys, tmp, content>>
  BY <1>1, <1>5 DEF Writing
<1>7. tmp' # None => tmp' # file'
  BY <1>0 DEF WritersInv
<1>8. WritersInv'
  BY <1>0, <1>2, <1>4, <1>6, <1>7, WritersGoOn
<1>9. TellsInv'
  BY <1>0, TellsStay
<1>10. QED  BY <1>8, <1>9

LEMMA IssueKeyLoss ==
  ASSUME KeyInv, LossInv, Tracked, NEW c \in Calls, NEW k \in Keys,
         IssueKey(c, k) \/ \E old \in Keys : RotateKey(c, old, k)
  PROVE  WritersInv' /\ TellsInv'
<1>1. PICK kind \in {"issue", "rotate"}, S \in SUBSET Keys :
        /\ Ready(c) /\ told[k] = "unused" /\ told' = [told EXCEPT ![k] = "requested"]
        /\ call' = [call EXCEPT ![c] = Started(kind, S, {k})]
        /\ UNCHANGED <<server, keys, rotating, tmp, file, content>>
  <2>1. CASE IssueKey(c, k)
    <3>1. "issue" \in {"issue", "rotate"} /\ {} \in SUBSET Keys
      OBVIOUS
    <3>2. QED  BY <2>1, <3>1 DEF IssueKey, memory, disk
  <2>2. CASE \E old \in Keys : RotateKey(c, old, k)
    <3>1. PICK old \in Keys : RotateKey(c, old, k)
      BY <2>2
    <3>2. "rotate" \in {"issue", "rotate"} /\ {old} \in SUBSET Keys
      OBVIOUS
    <3>3. QED  BY <3>1, <3>2 DEF RotateKey, memory, disk
  <2>3. QED  BY <2>1, <2>2
<1>2. kind \in Kinds /\ {k} \in SUBSET Keys
  BY DEF Kinds
<1> DEFINE new == Started(kind, S, {k})
<1>3. new \in CallRecords /\ new.kind = kind /\ new.at = "hash" /\ kind # "revoke"
  BY <1>2, StartedRecord
<1>4. call' = [call EXCEPT ![c] = new]
  BY <1>1
<1> HIDE DEF new
<1>5. \A l \in Keys : told'[l] = told[l] \/ told'[l] = "requested"
  BY <1>1 DEF KeyInv, TypeOK
<1>6. server' = "up" /\ UNCHANGED <<keys, tmp, file, content>>
  BY <1>1 DEF Ready
<1>7. ~forgotten' => Tells(keys)'
  BY <1>1, <1>5, <1>6, TellsKept DEF LossInv
<1>8. QED  BY <1>3, <1>4, <1>5, <1>6, <1>7, LossBegins

\* The keys in memory are marked before the text is taken.
LEMMA RevokeLoss ==
  ASSUME KeyInv, LossInv, Tracked, NEW c \in Calls, Ready(c), NEW S \in SUBSET Keys, Revoke(c, S),
         UNCHANGED <<server, tmp, file, content, told>>
  PROVE  WritersInv' /\ TellsInv'
<1>1. TypeOK /\ TellsInv /\ server = "up"
  BY DEF KeyInv, LossInv, Ready
<1>2. PICK new \in CallRecords :
              /\ call' = [call EXCEPT ![c] = new] /\ new.kind = "revoke" /\ new.at = "open"
              /\ new.issuing = {} /\ new.revoking = S /\ new.data = keys'
  BY <1>1, RevokeMarks
<1>3. \A k \in Keys : keys'[k] = IF k \in S THEN "revoked" ELSE keys[k]
  BY <1>1, RevokeMarks
<1>4. /\ \A k \in Keys : keys'[k] \in {keys[k], "revoked"}
      /\ \A k \in new.revoking : keys'[k] = "revoked"
  BY <1>2, <1>3
<1>5. ~forgotten' => Tells(keys)'
  BY <1>1, <1>4 DEF TellsInv, Tells, Tracked
<1>6. QED  BY <1>1, <1>2, <1>4, <1>5, LossBegins

LEMMA RecordKeyUseLoss ==
  ASSUME KeyInv, LossInv, Tracked, NEW c \in Calls, NEW k \in Keys, RecordKeyUse(c, k)
  PROVE  WritersInv' /\ TellsInv'
<1>0. keys \in States
  BY DEF KeyInv, TypeOK
<1>1. "use" \in Kinds /\ {} \in SUBSET Keys
  BY DEF Kinds
<1>2. Started("use", {}, {}) \in CallRecords /\ Started("use", {}, {}).kind = "use"
      /\ Started("use", {}, {}).issuing = {}
  BY <1>1, StartedRecord
<1> DEFINE new == Persisting(Started("use", {}, {}), keys)
<1>3. new \in CallRecords /\ new.kind = "use" /\ new.at = "open" /\ new.issuing = {} /\ new.data = keys
  BY <1>0, <1>2, PersistingRecord
<1>4. call' = [call EXCEPT ![c] = new]
  BY DEF RecordKeyUse
<1> HIDE DEF new
<1>5. server' = "up" /\ UNCHANGED <<server, keys, rotating, tmp, file, content, told>>
  BY DEF RecordKeyUse, Ready, memory, disk
<1>6. ~forgotten' => Tells(keys)'
  BY <1>5, TellsKept DEF LossInv
<1>7. QED  BY <1>3, <1>4, <1>5, <1>6, LossBegins

\* The hash has come: the key is new, so nothing that was revoked comes back.
LEMMA PushKeyLoss ==
  ASSUME KeyInv, LossInv, Tracked, NEW c \in Calls, PushKey(c) PROVE WritersInv' /\ TellsInv'
<1>0. /\ TypeOK /\ HashedIsNew /\ call[c] # Idle /\ call[c] \in CallRecords /\ call[c].at = "hash"
      /\ HasDone(c) /\ TellsInv
  BY RunningIsRecord DEF KeyInv, LossInv, WritersInv, PushKey
<1>1. server = "up" /\ call[c].issuing \subseteq Keys /\ call[c].kind # "revoke"
      /\ \A k \in call[c].issuing : keys[k] = "absent"
  BY <1>0 DEF HashedIsNew, CallRecords, HasDone
<1>2. /\ keys' = [k \in Keys |-> IF k \in call[c].issuing THEN "active" ELSE keys[k]]
      /\ call' = [call EXCEPT ![c] = Persisting(call[c], keys')]
      /\ UNCHANGED <<server, rotating, tmp, file, content, told>>
  BY <1>0 DEF PushKey, TypeOK, disk
<1>3. keys' \in States
  BY <1>0, <1>2 DEF TypeOK, States
<1> DEFINE new == Persisting(call[c], keys')
<1>4. new \in CallRecords /\ new.kind = call[c].kind /\ new.at = "open"
      /\ new.issuing = call[c].issuing /\ new.data = keys'
  BY <1>0, <1>3, PersistingRecord
<1>5. call' = [call EXCEPT ![c] = new]
  BY <1>2
<1> HIDE DEF new
<1>6. /\ \A k \in Keys : keys[k] = "revoked" => keys'[k] = "revoked"
      /\ \A k \in Keys : keys[k] # "absent" => keys'[k] # "absent"
      /\ \A k \in new.issuing : keys'[k] # "absent"
  BY <1>1, <1>2, <1>4
<1>7. ~forgotten' => Tells(keys)'
  BY <1>0, <1>1, <1>2, <1>6 DEF TellsInv, Tells, Tracked
<1>8. new.kind # "revoke" /\ server' = "up"
  BY <1>1, <1>2, <1>4
<1>9. QED  BY <1>2, <1>4, <1>5, <1>6, <1>7, <1>8, LossBegins

\* A start finds in the file what the GM was told, or finds no file and nobody
\* has been told anything.
LEMMA LoadKeysLoss ==
  ASSUME KeyInv, KeyInv', LossInv, Tracked, NEW c \in Calls, LoadKeys(c)
  PROVE  WritersInv' /\ TellsInv'
<1>0. /\ TypeOK /\ server = "down" /\ keys = NoKeys /\ (\A d \in Calls : call[d] = Idle)
      /\ HistoryInv /\ WritersInv /\ TellsInv
  BY DEF KeyInv, LossInv, LoadKeys
<1>1. UNCHANGED <<tmp, file, content, told>>
  BY DEF LoadKeys, disk
<1>2. ASSUME file = None, server' = "loading", UNCHANGED keys,
             call' = [call EXCEPT ![c] = Persisting(Started("load", {}, {}), NoKeys)]
      PROVE  WritersInv' /\ TellsInv'
  <2>1. "load" \in Kinds /\ {} \in SUBSET Keys
    BY DEF Kinds
  <2>2. Started("load", {}, {}) \in CallRecords /\ Started("load", {}, {}).kind = "load"
        /\ Started("load", {}, {}).issuing = {}
    BY <2>1, StartedRecord
  <2> DEFINE new == Persisting(Started("load", {}, {}), NoKeys)
  <2>3. new \in CallRecords /\ new.kind = "load" /\ new.at = "open" /\ new.issuing = {} /\ new.data = NoKeys
    BY <2>2, NoKeysIsState, PersistingRecord
  <2>4. call' = [call EXCEPT ![c] = new]
    BY <1>2
  <2> HIDE DEF new
  <2>5. Tells(keys)'
    BY <1>0, <1>1, <1>2 DEF TellsInv, Tells
  <2>6. QED  BY <1>0, <1>1, <1>2, <2>3, <2>4, <2>5, LossBegins
<1>3. ASSUME UNCHANGED call, server' \in {"up", "failed"},
             server' = "up" => file # None /\ keys' = content[file].last
      PROVE  WritersInv' /\ TellsInv'
  <2>1. \A d \in Calls : call'[d] = Idle
    BY <1>0, <1>3
  <2>2. WritersInv'
    BY <1>0, <1>1, <2>1 DEF WritersInv, Writing, HasDone
  <2>3. ~forgotten' /\ server' \in {"up", "loading"} => Tells(keys)'
    BY <1>0, <1>1, <1>3 DEF HistoryInv, TellsInv, Tells, Tracked
  <2>4. QED  BY <1>0, <1>1, <2>2, <2>3, TellsStay
<1>4. QED  BY <1>2, <1>3 DEF LoadKeys

\* The temporary file is truncated: keys.json is another file.
LEMMA OpenTempLoss ==
  ASSUME KeyInv, LossInv, Tracked, NEW c \in Calls, OpenTemp(c) PROVE WritersInv' /\ TellsInv'
<1>0. /\ TypeOK /\ call[c] # Idle /\ call[c] \in CallRecords /\ call[c].at = "open"
      /\ HistoryInv /\ WritersInv /\ TellsInv /\ HasDone(c)
  BY RunningIsRecord DEF KeyInv, LossInv, WritersInv, OpenTemp
<1>1. PICK i \in Inodes : /\ IF tmp = None THEN IsFree(i) ELSE i = tmp
                         /\ tmp' = i /\ content' = [content EXCEPT ![i] = Empty]
                         /\ call' = [call EXCEPT ![c].at = "write", ![c].fd = i]
  BY DEF OpenTemp
<1>2. UNCHANGED <<server, keys, rotating, file, told>>
  BY DEF OpenTemp, memory
<1>3. i # file /\ i # None
  BY <1>0, <1>1, InodesAssumption DEF IsFree, Referenced, WritersInv
<1> DEFINE new == [call[c] EXCEPT !.at = "write", !.fd = i]
<1>4. call' = [call EXCEPT ![c] = new]
  BY <1>0, <1>1 DEF TypeOK, CallRecords
<1>5. /\ new.at = "write" /\ new.fd = i /\ new.kind = call[c].kind /\ new.issuing = call[c].issuing
      /\ new.revoking = call[c].revoking /\ new.data = call[c].data
  BY <1>0 DEF CallRecords
<1> HIDE DEF new
<1>6. call'[c] = new
  BY <1>0, <1>4 DEF TypeOK
<1>7. content'[i] = Empty /\ (file # None => content'[file] = content[file])
  BY <1>0, <1>1, <1>3 DEF TypeOK
<1>8. c \in Writing /\ HasDone(c)'
  BY <1>0, <1>2, <1>5, <1>6 DEF Writing, HasDone
<1>9. ASSUME c \in Writing' \ overlapped' PROVE TempIsOwn(c)' /\ new.data = keys'
  <2>1. call[c].data = keys
    BY <1>0, <1>8, <1>9, StaysAlone DEF WritersInv
  <2>2. QED  BY <1>1, <1>2, <1>3, <1>5, <1>6, <1>7, <2>1 DEF TempIsOwn
<1>10. server' \in {"up", "loading"}
  BY <1>0, <1>2, <1>8 DEF WritersInv
<1>11. WritersInv'
  BY <1>0, <1>1, <1>2, <1>3, <1>4, <1>8, <1>9, <1>10, WritersGoOn
<1>12. TellsInv'
  BY <1>0, <1>2, <1>7, TellsKept, TellsStay
<1>13. QED  BY <1>11, <1>12

\* What is written goes to the temporary file, or to a file whose writers have
\* overlapped.
LEMMA WriteTempLoss ==
  ASSUME KeyInv, LossInv, Tracked, NEW c \in Calls, WriteTemp(c) PROVE WritersInv' /\ TellsInv'
<1>0. /\ TypeOK /\ call[c] # Idle /\ call[c] \in CallRecords /\ call[c].at = "write"
      /\ HistoryInv /\ WritersInv /\ TellsInv /\ HasDone(c) /\ call[c].data \in States
  BY RunningIsRecord DEF KeyInv, LossInv, WritersInv, WriteTemp, CallRecords
<1> DEFINE new == [call[c] EXCEPT !.at = "rename", !.fd = None]
           text == [content EXCEPT ![call[c].fd] = Overwrite(@, call[c].data)]
<1>1. /\ call' = [call EXCEPT ![c] = new] /\ content' = Freed(text)
      /\ UNCHANGED <<server, keys, rotating, tmp, file, told>>
  BY <1>0 DEF WriteTemp, memory, TypeOK, CallRecords
<1>2. /\ new.at = "rename" /\ new.kind = call[c].kind /\ new.issuing = call[c].issuing
      /\ new.revoking = call[c].revoking /\ new.data = call[c].data
  BY <1>0 DEF CallRecords
<1>3. text \in [Inodes -> Texts]
  BY <1>0, OverwriteIsText DEF TypeOK
<1>4. c \in Writing \ overlapped =>
        /\ tmp # None /\ tmp # file /\ tmp \in Inodes /\ call[c].data = keys
        /\ text[tmp] = Text(keys) /\ (file # None => text[file] = content[file])
  BY <1>0, TextParses DEF WritersInv, TempIsOwn, TypeOK
<1> HIDE DEF new, text
<1>5. \A i \in Inodes : i \in {tmp, file} => content'[i] = text[i]
  BY <1>1, <1>3, FreedIsContent
<1>6. call'[c] = new /\ c \in Writing
  BY <1>0, <1>1 DEF TypeOK, Writing
<1>7. HasDone(c)'
  BY <1>0, <1>1, <1>2, <1>6 DEF HasDone
<1>8. ASSUME c \in Writing' \ overlapped' PROVE TempIsOwn(c)' /\ new.data = keys'
  <2>1. c \in Writing \ overlapped
    BY <1>0, <1>6, <1>8, StaysAlone
  <2>2. QED  BY <1>1, <1>2, <1>4, <1>5, <1>6, <2>1 DEF TempIsOwn
<1>9. server' \in {"up", "loading"}
  BY <1>0, <1>1, <1>6 DEF WritersInv
<1>10. tmp' # None => tmp' # file'
  BY <1>0, <1>1 DEF WritersInv
<1>11. WritersInv'
  BY <1>0, <1>1, <1>6, <1>7, <1>8, <1>9, <1>10, WritersGoOn
<1>12. file # None /\ ~suspect => content'[file] = content[file]
  <2>1. ~suspect => c \in Writing \ overlapped
    BY <1>0, <1>6 DEF HistoryInv
  <2>2. file # None => file \in Inodes
    BY <1>0 DEF TypeOK
  <2>3. QED  BY <1>4, <1>5, <2>1, <2>2
<1>13. TellsInv'
  BY <1>0, <1>1, <1>12, TellsKept, TellsStay
<1>14. QED  BY <1>11, <1>13

\* The file is in place and the GM is told.  A call that was alone has put there
\* all it tells and all that was told before; after another the file is suspect.
LEMMA RenameTempLoss ==
  ASSUME KeyInv, KeyInv', LossInv, Tracked, NEW c \in Calls, RenameTemp(c)
  PROVE  WritersInv' /\ TellsInv'
<1>0. /\ TypeOK /\ call[c] # Idle /\ call[c] \in CallRecords /\ call[c].at = "rename"
      /\ HistoryInv /\ WritersInv /\ TellsInv /\ HasDone(c) /\ c \in Writing
      /\ tmp # None /\ tmp \in Inodes /\ keys \in States
  BY RunningIsRecord DEF KeyInv, LossInv, WritersInv, RenameTemp, Writing, TypeOK
<1>1. /\ file' = tmp /\ tmp' = None /\ call' = [call EXCEPT ![c] = Idle] /\ UNCHANGED keys
      /\ content' = Freed(content) /\ server' \in {"up", server}
  BY DEF RenameTemp
<1>2. \A k \in Keys : told'[k] = IF k \in call[c].issuing THEN "issued"
                                 ELSE IF k \in call[c].revoking /\ call[c].kind = "revoke" THEN "revoked"
                                 ELSE told[k]
  BY DEF RenameTemp
<1>3. content'[file'] = content[tmp]
  BY <1>0, <1>1, FreedIsContent DEF TypeOK
<1>4. server \in {"up", "loading"} /\ server' \in {"up", "loading"}
  BY <1>0, <1>1 DEF WritersInv
<1>5. call'[c] = Idle
  BY <1>0, <1>1 DEF TypeOK
<1>6. HasDone(c)' /\ c \notin Writing'
  BY <1>5 DEF HasDone, Writing
<1>7. WritersInv'
  BY <1>0, <1>1, <1>4, <1>6, WritersGoOn
<1>8. ~forgotten' => Tells(keys)'
  <2>1. /\ \A k \in call[c].issuing : keys[k] # "absent"
        /\ call[c].kind = "revoke" => call[c].issuing = {} /\ \A k \in call[c].revoking : keys[k] = "revoked"
    BY <1>0 DEF HasDone
  <2>2. ~forgotten' => Tells(keys)
    BY <1>0, <1>4 DEF TellsInv, Tracked
  <2>3. QED  BY <1>1, <1>2, <2>1, <2>2 DEF Tells
<1>9. CASE c \in overlapped
  <2>1. suspect /\ \A d \in Writing : d \in overlapped
    BY <1>0, <1>9, IsAlone DEF HistoryInv
  <2>2. suspect'
    BY <2>1 DEF Tracked
  <2>3. QED  BY <1>0, <1>1, <1>7, <1>8, <2>2 DEF TellsInv
<1>10. CASE c \notin overlapped
  <2>1. content[tmp] = Text(keys)
    BY <1>0, <1>10 DEF WritersInv, TempIsOwn
  <2>2. Parses(content'[file']) /\ content'[file'].last = keys'
    BY <1>0, <1>1, <1>3, <2>1, TextParses
  <2>3. ~forgotten' => Tells(content[file].last)'
    BY <1>8, <2>2 DEF Tells
  <2>4. QED  BY <1>0, <1>1, <1>7, <1>8, <2>2, <2>3 DEF TellsInv
<1>11. QED  BY <1>9, <1>10

\* A file operation fails, or the process stops: the names are as they were.
LEMMA StopsLoss ==
  ASSUME KeyInv, KeyInv', LossInv, Tracked, Crash \/ \E c \in Calls : PersistFails(c)
  PROVE  WritersInv' /\ TellsInv'
<1>0. TypeOK /\ HistoryInv /\ WritersInv /\ TellsInv /\ LoadIsAlone
  BY DEF KeyInv, LossInv
<1>1. UNCHANGED <<tmp, file, told>> /\ content' = Freed(content)
  BY DEF Crash, PersistFails
<1>2. file # None => content'[file] = content[file]
  BY <1>0, <1>1, FreedIsContent DEF TypeOK
<1>3. CASE Crash
  <2>1. server' = "down" /\ \A d \in Calls : call'[d] = Idle
    BY <1>3 DEF Crash
  <2>2. WritersInv'
    BY <1>0, <1>1, <2>1 DEF WritersInv, Writing, HasDone
  <2>3. QED  BY <1>0, <1>1, <1>2, <2>1, <2>2, TellsStay
<1>4. ASSUME NEW c \in Calls, PersistFails(c) PROVE WritersInv' /\ TellsInv'
  <2>1. /\ call[c] # Idle /\ call' = [call EXCEPT ![c] = Idle] /\ UNCHANGED keys
        /\ server' = IF call[c].kind = "load" THEN "failed" ELSE server
    BY <1>4 DEF PersistFails
  <2>2. c \in Writing /\ call'[c] = Idle /\ \A d \in Calls : d # c => call'[d] = call[d]
    BY <1>0, <1>4, <2>1 DEF PersistFails, Writing, TypeOK
  <2>3. c \notin Writing' /\ HasDone(c)'
    BY <2>2 DEF Writing, HasDone
  <2>4. Writing' # {} => server' \in {"up", "loading"}
    BY <1>0, <2>1, <2>2 DEF LoadIsAlone, Writing, WritersInv
  <2>5. tmp' # None => tmp' # file'
    BY <1>0, <1>1 DEF WritersInv
  <2>6. WritersInv'
    BY <1>0, <2>1, <2>2, <2>3, <2>4, <2>5, WritersGoOn
  <2>7. ~forgotten' /\ server' \in {"up", "loading"} => Tells(keys)'
    BY <1>0, <1>1, <2>1, TellsKept
  <2>8. QED  BY <1>0, <1>1, <1>2, <2>6, <2>7, TellsStay
<1>5. QED  BY <1>3, <1>4

LEMMA LossStart == LossInit => LossInv
BY DEF LossInit, Init, LossInv, HistoryInv, WritersInv, TellsInv, Writing, Overlap, TempIsOwn, HasDone, Tells

LEMMA LossStep == KeyInv /\ LossInv /\ [LossNext]_<<vars, history>> => LossInv'
<1> SUFFICES ASSUME KeyInv, LossInv, [LossNext]_<<vars, history>> PROVE LossInv'
  OBVIOUS
<1>1. CASE UNCHANGED <<vars, history>>
  <2>1. UNCHANGED <<server, keys, call, rotating, tmp, file, content, told, overlapped, suspect, forgotten>>
    BY <1>1 DEF vars, memory, disk, history
  <2>2. HistoryInv'
    BY <2>1 DEF LossInv, HistoryInv, Overlap, Writing
  <2>3. WritersInv'
    BY <2>1 DEF LossInv, WritersInv, Writing, TempIsOwn, HasDone
  <2>4. TellsInv'
    BY <2>1 DEF LossInv, TellsInv, Tells
  <2>5. QED  BY <2>2, <2>3, <2>4 DEF LossInv
<1>2. CASE LossNext
  <2>1. Next /\ Tracked /\ KeyInv'
    BY <1>2, KeyStep DEF LossNext
  <2>2. ASSUME NEW c \in Calls, NEW k \in Keys, RevokeKey(c, k) PROVE WritersInv' /\ TellsInv'
    BY <2>1, <2>2, RevokeLoss DEF RevokeKey, disk
  <2>3. ASSUME NEW c \in Calls, RevokeAll(c) PROVE WritersInv' /\ TellsInv'
    BY <2>1, <2>3, RevokeLoss DEF RevokeAll, disk
  <2>4. ASSUME NEW c \in Calls, NEW k \in Keys, RotationDue(c, k) PROVE WritersInv' /\ TellsInv'
    <3>1. UNCHANGED <<server, tmp, file, content, told>> /\ Ready(c)
      BY <2>4 DEF RotationDue, disk
    <3>2. CASE Revoke(c, {k})
      BY <2>1, <3>1, <3>2, RevokeLoss
    <3>3. CASE UNCHANGED <<keys, call>>
      <4>1. HistoryInv /\ WritersInv /\ TellsInv /\ TypeOK
        BY DEF LossInv, KeyInv
      <4>2. call' = [call EXCEPT ![c] = Idle] /\ HasDone(c)' /\ c \notin Writing'
        BY <3>1, <3>3, <4>1 DEF Ready, TypeOK, HasDone, Writing
      <4>3. Writing' # {} => server' \in {"up", "loading"}
        BY <3>1 DEF Ready
      <4>4. tmp' # None => tmp' # file'
        BY <3>1, <4>1 DEF WritersInv
      <4>5. WritersInv'
        BY <2>1, <3>1, <3>3, <4>1, <4>2, <4>3, <4>4, WritersGoOn
      <4>6. ~forgotten' /\ server' \in {"up", "loading"} => Tells(keys)'
        BY <2>1, <3>1, <3>3, <4>1, TellsKept
      <4>7. QED  BY <2>1, <3>1, <4>1, <4>5, <4>6, TellsStay
    <3>4. QED  BY <2>4, <3>2, <3>3 DEF RotationDue
  <2>5. WritersInv' /\ TellsInv'
    BY <2>1, <2>2, <2>3, <2>4, IssueKeyLoss, PushKeyLoss, RecordKeyUseLoss, LoadKeysLoss,
       OpenTempLoss, WriteTempLoss, RenameTempLoss, StopsLoss DEF Next, Persist
  <2>6. QED  BY <2>1, <2>5, HistoryKeeps DEF LossInv
<1>3. QED  BY <1>1, <1>2

LEMMA LossAlways == LossSpec => [](KeyInv /\ LossInv)
<1>1. LossInit => KeyInv /\ LossInv
  BY KeyStart, LossStart DEF LossInit
<1>2. KeyInv /\ LossInv /\ [LossNext]_<<vars, history>> => KeyInv' /\ LossInv'
  <2>1. [LossNext]_<<vars, history>> => [Next]_vars
    BY DEF LossNext
  <2>2. QED  BY <2>1, KeyStep, LossStep
<1>3. QED  BY <1>1, <1>2, PTL DEF LossSpec

\* auth.mjs, persistKeys(): whatever calls there are and wherever they fail or are
\* cut short, keys.json holds a complete text, except after writes that overlapped
\* and before the next that was alone.
THEOREM FileIsWhole == LossSpec => []WholeUnlessOverlapped
<1>1. LossInv => WholeUnlessOverlapped
  BY DEF LossInv, TellsInv, WholeUnlessOverlapped, WriteIsAtomic
<1>2. QED  BY <1>1, LossAlways, PTL

\* docs/safety-and-permissions.md: what the GM has been told of a key outlives every
\* crash and every failing file operation, except a crash between writes that
\* overlapped and the next that was alone.
THEOREM ToldSurvives == LossSpec => []KeptUnlessOverlapped
<1>1. LossInv => KeptUnlessOverlapped
  BY DEF LossInv, TellsInv, KeptUnlessOverlapped, ConfirmedSurvives, Tells
<1>2. QED  BY <1>1, LossAlways, PTL
=============================================================================
