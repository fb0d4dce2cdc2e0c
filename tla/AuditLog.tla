------------------------------ MODULE AuditLog ------------------------------
(***************************************************************************)
(* The audit log (module/scripts/server/audit-log.mjs): one line per API   *)
(* request, appended when the request ends, and a prune at boot and every  *)
(* hour that rewrites the file without the lines that are too old.         *)
(*                                                                         *)
(* appendFile() is an open and a write, the prune a read, a write of the   *)
(* temporary file and a rename; the operations of different callers        *)
(* interleave.  After the rename a handle opened before it still leads to  *)
(* the file that was replaced.  The prune of one hour is over before the   *)
(* next begins.                                                            *)
(***************************************************************************)
EXTENDS Naturals, Sequences

CONSTANTS
  Requests,     \* request_id of each API request
  Retention,    \* auditLogRetentionDays, in ticks of the clock
  MaxTime,      \* bound on the clock
  Crashes       \* TRUE: the process may stop at any point

ASSUME TimeAssumption == Retention \in Nat /\ MaxTime \in Nat
ASSUME CrashesAssumption == Crashes \in BOOLEAN

VARIABLES
  now,       \* Date.now()
  booted,    \* initAuditLog() has returned and the routes are there
  log,       \* the lines of audit.log
  entry,     \* how far each request is with its entry
  stamp,     \* the timestamp of the entry, taken when the request arrives
  prune      \* the prune under way: its phase, its `now`, the lines it keeps
             \* and (history) how many it read

logVars == <<now, booted, log, entry, stamp, prune>>

Idle == [at |-> "idle"]

LogTypeOK ==
  /\ now \in 0..MaxTime
  /\ booted \in BOOLEAN
  /\ log \in Seq(Requests)
  /\ entry \in [Requests -> {"none", "due", "open", "stale", "written", "lost"}]
  /\ stamp \in [Requests -> 0..MaxTime]
  /\ prune = Idle \/ prune \in [at : {"read", "write", "rename"}, since : 0..MaxTime,
                                kept : Seq(Requests), read : Nat]

LogInit ==
  /\ now = 0
  /\ booted = FALSE
  /\ log = <<>>
  /\ entry = [r \in Requests |-> "none"]
  /\ stamp = [r \in Requests |-> 0]
  /\ prune = Idle

-----------------------------------------------------------------------------
(***************************************************************************)
(* recordAuditEntry, in the `finally` of every API request.                *)
(***************************************************************************)
Arrive(r) ==
  /\ booted /\ entry[r] = "none"
  /\ entry' = [entry EXCEPT ![r] = "due"]
  /\ stamp' = [stamp EXCEPT ![r] = now]
  /\ UNCHANGED <<now, booted, log, prune>>

OpenLog(r) ==
  /\ entry[r] = "due"
  /\ entry' = [entry EXCEPT ![r] = "open"]
  /\ UNCHANGED <<now, booted, log, stamp, prune>>

AppendLine(r) ==
  /\ \/ /\ entry[r] = "open"
        /\ log' = Append(log, r)
     \/ /\ entry[r] = "stale"
        /\ UNCHANGED log
  /\ entry' = [entry EXCEPT ![r] = "written"]
  /\ UNCHANGED <<now, booted, stamp, prune>>

\* appendFile() fails; the error is logged and the request goes on.
AppendFails(r) ==
  /\ entry[r] \in {"due", "open", "stale"}
  /\ entry' = [entry EXCEPT ![r] = "lost"]
  /\ UNCHANGED <<now, booted, log, stamp, prune>>

(***************************************************************************)
(* pruneOldEntries.                                                        *)
(***************************************************************************)
\* Mutant: a line is dropped one instant early.
TooOldAt(time, r) == stamp[r] + Retention <= time

OldAt(time, r) == stamp[r] + Retention < time

PruneStart ==
  /\ prune = Idle
  /\ prune' = [at |-> "read", since |-> now, kept |-> <<>>, read |-> 0]
  /\ UNCHANGED <<now, booted, log, entry, stamp>>

\* Mutant: the search for old lines ends at the first that is not.
KeptFromFirst(lines, since) ==
  LET kept[n \in 0..Len(lines)] ==
        IF n = 0 \/ (kept[n - 1] = <<>> /\ OldAt(since, lines[n])) THEN <<>>
        ELSE Append(kept[n - 1], lines[n])
  IN kept[Len(lines)]

\* The lines that are not too old, in their order.
Kept(lines, since) ==
  LET kept[n \in 0..Len(lines)] ==
        IF n = 0 THEN <<>>
        ELSE IF OldAt(since, lines[n]) THEN kept[n - 1] ELSE Append(kept[n - 1], lines[n])
  IN kept[Len(lines)]

\* initAuditLog() awaits the first prune.
PruneEnds == prune' = Idle /\ booted' = TRUE

PruneRead ==
  /\ prune.at = "read"
  /\ LET kept == Kept(log, prune.since)
     IN  \/ /\ kept = log
            /\ PruneEnds
         \/ /\ kept # log
            /\ prune' = [prune EXCEPT !.at = "write", !.kept = kept, !.read = Len(log)]
            /\ UNCHANGED booted
  /\ UNCHANGED <<now, log, entry, stamp>>

PruneWrite ==
  /\ prune.at = "write"
  /\ prune' = [prune EXCEPT !.at = "rename"]
  /\ UNCHANGED <<now, booted, log, entry, stamp>>

\* Mutant: the temporary file is left behind and the log stays.
PruneWithoutRename ==
  /\ prune.at = "rename"
  /\ PruneEnds
  /\ UNCHANGED <<now, log, entry, stamp>>

PruneRename ==
  /\ prune.at = "rename"
  /\ log' = prune.kept
  /\ entry' = [r \in Requests |-> IF entry[r] = "open" THEN "stale" ELSE entry[r]]
  /\ PruneEnds
  /\ UNCHANGED <<now, stamp>>

\* A file operation fails: the log is left as it is.
PruneFails ==
  /\ prune # Idle
  /\ PruneEnds
  /\ UNCHANGED <<now, log, entry, stamp>>

Prune == PruneRead \/ PruneWrite \/ PruneRename \/ PruneFails

-----------------------------------------------------------------------------
\* The process stops, and starts again with initAuditLog(): the requests under
\* way leave no entry.
Crash ==
  /\ Crashes
  /\ booted' = FALSE
  /\ prune' = Idle
  /\ entry' = [r \in Requests |-> IF entry[r] \in {"due", "open", "stale"} THEN "lost" ELSE entry[r]]
  /\ UNCHANGED <<now, log, stamp>>

Tick ==
  /\ now < MaxTime
  /\ now' = now + 1
  /\ UNCHANGED <<booted, log, entry, stamp, prune>>

LogNext ==
  \/ \E r \in Requests : Arrive(r) \/ OpenLog(r) \/ AppendLine(r) \/ AppendFails(r)
  \/ PruneStart \/ Prune
  \/ Crash \/ Tick

LogSpec == LogInit /\ [][LogNext]_logVars

\* The interval fires again and again and a prune that was begun goes on; file
\* operations may fail and the process may stop, but not for ever.
LogFairSpec ==
  /\ LogSpec
  /\ WF_logVars(PruneStart)
  /\ SF_logVars(PruneRead) /\ SF_logVars(PruneWrite) /\ SF_logVars(PruneRename)

-----------------------------------------------------------------------------
\* Of the lines `read` first ones were examined for being too old at `since`.
OldLost(lines, left, since, read) ==
  /\ \A i \in 1..Len(lines) : (\A j \in 1..Len(left) : left[j] # lines[i]) =>
       stamp[lines[i]] + Retention < since \/ i > read
  /\ Len(left) < Len(lines) =>
       \A j \in 1..Len(left) : stamp[left[j]] + Retention >= since

\* What a prune can lose: lines that were too old when it began, and lines
\* that were appended after it had read the file
\* (docs/safety-and-permissions.md: the log "captures every tool invocation",
\* which is not so of those).  What it leaves: no line that was too old when it
\* began, wherever in the file it is.  The lines are not in the order of their
\* stamps, since a request is stamped when it arrives and written when it ends.
PruneDropsTheOld == [][OldLost(log, log', prune.since, prune.read)]_logVars

\* What the proof rests on: a line belongs to a request that has written it, and
\* a prune that has read the file keeps every line it read that is not too old
\* and no line that is too old or was not written.
LogInv ==
  /\ LogTypeOK
  /\ \A i \in DOMAIN log : entry[log[i]] = "written"
  /\ prune.at \in {"write", "rename"} =>
       /\ prune.read <= Len(log)
       /\ \A k \in DOMAIN prune.kept :
            entry[prune.kept[k]] = "written" /\ ~OldAt(prune.since, prune.kept[k])
       /\ \A i \in 1..prune.read :
            \/ OldAt(prune.since, log[i])
            \/ \E k \in DOMAIN prune.kept : prune.kept[k] = log[i]

\* A line that is too old does not stay.
OldLinesGo ==
  \A r \in Requests :
    (\E i \in 1..Len(log) : log[i] = r) /\ stamp[r] + Retention < now
      ~> ~\E i \in 1..Len(log) : log[i] = r
=============================================================================
