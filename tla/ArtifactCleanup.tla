-------------------------- MODULE ArtifactCleanup --------------------------
(***************************************************************************)
(* The life of an artifact's bytes and of its row: a result is persisted   *)
(* by one transaction that publishes its files first (Local.Put) and       *)
(* inserts their rows last; expired artifacts are removed by one-shot      *)
(* cleanup commands (CleanupBatch), each of which claims a batch of rows,  *)
(* deletes the files one by one and settles each row under its claim.      *)
(*                                                                         *)
(* A file has two states: file is what a process sees, onDisk the set of   *)
(* what a power loss may leave of it.  Writing and unlinking widen onDisk; *)
(* only a sync of the content or of the directory chain narrows it.  The   *)
(* second exists on some platforms only: on Windows platformSyncDirectory  *)
(* does nothing and says so, and the callers go on as after a sync.        *)
(* directorySync says which platform the store is on; the properties say   *)
(* what remains true on each.                                              *)
(*                                                                         *)
(* A claim's token is modelled by the cleaner that drew it: a command      *)
(* claims once and dies with its batch, so no two live tokens of one row   *)
(* belong to the same cleaner.                                             *)
(***************************************************************************)
EXTENDS Integers, Sequences, FiniteSets

CONSTANTS
  Artifacts,   \* the artifact IDs that Put draws
  Results,     \* the results being persisted
  Files,       \* Files[r]: the artifacts of r in publication order
  Expiring,    \* the artifacts stored with a retention (expires_at not null)
  Cleaners,    \* the concurrent cleanup commands
  BatchSize,   \* the commands' --batch-size
  MaxFaults,   \* bound: failing syscalls, killed or slow commands, power losses
  None         \* no cleaner, no artifact

\* newID never repeats, so an artifact belongs to one place of one result;
\* a batch holds at least one row.
ASSUME CleanupAssumption ==
  /\ Files \in [Results -> Seq(Artifacts)]
  /\ \A r, s \in Results : \A i \in 1..Len(Files[r]), j \in 1..Len(Files[s]) :
        Files[r][i] = Files[s][j] => r = s /\ i = j
  /\ Expiring \subseteq Artifacts
  /\ BatchSize \in Nat \ {0}
  /\ MaxFaults \in Nat
  /\ None \notin Cleaners \cup Artifacts

VARIABLES
  file,      \* what is at the artifact's storage key
  onDisk,    \* what a power loss may leave there
  directorySync,  \* what platformSyncDirectory returns on the store's host
  row,       \* the cleanup state class of the artifact's row
  expired,   \* expires_at <= statement_timestamp()
  token,     \* cleanup_claim_token, as the cleaner that drew it
  elapsed,   \* the claim's 15 minutes or the retry's 5 minutes are over
  put,       \* the step of Put that each result's writer is at
  nth,       \* the position in Files of the artifact it is at
  pc,        \* the step of each cleanup command
  batch,     \* the claims it has yet to handle
  cur,       \* the one it is handling
  faults

disk == <<file, onDisk, directorySync>>
rows == <<row, token, elapsed>>
writers == <<put, nth>>
cleaners == <<pc, batch, cur>>
vars == <<disk, rows, expired, writers, cleaners, faults>>

directorySyncResult == {"performed", "unsupported"}
Contents == {"absent", "partial", "whole", "other"}
Settled == {"CONTENT_DELETED", "QUARANTINED"}
Rows == {"none", "UNCLAIMED", "CLAIMED", "RETRY_WAIT"} \cup Settled

\* Types, and the shape that artifacts_cleanup_state_shape_ck gives a row:
\* a claim token exactly while the row is claimed.
TypeOK ==
  /\ file \in [Artifacts -> Contents]
  /\ onDisk \in [Artifacts -> SUBSET Contents]
  /\ directorySync \in directorySyncResult
  /\ row \in [Artifacts -> Rows]
  /\ expired \in [Artifacts -> BOOLEAN]
  /\ token \in [Artifacts -> Cleaners \cup {None}]
  /\ elapsed \in [Artifacts -> BOOLEAN]
  /\ put \in [Results -> {"create", "write", "sync", "path", "done", "failed"}]
  /\ nth \in [Results -> Nat]
  /\ pc \in [Cleaners ->
        {"idle", "next", "unlink", "sync", "finalize", "retry", "quarantine"}]
  /\ batch \in [Cleaners -> SUBSET Artifacts]
  /\ cur \in [Cleaners -> Artifacts \cup {None}]
  /\ faults \in 0..MaxFaults
  /\ \A a \in Artifacts : token[a] # None <=> row[a] = "CLAIMED"

Init ==
  /\ file = [a \in Artifacts |-> "absent"]
  /\ onDisk = [a \in Artifacts |-> {"absent"}]
  /\ directorySync \in directorySyncResult
  /\ row = [a \in Artifacts |-> "none"]
  /\ expired = [a \in Artifacts |-> FALSE]
  /\ token = [a \in Artifacts |-> None]
  /\ elapsed = [a \in Artifacts |-> FALSE]
  /\ put = [r \in Results |-> "create"]
  /\ nth = [r \in Results |-> 1]
  /\ pc = [c \in Cleaners |-> "idle"]
  /\ batch = [c \in Cleaners |-> {}]
  /\ cur = [c \in Cleaners |-> None]
  /\ faults = 0

-----------------------------------------------------------------------------
(* The files.                                                              *)

\* What the sync of the directory chain from the entry to the root leaves
\* possible: the entry is there, or not there, as it is now; or, where the
\* platform has no such sync, all that was possible before.
syncDirectoryChain(a) ==
  IF directorySync = "unsupported" THEN onDisk[a]
  ELSE IF file[a] = "absent" THEN {"absent"}
  ELSE onDisk[a] \ {"absent"}

(* Local.Put, one step per effect, for the result's next artifact.         *)

Current(r) == Files[r][nth[r]]

AtStep(r, step) ==
  /\ put[r] = step
  /\ nth[r] <= Len(Files[r])

\* MkdirAll and the exclusive create.
CreateContent(r) ==
  /\ AtStep(r, "create")
  /\ LET a == Current(r) IN
       /\ file[a] = "absent"
       /\ file' = [file EXCEPT ![a] = "partial"]
       /\ onDisk' = [onDisk EXCEPT ![a] = @ \cup {"partial"}]
  /\ put' = [put EXCEPT ![r] = "write"]
  /\ UNCHANGED <<nth, directorySync, rows, expired, cleaners, faults>>

WriteContent(r) ==
  /\ AtStep(r, "write")
  /\ LET a == Current(r) IN
       /\ file' = [file EXCEPT ![a] = "whole"]
       /\ onDisk' = [onDisk EXCEPT ![a] = @ \cup {"whole"}]
  /\ put' = [put EXCEPT ![r] = "sync"]
  /\ UNCHANGED <<nth, directorySync, rows, expired, cleaners, faults>>

\* file.Sync: the content is durable, the directory entry may not be.
SyncContent(r) ==
  /\ AtStep(r, "sync")
  /\ onDisk' = [onDisk EXCEPT ![Current(r)] = @ \ {"partial"}]
  /\ put' = [put EXCEPT ![r] = "path"]
  /\ UNCHANGED <<nth, rows, file, directorySync, expired, cleaners, faults>>

\* Mutant: a Put that returns without the directory sync.
SyncPathSkipped(r) ==
  /\ AtStep(r, "path")
  /\ put' = [put EXCEPT ![r] = "create"]
  /\ nth' = [nth EXCEPT ![r] = @ + 1]
  /\ UNCHANGED <<rows, disk, expired, cleaners, faults>>

SyncPath(r) ==
  /\ AtStep(r, "path")
  /\ onDisk' = [onDisk EXCEPT ![Current(r)] = syncDirectoryChain(Current(r))]
  /\ put' = [put EXCEPT ![r] = "create"]
  /\ nth' = [nth EXCEPT ![r] = @ + 1]
  /\ UNCHANGED <<rows, file, directorySync, expired, cleaners, faults>>

\* publish has returned every artifact: the transaction inserts their rows
\* and commits.
CommitResult(r) ==
  /\ put[r] = "create"
  /\ nth[r] > Len(Files[r])
  /\ row' = [a \in Artifacts |->
               IF \E i \in 1..Len(Files[r]) : a = Files[r][i] THEN "UNCLAIMED" ELSE row[a]]
  /\ put' = [put EXCEPT ![r] = "done"]
  /\ UNCHANGED <<nth, disk, expired, token, elapsed, cleaners, faults>>

\* Any failure of Put, of the transaction or of the process: the rows roll
\* back and the files written so far stay as they are, under keys that no
\* later attempt draws again.
AbortResult(r) ==
  /\ put[r] \notin {"done", "failed"}
  /\ put' = [put EXCEPT ![r] = "failed"]
  /\ UNCHANGED <<nth, rows, disk, expired, cleaners, faults>>

-----------------------------------------------------------------------------
(* Time.                                                                   *)

\* Put stamps expires_at when the file is durable, before the row exists.
Stamped(a) ==
  \E r \in Results : \E i \in 1..Len(Files[r]) : Files[r][i] = a /\ i < nth[r]

Expire(a) ==
  /\ a \in Expiring
  /\ Stamped(a)
  /\ ~expired[a]
  /\ expired' = [expired EXCEPT ![a] = TRUE]
  /\ UNCHANGED <<rows, disk, writers, cleaners, faults>>

\* A live command still has the artifact to handle under its claim.
InHand(a) == \E c \in Cleaners : token[a] = c /\ a \in batch[c]

\* Fifteen minutes pass over a claim, five over a scheduled retry.  That a
\* claim outlives a command still at work on it is one of the faults: a
\* batch that always takes longer than its claims would settle nothing.
Elapse(a) ==
  /\ row[a] \in {"CLAIMED", "RETRY_WAIT"}
  /\ ~elapsed[a]
  /\ elapsed' = [elapsed EXCEPT ![a] = TRUE]
  /\ IF InHand(a) THEN faults < MaxFaults /\ faults' = faults + 1 ELSE UNCHANGED faults
  /\ UNCHANGED <<disk, row, expired, token, writers, cleaners>>

-----------------------------------------------------------------------------
(* CleanupBatch.                                                           *)

\* Mutant: a claim that never takes over a stale one.
EligibleIfUnheld(a) ==
  /\ expired[a]
  /\ \/ row[a] = "UNCLAIMED"
     \/ row[a] = "RETRY_WAIT" /\ elapsed[a]

\* The WHERE clause of the claim.
Eligible(a) ==
  /\ expired[a]
  /\ \/ row[a] = "UNCLAIMED"
     \/ row[a] \in {"CLAIMED", "RETRY_WAIT"} /\ elapsed[a]

\* One statement: rows another claim holds locked are skipped, so any part
\* of the eligible rows may be claimed, up to the limit.
ClaimExpiredArtifacts(c) ==
  /\ pc[c] = "idle"
  /\ \E claims \in SUBSET {a \in Artifacts : Eligible(a)} :
       /\ claims # {}
       /\ Cardinality(claims) <= BatchSize
       /\ row' = [a \in Artifacts |-> IF a \in claims THEN "CLAIMED" ELSE row[a]]
       /\ token' = [a \in Artifacts |-> IF a \in claims THEN c ELSE token[a]]
       /\ elapsed' = [a \in Artifacts |-> elapsed[a] /\ a \notin claims]
       /\ batch' = [batch EXCEPT ![c] = claims]
  /\ pc' = [pc EXCEPT ![c] = "next"]
  /\ UNCHANGED <<cur, disk, expired, writers, faults>>

\* Mutant: a deletion that trusts an absent file without a sync.
InspectAbsentAsDone(c) ==
  /\ pc[c] = "next"
  /\ \E a \in batch[c] :
       /\ cur' = [cur EXCEPT ![c] = a]
       /\ pc' = [pc EXCEPT ![c] = CASE file[a] = "absent" -> "finalize"
                                     [] file[a] = "other" -> "quarantine"
                                     [] OTHER -> "unlink"]
  /\ UNCHANGED <<batch, rows, disk, expired, writers, faults>>

\* DeleteContent: Lstat of the next claim's file decides what is done.
Inspect(c) ==
  /\ pc[c] = "next"
  /\ \E a \in batch[c] :
       /\ cur' = [cur EXCEPT ![c] = a]
       /\ pc' = [pc EXCEPT ![c] = CASE file[a] = "absent" -> "sync"
                                     [] file[a] = "other" -> "quarantine"
                                     [] OTHER -> "unlink"]
  /\ UNCHANGED <<batch, rows, disk, expired, writers, faults>>

\* os.Remove: a rival may have removed the file since the Lstat, and the
\* deletion goes on with the sync all the same.
Remove(c) ==
  /\ pc[c] = "unlink"
  /\ LET a == cur[c] IN
       /\ file' = [file EXCEPT ![a] = "absent"]
       /\ onDisk' = [onDisk EXCEPT ![a] = @ \cup {"absent"}]
  /\ pc' = [pc EXCEPT ![c] = "sync"]
  /\ UNCHANGED <<batch, cur, directorySync, rows, expired, writers, faults>>

\* The sync after the removal, and the one of an absent file's ancestors.
SyncRemoval(c) ==
  /\ pc[c] = "sync"
  /\ onDisk' = [onDisk EXCEPT ![cur[c]] = syncDirectoryChain(cur[c])]
  /\ pc' = [pc EXCEPT ![c] = "finalize"]
  /\ UNCHANGED <<batch, cur, rows, file, directorySync, expired, writers, faults>>

\* Lstat, Remove or the sync fails: a retryable error.
DeleteFails(c) ==
  /\ faults < MaxFaults
  /\ faults' = faults + 1
  /\ \/ pc[c] = "next" /\ \E a \in batch[c] : cur' = [cur EXCEPT ![c] = a]
     \/ pc[c] \in {"unlink", "sync"} /\ UNCHANGED cur
  /\ pc' = [pc EXCEPT ![c] = "retry"]
  /\ UNCHANGED <<batch, rows, disk, expired, writers>>

\* The loop goes on with the rest of the batch, or the command ends.
NextClaim(c) ==
  /\ batch' = [batch EXCEPT ![c] = @ \ {cur[c]}]
  /\ cur' = [cur EXCEPT ![c] = None]
  /\ pc' = [pc EXCEPT ![c] = IF batch[c] = {cur[c]} THEN "idle" ELSE "next"]

\* Mutant: a settling statement without the token.
OwnsAnyClaim(c) == row[cur[c]] # "CONTENT_DELETED"

\* The WHERE clause of the three settling statements.
Owns(c) ==
  /\ token[cur[c]] = c
  /\ row[cur[c]] # "CONTENT_DELETED"

\* Mutant: a settling statement that leaves the claim on the row.
SettleKeepingClaim(c, state) ==
  LET a == cur[c] IN
  IF Owns(c)
  THEN /\ row' = [row EXCEPT ![a] = state]
       /\ UNCHANGED <<token, elapsed>>
  ELSE UNCHANGED rows

\* A settling statement: it moves the row and clears the claim, or finds
\* the claim lost and changes nothing.
Settle(c, state) ==
  LET a == cur[c] IN
  IF Owns(c)
  THEN /\ row' = [row EXCEPT ![a] = state]
       /\ token' = [token EXCEPT ![a] = None]
       /\ elapsed' = [elapsed EXCEPT ![a] = FALSE]
  ELSE UNCHANGED rows

FinalizeArtifactCleanup(c) ==
  /\ pc[c] = "finalize"
  /\ Settle(c, "CONTENT_DELETED")
  /\ NextClaim(c)
  /\ UNCHANGED <<disk, expired, writers, faults>>

RecordArtifactCleanupRetry(c) ==
  /\ pc[c] = "retry"
  /\ Settle(c, "RETRY_WAIT")
  /\ NextClaim(c)
  /\ UNCHANGED <<disk, expired, writers, faults>>

QuarantineArtifactCleanup(c) ==
  /\ pc[c] = "quarantine"
  /\ Settle(c, "QUARANTINED")
  /\ NextClaim(c)
  /\ UNCHANGED <<disk, expired, writers, faults>>

\* The command is killed or a statement fails: its claims stay behind.
AbortBatch(c) ==
  /\ pc[c] # "idle"
  /\ faults < MaxFaults
  /\ faults' = faults + 1
  /\ pc' = [pc EXCEPT ![c] = "idle"]
  /\ batch' = [batch EXCEPT ![c] = {}]
  /\ cur' = [cur EXCEPT ![c] = None]
  /\ UNCHANGED <<rows, disk, expired, writers>>

-----------------------------------------------------------------------------
(* The host.                                                               *)

\* The host of the store loses power: every process on it dies and each
\* file comes back in one of the states its disk may hold.
PowerLoss ==
  /\ faults < MaxFaults
  /\ faults' = faults + 1
  /\ file' \in {f \in [Artifacts -> Contents] : \A a \in Artifacts : f[a] \in onDisk[a]}
  /\ onDisk' = [a \in Artifacts |-> {file'[a]}]
  /\ put' = [r \in Results |-> IF put[r] = "done" THEN "done" ELSE "failed"]
  /\ pc' = [c \in Cleaners |-> "idle"]
  /\ batch' = [c \in Cleaners |-> {}]
  /\ cur' = [c \in Cleaners |-> None]
  /\ UNCHANGED <<nth, directorySync, rows, expired>>

\* Someone puts a directory or a link where an artifact was, or a dangling
\* link where a directory of its path was, while no command handles it.
Replace(a) ==
  /\ faults < MaxFaults
  /\ faults' = faults + 1
  /\ row[a] \notin Settled \cup {"none"}
  /\ \A c \in Cleaners : cur[c] # a
  /\ file' = [file EXCEPT ![a] = "other"]
  /\ onDisk' = [onDisk EXCEPT ![a] = {"other"}]
  /\ UNCHANGED <<directorySync, rows, expired, writers, cleaners>>

WriterStep(r) ==
  \/ CreateContent(r)
  \/ WriteContent(r)
  \/ SyncContent(r)
  \/ SyncPath(r)
  \/ CommitResult(r)

CleanerStep(c) ==
  \/ ClaimExpiredArtifacts(c)
  \/ Inspect(c)
  \/ Remove(c)
  \/ SyncRemoval(c)
  \/ FinalizeArtifactCleanup(c)
  \/ RecordArtifactCleanupRetry(c)
  \/ QuarantineArtifactCleanup(c)

Next ==
  \/ \E r \in Results : WriterStep(r) \/ AbortResult(r)
  \/ \E a \in Artifacts : Expire(a) \/ Elapse(a) \/ Replace(a)
  \/ \E c \in Cleaners : CleanerStep(c) \/ DeleteFails(c) \/ AbortBatch(c)
  \/ PowerLoss

Spec == Init /\ [][Next]_vars

\* The operator keeps running the cleanup command and it runs to its end
\* unless one of the bounded faults stops it; time passes.
Fairness ==
  /\ \A c \in Cleaners : WF_vars(CleanerStep(c))
  /\ \A a \in Artifacts : WF_vars(Elapse(a))

LiveSpec == Spec /\ Fairness

-----------------------------------------------------------------------------
(* Properties.                                                             *)

\* What Put or DeleteContent returned still stands.  Only a power loss can
\* take it back, and only where directories are not synced: there it is also
\* the only step that leaves one possibility of an unsynced path.
Stands(a) == directorySync = "performed" \/ onDisk[a] # {file[a]}

\* A row promises its content: from the commit of the result on and until
\* the artifact expires its file is whole, and no power loss can leave it
\* cut short, whatever other results and cleanup commands do.  Nor can one
\* leave it absent, unless the platform does not sync directories.
ContentIsKept ==
  \A a \in Artifacts :
    row[a] # "none" /\ ~expired[a] =>
      /\ Stands(a) => file[a] \in {"whole", "other"}
      /\ "partial" \notin onDisk[a]
      /\ directorySync = "performed" => "absent" \notin onDisk[a]

\* A settled row tells the truth about the disk: a tombstoned artifact is
\* gone, also when several commands, some with lost claims, delete it at
\* once, and where directories are synced it stays gone through a power
\* loss; a quarantined one is still the unexpected entry that an operator
\* has to look at.
SettledIsTrue ==
  \A a \in Artifacts :
    /\ row[a] = "CONTENT_DELETED" =>
         /\ Stands(a) => file[a] = "absent"
         /\ directorySync = "performed" => onDisk[a] = {"absent"}
    /\ row[a] = "QUARANTINED" => file[a] = "other" /\ onDisk[a] = {"other"}

\* A settled row never moves again: a late settling statement of a command
\* that lost its claim cannot revive or overwrite it (the trigger of
\* migration 0017 would raise, but no statement ever gets that far).
SettledIsFinal ==
  [][\A a \in Artifacts : row[a] \in Settled => row'[a] = row[a]]_vars

\* Every expired artifact is settled in the end, although commands die with
\* claims in their hands and deletions fail and are put off.
ExpiredIsSettled ==
  \A a \in Artifacts : expired[a] /\ row[a] # "none" ~> row[a] \in Settled
=============================================================================
