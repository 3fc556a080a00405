----------------------- MODULE ArtifactCleanupProofs -----------------------
(***************************************************************************)
(* What ArtifactCleanup promises, for every number of results, artifacts,  *)
(* cleanup commands and faults.  The inductive invariant IInv says what a  *)
(* writer has made durable at each of its steps, who owns a row, and what  *)
(* a command knows about its current file at each of its own steps.        *)
(***************************************************************************)
EXTENDS ArtifactCleanup, TLAPS

\* What a power loss may leave of a synced path beside what is there.
Unsynced == IF directorySync = "performed" THEN {} ELSE {"absent"}

\* The writer is still at work.
Active(r) == put[r] \notin {"done", "failed"}

\* What an active writer has made of its i-th artifact.
Progress(r, i) ==
  LET a == Files[r][i]
      s == put[r]
      n == nth[r]
  IN /\ i < n => file[a] = "whole" /\ onDisk[a] \subseteq {"whole"} \cup Unsynced
     /\ i = n /\ s = "create" => onDisk[a] \subseteq {"absent"}
     /\ i = n /\ s = "write" => file[a] = "partial" /\ onDisk[a] \subseteq {"absent", "partial"}
     /\ i = n /\ s = "sync" =>
          file[a] = "whole" /\ onDisk[a] \subseteq {"absent", "partial", "whole"}
     /\ i = n /\ s = "path" => file[a] = "whole" /\ onDisk[a] \subseteq {"absent", "whole"}
     /\ i > n => onDisk[a] \subseteq {"absent"}

WriterInv ==
  \A r \in Results :
    /\ nth[r] > 0
    /\ Active(r) => \A i \in 1..Len(Files[r]) : Progress(r, i)

\* A row exists only for an artifact of a result that has committed.
RowOwner ==
  \A a \in Artifacts : row[a] # "none" =>
    \E r \in Results : \E i \in 1..Len(Files[r]) :
      Files[r][i] = a /\ put[r] = "done"

\* Where directories are synced, no power loss brings the file back.
IsGone(a) == directorySync = "performed" => onDisk[a] = {"absent"}

\* What a command knows: its batch is expired rows, and its step fits the
\* state of its current file, which rivals may also be deleting.
Knows(c) ==
  LET a == cur[c]
      s == pc[c]
  IN /\ \A b \in batch[c] : expired[b] /\ row[b] # "none"
     /\ s \notin {"idle", "next"} => a \in batch[c]
     /\ s = "unlink" => file[a] # "other"
     /\ s = "sync" => file[a] = "absent"
     /\ s = "finalize" => file[a] = "absent" /\ IsGone(a)
     /\ s = "quarantine" => file[a] = "other" /\ onDisk[a] = {"other"}

CleanerInv == \A c \in Cleaners : Knows(c)

\* An unexpected entry is durable: it was put there from outside.
OtherInv == \A a \in Artifacts : file[a] = "other" => onDisk[a] = {"other"}

IInv ==
  /\ TypeOK
  /\ WriterInv
  /\ RowOwner
  /\ CleanerInv
  /\ OtherInv
  /\ ContentIsKept
  /\ SettledIsTrue

-----------------------------------------------------------------------------

\* The artifacts of a result that is still being written have no row, and
\* are no other result's.
LEMMA ActiveHasNoRows ==
  ASSUME IInv, NEW r \in Results, Active(r), NEW i \in 1..Len(Files[r])
  PROVE  /\ Files[r][i] \in Artifacts
         /\ row[Files[r][i]] = "none"
<1>1. Files[r][i] \in Artifacts
  BY CleanupAssumption
<1> QED
  BY <1>1, CleanupAssumption DEF IInv, RowOwner, Active

\* The invariant holds before anything is written.
THEOREM InitInv == Init => IInv
<1> SUFFICES ASSUME Init PROVE IInv
  OBVIOUS
<1>1. TypeOK
  BY CleanupAssumption DEF Init, TypeOK, Contents, Rows, Settled
<1>2. WriterInv
  BY CleanupAssumption DEF Init, WriterInv, Progress, Active
<1>3. CleanerInv
  BY DEF Init, CleanerInv, Knows, IsGone
<1> QED
  BY <1>1, <1>2, <1>3 DEF Init, IInv, RowOwner, OtherInv, ContentIsKept, SettledIsTrue, Stands, Settled

\* A step that leaves a writer and its i-th file alone.
LEMMA ProgressFrame ==
  ASSUME NEW r \in Results, NEW i \in 1..Len(Files[r]),
         put'[r] = put[r], nth'[r] = nth[r],
         file'[Files[r][i]] = file[Files[r][i]],
         onDisk'[Files[r][i]] = onDisk[Files[r][i]],
         directorySync' = directorySync,
         Progress(r, i)
  PROVE  Progress(r, i)'
BY DEF Progress, Unsynced

\* A step that leaves the writers and the files without a row alone.
LEMMA WriterFrame ==
  ASSUME IInv, UNCHANGED <<writers, directorySync>>,
         \A b \in Artifacts : row[b] = "none" => file'[b] = file[b] /\ onDisk'[b] = onDisk[b]
  PROVE  WriterInv'
<1> SUFFICES ASSUME NEW r \in Results, Active(r), NEW i \in 1..Len(Files[r])
             PROVE  Progress(r, i)'
  BY DEF IInv, WriterInv, Active, writers
<1>1. Files[r][i] \in Artifacts /\ row[Files[r][i]] = "none"
  BY ActiveHasNoRows
<1>2. Progress(r, i)
  BY DEF IInv, WriterInv
<1> QED
  BY <1>1, <1>2, ProgressFrame DEF writers

\* A step that inserts no row and reopens no result.
LEMMA RowOwnerFrame ==
  ASSUME IInv,
         \A s \in Results : put[s] = "done" => put'[s] = "done",
         \A b \in Artifacts : row'[b] # "none" => row[b] # "none"
  PROVE  RowOwner'
<1> SUFFICES ASSUME NEW b \in Artifacts, row'[b] # "none"
             PROVE  \E r \in Results : \E i \in 1..Len(Files[r]) :
                      Files[r][i] = b /\ put'[r] = "done"
  BY DEF RowOwner
<1>1. PICK r \in Results : \E i \in 1..Len(Files[r]) : Files[r][i] = b /\ put[r] = "done"
  BY DEF IInv, RowOwner
<1> QED
  BY <1>1

\* A step of Put moves the writer and its current artifact's file only.
LEMMA PutStep ==
  ASSUME IInv, NEW r \in Results,
         CreateContent(r) \/ WriteContent(r) \/ SyncContent(r) \/ SyncPath(r)
  PROVE  IInv'
<1> DEFINE n == nth[r]
           a == Files[r][n]
<1>1. /\ Active(r)
      /\ n \in 1..Len(Files[r])
      /\ a \in Artifacts
      /\ row[a] = "none"
  <2>1. Active(r) /\ n <= Len(Files[r]) /\ n \in Nat
    BY DEF CreateContent, WriteContent, SyncContent, SyncPath, AtStep, Active, IInv, TypeOK
  <2>2. n > 0
    BY DEF IInv, WriterInv
  <2> QED
    <3>1. n \in 1..Len(Files[r])
      BY <2>1, <2>2, CleanupAssumption
    <3> QED
      BY <3>1, <2>1, ActiveHasNoRows
<1>2. TypeOK'
  <2>1. CASE CreateContent(r)
    BY <1>1, <2>1 DEF IInv, TypeOK, CreateContent, Current, Contents, rows, cleaners
  <2>2. CASE WriteContent(r)
    BY <1>1, <2>2 DEF IInv, TypeOK, WriteContent, Current, Contents, rows, cleaners
  <2>3. CASE SyncContent(r)
    BY <1>1, <2>3 DEF IInv, TypeOK, SyncContent, Current, Contents, rows, cleaners
  <2>4. CASE SyncPath(r)
    BY <1>1, <2>4 DEF IInv, TypeOK, SyncPath, Current, Contents, rows, cleaners, syncDirectoryChain
  <2> QED
    BY <2>1, <2>2, <2>3, <2>4
<1>3. /\ \A b \in Artifacts : b # a => file'[b] = file[b] /\ onDisk'[b] = onDisk[b]
      /\ UNCHANGED <<row, expired, cleaners, directorySync>>
      /\ \A s \in Results : s # r => put'[s] = put[s] /\ nth'[s] = nth[s]
      /\ Active(r)'
  BY <1>1 DEF IInv, TypeOK, CreateContent, WriteContent, SyncContent, SyncPath, Current, Active, rows
<1>4. WriterInv'
  <2> SUFFICES ASSUME NEW s \in Results, Active(s)', NEW i \in 1..Len(Files[s])
               PROVE  Progress(s, i)'
    <3>1. \A s \in Results : nth'[s] > 0
      BY <1>1, <1>3 DEF IInv, TypeOK, WriterInv, CreateContent, WriteContent, SyncContent, SyncPath
    <3> QED
      BY <3>1 DEF WriterInv
  <2>0. Files[s][i] \in Artifacts
    BY CleanupAssumption
  <2>1. CASE s # r
    <3>1. Files[s][i] # a
      BY <1>1, <2>1, CleanupAssumption
    <3>2. Progress(s, i)
      BY <1>3, <2>1 DEF IInv, WriterInv, Active
    <3> QED
      BY <3>1, <3>2, <2>0, <2>1, <1>3, ProgressFrame
  <2>2. CASE s = r /\ i # n
    <3>1. Files[s][i] # a
      BY <1>1, <2>2, CleanupAssumption
    <3>2. Progress(r, i)
      BY <1>1, <2>2 DEF IInv, WriterInv
    <3>3. nth[r] <= nth'[r] /\ nth'[r] <= nth[r] + 1
          /\ nth'[r] \in Nat
          /\ (nth'[r] = nth[r] + 1 => put'[r] = "create")
          /\ (nth'[r] = nth[r] => put'[r] # "create")
      BY <1>1 DEF IInv, TypeOK, CreateContent, WriteContent, SyncContent, SyncPath
    <3>4. file'[Files[r][i]] = file[Files[r][i]] /\ onDisk'[Files[r][i]] = onDisk[Files[r][i]]
      BY <3>1, <2>0, <2>2, <1>3
    <3>5. n \in Nat /\ i \in Nat
      BY <1>1, <2>2
    <3>6. CASE i < n
      <4>1. file'[Files[r][i]] = "whole" /\ onDisk'[Files[r][i]] \subseteq {"whole"} \cup Unsynced
        BY <3>2, <3>4, <3>6 DEF Progress
      <4>2. i < nth'[r] /\ i # nth'[r] /\ ~(i > nth'[r])
        BY <3>3, <3>5, <3>6
      <4> QED
        BY <4>1, <4>2, <2>2, <1>3 DEF Progress, Unsynced
    <3>7. CASE i > n
      <4>1. onDisk'[Files[r][i]] \subseteq {"absent"}
        BY <3>2, <3>4, <3>7 DEF Progress
      <4>2. ~(i < nth'[r]) /\ (i = nth'[r] => put'[r] = "create")
        BY <3>3, <3>5, <3>7
      <4> QED
        BY <4>1, <4>2, <2>2 DEF Progress
    <3> QED
      BY <3>5, <3>6, <3>7, <2>2
  <2>3. CASE s = r /\ i = n
    <3>1. Progress(r, n)
      BY <1>1 DEF IInv, WriterInv
    <3>2. CASE CreateContent(r)
      BY <3>1, <3>2, <2>3, <1>1 DEF CreateContent, AtStep, Current, Progress, IInv, TypeOK, Unsynced
    <3>3. CASE WriteContent(r)
      BY <3>1, <3>3, <2>3, <1>1 DEF WriteContent, AtStep, Current, Progress, IInv, TypeOK, Unsynced
    <3>4. CASE SyncContent(r)
      BY <3>1, <3>4, <2>3, <1>1 DEF SyncContent, AtStep, Current, Progress, IInv, TypeOK, Unsynced
    <3>5. CASE SyncPath(r)
      BY <3>1, <3>5, <2>3, <1>1 DEF SyncPath, AtStep, Current, Progress, IInv, TypeOK, Unsynced,
           syncDirectoryChain, directorySyncResult
    <3> QED
      BY <3>2, <3>3, <3>4, <3>5
  <2> QED
    BY <2>1, <2>2, <2>3
<1>5. RowOwner'
  <2>1. \A s \in Results : put[s] = "done" => put'[s] = "done"
    BY <1>1, <1>3 DEF Active
  <2> QED
    BY <2>1, <1>3, RowOwnerFrame
<1>6. CleanerInv'
  BY <1>1, <1>3 DEF IInv, TypeOK, CleanerInv, Knows, IsGone, cleaners
<1>7. OtherInv'
  <2>1. file'[a] # "other"
    <3>1. Progress(r, n)
      BY <1>1 DEF IInv, WriterInv
    <3>2. CASE CreateContent(r) \/ WriteContent(r)
      BY <1>1, <3>2 DEF CreateContent, WriteContent, Current, IInv, TypeOK
    <3>3. CASE SyncContent(r) \/ SyncPath(r)
      <4>1. file'[a] = file[a] /\ put[r] \in {"sync", "path"}
        BY <3>3 DEF SyncContent, SyncPath, AtStep
      <4> QED
        BY <3>1, <4>1 DEF Progress
    <3> QED
      BY <3>2, <3>3
  <2> QED
    BY <2>1, <1>1, <1>3 DEF IInv, OtherInv
<1>8. ContentIsKept' /\ SettledIsTrue'
  BY <1>1, <1>3 DEF IInv, ContentIsKept, SettledIsTrue, Stands
<1> QED
  BY <1>2, <1>4, <1>5, <1>6, <1>7, <1>8 DEF IInv

\* The commit of a result gives its artifacts rows: all are whole on disk.
LEMMA CommitStep ==
  ASSUME IInv, NEW r \in Results, CommitResult(r)
  PROVE  IInv'
<1> DEFINE Mine(b) == \E i \in 1..Len(Files[r]) : b = Files[r][i]
<1>1. Active(r) /\ put'[r] = "done" /\ ~Active(r)'
  BY DEF CommitResult, Active, IInv, TypeOK
<1>2. \A b \in Artifacts : Mine(b) =>
        /\ row[b] = "none"
        /\ file[b] = "whole"
        /\ onDisk[b] \subseteq {"whole"} \cup Unsynced
        /\ row'[b] = "UNCLAIMED"
  <2> SUFFICES ASSUME NEW i \in 1..Len(Files[r])
               PROVE  /\ row[Files[r][i]] = "none"
                      /\ file[Files[r][i]] = "whole"
                      /\ onDisk[Files[r][i]] \subseteq {"whole"} \cup Unsynced
    BY DEF CommitResult
  <2>1. Progress(r, i)
    BY <1>1 DEF IInv, WriterInv
  <2>2. i < nth[r]
    BY CleanupAssumption DEF CommitResult, IInv, TypeOK
  <2> QED
    BY <1>1, <2>1, <2>2, ActiveHasNoRows DEF Progress
<1>3. \A b \in Artifacts : ~Mine(b) => row'[b] = row[b]
  BY DEF CommitResult
<1>4. /\ \A s \in Results : s # r => put'[s] = put[s]
      /\ \A s \in Results : nth'[s] = nth[s]
      /\ file' = file /\ onDisk' = onDisk /\ directorySync' = directorySync /\ expired' = expired
      /\ pc' = pc /\ batch' = batch /\ cur' = cur
  BY DEF CommitResult, IInv, TypeOK, disk, cleaners
<1>5. TypeOK'
  <2>1. row' \in [Artifacts -> Rows]
    BY DEF CommitResult, IInv, TypeOK, Rows
  <2>2. \A b \in Artifacts : token'[b] # None <=> row'[b] = "CLAIMED"
    BY <1>2, <1>3 DEF CommitResult, IInv, TypeOK
  <2> QED
    BY <2>1, <2>2 DEF CommitResult, IInv, TypeOK, disk, cleaners
<1>6. WriterInv'
  <2> SUFFICES ASSUME NEW s \in Results, Active(s)', NEW i \in 1..Len(Files[s])
               PROVE  Progress(s, i)'
    BY <1>4 DEF IInv, WriterInv
  <2>1. s # r
    BY <1>1
  <2>2. Progress(s, i)
    BY <2>1, <1>4 DEF IInv, WriterInv, Active
  <2> QED
    BY <2>1, <2>2, <1>4, ProgressFrame
<1>7. RowOwner'
  <2> SUFFICES ASSUME NEW b \in Artifacts, row'[b] # "none"
               PROVE  \E s \in Results : \E i \in 1..Len(Files[s]) :
                        Files[s][i] = b /\ put'[s] = "done"
    BY DEF RowOwner
  <2>1. CASE Mine(b)
    BY <2>1, <1>1
  <2>2. CASE ~Mine(b)
    <3>1. PICK s \in Results : \E i \in 1..Len(Files[s]) : Files[s][i] = b /\ put[s] = "done"
      BY <1>3, <2>2 DEF IInv, RowOwner
    <3> QED
      BY <3>1, <1>1, <1>4
  <2> QED
    BY <2>1, <2>2
<1>8. CleanerInv'
  <2>1. \A b \in Artifacts : row[b] # "none" => row'[b] # "none"
    BY <1>2, <1>3
  <2> QED
    BY <2>1, <1>4 DEF IInv, TypeOK, CleanerInv, Knows, IsGone
<1>9. OtherInv' /\ ContentIsKept' /\ SettledIsTrue'
  BY <1>2, <1>3, <1>4 DEF IInv, OtherInv, ContentIsKept, SettledIsTrue, Stands, Unsynced
<1> QED
  BY <1>5, <1>6, <1>7, <1>8, <1>9 DEF IInv

\* A failed writer keeps none of its promises and has none to keep.
LEMMA AbortStep ==
  ASSUME IInv, NEW r \in Results, AbortResult(r)
  PROVE  IInv'
<1>1. /\ \A s \in Results : s # r => put'[s] = put[s]
      /\ \A s \in Results : put[s] = "done" => put'[s] = "done"
      /\ put'[r] = "failed"
      /\ UNCHANGED <<nth, disk, rows, expired, cleaners>>
  BY DEF AbortResult, IInv, TypeOK
<1>2. TypeOK'
  BY DEF AbortResult, IInv, TypeOK, disk, rows, cleaners
<1>3. WriterInv'
  <2> SUFFICES ASSUME NEW s \in Results
               PROVE  nth'[s] > 0 /\ (Active(s)' => \A i \in 1..Len(Files[s]) : Progress(s, i)')
    BY DEF WriterInv
  <2>1. nth'[s] > 0
    BY <1>1 DEF IInv, WriterInv
  <2>2. CASE s = r
    BY <1>1, <2>1, <2>2 DEF Active
  <2>3. CASE s # r
    <3>1. /\ put'[s] = put[s] /\ nth'[s] = nth[s]
          /\ file' = file /\ onDisk' = onDisk /\ directorySync' = directorySync
      BY <1>1, <2>3 DEF disk
    <3>2. Active(s)' => Active(s)
      BY <3>1 DEF Active
    <3>3. \A i \in 1..Len(Files[s]) : Progress(s, i) => Progress(s, i)'
      BY <3>1, ProgressFrame
    <3> QED
      BY <2>1, <3>2, <3>3 DEF IInv, WriterInv
  <2> QED
    BY <2>2, <2>3
<1>4. RowOwner'
  BY <1>1, RowOwnerFrame DEF rows
<1>5. CleanerInv'
  BY <1>1 DEF IInv, CleanerInv, Knows, IsGone, disk, rows, cleaners
<1>6. OtherInv' /\ ContentIsKept' /\ SettledIsTrue'
  BY <1>1 DEF IInv, OtherInv, ContentIsKept, SettledIsTrue, Stands, disk, rows
<1> QED
  BY <1>2, <1>3, <1>4, <1>5, <1>6 DEF IInv

\* Time only makes things expire.
LEMMA TimeStep ==
  ASSUME IInv, NEW a \in Artifacts, Expire(a) \/ Elapse(a)
  PROVE  IInv'
<1>1. /\ UNCHANGED <<disk, row, token, writers, cleaners>>
      /\ \A b \in Artifacts : expired[b] => expired'[b]
  BY DEF Expire, Elapse, IInv, TypeOK, rows
<1>2. TypeOK'
  <2>1. CASE Expire(a)
    BY <2>1 DEF Expire, IInv, TypeOK, rows, disk, writers, cleaners
  <2>2. CASE Elapse(a)
    <3>1. faults' \in 0..MaxFaults
      BY <2>2, CleanupAssumption DEF Elapse, IInv, TypeOK
    <3> QED
      BY <2>2, <3>1 DEF Elapse, IInv, TypeOK, disk, writers, cleaners
  <2> QED
    BY <2>1, <2>2
<1>3. WriterInv' /\ RowOwner'
  BY <1>1, WriterFrame, RowOwnerFrame DEF disk, writers
<1>4. CleanerInv'
  BY <1>1 DEF IInv, TypeOK, CleanerInv, Knows, IsGone, disk, cleaners
<1>5. OtherInv' /\ ContentIsKept' /\ SettledIsTrue'
  BY <1>1 DEF IInv, OtherInv, ContentIsKept, SettledIsTrue, Stands, disk
<1> QED
  BY <1>2, <1>3, <1>4, <1>5 DEF IInv

\* A claim moves rows only, all of them expired.
LEMMA ClaimStep ==
  ASSUME IInv, NEW c \in Cleaners, ClaimExpiredArtifacts(c)
  PROVE  IInv'
<1>1. PICK claims \in SUBSET {a \in Artifacts : Eligible(a)} :
        /\ row' = [a \in Artifacts |-> IF a \in claims THEN "CLAIMED" ELSE row[a]]
        /\ token' = [a \in Artifacts |-> IF a \in claims THEN c ELSE token[a]]
        /\ elapsed' = [a \in Artifacts |-> elapsed[a] /\ a \notin claims]
        /\ batch' = [batch EXCEPT ![c] = claims]
  BY DEF ClaimExpiredArtifacts
<1>2. /\ UNCHANGED <<disk, expired, writers, cur, faults>>
      /\ pc[c] = "idle"
      /\ pc' = [pc EXCEPT ![c] = "next"]
  BY DEF ClaimExpiredArtifacts
<1>3. \A a \in claims : a \in Artifacts /\ expired[a] /\ row[a] \notin Settled \cup {"none"}
  BY DEF Eligible, Settled
<1>4. c # None
  BY CleanupAssumption
<1>5. TypeOK'
  BY <1>1, <1>2, <1>4 DEF IInv, TypeOK, Rows, disk, writers
<1>6. WriterInv'
  BY <1>2, WriterFrame DEF disk
<1>7. RowOwner'
  BY <1>1, <1>2, <1>3, RowOwnerFrame DEF writers
<1>8. CleanerInv'
  <2> SUFFICES ASSUME NEW d \in Cleaners PROVE Knows(d)'
    BY DEF CleanerInv
  <2>1. Knows(d)
    BY DEF IInv, CleanerInv
  <2>2. \A b \in Artifacts : row[b] # "none" => row'[b] # "none"
    BY <1>1
  <2>3. CASE d = c
    BY <2>3, <1>1, <1>2, <1>3 DEF Knows, IsGone, IInv, TypeOK, disk
  <2>4. CASE d # c
    BY <2>1, <2>2, <2>4, <1>1, <1>2 DEF Knows, IsGone, IInv, TypeOK, disk
  <2> QED
    BY <2>3, <2>4
<1>9. OtherInv' /\ ContentIsKept' /\ SettledIsTrue'
  BY <1>1, <1>2, <1>3 DEF IInv, OtherInv, ContentIsKept, SettledIsTrue, Stands, disk
<1> QED
  BY <1>5, <1>6, <1>7, <1>8, <1>9 DEF IInv

\* What a command sees of its next file is what Knows promises of it.
LEMMA InspectStep ==
  ASSUME IInv, NEW c \in Cleaners, Inspect(c) \/ DeleteFails(c)
  PROVE  IInv'
<1>1. /\ UNCHANGED <<batch, disk, rows, expired, writers>>
      /\ faults' \in 0..MaxFaults
      /\ cur' \in [Cleaners -> Artifacts \cup {None}]
      /\ pc' \in [Cleaners ->
            {"idle", "next", "unlink", "sync", "finalize", "retry", "quarantine"}]
      /\ \A d \in Cleaners : d # c => pc'[d] = pc[d] /\ cur'[d] = cur[d]
  <2>1. CASE Inspect(c)
    <3>1. PICK b \in batch[c] :
            /\ cur' = [cur EXCEPT ![c] = b]
            /\ pc' = [pc EXCEPT ![c] = CASE file[b] = "absent" -> "sync"
                                         [] file[b] = "other" -> "quarantine"
                                         [] OTHER -> "unlink"]
      BY <2>1 DEF Inspect
    <3> QED
      BY <2>1, <3>1 DEF Inspect, IInv, TypeOK
  <2>2. CASE DeleteFails(c)
    <3>1. faults' \in 0..MaxFaults
      BY <2>2, CleanupAssumption DEF DeleteFails, IInv, TypeOK
    <3>2. CASE cur' = cur
      BY <2>2, <3>1, <3>2 DEF DeleteFails, IInv, TypeOK
    <3>3. CASE \E b \in batch[c] : cur' = [cur EXCEPT ![c] = b]
      <4>1. PICK b \in batch[c] : cur' = [cur EXCEPT ![c] = b]
        BY <3>3
      <4> QED
        BY <2>2, <3>1, <4>1 DEF DeleteFails, IInv, TypeOK
    <3> QED
      BY <2>2, <3>2, <3>3 DEF DeleteFails
  <2> QED
    BY <2>1, <2>2
<1>2. TypeOK'
  BY <1>1 DEF IInv, TypeOK, disk, rows, writers
<1>3. WriterInv' /\ RowOwner'
  BY <1>1, WriterFrame, RowOwnerFrame DEF disk, rows, writers
<1>4. Knows(c)'
  <2>1. CASE Inspect(c)
    BY <1>1, <2>1 DEF Inspect, Knows, IsGone, IInv, TypeOK, CleanerInv, OtherInv, disk, rows
  <2>2. CASE DeleteFails(c)
    BY <1>1, <2>2 DEF DeleteFails, Knows, IsGone, IInv, TypeOK, CleanerInv, disk, rows
  <2> QED
    BY <2>1, <2>2
<1>5. CleanerInv'
  BY <1>1, <1>4 DEF IInv, CleanerInv, Knows, IsGone, disk, rows
<1> QED
  BY <1>1, <1>2, <1>3, <1>5 DEF IInv, OtherInv, ContentIsKept, SettledIsTrue, Stands, disk, rows

\* A removal and its sync touch one expired file, whatever rivals know of it.
LEMMA DeleteStep ==
  ASSUME IInv, NEW c \in Cleaners, Remove(c) \/ SyncRemoval(c)
  PROVE  IInv'
<1> DEFINE a == cur[c]
<1>1. /\ a \in Artifacts
      /\ expired[a]
      /\ row[a] # "none"
      /\ file[a] # "other"
  BY DEF Remove, SyncRemoval, IInv, CleanerInv, Knows, IsGone, TypeOK
<1>2. /\ UNCHANGED <<batch, cur, rows, expired, writers, directorySync, faults>>
      /\ file'[a] = "absent"
      /\ IsGone(a) => IsGone(a)'
      /\ pc'[c] = "finalize" => IsGone(a)'
      /\ pc'[c] \in {"sync", "finalize"}
      /\ \A b \in Artifacts : b # a => file'[b] = file[b] /\ onDisk'[b] = onDisk[b]
      /\ \A d \in Cleaners : d # c => pc'[d] = pc[d]
  <2>1. CASE Remove(c)
    BY <1>1, <2>1 DEF Remove, IInv, TypeOK, IsGone
  <2>2. CASE SyncRemoval(c)
    <3>1. file[a] = "absent"
      BY <2>2 DEF SyncRemoval, IInv, CleanerInv, Knows, IsGone
    <3> QED
      BY <1>1, <2>2, <3>1 DEF SyncRemoval, IInv, TypeOK, IsGone, syncDirectoryChain, directorySyncResult
  <2> QED
    BY <2>1, <2>2
<1>3. TypeOK'
  BY <1>1 DEF Remove, SyncRemoval, IInv, TypeOK, Contents, syncDirectoryChain, rows, writers
<1>4. WriterInv' /\ RowOwner'
  BY <1>1, <1>2, WriterFrame, RowOwnerFrame DEF rows, writers
<1>5. CleanerInv'
  <2> SUFFICES ASSUME NEW d \in Cleaners PROVE Knows(d)'
    BY DEF CleanerInv
  <2>1. Knows(d) /\ Knows(c)
    BY DEF IInv, CleanerInv
  <2>2. cur[d] \in Artifacts \cup {None}
    BY DEF IInv, TypeOK
  <2>3. CASE d = c
    BY <2>1, <2>3, <1>1, <1>2 DEF Knows, IsGone, rows, Remove, SyncRemoval
  <2>4. CASE d # c /\ cur[d] = a
    BY <2>1, <2>4, <1>1, <1>2 DEF Knows, IsGone, rows
  <2>5. CASE d # c /\ cur[d] # a
    <3>1. pc[d] \notin {"idle", "next"} => cur[d] \in Artifacts
      BY <2>1 DEF Knows, IsGone, IInv, TypeOK
    <3> QED
      BY <2>1, <2>5, <3>1, <1>2 DEF Knows, IsGone, rows
  <2> QED
    BY <2>3, <2>4, <2>5
<1>6. OtherInv' /\ ContentIsKept' /\ SettledIsTrue'
  BY <1>1, <1>2 DEF IInv, OtherInv, ContentIsKept, SettledIsTrue, Stands, IsGone, rows
<1> QED
  BY <1>3, <1>4, <1>5, <1>6 DEF IInv

\* A settling statement changes the row of the current artifact, and only
\* under the claim.
LEMMA SettleStep ==
  ASSUME IInv, NEW c \in Cleaners,
         \/ FinalizeArtifactCleanup(c)
         \/ RecordArtifactCleanupRetry(c)
         \/ QuarantineArtifactCleanup(c)
  PROVE  /\ IInv'
         /\ \A a \in Artifacts : row[a] \in Settled => row'[a] = row[a]
<1> DEFINE a == cur[c]
<1>1. /\ a \in Artifacts
      /\ a \in batch[c]
      /\ expired[a]
      /\ row[a] # "none"
      /\ UNCHANGED <<disk, expired, writers, faults>>
      /\ NextClaim(c)
  BY DEF FinalizeArtifactCleanup, RecordArtifactCleanupRetry, QuarantineArtifactCleanup,
       IInv, CleanerInv, Knows, IsGone, TypeOK
<1>2. PICK state \in {"CONTENT_DELETED", "RETRY_WAIT", "QUARANTINED"} :
        /\ Settle(c, state)
        /\ state = "CONTENT_DELETED" => file[a] = "absent" /\ IsGone(a)
        /\ state = "QUARANTINED" => file[a] = "other" /\ onDisk[a] = {"other"}
  BY DEF FinalizeArtifactCleanup, RecordArtifactCleanupRetry, QuarantineArtifactCleanup,
       IInv, CleanerInv, Knows
<1>3. /\ \A b \in Artifacts : b # a => row'[b] = row[b]
      /\ row'[a] = row[a] \/ (row[a] = "CLAIMED" /\ row'[a] = state)
  BY <1>1, <1>2, CleanupAssumption DEF Settle, Owns, IInv, TypeOK, rows
<1>4. TypeOK'
  <2>1. /\ row' \in [Artifacts -> Rows]
        /\ token' \in [Artifacts -> Cleaners \cup {None}]
        /\ elapsed' \in [Artifacts -> BOOLEAN]
        /\ \A b \in Artifacts : token'[b] # None <=> row'[b] = "CLAIMED"
    <3>1. CASE Owns(c)
      <4>1. /\ row' = [row EXCEPT ![a] = state]
            /\ token' = [token EXCEPT ![a] = None]
            /\ elapsed' = [elapsed EXCEPT ![a] = FALSE]
        BY <1>2, <3>1 DEF Settle
      <4>2. state \in Rows /\ state # "CLAIMED"
        BY DEF Rows, Settled
      <4>3. elapsed' \in [Artifacts -> BOOLEAN]
        BY <4>1 DEF IInv, TypeOK
      <4> HIDE DEF a
      <4> QED
        BY <1>1, <4>1, <4>2, <4>3 DEF IInv, TypeOK
    <3>2. CASE ~Owns(c)
      BY <1>2, <3>2 DEF Settle, IInv, TypeOK, rows
    <3> QED
      BY <3>1, <3>2
  <2>2. /\ pc' \in [Cleaners ->
              {"idle", "next", "unlink", "sync", "finalize", "retry", "quarantine"}]
        /\ batch' \in [Cleaners -> SUBSET Artifacts]
        /\ cur' \in [Cleaners -> Artifacts \cup {None}]
    BY <1>1 DEF NextClaim, IInv, TypeOK
  <2> QED
    BY <1>1, <2>1, <2>2 DEF IInv, TypeOK, disk, writers
<1>5. WriterInv'
  BY <1>1, WriterFrame DEF disk
<1>6. RowOwner'
  BY <1>1, <1>3, RowOwnerFrame DEF writers
<1>7. CleanerInv'
  <2> SUFFICES ASSUME NEW d \in Cleaners PROVE Knows(d)'
    BY DEF CleanerInv
  <2>1. Knows(d)
    BY DEF IInv, CleanerInv
  <2>2. \A b \in Artifacts : row[b] # "none" => row'[b] # "none"
    BY <1>3
  <2>3. CASE d = c
    BY <2>1, <2>2, <2>3, <1>1 DEF Knows, IsGone, NextClaim, IInv, TypeOK
  <2>4. CASE d # c
    <3>1. pc'[d] = pc[d] /\ batch'[d] = batch[d] /\ cur'[d] = cur[d]
      BY <2>4, <1>1 DEF NextClaim, IInv, TypeOK
    <3>2. \A b \in batch[d] : b \in Artifacts
      BY DEF IInv, TypeOK
    <3> QED
      BY <2>1, <2>2, <3>1, <3>2, <1>1 DEF Knows, IsGone, disk
  <2> QED
    BY <2>3, <2>4
<1>8. OtherInv' /\ ContentIsKept'
  BY <1>1, <1>3 DEF IInv, OtherInv, ContentIsKept, Stands, disk
<1>9. SettledIsTrue'
  BY <1>1, <1>2, <1>3 DEF IInv, SettledIsTrue, Stands, IsGone, disk
<1> QED
  BY <1>3, <1>4, <1>5, <1>6, <1>7, <1>8, <1>9 DEF IInv, Settled

\* A command that dies leaves its claims and its file as they are.
LEMMA AbortBatchStep ==
  ASSUME IInv, NEW c \in Cleaners, AbortBatch(c)
  PROVE  IInv'
<1>1. /\ UNCHANGED <<disk, rows, expired, writers>>
      /\ pc'[c] = "idle" /\ batch'[c] = {}
      /\ \A d \in Cleaners : d # c => pc'[d] = pc[d] /\ batch'[d] = batch[d] /\ cur'[d] = cur[d]
  BY DEF AbortBatch, IInv, TypeOK
<1>2. TypeOK'
  BY CleanupAssumption DEF AbortBatch, IInv, TypeOK, disk, rows, writers
<1>3. WriterInv' /\ RowOwner'
  BY <1>1, WriterFrame, RowOwnerFrame DEF disk, rows, writers
<1>4. CleanerInv'
  BY <1>1 DEF IInv, CleanerInv, Knows, IsGone, disk, rows
<1> QED
  BY <1>1, <1>2, <1>3, <1>4 DEF IInv, OtherInv, ContentIsKept, SettledIsTrue, Stands, disk, rows

\* After a power loss each file is in one of the states its disk held.
LEMMA PowerLossStep ==
  ASSUME IInv, PowerLoss
  PROVE  IInv'
<1>1. \A a \in Artifacts :
        file'[a] \in onDisk[a] /\ onDisk'[a] = {file'[a]} /\ file'[a] \in Contents
  BY DEF PowerLoss
<1>2. /\ UNCHANGED <<rows, expired, directorySync>>
      /\ \A r \in Results : put[r] = "done" => put'[r] = "done"
      /\ \A r \in Results : ~Active(r)'
      /\ \A r \in Results : nth'[r] = nth[r]
      /\ \A c \in Cleaners : pc'[c] = "idle" /\ batch'[c] = {}
  BY DEF PowerLoss, Active
<1>3. TypeOK'
  BY CleanupAssumption DEF PowerLoss, IInv, TypeOK, rows
<1>4. WriterInv'
  BY <1>2 DEF IInv, WriterInv
<1>5. RowOwner'
  BY <1>2, RowOwnerFrame DEF rows
<1>6. CleanerInv'
  BY <1>2 DEF CleanerInv, Knows, IsGone
<1>7. OtherInv' /\ ContentIsKept' /\ SettledIsTrue'
  BY <1>1, <1>2 DEF IInv, OtherInv, ContentIsKept, SettledIsTrue, Stands, Contents, rows
<1> QED
  BY <1>3, <1>4, <1>5, <1>6, <1>7 DEF IInv

\* An unexpected entry appears under a row that is not settled and that no
\* command handles.
LEMMA ReplaceStep ==
  ASSUME IInv, NEW a \in Artifacts, Replace(a)
  PROVE  IInv'
<1>1. /\ UNCHANGED <<rows, expired, writers, cleaners, directorySync>>
      /\ row[a] \notin Settled \cup {"none"}
      /\ \A c \in Cleaners : cur[c] # a
      /\ file'[a] = "other" /\ onDisk'[a] = {"other"}
      /\ \A b \in Artifacts : b # a => file'[b] = file[b] /\ onDisk'[b] = onDisk[b]
  BY DEF Replace, IInv, TypeOK
<1>2. TypeOK'
  BY CleanupAssumption DEF Replace, IInv, TypeOK, Contents, rows, writers, cleaners
<1>3. WriterInv' /\ RowOwner'
  BY <1>1, WriterFrame, RowOwnerFrame DEF rows, writers
<1>4. CleanerInv'
  <2> SUFFICES ASSUME NEW d \in Cleaners PROVE Knows(d)'
    BY DEF CleanerInv
  <2>1. Knows(d) /\ batch[d] \in SUBSET Artifacts
    BY DEF IInv, CleanerInv, TypeOK
  <2> QED
    BY <2>1, <1>1 DEF Knows, IsGone, rows, cleaners
<1>5. OtherInv' /\ ContentIsKept' /\ SettledIsTrue'
  BY <1>1 DEF IInv, OtherInv, ContentIsKept, SettledIsTrue, Stands, Settled, rows
<1> QED
  BY <1>2, <1>3, <1>4, <1>5 DEF IInv

\* The invariant is inductive.
THEOREM NextInv == IInv /\ [Next]_vars => IInv'
<1> SUFFICES ASSUME IInv, [Next]_vars PROVE IInv'
  OBVIOUS
<1>1. ASSUME NEW r \in Results, WriterStep(r) \/ AbortResult(r) PROVE IInv'
  BY <1>1, PutStep, CommitStep, AbortStep DEF WriterStep
<1>2. ASSUME NEW a \in Artifacts, Expire(a) \/ Elapse(a) \/ Replace(a) PROVE IInv'
  BY <1>2, TimeStep, ReplaceStep
<1>3. ASSUME NEW c \in Cleaners, CleanerStep(c) \/ DeleteFails(c) \/ AbortBatch(c) PROVE IInv'
  BY <1>3, ClaimStep, InspectStep, DeleteStep, SettleStep, AbortBatchStep DEF CleanerStep
<1>4. CASE UNCHANGED vars
  <2>1. UNCHANGED <<file, onDisk, directorySync, row, token, elapsed, expired, put, nth, pc, batch, cur, faults>>
    BY <1>4 DEF vars, disk, rows, writers, cleaners
  <2>2. TypeOK'
    BY <2>1 DEF IInv, TypeOK
  <2>3. WriterInv' /\ RowOwner'
    BY <2>1, WriterFrame, RowOwnerFrame DEF writers
  <2> QED
    BY <2>1, <2>2, <2>3 DEF IInv, CleanerInv, Knows, IsGone, OtherInv, ContentIsKept, SettledIsTrue, Stands
<1> QED
  BY <1>1, <1>2, <1>3, <1>4, PowerLossStep DEF Next

-----------------------------------------------------------------------------

\* The invariant holds in every reachable state.
THEOREM AlwaysInv == Spec => []IInv
BY InitInv, NextInv, PTL DEF Spec

\* Type correctness and the shape of the rows, for any number of results,
\* artifacts, commands and faults.
THEOREM CleanupTypeCorrect == Spec => []TypeOK
<1>1. IInv => TypeOK
  BY DEF IInv
<1> QED
  BY <1>1, AlwaysInv, PTL

\* The content of a committed artifact is whole until it expires, and no
\* power loss takes it where directories are synced, or cuts it short where
\* they are not: the writer syncs content and path before the commit, and a
\* command unlinks only what it claimed as expired.
THEOREM CommittedContentIsKept == Spec => []ContentIsKept
<1>1. IInv => ContentIsKept
  BY DEF IInv
<1> QED
  BY <1>1, AlwaysInv, PTL

\* A tombstone is never a lie: the command that writes it has seen or made
\* the file absent and has synced the absence itself, even when a rival did
\* the unlink; without a sync of directories it is true until power is lost.
THEOREM TombstonesAreTrue == Spec => []SettledIsTrue
<1>1. IInv => SettledIsTrue
  BY DEF IInv
<1> QED
  BY <1>1, AlwaysInv, PTL

\* A settled row never changes: every statement that could change it needs
\* the token that settling clears.
THEOREM SettledStaysFinal == Spec => SettledIsFinal
<1> DEFINE Final == \A a \in Artifacts : row[a] \in Settled => row'[a] = row[a]
<1>1. ASSUME IInv, [Next]_vars PROVE [Final]_vars
  <2> SUFFICES ASSUME Next PROVE Final
    BY <1>1
  <2>1. ASSUME NEW r \in Results, WriterStep(r) \/ AbortResult(r) PROVE Final
    <3>1. CASE CommitResult(r)
      <4>1. Active(r)
        BY <3>1 DEF CommitResult, Active
      <4>2. \A i \in 1..Len(Files[r]) : row[Files[r][i]] = "none"
        BY <4>1, <1>1, ActiveHasNoRows
      <4> QED
        BY <3>1, <4>2 DEF CommitResult, Settled
    <3> QED
      BY <2>1, <3>1 DEF WriterStep, CreateContent, WriteContent, SyncContent, SyncPath,
           AbortResult, rows
  <2>2. ASSUME NEW a \in Artifacts, Expire(a) \/ Elapse(a) \/ Replace(a) PROVE Final
    BY <2>2 DEF Expire, Elapse, Replace, rows
  <2>3. ASSUME NEW c \in Cleaners, CleanerStep(c) \/ DeleteFails(c) \/ AbortBatch(c) PROVE Final
    <3>1. CASE ClaimExpiredArtifacts(c)
      BY <3>1 DEF ClaimExpiredArtifacts, Eligible, Settled
    <3>2. CASE \/ FinalizeArtifactCleanup(c)
               \/ RecordArtifactCleanupRetry(c)
               \/ QuarantineArtifactCleanup(c)
      BY <3>2, <1>1, SettleStep
    <3> QED
      BY <2>3, <3>1, <3>2 DEF CleanerStep, Inspect, Remove, SyncRemoval, DeleteFails,
           AbortBatch, rows
  <2>4. CASE PowerLoss
    BY <2>4 DEF PowerLoss, rows
  <2> QED
    BY <2>1, <2>2, <2>3, <2>4 DEF Next
<1> QED
  BY <1>1, AlwaysInv, PTL DEF Spec, SettledIsFinal
=============================================================================
