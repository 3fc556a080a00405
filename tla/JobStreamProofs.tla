--------------------------- MODULE JobStreamProofs ---------------------------
(***************************************************************************)
(* Jobs are kept and called once, for every number of jobs, workers, pumps *)
(* and faults.  The attempt in the step row is the fence: whoever took it  *)
(* is the only one to call the provider or to store its result, and until  *)
(* it has been taken nothing is known of the step.                         *)
(***************************************************************************)
EXTENDS JobStream, TLAPS

Causes == {"ownership", "permanent", "temporary", "persistence"}

\* IDs are taken in order; what is in the stream has a payload.
EntriesFit ==
  \A m \in Entries : /\ payload[m] # None => m <= last
                     /\ state[m] \in {"new", "pending"} => payload[m] # None

LettersFit ==
  /\ \A d \in dead : d.id <= last
  /\ \A d, e \in dead : d.id = e.id => d = e
  /\ revived # None => revived <= last

\* The worker has taken the attempt of its job and not stored a result.
Owns(w) == pc[w] \in {"call", "store"}

WorkerFits(w) ==
  /\ \A m \in batch[w] : payload[m] # None
  /\ hand[w] # None => payload[hand[w]] # None
  /\ Owns(w) => allocated[Job(w)] = 1 /\ step[Job(w)] = "running"
  /\ pc[w] = "call" => calls[Job(w)] = 0
  /\ pc[w] = "store" => calls[Job(w)] = 1 /\ outcome[w] \in {"ok", "temporary", "permanent"}
  /\ pc[w] = "ack" => step[Job(w)] = "succeeded"
  /\ pc[w] = "fail" => outcome[w] \in Causes

OneOwner == \A v, w \in Workers : Owns(v) /\ Owns(w) /\ Job(v) = Job(w) => v = w

CallsFit ==
  \A j \in Jobs : calls[j] <= allocated[j] /\ (allocated[j] = 0 => step[j] = "running")

\* The dead letters the operator's command is not about to delete.
Lasting == {d \in dead : d.id # revived}

Kept(j) ==
  \/ step[j] = "succeeded"
  \/ InStream(j)
  \/ \E r \in retry : r.job = j
  \/ \E d \in Lasting : d.job = j

NoneLost == \A j \in Jobs : Dispatched(j) => Kept(j)

IInv ==
  /\ TypeOK
  /\ EntriesFit /\ LettersFit
  /\ (\A w \in Workers : WorkerFits(w)) /\ OneOwner
  /\ CallsFit /\ AckMeansStored
  /\ NoneLost

-----------------------------------------------------------------------------
(* What the steps have in common.                                          *)

\* Types, apart: the step rows, the streams, the workers, the rest.
DatabaseType == step \in [Jobs -> StepStatus] /\ allocated \in [Jobs -> 0..1] /\ calls \in [Jobs -> Nat]

EntriesType ==
  /\ last \in 0..MaxEntries
  /\ payload \in [Entries -> Payload \cup {None}]
  /\ state \in [Entries -> {"unused", "new", "pending", "gone"}]
  /\ idle \in [Entries -> BOOLEAN]

WorkerType ==
  /\ pc \in [Workers -> {"idle", "next", "check", "alloc", "call", "store", "ack", "fail"}]
  /\ batch \in [Workers -> SUBSET Entries]
  /\ hand \in [Workers -> Entries \cup {None}]
  /\ outcome \in [Workers -> Outcomes]
  /\ \A w \in Workers : hand[w] = None <=> pc[w] \in {"idle", "next"}

RestType ==
  /\ retry \subseteq Retry
  /\ dead \subseteq Letter
  /\ results \subseteq Jobs
  /\ pumping \in [Pumps -> SUBSET Retry]
  /\ revived \in Entries \cup {None}
  /\ revivals \in 0..MaxRevivals
  /\ faults \in 0..MaxFaults

\* Together they are the type invariant.
LEMMA Types == TypeOK <=> DatabaseType /\ EntriesType /\ WorkerType /\ RestType
BY DEF TypeOK, DatabaseType, EntriesType, WorkerType, RestType

\* A payload is none or a job and its retry count.
LEMMA Payloads ==
  ASSUME TypeOK, NEW m \in Entries, payload[m] # None
  PROVE  payload[m] \in Payload /\ payload[m].job \in Jobs /\ payload[m].attempt \in 0..MaxRetries
BY DEF TypeOK, Payload

\* The job of a worker that has a delivery in hand.
LEMMA JobInHand ==
  ASSUME IInv, NEW w \in Workers, pc[w] \notin {"idle", "next"}
  PROVE  /\ hand[w] \in Entries /\ payload[hand[w]] # None /\ Job(w) \in Jobs
         /\ payload[hand[w]].attempt \in 0..MaxRetries
<1>1. hand[w] \in Entries /\ hand[w] # None /\ payload[hand[w]] # None
  BY DEF IInv, TypeOK, WorkerFits
<1> QED
  BY <1>1, Payloads DEF IInv, Job

\* What an entry holds is never overwritten.
PayloadsKept == \A m \in Entries : payload[m] # None => payload'[m] = payload[m]

\* No worker moves, and the database is as it was.
LEMMA WorkersKept ==
  ASSUME IInv, UNCHANGED <<database, worker>>, PayloadsKept, None \notin Payload
  PROVE  /\ WorkerType' /\ DatabaseType' /\ \A w \in Workers : WorkerFits(w)'
         /\ OneOwner' /\ CallsFit'
<1>1. WorkerType' /\ DatabaseType' /\ CallsFit'
  BY Types DEF IInv, WorkerType, DatabaseType, CallsFit, database, worker
<1>2. \A m \in Entries : payload[m] # None => payload'[m] # None
  BY DEF PayloadsKept
<1>3. ASSUME NEW w \in Workers PROVE WorkerFits(w)' /\ Owns(w)' = Owns(w) /\ (Owns(w) => Job(w)' = Job(w))
  <2>1. /\ batch[w] \subseteq Entries /\ hand[w] \in Entries \cup {None}
        /\ pc[w] \notin {"idle", "next"} => hand[w] # None /\ payload[hand[w]] # None
        /\ WorkerFits(w)
    BY DEF IInv, TypeOK, WorkerFits
  <2>2. pc[w] \notin {"idle", "next"} => Job(w)' = Job(w)
    BY <2>1 DEF Job, PayloadsKept, worker
  <2>3. Owns(w)' = Owns(w) /\ (Owns(w) => Job(w)' = Job(w))
    BY <2>2 DEF Owns, worker
  <2>4. WorkerFits(w)'
    BY <1>2, <2>1, <2>2, <2>3 DEF WorkerFits, Owns, worker, database
  <2> QED
    BY <2>3, <2>4
<1>4. OneOwner'
  BY <1>3 DEF IInv, OneOwner
<1> QED
  BY <1>1, <1>3, <1>4

\* None is no payload.
LEMMA NoneIsNoPayload == None \notin Payload
BY JobStreamAssumption DEF Payload

\* XADD: the entry is new, and the job is in the stream.
LEMMA AddFits ==
  ASSUME IInv, NEW j \in Jobs, NEW n \in 0..MaxRetries, Add(j, n)
  PROVE  /\ EntriesType' /\ EntriesFit' /\ PayloadsKept /\ last' >= last
         /\ InStream(j)'
         /\ \A i \in Jobs : InStream(i) => InStream(i)'
         /\ \A i \in Jobs : Dispatched(i)' => Dispatched(i) \/ i = j
<1> DEFINE p == [job |-> j, attempt |-> n]
           k == last + 1
<1>1. /\ last < MaxEntries /\ last' = k /\ payload' = [payload EXCEPT ![k] = p]
      /\ state' = [state EXCEPT ![k] = "new"] /\ idle' = idle
  BY DEF Add
<1>2. p \in Payload /\ p # None /\ p.job = j
  BY NoneIsNoPayload DEF Payload
<1>3. EntriesType
  BY Types DEF IInv
<1>4. last \in 0..MaxEntries /\ MaxEntries \in Nat
  BY <1>3, JobStreamAssumption DEF EntriesType
<1>5. k \in Entries /\ k \in 0..MaxEntries
  BY <1>1, <1>4 DEF Entries
<1> HIDE DEF p
<1>6. EntriesType'
  BY <1>1, <1>2, <1>3, <1>5 DEF EntriesType
<1>7. /\ payload'[k] = p /\ state'[k] = "new"
      /\ \A m \in Entries \ {k} : payload'[m] = payload[m] /\ state'[m] = state[m]
  BY <1>1, <1>3, <1>5 DEF EntriesType
<1>8. \A m \in Entries : (payload[m] # None => m <= last) /\ m \in Nat
  BY <1>4 DEF IInv, EntriesFit, Entries
<1>9. \A m \in Entries : payload[m] # None => m # k
  BY <1>4, <1>8
<1>10. PayloadsKept
  BY <1>7, <1>9 DEF PayloadsKept
<1>11. EntriesFit'
  BY <1>1, <1>2, <1>4, <1>7, <1>8 DEF IInv, EntriesFit
<1>12. InStream(j)'
  BY <1>2, <1>5, <1>7 DEF InStream
<1>13. \A i \in Jobs : InStream(i) => InStream(i)'
  BY <1>7, <1>9 DEF InStream, IInv, EntriesFit
<1>14. \A i \in Jobs : Dispatched(i)' => Dispatched(i) \/ i = j
  BY <1>2, <1>7 DEF Dispatched
<1> QED
  BY <1>1, <1>4, <1>6, <1>10, <1>11, <1>12, <1>13, <1>14

\* XACK and XDEL: only the job of the entry may have left the stream.
LEMMA DropFits ==
  ASSUME IInv, NEW m \in Entries, Drop(m), payload' = payload, last' \in 0..MaxEntries, last' >= last
  PROVE  /\ EntriesType' /\ EntriesFit' /\ PayloadsKept
         /\ \A i \in Jobs : InStream(i) => InStream(i)' \/ payload[m].job = i
         /\ \A i \in Jobs : Dispatched(i)' = Dispatched(i)
<1>1. state' = [state EXCEPT ![m] = "gone"] /\ idle' = [idle EXCEPT ![m] = FALSE]
  BY DEF Drop
<1>2. EntriesType /\ last \in Int /\ \A k \in Entries : k \in Int
  BY Types, JobStreamAssumption DEF IInv, EntriesType, Entries
<1>3. /\ state'[m] = "gone" /\ \A k \in Entries \ {m} : state'[k] = state[k]
      /\ state' \in [Entries -> {"unused", "new", "pending", "gone"}]
      /\ idle' \in [Entries -> BOOLEAN]
  BY <1>1, <1>2 DEF EntriesType
<1>4. EntriesType'
  BY <1>2, <1>3 DEF EntriesType
<1>5. EntriesFit'
  <2>1. \A k \in Entries : payload'[k] # None => k <= last'
    BY <1>2 DEF IInv, EntriesFit
  <2>2. \A k \in Entries : state'[k] \in {"new", "pending"} => payload'[k] # None
    BY <1>3 DEF IInv, EntriesFit
  <2> QED
    BY <2>1, <2>2 DEF EntriesFit
<1> QED
  BY <1>3, <1>4, <1>5 DEF PayloadsKept, InStream, Dispatched
-----------------------------------------------------------------------------
(* The stream, the pumps and the operator.                                 *)

\* Neither a worker nor the database moves.
LEMMA StreamInv ==
  ASSUME IInv, UNCHANGED <<database, worker, results>>, PayloadsKept,
         EntriesType', RestType', EntriesFit', LettersFit', NoneLost'
  PROVE  IInv'
<1>1. /\ WorkerType' /\ DatabaseType' /\ \A w \in Workers : WorkerFits(w)'
      /\ OneOwner' /\ CallsFit'
  BY NoneIsNoPayload, WorkersKept
<1>2. TypeOK'
  BY <1>1 DEF TypeOK, DatabaseType, EntriesType, WorkerType, RestType
<1>3. AckMeansStored'
  BY DEF IInv, AckMeansStored, database
<1> QED
  BY <1>1, <1>2, <1>3 DEF IInv

\* The letters' IDs are old when the newest ID grows.
LEMMA LettersKept ==
  ASSUME IInv, UNCHANGED <<dead, revived>>, last' \in Int, last' >= last
  PROVE  LettersFit'
<1>1. last \in Int /\ \A d \in dead : d.id \in Int
  BY JobStreamAssumption DEF IInv, TypeOK, Letter, Entries
<1>2. revived # None => revived \in Int
  BY JobStreamAssumption DEF IInv, TypeOK, Entries
<1> QED
  BY <1>1, <1>2 DEF IInv, LettersFit

\* A job is dispatched.
LEMMA EnqueueInv ==
  ASSUME IInv, NEW j \in Jobs, Enqueue(j)
  PROVE  IInv'
<1>1. Add(j, 0) /\ UNCHANGED <<database, retry, dead, results, worker, pumping, operator, faults>>
  BY DEF Enqueue
<1>2. 0 \in 0..MaxRetries
  BY JobStreamAssumption
<1>3. /\ EntriesType' /\ EntriesFit' /\ PayloadsKept /\ last' >= last
      /\ InStream(j)' /\ \A i \in Jobs : InStream(i) => InStream(i)'
      /\ \A i \in Jobs : Dispatched(i)' => Dispatched(i) \/ i = j
  BY <1>1, <1>2, AddFits
<1>4. RestType'
  BY <1>1, Types DEF IInv, RestType, operator
<1>5. LettersFit'
  BY <1>1, <1>3, LettersKept, JobStreamAssumption DEF operator, EntriesType
<1>6. NoneLost'
  <2>1. UNCHANGED <<step, retry, Lasting>>
    BY <1>1 DEF database, operator, Lasting
  <2>2. ASSUME NEW i \in Jobs, Dispatched(i)' PROVE Kept(i)'
    BY <1>3, <2>1, <2>2 DEF IInv, NoneLost, Kept
  <2> QED
    BY <2>2 DEF NoneLost
<1> QED
  BY <1>1, <1>3, <1>4, <1>5, <1>6, StreamInv

\* Time passes over a delivery.
LEMMA AgeInv ==
  ASSUME IInv, NEW m \in Entries, Age(m)
  PROVE  IInv'
<1>1. /\ idle' = [idle EXCEPT ![m] = TRUE]
      /\ UNCHANGED <<database, last, payload, state, retry, dead, results, worker, pumping, operator>>
  BY DEF Age
<1>2. faults' \in 0..MaxFaults
  BY JobStreamAssumption DEF Age, IInv, TypeOK
<1>3. EntriesType' /\ RestType'
  BY <1>1, <1>2, Types DEF IInv, EntriesType, RestType, operator
<1>4. EntriesFit' /\ LettersFit' /\ PayloadsKept
  BY <1>1 DEF IInv, EntriesFit, LettersFit, PayloadsKept, operator
<1>5. NoneLost'
  BY <1>1 DEF IInv, NoneLost, Dispatched, Kept, InStream, Lasting, database, operator
<1> QED
  BY <1>1, <1>3, <1>4, <1>5, StreamInv

\* A pump reads what is due.
LEMMA PumpReadInv ==
  ASSUME IInv, NEW p \in Pumps, PumpRead(p)
  PROVE  IInv'
<1>1. PICK due \in SUBSET retry : pumping' = [pumping EXCEPT ![p] = due]
  BY DEF PumpRead
<1>2. UNCHANGED <<database, redis, worker, operator, faults>>
  BY DEF PumpRead
<1>3. pumping' \in [Pumps -> SUBSET Retry]
  BY <1>1 DEF IInv, TypeOK
<1>4. EntriesType' /\ RestType'
  BY <1>2, <1>3, Types DEF IInv, EntriesType, RestType, redis, entries, operator
<1>5. EntriesFit' /\ LettersFit' /\ PayloadsKept
  BY <1>2 DEF IInv, EntriesFit, LettersFit, PayloadsKept, redis, entries, operator
<1>6. NoneLost'
  BY <1>2 DEF IInv, NoneLost, Dispatched, Kept, InStream, Lasting, database, redis, entries, operator
<1>7. UNCHANGED <<database, worker, results>>
  BY <1>2 DEF redis
<1> QED
  BY <1>4, <1>5, <1>6, <1>7, StreamInv

\* A retry moves to the stream, a second time perhaps.
LEMMA PumpMoveInv ==
  ASSUME IInv, NEW p \in Pumps, PumpMove(p)
  PROVE  IInv'
<1>1. PICK r \in pumping[p] :
        /\ Add(r.job, r.attempt) /\ retry' = retry \ {r}
        /\ pumping' = [pumping EXCEPT ![p] = pumping[p] \ {r}]
  BY DEF PumpMove
<1>2. UNCHANGED <<database, dead, results, worker, operator, faults>>
  BY DEF PumpMove
<1>3. r \in Retry /\ r.job \in Jobs /\ r.attempt \in 0..MaxRetries
  BY JobStreamAssumption DEF IInv, TypeOK, Retry
<1>4. /\ EntriesType' /\ EntriesFit' /\ PayloadsKept /\ last' >= last
      /\ InStream(r.job)' /\ \A i \in Jobs : InStream(i) => InStream(i)'
      /\ \A i \in Jobs : Dispatched(i)' => Dispatched(i) \/ i = r.job
  BY <1>1, <1>3, AddFits
<1>5. RestType'
  <2>1. pumping' \in [Pumps -> SUBSET Retry] /\ retry' \subseteq Retry
    BY <1>1 DEF IInv, TypeOK
  <2> QED
    BY <1>2, <2>1, Types DEF IInv, RestType, operator
<1>6. LettersFit'
  BY <1>2, <1>4, LettersKept, JobStreamAssumption DEF operator, EntriesType
<1>7. NoneLost'
  <2>1. UNCHANGED <<step, Lasting>>
    BY <1>2 DEF database, operator, Lasting
  <2>2. ASSUME NEW i \in Jobs, Dispatched(i)' PROVE Kept(i)'
    BY <1>1, <1>4, <2>1, <2>2 DEF IInv, NoneLost, Kept
  <2> QED
    BY <2>2 DEF NoneLost
<1> QED
  BY <1>2, <1>4, <1>5, <1>6, <1>7, StreamInv

\* The job of a dead letter is in the stream before the letter is deleted.
LEMMA ReviveInv ==
  ASSUME IInv, Revive
  PROVE  IInv'
<1>1. PICK d \in dead : Add(d.job, 0) /\ revived' = d.id
  BY DEF Revive
<1>2. /\ revivals < MaxRevivals /\ revivals' = revivals + 1 /\ revived = None
      /\ UNCHANGED <<database, retry, dead, results, worker, pumping, faults>>
  BY DEF Revive
<1>3. d \in Letter /\ d.job \in Jobs /\ d.id \in Entries /\ 0 \in 0..MaxRetries
  BY JobStreamAssumption DEF IInv, TypeOK, Letter
<1>4. /\ EntriesType' /\ EntriesFit' /\ PayloadsKept /\ last' >= last
      /\ InStream(d.job)' /\ \A i \in Jobs : InStream(i) => InStream(i)'
      /\ \A i \in Jobs : Dispatched(i)' => Dispatched(i) \/ i = d.job
  BY <1>1, <1>3, AddFits
<1>5. RestType'
  <2>1. revivals' \in 0..MaxRevivals /\ revived' \in Entries
    BY <1>1, <1>2, <1>3, JobStreamAssumption DEF IInv, TypeOK
  <2> QED
    BY <1>2, <2>1, Types DEF IInv, RestType
<1>6. LettersFit'
  <2>1. last \in Int /\ last' \in Int /\ \A e \in dead : e.id \in Int /\ e.id <= last
    BY <1>4, JobStreamAssumption DEF IInv, TypeOK, LettersFit, Letter, Entries, EntriesType
  <2>2. \A e \in dead : e.id <= last'
    BY <1>4, <2>1
  <2> QED
    BY <1>1, <1>2, <2>2 DEF IInv, LettersFit
<1>7. NoneLost'
  <2>1. \A e \in dead : e.id # None
    BY JobStreamAssumption DEF IInv, TypeOK, Letter, Entries
  <2>2. \A e \in Lasting : e \in Lasting' \/ e = d
    BY <1>1, <1>2 DEF Lasting, IInv, LettersFit
  <2>3. ASSUME NEW i \in Jobs, Dispatched(i)' PROVE Kept(i)'
    <3>1. UNCHANGED <<step, retry>>
      BY <1>2 DEF database
    <3> QED
      BY <1>4, <2>2, <2>3, <3>1 DEF IInv, NoneLost, Kept
  <2> QED
    BY <2>3 DEF NoneLost
<1> QED
  BY <1>2, <1>4, <1>5, <1>6, <1>7, StreamInv

\* The letter goes, or stays when the command dies; its job is kept without it.
LEMMA DeleteLetterInv ==
  ASSUME IInv, DeleteLetter
  PROVE  IInv'
<1>1. /\ revived' = None /\ (dead' = Lasting \/ dead' = dead)
      /\ UNCHANGED <<database, entries, retry, results, worker, pumping, revivals, faults>>
  BY DEF DeleteLetter, Lasting
<1>2. dead' \subseteq dead /\ Lasting \subseteq dead'
  BY <1>1 DEF Lasting
<1>3. \A d \in dead : d.id # None
  BY JobStreamAssumption DEF IInv, TypeOK, Letter, Entries
<1>4. Lasting \subseteq Lasting'
  BY <1>1, <1>2, <1>3 DEF Lasting
<1>5. EntriesType' /\ RestType'
  BY <1>1, <1>2, Types DEF IInv, EntriesType, RestType, entries
<1>6. EntriesFit' /\ LettersFit' /\ PayloadsKept
  BY <1>1, <1>2 DEF IInv, EntriesFit, LettersFit, PayloadsKept, entries
<1>7. NoneLost'
  <2>1. ASSUME NEW i \in Jobs, Dispatched(i)' PROVE Kept(i)'
    <3>1. Dispatched(i) /\ (InStream(i) => InStream(i)') /\ UNCHANGED <<step, retry>>
      BY <1>1, <2>1 DEF Dispatched, InStream, entries, database
    <3> QED
      BY <1>4, <3>1 DEF IInv, NoneLost, Kept
  <2> QED
    BY <2>1 DEF NoneLost
<1> QED
  BY <1>1, <1>5, <1>6, <1>7, StreamInv

-----------------------------------------------------------------------------
(* The workers.                                                            *)

\* One worker moves; it writes the rows of a job only if nobody else owns it.
LEMMA WorkerInv ==
  ASSUME IInv, NEW w \in Workers,
         WorkerType', DatabaseType', EntriesType', RestType', EntriesFit', LettersFit',
         CallsFit', AckMeansStored', NoneLost', payload' = payload,
         \A v \in Workers \ {w} : /\ pc'[v] = pc[v] /\ hand'[v] = hand[v]
                                  /\ batch'[v] = batch[v] /\ outcome'[v] = outcome[v],
         \A j \in Jobs :
           \/ step'[j] = step[j] /\ allocated'[j] = allocated[j] /\ calls'[j] = calls[j]
           \/ step[j] = "running" /\ \A v \in Workers \ {w} : ~ (Owns(v) /\ Job(v) = j),
         Owns(w)' => \A v \in Workers \ {w} : Owns(v) => Job(v) # Job(w)',
         WorkerFits(w)'
  PROVE  IInv'
<1>1. TypeOK'
  BY DEF TypeOK, DatabaseType, EntriesType, WorkerType, RestType
<1>2. ASSUME NEW v \in Workers \ {w} PROVE WorkerFits(v)' /\ Owns(v)' = Owns(v) /\ Job(v)' = Job(v)
  <2>1. Owns(v)' = Owns(v) /\ Job(v)' = Job(v)
    BY DEF Owns, Job
  <2>2. pc[v] \in {"call", "store", "ack"} => Job(v) \in Jobs
    BY JobInHand
  <2>3. WorkerFits(v)
    BY DEF IInv
  <2> QED
    BY <2>1, <2>2, <2>3 DEF WorkerFits, Owns
<1>3. OneOwner'
  BY <1>2 DEF IInv, OneOwner
<1> QED
  BY <1>1, <1>2, <1>3 DEF IInv

\* A worker moves and writes neither a row, nor a retry, nor a letter.
LEMMA PlainMove ==
  ASSUME IInv, NEW w \in Workers, WorkerType', EntriesType', EntriesFit', payload' = payload,
         UNCHANGED <<database, last, retry, dead, results, pumping, operator>>,
         faults' \in 0..MaxFaults,
         \A m \in Entries : state[m] \in {"new", "pending"} => state'[m] \in {"new", "pending"},
         \A v \in Workers \ {w} : /\ pc'[v] = pc[v] /\ hand'[v] = hand[v]
                                  /\ batch'[v] = batch[v] /\ outcome'[v] = outcome[v],
         ~ Owns(w)', WorkerFits(w)'
  PROVE  IInv'
<1>1. DatabaseType' /\ RestType' /\ LettersFit' /\ CallsFit' /\ AckMeansStored'
  BY Types DEF IInv, DatabaseType, RestType, LettersFit, CallsFit, AckMeansStored, database, operator
<1>2. NoneLost'
  <2>1. ASSUME NEW j \in Jobs, Dispatched(j)' PROVE Kept(j)'
    <3>1. Dispatched(j) /\ (InStream(j) => InStream(j)') /\ UNCHANGED <<step, retry, Lasting>>
      BY <2>1 DEF Dispatched, InStream, database, Lasting, operator
    <3> QED
      BY <3>1 DEF IInv, NoneLost, Kept
  <2> QED
    BY <2>1 DEF NoneLost
<1>3. \A j \in Jobs : step'[j] = step[j] /\ allocated'[j] = allocated[j] /\ calls'[j] = calls[j]
  BY DEF database
<1> QED
  BY <1>1, <1>2, <1>3, WorkerInv

\* An entry is delivered.
LEMMA ReadInv ==
  ASSUME IInv, NEW w \in Workers, Read(w)
  PROVE  IInv'
<1>1. PICK m \in Entries : /\ state[m] = "new" /\ state' = [state EXCEPT ![m] = "pending"]
                           /\ batch' = [batch EXCEPT ![w] = {m}]
  BY DEF Read
<1>2. /\ pc[w] = "idle" /\ pc' = [pc EXCEPT ![w] = "next"]
      /\ UNCHANGED <<database, last, payload, idle, retry, dead, results, hand, outcome, pumping,
                     operator, faults>>
  BY DEF Read
<1>3. WorkerType' /\ EntriesType' /\ faults' \in 0..MaxFaults
  BY <1>1, <1>2, Types DEF IInv, WorkerType, EntriesType, RestType
<1>4. /\ pc'[w] = "next" /\ hand'[w] = None /\ batch'[w] = {m} /\ payload[m] # None
      /\ \A v \in Workers \ {w} : /\ pc'[v] = pc[v] /\ hand'[v] = hand[v]
                                  /\ batch'[v] = batch[v] /\ outcome'[v] = outcome[v]
  BY <1>1, <1>2 DEF IInv, TypeOK, EntriesFit
<1>5. EntriesFit'
  BY <1>1, <1>2 DEF IInv, TypeOK, EntriesFit
<1>6. ~ Owns(w)' /\ WorkerFits(w)'
  BY <1>2, <1>4 DEF Owns, WorkerFits
<1>7. \A k \in Entries : state[k] \in {"new", "pending"} => state'[k] \in {"new", "pending"}
  BY <1>1 DEF IInv, TypeOK
<1> QED
  BY <1>2, <1>3, <1>4, <1>5, <1>6, <1>7, PlainMove

\* Stale deliveries are taken over.
LEMMA ClaimStaleInv ==
  ASSUME IInv, NEW w \in Workers, ClaimStale(w)
  PROVE  IInv'
<1>1. PICK stale \in SUBSET {m \in Entries : state[m] = "pending" /\ idle[m]} :
        /\ idle' = [m \in Entries |-> idle[m] /\ m \notin stale]
        /\ batch' = [batch EXCEPT ![w] = stale]
  BY DEF ClaimStale
<1>2. /\ pc[w] = "idle" /\ pc' = [pc EXCEPT ![w] = "next"]
      /\ UNCHANGED <<database, last, payload, state, retry, dead, results, hand, outcome, pumping,
                     operator, faults>>
  BY DEF ClaimStale
<1>3. idle' \in [Entries -> BOOLEAN]
  BY <1>1
<1>4. WorkerType' /\ EntriesType' /\ faults' \in 0..MaxFaults
  BY <1>1, <1>2, <1>3, Types DEF IInv, WorkerType, EntriesType, RestType
<1>5. /\ pc'[w] = "next" /\ hand'[w] = None /\ batch'[w] = stale
      /\ \A v \in Workers \ {w} : /\ pc'[v] = pc[v] /\ hand'[v] = hand[v]
                                  /\ batch'[v] = batch[v] /\ outcome'[v] = outcome[v]
  BY <1>1, <1>2 DEF IInv, TypeOK
<1>6. EntriesFit' /\ \A m \in stale : payload[m] # None
  BY <1>2 DEF IInv, EntriesFit
<1>7. ~ Owns(w)' /\ WorkerFits(w)'
  BY <1>2, <1>5, <1>6 DEF Owns, WorkerFits
<1> QED
  BY <1>2, <1>4, <1>5, <1>6, <1>7, PlainMove

\* The worker turns to a delivery.
LEMMA TakeInv ==
  ASSUME IInv, NEW w \in Workers, Take(w)
  PROVE  IInv'
<1>1. PICK m \in batch[w] : hand' = [hand EXCEPT ![w] = m] /\ batch' = [batch EXCEPT ![w] = batch[w] \ {m}]
  BY DEF Take
<1>2. /\ pc' = [pc EXCEPT ![w] = "check"] /\ outcome' = [outcome EXCEPT ![w] = "none"]
      /\ UNCHANGED <<database, redis, pumping, operator, faults>>
  BY DEF Take
<1>3. m \in Entries /\ m # None /\ payload[m] # None
  BY JobStreamAssumption DEF IInv, TypeOK, WorkerFits, Entries
<1>4. UNCHANGED <<last, payload, state, idle, retry, dead, results>>
  BY <1>2 DEF redis, entries
<1>5. EntriesType' /\ EntriesFit' /\ faults' \in 0..MaxFaults
  BY <1>2, <1>4, Types DEF IInv, EntriesType, EntriesFit, RestType
<1>6. WorkerType'
  BY <1>1, <1>2, <1>3, Types DEF IInv, WorkerType, Outcomes
<1>7. /\ pc'[w] = "check" /\ hand'[w] = m /\ batch'[w] \subseteq batch[w]
      /\ \A v \in Workers \ {w} : /\ pc'[v] = pc[v] /\ hand'[v] = hand[v]
                                  /\ batch'[v] = batch[v] /\ outcome'[v] = outcome[v]
  BY <1>1, <1>2 DEF IInv, TypeOK
<1>8. ~ Owns(w)' /\ WorkerFits(w)'
  BY <1>3, <1>4, <1>7 DEF IInv, Owns, WorkerFits
<1> QED
  BY <1>2, <1>4, <1>5, <1>6, <1>7, <1>8, PlainMove

\* What Goto changes.
LEMMA GotoMoves ==
  ASSUME TypeOK, NEW w \in Workers, NEW label \in {"alloc", "call", "store", "ack", "fail"},
         NEW out \in Outcomes, Goto(w, label, out), hand[w] # None
  PROVE  /\ WorkerType' /\ pc'[w] = label /\ outcome'[w] = out
         /\ hand'[w] = hand[w] /\ batch'[w] = batch[w]
         /\ \A v \in Workers \ {w} : /\ pc'[v] = pc[v] /\ hand'[v] = hand[v]
                                     /\ batch'[v] = batch[v] /\ outcome'[v] = outcome[v]
BY DEF TypeOK, WorkerType, Goto

\* A finished job is acknowledged; another one goes for its attempt.
LEMMA CheckDuplicateInv ==
  ASSUME IInv, NEW w \in Workers, CheckDuplicate(w)
  PROVE  IInv'
<1>1. /\ pc[w] = "check" /\ UNCHANGED <<database, redis, pumping, operator, faults>>
      /\ \/ step[Job(w)] = "succeeded" /\ Goto(w, "ack", "ok")
         \/ Goto(w, "alloc", "none")
  BY DEF CheckDuplicate
<1>2. UNCHANGED <<step, allocated, calls, last, payload, state, idle, retry, dead, results>>
  BY <1>1 DEF database, redis, entries
<1>3. hand[w] # None /\ TypeOK
  BY <1>1 DEF IInv, TypeOK
<1>4. /\ WorkerType' /\ ((pc'[w] = "ack" /\ step[Job(w)] = "succeeded") \/ pc'[w] = "alloc")
      /\ hand'[w] = hand[w] /\ batch'[w] = batch[w]
      /\ \A v \in Workers \ {w} : /\ pc'[v] = pc[v] /\ hand'[v] = hand[v]
                                  /\ batch'[v] = batch[v] /\ outcome'[v] = outcome[v]
  BY <1>1, <1>3, GotoMoves DEF Outcomes
<1>5. EntriesType' /\ EntriesFit' /\ faults' \in 0..MaxFaults
  BY <1>1, <1>2, Types DEF IInv, EntriesType, EntriesFit, RestType
<1>6. ~ Owns(w)' /\ WorkerFits(w)'
  BY <1>2, <1>4 DEF IInv, Owns, WorkerFits, Job
<1> QED
  BY <1>1, <1>2, <1>4, <1>5, <1>6, PlainMove

\* What Return and Restart change.
LEMMA ReturnMoves ==
  ASSUME TypeOK, NEW w \in Workers, NEW label \in {"idle", "next"}, NEW b \in SUBSET batch[w],
         pc' = [pc EXCEPT ![w] = label], hand' = [hand EXCEPT ![w] = None],
         outcome' = [outcome EXCEPT ![w] = "none"], batch' = [batch EXCEPT ![w] = b]
  PROVE  /\ WorkerType' /\ ~ Owns(w)' /\ pc'[w] = label /\ hand'[w] = None /\ batch'[w] = b
         /\ \A v \in Workers \ {w} : /\ pc'[v] = pc[v] /\ hand'[v] = hand[v]
                                     /\ batch'[v] = batch[v] /\ outcome'[v] = outcome[v]
BY DEF TypeOK, WorkerType, Owns, Outcomes

\* handle has returned: nothing is in hand.
LEMMA ReturnFits ==
  ASSUME IInv, NEW w \in Workers, Return(w), payload' = payload
  PROVE  /\ WorkerType' /\ ~ Owns(w)' /\ WorkerFits(w)'
         /\ \A v \in Workers \ {w} : /\ pc'[v] = pc[v] /\ hand'[v] = hand[v]
                                     /\ batch'[v] = batch[v] /\ outcome'[v] = outcome[v]
<1> DEFINE label == IF batch[w] = {} THEN "idle" ELSE "next"
<1>1. /\ pc' = [pc EXCEPT ![w] = label] /\ hand' = [hand EXCEPT ![w] = None]
      /\ outcome' = [outcome EXCEPT ![w] = "none"] /\ batch' = [batch EXCEPT ![w] = batch[w]]
      /\ label \in {"idle", "next"} /\ TypeOK
  BY DEF Return, IInv, TypeOK
<1> HIDE DEF label
<1>2. /\ WorkerType' /\ ~ Owns(w)' /\ pc'[w] = label /\ hand'[w] = None /\ batch'[w] = batch[w]
      /\ \A v \in Workers \ {w} : /\ pc'[v] = pc[v] /\ hand'[v] = hand[v]
                                  /\ batch'[v] = batch[v] /\ outcome'[v] = outcome[v]
  BY <1>1, ReturnMoves
<1>3. WorkerFits(w)'
  BY <1>1, <1>2 DEF IInv, WorkerFits
<1> QED
  BY <1>2, <1>3

\* A lost worker holds nothing.
LEMMA RestartFits ==
  ASSUME IInv, NEW w \in Workers, Restart(w)
  PROVE  /\ WorkerType' /\ ~ Owns(w)' /\ WorkerFits(w)' /\ faults' \in 0..MaxFaults
         /\ \A v \in Workers \ {w} : /\ pc'[v] = pc[v] /\ hand'[v] = hand[v]
                                     /\ batch'[v] = batch[v] /\ outcome'[v] = outcome[v]
<1>1. /\ pc' = [pc EXCEPT ![w] = "idle"] /\ hand' = [hand EXCEPT ![w] = None]
      /\ outcome' = [outcome EXCEPT ![w] = "none"] /\ batch' = [batch EXCEPT ![w] = {}] /\ TypeOK
      /\ faults' \in 0..MaxFaults
  BY JobStreamAssumption DEF Restart, IInv, TypeOK
<1>2. /\ WorkerType' /\ ~ Owns(w)' /\ pc'[w] = "idle" /\ hand'[w] = None /\ batch'[w] = {}
      /\ \A v \in Workers \ {w} : /\ pc'[v] = pc[v] /\ hand'[v] = hand[v]
                                  /\ batch'[v] = batch[v] /\ outcome'[v] = outcome[v]
  BY <1>1, ReturnMoves
<1> QED
  BY <1>1, <1>2 DEF WorkerFits

\* A failure of the infrastructure leaves the delivery pending.
LEMMA HandleFailsInv ==
  ASSUME IInv, NEW w \in Workers, HandleFails(w)
  PROVE  IInv'
<1>1. Return(w) /\ UNCHANGED <<database, redis, pumping, operator>>
  BY DEF HandleFails
<1>2. UNCHANGED <<last, payload, state, idle, retry, dead, results>>
  BY <1>1 DEF redis, entries
<1>3. EntriesType' /\ EntriesFit' /\ faults' \in 0..MaxFaults
  BY <1>2, Types, JobStreamAssumption DEF IInv, EntriesType, EntriesFit, RestType, HandleFails
<1> QED
  BY <1>1, <1>2, <1>3, ReturnFits, PlainMove

\* So does a crash.
LEMMA CrashInv ==
  ASSUME IInv, NEW w \in Workers, Crash(w)
  PROVE  IInv'
<1>1. Restart(w) /\ UNCHANGED <<database, redis, pumping, operator>>
  BY DEF Crash, Restart
<1>2. UNCHANGED <<last, payload, state, idle, retry, dead, results>>
  BY <1>1 DEF redis, entries
<1>3. EntriesType' /\ EntriesFit'
  BY <1>2, Types DEF IInv, EntriesType, EntriesFit
<1> QED
  BY <1>1, <1>2, <1>3, RestartFits, PlainMove

\* The result is announced and the delivery dropped: the step has succeeded.
LEMMA AckInv ==
  ASSUME IInv, NEW w \in Workers, Ack(w)
  PROVE  IInv'
<1>1. /\ pc[w] = "ack" /\ results' = results \cup {Job(w)} /\ Drop(hand[w]) /\ Return(w)
      /\ UNCHANGED <<database, last, payload, retry, dead, pumping, operator, faults>>
  BY DEF Ack
<1>2. hand[w] \in Entries /\ Job(w) \in Jobs /\ step[Job(w)] = "succeeded"
  BY <1>1, JobInHand DEF IInv, WorkerFits
<1>3. last' \in 0..MaxEntries /\ last' >= last /\ payload' = payload
  BY <1>1, JobStreamAssumption DEF IInv, TypeOK
<1>4. /\ EntriesType' /\ EntriesFit'
      /\ \A i \in Jobs : InStream(i) => InStream(i)' \/ Job(w) = i
      /\ \A i \in Jobs : Dispatched(i)' = Dispatched(i)
  BY <1>1, <1>2, <1>3, DropFits DEF Job
<1>5. UNCHANGED <<step, allocated, calls, revived, revivals, Lasting>>
  BY <1>1 DEF database, operator, Lasting
<1>6. DatabaseType' /\ RestType' /\ LettersFit' /\ CallsFit' /\ AckMeansStored'
  BY <1>1, <1>2, <1>5, Types DEF IInv, DatabaseType, RestType, LettersFit, CallsFit, AckMeansStored
<1>7. NoneLost'
  <2>1. ASSUME NEW j \in Jobs, Dispatched(j)' PROVE Kept(j)'
    BY <1>1, <1>2, <1>4, <1>5, <2>1 DEF IInv, NoneLost, Kept
  <2> QED
    BY <2>1 DEF NoneLost
<1>8. /\ WorkerType' /\ ~ Owns(w)' /\ WorkerFits(w)'
      /\ \A v \in Workers \ {w} : /\ pc'[v] = pc[v] /\ hand'[v] = hand[v]
                                  /\ batch'[v] = batch[v] /\ outcome'[v] = outcome[v]
  BY <1>1, <1>3, ReturnFits
<1> QED
  BY <1>3, <1>4, <1>5, <1>6, <1>7, <1>8, WorkerInv

\* A failed job moves to the schedule or to a letter with a new ID.
LEMMA FailInv ==
  ASSUME IInv, NEW w \in Workers, Fail(w)
  PROVE  IInv'
<1> DEFINE n == payload[hand[w]].attempt + 1
           r == [job |-> Job(w), attempt |-> n]
           d == [id |-> last + 1, job |-> Job(w), attempt |-> n, cause |-> outcome[w]]
<1>1. /\ pc[w] = "fail" /\ Drop(hand[w]) /\ Return(w)
      /\ UNCHANGED <<database, payload, results, pumping, operator, faults>>
      /\ \/ n <= MaxRetries /\ retry' = retry \cup {r} /\ UNCHANGED <<last, dead>>
         \/ last < MaxEntries /\ last' = last + 1 /\ dead' = dead \cup {d} /\ UNCHANGED retry
  BY DEF Fail, RetriesLeft
<1>2. /\ hand[w] \in Entries /\ Job(w) \in Jobs /\ outcome[w] \in Causes
      /\ payload[hand[w]].attempt \in 0..MaxRetries
  BY <1>1, JobInHand DEF IInv, WorkerFits
<1>3. n \in 1..(MaxRetries + 1)
  BY <1>2, JobStreamAssumption
<1>4. r.job = Job(w) /\ (n <= MaxRetries => r \in Retry)
  BY <1>2, <1>3, JobStreamAssumption DEF Retry
<1> HIDE DEF n
<1>5. d.job = Job(w) /\ d.id = last + 1 /\ (last < MaxEntries => d \in Letter)
  BY <1>2, <1>3, JobStreamAssumption DEF Letter, Causes, Entries, IInv, TypeOK
<1> HIDE DEF r, d
<1>6. last \in Nat /\ last' \in 0..MaxEntries /\ last' >= last /\ payload' = payload
  BY <1>1, JobStreamAssumption DEF IInv, TypeOK
<1>7. /\ EntriesType' /\ EntriesFit'
      /\ \A i \in Jobs : InStream(i) => InStream(i)' \/ Job(w) = i
      /\ \A i \in Jobs : Dispatched(i)' = Dispatched(i)
  BY <1>1, <1>2, <1>6, DropFits DEF Job
<1>8. UNCHANGED <<step, allocated, calls, revived, revivals>>
  BY <1>1 DEF database, operator
<1>9. DatabaseType' /\ CallsFit' /\ AckMeansStored'
  BY <1>1, <1>8, Types DEF IInv, DatabaseType, CallsFit, AckMeansStored
<1>10. retry' \subseteq Retry /\ dead' \subseteq Letter
  BY <1>1, <1>4, <1>5 DEF IInv, TypeOK
<1>11. RestType'
  BY <1>1, <1>8, <1>10, Types DEF IInv, RestType
<1>12. /\ \A e \in dead : e.id \in Int /\ e.id <= last
       /\ revived # None => revived \in Int /\ revived <= last
  BY JobStreamAssumption DEF IInv, TypeOK, LettersFit, Letter, Entries
<1>13. LettersFit'
  <2>1. CASE UNCHANGED <<last, dead>>
    BY <1>8, <2>1 DEF IInv, LettersFit
  <2>2. CASE last' = last + 1 /\ dead' = dead \cup {d}
    <3>1. \A e \in dead : e.id # d.id /\ e.id <= last'
      BY <1>5, <1>6, <1>12, <2>2
    <3>2. d.id <= last' /\ (revived' # None => revived' <= last')
      BY <1>5, <1>6, <1>8, <1>12, <2>2
    <3> QED
      BY <2>2, <3>1, <3>2 DEF IInv, LettersFit
  <2> QED
    BY <1>1, <2>1, <2>2
<1>14. Lasting \subseteq Lasting' /\ retry \subseteq retry'
  BY <1>1, <1>8 DEF Lasting
<1>15. (\E q \in retry' : q.job = Job(w)) \/ (\E e \in Lasting' : e.job = Job(w))
  <2>1. CASE retry' = retry \cup {r}
    BY <1>4, <2>1
  <2>2. CASE dead' = dead \cup {d}
    <3>1. d.id # revived
      BY <1>5, <1>6, <1>12, JobStreamAssumption
    <3> QED
      BY <1>5, <1>8, <2>2, <3>1 DEF Lasting
  <2> QED
    BY <1>1, <2>1, <2>2
<1>16. NoneLost'
  <2>1. ASSUME NEW j \in Jobs, Dispatched(j)' PROVE Kept(j)'
    <3>1. CASE j = Job(w)
      BY <1>15, <3>1 DEF Kept
    <3>2. CASE j # Job(w)
      BY <1>7, <1>8, <1>14, <2>1, <3>2 DEF IInv, NoneLost, Kept
    <3> QED
      BY <3>1, <3>2
  <2> QED
    BY <2>1 DEF NoneLost
<1>17. /\ WorkerType' /\ ~ Owns(w)' /\ WorkerFits(w)'
       /\ \A v \in Workers \ {w} : /\ pc'[v] = pc[v] /\ hand'[v] = hand[v]
                                   /\ batch'[v] = batch[v] /\ outcome'[v] = outcome[v]
  BY <1>1, <1>6, ReturnFits
<1> QED
  BY <1>6, <1>7, <1>8, <1>9, <1>11, <1>13, <1>16, <1>17, WorkerInv

\* A worker writes the rows of a running job that nobody else owns.
LEMMA RowInv ==
  ASSUME IInv, NEW w \in Workers, UNCHANGED <<redis, pumping, operator>>, faults' \in 0..MaxFaults,
         WorkerType', DatabaseType', CallsFit',
         \A v \in Workers \ {w} : /\ pc'[v] = pc[v] /\ hand'[v] = hand[v]
                                  /\ batch'[v] = batch[v] /\ outcome'[v] = outcome[v],
         \A j \in Jobs :
           \/ step'[j] = step[j] /\ allocated'[j] = allocated[j] /\ calls'[j] = calls[j]
           \/ step[j] = "running" /\ \A v \in Workers \ {w} : ~ (Owns(v) /\ Job(v) = j),
         Owns(w)' => \A v \in Workers \ {w} : Owns(v) => Job(v) # Job(w)',
         WorkerFits(w)'
  PROVE  IInv'
<1>1. UNCHANGED <<last, payload, state, idle, retry, dead, results, revived, revivals, pumping>>
  BY DEF redis, entries, operator
<1>2. EntriesType' /\ RestType' /\ EntriesFit' /\ LettersFit'
  BY <1>1, Types DEF IInv, EntriesType, RestType, EntriesFit, LettersFit
<1>3. AckMeansStored'
  BY <1>1 DEF IInv, TypeOK, AckMeansStored
<1>4. NoneLost'
  <2>1. ASSUME NEW j \in Jobs, Dispatched(j)' PROVE Kept(j)'
    <3>1. Dispatched(j) /\ InStream(j)' = InStream(j) /\ Lasting' = Lasting
      BY <1>1, <2>1 DEF Dispatched, InStream, Lasting
    <3> QED
      BY <1>1, <3>1 DEF IInv, NoneLost, Kept
  <2> QED
    BY <2>1 DEF NoneLost
<1>5. payload' = payload
  BY <1>1
<1> QED
  BY <1>2, <1>3, <1>4, <1>5, WorkerInv

\* A job whose attempt nobody has taken is running and has no owner.
LEMMA Unowned ==
  ASSUME IInv, NEW j \in Jobs, allocated[j] = 0
  PROVE  /\ step[j] = "running" /\ calls[j] = 0
         /\ \A v \in Workers : ~ (Owns(v) /\ Job(v) = j)
<1>1. step[j] = "running" /\ calls[j] = 0
  BY DEF IInv, CallsFit, TypeOK
<1> QED
  BY <1>1 DEF IInv, WorkerFits

\* The attempt is taken once, or the job fails.
LEMMA AllocateAttemptInv ==
  ASSUME IInv, NEW w \in Workers, AllocateAttempt(w)
  PROVE  IInv'
<1> DEFINE taken == [allocated EXCEPT ![Job(w)] = 1]
<1>1. pc[w] = "alloc" /\ UNCHANGED <<step, calls, redis, pumping, operator>>
  BY DEF AllocateAttempt
<1>2. hand[w] \in Entries /\ hand[w] # None /\ Job(w) \in Jobs /\ TypeOK
  BY <1>1, JobInHand, JobStreamAssumption DEF IInv, Entries
<1>3. faults' \in 0..MaxFaults /\ UNCHANGED payload
  BY <1>1, JobStreamAssumption DEF AllocateAttempt, IInv, TypeOK, redis, entries
<1>4. \/ allocated[Job(w)] = 0 /\ allocated' = taken /\ Goto(w, "call", "none")
      \/ allocated' = allocated /\ Goto(w, "fail", "ownership")
      \/ allocated' \in {allocated, taken} /\ Goto(w, "fail", "persistence")
  BY DEF AllocateAttempt, OwnsAttempt
<1>5. \/ allocated' = allocated
      \/ allocated' = taken /\ allocated[Job(w)] \in {0, 1}
  BY <1>2, <1>4 DEF TypeOK
<1>6. /\ allocated' \in [Jobs -> 0..1] /\ \A j \in Jobs : allocated'[j] >= allocated[j]
      /\ \A j \in Jobs : allocated'[j] = allocated[j] \/ (j = Job(w) /\ allocated[j] = 0)
      /\ allocated' = taken => allocated'[Job(w)] = 1
  BY <1>2, <1>5 DEF TypeOK
<1>7. DatabaseType' /\ CallsFit'
  BY <1>1, <1>6, Types DEF IInv, DatabaseType, CallsFit
<1>8. /\ WorkerType' /\ hand'[w] = hand[w] /\ batch'[w] = batch[w]
      /\ \/ pc'[w] = "call" /\ allocated[Job(w)] = 0 /\ allocated'[Job(w)] = 1
         \/ pc'[w] = "fail" /\ outcome'[w] \in Causes
      /\ \A v \in Workers \ {w} : /\ pc'[v] = pc[v] /\ hand'[v] = hand[v]
                                  /\ batch'[v] = batch[v] /\ outcome'[v] = outcome[v]
  BY <1>2, <1>4, <1>6, GotoMoves DEF Outcomes, Causes
<1>9. Job(w)' = Job(w)
  BY <1>3, <1>8 DEF Job
<1>10. \A j \in Jobs :
         \/ step'[j] = step[j] /\ allocated'[j] = allocated[j] /\ calls'[j] = calls[j]
         \/ step[j] = "running" /\ \A v \in Workers \ {w} : ~ (Owns(v) /\ Job(v) = j)
  BY <1>1, <1>6, Unowned
<1>11. pc'[w] = "call" => /\ step[Job(w)] = "running" /\ calls[Job(w)] = 0
                          /\ \A v \in Workers : Owns(v) => Job(v) # Job(w)
  BY <1>2, <1>8, Unowned
<1>12. Owns(w)' => \A v \in Workers \ {w} : Owns(v) => Job(v) # Job(w)'
  BY <1>8, <1>9, <1>11 DEF Owns
<1>13. WorkerFits(w)'
  BY <1>1, <1>3, <1>8, <1>9, <1>11 DEF IInv, WorkerFits, Owns
<1> QED
  BY <1>1, <1>3, <1>7, <1>8, <1>10, <1>12, <1>13, RowInv

\* The owner's call is the first.
LEMMA CallProviderInv ==
  ASSUME IInv, NEW w \in Workers, CallProvider(w)
  PROVE  IInv'
<1>1. PICK out \in {"ok", "temporary", "permanent"} : Goto(w, "store", out)
  BY DEF CallProvider
<1>2. /\ pc[w] = "call" /\ calls' = [calls EXCEPT ![Job(w)] = calls[Job(w)] + 1]
      /\ UNCHANGED <<step, allocated, redis, pumping, operator, faults>>
  BY DEF CallProvider
<1>3. hand[w] \in Entries /\ hand[w] # None /\ Job(w) \in Jobs /\ TypeOK
  BY <1>2, JobInHand, JobStreamAssumption DEF IInv, Entries
<1>4. /\ Owns(w) /\ allocated[Job(w)] = 1 /\ step[Job(w)] = "running" /\ calls[Job(w)] = 0
      /\ \A v \in Workers \ {w} : ~ (Owns(v) /\ Job(v) = Job(w))
  BY <1>2 DEF IInv, WorkerFits, Owns, OneOwner
<1>5. /\ calls' \in [Jobs -> Nat] /\ calls'[Job(w)] = 1
      /\ \A j \in Jobs \ {Job(w)} : calls'[j] = calls[j]
  BY <1>2, <1>3, <1>4 DEF TypeOK
<1>6. DatabaseType' /\ CallsFit' /\ faults' \in 0..MaxFaults /\ UNCHANGED payload
  BY <1>2, <1>3, <1>4, <1>5, Types DEF IInv, DatabaseType, CallsFit, RestType, redis, entries
<1>7. /\ WorkerType' /\ pc'[w] = "store" /\ outcome'[w] = out
      /\ hand'[w] = hand[w] /\ batch'[w] = batch[w]
      /\ \A v \in Workers \ {w} : /\ pc'[v] = pc[v] /\ hand'[v] = hand[v]
                                  /\ batch'[v] = batch[v] /\ outcome'[v] = outcome[v]
  BY <1>1, <1>3, GotoMoves DEF Outcomes
<1>8. Job(w)' = Job(w)
  BY <1>6, <1>7 DEF Job
<1>9. \A j \in Jobs :
        \/ step'[j] = step[j] /\ allocated'[j] = allocated[j] /\ calls'[j] = calls[j]
        \/ step[j] = "running" /\ \A v \in Workers \ {w} : ~ (Owns(v) /\ Job(v) = j)
  BY <1>2, <1>4, <1>5
<1>10. WorkerFits(w)' /\ (Owns(w)' => \A v \in Workers \ {w} : Owns(v) => Job(v) # Job(w)')
  BY <1>2, <1>4, <1>5, <1>6, <1>7, <1>8 DEF IInv, WorkerFits, Owns
<1> QED
  BY <1>2, <1>6, <1>7, <1>9, <1>10, RowInv

\* The owner stores its result, or may have, and acknowledges or fails.
LEMMA StoreResultInv ==
  ASSUME IInv, NEW w \in Workers, StoreResult(w)
  PROVE  IInv'
<1> DEFINE status == StatusOf(outcome[w])
           stored == [step EXCEPT ![Job(w)] = status]
<1>1. pc[w] = "store" /\ UNCHANGED <<allocated, calls, redis, pumping, operator>>
  BY DEF StoreResult
<1>2. hand[w] \in Entries /\ hand[w] # None /\ Job(w) \in Jobs /\ TypeOK
  BY <1>1, JobInHand, JobStreamAssumption DEF IInv, Entries
<1>3. /\ Owns(w) /\ allocated[Job(w)] = 1 /\ step[Job(w)] = "running"
      /\ outcome[w] \in {"ok", "temporary", "permanent"}
      /\ \A v \in Workers \ {w} : ~ (Owns(v) /\ Job(v) = Job(w))
  BY <1>1 DEF IInv, WorkerFits, Owns, OneOwner
<1>4. status \in StepStatus /\ (outcome[w] = "ok" => status = "succeeded")
  BY <1>3 DEF StatusOf, StepStatus
<1>5. /\ step' \in {step, stored}
      /\ \/ outcome[w] = "ok" /\ step' = stored /\ Goto(w, "ack", "ok")
         \/ outcome[w] # "ok" /\ Goto(w, "fail", outcome[w])
         \/ outcome[w] = "ok" /\ Goto(w, "fail", "persistence")
  BY DEF StoreResult, AfterStoreFailure
<1> HIDE DEF status
<1>6. /\ step' \in [Jobs -> StepStatus] /\ \A j \in Jobs \ {Job(w)} : step'[j] = step[j]
      /\ step' = stored => step'[Job(w)] = status
  BY <1>2, <1>4, <1>5 DEF TypeOK
<1>7. faults' \in 0..MaxFaults /\ UNCHANGED payload
  BY <1>1, JobStreamAssumption DEF StoreResult, IInv, TypeOK, redis, entries
<1>8. DatabaseType' /\ CallsFit'
  BY <1>1, <1>3, <1>6, Types DEF IInv, DatabaseType, CallsFit
<1>9. /\ WorkerType' /\ hand'[w] = hand[w] /\ batch'[w] = batch[w]
      /\ \/ pc'[w] = "ack" /\ step'[Job(w)] = "succeeded"
         \/ pc'[w] = "fail" /\ outcome'[w] \in Causes
      /\ \A v \in Workers \ {w} : /\ pc'[v] = pc[v] /\ hand'[v] = hand[v]
                                  /\ batch'[v] = batch[v] /\ outcome'[v] = outcome[v]
  BY <1>2, <1>3, <1>4, <1>5, <1>6, GotoMoves DEF Outcomes, Causes
<1>10. Job(w)' = Job(w)
  BY <1>7, <1>9 DEF Job
<1>11. \A j \in Jobs :
         \/ step'[j] = step[j] /\ allocated'[j] = allocated[j] /\ calls'[j] = calls[j]
         \/ step[j] = "running" /\ \A v \in Workers \ {w} : ~ (Owns(v) /\ Job(v) = j)
  BY <1>1, <1>3, <1>6
<1>12. WorkerFits(w)' /\ ~ Owns(w)'
  BY <1>7, <1>9, <1>10 DEF IInv, WorkerFits, Owns
<1> QED
  BY <1>1, <1>7, <1>8, <1>9, <1>11, <1>12, RowInv

\* A cancelled call is stored by its owner, which then is gone.
LEMMA ShutdownInv ==
  ASSUME IInv, NEW w \in Workers, Shutdown(w)
  PROVE  IInv'
<1>1. /\ pc[w] = "call" /\ step' = [step EXCEPT ![Job(w)] = "cancelled"]
      /\ calls' = [calls EXCEPT ![Job(w)] = calls[Job(w)] + 1]
      /\ UNCHANGED allocated /\ Restart(w)
  BY DEF Shutdown
<1>2. Job(w) \in Jobs /\ TypeOK
  BY <1>1, JobInHand DEF IInv
<1>3. /\ allocated[Job(w)] = 1 /\ step[Job(w)] = "running" /\ calls[Job(w)] = 0
      /\ \A v \in Workers \ {w} : ~ (Owns(v) /\ Job(v) = Job(w))
  BY <1>1 DEF IInv, WorkerFits, Owns, OneOwner
<1>4. /\ calls' \in [Jobs -> Nat] /\ calls'[Job(w)] = 1
      /\ step' \in [Jobs -> StepStatus]
      /\ \A j \in Jobs \ {Job(w)} : calls'[j] = calls[j] /\ step'[j] = step[j]
  BY <1>1, <1>2, <1>3 DEF TypeOK, StepStatus
<1>5. DatabaseType' /\ CallsFit'
  BY <1>1, <1>2, <1>3, <1>4, Types DEF IInv, DatabaseType, CallsFit
<1>6. \A j \in Jobs :
        \/ step'[j] = step[j] /\ allocated'[j] = allocated[j] /\ calls'[j] = calls[j]
        \/ step[j] = "running" /\ \A v \in Workers \ {w} : ~ (Owns(v) /\ Job(v) = j)
  BY <1>1, <1>3, <1>4
<1>7. UNCHANGED <<redis, pumping, operator>>
  BY <1>1 DEF Restart
<1> QED
  BY <1>1, <1>5, <1>6, <1>7, RestartFits, RowInv

-----------------------------------------------------------------------------
(* The invariant holds.                                                    *)

\* Nothing is dispatched at first.
LEMMA InitInv ==
  ASSUME Init
  PROVE  IInv
<1>1. DatabaseType /\ RestType
  BY JobStreamAssumption DEF Init, DatabaseType, RestType, StepStatus
<1>2. EntriesType /\ WorkerType
  BY JobStreamAssumption DEF Init, EntriesType, WorkerType, Outcomes
<1>3. TypeOK
  BY <1>1, <1>2, Types
<1>4. EntriesFit /\ LettersFit
  BY DEF Init, EntriesFit, LettersFit
<1>5. (\A w \in Workers : WorkerFits(w)) /\ OneOwner
  BY DEF Init, WorkerFits, OneOwner, Owns
<1>6. CallsFit /\ AckMeansStored
  BY DEF Init, CallsFit, AckMeansStored
<1>7. NoneLost
  BY DEF Init, NoneLost, Dispatched
<1> QED
  BY <1>3, <1>4, <1>5, <1>6, <1>7 DEF IInv

\* Every step preserves it.
LEMMA NextInv ==
  ASSUME IInv, [Next]_vars
  PROVE  IInv'
<1>1. CASE \E j \in Jobs : Enqueue(j)
  BY <1>1, EnqueueInv
<1>2. CASE \E m \in Entries : Age(m)
  BY <1>2, AgeInv
<1>3. CASE \E w \in Workers : WorkerStep(w) \/ HandleFails(w) \/ Shutdown(w) \/ Crash(w)
  <2>1. PICK w \in Workers : WorkerStep(w) \/ HandleFails(w) \/ Shutdown(w) \/ Crash(w)
    BY <1>3
  <2>2. CASE Read(w)
    BY <2>2, ReadInv
  <2>3. CASE ClaimStale(w)
    BY <2>3, ClaimStaleInv
  <2>4. CASE Take(w)
    BY <2>4, TakeInv
  <2>5. CASE CheckDuplicate(w)
    BY <2>5, CheckDuplicateInv
  <2>6. CASE AllocateAttempt(w)
    BY <2>6, AllocateAttemptInv
  <2>7. CASE CallProvider(w)
    BY <2>7, CallProviderInv
  <2>8. CASE StoreResult(w)
    BY <2>8, StoreResultInv
  <2>9. CASE Ack(w)
    BY <2>9, AckInv
  <2>10. CASE Fail(w)
    BY <2>10, FailInv
  <2>11. CASE HandleFails(w)
    BY <2>11, HandleFailsInv
  <2>12. CASE Shutdown(w)
    BY <2>12, ShutdownInv
  <2>13. CASE Crash(w)
    BY <2>13, CrashInv
  <2> QED
    BY <2>1, <2>2, <2>3, <2>4, <2>5, <2>6, <2>7, <2>8, <2>9, <2>10, <2>11, <2>12, <2>13
       DEF WorkerStep
<1>4. CASE \E p \in Pumps : PumpStep(p)
  BY <1>4, PumpReadInv, PumpMoveInv DEF PumpStep
<1>5. CASE Revive
  BY <1>5, ReviveInv
<1>6. CASE DeleteLetter
  BY <1>6, DeleteLetterInv
<1>7. CASE UNCHANGED vars
  <2>1. /\ UNCHANGED <<database, worker, retry, dead, results, pumping, operator, faults>>
        /\ UNCHANGED entries
    BY <1>7 DEF vars, redis
  <2>2. EntriesType' /\ RestType' /\ EntriesFit' /\ LettersFit' /\ PayloadsKept
    BY <2>1, Types DEF IInv, EntriesType, RestType, EntriesFit, LettersFit, PayloadsKept,
                       entries, operator
  <2>3. NoneLost'
    BY <2>1 DEF IInv, NoneLost, Dispatched, Kept, InStream, Lasting, database, entries, operator
  <2> QED
    BY <2>1, <2>2, <2>3, StreamInv
<1> QED
  BY <1>1, <1>2, <1>3, <1>4, <1>5, <1>6, <1>7 DEF Next

\* The inductive invariant: streams, workers and step rows fit together.
THEOREM JobsInvariant == Spec => []IInv
<1>1. Init => IInv
  BY InitInv
<1>2. IInv /\ [Next]_vars => IInv'
  BY NextInv
<1> QED
  BY <1>1, <1>2, PTL DEF Spec

\* Whatever is redelivered, taken over, retried or revived, the provider of
\* a job runs at most once.
THEOREM JobsAreCalledOnce == Spec => []CalledOnce
<1>1. IInv => CalledOnce
  <2>1. ASSUME IInv, NEW j \in Jobs PROVE calls[j] <= 1
    BY <2>1 DEF IInv, TypeOK, CallsFit
  <2> QED
    BY <2>1 DEF CalledOnce
<1> QED
  BY <1>1, JobsInvariant, PTL

\* No job is lost between Redis and the step rows, and an acknowledged job
\* has a stored result, through crashes between any two commands.
THEOREM NoJobIsLost == Spec => []JobsAreKept
<1>1. IInv => JobsAreKept
  <2>1. ASSUME IInv, NEW j \in Jobs, Dispatched(j)
        PROVE  step[j] = "succeeded" \/ InStream(j) \/ (\E r \in retry : r.job = j) \/ IsDead(j)
    BY <2>1 DEF IInv, NoneLost, Kept, Lasting, IsDead
  <2> QED
    BY <2>1 DEF IInv, JobsAreKept, NoJobLost
<1> QED
  BY <1>1, JobsInvariant, PTL
-----------------------------------------------------------------------------
(* The ledger.  A step of the system writes the rows of one job at most,   *)
(* and those move along the ledger.                                        *)

\* A step that leaves the rows and the results stream alone is no step of it.
LEMMA LedgerKept ==
  ASSUME UNCHANGED <<database, results>>
  PROVE  UNCHANGED Ledger!ledger
BY DEF database, Ledger!ledger, PhaseOf

\* The rows of one job change, and with them its place.
LEMMA OnePhase ==
  ASSUME NEW j \in Jobs, NEW to, PhaseOf(j)' = to,
         \A i \in Jobs \ {j} : step'[i] = step[i] /\ allocated'[i] = allocated[i] /\ calls'[i] = calls[i]
  PROVE  [i \in Jobs |-> PhaseOf(i)]' = [[i \in Jobs |-> PhaseOf(i)] EXCEPT ![j] = to]
<1>1. \A i \in Jobs \ {j} : PhaseOf(i)' = PhaseOf(i)
  BY DEF PhaseOf
<1> HIDE DEF PhaseOf
<1> QED
  BY <1>1

\* The attempt is claimed, or was claimed before.
LEMMA AllocateIsClaim ==
  ASSUME IInv, NEW w \in Workers, AllocateAttempt(w)
  PROVE  [Ledger!LedgerNext]_Ledger!ledger
<1>1. pc[w] = "alloc" /\ UNCHANGED <<step, calls, results>>
  BY DEF AllocateAttempt, redis
<1>0. PICK j \in Jobs : j = Job(w)
  BY <1>1, JobInHand
<1>2. allocated \in [Jobs -> 0..1] /\ calls \in [Jobs -> Nat]
  BY DEF IInv, TypeOK
<1>3. allocated' \in {allocated, [allocated EXCEPT ![j] = 1]}
  BY <1>0 DEF AllocateAttempt
<1>4. CASE allocated' = allocated
  BY <1>1, <1>4, LedgerKept DEF database
<1>5. CASE allocated' # allocated
  <2>1. allocated[j] = 0 /\ allocated'[j] = 1 /\ \A i \in Jobs \ {j} : allocated'[i] = allocated[i]
    BY <1>2, <1>3, <1>5
  <2>2. step[j] = "running" /\ calls[j] = 0
    BY <1>2, <2>1, Unowned
  <2>3. PhaseOf(j) = "waiting" /\ PhaseOf(j)' = "claimed"
    BY <1>1, <2>1, <2>2 DEF PhaseOf
  <2>4. Ledger!Claim(j)
    BY <1>1, <1>2, <2>1, <2>3, OnePhase DEF Ledger!Claim, Ledger!Move
  <2> QED
    BY <1>2, <2>4 DEF Ledger!LedgerNext
<1> QED
  BY <1>4, <1>5

\* The call is the only one of the job.
LEMMA CallIsCall ==
  ASSUME IInv, NEW w \in Workers, CallProvider(w)
  PROVE  Ledger!LedgerNext
<1>0. PICK j \in Jobs : j = Job(w)
  BY JobInHand DEF CallProvider
<1>1. pc[w] = "call" /\ calls' = [calls EXCEPT ![j] = calls[j] + 1] /\ UNCHANGED <<step, allocated, results>>
  BY <1>0 DEF CallProvider, redis
<1>2. calls \in [Jobs -> Nat]
  BY DEF IInv, TypeOK
<1>3. allocated[j] = 1 /\ step[j] = "running" /\ calls[j] = 0
  BY <1>1, <1>0 DEF IInv, WorkerFits, Owns
<1>4. calls'[j] = 1 /\ \A i \in Jobs \ {j} : calls'[i] = calls[i]
  BY <1>1, <1>2, <1>3
<1>5. PhaseOf(j) = "claimed" /\ PhaseOf(j)' = "called"
  BY <1>1, <1>3, <1>4 DEF PhaseOf
<1>6. Ledger!Call(j)
  BY <1>1, <1>2, <1>4, <1>5, OnePhase DEF Ledger!Call, Ledger!Move, Ledger!CountCall
<1> QED
  BY <1>2, <1>6 DEF Ledger!LedgerNext

\* So is a call that a shutdown cuts short.
LEMMA ShutdownIsCancel ==
  ASSUME IInv, NEW w \in Workers, Shutdown(w)
  PROVE  Ledger!LedgerNext
<1>0. PICK j \in Jobs : j = Job(w)
  BY JobInHand DEF Shutdown
<1>1. /\ pc[w] = "call" /\ step' = [step EXCEPT ![j] = "cancelled"]
      /\ calls' = [calls EXCEPT ![j] = calls[j] + 1] /\ UNCHANGED <<allocated, results>>
  BY <1>0 DEF Shutdown, Restart, redis
<1>2. calls \in [Jobs -> Nat] /\ step \in [Jobs -> StepStatus]
  BY DEF IInv, TypeOK
<1>3. allocated[j] = 1 /\ step[j] = "running" /\ calls[j] = 0
  BY <1>1, <1>0 DEF IInv, WorkerFits, Owns
<1>4. step'[j] = "cancelled" /\ \A i \in Jobs \ {j} : step'[i] = step[i] /\ calls'[i] = calls[i]
  BY <1>1, <1>2
<1>5. PhaseOf(j) = "claimed" /\ PhaseOf(j)' = "cancelled"
  BY <1>3, <1>4 DEF PhaseOf
<1>6. Ledger!Cancel(j)
  BY <1>1, <1>2, <1>4, <1>5, OnePhase DEF Ledger!Cancel, Ledger!Move, Ledger!CountCall
<1> QED
  BY <1>2, <1>6 DEF Ledger!LedgerNext

\* A result is written over no other.
LEMMA StoreIsRecord ==
  ASSUME IInv, NEW w \in Workers, StoreResult(w)
  PROVE  [Ledger!LedgerNext]_Ledger!ledger
<1>0. PICK j \in Jobs : j = Job(w)
  BY JobInHand DEF StoreResult
<1>00. PICK r \in {"succeeded", "retryable", "failed"} : r = StatusOf(outcome[w])
  BY DEF StatusOf
<1>1. /\ pc[w] = "store" /\ UNCHANGED <<allocated, calls, results>>
      /\ step' \in {step, [step EXCEPT ![j] = r]}
  BY <1>0, <1>00 DEF StoreResult, redis
<1>2. step \in [Jobs -> StepStatus]
  BY DEF IInv, TypeOK
<1>3. calls[j] = 1 /\ step[j] = "running"
  BY <1>1, <1>0 DEF IInv, WorkerFits, Owns
<1>4. CASE step' = step
  BY <1>1, <1>4, LedgerKept DEF database
<1>5. CASE step' = [step EXCEPT ![j] = r]
  <2>1. step'[j] = r /\ \A i \in Jobs \ {j} : step'[i] = step[i]
    BY <1>2, <1>5
  <2>2. PhaseOf(j) = "called" /\ PhaseOf(j)' = r
    BY <1>1, <1>3, <2>1 DEF PhaseOf
  <2>3. Ledger!Move(j, "called", r)
    BY <1>1, <1>2, <2>1, <2>2, OnePhase DEF Ledger!Move
  <2>4. Ledger!Record(j)
    BY <1>1, <2>3 DEF Ledger!Record
  <2> QED
    BY <1>2, <2>4 DEF Ledger!LedgerNext
<1> QED
  BY <1>1, <1>4, <1>5

\* Only a recorded success is announced.
LEMMA AckIsAnnounce ==
  ASSUME IInv, NEW w \in Workers, Ack(w)
  PROVE  Ledger!LedgerNext
<1>1. pc[w] = "ack" /\ UNCHANGED database /\ results' = results \cup {Job(w)}
  BY DEF Ack
<1>2. Job(w) \in Jobs /\ step[Job(w)] = "succeeded"
  BY <1>1, JobInHand DEF IInv, WorkerFits
<1>3. PhaseOf(Job(w)) = "succeeded" /\ UNCHANGED [i \in Jobs |-> PhaseOf(i)]
  BY <1>1, <1>2 DEF PhaseOf, database
<1>4. Ledger!Announce(Job(w))
  BY <1>1, <1>2, <1>3 DEF Ledger!Announce, database
<1> QED
  BY <1>2, <1>4 DEF Ledger!LedgerNext

\* Every step is a step of the ledger or none.
LEMMA LedgerStep == IInv /\ [Next]_vars => [Ledger!LedgerNext]_Ledger!ledger
<1> SUFFICES ASSUME IInv, [Next]_vars PROVE [Ledger!LedgerNext]_Ledger!ledger
  OBVIOUS
<1>1. ASSUME NEW w \in Workers, AllocateAttempt(w) \/ CallProvider(w) \/ StoreResult(w) \/ Ack(w) \/ Shutdown(w)
      PROVE  [Ledger!LedgerNext]_Ledger!ledger
  BY <1>1, AllocateIsClaim, CallIsCall, StoreIsRecord, AckIsAnnounce, ShutdownIsCancel
<1>2. ASSUME NEW w \in Workers,
             \/ Read(w) \/ ClaimStale(w) \/ Take(w) \/ CheckDuplicate(w) \/ Fail(w)
             \/ HandleFails(w) \/ Crash(w)
      PROVE  UNCHANGED <<database, results>>
  BY <1>2 DEF Read, ClaimStale, Take, CheckDuplicate, Fail, HandleFails, Crash, Restart, redis
<1>3. ASSUME \/ (\E j \in Jobs : Enqueue(j)) \/ (\E m \in Entries : Age(m))
             \/ (\E p \in Pumps : PumpStep(p)) \/ Revive \/ DeleteLetter \/ UNCHANGED vars
      PROVE  UNCHANGED <<database, results>>
  BY <1>3 DEF Enqueue, Age, PumpStep, PumpRead, PumpMove, Revive, DeleteLetter, vars, redis
<1> QED
  BY <1>1, <1>2, <1>3, LedgerKept DEF Next, WorkerStep

\* However jobs are redelivered, taken over by other workers, retried, revived
\* or cut short by crashes, each goes once through the ledger: one attempt,
\* one call, one result, and only a success is announced.
THEOREM QueueImplementsLedger == Spec => ImplementsLedger
<1>1. Init => Ledger!LedgerInit
  BY DEF Init, Ledger!LedgerInit, PhaseOf
<1> QED
  BY <1>1, LedgerStep, JobsInvariant, PTL DEF Spec, ImplementsLedger, Ledger!LedgerSpec
=============================================================================
