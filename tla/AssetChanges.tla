---------------------------- MODULE AssetChanges ----------------------------
(***************************************************************************)
(* What the runs of one program report.  A run of the web workflow probes  *)
(* its targets, compares what it saw with the last completed run of the    *)
(* program, crawls what is new or changed, classifies the endpoints,       *)
(* writes a brief into the change inbox, scans after an approval and       *)
(* writes an enriched brief.  Runs overlap, stop at the approval, fail and *)
(* lose their process; operators review the inbox, verify the scanner's    *)
(* candidates and promote them.                                            *)
(*                                                                         *)
(* How a run goes from step to step, and how an attempt owns its step, is  *)
(* the subject of WorkflowEngine and JobStream; here the steps that carry  *)
(* results are taken in order, and a lost process starts its step again.   *)
(***************************************************************************)
EXTENDS Naturals, Sequences, FiniteSets

CONSTANTS
  Runs,
  Urls,              \* what probe.http is given
  Pages,             \* what only a crawl finds
  Contents,          \* what a probe records of a URL: status and technology
  Weight,            \* the score of an endpoint's own signals
  Verdicts,          \* the evidence and impact verdicts a verification may have
  Dispositions,
  MaxReviews,        \* bound
  MaxVerifications,  \* bound
  MaxStamps,         \* bound: how often endpoints are classified
  Absent,            \* no record of the URL
  None

Endpoints == Urls \cup Pages
Sightings == [Urls -> Contents \cup {Absent}]
Nothing   == [u \in Urls |-> Absent]

\* A record need not have a status.
Unknown == 0

Verdict == [evidence : {"observed", "not_observed", "inconclusive"},
            impact   : {"unreviewed", "confirmed", "rejected"}]

\* What the playbooks find by themselves; only an exposed file has its impact
\* confirmed without a review.
Verify == {[evidence |-> "observed", impact |-> "confirmed"],
           [evidence |-> "observed", impact |-> "unreviewed"],
           [evidence |-> "not_observed", impact |-> "rejected"],
           [evidence |-> "inconclusive", impact |-> "unreviewed"]}

ASSUME ChangesAssumption ==
  /\ Urls \cap Pages = {}
  /\ Contents \subseteq [status : {Unknown} \cup 100..599, tech : STRING]
  /\ Absent \notin Contents
  /\ Weight \in [Endpoints -> Nat]
  /\ Verdicts \subseteq Verdict
  /\ Dispositions \subseteq {"unreviewed", "interesting", "investigating",
                             "expected_change", "not_relevant", "resolved"}
  /\ MaxReviews \in Nat /\ MaxVerifications \in Nat /\ MaxStamps \in Nat
  /\ None \notin Runs \cup Sightings \cup [first : Nat, last : Nat]

VARIABLES
  runs,           \* the workflow_runs and their step_runs
  completed,      \* the completed runs in the order of completed_at
  inbox,          \* the change_items
  reviews,        \* the change_reviews
  endpoints,      \* when each endpoints row was first and last seen
  clock,          \* orders the completion times of classify.endpoint
  candidates,     \* the candidate_findings and their status
  verifications,  \* the verification_results, oldest first
  verified,       \* the candidates with a verified_findings row
  promoting       \* the candidate whose promotion is under way

vars == <<runs, completed, inbox, reviews, endpoints, clock,
          candidates, verifications, verified, promoting>>

findings == <<verifications, verified, promoting>>

Steps == {"probe", "compare", "crawl", "classify", "report", "finish", "completed", "failed"}

\* read is what this process has read of the past and not yet stored.
Run == [step     : Steps,
        pc       : {"ready", "read", "stored", "executed"},
        seen     : Sightings,
        read     : Sightings \cup {None},
        previous : Sightings \cup {None},   \* the stored input of compare.assets
        history  : Sightings \cup {None},   \* the stored input of classify.endpoint
        crawled  : SUBSET Pages,
        stamp    : Nat,                     \* the completion time of classify.endpoint
        brief    : BOOLEAN,                 \* generate-recon-brief has succeeded
        scan     : BOOLEAN,                 \* scan.nuclei has succeeded or was skipped
        matches  : SUBSET Urls]

NewRun == [step |-> "probe", pc |-> "ready", seen |-> Nothing, read |-> None,
           previous |-> None, history |-> None, crawled |-> {}, stamp |-> 0,
           brief |-> FALSE, scan |-> FALSE, matches |-> {}]

Kinds == {"new_or_changed", "removed", "endpoint", "candidate_finding"}

Item == [run : Runs, kind : Kinds, key : Endpoints,
         before : Contents \cup {Absent}, now : Contents \cup {Absent}, evidence : BOOLEAN]

Candidates == Runs \X Urls

-----------------------------------------------------------------------------
(* compare.assets                                                          *)

\* The keys under which the URL changed: nothing, or one of the two kinds.
Changed(now, before) == {u \in Urls : now[u] # Absent /\ now[u] # before[u]}

Removed(now, before) == {u \in Urls : now[u] = Absent /\ before[u] # Absent}

\* Other answers are reported and neither crawled nor scanned.
StatusRoutes == [active |-> 200..299, redirects |-> {301, 302, 307, 308},
                 authentication |-> {401, 403}]

Routed(run, route) ==
  {u \in Changed(run.seen, run.previous) : run.seen[u].status \in StatusRoutes[route]}

CrawlTargets(r) == Routed(runs[r], "active")

ScanTargets(r) == UNION {Routed(runs[r], route) : route \in DOMAIN StatusRoutes}

-----------------------------------------------------------------------------
(* classify.endpoint                                                       *)

Probed(run) == {u \in Urls : run.seen[u] # Absent}

Classified(run) == Probed(run) \cup run.crawled

SeenBefore(run, e) == e \in Urls /\ run.history[e] # Absent

\* A status that is not known says nothing.
StatusChanged(run, e) ==
  /\ SeenBefore(run, e) /\ e \in Probed(run)
  /\ run.seen[e].status # Unknown /\ run.history[e].status # Unknown
  /\ run.seen[e].status # run.history[e].status

\* An empty list of technologies says nothing.
TechnologyChanged(run, e) ==
  /\ SeenBefore(run, e) /\ e \in Probed(run)
  /\ run.seen[e].tech # "" /\ run.history[e].tech # ""
  /\ run.seen[e].tech # run.history[e].tech

\* A changed status weighs no more than a changed technology.
MutScore(run, e) ==
  Weight[e] + (IF StatusChanged(run, e) \/ TechnologyChanged(run, e) THEN 1 ELSE 0)

Score(run, e) ==
  LET signal(is, weight) == IF is THEN weight ELSE 0
  IN  Weight[e] + signal(StatusChanged(run, e), 2) + signal(TechnologyChanged(run, e), 1)
                + signal(~SeenBefore(run, e) /\ run.history # Nothing, 1)

InterestingEndpoints(run) == {e \in Classified(run) : Score(run, e) >= 2}

-----------------------------------------------------------------------------
(* report.changes and the inbox                                            *)

AssetItems(r) ==
  LET now == runs[r].seen
      before == runs[r].previous
      item(kind, u) == [run |-> r, kind |-> kind, key |-> u,
                        before |-> before[u], now |-> now[u], evidence |-> FALSE]
  IN  {item("new_or_changed", u) : u \in Changed(now, before)}
      \cup {item("removed", u) : u \in Removed(now, before)}

EndpointItems(r) ==
  LET run == runs[r]
      news == {e \in InterestingEndpoints(run) :
                 ~SeenBefore(run, e) \/ StatusChanged(run, e) \/ TechnologyChanged(run, e)}
  IN  {[run |-> r, kind |-> "endpoint", key |-> e, before |-> Absent,
        now |-> IF e \in Urls THEN run.seen[e] ELSE Absent, evidence |-> FALSE] : e \in news}

\* Only the items written with the scan's own result name its artifacts.
CandidateItems(r, matches, evidence) ==
  {[run |-> r, kind |-> "candidate_finding", key |-> u, before |-> Absent,
    now |-> runs[r].seen[u], evidence |-> evidence] : u \in matches}

SameChange(i, j) == i.run = j.run /\ i.kind = j.kind /\ i.key = j.key

\* The later item replaces the earlier one.
MutPersistChangeItems(items) ==
  inbox' = items \cup {i \in inbox : \A j \in items : ~SameChange(i, j)}

\* An item of the same run, kind and key is left as it is.
persistChangeItems(items) ==
  inbox' = inbox \cup {i \in items : \A j \in inbox : ~SameChange(i, j)}

-----------------------------------------------------------------------------
(* The past of a run                                                       *)

\* The run that ended last, completed or not.
MutPreviousObservationValues(r) ==
  LET ended == {q \in Runs \ {r} : runs[q].step \in {"completed", "failed"}}
  IN  IF ended = {} THEN Nothing ELSE runs[CHOOSE q \in ended : TRUE].seen

\* What the run that completed last has seen.
PreviousObservationValues(r) ==
  LET latest(k) == completed[k] # r /\ \A j \in k+1..Len(completed) : completed[j] = r
  IN  IF \E k \in 1..Len(completed) : latest(k)
      THEN runs[completed[CHOOSE k \in 1..Len(completed) : latest(k)]].seen
      ELSE Nothing

InputOf(run) == IF run.step = "compare" THEN run.previous ELSE run.history

\* A later attempt takes the input of the first one.
LoadEffectiveStepInput(r) ==
  /\ runs[r].step \in {"compare", "classify"} /\ runs[r].pc = "ready"
  /\ runs' = IF InputOf(runs[r]) # None
             THEN [runs EXCEPT ![r].pc = "stored"]
             ELSE [runs EXCEPT ![r].pc = "read", ![r].read = PreviousObservationValues(r)]
  /\ UNCHANGED <<completed, inbox, reviews, endpoints, clock, candidates, findings>>

PersistEffectiveStepInput(r) ==
  /\ runs[r].pc = "read"
  /\ LET run == runs[r]
         kept == [run EXCEPT !.pc = "stored", !.read = None]
     IN  runs' = [runs EXCEPT ![r] = IF run.step = "compare"
                                     THEN [kept EXCEPT !.previous = run.read]
                                     ELSE [kept EXCEPT !.history = run.read]]
  /\ UNCHANGED <<completed, inbox, reviews, endpoints, clock, candidates, findings>>

-----------------------------------------------------------------------------
Init ==
  /\ runs = [r \in Runs |-> NewRun]
  /\ completed = <<>> /\ inbox = {} /\ reviews = {}
  /\ endpoints = [e \in Endpoints |-> None] /\ clock = 0
  /\ candidates = {} /\ verifications = <<>> /\ verified = {} /\ promoting = None

Goto(r, step) == [runs EXCEPT ![r].step = step, ![r].pc = "ready"]

\* A successful probe stores what it saw; a failed one stores nothing.
Probe(r) ==
  /\ runs[r].step = "probe"
  /\ \E now \in Sightings : runs' = [Goto(r, "compare") EXCEPT ![r].seen = now]
  /\ UNCHANGED <<completed, inbox, reviews, endpoints, clock, candidates, findings>>

CompareAssets(r) ==
  /\ runs[r].step = "compare" /\ runs[r].pc = "stored"
  /\ runs' = Goto(r, "crawl")
  /\ UNCHANGED <<completed, inbox, reviews, endpoints, clock, candidates, findings>>

\* The crawl is skipped when it has no targets.
Crawl(r) ==
  /\ runs[r].step = "crawl"
  /\ \E found \in SUBSET Pages :
       /\ CrawlTargets(r) = {} => found = {}
       /\ runs' = [Goto(r, "classify") EXCEPT ![r].crawled = found]
  /\ UNCHANGED <<completed, inbox, reviews, endpoints, clock, candidates, findings>>

\* The completion time is read before the transaction that stores the result.
ClassifyEndpoint(r) ==
  /\ runs[r].step = "classify" /\ runs[r].pc = "stored"
  /\ clock < MaxStamps /\ clock' = clock + 1
  /\ runs' = [runs EXCEPT ![r].pc = "executed", ![r].stamp = clock + 1]
  /\ UNCHANGED <<completed, inbox, reviews, endpoints, candidates, findings>>

\* The row takes the times of the transaction that is stored last.
MutSeenAt(row, time) == [first |-> IF row = None THEN time ELSE row.first, last |-> time]

SeenAt(row, time) ==
  IF row = None THEN [first |-> time, last |-> time]
  ELSE [first |-> IF time < row.first THEN time ELSE row.first,
        last  |-> IF time > row.last THEN time ELSE row.last]

persistEndpoints(r) ==
  /\ runs[r].step = "classify" /\ runs[r].pc = "executed"
  /\ endpoints' = [e \in Endpoints |->
                     IF e \in Classified(runs[r]) THEN SeenAt(endpoints[e], runs[r].stamp)
                     ELSE endpoints[e]]
  /\ runs' = Goto(r, "report")
  /\ UNCHANGED <<completed, inbox, reviews, clock, candidates, findings>>

\* The first brief and the scan both wait for the classification only.
GenerateBrief(r) ==
  /\ runs[r].step = "report" /\ ~runs[r].brief
  /\ persistChangeItems(AssetItems(r) \cup EndpointItems(r))
  /\ runs' = [runs EXCEPT ![r].brief = TRUE]
  /\ UNCHANGED <<completed, reviews, endpoints, clock, candidates, findings>>

SkipScan(r) ==
  /\ runs[r].step = "report" /\ ~runs[r].scan /\ ScanTargets(r) = {}
  /\ runs' = [runs EXCEPT ![r].scan = TRUE]
  /\ UNCHANGED <<completed, inbox, reviews, endpoints, clock, candidates, findings>>

\* An approved scan.  Candidates are rows of their own, stored with their items.
Scan(r) ==
  /\ runs[r].step = "report" /\ ~runs[r].scan /\ ScanTargets(r) # {}
  /\ \E matches \in SUBSET ScanTargets(r) :
       /\ runs' = [runs EXCEPT ![r].scan = TRUE, ![r].matches = matches]
       /\ candidates' = candidates \cup
            {[id |-> <<r, u>>, status |-> "new"] : u \in matches}
       /\ persistChangeItems(CandidateItems(r, matches, TRUE))
  /\ UNCHANGED <<completed, reviews, endpoints, clock, findings>>

EnrichBrief(r) ==
  /\ runs[r].step = "report" /\ runs[r].brief /\ runs[r].scan
  /\ persistChangeItems(AssetItems(r) \cup EndpointItems(r)
                        \cup CandidateItems(r, runs[r].matches, FALSE))
  /\ runs' = Goto(r, "finish")
  /\ UNCHANGED <<completed, reviews, endpoints, clock, candidates, findings>>

Complete(r) ==
  /\ runs[r].step = "finish"
  /\ runs' = Goto(r, "completed")
  /\ completed' = Append(completed, r)
  /\ UNCHANGED <<inbox, reviews, endpoints, clock, candidates, findings>>

\* The run of a failed step is completed all the same.
MutFail(r) ==
  /\ runs[r].step \notin {"finish", "completed", "failed"}
  /\ runs' = [Goto(r, "failed") EXCEPT ![r].read = None,
                 ![r].stamp = IF runs[r].pc = "executed" THEN 0 ELSE @]
  /\ completed' = Append(completed, r)
  /\ UNCHANGED <<inbox, reviews, endpoints, clock, candidates, findings>>

\* A step that fails for good, a rejected approval or a cancelled task.
Fail(r) ==
  /\ runs[r].step \notin {"finish", "completed", "failed"}
  /\ runs' = [Goto(r, "failed") EXCEPT ![r].read = None,
                 ![r].stamp = IF runs[r].pc = "executed" THEN 0 ELSE @]
  /\ UNCHANGED <<completed, inbox, reviews, endpoints, clock, candidates, findings>>

\* The process is lost between two transactions of a step.
Crash(r) ==
  /\ runs[r].pc # "ready"
  /\ runs' = [runs EXCEPT ![r].pc = "ready", ![r].read = None, ![r].stamp = 0]
  /\ UNCHANGED <<completed, inbox, reviews, endpoints, clock, candidates, findings>>

-----------------------------------------------------------------------------
(* Operators                                                               *)

ReviewChangeItem ==
  \E i \in inbox, d \in Dispositions :
    /\ Cardinality(reviews) < MaxReviews \/ \E v \in reviews : v.item = i
    /\ reviews' = {v \in reviews : v.item # i} \cup {[item |-> i, disposition |-> d]}
    /\ UNCHANGED <<runs, completed, inbox, endpoints, clock, candidates, findings>>

Ids == {c.id : c \in candidates}

RecordVerification ==
  /\ Len(verifications) < MaxVerifications
  /\ \E c \in Ids, v \in Verdicts :
       verifications' = Append(verifications, [candidate |-> c, verdict |-> v])
  /\ UNCHANGED <<runs, completed, inbox, reviews, endpoints, clock, candidates, verified, promoting>>

Latest(c, k) ==
  /\ verifications[k].candidate = c
  /\ \A j \in k+1..Len(verifications) : verifications[j].candidate # c

Promotable(c) ==
  \E k \in 1..Len(verifications) :
    /\ Latest(c, k)
    /\ verifications[k].verdict = [evidence |-> "observed", impact |-> "confirmed"]

\* The latest verification is read without a lock, and the finding written after.
PromoteBegin ==
  /\ promoting = None
  /\ \E c \in Ids : Promotable(c) /\ promoting' = c
  /\ UNCHANGED <<runs, completed, inbox, reviews, endpoints, clock, candidates, verifications, verified>>

PromoteVerifiedFinding ==
  /\ promoting # None
  /\ verified' = verified \cup {promoting}
  /\ candidates' = {c \in candidates : c.id # promoting}
                   \cup {[id |-> promoting, status |-> "confirmed"]}
  /\ promoting' = None
  /\ UNCHANGED <<runs, completed, inbox, reviews, endpoints, clock, verifications>>

-----------------------------------------------------------------------------
Next ==
  \/ \E r \in Runs :
       \/ Probe(r) \/ LoadEffectiveStepInput(r) \/ PersistEffectiveStepInput(r)
       \/ CompareAssets(r) \/ Crawl(r) \/ ClassifyEndpoint(r) \/ persistEndpoints(r)
       \/ GenerateBrief(r) \/ SkipScan(r) \/ Scan(r) \/ EnrichBrief(r) \/ Complete(r)
       \/ Fail(r) \/ Crash(r)
  \/ ReviewChangeItem \/ RecordVerification \/ PromoteBegin \/ PromoteVerifiedFinding

Spec == Init /\ [][Next]_vars

-----------------------------------------------------------------------------
(* Properties                                                              *)

\* Every row, stored input and history value is of its declared kind, and no
\* two items of the inbox are of one run, kind and key: the unique index on
\* which persistChangeItems relies.
TypeOK ==
  /\ runs \in [Runs -> Run]
  /\ completed \in Seq(Runs) /\ inbox \subseteq Item
  /\ \A i, j \in inbox : SameChange(i, j) => i = j
  /\ \A v \in reviews : v.item \in inbox /\ v.disposition \in Dispositions
  /\ \A e \in Endpoints : endpoints[e] = None \/ endpoints[e] \in [first : Nat, last : Nat]
  /\ clock \in 0..MaxStamps
  /\ candidates \subseteq [id : Candidates, status : {"new", "confirmed"}]
  /\ \A c, d \in candidates : c.id = d.id => c = d
  /\ \A k \in DOMAIN verifications : verifications[k].candidate \in Ids
  /\ verified \cup ({promoting} \ {None}) \subseteq Ids

AssetsOf(r, u) ==
  {i \in inbox : i.run = r /\ i.key = u /\ i.kind \in {"new_or_changed", "removed"}}

\* executeCompareAssets, PreviousObservationValues and persistChangeItems: once
\* a run has written its brief, its asset items take what one run saw, a run
\* that has completed (or nothing, for the first), to exactly what this run saw.
\* No item tells of a URL that is as it was, none is missing, and no failed or
\* unfinished run is ever taken for the past, however the runs overlap, fail and
\* lose their processes.
InboxReplays ==
  \A r \in {q \in Runs : runs[q].brief} :
    \E past \in {Nothing} \cup {runs[completed[k]].seen : k \in DOMAIN completed} :
      \A u \in Urls :
        \/ AssetsOf(r, u) = {} /\ runs[r].seen[u] = past[u]
        \/ \E i \in AssetsOf(r, u) :
             /\ AssetsOf(r, u) = {i} /\ i.before = past[u] /\ i.now = runs[r].seen[u]
             /\ i.before # i.now /\ (i.kind = "removed" <=> i.now = Absent)

\* The compared run is one that completed: what a completed run saw of a URL has
\* been announced in the inbox by a run that completed, this one or one before.
\* A run that failed before its brief never hides a change from later runs.
SeenIsAnnounced ==
  LET done == {completed[k] : k \in DOMAIN completed}
  IN  \A r \in done, u \in Urls : runs[r].seen[u] # Absent =>
        \E i \in inbox : /\ i.run \in done /\ i.kind = "new_or_changed"
                         /\ i.key = u /\ i.now = runs[r].seen[u]

\* Classify and executeCompareAssets look at the same pair of records by
\* different rules: when both used the same past, a URL whose status changed
\* from one known code to another is in the brief as an asset and as an endpoint.
BriefsAgree ==
  \A r \in Runs : runs[r].brief /\ runs[r].previous = runs[r].history =>
    \A u \in Urls :
      LET before == runs[r].previous[u]
          now == runs[r].seen[u]
          changed == /\ before # Absent /\ now # Absent
                     /\ before.status # now.status
                     /\ Unknown \notin {before.status, now.status}
      IN  changed =>
            {"new_or_changed", "endpoint"} \subseteq {i.kind : i \in {j \in inbox : j.run = r /\ j.key = u}}

\* persistEndpoints: an endpoint was first and last seen at the earliest and the
\* latest completion time of the classifications that found it, in whatever
\* order their transactions were committed.
EndpointSpan ==
  \A e \in Endpoints :
    LET stored == {r \in Runs : /\ runs[r].stamp > 0 /\ runs[r].pc # "executed"
                                /\ e \in Classified(runs[r])}
        times  == {runs[r].stamp : r \in stored}
    IN  IF times = {} THEN endpoints[e] = None
        ELSE /\ {endpoints[e].first, endpoints[e].last} \subseteq times
             /\ \A t \in times : endpoints[e].first <= t /\ t <= endpoints[e].last

\* PromoteVerifiedFinding: a verified finding has a confirmed candidate and a
\* verification that observed the behaviour and confirmed its impact, also when
\* other verifications are recorded while it is promoted.
PromotedOnEvidence ==
  \A c \in verified :
    /\ [id |-> c, status |-> "confirmed"] \in candidates
    /\ \E k \in DOMAIN verifications :
         verifications[k] = [candidate |-> c,
           verdict |-> [evidence |-> "observed", impact |-> "confirmed"]]

\* The rows that several runs and operators write agree with each other.
RowsAgree == TypeOK /\ EndpointSpan /\ PromotedOnEvidence

\* change_items are immutable: neither the second brief, which reports the same
\* changes and candidates without their evidence, nor a review or another run
\* alters or removes an item.
ItemsAreImmutable == [][inbox \subseteq inbox']_vars
=============================================================================
