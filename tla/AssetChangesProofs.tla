------------------------- MODULE AssetChangesProofs -------------------------
(***************************************************************************)
(* What the change inbox, the endpoint rows and the findings promise for   *)
(* every number of runs that overlap, fail and lose their processes.  The  *)
(* invariant says where the past of a run comes from, when it is frozen,   *)
(* and that the inbox holds exactly what the run's stored inputs imply.    *)
(***************************************************************************)
EXTENDS AssetChanges, SequenceTheorems, TLAPS

\* What a run may take for the past.
Pasts == {Nothing} \cup {runs[completed[k]].seen : k \in DOMAIN completed}

Settled == {"report", "finish", "completed", "failed"}

\* How far a run is, and which of its inputs are stored by then.
RunFits(run, pasts) ==
  /\ run.read # None => run.read \in pasts
  /\ run.previous # None => run.previous \in pasts
  /\ run.history # None => run.history \in pasts
  /\ run.pc \in {"read", "stored"} => run.step \in {"compare", "classify"}
  /\ run.pc = "read" => run.read # None
  /\ run.pc = "stored" => InputOf(run) # None
  /\ run.pc = "executed" => run.step = "classify" /\ run.history # None /\ run.stamp > 0
  /\ run.step \in {"crawl", "classify", "report", "finish", "completed"} => run.previous # None
  /\ run.step \in {"report", "finish", "completed"} => run.history # None
  /\ run.brief => run.step \in Settled /\ run.previous # None /\ run.history # None
  /\ run.step \in {"finish", "completed"} => run.brief
  /\ run.stamp > 0 /\ run.pc # "executed" => run.step \in Settled

RunsFit == \A r \in Runs : RunFits(runs[r], Pasts)

CompletedFit == \A k \in DOMAIN completed : runs[completed[k]].step = "completed"

\* What a brief reports, and what of it is in the inbox.
Items(r) == AssetItems(r) \cup EndpointItems(r)

BriefItems(r) == {i \in inbox : i.run = r /\ i.kind # "candidate_finding"}

InboxFits == \A r \in Runs : BriefItems(r) = IF runs[r].brief THEN Items(r) ELSE {}

\* A candidate comes from a scan, and a promotion from a verification.
Verification == [candidate : Candidates, verdict : Verdict]

Evidence(c) ==
  \E k \in DOMAIN verifications :
    verifications[k] = [candidate |-> c,
                        verdict |-> [evidence |-> "observed", impact |-> "confirmed"]]

FindingsFit ==
  /\ \A c \in candidates : runs[c.id[1]].scan
  /\ verifications \in Seq(Verification)
  /\ promoting # None => Evidence(promoting)

\* The classifications whose rows are stored, and their completion times.
Stored(run) == run.stamp > 0 /\ run.pc # "executed"

Times(e) == {runs[r].stamp : r \in {q \in Runs : Stored(runs[q]) /\ e \in Classified(runs[q])}}

RowsFit == \A e \in Endpoints : endpoints[e] = None => Times(e) = {}

IInv ==
  /\ TypeOK
  /\ RunsFit /\ CompletedFit
  /\ InboxFits /\ SeenIsAnnounced
  /\ EndpointSpan /\ RowsFit
  /\ FindingsFit /\ PromotedOnEvidence

-----------------------------------------------------------------------------
(* The operators.                                                          *)

\* What a run compares with is what a completed run saw, or nothing.
LEMMA PastIsCompleted ==
  ASSUME TypeOK, NEW r \in Runs
  PROVE  PreviousObservationValues(r) \in Pasts /\ Pasts \subseteq Sightings
<1>1. completed \in Seq(Runs) /\ runs \in [Runs -> Run]
  BY DEF TypeOK
<1>2. DOMAIN completed = 1..Len(completed) /\ \A k \in DOMAIN completed : completed[k] \in Runs
  BY <1>1
<1>3. Nothing \in Sightings
  BY DEF Nothing, Sightings
<1>4. \A q \in Runs : runs[q].seen \in Sightings
  BY <1>1 DEF Run
<1> QED
  BY <1>2, <1>3, <1>4 DEF PreviousObservationValues, Pasts

\* The items of a brief: one for each kind and key.
LEMMA ItemsAreDistinct ==
  ASSUME NEW r \in Runs, runs[r] \in Run, runs[r].previous # None
  PROVE  /\ Items(r) \subseteq Item
         /\ \A i \in Items(r) : i.run = r /\ i.kind # "candidate_finding"
         /\ \A i, j \in Items(r) : SameChange(i, j) => i = j
<1>1. runs[r].seen \in Sightings /\ runs[r].previous \in Sightings /\ runs[r].crawled \subseteq Pages
  BY DEF Run
<1>2. /\ \A u \in Urls : runs[r].seen[u] \in Contents \cup {Absent} /\ runs[r].previous[u] \in Contents \cup {Absent}
      /\ Urls \subseteq Endpoints /\ Pages \subseteq Endpoints
  BY <1>1 DEF Sightings, Endpoints
<1> DEFINE Asset(k, u) == [run |-> r, kind |-> k, key |-> u, before |-> runs[r].previous[u],
                           now |-> runs[r].seen[u], evidence |-> FALSE]
           Now(e) == IF e \in Urls THEN runs[r].seen[e] ELSE Absent
           Endpoint(e) == [run |-> r, kind |-> "endpoint", key |-> e, before |-> Absent,
                           now |-> Now(e), evidence |-> FALSE]
<1>3. /\ AssetItems(r) \subseteq Item
      /\ \A i \in AssetItems(r) : i.run = r /\ i.kind \in {"new_or_changed", "removed"}
      /\ \A i, j \in AssetItems(r) : SameChange(i, j) => i = j
  <2>1. \A i \in AssetItems(r) : \E k \in {"new_or_changed", "removed"}, u \in Urls : i = Asset(k, u)
    BY DEF AssetItems, Changed, Removed
  <2>2. ASSUME NEW k \in {"new_or_changed", "removed"}, NEW u \in Urls
        PROVE  /\ Asset(k, u) \in Item
               /\ Asset(k, u).run = r /\ Asset(k, u).kind = k /\ Asset(k, u).key = u
    BY <1>2 DEF Item, Kinds
  <2> HIDE DEF Asset
  <2> QED
    BY <2>1, <2>2 DEF SameChange
<1>4. Classified(runs[r]) \subseteq Endpoints
  BY <1>1, <1>2 DEF Classified, Probed
<1>5. InterestingEndpoints(runs[r]) \subseteq Endpoints
  BY <1>4 DEF InterestingEndpoints
<1>6. /\ EndpointItems(r) \subseteq Item
      /\ \A i \in EndpointItems(r) : i.run = r /\ i.kind = "endpoint"
      /\ \A i, j \in EndpointItems(r) : SameChange(i, j) => i = j
  <2>1. \A i \in EndpointItems(r) : \E e \in Endpoints : i = Endpoint(e)
    BY <1>5 DEF EndpointItems
  <2>2. ASSUME NEW e \in Endpoints
        PROVE  /\ Endpoint(e) \in Item
               /\ Endpoint(e).run = r /\ Endpoint(e).kind = "endpoint" /\ Endpoint(e).key = e
    <3>1. Now(e) \in Contents \cup {Absent}
      BY <1>2
    <3> HIDE DEF Now
    <3> QED
      BY <3>1 DEF Item, Kinds
  <2> HIDE DEF Endpoint
  <2> QED
    BY <2>1, <2>2 DEF SameChange
<1> QED
  BY <1>3, <1>6 DEF Items, SameChange

\* The items of a brief depend on the stored inputs and nothing else.
Same(x, y) ==
  y.seen = x.seen /\ y.previous = x.previous /\ y.history = x.history /\ y.crawled = x.crawled

\* A run whose stored inputs stay keeps its items.
LEMMA ItemsAreKept ==
  ASSUME NEW r \in Runs, Same(runs[r], runs'[r])
  PROVE  Items(r)' = Items(r)
<1>1. AssetItems(r)' = AssetItems(r)
  BY DEF AssetItems, Same
<1>2. /\ Classified(runs[r])' = Classified(runs[r])
      /\ \A e : SeenBefore(runs[r], e)' = SeenBefore(runs[r], e)
      /\ \A e : StatusChanged(runs[r], e)' = StatusChanged(runs[r], e)
      /\ \A e : TechnologyChanged(runs[r], e)' = TechnologyChanged(runs[r], e)
  BY DEF Classified, Probed, SeenBefore, StatusChanged, TechnologyChanged, Same
<1>3. \A e : Score(runs[r], e)' = Score(runs[r], e)
  BY <1>2 DEF Score, Same
<1>4. InterestingEndpoints(runs[r])' = InterestingEndpoints(runs[r])
  BY <1>2, <1>3 DEF InterestingEndpoints
<1>5. EndpointItems(r)' = EndpointItems(r)
  BY <1>2, <1>4 DEF EndpointItems, Same
<1> QED
  BY <1>1, <1>5 DEF Items
-----------------------------------------------------------------------------
(* What the steps of a run have in common.                                 *)

\* One run moves; what the completed runs saw does not, so every past stays
\* a past.
LEMMA RunMoves ==
  ASSUME IInv, NEW r \in Runs, NEW y \in Run, runs' = [runs EXCEPT ![r] = y],
         runs[r].step # "completed", RunFits(y, Pasts),
         completed' = completed \/ (completed' = Append(completed, r) /\ y.step = "completed")
  PROVE  /\ runs' \in [Runs -> Run] /\ runs'[r] = y /\ \A q \in Runs \ {r} : runs'[q] = runs[q]
         /\ completed' \in Seq(Runs) /\ DOMAIN completed \subseteq DOMAIN completed'
         /\ \A k \in DOMAIN completed :
              /\ completed'[k] = completed[k] /\ completed[k] \in Runs \ {r}
              /\ runs'[completed[k]] = runs[completed[k]]
         /\ Pasts \subseteq Pasts'
         /\ RunsFit' /\ CompletedFit'
<1>1. runs \in [Runs -> Run] /\ completed \in Seq(Runs)
  BY DEF IInv, TypeOK
<1>2. runs' \in [Runs -> Run] /\ runs'[r] = y /\ \A q \in Runs \ {r} : runs'[q] = runs[q]
  BY <1>1
<1>3. \A k \in DOMAIN completed : completed[k] \in Runs \ {r} /\ runs'[completed[k]] = runs[completed[k]]
  BY <1>1, <1>2 DEF IInv, CompletedFit
<1>4. /\ completed' \in Seq(Runs) /\ DOMAIN completed \subseteq DOMAIN completed'
      /\ \A k \in DOMAIN completed : completed'[k] = completed[k]
      /\ \A k \in DOMAIN completed' \ DOMAIN completed : completed'[k] = r /\ y.step = "completed"
  BY <1>1
<1>5. Pasts \subseteq Pasts'
  BY <1>3, <1>4 DEF Pasts
<1>6. RunsFit'
  <2>1. ASSUME NEW x, RunFits(x, Pasts) PROVE RunFits(x, Pasts')
    BY <1>5, <2>1 DEF RunFits
  <2> QED
    BY <1>2, <2>1 DEF RunsFit, IInv
<1>7. CompletedFit'
  BY <1>2, <1>3, <1>4 DEF CompletedFit, IInv
<1> QED
  BY <1>2, <1>3, <1>4, <1>5, <1>6, <1>7

\* No run completes: what the completed runs saw is still announced.
LEMMA AnnouncedKept ==
  ASSUME SeenIsAnnounced, completed' = completed, inbox \subseteq inbox',
         \A k \in DOMAIN completed : runs'[completed[k]] = runs[completed[k]]
  PROVE  SeenIsAnnounced'
BY DEF SeenIsAnnounced

\* The endpoint rows are not written, and the run has stored what it had.
LEMMA SpanKept ==
  ASSUME IInv, NEW r \in Runs, NEW y \in Run, runs' = [runs EXCEPT ![r] = y], endpoints' = endpoints,
         Stored(y) <=> Stored(runs[r]),
         Stored(y) => y.stamp = runs[r].stamp /\ y.seen = runs[r].seen /\ y.crawled = runs[r].crawled
  PROVE  EndpointSpan' /\ RowsFit'
<1>1. runs'[r] = y /\ \A q \in Runs \ {r} : runs'[q] = runs[q]
  BY DEF IInv, TypeOK
<1>2. ASSUME NEW q \in Runs
      PROVE  /\ Stored(runs'[q]) <=> Stored(runs[q])
             /\ Stored(runs[q]) => /\ runs'[q].stamp = runs[q].stamp
                                   /\ Classified(runs'[q]) = Classified(runs[q])
  BY <1>1 DEF Classified, Probed
<1>3. \A e \in Endpoints : Times(e)' = Times(e)
  BY <1>2 DEF Times
<1> QED
  BY <1>3 DEF EndpointSpan, RowsFit, Times, Stored, IInv

\* The findings are not written, and a scan that is done stays done.
LEMMA FindingsKept ==
  ASSUME IInv, UNCHANGED <<candidates, findings>>,
         \A q \in Runs : runs[q].scan => runs'[q].scan
  PROVE  FindingsFit' /\ PromotedOnEvidence'
<1>1. \A c \in candidates : c.id[1] \in Runs
  BY DEF IInv, TypeOK, Candidates
<1>2. UNCHANGED <<candidates, verifications, verified, promoting>>
  BY DEF findings
<1> QED
  BY <1>1, <1>2 DEF IInv, FindingsFit, PromotedOnEvidence, Evidence

\* The types of everything but the runs and the inbox.
RestType ==
  /\ \A e \in Endpoints : endpoints[e] = None \/ endpoints[e] \in [first : Nat, last : Nat]
  /\ clock \in 0..MaxStamps
  /\ candidates \subseteq [id : Candidates, status : {"new", "confirmed"}]
  /\ \A c, d \in candidates : c.id = d.id => c = d
  /\ \A k \in DOMAIN verifications : verifications[k].candidate \in Ids
  /\ verified \cup ({promoting} \ {None}) \subseteq Ids

\* They are kept by a step that writes at most the clock.
LEMMA RestKept ==
  ASSUME IInv, UNCHANGED <<endpoints, candidates, findings>>, clock' \in 0..MaxStamps
  PROVE  RestType'
BY DEF IInv, TypeOK, RestType, findings, Ids

\* No brief is written, and a run that has written one keeps its inputs.
LEMMA InboxKept ==
  ASSUME InboxFits, NEW r \in Runs, \A q \in Runs \ {r} : runs'[q] = runs[q],
         runs'[r].brief <=> runs[r].brief, runs[r].brief => Same(runs[r], runs'[r]),
         \A q \in Runs : BriefItems(q)' = BriefItems(q)
  PROVE  InboxFits'
<1>1. ASSUME NEW q \in Runs PROVE BriefItems(q)' = IF runs'[q].brief THEN Items(q)' ELSE {}
  <2>1. BriefItems(q)' = BriefItems(q) /\ (runs'[q].brief <=> runs[q].brief)
    OBVIOUS
  <2>2. runs[q].brief => Same(runs[q], runs'[q])
    BY DEF Same
  <2>3. runs[q].brief => Items(q)' = Items(q)
    BY <2>2, ItemsAreKept
  <2> QED
    BY <2>1, <2>3 DEF InboxFits
<1> QED
  BY <1>1 DEF InboxFits

\* A run moves without a word to anybody.
LEMMA QuietStep ==
  ASSUME IInv, NEW r \in Runs, NEW y \in Run, runs' = [runs EXCEPT ![r] = y],
         runs[r].step # "completed", RunFits(y, Pasts),
         y.brief <=> runs[r].brief,
         y.brief => Same(runs[r], y),
         Stored(y) <=> Stored(runs[r]),
         Stored(y) => y.stamp = runs[r].stamp /\ y.seen = runs[r].seen /\ y.crawled = runs[r].crawled,
         runs[r].scan => y.scan,
         UNCHANGED <<completed, inbox, reviews, endpoints, candidates, findings>>,
         clock' \in 0..MaxStamps
  PROVE  IInv'
<1>1. /\ runs' \in [Runs -> Run] /\ runs'[r] = y /\ \A q \in Runs \ {r} : runs'[q] = runs[q]
      /\ \A k \in DOMAIN completed : runs'[completed[k]] = runs[completed[k]]
      /\ completed' \in Seq(Runs) /\ RunsFit' /\ CompletedFit'
  BY RunMoves
<1>2. SeenIsAnnounced'
  BY <1>1, AnnouncedKept DEF IInv
<1>3. EndpointSpan' /\ RowsFit'
  BY SpanKept
<1>4. FindingsFit' /\ PromotedOnEvidence'
  BY <1>1, FindingsKept
<1>5. InboxFits'
  <2>1. \A q \in Runs : BriefItems(q)' = BriefItems(q)
    BY DEF BriefItems
  <2> QED
    BY <1>1, <2>1, InboxKept DEF IInv
<1>6. TypeOK'
  BY <1>1, RestKept DEF IInv, TypeOK, RestType, SameChange
<1> QED
  BY <1>1, <1>2, <1>3, <1>4, <1>5, <1>6 DEF IInv

\* The run goes to its next step.
Gone(x, step) == [[x EXCEPT !.step = step] EXCEPT !.pc = "ready"]

\* It takes everything along.
LEMMA GoneFields ==
  ASSUME NEW x \in Run, NEW step \in Steps
  PROVE  LET y == Gone(x, step) IN
         /\ y \in Run /\ y.step = step /\ y.pc = "ready" /\ y.seen = x.seen /\ y.read = x.read
         /\ y.previous = x.previous /\ y.history = x.history /\ y.crawled = x.crawled
         /\ y.stamp = x.stamp /\ y.brief = x.brief /\ y.scan = x.scan /\ y.matches = x.matches
<1> DEFINE a == [x EXCEPT !.step = step]
           y == [a EXCEPT !.pc = "ready"]
<1>1. /\ a \in Run /\ a.step = step /\ a.seen = x.seen /\ a.read = x.read
      /\ a.previous = x.previous /\ a.history = x.history /\ a.crawled = x.crawled
      /\ a.stamp = x.stamp /\ a.brief = x.brief /\ a.scan = x.scan /\ a.matches = x.matches
  BY DEF Run
<1> HIDE DEF a
<1>2. /\ y \in Run /\ y.step = step /\ y.pc = "ready" /\ y.seen = a.seen /\ y.read = a.read
      /\ y.previous = a.previous /\ y.history = a.history /\ y.crawled = a.crawled
      /\ y.stamp = a.stamp /\ y.brief = a.brief /\ y.scan = a.scan /\ y.matches = a.matches
  BY <1>1 DEF Run
<1>3. Gone(x, step) = y
  BY DEF Gone, a
<1> HIDE DEF y
<1> QED
  BY <1>1, <1>2, <1>3

\* So does Goto, for one run.
LEMMA GotoIsGone ==
  ASSUME TypeOK, NEW r \in Runs, NEW step
  PROVE  Goto(r, step) = [runs EXCEPT ![r] = Gone(runs[r], step)]
BY DEF Goto, Gone, TypeOK

\* What the invariant says of one run.
LEMMA RunOf ==
  ASSUME IInv, NEW r \in Runs
  PROVE  /\ runs[r] \in Run /\ RunFits(runs[r], Pasts) /\ TypeOK
         /\ clock \in 0..MaxStamps
BY DEF IInv, TypeOK, RunsFit

\* The probe comes before anything is stored.
LEMMA ProbeInv ==
  ASSUME IInv, NEW r \in Runs, Probe(r)
  PROVE  IInv'
<1> DEFINE x == runs[r]
<1>1. PICK now \in Sightings : runs' = [Goto(r, "compare") EXCEPT ![r].seen = now]
  BY DEF Probe
<1>2. x \in Run /\ RunFits(x, Pasts) /\ TypeOK /\ x.step = "probe" /\ clock \in 0..MaxStamps
  BY RunOf DEF Probe
<1> DEFINE g == Gone(x, "compare")
           y == [g EXCEPT !.seen = now]
<1>3. /\ g \in Run /\ g.step = "compare" /\ g.pc = "ready" /\ g.seen = x.seen /\ g.read = x.read
      /\ g.previous = x.previous /\ g.history = x.history /\ g.crawled = x.crawled
      /\ g.stamp = x.stamp /\ g.brief = x.brief /\ g.scan = x.scan
  BY <1>2, GoneFields DEF Steps
<1>4. runs' = [runs EXCEPT ![r] = y]
  <2>1. runs' = [[runs EXCEPT ![r] = g] EXCEPT ![r].seen = now]
    BY <1>1, <1>2, GotoIsGone
  <2> HIDE DEF g
  <2> QED
    BY <1>2, <2>1 DEF TypeOK
<1> HIDE DEF g
<1>5. /\ y \in Run /\ y.step = "compare" /\ y.pc = "ready" /\ y.read = x.read
      /\ y.previous = x.previous /\ y.history = x.history /\ y.crawled = x.crawled
      /\ y.stamp = x.stamp /\ y.brief = x.brief /\ y.scan = x.scan
  BY <1>3 DEF Run
<1> HIDE DEF y
<1>6. ~ x.brief /\ ~ Stored(x) /\ x.pc # "executed"
  BY <1>2 DEF RunFits, Settled, Stored
<1>7. RunFits(y, Pasts) /\ ~ y.brief /\ ~ Stored(y)
  BY <1>2, <1>5, <1>6 DEF RunFits, Settled, Stored
<1>8. UNCHANGED <<completed, inbox, reviews, endpoints, candidates, findings>> /\ clock' \in 0..MaxStamps
  BY <1>2 DEF Probe
<1> QED
  BY <1>2, <1>4, <1>5, <1>6, <1>7, <1>8, QuietStep

\* The past is read, unless the input of the step is stored already.
LEMMA LoadEffectiveStepInputInv ==
  ASSUME IInv, NEW r \in Runs, LoadEffectiveStepInput(r)
  PROVE  IInv'
<1> DEFINE x == runs[r]
<1>1. /\ x \in Run /\ RunFits(x, Pasts) /\ TypeOK /\ clock \in 0..MaxStamps
      /\ x.step \in {"compare", "classify"} /\ x.pc = "ready"
  BY RunOf DEF LoadEffectiveStepInput
<1>2. ~ x.brief /\ ~ Stored(x) /\ x.stamp \in Nat
  BY <1>1 DEF RunFits, Settled, Stored, Run
<1>3. UNCHANGED <<completed, inbox, reviews, endpoints, candidates, findings>> /\ clock' \in 0..MaxStamps
  BY <1>1 DEF LoadEffectiveStepInput
<1>4. CASE InputOf(x) # None
  <2> DEFINE y == [x EXCEPT !.pc = "stored"]
  <2>1. runs' = [runs EXCEPT ![r] = y]
    BY <1>1, <1>4 DEF LoadEffectiveStepInput, TypeOK
  <2>2. /\ y \in Run /\ y.step = x.step /\ y.pc = "stored" /\ y.seen = x.seen
        /\ y.read = x.read /\ y.previous = x.previous /\ y.history = x.history
        /\ y.crawled = x.crawled /\ y.stamp = x.stamp /\ y.brief = x.brief /\ y.scan = x.scan
        /\ y.matches = x.matches
    BY <1>1 DEF Run
  <2> HIDE DEF y
  <2>3. RunFits(y, Pasts) /\ ~ y.brief /\ ~ Stored(y)
    BY <1>1, <1>2, <1>4, <2>2 DEF RunFits, Settled, Stored, InputOf
  <2> QED
    BY <1>1, <1>2, <1>3, <2>1, <2>2, <2>3, QuietStep
<1>5. CASE InputOf(x) = None
  <2> DEFINE past == PreviousObservationValues(r)
             a == [x EXCEPT !.pc = "read"]
             y == [a EXCEPT !.read = past]
  <2>1. runs' = [runs EXCEPT ![r] = y]
    BY <1>1, <1>5 DEF LoadEffectiveStepInput, TypeOK
  <2>2. past \in Pasts /\ past \in Sightings /\ past # None
    BY <1>1, PastIsCompleted, ChangesAssumption
  <2> HIDE DEF past
  <2>3. /\ a \in Run /\ a.step = x.step /\ a.pc = "read" /\ a.seen = x.seen
        /\ a.read = x.read /\ a.previous = x.previous /\ a.history = x.history
        /\ a.crawled = x.crawled /\ a.stamp = x.stamp /\ a.brief = x.brief /\ a.scan = x.scan
        /\ a.matches = x.matches
    BY <1>1 DEF Run
  <2> HIDE DEF a
  <2>4. /\ y \in Run /\ y.step = a.step /\ y.pc = a.pc /\ y.seen = a.seen /\ y.read = past
        /\ y.previous = a.previous /\ y.history = a.history /\ y.crawled = a.crawled
        /\ y.stamp = a.stamp /\ y.brief = a.brief /\ y.scan = a.scan /\ y.matches = a.matches
    BY <2>2, <2>3 DEF Run
  <2> HIDE DEF y
  <2>5. RunFits(y, Pasts) /\ ~ y.brief /\ ~ Stored(y)
    BY <1>1, <1>2, <2>2, <2>3, <2>4 DEF RunFits, Settled, Stored
  <2> QED
    BY <1>1, <1>2, <1>3, <2>1, <2>3, <2>4, <2>5, QuietStep
<1> QED
  BY <1>4, <1>5

\* What was read becomes the input of the step: a past, for good.
LEMMA PersistEffectiveStepInputInv ==
  ASSUME IInv, NEW r \in Runs, PersistEffectiveStepInput(r)
  PROVE  IInv'
<1> DEFINE x == runs[r]
           a == [x EXCEPT !.pc = "stored"]
           b == [a EXCEPT !.read = None]
<1>1. /\ x \in Run /\ RunFits(x, Pasts) /\ TypeOK /\ clock \in 0..MaxStamps
      /\ x.step \in {"compare", "classify"} /\ x.pc = "read"
      /\ x.read \in Sightings /\ x.read \in Pasts /\ x.read # None
  BY RunOf DEF PersistEffectiveStepInput, RunFits, Run
<1>2. ~ x.brief /\ ~ Stored(x) /\ x.stamp \in Nat
  BY <1>1 DEF RunFits, Settled, Stored, Run
<1>3. UNCHANGED <<completed, inbox, reviews, endpoints, candidates, findings>> /\ clock' \in 0..MaxStamps
  BY <1>1 DEF PersistEffectiveStepInput
<1>4. /\ a \in Run /\ a.step = x.step /\ a.pc = "stored" /\ a.seen = x.seen
      /\ a.read = x.read /\ a.previous = x.previous /\ a.history = x.history
      /\ a.crawled = x.crawled /\ a.stamp = x.stamp /\ a.brief = x.brief /\ a.scan = x.scan
      /\ a.matches = x.matches
  BY <1>1 DEF Run
<1> HIDE DEF a
<1>5. /\ b \in Run /\ b.step = a.step /\ b.pc = a.pc /\ b.seen = a.seen /\ b.read = None
      /\ b.previous = a.previous /\ b.history = a.history /\ b.crawled = a.crawled
      /\ b.stamp = a.stamp /\ b.brief = a.brief /\ b.scan = a.scan /\ b.matches = a.matches
  BY <1>4 DEF Run
<1> HIDE DEF b
<1>6. CASE x.step = "compare"
  <2> DEFINE y == [b EXCEPT !.previous = x.read]
  <2>1. runs' = [runs EXCEPT ![r] = y]
    BY <1>1, <1>6 DEF PersistEffectiveStepInput, TypeOK, b, a
  <2>2. /\ y \in Run /\ y.step = b.step /\ y.pc = b.pc /\ y.seen = b.seen /\ y.read = b.read
        /\ y.previous = x.read /\ y.history = b.history /\ y.crawled = b.crawled
        /\ y.stamp = b.stamp /\ y.brief = b.brief /\ y.scan = b.scan /\ y.matches = b.matches
    BY <1>1, <1>5 DEF Run
  <2> HIDE DEF y
  <2>3. RunFits(y, Pasts) /\ ~ y.brief /\ ~ Stored(y)
    BY <1>1, <1>2, <1>4, <1>5, <1>6, <2>2 DEF RunFits, Settled, Stored, InputOf
  <2> QED
    BY <1>1, <1>2, <1>3, <1>4, <1>5, <2>1, <2>2, <2>3, QuietStep
<1>7. CASE x.step # "compare"
  <2> DEFINE y == [b EXCEPT !.history = x.read]
  <2>1. runs' = [runs EXCEPT ![r] = y]
    BY <1>1, <1>7 DEF PersistEffectiveStepInput, TypeOK, b, a
  <2>2. /\ y \in Run /\ y.step = b.step /\ y.pc = b.pc /\ y.seen = b.seen /\ y.read = b.read
        /\ y.previous = b.previous /\ y.history = x.read /\ y.crawled = b.crawled
        /\ y.stamp = b.stamp /\ y.brief = b.brief /\ y.scan = b.scan /\ y.matches = b.matches
    BY <1>1, <1>5 DEF Run
  <2> HIDE DEF y
  <2>3. RunFits(y, Pasts) /\ ~ y.brief /\ ~ Stored(y)
    BY <1>1, <1>2, <1>4, <1>5, <1>7, <2>2 DEF RunFits, Settled, Stored, InputOf
  <2> QED
    BY <1>1, <1>2, <1>3, <1>4, <1>5, <2>1, <2>2, <2>3, QuietStep
<1> QED
  BY <1>6, <1>7

\* The comparison is made from the stored input.
LEMMA CompareAssetsInv ==
  ASSUME IInv, NEW r \in Runs, CompareAssets(r)
  PROVE  IInv'
<1> DEFINE x == runs[r]
           y == Gone(x, "crawl")
<1>1. /\ x \in Run /\ RunFits(x, Pasts) /\ TypeOK /\ clock \in 0..MaxStamps
      /\ x.step = "compare" /\ x.pc = "stored" /\ x.stamp \in Nat
  BY RunOf DEF CompareAssets, Run
<1>2. runs' = [runs EXCEPT ![r] = y]
  BY <1>1, GotoIsGone DEF CompareAssets
<1>3. /\ y \in Run /\ y.step = "crawl" /\ y.pc = "ready" /\ y.seen = x.seen
      /\ y.read = x.read /\ y.previous = x.previous /\ y.history = x.history
      /\ y.crawled = x.crawled /\ y.stamp = x.stamp /\ y.brief = x.brief /\ y.scan = x.scan
      /\ y.matches = x.matches
  BY <1>1, GoneFields DEF Steps
<1> HIDE DEF y
<1>4. ~ x.brief /\ ~ Stored(x) /\ x.previous # None
  BY <1>1 DEF RunFits, Settled, Stored, InputOf
<1>5. RunFits(y, Pasts) /\ ~ y.brief /\ ~ Stored(y)
  BY <1>1, <1>3, <1>4 DEF RunFits, Settled, Stored
<1>6. UNCHANGED <<completed, inbox, reviews, endpoints, candidates, findings>> /\ clock' \in 0..MaxStamps
  BY <1>1 DEF CompareAssets
<1> QED
  BY <1>1, <1>2, <1>3, <1>4, <1>5, <1>6, QuietStep

\* The crawl comes before the classification, and so before the brief.
LEMMA CrawlInv ==
  ASSUME IInv, NEW r \in Runs, Crawl(r)
  PROVE  IInv'
<1> DEFINE x == runs[r]
<1>1. /\ x \in Run /\ RunFits(x, Pasts) /\ TypeOK /\ clock \in 0..MaxStamps
      /\ x.step = "crawl" /\ x.stamp \in Nat
  BY RunOf DEF Crawl, Run
<1>2. PICK found \in SUBSET Pages : runs' = [Goto(r, "classify") EXCEPT ![r].crawled = found]
  BY DEF Crawl
<1> DEFINE g == Gone(x, "classify")
           y == [g EXCEPT !.crawled = found]
<1>3. /\ g \in Run /\ g.step = "classify" /\ g.pc = "ready" /\ g.seen = x.seen
      /\ g.read = x.read /\ g.previous = x.previous /\ g.history = x.history
      /\ g.crawled = x.crawled /\ g.stamp = x.stamp /\ g.brief = x.brief /\ g.scan = x.scan
      /\ g.matches = x.matches
  BY <1>1, GoneFields DEF Steps
<1>4. runs' = [runs EXCEPT ![r] = y]
  <2>1. runs' = [[runs EXCEPT ![r] = g] EXCEPT ![r].crawled = found]
    BY <1>1, <1>2, GotoIsGone
  <2> HIDE DEF g
  <2> QED
    BY <1>1, <2>1 DEF TypeOK
<1> HIDE DEF g
<1>5. /\ y \in Run /\ y.step = g.step /\ y.pc = g.pc /\ y.seen = g.seen /\ y.read = g.read
      /\ y.previous = g.previous /\ y.history = g.history /\ y.crawled = found
      /\ y.stamp = g.stamp /\ y.brief = g.brief /\ y.scan = g.scan /\ y.matches = g.matches
  BY <1>3 DEF Run
<1> HIDE DEF y
<1>6. ~ x.brief /\ ~ Stored(x)
  BY <1>1 DEF RunFits, Settled, Stored
<1>7. RunFits(y, Pasts) /\ ~ y.brief /\ ~ Stored(y)
  BY <1>1, <1>3, <1>5, <1>6 DEF RunFits, Settled, Stored
<1>8. UNCHANGED <<completed, inbox, reviews, endpoints, candidates, findings>> /\ clock' \in 0..MaxStamps
  BY <1>1 DEF Crawl
<1> QED
  BY <1>1, <1>3, <1>4, <1>5, <1>6, <1>7, <1>8, QuietStep

\* The completion time is taken; nothing is stored yet.
LEMMA ClassifyEndpointInv ==
  ASSUME IInv, NEW r \in Runs, ClassifyEndpoint(r)
  PROVE  IInv'
<1> DEFINE x == runs[r]
           a == [x EXCEPT !.pc = "executed"]
           y == [a EXCEPT !.stamp = clock + 1]
<1>1. /\ x \in Run /\ RunFits(x, Pasts) /\ TypeOK /\ clock \in 0..MaxStamps /\ clock < MaxStamps
      /\ x.step = "classify" /\ x.pc = "stored" /\ clock' = clock + 1
  BY RunOf DEF ClassifyEndpoint
<1>2. runs' = [runs EXCEPT ![r] = y]
  BY <1>1 DEF ClassifyEndpoint, TypeOK
<1>3. clock + 1 \in 0..MaxStamps /\ clock + 1 \in Nat /\ clock + 1 > 0
  BY <1>1, ChangesAssumption
<1>4. /\ a \in Run /\ a.step = x.step /\ a.pc = "executed" /\ a.seen = x.seen
      /\ a.read = x.read /\ a.previous = x.previous /\ a.history = x.history
      /\ a.crawled = x.crawled /\ a.stamp = x.stamp /\ a.brief = x.brief /\ a.scan = x.scan
      /\ a.matches = x.matches
  BY <1>1 DEF Run
<1> HIDE DEF a
<1>5. /\ y \in Run /\ y.step = a.step /\ y.pc = a.pc /\ y.seen = a.seen /\ y.read = a.read
      /\ y.previous = a.previous /\ y.history = a.history /\ y.crawled = a.crawled
      /\ y.stamp = clock + 1 /\ y.brief = a.brief /\ y.scan = a.scan
      /\ y.matches = a.matches
  BY <1>3, <1>4 DEF Run
<1> HIDE DEF y
<1>6. ~ x.brief /\ ~ Stored(x) /\ x.history # None
  BY <1>1 DEF RunFits, Settled, Stored, InputOf
<1>7. RunFits(y, Pasts) /\ ~ y.brief /\ ~ Stored(y)
  BY <1>1, <1>3, <1>4, <1>5, <1>6 DEF RunFits, Settled, Stored
<1>8. UNCHANGED <<completed, inbox, reviews, endpoints, candidates, findings>> /\ clock' \in 0..MaxStamps
  BY <1>1, <1>3 DEF ClassifyEndpoint
<1> QED
  BY <1>1, <1>2, <1>4, <1>5, <1>6, <1>7, <1>8, QuietStep

\* The scan is skipped.
LEMMA SkipScanInv ==
  ASSUME IInv, NEW r \in Runs, SkipScan(r)
  PROVE  IInv'
<1> DEFINE x == runs[r]
           y == [x EXCEPT !.scan = TRUE]
<1>1. /\ x \in Run /\ RunFits(x, Pasts) /\ TypeOK /\ clock \in 0..MaxStamps /\ x.step = "report"
  BY RunOf DEF SkipScan
<1>2. runs' = [runs EXCEPT ![r] = y]
  BY <1>1 DEF SkipScan, TypeOK
<1>3. /\ y \in Run /\ y.step = x.step /\ y.pc = x.pc /\ y.seen = x.seen /\ y.read = x.read
      /\ y.previous = x.previous /\ y.history = x.history /\ y.crawled = x.crawled
      /\ y.stamp = x.stamp /\ y.brief = x.brief /\ y.scan = TRUE /\ y.matches = x.matches
  BY <1>1 DEF Run
<1> HIDE DEF y
<1>4. RunFits(y, Pasts) /\ (Stored(y) <=> Stored(x)) /\ Same(x, y) /\ y.scan
  BY <1>1, <1>3 DEF RunFits, Stored, Same, InputOf
<1>5. UNCHANGED <<completed, inbox, reviews, endpoints, candidates, findings>> /\ clock' \in 0..MaxStamps
  BY <1>1 DEF SkipScan
<1> QED
  BY <1>1, <1>2, <1>3, <1>4, <1>5, QuietStep

\* A run that fails keeps what it has stored, and nothing of what it has not.
LEMMA FailInv ==
  ASSUME IInv, NEW r \in Runs, Fail(r)
  PROVE  IInv'
<1> DEFINE x == runs[r]
           stamp == IF x.pc = "executed" THEN 0 ELSE x.stamp
           g == Gone(x, "failed")
           a == [g EXCEPT !.read = None]
           y == [a EXCEPT !.stamp = stamp]
<1>1. /\ x \in Run /\ RunFits(x, Pasts) /\ TypeOK /\ clock \in 0..MaxStamps
      /\ x.step # "completed" /\ x.stamp \in Nat
  BY RunOf DEF Fail, Run
<1>2. /\ g \in Run /\ g.step = "failed" /\ g.pc = "ready" /\ g.seen = x.seen
      /\ g.read = x.read /\ g.previous = x.previous /\ g.history = x.history
      /\ g.crawled = x.crawled /\ g.stamp = x.stamp /\ g.brief = x.brief /\ g.scan = x.scan
      /\ g.matches = x.matches
  BY <1>1, GoneFields DEF Steps
<1>3. runs' = [runs EXCEPT ![r] = y]
  <2>1. runs' = [[runs EXCEPT ![r] = g] EXCEPT ![r].read = None,
                    ![r].stamp = IF x.pc = "executed" THEN 0 ELSE @]
    BY <1>1, GotoIsGone DEF Fail
  <2> HIDE DEF g
  <2> QED
    BY <1>1, <1>2, <2>1 DEF TypeOK
<1> HIDE DEF g
<1>4. /\ a \in Run /\ a.step = g.step /\ a.pc = g.pc /\ a.seen = g.seen /\ a.read = None
      /\ a.previous = g.previous /\ a.history = g.history /\ a.crawled = g.crawled
      /\ a.stamp = g.stamp /\ a.brief = g.brief /\ a.scan = g.scan /\ a.matches = g.matches
  BY <1>2 DEF Run
<1> HIDE DEF a
<1>5. /\ y \in Run /\ y.step = a.step /\ y.pc = a.pc /\ y.seen = a.seen /\ y.read = a.read
      /\ y.previous = a.previous /\ y.history = a.history /\ y.crawled = a.crawled
      /\ y.stamp = stamp /\ y.brief = a.brief /\ y.scan = a.scan /\ y.matches = a.matches
  BY <1>1, <1>4 DEF Run
<1> HIDE DEF y
<1>6. (Stored(y) <=> Stored(x)) /\ (Stored(y) => y.stamp = x.stamp)
  BY <1>1, <1>2, <1>4, <1>5 DEF Stored
<1>7. RunFits(y, Pasts) /\ Same(x, y)
  BY <1>1, <1>2, <1>4, <1>5 DEF RunFits, Settled, Same
<1>8. UNCHANGED <<completed, inbox, reviews, endpoints, candidates, findings>> /\ clock' \in 0..MaxStamps
  BY <1>1 DEF Fail
<1> HIDE DEF stamp
<1> QED
  BY <1>1, <1>2, <1>3, <1>4, <1>5, <1>6, <1>7, <1>8, QuietStep

\* A lost process had stored neither its input nor its rows.
LEMMA CrashInv ==
  ASSUME IInv, NEW r \in Runs, Crash(r)
  PROVE  IInv'
<1> DEFINE x == runs[r]
           a == [x EXCEPT !.pc = "ready"]
           b == [a EXCEPT !.read = None]
           y == [b EXCEPT !.stamp = 0]
<1>1. /\ x \in Run /\ RunFits(x, Pasts) /\ TypeOK /\ clock \in 0..MaxStamps
      /\ x.pc \in {"read", "stored", "executed"} /\ x.step \in {"compare", "classify"}
  BY RunOf DEF Crash, Run, RunFits
<1>2. runs' = [runs EXCEPT ![r] = y]
  BY <1>1 DEF Crash, TypeOK
<1>3. /\ a \in Run /\ a.step = x.step /\ a.pc = "ready" /\ a.seen = x.seen
      /\ a.read = x.read /\ a.previous = x.previous /\ a.history = x.history
      /\ a.crawled = x.crawled /\ a.stamp = x.stamp /\ a.brief = x.brief /\ a.scan = x.scan
      /\ a.matches = x.matches
  BY <1>1 DEF Run
<1> HIDE DEF a
<1>4. /\ b \in Run /\ b.step = a.step /\ b.pc = a.pc /\ b.seen = a.seen /\ b.read = None
      /\ b.previous = a.previous /\ b.history = a.history /\ b.crawled = a.crawled
      /\ b.stamp = a.stamp /\ b.brief = a.brief /\ b.scan = a.scan /\ b.matches = a.matches
  BY <1>3 DEF Run
<1> HIDE DEF b
<1>5. /\ y \in Run /\ y.step = b.step /\ y.pc = b.pc /\ y.seen = b.seen /\ y.read = b.read
      /\ y.previous = b.previous /\ y.history = b.history /\ y.crawled = b.crawled
      /\ y.stamp = 0 /\ y.brief = b.brief /\ y.scan = b.scan /\ y.matches = b.matches
  BY <1>4 DEF Run
<1> HIDE DEF y
<1>6. ~ x.brief /\ ~ Stored(x)
  BY <1>1 DEF RunFits, Settled, Stored
<1>7. RunFits(y, Pasts) /\ ~ y.brief /\ ~ Stored(y)
  BY <1>1, <1>3, <1>4, <1>5, <1>6 DEF RunFits, Settled, Stored
<1>8. UNCHANGED <<completed, inbox, reviews, endpoints, candidates, findings>> /\ clock' \in 0..MaxStamps
  BY <1>1 DEF Crash
<1> QED
  BY <1>1, <1>2, <1>3, <1>4, <1>5, <1>6, <1>7, <1>8, QuietStep

-----------------------------------------------------------------------------
(* The steps that write rows and items.                                    *)

\* The rows take the completion time of the classification, whenever its
\* transaction comes.
LEMMA PersistEndpointsInv ==
  ASSUME IInv, NEW r \in Runs, persistEndpoints(r)
  PROVE  IInv'
<1> DEFINE x == runs[r]
           y == Gone(x, "report")
<1>1. /\ x \in Run /\ RunFits(x, Pasts) /\ TypeOK /\ clock \in 0..MaxStamps
      /\ x.step = "classify" /\ x.pc = "executed" /\ x.stamp \in Nat /\ x.stamp > 0
  BY RunOf DEF persistEndpoints, Run, RunFits
<1>2. runs' = [runs EXCEPT ![r] = y] /\ UNCHANGED <<completed, inbox, reviews, clock, candidates, findings>>
  BY <1>1, GotoIsGone DEF persistEndpoints
<1>3. /\ y \in Run /\ y.step = "report" /\ y.pc = "ready" /\ y.seen = x.seen
      /\ y.read = x.read /\ y.previous = x.previous /\ y.history = x.history
      /\ y.crawled = x.crawled /\ y.stamp = x.stamp /\ y.brief = x.brief /\ y.scan = x.scan
      /\ y.matches = x.matches
  BY <1>1, GoneFields DEF Steps
<1> HIDE DEF y
<1>4. ~ x.brief /\ ~ Stored(x) /\ ~ y.brief /\ Stored(y) /\ RunFits(y, Pasts)
  BY <1>1, <1>3 DEF RunFits, Settled, Stored
<1>5. /\ runs' \in [Runs -> Run] /\ runs'[r] = y /\ \A q \in Runs \ {r} : runs'[q] = runs[q]
      /\ \A k \in DOMAIN completed : runs'[completed[k]] = runs[completed[k]]
      /\ completed' \in Seq(Runs) /\ RunsFit' /\ CompletedFit'
  BY <1>1, <1>2, <1>3, <1>4, RunMoves
<1>6. SeenIsAnnounced'
  BY <1>2, <1>5, AnnouncedKept DEF IInv
<1>7. FindingsFit' /\ PromotedOnEvidence'
  BY <1>2, <1>3, <1>5, FindingsKept
<1>8. InboxFits'
  <2>1. \A q \in Runs : BriefItems(q)' = BriefItems(q)
    BY <1>2 DEF BriefItems
  <2> QED
    BY <1>4, <1>5, <2>1, InboxKept DEF IInv
<1>9. ASSUME NEW e \in Endpoints
      PROVE  /\ endpoints'[e] = None \/ endpoints'[e] \in [first : Nat, last : Nat]
             /\ Times(e)' = {} <=> endpoints'[e] = None
             /\ Times(e)' # {} => /\ {endpoints'[e].first, endpoints'[e].last} \subseteq Times(e)'
                                  /\ \A t \in Times(e)' : endpoints'[e].first <= t /\ t <= endpoints'[e].last
  <2>1. Times(e) \subseteq Nat
    BY DEF Times, IInv, TypeOK, Run
  <2>2. /\ endpoints[e] = None \/ endpoints[e] \in [first : Nat, last : Nat]
        /\ Times(e) = {} <=> endpoints[e] = None
        /\ Times(e) # {} => /\ {endpoints[e].first, endpoints[e].last} \subseteq Times(e)
                            /\ \A t \in Times(e) : endpoints[e].first <= t /\ t <= endpoints[e].last
    BY DEF IInv, TypeOK, EndpointSpan, RowsFit, Times, Stored
  <2>3. Classified(runs'[r]) = Classified(x)
    BY <1>3, <1>5 DEF Classified, Probed
  <2>4. CASE e \notin Classified(x)
    <3>1. endpoints'[e] = endpoints[e]
      BY <2>4 DEF persistEndpoints
    <3>2. {q \in Runs : Stored(runs'[q]) /\ e \in Classified(runs'[q])}
          = {q \in Runs \ {r} : Stored(runs[q]) /\ e \in Classified(runs[q])}
      BY <1>5, <2>3, <2>4
    <3>3. {q \in Runs : Stored(runs[q]) /\ e \in Classified(runs[q])}
          = {q \in Runs \ {r} : Stored(runs[q]) /\ e \in Classified(runs[q])}
      BY <2>4
    <3>4. Times(e)' = Times(e)
      BY <1>5, <3>2, <3>3 DEF Times
    <3> QED
      BY <2>2, <3>1, <3>4
  <2>5. CASE e \in Classified(x)
    <3>1. endpoints'[e] = SeenAt(endpoints[e], x.stamp)
      BY <2>5 DEF persistEndpoints
    <3>2. Times(e)' = Times(e) \cup {x.stamp}
      BY <1>3, <1>4, <1>5, <2>3, <2>5 DEF Times
    <3>3. CASE endpoints[e] = None
      <4>1. endpoints'[e] = [first |-> x.stamp, last |-> x.stamp] /\ Times(e)' = {x.stamp}
        BY <2>2, <3>1, <3>2, <3>3 DEF SeenAt
      <4> QED
        BY <1>1, <4>1, ChangesAssumption
    <3>4. CASE endpoints[e] # None
      <4> DEFINE row == endpoints[e]
                 first == IF x.stamp < row.first THEN x.stamp ELSE row.first
                 last == IF x.stamp > row.last THEN x.stamp ELSE row.last
      <4>1. endpoints'[e] = [first |-> first, last |-> last]
        BY <3>1, <3>4 DEF SeenAt
      <4>2. row.first \in Nat /\ row.last \in Nat /\ {row.first, row.last} \subseteq Times(e)
        BY <2>1, <2>2, <3>4
      <4>3. first \in Nat /\ last \in Nat /\ {first, last} \subseteq Times(e)'
        BY <1>1, <3>2, <4>2
      <4>4. \A t \in Times(e)' : first <= t /\ t <= last
        BY <1>1, <2>1, <2>2, <3>2, <3>4, <4>2
      <4>5. endpoints'[e] \in [first : Nat, last : Nat] /\ endpoints'[e] # None
        BY <4>1, <4>3, ChangesAssumption
      <4>6. endpoints'[e].first = first /\ endpoints'[e].last = last
        BY <4>1
      <4>7. Times(e)' # {}
        BY <3>2
      <4> HIDE DEF first, last
      <4> QED
        BY <4>3, <4>4, <4>5, <4>6, <4>7
    <3> QED
      BY <3>3, <3>4
  <2> QED
    BY <2>4, <2>5
<1>10. EndpointSpan' /\ RowsFit'
  BY <1>9 DEF EndpointSpan, RowsFit, Times, Stored
<1>11. TypeOK'
  <2>1. \A e \in Endpoints : endpoints'[e] = None \/ endpoints'[e] \in [first : Nat, last : Nat]
    BY <1>9
  <2> QED
    BY <1>2, <1>5, <2>1 DEF IInv, TypeOK, SameChange, findings, Ids
<1> QED
  BY <1>5, <1>6, <1>7, <1>8, <1>10, <1>11 DEF IInv

\* The types of the inbox and its reviews.
InboxType ==
  /\ inbox \subseteq Item
  /\ \A i, j \in inbox : SameChange(i, j) => i = j
  /\ \A v \in reviews : v.item \in inbox /\ v.disposition \in Dispositions

\* persistChangeItems adds, and never twice.
LEMMA InboxGrows ==
  ASSUME TypeOK, NEW items \in SUBSET Item, \A i, j \in items : SameChange(i, j) => i = j,
         persistChangeItems(items), reviews' = reviews
  PROVE  InboxType' /\ inbox \subseteq inbox'
<1>1. inbox' = inbox \cup {i \in items : \A j \in inbox : ~SameChange(i, j)}
  BY DEF persistChangeItems
<1> QED
  BY <1>1 DEF TypeOK, InboxType, SameChange

\* Candidate items are none of a brief's.
LEMMA CandidateItemsAreDistinct ==
  ASSUME NEW r \in Runs, runs[r] \in Run, NEW matches \in SUBSET Urls, NEW evidence \in BOOLEAN
  PROVE  /\ CandidateItems(r, matches, evidence) \subseteq Item
         /\ \A i \in CandidateItems(r, matches, evidence) : i.run = r /\ i.kind = "candidate_finding"
         /\ \A i, j \in CandidateItems(r, matches, evidence) : SameChange(i, j) => i = j
<1> DEFINE C(u) == [run |-> r, kind |-> "candidate_finding", key |-> u, before |-> Absent,
                    now |-> runs[r].seen[u], evidence |-> evidence]
<1>1. \A u \in Urls : runs[r].seen[u] \in Contents \cup {Absent} /\ u \in Endpoints
  BY DEF Run, Sightings, Endpoints
<1>2. \A i \in CandidateItems(r, matches, evidence) : \E u \in Urls : i = C(u)
  BY DEF CandidateItems
<1>3. ASSUME NEW u \in Urls
      PROVE  C(u) \in Item /\ C(u).run = r /\ C(u).kind = "candidate_finding" /\ C(u).key = u
  BY <1>1 DEF Item, Kinds
<1> HIDE DEF C
<1> QED
  BY <1>2, <1>3 DEF SameChange

\* A run reports, and may have scanned; its inputs and rows stay.
LEMMA ReportStep ==
  ASSUME IInv, NEW r \in Runs, NEW y \in Run, runs' = [runs EXCEPT ![r] = y],
         runs[r].step # "completed", RunFits(y, Pasts), Same(runs[r], y),
         Stored(y) <=> Stored(runs[r]), Stored(y) => y.stamp = runs[r].stamp,
         inbox \subseteq inbox', InboxType', InboxFits', RestType', FindingsFit', PromotedOnEvidence',
         UNCHANGED <<completed, endpoints>>
  PROVE  IInv'
<1>1. /\ runs' \in [Runs -> Run] /\ \A k \in DOMAIN completed : runs'[completed[k]] = runs[completed[k]]
      /\ completed' \in Seq(Runs) /\ RunsFit' /\ CompletedFit'
  BY RunMoves
<1>2. SeenIsAnnounced'
  BY <1>1, AnnouncedKept DEF IInv
<1>3. EndpointSpan' /\ RowsFit'
  BY SpanKept DEF Same
<1>4. TypeOK'
  BY <1>1 DEF TypeOK, InboxType, RestType
<1> QED
  BY <1>1, <1>2, <1>3, <1>4 DEF IInv

\* The first brief writes all its items: none of them is in the inbox yet.
LEMMA GenerateBriefInv ==
  ASSUME IInv, NEW r \in Runs, GenerateBrief(r)
  PROVE  IInv'
<1> DEFINE x == runs[r]
           y == [x EXCEPT !.brief = TRUE]
<1>1. /\ x \in Run /\ RunFits(x, Pasts) /\ TypeOK /\ clock \in 0..MaxStamps
      /\ x.step = "report" /\ ~ x.brief /\ x.previous # None /\ x.history # None
  BY RunOf DEF GenerateBrief, RunFits
<1>2. /\ runs' = [runs EXCEPT ![r] = y] /\ persistChangeItems(Items(r))
      /\ UNCHANGED <<completed, reviews, endpoints, clock, candidates, findings>>
  BY <1>1 DEF GenerateBrief, TypeOK, Items
<1>3. /\ y \in Run /\ y.step = x.step /\ y.pc = x.pc /\ y.seen = x.seen /\ y.read = x.read
      /\ y.previous = x.previous /\ y.history = x.history /\ y.crawled = x.crawled
      /\ y.stamp = x.stamp /\ y.brief = TRUE /\ y.scan = x.scan /\ y.matches = x.matches
  BY <1>1 DEF Run
<1> HIDE DEF y
<1>4. /\ RunFits(y, Pasts) /\ (Stored(y) <=> Stored(x)) /\ Same(x, y) /\ y.brief
  BY <1>1, <1>3 DEF RunFits, Settled, Stored, Same, InputOf
<1>5. /\ Items(r) \subseteq Item /\ \A i \in Items(r) : i.run = r /\ i.kind # "candidate_finding"
      /\ \A i, j \in Items(r) : SameChange(i, j) => i = j
  BY <1>1, ItemsAreDistinct
<1>6. InboxType' /\ inbox \subseteq inbox'
  BY <1>1, <1>2, <1>5, InboxGrows
<1>7. inbox' = inbox \cup Items(r)
  <2>1. BriefItems(r) = {}
    BY <1>1 DEF IInv, InboxFits
  <2>2. \A i \in Items(r) : \A j \in inbox : ~ SameChange(i, j)
    BY <1>5, <2>1 DEF BriefItems, SameChange
  <2> QED
    BY <1>2, <2>2 DEF persistChangeItems
<1>8. /\ runs'[r] = y /\ \A q \in Runs \ {r} : runs'[q] = runs[q]
  BY <1>1, <1>2 DEF TypeOK
<1>9. InboxFits'
  <2>1. ASSUME NEW q \in Runs PROVE BriefItems(q)' = IF runs'[q].brief THEN Items(q)' ELSE {}
    <3>1. Items(q)' = Items(q)
      BY <1>4, <1>8, ItemsAreKept DEF Same
    <3>2. CASE q = r
      <4>1. BriefItems(r) = {}
        BY <1>1 DEF IInv, InboxFits
      <4>2. BriefItems(r)' = Items(r)
        BY <1>5, <1>7, <4>1 DEF BriefItems
      <4> QED
        BY <1>4, <1>8, <3>1, <3>2, <4>2
    <3>3. CASE q # r
      <4>1. BriefItems(q)' = BriefItems(q)
        BY <1>5, <1>7, <3>3 DEF BriefItems
      <4> QED
        BY <1>8, <3>1, <3>3, <4>1 DEF IInv, InboxFits
    <3> QED
      BY <3>2, <3>3
  <2> QED
    BY <2>1 DEF InboxFits
<1>10. FindingsFit' /\ PromotedOnEvidence' /\ RestType'
  BY <1>1, <1>2, <1>3, <1>8, FindingsKept, RestKept
<1> QED
  BY <1>1, <1>2, <1>3, <1>4, <1>6, <1>9, <1>10, ReportStep

\* The candidates of a scan are new rows: a run scans once.
LEMMA ScanInv ==
  ASSUME IInv, NEW r \in Runs, Scan(r)
  PROVE  IInv'
<1> DEFINE x == runs[r]
<1>1. /\ x \in Run /\ RunFits(x, Pasts) /\ TypeOK /\ clock \in 0..MaxStamps
      /\ x.step = "report" /\ ~ x.scan
  BY RunOf DEF Scan
<1>2. PICK matches \in SUBSET ScanTargets(r) :
        /\ runs' = [runs EXCEPT ![r].scan = TRUE, ![r].matches = matches]
        /\ candidates' = candidates \cup {[id |-> <<r, u>>, status |-> "new"] : u \in matches}
        /\ persistChangeItems(CandidateItems(r, matches, TRUE))
  BY DEF Scan
<1>3. UNCHANGED <<completed, reviews, endpoints, clock, verifications, verified, promoting>>
  BY DEF Scan, findings
<1>4. matches \subseteq Urls
  BY <1>2 DEF ScanTargets, Routed, Changed
<1> DEFINE a == [x EXCEPT !.scan = TRUE]
           y == [a EXCEPT !.matches = matches]
<1>5. runs' = [runs EXCEPT ![r] = y]
  BY <1>1, <1>2 DEF TypeOK
<1>6. /\ a \in Run /\ a.step = x.step /\ a.pc = x.pc /\ a.seen = x.seen /\ a.read = x.read
      /\ a.previous = x.previous /\ a.history = x.history /\ a.crawled = x.crawled
      /\ a.stamp = x.stamp /\ a.brief = x.brief /\ a.scan = TRUE /\ a.matches = x.matches
  BY <1>1 DEF Run
<1> HIDE DEF a
<1>7. /\ y \in Run /\ y.step = a.step /\ y.pc = a.pc /\ y.seen = a.seen /\ y.read = a.read
      /\ y.previous = a.previous /\ y.history = a.history /\ y.crawled = a.crawled
      /\ y.stamp = a.stamp /\ y.brief = a.brief /\ y.scan = a.scan /\ y.matches = matches
  BY <1>4, <1>6 DEF Run
<1> HIDE DEF y
<1>8. /\ RunFits(y, Pasts) /\ (Stored(y) <=> Stored(x)) /\ Same(x, y) /\ y.scan
  BY <1>1, <1>6, <1>7 DEF RunFits, Stored, Same, InputOf
<1>9. /\ runs'[r] = y /\ \A q \in Runs \ {r} : runs'[q] = runs[q]
  BY <1>1, <1>5 DEF TypeOK
<1> DEFINE items == CandidateItems(r, matches, TRUE)
<1>10. /\ items \subseteq Item /\ \A i \in items : i.run = r /\ i.kind = "candidate_finding"
       /\ \A i, j \in items : SameChange(i, j) => i = j
  BY <1>1, <1>4, CandidateItemsAreDistinct
<1> HIDE DEF items
<1>11. persistChangeItems(items)
  BY <1>2 DEF items
<1>12. InboxType' /\ inbox \subseteq inbox'
  BY <1>1, <1>3, <1>10, <1>11, InboxGrows
<1>13. InboxFits'
  <2>1. \A q \in Runs : BriefItems(q)' = BriefItems(q)
    BY <1>10, <1>11 DEF BriefItems, persistChangeItems
  <2> QED
    BY <1>6, <1>7, <1>8, <1>9, <2>1, InboxKept DEF IInv
<1> DEFINE C(u) == [id |-> <<r, u>>, status |-> "new"]
<1>14. ASSUME NEW u \in matches
       PROVE  /\ C(u) \in [id : Candidates, status : {"new", "confirmed"}]
              /\ C(u).id = <<r, u>> /\ C(u).id[1] = r
  BY <1>4 DEF Candidates
<1>15. candidates' = candidates \cup {C(u) : u \in matches}
  BY <1>2
<1>16. \A c \in candidates : c.id[1] \in Runs \ {r} /\ c \in [id : Candidates, status : {"new", "confirmed"}]
  BY <1>1 DEF IInv, FindingsFit, TypeOK, Candidates
<1>17. \A u, v \in matches : C(u).id = C(v).id => u = v
  BY <1>14
<1> HIDE DEF C
<1>18. RestType'
  <2>1. candidates' \subseteq [id : Candidates, status : {"new", "confirmed"}]
    BY <1>14, <1>15, <1>16
  <2>2. ASSUME NEW c \in candidates', NEW d \in candidates', c.id = d.id PROVE c = d
    BY <1>1, <1>14, <1>15, <1>16, <1>17, <2>2 DEF TypeOK
  <2>3. Ids \subseteq Ids'
    BY <1>15 DEF Ids
  <2> QED
    BY <1>1, <1>3, <2>1, <2>2, <2>3 DEF TypeOK, RestType
<1>19. FindingsFit' /\ PromotedOnEvidence'
  <2>1. \A c \in candidates' : runs'[c.id[1]].scan
    BY <1>8, <1>9, <1>14, <1>15, <1>16 DEF IInv, FindingsFit
  <2> QED
    BY <1>3, <1>15, <2>1 DEF IInv, FindingsFit, PromotedOnEvidence, Evidence
<1> QED
  BY <1>1, <1>3, <1>5, <1>6, <1>7, <1>8, <1>12, <1>13, <1>18, <1>19, ReportStep

\* The second brief finds its own items in the inbox and leaves them.
LEMMA EnrichBriefInv ==
  ASSUME IInv, NEW r \in Runs, EnrichBrief(r)
  PROVE  IInv'
<1> DEFINE x == runs[r]
           y == Gone(x, "finish")
           found == CandidateItems(r, x.matches, FALSE)
<1>1. /\ x \in Run /\ RunFits(x, Pasts) /\ TypeOK /\ clock \in 0..MaxStamps
      /\ x.step = "report" /\ x.brief /\ x.previous # None /\ x.matches \subseteq Urls
      /\ x.pc = "ready"
  BY RunOf DEF EnrichBrief, RunFits, Run
<1>2. /\ runs' = [runs EXCEPT ![r] = y] /\ persistChangeItems(Items(r) \cup found)
      /\ UNCHANGED <<completed, reviews, endpoints, clock, candidates, findings>>
  BY <1>1, GotoIsGone DEF EnrichBrief, Items
<1>3. /\ y \in Run /\ y.step = "finish" /\ y.pc = "ready" /\ y.seen = x.seen
      /\ y.read = x.read /\ y.previous = x.previous /\ y.history = x.history
      /\ y.crawled = x.crawled /\ y.stamp = x.stamp /\ y.brief = x.brief /\ y.scan = x.scan
      /\ y.matches = x.matches
  BY <1>1, GoneFields DEF Steps
<1> HIDE DEF y
<1>4. /\ RunFits(y, Pasts) /\ (Stored(y) <=> Stored(x)) /\ Same(x, y)
  BY <1>1, <1>3 DEF RunFits, Settled, Stored, Same
<1>5. /\ Items(r) \subseteq Item /\ \A i \in Items(r) : i.run = r /\ i.kind # "candidate_finding"
      /\ \A i, j \in Items(r) : SameChange(i, j) => i = j
  BY <1>1, ItemsAreDistinct
<1>6. /\ found \subseteq Item /\ \A i \in found : i.run = r /\ i.kind = "candidate_finding"
      /\ \A i, j \in found : SameChange(i, j) => i = j
  BY <1>1, CandidateItemsAreDistinct
<1> HIDE DEF found
<1>7. /\ Items(r) \cup found \in SUBSET Item
      /\ \A i, j \in Items(r) \cup found : SameChange(i, j) => i = j
  BY <1>5, <1>6 DEF SameChange
<1>8. InboxType' /\ inbox \subseteq inbox'
  BY <1>1, <1>2, <1>7, InboxGrows
<1>9. inbox' \subseteq inbox \cup found
  <2>1. Items(r) \subseteq inbox
    BY <1>1 DEF IInv, InboxFits, BriefItems
  <2>2. \A i \in Items(r) : SameChange(i, i)
    BY DEF SameChange
  <2> QED
    BY <1>2, <2>1, <2>2 DEF persistChangeItems
<1>10. /\ runs'[r] = y /\ \A q \in Runs \ {r} : runs'[q] = runs[q]
  BY <1>1, <1>2 DEF TypeOK
<1>11. InboxFits'
  <2>1. \A q \in Runs : BriefItems(q)' = BriefItems(q)
    BY <1>6, <1>8, <1>9 DEF BriefItems
  <2> QED
    BY <1>3, <1>4, <1>10, <2>1, InboxKept DEF IInv
<1>12. FindingsFit' /\ PromotedOnEvidence' /\ RestType'
  BY <1>1, <1>2, <1>3, <1>10, FindingsKept, RestKept
<1> QED
  BY <1>1, <1>2, <1>3, <1>4, <1>8, <1>11, <1>12, ReportStep

\* A completed run has announced what it saw, or the run it compared with has.
LEMMA CompleteInv ==
  ASSUME IInv, NEW r \in Runs, Complete(r)
  PROVE  IInv'
<1> DEFINE x == runs[r]
           y == Gone(x, "completed")
<1>1. /\ x \in Run /\ RunFits(x, Pasts) /\ TypeOK /\ clock \in 0..MaxStamps
      /\ x.step = "finish" /\ x.brief /\ x.previous # None /\ x.previous \in Pasts
      /\ x.pc = "ready" /\ x.seen \in Sightings
  BY RunOf DEF Complete, RunFits, Run
<1>2. /\ runs' = [runs EXCEPT ![r] = y] /\ completed' = Append(completed, r)
      /\ UNCHANGED <<inbox, reviews, endpoints, clock, candidates, findings>>
  BY <1>1, GotoIsGone DEF Complete
<1>3. /\ y \in Run /\ y.step = "completed" /\ y.pc = "ready" /\ y.seen = x.seen
      /\ y.read = x.read /\ y.previous = x.previous /\ y.history = x.history
      /\ y.crawled = x.crawled /\ y.stamp = x.stamp /\ y.brief = x.brief /\ y.scan = x.scan
      /\ y.matches = x.matches
  BY <1>1, GoneFields DEF Steps
<1> HIDE DEF y
<1>4. /\ RunFits(y, Pasts) /\ (Stored(y) <=> Stored(x)) /\ Same(x, y)
  BY <1>1, <1>3 DEF RunFits, Settled, Stored, Same
<1>5. /\ runs' \in [Runs -> Run] /\ runs'[r] = y /\ \A q \in Runs \ {r} : runs'[q] = runs[q]
      /\ completed' \in Seq(Runs) /\ DOMAIN completed \subseteq DOMAIN completed'
      /\ \A k \in DOMAIN completed :
           /\ completed'[k] = completed[k] /\ runs'[completed[k]] = runs[completed[k]]
      /\ RunsFit' /\ CompletedFit'
  BY <1>1, <1>2, <1>3, <1>4, RunMoves
<1>6. EndpointSpan' /\ RowsFit'
  BY <1>2, <1>3, <1>4, SpanKept
<1>7. FindingsFit' /\ PromotedOnEvidence' /\ RestType'
  BY <1>1, <1>2, <1>3, <1>5, FindingsKept, RestKept
<1>8. InboxFits'
  <2>1. \A q \in Runs : BriefItems(q)' = BriefItems(q)
    BY <1>2 DEF BriefItems
  <2> QED
    BY <1>3, <1>4, <1>5, <2>1, InboxKept DEF IInv
<1>9. TypeOK'
  BY <1>2, <1>5, <1>7 DEF IInv, TypeOK, RestType, SameChange
<1>10. SeenIsAnnounced'
  <2> DEFINE done == {completed[k] : k \in DOMAIN completed}
             Announced(u, c, by) ==
               \E i \in inbox : i.run \in by /\ i.kind = "new_or_changed" /\ i.key = u /\ i.now = c
  <2>1. {completed'[k] : k \in DOMAIN completed'} = done \cup {r}
    BY <1>1, <1>2, <1>5 DEF TypeOK
  <2>2. \A q \in done, u \in Urls : runs[q].seen[u] # Absent => Announced(u, runs[q].seen[u], done)
    BY DEF IInv, SeenIsAnnounced
  <2>3. \A q \in done : runs'[q].seen = runs[q].seen
    BY <1>5
  <2>4. ASSUME NEW u \in Urls, x.seen[u] # Absent PROVE Announced(u, x.seen[u], done \cup {r})
    <3>1. CASE x.seen[u] # x.previous[u]
      <4> DEFINE i == [run |-> r, kind |-> "new_or_changed", key |-> u,
                       before |-> x.previous[u], now |-> x.seen[u], evidence |-> FALSE]
      <4>1. i \in AssetItems(r)
        BY <2>4, <3>1 DEF AssetItems, Changed
      <4>2. i \in inbox
        BY <1>1, <4>1 DEF IInv, InboxFits, BriefItems, Items
      <4>3. i.run = r /\ i.kind = "new_or_changed" /\ i.key = u /\ i.now = x.seen[u]
        OBVIOUS
      <4> HIDE DEF i
      <4> QED
        BY <4>2, <4>3
    <3>2. CASE x.seen[u] = x.previous[u]
      <4>1. x.previous # Nothing
        BY <2>4, <3>2 DEF Nothing
      <4>2. PICK k \in DOMAIN completed : x.previous = runs[completed[k]].seen
        BY <1>1, <4>1 DEF Pasts
      <4>3. completed[k] \in done /\ runs[completed[k]].seen[u] = x.seen[u]
        BY <3>2, <4>2
      <4> QED
        BY <2>2, <2>4, <4>3
    <3> QED
      BY <3>1, <3>2
  <2>5. \A q \in done \cup {r}, u \in Urls :
          runs'[q].seen[u] # Absent => Announced(u, runs'[q].seen[u], done \cup {r})
    BY <1>3, <1>5, <2>2, <2>3, <2>4
  <2> QED
    BY <1>2, <2>1, <2>5 DEF SeenIsAnnounced
<1> QED
  BY <1>5, <1>6, <1>7, <1>8, <1>9, <1>10 DEF IInv

-----------------------------------------------------------------------------
(* The operators of the program.                                           *)

\* No run moves and no item is written.
LEMMA OperatorStep ==
  ASSUME IInv, UNCHANGED <<runs, completed, inbox, endpoints>>, InboxType', RestType',
         FindingsFit', PromotedOnEvidence'
  PROVE  IInv'
<1>1. RunsFit' /\ CompletedFit'
  BY DEF IInv, RunsFit, CompletedFit, Pasts
<1>2. SeenIsAnnounced'
  BY DEF IInv, SeenIsAnnounced
<1>3. EndpointSpan' /\ RowsFit'
  <2>1. \A e \in Endpoints : Times(e)' = Times(e)
    BY DEF Times, Stored
  <2> QED
    BY <2>1 DEF IInv, EndpointSpan, RowsFit, Times, Stored
<1>4. InboxFits'
  <2>1. \A q \in Runs : Items(q)' = Items(q) /\ BriefItems(q)' = BriefItems(q)
    BY ItemsAreKept DEF Same, BriefItems
  <2> QED
    BY <2>1 DEF IInv, InboxFits
<1>5. TypeOK'
  BY DEF IInv, TypeOK, InboxType, RestType
<1> QED
  BY <1>1, <1>2, <1>3, <1>4, <1>5 DEF IInv

\* A review is of an item of the inbox.
LEMMA ReviewChangeItemInv ==
  ASSUME IInv, ReviewChangeItem
  PROVE  IInv'
<1>1. PICK i \in inbox, d \in Dispositions :
        reviews' = {v \in reviews : v.item # i} \cup {[item |-> i, disposition |-> d]}
  BY DEF ReviewChangeItem
<1>2. UNCHANGED <<runs, completed, inbox, endpoints, clock, candidates, findings>>
  BY DEF ReviewChangeItem
<1>3. InboxType'
  BY <1>1, <1>2 DEF IInv, TypeOK, InboxType, SameChange
<1>4. clock' \in 0..MaxStamps
  BY <1>2 DEF IInv, TypeOK
<1>5. RestType' /\ FindingsFit' /\ PromotedOnEvidence'
  BY <1>2, <1>4, RestKept, FindingsKept
<1> QED
  BY <1>2, <1>3, <1>5, OperatorStep

\* Candidates and the inbox are as they were.
LEMMA InboxTypeKept ==
  ASSUME IInv, UNCHANGED <<inbox, reviews>>
  PROVE  InboxType'
BY DEF IInv, TypeOK, InboxType, SameChange

\* A verification is added to those there are.
LEMMA RecordVerificationInv ==
  ASSUME IInv, RecordVerification
  PROVE  IInv'
<1>1. PICK c \in Ids, v \in Verdicts : verifications' = Append(verifications, [candidate |-> c, verdict |-> v])
  BY DEF RecordVerification
<1>2. UNCHANGED <<runs, completed, inbox, reviews, endpoints, clock, candidates, verified, promoting>>
  BY DEF RecordVerification
<1> DEFINE new == [candidate |-> c, verdict |-> v]
<1>3. new \in Verification /\ new.candidate = c
  BY ChangesAssumption DEF Verification, Ids, IInv, TypeOK
<1> HIDE DEF new
<1>4. verifications \in Seq(Verification)
  BY DEF IInv, FindingsFit
<1>5. /\ verifications' \in Seq(Verification) /\ DOMAIN verifications \subseteq DOMAIN verifications'
      /\ \A k \in DOMAIN verifications : verifications'[k] = verifications[k]
      /\ \A k \in DOMAIN verifications' \ DOMAIN verifications : verifications'[k] = new
  BY <1>1, <1>3, <1>4 DEF new
<1>6. RestType'
  BY <1>2, <1>3, <1>5 DEF IInv, TypeOK, RestType, Ids
<1>7. FindingsFit' /\ PromotedOnEvidence'
  BY <1>2, <1>5 DEF IInv, FindingsFit, PromotedOnEvidence, Evidence
<1>8. InboxType'
  BY <1>2, InboxTypeKept
<1> QED
  BY <1>2, <1>6, <1>7, <1>8, OperatorStep

\* What a promotion rests on is recorded, and records stay.
LEMMA PromoteBeginInv ==
  ASSUME IInv, PromoteBegin
  PROVE  IInv'
<1>1. PICK c \in Ids : Promotable(c) /\ promoting' = c
  BY DEF PromoteBegin
<1>2. UNCHANGED <<runs, completed, inbox, reviews, endpoints, clock, candidates, verifications, verified>>
  BY DEF PromoteBegin
<1>3. Evidence(c)
  <2>1. PICK k \in 1..Len(verifications) :
          /\ Latest(c, k)
          /\ verifications[k].verdict = [evidence |-> "observed", impact |-> "confirmed"]
    BY <1>1 DEF Promotable
  <2>2. verifications \in Seq(Verification)
    BY DEF IInv, FindingsFit
  <2>3. k \in DOMAIN verifications /\ verifications[k] \in Verification
    BY <2>2
  <2>4. verifications[k] = [candidate |-> c,
                            verdict |-> [evidence |-> "observed", impact |-> "confirmed"]]
    BY <2>1, <2>3 DEF Latest, Verification
  <2> QED
    BY <2>3, <2>4 DEF Evidence
<1>4. RestType'
  BY <1>1, <1>2 DEF IInv, TypeOK, RestType, Ids
<1>5. FindingsFit' /\ PromotedOnEvidence'
  BY <1>1, <1>2, <1>3 DEF IInv, FindingsFit, PromotedOnEvidence, Evidence
<1>6. InboxType'
  BY <1>2, InboxTypeKept
<1> QED
  BY <1>2, <1>4, <1>5, <1>6, OperatorStep

\* The finding is written with its candidate.
LEMMA PromoteVerifiedFindingInv ==
  ASSUME IInv, PromoteVerifiedFinding
  PROVE  IInv'
<1> DEFINE p == promoting
           new == [id |-> p, status |-> "confirmed"]
<1>1. /\ p # None /\ verified' = verified \cup {p} /\ promoting' = None
      /\ candidates' = {c \in candidates : c.id # p} \cup {new}
      /\ UNCHANGED <<runs, completed, inbox, reviews, endpoints, clock, verifications>>
  BY DEF PromoteVerifiedFinding
<1>2. PICK old \in candidates : old.id = p
  BY <1>1 DEF IInv, TypeOK, Ids
<1>3. p \in Candidates /\ new \in [id : Candidates, status : {"new", "confirmed"}] /\ new.id = p
  BY <1>2 DEF IInv, TypeOK
<1>4. Ids' = Ids
  BY <1>1, <1>2, <1>3 DEF Ids
<1>5. RestType'
  <2>1. candidates' \subseteq [id : Candidates, status : {"new", "confirmed"}]
    BY <1>1, <1>3 DEF IInv, TypeOK
  <2>2. \A c, d \in candidates' : c.id = d.id => c = d
    BY <1>1, <1>3 DEF IInv, TypeOK
  <2>3. verified' \cup ({promoting'} \ {None}) \subseteq Ids
    BY <1>1, <1>2 DEF IInv, TypeOK, Ids
  <2>4. \A k \in DOMAIN verifications' : verifications'[k].candidate \in Ids'
    BY <1>1, <1>4 DEF IInv, TypeOK
  <2> QED
    BY <1>1, <1>4, <2>1, <2>2, <2>3, <2>4 DEF IInv, TypeOK, RestType
<1>6. FindingsFit'
  <2>1. \A c \in candidates' : runs'[c.id[1]].scan
    BY <1>1, <1>2, <1>3 DEF IInv, FindingsFit
  <2> QED
    BY <1>1, <2>1 DEF IInv, FindingsFit
<1>7. PromotedOnEvidence'
  <2>1. ASSUME NEW c \in verified'
        PROVE  [id |-> c, status |-> "confirmed"] \in candidates' /\ Evidence(c)
    <3>1. CASE c = p
      BY <1>1, <3>1 DEF IInv, FindingsFit
    <3>2. CASE c # p
      BY <1>1, <2>1, <3>2 DEF IInv, PromotedOnEvidence, Evidence
    <3> QED
      BY <3>1, <3>2
  <2> QED
    BY <1>1, <2>1 DEF PromotedOnEvidence, Evidence
<1>8. InboxType'
  BY <1>1, InboxTypeKept
<1> QED
  BY <1>1, <1>5, <1>6, <1>7, <1>8, OperatorStep

-----------------------------------------------------------------------------
(* The invariant.                                                          *)

\* It holds before any run.
LEMMA InitInv == Init => IInv
<1> SUFFICES ASSUME Init PROVE IInv
  OBVIOUS
<1>1. /\ NewRun \in Run /\ NewRun.step = "probe" /\ NewRun.pc = "ready" /\ NewRun.read = None
      /\ NewRun.previous = None /\ NewRun.history = None /\ NewRun.stamp = 0 /\ NewRun.brief = FALSE
  BY DEF NewRun, Run, Steps, Nothing, Sightings
<1>2. runs \in [Runs -> Run] /\ \A r \in Runs : runs[r] = NewRun
  BY <1>1 DEF Init
<1>3. completed = <<>> /\ completed \in Seq(Runs) /\ DOMAIN completed = {}
  BY DEF Init
<1>4. TypeOK
  BY <1>2, <1>3, ChangesAssumption DEF Init, TypeOK
<1>5. RunsFit /\ CompletedFit
  BY <1>1, <1>2, <1>3 DEF RunsFit, RunFits, CompletedFit
<1>6. InboxFits /\ SeenIsAnnounced
  BY <1>1, <1>2, <1>3 DEF Init, InboxFits, BriefItems, SeenIsAnnounced
<1>7. \A e \in Endpoints : Times(e) = {}
  BY <1>1, <1>2 DEF Times, Stored
<1>8. EndpointSpan /\ RowsFit
  BY <1>7 DEF Init, EndpointSpan, RowsFit, Times, Stored
<1>9. FindingsFit /\ PromotedOnEvidence
  BY DEF Init, FindingsFit, PromotedOnEvidence
<1> QED
  BY <1>4, <1>5, <1>6, <1>8, <1>9 DEF IInv

\* Every step of every run and every operator keeps it.
LEMMA NextInv == IInv /\ [Next]_vars => IInv'
<1> SUFFICES ASSUME IInv, [Next]_vars PROVE IInv'
  OBVIOUS
<1>1. CASE UNCHANGED vars
  <2>1. UNCHANGED <<runs, completed, inbox, reviews, endpoints, clock, candidates, findings>>
    BY <1>1 DEF vars, findings
  <2>2. clock' \in 0..MaxStamps
    BY <2>1 DEF IInv, TypeOK
  <2>3. RestType' /\ FindingsFit' /\ PromotedOnEvidence' /\ InboxType'
    BY <2>1, <2>2, RestKept, FindingsKept, InboxTypeKept
  <2> QED
    BY <2>1, <2>3, OperatorStep
<1> QED
  BY <1>1, ProbeInv, LoadEffectiveStepInputInv, PersistEffectiveStepInputInv, CompareAssetsInv,
     CrawlInv, ClassifyEndpointInv, PersistEndpointsInv, GenerateBriefInv, SkipScanInv, ScanInv,
     EnrichBriefInv, CompleteInv, FailInv, CrashInv, ReviewChangeItemInv, RecordVerificationInv,
     PromoteBeginInv, PromoteVerifiedFindingInv DEF Next

\* The inductive invariant holds of every behaviour.
THEOREM ChangesInvariant == Spec => []IInv
BY InitInv, NextInv, PTL DEF Spec

\* The rows agree: inbox items are unique, endpoint rows span the times of the
\* classifications that found them, and a finding has its evidence.
THEOREM RowsAlwaysAgree == Spec => []RowsAgree
<1>1. IInv => RowsAgree
  BY DEF IInv, RowsAgree
<1> QED
  BY <1>1, ChangesInvariant, PTL

\* What a completed run saw has been announced by a run that completed.
THEOREM CompletedRunsAreAnnounced == Spec => []SeenIsAnnounced
<1>1. IInv => SeenIsAnnounced
  BY DEF IInv
<1> QED
  BY <1>1, ChangesInvariant, PTL

\* The asset items of a brief take what one completed run saw, or nothing, to
\* exactly what this run saw.
THEOREM BriefsReplayTheInbox == Spec => []InboxReplays
<1>1. IInv => InboxReplays
  <2> SUFFICES ASSUME IInv, NEW r \in Runs, runs[r].brief
               PROVE  \E past \in Pasts :
                        \A u \in Urls :
                          \/ AssetsOf(r, u) = {} /\ runs[r].seen[u] = past[u]
                          \/ \E i \in AssetsOf(r, u) :
                               /\ AssetsOf(r, u) = {i} /\ i.before = past[u] /\ i.now = runs[r].seen[u]
                               /\ i.before # i.now /\ (i.kind = "removed" <=> i.now = Absent)
    BY DEF InboxReplays, Pasts
  <2> DEFINE x == runs[r]
             A(k, u) == [run |-> r, kind |-> k, key |-> u,
                         before |-> x.previous[u], now |-> x.seen[u], evidence |-> FALSE]
  <2>1. x.previous # None /\ x.previous \in Pasts
    BY DEF IInv, RunsFit, RunFits
  <2>2. \A u : AssetsOf(r, u) = {i \in Items(r) : i.key = u /\ i.kind \in {"new_or_changed", "removed"}}
    <3>1. BriefItems(r) = Items(r)
      BY DEF IInv, InboxFits
    <3> QED
      BY <3>1 DEF AssetsOf, BriefItems
  <2>3. \A i \in EndpointItems(r) : i.kind = "endpoint"
    BY DEF EndpointItems
  <2>4. AssetItems(r) = {A("new_or_changed", u) : u \in Changed(x.seen, x.previous)}
                          \cup {A("removed", u) : u \in Removed(x.seen, x.previous)}
    BY DEF AssetItems
  <2>5. \A k, u : /\ A(k, u).kind = k /\ A(k, u).key = u
                  /\ A(k, u).before = x.previous[u] /\ A(k, u).now = x.seen[u]
    OBVIOUS
  <2> HIDE DEF A
  <2>6. ASSUME NEW u \in Urls
        PROVE  \/ AssetsOf(r, u) = {} /\ x.seen[u] = x.previous[u]
               \/ \E i \in AssetsOf(r, u) :
                    /\ AssetsOf(r, u) = {i} /\ i.before = x.previous[u] /\ i.now = x.seen[u]
                    /\ i.before # i.now /\ (i.kind = "removed" <=> i.now = Absent)
    <3>1. AssetsOf(r, u) = {i \in AssetItems(r) : i.key = u /\ i.kind \in {"new_or_changed", "removed"}}
      BY <2>2, <2>3 DEF Items
    <3>2. CASE x.seen[u] # Absent /\ x.seen[u] # x.previous[u]
      <4>1. AssetsOf(r, u) = {A("new_or_changed", u)}
        BY <2>4, <2>5, <3>1, <3>2 DEF Changed, Removed
      <4> QED
        BY <2>5, <3>2, <4>1
    <3>3. CASE x.seen[u] = Absent /\ x.previous[u] # Absent
      <4>1. AssetsOf(r, u) = {A("removed", u)}
        BY <2>4, <2>5, <3>1, <3>3 DEF Changed, Removed
      <4> QED
        BY <2>5, <3>3, <4>1
    <3>4. CASE x.seen[u] = x.previous[u]
      BY <2>4, <2>5, <3>1, <3>4 DEF Changed, Removed
    <3> QED
      BY <3>2, <3>3, <3>4
  <2> QED
    BY <2>1, <2>6
<1> QED
  BY <1>1, ChangesInvariant, PTL

\* A URL whose status changed is in the brief as an asset and as an endpoint,
\* when the comparison and the classification used the same past.
THEOREM RulesAgreeOnChanges == Spec => []BriefsAgree
<1>1. IInv => BriefsAgree
  <2> SUFFICES ASSUME IInv, NEW r \in Runs, runs[r].brief, runs[r].previous = runs[r].history,
                      NEW u \in Urls, runs[r].previous[u] # Absent, runs[r].seen[u] # Absent,
                      runs[r].previous[u].status # runs[r].seen[u].status,
                      Unknown \notin {runs[r].previous[u].status, runs[r].seen[u].status}
               PROVE  {"new_or_changed", "endpoint"} \subseteq
                        {i.kind : i \in {j \in inbox : j.run = r /\ j.key = u}}
    BY DEF BriefsAgree
  <2> DEFINE x == runs[r]
  <2>1. Items(r) \subseteq inbox /\ u \in Endpoints /\ Weight[u] \in Nat
    BY ChangesAssumption DEF IInv, InboxFits, BriefItems, Endpoints
  <2>2. \E i \in Items(r) : i.run = r /\ i.key = u /\ i.kind = "new_or_changed"
    <3> DEFINE i == [run |-> r, kind |-> "new_or_changed", key |-> u,
                     before |-> x.previous[u], now |-> x.seen[u], evidence |-> FALSE]
    <3>1. i \in Items(r)
      BY DEF Items, AssetItems, Changed
    <3>2. i.run = r /\ i.key = u /\ i.kind = "new_or_changed"
      OBVIOUS
    <3> HIDE DEF i
    <3> QED
      BY <3>1, <3>2
  <2>3. \E i \in Items(r) : i.run = r /\ i.key = u /\ i.kind = "endpoint"
    <3>1. SeenBefore(x, u) /\ StatusChanged(x, u) /\ u \in Classified(x)
      BY DEF SeenBefore, StatusChanged, Classified, Probed
    <3>2. Score(x, u) >= 2
      BY <2>1, <3>1 DEF Score
    <3> DEFINE i == [run |-> r, kind |-> "endpoint", key |-> u, before |-> Absent,
                     now |-> IF u \in Urls THEN x.seen[u] ELSE Absent, evidence |-> FALSE]
    <3>3. i \in EndpointItems(r)
      BY <3>1, <3>2 DEF EndpointItems, InterestingEndpoints
    <3>4. i.run = r /\ i.key = u /\ i.kind = "endpoint"
      OBVIOUS
    <3> HIDE DEF i
    <3> QED
      BY <3>3, <3>4 DEF Items
  <2> QED
    BY <2>1, <2>2, <2>3
<1> QED
  BY <1>1, ChangesInvariant, PTL

\* No step alters or removes an item of the inbox.
THEOREM ItemsStay == Spec => ItemsAreImmutable
<1>1. [Next]_vars => [inbox \subseteq inbox']_vars
  BY DEF Next, vars, Probe, LoadEffectiveStepInput, PersistEffectiveStepInput, CompareAssets, Crawl,
         ClassifyEndpoint, persistEndpoints, GenerateBrief, SkipScan, Scan, EnrichBrief, Complete,
         Fail, Crash, ReviewChangeItem, RecordVerification, PromoteBegin, PromoteVerifiedFinding,
         persistChangeItems
<1> QED
  BY <1>1, PTL DEF Spec, ItemsAreImmutable
=============================================================================
