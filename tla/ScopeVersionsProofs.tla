------------------------ MODULE ScopeVersionsProofs ------------------------
(***************************************************************************)
(* What holds of ScopeVersions for any rules, hosts, scope files, manual   *)
(* roots, references and requests.                                         *)
(***************************************************************************)
EXTENDS ScopeVersions, SequenceTheorems, TLAPS

(***************************************************************************)
(* The inductive invariant.  A version in force was accepted, or narrows   *)
(* one that was: that is what a request compares itself with, and it still *)
(* holds when the request, which has let go of the lock, records.          *)
(***************************************************************************)
\* The scope s asks for no more than the scope g.
Narrows(s, g) == s.include \subseteq g.include /\ g.exclude \subseteq s.exclude

\* The scope of a plan narrows one that a person has accepted.
Accepted(k) == \E g \in granted : Narrows(Compiled[k.scope], Compiled[g])

\* Whatever is in force was accepted, or asks for less.
ForceIsAccepted == \A k \in PlanKey : InForce(k) => Accepted(k)

\* A request compares itself with a version in force, and has loaded its file.
RequestsStand ==
  \A q \in Requests :
    /\ req[q].pc = "based" => req[q].base \in PlanKey /\ InForce(req[q].base)
    /\ req[q].pc # "idle" => req[q].ref \in Refs /\ <<req[q].ref, req[q].plan.scope>> \in loaded

\* The scope an engine has loaded was accepted, or asks for less.
RunsStand == \A q \in Requests : runs[q] # None => Accepted(runs[q].current)

\* The repair has loaded the file it refers to.
RepairStands == repair # None => <<repair.ref, repair.plan.scope>> \in loaded

ScopeInv ==
  /\ TypeOK /\ ProgramIsInForce /\ ForceIsAccepted
  /\ RequestsStand /\ RunsStand /\ RepairStands /\ ReferencesLocate

\* Only the file and the count of edits change.
LEMMA EditStep ==
  ASSUME ScopeInv, NEW f \in Refs, NEW sc \in Contents, EditFile(f, sc)
  PROVE  ScopeInv'
<1>1. UNCHANGED <<program, versions, stamp, req, runs, repair, granted, loaded, asked>>
  BY DEF EditFile, history
<1>2. edits' \in 0 .. MaxEdits /\ file' \in [Refs -> Contents]
  BY ScopeAssumption DEF EditFile, ScopeInv, TypeOK
<1>3. TypeOK'
  BY <1>1, <1>2 DEF ScopeInv, TypeOK
<1>4. ProgramIsInForce' /\ ForceIsAccepted'
  BY <1>1 DEF ScopeInv, ProgramIsInForce, ForceIsAccepted, InForce, Accepted
<1>5. RequestsStand' /\ RunsStand' /\ RepairStands' /\ ReferencesLocate'
  BY <1>1 DEF ScopeInv, RequestsStand, RunsStand, RepairStands, ReferencesLocate, InForce, Accepted
<1> QED
  BY <1>3, <1>4, <1>5 DEF ScopeInv

\* A request that is planned has loaded its file.
LEMMA SubmitStep ==
  ASSUME ScopeInv, NEW q \in Requests, NEW f \in Refs, NEW m \in Manuals, NEW ack \in BOOLEAN,
         NEW r \in Requests \cup {None}, Submit(q, f, m, ack, r)
  PROVE  ScopeInv'
<1> DEFINE k == [scope |-> file[f], manual |-> m]
           from == IF r = None THEN None ELSE runs[r].version
           n == [NoRequest EXCEPT !.pc = "planned", !.ref = f, !.plan = k, !.ack = ack, !.resume = from]
<1>1. /\ UNCHANGED <<file, program, versions, stamp, runs, repair, granted, edits>>
      /\ req' = [req EXCEPT ![q] = n]
      /\ loaded' = loaded \cup {<<f, k.scope>>}
      /\ asked' = asked + 1 /\ asked < MaxRuns
  BY DEF Submit
<1>2. TypeOK /\ k \in PlanKey /\ k.scope = file[f] /\ file[f] \in Contents
  BY DEF ScopeInv, TypeOK, PlanKey
<1>3. from \in PlanKey \cup {None}
  BY <1>2 DEF Submit, TypeOK, Run
<1> HIDE DEF k, from
<1>4. n \in Request /\ n.pc = "planned" /\ n.ref = f /\ n.plan = k
  BY <1>2, <1>3 DEF Request, NoRequest
<1> HIDE DEF n
<1>5. TypeOK'
  <2>1. /\ req' \in [Requests -> Request]
        /\ loaded' \subseteq Refs \X Contents
        /\ asked' \in 0 .. MaxRuns
    BY <1>1, <1>2, <1>4, ScopeAssumption DEF TypeOK
  <2>2. \A p \in Requests : req'[p].pc # "idle" => req'[p].plan # None
    BY <1>1, <1>2, <1>4, NoneIsNoRow DEF TypeOK
  <2> QED
    BY <1>1, <1>2, <2>1, <2>2 DEF TypeOK
<1>6. ProgramIsInForce' /\ ForceIsAccepted' /\ RunsStand'
  BY <1>1 DEF ScopeInv, ProgramIsInForce, ForceIsAccepted, RunsStand, InForce, Accepted
<1>7. RepairStands' /\ ReferencesLocate'
  BY <1>1 DEF ScopeInv, RepairStands, ReferencesLocate
<1>8. ASSUME NEW p \in Requests
      PROVE  /\ req'[p].pc = "based" => req'[p].base \in PlanKey /\ InForce(req'[p].base)
             /\ req'[p].pc # "idle" => req'[p].ref \in Refs /\ <<req'[p].ref, req'[p].plan.scope>> \in loaded'
  <2>1. CASE p = q
    BY <1>1, <1>2, <1>4, <2>1 DEF TypeOK
  <2>2. CASE p # q
    <3>1. req'[p] = req[p]
      BY <1>1, <1>2, <2>2 DEF TypeOK
    <3> QED
      BY <1>1, <3>1 DEF ScopeInv, RequestsStand
  <2> QED
    BY <2>1, <2>2
<1>9. RequestsStand'
  BY <1>1, <1>8 DEF RequestsStand, InForce
<1> QED
  BY <1>5, <1>6, <1>7, <1>9 DEF ScopeInv

\* The version a request is compared with is in force.
LEMMA SelectStep ==
  ASSUME ScopeInv, NEW q \in Requests, SelectBase(q)
  PROVE  ScopeInv'
<1>1. PICK k \in PlanKey : InForce(k) /\ req' = [req EXCEPT ![q].base = k, ![q].pc = "based"]
  BY DEF SelectBase
<1>2. req[q].pc = "planned" /\ UNCHANGED <<file, program, versions, stamp, runs, repair, granted, loaded, edits, asked>>
  BY DEF SelectBase, history
<1>3. TypeOK /\ req[q] \in Request
  BY DEF ScopeInv, TypeOK
<1> DEFINE n == [req[q] EXCEPT !.base = k, !.pc = "based"]
<1>4. /\ n \in Request /\ n.pc = "based" /\ n.base = k /\ n.plan = req[q].plan /\ n.ref = req[q].ref
  BY <1>3 DEF Request
<1>5. req' = [req EXCEPT ![q] = n]
  BY <1>1, <1>3 DEF TypeOK
<1> HIDE DEF n
<1>6. TypeOK'
  <2>1. req' \in [Requests -> Request]
    BY <1>3, <1>4, <1>5 DEF TypeOK
  <2>2. \A p \in Requests : req'[p].pc # "idle" => req'[p].plan # None
    BY <1>2, <1>3, <1>4, <1>5 DEF TypeOK
  <2> QED
    BY <1>2, <1>3, <2>1, <2>2 DEF TypeOK
<1>7. ProgramIsInForce' /\ ForceIsAccepted' /\ RunsStand'
  BY <1>2 DEF ScopeInv, ProgramIsInForce, ForceIsAccepted, RunsStand, InForce, Accepted
<1>8. RepairStands' /\ ReferencesLocate'
  BY <1>2 DEF ScopeInv, RepairStands, ReferencesLocate
<1>9. ASSUME NEW p \in Requests
      PROVE  /\ req'[p].pc = "based" => req'[p].base \in PlanKey /\ InForce(req'[p].base)
             /\ req'[p].pc # "idle" => req'[p].ref \in Refs /\ <<req'[p].ref, req'[p].plan.scope>> \in loaded'
  <2>1. req[p].pc # "idle" => req[p].ref \in Refs /\ <<req[p].ref, req[p].plan.scope>> \in loaded
    BY DEF ScopeInv, RequestsStand
  <2>2. CASE p = q
    <3>1. req'[p] = n
      BY <1>3, <1>5, <2>2 DEF TypeOK
    <3>2. InForce(k)
      BY <1>1
    <3> QED
      BY <1>2, <1>4, <2>1, <2>2, <3>1, <3>2
  <2>3. CASE p # q
    <3>1. req'[p] = req[p]
      BY <1>3, <1>5, <2>3 DEF TypeOK
    <3> QED
      BY <1>2, <2>1, <3>1 DEF ScopeInv, RequestsStand
  <2> QED
    BY <2>2, <2>3
<1>10. RequestsStand'
  BY <1>2, <1>9 DEF RequestsStand, InForce
<1> QED
  BY <1>6, <1>7, <1>8, <1>10 DEF ScopeInv

\* What the upsert of a version does: it takes nothing out of force, and puts
\* a plan into force only if the request is acknowledged or expands nothing.
LEMMA InsertFacts ==
  ASSUME TypeOK, NEW k \in PlanKey, NEW f \in Refs, NEW expands \in BOOLEAN, NEW acked \in BOOLEAN,
         ~acked => expands, Insert(k, f, expands, acked)
  PROVE  /\ versions' \in [PlanKey -> Row \cup {None}] /\ stamp' \in Nat
         /\ \A j \in PlanKey : versions'[j] # None => versions'[j].created <= stamp'
         /\ \A j \in PlanKey \ {k} : versions'[j] = versions[j]
         /\ versions'[k] # None
         /\ versions'[k].ref = IF versions[k] = None THEN f ELSE versions[k].ref
         /\ InForce(k) \/ acked <=> InForce(k)'
<1>1. CASE versions[k] = None
  <2> DEFINE new == [ref |-> f, created |-> stamp + 1, expands |-> expands, acked |-> acked]
  <2>1. versions' = [versions EXCEPT ![k] = new] /\ stamp' = stamp + 1
    BY <1>1 DEF Insert
  <2>2. /\ new \in Row /\ new # None
        /\ new.ref = f /\ new.created = stamp + 1 /\ new.expands = expands /\ new.acked = acked
    BY NoneIsNoRow DEF TypeOK, Row
  <2> HIDE DEF new
  <2>3. versions'[k] = new /\ \A j \in PlanKey \ {k} : versions'[j] = versions[j]
    BY <2>1 DEF TypeOK
  <2>4. versions' \in [PlanKey -> Row \cup {None}] /\ stamp' \in Nat
    BY <2>1, <2>2 DEF TypeOK
  <2>5. ASSUME NEW j \in PlanKey, versions'[j] # None PROVE versions'[j].created <= stamp'
    <3>1. CASE j = k
      BY <2>1, <2>2, <2>3, <3>1 DEF TypeOK
    <3>2. CASE j # k
      <4>1. versions[j] \in Row /\ versions[j].created <= stamp /\ versions'[j] = versions[j]
        BY <2>3, <2>5, <3>2 DEF TypeOK
      <4>2. versions[j].created \in Nat /\ stamp \in Nat
        BY <4>1 DEF Row, TypeOK
      <4> QED
        BY <2>1, <4>1, <4>2
    <3> QED
      BY <3>1, <3>2
  <2>6. ~InForce(k) /\ (InForce(k)' <=> acked)
    BY <1>1, <2>2, <2>3 DEF InForce
  <2> QED
    BY <1>1, <2>2, <2>3, <2>4, <2>5, <2>6
<1>2. CASE versions[k] # None
  <2>1. versions[k] \in Row
    BY <1>2 DEF TypeOK
  <2> DEFINE yes == versions[k].acked \/ acked
             new == [versions[k] EXCEPT !.acked = yes]
  <2>2. versions' = [versions EXCEPT ![k] = new] /\ stamp' = stamp
    BY <1>2 DEF Insert, TypeOK
  <2>3. yes \in BOOLEAN
    BY Zenon
  <2> HIDE DEF yes
  <2>4. /\ new \in Row /\ new.ref = versions[k].ref /\ new.created = versions[k].created
        /\ new.expands = versions[k].expands /\ new.acked = yes
    BY <2>1, <2>3 DEF Row
  <2>5. new # None
    BY <2>4, NoneIsNoRow
  <2> HIDE DEF new
  <2>6. versions'[k] = new /\ \A j \in PlanKey \ {k} : versions'[j] = versions[j]
    BY <2>2 DEF TypeOK
  <2>7. versions' \in [PlanKey -> Row \cup {None}] /\ stamp' \in Nat
    BY <2>2, <2>4 DEF TypeOK
  <2>8. ASSUME NEW j \in PlanKey, versions'[j] # None PROVE versions'[j].created <= stamp'
    BY <1>2, <2>2, <2>4, <2>6, <2>8 DEF TypeOK
  <2>9. InForce(k) \/ acked <=> InForce(k)'
    BY <1>2, <2>4, <2>5, <2>6 DEF InForce, yes
  <2> QED
    BY <1>2, <2>4, <2>5, <2>6, <2>7, <2>8, <2>9
<1> QED
  BY <1>1, <1>2

\* A run that starts holds a plan, whatever it is a continuation of.
LEMMA ProceedFacts ==
  ASSUME TypeOK, NEW q \in Requests, req[q].pc = "based", Proceed(q)
  PROVE  /\ runs' \in [Requests -> Run \cup {None}] /\ req' \in [Requests -> Request]
         /\ runs'[q].current = req[q].plan /\ req'[q].pc = "idle"
         /\ \A p \in Requests \ {q} : runs'[p] = runs[p] /\ req'[p] = req[p]
<1>1. req[q] \in Request /\ req[q].plan # None
  BY DEF TypeOK
<1>2. req[q].plan \in PlanKey /\ req[q].resume \in PlanKey \cup {None}
  BY <1>1 DEF Request
<1> DEFINE from == IF req[q].resume = None THEN req[q].plan ELSE req[q].resume
           new == [version |-> from, current |-> req[q].plan, active |-> TRUE]
<1>3. from \in PlanKey
  BY <1>2
<1> HIDE DEF from
<1>4. new \in Run /\ new.current = req[q].plan
  BY <1>2, <1>3 DEF Run
<1>5. runs' = [runs EXCEPT ![q] = new] /\ req' = [req EXCEPT ![q] = NoRequest]
  BY DEF Proceed, from
<1>6. NoRequest \in Request /\ NoRequest.pc = "idle"
  BY DEF NoRequest, Request
<1> HIDE DEF new
<1> QED
  BY <1>4, <1>5, <1>6 DEF TypeOK

\* The loaded file is the version in force: the run starts.
LEMMA UnchangedStep ==
  ASSUME ScopeInv, NEW q \in Requests, Unchanged(q)
  PROVE  ScopeInv'
<1>1. /\ req[q].pc = "based" /\ req[q].base = req[q].plan /\ Proceed(q)
      /\ UNCHANGED <<file, program, versions, stamp, repair, granted, loaded, edits, asked>>
  BY DEF Unchanged, history
<1>2. TypeOK
  BY DEF ScopeInv
<1>3. /\ runs' \in [Requests -> Run \cup {None}] /\ req' \in [Requests -> Request]
      /\ runs'[q].current = req[q].plan /\ req'[q].pc = "idle"
      /\ \A p \in Requests \ {q} : runs'[p] = runs[p] /\ req'[p] = req[p]
  BY <1>1, <1>2, ProceedFacts
<1>4. TypeOK'
  BY <1>1, <1>2, <1>3 DEF TypeOK
<1>5. ProgramIsInForce' /\ ForceIsAccepted' /\ RepairStands' /\ ReferencesLocate'
  BY <1>1 DEF ScopeInv, ProgramIsInForce, ForceIsAccepted, RepairStands, ReferencesLocate, InForce, Accepted
<1>6. RequestsStand'
  BY <1>1, <1>3 DEF ScopeInv, RequestsStand, InForce
<1>7. RunsStand'
  <2>1. PICK k \in PlanKey : k = req[q].plan
    BY <1>1 DEF ScopeInv, RequestsStand
  <2>2. InForce(k)
    BY <1>1, <2>1 DEF ScopeInv, RequestsStand
  <2>3. Accepted(k)
    BY <2>2 DEF ScopeInv, ForceIsAccepted
  <2> QED
    BY <1>1, <1>3, <2>1, <2>3 DEF ScopeInv, RunsStand, Accepted
<1> QED
  BY <1>4, <1>5, <1>6, <1>7 DEF ScopeInv

\* Narrowing is transitive, and it is what is left when nothing expands.
LEMMA NarrowsFacts ==
  ASSUME NEW k \in PlanKey, NEW base \in PlanKey
  PROVE  /\ Narrows(Compiled[k.scope], Compiled[k.scope])
         /\ ~ExpandsScope(base, k) => Narrows(Compiled[k.scope], Compiled[base.scope])
         /\ \A g : Narrows(Compiled[k.scope], Compiled[base.scope]) /\ Narrows(Compiled[base.scope], Compiled[g])
                     => Narrows(Compiled[k.scope], Compiled[g])
BY DEF Narrows, ExpandsScope, difference

\* A plan that differs from the base is recorded: it comes into force if a
\* person accepts it or if it narrows the base, which is in force still.
LEMMA RecordStep ==
  ASSUME ScopeInv, NEW q \in Requests, Record(q)
  PROVE  ScopeInv'
<1>1. TypeOK /\ req[q].pc = "based" /\ UNCHANGED <<file, repair, loaded, edits, asked>>
  BY DEF ScopeInv, Record
<1>2. req[q] \in Request /\ req[q].plan # None /\ req[q].ref \in Refs /\ <<req[q].ref, req[q].plan.scope>> \in loaded
  BY <1>1 DEF ScopeInv, RequestsStand, TypeOK
<1>3. PICK k \in PlanKey : k = req[q].plan
  BY <1>2 DEF Request
<1>4. PICK base \in PlanKey : base = req[q].base /\ InForce(base)
  BY <1>1 DEF ScopeInv, RequestsStand
<1>5. PICK expands \in BOOLEAN : expands = ExpandsScope(base, k)
  BY Zenon DEF ExpandsScope
<1>6. PICK acked \in BOOLEAN : acked = (~ExpandsScope(base, k) \/ req[q].ack)
  BY Zenon
<1>7. /\ Insert(k, req[q].ref, expands, acked)
      /\ \/ acked /\ program' = [ref |-> req[q].ref, plan |-> k] /\ Proceed(q)
         \/ ~acked /\ req' = [req EXCEPT ![q].pc = "blocked"] /\ UNCHANGED <<program, runs>>
      /\ granted' = IF expands /\ acked THEN granted \cup {k.scope} ELSE granted
  BY <1>3, <1>4, <1>5, <1>6, Zenon DEF Record
<1>8. /\ versions' \in [PlanKey -> Row \cup {None}] /\ stamp' \in Nat
      /\ \A j \in PlanKey : versions'[j] # None => versions'[j].created <= stamp'
      /\ \A j \in PlanKey \ {k} : versions'[j] = versions[j]
      /\ versions'[k] # None
      /\ versions'[k].ref = IF versions[k] = None THEN req[q].ref ELSE versions[k].ref
      /\ InForce(k) \/ acked <=> InForce(k)'
  BY <1>1, <1>2, <1>5, <1>6, <1>7, InsertFacts
<1>9. granted \subseteq granted' /\ granted' \subseteq Contents
  BY <1>1, <1>7 DEF TypeOK, PlanKey
<1>10. \A j \in PlanKey \ {k} : InForce(j)' <=> InForce(j)
  BY <1>8 DEF InForce
<1>11. acked => \E g \in granted' : Narrows(Compiled[k.scope], Compiled[g])
  <2>1. CASE expands
    BY <1>7, <2>1, NarrowsFacts
  <2>2. CASE ~expands
    <3>1. PICK g \in granted : Narrows(Compiled[base.scope], Compiled[g])
      BY <1>4 DEF ScopeInv, ForceIsAccepted, Accepted
    <3> QED
      BY <1>5, <1>9, <2>2, <3>1, NarrowsFacts
  <2> QED
    BY <2>1, <2>2
<1>12. ForceIsAccepted'
  <2>1. ASSUME NEW j \in PlanKey, InForce(j)' PROVE \E g \in granted' : Narrows(Compiled[j.scope], Compiled[g])
    <3>1. CASE InForce(j)
      BY <1>9, <3>1 DEF ScopeInv, ForceIsAccepted, Accepted
    <3>2. CASE ~InForce(j)
      BY <1>8, <1>10, <1>11, <2>1, <3>2
    <3> QED
      BY <3>1, <3>2
  <2> QED
    BY <2>1 DEF ForceIsAccepted, Accepted
<1>13. \A j \in PlanKey : versions'[j] # None => <<versions'[j].ref, j.scope>> \in loaded
  BY <1>2, <1>3, <1>8 DEF ScopeInv, ReferencesLocate
<1>14. CASE acked
  <2>1. program' = [ref |-> req[q].ref, plan |-> k] /\ Proceed(q)
    BY <1>7, <1>14
  <2>2. /\ runs' \in [Requests -> Run \cup {None}] /\ req' \in [Requests -> Request]
        /\ runs'[q].current = k /\ req'[q].pc = "idle"
        /\ \A p \in Requests \ {q} : runs'[p] = runs[p] /\ req'[p] = req[p]
    BY <1>1, <1>3, <2>1, ProceedFacts
  <2>3. program' \in [ref : Refs, plan : PlanKey] /\ program'.plan = k /\ program'.ref = req[q].ref
    BY <1>2, <2>1
  <2>4. TypeOK'
    BY <1>1, <1>8, <1>9, <2>2, <2>3 DEF TypeOK
  <2>5. ProgramIsInForce'
    BY <1>8, <1>14, <2>3 DEF ProgramIsInForce, InForce
  <2>6. RequestsStand'
    <3>1. \A p \in Requests \ {q} :
            /\ req[p].pc = "based" => req[p].base \in PlanKey /\ InForce(req[p].base)
            /\ req[p].pc # "idle" => req[p].ref \in Refs /\ <<req[p].ref, req[p].plan.scope>> \in loaded
      BY DEF ScopeInv, RequestsStand
    <3>2. \A j \in PlanKey : InForce(j) => InForce(j)'
      BY <1>8, <1>10
    <3> QED
      BY <1>1, <2>2, <3>1, <3>2 DEF RequestsStand, InForce
  <2>7. RunsStand'
    BY <1>9, <1>11, <1>14, <2>2 DEF ScopeInv, RunsStand, Accepted
  <2>8. RepairStands' /\ ReferencesLocate'
    BY <1>1, <1>2, <1>3, <1>13, <2>3 DEF ScopeInv, RepairStands, ReferencesLocate
  <2> QED
    BY <1>12, <2>4, <2>5, <2>6, <2>7, <2>8 DEF ScopeInv
<1>15. CASE ~acked
  <2> DEFINE n == [req[q] EXCEPT !.pc = "blocked"]
  <2>1. req' = [req EXCEPT ![q] = n] /\ UNCHANGED <<program, runs>>
    BY <1>1, <1>7, <1>15 DEF TypeOK
  <2>2. n \in Request /\ n.pc = "blocked" /\ n.ref = req[q].ref /\ n.plan = req[q].plan
    BY <1>2 DEF Request
  <2> HIDE DEF n
  <2>3. req'[q] = n /\ \A p \in Requests \ {q} : req'[p] = req[p]
    BY <1>1, <2>1 DEF TypeOK
  <2>4. TypeOK'
    <3>1. req' \in [Requests -> Request]
      BY <1>1, <2>1, <2>2 DEF TypeOK
    <3>2. \A p \in Requests : req'[p].pc # "idle" => req'[p].plan # None
      BY <1>1, <1>2, <2>2, <2>3 DEF TypeOK
    <3> QED
      BY <1>1, <1>8, <1>9, <2>1, <3>1, <3>2 DEF TypeOK
  <2>5. \A j \in PlanKey : InForce(j) => InForce(j)'
    BY <1>8, <1>10
  <2>6. ProgramIsInForce'
    <3>1. program.plan \in PlanKey
      BY <1>1 DEF TypeOK
    <3> QED
      BY <2>1, <2>5, <3>1 DEF ScopeInv, ProgramIsInForce, InForce
  <2>7. RequestsStand'
    <3>1. \A p \in Requests \ {q} :
            /\ req[p].pc = "based" => req[p].base \in PlanKey /\ InForce(req[p].base)
            /\ req[p].pc # "idle" => req[p].ref \in Refs /\ <<req[p].ref, req[p].plan.scope>> \in loaded
      BY DEF ScopeInv, RequestsStand
    <3> QED
      BY <1>1, <1>2, <2>2, <2>3, <2>5, <3>1 DEF RequestsStand, InForce
  <2>8. RunsStand'
    BY <1>9, <2>1 DEF ScopeInv, RunsStand, Accepted
  <2>9. RepairStands' /\ ReferencesLocate'
    BY <1>1, <1>13, <2>1 DEF ScopeInv, RepairStands, ReferencesLocate
  <2> QED
    BY <1>12, <2>4, <2>6, <2>7, <2>8, <2>9 DEF ScopeInv
<1> QED
  BY <1>14, <1>15

\* A run that stops keeps its plan.
LEMMA StopStep ==
  ASSUME ScopeInv, NEW q \in Requests, StopRun(q)
  PROVE  ScopeInv'
<1>1. /\ runs[q] # None /\ runs' = [runs EXCEPT ![q].active = FALSE]
      /\ UNCHANGED <<file, program, versions, stamp, req, repair, granted, loaded, edits, asked>>
  BY DEF StopRun, history
<1>2. TypeOK /\ runs[q] \in Run
  BY <1>1 DEF ScopeInv, TypeOK
<1> DEFINE n == [runs[q] EXCEPT !.active = FALSE]
<1>3. n \in Run /\ n.current = runs[q].current
  BY <1>2 DEF Run
<1>4. runs' = [runs EXCEPT ![q] = n]
  BY <1>1, <1>2 DEF TypeOK
<1> HIDE DEF n
<1>5. runs'[q] = n /\ (\A p \in Requests \ {q} : runs'[p] = runs[p]) /\ runs' \in [Requests -> Run \cup {None}]
  BY <1>2, <1>3, <1>4 DEF TypeOK
<1>6. UNCHANGED <<file, program, versions, stamp, req, repair, granted, loaded, edits, asked>>
  BY <1>1
<1>7. TypeOK'
  BY <1>2, <1>5, <1>6 DEF TypeOK
<1>8. ProgramIsInForce' /\ ForceIsAccepted' /\ RepairStands' /\ ReferencesLocate' /\ RequestsStand'
  BY <1>6 DEF ScopeInv, ProgramIsInForce, ForceIsAccepted, RepairStands, ReferencesLocate, RequestsStand,
     InForce, Accepted
<1>9. RunsStand'
  <2>1. runs[q] # None
    BY <1>1
  <2> QED
    BY <1>3, <1>5, <1>6, <2>1 DEF ScopeInv, RunsStand, Accepted
<1> QED
  BY <1>7, <1>8, <1>9 DEF ScopeInv

\* One row of a version changes, and not its age: it stays in force.
LEMMA RowChange ==
  ASSUME TypeOK, NEW k \in PlanKey, versions[k] # None, NEW n \in Row, versions' = [versions EXCEPT ![k] = n],
         n.created = versions[k].created, UNCHANGED stamp
  PROVE  /\ versions' \in [PlanKey -> Row \cup {None}] /\ stamp' \in Nat
         /\ \A j \in PlanKey : versions'[j] # None => versions'[j].created <= stamp'
         /\ \A j \in PlanKey \ {k} : versions'[j] = versions[j] /\ (InForce(j)' <=> InForce(j))
         /\ versions'[k] = n /\ n # None
<1>1. versions'[k] = n /\ \A j \in PlanKey \ {k} : versions'[j] = versions[j]
  BY DEF TypeOK
<1>2. n # None
  BY NoneIsNoRow
<1>3. versions' \in [PlanKey -> Row \cup {None}] /\ stamp' \in Nat
  BY DEF TypeOK
<1>4. \A j \in PlanKey : versions'[j] # None => versions'[j].created <= stamp'
  BY <1>1 DEF TypeOK
<1>5. \A j \in PlanKey \ {k} : InForce(j)' <=> InForce(j)
  BY <1>1 DEF InForce
<1> QED
  BY <1>1, <1>2, <1>3, <1>4, <1>5

\* The operator accepts an expansion: it comes into force with its own reference.
LEMMA AcknowledgeStep ==
  ASSUME ScopeInv, NEW k \in PlanKey, AcknowledgeScopeVersion(k)
  PROVE  ScopeInv'
<1>1. /\ versions[k] # None /\ versions' = [versions EXCEPT ![k].acked = TRUE]
      /\ program' = [ref |-> versions[k].ref, plan |-> k]
      /\ granted' = granted \cup {k.scope}
      /\ UNCHANGED <<file, stamp, req, runs, repair, loaded, edits, asked>>
  BY DEF AcknowledgeScopeVersion
<1>2. TypeOK /\ versions[k] \in Row
  BY <1>1 DEF ScopeInv, TypeOK
<1> DEFINE n == [versions[k] EXCEPT !.acked = TRUE]
<1>3. n \in Row /\ n.acked = TRUE /\ n.ref = versions[k].ref /\ n.created = versions[k].created
  BY <1>2 DEF Row
<1>4. versions' = [versions EXCEPT ![k] = n]
  BY <1>1, <1>2 DEF TypeOK
<1> HIDE DEF n
<1>5. versions[k] # None /\ UNCHANGED <<file, stamp, req, runs, repair, loaded, edits, asked>>
  BY <1>1
<1>6. /\ versions' \in [PlanKey -> Row \cup {None}] /\ stamp' \in Nat
      /\ \A j \in PlanKey : versions'[j] # None => versions'[j].created <= stamp'
      /\ \A j \in PlanKey \ {k} : versions'[j] = versions[j] /\ (InForce(j)' <=> InForce(j))
      /\ versions'[k] = n /\ n # None
  BY <1>2, <1>3, <1>4, <1>5, RowChange
<1>7. /\ program' \in [ref : Refs, plan : PlanKey] /\ program'.plan = k /\ program'.ref = versions[k].ref
      /\ granted \subseteq granted' /\ k.scope \in granted' /\ granted' \subseteq Contents
  BY <1>1, <1>2 DEF TypeOK, Row, PlanKey
<1>8. TypeOK'
  BY <1>2, <1>5, <1>6, <1>7 DEF TypeOK
<1>9. InForce(k)'
  BY <1>3, <1>6 DEF InForce
<1>10. ProgramIsInForce'
  BY <1>3, <1>6, <1>7 DEF ProgramIsInForce, InForce
<1>11. ForceIsAccepted'
  <2>1. ASSUME NEW j \in PlanKey, InForce(j)' PROVE \E g \in granted' : Narrows(Compiled[j.scope], Compiled[g])
    <3>1. CASE j = k
      BY <1>7, <3>1, NarrowsFacts
    <3>2. CASE j # k
      BY <1>6, <1>7, <2>1, <3>2 DEF ScopeInv, ForceIsAccepted, Accepted
    <3> QED
      BY <3>1, <3>2
  <2> QED
    BY <2>1 DEF ForceIsAccepted, Accepted
<1>12. RequestsStand'
  <2>1. \A p \in Requests :
          /\ req[p].pc = "based" => req[p].base \in PlanKey /\ InForce(req[p].base)
          /\ req[p].pc # "idle" => req[p].ref \in Refs /\ <<req[p].ref, req[p].plan.scope>> \in loaded
    BY DEF ScopeInv, RequestsStand
  <2>2. \A j \in PlanKey : InForce(j) => InForce(j)'
    BY <1>6, <1>9
  <2> QED
    BY <1>5, <2>1, <2>2 DEF RequestsStand, InForce
<1>13. RunsStand'
  BY <1>5, <1>7 DEF ScopeInv, RunsStand, Accepted
<1>14. RepairStands' /\ ReferencesLocate'
  BY <1>3, <1>5, <1>6, <1>7 DEF ScopeInv, RepairStands, ReferencesLocate
<1> QED
  BY <1>8, <1>10, <1>11, <1>12, <1>13, <1>14 DEF ScopeInv

\* The repair has loaded, under its reference, what the programs row says.
LEMMA UpdateStep ==
  ASSUME ScopeInv, NEW f \in Refs, scopeUpdateCommand(f)
  PROVE  ScopeInv'
<1>1. /\ program.plan = [scope |-> file[f], manual |-> NoManual]
      /\ repair' = [ref |-> f, plan |-> program.plan]
      /\ loaded' = loaded \cup {<<f, file[f]>>}
      /\ UNCHANGED <<file, program, versions, stamp, req, runs, granted, edits, asked>>
  BY DEF scopeUpdateCommand
<1>2. TypeOK
  BY DEF ScopeInv
<1>3. repair' \in [ref : Refs, plan : PlanKey] /\ loaded' \subseteq Refs \X Contents /\ loaded \subseteq loaded'
  BY <1>1, <1>2 DEF TypeOK
<1>4. TypeOK'
  BY <1>1, <1>2, <1>3 DEF TypeOK
<1>5. ProgramIsInForce' /\ ForceIsAccepted' /\ RunsStand'
  BY <1>1 DEF ScopeInv, ProgramIsInForce, ForceIsAccepted, RunsStand, InForce, Accepted
<1>6. RequestsStand' /\ ReferencesLocate'
  BY <1>1, <1>3 DEF ScopeInv, RequestsStand, ReferencesLocate, InForce
<1>7. RepairStands'
  BY <1>1 DEF RepairStands
<1> QED
  BY <1>4, <1>5, <1>6, <1>7 DEF ScopeInv

\* The reference changes only while the plan is still the one that was checked.
LEMMA RepairStep ==
  ASSUME ScopeInv, RepairProgramScopeReference
  PROVE  ScopeInv'
<1>1. /\ repair # None /\ versions[repair.plan] # None
      /\ UNCHANGED <<file, stamp, req, runs, granted, loaded, edits, asked>> /\ repair' = None
  BY DEF RepairProgramScopeReference, history
<1>2. TypeOK /\ repair \in [ref : Refs, plan : PlanKey]
  BY <1>1 DEF ScopeInv, TypeOK
<1>3. PICK k \in PlanKey : k = repair.plan
  BY <1>2
<1>4. CASE program.plan = k
  <2>1. versions[k] \in Row /\ versions[k] # None
    BY <1>1, <1>2, <1>3 DEF TypeOK
  <2> DEFINE n == [versions[k] EXCEPT !.ref = repair.ref]
  <2>2. /\ n \in Row /\ n.ref = repair.ref /\ n.created = versions[k].created
        /\ n.expands = versions[k].expands /\ n.acked = versions[k].acked
    BY <1>2, <2>1 DEF Row
  <2>3. versions' = [versions EXCEPT ![k] = n] /\ program' = [program EXCEPT !.ref = repair.ref]
    BY <1>2, <1>3, <1>4 DEF RepairProgramScopeReference, TypeOK
  <2> HIDE DEF n
  <2>4. /\ versions' \in [PlanKey -> Row \cup {None}] /\ stamp' \in Nat
        /\ \A j \in PlanKey : versions'[j] # None => versions'[j].created <= stamp'
        /\ \A j \in PlanKey \ {k} : versions'[j] = versions[j] /\ (InForce(j)' <=> InForce(j))
        /\ versions'[k] = n /\ n # None
    BY <1>1, <1>2, <2>1, <2>2, <2>3, RowChange
  <2>5. program' \in [ref : Refs, plan : PlanKey] /\ program'.plan = k /\ program'.ref = repair.ref
    BY <1>2, <1>4, <2>3 DEF TypeOK
  <2>6. TypeOK'
    BY <1>1, <1>2, <2>4, <2>5 DEF TypeOK
  <2>7. InForce(k)' <=> InForce(k)
    BY <2>1, <2>2, <2>4 DEF InForce
  <2>8. \A j \in PlanKey : InForce(j)' <=> InForce(j)
    BY <2>4, <2>7
  <2>9. ProgramIsInForce'
    <3>1. InForce(k)
      BY <1>4 DEF ScopeInv, ProgramIsInForce
    <3> QED
      BY <2>5, <2>7, <3>1 DEF ProgramIsInForce, InForce
  <2>10. ForceIsAccepted' /\ RunsStand'
    BY <1>1, <2>8 DEF ScopeInv, ForceIsAccepted, RunsStand, Accepted
  <2>11. RequestsStand'
    <3>1. \A p \in Requests :
            /\ req[p].pc = "based" => req[p].base \in PlanKey /\ InForce(req[p].base)
            /\ req[p].pc # "idle" => req[p].ref \in Refs /\ <<req[p].ref, req[p].plan.scope>> \in loaded
      BY DEF ScopeInv, RequestsStand
    <3> QED
      BY <1>1, <2>8, <3>1 DEF RequestsStand, InForce
  <2>12. <<repair.ref, k.scope>> \in loaded
    BY <1>1, <1>3 DEF ScopeInv, RepairStands
  <2>13. ReferencesLocate' /\ RepairStands'
    BY <1>1, <2>2, <2>4, <2>5, <2>12 DEF ScopeInv, ReferencesLocate, RepairStands
  <2> QED
    BY <2>6, <2>9, <2>10, <2>11, <2>13 DEF ScopeInv
<1>5. CASE program.plan # k
  <2>1. UNCHANGED <<program, versions>>
    BY <1>3, <1>5 DEF RepairProgramScopeReference
  <2>2. TypeOK'
    BY <1>1, <1>2, <2>1 DEF TypeOK
  <2>3. ProgramIsInForce' /\ ForceIsAccepted' /\ RunsStand'
    BY <1>1, <2>1 DEF ScopeInv, ProgramIsInForce, ForceIsAccepted, RunsStand, InForce, Accepted
  <2>4. RequestsStand' /\ ReferencesLocate' /\ RepairStands'
    BY <1>1, <2>1 DEF ScopeInv, RequestsStand, ReferencesLocate, RepairStands, InForce
  <2> QED
    BY <2>2, <2>3, <2>4 DEF ScopeInv
<1> QED
  BY <1>4, <1>5

\* The program is created with a version that its creator accepts.
LEMMA ScopeInit ==
  ASSUME Init
  PROVE  ScopeInv
<1>1. PICK f \in Refs :
        LET k == [scope |-> file[f], manual |-> NoManual] IN
        /\ program = [ref |-> f, plan |-> k]
        /\ versions = [j \in PlanKey |->
                         IF j = k THEN [ref |-> f, created |-> 1, expands |-> FALSE, acked |-> TRUE]
                         ELSE None]
        /\ granted = {k.scope}
        /\ loaded = {<<f, k.scope>>}
  BY DEF Init
<1>2. /\ file \in [Refs -> Contents] /\ stamp = 1 /\ repair = None /\ edits = 0 /\ asked = 0
      /\ req = [q \in Requests |-> NoRequest] /\ runs = [q \in Requests |-> None]
  BY DEF Init
<1>3. PICK k \in PlanKey : k = [scope |-> file[f], manual |-> NoManual]
  BY <1>2, ScopeAssumption DEF PlanKey
<1> DEFINE n == [ref |-> f, created |-> 1, expands |-> FALSE, acked |-> TRUE]
<1>4. n \in Row /\ n # None /\ n.ref = f /\ n.created = 1 /\ n.expands = FALSE /\ n.acked = TRUE
  <2>1. n \in Row
    BY DEF Row
  <2> QED
    BY <2>1, NoneIsNoRow
<1>5. /\ versions = [j \in PlanKey |-> IF j = k THEN n ELSE None]
      /\ program = [ref |-> f, plan |-> k] /\ granted = {k.scope} /\ loaded = {<<f, k.scope>>}
  BY <1>1, <1>3
<1> HIDE DEF n
<1>6. k.scope \in Contents /\ program.plan = k /\ program.ref = f
  BY <1>5 DEF PlanKey
<1>7. NoRequest \in Request /\ NoRequest.pc = "idle"
  BY DEF NoRequest, Request
<1>8. versions[k] = n /\ \A j \in PlanKey \ {k} : versions[j] = None
  BY <1>5
<1>9. TypeOK
  <2>1. \A j \in PlanKey : versions[j] # None => versions[j].created <= stamp
    BY <1>2, <1>4, <1>8
  <2>2. \A q \in Requests : req[q].pc # "idle" => req[q].plan # None
    BY <1>2, <1>7
  <2>3. versions \in [PlanKey -> Row \cup {None}] /\ program \in [ref : Refs, plan : PlanKey]
    BY <1>4, <1>5
  <2> QED
    BY <1>2, <1>5, <1>6, <1>7, <2>1, <2>2, <2>3, ScopeAssumption DEF TypeOK
<1>10. ProgramIsInForce
  BY <1>4, <1>6, <1>8 DEF ProgramIsInForce, InForce
<1>11. ForceIsAccepted
  BY <1>5, <1>8, NarrowsFacts DEF ForceIsAccepted, Accepted, InForce
<1>12. RequestsStand /\ RunsStand /\ RepairStands
  BY <1>2, <1>7 DEF RequestsStand, RunsStand, RepairStands
<1>13. ReferencesLocate
  BY <1>4, <1>5, <1>6, <1>8 DEF ReferencesLocate
<1> QED
  BY <1>9, <1>10, <1>11, <1>12, <1>13 DEF ScopeInv

\* The inductive invariant, for any constants.
THEOREM ScopeInvariant == Spec => []ScopeInv
<1>1. Init => ScopeInv
  BY ScopeInit
<1>2. ScopeInv /\ [Next]_vars => ScopeInv'
  <2> SUFFICES ASSUME ScopeInv, [Next]_vars PROVE ScopeInv'
    OBVIOUS
  <2>1. CASE UNCHANGED vars
    <3>1. UNCHANGED <<file, program, versions, stamp, req, runs, repair, granted, loaded, edits, asked>>
      BY <2>1 DEF vars, history
    <3>2. TypeOK' /\ ProgramIsInForce' /\ ForceIsAccepted'
      BY <3>1 DEF ScopeInv, TypeOK, ProgramIsInForce, ForceIsAccepted, InForce, Accepted
    <3>3. RequestsStand' /\ RunsStand' /\ RepairStands' /\ ReferencesLocate'
      BY <3>1 DEF ScopeInv, RequestsStand, RunsStand, RepairStands, ReferencesLocate, InForce, Accepted
    <3> QED
      BY <3>2, <3>3 DEF ScopeInv
  <2> QED
    BY <2>1, EditStep, SubmitStep, SelectStep, UnchangedStep, RecordStep, StopStep, AcknowledgeStep, UpdateStep,
       RepairStep DEF Next
<1> QED
  BY <1>1, <1>2, PTL DEF Spec

\* VersionsAgree for any constants: the programs row never shows a scope that
\* still waits to be accepted, and requests and versions keep their types.
THEOREM VersionsAlwaysAgree == Spec => []VersionsAgree
<1>1. ScopeInv => VersionsAgree
  BY DEF ScopeInv, VersionsAgree
<1> QED
  BY <1>1, ScopeInvariant, PTL

\* ReferencesLocate for any constants: neither a repair nor an acknowledgement
\* pairs the reference of one version with the plan of another.
THEOREM ReferencesAreTrue == Spec => []ReferencesLocate
<1>1. ScopeInv => ReferencesLocate
  BY DEF ScopeInv
<1> QED
  BY <1>1, ScopeInvariant, PTL

(***************************************************************************)
(* What runs may contact.  A narrower scope allows less, so the scope that *)
(* a run has loaded allows only what a person accepted; and what a step    *)
(* contacts was validated against the loaded scope.                        *)
(***************************************************************************)
\* A scope that asks for less allows less: exclusions come before inclusions.
LEMMA NarrowerAllowsLess ==
  ASSUME NEW s, NEW g, Narrows(s, g), NEW u, Allows(s, u)
  PROVE  Allows(g, u)
<1>1. /\ ~ \E r \in s.exclude : matches(r, Located(u))
      /\ \E r \in s.include : matches(r, Located(u))
  BY DEF Allows, Evaluate
<1>2. /\ ~ \E r \in g.exclude : matches(r, Located(u))
      /\ \E r \in g.include : matches(r, Located(u))
  BY <1>1 DEF Narrows
<1> QED
  BY <1>2 DEF Allows, Evaluate

\* A scope that the loaded one narrows covers all that a run may contact.
LEMMA NarrowerIsCovered ==
  ASSUME NEW version, NEW now, NEW g, Narrows(Compiled[now.scope], Compiled[g])
  PROVE  Covers(g, version, now)
<1> DEFINE Prepared(k) ==
             executeTargetingPrepare(Compiled[k.scope], InitialURLs(PlanOf(version)),
               discoverSubdomains(Compiled[k.scope], PlanOf(version).roots, PlanOf(k).roots))
<1>1. Contacted(version, now) =
        UNION {Prepared(k) : k \in {k \in {version, now} : ValidateTargets(Compiled[now.scope], Prepared(k))}}
  BY DEF Contacted
<1> HIDE DEF Prepared
<1>2. ASSUME NEW u \in Contacted(version, now) PROVE Allows(Compiled[now.scope], u)
  BY <1>1 DEF ValidateTargets
<1>3. Allowed(Compiled[now.scope]) \subseteq Allowed(Compiled[g])
  BY NarrowerAllowsLess DEF Allowed
<1>4. ValidateTargets(Compiled[g], Contacted(version, now))
  BY <1>2, NarrowerAllowsLess DEF ValidateTargets
<1> QED
  BY <1>3, <1>4 DEF Covers

\* RunsAreAuthorized for any constants: whatever chain of narrowings, blocked
\* attempts, acknowledgements and resumes led to a run, one scope that a
\* person accepted allows all that the run's scope allows and all it contacts.
THEOREM RunsStayAuthorized == Spec => []RunsAreAuthorized
<1>1. ScopeInv => RunsAreAuthorized
  <2> SUFFICES ASSUME ScopeInv, NEW q \in Active
               PROVE  \E g \in granted : <<runs[q].version, runs[q].current, g>> \in Covered
    BY DEF RunsAreAuthorized
  <2>1. q \in Requests /\ runs[q] # None /\ runs[q] \in Run
    BY DEF Active, ScopeInv, TypeOK
  <2>2. PICK version \in PlanKey, now \in PlanKey : version = runs[q].version /\ now = runs[q].current
    BY <2>1 DEF Run
  <2>3. PICK g \in granted : Narrows(Compiled[now.scope], Compiled[g])
    BY <2>1, <2>2 DEF ScopeInv, RunsStand, Accepted
  <2>4. g \in Contents /\ Covers(g, version, now)
    BY <2>3, NarrowerIsCovered DEF ScopeInv, TypeOK
  <2>5. <<version, now, g>> \in Covered
    <3> DEFINE v == <<version, now>>
    <3>1. v \in PlanKey \X PlanKey /\ v[1] = version /\ v[2] = now
      OBVIOUS
    <3> HIDE DEF v
    <3>2. <<version, now, g>> \in {<<v[1], v[2], h>> : h \in {h \in Contents : Covers(h, v[1], v[2])}}
      BY <2>4, <3>1
    <3> QED
      BY <3>1, <3>2 DEF Covered
  <2> QED
    BY <2>2, <2>5
<1> QED
  BY <1>1, ScopeInvariant, PTL

(***************************************************************************)
(* Discovery roots.  A root without an operator's reason comes from a rule *)
(* with a wildcard; no exclusion that agrees with one of its endpoints     *)
(* takes away all hosts below it, so a host that no rule names is left.    *)
(***************************************************************************)
\* The elements of a name and of the name it is below.
LEMMA BelowElements ==
  ASSUME NEW h \in Seq(Labels), NEW b \in Seq(Labels), Len(h) > Len(b)
  PROVE  Below(h, b) <=> \A i \in 1 .. Len(b) : b[i] = h[Len(h) - Len(b) + i]
<1> DEFINE m == Len(h) - Len(b) + 1
           t == SubSeq(h, m, Len(h))
<1>1. m \in Int /\ Len(h) \in Int /\ Len(b) \in Nat /\ m \in 1 .. Len(h) + 1
  OBVIOUS
<1>2. \A i \in m .. Len(h) : h[i] \in Labels
  BY <1>1
<1>3. /\ t \in Seq(Labels) /\ Len(t) = Len(b)
      /\ \A i \in 1 .. Len(h) - m + 1 : t[i] = h[m + i - 1]
  <2> HIDE DEF m
  <2>1. /\ t \in Seq(Labels) /\ Len(t) = IF m <= Len(h) THEN Len(h) - m + 1 ELSE 0
        /\ \A i \in 1 .. Len(h) - m + 1 : t[i] = h[m + i - 1]
    BY <1>1, <1>2, SubSeqProperties
  <2>2. (IF m <= Len(h) THEN Len(h) - m + 1 ELSE 0) = Len(b)
    BY <1>1 DEF m
  <2> QED
    BY <2>1, <2>2
<1>4. \A i \in 1 .. Len(b) : t[i] = h[Len(h) - Len(b) + i]
  BY <1>1, <1>3
<1>5. Below(h, b) <=> t = b
  BY DEF Below
<1> HIDE DEF t
<1>6. t = b <=> \A i \in 1 .. Len(b) : b[i] = t[i]
  BY <1>3, SeqEqual
<1> QED
  BY <1>4, <1>5, <1>6

\* A name one label longer is below a third only if the shorter one is, or is it.
LEMMA OneLabelLonger ==
  ASSUME NEW h \in Seq(Labels), NEW b \in Seq(Labels), NEW x \in Seq(Labels),
         Below(h, b), Len(h) = Len(b) + 1, Below(h, x)
  PROVE  b = x \/ Below(b, x)
<1>1. Len(h) > Len(b) /\ Len(h) > Len(x) /\ Len(b) \in Nat /\ Len(x) \in Nat
  BY DEF Below
<1>2. \A i \in 1 .. Len(b) : b[i] = h[i + 1]
  BY <1>1, BelowElements
<1>3. \A i \in 1 .. Len(x) : x[i] = h[Len(h) - Len(x) + i]
  BY <1>1, BelowElements
<1>4. \A i \in 1 .. Len(x) : x[i] = b[Len(b) - Len(x) + i]
  <2> SUFFICES ASSUME NEW i \in 1 .. Len(x) PROVE x[i] = b[Len(b) - Len(x) + i]
    OBVIOUS
  <2>1. Len(b) - Len(x) + i \in 1 .. Len(b) /\ (Len(b) - Len(x) + i) + 1 = Len(h) - Len(x) + i
    BY <1>1
  <2> QED
    BY <1>2, <1>3, <2>1
<1>5. CASE Len(b) = Len(x)
  <2>1. \A i \in 1 .. Len(b) : b[i] = x[i]
    BY <1>1, <1>4, <1>5
  <2> QED
    BY <1>5, <2>1, SeqEqual
<1>6. CASE Len(b) > Len(x)
  BY <1>4, <1>6, BelowElements
<1> QED
  BY <1>1, <1>5, <1>6

\* The patterns of a rule, and its host as a name.
LEMMA RuleFacts ==
  ASSUME NEW r \in Rules
  PROVE  /\ Parsed[r].host.base \in Hosts /\ Parsed[r].host.base \in Seq(Labels)
         /\ Alternatives(Parsed[r].protocol) \subseteq Protocols
         /\ Alternatives(Parsed[r].port) \subseteq Ports
         /\ Alternatives(Parsed[r].file) \subseteq Paths
<1>1. Parsed[r] \in Rule
  BY PlanningAssumption
<1>2. /\ Parsed[r].host.base \in Hosts
      /\ Parsed[r].protocol.alts \in Seq(Protocols)
      /\ Parsed[r].port.alts \in Seq(Ports)
      /\ Parsed[r].file.alts \in Seq(Paths)
  BY <1>1 DEF Rule, HostPattern, Pattern
<1> QED
  BY <1>2, HostsAssumption DEF Alternatives

\* The path the planner starts from is one that the rule matches.
LEMMA InitialPathMatches ==
  ASSUME NEW p \in Pattern(Paths), NEW path \in initialPath(p)
  PROVE  full(p, path)
<1>1. CASE full(p, "/")
  BY <1>1 DEF initialPath
<1>2. CASE ~full(p, "/")
  <2>1. p.kind = "finite" /\ Len(p.alts) = 1 /\ path \in Alternatives(p)
    BY <1>2 DEF initialPath, finite
  <2>2. p.alts \in Seq(Paths) /\ p.anchored \in BOOLEAN
    BY DEF Pattern
  <2> QED
    BY <2>1, <2>2 DEF full, Alternatives
<1> QED
  BY <1>1, <1>2

\* An exclusion that matches a host which no rule names, right below the base of
\* a wildcard, takes away every host there.
LEMMA ExclusionCovers ==
  ASSUME NEW x \in Rules, NEW r \in Rules, NEW h \in Hosts, Below(h, Parsed[r].host.base),
         Len(h) = Len(Parsed[r].host.base) + 1, h # Parsed[x].host.base,
         hostMatches(Parsed[x].host, h)
  PROVE  exclusionCoversDiscoveryHosts(Parsed[x].host, Parsed[r].host)
<1>1. h \in Seq(Labels) /\ Parsed[r].host.base \in Seq(Labels) /\ Parsed[x].host.base \in Seq(Labels)
  BY RuleFacts, HostsAssumption
<1>2. CASE Parsed[x].host.kind \in {"any", "loose"}
  BY <1>2 DEF exclusionCoversDiscoveryHosts
<1>3. CASE Parsed[x].host.kind \notin {"any", "loose"}
  <2>1. Parsed[x].host.kind \in {"deep", "label", "optdeep", "optlabel"} /\ Below(h, Parsed[x].host.base)
    BY <1>3 DEF hostMatches
  <2>2. Parsed[r].host.base = Parsed[x].host.base \/ Below(Parsed[r].host.base, Parsed[x].host.base)
    BY <1>1, <2>1, OneLabelLonger
  <2> QED
    BY <2>1, <2>2 DEF exclusionCoversDiscoveryHosts, narrowWildcard, optionalWildcard
<1> QED
  BY <1>2, <1>3

\* The default port, left out of an endpoint's URL, is put back.
LEMMA LocatedEndpoint ==
  ASSUME NEW protocol \in Protocols, NEW host, NEW port \in Ports, NEW path
  PROVE  LET t == Located(endpointURL(protocol, host, port, path)) IN
         t.protocol = protocol /\ t.host = host /\ t.port = port /\ t.path = path
<1> DEFINE u == endpointURL(protocol, host, port, path)
<1>1. /\ u = [protocol |-> protocol, host |-> host, path |-> path,
              port |-> IF port = DefaultPort(protocol) THEN "" ELSE port]
      /\ u.protocol = protocol /\ u.host = host /\ u.path = path
      /\ u.port = IF port = DefaultPort(protocol) THEN "" ELSE port
  BY DEF endpointURL
<1>2. port # ""
  BY DEF Ports
<1>3. /\ Located(u).protocol = u.protocol /\ Located(u).host = u.host /\ Located(u).path = u.path
      /\ Located(u).port = IF u.port = "" THEN DefaultPort(u.protocol) ELSE u.port
  <2> DEFINE out == IF port = DefaultPort(protocol) THEN "" ELSE port
  <2>1. u = [protocol |-> protocol, host |-> host, path |-> path, port |-> out]
    BY <1>1
  <2> HIDE DEF u, out
  <2> QED
    BY <2>1 DEF Located
<1> QED
  BY <1>1, <1>2, <1>3

\* Below the root of a rule whose basis stands there is a host that may be contacted.
LEMMA BasisLeadsToHosts ==
  ASSUME NEW sc \in Scope, NEW root, NEW r, discoverySourceBasisAllowed(sc, root, r), Exhaustive(r)
  PROVE  FilterDiscoveredHosts(sc, {h \in Hosts : Below(h, root)}) # {}
<1>1. r \in Rules /\ r \in sc.include /\ narrowWildcard(Parsed[r].host) /\ Parsed[r].host.base = root
  BY DEF discoverySourceBasisAllowed, Scope
<1>2. PICK protocol \in finiteProtocols(Parsed[r].protocol), port \in finitePorts(Parsed[r].port),
           path \in initialPath(Parsed[r].file) :
             discoveryCombinationAllowed(sc.exclude, r, protocol, port, path)
  BY DEF discoverySourceBasisAllowed
<1>3. protocol \in Alternatives(Parsed[r].protocol) /\ port \in Alternatives(Parsed[r].port)
  BY <1>2 DEF finiteProtocols, finitePorts
<1>4. protocol \in Protocols /\ port \in Ports
  BY <1>1, <1>3, RuleFacts
<1>5. full(Parsed[r].protocol, protocol) /\ full(Parsed[r].port, port)
  BY <1>3 DEF Exhaustive
<1>6. full(Parsed[r].file, path)
  <2>1. Parsed[r].file \in Pattern(Paths)
    BY <1>1, PlanningAssumption DEF Rule
  <2> QED
    BY <1>2, <2>1, InitialPathMatches
<1>7. PICK h \in Hosts : /\ Below(h, root) /\ Len(h) = Len(root) + 1
                         /\ \A x \in Rules : h # Parsed[x].host.base
  BY <1>1, HostsAssumption
<1> DEFINE u == endpointURL(protocol, h, port, path)
           t == Located(u)
<1>8. t.protocol = protocol /\ t.host = h /\ t.port = port /\ t.path = path
  BY <1>4, LocatedEndpoint
<1>9. u \in Endpoints(r, h)
  BY <1>2 DEF Endpoints
<1> HIDE DEF u, t
<1>10. hostMatches(Parsed[r].host, h)
  BY <1>1, <1>7 DEF hostMatches, narrowWildcard
<1>11. matches(r, t)
  BY <1>5, <1>6, <1>8, <1>10 DEF matches
<1>12. ASSUME NEW x \in sc.exclude PROVE ~matches(x, t)
  <2> SUFFICES ASSUME matches(x, t) PROVE FALSE
    OBVIOUS
  <2>1. x \in Rules
    BY DEF Scope
  <2>2. /\ full(Parsed[x].protocol, protocol) /\ full(Parsed[x].port, port)
        /\ full(Parsed[x].file, path) /\ hostMatches(Parsed[x].host, h)
    BY <1>8 DEF matches
  <2>3. ~exclusionCoversDiscoveryHosts(Parsed[x].host, Parsed[r].host)
    BY <1>2, <2>2 DEF discoveryCombinationAllowed
  <2> QED
    BY <1>1, <1>7, <2>1, <2>2, <2>3, ExclusionCovers
<1>13. Allows(sc, u)
  BY <1>1, <1>11, <1>12 DEF Allows, Evaluate, t
<1>14. u \in authorizeHost(sc, h)
  BY <1>1, <1>9, <1>10, <1>13 DEF authorizeHost
<1> QED
  BY <1>7, <1>14 DEF FilterDiscoveredHosts

\* A plan has one root for each domain.
LEMMA OneRootPerDomain ==
  ASSUME NEW k, NEW c \in PlanOf(k).roots, NEW d \in PlanOf(k).roots, c.domain = d.domain
  PROVE  c = d
<1> DEFINE sc == Compiled[k.scope]
           manual == RootsOf[k.manual]
           derived == {r \in sc.include : narrowWildcard(Parsed[r].host)}
           domains == {Parsed[r].host.base : r \in derived} \cup {m.domain : m \in manual}
           Of(e) == {r \in derived : Parsed[r].host.base = e}
           Reason(e) == IF \E m \in manual : m.domain = e
                        THEN (CHOOSE m \in manual : m.domain = e).reason ELSE None
           Root(e) == [domain |-> e, rules |-> Of(e), manual |-> Reason(e)]
<1>1. PlanOf(k).roots = {Root(e) : e \in domains}
  BY DEF PlanOf, Plan
<1> HIDE DEF domains, Of, Reason
<1>2. PICK e \in domains, f \in domains : c = Root(e) /\ d = Root(f)
  BY <1>1
<1>3. c.domain = e /\ d.domain = f
  BY <1>2
<1> QED
  BY <1>2, <1>3

\* What RootsAreUseful says of a run holds of any two plans.
LEMMA RootsAlwaysBased ==
  ASSUME NEW version \in PlanKey, NEW now \in PlanKey
  PROVE  RootsAreBased(version, now)
<1> DEFINE sc == Compiled[now.scope]
           pinned == PlanOf(version).roots
           current == PlanOf(now).roots
<1>1. ASSUME NEW c \in current, AllowsDiscoveryRoot(sc, pinned, current, c.domain)
      PROVE  /\ c.domain \in {o.domain : o \in pinned}
             /\ (c.manual = None /\ \A r \in c.rules : Exhaustive(r))
                  => FilterDiscoveredHosts(sc, {h \in Hosts : Below(h, c.domain)}) # {}
  <2>1. PICK p \in pinned, d \in current :
          /\ p.domain = c.domain /\ d.domain = c.domain
          /\ \/ \E r \in p.rules \cap d.rules :
                  discoverySourceBasisAllowed(sc, c.domain, r) \/ (p.manual # None /\ d.manual # None)
             \/ p.manual # None /\ p.manual = d.manual
    BY <1>1 DEF AllowsDiscoveryRoot
  <2>2. d = c
    BY <2>1, OneRootPerDomain
  <2>3. ASSUME c.manual = None, \A r \in c.rules : Exhaustive(r)
        PROVE  FilterDiscoveredHosts(sc, {h \in Hosts : Below(h, c.domain)}) # {}
    <3>1. PICK r \in c.rules : discoverySourceBasisAllowed(sc, c.domain, r)
      BY <2>1, <2>2, <2>3
    <3>2. sc \in Scope
      BY ScopeAssumption DEF PlanKey
    <3> QED
      BY <2>3, <3>1, <3>2, BasisLeadsToHosts
  <2> QED
    BY <2>1, <2>3
<1> QED
  BY <1>1 DEF RootsAreBased

\* RootsAreUseful for any constants: a discovery root that a run may query is one
\* of the plan the run was started from, and some host below it may be contacted.
THEOREM RootsStayUseful == Spec => []RootsAreUseful
<1>1. ScopeInv => RootsAreUseful
  <2> SUFFICES ASSUME ScopeInv, NEW q \in Active
               PROVE  <<runs[q].version, runs[q].current>> \in RootsHold
    BY DEF RootsAreUseful
  <2>1. runs[q] \in Run
    BY DEF Active, ScopeInv, TypeOK
  <2>2. PICK version \in PlanKey, now \in PlanKey : version = runs[q].version /\ now = runs[q].current
    BY <2>1 DEF Run
  <2>3. RootsAreBased(version, now)
    BY RootsAlwaysBased
  <2> QED
    BY <2>2, <2>3 DEF RootsHold
<1> QED
  BY <1>1, ScopeInvariant, PTL
=============================================================================
