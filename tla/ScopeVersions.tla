--------------------------- MODULE ScopeVersions ---------------------------
(***************************************************************************)
(* The scope versions of one program: every run loads the scope file,      *)
(* compares its plan with the latest version in force and starts, or is    *)
(* blocked until a person accepts the expansion.  Requests, resumes of     *)
(* older runs, the repair of the file reference, acknowledgements from the *)
(* console and edits of the file interleave.                               *)
(*                                                                         *)
(* A version is identified by its target plan digest, hence by the scope   *)
(* and the manual roots the plan was made from.  The base is selected FOR  *)
(* UPDATE under READ COMMITTED: a transaction that waited for the lock     *)
(* keeps the row it had found, so selecting and recording are two steps.   *)
(***************************************************************************)
EXTENDS TargetPlanning

CONSTANTS
  Contents,    \* contents the scope file may have, by digest
  Compiled,    \* the rules of each
  Manuals,     \* lists of manual roots a request may carry
  RootsOf,     \* the roots on each list
  NoManual,    \* the empty list
  Refs,        \* references that name a scope file
  Requests,    \* runs requested at once
  MaxEdits,    \* bound: edits of scope files
  MaxVersions, \* bound: rows of scope_versions
  MaxRuns      \* bound: requests

ASSUME ScopeAssumption ==
  /\ Compiled \in [Contents -> {sc \in Scope : sc.include # {}}]
  /\ RootsOf \in [Manuals -> SUBSET ManualRoot]
  /\ NoManual \in Manuals /\ RootsOf[NoManual] = {}
  /\ MaxEdits \in Nat /\ MaxVersions \in Nat \ {0} /\ MaxRuns \in Nat

PlanKey == [scope : Contents, manual : Manuals]
Row == [ref : Refs, created : Nat, expands : BOOLEAN, acked : BOOLEAN]

ASSUME NoneIsNoRow == None \notin PlanKey \cup Row

PlanOf(k) == Plan(Compiled[k.scope], RootsOf[k.manual])
Executable == UNION {IF HasExecutableTargets(PlanOf(k)) THEN {k} ELSE {} : k \in PlanKey}

VARIABLES
  file,     \* the scope files
  program,  \* the programs row: reference and plan digest
  versions, \* the scope_versions rows
  stamp,    \* the newest created_at
  req,      \* the requests under way
  runs,     \* the engine a request has started, for a new run or a resumed one
  repair,   \* the scope update command: reference and plan it has checked
  granted,  \* history: scopes a person has accepted
  loaded,   \* history: references with the scope they were loaded with
  edits,
  asked

history == <<granted, loaded>>
vars == <<file, program, versions, stamp, req, runs, repair, history, edits, asked>>

Request == [pc : {"idle", "planned", "based", "blocked"},
            ref : Refs \cup {None}, ack : BOOLEAN,
            resume : PlanKey \cup {None}, plan : PlanKey \cup {None}, base : PlanKey \cup {None}]
Run == [version : PlanKey, current : PlanKey, active : BOOLEAN]
NoRequest == [pc |-> "idle", ref |-> None, ack |-> FALSE,
              resume |-> None, plan |-> None, base |-> None]

\* Types; a row is not newer than the newest, and a request under way
\* has its plan.
TypeOK ==
  /\ file \in [Refs -> Contents]
  /\ program \in [ref : Refs, plan : PlanKey]
  /\ versions \in [PlanKey -> Row \cup {None}]
  /\ stamp \in Nat
  /\ req \in [Requests -> Request]
  /\ runs \in [Requests -> Run \cup {None}]
  /\ repair \in [ref : Refs, plan : PlanKey] \cup {None}
  /\ granted \subseteq Contents
  /\ loaded \subseteq Refs \X Contents
  /\ edits \in 0..MaxEdits
  /\ asked \in 0..MaxRuns
  /\ \A k \in PlanKey : versions[k] # None => versions[k].created <= stamp
  /\ \A q \in Requests : req[q].pc # "idle" => req[q].plan # None

\* The program has just been created from one of the scope files, without
\* manual roots: the creator's version is acknowledged from the start.
Init ==
  /\ file \in [Refs -> Contents]
  /\ \E f \in Refs :
       LET k == [scope |-> file[f], manual |-> NoManual] IN
       /\ k \in Executable
       /\ program = [ref |-> f, plan |-> k]
       /\ versions = [j \in PlanKey |->
                        IF j = k THEN [ref |-> f, created |-> 1, expands |-> FALSE, acked |-> TRUE]
                        ELSE None]
       /\ granted = {k.scope}
       /\ loaded = {<<f, k.scope>>}
  /\ stamp = 1
  /\ req = [q \in Requests |-> NoRequest]
  /\ runs = [q \in Requests |-> None]
  /\ repair = None
  /\ edits = 0
  /\ asked = 0

EditFile(f, sc) ==
  /\ edits < MaxEdits
  /\ file[f] # sc
  /\ file' = [file EXCEPT ![f] = sc]
  /\ edits' = edits + 1
  /\ UNCHANGED <<program, versions, stamp, req, runs, repair, history, asked>>

-----------------------------------------------------------------------------
(* orchestration.Service.Run.                                              *)

\* A request of the scheduler or the CLI, for a new run or to resume one that
\* was started, of which it reads the original scope version.  The file is
\* loaded and planned from; a plan without a target is refused.  The scheduler
\* uses the program's reference, no manual roots and no acknowledgement.
Submit(q, f, m, ack, r) ==
  LET k == [scope |-> file[f], manual |-> m] IN
  /\ req[q].pc \in {"idle", "blocked"}
  /\ runs[q] # None => ~ runs[q].active
  /\ asked < MaxRuns
  /\ r # None => runs[r] # None
  /\ k \in Executable
  /\ req' = [req EXCEPT ![q] = [NoRequest EXCEPT
               !.pc = "planned", !.ref = f, !.plan = k, !.ack = ack,
               !.resume = IF r = None THEN None ELSE runs[r].version]]
  /\ loaded' = loaded \cup {<<f, k.scope>>}
  /\ asked' = asked + 1
  /\ UNCHANGED <<file, program, versions, stamp, runs, repair, granted, edits>>

InForce(k) == versions[k] # None /\ (~ versions[k].expands \/ versions[k].acked)

\* Any version is compared with, pending ones too.
MutSelectBase(q) ==
  /\ req[q].pc = "planned"
  /\ \E k \in PlanKey :
       /\ versions[k] # None
       /\ \A j \in PlanKey : versions[j] # None => versions[j].created <= versions[k].created
       /\ req' = [req EXCEPT ![q].base = k, ![q].pc = "based"]
  /\ UNCHANGED <<file, program, versions, stamp, runs, repair, history, edits, asked>>

SelectBase(q) ==
  /\ req[q].pc = "planned"
  /\ \E k \in PlanKey :
       /\ InForce(k)
       /\ \A j \in PlanKey : InForce(j) => versions[j].created <= versions[k].created
       /\ req' = [req EXCEPT ![q].base = k, ![q].pc = "based"]
  /\ UNCHANGED <<file, program, versions, stamp, runs, repair, history, edits, asked>>

difference(left, right) == left \ right

ExpandsScope(base, k) ==
  \/ difference(Compiled[k.scope].include, Compiled[base.scope].include) # {}
  \/ difference(Compiled[base.scope].exclude, Compiled[k.scope].exclude) # {}

\* The run proceeds with the scope it has loaded: a new one is bound to this
\* version, a resumed one stays bound to its own.
Proceed(q) ==
  /\ runs' = [runs EXCEPT ![q] =
       [version |-> IF req[q].resume = None THEN req[q].plan ELSE req[q].resume,
        current |-> req[q].plan, active |-> TRUE]]
  /\ req' = [req EXCEPT ![q] = NoRequest]

Unchanged(q) ==
  /\ req[q].pc = "based" /\ req[q].base = req[q].plan
  /\ Proceed(q)
  /\ UNCHANGED <<file, program, versions, stamp, repair, history, edits, asked>>

\* INSERT ... ON CONFLICT DO UPDATE: an older row of the same plan keeps its
\* age, its reference and what it expanded, and may become acknowledged.
Insert(k, f, expands, acked) ==
  IF versions[k] = None
  THEN /\ stamp < MaxVersions
       /\ stamp' = stamp + 1
       /\ versions' = [versions EXCEPT ![k] =
             [ref |-> f, created |-> stamp + 1, expands |-> expands, acked |-> acked]]
  ELSE /\ versions' = [versions EXCEPT ![k].acked = @ \/ acked]
       /\ UNCHANGED stamp

\* The programs row follows the file even when the run is blocked.
MutRecord(q) ==
  LET k == req[q].plan
      expands == ExpandsScope(req[q].base, k)
      acked == ~ expands \/ req[q].ack
  IN /\ req[q].pc = "based" /\ req[q].base # k
     /\ Insert(k, req[q].ref, expands, acked)
     /\ program' = [ref |-> req[q].ref, plan |-> k]
     /\ IF acked
        THEN Proceed(q)
        ELSE req' = [req EXCEPT ![q].pc = "blocked"] /\ UNCHANGED runs
     /\ granted' = IF expands /\ acked THEN granted \cup {k.scope} ELSE granted
     /\ UNCHANGED <<file, repair, loaded, edits, asked>>

\* CheckAndRecordScopeSnapshot for a plan that differs from the base.
Record(q) ==
  LET k == req[q].plan
      expands == ExpandsScope(req[q].base, k)
      acked == ~ expands \/ req[q].ack
  IN /\ req[q].pc = "based" /\ req[q].base # k
     /\ Insert(k, req[q].ref, expands, acked)
     /\ IF acked
        THEN program' = [ref |-> req[q].ref, plan |-> k] /\ Proceed(q)
        ELSE req' = [req EXCEPT ![q].pc = "blocked"] /\ UNCHANGED <<program, runs>>
     /\ granted' = IF expands /\ acked THEN granted \cup {k.scope} ELSE granted
     /\ UNCHANGED <<file, repair, loaded, edits, asked>>

\* The engine pauses, fails or is interrupted; the run can be resumed.
StopRun(q) ==
  /\ runs[q] # None /\ runs[q].active
  /\ runs' = [runs EXCEPT ![q].active = FALSE]
  /\ UNCHANGED <<file, program, versions, stamp, req, repair, history, edits, asked>>

-----------------------------------------------------------------------------
(* The operator.                                                           *)

\* From ListPendingScopeExpansions.
AcknowledgeScopeVersion(k) ==
  /\ versions[k] # None /\ versions[k].expands /\ ~ versions[k].acked
  /\ versions' = [versions EXCEPT ![k].acked = TRUE]
  /\ program' = [ref |-> versions[k].ref, plan |-> k]
  /\ granted' = granted \cup {k.scope}
  /\ UNCHANGED <<file, stamp, req, runs, repair, loaded, edits, asked>>

\* platform scope update: the file under the new reference must plan to what
\* the programs row says ...
scopeUpdateCommand(f) ==
  /\ repair = None
  /\ program.plan = [scope |-> file[f], manual |-> NoManual]
  /\ repair' = [ref |-> f, plan |-> program.plan]
  /\ loaded' = loaded \cup {<<f, file[f]>>}
  /\ UNCHANGED <<file, program, versions, stamp, req, runs, granted, edits, asked>>

\* Without the digest predicates.
MutRepair ==
  /\ repair # None /\ versions[repair.plan] # None
  /\ program' = [program EXCEPT !.ref = repair.ref]
  /\ versions' = [versions EXCEPT ![repair.plan].ref = repair.ref]
  /\ repair' = None
  /\ UNCHANGED <<file, stamp, req, runs, history, edits, asked>>

\* ... and the row must still say so when the reference is changed.
RepairProgramScopeReference ==
  /\ repair # None /\ versions[repair.plan] # None
  /\ IF program.plan = repair.plan
     THEN /\ program' = [program EXCEPT !.ref = repair.ref]
          /\ versions' = [versions EXCEPT ![repair.plan].ref = repair.ref]
     ELSE UNCHANGED <<program, versions>>
  /\ repair' = None
  /\ UNCHANGED <<file, stamp, req, runs, history, edits, asked>>

Next ==
  \/ \E f \in Refs, sc \in Contents : EditFile(f, sc)
  \/ \E q \in Requests :
       \/ \E f \in Refs, m \in Manuals, ack \in BOOLEAN, r \in Requests \cup {None} :
            Submit(q, f, m, ack, r)
       \/ SelectBase(q) \/ Unchanged(q) \/ Record(q) \/ StopRun(q)
  \/ \E k \in PlanKey : AcknowledgeScopeVersion(k)
  \/ \E f \in Refs : scopeUpdateCommand(f)
  \/ RepairProgramScopeReference

Spec == Init /\ [][Next]_vars

-----------------------------------------------------------------------------
(* Properties.                                                             *)

Active == {q \in Requests : runs[q] # None /\ runs[q].active}

\* What an engine may contact under the scope now loaded, of a run that was
\* planned from the given version: the targets prepared from the version's
\* seeds and from discovery, by the run's first engine or by this one, unless
\* a provider refuses them.
Contacted(version, now) ==
  LET Prepared(k) ==
        executeTargetingPrepare(Compiled[k.scope], InitialURLs(PlanOf(version)),
          discoverSubdomains(Compiled[k.scope], PlanOf(version).roots, PlanOf(k).roots))
  IN UNION {Prepared(k) : k \in {k \in {version, now} :
              ValidateTargets(Compiled[now.scope], Prepared(k))}}

\* A scope that allows all that may be contacted, and all that the loaded
\* scope allows.
Covers(g, version, now) ==
  /\ Allowed(Compiled[now.scope]) \subseteq Allowed(Compiled[g])
  /\ ValidateTargets(Compiled[g], Contacted(version, now))

Covered == UNION {{<<v[1], v[2], g>> : g \in {g \in Contents : Covers(g, v[1], v[2])}} :
                    v \in PlanKey \X PlanKey}

\* No run reaches beyond what a person accepted: whatever chain of narrowings,
\* blocked attempts, acknowledgements and resumes led to it, one scope that
\* the program's creator or an operator agreed to allows all that its scope
\* allows and every URL that its steps contact, those prepared before a
\* resume under another scope included.
RunsAreAuthorized ==
  \A q \in Active : \E g \in granted : <<runs[q].version, runs[q].current, g>> \in Covered

\* The programs row never shows a scope that still waits to be accepted.
ProgramIsInForce == InForce(program.plan)

\* Versions, requests and the programs row are consistent.
VersionsAgree == TypeOK /\ ProgramIsInForce

\* Where the programs row, or a version, says its scope is to be found, that
\* very scope was found: neither a repair nor an acknowledgement mixes the
\* reference of one version with the plan of another.
ReferencesLocate ==
  /\ <<program.ref, program.plan.scope>> \in loaded
  /\ \A k \in PlanKey : versions[k] # None => <<versions[k].ref, k.scope>> \in loaded

\* The patterns of a rule match all that the planner lists from them.
Exhaustive(r) ==
  /\ \A v \in Alternatives(Parsed[r].protocol) : full(Parsed[r].protocol, v)
  /\ \A v \in Alternatives(Parsed[r].port) : full(Parsed[r].port, v)

\* What a run started from one plan may query under another: roots of both,
\* below which the scope now in force still lets some host be contacted,
\* unless the operator asked for the root.
RootsAreBased(version, now) ==
  LET sc == Compiled[now.scope]
      pinned == PlanOf(version).roots
      current == PlanOf(now).roots
  IN \A c \in current :
       AllowsDiscoveryRoot(sc, pinned, current, c.domain)
         => /\ c.domain \in {o.domain : o \in pinned}
            /\ (c.manual = None /\ \A r \in c.rules : Exhaustive(r))
                 => FilterDiscoveredHosts(sc, {h \in Hosts : Below(h, c.domain)}) # {}

RootsHold == UNION {{<<k, j>> : j \in {j \in PlanKey : RootsAreBased(k, j)}} : k \in PlanKey}

\* A discovery root that a run may query is a root of the plan the run was
\* started from and leads to hosts that the scope in force lets it contact.
RootsAreUseful == \A q \in Active : <<runs[q].version, runs[q].current>> \in RootsHold
=============================================================================
